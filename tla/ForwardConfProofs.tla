-------------------------- MODULE ForwardConfProofs --------------------------
(***************************************************************************)
(* Proofs about ForwardConf, for files of any length with any lines: the    *)
(* forward table is the file, two lines at a time.                          *)
(***************************************************************************)
EXTENDS ForwardConf, TLAPS

\* The line that the parser has used last, whether or not it is in the table.
LastSeen == IF isorigin THEN LastUsed ELSE origin.at

\* Before the custodian's line nothing has been used, after it entry 0 is there.
Phase ==
    IF is_custodian_bp_endpoint_id_parsed
    THEN Len(table) >= 1 /\ custodian = table[1].origin
    ELSE table = <<>> /\ isorigin

\* The first line of a pair is kept until the second comes.
Pending ==
    ~isorigin => /\ Follows(origin.at, LastUsed)
                 /\ Says(origin.at, origin.uri, origin.iaddr)

\* No line that counts has been passed over.
UpToDate == reading # "crashed" => \A i \in DOMAIN lines : Counts(i) => i <= LastSeen

ConfInv == TypeOK /\ Phase /\ Pending /\ UpToDate /\ PairsAsWritten

-----------------------------------------------------------------------------
(***************************************************************************)
(* Lines.                                                                  *)
(***************************************************************************)
LEMMA LinesHaveWords ==
    ASSUME NEW line \in Line
    PROVE  /\ line \in Seq(Seq(Word) \ {<<>>})
           /\ line # <<>> => /\ line[1] \in Seq(Word) /\ Len(line[1]) >= 1
                             /\ line[1][1] \in Word
PROOF
  <1>1. line \in Seq(Seq(Word) \ {<<>>})
    BY LineAssumption
  <1>2. ASSUME line # <<>> PROVE line[1] \in Seq(Word) \ {<<>>}
    BY <1>1, <1>2
  <1>3. ASSUME NEW s \in Seq(Word) \ {<<>>} PROVE Len(s) >= 1 /\ s[1] \in Word
    OBVIOUS
  <1> QED BY <1>1, <1>2, <1>3

LEMMA UrisAreTyped ==
    ASSUME NEW line \in Line, ~Skipped(line)
    PROVE  /\ Len(line) >= 1
           /\ NamesCustodian(line) => CustodianOf(line) \in Uri
           /\ Complete(line) => UriOf(line[1]) \in Uri /\ inet_addr(line[2]) \in Iaddr
PROOF
  <1>1. line \in Seq(Seq(Word) \ {<<>>}) /\ line # <<>>
    BY LinesHaveWords DEF Skipped
  <1>2. Len(line) >= 1
    BY <1>1
  <1>3. ASSUME NEW s \in Seq(Word), Len(s) >= 2 PROVE UriOf(s) \in Uri
    BY <1>3 DEF UriOf, Uri
  <1>4. ASSUME Len(line) >= 2 PROVE line[2] \in Seq(Word) \ {<<>>}
    BY <1>1, <1>4
  <1>5. ASSUME NEW s \in Seq(Word) \ {<<>>} PROVE s[1] \in Word
    OBVIOUS
  <1>6. NamesCustodian(line) => CustodianOf(line) \in Uri
    <2>1. CASE Len(line[1]) >= 2
      BY <2>1, <1>1, <1>3, LinesHaveWords DEF CustodianOf
    <2>2. CASE Len(line[1]) < 2
      BY <2>2, <1>1, <1>4, <1>5, LinesHaveWords DEF CustodianOf, NamesCustodian, Uri
    <2> QED BY <2>1, <2>2, <1>1, LinesHaveWords
  <1>7. Complete(line) => UriOf(line[1]) \in Uri
    BY <1>1, <1>3, LinesHaveWords DEF Complete
  <1>8. inet_addr(line[2]) \in Iaddr
    BY DEF inet_addr, Iaddr
  <1> QED BY <1>2, <1>6, <1>7, <1>8

\* A line that is read leaves the lines before it as they are.
LEMMA LinesStay ==
    ASSUME lines \in Seq(Line), NEW line \in Line, lines' = Append(lines, line)
    PROVE  /\ lines' \in Seq(Line)
           /\ Len(lines') = Len(lines) + 1
           /\ \A i \in DOMAIN lines : i \in DOMAIN lines' /\ lines'[i] = lines[i]
           /\ \A i \in DOMAIN lines' : i \in DOMAIN lines \/ i = Len(lines')
           /\ lines'[Len(lines')] = line
           /\ \A i \in DOMAIN lines : Counts(i)' <=> Counts(i)
           /\ \A i \in Nat : i = Len(lines) + 1 => (Counts(i)' <=> ~Skipped(line))
           /\ \A i \in Nat, j \in Nat : Follows(j, i) => Follows(j, i)'
           /\ \A i \in DOMAIN lines : \A u, a : Says(i, u, a) => Says(i, u, a)'
PROOF
  <1>1. /\ lines' \in Seq(Line) /\ Len(lines') = Len(lines) + 1
        /\ lines'[Len(lines')] = line
        /\ \A i \in DOMAIN lines : i \in DOMAIN lines' /\ lines'[i] = lines[i]
        /\ \A i \in DOMAIN lines' : i \in DOMAIN lines \/ i = Len(lines')
        /\ Len(lines') \in DOMAIN lines'
    OBVIOUS
  <1>2. \A i \in DOMAIN lines : Counts(i)' <=> Counts(i)
    BY <1>1 DEF Counts
  <1>3. ASSUME NEW i \in Nat, i = Len(lines) + 1 PROVE Counts(i)' <=> ~Skipped(line)
    <2>1. i \in DOMAIN lines' /\ lines'[i] = line
      BY <1>1, <1>3
    <2> QED BY <2>1 DEF Counts, Skipped
  <1>4. ASSUME NEW i \in Nat, NEW j \in Nat, Follows(j, i) PROVE Follows(j, i)'
    <2>1. j \in DOMAIN lines /\ j \in 1..Len(lines) /\ Counts(j)'
      BY <1>2, <1>4 DEF Follows, Counts
    <2>2. ASSUME NEW k \in i+1..j-1 PROVE ~Counts(k)'
      <3>1. k \in DOMAIN lines
        BY <2>1
      <3> QED BY <3>1, <1>2, <1>4 DEF Follows
    <2> QED BY <2>1, <2>2, <1>4 DEF Follows
  <1>5. \A i \in DOMAIN lines : \A u, a : Says(i, u, a) => Says(i, u, a)'
    BY <1>1 DEF Says
  <1> QED BY <1>1, <1>2, <1>3, <1>4, <1>5

-----------------------------------------------------------------------------
(***************************************************************************)
(* The table.                                                              *)
(***************************************************************************)
\* Entry n is as the file says.
Entry(n) ==
    LET e == table[n] IN
    IF n = 1
    THEN Follows(e.from, 0) /\ e.origin = CustodianOf(lines[e.from]) /\ e.to = 0
    ELSE /\ Follows(e.from, IF n = 2 THEN table[1].from ELSE table[n-1].to)
         /\ Follows(e.to, e.from)
         /\ Says(e.from, e.origin, e.origin_iaddr)
         /\ Says(e.to, e.next, e.next_iaddr)

LEMMA EntriesAreTyped ==
    ASSUME TypeOK
    PROVE  /\ Len(table) \in Nat /\ DOMAIN table = 1..Len(table)
           /\ table = <<>> <=> Len(table) = 0
           /\ \A n \in DOMAIN table : table[n].from \in Nat /\ table[n].to \in Nat
           /\ LastUsed \in Nat /\ LastSeen \in Nat
PROOF
  <1>1. table \in Seq(FORWARD_STRUCT) /\ origin.at \in Nat
    BY DEF TypeOK
  <1>2. ASSUME NEW n \in DOMAIN table PROVE table[n].from \in Nat /\ table[n].to \in Nat
    <2>1. table[n] \in FORWARD_STRUCT
      BY <1>1
    <2> QED BY <2>1 DEF FORWARD_STRUCT
  <1>3. LastUsed \in Nat
    BY <1>1, <1>2 DEF LastUsed
  <1> QED BY <1>1, <1>2, <1>3 DEF LastSeen

LEMMA EntryStays ==
    ASSUME TypeOK, NEW line \in Line, lines' = Append(lines, line),
           NEW n \in DOMAIN table, Entry(n),
           \A i \in DOMAIN table : table'[i] = table[i]
    PROVE  Entry(n)'
PROOF
  <1>1. lines \in Seq(Line) /\ n \in Nat /\ n >= 1
    BY EntriesAreTyped DEF TypeOK
  <1>2. table'[n] = table[n] /\ table[n].from \in Nat /\ table[n].to \in Nat
    BY EntriesAreTyped
  <1>3. \A i, j \in Nat : Follows(j, i) => Follows(j, i)' /\ j \in DOMAIN lines
    BY <1>1, LinesStay DEF Follows, Counts
  <1>4. CASE n = 1
    BY <1>1, <1>2, <1>3, <1>4, LinesStay DEF Entry
  <1>5. CASE n # 1
    <2> DEFINE before == IF n = 2 THEN table[1].from ELSE table[n-1].to
    <2>1. before \in Nat /\ before' = before
      BY <1>1, <1>5, EntriesAreTyped
    <2>2. /\ Follows(table[n].from, before) /\ Follows(table[n].to, table[n].from)
          /\ Says(table[n].from, table[n].origin, table[n].origin_iaddr)
          /\ Says(table[n].to, table[n].next, table[n].next_iaddr)
      BY <1>5 DEF Entry
    <2>3. Follows(table[n].from, before)' /\ Follows(table[n].to, table[n].from)'
      BY <1>2, <1>3, <2>1, <2>2
    <2>4. /\ Says(table[n].from, table[n].origin, table[n].origin_iaddr)'
          /\ Says(table[n].to, table[n].next, table[n].next_iaddr)'
      BY <1>1, <1>2, <1>3, <2>1, <2>2, LinesStay
    <2> QED BY <1>5, <2>3, <2>4 DEF Entry
  <1> QED BY <1>4, <1>5

LEMMA PairsAreEntries == PairsAsWritten <=> \A n \in DOMAIN table : Entry(n)
PROOF BY DEF PairsAsWritten, Entry

\* A line that is read and not used.
LEMMA EntriesStay ==
    ASSUME TypeOK, Pending, PairsAsWritten, NEW line \in Line,
           lines' = Append(lines, line), UNCHANGED <<isorigin, origin, table>>
    PROVE  Pending' /\ PairsAsWritten'
PROOF
  <1>1. lines \in Seq(Line) /\ LastUsed' = LastUsed /\ LastUsed \in Nat
    BY EntriesAreTyped DEF TypeOK, LastUsed
  <1>2. Pending'
    <2> SUFFICES ASSUME ~isorigin PROVE Pending'
      BY DEF Pending
    <2>1. Follows(origin.at, LastUsed) /\ Says(origin.at, origin.uri, origin.iaddr)
      BY DEF Pending
    <2>2. origin.at \in Nat /\ origin.at \in DOMAIN lines
      BY <2>1 DEF Follows, Counts, TypeOK
    <2>3. Follows(origin.at, LastUsed)'
      BY <1>1, <2>1, <2>2, LinesStay
    <2>4. Says(origin.at, origin.uri, origin.iaddr)'
      BY <1>1, <2>1, <2>2, LinesStay
    <2> QED BY <2>3, <2>4 DEF Pending
  <1>3. PairsAsWritten'
    <2> SUFFICES ASSUME NEW n \in DOMAIN table PROVE Entry(n)'
      BY DEF PairsAsWritten, Entry
    <2> QED BY EntryStays, PairsAreEntries
  <1> QED BY <1>2, <1>3

-----------------------------------------------------------------------------
(***************************************************************************)
(* The invariant, line by line.                                            *)
(***************************************************************************)
LEMMA ConfInit == Init => ConfInv
PROOF
  <1> SUFFICES ASSUME Init PROVE ConfInv
    OBVIOUS
  <1> USE DEF Init
  <1>1. TypeOK
    <2>1. NoUri \in Uris /\ Zero \in Iaddr
      BY DEF Uris, Iaddr
    <2>2. origin \in [uri : Uris, iaddr : Iaddr, at : Nat]
      BY <2>1 DEF NoOrigin
    <2>3. <<>> \in Seq(Line) /\ <<>> \in Seq(FORWARD_STRUCT)
      OBVIOUS
    <2> QED BY <2>1, <2>2, <2>3 DEF TypeOK
  <1>2. Phase /\ Pending /\ UpToDate /\ PairsAsWritten
    BY DEF Phase, Pending, UpToDate, PairsAsWritten
  <1> QED BY <1>1, <1>2 DEF ConfInv

LEMMA SkipKeeps == ASSUME ConfInv, NEW line \in Line, Skip(line) PROVE ConfInv'
PROOF
  <1> USE DEF ConfInv
  <1>1. /\ lines' = Append(lines, line) /\ Skipped(line)
        /\ UNCHANGED <<reading, is_custodian_bp_endpoint_id_parsed, custodian, isorigin,
                       origin, table>>
    BY DEF Skip, Take
  <1>2. lines \in Seq(Line)
    BY DEF TypeOK
  <1>3. TypeOK'
    BY <1>1, <1>2, LinesStay DEF TypeOK
  <1>4. Phase'
    BY <1>1 DEF Phase
  <1>5. LastUsed' = LastUsed /\ LastSeen' = LastSeen /\ LastUsed \in Nat
    BY <1>1, EntriesAreTyped DEF LastUsed, LastSeen
  <1>6. Pending' /\ PairsAsWritten'
    BY <1>1, EntriesStay
  <1>7. UpToDate'
    <2> SUFFICES ASSUME reading # "crashed", NEW i \in DOMAIN lines', Counts(i)'
                 PROVE  i <= LastSeen
      BY <1>1, <1>5 DEF UpToDate
    <2>1. i \in DOMAIN lines /\ Counts(i)
      BY <1>1, <1>2, LinesStay
    <2> QED BY <2>1 DEF UpToDate
  <1> QED BY <1>3, <1>4, <1>6, <1>7

\* A line that ends the reading, or the end of the file, changes no entry.
LEMMA StopKeeps ==
    ASSUME ConfInv, EndOfFile \/ \E line \in Line : ParseNull(line)
    PROVE  ConfInv'
PROOF
  <1> USE DEF ConfInv
  <1>1. CASE EndOfFile
    <2>1. reading = "on" /\ reading' = "done"
          /\ UNCHANGED <<is_custodian_bp_endpoint_id_parsed, custodian, isorigin, origin,
                         table, lines>>
      BY <1>1 DEF EndOfFile
    <2>2. TypeOK' /\ Phase'
      BY <2>1 DEF TypeOK, Phase
    <2>3. LastUsed' = LastUsed /\ LastSeen' = LastSeen
      BY <2>1 DEF LastUsed, LastSeen
    <2>4. \A i, j : (Counts(i)' <=> Counts(i)) /\ (Follows(j, i)' <=> Follows(j, i))
      BY <2>1 DEF Counts, Follows
    <2>5. \A i, u, a : Says(i, u, a)' <=> Says(i, u, a)
      BY <2>1 DEF Says
    <2>6. Pending' /\ UpToDate'
      BY <2>1, <2>3, <2>4, <2>5 DEF Pending, UpToDate
    <2>7. PairsAsWritten'
      BY <2>1, <2>4, <2>5 DEF PairsAsWritten
    <2> QED BY <2>2, <2>6, <2>7
  <1>2. ASSUME NEW line \in Line, ParseNull(line) PROVE ConfInv'
    <2>1. /\ lines' = Append(lines, line) /\ reading' = "crashed"
          /\ UNCHANGED <<is_custodian_bp_endpoint_id_parsed, custodian, isorigin, origin,
                         table>>
      BY <1>2 DEF ParseNull, Take
    <2>2. lines \in Seq(Line)
      BY DEF TypeOK
    <2>3. TypeOK' /\ Phase' /\ UpToDate'
      BY <2>1, <2>2, LinesStay DEF TypeOK, Phase, UpToDate
    <2>4. Pending' /\ PairsAsWritten'
      BY <2>1, EntriesStay
    <2> QED BY <2>3, <2>4
  <1> QED BY <1>1, <1>2

\* A line that counts is the next one after the last that was used.
LEMMA NextInLine ==
    ASSUME ConfInv, reading # "crashed", NEW line \in Line, ~Skipped(line),
           lines' = Append(lines, line),
           NEW last \in Nat, last = LastSeen, NEW n \in Nat, n = Len(lines) + 1
    PROVE  /\ n = Len(lines')
           /\ n \in DOMAIN lines' /\ lines'[n] = line
           /\ Follows(n, last)'
           /\ \A i \in DOMAIN lines' : i <= n
PROOF
  <1> USE DEF ConfInv
  <1>1. lines \in Seq(Line)
    BY DEF TypeOK
  <1>2. n = Len(lines') /\ n \in DOMAIN lines' /\ lines'[n] = line /\ Counts(n)'
    BY <1>1, LinesStay
  <1>3. last < n
    <2>1. CASE ~isorigin
      <3>1. last = origin.at /\ Counts(last)
        BY <2>1 DEF Pending, Follows, LastSeen
      <3> QED BY <3>1, <1>1 DEF Counts
    <2>2. CASE isorigin /\ table = <<>>
      BY <2>2, <1>1 DEF LastSeen, LastUsed
    <2>3. CASE isorigin /\ Len(table) = 1
      <3>1. last = table[1].from /\ Entry(1)
        BY <2>3, PairsAreEntries, EntriesAreTyped DEF LastSeen, LastUsed
      <3> QED BY <3>1, <1>1 DEF Entry, Follows, Counts
    <2>4. CASE isorigin /\ Len(table) > 1
      <3>1. last = table[Len(table)].to /\ Entry(Len(table)) /\ Len(table) # 1
        BY <2>4, PairsAreEntries, EntriesAreTyped DEF LastSeen, LastUsed
      <3> QED BY <3>1, <1>1 DEF Entry, Follows, Counts
    <2>5. Len(table) \in Nat /\ (Len(table) = 0 => table = <<>>) /\ isorigin \in BOOLEAN
      BY EntriesAreTyped DEF TypeOK
    <2>6. Len(table) = 0 \/ Len(table) = 1 \/ Len(table) > 1
      <3>1. ASSUME NEW k \in Nat PROVE k = 0 \/ k = 1 \/ k > 1
        OBVIOUS
      <3> QED BY <2>5, <3>1, Zenon
    <2> QED BY <2>1, <2>2, <2>3, <2>4, <2>5, <2>6
  <1>4. ASSUME NEW k \in last+1..n-1 PROVE ~Counts(k)'
    <2>1. k \in DOMAIN lines
      BY <1>1
    <2>2. ~Counts(k)
      BY <2>1 DEF UpToDate
    <2> QED BY <2>1, <2>2, <1>1, LinesStay
  <1>5. Follows(n, last)'
    BY <1>2, <1>3, <1>4 DEF Follows
  <1> QED BY <1>1, <1>2, <1>5

LEMMA CustodianKeeps ==
    ASSUME ConfInv, NEW line \in Line, ParseCustodian(line) PROVE ConfInv'
PROOF
  <1> USE DEF ConfInv
  <1>. PICK n \in Nat : n = Len(lines) + 1
    BY DEF TypeOK
  <1> DEFINE e == [origin |-> CustodianOf(line), origin_iaddr |-> Zero, next |-> NoUri,
                   next_iaddr |-> Zero, from |-> n, to |-> 0]
  <1>1. lines \in Seq(Line) /\ table = <<>> /\ isorigin
    BY DEF TypeOK, Phase, ParseCustodian
  <1>2. /\ lines' = Append(lines, line) /\ ~Skipped(line) /\ reading = "on"
        /\ custodian' = CustodianOf(line) /\ is_custodian_bp_endpoint_id_parsed' = TRUE
        /\ UNCHANGED <<reading, isorigin, origin>> /\ NamesCustodian(line)
    BY DEF ParseCustodian, Take
  <1>3. Len(lines') = n /\ table' = <<e>>
    BY <1>1, <1>2 DEF ParseCustodian, bpd_forward_table_insert, NoOrigin
  <1>4. LastSeen = 0
    BY <1>1 DEF LastSeen, LastUsed
  <1>5. n \in DOMAIN lines' /\ lines'[n] = line /\ Follows(n, 0)'
        /\ \A i \in DOMAIN lines' : i <= n
    BY <1>1, <1>2, <1>4, NextInLine
  <1>6. CustodianOf(line) \in Uri
    BY <1>2, UrisAreTyped
  <1>7. e \in FORWARD_STRUCT
    BY <1>1, <1>6 DEF FORWARD_STRUCT, Uris, Iaddr
  <1> HIDE DEF e
  <1>8. TypeOK'
    <2>1. table' \in Seq(FORWARD_STRUCT) /\ lines' \in Seq(Line)
      BY <1>1, <1>2, <1>3, <1>7
    <2> QED BY <2>1, <1>2, <1>6 DEF TypeOK, Uris
  <1>9. Len(table') = 1 /\ table'[1] = e /\ DOMAIN table' = {1} /\ table' # <<>>
    BY <1>3
  <1>10. e.from = n /\ e.to = 0 /\ e.origin = CustodianOf(line)
    BY DEF e
  <1>11. LastSeen' = n
    BY <1>1, <1>2, <1>9, <1>10 DEF LastSeen, LastUsed
  <1>12. Phase' /\ Pending' /\ UpToDate'
    BY <1>1, <1>2, <1>5, <1>9, <1>10, <1>11 DEF Phase, Pending, UpToDate
  <1>13. PairsAsWritten'
    BY <1>5, <1>9, <1>10 DEF PairsAsWritten
  <1> QED BY <1>8, <1>12, <1>13

LEMMA OriginKeeps ==
    ASSUME ConfInv, NEW line \in Line, ParseOrigin(line) PROVE ConfInv'
PROOF
  <1> USE DEF ConfInv
  <1>. PICK n \in Nat, last \in Nat : n = Len(lines) + 1 /\ last = LastUsed
    BY EntriesAreTyped DEF TypeOK
  <1>1. lines \in Seq(Line) /\ isorigin
    BY DEF TypeOK, ParseOrigin
  <1>2. /\ lines' = Append(lines, line) /\ ~Skipped(line) /\ reading = "on"
        /\ is_custodian_bp_endpoint_id_parsed /\ Complete(line) /\ isorigin' = FALSE
        /\ UNCHANGED <<reading, is_custodian_bp_endpoint_id_parsed, custodian, table>>
    BY DEF ParseOrigin, Pairing, Take
  <1>3. Len(lines') = n
    BY <1>1, <1>2
  <1>4. origin' = [uri |-> UriOf(line[1]), iaddr |-> inet_addr(line[2]), at |-> n]
    BY <1>3 DEF ParseOrigin, Here
  <1>5. last \in Nat /\ last = LastSeen /\ LastUsed' = last
    BY <1>1, <1>2, EntriesAreTyped DEF LastSeen, LastUsed
  <1>6. n \in DOMAIN lines' /\ lines'[n] = line /\ Follows(n, last)'
        /\ \A i \in DOMAIN lines' : i <= n
    BY <1>1, <1>2, <1>5, NextInLine
  <1>7. UriOf(line[1]) \in Uri /\ inet_addr(line[2]) \in Iaddr
    BY <1>2, UrisAreTyped
  <1>8. TypeOK'
    <2>1. origin' \in [uri : Uris, iaddr : Iaddr, at : Nat] /\ lines' \in Seq(Line)
      BY <1>1, <1>2, <1>4, <1>7 DEF Uris
    <2> QED BY <2>1, <1>2 DEF TypeOK
  <1>9. Phase'
    BY <1>2 DEF Phase
  <1>10. Says(n, origin.uri, origin.iaddr)'
    BY <1>4, <1>6 DEF Says
  <1>11. LastSeen' = n /\ origin.at' = n
    BY <1>2, <1>4 DEF LastSeen
  <1>12. Pending' /\ UpToDate'
    BY <1>5, <1>6, <1>10, <1>11 DEF Pending, UpToDate
  <1>13. PairsAsWritten'
    <2> SUFFICES ASSUME NEW k \in DOMAIN table PROVE Entry(k)'
      BY <1>2 DEF PairsAsWritten, Entry
    <2> QED BY <1>2, EntryStays, PairsAreEntries
  <1> QED BY <1>8, <1>9, <1>12, <1>13

LEMMA NextKeeps ==
    ASSUME ConfInv, NEW line \in Line, ParseNext(line) PROVE ConfInv'
PROOF
  <1> USE DEF ConfInv
  <1>. PICK n \in Nat, m \in Nat, i \in Nat :
          n = Len(lines) + 1 /\ m = Len(table) + 1 /\ i = origin.at
    BY EntriesAreTyped DEF TypeOK
  <1>1. lines \in Seq(Line) /\ table \in Seq(FORWARD_STRUCT) /\ ~isorigin
    BY DEF TypeOK, ParseNext
  <1>2. /\ lines' = Append(lines, line) /\ ~Skipped(line) /\ reading = "on"
        /\ is_custodian_bp_endpoint_id_parsed /\ Complete(line) /\ isorigin' = TRUE
        /\ UNCHANGED <<reading, is_custodian_bp_endpoint_id_parsed, custodian, origin>>
    BY DEF ParseNext, Pairing, Take
  <1>3. Len(lines') = n
    BY <1>1, <1>2
  <1>5. i = LastSeen /\ Follows(i, LastUsed) /\ Says(i, origin.uri, origin.iaddr)
    BY <1>1 DEF LastSeen, Pending
  <1>6. n \in DOMAIN lines' /\ lines'[n] = line /\ Follows(n, i)'
        /\ \A k \in DOMAIN lines' : k <= n
    BY <1>1, <1>2, <1>5, NextInLine
  <1>7. PICK e \in FORWARD_STRUCT :
           /\ table' = Append(table, e)
           /\ e.origin = origin.uri /\ e.origin_iaddr = origin.iaddr
           /\ e.next = UriOf(line[1]) /\ e.next_iaddr = inet_addr(line[2])
           /\ e.from = i /\ e.to = n
    <2> DEFINE f == [origin |-> origin.uri, origin_iaddr |-> origin.iaddr,
                     next |-> UriOf(line[1]), next_iaddr |-> inet_addr(line[2]),
                     from |-> i, to |-> n]
    <2>1. UriOf(line[1]) \in Uri /\ inet_addr(line[2]) \in Iaddr
      BY <1>2, UrisAreTyped
    <2>2. origin.uri \in Uris /\ origin.iaddr \in Iaddr
      BY DEF TypeOK
    <2>3. f \in FORWARD_STRUCT
      BY <2>1, <2>2 DEF FORWARD_STRUCT, Uris
    <2>4. table' = Append(table, f)
      BY <1>3 DEF ParseNext, Here, bpd_forward_table_insert
    <2> QED BY <2>3, <2>4
  <1>9. /\ table' \in Seq(FORWARD_STRUCT) /\ Len(table') = m /\ table'[m] = e
        /\ DOMAIN table' = 1..m
        /\ \A k \in DOMAIN table : k \in 1..m-1 /\ table'[k] = table[k]
        /\ DOMAIN table = 1..m-1
    BY <1>1, <1>7
  <1>10. Len(table) >= 1 /\ m >= 2
    BY <1>2 DEF Phase
  <1>11. TypeOK'
    <2>1. lines' \in Seq(Line)
      BY <1>1, <1>2
    <2> QED BY <2>1, <1>2, <1>9 DEF TypeOK
  <1>12. Phase'
    BY <1>2, <1>9, <1>10 DEF Phase
  <1>13. LastUsed' = n /\ LastSeen' = n
    <2>1. table' # <<>> /\ Len(table') # 1
      BY <1>9, <1>10
    <2> QED BY <2>1, <1>2, <1>7, <1>9 DEF LastUsed, LastSeen
  <1>14. Pending' /\ UpToDate'
    BY <1>2, <1>6, <1>13 DEF Pending, UpToDate
  <1>15. ASSUME NEW k \in DOMAIN table PROVE Entry(k)'
    BY <1>2, <1>9, <1>15, EntryStays, PairsAreEntries
  <1>16. Entry(m)'
    <2>. PICK before \in Nat : before = LastUsed
      BY EntriesAreTyped
    <2>1. before = IF m = 2 THEN table'[1].from ELSE table'[m-1].to
      <3>1. table # <<>>
        BY <1>10
      <3>2. m = 2 <=> Len(table) = 1
        BY <1>9, <1>10
      <3>3. 1 \in DOMAIN table /\ m - 1 \in DOMAIN table /\ m - 1 = Len(table)
        BY <1>9, <1>10
      <3> QED BY <3>1, <3>2, <3>3, <1>9 DEF LastUsed
    <2>2. Follows(i, before)' /\ i \in DOMAIN lines
      BY <1>1, <1>2, <1>5, LinesStay DEF Follows, Counts
    <2>3. Says(i, origin.uri, origin.iaddr)'
      BY <1>1, <1>2, <1>5, <2>2, LinesStay
    <2>4. Says(i, e.origin, e.origin_iaddr)'
      BY <2>3, <1>2, <1>7 DEF Says
    <2>5. Says(n, e.next, e.next_iaddr)'
      BY <1>6, <1>7 DEF Says
    <2> QED BY <2>1, <2>2, <2>4, <2>5, <1>6, <1>7, <1>9, <1>10 DEF Entry
  <1>17. PairsAsWritten'
    <2>1. ASSUME NEW k \in DOMAIN table' PROVE Entry(k)'
      <3>1. k \in DOMAIN table \/ k = m
        BY <1>9
      <3> QED BY <3>1, <1>15, <1>16
    <2> QED BY <2>1 DEF PairsAsWritten, Entry
  <1> QED BY <1>11, <1>12, <1>14, <1>17

LEMMA ConfNext == ConfInv /\ [Next]_vars => ConfInv'
PROOF
  <1> SUFFICES ASSUME ConfInv, [Next]_vars PROVE ConfInv'
    OBVIOUS
  <1>1. CASE UNCHANGED vars
    <2>1. TypeOK' /\ Phase' /\ Pending' /\ UpToDate' /\ PairsAsWritten'
      BY <1>1 DEF ConfInv, vars, TypeOK, Phase, Pending, UpToDate, PairsAsWritten, LastUsed,
                  LastSeen, Follows, Counts, Says
    <2> QED BY <2>1 DEF ConfInv
  <1>2. CASE EndOfFile
    BY <1>2, StopKeeps
  <1>3. ASSUME NEW line \in Line,
               Skip(line) \/ ParseCustodian(line) \/ ParseOrigin(line) \/ ParseNext(line)
                          \/ ParseNull(line)
        PROVE  ConfInv'
    BY <1>3, SkipKeeps, CustodianKeeps, OriginKeeps, NextKeeps, StopKeeps
  <1> QED BY <1>1, <1>2, <1>3 DEF Next

-----------------------------------------------------------------------------
(***************************************************************************)
(* Theorems.                                                               *)
(***************************************************************************)
\* Every variable keeps its type.
THEOREM ConfTypes == Spec => []TypeOK
PROOF
  <1>1. ConfInv => TypeOK
    BY DEF ConfInv
  <1> QED BY <1>1, ConfInit, ConfNext, PTL DEF Spec

\* The entries of the forward table are the lines of the file two by two.
THEOREM TableIsTheFile == Spec => []PairsAsWritten
PROOF
  <1>1. ConfInv => PairsAsWritten
    BY DEF ConfInv
  <1> QED BY <1>1, ConfInit, ConfNext, PTL DEF Spec

\* Of a file that has been read to its end, nothing is left out but a line that
\* has no second.
THEOREM FileIsInTheTable == Spec => []NothingLeftOut
PROOF
  <1>1. ConfInv => NothingLeftOut
    <2> SUFFICES ASSUME ConfInv, reading = "done",
                        NEW i \in DOMAIN lines, NEW j \in DOMAIN lines,
                        Counts(i), Counts(j), LastUsed < i, LastUsed < j
                 PROVE  i = j
      BY DEF NothingLeftOut
    <2>1. lines \in Seq(Line) /\ isorigin \in BOOLEAN /\ LastUsed \in Nat /\ LastSeen \in Nat
      BY EntriesAreTyped DEF ConfInv, TypeOK
    <2>2. i \in Nat /\ j \in Nat /\ i <= LastSeen /\ j <= LastSeen
      BY <2>1 DEF ConfInv, UpToDate
    <2>3. CASE isorigin
      BY <2>1, <2>2, <2>3 DEF LastSeen
    <2>4. CASE ~isorigin
      <3>1. LastSeen = origin.at /\ Follows(LastSeen, LastUsed)
        BY <2>4 DEF ConfInv, Pending, LastSeen
      <3>2. ASSUME NEW k \in Nat, LastUsed < k, k <= LastSeen, Counts(k) PROVE k = LastSeen
        BY <3>1, <3>2, <2>1 DEF Follows
      <3> QED BY <3>2, <2>2
    <2> QED BY <2>1, <2>3, <2>4
  <1> QED BY <1>1, ConfInit, ConfNext, PTL DEF Spec

\* What is forwarded goes to the address that the file gives, and nothing to the
\* address of the custodian's entry, which has none.
THEOREM RoutesAreTheFile == Spec => []ForwardsAsWritten
PROOF
  <1>1. ConfInv => ForwardsAsWritten
    <2> SUFFICES ASSUME ConfInv, NEW n \in DOMAIN table, ForwardedBy(table[n].origin, n)
                 PROVE  /\ Follows(table[n].to, table[n].from)
                        /\ table[n].next_iaddr = inet_addr(lines[table[n].to][2])
                        /\ \A k \in 2..n-1 :
                              UriOf(lines[table[k].from][1]) # table[n].origin
      BY DEF ForwardsAsWritten
    <2>1. Len(table) \in Nat /\ DOMAIN table = 1..Len(table)
      BY EntriesAreTyped DEF ConfInv
    <2>2. ASSUME NEW k \in DOMAIN table PROVE Entry(k)
      BY PairsAreEntries DEF ConfInv
    <2>3. n # 1
      <3>1. table # <<>>
        BY <2>1
      <3>2. custodian = table[1].origin
        BY <3>1 DEF ConfInv, Phase
      <3> QED BY <3>2 DEF ForwardedBy
    <2>4. /\ Follows(table[n].to, table[n].from)
          /\ table[n].next_iaddr = inet_addr(lines[table[n].to][2])
      BY <2>2, <2>3 DEF Entry, Says
    <2>5. ASSUME NEW k \in 2..n-1 PROVE UriOf(lines[table[k].from][1]) # table[n].origin
      <3>1. k \in DOMAIN table /\ k # 1 /\ k \in 1..n-1
        BY <2>1
      <3>2. table[k].origin = UriOf(lines[table[k].from][1])
        BY <3>1, <2>2 DEF Entry, Says
      <3>3. table[k].origin # table[n].origin
        BY <3>1 DEF ForwardedBy, FoundAt
      <3> QED BY <3>2, <3>3
    <2> QED BY <2>4, <2>5
  <1> QED BY <1>1, ConfInit, ConfNext, PTL DEF Spec
=============================================================================
