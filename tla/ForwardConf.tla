----------------------------- MODULE ForwardConf -----------------------------
(***************************************************************************)
(* The forward table: how bpd_forward_table_parse_conf reads it from         *)
(* /etc/bitdtn/forward_table, and what bpd_forward then finds in it.        *)
(*                                                                         *)
(* A line is the sequence of its tokens, which spaces and tabs separate; a  *)
(* token is the sequence of its words, which colons separate.  No token     *)
(* begins with a colon.                                                    *)
(***************************************************************************)
EXTENDS Integers, Sequences, SequencesExt

CONSTANTS
    Word,        \* words of the file
    Hash,        \* a word that begins with "#"
    Address,     \* words that are IPv4 addresses
    INADDR_NONE, \* what inet_addr makes of any other token
    Zero,        \* an address that nothing has been written to
    Line,        \* lines the file may have, each ended by a newline
    FORWARD_TABLE_MAXSIZE,
    MaxLines     \* bound: lines of the file

ASSUME WordAssumption == Hash \in Word /\ Address \subseteq Word \ {Hash}
ASSUME AddressAssumption == Zero \notin Address /\ INADDR_NONE \notin Address \cup {Zero}
ASSUME LineAssumption == Line \subseteq Seq(Seq(Word) \ {<<>>})
ASSUME BoundAssumption == {FORWARD_TABLE_MAXSIZE, MaxLines} \subseteq Nat

VARIABLES
    reading,     \* "on", or how it has ended: "done", "crashed"
    is_custodian_bp_endpoint_id_parsed,
    custodian,   \* bpd_forward_table_custodian_bp_endpoint_id
    isorigin,    \* the next line that counts is the first of a pair
    origin,      \* origin_bp_endpoint_id and origin_iaddr
    table,       \* bpd_forward_table
    lines        \* history: the lines read so far

vars == <<reading, is_custodian_bp_endpoint_id_parsed, custodian, isorigin, origin,
          table, lines>>

Uri == Word \X Word
NoUri == <<>>
Uris == Uri \cup {NoUri}
Iaddr == Address \cup {INADDR_NONE, Zero}

\* An entry also holds the numbers of the two lines that it comes from, or of
\* the one.
FORWARD_STRUCT ==
    [origin : Uris, origin_iaddr : Iaddr, next : Uris, next_iaddr : Iaddr,
     from : Nat, to : Nat]

NoOrigin == [uri |-> NoUri, iaddr |-> Zero, at |-> 0]

Init ==
    /\ reading = "on"
    /\ is_custodian_bp_endpoint_id_parsed = FALSE
    /\ custodian = NoUri
    /\ isorigin = TRUE
    /\ origin = NoOrigin
    /\ table = <<>>
    /\ lines = <<>>

-----------------------------------------------------------------------------
(***************************************************************************)
(* Lines.                                                                  *)
(***************************************************************************)
\* Mutant of Skipped: comments count.
SkippedIfBlank(line) == line = <<>>

\* Blank lines and comments.
Skipped(line) == line # <<>> => line[1][1] = Hash

\* A token or a word that is missing is a null pointer to strcpy.
Complete(line) == Len(line) >= 2 /\ Len(line[1]) >= 2

UriOf(words) == <<words[1], words[2]>>

\* In the custodian's line, colons separate like spaces.
NamesCustodian(line) == Len(line[1]) >= 2 \/ Len(line) >= 2
CustodianOf(line) ==
    IF Len(line[1]) >= 2 THEN UriOf(line[1]) ELSE <<line[1][1], line[2][1]>>

inet_addr(token) ==
    IF Len(token) = 1 /\ token[1] \in Address THEN token[1] ELSE INADDR_NONE

bpd_forward_table_insert(from, to) ==
    table' = Append(table, [origin |-> from.uri, origin_iaddr |-> from.iaddr,
                            next |-> to.uri, next_iaddr |-> to.iaddr,
                            from |-> from.at, to |-> to.at])

-----------------------------------------------------------------------------
(***************************************************************************)
(* The loop, a line at a time.                                             *)
(***************************************************************************)
Take(line) ==
    /\ reading = "on"
    /\ Len(lines) < MaxLines
    /\ Len(table) < FORWARD_TABLE_MAXSIZE
    /\ lines' = Append(lines, line)

Here(line) == [uri |-> UriOf(line[1]), iaddr |-> inet_addr(line[2]), at |-> Len(lines')]

Skip(line) ==
    /\ Take(line)
    /\ Skipped(line)
    /\ UNCHANGED <<reading, is_custodian_bp_endpoint_id_parsed, custodian, isorigin,
                   origin, table>>

\* The first line that counts names the node itself.  Entry 0 of the table is
\* this endpoint without anything else.
ParseCustodian(line) ==
    /\ Take(line)
    /\ ~Skipped(line)
    /\ ~is_custodian_bp_endpoint_id_parsed
    /\ NamesCustodian(line)
    /\ custodian' = CustodianOf(line)
    /\ bpd_forward_table_insert(
           [uri |-> custodian', iaddr |-> Zero, at |-> Len(lines')], NoOrigin)
    /\ is_custodian_bp_endpoint_id_parsed' = TRUE
    /\ UNCHANGED <<reading, isorigin, origin>>

Pairing(line) ==
    /\ Take(line)
    /\ ~Skipped(line)
    /\ is_custodian_bp_endpoint_id_parsed
    /\ Complete(line)
    /\ UNCHANGED <<reading, is_custodian_bp_endpoint_id_parsed, custodian>>

\* Mutant of ParseOrigin: isorigin is not cleared.
ParseOriginOnly(line) == Pairing(line) /\ isorigin /\ origin' = Here(line)
                         /\ UNCHANGED <<isorigin, table>>

ParseOrigin(line) ==
    /\ Pairing(line)
    /\ isorigin
    /\ origin' = Here(line)
    /\ isorigin' = FALSE
    /\ UNCHANGED table

ParseNext(line) ==
    /\ Pairing(line)
    /\ ~isorigin
    /\ bpd_forward_table_insert(origin, Here(line))
    /\ isorigin' = TRUE
    /\ UNCHANGED origin

ParseNull(line) ==
    /\ Take(line)
    /\ ~Skipped(line)
    /\ IF is_custodian_bp_endpoint_id_parsed THEN ~Complete(line) ELSE ~NamesCustodian(line)
    /\ reading' = "crashed"
    /\ UNCHANGED <<is_custodian_bp_endpoint_id_parsed, custodian, isorigin, origin, table>>

\* A last line without a newline meets the end of the file too: it is dropped.
EndOfFile ==
    /\ reading = "on"
    /\ reading' = "done"
    /\ UNCHANGED <<is_custodian_bp_endpoint_id_parsed, custodian, isorigin, origin, table,
                   lines>>

Next ==
    \/ EndOfFile
    \/ \E line \in Line :
          Skip(line) \/ ParseCustodian(line) \/ ParseOrigin(line) \/ ParseNext(line)
                     \/ ParseNull(line)

Spec == Init /\ [][Next]_vars

-----------------------------------------------------------------------------
(***************************************************************************)
(* What bpd_forward finds for a destination that is not bound here.         *)
(***************************************************************************)
\* Mutant of FoundAt: the search goes on to the last entry.
FoundLast(uri, i) ==
    /\ i \in DOMAIN table
    /\ table[i].origin = uri
    /\ \A j \in DOMAIN table : j > i => table[j].origin # uri

\* bpd_forward_table_find_by_origin_bp_endpoint_id returns entry i.
FoundAt(uri, i) ==
    /\ i \in DOMAIN table
    /\ table[i].origin = uri
    /\ \A j \in 1..i-1 : table[j].origin # uri

\* Mutant of ForwardedBy: the custodian's own endpoint is looked up too.
ForwardedByAny(uri, i) == FoundAt(uri, i)

\* A bundle to uri goes to the next_iaddr of entry i.
ForwardedBy(uri, i) == uri # custodian /\ FoundAt(uri, i)

-----------------------------------------------------------------------------
(***************************************************************************)
(* Properties.                                                             *)
(***************************************************************************)
\* Every variable holds a value of its type.
TypeOK ==
    /\ reading \in {"on", "done", "crashed"}
    /\ is_custodian_bp_endpoint_id_parsed \in BOOLEAN
    /\ custodian \in Uris
    /\ isorigin \in BOOLEAN
    /\ origin \in [uri : Uris, iaddr : Iaddr, at : Nat]
    /\ table \in Seq(FORWARD_STRUCT)
    /\ lines \in Seq(Line)

Counts(i) == i \in DOMAIN lines /\ lines[i] # <<>> /\ lines[i][1][1] # Hash

\* Line j is the next that counts after line i.
Follows(j, i) == i < j /\ Counts(j) /\ \A k \in i+1..j-1 : ~Counts(k)

Says(i, uri, iaddr) == uri = UriOf(lines[i][1]) /\ iaddr = inet_addr(lines[i][2])

\* The entries of the table are the lines of the file two by two: the custodian's
\* first, then for each pair a line and the next one, whatever blank lines and
\* comments are in between, with no line left out or used twice.
PairsAsWritten ==
    \A n \in DOMAIN table :
        LET e == table[n] IN
        IF n = 1
        THEN Follows(e.from, 0) /\ e.origin = CustodianOf(lines[e.from]) /\ e.to = 0
        ELSE /\ Follows(e.from, IF n = 2 THEN table[1].from ELSE table[n-1].to)
             /\ Follows(e.to, e.from)
             /\ Says(e.from, e.origin, e.origin_iaddr)
             /\ Says(e.to, e.next, e.next_iaddr)

\* The line of the file that the table ends with.
LastUsed ==
    IF table = <<>> THEN 0
    ELSE IF Len(table) = 1 THEN table[1].from ELSE table[Len(table)].to

\* When the file has been read, all its lines that count are in the table, but
\* for the first of a pair that has no second.
NothingLeftOut ==
    reading = "done" =>
        \A i, j \in DOMAIN lines :
            Counts(i) /\ Counts(j) /\ LastUsed < i /\ LastUsed < j => i = j

\* No bundle is forwarded by the entry of the custodian, which has no next hop:
\* the address comes from the file, from the line after the first line of a pair
\* for the destination.
ForwardsAsWritten ==
    \A n \in DOMAIN table :
        ForwardedBy(table[n].origin, n) =>
            /\ Follows(table[n].to, table[n].from)
            /\ table[n].next_iaddr = inet_addr(lines[table[n].to][2])
            /\ \A k \in 2..n-1 : UriOf(lines[table[k].from][1]) # table[n].origin
=============================================================================
