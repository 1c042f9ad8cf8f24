---------------------------- MODULE MCCustodyNet ----------------------------
(***************************************************************************)
(* Small instances of CustodyNet for TLC: three daemons in a chain or in a *)
(* ring, senders at n1 and n2, receivers at n3.                            *)
(***************************************************************************)
EXTENDS CustodyNet

At == [n1 |-> 1, n2 |-> 2, n3 |-> 3, send |-> 1, send2 |-> 2, recv |-> 3]
Name == <<"n1", "n2", "n3">>

\* n1 - n2 - n3.
Chain ==
    [n \in Node |-> [e \in Node \cup AppEid |->
        CASE At[n] < At[e] -> Name[At[n] + 1]
          [] At[n] > At[e] -> Name[At[n] - 1]
          [] OTHER -> Nowhere]]
ChainHops ==
    [e \in AppEid |-> [n \in Node |->
        IF At[n] < At[e] THEN At[e] - At[n] ELSE At[n] - At[e]]]

\* n1 -> n2 -> n3 -> n1: a signal reaches the previous custodian the long way.
Ring ==
    [n \in Node |-> [e \in Node \cup AppEid |->
        IF At[n] = At[e] THEN Nowhere ELSE Name[(At[n] % 3) + 1]]]
RingHops == [e \in AppEid |-> [n \in Node |-> (At[e] + 3 - At[n]) % 3]]

Senders == {"s1", "s2"}
MCHome == [s \in Socket |-> CASE s = "s1" -> "n1" [] s = "s2" -> "n2"
                              [] OTHER -> "n3"]
MCNames == [s \in Socket |-> CASE s = "s1" -> "send" [] s = "s2" -> "send2"
                               [] OTHER -> "recv"]
MCTargets == [s \in Socket |-> IF s \in Senders THEN {"recv"} ELSE {}]

\* What the first and the last daemon decode into may have its upper byte set.
StaleAtEnds ==
    [n \in Node |-> IF n = "n2" /\ "n1" \in Node THEN {0} ELSE {0, 2}]

\* The keys of a sender's first message, in the first second, and of its second
\* message, in the next.
FirstTwo == {[time |-> t, seq |-> t] : t \in 0..MaxTime}

\* What the theorem on OnceIfBoundFirst assumes of the forward tables.
ASSUME TablesLeadHome == EndpointsAtHome
=============================================================================
