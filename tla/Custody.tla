------------------------------ MODULE Custody ------------------------------
(***************************************************************************)
(* What the daemons together promise about a bundle sent with custody: it  *)
(* has a custodian until it is handed to its destination, or misses it: it *)
(* came, and nobody was there.  A custodian lets go of it only then, or    *)
(* while another one has it.  The promise is void for a message that a     *)
(* daemon held when it died, since nothing is persisted, and for messages  *)
(* whose keys can be taken for each other.                                 *)
(***************************************************************************)
CONSTANTS
    Node,            \* the daemons
    Message,         \* what applications send
    Confusable(_,_)  \* custody signals may not tell these messages apart

VARIABLES
    accepted,     \* messages that some daemon has accepted from an application
    kept,         \* the messages that each daemon has in its list
    handed,       \* messages that have been handed to their destination
    missed,       \* messages whose destination was gone when they came
    atRisk        \* messages a daemon died with, or that share a key

vars == <<accepted, kept, handed, missed, atRisk>>

Init ==
    /\ accepted = {}
    /\ kept = [n \in Node |-> {}]
    /\ handed = {}
    /\ missed = {}
    /\ atRisk = {}

\* Daemon n keeps x, hands it over, finds nobody there, or has done so before.
TakenBy(x, n) ==
    \/ kept' = [kept EXCEPT ![n] = @ \cup {x}] /\ UNCHANGED <<handed, missed>>
    \/ handed' = handed \cup {x} /\ UNCHANGED <<kept, missed>>
    \/ missed' = missed \cup {x} /\ UNCHANGED <<kept, handed>>
    \/ UNCHANGED <<kept, handed, missed>>

Clashes(x) == {y \in accepted : y # x /\ Confusable(x, y)}

\* An application of node n sends x.  A message just like one sent before is
\* the same message to the daemons.
Accept(x, n) ==
    /\ accepted' = accepted \cup {x}
    /\ TakenBy(x, n)
    /\ x \notin accepted => x \in kept'[n] \cup handed' \cup missed'
    /\ atRisk' = IF Clashes(x) = {} THEN atRisk ELSE atRisk \cup Clashes(x) \cup {x}

\* A copy of x reaches daemon n.
Take(x, n) ==
    /\ TakenBy(x, n)
    /\ UNCHANGED <<accepted, atRisk>>

\* A daemon lets go of x.
Release(x, n) ==
    /\ \/ x \in handed \cup missed \cup atRisk
       \/ \E c \in Node \ {n} : x \in kept[c]
    /\ kept' = [kept EXCEPT ![n] = @ \ {x}]
    /\ UNCHANGED <<accepted, handed, missed, atRisk>>

\* Messages a daemon has kept go to applications that have bound meanwhile.
HandOver(n) ==
    /\ \E X \in SUBSET kept[n] : handed' = handed \cup X
    /\ UNCHANGED <<accepted, kept, missed, atRisk>>

Crash(n) ==
    /\ kept' = [kept EXCEPT ![n] = {}]
    /\ atRisk' = atRisk \cup kept[n]
    /\ UNCHANGED <<accepted, handed, missed>>

Next ==
    \E n \in Node :
        \/ \E x \in Message : Accept(x, n)
        \/ \E x \in accepted : Take(x, n)
        \/ \E x \in kept[n] : Release(x, n)
        \/ HandOver(n) \/ Crash(n)

Spec == Init /\ [][Next]_vars
=============================================================================
