------------------------------- MODULE MCBpd -------------------------------
(***************************************************************************)
(* Small instances of Bpd for TLC.  This daemon is "self"; "peer" is the   *)
(* custodian of the neighbour both routes lead to; "far" and "near" are    *)
(* endpoints of other nodes; "app" is the endpoint applications bind.      *)
(***************************************************************************)
EXTENDS Bpd

MCEid == {"self", "none", "peer", "app", "far", "near"}
MCTable == << [origin |-> "peer", valid |-> TRUE], [origin |-> "far", valid |-> TRUE] >>
MCNames == [a \in Addr |-> "app"]

Custody(src, dst, seq) ==
    [src |-> src, dst |-> dst, cust |-> "peer", time |-> 1, seq |-> seq,
     iscustody |-> TRUE, isadmin |-> FALSE, payload |-> Data]

ToFar == {[dst |-> "far", iscustody |-> TRUE]}
\* Also to this custodian, with custody and without.
ToSelfOrFar == ToFar \cup [dst : {"self"}, iscustody : BOOLEAN]

\* One bundle for a local endpoint and one in transit, of two sources that have
\* drawn the same sequence number in the same second.
NetPair == {Custody("far", "app", 1), Custody("near", "peer", 1)}
\* Also one for this custodian, and numbers of one and of two bytes: in that run
\* the byte boundary is at 2.
NetMixed == {Custody("far", "app", 1), Custody("near", "self", 1),
             Custody("near", "peer", 2)}

\* No two keys share a slot.
Apart(k) == k
\* Slots collide by sequence number.
BySeq(k) == k.seq % 2
\* Digests collide for destinations that have a route, and for the others.
ByRoute(d) == d.dst \in {"peer", "far"}

\* What the theorem on this daemon's signals assumes holds of these inputs.
ASSUME InputsAreHonest == NoForgedSignal
=============================================================================
