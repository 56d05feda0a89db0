------------------------------ MODULE LossyBag -----------------------------
(***************************************************************************)
(* What a stack that hands every datagram to a thread of its own promises  *)
(* each application: of its peer it receives some of the messages accepted,*)
(* each at most once, in any order.  Foreign are those to whom other       *)
(* programs send as well: text of theirs, numbered 0, may come in between. *)
(***************************************************************************)
EXTENDS Naturals, Sequences

CONSTANTS Apps, Foreign

VARIABLES
    accepted,   \* number of messages accepted from each sending application
    received    \* the numbers of the messages each peer received, in order

vars == <<accepted, received>>

Init ==
    /\ accepted = [a \in Apps |-> 0]
    /\ received = [a \in Apps |-> <<>>]

Accept(a) ==
    /\ accepted' = [accepted EXCEPT ![a] = @ + 1]
    /\ UNCHANGED received

Receive(a, n) ==
    /\ n \in 1..accepted[a]
    /\ \A i \in DOMAIN received[a] : received[a][i] # n
    /\ received' = [received EXCEPT ![a] = Append(@, n)]
    /\ UNCHANGED accepted

Intrude(a) ==
    /\ received' = [received EXCEPT ![a] = Append(@, 0)]
    /\ UNCHANGED accepted

Next ==
    \/ \E a \in Apps : Accept(a) \/ \E n \in 1..accepted[a] : Receive(a, n)
    \/ \E a \in Foreign : Intrude(a)

Spec == Init /\ [][Next]_vars
=============================================================================
