----------------------------- MODULE LossyFifo -----------------------------
(***************************************************************************)
(* What a protocol stack over UDP promises each application: the messages  *)
(* it received are some of those accepted from its peer, each at most once *)
(* and in the order they were accepted.  Messages are numbered from 1 per  *)
(* application.  Foreign are those to whom other programs send as well:    *)
(* text of theirs, numbered 0, may come in between.                        *)
(***************************************************************************)
EXTENDS Naturals, Sequences

CONSTANTS Apps, Foreign

VARIABLES
    accepted,   \* number of messages accepted from each sending application
    received    \* the numbers of the messages each peer received, in order

vars == <<accepted, received>>

Init ==
    /\ accepted = [a \in Apps |-> 0]
    /\ received = [a \in Apps |-> <<>>]

Accept(a) ==
    /\ accepted' = [accepted EXCEPT ![a] = @ + 1]
    /\ UNCHANGED received

\* Skipping a number is losing that message.
Receive(a, n) ==
    /\ n \in 1..accepted[a]
    /\ \A i \in DOMAIN received[a] : received[a][i] < n
    /\ received' = [received EXCEPT ![a] = Append(@, n)]
    /\ UNCHANGED accepted

Intrude(a) ==
    /\ received' = [received EXCEPT ![a] = Append(@, 0)]
    /\ UNCHANGED accepted

Next ==
    \/ \E a \in Apps : Accept(a) \/ \E n \in 1..accepted[a] : Receive(a, n)
    \/ \E a \in Foreign : Intrude(a)

Spec == Init /\ [][Next]_vars
=============================================================================
