----------------------------- MODULE JobServer -----------------------------
(***************************************************************************)
(* What a thread pool promises: the jobs it accepts are started in the     *)
(* order they came, each once, and at most N are being executed at a time. *)
(***************************************************************************)
EXTENDS Naturals, Sequences

CONSTANTS Job, N

VARIABLES
    dispatched, \* the jobs accepted, in order
    started,    \* the jobs started, in order
    returned    \* how many of them have been executed

vars == <<dispatched, started, returned>>

Init == dispatched = <<>> /\ started = <<>> /\ returned = 0

Accept(j) ==
    /\ dispatched' = Append(dispatched, j)
    /\ UNCHANGED <<started, returned>>

Start ==
    /\ Len(started) < Len(dispatched)
    /\ Len(started) - returned < N
    /\ started' = Append(started, dispatched[Len(started) + 1])
    /\ UNCHANGED <<dispatched, returned>>

Finish ==
    /\ returned < Len(started)
    /\ returned' = returned + 1
    /\ UNCHANGED <<dispatched, started>>

Next == (\E j \in Job : Accept(j)) \/ Start \/ Finish

Spec == Init /\ [][Next]_vars
=============================================================================
