------------------------------- MODULE Alarms -------------------------------
(***************************************************************************)
(* What an event scheduler promises: an event that has been scheduled is   *)
(* either cancelled or comes due and is started, at most once, not before  *)
(* its deadline and never after it has been cancelled.                     *)
(***************************************************************************)
EXTENDS Naturals

CONSTANTS
    Ids,        \* the events
    Timeouts    \* how long from now an event may be scheduled for

VARIABLES
    now,        \* the clock
    due,        \* the deadline of each event, until it is cancelled or fired
    status      \* where each event is in its life

vars == <<now, due, status>>

Init ==
    /\ now = 0
    /\ due = [i \in Ids |-> 0]
    /\ status = [i \in Ids |-> "new"]

Become(i, from, to) ==
    /\ status[i] = from
    /\ status' = [status EXCEPT ![i] = to]

Tick ==
    /\ now' = now + 1
    /\ UNCHANGED <<due, status>>

\* The deadline counts from the call, not from the moment the event is pending.
Aim(i) ==
    /\ status[i] = "new"
    /\ \E t \in Timeouts : due' = [due EXCEPT ![i] = now + t]
    /\ UNCHANGED <<now, status>>

Schedule(i) == Become(i, "new", "pending") /\ UNCHANGED <<now, due>>

Forget(i) == due' = [due EXCEPT ![i] = 0] /\ UNCHANGED now

Cancel(i) == Become(i, "pending", "cancelled") /\ Forget(i)

Fire(i) ==
    /\ Become(i, "pending", "fired")
    /\ now >= due[i]
    /\ Forget(i)

Start(i) == Become(i, "fired", "started") /\ UNCHANGED <<now, due>>

Next == Tick \/ \E i \in Ids :
            Aim(i) \/ Schedule(i) \/ Cancel(i) \/ Fire(i) \/ Start(i)

Spec == Init /\ [][Next]_vars
=============================================================================
