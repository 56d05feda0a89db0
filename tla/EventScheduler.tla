--------------------------- MODULE EventScheduler --------------------------
(***************************************************************************)
(* The event scheduler of newLibs/eventscheduler.cpp on top of the thread  *)
(* pool: callers put events with a deadline into a heap, a dispatcher      *)
(* thread waits for the first of them to come due and gives it to a        *)
(* ThreadPool.  What happens under queueLock is one step; the tests of     *)
(* numEvents and terminate outside the lock are steps of their own.        *)
(*                                                                         *)
(* An event is its id.  The heap is the set of the ids in it: push_heap,   *)
(* pop_heap and make_heap keep some event in front that eventCompare puts  *)
(* before no other.                                                        *)
(***************************************************************************)
EXTENDS Integers, Sequences, FiniteSets

CONSTANTS
    Callers,        \* the threads that schedule and cancel events
    Workers,        \* the threads of the pool (NUM_THREADS)
    MaxEvents,      \* maxEvents
    Second,         \* ticks of the clock in a second
    Timeouts,       \* the timeouts events are scheduled with, in ticks
    MaxIds,         \* bound: events scheduled
    MaxTime         \* bound: ticks of the clock

ASSUME SchedulerAssumption ==
    /\ IsFiniteSet(Callers)
    /\ Callers # {}
    /\ IsFiniteSet(Workers)
    /\ Workers # {}
    /\ MaxEvents \in Nat
    /\ Second \in Nat \ {0}
    /\ Timeouts \subseteq Nat
    /\ MaxIds \in Nat
    /\ MaxTime \in Nat

Ids    == 0..(MaxIds - 1)
NoId   == -1
Epoch  == [sec |-> 0, nsec |-> 0]

VARIABLES
    now,            \* CLOCK_REALTIME
    timeout,        \* the deadline of each event, a timespec, until nothing holds the event
    nextId,
    queue,          \* the heap
    numEvents,
    terminate,
    calls,          \* where each caller is in eventSchedule
    hold,           \* the event a caller is about to put into the heap
    dispatcher,     \* where the dispatcher is in execute()
    front,          \* the event the dispatcher is about to hand to the pool
    wakeAt,         \* when the dispatcher's wait_for times out
    cancelled,      \* history: the events eventCancel took out of the heap
    pc, jobs, mine, availableThreads, poolTerminate, owner,     \* the pool
    dispatched, started, returned                               \* and its history

pool      == <<pc, jobs, mine, availableThreads, poolTerminate, owner, dispatched, started, returned>>
events    == <<queue, numEvents, cancelled>>
callers   == <<calls, hold, nextId>>
execution == <<dispatcher, front, wakeAt>>
vars      == <<now, timeout, events, callers, execution, terminate, pool>>

Pool == INSTANCE ThreadPool WITH Job <- Ids, MaxJobs <- MaxIds, terminate <- poolTerminate

Init ==
    /\ now = 0
    /\ timeout = [i \in Ids |-> Epoch]
    /\ nextId = 0
    /\ queue = {}
    /\ numEvents = 0
    /\ terminate = FALSE
    /\ calls = [c \in Callers |-> "idle"]
    /\ hold = [c \in Callers |-> NoId]
    /\ dispatcher = "check"
    /\ front = NoId
    /\ wakeAt = 0
    /\ cancelled = {}
    /\ Pool!Init

-----------------------------------------------------------------------------
(* Deadlines                                                               *)

\* The fields of a timespec are added one by one: tv_nsec may exceed a second.
Deadline(t) == [sec  |-> (now \div Second) + (t \div Second),
                nsec |-> (now % Second) + (t % Second)]

\* Fault: the heap functions put the greatest in front, which is now the latest.
Sooner(a, b) ==
    \/ a.sec < b.sec
    \/ a.sec = b.sec /\ a.nsec < b.nsec

\* eventCompare
Later(a, b) ==
    \/ a.sec > b.sec
    \/ a.sec = b.sec /\ a.nsec > b.nsec

Fronts == {i \in queue : \A j \in queue : ~Later(timeout[i], timeout[j])}

\* Fault: the fractions of a second are left out.
OverdueSeconds(i) == ((now \div Second) - timeout[i].sec) * Second

\* differenceNsec
Overdue(i) == ((now \div Second) - timeout[i].sec) * Second + ((now % Second) - timeout[i].nsec)

-----------------------------------------------------------------------------
(* The callers.  None of them is inside when the scheduler is destroyed.   *)

Step(c, from, to) ==
    /\ calls[c] = from
    /\ calls' = [calls EXCEPT ![c] = to]

NotifyDispatcher == dispatcher' = IF dispatcher = "waiting" THEN "check" ELSE dispatcher

\* An event leaves the heap.
Remove(i) ==
    /\ queue' = queue \ {i}
    /\ timeout' = [timeout EXCEPT ![i] = Epoch]

Underway == {c \in Callers : calls[c] # "idle"}

\* Fault: one event too many.
AdmitOneMore(c) ==
    /\ Step(c, "idle", "admitted")
    /\ ~terminate
    /\ nextId + Cardinality({d \in Callers : calls[d] = "admitted"}) < MaxIds
    /\ numEvents <= MaxEvents
    /\ UNCHANGED <<now, timeout, events, hold, nextId, execution, terminate, pool>>

\* eventSchedule compares numEvents with maxEvents, without a lock; a caller
\* that finds no room gets -1 and nothing changes.
Admit(c) ==
    /\ Step(c, "idle", "admitted")
    /\ ~terminate
    /\ nextId + Cardinality({d \in Callers : calls[d] = "admitted"}) < MaxIds
    /\ numEvents < MaxEvents
    /\ UNCHANGED <<now, timeout, events, hold, nextId, execution, terminate, pool>>

\* It takes an id under idLock and makes the event, whose deadline is the clock's
\* reading: one step, as the id is nobody else's and is not shown before the push, ...
NewEvent(c, t) ==
    /\ Step(c, "admitted", "push")
    /\ now + t <= MaxTime
    /\ hold' = [hold EXCEPT ![c] = nextId]
    /\ timeout' = [timeout EXCEPT ![nextId] = Deadline(t)]
    /\ nextId' = nextId + 1
    /\ UNCHANGED <<now, events, execution, terminate, pool>>

\* ... and puts it into the heap.
Push(c) ==
    /\ Step(c, "push", "idle")
    /\ queue' = queue \cup {hold[c]}
    /\ numEvents' = numEvents + 1
    /\ hold' = [hold EXCEPT ![c] = NoId]
    /\ NotifyDispatcher
    /\ UNCHANGED <<now, timeout, cancelled, nextId, front, wakeAt, terminate, pool>>

\* Fault: the counter is not told.
CancelUncounted(i) ==
    /\ ~terminate
    /\ i \in queue
    /\ Remove(i)
    /\ cancelled' = cancelled \cup {i}
    /\ UNCHANGED <<now, numEvents, callers, execution, terminate, pool>>

\* Fault: an event that has left the heap is counted, too.
CancelUnfound(i) ==
    /\ ~terminate
    /\ Remove(i)
    /\ numEvents' = numEvents - 1
    /\ cancelled' = cancelled \cup {i}
    /\ UNCHANGED <<now, callers, execution, terminate, pool>>

\* eventCancel; an event that is not in the heap any more is left alone.
eventCancel(i) ==
    /\ ~terminate
    /\ i \in queue
    /\ Remove(i)
    /\ numEvents' = numEvents - 1
    /\ cancelled' = cancelled \cup {i}
    /\ UNCHANGED <<now, callers, execution, terminate, pool>>

-----------------------------------------------------------------------------
(* The dispatcher: execute()                                               *)

Proceed(from, to) == dispatcher = from /\ dispatcher' = to

\* while(!terminate || numEvents > 0)
Check ==
    /\ Proceed("check", IF ~terminate \/ numEvents > 0 THEN "enter" ELSE "exited")
    /\ wakeAt' = 0
    /\ UNCHANGED <<now, timeout, events, callers, front, terminate, pool>>

\* Fault: the event found too early is not put back into the heap.
HoldBackDropped(i) ==
    /\ Proceed("enter", "waiting")
    /\ i \in Fronts
    /\ Overdue(i) < 0
    /\ wakeAt' = now - Overdue(i)
    /\ queue' = queue \ {i}
    /\ UNCHANGED <<now, timeout, numEvents, cancelled, callers, front, terminate, pool>>

\* The first event is not due: wait until it is.
HoldBack(i) ==
    /\ Proceed("enter", "waiting")
    /\ i \in Fronts
    /\ Overdue(i) < 0
    /\ wakeAt' = now - Overdue(i)
    /\ UNCHANGED <<now, timeout, events, callers, front, terminate, pool>>

\* No event: wait for a nanosecond.
Idle ==
    /\ Proceed("enter", "waiting")
    /\ queue = {}
    /\ wakeAt' = now
    /\ UNCHANGED <<now, timeout, events, callers, front, terminate, pool>>

\* The first event is due: take it out of the heap ...
Fire(i) ==
    /\ Proceed("enter", "dispatch")
    /\ i \in Fronts
    /\ Overdue(i) >= 0
    /\ Remove(i)
    /\ numEvents' = numEvents - 1
    /\ front' = i
    /\ UNCHANGED <<now, cancelled, callers, wakeAt, terminate, pool>>

\* ... and give it to the pool.
Dispatch ==
    /\ Proceed("dispatch", "check")
    /\ Pool!Dispatch(front)
    /\ front' = NoId
    /\ UNCHANGED <<now, timeout, events, callers, wakeAt, terminate>>

\* Fault: an empty heap is waited on without a timeout.
TimeOutOnEvents ==
    /\ Proceed("waiting", "check")
    /\ now >= wakeAt
    /\ queue # {}
    /\ UNCHANGED <<now, timeout, events, callers, front, wakeAt, terminate, pool>>

TimeOut ==
    /\ Proceed("waiting", "check")
    /\ now >= wakeAt
    /\ UNCHANGED <<now, timeout, events, callers, front, wakeAt, terminate, pool>>

\* cv.wait_for may return early without a notification.
WakeSpuriously ==
    /\ Proceed("waiting", "check")
    /\ now < wakeAt
    /\ UNCHANGED <<now, timeout, events, callers, front, wakeAt, terminate, pool>>

-----------------------------------------------------------------------------
(* The destructor, the pool's threads and the clock                        *)

Terminate ==
    /\ ~terminate
    /\ Underway = {}
    /\ terminate' = TRUE
    /\ NotifyDispatcher
    /\ UNCHANGED <<now, timeout, events, callers, front, wakeAt, pool>>

\* Once the dispatcher has been joined the pool is destroyed, with the jobs it
\* has not started.
DeletePool ==
    /\ terminate /\ dispatcher = "exited"
    /\ Pool!Terminate \/ Pool!Join
    /\ UNCHANGED <<now, timeout, events, callers, execution, terminate>>

Worker(w) ==
    /\ Pool!Work(w)
    /\ UNCHANGED <<now, timeout, events, callers, execution, terminate>>

WorkerWakesSpuriously(w) ==
    /\ Pool!WakeSpuriously(w)
    /\ UNCHANGED <<now, timeout, events, callers, execution, terminate>>

Tick ==
    /\ now < MaxTime
    /\ now' = now + 1
    /\ UNCHANGED <<timeout, events, callers, execution, terminate, pool>>

-----------------------------------------------------------------------------
Schedule(c) == Admit(c) \/ (\E t \in Timeouts : NewEvent(c, t)) \/ Push(c)

\* What the dispatcher does, once it runs, without being woken spuriously.
Dispatching == Check \/ Idle \/ Dispatch \/ TimeOut \/ \E i \in Ids : HoldBack(i) \/ Fire(i)

Next ==
    \/ \E c \in Callers : Schedule(c)
    \/ \E i \in Ids : eventCancel(i)
    \/ Dispatching
    \/ WakeSpuriously
    \/ Terminate
    \/ DeletePool
    \/ \E w \in Workers : Worker(w) \/ WorkerWakesSpuriously(w)
    \/ Tick

Spec == Init /\ [][Next]_vars

\* Time passes, the kernel runs the threads that can run, the functions of
\* events return, and a destructor that has been called goes on.
Fairness ==
    /\ WF_vars(Tick)
    /\ WF_vars(Dispatching)
    /\ WF_vars(DeletePool)
    /\ \A w \in Workers : WF_vars(Worker(w))

FairSpec == Spec /\ Fairness

-----------------------------------------------------------------------------
(* Properties                                                              *)

\* The values the variables range over; numEvents, which is unsigned, never
\* drops below 0.
TypeOK ==
    /\ now \in Nat
    /\ timeout \in [Ids -> [sec : Nat, nsec : 0..(2 * Second - 2)]]
    /\ nextId \in 0..MaxIds
    /\ queue \subseteq Ids
    /\ numEvents \in Nat
    /\ terminate \in BOOLEAN
    /\ calls \in [Callers -> {"idle", "admitted", "push"}]
    /\ hold \in [Callers -> Ids \cup {NoId}]
    /\ dispatcher \in {"check", "enter", "waiting", "dispatch", "exited"}
    /\ front \in Ids \cup {NoId}
    /\ wakeAt \in Nat
    /\ cancelled \subseteq Ids
    /\ Pool!TypeOK

Due(i) == timeout[i].sec * Second + timeout[i].nsec

\* The limit on events is tested before the lock is taken, so it can be exceeded,
\* but only by the callers that are inside eventSchedule at once: with one caller
\* it holds.
WithinLimit == Cardinality(queue) + Cardinality(Underway) <= MaxEvents + Cardinality(Callers) - 1

\* numEvents, which the dispatcher tests without the lock to find out whether it
\* may end, never differs from the number of events in the heap: the dispatcher
\* does not end before they have fired, nor wait for events that are not there.
QueueCount == numEvents = Cardinality(queue)

\* Deadlines whose tv_nsec exceeds a second are compared like any other, so an
\* event may be kept waiting behind a later one, but never behind one that is
\* due a second later.
LessThanASecondLate == \A i \in Fronts, j \in queue : Due(i) < Due(j) + Second

InSeq(s) == {s[k] : k \in DOMAIN s}

\* Where an event is in its life.
Stage(i) ==
    IF i \in InSeq(started) THEN "started"
    ELSE IF i = front \/ i \in InSeq(jobs) THEN "fired"
    ELSE IF i \in cancelled THEN "cancelled"
    ELSE IF i \in queue THEN "pending"
    ELSE "new"

Service == INSTANCE Alarms WITH
    due    <- [i \in Ids |-> Due(i)],
    status <- [i \in Ids |-> Stage(i)]

\* An event is started at most once, not before the deadline its caller asked
\* for, and not at all once eventCancel has found it.
ImplementsAlarms == Service!Spec

\* Every event in the heap is started unless it is cancelled or the pool is
\* destroyed first, also when the scheduler is destroyed before it comes due.
ScheduledRuns ==
    \A i \in Ids : (i \in queue) ~> (i \in InSeq(started) \cup cancelled \/ owner # "open")

\* The dispatcher always ends when the scheduler is destroyed: unlike the pool's
\* workers it never waits without a timeout.
DispatcherEnds == terminate ~> dispatcher = "exited"
=============================================================================
