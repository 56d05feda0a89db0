---------------------------- MODULE ThreadPool -----------------------------
(***************************************************************************)
(* The thread pool of newLibs/threadpool.cpp, which PerMessage hands every *)
(* datagram to and newLibs/eventscheduler.cpp every event.  All it shares  *)
(* is guarded by cvLock, so what a thread does between locking and         *)
(* unlocking it is one step here; only the test of terminate that heads a  *)
(* worker's loop reads without the lock, and it is a step of its own.      *)
(***************************************************************************)
EXTENDS Integers, Sequences, FiniteSets

CONSTANTS
    Workers,    \* the pool's threads
    Job,        \* what can be dispatched: a function and its argument
    MaxJobs     \* bound: how many jobs are dispatched

ASSUME ThreadPoolAssumption ==
    /\ IsFiniteSet(Workers)
    /\ Workers # {}
    /\ MaxJobs \in Nat

VARIABLES
    pc,               \* where each worker is in execute()
    jobs,             \* the job queue
    mine,             \* the job a worker executes: <<>> or <<job>>
    availableThreads,
    terminate,
    owner,            \* "open", "joining" in the destructor, "gone"
    dispatched,       \* history: the jobs dispatched, in order
    started,          \* history: the jobs taken from the queue, in order
    returned          \* history: how many jobs have been executed

vars == <<pc, jobs, mine, availableThreads, terminate, owner, dispatched, started, returned>>

\* The constructor sets every field before it creates the threads.
Init ==
    /\ pc = [w \in Workers |-> "check"]
    /\ jobs = <<>>
    /\ mine = [w \in Workers |-> <<>>]
    /\ availableThreads = Cardinality(Workers)
    /\ terminate = FALSE
    /\ owner = "open"
    /\ dispatched = <<>>
    /\ started = <<>>
    /\ returned = 0

-----------------------------------------------------------------------------
(* The workers: execute()                                                  *)

Goto(w, from, to) ==
    /\ pc[w] = from
    /\ pc' = [pc EXCEPT ![w] = to]

\* while(!pool->terminate)
Check(w) ==
    /\ Goto(w, "check", IF terminate THEN "exited" ELSE "enter")
    /\ UNCHANGED <<jobs, mine, availableThreads, terminate, owner, dispatched, started, returned>>

\* An empty queue: wait, letting go of cvLock.
Sleep(w) ==
    /\ Goto(w, "enter", "waiting")
    /\ jobs = <<>>
    /\ UNCHANGED <<jobs, mine, availableThreads, terminate, owner, dispatched, started, returned>>

\* Fault: the last job is taken, not the first.
TakeNewest(w) ==
    /\ Goto(w, "enter", "run")
    /\ jobs # <<>>
    /\ availableThreads' = availableThreads - 1
    /\ mine' = [mine EXCEPT ![w] = <<jobs[Len(jobs)]>>]
    /\ started' = Append(started, jobs[Len(jobs)])
    /\ jobs' = SubSeq(jobs, 1, Len(jobs) - 1)
    /\ UNCHANGED <<terminate, owner, dispatched, returned>>

\* Fault: the worker does not report that it is busy.
TakeUncounted(w) ==
    /\ Goto(w, "enter", "run")
    /\ jobs # <<>>
    /\ mine' = [mine EXCEPT ![w] = <<Head(jobs)>>]
    /\ started' = Append(started, Head(jobs))
    /\ jobs' = Tail(jobs)
    /\ UNCHANGED <<availableThreads, terminate, owner, dispatched, returned>>

Take(w) ==
    /\ Goto(w, "enter", "run")
    /\ jobs # <<>>
    /\ availableThreads' = availableThreads - 1
    /\ mine' = [mine EXCEPT ![w] = <<Head(jobs)>>]
    /\ started' = Append(started, Head(jobs))
    /\ jobs' = Tail(jobs)
    /\ UNCHANGED <<terminate, owner, dispatched, returned>>

\* The function of the job, executed without the lock, returns.
Return(w) ==
    /\ Goto(w, "run", "finish")
    /\ UNCHANGED <<jobs, mine, availableThreads, terminate, owner, dispatched, started, returned>>

\* Fault: the worker serves one job only.
GiveBackOnce(w) ==
    /\ Goto(w, "finish", "exited")
    /\ availableThreads' = availableThreads + 1
    /\ mine' = [mine EXCEPT ![w] = <<>>]
    /\ returned' = returned + 1
    /\ UNCHANGED <<jobs, terminate, owner, dispatched, started>>

\* Fault: the worker is not counted as available again.
GiveBackUncounted(w) ==
    /\ Goto(w, "finish", "check")
    /\ mine' = [mine EXCEPT ![w] = <<>>]
    /\ returned' = returned + 1
    /\ UNCHANGED <<jobs, availableThreads, terminate, owner, dispatched, started>>

GiveBack(w) ==
    /\ Goto(w, "finish", "check")
    /\ availableThreads' = availableThreads + 1
    /\ mine' = [mine EXCEPT ![w] = <<>>]
    /\ returned' = returned + 1
    /\ UNCHANGED <<jobs, terminate, owner, dispatched, started>>

\* cv.wait may return without a notification.
WakeSpuriously(w) ==
    /\ Goto(w, "waiting", "check")
    /\ UNCHANGED <<jobs, mine, availableThreads, terminate, owner, dispatched, started, returned>>

-----------------------------------------------------------------------------
(* The threads that use the pool                                           *)

NotifyOne ==
    IF \E w \in Workers : pc[w] = "waiting"
    THEN \E w \in Workers : Goto(w, "waiting", "check")
    ELSE UNCHANGED pc

NotifyAll == pc' = [w \in Workers |-> IF pc[w] = "waiting" THEN "check" ELSE pc[w]]

\* Fault: a thread is notified only if the queue was empty.
DispatchOnEmpty(j) ==
    /\ owner = "open"
    /\ Len(dispatched) < MaxJobs
    /\ jobs' = Append(jobs, j)
    /\ dispatched' = Append(dispatched, j)
    /\ IF jobs = <<>> THEN NotifyOne ELSE UNCHANGED pc
    /\ UNCHANGED <<mine, availableThreads, terminate, owner, started, returned>>

\* dispatch_thread
Dispatch(j) ==
    /\ owner = "open"
    /\ Len(dispatched) < MaxJobs
    /\ jobs' = Append(jobs, j)
    /\ dispatched' = Append(dispatched, j)
    /\ NotifyOne
    /\ UNCHANGED <<mine, availableThreads, terminate, owner, started, returned>>

\* The destructor up to its joins ...
Terminate ==
    /\ owner = "open"
    /\ terminate' = TRUE
    /\ NotifyAll
    /\ owner' = "joining"
    /\ UNCHANGED <<jobs, mine, availableThreads, dispatched, started, returned>>

\* ... and when the last worker has been joined
Join ==
    /\ owner = "joining"
    /\ \A w \in Workers : pc[w] = "exited"
    /\ owner' = "gone"
    /\ UNCHANGED <<pc, jobs, mine, availableThreads, terminate, dispatched, started, returned>>

-----------------------------------------------------------------------------
Work(w) == Check(w) \/ Sleep(w) \/ Take(w) \/ Return(w) \/ GiveBack(w)

Next ==
    \/ \E w \in Workers : Work(w) \/ WakeSpuriously(w)
    \/ \E j \in Job : Dispatch(j)
    \/ Terminate
    \/ Join

Spec == Init /\ [][Next]_vars

\* The kernel runs the threads that can run, cvLock is let go of in the end by
\* whoever holds it, and the functions dispatched return.
Fairness == (\A w \in Workers : WF_vars(Work(w))) /\ WF_vars(Join)

FairSpec == Spec /\ Fairness

-----------------------------------------------------------------------------
(* Properties                                                              *)

\* The values the variables range over; thread_avail() never sees more idle
\* threads than there are, nor an availableThreads that has wrapped below 0.
TypeOK ==
    /\ pc \in [Workers -> {"check", "enter", "waiting", "run", "finish", "exited"}]
    /\ jobs \in Seq(Job)
    /\ mine \in [Workers -> Seq(Job)]
    /\ availableThreads \in 0..Cardinality(Workers)
    /\ terminate \in BOOLEAN
    /\ owner \in {"open", "joining", "gone"}
    /\ dispatched \in Seq(Job)
    /\ started \in Seq(Job)
    /\ returned \in Nat

Coming == {w \in Workers : pc[w] \in {"check", "enter"}}
Busy   == {w \in Workers : pc[w] \in {"run", "finish"}}

\* The counter thread_avail() answers from, changed in two critical sections
\* that a whole job lies between, is the number of workers that have no job.
IdleCount == availableThreads = Cardinality(Workers) - Cardinality(Busy)

\* notify_one is enough: while some worker sleeps there are at least as many
\* workers on their way to the queue as there are jobs in it, so no job waits
\* for a worker to finish another while a third worker sleeps.
WorkConserving ==
    (~terminate /\ \E w \in Workers : pc[w] = "waiting") =>
        Len(jobs) <= Cardinality(Coming)

\* The pool starts jobs in the order of dispatch, each once, and never more at a
\* time than it has threads.
Server == INSTANCE JobServer WITH N <- Cardinality(Workers)
ServesInOrder == Server!Spec

\* Every job dispatched is executed unless the pool is destroyed first.
JobsReturn ==
    \A k \in 1..MaxJobs : (Len(dispatched) >= k) ~> (returned >= k \/ terminate)

\* The destructor joins every thread and returns.
DestructorReturns == terminate ~> owner = "gone"
=============================================================================
