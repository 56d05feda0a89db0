------------------------- MODULE ThreadPoolProofs --------------------------
(***************************************************************************)
(* Theorems about ThreadPool, for any finite set of workers and any jobs.  *)
(***************************************************************************)
EXTENDS ThreadPool, FiniteSetTheorems, TLAPS

\* The inductive invariant: the properties, and the two facts that tie the
\* queue and the counters to what has been dispatched.
PoolInv ==
  /\ TypeOK
  /\ IdleCount
  /\ WorkConserving
  /\ started \o jobs = dispatched
  /\ returned + Cardinality(Busy) = Len(started)

\* The workers that f puts at one of the places P.
At(f, P) == {v \in Workers : f[v] \in P}

\* How the number of workers at certain places changes when one worker moves.
LEMMA OneMoves ==
  ASSUME TypeOK, NEW w \in Workers, NEW from, NEW to, Goto(w, from, to), NEW P
  PROVE  /\ Cardinality(At(pc, P)) \in Nat
         /\ Cardinality(At(pc', P)) \in Nat
         /\ Cardinality(At(pc', P)) <= Cardinality(Workers)
         /\ (from \in P <=> to \in P) => At(pc', P) = At(pc, P)
         /\ from \notin P /\ to \in P =>
               Cardinality(At(pc', P)) = Cardinality(At(pc, P)) + 1
         /\ from \in P /\ to \notin P =>
               Cardinality(At(pc', P)) = Cardinality(At(pc, P)) - 1
<1> DEFINE A == {v \in Workers : pc[v] \in P}
           B == {v \in Workers : pc'[v] \in P}
<1>1. pc[w] = from /\ pc'[w] = to /\ \A v \in Workers \ {w} : pc'[v] = pc[v]
  BY DEF TypeOK, Goto
<1>2. A \subseteq Workers /\ B \subseteq Workers /\ IsFiniteSet(Workers)
  BY ThreadPoolAssumption
<1>3. /\ IsFiniteSet(A) /\ Cardinality(A) \in Nat
      /\ IsFiniteSet(B) /\ Cardinality(B) \in Nat /\ Cardinality(B) <= Cardinality(Workers)
  BY <1>2, FS_Subset, FS_CardinalityType
<1>4. (from \in P <=> to \in P) => B = A
  BY <1>1
<1>5. ASSUME from \notin P, to \in P PROVE Cardinality(B) = Cardinality(A) + 1
  <2>1. B = A \cup {w} /\ w \notin A
    BY <1>1, <1>5
  <2> QED
    BY <1>3, <2>1, FS_AddElement
<1>6. ASSUME from \in P, to \notin P PROVE Cardinality(B) = Cardinality(A) - 1
  <2>1. A = B \cup {w} /\ w \notin B
    BY <1>1, <1>6
  <2> QED
    BY <1>3, <2>1, FS_AddElement
<1> QED
  BY <1>3, <1>4, <1>5, <1>6 DEF At

\* What a move does to the two sets the properties count.
LEMMA MoveCounts ==
  ASSUME TypeOK, NEW w \in Workers, NEW from, NEW to, Goto(w, from, to)
  PROVE  /\ Cardinality(Workers) \in Nat
         /\ Cardinality(Busy) \in Nat /\ Cardinality(Busy') \in Nat
         /\ Cardinality(Busy') <= Cardinality(Workers)
         /\ (from \in {"run", "finish"} <=> to \in {"run", "finish"}) => Busy' = Busy
         /\ from \notin {"run", "finish"} /\ to \in {"run", "finish"} =>
               Cardinality(Busy') = Cardinality(Busy) + 1
         /\ from \in {"run", "finish"} /\ to \notin {"run", "finish"} =>
               Cardinality(Busy') = Cardinality(Busy) - 1
         /\ Cardinality(Coming) \in Nat /\ Cardinality(Coming') \in Nat
         /\ (from \in {"check", "enter"} <=> to \in {"check", "enter"}) => Coming' = Coming
         /\ from \notin {"check", "enter"} /\ to \in {"check", "enter"} =>
               Cardinality(Coming') = Cardinality(Coming) + 1
         /\ from \in {"check", "enter"} /\ to \notin {"check", "enter"} =>
               Cardinality(Coming') = Cardinality(Coming) - 1
<1>1. Cardinality(Workers) \in Nat
  BY ThreadPoolAssumption, FS_CardinalityType
<1> DEFINE R == {"run", "finish"}
           C == {"check", "enter"}
<1>2. /\ Busy = At(pc, R) /\ Busy' = At(pc', R)
      /\ Coming = At(pc, C) /\ Coming' = At(pc', C)
  BY DEF Busy, Coming, At
<1> HIDE DEF R, C
<1>3. /\ Cardinality(Busy) \in Nat /\ Cardinality(Busy') \in Nat
      /\ Cardinality(Busy') <= Cardinality(Workers)
      /\ (from \in R <=> to \in R) => Busy' = Busy
      /\ from \notin R /\ to \in R => Cardinality(Busy') = Cardinality(Busy) + 1
      /\ from \in R /\ to \notin R => Cardinality(Busy') = Cardinality(Busy) - 1
  BY <1>2, OneMoves
<1>4. /\ Cardinality(Coming) \in Nat /\ Cardinality(Coming') \in Nat
      /\ (from \in C <=> to \in C) => Coming' = Coming
      /\ from \notin C /\ to \in C => Cardinality(Coming') = Cardinality(Coming) + 1
      /\ from \in C /\ to \notin C => Cardinality(Coming') = Cardinality(Coming) - 1
  BY <1>2, OneMoves
<1> QED
  BY <1>1, <1>3, <1>4 DEF R, C

\* The constructor leaves the pool in a state of the invariant.
LEMMA PoolInit == Init => PoolInv
<1> SUFFICES ASSUME Init PROVE PoolInv
  OBVIOUS
<1>1. Cardinality(Workers) \in Nat
  BY ThreadPoolAssumption, FS_CardinalityType
<1>2. TypeOK
  <2>1. <<>> \in Seq(Job)
    OBVIOUS
  <2>2. mine \in [Workers -> Seq(Job)]
    BY <2>1 DEF Init
  <2>3. availableThreads \in 0..Cardinality(Workers)
    BY <1>1 DEF Init
  <2>4. jobs \in Seq(Job) /\ dispatched \in Seq(Job) /\ started \in Seq(Job)
    BY <2>1 DEF Init
  <2> QED
    BY <2>2, <2>3, <2>4 DEF Init, TypeOK
<1>3. Busy = {} /\ ~\E w \in Workers : pc[w] = "waiting"
  BY DEF Init, Busy
<1>4. Cardinality({}) = 0
  BY FS_EmptySet
<1> QED
  BY <1>1, <1>2, <1>3, <1>4 DEF Init, PoolInv, IdleCount, WorkConserving

\* No step of a worker, a dispatcher or the destructor leads out of it.
LEMMA PoolStep == PoolInv /\ [Next]_vars => PoolInv'
<1> SUFFICES ASSUME PoolInv, [Next]_vars PROVE PoolInv'
  OBVIOUS
<1>0. /\ TypeOK /\ IdleCount /\ WorkConserving /\ started \o jobs = dispatched
      /\ returned + Cardinality(Busy) = Len(started)
      /\ Cardinality(Workers) \in Nat
  BY ThreadPoolAssumption, FS_CardinalityType DEF PoolInv
\* A worker that moves without touching the queue, the jobs or the counters.
<1>1. ASSUME NEW w \in Workers, NEW from, NEW to, Goto(w, from, to),
             <<from, to>> \in {<<"check", "enter">>, <<"check", "exited">>,
                               <<"enter", "waiting">>, <<"run", "finish">>,
                               <<"waiting", "check">>},
             to = "exited" => terminate,
             to = "waiting" => jobs = <<>>,
             UNCHANGED <<jobs, mine, availableThreads, terminate, owner, dispatched,
                         started, returned>>
      PROVE  PoolInv'
  <2>1. TypeOK'
    BY <1>0, <1>1 DEF TypeOK, Goto
  <2>2. Busy' = Busy
    BY <1>0, <1>1, MoveCounts
  <2>3. WorkConserving'
    <3>1. CASE to = "waiting"
      <4>1. Cardinality(Coming') \in Nat
        BY <1>0, <1>1, MoveCounts
      <4> QED
        BY <1>1, <3>1, <4>1 DEF WorkConserving
    <3>2. CASE to = "check"
      <4>1. Cardinality(Coming') = Cardinality(Coming) + 1 /\ Cardinality(Coming) \in Nat
        BY <1>0, <1>1, <3>2, MoveCounts
      <4>2. pc[w] = "waiting"
        BY <1>1, <3>2 DEF Goto
      <4> QED
        BY <1>0, <1>1, <4>1, <4>2 DEF WorkConserving, TypeOK
    <3>3. CASE to \in {"enter", "finish"}
      <4>1. Coming' = Coming
        BY <1>0, <1>1, <3>3, MoveCounts
      <4>2. \A v \in Workers : pc'[v] = "waiting" => pc[v] = "waiting"
        BY <1>0, <1>1, <3>3 DEF Goto, TypeOK
      <4> QED
        BY <1>0, <1>1, <4>1, <4>2 DEF WorkConserving
    <3>4. CASE to = "exited"
      BY <1>1, <3>4 DEF WorkConserving
    <3> QED
      BY <1>1, <3>1, <3>2, <3>3, <3>4
  <2> QED
    BY <1>0, <1>1, <2>1, <2>2, <2>3 DEF PoolInv, IdleCount
<1>2. ASSUME NEW w \in Workers, Take(w) PROVE PoolInv'
  <2>1. Goto(w, "enter", "run") /\ jobs # <<>> /\ jobs \in Seq(Job) /\ started \in Seq(Job)
    BY <1>0, <1>2 DEF Take, TypeOK
  <2>2. /\ Cardinality(Busy') = Cardinality(Busy) + 1
        /\ Cardinality(Coming') = Cardinality(Coming) - 1
        /\ Cardinality(Busy') <= Cardinality(Workers)
        /\ Cardinality(Busy) \in Nat /\ Cardinality(Busy') \in Nat
        /\ Cardinality(Coming) \in Nat
    BY <1>0, <2>1, MoveCounts, SMTT(30)
  <2>3. Head(jobs) \in Job /\ Tail(jobs) \in Seq(Job) /\ Len(Tail(jobs)) = Len(jobs) - 1
    BY <2>1
  <2>4. IdleCount'
    BY <1>0, <1>2, <2>2 DEF IdleCount, Take
  <2>5. TypeOK'
    <3>1. availableThreads' \in 0..Cardinality(Workers)
      BY <1>0, <2>2, <2>4 DEF IdleCount
    <3>2. mine' \in [Workers -> Seq(Job)]
      BY <1>0, <1>2, <2>3 DEF Take, TypeOK
    <3> QED
      BY <1>0, <1>2, <2>1, <2>3, <3>1, <3>2 DEF Take, TypeOK, Goto
  <2>6. WorkConserving'
    <3>1. \A v \in Workers : pc'[v] = "waiting" => pc[v] = "waiting"
      BY <1>0, <2>1 DEF Goto, TypeOK
    <3>2. terminate' = terminate /\ jobs' = Tail(jobs)
      BY <1>2 DEF Take
    <3> QED
      BY <1>0, <2>1, <2>2, <2>3, <3>1, <3>2 DEF WorkConserving
  <2>7. started' \o jobs' = dispatched'
    <3>1. Append(started, Head(jobs)) \o Tail(jobs) = started \o jobs
      BY <2>1
    <3> QED
      BY <1>0, <1>2, <3>1 DEF Take
  <2>8. returned' + Cardinality(Busy') = Len(started')
    <3>1. started' = Append(started, Head(jobs)) /\ returned' = returned
      BY <1>2 DEF Take
    <3>2. Len(started') = Len(started) + 1 /\ Len(started) \in Nat /\ returned \in Nat
      BY <1>0, <2>1, <2>3, <3>1 DEF TypeOK
    <3>3. returned + Cardinality(Busy) = Len(started) /\ returned' = returned
      BY <1>0, <3>1
    <3> QED
      BY <2>2, <3>2, <3>3
  <2> QED
    BY <2>4, <2>5, <2>6, <2>7, <2>8 DEF PoolInv
<1>3. ASSUME NEW w \in Workers, GiveBack(w) PROVE PoolInv'
  <2>1. Goto(w, "finish", "check")
    BY <1>3 DEF GiveBack
  <2>2. /\ Cardinality(Busy') = Cardinality(Busy) - 1
        /\ Cardinality(Coming') = Cardinality(Coming) + 1
        /\ Cardinality(Busy') <= Cardinality(Workers)
        /\ Cardinality(Busy) \in Nat /\ Cardinality(Busy') \in Nat
        /\ Cardinality(Coming) \in Nat
    BY <1>0, <2>1, MoveCounts
  <2>3. IdleCount'
    BY <1>0, <1>3, <2>2 DEF IdleCount, GiveBack, TypeOK
  <2>4. TypeOK'
    <3>1. availableThreads' \in 0..Cardinality(Workers)
      BY <1>0, <2>2, <2>3 DEF IdleCount
    <3>2. mine' \in [Workers -> Seq(Job)]
      <4>1. <<>> \in Seq(Job)
        OBVIOUS
      <4> QED
        BY <1>0, <1>3, <4>1 DEF GiveBack, TypeOK
    <3> QED
      BY <1>0, <1>3, <2>1, <3>1, <3>2 DEF GiveBack, TypeOK, Goto
  <2>5. WorkConserving'
    <3>1. \A v \in Workers : pc'[v] = "waiting" => pc[v] = "waiting"
      BY <1>0, <2>1 DEF Goto, TypeOK
    <3>2. terminate' = terminate /\ jobs' = jobs /\ Len(jobs) \in Nat
      BY <1>0, <1>3 DEF GiveBack, TypeOK
    <3> QED
      BY <1>0, <2>2, <3>1, <3>2 DEF WorkConserving
  <2>6. started' \o jobs' = dispatched'
    BY <1>0, <1>3 DEF GiveBack
  <2>7. returned' + Cardinality(Busy') = Len(started')
    BY <1>0, <1>3, <2>2 DEF GiveBack, TypeOK
  <2> QED
    BY <2>3, <2>4, <2>5, <2>6, <2>7 DEF PoolInv
<1>4. ASSUME NEW j \in Job, Dispatch(j) PROVE PoolInv'
  <2>1. /\ jobs \in Seq(Job) /\ started \in Seq(Job) /\ jobs' = Append(jobs, j)
        /\ dispatched' = Append(dispatched, j) /\ started' = started
    BY <1>0, <1>4 DEF Dispatch, TypeOK
  <2>2. started' \o jobs' = dispatched'
    <3>1. started \o Append(jobs, j) = Append(started \o jobs, j)
      BY <2>1
    <3> QED
      BY <1>0, <2>1, <3>1
  <2>3. CASE \E w \in Workers : pc[w] = "waiting"
    <3>1. PICK w \in Workers : Goto(w, "waiting", "check")
      BY <1>4, <2>3 DEF Dispatch, NotifyOne
    <3>2. Busy' = Busy /\ Cardinality(Coming') = Cardinality(Coming) + 1
          /\ Cardinality(Coming) \in Nat
      BY <1>0, <3>1, MoveCounts, SMTT(30)
    <3>3. TypeOK'
      BY <1>0, <1>4, <2>1, <3>1 DEF Dispatch, Goto, TypeOK
    <3>4. WorkConserving'
      BY <1>0, <1>4, <2>1, <2>3, <3>2 DEF Dispatch, WorkConserving
    <3> QED
      BY <1>0, <1>4, <2>2, <3>2, <3>3, <3>4 DEF Dispatch, PoolInv, IdleCount
  <2>4. CASE ~\E w \in Workers : pc[w] = "waiting"
    <3>1. pc' = pc
      BY <1>4, <2>4 DEF Dispatch, NotifyOne
    <3>2. Busy' = Busy /\ WorkConserving'
      BY <2>4, <3>1 DEF Busy, WorkConserving
    <3>3. TypeOK'
      BY <1>0, <1>4, <2>1, <3>1 DEF Dispatch, TypeOK
    <3> QED
      BY <1>0, <1>4, <2>2, <3>2, <3>3 DEF Dispatch, PoolInv, IdleCount
  <2> QED
    BY <2>3, <2>4
<1>5. ASSUME Terminate PROVE PoolInv'
  <2>1. TypeOK'
    BY <1>0, <1>5 DEF Terminate, NotifyAll, TypeOK
  <2>2. Busy' = Busy
    BY <1>5 DEF Terminate, NotifyAll, Busy
  <2>3. WorkConserving'
    BY <1>5 DEF Terminate, WorkConserving
  <2> QED
    BY <1>0, <1>5, <2>1, <2>2, <2>3 DEF Terminate, PoolInv, IdleCount
<1>6. ASSUME Join PROVE PoolInv'
  BY <1>0, <1>6 DEF Join, PoolInv, TypeOK, IdleCount, WorkConserving, Busy, Coming
<1>7. CASE UNCHANGED vars
  BY <1>0, <1>7 DEF vars, PoolInv, TypeOK, IdleCount, WorkConserving, Busy, Coming
<1>8. ASSUME NEW w \in Workers, Check(w) PROVE PoolInv'
  <2>1. CASE terminate
    BY <1>1, <1>8, <2>1 DEF Check
  <2>2. CASE ~terminate
    BY <1>1, <1>8, <2>2 DEF Check
  <2> QED
    BY <2>1, <2>2
<1>9. ASSUME NEW w \in Workers, Sleep(w) PROVE PoolInv'
  BY <1>1, <1>9 DEF Sleep
<1>10. ASSUME NEW w \in Workers, Return(w) PROVE PoolInv'
  BY <1>1, <1>10 DEF Return
<1>11. ASSUME NEW w \in Workers, WakeSpuriously(w) PROVE PoolInv'
  BY <1>1, <1>11 DEF WakeSpuriously
<1> QED
  BY <1>2, <1>3, <1>4, <1>5, <1>6, <1>7, <1>8, <1>9, <1>10, <1>11 DEF Next, Work

\* Types, the idle counter, the bound on waiting jobs and the account of jobs
\* dispatched, started and returned hold in every state of every pool.
THEOREM PoolInvariant == Spec => []PoolInv
  BY PoolInit, PoolStep, PTL DEF Spec

\* availableThreads never leaves 0..n for a pool of n threads, and the queue and
\* the workers hold nothing but jobs.
THEOREM PoolTypes == Spec => []TypeOK
<1>1. PoolInv => TypeOK
  BY DEF PoolInv
<1> QED
  BY <1>1, PoolInvariant, PTL

\* thread_avail() answers from a counter that is, in every state, the number of
\* workers without a job.
THEOREM PoolIdleCount == Spec => []IdleCount
<1>1. PoolInv => IdleCount
  BY DEF PoolInv
<1> QED
  BY <1>1, PoolInvariant, PTL

\* Waking one worker per dispatch never leaves a job to a busy worker while
\* another sleeps.
THEOREM PoolWorkConserving == Spec => []WorkConserving
<1>1. PoolInv => WorkConserving
  BY DEF PoolInv
<1> QED
  BY <1>1, PoolInvariant, PTL

-----------------------------------------------------------------------------
(* The pool implements JobServer: taking a job is Start, reporting back is *)
(* Finish, dispatching is Accept, and every other step a stutter.          *)

\* Every step of the pool is one of the job server or none.
LEMMA ServerStep == PoolInv /\ [Next]_vars => [Server!Next]_Server!vars
<1> SUFFICES ASSUME PoolInv, [Next]_vars PROVE [Server!Next]_Server!vars
  OBVIOUS
<1>0. /\ TypeOK /\ started \o jobs = dispatched
      /\ returned + Cardinality(Busy) = Len(started)
      /\ jobs \in Seq(Job) /\ started \in Seq(Job) /\ returned \in Nat
  BY DEF PoolInv, TypeOK
<1>1. ASSUME NEW w \in Workers, Take(w) PROVE Server!Start
  <2>1. Goto(w, "enter", "run") /\ jobs # <<>>
    BY <1>1 DEF Take
  <2>2. Len(started) < Len(dispatched) /\ dispatched[Len(started) + 1] = Head(jobs)
    BY <1>0, <2>1
  <2>3. Cardinality(Busy) < Cardinality(Workers)
    BY <1>0, <2>1, MoveCounts
  <2>4. Len(started) - returned < Cardinality(Workers)
    <3>1. Cardinality(Busy) \in Nat /\ Cardinality(Workers) \in Nat
      BY <1>0, <2>1, MoveCounts
    <3> QED
      BY <1>0, <2>3, <3>1
  <2> QED
    BY <1>1, <2>2, <2>4 DEF Take, Server!Start
<1>2. ASSUME NEW w \in Workers, GiveBack(w) PROVE Server!Finish
  <2>1. Goto(w, "finish", "check")
    BY <1>2 DEF GiveBack
  <2>2. /\ Cardinality(Busy) \in Nat /\ Cardinality(Busy') \in Nat
        /\ Cardinality(Busy') = Cardinality(Busy) - 1
    BY <1>0, <2>1, MoveCounts
  <2>3. returned < Len(started)
    BY <1>0, <2>2
  <2> QED
    BY <1>2, <2>3 DEF GiveBack, Server!Finish
<1>3. ASSUME NEW j \in Job, Dispatch(j) PROVE Server!Accept(j)
  BY <1>3 DEF Dispatch, Server!Accept
<1>4. ASSUME NEW w \in Workers,
             Check(w) \/ Sleep(w) \/ Return(w) \/ WakeSpuriously(w)
      PROVE  UNCHANGED Server!vars
  BY <1>4 DEF Check, Sleep, Return, WakeSpuriously, Server!vars
<1>5. ASSUME Terminate \/ Join \/ UNCHANGED vars PROVE UNCHANGED Server!vars
  BY <1>5 DEF Terminate, Join, vars, Server!vars
<1> QED
  BY <1>1, <1>2, <1>3, <1>4, <1>5 DEF Next, Work, Server!Next

\* Jobs are started in the order of dispatch, each once, and no more of them at a
\* time than the pool has threads.
THEOREM PoolServesInOrder == Spec => ServesInOrder
<1>1. Init => Server!Init
  BY DEF Init, Server!Init
<1>2. Spec => Server!Spec
  BY <1>1, PoolInvariant, ServerStep, PTL DEF Spec, Server!Spec
<1> QED
  BY <1>2 DEF ServesInOrder
=============================================================================
