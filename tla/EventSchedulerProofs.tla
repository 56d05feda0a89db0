------------------------ MODULE EventSchedulerProofs ------------------------
(***************************************************************************)
(* Theorems about EventScheduler, for any callers, workers, limit, clock   *)
(* and timeouts: the counter and the limit on events, how late an event    *)
(* may be, that the scheduler keeps the promises of Alarms, that it runs   *)
(* its pool as ThreadPool does, and that no event is handed on twice.      *)
(***************************************************************************)
EXTENDS EventScheduler, FiniteSetTheorems, FunctionTheorems, SequenceTheorems, TLAPS

-----------------------------------------------------------------------------
(* Arithmetic of deadlines, and sequences as sets                          *)

\* A reading of the clock, split into seconds and ticks.
LEMMA SplitTime ==
  ASSUME NEW n \in Nat
  PROVE  /\ n \div Second \in Nat
         /\ n % Second \in 0..(Second - 1)
         /\ n = (n \div Second) * Second + (n % Second)
<1>1. n \div Second \in Nat /\ n % Second \in 0..(Second - 1)
  BY SchedulerAssumption
<1>2. n = (n \div Second) * Second + (n % Second)
  BY SchedulerAssumption
<1> QED
  BY <1>1, <1>2

\* Multiplication by Second distributes, and keeps a whole second between two
\* deadlines that differ in their seconds.
LEMMA Seconds ==
  ASSUME NEW a \in Int, NEW b \in Int
  PROVE  /\ a * Second \in Int
         /\ (a + b) * Second = a * Second + b * Second
         /\ (a - b) * Second = a * Second - b * Second
         /\ a < b => a * Second + Second <= b * Second
<1>1. a * Second \in Int /\ Second \in Nat \ {0}
  BY SchedulerAssumption
<1>2. (a + b) * Second = a * Second + b * Second
  BY SchedulerAssumption
<1>3. (a - b) * Second = a * Second - b * Second
  BY SchedulerAssumption
<1>4. ASSUME a < b PROVE a * Second + Second <= b * Second
  BY <1>4, SchedulerAssumption
<1> QED
  BY <1>1, <1>2, <1>3, <1>4

\* Deadlines compared by their fields, whose ticks may exceed a second.
LEMMA FieldsCompare ==
  ASSUME NEW a \in Nat, NEW m \in 0..(2 * Second - 2),
         NEW b \in Nat, NEW n \in 0..(2 * Second - 2),
         a < b \/ (a = b /\ m <= n)
  PROVE  a * Second + m < b * Second + n + Second
<1>1. a * Second \in Int /\ b * Second \in Int
  BY SchedulerAssumption
<1>2. CASE a < b
  <2>1. a * Second + Second <= b * Second
    BY <1>2, Seconds
  <2> QED
    BY <1>1, <2>1, SchedulerAssumption
<1>3. CASE a = b /\ m <= n
  BY <1>1, <1>3, SchedulerAssumption
<1> QED
  BY <1>2, <1>3

\* Adding an element at the end of a sequence adds it to the set of its elements.
LEMMA InAppend ==
  ASSUME NEW T, NEW s \in Seq(T), NEW e \in T
  PROVE  Append(s, e) \in Seq(T) /\ InSeq(Append(s, e)) = InSeq(s) \cup {e}
<1>1. /\ Append(s, e) \in Seq(T)
      /\ DOMAIN Append(s, e) = 1..(Len(s) + 1) /\ DOMAIN s = 1..Len(s) /\ Len(s) \in Nat
      /\ \A k \in 1..Len(s) : Append(s, e)[k] = s[k]
      /\ Append(s, e)[Len(s) + 1] = e
  OBVIOUS
<1>2. \A k \in 1..(Len(s) + 1) : k \in 1..Len(s) \/ k = Len(s) + 1
  BY <1>1
<1>3. InSeq(Append(s, e)) \subseteq InSeq(s) \cup {e}
  BY <1>1, <1>2 DEF InSeq
<1>4. InSeq(s) \cup {e} \subseteq InSeq(Append(s, e))
  <2>1. 1..Len(s) \subseteq 1..(Len(s) + 1) /\ Len(s) + 1 \in 1..(Len(s) + 1)
    BY <1>1
  <2> QED
    BY <1>1, <2>1 DEF InSeq
<1> QED
  BY <1>1, <1>3, <1>4

\* No element twice
Distinct(s) == \A k, l \in DOMAIN s : s[k] = s[l] => k = l

\* Appending a new element keeps a sequence without repetitions.
LEMMA DistinctAppend ==
  ASSUME NEW T, NEW s \in Seq(T), NEW e \in T, Distinct(s), e \notin InSeq(s)
  PROVE  Distinct(Append(s, e))
<1>1. /\ DOMAIN Append(s, e) = 1..(Len(s) + 1) /\ DOMAIN s = 1..Len(s) /\ Len(s) \in Nat
      /\ \A k \in 1..Len(s) : Append(s, e)[k] = s[k]
      /\ Append(s, e)[Len(s) + 1] = e
  OBVIOUS
<1>2. \A k \in 1..(Len(s) + 1) : k \in 1..Len(s) \/ k = Len(s) + 1
  BY <1>1
<1>3. \A k \in 1..Len(s) : s[k] # e
  BY <1>1 DEF InSeq
<1> QED
  BY <1>1, <1>2, <1>3 DEF Distinct

\* The head of such a sequence leaves the set of its elements with the head.
LEMMA DistinctTail ==
  ASSUME NEW T, NEW s \in Seq(T), s # <<>>, Distinct(s)
  PROVE  /\ Head(s) \in T /\ Tail(s) \in Seq(T) /\ Distinct(Tail(s))
         /\ Head(s) \in InSeq(s) /\ InSeq(Tail(s)) = InSeq(s) \ {Head(s)}
<1>1. /\ Head(s) \in T /\ Head(s) = s[1] /\ Tail(s) \in Seq(T)
      /\ Len(s) \in Nat \ {0} /\ DOMAIN s = 1..Len(s) /\ DOMAIN Tail(s) = 1..(Len(s) - 1)
      /\ \A k \in 1..(Len(s) - 1) : Tail(s)[k] = s[k + 1]
  OBVIOUS
<1>2. Distinct(Tail(s))
  <2> SUFFICES ASSUME NEW k \in 1..(Len(s) - 1), NEW l \in 1..(Len(s) - 1), Tail(s)[k] = Tail(s)[l]
               PROVE  k = l
    BY <1>1 DEF Distinct
  <2>1. k + 1 \in DOMAIN s /\ l + 1 \in DOMAIN s /\ s[k + 1] = s[l + 1]
    BY <1>1
  <2> QED
    BY <2>1 DEF Distinct
<1>3. 1 \in DOMAIN s /\ Head(s) \in InSeq(s)
  BY <1>1 DEF InSeq
<1>4. InSeq(Tail(s)) \subseteq InSeq(s) \ {Head(s)}
  <2> SUFFICES ASSUME NEW k \in 1..(Len(s) - 1)
               PROVE  s[k + 1] \in InSeq(s) /\ s[k + 1] # s[1]
    BY <1>1 DEF InSeq
  <2>1. k + 1 \in DOMAIN s /\ k + 1 # 1
    BY <1>1
  <2> QED
    BY <1>3, <2>1 DEF InSeq, Distinct
<1>5. InSeq(s) \ {Head(s)} \subseteq InSeq(Tail(s))
  <2> SUFFICES ASSUME NEW k \in DOMAIN s, s[k] # s[1] PROVE s[k] \in InSeq(Tail(s))
    BY <1>1 DEF InSeq
  <2>1. k - 1 \in 1..(Len(s) - 1) /\ s[k] = Tail(s)[k - 1]
    BY <1>1
  <2> QED
    BY <1>1, <2>1 DEF InSeq
<1> QED
  BY <1>1, <1>2, <1>3, <1>4, <1>5

-----------------------------------------------------------------------------
(* The inductive invariant                                                 *)

\* As much of TypeOK as the arguments below need.
TInv ==
    /\ now \in Nat
    /\ timeout \in [Ids -> [sec : Nat, nsec : 0..(2 * Second - 2)]]
    /\ nextId \in Nat
    /\ calls \in [Callers -> {"idle", "admitted", "push"}]
    /\ hold \in [Callers -> Ids \cup {NoId}]
    /\ jobs \in Seq(Ids)
    /\ started \in Seq(Ids)

\* There are ids left for the callers that have been admitted.
Admitted == {c \in Callers : calls[c] = "admitted"}
Room     == nextId + Cardinality(Admitted) <= MaxIds

\* The ids handed out, and those of the events that are or were in the heap.
Issued == 0..(nextId - 1)
Seen   == queue \cup cancelled \cup {front} \cup InSeq(jobs) \cup InSeq(started)

\* Only ids that have been handed out are anywhere, and the event a caller is
\* about to put into the heap is its own and new there.
Numbered ==
    /\ queue \cup cancelled \cup InSeq(jobs) \cup InSeq(started) \subseteq Issued
    /\ front \in Issued \cup {NoId}
    /\ front # NoId <=> dispatcher = "dispatch"
    /\ \A c \in Callers : calls[c] = "push" => hold[c] \in Issued \ Seen
    /\ \A c, d \in Callers : calls[c] = "push" /\ calls[d] = "push" /\ hold[c] = hold[d] => c = d

\* An event is in one place.
Apart ==
    /\ queue \cap (cancelled \cup {front} \cup InSeq(jobs) \cup InSeq(started)) = {}
    /\ cancelled \cap ({front} \cup InSeq(jobs) \cup InSeq(started)) = {}
    /\ front \notin InSeq(jobs) \cup InSeq(started)
    /\ InSeq(jobs) \cap InSeq(started) = {}
    /\ Distinct(jobs)

EventInv == TInv /\ Room /\ Numbered /\ Apart /\ QueueCount /\ WithinLimit

\* The finite sets that are counted.
LEMMA Counted ==
  ASSUME EventInv
  PROVE  /\ IsFiniteSet(queue) /\ Cardinality(queue) \in Nat /\ numEvents = Cardinality(queue)
         /\ \A A \in SUBSET Callers : /\ IsFiniteSet(A) /\ Cardinality(A) \in Nat
                                      /\ Cardinality(A) <= Cardinality(Callers)
         /\ Cardinality(Callers) \in Nat \ {0}
<1>1. /\ IsFiniteSet(Callers) /\ Callers # {}
      /\ \A A \in SUBSET Callers : IsFiniteSet(A) /\ Cardinality(A) <= Cardinality(Callers)
  BY SchedulerAssumption, FS_Subset
<1>2. Cardinality(Callers) \in Nat \ {0} /\ \A A \in SUBSET Callers : Cardinality(A) \in Nat
  BY <1>1, FS_CardinalityType, FS_EmptySet
<1>3. IsFiniteSet(queue)
  <2>1. queue \subseteq 0..(nextId - 1) /\ nextId \in Nat
    BY DEF EventInv, TInv, Numbered, Issued, Seen
  <2>2. IsFiniteSet(0..(nextId - 1))
    BY <2>1, FS_Interval
  <2> QED
    BY <2>1, <2>2, FS_Subset
<1> QED
  BY <1>1, <1>2, <1>3, FS_CardinalityType DEF EventInv, QueueCount

\* Ids handed out are ids.
LEMMA IssuedIds == ASSUME EventInv PROVE nextId \in 0..MaxIds /\ Issued \subseteq Ids /\ NoId \notin Ids
<1>1. Admitted \in SUBSET Callers
  BY DEF Admitted
<1>2. Cardinality(Admitted) \in Nat
  BY <1>1, Counted
<1> QED
  BY <1>2, SchedulerAssumption DEF EventInv, TInv, Room, Issued, Ids, NoId

\* The initial states satisfy the invariant.
LEMMA EventInit == Init => EventInv
<1> SUFFICES ASSUME Init PROVE EventInv
  OBVIOUS
<1>1. jobs = <<>> /\ started = <<>>
  BY DEF Init, Pool!Init
<1>2. TInv
  BY <1>1, SchedulerAssumption DEF Init, TInv, Epoch
<1>3. InSeq(jobs) = {} /\ InSeq(started) = {}
  BY <1>1 DEF InSeq
<1>4. Numbered /\ Apart
  BY <1>1, <1>3 DEF Init, Numbered, Apart, Seen, Issued, NoId, Distinct
<1>5. Admitted = {} /\ Underway = {} /\ queue = {} /\ numEvents = 0 /\ nextId = 0
  BY DEF Init, Admitted, Underway
<1>6. Cardinality(Callers) \in Nat \ {0} /\ Cardinality({}) = 0
  BY SchedulerAssumption, FS_CardinalityType, FS_EmptySet
<1>7. Room /\ QueueCount /\ WithinLimit
  BY <1>5, <1>6, SchedulerAssumption DEF Room, QueueCount, WithinLimit
<1> QED
  BY <1>2, <1>4, <1>7 DEF EventInv

-----------------------------------------------------------------------------
(* One lemma per action                                                    *)

\* A caller moves on: how many are admitted, and how many are inside.
LEMMA CallerMoves ==
  ASSUME EventInv, NEW c \in Callers, NEW from, NEW to \in {"idle", "admitted", "push"},
         Step(c, from, to)
  PROVE  /\ calls' \in [Callers -> {"idle", "admitted", "push"}]
         /\ calls[c] = from /\ calls'[c] = to /\ \A d \in Callers \ {c} : calls'[d] = calls[d]
         /\ Cardinality(Admitted') =
              Cardinality(Admitted) + (IF to = "admitted" THEN 1 ELSE 0)
                                    - (IF from = "admitted" THEN 1 ELSE 0)
         /\ Cardinality(Underway') =
              Cardinality(Underway) + (IF to # "idle" THEN 1 ELSE 0)
                                    - (IF from # "idle" THEN 1 ELSE 0)
<1>1. /\ calls' \in [Callers -> {"idle", "admitted", "push"}]
      /\ calls[c] = from /\ calls'[c] = to /\ \A d \in Callers \ {c} : calls'[d] = calls[d]
  BY DEF EventInv, TInv, Step
<1>2. /\ IsFiniteSet(Admitted) /\ Cardinality(Admitted) \in Nat
      /\ IsFiniteSet(Admitted') /\ Cardinality(Admitted') \in Nat
      /\ IsFiniteSet(Underway) /\ Cardinality(Underway) \in Nat
      /\ IsFiniteSet(Underway') /\ Cardinality(Underway') \in Nat
  <2>1. /\ Admitted \in SUBSET Callers /\ Admitted' \in SUBSET Callers
        /\ Underway \in SUBSET Callers /\ Underway' \in SUBSET Callers
    BY DEF Admitted, Underway
  <2> QED
    BY <2>1, Counted
<1>3. Cardinality(Admitted') = Cardinality(Admitted) + (IF to = "admitted" THEN 1 ELSE 0)
                                                     - (IF from = "admitted" THEN 1 ELSE 0)
  <2>1. CASE from = "admitted" /\ to # "admitted"
    <3>1. Admitted = Admitted' \cup {c} /\ c \notin Admitted'
      BY <1>1, <2>1 DEF Admitted
    <3> QED
      BY <1>2, <2>1, <3>1, FS_AddElement
  <2>2. CASE from # "admitted" /\ to = "admitted"
    <3>1. Admitted' = Admitted \cup {c} /\ c \notin Admitted
      BY <1>1, <2>2 DEF Admitted
    <3> QED
      BY <1>2, <2>2, <3>1, FS_AddElement
  <2>3. CASE from = "admitted" <=> to = "admitted"
    <3>1. Admitted' = Admitted
      BY <1>1, <2>3 DEF Admitted
    <3> QED
      BY <1>2, <2>3, <3>1
  <2> QED
    BY <2>1, <2>2, <2>3
<1>4. Cardinality(Underway') = Cardinality(Underway) + (IF to # "idle" THEN 1 ELSE 0)
                                                     - (IF from # "idle" THEN 1 ELSE 0)
  <2>1. CASE from # "idle" /\ to = "idle"
    <3>1. Underway = Underway' \cup {c} /\ c \notin Underway'
      BY <1>1, <2>1 DEF Underway
    <3> QED
      BY <1>2, <2>1, <3>1, FS_AddElement
  <2>2. CASE from = "idle" /\ to # "idle"
    <3>1. Underway' = Underway \cup {c} /\ c \notin Underway
      BY <1>1, <2>2 DEF Underway
    <3> QED
      BY <1>2, <2>2, <3>1, FS_AddElement
  <2>3. CASE from = "idle" <=> to = "idle"
    <3>1. Underway' = Underway
      BY <1>1, <2>3 DEF Underway
    <3> QED
      BY <1>2, <2>3, <3>1
  <2> QED
    BY <2>1, <2>2, <2>3
<1> QED
  BY <1>1, <1>3, <1>4

\* Admitting a caller: at most MaxEvents - 1 events are in the heap, and at most
\* all callers are inside.
LEMMA AdmitKeeps == ASSUME EventInv, NEW c \in Callers, Admit(c) PROVE EventInv'
<1>1. /\ Step(c, "idle", "admitted")
      /\ numEvents < MaxEvents
      /\ UNCHANGED <<now, timeout, queue, numEvents, cancelled, hold, nextId, dispatcher, front>>
      /\ UNCHANGED <<jobs, started>>
  BY DEF Admit, events, execution, pool
<1>2. /\ calls' \in [Callers -> {"idle", "admitted", "push"}]
      /\ \A d \in Callers : calls'[d] = "push" => calls[d] = "push"
      /\ Cardinality(Admitted') = Cardinality(Admitted) + 1
  BY <1>1, CallerMoves
<1>3. nextId + Cardinality(Admitted) < MaxIds
  BY DEF Admit, Admitted
<1>4. Cardinality(Admitted) \in Nat
  <2>1. Admitted \in SUBSET Callers
    BY DEF Admitted
  <2> QED
    BY <2>1, Counted
<1>5. Cardinality(Underway') \in Nat /\ Cardinality(Underway') <= Cardinality(Callers)
  <2>1. Underway' \in SUBSET Callers
    BY DEF Underway
  <2> QED
    BY <2>1, Counted
<1>6. TInv' /\ Numbered' /\ Apart' /\ QueueCount'
  <2>1. TInv'
    BY <1>1, <1>2 DEF EventInv, TInv
  <2>2. Seen' = Seen /\ Issued' = Issued /\ InSeq(jobs') = InSeq(jobs) /\ InSeq(started') = InSeq(started)
    BY <1>1 DEF Seen, Issued
  <2>3. Numbered'
    BY <1>1, <1>2, <2>2 DEF EventInv, Numbered
  <2>4. Apart' /\ QueueCount'
    BY <1>1, <2>2 DEF EventInv, Apart, QueueCount, Distinct
  <2> QED
    BY <2>1, <2>3, <2>4
<1>7. Room'
  BY <1>1, <1>2, <1>3, <1>4, SchedulerAssumption DEF Room, EventInv, TInv
<1>8. WithinLimit'
  BY <1>1, <1>5, Counted, SchedulerAssumption DEF WithinLimit
<1> QED
  BY <1>6, <1>7, <1>8 DEF EventInv

\* A deadline is a timespec without a carry, and stands for the moment asked for.
LEMMA DeadlineDue ==
  ASSUME now \in Nat, NEW t \in Nat
  PROVE  /\ Deadline(t) \in [sec : Nat, nsec : 0..(2 * Second - 2)]
         /\ Deadline(t).sec * Second + Deadline(t).nsec = now + t
<1> DEFINE s == now \div Second
           u == t \div Second
           m == now % Second
           n == t % Second
<1>1. s \in Nat /\ m \in 0..(Second - 1) /\ now = s * Second + m
  BY SplitTime
<1>2. u \in Nat /\ n \in 0..(Second - 1) /\ t = u * Second + n
  BY SplitTime
<1>3. Deadline(t) = [sec |-> s + u, nsec |-> m + n]
  BY DEF Deadline
<1> HIDE DEF s, u, m, n
<1>4. (s + u) * Second = s * Second + u * Second /\ s * Second \in Int /\ u * Second \in Int
  BY <1>1, <1>2, Seconds
<1>5. s + u \in Nat /\ m + n \in 0..(2 * Second - 2) /\ m \in Int /\ n \in Int
  BY <1>1, <1>2, SchedulerAssumption
<1>6. (s + u) * Second + (m + n) = now + t
  BY <1>1, <1>2, <1>4, <1>5
<1> QED
  BY <1>3, <1>5, <1>6

\* A new event takes the next id.
LEMMA NewEventKeeps ==
  ASSUME EventInv, NEW c \in Callers, NEW t \in Timeouts, NewEvent(c, t) PROVE EventInv'
<1>1. /\ Step(c, "admitted", "push")
      /\ hold' = [hold EXCEPT ![c] = nextId]
      /\ timeout' = [timeout EXCEPT ![nextId] = Deadline(t)]
      /\ nextId' = nextId + 1
      /\ UNCHANGED <<now, queue, numEvents, cancelled, dispatcher, front, jobs, started>>
  BY DEF NewEvent, events, execution, pool
<1>2. /\ calls' \in [Callers -> {"idle", "admitted", "push"}]
      /\ \A d \in Callers \ {c} : calls'[d] = calls[d]
      /\ Cardinality(Admitted') = Cardinality(Admitted) - 1
      /\ Cardinality(Underway') = Cardinality(Underway)
  <2>1. Cardinality(Admitted) \in Nat /\ Cardinality(Underway) \in Nat
    <3>1. Admitted \in SUBSET Callers /\ Underway \in SUBSET Callers
      BY DEF Admitted, Underway
    <3> QED
      BY <3>1, Counted
  <2> QED
    BY <1>1, <2>1, CallerMoves
<1>3. Deadline(t) \in [sec : Nat, nsec : 0..(2 * Second - 2)]
  BY DeadlineDue, SchedulerAssumption DEF EventInv, TInv
<1>4. nextId \in Nat /\ nextId + 1 \in Nat /\ nextId \in Ids
  <2>1. Admitted' \in SUBSET Callers /\ Admitted \in SUBSET Callers
    BY DEF Admitted
  <2>2. Cardinality(Admitted') \in Nat /\ Cardinality(Admitted) \in Nat
    BY <2>1, Counted
  <2> QED
    BY <1>2, <2>2, SchedulerAssumption DEF EventInv, TInv, Room, Ids
<1>5. TInv'
  BY <1>1, <1>2, <1>3, <1>4 DEF EventInv, TInv
<1>6. Seen' = Seen /\ InSeq(jobs') = InSeq(jobs) /\ InSeq(started') = InSeq(started)
  BY <1>1 DEF Seen
<1>7. Issued' = Issued \cup {nextId} /\ nextId \notin Issued /\ NoId # nextId
  BY <1>1, <1>4 DEF Issued, NoId
<1>8. nextId \notin Seen
  BY <1>7 DEF EventInv, Numbered, Seen
<1>9. Numbered'
  <2>1. \A d \in Callers :
          calls'[d] = "push" => IF d = c THEN hold'[d] = nextId
                                ELSE calls[d] = "push" /\ hold'[d] = hold[d]
    BY <1>1, <1>2 DEF EventInv, TInv
  <2> QED
    BY <1>1, <1>6, <1>7, <1>8, <2>1 DEF EventInv, Numbered
<1>10. Apart' /\ QueueCount'
  BY <1>1, <1>6 DEF EventInv, Apart, QueueCount, Distinct
<1>11. Room' /\ WithinLimit'
  <2>1. Admitted \in SUBSET Callers /\ Cardinality(Admitted) \in Nat
    BY Counted DEF Admitted
  <2> QED
    BY <1>1, <1>2, <1>4, <2>1, SchedulerAssumption DEF EventInv, Room, WithinLimit
<1> QED
  BY <1>5, <1>9, <1>10, <1>11 DEF EventInv

\* It enters the heap when its caller leaves.
LEMMA PushKeeps == ASSUME EventInv, NEW c \in Callers, Push(c) PROVE EventInv'
<1>1. /\ Step(c, "push", "idle")
      /\ queue' = queue \cup {hold[c]}
      /\ numEvents' = numEvents + 1
      /\ hold' = [hold EXCEPT ![c] = NoId]
      /\ UNCHANGED <<now, timeout, cancelled, nextId, front, jobs, started>>
      /\ dispatcher' = "dispatch" <=> dispatcher = "dispatch"
  BY DEF Push, NotifyDispatcher, pool
<1>2. Cardinality(Admitted) \in Nat /\ Cardinality(Underway) \in Nat
  <2>1. Admitted \in SUBSET Callers /\ Underway \in SUBSET Callers
    BY DEF Admitted, Underway
  <2> QED
    BY <2>1, Counted
<1>3. /\ calls' \in [Callers -> {"idle", "admitted", "push"}]
      /\ calls[c] = "push" /\ calls'[c] = "idle"
      /\ \A d \in Callers \ {c} : calls'[d] = calls[d]
      /\ Cardinality(Admitted') = Cardinality(Admitted)
      /\ Cardinality(Underway') = Cardinality(Underway) - 1
  BY <1>1, <1>2, CallerMoves
<1>4. hold[c] \in Issued \ Seen /\ hold[c] \notin queue
  BY <1>3 DEF EventInv, Numbered, Seen
<1>5. TInv'
  BY <1>1, <1>3 DEF EventInv, TInv
<1>6. Seen' = Seen \cup {hold[c]} /\ Issued' = Issued
      /\ InSeq(jobs') = InSeq(jobs) /\ InSeq(started') = InSeq(started)
  BY <1>1 DEF Seen, Issued
<1>7. Numbered'
  <2>1. \A d \in Callers : calls'[d] = "push" => d # c /\ calls[d] = "push" /\ hold'[d] = hold[d]
    BY <1>1, <1>3 DEF EventInv, TInv
  <2>2. \A d \in Callers : calls'[d] = "push" => hold[d] # hold[c]
    BY <1>3, <2>1 DEF EventInv, Numbered
  <2> QED
    BY <1>1, <1>4, <1>6, <2>1, <2>2 DEF EventInv, Numbered
<1>8. Apart'
  BY <1>1, <1>4, <1>6 DEF EventInv, Apart, Seen, Distinct
<1>9. QueueCount' /\ Cardinality(queue') = Cardinality(queue) + 1
  BY <1>1, <1>4, Counted, FS_AddElement DEF QueueCount
<1>10. Room' /\ WithinLimit'
  BY <1>1, <1>2, <1>3, <1>9, Counted, SchedulerAssumption DEF EventInv, Room, WithinLimit
<1> QED
  BY <1>5, <1>7, <1>8, <1>9, <1>10 DEF EventInv

\* An event leaves the heap.
LEMMA RemoveCounts ==
  ASSUME EventInv, NEW i \in queue, Remove(i), numEvents' = numEvents - 1,
         UNCHANGED <<nextId, calls>>
  PROVE  /\ i \in Ids /\ i \in Issued /\ i # NoId
         /\ timeout' \in [Ids -> [sec : Nat, nsec : 0..(2 * Second - 2)]]
         /\ Room' /\ QueueCount' /\ WithinLimit'
<1>1. i \in Issued /\ i \in Ids /\ i # NoId
  BY IssuedIds DEF EventInv, Numbered
<1>2. timeout' \in [Ids -> [sec : Nat, nsec : 0..(2 * Second - 2)]]
  BY <1>1, SchedulerAssumption DEF EventInv, TInv, Remove, Epoch
<1>3. Cardinality(queue') = Cardinality(queue) - 1 /\ Cardinality(queue) \in Nat
  BY Counted, FS_RemoveElement DEF Remove
<1>4. QueueCount'
  BY <1>3, Counted DEF QueueCount
<1>5. Cardinality(Underway) \in Nat /\ Underway' = Underway /\ Admitted' = Admitted
  <2>1. Underway \in SUBSET Callers
    BY DEF Underway
  <2> QED
    BY <2>1, Counted DEF Underway, Admitted
<1>6. Room' /\ WithinLimit'
  BY <1>3, <1>5, Counted, SchedulerAssumption DEF EventInv, Room, WithinLimit
<1> QED
  BY <1>1, <1>2, <1>4, <1>6

\* An event that is cancelled leaves the heap for good.
LEMMA CancelKeeps == ASSUME EventInv, NEW i \in Ids, eventCancel(i) PROVE EventInv'
<1>1. /\ i \in queue /\ Remove(i) /\ numEvents' = numEvents - 1
      /\ cancelled' = cancelled \cup {i}
      /\ UNCHANGED <<now, nextId, calls, hold, dispatcher, front, jobs, started>>
  BY DEF eventCancel, callers, execution, pool
<1>2. Room' /\ QueueCount' /\ WithinLimit'
  BY <1>1, RemoveCounts
<1>3. TInv'
  BY <1>1, RemoveCounts DEF EventInv, TInv
<1>4. /\ Seen' = Seen /\ Issued' = Issued /\ queue' = queue \ {i}
      /\ InSeq(jobs') = InSeq(jobs) /\ InSeq(started') = InSeq(started)
  BY <1>1 DEF Seen, Issued, Remove
<1>5. Numbered'
  BY <1>1, <1>4 DEF EventInv, Numbered
<1>6. Apart'
  BY <1>1, <1>4 DEF EventInv, Apart, Distinct
<1> QED
  BY <1>2, <1>3, <1>5, <1>6 DEF EventInv

\* An event that is due is held by the dispatcher, which held none before.
LEMMA FireKeeps == ASSUME EventInv, NEW i \in Ids, Fire(i) PROVE EventInv'
<1>1. /\ dispatcher = "enter" /\ dispatcher' = "dispatch"
      /\ i \in queue /\ Remove(i) /\ numEvents' = numEvents - 1
      /\ front' = i
      /\ UNCHANGED <<now, nextId, calls, hold, cancelled, jobs, started>>
  BY DEF Fire, Proceed, Fronts, callers, pool
<1>2. Room' /\ QueueCount' /\ WithinLimit' /\ i # NoId /\ i \in Issued
  BY <1>1, RemoveCounts
<1>3. TInv'
  BY <1>1, RemoveCounts DEF EventInv, TInv
<1>4. front = NoId
  BY <1>1 DEF EventInv, Numbered
<1>5. /\ Seen' \subseteq Seen /\ Issued' = Issued /\ queue' = queue \ {i}
      /\ InSeq(jobs') = InSeq(jobs) /\ InSeq(started') = InSeq(started)
  BY <1>1 DEF Seen, Issued, Remove
<1>6. Numbered'
  BY <1>1, <1>2, <1>5 DEF EventInv, Numbered
<1>7. Apart'
  BY <1>1, <1>5 DEF EventInv, Apart, Distinct
<1> QED
  BY <1>2, <1>3, <1>6, <1>7 DEF EventInv

\* It goes to the end of the pool's queue.
LEMMA DispatchKeeps == ASSUME EventInv, Dispatch PROVE EventInv'
<1>1. /\ dispatcher = "dispatch" /\ dispatcher' = "check"
      /\ jobs' = Append(jobs, front) /\ front' = NoId
      /\ UNCHANGED <<now, timeout, nextId, calls, hold, queue, numEvents, cancelled, started>>
  BY DEF Dispatch, Proceed, Pool!Dispatch, events, callers
<1>2. front \in Ids /\ front \in Issued /\ front \notin InSeq(jobs)
  BY <1>1, IssuedIds DEF EventInv, Numbered, Apart
<1>3. /\ jobs' \in Seq(Ids) /\ InSeq(jobs') = InSeq(jobs) \cup {front} /\ Distinct(jobs')
      /\ InSeq(started') = InSeq(started)
  BY <1>1, <1>2, InAppend, DistinctAppend DEF EventInv, TInv, Apart
<1>4. TInv'
  BY <1>1, <1>3 DEF EventInv, TInv
<1>5. NoId \notin Issued
  BY IssuedIds
<1>6. Seen' = Seen \cup {NoId} /\ Issued' = Issued
  BY <1>1, <1>3 DEF Seen, Issued
<1>7. Numbered'
  BY <1>1, <1>2, <1>3, <1>5, <1>6 DEF EventInv, Numbered
<1>8. Apart'
  BY <1>1, <1>3, <1>5 DEF EventInv, Numbered, Apart
<1>9. Room' /\ QueueCount' /\ WithinLimit'
  BY <1>1 DEF EventInv, Room, Admitted, QueueCount, WithinLimit, Underway
<1> QED
  BY <1>4, <1>7, <1>8, <1>9 DEF EventInv

\* A worker starts the first job of the queue, or changes neither jobs nor started.
LEMMA WorkerStarts ==
  ASSUME NEW w \in Workers, Worker(w)
  PROVE  \/ UNCHANGED <<jobs, started>>
         \/ jobs # <<>> /\ jobs' = Tail(jobs) /\ started' = Append(started, Head(jobs))
  BY DEF Worker, Pool!Work, Pool!Check, Pool!Sleep, Pool!Take, Pool!Return, Pool!GiveBack

\* The job that is started is in one place before and in one after.
LEMMA StartKeeps ==
  ASSUME EventInv, jobs # <<>>, jobs' = Tail(jobs), started' = Append(started, Head(jobs)),
         UNCHANGED <<now, timeout, events, callers, execution>>
  PROVE  /\ EventInv' /\ Head(jobs) \in Ids /\ Head(jobs) \in InSeq(jobs)
         /\ InSeq(jobs') = InSeq(jobs) \ {Head(jobs)}
         /\ InSeq(started') = InSeq(started) \cup {Head(jobs)}
<1> DEFINE j == Head(jobs)
<1>1. UNCHANGED <<now, timeout, nextId, calls, hold, queue, numEvents, cancelled, dispatcher, front>>
  BY DEF events, callers, execution
<1>2. /\ j \in Ids /\ j \in InSeq(jobs) /\ jobs' \in Seq(Ids) /\ Distinct(jobs')
      /\ InSeq(jobs') = InSeq(jobs) \ {j}
  BY DistinctTail DEF EventInv, TInv, Apart
<1>3. started' \in Seq(Ids) /\ InSeq(started') = InSeq(started) \cup {j}
  BY <1>2, InAppend DEF EventInv, TInv
<1>4. TInv'
  BY <1>1, <1>2, <1>3 DEF EventInv, TInv
<1>5. Seen' = Seen /\ Issued' = Issued
  BY <1>1, <1>2, <1>3 DEF Seen, Issued
<1>6. Numbered'
  BY <1>1, <1>2, <1>3, <1>5 DEF EventInv, Numbered
<1>7. Apart'
  BY <1>1, <1>2, <1>3 DEF EventInv, Apart
<1>8. Room' /\ QueueCount' /\ WithinLimit'
  BY <1>1 DEF EventInv, Room, Admitted, QueueCount, WithinLimit, Underway
<1> QED
  BY <1>2, <1>3, <1>4, <1>6, <1>7, <1>8 DEF EventInv

\* The other steps move no event, and the dispatcher neither to "dispatch" nor away.
Elsewhere ==
    \/ Check \/ Idle \/ (\E i \in Ids : HoldBack(i)) \/ TimeOut \/ WakeSpuriously
    \/ Terminate \/ DeletePool \/ (\E w \in Workers : WorkerWakesSpuriously(w)) \/ Tick
    \/ UNCHANGED vars

\* What these steps leave alone.
LEMMA ElsewhereStays ==
  ASSUME EventInv, Elsewhere
  PROVE  /\ UNCHANGED <<timeout, queue, numEvents, cancelled, calls, hold, nextId, front, jobs, started>>
         /\ dispatcher' = "dispatch" <=> dispatcher = "dispatch"
         /\ now' \in {now, now + 1}
<1> USE DEF events, callers, execution, pool
<1>1. CASE Check \/ Idle \/ (\E i \in Ids : HoldBack(i)) \/ TimeOut \/ WakeSpuriously
  BY <1>1 DEF Check, Idle, HoldBack, TimeOut, WakeSpuriously, Proceed
<1>2. CASE Terminate
  BY <1>2 DEF Terminate, NotifyDispatcher
<1>3. CASE DeletePool
  BY <1>3 DEF DeletePool, Pool!Terminate, Pool!Join
<1>4. CASE \E w \in Workers : WorkerWakesSpuriously(w)
  BY <1>4 DEF WorkerWakesSpuriously, Pool!WakeSpuriously
<1>5. CASE Tick
  BY <1>5 DEF Tick
<1>6. CASE UNCHANGED vars
  BY <1>6 DEF vars
<1> QED
  BY <1>1, <1>2, <1>3, <1>4, <1>5, <1>6 DEF Elsewhere

\* Steps that leave the events where they are keep the invariant.
LEMMA StillKeeps ==
  ASSUME EventInv, now' \in {now, now + 1},
         UNCHANGED <<timeout, queue, numEvents, cancelled, calls, hold, nextId, front, jobs, started>>,
         dispatcher' = "dispatch" <=> dispatcher = "dispatch"
  PROVE  EventInv'
<1>1. TInv'
  BY DEF EventInv, TInv
<1>2. Numbered'
  BY DEF EventInv, Numbered, Issued, Seen, InSeq
<1>3. Apart'
  BY DEF EventInv, Apart, InSeq, Distinct
<1>4. Room' /\ QueueCount' /\ WithinLimit'
  BY DEF EventInv, Room, Admitted, QueueCount, WithinLimit, Underway
<1> QED
  BY <1>1, <1>2, <1>3, <1>4 DEF EventInv

\* The steps of the scheduler, sorted by what they do to the events.
LEMMA Steps ==
  ASSUME [Next]_vars
  PROVE  \/ \E c \in Callers : Admit(c) \/ (\E t \in Timeouts : NewEvent(c, t)) \/ Push(c)
         \/ \E i \in Ids : eventCancel(i) \/ Fire(i)
         \/ Dispatch
         \/ \E w \in Workers : Worker(w)
         \/ Elsewhere
  BY DEF Next, Schedule, Dispatching, Elsewhere

\* Every step keeps the invariant.
LEMMA EventStep == EventInv /\ [Next]_vars => EventInv'
<1> SUFFICES ASSUME EventInv, [Next]_vars PROVE EventInv'
  OBVIOUS
<1>1. CASE \E c \in Callers : Admit(c) \/ (\E t \in Timeouts : NewEvent(c, t)) \/ Push(c)
  BY <1>1, AdmitKeeps, NewEventKeeps, PushKeeps
<1>2. CASE \E i \in Ids : eventCancel(i) \/ Fire(i)
  BY <1>2, CancelKeeps, FireKeeps
<1>3. CASE Dispatch
  BY <1>3, DispatchKeeps
<1>4. ASSUME NEW w \in Workers, Worker(w) PROVE EventInv'
  <2>1. UNCHANGED <<now, timeout, events, callers, execution>>
    BY <1>4 DEF Worker
  <2>2. CASE UNCHANGED <<jobs, started>>
    BY <2>1, <2>2, StillKeeps DEF events, callers, execution
  <2> QED
    BY <1>4, <2>1, <2>2, WorkerStarts, StartKeeps
<1>5. CASE Elsewhere
  BY <1>5, ElsewhereStays, StillKeeps
<1> QED
  BY <1>1, <1>2, <1>3, <1>4, <1>5, Steps

\* The invariant holds in every reachable state.
THEOREM EventInvariant == Spec => []EventInv
<1> QED
  BY EventInit, EventStep, PTL DEF Spec

-----------------------------------------------------------------------------
(* What follows                                                            *)

\* numEvents, which the dispatcher reads without the lock, is the number of events
\* in the heap.
THEOREM EventsCounted == Spec => []QueueCount
<1>1. EventInv => QueueCount
  BY DEF EventInv
<1> QED
  BY <1>1, EventInvariant, PTL

\* The limit, tested without the lock, is exceeded by less than the number of
\* callers.
THEOREM EventsWithinLimit == Spec => []WithinLimit
<1>1. EventInv => WithinLimit
  BY DEF EventInv
<1> QED
  BY <1>1, EventInvariant, PTL

\* Comparing deadlines field by field, without a carry, keeps an event less than a
\* second behind a later one.
THEOREM EventsLessThanASecondLate == Spec => []LessThanASecondLate
<1>1. EventInv => LessThanASecondLate
  <2> SUFFICES ASSUME EventInv, NEW i \in Fronts, NEW j \in queue PROVE Due(i) < Due(j) + Second
    BY DEF LessThanASecondLate
  <2> DEFINE a == timeout[i].sec
             b == timeout[j].sec
             m == timeout[i].nsec
             n == timeout[j].nsec
  <2>1. i \in Ids /\ j \in Ids
    BY IssuedIds DEF Fronts, EventInv, Numbered
  <2>2. /\ a \in Nat /\ m \in 0..(2 * Second - 2)
        /\ b \in Nat /\ n \in 0..(2 * Second - 2)
    BY <2>1 DEF EventInv, TInv
  <2>3. a < b \/ (a = b /\ m <= n)
    <3>1. ~Later(timeout[i], timeout[j])
      BY DEF Fronts
    <3>2. ~(a > b) /\ ~(a = b /\ m > n)
      BY <3>1 DEF Later
    <3> QED
      BY <2>2, <3>2
  <2> QED
    BY <2>2, <2>3, FieldsCompare DEF Due
<1> QED
  BY <1>1, EventInvariant, PTL

-----------------------------------------------------------------------------
(* The scheduler implements Alarms                                         *)

\* One event's life goes on.
LEMMA BecomeStep ==
  ASSUME NEW i \in Ids, NEW from, NEW to, Stage(i) = from, Stage(i)' = to,
         \A j \in Ids \ {i} : Stage(j)' = Stage(j)
  PROVE  Service!Become(i, from, to)
  BY DEF Service!Become

\* One event's deadline is set or forgotten.
LEMMA DueStep ==
  ASSUME NEW i \in Ids, NEW d, timeout \in [Ids -> [sec : Nat, nsec : 0..(2 * Second - 2)]],
         timeout' = [timeout EXCEPT ![i] = d]
  PROVE  [j \in Ids |-> Due(j)]' = [[j \in Ids |-> Due(j)] EXCEPT ![i] = d.sec * Second + d.nsec]
<1>1. \A j \in Ids : timeout'[j] = IF j = i THEN d ELSE timeout[j]
  OBVIOUS
<1>2. \A j \in Ids : Due(j)' = IF j = i THEN d.sec * Second + d.nsec ELSE Due(j)
  BY <1>1 DEF Due
<1> QED
  BY <1>2

\* An epoch is 0 on the clock.
LEMMA EpochDue == Epoch.sec * Second + Epoch.nsec = 0
  BY SchedulerAssumption DEF Epoch

\* A step that moves no event and sets no deadline.
LEMMA ServiceStays ==
  ASSUME UNCHANGED <<now, timeout>>, \A i \in Ids : Stage(i)' = Stage(i)
  PROVE  UNCHANGED Service!vars
<1>1. \A i \in Ids : Due(i)' = Due(i)
  BY DEF Due
<1> QED
  BY <1>1 DEF Service!vars

\* Taking an id and computing the deadline is Aim.
LEMMA NewEventAims ==
  ASSUME EventInv, NEW c \in Callers, NEW t \in Timeouts, NewEvent(c, t)
  PROVE  Service!Aim(nextId) /\ nextId \in Ids
<1>1. /\ timeout' = [timeout EXCEPT ![nextId] = Deadline(t)]
      /\ UNCHANGED <<now, queue, cancelled, front, jobs, started>>
      /\ Step(c, "admitted", "push") /\ nextId' = nextId + 1
  BY DEF NewEvent, events, execution, pool
<1>2. nextId \in Ids
  <2>1. EventInv'
    BY NewEventKeeps
  <2>2. nextId \in Nat /\ Admitted' \in SUBSET Callers
    BY DEF EventInv, TInv, Admitted
  <2>3. Cardinality(Admitted') \in Nat
    BY <2>2, Counted
  <2> QED
    BY <1>1, <2>1, <2>2, <2>3, SchedulerAssumption DEF EventInv, Room, Ids
<1>3. nextId \notin Seen
  BY <1>2, IssuedIds DEF EventInv, Numbered, Seen, Issued
<1>4. Stage(nextId) = "new" /\ \A i \in Ids : Stage(i)' = Stage(i)
  BY <1>1, <1>3 DEF Stage, Seen
<1>5. now \in Nat /\ t \in Nat /\ timeout \in [Ids -> [sec : Nat, nsec : 0..(2 * Second - 2)]]
  BY SchedulerAssumption DEF EventInv, TInv
<1>6. Deadline(t).sec * Second + Deadline(t).nsec = now + t
  BY <1>5, DeadlineDue
<1>7. [j \in Ids |-> Due(j)]' = [[j \in Ids |-> Due(j)] EXCEPT ![nextId] = now + t]
  BY <1>1, <1>2, <1>5, <1>6, DueStep
<1> QED
  BY <1>1, <1>2, <1>4, <1>7 DEF Service!Aim

\* Putting an event into the heap is Schedule.
LEMMA PushSchedules ==
  ASSUME EventInv, NEW c \in Callers, Push(c)
  PROVE  \E i \in Ids : Service!Schedule(i)
<1>1. /\ calls[c] = "push" /\ queue' = queue \cup {hold[c]}
      /\ UNCHANGED <<now, timeout, cancelled, front, jobs, started>>
  BY DEF Push, Step, pool
<1>2. hold[c] \in Ids /\ hold[c] \notin Seen
  BY <1>1, IssuedIds DEF EventInv, Numbered
<1>3. PICK i \in Ids : i = hold[c]
  BY <1>2
<1>4. /\ Stage(i) = "new" /\ Stage(i)' = "pending"
      /\ \A j \in Ids \ {i} : Stage(j)' = Stage(j)
  BY <1>1, <1>2, <1>3 DEF Stage, Seen
<1>5. Service!Become(i, "new", "pending")
  BY <1>4, BecomeStep
<1>6. [j \in Ids |-> Due(j)]' = [j \in Ids |-> Due(j)]
  BY <1>1 DEF Due
<1> QED
  BY <1>1, <1>5, <1>6 DEF Service!Schedule

\* Taking an event out of the heap forgets its deadline.
LEMMA RemoveForgets ==
  ASSUME EventInv, NEW i \in Ids, Remove(i), UNCHANGED now
  PROVE  Service!Forget(i)
<1>1. timeout \in [Ids -> [sec : Nat, nsec : 0..(2 * Second - 2)]]
  BY DEF EventInv, TInv
<1>2. [j \in Ids |-> Due(j)]' = [[j \in Ids |-> Due(j)] EXCEPT ![i] = 0]
  BY <1>1, DueStep, EpochDue DEF Remove
<1> QED
  BY <1>2 DEF Service!Forget

\* eventCancel is Cancel.
LEMMA CancelCancels ==
  ASSUME EventInv, NEW i \in Ids, eventCancel(i) PROVE Service!Cancel(i)
<1>1. /\ i \in queue /\ Remove(i) /\ queue' = queue \ {i} /\ cancelled' = cancelled \cup {i}
      /\ UNCHANGED <<now, front, jobs, started>>
  BY DEF eventCancel, Remove, execution, pool
<1>2. i # front /\ i \notin InSeq(jobs) /\ i \notin InSeq(started) /\ i \notin cancelled
  BY <1>1 DEF EventInv, Apart
<1>3. /\ Stage(i) = "pending" /\ Stage(i)' = "cancelled"
      /\ \A j \in Ids \ {i} : Stage(j)' = Stage(j)
  BY <1>1, <1>2 DEF Stage
<1> QED
  BY <1>1, <1>3, BecomeStep, RemoveForgets DEF Service!Cancel

\* The difference of two timespecs, computed field by field, is not negative once
\* the moment asked for has come.
LEMMA OverdueDue ==
  ASSUME EventInv, NEW i \in Ids, Overdue(i) >= 0 PROVE now >= Due(i)
<1> DEFINE s == now \div Second
           m == now % Second
           a == timeout[i].sec
           n == timeout[i].nsec
<1>1. now \in Nat /\ a \in Nat /\ n \in Nat
  BY SchedulerAssumption DEF EventInv, TInv
<1>2. s \in Nat /\ m \in Nat /\ now = s * Second + m
  BY <1>1, SplitTime, SchedulerAssumption
<1>3. (s - a) * Second + (m - n) >= 0
  BY DEF Overdue
<1>4. Due(i) = a * Second + n
  BY DEF Due
<1> HIDE DEF s, m, a, n
<1>5. (s - a) * Second = s * Second - a * Second
  BY <1>1, <1>2, SchedulerAssumption
<1>6. s * Second \in Int /\ a * Second \in Int
  BY <1>1, <1>2, SchedulerAssumption
<1> QED
  BY <1>1, <1>2, <1>3, <1>4, <1>5, <1>6

\* Taking the first event when it is due is Fire.
LEMMA FireFires ==
  ASSUME EventInv, NEW i \in Ids, Fire(i) PROVE Service!Fire(i)
<1>1. /\ i \in queue /\ Remove(i) /\ queue' = queue \ {i} /\ front' = i
      /\ Overdue(i) >= 0 /\ dispatcher = "enter"
      /\ UNCHANGED <<now, cancelled, jobs, started>>
  BY DEF Fire, Proceed, Fronts, Remove, pool
<1>2. i # front /\ i \notin InSeq(jobs) /\ i \notin InSeq(started) /\ i \notin cancelled
  BY <1>1 DEF EventInv, Apart
<1>3. front = NoId /\ NoId \notin Ids
  BY <1>1, IssuedIds DEF EventInv, Numbered
<1>4. /\ Stage(i) = "pending" /\ Stage(i)' = "fired"
      /\ \A j \in Ids \ {i} : Stage(j)' = Stage(j)
  BY <1>1, <1>2, <1>3 DEF Stage
<1>5. now >= Due(i)
  BY <1>1, OverdueDue
<1>6. now >= [j \in Ids |-> Due(j)][i]
  BY <1>5
<1> QED
  BY <1>1, <1>4, <1>6, BecomeStep, RemoveForgets DEF Service!Fire

\* Giving it to the pool changes nothing for its caller.
LEMMA DispatchStays ==
  ASSUME EventInv, Dispatch PROVE UNCHANGED Service!vars
<1>1. /\ dispatcher = "dispatch" /\ jobs' = Append(jobs, front) /\ front' = NoId
      /\ UNCHANGED <<now, timeout, queue, cancelled, started>>
  BY DEF Dispatch, Proceed, Pool!Dispatch, events
<1>2. front \in Ids /\ NoId \notin Ids
  BY <1>1, IssuedIds DEF EventInv, Numbered
<1>3. InSeq(jobs') = InSeq(jobs) \cup {front}
  BY <1>1, <1>2, InAppend DEF EventInv, TInv
<1>4. \A j \in Ids : Stage(j)' = Stage(j)
  BY <1>1, <1>2, <1>3 DEF Stage
<1> QED
  BY <1>1, <1>4, ServiceStays

\* A worker that takes a job from the queue is Start, another step of it none.
LEMMA WorkerServes ==
  ASSUME EventInv, NEW w \in Workers, Worker(w)
  PROVE  (\E i \in Ids : Service!Start(i)) \/ UNCHANGED Service!vars
<1>1. UNCHANGED <<now, timeout, events, callers, execution>>
  BY DEF Worker
<1>2. UNCHANGED <<queue, cancelled, front>>
  BY <1>1 DEF events, execution
<1>3. CASE UNCHANGED <<jobs, started>>
  <2>1. \A j \in Ids : Stage(j)' = Stage(j)
    BY <1>2, <1>3 DEF Stage
  <2> QED
    BY <1>1, <2>1, ServiceStays
<1>4. CASE jobs # <<>> /\ jobs' = Tail(jobs) /\ started' = Append(started, Head(jobs))
  <2>0. Head(jobs) \in Ids
    BY <1>1, <1>4, StartKeeps
  <2> PICK i \in Ids : i = Head(jobs)
    BY <2>0
  <2>1. /\ i \in InSeq(jobs)
        /\ InSeq(jobs') = InSeq(jobs) \ {i} /\ InSeq(started') = InSeq(started) \cup {i}
    BY <1>1, <1>4, StartKeeps
  <2>2. i \notin InSeq(started)
    BY <2>1 DEF EventInv, Apart
  <2>3. /\ Stage(i) = "fired" /\ Stage(i)' = "started"
        /\ \A j \in Ids \ {i} : Stage(j)' = Stage(j)
    BY <1>2, <2>1, <2>2 DEF Stage
  <2>4. Service!Become(i, "fired", "started")
    BY <2>1, <2>3, BecomeStep
  <2>5. [j \in Ids |-> Due(j)]' = [j \in Ids |-> Due(j)]
    BY <1>1 DEF Due
  <2> QED
    BY <1>1, <2>1, <2>4, <2>5 DEF Service!Start
<1> QED
  BY <1>3, <1>4, WorkerStarts

\* Every step is one of Alarms or none.
LEMMA AlarmsStep == EventInv /\ [Next]_vars => [Service!Next]_Service!vars
<1> SUFFICES ASSUME EventInv, [Next]_vars PROVE Service!Next \/ UNCHANGED Service!vars
  OBVIOUS
<1>1. ASSUME NEW c \in Callers, Admit(c) PROVE UNCHANGED Service!vars
  <2>1. UNCHANGED <<now, timeout, queue, cancelled, front, jobs, started>>
    BY <1>1 DEF Admit, events, execution, pool
  <2>2. \A j \in Ids : Stage(j)' = Stage(j)
    BY <2>1 DEF Stage
  <2> QED
    BY <2>1, <2>2, ServiceStays
<1>2. ASSUME NEW c \in Callers, NEW t \in Timeouts, NewEvent(c, t) PROVE Service!Next
  BY <1>2, NewEventAims DEF Service!Next
<1>3. ASSUME NEW c \in Callers, Push(c) PROVE Service!Next
  BY <1>3, PushSchedules DEF Service!Next
<1>4. ASSUME NEW i \in Ids, eventCancel(i) \/ Fire(i) PROVE Service!Next
  BY <1>4, CancelCancels, FireFires DEF Service!Next
<1>5. ASSUME NEW w \in Workers, Worker(w) PROVE Service!Next \/ UNCHANGED Service!vars
  BY <1>5, WorkerServes DEF Service!Next
<1>6. ASSUME Elsewhere PROVE Service!Next \/ UNCHANGED Service!vars
  <2>1. /\ UNCHANGED <<timeout, queue, cancelled, front, jobs, started>>
        /\ now' \in {now, now + 1}
    BY <1>6, ElsewhereStays
  <2>2. (\A j \in Ids : Stage(j)' = Stage(j)) /\ (\A j \in Ids : Due(j)' = Due(j))
    BY <2>1 DEF Stage, Due
  <2>3. CASE now' = now
    BY <2>1, <2>2, <2>3, ServiceStays
  <2>4. CASE now' = now + 1
    <3>1. Service!Tick
      BY <2>2, <2>4 DEF Service!Tick
    <3> QED
      BY <3>1 DEF Service!Next
  <2> QED
    BY <2>1, <2>3, <2>4
<1> QED
  BY <1>1, <1>2, <1>3, <1>4, <1>5, <1>6, DispatchStays, Steps

\* An event is started at most once, not before its deadline, and never after it
\* has been cancelled.
THEOREM EventsAreAlarms == Spec => ImplementsAlarms
<1>1. Init => Service!Init
  <2> SUFFICES ASSUME Init PROVE Service!Init
    OBVIOUS
  <2>1. /\ now = 0 /\ timeout = [i \in Ids |-> Epoch]
        /\ queue = {} /\ cancelled = {} /\ front = NoId /\ jobs = <<>> /\ started = <<>>
    BY DEF Init, Pool!Init
  <2>2. InSeq(jobs) = {} /\ InSeq(started) = {} /\ NoId \notin Ids
    BY <2>1, SchedulerAssumption DEF InSeq, Ids, NoId
  <2>3. \A i \in Ids : Stage(i) = "new" /\ Due(i) = 0
    BY <2>1, <2>2, EpochDue DEF Stage, Due
  <2> QED
    BY <2>1, <2>3 DEF Service!Init
<1>2. Spec => Service!Spec
  BY <1>1, EventInvariant, AlarmsStep, PTL DEF Spec, Service!Spec
<1> QED
  BY <1>2 DEF ImplementsAlarms
-----------------------------------------------------------------------------
(* The pool under the scheduler is the pool of ThreadPool, so that what is *)
(* proved of that one holds of it too.                                     *)

\* ThreadPool and what is proved of it, for the pool of the scheduler.
PoolThms == INSTANCE ThreadPoolProofs WITH Job <- Ids, MaxJobs <- MaxIds, terminate <- poolTerminate

\* Each instance brings definitions of finite sets and cardinality of its own.
LEMMA SetsOfPool ==
  ASSUME NEW S
  PROVE  /\ PoolThms!IsFiniteSet(S) <=> IsFiniteSet(S)
         /\ PoolThms!Cardinality(S) = Cardinality(S)
         /\ Pool!Cardinality(S) = Cardinality(S)
<1>1. PoolThms!IsFiniteSet(S) <=> IsFiniteSet(S)
  BY DEF PoolThms!IsFiniteSet, IsFiniteSet
<1>2. PoolThms!Cardinality(S) = Cardinality(S)
  BY DEF PoolThms!Cardinality, Cardinality
<1>3. Pool!Cardinality(S) = Cardinality(S)
  BY DEF Pool!Cardinality, Cardinality
<1> QED
  BY <1>1, <1>2, <1>3

\* The two instances of the module say the same.
LEMMA SamePool ==
  /\ Pool!TypeOK <=> PoolThms!TypeOK
  /\ Pool!Init <=> PoolThms!Init
  /\ Pool!vars = PoolThms!vars
  /\ Pool!Next <=> PoolThms!Next
<1>1. Pool!TypeOK <=> PoolThms!TypeOK
  BY SetsOfPool DEF Pool!TypeOK, PoolThms!TypeOK
<1>2. Pool!Init <=> PoolThms!Init
  BY SetsOfPool DEF Pool!Init, PoolThms!Init
<1>3. Pool!vars = PoolThms!vars
  BY DEF Pool!vars, PoolThms!vars
<1>4. \A w \in Workers : Pool!Work(w) <=> PoolThms!Work(w)
  BY DEF Pool!Work, Pool!Check, Pool!Sleep, Pool!Take, Pool!Return, Pool!GiveBack, Pool!Goto,
         PoolThms!Work, PoolThms!Check, PoolThms!Sleep, PoolThms!Take, PoolThms!Return,
         PoolThms!GiveBack, PoolThms!Goto
<1>5. \A w \in Workers : Pool!WakeSpuriously(w) <=> PoolThms!WakeSpuriously(w)
  BY DEF Pool!WakeSpuriously, Pool!Goto, PoolThms!WakeSpuriously, PoolThms!Goto
<1>6. \A i \in Ids : Pool!Dispatch(i) <=> PoolThms!Dispatch(i)
  BY DEF Pool!Dispatch, Pool!NotifyOne, Pool!Goto,
         PoolThms!Dispatch, PoolThms!NotifyOne, PoolThms!Goto
<1>7. (Pool!Terminate <=> PoolThms!Terminate) /\ (Pool!Join <=> PoolThms!Join)
  BY DEF Pool!Terminate, Pool!NotifyAll, Pool!Join,
         PoolThms!Terminate, PoolThms!NotifyAll, PoolThms!Join
<1>8. Pool!Next <=> PoolThms!Next
  BY <1>4, <1>5, <1>6, <1>7 DEF Pool!Next, PoolThms!Next
<1> QED
  BY <1>1, <1>2, <1>3, <1>8

\* A step of the scheduler is one of the pool or leaves it alone.
LEMMA SchedulerStepsPool == EventInv /\ [Next]_vars => [Pool!Next]_Pool!vars
<1> SUFFICES ASSUME EventInv, [Next]_vars PROVE Pool!Next \/ UNCHANGED Pool!vars
  OBVIOUS
<1>1. ASSUME UNCHANGED pool PROVE UNCHANGED Pool!vars
  BY <1>1 DEF pool, Pool!vars
<1>2. ASSUME NEW c \in Callers, Schedule(c) PROVE UNCHANGED pool
  BY <1>2 DEF Schedule, Admit, NewEvent, Push
<1>3. ASSUME NEW i \in Ids, eventCancel(i) \/ HoldBack(i) \/ Fire(i) PROVE UNCHANGED pool
  BY <1>3 DEF eventCancel, HoldBack, Fire
<1>4. CASE Check \/ Idle \/ TimeOut \/ WakeSpuriously \/ Terminate \/ Tick \/ UNCHANGED vars
  <2>1. UNCHANGED pool
    BY <1>4 DEF Check, Idle, TimeOut, WakeSpuriously, Terminate, Tick, vars
  <2> QED
    BY <1>1, <2>1
<1>5. ASSUME Dispatch PROVE Pool!Next
  <2>1. dispatcher = "dispatch" /\ Pool!Dispatch(front)
    BY <1>5 DEF Dispatch, Proceed
  <2>2. front \in Ids
    BY <2>1, IssuedIds DEF EventInv, Numbered
  <2> QED
    BY <2>1, <2>2 DEF Pool!Next
<1>6. ASSUME DeletePool PROVE Pool!Next
  BY <1>6 DEF DeletePool, Pool!Next
<1>7. ASSUME NEW w \in Workers, Worker(w) \/ WorkerWakesSpuriously(w) PROVE Pool!Next
  BY <1>7 DEF Worker, WorkerWakesSpuriously, Pool!Next
<1> QED
  BY <1>1, <1>2, <1>3, <1>4, <1>5, <1>6, <1>7 DEF Next, Dispatching

\* The scheduler uses its pool as ThreadPool allows: it dispatches only events, and
\* destroys the pool once, whatever callers and clock do.
THEOREM SchedulerRunsPool == Spec => Pool!Spec
<1>1. Init => Pool!Init
  BY DEF Init
<1> QED
  BY <1>1, SchedulerStepsPool, EventInvariant, PTL DEF Spec, Pool!Spec

\* So the invariant of ThreadPool holds of it.
LEMMA PoolKept == Spec => []PoolThms!PoolInv
<1>1. [Pool!Next]_Pool!vars => [PoolThms!Next]_PoolThms!vars
  BY SamePool DEF Pool!vars, PoolThms!vars
<1>2. Pool!Spec => PoolThms!Spec
  BY <1>1, SamePool, PTL DEF Pool!Spec, PoolThms!Spec
<1>3. PoolThms!ThreadPoolAssumption
  BY SetsOfPool, SchedulerAssumption DEF PoolThms!ThreadPoolAssumption
<1>4. PoolThms!Spec => []PoolThms!PoolInv
  BY <1>3, PoolThms!PoolInvariant
<1> QED
  BY <1>2, <1>4, SchedulerRunsPool

-----------------------------------------------------------------------------
(* The types                                                               *)

\* What TypeOK says of the dispatcher, which EventInv leaves out.
DispatcherOK ==
    /\ terminate \in BOOLEAN
    /\ dispatcher \in {"check", "enter", "waiting", "dispatch", "exited"}
    /\ wakeAt \in Nat

\* An event held back makes the dispatcher wait until a moment yet to come.
LEMMA WaitsForward ==
  ASSUME EventInv, NEW i \in queue
  PROVE  Overdue(i) \in Int /\ now \in Nat
<1>1. now \in Nat /\ timeout[i].sec \in Nat /\ timeout[i].nsec \in Int
  <2>1. i \in Ids
    BY IssuedIds DEF EventInv, Numbered
  <2> QED
    BY <2>1, SchedulerAssumption DEF EventInv, TInv
<1>2. now \div Second \in Nat /\ now % Second \in Int
  BY <1>1, SplitTime
<1> DEFINE d == (now \div Second) - timeout[i].sec
<1>3. d \in Int
  BY <1>1, <1>2
<1>4. Overdue(i) = d * Second + ((now % Second) - timeout[i].nsec)
  BY DEF Overdue
<1> HIDE DEF d
<1>5. d * Second \in Int
  BY <1>3, Seconds
<1> QED
  BY <1>1, <1>2, <1>4, <1>5

\* Every step keeps it.
LEMMA DispatcherStep == EventInv /\ DispatcherOK /\ [Next]_vars => DispatcherOK'
<1> SUFFICES ASSUME EventInv, DispatcherOK, [Next]_vars PROVE DispatcherOK'
  OBVIOUS
<1> USE DEF DispatcherOK
<1>1. CASE UNCHANGED <<dispatcher, wakeAt, terminate>>
  BY <1>1
<1>2. ASSUME NEW c \in Callers, Push(c) PROVE DispatcherOK'
  BY <1>2 DEF Push, NotifyDispatcher
<1>3. ASSUME NEW i \in Ids, HoldBack(i) PROVE DispatcherOK'
  <2>1. /\ i \in queue /\ Overdue(i) < 0
        /\ dispatcher' = "waiting" /\ wakeAt' = now - Overdue(i) /\ UNCHANGED terminate
    BY <1>3 DEF HoldBack, Proceed, Fronts
  <2>2. Overdue(i) \in Int /\ now \in Nat
    BY <2>1, WaitsForward
  <2>3. now - Overdue(i) \in Nat
    BY <2>1, <2>2
  <2> QED
    BY <2>1, <2>3
<1>4. ASSUME NEW i \in Ids, Fire(i) PROVE DispatcherOK'
  BY <1>4 DEF Fire, Proceed
<1>5. CASE Check \/ Idle
  BY <1>5 DEF Check, Idle, Proceed, EventInv, TInv
<1>6. CASE Dispatch \/ TimeOut \/ WakeSpuriously
  BY <1>6 DEF Dispatch, TimeOut, WakeSpuriously, Proceed
<1>7. CASE Terminate
  BY <1>7 DEF Terminate, NotifyDispatcher
<1>8. CASE (\E c \in Callers : Admit(c) \/ \E t \in Timeouts : NewEvent(c, t))
           \/ (\E i \in Ids : eventCancel(i)) \/ DeletePool \/ Tick \/ UNCHANGED vars
           \/ \E w \in Workers : Worker(w) \/ WorkerWakesSpuriously(w)
  <2>1. UNCHANGED <<dispatcher, wakeAt, terminate>>
    BY <1>8 DEF Admit, NewEvent, eventCancel, DeletePool, Tick, Worker, WorkerWakesSpuriously,
                vars, execution
  <2> QED
    BY <1>1, <2>1
<1> QED
  BY <1>2, <1>3, <1>4, <1>5, <1>6, <1>7, <1>8 DEF Next, Schedule, Dispatching

\* Every state of the scheduler is well typed, its pool included: numEvents, which
\* is unsigned, never drops below 0, ids do not run out, and the dispatcher never
\* waits for a moment before the clock's first.
THEOREM SchedulerTypes == Spec => []TypeOK
<1>1. Init => DispatcherOK
  <2>1. Init => terminate \in BOOLEAN
    BY Zenon DEF Init
  <2>2. Init => dispatcher = "check" /\ wakeAt \in Nat
    BY DEF Init
  <2> QED
    BY <2>1, <2>2 DEF DispatcherOK
<1>2. EventInv /\ DispatcherOK /\ PoolThms!PoolInv => TypeOK
  <2> SUFFICES ASSUME EventInv, DispatcherOK, PoolThms!PoolInv PROVE TypeOK
    OBVIOUS
  <2>1. Pool!TypeOK
    BY SamePool DEF PoolThms!PoolInv
  <2>2. queue \subseteq Ids /\ cancelled \subseteq Ids /\ front \in Ids \cup {NoId}
    BY IssuedIds DEF EventInv, Numbered
  <2>3. nextId \in 0..MaxIds /\ numEvents \in Nat
    BY IssuedIds, Counted
  <2> QED
    BY <2>1, <2>2, <2>3 DEF EventInv, TInv, DispatcherOK, TypeOK
<1> QED
  BY <1>1, <1>2, DispatcherStep, EventInvariant, PoolKept, PTL DEF Spec

-----------------------------------------------------------------------------
(* The bound on the pool's queue never keeps an event from it              *)

\* A sequence without repetitions is as long as the set of its elements is large.
LEMMA DistinctLength ==
  ASSUME NEW T, NEW s \in Seq(T), Distinct(s)
  PROVE  IsFiniteSet(InSeq(s)) /\ Cardinality(InSeq(s)) = Len(s)
<1>1. Len(s) \in Nat /\ DOMAIN s = 1..Len(s)
  OBVIOUS
<1> DEFINE f == [k \in 1..Len(s) |-> s[k]]
<1>2. f \in Bijection(1..Len(s), InSeq(s))
  <2>1. f \in [1..Len(s) -> InSeq(s)]
    BY <1>1 DEF InSeq
  <2>2. \A k, l \in 1..Len(s) : f[k] = f[l] => k = l
    BY <1>1 DEF Distinct
  <2>3. \A e \in InSeq(s) : \E k \in 1..Len(s) : f[k] = e
    BY <1>1 DEF InSeq
  <2> QED
    BY <2>1, <2>2, <2>3, Fun_IsBij
<1>3. ExistsBijection(1..Len(s), InSeq(s))
  BY <1>2 DEF ExistsBijection
<1>4. IsFiniteSet(1..Len(s)) /\ Cardinality(1..Len(s)) = Len(s)
  BY <1>1, FS_Interval
<1> QED
  BY <1>3, <1>4, FS_Bijection

\* The elements of two sequences, one after the other.
LEMMA InConcat ==
  ASSUME NEW T, NEW s \in Seq(T), NEW t \in Seq(T)
  PROVE  InSeq(s \o t) \subseteq InSeq(s) \cup InSeq(t)
<1>1. /\ DOMAIN s = 1..Len(s) /\ DOMAIN t = 1..Len(t) /\ DOMAIN (s \o t) = 1..(Len(s) + Len(t))
      /\ Len(s) \in Nat /\ Len(t) \in Nat
      /\ \A k \in 1..(Len(s) + Len(t)) : (s \o t)[k] = IF k <= Len(s) THEN s[k] ELSE t[k - Len(s)]
  BY ConcatProperties, LenProperties
<1>2. ASSUME NEW k \in 1..(Len(s) + Len(t)) PROVE (s \o t)[k] \in InSeq(s) \cup InSeq(t)
  <2>1. CASE k <= Len(s)
    BY <1>1, <2>1 DEF InSeq
  <2>2. CASE ~(k <= Len(s))
    <3>1. k - Len(s) \in DOMAIN t
      BY <1>1, <2>2
    <3> QED
      BY <1>1, <2>2, <3>1 DEF InSeq
  <2> QED
    BY <2>1, <2>2
<1> QED
  BY <1>1, <1>2 DEF InSeq

\* The jobs the pool has been given are in its queue or have been started.
LEMMA GivenAreSeen ==
  ASSUME EventInv, PoolThms!PoolInv
  PROVE  dispatched \in Seq(Ids) /\ InSeq(dispatched) \subseteq InSeq(jobs) \cup InSeq(started)
<1>1. started \o jobs = dispatched
  BY DEF PoolThms!PoolInv
<1>2. started \in Seq(Ids) /\ jobs \in Seq(Ids) /\ dispatched \in Seq(Ids)
  BY <1>1, ConcatProperties DEF EventInv, TInv
<1> QED
  BY <1>1, <1>2, InConcat

\* Each event is handed to the pool once at most, and the pool always has room for
\* the one the dispatcher hands over: MaxIds bounds the events, not the pool.
HandedOnce ==
    /\ Distinct(dispatched)
    /\ dispatcher = "dispatch" => Len(dispatched) < MaxIds

\* No event is handed to the pool twice.
THEOREM EventsHandedOnce == Spec => []HandedOnce
<1>1. Init => Distinct(dispatched)
  BY DEF Init, Pool!Init, Distinct
<1>2. EventInv /\ PoolThms!PoolInv /\ Distinct(dispatched) /\ [Next]_vars => Distinct(dispatched)'
  <2> SUFFICES ASSUME EventInv, PoolThms!PoolInv, Distinct(dispatched), [Next]_vars
               PROVE  Distinct(dispatched')
    BY DEF Distinct
  <2>1. CASE UNCHANGED dispatched
    BY <2>1
  <2>2. ASSUME Dispatch PROVE Distinct(dispatched')
    <3>1. dispatcher = "dispatch" /\ dispatched' = Append(dispatched, front)
      BY <2>2 DEF Dispatch, Proceed, Pool!Dispatch
    <3>2. front \in Ids /\ front \notin InSeq(jobs) \cup InSeq(started)
      BY <3>1, IssuedIds DEF EventInv, Numbered, Apart
    <3>3. dispatched \in Seq(Ids) /\ front \notin InSeq(dispatched)
      BY <3>2, GivenAreSeen
    <3> QED
      BY <3>1, <3>2, <3>3, DistinctAppend
  <2>3. ASSUME ~Dispatch PROVE UNCHANGED dispatched
    <3>1. UNCHANGED pool => UNCHANGED dispatched
      BY DEF pool
    <3>2. ASSUME NEW w \in Workers, Worker(w) \/ WorkerWakesSpuriously(w) PROVE UNCHANGED dispatched
      BY <3>2 DEF Worker, WorkerWakesSpuriously, Pool!Work, Pool!Check, Pool!Sleep, Pool!Take,
                  Pool!Return, Pool!GiveBack, Pool!WakeSpuriously
    <3>3. DeletePool => UNCHANGED dispatched
      BY DEF DeletePool, Pool!Terminate, Pool!Join
    <3>4. ASSUME NEW c \in Callers, Schedule(c) PROVE UNCHANGED pool
      BY <3>4 DEF Schedule, Admit, NewEvent, Push
    <3>5. ASSUME NEW i \in Ids, eventCancel(i) \/ HoldBack(i) \/ Fire(i) PROVE UNCHANGED pool
      BY <3>5 DEF eventCancel, HoldBack, Fire
    <3>6. ASSUME Check \/ Idle \/ TimeOut \/ WakeSpuriously \/ Terminate \/ Tick \/ UNCHANGED vars
          PROVE  UNCHANGED pool
      BY <3>6 DEF Check, Idle, TimeOut, WakeSpuriously, Terminate, Tick, vars
    <3> QED
      BY <2>3, <3>1, <3>2, <3>3, <3>4, <3>5, <3>6 DEF Next, Dispatching
  <2> QED
    BY <2>1, <2>2, <2>3
<1>3. EventInv /\ PoolThms!PoolInv /\ Distinct(dispatched) => HandedOnce
  <2> SUFFICES ASSUME EventInv, PoolThms!PoolInv, Distinct(dispatched), dispatcher = "dispatch"
               PROVE  Len(dispatched) < MaxIds
    BY DEF HandedOnce
  <2>1. front \in Issued /\ nextId \in 0..MaxIds
    BY IssuedIds DEF EventInv, Numbered
  <2>2. InSeq(dispatched) \subseteq Issued \ {front}
    BY GivenAreSeen DEF EventInv, Numbered, Apart
  <2>3. IsFiniteSet(Issued) /\ Cardinality(Issued) = nextId
    BY <2>1, FS_Interval, SchedulerAssumption DEF Issued
  <2>4. IsFiniteSet(Issued \ {front}) /\ Cardinality(Issued \ {front}) = nextId - 1
    BY <2>1, <2>3, FS_RemoveElement
  <2>5. Cardinality(InSeq(dispatched)) <= nextId - 1
    BY <2>2, <2>4, FS_Subset
  <2>6. Cardinality(InSeq(dispatched)) = Len(dispatched) /\ Len(dispatched) \in Nat
    BY GivenAreSeen, DistinctLength
  <2> QED
    BY <2>1, <2>5, <2>6, SchedulerAssumption
<1> QED
  BY <1>1, <1>2, <1>3, EventInvariant, PoolKept, PTL DEF Spec
=============================================================================
