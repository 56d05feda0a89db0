-------------------------- MODULE SpeedTestProofs ---------------------------
(***************************************************************************)
(* Theorems about SpeedTest, for any applications, sizes, thresholds and   *)
(* workers: what the counters stand for, what main has waited for when it  *)
(* leaves a phase, that no phase receives more than it sends, and that no  *)
(* message is missing that was not dropped or undone.                      *)
(***************************************************************************)
EXTENDS SpeedTest, FiniteSetTheorems, TLAPS

-----------------------------------------------------------------------------
(* The inductive invariant                                                 *)

\* As much of TypeOK as the arguments below need.
TInv ==
    /\ phase \in 1..4
    /\ main \in {"send", "wait", "spin"}
    /\ main # "send" => phase \in Phases
    /\ flight \in [Phases -> [Apps -> Nat]]
    /\ mCounter \in Nat
    /\ rCounter \in Nat
    /\ reg \in [Counters -> Nat \cup {NoValue}]
    /\ received \in [Phases -> Nat]
    /\ late \in Nat
    /\ torn \in BOOLEAN

\* Nothing is under way in a phase that has not begun.
NotBegun ==
    /\ \A p \in Phases : p > phase => \A a \in Apps : flight[p][a] = 0
    /\ \A t \in Counters : t[1] > phase => reg[t] = NoValue

\* The messages the counter of phase p stands for now.
Heard(p) == IF p = 2 THEN received[2]
            ELSE IF phase < 3 THEN received[1] ELSE received[3] + late

\* The message a thread is counting is among them, and so are those in the value
\* it has loaded.
Behind ==
    \A t \in Counters :
        reg[t] # NoValue /\ (t[1] = 2 \/ phase < 3 \/ ~torn) => reg[t] + 1 <= Heard(t[1])

SpeedInv == TInv /\ NotBegun /\ Behind /\ NeverAhead

\* A receiving thread belongs to a phase; the second phase has a counter of its own.
LEMMA CounterPhases == \A t \in Counters : t[1] \in Phases
  BY DEF Counters, Phases

\* The initial states satisfy the invariant.
LEMMA SpeedInvInit == Init => SpeedInv
<1> SUFFICES ASSUME Init PROVE SpeedInv
  OBVIOUS
<1>1. TInv
  <2>1. /\ flight \in [Phases -> [Apps -> Nat]]
        /\ received \in [Phases -> Nat]
    BY DEF Init
  <2>2. reg \in [Counters -> Nat \cup {NoValue}]
    BY DEF Init
  <2>3. /\ phase \in 1..4 /\ main = "send"
        /\ mCounter \in Nat /\ rCounter \in Nat /\ late \in Nat
    BY DEF Init
  <2>4. torn \in BOOLEAN
    BY Zenon DEF Init
  <2> QED
    BY <2>1, <2>2, <2>3, <2>4 DEF TInv
<1>2. NotBegun /\ Behind
  BY CounterPhases DEF Init, NotBegun, Behind
<1>3. NeverAhead
  BY DEF Init, NeverAhead, Phases
<1> QED
  BY <1>1, <1>2, <1>3 DEF SpeedInv

-----------------------------------------------------------------------------
(* One lemma per action                                                    *)

\* A message that is sent is not received yet.
LEMMA SendKeeps == ASSUME SpeedInv, NEW a \in Apps, Send(a) PROVE SpeedInv'
<1> USE DEF SpeedInv
<1>1. TInv'
  BY DEF Send, TInv, counts, Phases
<1>2. NotBegun'
  BY DEF Send, TInv, NotBegun, counts, Phases
<1>3. Behind'
  BY DEF Send, Behind, Heard, counts
<1>4. NeverAhead'
  BY DEF Send, NeverAhead, counts
<1> QED
  BY <1>1, <1>2, <1>3, <1>4

\* Joining the senders, and looking at the counter, change none of it.
LEMMA WaitKeeps == ASSUME SpeedInv, Join \/ Look PROVE SpeedInv'
<1> USE DEF SpeedInv
<1>1. UNCHANGED <<phase, flight, counts, history>> /\ main' \in {"wait", "spin"} /\ phase \in Phases
  BY DEF Join, Look, traffic, TInv
<1>2. TInv'
  BY <1>1 DEF TInv, counts, history
<1>3. NotBegun' /\ Behind'
  BY <1>1 DEF NotBegun, Behind, Heard, counts, history
<1>4. NeverAhead'
  BY <1>1 DEF NeverAhead, counts, history
<1> QED
  BY <1>2, <1>3, <1>4

\* main leaves a phase: what it read in the counter had been received, and the
\* reset leaves a counter of 0 beside increments that it may tear.
LEMMA LeaveKeeps == ASSUME SpeedInv, Leave PROVE SpeedInv'
<1> USE DEF SpeedInv
<1>1. /\ phase \in Phases /\ phase' = phase + 1 /\ main' = "send"
      /\ UNCHANGED <<flight, rCounter, reg, received>>
  BY DEF Leave, TInv
<1>2. /\ phase = 2 => mCounter' = 0 /\ late' = 0 /\ torn' = (Uncounted(1) # {})
      /\ phase # 2 => UNCHANGED <<mCounter, late, torn>>
  BY DEF Leave, Reset
<1>3. TInv'
  <2>1. mCounter' \in Nat /\ late' \in Nat
    BY <1>2 DEF TInv
  <2>2. torn' \in BOOLEAN
    BY <1>2, Zenon DEF TInv
  <2>3. phase' \in 1..4
    BY <1>1 DEF TInv, Phases
  <2> QED
    BY <1>1, <2>1, <2>2, <2>3 DEF TInv
<1>4. NotBegun'
  BY <1>1, CounterPhases DEF TInv, NotBegun, Phases
<1>5. Behind'
  <2> SUFFICES ASSUME NEW t \in Counters, reg'[t] # NoValue,
                      t[1] = 2 \/ phase' < 3 \/ ~torn'
               PROVE  (reg[t] + 1 <= Heard(t[1]))'
    BY DEF Behind
  <2>1. reg[t] # NoValue /\ t[1] \in Phases /\ t[1] <= phase
    BY <1>1, CounterPhases DEF NotBegun, TInv, Phases
  <2>2. CASE t[1] = 2
    BY <1>1, <2>1, <2>2 DEF Behind, Heard
  <2>3. CASE t[1] # 2 /\ phase = 1
    BY <1>1, <1>2, <2>1, <2>3 DEF Behind, Heard
  <2>4. CASE t[1] # 2 /\ phase = 2
    <3>1. t \in Uncounted(1)
      BY <2>1, <2>4 DEF Uncounted, Phases
    <3>2. Uncounted(1) # {}
      BY <3>1
    <3>3. torn'
      BY <1>2, <2>4, <3>2, Zenon
    <3>4. phase' = 3
      BY <1>1, <2>4
    <3> QED
      BY <2>4, <3>3, <3>4
  <2>5. CASE t[1] # 2 /\ phase = 3
    BY <1>1, <1>2, <2>1, <2>5 DEF Behind, Heard
  <2> QED
    BY <1>1, <2>2, <2>3, <2>4, <2>5 DEF Phases
<1>6. NeverAhead'
  BY <1>1, <1>2 DEF NeverAhead, TInv, Phases
<1> QED
  BY <1>3, <1>4, <1>5, <1>6

\* A thread receives a message and loads the counter.
LEMMA LoadKeeps ==
  ASSUME SpeedInv, NEW t \in Counters, NEW a \in Apps, Load(t, a) PROVE SpeedInv'
<1> USE DEF SpeedInv
<1> DEFINE p == t[1]
<1>1. /\ phase \in Phases /\ p \in Phases /\ p <= phase
      /\ flight[p][a] > 0
      /\ flight' = [flight EXCEPT ![p][a] = @ - 1]
      /\ reg' = [reg EXCEPT ![t] = Counter(p)]
      /\ received' = [received EXCEPT ![p] = @ + 1]
      /\ late' = IF p = 1 /\ phase > 2 THEN late + 1 ELSE late
      /\ UNCHANGED <<phase, main, mCounter, rCounter, torn>>
  BY CounterPhases DEF Load, NotBegun, TInv, Phases
<1>2. TInv'
  BY <1>1 DEF TInv, Counter, Phases
<1>3. NotBegun'
  BY <1>1 DEF NotBegun, TInv, Phases
<1>4. /\ \A q \in Phases : Heard(q) \in Nat /\ Heard(q)' \in Nat /\ Heard(q)' >= Heard(q)
      /\ p = 2 \/ phase < 3 \/ ~torn => Heard(p)' = Heard(p) + 1
  BY <1>1, <1>2 DEF TInv, Heard, Phases
<1>5. p = 2 \/ phase < 3 \/ ~torn => Counter(p) <= Heard(p)
  BY <1>1 DEF NeverAhead, Counter, Heard, TInv, Phases
<1>6. Behind'
  <2> SUFFICES ASSUME NEW u \in Counters, reg'[u] # NoValue,
                      u[1] = 2 \/ phase < 3 \/ ~torn
               PROVE  reg'[u] + 1 <= Heard(u[1])'
    BY <1>1 DEF Behind
  <2>1. CASE u = t
    <3>1. reg'[t] = Counter(p) /\ Counter(p) \in Nat
      BY <1>1 DEF TInv, Counter
    <3>2. Heard(p) \in Nat /\ Heard(p)' = Heard(p) + 1 /\ Counter(p) <= Heard(p)
      BY <1>1, <1>4, <1>5, <2>1
    <3>3. reg'[t] + 1 <= Heard(p)'
      BY <3>1, <3>2
    <3> QED
      BY <2>1, <3>3
  <2>2. CASE u # t
    <3>1. reg'[u] = reg[u] /\ reg[u] \in Nat /\ reg[u] + 1 <= Heard(u[1])
      BY <1>1, <2>2 DEF Behind, TInv
    <3> QED
      BY <1>4, <3>1, CounterPhases
  <2> QED
    BY <2>1, <2>2
<1>7. NeverAhead'
  BY <1>1 DEF NeverAhead, TInv, Phases
<1> QED
  BY <1>2, <1>3, <1>6, <1>7

\* It stores the next value.
LEMMA StoreKeeps == ASSUME SpeedInv, NEW t \in Counters, Store(t) PROVE SpeedInv'
<1> USE DEF SpeedInv
<1>1. /\ phase \in Phases /\ reg[t] \in Nat /\ reg[t] # NoValue
      /\ t[1] \in Phases /\ t[1] <= phase
      /\ t[1] = 2 => rCounter' = reg[t] + 1 /\ UNCHANGED mCounter
      /\ t[1] # 2 => mCounter' = reg[t] + 1 /\ UNCHANGED rCounter
      /\ reg' = [reg EXCEPT ![t] = NoValue]
      /\ UNCHANGED <<phase, main, flight, received, late, torn>>
  BY CounterPhases DEF Store, NotBegun, TInv, Phases, traffic
<1>2. TInv'
  BY <1>1 DEF TInv
<1>3. NotBegun'
  BY <1>1 DEF NotBegun, TInv
<1>4. Behind'
  BY <1>1 DEF Behind, Heard, TInv
<1>5. NeverAhead'
  BY <1>1 DEF Behind, Heard, NeverAhead, TInv, Phases
<1> QED
  BY <1>2, <1>3, <1>4, <1>5

-----------------------------------------------------------------------------
\* Every step keeps the invariant.
LEMMA SpeedInvStep == SpeedInv /\ [Next]_vars => SpeedInv'
<1> SUFFICES ASSUME SpeedInv, [Next]_vars PROVE SpeedInv'
  OBVIOUS
<1>1. CASE Join \/ Look
  BY <1>1, WaitKeeps
<1>2. CASE Leave
  BY <1>2, LeaveKeeps
<1>3. CASE \E a \in Apps : Send(a)
  BY <1>3, SendKeeps
<1>4. CASE \E t \in Counters : Counting(t)
  BY <1>4, LoadKeeps, StoreKeeps DEF Counting
<1>5. CASE UNCHANGED vars
  BY <1>5 DEF vars, traffic, counts, history, SpeedInv, TInv, NotBegun, Behind, Heard,
              NeverAhead
<1> QED
  BY <1>1, <1>2, <1>3, <1>4, <1>5 DEF Next, Main

\* The invariant holds in every reachable state.
THEOREM SpeedInvariant == Spec => []SpeedInv
<1> QED
  BY SpeedInvInit, SpeedInvStep, PTL DEF Spec

\* However the increments of the receiving threads interleave, no counter exceeds
\* the messages it stands for, unless the reset tore an increment.
THEOREM CountersNeverAhead == Spec => []NeverAhead
<1>1. SpeedInv => NeverAhead
  BY DEF SpeedInv
<1> QED
  BY <1>1, SpeedInvariant, PTL

\* What main has read in a counter when it leaves a phase has been received.
LEMMA HeardAtLeave ==
  ASSUME SpeedInv, [Next]_vars, phase' # phase
  PROVE  /\ phase \in Phases
         /\ phase < 3 => received[phase] >= Threshold
         /\ phase = 3 /\ ~torn /\ late = 0 => received[3] >= Threshold
<1>1. Leave
  BY DEF Next, Main, Join, Look, Counting, Load, Store, Send, vars
<1>2. /\ phase \in Phases /\ Counter(phase) >= Threshold
      /\ Counter(phase) \in Nat /\ received \in [Phases -> Nat]
      /\ phase = 2 => rCounter <= received[2]
      /\ phase = 1 => mCounter <= received[1]
      /\ phase = 3 /\ ~torn => mCounter <= received[3] + late
  BY <1>1 DEF Leave, SpeedInv, TInv, NeverAhead, Counter
<1>3. Threshold \in Int
  BY SpeedTestAssumption
<1> QED
  BY <1>2, <1>3 DEF Counter, Phases

\* main leaves each of the first two phases with THRESHOLD messages received.
THEOREM FirstTwoPhasesHeard == Spec => FirstTwoPhases
<1>1. SpeedInv /\ [Next]_vars =>
         [phase < 3 /\ phase' # phase => received[phase] >= Threshold]_vars
  BY HeardAtLeave
<1> QED
  BY <1>1, SpeedInvariant, PTL DEF Spec, FirstTwoPhases

\* It leaves the third so if no message of the first was under way at the reset.
THEOREM ThirdPhaseHeard == Spec => ThirdPhaseIfDrained
<1>1. SpeedInv /\ [Next]_vars =>
         [phase = 3 /\ phase' # phase /\ ~torn /\ late = 0 => received[3] >= Threshold]_vars
  BY HeardAtLeave
<1> QED
  BY <1>1, SpeedInvariant, PTL DEF Spec, ThirdPhaseIfDrained
-----------------------------------------------------------------------------
(* No message is received that was not sent in the same phase              *)

\* The messages counted by f, one number per application.
Slots(f) == {x \in Apps \X (1..Size) : x[2] <= f[x[1]]}

\* With all numbers at Size there are Total of them.
LEMMA AllSlots ==
  /\ IsFiniteSet(Apps \X (1..Size)) /\ Cardinality(Apps \X (1..Size)) = Total
  /\ Total \in Nat
<1>1. /\ IsFiniteSet(Apps) /\ Cardinality(Apps) \in Nat
      /\ IsFiniteSet(1..Size) /\ Cardinality(1..Size) = Size
  <2>1. IsFiniteSet(Apps) /\ Cardinality(Apps) \in Nat
    BY SpeedTestAssumption, FS_CardinalityType
  <2>2. 1 \in Int /\ Size \in Int /\ ~(1 > Size) /\ Size - 1 + 1 = Size
    BY SpeedTestAssumption
  <2>3. IsFiniteSet(1..Size) /\ Cardinality(1..Size) = Size
    BY <2>2, FS_Interval
  <2> QED
    BY <2>1, <2>3
<1>2. /\ IsFiniteSet(Apps \X (1..Size))
      /\ Cardinality(Apps \X (1..Size)) = Cardinality(Apps) * Size
  BY <1>1, FS_Product
<1>3. Cardinality(Apps) * Size = Total /\ Total \in Nat
  BY <1>1, SpeedTestAssumption DEF Total
<1> QED
  BY <1>2, <1>3

\* There are never more.
LEMMA SlotsBounded ==
  ASSUME NEW f
  PROVE  /\ IsFiniteSet(Slots(f)) /\ Total \in Nat
         /\ Cardinality(Slots(f)) \in Nat /\ Cardinality(Slots(f)) <= Total
<1>1. Slots(f) \in SUBSET (Apps \X (1..Size))
  BY DEF Slots
<1> QED
  BY <1>1, AllSlots, FS_Subset, FS_CardinalityType

\* One number more is one message more.
LEMMA OneSlotMore ==
  ASSUME NEW f \in [Apps -> Int], NEW g, NEW a \in Apps, f[a] \in 0..(Size - 1),
         g = [f EXCEPT ![a] = @ + 1]
  PROVE  /\ Cardinality(Slots(g)) = Cardinality(Slots(f)) + 1
         /\ Cardinality(Slots(f)) \in Nat
<1>1. <<a, f[a] + 1>> \notin Slots(f)
  BY DEF Slots
<1>2. Slots(g) \subseteq Slots(f) \cup {<<a, f[a] + 1>>}
  <2> SUFFICES ASSUME NEW b \in Apps, NEW n \in 1..Size, n <= g[b], ~(n <= f[b])
               PROVE  b = a /\ n = f[a] + 1
    BY DEF Slots
  <2>1. b = a
    OBVIOUS
  <2> QED
    BY <2>1, SpeedTestAssumption
<1>3. Slots(f) \cup {<<a, f[a] + 1>>} \subseteq Slots(g)
  <2>1. f[a] + 1 \in 1..Size
    BY SpeedTestAssumption
  <2>2. ASSUME NEW b \in Apps, NEW n \in 1..Size, n <= f[b] PROVE n <= g[b]
    BY <2>2
  <2>3. g[a] = f[a] + 1
    OBVIOUS
  <2> QED
    BY <2>1, <2>2, <2>3 DEF Slots
<1>4. Slots(g) = Slots(f) \cup {<<a, f[a] + 1>>}
  BY <1>2, <1>3
<1> QED
  BY <1>1, <1>4, SlotsBounded, FS_AddElement

\* One number less is one message less.
LEMMA OneTaken ==
  ASSUME NEW f \in [Apps -> 0..Size], NEW g, NEW a \in Apps, f[a] > 0,
         g = [f EXCEPT ![a] = @ - 1]
  PROVE  /\ g \in [Apps -> 0..Size]
         /\ \A b \in Apps : g[b] \in Nat /\ g[b] <= f[b]
         /\ Cardinality(Slots(f)) = Cardinality(Slots(g)) + 1
<1>1. f[a] \in 1..Size /\ f[a] - 1 \in 0..Size /\ f[a] - 1 <= f[a]
  BY SpeedTestAssumption
<1>2. g \in [Apps -> 0..Size] /\ \A b \in Apps : g[b] = IF b = a THEN f[a] - 1 ELSE f[b]
  BY <1>1
<1>3. \A b \in Apps : f[b] \in 0..Size /\ g[b] \in 0..Size /\ g[b] <= f[b]
  BY <1>1, <1>2
<1>4. g \in [Apps -> Int] /\ g[a] \in 0..(Size - 1) /\ f = [g EXCEPT ![a] = @ + 1]
  <2>1. g[a] = f[a] - 1 /\ g[a] + 1 = f[a] /\ g[a] \in 0..(Size - 1)
    BY <1>1, <1>2, SpeedTestAssumption
  <2>2. \A b \in Apps : f[b] = [g EXCEPT ![a] = f[a]][b]
    BY <1>2
  <2>3. f = [g EXCEPT ![a] = f[a]]
    BY <1>2, <2>2
  <2>4. g \in [Apps -> Int]
    BY <1>2, <1>3
  <2> QED
    BY <2>1, <2>3, <2>4
<1>5. Cardinality(Slots(f)) = Cardinality(Slots(g)) + 1
  BY <1>4, OneSlotMore
<1> QED
  BY <1>2, <1>3, <1>5, SpeedTestAssumption

\* Messages received, r, and those under way, f.
Carried(r, f) == r + Cardinality(Slots(f))

\* It is a number of messages.
LEMMA CarriedType ==
  ASSUME NEW r \in Nat, NEW f
  PROVE  Carried(r, f) \in Nat /\ r <= Carried(r, f) /\ (r = 0 => Carried(r, f) = Cardinality(Slots(f)))
  BY SlotsBounded DEF Carried

\* A message received was under way before; a message sent is under way after.
LEMMA CarriedMoves ==
  ASSUME NEW r \in Nat, NEW f, NEW g, Cardinality(Slots(f)) = Cardinality(Slots(g)) + 1
  PROVE  Carried(r + 1, g) = Carried(r, f) /\ Carried(r, f) = Carried(r, g) + 1
<1> DEFINE m == Cardinality(Slots(f))
           n == Cardinality(Slots(g))
<1>1. m \in Nat /\ n \in Nat /\ m = n + 1
  BY SlotsBounded
<1>2. Carried(r + 1, g) = (r + 1) + n /\ Carried(r, f) = r + m /\ Carried(r, g) = r + n
  BY DEF Carried
<1> HIDE DEF m, n
<1> QED
  BY <1>1, <1>2

\* What each phase has carried was sent in it.
Conserved ==
    /\ sent \in [Apps -> 0..Size]
    /\ flight \in [Phases -> [Apps -> 0..Size]]
    /\ lost \in Int
    /\ phase \in Phases => \A a \in Apps : flight[phase][a] <= sent[a]
    /\ \A p \in Phases :
         /\ p < phase => Carried(received[p], flight[p]) <= Total
         /\ p = phase => Carried(received[p], flight[p]) <= Cardinality(Slots(sent))
         /\ p > phase => received[p] = 0

\* Nothing has been sent at first.
LEMMA ConservedInit == Init => Conserved
<1> SUFFICES ASSUME Init PROVE Conserved
  OBVIOUS
<1>1. /\ sent = [a \in Apps |-> 0] /\ flight = [p \in Phases |-> [a \in Apps |-> 0]]
      /\ lost = 0
      /\ received = [p \in Phases |-> 0] /\ phase = 1
  BY DEF Init
<1>2. Total \in Nat /\ Size \in Nat
  BY SlotsBounded, SpeedTestAssumption
<1>3. \A p \in Phases : flight[p] = sent /\ received[p] = 0
  BY <1>1
<1>4. \A p \in Phases : Carried(received[p], flight[p]) = Cardinality(Slots(sent))
  BY <1>3, CarriedType
<1>5. Cardinality(Slots(sent)) \in Nat
  BY SlotsBounded
<1>6. sent \in [Apps -> 0..Size] /\ flight \in [Phases -> [Apps -> 0..Size]]
  BY <1>1, <1>2
<1>7. lost \in Int
  BY <1>1
<1>8. \A a \in Apps : flight[phase][a] <= sent[a]
  BY <1>1 DEF Phases
<1>9. \A p \in Phases : ~(p < phase) /\ Carried(received[p], flight[p]) <= Cardinality(Slots(sent))
  BY <1>1, <1>4, <1>5 DEF Phases
<1> QED
  BY <1>3, <1>6, <1>7, <1>8, <1>9 DEF Conserved

\* A message sent is one more to carry, at most.
LEMMA SendConserves == ASSUME SpeedInv, Conserved, NEW a \in Apps, Send(a) PROVE Conserved'
<1> USE DEF Conserved
<1>1. /\ phase \in Phases /\ sent[a] \in 0..(Size - 1)
      /\ sent' = [sent EXCEPT ![a] = @ + 1]
      /\ UNCHANGED <<phase, received>>
  BY SpeedTestAssumption DEF Send
<1>2. sent' \in [Apps -> 0..Size] /\ \A b \in Apps : sent[b] <= sent'[b]
  BY <1>1, SpeedTestAssumption
<1>3. Cardinality(Slots(sent')) = Cardinality(Slots(sent)) + 1
  <2>1. sent \in [Apps -> Int]
    BY SpeedTestAssumption
  <2> QED
    BY <1>1, <2>1, OneSlotMore
<1>4. /\ \A p \in Phases : received[p] \in Nat /\ Carried(received[p], flight[p]) \in Nat
      /\ Cardinality(Slots(sent)) \in Nat
  BY SlotsBounded, CarriedType DEF SpeedInv, TInv
<1>5. CASE UNCHANGED flight
  <2>1. lost' \in Int
    BY DEF Send
  <2>2. \A b \in Apps : flight'[phase][b] <= sent'[b]
    BY <1>1, <1>2, <1>5
  <2> QED
    BY <1>1, <1>2, <1>3, <1>4, <1>5, <2>1, <2>2
<1>6. CASE flight' = [flight EXCEPT ![phase][a] = @ + 1] /\ UNCHANGED lost
  <2>1. /\ \A p \in Phases \ {phase} : flight'[p] = flight[p]
        /\ flight'[phase] = [flight[phase] EXCEPT ![a] = @ + 1]
        /\ flight[phase] \in [Apps -> 0..Size]
    BY <1>1, <1>6
  <2>2. flight[phase][a] \in 0..(Size - 1)
    BY <1>1, <2>1, SpeedTestAssumption
  <2>3. flight'[phase] \in [Apps -> 0..Size]
    BY <2>1, <2>2, SpeedTestAssumption
  <2>4. flight' \in [Phases -> [Apps -> 0..Size]]
    BY <1>1, <1>6, <2>1, <2>3
  <2>5. \A b \in Apps : flight'[phase][b] <= sent'[b]
    BY <1>1, <2>1, SpeedTestAssumption
  <2>6. Cardinality(Slots(flight'[phase])) = Cardinality(Slots(flight[phase])) + 1
    <3>1. flight[phase] \in [Apps -> Int]
      BY <2>1
    <3> QED
      BY <2>1, <2>2, <3>1, OneSlotMore
  <2>7. Carried(received'[phase], flight'[phase]) = Carried(received[phase], flight[phase]) + 1
    BY <1>1, <1>4, <2>6, CarriedMoves
  <2>8. \A p \in Phases \ {phase} :
           Carried(received'[p], flight'[p]) = Carried(received[p], flight[p])
    BY <1>1, <2>1
  <2>9. Carried(received'[phase], flight'[phase]) <= Cardinality(Slots(sent'))
    BY <1>1, <1>3, <1>4, <2>7
  <2>10. ASSUME NEW p \in Phases
         PROVE  /\ p < phase => Carried(received'[p], flight'[p]) <= Total
                /\ p = phase => Carried(received'[p], flight'[p]) <= Cardinality(Slots(sent'))
                /\ p > phase => received'[p] = 0
    <3>1. phase \in Phases /\ p < phase => p # phase
      BY <1>1 DEF Phases
    <3> QED
      BY <1>1, <2>8, <2>9, <3>1
  <2> QED
    BY <1>1, <1>2, <1>6, <2>4, <2>5, <2>10
<1> QED
  BY <1>5, <1>6 DEF Send

\* main ends a phase with the messages it sent, and starts the next with none.
LEMMA LeaveConserves == ASSUME SpeedInv, Conserved, Leave PROVE Conserved'
<1> USE DEF Conserved
<1>1. /\ phase \in Phases /\ phase' = phase + 1
      /\ sent' = [a \in Apps |-> 0]
      /\ lost' = 0
      /\ UNCHANGED <<flight, received>>
  BY DEF Leave, SpeedInv, TInv
<1>2. /\ \A p \in Phases : received[p] \in Nat /\ Carried(received[p], flight[p]) \in Nat
      /\ \A p \in Phases : received[p] <= Carried(received[p], flight[p])
  BY CarriedType DEF SpeedInv, TInv
<1>3. /\ Cardinality(Slots(sent)) \in Nat /\ Cardinality(Slots(sent)) <= Total
      /\ Cardinality(Slots(sent')) \in Nat /\ Total \in Nat
  BY SlotsBounded
<1>4. Carried(received[phase], flight[phase]) <= Total
  <2>1. Carried(received[phase], flight[phase]) <= Cardinality(Slots(sent))
    BY <1>1
  <2> QED
    BY <1>1, <1>2, <1>3, <2>1
<1>5. sent' \in [Apps -> 0..Size]
  BY <1>1, SpeedTestAssumption
<1>6. ASSUME NEW p \in Phases, p > phase
      PROVE  /\ \A a \in Apps : flight[p][a] = 0
             /\ received[p] = 0 /\ Carried(received[p], flight[p]) = Cardinality(Slots(sent'))
  <2>1. received[p] = 0 /\ \A a \in Apps : flight[p][a] = 0
    BY <1>6 DEF SpeedInv, NotBegun
  <2>2. flight[p] = sent'
    BY <1>1, <2>1
  <2> QED
    BY <1>2, <2>1, <2>2, CarriedType
<1>7. ASSUME NEW p \in Phases
      PROVE  /\ p < phase' => Carried(received[p], flight[p]) <= Total
             /\ p = phase' => Carried(received[p], flight[p]) <= Cardinality(Slots(sent'))
             /\ p > phase' => received[p] = 0
  <2>1. CASE p < phase
    BY <1>1, <2>1 DEF Phases
  <2>2. CASE p = phase
    BY <1>1, <1>4, <2>2 DEF Phases
  <2>3. CASE p > phase
    BY <1>1, <1>3, <1>6, <2>3 DEF Phases
  <2> QED
    BY <1>1, <2>1, <2>2, <2>3 DEF Phases
<1>8. phase' \in Phases => \A a \in Apps : flight'[phase'][a] <= sent'[a]
  BY <1>1, <1>6 DEF Phases
<1>9. flight' \in [Phases -> [Apps -> 0..Size]] /\ lost' \in Int
  BY <1>1
<1> QED
  BY <1>1, <1>5, <1>7, <1>8, <1>9

\* A message received was under way.
LEMMA LoadConserves ==
  ASSUME SpeedInv, Conserved, NEW t \in Counters, NEW a \in Apps, Load(t, a) PROVE Conserved'
<1> USE DEF Conserved
<1> DEFINE p == t[1]
<1>1. /\ p \in Phases /\ p <= phase
      /\ flight[p][a] > 0
      /\ flight' = [flight EXCEPT ![p][a] = @ - 1]
      /\ received' = [received EXCEPT ![p] = @ + 1]
      /\ UNCHANGED <<phase, sent, lost>>
  BY CounterPhases DEF Load, SpeedInv, NotBegun, TInv, Phases
<1> HIDE DEF p
<1>2. /\ \A q \in Phases \ {p} : flight'[q] = flight[q] /\ received'[q] = received[q]
      /\ flight'[p] = [flight[p] EXCEPT ![a] = @ - 1]
      /\ flight[p] \in [Apps -> 0..Size] /\ received'[p] = received[p] + 1
  BY <1>1 DEF SpeedInv, TInv
<1>3. flight[p][a] > 0
  BY <1>1
<1>4. /\ flight'[p] \in [Apps -> 0..Size]
      /\ \A b \in Apps : flight'[p][b] \in Nat /\ flight'[p][b] <= flight[p][b]
      /\ Cardinality(Slots(flight[p])) = Cardinality(Slots(flight'[p])) + 1
  BY <1>2, <1>3, OneTaken
<1>5. flight' \in [Phases -> [Apps -> 0..Size]]
  BY <1>1, <1>2, <1>4
<1>7. Carried(received'[p], flight'[p]) = Carried(received[p], flight[p])
  <2>1. received'[p] = received[p] + 1 /\ received[p] \in Nat
    BY <1>1, <1>2 DEF SpeedInv, TInv
  <2> QED
    BY <1>4, <2>1, CarriedMoves
<1>8. \A q \in Phases : Carried(received'[q], flight'[q]) = Carried(received[q], flight[q])
  BY <1>2, <1>7
<1>9. phase \in Phases => \A b \in Apps : flight'[phase][b] <= sent[b]
  <2> SUFFICES ASSUME phase \in Phases, NEW b \in Apps PROVE flight'[phase][b] <= sent[b]
    OBVIOUS
  <2>1. flight[phase][b] <= sent[b] /\ sent[b] \in 0..Size /\ flight[phase][b] \in 0..Size
    BY SpeedTestAssumption
  <2>2. CASE phase = p
    BY <1>4, <2>1, <2>2, SpeedTestAssumption
  <2>3. CASE phase # p
    BY <1>2, <2>1, <2>3
  <2> QED
    BY <2>2, <2>3
<1>10. \A q \in Phases : q > phase => received'[q] = 0
  BY <1>1, <1>2 DEF SpeedInv, TInv, Phases
<1> QED
  BY <1>1, <1>5, <1>8, <1>9, <1>10

\* The other steps carry nothing.
LEMMA RestConserves ==
  ASSUME Conserved, UNCHANGED <<phase, sent, flight, received>>, lost' \in Int
  PROVE  Conserved'
  BY DEF Conserved

\* Every step conserves the messages.
LEMMA ConservedStep == SpeedInv /\ Conserved /\ [Next]_vars => Conserved'
<1> SUFFICES ASSUME SpeedInv, Conserved, [Next]_vars PROVE Conserved'
  OBVIOUS
<1>1. CASE Join \/ Look \/ UNCHANGED vars
  <2>1. UNCHANGED <<phase, sent, flight, received, lost>>
    BY <1>1 DEF Join, Look, vars, traffic, history
  <2> QED
    BY <2>1, RestConserves DEF Conserved
<1>2. ASSUME NEW t \in Counters, Store(t) PROVE Conserved'
  <2>1. UNCHANGED <<phase, sent, flight, received>>
    BY <1>2 DEF Store, traffic
  <2>2. Counter(t[1]) \in Int /\ reg[t] \in Int /\ lost \in Int
    BY DEF SpeedInv, TInv, Counter, NoValue, Conserved
  <2>3. lost' \in Int
    BY <1>2, <2>2 DEF Store
  <2> QED
    BY <2>1, <2>3, RestConserves
<1> QED
  BY <1>1, <1>2, SendConserves, LeaveConserves, LoadConserves DEF Next, Main, Counting

\* Every state is well typed: in no phase are more messages received, or under way,
\* than were sent in it, Total at most, whichever threads of which phase still run.
THEOREM SpeedTypes == Spec => []TypeOK
<1>1. SpeedInv /\ Conserved => TypeOK
  <2> SUFFICES ASSUME SpeedInv, Conserved PROVE TypeOK
    OBVIOUS
  <2>1. ASSUME NEW p \in Phases PROVE received[p] \in 0..Total
    <3>1. /\ received[p] \in Nat /\ received[p] <= Carried(received[p], flight[p])
          /\ Carried(received[p], flight[p]) \in Nat
      BY CarriedType DEF SpeedInv, TInv
    <3>2. /\ Cardinality(Slots(sent)) \in Nat /\ Cardinality(Slots(sent)) <= Total
          /\ Total \in Nat
      BY SlotsBounded
    <3> QED
      BY <3>1, <3>2 DEF Conserved, SpeedInv, TInv, Phases
  <2>2. received \in [Phases -> 0..Total]
    BY <2>1 DEF SpeedInv, TInv
  <2> QED
    BY <2>2 DEF SpeedInv, TInv, Conserved, TypeOK
<1> QED
  BY <1>1, ConservedInit, ConservedStep, SpeedInvariant, PTL DEF Spec
-----------------------------------------------------------------------------
(* No message is missing that is not accounted for                         *)

\* What the counter of phase p shows, what was lost, what is under way and what is
\* being counted.
Booked(p) == Counter(p) + lost + Cardinality(Slots(flight[p])) + Cardinality(Uncounted(p))

\* All that has been sent in the phase main is in is booked.
Ledger == phase \in Phases => Booked(phase) >= Cardinality(Slots(sent))

\* The threads that count are finitely many.
LEMMA FewCounters ==
  ASSUME NEW S \in SUBSET Counters
  PROVE  IsFiniteSet(S) /\ Cardinality(S) \in Nat
<1>1. IsFiniteSet(1..3) /\ IsFiniteSet(Apps \cup Workers)
  BY FS_Interval, FS_Union, SpeedTestAssumption, 1 \in Int, 3 \in Int
<1>2. IsFiniteSet((1..3) \X (Apps \cup Workers))
  BY <1>1, FS_Product
<1>3. S \in SUBSET ((1..3) \X (Apps \cup Workers))
  BY DEF Counters
<1> QED
  BY <1>2, <1>3, FS_Subset, FS_CardinalityType

\* Those that have a value in hand are among them.
LEMMA UncountedFew ==
  ASSUME NEW p
  PROVE  IsFiniteSet(Uncounted(p)) /\ Cardinality(Uncounted(p)) \in Nat
<1>1. Uncounted(p) \in SUBSET Counters
  BY DEF Uncounted
<1> QED
  BY <1>1, FewCounters

\* One thread more has a value in hand.
LEMMA OneMoreCounts ==
  ASSUME NEW t \in Counters, reg[t] = NoValue, reg'[t] # NoValue,
         \A u \in Counters \ {t} : reg'[u] = reg[u]
  PROVE  /\ Cardinality(Uncounted(t[1])') = Cardinality(Uncounted(t[1])) + 1
         /\ \A p : p # t[1] => Uncounted(p)' = Uncounted(p)
<1>1. Uncounted(t[1])' = Uncounted(t[1]) \cup {t} /\ t \notin Uncounted(t[1])
  BY DEF Uncounted
<1>2. \A p : p # t[1] => Uncounted(p)' = Uncounted(p)
  BY DEF Uncounted
<1>3. Cardinality(Uncounted(t[1]) \cup {t}) = Cardinality(Uncounted(t[1])) + 1
  BY <1>1, UncountedFew, FS_AddElement
<1> QED
  BY <1>1, <1>2, <1>3, Zenon

\* One thread less has a value in hand.
LEMMA OneLessCounts ==
  ASSUME NEW t \in Counters, reg[t] # NoValue, reg'[t] = NoValue,
         \A u \in Counters \ {t} : reg'[u] = reg[u]
  PROVE  /\ Cardinality(Uncounted(t[1])') = Cardinality(Uncounted(t[1])) - 1
         /\ \A p : p # t[1] => Uncounted(p)' = Uncounted(p)
<1>1. Uncounted(t[1])' = Uncounted(t[1]) \ {t} /\ t \in Uncounted(t[1])
  BY DEF Uncounted
<1>2. \A p : p # t[1] => Uncounted(p)' = Uncounted(p)
  BY DEF Uncounted
<1>3. Cardinality(Uncounted(t[1]) \ {t}) = Cardinality(Uncounted(t[1])) - 1
  BY <1>1, UncountedFew, FS_RemoveElement
<1> QED
  BY <1>1, <1>2, <1>3, Zenon

\* The terms of the ledger are numbers.
LEMMA BookedTypes ==
  ASSUME SpeedInv, Conserved, NEW p
  PROVE  /\ Counter(p) \in Nat /\ lost \in Int /\ Cardinality(Uncounted(p)) \in Nat
         /\ Cardinality(Slots(flight[p])) \in Nat /\ Cardinality(Slots(sent)) \in Nat
         /\ Booked(p) \in Int
<1>1. /\ Counter(p) \in Nat /\ lost \in Int /\ Cardinality(Uncounted(p)) \in Nat
      /\ Cardinality(Slots(flight[p])) \in Nat /\ Cardinality(Slots(sent)) \in Nat
  BY SlotsBounded, UncountedFew DEF SpeedInv, TInv, Conserved, Counter
<1> QED
  BY <1>1 DEF Booked

\* Nothing is sent at first.
LEMMA LedgerInit == Init => Ledger
<1> SUFFICES ASSUME Init PROVE Ledger
  OBVIOUS
<1>1. SpeedInv /\ Conserved
  BY SpeedInvInit, ConservedInit
<1>2. lost = 0 /\ flight[phase] = sent
  BY DEF Init, Phases
<1> QED
  BY <1>1, <1>2, BookedTypes DEF Booked, Ledger

\* A message sent is under way or lost.
LEMMA SendBooked ==
  ASSUME SpeedInv, Conserved, Ledger, NEW a \in Apps, Send(a) PROVE Ledger'
<1> DEFINE k == Counter(phase)
           u == Cardinality(Uncounted(phase))
           x == Cardinality(Slots(flight[phase]))
           y == Cardinality(Slots(sent))
<1>1. /\ phase \in Phases /\ sent[a] \in 0..(Size - 1)
      /\ sent' = [sent EXCEPT ![a] = @ + 1]
      /\ UNCHANGED <<phase, mCounter, rCounter, reg>>
  BY SpeedTestAssumption DEF Send, Conserved, counts
<1>2. Cardinality(Slots(sent')) = y + 1
  <2>1. sent \in [Apps -> Int]
    BY SpeedTestAssumption DEF Conserved
  <2> QED
    BY <1>1, <2>1, OneSlotMore
<1>3. Counter(phase)' = k /\ Cardinality(Uncounted(phase)') = u
  BY <1>1 DEF Counter, Uncounted
<1>4. k + lost + x + u >= y
  BY <1>1 DEF Ledger, Booked
<1>5. k \in Nat /\ lost \in Int /\ u \in Nat /\ x \in Nat /\ y \in Nat
  BY BookedTypes
<1>6. CASE lost' = lost + 1 /\ UNCHANGED flight
  <2>1. Cardinality(Slots(flight[phase])') = x
    BY <1>1, <1>6
  <2> HIDE DEF k, u, x, y
  <2>2. k + lost' + x + u >= y + 1
    BY <1>4, <1>5, <1>6
  <2> QED
    BY <1>1, <1>2, <1>3, <2>1, <2>2 DEF Ledger, Booked
<1>7. CASE flight' = [flight EXCEPT ![phase][a] = @ + 1] /\ UNCHANGED lost
  <2>1. Cardinality(Slots(flight[phase])') = x + 1
    <3>1. /\ flight[phase] \in [Apps -> Int] /\ flight[phase][a] \in 0..Size
          /\ flight[phase][a] <= sent[a]
          /\ flight'[phase] = [flight[phase] EXCEPT ![a] = @ + 1]
      BY <1>1, <1>7, SpeedTestAssumption DEF Conserved
    <3>2. flight[phase][a] \in 0..(Size - 1)
      BY <1>1, <3>1, SpeedTestAssumption
    <3>3. Cardinality(Slots(flight'[phase])) = x + 1
      BY <3>1, <3>2, OneSlotMore
    <3> QED
      BY <1>1, <3>3
  <2> HIDE DEF k, u, x, y
  <2>2. k + lost' + (x + 1) + u >= y + 1
    BY <1>4, <1>5, <1>7
  <2> QED
    BY <1>1, <1>2, <1>3, <2>1, <2>2 DEF Ledger, Booked
<1> QED
  BY <1>6, <1>7 DEF Send

\* A new phase starts with nothing sent, nothing lost and a counter of its own.
LEMMA LeaveBooked == ASSUME SpeedInv, Conserved, Leave PROVE Ledger'
<1>1. SpeedInv' /\ Conserved'
  BY LeaveKeeps, LeaveConserves
<1>2. /\ phase \in Phases /\ phase' = phase + 1 /\ sent' = [a \in Apps |-> 0] /\ lost' = 0
      /\ UNCHANGED flight
  BY DEF Leave, SpeedInv, TInv
<1>3. phase' \in Phases => flight'[phase'] = sent'
  <2> SUFFICES ASSUME phase' \in Phases PROVE flight'[phase'] = sent'
    OBVIOUS
  <2>1. phase' > phase /\ flight[phase'] \in [Apps -> Nat]
    BY <1>2 DEF Phases, SpeedInv, TInv
  <2>2. \A a \in Apps : flight[phase'][a] = 0
    BY <2>1 DEF SpeedInv, NotBegun
  <2> QED
    BY <1>2, <2>1, <2>2
<1>4. /\ Counter(phase)' \in Nat /\ Cardinality(Uncounted(phase)') \in Nat
      /\ Cardinality(Slots(sent')) \in Nat
  <2>1. Counter(phase)' \in Nat
    BY <1>1 DEF SpeedInv, TInv, Counter
  <2>2. Uncounted(phase)' \in SUBSET Counters
    BY DEF Uncounted
  <2> QED
    BY <2>1, <2>2, SlotsBounded, FewCounters
<1>5. phase' \in Phases => Booked(phase)' >= Cardinality(Slots(sent'))
  BY <1>2, <1>3, <1>4 DEF Booked
<1> QED
  BY <1>5 DEF Ledger

\* A message received is being counted.
LEMMA LoadBooked ==
  ASSUME SpeedInv, Conserved, Ledger, NEW t \in Counters, NEW a \in Apps, Load(t, a)
  PROVE  Ledger'
<1> DEFINE k == Counter(phase)
           u == Cardinality(Uncounted(phase))
           x == Cardinality(Slots(flight[phase]))
           y == Cardinality(Slots(sent))
           p == t[1]
<1>1. /\ phase \in Phases /\ p \in Phases /\ reg[t] = NoValue
      /\ flight[p][a] > 0
      /\ flight' = [flight EXCEPT ![p][a] = @ - 1]
      /\ reg' = [reg EXCEPT ![t] = Counter(p)]
      /\ reg \in [Counters -> Nat \cup {NoValue}] /\ Counter(p) \in Nat
      /\ UNCHANGED <<phase, sent, lost, mCounter, rCounter>>
  BY CounterPhases, BookedTypes DEF Load, SpeedInv, TInv
<1>2. /\ Cardinality(Uncounted(p)') = Cardinality(Uncounted(p)) + 1
      /\ \A q : q # p => Uncounted(q)' = Uncounted(q)
  <2>1. reg'[t] # NoValue /\ \A v \in Counters \ {t} : reg'[v] = reg[v]
    BY <1>1 DEF NoValue
  <2> QED
    BY <1>1, <2>1, OneMoreCounts
<1>3. Counter(phase)' = k
  BY <1>1 DEF Counter
<1>4. k + lost + x + u >= y
  BY <1>1 DEF Ledger, Booked
<1>5. k \in Nat /\ lost \in Int /\ u \in Nat /\ x \in Nat /\ y \in Nat
  BY BookedTypes
<1>6. CASE p = phase
  <2> HIDE DEF p
  <2>1. flight[p] \in [Apps -> 0..Size] /\ flight[p][a] > 0
    BY <1>1 DEF Conserved
  <2>2. flight'[p] = [flight[p] EXCEPT ![a] = @ - 1]
    BY <1>1 DEF SpeedInv, TInv
  <2>3. /\ Cardinality(Slots(flight[p])) = Cardinality(Slots(flight'[p])) + 1
        /\ Cardinality(Slots(flight'[p])) \in Nat
    BY <2>1, <2>2, OneTaken, SlotsBounded
  <2>4. Cardinality(Slots(flight[phase])') = x - 1 /\ Cardinality(Uncounted(phase)') = u + 1
    BY <1>1, <1>2, <1>5, <1>6, <2>3
  <2> HIDE DEF k, u, x, y
  <2>5. k + lost + (x - 1) + (u + 1) >= y
    BY <1>4, <1>5
  <2> QED
    BY <1>1, <1>3, <2>4, <2>5 DEF Ledger, Booked, y
<1>7. CASE p # phase
  <2>1. Cardinality(Slots(flight[phase])') = x /\ Cardinality(Uncounted(phase)') = u
    BY <1>1, <1>2, <1>7
  <2> HIDE DEF k, u, x, p
  <2> QED
    BY <1>1, <1>3, <1>4, <2>1 DEF Ledger, Booked
<1> QED
  BY <1>6, <1>7

\* A value stored counts one message and loses what it undoes.
LEMMA StoreBooked ==
  ASSUME SpeedInv, Conserved, Ledger, NEW t \in Counters, Store(t) PROVE Ledger'
<1> DEFINE k == Counter(phase)
           u == Cardinality(Uncounted(phase))
           x == Cardinality(Slots(flight[phase]))
           y == Cardinality(Slots(sent))
           p == t[1]
<1>1. /\ phase \in Phases /\ p \in Phases /\ p <= phase
      /\ reg[t] \in Nat /\ reg[t] # NoValue
      /\ reg' = [reg EXCEPT ![t] = NoValue]
      /\ reg \in [Counters -> Nat \cup {NoValue}]
      /\ UNCHANGED <<phase, sent, flight>>
  BY CounterPhases DEF Store, SpeedInv, NotBegun, TInv, Phases, traffic
<1>2. /\ Cardinality(Uncounted(p)') = Cardinality(Uncounted(p)) - 1
      /\ \A q : q # p => Uncounted(q)' = Uncounted(q)
  <2>1. reg'[t] = NoValue /\ \A v \in Counters \ {t} : reg'[v] = reg[v]
    BY <1>1
  <2> QED
    BY <1>1, <2>1, OneLessCounts
<1>3. /\ p = 2 => rCounter' = reg[t] + 1 /\ UNCHANGED mCounter
      /\ p # 2 => mCounter' = reg[t] + 1 /\ UNCHANGED rCounter
      /\ lost' = IF CountsFor(t) = phase THEN lost + Counter(p) - reg[t] ELSE lost
  BY DEF Store
<1>4. k + lost + x + u >= y
  BY <1>1 DEF Ledger, Booked
<1>5. k \in Nat /\ lost \in Int /\ u \in Nat /\ x \in Nat /\ y \in Nat
  BY BookedTypes
<1>6. Cardinality(Slots(flight[phase])') = x /\ Cardinality(Slots(sent)') = y
  BY <1>1
<1>7. Cardinality(Uncounted(phase)') >= u - 1 /\ Cardinality(Uncounted(phase)') \in Nat
  <2>1. Cardinality(Uncounted(phase)') = u - 1 \/ Cardinality(Uncounted(phase)') = u
    BY <1>1, <1>2
  <2>2. u \in Nat /\ Cardinality(Uncounted(phase)') \in Nat
    <3>1. Uncounted(phase)' \in SUBSET Counters
      BY DEF Uncounted
    <3> QED
      BY <1>5, <3>1, FewCounters
  <2> QED
    BY <2>1, <2>2
<1>8. CASE CountsFor(t) = phase
  <2>1. Counter(p) = k /\ Counter(phase)' = reg[t] + 1
    BY <1>1, <1>3, <1>8 DEF CountsFor, Counter, Phases
  <2>2. lost' = lost + k - reg[t]
    BY <1>3, <1>8, <2>1
  <2> DEFINE n == Cardinality(Uncounted(phase)')
  <2> HIDE DEF k, u, x, y, p, n
  <2>3. (reg[t] + 1) + lost' + x + n >= y
    BY <1>1, <1>4, <1>5, <1>7, <2>2 DEF n
  <2> QED
    BY <1>1, <1>6, <2>1, <2>3 DEF Ledger, Booked, n
<1>9. CASE CountsFor(t) # phase
  <2>1. Counter(phase)' = k /\ lost' = lost /\ p # phase
    BY <1>1, <1>3, <1>9 DEF CountsFor, Counter, Phases
  <2>2. Cardinality(Uncounted(phase)') = u
    BY <1>1, <1>2, <2>1
  <2> HIDE DEF k, u, x, y, p
  <2> QED
    BY <1>1, <1>4, <1>6, <2>1, <2>2 DEF Ledger, Booked
<1> QED
  BY <1>8, <1>9

\* Every step keeps the books.
LEMMA LedgerStep == SpeedInv /\ Conserved /\ Ledger /\ [Next]_vars => Ledger'
<1> SUFFICES ASSUME SpeedInv, Conserved, Ledger, [Next]_vars PROVE Ledger'
  OBVIOUS
<1>1. CASE Join \/ Look \/ UNCHANGED vars
  <2>1. UNCHANGED <<phase, sent, flight, mCounter, rCounter, reg, lost>>
    BY <1>1 DEF Join, Look, vars, traffic, counts, history
  <2> QED
    BY <2>1 DEF Ledger, Booked, Counter, Uncounted
<1> QED
  BY <1>1, SendBooked, LeaveBooked, LoadBooked, StoreBooked DEF Next, Main, Counting

\* Once main has joined the senders, each of them has sent all its messages.
AllSent == main # "send" => \A a \in Apps : sent[a] = Size

\* main joins the senders before it waits.
LEMMA AllSentStep == SpeedInv /\ AllSent /\ [Next]_vars => AllSent'
  BY DEF AllSent, Next, Main, Join, Look, Leave, Send, Counting, Load, Store, vars, traffic

\* When the messages of a phase have been sent and none is under way any more, the
\* counter main looks at misses no more of them than were dropped or undone by
\* unlocked increments, also those of the first phase's threads after the reset.
THEOREM CountersAccounted == Spec => []Accounted
<1>1. Init => AllSent
  BY DEF Init, AllSent
<1>2. SpeedInv /\ Conserved /\ Ledger /\ AllSent => Accounted
  <2> SUFFICES ASSUME SpeedInv, Conserved, Ledger, AllSent,
                      phase \in Phases, main # "send", Settled(phase)
               PROVE  Counter(phase) >= Total - lost
    BY DEF Accounted
  <2>1. Cardinality(Uncounted(phase)) = 0
    BY FS_EmptySet DEF Settled
  <2>2. Cardinality(Slots(flight[phase])) = 0
    <3>1. Slots(flight[phase]) = {}
      BY SpeedTestAssumption DEF Settled, Slots
    <3> QED
      BY <3>1, FS_EmptySet
  <2>3. Cardinality(Slots(sent)) = Total
    <3>1. Slots(sent) = Apps \X (1..Size)
      BY SpeedTestAssumption DEF AllSent, Slots
    <3> QED
      BY <3>1, AllSlots
  <2>4. Counter(phase) + lost + 0 + 0 >= Total
    BY <2>1, <2>2, <2>3 DEF Ledger, Booked
  <2>5. Counter(phase) \in Nat /\ lost \in Int /\ Total \in Nat
    BY BookedTypes, SlotsBounded
  <2> QED
    BY <2>4, <2>5
<1> QED
  BY <1>1, <1>2, LedgerInit, LedgerStep, AllSentStep, ConservedInit, ConservedStep,
     SpeedInvariant, PTL DEF Spec
=============================================================================
