------------------------- MODULE PerProtocolProofs -------------------------
(***************************************************************************)
(* Theorems about PerProtocol, for any set of applications, any number of  *)
(* messages and any capacity of pipes and socket.                          *)
(***************************************************************************)
EXTENDS PerProtocol, PacketsProofs

-----------------------------------------------------------------------------
(* Units of a pipe.                                                        *)

\* Encapsulating and stripping turn units into units.
LEMMA EncapsulateType ==
  ASSUME NEW p \in ProtocolIds, NEW u \in Unit
  PROVE  Encapsulate(p, u) \in Unit
<1>1. HlpOf(p, u) \in Nat /\ u.msg \in Message
  BY DEF Unit, Unset, HlpOf
<1>2. AddHeader(u.msg, p, HlpOf(p, u)) \in Message
  BY <1>1, AddHeaderType
<1> QED
  BY <1>2 DEF Encapsulate, Unit, ProtocolIds

\* A stripped unit is a unit.
LEMMA StripType ==
  ASSUME NEW p \in ProtocolIds, NEW u \in Unit
  PROVE  Strip(p, u) \in Unit
<1>1. StripHeader(u.msg, p) \in Message
  BY StripHeaderType DEF Unit
<1> QED
  BY <1>1 DEF Strip, Unit, ProtocolIds

-----------------------------------------------------------------------------
(* Type correctness.                                                       *)

\* A thread that has read has a unit in its hand: AppReceive, SendDown, PassUp
\* and EthSend rely on it.
HasUnit == \A t \in Stages : pc[t] = "lock" => hand[t] # <<>>

TInv == TypeOK /\ HasUnit

\* Stages, applications and the listener are different threads.
LEMMA ThreadSets ==
  /\ Stages \subseteq Threads
  /\ Pipes = Stages
  /\ Listener \in Threads \ Stages
  /\ \A a \in Apps : App(a) \in Threads \ Stages
  /\ NoPipe \notin Pipes
  /\ \A p \in ProtocolIds : <<"send", p>> \in Stages /\ <<"recv", p>> \in Stages
  BY DEF Threads, Stages, Pipes, Listener, App, NoPipe

\* The initial states are well typed.
LEMMA TInvInit == Init => TInv
<1> SUFFICES ASSUME Init PROVE TInv
  OBVIOUS
<1>1. net \in Seq(Message)
  BY DEF Init
<1>2. TypeOK
  BY <1>1, ThreadSets, PerProtocolAssumption DEF Init, TypeOK, PCs
<1>3. HasUnit
  BY ThreadSets DEF Init, HasUnit
<1> QED
  BY <1>2, <1>3 DEF TInv

\* The three variables a thread's own step sets, each at the thread only.
LEMMA ThreadStep ==
  ASSUME TypeOK, NEW t \in Threads, NEW from, NEW to \in PCs, Goto(t, from, to)
  PROVE  /\ pc' \in [Threads -> PCs]
         /\ \A u \in Unit : Hold(t, u) => hand' \in [Threads -> Seq(Unit)]
         /\ LetGo(t) => hand' \in [Threads -> Seq(Unit)]
         /\ \A q \in Pipes \cup {NoPipe} :
               Aim(t, q) => dest' \in [Threads -> Pipes \cup {NoPipe}]
<1>1. pc' \in [Threads -> PCs]
  BY DEF TypeOK, Goto
<1>2. ASSUME NEW s \in Seq(Unit), hand' = [hand EXCEPT ![t] = s]
      PROVE  hand' \in [Threads -> Seq(Unit)]
  BY <1>2 DEF TypeOK
<1>3. ASSUME NEW u \in Unit PROVE <<u>> \in Seq(Unit)
  BY <1>3
<1>4. \A u \in Unit : Hold(t, u) => hand' \in [Threads -> Seq(Unit)]
  BY <1>2, <1>3 DEF Hold
<1>5. LetGo(t) => hand' \in [Threads -> Seq(Unit)]
  <2>1. <<>> \in Seq(Unit)
    OBVIOUS
  <2> QED
    BY <1>2, <2>1 DEF LetGo
<1>6. ASSUME NEW q \in Pipes \cup {NoPipe}, Aim(t, q)
      PROVE  dest' \in [Threads -> Pipes \cup {NoPipe}]
  BY <1>6 DEF TypeOK, Aim
<1> QED
  BY <1>1, <1>4, <1>5, <1>6

\* A stage that takes its own mutex.
LEMMA LockOwnTypes ==
  ASSUME TypeOK, NEW t \in Stages, LockOwn(t)
  PROVE  /\ held' \in [Pipes -> BOOLEAN]
         /\ pipe' \in [Pipes -> Seq(Unit)]
         /\ spent' \in [Pipes -> Nat]
         /\ sent' \in [Apps -> Nat]
  BY DEF TypeOK, LockOwn

\* A step that leaves the stages' hands alone and sends nobody to "lock".
LEMMA StepHasUnit ==
  ASSUME TInv, NEW t \in Threads, NEW to \in PCs \ {"lock"},
         pc' = [pc EXCEPT ![t] = to],
         \A s \in Stages \ {t} : hand'[s] = hand[s]
  PROVE  HasUnit'
  BY ThreadSets DEF TInv, TypeOK, HasUnit

\* Every step keeps the types and gives each stage at its mutex a unit to work on.
LEMMA TInvStep == TInv /\ [Next]_vars => TInv'
<1> SUFFICES ASSUME TInv, [Next]_vars PROVE TInv'
  OBVIOUS
<1>1. ASSUME NEW t \in Threads, LockNext(t) PROVE TInv'
  <2>1. TypeOK'
    BY <1>1 DEF Goto, Hold, LetGo, Aim, LockNext, TInv, TypeOK, PCs
  <2>2. HasUnit'
    BY <1>1, StepHasUnit DEF Goto, Hold, LetGo, LockNext, PCs
  <2> QED
    BY <2>1, <2>2 DEF TInv
<1>2. ASSUME NEW t \in Threads, Write(t) PROVE TInv'
  <2>1. TypeOK'
    <3>1. hand[t] \in Seq(Unit) /\ TypeOK
      BY DEF TInv, TypeOK
    <3>2. pipe' \in [Pipes -> Seq(Unit)]
      <4>1. \A q \in Pipes : pipe[q] \o hand[t] \in Seq(Unit)
        BY <3>1 DEF TypeOK
      <4> QED
        BY <1>2, <3>1, <4>1 DEF Write, TypeOK
    <3>3. pc' \in [Threads -> PCs] /\ hand' \in [Threads -> Seq(Unit)]
      BY <1>2, <3>1, ThreadStep DEF Write, PCs
    <3> QED
      BY <1>2, <3>2, <3>3 DEF Write, TInv, TypeOK
  <2>2. HasUnit'
    BY <1>2, ThreadSets, StepHasUnit DEF Goto, Hold, LetGo, Write, PCs, TInv, TypeOK
  <2> QED
    BY <2>1, <2>2 DEF TInv
<1>3. ASSUME NEW t \in Threads, Release(t) PROVE TInv'
  <2>1. TypeOK'
    BY <1>3 DEF Goto, Hold, LetGo, Aim, Release, Resume, TInv, TypeOK, PCs
  <2>2. HasUnit'
    BY <1>3, StepHasUnit DEF Goto, Hold, LetGo, Release, Resume, PCs
  <2> QED
    BY <2>1, <2>2 DEF TInv
<1>4. ASSUME NEW t \in Stages, Unlock(t) PROVE TInv'
  <2>1. TypeOK'
    BY <1>4, ThreadSets DEF Goto, Hold, LetGo, Aim, Unlock, TInv, TypeOK, PCs
  <2>2. HasUnit'
    BY <1>4, ThreadSets, StepHasUnit DEF Goto, Hold, LetGo, Unlock, PCs
  <2> QED
    BY <2>1, <2>2 DEF TInv
<1>5. ASSUME NEW t \in Stages, Read(t) PROVE TInv'
  <2>1. pipe[t] \in Seq(Unit) /\ pipe[t] # <<>> /\ SlotUnits \in Nat \ {0}
    BY <1>5, ThreadSets, PerProtocolAssumption DEF Read, TakeFrom, TInv, TypeOK
  <2>2. Head(pipe[t]) \in Unit /\ Tail(pipe[t]) \in Seq(Unit)
    BY <2>1
  <2>3. spent' \in [Pipes -> Nat]
    BY <1>5, <2>1, ThreadSets DEF Read, TakeFrom, TInv, TypeOK
  <2>4. TypeOK'
    BY <1>5, <2>2, <2>3, ThreadSets DEF Goto, Hold, LetGo, Aim, Read, TakeFrom, TInv, TypeOK, PCs
  <2>5. HasUnit'
    BY <1>5, <2>2, ThreadSets DEF Read, Goto, TInv, TypeOK, HasUnit
  <2> QED
    BY <2>4, <2>5 DEF TInv
<1>6. ASSUME NEW p \in ProtocolIds, SendDown(p) PROVE TInv'
  <2> DEFINE t == <<"send", p>>
  <2>1. t \in Stages /\ t \in Threads /\ <<"send", Lower(p)>> \in Pipes
    BY ThreadSets, GraphTypes
  <2>2. hand[t][1] \in Unit
    BY <1>6, <2>1 DEF SendDown, LockOwn, TInv, TypeOK, HasUnit
  <2>3. Encapsulate(p, hand[t][1]) \in Unit
    BY <2>2, EncapsulateType
  <2>4. TypeOK'
    <3>1. TypeOK /\ LockOwn(t) /\ Goto(t, "lock", "handoff")
      BY <1>6 DEF SendDown, TInv
    <3>2. /\ pc' \in [Threads -> PCs]
          /\ hand' \in [Threads -> Seq(Unit)]
          /\ dest' \in [Threads -> Pipes \cup {NoPipe}]
      BY <1>6, <2>1, <2>3, <3>1, ThreadStep DEF SendDown, PCs
    <3> QED
      BY <1>6, <2>1, <3>1, <3>2, LockOwnTypes DEF SendDown, TypeOK
  <2>5. HasUnit'
    BY <1>6, <2>1, ThreadSets, StepHasUnit DEF Goto, Hold, LetGo, SendDown, PCs, TInv, TypeOK
  <2> QED
    BY <2>4, <2>5 DEF TInv
<1>7. ASSUME NEW p \in ProtocolIds, PassUp(p) PROVE TInv'
  <2> DEFINE t == <<"recv", p>>
             hlp == hand[t][1].msg.hdrs[1].hlp
  <2>1. t \in Stages /\ t \in Threads
    BY ThreadSets
  <2>2. hand[t][1] \in Unit
    BY <1>7, <2>1 DEF PassUp, LockOwn, TInv, TypeOK, HasUnit
  <2>3. Strip(p, hand[t][1]) \in Unit
    BY <2>2, StripType
  <2>4. hlp \in Accepts(p) => <<"recv", hlp>> \in Pipes
    BY ThreadSets, GraphTypes
  <2>5. TypeOK'
    <3>1. TypeOK /\ LockOwn(t)
      BY <1>7 DEF PassUp, TInv
    <3>2. /\ pc' \in [Threads -> PCs]
          /\ hand' \in [Threads -> Seq(Unit)]
          /\ dest' \in [Threads -> Pipes \cup {NoPipe}]
      <4>1. CASE hlp \in Accepts(p)
        BY <1>7, <2>1, <2>3, <2>4, <3>1, <4>1, ThreadStep DEF PassUp, PCs
      <4>2. CASE hlp \notin Accepts(p)
        BY <1>7, <2>1, <3>1, <4>2, ThreadStep DEF PassUp, PCs, TypeOK
      <4> QED
        BY <4>1, <4>2
    <3> QED
      BY <1>7, <2>1, <3>1, <3>2, LockOwnTypes DEF PassUp, TypeOK
  <2>6. HasUnit'
    BY <1>7, <2>1, ThreadSets, StepHasUnit DEF Goto, Hold, LetGo, PassUp, PCs, TInv, TypeOK
  <2> QED
    BY <2>5, <2>6 DEF TInv
<1>8. ASSUME NEW a \in AppIds, AppReceive(a) PROVE TInv'
  <2> DEFINE t == <<"recv", a>>
  <2>1. a \in ProtocolIds /\ t \in Stages /\ t \in Threads
    BY ThreadSets, GraphTypes
  <2>2. hand[t][1] \in Unit
    BY <1>8, <2>1 DEF AppReceive, LockOwn, TInv, TypeOK, HasUnit
  <2>3. Strip(a, hand[t][1]) \in Unit /\ Number(hand[t][1].msg) \in Nat
    BY <2>1, <2>2, StripType DEF Unit, Message, Number, Own
  <2>4. TypeOK'
    <3>1. TypeOK /\ LockOwn(t) /\ Goto(t, "lock", "count")
      BY <1>8 DEF AppReceive, TInv
    <3>2. pc' \in [Threads -> PCs] /\ hand' \in [Threads -> Seq(Unit)]
      BY <1>8, <2>1, <2>3, <3>1, ThreadStep DEF AppReceive, PCs
    <3>3. delivered' \in [AppIds -> Seq(Nat)] /\ reg' \in [AppIds -> Nat]
      BY <1>8, <2>3, <3>1 DEF AppReceive, TypeOK
    <3> QED
      BY <1>8, <2>1, <3>1, <3>2, <3>3, LockOwnTypes DEF AppReceive, TypeOK
  <2>5. HasUnit'
    BY <1>8, <2>1, ThreadSets, StepHasUnit DEF Goto, Hold, LetGo, AppReceive, PCs, TInv, TypeOK
  <2> QED
    BY <2>4, <2>5 DEF TInv
<1>9. ASSUME NEW a \in AppIds, Count(a) PROVE TInv'
  <2> DEFINE t == <<"recv", a>>
  <2>1. a \in ProtocolIds /\ t \in Stages /\ t \in Threads
    BY ThreadSets, GraphTypes
  <2>2. TypeOK'
    BY <1>9, <2>1 DEF Goto, Hold, LetGo, Aim, Count, TInv, TypeOK, PCs
  <2>3. HasUnit'
    BY <1>9, <2>1, ThreadSets, StepHasUnit DEF Goto, Hold, LetGo, Count, PCs, TInv, TypeOK
  <2> QED
    BY <2>2, <2>3 DEF TInv
<1>10. ASSUME NEW a \in Apps, Compose(a) PROVE TInv'
  <2>1. a \in AppIds /\ App(a) \in Threads \ Stages /\ <<"send", a>> \in Pipes
    BY ThreadSets, GraphTypes, PerProtocolAssumption
  <2>2. PICK id \in UnitIds(a) :
           hand' = [hand EXCEPT ![App(a)] =
                      <<[id |-> id, msg |-> NewMessage(a, sent[a] + 1)]>>]
    BY <1>10 DEF Compose, Hold
  <2>3. NewMessage(a, sent[a] + 1) \in Message
    BY <2>1, PayloadAssumption DEF NewMessage, Message, TInv, TypeOK
  <2>4. id \in Nat
    BY <2>1 DEF UnitIds, AppIds, FTP_ID, TELNET_ID, RDP_ID, DNS_ID
  <2>5. [id |-> id, msg |-> NewMessage(a, sent[a] + 1)] \in Unit
    BY <2>3, <2>4 DEF Unit
  <2>6. TypeOK'
    BY <1>10, <2>1, <2>2, <2>5 DEF Goto, Hold, LetGo, Aim, Compose, TInv, TypeOK, PCs
  <2>7. HasUnit'
    <3>1. \A s \in Stages : hand'[s] = hand[s]
      BY <2>1, <2>2, ThreadSets DEF TInv, TypeOK
    <3> QED
      BY <1>10, <2>1, <3>1, StepHasUnit DEF Goto, Hold, LetGo, Compose, PCs
  <2> QED
    BY <2>6, <2>7 DEF TInv
<1>11. ASSUME EthSend PROVE TInv'
  <2> DEFINE t == <<"send", ETHERNET_ID>>
             m == Encapsulate(ETHERNET_ID, hand[t][1]).msg
  <2>1. ETHERNET_ID \in ProtocolIds /\ t \in Stages /\ t \in Threads
    BY ThreadSets DEF ETHERNET_ID, ProtocolIds
  <2>2. hand[t][1] \in Unit
    BY <1>11, <2>1 DEF EthSend, LockOwn, TInv, TypeOK, HasUnit
  <2>3. m \in Message
    BY <2>1, <2>2, EncapsulateType DEF Unit
  <2>4. net' \in Seq(Message)
    BY <1>11, <2>3 DEF EthSend, TInv, TypeOK
  <2>5. TypeOK'
    <3>1. TypeOK /\ LockOwn(t) /\ Goto(t, "lock", "unlock")
      BY <1>11 DEF EthSend, TInv
    <3>2. pc' \in [Threads -> PCs] /\ hand' \in [Threads -> Seq(Unit)]
      BY <1>11, <2>1, <3>1, ThreadStep DEF EthSend, PCs
    <3> QED
      BY <1>11, <2>1, <2>4, <3>1, <3>2, LockOwnTypes DEF EthSend, TypeOK
  <2>6. HasUnit'
    BY <1>11, <2>1, ThreadSets, StepHasUnit DEF Goto, Hold, LetGo, EthSend, PCs, TInv, TypeOK
  <2> QED
    BY <2>5, <2>6 DEF TInv
<1>12. ASSUME Receive PROVE TInv'
  <2>1. Listener \in Threads \ Stages /\ <<"recv", ETHERNET_ID>> \in Pipes
    BY ThreadSets DEF ETHERNET_ID, ProtocolIds
  <2>2. Head(net) \in Message /\ Tail(net) \in Seq(Message)
    BY <1>12 DEF Receive, TInv, TypeOK
  <2>3. [id |-> 0, msg |-> Head(net)] \in Unit
    BY <2>2 DEF Unit
  <2>4. TypeOK'
    BY <1>12, <2>1, <2>2, <2>3 DEF Goto, Hold, LetGo, Aim, Receive, TInv, TypeOK, PCs
  <2>5. HasUnit'
    <3>1. \A s \in Stages : hand'[s] = hand[s]
      BY <1>12, <2>1, ThreadSets DEF Receive, Hold, TInv, TypeOK
    <3> QED
      BY <1>12, <2>1, <3>1, StepHasUnit DEF Goto, Hold, LetGo, Receive, PCs
  <2> QED
    BY <2>4, <2>5 DEF TInv
<1>13. ASSUME NEW x \in Strays, Intrude(x[1], x[2]) PROVE TInv'
  <2>1. x[1] \in AppIds /\ x[2] \in 1..4 /\ strays + 1 \in Nat
    BY PerProtocolAssumption DEF TInv, TypeOK
  <2>2. Stray(x[1], x[2], strays + 1) \in Message
    BY <2>1, StrayType
  <2>3. net' \in Seq(Message)
    BY <1>13, <2>2 DEF Intrude, TInv, TypeOK
  <2>4. strays' \in 0..MaxStrays
    BY <1>13, <2>1, PerProtocolAssumption DEF Intrude, TInv, TypeOK
  <2>5. /\ UNCHANGED <<pc, hand, dest, pipe, spent, held, mCounter, reg, sent, delivered>>
        /\ TypeOK /\ HasUnit
    BY <1>13 DEF Intrude, TInv
  <2> QED
    BY <2>3, <2>4, <2>5 DEF TInv, TypeOK, HasUnit
<1>14. CASE UNCHANGED vars
  BY <1>14 DEF vars, TInv, TypeOK, HasUnit
<1> QED
  BY <1>1, <1>2, <1>3, <1>4, <1>5, <1>6, <1>7, <1>8, <1>9, <1>10, <1>11, <1>12, <1>13, <1>14
     DEF Next, Step, Writer, Stage, Wait

\* Every state of every instance is well typed: no thread works on a unit it has
\* not read, aims at a pipe there is not or dispatches to a protocol there is not.
THEOREM TypeCorrect == Spec => []TypeOK
<1>1. Spec => []TInv
  BY TInvInit, TInvStep, PTL DEF Spec
<1> QED
  BY <1>1, PTL DEF TInv

-----------------------------------------------------------------------------
(* Mutual exclusion, when every stage is in its read() before the traffic  *)
(* starts.  The mutex is locked whenever somebody is inside; no thread has *)
(* a first, unpaired unlock ahead of it; and no stage writes to the pipe it*)
(* reads, so that letting go of the next mutex never lets go of its own.   *)

LockInv ==
  /\ \A t \in Stages : pc[t] # "start" /\ dest[t] # t
  /\ \A q \in Pipes : \A t \in Inside(q) : held[q]
  /\ MutualExclusion

LInv == TInv /\ LockInv

\* A step of thread t, whatever it does itself, leaves the others where they are.
Only(t) ==
  /\ \A s \in Threads \ {t} : pc'[s] = pc[s] /\ dest'[s] = dest[s]
  /\ t \in Stages => pc'[t] # "start" /\ dest'[t] # t

\* t is not inside any mutex it was not inside of before, q's apart.
NoNewEntry(t, q) ==
  \A r \in Pipes \ {q} : t \in Inside(r)' => t \in Inside(r)

\* A thread's own step moves no other thread in or out of a mutex.
LEMMA OthersInside ==
  ASSUME NEW t \in Threads, Only(t), NEW s \in Threads \ {t}, NEW q \in Pipes
  PROVE  s \in Inside(q)' <=> s \in Inside(q)
  BY DEF Only, Inside

\* Only threads are inside mutexes.
LEMMA InsideThreads ==
  \A q \in Pipes : Inside(q) \subseteq Threads /\ Inside(q)' \subseteq Threads
  BY ThreadSets DEF Inside

\* A step that enters nothing.
LEMMA StepAround ==
  ASSUME LockInv, NEW t \in Threads, Only(t), held' = held, NoNewEntry(t, NoPipe)
  PROVE  LockInv'
<1>1. \A q \in Pipes : \A s \in Inside(q)' : s \in Inside(q)
  BY OthersInside, InsideThreads, ThreadSets DEF NoNewEntry
<1>2. \A s \in Stages : pc'[s] # "start" /\ dest'[s] # s
  BY ThreadSets DEF LockInv, Only
<1> QED
  BY <1>1, <1>2 DEF LockInv, MutualExclusion

\* A step that takes the free mutex q.
LEMMA StepInto ==
  ASSUME TypeOK, LockInv, NEW t \in Threads, Only(t), NEW q \in Pipes, ~held[q],
         held' = [held EXCEPT ![q] = TRUE], NoNewEntry(t, q)
  PROVE  LockInv'
<1>1. Inside(q) = {}
  BY DEF LockInv
<1>2. \A s \in Inside(q)' : s = t
  BY <1>1, OthersInside, InsideThreads
<1>3. \A r \in Pipes \ {q} : \A s \in Inside(r)' : s \in Inside(r)
  BY OthersInside, InsideThreads DEF NoNewEntry
<1>4. held'[q] /\ \A r \in Pipes \ {q} : held'[r] = held[r]
  BY DEF TypeOK
<1>5. \A s \in Stages : pc'[s] # "start" /\ dest'[s] # s
  BY ThreadSets DEF LockInv, Only
<1> QED
  BY <1>2, <1>3, <1>4, <1>5 DEF LockInv, MutualExclusion

\* A step that leaves the mutex q.
LEMMA StepOut ==
  ASSUME TypeOK, LockInv, NEW t \in Threads, Only(t), NEW q \in Pipes,
         t \in Inside(q), t \notin Inside(q)',
         held' = [held EXCEPT ![q] = FALSE], NoNewEntry(t, q)
  PROVE  LockInv'
<1>1. \A s \in Inside(q) : s = t
  BY DEF LockInv, MutualExclusion
<1>2. Inside(q)' = {}
  BY <1>1, OthersInside, InsideThreads
<1>3. \A r \in Pipes \ {q} : \A s \in Inside(r)' : s \in Inside(r)
  BY OthersInside, InsideThreads DEF NoNewEntry
<1>4. \A r \in Pipes \ {q} : held'[r] = held[r]
  BY DEF TypeOK
<1>5. \A s \in Stages : pc'[s] # "start" /\ dest'[s] # s
  BY ThreadSets DEF LockInv, Only
<1> QED
  BY <1>2, <1>3, <1>4, <1>5 DEF LockInv, MutualExclusion

\* With every stage past its first unlock nobody is inside and nothing is locked.
LEMMA LInvInit ==
  ASSUME Started = Stages, Init
  PROVE  LInv
<1>1. TInv
  BY TInvInit
<1>2. \A q \in Pipes : Inside(q) = {}
  BY ThreadSets DEF Init, Inside
<1>3. \A t \in Stages : pc[t] # "start" /\ dest[t] # t
  BY ThreadSets DEF Init
<1> QED
  BY <1>1, <1>2, <1>3 DEF LInv, LockInv, MutualExclusion

\* Every step keeps the mutexes' books: whoever is inside has it locked, alone.
LEMMA LInvStep == LInv /\ [Next]_vars => LInv'
<1> SUFFICES ASSUME LInv, [Next]_vars PROVE LInv'
  OBVIOUS
<1>0. TInv /\ TypeOK /\ LockInv /\ TInv'
  BY TInvStep DEF LInv, TInv
<1> SUFFICES LockInv'
  BY <1>0 DEF LInv
<1> USE <1>0
<1>1. ASSUME NEW t \in Threads, LockNext(t) PROVE LockInv'
  <2>1. CASE dest[t] \in Pipes
    <3>1. Only(t)
      BY <1>1, ThreadSets DEF LockNext, Goto, Only, TypeOK, LockInv
    <3>2. NoNewEntry(t, dest[t])
      BY <1>1 DEF LockNext, Goto, NoNewEntry, Inside, TypeOK
    <3> QED
      BY <1>1, <2>1, <3>1, <3>2, StepInto DEF LockNext
  <2>2. CASE dest[t] = NoPipe
    <3>1. Only(t)
      BY <1>1, ThreadSets DEF LockNext, Goto, Only, TypeOK, LockInv
    <3>2. NoNewEntry(t, NoPipe)
      BY <1>1, <2>2, ThreadSets DEF LockNext, Goto, NoNewEntry, Inside, TypeOK
    <3>3. held' = held
      BY <1>1, <2>2, ThreadSets DEF LockNext, TypeOK
    <3> QED
      BY <3>1, <3>2, <3>3, StepAround
  <2> QED
    BY <2>1, <2>2 DEF TypeOK
<1>2. ASSUME NEW t \in Threads, Write(t) PROVE LockInv'
  <2>1. Only(t)
    BY <1>2, ThreadSets DEF Write, Goto, Only, TypeOK, LockInv
  <2>2. NoNewEntry(t, NoPipe)
    BY <1>2 DEF Write, Goto, NoNewEntry, Inside, TypeOK
  <2> QED
    BY <1>2, <2>1, <2>2, StepAround DEF Write
<1>3. ASSUME NEW t \in Threads, Release(t) PROVE LockInv'
  <2>1. Only(t)
    BY <1>3, ThreadSets DEF Release, Resume, Goto, Aim, Only, TypeOK, LockInv
  <2>2. \A r \in Pipes : t \in Inside(r)' => t \in Inside(r) /\ r # dest[t]
    BY <1>3, ThreadSets DEF Release, Resume, Goto, Aim, Inside, TypeOK, LockInv
  <2>3. CASE dest[t] \in Pipes
    <3>1. t \in Inside(dest[t])
      BY <1>3 DEF Release, Goto, Inside
    <3> QED
      BY <1>3, <2>1, <2>2, <2>3, <3>1, StepOut DEF Release, NoNewEntry
  <2>4. CASE dest[t] = NoPipe
    <3>1. held' = held
      BY <1>3, <2>4, ThreadSets DEF Release, TypeOK
    <3> QED
      BY <2>1, <2>2, <3>1, StepAround DEF NoNewEntry
  <2> QED
    BY <2>3, <2>4 DEF TypeOK
<1>4. ASSUME NEW t \in Stages, Unlock(t) PROVE LockInv'
  <2>1. t \in Threads /\ t \in Pipes
    BY ThreadSets
  <2>2. Only(t)
    BY <1>4, <2>1 DEF Unlock, Goto, Only, TypeOK, LockInv
  <2>3. t \in Inside(t)
    BY <1>4, <2>1 DEF Unlock, Goto, Inside, LockInv
  <2>4. \A r \in Pipes : t \notin Inside(r)'
    BY <1>4, <2>1 DEF Unlock, Goto, Inside, TypeOK
  <2> QED
    BY <1>4, <2>1, <2>2, <2>3, <2>4, StepOut DEF Unlock, NoNewEntry
<1>5. ASSUME NEW t \in Stages, Read(t) PROVE LockInv'
  <2>1. t \in Threads /\ t \in Pipes
    BY ThreadSets
  <2>2. Only(t)
    BY <1>5, <2>1 DEF Read, Goto, Only, TypeOK, LockInv
  <2>3. NoNewEntry(t, NoPipe)
    BY <1>5, <2>1 DEF Read, Goto, NoNewEntry, Inside, TypeOK
  <2> QED
    BY <1>5, <2>1, <2>2, <2>3, StepAround DEF Read
<1>6. ASSUME NEW t \in Stages, LockOwn(t), NEW to \in PCs \ {"write", "release", "start"},
             Goto(t, "lock", to),
             UNCHANGED dest \/ \E q \in Pipes \ {t} : Aim(t, q)
      PROVE  LockInv'
  <2>1. t \in Threads /\ t \in Pipes
    BY ThreadSets
  <2>2. Only(t)
    BY <1>6, <2>1 DEF Goto, Aim, Only, TypeOK, LockInv
  <2>3. NoNewEntry(t, t)
    BY <1>6, <2>1 DEF Goto, NoNewEntry, Inside, TypeOK
  <2> QED
    BY <1>6, <2>1, <2>2, <2>3, StepInto DEF LockOwn
<1>7. ASSUME NEW p \in ProtocolIds, SendDown(p) PROVE LockInv'
  <2>1. <<"send", p>> \in Stages /\ <<"send", Lower(p)>> \in Pipes \ {<<"send", p>>}
    BY <1>7, ThreadSets, GraphTypes DEF SendDown
  <2> QED
    BY <1>6, <1>7, <2>1 DEF SendDown, PCs
<1>8. ASSUME NEW p \in ProtocolIds, PassUp(p) PROVE LockInv'
  <2>1. <<"recv", p>> \in Stages
    BY ThreadSets
  <2>2. \A h \in Accepts(p) : <<"recv", h>> \in Pipes \ {<<"recv", p>>}
    BY ThreadSets, GraphTypes
  <2> QED
    BY <1>6, <1>8, <2>1, <2>2 DEF PassUp, PCs
<1>9. ASSUME NEW a \in AppIds, AppReceive(a) PROVE LockInv'
  <2>1. <<"recv", a>> \in Stages
    BY ThreadSets, GraphTypes
  <2> QED
    BY <1>6, <1>9, <2>1 DEF AppReceive, PCs
<1>10. ASSUME EthSend PROVE LockInv'
  <2>1. <<"send", ETHERNET_ID>> \in Stages
    BY ThreadSets DEF ETHERNET_ID, ProtocolIds
  <2> QED
    BY <1>6, <1>10, <2>1 DEF EthSend, PCs
<1>11. ASSUME NEW a \in AppIds, Count(a) PROVE LockInv'
  <2> DEFINE t == <<"recv", a>>
  <2>1. t \in Stages /\ t \in Threads
    BY ThreadSets, GraphTypes
  <2>2. Only(t)
    BY <1>11, <2>1 DEF Count, Goto, Only, TypeOK, LockInv
  <2>3. NoNewEntry(t, NoPipe)
    BY <1>11, <2>1 DEF Count, Goto, NoNewEntry, Inside, TypeOK
  <2> QED
    BY <1>11, <2>1, <2>2, <2>3, StepAround DEF Count
<1>12. ASSUME NEW t \in Threads \ Stages, NEW from, Goto(t, from, "handoff"),
              held' = held, NEW q, Aim(t, q)
       PROVE  LockInv'
  <2>1. Only(t)
    BY <1>12, ThreadSets DEF Goto, Aim, Only, TypeOK, LockInv
  <2>2. NoNewEntry(t, NoPipe)
    BY <1>12, ThreadSets DEF Goto, Aim, NoNewEntry, Inside, TypeOK
  <2> QED
    BY <1>12, <2>1, <2>2, StepAround
<1>13. ASSUME NEW a \in Apps, Compose(a) PROVE LockInv'
  BY <1>12, <1>13, ThreadSets DEF Compose
<1>14. ASSUME Receive PROVE LockInv'
  BY <1>12, <1>14, ThreadSets DEF Receive
<1>15. ASSUME NEW x \in Strays, Intrude(x[1], x[2]) PROVE LockInv'
  BY <1>15 DEF Intrude, LockInv, MutualExclusion, Inside
<1>16. CASE UNCHANGED vars
  BY <1>16 DEF vars, LockInv, MutualExclusion, Inside
<1> QED
  BY <1>1, <1>2, <1>3, <1>4, <1>5, <1>7, <1>8, <1>9, <1>10, <1>11, <1>13, <1>14, <1>15, <1>16
     DEF Next, Step, Writer, Stage, Wait

\* At most one thread is between the lock and the unlock of a pipe's mutex,
\* provided every stage's first, unpaired unlock is over when traffic starts.
THEOREM Exclusion ==
  ASSUME Started = Stages
  PROVE  Spec => []MutualExclusion
<1>1. Init => LInv
  BY LInvInit
<1>2. Spec => []LInv
  BY <1>1, LInvStep, PTL DEF Spec
<1>3. LInv => MutualExclusion
  BY DEF LInv, LockInv
<1> QED
  BY <1>2, <1>3, PTL

-----------------------------------------------------------------------------
(* What may be in a pipe                                                   *)

\* A unit for the send stage of p: a message of this program, wrapped from the
\* layer above, whose id is what p puts into its header.
SendGood(p, u) ==
    /\ OnPath(u.msg, p) /\ WrappedFrom(u.msg, Depth(p) + 1)
    /\ Own(u.msg)
    /\ p \notin AppIds => u.id = Layers(u.msg.app)[Depth(p) + 1]

\* A message stripped of the layers below d, a stray only if there are strays of
\* its kind.
FromLayer(m, d) ==
    IF Own(m) THEN WrappedFrom(m, d)
    ELSE StrayFrom(m, d) /\ <<m.app, d + Len(m.hdrs) - 1>> \in Strays

\* A unit for the receive stage of p.
RecvGood(p, u) == OnPath(u.msg, p) /\ FromLayer(u.msg, Depth(p))

Good(q, u) == IF q[1] = "send" THEN SendGood(q[2], u) ELSE RecvGood(q[2], u)

\* A protocol on a message's path is one of its layers.
LEMMA OnPathLayer ==
  ASSUME NEW m \in Message, NEW p \in ProtocolIds
  PROVE  /\ Depth(p) \in 1..4
         /\ OnPath(m, p) => p = Layers(m.app)[Depth(p)]
         /\ \A d \in 1..4 : p = Layers(m.app)[d] => OnPath(m, p) /\ Depth(p) = d
<1>1. m.app \in AppIds /\ Depth(p) \in 1..4
  BY DEF Message, Depth
<1> QED
  BY <1>1, LayerGraph DEF OnPath

\* What a send stage makes of such a unit is one for the stage below.
LEMMA SendPasses ==
  ASSUME NEW p \in ProtocolIds, NEW u \in Unit, SendGood(p, u)
  PROVE  /\ p # ETHERNET_ID => SendGood(Lower(p), Encapsulate(p, u))
         /\ p = ETHERNET_ID => FromLayer(Encapsulate(p, u).msg, 1)
<1> DEFINE m == u.msg
           a == m.app
           d == Depth(p)
           h == HlpOf(p, u)
           v == Encapsulate(p, u)
<1>1. m \in Message /\ a \in AppIds /\ u.id \in Nat
  BY DEF Unit, Message
<1>2. d \in 1..4 /\ p = Layers(a)[d]
  BY <1>1, OnPathLayer DEF SendGood
<1>3. h \in Nat /\ (d < 4 => h = Layers(a)[d + 1])
  <2>1. p \in AppIds <=> d = 4
    BY <1>1, <1>2, LayerGraph
  <2>2. p \in AppIds => h = 0
    BY DEF HlpOf, Unset
  <2>3. p \notin AppIds => h = u.id /\ u.id = Layers(a)[d + 1]
    BY DEF HlpOf, SendGood
  <2> QED
    BY <1>1, <1>2, <2>1, <2>2, <2>3
<1>4. WrappedFrom(m, d + 1) /\ Own(m)
  BY DEF SendGood
<1>5. v.id = p /\ v.msg = AddHeader(m, p, h)
  BY DEF Encapsulate
<1> HIDE DEF v, h
<1>6. v.msg \in Message /\ v.msg.app = a /\ Own(v.msg)
  <2>1. AddHeader(m, p, h) \in Message /\ AddHeader(m, p, h).app = a /\ AddHeader(m, p, h).n = m.n
    BY <1>1, <1>3, AddHeaderType
  <2> QED
    BY <1>4, <1>5, <2>1 DEF Own
<1>7. WrappedFrom(v.msg, d)
  BY <1>1, <1>2, <1>3, <1>4, <1>5, WrapOne
<1> HIDE DEF d
<1>8. ASSUME p # ETHERNET_ID PROVE SendGood(Lower(p), v)
  <2>1. d > 1 /\ d - 1 \in 1..4 /\ Lower(p) = Layers(a)[d - 1] /\ Lower(p) \in ProtocolIds
    BY <1>1, <1>2, <1>8, LayerGraph, GraphTypes
  <2>2. OnPath(v.msg, Lower(p)) /\ Depth(Lower(p)) = d - 1
    BY <1>6, <2>1, OnPathLayer
  <2>3. Depth(Lower(p)) + 1 = d
    BY <1>2, <2>2
  <2>4. WrappedFrom(v.msg, Depth(Lower(p)) + 1)
    BY <1>7, <2>3
  <2>5. v.id = Layers(v.msg.app)[Depth(Lower(p)) + 1]
    BY <1>2, <1>5, <1>6, <2>3
  <2> QED
    BY <1>6, <2>2, <2>4, <2>5 DEF SendGood
<1>9. ASSUME p = ETHERNET_ID PROVE FromLayer(v.msg, 1)
  <2>1. Layers(a)[d] = ETHERNET_ID <=> d = 1
    BY <1>1, <1>2, LayerGraph
  <2>2. d = 1
    BY <1>2, <1>9, <2>1
  <2> QED
    BY <1>6, <1>7, <2>2 DEF FromLayer
<1> QED
  BY <1>8, <1>9 DEF v

\* What a receive stage passes on is for the stage it passes it to.
LEMMA RecvPasses ==
  ASSUME NEW p \in ProtocolIds, NEW u \in Unit, RecvGood(p, u), p \notin AppIds,
         u.msg.hdrs[1].hlp \in Accepts(p)
  PROVE  RecvGood(u.msg.hdrs[1].hlp, Strip(p, u))
<1> DEFINE m == u.msg
           a == m.app
           d == Depth(p)
           h == m.hdrs[1].hlp
           v == Strip(p, u)
<1>1. m \in Message /\ a \in AppIds
  BY DEF Unit, Message
<1>2. d \in 1..4 /\ p = Layers(a)[d] /\ d # 4
  BY <1>1, OnPathLayer, LayerGraph DEF RecvGood
<1>3. h \in ProtocolIds /\ h # Unset
  BY GraphTypes, UnsetRefused
<1>4. v.msg = StripHeader(m, p)
  BY DEF Strip
<1>5. v.msg \in Message /\ v.msg.app = a /\ (Own(v.msg) <=> Own(m))
  BY <1>1, <1>4, StripHeaderType DEF Own
<1> HIDE DEF v, d
<1>6. h = Layers(a)[d + 1] /\ FromLayer(v.msg, d + 1)
  <2>1. CASE ~Own(m)
    <3>1. StrayFrom(m, d) /\ <<a, d + Len(m.hdrs) - 1>> \in Strays
      BY <2>1 DEF RecvGood, FromLayer, d
    <3>2. /\ h = Layers(a)[d + 1] /\ StrayFrom(v.msg, d + 1)
          /\ Len(v.msg.hdrs) = Len(m.hdrs) - 1
      BY <1>1, <1>2, <1>3, <1>4, <3>1, StrayPasses
    <3>3. (d + 1) + Len(v.msg.hdrs) - 1 = d + Len(m.hdrs) - 1
      <4> DEFINE lm == Len(m.hdrs)
                 lv == Len(v.msg.hdrs)
      <4>1. lm \in Nat /\ lv = lm - 1 /\ d \in Nat
        BY <1>1, <1>2, <3>2 DEF Message
      <4> HIDE DEF lm, lv
      <4>2. (d + 1) + lv - 1 = d + lm - 1
        BY <4>1
      <4> QED
        BY <4>2 DEF lm, lv
    <3> QED
      BY <1>5, <2>1, <3>1, <3>2, <3>3 DEF FromLayer
  <2>2. CASE Own(m)
    <3>1. WrappedFrom(m, d)
      BY <2>2 DEF RecvGood, FromLayer, d
    <3>2. h = Layers(a)[d + 1] /\ WrappedFrom(v.msg, d + 1)
      BY <1>1, <1>2, <1>4, <3>1, UnwrapOne
    <3> QED
      BY <1>5, <2>2, <3>2 DEF FromLayer
  <2> QED
    BY <2>1, <2>2
<1>7. OnPath(v.msg, h) /\ Depth(h) = d + 1
  <2>1. d + 1 \in 1..4
    BY <1>2
  <2> QED
    BY <1>3, <1>5, <1>6, <2>1, OnPathLayer
<1>8. RecvGood(h, v)
  BY <1>6, <1>7 DEF RecvGood
<1> QED
  BY <1>8 DEF v

\* What an application hands to its own stage, and what the listener receives.
LEMMA EntersGood ==
  /\ \A a \in AppIds, n \in Nat \ {0}, id \in Nat :
        SendGood(a, [id |-> id, msg |-> NewMessage(a, n)])
  /\ \A m \in Message : FromLayer(m, 1) => RecvGood(ETHERNET_ID, [id |-> 0, msg |-> m])
<1>1. ASSUME NEW a \in AppIds, NEW n \in Nat \ {0}, NEW id \in Nat
      PROVE  SendGood(a, [id |-> id, msg |-> NewMessage(a, n)])
  <2>1. /\ NewMessage(a, n) \in Message /\ NewMessage(a, n).app = a
        /\ NewMessage(a, n).n = n /\ WrappedFrom(NewMessage(a, n), 5)
    BY NewMessageWrapped
  <2>2. a = Layers(a)[4] /\ a \in ProtocolIds
    BY LayerGraph, GraphTypes
  <2>3. OnPath(NewMessage(a, n), a) /\ Depth(a) = 4
    BY <2>1, <2>2, OnPathLayer
  <2> QED
    BY <2>1, <2>3 DEF SendGood, Own
<1>2. ASSUME NEW m \in Message, FromLayer(m, 1)
      PROVE  RecvGood(ETHERNET_ID, [id |-> 0, msg |-> m])
  <2>1. m.app \in AppIds /\ ETHERNET_ID \in ProtocolIds
    BY DEF Message, ETHERNET_ID, ProtocolIds
  <2>2. ETHERNET_ID = Layers(m.app)[1]
    BY DEF Layers
  <2>3. OnPath(m, ETHERNET_ID) /\ Depth(ETHERNET_ID) = 1
    BY <2>1, <2>2, OnPathLayer
  <2> QED
    BY <1>2, <2>3 DEF RecvGood
<1> QED
  BY <1>1, <1>2

-----------------------------------------------------------------------------
(* The inductive invariant: what is in a pipe, at a stage's hand, on its   *)
(* way into a pipe, and on the wire.                                       *)

InPipes == \A q \in Pipes : \A i \in 1..Len(pipe[q]) : Good(q, pipe[q][i])
AtHand  == \A t \in Stages : pc[t] = "lock" => Good(t, hand[t][1])
Carried == \A t \in Threads : pc[t] \in {"handoff", "write"} =>
               \A i \in 1..Len(hand[t]) : Good(dest[t], hand[t][i])
OnWire  == \A i \in 1..Len(net) : FromLayer(net[i], 1)

HInv == TInv /\ InPipes /\ AtHand /\ Carried /\ OnWire

\* One thread moves, with what it carries.
LEMMA HandsAfter ==
  ASSUME HInv, NEW t \in Threads, NEW to \in PCs, pc' = [pc EXCEPT ![t] = to],
         \A s \in Threads \ {t} : hand'[s] = hand[s] /\ dest'[s] = dest[s],
         to = "lock" => t \in Stages /\ Good(t, hand'[t][1]),
         to \in {"handoff", "write"} => \A i \in 1..Len(hand'[t]) : Good(dest'[t], hand'[t][i])
  PROVE  AtHand' /\ Carried'
<1>1. \A s \in Threads : pc'[s] = IF s = t THEN to ELSE pc[s]
  BY DEF HInv, TInv, TypeOK
<1>2. ASSUME NEW s \in Stages, pc'[s] = "lock" PROVE Good(s, hand'[s][1])
  <2>1. s \in Threads
    BY ThreadSets
  <2>2. CASE s = t
    BY <1>1, <1>2, <2>1, <2>2
  <2>3. CASE s # t
    BY <1>1, <1>2, <2>1, <2>3 DEF HInv, AtHand
  <2> QED
    BY <2>2, <2>3
<1>3. ASSUME NEW s \in Threads, pc'[s] \in {"handoff", "write"}, NEW i \in 1..Len(hand'[s])
      PROVE  Good(dest'[s], hand'[s][i])
  <2>1. CASE s = t
    BY <1>1, <1>3, <2>1
  <2>2. CASE s # t
    <3>1. pc[s] \in {"handoff", "write"} /\ hand'[s] = hand[s] /\ dest'[s] = dest[s]
      BY <1>1, <1>3, <2>2
    <3>2. i \in 1..Len(hand[s])
      BY <3>1
    <3> QED
      BY <3>1, <3>2 DEF HInv, Carried
  <2> QED
    BY <2>1, <2>2
<1> QED
  BY <1>2, <1>3 DEF AtHand, Carried

\* A thread that takes a good unit and aims at its pipe.
LEMMA HandOnAfter ==
  ASSUME HInv, NEW t \in Threads, NEW x, NEW q, Good(q, x),
         pc' = [pc EXCEPT ![t] = "handoff"],
         hand' = [hand EXCEPT ![t] = <<x>>], dest' = [dest EXCEPT ![t] = q]
  PROVE  AtHand' /\ Carried'
<1>1. hand \in [Threads -> Seq(Unit)] /\ dest \in [Threads -> Pipes \cup {NoPipe}]
  BY DEF HInv, TInv, TypeOK
<1>2. hand'[t] = <<x>> /\ dest'[t] = q
  BY <1>1
<1>3. \A i \in 1..Len(hand'[t]) : Good(dest'[t], hand'[t][i])
  <2>1. Len(<<x>>) = 1 /\ <<x>>[1] = x
    OBVIOUS
  <2>2. ASSUME NEW i \in 1..Len(hand'[t]) PROVE Good(dest'[t], hand'[t][i])
    <3>1. Len(hand'[t]) = 1
      BY <1>2, <2>1
    <3>2. i \in 1..1
      BY <3>1, Zenon
    <3>3. i = 1
      BY <3>2, SMT
    <3> QED
      BY <1>2, <2>1, <3>3
  <2> QED
    BY <2>2
<1>4. \A s \in Threads \ {t} : hand'[s] = hand[s] /\ dest'[s] = dest[s]
  BY <1>1
<1> QED
  BY <1>3, <1>4, HandsAfter DEF PCs

\* The initial states satisfy the invariant.
LEMMA HInvInit == Init => HInv
<1> SUFFICES ASSUME Init PROVE HInv
  OBVIOUS
<1>1. TInv
  BY TInvInit
<1>2. InPipes
  BY DEF Init, InPipes
<1>3. AtHand /\ Carried
  BY ThreadSets DEF Init, AtHand, Carried
<1>4. OnWire
  BY DEF Init, OnWire
<1> QED
  BY <1>1, <1>2, <1>3, <1>4 DEF HInv

\* Two sequences of good units, one behind the other.
LEMMA GoodConcat ==
  ASSUME NEW q, NEW s \in Seq(Unit), NEW r \in Seq(Unit),
         \A i \in 1..Len(s) : Good(q, s[i]), \A i \in 1..Len(r) : Good(q, r[i])
  PROVE  \A i \in 1..Len(s \o r) : Good(q, (s \o r)[i])
<1>1. /\ Len(s) \in Nat /\ Len(r) \in Nat /\ Len(s \o r) = Len(s) + Len(r)
      /\ \A i \in 1..(Len(s) + Len(r)) :
            (s \o r)[i] = IF i <= Len(s) THEN s[i] ELSE r[i - Len(s)]
  OBVIOUS
<1>2. \A i \in 1..(Len(s) + Len(r)) : i <= Len(s) \/ i - Len(s) \in 1..Len(r)
  BY <1>1
<1> QED
  BY <1>1, <1>2

\* The first of a sequence, and the others.
LEMMA TailShape ==
  ASSUME NEW T, NEW s \in Seq(T), s # <<>>
  PROVE  /\ 1 \in 1..Len(s) /\ Head(s) = s[1]
         /\ \A i \in 1..Len(Tail(s)) : Tail(s)[i] = s[i + 1] /\ i + 1 \in 1..Len(s)
  OBVIOUS

\* A datagram that joins those on the wire.
LEMMA OnWireGrows ==
  ASSUME OnWire, net \in Seq(Message), NEW m \in Message, FromLayer(m, 1),
         net' = Append(net, m)
  PROVE  OnWire'
<1>1. /\ Len(net') = Len(net) + 1 /\ Len(net) \in Nat
      /\ \A i \in 1..(Len(net) + 1) : net'[i] = IF i <= Len(net) THEN net[i] ELSE m
  OBVIOUS
<1> QED
  BY <1>1 DEF OnWire

\* Every step keeps the invariant.
LEMMA HInvStep == HInv /\ [Next]_vars => HInv'
<1> SUFFICES ASSUME HInv, [Next]_vars PROVE HInv'
  OBVIOUS
<1>0. TInv /\ TypeOK /\ TInv'
  BY TInvStep DEF HInv, TInv
<1>1. ASSUME NEW t \in Threads, LockNext(t) PROVE HInv'
  <2>1. UNCHANGED <<hand, dest, pipe, net>> /\ pc[t] = "handoff" /\ pc' = [pc EXCEPT ![t] = "write"]
    BY <1>1 DEF LockNext, Goto
  <2>2. \A i \in 1..Len(hand'[t]) : Good(dest'[t], hand'[t][i])
    BY <2>1 DEF HInv, Carried
  <2>3. AtHand' /\ Carried'
    BY <2>1, <2>2, HandsAfter DEF PCs
  <2> QED
    BY <1>0, <2>1, <2>3 DEF HInv, InPipes, OnWire
<1>2. ASSUME NEW t \in Threads, Write(t) PROVE HInv'
  <2>1. /\ UNCHANGED <<dest, net>> /\ pc[t] = "write" /\ pc' = [pc EXCEPT ![t] = "release"]
        /\ pipe' = [pipe EXCEPT ![dest[t]] = @ \o hand[t]]
        /\ hand' = [hand EXCEPT ![t] = <<>>]
    BY <1>2 DEF Write, Goto, LetGo
  <2>2. AtHand' /\ Carried'
    BY <1>0, <2>1, HandsAfter DEF PCs, TypeOK
  <2>3. ASSUME NEW q \in Pipes PROVE \A i \in 1..Len(pipe'[q]) : Good(q, pipe'[q][i])
    <3>1. CASE q = dest[t]
      <4>1. pipe'[q] = pipe[q] \o hand[t] /\ pipe[q] \in Seq(Unit) /\ hand[t] \in Seq(Unit)
        BY <1>0, <2>1, <3>1 DEF TypeOK
      <4>2. /\ \A i \in 1..Len(pipe[q]) : Good(q, pipe[q][i])
            /\ \A i \in 1..Len(hand[t]) : Good(q, hand[t][i])
        BY <2>1, <3>1 DEF HInv, InPipes, Carried
      <4> QED
        BY <4>1, <4>2, GoodConcat
    <3>2. CASE q # dest[t]
      <4>1. pipe'[q] = pipe[q]
        BY <1>0, <2>1, <3>2 DEF TypeOK
      <4> QED
        BY <4>1 DEF HInv, InPipes
    <3> QED
      BY <3>1, <3>2
  <2> QED
    BY <1>0, <2>1, <2>2, <2>3 DEF HInv, InPipes, OnWire
<1>3. ASSUME NEW t \in Threads, Release(t) PROVE HInv'
  <2>1. /\ UNCHANGED <<hand, pipe, net>> /\ dest' = [dest EXCEPT ![t] = NoPipe]
        /\ pc' = [pc EXCEPT ![t] = Resume(t)]
        /\ Resume(t) \in PCs /\ Resume(t) \notin {"lock", "handoff", "write"}
    BY <1>3 DEF Release, Goto, Aim, Resume, PCs
  <2>2. \A s \in Threads \ {t} : hand'[s] = hand[s] /\ dest'[s] = dest[s]
    BY <1>0, <2>1 DEF TypeOK
  <2>3. AtHand' /\ Carried'
    BY <2>1, <2>2, HandsAfter
  <2> QED
    BY <1>0, <2>1, <2>3 DEF HInv, InPipes, OnWire
<1>4. ASSUME NEW t \in Stages, Unlock(t) PROVE HInv'
  <2>1. UNCHANGED <<hand, dest, pipe, net>> /\ pc' = [pc EXCEPT ![t] = "read"] /\ t \in Threads
    BY <1>4, ThreadSets DEF Unlock, Goto
  <2>2. AtHand' /\ Carried'
    BY <2>1, HandsAfter DEF PCs
  <2> QED
    BY <1>0, <2>1, <2>2 DEF HInv, InPipes, OnWire
<1>5. ASSUME NEW t \in Stages, Read(t) PROVE HInv'
  <2>1. /\ UNCHANGED <<dest, net>> /\ pc' = [pc EXCEPT ![t] = "lock"]
        /\ pipe[t] # <<>> /\ pipe' = [pipe EXCEPT ![t] = Tail(@)]
        /\ hand' = [hand EXCEPT ![t] = <<Head(pipe[t])>>]
        /\ t \in Threads /\ t \in Pipes
    BY <1>5, ThreadSets DEF Read, Goto, TakeFrom
  <2>2. pipe[t] \in Seq(Unit) /\ pipe'[t] = Tail(pipe[t]) /\ hand'[t][1] = Head(pipe[t])
    BY <1>0, <2>1 DEF TypeOK
  <2>3. Good(t, hand'[t][1]) /\ \A i \in 1..Len(pipe'[t]) : Good(t, pipe'[t][i])
    BY <2>1, <2>2, TailShape DEF HInv, InPipes
  <2>4. AtHand' /\ Carried'
    BY <1>0, <1>5, <2>1, <2>3, HandsAfter DEF PCs, TypeOK
  <2>5. ASSUME NEW q \in Pipes \ {t} PROVE pipe'[q] = pipe[q]
    BY <1>0, <2>1 DEF TypeOK
  <2>6. InPipes'
    BY <2>3, <2>5 DEF HInv, InPipes
  <2> QED
    BY <1>0, <2>1, <2>4, <2>6 DEF HInv, OnWire
<1>6. ASSUME NEW p \in ProtocolIds, SendDown(p) PROVE HInv'
  <2> DEFINE t == <<"send", p>>
             u == hand[t][1]
  <2>1. /\ p # ETHERNET_ID /\ pc[t] = "lock" /\ pc' = [pc EXCEPT ![t] = "handoff"]
        /\ hand' = [hand EXCEPT ![t] = <<Encapsulate(p, u)>>]
        /\ dest' = [dest EXCEPT ![t] = <<"send", Lower(p)>>]
        /\ UNCHANGED <<pipe, net>>
        /\ t \in Stages /\ t \in Threads
    BY <1>6, ThreadSets DEF SendDown, LockOwn, Goto, Hold, Aim
  <2>2. u \in Unit /\ SendGood(p, u)
    <3>1. hand[t] # <<>> /\ hand[t] \in Seq(Unit) /\ Good(t, u)
      BY <1>0, <2>1 DEF HInv, AtHand, TInv, TypeOK, HasUnit
    <3> QED
      BY <3>1 DEF Good
  <2>3. SendGood(Lower(p), Encapsulate(p, u))
    BY <2>1, <2>2, SendPasses
  <2>4. Good(<<"send", Lower(p)>>, Encapsulate(p, u))
    BY <2>3 DEF Good
  <2>5. AtHand' /\ Carried'
    BY <2>1, <2>4, HandOnAfter
  <2> QED
    BY <1>0, <2>1, <2>5 DEF HInv, InPipes, OnWire
<1>7. ASSUME NEW p \in ProtocolIds, PassUp(p) PROVE HInv'
  <2> DEFINE t == <<"recv", p>>
             u == hand[t][1]
             h == u.msg.hdrs[1].hlp
  <2>1. /\ p \notin AppIds /\ pc[t] = "lock" /\ UNCHANGED <<pipe, net>>
        /\ t \in Stages /\ t \in Threads
    BY <1>7, ThreadSets DEF PassUp, LockOwn
  <2>2. u \in Unit /\ RecvGood(p, u)
    <3>1. hand[t] # <<>> /\ hand[t] \in Seq(Unit) /\ Good(t, u)
      BY <1>0, <2>1 DEF HInv, AtHand, TInv, TypeOK, HasUnit
    <3> QED
      BY <3>1 DEF Good
  <2>3. CASE h \in Accepts(p)
    <3>1. /\ pc' = [pc EXCEPT ![t] = "handoff"]
          /\ hand' = [hand EXCEPT ![t] = <<Strip(p, u)>>]
          /\ dest' = [dest EXCEPT ![t] = <<"recv", h>>]
      BY <1>7, <2>3 DEF PassUp, Goto, Hold, Aim
    <3>2. RecvGood(h, Strip(p, u))
      BY <2>1, <2>2, <2>3, RecvPasses
    <3>3. Good(<<"recv", h>>, Strip(p, u))
      BY <3>2 DEF Good
    <3>4. AtHand' /\ Carried'
      BY <2>1, <3>1, <3>3, HandOnAfter
    <3> QED
      BY <1>0, <2>1, <3>4 DEF HInv, InPipes, OnWire
  <2>4. CASE h \notin Accepts(p)
    <3>1. /\ pc' = [pc EXCEPT ![t] = "unlock"]
          /\ hand' = [hand EXCEPT ![t] = <<>>] /\ UNCHANGED dest
      BY <1>7, <2>4 DEF PassUp, Goto, LetGo
    <3>2. AtHand' /\ Carried'
      BY <1>0, <2>1, <3>1, HandsAfter DEF PCs, TypeOK
    <3> QED
      BY <1>0, <2>1, <3>2 DEF HInv, InPipes, OnWire
  <2> QED
    BY <2>3, <2>4
<1>8. ASSUME NEW a \in AppIds, AppReceive(a) \/ Count(a) PROVE HInv'
  <2> DEFINE t == <<"recv", a>>
  <2>1. /\ t \in Stages /\ t \in Threads /\ UNCHANGED <<dest, pipe, net>>
        /\ \E s : hand' = [hand EXCEPT ![t] = s]
        /\ \E to \in {"count", "unlock"} : pc' = [pc EXCEPT ![t] = to]
    BY <1>8, ThreadSets, GraphTypes DEF AppReceive, Count, LockOwn, Goto, Hold, LetGo
  <2>2. PICK to \in {"count", "unlock"} : pc' = [pc EXCEPT ![t] = to]
    BY <2>1
  <2>3. \A s \in Threads \ {t} : hand'[s] = hand[s] /\ dest'[s] = dest[s]
    BY <1>0, <2>1 DEF TypeOK
  <2>4. AtHand' /\ Carried'
    BY <2>1, <2>2, <2>3, HandsAfter DEF PCs
  <2> QED
    BY <1>0, <2>1, <2>4 DEF HInv, InPipes, OnWire
<1>9. ASSUME NEW a \in Apps, Compose(a) PROVE HInv'
  <2> DEFINE t == App(a)
  <2>1. /\ t \in Threads /\ a \in AppIds /\ UNCHANGED <<pipe, net>>
        /\ pc' = [pc EXCEPT ![t] = "handoff"] /\ dest' = [dest EXCEPT ![t] = <<"send", a>>]
    BY <1>9, ThreadSets, PerProtocolAssumption DEF Compose, Goto, Aim
  <2>2. PICK id \in UnitIds(a) :
           hand' = [hand EXCEPT ![t] = <<[id |-> id, msg |-> NewMessage(a, sent[a] + 1)]>>]
    BY <1>9 DEF Compose, Hold
  <2>3. id \in Nat /\ sent[a] + 1 \in Nat \ {0}
    BY <1>0, <2>1 DEF UnitIds, AppIds, FTP_ID, TELNET_ID, RDP_ID, DNS_ID, TypeOK
  <2>4. Good(<<"send", a>>, [id |-> id, msg |-> NewMessage(a, sent[a] + 1)])
    BY <2>1, <2>3, EntersGood DEF Good
  <2>5. AtHand' /\ Carried'
    BY <2>1, <2>2, <2>4, HandOnAfter
  <2> QED
    BY <1>0, <2>1, <2>5 DEF HInv, InPipes, OnWire
<1>10. ASSUME EthSend PROVE HInv'
  <2> DEFINE t == <<"send", ETHERNET_ID>>
             u == hand[t][1]
             m == Encapsulate(ETHERNET_ID, u).msg
  <2>1. /\ pc[t] = "lock" /\ pc' = [pc EXCEPT ![t] = "unlock"]
        /\ hand' = [hand EXCEPT ![t] = <<>>]
        /\ net' = (IF Len(net) < NetCap THEN Append(net, m) ELSE net)
        /\ UNCHANGED <<dest, pipe>>
    BY <1>10 DEF EthSend, LockOwn, Goto, LetGo
  <2>2. t \in Stages /\ t \in Threads /\ ETHERNET_ID \in ProtocolIds
    BY ThreadSets DEF ETHERNET_ID, ProtocolIds
  <2>3. u \in Unit /\ SendGood(ETHERNET_ID, u)
    <3>1. hand[t] # <<>> /\ hand[t] \in Seq(Unit) /\ Good(t, u)
      BY <1>0, <2>1, <2>2 DEF HInv, AtHand, TInv, TypeOK, HasUnit
    <3> QED
      BY <3>1 DEF Good
  <2>4. FromLayer(m, 1)
    BY <2>2, <2>3, SendPasses
  <2>5. OnWire'
    <3>1. net \in Seq(Message) /\ m \in Message
      BY <1>0, <2>2, <2>3, EncapsulateType DEF TypeOK, Unit
    <3> HIDE DEF m
    <3>2. CASE net' = Append(net, m)
      BY <2>4, <3>1, <3>2, OnWireGrows DEF HInv
    <3>3. CASE net' = net
      BY <3>3 DEF HInv, OnWire
    <3> QED
      BY <2>1, <3>2, <3>3 DEF m
  <2>6. AtHand' /\ Carried'
    BY <1>0, <2>1, <2>2, HandsAfter DEF PCs, TypeOK
  <2> QED
    BY <1>0, <2>1, <2>5, <2>6 DEF HInv, InPipes
<1>11. ASSUME Receive PROVE HInv'
  <2>1. /\ net # <<>> /\ net' = Tail(net) /\ UNCHANGED pipe /\ Listener \in Threads
        /\ pc' = [pc EXCEPT ![Listener] = "handoff"]
        /\ hand' = [hand EXCEPT ![Listener] = <<[id |-> 0, msg |-> Head(net)]>>]
        /\ dest' = [dest EXCEPT ![Listener] = <<"recv", ETHERNET_ID>>]
    BY <1>11, ThreadSets DEF Receive, Goto, Hold, Aim
  <2>2. net \in Seq(Message) /\ Head(net) \in Message
    BY <1>0, <2>1 DEF TypeOK
  <2>3. FromLayer(Head(net), 1) /\ OnWire'
    BY <2>1, <2>2, TailShape DEF HInv, OnWire
  <2>4. Good(<<"recv", ETHERNET_ID>>, [id |-> 0, msg |-> Head(net)])
    BY <2>2, <2>3, EntersGood DEF Good
  <2>5. AtHand' /\ Carried'
    BY <2>1, <2>4, HandOnAfter
  <2> QED
    BY <1>0, <2>1, <2>3, <2>5 DEF HInv, InPipes
<1>12. ASSUME NEW x \in Strays, Intrude(x[1], x[2]) PROVE HInv'
  <2> DEFINE m == Stray(x[1], x[2], strays + 1)
  <2>1. /\ x[1] \in AppIds /\ x[2] \in 1..4 /\ strays + 1 \in Nat
        /\ net \in Seq(Message)
    BY <1>0, PerProtocolAssumption DEF TypeOK
  <2>2. m \in Message /\ FromLayer(m, 1)
    <3>1. /\ m \in Message /\ StrayFrom(m, 1)
          /\ m.app = x[1] /\ Len(m.hdrs) = x[2]
      BY <2>1, StrayType, StrayArrives
    <3> HIDE DEF m
    <3>2. 1 + Len(m.hdrs) - 1 = x[2] /\ x = <<x[1], x[2]>>
      BY <2>1, <3>1, PerProtocolAssumption
    <3> QED
      BY <3>1, <3>2 DEF FromLayer, StrayFrom
  <2>3. net' = Append(net, m) /\ UNCHANGED <<pc, hand, dest, pipe>>
    BY <1>12 DEF Intrude
  <2> HIDE DEF m
  <2>4. OnWire'
    BY <2>1, <2>2, <2>3, OnWireGrows DEF HInv
  <2> QED
    BY <1>0, <2>3, <2>4 DEF HInv, InPipes, AtHand, Carried
<1>13. CASE UNCHANGED vars
  BY <1>0, <1>13 DEF vars, HInv, InPipes, AtHand, Carried, OnWire
<1> QED
  BY <1>1, <1>2, <1>3, <1>4, <1>5, <1>6, <1>7, <1>8, <1>9, <1>10, <1>11, <1>12, <1>13
     DEF Next, Step, Writer, Stage, Wait

\* Every stage reads only messages it is on the path of, with the headers its peer
\* put there in front, and of a stray datagram no more than it has headers.
THEOREM HeadersOfPeers == Spec => []PeerHeaders
<1>1. HInv => PeerHeaders
  <2> SUFFICES ASSUME HInv PROVE PeerHeaders
    OBVIOUS
  <2>1. ASSUME NEW q \in Stages, NEW u \in Incoming(q) PROVE Good(q, u)
    <3>1. pipe[q] \in Seq(Unit) /\ q \in Pipes
      BY ThreadSets DEF HInv, TInv, TypeOK
    <3> QED
      BY <2>1, <3>1 DEF Incoming, HInv, InPipes, AtHand
  <2>2. ASSUME NEW p \in ProtocolIds, NEW u \in Incoming(<<"send", p>>)
        PROVE  OnPath(u.msg, p) /\ WrappedFrom(u.msg, Depth(p) + 1)
    <3>1. Good(<<"send", p>>, u)
      BY <2>1, ThreadSets
    <3> QED
      BY <3>1 DEF Good, SendGood
  <2>3. ASSUME NEW p \in ProtocolIds, NEW u \in Incoming(<<"recv", p>>)
        PROVE  /\ OnPath(u.msg, p)
               /\ IF Own(u.msg) THEN WrappedFrom(u.msg, Depth(p))
                                ELSE u.msg.hdrs # <<>> /\ u.msg.hdrs[1].proto = p
    <3>1. OnPath(u.msg, p) /\ FromLayer(u.msg, Depth(p)) /\ u \in Unit
      <4>1. Good(<<"recv", p>>, u)
        BY <2>1, ThreadSets
      <4>2. u \in Unit
        <5> DEFINE q == <<"recv", p>>
        <5>1. q \in Threads /\ q \in Pipes /\ q \in Stages
          BY ThreadSets
        <5>2. pipe[q] \in Seq(Unit) /\ hand[q] \in Seq(Unit) /\ (pc[q] = "lock" => hand[q] # <<>>)
          BY <5>1 DEF HInv, TInv, TypeOK, HasUnit
        <5>3. /\ \A i \in DOMAIN pipe[q] : pipe[q][i] \in Unit
              /\ pc[q] = "lock" => hand[q][1] \in Unit
          BY <5>2
        <5> QED
          BY <5>3 DEF Incoming
      <4> QED
        BY <4>1, <4>2 DEF Good, RecvGood
    <3>2. CASE ~Own(u.msg)
      <4>1. StrayFrom(u.msg, Depth(p)) /\ p = Layers(u.msg.app)[Depth(p)] /\ Depth(p) \in 1..4
        BY <3>1, <3>2, OnPathLayer DEF FromLayer, Unit
      <4>2. Len(u.msg.hdrs) \in Nat /\ u.msg.hdrs # <<>> /\ 1 \in 1..Len(u.msg.hdrs)
        BY <3>1, <4>1 DEF StrayFrom, Unit, Message
      <4>3. u.msg.hdrs[1].proto = Layers(u.msg.app)[Depth(p) + 1 - 1] /\ Depth(p) + 1 - 1 = Depth(p)
        BY <4>1, <4>2 DEF StrayFrom
      <4> QED
        BY <3>1, <3>2, <4>1, <4>2, <4>3
    <3>3. CASE Own(u.msg)
      BY <3>1, <3>3 DEF FromLayer
    <3> QED
      BY <3>2, <3>3
  <2> QED
    BY <2>2, <2>3 DEF PeerHeaders
<1>2. Spec => []HInv
  BY HInvInit, HInvStep, PTL DEF Spec
<1> QED
  BY <1>1, <1>2, PTL
=============================================================================
