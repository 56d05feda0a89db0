# Verification of the process-per-protocol and process-per-message stacks

The repository implements one protocol graph twice. FTP and Telnet run over TCP,
RDP and DNS over UDP, both over IP, IP over Ethernet, and "Ethernet" is a UDP
socket to the other host. `PerProtocol.h` gives each protocol and direction a
thread of its own, linked by pipes; `PerMessage.h` lets one thread carry a
message through all protocols, on the receiving host a thread of a pool.
`SpeedTest.cc` sends 400 messages through each and times them. Underneath lie a
message library (`ourLibs/Message.h`) and a thread pool
(`newLibs/threadpool.cpp`).

This directory holds TLA+ models of these parts, TLC configurations that check
them on small instances, and TLAPS proofs for every instance. Section 4 says
where they found the code to differ from what the repository says of it.

## 1. Inventory

| part | state | operations | meets others through |
|---|---|---|---|
| `Headers.h` | none | layouts and ids | included by both stacks |
| `PerProtocol.h` | 16 pipes with a mutex each, 16 stage threads, 1 listener, `mCounter` | `msg_send`, `X_send`, `X_recv`, `msg_recv` | pipes carrying pointers to Messages, mutexes, a UDP socket, the global counter |
| `PerMessage.h` | a socket, a `ThreadPool(25)`, a listener, `rCounter` | `xSend`, `xRecv`, `listenOnSocket` | calls, `dispatch_thread`, UDP, the global counter |
| `udpUtils.h` | none | `udpSocket`, `getUdpMesg`, `sendUdp` | called by PerMessage |
| `ourLibs/Message.h` | a list of chunks, `m_MsgLen` | `msgAddHdr`, `msgStripHdr`, `msgSplit`, `msgJoin`, `msgFlat`, `msgLen` | used by both stacks |
| `newLibs/threadpool.cpp` | job queue, `availableThreads`, `terminate`, `cvLock`, `cv` | `dispatch_thread`, `thread_avail`, `execute`, destructor | used by PerMessage and by the event scheduler |
| `newLibs/eventscheduler.cpp` | heap of events, `numEvents`, `nextId`, `terminate`, a dispatcher thread | `eventSchedule`, `eventCancel`, `execute`, destructor | dispatches to a ThreadPool |
| `newLibs/message.cpp` | list of fields, `msglen` | as `ourLibs/Message.h` | `driver3` |
| `SpeedTest.cc` | phases of `main`, `text` | four sending loops per stack, a wait for each counter | drives both stacks, shares their counters |
| `newLibs/cj`, `ourLibs/ThreadPool*.h`, `ourLibs/EventScheduler.h` | earlier versions of pool and scheduler | | no program of the build includes them |

What is hard, and what makes each part correct:

* **PerProtocol.** A stage unlocks its own mutex, reads its pipe, locks the mutex
  again and keeps it while it processes the unit and writes it to the next pipe
  under that pipe's mutex. The mutexes must exclude; a full pipe must not stop
  the stack; a pointer handed on must not be used again; units of different
  applications share four stages and must come out where they belong, in order
  and once; every message that is not dropped must arrive; the counter must be
  the number of messages received.
* **PerMessage.** Datagrams go to any worker and overtake each other. None may be
  repeated, invented, lost after it has arrived, or given to the wrong
  application; the counter as above; the headers on the wire must be the ones
  the other stack expects, because the third phase of SpeedTest sends from
  PerMessage to PerProtocol.
* **Message.** A length is kept beside a list of chunks of any sizes, in a
  `size_t`, and an operation may cut at, before, in or beyond a chunk.
* **ThreadPool.** A condition variable with one notification per dispatch,
  spurious wakeups, a counter changed before and after a job, a flag read without
  the lock, a destructor.
* **EventScheduler.** As the pool, with deadlines, cancellation and a limit read
  without the lock.
* **SpeedTest.** Reads the counters of two stacks while their threads still run.

`PROJECT.json` lists the hazards one by one, at their lines.

## 2. Modules

| module | what it is |
|---|---|
| `Headers` | the protocol graph: ids, who is above whom, header sizes |
| `Packets` | a message with its headers by value and its text by length; `WrappedFrom`, the shape of a correctly wrapped message |
| `PerProtocol`, `MCPerProtocol` | the process-per-protocol stack |
| `LossyFifo` | what it promises an application |
| `PacketsProofs` | lemmas about adding and stripping headers |
| `PerProtocolProofs`, `FifoProofs` | theorems |
| `ThreadPool` | `newLibs/threadpool.cpp` |
| `JobServer` | what it promises its users |
| `ThreadPoolProofs` | theorems |
| `PerMessage`, `MCPerMessage` | the process-per-message stack, with `ThreadPool` inside |
| `LossyBag` | what it promises an application |
| `PerMessageProofs` | theorems |
| `MessageChunks` | `ourLibs/Message.h`, chunk by chunk |
| `FieldMessage` | `newLibs/message.cpp`, field by field |
| `MessageLibs` | the two message libraries behind one interface |
| `ByteStrings` | what a message library promises |
| `MessageLibsProofs` | theorems |
| `EventScheduler` | `newLibs/eventscheduler.cpp`, with `ThreadPool` inside |
| `Alarms` | what it promises its users |
| `EventSchedulerProofs` | theorems |
| `SpeedTest` | the phases of `SpeedTest.cc` over the two stacks |
| `SpeedTestProofs` | theorems |

Definitions whose comment starts with "Fault:" are not part of any
specification. Each is a variant of the definition that follows it with a bug a
programmer could have written there; putting it in the definition's place makes
TLC report the property named beside it in `PROJECT.json`, which shows that the
property can fail.

### PerProtocol

One direction is modelled: the two directions of an object share no pipe, mutex
or thread. `<<"send", p>>` and `<<"recv", p>>` name a stage, its pipe and its
mutex. A stage's loop is cut where it touches shared state: `Unlock`, `Read`,
then one of `SendDown`, `EthSend`, `PassUp`, `AppReceive` (which locks the own
mutex and processes the unit, all of it local), then `LockNext`, `Write`,
`Release`; `AppReceive` stops between the load and the store of `mCounter++`,
and `Count` is the store. Applications (`Compose`) and the listener (`Receive`)
hand on through the same three writing steps.

* A mutex is a Boolean without an owner: that is what unlocking somebody else's
  mutex does on Linux for the default type. `Started` names the stages that have
  passed their first `Unlock` when traffic starts; the others are at `"start"`.
* A pipe is a sequence of units in `PipeSlots` page slots of `SlotUnits` units. As
  on Linux a slot is free only when it has been read empty, so `spent` counts
  the units already read out of the oldest one.
* The network is the receive buffer of the listening socket: it drops what finds
  it full and keeps the order.
* The socket takes datagrams of any program (`Intrude`), at any time and between
  messages, `MaxStrays` in all. `Strays` says of which kinds: the path of some
  application, and how many headers on it are valid before one names no protocol;
  with four the datagram reaches the application like a message. Strays have
  numbers below zero, so that `InOrder` and the refinements tell them from messages
  (`Own`); an application's channel shows their text as 0.
* `delivered` is a history variable. `Wait` lets the finished system stutter, so
  that TLC's deadlock check finds everything else that stops.

### ThreadPool

What happens between locking and unlocking `cvLock` is one action: `Sleep`,
`Take`, `GiveBack`, `Dispatch`, `Terminate`. The test of `terminate` in the loop
condition is outside the lock and is the action `Check`. Waiting may end
without a notification (`WakeSpuriously`). Jobs are opaque.

### PerMessage

A sender shares nothing until `sendto`, so the chain from `ftpSend` to
`sendUdp` is one action, `Send`, whose datagram `Wrap` builds. The listener is
`Receive` and `HandOver`. A worker runs ThreadPool's own actions; what it
executes between `Take` and `Return` is `Deliver` (the chain from `ethernetRecv`
to an application up to the load of `rCounter`) and `Count` (the store).
`ethernetRecv` passes a message with a wrong `hlp` to IP, which then reads text
as a header: `HlpIn` allows any value there. Datagrams of other programs come in as
in PerProtocol. `Unwrapped` says of every datagram, whoever sent it, that its text
goes to the application its four valid headers name, and of the program's own that
it goes nowhere else; a wrong `hlp` in the Ethernet header is the one case in which
text may go anywhere.

### MessageChunks

Chunks are sequences of bytes, every byte handed in being a new number, so that
a byte lost, repeated or moved shows. Lengths wrap at `2^Width`; a negative
argument of `msgStripHdr` or `msgSplit` is converted like the code does it.
`AcrossChunks` says whether callers split beyond the first chunk.

### FieldMessage and MessageLibs

`newLibs/message.cpp` offers the same calls over a list of fields. `FieldMessage`
models every call for which the C++ is defined, wrong answers included: a field
that ends a header is neither copied nor removed, a header that spans fields
comes out as bytes of an uninitialised buffer (`Memory`), and a cut inside the
last field leaves one with freed bytes. `AnyCut` says whether callers strip and
split in these ways. `MessageLibs` is either library, chosen at the start and
kept: both use the same variables and are checked against `ByteStrings`.

### EventScheduler

What happens under `queueLock` is one action. `eventSchedule` is three: `Admit`
compares `numEvents` with `maxEvents` without a lock, `NewEvent` takes the id
and computes the deadline, `Push` inserts under the lock. That the id is taken and
the clock is read in one step loses nothing: between the two the caller holds only
an id nobody else knows, and a clock that goes on in between makes the deadline
one that a later start of the action gives. The dispatcher's loop
is `Check` (which reads `terminate` and `numEvents` without the lock), then
`Idle`, `HoldBack` or `Fire`, then `Dispatch`; a wait ends by `TimeOut`, by
`WakeSpuriously` or by the notification of `Push` and `Terminate`. The pool's
actions are those of `ThreadPool`.

Time is a clock of `Second` ticks to the second. A deadline is a pair of seconds
and ticks added field by field without a carry, as the constructor of `event`
does it, and `Later` compares it as `eventCompare` does. The heap is a set with
a front, which any choice among equal deadlines may be.

### SpeedTest

Each phase sends `Size` messages per application through a channel that may lose
some (that is what `LossyFifo` and `LossyBag` promise of the stacks), waits in
`Join` for the senders, then in `Leave` for `Threshold` of them to be counted.
Receiving threads are never stopped: those of phase 1 still take messages in
phase 3, in which `mCounter` is used again. `Load` and `Store` are the two halves
of `mCounter++` and `rCounter++`. `lost` counts what the phase main is in has lost:
messages the stack dropped, and increments undone by a late store. An increment is
charged to the phase whose counter it spoils (`CountsFor`): a thread of phase 1 that
stores its old value in phase 3 undoes increments of phase 3. `Look` is the turn of a waiting loop whose load
the compiler has taken out of the loop.

## 3. Runs

| run | bounds | result |
|---|---|---|
| `stack_order` | 1 application, 2 messages, 1 stray of 2 kinds, socket buffer 1, pipes of 2 units, 1 stage starting late | `TypeOK`, `CountedAll`, `InOrder`, `PeerHeaders`, `NoPipeStall` hold, refines `LossyFifo` |
| `stack_flow` | 2 applications over different transports, 1 message each, pipes of 1 unit, no loss, no strays | `PeerHeaders`, `MutualExclusion`, `AllReceived` hold |
| `stack_startup_race` | 1 message, a path of late stages | `MutualExclusion` fails |
| `stack_pipe_stall` | 5 messages, pipes of 1 slot of 2 units | `NoPipeStall` fails |
| `pool_pass` | 3 workers, 4 jobs of 2 kinds | `TypeOK`, `IdleCount`, `WorkConserving`, `JobsReturn` hold, refines `JobServer` |
| `pool_shutdown` | 2 workers, 2 jobs | `DestructorReturns` fails |
| `msg_pass` | 2 applications, 1 message each, 2 workers, 1 stray of 3 kinds | `TypeOK`, `WellFormed`, `Unwrapped`, `NeverAhead`, `ArrivedIsReceived` hold, refines `LossyBag` |
| `libs_pass` | either library, 2 messages, 4 bytes, 3 chunks, the cuts it handles | `LengthIsContent` holds, refines `ByteStrings` |
| `chunks_split` | `ourLibs`, all splits | `LengthIsContent` fails |
| `fields_strip` | `newLibs`, all calls | `LengthIsContent` fails |
| `sched_pass` | 2 callers, 3 events, a limit of 1, 5 clock readings with 3 ticks to the second, 1 worker | `TypeOK`, `WithinLimit`, `QueueCount`, `LessThanASecondLate`, `ScheduledRuns`, `DispatcherEnds` hold, refines `Alarms` |
| `speed_pass` | 2 applications, 2 messages each per phase, threshold 2 of 4, 1 pool worker | `TypeOK`, `NeverAhead`, `Accounted`, `FirstTwoPhases`, `ThirdPhaseIfDrained`, `MainEnds` hold |

Why the bounds are enough. The behaviours in question need two messages of an
application (to overtake or repeat one another), two applications that share
stages or workers, a pipe that can be full, a socket buffer that can be full, one
worker more than there are messages in hand. Each run has those of these that
its question needs. Protocol stages do the same whichever application a unit
belongs to, so the runs take the applications they differ on, one per transport
or one alone. For Message, three chunks are one before the cut, one in it and
one behind it, and four bytes let each be empty, short or long. For the
scheduler, two callers can both pass a limit of one, a third event finds it
exceeded, and with three ticks to the second a deadline of four ticks without a
carry is put in front of one of three; the clock stops at the last deadline. For
SpeedTest, a threshold of two of four leaves room for two losses, so that a late
store of a thread of phase 1 can undo more than one increment of phase 3 and a
message of phase 3 can be dropped besides; with room for one, a loss charged to the
wrong phase would not show. One pool worker is enough because the third phase, where
the counters are shared, has none. What the run shows of the counters (`Accounted`)
is proved for every size and threshold.

`stack_order` is at the boundary `EnoughRoom` draws: a full pipe of two pages of one
unit holds two, and with one unit at its reader and one at its writer a stall takes
four. Two messages and a stray make three, so a pipe does fill while its writer or its
reader holds a third, and a reader that did not take out what it reads would stall
the stack. The action
constraint `IntrudersWait` lets the stray come only once the late stage has run, a
bound of the state space and not of the code; before that the stage reads nothing, so
what came earlier waits in front of it as what comes afterwards does. The kinds of
strays are one that a transport refuses and one that reaches the application;
`msg_pass` has those refused further out.

What the less obvious properties say.

* `LessThanASecondLate`: deadlines are compared by fields that carry no second,
  so an event may be kept behind a later one; never behind one due a second
  later. That it happens at all is checked by hand: replacing `Second` by 1 in
  the property makes it fail.
* `WithinLimit`: the limit can be exceeded by one event for every caller but one.
* `ScheduledRuns`: an event in the heap is started unless it is cancelled or the
  pool is being destroyed. The scheduler's destructor waits until the heap is
  empty and then destroys the pool, which drops what it has not started.
* `NeverAhead` of `SpeedTest`: a counter never exceeds the messages it stands
  for, except that an increment of phase 1 under way during the reset writes
  the old value back (`torn`).
* `ThirdPhaseIfDrained`: the third phase waits for `Threshold` messages if none
  of the first was under way at the reset. Without that condition it is false:
  stragglers of phase 1 are counted for phase 3.
* `Accounted`: when a phase has drained, its counter misses no more messages than
  were dropped and undone. Each of the threads that share a counter may store an
  old value at any time, those of phase 1 in phase 3 included.
* `MainEnds`: main ends unless a phase it is in loses more messages and increments than
  `Total - Threshold`, whoever loses them, or the load has been hoisted.
* `Unwrapped`: see PerMessage above. It is stated of a worker that has just handed up
  a datagram (`Reached`), because a stray's text cannot be told from a message's
  once it is delivered.

Fairness. The stack is weakly fair as a whole (`WF_vars(Next)`): the kernel runs
some thread as long as one can run. Its runs send finitely many messages and no
thread can go round in a loop without consuming one, so nothing stronger is
needed. In the other modules every thread is weakly fair; in `EventScheduler`
the dispatcher's loop never stops going round, so the clock, the dispatcher, the
pool's workers and a destructor that has been called each have their own. What
nothing in the code makes happen has no fairness: spurious wakeups, sends,
dispatches, scheduling, cancelling, calling a destructor, hoisting a load. The
pool's liveness assumes besides that a dispatched function returns.

Deadlock is checked for both stacks. The runs of the pool, the scheduler and the
message libraries stop when their bounds are used up, SpeedTest when main has
ended or waits in vain, and switch the check off.

## 4. What the code does that the repository says it does not

* **A stage's first unlock** (`PerProtocol.h` 423, 457, 494, ...) is not paired with
  a lock. A stage that starts late lets a second thread in beside the writer.
  `stack_order` shows that messages survive this, because one `write` of a unit is
  atomic on a pipe. `stack_startup_race`.
* **A full pipe** stops the stack for good: the writer waits in `write` with the
  mutex its reader needs. `stack_pipe_stall`.
* **~ThreadPool** may wait for ever for a worker that tested `terminate` just
  before it was set. `pool_shutdown`.
* **msgSplit** beyond the first chunk subtracts the chunks before the cut from the
  second message's length twice. `chunks_split`.
* **msgStripHdr of newLibs** leaves a field that ends with the header in the
  message and takes its length off all the same. `newLibs/driver3.cc` strips
  inside a single field only. Its split at 50 of 133 does cut a field that is
  not the first, and `newLibs/TEST_OUTPUT` shows the outcome: the headers are in
  the wrong half. `fields_strip`.

Besides, without contradicting a line of the repository: `mCounter` and `rCounter`
are incremented by several threads without a lock and may end up too small. With
one application `mCounter` is exact (`CountedAll` in `stack_order`); otherwise
what holds is `NeverAhead`. SpeedTest waits for 390 of 400. A phase in which at most
ten messages and increments together are lost ends; one with more may wait for ever.
In the third phase one late store counts for as many as it undoes: a thread of the
first phase that was under way can spoil any number of them, so ten losses are not a
bound per thread or per phase's own messages. `int mCounter = 0` in the
constructor of `PerProtocol` declares a local variable and resets nothing; the
end time of the second phase is taken before main waits for its messages.

## 5. Proofs

The proof modules rest only on the named assumptions of the modules they extend.
Each theorem below holds for every value of the constants these allow.

`PerProtocolProofs`, for any applications, message counts, capacities and strays:

* `TypeCorrect`: `Spec => []TypeOK`. `TypeOK` is not inductive alone: a stage at
  `"lock"` uses the unit in its hand, so the invariant is `TInv`, `TypeOK` and
  `HasUnit` (a stage there has one).
* `Exclusion`: `Spec => []MutualExclusion` when `Started = Stages`. The invariant
  `LockInv` adds that whoever is inside a mutex has it locked, that no stage is
  about to make its unpaired unlock, and that a stage never writes to the pipe
  it reads, so that letting go of the next mutex is not letting go of its own. Without the
  assumption the statement is false (`stack_startup_race`).

`PacketsProofs` has what both stacks need of the headers: `WrapOne` (the header of
the next layer down, naming the layer above, keeps a message wrapped), `UnwrapOne`
(stripping undoes that, and the header found names the next layer up),
`LayerGraph` (who stands on whom) and the same for stray datagrams. The path of a
message has four layers, so a stack applies each lemma four times and no induction
is needed.
* `HeadersOfPeers`, for any `Started`: `Spec => []PeerHeaders`. A pipe is filled from a thread's hand
  and a hand from a pipe or the wire, so the invariant `HInv` says of each of
  them what it holds: `InPipes`, `AtHand` (read, not yet processed), `Carried`
  (processed, on its way into the pipe `dest`) and `OnWire`. It also has the
  id of a unit, which becomes the `hlp` of the next header, and what is left of
  a stray: never so many headers that an application would see it.

`FifoProofs`, for the same constants and any `Started`:

* `OrderKept`: `Spec => []InOrder`, and `StackIsLossyFifo`: `Spec => ImplementsLossyFifo`.
  `Tags` maps every filled place to the application and number of its message, and
  `Orderly` is what `InOrder` says, of such a map. A step moves at most one message,
  from the front of a place to behind all of its application one rank up: `Carry`
  proves that this keeps the order, `Put` (a hand fills a queue) and `Take` (a queue
  fills a hand) are its two forms, and a message that is lost, refused or received
  just leaves (`Stay`). That a rank has one holder for an application (`OneHolder`)
  comes from `HInv`: messages are only with threads on their path. The invariant
  `OInv` adds that a thread has one unit in hand exactly while it works on one
  (`Full`), aims at the next place of the path (`Onward`), and that what was
  received was sent. The mutexes play no part: the order holds in the start-up
  race too, where `MutualExclusion` does not. `Known` says which tags there can be:
  those of messages that were sent and of strays that have come. A stray moves like a
  message (`OneStray`: those of one number are for one application), but is dropped where a header names nobody or ends as text 0 (`Intrude` of
  `LossyFifo`) at the application its four headers name.
* `AllCounted`: with one application, and strays that reach no other, `Spec =>
  []CountedAll`. One thread alone increments `mCounter`; the invariant says what it has
  loaded.
* `CounterNotAhead`: with several, `mCounter` is never more than what was received
  (`NotAhead`); it may be less.
* `EnoughRoomNoStall`: `Spec => []NoPipeStall` under the hypothesis `EnoughRoom`,
  `MostInFlight <= (PipeSlots - 1) * SlotUnits + 2`. A pipe that has no free page holds
  more than `(PipeSlots - 1) * SlotUnits` units, however many were read out of its
  oldest page, and when it stalls its reader and its writer hold one more each.
  Every unit has a message or a stray of its own, so there are at most `MostInFlight`
  of them, `MaxStrays` more than the messages of the run. SpeedTest satisfies the
  hypothesis (400 messages; 16 pages of 256 units) unless 3443 strays come;
  `stack_order` satisfies it with equality; `stack_pipe_stall` does not, and stalls.

`ThreadPoolProofs`, for any finite set of workers, any jobs and any bound:

* `PoolInvariant` proves the inductive invariant `PoolInv`: types, `IdleCount`,
  `WorkConserving`, `started \o jobs = dispatched` and `returned +` busy workers
  `= Len(started)`. The last two give the refinement, the third its order.
  `OneMoves` and `MoveCounts` say how the number of workers at a place changes
  when one worker moves.
* `PoolTypes`, `PoolIdleCount`, `PoolWorkConserving` follow. `PoolServesInOrder` proves that
  `ThreadPool` implements `JobServer`.

`PerMessageProofs`, for any applications, message counts, workers, capacities and
strays:

* `MessageInvariant` proves `MInv`, from which `DatagramsWellFormed` (`WellFormed`),
  `CounterNeverAhead` (`NeverAhead`) and, with `Shown`, `TextsUnwrapped` (`Unwrapped`)
  follow: `Shown` says of a worker that counts a datagram that its text is with the
  application addressed, which later deliveries do not undo. A
  message is whole in the buffer, with the listener, in the queue and, which
  `WellFormed` does not say, in the hands of a worker that starts on it
  (`InHand`); `Counting` says that the value a worker is about to store was loaded
  when its own message was already received.
* `WrapIsWhole` and `UnwrapIsBare` are the chains of send and receive functions, the
  latter for messages and for strays.
* `StackRunsPool`: `Spec => Pool!Spec`. What is proved of `ThreadPool` holds of the
  pool inside the stack; `MessageTypes` (`TypeOK`) uses it for the pool's variables.
* `StackIsLossyBag`: `Spec => ImplementsLossyBag`. A message is in one place only (the
  socket buffer, the listener, the pool's queue, a worker, or received), and its
  number is one that was sent. A stray that reaches an application is `Intrude`, and
  by `UnwrapIsBare` that application is one of `Foreign`.

`EventSchedulerProofs`, for any events, workers, limits, timeouts and clock resolution:

* `EventInvariant` proves `EventInv`; `EventsCounted` (`QueueCount`),
  `EventsWithinLimit` (`WithinLimit`) and `EventsLessThanASecondLate`
  (`LessThanASecondLate`) follow. `QueueCount` needs to know that an event put into
  the heap is new there: `Numbered` (only ids handed out are anywhere, and the one a
  caller is about to put in is its own) and `Room` (there is an id left for every
  caller that has passed the test of the limit).
* `EventsAreAlarms`: the scheduler implements `Alarms`. It needs `Apart`: an id is at
  one place at a time, in the heap, cancelled, with the dispatcher, in the pool's
  queue or taken by a worker.
* `SchedulerRunsPool`, `SchedulerTypes` and `EventsHandedOnce`: the pool inside behaves as
  `ThreadPool`; `TypeOK`; no event is dispatched twice, from `Apart`.

`SpeedTestProofs`, for any applications, message counts, threshold and workers:

* `SpeedInvariant` proves `SpeedInv`; `CountersNeverAhead`, `FirstTwoPhasesHeard` and
  `ThirdPhaseHeard` follow. The invariant ties every value a counting thread has
  loaded to the messages received by then, and what main has seen to what has
  been received since it reset the counter.
* `CountersAccounted`: `Spec => []Accounted`. By `Ledger`, what the counter of the
  phase main is in shows, what was lost, the messages under way and the increments
  loaded and not yet stored come to at least what was sent in the phase. A late store
  of a thread of phase 1 that undoes increments of phase 3 adds them to what was lost
  in phase 3. `AllSent` says that a phase main is done sending in has sent them all.
* `SpeedTypes`: `Spec => []TypeOK`. That no channel holds more than `Total` needs the
  conservation law of each phase: what was received, is under way or can still be
  sent is at most `Total`.

`MessageLibsProofs`, for any messages, texts, headers, numbers of chunks and width
of a `size_t`, and both libraries:

* `LengthsRight`: `LibsSpec => []LengthIsContent`; `LibsAreByteStrings`:
  `LibsSpec => ImplementsByteStrings`; `BytesOnce`: no byte handed in is ever in two
  messages or twice in one. All three assume `~AcrossChunks`: the calls are those
  the libraries answer as they should (`ourLibs`: splits within the first chunk;
  `newLibs`: see `FieldMessage`). For other calls the first two are false
  (`chunks_split`, `fields_strip`). `FirstPartIs` and `SecondPartIs` show that the
  chunks of `ourLibs` are right for a split anywhere: only the length goes wrong.
* The invariant `LibInv` needs `Once` (`BytesOnce`) even for the lengths: two
  messages are joined by an addition in a `size_t`, which is exact only because the
  bytes of both are different ones and hence at most `MaxBytes` together.
* `FlattenConcat`, `FlattenType` and `FlattenAppend` say what flattening a list of
  chunks gives, for lists of every length; `CutIs` and `BehindIs` find the chunk a
  byte is in. They are inductions, written as a smallest counterexample
  (`Smallest`) because the induction theorems of the library cannot be used here.
  From them each call of either library is shown to be one of the `Effect`s of a
  string: `Added`, `Stripped`, `Halved`, `Joined`.
* The assumption `MaxBytes < 2 ^ Width - 1` came out of the proof: with one byte more a
  length of -1, converted to the largest `size_t`, would be the length of a message
  that fills the address space, and not refused.

Only model-checked: liveness (`AllReceived`, `JobsReturn`, `ArrivedIsReceived`,
`ScheduledRuns`, `DispatcherEnds`, `MainEnds`) and everything about ENABLED, which are
out of the prover's reach. Every invariant and every refinement that a passing
run checks is proved; `MutualExclusion`, `CountedAll`, `NoPipeStall`,
`LengthIsContent` and `ImplementsByteStrings` under the hypotheses named above,
without which they are false.

## 6. Not modelled

* Errors of `pthread_create`, `pipe`, `socket` and `bind`, which print or exit.
* Datagrams shorter than their headers, and a `recvfrom` that fails, for which
  `getUdpMesg` gives cause by passing an uninitialised address length: both stacks
  then dereference NULL or copy a negative length. The models take datagrams to
  be long enough and the length to be non-negative.
* The contents of `otherInfo` and of messages, printing, memory that is never
  freed, and a message joined to itself or split while it has no chunk.
* That `-O3` may drop the ends of SpeedTest's thread functions, which return no
  value, and the times it prints: differences of `tv_usec` without the seconds.
* `gethostbyname` in `sendUdp`, which returns one static `hostent` to all threads that
  send at once. They all look up "localhost", so whoever writes it writes the same
  bytes; the model has only the failure of a lookup, as a lost datagram.
* `thread_avail`, which changes nothing.
* `ThreadPool()` and `EventScheduler()` without a parameter, which construct a
  temporary and leave the object itself uninitialised; no program calls them.
* The calls of `newLibs/message.cpp` that throw, overrun a buffer or use an
  iterator of another list.
* `newLibs/cj` and `ourLibs/ThreadPool.h`, `ThreadPool_new.h`, `EventScheduler.h`:
  earlier versions that no file of the repository includes.
* The test programs, which are straight-line callers.

## 7. Plan

Done, in this order: `Headers` and `Packets`; `PerProtocol` with `LossyFifo`;
`ThreadPool` with `JobServer`; their proofs; `MessageChunks` with `ByteStrings`;
`PerMessage` with `LossyBag`; `EventScheduler` with `Alarms`; `SpeedTest`;
`FieldMessage` and `MessageLibs`; the proofs of `PeerHeaders`, of PerMessage, of
EventScheduler with the refinement of `Alarms`, and of SpeedTest; that PerProtocol
keeps the order and implements `LossyFifo`; that its counter is exact with one
application, and its pipes do not stall when they have room; the refinements of
`LossyBag` and `ByteStrings`; the types of every component and the pools inside.

Left, most important first:

1. The failing `recvfrom` and short datagrams, for which the text of a message
   has to be modelled inside the stacks.
2. The earlier pools and scheduler against `JobServer` and `Alarms`.
