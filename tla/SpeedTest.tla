----------------------------- MODULE SpeedTest -----------------------------
(***************************************************************************)
(* SpeedTest.cc: main times three phases, PerProtocol, PerMessage, and     *)
(* PerMessage to PerProtocol.  In each it lets four threads send SIZE      *)
(* messages, joins them, and waits for THRESHOLD messages to be counted by *)
(* the receiving threads.  The first and the third phase use the same      *)
(* counter, mCounter, and the receiving threads of a phase are never       *)
(* stopped.                                                                *)
(*                                                                         *)
(* Each stack is what its own module shows it to be: a channel that loses  *)
(* some messages and delivers the others once.                             *)
(***************************************************************************)
EXTENDS Integers, FiniteSets

CONSTANTS
    Apps,       \* the application protocols
    Size,       \* SIZE: messages each of them sends in a phase
    Threshold,  \* THRESHOLD: messages main waits for
    Workers     \* the threads of the receiving PerMessage's pool

Total == Size * Cardinality(Apps)

ASSUME SpeedTestAssumption ==
    /\ IsFiniteSet(Apps)
    /\ Apps # {}
    /\ Size \in Nat \ {0}
    /\ Threshold \in 1..Total
    /\ IsFiniteSet(Workers)
    /\ Workers # {}

Phases == 1..3

\* The threads that count: one per application in a PerProtocol, those of the
\* pool in a PerMessage.  They belong to the receiving object of a phase.
Counters == {<<p, a>> : p \in {1, 3}, a \in Apps} \cup {<<2, w>> : w \in Workers}
NoValue  == -1

VARIABLES
    phase,      \* what main is busy with; 4 when it has ended
    main,       \* "send" until the senders are joined, then "wait" or "spin"
    sent,       \* messages each application has sent in this phase
    flight,     \* messages under way, per phase and application
    mCounter,
    rCounter,
    reg,        \* the value a thread is incrementing
    received,   \* history: messages received in each phase
    lost,       \* history: messages and increments lost of the phase main is in
    late,       \* history: messages of phase 1 received since mCounter was reset
    torn        \* history: was an increment under way when mCounter was reset

traffic == <<sent, flight>>
counts  == <<mCounter, rCounter, reg>>
history == <<received, lost, late, torn>>
vars    == <<phase, main, traffic, counts, history>>

Init ==
    /\ phase = 1
    /\ main = "send"
    /\ sent = [a \in Apps |-> 0]
    /\ flight = [p \in Phases |-> [a \in Apps |-> 0]]
    /\ mCounter = 0
    /\ rCounter = 0
    /\ reg = [t \in Counters |-> NoValue]
    /\ received = [p \in Phases |-> 0]
    /\ lost = 0
    /\ late = 0
    /\ torn = FALSE

-----------------------------------------------------------------------------
(* The sending threads                                                     *)

\* One turn of a sending loop.  The stack may lose the message.
Send(a) ==
    /\ main = "send" /\ phase \in Phases
    /\ sent[a] < Size
    /\ sent' = [sent EXCEPT ![a] = @ + 1]
    /\ \/ flight' = [flight EXCEPT ![phase][a] = @ + 1] /\ UNCHANGED lost
       \/ lost' = lost + 1 /\ UNCHANGED flight
    /\ UNCHANGED <<phase, main, counts, received, late, torn>>

-----------------------------------------------------------------------------
(* main                                                                    *)

Counter(p) == IF p = 2 THEN rCounter ELSE mCounter

\* Fault: mCounter is set to 0 when the messages of the third phase are sent.
JoinResets ==
    /\ main = "send" /\ phase \in Phases
    /\ \A a \in Apps : sent[a] = Size
    /\ main' = "wait"
    /\ mCounter' = IF phase = 3 THEN 0 ELSE mCounter
    /\ UNCHANGED <<phase, traffic, rCounter, reg, history>>

\* pthread_join of the senders
Join ==
    /\ main = "send" /\ phase \in Phases
    /\ \A a \in Apps : sent[a] = Size
    /\ main' = "wait"
    /\ UNCHANGED <<phase, traffic, counts, history>>

\* A turn of the waiting loop that finds too few messages.  The counters are
\* neither atomic nor volatile: a build may take the load out of the loop, which
\* then never looks again.
Look ==
    /\ main = "wait"
    /\ Counter(phase) < Threshold
    /\ main' = "spin"
    /\ UNCHANGED <<phase, traffic, counts, history>>

Uncounted(p) == {t \in Counters : t[1] = p /\ reg[t] # NoValue}

\* Fault: mCounter is not set to 0 for the third phase.
ResetForgotten == UNCHANGED <<mCounter, late, torn>>

\* mCounter = 0, before the third phase
Reset ==
    /\ mCounter' = 0
    /\ late' = 0
    /\ torn' = (Uncounted(1) # {})

\* Fault: one message less will do.
LeaveEarly ==
    /\ main = "wait"
    /\ Counter(phase) >= Threshold - 1
    /\ phase' = phase + 1
    /\ main' = "send"
    /\ sent' = [a \in Apps |-> 0]
    /\ IF phase = 2 THEN Reset ELSE UNCHANGED <<mCounter, late, torn>>
    /\ lost' = 0
    /\ UNCHANGED <<flight, rCounter, reg, received>>

\* Fault: the threshold itself will not do.
LeaveLate ==
    /\ main = "wait"
    /\ Counter(phase) > Threshold
    /\ phase' = phase + 1
    /\ main' = "send"
    /\ sent' = [a \in Apps |-> 0]
    /\ IF phase = 2 THEN Reset ELSE UNCHANGED <<mCounter, late, torn>>
    /\ lost' = 0
    /\ UNCHANGED <<flight, rCounter, reg, received>>

\* The end of the waiting loop, and the start of the next phase
Leave ==
    /\ main = "wait"
    /\ Counter(phase) >= Threshold
    /\ phase' = phase + 1
    /\ main' = "send"
    /\ sent' = [a \in Apps |-> 0]
    /\ IF phase = 2 THEN Reset ELSE UNCHANGED <<mCounter, late, torn>>
    /\ lost' = 0
    /\ UNCHANGED <<flight, rCounter, reg, received>>

-----------------------------------------------------------------------------
(* The receiving threads; they end with main.                              *)

\* Fault: a read that returned nothing is counted, too.
LoadAnyway(t, a) ==
    LET p == t[1] IN
    /\ phase \in Phases
    /\ reg[t] = NoValue
    /\ flight' = [flight EXCEPT ![p][a] = @ - 1]
    /\ reg' = [reg EXCEPT ![t] = Counter(p)]
    /\ received' = [received EXCEPT ![p] = @ + 1]
    /\ late' = IF p = 1 /\ phase > 2 THEN late + 1 ELSE late
    /\ UNCHANGED <<phase, main, sent, mCounter, rCounter, lost, torn>>

\* A thread receives a message of application a and loads its counter, ...
Load(t, a) ==
    LET p == t[1] IN
    /\ phase \in Phases
    /\ reg[t] = NoValue
    /\ flight[p][a] > 0
    /\ flight' = [flight EXCEPT ![p][a] = @ - 1]
    /\ reg' = [reg EXCEPT ![t] = Counter(p)]
    /\ received' = [received EXCEPT ![p] = @ + 1]
    /\ late' = IF p = 1 /\ phase > 2 THEN late + 1 ELSE late
    /\ UNCHANGED <<phase, main, sent, mCounter, rCounter, lost, torn>>

\* The phase whose messages the counter of thread t stands for: mCounter is set
\* to 0 for the third phase, and the threads of the first go on counting in it.
CountsFor(t) == IF t[1] = 2 THEN 2 ELSE IF phase < 3 THEN 1 ELSE 3

\* Fault: the counter is incremented twice.
StoreTwice(t) ==
    LET p == t[1] IN
    /\ phase \in Phases
    /\ reg[t] # NoValue
    /\ IF p = 2 THEN rCounter' = reg[t] + 2 /\ UNCHANGED mCounter
                ELSE mCounter' = reg[t] + 2 /\ UNCHANGED rCounter
    /\ lost' = IF CountsFor(t) = phase THEN lost + Counter(p) - reg[t] ELSE lost
    /\ reg' = [reg EXCEPT ![t] = NoValue]
    /\ UNCHANGED <<phase, main, traffic, received, late, torn>>

\* ... and stores it: what other threads have counted in between is lost to the
\* phase that waits for it, whichever thread stores.
Store(t) ==
    LET p == t[1] IN
    /\ phase \in Phases
    /\ reg[t] # NoValue
    /\ IF p = 2 THEN rCounter' = reg[t] + 1 /\ UNCHANGED mCounter
                ELSE mCounter' = reg[t] + 1 /\ UNCHANGED rCounter
    /\ lost' = IF CountsFor(t) = phase THEN lost + Counter(p) - reg[t] ELSE lost
    /\ reg' = [reg EXCEPT ![t] = NoValue]
    /\ UNCHANGED <<phase, main, traffic, received, late, torn>>

\* Who receives the messages of application a in phase p
Takes(t, a) == t[1] = 2 \/ t[2] = a

-----------------------------------------------------------------------------
Main == Join \/ Look \/ Leave

Counting(t) == Store(t) \/ \E a \in Apps : Takes(t, a) /\ Load(t, a)

Next ==
    \/ Main
    \/ \E a \in Apps : Send(a)
    \/ \E t \in Counters : Counting(t)

Spec == Init /\ [][Next]_vars

\* The kernel runs main, the senders and the receiving threads.  Nothing makes a
\* build hoist the load.
Fairness ==
    /\ WF_vars(Join \/ Leave)
    /\ \A a \in Apps : WF_vars(Send(a))
    /\ \A t \in Counters : WF_vars(Counting(t))

FairSpec == Spec /\ Fairness

-----------------------------------------------------------------------------
(* Properties                                                              *)

\* The values the variables range over.
TypeOK ==
    /\ phase \in 1..4
    /\ main \in {"send", "wait", "spin"}
    /\ sent \in [Apps -> 0..Size]
    /\ flight \in [Phases -> [Apps -> 0..Size]]
    /\ mCounter \in Nat
    /\ rCounter \in Nat
    /\ reg \in [Counters -> Nat \cup {NoValue}]
    /\ received \in [Phases -> 0..Total]
    /\ lost \in Int
    /\ late \in Nat
    /\ torn \in BOOLEAN

\* However the increments of the receiving threads interleave, a counter never
\* exceeds the messages it stands for: those of phase 1 until it is reset, then
\* those of phase 3 and the stragglers of phase 1, provided none of these was
\* being counted while main set it to 0.
NeverAhead ==
    /\ rCounter <= received[2]
    /\ phase < 3 => mCounter <= received[1]
    /\ phase > 2 /\ ~torn => mCounter <= received[3] + late

\* main does not leave the first or the second phase before THRESHOLD messages
\* of it have been received.
FirstTwoPhases == [][phase < 3 /\ phase' # phase => received[phase] >= Threshold]_vars

\* Nor the third, if every message of the first phase had been counted or lost
\* when mCounter was set to 0.
ThirdPhaseIfDrained ==
    [][phase = 3 /\ phase' # phase /\ ~torn /\ late = 0 => received[3] >= Threshold]_vars

\* No message of phase p is under way or being counted.
Settled(p) == (\A a \in Apps : flight[p][a] = 0) /\ Uncounted(p) = {}

\* When all messages of a phase are sent and none is under way any more, the
\* counter main looks at misses no more of them than the stack dropped and the
\* unlocked increments, those of the first phase's threads included, undid.
Accounted ==
    phase \in Phases /\ main # "send" /\ Settled(phase) => Counter(phase) >= Total - lost

\* main ends unless more messages and increments of the phase it is in are lost
\* than THRESHOLD leaves room for, or the compiler has hoisted the load.
MainEnds == <>[](phase = 4 \/ main = "spin" \/ lost > Total - Threshold)
=============================================================================
