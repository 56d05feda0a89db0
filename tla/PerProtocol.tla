---------------------------- MODULE PerProtocol ----------------------------
(***************************************************************************)
(* The process-per-protocol stack of PerProtocol.h: one thread per protocol*)
(* and direction, linked by pipes that carry pointers to Messages.  The    *)
(* module follows one direction, from the applications of the sending host *)
(* down to its UDP socket and from the socket of the listening host up to  *)
(* its applications; the two directions of a PerProtocol object share no   *)
(* pipe, mutex or thread.                                                  *)
(*                                                                         *)
(* A thread that serves protocol p downwards (upwards) is <<"send", p>>    *)
(* (<<"recv", p>>) and so is the pipe it reads and that pipe's mutex.      *)
(***************************************************************************)
EXTENDS Packets

CONSTANTS
    Apps,        \* the application protocols that carry traffic
    MaxMsgs,     \* messages each application sends (SIZE in SpeedTest.cc)
    PipeSlots,   \* page slots of a pipe
    SlotUnits,   \* pipe_units that fit in one page slot
    NetCap,      \* datagrams the receiving socket's buffer can hold
    Strays,      \* kinds of datagrams of other programs: path and valid headers
    MaxStrays,   \* how many of them arrive at most
    Started      \* stages already blocked in read() when the traffic starts

Stages    == {"send", "recv"} \X ProtocolIds
Pipes     == Stages
App(a)    == <<"app", a>>
Listener  == <<"listen", 0>>
Threads   == Stages \cup {App(a) : a \in Apps} \cup {Listener}
NoPipe    == <<"none", 0>>

ASSUME PerProtocolAssumption ==
    /\ Apps \subseteq AppIds
    /\ Apps # {}
    /\ MaxMsgs \in Nat \ {0}
    /\ PipeSlots \in Nat \ {0}
    /\ SlotUnits \in Nat \ {0}
    /\ NetCap \in Nat \ {0}
    /\ Strays \subseteq AppIds \X (1..4)
    /\ MaxStrays \in Nat
    /\ Started \subseteq Stages

VARIABLES
    pc,         \* where each thread is in its loop
    hand,       \* the unit a thread is working on: <<>> or <<unit>>
    dest,       \* the pipe a thread is about to write to
    pipe,       \* the units in each pipe
    spent,      \* units already read out of a pipe's oldest page slot
    held,       \* is a pipe's mutex locked (pthread mutexes record no owner)
    net,        \* the receive buffer of the listening UDP socket
    strays,     \* datagrams of other programs that have come into it
    mCounter,   \* the global counter of received messages
    reg,        \* the value of mCounter an application thread is incrementing
    sent,       \* messages composed so far, per application
    delivered   \* history: numbers of the messages received, per application

vars == <<pc, hand, dest, pipe, spent, held, net, strays, mCounter, reg, sent, delivered>>

-----------------------------------------------------------------------------
\* Units: what a pipe carries, a protocol id and a pointer to a Message

Unit == [id : Nat, msg : Message]

\* The ids application threads put in a unit: msg_send uses the protocol's own,
\* SpeedTest.cc puts 5 in those of DNS and RDP as well.
UnitIds(a) == IF a \in {DNS_ID, RDP_ID} THEN {a, FTP_ID} ELSE {a}

\* malloc leaves hlp of an application header as it finds it; nothing reads it.
HlpOf(p, u) == IF p \in AppIds THEN Unset ELSE u.id

\* Fault: the unit passed down keeps the id it came with.
EncapsulateKeepsId(p, u) == [id |-> u.id, msg |-> AddHeader(u.msg, p, HlpOf(p, u))]

\* What the send thread of p makes of the unit it read.
Encapsulate(p, u) == [id |-> p, msg |-> AddHeader(u.msg, p, HlpOf(p, u))]

\* What the receive thread of p makes of the unit it read.
Strip(p, u) == [id |-> p, msg |-> StripHeader(u.msg, p)]

-----------------------------------------------------------------------------
\* Pipes

\* A Linux pipe is a ring of page slots, and a slot is free again only when
\* everything in it has been read.
Room(q) == spent[q] + Len(pipe[q]) < PipeSlots * SlotUnits

TakeFrom(q) ==
    /\ pipe[q] # <<>>
    /\ pipe' = [pipe EXCEPT ![q] = Tail(@)]
    /\ spent' = [spent EXCEPT ![q] = IF Len(pipe[q]) = 1 THEN 0
                                     ELSE (@ + 1) % SlotUnits]

-----------------------------------------------------------------------------
Init ==
    /\ pc = [t \in Threads |-> IF t \in Started THEN "read"
                               ELSE IF t \in Stages THEN "start"
                               ELSE IF t = Listener THEN "recvfrom"
                               ELSE "compose"]
    /\ hand = [t \in Threads |-> <<>>]
    /\ dest = [t \in Threads |-> NoPipe]
    /\ pipe = [q \in Pipes |-> <<>>]
    /\ spent = [q \in Pipes |-> 0]
    /\ held = [q \in Pipes |-> FALSE]
    /\ net = <<>>
    /\ strays = 0
    /\ mCounter = 0
    /\ reg = [a \in AppIds |-> 0]
    /\ sent = [a \in Apps |-> 0]
    /\ delivered = [a \in AppIds |-> <<>>]

Goto(t, from, to) ==
    /\ pc[t] = from
    /\ pc' = [pc EXCEPT ![t] = to]

Hold(t, u) == hand' = [hand EXCEPT ![t] = <<u>>]
LetGo(t)   == hand' = [hand EXCEPT ![t] = <<>>]
Aim(t, q)  == dest' = [dest EXCEPT ![t] = q]

-----------------------------------------------------------------------------
(* Writing a unit: lock the pipe's mutex, write, unlock.  Applications, the *)
(* listener and the stages all write this way.                              *)

\* Fault: the writer does not wait for the mutex.
LockNextBarges(t) ==
    /\ Goto(t, "handoff", "write")
    /\ held' = [held EXCEPT ![dest[t]] = TRUE]
    /\ UNCHANGED <<hand, dest, pipe, spent, net, strays, mCounter, reg, sent, delivered>>

LockNext(t) ==
    /\ Goto(t, "handoff", "write")
    /\ ~held[dest[t]]
    /\ held' = [held EXCEPT ![dest[t]] = TRUE]
    /\ UNCHANGED <<hand, dest, pipe, spent, net, strays, mCounter, reg, sent, delivered>>

\* Fault: the new unit is put in front of those waiting.
WriteInFront(t) ==
    /\ Goto(t, "write", "release")
    /\ Room(dest[t])
    /\ pipe' = [pipe EXCEPT ![dest[t]] = hand[t] \o @]
    /\ LetGo(t)
    /\ UNCHANGED <<dest, spent, held, net, strays, mCounter, reg, sent, delivered>>

Write(t) ==
    /\ Goto(t, "write", "release")
    /\ Room(dest[t])
    /\ pipe' = [pipe EXCEPT ![dest[t]] = @ \o hand[t]]
    /\ LetGo(t)
    /\ UNCHANGED <<dest, spent, held, net, strays, mCounter, reg, sent, delivered>>

\* Back to the top of the thread's loop.
Resume(t) == IF t \in Stages THEN "unlock"
             ELSE IF t = Listener THEN "recvfrom" ELSE "compose"

Release(t) ==
    /\ Goto(t, "release", Resume(t))
    /\ held' = [held EXCEPT ![dest[t]] = FALSE]
    /\ Aim(t, NoPipe)
    /\ UNCHANGED <<hand, pipe, spent, net, strays, mCounter, reg, sent, delivered>>

-----------------------------------------------------------------------------
(* Application threads and the thread that listens on the socket.          *)

Compose(a) ==
    /\ Goto(App(a), "compose", "handoff")
    /\ sent[a] < MaxMsgs
    /\ sent' = [sent EXCEPT ![a] = @ + 1]
    /\ \E id \in UnitIds(a) :
          Hold(App(a), [id |-> id, msg |-> NewMessage(a, sent[a] + 1)])
    /\ Aim(App(a), <<"send", a>>)
    /\ UNCHANGED <<pipe, spent, held, net, strays, mCounter, reg, delivered>>

\* Fault: the listener passes the bare Message on, not a pipe_unit.
ReceiveBare ==
    /\ Goto(Listener, "recvfrom", "handoff")
    /\ net # <<>>
    /\ Hold(Listener, Head(net))
    /\ net' = Tail(net)
    /\ Aim(Listener, <<"recv", ETHERNET_ID>>)
    /\ UNCHANGED <<pipe, spent, held, strays, mCounter, reg, sent, delivered>>

\* Fault: recvfrom only peeks, so that one datagram is received time and again.
ReceivePeeks ==
    /\ Goto(Listener, "recvfrom", "handoff")
    /\ net # <<>>
    /\ Hold(Listener, [id |-> 0, msg |-> Head(net)])
    /\ Aim(Listener, <<"recv", ETHERNET_ID>>)
    /\ UNCHANGED <<net, pipe, spent, held, strays, mCounter, reg, sent, delivered>>

Receive ==
    /\ Goto(Listener, "recvfrom", "handoff")
    /\ net # <<>>
    /\ Hold(Listener, [id |-> 0, msg |-> Head(net)])
    /\ net' = Tail(net)
    /\ Aim(Listener, <<"recv", ETHERNET_ID>>)
    /\ UNCHANGED <<pipe, spent, held, strays, mCounter, reg, sent, delivered>>

\* Another program sends a datagram to the port the listener is bound to.
Intrude(a, d) ==
    /\ strays < MaxStrays
    /\ Len(net) < NetCap
    /\ net' = Append(net, Stray(a, d, strays + 1))
    /\ strays' = strays + 1
    /\ UNCHANGED <<pc, hand, dest, pipe, spent, held, mCounter, reg, sent, delivered>>

-----------------------------------------------------------------------------
(* The loop of a stage: unlock the own mutex, read without it, lock it and *)
(* keep it while the unit is processed and handed on.                      *)

\* Fault: the loop does not release its mutex before it reads.
UnlockForgotten(t) ==
    /\ Goto(t, "start", "read") \/ Goto(t, "unlock", "read")
    /\ UNCHANGED <<held, hand, dest, pipe, spent, net, strays, mCounter, reg, sent, delivered>>

\* The first iteration unlocks a mutex the thread never locked: on Linux that
\* frees it, whoever holds it.
Unlock(t) ==
    /\ Goto(t, "start", "read") \/ Goto(t, "unlock", "read")
    /\ held' = [held EXCEPT ![t] = FALSE]
    /\ UNCHANGED <<hand, dest, pipe, spent, net, strays, mCounter, reg, sent, delivered>>

Read(t) ==
    /\ Goto(t, "read", "lock")
    /\ TakeFrom(t)
    /\ hand' = [hand EXCEPT ![t] = <<Head(pipe[t])>>]
    /\ UNCHANGED <<dest, held, net, strays, mCounter, reg, sent, delivered>>

LockOwn(t) ==
    /\ pc[t] = "lock"
    /\ ~held[t]
    /\ held' = [held EXCEPT ![t] = TRUE]
    /\ UNCHANGED <<pipe, spent, sent>>

\* FTP_send, tel_send, RDP_send, DNS_send, TCP_send, UDP_send and IP_send
SendDown(p) ==
    LET t == <<"send", p>> IN
    /\ p # ETHERNET_ID
    /\ LockOwn(t)
    /\ Goto(t, "lock", "handoff")
    /\ Hold(t, Encapsulate(p, hand[t][1]))
    /\ Aim(t, <<"send", Lower(p)>>)
    /\ UNCHANGED <<net, strays, mCounter, reg, delivered>>

\* eth_send: a datagram that finds the socket buffer full is lost
EthSend ==
    LET t == <<"send", ETHERNET_ID>>
        m == Encapsulate(ETHERNET_ID, hand[t][1]).msg IN
    /\ LockOwn(t)
    /\ Goto(t, "lock", "unlock")
    /\ net' = IF Len(net) < NetCap THEN Append(net, m) ELSE net
    /\ LetGo(t)
    /\ UNCHANGED <<dest, strays, mCounter, reg, delivered>>

\* Fault: UDP takes what it does not know for RDP.
PassUpByDefault(p) ==
    LET t   == <<"recv", p>>
        hlp == hand[t][1].msg.hdrs[1].hlp
        up  == IF p = UDP_ID /\ hlp # DNS_ID THEN RDP_ID ELSE hlp IN
    /\ p \notin AppIds
    /\ LockOwn(t)
    /\ \/ /\ up \in Accepts(p)
          /\ Goto(t, "lock", "handoff")
          /\ Hold(t, Strip(p, hand[t][1]))
          /\ Aim(t, <<"recv", up>>)
       \/ /\ up \notin Accepts(p)
          /\ Goto(t, "lock", "unlock")
          /\ LetGo(t)
          /\ UNCHANGED dest
    /\ UNCHANGED <<net, strays, mCounter, reg, delivered>>

\* eth_recv, IP_recv, TCP_recv and UDP_recv: demultiplex on hlp, refuse the rest
PassUp(p) ==
    LET t   == <<"recv", p>>
        hlp == hand[t][1].msg.hdrs[1].hlp IN
    /\ p \notin AppIds
    /\ LockOwn(t)
    /\ \/ /\ hlp \in Accepts(p)
          /\ Goto(t, "lock", "handoff")
          /\ Hold(t, Strip(p, hand[t][1]))
          /\ Aim(t, <<"recv", hlp>>)
       \/ /\ hlp \notin Accepts(p)
          /\ Goto(t, "lock", "unlock")
          /\ LetGo(t)
          /\ UNCHANGED dest
    /\ UNCHANGED <<net, strays, mCounter, reg, delivered>>

\* FTP_recv, tel_recv, RDP_recv and DNS_recv up to the load of mCounter++
AppReceive(a) ==
    LET t == <<"recv", a>> IN
    /\ LockOwn(t)
    /\ Goto(t, "lock", "count")
    /\ Hold(t, Strip(a, hand[t][1]))
    /\ delivered' = [delivered EXCEPT ![a] = Append(@, Number(hand[t][1].msg))]
    /\ reg' = [reg EXCEPT ![a] = mCounter]
    /\ UNCHANGED <<dest, net, strays, mCounter>>

\* Fault: the value stored is the one loaded.
CountNothing(a) ==
    LET t == <<"recv", a>> IN
    /\ Goto(t, "count", "unlock")
    /\ mCounter' = reg[a]
    /\ reg' = [reg EXCEPT ![a] = 0]
    /\ LetGo(t)
    /\ UNCHANGED <<dest, pipe, spent, held, net, strays, sent, delivered>>

\* ... and its store: the four application threads share mCounter and no lock
Count(a) ==
    LET t == <<"recv", a>> IN
    /\ Goto(t, "count", "unlock")
    /\ mCounter' = reg[a] + 1
    /\ reg' = [reg EXCEPT ![a] = 0]
    /\ LetGo(t)
    /\ UNCHANGED <<dest, pipe, spent, held, net, strays, sent, delivered>>

-----------------------------------------------------------------------------
Writer(t) == LockNext(t) \/ Write(t) \/ Release(t)
Stage(t)  == Unlock(t) \/ Read(t)

\* Everything sent has been dealt with and every thread waits for input.
Quiescent ==
    /\ \A t \in Stages : pc[t] = "read" /\ pipe[t] = <<>>
    /\ \A a \in Apps : pc[App(a)] = "compose" /\ sent[a] = MaxMsgs
    /\ pc[Listener] = "recvfrom" /\ net = <<>>

Wait == Quiescent /\ UNCHANGED vars

Step ==
    \/ \E t \in Threads : Writer(t)
    \/ \E t \in Stages : Stage(t)
    \/ \E p \in ProtocolIds : SendDown(p) \/ PassUp(p)
    \/ \E a \in AppIds : AppReceive(a) \/ Count(a)
    \/ \E a \in Apps : Compose(a)
    \/ EthSend
    \/ Receive
    \/ Wait

Next == Step \/ \E x \in Strays : Intrude(x[1], x[2])

Spec == Init /\ [][Next]_vars

\* The kernel runs some thread as long as one can run.
Fairness == WF_vars(Step)

FairSpec == Spec /\ Fairness

-----------------------------------------------------------------------------
(* Properties                                                              *)

PCs == {"compose", "recvfrom", "start", "unlock", "read", "lock", "handoff", "write",
        "release", "count"}

\* The values the variables range over.
TypeOK ==
    /\ pc \in [Threads -> PCs]
    /\ hand \in [Threads -> Seq(Unit)]
    /\ dest \in [Threads -> Pipes \cup {NoPipe}]
    /\ pipe \in [Pipes -> Seq(Unit)]
    /\ spent \in [Pipes -> Nat]
    /\ held \in [Pipes -> BOOLEAN]
    /\ net \in Seq(Message)
    /\ strays \in 0..MaxStrays
    /\ mCounter \in Nat
    /\ reg \in [AppIds -> Nat]
    /\ sent \in [Apps -> Nat]
    /\ delivered \in [AppIds -> Seq(Nat)]

\* The units waiting in, or just read from, the pipe of a stage.
Incoming(q) == {pipe[q][i] : i \in DOMAIN pipe[q]} \cup
               (IF pc[q] = "lock" THEN {hand[q][1]} ELSE {})

\* Every stage only ever reads messages of applications above or below it, and
\* finds on top of them the header its peer on the other host put there: a
\* receive stage never strips or dispatches on a header that is not its own,
\* and none of them sees more of a stray datagram than its headers account for.
PeerHeaders ==
    /\ \A p \in ProtocolIds : \A u \in Incoming(<<"send", p>>) :
          OnPath(u.msg, p) /\ WrappedFrom(u.msg, Depth(p) + 1)
    /\ \A p \in ProtocolIds : \A u \in Incoming(<<"recv", p>>) :
          /\ OnPath(u.msg, p)
          /\ IF Own(u.msg) THEN WrappedFrom(u.msg, Depth(p))
                           ELSE u.msg.hdrs # <<>> /\ u.msg.hdrs[1].proto = p

\* The places a message can be, <<where, index>>, index 0 being a thread's hand.
Wire == <<"net", 0>>
Places ==
    (UNION {{q} \X DOMAIN pipe[q] : q \in Pipes})
    \cup {<<t, 0>> : t \in {x \in Threads : hand[x] # <<>> /\ pc[x] # "count"}}
    \cup ({Wire} \X DOMAIN net)

MsgAt(x) == IF x[1] = Wire THEN net[x[2]]
            ELSE IF x[2] = 0 THEN hand[x[1]][1].msg
            ELSE pipe[x[1]][x[2]].msg

\* How far along its way a place is.
Rank(x) ==
    LET who == x[1]
        off == IF x[2] = 0 THEN 1 ELSE 0 IN
    CASE who[1] = "app"    -> 0
      [] who[1] = "send"   -> 9 - 2 * Depth(who[2]) + off
      [] who[1] = "net"    -> 9
      [] who[1] = "listen" -> 10
      [] who[1] = "recv"   -> 9 + 2 * Depth(who[2]) + off

\* Threads hand a Message on by its pointer, so one must never be in two places,
\* and no message of an application may overtake an earlier one: of two messages
\* of an application in flight, the one further along (or earlier in the same
\* queue) has the smaller number, and both have larger ones than any received.
InOrder ==
    LET Sent == {x \in Places : Own(MsgAt(x))} IN
    \A x \in Sent :
       LET m == MsgAt(x) IN
       /\ m.app \in Apps /\ m.n \in 1..sent[m.app]
       /\ \A i \in DOMAIN delivered[m.app] : delivered[m.app][i] < m.n
       /\ \A y \in Sent \ {x} :
             MsgAt(y).app = m.app =>
                \/ Rank(x) > Rank(y) /\ m.n < MsgAt(y).n
                \/ Rank(x) < Rank(y) /\ m.n > MsgAt(y).n
                \/ Rank(x) = Rank(y) /\ x[1] = y[1] /\ (x[2] < y[2] <=> m.n < MsgAt(y).n)
                                    /\ m.n # MsgAt(y).n

\* The promise to the applications: a lossy channel that neither invents,
\* repeats nor reorders.  Only to those may text of other programs come whose
\* port datagrams with four valid headers reach.
Fifo == INSTANCE LossyFifo WITH
            Apps <- AppIds,
            Foreign <- {a \in AppIds : <<a, 4>> \in Strays},
            accepted <- [a \in AppIds |-> IF a \in Apps THEN sent[a] ELSE 0],
            received <- delivered

ImplementsLossyFifo == Fifo!Spec

\* Threads between the lock and the unlock of q's mutex.
Inside(q) ==
    {t \in Threads : dest[t] = q /\ pc[t] \in {"write", "release"}} \cup
    {t \in Stages : t = q /\ pc[t] \in {"unlock", "handoff", "write", "release", "count"}}

\* The mutexes exclude: at most one thread is between lock and unlock of one.
MutualExclusion == \A q \in Pipes : \A s, t \in Inside(q) : s = t

\* A writer that waits for room while the reader, having read, waits for the
\* writer's mutex: neither moves again.
Stalled(q) ==
    /\ pc[q] = "lock" /\ held[q]
    /\ \E t \in Threads : pc[t] = "write" /\ dest[t] = q /\ ~Room(q)
NoPipeStall == \A q \in Pipes : ~Stalled(q)

Received == Len(delivered[FTP_ID]) + Len(delivered[TELNET_ID])
            + Len(delivered[RDP_ID]) + Len(delivered[DNS_ID])

\* Once the traffic has drained mCounter is the number of messages received.
CountedAll == Quiescent => mCounter = Received

\* Every message of every application arrives when the socket buffer can hold
\* all of them, whatever the order in which threads run.
AllReceived == \A a \in Apps : <>(Len(delivered[a]) = MaxMsgs)
=============================================================================
