----------------------------- MODULE PerMessage ----------------------------
(***************************************************************************)
(* The process-per-message stack of PerMessage.h over udpUtils.h: a sender *)
(* runs the whole chain of send functions itself, and on the other host a  *)
(* listening thread hands each datagram to a thread of the pool, which     *)
(* runs the whole chain of receive functions.  The pool is the one of      *)
(* ThreadPool; what it executes between Take and GiveBack is spelled out   *)
(* here.  PerMessage never deletes its pool, so Terminate does not occur.  *)
(***************************************************************************)
EXTENDS Packets, FiniteSets

CONSTANTS
    Apps,       \* the application protocols that carry traffic
    MaxMsgs,    \* messages each application sends (SIZE in SpeedTest.cc)
    Workers,    \* the threads of the pool (25 in PerMessage.h)
    NetCap,     \* datagrams the receiving socket's buffer can hold
    Strays,     \* kinds of datagrams of other programs: path and valid headers
    MaxStrays   \* how many of them arrive at most

ASSUME PerMessageAssumption ==
    /\ Apps \subseteq AppIds
    /\ Apps # {}
    /\ MaxMsgs \in Nat \ {0}
    /\ IsFiniteSet(Workers)
    /\ Workers # {}
    /\ NetCap \in Nat \ {0}
    /\ Strays \subseteq AppIds \X (1..4)
    /\ MaxStrays \in Nat

VARIABLES
    sent,       \* messages sent so far, per application
    net,        \* the receive buffer of the listening UDP socket
    strays,     \* datagrams of other programs that have come into it
    taken,      \* the datagram the listening thread holds: <<>> or <<message>>
    pc, jobs, mine, availableThreads, terminate, owner,     \* the pool
    dispatched, started, returned,                          \* and its history
    step,       \* where a worker is in the job it executes
    reg,        \* the value of rCounter a worker is incrementing
    rCounter,   \* the global counter of received messages
    delivered   \* history: the messages received, per application

pool    == <<pc, jobs, mine, availableThreads, terminate, owner, dispatched, started, returned>>
job     == <<step, reg, rCounter, delivered>>
wire    == <<sent, net, strays, taken>>
vars    == <<wire, pool, job>>

\* One job per datagram.
MaxDatagrams == Cardinality(Apps) * MaxMsgs + MaxStrays

Pool == INSTANCE ThreadPool WITH Job <- Message, MaxJobs <- MaxDatagrams

Init ==
    /\ sent = [a \in Apps |-> 0]
    /\ net = <<>>
    /\ strays = 0
    /\ taken = <<>>
    /\ Pool!Init
    /\ step = [w \in Workers |-> "deliver"]
    /\ reg = [w \in Workers |-> 0]
    /\ rCounter = 0
    /\ delivered = [a \in AppIds |-> <<>>]

-----------------------------------------------------------------------------
(* Sending                                                                 *)

\* Fault: the transport protocol names itself in its own header.
WrapNamesItself(a) ==
    AddHeader(AddHeader(AddHeader(AddHeader(NewMessage(a, sent[a] + 1),
        a, a), Lower(a), Lower(a)), IP_ID, Lower(a)), ETHERNET_ID, IP_ID)

\* The chain of send functions: each header is built from the length so far and
\* the protocol id passed down by the caller.
Wrap(a) ==
    AddHeader(AddHeader(AddHeader(AddHeader(NewMessage(a, sent[a] + 1),
        a, a), Lower(a), a), IP_ID, Lower(a)), ETHERNET_ID, IP_ID)

\* ftpSend, telnetSend, rdpSend or dnsSend down to sendUdp.  Everything is local
\* to the sending thread up to sendto.  The datagram is lost when the name
\* lookup or sendto fails, or when it finds the socket buffer full.
Send(a) ==
    /\ sent[a] < MaxMsgs
    /\ sent' = [sent EXCEPT ![a] = @ + 1]
    /\ \/ Len(net) < NetCap /\ net' = Append(net, Wrap(a))
       \/ UNCHANGED net
    /\ UNCHANGED <<strays, taken, pool, job>>

\* Another program sends a datagram to the port the listening thread is bound to.
Intrude(a, d) ==
    /\ strays < MaxStrays
    /\ Len(net) < NetCap
    /\ net' = Append(net, Stray(a, d, strays + 1))
    /\ strays' = strays + 1
    /\ UNCHANGED <<sent, taken, pool, job>>

-----------------------------------------------------------------------------
(* The listening thread                                                    *)

\* Fault: one buffer for all datagrams, so that those not yet looked at change.
ReceiveInOneBuffer ==
    /\ taken = <<>> /\ net # <<>>
    /\ taken' = <<Head(net)>>
    /\ net' = Tail(net)
    /\ jobs' = [i \in DOMAIN jobs |-> Head(net)]
    /\ UNCHANGED <<sent, strays, pc, mine, availableThreads, terminate, owner,
                   dispatched, started, returned, job>>

\* getUdpMesg
Receive ==
    /\ taken = <<>> /\ net # <<>>
    /\ taken' = <<Head(net)>>
    /\ net' = Tail(net)
    /\ UNCHANGED <<sent, strays, pool, job>>

HandOver ==
    /\ taken # <<>>
    /\ Pool!Dispatch(taken[1])
    /\ taken' = <<>>
    /\ UNCHANGED <<sent, net, strays, job>>

-----------------------------------------------------------------------------
(* A job: ethernetRecv on one datagram                                     *)

At(w, here) == pc[w] = "run" /\ step[w] = here

\* The hlp of the header in front; text read as a header may say anything.
HlpIn(m) == IF m.hdrs = <<>> THEN ProtocolIds \cup {Unset} ELSE {m.hdrs[1].hlp}

\* Fault: a refused message is counted like a received one.
RefuseCounts(w) ==
    /\ step' = [step EXCEPT ![w] = "count"]
    /\ reg' = [reg EXCEPT ![w] = rCounter]
    /\ UNCHANGED delivered

\* IP, TCP or UDP meets an hlp it does not know: the message goes no further.
Refuse(w) ==
    /\ step' = [step EXCEPT ![w] = "return"]
    /\ UNCHANGED <<reg, delivered>>

\* ftpRecv, telnetRecv, rdpRecv or dnsRecv up to the load of rCounter++
Accept(w, a, m) ==
    /\ step' = [step EXCEPT ![w] = "count"]
    /\ reg' = [reg EXCEPT ![w] = rCounter]
    /\ delivered' = [delivered EXCEPT ![a] = Append(@, StripHeader(m, a))]

\* Fault: IP takes what is not for TCP to be for UDP.
DeliverByDefault(w) ==
    LET ip == StripHeader(mine[w][1], ETHERNET_ID)
        transport == StripHeader(ip, IP_ID) IN
    /\ At(w, "deliver")
    /\ \E h \in HlpIn(ip) :
          LET t == IF h = TCP_ID THEN TCP_ID ELSE UDP_ID IN
          \E a \in HlpIn(transport) :
              IF a \notin Accepts(t) THEN Refuse(w)
              ELSE Accept(w, a, StripHeader(transport, t))
    /\ UNCHANGED <<wire, pool, rCounter>>

\* Ethernet reports a wrong hlp and passes the message to IP all the same.
Deliver(w) ==
    LET ip == StripHeader(mine[w][1], ETHERNET_ID)
        transport == StripHeader(ip, IP_ID) IN
    /\ At(w, "deliver")
    /\ \E t \in HlpIn(ip) :
          IF t \notin Accepts(IP_ID) THEN Refuse(w)
          ELSE \E a \in HlpIn(transport) :
                  IF a \notin Accepts(t) THEN Refuse(w)
                  ELSE Accept(w, a, StripHeader(transport, t))
    /\ UNCHANGED <<wire, pool, rCounter>>

\* ... and its store: the workers share rCounter and no lock
Count(w) ==
    /\ At(w, "count")
    /\ rCounter' = reg[w] + 1
    /\ reg' = [reg EXCEPT ![w] = 0]
    /\ step' = [step EXCEPT ![w] = "return"]
    /\ UNCHANGED <<wire, pool, delivered>>

Return(w) ==
    /\ At(w, "return")
    /\ Pool!Return(w)
    /\ step' = [step EXCEPT ![w] = "deliver"]
    /\ UNCHANGED <<wire, reg, rCounter, delivered>>

-----------------------------------------------------------------------------
PoolStep(w) ==
    /\ Pool!Check(w) \/ Pool!Sleep(w) \/ Pool!Take(w) \/ Pool!GiveBack(w)
    /\ UNCHANGED <<wire, job>>

WakeSpuriously(w) == Pool!WakeSpuriously(w) /\ UNCHANGED <<wire, job>>

Worker(w) == PoolStep(w) \/ Deliver(w) \/ Count(w) \/ Return(w)

\* Nothing is left to do: every worker sleeps.
Quiescent ==
    /\ \A a \in Apps : sent[a] = MaxMsgs
    /\ net = <<>> /\ taken = <<>> /\ jobs = <<>>
    /\ \A w \in Workers : pc[w] = "waiting"

Wait == Quiescent /\ UNCHANGED vars

Next ==
    \/ \E a \in Apps : Send(a)
    \/ \E x \in Strays : Intrude(x[1], x[2])
    \/ Receive
    \/ HandOver
    \/ \E w \in Workers : Worker(w) \/ WakeSpuriously(w)
    \/ Wait

Spec == Init /\ [][Next]_vars

\* The kernel runs the listening thread and the workers.
Fairness ==
    /\ WF_vars(Receive)
    /\ WF_vars(HandOver)
    /\ \A w \in Workers : WF_vars(Worker(w))

FairSpec == Spec /\ Fairness

-----------------------------------------------------------------------------
(* Properties                                                              *)

\* The values the variables range over.
TypeOK ==
    /\ sent \in [Apps -> 0..MaxMsgs]
    /\ net \in Seq(Message)
    /\ strays \in 0..MaxStrays
    /\ taken \in Seq(Message)
    /\ Pool!TypeOK
    /\ step \in [Workers -> {"deliver", "count", "return"}]
    /\ reg \in [Workers -> Nat]
    /\ rCounter \in Nat
    /\ delivered \in [AppIds -> Seq(Message)]

\* The numbers of the messages an application received, 0 for the text of another
\* program.
Numbers(a) == [i \in DOMAIN delivered[a] |-> Number(delivered[a][i])]

\* The promise to the applications: a channel that neither invents nor repeats
\* messages, whichever workers the datagrams go to and however often a worker
\* is woken.  Text of other programs comes to those applications only whose port a
\* stray names in four valid headers, unless Ethernet meets a wrong hlp: it passes
\* the message on and what follows may name any application.
Bag == INSTANCE LossyBag WITH
           Apps <- AppIds,
           Foreign <- {a \in AppIds : <<a, 4>> \in Strays \/ \E x \in Strays : x[2] = 1},
           accepted <- [a \in AppIds |-> IF a \in Apps THEN sent[a] ELSE 0],
           received <- [a \in AppIds |-> Numbers(a)]

ImplementsLossyBag == Bag!Spec

\* What the senders put on the wire is what either stack's receive side takes
\* apart: every datagram of this program in the socket buffer, in the listening
\* thread or in the pool carries the four headers of its application's path.
WellFormed ==
    LET Waiting == {net[i] : i \in DOMAIN net} \cup {taken[i] : i \in DOMAIN taken}
                   \cup {jobs[i] : i \in DOMAIN jobs} IN
    \A m \in Waiting : Own(m) => WrappedFrom(m, 1)

\* Application a has received m, bare of all headers.
Reached(a, m) == \E i \in DOMAIN delivered[a] :
                     delivered[a][i].n = m.n /\ delivered[a][i].hdrs = <<>>

\* A message of this program is received by its peer alone, with its text whole.
\* Whatever datagram a worker has just given to an application, this program's or
\* another's, it was the application named by four valid headers - unless the hlp
\* in the first of them was wrong, which Ethernet reports but does not refuse.
Unwrapped ==
    /\ \A a \in AppIds : \A i \in DOMAIN delivered[a] :
          LET m == delivered[a][i] IN
          Own(m) => m.app = a /\ m.hdrs = <<>> /\ m.len = PayloadLen
    /\ \A w \in Workers : At(w, "count") =>
          LET m == mine[w][1] IN
          \/ Len(m.hdrs) = 4 /\ Reached(m.app, m)
          \/ m.hdrs[1].hlp # IP_ID

Received == Len(delivered[FTP_ID]) + Len(delivered[TELNET_ID])
            + Len(delivered[RDP_ID]) + Len(delivered[DNS_ID])

\* However the unlocked increments overlap, rCounter never runs ahead of the
\* messages received, which SpeedTest.cc takes it for when it waits for
\* THRESHOLD of them.
NeverAhead == rCounter <= Received

\* A datagram that has reached the socket buffer is received by its application:
\* no interleaving of dispatches, sleeps and wakeups loses it.
ArrivedIsReceived ==
    \A a \in Apps : \A n \in 1..MaxMsgs :
        (\E i \in DOMAIN net : net[i].app = a /\ net[i].n = n)
            ~> (\E i \in DOMAIN Numbers(a) : Numbers(a)[i] = n)
=============================================================================
