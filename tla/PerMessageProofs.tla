-------------------------- MODULE PerMessageProofs --------------------------
(***************************************************************************)
(* Theorems about PerMessage: what it puts on the wire, what it delivers   *)
(* and what it counts, that it uses its pool as ThreadPool allows, and     *)
(* that it implements LossyBag, for any applications, messages, workers,   *)
(* buffer sizes and strays.                                                *)
(***************************************************************************)
EXTENDS PerMessage, PacketsProofs, FiniteSetTheorems

\* A message of this program is wrapped as its application's path says, and one of
\* another program is of a kind that may come.
Whole(m) == IF Own(m) THEN WrappedFrom(m, 1)
            ELSE StrayFrom(m, 1) /\ <<m.app, Len(m.hdrs)>> \in Strays

\* The text of a message of the application itself.
Bare(a, m) == Own(m) => m.app = a /\ m.hdrs = <<>> /\ m.len = PayloadLen

\* x, the text application a got out of datagram m, came to the application that
\* four valid headers name, unless the outermost of them is wrong.
Addressed(a, m, x) == \/ m.hdrs[1].hlp # IP_ID
                      \/ Len(m.hdrs) = 4 /\ a = m.app /\ x.hdrs = <<>>

\* The applications that text of other programs may come to.
Reachable == {a \in AppIds : <<a, 4>> \in Strays \/ \E x \in Strays : x[2] = 1}

-----------------------------------------------------------------------------
(* The chain of send functions and the chain of receive functions          *)

\* Adding a header leaves a message one of its application.
LEMMA StillTheirs ==
  \A m \in Message, p \in ProtocolIds, h \in Nat :
     AddHeader(m, p, h) \in Message /\ AddHeader(m, p, h).app = m.app
  BY AddHeaderType

\* What Send puts on the wire is wrapped from the link layer up.
LEMMA WrapIsWhole ==
  ASSUME NEW a \in Apps, sent[a] \in Nat
  PROVE  Wrap(a) \in Message /\ WrappedFrom(Wrap(a), 1)
<1> DEFINE m4 == NewMessage(a, sent[a] + 1)
           m3 == AddHeader(m4, a, a)
           m2 == AddHeader(m3, Lower(a), a)
           m1 == AddHeader(m2, IP_ID, Lower(a))
           m0 == AddHeader(m1, ETHERNET_ID, IP_ID)
<1>1. a \in AppIds /\ a \in ProtocolIds /\ Lower(a) \in ProtocolIds
  BY PerMessageAssumption, GraphTypes
<1>2. /\ Layers(a)[1] = ETHERNET_ID /\ Layers(a)[2] = IP_ID
      /\ Layers(a)[3] = Lower(a) /\ Layers(a)[4] = a
  BY DEF Layers
<1>3. /\ ETHERNET_ID \in ProtocolIds /\ IP_ID \in ProtocolIds
      /\ a \in Nat /\ Lower(a) \in Nat /\ IP_ID \in Nat
  BY <1>1 DEF ETHERNET_ID, IP_ID, ProtocolIds
<1>4. m4 \in Message /\ m4.app = a /\ WrappedFrom(m4, 5)
  BY <1>1, NewMessageWrapped
<1> HIDE DEF m4
<1>5. m3 \in Message /\ m3.app = a /\ WrappedFrom(m3, 4)
  <2>1. m3 \in Message /\ m3.app = a
    BY <1>1, <1>3, <1>4, StillTheirs
  <2>2. WrappedFrom(AddHeader(m4, Layers(m4.app)[4], a), 4)
    BY <1>3, <1>4, WrapOne, 4 + 1 = 5, 4 \in 1..4, ~(4 < 4)
  <2> QED
    BY <1>2, <1>4, <2>1, <2>2
<1> HIDE DEF m3
<1>6. m2 \in Message /\ m2.app = a /\ WrappedFrom(m2, 3)
  <2>1. m2 \in Message /\ m2.app = a
    BY <1>1, <1>3, <1>5, StillTheirs
  <2>2. WrappedFrom(AddHeader(m3, Layers(m3.app)[3], a), 3)
    BY <1>2, <1>3, <1>5, WrapOne, 3 + 1 = 4, 3 \in 1..4
  <2> QED
    BY <1>2, <1>5, <2>1, <2>2
<1> HIDE DEF m2
<1>7. m1 \in Message /\ m1.app = a /\ WrappedFrom(m1, 2)
  <2>1. m1 \in Message /\ m1.app = a
    BY <1>1, <1>3, <1>6, StillTheirs
  <2>2. WrappedFrom(AddHeader(m2, Layers(m2.app)[2], Lower(a)), 2)
    BY <1>2, <1>3, <1>6, WrapOne, 2 + 1 = 3, 2 \in 1..4
  <2> QED
    BY <1>2, <1>6, <2>1, <2>2
<1> HIDE DEF m1
<1>8. m0 \in Message /\ WrappedFrom(m0, 1)
  <2>1. m0 \in Message
    BY <1>1, <1>3, <1>7, StillTheirs
  <2>2. WrappedFrom(AddHeader(m1, Layers(m1.app)[1], IP_ID), 1)
    BY <1>2, <1>3, <1>7, WrapOne, 1 + 1 = 2, 1 \in 1..4
  <2> QED
    BY <1>2, <1>7, <2>1, <2>2
<1>9. Wrap(a) = m0
  BY DEF Wrap, m0, m1, m2, m3, m4
<1> QED
  BY <1>8, <1>9

\* IP hands on to the transport protocols, and these to applications.
LEMMA IpAccepts ==
  \A t \in Accepts(IP_ID) : t \in {TCP_ID, UDP_ID} /\ Accepts(t) \subseteq AppIds
  BY DEF Accepts, AppIds, ETHERNET_ID, IP_ID, TCP_ID, UDP_ID, FTP_ID, TELNET_ID, RDP_ID, DNS_ID

\* The way a job takes with a datagram ends at its application, with its text; with
\* one of another program it ends where four valid headers lead, or anywhere when
\* there is one header only.
LEMMA UnwrapIsBare ==
  ASSUME NEW m \in Message, Whole(m),
         NEW t \in HlpIn(StripHeader(m, ETHERNET_ID)), t \in Accepts(IP_ID),
         NEW a \in HlpIn(StripHeader(StripHeader(m, ETHERNET_ID), IP_ID)), a \in Accepts(t)
  PROVE  LET text == StripHeader(StripHeader(StripHeader(StripHeader(m,
                         ETHERNET_ID), IP_ID), t), a) IN
         /\ a \in AppIds /\ text \in Message /\ Bare(a, text) /\ Addressed(a, m, text)
         /\ ~Own(m) => a \in Reachable
<1> DEFINE m1 == StripHeader(m, ETHERNET_ID)
           m2 == StripHeader(m1, IP_ID)
           m3 == StripHeader(m2, t)
           m4 == StripHeader(m3, a)
<1>1. /\ ETHERNET_ID \in ProtocolIds /\ IP_ID \in ProtocolIds
      /\ t \in {TCP_ID, UDP_ID} /\ t \in ProtocolIds
      /\ a \in AppIds /\ a \in ProtocolIds
  <2>1. t \in {TCP_ID, UDP_ID}
    BY IpAccepts
  <2>2. a \in AppIds
    BY IpAccepts
  <2> QED
    BY <2>1, <2>2, GraphTypes DEF ProtocolIds, ETHERNET_ID, IP_ID, TCP_ID, UDP_ID
<1>2. m1 \in Message /\ m1.app = m.app /\ m1.n = m.n
  BY <1>1, StripHeaderType
<1>3. m2 \in Message /\ m2.app = m.app /\ m2.n = m.n
  <2> HIDE DEF m1
  <2> QED
    BY <1>1, <1>2, StripHeaderType
<1>4. m3 \in Message /\ m3.app = m.app /\ m3.n = m.n
  <2> HIDE DEF m2
  <2> QED
    BY <1>1, <1>3, StripHeaderType
<1>5. m4 \in Message /\ m4.app = m.app /\ m4.n = m.n
  <2> HIDE DEF m3
  <2> QED
    BY <1>1, <1>4, StripHeaderType
<1>6. ASSUME Own(m4)
      PROVE  m4.app = a /\ m4.hdrs = <<>> /\ m4.len = PayloadLen /\ Len(m.hdrs) = 4
  <2>1. WrappedFrom(m, 1) /\ m.app \in AppIds
    BY <1>5, <1>6 DEF Whole, Own, Message
  <2>2. /\ Layers(m.app)[1] = ETHERNET_ID /\ Layers(m.app)[2] = IP_ID
        /\ Layers(m.app)[4] = m.app
    BY DEF Layers
  <2>3. WrappedFrom(m1, 2)
    BY <2>1, <2>2, UnwrapOne, 1 + 1 = 2, 1 \in 1..4
  <2>4. m1.hdrs # <<>> /\ m1.hdrs[1].hlp = Layers(m.app)[3] /\ WrappedFrom(m2, 3)
    <3> HIDE DEF m1
    <3> QED
      BY <1>2, <2>2, <2>3, UnwrapOne, 2 + 1 = 3, 2 \in 1..4, 2 < 4
  <2>5. t = Layers(m.app)[3]
    BY <2>4 DEF HlpIn
  <2>6. m2.hdrs # <<>> /\ m2.hdrs[1].hlp = Layers(m.app)[4] /\ WrappedFrom(m3, 4)
    <3> HIDE DEF m2
    <3> QED
      BY <1>3, <2>4, <2>5, UnwrapOne, 3 + 1 = 4, 3 \in 1..4, 3 < 4
  <2>7. a = m.app
    BY <2>2, <2>6 DEF HlpIn
  <2>8. WrappedFrom(m4, 5)
    <3> HIDE DEF m3
    <3> QED
      BY <1>4, <2>2, <2>6, <2>7, UnwrapOne, 4 + 1 = 5, 4 \in 1..4
  <2> HIDE DEF m4
  <2>9. Len(m4.hdrs) = 0 /\ m4.len = PayloadLen /\ Len(m.hdrs) = 4
    BY <2>1, <2>8 DEF WrappedFrom
  <2> QED
    BY <1>5, <2>7, <2>9 DEF Message
<1>7. ASSUME ~Own(m), m.hdrs[1].hlp # Unset
      PROVE  Len(m.hdrs) = 4 /\ a = m.app /\ m4.hdrs = <<>>
  <2>1. StrayFrom(m, 1)
    BY <1>7 DEF Whole
  <2>2. StrayFrom(m1, 2) /\ Len(m1.hdrs) = Len(m.hdrs) - 1
    BY <1>1, <1>7, <2>1, StrayPasses, 1 + 1 = 2, 1 \in 1..4
  <2>3. t = m1.hdrs[1].hlp /\ t # Unset
    <3>1. t \in HlpIn(m1) /\ t # Unset
      BY <1>1, UnsetRefused
    <3> HIDE DEF m1
    <3> QED
      BY <2>2, <3>1 DEF HlpIn, StrayFrom
  <2>4. StrayFrom(m2, 3) /\ Len(m2.hdrs) = Len(m1.hdrs) - 1
    <3> HIDE DEF m1
    <3> QED
      BY <1>1, <1>2, <2>2, <2>3, StrayPasses, 2 + 1 = 3, 2 \in 1..4
  <2>5. a = m2.hdrs[1].hlp /\ a # Unset
    <3>1. a \in HlpIn(m2) /\ a # Unset
      BY <1>1, UnsetRefused
    <3> HIDE DEF m2
    <3> QED
      BY <2>4, <3>1 DEF HlpIn, StrayFrom
  <2>6. /\ a = Layers(m2.app)[4] /\ StrayFrom(m3, 4) /\ Len(m3.hdrs) = Len(m2.hdrs) - 1
    <3> HIDE DEF m2
    <3> QED
      BY <1>1, <1>3, <2>4, <2>5, StrayPasses, 3 + 1 = 4, 3 \in 1..4
  <2>7. a = m.app
    BY <1>3, <2>6 DEF Layers
  <2>8. Len(m3.hdrs) = 1 /\ m3.hdrs # <<>>
    <3> DEFINE s == m3.hdrs
    <3>1. s \in Seq(Header) /\ s # <<>> /\ Len(s) <= 5 - 4
      BY <1>4, <2>6 DEF StrayFrom, Message
    <3> HIDE DEF s
    <3>2. Len(s) = 1
      <4>1. Len(s) \in Nat /\ Len(s) # 0
        BY <3>1, EmptySeq
      <4>2. \A k \in Nat : k # 0 /\ k <= 5 - 4 => k = 1
        OBVIOUS
      <4> QED
        BY ONLY <3>1, <4>1, <4>2
    <3> QED
      BY <3>1, <3>2 DEF s
  <2>9. m4.hdrs = <<>>
    <3>1. Len(m4.hdrs) = Len(m3.hdrs) - 1
      <4> HIDE DEF m3
      <4> QED
        BY <1>1, <1>4, <2>8, StripHeaderType
    <3>2. m4.hdrs \in Seq(Header)
      BY <1>5 DEF Message
    <3> HIDE DEF m4, m3
    <3> QED
      BY <2>8, <3>1, <3>2, EmptySeq
  <2>10. Len(m.hdrs) = 4
    <3> HIDE DEF m1, m2, m3
    <3>1. Len(m.hdrs) \in Nat /\ Len(m1.hdrs) \in Nat /\ Len(m2.hdrs) \in Nat
      BY <1>2, <1>3 DEF Message
    <3>2. \A i, j, k \in Nat : j = i - 1 /\ k = j - 1 /\ 1 = k - 1 => i = 4
      OBVIOUS
    <3> QED
      BY ONLY <2>2, <2>4, <2>6, <2>8, <3>1, <3>2
  <2> QED
    BY <2>7, <2>9, <2>10
<1>8. IP_ID # Unset
  BY DEF IP_ID, Unset
<1>9. Addressed(a, m, m4)
  <2>1. CASE Own(m)
    <3>1. Own(m4)
      BY <1>5, <2>1 DEF Own
    <3> QED
      BY <1>5, <1>6, <3>1 DEF Addressed
  <2>2. CASE ~Own(m)
    BY <1>7, <1>8, <2>2 DEF Addressed
  <2> QED
    BY <2>1, <2>2
<1>10. ASSUME ~Own(m) PROVE a \in Reachable
  <2>1. StrayFrom(m, 1) /\ <<m.app, Len(m.hdrs)>> \in Strays /\ Len(m.hdrs) \in Nat
    BY <1>10 DEF Whole, Message
  <2>2. CASE m.hdrs[1].hlp = Unset
    <3>1. 1 \in 1..Len(m.hdrs) /\ Layers(m.app)[1 + 1] = IP_ID
      BY <2>1, EmptySeq DEF StrayFrom, Layers, Message
    <3>2. Len(m.hdrs) = 1
      BY <1>8, <2>1, <2>2, <3>1 DEF StrayFrom
    <3>3. <<m.app, 1>> \in Strays /\ <<m.app, 1>>[2] = 1
      BY <2>1, <3>2
    <3> QED
      BY <1>1, <3>3 DEF Reachable
  <2>3. CASE m.hdrs[1].hlp # Unset
    <3>1. <<a, 4>> \in Strays
      BY <1>7, <1>10, <2>1, <2>3
    <3> QED
      BY <1>1, <3>1 DEF Reachable
  <2> QED
    BY <2>2, <2>3
<1> QED
  BY <1>1, <1>5, <1>6, <1>9, <1>10 DEF Bare

-----------------------------------------------------------------------------
(* The inductive invariant: a message of this program is whole wherever it *)
(* waits and in the hands of the worker that starts on it, an application  *)
(* has only bare ones, and a worker that counts a message counts one of    *)
(* those already received.                                                 *)

WorkerPCs == {"check", "enter", "waiting", "run", "finish", "exited"}

TInv ==
    /\ sent \in [Apps -> Nat] /\ strays \in Nat
    /\ net \in Seq(Message) /\ taken \in Seq(Message) /\ jobs \in Seq(Message)
    /\ pc \in [Workers -> WorkerPCs]
    /\ mine \in [Workers -> Seq(Message)]
    /\ step \in [Workers -> {"deliver", "count", "return"}]
    /\ reg \in [Workers -> Nat] /\ rCounter \in Nat
    /\ delivered \in [AppIds -> Seq(Message)]

AllWhole(s) == \A i \in 1..Len(s) : Whole(s[i])

Waiting  == AllWhole(net) /\ AllWhole(taken) /\ AllWhole(jobs)
InHand   == \A w \in Workers : pc[w] = "run" => mine[w] # <<>> /\ Whole(mine[w][1])
Texts    == \A a \in AppIds : \A i \in 1..Len(delivered[a]) : Bare(a, delivered[a][i])
Counting == \A w \in Workers : step[w] = "count" => reg[w] < Received

MInv == TInv /\ Waiting /\ InHand /\ Texts /\ Counting /\ NeverAhead

\* A queue of whole messages stays one when the first leaves or another comes.
LEMMA WholeQueue ==
  ASSUME NEW s \in Seq(Message), AllWhole(s)
  PROVE  /\ s # <<>> => /\ Head(s) \in Message /\ Whole(Head(s)) /\ Head(s) = s[1]
                        /\ Tail(s) \in Seq(Message) /\ AllWhole(Tail(s))
         /\ \A m \in Message : Whole(m) => Append(s, m) \in Seq(Message) /\ AllWhole(Append(s, m))
<1>1. ASSUME s # <<>>
      PROVE  /\ Head(s) \in Message /\ Whole(Head(s)) /\ Head(s) = s[1]
             /\ Tail(s) \in Seq(Message) /\ AllWhole(Tail(s))
  <2>1. /\ 1 \in 1..Len(s) /\ Head(s) = s[1] /\ Head(s) \in Message /\ Tail(s) \in Seq(Message)
        /\ \A i \in 1..Len(Tail(s)) : Tail(s)[i] = s[i + 1] /\ i + 1 \in 1..Len(s)
    BY <1>1
  <2> QED
    BY <2>1 DEF AllWhole
<1>2. ASSUME NEW m \in Message, Whole(m)
      PROVE  Append(s, m) \in Seq(Message) /\ AllWhole(Append(s, m))
  <2>1. /\ Append(s, m) \in Seq(Message) /\ Len(Append(s, m)) = Len(s) + 1 /\ Len(s) \in Nat
        /\ \A i \in 1..(Len(s) + 1) : Append(s, m)[i] = IF i <= Len(s) THEN s[i] ELSE m
    OBVIOUS
  <2> QED
    BY <1>2, <2>1 DEF AllWhole
<1> QED
  BY <1>1, <1>2

\* An empty queue and one of a single message.
LEMMA ShortQueue ==
  /\ <<>> \in Seq(Message) /\ AllWhole(<<>>)
  /\ \A m \in Message : Whole(m) => <<m>> \in Seq(Message) /\ AllWhole(<<m>>)
<1>1. ASSUME NEW m \in Message, Whole(m) PROVE <<m>> \in Seq(Message) /\ AllWhole(<<m>>)
  <2>1. <<m>> \in Seq(Message) /\ Len(<<m>>) = 1 /\ <<m>>[1] = m
    OBVIOUS
  <2> QED
    BY <1>1, <2>1 DEF AllWhole
<1> QED
  BY <1>1 DEF AllWhole

\* Every message received is counted in Received, and in nothing else.
LEMMA ReceivedGrows ==
  ASSUME TInv
  PROVE  /\ Received \in Nat
         /\ \A a \in AppIds, m \in Message :
               delivered' = [delivered EXCEPT ![a] = Append(@, m)] => Received' = Received + 1
<1> DEFINE n(a) == Len(delivered[a])
           x(a) == Len(delivered'[a])
<1>1. \A a \in AppIds : n(a) \in Nat
  BY DEF TInv
<1>2. /\ AppIds = {FTP_ID, TELNET_ID, RDP_ID, DNS_ID}
      /\ FTP_ID # TELNET_ID /\ FTP_ID # RDP_ID /\ FTP_ID # DNS_ID
      /\ TELNET_ID # RDP_ID /\ TELNET_ID # DNS_ID /\ RDP_ID # DNS_ID
  BY DEF AppIds, FTP_ID, TELNET_ID, RDP_ID, DNS_ID
<1>3. /\ Received = n(FTP_ID) + n(TELNET_ID) + n(RDP_ID) + n(DNS_ID)
      /\ Received' = x(FTP_ID) + x(TELNET_ID) + x(RDP_ID) + x(DNS_ID)
  BY DEF Received
<1>4. ASSUME NEW a \in AppIds, NEW m \in Message,
             delivered' = [delivered EXCEPT ![a] = Append(@, m)]
      PROVE  x(a) = n(a) + 1 /\ \A b \in AppIds \ {a} : x(b) = n(b)
  <2>1. delivered'[a] = Append(delivered[a], m) /\ delivered[a] \in Seq(Message)
    BY <1>4 DEF TInv
  <2>2. \A b \in AppIds \ {a} : delivered'[b] = delivered[b]
    BY <1>4 DEF TInv
  <2> QED
    BY <2>1, <2>2
<1> HIDE DEF n, x
<1>5. n(FTP_ID) \in Nat /\ n(TELNET_ID) \in Nat /\ n(RDP_ID) \in Nat /\ n(DNS_ID) \in Nat
  BY <1>1, <1>2
<1>6. ASSUME NEW a \in AppIds, x(a) = n(a) + 1, \A b \in AppIds \ {a} : x(b) = n(b)
      PROVE  Received' = Received + 1
  <2>1. CASE a = FTP_ID
    BY <1>2, <1>3, <1>5, <1>6, <2>1
  <2>2. CASE a = TELNET_ID
    BY <1>2, <1>3, <1>5, <1>6, <2>2
  <2>3. CASE a = RDP_ID
    BY <1>2, <1>3, <1>5, <1>6, <2>3
  <2>4. CASE a = DNS_ID
    BY <1>2, <1>3, <1>5, <1>6, <2>4
  <2> QED
    BY <1>2, <2>1, <2>2, <2>3, <2>4
<1>7. Received \in Nat
  BY <1>3, <1>5
<1> QED
  BY <1>4, <1>6, <1>7

\* A datagram of another program is of a kind that may come.
LEMMA StrayIsWhole ==
  ASSUME NEW d \in Strays, NEW k \in Nat
  PROVE  Stray(d[1], d[2], k) \in Message /\ Whole(Stray(d[1], d[2], k))
<1>1. d[1] \in AppIds /\ d[2] \in 1..4 /\ d = <<d[1], d[2]>>
  BY PerMessageAssumption
<1>2. Stray(d[1], d[2], k) \in Message
  BY <1>1, StrayType
<1>3. /\ StrayFrom(Stray(d[1], d[2], k), 1)
      /\ Stray(d[1], d[2], k).app = d[1] /\ Len(Stray(d[1], d[2], k).hdrs) = d[2]
  BY <1>1, StrayArrives
<1>4. ~Own(Stray(d[1], d[2], k))
  BY <1>3 DEF StrayFrom
<1> QED
  BY <1>1, <1>2, <1>3, <1>4 DEF Whole

\* The initial states satisfy the invariant.
LEMMA MInvInit == Init => MInv
<1> SUFFICES ASSUME Init PROVE MInv
  OBVIOUS
<1>1. net \in Seq(Message) /\ AllWhole(net)
  BY ShortQueue DEF Init
<1>2. \A a \in AppIds : delivered[a] = <<>>
  BY DEF Init
<1>3. TInv
  <2>1. <<>> \in Seq(Message)
    OBVIOUS
  <2>2. /\ pc = [w \in Workers |-> "check"] /\ jobs = <<>>
        /\ mine = [w \in Workers |-> <<>>]
    BY DEF Init, Pool!Init
  <2> QED
    BY <1>1, <2>1, <2>2 DEF Init, TInv, WorkerPCs
<1>4. Waiting /\ InHand
  BY <1>1, ShortQueue DEF Init, Pool!Init, Waiting, InHand
<1>5. Texts /\ Counting
  BY <1>2 DEF Init, Texts, Counting
<1>6. NeverAhead
  <2>1. Received \in Nat /\ rCounter = 0
    BY <1>3, ReceivedGrows DEF Init
  <2> QED
    BY <2>1 DEF NeverAhead
<1> QED
  BY <1>3, <1>4, <1>5, <1>6 DEF MInv

\* One worker moves to a place where it does not start on a job.
LEMMA WorkerMoves ==
  ASSUME MInv, NEW w \in Workers, NEW to \in WorkerPCs \ {"run"},
         pc' = [pc EXCEPT ![w] = to],
         \A v \in Workers \ {w} : mine'[v] = mine[v]
  PROVE  pc' \in [Workers -> WorkerPCs] /\ InHand'
<1>1. pc \in [Workers -> WorkerPCs]
  BY DEF MInv, TInv
<1>2. \A v \in Workers : pc'[v] = IF v = w THEN to ELSE pc[v]
  BY <1>1
<1>3. \A v \in Workers : pc'[v] = "run" => pc[v] = "run" /\ mine'[v] = mine[v]
  BY <1>2
<1> QED
  BY <1>1, <1>3 DEF MInv, InHand

\* A step that delivers nothing and counts nothing.
LEMMA CountsStay ==
  ASSUME MInv, UNCHANGED <<reg, rCounter, delivered>>,
         \A w \in Workers : step'[w] = "count" => step[w] = "count"
  PROVE  Texts' /\ Counting' /\ NeverAhead'
<1>1. Received' = Received
  BY DEF Received
<1> QED
  BY <1>1 DEF MInv, Texts, Counting, NeverAhead

\* Every step keeps the invariant.
LEMMA MInvStep == MInv /\ [Next]_vars => MInv'
<1> SUFFICES ASSUME MInv, [Next]_vars PROVE MInv'
  OBVIOUS
<1>0. /\ TInv /\ AllWhole(net) /\ AllWhole(taken) /\ AllWhole(jobs) /\ InHand
      /\ net \in Seq(Message) /\ taken \in Seq(Message) /\ jobs \in Seq(Message)
      /\ mine \in [Workers -> Seq(Message)]
      /\ step \in [Workers -> {"deliver", "count", "return"}]
      /\ reg \in [Workers -> Nat]
  BY DEF MInv, Waiting, TInv
<1>1. ASSUME NEW a \in Apps, Send(a) PROVE MInv'
  <2>1. /\ UNCHANGED <<strays, taken, pc, jobs, mine, step, reg, rCounter, delivered>>
        /\ sent' = [sent EXCEPT ![a] = @ + 1]
        /\ net' = Append(net, Wrap(a)) \/ net' = net
    BY <1>1 DEF Send, pool, job
  <2>2. sent[a] \in Nat /\ sent' \in [Apps -> Nat]
    BY <1>0, <2>1 DEF TInv
  <2>3. Wrap(a) \in Message /\ Whole(Wrap(a))
    <3>1. Wrap(a).n = sent[a] + 1
      BY DEF Wrap, AddHeader, NewMessage
    <3> QED
      BY <2>2, <3>1, WrapIsWhole DEF Whole, Own
  <2>4. net' \in Seq(Message) /\ AllWhole(net')
    <3>1. Append(net, Wrap(a)) \in Seq(Message) /\ AllWhole(Append(net, Wrap(a)))
      BY <1>0, <2>3, WholeQueue
    <3> QED
      BY <1>0, <2>1, <3>1
  <2>5. TInv' /\ Waiting' /\ InHand'
    BY <1>0, <2>1, <2>2, <2>4 DEF TInv, Waiting, InHand
  <2>6. Texts' /\ Counting' /\ NeverAhead'
    BY <2>1, CountsStay
  <2> QED
    BY <2>5, <2>6 DEF MInv
<1>2. ASSUME Receive PROVE MInv'
  <2>1. /\ UNCHANGED <<sent, strays, pc, jobs, mine, step, reg, rCounter, delivered>>
        /\ net # <<>> /\ net' = Tail(net) /\ taken' = <<Head(net)>>
    BY <1>2 DEF Receive, pool, job
  <2>2. /\ net' \in Seq(Message) /\ AllWhole(net')
        /\ taken' \in Seq(Message) /\ AllWhole(taken')
    BY <1>0, <2>1, WholeQueue, ShortQueue
  <2>3. TInv' /\ Waiting' /\ InHand'
    BY <1>0, <2>1, <2>2 DEF TInv, Waiting, InHand
  <2>4. Texts' /\ Counting' /\ NeverAhead'
    BY <2>1, CountsStay
  <2> QED
    BY <2>3, <2>4 DEF MInv
<1>3. ASSUME HandOver PROVE MInv'
  <2>1. /\ UNCHANGED <<sent, strays, net, mine, step, reg, rCounter, delivered>>
        /\ taken # <<>> /\ taken' = <<>> /\ jobs' = Append(jobs, taken[1])
        /\ Pool!NotifyOne
    BY <1>3 DEF HandOver, Pool!Dispatch, job
  <2>2. taken[1] \in Message /\ Whole(taken[1])
    BY <1>0, <2>1, WholeQueue
  <2>3. /\ jobs' \in Seq(Message) /\ AllWhole(jobs')
        /\ taken' \in Seq(Message) /\ AllWhole(taken')
    BY <1>0, <2>1, <2>2, WholeQueue, ShortQueue
  <2>4. pc' \in [Workers -> WorkerPCs] /\ InHand'
    <3>1. CASE UNCHANGED pc
      BY <1>0, <2>1, <3>1 DEF TInv, InHand
    <3>2. ASSUME NEW w \in Workers, Pool!Goto(w, "waiting", "check")
          PROVE  pc' \in [Workers -> WorkerPCs] /\ InHand'
      BY <2>1, <3>2, WorkerMoves DEF Pool!Goto, WorkerPCs
    <3> QED
      BY <2>1, <3>1, <3>2 DEF Pool!NotifyOne
  <2>5. TInv' /\ Waiting'
    BY <1>0, <2>1, <2>3, <2>4 DEF TInv, Waiting
  <2>6. Texts' /\ Counting' /\ NeverAhead'
    BY <2>1, CountsStay
  <2> QED
    BY <2>4, <2>5, <2>6 DEF MInv
<1>4. ASSUME NEW w \in Workers, UNCHANGED <<wire, job>>, Pool!Take(w) PROVE MInv'
  <2>1. /\ UNCHANGED <<sent, strays, net, taken, step, reg, rCounter, delivered>>
        /\ pc' = [pc EXCEPT ![w] = "run"] /\ jobs # <<>> /\ jobs' = Tail(jobs)
        /\ mine' = [mine EXCEPT ![w] = <<Head(jobs)>>]
    BY <1>4 DEF wire, job, Pool!Take, Pool!Goto
  <2>2. /\ Head(jobs) \in Message /\ Whole(Head(jobs))
        /\ jobs' \in Seq(Message) /\ AllWhole(jobs')
    BY <1>0, <2>1, WholeQueue
  <2>3. pc' \in [Workers -> WorkerPCs] /\ mine' \in [Workers -> Seq(Message)]
    BY <1>0, <2>1, <2>2 DEF TInv, WorkerPCs
  <2>4. InHand'
    <3>1. mine'[w] = <<Head(jobs)>>
      BY <1>0, <2>1
    <3>2. mine'[w] # <<>> /\ mine'[w][1] = Head(jobs)
      BY <3>1
    <3>3. \A v \in Workers \ {w} : pc'[v] = pc[v] /\ mine'[v] = mine[v]
      BY <1>0, <2>1 DEF TInv
    <3> QED
      BY <1>0, <2>2, <3>2, <3>3 DEF InHand
  <2>5. TInv' /\ Waiting'
    BY <1>0, <2>1, <2>2, <2>3 DEF TInv, Waiting
  <2>6. Texts' /\ Counting' /\ NeverAhead'
    BY <2>1, CountsStay
  <2> QED
    BY <2>4, <2>5, <2>6 DEF MInv
<1>5. ASSUME NEW w \in Workers, UNCHANGED <<wire, job>>,
             Pool!Check(w) \/ Pool!Sleep(w) \/ Pool!GiveBack(w) \/ Pool!WakeSpuriously(w)
      PROVE  MInv'
  <2>1. /\ UNCHANGED <<sent, strays, net, taken, jobs, step, reg, rCounter, delivered>>
        /\ \E to \in WorkerPCs \ {"run"} : pc' = [pc EXCEPT ![w] = to]
        /\ mine' = mine \/ mine' = [mine EXCEPT ![w] = <<>>]
    BY <1>5 DEF wire, job, Pool!Check, Pool!Sleep, Pool!GiveBack, Pool!WakeSpuriously,
                Pool!Goto, WorkerPCs
  <2>2. PICK to \in WorkerPCs \ {"run"} : pc' = [pc EXCEPT ![w] = to]
    BY <2>1
  <2>3. mine' \in [Workers -> Seq(Message)] /\ \A v \in Workers \ {w} : mine'[v] = mine[v]
    BY <1>0, <2>1, ShortQueue
  <2>4. pc' \in [Workers -> WorkerPCs] /\ InHand'
    BY <2>2, <2>3, WorkerMoves
  <2>5. TInv' /\ Waiting'
    BY <1>0, <2>1, <2>3, <2>4 DEF TInv, Waiting
  <2>6. Texts' /\ Counting' /\ NeverAhead'
    BY <2>1, CountsStay
  <2> QED
    BY <2>4, <2>5, <2>6 DEF MInv
<1>6. ASSUME NEW w \in Workers, Deliver(w) PROVE MInv'
  <2> DEFINE m == mine[w][1]
             m1 == StripHeader(m, ETHERNET_ID)
             m2 == StripHeader(m1, IP_ID)
             text(t, a) == StripHeader(StripHeader(m2, t), a)
  <2>1. /\ pc[w] = "run"
        /\ UNCHANGED <<sent, strays, net, taken, pc, jobs, mine, rCounter>>
    BY <1>6 DEF Deliver, At, wire, pool
  <2>2. m \in Message /\ Whole(m)
    <3>1. mine[w] \in Seq(Message) /\ mine[w] # <<>> /\ Whole(m)
      BY <1>0, <2>1 DEF InHand
    <3> QED
      BY <3>1
  <2>3. /\ UNCHANGED <<sent, strays, net, taken, pc, jobs, mine, rCounter>>
        /\ Waiting' /\ InHand'
    BY <1>0, <2>1 DEF Waiting, InHand
  <2>4. ASSUME Refuse(w) PROVE MInv'
    <3>1. UNCHANGED <<reg, delivered>> /\ step' = [step EXCEPT ![w] = "return"]
      BY <2>4 DEF Refuse
    <3>2. TInv'
      BY <1>0, <2>3, <3>1 DEF TInv
    <3>3. \A v \in Workers : step'[v] = "count" => step[v] = "count"
      BY <1>0, <3>1
    <3>4. Texts' /\ Counting' /\ NeverAhead'
      BY <2>3, <3>1, <3>3, CountsStay
    <3> QED
      BY <2>3, <3>2, <3>4 DEF MInv
  <2>5. ASSUME NEW t \in HlpIn(m1), t \in Accepts(IP_ID),
               NEW a \in HlpIn(m2), a \in Accepts(t),
               Accept(w, a, StripHeader(m2, t))
        PROVE  MInv'
    <3>1. a \in AppIds /\ text(t, a) \in Message /\ Bare(a, text(t, a))
      BY <2>2, <2>5, UnwrapIsBare
    <3>2. /\ step' = [step EXCEPT ![w] = "count"] /\ reg' = [reg EXCEPT ![w] = rCounter]
          /\ delivered' = [delivered EXCEPT ![a] = Append(@, text(t, a))]
      BY <2>5 DEF Accept
    <3> HIDE DEF text, m1, m2
    <3>3. PICK x \in Message : x = text(t, a)
      BY <3>1
    <3>4. delivered' = [delivered EXCEPT ![a] = Append(@, x)] /\ Bare(a, x)
      BY <3>1, <3>2, <3>3
    <3>5. /\ delivered \in [AppIds -> Seq(Message)] /\ delivered[a] \in Seq(Message)
          /\ rCounter \in Nat
      BY <1>0, <3>1 DEF TInv
    <3>6. /\ delivered'[a] = Append(delivered[a], x)
          /\ \A b \in AppIds \ {a} : delivered'[b] = delivered[b]
      BY <3>1, <3>4, <3>5
    <3>7. TInv'
      BY <1>0, <2>3, <3>1, <3>2, <3>4, <3>5 DEF TInv
    <3>8. Texts'
      <4>1. ASSUME NEW b \in AppIds, NEW i \in 1..Len(delivered'[b])
            PROVE  Bare(b, delivered'[b][i])
        <5>1. CASE b = a
          <6>1. /\ Len(Append(delivered[a], x)) = Len(delivered[a]) + 1
                /\ \A k \in 1..(Len(delivered[a]) + 1) :
                      Append(delivered[a], x)[k] =
                          IF k <= Len(delivered[a]) THEN delivered[a][k] ELSE x
            BY <3>5
          <6>2. \A k \in 1..Len(delivered[a]) : Bare(a, delivered[a][k])
            BY <3>1 DEF MInv, Texts
          <6> QED
            BY <3>4, <3>5, <3>6, <4>1, <5>1, <6>1, <6>2
        <5>2. CASE b # a
          BY <3>6, <4>1, <5>2 DEF MInv, Texts
        <5> QED
          BY <5>1, <5>2
      <4> QED
        BY <4>1 DEF Texts
    <3>9. Received' = Received + 1 /\ Received \in Nat /\ rCounter <= Received
      BY <1>0, <3>1, <3>4, ReceivedGrows DEF MInv, NeverAhead
    <3>10. Counting'
      <4>1. ASSUME NEW v \in Workers, step'[v] = "count" PROVE reg'[v] < Received'
        <5>1. CASE v = w
          <6>1. reg'[v] = rCounter
            BY <1>0, <3>2, <5>1
          <6> QED
            BY <3>5, <3>9, <6>1
        <5>2. CASE v # w
          <6>1. step[v] = "count" /\ reg'[v] = reg[v] /\ reg[v] \in Nat
            BY <1>0, <3>2, <4>1, <5>2
          <6>2. reg[v] < Received
            BY <6>1 DEF MInv, Counting
          <6> QED
            BY <3>9, <6>1, <6>2
        <5> QED
          BY <5>1, <5>2
      <4> QED
        BY <4>1 DEF Counting
    <3>11. NeverAhead'
      BY <2>3, <3>5, <3>9 DEF NeverAhead
    <3> QED
      BY <2>3, <3>7, <3>8, <3>10, <3>11 DEF MInv
  <2>6. \E t \in HlpIn(m1) :
           IF t \notin Accepts(IP_ID) THEN Refuse(w)
           ELSE \E a \in HlpIn(m2) :
                   IF a \notin Accepts(t) THEN Refuse(w) ELSE Accept(w, a, StripHeader(m2, t))
    BY <1>6 DEF Deliver
  <2> QED
    BY <2>4, <2>5, <2>6
<1>7. ASSUME NEW w \in Workers, Count(w) PROVE MInv'
  <2>1. /\ UNCHANGED <<sent, strays, net, taken, pc, jobs, mine, delivered>> /\ step[w] = "count"
        /\ rCounter' = reg[w] + 1 /\ reg' = [reg EXCEPT ![w] = 0]
        /\ step' = [step EXCEPT ![w] = "return"]
    BY <1>7 DEF Count, At, wire, pool
  <2>2. TInv' /\ Waiting' /\ InHand'
    BY <1>0, <2>1 DEF TInv, Waiting, InHand
  <2>3. Received' = Received /\ Texts'
    BY <2>1 DEF Received, MInv, Texts
  <2>4. NeverAhead'
    <3>1. reg[w] < Received /\ reg[w] \in Nat /\ Received \in Nat
      BY <1>0, <2>1, ReceivedGrows DEF MInv, Counting
    <3> QED
      BY <2>1, <2>3, <3>1 DEF NeverAhead
  <2>5. Counting'
    <3>1. \A v \in Workers : step'[v] = "count" => step[v] = "count" /\ reg'[v] = reg[v]
      BY <1>0, <2>1
    <3> QED
      BY <2>3, <3>1 DEF MInv, Counting
  <2> QED
    BY <2>2, <2>3, <2>4, <2>5 DEF MInv
<1>8. ASSUME NEW w \in Workers, Return(w) PROVE MInv'
  <2>1. /\ UNCHANGED <<sent, strays, net, taken, jobs, mine, reg, rCounter, delivered>>
        /\ pc' = [pc EXCEPT ![w] = "finish"] /\ step' = [step EXCEPT ![w] = "deliver"]
    BY <1>8 DEF Return, wire, Pool!Return, Pool!Goto
  <2>2. pc' \in [Workers -> WorkerPCs] /\ InHand'
    BY <2>1, WorkerMoves DEF WorkerPCs
  <2>3. TInv' /\ Waiting'
    BY <1>0, <2>1, <2>2 DEF TInv, Waiting
  <2>4. \A v \in Workers : step'[v] = "count" => step[v] = "count"
    BY <1>0, <2>1
  <2>5. Texts' /\ Counting' /\ NeverAhead'
    BY <2>1, <2>4, CountsStay
  <2> QED
    BY <2>2, <2>3, <2>5 DEF MInv
<1>10. ASSUME NEW d \in Strays, Intrude(d[1], d[2]) PROVE MInv'
  <2>1. /\ UNCHANGED <<sent, taken, pc, jobs, mine, step, reg, rCounter, delivered>>
        /\ strays' = strays + 1 /\ net' = Append(net, Stray(d[1], d[2], strays + 1))
    BY <1>10 DEF Intrude, pool, job
  <2>2. /\ Stray(d[1], d[2], strays + 1) \in Message
        /\ Whole(Stray(d[1], d[2], strays + 1)) /\ strays' \in Nat
    <3>1. strays \in Nat /\ strays + 1 \in Nat
      BY <1>0 DEF TInv
    <3> QED
      BY <2>1, <3>1, StrayIsWhole
  <2>3. net' \in Seq(Message) /\ AllWhole(net')
    BY <1>0, <2>1, <2>2, WholeQueue
  <2>4. TInv' /\ Waiting' /\ InHand'
    BY <1>0, <2>1, <2>2, <2>3 DEF TInv, Waiting, InHand
  <2>5. Texts' /\ Counting' /\ NeverAhead'
    BY <2>1, CountsStay
  <2> QED
    BY <2>4, <2>5 DEF MInv
<1>9. CASE UNCHANGED vars
  <2>1. UNCHANGED <<sent, strays, net, taken, pc, jobs, mine, step, reg, rCounter, delivered>>
    BY <1>9 DEF vars, wire, pool, job
  <2>2. TInv' /\ Waiting' /\ InHand'
    BY <1>0, <2>1 DEF TInv, Waiting, InHand
  <2>3. Texts' /\ Counting' /\ NeverAhead'
    BY <2>1, CountsStay
  <2> QED
    BY <2>2, <2>3 DEF MInv
<1> QED
  BY <1>1, <1>2, <1>3, <1>4, <1>5, <1>6, <1>7, <1>8, <1>9, <1>10
     DEF Next, Worker, PoolStep, WakeSpuriously, Wait

\* The inductive invariant holds in every state.
THEOREM MessageInvariant == Spec => []MInv
  BY MInvInit, MInvStep, PTL DEF Spec

\* Every datagram of this program in the socket buffer, in the listening thread
\* or in the pool carries the four headers of its application's path.
THEOREM DatagramsWellFormed == Spec => []WellFormed
<1>1. MInv => WellFormed
  <2> SUFFICES ASSUME MInv PROVE WellFormed
    OBVIOUS
  <2>1. net \in Seq(Message) /\ taken \in Seq(Message) /\ jobs \in Seq(Message)
    BY DEF MInv, TInv
  <2>2. /\ \A i \in DOMAIN net : Whole(net[i])
        /\ \A i \in DOMAIN taken : Whole(taken[i])
        /\ \A i \in DOMAIN jobs : Whole(jobs[i])
    BY <2>1 DEF MInv, Waiting, AllWhole
  <2> QED
    BY <2>2 DEF WellFormed, Whole
<1> QED
  BY <1>1, MessageInvariant, PTL

\* What Deliver does: it drops its message, or gives an application the text.
LEMMA DeliverCases ==
  ASSUME MInv, NEW w \in Workers, Deliver(w)
  PROVE  \/ Refuse(w)
         \/ \E a \in AppIds, x \in Message :
               /\ x.app = mine[w][1].app /\ x.n = mine[w][1].n
               /\ Bare(a, x) /\ Addressed(a, mine[w][1], x) /\ (~Own(x) => a \in Reachable)
               /\ step' = [step EXCEPT ![w] = "count"]
               /\ delivered' = [delivered EXCEPT ![a] = Append(@, x)]
<1> DEFINE m == mine[w][1]
           m1 == StripHeader(m, ETHERNET_ID)
           m2 == StripHeader(m1, IP_ID)
           text(t, a) == StripHeader(StripHeader(m2, t), a)
<1>1. m \in Message /\ Whole(m)
  <2>1. pc[w] = "run" /\ mine[w] \in Seq(Message)
    BY DEF Deliver, At, MInv, TInv
  <2>2. mine[w] # <<>> /\ Whole(m)
    BY <2>1 DEF MInv, InHand
  <2> QED
    BY <2>1, <2>2
<1>2. \E t \in HlpIn(m1) :
         IF t \notin Accepts(IP_ID) THEN Refuse(w)
         ELSE \E a \in HlpIn(m2) :
                 IF a \notin Accepts(t) THEN Refuse(w) ELSE Accept(w, a, StripHeader(m2, t))
  BY DEF Deliver
<1>3. ASSUME NEW t \in HlpIn(m1), t \in Accepts(IP_ID), NEW a \in HlpIn(m2), a \in Accepts(t),
             Accept(w, a, StripHeader(m2, t))
      PROVE  \E b \in AppIds, x \in Message :
               /\ x.app = m.app /\ x.n = m.n
               /\ Bare(b, x) /\ Addressed(b, m, x) /\ (~Own(x) => b \in Reachable)
               /\ step' = [step EXCEPT ![w] = "count"]
               /\ delivered' = [delivered EXCEPT ![b] = Append(@, x)]
  <2>1. /\ a \in AppIds /\ text(t, a) \in Message /\ Bare(a, text(t, a))
        /\ Addressed(a, m, text(t, a)) /\ (~Own(m) => a \in Reachable)
    BY <1>1, <1>3, UnwrapIsBare
  <2>2. text(t, a).app = m.app /\ text(t, a).n = m.n
    BY DEF StripHeader
  <2>3. /\ step' = [step EXCEPT ![w] = "count"]
        /\ delivered' = [delivered EXCEPT ![a] = Append(@, text(t, a))]
    BY <1>3 DEF Accept
  <2>4. ~Own(text(t, a)) => a \in Reachable
    BY <2>1, <2>2 DEF Own
  <2> HIDE DEF text, m
  <2> QED
    BY <2>1, <2>2, <2>3, <2>4
<1> QED
  BY <1>2, <1>3

\* A worker that counts a message has given it to the application addressed.
Shown == \A w \in Workers : At(w, "count") =>
             LET m == mine[w][1] IN
             \/ Len(m.hdrs) = 4 /\ Reached(m.app, m)
             \/ m.hdrs[1].hlp # IP_ID

\* A worker without a job is ready to start on one.
Starting == \A w \in Workers : pc[w] # "run" => step[w] = "deliver"

\* A worker leaves its job only by Return.
LEMMA StartingStep == MInv /\ Starting /\ [Next]_vars => Starting'
<1> SUFFICES ASSUME MInv, Starting, [Next]_vars PROVE Starting'
  OBVIOUS
<1>0. /\ pc \in [Workers -> WorkerPCs]
      /\ step \in [Workers -> {"deliver", "count", "return"}]
  BY DEF MInv, TInv
<1>1. ASSUME UNCHANGED step, \A w \in Workers : pc[w] = "run" => pc'[w] = "run"
      PROVE  Starting'
  BY <1>1 DEF Starting
<1>2. ASSUME NEW w \in Workers, Deliver(w) \/ Count(w) PROVE Starting'
  <2>1. UNCHANGED pc /\ pc[w] = "run" /\ \A v \in Workers \ {w} : step'[v] = step[v]
    BY <1>0, <1>2 DEF Deliver, Count, At, pool, Refuse, Accept
  <2> QED
    BY <2>1 DEF Starting
<1>3. ASSUME NEW w \in Workers, Return(w) PROVE Starting'
  <2>1. pc' = [pc EXCEPT ![w] = "finish"] /\ step' = [step EXCEPT ![w] = "deliver"]
    BY <1>3 DEF Return, Pool!Return, Pool!Goto
  <2> QED
    BY <1>0, <2>1 DEF Starting
<1>4. ASSUME NEW w \in Workers, PoolStep(w) \/ WakeSpuriously(w) PROVE Starting'
  <2>1. UNCHANGED step /\ \E to \in WorkerPCs : pc' = [pc EXCEPT ![w] = to] /\ (pc[w] # "run" \/ to = "run")
    BY <1>4 DEF PoolStep, WakeSpuriously, job, Pool!Check, Pool!Sleep, Pool!Take, Pool!GiveBack,
                Pool!WakeSpuriously, Pool!Goto, WorkerPCs
  <2> QED
    BY <1>0, <1>1, <2>1
<1>5. ASSUME HandOver PROVE Starting'
  <2>1. UNCHANGED step /\ Pool!NotifyOne
    BY <1>5 DEF HandOver, Pool!Dispatch, job
  <2>2. \A v \in Workers : pc[v] = "run" => pc'[v] = "run"
    BY <1>0, <2>1 DEF Pool!NotifyOne, Pool!Goto
  <2> QED
    BY <1>1, <2>1, <2>2
<1>6. ASSUME UNCHANGED <<pool, job>> PROVE Starting'
  BY <1>1, <1>6 DEF pool, job
<1> QED
  BY <1>2, <1>3, <1>4, <1>5, <1>6
     DEF Next, Send, Intrude, Receive, Worker, Wait, vars

\* Whatever the other workers do meanwhile, it stays received.
LEMMA ShownStep == MInv /\ Starting /\ Shown /\ [Next]_vars => Shown'
<1> SUFFICES ASSUME MInv, Starting, Shown, [Next]_vars PROVE Shown'
  OBVIOUS
<1>0. /\ pc \in [Workers -> WorkerPCs] /\ mine \in [Workers -> Seq(Message)]
      /\ step \in [Workers -> {"deliver", "count", "return"}]
      /\ delivered \in [AppIds -> Seq(Message)]
  BY DEF MInv, TInv
<1>1. ASSUME UNCHANGED delivered,
             \A w \in Workers : At(w, "count")' => At(w, "count") /\ mine'[w] = mine[w]
      PROVE  Shown'
  BY <1>1 DEF Shown, Reached
<1>2. ASSUME NEW w \in Workers, Deliver(w) PROVE Shown'
  <2>1. UNCHANGED <<pc, mine>> /\ pc[w] = "run"
    BY <1>2 DEF Deliver, At, pool
  <2>2. CASE Refuse(w)
    <3>1. UNCHANGED delivered /\ step' = [step EXCEPT ![w] = "return"]
      BY <2>2 DEF Refuse
    <3>2. \A v \in Workers : step'[v] = "count" => step[v] = "count"
      BY <1>0, <3>1
    <3> QED
      BY <1>1, <2>1, <3>1, <3>2 DEF At
  <2>3. ASSUME NEW a \in AppIds, NEW x \in Message,
               x.n = mine[w][1].n, Addressed(a, mine[w][1], x),
               step' = [step EXCEPT ![w] = "count"],
               delivered' = [delivered EXCEPT ![a] = Append(@, x)]
        PROVE  Shown'
    <3>1. /\ delivered[a] \in Seq(Message) /\ delivered'[a] = Append(delivered[a], x)
          /\ \A b \in AppIds \ {a} : delivered'[b] = delivered[b]
      BY <1>0, <2>3
    <3>2. /\ DOMAIN delivered[a] = 1..Len(delivered[a]) /\ Len(delivered[a]) \in Nat
          /\ DOMAIN delivered'[a] = 1..(Len(delivered[a]) + 1)
          /\ \A i \in 1..Len(delivered[a]) : delivered'[a][i] = delivered[a][i]
          /\ delivered'[a][Len(delivered[a]) + 1] = x
      BY <3>1, AppendProperties, LenProperties
    <3>3. \A b \in AppIds : \A m : Reached(b, m) => Reached(b, m)'
      <4>1. \A i \in DOMAIN delivered[a] : i \in DOMAIN delivered'[a]
        BY <3>2
      <4> QED
        BY <3>1, <3>2, <4>1 DEF Reached
    <3>4. x.hdrs = <<>> => Reached(a, mine[w][1])'
      BY <2>1, <2>3, <3>2, Len(delivered[a]) + 1 \in 1..(Len(delivered[a]) + 1) DEF Reached
    <3>5. ASSUME NEW v \in Workers, At(v, "count")'
          PROVE  LET m == mine[v][1] IN
                 \/ Len(m.hdrs) = 4 /\ Reached(m.app, m)'
                 \/ m.hdrs[1].hlp # IP_ID
      <4>1. CASE v = w
        BY <2>1, <2>3, <3>4, <4>1 DEF Addressed
      <4>2. CASE v # w
        <5>1. At(v, "count") /\ mine[v] # <<>> /\ mine[v] \in Seq(Message)
          BY <1>0, <2>1, <2>3, <3>5, <4>2 DEF At, MInv, InHand
        <5>2. mine[v][1].app \in AppIds
          <6>1. \A s \in Seq(Message) : s # <<>> => s[1] \in Message
            OBVIOUS
          <6>2. mine[v][1] \in Message
            BY <5>1, <6>1
          <6> QED
            BY <6>2 DEF Message
        <5>0. PICK y : y = mine[v][1]
          OBVIOUS
        <5>3. (Len(y.hdrs) = 4 /\ Reached(y.app, y)) \/ y.hdrs[1].hlp # IP_ID
          BY <5>0, <5>1 DEF Shown
        <5>4. Reached(y.app, y) => Reached(y.app, y)'
          BY <3>3, <5>0, <5>2
        <5>5. (Len(y.hdrs) = 4 /\ Reached(y.app, y)') \/ y.hdrs[1].hlp # IP_ID
          BY <5>3, <5>4
        <5> QED
          BY <2>1, <5>0, <5>5
      <4> QED
        BY <4>1, <4>2
    <3> QED
      BY <2>1, <3>5 DEF Shown
  <2> QED
    BY <1>2, <2>2, <2>3, DeliverCases
<1>3. ASSUME NEW w \in Workers, Count(w) \/ Return(w) PROVE Shown'
  <2>1. /\ UNCHANGED <<mine, delivered>>
        /\ \/ pc' = pc /\ step' = [step EXCEPT ![w] = "return"]
           \/ pc' = [pc EXCEPT ![w] = "finish"] /\ step' = [step EXCEPT ![w] = "deliver"]
    BY <1>3 DEF Count, Return, wire, pool, Pool!Return, Pool!Goto
  <2>2. \A v \in Workers : At(v, "count")' => At(v, "count")
    BY <1>0, <2>1 DEF At
  <2> QED
    BY <1>1, <2>1, <2>2
<1>4. ASSUME NEW w \in Workers, PoolStep(w) \/ WakeSpuriously(w) PROVE Shown'
  <2>1. CASE Pool!Take(w) /\ UNCHANGED job
    <3>1. /\ UNCHANGED <<step, delivered>> /\ pc[w] = "enter"
          /\ pc' = [pc EXCEPT ![w] = "run"] /\ mine' = [mine EXCEPT ![w] = <<Head(jobs)>>]
      BY <2>1 DEF job, Pool!Take, Pool!Goto
    <3>2. step[w] # "count"
      BY <3>1 DEF Starting
    <3> QED
      BY <1>0, <1>1, <3>1, <3>2 DEF At
  <2>2. CASE (Pool!Check(w) \/ Pool!Sleep(w) \/ Pool!GiveBack(w) \/ Pool!WakeSpuriously(w))
             /\ UNCHANGED job
    <3>1. /\ UNCHANGED <<step, delivered>>
          /\ \E to \in WorkerPCs \ {"run"} : pc' = [pc EXCEPT ![w] = to]
          /\ mine' = mine \/ mine' = [mine EXCEPT ![w] = <<>>]
      BY <2>2 DEF job, Pool!Check, Pool!Sleep, Pool!GiveBack, Pool!WakeSpuriously,
                  Pool!Goto, WorkerPCs
    <3>2. \A v \in Workers : pc'[v] = "run" => pc[v] = "run" /\ mine'[v] = mine[v]
      BY <1>0, <3>1
    <3> QED
      BY <1>1, <3>1, <3>2 DEF At
  <2> QED
    BY <1>4, <2>1, <2>2 DEF PoolStep, WakeSpuriously
<1>5. ASSUME HandOver PROVE Shown'
  <2>1. UNCHANGED <<mine, step, delivered>> /\ Pool!NotifyOne
    BY <1>5 DEF HandOver, Pool!Dispatch, job
  <2>2. \A v \in Workers : pc'[v] = "run" => pc[v] = "run"
    BY <1>0, <2>1 DEF Pool!NotifyOne, Pool!Goto
  <2> QED
    BY <1>1, <2>1, <2>2 DEF At
<1>6. ASSUME UNCHANGED <<pool, job>> PROVE Shown'
  BY <1>1, <1>6 DEF pool, job, At
<1> QED
  BY <1>2, <1>3, <1>4, <1>5, <1>6
     DEF Next, Send, Intrude, Receive, Worker, Wait, vars

\* A message of this program is received by its peer alone, with its text whole; and
\* whatever datagram a worker has given to an application, this program's or
\* another's, went where four valid headers name it, unless the hlp of the outermost
\* is wrong.
THEOREM TextsUnwrapped == Spec => []Unwrapped
<1>1. Init => Shown /\ Starting
  BY DEF Init, Shown, Starting, At, Pool!Init
<1>2. MInv /\ Shown => Unwrapped
  <2> SUFFICES ASSUME MInv, Shown, NEW a \in AppIds, NEW i \in DOMAIN delivered[a]
               PROVE  Bare(a, delivered[a][i])
    BY DEF Unwrapped, Bare, Shown
  <2>1. delivered[a] \in Seq(Message)
    BY DEF MInv, TInv
  <2> QED
    BY <2>1 DEF MInv, Texts
<1> QED
  BY <1>1, <1>2, MessageInvariant, ShownStep, StartingStep, PTL DEF Spec

\* The unlocked counter never runs ahead of the messages received, whatever the
\* number of workers that count at once.
THEOREM CounterNeverAhead == Spec => []NeverAhead
<1>1. MInv => NeverAhead
  BY DEF MInv
<1> QED
  BY <1>1, MessageInvariant, PTL
-----------------------------------------------------------------------------
(* The pool inside the stack is the pool of ThreadPool, so that what is    *)
(* proved of that one holds of it too.                                     *)

\* ThreadPool and what is proved of it, for the pool of the stack.
PoolThms == INSTANCE ThreadPoolProofs WITH Job <- Message, MaxJobs <- MaxDatagrams

\* Each instance brings definitions of finite sets and cardinality of its own.
LEMMA SetsOfPool ==
  ASSUME NEW S
  PROVE  /\ PoolThms!IsFiniteSet(S) <=> IsFiniteSet(S)
         /\ PoolThms!Cardinality(S) = Cardinality(S)
         /\ Pool!Cardinality(S) = Cardinality(S)
<1>1. PoolThms!IsFiniteSet(S) <=> IsFiniteSet(S)
  BY DEF PoolThms!IsFiniteSet, IsFiniteSet
<1>2. PoolThms!Cardinality(S) = Cardinality(S)
  BY DEF PoolThms!Cardinality, Cardinality
<1>3. Pool!Cardinality(S) = Cardinality(S)
  BY DEF Pool!Cardinality, Cardinality
<1> QED
  BY <1>1, <1>2, <1>3

\* The two instances of the module say the same.
LEMMA SamePool ==
  /\ Pool!TypeOK <=> PoolThms!TypeOK
  /\ Pool!Init <=> PoolThms!Init
  /\ Pool!vars = PoolThms!vars
  /\ Pool!Next <=> PoolThms!Next
<1>1. Pool!TypeOK <=> PoolThms!TypeOK
  BY SetsOfPool DEF Pool!TypeOK, PoolThms!TypeOK
<1>2. Pool!Init <=> PoolThms!Init
  BY SetsOfPool DEF Pool!Init, PoolThms!Init
<1>3. Pool!vars = PoolThms!vars
  BY DEF Pool!vars, PoolThms!vars
<1>4. \A w \in Workers : Pool!Work(w) <=> PoolThms!Work(w)
  BY DEF Pool!Work, Pool!Check, Pool!Sleep, Pool!Take, Pool!Return, Pool!GiveBack, Pool!Goto,
         PoolThms!Work, PoolThms!Check, PoolThms!Sleep, PoolThms!Take, PoolThms!Return,
         PoolThms!GiveBack, PoolThms!Goto
<1>5. \A w \in Workers : Pool!WakeSpuriously(w) <=> PoolThms!WakeSpuriously(w)
  BY DEF Pool!WakeSpuriously, Pool!Goto, PoolThms!WakeSpuriously, PoolThms!Goto
<1>6. \A j \in Message : Pool!Dispatch(j) <=> PoolThms!Dispatch(j)
  BY DEF Pool!Dispatch, Pool!NotifyOne, Pool!Goto,
         PoolThms!Dispatch, PoolThms!NotifyOne, PoolThms!Goto
<1>7. (Pool!Terminate <=> PoolThms!Terminate) /\ (Pool!Join <=> PoolThms!Join)
  BY DEF Pool!Terminate, Pool!NotifyAll, Pool!Join,
         PoolThms!Terminate, PoolThms!NotifyAll, PoolThms!Join
<1>8. Pool!Next <=> PoolThms!Next
  BY <1>4, <1>5, <1>6, <1>7 DEF Pool!Next, PoolThms!Next
<1> QED
  BY <1>1, <1>2, <1>3, <1>8

\* The datagrams the model lets the pool accept.
LEMMA DatagramBound == MaxDatagrams \in Nat /\ PoolThms!ThreadPoolAssumption
<1>1. IsFiniteSet(Apps)
  <2>1. IsFiniteSet({FTP_ID, TELNET_ID, RDP_ID} \cup {DNS_ID})
    <3>1. IsFiniteSet({FTP_ID})
      BY FS_Singleton
    <3>2. IsFiniteSet({FTP_ID} \cup {TELNET_ID})
      BY <3>1, FS_AddElement
    <3>3. IsFiniteSet(({FTP_ID} \cup {TELNET_ID}) \cup {RDP_ID})
      BY <3>2, FS_AddElement
    <3>4. IsFiniteSet((({FTP_ID} \cup {TELNET_ID}) \cup {RDP_ID}) \cup {DNS_ID})
      BY <3>3, FS_AddElement
    <3>5. ((({FTP_ID} \cup {TELNET_ID}) \cup {RDP_ID}) \cup {DNS_ID})
             = {FTP_ID, TELNET_ID, RDP_ID} \cup {DNS_ID}
      OBVIOUS
    <3> QED
      BY <3>4, <3>5
  <2>2. Apps \subseteq {FTP_ID, TELNET_ID, RDP_ID} \cup {DNS_ID}
    BY PerMessageAssumption DEF AppIds
  <2> QED
    BY <2>1, <2>2, FS_Subset
<1>2. Cardinality(Apps) \in Nat /\ MaxMsgs \in Nat
  BY <1>1, FS_CardinalityType, PerMessageAssumption
<1>3. MaxDatagrams \in Nat
  <2>1. Cardinality(Apps) * MaxMsgs \in Nat /\ MaxStrays \in Nat
    BY <1>2, PerMessageAssumption
  <2> QED
    BY <2>1 DEF MaxDatagrams
<1> QED
  BY <1>3, SetsOfPool, PerMessageAssumption DEF PoolThms!ThreadPoolAssumption

\* A step of the stack is one of the pool or leaves it alone.
LEMMA StackStepsPool == MInv /\ [Next]_vars => [Pool!Next]_Pool!vars
<1> SUFFICES ASSUME MInv, [Next]_vars PROVE Pool!Next \/ UNCHANGED Pool!vars
  OBVIOUS
<1>1. ASSUME UNCHANGED pool PROVE UNCHANGED Pool!vars
  BY <1>1 DEF pool, Pool!vars
<1>2. ASSUME NEW a \in Apps, Send(a) PROVE UNCHANGED pool
  BY <1>2 DEF Send
<1>8. ASSUME NEW x \in Strays, Intrude(x[1], x[2]) PROVE UNCHANGED pool
  BY <1>8 DEF Intrude
<1>3. ASSUME Receive PROVE UNCHANGED pool
  BY <1>3 DEF Receive
<1>4. ASSUME HandOver PROVE Pool!Next
  <2>1. taken[1] \in Message
    BY <1>4 DEF HandOver, MInv, TInv
  <2>2. Pool!Dispatch(taken[1])
    BY <1>4 DEF HandOver
  <2> QED
    BY <2>1, <2>2 DEF Pool!Next
<1>5. ASSUME NEW w \in Workers, PoolStep(w) \/ WakeSpuriously(w) \/ Return(w) PROVE Pool!Next
  BY <1>5 DEF PoolStep, WakeSpuriously, Return, Pool!Next, Pool!Work
<1>6. ASSUME NEW w \in Workers, Deliver(w) \/ Count(w) PROVE UNCHANGED pool
  BY <1>6 DEF Deliver, Count
<1>7. ASSUME Wait \/ UNCHANGED vars PROVE UNCHANGED pool
  BY <1>7 DEF Wait, vars
<1> QED
  BY <1>1, <1>2, <1>3, <1>4, <1>5, <1>6, <1>7, <1>8 DEF Next, Worker

\* The stack uses its pool as ThreadPool allows: whatever the datagrams, the pool
\* in it makes only steps of a ThreadPool.
THEOREM StackRunsPool == Spec => Pool!Spec
<1>1. Init => Pool!Init
  BY DEF Init
<1> QED
  BY <1>1, StackStepsPool, MessageInvariant, PTL DEF Spec, Pool!Spec

\* So the invariant of ThreadPool holds of it.
LEMMA PoolKept == Spec => []PoolThms!PoolInv
<1>0. [Pool!Next]_Pool!vars => [PoolThms!Next]_PoolThms!vars
  BY SamePool DEF Pool!vars, PoolThms!vars
<1>1. Pool!Spec => PoolThms!Spec
  BY <1>0, SamePool, PTL DEF Pool!Spec, PoolThms!Spec
<1>2. PoolThms!Spec => []PoolThms!PoolInv
  BY PoolThms!PoolInvariant, DatagramBound
<1> QED
  BY <1>1, <1>2, StackRunsPool

\* Every state of the process-per-message stack is well typed, its pool included:
\* no interleaving takes availableThreads out of 0..n or more than MaxMsgs messages
\* from an application.
THEOREM MessageTypes == Spec => []TypeOK
<1> DEFINE SentOK == sent \in [Apps -> 0..MaxMsgs] /\ strays \in 0..MaxStrays
<1>1. Init => SentOK
  BY PerMessageAssumption DEF Init
<1>2. SentOK /\ [Next]_vars => SentOK'
  <2> SUFFICES ASSUME SentOK, [Next]_vars PROVE SentOK'
    OBVIOUS
  <2>1. ASSUME NEW a \in Apps, Send(a) PROVE SentOK'
    BY <2>1, PerMessageAssumption DEF Send
  <2>2. ASSUME NEW x \in Strays, Intrude(x[1], x[2]) PROVE SentOK'
    BY <2>2, PerMessageAssumption DEF Intrude
  <2>3. CASE UNCHANGED <<sent, strays>>
    BY <2>3
  <2> QED
    BY <2>1, <2>2, <2>3
       DEF Next, Receive, HandOver, Worker, PoolStep, WakeSpuriously, Deliver, Count, Return,
           Wait, vars, wire
<1>3. MInv /\ SentOK /\ PoolThms!PoolInv => TypeOK
  <2>1. PoolThms!PoolInv => Pool!TypeOK
    BY SamePool DEF PoolThms!PoolInv
  <2> QED
    BY <2>1 DEF MInv, TInv, TypeOK
<1> QED
  BY <1>1, <1>2, <1>3, MessageInvariant, PoolKept, PTL DEF Spec

-----------------------------------------------------------------------------
(* Each message is at one place at most                                    *)

\* A queue is its head and its tail, also with another behind it.
LEMMA HeadAndTail ==
  ASSUME NEW S, NEW s \in Seq(S), NEW t \in Seq(S), s # <<>>
  PROVE  /\ Head(s) \in S /\ Tail(s) \in Seq(S)
         /\ s = <<Head(s)>> \o Tail(s)
         /\ s \o t # <<>> /\ Head(s \o t) = Head(s) /\ Tail(s \o t) = Tail(s) \o t
<1>1. Head(s) \in S /\ Head(s) = s[1] /\ Tail(s) \in Seq(S) /\ 1 \in 1..Len(s)
  OBVIOUS
<1>2. s = <<Head(s)>> \o Tail(s)
  <2>1. SubSeq(s, 1, Len(s)) = <<s[1]>> \o SubSeq(s, 1 + 1, Len(s))
    BY <1>1, SubSeqRecursiveFirst, Len(s) \in 1..Len(s)
  <2> QED
    BY <1>1, <2>1, SubSeqFull, TailIsSubSeq, 1 + 1 = 2
<1> DEFINE r == Tail(s) \o t
           c == <<Head(s)>> \o r
<1>3. s \o t = c
  <2>1. <<Head(s)>> \in Seq(S)
    BY <1>1
  <2> QED
    BY <1>1, <1>2, <2>1, ConcatAssociative
<1>4. r \in Seq(S) /\ Len(r) \in Nat
  BY <1>1, ConcatProperties
<1>5. c \in Seq(S) /\ Len(c) = Len(r) + 1 /\ c[1] = Head(s) /\ \A i \in 1..Len(r) : c[i + 1] = r[i]
  <2> HIDE DEF r
  <2>1. <<Head(s)>> \in Seq(S) /\ Len(<<Head(s)>>) = 1 /\ <<Head(s)>>[1] = Head(s)
    BY <1>1
  <2>2. /\ c \in Seq(S) /\ Len(c) = 1 + Len(r)
        /\ \A i \in 1..(1 + Len(r)) : c[i] = IF i <= 1 THEN <<Head(s)>>[i] ELSE r[i - 1]
    BY <1>4, <2>1, ConcatProperties
  <2> HIDE DEF c
  <2>3. c[1] = Head(s)
    BY <1>4, <2>1, <2>2
  <2>4. ASSUME NEW i \in 1..Len(r) PROVE c[i + 1] = r[i]
    <3>1. i + 1 \in 1..(1 + Len(r)) /\ ~(i + 1 <= 1) /\ i + 1 - 1 = i
      BY <1>4
    <3> QED
      BY <2>2, <3>1
  <2> QED
    BY <1>4, <2>2, <2>3, <2>4
<1> HIDE DEF c, r
<1>6. c # <<>> /\ Head(c) = c[1]
  BY <1>4, <1>5
<1>7. Tail(c) = r
  <2>1. Tail(c) \in Seq(S) /\ Len(Tail(c)) = Len(r) /\ \A i \in 1..Len(r) : Tail(c)[i] = c[i + 1]
    BY <1>4, <1>5, <1>6, HeadTailProperties
  <2> QED
    BY <1>4, <1>5, <2>1, SeqEqual
<1> QED
  BY <1>1, <1>2, <1>3, <1>5, <1>6, <1>7 DEF r

\* The datagrams that wait for a worker, first come first.
Path == (jobs \o taken) \o net

InPath(a, n) == \E i \in 1..Len(Path) : Path[i].app = a /\ Path[i].n = n
AtWork(w, a, n) == /\ pc[w] = "run" /\ step[w] = "deliver"
                   /\ mine[w][1].app = a /\ mine[w][1].n = n
Got(a, n) == \E i \in 1..Len(delivered[a]) : delivered[a][i].n = n

\* No two entries of a queue are the same message.
NoneTwice(s) == \A i \in 1..Len(s), j \in 1..Len(s) :
    s[i].n > 0 /\ s[i].app = s[j].app /\ s[i].n = s[j].n => i = j

\* A message is in the path, with one worker, or received, and it was sent.
OnePlace(a, n) ==
    /\ InPath(a, n) => ~Got(a, n)
    /\ \A w \in Workers : AtWork(w, a, n) =>
          /\ ~InPath(a, n) /\ ~Got(a, n)
          /\ \A v \in Workers : AtWork(v, a, n) => v = w
    /\ InPath(a, n) \/ Got(a, n) \/ (\E w \in Workers : AtWork(w, a, n)) =>
          a \in Apps /\ n <= sent[a]

BagInv ==
    /\ Len(taken) <= 1
    /\ NoneTwice(Path)
    /\ \A a \in AppIds : \A i \in 1..Len(delivered[a]), j \in 1..Len(delivered[a]) :
          delivered[a][i].n > 0 /\ delivered[a][i].n = delivered[a][j].n => i = j
    /\ \A a \in AppIds : \A n \in Nat \ {0} : OnePlace(a, n)

\* What the steps of the queues do to the path.
LEMMA PathSteps ==
  ASSUME TInv, Len(taken) <= 1
  PROVE  /\ Path \in Seq(Message)
         /\ UNCHANGED <<net, taken, jobs>> => Path' = Path
         /\ Receive => Path' = Path /\ Len(taken') <= 1
         /\ HandOver => Path' = Path /\ Len(taken') <= 1
         /\ \A m \in Message : UNCHANGED <<taken, jobs>> /\ net' = Append(net, m) =>
                Path' = Append(Path, m)
         /\ UNCHANGED <<net, taken>> /\ jobs # <<>> /\ jobs' = Tail(jobs) =>
                Path # <<>> /\ Head(Path) = Head(jobs) /\ Path' = Tail(Path)
<1>0. net \in Seq(Message) /\ taken \in Seq(Message) /\ jobs \in Seq(Message)
  BY DEF TInv
<1>1. jobs \o taken \in Seq(Message) /\ Path \in Seq(Message)
  <2>1. jobs \o taken \in Seq(Message)
    BY <1>0, ConcatProperties
  <2> QED
    BY <1>0, <2>1, ConcatProperties DEF Path
<1>2. ASSUME Receive PROVE Path' = Path /\ Len(taken') <= 1
  <2>1. taken = <<>> /\ net # <<>> /\ taken' = <<Head(net)>> /\ net' = Tail(net) /\ jobs' = jobs
    BY <1>2 DEF Receive, pool
  <2>2. net = <<Head(net)>> \o Tail(net) /\ Head(net) \in Message /\ Tail(net) \in Seq(Message)
    BY <1>0, <2>1, HeadAndTail
  <2>3. Path = jobs \o net
    BY <1>0, <2>1, ConcatEmptySeq DEF Path
  <2>4. Path' = (jobs \o <<Head(net)>>) \o Tail(net)
    BY <2>1 DEF Path
  <2>5. <<Head(net)>> \in Seq(Message) /\ Len(<<Head(net)>>) = 1
    BY <2>2
  <2>6. (jobs \o <<Head(net)>>) \o Tail(net) = jobs \o (<<Head(net)>> \o Tail(net))
    BY <1>0, <2>2, <2>5, ConcatAssociative
  <2> QED
    BY <2>1, <2>2, <2>3, <2>4, <2>5, <2>6
<1>3. ASSUME HandOver PROVE Path' = Path /\ Len(taken') <= 1
  <2>1. taken # <<>> /\ taken' = <<>> /\ net' = net /\ jobs' = Append(jobs, taken[1])
    BY <1>3 DEF HandOver, Pool!Dispatch
  <2>2. Len(taken) = 1 /\ taken[1] \in Message
    <3>1. Len(taken) \in Nat \ {0}
      BY <1>0, <2>1, EmptySeq
    <3>2. Len(taken) = 1
      <4>1. \A k \in Nat \ {0} : k <= 1 => k = 1
        OBVIOUS
      <4> QED
        BY <3>1, <4>1, Zenon
    <3> QED
      BY <1>0, <3>2, ElementOfSeq, 1 \in 1..1
  <2>3. taken = <<taken[1]>>
    BY <1>0, <2>2
  <2>4. jobs' = jobs \o <<taken[1]>>
    BY <1>0, <2>1, <2>2, AppendIsConcat
  <2>5. jobs' = jobs \o taken
    BY <2>3, <2>4
  <2>6. jobs' \o taken' = jobs \o taken
    BY <1>1, <2>1, <2>5, ConcatEmptySeq
  <2> QED
    BY <2>1, <2>6 DEF Path
<1>4. ASSUME NEW m \in Message, UNCHANGED <<taken, jobs>>, net' = Append(net, m)
      PROVE  Path' = Append(Path, m)
  <2>1. net' = net \o <<m>> /\ <<m>> \in Seq(Message)
    BY <1>0, <1>4, AppendIsConcat
  <2>2. (jobs \o taken) \o (net \o <<m>>) = Path \o <<m>>
    BY <1>0, <1>1, <2>1, ConcatAssociative DEF Path
  <2> QED
    BY <1>1, <1>4, <2>1, <2>2, AppendIsConcat DEF Path
<1>5. ASSUME UNCHANGED <<net, taken>>, jobs # <<>>, jobs' = Tail(jobs)
      PROVE  Path # <<>> /\ Head(Path) = Head(jobs) /\ Path' = Tail(Path)
  <2>1. /\ jobs \o taken # <<>> /\ Head(jobs \o taken) = Head(jobs)
        /\ Tail(jobs \o taken) = Tail(jobs) \o taken
    BY <1>0, <1>5, HeadAndTail
  <2>2. Path # <<>> /\ Head(Path) = Head(jobs \o taken) /\ Tail(Path) = Tail(jobs \o taken) \o net
    BY <1>0, <1>1, <2>1, HeadAndTail DEF Path
  <2> QED
    BY <1>5, <2>1, <2>2 DEF Path
<1> QED
  BY <1>1, <1>2, <1>3, <1>4, <1>5 DEF Path

\* A step that moves no message and composes none.
LEMMA PlacesStay ==
  ASSUME BagInv, Path' = Path, Len(taken') <= 1, UNCHANGED <<sent, delivered>>,
         \A w \in Workers : \A a, n : AtWork(w, a, n)' => AtWork(w, a, n)
  PROVE  BagInv'
<1>1. \A a, n : (InPath(a, n)' <=> InPath(a, n)) /\ (Got(a, n)' <=> Got(a, n))
  BY DEF InPath, Got
<1>2. \A a \in AppIds : \A n \in Nat \ {0} : OnePlace(a, n)'
  BY <1>1 DEF BagInv, OnePlace
<1>3. NoneTwice(Path)'
  BY DEF BagInv, NoneTwice
<1> QED
  BY <1>2, <1>3 DEF BagInv

\* One more message is sent.
LEMMA SendOnce ==
  ASSUME MInv, BagInv, NEW a \in Apps, Send(a)
  PROVE  BagInv'
<1> DEFINE k == sent[a] + 1
<1>0. TInv /\ Len(taken) <= 1 /\ sent \in [Apps -> Nat] /\ sent[a] \in Nat /\ a \in AppIds
  BY PerMessageAssumption DEF MInv, TInv, BagInv
<1>1. /\ sent' = [sent EXCEPT ![a] = k]
      /\ UNCHANGED <<taken, jobs, pc, mine, step, delivered>>
      /\ net' = Append(net, Wrap(a)) \/ net' = net
  BY DEF Send, pool, job
<1>2. sent'[a] = k /\ k \in Nat \ {0} /\ \A b \in Apps \ {a} : sent'[b] = sent[b]
  BY <1>0, <1>1
<1>3. Wrap(a) \in Message /\ Wrap(a).app = a /\ Wrap(a).n = k
  BY <1>0, WrapIsWhole DEF Wrap, AddHeader, NewMessage
<1>4. Path \in Seq(Message) /\ (Path' = Append(Path, Wrap(a)) \/ Path' = Path)
  BY <1>0, <1>1, <1>3, PathSteps
<1>5. \A w \in Workers : \A b, n : AtWork(w, b, n)' <=> AtWork(w, b, n)
  BY <1>1 DEF AtWork
<1>6. \A b, n : Got(b, n)' <=> Got(b, n)
  BY <1>1 DEF Got
<1>7. ~InPath(a, k) /\ ~Got(a, k) /\ \A w \in Workers : ~AtWork(w, a, k)
  <2>1. OnePlace(a, k) /\ ~(k <= sent[a])
    BY <1>0, <1>2 DEF BagInv
  <2> QED
    BY <2>1 DEF OnePlace
<1>8. /\ NoneTwice(Path')
      /\ \A b, n : InPath(b, n)' => InPath(b, n) \/ (b = a /\ n = k)
  <2>1. CASE Path' = Path
    BY <2>1 DEF InPath, BagInv
  <2>2. CASE Path' = Append(Path, Wrap(a))
    <3>1. /\ Len(Path) \in Nat /\ Len(Path') = Len(Path) + 1
          /\ \A i \in 1..Len(Path) : Path'[i] = Path[i]
          /\ Path'[Len(Path) + 1] = Wrap(a)
      BY <1>3, <1>4, <2>2, AppendProperties
    <3>2. \A i \in 1..Len(Path) : ~(Path[i].app = a /\ Path[i].n = k)
      BY <1>7 DEF InPath
    <3>3. \A i \in 1..Len(Path') : i \in 1..Len(Path) \/ i = Len(Path) + 1
      BY <3>1
    <3>4. NoneTwice(Path')
      <4> SUFFICES ASSUME NEW i \in 1..Len(Path'), NEW j \in 1..Len(Path'),
                          Path'[i].n > 0, Path'[i].app = Path'[j].app, Path'[i].n = Path'[j].n
                   PROVE  i = j
        BY DEF NoneTwice
      <4>1. CASE i \in 1..Len(Path) /\ j \in 1..Len(Path)
        BY <3>1, <4>1 DEF BagInv, NoneTwice
      <4>2. CASE i = Len(Path) + 1 /\ j \in 1..Len(Path)
        BY <1>3, <3>1, <3>2, <4>2
      <4>3. CASE i \in 1..Len(Path) /\ j = Len(Path) + 1
        BY <1>3, <3>1, <3>2, <4>3
      <4> QED
        BY <3>3, <4>1, <4>2, <4>3
    <3>5. ASSUME NEW b, NEW n, InPath(b, n)' PROVE InPath(b, n) \/ (b = a /\ n = k)
      <4>1. PICK i \in 1..Len(Path') : Path'[i].app = b /\ Path'[i].n = n
        BY <3>5 DEF InPath
      <4>2. CASE i \in 1..Len(Path)
        BY <3>1, <4>1, <4>2 DEF InPath
      <4>3. CASE i = Len(Path) + 1
        BY <1>3, <3>1, <4>1, <4>3
      <4> QED
        BY <3>3, <4>2, <4>3
    <3> QED
      BY <3>4, <3>5
  <2> QED
    BY <1>4, <2>1, <2>2
<1>9. ASSUME NEW b \in AppIds, NEW n \in Nat \ {0} PROVE OnePlace(b, n)'
  <2>1. OnePlace(b, n)
    BY DEF BagInv
  <2>2. InPath(b, n) \/ Got(b, n) \/ (\E w \in Workers : AtWork(w, b, n)) =>
           b \in Apps /\ n <= sent'[b]
    <3>1. ASSUME b \in Apps, n <= sent[b] PROVE n <= sent'[b]
      <4>1. sent[b] \in Nat /\ (b = a => sent'[b] = sent[b] + 1) /\ (b # a => sent'[b] = sent[b])
        BY <1>0, <1>2, <3>1
      <4> QED
        BY <3>1, <4>1
    <3> QED
      BY <2>1, <3>1 DEF OnePlace
  <2>3. CASE b = a /\ n = k
    BY <1>2, <1>5, <1>6, <1>7, <2>3 DEF OnePlace
  <2>4. CASE ~(b = a /\ n = k)
    BY <1>5, <1>6, <1>8, <2>1, <2>2, <2>4 DEF OnePlace
  <2> QED
    BY <2>3, <2>4
<1> QED
  BY <1>0, <1>1, <1>8, <1>9 DEF BagInv

\* A datagram of another program is none of the messages.
LEMMA IntrudeOnce ==
  ASSUME MInv, BagInv, NEW d \in Strays, Intrude(d[1], d[2])
  PROVE  BagInv'
<1> DEFINE x == Stray(d[1], d[2], strays + 1)
<1>1. /\ UNCHANGED <<sent, taken, jobs, pc, mine, step, delivered>> /\ net' = Append(net, x)
  BY DEF Intrude, pool, job
<1>2. TInv /\ Len(taken) <= 1 /\ strays + 1 \in Nat
  BY DEF MInv, TInv, BagInv
<1>3. x \in Message /\ ~(x.n > 0)
  <2>1. d[1] \in AppIds /\ d[2] \in 1..4
    BY PerMessageAssumption
  <2> QED
    BY <1>2, <2>1, StrayArrives, StrayIsWhole DEF StrayFrom, Own
<1> HIDE DEF x
<1>4. Path \in Seq(Message) /\ Path' = Append(Path, x)
  BY <1>1, <1>2, <1>3, PathSteps
<1>5. /\ Len(Path) \in Nat /\ Len(Path') = Len(Path) + 1
      /\ \A i \in 1..Len(Path) : Path'[i] = Path[i]
      /\ Path'[Len(Path) + 1] = x
  BY <1>3, <1>4, AppendProperties
<1>6. \A i \in 1..Len(Path') : i \in 1..Len(Path) \/ i = Len(Path) + 1
  BY <1>5
<1>7. NoneTwice(Path')
  <2> SUFFICES ASSUME NEW i \in 1..Len(Path'), NEW j \in 1..Len(Path'),
                      Path'[i].n > 0, Path'[i].app = Path'[j].app, Path'[i].n = Path'[j].n
               PROVE  i = j
    BY DEF NoneTwice
  <2>1. i \in 1..Len(Path) /\ j \in 1..Len(Path)
    BY <1>3, <1>5, <1>6
  <2> QED
    BY <1>5, <2>1 DEF BagInv, NoneTwice
<1>8. \A a : \A n \in Nat \ {0} : InPath(a, n)' <=> InPath(a, n)
  <2>1. \A i \in 1..Len(Path) : i \in 1..Len(Path')
    BY <1>5
  <2>2. ASSUME NEW a, NEW n \in Nat \ {0}, InPath(a, n)' PROVE InPath(a, n)
    <3>1. PICK i \in 1..Len(Path') : Path'[i].app = a /\ Path'[i].n = n
      BY <2>2 DEF InPath
    <3>2. i # Len(Path) + 1
      BY <1>3, <1>5, <2>2, <3>1, n > 0
    <3> QED
      BY <1>5, <1>6, <3>1, <3>2 DEF InPath
  <2>3. ASSUME NEW a, NEW n \in Nat \ {0}, InPath(a, n) PROVE InPath(a, n)'
    <3>1. PICK i \in 1..Len(Path) : Path[i].app = a /\ Path[i].n = n
      BY <2>3 DEF InPath
    <3> QED
      BY <1>5, <2>1, <3>1 DEF InPath
  <2> QED
    BY <2>2, <2>3
<1>9. \A a \in AppIds : \A n \in Nat \ {0} : OnePlace(a, n)'
  <2>1. \A a, n : (Got(a, n)' <=> Got(a, n)) /\ \A w \in Workers : AtWork(w, a, n)' <=> AtWork(w, a, n)
    BY <1>1 DEF Got, AtWork
  <2> QED
    BY <1>1, <1>8, <2>1 DEF BagInv, OnePlace
<1> QED
  BY <1>1, <1>2, <1>7, <1>9 DEF BagInv

\* A worker takes the first message of the path.
LEMMA TakeOnce ==
  ASSUME MInv, BagInv, NEW w \in Workers, UNCHANGED <<wire, job>>, Pool!Take(w)
  PROVE  BagInv'
<1>0. TInv /\ Len(taken) <= 1 /\ pc \in [Workers -> WorkerPCs] /\ mine \in [Workers -> Seq(Message)]
  BY DEF MInv, TInv, BagInv
<1>1. /\ UNCHANGED <<sent, net, taken, step, delivered>>
      /\ pc' = [pc EXCEPT ![w] = "run"] /\ pc[w] = "enter" /\ jobs # <<>> /\ jobs' = Tail(jobs)
      /\ mine' = [mine EXCEPT ![w] = <<Head(jobs)>>]
  BY DEF wire, job, Pool!Take, Pool!Goto
<1>2. /\ Path \in Seq(Message) /\ Path # <<>> /\ Head(Path) = Head(jobs) /\ Path' = Tail(Path)
  BY <1>0, <1>1, PathSteps
<1>3. /\ Len(Path) \in Nat \ {0} /\ Path[1] = Head(jobs) /\ Len(Path') = Len(Path) - 1
      /\ \A i \in 1..Len(Path') : Path'[i] = Path[i + 1]
  BY <1>2, EmptySeq, HeadTailProperties
<1> DEFINE h == Path[1]
<1>4. mine'[w][1] = h /\ \A v \in Workers \ {w} : mine'[v] = mine[v] /\ pc'[v] = pc[v]
  <2>1. mine'[w] = <<Head(jobs)>>
    BY <1>0, <1>1
  <2> QED
    BY <1>0, <1>1, <1>3, <2>1
<1> HIDE DEF h
<1>5. \A a, n : AtWork(w, a, n)' => a = h.app /\ n = h.n
  BY <1>4 DEF AtWork
<1>6. \A v \in Workers \ {w} : \A a, n : AtWork(v, a, n)' => AtWork(v, a, n)
  BY <1>1, <1>4 DEF AtWork
<1>7. /\ InPath(h.app, h.n)
      /\ \A a, n : InPath(a, n)' => InPath(a, n) /\ (n > 0 => ~(a = h.app /\ n = h.n))
  <2>1. 1 \in 1..Len(Path)
    BY <1>3
  <2>2. ASSUME NEW a, NEW n, InPath(a, n)'
        PROVE  InPath(a, n) /\ (n > 0 => ~(a = h.app /\ n = h.n))
    <3>1. PICK i \in 1..Len(Path') : Path'[i].app = a /\ Path'[i].n = n
      BY <2>2 DEF InPath
    <3>2. i + 1 \in 1..Len(Path) /\ Path[i + 1].app = a /\ Path[i + 1].n = n /\ i + 1 # 1
      BY <1>3, <3>1
    <3> QED
      BY <2>1, <3>2 DEF InPath, BagInv, NoneTwice, h
  <2> QED
    BY <2>1, <2>2 DEF InPath, h
<1>8. NoneTwice(Path')
  <2> SUFFICES ASSUME NEW i \in 1..Len(Path'), NEW j \in 1..Len(Path'),
                      Path'[i].n > 0, Path'[i].app = Path'[j].app, Path'[i].n = Path'[j].n
               PROVE  i = j
    BY DEF NoneTwice
  <2>1. i + 1 \in 1..Len(Path) /\ j + 1 \in 1..Len(Path)
        /\ Path'[i] = Path[i + 1] /\ Path'[j] = Path[j + 1]
    BY <1>3
  <2>2. i + 1 = j + 1
    BY <2>1 DEF BagInv, NoneTwice
  <2> QED
    BY <2>2
<1>9. ASSUME NEW a \in AppIds, NEW n \in Nat \ {0} PROVE OnePlace(a, n)'
  <2>1. OnePlace(a, n) /\ (Got(a, n)' <=> Got(a, n))
    BY <1>1 DEF BagInv, Got
  <2>2. CASE a = h.app /\ n = h.n
    <3>1. InPath(a, n) /\ ~InPath(a, n)' /\ ~Got(a, n)'
      BY <1>7, <2>1, <2>2 DEF OnePlace
    <3>2. \A v \in Workers : AtWork(v, a, n)' => v = w
      BY <1>6, <2>1, <3>1 DEF OnePlace
    <3>3. a \in Apps /\ n <= sent'[a]
      BY <1>1, <2>1, <3>1 DEF OnePlace
    <3> QED
      BY <3>1, <3>2, <3>3 DEF OnePlace
  <2>3. CASE ~(a = h.app /\ n = h.n)
    <3>1. \A v \in Workers : AtWork(v, a, n)' => AtWork(v, a, n)
      BY <1>5, <1>6, <2>3
    <3> QED
      BY <1>1, <1>7, <2>1, <3>1 DEF OnePlace
  <2> QED
    BY <2>2, <2>3
<1> QED
  BY <1>0, <1>1, <1>8, <1>9 DEF BagInv

\* A worker is done with a message that goes no further.
LEMMA RefuseOnce ==
  ASSUME MInv, BagInv, NEW w \in Workers, Deliver(w), Refuse(w)
  PROVE  BagInv'
<1>1. /\ UNCHANGED <<sent, net, taken, jobs, pc, mine, delivered>>
      /\ step' = [step EXCEPT ![w] = "return"]
  BY DEF Deliver, Refuse, wire, pool
<1>2. TInv /\ Len(taken) <= 1 /\ step \in [Workers -> {"deliver", "count", "return"}]
  BY DEF MInv, TInv, BagInv
<1>3. \A v \in Workers : \A a, n : AtWork(v, a, n)' => AtWork(v, a, n)
  BY <1>1, <1>2 DEF AtWork
<1>4. Path' = Path
  BY <1>1, <1>2, PathSteps
<1> QED
  BY <1>1, <1>2, <1>3, <1>4, PlacesStay

\* A worker delivers its message, or text of another program.
LEMMA AcceptOnce ==
  ASSUME MInv, BagInv, NEW w \in Workers, Deliver(w), NEW a \in AppIds, NEW m, NEW x \in Message,
         m = mine[w][1], x.app = m.app, x.n = m.n, Bare(a, x),
         step' = [step EXCEPT ![w] = "count"],
         delivered' = [delivered EXCEPT ![a] = Append(@, x)]
  PROVE  /\ BagInv'
         /\ x.n > 0 => /\ x.n \in 1..(IF a \in Apps THEN sent[a] ELSE 0)
                       /\ \A i \in 1..Len(delivered[a]) : delivered[a][i].n # x.n
<1>1. /\ UNCHANGED <<sent, net, taken, jobs, pc, mine>>
      /\ pc[w] = "run" /\ step[w] = "deliver"
  BY DEF Deliver, At, wire, pool
<1>2. /\ TInv /\ Len(taken) <= 1 /\ step \in [Workers -> {"deliver", "count", "return"}]
      /\ sent \in [Apps -> Nat]
      /\ delivered \in [AppIds -> Seq(Message)] /\ delivered[a] \in Seq(Message)
      /\ Len(delivered[a]) \in Nat
  BY DEF MInv, TInv, BagInv
<1>3. x.n \in Int /\ (x.n > 0 => x.app = a)
  BY DEF Bare, Own, Message
<1>4. Path' = Path
  BY <1>1, <1>2, PathSteps
<1>5. \A b, n : InPath(b, n)' <=> InPath(b, n)
  BY <1>4 DEF InPath
<1>6. /\ \A b, n : ~AtWork(w, b, n)'
      /\ \A v \in Workers : \A b, n : AtWork(v, b, n)' => AtWork(v, b, n)
  BY <1>1, <1>2 DEF AtWork
<1>7. /\ delivered'[a] = Append(delivered[a], x)
      /\ \A b \in AppIds \ {a} : delivered'[b] = delivered[b]
  BY <1>2
<1>8. /\ Len(delivered'[a]) = Len(delivered[a]) + 1
      /\ \A i \in 1..Len(delivered[a]) : delivered'[a][i] = delivered[a][i]
      /\ delivered'[a][Len(delivered[a]) + 1] = x
      /\ \A i \in 1..Len(delivered'[a]) : i \in 1..Len(delivered[a]) \/ i = Len(delivered[a]) + 1
  <2>1. /\ Len(delivered'[a]) = Len(delivered[a]) + 1
        /\ \A i \in 1..Len(delivered[a]) : delivered'[a][i] = delivered[a][i]
        /\ delivered'[a][Len(delivered[a]) + 1] = x
    BY <1>2, <1>7, AppendProperties
  <2> QED
    BY <1>2, <2>1
<1>9. \A b \in AppIds : \A n : Got(b, n)' => Got(b, n) \/ (b = a /\ n = x.n)
  BY <1>7, <1>8 DEF Got
<1>10. ASSUME x.n > 0
       PROVE  /\ ~InPath(a, x.n) /\ ~Got(a, x.n) /\ a \in Apps /\ x.n <= sent[a]
              /\ \A v \in Workers : ~AtWork(v, a, x.n)'
  <2>1. AtWork(w, a, x.n) /\ OnePlace(a, x.n)
    BY <1>1, <1>3, <1>10 DEF AtWork, BagInv
  <2> QED
    BY <1>6, <2>1 DEF OnePlace
<1>11. ASSUME NEW b \in AppIds, NEW n \in Nat \ {0} PROVE OnePlace(b, n)'
  <2>1. OnePlace(b, n)
    BY DEF BagInv
  <2>2. CASE b = a /\ n = x.n
    BY <1>1, <1>5, <1>10, <2>2 DEF OnePlace
  <2>3. CASE ~(b = a /\ n = x.n)
    BY <1>1, <1>5, <1>6, <1>9, <2>1, <2>3 DEF OnePlace
  <2> QED
    BY <2>2, <2>3
<1>12. ASSUME NEW b \in AppIds, NEW i \in 1..Len(delivered'[b]), NEW j \in 1..Len(delivered'[b]),
              delivered'[b][i].n > 0, delivered'[b][i].n = delivered'[b][j].n
       PROVE  i = j
  <2>1. CASE b # a
    BY <1>7, <1>12, <2>1 DEF BagInv
  <2>2. CASE b = a
    <3>1. \A k \in 1..Len(delivered[a]) : x.n > 0 => delivered[a][k].n # x.n
      BY <1>10 DEF Got
    <3>2. CASE i \in 1..Len(delivered[a]) /\ j \in 1..Len(delivered[a])
      BY <1>8, <1>12, <2>2, <3>2 DEF BagInv
    <3>3. CASE i \in 1..Len(delivered[a]) /\ j = Len(delivered[a]) + 1
      BY <1>8, <1>12, <2>2, <3>1, <3>3
    <3>4. CASE i = Len(delivered[a]) + 1 /\ j \in 1..Len(delivered[a])
      BY <1>8, <1>12, <2>2, <3>1, <3>4
    <3> QED
      BY <1>8, <2>2, <3>2, <3>3, <3>4
  <2> QED
    BY <2>1, <2>2
<1>13. BagInv'
  <2>1. NoneTwice(Path)'
    BY <1>4 DEF BagInv, NoneTwice
  <2> QED
    BY <1>1, <1>2, <1>11, <1>12, <2>1 DEF BagInv
<1>14. ASSUME x.n > 0
       PROVE  /\ x.n \in 1..(IF a \in Apps THEN sent[a] ELSE 0)
              /\ \A i \in 1..Len(delivered[a]) : delivered[a][i].n # x.n
  <2>1. sent[a] \in Nat /\ x.n \in 1..sent[a]
    BY <1>2, <1>3, <1>10, <1>14
  <2> QED
    BY <1>10, <1>14, <2>1 DEF Got
<1> QED
  BY <1>13, <1>14

\* Nothing has been sent at first.
LEMMA BagInvInit == Init => BagInv
<1> SUFFICES ASSUME Init PROVE BagInv
  OBVIOUS
<1>1. TInv
  BY MInvInit DEF MInv
<1>2. taken = <<>> /\ jobs = <<>> /\ Len(taken) <= 1
  BY EmptySeq DEF Init, Pool!Init
<1>3. Path = <<>> /\ Len(Path) = 0
  BY <1>2, ConcatEmptySeq, EmptySeq DEF Path, Init
<1>5. \A a \in AppIds : Len(delivered[a]) = 0
  BY EmptySeq DEF Init
<1>6. \A a \in AppIds : \A n \in Nat \ {0} : ~InPath(a, n) /\ ~Got(a, n)
  BY <1>3, <1>5 DEF InPath, Got
<1>7. \A w \in Workers : \A a, n : ~AtWork(w, a, n)
  BY DEF Init, Pool!Init, AtWork
<1>8. NoneTwice(Path)
  BY <1>3 DEF NoneTwice
<1> QED
  BY <1>2, <1>5, <1>6, <1>7, <1>8 DEF BagInv, OnePlace

\* Every step keeps the invariant.
LEMMA BagInvStep == MInv /\ BagInv /\ [Next]_vars => BagInv'
<1> SUFFICES ASSUME MInv, BagInv, [Next]_vars PROVE BagInv'
  OBVIOUS
<1>0. TInv /\ Len(taken) <= 1
  BY DEF MInv, BagInv
<1>1. ASSUME NEW a \in Apps, Send(a) PROVE BagInv'
  BY <1>1, SendOnce
<1>9. ASSUME NEW d \in Strays, Intrude(d[1], d[2]) PROVE BagInv'
  BY <1>9, IntrudeOnce
<1>2. ASSUME Receive PROVE BagInv'
  <2>1. UNCHANGED <<sent, pc, mine, step, delivered>>
    BY <1>2 DEF Receive, pool, job
  <2>2. Path' = Path /\ Len(taken') <= 1
    BY <1>0, <1>2, PathSteps
  <2>3. \A w \in Workers : \A a, n : AtWork(w, a, n)' => AtWork(w, a, n)
    BY <2>1 DEF AtWork
  <2> QED
    BY <2>1, <2>2, <2>3, PlacesStay
<1>3. ASSUME HandOver PROVE BagInv'
  <2>1. UNCHANGED <<sent, mine, step, delivered>> /\ Pool!NotifyOne
    BY <1>3 DEF HandOver, Pool!Dispatch, job
  <2>2. Path' = Path /\ Len(taken') <= 1
    BY <1>0, <1>3, PathSteps
  <2>3. \A w \in Workers : pc'[w] = "run" => pc[w] = "run"
    BY <1>0, <2>1 DEF Pool!NotifyOne, Pool!Goto, TInv
  <2>4. \A w \in Workers : \A a, n : AtWork(w, a, n)' => AtWork(w, a, n)
    BY <2>1, <2>3 DEF AtWork
  <2> QED
    BY <2>1, <2>2, <2>4, PlacesStay
<1>4. ASSUME NEW w \in Workers, UNCHANGED <<wire, job>>, Pool!Take(w) PROVE BagInv'
  BY <1>4, TakeOnce
<1>5. ASSUME NEW w \in Workers, UNCHANGED <<wire, job>>,
             Pool!Check(w) \/ Pool!Sleep(w) \/ Pool!GiveBack(w) \/ Pool!WakeSpuriously(w)
      PROVE  BagInv'
  <2>1. /\ UNCHANGED <<sent, net, taken, jobs, step, delivered>>
        /\ pc[w] # "run" /\ \E to \in WorkerPCs \ {"run"} : pc' = [pc EXCEPT ![w] = to]
        /\ mine' = mine \/ mine' = [mine EXCEPT ![w] = <<>>]
    BY <1>5 DEF wire, job, Pool!Check, Pool!Sleep, Pool!GiveBack, Pool!WakeSpuriously,
                Pool!Goto, WorkerPCs
  <2>2. \A v \in Workers : pc'[v] = "run" => pc[v] = "run" /\ mine'[v] = mine[v]
    BY <1>0, <2>1 DEF TInv
  <2>3. \A v \in Workers : \A a, n : AtWork(v, a, n)' => AtWork(v, a, n)
    BY <2>1, <2>2 DEF AtWork
  <2>4. Path' = Path
    BY <1>0, <2>1, PathSteps
  <2> QED
    BY <1>0, <2>1, <2>3, <2>4, PlacesStay
<1>6. ASSUME NEW w \in Workers, Deliver(w) PROVE BagInv'
  BY <1>6, DeliverCases, RefuseOnce, AcceptOnce
<1>7. ASSUME NEW w \in Workers, Count(w) \/ Return(w) PROVE BagInv'
  <2>1. /\ UNCHANGED <<sent, net, taken, jobs, mine, delivered>>
        /\ \/ pc' = pc /\ step' = [step EXCEPT ![w] = "return"]
           \/ pc' = [pc EXCEPT ![w] = "finish"] /\ step' = [step EXCEPT ![w] = "deliver"]
    BY <1>7 DEF Count, Return, wire, pool, Pool!Return, Pool!Goto
  <2>2. \A v \in Workers : pc'[v] = "run" /\ step'[v] = "deliver" =>
                              pc[v] = "run" /\ step[v] = "deliver"
    BY <1>0, <2>1 DEF TInv
  <2>3. \A v \in Workers : \A a, n : AtWork(v, a, n)' => AtWork(v, a, n)
    BY <2>1, <2>2 DEF AtWork
  <2>4. Path' = Path
    BY <1>0, <2>1, PathSteps
  <2> QED
    BY <1>0, <2>1, <2>3, <2>4, PlacesStay
<1>8. CASE UNCHANGED vars
  <2>1. UNCHANGED <<sent, net, taken, pc, jobs, mine, step, delivered>>
    BY <1>8 DEF vars, wire, pool, job
  <2>2. \A v \in Workers : \A a, n : AtWork(v, a, n)' => AtWork(v, a, n)
    BY <2>1 DEF AtWork
  <2>3. Path' = Path
    BY <1>0, <2>1, PathSteps
  <2> QED
    BY <1>0, <2>1, <2>2, <2>3, PlacesStay
<1> QED
  BY <1>1, <1>2, <1>3, <1>4, <1>5, <1>6, <1>7, <1>8, <1>9
     DEF Next, Worker, PoolStep, WakeSpuriously, Wait

\* Each message is at one place at most, whatever the workers do.
LEMMA BagInvariant == Spec => []BagInv
  BY MessageInvariant, BagInvInit, BagInvStep, PTL DEF Spec

\* Messages are numbered from 1, and the text of another program is numbered 0.
LEMMA NumberType == \A m \in Message : Number(m) \in Nat
  BY DEF Number, Own, Message

\* A step that neither sends nor delivers is none of LossyBag.
LEMMA BagStays ==
  ASSUME UNCHANGED <<sent, delivered>>
  PROVE  UNCHANGED Bag!vars
  BY DEF Bag!vars, Numbers

\* A delivery gives the application a message not yet received, or text numbered 0.
LEMMA DeliveryReceives ==
  ASSUME MInv, BagInv, NEW w \in Workers, Deliver(w)
  PROVE  Bag!Next \/ UNCHANGED Bag!vars
<1> DEFINE acc == [a \in AppIds |-> IF a \in Apps THEN sent[a] ELSE 0]
           got == [a \in AppIds |-> Numbers(a)]
<1>1. UNCHANGED sent /\ acc' = acc
  BY DEF Deliver, wire
<1>2. CASE Refuse(w)
  BY <1>1, <1>2, BagStays DEF Refuse
<1>3. ASSUME NEW a \in AppIds, NEW x \in Message,
             x.app = mine[w][1].app, x.n = mine[w][1].n, Bare(a, x), ~Own(x) => a \in Reachable,
             step' = [step EXCEPT ![w] = "count"],
             delivered' = [delivered EXCEPT ![a] = Append(@, x)]
      PROVE  Bag!Next
  <2>1. x.n > 0 => /\ x.n \in 1..(IF a \in Apps THEN sent[a] ELSE 0)
                   /\ \A i \in 1..Len(delivered[a]) : delivered[a][i].n # x.n
    BY <1>3, AcceptOnce
  <2>2. /\ delivered \in [AppIds -> Seq(Message)] /\ delivered[a] \in Seq(Message)
        /\ delivered'[a] = Append(delivered[a], x)
        /\ \A b \in AppIds \ {a} : delivered'[b] = delivered[b]
    BY <1>3 DEF MInv, TInv
  <2>3. Numbers(a)' = Append(Numbers(a), Number(x))
    <3> DEFINE s == delivered[a]
               u == delivered'[a]
               k == Numbers(a)
               k2 == Append(k, Number(x))
    <3>1. /\ DOMAIN s = 1..Len(s) /\ Len(s) \in Nat
          /\ DOMAIN u = 1..(Len(s) + 1) /\ u[Len(s) + 1] = x
          /\ \A i \in 1..Len(s) : u[i] = s[i] /\ s[i] \in Message
      BY <2>2, AppendProperties, LenProperties
    <3>2. k = [i \in 1..Len(s) |-> Number(s[i])] /\ Numbers(a)' = [i \in 1..(Len(s) + 1) |-> Number(u[i])]
      BY <3>1 DEF Numbers
    <3>3. k \in Seq(Nat) /\ Len(k) = Len(s) /\ Number(x) \in Nat
      BY <3>1, <3>2, NumberType
    <3> HIDE DEF k
    <3>4. /\ k2 \in Seq(Nat) /\ Len(k2) = Len(s) + 1
          /\ \A i \in 1..Len(s) : k2[i] = k[i]
          /\ k2[Len(s) + 1] = Number(x)
      BY <3>3, AppendProperties
    <3> HIDE DEF k2
    <3>5. k2 = [i \in 1..(Len(s) + 1) |-> k2[i]]
      BY <3>4
    <3>6. \A i \in 1..Len(s) : k[i] = Number(s[i])
      BY <3>1, <3>2
    <3> HIDE DEF s, u
    <3>7. ASSUME NEW i \in 1..(Len(s) + 1) PROVE k2[i] = Number(u[i])
      <4>1. CASE i \in 1..Len(s)
        BY <4>1, <3>1, <3>4, <3>6
      <4>2. CASE i = Len(s) + 1
        BY <4>2, <3>1, <3>4
      <4> QED
        BY <3>1, <4>1, <4>2
    <3> QED
      BY <3>2, <3>5, <3>7 DEF k2, k
  <2>4. got' = [got EXCEPT ![a] = Append(@, Number(x))]
    BY <2>2, <2>3 DEF Numbers
  <2>5. CASE ~Own(x)
    <3>1. Number(x) = 0 /\ a \in Reachable
      BY <1>3, <2>5 DEF Number
    <3>2. Bag!Intrude(a)
      BY <1>1, <2>4, <3>1 DEF Bag!Intrude
    <3> QED
      BY <3>1, <3>2 DEF Bag!Next, Reachable
  <2>6. CASE Own(x)
    <3>1. x.n \in 1..acc[a] /\ Number(x) = x.n /\ x.n # 0
      BY <2>1, <2>6 DEF Own, Number
    <3>2. \A i \in DOMAIN got[a] : got[a][i] # x.n
      <4>1. DOMAIN delivered[a] = 1..Len(delivered[a])
        BY <2>2
      <4>2. \A i \in 1..Len(delivered[a]) : Number(delivered[a][i]) # x.n
        BY <2>1, <2>6, <3>1 DEF Own, Number
      <4> QED
        BY <4>1, <4>2 DEF Numbers
    <3>3. Bag!Receive(a, x.n)
      BY <1>1, <2>4, <3>1, <3>2 DEF Bag!Receive
    <3> QED
      BY <3>1, <3>3 DEF Bag!Next
  <2> QED
    BY <2>5, <2>6
<1> QED
  BY <1>2, <1>3, DeliverCases

\* The stack invents no message and repeats none, whichever workers datagrams go
\* to, in whatever order they finish, and whatever strays come in between.
THEOREM StackIsLossyBag == Spec => ImplementsLossyBag
<1>1. Init => Bag!Init
  <2> SUFFICES ASSUME Init PROVE Bag!Init
    OBVIOUS
  <2>1. \A a \in AppIds : Numbers(a) = <<>>
    BY DEF Init, Numbers
  <2> QED
    BY <2>1 DEF Init, Bag!Init
<1>2. MInv /\ BagInv /\ [Next]_vars => [Bag!Next]_Bag!vars
  <2> SUFFICES ASSUME MInv, BagInv, [Next]_vars PROVE Bag!Next \/ UNCHANGED Bag!vars
    OBVIOUS
  <2>1. ASSUME NEW a \in Apps, Send(a) PROVE Bag!Next
    <3>1. /\ sent' = [sent EXCEPT ![a] = @ + 1] /\ UNCHANGED delivered
          /\ sent \in [Apps -> Nat] /\ a \in AppIds
      BY <2>1, PerMessageAssumption DEF Send, job, MInv, TInv
    <3>2. UNCHANGED [b \in AppIds |-> Numbers(b)]
      BY <3>1 DEF Numbers
    <3>3. Bag!Accept(a)
      BY <3>1, <3>2 DEF Bag!Accept
    <3> QED
      BY <3>1, <3>3 DEF Bag!Next
  <2>2. ASSUME NEW w \in Workers, Deliver(w) PROVE Bag!Next \/ UNCHANGED Bag!vars
    BY <2>2, DeliveryReceives
  <2>3. CASE UNCHANGED <<sent, delivered>>
    BY <2>3, BagStays
  <2> QED
    BY <2>1, <2>2, <2>3
       DEF Next, Intrude, Receive, HandOver, Worker, PoolStep, WakeSpuriously, Count, Return, Wait,
           vars, wire, job
<1>3. Spec => Bag!Spec
  BY <1>1, <1>2, MessageInvariant, BagInvariant, PTL DEF Spec, Bag!Spec
<1> QED
  BY <1>3 DEF ImplementsLossyBag
=============================================================================
