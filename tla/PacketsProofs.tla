--------------------------- MODULE PacketsProofs ---------------------------
(***************************************************************************)
(* What adding and stripping headers does to a message that is wrapped as  *)
(* the protocol graph says, for any length of the text.                    *)
(***************************************************************************)
EXTENDS Packets, SequenceTheorems, TLAPS

\* The operators of the protocol graph stay inside the protocol ids.
LEMMA GraphTypes ==
  /\ \A p \in ProtocolIds : Lower(p) \in ProtocolIds
  /\ \A p \in ProtocolIds \ {ETHERNET_ID} : Lower(p) # p
  /\ \A p \in ProtocolIds : Accepts(p) \subseteq ProtocolIds \ {p}
  /\ AppIds \subseteq ProtocolIds
  /\ \A p \in ProtocolIds : HeaderSize(p) \in Nat
  BY DEF ProtocolIds, AppIds, Lower, Accepts, HeaderSize, OtherInfo, ETHERNET_ID,
         IP_ID, TCP_ID, UDP_ID, FTP_ID, TELNET_ID, RDP_ID, DNS_ID

\* The layers of an application are protocols.
LEMMA LayerTypes == \A a \in AppIds : \A d \in 1..4 : Layers(a)[d] \in ProtocolIds
  BY GraphTypes DEF Layers, ProtocolIds, ETHERNET_ID, IP_ID

\* A stray datagram is a message.
LEMMA StrayType ==
  ASSUME NEW a \in AppIds, NEW d \in 1..4, NEW k \in Nat
  PROVE  Stray(a, d, k) \in Message
<1> DEFINE hdr(i) == [proto  |-> Layers(a)[i],
                      hlp    |-> IF i < d THEN Layers(a)[i + 1] ELSE Unset,
                      length |-> 0]
<1>1. \A i \in 1..d : hdr(i) \in Header
  BY LayerTypes DEF Header, Unset, ProtocolIds
<1>2. [i \in 1..d |-> hdr(i)] \in Seq(Header)
  BY <1>1
<1> QED
  BY <1>2, PayloadAssumption DEF Stray, Message

\* Adding a header to a message gives a message with that header in front.
LEMMA AddHeaderType ==
  ASSUME NEW m \in Message, NEW p \in ProtocolIds, NEW h \in Nat
  PROVE  LET r == AddHeader(m, p, h) IN
         /\ r \in Message /\ r.app = m.app /\ r.n = m.n
         /\ r.len = m.len + HeaderSize(p)
         /\ Len(r.hdrs) = Len(m.hdrs) + 1
         /\ r.hdrs[1] = [proto |-> p, hlp |-> h, length |-> m.len]
         /\ \A i \in 1..Len(m.hdrs) : r.hdrs[i + 1] = m.hdrs[i]
<1> DEFINE top == [proto |-> p, hlp |-> h, length |-> m.len]
           r   == AddHeader(m, p, h)
<1>1. /\ m.hdrs \in Seq(Header) /\ m.len \in Int /\ m.app \in AppIds /\ m.n \in Int
      /\ HeaderSize(p) \in Nat
  BY GraphTypes DEF Message
<1>2. top \in Header
  BY <1>1 DEF Header
<1>3. r = [app |-> m.app, n |-> m.n, hdrs |-> <<top>> \o m.hdrs, len |-> m.len + HeaderSize(p)]
  BY DEF AddHeader
<1> HIDE DEF top, r
<1>4. /\ <<top>> \o m.hdrs \in Seq(Header)
      /\ Len(<<top>> \o m.hdrs) = Len(m.hdrs) + 1
      /\ (<<top>> \o m.hdrs)[1] = top
      /\ \A i \in 1..Len(m.hdrs) : (<<top>> \o m.hdrs)[i + 1] = m.hdrs[i]
  BY <1>1, <1>2
<1>5. r \in Message
  BY <1>1, <1>3, <1>4 DEF Message
<1>6. /\ r.app = m.app /\ r.n = m.n
      /\ r.len = m.len + HeaderSize(p)
      /\ Len(r.hdrs) = Len(m.hdrs) + 1
      /\ r.hdrs[1] = top
      /\ \A i \in 1..Len(m.hdrs) : r.hdrs[i + 1] = m.hdrs[i]
  BY <1>3, <1>4
<1> QED
  BY <1>5, <1>6 DEF top, r

\* Stripping one removes the header in front, if there is any.
LEMMA StripHeaderType ==
  ASSUME NEW m \in Message, NEW p \in ProtocolIds
  PROVE  LET r == StripHeader(m, p) IN
         /\ r \in Message /\ r.app = m.app /\ r.n = m.n
         /\ r.len = m.len - HeaderSize(p)
         /\ m.hdrs = <<>> => r.hdrs = <<>>
         /\ m.hdrs # <<>> =>
              /\ Len(r.hdrs) = Len(m.hdrs) - 1
              /\ \A i \in 1..(Len(m.hdrs) - 1) : r.hdrs[i] = m.hdrs[i + 1]
<1> DEFINE s == SubSeq(m.hdrs, 2, Len(m.hdrs))
           r == StripHeader(m, p)
<1>1. /\ m.hdrs \in Seq(Header) /\ m.len \in Int /\ m.app \in AppIds /\ m.n \in Int
      /\ HeaderSize(p) \in Nat /\ Len(m.hdrs) \in Nat
  BY GraphTypes DEF Message
<1>2. r = [app |-> m.app, n |-> m.n, hdrs |-> s, len |-> m.len - HeaderSize(p)]
  BY DEF StripHeader
<1>3. /\ s \in Seq(Header)
      /\ Len(s) = IF 2 <= Len(m.hdrs) THEN Len(m.hdrs) - 1 ELSE 0
      /\ \A i \in 1..(Len(m.hdrs) - 1) : s[i] = m.hdrs[i + 1]
  <2>1. \A i \in 2..Len(m.hdrs) : m.hdrs[i] \in Header
    BY <1>1
  <2> QED
    BY <1>1, <2>1, SubSeqProperties, 2 \in Int
<1> HIDE DEF s, r
<1>4. r \in Message
  BY <1>1, <1>2, <1>3 DEF Message
<1>5. m.hdrs = <<>> => s = <<>>
  BY <1>1, <1>3
<1>6. m.hdrs # <<>> => Len(s) = Len(m.hdrs) - 1
  BY <1>1, <1>3
<1> QED
  BY <1>2, <1>3, <1>4, <1>5, <1>6 DEF r

-----------------------------------------------------------------------------
(* Wrapped messages                                                        *)

\* A message without headers is wrapped from above its application.
LEMMA NewMessageWrapped ==
  ASSUME NEW a \in AppIds, NEW n \in Nat
  PROVE  /\ NewMessage(a, n) \in Message /\ WrappedFrom(NewMessage(a, n), 5)
         /\ NewMessage(a, n).app = a /\ NewMessage(a, n).n = n
  BY PayloadAssumption DEF NewMessage, Message, WrappedFrom

\* The header of the next layer down, naming the layer it is put on, keeps a
\* message wrapped.
LEMMA WrapOne ==
  ASSUME NEW m \in Message, NEW d \in 1..4, WrappedFrom(m, d + 1),
         NEW h \in Nat, d < 4 => h = Layers(m.app)[d + 1]
  PROVE  WrappedFrom(AddHeader(m, Layers(m.app)[d], h), d)
<1> DEFINE p == Layers(m.app)[d]
           r == AddHeader(m, p, h)
<1>0. /\ \A j \in 1..(4 - d) : m.hdrs[j].proto = Layers(m.app)[d + j]
      /\ d # 4 => m.hdrs[4 - d].length = PayloadLen
  <2>1. 5 - (d + 1) = 4 - d /\ \A j \in 1..(4 - d) : (d + 1) + j - 1 = d + j
    OBVIOUS
  <2>2. \A j \in 1..(4 - d) : m.hdrs[j].proto = Layers(m.app)[d + j]
    BY <2>1 DEF WrappedFrom
  <2>3. d # 4 => 4 - d \in 1..(4 - d)
    OBVIOUS
  <2>4. \A j \in 1..(4 - d) : j = 4 - d => m.hdrs[j].length = PayloadLen
    BY <2>1 DEF WrappedFrom
  <2> QED
    BY <2>2, <2>3, <2>4
<1>1. p \in ProtocolIds
  BY LayerTypes DEF Message
<1>2. /\ r.app = m.app /\ r.len = m.len + HeaderSize(p)
      /\ Len(r.hdrs) = Len(m.hdrs) + 1
      /\ r.hdrs[1] = [proto |-> p, hlp |-> h, length |-> m.len]
      /\ \A i \in 1..Len(m.hdrs) : r.hdrs[i + 1] = m.hdrs[i]
  BY <1>1, AddHeaderType
<1> HIDE DEF r
<1>3. Len(m.hdrs) = 4 - d /\ Len(r.hdrs) = 5 - d
  BY <1>2 DEF WrappedFrom
<1>4. \A i \in 2..(5 - d) : i - 1 \in 1..(4 - d) /\ r.hdrs[i] = m.hdrs[i - 1]
  BY <1>2, <1>3
<1>5. \A i \in 1..(5 - d) : r.hdrs[i].proto = Layers(r.app)[d + i - 1]
  <2> TAKE i \in 1..(5 - d)
  <2>1. CASE i = 1
    BY <1>2, <2>1
  <2>2. CASE i # 1
    <3>1. i - 1 \in 1..(4 - d) /\ r.hdrs[i] = m.hdrs[i - 1] /\ d + (i - 1) = d + i - 1
      BY <1>4, <2>2
    <3>2. m.hdrs[i - 1].proto = Layers(m.app)[d + (i - 1)]
      BY <1>0, <3>1
    <3> QED
      BY <1>2, <3>1, <3>2
  <2> QED
    BY <2>1, <2>2
<1>6. ASSUME NEW i \in 1..(5 - d), i < 5 - d
      PROVE  /\ r.hdrs[i].hlp = r.hdrs[i + 1].proto
             /\ r.hdrs[i].length = r.hdrs[i + 1].length + HeaderSize(r.hdrs[i + 1].proto)
  <2>1. CASE i = 1
    <3>1. d < 4 /\ 1 \in 1..(4 - d) /\ r.hdrs[2] = m.hdrs[1]
      BY <1>2, <1>3, <1>6, <2>1
    <3>2. /\ m.hdrs[1].proto = Layers(m.app)[d + 1]
          /\ m.len = m.hdrs[1].length + HeaderSize(m.hdrs[1].proto)
      BY <3>1 DEF WrappedFrom
    <3> QED
      BY <1>2, <2>1, <3>1, <3>2
  <2>2. CASE i # 1
    <3>1. /\ i - 1 \in 1..(4 - d) /\ i - 1 < 4 - d
          /\ r.hdrs[i] = m.hdrs[i - 1] /\ r.hdrs[i + 1] = m.hdrs[(i - 1) + 1]
      BY <1>4, <1>6, <2>2
    <3>2. /\ m.hdrs[i - 1].hlp = m.hdrs[(i - 1) + 1].proto
          /\ m.hdrs[i - 1].length = m.hdrs[(i - 1) + 1].length + HeaderSize(m.hdrs[(i - 1) + 1].proto)
      BY <3>1 DEF WrappedFrom
    <3> QED
      BY <3>1, <3>2
  <2> QED
    BY <2>1, <2>2
<1>7. r.hdrs[5 - d].length = PayloadLen
  <2>1. CASE d = 4
    BY <1>2, <2>1 DEF WrappedFrom
  <2>2. CASE d # 4
    <3>1. 4 - d \in 1..(4 - d) /\ r.hdrs[5 - d] = m.hdrs[4 - d]
      BY <1>4, <2>2
    <3> QED
      BY <1>0, <3>1
  <2> QED
    BY <2>1, <2>2
<1>8. r.len = r.hdrs[1].length + HeaderSize(r.hdrs[1].proto)
  BY <1>2
<1>9. WrappedFrom(r, d)
  BY <1>3, <1>5, <1>6, <1>7, <1>8 DEF WrappedFrom
<1> QED
  BY <1>9 DEF r

\* Stripping the header in front of a wrapped message gives a message wrapped
\* from the layer above.
LEMMA UnwrapOne ==
  ASSUME NEW m \in Message, NEW d \in 1..4, WrappedFrom(m, d)
  PROVE  /\ m.hdrs # <<>> /\ m.hdrs[1].proto = Layers(m.app)[d]
         /\ d < 4 => m.hdrs[1].hlp = Layers(m.app)[d + 1]
         /\ WrappedFrom(StripHeader(m, Layers(m.app)[d]), d + 1)
<1> DEFINE p == Layers(m.app)[d]
           r == StripHeader(m, p)
<1>1. /\ Len(m.hdrs) = 5 - d /\ 1 \in 1..(5 - d) /\ m.hdrs # <<>> /\ m.hdrs[1].proto = p
      /\ m.len = m.hdrs[1].length + HeaderSize(p)
  BY DEF WrappedFrom, Message
<1>2. d < 4 => /\ m.hdrs[1].hlp = Layers(m.app)[d + 1]
               /\ m.hdrs[1].length = m.hdrs[2].length + HeaderSize(m.hdrs[2].proto)
  <2> SUFFICES ASSUME d < 4
               PROVE  /\ m.hdrs[1].hlp = Layers(m.app)[d + 1]
                      /\ m.hdrs[1].length = m.hdrs[2].length + HeaderSize(m.hdrs[2].proto)
    OBVIOUS
  <2>1. 1 \in 1..(5 - d) /\ 2 \in 1..(5 - d) /\ 1 < 5 - d
    OBVIOUS
  <2> QED
    BY <2>1 DEF WrappedFrom
<1>3. /\ r.app = m.app /\ r.len = m.len - HeaderSize(p)
      /\ Len(r.hdrs) = 4 - d
      /\ \A i \in 1..(4 - d) : r.hdrs[i] = m.hdrs[i + 1]
  <2>1. p \in ProtocolIds
    BY LayerTypes DEF Message
  <2> QED
    BY <1>1, <2>1, StripHeaderType
<1> HIDE DEF r
<1>4. m.hdrs[1].length \in Int /\ HeaderSize(p) \in Nat
  <2>1. m.hdrs[1] \in Header /\ p \in ProtocolIds
    BY <1>1, LayerTypes DEF Message
  <2> QED
    BY <2>1, GraphTypes DEF Header
<1>5. r.len = m.hdrs[1].length
  BY <1>1, <1>3, <1>4
<1>6. ASSUME NEW i \in 1..(4 - d) PROVE r.hdrs[i].proto = Layers(r.app)[(d + 1) + i - 1]
  <2>1. i + 1 \in 1..(5 - d) /\ d + (i + 1) - 1 = (d + 1) + i - 1
    OBVIOUS
  <2>2. m.hdrs[i + 1].proto = Layers(m.app)[d + (i + 1) - 1]
    BY <2>1 DEF WrappedFrom
  <2> QED
    BY <1>3, <2>1, <2>2
<1>7. ASSUME NEW i \in 1..(4 - d), i < 4 - d
      PROVE  /\ r.hdrs[i].hlp = r.hdrs[i + 1].proto
             /\ r.hdrs[i].length = r.hdrs[i + 1].length + HeaderSize(r.hdrs[i + 1].proto)
  <2>1. i + 1 \in 1..(5 - d) /\ i + 1 < 5 - d /\ i + 1 \in 1..(4 - d)
    BY <1>7
  <2>2. /\ m.hdrs[i + 1].hlp = m.hdrs[(i + 1) + 1].proto
        /\ m.hdrs[i + 1].length = m.hdrs[(i + 1) + 1].length + HeaderSize(m.hdrs[(i + 1) + 1].proto)
    BY <2>1 DEF WrappedFrom
  <2> QED
    BY <1>3, <2>1, <2>2
<1>8. d < 4 => r.hdrs[4 - d].length = PayloadLen
  <2> SUFFICES ASSUME d < 4 PROVE r.hdrs[4 - d].length = PayloadLen
    OBVIOUS
  <2>1. r.hdrs[4 - d] = m.hdrs[5 - d] /\ 5 - d \in 1..(5 - d)
    BY <1>3
  <2> QED
    BY <2>1 DEF WrappedFrom
<1>9. r.len = IF d + 1 = 5 THEN PayloadLen
              ELSE r.hdrs[1].length + HeaderSize(r.hdrs[1].proto)
  <2>1. CASE d = 4
    BY <1>1, <1>5, <2>1 DEF WrappedFrom
  <2>2. CASE d # 4
    BY <1>2, <1>3, <1>5, <2>2
  <2> QED
    BY <2>1, <2>2
<1>10. WrappedFrom(r, d + 1)
  BY <1>3, <1>6, <1>7, <1>8, <1>9 DEF WrappedFrom
<1> QED
  BY <1>1, <1>2, <1>10 DEF r

-----------------------------------------------------------------------------
(* The way through the graph, and stray datagrams on it                    *)

\* Each layer stands on the one before it.
LEMMA LayerGraph ==
  ASSUME NEW a \in AppIds, NEW d \in 1..4
  PROVE  /\ Depth(Layers(a)[d]) = d
         /\ d > 1 => Lower(Layers(a)[d]) = Layers(a)[d - 1]
         /\ Layers(a)[d] = ETHERNET_ID <=> d = 1
         /\ Layers(a)[d] \in AppIds <=> d = 4
         /\ d = 4 => Layers(a)[d] = a
<1>1. a \in {5, 6, 7, 8} /\ d \in {1, 2, 3, 4}
  BY DEF AppIds, FTP_ID, TELNET_ID, RDP_ID, DNS_ID
<1>2. /\ Layers(a)[1] = 1 /\ Layers(a)[2] = 2 /\ Layers(a)[4] = a
      /\ Layers(a)[3] = IF a \in {5, 6} THEN 3 ELSE 4
  BY <1>1 DEF Layers, Lower, ETHERNET_ID, IP_ID, TCP_ID, UDP_ID, FTP_ID, TELNET_ID, RDP_ID, DNS_ID
<1>3. /\ Depth(1) = 1 /\ Depth(2) = 2 /\ Depth(3) = 3 /\ Depth(4) = 3
      /\ \A b \in {5, 6, 7, 8} : Depth(b) = 4
  BY DEF Depth, ETHERNET_ID, IP_ID, TCP_ID, UDP_ID
<1>4. /\ Lower(2) = 1 /\ Lower(3) = 2 /\ Lower(4) = 2
      /\ \A b \in {5, 6} : Lower(b) = 3
      /\ \A b \in {7, 8} : Lower(b) = 4
  BY DEF Lower, ETHERNET_ID, IP_ID, TCP_ID, UDP_ID, FTP_ID, TELNET_ID, RDP_ID, DNS_ID
<1>5. CASE d = 1
  BY <1>1, <1>2, <1>3, <1>5 DEF ETHERNET_ID, AppIds, FTP_ID, TELNET_ID, RDP_ID, DNS_ID
<1>6. CASE d = 2
  BY <1>1, <1>2, <1>3, <1>4, <1>6 DEF ETHERNET_ID, AppIds, FTP_ID, TELNET_ID, RDP_ID, DNS_ID
<1>7. CASE d = 3
  BY <1>1, <1>2, <1>3, <1>4, <1>7 DEF ETHERNET_ID, AppIds, FTP_ID, TELNET_ID, RDP_ID, DNS_ID
<1>8. CASE d = 4
  BY <1>1, <1>2, <1>3, <1>4, <1>8 DEF ETHERNET_ID, AppIds, FTP_ID, TELNET_ID, RDP_ID, DNS_ID
<1> QED
  BY <1>1, <1>5, <1>6, <1>7, <1>8

\* No protocol passes on what names no protocol.
LEMMA UnsetRefused == \A p \in ProtocolIds : Unset \notin Accepts(p)
  BY DEF Unset, Accepts, ProtocolIds, ETHERNET_ID, IP_ID, TCP_ID, UDP_ID,
         FTP_ID, TELNET_ID, RDP_ID, DNS_ID

\* A stray datagram of which the layers below d have been stripped.
StrayFrom(m, d) ==
  /\ ~Own(m) /\ m.hdrs # <<>> /\ Len(m.hdrs) <= 5 - d
  /\ \A i \in 1..Len(m.hdrs) :
        /\ m.hdrs[i].proto = Layers(m.app)[d + i - 1]
        /\ m.hdrs[i].hlp = IF i = Len(m.hdrs) THEN Unset ELSE Layers(m.app)[d + i]

\* That is what it is when it arrives.
LEMMA StrayArrives ==
  ASSUME NEW a \in AppIds, NEW d \in 1..4, NEW k \in Nat
  PROVE  /\ StrayFrom(Stray(a, d, k), 1)
         /\ Stray(a, d, k).app = a /\ Stray(a, d, k).n = -k /\ Len(Stray(a, d, k).hdrs) = d
<1> DEFINE hdr(i) == [proto  |-> Layers(a)[i],
                      hlp    |-> IF i < d THEN Layers(a)[i + 1] ELSE Unset,
                      length |-> 0]
           m == Stray(a, d, k)
<1>1. m = [app |-> a, n |-> -k, hdrs |-> [i \in 1..d |-> hdr(i)], len |-> PayloadLen]
  BY DEF Stray
<1>2. /\ m.app = a /\ m.n = -k /\ ~Own(m) /\ Len(m.hdrs) = d /\ m.hdrs # <<>>
      /\ \A i \in 1..d : m.hdrs[i] = hdr(i)
  BY <1>1 DEF Own
<1> HIDE DEF m
<1>3. ASSUME NEW i \in 1..d
      PROVE  /\ m.hdrs[i].proto = Layers(m.app)[1 + i - 1]
             /\ m.hdrs[i].hlp = IF i = d THEN Unset ELSE Layers(m.app)[1 + i]
  <2>1. 1 + i - 1 = i /\ 1 + i = i + 1 /\ (i < d <=> i # d)
    OBVIOUS
  <2>2. hdr(i).proto = Layers(a)[i] /\ hdr(i).hlp = IF i < d THEN Layers(a)[i + 1] ELSE Unset
    OBVIOUS
  <2> QED
    BY <1>2, <2>1, <2>2
<1>4. StrayFrom(m, 1)
  <2>1. d <= 5 - 1
    OBVIOUS
  <2> QED
    BY <1>2, <1>3, <2>1 DEF StrayFrom
<1> QED
  BY <1>2, <1>4 DEF m

\* A protocol that passes it on finds another header of its path behind its own.
LEMMA StrayPasses ==
  ASSUME NEW m \in Message, NEW d \in 1..4, StrayFrom(m, d), NEW p \in ProtocolIds,
         m.hdrs[1].hlp # Unset
  PROVE  /\ d < 4 /\ m.hdrs[1].hlp = Layers(m.app)[d + 1]
         /\ StrayFrom(StripHeader(m, p), d + 1)
         /\ Len(StripHeader(m, p).hdrs) = Len(m.hdrs) - 1
<1> DEFINE r == StripHeader(m, p)
<1>1. Len(m.hdrs) \in Nat /\ Len(m.hdrs) >= 1 /\ 1 \in 1..Len(m.hdrs)
  BY DEF StrayFrom, Message
<1>2. Len(m.hdrs) # 1 /\ m.hdrs[1].hlp = Layers(m.app)[d + 1]
  BY <1>1 DEF StrayFrom
<1>3. d < 4 /\ Len(m.hdrs) >= 2 /\ m.hdrs # <<>>
  BY <1>1, <1>2 DEF StrayFrom
<1>4. /\ r.app = m.app /\ r.n = m.n /\ Len(r.hdrs) = Len(m.hdrs) - 1
      /\ \A i \in 1..(Len(m.hdrs) - 1) : r.hdrs[i] = m.hdrs[i + 1]
  BY <1>1, <1>3, StripHeaderType
<1> HIDE DEF r
<1>5. r.hdrs # <<>> /\ Len(r.hdrs) <= 5 - (d + 1) /\ ~Own(r)
  BY <1>1, <1>3, <1>4 DEF StrayFrom, Own
<1>6. ASSUME NEW i \in 1..Len(r.hdrs)
      PROVE  /\ r.hdrs[i].proto = Layers(r.app)[(d + 1) + i - 1]
             /\ r.hdrs[i].hlp = IF i = Len(r.hdrs) THEN Unset ELSE Layers(r.app)[(d + 1) + i]
  <2>1. /\ i + 1 \in 1..Len(m.hdrs) /\ i \in 1..(Len(m.hdrs) - 1)
        /\ d + (i + 1) - 1 = (d + 1) + i - 1 /\ d + (i + 1) = (d + 1) + i
        /\ (i + 1 = Len(m.hdrs) <=> i = Len(r.hdrs))
    BY <1>1, <1>4
  <2>2. /\ m.hdrs[i + 1].proto = Layers(m.app)[d + (i + 1) - 1]
        /\ m.hdrs[i + 1].hlp = IF i + 1 = Len(m.hdrs) THEN Unset ELSE Layers(m.app)[d + (i + 1)]
    BY <2>1 DEF StrayFrom
  <2> QED
    BY <1>4, <2>1, <2>2
<1>7. StrayFrom(r, d + 1)
  BY <1>5, <1>6 DEF StrayFrom
<1> QED
  BY <1>2, <1>3, <1>4, <1>7 DEF r
=============================================================================
