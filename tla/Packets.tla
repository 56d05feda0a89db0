------------------------------ MODULE Packets ------------------------------
(***************************************************************************)
(* A message on its way through a stack: whose it is, which of that        *)
(* application's messages it is, and the headers in front of its text.     *)
(* Header fields are kept by value, the text only by its length.           *)
(***************************************************************************)
EXTENDS Headers

CONSTANT PayloadLen     \* bytes of an application message (SIZE in SpeedTest.cc)

ASSUME PayloadAssumption == PayloadLen \in Nat

Header  == [proto : ProtocolIds, hlp : Nat, length : Int]
Message == [app : AppIds, n : Int, hdrs : Seq(Header), len : Int]

\* An hlp that names no protocol.
Unset == 0

\* new Message(text, SIZE)
NewMessage(a, n) == [app |-> a, n |-> n, hdrs |-> <<>>, len |-> PayloadLen]

\* msgAddHdr of the header of protocol p.
AddHeader(m, p, hlp) ==
    [app  |-> m.app,
     n    |-> m.n,
     hdrs |-> <<[proto |-> p, hlp |-> hlp, length |-> m.len]>> \o m.hdrs,
     len  |-> m.len + HeaderSize(p)]

\* msgStripHdr of the header of protocol p.
StripHeader(m, p) ==
    [app  |-> m.app,
     n    |-> m.n,
     hdrs |-> SubSeq(m.hdrs, 2, Len(m.hdrs)),
     len  |-> m.len - HeaderSize(p)]

\* The k-th datagram that came from another program: it carries the outer d layers
\* of the path to a, and the innermost of these names no protocol.  With d = 4 that
\* is the header of the application itself, which names none anyway.
Stray(a, d, k) ==
    LET hdr(i) == [proto  |-> Layers(a)[i],
                   hlp    |-> IF i < d THEN Layers(a)[i + 1] ELSE Unset,
                   length |-> 0]
    IN  [app |-> a, n |-> -k, hdrs |-> [i \in 1..d |-> hdr(i)], len |-> PayloadLen]

\* A message of this program.
Own(m) == m.n > 0

\* Its number, and 0 for the text of another.
Number(m) == IF Own(m) THEN m.n ELSE 0

-----------------------------------------------------------------------------
\* A message m carries exactly the headers of layers d..4 of its own
\* application, each names the layer above it, and each length field is the
\* size of what follows that header ("Data Length is the size of the message,
\* not including the header", pa4.pdf page 2).
WrappedFrom(m, d) ==
    /\ Len(m.hdrs) = 5 - d
    /\ \A i \in 1..(5 - d) :
          LET h == m.hdrs[i] IN
          /\ h.proto = Layers(m.app)[d + i - 1]
          /\ i < 5 - d => /\ h.hlp = m.hdrs[i + 1].proto
                          /\ h.length = m.hdrs[i + 1].length + HeaderSize(m.hdrs[i + 1].proto)
          /\ i = 5 - d => h.length = PayloadLen
    /\ m.len = IF d = 5 THEN PayloadLen
               ELSE m.hdrs[1].length + HeaderSize(m.hdrs[1].proto)

\* p is a layer of m's application.
OnPath(m, p) == p = Layers(m.app)[Depth(p)]
=============================================================================
