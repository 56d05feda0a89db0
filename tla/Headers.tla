------------------------------ MODULE Headers ------------------------------
(***************************************************************************)
(* The protocol graph both implementations share: the protocol ids and the *)
(* header structs of Headers.h, and who sits on top of whom.  A header is  *)
(* three fields, hlp, otherInfo and length; otherInfo is never read, only  *)
(* its size matters.                                                       *)
(***************************************************************************)
EXTENDS Integers, Sequences

ETHERNET_ID == 1
IP_ID       == 2
TCP_ID      == 3
UDP_ID      == 4
FTP_ID      == 5
TELNET_ID   == 6
RDP_ID      == 7
DNS_ID      == 8

AppIds == {FTP_ID, TELNET_ID, RDP_ID, DNS_ID}
ProtocolIds == 1..8

\* Bytes of otherInfo, indexed by protocol id.
OtherInfo == <<8, 12, 4, 4, 8, 8, 12, 8>>

\* sizeof the header struct: two 4-byte ints around otherInfo.
HeaderSize(p) == 4 + OtherInfo[p] + 4

\* The protocol on whose send pipe (or send function) p puts its messages.
Lower(p) ==
    CASE p \in {FTP_ID, TELNET_ID} -> TCP_ID
      [] p \in {RDP_ID, DNS_ID}    -> UDP_ID
      [] p \in {TCP_ID, UDP_ID}    -> IP_ID
      [] OTHER                     -> ETHERNET_ID

\* The values of hlp that p's receive side passes on; any other is refused.
Accepts(p) ==
    CASE p = ETHERNET_ID -> {IP_ID}
      [] p = IP_ID       -> {TCP_ID, UDP_ID}
      [] p = TCP_ID      -> {FTP_ID, TELNET_ID}
      [] p = UDP_ID      -> {RDP_ID, DNS_ID}
      [] OTHER           -> {}

\* The protocols a message of application a crosses, outermost header first.
Layers(a) == <<ETHERNET_ID, IP_ID, Lower(a), a>>

\* Where p stands in Layers.
Depth(p) ==
    CASE p = ETHERNET_ID        -> 1
      [] p = IP_ID              -> 2
      [] p \in {TCP_ID, UDP_ID} -> 3
      [] OTHER                  -> 4
=============================================================================
