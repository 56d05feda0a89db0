---------------------------- MODULE MCPerProtocol ---------------------------
(***************************************************************************)
(* Instances of PerProtocol for TLC.  Cold names the stages whose threads  *)
(* have been created but have not run when the traffic starts; all others  *)
(* are blocked in their first read().                                      *)
(***************************************************************************)
EXTENDS PerProtocol

CONSTANT Cold

WarmStages == Stages \ Cold

\* The stages a datagram of FTP crosses on the way down.
FtpDown == {<<"send", p>> : p \in {FTP_ID, TCP_ID, IP_ID, ETHERNET_ID}}

OneLate == {<<"recv", FTP_ID>>}

\* Datagrams that UDP refuses, and datagrams that reach FTP.
Foreigners == {<<DNS_ID, 3>>, <<FTP_ID, 4>>}

\* Bound: datagrams of other programs come once all stages run.
IntrudersWait == strays' # strays => \A t \in Stages : pc[t] # "start"

=============================================================================
