---------------------------- MODULE MCPerMessage ---------------------------
(***************************************************************************)
(* Instances of PerMessage for TLC.                                        *)
(***************************************************************************)
EXTENDS PerMessage

\* Datagrams whose Ethernet or IP header has a wrong hlp, and datagrams that reach
\* FTP.
Foreigners == {<<FTP_ID, 1>>, <<FTP_ID, 2>>, <<FTP_ID, 4>>}

=============================================================================
