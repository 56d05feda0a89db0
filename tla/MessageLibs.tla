---------------------------- MODULE MessageLibs -----------------------------
(***************************************************************************)
(* The two message libraries, which have the same interface: a program is  *)
(* built with one of them.  The chunks of ourLibs and the fields of        *)
(* newLibs are kept in the same variables.                                 *)
(***************************************************************************)
EXTENDS MessageChunks

VARIABLE library

Fields == INSTANCE FieldMessage WITH
              fieldList <- m_MsgContent,
              msglen    <- m_MsgLen,
              AnyCut    <- AcrossChunks

LibsInit == Init /\ library \in {"ourLibs", "newLibs"}

LibsNext ==
    /\ \/ library = "ourLibs" /\ Next
       \/ library = "newLibs" /\ Fields!Next
    /\ UNCHANGED library

LibsSpec == LibsInit /\ [][LibsNext]_<<vars, library>>
=============================================================================
