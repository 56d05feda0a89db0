---------------------------- MODULE FieldMessage ----------------------------
(***************************************************************************)
(* The message library of newLibs/message.cpp, which has the interface of  *)
(* the one in ourLibs/Message.h: a message is a list of fields, each a     *)
(* pointer and a length, and a total length.  Fields are modelled by their *)
(* bytes; every byte given to the library is a different number.           *)
(*                                                                         *)
(* No call is made that throws (a negative length to msgStripHdr), writes  *)
(* past the buffer of msgStripHdr, or makes msgSplit use its iterator to a *)
(* field it has moved to the other list.                                   *)
(***************************************************************************)
EXTENDS Integers, Sequences, SequencesExt

CONSTANTS
    Msgs,           \* the Message objects
    MaxBytes,       \* bound: bytes handed to the library
    MaxChunk,       \* bound: bytes of a text or header
    MaxChunks,      \* bound: fields of a message
    Width,          \* bits of a size_t
    AnyCut          \* does a caller strip and split where the library goes wrong

VARIABLES
    fieldList,  \* the fields of each message
    msglen,     \* its length as the object knows it
    used,       \* how many bytes have been handed to the library
    out         \* the bytes handed out by the last strip or split

vars == <<fieldList, msglen, used, out>>

SizeT(n) == n % (2 ^ Width)
Fresh(n) == [i \in 1..n |-> used + i]
Memory(n) == [1..n -> 0..MaxBytes]      \* n bytes of uninitialised or freed memory

\* msgFlat
Flat(m) == FlattenSeq(fieldList[m])

\* Bytes in the first k fields of f.
Upto(f, k) == Len(FlattenSeq(SubSeq(f, 1, k)))

\* The number of fields in front of the one the n-th byte of f is in
Before(f, n) == CHOOSE k \in 0..(Len(f) - 1) : Upto(f, k) < n /\ n <= Upto(f, k + 1)

Init ==
    /\ fieldList = [m \in Msgs |-> <<>>]
    /\ msglen = [m \in Msgs |-> 0]
    /\ used = 0
    /\ out = <<>>

\* Message(msg, len)
Construct(m, n) ==
    /\ fieldList[m] = <<>> /\ msglen[m] = 0
    /\ used + n <= MaxBytes
    /\ fieldList' = [fieldList EXCEPT ![m] = <<Fresh(n)>>]
    /\ msglen' = [msglen EXCEPT ![m] = n]
    /\ used' = used + n
    /\ UNCHANGED out

msgAddHdr(m, n) ==
    /\ Len(fieldList[m]) < MaxChunks
    /\ used + n <= MaxBytes
    /\ fieldList' = [fieldList EXCEPT ![m] = <<Fresh(n)>> \o @]
    /\ msglen' = [msglen EXCEPT ![m] = SizeT(@ + n)]
    /\ used' = used + n
    /\ UNCHANGED out

-----------------------------------------------------------------------------
(* msgStripHdr                                                             *)

\* No field is copied beyond a header of n bytes: each goes behind its place.
CopiesFit(f, n) == \A i \in DOMAIN f : Upto(f, i) + Len(f[i]) <= n

\* More than there is: the fields are deleted and the length stays.
StripTooLong(m, n) ==
    /\ n > Len(Flat(m))
    /\ CopiesFit(fieldList[m], n)
    /\ out' = <<>>
    /\ fieldList' = [fieldList EXCEPT ![m] = <<>>]
    /\ UNCHANGED msglen

\* A whole field is copied behind its place in the buffer if others follow it, and
\* neither copied nor removed if it ends the header; part of a field is handled
\* as it should be.
StripFits(m, n) ==
    LET f == fieldList[m]
        k == Before(f, n)
        g == SubSeq(f, k + 1, Len(f))       \* the fields behind the deleted ones
        p == n - Upto(f, k)
    IN  /\ n \in 1..Len(Flat(m))
        /\ CopiesFit(SubSeq(f, 1, k), n)
        /\ out' \in IF k = 0 /\ p < Len(f[1]) THEN {SubSeq(f[1], 1, n)} ELSE Memory(n)
        /\ fieldList' = [fieldList EXCEPT ![m] =
              IF p = Len(g[1]) THEN g ELSE <<SubSeq(g[1], p + 1, Len(g[1]))>> \o Tail(g)]
        /\ msglen' = [msglen EXCEPT ![m] = SizeT(@ - n)]

StripNothing(n) == n = 0 /\ out' = <<>> /\ UNCHANGED <<fieldList, msglen>>

\* The calls that are answered as they should be: those for part of the first
\* field, and those on a message without fields.
Strippable(m, n) == \A k \in DOMAIN fieldList[m] : k = 1 => n = 0 \/ n < Len(fieldList[m][k])

msgStripHdr(m, n) ==
    /\ n \in Nat
    /\ AnyCut \/ Strippable(m, n)
    /\ StripNothing(n) \/ StripTooLong(m, n) \/ StripFits(m, n)
    /\ UNCHANGED used

-----------------------------------------------------------------------------
(* msgSplit                                                                *)

\* The fields that begin before the cut.  The cut is a boundary if they end there.
Left(f, n) == IF n = 0 THEN 0 ELSE Before(f, n) + 1
AtBoundary(f, n) == Upto(f, Left(f, n)) = n

\* At a boundary the fields behind it go to the front of the second list.
SplitLists(m, s, n) ==
    LET f == fieldList[m]
        k == Left(f, n)
    IN  fieldList' = [fieldList EXCEPT ![m] = SubSeq(f, 1, k),
                                       ![s] = SubSeq(f, k + 1, Len(f)) \o @]

\* Inside the last field the first part goes to the end of the second list and
\* the other takes the place of the first field of this one, whichever that is;
\* the memory of the field that was cut is freed.
SplitField(m, s, n) ==
    LET f == fieldList[m]
        k == Left(f, n)
        p == n - Upto(f, k - 1)
    IN  /\ k = Len(f)
        /\ \E freed \in Memory(Len(f[k])) :
              fieldList' = [fieldList EXCEPT
                 ![m] = <<SubSeq(f[k], p + 1, Len(f[k]))>> \o Tail([f EXCEPT ![k] = freed]),
                 ![s] = @ \o <<SubSeq(f[k], 1, p)>>]

\* The calls that are answered as they should be: those that cut at a boundary and
\* give an empty message for the second part, and those that are refused.
Splittable(m, s, n) == AtBoundary(fieldList[m], n) /\ fieldList[s] = <<>> /\ msglen[s] = 0

msgSplit(m, s, n) ==
    /\ IF Len(Flat(m)) < SizeT(n)
       THEN out' = <<>> /\ UNCHANGED <<fieldList, msglen>>
       ELSE /\ AnyCut \/ Splittable(m, s, n)
            /\ Len(fieldList[m]) + Len(fieldList[s]) <= MaxChunks
            /\ out' = SubSeq(Flat(m), 1, n)
            /\ IF AtBoundary(fieldList[m], n) THEN SplitLists(m, s, n) ELSE SplitField(m, s, n)
            /\ msglen' = [msglen EXCEPT ![m] = n, ![s] = SizeT(msglen[m] - n)]
    /\ UNCHANGED used

-----------------------------------------------------------------------------
\* Fault: the fields of the second message go in front of those of the first.
JoinInFront(m, s) ==
    /\ Len(fieldList[m]) + Len(fieldList[s]) <= MaxChunks
    /\ fieldList' = [fieldList EXCEPT ![m] = fieldList[s] \o @, ![s] = <<>>]
    /\ msglen' = [msglen EXCEPT ![m] = SizeT(@ + msglen[s]), ![s] = 0]
    /\ UNCHANGED <<used, out>>

msgJoin(m, s) ==
    /\ Len(fieldList[m]) + Len(fieldList[s]) <= MaxChunks
    /\ fieldList' = [fieldList EXCEPT ![m] = @ \o fieldList[s], ![s] = <<>>]
    /\ msglen' = [msglen EXCEPT ![m] = SizeT(@ + msglen[s]), ![s] = 0]
    /\ UNCHANGED <<used, out>>

Next ==
    \E m \in Msgs :
       \/ \E n \in 0..MaxChunk : Construct(m, n)
       \/ \E n \in 1..MaxChunk : msgAddHdr(m, n)
       \/ \E n \in 0..MaxBytes : msgStripHdr(m, n)
       \/ \E s \in Msgs \ {m} : msgJoin(m, s) \/ \E n \in -1..MaxBytes : msgSplit(m, s, n)

Spec == Init /\ [][Next]_vars

-----------------------------------------------------------------------------
(* Properties                                                              *)

\* The length a message reports is the number of bytes msgFlat copies out of it.
LengthIsContent == \A m \in Msgs : msglen[m] = Len(Flat(m))
=============================================================================
