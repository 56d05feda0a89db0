--------------------------- MODULE MessageChunks ---------------------------
(***************************************************************************)
(* The message library of ourLibs/Message.h, under both stacks: a message  *)
(* is a list of chunks, each a pointer and a length, and a total length    *)
(* kept beside the list in a size_t.  Chunks are modelled by their bytes;  *)
(* every byte given to the library is a different number.                  *)
(***************************************************************************)
EXTENDS Integers, Sequences, SequencesExt

CONSTANTS
    Msgs,           \* the Message objects
    MaxBytes,       \* bound: bytes handed to the library
    MaxChunk,       \* bound: bytes of a text or header
    MaxChunks,      \* bound: chunks of a message
    Width,          \* bits of a size_t
    AcrossChunks    \* does a caller split beyond the first chunk

ASSUME MessageAssumption ==
    /\ MaxBytes \in Nat
    /\ MaxChunk \in Nat
    /\ MaxChunks \in Nat
    /\ Width \in Nat
    /\ MaxBytes < 2 ^ Width - 1
    /\ AcrossChunks \in BOOLEAN

VARIABLES
    m_MsgContent,   \* the chunks of each message
    m_MsgLen,       \* its length as the object knows it
    used,           \* how many bytes have been handed to the library
    out             \* the bytes handed out by the last strip or split

vars == <<m_MsgContent, m_MsgLen, used, out>>

SizeT(n)  == n % (2 ^ Width)
Lengths   == -1..MaxBytes
Fresh(n)  == [i \in 1..n |-> used + i]

\* msgFlat
Flat(m) == FlattenSeq(m_MsgContent[m])

\* Bytes in the first k chunks of c.
Upto(c, k) == Len(FlattenSeq(SubSeq(c, 1, k)))

\* The chunk the n-th byte of c is in, and that chunk from the byte after it on.
Cut(c, n)  == CHOOSE k \in DOMAIN c : Upto(c, k - 1) < n /\ n <= Upto(c, k)
Rest(c, n) == LET k == Cut(c, n) IN SubSeq(c[k], n - Upto(c, k - 1) + 1, Len(c[k]))

\* What is left of c behind its first n bytes: a front chunk of that size is
\* taken off, any other is shortened in place, be it to nothing.
Behind(c, n) ==
    IF n = Len(Head(c)) THEN Tail(c)
    ELSE <<Rest(c, n)>> \o SubSeq(c, Cut(c, n) + 1, Len(c))

Init ==
    /\ m_MsgContent = [m \in Msgs |-> <<>>]
    /\ m_MsgLen = [m \in Msgs |-> 0]
    /\ used = 0
    /\ out = <<>>

\* Message(msg, len); also with len 0, which recvfrom returns for an empty datagram
Construct(m, n) ==
    /\ m_MsgContent[m] = <<>> /\ m_MsgLen[m] = 0
    /\ used + n <= MaxBytes
    /\ m_MsgContent' = [m_MsgContent EXCEPT ![m] = <<Fresh(n)>>]
    /\ m_MsgLen' = [m_MsgLen EXCEPT ![m] = n]
    /\ used' = used + n
    /\ UNCHANGED out

msgAddHdr(m, n) ==
    /\ Len(m_MsgContent[m]) < MaxChunks
    /\ used + n <= MaxBytes
    /\ m_MsgLen' = [m_MsgLen EXCEPT ![m] = SizeT(@ + n)]
    /\ m_MsgContent' = [m_MsgContent EXCEPT ![m] = <<Fresh(n)>> \o @]
    /\ used' = used + n
    /\ UNCHANGED out

\* Fault: a front chunk longer than the header is taken off whole.
StripWholeChunk(m, n) ==
    /\ IF m_MsgLen[m] < SizeT(n) \/ n = 0
       THEN out' = <<>> /\ UNCHANGED <<m_MsgContent, m_MsgLen>>
       ELSE /\ out' = SubSeq(Flat(m), 1, n)
            /\ m_MsgContent' = [m_MsgContent EXCEPT ![m] = SubSeq(@, Cut(@, n) + 1, Len(@))]
            /\ m_MsgLen' = [m_MsgLen EXCEPT ![m] = SizeT(@ - n)]
    /\ UNCHANGED used

\* A negative length is a large one to the first comparison.  Where the recorded
\* length exceeds the content the list is read past its end: no such call is made.
msgStripHdr(m, n) ==
    /\ n <= Len(Flat(m)) \/ m_MsgLen[m] < SizeT(n)
    /\ IF m_MsgLen[m] < SizeT(n) \/ n = 0
       THEN out' = <<>> /\ UNCHANGED <<m_MsgContent, m_MsgLen>>
       ELSE /\ out' = SubSeq(Flat(m), 1, n)
            /\ m_MsgContent' = [m_MsgContent EXCEPT ![m] = Behind(@, n)]
            /\ m_MsgLen' = [m_MsgLen EXCEPT ![m] = SizeT(@ - n)]
    /\ UNCHANGED used

\* The length left after the whole chunks before the cut have been taken off:
\* msgSplit subtracts them here and n, which counts them too, in the end.
AfterChunks(m, n) ==
    LET c == m_MsgContent[m] IN
    IF n = Len(Head(c)) \/ n = 0 THEN m_MsgLen[m]
    ELSE SizeT(m_MsgLen[m] - Upto(c, Cut(c, n) - 1))

FirstPart(c, n) ==
    IF n = Len(Head(c)) THEN <<Head(c)>>
    ELSE IF n = 0 THEN <<>>
    ELSE LET k == Cut(c, n) IN
         SubSeq(c, 1, k - 1) \o <<SubSeq(c[k], 1, n - Upto(c, k - 1))>>

SecondPart(c, n) == IF n = 0 /\ Head(c) # <<>> THEN c ELSE Behind(c, n)

msgSplit(m, s, n) ==
    /\ IF m_MsgLen[m] < SizeT(n)
       THEN out' = <<>> /\ UNCHANGED <<m_MsgContent, m_MsgLen>>
       ELSE LET c == m_MsgContent[m] IN
            /\ c # <<>> /\ n <= Len(Flat(m))
            /\ AcrossChunks \/ n <= Len(Head(c))
            /\ out' = SubSeq(Flat(m), 1, n)
            /\ m_MsgContent' = [m_MsgContent EXCEPT ![m] = FirstPart(c, n),
                                                    ![s] = SecondPart(c, n)]
            /\ m_MsgLen' = [m_MsgLen EXCEPT ![m] = n,
                                            ![s] = SizeT(AfterChunks(m, n) - n)]
    /\ UNCHANGED used

\* Fault: the second message keeps its length.
JoinKeepsLength(m, s) ==
    /\ Len(m_MsgContent[m]) + Len(m_MsgContent[s]) <= MaxChunks
    /\ m_MsgContent' = [m_MsgContent EXCEPT ![m] = @ \o m_MsgContent[s], ![s] = <<>>]
    /\ m_MsgLen' = [m_MsgLen EXCEPT ![m] = SizeT(@ + m_MsgLen[s])]
    /\ UNCHANGED <<used, out>>

msgJoin(m, s) ==
    /\ Len(m_MsgContent[m]) + Len(m_MsgContent[s]) <= MaxChunks
    /\ m_MsgContent' = [m_MsgContent EXCEPT ![m] = @ \o m_MsgContent[s], ![s] = <<>>]
    /\ m_MsgLen' = [m_MsgLen EXCEPT ![m] = SizeT(@ + m_MsgLen[s]), ![s] = 0]
    /\ UNCHANGED <<used, out>>

Next ==
    \E m \in Msgs :
       \/ \E n \in 0..MaxChunk : Construct(m, n)
       \/ \E n \in 1..MaxChunk : msgAddHdr(m, n)
       \/ \E n \in Lengths : msgStripHdr(m, n)
       \/ \E s \in Msgs \ {m} : msgJoin(m, s) \/ \E n \in Lengths : msgSplit(m, s, n)

Spec == Init /\ [][Next]_vars

-----------------------------------------------------------------------------
(* Properties                                                              *)

\* The length a message reports, kept apart from its list of chunks by every
\* operation, is the number of bytes msgFlat copies out of it.
LengthIsContent == \A m \in Msgs : m_MsgLen[m] = Len(Flat(m))

\* However headers and texts are cut into chunks, the library behaves like
\* strings of bytes, in what it keeps and in what it hands out.
Strings == INSTANCE ByteStrings WITH
               Byte <- 0..MaxBytes,
               text <- [m \in Msgs |-> Flat(m)]
ImplementsByteStrings == Strings!Spec
=============================================================================
