---------------------------- MODULE ByteStrings ----------------------------
(***************************************************************************)
(* What the message library promises: a message is a string of bytes to    *)
(* whose front headers are added and stripped, that is cut in two and that *)
(* is joined to another.  A call whose length does not fit is refused and  *)
(* changes nothing.                                                        *)
(***************************************************************************)
EXTENDS Integers, Sequences

CONSTANTS Msgs, Byte, Lengths

VARIABLES
    text,   \* the bytes of each message
    out     \* the bytes the last strip or split handed out; <<>> if refused

vars == <<text, out>>

Init ==
    /\ text = [m \in Msgs |-> <<>>]
    /\ out = <<>>

Prepend(m, bytes) ==
    /\ text' = [text EXCEPT ![m] = bytes \o @]
    /\ UNCHANGED out

Strip(m, n) ==
    LET fits == n \in 1..Len(text[m]) IN
    /\ out' = IF fits THEN SubSeq(text[m], 1, n) ELSE <<>>
    /\ text' = IF fits THEN [text EXCEPT ![m] = SubSeq(@, n + 1, Len(@))] ELSE text

Split(m, s, n) ==
    LET fits == n \in 0..Len(text[m]) IN
    /\ out' = IF fits THEN SubSeq(text[m], 1, n) ELSE <<>>
    /\ text' = IF fits THEN [text EXCEPT ![m] = SubSeq(@, 1, n),
                                         ![s] = SubSeq(text[m], n + 1, Len(text[m]))]
               ELSE text

Concat(m, s) ==
    /\ text' = [text EXCEPT ![m] = @ \o text[s], ![s] = <<>>]
    /\ UNCHANGED out

Next ==
    \E m \in Msgs :
       \/ \E a, b \in Byte : Prepend(m, [i \in 1..(b - a) |-> a + i])
       \/ \E n \in Lengths : Strip(m, n) \/ \E s \in Msgs \ {m} : Split(m, s, n)
       \/ \E s \in Msgs \ {m} : Concat(m, s)

Spec == Init /\ [][Next]_vars
=============================================================================
