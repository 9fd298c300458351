------------------------------ MODULE InputQueue -----------------------------
(***************************************************************************)
(* What the keyboard ring promises its two sides: a FIFO of at most        *)
(* Cap - 1 bytes that refuses the newest byte when it is full, and only    *)
(* then.                                                                   *)
(***************************************************************************)
EXTENDS Integers, Sequences

CONSTANTS Cap, Byte

VARIABLES queue, taken, dropped

qvars == <<queue, taken, dropped>>

Init == queue = <<>> /\ taken = 0 /\ dropped = {}

Accept(b) == /\ Len(queue) < Cap - 1
             /\ queue' = Append(queue, b)
             /\ UNCHANGED <<taken, dropped>>
Refuse(b) == /\ Len(queue) = Cap - 1
             /\ dropped' = dropped \cup {b}
             /\ UNCHANGED <<queue, taken>>
Take == /\ queue # <<>>
        /\ taken' = Head(queue) /\ queue' = Tail(queue)
        /\ UNCHANGED dropped

Next == Take \/ \E b \in Byte : Accept(b) \/ Refuse(b)

Spec == Init /\ [][Next]_qvars
=============================================================================
