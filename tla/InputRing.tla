------------------------------- MODULE InputRing -----------------------------
(***************************************************************************)
(* The lock-free single-producer single-consumer ring of keyboard.rs, one  *)
(* step per atomic load or store of RING, HEAD and TAIL.  A byte is named  *)
(* by the number of the key press that produced it.                        *)
(***************************************************************************)
EXTENDS Integers, Sequences

CONSTANTS
  Cap,  \* RING_CAP: slots, one of which stays empty
  Byte  \* the bytes pushed, naturals from 1 on

ASSUME RingAssumption == Cap \in Nat /\ Cap >= 2 /\ Byte \subseteq Nat \ {0}

VARIABLES
  ring, head, tail,  \* RING, HEAD, TAIL
  push,              \* push's locals: where it stands, the slot `tail`, the byte
  pop,               \* pop's locals: where it stands, the byte it read
  taken,             \* the byte pop returned last (0: none yet)
  dropped            \* the bytes push found no room for

ringVars == <<ring, head, tail, push, pop, taken, dropped>>

Slots == 0 .. Cap - 1

\* The locals of a routine that is not running hold nothing.
NoPush == [at |-> "idle", slot |-> 0, byte |-> 0]
NoPop == [at |-> "idle", byte |-> 0]

Init ==
  /\ ring = [i \in Slots |-> 0] /\ head = 0 /\ tail = 0
  /\ push = NoPush /\ pop = NoPop
  /\ taken = 0 /\ dropped = {}

NextSlot(i) == (i + 1) % Cap

-----------------------------------------------------------------------------
(* push, in the keyboard IRQ.                                              *)

\* Fault: no test for a full ring.
PushUnchecked(b) ==
  /\ push.at = "idle"
  /\ push' = [at |-> "store", slot |-> tail, byte |-> b]
  /\ UNCHANGED <<ring, head, tail, pop, taken, dropped>>

PushLoad(b) ==  \* load TAIL and HEAD; a full ring drops the newest byte
  /\ push.at = "idle"
  /\ IF NextSlot(tail) = head
     THEN dropped' = dropped \cup {b} /\ UNCHANGED push
     ELSE push' = [at |-> "store", slot |-> tail, byte |-> b] /\ UNCHANGED dropped
  /\ UNCHANGED <<ring, head, tail, pop, taken>>

PushStore ==
  /\ push.at = "store"
  /\ ring' = [ring EXCEPT ![push.slot] = push.byte]
  /\ push' = [push EXCEPT !.at = "publish"]
  /\ UNCHANGED <<head, tail, pop, taken, dropped>>

PushPublish ==
  /\ push.at = "publish"
  /\ tail' = NextSlot(push.slot)
  /\ push' = NoPush
  /\ UNCHANGED <<ring, head, pop, taken, dropped>>

-----------------------------------------------------------------------------
(* pop, in the shell task.                                                 *)

\* Fault: the last byte stays behind until another one follows.
PopEmptyEarly == head = tail \/ NextSlot(head) = tail

PopEmpty == head = tail  \* load HEAD, load TAIL (Acquire)

PopLoad ==
  /\ pop.at = "idle" /\ ~PopEmpty
  /\ pop' = [pop EXCEPT !.at = "read"]
  /\ UNCHANGED <<ring, head, tail, push, taken, dropped>>

PopRead ==
  /\ pop.at = "read"
  /\ pop' = [at |-> "advance", byte |-> ring[head]]
  /\ UNCHANGED <<ring, head, tail, push, taken, dropped>>

\* Fault: HEAD runs past a slot that was not read.
PopSkips ==
  /\ pop.at = "advance"
  /\ head' = NextSlot(NextSlot(head)) /\ taken' = pop.byte
  /\ pop' = NoPop
  /\ UNCHANGED <<ring, tail, push, dropped>>

PopAdvance ==
  /\ pop.at = "advance"
  /\ head' = NextSlot(head) /\ taken' = pop.byte
  /\ pop' = NoPop
  /\ UNCHANGED <<ring, tail, push, dropped>>

-----------------------------------------------------------------------------

Next == \/ \E b \in Byte : PushLoad(b)
        \/ PushStore \/ PushPublish \/ PopLoad \/ PopRead \/ PopAdvance

Spec == Init /\ [][Next]_ringVars

TypeOK ==
  /\ ring \in [Slots -> Byte \cup {0}] /\ head \in Slots /\ tail \in Slots
  /\ push \in [at : {"idle", "store", "publish"}, slot : Slots, byte : Byte \cup {0}]
  /\ pop \in [at : {"idle", "read", "advance"}, byte : Byte \cup {0}]
  /\ taken \in Byte \cup {0} /\ dropped \subseteq Byte

\* The bytes between the cursors, oldest first.
Used == (tail - head) % Cap
Contents == [i \in 1 .. Used |-> ring[(head + i - 1) % Cap]]

\* The slot being written and the slot being read are never the same one, and the
\* consumer is never in the middle of a read the producer could have overwritten.
NoSlotRace ==
  push.at = "store" /\ pop.at # "idle" => push.slot # head

Queue == INSTANCE InputQueue WITH queue <- Contents

\* A pushed byte comes out once, in order, and is refused only by a full ring.
ImplementsQueue == Queue!Spec
=============================================================================
