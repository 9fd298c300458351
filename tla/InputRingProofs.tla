-------------------------- MODULE InputRingProofs ----------------------------
(***************************************************************************)
(* TLAPS proofs about InputRing, for every capacity: no slot is read while *)
(* it is written, and the ring implements InputQueue.                      *)
(***************************************************************************)
EXTENDS InputRing, SequenceTheorems, TLAPS

USE RingAssumption DEF Slots

-----------------------------------------------------------------------------
(* Arithmetic of the cursors.                                              *)

LEMMA NextSlotCases ==
  ASSUME NEW i \in Slots
  PROVE  NextSlot(i) = IF i = Cap - 1 THEN 0 ELSE i + 1
BY DEF NextSlot

\* The distance from head to tail, without the remainder.
LEMMA UsedCases ==
  ASSUME NEW h \in Slots, NEW t \in Slots
  PROVE  (t - h) % Cap = IF t >= h THEN t - h ELSE t - h + Cap
OBVIOUS

\* The slot of the i-th byte, without the remainder.
LEMMA SlotCases ==
  ASSUME NEW h \in Slots, NEW i \in 1 .. Cap
  PROVE  (h + i - 1) % Cap = IF h + i - 1 < Cap THEN h + i - 1 ELSE h + i - 1 - Cap
OBVIOUS

LEMMA FunctionIsSeq ==
  ASSUME NEW S, NEW n \in Nat, NEW f \in [1 .. n -> S]
  PROVE  f \in Seq(S) /\ Len(f) = n
OBVIOUS

\* The slot of the i-th byte, when the cursors are what they are.
SlotOf(i) == (head + i - 1) % Cap

LEMMA ContentsIsSeq ==
  ASSUME TypeOK
  PROVE  /\ Used \in 0 .. Cap - 1
         /\ Contents \in Seq(Byte \cup {0}) /\ Len(Contents) = Used
         /\ \A i \in 1 .. Used : Contents[i] = ring[SlotOf(i)] /\ SlotOf(i) \in Slots
<1>1. Used \in 0 .. Cap - 1
  BY DEF Used, TypeOK
<1>2. \A i \in 1 .. Used : SlotOf(i) \in Slots /\ ring[SlotOf(i)] \in Byte \cup {0}
  <2>1. \A i \in 1 .. Used : SlotOf(i) \in Slots
    BY <1>1 DEF SlotOf, TypeOK
  <2>. QED
    BY <2>1 DEF TypeOK
<1>3. Contents = [i \in 1 .. Used |-> ring[SlotOf(i)]]
  BY DEF Contents, SlotOf
<1>. QED
  BY <1>1, <1>2, <1>3

-----------------------------------------------------------------------------

LEMMA RingTyping ==
  /\ Init => TypeOK
  /\ TypeOK /\ [Next]_ringVars => TypeOK'
<1>1. Init => TypeOK
  BY DEF Init, TypeOK, NoPush, NoPop
<1>2. ASSUME TypeOK, [Next]_ringVars
      PROVE  TypeOK'
  <2>. USE DEF TypeOK
  <2>1. ASSUME NEW b \in Byte, PushLoad(b)
        PROVE  TypeOK'
    <3>1. push' = push \/ push' = [at |-> "store", slot |-> tail, byte |-> b]
      BY <2>1 DEF PushLoad
    <3>2. dropped' \subseteq Byte /\ UNCHANGED <<ring, head, tail, pop, taken>>
      BY <1>2, <2>1 DEF PushLoad
    <3>. QED
      BY <1>2, <3>1, <3>2
  <2>2. CASE PushStore
    BY <1>2, <2>2 DEF PushStore
  <2>3. CASE PushPublish
    BY <1>2, <2>3, NextSlotCases DEF PushPublish, NoPush
  <2>4. CASE PopLoad
    BY <1>2, <2>4 DEF PopLoad
  <2>5. CASE PopRead
    BY <1>2, <2>5 DEF PopRead
  <2>6. CASE PopAdvance
    BY <1>2, <2>6, NextSlotCases DEF PopAdvance, NoPop
  <2>7. CASE UNCHANGED ringVars
    BY <1>2, <2>7 DEF ringVars
  <2>. QED
    BY <1>2, <2>1, <2>2, <2>3, <2>4, <2>5, <2>6, <2>7 DEF Next
<1>. QED
  BY <1>1, <1>2

\* What each side may rely on while the other one moves: a push that found room still
\* has it, and a pop that found a byte still does.
RingInv ==
  /\ push.at # "idle" => push.slot = tail /\ NextSlot(tail) # head /\ push.byte \in Byte
  /\ push.at = "publish" => ring[tail] = push.byte
  /\ pop.at # "idle" => head # tail
  /\ pop.at = "advance" => pop.byte = ring[head]

LEMMA RingInvariance ==
  /\ Init => RingInv
  /\ TypeOK /\ RingInv /\ [Next]_ringVars => RingInv'
<1>1. Init => RingInv
  BY DEF Init, RingInv, NoPush, NoPop
<1>2. ASSUME TypeOK, RingInv, [Next]_ringVars
      PROVE  RingInv'
  <2>. USE DEF TypeOK, RingInv
  <2>1. ASSUME NEW b \in Byte, PushLoad(b)
        PROVE  RingInv'
    BY <1>2, <2>1 DEF PushLoad
  <2>2. CASE PushStore
    BY <1>2, <2>2 DEF PushStore
  <2>3. CASE PushPublish
    BY <1>2, <2>3 DEF PushPublish, NoPush
  <2>4. CASE PopLoad
    BY <1>2, <2>4 DEF PopLoad, PopEmpty
  <2>5. CASE PopRead
    BY <1>2, <2>5 DEF PopRead
  <2>6. CASE PopAdvance
    <3>1. push.at # "idle" => NextSlot(tail) # NextSlot(head)
      BY <1>2, <2>6, NextSlotCases DEF PopAdvance
    <3>. QED
      BY <1>2, <2>6, <3>1 DEF PopAdvance, NoPop
  <2>7. CASE UNCHANGED ringVars
    BY <1>2, <2>7 DEF ringVars
  <2>. QED
    BY <1>2, <2>1, <2>2, <2>3, <2>4, <2>5, <2>6, <2>7 DEF Next
<1>. QED
  BY <1>1, <1>2

\* The cursors and both routines' locals stay in range (keyboard.rs, push and pop).
THEOREM RingTypeOK == Spec => []TypeOK
BY RingTyping, PTL DEF Spec

LEMMA RingIInv == Spec => [](TypeOK /\ RingInv)
BY RingTyping, RingInvariance, PTL DEF Spec

\* The slot push writes is never the one pop reads, although neither takes a lock
\* (keyboard.rs, push and pop).
THEOREM RingNoSlotRace == Spec => []NoSlotRace
<1>1. TypeOK /\ RingInv => NoSlotRace
  BY DEF RingInv, NoSlotRace
<1>. QED
  BY <1>1, RingIInv, PTL

-----------------------------------------------------------------------------
(* The refinement.                                                         *)

\* The bytes between the cursors do not lie in the slot behind the last one.
LEMMA TailSlotFree ==
  ASSUME TypeOK, NEW i \in 1 .. Used
  PROVE  SlotOf(i) # tail
<1>1. Used \in 0 .. Cap - 1 /\ head \in Slots /\ tail \in Slots
  BY ContentsIsSeq DEF TypeOK
<1>2. Used = IF tail >= head THEN tail - head ELSE tail - head + Cap
  BY <1>1, UsedCases DEF Used
<1>3. SlotOf(i) = IF head + i - 1 < Cap THEN head + i - 1 ELSE head + i - 1 - Cap
  BY <1>1, SlotCases DEF SlotOf
<1>. QED
  BY <1>1, <1>2, <1>3

\* A push in progress stays out of sight.
LEMMA StoreHidden ==
  ASSUME TypeOK, RingInv, PushStore
  PROVE  Contents' = Contents
<1>1. /\ Used' = Used /\ head' = head
      /\ \A j \in Slots : j # tail => ring'[j] = ring[j]
  BY DEF PushStore, Used, RingInv, TypeOK
<1>2. \A i \in 1 .. Used : ring'[SlotOf(i)] = ring[SlotOf(i)]
  BY <1>1, TailSlotFree, ContentsIsSeq
<1>. QED
  BY <1>1, <1>2 DEF Contents, SlotOf

\* Publishing the tail appends the byte.
LEMMA PublishAppends ==
  ASSUME TypeOK, TypeOK', RingInv, PushPublish
  PROVE  Queue!Accept(push.byte) /\ push.byte \in Byte
<1>1. /\ head \in Slots /\ tail \in Slots /\ head' = head /\ ring' = ring
      /\ tail' = NextSlot(tail) /\ NextSlot(tail) # head
      /\ ring[tail] = push.byte /\ push.byte \in Byte
  BY DEF PushPublish, RingInv, TypeOK
<1>2. Used = IF tail >= head THEN tail - head ELSE tail - head + Cap
  BY <1>1, UsedCases DEF Used
<1>3. tail' \in Slots /\ tail' = IF tail = Cap - 1 THEN 0 ELSE tail + 1
  BY <1>1, NextSlotCases
<1>4. Used' = IF tail' >= head THEN tail' - head ELSE tail' - head + Cap
  <2>1. Used' = (tail' - head) % Cap
    BY <1>1 DEF Used
  <2>. QED
    BY <1>1, <1>3, <2>1, UsedCases
<1>5. Used' = Used + 1 /\ Used < Cap - 1 /\ Used \in Nat
  BY <1>1, <1>2, <1>3, <1>4
<1>6. SlotOf(Used + 1) = tail
  <2>1. SlotOf(Used + 1) =
          IF head + Used < Cap THEN head + Used ELSE head + Used - Cap
    BY <1>1, <1>5, SlotCases DEF SlotOf
  <2>. QED
    BY <1>1, <1>2, <2>1
<1>7. Contents' = Append(Contents, push.byte)
  <2>1. /\ Contents' \in Seq(Byte \cup {0}) /\ Len(Contents') = Used + 1
        /\ \A i \in 1 .. Used + 1 : Contents'[i] = ring[SlotOf(i)]
    <3>1. Contents' = [i \in 1 .. Used + 1 |-> ring[SlotOf(i)]]
      BY <1>1, <1>5 DEF Contents, SlotOf
    <3>2. \A i \in 1 .. Used + 1 : ring[SlotOf(i)] \in Byte \cup {0}
      BY <1>1, <1>5, <1>6, ContentsIsSeq DEF TypeOK
    <3>. QED
      BY <1>5, <3>1, <3>2
  <2>2. Append(Contents, push.byte) \in Seq(Byte \cup {0})
        /\ Len(Append(Contents, push.byte)) = Used + 1
        /\ Append(Contents, push.byte)[Used + 1] = push.byte
        /\ \A i \in 1 .. Used : Append(Contents, push.byte)[i] = Contents[i]
    BY <1>1, <1>5, ContentsIsSeq, AppendProperties
  <2>3. \A i \in 1 .. Used + 1 : Contents'[i] = Append(Contents, push.byte)[i]
    BY <1>1, <1>5, <1>6, <2>1, <2>2, ContentsIsSeq
  <2>. QED
    BY <2>1, <2>2, <2>3, SeqEqual
<1>. QED
  BY <1>1, <1>5, <1>7, ContentsIsSeq DEF Queue!Accept, PushPublish

\* Advancing the head takes the oldest byte.
LEMMA AdvanceTakes ==
  ASSUME TypeOK, TypeOK', RingInv, PopAdvance
  PROVE  Queue!Take
<1>1. /\ head \in Slots /\ tail \in Slots /\ tail' = tail /\ ring' = ring
      /\ head' = NextSlot(head) /\ head # tail
      /\ pop.byte = ring[head] /\ taken' = pop.byte /\ UNCHANGED dropped
  BY DEF PopAdvance, RingInv, TypeOK
<1>2. Used = IF tail >= head THEN tail - head ELSE tail - head + Cap
  BY <1>1, UsedCases DEF Used
<1>3. head' \in Slots /\ head' = IF head = Cap - 1 THEN 0 ELSE head + 1
  BY <1>1, NextSlotCases
<1>4. Used' = IF tail >= head' THEN tail - head' ELSE tail - head' + Cap
  <2>1. Used' = (tail - head') % Cap
    BY <1>1 DEF Used
  <2>. QED
    BY <1>1, <1>3, <2>1, UsedCases
<1>5. Used' = Used - 1 /\ Used \in 1 .. Cap - 1
  BY <1>1, <1>2, <1>3, <1>4
<1>6. SlotOf(1) = head
  BY <1>1, SlotCases DEF SlotOf
<1>7. \A i \in 1 .. Used - 1 : SlotOf(i)' = SlotOf(i + 1)
  <2>1. ASSUME NEW i \in 1 .. Used - 1
        PROVE  SlotOf(i)' = SlotOf(i + 1)
    <3>1. SlotOf(i)' = IF head' + i - 1 < Cap THEN head' + i - 1 ELSE head' + i - 1 - Cap
      BY <1>3, <1>5, SlotCases DEF SlotOf
    <3>2. SlotOf(i + 1) = IF head + i < Cap THEN head + i ELSE head + i - Cap
      <4>1. i + 1 \in 1 .. Cap /\ head + (i + 1) - 1 = head + i
        BY <1>1, <1>5
      <4>. QED
        BY <1>1, <4>1, SlotCases DEF SlotOf
    <3>. QED
      BY <1>1, <1>3, <1>5, <3>1, <3>2
  <2>. QED
    BY <2>1
<1>8. Contents # <<>> /\ Head(Contents) = ring[head]
  BY <1>5, <1>6, ContentsIsSeq
<1>9. Contents' = Tail(Contents)
  <2>1. /\ Contents' \in Seq(Byte \cup {0}) /\ Len(Contents') = Used - 1
        /\ \A i \in 1 .. Used - 1 : Contents'[i] = ring[SlotOf(i + 1)]
    <3>1. Contents' = [i \in 1 .. Used - 1 |-> ring[SlotOf(i)']]
      BY <1>1, <1>5 DEF Contents, SlotOf
    <3>2. Contents' = [i \in 1 .. Used - 1 |-> ring[SlotOf(i + 1)]]
      BY <1>7, <3>1
    <3>3. \A i \in 1 .. Used - 1 : ring[SlotOf(i + 1)] \in Byte \cup {0}
      BY <1>5, ContentsIsSeq DEF TypeOK
    <3>4. Used - 1 \in Nat
      BY <1>5
    <3>5. Contents' \in [1 .. Used - 1 -> Byte \cup {0}]
      BY <3>2, <3>3
    <3>6. Contents' \in Seq(Byte \cup {0}) /\ Len(Contents') = Used - 1
      BY <3>4, <3>5, FunctionIsSeq
    <3>. QED
      BY <3>2, <3>6
  <2>2. /\ Tail(Contents) \in Seq(Byte \cup {0}) /\ Len(Tail(Contents)) = Used - 1
        /\ \A i \in 1 .. Used - 1 : Tail(Contents)[i] = Contents[i + 1]
    BY <1>5, <1>8, ContentsIsSeq, HeadTailProperties
  <2>3. \A i \in 1 .. Used - 1 : Contents'[i] = Tail(Contents)[i]
    <3>1. ASSUME NEW i \in 1 .. Used - 1
          PROVE  Contents'[i] = Tail(Contents)[i]
      <4>1. i + 1 \in 1 .. Used
        BY <1>5
      <4>2. Contents[i + 1] = ring[SlotOf(i + 1)]
        BY <4>1, ContentsIsSeq
      <4>. QED
        BY <2>1, <2>2, <4>2
    <3>. QED
      BY <3>1
  <2>. QED
    BY <2>1, <2>2, <2>3, SeqEqual
<1>. QED
  BY <1>1, <1>8, <1>9 DEF Queue!Take

\* A full ring refuses the byte.
LEMMA LoadRefuses ==
  ASSUME TypeOK, NEW b \in Byte, PushLoad(b)
  PROVE  Queue!Refuse(b) \/ UNCHANGED Queue!qvars
<1>1. Contents' = Contents
  BY DEF PushLoad, Contents, Used
<1>2. CASE NextSlot(tail) = head
  <2>1. head \in Slots /\ tail \in Slots
    BY DEF TypeOK
  <2>2. Used = Cap - 1
    BY <1>2, <2>1, UsedCases, NextSlotCases DEF Used
  <2>. QED
    BY <1>1, <1>2, <2>2, ContentsIsSeq DEF PushLoad, Queue!Refuse
<1>3. CASE NextSlot(tail) # head
  BY <1>1, <1>3 DEF PushLoad, Queue!qvars
<1>. QED
  BY <1>2, <1>3

\* A pushed byte comes out once and in order, and is refused only by a full ring: the
\* ring is a bounded FIFO at every step of either side (keyboard.rs, push and pop).
THEOREM RingImplementsQueue == Spec => ImplementsQueue
<1>1. Init => Queue!Init
  <2>. SUFFICES ASSUME Init
                PROVE  Queue!Init
    OBVIOUS
  <2>1. TypeOK /\ Used = 0
    BY RingTyping DEF Init, Used
  <2>2. Contents = <<>>
    BY <2>1, ContentsIsSeq
  <2>. QED
    BY <2>2 DEF Queue!Init, Init
<1>2. ASSUME TypeOK, TypeOK', RingInv, [Next]_ringVars
      PROVE  [Queue!Next]_(Queue!qvars)
  <2>1. ASSUME NEW b \in Byte, PushLoad(b)
        PROVE  Queue!Next \/ UNCHANGED Queue!qvars
    BY <1>2, <2>1, LoadRefuses DEF Queue!Next
  <2>2. CASE PushStore
    BY <1>2, <2>2, StoreHidden DEF PushStore, Queue!qvars
  <2>3. CASE PushPublish
    BY <1>2, <2>3, PublishAppends DEF Queue!Next
  <2>4. CASE PopLoad \/ PopRead
    BY <2>4 DEF PopLoad, PopRead, Contents, Used, Queue!qvars
  <2>5. CASE PopAdvance
    BY <1>2, <2>5, AdvanceTakes DEF Queue!Next
  <2>6. CASE UNCHANGED ringVars
    BY <2>6 DEF ringVars, Contents, Used, Queue!qvars
  <2>. QED
    BY <1>2, <2>1, <2>2, <2>3, <2>4, <2>5, <2>6 DEF Next
<1>. QED
  BY <1>1, <1>2, RingIInv, PTL DEF Spec, ImplementsQueue, Queue!Spec
=============================================================================
