-------------------------------- MODULE Heap ---------------------------------
(***************************************************************************)
(* The kernel heap (heap.rs): a first-fit free list whose nodes live in    *)
(* the free regions themselves.  Regions are split and never merged.  The  *)
(* heap is one mapped range of HeapSize bytes; base is its first address.  *)
(* One call is one step: every caller holds the allocator's lock.          *)
(***************************************************************************)
EXTENDS Integers, SequencesExt

CONSTANTS
  HeapBase, HeapSize,
  NodeSize,   \* size_of::<ListNode>(), 16 in the source
  NodeAlign,  \* align_of::<ListNode>(), 8 in the source
  Layouts     \* what callers ask for: [size, align] records

ASSUME HeapAssumption ==
  /\ HeapBase \in Nat /\ HeapSize \in Nat
  /\ NodeAlign \in Nat \ {0} /\ NodeSize \in Nat \ {0}
  /\ HeapBase % NodeAlign = 0 /\ NodeSize % NodeAlign = 0 /\ HeapSize >= NodeSize
  \* Alignments are powers of two: of two of them one divides the other.
  /\ \A l \in Layouts :
       /\ l.size \in Nat \ {0} /\ l.align \in Nat \ {0}
       /\ l.align % NodeAlign = 0 \/ NodeAlign % l.align = 0

VARIABLES
  free,  \* the list from head.next on: [addr, size] records
  live   \* the blocks given out: [addr, layout] records

vars == <<free, live>>

AlignUp(addr, align) == ((addr + align - 1) \div align) * align

\* size_align: a block can hold the node it will be freed into, and ends aligned.
AlignOf(layout) == IF layout.align < NodeAlign THEN NodeAlign ELSE layout.align
SizeOf(layout) ==
  LET padded == AlignUp(layout.size, AlignOf(layout))
  IN  IF padded < NodeSize THEN NodeSize ELSE padded

\* Fault: the list is kept in order of age.
AddFreeRegionLast(list, addr, size) == Append(list, [addr |-> addr, size |-> size])

\* The region goes to the front of the list.
AddFreeRegion(list, addr, size) == <<[addr |-> addr, size |-> size]>> \o list

\* Fault: a rest too small for a node is taken for a fit.
FitsWithSliver(region, layout) ==
  AlignUp(region.addr, AlignOf(layout)) + SizeOf(layout) <= region.addr + region.size

\* alloc_from_region: the block fits behind the first aligned address, and what is left
\* behind it is nothing or can hold a node.
Fits(region, layout) ==
  LET end    == AlignUp(region.addr, AlignOf(layout)) + SizeOf(layout)
      excess == region.addr + region.size - end
  IN  excess = 0 \/ excess >= NodeSize

\* find_region: the index of the first region that fits, 0 if none does.
FindRegion(list, layout) == SelectInSeq(list, LAMBDA region : Fits(region, layout))

Init == free = AddFreeRegion(<<>>, HeapBase, HeapSize) /\ live = {}

\* Fault: the whole region goes with the block.
AllocWhole(layout) ==
  LET i == FindRegion(free, layout)
  IN  /\ i > 0
      /\ live' = live \cup {[addr |-> AlignUp(free[i].addr, AlignOf(layout)), layout |-> layout]}
      /\ free' = RemoveAt(free, i)

\* Fault: the tail is measured from the start of the region.
AllocTailFromFront(layout) ==
  LET i == FindRegion(free, layout)
      end  == free[i].addr + SizeOf(layout)
      tail == free[i].addr + free[i].size - end
      rest == RemoveAt(free, i)
  IN  /\ i > 0
      /\ live' = live \cup {[addr |-> AlignUp(free[i].addr, AlignOf(layout)), layout |-> layout]}
      /\ free' = IF tail > 0 THEN AddFreeRegion(rest, end, tail) ELSE rest

\* The front of the region up to the aligned address is given up, the tail goes back to
\* the list.  Without a region the caller gets null and nothing changes.
Alloc(layout) ==
  LET i == FindRegion(free, layout)
      start == AlignUp(free[i].addr, AlignOf(layout))
      end   == start + SizeOf(layout)
      tail  == free[i].addr + free[i].size - end
      rest  == RemoveAt(free, i)
  IN  /\ i > 0
      /\ live' = live \cup {[addr |-> start, layout |-> layout]}
      /\ free' = IF tail > 0 THEN AddFreeRegion(rest, end, tail) ELSE rest

Dealloc(block) ==
  /\ live' = live \ {block}
  /\ free' = AddFreeRegion(free, block.addr, SizeOf(block.layout))

Next ==
  \/ \E layout \in Layouts : Alloc(layout)
  \/ \E block \in live : Dealloc(block)

Spec == Init /\ [][Next]_vars

-----------------------------------------------------------------------------

Bytes(addr, size) == addr .. addr + size - 1
Regions == {Bytes(free[i].addr, free[i].size) : i \in DOMAIN free}
Blocks  == {Bytes(b.addr, SizeOf(b.layout)) : b \in live}

\* Blocks and free regions lie inside the heap and do not overlap, none is on the list
\* twice, a block is aligned and as long as its caller asked, and a region is where a
\* node may lie and large enough for one: add_free_region's assertions never fire.
Disjoint ==
  /\ Cardinality(Regions) = Len(free) /\ Cardinality(Blocks) = Cardinality(live)
  /\ \A r, s \in Regions \cup Blocks : r = s \/ r \cap s = {}
  /\ Regions \cap Blocks = {}
  /\ UNION (Regions \cup Blocks) \subseteq Bytes(HeapBase, HeapSize)
  /\ \A b \in live :
        b.layout \in Layouts /\ b.addr % b.layout.align = 0 /\ b.layout.size <= SizeOf(b.layout)
  /\ \A i \in DOMAIN free : free[i].addr % NodeAlign = 0 /\ free[i].size >= NodeSize

\* Memory is lost in one way only: the gap in front of a block whose alignment is
\* stricter than a node's, and that gap is shorter than the alignment.
Covered == UNION (Regions \cup Blocks)
NothingElseLost ==
  [][ /\ Covered' \subseteq Covered
      /\ \A byte \in Covered \ Covered' :
           \E b \in live' \ live :
             /\ AlignOf(b.layout) > NodeAlign
             /\ b.addr - AlignOf(b.layout) < byte /\ byte < b.addr ]_vars

\* heap::self_test: what was freed is what the next request like it gets.
FreedIsReused ==
  \A b \in live :
    LET list == AddFreeRegion(free, b.addr, SizeOf(b.layout))
        i    == FindRegion(list, b.layout)
    IN  i > 0 /\ AlignUp(list[i].addr, AlignOf(b.layout)) = b.addr
=============================================================================
