------------------------------- MODULE Memory --------------------------------
(***************************************************************************)
(* Physical frames and page tables (frame_allocator.rs, paging.rs) and the *)
(* callers that take a frame, map it, unmap it and give it back: the self  *)
(* tests, the heap, the user programs and the secret page of usermode.rs.  *)
(* Addresses keep their structure and lose their size: a table has Fanout  *)
(* entries for 512, a page PageSize bytes for 4096, and the four levels,   *)
(* the identity window (one entry of the PDPT, in huge pages of the PD)    *)
(* and the canonical half are where the source has them.  The CPU caches   *)
(* any translation it could use, at any time.                              *)
(***************************************************************************)
EXTENDS Integers, FiniteSets, FiniteSetsExt

CONSTANTS
  Fanout,      \* entries of a table
  FrameCount,  \* frames the bitmap spans
  PageSize,    \* bytes of a page and of a frame
  UserPages,   \* pages mapped by map_user_page: UVA_CODE, UVA_STACK
  KernelPages, \* pages mapped by map_page: TEST_VIRT, the heap, SECRET_VA
  Lasting,     \* those of them that are never unmapped
  MemoryMaps   \* what GRUB may report: [usable, reserved], sets of <<start, end>>

\* The pages below one entry at a level: 0 the PT, 3 the PML4; below 4, all there are.
Span(level) ==
  CASE level = 0 -> 1
    [] level = 1 -> Fanout
    [] level = 2 -> Fanout * Fanout
    [] level = 3 -> Fanout * Fanout * Fanout
    [] level = 4 -> Fanout * Fanout * Fanout * Fanout

ASSUME MemoryAssumption ==
  /\ Fanout \in Nat \ {0, 1} /\ PageSize \in Nat \ {0}
  /\ FrameCount \in Nat \ {0} /\ FrameCount <= Span(2)
  /\ UserPages \cap KernelPages = {} /\ Lasting \subseteq KernelPages
  /\ UserPages \cup KernelPages \subseteq Span(2) .. Span(4) \div 2 - 1
  /\ \A map \in MemoryMaps : map.usable \cup map.reserved \subseteq Nat \X Nat

VARIABLES
  firmware,  \* the memory map of this machine
  free,      \* the frames whose bit in the bitmap is clear
  mem,       \* what a frame holds, read as a page table
  cr3,       \* the frame of the PML4; None under the boot map
  tlb,       \* the translations the CPU has cached
  owner,     \* owner[p]: the frame the caller holds for page p, or None
  panicked   \* an .expect() or assert failed

vars == <<firmware, free, mem, cr3, tlb, owner, panicked>>

None   == -1
Frames == 0 .. FrameCount - 1
Slots  == 0 .. Fanout - 1
Pages  == UserPages \cup KernelPages

\* The page the 1 GiB window starts above, and the end of the canonical low half.
IdentityLimit == Span(2)
UserAddrLimit == (Span(4) \div 2) * PageSize

Entry == [present : BOOLEAN, user : BOOLEAN, huge : BOOLEAN, addr : Nat]
Absent == [present |-> FALSE, user |-> FALSE, huge |-> FALSE, addr |-> 0]
Zeroed == [i \in Slots |-> Absent]

\* A frame nobody zeroed may hold anything; this is the worst it can hold.
Garbage == [i \in Slots |-> [present |-> TRUE, user |-> TRUE, huge |-> FALSE, addr |-> 0]]

-----------------------------------------------------------------------------
(* frame_allocator.rs                                                      *)

\* Fault: a frame that straddles the edge of a region counts as usable.
UsableInsideRoundedOut(map) ==
  {f \in Frames : \E r \in map.usable : r[1] < (f + 1) * PageSize /\ f * PageSize < r[2]}

\* Phase 2 of init: the frames that lie inside a usable region.
UsableInside(map) ==
  {f \in Frames : \E r \in map.usable : r[1] <= f * PageSize /\ (f + 1) * PageSize <= r[2]}

\* Phase 3: frame 0 and every frame the kernel image or the boot information touches.
Reserved(map) ==
  {f \in Frames : \E r \in map.reserved \cup {<<0, PageSize>>} :
                    r[1] < (f + 1) * PageSize /\ f * PageSize < r[2]}

FramesAtInit(map) == UsableInside(map) \ Reserved(map)

\* Fault: the search runs off the end of the bitmap.
FirstFreeUnbounded(pool) == IF pool = {} THEN FrameCount ELSE Min(pool)

\* alloc: the lowest free frame.
FirstFree(pool) == IF pool = {} THEN None ELSE Min(pool)

-----------------------------------------------------------------------------
(* paging.rs: the walks.                                                   *)

\* table_index: the digit of the page's number at a level, 3 for the PML4.
TableIndex(p, level) == (p \div Span(level)) % Fanout

\* The entries on the way from the table at root to the page, in the memory m.
PathTo(m, root, p) ==
  LET pml4e == m[root][TableIndex(p, 3)]
      pdpte == m[pml4e.addr][TableIndex(p, 2)]
      pde   == m[pdpte.addr][TableIndex(p, 1)]
      pte   == m[pde.addr][TableIndex(p, 0)]
  IN  [level \in 0 .. 3 |-> CASE level = 3 -> pml4e [] level = 2 -> pdpte
                              [] level = 1 -> pde [] level = 0 -> pte]

\* The level whose entry maps the page: the PT, or the PD or PDPT with a huge page.
Governing(path) == IF path[2].huge THEN 2 ELSE IF path[1].huge THEN 1 ELSE 0

\* translate_from, and with it what the CPU finds: U/S counts at every level.
Walk(m, root, p) ==
  LET path == PathTo(m, root, p)
      leaf == Governing(path)
  IN  IF \A level \in leaf .. 3 : path[level].present
      THEN {[page |-> p, frame |-> path[leaf].addr + (p % Span(leaf)),
             user |-> \A level \in leaf .. 3 : path[level].user]}
      ELSE {}

\* page_user_accessible: a walk that ends at the first entry that denies.
PageUserAccessible(root, p) ==
  LET path == PathTo(mem, root, p)
  IN  \A level \in Governing(path) .. 3 : path[level].present /\ path[level].user

AddrLimit == 4 * UserAddrLimit   \* where an address wraps: 2 ^ 64 in the source

\* Fault: the page of the first byte stands for all of them.
UserRangeOkFirst(uaddr, len) ==
  \/ len = 0
  \/ /\ uaddr + len < AddrLimit /\ uaddr + len <= UserAddrLimit
     /\ PageUserAccessible(cr3, uaddr \div PageSize)

\* user_range_ok: every page from the first byte's to the last byte's.
UserRangeOk(uaddr, len) ==
  \/ len = 0
  \/ /\ uaddr + len < AddrLimit /\ uaddr + len <= UserAddrLimit
     /\ \A p \in uaddr \div PageSize .. (uaddr + len - 1) \div PageSize :
          PageUserAccessible(cr3, p)

-----------------------------------------------------------------------------
(* paging.rs: the changes.  A walk under way is a record of the memory it  *)
(* leaves, the table it has reached and its result.                        *)

\* Fault: a table is linked as it was found.
AllocTableDirty(w) ==
  [w EXCEPT !.table = Min(w.free), !.free = @ \ {Min(w.free)}]

\* alloc_table: the lowest free frame, zeroed.
AllocTable(w) ==
  LET next == Min(w.free)
  IN  [w EXCEPT !.table = next, !.free = @ \ {next}, !.mem[next] = Zeroed]

\* Fault: a table that is there already is left as it is.
OpenedNever(entry, user) == entry

\* A user mapping adds U/S to the entries it meets on its way.
Opened(entry, user) == [entry EXCEPT !.user = @ \/ user]

\* The table that is there, opened to a user mapping.
Enter(w, i, user) ==
  [w EXCEPT !.table = w.mem[w.table][i].addr, !.mem[w.table][i] = Opened(@, user)]

\* The table that is missing.
Create(w, i, user) ==
  LET made == AllocTable(w)
  IN  [made EXCEPT !.mem[w.table][i] =
         [present |-> TRUE, user |-> user, huge |-> FALSE, addr |-> made.table]]

\* One level of map_inner.
Descend(w, p, user, level) ==
  LET i == TableIndex(p, level)
      entry == w.mem[w.table][i]
  IN  IF w.result # "ok" THEN w
      ELSE IF ~entry.present /\ w.free = {} THEN [w EXCEPT !.result = "OutOfFrames"]
      ELSE IF ~entry.present THEN Create(w, i, user)
      ELSE IF level <= 2 /\ entry.huge THEN [w EXCEPT !.result = "HugePage"]
      ELSE Enter(w, i, user)

MapInner(p, frame, user) ==
  LET start == [mem |-> mem, free |-> free, table |-> cr3, result |-> "ok"]
      w == Descend(Descend(Descend(start, p, user, 3), p, user, 2), p, user, 1)
  IN  IF w.result # "ok" THEN w
      ELSE [w EXCEPT !.mem[w.table][TableIndex(p, 0)] =
              [present |-> TRUE, user |-> user, huge |-> FALSE, addr |-> frame]]

\* flush_tlb: invlpg.
Flushed(p) == {t \in tlb : t.page # p}

\* build_address_space: PML4, PDPT and PD from the pool, the PD full of huge pages.
BuildAddressSpace ==
  LET pml4 == Min(free)
      pdpt == Min(free \ {pml4})
      pd   == Min(free \ {pml4, pdpt})
      link(t) == [Zeroed EXCEPT ![0] = [Absent EXCEPT !.present = TRUE, !.addr = t]]
      identity == [i \in Slots |->
        [present |-> TRUE, user |-> FALSE, huge |-> TRUE, addr |-> i * Fanout]]
  IN  /\ cr3' = pml4 /\ free' = free \ {pml4, pdpt, pd}
      /\ mem' = [mem EXCEPT ![pml4] = link(pdpt), ![pdpt] = link(pd), ![pd] = identity]

-----------------------------------------------------------------------------
(* The callers.                                                            *)

Init ==
  /\ firmware \in MemoryMaps
  /\ free = FramesAtInit(firmware) /\ UsableInside(firmware) # {}
  /\ mem = [f \in Frames |-> Garbage]
  /\ cr3 = None /\ tlb = {} /\ owner = [p \in Pages |-> None] /\ panicked = FALSE

\* paging::init: build, then switch; the switch empties the cache.
PagingInit ==
  /\ cr3 = None
  /\ IF Cardinality(free) < 3
     THEN /\ panicked' = TRUE /\ free' = {} /\ UNCHANGED cr3
          /\ mem' = [f \in Frames |-> IF f \in free THEN Zeroed ELSE mem[f]]
     ELSE BuildAddressSpace /\ UNCHANGED panicked
  /\ tlb' = {} /\ UNCHANGED <<firmware, owner>>

\* A caller takes a frame for its page and fills it.  Callers run one at a time, at boot
\* or with interrupts off: nobody else is between its alloc and its map.
Alloc(p) ==
  /\ cr3 # None /\ owner[p] = None
  /\ \A q \in Pages : owner[q] # None => Walk(mem, cr3, q) # {}
  /\ LET frame == FirstFree(free)
     IN  IF frame = None THEN panicked' = TRUE /\ UNCHANGED <<free, mem, owner>>
         ELSE /\ owner' = [owner EXCEPT ![p] = frame] /\ free' = free \ {frame}
              /\ mem' = [f \in Frames |-> IF f = frame THEN Garbage ELSE mem[f]]
              /\ UNCHANGED panicked
  /\ UNCHANGED <<firmware, cr3, tlb>>

\* map_page or map_user_page; every caller takes an error for the end.
Map(p) ==
  /\ cr3 # None /\ owner[p] # None /\ Walk(mem, cr3, p) = {}
  /\ LET w == MapInner(p, owner[p], p \in UserPages)
     IN  /\ mem' = w.mem /\ free' = w.free
         /\ tlb' = IF w.result = "ok" THEN Flushed(p) ELSE tlb
         /\ panicked' = (w.result # "ok")
  /\ UNCHANGED <<firmware, cr3, owner>>

\* Fault: the cached translation survives.
UnmapUnflushed(p) ==
  /\ cr3 # None /\ p \notin Lasting /\ Walk(mem, cr3, p) # {}
  /\ LET table == PathTo(mem, cr3, p)[1].addr
     IN  mem' = [mem EXCEPT ![table][TableIndex(p, 0)] = Absent]
  /\ UNCHANGED <<firmware, free, cr3, tlb, owner, panicked>>

\* unmap_page: the leaf alone is cleared; the tables above it stay.
Unmap(p) ==
  /\ cr3 # None /\ p \notin Lasting /\ Walk(mem, cr3, p) # {}
  /\ LET table == PathTo(mem, cr3, p)[1].addr
     IN  mem' = [mem EXCEPT ![table][TableIndex(p, 0)] = Absent]
  /\ tlb' = Flushed(p)
  /\ UNCHANGED <<firmware, free, cr3, owner, panicked>>

\* frame_allocator::free, behind unmap_page.
Free(p) ==
  /\ cr3 # None /\ owner[p] # None /\ Walk(mem, cr3, p) = {}
  /\ free' = free \cup {owner[p]}
  /\ owner' = [owner EXCEPT ![p] = None]
  /\ UNCHANGED <<firmware, mem, cr3, tlb, panicked>>

\* The CPU walks the tables for an access of its own, or ahead of one.
Fill(p) ==
  /\ cr3 # None /\ ~\E t \in tlb : t.page = p
  /\ tlb' = tlb \cup Walk(mem, cr3, p) /\ tlb' # tlb
  /\ UNCHANGED <<firmware, free, mem, cr3, owner, panicked>>

Next ==
  /\ ~panicked
  /\ \/ PagingInit
     \/ \E p \in Pages : Alloc(p) \/ Map(p) \/ Unmap(p) \/ Free(p) \/ Fill(p)

Spec == Init /\ [][Next]_vars

-----------------------------------------------------------------------------

\* A panic for want of memory comes when memory is short, and only then; the cached
\* translations name a page once.
TypeOK ==
  /\ firmware \in MemoryMaps /\ free \subseteq Frames
  /\ mem \in [Frames -> [Slots -> Entry]]
  /\ cr3 \in Frames \cup {None}
  /\ tlb \subseteq [page : Pages, frame : Frames, user : BOOLEAN]
  /\ \A s, t \in tlb : s.page = t.page => s = t
  /\ owner \in [Pages -> Frames \cup {None}]
  /\ panicked \in BOOLEAN /\ (panicked => free = {})

LinkedFrom(tables) ==
  {l \in tables \X Slots : mem[l[1]][l[2]].present /\ ~mem[l[1]][l[2]].huge}
Targets(links) == {mem[l[1]][l[2]].addr : l \in links}

\* A frame is free, a page table, or one caller's, never two of these: a table hangs in
\* one place, no mapping or cached translation leads to a table or a free frame, and a
\* frame that is neither reserved nor lost to a failed start is one of the three.
FramesDisjoint ==
  cr3 # None =>
    LET l3 == LinkedFrom({cr3})
        l2 == LinkedFrom(Targets(l3))
        l1 == LinkedFrom(Targets(l2))
        tables == {cr3} \cup Targets(l3 \cup l2 \cup l1)
        held   == {owner[p] : p \in Pages} \ {None}
        leaves == Targets(LinkedFrom(Targets(l1)))
    IN  /\ Cardinality(tables) = 1 + Cardinality(l3 \cup l2 \cup l1)
        /\ \A p, q \in Pages : owner[p] = owner[q] /\ owner[p] # None => p = q
        /\ free \cap (tables \cup held) = {} /\ tables \cap held = {}
        /\ leaves \cup {t.frame : t \in tlb} \subseteq held
        /\ free \cup tables \cup held = FramesAtInit(firmware)

\* Every byte the allocator ever gave out is RAM that GRUB called usable, outside the
\* kernel image, the boot information and frame 0; so a frame that comes back is too.
OnlyUsableRam ==
  LET given == (free \cup {cr3} \cup {owner[p] : p \in Pages}) \ {None}
  IN  \A f \in given : \A byte \in f * PageSize .. (f + 1) * PageSize - 1 :
        /\ byte >= PageSize
        /\ \E r \in firmware.usable : r[1] <= byte /\ byte < r[2]
        /\ \A r \in firmware.reserved : byte < r[1] \/ r[2] <= byte

\* What an access to the page meets: the cached translation, or else the tables.
Seen(p) ==
  IF \E t \in tlb : t.page = p THEN {t \in tlb : t.page = p} ELSE Walk(mem, cr3, p)

\* Around the callers' pages, around the end of the low half, where the table index
\* repeats and where addresses wrap.
ProbedAddresses ==
  UNION {at - 1 .. at + 1 :
           at \in {1, UserAddrLimit, AddrLimit - 2} \cup {p * PageSize : p \in Pages}
                  \cup {2 * UserAddrLimit + p * PageSize : p \in UserPages}}

\* The copy-from-user check says yes to exactly the ranges the caller could have read
\* without the kernel's help, whatever was mapped, opened and unmapped before.
RangeCheckExact ==
  cr3 # None =>
    LET bytes == {a + n : a \in ProbedAddresses, n \in 0 .. PageSize + 1}
        \* What the CPU lets ring 3 touch; past the low half no address is canonical.
        open  == {p \in {b \div PageSize : b \in bytes} :
                    p * PageSize < UserAddrLimit /\ \E t \in Seen(p) : t.user}
    IN  \A uaddr \in ProbedAddresses : \A len \in 0 .. PageSize + 2 :
          UserRangeOk(uaddr, len)
            <=> {b \div PageSize : b \in uaddr .. uaddr + len - 1} \subseteq open

\* To the callers the tables, the bitmap and the cache are an address space: an
\* operation changes its own page and nothing else, a user mapping that opens shared
\* tables opens no other page, a failed one changes nothing, no frame has two owners.
Promise == INSTANCE AddressSpace WITH
  space <- IF cr3 = None THEN {} ELSE UNION {Seen(p) : p \in Pages},
  owned <- {<<p, owner[p]>> : p \in {q \in Pages : owner[q] # None}}

AddressSpaceKept == Promise!Spec
=============================================================================
