---------------------------- MODULE MemoryProofs -----------------------------
(***************************************************************************)
(* TLAPS proofs about Memory, for every memory map, table size and set of  *)
(* pages.  The invariant says that the page tables are a tree: T[level]    *)
(* names the tables of a level, every table but the root hangs in one      *)
(* entry of the level above, an entry of a PT is there for the one page    *)
(* whose digits lead to it, and the frames of the tables, the pool and the *)
(* owners are apart and together are the frames found at boot.  A page's   *)
(* walk, and what the CPU has cached of it, follows from its owner.        *)
(***************************************************************************)
EXTENDS Memory, FiniteSetTheorems, FunctionTheorems, WellFoundedInduction, TLAPS

LEMMA LowestIsFree ==
  ASSUME NEW pool, pool \subseteq Nat, pool # {}
  PROVE  Min(pool) \in pool
<1>1. PICK x \in pool : \A y \in pool : ~ (<<y, x>> \in OpToRel(<, Nat))
  BY WFMin, NatLessThanWellFounded, Zenon
<1>2. \A y \in pool : ~ (y < x)
  BY <1>1 DEF OpToRel
<1>3. \A y \in pool : x <= y
  BY <1>2
<1>. QED
  BY <1>3 DEF Min

LEMMA FramesAreNumbers ==
  ASSUME NEW map \in MemoryMaps
  PROVE  FramesAtInit(map) \subseteq Frames /\ Frames \subseteq Nat
BY MemoryAssumption DEF FramesAtInit, UsableInside, Frames
-----------------------------------------------------------------------------
(* Numbers: a page is its four digits.                                     *)

\* Division behind names of its own: the provers lose themselves in nested \div and %.
Quo(x, d) == x \div d
Rem(x, d) == x % d

LEMMA Division ==
  ASSUME NEW x \in Nat, NEW d \in Nat \ {0}
  PROVE  Quo(x, d) \in Nat /\ Rem(x, d) \in 0 .. d - 1 /\ x = Quo(x, d) * d + Rem(x, d)
<1>1. Quo(x, d) \in Nat
  BY DEF Quo
<1>2. Rem(x, d) \in 0 .. d - 1
  BY DEF Rem
<1>3. Rem(x, d) = x - d * Quo(x, d)
  BY DEF Quo, Rem
<1>. QED
  BY <1>1, <1>2, <1>3

LEMMA Quotient ==
  ASSUME NEW x \in Nat, NEW d \in Nat \ {0}, NEW q \in Nat, NEW r \in 0 .. d - 1,
         x = q * d + r
  PROVE  Quo(x, d) = q
<1>1. x = d * q + r
  OBVIOUS
<1>. QED
  BY <1>1 DEF Quo

LEMMA DivideTwice ==
  ASSUME NEW x \in Nat, NEW a \in Nat \ {0}, NEW b \in Nat \ {0}
  PROVE  Quo(x, a * b) = Quo(Quo(x, a), b)
<1>. DEFINE q == Quo(x, a)
            r == Rem(x, a)
            k == Quo(q, b)
            s == Rem(q, b)
            d == a * b
            e == s * a + r
<1>1. q \in Nat /\ r \in 0 .. a - 1 /\ x = q * a + r
  BY Division
<1>2. k \in Nat /\ s \in 0 .. b - 1 /\ q = k * b + s
  BY <1>1, Division
<1>. HIDE DEF q, r, k, s
<1>3. x = k * d + e
  BY <1>1, <1>2
<1>4. s * a + r \in 0 .. a * b - 1
  <2>1. s * a <= (b - 1) * a
    BY <1>2
  <2>2. (b - 1) * a = a * b - a
    OBVIOUS
  <2>3. s * a \in Nat /\ a * b \in Nat
    BY <1>2
  <2>. QED
    BY <1>1, <2>1, <2>2, <2>3
<1>5. d \in Nat \ {0} /\ e \in 0 .. d - 1
  BY <1>4
<1>. HIDE DEF d, e
<1>6. Quo(x, d) = k
  BY <1>2, <1>3, <1>5, Quotient
<1>. QED
  BY <1>6 DEF d, k, q

LEMMA Spans ==
  /\ Span(0) = 1 /\ Span(1) = Fanout
  /\ Span(2) = Span(1) * Fanout /\ Span(3) = Span(2) * Fanout /\ Span(4) = Span(3) * Fanout
  /\ \A l \in 0 .. 4 : Span(l) \in Nat \ {0}
<1>. DEFINE a == Fanout * Fanout
            b == a * Fanout
            c == b * Fanout
<1>1. Fanout \in Nat \ {0}
  BY MemoryAssumption
<1>2. /\ Span(0) = 1 /\ Span(1) = Fanout /\ Span(2) = a /\ Span(3) = b /\ Span(4) = c
  BY DEF Span
<1>3. a \in Nat \ {0}
  BY <1>1
<1>. HIDE DEF a
<1>4. b \in Nat \ {0}
  BY <1>1, <1>3
<1>. HIDE DEF b
<1>5. c \in Nat \ {0}
  BY <1>1, <1>4
<1>6. \A l \in 0 .. 4 : l = 0 \/ l = 1 \/ l = 2 \/ l = 3 \/ l = 4
  OBVIOUS
<1>. HIDE DEF c
<1>7. \A l \in 0 .. 4 : Span(l) \in Nat \ {0}
  BY <1>1, <1>2, <1>3, <1>4, <1>5, <1>6
<1>8. a = Fanout * Fanout /\ b = a * Fanout /\ c = b * Fanout
  BY DEF a, b, c
<1>. QED
  BY <1>2, <1>7, <1>8

\* Shifting a level further drops one digit.
LEMMA Digit ==
  ASSUME NEW p \in Nat, NEW l \in 0 .. 3
  PROVE  /\ TableIndex(p, l) \in Slots
         /\ Quo(p, Span(l)) = Quo(p, Span(l + 1)) * Fanout + TableIndex(p, l)
<1>1. Fanout \in Nat \ {0} /\ Span(l) \in Nat \ {0}
  BY MemoryAssumption, Spans
<1>2. Quo(p, Span(l)) \in Nat
  BY <1>1, Division
<1>3. Quo(p, Span(l + 1)) = Quo(Quo(p, Span(l)), Fanout)
  <2>1. Span(l + 1) = Span(l) * Fanout
    <3>1. l = 0 \/ l = 1 \/ l = 2 \/ l = 3
      OBVIOUS
    <3>2. CASE l = 0
      BY <1>1, <3>2, Spans
    <3>3. CASE l = 1
      BY <3>3, Spans
    <3>4. CASE l = 2
      BY <3>4, Spans
    <3>5. CASE l = 3
      BY <3>5, Spans
    <3>. QED
      BY <3>1, <3>2, <3>3, <3>4, <3>5
  <2>. DEFINE a == Span(l)
  <2>2. a \in Nat \ {0}
    BY <1>1
  <2>. HIDE DEF a
  <2>3. Quo(p, a * Fanout) = Quo(Quo(p, a), Fanout)
    BY <1>1, <2>2, DivideTwice
  <2>. QED
    BY <2>1, <2>3, Zenon DEF a
<1>4. TableIndex(p, l) = Rem(Quo(p, Span(l)), Fanout)
  BY DEF TableIndex, Quo, Rem
<1>. QED
  BY <1>1, <1>2, <1>3, <1>4, Division DEF Slots

LEMMA PagesAreNumbers ==
  ASSUME NEW p \in Pages
  PROVE  p \in Nat /\ p >= Span(2) /\ Quo(p, Span(4)) = 0
<1>1. p \in Span(2) .. Span(4) \div 2 - 1
  BY MemoryAssumption DEF Pages
<1>2. Span(2) \in Nat \ {0} /\ Span(4) \in Nat \ {0}
  BY Spans
<1>3. p \in Nat /\ p >= Span(2) /\ p < Span(4)
  BY <1>1, <1>2
<1>4. p = 0 * Span(4) + p /\ p \in 0 .. Span(4) - 1
  BY <1>2, <1>3
<1>5. Quo(p, Span(4)) = 0
  BY <1>2, <1>3, <1>4, Quotient
<1>. QED
  BY <1>3, <1>5

LEMMA SamePage ==
  ASSUME NEW p \in Pages, NEW q \in Pages, \A l \in 0 .. 3 : TableIndex(p, l) = TableIndex(q, l)
  PROVE  p = q
<1>1. p \in Nat /\ q \in Nat /\ Quo(p, Span(4)) = Quo(q, Span(4))
  BY PagesAreNumbers
<1>2. Quo(p, Span(3)) = Quo(q, Span(3))
  BY <1>1, Digit
<1>3. Quo(p, Span(2)) = Quo(q, Span(2))
  BY <1>1, <1>2, Digit
<1>4. Quo(p, Span(1)) = Quo(q, Span(1))
  BY <1>1, <1>3, Digit
<1>5. Quo(p, Span(0)) = Quo(q, Span(0))
  BY <1>1, <1>4, Digit
<1>6. Quo(p, 1) = p /\ Quo(q, 1) = q
  BY <1>1 DEF Quo
<1>. QED
  BY <1>5, <1>6, Spans

\* No page of a caller lies in the identity window.
LEMMA OutsideIdentity ==
  ASSUME NEW p \in Pages
  PROVE  ~ (TableIndex(p, 3) = 0 /\ TableIndex(p, 2) = 0)
<1>. SUFFICES ASSUME TableIndex(p, 3) = 0, TableIndex(p, 2) = 0
              PROVE  FALSE
  OBVIOUS
<1>1. p \in Nat /\ p >= Span(2) /\ Quo(p, Span(4)) = 0
  BY PagesAreNumbers
<1>2. Fanout \in Nat /\ Span(2) \in Nat \ {0}
  BY MemoryAssumption, Spans
<1>3. Quo(p, Span(3)) = 0 * Fanout + 0
  BY <1>1, Digit
<1>4. Quo(p, Span(2)) = 0 * Fanout + 0
  BY <1>1, <1>2, <1>3, Digit
<1>5. Quo(p, Span(2)) = 0
  BY <1>2, <1>4
<1>. DEFINE d == Span(2)
            r == Rem(p, d)
<1>6. r \in 0 .. d - 1 /\ p = Quo(p, d) * d + r
  BY <1>1, <1>2, Division
<1>7. Quo(p, d) = 0 /\ d \in Nat /\ p \in Nat /\ p >= d
  BY <1>1, <1>2, <1>5
<1>. HIDE DEF d, r
<1>. QED
  BY <1>6, <1>7

-----------------------------------------------------------------------------
(* The tree of page tables: T[level] is the set of tables of a level.      *)

MemType == [Frames -> [Slots -> Entry]]

Link(m, t, i) == m[t][i].present /\ ~m[t][i].huge

\* The entry of a page's path at a level, and the table it is in.
EntryOf(m, root, p, level) == PathTo(m, root, p)[level]
TableOf(m, root, p, level) == IF level = 3 THEN root ELSE EntryOf(m, root, p, level + 1).addr

\* The path leads down to a table of that level, or to the page itself.
Reaches(m, root, p, level) == \A l \in level + 1 .. 3 : EntryOf(m, root, p, l).present
Mapped(m, root, p) == Reaches(m, root, p, 0) /\ EntryOf(m, root, p, 0).present

LevelsApart(T, root) ==
  /\ T \in [0 .. 3 -> SUBSET Frames] /\ T[3] = {root}
  /\ \A k, l \in 0 .. 3 : k # l => T[k] \cap T[l] = {}

LinksLeadDown(m, T) ==
  \A l \in 1 .. 3 : \A t \in T[l], i \in Slots : Link(m, t, i) => m[t][i].addr \in T[l - 1]

AllHang(m, T) ==
  \A l \in 1 .. 3 : \A c \in T[l - 1] :
    \E t \in T[l], i \in Slots : Link(m, t, i) /\ m[t][i].addr = c

HangOnce(m, T) ==
  \A l \in 1 .. 3 : \A t, u \in T[l], i, j \in Slots :
    Link(m, t, i) /\ Link(m, u, j) /\ m[t][i].addr = m[u][j].addr => t = u /\ i = j

\* Huge pages are those of the identity window, below the first entry of each level.
IdentityTable(m, root, t) ==
  /\ Link(m, root, 0) /\ Link(m, m[root][0].addr, 0)
  /\ m[m[root][0].addr][0].addr = t
HugeIsIdentity(m, T, root) ==
  \A l \in 0 .. 3 : \A t \in T[l], i \in Slots :
    m[t][i].huge => l = 1 /\ IdentityTable(m, root, t)

Tree(m, root, T) ==
  /\ LevelsApart(T, root) /\ LinksLeadDown(m, T) /\ AllHang(m, T) /\ HangOnce(m, T)
  /\ HugeIsIdentity(m, T, root)

\* An entry of a PT is there for a page, and maps it as its owner asked for.
Leaves(m, root, T) ==
  \A t \in T[0], i \in Slots : m[t][i].present =>
    \E p \in Pages : /\ Mapped(m, root, p)
                     /\ TableOf(m, root, p, 0) = t /\ TableIndex(p, 0) = i
Owners(m, root, own) ==
  \A p \in Pages : Mapped(m, root, p) =>
    LET pte == EntryOf(m, root, p, 0)
    IN  /\ own[p] # None /\ pte.addr = own[p] /\ (pte.user <=> p \in UserPages)
        /\ p \in UserPages => \A l \in 1 .. 3 : EntryOf(m, root, p, l).user

WellKept(m, root, T, own) ==
  m \in MemType /\ Tree(m, root, T) /\ Leaves(m, root, T) /\ Owners(m, root, own)

LEMMA PathSteps ==
  ASSUME NEW m, NEW root, NEW p
  PROVE  /\ TableOf(m, root, p, 3) = root
         /\ \A l \in 0 .. 2 : TableOf(m, root, p, l) = EntryOf(m, root, p, l + 1).addr
         /\ \A l \in 0 .. 3 :
              EntryOf(m, root, p, l) = m[TableOf(m, root, p, l)][TableIndex(p, l)]
<1>. DEFINE E(l) == EntryOf(m, root, p, l)
            B(l) == TableOf(m, root, p, l)
            I(l) == TableIndex(p, l)
<1>1. B(3) = root /\ \A l \in 0 .. 2 : B(l) = E(l + 1).addr
  <2>1. \A l \in 0 .. 2 : l # 3
    OBVIOUS
  <2>. QED
    BY <2>1, Zenon DEF TableOf
<1>2. /\ E(3) = m[root][I(3)]
      /\ E(2) = m[m[root][I(3)].addr][I(2)]
      /\ E(1) = m[m[m[root][I(3)].addr][I(2)].addr][I(1)]
      /\ E(0) = m[m[m[m[root][I(3)].addr][I(2)].addr][I(1)].addr][I(0)]
  <2>. DEFINE pml4e == m[root][I(3)]
              pdpte == m[pml4e.addr][I(2)]
              pde   == m[pdpte.addr][I(1)]
              pte   == m[pde.addr][I(0)]
              path  == [l \in 0 .. 3 |-> CASE l = 3 -> pml4e [] l = 2 -> pdpte
                                           [] l = 1 -> pde [] l = 0 -> pte]
  <2>1. PathTo(m, root, p) = path
    BY Zenon DEF PathTo
  <2>. HIDE DEF pml4e, pdpte, pde, pte
  <2>2. path[3] = pml4e /\ path[2] = pdpte /\ path[1] = pde /\ path[0] = pte
    OBVIOUS
  <2>3. E(3) = pml4e /\ E(2) = pdpte /\ E(1) = pde /\ E(0) = pte
    BY <2>1, <2>2 DEF EntryOf
  <2>. QED
    BY <2>3, Zenon DEF pml4e, pdpte, pde, pte
<1>. HIDE DEF E, B, I
<1>3. B(2) = E(3).addr /\ B(1) = E(2).addr /\ B(0) = E(1).addr
  BY <1>1
<1>4. E(3) = m[B(3)][I(3)] /\ E(2) = m[B(2)][I(2)]
  BY <1>1, <1>2, <1>3, Zenon
<1>5. E(1) = m[B(1)][I(1)]
  BY <1>2, <1>3, <1>4, Zenon
<1>6. E(0) = m[B(0)][I(0)]
  BY <1>2, <1>3, <1>5, Zenon
<1>7. \A l \in 0 .. 3 : E(l) = m[B(l)][I(l)]
  BY <1>4, <1>5, <1>6
<1>. QED
  BY <1>1, <1>7 DEF E, B, I

LEMMA ReachesBelow ==
  ASSUME NEW m, NEW root, NEW p
  PROVE  /\ Reaches(m, root, p, 3)
         /\ \A l \in 0 .. 2 : Reaches(m, root, p, l) <=>
              Reaches(m, root, p, l + 1) /\ EntryOf(m, root, p, l + 1).present
<1>1. Reaches(m, root, p, 3)
  BY DEF Reaches
<1>2. ASSUME NEW l \in 0 .. 2
      PROVE  Reaches(m, root, p, l) <=>
               Reaches(m, root, p, l + 1) /\ EntryOf(m, root, p, l + 1).present
  <2>1. \A k \in l + 1 .. 3 : k = l + 1 \/ k \in (l + 1) + 1 .. 3
    OBVIOUS
  <2>2. l + 1 \in l + 1 .. 3 /\ \A k \in (l + 1) + 1 .. 3 : k \in l + 1 .. 3
    OBVIOUS
  <2>. QED
    BY <2>1, <2>2 DEF Reaches
<1>. QED
  BY <1>1, <1>2

\* A page's path stays in the tree and never ends in a huge page.
LEMMA OnTree ==
  ASSUME NEW m, NEW root, NEW T, Tree(m, root, T), NEW p \in Pages,
         NEW l \in 0 .. 3, Reaches(m, root, p, l)
  PROVE  /\ TableOf(m, root, p, l) \in T[l] /\ ~EntryOf(m, root, p, l).huge
         /\ l < 3 => Link(m, TableOf(m, root, p, l + 1), TableIndex(p, l + 1))
<1>. DEFINE E(k) == EntryOf(m, root, p, k)
            B(k) == TableOf(m, root, p, k)
            I(k) == TableIndex(p, k)
            R(k) == Reaches(m, root, p, k)
<1>1. /\ B(3) = root /\ \A k \in 0 .. 2 : B(k) = E(k + 1).addr
      /\ \A k \in 0 .. 3 : E(k) = m[B(k)][I(k)]
  BY PathSteps
<1>2. \A k \in 0 .. 3 : I(k) \in Slots
  BY PagesAreNumbers, Digit
<1>3. R(3) /\ \A k \in 0 .. 2 : R(k) <=> R(k + 1) /\ E(k + 1).present
  BY ReachesBelow
<1>4. T[3] = {root}
  BY DEF Tree, LevelsApart
<1>5. \A k \in 0 .. 3 : B(k) \in T[k] /\ E(k).huge => k = 1 /\ IdentityTable(m, root, B(k))
  BY <1>1, <1>2 DEF Tree, HugeIsIdentity
<1>6. \A k \in 0 .. 2 : B(k + 1) \in T[k + 1] /\ E(k + 1).present /\ ~E(k + 1).huge =>
                          B(k) \in T[k] /\ Link(m, B(k + 1), I(k + 1))
  <2>1. ASSUME NEW k \in 0 .. 2, B(k + 1) \in T[k + 1], E(k + 1).present, ~E(k + 1).huge
        PROVE  B(k) \in T[k] /\ Link(m, B(k + 1), I(k + 1))
    <3>1. k + 1 \in 1 .. 3 /\ (k + 1) - 1 = k /\ k + 1 \in 0 .. 3
      OBVIOUS
    <3>2. Link(m, B(k + 1), I(k + 1)) /\ m[B(k + 1)][I(k + 1)].addr = B(k)
      BY <1>1, <2>1, <3>1 DEF Link
    <3>. QED
      BY <1>2, <2>1, <3>1, <3>2 DEF Tree, LinksLeadDown
  <2>. QED
    BY <2>1
<1>. HIDE DEF E, B, I, R
<1>7. B(3) \in T[3] /\ ~E(3).huge
  BY <1>1, <1>4, <1>5
<1>8. R(2) => B(2) \in T[2] /\ ~E(2).huge /\ Link(m, B(3), I(3))
  BY <1>3, <1>5, <1>6, <1>7
<1>9. R(1) => B(1) \in T[1] /\ ~E(1).huge /\ Link(m, B(2), I(2))
  <2>. SUFFICES ASSUME R(1)
                PROVE  B(1) \in T[1] /\ ~E(1).huge /\ Link(m, B(2), I(2))
    OBVIOUS
  <2>1. R(2) /\ E(2).present
    BY <1>3
  <2>2. B(1) \in T[1] /\ Link(m, B(2), I(2))
    BY <1>6, <1>8, <2>1
  <2>3. ASSUME E(1).huge PROVE FALSE
    <3>. DEFINE d == m[root][0].addr
    <3>1. Link(m, root, 0) /\ Link(m, d, 0) /\ m[d][0].addr = B(1)
      BY <1>5, <2>2, <2>3 DEF IdentityTable
    <3>. HIDE DEF d
    <3>2. 0 \in Slots
      BY MemoryAssumption DEF Slots
    <3>3. d \in T[2]
      BY <1>4, <3>1, <3>2 DEF Tree, LinksLeadDown, d
    <3>4. m[B(2)][I(2)].addr = B(1) /\ m[B(3)][I(3)].addr = B(2) /\ B(3) = root
      BY <1>1
    <3>5. d = B(2) /\ I(2) = 0
      BY <1>2, <1>8, <2>1, <2>2, <3>1, <3>2, <3>3, <3>4 DEF Tree, HangOnce
    <3>6. m[root][0].addr = m[B(3)][I(3)].addr /\ Link(m, B(3), I(3)) /\ B(3) \in T[3]
      BY <1>7, <1>8, <2>1, <3>4, <3>5 DEF d
    <3>7. I(3) = 0
      BY <1>2, <1>4, <3>1, <3>2, <3>4, <3>6 DEF Tree, HangOnce
    <3>. QED
      BY <3>5, <3>7, OutsideIdentity DEF I
  <2>. QED
    BY <2>2, <2>3
<1>10. R(0) => B(0) \in T[0] /\ ~E(0).huge /\ Link(m, B(1), I(1))
  BY <1>3, <1>5, <1>6, <1>9
<1>11. l = 0 \/ l = 1 \/ l = 2 \/ l = 3
  OBVIOUS
<1>12. R(l)
  BY DEF R
<1>13. B(l) \in T[l] /\ ~E(l).huge /\ (l < 3 => Link(m, B(l + 1), I(l + 1)))
  BY <1>7, <1>8, <1>9, <1>10, <1>11, <1>12
<1>. QED
  BY <1>13 DEF B, E, I

AllUser(m, root, p) == \A l \in 0 .. 3 : EntryOf(m, root, p, l).user

\* A walk for a page finds it exactly if every entry of its path is present.
LEMMA WalkOfPage ==
  ASSUME NEW m, NEW root, NEW T, Tree(m, root, T), NEW p \in Pages
  PROVE  /\ Mapped(m, root, p) => Walk(m, root, p) =
              {[page |-> p, frame |-> EntryOf(m, root, p, 0).addr + (p % 1),
                user |-> AllUser(m, root, p)]}
         /\ ~Mapped(m, root, p) => Walk(m, root, p) = {}
<1>. DEFINE path == PathTo(m, root, p)
            leaf == Governing(path)
            E(k) == EntryOf(m, root, p, k)
            R(k) == Reaches(m, root, p, k)
<1>1. \A k : path[k] = E(k)
  BY DEF EntryOf
<1>2. R(3) /\ \A k \in 0 .. 2 : R(k) <=> R(k + 1) /\ E(k + 1).present
  BY ReachesBelow
<1>3. \A k \in 0 .. 3 : R(k) => ~E(k).huge
  BY OnTree
<1>4. leaf = IF E(2).huge THEN 2 ELSE IF E(1).huge THEN 1 ELSE 0
  BY <1>1 DEF Governing
<1>5. Walk(m, root, p) =
        IF \A k \in leaf .. 3 : path[k].present
        THEN {[page |-> p, frame |-> path[leaf].addr + (p % Span(leaf)),
               user |-> \A k \in leaf .. 3 : path[k].user]}
        ELSE {}
  BY DEF Walk
<1>. HIDE DEF path, leaf, E, R
<1>6. Mapped(m, root, p) <=> R(0) /\ E(0).present
  BY DEF Mapped, R, E
<1>7. ASSUME \A k \in leaf .. 3 : path[k].present
      PROVE  leaf = 0 /\ Mapped(m, root, p)
  <2>1. leaf \in {0, 1, 2}
    BY <1>4
  <2>2. E(3).present /\ E(2).present
    BY <1>1, <1>7, <2>1
  <2>3. R(2) /\ R(1)
    BY <1>2, <2>2
  <2>4. leaf = 0
    BY <1>3, <1>4, <2>3
  <2>5. E(1).present /\ E(0).present
    BY <1>1, <1>7, <2>4
  <2>6. R(0)
    BY <1>2, <2>3, <2>5
  <2>. QED
    BY <1>6, <2>4, <2>5, <2>6
<1>8. ASSUME Mapped(m, root, p)
      PROVE  leaf = 0 /\ \A k \in leaf .. 3 : path[k].present
  <2>1. R(0) /\ R(1) /\ R(2)
    BY <1>2, <1>6, <1>8
  <2>2. leaf = 0
    BY <1>3, <1>4, <2>1
  <2>3. E(3).present /\ E(2).present /\ E(1).present /\ E(0).present
    BY <1>2, <1>6, <1>8, <2>1
  <2>4. \A k \in 0 .. 3 : k = 0 \/ k = 1 \/ k = 2 \/ k = 3
    OBVIOUS
  <2>. QED
    BY <1>1, <2>2, <2>3, <2>4
<1>9. ASSUME Mapped(m, root, p)
      PROVE  Walk(m, root, p) = {[page |-> p, frame |-> E(0).addr + (p % 1),
                                  user |-> AllUser(m, root, p)]}
  <2>. DEFINE us == \A k \in 0 .. 3 : path[k].user
              vs == AllUser(m, root, p)
  <2>1. Walk(m, root, p) =
          {[page |-> p, frame |-> path[0].addr + (p % Span(0)), user |-> us]}
    BY <1>5, <1>8, <1>9, Zenon
  <2>2. us = vs
    BY <1>1 DEF AllUser, E
  <2>. HIDE DEF us, vs
  <2>3. Walk(m, root, p) = {[page |-> p, frame |-> E(0).addr + (p % 1), user |-> vs]}
    BY <1>1, <2>1, <2>2, Spans, Zenon
  <2>. QED
    BY <2>3, Zenon DEF vs
<1>10. ASSUME ~Mapped(m, root, p)
       PROVE  Walk(m, root, p) = {}
  BY <1>5, <1>7, <1>10, Zenon
<1>. QED
  BY <1>9, <1>10, Zenon DEF E

\* Two pages that share a table share the path to it.
LEMMA SharedPath ==
  ASSUME NEW m, NEW root, NEW T, Tree(m, root, T), NEW p \in Pages, NEW q \in Pages,
         NEW l \in 0 .. 2, Reaches(m, root, p, l), Reaches(m, root, q, l),
         TableOf(m, root, p, l) = TableOf(m, root, q, l)
  PROVE  /\ TableOf(m, root, p, l + 1) = TableOf(m, root, q, l + 1)
         /\ TableIndex(p, l + 1) = TableIndex(q, l + 1)
         /\ Reaches(m, root, p, l + 1) /\ Reaches(m, root, q, l + 1)
<1>. DEFINE t == TableOf(m, root, p, l + 1)
            u == TableOf(m, root, q, l + 1)
            i == TableIndex(p, l + 1)
            j == TableIndex(q, l + 1)
<1>1. Reaches(m, root, p, l + 1) /\ Reaches(m, root, q, l + 1) /\ l + 1 \in 1 .. 3
      /\ l + 1 \in 0 .. 3 /\ l < 3 /\ l \in 0 .. 3
  BY ReachesBelow
<1>2. t \in T[l + 1] /\ u \in T[l + 1] /\ Link(m, t, i) /\ Link(m, u, j)
  BY <1>1, OnTree
<1>3. i \in Slots /\ j \in Slots
  BY <1>1, PagesAreNumbers, Digit
<1>4. m[t][i].addr = m[u][j].addr
  <2>1. m[t][i] = EntryOf(m, root, p, l + 1) /\ m[u][j] = EntryOf(m, root, q, l + 1)
    BY <1>1, PathSteps
  <2>. QED
    BY <2>1, PathSteps
<1>. HIDE DEF t, u, i, j
<1>5. t = u /\ i = j
  BY <1>1, <1>2, <1>3, <1>4 DEF Tree, HangOnce
<1>. QED
  BY <1>1, <1>5 DEF t, u, i, j

LEMMA SameLeaf ==
  ASSUME NEW m, NEW root, NEW T, Tree(m, root, T), NEW p \in Pages, NEW q \in Pages,
         Reaches(m, root, p, 0), Reaches(m, root, q, 0),
         TableOf(m, root, p, 0) = TableOf(m, root, q, 0), TableIndex(p, 0) = TableIndex(q, 0)
  PROVE  p = q
<1>1. /\ TableOf(m, root, p, 1) = TableOf(m, root, q, 1)
      /\ TableIndex(p, 1) = TableIndex(q, 1)
      /\ Reaches(m, root, p, 1) /\ Reaches(m, root, q, 1)
  BY SharedPath
<1>2. /\ TableOf(m, root, p, 2) = TableOf(m, root, q, 2)
      /\ TableIndex(p, 2) = TableIndex(q, 2)
      /\ Reaches(m, root, p, 2) /\ Reaches(m, root, q, 2)
  BY <1>1, SharedPath
<1>3. TableIndex(p, 3) = TableIndex(q, 3)
  BY <1>2, SharedPath
<1>4. \A l \in 0 .. 3 : l = 0 \/ l = 1 \/ l = 2 \/ l = 3
  OBVIOUS
<1>. QED
  BY <1>1, <1>2, <1>3, <1>4, SamePage

\* A path depends on the entries it passes.
LEMMA SamePath ==
  ASSUME NEW m, NEW n, NEW root, NEW p, NEW l \in 0 .. 3,
         \A k \in l + 1 .. 3 : n[TableOf(m, root, p, k)][TableIndex(p, k)] =
                               m[TableOf(m, root, p, k)][TableIndex(p, k)]
  PROVE  /\ \A k \in l + 1 .. 3 : EntryOf(n, root, p, k) = EntryOf(m, root, p, k)
         /\ \A k \in l .. 3 : TableOf(n, root, p, k) = TableOf(m, root, p, k)
         /\ EntryOf(n, root, p, l) = n[TableOf(m, root, p, l)][TableIndex(p, l)]
         /\ Reaches(n, root, p, l) <=> Reaches(m, root, p, l)
<1>. DEFINE E(k) == EntryOf(m, root, p, k)
            B(k) == TableOf(m, root, p, k)
            F(k) == EntryOf(n, root, p, k)
            C(k) == TableOf(n, root, p, k)
            I(k) == TableIndex(p, k)
<1>1. /\ B(3) = root /\ \A k \in 0 .. 2 : B(k) = E(k + 1).addr
      /\ \A k \in 0 .. 3 : E(k) = m[B(k)][I(k)]
  BY PathSteps
<1>2. /\ C(3) = root /\ \A k \in 0 .. 2 : C(k) = F(k + 1).addr
      /\ \A k \in 0 .. 3 : F(k) = n[C(k)][I(k)]
  BY PathSteps
<1>3. \A k \in l + 1 .. 3 : n[B(k)][I(k)] = m[B(k)][I(k)]
  OBVIOUS
<1>. HIDE DEF E, B, F, C, I
<1>4. \A k \in 0 .. 3 : C(k) = B(k) /\ k > l => F(k) = E(k)
  BY <1>1, <1>2, <1>3
<1>5. \A k \in 0 .. 2 : F(k + 1) = E(k + 1) => C(k) = B(k)
  BY <1>1, <1>2
<1>6. C(3) = B(3)
  BY <1>1, <1>2
<1>7. l <= 2 => C(2) = B(2) /\ F(3) = E(3)
  BY <1>4, <1>5, <1>6
<1>8. l <= 1 => C(1) = B(1) /\ F(2) = E(2)
  BY <1>4, <1>5, <1>7
<1>9. l <= 0 => C(0) = B(0) /\ F(1) = E(1)
  BY <1>4, <1>5, <1>8
<1>10. \A k \in l .. 3 : C(k) = B(k)
  BY <1>6, <1>7, <1>8, <1>9
<1>11. \A k \in l + 1 .. 3 : F(k) = E(k)
  BY <1>4, <1>10
<1>12. F(l) = n[B(l)][I(l)]
  BY <1>2, <1>10
<1>13. (\A k \in l + 1 .. 3 : F(k).present) <=> (\A k \in l + 1 .. 3 : E(k).present)
  BY <1>11
<1>. QED
  BY <1>10, <1>11, <1>12, <1>13, Zenon DEF E, B, F, C, I, Reaches

LEMMA OneByte == \A x \in Nat : x % 1 = 0
OBVIOUS

Translation(p, frame) == [page |-> p, frame |-> frame, user |-> p \in UserPages]

LEMMA WalkExact ==
  ASSUME NEW m, NEW root, NEW T, NEW own \in [Pages -> Frames \cup {None}],
         WellKept(m, root, T, own), NEW p \in Pages
  PROVE  /\ Mapped(m, root, p) => Walk(m, root, p) = {Translation(p, own[p])}
                                  /\ own[p] \in Frames
         /\ ~Mapped(m, root, p) => Walk(m, root, p) = {}
<1>. DEFINE E(k) == EntryOf(m, root, p, k)
<1>1. Tree(m, root, T) /\ Owners(m, root, own)
  BY DEF WellKept
<1>2. /\ Mapped(m, root, p) => Walk(m, root, p) =
           {[page |-> p, frame |-> E(0).addr + (p % 1), user |-> AllUser(m, root, p)]}
      /\ ~Mapped(m, root, p) => Walk(m, root, p) = {}
  BY <1>1, WalkOfPage
<1>3. ASSUME Mapped(m, root, p)
      PROVE  Walk(m, root, p) = {Translation(p, own[p])} /\ own[p] \in Frames
  <2>1. /\ own[p] # None /\ E(0).addr = own[p] /\ (E(0).user <=> p \in UserPages)
        /\ p \in UserPages => \A l \in 1 .. 3 : E(l).user
    BY <1>1, <1>3 DEF Owners
  <2>. HIDE DEF E
  <2>2. own[p] \in Frames /\ own[p] \in Nat
    BY <2>1 DEF Frames
  <2>3. E(0).addr + (p % 1) = own[p]
    <3>1. p % 1 = 0
      BY PagesAreNumbers, OneByte
    <3>. QED
      BY <2>1, <2>2, <3>1
  <2>4. AllUser(m, root, p) = (p \in UserPages)
    <3>1. \A k \in 0 .. 3 : k = 0 \/ k \in 1 .. 3
      OBVIOUS
    <3>2. CASE p \in UserPages
      <4>1. \A l \in 0 .. 3 : E(l).user
        BY <2>1, <3>1, <3>2
      <4>. QED
        BY <3>2, <4>1 DEF AllUser, E
    <3>3. CASE p \notin UserPages
      <4>1. 0 \in 0 .. 3 /\ ~E(0).user
        BY <2>1, <3>3
      <4>2. ~AllUser(m, root, p)
        BY <4>1 DEF AllUser, E
      <4>3. AllUser(m, root, p) \in BOOLEAN
        BY Zenon DEF AllUser
      <4>. QED
        BY <3>3, <4>2, <4>3
    <3>. QED
      BY <3>2, <3>3
  <2>5. Walk(m, root, p) =
           {[page |-> p, frame |-> E(0).addr + (p % 1), user |-> AllUser(m, root, p)]}
    BY <1>2, <1>3
  <2>6. Walk(m, root, p) = {[page |-> p, frame |-> own[p], user |-> p \in UserPages]}
    BY <2>3, <2>4, <2>5
  <2>. QED
    BY <2>2, <2>6 DEF Translation
<1>. QED
  BY <1>2, <1>3

-----------------------------------------------------------------------------
(* What a write to a table does to the tree.                               *)

\* Above the PTs nothing but the access changed.
SameShape(m, n, T) ==
  /\ \A l \in 1 .. 3 : \A t \in T[l], i \in Slots :
       /\ n[t][i].present = m[t][i].present /\ n[t][i].huge = m[t][i].huge
       /\ n[t][i].addr = m[t][i].addr
  /\ \A t \in T[0], i \in Slots : ~n[t][i].huge

LEMMA ShapeKeepsTree ==
  ASSUME NEW m, NEW n, NEW root, NEW T, Tree(m, root, T), SameShape(m, n, T)
  PROVE  Tree(n, root, T)
<1>1. \A l \in 1 .. 3 : \A t \in T[l], i \in Slots :
        /\ Link(n, t, i) <=> Link(m, t, i)
        /\ n[t][i].addr = m[t][i].addr /\ n[t][i].huge = m[t][i].huge
  BY DEF SameShape, Link
<1>2. LevelsApart(T, root) /\ T[3] = {root} /\ LinksLeadDown(m, T) /\ AllHang(m, T)
      /\ HangOnce(m, T) /\ HugeIsIdentity(m, T, root)
  BY DEF Tree, LevelsApart
<1>3. LinksLeadDown(n, T)
  BY <1>1, <1>2 DEF LinksLeadDown
<1>4. AllHang(n, T)
  <2>1. SUFFICES ASSUME NEW l \in 1 .. 3, NEW c \in T[l - 1]
                 PROVE  \E t \in T[l], i \in Slots : Link(n, t, i) /\ n[t][i].addr = c
    BY DEF AllHang
  <2>2. PICK t \in T[l], i \in Slots : Link(m, t, i) /\ m[t][i].addr = c
    BY <1>2 DEF AllHang
  <2>. QED
    BY <1>1, <2>2
<1>5. HangOnce(n, T)
  BY <1>1, <1>2 DEF HangOnce
<1>6. HugeIsIdentity(n, T, root)
  <2>1. SUFFICES ASSUME NEW l \in 0 .. 3, NEW t \in T[l], NEW i \in Slots, n[t][i].huge
                 PROVE  l = 1 /\ IdentityTable(n, root, t)
    BY DEF HugeIsIdentity
  <2>2. l # 0
    BY <2>1 DEF SameShape
  <2>3. l = 1 /\ IdentityTable(m, root, t)
    BY <1>1, <1>2, <2>1, <2>2 DEF HugeIsIdentity
  <2>4. 0 \in Slots
    BY MemoryAssumption DEF Slots
  <2>. DEFINE d == m[root][0].addr
              e == n[root][0].addr
  <2>5. Link(m, root, 0) /\ Link(m, d, 0) /\ m[d][0].addr = t
    BY <2>3 DEF IdentityTable
  <2>6. e = d /\ Link(n, root, 0)
    BY <1>1, <1>2, <2>4, <2>5
  <2>. HIDE DEF d, e
  <2>7. d \in T[2]
    BY <1>2, <2>4, <2>5 DEF LinksLeadDown, d
  <2>8. Link(n, d, 0) /\ n[d][0].addr = t
    BY <1>1, <2>4, <2>5, <2>7
  <2>. QED
    BY <2>3, <2>6, <2>8 DEF IdentityTable, e
<1>. QED
  BY <1>2, <1>3, <1>4, <1>5, <1>6 DEF Tree

\* From m to n tables were linked and opened to users, and no PT was written.
Grows(m, n, T) ==
  /\ \A l \in 0 .. 3 : \A t \in T[l], i \in Slots : m[t][i].present =>
       /\ n[t][i].present /\ n[t][i].addr = m[t][i].addr
       /\ m[t][i].user => n[t][i].user
  /\ \A t \in T[0], i \in Slots : n[t][i] = m[t][i]

\* Where a page's path led it still leads, with at least the access it had.
LEMMA GrownPath ==
  ASSUME NEW m, NEW n, NEW root, NEW T, Tree(m, root, T), Grows(m, n, T),
         NEW p \in Pages, NEW l \in 0 .. 3, Reaches(m, root, p, l)
  PROVE  /\ Reaches(n, root, p, l)
         /\ TableOf(n, root, p, l) = TableOf(m, root, p, l)
         /\ \A k \in l + 1 .. 3 : EntryOf(m, root, p, k).user => EntryOf(n, root, p, k).user
<1>. DEFINE E(k) == EntryOf(m, root, p, k)
            B(k) == TableOf(m, root, p, k)
            R(k) == Reaches(m, root, p, k)
            F(k) == EntryOf(n, root, p, k)
            C(k) == TableOf(n, root, p, k)
            S(k) == Reaches(n, root, p, k)
            I(k) == TableIndex(p, k)
            U(k) == \A j \in k + 1 .. 3 : E(j).user => F(j).user
            G(k) == R(k) => S(k) /\ C(k) = B(k) /\ U(k)
<1>1. /\ B(3) = root /\ \A k \in 0 .. 2 : B(k) = E(k + 1).addr
      /\ \A k \in 0 .. 3 : E(k) = m[B(k)][I(k)]
  BY PathSteps
<1>2. /\ C(3) = root /\ \A k \in 0 .. 2 : C(k) = F(k + 1).addr
      /\ \A k \in 0 .. 3 : F(k) = n[C(k)][I(k)]
  BY PathSteps
<1>3. R(3) /\ \A k \in 0 .. 2 : R(k) <=> R(k + 1) /\ E(k + 1).present
  BY ReachesBelow
<1>4. S(3) /\ \A k \in 0 .. 2 : S(k) <=> S(k + 1) /\ F(k + 1).present
  BY ReachesBelow
<1>5. \A k \in 0 .. 3 : I(k) \in Slots /\ (R(k) => B(k) \in T[k])
  BY PagesAreNumbers, Digit, OnTree
<1>. HIDE DEF E, B, R, F, C, S, I
<1>6. \A k \in 0 .. 3 : R(k) /\ C(k) = B(k) /\ E(k).present =>
        F(k).present /\ F(k).addr = E(k).addr /\ (E(k).user => F(k).user)
  BY <1>1, <1>2, <1>5 DEF Grows
<1>7. G(3)
  BY <1>1, <1>2, <1>4
<1>8. ASSUME NEW k \in 0 .. 2, G(k + 1)
      PROVE  G(k)
  <2>. SUFFICES ASSUME R(k)
                PROVE  S(k) /\ C(k) = B(k) /\ U(k)
    OBVIOUS
  <2>1. R(k + 1) /\ E(k + 1).present /\ k + 1 \in 0 .. 3
    BY <1>3
  <2>2. S(k + 1) /\ C(k + 1) = B(k + 1) /\ U(k + 1)
    BY <1>8, <2>1
  <2>3. /\ F(k + 1).present /\ F(k + 1).addr = E(k + 1).addr
        /\ (E(k + 1).user => F(k + 1).user)
    BY <1>6, <2>1, <2>2
  <2>4. \A j \in k + 1 .. 3 : j = k + 1 \/ j \in (k + 1) + 1 .. 3
    OBVIOUS
  <2>. QED
    BY <1>1, <1>2, <1>4, <2>2, <2>3, <2>4
<1>. HIDE DEF G
<1>9. G(2) /\ G(1) /\ G(0)
  <2>1. G(2)
    BY <1>7, <1>8
  <2>2. G(1)
    BY <1>8, <2>1
  <2>. QED
    BY <1>8, <2>1, <2>2
<1>10. l = 0 \/ l = 1 \/ l = 2 \/ l = 3
  OBVIOUS
<1>11. G(l) /\ R(l)
  BY <1>7, <1>9, <1>10 DEF R
<1>. QED
  BY <1>11, Zenon DEF G, S, C, B, E, F

\* So the pages keep their mappings when tables are added that hold nothing yet.
LEMMA GrownPages ==
  ASSUME NEW m, NEW n, NEW root, NEW T, NEW S, NEW own,
         WellKept(m, root, T, own), Tree(n, root, S), Grows(m, n, T),
         T[0] \subseteq S[0],
         \A t \in S[0] \ T[0], i \in Slots : ~n[t][i].present
  PROVE  /\ Leaves(n, root, S) /\ Owners(n, root, own)
         /\ \A p \in Pages : Mapped(n, root, p) <=> Mapped(m, root, p)
<1>1. Tree(m, root, T) /\ Leaves(m, root, T) /\ Owners(m, root, own)
  BY DEF WellKept
<1>2. \A p \in Pages : /\ TableIndex(p, 0) \in Slots
                       /\ EntryOf(m, root, p, 0) = m[TableOf(m, root, p, 0)][TableIndex(p, 0)]
                       /\ EntryOf(n, root, p, 0) = n[TableOf(n, root, p, 0)][TableIndex(p, 0)]
  BY PagesAreNumbers, Digit, PathSteps
<1>3. \A t \in T[0], i \in Slots : n[t][i] = m[t][i]
  BY DEF Grows
<1>4. ASSUME NEW p \in Pages, Reaches(m, root, p, 0)
      PROVE  /\ Reaches(n, root, p, 0) /\ TableOf(n, root, p, 0) = TableOf(m, root, p, 0)
             /\ TableOf(m, root, p, 0) \in T[0]
             /\ EntryOf(n, root, p, 0) = EntryOf(m, root, p, 0)
             /\ \A k \in 1 .. 3 : EntryOf(m, root, p, k).user => EntryOf(n, root, p, k).user
  <2>1. /\ Reaches(n, root, p, 0) /\ TableOf(n, root, p, 0) = TableOf(m, root, p, 0)
        /\ \A k \in 0 + 1 .. 3 : EntryOf(m, root, p, k).user => EntryOf(n, root, p, k).user
    BY <1>1, <1>4, GrownPath
  <2>2. TableOf(m, root, p, 0) \in T[0]
    BY <1>1, <1>4, OnTree
  <2>. QED
    BY <1>2, <1>3, <2>1, <2>2
<1>5. ASSUME NEW t \in S[0], NEW i \in Slots, n[t][i].present
      PROVE  \E p \in Pages : /\ Mapped(m, root, p) /\ Mapped(n, root, p)
                              /\ TableOf(n, root, p, 0) = t /\ TableIndex(p, 0) = i
  <2>1. t \in T[0] /\ m[t][i].present
    BY <1>3, <1>5
  <2>2. PICK p \in Pages : /\ Mapped(m, root, p)
                           /\ TableOf(m, root, p, 0) = t /\ TableIndex(p, 0) = i
    BY <1>1, <2>1 DEF Leaves
  <2>. QED
    BY <1>4, <2>2 DEF Mapped
<1>6. Leaves(n, root, S)
  BY <1>5 DEF Leaves
<1>7. ASSUME NEW p \in Pages, Mapped(m, root, p)
      PROVE  Mapped(n, root, p)
  BY <1>4, <1>7 DEF Mapped
<1>8. ASSUME NEW p \in Pages, Mapped(n, root, p)
      PROVE  Mapped(m, root, p)
  <2>. DEFINE t == TableOf(n, root, p, 0)
              i == TableIndex(p, 0)
  <2>1. t \in S[0] /\ i \in Slots /\ n[t][i].present
    BY <1>2, <1>8, OnTree DEF Mapped
  <2>2. PICK q \in Pages : /\ Mapped(m, root, q) /\ Mapped(n, root, q)
                           /\ TableOf(n, root, q, 0) = t /\ TableIndex(q, 0) = i
    BY <1>5, <2>1
  <2>3. p = q
    BY <1>8, <2>2, SameLeaf DEF Mapped
  <2>. QED
    BY <2>2, <2>3
<1>9. Owners(n, root, own)
  <2>1. SUFFICES ASSUME NEW p \in Pages, Mapped(n, root, p)
                 PROVE  LET pte == EntryOf(n, root, p, 0)
                        IN  /\ own[p] # None /\ pte.addr = own[p]
                            /\ (pte.user <=> p \in UserPages)
                            /\ p \in UserPages =>
                                 \A l \in 1 .. 3 : EntryOf(n, root, p, l).user
    BY DEF Owners
  <2>2. Mapped(m, root, p) /\ Reaches(m, root, p, 0)
    BY <1>8, <2>1 DEF Mapped
  <2>. QED
    BY <1>1, <1>4, <2>2 DEF Owners
<1>. QED
  BY <1>6, <1>7, <1>8, <1>9

\* From m to n the empty table c was linked to an entry that was not in use.
LinkedNew(m, n, T, t, i, c) ==
  /\ \A k \in 0 .. 3 : c \notin T[k]
  /\ ~m[t][i].present /\ n[t][i].present /\ ~n[t][i].huge /\ n[t][i].addr = c
  /\ \A j \in Slots : n[c][j] = Absent
  /\ \A k \in 0 .. 3 : \A u \in T[k], j \in Slots : u # t \/ j # i => n[u][j] = m[u][j]

\* S is T with one more table of the level below l.
WithTable(T, S, l, c) ==
  /\ S \in [0 .. 3 -> SUBSET Frames]
  /\ \A k \in 0 .. 3 : S[k] = IF k = l - 1 THEN T[k] \cup {c} ELSE T[k]

LEMMA NewTable ==
  ASSUME NEW m, NEW n, NEW root, NEW T, NEW S, Tree(m, root, T),
         NEW l \in 1 .. 3, NEW t \in T[l], NEW i \in Slots, NEW c \in Frames,
         LinkedNew(m, n, T, t, i, c), WithTable(T, S, l, c)
  PROVE  Tree(n, root, S) /\ Grows(m, n, T)
<1>. USE DEF LinkedNew, WithTable
<1>1. /\ LevelsApart(T, root) /\ LinksLeadDown(m, T) /\ AllHang(m, T)
      /\ HangOnce(m, T) /\ HugeIsIdentity(m, T, root)
  BY DEF Tree
<1>2. /\ T[3] = {root} /\ \A k, j \in 0 .. 3 : k # j => T[k] \cap T[j] = {}
  BY <1>1 DEF LevelsApart
<1>3. ~Absent.present /\ ~Absent.huge
  BY DEF Absent
<1>4. \A k \in 0 .. 3 : \A u \in T[k], j \in Slots : m[u][j].present => n[u][j] = m[u][j]
  OBVIOUS
\* The entries in use are the old ones and the new link.
<1>5. ASSUME NEW k \in 0 .. 3, NEW u \in S[k], NEW j \in Slots, n[u][j].present \/ n[u][j].huge
      PROVE  \/ u \in T[k] /\ n[u][j] = m[u][j]
             \/ k = l /\ u = t /\ j = i
  <2>1. u # c
    BY <1>3, <1>5
  <2>2. u \in T[k]
    BY <2>1
  <2>3. u = t => k = l
    BY <1>2, <2>2
  <2>. QED
    BY <2>2, <2>3
<1>6. Link(n, t, i)
  BY DEF Link
<1>7. \A k \in 0 .. 3 : \A u \in T[k], j \in Slots : Link(m, u, j) =>
        Link(n, u, j) /\ n[u][j].addr = m[u][j].addr
  BY <1>4 DEF Link
<1>8. ASSUME NEW k \in 1 .. 3, NEW u \in S[k], NEW j \in Slots, Link(n, u, j)
      PROVE  \/ /\ u \in T[k] /\ Link(m, u, j) /\ n[u][j].addr = m[u][j].addr
                /\ n[u][j].addr \in T[k - 1] /\ n[u][j].addr # c
             \/ k = l /\ u = t /\ j = i /\ n[u][j].addr = c
  <2>1. \/ u \in T[k] /\ n[u][j] = m[u][j]
        \/ k = l /\ u = t /\ j = i
    BY <1>5, <1>8 DEF Link
  <2>2. CASE u \in T[k] /\ n[u][j] = m[u][j]
    <3>1. Link(m, u, j)
      BY <1>8, <2>2 DEF Link
    <3>2. m[u][j].addr \in T[k - 1] /\ k - 1 \in 0 .. 3
      BY <1>1, <2>2, <3>1 DEF LinksLeadDown
    <3>. QED
      BY <2>2, <3>1, <3>2
  <2>. QED
    BY <2>1, <2>2
<1>9. LevelsApart(S, root)
  <2>1. S[3] = T[3]
    OBVIOUS
  <2>2. \A k, j \in 0 .. 3 : k # j => S[k] \cap S[j] = {}
    BY <1>2
  <2>. QED
    BY <1>2, <2>1, <2>2 DEF LevelsApart
<1>10. LinksLeadDown(n, S)
  <2>1. SUFFICES ASSUME NEW k \in 1 .. 3, NEW u \in S[k], NEW j \in Slots, Link(n, u, j)
                 PROVE  n[u][j].addr \in S[k - 1]
    BY DEF LinksLeadDown
  <2>2. k - 1 \in 0 .. 3 /\ T[k - 1] \subseteq S[k - 1] /\ (k = l => c \in S[k - 1])
    OBVIOUS
  <2>. QED
    BY <1>8, <2>1, <2>2
<1>11. AllHang(n, S)
  <2>1. SUFFICES ASSUME NEW k \in 1 .. 3, NEW d \in S[k - 1]
                 PROVE  \E u \in S[k], j \in Slots : Link(n, u, j) /\ n[u][j].addr = d
    BY DEF AllHang
  <2>2. k - 1 \in 0 .. 3 /\ T[k] \subseteq S[k] /\ k \in 0 .. 3
    OBVIOUS
  <2>3. CASE d \in T[k - 1]
    <3>1. PICK u \in T[k], j \in Slots : Link(m, u, j) /\ m[u][j].addr = d
      BY <1>1, <2>3 DEF AllHang
    <3>. QED
      BY <1>7, <2>2, <3>1
  <2>4. CASE d = c /\ k = l
    BY <1>6, <2>2, <2>4
  <2>. QED
    BY <2>2, <2>3, <2>4
<1>12. ASSUME NEW k \in 1 .. 3, NEW u \in S[k], NEW j \in Slots, Link(n, u, j), n[u][j].addr # c
       PROVE  u \in T[k] /\ Link(m, u, j) /\ n[u][j].addr = m[u][j].addr
  BY <1>8, <1>12
<1>13. HangOnce(n, S)
  <2>1. SUFFICES ASSUME NEW k \in 1 .. 3, NEW u \in S[k], NEW v \in S[k],
                        NEW j \in Slots, NEW h \in Slots,
                        Link(n, u, j), Link(n, v, h), n[u][j].addr = n[v][h].addr
                 PROVE  u = v /\ j = h
    BY DEF HangOnce
  <2>2. CASE n[u][j].addr = c
    <3>1. u = t /\ j = i
      BY <1>8, <2>1, <2>2
    <3>2. n[v][h].addr = c
      BY <2>1, <2>2
    <3>3. v = t /\ h = i
      BY <1>8, <2>1, <3>2
    <3>. QED
      BY <3>1, <3>3
  <2>3. CASE n[u][j].addr # c
    <3>1. u \in T[k] /\ Link(m, u, j) /\ n[u][j].addr = m[u][j].addr
      BY <1>12, <2>1, <2>3
    <3>2. n[v][h].addr # c
      BY <2>1, <2>3
    <3>3. v \in T[k] /\ Link(m, v, h) /\ n[v][h].addr = m[v][h].addr
      BY <1>12, <2>1, <3>2
    <3>4. m[u][j].addr = m[v][h].addr
      BY <2>1, <3>1, <3>3
    <3>5. HangOnce(m, T)
      BY <1>1
    <3>. QED
      BY <2>1, <3>1, <3>3, <3>4, <3>5 DEF HangOnce
  <2>. QED
    BY <2>2, <2>3
<1>14. HugeIsIdentity(n, S, root)
  <2>1. SUFFICES ASSUME NEW k \in 0 .. 3, NEW u \in S[k], NEW j \in Slots, n[u][j].huge
                 PROVE  k = 1 /\ IdentityTable(n, root, u)
    BY DEF HugeIsIdentity
  <2>2. u \in T[k] /\ m[u][j].huge
    BY <1>5, <2>1
  <2>3. k = 1 /\ IdentityTable(m, root, u)
    BY <1>1, <2>2 DEF HugeIsIdentity
  <2>4. 0 \in Slots
    BY MemoryAssumption DEF Slots
  <2>. DEFINE d == m[root][0].addr
  <2>5. Link(m, root, 0) /\ Link(m, d, 0) /\ m[d][0].addr = u
    BY <2>3 DEF IdentityTable
  <2>6. n[root][0].addr = d /\ Link(n, root, 0)
    BY <1>2, <1>7, <2>4, <2>5
  <2>7. d \in T[2]
    BY <1>1, <1>2, <2>4, <2>5 DEF LinksLeadDown
  <2>. HIDE DEF d
  <2>8. Link(n, d, 0) /\ n[d][0].addr = u
    BY <1>7, <2>4, <2>5, <2>7
  <2>. QED
    BY <2>3, <2>6, <2>8 DEF IdentityTable
<1>15. Grows(m, n, T)
  <2>1. \A u \in T[0], j \in Slots : n[u][j] = m[u][j]
    BY <1>2
  <2>. QED
    BY <1>4, <2>1 DEF Grows
<1>. QED
  BY <1>9, <1>10, <1>11, <1>13, <1>14, <1>15 DEF Tree

\* The two memories differ in one entry.
Elsewhere(m, n, t, i) == \A u \in Frames, j \in Slots : u # t \/ j # i => n[u][j] = m[u][j]

\* The tree stands, and no path but the page's has changed.
LeafOnly(m, n, root, T, p) ==
  /\ Tree(n, root, T)
  /\ \A q \in Pages, l \in 1 .. 3 : Reaches(m, root, q, l - 1) =>
       EntryOf(n, root, q, l) = EntryOf(m, root, q, l)
  /\ \A q \in Pages : /\ Reaches(n, root, q, 0) <=> Reaches(m, root, q, 0)
                      /\ Reaches(m, root, q, 0) =>
                           TableOf(n, root, q, 0) = TableOf(m, root, q, 0)
  /\ \A q \in Pages \ {p} : Reaches(m, root, q, 0) =>
       EntryOf(n, root, q, 0) = EntryOf(m, root, q, 0)
  /\ EntryOf(n, root, p, 0) = n[TableOf(m, root, p, 0)][TableIndex(p, 0)]

\* A write to the entry of a PT that a page's path ends in: nobody else's changes.
LEMMA LeafWrite ==
  ASSUME NEW m, NEW n, NEW root, NEW T, Tree(m, root, T),
         NEW p \in Pages, Reaches(m, root, p, 0),
         Elsewhere(m, n, TableOf(m, root, p, 0), TableIndex(p, 0)),
         ~n[TableOf(m, root, p, 0)][TableIndex(p, 0)].huge
  PROVE  LeafOnly(m, n, root, T, p)
<1>. DEFINE t == TableOf(m, root, p, 0)
            i == TableIndex(p, 0)
<1>0. \A u \in Frames, j \in Slots : u # t \/ j # i => n[u][j] = m[u][j]
  BY DEF Elsewhere
<1>1. /\ T \in [0 .. 3 -> SUBSET Frames]
      /\ \A k, j \in 0 .. 3 : k # j => T[k] \cap T[j] = {}
  BY DEF Tree, LevelsApart
<1>2. t \in T[0] /\ i \in Slots
  BY OnTree, PagesAreNumbers, Digit
<1>3. \A k \in 1 .. 3 : \A u \in T[k], j \in Slots : n[u][j] = m[u][j]
  <2>1. SUFFICES ASSUME NEW k \in 1 .. 3, NEW u \in T[k], NEW j \in Slots
                 PROVE  n[u][j] = m[u][j]
    OBVIOUS
  <2>2. u # t /\ u \in Frames
    BY <1>1, <1>2
  <2>. QED
    BY <1>0, <2>2
<1>4. \A u \in T[0], j \in Slots : ~n[u][j].huge
  <2>1. SUFFICES ASSUME NEW u \in T[0], NEW j \in Slots
                 PROVE  ~n[u][j].huge
    OBVIOUS
  <2>2. u \in Frames
    BY <1>1
  <2>3. ~m[u][j].huge
    BY DEF Tree, HugeIsIdentity
  <2>. QED
    BY <1>0, <1>2, <2>2, <2>3
<1>. HIDE DEF t, i
<1>5. Tree(n, root, T)
  BY <1>3, <1>4, ShapeKeepsTree DEF SameShape
<1>6. ASSUME NEW q \in Pages
      PROVE  /\ \A k \in 1 .. 3 : Reaches(m, root, q, k - 1) =>
                  EntryOf(n, root, q, k) = EntryOf(m, root, q, k)
             /\ Reaches(n, root, q, 0) <=> Reaches(m, root, q, 0)
             /\ Reaches(m, root, q, 0) => TableOf(n, root, q, 0) = TableOf(m, root, q, 0)
             /\ EntryOf(n, root, q, 0) = n[TableOf(n, root, q, 0)][TableIndex(q, 0)]
  PROOF
  <2>. DEFINE E(k) == EntryOf(m, root, q, k)
              B(k) == TableOf(m, root, q, k)
              R(k) == Reaches(m, root, q, k)
              F(k) == EntryOf(n, root, q, k)
              C(k) == TableOf(n, root, q, k)
              S(k) == Reaches(n, root, q, k)
              I(k) == TableIndex(q, k)
  <2>1. /\ B(3) = root /\ \A k \in 0 .. 2 : B(k) = E(k + 1).addr
        /\ \A k \in 0 .. 3 : E(k) = m[B(k)][I(k)]
    BY PathSteps
  <2>2. /\ C(3) = root /\ \A k \in 0 .. 2 : C(k) = F(k + 1).addr
        /\ \A k \in 0 .. 3 : F(k) = n[C(k)][I(k)]
    BY PathSteps
  <2>3. R(3) /\ \A k \in 0 .. 2 : R(k) <=> R(k + 1) /\ E(k + 1).present
    BY ReachesBelow
  <2>4. S(3) /\ \A k \in 0 .. 2 : S(k) <=> S(k + 1) /\ F(k + 1).present
    BY ReachesBelow
  <2>5. \A k \in 0 .. 3 : I(k) \in Slots /\ (R(k) => B(k) \in T[k])
    BY PagesAreNumbers, Digit, OnTree
  <2>. HIDE DEF E, B, R, F, C, S, I
  <2>6. \A k \in 1 .. 3 : R(k) /\ C(k) = B(k) => F(k) = E(k)
    BY <1>3, <2>1, <2>2, <2>5
  <2>. DEFINE G(k) == (S(k) <=> R(k)) /\ (R(k) => C(k) = B(k))
  <2>7. G(3)
    BY <2>1, <2>2, <2>3, <2>4
  <2>8. ASSUME NEW k \in 0 .. 2, G(k + 1)
        PROVE  G(k)
    <3>1. k + 1 \in 1 .. 3
      OBVIOUS
    <3>2. R(k + 1) => F(k + 1) = E(k + 1)
      BY <2>6, <2>8, <3>1
    <3>. QED
      BY <2>1, <2>2, <2>3, <2>4, <2>8, <3>2
  <2>. HIDE DEF G
  <2>9. G(2)
    BY <2>7, <2>8
  <2>10. G(1)
    BY <2>8, <2>9
  <2>11. G(0)
    BY <2>8, <2>10
  <2>12. \A k \in 1 .. 3 : R(k - 1) => F(k) = E(k)
    <3>1. SUFFICES ASSUME NEW k \in 1 .. 3, R(k - 1)
                   PROVE  F(k) = E(k)
      OBVIOUS
    <3>2. k - 1 \in 0 .. 2 /\ (k - 1) + 1 = k
      OBVIOUS
    <3>3. R(k)
      BY <2>3, <3>1, <3>2
    <3>4. k = 1 \/ k = 2 \/ k = 3
      OBVIOUS
    <3>. QED
      BY <2>6, <2>7, <2>9, <2>10, <3>3, <3>4 DEF G
  <2>13. F(0) = n[C(0)][I(0)]
    BY <2>2
  <2>. QED
    BY <2>11, <2>12, <2>13, Zenon DEF G, E, B, R, F, C, S, I
<1>7. ASSUME NEW q \in Pages \ {p}, Reaches(m, root, q, 0)
      PROVE  EntryOf(n, root, q, 0) = EntryOf(m, root, q, 0)
  <2>. DEFINE u == TableOf(m, root, q, 0)
              j == TableIndex(q, 0)
  <2>1. u \in T[0] /\ j \in Slots
    BY <1>7, OnTree, PagesAreNumbers, Digit
  <2>2. u # t \/ j # i
    BY <1>7, SameLeaf DEF t, i
  <2>3. n[u][j] = m[u][j]
    BY <1>0, <1>1, <2>1, <2>2
  <2>4. EntryOf(m, root, q, 0) = m[u][j]
    BY PathSteps
  <2>. QED
    BY <1>6, <1>7, <2>3, <2>4
<1>. QED
  BY <1>5, <1>6, <1>7, Zenon DEF LeafOnly, t, i


\* A memory that agrees on the tables of the tree holds the same tree and the same pages.
LEMMA SameTables ==
  ASSUME NEW m, NEW n \in MemType, NEW root, NEW T, NEW own, WellKept(m, root, T, own),
         \A l \in 0 .. 3 : \A t \in T[l] : n[t] = m[t]
  PROVE  /\ WellKept(n, root, T, own)
         /\ \A p \in Pages : Mapped(n, root, p) <=> Mapped(m, root, p)
<1>1. Tree(m, root, T)
  BY DEF WellKept
<1>2. SameShape(m, n, T)
  BY <1>1 DEF SameShape, Tree, HugeIsIdentity
<1>3. Grows(m, n, T)
  BY DEF Grows
<1>4. Tree(n, root, T)
  BY <1>1, <1>2, ShapeKeepsTree
<1>. QED
  BY <1>3, <1>4, GrownPages DEF WellKept

\* Frames may change hands as long as no mapped page's does.
LEMMA SameOwners ==
  ASSUME NEW m, NEW root, NEW T, NEW own, NEW new, WellKept(m, root, T, own),
         \A p \in Pages : Mapped(m, root, p) => new[p] = own[p]
  PROVE  WellKept(m, root, T, new)
BY DEF WellKept, Owners

\* map_inner opens a table to a user mapping.
LEMMA OpenEntry ==
  ASSUME NEW m, NEW n \in MemType, NEW root, NEW T, NEW own, WellKept(m, root, T, own),
         NEW l \in 1 .. 3, NEW t \in T[l], NEW i \in Slots, m[t][i].present,
         Elsewhere(m, n, t, i),
         n[t][i].present, n[t][i].huge = m[t][i].huge, n[t][i].addr = m[t][i].addr,
         m[t][i].user => n[t][i].user
  PROVE  /\ WellKept(n, root, T, own) /\ Grows(m, n, T)
         /\ \A p \in Pages : Mapped(n, root, p) <=> Mapped(m, root, p)
<1>1. Tree(m, root, T) /\ m \in MemType
  BY DEF WellKept
<1>2. /\ T \in [0 .. 3 -> SUBSET Frames] /\ T[l] \cap T[0] = {}
      /\ \A k \in 0 .. 3 : \A u \in T[k], j \in Slots : m[u][j].huge => k = 1
  BY <1>1 DEF Tree, LevelsApart, HugeIsIdentity
<1>3. \A k \in 0 .. 3 : \A u \in T[k], j \in Slots : u \in Frames /\ m[u][j].present \in BOOLEAN
                                                      /\ n[u][j].present \in BOOLEAN
  BY <1>1, <1>2 DEF MemType, Entry
<1>4. \A u \in T[0], j \in Slots : n[u][j] = m[u][j] /\ ~n[u][j].huge
  BY <1>2, <1>3 DEF Elsewhere
<1>5. SameShape(m, n, T)
  <2>1. ASSUME NEW k \in 1 .. 3, NEW u \in T[k], NEW j \in Slots
        PROVE  /\ n[u][j].present = m[u][j].present /\ n[u][j].huge = m[u][j].huge
               /\ n[u][j].addr = m[u][j].addr
    <3>1. u \in Frames /\ n[t][i].present = m[t][i].present
      BY <1>3
    <3>2. CASE u = t /\ j = i
      BY <3>1, <3>2
    <3>3. CASE u # t \/ j # i
      BY <3>1, <3>3 DEF Elsewhere
    <3>. QED
      BY <3>2, <3>3
  <2>. QED
    BY <1>4, <2>1 DEF SameShape
<1>6. Grows(m, n, T)
  <2>1. ASSUME NEW k \in 0 .. 3, NEW u \in T[k], NEW j \in Slots, m[u][j].present
        PROVE  /\ n[u][j].present /\ n[u][j].addr = m[u][j].addr
               /\ m[u][j].user => n[u][j].user
    <3>1. u \in Frames
      BY <1>3
    <3>2. CASE u = t /\ j = i
      BY <3>2
    <3>3. CASE u # t \/ j # i
      BY <2>1, <3>1, <3>3 DEF Elsewhere
    <3>. QED
      BY <3>2, <3>3
  <2>. QED
    BY <1>4, <2>1 DEF Grows
<1>7. Tree(n, root, T)
  BY <1>1, <1>5, ShapeKeepsTree
<1>. QED
  BY <1>6, <1>7, GrownPages DEF WellKept

\* A PT entry is set for its page as its owner asked for, or cleared.
LEMMA LeafPages ==
  ASSUME NEW m, NEW n \in MemType, NEW root, NEW T, NEW own, WellKept(m, root, T, own),
         NEW p \in Pages, Reaches(m, root, p, 0), NEW e,
         n[TableOf(m, root, p, 0)][TableIndex(p, 0)] = e, ~e.huge,
         Elsewhere(m, n, TableOf(m, root, p, 0), TableIndex(p, 0)),
         e.present => /\ own[p] # None /\ e.addr = own[p] /\ (e.user <=> p \in UserPages)
                      /\ p \in UserPages => \A l \in 1 .. 3 : EntryOf(m, root, p, l).user
  PROVE  /\ WellKept(n, root, T, own)
         /\ Mapped(n, root, p) <=> e.present
         /\ \A q \in Pages \ {p} : Mapped(n, root, q) <=> Mapped(m, root, q)
<1>1. Tree(m, root, T) /\ Leaves(m, root, T) /\ Owners(m, root, own)
  BY DEF WellKept
<1>2. /\ Tree(n, root, T)
      /\ \A q \in Pages, l \in 1 .. 3 : Reaches(m, root, q, l - 1) =>
           EntryOf(n, root, q, l) = EntryOf(m, root, q, l)
      /\ \A q \in Pages : /\ Reaches(n, root, q, 0) <=> Reaches(m, root, q, 0)
                          /\ Reaches(m, root, q, 0) =>
                               TableOf(n, root, q, 0) = TableOf(m, root, q, 0)
      /\ \A q \in Pages \ {p} : Reaches(m, root, q, 0) =>
           EntryOf(n, root, q, 0) = EntryOf(m, root, q, 0)
      /\ EntryOf(n, root, p, 0) = e
  <2>1. ~n[TableOf(m, root, p, 0)][TableIndex(p, 0)].huge
    OBVIOUS
  <2>2. LeafOnly(m, n, root, T, p)
    BY <1>1, <2>1, LeafWrite, Zenon
  <2>. QED
    BY <2>2 DEF LeafOnly
<1>3. Mapped(n, root, p) <=> e.present
  BY <1>2 DEF Mapped
<1>4. \A q \in Pages \ {p} : Mapped(n, root, q) <=> Mapped(m, root, q)
  BY <1>2 DEF Mapped
<1>5. \A q \in Pages, l \in 1 .. 3 : Reaches(m, root, q, 0) =>
        EntryOf(n, root, q, l) = EntryOf(m, root, q, l)
  <2>1. SUFFICES ASSUME NEW q \in Pages, NEW l \in 1 .. 3, Reaches(m, root, q, 0)
                 PROVE  EntryOf(n, root, q, l) = EntryOf(m, root, q, l)
    OBVIOUS
  <2>2. \A k \in (l - 1) + 1 .. 3 : k \in 0 + 1 .. 3
    OBVIOUS
  <2>3. Reaches(m, root, q, l - 1)
    BY <2>1, <2>2 DEF Reaches
  <2>. QED
    BY <1>2, <2>3
<1>6. Leaves(n, root, T)
  <2>1. SUFFICES ASSUME NEW t \in T[0], NEW i \in Slots, n[t][i].present
                 PROVE  \E q \in Pages : /\ Mapped(n, root, q)
                                         /\ TableOf(n, root, q, 0) = t /\ TableIndex(q, 0) = i
    BY DEF Leaves
  <2>2. CASE t = TableOf(m, root, p, 0) /\ i = TableIndex(p, 0)
    BY <1>2, <1>3, <2>1, <2>2
  <2>3. CASE t # TableOf(m, root, p, 0) \/ i # TableIndex(p, 0)
    <3>1. t \in Frames
      BY <1>1 DEF Tree, LevelsApart
    <3>2. m[t][i].present
      BY <2>1, <2>3, <3>1 DEF Elsewhere
    <3>3. PICK q \in Pages : /\ Mapped(m, root, q)
                             /\ TableOf(m, root, q, 0) = t /\ TableIndex(q, 0) = i
      BY <1>1, <3>2 DEF Leaves
    <3>4. q # p /\ Reaches(m, root, q, 0)
      BY <2>3, <3>3 DEF Mapped
    <3>. QED
      BY <1>2, <1>4, <3>3, <3>4
  <2>. QED
    BY <2>2, <2>3
<1>7. Owners(n, root, own)
  <2>1. SUFFICES ASSUME NEW q \in Pages, Mapped(n, root, q)
                 PROVE  /\ own[q] # None /\ EntryOf(n, root, q, 0).addr = own[q]
                        /\ (EntryOf(n, root, q, 0).user <=> q \in UserPages)
                        /\ q \in UserPages => \A l \in 1 .. 3 : EntryOf(n, root, q, l).user
    BY DEF Owners
  <2>2. CASE q = p
    BY <1>2, <1>3, <1>5, <2>1, <2>2
  <2>3. CASE q # p
    <3>1. Mapped(m, root, q) /\ Reaches(m, root, q, 0)
      BY <1>4, <2>1, <2>3 DEF Mapped
    <3>2. EntryOf(n, root, q, 0) = EntryOf(m, root, q, 0)
      BY <1>2, <2>3, <3>1
    <3>. QED
      BY <1>1, <1>5, <3>1, <3>2 DEF Owners
  <2>. QED
    BY <2>2, <2>3
<1>. QED
  BY <1>2, <1>3, <1>4, <1>6, <1>7 DEF WellKept

-----------------------------------------------------------------------------
(* map_inner: a walk under way.                                            *)

IsWalk(w) == DOMAIN w = {"mem", "free", "table", "result"}

\* The fields of a walk.
Fields(w, m, pool, table, result) ==
  /\ IsWalk(w) /\ w.mem = m /\ w.free = pool /\ w.table = table
  /\ w.result = result

\* A write to one entry.
Put(m, t, i, e) == [m EXCEPT ![t][i] = e]

LEMMA PutWrites ==
  ASSUME NEW m \in MemType, NEW t \in Frames, NEW i \in Slots, NEW e \in Entry
  PROVE  Put(m, t, i, e) \in MemType /\ Put(m, t, i, e)[t][i] = e
         /\ Elsewhere(m, Put(m, t, i, e), t, i)
BY DEF Put, MemType, Elsewhere

LEMMA ClearWrites ==
  ASSUME NEW m \in MemType, NEW c \in Frames
  PROVE  /\ [m EXCEPT ![c] = Zeroed] \in MemType /\ [m EXCEPT ![c] = Zeroed][c] = Zeroed
         /\ \A t \in Frames \ {c} : [m EXCEPT ![c] = Zeroed][t] = m[t]
<1>1. Zeroed \in [Slots -> Entry]
  BY DEF Zeroed, Absent, Entry
<1>. HIDE DEF Zeroed
<1>. QED
  BY <1>1 DEF MemType

LEMMA TableMade ==
  ASSUME NEW w, IsWalk(w), NEW c, NEW z
  PROVE  LET v == [w EXCEPT !.table = c, !.free = @ \ {c}, !.mem[c] = z]
         IN  Fields(v, [w.mem EXCEPT ![c] = z], w.free \ {c}, c, w.result) /\ v.table = c
<1>. DEFINE u == [w EXCEPT !.table = c, !.free = @ \ {c}]
            v == [u EXCEPT !.mem[c] = z]
<1>1. /\ DOMAIN u = DOMAIN w /\ u.mem = w.mem /\ u.free = w.free \ {c}
      /\ u.table = c /\ u.result = w.result
  BY DEF IsWalk
<1>. HIDE DEF u
<1>2. /\ DOMAIN v = DOMAIN w /\ v.mem = [w.mem EXCEPT ![c] = z]
      /\ v.free = w.free \ {c} /\ v.table = c /\ v.result = w.result
  BY <1>1 DEF IsWalk
<1>. HIDE DEF v
<1>3. Fields(v, [w.mem EXCEPT ![c] = z], w.free \ {c}, c, w.result) /\ v.table = c
  BY <1>2 DEF Fields, IsWalk
<1>. QED
  BY <1>3 DEF u, v

LEMMA AllocTableIs ==
  ASSUME NEW w, IsWalk(w)
  PROVE  /\ Fields(AllocTable(w), [w.mem EXCEPT ![Min(w.free)] = Zeroed],
                   w.free \ {Min(w.free)}, Min(w.free), w.result)
         /\ AllocTable(w).table = Min(w.free)
BY TableMade, Zenon DEF AllocTable

LEMMA Written ==
  ASSUME NEW v, NEW m, NEW pool, NEW table, NEW result, Fields(v, m, pool, table, result),
         NEW t, NEW i, NEW e
  PROVE  Fields([v EXCEPT !.mem[t][i] = e], Put(m, t, i, e), pool, table, result)
BY DEF Fields, IsWalk, Put

LEMMA CreateIs ==
  ASSUME NEW w, IsWalk(w), NEW i, NEW user
  PROVE  LET c    == Min(w.free)
             link == [present |-> TRUE, user |-> user, huge |-> FALSE, addr |-> c]
         IN  Fields(Create(w, i, user), Put([w.mem EXCEPT ![c] = Zeroed], w.table, i, link),
                    w.free \ {c}, c, w.result)
<1>. DEFINE c    == Min(w.free)
            z    == [w.mem EXCEPT ![c] = Zeroed]
            made == AllocTable(w)
            link(t) == [present |-> TRUE, user |-> user, huge |-> FALSE, addr |-> t]
<1>1. Fields(made, z, w.free \ {c}, c, w.result) /\ made.table = c
  BY AllocTableIs, Zenon
<1>2. Create(w, i, user) = [made EXCEPT !.mem[w.table][i] = link(made.table)]
  BY DEF Create
<1>. HIDE DEF c, z, made, link
<1>3. Create(w, i, user) = [made EXCEPT !.mem[w.table][i] = link(c)]
  BY <1>1, <1>2, Zenon
<1>4. Fields([made EXCEPT !.mem[w.table][i] = link(c)], Put(z, w.table, i, link(c)),
             w.free \ {c}, c, w.result)
  BY <1>1, Written, Zenon
<1>. QED
  BY <1>3, <1>4, Zenon DEF c, z, link

LEMMA EnterIs ==
  ASSUME NEW w, IsWalk(w), NEW i, NEW user
  PROVE  LET entry == w.mem[w.table][i]
         IN  Fields(Enter(w, i, user), Put(w.mem, w.table, i, Opened(entry, user)), w.free,
                    entry.addr, w.result)
BY DEF Enter, Fields, IsWalk, Put

\* A walk that has failed goes no further.
LEMMA DescendStops ==
  ASSUME NEW w, NEW p, NEW user, NEW level, w.result # "ok"
  PROVE  Descend(w, p, user, level) = w
BY Zenon DEF Descend

\* One level down: no frame for the table, a new table, or the table that is there.
LEMMA DescendIs ==
  ASSUME NEW w, IsWalk(w), w.result = "ok",
         NEW p, NEW user, NEW level \in 1 .. 3
  PROVE  LET i     == TableIndex(p, level)
             entry == w.mem[w.table][i]
             d     == Descend(w, p, user, level)
             c     == Min(w.free)
             link  == [present |-> TRUE, user |-> user, huge |-> FALSE, addr |-> c]
         IN  /\ ~entry.present /\ w.free = {} =>
                  Fields(d, w.mem, w.free, w.table, "OutOfFrames")
             /\ ~entry.present /\ w.free # {} =>
                  Fields(d, Put([w.mem EXCEPT ![c] = Zeroed], w.table, i, link),
                         w.free \ {c}, c, w.result)
             /\ entry.present /\ ~entry.huge =>
                  Fields(d, Put(w.mem, w.table, i, Opened(entry, user)), w.free,
                         entry.addr, w.result)
<1>. DEFINE i     == TableIndex(p, level)
            entry == w.mem[w.table][i]
            d     == Descend(w, p, user, level)
<1>1. Fields([w EXCEPT !.result = "OutOfFrames"], w.mem, w.free, w.table, "OutOfFrames")
  BY DEF Fields, IsWalk
<1>2. ~entry.present /\ w.free = {} => d = [w EXCEPT !.result = "OutOfFrames"]
  BY Zenon DEF Descend
<1>3. ~entry.present /\ w.free # {} => d = Create(w, i, user)
  BY Zenon DEF Descend
<1>4. entry.present /\ ~entry.huge => d = Enter(w, i, user)
  BY Zenon DEF Descend
<1>. HIDE DEF d
<1>5. ~entry.present /\ w.free = {} => Fields(d, w.mem, w.free, w.table, "OutOfFrames")
  BY <1>1, <1>2, Zenon
<1>. QED
  BY <1>3, <1>4, <1>5, CreateIs, EnterIs, Zenon DEF d

\* Of all the frames, those of the pool, of the tables and of the owners are apart.
Tables(T) == T[0] \cup T[1] \cup T[2] \cup T[3]
Held(own) == {own[p] : p \in Pages} \ {None}
Parted(all, pool, T, own) ==
  /\ pool \cap Tables(T) = {} /\ pool \cap Held(own) = {} /\ Tables(T) \cap Held(own) = {}
  /\ pool \cup Tables(T) \cup Held(own) = all

LEMMA TableTaken ==
  ASSUME NEW all, NEW pool, NEW T, NEW S, NEW own, Parted(all, pool, T, own),
         NEW c \in pool, NEW l \in 1 .. 3,
         WithTable(T, S, l, c)
  PROVE  Parted(all, pool \ {c}, S, own)
<1>1. Tables(S) = Tables(T) \cup {c}
  <2>1. /\ S[0] = IF 0 = l - 1 THEN T[0] \cup {c} ELSE T[0]
        /\ S[1] = IF 1 = l - 1 THEN T[1] \cup {c} ELSE T[1]
        /\ S[2] = IF 2 = l - 1 THEN T[2] \cup {c} ELSE T[2]
        /\ S[3] = IF 3 = l - 1 THEN T[3] \cup {c} ELSE T[3]
    BY DEF WithTable
  <2>2. l = 1 \/ l = 2 \/ l = 3
    OBVIOUS
  <2>3. CASE l = 1
    <3>1. S[0] = T[0] \cup {c} /\ S[1] = T[1] /\ S[2] = T[2] /\ S[3] = T[3]
      BY <2>1, <2>3
    <3>. QED
      BY <3>1 DEF Tables
  <2>4. CASE l = 2
    <3>1. S[0] = T[0] /\ S[1] = T[1] \cup {c} /\ S[2] = T[2] /\ S[3] = T[3]
      BY <2>1, <2>4
    <3>. QED
      BY <3>1 DEF Tables
  <2>5. CASE l = 3
    <3>1. S[0] = T[0] /\ S[1] = T[1] /\ S[2] = T[2] \cup {c} /\ S[3] = T[3]
      BY <2>1, <2>5
    <3>. QED
      BY <3>1 DEF Tables
  <2>. QED
    BY <2>2, <2>3, <2>4, <2>5
<1>. QED
  BY <1>1 DEF Parted

\* A walk for a page that has come down to a level: the tree is well kept, no page was
\* mapped or lost, and the entries above are open to a user mapping.
Halfway(w, T, p, l) ==
  /\ IsWalk(w)
  /\ WellKept(w.mem, cr3, T, owner) /\ Parted(FramesAtInit(firmware), w.free, T, owner)
  /\ \A q \in Pages : Mapped(w.mem, cr3, q) <=> Mapped(mem, cr3, q)
  /\ w.result = "ok" =>
       /\ Reaches(w.mem, cr3, p, l) /\ TableOf(w.mem, cr3, p, l) = w.table
       /\ p \in UserPages => \A k \in l + 1 .. 3 : EntryOf(w.mem, cr3, p, k).user
  /\ w.result # "ok" => w.free = {}

\* The table the walk stands in after its entry was written.
LEMMA StepDown ==
  ASSUME NEW m, NEW n, NEW T, Tree(m, cr3, T), Grows(m, n, T),
         NEW p \in Pages, NEW l \in 0 .. 2, Reaches(m, cr3, p, l + 1),
         p \in UserPages => \A k \in (l + 1) + 1 .. 3 : EntryOf(m, cr3, p, k).user,
         NEW e, n[TableOf(m, cr3, p, l + 1)][TableIndex(p, l + 1)] = e,
         e.present, p \in UserPages => e.user
  PROVE  /\ Reaches(n, cr3, p, l) /\ TableOf(n, cr3, p, l) = e.addr
         /\ p \in UserPages => \A k \in l + 1 .. 3 : EntryOf(n, cr3, p, k).user
<1>1. l + 1 \in 0 .. 3
  OBVIOUS
<1>2. /\ Reaches(n, cr3, p, l + 1) /\ TableOf(n, cr3, p, l + 1) = TableOf(m, cr3, p, l + 1)
      /\ \A k \in (l + 1) + 1 .. 3 : EntryOf(m, cr3, p, k).user => EntryOf(n, cr3, p, k).user
  BY <1>1, GrownPath
<1>3. EntryOf(n, cr3, p, l + 1) = e
  BY <1>1, <1>2, PathSteps
<1>4. Reaches(n, cr3, p, l)
  BY <1>2, <1>3, ReachesBelow
<1>5. TableOf(n, cr3, p, l) = e.addr
  BY <1>3, PathSteps
<1>6. \A k \in l + 1 .. 3 : k = l + 1 \/ k \in (l + 1) + 1 .. 3
  OBVIOUS
<1>. QED
  BY <1>2, <1>3, <1>4, <1>5, <1>6

LEMMA DescendKeeps ==
  ASSUME NEW w, NEW T, NEW p \in Pages, NEW l \in 0 .. 2, Halfway(w, T, p, l + 1),
         NEW user \in BOOLEAN, user <=> p \in UserPages, FramesAtInit(firmware) \subseteq Frames,
         Frames \subseteq Nat
  PROVE  \E S : Halfway(Descend(w, p, user, l + 1), S, p, l)
<1>. DEFINE t     == w.table
            i     == TableIndex(p, l + 1)
            m     == w.mem
            entry == m[t][i]
            d     == Descend(w, p, user, l + 1)
            all   == FramesAtInit(firmware)
<1>1. /\ IsWalk(w)
      /\ WellKept(m, cr3, T, owner) /\ Parted(all, w.free, T, owner)
      /\ \A q \in Pages : Mapped(m, cr3, q) <=> Mapped(mem, cr3, q)
      /\ w.result # "ok" => w.free = {}
      /\ w.result = "ok" =>
           /\ Reaches(m, cr3, p, l + 1) /\ TableOf(m, cr3, p, l + 1) = t
           /\ p \in UserPages => \A k \in (l + 1) + 1 .. 3 : EntryOf(m, cr3, p, k).user
  BY Zenon DEF Halfway
<1>2. CASE w.result # "ok"
  <2>1. d = w
    BY <1>2, DescendStops, Zenon
  <2>2. Halfway(w, T, p, l)
    BY <1>1, <1>2 DEF Halfway
  <2>. QED
    BY <2>1, <2>2, Zenon
<1>3. CASE w.result = "ok"
  <2>1. /\ m \in MemType /\ Tree(m, cr3, T)
    BY <1>1 DEF WellKept
  <2>2. l + 1 \in 1 .. 3 /\ l + 1 \in 0 .. 3 /\ (l + 1) - 1 = l
    OBVIOUS
  <2>3. t \in T[l + 1] /\ i \in Slots /\ t \in Frames /\ entry = EntryOf(m, cr3, p, l + 1)
        /\ ~entry.huge /\ T \in [0 .. 3 -> SUBSET Frames]
    <3>1. t \in T[l + 1] /\ ~EntryOf(m, cr3, p, l + 1).huge
      BY <1>1, <1>3, <2>1, <2>2, OnTree
    <3>2. i \in Slots
      BY <2>2, PagesAreNumbers, Digit
    <3>3. EntryOf(m, cr3, p, l + 1) = m[TableOf(m, cr3, p, l + 1)][i]
      BY <2>2, PathSteps
    <3>4. T \in [0 .. 3 -> SUBSET Frames]
      BY <2>1 DEF Tree, LevelsApart
    <3>5. entry = EntryOf(m, cr3, p, l + 1)
      BY <1>1, <1>3, <3>3
    <3>6. t \in Frames
      BY <2>2, <3>1, <3>4
    <3>. QED
      BY <3>1, <3>2, <3>4, <3>5, <3>6
  <2>4. entry \in Entry
    BY <2>1, <2>3 DEF MemType
  <2>. DEFINE c    == Min(w.free)
              link == [present |-> TRUE, user |-> user, huge |-> FALSE, addr |-> c]
              z    == [m EXCEPT ![c] = Zeroed]
              n    == Put(z, t, i, link)
              o    == Opened(entry, user)
              v    == Put(m, t, i, o)
  <2>5. /\ ~entry.present /\ w.free = {} => Fields(d, m, w.free, t, "OutOfFrames")
        /\ ~entry.present /\ w.free # {} => Fields(d, n, w.free \ {c}, c, w.result)
        /\ entry.present /\ ~entry.huge => Fields(d, v, w.free, entry.addr, w.result)
    BY <1>1, <1>3, <2>2, DescendIs, Zenon
  <2>. HIDE DEF d, all
  <2>6. CASE ~entry.present /\ w.free = {}
    <3>1. /\ d.mem = m /\ d.free = {} /\ d.table = t /\ d.result = "OutOfFrames"
          /\ IsWalk(d)
      BY <2>5, <2>6, Zenon DEF Fields
    <3>2. Halfway(d, T, p, l)
      BY <1>1, <2>6, <3>1 DEF Halfway, all
    <3>. QED
      BY <3>2 DEF d
  <2>7. CASE ~entry.present /\ w.free # {}
    <3>. DEFINE S == [k \in 0 .. 3 |-> IF k = l THEN T[k] \cup {c} ELSE T[k]]
    <3>1. /\ d.mem = n /\ d.free = w.free \ {c} /\ d.table = c /\ d.result = "ok"
          /\ IsWalk(d)
      BY <1>3, <2>5, <2>7, Zenon DEF Fields
    <3>2. c \in w.free /\ w.free \subseteq all
      <4>1. w.free \subseteq all
        BY <1>1 DEF Parted
      <4>2. w.free \subseteq Nat
        BY <4>1 DEF all
      <4>. QED
        BY <2>7, <4>1, <4>2, LowestIsFree
    <3>3. c \in Frames /\ c \in Nat /\ \A k \in 0 .. 3 : c \notin T[k]
      <4>1. c \in Frames /\ c \in Nat
        BY <3>2 DEF all
      <4>2. c \notin Tables(T)
        BY <1>1, <3>2 DEF Parted
      <4>3. \A k \in 0 .. 3 : k = 0 \/ k = 1 \/ k = 2 \/ k = 3
        OBVIOUS
      <4>. QED
        BY <4>1, <4>2, <4>3 DEF Tables
    <3>4. link \in Entry /\ link.present /\ ~link.huge /\ link.addr = c /\ link.user = user
      BY <3>3 DEF Entry
    <3>. HIDE DEF c, link, i, t
    <3>5. z \in MemType /\ z[c] = Zeroed /\ \A u \in Frames \ {c} : z[u] = m[u]
      BY <2>1, <3>3, ClearWrites, Zenon
    <3>. HIDE DEF z
    <3>6. n \in MemType /\ n[t][i] = link /\ Elsewhere(z, n, t, i)
      BY <2>3, <3>4, <3>5, PutWrites, Zenon
    <3>. HIDE DEF n, m
    <3>7. t # c
      BY <2>2, <2>3, <3>3
    <3>8. \A j \in Slots : n[c][j] = Absent
      BY <3>3, <3>5, <3>6, <3>7 DEF Elsewhere, Zeroed
    <3>9. \A k \in 0 .. 3 : \A u \in T[k], j \in Slots : u # t \/ j # i => n[u][j] = m[u][j]
      <4>1. SUFFICES ASSUME NEW k \in 0 .. 3, NEW u \in T[k], NEW j \in Slots,
                            u # t \/ j # i
                     PROVE  n[u][j] = m[u][j]
        OBVIOUS
      <4>2. u \in Frames \ {c}
        BY <2>3, <3>3
      <4>. QED
        BY <3>5, <3>6, <4>1, <4>2 DEF Elsewhere
    <3>10. WithTable(T, S, l + 1, c)
      BY <2>2, <2>3, <3>3 DEF WithTable
    <3>11. T[0] \subseteq S[0] /\ S[0] \ T[0] \subseteq {c}
      OBVIOUS
    <3>. HIDE DEF S
    <3>12. LinkedNew(m, n, T, t, i, c)
      <4>1. n[t][i].present /\ ~n[t][i].huge /\ n[t][i].addr = c /\ ~m[t][i].present
        BY <2>7, <3>4, <3>6
      <4>. QED
        BY <3>3, <3>8, <3>9, <4>1, Zenon DEF LinkedNew
    <3>13. Tree(n, cr3, S) /\ Grows(m, n, T)
      BY <2>1, <2>2, <2>3, <3>3, <3>10, <3>12, NewTable
    <3>14. \A u \in S[0] \ T[0], j \in Slots : ~n[u][j].present
      BY <3>8, <3>11 DEF Absent
    <3>15. /\ Leaves(n, cr3, S) /\ Owners(n, cr3, owner)
           /\ \A q \in Pages : Mapped(n, cr3, q) <=> Mapped(m, cr3, q)
      BY <1>1, <3>11, <3>13, <3>14, GrownPages
    <3>16. WellKept(n, cr3, S, owner)
      BY <3>6, <3>13, <3>15 DEF WellKept
    <3>17. Parted(all, w.free \ {c}, S, owner)
      BY <1>1, <2>2, <3>2, <3>10, TableTaken
    <3>18. /\ Reaches(n, cr3, p, l) /\ TableOf(n, cr3, p, l) = c
           /\ p \in UserPages => \A k \in l + 1 .. 3 : EntryOf(n, cr3, p, k).user
      <4>1. n[TableOf(m, cr3, p, l + 1)][TableIndex(p, l + 1)] = link
        BY <1>1, <1>3, <3>6 DEF i
      <4>. QED
        BY <1>1, <1>3, <2>1, <3>4, <3>13, <4>1, StepDown
    <3>19. Halfway(d, S, p, l)
      BY <1>1, <3>1, <3>15, <3>16, <3>17, <3>18 DEF Halfway, all
    <3>. QED
      BY <3>19 DEF d
  <2>8. CASE entry.present
    <3>1. /\ d.mem = v /\ d.free = w.free /\ d.table = entry.addr /\ d.result = "ok"
          /\ IsWalk(d)
      BY <1>3, <2>3, <2>5, <2>8, Zenon DEF Fields
    <3>2. /\ o \in Entry /\ o.present = entry.present /\ o.huge = entry.huge
          /\ o.addr = entry.addr /\ (entry.user => o.user) /\ (user => o.user)
      <4>. HIDE DEF entry
      <4>. QED
        BY <2>4 DEF Opened, Entry
    <3>. HIDE DEF o, t, i
    <3>3. v \in MemType /\ v[t][i] = o /\ Elsewhere(m, v, t, i)
      BY <2>1, <2>3, <3>2, PutWrites, Zenon
    <3>. HIDE DEF v, m
    <3>4. /\ v[t][i].present /\ v[t][i].huge = m[t][i].huge /\ v[t][i].addr = m[t][i].addr
          /\ m[t][i].user => v[t][i].user
      BY <2>8, <3>2, <3>3
    <3>5. /\ WellKept(v, cr3, T, owner) /\ Grows(m, v, T)
          /\ \A q \in Pages : Mapped(v, cr3, q) <=> Mapped(m, cr3, q)
      BY <1>1, <2>2, <2>3, <2>8, <3>3, <3>4, OpenEntry
    <3>6. /\ Reaches(v, cr3, p, l) /\ TableOf(v, cr3, p, l) = entry.addr
          /\ p \in UserPages => \A k \in l + 1 .. 3 : EntryOf(v, cr3, p, k).user
      <4>1. v[TableOf(m, cr3, p, l + 1)][TableIndex(p, l + 1)] = o
        BY <1>1, <1>3, <3>3 DEF i
      <4>2. o.present /\ o.addr = entry.addr /\ (p \in UserPages => o.user)
        BY <2>8, <3>2
      <4>. QED
        BY <1>1, <1>3, <2>1, <3>5, <4>1, <4>2, StepDown
    <3>7. Halfway(d, T, p, l)
      BY <1>1, <3>1, <3>5, <3>6 DEF Halfway, all
    <3>. QED
      BY <3>7 DEF d
  <2>. QED
    BY <2>6, <2>7, <2>8
<1>. QED
  BY <1>2, <1>3

\* map_inner maps its page or runs out of frames; no other page changes.
LEMMA MapInnerKeeps ==
  ASSUME NEW p \in Pages, NEW frame \in Nat, owner[p] = frame, frame # None, NEW T,
         FramesAtInit(firmware) \subseteq Frames, Frames \subseteq Nat,
         WellKept(mem, cr3, T, owner), Parted(FramesAtInit(firmware), free, T, owner),
         ~Mapped(mem, cr3, p), NEW user \in BOOLEAN, user <=> p \in UserPages
  PROVE  LET w == MapInner(p, frame, user)
         IN  /\ \E S : /\ WellKept(w.mem, cr3, S, owner)
                       /\ Parted(FramesAtInit(firmware), w.free, S, owner)
             /\ \A q \in Pages : Mapped(w.mem, cr3, q) <=>
                  Mapped(mem, cr3, q) \/ (q = p /\ w.result = "ok")
             /\ w.result # "ok" => w.free = {}
<1>. DEFINE start == [mem |-> mem, free |-> free, table |-> cr3, result |-> "ok"]
            w3    == Descend(start, p, user, 3)
            w2    == Descend(w3, p, user, 2)
            w     == Descend(w2, p, user, 1)
            i     == TableIndex(p, 0)
            leaf  == [present |-> TRUE, user |-> user, huge |-> FALSE, addr |-> frame]
            all   == FramesAtInit(firmware)
<1>1. Halfway(start, T, p, 3)
  <2>1. /\ IsWalk(start)
        /\ start.mem = mem /\ start.free = free /\ start.table = cr3 /\ start.result = "ok"
    BY DEF IsWalk
  <2>. HIDE DEF start
  <2>2. Reaches(mem, cr3, p, 3) /\ TableOf(mem, cr3, p, 3) = cr3
    BY ReachesBelow, PathSteps
  <2>3. \A k \in 3 + 1 .. 3 : EntryOf(mem, cr3, p, k).user
    OBVIOUS
  <2>. QED
    BY <2>1, <2>2, <2>3 DEF Halfway
<1>. HIDE DEF start
<1>2. PICK T3 : Halfway(w3, T3, p, 2)
  <2>1. Halfway(start, T, p, 2 + 1) /\ 2 + 1 = 3 /\ 2 \in 0 .. 2
    BY <1>1
  <2>. QED
    BY <2>1, DescendKeeps
<1>. HIDE DEF w3
<1>3. PICK T2 : Halfway(w2, T2, p, 1)
  <2>1. Halfway(w3, T3, p, 1 + 1) /\ 1 + 1 = 2 /\ 1 \in 0 .. 2
    BY <1>2
  <2>. QED
    BY <2>1, DescendKeeps
<1>. HIDE DEF w2
<1>4. PICK S : Halfway(w, S, p, 0)
  <2>1. Halfway(w2, T2, p, 0 + 1) /\ 0 + 1 = 1 /\ 0 \in 0 .. 2
    BY <1>3
  <2>. QED
    BY <2>1, DescendKeeps
<1>5. MapInner(p, frame, user) =
        IF w.result # "ok" THEN w ELSE [w EXCEPT !.mem[w.table][i] = leaf]
  BY Zenon DEF MapInner, start, w3, w2
<1>. HIDE DEF w, i, leaf, all
<1>6. /\ IsWalk(w)
      /\ WellKept(w.mem, cr3, S, owner) /\ Parted(all, w.free, S, owner)
      /\ \A q \in Pages : Mapped(w.mem, cr3, q) <=> Mapped(mem, cr3, q)
      /\ w.result # "ok" => w.free = {}
  BY <1>4, Zenon DEF Halfway, all
<1>7. CASE w.result # "ok"
  <2>1. MapInner(p, frame, user) = w
    BY <1>5, <1>7, Zenon
  <2>. QED
    BY <1>6, <1>7, <2>1 DEF all
<1>8. CASE w.result = "ok"
  <2>. DEFINE d == MapInner(p, frame, user)
              n == Put(w.mem, w.table, i, leaf)
  <2>1. d = [w EXCEPT !.mem[w.table][i] = leaf]
    BY <1>5, <1>8, Zenon
  <2>2. d.mem = n /\ d.free = w.free /\ d.result = "ok"
    <3>. HIDE DEF d
    <3>. QED
      BY <1>6, <1>8, <2>1 DEF IsWalk, Put
  <2>. HIDE DEF d
  <2>3. /\ Reaches(w.mem, cr3, p, 0) /\ TableOf(w.mem, cr3, p, 0) = w.table
        /\ p \in UserPages => \A k \in 1 .. 3 : EntryOf(w.mem, cr3, p, k).user
    BY <1>4, <1>8 DEF Halfway
  <2>4. leaf \in Entry /\ leaf.present /\ ~leaf.huge /\ leaf.addr = frame /\ leaf.user = user
    BY DEF leaf, Entry
  <2>5. w.mem \in MemType /\ Tree(w.mem, cr3, S)
    BY <1>6 DEF WellKept
  <2>6. w.table \in Frames /\ i \in Slots
    <3>1. w.table \in S[0]
      BY <2>3, <2>5, OnTree
    <3>2. S \in [0 .. 3 -> SUBSET Frames]
      BY <2>5 DEF Tree, LevelsApart
    <3>. QED
      BY <3>1, <3>2, PagesAreNumbers, Digit DEF i
  <2>7. n \in MemType /\ n[w.table][i] = leaf /\ Elsewhere(w.mem, n, w.table, i)
    BY <2>4, <2>5, <2>6, PutWrites, Zenon
  <2>. HIDE DEF n
  <2>8. /\ WellKept(n, cr3, S, owner) /\ Mapped(n, cr3, p)
        /\ \A q \in Pages \ {p} : Mapped(n, cr3, q) <=> Mapped(w.mem, cr3, q)
    <3>1. /\ n[TableOf(w.mem, cr3, p, 0)][TableIndex(p, 0)] = leaf
          /\ Elsewhere(w.mem, n, TableOf(w.mem, cr3, p, 0), TableIndex(p, 0))
      BY <2>3, <2>7, Zenon DEF i
    <3>2. /\ owner[p] # None /\ leaf.addr = owner[p] /\ (leaf.user <=> p \in UserPages)
      BY <2>4
    <3>. QED
      BY <1>6, <2>3, <2>4, <2>7, <3>1, <3>2, LeafPages
  <2>9. \A q \in Pages : Mapped(n, cr3, q) <=> Mapped(mem, cr3, q) \/ q = p
    BY <1>6, <2>8
  <2>10. /\ WellKept(d.mem, cr3, S, owner) /\ Parted(all, d.free, S, owner)
         /\ \A q \in Pages : Mapped(d.mem, cr3, q) <=>
              Mapped(mem, cr3, q) \/ (q = p /\ d.result = "ok")
         /\ d.result # "ok" => d.free = {}
    BY <1>6, <2>2, <2>8, <2>9
  <2>. QED
    BY <2>10 DEF d, all
<1>. QED
  BY <1>7, <1>8

-----------------------------------------------------------------------------
(* build_address_space: the first tree.                                    *)

LEMMA FramesAreFinite ==
  ASSUME NEW pool, pool \subseteq Frames
  PROVE  IsFiniteSet(pool)
<1>1. IsFiniteSet(Frames)
  BY MemoryAssumption, FS_Interval DEF Frames
<1>. QED
  BY <1>1, FS_Subset

LEMMA ThreeLowest ==
  ASSUME NEW pool, pool \subseteq Nat, IsFiniteSet(pool), ~ (Cardinality(pool) < 3)
  PROVE  LET a == Min(pool)
             b == Min(pool \ {a})
             c == Min(pool \ {a, b})
         IN  a \in pool /\ b \in pool /\ c \in pool /\ a # b /\ a # c /\ b # c
<1>. DEFINE a == Min(pool)
            b == Min(pool \ {a})
            c == Min(pool \ {a, b})
<1>1. Cardinality(pool) \in Nat
  BY FS_CardinalityType
<1>2. a \in pool
  <2>1. pool # {}
    BY FS_EmptySet
  <2>. QED
    BY <2>1, LowestIsFree
<1>. HIDE DEF a
<1>3. IsFiniteSet(pool \ {a}) /\ Cardinality(pool \ {a}) = Cardinality(pool) - 1
  BY <1>2, FS_RemoveElement
<1>4. b \in pool \ {a}
  <2>1. pool \ {a} # {}
    BY <1>1, <1>3, FS_EmptySet
  <2>. QED
    BY <2>1, LowestIsFree
<1>. HIDE DEF b
<1>5. Cardinality((pool \ {a}) \ {b}) = Cardinality(pool) - 1 - 1
  BY <1>3, <1>4, FS_RemoveElement
<1>6. c \in pool \ {a, b}
  <2>1. (pool \ {a}) \ {b} = pool \ {a, b}
    OBVIOUS
  <2>2. pool \ {a, b} # {}
    BY <1>1, <1>5, <2>1, FS_EmptySet
  <2>. QED
    BY <2>2, LowestIsFree
<1>. QED
  BY <1>2, <1>4, <1>6 DEF a, b

\* The tables of the identity window alone.
FirstTables(a, b, c) == [l \in 0 .. 3 |-> CASE l = 3 -> {a} [] l = 2 -> {b} [] l = 1 -> {c}
                                            [] l = 0 -> {}]

LEMMA FirstTree ==
  ASSUME NEW n, NEW a \in Frames, NEW b \in Frames, NEW c \in Frames,
         a # b, a # c, b # c,
         Link(n, a, 0), n[a][0].addr = b, \A i \in Slots \ {0} : n[a][i] = Absent,
         Link(n, b, 0), n[b][0].addr = c, \A i \in Slots \ {0} : n[b][i] = Absent,
         \A i \in Slots : n[c][i].huge
  PROVE  Tree(n, a, FirstTables(a, b, c))
<1>. DEFINE T == FirstTables(a, b, c)
<1>1. T[3] = {a} /\ T[2] = {b} /\ T[1] = {c} /\ T[0] = {}
  BY DEF FirstTables
<1>2. T \in [0 .. 3 -> SUBSET Frames]
  BY DEF FirstTables
<1>. HIDE DEF T
<1>3. 0 \in Slots
  BY MemoryAssumption DEF Slots
<1>4. \A l \in 1 .. 3 : l = 1 \/ l = 2 \/ l = 3
  OBVIOUS
<1>5. \A l \in 0 .. 3 : l = 0 \/ l = 1 \/ l = 2 \/ l = 3
  OBVIOUS
\* The two links, and where they lead.
<1>6. ASSUME NEW l \in 1 .. 3, NEW t \in T[l], NEW i \in Slots, Link(n, t, i)
      PROVE  \/ l = 3 /\ t = a /\ i = 0 /\ n[t][i].addr = b
             \/ l = 2 /\ t = b /\ i = 0 /\ n[t][i].addr = c
  <2>1. (l = 3 /\ t = a) \/ (l = 2 /\ t = b) \/ (l = 1 /\ t = c)
    BY <1>1, <1>4
  <2>2. \A j \in Slots : ~Link(n, c, j)
    BY DEF Link
  <2>3. \A j \in Slots \ {0} : ~Link(n, a, j) /\ ~Link(n, b, j)
    BY DEF Link, Absent
  <2>. QED
    BY <1>6, <2>1, <2>2, <2>3
<1>7. LevelsApart(T, a)
  <2>1. \A k, l \in 0 .. 3 : k # l => T[k] \cap T[l] = {}
    BY <1>1, <1>5
  <2>. QED
    BY <1>1, <1>2, <2>1 DEF LevelsApart
<1>8. LinksLeadDown(n, T)
  <2>1. SUFFICES ASSUME NEW l \in 1 .. 3, NEW t \in T[l], NEW i \in Slots, Link(n, t, i)
                 PROVE  n[t][i].addr \in T[l - 1]
    BY DEF LinksLeadDown
  <2>2. 3 - 1 = 2 /\ 2 - 1 = 1
    OBVIOUS
  <2>. QED
    BY <1>1, <1>6, <2>1, <2>2
<1>9. AllHang(n, T)
  <2>1. SUFFICES ASSUME NEW l \in 1 .. 3, NEW d \in T[l - 1]
                 PROVE  \E t \in T[l], i \in Slots : Link(n, t, i) /\ n[t][i].addr = d
    BY DEF AllHang
  <2>2. l = 1 => l - 1 = 0
    OBVIOUS
  <2>3. CASE l = 3
    <3>1. d = b
      BY <1>1, <2>3
    <3>. QED
      BY <1>1, <1>3, <2>3, <3>1
  <2>4. CASE l = 2
    <3>1. d = c
      BY <1>1, <2>4
    <3>. QED
      BY <1>1, <1>3, <2>4, <3>1
  <2>. QED
    BY <1>1, <1>4, <2>2, <2>3, <2>4
<1>10. HangOnce(n, T)
  <2>1. SUFFICES ASSUME NEW l \in 1 .. 3, NEW t \in T[l], NEW u \in T[l],
                        NEW i \in Slots, NEW j \in Slots, Link(n, t, i), Link(n, u, j)
                 PROVE  t = u /\ i = j
    BY DEF HangOnce
  <2>2. i = 0 /\ j = 0
    BY <1>6, <2>1
  <2>3. (l = 3 /\ t = a /\ u = a) \/ (l = 2 /\ t = b /\ u = b)
    BY <1>6, <2>1
  <2>. QED
    BY <2>2, <2>3
<1>11. HugeIsIdentity(n, T, a)
  <2>1. SUFFICES ASSUME NEW l \in 0 .. 3, NEW t \in T[l], NEW i \in Slots, n[t][i].huge
                 PROVE  l = 1 /\ IdentityTable(n, a, t)
    BY DEF HugeIsIdentity
  <2>2. ~n[a][i].huge /\ ~n[b][i].huge
    BY DEF Link, Absent
  <2>3. l = 1 /\ t = c
    BY <1>1, <1>5, <2>1, <2>2
  <2>. QED
    BY <2>3 DEF IdentityTable
<1>12. Tree(n, a, T)
  BY <1>7, <1>8, <1>9, <1>10, <1>11 DEF Tree
<1>. QED
  BY <1>12 DEF T

LEMMA NoLeaves ==
  ASSUME NEW m, NEW root, NEW T, Tree(m, root, T), T[0] = {}, NEW p \in Pages
  PROVE  ~Mapped(m, root, p)
BY OnTree DEF Mapped

\* What the PML4, the PDPT and the PD hold at first, as the Link facts above put it.
LEMMA Build ==
  ASSUME mem \in MemType, free \subseteq Frames, Frames \subseteq Nat,
         ~ (Cardinality(free) < 3), BuildAddressSpace
  PROVE  \E a, b, c \in free :
           /\ a # b /\ a # c /\ b # c
           /\ cr3' = a /\ free' = free \ {a, b, c} /\ mem' \in MemType
           /\ Tree(mem', a, FirstTables(a, b, c))
<1>. DEFINE a == Min(free)
            b == Min(free \ {a})
            c == Min(free \ {a, b})
            link(t) == [Zeroed EXCEPT ![0] = [Absent EXCEPT !.present = TRUE, !.addr = t]]
            identity == [i \in Slots |->
              [present |-> TRUE, user |-> FALSE, huge |-> TRUE, addr |-> i * Fanout]]
<1>1. /\ cr3' = a /\ free' = free \ {a, b, c}
      /\ mem' = [mem EXCEPT ![a] = link(b), ![b] = link(c), ![c] = identity]
  BY Zenon DEF BuildAddressSpace
<1>2. a \in free /\ b \in free /\ c \in free /\ a # b /\ a # c /\ b # c
  BY FramesAreFinite, ThreeLowest
<1>. HIDE DEF a, b, c
<1>3. a \in Frames /\ b \in Frames /\ c \in Frames /\ \A f \in Frames : f \in Nat
  BY <1>2
<1>4. ASSUME NEW t \in Frames
      PROVE  /\ link(t) \in [Slots -> Entry]
             /\ link(t)[0].present /\ ~link(t)[0].huge /\ link(t)[0].addr = t
             /\ \A i \in Slots \ {0} : link(t)[i] = Absent
  <2>. DEFINE e == [Absent EXCEPT !.present = TRUE, !.addr = t]
  <2>1. 0 \in Slots
    BY MemoryAssumption DEF Slots
  <2>2. e \in Entry /\ e.present /\ ~e.huge /\ e.addr = t
    BY <1>3 DEF Absent, Entry
  <2>3. Absent \in Entry
    BY DEF Absent, Entry
  <2>. HIDE DEF e
  <2>4. /\ [Zeroed EXCEPT ![0] = e] \in [Slots -> Entry] /\ [Zeroed EXCEPT ![0] = e][0] = e
        /\ \A i \in Slots \ {0} : [Zeroed EXCEPT ![0] = e][i] = Absent
    BY <2>1, <2>2, <2>3 DEF Zeroed
  <2>. QED
    BY <2>2, <2>4 DEF e
<1>5. identity \in [Slots -> Entry] /\ \A i \in Slots : identity[i].huge
  <2>1. \A i \in Slots : i * Fanout \in Nat
    BY MemoryAssumption DEF Slots
  <2>. QED
    BY <2>1 DEF Entry
<1>6. link(b) \in [Slots -> Entry] /\ link(c) \in [Slots -> Entry]
  BY <1>3, <1>4
<1>. HIDE DEF link, identity
<1>7. /\ mem' \in MemType /\ mem'[a] = link(b) /\ mem'[b] = link(c) /\ mem'[c] = identity
  BY <1>1, <1>2, <1>3, <1>5, <1>6 DEF MemType
<1>8. Tree(mem', a, FirstTables(a, b, c))
  <2>1. /\ Link(mem', a, 0) /\ mem'[a][0].addr = b
        /\ \A i \in Slots \ {0} : mem'[a][i] = Absent
    BY <1>3, <1>4, <1>7 DEF Link
  <2>2. /\ Link(mem', b, 0) /\ mem'[b][0].addr = c
        /\ \A i \in Slots \ {0} : mem'[b][i] = Absent
    BY <1>3, <1>4, <1>7 DEF Link
  <2>3. \A i \in Slots : mem'[c][i].huge
    BY <1>5, <1>7
  <2>. QED
    BY <1>2, <1>3, <2>1, <2>2, <2>3, FirstTree
<1>. QED
  BY <1>1, <1>2, <1>7, <1>8

-----------------------------------------------------------------------------
(* The inductive invariant.                                                *)

\* Every cached translation is the mapping its page has now.
Cached ==
  \A t \in tlb : /\ t.page \in Pages /\ Mapped(mem, cr3, t.page)
                 /\ t = Translation(t.page, owner[t.page])

Kept ==
  \E T : WellKept(mem, cr3, T, owner) /\ Parted(FramesAtInit(firmware), free, T, owner)

MemoryInv ==
  /\ firmware \in MemoryMaps /\ mem \in MemType /\ cr3 \in Frames \cup {None}
  /\ owner \in [Pages -> Frames \cup {None}] /\ free \subseteq FramesAtInit(firmware)
  /\ panicked \in BOOLEAN /\ (panicked => free = {})
  /\ \A p, q \in Pages : owner[p] = owner[q] /\ owner[p] # None => p = q
  /\ cr3 = None => /\ tlb = {} /\ (\A p \in Pages : owner[p] = None)
                   /\ panicked \/ free = FramesAtInit(firmware)
  /\ cr3 # None => Kept /\ Cached

LEMMA FramesAreNot ==
  /\ None \notin Frames /\ Frames \subseteq Nat
  /\ \A map \in MemoryMaps : FramesAtInit(map) \subseteq Frames
BY MemoryAssumption, FramesAreNumbers DEF Frames, None

LEMMA InitMemory == Init => MemoryInv
<1>. SUFFICES ASSUME Init PROVE MemoryInv
  OBVIOUS
<1>1. Garbage \in [Slots -> Entry]
  BY DEF Garbage, Entry
<1>. HIDE DEF Garbage
<1>2. mem \in MemType
  BY <1>1 DEF Init, MemType
<1>3. /\ firmware \in MemoryMaps /\ cr3 = None /\ tlb = {} /\ panicked = FALSE
      /\ free = FramesAtInit(firmware) /\ owner = [p \in Pages |-> None]
  BY DEF Init
<1>4. owner \in [Pages -> Frames \cup {None}] /\ \A p \in Pages : owner[p] = None
  BY <1>3
<1>. QED
  BY <1>2, <1>3, <1>4 DEF MemoryInv

\* Under the tables, what the CPU finds for a page is what its owner mapped.
LEMMA WalkInv ==
  ASSUME MemoryInv, cr3 # None, NEW p \in Pages
  PROVE  /\ Mapped(mem, cr3, p) => Walk(mem, cr3, p) = {Translation(p, owner[p])}
                                   /\ owner[p] \in Frames
         /\ ~Mapped(mem, cr3, p) => Walk(mem, cr3, p) = {}
BY WalkExact DEF MemoryInv, Kept

LEMMA MappedIsOwned ==
  ASSUME MemoryInv, cr3 # None, NEW p \in Pages, Mapped(mem, cr3, p)
  PROVE  owner[p] # None
BY DEF MemoryInv, Kept, WellKept, Owners

LEMMA PagingInitKeeps ==
  ASSUME MemoryInv, PagingInit, ~panicked
  PROVE  MemoryInv'
<1>1. /\ firmware \in MemoryMaps /\ mem \in MemType /\ free = FramesAtInit(firmware)
      /\ owner \in [Pages -> Frames \cup {None}] /\ \A p \in Pages : owner[p] = None
      /\ cr3 = None /\ tlb' = {} /\ firmware' = firmware /\ owner' = owner
  BY DEF MemoryInv, PagingInit
<1>2. free \subseteq Frames /\ Frames \subseteq Nat /\ None \notin Frames
  BY <1>1, FramesAreNot
<1>3. CASE Cardinality(free) < 3
  <2>1. /\ panicked' = TRUE /\ free' = {} /\ cr3' = cr3
        /\ mem' = [f \in Frames |-> IF f \in free THEN Zeroed ELSE mem[f]]
    BY <1>3 DEF PagingInit
  <2>2. Zeroed \in [Slots -> Entry]
    BY DEF Zeroed, Absent, Entry
  <2>3. mem' \in MemType
    <3>. HIDE DEF Zeroed
    <3>. QED
      BY <1>1, <2>1, <2>2 DEF MemType
  <2>. QED
    BY <1>1, <2>1, <2>3 DEF MemoryInv
<1>4. CASE ~ (Cardinality(free) < 3)
  <2>1. BuildAddressSpace /\ panicked' = panicked
    BY <1>4 DEF PagingInit
  <2>2. PICK a, b, c \in free :
          /\ a # b /\ a # c /\ b # c
          /\ cr3' = a /\ free' = free \ {a, b, c} /\ mem' \in MemType
          /\ Tree(mem', a, FirstTables(a, b, c))
    BY <1>1, <1>2, <1>4, <2>1, Build
  <2>. DEFINE T == FirstTables(a, b, c)
  <2>3. T[3] = {a} /\ T[2] = {b} /\ T[1] = {c} /\ T[0] = {}
    BY DEF FirstTables
  <2>4. \A p \in Pages : ~Mapped(mem', a, p)
    BY <2>2, <2>3, NoLeaves
  <2>5. WellKept(mem', a, T, owner)
    BY <2>2, <2>3, <2>4 DEF WellKept, Leaves, Owners
  <2>. HIDE DEF T
  <2>6. Parted(FramesAtInit(firmware), free \ {a, b, c}, T, owner)
    <3>1. Tables(T) = {a, b, c}
      BY <2>3 DEF Tables
    <3>2. Held(owner) = {}
      BY <1>1 DEF Held
    <3>. QED
      BY <1>1, <2>2, <3>1, <3>2 DEF Parted
  <2>7. Kept'
    BY <1>1, <2>2, <2>5, <2>6 DEF Kept
  <2>8. Cached'
    BY <1>1 DEF Cached
  <2>9. a \in Frames /\ a # None
    BY <1>2
  <2>. QED
    BY <1>1, <2>1, <2>2, <2>7, <2>8, <2>9 DEF MemoryInv
<1>. QED
  BY <1>3, <1>4

LEMMA AllocKeeps ==
  ASSUME MemoryInv, NEW p \in Pages, Alloc(p), ~panicked
  PROVE  /\ MemoryInv'
         /\ \A q \in Pages : Mapped(mem', cr3', q) <=> Mapped(mem, cr3, q)
         /\ \/ UNCHANGED owner
            \/ \E f \in free : owner' = [owner EXCEPT ![p] = f] /\ f \notin Held(owner)
<1>. DEFINE frame == FirstFree(free)
            all   == FramesAtInit(firmware)
<1>1. /\ firmware \in MemoryMaps /\ mem \in MemType /\ cr3 \in Frames /\ cr3 # None
      /\ owner \in [Pages -> Frames \cup {None}] /\ free \subseteq all
      /\ \A q, r \in Pages : owner[q] = owner[r] /\ owner[q] # None => q = r
      /\ Kept /\ Cached /\ panicked = FALSE
  BY DEF MemoryInv, Alloc
<1>2. /\ owner[p] = None /\ firmware' = firmware /\ cr3' = cr3 /\ tlb' = tlb
      /\ frame = None => panicked' = TRUE /\ free' = free /\ mem' = mem /\ owner' = owner
      /\ frame # None =>
           /\ owner' = [owner EXCEPT ![p] = frame] /\ free' = free \ {frame}
           /\ mem' = [f \in Frames |-> IF f = frame THEN Garbage ELSE mem[f]]
           /\ panicked' = panicked
  BY DEF Alloc
<1>3. all \subseteq Frames /\ Frames \subseteq Nat /\ None \notin Frames
  BY <1>1, FramesAreNot
<1>4. IF free = {} THEN frame = None ELSE frame \in free /\ frame # None
  BY <1>1, <1>3, LowestIsFree DEF FirstFree
<1>. HIDE DEF frame, all
<1>5. CASE free = {}
  <2>1. /\ panicked' = TRUE /\ free' = free /\ mem' = mem /\ owner' = owner
    BY <1>2, <1>4, <1>5
  <2>2. Kept' /\ Cached'
    BY <1>1, <1>2, <2>1 DEF Kept, Cached
  <2>3. MemoryInv'
    BY <1>1, <1>2, <1>5, <2>1, <2>2 DEF MemoryInv, all
  <2>. QED
    BY <1>2, <2>1, <2>3
<1>6. CASE free # {}
  <2>1. /\ owner' = [owner EXCEPT ![p] = frame] /\ free' = free \ {frame}
        /\ mem' = [f \in Frames |-> IF f = frame THEN Garbage ELSE mem[f]]
        /\ panicked' = FALSE /\ frame \in free /\ frame \in Frames /\ frame # None
    BY <1>1, <1>2, <1>3, <1>4, <1>6
  <2>2. Garbage \in [Slots -> Entry]
    BY DEF Garbage, Entry
  <2>. HIDE DEF Garbage
  <2>3. mem' \in MemType /\ \A f \in Frames \ {frame} : mem'[f] = mem[f]
    BY <1>1, <2>1, <2>2 DEF MemType
  <2>4. owner' \in [Pages -> Frames \cup {None}] /\ owner'[p] = frame
        /\ \A q \in Pages \ {p} : owner'[q] = owner[q]
    BY <1>1, <2>1
  <2>5. PICK T : WellKept(mem, cr3, T, owner) /\ Parted(all, free, T, owner)
    BY <1>1 DEF Kept, all
  <2>6. frame \notin Tables(T) /\ frame \notin Held(owner)
    BY <2>1, <2>5 DEF Parted
  <2>7. \A l \in 0 .. 3 : \A t \in T[l] : mem'[t] = mem[t]
    <3>1. T \in [0 .. 3 -> SUBSET Frames]
      BY <2>5 DEF WellKept, Tree, LevelsApart
    <3>2. \A l \in 0 .. 3 : l = 0 \/ l = 1 \/ l = 2 \/ l = 3
      OBVIOUS
    <3>3. \A l \in 0 .. 3 : frame \notin T[l]
      BY <2>6, <3>2 DEF Tables
    <3>. QED
      BY <2>3, <3>1, <3>3
  <2>8. /\ WellKept(mem', cr3, T, owner)
        /\ \A q \in Pages : Mapped(mem', cr3, q) <=> Mapped(mem, cr3, q)
    BY <2>3, <2>5, <2>7, SameTables
  <2>9. \A q \in Pages : Mapped(mem, cr3, q) => q # p /\ owner'[q] = owner[q]
    BY <1>1, <1>2, <2>4, MappedIsOwned
  <2>10. WellKept(mem', cr3, T, owner')
    BY <2>8, <2>9, SameOwners
  <2>11. Held(owner') = Held(owner) \cup {frame}
    BY <1>2, <2>1, <2>4 DEF Held
  <2>12. Parted(all, free', T, owner')
    BY <2>1, <2>5, <2>6, <2>11 DEF Parted
  <2>13. Kept'
    BY <1>2, <2>10, <2>12 DEF Kept, all
  <2>14. Cached'
    BY <1>1, <1>2, <2>8, <2>9 DEF Cached
  <2>15. \A q, r \in Pages : owner'[q] = owner'[r] /\ owner'[q] # None => q = r
    <3>1. \A q \in Pages \ {p} : owner'[q] # frame
      BY <2>4, <2>6, <2>1 DEF Held
    <3>. QED
      BY <1>1, <2>4, <3>1
  <2>16. free' \subseteq all
    BY <1>1, <2>1
  <2>17. MemoryInv'
    BY <1>1, <1>2, <2>1, <2>3, <2>4, <2>13, <2>14, <2>15, <2>16 DEF MemoryInv, all
  <2>. QED
    BY <1>2, <2>1, <2>6, <2>8, <2>17
<1>. QED
  BY <1>5, <1>6

\* What the callers' guards say of their page.
LEMMA Guards ==
  ASSUME MemoryInv, cr3 # None, NEW p \in Pages
  PROVE  Walk(mem, cr3, p) = {} <=> ~Mapped(mem, cr3, p)
BY WalkInv

LEMMA MapKeeps ==
  ASSUME MemoryInv, NEW p \in Pages, Map(p), ~panicked
  PROVE  /\ MemoryInv'
         /\ panicked' \/ \A q \in Pages :
              Mapped(mem', cr3', q) <=> Mapped(mem, cr3, q) \/ q = p
         /\ panicked' => \A q \in Pages : Mapped(mem', cr3', q) <=> Mapped(mem, cr3, q)
<1>. DEFINE user == p \in UserPages
            w    == MapInner(p, owner[p], user)
            all  == FramesAtInit(firmware)
<1>1. /\ firmware \in MemoryMaps /\ mem \in MemType /\ cr3 \in Frames /\ cr3 # None
      /\ owner \in [Pages -> Frames \cup {None}] /\ free \subseteq all
      /\ \A q, r \in Pages : owner[q] = owner[r] /\ owner[q] # None => q = r
      /\ Kept /\ Cached /\ panicked = FALSE
  BY DEF MemoryInv, Map
<1>2. /\ owner[p] # None /\ Walk(mem, cr3, p) = {}
      /\ mem' = w.mem /\ free' = w.free /\ tlb' = IF w.result = "ok" THEN Flushed(p) ELSE tlb
      /\ panicked' = (w.result # "ok") /\ firmware' = firmware /\ cr3' = cr3 /\ owner' = owner
  BY DEF Map
<1>3. all \subseteq Frames /\ Frames \subseteq Nat /\ None \notin Frames
  BY <1>1, FramesAreNot
<1>4. ~Mapped(mem, cr3, p) /\ owner[p] \in Nat
  BY <1>1, <1>2, <1>3, Guards
<1>5. PICK T : WellKept(mem, cr3, T, owner) /\ Parted(all, free, T, owner)
  BY <1>1 DEF Kept
<1>6. user \in BOOLEAN /\ (user <=> p \in UserPages)
  OBVIOUS
<1>7. /\ \E S : WellKept(w.mem, cr3, S, owner) /\ Parted(all, w.free, S, owner)
      /\ \A q \in Pages : Mapped(w.mem, cr3, q) <=>
           Mapped(mem, cr3, q) \/ (q = p /\ w.result = "ok")
      /\ w.result # "ok" => w.free = {}
  <2>. HIDE DEF user
  <2>. QED
    BY <1>2, <1>3, <1>4, <1>5, <1>6, MapInnerKeeps
<1>. HIDE DEF w, all, user
<1>8. PICK S : WellKept(w.mem, cr3, S, owner) /\ Parted(all, w.free, S, owner)
  BY <1>7
<1>9. mem' \in MemType /\ free' \subseteq all
  BY <1>2, <1>8 DEF WellKept, Parted
<1>10. Kept'
  BY <1>2, <1>8 DEF Kept, all
<1>11. Cached'
  <2>1. tlb' \subseteq tlb
    BY <1>2 DEF Flushed
  <2>. QED
    BY <1>1, <1>2, <1>7, <2>1 DEF Cached
<1>12. panicked' \in BOOLEAN /\ (panicked' => free' = {})
  BY <1>2, <1>7
<1>13. MemoryInv'
  BY <1>1, <1>2, <1>9, <1>10, <1>11, <1>12 DEF MemoryInv, all
<1>14. /\ panicked' \/ \A q \in Pages :
              Mapped(mem', cr3', q) <=> Mapped(mem, cr3, q) \/ q = p
       /\ panicked' => \A q \in Pages : Mapped(mem', cr3', q) <=> Mapped(mem, cr3, q)
  BY <1>2, <1>7
<1>. QED
  BY <1>13, <1>14

LEMMA UnmapKeeps ==
  ASSUME MemoryInv, NEW p \in Pages, Unmap(p), ~panicked
  PROVE  /\ MemoryInv'
         /\ \A q \in Pages : Mapped(mem', cr3', q) <=> Mapped(mem, cr3, q) /\ q # p
<1>. DEFINE table == PathTo(mem, cr3, p)[1].addr
            i     == TableIndex(p, 0)
<1>1. /\ firmware \in MemoryMaps /\ mem \in MemType /\ cr3 \in Frames /\ cr3 # None
      /\ owner \in [Pages -> Frames \cup {None}] /\ free \subseteq FramesAtInit(firmware)
      /\ \A q, r \in Pages : owner[q] = owner[r] /\ owner[q] # None => q = r
      /\ Kept /\ Cached /\ panicked = FALSE
  BY DEF MemoryInv, Unmap
<1>2. /\ mem' = Put(mem, table, i, Absent) /\ tlb' = Flushed(p) /\ Walk(mem, cr3, p) # {}
      /\ firmware' = firmware /\ free' = free /\ cr3' = cr3 /\ owner' = owner
      /\ panicked' = panicked
  BY DEF Unmap, Put
<1>3. Mapped(mem, cr3, p)
  BY <1>1, <1>2, Guards
<1>4. PICK T : /\ WellKept(mem, cr3, T, owner)
               /\ Parted(FramesAtInit(firmware), free, T, owner)
  BY <1>1 DEF Kept
<1>5. Reaches(mem, cr3, p, 0) /\ table = TableOf(mem, cr3, p, 0)
  <2>1. TableOf(mem, cr3, p, 0) = EntryOf(mem, cr3, p, 0 + 1).addr /\ 0 + 1 = 1
    BY PathSteps
  <2>. QED
    BY <1>3, <2>1 DEF Mapped, EntryOf
<1>6. table \in Frames /\ i \in Slots
  <2>1. Tree(mem, cr3, T)
    BY <1>4 DEF WellKept
  <2>2. table \in T[0] /\ i \in Slots
    BY <1>5, <2>1, OnTree, PagesAreNumbers, Digit
  <2>. QED
    BY <2>1, <2>2 DEF Tree, LevelsApart
<1>. HIDE DEF table, i
<1>7. Absent \in Entry /\ ~Absent.present /\ ~Absent.huge
  BY DEF Absent, Entry
<1>8. mem' \in MemType /\ mem'[table][i] = Absent /\ Elsewhere(mem, mem', table, i)
  <2>. DEFINE v == Put(mem, table, i, Absent)
  <2>1. v \in MemType /\ v[table][i] = Absent /\ Elsewhere(mem, v, table, i)
    BY <1>1, <1>6, <1>7, PutWrites, Zenon
  <2>2. mem' = v
    BY <1>2
  <2>. HIDE DEF v
  <2>. QED
    BY <2>1, <2>2
<1>9. /\ WellKept(mem', cr3, T, owner) /\ ~Mapped(mem', cr3, p)
      /\ \A q \in Pages \ {p} : Mapped(mem', cr3, q) <=> Mapped(mem, cr3, q)
  <2>1. /\ mem'[TableOf(mem, cr3, p, 0)][TableIndex(p, 0)] = Absent
        /\ Elsewhere(mem, mem', TableOf(mem, cr3, p, 0), TableIndex(p, 0))
    BY <1>5, <1>8, Zenon DEF i
  <2>. QED
    BY <1>4, <1>5, <1>7, <1>8, <2>1, LeafPages
<1>10. Kept'
  BY <1>2, <1>4, <1>9 DEF Kept
<1>11. Cached'
  <2>1. \A t \in tlb' : t \in tlb /\ t.page # p
    BY <1>2 DEF Flushed
  <2>. QED
    BY <1>1, <1>2, <1>9, <2>1 DEF Cached
<1>12. MemoryInv'
  BY <1>1, <1>2, <1>8, <1>10, <1>11 DEF MemoryInv
<1>. QED
  BY <1>2, <1>9, <1>12

LEMMA FreeKeeps ==
  ASSUME MemoryInv, NEW p \in Pages, Free(p), ~panicked
  PROVE  MemoryInv'
<1>. DEFINE all == FramesAtInit(firmware)
<1>1. /\ firmware \in MemoryMaps /\ mem \in MemType /\ cr3 \in Frames /\ cr3 # None
      /\ owner \in [Pages -> Frames \cup {None}] /\ free \subseteq all
      /\ \A q, r \in Pages : owner[q] = owner[r] /\ owner[q] # None => q = r
      /\ Kept /\ Cached /\ panicked = FALSE
  BY DEF MemoryInv, Free
<1>2. /\ owner[p] # None /\ Walk(mem, cr3, p) = {}
      /\ free' = free \cup {owner[p]} /\ owner' = [owner EXCEPT ![p] = None]
      /\ firmware' = firmware /\ mem' = mem /\ cr3' = cr3 /\ tlb' = tlb
      /\ panicked' = panicked
  BY DEF Free
<1>3. ~Mapped(mem, cr3, p)
  BY <1>1, <1>2, Guards
<1>4. PICK T : WellKept(mem, cr3, T, owner) /\ Parted(all, free, T, owner)
  BY <1>1 DEF Kept
<1>. HIDE DEF all
<1>5. /\ owner' \in [Pages -> Frames \cup {None}] /\ owner'[p] = None
      /\ \A q \in Pages \ {p} : owner'[q] = owner[q]
  BY <1>1, <1>2
<1>6. WellKept(mem, cr3, T, owner')
  BY <1>3, <1>4, <1>5, SameOwners
<1>7. Held(owner') = Held(owner) \ {owner[p]} /\ owner[p] \in Held(owner)
  <2>1. owner[p] \in Held(owner)
    BY <1>2 DEF Held
  <2>2. \A q \in Pages \ {p} : owner[q] # owner[p]
    BY <1>1, <1>2
  <2>3. \A f : f \in Held(owner') <=> f \in Held(owner) /\ f # owner[p]
    BY <1>2, <1>5, <2>2 DEF Held
  <2>. QED
    BY <2>1, <2>3
<1>8. Parted(all, free', T, owner') /\ free' \subseteq all
  BY <1>1, <1>2, <1>4, <1>7 DEF Parted
<1>9. Kept'
  BY <1>2, <1>6, <1>8 DEF Kept, all
<1>10. Cached'
  BY <1>1, <1>2, <1>3, <1>5 DEF Cached
<1>11. \A q, r \in Pages : owner'[q] = owner'[r] /\ owner'[q] # None => q = r
  BY <1>1, <1>5
<1>. QED
  BY <1>1, <1>2, <1>5, <1>8, <1>9, <1>10, <1>11 DEF MemoryInv, all

LEMMA FillKeeps ==
  ASSUME MemoryInv, NEW p \in Pages, Fill(p)
  PROVE  MemoryInv'
<1>1. /\ cr3 # None /\ tlb' = tlb \cup Walk(mem, cr3, p) /\ tlb' # tlb
      /\ firmware' = firmware /\ free' = free /\ mem' = mem /\ cr3' = cr3 /\ owner' = owner
      /\ panicked' = panicked
  BY DEF Fill
<1>2. Kept /\ Cached
  BY <1>1 DEF MemoryInv
<1>3. Mapped(mem, cr3, p) /\ tlb' = tlb \cup {Translation(p, owner[p])}
  <2>1. Walk(mem, cr3, p) # {}
    BY <1>1
  <2>. QED
    BY <1>1, <2>1, WalkInv
<1>4. Translation(p, owner[p]).page = p
  BY DEF Translation
<1>5. Cached'
  BY <1>1, <1>2, <1>3, <1>4 DEF Cached
<1>6. Kept'
  BY <1>1, <1>2 DEF Kept
<1>. QED
  BY <1>1, <1>5, <1>6 DEF MemoryInv

LEMMA NextMemory == MemoryInv /\ [Next]_vars => MemoryInv'
<1>. SUFFICES ASSUME MemoryInv, [Next]_vars
              PROVE  MemoryInv'
  OBVIOUS
<1>1. CASE UNCHANGED vars
  BY <1>1 DEF vars, MemoryInv, Kept, Cached
<1>2. CASE Next
  <2>1. ~panicked
    BY <1>2 DEF Next
  <2>2. CASE PagingInit
    BY <2>1, <2>2, PagingInitKeeps
  <2>3. ASSUME NEW p \in Pages, Alloc(p) \/ Map(p) \/ Unmap(p) \/ Free(p) \/ Fill(p)
        PROVE  MemoryInv'
    BY <2>1, <2>3, AllocKeeps, MapKeeps, UnmapKeeps, FreeKeeps, FillKeeps
  <2>. QED
    BY <1>2, <2>2, <2>3 DEF Next
<1>. QED
  BY <1>1, <1>2

LEMMA Invariance == Spec => []MemoryInv
BY InitMemory, NextMemory, PTL DEF Spec

-----------------------------------------------------------------------------
(* What the runs check, from the invariant.                                *)

LEMMA InvTypeOK == MemoryInv => TypeOK
<1>. SUFFICES ASSUME MemoryInv PROVE TypeOK
  OBVIOUS
<1>1. /\ firmware \in MemoryMaps /\ mem \in [Frames -> [Slots -> Entry]]
      /\ cr3 \in Frames \cup {None} /\ owner \in [Pages -> Frames \cup {None}]
      /\ panicked \in BOOLEAN /\ (panicked => free = {})
  BY DEF MemoryInv, MemType
<1>2. free \subseteq Frames
  BY FramesAreNot DEF MemoryInv
<1>3. \A t \in tlb : /\ t.page \in Pages /\ owner[t.page] \in Frames
                     /\ t = Translation(t.page, owner[t.page])
  <2>1. SUFFICES ASSUME NEW t \in tlb
                 PROVE  /\ t.page \in Pages /\ owner[t.page] \in Frames
                        /\ t = Translation(t.page, owner[t.page])
    OBVIOUS
  <2>2. cr3 # None
    BY <2>1 DEF MemoryInv
  <2>3. /\ t.page \in Pages /\ Mapped(mem, cr3, t.page)
        /\ t = Translation(t.page, owner[t.page])
    BY <2>2 DEF MemoryInv, Cached
  <2>4. owner[t.page] \in Frames
    BY <2>2, <2>3, WalkInv
  <2>. QED
    BY <2>3, <2>4
<1>4. \A p \in Pages, f \in Frames :
        Translation(p, f) \in [page : Pages, frame : Frames, user : BOOLEAN]
  BY DEF Translation
<1>5. tlb \subseteq [page : Pages, frame : Frames, user : BOOLEAN]
  BY <1>3, <1>4
<1>6. \A s, t \in tlb : s.page = t.page => s = t
  BY <1>3
<1>. QED
  BY <1>1, <1>2, <1>5, <1>6 DEF TypeOK

\* The links of a level lead to the tables of the next, each to its own.
LEMMA LinksOfLevel ==
  ASSUME NEW T, Tree(mem, cr3, T), NEW l \in 1 .. 3
  PROVE  Targets(LinkedFrom(T[l])) = T[l - 1]
<1>1. \A k \in LinkedFrom(T[l]) : /\ k[1] \in T[l] /\ k[2] \in Slots
                                  /\ Link(mem, k[1], k[2])
  BY DEF LinkedFrom, Link
<1>2. \A t \in T[l], i \in Slots : Link(mem, t, i) => <<t, i>> \in LinkedFrom(T[l])
  BY DEF LinkedFrom, Link
<1>3. ASSUME NEW c \in Targets(LinkedFrom(T[l])) PROVE c \in T[l - 1]
  <2>1. PICK k \in LinkedFrom(T[l]) : c = mem[k[1]][k[2]].addr
    BY DEF Targets
  <2>. QED
    BY <1>1, <2>1 DEF Tree, LinksLeadDown
<1>4. ASSUME NEW c \in T[l - 1] PROVE c \in Targets(LinkedFrom(T[l]))
  <2>1. PICK t \in T[l], i \in Slots : Link(mem, t, i) /\ mem[t][i].addr = c
    BY DEF Tree, AllHang
  <2>2. <<t, i>> \in LinkedFrom(T[l])
    BY <1>2, <2>1
  <2>3. mem[<<t, i>>[1]][<<t, i>>[2]].addr = c
    BY <2>1
  <2>. QED
    BY <2>2, <2>3 DEF Targets
<1>. QED
  BY <1>3, <1>4

LEMMA TablesCounted ==
  ASSUME NEW T, Tree(mem, cr3, T)
  PROVE  Cardinality(Tables(T)) =
           1 + Cardinality(LinkedFrom(T[3]) \cup LinkedFrom(T[2]) \cup LinkedFrom(T[1]))
<1>. DEFINE links == LinkedFrom(T[3]) \cup LinkedFrom(T[2]) \cup LinkedFrom(T[1])
            below == T[0] \cup T[1] \cup T[2]
            f     == [k \in links |-> mem[k[1]][k[2]].addr]
<1>1. /\ T \in [0 .. 3 -> SUBSET Frames] /\ T[3] = {cr3}
      /\ \A k, l \in 0 .. 3 : k # l => T[k] \cap T[l] = {}
  BY DEF Tree, LevelsApart
<1>2. \A l \in 1 .. 3 : \A k \in LinkedFrom(T[l]) :
        /\ k = <<k[1], k[2]>> /\ k[1] \in T[l] /\ k[2] \in Slots /\ Link(mem, k[1], k[2])
        /\ mem[k[1]][k[2]].addr \in T[l - 1]
  <2>1. SUFFICES ASSUME NEW l \in 1 .. 3, NEW k \in LinkedFrom(T[l])
                 PROVE  /\ k = <<k[1], k[2]>> /\ k[1] \in T[l] /\ k[2] \in Slots
                        /\ Link(mem, k[1], k[2]) /\ mem[k[1]][k[2]].addr \in T[l - 1]
    OBVIOUS
  <2>2. k \in T[l] \X Slots /\ Link(mem, k[1], k[2])
    BY DEF LinkedFrom, Link
  <2>3. k = <<k[1], k[2]>> /\ k[1] \in T[l] /\ k[2] \in Slots
    BY <2>2
  <2>. QED
    BY <2>2, <2>3 DEF Tree, LinksLeadDown
<1>3. \A k \in links : \E l \in 1 .. 3 : k \in LinkedFrom(T[l])
  OBVIOUS
<1>4. f \in [links -> below]
  <2>1. SUFFICES ASSUME NEW k \in links
                 PROVE  mem[k[1]][k[2]].addr \in below
    OBVIOUS
  <2>2. PICK l \in 1 .. 3 : k \in LinkedFrom(T[l])
    BY <1>3
  <2>3. mem[k[1]][k[2]].addr \in T[l - 1]
    BY <1>2, <2>2
  <2>4. l - 1 = 0 \/ l - 1 = 1 \/ l - 1 = 2
    OBVIOUS
  <2>. QED
    BY <2>3, <2>4
<1>5. ASSUME NEW j \in links, NEW k \in links, f[j] = f[k]
      PROVE  j = k
  <2>1. PICK a \in 1 .. 3 : j \in LinkedFrom(T[a])
    BY <1>3
  <2>2. PICK b \in 1 .. 3 : k \in LinkedFrom(T[b])
    BY <1>3
  <2>3. mem[j[1]][j[2]].addr = mem[k[1]][k[2]].addr
    BY <1>5
  <2>4. a - 1 = b - 1 /\ a = b
    <3>1. a - 1 \in 0 .. 3 /\ b - 1 \in 0 .. 3
      OBVIOUS
    <3>. QED
      BY <1>1, <1>2, <2>1, <2>2, <2>3, <3>1
  <2>5. j[1] = k[1] /\ j[2] = k[2]
    <3>1. /\ j[1] \in T[a] /\ j[2] \in Slots /\ Link(mem, j[1], j[2])
          /\ k[1] \in T[a] /\ k[2] \in Slots /\ Link(mem, k[1], k[2])
      BY <1>2, <2>1, <2>2, <2>4
    <3>. QED
      BY <2>3, <3>1 DEF Tree, HangOnce
  <2>. QED
    BY <1>2, <2>1, <2>2, <2>5
<1>6. ASSUME NEW c \in below
      PROVE  \E k \in links : f[k] = c
  <2>1. PICK l \in 1 .. 3 : c \in T[l - 1]
    <3>1. 1 - 1 = 0 /\ 2 - 1 = 1 /\ 3 - 1 = 2 /\ 1 \in 1 .. 3 /\ 2 \in 1 .. 3 /\ 3 \in 1 .. 3
      OBVIOUS
    <3>. QED
      BY <3>1
  <2>2. c \in Targets(LinkedFrom(T[l]))
    BY <2>1, LinksOfLevel
  <2>3. PICK k \in LinkedFrom(T[l]) : c = mem[k[1]][k[2]].addr
    BY <2>2 DEF Targets
  <2>4. k \in links
    <3>1. l = 1 \/ l = 2 \/ l = 3
      OBVIOUS
    <3>. QED
      BY <3>1
  <2>. QED
    BY <2>3, <2>4
<1>. HIDE DEF f, links, below
<1>7. f \in Bijection(links, below)
  BY <1>4, <1>5, <1>6, Fun_IsBij
<1>8. ExistsBijection(below, links)
  <2>1. ExistsBijection(links, below)
    BY <1>7, Fun_ExistsBij
  <2>. QED
    BY <2>1, Fun_ExistsBijSymmetric
<1>9. IsFiniteSet(below)
  <2>1. below \subseteq Frames
    BY <1>1 DEF below
  <2>. QED
    BY <2>1, FramesAreFinite
<1>10. Cardinality(links) = Cardinality(below)
  BY <1>8, <1>9, FS_Bijection
<1>11. cr3 \notin below
  BY <1>1 DEF below
<1>12. Tables(T) = below \cup {cr3}
  BY <1>1 DEF Tables, below
<1>13. Cardinality(Tables(T)) = Cardinality(below) + 1
  BY <1>9, <1>11, <1>12, FS_AddElement
<1>14. Cardinality(below) \in Nat
  BY <1>9, FS_CardinalityType
<1>. QED
  BY <1>10, <1>13, <1>14 DEF links

LEMMA InvFramesDisjoint == MemoryInv => FramesDisjoint
<1>. SUFFICES ASSUME MemoryInv, cr3 # None PROVE FramesDisjoint
  BY DEF FramesDisjoint
<1>. DEFINE l3     == LinkedFrom({cr3})
            l2     == LinkedFrom(Targets(l3))
            l1     == LinkedFrom(Targets(l2))
            tables == {cr3} \cup Targets(l3 \cup l2 \cup l1)
            held   == {owner[p] : p \in Pages} \ {None}
            leaves == Targets(LinkedFrom(Targets(l1)))
<1>1. PICK T : WellKept(mem, cr3, T, owner) /\ Parted(FramesAtInit(firmware), free, T, owner)
  BY DEF MemoryInv, Kept
<1>2. Tree(mem, cr3, T) /\ Leaves(mem, cr3, T) /\ Owners(mem, cr3, owner)
  BY <1>1 DEF WellKept
<1>3. T[3] = {cr3}
  BY <1>2 DEF Tree, LevelsApart
<1>4. /\ Targets(LinkedFrom(T[3])) = T[2] /\ Targets(LinkedFrom(T[2])) = T[1]
      /\ Targets(LinkedFrom(T[1])) = T[0]
  <2>1. 3 - 1 = 2 /\ 2 - 1 = 1 /\ 1 - 1 = 0 /\ 1 \in 1 .. 3 /\ 2 \in 1 .. 3 /\ 3 \in 1 .. 3
    OBVIOUS
  <2>. QED
    BY <1>2, <2>1, LinksOfLevel
<1>5. l3 = LinkedFrom(T[3]) /\ l2 = LinkedFrom(T[2]) /\ l1 = LinkedFrom(T[1])
  BY <1>3, <1>4
<1>6. Targets(l1) = T[0]
  BY <1>4, <1>5
<1>. HIDE DEF l3, l2, l1
<1>7. Targets(l3 \cup l2 \cup l1) = T[2] \cup T[1] \cup T[0]
  <2>1. Targets(l3 \cup l2 \cup l1) = Targets(l3) \cup Targets(l2) \cup Targets(l1)
    BY DEF Targets
  <2>. QED
    BY <1>4, <1>5, <2>1
<1>8. tables = Tables(T)
  BY <1>3, <1>7 DEF Tables
<1>9. Cardinality(tables) = 1 + Cardinality(l3 \cup l2 \cup l1)
  BY <1>2, <1>5, <1>8, TablesCounted
<1>10. held = Held(owner)
  BY DEF Held
<1>11. leaves \subseteq held
  <2>1. SUFFICES ASSUME NEW f \in leaves PROVE f \in held
    OBVIOUS
  <2>2. PICK k \in LinkedFrom(T[0]) : f = mem[k[1]][k[2]].addr
    BY <1>6 DEF Targets
  <2>3. k[1] \in T[0] /\ k[2] \in Slots /\ mem[k[1]][k[2]].present
    BY <2>2 DEF LinkedFrom
  <2>4. PICK p \in Pages : /\ Mapped(mem, cr3, p)
                           /\ TableOf(mem, cr3, p, 0) = k[1] /\ TableIndex(p, 0) = k[2]
    BY <1>2, <2>3 DEF Leaves
  <2>5. EntryOf(mem, cr3, p, 0) = mem[k[1]][k[2]]
    BY <2>4, PathSteps
  <2>6. owner[p] # None /\ f = owner[p]
    BY <1>2, <2>2, <2>4, <2>5 DEF Owners
  <2>. QED
    BY <2>6
<1>12. {t.frame : t \in tlb} \subseteq held
  <2>1. SUFFICES ASSUME NEW t \in tlb PROVE t.frame \in held
    OBVIOUS
  <2>2. /\ t.page \in Pages /\ Mapped(mem, cr3, t.page)
        /\ t = Translation(t.page, owner[t.page])
    BY DEF MemoryInv, Cached
  <2>3. owner[t.page] # None
    BY <2>2, MappedIsOwned
  <2>4. t.frame = owner[t.page]
    BY <2>2 DEF Translation
  <2>. QED
    BY <2>2, <2>3, <2>4
<1>13. \A p, q \in Pages : owner[p] = owner[q] /\ owner[p] # None => p = q
  BY DEF MemoryInv
<1>14. /\ free \cap (tables \cup held) = {} /\ tables \cap held = {}
       /\ free \cup tables \cup held = FramesAtInit(firmware)
  BY <1>1, <1>8, <1>10 DEF Parted
<1>. HIDE DEF tables, held, leaves
<1>15. leaves \cup {t.frame : t \in tlb} \subseteq held
  BY <1>11, <1>12
<1>. QED
  BY <1>9, <1>13, <1>14, <1>15, Zenon DEF FramesDisjoint, l3, l2, l1, tables, held, leaves

-----------------------------------------------------------------------------
(* The range check.                                                        *)

LEMMA QuoBelow ==
  ASSUME NEW x \in Nat, NEW k \in Nat, NEW d \in Nat \ {0}
  PROVE  Quo(x, d) < k <=> x < k * d
<1>. DEFINE q == Quo(x, d)
            r == Rem(x, d)
<1>1. q \in Nat /\ r \in 0 .. d - 1 /\ x = q * d + r
  BY Division
<1>. HIDE DEF q, r
<1>2. ASSUME q < k PROVE x < k * d
  <2>1. (k - q - 1) * d >= 0
    BY <1>1, <1>2
  <2>2. (k - q - 1) * d = k * d - q * d - d
    BY <1>1
  <2>3. k * d \in Int /\ q * d \in Int
    BY <1>1
  <2>. QED
    BY <1>1, <2>1, <2>2, <2>3
<1>3. ASSUME ~ (q < k) PROVE ~ (x < k * d)
  <2>1. (q - k) * d >= 0
    BY <1>1, <1>3
  <2>2. (q - k) * d = q * d - k * d
    BY <1>1
  <2>3. k * d \in Int /\ q * d \in Int
    BY <1>1
  <2>. QED
    BY <1>1, <2>1, <2>2, <2>3
<1>. QED
  BY <1>2, <1>3 DEF q

\* The pages a range of bytes touches are those from the first byte's to the last byte's.
LEMMA PagesTouched ==
  ASSUME NEW a \in Nat, NEW b \in Nat, a <= b, NEW d \in Nat \ {0}
  PROVE  {Quo(x, d) : x \in a .. b} = Quo(a, d) .. Quo(b, d)
<1>1. \A x \in Nat : Quo(x, d) \in Nat
  BY Division
<1>2. \A x \in Nat : x < (Quo(x, d) + 1) * d
  BY <1>1, QuoBelow
<1>3. \A x, y \in Nat : x <= y => Quo(x, d) <= Quo(y, d)
  <2>1. SUFFICES ASSUME NEW x \in Nat, NEW y \in Nat, x <= y
                 PROVE  Quo(x, d) <= Quo(y, d)
    OBVIOUS
  <2>. DEFINE k == Quo(y, d) + 1
              e == k * d
  <2>2. k \in Nat /\ y < e /\ e \in Nat
    BY <1>1, <1>2
  <2>3. Quo(x, d) < k <=> x < e
    BY <2>2, QuoBelow
  <2>. HIDE DEF e
  <2>4. Quo(x, d) < k
    BY <2>1, <2>2, <2>3
  <2>. QED
    BY <1>1, <2>4
<1>4. ASSUME NEW x \in a .. b PROVE Quo(x, d) \in Quo(a, d) .. Quo(b, d)
  BY <1>1, <1>3
<1>5. ASSUME NEW p \in Quo(a, d) .. Quo(b, d) PROVE \E x \in a .. b : Quo(x, d) = p
  <2>. DEFINE x == p * d
  <2>1. p \in Nat /\ Quo(a, d) <= p /\ p <= Quo(b, d)
    BY <1>1
  <2>2. CASE p = Quo(a, d)
    BY <2>2
  <2>3. CASE p # Quo(a, d)
    <3>1. x \in Nat /\ x = p * d + 0
      BY <2>1
    <3>2. Quo(x, d) = p
      BY <2>1, <3>1, Quotient
    <3>3. Quo(a, d) < p <=> a < p * d
      BY <2>1, QuoBelow
    <3>4. Quo(b, d) < p <=> b < p * d
      BY <2>1, QuoBelow
    <3>. HIDE DEF x
    <3>5. a < x /\ x <= b
      <4>1. p * d = x
        BY DEF x
      <4>. QED
        BY <1>1, <2>1, <2>3, <3>1, <3>3, <3>4, <4>1
    <3>. QED
      BY <3>1, <3>2, <3>5
  <2>. QED
    BY <2>2, <2>3
<1>. QED
  BY <1>4, <1>5

\* user_range_ok's walk and the CPU's agree on every page.
LEMMA SeenIsAccess ==
  ASSUME MemoryInv, cr3 # None, NEW p
  PROVE  (\E t \in Seen(p) : t.user) <=> PageUserAccessible(cr3, p)
<1>. DEFINE path == PathTo(mem, cr3, p)
            leaf == Governing(path)
            here == \A level \in leaf .. 3 : path[level].present
            user == \A level \in leaf .. 3 : path[level].user
            r    == [page |-> p, frame |-> path[leaf].addr + (p % Span(leaf)), user |-> user]
<1>1. Seen(p) = Walk(mem, cr3, p)
  <2>1. CASE \E t \in tlb : t.page = p
    <3>1. PICK t \in tlb : t.page = p
      BY <2>1
    <3>2. \A s \in tlb : s.page = p => p \in Pages /\ Mapped(mem, cr3, p)
                                       /\ s = Translation(p, owner[p])
      BY DEF MemoryInv, Cached
    <3>3. Walk(mem, cr3, p) = {Translation(p, owner[p])}
      BY <3>1, <3>2, WalkInv
    <3>4. {s \in tlb : s.page = p} = {Translation(p, owner[p])}
      BY <3>1, <3>2
    <3>. QED
      BY <2>1, <3>3, <3>4 DEF Seen
  <2>2. CASE ~ \E t \in tlb : t.page = p
    BY <2>2, Zenon DEF Seen
  <2>. QED
    BY <2>1, <2>2
<1>2. PageUserAccessible(cr3, p) <=> here /\ user
  BY DEF PageUserAccessible
<1>3. Walk(mem, cr3, p) = IF here THEN {r} ELSE {}
  BY Zenon DEF Walk
<1>4. r.user = user
  OBVIOUS
<1>. HIDE DEF here, user, r
<1>5. CASE here
  <2>1. Walk(mem, cr3, p) = {r}
    BY <1>3, <1>5, Zenon
  <2>2. (\E t \in Walk(mem, cr3, p) : t.user) <=> r.user
    BY <2>1, Zenon
  <2>. QED
    BY <1>1, <1>2, <1>4, <1>5, <2>2, Zenon
<1>6. CASE ~here
  <2>1. Walk(mem, cr3, p) = {}
    BY <1>3, <1>6, Zenon
  <2>. QED
    BY <1>1, <1>2, <1>6, <2>1
<1>. QED
  BY <1>5, <1>6

LEMMA Addresses ==
  /\ PageSize \in Nat \ {0} /\ UserAddrLimit \in Nat \ {0} /\ AddrLimit = 4 * UserAddrLimit
  /\ UserAddrLimit = (Span(4) \div 2) * PageSize /\ Span(4) \div 2 \in Nat
  /\ \A a \in ProbedAddresses : a \in Nat
<1>1. PageSize \in Nat \ {0} /\ Fanout \in Nat \ {0, 1}
  BY MemoryAssumption
<1>. DEFINE half == Span(4) \div 2
<1>2. half \in Nat \ {0}
  <2>. DEFINE s == Span(3)
              u == Span(4)
  <2>1. s \in Nat \ {0} /\ u = s * Fanout
    BY Spans
  <2>. HIDE DEF s
  <2>2. u \in Nat /\ u >= 2
    <3>1. (s - 1) * Fanout >= 0
      BY <1>1, <2>1
    <3>2. (s - 1) * Fanout = s * Fanout - Fanout
      BY <1>1, <2>1
    <3>3. s * Fanout \in Nat
      BY <1>1, <2>1
    <3>. QED
      BY <1>1, <2>1, <3>1, <3>2, <3>3
  <2>. HIDE DEF u
  <2>3. u \div 2 \in Nat \ {0}
    BY <2>2
  <2>. QED
    BY <2>3 DEF u
<1>. HIDE DEF half
<1>3. UserAddrLimit = half * PageSize
  BY DEF UserAddrLimit, half
<1>4. UserAddrLimit \in Nat \ {0}
  BY <1>1, <1>2, <1>3
<1>5. AddrLimit = 4 * UserAddrLimit
  BY DEF AddrLimit
<1>6. \A p \in Pages : p * PageSize \in Nat \ {0}
  <2>1. \A p \in Pages : p \in Nat \ {0}
    BY PagesAreNumbers, Spans
  <2>. QED
    BY <1>1, <2>1
<1>7. ASSUME NEW a \in ProbedAddresses PROVE a \in Nat
  <2>. DEFINE middles == {1, UserAddrLimit, AddrLimit - 2} \cup {p * PageSize : p \in Pages}
                         \cup {2 * UserAddrLimit + p * PageSize : p \in UserPages}
  <2>1. PICK at \in middles : a \in at - 1 .. at + 1
    BY DEF ProbedAddresses
  <2>2. at \in Nat \ {0}
    <3>1. UserPages \subseteq Pages
      BY DEF Pages
    <3>. QED
      BY <1>4, <1>5, <1>6, <3>1
  <2>. QED
    BY <2>1, <2>2
<1>. QED
  BY <1>1, <1>2, <1>3, <1>4, <1>5, <1>7 DEF half

\* What ring 3 can read: a page of the low half that it can see, a range of such pages.
OpenPage(p) == p * PageSize < UserAddrLimit /\ \E t \in Seen(p) : t.user
Readable(uaddr, len) == \A b \in uaddr .. uaddr + len - 1 : OpenPage(b \div PageSize)

\* The check is right about every range of bytes.
EveryRangeExact ==
  cr3 # None => \A uaddr, len \in Nat : UserRangeOk(uaddr, len) <=> Readable(uaddr, len)

\* Of any range, wherever it starts and however long it is.
LEMMA RangeIsReadable ==
  ASSUME MemoryInv, cr3 # None, NEW uaddr \in Nat, NEW len \in Nat
  PROVE  UserRangeOk(uaddr, len) <=> Readable(uaddr, len)
<1>. DEFINE d     == PageSize
            last  == uaddr + len - 1
            limit == UserAddrLimit
            ok(p) == PageUserAccessible(cr3, p)
            pages == {Quo(b, d) : b \in uaddr .. last}
<1>2. /\ d \in Nat \ {0} /\ limit \in Nat \ {0} /\ AddrLimit = 4 * limit
  BY Addresses
<1>3. Readable(uaddr, len) <=> \A q \in pages : q * d < limit /\ ok(q)
  <2>1. \A q : OpenPage(q) <=> q * d < limit /\ ok(q)
    BY SeenIsAccess DEF OpenPage
  <2>. HIDE DEF ok
  <2>2. Readable(uaddr, len) <=> \A b \in uaddr .. last : OpenPage(Quo(b, d))
    BY DEF Readable, Quo
  <2>. QED
    BY <2>1, <2>2
<1>5. UserRangeOk(uaddr, len) <=>
        \/ len = 0
        \/ /\ uaddr + len < AddrLimit /\ uaddr + len <= limit
           /\ \A p \in Quo(uaddr, d) .. Quo(last, d) : ok(p)
  BY DEF UserRangeOk, Quo
<1>. HIDE DEF ok
<1>7. CASE len = 0
  <2>1. pages = {}
    BY <1>2, <1>7
  <2>. QED
    BY <1>3, <1>5, <1>7, <2>1
<1>8. CASE len # 0
  <2>1. last \in Nat /\ uaddr <= last
    BY <1>2, <1>8
  <2>2. pages = Quo(uaddr, d) .. Quo(last, d)
    BY <1>2, <2>1, PagesTouched
  <2>3. /\ Quo(uaddr, d) \in Nat /\ Quo(last, d) \in Nat /\ Quo(last, d) \in pages
        /\ \A p \in pages : p \in Nat /\ p <= Quo(last, d)
    <3>1. Quo(uaddr, d) \in Nat /\ Quo(last, d) \in Nat
      BY <1>2, <2>1, Division
    <3>2. Quo(last, d) \in pages
      <4>1. last \in uaddr .. last
        BY <2>1
      <4>. HIDE DEF last
      <4>. QED
        BY <4>1
    <3>. HIDE DEF pages, last
    <3>3. \A p \in pages : p \in Nat /\ p <= Quo(last, d)
      BY <2>2, <3>1
    <3>. QED
      BY <3>1, <3>2, <3>3
  <2>4. uaddr + len <= limit <=> Quo(last, d) * d < limit
    <3>. DEFINE half == Span(4) \div 2
                q    == Quo(last, d)
    <3>1. half \in Nat /\ limit = half * d
      BY Addresses
    <3>. HIDE DEF half, d
    <3>2. q < half <=> last < half * d
      BY <1>2, <2>1, <3>1, QuoBelow
    <3>3. q * d \in Nat /\ Quo(q * d, d) = q
      <4>1. q * d \in Nat /\ q * d = q * d + 0 /\ 0 \in 0 .. d - 1
        BY <1>2, <2>3
      <4>. QED
        BY <1>2, <2>3, <4>1, Quotient
    <3>4. Quo(q * d, d) < half <=> q * d < half * d
      BY <1>2, <3>1, <3>3, QuoBelow
    <3>5. last < limit <=> uaddr + len <= limit
      BY <1>2
    <3>. QED
      BY <3>1, <3>2, <3>3, <3>4, <3>5
  <2>5. \A p \in pages : Quo(last, d) * d < limit => p * d < limit
    <3>1. SUFFICES ASSUME NEW p \in pages, Quo(last, d) * d < limit
                   PROVE  p * d < limit
      OBVIOUS
    <3>. DEFINE q == Quo(last, d)
    <3>2. q \in Nat /\ p \in Nat /\ p <= q
      BY <2>3
    <3>. HIDE DEF q, d, limit
    <3>3. (q - p) * d >= 0
      BY <1>2, <3>2
    <3>4. (q - p) * d = q * d - p * d /\ q * d \in Nat /\ p * d \in Nat
      BY <1>2, <3>2
    <3>. QED
      BY <1>2, <3>1, <3>3, <3>4 DEF q
  <2>6. uaddr + len <= limit => uaddr + len < AddrLimit
    BY <1>2
  <2>. HIDE DEF pages, d, limit, last
  <2>7. UserRangeOk(uaddr, len) <=> Quo(last, d) * d < limit /\ \A p \in pages : ok(p)
    BY <1>5, <1>8, <2>2, <2>4, <2>6
  <2>. QED
    BY <1>3, <2>3, <2>5, <2>7
<1>. QED
  BY <1>7, <1>8

\* The bytes RangeCheckExact asks about, and the pages it calls open.
Bytes == {a + n : a \in ProbedAddresses, n \in 0 .. PageSize + 1}
Open == {p \in {b \div PageSize : b \in Bytes} :
           p * PageSize < UserAddrLimit /\ \E t \in Seen(p) : t.user}

LEMMA InvEveryRangeExact == MemoryInv => EveryRangeExact
BY RangeIsReadable DEF EveryRangeExact

LEMMA InvRangeCheckExact == MemoryInv => RangeCheckExact
<1>. SUFFICES ASSUME MemoryInv, cr3 # None, NEW uaddr \in ProbedAddresses,
                     NEW len \in 0 .. PageSize + 2
              PROVE  UserRangeOk(uaddr, len)
                       <=> {b \div PageSize : b \in uaddr .. uaddr + len - 1} \subseteq Open
  BY DEF RangeCheckExact, Open, Bytes
<1>1. uaddr \in Nat /\ len \in Nat /\ PageSize \in Nat
  BY Addresses
<1>2. \A b \in uaddr .. uaddr + len - 1 : b \in Bytes
  <2>1. SUFFICES ASSUME NEW b \in uaddr .. uaddr + len - 1 PROVE b \in Bytes
    OBVIOUS
  <2>2. b = uaddr + (b - uaddr) /\ b - uaddr \in 0 .. PageSize + 1
    BY <1>1
  <2>. QED
    BY <2>2 DEF Bytes
<1>3. \A b \in uaddr .. uaddr + len - 1 : b \div PageSize \in Open <=> OpenPage(b \div PageSize)
  BY <1>2 DEF Open, OpenPage
<1>4. UserRangeOk(uaddr, len) <=> Readable(uaddr, len)
  BY <1>1, RangeIsReadable
<1>. HIDE DEF Open
<1>. QED
  BY <1>3, <1>4 DEF Readable


-----------------------------------------------------------------------------
(* The refinement of AddressSpace.                                         *)

Space == IF cr3 = None THEN {} ELSE UNION {Seen(p) : p \in Pages}
Owned == {<<p, owner[p]>> : p \in {q \in Pages : owner[q] # None}}

\* The mappings in the tables.
Mappings == {Translation(p, owner[p]) : p \in {q \in Pages : Mapped(mem, cr3, q)}}

\* What the callers see is what the tables map.
SpaceShown == Space = IF cr3 = None THEN {} ELSE Mappings

LEMMA SpaceIs == MemoryInv => Space = IF cr3 = None THEN {} ELSE Mappings
<1>. SUFFICES ASSUME MemoryInv, cr3 # None PROVE Space = Mappings
  BY DEF Space
<1>1. ASSUME NEW p \in Pages
      PROVE  Seen(p) = IF Mapped(mem, cr3, p) THEN {Translation(p, owner[p])} ELSE {}
  <2>1. \A t \in tlb : t.page = p => Mapped(mem, cr3, p) /\ t = Translation(p, owner[p])
    BY DEF MemoryInv, Cached
  <2>2. CASE \E t \in tlb : t.page = p
    <3>1. Mapped(mem, cr3, p) /\ {t \in tlb : t.page = p} = {Translation(p, owner[p])}
      BY <2>1, <2>2
    <3>. QED
      BY <2>2, <3>1 DEF Seen
  <2>3. CASE ~ \E t \in tlb : t.page = p
    <3>1. Seen(p) = Walk(mem, cr3, p)
      BY <2>3, Zenon DEF Seen
    <3>. QED
      BY <3>1, WalkInv
  <2>. QED
    BY <2>2, <2>3
<1>2. Space = UNION {Seen(p) : p \in Pages}
  BY DEF Space
<1>. QED
  BY <1>1, <1>2 DEF Mappings

LEMMA SpaceIsNext == MemoryInv' => Space' = IF cr3' = None THEN {} ELSE Mappings'
<1>1. MemoryInv => SpaceShown
  BY SpaceIs DEF SpaceShown
<1>2. MemoryInv' => SpaceShown'
  BY <1>1, PTL
<1>. QED
  BY <1>2 DEF SpaceShown

NothingOwned == \A p \in Pages : owner[p] = None
NothingMapped == cr3 # None => Mappings = {}

LEMMA NoMappings == MemoryInv /\ NothingOwned => NothingMapped
BY MappedIsOwned DEF NothingOwned, NothingMapped, Mappings

LEMMA NoMappingsNext == MemoryInv' /\ NothingOwned' => NothingMapped'
BY NoMappings, PTL

LEMMA TranslationOf ==
  \A p, f : /\ Translation(p, f).page = p /\ Translation(p, f).frame = f
BY DEF Translation

\* The steps that show nothing.
LEMMA SilentSteps ==
  ASSUME MemoryInv, MemoryInv',
         UNCHANGED vars \/ PagingInit \/ \E p \in Pages : Fill(p)
  PROVE  Space' = Space /\ Owned' = Owned
<1>1. Space = (IF cr3 = None THEN {} ELSE Mappings)
      /\ Space' = (IF cr3' = None THEN {} ELSE Mappings')
  BY SpaceIs, SpaceIsNext
<1>2. CASE UNCHANGED vars
  <2>1. mem' = mem /\ cr3' = cr3 /\ owner' = owner
    BY <1>2 DEF vars
  <2>. QED
    BY <1>1, <2>1 DEF Mappings, Owned
<1>3. CASE PagingInit
  <2>1. cr3 = None /\ owner' = owner /\ \A p \in Pages : owner[p] = None
    BY <1>3 DEF PagingInit, MemoryInv
  <2>2. Space = {} /\ Space' = {}
    BY <1>1, <2>1, NoMappingsNext DEF NothingOwned, NothingMapped
  <2>. QED
    BY <2>1, <2>2 DEF Owned
<1>4. CASE \E p \in Pages : Fill(p)
  <2>1. mem' = mem /\ cr3' = cr3 /\ owner' = owner
    BY <1>4 DEF Fill
  <2>. QED
    BY <1>1, <2>1 DEF Mappings, Owned
<1>. QED
  BY <1>2, <1>3, <1>4

LEMMA AllocImplements ==
  ASSUME MemoryInv, MemoryInv', NEW p \in Pages, Alloc(p), ~panicked
  PROVE  \/ Space' = Space /\ Owned' = Owned
         \/ \E f \in Frames :
              /\ \A o \in Owned : o[1] # p /\ o[2] # f
              /\ Owned' = Owned \cup {<<p, f>>} /\ Space' = Space
              /\ \A t \in Space : t.frame # f
<1>1. cr3 # None /\ cr3' = cr3 /\ owner[p] = None
  BY DEF Alloc
<1>2. Space = Mappings /\ Space' = Mappings'
  BY <1>1, SpaceIs, SpaceIsNext
<1>3. \A q \in Pages : Mapped(mem', cr3', q) <=> Mapped(mem, cr3, q)
  BY AllocKeeps
<1>4. \A q \in Pages : Mapped(mem, cr3, q) => owner[q] # None
  BY <1>1, MappedIsOwned
<1>5. CASE UNCHANGED owner
  BY <1>2, <1>3, <1>5 DEF Mappings, Owned
<1>6. ASSUME NEW f \in free, owner' = [owner EXCEPT ![p] = f], f \notin Held(owner)
      PROVE  /\ \A o \in Owned : o[1] # p /\ o[2] # f
             /\ Owned' = Owned \cup {<<p, f>>} /\ Space' = Space
             /\ \A t \in Space : t.frame # f
             /\ f \in Frames
  <2>1. f \in Frames /\ f # None /\ owner \in [Pages -> Frames \cup {None}]
    BY FramesAreNot DEF MemoryInv
  <2>2. owner'[p] = f /\ \A q \in Pages \ {p} : owner'[q] = owner[q]
    BY <1>6, <2>1
  <2>3. \A q \in Pages : owner[q] # None => owner[q] # f
    BY <1>6 DEF Held
  <2>4. \A o \in Owned : o[1] # p /\ o[2] # f
    BY <1>1, <2>3 DEF Owned
  <2>5. Owned' = Owned \cup {<<p, f>>}
    BY <1>1, <2>1, <2>2 DEF Owned
  <2>6. \A q \in Pages : Mapped(mem, cr3, q) => owner'[q] = owner[q]
    BY <1>1, <1>4, <2>2
  <2>7. Space' = Space
    BY <1>2, <1>3, <2>6 DEF Mappings
  <2>8. \A t \in Space : t.frame # f
    BY <1>2, <1>4, <2>3, TranslationOf DEF Mappings
  <2>. QED
    BY <2>1, <2>4, <2>5, <2>7, <2>8
<1>. QED
  BY <1>5, <1>6, AllocKeeps

LEMMA MapImplements ==
  ASSUME MemoryInv, MemoryInv', NEW p \in Pages, Map(p), ~panicked
  PROVE  \/ Space' = Space /\ Owned' = Owned
         \/ \E f \in Frames :
              /\ <<p, f>> \in Owned /\ Owned' = Owned /\ ~ \E t \in Space : t.page = p
              /\ Space' = Space \cup {[page |-> p, frame |-> f, user |-> p \in UserPages]}
<1>1. cr3 # None /\ cr3' = cr3 /\ owner[p] # None /\ owner' = owner /\ Walk(mem, cr3, p) = {}
  BY DEF Map
<1>2. Space = Mappings /\ Space' = Mappings'
  BY <1>1, SpaceIs, SpaceIsNext
<1>3. Owned' = Owned
  BY <1>1 DEF Owned
<1>4. ~Mapped(mem, cr3, p)
  BY <1>1, Guards
<1>5. CASE panicked'
  <2>1. \A q \in Pages : Mapped(mem', cr3', q) <=> Mapped(mem, cr3, q)
    BY <1>5, MapKeeps
  <2>. QED
    BY <1>1, <1>2, <1>3, <2>1 DEF Mappings
<1>6. CASE ~panicked'
  <2>. DEFINE f == owner[p]
  <2>1. \A q \in Pages : Mapped(mem', cr3', q) <=> Mapped(mem, cr3, q) \/ q = p
    BY <1>6, MapKeeps
  <2>2. f \in Frames /\ <<p, f>> \in Owned
    BY <1>1 DEF MemoryInv, Owned
  <2>3. ~ \E t \in Space : t.page = p
    BY <1>2, <1>4, TranslationOf DEF Mappings
  <2>4. Space' = Space \cup {Translation(p, f)}
    BY <1>1, <1>2, <2>1 DEF Mappings
  <2>. QED
    BY <1>3, <2>2, <2>3, <2>4 DEF Translation
<1>. QED
  BY <1>5, <1>6

LEMMA UnmapImplements ==
  ASSUME MemoryInv, MemoryInv', NEW p \in Pages, Unmap(p), ~panicked
  PROVE  /\ Owned' = Owned /\ \E t \in Space : t.page = p
         /\ Space' = {t \in Space : t.page # p}
<1>1. cr3 # None /\ cr3' = cr3 /\ owner' = owner /\ Walk(mem, cr3, p) # {}
  BY DEF Unmap
<1>2. Space = Mappings /\ Space' = Mappings'
  BY <1>1, SpaceIs, SpaceIsNext
<1>3. Owned' = Owned
  BY <1>1 DEF Owned
<1>4. Mapped(mem, cr3, p)
  BY <1>1, Guards
<1>5. \A q \in Pages : Mapped(mem', cr3', q) <=> Mapped(mem, cr3, q) /\ q # p
  BY UnmapKeeps
<1>6. \E t \in Space : t.page = p
  BY <1>2, <1>4, TranslationOf DEF Mappings
<1>7. Space' = {t \in Space : t.page # p}
  BY <1>1, <1>2, <1>5, TranslationOf DEF Mappings
<1>. QED
  BY <1>3, <1>6, <1>7

LEMMA FreeImplements ==
  ASSUME MemoryInv, MemoryInv', NEW p \in Pages, Free(p), ~panicked
  PROVE  \E f \in Frames :
           /\ <<p, f>> \in Owned /\ Owned' = Owned \ {<<p, f>>}
           /\ ~ (\E t \in Space : t.page = p) /\ Space' = Space
<1>1. /\ cr3 # None /\ cr3' = cr3 /\ mem' = mem /\ owner[p] # None
      /\ owner' = [owner EXCEPT ![p] = None] /\ Walk(mem, cr3, p) = {}
  BY DEF Free
<1>2. Space = Mappings /\ Space' = Mappings'
  BY <1>1, SpaceIs, SpaceIsNext
<1>3. ~Mapped(mem, cr3, p)
  BY <1>1, Guards
<1>4. owner \in [Pages -> Frames \cup {None}]
  BY DEF MemoryInv
<1>5. owner'[p] = None /\ \A q \in Pages \ {p} : owner'[q] = owner[q]
  BY <1>1, <1>4
<1>6. owner[p] \in Frames /\ <<p, owner[p]>> \in Owned
  BY <1>1, <1>4 DEF Owned
<1>7. Owned' = Owned \ {<<p, owner[p]>>}
  BY <1>5 DEF Owned
<1>8. ~ \E t \in Space : t.page = p
  BY <1>2, <1>3, TranslationOf DEF Mappings
<1>9. Space' = Space
  BY <1>1, <1>2, <1>3, <1>5 DEF Mappings
<1>. QED
  BY <1>6, <1>7, <1>8, <1>9

LEMMA InitImplements == Init => Promise!Init
<1>. SUFFICES ASSUME Init PROVE Promise!Init
  OBVIOUS
<1>1. Space = {}
  BY DEF Init, Space
<1>2. Owned = {}
  BY DEF Init, Owned
<1>. QED
  BY <1>1, <1>2, Zenon DEF Promise!Init, Space, Owned

LEMMA StepImplements ==
  ASSUME MemoryInv, MemoryInv', [Next]_vars
  PROVE  [Promise!Next]_Promise!vars
<1>1. Promise!vars' = Promise!vars <=> Space' = Space /\ Owned' = Owned
  BY DEF Promise!vars, Space, Owned
<1>2. ASSUME NEW p \in Pages, NEW f \in Frames,
             \A o \in Owned : o[1] # p /\ o[2] # f,
             Owned' = Owned \cup {<<p, f>>}, Space' = Space, \A t \in Space : t.frame # f
      PROVE  Promise!Alloc(p, f)
  BY <1>2, Zenon DEF Promise!Alloc, Space, Owned
<1>3. ASSUME NEW p \in Pages, NEW f \in Frames,
             <<p, f>> \in Owned, Owned' = Owned, ~ \E t \in Space : t.page = p,
             Space' = Space \cup {[page |-> p, frame |-> f, user |-> p \in UserPages]}
      PROVE  Promise!Map(p, f)
  BY <1>3, Zenon DEF Promise!Map, Promise!Mapped, Space, Owned
<1>4. ASSUME NEW p \in Pages, Owned' = Owned, \E t \in Space : t.page = p,
             Space' = {t \in Space : t.page # p}
      PROVE  Promise!Unmap(p)
  BY <1>4, Zenon DEF Promise!Unmap, Promise!Mapped, Space, Owned
<1>5. ASSUME NEW p \in Pages, NEW f \in Frames,
             <<p, f>> \in Owned, Owned' = Owned \ {<<p, f>>},
             ~ (\E t \in Space : t.page = p), Space' = Space
      PROVE  Promise!Free(p, f)
  BY <1>5, Zenon DEF Promise!Free, Promise!Mapped, Space, Owned
<1>6. \A p \in Pages : Promise!Unmap(p) => Promise!Next
  BY Zenon DEF Promise!Next
<1>7. \A p \in Pages, f \in Frames :
        Promise!Alloc(p, f) \/ Promise!Map(p, f) \/ Promise!Free(p, f) => Promise!Next
  BY Zenon DEF Promise!Next
<1>8. CASE UNCHANGED vars \/ PagingInit \/ \E p \in Pages : Fill(p)
  BY <1>1, <1>8, SilentSteps
<1>9. ASSUME NEW p \in Pages, Alloc(p) \/ Map(p) \/ Unmap(p) \/ Free(p), ~panicked
      PROVE  Promise!Next \/ (Space' = Space /\ Owned' = Owned)
  <2>1. CASE Alloc(p)
    BY <1>2, <1>7, <1>9, <2>1, AllocImplements, Zenon
  <2>2. CASE Map(p)
    BY <1>3, <1>7, <1>9, <2>2, MapImplements, Zenon
  <2>3. CASE Unmap(p)
    BY <1>4, <1>6, <1>9, <2>3, UnmapImplements, Zenon
  <2>4. CASE Free(p)
    BY <1>5, <1>7, <1>9, <2>4, FreeImplements, Zenon
  <2>. QED
    BY <1>9, <2>1, <2>2, <2>3, <2>4
<1>. QED
  BY <1>1, <1>8, <1>9, Zenon DEF Next

-----------------------------------------------------------------------------
(* The allocator hands out usable RAM alone.                               *)

\* What the kernel manages never grows beyond what init found.
Managed ==
  /\ firmware \in MemoryMaps
  /\ free \subseteq FramesAtInit(firmware)
  /\ cr3 # None => cr3 \in FramesAtInit(firmware)
  /\ \A p \in Pages : owner[p] # None => owner[p] \in FramesAtInit(firmware)

LEMMA InvManaged == MemoryInv => Managed
<1>. SUFFICES ASSUME MemoryInv PROVE Managed
  OBVIOUS
<1>1. firmware \in MemoryMaps /\ free \subseteq FramesAtInit(firmware)
  BY DEF MemoryInv
<1>2. CASE cr3 = None
  BY <1>1, <1>2 DEF MemoryInv, Managed
<1>3. CASE cr3 # None
  <2>1. PICK T : /\ WellKept(mem, cr3, T, owner)
                 /\ Parted(FramesAtInit(firmware), free, T, owner)
    BY <1>3 DEF MemoryInv, Kept
  <2>2. cr3 \in Tables(T)
    BY <2>1 DEF WellKept, Tree, LevelsApart, Tables
  <2>3. \A p \in Pages : owner[p] # None => owner[p] \in Held(owner)
    BY DEF Held
  <2>. QED
    BY <1>1, <2>1, <2>2, <2>3 DEF Parted, Managed
<1>. QED
  BY <1>2, <1>3

LEMMA InvOnlyUsableRam == MemoryInv => OnlyUsableRam
<1>. SUFFICES ASSUME Managed, NEW f \in FramesAtInit(firmware),
                     NEW byte \in f * PageSize .. (f + 1) * PageSize - 1
              PROVE  /\ byte >= PageSize
                     /\ \E r \in firmware.usable : r[1] <= byte /\ byte < r[2]
                     /\ \A r \in firmware.reserved : byte < r[1] \/ r[2] <= byte
  BY InvManaged DEF OnlyUsableRam, Managed
<1>. DEFINE lo == f * PageSize
            hi == (f + 1) * PageSize
<1>1. f \in Nat /\ PageSize \in Nat /\ lo \in Nat /\ hi \in Nat
  BY MemoryAssumption, FramesAreNumbers DEF Managed
<1>2. /\ \A r \in firmware.usable \cup firmware.reserved : r[1] \in Nat /\ r[2] \in Nat
  BY MemoryAssumption DEF Managed
<1>3. /\ \E r \in firmware.usable : r[1] <= lo /\ hi <= r[2]
      /\ \A r \in firmware.reserved \cup {<<0, PageSize>>} : ~ (r[1] < hi /\ lo < r[2])
  BY DEF FramesAtInit, UsableInside, Reserved
<1>4. byte \in lo .. hi - 1
  OBVIOUS
<1>. HIDE DEF lo, hi
<1>5. byte >= PageSize
  <2>1. ~ (0 < hi /\ lo < PageSize)
    <3>. DEFINE z == <<0, PageSize>>
    <3>1. z \in firmware.reserved \cup {<<0, PageSize>>} /\ z[1] = 0 /\ z[2] = PageSize
      OBVIOUS
    <3>. HIDE DEF z
    <3>. QED
      BY <1>3, <3>1
  <2>2. 0 < hi
    BY <1>1, <1>4
  <2>. QED
    BY <1>1, <1>4, <2>1, <2>2
<1>. QED
  BY <1>1, <1>2, <1>3, <1>4, <1>5

-----------------------------------------------------------------------------
(* The theorems.                                                           *)

\* The bitmap, the tables and the callers' frames keep their types, the cache names a page
\* once, and an .expect() fails only when no frame is left
\* (frame_allocator.rs:129-262; paging.rs:275-461).
THEOREM MemoryTypeOK == Spec => []TypeOK
BY InvTypeOK, Invariance, PTL

\* A frame is free, a page table in its one place, or one caller's: no mapping and no
\* cached translation leads to a table or to a frame that was given back, and none is lost
\* (frame_allocator.rs:198-262; paging.rs:275-279, 307-461).
THEOREM MemoryFramesDisjoint == Spec => []FramesDisjoint
BY InvFramesDisjoint, Invariance, PTL

\* user_range_ok accepts a range exactly if ring 3 could read every byte of it, after
\* whatever the callers mapped, opened and unmapped (paging.rs:186-247).
THEOREM MemoryRangeCheckExact == Spec => []RangeCheckExact
BY InvRangeCheckExact, Invariance, PTL

\* The same of every range, wherever it starts and however many pages it spans; TLC asks
\* about those around the page boundaries and limits alone (paging.rs:186-247).
THEOREM MemoryEveryRangeExact == Spec => []EveryRangeExact
BY InvEveryRangeExact, Invariance, PTL

\* Page tables, bitmap and cache implement the address space their callers rely on: each
\* call changes its own page and nothing else, or nothing at all (paging.rs:275-461).
THEOREM MemoryImplementsAddressSpace == Spec => AddressSpaceKept
<1>1. MemoryInv /\ MemoryInv' /\ [Next]_vars => [Promise!Next]_Promise!vars
  BY StepImplements
<1>. QED
  BY InitImplements, Invariance, <1>1, PTL DEF Spec, AddressSpaceKept, Promise!Spec

\* No byte the allocator gave out is outside the RAM that GRUB called usable, whatever was
\* allocated, mapped, freed or left behind by a mapping that failed
\* (frame_allocator.rs:129-262; paging.rs:275-279, 416-461).
THEOREM MemoryOnlyUsableRam == Spec => []OnlyUsableRam
BY InvOnlyUsableRam, Invariance, PTL
=============================================================================
