----------------------------- MODULE HeapProofs ------------------------------
(***************************************************************************)
(* TLAPS proofs about Heap, for every heap size, node size and set of      *)
(* layouts: blocks and regions never overlap, whatever is allocated and    *)
(* freed in whatever order.                                                *)
(***************************************************************************)
EXTENDS Heap, SequenceTheorems, FiniteSetTheorems, WellFoundedInduction, TLAPS

-----------------------------------------------------------------------------
(* Numbers.                                                                *)

LEMMA Division ==
  ASSUME NEW x \in Int, NEW a \in Int, a > 0
  PROVE  /\ x \div a \in Int /\ x % a \in 0 .. a - 1
         /\ x = a * (x \div a) + (x % a)
OBVIOUS

LEMMA Multiple ==
  ASSUME NEW a \in Int, a > 0, NEW q \in Int
  PROVE  (a * q) % a = 0
OBVIOUS

LEMMA Quotient ==
  ASSUME NEW a \in Int, a > 0, NEW x \in Int, x % a = 0
  PROVE  \E q \in Int : x = a * q
BY Division

LEMMA Distributes ==
  ASSUME NEW a \in Int, NEW p \in Int, NEW q \in Int
  PROVE  a * p + a * q = a * (p + q) /\ a * p - a * q = a * (p - q)
OBVIOUS

LEMMA Associates ==
  ASSUME NEW a \in Int, NEW p \in Int, NEW q \in Int
  PROVE  (a * p) * q = a * (p * q) /\ p * q \in Int
OBVIOUS

LEMMA SumDivides ==
  ASSUME NEW a \in Int, a > 0, NEW x \in Int, NEW y \in Int, x % a = 0, y % a = 0
  PROVE  (x + y) % a = 0 /\ (x - y) % a = 0
<1>1. PICK p \in Int : x = a * p
  BY Quotient
<1>2. PICK q \in Int : y = a * q
  BY Quotient
<1>3. x + y = a * (p + q) /\ x - y = a * (p - q)
  BY <1>1, <1>2, Distributes
<1>4. (a * (p + q)) % a = 0 /\ (a * (p - q)) % a = 0
  <2>1. p + q \in Int /\ p - q \in Int
    OBVIOUS
  <2>. QED
    BY <2>1, Multiple
<1>. QED
  BY <1>3, <1>4

LEMMA DividesDivides ==
  ASSUME NEW a \in Int, a > 0, NEW b \in Int, b > 0, NEW x \in Int, x % b = 0, b % a = 0
  PROVE  x % a = 0
<1>1. PICK p \in Int : x = b * p
  BY Quotient
<1>2. PICK q \in Int : b = a * q
  BY Quotient
<1>3. x = a * (q * p) /\ q * p \in Int
  BY <1>1, <1>2, Associates
<1>. QED
  BY <1>3, Multiple

LEMMA NoMultipleBetween ==
  ASSUME NEW a \in Int, a > 0, NEW x \in Int, NEW y \in Int, x % a = 0, y % a = 0,
         x <= y, y < x + a
  PROVE  y = x
<1>1. (y - x) % a = 0
  BY SumDivides
<1>2. y - x \in 0 .. a - 1
  OBVIOUS
<1>. QED
  BY <1>1, <1>2

\* align_up: the first multiple at or behind the address.
LEMMA AlignUpProperties ==
  ASSUME NEW x \in Nat, NEW a \in Nat \ {0}
  PROVE  /\ AlignUp(x, a) \in Nat /\ AlignUp(x, a) % a = 0
         /\ x <= AlignUp(x, a) /\ AlignUp(x, a) < x + a
         /\ x % a = 0 => AlignUp(x, a) = x
<1>. DEFINE q == (x + a - 1) \div a
            r == (x + a - 1) % a
<1>1. q \in Int /\ r \in 0 .. a - 1 /\ x + a - 1 = a * q + r
  BY Division
<1>2. AlignUp(x, a) = q * a /\ q * a = a * q /\ q * a \in Int
  BY <1>1 DEF AlignUp
<1>3. AlignUp(x, a) % a = 0
  BY <1>1, <1>2, Multiple
<1>4. x <= AlignUp(x, a) /\ AlignUp(x, a) < x + a
  BY <1>1, <1>2
<1>5. ASSUME x % a = 0
      PROVE  AlignUp(x, a) = x
  <2>. HIDE DEF q, r
  <2>. QED
    BY <1>2, <1>3, <1>4, <1>5, NoMultipleBetween
<1>. QED
  BY <1>2, <1>3, <1>4, <1>5

\* Sizes and alignments of blocks are those of a node or more, and keep nodes aligned.
LEMMA LayoutProperties ==
  ASSUME NEW l \in Layouts
  PROVE  /\ AlignOf(l) \in Nat \ {0} /\ AlignOf(l) >= NodeAlign
         /\ AlignOf(l) % NodeAlign = 0 /\ AlignOf(l) % l.align = 0
         /\ SizeOf(l) \in Nat /\ SizeOf(l) >= NodeSize /\ SizeOf(l) >= l.size
         /\ SizeOf(l) % NodeAlign = 0
<1>1. /\ AlignOf(l) \in Nat \ {0} /\ AlignOf(l) >= NodeAlign
      /\ AlignOf(l) % NodeAlign = 0 /\ AlignOf(l) % l.align = 0
  BY HeapAssumption DEF AlignOf
<1>. DEFINE padded == AlignUp(l.size, AlignOf(l))
<1>2. padded \in Nat /\ l.size <= padded /\ padded % AlignOf(l) = 0
  BY HeapAssumption, <1>1, AlignUpProperties
<1>3. padded % NodeAlign = 0
  <2>. HIDE DEF padded
  <2>1. /\ NodeAlign \in Int /\ NodeAlign > 0 /\ AlignOf(l) \in Int /\ AlignOf(l) > 0
        /\ padded \in Int
    BY HeapAssumption, <1>1, <1>2
  <2>. QED
    BY <1>1, <1>2, <2>1, DividesDivides, Zenon
<1>4. SizeOf(l) = IF padded < NodeSize THEN NodeSize ELSE padded
  BY DEF SizeOf
<1>. HIDE DEF padded
<1>. QED
  BY HeapAssumption, <1>1, <1>2, <1>3, <1>4

-----------------------------------------------------------------------------
(* The list.                                                               *)

Extent == [addr : Nat, size : Nat]
Block  == [addr : Nat, layout : Layouts]

LEMMA SmallestExists ==
  ASSUME NEW I, I \subseteq Nat, I # {}
  PROVE  \E x \in I : \A y \in I : x <= y
<1>1. PICK x \in I : \A y \in I : ~ (<<y, x>> \in OpToRel(<, Nat))
  BY WFMin, NatLessThanWellFounded
<1>2. \A y \in I : ~ (y < x)
  BY <1>1 DEF OpToRel
<1>. QED
  BY <1>2

\* find_region returns a region that fits.
LEMMA FindRegionFits ==
  ASSUME NEW list \in Seq(Extent), NEW l \in Layouts, FindRegion(list, l) > 0
  PROVE  FindRegion(list, l) \in 1 .. Len(list) /\ Fits(list[FindRegion(list, l)], l)
<1>. DEFINE I == {i \in 1 .. Len(list) : Fits(list[i], l)}
<1>1. FindRegion(list, l) = IF I # {} THEN Min(I) ELSE 0
  BY DEF FindRegion, SelectInSeq
<1>2. I # {}
  BY <1>1
<1>3. I \subseteq Nat
  OBVIOUS
<1>4. PICK x \in I : \A y \in I : x <= y
  BY <1>2, <1>3, SmallestExists
<1>5. Min(I) \in I
  BY <1>4 DEF Min
<1>. QED
  BY <1>1, <1>2, <1>5

LEMMA FirstFits ==
  ASSUME NEW list \in Seq(Extent), NEW l \in Layouts, Len(list) > 0, Fits(list[1], l)
  PROVE  FindRegion(list, l) = 1
<1>. DEFINE I == {i \in 1 .. Len(list) : Fits(list[i], l)}
<1>1. FindRegion(list, l) = IF I # {} THEN Min(I) ELSE 0
  BY DEF FindRegion, SelectInSeq
<1>2. 1 \in I /\ I \subseteq Nat /\ \A y \in I : 1 <= y
  OBVIOUS
<1>3. Min(I) = 1
  <2>1. Min(I) \in I /\ \A y \in I : Min(I) <= y
    BY <1>2 DEF Min
  <2>. QED
    BY <1>2, <2>1
<1>. QED
  BY <1>1, <1>2, <1>3

LEMMA RemoveAtProperties ==
  ASSUME NEW S, NEW s \in Seq(S), NEW i \in 1 .. Len(s)
  PROVE  /\ RemoveAt(s, i) \in Seq(S) /\ Len(RemoveAt(s, i)) = Len(s) - 1
         /\ \A j \in 1 .. Len(s) - 1 : RemoveAt(s, i)[j] = s[IF j < i THEN j ELSE j + 1]
<1>. DEFINE before == SubSeq(s, 1, i - 1)
            behind == SubSeq(s, i + 1, Len(s))
<1>0. Len(s) \in Nat /\ i \in Int /\ i - 1 \in Int /\ i + 1 \in Int /\ Len(s) \in Int
  OBVIOUS
<1>1. /\ before \in Seq(S) /\ Len(before) = i - 1
      /\ \A j \in 1 .. i - 1 : before[j] = s[j]
  <2>1. \A j \in 1 .. i - 1 : s[j] \in S
    BY <1>0, ElementOfSeq
  <2>. QED
    BY <1>0, <2>1, SubSeqProperties
<1>2. /\ behind \in Seq(S) /\ Len(behind) = Len(s) - i
      /\ \A j \in 1 .. Len(s) - i : behind[j] = s[j + i]
  <2>1. \A j \in i + 1 .. Len(s) : s[j] \in S
    BY <1>0, ElementOfSeq
  <2>. QED
    BY <1>0, <2>1, SubSeqProperties
<1>3. RemoveAt(s, i) = before \o behind
  BY DEF RemoveAt
<1>. HIDE DEF before, behind
<1>4. /\ before \o behind \in Seq(S) /\ Len(before \o behind) = Len(s) - 1
      /\ \A j \in 1 .. Len(s) - 1 :
           (before \o behind)[j] = IF j <= i - 1 THEN before[j] ELSE behind[j - (i - 1)]
  <2>1. /\ before \o behind \in Seq(S)
        /\ Len(before \o behind) = Len(before) + Len(behind)
        /\ \A j \in 1 .. Len(before) + Len(behind) :
             (before \o behind)[j] =
               IF j <= Len(before) THEN before[j] ELSE behind[j - Len(before)]
    BY <1>1, <1>2, ConcatProperties, Zenon
  <2>2. Len(before) + Len(behind) = Len(s) - 1
    BY <1>0, <1>1, <1>2
  <2>. QED
    BY <1>0, <1>1, <1>2, <2>1, <2>2
<1>5. ASSUME NEW j \in 1 .. Len(s) - 1
      PROVE  (before \o behind)[j] = s[IF j < i THEN j ELSE j + 1]
  <2>1. CASE j < i
    <3>1. j \in 1 .. i - 1 /\ j <= i - 1
      BY <1>0, <2>1
    <3>. QED
      BY <1>1, <1>4, <2>1, <3>1
  <2>2. CASE ~ (j < i)
    <3>. DEFINE k == j - (i - 1)
    <3>1. k \in 1 .. Len(s) - i /\ ~ (j <= i - 1) /\ k + i = j + 1
      BY <1>0, <2>2
    <3>. HIDE DEF k
    <3>2. behind[k] = s[j + 1]
      BY <1>2, <3>1
    <3>. QED
      BY <1>4, <2>2, <3>1, <3>2 DEF k
  <2>. QED
    BY <2>1, <2>2
<1>. QED
  BY <1>3, <1>4, <1>5

LEMMA AddFreeRegionProperties ==
  ASSUME NEW list \in Seq(Extent), NEW addr \in Nat, NEW size \in Nat
  PROVE  /\ AddFreeRegion(list, addr, size) \in Seq(Extent)
         /\ Len(AddFreeRegion(list, addr, size)) = Len(list) + 1
         /\ AddFreeRegion(list, addr, size)[1] = [addr |-> addr, size |-> size]
         /\ \A j \in 1 .. Len(list) : AddFreeRegion(list, addr, size)[j + 1] = list[j]
<1>. DEFINE new == <<[addr |-> addr, size |-> size]>>
<1>1. new \in Seq(Extent) /\ Len(new) = 1 /\ new[1] = [addr |-> addr, size |-> size]
  BY DEF Extent
<1>2. AddFreeRegion(list, addr, size) = new \o list
  BY DEF AddFreeRegion
<1>. HIDE DEF new
<1>3. /\ new \o list \in Seq(Extent) /\ Len(new \o list) = Len(new) + Len(list)
      /\ \A j \in 1 .. Len(new) + Len(list) :
           (new \o list)[j] = IF j <= Len(new) THEN new[j] ELSE list[j - Len(new)]
  BY <1>1, <1>2, ConcatProperties, Zenon
<1>. QED
  BY <1>1, <1>2, <1>3

-----------------------------------------------------------------------------
(* The inductive invariant: extents by their numbers.                      *)

Apart(a, m, b, n) == a + m <= b \/ b + n <= a
Within(a, n) == HeapBase <= a /\ a + n <= HeapBase + HeapSize

\* A region may hold a node: add_free_region's assertions.
RegionOK(r) == r.addr % NodeAlign = 0 /\ r.size >= NodeSize /\ Within(r.addr, r.size)
BlockOK(b) == b.addr % AlignOf(b.layout) = 0 /\ Within(b.addr, SizeOf(b.layout))

RegionsApart(list) ==
  \A i, j \in 1 .. Len(list) :
    i # j => Apart(list[i].addr, list[i].size, list[j].addr, list[j].size)
BlocksApart(set) ==
  \A b, c \in set : b # c => Apart(b.addr, SizeOf(b.layout), c.addr, SizeOf(c.layout))
RegionsOffBlocks(list, set) ==
  \A i \in 1 .. Len(list) : \A b \in set :
    Apart(list[i].addr, list[i].size, b.addr, SizeOf(b.layout))

ListInv(list, set) ==
  /\ list \in Seq(Extent) /\ \A i \in 1 .. Len(list) : RegionOK(list[i])
  /\ RegionsApart(list) /\ RegionsOffBlocks(list, set)
LiveInv(set) ==
  /\ IsFiniteSet(set) /\ set \subseteq Block /\ \A b \in set : BlockOK(b)
  /\ BlocksApart(set)

IInv == ListInv(free, live) /\ LiveInv(live)

\* A region that is away from everything else joins the list.
LEMMA AddKeepsList ==
  ASSUME NEW list, NEW set, ListInv(list, set), NEW addr \in Nat, NEW size \in Nat,
         RegionOK([addr |-> addr, size |-> size]),
         \A i \in 1 .. Len(list) : Apart(list[i].addr, list[i].size, addr, size),
         \A b \in set : Apart(addr, size, b.addr, SizeOf(b.layout))
  PROVE  ListInv(AddFreeRegion(list, addr, size), set)
<1>. DEFINE new == AddFreeRegion(list, addr, size)
<1>1. /\ new \in Seq(Extent) /\ Len(new) = Len(list) + 1 /\ Len(list) \in Nat
      /\ new[1] = [addr |-> addr, size |-> size] /\ new[1].addr = addr /\ new[1].size = size
      /\ \A j \in 1 .. Len(list) : new[j + 1] = list[j]
  BY AddFreeRegionProperties DEF ListInv
<1>. HIDE DEF new
<1>2. \A j \in 1 .. Len(new) : j = 1 \/ (j - 1 \in 1 .. Len(list) /\ new[j] = list[j - 1])
  BY <1>1
<1>3. \A i \in 1 .. Len(new) : RegionOK(new[i])
  BY <1>1, <1>2 DEF ListInv
<1>4. RegionsApart(new)
  <2>. SUFFICES ASSUME NEW i \in 1 .. Len(new), NEW j \in 1 .. Len(new), i # j
                PROVE  Apart(new[i].addr, new[i].size, new[j].addr, new[j].size)
    BY DEF RegionsApart
  <2>1. CASE i = 1 \/ j = 1
    BY <1>1, <1>2, <2>1 DEF Apart
  <2>2. CASE i # 1 /\ j # 1
    <3>1. i - 1 # j - 1
      BY <1>1
    <3>. QED
      BY <1>2, <2>2, <3>1 DEF ListInv, RegionsApart
  <2>. QED
    BY <2>1, <2>2
<1>5. RegionsOffBlocks(new, set)
  BY <1>1, <1>2 DEF ListInv, RegionsOffBlocks
<1>. QED
  BY <1>1, <1>3, <1>4, <1>5 DEF ListInv, new

\* The other regions stay as they are when one leaves the list, and away from it.
LEMMA RemoveKeepsList ==
  ASSUME NEW list, NEW set, ListInv(list, set), NEW i \in 1 .. Len(list)
  PROVE  /\ ListInv(RemoveAt(list, i), set)
         /\ \A j \in 1 .. Len(RemoveAt(list, i)) :
              Apart(RemoveAt(list, i)[j].addr, RemoveAt(list, i)[j].size,
                    list[i].addr, list[i].size)
<1>. DEFINE rest == RemoveAt(list, i)
            At(j) == IF j < i THEN j ELSE j + 1
<1>1. /\ rest \in Seq(Extent) /\ Len(rest) = Len(list) - 1 /\ Len(list) \in Nat
      /\ \A j \in 1 .. Len(rest) : rest[j] = list[At(j)]
  <2>1. list \in Seq(Extent)
    BY DEF ListInv
  <2>2. /\ rest \in Seq(Extent) /\ Len(rest) = Len(list) - 1
        /\ \A j \in 1 .. Len(list) - 1 : rest[j] = list[At(j)]
    BY <2>1, RemoveAtProperties, Zenon
  <2>3. Len(list) \in Nat
    BY <2>1
  <2>. HIDE DEF rest, At
  <2>4. 1 .. Len(rest) = 1 .. Len(list) - 1
    BY <2>2
  <2>. QED
    BY <2>2, <2>3, <2>4, Zenon
<1>2. /\ \A j \in 1 .. Len(rest) : At(j) \in 1 .. Len(list) /\ At(j) # i
      /\ \A j, k \in 1 .. Len(rest) : j # k => At(j) # At(k)
  <2>1. \A j \in 1 .. Len(rest) : At(j) \in 1 .. Len(list) /\ At(j) # i
    BY <1>1
  <2>2. \A j, k \in 1 .. Len(rest) : j # k => At(j) # At(k)
    BY <1>1
  <2>. QED
    BY <2>1, <2>2
<1>. HIDE DEF rest, At
<1>3. \A j \in 1 .. Len(rest) : RegionOK(rest[j])
  BY <1>1, <1>2 DEF ListInv
<1>4. RegionsApart(rest)
  BY <1>1, <1>2 DEF ListInv, RegionsApart
<1>5. RegionsOffBlocks(rest, set)
  BY <1>1, <1>2 DEF ListInv, RegionsOffBlocks
<1>6. \A j \in 1 .. Len(rest) : Apart(rest[j].addr, rest[j].size, list[i].addr, list[i].size)
  BY <1>1, <1>2 DEF ListInv, RegionsApart
<1>. QED
  BY <1>1, <1>3, <1>4, <1>5, <1>6 DEF ListInv, rest

\* A part of an extent is away from whatever the extent is away from.
LEMMA PartApart ==
  ASSUME NEW a \in Nat, NEW m \in Nat, NEW b \in Nat, NEW n \in Nat,
         NEW c \in Nat, NEW k \in Nat,
         Apart(a, m, b, n), b <= c, c + k <= b + n
  PROVE  Apart(a, m, c, k) /\ Apart(c, k, a, m)
BY DEF Apart

LEMMA PartWithin ==
  ASSUME NEW b \in Nat, NEW n \in Nat, NEW c \in Nat, NEW k \in Nat,
         Within(b, n), b <= c, c + k <= b + n
  PROVE  Within(c, k)
BY HeapAssumption DEF Within

LEMMA ApartSymmetric ==
  ASSUME NEW a \in Nat, NEW m \in Nat, NEW b \in Nat, NEW n \in Nat, Apart(a, m, b, n)
  PROVE  Apart(b, n, a, m)
BY DEF Apart

\* The list may be compared with fewer blocks, or with one more that is away from it.
LEMMA FewerBlocks ==
  ASSUME NEW list, NEW set, NEW less \in SUBSET set, ListInv(list, set), LiveInv(set)
  PROVE  ListInv(list, less) /\ LiveInv(less)
<1>1. IsFiniteSet(less)
  BY FS_Subset DEF LiveInv
<1>. QED
  BY <1>1 DEF ListInv, LiveInv, RegionsOffBlocks, BlocksApart

LEMMA OneMoreBlock ==
  ASSUME NEW list, NEW set, ListInv(list, set), LiveInv(set), NEW b \in Block, BlockOK(b),
         \A i \in 1 .. Len(list) :
           Apart(list[i].addr, list[i].size, b.addr, SizeOf(b.layout)),
         \A c \in set : Apart(c.addr, SizeOf(c.layout), b.addr, SizeOf(b.layout))
  PROVE  ListInv(list, set \cup {b}) /\ LiveInv(set \cup {b})
<1>1. IsFiniteSet(set \cup {b})
  BY FS_AddElement DEF LiveInv
<1>2. RegionsOffBlocks(list, set \cup {b})
  BY DEF ListInv, RegionsOffBlocks
<1>3. BlocksApart(set \cup {b})
  <2>1. \A c \in set : Apart(b.addr, SizeOf(b.layout), c.addr, SizeOf(c.layout))
    <3>. SUFFICES ASSUME NEW c \in set
                  PROVE  Apart(b.addr, SizeOf(b.layout), c.addr, SizeOf(c.layout))
      OBVIOUS
    <3>1. /\ b.addr \in Nat /\ c.addr \in Nat
          /\ SizeOf(b.layout) \in Nat /\ SizeOf(c.layout) \in Nat
      BY LayoutProperties DEF LiveInv, Block
    <3>. QED
      BY <3>1, ApartSymmetric
  <2>. QED
    BY <2>1 DEF LiveInv, BlocksApart
<1>. QED
  BY <1>1, <1>2, <1>3 DEF ListInv, LiveInv

LEMMA InitIInv == Init => IInv
<1>. SUFFICES ASSUME Init
              PROVE  IInv
  OBVIOUS
<1>1. ListInv(<<>>, live) /\ LiveInv(live)
  <2>1. <<>> \in Seq(Extent) /\ Len(<<>>) = 0
    BY EmptySeq
  <2>2. live = {} /\ IsFiniteSet({})
    BY FS_EmptySet DEF Init
  <2>. QED
    BY <2>1, <2>2 DEF ListInv, LiveInv, RegionsApart, RegionsOffBlocks, BlocksApart
<1>2. RegionOK([addr |-> HeapBase, size |-> HeapSize])
  BY HeapAssumption DEF RegionOK, Within
<1>3. ListInv(AddFreeRegion(<<>>, HeapBase, HeapSize), live)
  <2>1. Len(<<>>) = 0 /\ live = {}
    BY EmptySeq DEF Init
  <2>. QED
    BY HeapAssumption, <1>1, <1>2, <2>1, AddKeepsList
<1>. QED
  BY <1>1, <1>3 DEF Init, IInv

\* What alloc takes from the region it found: the block lies in it, and the tail, if
\* there is one, can hold a node.
LEMMA AllocPlaces ==
  ASSUME NEW r \in Extent, RegionOK(r), NEW l \in Layouts, Fits(r, l)
  PROVE  LET start == AlignUp(r.addr, AlignOf(l))
             end   == start + SizeOf(l)
             tail  == r.addr + r.size - end
         IN  /\ start \in Nat /\ end \in Nat /\ tail \in Nat
             /\ r.addr <= start /\ start < r.addr + AlignOf(l)
             /\ start % AlignOf(l) = 0 /\ end % NodeAlign = 0
             /\ AlignOf(l) = NodeAlign => start = r.addr
             /\ tail = 0 \/ tail >= NodeSize
<1>. DEFINE start == AlignUp(r.addr, AlignOf(l))
            end   == start + SizeOf(l)
            tail  == r.addr + r.size - end
<1>1. /\ AlignOf(l) \in Nat \ {0} /\ AlignOf(l) >= NodeAlign /\ AlignOf(l) % NodeAlign = 0
      /\ SizeOf(l) \in Nat /\ SizeOf(l) % NodeAlign = 0
  BY LayoutProperties
<1>2. r.addr \in Nat /\ r.size \in Nat /\ r.addr % NodeAlign = 0
  BY DEF Extent, RegionOK
<1>3. /\ start \in Nat /\ start % AlignOf(l) = 0 /\ r.addr <= start
      /\ start < r.addr + AlignOf(l) /\ (r.addr % AlignOf(l) = 0 => start = r.addr)
  BY <1>1, <1>2, AlignUpProperties
<1>4. tail = 0 \/ tail >= NodeSize
  BY DEF Fits
<1>. HIDE DEF start
<1>5. end \in Nat /\ tail \in Nat
  BY HeapAssumption, <1>1, <1>2, <1>3, <1>4
<1>6. end % NodeAlign = 0
  <2>1. /\ NodeAlign \in Int /\ NodeAlign > 0 /\ AlignOf(l) \in Int /\ AlignOf(l) > 0
        /\ start \in Int /\ SizeOf(l) \in Int
    BY HeapAssumption, <1>1, <1>3
  <2>2. start % NodeAlign = 0
    BY <1>1, <1>3, <2>1, DividesDivides, Zenon
  <2>. QED
    BY <1>1, <2>1, <2>2, SumDivides, Zenon
<1>. QED
  BY <1>1, <1>2, <1>3, <1>4, <1>5, <1>6 DEF start

LEMMA AllocFound ==
  ASSUME IInv, NEW l \in Layouts, FindRegion(free, l) > 0
  PROVE  /\ FindRegion(free, l) \in 1 .. Len(free) /\ Len(free) \in Nat
         /\ Fits(free[FindRegion(free, l)], l)
         /\ free[FindRegion(free, l)] \in Extent /\ RegionOK(free[FindRegion(free, l)])
<1>1. free \in Seq(Extent)
  BY DEF IInv, ListInv
<1>2. FindRegion(free, l) \in 1 .. Len(free) /\ Fits(free[FindRegion(free, l)], l)
  BY <1>1, FindRegionFits
<1>. QED
  BY <1>1, <1>2, ElementOfSeq DEF IInv, ListInv

LEMMA AllocKeeps ==
  ASSUME IInv, NEW l \in Layouts, Alloc(l)
  PROVE  IInv'
<1>. DEFINE i     == FindRegion(free, l)
            r     == free[i]
            start == AlignUp(r.addr, AlignOf(l))
            end   == start + SizeOf(l)
            tail  == r.addr + r.size - end
            rest  == RemoveAt(free, i)
            b     == [addr |-> start, layout |-> l]
<1>1. /\ i > 0 /\ live' = live \cup {b}
      /\ free' = IF tail > 0 THEN AddFreeRegion(rest, end, tail) ELSE rest
  BY DEF Alloc
<1>2. /\ i \in 1 .. Len(free) /\ Fits(r, l) /\ r \in Extent /\ RegionOK(r)
      /\ Len(free) \in Nat
  BY <1>1, AllocFound
<1>3. /\ start \in Nat /\ end \in Nat /\ tail \in Nat /\ r.addr <= start
      /\ start % AlignOf(l) = 0 /\ end % NodeAlign = 0 /\ (tail = 0 \/ tail >= NodeSize)
  BY <1>2, AllocPlaces
<1>4. r.addr \in Nat /\ r.size \in Nat /\ SizeOf(l) \in Nat /\ Within(r.addr, r.size)
  BY <1>2, LayoutProperties DEF Extent, RegionOK
<1>5. ListInv(free, live) /\ LiveInv(live)
  BY DEF IInv
<1>6. /\ ListInv(rest, live)
      /\ \A j \in 1 .. Len(rest) : Apart(rest[j].addr, rest[j].size, r.addr, r.size)
  BY <1>2, <1>5, RemoveKeepsList
<1>7. rest \in Seq(Extent) /\ \A j \in 1 .. Len(rest) : rest[j].addr \in Nat /\ rest[j].size \in Nat
  <2>1. rest \in Seq(Extent)
    BY <1>6 DEF ListInv
  <2>. HIDE DEF rest
  <2>2. \A j \in 1 .. Len(rest) : rest[j] \in Extent
    BY <2>1, ElementOfSeq
  <2>. QED
    BY <2>1, <2>2 DEF Extent
<1>8. \A c \in live : /\ c.addr \in Nat /\ SizeOf(c.layout) \in Nat
                      /\ Apart(c.addr, SizeOf(c.layout), r.addr, r.size)
  <2>. SUFFICES ASSUME NEW c \in live
                PROVE  /\ c.addr \in Nat /\ SizeOf(c.layout) \in Nat
                       /\ Apart(c.addr, SizeOf(c.layout), r.addr, r.size)
    OBVIOUS
  <2>1. c.addr \in Nat /\ SizeOf(c.layout) \in Nat
    BY <1>5, LayoutProperties DEF LiveInv, Block
  <2>2. Apart(r.addr, r.size, c.addr, SizeOf(c.layout))
    BY <1>2, <1>5 DEF ListInv, RegionsOffBlocks
  <2>. QED
    BY <1>4, <2>1, <2>2, ApartSymmetric
<1>9. b \in Block /\ b.addr = start /\ b.layout = l
  BY <1>3 DEF Block
<1>. HIDE DEF i, r, start, rest, b
<1>10. start + SizeOf(l) <= r.addr + r.size /\ end + tail <= r.addr + r.size /\ r.addr <= end
  BY <1>3, <1>4
<1>11. BlockOK(b)
  <2>1. Within(start, SizeOf(l))
    <3>1. start \in Nat /\ r.addr <= start
      BY <1>3
    <3>. QED
      BY <1>4, <1>10, <3>1, PartWithin, Zenon
  <2>2. start % AlignOf(l) = 0
    BY <1>3
  <2>. QED
    BY <1>9, <2>1, <2>2 DEF BlockOK
<1>12. ListInv(rest, live') /\ LiveInv(live')
  <2>1. /\ \A j \in 1 .. Len(rest) : Apart(rest[j].addr, rest[j].size, start, SizeOf(l))
        /\ \A c \in live : Apart(c.addr, SizeOf(c.layout), start, SizeOf(l))
    BY <1>3, <1>4, <1>6, <1>7, <1>8, <1>10, PartApart
  <2>2. ListInv(rest, live \cup {b}) /\ LiveInv(live \cup {b})
    BY <1>5, <1>6, <1>9, <1>11, <2>1, OneMoreBlock
  <2>. QED
    BY <1>1, <2>2
<1>13. CASE tail > 0
  <2>. HIDE DEF end, tail
  <2>1. /\ \A j \in 1 .. Len(rest) : Apart(rest[j].addr, rest[j].size, end, tail)
        /\ \A c \in live : Apart(end, tail, c.addr, SizeOf(c.layout))
    BY <1>3, <1>4, <1>6, <1>7, <1>8, <1>10, PartApart
  <2>2. Apart(end, tail, b.addr, SizeOf(b.layout))
    BY <1>3, <1>4, <1>9 DEF Apart, end
  <2>3. RegionOK([addr |-> end, size |-> tail])
    BY HeapAssumption, <1>3, <1>4, <1>10, <1>13 DEF RegionOK, Within
  <2>4. \A c \in live' : Apart(end, tail, c.addr, SizeOf(c.layout))
    BY <1>1, <2>1, <2>2
  <2>5. ListInv(AddFreeRegion(rest, end, tail), live')
    BY <1>3, <1>12, <2>1, <2>3, <2>4, AddKeepsList
  <2>. QED
    BY <1>1, <1>12, <1>13, <2>5 DEF IInv
<1>14. CASE tail = 0
  <2>. HIDE DEF tail
  <2>1. free' = rest
    BY <1>1, <1>14
  <2>. QED
    BY <1>12, <2>1 DEF IInv
<1>. QED
  BY <1>3, <1>13, <1>14

LEMMA DeallocKeeps ==
  ASSUME IInv, NEW b \in live, Dealloc(b)
  PROVE  IInv'
<1>1. /\ live' = live \ {b}
      /\ free' = AddFreeRegion(free, b.addr, SizeOf(b.layout))
  BY DEF Dealloc
<1>2. ListInv(free, live) /\ LiveInv(live)
  BY DEF IInv
<1>3. ListInv(free, live') /\ LiveInv(live')
  BY <1>1, <1>2, FewerBlocks
<1>4. b \in Block /\ BlockOK(b) /\ b.addr \in Nat /\ b.layout \in Layouts
  BY <1>2 DEF LiveInv, Block
<1>5. /\ SizeOf(b.layout) \in Nat /\ SizeOf(b.layout) >= NodeSize
      /\ AlignOf(b.layout) \in Nat \ {0} /\ AlignOf(b.layout) % NodeAlign = 0
  BY <1>4, LayoutProperties
<1>6. RegionOK([addr |-> b.addr, size |-> SizeOf(b.layout)])
  <2>1. /\ NodeAlign \in Int /\ NodeAlign > 0 /\ b.addr \in Int
        /\ AlignOf(b.layout) \in Int /\ AlignOf(b.layout) > 0
    BY HeapAssumption, <1>4, <1>5
  <2>2. b.addr % AlignOf(b.layout) = 0
    BY <1>4 DEF BlockOK
  <2>3. b.addr % NodeAlign = 0
    BY <1>5, <2>1, <2>2, DividesDivides, Zenon
  <2>. QED
    BY <1>4, <1>5, <2>3 DEF RegionOK, BlockOK
<1>7. \A j \in 1 .. Len(free) : Apart(free[j].addr, free[j].size, b.addr, SizeOf(b.layout))
  BY <1>2 DEF ListInv, RegionsOffBlocks
<1>8. \A c \in live' : Apart(b.addr, SizeOf(b.layout), c.addr, SizeOf(c.layout))
  BY <1>1, <1>2 DEF LiveInv, BlocksApart
<1>9. ListInv(free', live')
  BY <1>1, <1>3, <1>4, <1>5, <1>6, <1>7, <1>8, AddKeepsList
<1>. QED
  BY <1>3, <1>9 DEF IInv

LEMMA NextIInv == IInv /\ [Next]_vars => IInv'
<1>. SUFFICES ASSUME IInv, [Next]_vars
              PROVE  IInv'
  OBVIOUS
<1>1. CASE UNCHANGED vars
  BY <1>1 DEF vars, IInv, ListInv, LiveInv, RegionsApart, RegionsOffBlocks, BlocksApart
<1>. QED
  BY <1>1, AllocKeeps, DeallocKeeps DEF Next

LEMMA Invariance == Spec => []IInv
BY InitIInv, NextIInv, PTL DEF Spec

-----------------------------------------------------------------------------
(* The theorems.                                                           *)

LEMMA ExtentsOverlap ==
  ASSUME NEW a \in Nat, NEW m \in Nat, NEW b \in Nat, NEW n \in Nat, m > 0, n > 0,
         Apart(a, m, b, n)
  PROVE  Bytes(a, m) \cap Bytes(b, n) = {} /\ Bytes(a, m) # Bytes(b, n)
<1>1. a \in Bytes(a, m) /\ a \notin Bytes(b, n)
  BY DEF Apart, Bytes
<1>2. Bytes(a, m) \cap Bytes(b, n) = {}
  BY DEF Apart, Bytes
<1>. QED
  BY <1>1, <1>2

\* The numbers of the regions and blocks of a good heap.
LEMMA Numbers ==
  ASSUME IInv
  PROVE  /\ Len(free) \in Nat /\ DOMAIN free = 1 .. Len(free)
         /\ \A i \in 1 .. Len(free) :
              /\ free[i].addr \in Nat /\ free[i].size \in Nat /\ free[i].size > 0
              /\ RegionOK(free[i])
         /\ \A b \in live :
              /\ b \in Block /\ b.addr \in Nat /\ b.layout \in Layouts
              /\ SizeOf(b.layout) \in Nat /\ SizeOf(b.layout) > 0 /\ BlockOK(b)
<1>1. free \in Seq(Extent)
  BY DEF IInv, ListInv
<1>2. Len(free) \in Nat /\ DOMAIN free = 1 .. Len(free)
  BY <1>1
<1>3. ASSUME NEW i \in 1 .. Len(free)
      PROVE  /\ free[i].addr \in Nat /\ free[i].size \in Nat /\ free[i].size > 0
             /\ RegionOK(free[i])
  <2>1. free[i] \in Extent /\ RegionOK(free[i])
    BY <1>1, ElementOfSeq DEF IInv, ListInv
  <2>. QED
    BY HeapAssumption, <2>1 DEF Extent, RegionOK
<1>4. ASSUME NEW b \in live
      PROVE  /\ b \in Block /\ b.addr \in Nat /\ b.layout \in Layouts
             /\ SizeOf(b.layout) \in Nat /\ SizeOf(b.layout) > 0 /\ BlockOK(b)
  <2>1. b \in Block /\ BlockOK(b)
    BY DEF IInv, LiveInv
  <2>2. b.addr \in Nat /\ b.layout \in Layouts
    BY <2>1 DEF Block
  <2>. QED
    BY HeapAssumption, <2>1, <2>2, LayoutProperties
<1>. QED
  BY <1>2, <1>3, <1>4

LEMMA WithinBytes ==
  ASSUME NEW a \in Nat, NEW n \in Nat, Within(a, n)
  PROVE  Bytes(a, n) \subseteq Bytes(HeapBase, HeapSize)
BY HeapAssumption DEF Within, Bytes

LEMMA DisjointFollows == IInv => Disjoint
<1>. SUFFICES ASSUME IInv
              PROVE  Disjoint
  OBVIOUS
<1>. DEFINE R(i) == Bytes(free[i].addr, free[i].size)
            B(b) == Bytes(b.addr, SizeOf(b.layout))
<1>1. /\ \A i, j \in 1 .. Len(free) : i # j => R(i) \cap R(j) = {} /\ R(i) # R(j)
      /\ \A b, c \in live : b # c => B(b) \cap B(c) = {} /\ B(b) # B(c)
      /\ \A i \in 1 .. Len(free) : \A b \in live : R(i) \cap B(b) = {} /\ R(i) # B(b)
  <2>1. ASSUME NEW i \in 1 .. Len(free), NEW j \in 1 .. Len(free), i # j
        PROVE  R(i) \cap R(j) = {} /\ R(i) # R(j)
    <3>1. Apart(free[i].addr, free[i].size, free[j].addr, free[j].size)
      BY <2>1 DEF IInv, ListInv, RegionsApart
    <3>. QED
      BY <3>1, Numbers, ExtentsOverlap
  <2>2. ASSUME NEW b \in live, NEW c \in live, b # c
        PROVE  B(b) \cap B(c) = {} /\ B(b) # B(c)
    <3>1. Apart(b.addr, SizeOf(b.layout), c.addr, SizeOf(c.layout))
      BY <2>2 DEF IInv, LiveInv, BlocksApart
    <3>. QED
      BY <3>1, Numbers, ExtentsOverlap
  <2>3. ASSUME NEW i \in 1 .. Len(free), NEW b \in live
        PROVE  R(i) \cap B(b) = {} /\ R(i) # B(b)
    <3>1. Apart(free[i].addr, free[i].size, b.addr, SizeOf(b.layout))
      BY DEF IInv, ListInv, RegionsOffBlocks
    <3>. QED
      BY <3>1, Numbers, ExtentsOverlap
  <2>. HIDE DEF R, B
  <2>. QED
    BY <2>1, <2>2, <2>3
<1>2. Regions = {R(i) : i \in 1 .. Len(free)} /\ Blocks = {B(b) : b \in live}
  BY Numbers DEF Regions, Blocks
<1>3. /\ \A i \in 1 .. Len(free) : R(i) \subseteq Bytes(HeapBase, HeapSize)
      /\ \A b \in live : B(b) \subseteq Bytes(HeapBase, HeapSize)
  BY Numbers, WithinBytes DEF RegionOK, BlockOK
<1>. HIDE DEF R, B
<1>4. Cardinality(Regions) = Len(free)
  <2>. DEFINE f == [i \in 1 .. Len(free) |-> R(i)]
  <2>1. f \in Bijection(1 .. Len(free), Regions)
    <3>1. f \in [1 .. Len(free) -> Regions] /\ \A i \in 1 .. Len(free) : f[i] = R(i)
      BY <1>2
    <3>2. \A r \in Regions : \E i \in 1 .. Len(free) : f[i] = r
      BY <1>2
    <3>3. \A i, j \in 1 .. Len(free) : f[i] = f[j] => i = j
      BY <1>1, <3>1
    <3>4. DOMAIN f = 1 .. Len(free)
      OBVIOUS
    <3>. HIDE DEF f
    <3>5. f \in Injection(1 .. Len(free), Regions)
      BY <3>1, <3>3, <3>4, Zenon DEF Injection, IsInjective
    <3>6. f \in Surjection(1 .. Len(free), Regions)
      BY <3>1, <3>2, Zenon DEF Surjection
    <3>. QED
      BY <3>5, <3>6, Zenon DEF Bijection
  <2>2. IsFiniteSet(1 .. Len(free)) /\ Cardinality(1 .. Len(free)) = Len(free)
    <3>1. Len(free) \in Nat
      BY Numbers
    <3>2. /\ IsFiniteSet(1 .. Len(free))
          /\ Cardinality(1 .. Len(free)) = IF 1 > Len(free) THEN 0 ELSE Len(free) - 1 + 1
      <4>1. 1 \in Int /\ Len(free) \in Int
        BY <3>1
      <4>. QED
        BY <4>1, FS_Interval, Zenon
    <3>. QED
      BY <3>1, <3>2
  <2>. QED
    BY <2>1, <2>2, FS_Bijection DEF ExistsBijection
<1>5. Cardinality(Blocks) = Cardinality(live)
  <2>. DEFINE f == [b \in live |-> B(b)]
  <2>1. f \in Bijection(live, Blocks)
    <3>1. f \in [live -> Blocks] /\ \A b \in live : f[b] = B(b)
      BY <1>2
    <3>2. \A c \in Blocks : \E b \in live : f[b] = c
      BY <1>2
    <3>3. \A b, c \in live : f[b] = f[c] => b = c
      BY <1>1, <3>1
    <3>4. DOMAIN f = live
      OBVIOUS
    <3>. HIDE DEF f
    <3>5. f \in Injection(live, Blocks)
      BY <3>1, <3>3, <3>4, Zenon DEF Injection, IsInjective
    <3>6. f \in Surjection(live, Blocks)
      BY <3>1, <3>2, Zenon DEF Surjection
    <3>. QED
      BY <3>5, <3>6, Zenon DEF Bijection
  <2>2. IsFiniteSet(live)
    BY DEF IInv, LiveInv
  <2>. QED
    BY <2>1, <2>2, FS_Bijection DEF ExistsBijection
<1>6. /\ \A r, s \in Regions \cup Blocks : r = s \/ r \cap s = {}
      /\ Regions \cap Blocks = {}
  BY <1>1, <1>2
<1>7. UNION (Regions \cup Blocks) \subseteq Bytes(HeapBase, HeapSize)
  BY <1>2, <1>3
<1>8. ASSUME NEW b \in live
      PROVE  /\ b.layout \in Layouts /\ b.addr % b.layout.align = 0
             /\ b.layout.size <= SizeOf(b.layout)
  <2>1. /\ b.layout \in Layouts /\ b.addr \in Int /\ b.addr % AlignOf(b.layout) = 0
        /\ b.layout.align \in Int /\ b.layout.align > 0
    BY HeapAssumption, Numbers DEF BlockOK
  <2>2. /\ AlignOf(b.layout) \in Int /\ AlignOf(b.layout) > 0
        /\ AlignOf(b.layout) % b.layout.align = 0 /\ b.layout.size <= SizeOf(b.layout)
    BY <2>1, LayoutProperties
  <2>3. b.addr % b.layout.align = 0
    BY <2>1, <2>2, DividesDivides, Zenon
  <2>. QED
    BY <2>1, <2>2, <2>3
<1>9. \A i \in DOMAIN free : free[i].addr % NodeAlign = 0 /\ free[i].size >= NodeSize
  BY Numbers DEF RegionOK
<1>. QED
  BY <1>4, <1>5, <1>6, <1>7, <1>8, <1>9 DEF Disjoint

\* No byte of the heap is given out twice, or given out while it is on the free list, and
\* every node of the list lies where and as one may (heap.rs:130-212).
THEOREM HeapDisjoint == Spec => []Disjoint
BY DisjointFollows, Invariance, PTL

\* What was freed is what the next request of that layout gets (heap.rs:104-127, 173-196).
THEOREM HeapFreedIsReused == Spec => []FreedIsReused
<1>1. ASSUME IInv
      PROVE  FreedIsReused
  <2>. SUFFICES ASSUME NEW b \in live
                PROVE  LET list == AddFreeRegion(free, b.addr, SizeOf(b.layout))
                           i    == FindRegion(list, b.layout)
                       IN  i > 0 /\ AlignUp(list[i].addr, AlignOf(b.layout)) = b.addr
    BY DEF FreedIsReused
  <2>. DEFINE list == AddFreeRegion(free, b.addr, SizeOf(b.layout))
  <2>1. /\ b.addr \in Nat /\ b.layout \in Layouts /\ SizeOf(b.layout) \in Nat
        /\ b.addr % AlignOf(b.layout) = 0
    BY <1>1, Numbers DEF BlockOK
  <2>2. /\ list \in Seq(Extent) /\ Len(list) > 0
        /\ list[1] = [addr |-> b.addr, size |-> SizeOf(b.layout)]
    <3>1. free \in Seq(Extent) /\ Len(free) \in Nat
      BY <1>1, Numbers DEF IInv, ListInv
    <3>. QED
      BY <2>1, <3>1, AddFreeRegionProperties
  <2>3. AlignUp(b.addr, AlignOf(b.layout)) = b.addr
    BY <2>1, LayoutProperties, AlignUpProperties
  <2>. HIDE DEF list
  <2>4. Fits(list[1], b.layout)
    BY <2>1, <2>2, <2>3 DEF Fits
  <2>5. FindRegion(list, b.layout) = 1
    BY <2>1, <2>2, <2>4, FirstFits
  <2>. QED
    BY <2>2, <2>3, <2>5 DEF list
<1>. QED
  BY <1>1, Invariance, PTL

-----------------------------------------------------------------------------
(* What is lost.                                                           *)

Cover(list) == UNION {Bytes(list[i].addr, list[i].size) : i \in DOMAIN list}
CoverOf(set) == UNION {Bytes(b.addr, SizeOf(b.layout)) : b \in set}

LEMMA CoveredParts ==
  /\ Covered = Cover(free) \cup CoverOf(live)
  /\ Covered' = Cover(free') \cup CoverOf(live')
<1>1. Covered = Cover(free) \cup CoverOf(live)
  BY DEF Covered, Regions, Blocks, Cover, CoverOf
<1>2. Covered' = Cover(free') \cup CoverOf(live')
  BY DEF Covered, Regions, Blocks, Cover, CoverOf
<1>. QED
  BY <1>1, <1>2

LEMMA AddCover ==
  ASSUME NEW list \in Seq(Extent), NEW addr \in Nat, NEW size \in Nat
  PROVE  Cover(AddFreeRegion(list, addr, size)) = Bytes(addr, size) \cup Cover(list)
<1>. DEFINE new == AddFreeRegion(list, addr, size)
<1>1. /\ DOMAIN new = 1 .. Len(list) + 1 /\ DOMAIN list = 1 .. Len(list) /\ Len(list) \in Nat
      /\ new[1].addr = addr /\ new[1].size = size
      /\ \A j \in 1 .. Len(list) : new[j + 1] = list[j]
  <2>1. /\ new \in Seq(Extent) /\ Len(new) = Len(list) + 1
        /\ new[1] = [addr |-> addr, size |-> size]
        /\ \A j \in 1 .. Len(list) : new[j + 1] = list[j]
    BY AddFreeRegionProperties
  <2>. HIDE DEF new
  <2>. QED
    BY <2>1
<1>. HIDE DEF new
<1>2. \A j \in DOMAIN new : j = 1 \/ (j - 1 \in DOMAIN list /\ new[j] = list[j - 1])
  BY <1>1
<1>3. 1 \in DOMAIN new /\ \A j \in DOMAIN list : j + 1 \in DOMAIN new /\ new[j + 1] = list[j]
  BY <1>1
<1>4. Cover(new) = Bytes(addr, size) \cup Cover(list)
  <2>1. ASSUME NEW j \in DOMAIN new
        PROVE  Bytes(new[j].addr, new[j].size) \subseteq Bytes(addr, size) \cup Cover(list)
    <3>1. CASE j = 1
      BY <1>1, <3>1
    <3>2. CASE j - 1 \in DOMAIN list /\ new[j] = list[j - 1]
      BY <3>2 DEF Cover
    <3>. QED
      BY <1>2, <3>1, <3>2
  <2>2. ASSUME NEW j \in DOMAIN list
        PROVE  Bytes(list[j].addr, list[j].size) \subseteq Cover(new)
    <3>1. j + 1 \in DOMAIN new /\ new[j + 1] = list[j]
      BY <1>3
    <3>. QED
      BY <3>1 DEF Cover
  <2>3. Bytes(addr, size) \subseteq Cover(new)
    BY <1>1, <1>3 DEF Cover
  <2>4. Cover(new) \subseteq Bytes(addr, size) \cup Cover(list)
    BY <2>1 DEF Cover
  <2>5. Cover(list) \subseteq Cover(new)
    BY <2>2 DEF Cover
  <2>. QED
    BY <2>3, <2>4, <2>5
<1>. QED
  BY <1>4 DEF new

LEMMA RemoveCover ==
  ASSUME NEW list \in Seq(Extent), NEW i \in 1 .. Len(list)
  PROVE  Cover(list) = Bytes(list[i].addr, list[i].size) \cup Cover(RemoveAt(list, i))
<1>. DEFINE rest == RemoveAt(list, i)
<1>1. /\ DOMAIN rest = 1 .. Len(list) - 1 /\ DOMAIN list = 1 .. Len(list) /\ Len(list) \in Nat
      /\ \A j \in 1 .. Len(list) - 1 : rest[j] = list[IF j < i THEN j ELSE j + 1]
  <2>1. /\ rest \in Seq(Extent) /\ Len(rest) = Len(list) - 1
        /\ \A j \in 1 .. Len(list) - 1 : rest[j] = list[IF j < i THEN j ELSE j + 1]
    BY RemoveAtProperties, Zenon
  <2>. HIDE DEF rest
  <2>. QED
    BY <2>1
<1>. HIDE DEF rest
<1>2. ASSUME NEW j \in DOMAIN rest
      PROVE  \E k \in DOMAIN list : rest[j] = list[k]
  <2>. DEFINE k == IF j < i THEN j ELSE j + 1
  <2>1. k \in DOMAIN list /\ rest[j] = list[k]
    BY <1>1
  <2>. QED
    BY <2>1
<1>3. ASSUME NEW k \in DOMAIN list, k # i
      PROVE  \E j \in DOMAIN rest : rest[j] = list[k]
  <2>1. CASE k < i
    BY <1>1, <2>1
  <2>2. CASE k > i
    <3>1. k - 1 \in DOMAIN rest /\ rest[k - 1] = list[k]
      BY <1>1, <2>2
    <3>. QED
      BY <3>1
  <2>. QED
    BY <1>1, <1>3, <2>1, <2>2
<1>4. Cover(list) = Bytes(list[i].addr, list[i].size) \cup Cover(rest)
  <2>1. i \in DOMAIN list
    BY <1>1
  <2>. QED
    BY <1>2, <1>3, <2>1 DEF Cover
<1>. QED
  BY <1>4 DEF rest

LEMMA DeallocLoses ==
  ASSUME IInv, NEW b \in live, Dealloc(b)
  PROVE  Covered' = Covered
<1>1. /\ live' = live \ {b}
      /\ free' = AddFreeRegion(free, b.addr, SizeOf(b.layout))
  BY DEF Dealloc
<1>2. free \in Seq(Extent) /\ b.addr \in Nat /\ SizeOf(b.layout) \in Nat
  BY Numbers DEF IInv, ListInv
<1>3. Cover(free') = Bytes(b.addr, SizeOf(b.layout)) \cup Cover(free)
  BY <1>1, <1>2, AddCover
<1>4. CoverOf(live) = Bytes(b.addr, SizeOf(b.layout)) \cup CoverOf(live')
  BY <1>1 DEF CoverOf
<1>. QED
  BY <1>3, <1>4, CoveredParts

LEMMA AllocLoses ==
  ASSUME IInv, NEW l \in Layouts, Alloc(l)
  PROVE  /\ Covered' \subseteq Covered
         /\ \A byte \in Covered \ Covered' :
              \E b \in live' \ live :
                /\ AlignOf(b.layout) > NodeAlign
                /\ b.addr - AlignOf(b.layout) < byte /\ byte < b.addr
<1>. DEFINE i     == FindRegion(free, l)
            r     == free[i]
            start == AlignUp(r.addr, AlignOf(l))
            end   == start + SizeOf(l)
            tail  == r.addr + r.size - end
            rest  == RemoveAt(free, i)
            b     == [addr |-> start, layout |-> l]
<1>1. /\ i > 0 /\ live' = live \cup {b}
      /\ free' = IF tail > 0 THEN AddFreeRegion(rest, end, tail) ELSE rest
  BY DEF Alloc
<1>2. /\ i \in 1 .. Len(free) /\ Fits(r, l) /\ r \in Extent /\ RegionOK(r)
      /\ free \in Seq(Extent)
  BY <1>1, AllocFound DEF IInv, ListInv
<1>3. /\ start \in Nat /\ end \in Nat /\ tail \in Nat /\ r.addr <= start
      /\ start < r.addr + AlignOf(l) /\ (AlignOf(l) = NodeAlign => start = r.addr)
  BY <1>2, AllocPlaces
<1>4. /\ r.addr \in Nat /\ r.size \in Nat
      /\ SizeOf(l) \in Nat /\ SizeOf(l) > 0
      /\ AlignOf(l) \in Nat /\ AlignOf(l) >= NodeAlign
  <2>1. r.addr \in Nat /\ r.size \in Nat
    BY <1>2 DEF Extent
  <2>2. /\ SizeOf(l) \in Nat /\ SizeOf(l) >= NodeSize
        /\ AlignOf(l) \in Nat \ {0} /\ AlignOf(l) >= NodeAlign
    BY LayoutProperties
  <2>3. SizeOf(l) > 0
    BY HeapAssumption, <2>2
  <2>. QED
    BY <2>1, <2>2, <2>3
<1>5. rest \in Seq(Extent) /\ Cover(free) = Bytes(r.addr, r.size) \cup Cover(rest)
  BY <1>2, RemoveAtProperties, RemoveCover
<1>6. b.addr = start /\ b.layout = l
  OBVIOUS
<1>7. b \notin live
  <2>1. ASSUME b \in live
        PROVE  Apart(r.addr, r.size, start, SizeOf(l))
    BY <1>2, <1>6, <2>1 DEF IInv, ListInv, RegionsOffBlocks
  <2>. HIDE DEF start, r, b
  <2>2. ~ Apart(r.addr, r.size, start, SizeOf(l))
    BY <1>3, <1>4 DEF Apart
  <2>. QED
    BY <2>1, <2>2
<1>8. CoverOf(live') = Bytes(start, SizeOf(l)) \cup CoverOf(live)
  BY <1>1, <1>6 DEF CoverOf
<1>9. Cover(free') = Bytes(end, tail) \cup Cover(rest)
  <2>1. CASE tail > 0
    BY <1>1, <1>3, <1>5, <2>1, AddCover
  <2>2. CASE tail = 0
    <3>1. free' = rest
      BY <1>1, <2>2
    <3>2. Bytes(end, 0) = {}
      BY <1>3 DEF Bytes
    <3>. QED
      BY <2>2, <3>1, <3>2
  <2>. QED
    BY <1>3, <2>1, <2>2
<1>10. Bytes(r.addr, r.size) = (r.addr .. start - 1 \cup Bytes(start, SizeOf(l))) \cup Bytes(end, tail)
  <2>. HIDE DEF start, r
  <2>1. start + SizeOf(l) = end /\ end + tail = r.addr + r.size
    BY <1>3, <1>4
  <2>2. start \in Nat /\ end \in Nat /\ tail \in Nat /\ r.addr <= start
    BY <1>3
  <2>. HIDE DEF end, tail
  <2>3. r.addr \in Nat /\ r.size \in Nat /\ SizeOf(l) \in Nat
    BY <1>4
  <2>. QED
    BY <2>1, <2>2, <2>3 DEF Bytes
<1>11. Covered = r.addr .. start - 1 \cup Covered'
  <2>. HIDE DEF start, r, end, tail, rest
  <2>. QED
    BY <1>5, <1>8, <1>9, <1>10, CoveredParts
<1>12. ASSUME NEW byte \in Covered \ Covered'
       PROVE  /\ AlignOf(b.layout) > NodeAlign
              /\ b.addr - AlignOf(b.layout) < byte /\ byte < b.addr
  <2>. HIDE DEF start, r, b
  <2>1. byte \in r.addr .. start - 1
    BY <1>11
  <2>2. /\ start \in Nat /\ start < r.addr + AlignOf(l)
        /\ (AlignOf(l) = NodeAlign => start = r.addr)
    BY <1>3
  <2>. QED
    BY HeapAssumption, <1>4, <1>6, <2>1, <2>2
<1>. QED
  <2>1. b \in live' \ live
    BY <1>1, <1>7
  <2>. HIDE DEF b
  <2>. QED
    BY <1>11, <1>12, <2>1

\* What an allocation loses for good is the gap in front of a block that is aligned more
\* strictly than a node, and nothing else is ever lost (heap.rs:135-162).
THEOREM HeapNothingElseLost == Spec => NothingElseLost
<1>1. ASSUME IInv, [Next]_vars
      PROVE  [ /\ Covered' \subseteq Covered
               /\ \A byte \in Covered \ Covered' :
                    \E b \in live' \ live :
                      /\ AlignOf(b.layout) > NodeAlign
                      /\ b.addr - AlignOf(b.layout) < byte /\ byte < b.addr ]_vars
  BY <1>1, AllocLoses, DeallocLoses DEF Next
<1>. QED
  BY <1>1, Invariance, PTL DEF Spec, NothingElseLost
=============================================================================
