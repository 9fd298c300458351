------------------------------ MODULE FSProofs -------------------------------
(***************************************************************************)
(* TLAPS proofs about FS, for every image length and every image: mounting *)
(* ends within its bounds and no path of a mounted image leaves them.      *)
(***************************************************************************)
EXTENDS FS, SequenceTheorems, FiniteSetTheorems, TLAPS

-----------------------------------------------------------------------------
(* The positions of a table's entries.                                     *)

LEMMA AtMost ==
  ASSUME NEW x \in Nat, NEW y \in Nat, NEW z \in Nat, x <= y, y <= z
  PROVE  x <= z
OBVIOUS

LEMMA Steps ==
  ASSUME NEW d \in Int, d > 0, NEW i \in Int, NEW k \in Int, i < k
  PROVE  i * d + d <= k * d
<1>1. (k - i - 1) * d >= 0
  OBVIOUS
<1>2. k * d = i * d + d + (k - i - 1) * d
  OBVIOUS
<1>. QED
  BY <1>1, <1>2

LEMMA Whole ==
  ASSUME NEW d \in Int, d > 0, NEW x \in Nat, x % d = 0
  PROVE  x \div d \in Nat /\ x = (x \div d) * d
<1>1. x = d * (x \div d) + (x % d) /\ x \div d \in Int
  OBVIOUS
<1>2. x \div d >= 0
  OBVIOUS
<1>. QED
  BY <1>1, <1>2

\* Entries lie one behind the other, from the start of a whole table to its end.
LEMMA PositionsProperties ==
  ASSUME NEW t, t.off \in Nat, t.len \in Nat, t.len % DirentLen = 0
  PROVE  /\ \A q \in Positions(t) :
              /\ q \in Nat /\ t.off <= q /\ q + DirentLen <= t.off + t.len
              /\ q + DirentLen \in Positions(t) \cup {t.off + t.len}
         /\ \A q, r \in Positions(t) : q < r => q + DirentLen <= r
         /\ t.off \in Positions(t) \cup {t.off + t.len}
<1>. DEFINE n == t.len \div DirentLen
            At(i) == t.off + i * DirentLen
<1>1. DirentLen \in Int /\ DirentLen > 0
  BY FSAssumption
<1>2. n \in Nat /\ t.len = n * DirentLen
  BY <1>1, Whole
<1>3. Positions(t) = {At(i) : i \in 0 .. n - 1}
  BY DEF Positions
<1>4. t.off + t.len = At(n)
  BY <1>2
<1>5. \A i \in 0 .. n : At(i) \in Int /\ At(i) + DirentLen = At(i + 1)
  BY <1>1, <1>2
<1>6. \A i \in 0 .. n : \A k \in 0 .. n : i < k => At(i) + DirentLen <= At(k)
  <2>. SUFFICES ASSUME NEW i \in 0 .. n, NEW k \in 0 .. n, i < k
                PROVE  At(i) + DirentLen <= At(k)
    OBVIOUS
  <2>1. i * DirentLen + DirentLen <= k * DirentLen
    BY <1>1, <1>2, Steps
  <2>. QED
    BY <1>1, <1>2, <2>1
<1>7. At(0) = t.off
  BY <1>1
<1>. HIDE DEF n, At
<1>8. ASSUME NEW q \in Positions(t)
      PROVE  /\ q \in Nat /\ t.off <= q /\ q + DirentLen <= t.off + t.len
             /\ q + DirentLen \in Positions(t) \cup {t.off + t.len}
  <2>1. PICK i \in 0 .. n - 1 : q = At(i)
    BY <1>3
  <2>2. q \in Int /\ q + DirentLen = At(i + 1)
    BY <1>2, <1>5, <2>1
  <2>3. q + DirentLen <= t.off + t.len
    BY <1>2, <1>4, <1>6, <2>1
  <2>4. t.off <= q
    <3>1. CASE i = 0
      BY <1>7, <2>1, <3>1
    <3>2. CASE i > 0
      <4>1. At(0) + DirentLen <= At(i)
        BY <1>2, <1>6, <3>2
      <4>. QED
        BY <1>1, <1>7, <2>1, <2>2, <4>1
    <3>. QED
      BY <1>2, <3>1, <3>2
  <2>5. q + DirentLen \in Positions(t) \cup {t.off + t.len}
    BY <1>2, <1>3, <1>4, <2>2
  <2>. QED
    BY <2>2, <2>3, <2>4, <2>5
<1>9. ASSUME NEW q \in Positions(t), NEW r \in Positions(t), q < r
      PROVE  q + DirentLen <= r
  <2>1. PICK i \in 0 .. n - 1 : q = At(i)
    BY <1>3
  <2>2. PICK k \in 0 .. n - 1 : r = At(k)
    BY <1>3
  <2>3. i < k
    <3>1. CASE i = k
      BY <1>2, <1>5, <1>9, <2>1, <2>2, <3>1
    <3>2. CASE k < i
      <4>1. r + DirentLen <= q
        BY <1>2, <1>6, <2>1, <2>2, <3>2
      <4>. QED
        BY <1>1, <1>2, <1>5, <1>9, <2>1, <2>2, <4>1
    <3>. QED
      BY <1>2, <3>1, <3>2
  <2>. QED
    BY <1>2, <1>6, <2>1, <2>2, <2>3
<1>10. t.off \in Positions(t) \cup {t.off + t.len}
  <2>1. CASE n = 0
    BY <1>4, <1>7, <2>1
  <2>2. CASE n > 0
    BY <1>2, <1>3, <1>7, <2>2
  <2>. QED
    BY <1>2, <2>1, <2>2
<1>. QED
  BY <1>8, <1>9, <1>10

LEMMA Division ==
  ASSUME NEW d \in Int, d > 0, NEW x \in Int
  PROVE  x \div d \in Int /\ x = (x \div d) * d + (x % d) /\ x % d \in 0 .. d - 1
<1>1. x = d * (x \div d) + (x % d) /\ x \div d \in Int /\ x % d \in 0 .. d - 1
  OBVIOUS
<1>. QED
  BY <1>1

LEMMA QuotientsApart ==
  ASSUME NEW d \in Int, d > 0, NEW x \in Int, NEW y \in Int, x + d <= y
  PROVE  x \div d + 1 <= y \div d
<1>. DEFINE a == x \div d
            b == y \div d
            r == x % d
            s == y % d
<1>1. a \in Int /\ x = a * d + r /\ r \in 0 .. d - 1
  BY Division
<1>2. b \in Int /\ y = b * d + s /\ s \in 0 .. d - 1
  BY Division
<1>. HIDE DEF a, b, r, s
<1>3. CASE b = a
  BY <1>1, <1>2, <1>3
<1>4. CASE b < a
  <2>1. b * d + d <= a * d
    BY <1>1, <1>2, <1>4, Steps
  <2>. QED
    BY <1>1, <1>2, <2>1
<1>5. a + 1 <= b
  BY <1>1, <1>2, <1>3, <1>4
<1>. QED
  BY <1>5 DEF a, b

\* So many entries that do not overlap fit between two positions.
LEMMA SpacedBound ==
  ASSUME NEW P, NEW from \in Nat, NEW to \in Nat, from <= to,
         \A p \in P : p \in Nat /\ from <= p /\ p + DirentLen <= to,
         \A p, q \in P : p < q => p + DirentLen <= q
  PROVE  from + Cardinality(P) * DirentLen <= to
<1>. DEFINE n == (to - from) \div DirentLen
            f == [p \in P |-> (p - from) \div DirentLen]
<1>1. DirentLen \in Int /\ DirentLen > 0
  BY FSAssumption
<1>2. n \in Int /\ n * DirentLen <= to - from
  <2>. DEFINE r == (to - from) % DirentLen
  <2>1. n \in Int /\ to - from = n * DirentLen + r /\ r \in 0 .. DirentLen - 1
    BY <1>1, Division
  <2>. HIDE DEF n, r
  <2>. QED
    BY <1>1, <2>1
<1>3. n >= 0
  <2>1. 0 \div DirentLen = 0
    BY <1>1
  <2>2. CASE to - from < DirentLen
    BY <1>1, <2>2
  <2>3. CASE 0 + DirentLen <= to - from
    <3>1. 0 \div DirentLen + 1 <= n
      BY <1>1, <2>3, QuotientsApart
    <3>. HIDE DEF n
    <3>. QED
      BY <1>2, <2>1, <3>1
  <2>. QED
    BY <1>1, <2>2, <2>3
<1>4. ASSUME NEW p \in P
      PROVE  f[p] \in 0 .. n - 1
  <2>1. p \in Nat /\ from <= p /\ p + DirentLen <= to
    OBVIOUS
  <2>2. f[p] \in Int /\ f[p] + 1 <= n
    <3>1. (p - from) + DirentLen <= to - from
      BY <1>1, <2>1
    <3>. QED
      BY <1>1, <2>1, <3>1, QuotientsApart, Division
  <2>3. f[p] >= 0
    BY <1>1, <2>1
  <2>. HIDE DEF f, n
  <2>. QED
    BY <1>2, <2>2, <2>3
<1>5. ASSUME NEW p \in P, NEW q \in P, p < q
      PROVE  f[p] # f[q]
  <2>1. (p - from) + DirentLen <= q - from
    BY <1>1, <1>5
  <2>2. f[p] + 1 <= f[q]
    BY <1>1, <2>1, QuotientsApart
  <2>. HIDE DEF f, n
  <2>. QED
    BY <1>2, <1>4, <2>2
<1>6. f \in [P -> 0 .. n - 1]
  <2>. HIDE DEF n
  <2>. QED
    BY <1>4
<1>. HIDE DEF f, n
<1>7. f \in Injection(P, 0 .. n - 1)
  <2>1. \A p, q \in P : f[p] = f[q] => p = q
    BY <1>5
  <2>. QED
    BY <1>6, <2>1, Zenon DEF Injection, IsInjective
<1>8. Cardinality(P) <= n /\ Cardinality(P) \in Nat
  <2>1. IsFiniteSet(0 .. n - 1) /\ Cardinality(0 .. n - 1) = n
    BY <1>2, <1>3, FS_Interval
  <2>2. IsFiniteSet(P) /\ Cardinality(P) <= Cardinality(0 .. n - 1)
    BY <1>7, <2>1, FS_Injection, ZenonT(40)
  <2>3. Cardinality(P) \in Nat
    BY <2>2, FS_CardinalityType, Zenon
  <2>. QED
    BY <2>1, <2>2, <2>3
<1>9. Cardinality(P) * DirentLen <= n * DirentLen
  <2>1. CASE Cardinality(P) = n
    BY <1>1, <1>2, <2>1
  <2>2. CASE Cardinality(P) < n
    <3>1. Cardinality(P) * DirentLen + DirentLen <= n * DirentLen
      BY <1>1, <1>2, <1>8, <2>2, Steps
    <3>. QED
      BY <1>1, <1>2, <1>8, <3>1
  <2>. QED
    BY <1>2, <1>8, <2>1, <2>2
<1>10. Cardinality(P) * DirentLen \in Int /\ n * DirentLen \in Int
  BY <1>1, <1>2, <1>8
<1>. QED
  BY <1>2, <1>9, <1>10

-----------------------------------------------------------------------------
(* What holds while the image is validated: sn are the entries read, st the *)
(* open calls, hw the high-water mark, top the ceiling of the extents and d *)
(* the depth each entry was found at.                                       *)

Call == [off : Nat, len : Nat, next : Nat]
Table(off, len) == Positions([off |-> off, len |-> len])
Start(e) == e.extent[1]
End(e) == e.extent[1] + e.extent[2]
Dirs(sn) == {p \in DOMAIN sn : sn[p].kind = "dir"}

EntriesOK(sn, hw, top) ==
  \A p \in DOMAIN sn :
    /\ p \in Nat /\ SuperblockLen <= p /\ p + DirentLen <= hw
    /\ sn[p] \in Entry /\ sn[p].kind # "bad" /\ End(sn[p]) <= top /\ End(sn[p]) <= ImageLen
Spaced(sn) == \A p, q \in DOMAIN sn : p < q => p + DirentLen <= q

CallsOK(st, hw) ==
  /\ st \in Seq(Call) /\ Len(st) <= MaxDepth + 1
  /\ \A i \in 1 .. Len(st) :
       /\ st[i].len % DirentLen = 0 /\ SuperblockLen <= st[i].off
       /\ st[i].off + st[i].len <= hw
       /\ st[i].next \in Table(st[i].off, st[i].len) \cup {st[i].off + st[i].len}
\* An inner call's table lies behind the outer ones.
Nested(st) ==
  \A i, j \in 1 .. Len(st) : i < j => st[j].off + st[j].len <= st[i].off

\* What was read lies in front of a call's next entry or behind its table ...
NotAgain(sn, st) ==
  \A p \in DOMAIN sn : \A i \in 1 .. Len(st) :
    p + DirentLen <= st[i].next \/ st[i].off + st[i].len <= p
\* ... and all in front of it within the table was read.
ReadSoFar(sn, st, d) ==
  \A i \in 1 .. Len(st) : \A q \in Table(st[i].off, st[i].len) :
    q < st[i].next => q \in DOMAIN sn /\ d[q] = Len(st) - i

DirsForward(sn, hw) ==
  \A p \in Dirs(sn) :
    /\ p + DirentLen <= Start(sn[p]) /\ End(sn[p]) <= hw
    /\ sn[p].extent[2] % DirentLen = 0
DirsApart(sn) ==
  \A p, q \in Dirs(sn) :
    p # q => End(sn[p]) <= Start(sn[q]) \/ End(sn[q]) <= Start(sn[p])

\* A directory was read to its end, one level below its entry, or is being read.
Complete(sn, d, p) ==
  \A q \in Table(Start(sn[p]), sn[p].extent[2]) : q \in DOMAIN sn /\ d[q] = d[p] + 1
Open(sn, st, d, p) ==
  \E i \in 1 .. Len(st) - 1 :
    st[i].off = Start(sn[p]) /\ st[i].len = sn[p].extent[2] /\ d[p] + 1 = Len(st) - i
DepthsOK(sn, st, d) ==
  /\ d \in [DOMAIN sn -> 0 .. MaxDepth]
  /\ \A p \in Dirs(sn) : d[p] + 1 <= MaxDepth /\ (Complete(sn, d, p) \/ Open(sn, st, d, p))

EntriesInv(sn, hw, top) ==
  /\ hw \in Nat /\ SuperblockLen <= hw /\ hw <= ImageLen /\ IsFiniteSet(DOMAIN sn)
  /\ EntriesOK(sn, hw, top) /\ Spaced(sn) /\ DirsForward(sn, hw) /\ DirsApart(sn)
CallsInv(st, hw) == CallsOK(st, hw) /\ Nested(st)
WalkInv(sn, st, d) == NotAgain(sn, st) /\ ReadSoFar(sn, st, d) /\ DepthsOK(sn, st, d)

LEMMA TableProperties ==
  ASSUME NEW off \in Nat, NEW len \in Nat, len % DirentLen = 0
  PROVE  /\ \A q \in Table(off, len) :
              /\ q \in Nat /\ off <= q /\ q + DirentLen <= off + len
              /\ q + DirentLen \in Table(off, len) \cup {off + len}
         /\ \A q, r \in Table(off, len) : q < r => q + DirentLen <= r
         /\ off \in Table(off, len) \cup {off + len}
<1>. DEFINE t == [off |-> off, len |-> len]
<1>1. t.off = off /\ t.len = len /\ Table(off, len) = Positions(t)
  BY DEF Table
<1>. HIDE DEF t
<1>2. t.off \in Nat /\ t.len \in Nat /\ t.len % DirentLen = 0
  BY <1>1
<1>. QED
  BY <1>1, <1>2, PositionsProperties

LEMMA Cons ==
  ASSUME NEW S, NEW s \in Seq(S), NEW x \in S
  PROVE  /\ <<x>> \o s \in Seq(S) /\ Len(<<x>> \o s) = Len(s) + 1
         /\ (<<x>> \o s)[1] = x
         /\ \A i \in 2 .. Len(s) + 1 : (<<x>> \o s)[i] = s[i - 1]
<1>1. <<x>> \in Seq(S) /\ Len(<<x>>) = 1 /\ <<x>>[1] = x
  OBVIOUS
<1>. QED
  BY <1>1, ConcatProperties

LEMMA EntryTypes ==
  ASSUME NEW e \in Entry
  PROVE  /\ Start(e) \in Nat /\ e.extent[2] \in Nat /\ End(e) = Start(e) + e.extent[2]
         /\ e.kind \in Kinds
BY FSAssumption DEF Entry, Start, End

-----------------------------------------------------------------------------
(* validate_dir enters a table behind all the others.                      *)

Entered(st, off, len) == <<[off |-> off, len |-> len, next |-> off]>> \o st

\* to is st with such a call in front.
Pushed(to, st, off, len) ==
  /\ CallsInv(to, off + len) /\ Len(to) = Len(st) + 1
  /\ to[1] = [off |-> off, len |-> len, next |-> off]
  /\ \A i \in 2 .. Len(to) : to[i] = st[i - 1] /\ i - 1 \in 1 .. Len(st)

LEMMA PushCalls ==
  ASSUME NEW st, NEW hw \in Nat, CallsInv(st, hw), NEW off \in Nat, NEW len \in Nat,
         hw <= off, SuperblockLen <= off, len % DirentLen = 0, Len(st) <= MaxDepth
  PROVE  Pushed(Entered(st, off, len), st, off, len)
<1>. DEFINE to == Entered(st, off, len)
            new == [off |-> off, len |-> len, next |-> off]
<1>1. new \in Call /\ new.off = off /\ new.len = len /\ new.next = off
  BY DEF Call
<1>. HIDE DEF new
<1>2. st \in Seq(Call) /\ Len(st) \in Nat
  BY DEF CallsInv, CallsOK
<1>3. to \in Seq(Call) /\ Len(to) = Len(st) + 1 /\ to[1] = new
  BY <1>1, <1>2, Cons DEF new, Entered
<1>4. \A i \in 2 .. Len(to) : to[i] = st[i - 1] /\ i - 1 \in 1 .. Len(st)
  <2>1. \A i \in 2 .. Len(st) + 1 : to[i] = st[i - 1]
    BY <1>1, <1>2, Cons DEF new, Entered
  <2>. QED
    BY <1>2, <1>3, <2>1
<1>. HIDE DEF to
<1>5. ASSUME NEW i \in 1 .. Len(st)
      PROVE  /\ st[i].len % DirentLen = 0 /\ SuperblockLen <= st[i].off
             /\ st[i].off \in Nat /\ st[i].len \in Nat /\ st[i].off + st[i].len \in Nat
             /\ st[i].off + st[i].len <= hw
             /\ st[i].next \in Table(st[i].off, st[i].len) \cup {st[i].off + st[i].len}
  <2>1. st[i] \in Call
    BY <1>2, ElementOfSeq
  <2>2. st[i].off \in Nat /\ st[i].len \in Nat /\ st[i].off + st[i].len \in Nat
    BY <2>1 DEF Call
  <2>. QED
    BY <2>2 DEF CallsInv, CallsOK
<1>6. off \in Table(off, len) \cup {off + len}
  BY TableProperties
<1>7. CallsOK(to, off + len)
  <2>1. ASSUME NEW i \in 1 .. Len(to)
        PROVE  /\ to[i].len % DirentLen = 0 /\ SuperblockLen <= to[i].off
               /\ to[i].off + to[i].len <= off + len
               /\ to[i].next \in Table(to[i].off, to[i].len) \cup {to[i].off + to[i].len}
    <3>1. CASE i = 1
      BY <1>1, <1>3, <1>6, <3>1
    <3>2. CASE i \in 2 .. Len(to)
      <4>. DEFINE c == st[i - 1]
      <4>1. /\ c.len % DirentLen = 0 /\ SuperblockLen <= c.off
            /\ c.off \in Nat /\ c.len \in Nat /\ c.off + c.len <= hw
            /\ c.next \in Table(c.off, c.len) \cup {c.off + c.len} /\ to[i] = c
        BY <1>4, <1>5, <3>2
      <4>. HIDE DEF c
      <4>2. c.off + c.len <= off + len
        BY <4>1
      <4>. QED
        BY <4>1, <4>2
    <3>. QED
      BY <1>2, <1>3, <3>1, <3>2
  <2>2. Len(to) <= MaxDepth + 1
    BY <1>2, <1>3, FSAssumption
  <2>. QED
    BY <1>3, <2>1, <2>2 DEF CallsOK
<1>8. Nested(to)
  <2>1. ASSUME NEW i \in 1 .. Len(to), NEW j \in 1 .. Len(to), i < j
        PROVE  to[j].off + to[j].len <= to[i].off
    <3>1. to[j] = st[j - 1] /\ j - 1 \in 1 .. Len(st)
      BY <1>2, <1>3, <1>4, <2>1
    <3>2. CASE i = 1
      <4>1. to[i].off = off
        BY <1>1, <1>3, <3>2
      <4>2. to[j].off + to[j].len <= hw /\ to[j].off + to[j].len \in Nat
        BY <1>5, <3>1
      <4>3. to[j].off + to[j].len <= off
        BY <4>2, AtMost
      <4>. QED
        BY <4>1, <4>3
    <3>3. CASE i # 1
      <4>1. to[i] = st[i - 1] /\ i - 1 \in 1 .. Len(st) /\ i - 1 < j - 1
        BY <1>2, <1>3, <1>4, <2>1, <3>3
      <4>. QED
        BY <3>1, <4>1 DEF CallsInv, Nested
    <3>. QED
      BY <3>2, <3>3
  <2>. QED
    BY <2>1 DEF Nested
<1>. QED
  BY <1>3, <1>4, <1>7, <1>8 DEF CallsInv, Pushed, new, to

LEMMA PushWalk ==
  ASSUME NEW sn, NEW st, NEW d, NEW hw \in Nat, NEW top, EntriesInv(sn, hw, top),
         CallsInv(st, hw), WalkInv(sn, st, d), NEW off \in Nat, NEW len \in Nat,
         hw <= off, len % DirentLen = 0,
         NEW to, Pushed(to, st, off, len)
  PROVE  WalkInv(sn, to, d)
<1>1. /\ to[1].off = off /\ to[1].len = len /\ to[1].next = off /\ Len(st) \in Nat
      /\ Len(to) = Len(st) + 1
      /\ \A i \in 2 .. Len(to) : to[i] = st[i - 1] /\ i - 1 \in 1 .. Len(st)
  BY DEF CallsInv, CallsOK, Pushed
<1>2. NotAgain(sn, to)
  <2>1. ASSUME NEW p \in DOMAIN sn, NEW i \in 1 .. Len(to)
        PROVE  p + DirentLen <= to[i].next \/ to[i].off + to[i].len <= p
    <3>1. p \in Nat /\ p + DirentLen <= hw
      BY DEF EntriesInv, EntriesOK
    <3>2. CASE i = 1
      BY <1>1, <3>1, <3>2, FSAssumption
    <3>3. CASE i # 1
      <4>1. to[i] = st[i - 1] /\ i - 1 \in 1 .. Len(st)
        BY <1>1, <3>3
      <4>. QED
        BY <4>1 DEF WalkInv, NotAgain
    <3>. QED
      BY <3>2, <3>3
  <2>. QED
    BY <2>1 DEF NotAgain
<1>3. ReadSoFar(sn, to, d)
  <2>1. ASSUME NEW i \in 1 .. Len(to), NEW q \in Table(to[i].off, to[i].len),
               q < to[i].next
        PROVE  q \in DOMAIN sn /\ d[q] = Len(to) - i
    <3>1. CASE i = 1
      <4>1. q \in Nat /\ off <= q
        BY <1>1, <3>1, TableProperties
      <4>. QED
        BY <1>1, <2>1, <3>1, <4>1
    <3>2. CASE i # 1
      <4>1. to[i] = st[i - 1] /\ i - 1 \in 1 .. Len(st)
        BY <1>1, <3>2
      <4>2. q \in DOMAIN sn /\ d[q] = Len(st) - (i - 1)
        BY <2>1, <4>1 DEF WalkInv, ReadSoFar
      <4>. QED
        BY <1>1, <4>2
    <3>. QED
      BY <3>1, <3>2
  <2>. QED
    BY <2>1 DEF ReadSoFar
<1>4. DepthsOK(sn, to, d)
  <2>1. ASSUME NEW p \in Dirs(sn), Open(sn, st, d, p)
        PROVE  Open(sn, to, d, p)
    <3>1. PICK i \in 1 .. Len(st) - 1 :
            /\ st[i].off = Start(sn[p]) /\ st[i].len = sn[p].extent[2]
            /\ d[p] + 1 = Len(st) - i
      BY <2>1 DEF Open
    <3>2. i + 1 \in 2 .. Len(to) /\ i + 1 \in 1 .. Len(to) - 1 /\ (i + 1) - 1 = i
      BY <1>1
    <3>3. to[i + 1] = st[i]
      BY <1>1, <3>2
    <3>4. d[p] + 1 = Len(to) - (i + 1)
      BY <1>1, <3>1
    <3>. QED
      BY <3>1, <3>2, <3>3, <3>4 DEF Open
  <2>. QED
    BY <2>1 DEF WalkInv, DepthsOK
<1>. QED
  BY <1>2, <1>3, <1>4 DEF WalkInv

-----------------------------------------------------------------------------
(* The loop's body reads the next entry of call number k.  That is the     *)
(* innermost call for a file; for a directory, whose call is entered in    *)
(* the same step, it is the one around it.                                 *)

\* to is st with call k behind the entry.
Advanced(st, to, k) ==
  /\ to \in Seq(Call) /\ Len(to) = Len(st) /\ k \in 1 .. Len(st)
  /\ \A i \in 1 .. Len(st) : to[i].off = st[i].off /\ to[i].len = st[i].len
  /\ \A i \in 1 .. Len(st) : i # k => to[i].next = st[i].next
  /\ to[k].next = st[k].next + DirentLen
\* Entry e may be read there.
Readable(sn, st, k, e, top) ==
  /\ st[k].next < st[k].off + st[k].len
  /\ e \in Entry /\ e.kind # "bad" /\ End(e) <= top /\ End(e) <= ImageLen
  /\ IF e.kind = "dir"
     THEN /\ k = 2 /\ st[1].off = Start(e) /\ st[1].len = e.extent[2]
          /\ \A q \in Dirs(sn) : End(sn[q]) <= Start(e)
     ELSE k = 1
Added(sn, p, e) == [q \in DOMAIN sn \cup {p} |-> IF q = p THEN e ELSE sn[q]]

LEMMA CallTypes ==
  ASSUME NEW st, NEW hw, CallsInv(st, hw), NEW i \in 1 .. Len(st)
  PROVE  /\ st[i] \in Call /\ st[i].off \in Nat /\ st[i].len \in Nat /\ st[i].next \in Nat
         /\ st[i].len % DirentLen = 0 /\ SuperblockLen <= st[i].off
         /\ st[i].off + st[i].len <= hw /\ Len(st) \in Nat /\ Len(st) <= MaxDepth + 1
         /\ st[i].next \in Table(st[i].off, st[i].len) \cup {st[i].off + st[i].len}
<1>1. st[i] \in Call
  BY ElementOfSeq DEF CallsInv, CallsOK
<1>2. st[i].off \in Nat /\ st[i].len \in Nat /\ st[i].next \in Nat
  BY <1>1 DEF Call
<1>3. Len(st) \in Nat
  BY DEF CallsInv, CallsOK
<1>. QED
  BY <1>1, <1>2, <1>3 DEF CallsInv, CallsOK

\* The entry to be read was not read before and overlaps none that was.
LEMMA NextIsNew ==
  ASSUME NEW sn, NEW st, NEW d, NEW hw \in Nat, NEW top, EntriesInv(sn, hw, top),
         CallsInv(st, hw), WalkInv(sn, st, d), NEW k \in 1 .. Len(st),
         st[k].next < st[k].off + st[k].len
  PROVE  LET p == st[k].next
         IN  /\ p \in Nat /\ p \notin DOMAIN sn /\ p \in Table(st[k].off, st[k].len)
             /\ st[k].off <= p /\ p + DirentLen <= st[k].off + st[k].len
             /\ \A q \in DOMAIN sn : q + DirentLen <= p \/ p + DirentLen <= q
<1>. DEFINE p == st[k].next
            end == st[k].off + st[k].len
<1>1. /\ st[k].off \in Nat /\ st[k].len \in Nat /\ st[k].len % DirentLen = 0
      /\ p \in Table(st[k].off, st[k].len) \cup {end}
  BY CallTypes
<1>2. p \in Table(st[k].off, st[k].len)
  BY <1>1
<1>3. p \in Nat /\ st[k].off <= p /\ p + DirentLen <= end
  BY <1>1, <1>2, TableProperties
<1>4. ASSUME NEW q \in DOMAIN sn
      PROVE  q \in Nat /\ (q + DirentLen <= p \/ end <= q)
  BY DEF EntriesInv, EntriesOK, WalkInv, NotAgain
<1>5. DirentLen \in Int /\ DirentLen > 0
  BY FSAssumption
<1>. HIDE DEF p, end
<1>6. end \in Int
  BY <1>1 DEF end
<1>7. ASSUME NEW q \in DOMAIN sn
      PROVE  q + DirentLen <= p \/ p + DirentLen <= q
  BY <1>3, <1>4, <1>5, <1>6
<1>8. p \notin DOMAIN sn
  BY <1>3, <1>5, <1>7
<1>9. p + DirentLen <= end
  BY <1>3
<1>. QED
  BY <1>2, <1>3, <1>7, <1>8 DEF p, end

LEMMA ReadEntries ==
  ASSUME NEW sn, NEW st, NEW d, NEW hw \in Nat, NEW top, EntriesInv(sn, hw, top),
         CallsInv(st, hw), WalkInv(sn, st, d), NEW k \in 1 .. Len(st), NEW e,
         Readable(sn, st, k, e, top)
  PROVE  /\ EntriesInv(Added(sn, st[k].next, e), hw, top)
         /\ Cardinality(DOMAIN Added(sn, st[k].next, e)) = Cardinality(DOMAIN sn) + 1
<1>. DEFINE p == st[k].next
            n == Added(sn, p, e)
<1>1. /\ p \in Nat /\ p \notin DOMAIN sn /\ st[k].off <= p
      /\ p + DirentLen <= st[k].off + st[k].len
      /\ \A q \in DOMAIN sn : q + DirentLen <= p \/ p + DirentLen <= q
  BY NextIsNew DEF Readable
<1>2. /\ SuperblockLen <= st[k].off /\ st[k].off \in Nat /\ st[k].len \in Nat
      /\ st[k].off + st[k].len <= hw
  BY CallTypes
<1>3. /\ DOMAIN n = DOMAIN sn \cup {p} /\ n[p] = e
      /\ \A q \in DOMAIN sn : q # p /\ n[q] = sn[q]
  BY <1>1 DEF Added
<1>. HIDE DEF p, n
<1>4. SuperblockLen <= p /\ p + DirentLen <= hw /\ DirentLen \in Int /\ SuperblockLen \in Int
  <2>1. DirentLen \in Int /\ SuperblockLen \in Int
    BY FSAssumption
  <2>2. st[k].off + st[k].len \in Nat
    BY <1>2
  <2>. QED
    BY <1>1, <1>2, <2>1, <2>2
<1>5. EntriesOK(n, hw, top)
  <2>1. ASSUME NEW q \in DOMAIN n
        PROVE  /\ q \in Nat /\ SuperblockLen <= q /\ q + DirentLen <= hw
               /\ n[q] \in Entry /\ n[q].kind # "bad" /\ End(n[q]) <= top
               /\ End(n[q]) <= ImageLen
    <3>1. CASE q = p
      BY <1>1, <1>3, <1>4, <3>1 DEF Readable
    <3>2. CASE q \in DOMAIN sn
      BY <1>3, <3>2 DEF EntriesInv, EntriesOK
    <3>. QED
      BY <1>3, <3>1, <3>2
  <2>. QED
    BY <2>1 DEF EntriesOK
<1>6. Spaced(n)
  <2>1. ASSUME NEW q \in DOMAIN n, NEW r \in DOMAIN n, q < r
        PROVE  q + DirentLen <= r
    <3>1. DirentLen \in Int /\ DirentLen > 0 /\ q \in Nat /\ r \in Nat
      BY <1>5, FSAssumption DEF EntriesOK
    <3>2. CASE q \in DOMAIN sn /\ r \in DOMAIN sn
      BY <2>1, <3>2 DEF EntriesInv, Spaced
    <3>3. CASE q = p /\ r \in DOMAIN sn
      <4>1. r + DirentLen <= p \/ p + DirentLen <= r
        BY <1>1, <3>3
      <4>. QED
        BY <2>1, <3>1, <3>3, <4>1
    <3>4. CASE q \in DOMAIN sn /\ r = p
      <4>1. q + DirentLen <= p \/ p + DirentLen <= q
        BY <1>1, <3>4
      <4>. QED
        BY <2>1, <3>1, <3>4, <4>1
    <3>. QED
      BY <1>3, <2>1, <3>1, <3>2, <3>3, <3>4
  <2>. QED
    BY <2>1 DEF Spaced
<1>7. ASSUME NEW q \in Dirs(n)
      PROVE  (q = p /\ e.kind = "dir") \/ (q # p /\ q \in Dirs(sn))
  <2>1. q \in DOMAIN n /\ n[q].kind = "dir"
    BY DEF Dirs
  <2>2. CASE q = p
    BY <1>3, <2>1, <2>2
  <2>3. CASE q \in DOMAIN sn
    BY <1>3, <2>1, <2>3 DEF Dirs
  <2>. QED
    BY <1>3, <2>1, <2>2, <2>3
<1>8. e.kind = "dir" =>
        /\ st[1].off = Start(e) /\ st[1].len = e.extent[2] /\ p + DirentLen <= Start(e)
        /\ End(e) <= hw /\ e.extent[2] % DirentLen = 0
        /\ \A q \in Dirs(sn) : End(sn[q]) <= Start(e)
  <2>. SUFFICES ASSUME e.kind = "dir"
                PROVE  /\ st[1].off = Start(e) /\ st[1].len = e.extent[2]
                       /\ p + DirentLen <= Start(e)
                       /\ End(e) <= hw /\ e.extent[2] % DirentLen = 0
                       /\ \A q \in Dirs(sn) : End(sn[q]) <= Start(e)
    OBVIOUS
  <2>1. /\ k = 2 /\ st[1].off = Start(e) /\ st[1].len = e.extent[2]
        /\ \A q \in Dirs(sn) : End(sn[q]) <= Start(e)
    BY DEF Readable
  <2>2. 1 \in 1 .. Len(st)
    BY <2>1
  <2>3. /\ st[1].len % DirentLen = 0 /\ st[1].off + st[1].len <= hw
        /\ st[1].off \in Nat /\ st[1].len \in Nat
    BY <2>2, CallTypes
  <2>4. st[k].off + st[k].len <= st[1].off
    BY <2>1, <2>2 DEF CallsInv, Nested
  <2>5. End(e) = Start(e) + e.extent[2]
    BY DEF Start, End
  <2>6. p + DirentLen <= st[1].off
    <3>1. st[k].off + st[k].len \in Nat /\ p + DirentLen <= st[k].off + st[k].len
      BY <1>1, <1>2
    <3>. QED
      BY <1>1, <1>4, <2>3, <2>4, <3>1
  <2>7. End(e) = st[1].off + st[1].len /\ Start(e) = st[1].off /\ e.extent[2] = st[1].len
    BY <2>1, <2>5
  <2>. QED
    BY <2>1, <2>3, <2>6, <2>7
<1>9. DirsForward(n, hw)
  <2>1. ASSUME NEW q \in Dirs(n)
        PROVE  /\ q + DirentLen <= Start(n[q]) /\ End(n[q]) <= hw
               /\ n[q].extent[2] % DirentLen = 0
    <3>1. CASE q = p
      BY <1>3, <1>7, <1>8, <3>1
    <3>2. CASE q \in Dirs(sn) /\ q # p
      <4>1. n[q] = sn[q]
        BY <1>3, <3>2 DEF Dirs
      <4>. QED
        BY <3>2, <4>1 DEF EntriesInv, DirsForward
    <3>. QED
      BY <1>7, <3>1, <3>2
  <2>. QED
    BY <2>1 DEF DirsForward
<1>10. DirsApart(n)
  <2>1. \A q \in Dirs(sn) : q # p /\ n[q] = sn[q]
    BY <1>3 DEF Dirs
  <2>2. ASSUME NEW q \in Dirs(n), NEW r \in Dirs(n), q # r
        PROVE  End(n[q]) <= Start(n[r]) \/ End(n[r]) <= Start(n[q])
    <3>1. CASE q = p
      BY <1>3, <1>7, <1>8, <2>1, <2>2, <3>1
    <3>2. CASE r = p
      BY <1>3, <1>7, <1>8, <2>1, <2>2, <3>2
    <3>3. CASE q # p /\ r # p
      <4>1. q \in Dirs(sn) /\ r \in Dirs(sn)
        BY <1>7, <3>3
      <4>. QED
        BY <2>1, <2>2, <4>1 DEF EntriesInv, DirsApart
    <3>. QED
      BY <3>1, <3>2, <3>3
  <2>. QED
    BY <2>2 DEF DirsApart
<1>11. IsFiniteSet(DOMAIN n) /\ Cardinality(DOMAIN n) = Cardinality(DOMAIN sn) + 1
  BY <1>1, <1>3, FS_AddElement DEF EntriesInv
<1>12. EntriesInv(n, hw, top)
  BY <1>5, <1>6, <1>9, <1>10, <1>11 DEF EntriesInv
<1>. QED
  BY <1>11, <1>12 DEF p, n

LEMMA ReadCalls ==
  ASSUME NEW st, NEW hw, CallsInv(st, hw), NEW to, NEW k, Advanced(st, to, k),
         st[k].next < st[k].off + st[k].len
  PROVE  CallsInv(to, hw)
<1>1. /\ to \in Seq(Call) /\ Len(to) = Len(st) /\ k \in 1 .. Len(st)
      /\ \A i \in 1 .. Len(st) : to[i].off = st[i].off /\ to[i].len = st[i].len
  BY DEF Advanced
<1>2. Nested(to)
  BY <1>1 DEF CallsInv, Nested
<1>3. ASSUME NEW i \in 1 .. Len(to)
      PROVE  /\ to[i].len % DirentLen = 0 /\ SuperblockLen <= to[i].off
             /\ to[i].off + to[i].len <= hw
             /\ to[i].next \in Table(to[i].off, to[i].len) \cup {to[i].off + to[i].len}
  <2>1. /\ st[i].len % DirentLen = 0 /\ SuperblockLen <= st[i].off
        /\ st[i].off + st[i].len <= hw /\ st[i].off \in Nat /\ st[i].len \in Nat
        /\ st[i].next \in Table(st[i].off, st[i].len) \cup {st[i].off + st[i].len}
    BY <1>1, CallTypes
  <2>2. to[i].next \in Table(st[i].off, st[i].len) \cup {st[i].off + st[i].len}
    <3>1. CASE i = k
      <4>1. to[i].next = st[i].next + DirentLen /\ st[i].next < st[i].off + st[i].len
        BY <3>1 DEF Advanced
      <4>2. st[i].next \in Table(st[i].off, st[i].len)
        BY <2>1, <4>1
      <4>. QED
        BY <2>1, <4>1, <4>2, TableProperties
    <3>2. CASE i # k
      BY <1>1, <2>1, <3>2 DEF Advanced
    <3>. QED
      BY <3>1, <3>2
  <2>. QED
    BY <1>1, <2>1, <2>2
<1>4. CallsOK(to, hw)
  BY <1>1, <1>3 DEF CallsInv, CallsOK
<1>. QED
  BY <1>2, <1>4 DEF CallsInv

LEMMA ReadWalk ==
  ASSUME NEW sn, NEW st, NEW d, NEW hw \in Nat, NEW top, EntriesInv(sn, hw, top),
         CallsInv(st, hw), WalkInv(sn, st, d), NEW e, NEW to, NEW k,
         Advanced(st, to, k), Readable(sn, st, k, e, top)
  PROVE  WalkInv(Added(sn, st[k].next, e), to, Added(d, st[k].next, Len(st) - k))
<1>. DEFINE p == st[k].next
            n == Added(sn, p, e)
            c == Added(d, p, Len(st) - k)
<1>1. /\ to \in Seq(Call) /\ Len(to) = Len(st) /\ k \in 1 .. Len(st)
      /\ \A i \in 1 .. Len(st) : to[i].off = st[i].off /\ to[i].len = st[i].len
      /\ \A i \in 1 .. Len(st) : i # k => to[i].next = st[i].next
      /\ to[k].next = p + DirentLen
  BY DEF Advanced
<1>2. /\ p \in Nat /\ p \notin DOMAIN sn /\ p \in Table(st[k].off, st[k].len)
      /\ st[k].off <= p /\ p + DirentLen <= st[k].off + st[k].len
  BY <1>1, NextIsNew DEF Readable
<1>3. d \in [DOMAIN sn -> 0 .. MaxDepth]
  BY DEF WalkInv, DepthsOK
<1>4. /\ DOMAIN n = DOMAIN sn \cup {p} /\ n[p] = e
      /\ \A q \in DOMAIN sn : q # p /\ n[q] = sn[q]
  BY <1>2 DEF Added
<1>5. /\ DOMAIN c = DOMAIN n /\ c[p] = Len(st) - k
      /\ \A q \in DOMAIN sn : c[q] = d[q]
  BY <1>2, <1>3 DEF Added
<1>6. DirentLen \in Int /\ DirentLen > 0 /\ Len(st) \in Nat /\ Len(st) <= MaxDepth + 1
  BY <1>1, CallTypes, FSAssumption
<1>7. c \in [DOMAIN n -> 0 .. MaxDepth]
  <2>1. Len(st) - k \in 0 .. MaxDepth
    BY <1>1, <1>6, FSAssumption
  <2>. QED
    BY <1>3, <2>1 DEF Added
<1>. HIDE DEF p, n, c
<1>8. ASSUME NEW i \in 1 .. Len(st)
      PROVE  /\ st[i].off \in Nat /\ st[i].len \in Nat /\ st[i].next \in Nat
             /\ st[i].len % DirentLen = 0
             /\ st[i].next \in Table(st[i].off, st[i].len) \cup {st[i].off + st[i].len}
             /\ st[i].off <= st[i].next
  <2>1. /\ st[i].off \in Nat /\ st[i].len \in Nat /\ st[i].next \in Nat
        /\ st[i].len % DirentLen = 0
        /\ st[i].next \in Table(st[i].off, st[i].len) \cup {st[i].off + st[i].len}
    BY CallTypes
  <2>2. st[i].off <= st[i].next
    <3>1. CASE st[i].next \in Table(st[i].off, st[i].len)
      BY <2>1, <3>1, TableProperties
    <3>. QED
      BY <2>1, <3>1
  <2>. QED
    BY <2>1, <2>2
<1>9. NotAgain(n, to)
  <2>1. ASSUME NEW q \in DOMAIN n, NEW i \in 1 .. Len(to)
        PROVE  q + DirentLen <= to[i].next \/ to[i].off + to[i].len <= q
    <3>1. i \in 1 .. Len(st) /\ to[i].off = st[i].off /\ to[i].len = st[i].len
      BY <1>1
    <3>2. CASE q = p /\ i = k
      BY <1>1, <3>2, <1>2, <1>6
    <3>3. CASE q = p /\ i > k
      <4>1. st[i].off + st[i].len <= st[k].off
        BY <1>1, <3>1, <3>3 DEF CallsInv, Nested
      <4>2. st[k].off \in Nat /\ st[i].off + st[i].len \in Nat
        BY <1>1, <1>8, <3>1
      <4>. QED
        BY <1>2, <3>1, <3>3, <4>1, <4>2
    <3>4. CASE q = p /\ i < k
      <4>1. st[k].off + st[k].len <= st[i].off
        BY <1>1, <3>1, <3>4 DEF CallsInv, Nested
      <4>2. to[i].next = st[i].next
        BY <1>1, <3>1, <3>4
      <4>3. st[i].off <= st[i].next /\ st[i].off \in Nat /\ st[i].next \in Nat
        BY <1>8, <3>1
      <4>4. st[k].off + st[k].len \in Nat
        BY <1>1, <1>8
      <4>5. q + DirentLen <= st[k].off + st[k].len
        BY <1>2, <3>4
      <4>6. q + DirentLen \in Int
        BY <1>2, <1>6, <3>4
      <4>7. q + DirentLen <= st[i].next
        BY <4>1, <4>3, <4>4, <4>5, <4>6
      <4>. QED
        BY <4>2, <4>7
    <3>5. CASE q \in DOMAIN sn
      <4>1. q + DirentLen <= st[i].next \/ st[i].off + st[i].len <= q
        BY <3>1, <3>5 DEF WalkInv, NotAgain
      <4>2. st[i].next <= to[i].next
        <5>1. st[i].next \in Nat
          BY <1>8, <3>1
        <5>. QED
          BY <1>1, <1>6, <3>1, <5>1 DEF p
      <4>3. q \in Nat /\ st[i].next \in Nat /\ to[i].next \in Nat
        <5>1. q \in Nat
          BY <3>5 DEF EntriesInv, EntriesOK
        <5>2. to[i] \in Call
          BY <1>1, <3>1, ElementOfSeq
        <5>3. st[i].next \in Nat
          BY <1>8, <3>1
        <5>. QED
          BY <5>1, <5>2, <5>3 DEF Call
      <4>4. q + DirentLen <= st[i].next => q + DirentLen <= to[i].next
        BY <1>6, <4>2, <4>3
      <4>. QED
        BY <3>1, <4>1, <4>4
    <3>6. i < k \/ i = k \/ i > k
      BY <1>1, <3>1
    <3>. QED
      BY <1>4, <3>2, <3>3, <3>4, <3>5, <3>6
  <2>. QED
    BY <2>1 DEF NotAgain
<1>10. ReadSoFar(n, to, c)
  <2>1. ASSUME NEW i \in 1 .. Len(to), NEW q \in Table(to[i].off, to[i].len),
               q < to[i].next
        PROVE  q \in DOMAIN n /\ c[q] = Len(to) - i
    <3>1. /\ i \in 1 .. Len(st) /\ q \in Table(st[i].off, st[i].len) /\ Len(to) = Len(st)
      BY <1>1
    <3>2. q \in Nat
      BY <1>8, <3>1, TableProperties
    <3>3. CASE q < st[i].next
      <4>1. q \in DOMAIN sn /\ d[q] = Len(st) - i
        BY <3>1, <3>3 DEF WalkInv, ReadSoFar
      <4>. QED
        BY <1>4, <1>5, <3>1, <4>1
    <3>4. CASE ~ (q < st[i].next)
      <4>1. i = k
        BY <1>1, <2>1, <3>1, <3>4
      <4>2. q = p
        <5>1. CASE p < q
          <6>1. p \in Table(st[k].off, st[k].len) /\ q \in Table(st[k].off, st[k].len)
            BY <1>2, <3>1, <4>1
          <6>2. st[k].off \in Nat /\ st[k].len \in Nat /\ st[k].len % DirentLen = 0
            BY <1>1, <1>8
          <6>3. \A a, b \in Table(st[k].off, st[k].len) : a < b => a + DirentLen <= b
            BY <6>2, TableProperties
          <6>4. p + DirentLen <= q
            BY <5>1, <6>1, <6>3
          <6>. QED
            BY <1>1, <1>2, <1>6, <2>1, <3>2, <4>1, <6>4
        <5>. QED
          BY <1>2, <3>2, <3>4, <4>1, <5>1 DEF p
      <4>. QED
        BY <1>4, <1>5, <3>1, <4>1, <4>2
    <3>. QED
      BY <3>3, <3>4
  <2>. QED
    BY <2>1 DEF ReadSoFar
<1>11. DepthsOK(n, to, c)
  <2>1. ASSUME NEW q \in Dirs(n)
        PROVE  c[q] + 1 <= MaxDepth /\ (Complete(n, c, q) \/ Open(n, to, c, q))
    <3>1. CASE q = p
      <4>1. /\ k = 2 /\ st[1].off = Start(e) /\ st[1].len = e.extent[2]
        BY <1>4, <2>1, <3>1 DEF Readable, Dirs
      <4>2. c[q] + 1 = Len(st) - 1 /\ 1 \in 1 .. Len(to) - 1 /\ Len(to) - 1 <= MaxDepth
        BY <1>1, <1>5, <1>6, <3>1, <4>1, FSAssumption
      <4>3. to[1].off = Start(n[q]) /\ to[1].len = n[q].extent[2]
        BY <1>1, <1>4, <1>6, <3>1, <4>1
      <4>4. c[q] + 1 = Len(to) - 1
        BY <1>1, <4>2
      <4>. QED
        BY <4>2, <4>3, <4>4 DEF Open
    <3>2. CASE q \in Dirs(sn)
      <4>1. q \in DOMAIN sn /\ n[q] = sn[q] /\ c[q] = d[q]
        BY <1>4, <1>5, <3>2 DEF Dirs
      <4>2. d[q] + 1 <= MaxDepth
        BY <3>2 DEF WalkInv, DepthsOK
      <4>3. CASE Complete(sn, d, q)
        BY <1>4, <1>5, <4>1, <4>2, <4>3 DEF Complete
      <4>4. CASE Open(sn, st, d, q)
        <5>1. PICK i \in 1 .. Len(st) - 1 :
                /\ st[i].off = Start(sn[q]) /\ st[i].len = sn[q].extent[2]
                /\ d[q] + 1 = Len(st) - i
          BY <4>4 DEF Open
        <5>2. i \in 1 .. Len(to) - 1 /\ i \in 1 .. Len(st)
          BY <1>1, <1>6
        <5>3. to[i].off = Start(n[q]) /\ to[i].len = n[q].extent[2] /\ c[q] + 1 = Len(to) - i
          BY <1>1, <4>1, <5>1, <5>2
        <5>4. Open(n, to, c, q)
          BY <5>2, <5>3 DEF Open
        <5>. QED
          BY <4>1, <4>2, <5>4
      <4>. QED
        BY <3>2, <4>3, <4>4 DEF WalkInv, DepthsOK
    <3>. QED
      BY <1>4, <2>1, <3>1, <3>2 DEF Dirs
  <2>. QED
    BY <1>7, <2>1 DEF DepthsOK
<1>12. WalkInv(n, to, c)
  BY <1>9, <1>10, <1>11 DEF WalkInv
<1>. QED
  BY <1>12 DEF p, n, c

-----------------------------------------------------------------------------
(* validate_dir returns: its table was read to the end.                    *)

LEMMA PopCalls ==
  ASSUME NEW st, NEW hw, CallsInv(st, hw), st # <<>>
  PROVE  /\ CallsInv(Tail(st), hw) /\ Len(Tail(st)) = Len(st) - 1
         /\ \A i \in 1 .. Len(Tail(st)) : Tail(st)[i] = st[i + 1] /\ i + 1 \in 1 .. Len(st)
<1>1. st \in Seq(Call) /\ Len(st) \in Nat
  BY DEF CallsInv, CallsOK
<1>2. /\ Tail(st) \in Seq(Call) /\ Len(Tail(st)) = Len(st) - 1
      /\ \A i \in 1 .. Len(Tail(st)) : Tail(st)[i] = st[i + 1]
  BY <1>1, HeadTailProperties
<1>. DEFINE to == Tail(st)
<1>3. /\ to \in Seq(Call) /\ Len(to) = Len(st) - 1
      /\ \A i \in 1 .. Len(to) : to[i] = st[i + 1] /\ i + 1 \in 1 .. Len(st)
  BY <1>1, <1>2
<1>. HIDE DEF to
<1>4. CallsOK(to, hw)
  <2>1. Len(to) <= MaxDepth + 1
    BY <1>1, <1>3, FSAssumption DEF CallsInv, CallsOK
  <2>2. ASSUME NEW i \in 1 .. Len(to)
        PROVE  /\ to[i].len % DirentLen = 0 /\ SuperblockLen <= to[i].off
               /\ to[i].off + to[i].len <= hw
               /\ to[i].next \in Table(to[i].off, to[i].len) \cup {to[i].off + to[i].len}
    <3>1. to[i] = st[i + 1] /\ i + 1 \in 1 .. Len(st)
      BY <1>3
    <3>. QED
      BY <3>1 DEF CallsInv, CallsOK
  <2>. QED
    BY <1>3, <2>1, <2>2 DEF CallsOK
<1>5. Nested(to)
  <2>1. ASSUME NEW i \in 1 .. Len(to), NEW j \in 1 .. Len(to), i < j
        PROVE  to[j].off + to[j].len <= to[i].off
    <3>1. /\ to[i] = st[i + 1] /\ i + 1 \in 1 .. Len(st)
          /\ to[j] = st[j + 1] /\ j + 1 \in 1 .. Len(st) /\ i + 1 < j + 1
      BY <1>3, <2>1
    <3>. QED
      BY <3>1 DEF CallsInv, Nested
  <2>. QED
    BY <2>1 DEF Nested
<1>. QED
  BY <1>3, <1>4, <1>5 DEF CallsInv, to

LEMMA PopWalk ==
  ASSUME NEW sn, NEW st, NEW d, NEW hw, CallsInv(st, hw), WalkInv(sn, st, d), st # <<>>,
         st[1].off + st[1].len <= st[1].next
  PROVE  WalkInv(sn, Tail(st), d)
<1>. DEFINE to == Tail(st)
<1>1. /\ Len(to) = Len(st) - 1 /\ Len(st) \in Nat
      /\ \A i \in 1 .. Len(to) : to[i] = st[i + 1] /\ i + 1 \in 1 .. Len(st)
  BY PopCalls DEF CallsInv, CallsOK
<1>2. Len(st) > 0
  BY EmptySeq DEF CallsInv, CallsOK
<1>. HIDE DEF to
<1>3. NotAgain(sn, to)
  <2>1. ASSUME NEW p \in DOMAIN sn, NEW i \in 1 .. Len(to)
        PROVE  p + DirentLen <= to[i].next \/ to[i].off + to[i].len <= p
    <3>1. to[i] = st[i + 1] /\ i + 1 \in 1 .. Len(st)
      BY <1>1
    <3>. QED
      BY <3>1 DEF WalkInv, NotAgain
  <2>. QED
    BY <2>1 DEF NotAgain
<1>4. ReadSoFar(sn, to, d)
  <2>1. ASSUME NEW i \in 1 .. Len(to), NEW q \in Table(to[i].off, to[i].len),
               q < to[i].next
        PROVE  q \in DOMAIN sn /\ d[q] = Len(to) - i
    <3>1. to[i] = st[i + 1] /\ i + 1 \in 1 .. Len(st)
      BY <1>1
    <3>2. q \in DOMAIN sn /\ d[q] = Len(st) - (i + 1)
      BY <2>1, <3>1 DEF WalkInv, ReadSoFar
    <3>. QED
      BY <1>1, <3>2
  <2>. QED
    BY <2>1 DEF ReadSoFar
<1>5. ASSUME NEW q \in Table(st[1].off, st[1].len)
      PROVE  q \in DOMAIN sn /\ d[q] = Len(st) - 1
  <2>1. 1 \in 1 .. Len(st)
    BY <1>1, <1>2
  <2>2. st[1].off \in Nat /\ st[1].len \in Nat /\ st[1].len % DirentLen = 0 /\ st[1].next \in Nat
    BY <2>1, CallTypes
  <2>3. q \in Nat /\ q + DirentLen <= st[1].off + st[1].len
    BY <2>2, TableProperties
  <2>4. q < st[1].next
    <3>1. DirentLen \in Int /\ DirentLen > 0
      BY FSAssumption
    <3>2. st[1].off + st[1].len \in Nat /\ st[1].next \in Nat
      BY <2>2
    <3>. QED
      BY <2>3, <3>1, <3>2
  <2>. QED
    BY <2>1, <2>4 DEF WalkInv, ReadSoFar
<1>6. DepthsOK(sn, to, d)
  <2>1. ASSUME NEW p \in Dirs(sn), Open(sn, st, d, p)
        PROVE  Complete(sn, d, p) \/ Open(sn, to, d, p)
    <3>1. PICK i \in 1 .. Len(st) - 1 :
            /\ st[i].off = Start(sn[p]) /\ st[i].len = sn[p].extent[2]
            /\ d[p] + 1 = Len(st) - i
      BY <2>1 DEF Open
    <3>2. CASE i = 1
      BY <1>5, <3>1, <3>2 DEF Complete
    <3>3. CASE i # 1
      <4>1. /\ i - 1 \in 1 .. Len(to) - 1 /\ i - 1 \in 1 .. Len(to) /\ (i - 1) + 1 = i
            /\ Len(to) - (i - 1) = Len(st) - i
        BY <1>1, <3>3
      <4>2. to[i - 1] = st[i]
        BY <1>1, <4>1
      <4>. QED
        BY <3>1, <4>1, <4>2 DEF Open
    <3>. QED
      BY <3>2, <3>3
  <2>. QED
    BY <2>1 DEF WalkInv, DepthsOK
<1>7. WalkInv(sn, to, d)
  BY <1>3, <1>4, <1>6 DEF WalkInv
<1>. QED
  BY <1>7 DEF to

-----------------------------------------------------------------------------
(* The invariant.                                                          *)

\* The node a path has reached lies inside, and all its entries are known one level below.
NodeOK(d) ==
  /\ node.kind \in {"file", "dir"} /\ node.depth \in 0 .. MaxDepth + 1
  /\ node.off + node.len <= ImageLen
  /\ node.depth > 0 => node.off + node.len <= Ceiling(mode, dataEnd)
  /\ node.kind = "dir" =>
       node.depth <= MaxDepth /\ \A q \in Positions(node) : q \in DOMAIN seen /\ d[q] = node.depth

Validating ==
  /\ result = "validating" /\ node = NoNode /\ stack # <<>>
  /\ \E d : WalkInv(seen, stack, d)
Mounted ==
  /\ result = "mounted" /\ stack = <<>>
  /\ \E d : WalkInv(seen, stack, d) /\ NodeOK(d)
Stopped ==
  /\ result \in {"new"} \cup Errors /\ seen = Unread /\ stack = <<>> /\ node = NoNode

EntriesBound == entries = 0 \/ SuperblockLen + entries * DirentLen <= ImageLen

IInv ==
  /\ mode \in {"mount", "mount_loose", "mount_tier2"} /\ dataEnd \in Nat /\ highWater \in Nat
  /\ entries \in Nat /\ EntriesBound
  /\ result = "new" => highWater = SuperblockLen /\ entries = 0
  /\ result \in {"validating", "mounted"} =>
       /\ EntriesInv(seen, highWater, Ceiling(mode, dataEnd)) /\ CallsInv(stack, highWater)
       /\ entries = Cardinality(DOMAIN seen) /\ dataEnd <= ImageLen
  /\ Validating \/ Mounted \/ Stopped

LEMMA NumberOfEntries ==
  ASSUME NEW sn, NEW hw, NEW top, EntriesInv(sn, hw, top)
  PROVE  /\ Cardinality(DOMAIN sn) \in Nat
         /\ SuperblockLen + Cardinality(DOMAIN sn) * DirentLen <= ImageLen
<1>1. /\ \A p \in DOMAIN sn : p \in Nat /\ SuperblockLen <= p /\ p + DirentLen <= hw
      /\ \A p, q \in DOMAIN sn : p < q => p + DirentLen <= q
  BY DEF EntriesInv, EntriesOK, Spaced
<1>2. hw \in Nat /\ SuperblockLen <= hw /\ hw <= ImageLen /\ IsFiniteSet(DOMAIN sn)
  BY DEF EntriesInv
<1>3. SuperblockLen \in Nat
  BY FSAssumption
<1>4. SuperblockLen + Cardinality(DOMAIN sn) * DirentLen <= hw
  BY <1>1, <1>2, <1>3, SpacedBound
<1>5. Cardinality(DOMAIN sn) \in Nat
  BY <1>2, FS_CardinalityType
<1>6. SuperblockLen + Cardinality(DOMAIN sn) * DirentLen \in Int /\ ImageLen \in Int
  BY <1>5, FSAssumption
<1>. QED
  BY <1>2, <1>4, <1>5, <1>6

LEMMA InitIInv == Init => IInv
BY FSAssumption DEF Init, IInv, EntriesBound, Stopped

\* An empty walk, and what entering the root makes of it.
LEMMA NothingRead ==
  ASSUME NEW top
  PROVE  /\ SuperblockLen <= ImageLen => EntriesInv(Unread, SuperblockLen, top)
         /\ CallsInv(<<>>, SuperblockLen) /\ WalkInv(Unread, <<>>, Unread)
         /\ Cardinality(DOMAIN Unread) = 0
<1>1. DOMAIN Unread = {} /\ Dirs(Unread) = {} /\ Unread \in [{} -> 0 .. MaxDepth]
  BY DEF Unread, Dirs
<1>2. Len(<<>>) = 0 /\ <<>> \in Seq(Call)
  OBVIOUS
<1>3. SuperblockLen <= ImageLen => EntriesInv(Unread, SuperblockLen, top)
  BY <1>1, FSAssumption, FS_EmptySet
     DEF EntriesInv, EntriesOK, Spaced, DirsForward, DirsApart
<1>4. CallsInv(<<>>, SuperblockLen)
  BY <1>2, FSAssumption DEF CallsInv, CallsOK, Nested
<1>5. WalkInv(Unread, <<>>, Unread)
  BY <1>1, <1>2 DEF WalkInv, NotAgain, ReadSoFar, DepthsOK
<1>. QED
  BY <1>1, <1>3, <1>4, <1>5, FS_EmptySet

\* Every table lies in front of the high-water mark, so the mark may grow.
LEMMA EntriesGrow ==
  ASSUME NEW sn, NEW hw, NEW top, EntriesInv(sn, hw, top), NEW to \in Nat, hw <= to,
         to <= ImageLen
  PROVE  EntriesInv(sn, to, top)
<1>1. hw \in Nat /\ SuperblockLen <= to
  BY FSAssumption DEF EntriesInv
<1>2. EntriesOK(sn, to, top)
  <2>1. ASSUME NEW p \in DOMAIN sn
        PROVE  p + DirentLen <= to
    <3>1. p \in Nat /\ p + DirentLen <= hw
      BY DEF EntriesInv, EntriesOK
    <3>. QED
      BY <1>1, <3>1, FSAssumption
  <2>. QED
    BY <2>1 DEF EntriesInv, EntriesOK
<1>3. DirsForward(sn, to)
  <2>1. ASSUME NEW p \in Dirs(sn)
        PROVE  End(sn[p]) <= to
    <3>1. End(sn[p]) <= hw
      BY DEF EntriesInv, DirsForward
    <3>2. End(sn[p]) \in Nat
      BY EntryTypes DEF EntriesInv, EntriesOK, Dirs
    <3>. QED
      BY <1>1, <3>1, <3>2
  <2>. QED
    BY <2>1 DEF EntriesInv, DirsForward
<1>. QED
  BY <1>1, <1>2, <1>3 DEF EntriesInv

LEMMA HeaderErrors ==
  ASSUME NEW h \in Headers, NEW m
  PROVE  /\ h.dataEnd \in Nat /\ h.fileCount \in Nat
         /\ HeaderError(h, m) # "ok" => HeaderError(h, m) \in Errors
         /\ HeaderError(h, m) = "ok" =>
              SuperblockLen <= ImageLen /\ h.dataEnd <= ImageLen
              /\ SuperblockLen + h.fileCount * DirentLen <= ImageLen
<1>1. h \in [magic : BOOLEAN, version : BOOLEAN, total : Nat, dataEnd : Nat, fileCount : Nat]
  BY FSAssumption
<1>2. HeaderError(h, m) # "ok" => HeaderError(h, m) \in Errors
  BY DEF HeaderError, Errors
<1>3. HeaderError(h, m) = "ok" => ~ (ImageLen < SuperblockLen)
                                  /\ ~ (h.dataEnd > ImageLen)
                                  /\ ~ (SuperblockLen + h.fileCount * DirentLen > ImageLen)
  BY DEF HeaderError
<1>4. SuperblockLen + h.fileCount * DirentLen \in Int /\ SuperblockLen \in Int /\ ImageLen \in Int
  BY <1>1, FSAssumption
<1>. QED
  BY <1>1, <1>2, <1>3, <1>4

LEMMA MountStep ==
  ASSUME IInv, NEW h \in Headers, NEW m \in {"mount", "mount_loose", "mount_tier2"},
         Mount(h, m)
  PROVE  IInv'
<1>. DEFINE len == h.fileCount * DirentLen
<1>1. /\ result = "new" /\ Stopped /\ highWater = SuperblockLen /\ entries = 0
  BY DEF Mount, IInv, Validating, Mounted
<1>2. /\ mode' = m /\ dataEnd' = h.dataEnd /\ dataEnd' \in Nat /\ seen' = Unread
      /\ node' = NoNode /\ entries' = 0
  BY <1>1, HeaderErrors DEF Mount, Stopped
<1>3. EntriesBound' /\ entries' \in Nat
  BY <1>2 DEF EntriesBound
<1>4. CASE HeaderError(h, m) # "ok"
  <2>1. result' \in Errors /\ stack' = <<>> /\ highWater' = SuperblockLen
    BY <1>1, <1>4, HeaderErrors DEF Mount, Stopped
  <2>2. Stopped'
    BY <1>2, <2>1 DEF Stopped
  <2>3. result' \notin {"new", "validating", "mounted"}
    BY <2>1 DEF Errors
  <2>. QED
    BY <1>2, <1>3, <2>1, <2>2, <2>3, FSAssumption DEF IInv
<1>5. CASE HeaderError(h, m) = "ok"
  <2>1. /\ result' = "validating" /\ ValidateDir(SuperblockLen, len, <<>>)
        /\ SuperblockLen <= ImageLen /\ SuperblockLen + len <= ImageLen
        /\ h.dataEnd <= ImageLen
    BY <1>5, HeaderErrors DEF Mount
  <2>2. len \in Nat /\ len % DirentLen = 0 /\ SuperblockLen \in Nat
    <3>1. DirentLen \in Int /\ DirentLen > 0 /\ h.fileCount \in Nat /\ SuperblockLen \in Nat
      BY HeaderErrors, FSAssumption
    <3>. QED
      BY <3>1
  <2>. HIDE DEF len
  <2>. DEFINE st == <<>>
  <2>3. stack' = Entered(st, SuperblockLen, len) /\ highWater' = SuperblockLen + len
    BY <1>1, <2>1, <2>2 DEF ValidateDir, Entered
  <2>4. /\ EntriesInv(Unread, SuperblockLen, Ceiling(m, h.dataEnd))
        /\ CallsInv(st, SuperblockLen) /\ WalkInv(Unread, st, Unread)
        /\ Cardinality(DOMAIN Unread) = 0
    BY <2>1, NothingRead
  <2>5. Len(st) <= MaxDepth /\ Len(st) = 0
    BY FSAssumption
  <2>. HIDE DEF st
  <2>6. Pushed(stack', st, SuperblockLen, len)
    BY <2>2, <2>3, <2>4, <2>5, PushCalls
  <2>7. WalkInv(Unread, stack', Unread)
    BY <2>2, <2>4, <2>6, PushWalk
  <2>8. EntriesInv(Unread, highWater', Ceiling(m, h.dataEnd))
    BY <2>1, <2>2, <2>3, <2>4, EntriesGrow
  <2>9. stack' # <<>>
    <3>1. Len(stack') # 0
      BY <2>5, <2>6 DEF Pushed
    <3>. QED
      BY <3>1
  <2>10. CallsInv(stack', highWater')
    BY <2>3, <2>6 DEF Pushed
  <2>11. Validating'
    BY <1>2, <2>1, <2>7, <2>9 DEF Validating
  <2>12. highWater' \in Nat
    BY <2>2, <2>3
  <2>. QED
    BY <1>2, <1>3, <2>1, <2>3, <2>4, <2>8, <2>10, <2>11, <2>12 DEF IInv
<1>. QED
  BY <1>4, <1>5

LEMMA FailStep ==
  ASSUME IInv, NEW error \in Errors, Fail(error), result = "validating"
  PROVE  IInv'
<1>1. Validating
  BY DEF IInv, Mounted, Stopped, Errors
<1>2. /\ result' = error /\ seen' = Unread /\ stack' = <<>>
      /\ UNCHANGED <<mode, dataEnd, highWater, node, entries>>
  BY DEF Fail
<1>3. result' \in Errors /\ result' \notin {"new", "validating", "mounted"}
  BY <1>2 DEF Errors
<1>4. Stopped'
  BY <1>1, <1>2, <1>3 DEF Stopped, Validating
<1>5. EntriesBound'
  BY <1>2 DEF IInv, EntriesBound
<1>. QED
  BY <1>2, <1>3, <1>4, <1>5 DEF IInv

\* The calls behind an entry, and behind one that entered a directory.
Behind(st) == <<[Head(st) EXCEPT !.next = @ + DirentLen]>> \o Tail(st)

LEMMA BehindAdvances ==
  ASSUME NEW st \in Seq(Call), st # <<>>
  PROVE  /\ Advanced(st, Behind(st), 1) /\ Head(st) = st[1] /\ 1 \in 1 .. Len(st)
<1>. DEFINE c == [Head(st) EXCEPT !.next = @ + DirentLen]
            to == Behind(st)
<1>1. /\ Len(st) \in Nat /\ Len(st) > 0 /\ Head(st) = st[1] /\ Head(st) \in Call
      /\ Tail(st) \in Seq(Call) /\ Len(Tail(st)) = Len(st) - 1
      /\ \A i \in 1 .. Len(Tail(st)) : Tail(st)[i] = st[i + 1]
  BY HeadTailProperties, EmptySeq
<1>2. /\ c \in Call /\ c.off = st[1].off /\ c.len = st[1].len
      /\ c.next = st[1].next + DirentLen
  <2>1. DirentLen \in Nat
    BY FSAssumption
  <2>2. ASSUME NEW h \in Call
        PROVE  /\ [h EXCEPT !.next = @ + DirentLen] \in Call
               /\ [h EXCEPT !.next = @ + DirentLen].off = h.off
               /\ [h EXCEPT !.next = @ + DirentLen].len = h.len
               /\ [h EXCEPT !.next = @ + DirentLen].next = h.next + DirentLen
    <3>. HIDE DEF c, to
    <3>1. h.off \in Nat /\ h.len \in Nat /\ h.next \in Nat
      BY DEF Call
    <3>2. [h EXCEPT !.next = @ + DirentLen]
            = [off |-> h.off, len |-> h.len, next |-> h.next + DirentLen]
      BY SMTT(30) DEF Call
    <3>3. h.next + DirentLen \in Nat
      BY <2>1, <3>1
    <3>. QED
      BY <3>1, <3>2, <3>3 DEF Call
  <2>3. Head(st) \in Call /\ Head(st) = st[1]
    BY <1>1
  <2>4. /\ c \in Call /\ c.off = Head(st).off /\ c.len = Head(st).len
        /\ c.next = Head(st).next + DirentLen
    BY <2>2, <2>3, Zenon
  <2>. HIDE DEF c
  <2>. QED
    BY <2>3, <2>4
<1>. HIDE DEF c
<1>3. /\ to \in Seq(Call) /\ Len(to) = Len(Tail(st)) + 1 /\ to[1] = c
      /\ \A i \in 2 .. Len(Tail(st)) + 1 : to[i] = Tail(st)[i - 1]
  <2>1. to = <<c>> \o Tail(st)
    BY DEF Behind, c
  <2>. QED
    BY <1>1, <1>2, <2>1, Cons
<1>. HIDE DEF to
<1>4. Len(to) = Len(st)
  BY <1>1, <1>3
<1>5. ASSUME NEW i \in 1 .. Len(st), i # 1
      PROVE  to[i] = st[i]
  <2>1. i \in 2 .. Len(Tail(st)) + 1 /\ i - 1 \in 1 .. Len(Tail(st)) /\ (i - 1) + 1 = i
    BY <1>1, <1>5
  <2>2. to[i] = Tail(st)[i - 1] /\ Tail(st)[i - 1] = st[(i - 1) + 1]
    BY <1>1, <1>3, <2>1
  <2>. QED
    BY <2>1, <2>2
<1>6. 1 \in 1 .. Len(st)
  BY <1>1
<1>7. Advanced(st, to, 1)
  <2>1. \A i \in 1 .. Len(st) : to[i].off = st[i].off /\ to[i].len = st[i].len
    BY <1>2, <1>3, <1>5
  <2>2. \A i \in 1 .. Len(st) : i # 1 => to[i].next = st[i].next
    BY <1>5
  <2>. QED
    BY <1>2, <1>3, <1>4, <1>6, <2>1, <2>2 DEF Advanced
<1>. QED
  BY <1>1, <1>6, <1>7 DEF to

LEMMA EnteredAdvances ==
  ASSUME NEW st \in Seq(Call), NEW to, Advanced(st, to, 1), NEW off \in Nat, NEW len \in Nat
  PROVE  /\ Advanced(Entered(st, off, len), Entered(to, off, len), 2)
         /\ Entered(st, off, len)[2] = st[1]
<1>. DEFINE c == [off |-> off, len |-> len, next |-> off]
            s == Entered(st, off, len)
            t == Entered(to, off, len)
<1>1. c \in Call
  BY DEF Call
<1>2. /\ to \in Seq(Call) /\ Len(to) = Len(st) /\ 1 \in 1 .. Len(st) /\ Len(st) \in Nat
      /\ \A i \in 1 .. Len(st) : to[i].off = st[i].off /\ to[i].len = st[i].len
      /\ \A i \in 1 .. Len(st) : i # 1 => to[i].next = st[i].next
      /\ to[1].next = st[1].next + DirentLen
  BY DEF Advanced
<1>. HIDE DEF c
<1>3. /\ Len(s) = Len(st) + 1 /\ s[1] = c
      /\ \A i \in 2 .. Len(st) + 1 : s[i] = st[i - 1]
  <2>1. s = <<c>> \o st
    BY DEF Entered, c
  <2>. QED
    BY <1>1, <2>1, Cons
<1>4. /\ t \in Seq(Call) /\ Len(t) = Len(st) + 1 /\ t[1] = c
      /\ \A i \in 2 .. Len(st) + 1 : t[i] = to[i - 1]
  <2>1. t = <<c>> \o to
    BY DEF Entered, c
  <2>. QED
    BY <1>1, <1>2, <2>1, Cons
<1>. HIDE DEF s, t
<1>5. s[2] = st[1] /\ t[2] = to[1] /\ 2 \in 1 .. Len(s)
  BY <1>2, <1>3, <1>4
<1>6. ASSUME NEW i \in 1 .. Len(s)
      PROVE  t[i].off = s[i].off /\ t[i].len = s[i].len /\ (i # 2 => t[i].next = s[i].next)
  <2>1. CASE i = 1
    BY <1>3, <1>4, <2>1
  <2>2. CASE i # 1
    <3>1. /\ i - 1 \in 1 .. Len(st) /\ s[i] = st[i - 1] /\ t[i] = to[i - 1]
          /\ (i # 2 => i - 1 # 1)
      BY <1>2, <1>3, <1>4, <2>2
    <3>. QED
      BY <1>2, <3>1
  <2>. QED
    BY <2>1, <2>2
<1>7. Advanced(s, t, 2)
  BY <1>2, <1>3, <1>4, <1>5, <1>6 DEF Advanced
<1>. QED
  BY <1>5, <1>7 DEF s, t

-----------------------------------------------------------------------------

\* What is left of ValidateEntry when no check fails.
Reads(e) ==
  /\ End(e) <= ImageLen /\ End(e) <= Ceiling(mode, dataEnd) /\ e.kind # "bad"
  /\ e.kind = "dir" => DirError(Start(e), e.extent[2], Len(stack)) = "ok"
  /\ seen' = Added(seen, Head(stack).next, e)
  /\ IF e.kind = "dir" THEN ValidateDir(Start(e), e.extent[2], Behind(stack))
     ELSE stack' = Behind(stack) /\ highWater' = highWater
  /\ entries' = entries + 1
  /\ UNCHANGED <<mode, dataEnd, result, node>>

LEMMA EntryCases ==
  ASSUME IInv, NEW e \in Entry, ValidateEntry(e)
  PROVE  /\ result = "validating" /\ stack # <<>>
         /\ Head(stack).next < Head(stack).off + Head(stack).len
         /\ (\E error \in Errors : Fail(error)) \/ Reads(e)
<1>1. /\ result = "validating" /\ stack # <<>>
      /\ Head(stack).next < Head(stack).off + Head(stack).len
  BY DEF ValidateEntry
<1>2. /\ End(e) \in Nat /\ ImageLen \in Nat /\ Ceiling(mode, dataEnd) \in Nat
      /\ Ceiling(mode, dataEnd) <= ImageLen
  <2>1. End(e) \in Nat
    <3>1. Start(e) \in Nat /\ e.extent[2] \in Nat /\ End(e) = Start(e) + e.extent[2]
      BY EntryTypes
    <3>. QED
      BY <3>1
  <2>2. ImageLen \in Nat
    BY FSAssumption
  <2>3. dataEnd \in Nat /\ dataEnd <= ImageLen
    BY <1>1 DEF IInv
  <2>. QED
    BY <2>1, <2>2, <2>3 DEF Ceiling
<1>3. DirError(Start(e), e.extent[2], Len(stack)) \in Errors \cup {"ok"}
  BY DEF DirError, Errors
<1>4. CASE End(e) > ImageLen
  <2>1. ~ (End(e) <= ImageLen) /\ ~ (End(e) <= Ceiling(mode, dataEnd))
    BY <1>2, <1>4
  <2>2. Fail("EntryOutOfBounds")
    BY <1>2, <1>4, <2>1 DEF ValidateEntry, Start, End
  <2>. QED
    BY <1>1, <2>2 DEF Errors
<1>5. CASE End(e) <= ImageLen /\ End(e) > Ceiling(mode, dataEnd)
  <2>1. Fail("ExtentEscapesData")
    BY <1>2, <1>5 DEF ValidateEntry, Start, End
  <2>. QED
    BY <1>1, <2>1 DEF Errors
<1>6. CASE End(e) <= ImageLen /\ End(e) <= Ceiling(mode, dataEnd) /\ e.kind = "bad"
  <2>1. Fail("BadKind")
    BY <1>2, <1>6 DEF ValidateEntry, Start, End
  <2>. QED
    BY <1>1, <2>1 DEF Errors
<1>7. CASE /\ End(e) <= ImageLen /\ End(e) <= Ceiling(mode, dataEnd) /\ e.kind = "dir"
           /\ DirError(Start(e), e.extent[2], Len(stack)) # "ok"
  <2>1. Fail(DirError(Start(e), e.extent[2], Len(stack)))
    BY <1>2, <1>7 DEF ValidateEntry, Start, End
  <2>. QED
    BY <1>1, <1>3, <1>7, <2>1
<1>8. CASE /\ End(e) <= ImageLen /\ End(e) <= Ceiling(mode, dataEnd) /\ e.kind # "bad"
           /\ (e.kind = "dir" => DirError(Start(e), e.extent[2], Len(stack)) = "ok")
  <2>1. /\ seen' = Added(seen, Head(stack).next, e)
        /\ IF e.kind = "dir" THEN ValidateDir(Start(e), e.extent[2], Behind(stack))
           ELSE stack' = Behind(stack) /\ highWater' = highWater
        /\ entries' = entries + 1
        /\ UNCHANGED <<mode, dataEnd, result, node>>
    BY <1>2, <1>8 DEF ValidateEntry, Start, End, Added, Behind
  <2>. QED
    BY <1>1, <1>8, <2>1 DEF Reads
<1>. QED
  BY <1>2, <1>4, <1>5, <1>6, <1>7, <1>8

LEMMA ReadStep ==
  ASSUME IInv, NEW e \in Entry, Reads(e), result = "validating",
         Head(stack).next < Head(stack).off + Head(stack).len
  PROVE  IInv'
<1>. DEFINE top == Ceiling(mode, dataEnd)
            p == Head(stack).next
            op == Behind(stack)
            new == Added(seen, p, e)
<1>1. Validating
  BY DEF IInv, Mounted, Stopped, Errors
<1>2. PICK d : WalkInv(seen, stack, d)
  BY <1>1 DEF Validating
<1>3. /\ EntriesInv(seen, highWater, top) /\ CallsInv(stack, highWater)
      /\ entries = Cardinality(DOMAIN seen) /\ highWater \in Nat /\ dataEnd <= ImageLen
  BY DEF IInv
<1>4. stack \in Seq(Call) /\ stack # <<>> /\ Len(stack) \in Nat
  BY <1>1, <1>3 DEF CallsInv, CallsOK, Validating
<1>5. Advanced(stack, op, 1) /\ Head(stack) = stack[1] /\ 1 \in 1 .. Len(stack)
  BY <1>4, BehindAdvances
<1>6. p = stack[1].next /\ stack[1].next < stack[1].off + stack[1].len
  BY <1>5
<1>7. /\ e.kind # "bad" /\ End(e) <= top /\ End(e) <= ImageLen /\ seen' = new
      /\ entries' = entries + 1 /\ mode' = mode /\ dataEnd' = dataEnd /\ result' = result
      /\ node' = node /\ Ceiling(mode, dataEnd)' = top
  BY DEF Reads, Ceiling
<1>. HIDE DEF top, p, op, new
<1>8. ASSUME NEW hw, hw = highWater', hw \in Nat, EntriesInv(new, hw, top),
             CallsInv(stack', hw), NEW dd, WalkInv(new, stack', dd), Len(stack') # 0,
             Cardinality(DOMAIN new) = Cardinality(DOMAIN seen) + 1
      PROVE  IInv'
  <2>1. entries' = Cardinality(DOMAIN new) /\ entries' \in Nat
    BY <1>3, <1>7, <1>8 DEF IInv
  <2>2. EntriesBound'
    BY <1>8, <2>1, NumberOfEntries DEF EntriesBound
  <2>3. stack' # <<>>
    BY <1>8
  <2>4. Validating'
    BY <1>1, <1>7, <1>8, <2>3 DEF Validating
  <2>. QED
    BY <1>3, <1>7, <1>8, <2>1, <2>2, <2>4 DEF IInv
<1>9. CASE e.kind # "dir"
  <2>1. stack' = op /\ highWater' = highWater
    BY <1>9 DEF Reads, op
  <2>2. Readable(seen, stack, 1, e, top)
    BY <1>6, <1>7, <1>9 DEF Readable
  <2>3. /\ EntriesInv(new, highWater, top)
        /\ Cardinality(DOMAIN new) = Cardinality(DOMAIN seen) + 1
    BY <1>2, <1>3, <1>5, <1>6, <2>2, ReadEntries DEF new
  <2>4. CallsInv(op, highWater)
    BY <1>3, <1>5, <1>6, ReadCalls
  <2>5. WalkInv(new, op, Added(d, p, Len(stack) - 1))
    BY <1>2, <1>3, <1>5, <1>6, <2>2, ReadWalk DEF new
  <2>6. Len(op) # 0
    BY <1>4, <1>5 DEF Advanced
  <2>. QED
    BY <1>3, <1>8, <2>1, <2>3, <2>4, <2>5, <2>6
<1>10. CASE e.kind = "dir"
  <2>. DEFINE off == Start(e)
              len == e.extent[2]
              mid == Entered(stack, off, len)
              to  == Entered(op, off, len)
              hw  == off + len
  <2>1. off \in Nat /\ len \in Nat /\ hw = End(e) /\ hw \in Nat
    BY EntryTypes
  <2>2. /\ ValidateDir(off, len, op)
        /\ DirError(off, len, Len(stack)) = "ok"
    BY <1>10 DEF Reads, op
  <2>. HIDE DEF off, len
  <2>3. /\ ~ (Len(stack) > MaxDepth) /\ ~ (off < highWater) /\ ~ (len % DirentLen # 0)
    BY <2>2 DEF DirError
  <2>4. Len(stack) <= MaxDepth /\ highWater <= off /\ len % DirentLen = 0 /\ highWater <= hw
        /\ SuperblockLen <= off
    <3>1. SuperblockLen <= highWater /\ SuperblockLen \in Nat /\ MaxDepth \in Nat
      BY <1>3, FSAssumption DEF EntriesInv
    <3>. QED
      BY <1>3, <1>4, <2>1, <2>3, <3>1
  <2>5. stack' = to /\ highWater' = hw
    BY <1>3, <2>1, <2>2, <2>4 DEF ValidateDir, Entered
  <2>. HIDE DEF mid, to
  <2>6. Pushed(mid, stack, off, len)
    BY <1>3, <2>1, <2>4, PushCalls DEF mid
  <2>7. WalkInv(seen, mid, d)
    BY <1>2, <1>3, <2>1, <2>4, <2>6, PushWalk
  <2>8. EntriesInv(seen, hw, top)
    BY <1>3, <1>7, <2>1, <2>4, EntriesGrow
  <2>9. /\ Advanced(mid, to, 2) /\ mid[2] = stack[1]
    BY <1>4, <1>5, <2>1, EnteredAdvances DEF mid, to
  <2>10. /\ CallsInv(mid, hw) /\ Len(mid) = Len(stack) + 1 /\ mid[1].off = off
         /\ mid[1].len = len /\ 2 \in 1 .. Len(mid)
    BY <2>6, <2>9 DEF Pushed, Advanced
  <2>11. p = mid[2].next /\ mid[2].next < mid[2].off + mid[2].len
    BY <1>6, <2>9
  <2>12. \A q \in Dirs(seen) : End(seen[q]) <= off
    <3>1. ASSUME NEW q \in Dirs(seen)
          PROVE  End(seen[q]) <= off
      <4>1. End(seen[q]) <= highWater
        BY <1>3 DEF EntriesInv, DirsForward
      <4>2. End(seen[q]) \in Nat
        BY <1>3, EntryTypes DEF EntriesInv, EntriesOK, Dirs
      <4>. QED
        BY <1>3, <2>1, <2>4, <4>1, <4>2
    <3>. QED
      BY <3>1
  <2>13. Readable(seen, mid, 2, e, top)
    BY <1>7, <1>10, <2>10, <2>11, <2>12 DEF Readable, off, len
  <2>. HIDE DEF hw
  <2>14. /\ EntriesInv(new, hw, top)
         /\ Cardinality(DOMAIN new) = Cardinality(DOMAIN seen) + 1
    BY <2>1, <2>7, <2>8, <2>10, <2>11, <2>13, ReadEntries DEF new
  <2>15. CallsInv(to, hw)
    BY <2>9, <2>10, <2>11, ReadCalls
  <2>16. WalkInv(new, to, Added(d, p, Len(mid) - 2))
    BY <2>1, <2>7, <2>8, <2>9, <2>10, <2>11, <2>13, ReadWalk DEF new
  <2>17. Len(to) # 0
    BY <1>4, <2>9, <2>10 DEF Advanced
  <2>. QED
    BY <1>8, <2>1, <2>5, <2>14, <2>15, <2>16, <2>17
<1>. QED
  BY <1>9, <1>10

LEMMA ReturnStep ==
  ASSUME IInv, Return
  PROVE  IInv'
<1>. DEFINE top == Ceiling(mode, dataEnd)
            st == stack
            to == Tail(stack)
<1>1. /\ result = "validating" /\ st # <<>>
      /\ Head(st).next >= Head(st).off + Head(st).len /\ stack' = to
      /\ UNCHANGED <<mode, dataEnd, seen, highWater, entries>>
  BY DEF Return
<1>2. Validating
  BY <1>1 DEF IInv, Mounted, Stopped, Errors
<1>3. PICK d : WalkInv(seen, st, d)
  BY <1>2 DEF Validating
<1>4. /\ EntriesInv(seen, highWater, top) /\ CallsInv(st, highWater)
      /\ entries = Cardinality(DOMAIN seen) /\ highWater \in Nat /\ dataEnd <= ImageLen
      /\ Ceiling(mode, dataEnd)' = top /\ EntriesBound'
  BY <1>1 DEF IInv, EntriesBound, Ceiling
<1>5. /\ st \in Seq(Call) /\ Len(st) \in Nat /\ Head(st) = st[1] /\ 1 \in 1 .. Len(st)
  BY <1>1, <1>4, BehindAdvances DEF CallsInv, CallsOK
<1>6. st[1].off + st[1].len <= st[1].next
  <2>1. st[1].off \in Nat /\ st[1].len \in Nat /\ st[1].next \in Nat
    BY <1>4, <1>5, CallTypes
  <2>. QED
    BY <1>1, <1>5, <2>1
<1>7. CallsInv(to, highWater) /\ Len(to) = Len(st) - 1
  BY <1>1, <1>4, PopCalls
<1>8. WalkInv(seen, to, d)
  BY <1>1, <1>3, <1>4, <1>6, PopWalk
<1>. HIDE DEF top, st, to
<1>9. CASE to # <<>>
  <2>1. result' = result /\ node' = node
    BY <1>9 DEF Return, to
  <2>2. Validating'
    BY <1>1, <1>2, <1>8, <1>9, <2>1 DEF Validating
  <2>. QED
    BY <1>1, <1>4, <1>7, <2>1, <2>2 DEF IInv
<1>10. CASE to = <<>>
  <2>1. /\ result' = "mounted"
        /\ node' = [kind |-> "dir", off |-> st[1].off, len |-> st[1].len, depth |-> 0]
    BY <1>5, <1>10 DEF Return, to, st
  <2>2. Len(st) = 1
    BY <1>5, <1>7, <1>10
  <2>3. /\ st[1].off \in Nat /\ st[1].len \in Nat /\ st[1].len % DirentLen = 0
        /\ st[1].next \in Nat /\ st[1].off + st[1].len <= highWater
    BY <1>4, <1>5, CallTypes
  <2>4. st[1].off + st[1].len <= ImageLen
    BY <1>4, <2>3, FSAssumption DEF EntriesInv
  <2>5. ASSUME NEW q \in Table(st[1].off, st[1].len)
        PROVE  q \in DOMAIN seen /\ d[q] = 0
    <3>1. q \in Nat /\ q + DirentLen <= st[1].off + st[1].len
      BY <2>3, TableProperties
    <3>2. q < st[1].next
      BY <1>6, <2>3, <3>1, FSAssumption
    <3>3. q \in DOMAIN seen /\ d[q] = Len(st) - 1
      BY <1>3, <1>5, <3>2 DEF WalkInv, ReadSoFar
    <3>. QED
      BY <2>2, <3>3
  <2>6. Positions(node') = Table(st[1].off, st[1].len)
    BY <2>1 DEF Positions, Table
  <2>7. NodeOK(d)'
    <3>1. /\ node'.kind = "dir" /\ node'.depth = 0 /\ node'.off = st[1].off
          /\ node'.len = st[1].len
      BY <2>1
    <3>2. \A q \in Positions(node') : q \in DOMAIN seen' /\ d[q] = node'.depth
      BY <1>1, <2>5, <2>6, <3>1
    <3>3. 0 \in 0 .. MaxDepth + 1 /\ 0 <= MaxDepth
      BY FSAssumption
    <3>. QED
      BY <2>4, <3>1, <3>2, <3>3 DEF NodeOK
  <2>8. Mounted'
    BY <1>1, <1>8, <1>10, <2>1, <2>7 DEF Mounted
  <2>. QED
    BY <1>1, <1>4, <1>7, <2>1, <2>8 DEF IInv
<1>. QED
  BY <1>9, <1>10

LEMMA ResolveStep ==
  ASSUME IInv, NEW p \in DOMAIN seen, Resolve(p)
  PROVE  IInv'
<1>. DEFINE e == seen[p]
<1>1. /\ result = "mounted" /\ node.kind = "dir" /\ p \in Positions(node)
      /\ node' = [kind |-> e.kind, off |-> e.extent[1], len |-> e.extent[2],
                  depth |-> node.depth + 1]
      /\ UNCHANGED <<mode, dataEnd, seen, stack, highWater, result, entries>>
  BY DEF Resolve
<1>2. Mounted
  BY <1>1 DEF IInv, Validating, Stopped, Errors
<1>3. PICK d : WalkInv(seen, stack, d) /\ NodeOK(d)
  BY <1>2 DEF Mounted
<1>4. stack = <<>> /\ Len(stack) = 0
  BY <1>2 DEF Mounted
<1>5. /\ EntriesInv(seen, highWater, Ceiling(mode, dataEnd)) /\ CallsInv(stack, highWater)
      /\ entries = Cardinality(DOMAIN seen)
  BY <1>1 DEF IInv
<1>6. /\ e \in Entry /\ e.kind # "bad" /\ End(e) <= Ceiling(mode, dataEnd)
      /\ End(e) <= ImageLen
  BY <1>5 DEF EntriesInv, EntriesOK
<1>7. /\ Start(e) \in Nat /\ e.extent[2] \in Nat /\ End(e) = Start(e) + e.extent[2]
      /\ e.kind \in Kinds
  BY <1>6, EntryTypes
<1>8. d[p] = node.depth /\ node.depth <= MaxDepth /\ node.depth \in Nat
  BY <1>1, <1>3, FSAssumption DEF NodeOK
<1>. HIDE DEF e
<1>9. /\ node'.kind = e.kind /\ node'.off = Start(e) /\ node'.len = e.extent[2]
      /\ node'.depth = node.depth + 1
  BY <1>1 DEF Start
<1>10. e.kind = "dir" =>
         d[p] + 1 <= MaxDepth
         /\ \A q \in Positions(node') : q \in DOMAIN seen /\ d[q] = d[p] + 1
  <2>. SUFFICES ASSUME e.kind = "dir"
                PROVE  /\ d[p] + 1 <= MaxDepth
                       /\ \A q \in Positions(node') : q \in DOMAIN seen /\ d[q] = d[p] + 1
    OBVIOUS
  <2>1. p \in Dirs(seen)
    BY DEF Dirs, e
  <2>2. d[p] + 1 <= MaxDepth /\ (Complete(seen, d, p) \/ Open(seen, stack, d, p))
    BY <1>3, <2>1 DEF WalkInv, DepthsOK
  <2>3. ~ Open(seen, stack, d, p)
    BY <1>4 DEF Open
  <2>4. Positions(node') = Table(Start(seen[p]), seen[p].extent[2])
    BY <1>9 DEF Positions, Table, e
  <2>. QED
    BY <2>2, <2>3, <2>4 DEF Complete
<1>11. NodeOK(d)'
  <2>1. node'.kind \in {"file", "dir"}
    BY <1>6, <1>7, <1>9 DEF Kinds
  <2>2. node'.depth \in 0 .. MaxDepth + 1
    BY <1>8, <1>9, FSAssumption
  <2>3. node'.off + node'.len <= ImageLen /\ node'.off + node'.len <= Ceiling(mode', dataEnd')
    BY <1>1, <1>6, <1>7, <1>9 DEF Ceiling
  <2>4. node'.kind = "dir" =>
          node'.depth <= MaxDepth
          /\ \A q \in Positions(node') : q \in DOMAIN seen' /\ d[q] = node'.depth
    BY <1>1, <1>8, <1>9, <1>10
  <2>. QED
    BY <2>1, <2>2, <2>3, <2>4 DEF NodeOK, Ceiling
<1>12. Mounted'
  BY <1>1, <1>2, <1>3, <1>11 DEF Mounted
<1>13. EntriesBound' /\ (Ceiling(mode, dataEnd))' = Ceiling(mode, dataEnd)
  BY <1>1 DEF IInv, EntriesBound, Ceiling
<1>. QED
  BY <1>1, <1>5, <1>12, <1>13 DEF IInv

LEMMA NextIInv == IInv /\ [Next]_vars => IInv'
<1>. SUFFICES ASSUME IInv, [Next]_vars
              PROVE  IInv'
  OBVIOUS
<1>1. CASE \E h \in Headers, m \in {"mount", "mount_loose", "mount_tier2"} : Mount(h, m)
  BY <1>1, MountStep
<1>2. CASE Return
  BY <1>2, ReturnStep
<1>3. CASE \E entry \in Entry : ValidateEntry(entry)
  <2>1. PICK entry \in Entry : ValidateEntry(entry)
    BY <1>3
  <2>2. /\ result = "validating" /\ Head(stack).next < Head(stack).off + Head(stack).len
        /\ (\E error \in Errors : Fail(error)) \/ Reads(entry)
    BY <2>1, EntryCases
  <2>3. CASE \E error \in Errors : Fail(error)
    BY <2>2, <2>3, FailStep
  <2>4. CASE Reads(entry)
    BY <2>2, <2>4, ReadStep
  <2>. QED
    BY <2>2, <2>3, <2>4
<1>4. CASE \E position \in DOMAIN seen : Resolve(position)
  BY <1>4, ResolveStep
<1>5. CASE UNCHANGED vars
  <2>1. /\ mode' = mode /\ dataEnd' = dataEnd /\ seen' = seen /\ stack' = stack
        /\ highWater' = highWater /\ result' = result /\ node' = node /\ entries' = entries
    BY <1>5 DEF vars
  <2>. QED
    BY <2>1 DEF IInv, EntriesBound, Validating, Mounted, Stopped, NodeOK, Ceiling
<1>. QED
  BY <1>1, <1>2, <1>3, <1>4, <1>5 DEF Next

LEMMA Invariance == Spec => []IInv
BY InitIInv, NextIInv, PTL DEF Spec

-----------------------------------------------------------------------------
(* The properties.                                                         *)

LEMMA IInvTypeOK == IInv => TypeOK
<1>. SUFFICES ASSUME IInv
              PROVE  TypeOK
  OBVIOUS
<1>1. result \in {"new", "validating", "mounted"} \cup Errors
  BY DEF IInv, Validating, Mounted, Stopped
<1>2. node.kind \in Kinds \cup {"none"}
  BY DEF IInv, Validating, Mounted, Stopped, NodeOK, NoNode, Kinds
<1>3. CASE result \in {"validating", "mounted"}
  <2>1. EntriesInv(seen, highWater, Ceiling(mode, dataEnd)) /\ CallsInv(stack, highWater)
    BY <1>3 DEF IInv
  <2>2. /\ highWater <= ImageLen /\ Len(stack) <= MaxDepth + 1
        /\ \A p \in DOMAIN seen : seen[p] \in Entry
    BY <2>1 DEF EntriesInv, EntriesOK, CallsInv, CallsOK
  <2>. QED
    BY <1>1, <1>2, <2>2 DEF IInv, EntriesBound, TypeOK
<1>4. CASE result \notin {"validating", "mounted"}
  <2>1. seen = Unread /\ stack = <<>>
    BY <1>4 DEF IInv, Validating, Mounted, Stopped
  <2>2. DOMAIN seen = {} /\ Len(stack) = 0
    BY <2>1 DEF Unread
  <2>3. Len(stack) <= MaxDepth + 1
    BY <2>2, FSAssumption
  <2>. QED
    BY <1>1, <1>2, <1>4, <2>2, <2>3 DEF IInv, EntriesBound, TypeOK
<1>. QED
  BY <1>3, <1>4

\* Mounting any image of any length recurses no deeper than MaxDepth and validates no
\* more entries than the image has room for, whatever its directories point at.
THEOREM FSTypeOK == Spec => []TypeOK
BY Invariance, IInvTypeOK, PTL

LEMMA IInvPathsInside == IInv => PathsInside
<1>. SUFFICES ASSUME IInv, node.kind # "none"
              PROVE  /\ node.kind # "bad" /\ node.depth <= MaxDepth + 1
                     /\ node.off + node.len <= ImageLen
                     /\ node.depth > 0 /\ mode = "mount" => node.off + node.len <= dataEnd
                     /\ node.kind = "dir" => Positions(node) \subseteq DOMAIN seen
                     /\ \A p \in DOMAIN seen : p + DirentLen <= ImageLen
  BY DEF PathsInside
<1>1. Mounted
  BY DEF IInv, Validating, Stopped, NoNode
<1>2. PICK d : NodeOK(d)
  BY <1>1 DEF Mounted
<1>3. EntriesInv(seen, highWater, Ceiling(mode, dataEnd))
  BY <1>1 DEF IInv, Mounted
<1>4. ASSUME NEW p \in DOMAIN seen
      PROVE  p + DirentLen <= ImageLen
  <2>1. p \in Nat /\ p + DirentLen <= highWater /\ highWater <= ImageLen /\ highWater \in Nat
    BY <1>3 DEF EntriesInv, EntriesOK
  <2>. QED
    BY <2>1, FSAssumption
<1>5. node.depth > 0 /\ mode = "mount" => node.off + node.len <= dataEnd
  BY <1>2 DEF NodeOK, Ceiling
<1>6. node.depth <= MaxDepth + 1
  BY <1>2, FSAssumption DEF NodeOK
<1>. QED
  BY <1>2, <1>4, <1>5, <1>6 DEF NodeOK

\* No path of a mounted image leaves the image, whatever the image says: every table and
\* every file a path can reach lies inside it, and the strict reader's within its data.
THEOREM FSPathsInside == Spec => []PathsInside
BY Invariance, IInvPathsInside, PTL

LEMMA IInvTablesDisjoint == IInv => TablesDisjoint
<1>. SUFFICES ASSUME IInv, result = "mounted"
              PROVE  TablesDisjoint
  BY DEF TablesDisjoint
<1>1. EntriesInv(seen, highWater, Ceiling(mode, dataEnd))
  BY DEF IInv
<1>. QED
  BY <1>1 DEF TablesDisjoint, EntriesInv, Spaced, DirsForward, DirsApart, Dirs, Start, End

\* The directory tables of a mounted image lie behind their entries and share no byte.
THEOREM FSTablesDisjoint == Spec => []TablesDisjoint
BY Invariance, IInvTablesDisjoint, PTL
==============================================================================
