--------------------------------- MODULE FS ----------------------------------
(***************************************************************************)
(* Mounting a ZranFS image and walking its paths (fs.rs).  The image is    *)
(* any bytes of length ImageLen: a directory entry is chosen when the      *)
(* validator first reads it and stays what it is.  The recursion of        *)
(* validate_dir is a stack; one step is one entry, or one return.  Names   *)
(* are left out: a path component may name any entry of its directory, or  *)
(* none.                                                                   *)
(***************************************************************************)
EXTENDS Integers, Sequences, FiniteSets

CONSTANTS
  ImageLen,
  SuperblockLen, DirentLen,  \* 16 and 32 bytes in the source
  MaxDepth,                  \* 32 in the source
  Headers,  \* what the superblock may say: [magic, version, total, dataEnd, fileCount]
  Extents   \* what an entry may say of its region: <<offset, length>>

ASSUME FSAssumption ==
  /\ ImageLen \in Nat /\ MaxDepth \in Nat
  /\ SuperblockLen \in Nat \ {0} /\ DirentLen \in Nat \ {0}
  /\ Headers \subseteq [magic : BOOLEAN, version : BOOLEAN, total : Nat, dataEnd : Nat,
                        fileCount : Nat]
  /\ Extents \subseteq Nat \X Nat

VARIABLES
  mode,       \* the reader: "mount", "mount_loose" or "mount_tier2"
  dataEnd,    \* the superblock's data_end
  seen,       \* the entries read so far, by their position in the image
  stack,      \* the open calls of validate_dir, innermost first: [off, len, next]
  highWater,  \* the end of every table seen so far
  result,     \* "new", "validating", "mounted" or the FsError
  node,       \* what the path walked since then names: [kind, off, len, depth]
  entries     \* history: how many entries were validated

vars == <<mode, dataEnd, seen, stack, highWater, result, node, entries>>

Kinds == {"file", "dir", "bad"}
Entry == [extent : Extents, kind : Kinds]
Unread == [p \in {} |-> 0]
NoNode == [kind |-> "none", off |-> 0, len |-> 0, depth |-> 0]

Init ==
  /\ mode = "mount" /\ dataEnd = 0 /\ seen = Unread /\ stack = <<>>
  /\ highWater = SuperblockLen /\ result = "new" /\ node = NoNode /\ entries = 0

\* Fault: the strict reader's ceiling is the end of the image too.
CeilingLoose(m, end) == ImageLen

\* What extents are confined to.
Ceiling(m, end) == IF m = "mount" THEN end ELSE ImageLen

-----------------------------------------------------------------------------
(* mount_inner and validate_dir.                                           *)

\* The `?` of every caller on the way out: nothing of the image is kept.
Fail(error) ==
  /\ result' = error /\ seen' = Unread /\ stack' = <<>>
  /\ UNCHANGED <<mode, dataEnd, highWater, node, entries>>

\* The superblock, in the order of its checks.
HeaderError(h, m) ==
  CASE ImageLen < SuperblockLen -> "Truncated"
    [] ~h.magic -> "BadMagic"
    [] ~h.version -> "UnsupportedVersion"
    [] IF m = "mount_tier2" THEN h.total > ImageLen ELSE h.total # ImageLen -> "SizeMismatch"
    [] h.dataEnd < SuperblockLen \/ h.dataEnd > ImageLen -> "BadDataEnd"
    [] SuperblockLen + h.fileCount * DirentLen > ImageLen -> "Truncated"
    [] OTHER -> "ok"

\* Fault: a region may start in a table already seen.
DirErrorBackward(off, len, depth) ==
  CASE depth > MaxDepth -> "TooDeep"
    [] len % DirentLen # 0 -> "BadDirLength"
    [] off + len > ImageLen -> "EntryOutOfBounds"
    [] OTHER -> "ok"

\* Fault: the depth is not looked at.
DirErrorAnyDepth(off, len, depth) ==
  CASE off < highWater -> "DirNotForward"
    [] len % DirentLen # 0 -> "BadDirLength"
    [] off + len > ImageLen -> "EntryOutOfBounds"
    [] OTHER -> "ok"

\* The head of validate_dir.
DirError(off, len, depth) ==
  CASE depth > MaxDepth -> "TooDeep"
    [] off < highWater -> "DirNotForward"
    [] len % DirentLen # 0 -> "BadDirLength"
    [] off + len > ImageLen -> "EntryOutOfBounds"
    [] OTHER -> "ok"

ValidateDir(off, len, open) ==
  /\ stack' = <<[off |-> off, len |-> len, next |-> off]>> \o open
  /\ highWater' = IF off + len > highWater THEN off + len ELSE highWater

Mount(h, m) ==
  /\ result = "new" /\ mode' = m /\ dataEnd' = h.dataEnd
  /\ IF HeaderError(h, m) # "ok"
     THEN result' = HeaderError(h, m) /\ UNCHANGED <<stack, highWater>>
     ELSE /\ result' = "validating"
          /\ ValidateDir(SuperblockLen, h.fileCount * DirentLen, <<>>)
  /\ UNCHANGED <<seen, node, entries>>

\* The loop's body for one entry.  The call remembers that it has read it.
ValidateEntry(entry) ==
  LET call == Head(stack)
      open == <<[call EXCEPT !.next = @ + DirentLen]>> \o Tail(stack)
      off  == entry.extent[1]
      end  == off + entry.extent[2]
  IN  /\ result = "validating" /\ stack # <<>>
      /\ call.next < call.off + call.len
      /\ call.next \in DOMAIN seen => entry = seen[call.next]
      /\ CASE end > ImageLen -> Fail("EntryOutOfBounds")
           [] end <= ImageLen /\ end > Ceiling(mode, dataEnd) -> Fail("ExtentEscapesData")
           [] end <= Ceiling(mode, dataEnd) /\ entry.kind = "bad" -> Fail("BadKind")
           [] end <= Ceiling(mode, dataEnd) /\ entry.kind = "dir"
                /\ DirError(off, entry.extent[2], Len(stack)) # "ok" ->
              Fail(DirError(off, entry.extent[2], Len(stack)))
           [] OTHER ->
              /\ seen' = [p \in DOMAIN seen \cup {call.next} |->
                            IF p = call.next THEN entry ELSE seen[p]]
              /\ IF entry.kind = "dir" THEN ValidateDir(off, entry.extent[2], open)
                 ELSE stack' = open /\ UNCHANGED highWater
              /\ entries' = entries + 1
              /\ UNCHANGED <<mode, dataEnd, result, node>>

\* The loop is over; behind the root the image is mounted, and paths start there.
Return ==
  /\ result = "validating" /\ stack # <<>>
  /\ Head(stack).next >= Head(stack).off + Head(stack).len
  /\ stack' = Tail(stack)
  /\ IF Tail(stack) = <<>>
     THEN /\ result' = "mounted"
          /\ node' = [kind |-> "dir", off |-> Head(stack).off, len |-> Head(stack).len,
                      depth |-> 0]
     ELSE UNCHANGED <<result, node>>
  /\ UNCHANGED <<mode, dataEnd, seen, highWater, entries>>

-----------------------------------------------------------------------------
(* resolve: a mounted image, one path component at a time.                 *)

Positions(table) == {table.off + i * DirentLen : i \in 0 .. (table.len \div DirentLen) - 1}

\* find_child.
Resolve(position) ==
  /\ result = "mounted" /\ node.kind = "dir" /\ position \in Positions(node)
  /\ LET entry == seen[position]
     IN  node' = [kind |-> entry.kind, off |-> entry.extent[1], len |-> entry.extent[2],
                  depth |-> node.depth + 1]
  /\ UNCHANGED <<mode, dataEnd, seen, stack, highWater, result, entries>>

Next ==
  \/ \E h \in Headers, m \in {"mount", "mount_loose", "mount_tier2"} : Mount(h, m)
  \/ Return
  \/ \E entry \in Entry : ValidateEntry(entry)
  \/ \E position \in DOMAIN seen : Resolve(position)

Spec == Init /\ [][Next]_vars

-----------------------------------------------------------------------------

Errors == {"Truncated", "BadMagic", "UnsupportedVersion", "SizeMismatch", "BadDataEnd",
           "EntryOutOfBounds", "ExtentEscapesData", "DirNotForward", "BadDirLength",
           "BadKind", "TooDeep"}

\* The calls nest no deeper than the kernel's 16 KiB stack was measured for, and no
\* entry is validated twice, whatever shares, repeats or points back: the work is
\* bounded by the image's length.
TypeOK ==
  /\ mode \in {"mount", "mount_loose", "mount_tier2"} /\ dataEnd \in Nat
  /\ \A p \in DOMAIN seen : seen[p] \in Entry
  /\ Len(stack) <= MaxDepth + 1
  /\ entries = 0 \/ SuperblockLen + entries * DirentLen <= ImageLen
  /\ result \in {"new", "validating", "mounted"} \cup Errors
  /\ node.kind \in Kinds \cup {"none"}
  /\ highWater \in Nat /\ (result \in {"validating", "mounted"} => highWater <= ImageLen)

\* Every path of a mounted image ends within the image and, with the strict reader,
\* within its data region; every entry find_child reads on the way lies in the image,
\* was validated, and nests no deeper than the validator went.
PathsInside ==
  node.kind # "none" =>
    /\ node.kind # "bad" /\ node.depth <= MaxDepth + 1
    /\ node.off + node.len <= ImageLen
    /\ node.depth > 0 /\ mode = "mount" => node.off + node.len <= dataEnd
    /\ node.kind = "dir" => Positions(node) \subseteq DOMAIN seen
    /\ \A p \in DOMAIN seen : p + DirentLen <= ImageLen

\* The tables of a mounted image lie behind the entries that name them, so no path comes
\* back to where it was, and no two of them share a byte.
TablesDisjoint ==
  result = "mounted" =>
    LET dirs == {p \in DOMAIN seen : seen[p].kind = "dir" /\ seen[p].extent[2] > 0}
        start(p) == seen[p].extent[1]
        end(p)   == seen[p].extent[1] + seen[p].extent[2]
    IN  /\ \A p \in dirs : p + DirentLen <= start(p)
        /\ \A p, q \in dirs : p # q => end(p) <= start(q) \/ end(q) <= start(p)
        /\ \A p, q \in DOMAIN seen : p < q => p + DirentLen <= q
=============================================================================
