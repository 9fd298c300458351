---------------------------- MODULE AddressSpace -----------------------------
(***************************************************************************)
(* What paging.rs and frame_allocator.rs promise their callers: a set of   *)
(* pages, each with the one frame its owner gave it and with the access it *)
(* asked for, and frames that belong to one owner at a time.  Page tables, *)
(* the bitmap and the translation cache do not show.                       *)
(***************************************************************************)
CONSTANTS Pages, UserPages, Frames

VARIABLES
  space,   \* the translations: a set of [page, frame, user] records
  owned    \* the frames a caller holds for a page: a set of <<page, frame>>

vars == <<space, owned>>

Mapped(p) == \E t \in space : t.page = p

Init == space = {} /\ owned = {}

\* The frame handed out belongs to nobody and nothing leads to it.
Alloc(p, f) ==
  /\ \A o \in owned : o[1] # p /\ o[2] # f
  /\ owned' = owned \cup {<<p, f>>} /\ UNCHANGED space
  /\ \A t \in space : t.frame # f

Map(p, f) ==
  /\ <<p, f>> \in owned /\ UNCHANGED owned /\ ~Mapped(p)
  /\ space' = space \cup {[page |-> p, frame |-> f, user |-> p \in UserPages]}

Unmap(p) ==
  /\ UNCHANGED owned /\ Mapped(p)
  /\ space' = {t \in space : t.page # p}

Free(p, f) ==
  /\ <<p, f>> \in owned /\ owned' = owned \ {<<p, f>>}
  /\ ~Mapped(p) /\ UNCHANGED space

Next ==
  \E p \in Pages :
    \/ Unmap(p)
    \/ \E f \in Frames : Alloc(p, f) \/ Map(p, f) \/ Free(p, f)

Spec == Init /\ [][Next]_vars
=============================================================================
