---------------------------- MODULE BridgeProofs -----------------------------
(***************************************************************************)
(* TLAPS proofs about Bridge, for every number of connections and          *)
(* addresses and every configuration.                                      *)
(***************************************************************************)
EXTENDS Bridge, FiniteSetTheorems, TLAPS

USE BridgeAssumption

-----------------------------------------------------------------------------
(* Typing.                                                                 *)

LEMMA InitTypeOK == Init => TypeOK
BY DEF Init, TypeOK, Ips, ZeroPerConn, ZeroPerIp, NoHits

\* What the end of the process leaves is well typed, whatever came before.
LEMMA ExitTypeOK ==
  ASSUME TypeOK, NEW next \in {"down", "stopped"}, ProcessExits(next)
  PROVE  TypeOK'
BY DEF TypeOK, ProcessExits, Ips, ZeroPerConn, ZeroPerIp, NoHits

\* A hit or a spawn that leaves its window leaves the rest well typed.
LEMMA TimeTypeOK ==
  ASSUME TypeOK, TimePasses
  PROVE  TypeOK'
<1>1. spawnTimes' \in Nat
  <2>1. spawnTimes \in Nat
    BY DEF TypeOK
  <2>2. spawnTimes' = spawnTimes \/ (spawnTimes > 0 /\ spawnTimes' = spawnTimes - 1)
    BY DEF TimePasses
  <2>. QED
    BY <2>1, <2>2
<1>2. rateHits' \in [Ips -> SUBSET Conn]
  <2>1. rateHits \in [Ips -> SUBSET Conn]
    BY DEF TypeOK
  <2>2. ASSUME NEW c \in Conn, rateHits' = [rateHits EXCEPT ![Ip[c]] = @ \ {c}]
        PROVE  rateHits' \in [Ips -> SUBSET Conn]
    BY <2>1, <2>2
  <2>. QED
    BY <2>1, <2>2 DEF TimePasses
<1>. QED
  BY <1>1, <1>2 DEF TypeOK, TimePasses, config, process, timers, channel, counters, Ips

\* The types are preserved by every step.
LEMMA NextTypeOK ==
  ASSUME TypeOK, [Next]_vars
  PROVE  TypeOK'
<1>. USE DEF TypeOK, config, process, timers, channel, counters, limits, Ips
<1>1. CASE TimePasses
  BY <1>1, TimeTypeOK
<1>2. CASE Signal
  BY <1>2, ExitTypeOK DEF Signal
<1>3. CASE Restart
  BY <1>3 DEF Restart
<1>4. ASSUME NEW c \in Conn, RejectPaused(c)
      PROVE  TypeOK'
  BY <1>4 DEF RejectPaused, Reject, Closing
<1>5. ASSUME NEW c \in Conn, Admit(c)
      PROVE  TypeOK'
  BY <1>5 DEF Admit, Reject, Closing, AwaitVerdict
<1>6. ASSUME NEW c \in Conn, SocketGone(c)
      PROVE  TypeOK'
  BY <1>6 DEF SocketGone, Closing
<1>7. ASSUME NEW c \in Conn, SocketFails(c) \/ SpawnFails(c) \/ StdinFails(c)
      PROVE  TypeOK'
  BY <1>7, ExitTypeOK DEF SocketFails, SpawnFails, StdinFails
<1>8. ASSUME NEW c \in Conn, Reserve(c)
      PROVE  TypeOK'
  BY <1>8 DEF Reserve, Spawned, SpawnQemu, MintFlag
<1>9. ASSUME NEW c \in Conn, Dismiss(c)
      PROVE  TypeOK'
  BY <1>9 DEF Dismiss, Reject, Closing
<1>10. ASSUME NEW c \in Conn, HardTimeout(c) \/ IdleTimeout(c) \/ Backlog(c)
       PROVE  TypeOK'
  BY <1>10 DEF HardTimeout, IdleTimeout, Backlog, End, Killed, Closing
<1>11. ASSUME NEW c \in Conn, Output(c)
       PROVE  TypeOK'
  BY <1>11 DEF Output
<1>12. ASSUME NEW c \in Conn, Message(c)
       PROVE  TypeOK'
  BY <1>12 DEF Message, HandleControl, Counted, End, Killed, Closing
<1>13. ASSUME NEW c \in Conn, LateMessage(c)
       PROVE  TypeOK'
  BY <1>13 DEF LateMessage
<1>14. ASSUME NEW c \in Conn, QemuExit(c) \/ WsClose(c)
       PROVE  TypeOK'
  BY <1>14 DEF QemuExit, WsClose, Cleanup, CleanupKill, Killed, Less, Closing
<1>15. CASE UNCHANGED vars
  BY <1>15 DEF vars
<1>. QED
  BY <1>1, <1>2, <1>3, <1>4, <1>5, <1>6, <1>7, <1>8, <1>9, <1>10, <1>11, <1>12, <1>13,
     <1>14, <1>15 DEF Next, Arrive, Resume, Handler

-----------------------------------------------------------------------------
(* One session's state, whatever the others do.                            *)

\* A session is cleaned only when its socket and its child are done for; until then its
\* 'close' is still to come and its hard timer is armed as long as the child runs.  A
\* child that nobody killed survives only the end of the process, in a scope of its own.
SessionOK(c) ==
  /\ c \in cleaned => phase[c] = "live" /\ ws[c] # "open" /\ qemu[c] # "running"
  /\ phase[c] = "live" /\ c \notin cleaned =>
       ws[c] # "closed" /\ (qemu[c] = "running" => c \in hard)
  /\ phase[c] \in {"new", "verifying", "refused"} => qemu[c] = "none"
  /\ phase[c] = "lost" /\ ~CONFIG.USE_SYSTEMD_RUN => qemu[c] # "running"

\* The input counters of a connection that is no session, or no longer one, are zero.
InputOK(c) ==
  /\ phase[c] # "live" => inBytes[c] = 0
  /\ submits[c] <= inBytes[c]
  /\ inBytes[c] > CONFIG.MAX_IN_BYTES => qemu[c] # "running" /\ ws[c] # "open"

\* A session holds the flag that was minted for it, and keeps it.
FlagOK(c) == phase[c] = "live" \/ c \in captured => flag[c] = c

SessionInv == \A c \in Conn : SessionOK(c)
InputInv == \A c \in Conn : InputOK(c)
FlagInv == OnlyCapturesCount /\ \A c \in Conn : FlagOK(c)

LEMMA NextSessionInv ==
  ASSUME TypeOK, TypeOK', SessionInv, [Next]_vars
  PROVE  SessionInv'
<1>. SUFFICES ASSUME NEW d \in Conn
              PROVE  SessionOK(d)'
  BY DEF SessionInv
<1>. USE DEF TypeOK, SessionInv, SessionOK, config, process, timers, channel, counters, limits
<1>1. CASE TimePasses \/ Restart \/ UNCHANGED vars
  BY <1>1 DEF TimePasses, Restart, vars
<1>2. ASSUME NEW next, ProcessExits(next)
      PROVE  SessionOK(d)'
  BY <1>2 DEF ProcessExits
<1>3. CASE Signal
  BY <1>2, <1>3 DEF Signal
<1>4. ASSUME NEW c \in Conn, RejectPaused(c) \/ Admit(c)
      PROVE  SessionOK(d)'
  BY <1>4 DEF RejectPaused, Admit, Reject, Closing, AwaitVerdict
<1>6. ASSUME NEW c \in Conn, SocketGone(c)
      PROVE  SessionOK(d)'
  BY <1>6 DEF SocketGone, Unheard, Closing
<1>7. ASSUME NEW c \in Conn, SocketFails(c) \/ SpawnFails(c) \/ StdinFails(c)
      PROVE  SessionOK(d)'
  BY <1>7, <1>2 DEF SocketFails, SpawnFails, StdinFails
<1>8. ASSUME NEW c \in Conn, Reserve(c)
      PROVE  SessionOK(d)'
  BY <1>8 DEF Reserve, Spawned, SpawnQemu, MintFlag
<1>9. ASSUME NEW c \in Conn, Dismiss(c)
      PROVE  SessionOK(d)'
  BY <1>9 DEF Dismiss, Reject, Closing
<1>10. ASSUME NEW c \in Conn, HardTimeout(c) \/ IdleTimeout(c) \/ Backlog(c)
       PROVE  SessionOK(d)'
  BY <1>10 DEF HardTimeout, IdleTimeout, Backlog, End, Killed, Closing
<1>11. ASSUME NEW c \in Conn, Output(c) \/ LateMessage(c)
       PROVE  SessionOK(d)'
  BY <1>11 DEF Output, LateMessage
<1>12. ASSUME NEW c \in Conn, Message(c)
       PROVE  SessionOK(d)'
  BY <1>12 DEF Message, End, Killed, Closing
<1>14. ASSUME NEW c \in Conn, QemuExit(c) \/ WsClose(c)
       PROVE  SessionOK(d)'
  BY <1>14 DEF QemuExit, WsClose, Session, Cleanup, CleanupKill, Killed, Closing
<1>. QED
  BY <1>1, <1>2, <1>3, <1>4, <1>6, <1>7, <1>8, <1>9, <1>10, <1>11, <1>12,
     <1>14 DEF Next, Arrive, Resume, Handler

LEMMA NextInputInv ==
  ASSUME TypeOK, TypeOK', SessionInv, InputInv, [Next]_vars
  PROVE  InputInv'
<1>. SUFFICES ASSUME NEW d \in Conn
              PROVE  InputOK(d)'
  BY DEF InputInv
<1>. CONFIG.MAX_IN_BYTES \in Nat \ {0} /\ inBytes[d] \in Nat /\ submits[d] \in Nat
  BY DEF TypeOK, Config
<1>. USE DEF TypeOK, InputInv, InputOK, config, process, timers, channel, counters, limits
<1>1. CASE TimePasses \/ Restart \/ UNCHANGED vars
  BY <1>1 DEF TimePasses, Restart, vars
<1>2. ASSUME NEW next, ProcessExits(next)
      PROVE  InputOK(d)'
  BY <1>2 DEF ProcessExits, ZeroPerConn
<1>3. CASE Signal
  BY <1>2, <1>3 DEF Signal
<1>4. ASSUME NEW c \in Conn, RejectPaused(c) \/ Admit(c)
      PROVE  InputOK(d)'
  BY <1>4 DEF RejectPaused, Admit, Reject, Closing, AwaitVerdict
<1>5. ASSUME NEW c \in Conn, SocketGone(c)
      PROVE  InputOK(d)'
  BY <1>5 DEF SocketGone, Unheard, Closing
<1>6. ASSUME NEW c \in Conn, SocketFails(c) \/ SpawnFails(c) \/ StdinFails(c)
      PROVE  InputOK(d)'
  BY <1>6, <1>2 DEF SocketFails, SpawnFails, StdinFails
<1>7. ASSUME NEW c \in Conn, Reserve(c)
      PROVE  InputOK(d)'
  BY <1>7 DEF Reserve, Spawned, SpawnQemu
<1>8. ASSUME NEW c \in Conn, Dismiss(c)
      PROVE  InputOK(d)'
  BY <1>8 DEF Dismiss, Reject, Closing
<1>9. ASSUME NEW c \in Conn, HardTimeout(c) \/ IdleTimeout(c) \/ Backlog(c)
      PROVE  InputOK(d)'
  BY <1>9 DEF HardTimeout, IdleTimeout, Backlog, Session, End, Killed, Closing
<1>10. ASSUME NEW c \in Conn, Output(c) \/ LateMessage(c)
       PROVE  InputOK(d)'
  BY <1>10 DEF Output, LateMessage
<1>11. ASSUME NEW c \in Conn, Message(c)
       PROVE  InputOK(d)'
  <2>1. CASE inBytes'[c] > CONFIG.MAX_IN_BYTES
    BY <1>11, <2>1 DEF Message, Session, Counted, End, Killed, Closing
  <2>2. CASE ~(inBytes'[c] > CONFIG.MAX_IN_BYTES)
    BY <1>11, <2>2 DEF Message, Session, HandleControl, Counted
  <2>. QED
    BY <2>1, <2>2
<1>12. ASSUME NEW c \in Conn, QemuExit(c) \/ WsClose(c)
       PROVE  InputOK(d)'
  BY <1>12 DEF QemuExit, WsClose, Session, Cleanup, CleanupKill, Killed, Closing
<1>. QED
  BY <1>1, <1>2, <1>3, <1>4, <1>5, <1>6, <1>7, <1>8, <1>9, <1>10, <1>11, <1>12
     DEF Next, Arrive, Resume, Handler

LEMMA NextFlagInv ==
  ASSUME TypeOK, TypeOK', FlagInv, [Next]_vars
  PROVE  FlagInv'
<1>. USE DEF TypeOK, FlagInv, FlagOK, OnlyCapturesCount,
             config, process, timers, channel, counters, limits
<1>1. CASE TimePasses \/ Restart \/ UNCHANGED vars
  BY <1>1 DEF TimePasses, Restart, vars
<1>2. ASSUME NEW next, ProcessExits(next)
      PROVE  FlagInv'
  BY <1>2 DEF ProcessExits
<1>3. CASE Signal
  BY <1>2, <1>3 DEF Signal
<1>4. ASSUME NEW c \in Conn, RejectPaused(c) \/ Admit(c) \/ SocketGone(c) \/ Dismiss(c)
      PROVE  FlagInv'
  BY <1>4 DEF RejectPaused, Admit, SocketGone, Dismiss, Reject, AwaitVerdict
<1>5. ASSUME NEW c \in Conn, SocketFails(c) \/ SpawnFails(c) \/ StdinFails(c)
      PROVE  FlagInv'
  BY <1>5, <1>2 DEF SocketFails, SpawnFails, StdinFails
<1>6. ASSUME NEW c \in Conn, Reserve(c)
      PROVE  FlagInv'
  BY <1>6 DEF Reserve, Spawned, SpawnQemu, MintFlag
<1>7. ASSUME NEW c \in Conn,
             HardTimeout(c) \/ IdleTimeout(c) \/ Backlog(c) \/ LateMessage(c) \/ Output(c)
      PROVE  FlagInv'
  BY <1>7 DEF HardTimeout, IdleTimeout, Backlog, LateMessage, Output, Session, End
<1>8. ASSUME NEW c \in Conn, Message(c)
      PROVE  FlagInv'
  \* A flag that a client knows and that is its own was captured from its own guest.
  <2>1. ASSUME HandleControl(c)
        PROVE  solved' \subseteq captured
    <3>1. PICK guess \in Known :
            solved' = solved \/ (guess = flag[c] /\ solved' = solved \cup {c})
      BY <2>1 DEF HandleControl, Known
    <3>2. flag[c] = c /\ c # Junk
      BY <1>8 DEF Message, Session
    <3>3. ASSUME guess = flag[c]
          PROVE  c \in captured
      BY <3>2, <3>3 DEF Known
    <3>. QED
      BY <3>1, <3>3
  <2>. QED
    BY <1>8, <2>1 DEF Message, End
<1>9. ASSUME NEW c \in Conn, QemuExit(c) \/ WsClose(c)
      PROVE  FlagInv'
  BY <1>9 DEF QemuExit, WsClose
<1>. QED
  BY <1>1, <1>2, <1>3, <1>4, <1>5, <1>6, <1>7, <1>8, <1>9 DEF Next, Arrive, Resume, Handler

-----------------------------------------------------------------------------
(* Slots: what a step does to the sessions held and to the counters.       *)

\* One slot more, one slot less, all of them gone.
Taken(c) ==
  /\ c \in Conn \ Held /\ Held' = Held \cup {c}
  /\ live' = live + 1 /\ livePerIp' = [livePerIp EXCEPT ![Ip[c]] = @ + 1]
Freed(c) ==
  /\ c \in Held /\ Held' = Held \ {c}
  /\ live' = Less(live) /\ livePerIp' = [livePerIp EXCEPT ![Ip[c]] = Less(@)]
AllFreed == Held' = {} /\ live' = 0 /\ livePerIp' = ZeroPerIp
SameSlots == Held' = Held /\ UNCHANGED counters

LEMMA SlotSteps ==
  ASSUME TypeOK, TypeOK', SessionInv, [Next]_vars
  PROVE  SameSlots \/ AllFreed \/ \E c \in Conn : Taken(c) \/ Freed(c)
<1>. USE DEF TypeOK, Held, SameSlots, config, process, timers, channel, counters, limits
<1>1. CASE TimePasses \/ Restart \/ UNCHANGED vars
  BY <1>1 DEF TimePasses, Restart, vars
<1>2. ASSUME NEW next, ProcessExits(next)
      PROVE  AllFreed
  BY <1>2 DEF ProcessExits, AllFreed
<1>3. CASE Signal
  BY <1>2, <1>3 DEF Signal
<1>4. ASSUME NEW c \in Conn, RejectPaused(c) \/ Admit(c)
      PROVE  SameSlots
  BY <1>4 DEF RejectPaused, Admit, Reject, AwaitVerdict
<1>5. ASSUME NEW c \in Conn, SocketGone(c) \/ Dismiss(c)
      PROVE  SameSlots
  BY <1>5 DEF SocketGone, Dismiss, Reject
<1>6. ASSUME NEW c \in Conn, SocketFails(c) \/ SpawnFails(c) \/ StdinFails(c)
      PROVE  AllFreed
  BY <1>6, <1>2 DEF SocketFails, SpawnFails, StdinFails
<1>7. ASSUME NEW c \in Conn, Reserve(c)
      PROVE  Taken(c)
  BY <1>7 DEF Reserve, Spawned, Taken, SessionInv, SessionOK
<1>8. ASSUME NEW c \in Conn,
             HardTimeout(c) \/ IdleTimeout(c) \/ Backlog(c) \/ LateMessage(c) \/ Output(c)
      PROVE  SameSlots
  BY <1>8 DEF HardTimeout, IdleTimeout, Backlog, LateMessage, Output
<1>9. ASSUME NEW c \in Conn, Message(c)
      PROVE  SameSlots
  BY <1>9 DEF Message
<1>10. ASSUME NEW c \in Conn, QemuExit(c) \/ WsClose(c)
       PROVE  SameSlots \/ Freed(c)
  BY <1>10 DEF QemuExit, WsClose, Session, Cleanup, Freed
<1>. QED
  BY <1>1, <1>2, <1>3, <1>4, <1>5, <1>6, <1>7, <1>8, <1>9, <1>10
     DEF Next, Arrive, Resume, Handler

\* The sessions of one address.
HeldAt(i) == {c \in Held : Ip[c] = i}

LEMMA HeldFinite ==
  /\ Held \subseteq Conn /\ IsFiniteSet(Held) /\ Cardinality(Held) \in Nat
  /\ \A i : HeldAt(i) \subseteq Held /\ IsFiniteSet(HeldAt(i)) /\ Cardinality(HeldAt(i)) \in Nat
BY FS_Subset, FS_CardinalityType DEF Held, HeldAt

LEMMA NextCountersExact ==
  ASSUME TypeOK, TypeOK', SessionInv, CountersExact, [Next]_vars
  PROVE  CountersExact'
<1>1. live = Cardinality(Held) /\ \A i \in Ips : livePerIp[i] = Cardinality(HeldAt(i))
  BY DEF CountersExact, Health, HeldAt
<1>2. SUFFICES /\ live' = Cardinality(Held')
               /\ \A i \in Ips : livePerIp'[i] = Cardinality(HeldAt(i)')
  BY DEF CountersExact, Health, HeldAt, Ips
<1>3. livePerIp \in [Ips -> Nat] /\ \A c \in Conn : Ip[c] \in Ips
  BY DEF TypeOK, Ips
<1>4. CASE SameSlots
  BY <1>1, <1>4 DEF SameSlots, counters, HeldAt
<1>5. CASE AllFreed
  <2>1. HeldAt(1)' = {} /\ \A i \in Ips : HeldAt(i)' = {}
    BY <1>5 DEF AllFreed, HeldAt
  <2>. QED
    BY <1>5, <2>1, FS_EmptySet DEF AllFreed, ZeroPerIp
<1>6. ASSUME NEW c \in Conn, Taken(c)
      PROVE  /\ live' = Cardinality(Held')
             /\ \A i \in Ips : livePerIp'[i] = Cardinality(HeldAt(i)')
  <2>1. live' = Cardinality(Held')
    BY <1>1, <1>6, HeldFinite, FS_AddElement DEF Taken
  <2>2. ASSUME NEW i \in Ips, i # Ip[c]
        PROVE  livePerIp'[i] = Cardinality(HeldAt(i)')
    <3>1. HeldAt(i)' = HeldAt(i)
      BY <1>6, <2>2 DEF Taken, HeldAt
    <3>. QED
      BY <1>1, <1>3, <1>6, <2>2, <3>1 DEF Taken
  <2>3. livePerIp'[Ip[c]] = Cardinality(HeldAt(Ip[c])')
    <3>1. HeldAt(Ip[c])' = HeldAt(Ip[c]) \cup {c} /\ c \notin HeldAt(Ip[c])
      BY <1>6 DEF Taken, HeldAt
    <3>2. Cardinality(HeldAt(Ip[c])') = Cardinality(HeldAt(Ip[c])) + 1
      BY <3>1, HeldFinite, FS_AddElement
    <3>. QED
      BY <1>1, <1>3, <1>6, <3>2 DEF Taken
  <2>. QED
    BY <2>1, <2>2, <2>3
<1>7. ASSUME NEW c \in Conn, Freed(c)
      PROVE  /\ live' = Cardinality(Held')
             /\ \A i \in Ips : livePerIp'[i] = Cardinality(HeldAt(i)')
  <2>1. live' = Cardinality(Held')
    <3>1. Cardinality(Held') = Cardinality(Held) - 1 /\ Cardinality(Held') \in Nat
      BY <1>7, HeldFinite, FS_RemoveElement, FS_CardinalityType DEF Freed
    <3>. QED
      BY <1>1, <1>7, <3>1, HeldFinite DEF Freed, Less
  <2>2. ASSUME NEW i \in Ips, i # Ip[c]
        PROVE  livePerIp'[i] = Cardinality(HeldAt(i)')
    <3>1. HeldAt(i)' = HeldAt(i)
      BY <1>7, <2>2 DEF Freed, HeldAt
    <3>. QED
      BY <1>1, <1>3, <1>7, <2>2, <3>1 DEF Freed
  <2>3. livePerIp'[Ip[c]] = Cardinality(HeldAt(Ip[c])')
    <3>1. HeldAt(Ip[c])' = HeldAt(Ip[c]) \ {c} /\ c \in HeldAt(Ip[c])
      BY <1>7 DEF Freed, HeldAt
    <3>2. /\ Cardinality(HeldAt(Ip[c])') = Cardinality(HeldAt(Ip[c])) - 1
          /\ Cardinality(HeldAt(Ip[c])') \in Nat
      BY <3>1, HeldFinite, FS_RemoveElement, FS_CardinalityType
    <3>3. livePerIp'[Ip[c]] = Less(livePerIp[Ip[c]])
      BY <1>3, <1>7 DEF Freed
    <3>. QED
      BY <1>1, <1>3, <3>2, <3>3, HeldFinite DEF Less
  <2>. QED
    BY <2>1, <2>2, <2>3
<1>. QED
  BY <1>2, <1>4, <1>5, <1>6, <1>7, SlotSteps

-----------------------------------------------------------------------------
(* Limits.                                                                 *)

\* The hits of an address that were let through, the ones awaiting a verdict included.
Passed(i) == {c \in rateHits[i] : phase[c] \in {"verifying", "live"}}

OwnHits == \A i \in Ips : \A c \in rateHits[i] : Ip[c] = i

RateInv == OwnHits /\ \A i \in Ips : Cardinality(Passed(i)) <= CONFIG.RATE_MAX

\* Without a gate what was tested before the await still holds behind it, since there
\* is at most one connection in between and no callback.
CapsInv ==
  ~CONFIG.TURNSTILE =>
    /\ Caps
    /\ \A c \in Conn : phase[c] = "verifying" => ~Busy(c) /\ ~OverHourlyBudget
    /\ \A c, d \in Conn : phase[c] = "verifying" /\ phase[d] = "verifying" => c = d

LEMMA PassedFinite ==
  ASSUME TypeOK, NEW i \in Ips
  PROVE  /\ Passed(i) \subseteq rateHits[i] /\ IsFiniteSet(rateHits[i])
         /\ IsFiniteSet(Passed(i)) /\ Cardinality(Passed(i)) \in Nat
         /\ Cardinality(Passed(i)) <= Cardinality(rateHits[i]) /\ Cardinality(rateHits[i]) \in Nat
<1>1. rateHits[i] \subseteq Conn /\ Passed(i) \subseteq rateHits[i]
  BY DEF TypeOK, Passed
<1>. QED
  BY <1>1, FS_Subset, FS_CardinalityType

\* A hit is let through only if all the hits of its address in the window are few.
LEMMA PassedSteps ==
  ASSUME TypeOK, TypeOK', OwnHits, [Next]_vars, NEW i \in Ips
  PROVE  Passed(i)' \subseteq Passed(i) \/ Cardinality(rateHits'[i]) <= CONFIG.RATE_MAX
<1>. USE DEF TypeOK, Passed, config, process, timers, channel, counters, limits
<1>1. CASE TimePasses
  <2>1. rateHits'[i] \subseteq rateHits[i] /\ UNCHANGED phase
    BY <1>1 DEF TimePasses
  <2>. QED
    BY <2>1
<1>2. CASE Restart \/ UNCHANGED vars
  BY <1>2 DEF Restart, vars
<1>3. ASSUME NEW next, ProcessExits(next)
      PROVE  Passed(i)' \subseteq Passed(i)
  BY <1>3 DEF ProcessExits, NoHits
<1>4. CASE Signal
  BY <1>3, <1>4 DEF Signal
<1>5. ASSUME NEW c \in Conn, Admit(c)
      PROVE  Passed(i)' \subseteq Passed(i) \/ Cardinality(rateHits'[i]) <= CONFIG.RATE_MAX
  <2>1. CASE phase'[c] = "refused"
    BY <1>5, <2>1 DEF Admit, Reject, AwaitVerdict
  <2>2. CASE phase'[c] # "refused"
    <3>1. /\ rateHits' = [rateHits EXCEPT ![Ip[c]] = @ \cup {c}]
          /\ ~RateLimited(c) /\ phase' = [phase EXCEPT ![c] = "verifying"]
      BY <1>5, <2>2 DEF Admit, Reject, AwaitVerdict
    <3>2. CASE i = Ip[c]
      <4>1. rateHits'[i] = rateHits[i] \cup {c} /\ rateHits'[i] \subseteq Conn
        BY <3>1, <3>2
      <4>2. Cardinality(rateHits'[i]) \in Nat
        BY <4>1, FS_Subset, FS_CardinalityType
      <4>3. CONFIG.RATE_MAX \in Nat
        BY DEF Config
      <4>. QED
        BY <3>1, <3>2, <4>1, <4>2, <4>3 DEF RateLimited
    <3>3. CASE i # Ip[c]
      <4>1. rateHits'[i] = rateHits[i] /\ c \notin rateHits[i]
        BY <3>1, <3>3 DEF OwnHits
      <4>. QED
        BY <3>1, <4>1, <1>5 DEF Admit
    <3>. QED
      BY <3>2, <3>3
  <2>. QED
    BY <2>1, <2>2
<1>6. ASSUME NEW c \in Conn, RejectPaused(c) \/ SocketGone(c) \/ Dismiss(c)
      PROVE  Passed(i)' \subseteq Passed(i)
  BY <1>6 DEF RejectPaused, SocketGone, Dismiss, Reject
<1>7. ASSUME NEW c \in Conn, SocketFails(c) \/ SpawnFails(c) \/ StdinFails(c)
      PROVE  Passed(i)' \subseteq Passed(i)
  BY <1>7, <1>3 DEF SocketFails, SpawnFails, StdinFails
<1>8. ASSUME NEW c \in Conn, Reserve(c)
      PROVE  Passed(i)' \subseteq Passed(i)
  BY <1>8 DEF Reserve, Spawned
<1>9. ASSUME NEW c \in Conn, Handler(c)
      PROVE  Passed(i)' \subseteq Passed(i)
  BY <1>7, <1>9 DEF Handler, HardTimeout, IdleTimeout, Backlog, LateMessage, Output, Message,
              QemuExit, WsClose
<1>. QED
  BY <1>1, <1>2, <1>3, <1>4, <1>5, <1>6, <1>7, <1>8, <1>9 DEF Next, Arrive, Resume

LEMMA NextOwnHits ==
  ASSUME TypeOK, TypeOK', OwnHits, [Next]_vars
  PROVE  OwnHits'
<1>. USE DEF TypeOK, OwnHits, Ips, config, limits
<1>1. CASE UNCHANGED rateHits
  BY <1>1
<1>2. CASE TimePasses
  BY <1>2 DEF TimePasses
<1>3. ASSUME NEW next, ProcessExits(next)
      PROVE  OwnHits'
  BY <1>3 DEF ProcessExits, NoHits
<1>4. ASSUME NEW c \in Conn, Admit(c)
      PROVE  OwnHits'
  BY <1>4 DEF Admit
<1>. QED
  BY <1>1, <1>2, <1>3, <1>4
  DEF Next, Arrive, Resume, Handler, vars, Signal, Restart, RejectPaused, SocketGone,
      SocketFails, SpawnFails, StdinFails, Reserve, Spawned, Dismiss, HardTimeout,
      IdleTimeout, Backlog, LateMessage, Output, Message, QemuExit, WsClose

\* The settings never change.
LEMMA NextConfig ==
  ASSUME [Next]_vars
  PROVE  CONFIG' = CONFIG
BY DEF Next, Arrive, Resume, Handler, vars, config, TimePasses, Signal, ProcessExits, Restart,
       RejectPaused, Admit, SocketGone, SocketFails, SpawnFails, StdinFails, Reserve, Spawned,
       Dismiss, HardTimeout, IdleTimeout, Backlog, LateMessage, Output, Message, QemuExit, WsClose

LEMMA NextRateInv ==
  ASSUME TypeOK, TypeOK', RateInv, [Next]_vars
  PROVE  RateInv'
<1>. USE DEF RateInv
<1>1. SUFFICES ASSUME NEW i \in Ips
               PROVE  Cardinality(Passed(i)') <= CONFIG.RATE_MAX
  BY NextConfig, NextOwnHits DEF Ips
<1>2. CONFIG.RATE_MAX \in Nat
  BY DEF TypeOK, Config
<1>3. /\ IsFiniteSet(Passed(i)') /\ Cardinality(Passed(i)') \in Nat
      /\ Cardinality(Passed(i)') <= Cardinality(rateHits'[i]) /\ Cardinality(rateHits'[i]) \in Nat
  <2>1. rateHits'[i] \subseteq Conn /\ Passed(i)' \subseteq rateHits'[i]
    BY DEF TypeOK, Passed, Ips
  <2>. QED
    BY <2>1, FS_Subset, FS_CardinalityType
<1>4. CASE Passed(i)' \subseteq Passed(i)
  <2>1. Cardinality(Passed(i)') <= Cardinality(Passed(i))
    BY <1>4, PassedFinite, FS_Subset
  <2>. QED
    BY <1>2, <1>3, <2>1, PassedFinite
<1>5. CASE Cardinality(rateHits'[i]) <= CONFIG.RATE_MAX
  BY <1>2, <1>3, <1>5
<1>. QED
  BY <1>4, <1>5, PassedSteps

\* Caps of a state with fewer sessions and spawns follow from those of the state before.
LEMMA FewerKeepsCaps ==
  ASSUME TypeOK, TypeOK', Caps, CONFIG' = CONFIG,
         live' <= live, spawnTimes' <= spawnTimes, \A i \in Ips : livePerIp'[i] <= livePerIp[i]
  PROVE  Caps'
<1>1. /\ live \in Nat /\ live' \in Nat /\ spawnTimes \in Nat /\ spawnTimes' \in Nat
      /\ livePerIp \in [Ips -> Nat] /\ livePerIp' \in [Ips -> Nat]
      /\ CONFIG.MAX_CONCURRENT \in Nat /\ CONFIG.MAX_PER_IP \in Nat /\ CONFIG.HOURLY_BUDGET \in Nat
  BY DEF TypeOK, Config, Ips
<1>. QED
  BY <1>1 DEF Caps, Ips

LEMMA NextCapsInv ==
  ASSUME TypeOK, TypeOK', CapsInv, [Next]_vars
  PROVE  CapsInv'
<1>1. CONFIG' = CONFIG
  BY NextConfig
<1>2. SUFFICES ASSUME ~CONFIG.TURNSTILE
               PROVE  /\ Caps'
                      /\ \A c \in Conn : phase'[c] = "verifying" => ~Busy(c)' /\ ~OverHourlyBudget'
                      /\ \A c, d \in Conn : phase'[c] = "verifying" /\ phase'[d] = "verifying" => c = d
  BY <1>1 DEF CapsInv
<1>3. /\ live \in Nat /\ spawnTimes \in Nat /\ livePerIp \in [Ips -> Nat]
      /\ phase \in [Conn -> {"new", "verifying", "refused", "live", "lost"}]
      /\ \A c \in Conn : Ip[c] \in Ips
      /\ CONFIG.MAX_CONCURRENT \in Nat /\ CONFIG.MAX_PER_IP \in Nat /\ CONFIG.HOURLY_BUDGET \in Nat
  BY DEF TypeOK, Config, Ips
<1>4. /\ Caps
      /\ \A c \in Conn : phase[c] = "verifying" => ~Busy(c) /\ ~OverHourlyBudget
      /\ \A c, d \in Conn : phase[c] = "verifying" /\ phase[d] = "verifying" => c = d
  BY <1>2 DEF CapsInv
<1>5. Callback => \A c \in Conn : phase[c] # "verifying"
  BY <1>2 DEF Callback, Idling
<1>. USE DEF config, process, timers, channel, counters, limits
<1>6. CASE Restart \/ UNCHANGED vars
  BY <1>1, <1>4, <1>6 DEF Restart, vars, Caps, Busy, OverHourlyBudget, Ips
<1>7. ASSUME NEW next, ProcessExits(next)
      PROVE  Caps' /\ \A c \in Conn : phase'[c] # "verifying"
  BY <1>1, <1>3, <1>7 DEF ProcessExits, Caps, ZeroPerIp, Ips
<1>8. CASE Signal
  BY <1>7, <1>8 DEF Signal
<1>9. CASE TimePasses
  <2>1. UNCHANGED phase /\ UNCHANGED counters /\ Callback
    BY <1>9 DEF TimePasses
  <2>2. spawnTimes' = spawnTimes \/ spawnTimes' = spawnTimes - 1
    BY <1>9 DEF TimePasses
  <2>3. spawnTimes' <= spawnTimes
    BY <1>3, <2>2
  <2>4. live' <= live /\ \A i \in Ips : livePerIp'[i] <= livePerIp[i]
    BY <1>3, <2>1
  <2>. QED
    BY <1>1, <1>4, <1>5, <2>1, <2>3, <2>4, FewerKeepsCaps
<1>10. ASSUME NEW c \in Conn, Admit(c)
       PROVE  CapsInv'
  <2>1. UNCHANGED counters /\ UNCHANGED spawnTimes /\ Caps'
    BY <1>1, <1>4, <1>10 DEF Admit, Caps, Ips
  <2>2. /\ \A d \in Conn : phase'[d] = "verifying" => d = c
        /\ phase'[c] = "verifying" => ~Busy(c) /\ ~OverHourlyBudget
    BY <1>3, <1>5, <1>10 DEF Admit, Reject, AwaitVerdict
  <2>. QED
    BY <1>1, <2>1, <2>2 DEF CapsInv, Busy, OverHourlyBudget
<1>11. ASSUME NEW c \in Conn, RejectPaused(c) \/ SocketGone(c) \/ Dismiss(c)
       PROVE  CapsInv'
  <2>1. /\ UNCHANGED counters /\ UNCHANGED limits /\ Caps'
        /\ \A d \in Conn : phase'[d] = "verifying" => phase[d] = "verifying"
    BY <1>1, <1>3, <1>4, <1>11 DEF RejectPaused, SocketGone, Dismiss, Reject, Caps, Ips
  <2>. QED
    BY <1>1, <1>4, <2>1 DEF CapsInv, Busy, OverHourlyBudget
<1>12. ASSUME NEW c \in Conn, SocketFails(c) \/ SpawnFails(c) \/ StdinFails(c)
       PROVE  Caps' /\ \A d \in Conn : phase'[d] # "verifying"
  BY <1>7, <1>12 DEF SocketFails, SpawnFails, StdinFails
<1>13. ASSUME NEW c \in Conn, Reserve(c)
       PROVE  Caps' /\ \A d \in Conn : phase'[d] # "verifying"
  <2>1. /\ phase[c] = "verifying" /\ live' = live + 1 /\ spawnTimes' = spawnTimes + 1
        /\ livePerIp' = [livePerIp EXCEPT ![Ip[c]] = @ + 1]
        /\ phase' = [phase EXCEPT ![c] = "live"]
    BY <1>13 DEF Reserve, Spawned
  <2>2. /\ live < CONFIG.MAX_CONCURRENT /\ livePerIp[Ip[c]] < CONFIG.MAX_PER_IP
        /\ spawnTimes < CONFIG.HOURLY_BUDGET
    BY <1>3, <1>4, <2>1 DEF Busy, OverHourlyBudget
  <2>3. \A i \in Ips : livePerIp'[i] <= CONFIG.MAX_PER_IP
    BY <1>3, <1>4, <2>1, <2>2 DEF Caps
  <2>4. live' <= CONFIG.MAX_CONCURRENT /\ spawnTimes' <= CONFIG.HOURLY_BUDGET
    BY <1>3, <2>1, <2>2
  <2>5. Caps'
    BY <1>1, <2>3, <2>4 DEF Caps, Ips
  <2>6. \A d \in Conn : phase'[d] # "verifying"
    BY <1>3, <1>4, <2>1
  <2>. QED
    BY <2>5, <2>6
<1>14. ASSUME NEW c \in Conn, Handler(c), ~StdinFails(c)
       PROVE  Caps' /\ \A d \in Conn : phase'[d] # "verifying"
  <2>1. Callback /\ UNCHANGED phase /\ UNCHANGED spawnTimes
    BY <1>14 DEF Handler, HardTimeout, IdleTimeout, Backlog, LateMessage, Output, Message,
                 QemuExit, WsClose, Session
  <2>2. UNCHANGED counters \/ Cleanup(c)
    BY <1>14 DEF Handler, HardTimeout, IdleTimeout, Backlog, LateMessage, Output, Message,
                 QemuExit, WsClose
  <2>3. \/ UNCHANGED counters
        \/ live' = Less(live) /\ livePerIp' = [livePerIp EXCEPT ![Ip[c]] = Less(@)]
    BY <2>2 DEF Cleanup
  <2>4. live' <= live /\ \A i \in Ips : livePerIp'[i] <= livePerIp[i]
    BY <1>3, <2>3 DEF Less
  <2>5. spawnTimes' <= spawnTimes
    BY <1>3, <2>1
  <2>. QED
    BY <1>1, <1>4, <1>5, <2>1, <2>4, <2>5, FewerKeepsCaps
<1>. QED
  BY <1>2, <1>1, <1>6, <1>7, <1>8, <1>9, <1>10, <1>11, <1>12, <1>13, <1>14
     DEF Next, Arrive, Resume, Handler, CapsInv

-----------------------------------------------------------------------------
(* The theorems.                                                           *)

\* Caps without a gate are inductive only with what the await keeps, the counters only
\* with what is known of a cleaned session.
IInv ==
  /\ TypeOK /\ SessionInv /\ InputInv /\ FlagInv
  /\ CountersExact /\ RateInv /\ CapsInv

LEMMA InitIInv == Init => IInv
<1>. SUFFICES ASSUME Init
              PROVE  IInv
  OBVIOUS
<1>1. TypeOK
  BY InitTypeOK
<1>2. SessionInv /\ InputInv /\ FlagInv
  BY <1>1 DEF Init, SessionInv, SessionOK, InputInv, InputOK, FlagInv, FlagOK,
              OnlyCapturesCount, ZeroPerConn, TypeOK, Config
<1>3. CountersExact
  <2>1. Held = {}
    BY DEF Init, Held
  <2>2. \A i : {c \in Held : Ip[c] = i} = {}
    BY <2>1
  <2>. QED
    BY <2>1, <2>2, FS_EmptySet DEF CountersExact, Health, Init, ZeroPerIp
<1>4. /\ CONFIG.RATE_MAX \in Nat \ {0} /\ CONFIG.MAX_CONCURRENT \in Nat \ {0}
      /\ CONFIG.MAX_PER_IP \in Nat \ {0} /\ CONFIG.HOURLY_BUDGET \in Nat \ {0}
  BY DEF Init, Config
<1>5. RateInv
  <2>1. \A i \in Ips : rateHits[i] = {} /\ Passed(i) = {}
    BY DEF Init, NoHits, Passed
  <2>. QED
    BY <1>4, <2>1, FS_EmptySet DEF RateInv, OwnHits
<1>6. CapsInv
  BY <1>4 DEF CapsInv, Caps, Init, ZeroPerIp
<1>. QED
  BY <1>1, <1>2, <1>3, <1>5, <1>6 DEF IInv

LEMMA NextIInv == IInv /\ [Next]_vars => IInv'
<1>. SUFFICES ASSUME IInv, [Next]_vars
              PROVE  IInv'
  OBVIOUS
<1>1. TypeOK'
  BY NextTypeOK DEF IInv
<1>. QED
  BY <1>1, NextSessionInv, NextInputInv, NextFlagInv, NextCountersExact, NextRateInv, NextCapsInv
     DEF IInv

LEMMA Invariance == Spec => []IInv
BY InitIInv, NextIInv, PTL DEF Spec

\* Every variable of the bridge has its type in every reachable state: no counter goes
\* below zero (bridge.mjs:294-295).
THEOREM BridgeTypeOK == Spec => []TypeOK
<1>1. IInv => TypeOK
  BY DEF IInv
<1>. QED
  BY <1>1, Invariance, PTL

\* metrics.live and livePerIp count exactly the sessions whose cleanup is still to come
\* (bridge.mjs:210-211, 291-295).
THEOREM BridgeCountersExact == Spec => []CountersExact
<1>1. IInv => CountersExact
  BY DEF IInv
<1>. QED
  BY <1>1, Invariance, PTL

\* A held session's socket has its 'close' still to come, so that cleanup will run; a
\* session cleaned up has neither an open socket nor a child left running
\* (bridge.mjs:207-208, 291-300).
THEOREM BridgeNoGhostSession == Spec => []NoGhostSession
<1>1. IInv => NoGhostSession
  BY DEF IInv, SessionInv, SessionOK, NoGhostSession, Held
<1>. QED
  BY <1>1, Invariance, PTL

\* No child runs uncounted or without its hard timer, except one in a scope of its own
\* whose bridge has ended (bridge.mjs:216, 244-248, 293).
THEOREM BridgeEveryChildCounted == Spec => []EveryChildCounted
<1>1. IInv => EveryChildCounted
  BY DEF IInv, TypeOK, SessionInv, SessionOK, EveryChildCounted, Held
<1>. QED
  BY <1>1, Invariance, PTL

\* The rate limit always holds, the caps whenever the human gate is off
\* (bridge.mjs:199-207).
THEOREM BridgeLimitsHold == Spec => []LimitsHold
<1>1. ASSUME IInv
      PROVE  LimitsHold
  <2>1. ~CONFIG.TURNSTILE => Caps
    BY <1>1 DEF IInv, CapsInv
  <2>2. ASSUME NEW i \in Ips
        PROVE  Cardinality({c \in rateHits[i] : phase[c] = "live"}) <= CONFIG.RATE_MAX
    <3>. DEFINE Live == {c \in rateHits[i] : phase[c] = "live"}
    <3>1. TypeOK /\ Cardinality(Passed(i)) <= CONFIG.RATE_MAX /\ CONFIG.RATE_MAX \in Nat
      BY <1>1 DEF IInv, RateInv, TypeOK, Config
    <3>2. Live \subseteq Passed(i)
      BY DEF Passed
    <3>3. /\ IsFiniteSet(Passed(i)) /\ Cardinality(Passed(i)) \in Nat
      BY <3>1, PassedFinite
    <3>4. Cardinality(Live) <= Cardinality(Passed(i)) /\ Cardinality(Live) \in Nat
      BY <3>2, <3>3, FS_Subset, FS_CardinalityType
    <3>. QED
      BY <3>1, <3>3, <3>4
  <2>. QED
    BY <2>1, <2>2 DEF LimitsHold, RateHolds
<1>. QED
  BY <1>1, Invariance, PTL

\* Whoever exceeds MAX_IN_BYTES has lost the guest and the socket, and no submission
\* escapes the count (bridge.mjs:272-286).
THEOREM BridgeInputCapped == Spec => []InputCapped
<1>1. IInv => InputCapped
  BY DEF IInv, InputInv, InputOK, InputCapped
<1>. QED
  BY <1>1, Invariance, PTL

\* A session is told "correct" only if its own guest has printed its flag
\* (bridge.mjs:225-242).
THEOREM BridgeOnlyCapturesCount == Spec => []OnlyCapturesCount
<1>1. IInv => OnlyCapturesCount
  BY DEF IInv, FlagInv
<1>. QED
  BY <1>1, Invariance, PTL

\* The idle timer a late message arms behind cleanup changes nothing when it fires
\* (bridge.mjs:249-256, 271).
THEOREM BridgeLateTimerHarmless == Spec => LateTimerHarmless
<1>. DEFINE Harmless ==
       \A c \in cleaned :
         c \in idle \ idle' /\ server' = server =>
           UNCHANGED <<phase, ws, process, hard, cleaned, channel, counters, limits>>
<1>1. ASSUME IInv, [Next]_vars
      PROVE  [Harmless]_vars
  <2>1. SUFFICES ASSUME NEW c \in cleaned, c \in idle, c \notin idle', server' = server
                 PROVE  UNCHANGED <<phase, ws, process, hard, cleaned, channel, counters, limits>>
    OBVIOUS
  <2>2. TypeOK /\ c \in Conn /\ ws[c] # "open" /\ qemu[c] # "running"
    BY <1>1 DEF IInv, SessionInv, SessionOK, TypeOK
  \* Nothing but its own timer takes a cleaned session out of idle.
  <2>3. IdleTimeout(c)
    <3>1. ASSUME NEW next, ProcessExits(next), next # server
          PROVE  FALSE
      BY <2>1, <3>1 DEF ProcessExits
    <3>2. ~Signal /\ \A d \in Conn : ~SocketFails(d) /\ ~SpawnFails(d) /\ ~StdinFails(d)
      BY <3>1 DEF Signal, SocketFails, SpawnFails, StdinFails, Session, Callback
    <3>3. ASSUME NEW d \in Conn, QemuExit(d) \/ WsClose(d)
          PROVE  FALSE
      BY <2>1, <3>3 DEF QemuExit, WsClose, Cleanup, timers
    <3>4. ASSUME NEW d \in Conn, IdleTimeout(d)
          PROVE  d = c
      BY <2>1, <3>4 DEF IdleTimeout
    <3>. QED
      BY <1>1, <2>1, <3>2, <3>3, <3>4
         DEF Next, Arrive, Resume, Handler, vars, timers, TimePasses, Restart, RejectPaused,
             Admit, SocketGone, Reserve, Spawned, Dismiss, HardTimeout, Backlog, LateMessage,
             Output, Message
  <2>4. UNCHANGED ws /\ UNCHANGED qemu
    BY <2>2, <2>3 DEF IdleTimeout, End, Killed, Closing, TypeOK
  <2>. QED
    BY <2>3, <2>4 DEF IdleTimeout, process, timers
<1>. QED
  BY <1>1, Invariance, PTL DEF Spec, LateTimerHarmless
=============================================================================
