-------------------------------- MODULE Bridge -------------------------------
(***************************************************************************)
(* ctf-server/bridge.mjs: one WebSocket, one QEMU and two timers per       *)
(* session, the counters shared by all sessions, the control channel, and  *)
(* the end and restart of the process.  JavaScript runs one callback at a  *)
(* time, so an action is what happens between two awaits or in one event   *)
(* handler; other callbacks run while a handler awaits.                    *)
(***************************************************************************)
EXTENDS Integers, FiniteSets

CONSTANTS
  Conn,     \* bound: the connections ever made; also the names of their flags
  Ip,       \* Ip[c]: the address connection c comes from
  Configs   \* the environments the bridge is started in

\* CONFIG, and USE_SYSTEMD_RUN which is probed at start.  MAX_IN_BYTES is counted in
\* messages; TURNSTILE says whether a secret is set.
Config ==
  [MAX_CONCURRENT : Nat \ {0}, MAX_PER_IP : Nat \ {0}, RATE_MAX : Nat \ {0},
   HOURLY_BUDGET : Nat \ {0}, MAX_IN_BYTES : Nat \ {0}, SUBMIT_MAX : Nat,
   TURNSTILE : BOOLEAN, USE_SYSTEMD_RUN : BOOLEAN]

NoFlag == "none"

\* A guess that is nobody's flag: the honeytoken, or anything else.
Junk == "junk"

ASSUME BridgeAssumption ==
  /\ IsFiniteSet(Conn) /\ DOMAIN Ip = Conn /\ Conn \cap {NoFlag, Junk} = {}
  /\ Configs \subseteq Config

VARIABLES
  CONFIG,
  server,     \* the process: "up", "down" until systemd restarts it, or "stopped"
  phase,      \* phase[c]: where the connection handler stands
  ws,         \* ws[c].readyState
  qemu,       \* qemu[c]: the child process
  flag,       \* flag[c]: the flag minted for c and planted in its guest
  hard, idle, \* the armed timers
  cleaned,    \* cleanup has run
  inBytes, submits,
  live,       \* metrics.live
  livePerIp,
  rateHits,   \* rateHits[ip]: the connections whose hit is in the window
  spawnTimes, \* how many of its timestamps are less than an hour old
  captured,   \* history: sessions whose guest has printed its flag to its client
  solved      \* history: sessions whose client was told "correct"

config   == <<CONFIG, server>>
timers   == <<hard, idle>>
counters == <<live, livePerIp>>
limits   == <<rateHits, spawnTimes>>
channel  == <<inBytes, submits, captured, solved>>
process  == <<qemu, flag>>

vars == <<config, phase, ws, process, timers, cleaned, channel, counters, limits>>

Ips == {Ip[c] : c \in Conn}
-----------------------------------------------------------------------------

ZeroPerConn == [c \in Conn |-> 0]
ZeroPerIp == [i \in Ips |-> 0]
NoHits == [i \in Ips |-> {}]

Init ==
  /\ CONFIG \in Configs /\ server = "up"
  /\ phase = [c \in Conn |-> "new"] /\ ws = [c \in Conn |-> "open"]
  /\ qemu = [c \in Conn |-> "none"] /\ flag = [c \in Conn |-> NoFlag]
  /\ hard = {} /\ idle = {} /\ cleaned = {}
  /\ inBytes = ZeroPerConn /\ submits = ZeroPerConn /\ captured = {} /\ solved = {}
  /\ live = 0 /\ livePerIp = ZeroPerIp
  /\ rateHits = NoHits /\ spawnTimes = 0

\* Without a secret verifyTurnstile is resolved at once: its await is over before
\* the event loop takes another callback.
Idling == CONFIG.TURNSTILE \/ \A c \in Conn : phase[c] # "verifying"

\* The event loop takes a callback.
Callback == server = "up" /\ Idling

Closing(w) == IF w = "open" THEN "closing" ELSE w
Killed(q) == IF q = "running" THEN "killed" ELSE q

-----------------------------------------------------------------------------
(* Admission, up to the await.                                             *)

\* rateLimited: this connection counts as a hit whether it is admitted or not.
RateLimited(c) == Cardinality(rateHits[Ip[c]] \cup {c}) > CONFIG.RATE_MAX

\* overHourlyBudget, which first shifts the timestamps older than an hour out.
OverHourlyBudget == spawnTimes >= CONFIG.HOURLY_BUDGET

\* Fault: one session too many.
BusyLate(c) == live > CONFIG.MAX_CONCURRENT \/ livePerIp[Ip[c]] > CONFIG.MAX_PER_IP

Busy(c) == live >= CONFIG.MAX_CONCURRENT \/ livePerIp[Ip[c]] >= CONFIG.MAX_PER_IP

\* reject(): no listener is attached to this socket, now or later.
Reject(c) ==
  phase' = [phase EXCEPT ![c] = "refused"] /\ ws' = [ws EXCEPT ![c] = Closing(@)]

AwaitVerdict(c) == phase' = [phase EXCEPT ![c] = "verifying"] /\ UNCHANGED ws

\* The operator has touched PAUSE_FILE or set PAUSE.
RejectPaused(c) ==
  /\ Callback /\ phase[c] = "new"
  /\ Reject(c)
  /\ UNCHANGED <<config, process, timers, cleaned, channel, counters, limits>>

Admit(c) ==
  /\ Callback /\ phase[c] = "new"
  /\ IF OverHourlyBudget
     THEN Reject(c) /\ UNCHANGED rateHits
     ELSE /\ rateHits' = [rateHits EXCEPT ![Ip[c]] = @ \cup {c}]
          /\ IF RateLimited(c) \/ Busy(c) THEN Reject(c) ELSE AwaitVerdict(c)
  /\ UNCHANGED <<config, process, timers, cleaned, channel, counters, spawnTimes>>

\* The socket of a connection that is being verified or was refused: a 'close' event
\* finds no listener and is lost.
Unheard(c) == phase[c] \in {"verifying", "refused"} /\ ws[c] # "closed"

SocketGone(c) ==
  /\ Callback /\ Unheard(c)
  /\ ws' \in {[ws EXCEPT ![c] = "closed"], [ws EXCEPT ![c] = Closing(@)]} /\ ws' # ws
  /\ UNCHANGED <<config, phase, process, timers, cleaned, channel, counters, limits>>

-----------------------------------------------------------------------------
(* Behind the await.                                                       *)

\* verifyTurnstile: true without a secret; false without a token, when the service
\* says so and when fetch throws.
VerifyTurnstile == IF CONFIG.TURNSTILE THEN BOOLEAN ELSE {TRUE}

\* Human check failed, or the client vanished meanwhile.
Dismiss(c) ==
  /\ server = "up" /\ phase[c] = "verifying"
  /\ \E ok \in VerifyTurnstile :
       IF ok
       THEN ws[c] # "open" /\ phase' = [phase EXCEPT ![c] = "refused"] /\ UNCHANGED ws
       ELSE Reject(c)
  /\ UNCHANGED <<config, process, timers, cleaned, channel, counters, limits>>

\* Fault: every session gets the same flag.
MintFlagOnce(c) == Junk

\* mintFlag: eight random bytes, so a value nobody else has.
MintFlag(c) == c

\* spawnQemu: the flag goes into this child's fw_cfg and nowhere else.
SpawnQemu(c) ==
  /\ flag' = [flag EXCEPT ![c] = MintFlag(c)]
  /\ qemu' = [qemu EXCEPT ![c] = "running"]

\* The rest of the connection handler, up to its end: a slot, a child, two timers.
Spawned(c) ==
  /\ live' = live + 1 /\ livePerIp' = [livePerIp EXCEPT ![Ip[c]] = @ + 1]
  /\ spawnTimes' = spawnTimes + 1
  /\ SpawnQemu(c)
  /\ hard' = hard \cup {c} /\ idle' = idle \cup {c}
  /\ phase' = [phase EXCEPT ![c] = "live"]
  /\ UNCHANGED <<config, ws, cleaned, channel, rateHits>>

\* Fault: the socket's state is not looked at again.
ReserveBlindly(c) == server = "up" /\ phase[c] = "verifying" /\ Spawned(c)

\* The slot is taken without a second look at the caps.
Reserve(c) == server = "up" /\ phase[c] = "verifying" /\ ws[c] = "open" /\ Spawned(c)

-----------------------------------------------------------------------------
(* The session's handlers.                                                 *)

Session(c) == Callback /\ phase[c] = "live"

\* kill() and ws.close(): a limit was hit.
End(c) == qemu' = [qemu EXCEPT ![c] = Killed(@)] /\ ws' = [ws EXCEPT ![c] = Closing(@)]

HardTimeout(c) ==
  /\ Session(c) /\ c \in hard
  /\ hard' = hard \ {c} /\ UNCHANGED idle
  /\ End(c)
  /\ UNCHANGED <<config, phase, flag, cleaned, channel, counters, limits>>

IdleTimeout(c) ==
  /\ Session(c) /\ c \in idle
  /\ idle' = idle \ {c} /\ UNCHANGED hard
  /\ End(c)
  /\ UNCHANGED <<config, phase, flag, cleaned, channel, counters, limits>>

\* Serial output reaches the client; the guest may print anything it holds.
Output(c) ==
  /\ Session(c) /\ ws[c] = "open" /\ qemu[c] # "exited"
  /\ captured' = captured \cup {c}
  /\ UNCHANGED <<config, phase, ws, process, timers, cleaned, inBytes, submits, solved,
                 counters, limits>>

\* The client reads too slowly; a closing socket is not written to.
Backlog(c) ==
  /\ Session(c) /\ ws[c] = "open" /\ qemu[c] # "exited"
  /\ End(c)
  /\ UNCHANGED <<config, phase, flag, timers, cleaned, channel, counters, limits>>

\* What a client may submit: a flag it or somebody else has captured, or junk.
Known == {flag[d] : d \in captured} \cup {Junk}

\* handleControl: beyond SUBMIT_MAX the frame is dropped unread; a frame that is no
\* submission counts as one.  The answer is sent only on an open socket.
HandleControl(c) ==
  IF submits[c] >= CONFIG.SUBMIT_MAX
  THEN UNCHANGED <<submits, solved>>
  ELSE /\ submits' = [submits EXCEPT ![c] = @ + 1]
       /\ \E guess \in Known :
            solved' = IF guess = flag[c] /\ ws[c] = "open" THEN solved \cup {c} ELSE solved

\* The count of a session's input; it is kept at one above the cap, where it is only
\* ever compared with the cap.
Counted(n) == IF n > CONFIG.MAX_IN_BYTES THEN n ELSE n + 1

\* Fault: a control frame is handled before it is counted.
MessageControlFirst(c) ==
  /\ Session(c) /\ ws[c] # "closed" /\ c \notin cleaned
  /\ idle' = idle \cup {c} /\ UNCHANGED hard
  /\ \/ HandleControl(c) /\ UNCHANGED <<ws, qemu, inBytes>>
     \/ /\ inBytes' = [inBytes EXCEPT ![c] = Counted(@)] /\ UNCHANGED <<submits, solved>>
        /\ IF inBytes'[c] > CONFIG.MAX_IN_BYTES THEN End(c) ELSE UNCHANGED <<ws, qemu>>
  /\ UNCHANGED <<config, phase, flag, cleaned, captured, counters, limits>>

\* bumpIdle comes first, whatever state the session is in, then the byte count; a
\* control frame is handled here, other input goes to the guest's stdin.
Message(c) ==
  /\ Session(c) /\ ws[c] # "closed" /\ c \notin cleaned
  /\ idle' = idle \cup {c} /\ UNCHANGED hard
  /\ inBytes' = [inBytes EXCEPT ![c] = Counted(@)]
  /\ IF inBytes'[c] > CONFIG.MAX_IN_BYTES
     THEN End(c) /\ UNCHANGED <<submits, solved>>
     ELSE /\ HandleControl(c) \/ UNCHANGED <<submits, solved>>
          /\ UNCHANGED <<ws, qemu>>
  /\ UNCHANGED <<config, phase, flag, cleaned, captured, counters, limits>>

\* Behind cleanup the child is killed and the socket closing, so that only the first
\* line of the handler has an effect, and a write to a stdin nobody reads (StdinFails).
LateMessage(c) ==
  /\ Session(c) /\ ws[c] # "closed" /\ c \in cleaned
  /\ idle' = idle \cup {c}
  /\ UNCHANGED <<config, phase, ws, process, hard, cleaned, channel, counters, limits>>

Less(n) == IF n > 0 THEN n - 1 ELSE 0

\* Faults: no `cleaned` guard; no floor under the counts either; the child is left alone.
CleanupAgain(c) ==
  /\ cleaned' = cleaned \cup {c} /\ hard' = hard \ {c} /\ idle' = idle \ {c}
  /\ inBytes' = [inBytes EXCEPT ![c] = 0] /\ submits' = [submits EXCEPT ![c] = 0]
  /\ live' = Less(live) /\ livePerIp' = [livePerIp EXCEPT ![Ip[c]] = Less(@)]
CleanupUnfloored(c) ==
  /\ cleaned' = cleaned \cup {c} /\ hard' = hard \ {c} /\ idle' = idle \ {c}
  /\ inBytes' = [inBytes EXCEPT ![c] = 0] /\ submits' = [submits EXCEPT ![c] = 0]
  /\ live' = live - 1 /\ livePerIp' = [livePerIp EXCEPT ![Ip[c]] = @ - 1]
CleanupNoKill(q) == q

\* The child as cleanup leaves it.
CleanupKill(q) == Killed(q)

\* cleanup behind its guard, but for the child.  The session's input counters are dead
\* from here on (LateMessage) and set to 0 to keep the states few.
Cleanup(c) ==
  IF c \in cleaned THEN UNCHANGED <<cleaned, timers, counters, inBytes, submits>>
  ELSE /\ inBytes' = [inBytes EXCEPT ![c] = 0] /\ submits' = [submits EXCEPT ![c] = 0]
       /\ cleaned' = cleaned \cup {c} /\ hard' = hard \ {c} /\ idle' = idle \ {c}
       /\ live' = Less(live) /\ livePerIp' = [livePerIp EXCEPT ![Ip[c]] = Less(@)]

\* The child exits, killed or because the guest halted.
QemuExit(c) ==
  /\ Session(c) /\ qemu[c] \in {"running", "killed"}
  /\ qemu' = [qemu EXCEPT ![c] = "exited"] /\ ws' = [ws EXCEPT ![c] = Closing(@)]
  /\ Cleanup(c)
  /\ UNCHANGED <<config, phase, flag, captured, solved, limits>>

\* ws 'close' ends the handshake or the connection; ws 'error' leaves it closing.
WsClose(c) ==
  /\ Session(c) /\ ws[c] # "closed"
  /\ ws' \in {[ws EXCEPT ![c] = "closed"], [ws EXCEPT ![c] = "closing"]}
  /\ qemu' = IF c \in cleaned THEN qemu ELSE [qemu EXCEPT ![c] = CleanupKill(@)]
  /\ Cleanup(c)
  /\ UNCHANGED <<config, phase, flag, captured, solved, limits>>

-----------------------------------------------------------------------------
(* The process.                                                            *)

\* A hit leaves its window, a spawn its hour.
TimePasses ==
  /\ Callback
  /\ \/ \E c \in Conn :
          /\ c \in rateHits[Ip[c]]
          /\ rateHits' = [rateHits EXCEPT ![Ip[c]] = @ \ {c}] /\ UNCHANGED spawnTimes
     \/ spawnTimes > 0 /\ spawnTimes' = spawnTimes - 1 /\ UNCHANGED rateHits
  /\ UNCHANGED <<CONFIG, server, phase, ws, process, timers, cleaned, channel, counters>>

\* The process is gone, its sockets and timers with it, and with them every child that
\* is in the service's control group; a child in a scope of its own lives on.
ProcessExits(next) ==
  /\ server' = next
  /\ phase' = [c \in Conn |-> IF phase[c] = "new" THEN "new" ELSE "lost"]
  /\ ws' = [c \in Conn |-> IF phase[c] = "new" THEN ws[c] ELSE "closed"]
  /\ qemu' = [c \in Conn |->
                IF qemu[c] = "none" \/ (qemu[c] = "running" /\ CONFIG.USE_SYSTEMD_RUN)
                THEN qemu[c] ELSE "exited"]
  /\ hard' = {} /\ idle' = {} /\ cleaned' = {}
  /\ inBytes' = ZeroPerConn /\ submits' = ZeroPerConn
  /\ live' = 0 /\ livePerIp' = ZeroPerIp
  /\ rateHits' = NoHits /\ spawnTimes' = 0
  /\ UNCHANGED <<CONFIG, flag, captured, solved>>

\* spawn reports a failure as an 'error' event, which nobody listens to.
SpawnFails(c) ==
  server = "up" /\ phase[c] = "verifying" /\ ws[c] = "open" /\ ProcessExits("down")

\* Nor does anybody listen to the 'error' of a socket without a session.
SocketFails(c) == Callback /\ Unheard(c) /\ ProcessExits("down")

\* Nor to that of a child's stdin, when input was written to a child that is gone, by
\* SIGKILL or of its own accord, and whose 'exit' is still to be reported.
StdinFails(c) ==
  /\ Session(c) /\ qemu[c] \in {"running", "killed"} /\ (inBytes[c] > 0 \/ c \in cleaned)
  /\ ProcessExits("down")

\* SIGTERM, SIGINT: server.close() and exit with status 0, at once.
Signal == Callback /\ ProcessExits("stopped")

\* systemd, on failure.  Without the kernel file the new process exits as well.
Restart ==
  /\ server = "down" /\ server' = "up"
  /\ UNCHANGED <<CONFIG, phase, ws, process, timers, cleaned, channel, counters, limits>>

Arrive(c) == RejectPaused(c) \/ Admit(c) \/ SocketGone(c) \/ SocketFails(c)
Resume(c) == Reserve(c) \/ Dismiss(c) \/ SpawnFails(c)
Handler(c) ==
  \/ HardTimeout(c) \/ IdleTimeout(c) \/ Output(c) \/ Backlog(c) \/ Message(c)
  \/ LateMessage(c) \/ QemuExit(c) \/ WsClose(c) \/ StdinFails(c)

Next ==
  \/ TimePasses \/ Signal \/ Restart
  \/ \E c \in Conn : Arrive(c) \/ Resume(c) \/ Handler(c)

\* Timers fire, fetch settles, a killed process exits and a closing socket closes.
Spec ==
  /\ Init /\ [][Next]_vars
  /\ \A c \in Conn :
       /\ WF_vars(Resume(c)) /\ WF_vars(HardTimeout(c))
       /\ WF_vars(qemu[c] = "killed" /\ QemuExit(c))
       /\ WF_vars(ws[c] = "closing" /\ WsClose(c) /\ ws'[c] = "closed")

-----------------------------------------------------------------------------

Held == {c \in Conn : phase[c] = "live" /\ c \notin cleaned}

\* What /health answers with the token.
Health ==
  [live |-> live, max |-> CONFIG.MAX_CONCURRENT, hourly_spawns |-> spawnTimes,
   hourly_budget |-> CONFIG.HOURLY_BUDGET]

TypeOK ==
  /\ CONFIG \in Configs /\ server \in {"up", "down", "stopped"}
  /\ phase \in [Conn -> {"new", "verifying", "refused", "live", "lost"}]
  /\ ws \in [Conn -> {"open", "closing", "closed"}]
  /\ qemu \in [Conn -> {"none", "running", "killed", "exited"}]
  /\ flag \in [Conn -> Conn \cup {NoFlag, Junk}]
  /\ hard \subseteq Conn /\ idle \subseteq Conn /\ cleaned \subseteq Conn
  /\ inBytes \in [Conn -> Nat] /\ submits \in [Conn -> Nat]
  /\ live \in Nat /\ livePerIp \in [Ips -> Nat]
  /\ rateHits \in [Ips -> SUBSET Conn]
  /\ spawnTimes \in Nat
  /\ captured \subseteq Conn /\ solved \subseteq Conn

\* The counters the caps are tested against, and /health reports, neither leak nor
\* free a slot twice, however exit, close, error, timers and restarts race.
CountersExact ==
  /\ Health.live = Cardinality(Held)
  /\ \A i \in Ips : livePerIp[i] = Cardinality({c \in Held : Ip[c] = i})

\* A process that nobody has killed is counted, and bounded by its hard timer until
\* that fires; only the end of the bridge leaves one behind, in a scope of its own.
EveryChildCounted ==
  \A c \in Conn :
    qemu[c] = "running" =>
      \/ c \in Held /\ c \in hard
      \/ phase[c] = "lost" /\ CONFIG.USE_SYSTEMD_RUN

\* A slot is held only for a socket whose 'close' is still to come, and a slot freed
\* leaves neither an open socket nor a child that nobody has killed, whichever of
\* exit, close, error and the timers came first.
NoGhostSession ==
  \A c \in Conn :
    /\ c \in Held => ws[c] # "closed"
    /\ c \in cleaned => ws[c] # "open" /\ qemu[c] # "running"

\* Sessions of one address in one window, concurrent admissions included.
RateHolds ==
  \A i \in Ips :
    Cardinality({c \in rateHits[i] : phase[c] = "live"}) <= CONFIG.RATE_MAX

Caps ==
  /\ live <= CONFIG.MAX_CONCURRENT /\ \A i \in Ips : livePerIp[i] <= CONFIG.MAX_PER_IP
  /\ spawnTimes <= CONFIG.HOURLY_BUDGET

\* The rate limit holds however many connections wait for their verdict at once, and the
\* caps hold if the human gate is off: nothing runs between the test and the reservation.
LimitsHold == RateHolds /\ (~CONFIG.TURNSTILE => Caps)

\* "MAX_CONCURRENT: total live QEMUs", "MAX_PER_IP: live QEMUs per client IP"
\* (bridge.mjs:58-59).
CapsAlways == Caps

\* Control frames count toward MAX_IN_BYTES like any other input, and whoever exceeds
\* it has lost the guest and the socket.
InputCapped ==
  \A c \in Conn :
    /\ submits[c] <= inBytes[c]
    /\ inBytes[c] > CONFIG.MAX_IN_BYTES => qemu[c] # "running" /\ ws[c] # "open"

\* "Correct" is only ever said to a client whose own guest gave its flag away, even if
\* clients submit the flags of other sessions.
OnlyCapturesCount == solved \subseteq captured

\* A message on a closing socket arms the idle timer behind cleanup; when that timer
\* fires it finds nothing left to do.
LateTimerHarmless ==
  [][\A c \in cleaned :
       c \in idle \ idle' /\ server' = server =>
         UNCHANGED <<phase, ws, process, hard, cleaned, channel, counters, limits>>]_vars

\* Every session ends: slot freed, socket closed, process gone.
SessionsEnd ==
  \A c \in Conn :
    phase[c] = "live" ~>
      /\ c \in cleaned \/ phase[c] = "lost"
      /\ ws[c] = "closed"
      /\ qemu[c] = "exited" \/ (phase[c] = "lost" /\ CONFIG.USE_SYSTEMD_RUN)
=============================================================================
