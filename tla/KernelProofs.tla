---------------------------- MODULE KernelProofs ----------------------------
(***************************************************************************)
(* TLAPS proofs about the one CPU of src/src.  For every number of tasks   *)
(* and of schedulers and for every body (Kernel): what preemption can rely *)
(* on, that each task keeps its interrupt flag, and that the kernel        *)
(* implements Scheduler.  For the bodies of kernel_main (KernelBoot): that *)
(* the self-tests pass.  With the keyboard and the shell (KernelInput):    *)
(* that the composition is the kernel and the ring, that no lock wedges    *)
(* the CPU, and how long it may sleep over a byte.                         *)
(***************************************************************************)
EXTENDS KernelInput, SequenceTheorems, TLAPS

-----------------------------------------------------------------------------
(* The inductive invariant.                                                *)

YieldSteps == {"yield.lock", "yield.pick", "yield.switch", "restore"}
GuardedSteps ==
  YieldSteps \cup {"init.lock", "init.install", "spawn.lock", "spawn.push", "exit.lock",
                   "exit.mark", "exit.yield", "snapshot.lock", "snapshot.copy"}
Places == GuardedSteps \cup {"acquire", "release", "dead", "irq.eoi", "iret"}

FrameType == [at : Places, lock : Locks, was : BOOLEAN]
Context == [ip : Nat \ {0}, frames : Seq(FrameType)]

\* The ready queue names tasks of the table, and idle is always running.
TypeOK ==
  /\ state \in [Ids -> {"absent", "ready", "running", "finished"}]
  /\ state[Idle] = "running"
  /\ count \in 1 .. MaxTasks + 1
  /\ ready \in Seq(1 .. count - 1)
  /\ current \in 0 .. count - 1
  /\ inits \in 1 .. MaxInits
  /\ cpu \in Ids
  /\ intr \in BOOLEAN /\ irr \in BOOLEAN /\ isr \in BOOLEAN
  /\ held \in [Locks -> BOOLEAN]
  /\ live \in Context /\ parked \in [Ids -> Context]

\* Printing or allocating: the frame of a spinlock that leaves IF alone.
PlainFrame(f) == f.at \in {"acquire", "release"} /\ f.lock \in {"HEAP", "SERIAL"}

OverPlain == {"restore", "init.lock", "init.install", "spawn.push", "exit.yield"}

\* From its k-th frame on, s holds at most one plain frame.
PlainFrom(s, k) == Len(s) = k - 1 \/ (Len(s) = k /\ PlainFrame(s[k]))

\* A guarded routine that saved the IF its body asked for.
InGuarded(s, asked) ==
  \/ Len(s) = 1 /\ s[1].at \in GuardedSteps /\ (s[1].was <=> asked)
  \/ Len(s) = 2 /\ PlainFrame(s[1]) /\ s[2].at \in OverPlain /\ (s[2].was <=> asked)

\* A finished task on its last way to the scheduler.
Dying(s) ==
  \/ Len(s) = 1 /\ s[1].at = "dead"
  \/ Len(s) = 2 /\ s[1].at \in YieldSteps /\ ~s[1].was /\ s[2].at = "dead"

\* A tick that interrupted the body or one of its plain calls.
InTick(s) ==
  \/ Len(s) >= 1 /\ s[1].at \in {"irq.eoi", "iret"} /\ s[1].was /\ PlainFrom(s, 2)
  \/ /\ Len(s) >= 2 /\ s[1].at \in YieldSteps /\ ~s[1].was
     /\ s[2].at = "iret" /\ s[2].was /\ PlainFrom(s, 3)

\* The call frames a context may have when its body asked for IF = asked and the
\* CPU runs it with IF = on.
StackOK(s, asked, on) ==
  \/ PlainFrom(s, 1) /\ (on <=> asked)
  \/ ~on /\ InGuarded(s, asked)
  \/ ~on /\ Dying(s)
  \/ ~on /\ asked /\ InTick(s)

Asked(t, c) == AskedFor(BodyOf(t), c.ip)

\* The frames that stand inside SCHED's critical section.
Holders == {"yield.pick", "init.install", "spawn.push", "exit.mark", "snapshot.copy"}
Holding(s) == \E i \in 1 .. Len(s) : s[i].at \in Holders

LiveInv == StackOK(live.frames, Asked(cpu, live), intr)

\* A parked context was never run, or stopped right behind its switch.
ParkedOK(t) ==
  LET c == parked[t] IN
  /\ StackOK(c.frames, Asked(t, c), FALSE)
  /\ c.frames = <<>> \/ c.frames[1].at = "restore"
ParkedInv == \A t \in Ids \ {cpu} : ParkedOK(t)

\* current runs ahead of the stack only between the pick and the switch.
SwitchInv == cpu # current <=> At("yield.switch")
TickInv == isr <=> At("irq.eoi")
HeldInv == held["SCHED"] <=> Holding(live.frames)

\* Only the idle task installs schedulers, only the others exit.
CallerInv ==
  \A i \in 1 .. Len(live.frames) :
    /\ live.frames[i].at \in {"init.lock", "init.install"} => cpu = Idle
    /\ live.frames[i].at \in {"exit.lock", "exit.mark"} => cpu # Idle

KernelInv ==
  /\ TypeOK /\ LiveInv /\ ParkedInv /\ SwitchInv /\ TickInv /\ HeldInv /\ CallerInv

-----------------------------------------------------------------------------
(* Contexts: what moving, calling and returning do to the call frames.     *)

LEMMA FramesOfContext ==
  ASSUME NEW c \in Context
  PROVE  /\ c.frames \in Seq(FrameType) /\ Len(c.frames) \in Nat /\ c.ip \in Nat \ {0}
         /\ \A i \in 1 .. Len(c.frames) :
              /\ c.frames[i] \in FrameType
              /\ c.frames[i].at \in Places /\ c.frames[i].lock \in Locks
              /\ c.frames[i].was \in BOOLEAN
         /\ c.frames = <<>> <=> Len(c.frames) = 0
<1>1. c.frames \in Seq(FrameType) /\ c.ip \in Nat \ {0}
  BY DEF Context
<1>2. Len(c.frames) \in Nat /\ \A i \in 1 .. Len(c.frames) : c.frames[i] \in FrameType
  BY <1>1, LenProperties, ElementOfSeq
<1>3. c.frames = <<>> <=> Len(c.frames) = 0
  BY <1>1, EmptySeq
<1>. QED
  BY <1>1, <1>2, <1>3 DEF FrameType

LEMMA GotoFrames ==
  ASSUME NEW c \in Context, c.frames # <<>>, NEW l \in Places
  PROVE  LET d == [c EXCEPT !.frames[1].at = l] IN
         /\ d \in Context /\ d.ip = c.ip /\ Len(d.frames) = Len(c.frames)
         /\ d.frames[1].at = l /\ d.frames[1].lock = c.frames[1].lock
         /\ d.frames[1].was = c.frames[1].was
         /\ \A i \in 2 .. Len(c.frames) : d.frames[i] = c.frames[i]
<1>. DEFINE s == c.frames
            g == [s[1] EXCEPT !.at = l]
            t == [s EXCEPT ![1] = g]
<1>1. s \in Seq(FrameType) /\ Len(s) \in Nat /\ Len(s) >= 1 /\ s[1] \in FrameType
  BY FramesOfContext
<1>2. g \in FrameType /\ g.at = l /\ g.lock = s[1].lock /\ g.was = s[1].was
  BY <1>1 DEF FrameType
<1>3. /\ t \in Seq(FrameType) /\ Len(t) = Len(s) /\ t[1] = g
      /\ \A i \in 2 .. Len(s) : t[i] = s[i]
  BY <1>1, <1>2, ExceptSeq
<1>4. [c EXCEPT !.frames[1].at = l] = [c EXCEPT !.frames = t]
  BY DEF Context
<1>5. [c EXCEPT !.frames = t] \in Context /\ [c EXCEPT !.frames = t].frames = t
      /\ [c EXCEPT !.frames = t].ip = c.ip
  BY <1>3 DEF Context
<1>. QED
  BY <1>2, <1>3, <1>4, <1>5

LEMMA TwoThenRest ==
  ASSUME NEW S, NEW f \in S, NEW g \in S, NEW q \in Seq(S)
  PROVE  LET t == <<f, g>> \o q IN
         /\ t \in Seq(S) /\ Len(t) = Len(q) + 2 /\ t[1] = f /\ t[2] = g
         /\ \A i \in 3 .. Len(q) + 2 : t[i] = q[i - 2]
<1>. DEFINE p == <<f, g>>
<1>1. p \in Seq(S) /\ Len(p) = 2 /\ p[1] = f /\ p[2] = g
  OBVIOUS
<1>2. Len(q) \in Nat
  BY LenProperties
<1>. HIDE DEF p
<1>3. /\ p \o q \in Seq(S) /\ Len(p \o q) = Len(p) + Len(q)
      /\ \A i \in 1 .. Len(p) + Len(q) :
           (p \o q)[i] = IF i <= Len(p) THEN p[i] ELSE q[i - Len(p)]
  BY <1>1, ConcatProperties
<1>4. \A i \in 3 .. Len(q) + 2 : (p \o q)[i] = q[i - 2]
  BY <1>1, <1>2, <1>3
<1>5. (p \o q)[1] = f /\ (p \o q)[2] = g
  BY <1>1, <1>2, <1>3
<1>. QED
  BY <1>1, <1>2, <1>3, <1>4, <1>5 DEF p

\* c after its top frame called f, to go on at l.
CallResult(c, l, f) ==
  [c EXCEPT !.frames = <<f, [Head(c.frames) EXCEPT !.at = l]>> \o Tail(@)]

LEMMA CallFrames ==
  ASSUME NEW c \in Context, c.frames # <<>>, NEW l \in Places, NEW f \in FrameType
  PROVE  LET d == CallResult(c, l, f) IN
         /\ d \in Context /\ d.ip = c.ip /\ Len(d.frames) = Len(c.frames) + 1
         /\ d.frames[1] = f
         /\ d.frames[2].at = l /\ d.frames[2].lock = c.frames[1].lock
         /\ d.frames[2].was = c.frames[1].was
         /\ \A i \in 3 .. Len(c.frames) + 1 : d.frames[i] = c.frames[i - 1]
<1>. DEFINE s == c.frames
            g == [s[1] EXCEPT !.at = l]
            t == <<f, g>> \o Tail(s)
<1>1. s \in Seq(FrameType) /\ Len(s) \in Nat /\ Len(s) >= 1 /\ s[1] \in FrameType
  BY FramesOfContext
<1>2. g \in FrameType /\ g.at = l /\ g.lock = s[1].lock /\ g.was = s[1].was
  BY <1>1 DEF FrameType
<1>3. /\ Tail(s) \in Seq(FrameType) /\ Len(Tail(s)) = Len(s) - 1 /\ Head(s) = s[1]
      /\ \A i \in 1 .. Len(s) - 1 : Tail(s)[i] = s[i + 1]
  BY <1>1, HeadTailProperties
<1>4. /\ t \in Seq(FrameType) /\ Len(t) = Len(s) + 1 /\ t[1] = f /\ t[2] = g
      /\ \A i \in 3 .. Len(s) + 1 : t[i] = s[i - 1]
  <2>. HIDE DEF g
  <2>1. /\ t \in Seq(FrameType) /\ Len(t) = Len(Tail(s)) + 2 /\ t[1] = f /\ t[2] = g
        /\ \A i \in 3 .. Len(Tail(s)) + 2 : t[i] = Tail(s)[i - 2]
    BY <1>2, <1>3, TwoThenRest
  <2>. QED
    BY <1>1, <1>3, <2>1
<1>5. CallResult(c, l, f) = [c EXCEPT !.frames = t]
  BY <1>3 DEF Context, CallResult
<1>. HIDE DEF t, g
<1>6. [c EXCEPT !.frames = t] \in Context /\ [c EXCEPT !.frames = t].frames = t
      /\ [c EXCEPT !.frames = t].ip = c.ip
  BY <1>4 DEF Context
<1>. QED
  BY <1>2, <1>4, <1>5, <1>6

LEMMA ReturnFrames ==
  ASSUME NEW c \in Context, c.frames # <<>>
  PROVE  LET d == [c EXCEPT !.frames = Tail(@)] IN
         /\ d \in Context /\ d.ip = c.ip /\ Len(d.frames) = Len(c.frames) - 1
         /\ \A i \in 1 .. Len(c.frames) - 1 : d.frames[i] = c.frames[i + 1]
<1>. DEFINE s == c.frames
<1>1. s \in Seq(FrameType) /\ Len(s) \in Nat /\ Len(s) >= 1
  BY FramesOfContext
<1>2. /\ Tail(s) \in Seq(FrameType) /\ Len(Tail(s)) = Len(s) - 1
      /\ \A i \in 1 .. Len(s) - 1 : Tail(s)[i] = s[i + 1]
  BY <1>1, HeadTailProperties
<1>3. [c EXCEPT !.frames = Tail(s)] \in Context
      /\ [c EXCEPT !.frames = Tail(s)].frames = Tail(s)
      /\ [c EXCEPT !.frames = Tail(s)].ip = c.ip
  BY <1>2 DEF Context
<1>. QED
  BY <1>2, <1>3

\* c interrupted by f.
PushResult(c, f) == [c EXCEPT !.frames = <<f>> \o c.frames]

LEMMA PushFrames ==
  ASSUME NEW c \in Context, NEW f \in FrameType
  PROVE  LET d == PushResult(c, f) IN
         /\ d \in Context /\ d.ip = c.ip /\ Len(d.frames) = Len(c.frames) + 1
         /\ d.frames[1] = f
         /\ \A i \in 2 .. Len(c.frames) + 1 : d.frames[i] = c.frames[i - 1]
<1>. DEFINE s == c.frames
            t == <<f>> \o s
<1>1. s \in Seq(FrameType) /\ Len(s) \in Nat
  BY FramesOfContext
<1>2. <<f>> \in Seq(FrameType) /\ Len(<<f>>) = 1 /\ <<f>>[1] = f
  OBVIOUS
<1>3. /\ t \in Seq(FrameType) /\ Len(t) = Len(s) + 1
      /\ \A i \in 1 .. Len(s) + 1 : t[i] = IF i <= 1 THEN <<f>>[i] ELSE s[i - 1]
  BY <1>1, <1>2, ConcatProperties
<1>4. [c EXCEPT !.frames = t] \in Context /\ [c EXCEPT !.frames = t].frames = t
      /\ [c EXCEPT !.frames = t].ip = c.ip
  BY <1>3 DEF Context
<1>. QED
  BY <1>1, <1>2, <1>3, <1>4 DEF PushResult

-----------------------------------------------------------------------------
(* The flag a body asked for.                                              *)

LEMMA AskedAtStart ==
  ASSUME NEW body
  PROVE  ~AskedFor(body, 1)
BY DEF AskedFor

LEMMA AskedBoolean ==
  ASSUME NEW body, NEW ip
  PROVE  AskedFor(body, ip) \in BOOLEAN
BY DEF AskedFor

\* One call further: sti and cli decide, every other call leaves it as it was.
LEMMA AskedNext ==
  ASSUME NEW body, NEW ip \in Nat \ {0}
  PROVE  /\ body[ip] = "sti" => AskedFor(body, ip + 1)
         /\ body[ip] = "cli" => ~AskedFor(body, ip + 1)
         /\ body[ip] \notin {"sti", "cli"} => (AskedFor(body, ip + 1) <=> AskedFor(body, ip))
<1>. DEFINE S(n) == {i \in 1 .. n - 1 : body[i] \in {"sti", "cli"}}
            Last(n) == CHOOSE i \in S(n) : \A j \in S(n) : j <= i
<1>1. \A n : AskedFor(body, n) <=> S(n) # {} /\ body[Last(n)] = "sti"
  BY DEF AskedFor
<1>2. CASE body[ip] \in {"sti", "cli"}
  <2>1. ip \in S(ip + 1) /\ \A j \in S(ip + 1) : j <= ip /\ j \in Int
    BY <1>2
  <2>2. Last(ip + 1) = ip
    <3>1. Last(ip + 1) \in S(ip + 1) /\ \A j \in S(ip + 1) : j <= Last(ip + 1)
      BY <2>1
    <3>. QED
      BY <2>1, <3>1
  <2>. QED
    BY <1>1, <1>2, <2>1, <2>2
<1>3. CASE body[ip] \notin {"sti", "cli"}
  <2>1. S(ip + 1) = S(ip)
    BY <1>3
  <2>2. Last(ip + 1) = Last(ip)
    BY <2>1
  <2>. QED
    BY <1>1, <1>3, <2>1, <2>2
<1>. QED
  BY <1>2, <1>3

-----------------------------------------------------------------------------
(* Stacks: what each kind of step keeps of their shape.                    *)

\* t is s with another place in its top frame.
Moved(s, t) ==
  /\ Len(t) = Len(s) /\ Len(s) >= 1
  /\ t[1].lock = s[1].lock /\ t[1].was = s[1].was
  /\ \A i \in 2 .. Len(s) : t[i] = s[i]

\* t is s with f called from another place of its top frame.
Called(s, t) ==
  /\ Len(t) = Len(s) + 1 /\ Len(s) >= 1
  /\ t[2].lock = s[1].lock /\ t[2].was = s[1].was
  /\ \A i \in 3 .. Len(s) + 1 : t[i] = s[i - 1]

\* t is s without its top frame.
Left(s, t) ==
  /\ Len(s) >= 1 /\ Len(t) = Len(s) - 1
  /\ \A i \in 1 .. Len(s) - 1 : t[i] = s[i + 1]

\* Where a routine may go on to without touching IF.
Onward(from, to) ==
  \/ from = "acquire" /\ to = "release"
  \/ from \in GuardedSteps /\ to \in YieldSteps
  \/ from \in GuardedSteps \ YieldSteps /\ to \in GuardedSteps

LEMMA MovedStack ==
  ASSUME NEW s, NEW t, NEW asked, NEW on, Len(s) \in Nat, StackOK(s, asked, on),
         Moved(s, t), Onward(s[1].at, t[1].at)
  PROVE  StackOK(t, asked, on)
<1>1. CASE s[1].at = "acquire" /\ t[1].at = "release"
  <2>1. PlainFrame(s[1]) => PlainFrame(t[1])
    BY <1>1 DEF Moved, PlainFrame
  <2>2. Len(s) = 1 \/ InGuarded(s, asked)
    BY <1>1 DEF StackOK, PlainFrom, Dying, InTick, YieldSteps, Moved
  <2>. QED
    BY <1>1, <2>1, <2>2
       DEF StackOK, PlainFrom, InGuarded, Dying, InTick, YieldSteps, GuardedSteps, Moved
<1>2. CASE s[1].at \in GuardedSteps
  <2>1. ~PlainFrame(s[1])
    BY <1>2 DEF PlainFrame, GuardedSteps, YieldSteps
  <2>2. t[1].at \in GuardedSteps
    BY <1>2 DEF Onward, GuardedSteps, YieldSteps
  <2>3. CASE Len(s) = 1
    BY <1>2, <2>1, <2>2, <2>3
       DEF StackOK, PlainFrom, InGuarded, Dying, InTick, Moved, GuardedSteps, YieldSteps
  <2>4. CASE Len(s) # 1
    <3>1. s[1].at \in YieldSteps /\ Len(s) >= 2 /\ t[2] = s[2]
      BY <1>2, <2>1, <2>4
         DEF StackOK, PlainFrom, InGuarded, Dying, InTick, Moved, GuardedSteps, YieldSteps
    <3>2. t[1].at \in YieldSteps
      BY <1>2, <3>1 DEF Onward, YieldSteps
    <3>3. CASE ~on /\ Dying(s)
      BY <2>4, <3>1, <3>2, <3>3 DEF Dying, StackOK, Moved
    <3>4. CASE ~on /\ asked /\ InTick(s)
      <4>1. s[2].at = "iret" /\ s[2].was /\ PlainFrom(s, 3) /\ ~s[1].was
        BY <3>1, <3>4 DEF InTick, YieldSteps
      <4>2. PlainFrom(t, 3)
        BY <4>1 DEF PlainFrom, Moved
      <4>. QED
        BY <3>1, <3>2, <3>4, <4>1, <4>2 DEF InTick, StackOK, Moved
    <3>. QED
      BY <2>1, <2>4, <3>1, <3>3, <3>4 DEF StackOK, PlainFrom, InGuarded
  <2>. QED
    BY <2>3, <2>4
<1>. QED
  BY <1>1, <1>2 DEF Onward

\* A guarded routine, or the handler, calls: to allocate, to print, or to yield.
LEMMA CalledStack ==
  ASSUME NEW s, NEW t, NEW asked, NEW on, Len(s) \in Nat, StackOK(s, asked, on),
         Called(s, t),
         \/ s[1].at \in {"init.lock", "spawn.lock", "exit.mark"}
              /\ PlainFrame(t[1]) /\ t[2].at \in OverPlain
         \/ s[1].at = "exit.yield" /\ t[1].at \in YieldSteps /\ ~t[1].was /\ t[2].at = "dead"
         \/ s[1].at = "irq.eoi" /\ t[1].at \in YieldSteps /\ ~t[1].was /\ t[2].at = "iret"
  PROVE  StackOK(t, asked, on)
<1>1. CASE s[1].at # "irq.eoi"
  <2>1. ~on /\ Len(s) = 1 /\ (s[1].was <=> asked)
    BY <1>1 DEF StackOK, PlainFrom, PlainFrame, InGuarded, Dying, InTick, YieldSteps, Called
  <2>. QED
    BY <1>1, <2>1 DEF StackOK, InGuarded, Dying, Called
<1>2. CASE s[1].at = "irq.eoi"
  <2>1. ~on /\ asked /\ s[1].was /\ PlainFrom(s, 2)
    BY <1>2
       DEF StackOK, PlainFrom, PlainFrame, InGuarded, Dying, InTick, YieldSteps,
           GuardedSteps, Called
  <2>2. PlainFrom(t, 3)
    BY <2>1 DEF PlainFrom, Called
  <2>3. t[1].at \in YieldSteps /\ ~t[1].was /\ t[2].at = "iret"
    BY <1>2
  <2>4. t[2].was /\ Len(t) >= 2
    BY <2>1 DEF Called
  <2>5. InTick(t)
    BY <2>2, <2>3, <2>4 DEF InTick
  <2>. QED
    BY <2>1, <2>5 DEF StackOK
<1>. QED
  BY <1>1, <1>2

\* A lock's release, the restore of a saved IF, and the end of the handler.
LEMMA LeftStack ==
  ASSUME NEW s, NEW t, NEW asked \in BOOLEAN, NEW on \in BOOLEAN, NEW then \in BOOLEAN,
         Len(s) \in Nat, StackOK(s, asked, on), Left(s, t),
         \/ s[1].at = "release" /\ then = on
         \/ s[1].at = "restore" /\ then = (on \/ s[1].was)
         \/ s[1].at = "iret" /\ then = s[1].was
  PROVE  StackOK(t, asked, then)
<1>1. CASE s[1].at = "release" /\ then = on
  <2>1. Len(s) = 1 \/ (~on /\ InGuarded(s, asked) /\ Len(s) = 2)
    BY <1>1 DEF StackOK, PlainFrom, InGuarded, Dying, InTick, YieldSteps, Left, GuardedSteps
  <2>2. CASE Len(s) = 1
    BY <1>1, <2>2
       DEF StackOK, PlainFrom, InGuarded, Dying, InTick, YieldSteps, Left, GuardedSteps
  <2>3. CASE ~on /\ InGuarded(s, asked) /\ Len(s) = 2
    BY <1>1, <2>3 DEF StackOK, InGuarded, OverPlain, Left, GuardedSteps, YieldSteps
  <2>. QED
    BY <2>1, <2>2, <2>3
<1>2. CASE s[1].at = "restore" /\ then = (on \/ s[1].was)
  <2>1. ~PlainFrame(s[1]) /\ ~PlainFrom(s, 1)
    BY <1>2 DEF PlainFrame, PlainFrom, Left
  <2>2. CASE ~on /\ InGuarded(s, asked)
    <3>1. Len(s) = 1 /\ (s[1].was <=> asked)
      BY <2>1, <2>2, <1>2 DEF InGuarded
    <3>2. then <=> asked
      BY <1>2, <2>2, <3>1
    <3>3. PlainFrom(t, 1)
      BY <3>1 DEF PlainFrom, Left
    <3>. QED
      BY <3>2, <3>3 DEF StackOK
  <2>3. CASE ~on /\ Dying(s)
    <3>1. Len(s) = 2 /\ ~s[1].was /\ s[2].at = "dead"
      BY <1>2, <2>3 DEF Dying
    <3>2. Len(t) = 1 /\ t[1] = s[2]
      BY <3>1 DEF Left
    <3>. QED
      BY <1>2, <2>3, <3>1, <3>2 DEF StackOK, Dying
  <2>4. CASE ~on /\ asked /\ InTick(s)
    <3>1. Len(s) >= 2 /\ ~s[1].was /\ s[2].at = "iret" /\ s[2].was /\ PlainFrom(s, 3)
      BY <1>2, <2>4 DEF InTick
    <3>2. PlainFrom(t, 2) /\ t[1] = s[2] /\ Len(t) >= 1
      BY <3>1 DEF PlainFrom, Left
    <3>. QED
      BY <1>2, <2>4, <3>1, <3>2 DEF StackOK, InTick
  <2>. QED
    BY <2>1, <2>2, <2>3, <2>4 DEF StackOK
<1>3. CASE s[1].at = "iret" /\ then = s[1].was
  <2>1. asked /\ s[1].was /\ PlainFrom(s, 2)
    BY <1>3
       DEF StackOK, PlainFrom, PlainFrame, InGuarded, Dying, InTick, YieldSteps,
           GuardedSteps, Left
  <2>2. PlainFrom(t, 1)
    BY <2>1 DEF PlainFrom, Left
  <2>. QED
    BY <1>3, <2>1, <2>2 DEF StackOK
<1>. QED
  BY <1>1, <1>2, <1>3

\* Which stacks hold SCHED: the top frame tells, or the one a plain call covers.
LEMMA HoldingTop ==
  ASSUME NEW s, NEW asked, NEW on, Len(s) \in Nat, StackOK(s, asked, on)
  PROVE  /\ Len(s) = 0 => ~Holding(s)
         /\ Len(s) >= 1 /\ ~PlainFrame(s[1]) => (Holding(s) <=> s[1].at \in Holders)
         /\ Len(s) >= 1 /\ PlainFrame(s[1]) =>
              /\ Len(s) = 1 => ~Holding(s)
              /\ Len(s) >= 2 => Len(s) = 2 /\ (Holding(s) <=> s[2].at \in Holders)
<1>1. CASE PlainFrom(s, 1)
  BY <1>1 DEF PlainFrom, PlainFrame, Holding, Holders
<1>2. CASE InGuarded(s, asked)
  BY <1>2 DEF InGuarded, PlainFrame, Holding, Holders, GuardedSteps, YieldSteps
<1>3. CASE Dying(s)
  BY <1>3 DEF Dying, PlainFrame, Holding, Holders, YieldSteps
<1>4. CASE InTick(s)
  <2>1. \A i \in 2 .. Len(s) : s[i].at \notin Holders
    BY <1>4 DEF InTick, PlainFrom, PlainFrame, Holders
  <2>2. Len(s) >= 1 /\ ~PlainFrame(s[1])
    BY <1>4 DEF InTick, PlainFrame, YieldSteps
  <2>. QED
    BY <2>1, <2>2 DEF Holding
<1>. QED
  BY <1>1, <1>2, <1>3, <1>4 DEF StackOK

\* Under the top frame nothing is in the middle of a switch or a tick, and nothing
\* waits to take SCHED.
LEMMA BelowTop ==
  ASSUME NEW s, NEW asked, NEW on, Len(s) \in Nat, StackOK(s, asked, on)
  PROVE  \A i \in 2 .. Len(s) :
           s[i].at \in {"acquire", "release", "dead", "iret"} \cup OverPlain
<1>1. CASE PlainFrom(s, 1) \/ InGuarded(s, asked) \/ Dying(s)
  BY <1>1 DEF PlainFrom, InGuarded, Dying
<1>2. CASE InTick(s)
  BY <1>2 DEF InTick, PlainFrom, PlainFrame
<1>. QED
  BY <1>1, <1>2 DEF StackOK

\* A context that waits behind its switch is not inside init or task_exit.
LEMMA RestingFrames ==
  ASSUME NEW s, NEW asked, NEW on, Len(s) \in Nat, StackOK(s, asked, on),
         Len(s) >= 1, s[1].at = "restore"
  PROVE  \A i \in 1 .. Len(s) :
           s[i].at \in {"restore", "acquire", "release", "dead", "iret"}
<1>1. ~PlainFrame(s[1])
  BY DEF PlainFrame
<1>2. CASE InGuarded(s, asked) \/ Dying(s)
  BY <1>1, <1>2 DEF InGuarded, Dying
<1>3. CASE InTick(s)
  BY <1>3 DEF InTick, PlainFrom, PlainFrame
<1>. QED
  BY <1>1, <1>2, <1>3 DEF StackOK, PlainFrom

\* IF is on only in a body or in one of its plain calls.
LEMMA OffOutsidePlain ==
  ASSUME NEW s, NEW asked, NEW on, Len(s) \in Nat, Len(s) >= 1, ~PlainFrame(s[1]),
         StackOK(s, asked, on)
  PROVE  ~on
BY DEF StackOK, PlainFrom

\* The test of the routine the running context stands in, as one of its first frame.
LEMMA HeadFrame ==
  ASSUME NEW c \in Context, NEW l
  PROVE  (c.frames # <<>> /\ Head(c.frames).at = l)
           <=> (Len(c.frames) >= 1 /\ c.frames[1].at = l)
<1>1. c.frames # <<>> => Head(c.frames) = c.frames[1]
  BY HeadTailProperties DEF Context
<1>. QED
  BY <1>1, FramesOfContext

LEMMA AtFirst ==
  ASSUME TypeOK, NEW l
  PROVE  At(l) <=> Len(live.frames) >= 1 /\ live.frames[1].at = l
BY HeadFrame DEF At, InBody, Top, TypeOK

LEMMA AtFirstNext ==
  ASSUME live' \in Context, NEW l
  PROVE  At(l)' <=> Len(live'.frames) >= 1 /\ live'.frames[1].at = l
BY HeadFrame DEF At, InBody, Top

LEMMA TopFrame ==
  ASSUME TypeOK, NEW l, At(l)
  PROVE  /\ live \in Context /\ live.frames # <<>> /\ Len(live.frames) \in Nat
         /\ Len(live.frames) >= 1 /\ Top = live.frames[1] /\ Top \in FrameType
         /\ Top.at = l /\ Top.lock \in Locks /\ Top.was \in BOOLEAN
<1>1. live \in Context /\ live.frames # <<>> /\ Top.at = l
  BY DEF TypeOK, At, InBody
<1>2. Top = live.frames[1]
  BY <1>1, HeadTailProperties DEF Top, Context
<1>. QED
  BY <1>1, <1>2, FramesOfContext

-----------------------------------------------------------------------------
(* Steps of the running context.                                           *)

\* A step that leaves the parked contexts and the current task alone.
LEMMA RunningStep ==
  ASSUME KernelInv, TypeOK', UNCHANGED <<cpu, current, inits, parked>>,
         StackOK(live'.frames, Asked(cpu, live'), intr'),
         ~At("yield.switch"), ~At("yield.switch")', isr' <=> At("irq.eoi")',
         held'["SCHED"] <=> Holding(live'.frames), CallerInv'
  PROVE  KernelInv'
<1>1. LiveInv'
  BY DEF LiveInv, Asked, BodyOf
<1>2. ParkedInv'
  BY DEF KernelInv, ParkedInv, ParkedOK, Asked, BodyOf
<1>3. SwitchInv'
  BY DEF KernelInv, SwitchInv
<1>4. TickInv'
  BY DEF TickInv
<1>5. HeldInv'
  BY DEF HeldInv
<1>. QED
  BY <1>1, <1>2, <1>3, <1>4, <1>5 DEF KernelInv

InitOrExit == {"init.lock", "init.install", "exit.lock", "exit.mark"}

\* On to another place of the same routine.
LEMMA GotoStep ==
  ASSUME KernelInv, NEW k, At(k), NEW l \in Places, Goto(l), Onward(k, l)
  PROVE  /\ live' \in Context
         /\ \A i \in 2 .. Len(live.frames) : live'.frames[i] = live.frames[i]
         /\ Len(live'.frames) = Len(live.frames)
         /\ live'.frames[1].at = l
         /\ StackOK(live'.frames, Asked(cpu, live'), intr)
         /\ l \in GuardedSteps => (Holding(live'.frames) <=> l \in Holders)
         /\ l \notin InitOrExit /\ cpu' = cpu => CallerInv'
<1>1. /\ live \in Context /\ live.frames # <<>> /\ Len(live.frames) \in Nat
      /\ Len(live.frames) >= 1 /\ live.frames[1].at = k
  BY TopFrame DEF KernelInv
<1>2. /\ live' \in Context /\ live'.ip = live.ip /\ Len(live'.frames) = Len(live.frames)
      /\ live'.frames[1].at = l /\ live'.frames[1].lock = live.frames[1].lock
      /\ live'.frames[1].was = live.frames[1].was
      /\ \A i \in 2 .. Len(live.frames) : live'.frames[i] = live.frames[i]
  BY <1>1, GotoFrames DEF Goto
<1>3. Moved(live.frames, live'.frames)
  BY <1>1, <1>2 DEF Moved
<1>4. StackOK(live.frames, Asked(cpu, live), intr)
  BY DEF KernelInv, LiveInv
<1>5. StackOK(live'.frames, Asked(cpu, live), intr)
  BY <1>1, <1>2, <1>3, <1>4, MovedStack
<1>6. Asked(cpu, live') = Asked(cpu, live)
  BY <1>2 DEF Asked
<1>7. l \in GuardedSteps => (Holding(live'.frames) <=> l \in Holders)
  <2>1. l \in GuardedSteps => ~PlainFrame(live'.frames[1])
    BY <1>2 DEF PlainFrame, GuardedSteps, YieldSteps
  <2>. QED
    BY <1>1, <1>2, <1>5, <2>1, HoldingTop
<1>8. l \notin InitOrExit /\ cpu' = cpu => CallerInv'
  BY <1>1, <1>2 DEF KernelInv, CallerInv, InitOrExit
<1>. QED
  BY <1>2, <1>5, <1>6, <1>7, <1>8

\* The top routine calls f and stands at l when f returns.
LEMMA CallStep ==
  ASSUME KernelInv, NEW k, At(k), NEW l \in Places, NEW f \in FrameType, GotoAndCall(l, f),
         \/ k \in {"init.lock", "spawn.lock", "exit.mark"}
              /\ PlainFrame(f) /\ l \in OverPlain
         \/ k = "exit.yield" /\ f.at \in YieldSteps /\ ~f.was /\ l = "dead"
         \/ k = "irq.eoi" /\ f.at \in YieldSteps /\ ~f.was /\ l = "iret"
  PROVE  /\ live' \in Context
         /\ live'.frames[1] = f /\ live'.frames[2].at = l
         /\ Len(live'.frames) = Len(live.frames) + 1
         /\ \A i \in 3 .. Len(live.frames) + 1 : live'.frames[i] = live.frames[i - 1]
         /\ StackOK(live'.frames, Asked(cpu, live'), intr)
         /\ f.at \notin InitOrExit /\ l \notin InitOrExit /\ cpu' = cpu => CallerInv'
<1>1. /\ live \in Context /\ live.frames # <<>> /\ Len(live.frames) \in Nat
      /\ Len(live.frames) >= 1 /\ live.frames[1].at = k /\ Top = Head(live.frames)
  BY TopFrame DEF KernelInv, Top
<1>2. /\ live' \in Context /\ live'.ip = live.ip
      /\ Len(live'.frames) = Len(live.frames) + 1
      /\ live'.frames[1] = f
      /\ live'.frames[2].at = l /\ live'.frames[2].lock = live.frames[1].lock
      /\ live'.frames[2].was = live.frames[1].was
      /\ \A i \in 3 .. Len(live.frames) + 1 : live'.frames[i] = live.frames[i - 1]
  <2>1. live' = CallResult(live, l, f)
    BY <1>1 DEF GotoAndCall, CallResult
  <2>. QED
    BY <1>1, <2>1, CallFrames
<1>3. Called(live.frames, live'.frames)
  BY <1>1, <1>2 DEF Called
<1>4. StackOK(live.frames, Asked(cpu, live), intr)
  BY DEF KernelInv, LiveInv
<1>5. StackOK(live'.frames, Asked(cpu, live), intr)
  <2>. DEFINE s == live.frames
              t == live'.frames
  <2>1. \/ s[1].at \in {"init.lock", "spawn.lock", "exit.mark"}
             /\ PlainFrame(t[1]) /\ t[2].at \in OverPlain
        \/ s[1].at = "exit.yield" /\ t[1].at \in YieldSteps /\ ~t[1].was /\ t[2].at = "dead"
        \/ s[1].at = "irq.eoi" /\ t[1].at \in YieldSteps /\ ~t[1].was /\ t[2].at = "iret"
    BY <1>1, <1>2
  <2>2. Len(s) \in Nat /\ StackOK(s, Asked(cpu, live), intr) /\ Called(s, t)
    BY <1>1, <1>3, <1>4
  <2>. HIDE DEF s, t
  <2>3. StackOK(t, Asked(cpu, live), intr)
    BY <2>1, <2>2, CalledStack
  <2>. QED
    BY <2>3 DEF t
<1>6. Asked(cpu, live') = Asked(cpu, live)
  BY <1>2 DEF Asked
<1>7. f.at \notin InitOrExit /\ l \notin InitOrExit /\ cpu' = cpu => CallerInv'
  <2>. SUFFICES ASSUME f.at \notin InitOrExit, l \notin InitOrExit, cpu' = cpu,
                       NEW i \in 1 .. Len(live'.frames)
                PROVE  /\ live'.frames[i].at \in {"init.lock", "init.install"} => cpu = Idle
                       /\ live'.frames[i].at \in {"exit.lock", "exit.mark"} => cpu # Idle
    BY DEF CallerInv
  <2>1. CASE i = 1
    BY <1>2, <2>1 DEF InitOrExit
  <2>2. CASE i = 2
    BY <1>2, <2>2 DEF InitOrExit
  <2>3. CASE i \in 3 .. Len(live.frames) + 1
    <3>1. i - 1 \in 1 .. Len(live.frames) /\ live'.frames[i] = live.frames[i - 1]
      BY <1>1, <1>2, <2>3
    <3>. QED
      BY <3>1 DEF KernelInv, CallerInv
  <2>. QED
    BY <1>1, <1>2, <2>1, <2>2, <2>3
<1>. QED
  BY <1>2, <1>5, <1>6, <1>7

\* The top routine returns.
LEMMA ReturnStep ==
  ASSUME KernelInv, NEW k, At(k), Return, intr' \in BOOLEAN, cpu' = cpu,
         \/ k = "release" /\ intr' = intr
         \/ k = "restore" /\ intr' = (intr \/ Top.was)
         \/ k = "iret" /\ intr' = Top.was
  PROVE  /\ live' \in Context
         /\ StackOK(live'.frames, Asked(cpu, live'), intr')
         /\ Holding(live'.frames) <=> Holding(live.frames)
         /\ ~At("yield.switch")' /\ ~At("irq.eoi")'
         /\ CallerInv'
<1>1. /\ live \in Context /\ live.frames # <<>> /\ Len(live.frames) \in Nat
      /\ Len(live.frames) >= 1 /\ live.frames[1].at = k /\ Top = live.frames[1]
  BY TopFrame DEF KernelInv
<1>2. /\ live' \in Context /\ live'.ip = live.ip
      /\ Len(live'.frames) = Len(live.frames) - 1
      /\ \A i \in 1 .. Len(live.frames) - 1 : live'.frames[i] = live.frames[i + 1]
  BY <1>1, ReturnFrames DEF Return
<1>3. Left(live.frames, live'.frames)
  BY <1>1, <1>2 DEF Left
<1>4. StackOK(live.frames, Asked(cpu, live), intr)
  BY DEF KernelInv, LiveInv
<1>5. StackOK(live'.frames, Asked(cpu, live), intr')
  <2>. DEFINE s == live.frames
  <2>1. \/ s[1].at = "release" /\ intr' = intr
        \/ s[1].at = "restore" /\ intr' = (intr \/ s[1].was)
        \/ s[1].at = "iret" /\ intr' = s[1].was
    BY <1>1
  <2>2. Asked(cpu, live) \in BOOLEAN /\ intr \in BOOLEAN
    BY AskedBoolean DEF Asked, KernelInv, TypeOK
  <2>3. Len(s) \in Nat /\ StackOK(s, Asked(cpu, live), intr) /\ Left(s, live'.frames)
    BY <1>1, <1>3, <1>4
  <2>. HIDE DEF s
  <2>. QED
    BY <2>1, <2>2, <2>3, LeftStack
<1>6. Asked(cpu, live') = Asked(cpu, live)
  BY <1>2 DEF Asked
<1>7. Holding(live'.frames) <=> Holding(live.frames)
  <2>1. k \notin Holders
    BY DEF Holders
  <2>2. \A i \in 2 .. Len(live.frames) : i - 1 \in 1 .. Len(live'.frames)
                                          /\ live'.frames[i - 1] = live.frames[i]
    BY <1>1, <1>2
  <2>3. \A i \in 1 .. Len(live'.frames) : i + 1 \in 1 .. Len(live.frames)
                                           /\ live'.frames[i] = live.frames[i + 1]
    BY <1>1, <1>2
  <2>4. ASSUME Holding(live.frames) PROVE Holding(live'.frames)
    <3>1. PICK i \in 1 .. Len(live.frames) : live.frames[i].at \in Holders
      BY <2>4 DEF Holding
    <3>2. i \in 2 .. Len(live.frames)
      BY <1>1, <2>1, <3>1
    <3>. QED
      BY <2>2, <3>1, <3>2 DEF Holding
  <2>5. ASSUME Holding(live'.frames) PROVE Holding(live.frames)
    BY <2>3, <2>5 DEF Holding
  <2>. QED
    BY <2>4, <2>5
<1>8. ~At("yield.switch")' /\ ~At("irq.eoi")'
  <2>1. Len(live'.frames) >= 1 => 2 \in 2 .. Len(live.frames)
                                   /\ live'.frames[1] = live.frames[2]
    BY <1>1, <1>2
  <2>2. Len(live'.frames) >= 1 =>
          live'.frames[1].at \in {"acquire", "release", "dead", "iret"} \cup OverPlain
    BY <1>1, <1>4, <2>1, BelowTop
  <2>3. {"yield.switch", "irq.eoi"} \cap
          ({"acquire", "release", "dead", "iret"} \cup OverPlain) = {}
    BY DEF OverPlain
  <2>. QED
    BY <1>2, <2>2, <2>3, AtFirstNext
<1>9. CallerInv'
  <2>1. \A i \in 1 .. Len(live'.frames) : i + 1 \in 1 .. Len(live.frames)
                                           /\ live'.frames[i] = live.frames[i + 1]
    BY <1>1, <1>2
  <2>2. cpu' = cpu /\ CallerInv
    BY <1>2 DEF KernelInv
  <2>. QED
    BY <2>1, <2>2 DEF CallerInv
<1>. QED
  BY <1>2, <1>5, <1>6, <1>7, <1>8, <1>9

-----------------------------------------------------------------------------
(* Calls from a body.                                                      *)

LEMMA OneFrame ==
  ASSUME NEW f \in FrameType
  PROVE  <<f>> \in Seq(FrameType) /\ Len(<<f>>) = 1 /\ <<f>>[1] = f
OBVIOUS

LEMMA TwoFrames ==
  ASSUME NEW f \in FrameType, NEW g \in FrameType
  PROVE  <<f, g>> \in Seq(FrameType) /\ Len(<<f, g>>) = 2 /\ <<f, g>>[1] = f /\ <<f, g>>[2] = g
OBVIOUS

LEMMA SetFrames ==
  ASSUME NEW c \in Context, NEW fs \in Seq(FrameType)
  PROVE  /\ [c EXCEPT !.frames = fs] \in Context
         /\ [c EXCEPT !.frames = fs].frames = fs /\ [c EXCEPT !.frames = fs].ip = c.ip
         /\ [ip |-> c.ip + 1, frames |-> fs] \in Context
<1>1. c.ip + 1 \in Nat \ {0}
  BY DEF Context
<1>2. /\ [c EXCEPT !.frames = fs] \in Context
      /\ [c EXCEPT !.frames = fs].frames = fs /\ [c EXCEPT !.frames = fs].ip = c.ip
  BY DEF Context
<1>3. [ip |-> c.ip + 1, frames |-> fs] \in Context
  BY <1>1 DEF Context
<1>. QED
  BY <1>2, <1>3

\* A stack no routine of which is in a critical section, a switch or a handler.
AtStart(fs) ==
  \A i \in 1 .. Len(fs) : fs[i].at \notin Holders \cup {"yield.switch", "irq.eoi"}

\* The frames with which the guarded routines start.
LEMMA GuardedStart ==
  ASSUME intr \in BOOLEAN, NEW o \in GuardedOps
  PROVE  /\ Guarded(o) \in Seq(FrameType) /\ Len(Guarded(o)) \in Nat
         /\ InGuarded(Guarded(o), intr) /\ AtStart(Guarded(o))
         /\ \A i \in 1 .. Len(Guarded(o)) :
              /\ Guarded(o)[i].at \in {"init.lock", "init.install"} => o = "init"
              /\ Guarded(o)[i].at \in {"exit.lock", "exit.mark"} => o = "exit"
<1>. DEFINE Start(l) == Frame(l, "SCHED", intr)
<1>1. \A l \in GuardedSteps : /\ Start(l) \in FrameType /\ Start(l).at = l
                        /\ (Start(l).was <=> intr)
  BY DEF Locks, Frame, FrameType, Places, GuardedSteps, YieldSteps
<1>2. /\ Acquire("HEAP") \in FrameType /\ Acquire("HEAP").at = "acquire"
      /\ PlainFrame(Acquire("HEAP"))
  BY DEF Acquire, Frame, FrameType, Locks, PlainFrame, Places
<1>3. /\ Frame("restore", "HEAP", intr) \in FrameType
      /\ Frame("restore", "HEAP", intr).at = "restore"
      /\ (Frame("restore", "HEAP", intr).was <=> intr)
  BY DEF Locks, Frame, FrameType, Places, GuardedSteps, YieldSteps
<1>. HIDE DEF Start
<1>4. ASSUME NEW l \in {"yield.lock", "spawn.lock", "exit.lock", "snapshot.lock"},
             Guarded(o) = <<Start(l)>>, l = "exit.lock" => o = "exit"
      PROVE  /\ Guarded(o) \in Seq(FrameType) /\ Len(Guarded(o)) \in Nat
             /\ InGuarded(Guarded(o), intr) /\ AtStart(Guarded(o))
             /\ \A i \in 1 .. Len(Guarded(o)) :
                  /\ Guarded(o)[i].at \in {"init.lock", "init.install"} => o = "init"
                  /\ Guarded(o)[i].at \in {"exit.lock", "exit.mark"} => o = "exit"
  <2>1. Start(l) \in FrameType /\ Start(l).at = l /\ (Start(l).was <=> intr)
    BY <1>1 DEF GuardedSteps, YieldSteps
  <2>2. /\ Guarded(o) \in Seq(FrameType) /\ Len(Guarded(o)) = 1
        /\ Guarded(o)[1] = Start(l)
    BY <1>4, <2>1, OneFrame
  <2>3. InGuarded(Guarded(o), intr)
    BY <2>1, <2>2 DEF InGuarded, GuardedSteps, YieldSteps
  <2>4. AtStart(Guarded(o))
    BY <2>1, <2>2 DEF AtStart, Holders
  <2>. QED
    BY <1>4, <2>1, <2>2, <2>3, <2>4
<1>5. ASSUME NEW f \in FrameType, f.at \in OverPlain \ {"init.install", "spawn.push"},
             f.was <=> intr, Guarded(o) = <<Acquire("HEAP"), f>>,
             f.at = "init.lock" => o = "init"
      PROVE  /\ Guarded(o) \in Seq(FrameType) /\ Len(Guarded(o)) \in Nat
             /\ InGuarded(Guarded(o), intr) /\ AtStart(Guarded(o))
             /\ \A i \in 1 .. Len(Guarded(o)) :
                  /\ Guarded(o)[i].at \in {"init.lock", "init.install"} => o = "init"
                  /\ Guarded(o)[i].at \in {"exit.lock", "exit.mark"} => o = "exit"
  <2>1. /\ Guarded(o) \in Seq(FrameType) /\ Len(Guarded(o)) = 2
        /\ Guarded(o)[1] = Acquire("HEAP") /\ Guarded(o)[2] = f
    BY <1>2, <1>5, TwoFrames
  <2>2. InGuarded(Guarded(o), intr)
    BY <1>2, <1>5, <2>1 DEF InGuarded
  <2>3. AtStart(Guarded(o))
    BY <1>2, <1>5, <2>1 DEF AtStart, Holders, OverPlain
  <2>4. \A i \in 1 .. 2 : i = 1 \/ i = 2
    OBVIOUS
  <2>. QED
    BY <1>2, <1>5, <2>1, <2>2, <2>3, <2>4 DEF OverPlain
<1>6. CASE o = "yield"
  BY <1>6, <1>4 DEF Guarded, Start
<1>7. CASE o = "spawn"
  BY <1>7, <1>4 DEF Guarded, Start
<1>8. CASE o = "exit"
  BY <1>8, <1>4 DEF Guarded, Start
<1>9. CASE o = "snapshot"
  BY <1>9, <1>4 DEF Guarded, Start
<1>10. CASE o = "init"
  <2>1. Guarded(o) = <<Acquire("HEAP"), Start("init.lock")>>
    BY <1>10 DEF Guarded, Start
  <2>2. "init.lock" \in OverPlain \ {"init.install", "spawn.push"}
    BY DEF OverPlain
  <2>3. /\ Start("init.lock") \in FrameType /\ Start("init.lock").at = "init.lock"
        /\ (Start("init.lock").was <=> intr)
    BY <1>1 DEF GuardedSteps
  <2>. QED
    BY <1>5, <1>10, <2>1, <2>2, <2>3
<1>11. CASE o = "stats"
  <2>1. Guarded(o) = <<Acquire("HEAP"), Frame("restore", "HEAP", intr)>>
    BY <1>11 DEF Guarded
  <2>2. "restore" \in OverPlain \ {"init.install", "spawn.push"}
    BY DEF OverPlain
  <2>. QED
    BY <1>3, <1>5, <1>11, <2>1, <2>2
<1>. QED
  BY <1>6, <1>7, <1>8, <1>9, <1>10, <1>11 DEF GuardedOps

LEMMA PlainStart ==
  ASSUME NEW o
  PROVE  /\ Plain(o) \in Seq(FrameType) /\ Len(Plain(o)) = 1
         /\ PlainFrame(Plain(o)[1]) /\ AtStart(Plain(o))
<1>1. \A k \in {"HEAP", "SERIAL"} :
         Acquire(k) \in FrameType /\ Acquire(k).at = "acquire" /\ PlainFrame(Acquire(k))
  BY DEF Acquire, Frame, FrameType, Locks, PlainFrame, Places
<1>2. PICK k \in {"HEAP", "SERIAL"} : Plain(o) = <<Acquire(k)>>
  BY DEF Plain
<1>3. /\ Plain(o) \in Seq(FrameType) /\ Len(Plain(o)) = 1 /\ Plain(o)[1] = Acquire(k)
  BY <1>1, <1>2, OneFrame
<1>. QED
  BY <1>1, <1>3 DEF AtStart, Holders

\* In its body the running task has the IF it asked for, and holds nothing.
LEMMA InBodyFacts ==
  ASSUME KernelInv, InBody
  PROVE  /\ live \in Context /\ live.frames = <<>> /\ Len(live.frames) = 0
         /\ intr = Asked(cpu, live) /\ ~held["SCHED"] /\ ~isr /\ cpu = current
         /\ \A l : ~At(l)
<1>1. live \in Context /\ live.frames = <<>> /\ Len(live.frames) = 0
  BY FramesOfContext DEF KernelInv, TypeOK, InBody
<1>2. \A l : ~At(l)
  BY DEF At
<1>3. intr \in BOOLEAN /\ Asked(cpu, live) \in BOOLEAN
  BY AskedBoolean DEF Asked, KernelInv, TypeOK
<1>4. intr <=> Asked(cpu, live)
  BY <1>1 DEF KernelInv, LiveInv, StackOK, PlainFrom, InGuarded, Dying, InTick
<1>5. ~held["SCHED"]
  BY <1>1 DEF KernelInv, HeldInv, Holding
<1>. QED
  BY <1>1, <1>2, <1>3, <1>4, <1>5 DEF KernelInv, TickInv, SwitchInv

\* A step of a body that enters the frames fs and leaves everything else alone.
LEMMA BodyEnters ==
  ASSUME KernelInv, InBody, TypeOK', UNCHANGED <<cpu, current, inits, parked, isr, held>>,
         NEW fs \in Seq(FrameType), live'.frames = fs, AtStart(fs),
         StackOK(fs, Asked(cpu, live'), intr'),
         \A i \in 1 .. Len(fs) :
           /\ fs[i].at \in {"init.lock", "init.install"} => cpu = Idle
           /\ fs[i].at \in {"exit.lock", "exit.mark"} => cpu # Idle
  PROVE  KernelInv'
<1>1. live' \in Context
  BY DEF TypeOK
<1>2. ~Holding(fs)
  BY DEF AtStart, Holding
<1>3. ~At("yield.switch")' /\ ~At("irq.eoi")'
  BY <1>1, AtFirstNext, FramesOfContext DEF AtStart
<1>4. CallerInv'
  BY DEF CallerInv
<1>. QED
  BY <1>2, <1>3, <1>4, InBodyFacts, RunningStep

-----------------------------------------------------------------------------
(* The invariant holds initially and is kept, one lemma per action.        *)

LEMMA InitInv ==
  ASSUME Init
  PROVE  KernelInv
<1>1. Fresh \in Context /\ Fresh.frames = <<>> /\ Fresh.ip = 1 /\ Len(Fresh.frames) = 0
  BY DEF Fresh, Context
<1>2. TypeOK
  <2>1. /\ state \in [Ids -> {"absent", "ready", "running", "finished"}]
        /\ state[Idle] = "running"
    BY KernelAssumption DEF Init, WithIdle, Ids, Idle
  <2>2. /\ count \in 1 .. MaxTasks + 1 /\ ready \in Seq(1 .. count - 1)
        /\ current \in 0 .. count - 1 /\ inits \in 1 .. MaxInits /\ cpu \in Ids
    BY KernelAssumption DEF Init, Ids, Idle
  <2>3. /\ held \in [Locks -> BOOLEAN] /\ live \in Context /\ parked \in [Ids -> Context]
    BY <1>1 DEF Init
  <2>. QED
    BY <2>1, <2>2, <2>3 DEF Init, TypeOK
<1>3. \A t \in Ids : StackOK(Fresh.frames, Asked(t, Fresh), FALSE) /\ ~Asked(t, Fresh)
  <2>1. \A t \in Ids : ~Asked(t, Fresh)
    BY <1>1, AskedAtStart DEF Asked
  <2>2. PlainFrom(Fresh.frames, 1)
    BY <1>1 DEF PlainFrom
  <2>. QED
    BY <2>1, <2>2 DEF StackOK
<1>4. Idle \in Ids
  BY KernelAssumption DEF Idle, Ids
<1>5. LiveInv
  BY <1>3, <1>4 DEF Init, LiveInv
<1>6. ParkedInv
  BY <1>1, <1>3 DEF Init, ParkedInv, ParkedOK
<1>7. \A l : ~At(l)
  BY <1>1 DEF Init, At, InBody
<1>8. SwitchInv /\ TickInv /\ HeldInv /\ CallerInv
  BY <1>1, <1>7 DEF Init, SwitchInv, TickInv, HeldInv, Holding, CallerInv, Locks
<1>. QED
  BY <1>2, <1>5, <1>6, <1>8 DEF KernelInv

\* What an action that leaves the scheduler's variables alone keeps of the types.
LEMMA TypesKept ==
  ASSUME TypeOK, live' \in Context, held' \in [Locks -> BOOLEAN],
         intr' \in BOOLEAN, irr' \in BOOLEAN, isr' \in BOOLEAN,
         UNCHANGED <<schedVars, cpu, parked>>
  PROVE  TypeOK'
BY DEF TypeOK, schedVars

LEMMA TakeDrop ==
  ASSUME TypeOK, NEW l \in Locks, Take(l) \/ Drop(l)
  PROVE  /\ held' \in [Locks -> BOOLEAN]
         /\ \A k \in Locks \ {l} : held'[k] = held[k]
         /\ Take(l) => held'[l] = TRUE
         /\ Drop(l) => (held'[l] = FALSE \/ Take(l))
BY DEF TypeOK, Take, Drop

LEMMA LockAcquireInv ==
  ASSUME KernelInv, LockAcquire
  PROVE  KernelInv'
<1>1. /\ At("acquire") /\ Top.lock \in Locks /\ Take(Top.lock) /\ Goto("release") /\ TypeOK
      /\ UNCHANGED <<schedVars, cpu, intr, irr, isr, parked>>
      /\ live \in Context /\ Len(live.frames) \in Nat /\ Len(live.frames) >= 1
      /\ Top = live.frames[1] /\ live.frames[1].at = "acquire"
  BY TopFrame DEF LockAcquire, KernelInv
<1>2. "release" \in Places /\ Onward("acquire", "release") /\ "release" \notin InitOrExit
  BY DEF Places, Onward, InitOrExit
<1>3. /\ live' \in Context
      /\ \A i \in 2 .. Len(live.frames) : live'.frames[i] = live.frames[i]
      /\ Len(live'.frames) = Len(live.frames) /\ live'.frames[1].at = "release"
      /\ StackOK(live'.frames, Asked(cpu, live'), intr) /\ CallerInv'
  BY <1>1, <1>2, GotoStep
<1>4. TypeOK'
  BY <1>1, <1>3, TakeDrop, TypesKept DEF TypeOK
<1>5. Top.lock \in {"HEAP", "SERIAL"}
  <2>1. StackOK(live.frames, Asked(cpu, live), intr)
    BY DEF KernelInv, LiveInv
  <2>2. PlainFrame(live.frames[1])
    BY <1>1, <2>1
       DEF StackOK, PlainFrom, InGuarded, Dying, InTick, YieldSteps, GuardedSteps
  <2>. QED
    BY <1>1, <2>2 DEF PlainFrame
<1>6. held'["SCHED"] = held["SCHED"]
  BY <1>1, <1>5, TakeDrop DEF Locks
<1>7. Holding(live'.frames) <=> Holding(live.frames)
  BY <1>1, <1>3 DEF Holding, Holders
<1>8. ~At("yield.switch") /\ ~At("yield.switch")' /\ ~At("irq.eoi") /\ ~At("irq.eoi")'
  BY <1>1, <1>3, AtFirst, AtFirstNext
<1>. QED
  BY <1>1, <1>3, <1>4, <1>6, <1>7, <1>8, RunningStep
     DEF KernelInv, HeldInv, TickInv, schedVars

LEMMA LockReleaseInv ==
  ASSUME KernelInv, LockRelease
  PROVE  KernelInv'
<1>1. /\ At("release") /\ Top.lock \in Locks /\ Drop(Top.lock) /\ Return /\ TypeOK
      /\ UNCHANGED <<schedVars, cpu, intr, irr, isr, parked>>
      /\ live \in Context /\ Len(live.frames) \in Nat /\ Len(live.frames) >= 1
      /\ Top = live.frames[1] /\ live.frames[1].at = "release"
  BY TopFrame DEF LockRelease, KernelInv
<1>2. /\ live' \in Context /\ StackOK(live'.frames, Asked(cpu, live'), intr') /\ CallerInv'
      /\ Holding(live'.frames) <=> Holding(live.frames)
      /\ ~At("yield.switch")' /\ ~At("irq.eoi")'
  BY <1>1, ReturnStep DEF TypeOK
<1>3. TypeOK'
  BY <1>1, <1>2, TakeDrop, TypesKept DEF TypeOK
<1>4. Top.lock \in {"HEAP", "SERIAL"}
  <2>1. StackOK(live.frames, Asked(cpu, live), intr)
    BY DEF KernelInv, LiveInv
  <2>2. PlainFrame(live.frames[1])
    BY <1>1, <2>1
       DEF StackOK, PlainFrom, InGuarded, Dying, InTick, YieldSteps, GuardedSteps
  <2>. QED
    BY <1>1, <2>2 DEF PlainFrame
<1>5. held'["SCHED"] = held["SCHED"]
  BY <1>1, <1>4, TakeDrop DEF Locks
<1>6. ~At("yield.switch") /\ ~At("irq.eoi")
  BY <1>1, AtFirst
<1>. QED
  BY <1>1, <1>2, <1>3, <1>5, <1>6, RunningStep DEF KernelInv, HeldInv, TickInv, schedVars

LEMMA RestoreInv ==
  ASSUME KernelInv, Restore
  PROVE  KernelInv'
<1>1. /\ At("restore") /\ Return /\ TypeOK /\ intr' = (intr \/ Top.was) /\ intr' \in BOOLEAN
      /\ UNCHANGED <<schedVars, cpu, irr, isr, held, parked>>
  BY DEF Restore, KernelInv
<1>2. /\ live' \in Context /\ StackOK(live'.frames, Asked(cpu, live'), intr') /\ CallerInv'
      /\ Holding(live'.frames) <=> Holding(live.frames)
      /\ ~At("yield.switch")' /\ ~At("irq.eoi")'
  BY <1>1, ReturnStep
<1>3. TypeOK'
  BY <1>1, <1>2, TypesKept DEF TypeOK
<1>4. ~At("yield.switch") /\ ~At("irq.eoi")
  BY <1>1, AtFirst
<1>. QED
  BY <1>1, <1>2, <1>3, <1>4, RunningStep DEF KernelInv, HeldInv, TickInv, schedVars

LEMMA IretInv ==
  ASSUME KernelInv, Iret
  PROVE  KernelInv'
<1>1. /\ At("iret") /\ Return /\ TypeOK /\ intr' = Top.was /\ intr' \in BOOLEAN
      /\ UNCHANGED <<schedVars, cpu, irr, isr, held, parked>>
  BY TopFrame DEF Iret, KernelInv
<1>2. /\ live' \in Context /\ StackOK(live'.frames, Asked(cpu, live'), intr') /\ CallerInv'
      /\ Holding(live'.frames) <=> Holding(live.frames)
      /\ ~At("yield.switch")' /\ ~At("irq.eoi")'
  BY <1>1, ReturnStep
<1>3. TypeOK'
  BY <1>1, <1>2, TypesKept DEF TypeOK
<1>4. ~At("yield.switch") /\ ~At("irq.eoi")
  BY <1>1, AtFirst
<1>. QED
  BY <1>1, <1>2, <1>3, <1>4, RunningStep DEF KernelInv, HeldInv, TickInv, schedVars

\* The routines that find SCHED free, take it and enter their critical section.
LEMMA TakeSched ==
  ASSUME KernelInv, NEW k, NEW l, At(k), Take("SCHED"), Goto(l),
         \/ k = "yield.lock" /\ l = "yield.pick"
         \/ k = "exit.lock" /\ l = "exit.mark"
         \/ k = "snapshot.lock" /\ l = "snapshot.copy",
         UNCHANGED <<schedVars, cpu, intr, irr, isr, parked>>
  PROVE  KernelInv'
<1>1. /\ l \in Places /\ Onward(k, l) /\ l \in GuardedSteps /\ l \in Holders
      /\ l # "yield.switch" /\ l # "irq.eoi" /\ k # "yield.switch" /\ k # "irq.eoi"
  BY DEF Places, Onward, GuardedSteps, YieldSteps, Holders
<1>2. /\ live \in Context /\ Len(live.frames) \in Nat /\ Len(live.frames) >= 1
      /\ live.frames[1].at = k
  BY TopFrame DEF KernelInv
<1>3. /\ live' \in Context
      /\ \A i \in 2 .. Len(live.frames) : live'.frames[i] = live.frames[i]
      /\ Len(live'.frames) = Len(live.frames) /\ live'.frames[1].at = l
      /\ StackOK(live'.frames, Asked(cpu, live'), intr)
      /\ Holding(live'.frames)
  BY <1>1, GotoStep
<1>4. "SCHED" \in Locks /\ TypeOK
  BY DEF Locks, KernelInv
<1>5. held' \in [Locks -> BOOLEAN] /\ held'["SCHED"] = TRUE
  BY <1>4, TakeDrop
<1>6. TypeOK'
  BY <1>3, <1>4, <1>5, TypesKept DEF TypeOK
<1>7. CallerInv'
  BY <1>2, <1>3 DEF KernelInv, CallerInv
<1>8. ~At("yield.switch") /\ ~At("yield.switch")' /\ ~At("irq.eoi") /\ ~At("irq.eoi")'
  BY <1>1, <1>2, <1>3, <1>4, AtFirst, AtFirstNext
<1>. QED
  BY <1>3, <1>5, <1>6, <1>7, <1>8, RunningStep DEF KernelInv, TickInv, schedVars

\* The routines that end their critical section and go on to l.
LEMMA DropSched ==
  ASSUME KernelInv, NEW k, NEW l, At(k), Drop("SCHED"), Goto(l),
         k \in {"yield.pick", "init.install", "spawn.push", "snapshot.copy"},
         l = "restore" \/ (k = "yield.pick" /\ l = "yield.switch"),
         UNCHANGED <<cpu, isr>>
  PROVE  /\ live' \in Context /\ StackOK(live'.frames, Asked(cpu, live'), intr)
         /\ held' \in [Locks -> BOOLEAN] /\ held'["SCHED"] = FALSE
         /\ ~Holding(live'.frames)
         /\ CallerInv' /\ cpu = current /\ isr = FALSE /\ isr' = FALSE
         /\ l = "yield.switch" => At("yield.switch")'
         /\ l = "restore" => ~At("yield.switch")'
         /\ ~At("yield.switch") /\ ~At("irq.eoi")'
<1>1. /\ l \in Places /\ Onward(k, l) /\ l \in GuardedSteps /\ l \notin Holders
      /\ l \notin InitOrExit /\ l # "irq.eoi" /\ k # "yield.switch" /\ k # "irq.eoi"
  BY DEF Places, Onward, GuardedSteps, YieldSteps, Holders, InitOrExit
<1>2. /\ live \in Context /\ Len(live.frames) \in Nat /\ Len(live.frames) >= 1
      /\ live.frames[1].at = k
  BY TopFrame DEF KernelInv
<1>3. /\ live' \in Context /\ Len(live'.frames) = Len(live.frames)
      /\ live'.frames[1].at = l /\ StackOK(live'.frames, Asked(cpu, live'), intr)
      /\ ~Holding(live'.frames) /\ CallerInv'
  BY <1>1, GotoStep
<1>4. "SCHED" \in Locks /\ TypeOK
  BY DEF Locks, KernelInv
<1>5. held' \in [Locks -> BOOLEAN] /\ held'["SCHED"] = FALSE
  BY <1>4 DEF Drop, TypeOK
<1>6. ~At("yield.switch") /\ ~At("irq.eoi")
  BY <1>1, <1>2, <1>4, AtFirst
<1>7. /\ ~At("irq.eoi")'
      /\ l = "yield.switch" => At("yield.switch")'
      /\ l = "restore" => ~At("yield.switch")'
  BY <1>1, <1>2, <1>3, AtFirstNext
<1>8. cpu = current /\ isr = FALSE
  BY <1>4, <1>6 DEF KernelInv, SwitchInv, TickInv, TypeOK
<1>. QED
  BY <1>3, <1>5, <1>6, <1>7, <1>8

\* The pick keeps the table and the queue well formed, and idle running.
LEMMA ChooseTypes ==
  ASSUME TypeOK, Choose
  PROVE  /\ state' \in [Ids -> {"absent", "ready", "running", "finished"}]
         /\ state'[Idle] = "running"
         /\ ready' \in Seq(1 .. count - 1) /\ current' \in 0 .. count - 1
<1>1. /\ count \in 1 .. MaxTasks + 1 /\ MaxTasks \in Nat /\ ready \in Seq(1 .. count - 1)
      /\ current \in 0 .. count - 1 /\ 0 .. count - 1 \subseteq Ids
      /\ Idle \in Ids /\ Idle = 0
  BY KernelAssumption DEF TypeOK, Ids, Idle
<1>2. Chosen \in 0 .. count - 1 /\ Rest \in Seq(1 .. count - 1)
  <2>1. CASE ready = <<>>
    BY <1>1, <2>1 DEF Chosen, Rest
  <2>2. CASE ready # <<>>
    <3>1. Head(ready) \in 1 .. count - 1 /\ Tail(ready) \in Seq(1 .. count - 1)
      BY <1>1, <2>2, HeadTailProperties
    <3>. QED
      BY <1>1, <2>2, <3>1 DEF Chosen, Rest
  <2>. QED
    BY <2>1, <2>2
<1>3. ready' \in Seq(1 .. count - 1)
  <2>1. CASE Requeues
    <3>1. current \in 1 .. count - 1
      BY <1>1, <2>1 DEF Requeues
    <3>2. Append(Rest, current) \in Seq(1 .. count - 1)
      BY <1>2, <3>1, AppendProperties
    <3>. QED
      BY <2>1, <3>2 DEF Choose
  <2>2. CASE ~Requeues
    BY <1>2, <2>2 DEF Choose
  <2>. QED
    BY <2>1, <2>2
<1>4. /\ state' \in [Ids -> {"absent", "ready", "running", "finished"}]
      /\ state'[Idle] = "running"
  <2>. DEFINE st == IF Requeues THEN [state EXCEPT ![current] = "ready"] ELSE state
  <2>1. /\ st \in [Ids -> {"absent", "ready", "running", "finished"}]
        /\ st[Idle] = "running"
    BY <1>1 DEF TypeOK, Requeues
  <2>2. state' = [st EXCEPT ![Chosen] = "running"]
    BY DEF Choose
  <2>. HIDE DEF st
  <2>. QED
    BY <1>1, <1>2, <2>1, <2>2
<1>. QED
  BY <1>2, <1>3, <1>4 DEF Choose

LEMMA YieldPickInv ==
  ASSUME KernelInv, YieldPick
  PROVE  KernelInv'
<1>1. /\ At("yield.pick") /\ Drop("SCHED") /\ TypeOK
      /\ UNCHANGED <<cpu, intr, irr, isr, parked>>
  BY DEF YieldPick, KernelInv
<1>2. CASE Chosen = current
  <2>1. Goto("restore") /\ UNCHANGED schedVars
    BY <1>2 DEF YieldPick
  <2>2. /\ live' \in Context /\ StackOK(live'.frames, Asked(cpu, live'), intr)
        /\ held' \in [Locks -> BOOLEAN] /\ held'["SCHED"] = FALSE
        /\ ~Holding(live'.frames) /\ CallerInv' /\ isr' = FALSE
        /\ ~At("yield.switch")' /\ ~At("yield.switch") /\ ~At("irq.eoi")'
    BY <1>1, <2>1, DropSched
  <2>3. TypeOK'
    BY <1>1, <2>1, <2>2, TypesKept DEF TypeOK
  <2>. QED
    BY <1>1, <2>1, <2>2, <2>3, RunningStep DEF schedVars
<1>3. CASE Chosen # current
  <2>1. Goto("yield.switch") /\ Choose
    BY <1>3 DEF YieldPick
  <2>2. /\ live' \in Context /\ StackOK(live'.frames, Asked(cpu, live'), intr)
        /\ held' \in [Locks -> BOOLEAN] /\ held'["SCHED"] = FALSE
        /\ ~Holding(live'.frames) /\ CallerInv' /\ cpu = current /\ isr' = FALSE
        /\ At("yield.switch")' /\ ~At("irq.eoi")'
    BY <1>1, <2>1, DropSched
  <2>3. count' = count /\ inits' = inits /\ current' = Chosen
    BY <2>1 DEF Choose
  <2>4. TypeOK'
    BY <1>1, <2>1, <2>2, <2>3, ChooseTypes DEF TypeOK
  <2>5. LiveInv' /\ ParkedInv'
    BY <1>1, <2>2, <2>3 DEF KernelInv, LiveInv, ParkedInv, ParkedOK, Asked, BodyOf
  <2>6. SwitchInv'
    BY <1>1, <1>3, <2>2, <2>3 DEF SwitchInv
  <2>7. TickInv' /\ HeldInv'
    BY <2>2 DEF TickInv, HeldInv
  <2>. QED
    BY <2>2, <2>4, <2>5, <2>6, <2>7 DEF KernelInv
<1>. QED
  BY <1>2, <1>3

LEMMA SwitchContextInv ==
  ASSUME KernelInv, SwitchContext
  PROVE  KernelInv'
<1>1. /\ At("yield.switch") /\ live' = parked[current] /\ cpu' = current /\ TypeOK
      /\ UNCHANGED <<schedVars, intr, irr, isr, held>>
      /\ live \in Context /\ live.frames # <<>> /\ Len(live.frames) \in Nat
      /\ Len(live.frames) >= 1 /\ live.frames[1].at = "yield.switch"
  BY TopFrame DEF SwitchContext, KernelInv
<1>2. cpu # current /\ ~isr
  <2>1. ~At("irq.eoi")
    BY <1>1, AtFirst
  <2>. QED
    BY <1>1, <2>1 DEF KernelInv, SwitchInv, TickInv
<1>3. StackOK(live.frames, Asked(cpu, live), intr)
  BY DEF KernelInv, LiveInv
<1>4. ~intr /\ ~held["SCHED"]
  <2>1. ~PlainFrame(live.frames[1]) /\ "yield.switch" \notin Holders
    BY <1>1 DEF PlainFrame, Holders
  <2>2. ~intr
    BY <1>1, <1>3, <2>1, OffOutsidePlain
  <2>3. ~Holding(live.frames)
    BY <1>1, <1>3, <2>1, HoldingTop
  <2>. QED
    BY <2>2, <2>3 DEF KernelInv, HeldInv
<1>. DEFINE stop == [live EXCEPT !.frames[1].at = "restore"]
<1>5. /\ stop \in Context /\ stop.frames[1].at = "restore"
      /\ StackOK(stop.frames, Asked(cpu, stop), FALSE)
  <2>1. "restore" \in Places /\ Onward("yield.switch", "restore")
    BY DEF Places, GuardedSteps, YieldSteps, Onward
  <2>2. /\ stop \in Context /\ stop.ip = live.ip /\ Len(stop.frames) = Len(live.frames)
        /\ stop.frames[1].at = "restore" /\ stop.frames[1].lock = live.frames[1].lock
        /\ stop.frames[1].was = live.frames[1].was
        /\ \A i \in 2 .. Len(live.frames) : stop.frames[i] = live.frames[i]
    BY <1>1, <2>1, GotoFrames
  <2>. HIDE DEF stop
  <2>3. Moved(live.frames, stop.frames)
    BY <1>1, <2>2 DEF Moved
  <2>4. StackOK(stop.frames, Asked(cpu, live), intr)
    BY <1>1, <1>3, <2>1, <2>2, <2>3, MovedStack
  <2>5. StackOK(stop.frames, Asked(cpu, live), FALSE)
    BY <1>4, <2>4 DEF StackOK
  <2>. QED
    BY <2>2, <2>5 DEF Asked
<1>6. current \in Ids /\ parked[current] \in Context
  BY <1>1, KernelAssumption DEF TypeOK, Ids
<1>7. /\ StackOK(parked[current].frames, Asked(current, parked[current]), FALSE)
      /\ parked[current].frames = <<>> \/ parked[current].frames[1].at = "restore"
  BY <1>2, <1>6 DEF KernelInv, ParkedInv, ParkedOK
<1>8. parked' = [parked EXCEPT ![cpu] = stop]
  BY DEF SwitchContext
<1>. HIDE DEF stop
<1>9. TypeOK'
  BY <1>1, <1>5, <1>6, <1>8 DEF TypeOK, schedVars
<1>10. LiveInv'
  <2>1. intr' = FALSE
    BY <1>1, <1>4 DEF TypeOK
  <2>. QED
    BY <1>1, <1>7, <2>1 DEF LiveInv, Asked, BodyOf, schedVars
<1>11. ParkedInv'
  <2>. SUFFICES ASSUME NEW t \in Ids, t # current
                PROVE  ParkedOK(t)'
    BY <1>1 DEF ParkedInv
  <2>1. CASE t = cpu
    <3>1. parked'[t] = stop
      BY <1>1, <1>8, <2>1 DEF TypeOK
    <3>. QED
      BY <1>1, <1>5, <2>1, <3>1 DEF ParkedOK, Asked, BodyOf, schedVars
  <2>2. CASE t # cpu
    <3>1. parked'[t] = parked[t]
      BY <1>1, <1>8, <2>2 DEF TypeOK
    <3>2. ParkedOK(t)
      BY <2>2 DEF KernelInv, ParkedInv
    <3>. QED
      BY <1>1, <3>1, <3>2 DEF ParkedOK, Asked, BodyOf, schedVars
  <2>. QED
    BY <2>1, <2>2
<1>12. /\ Len(live'.frames) \in Nat /\ live' \in Context
       /\ \A i \in 1 .. Len(live'.frames) :
            live'.frames[i].at \in {"restore", "acquire", "release", "dead", "iret"}
       /\ Len(live'.frames) >= 1 => live'.frames[1].at = "restore"
  <2>1. live' \in Context /\ Len(live'.frames) \in Nat
    BY <1>1, <1>6, FramesOfContext
  <2>2. CASE Len(live'.frames) = 0
    BY <2>1, <2>2
  <2>3. CASE Len(live'.frames) >= 1
    <3>1. live'.frames[1].at = "restore"
      BY <1>1, <1>6, <1>7, <2>3, FramesOfContext
    <3>. QED
      BY <1>1, <1>7, <2>1, <2>3, <3>1, RestingFrames
  <2>. QED
    BY <2>1, <2>2, <2>3
<1>13. ~At("yield.switch")' /\ ~At("irq.eoi")'
  BY <1>12, AtFirstNext
<1>14. SwitchInv' /\ TickInv'
  BY <1>1, <1>2, <1>13 DEF SwitchInv, TickInv, schedVars
<1>15. HeldInv' /\ CallerInv'
  BY <1>1, <1>4, <1>12 DEF HeldInv, Holding, Holders, CallerInv
<1>. QED
  BY <1>9, <1>10, <1>11, <1>14, <1>15 DEF KernelInv

\* init and spawn take SCHED and allocate under it.
LEMMA TakeAndAllocate ==
  ASSUME KernelInv, NEW k, NEW l, At(k), Take("SCHED"), GotoAndCall(l, Acquire("HEAP")),
         \/ k = "init.lock" /\ l = "init.install"
         \/ k = "spawn.lock" /\ l = "spawn.push",
         UNCHANGED <<schedVars, cpu, intr, irr, isr, parked>>
  PROVE  KernelInv'
<1>1. /\ l \in Places /\ l \in OverPlain /\ l \in Holders
      /\ k # "yield.switch" /\ k # "irq.eoi" /\ k \in {"init.lock", "spawn.lock", "exit.mark"}
  BY DEF Places, GuardedSteps, OverPlain, Holders
<1>2. /\ live \in Context /\ Len(live.frames) \in Nat /\ Len(live.frames) >= 1
      /\ live.frames[1].at = k
  BY TopFrame DEF KernelInv
<1>3. /\ Acquire("HEAP") \in FrameType /\ Acquire("HEAP").at = "acquire"
      /\ PlainFrame(Acquire("HEAP"))
  BY DEF Acquire, Frame, FrameType, Locks, PlainFrame, Places
<1>4. /\ live' \in Context /\ live'.frames[1] = Acquire("HEAP") /\ live'.frames[2].at = l
      /\ Len(live'.frames) = Len(live.frames) + 1
      /\ \A i \in 3 .. Len(live.frames) + 1 : live'.frames[i] = live.frames[i - 1]
      /\ StackOK(live'.frames, Asked(cpu, live'), intr)
  BY <1>1, <1>3, CallStep
<1>5. Holding(live'.frames)
  BY <1>1, <1>2, <1>4 DEF Holding
<1>6. "SCHED" \in Locks /\ TypeOK
  BY DEF Locks, KernelInv
<1>7. held' \in [Locks -> BOOLEAN] /\ held'["SCHED"] = TRUE
  BY <1>6, TakeDrop
<1>8. TypeOK'
  BY <1>4, <1>6, <1>7, TypesKept DEF TypeOK
<1>9. CallerInv'
  <2>. SUFFICES ASSUME NEW i \in 1 .. Len(live'.frames)
                PROVE  /\ live'.frames[i].at \in {"init.lock", "init.install"} => cpu = Idle
                       /\ live'.frames[i].at \in {"exit.lock", "exit.mark"} => cpu # Idle
    BY DEF CallerInv
  <2>1. CASE i = 1
    BY <1>3, <1>4, <2>1
  <2>2. CASE i = 2
    <3>1. k = "init.lock" => cpu = Idle
      BY <1>2 DEF KernelInv, CallerInv
    <3>. QED
      BY <1>4, <2>2, <3>1
  <2>3. CASE i \in 3 .. Len(live.frames) + 1
    <3>1. i - 1 \in 1 .. Len(live.frames) /\ live'.frames[i] = live.frames[i - 1]
      BY <1>2, <1>4, <2>3
    <3>. QED
      BY <3>1 DEF KernelInv, CallerInv
  <2>. QED
    BY <1>2, <1>4, <2>1, <2>2, <2>3
<1>10. ~At("yield.switch") /\ ~At("irq.eoi")
  BY <1>1, <1>2, <1>6, AtFirst
<1>11. ~At("yield.switch")' /\ ~At("irq.eoi")'
  BY <1>3, <1>4, AtFirstNext
<1>. QED
  BY <1>4, <1>5, <1>7, <1>8, <1>9, <1>10, <1>11, RunningStep DEF KernelInv, TickInv, schedVars

LEMMA FreshFacts ==
  /\ Fresh \in Context
  /\ \A b : StackOK(Fresh.frames, AskedFor(b, Fresh.ip), FALSE)
  /\ Fresh.frames = <<>>
<1>1. Fresh \in Context /\ Fresh.frames = <<>> /\ Fresh.ip = 1 /\ Len(Fresh.frames) = 0
  BY DEF Fresh, Context
<1>2. \A b : ~AskedFor(b, Fresh.ip)
  BY <1>1, AskedAtStart
<1>3. PlainFrom(Fresh.frames, 1)
  BY <1>1 DEF PlainFrom
<1>. QED
  BY <1>1, <1>2, <1>3 DEF StackOK

LEMMA InitInstallInv ==
  ASSUME KernelInv, InitInstall
  PROVE  KernelInv' /\ cpu = Idle /\ current = Idle
<1>1. /\ At("init.install") /\ Drop("SCHED") /\ Goto("restore") /\ TypeOK
      /\ UNCHANGED <<cpu, intr, irr, isr>> /\ inits < MaxInits /\ inits' = inits + 1
      /\ state' = WithIdle /\ count' = 1 /\ ready' = <<>> /\ current' = Idle
      /\ parked' = [t \in Ids |-> Fresh]
  BY DEF InitInstall, KernelInv
<1>2. /\ live' \in Context /\ StackOK(live'.frames, Asked(cpu, live'), intr)
      /\ held' \in [Locks -> BOOLEAN] /\ held'["SCHED"] = FALSE
      /\ ~Holding(live'.frames) /\ CallerInv' /\ cpu = current /\ isr' = FALSE
      /\ ~At("yield.switch")' /\ ~At("irq.eoi")'
  BY <1>1, DropSched
<1>3. cpu = Idle
  <2>1. Len(live.frames) >= 1 /\ Len(live.frames) \in Nat
        /\ live.frames[1].at = "init.install"
    BY <1>1, TopFrame
  <2>. QED
    BY <2>1 DEF KernelInv, CallerInv
<1>4. TypeOK'
  <2>1. /\ state' \in [Ids -> {"absent", "ready", "running", "finished"}]
        /\ state'[Idle] = "running"
    BY <1>1, KernelAssumption DEF WithIdle, Ids, Idle
  <2>2. /\ count' \in 1 .. MaxTasks + 1 /\ ready' \in Seq(1 .. count' - 1)
        /\ current' \in 0 .. count' - 1 /\ inits' \in 1 .. MaxInits
    BY <1>1, KernelAssumption DEF TypeOK, Idle
  <2>3. parked' \in [Ids -> Context]
    BY <1>1, FreshFacts
  <2>. QED
    BY <1>1, <1>2, <2>1, <2>2, <2>3 DEF TypeOK
<1>5. LiveInv'
  BY <1>1, <1>2, <1>3 DEF LiveInv, Asked, BodyOf
<1>6. ParkedInv'
  <2>. SUFFICES ASSUME NEW t \in Ids PROVE ParkedOK(t)'
    BY DEF ParkedInv
  <2>1. parked'[t] = Fresh
    BY <1>1
  <2>. QED
    BY <2>1, FreshFacts DEF ParkedOK, Asked
<1>7. SwitchInv' /\ TickInv' /\ HeldInv'
  BY <1>1, <1>2, <1>3 DEF SwitchInv, TickInv, HeldInv
<1>. QED
  BY <1>2, <1>3, <1>4, <1>5, <1>6, <1>7 DEF KernelInv

LEMMA SpawnPushInv ==
  ASSUME KernelInv, SpawnPush
  PROVE  KernelInv'
<1>1. /\ At("spawn.push") /\ Drop("SCHED") /\ Goto("restore") /\ TypeOK
      /\ UNCHANGED <<current, inits, cpu, intr, irr, isr>>
      /\ count <= MaxTasks /\ count' = count + 1
      /\ state' = [state EXCEPT ![count] = "ready"] /\ ready' = Append(ready, count)
      /\ parked' = [parked EXCEPT ![count] = Fresh]
  BY DEF SpawnPush, KernelInv
<1>2. /\ live' \in Context /\ StackOK(live'.frames, Asked(cpu, live'), intr)
      /\ held' \in [Locks -> BOOLEAN] /\ held'["SCHED"] = FALSE
      /\ ~Holding(live'.frames) /\ CallerInv' /\ cpu = current /\ isr' = FALSE
      /\ ~At("yield.switch")' /\ ~At("irq.eoi")'
  BY <1>1, DropSched
<1>3. TypeOK'
  <2>1. count \in 1 .. MaxTasks /\ count \in Ids /\ count # Idle /\ MaxTasks \in Nat
    BY <1>1, KernelAssumption DEF TypeOK, Ids, Idle
  <2>2. /\ state' \in [Ids -> {"absent", "ready", "running", "finished"}]
        /\ state'[Idle] = "running"
    BY <1>1, <2>1 DEF TypeOK
  <2>3. count' \in 1 .. MaxTasks + 1 /\ current' \in 0 .. count' - 1
    BY <1>1, <2>1 DEF TypeOK
  <2>4. ready' \in Seq(1 .. count' - 1)
    <3>1. ready \in Seq(1 .. count - 1) /\ 1 .. count - 1 \subseteq 1 .. count
      BY <1>1, <2>1 DEF TypeOK
    <3>2. ready \in Seq(1 .. count) /\ count \in 1 .. count
      BY <2>1, <3>1, SeqMonotonic
    <3>3. Append(ready, count) \in Seq(1 .. count)
      BY <3>2, AppendProperties
    <3>4. count' - 1 = count
      BY <1>1, <2>1
    <3>. QED
      BY <1>1, <3>3, <3>4
  <2>5. parked' \in [Ids -> Context]
    BY <1>1, FreshFacts DEF TypeOK
  <2>. QED
    BY <1>1, <1>2, <2>2, <2>3, <2>4, <2>5 DEF TypeOK
<1>4. LiveInv'
  BY <1>1, <1>2 DEF LiveInv, Asked, BodyOf
<1>5. ParkedInv'
  <2>. SUFFICES ASSUME NEW t \in Ids, t # cpu PROVE ParkedOK(t)'
    BY <1>1 DEF ParkedInv
  <2>1. CASE t = count
    <3>1. parked'[t] = Fresh
      BY <1>1, <2>1 DEF TypeOK
    <3>. QED
      BY <3>1, FreshFacts DEF ParkedOK, Asked
  <2>2. CASE t # count
    <3>1. parked'[t] = parked[t]
      BY <1>1, <2>2 DEF TypeOK
    <3>2. ParkedOK(t)
      BY DEF KernelInv, ParkedInv
    <3>. QED
      BY <1>1, <3>1, <3>2 DEF ParkedOK, Asked, BodyOf
  <2>. QED
    BY <2>1, <2>2
<1>6. SwitchInv' /\ TickInv' /\ HeldInv'
  BY <1>1, <1>2 DEF SwitchInv, TickInv, HeldInv
<1>. QED
  BY <1>2, <1>3, <1>4, <1>5, <1>6 DEF KernelInv

LEMMA SnapshotCopyInv ==
  ASSUME KernelInv, SnapshotCopy
  PROVE  KernelInv'
<1>1. /\ At("snapshot.copy") /\ Drop("SCHED") /\ Goto("restore") /\ TypeOK
      /\ UNCHANGED <<schedVars, cpu, intr, irr, isr, parked>>
  BY DEF SnapshotCopy, KernelInv
<1>2. /\ live' \in Context /\ StackOK(live'.frames, Asked(cpu, live'), intr)
      /\ held' \in [Locks -> BOOLEAN] /\ held'["SCHED"] = FALSE
      /\ ~Holding(live'.frames) /\ CallerInv' /\ isr' = FALSE
      /\ ~At("yield.switch")' /\ ~At("yield.switch") /\ ~At("irq.eoi")'
  BY <1>1, DropSched
<1>3. TypeOK'
  BY <1>1, <1>2, TypesKept DEF TypeOK
<1>. QED
  BY <1>1, <1>2, <1>3, RunningStep DEF schedVars

LEMMA ExitMarkInv ==
  ASSUME KernelInv, ExitMark
  PROVE  KernelInv' /\ cpu = current /\ current # Idle
<1>1. /\ At("exit.mark") /\ Drop("SCHED") /\ GotoAndCall("exit.yield", Acquire("SERIAL"))
      /\ UNCHANGED <<count, ready, current, inits, cpu, intr, irr, isr, parked>>
      /\ state' = [state EXCEPT ![current] = "finished"] /\ TypeOK
  BY DEF ExitMark, KernelInv
<1>2. /\ live \in Context /\ Len(live.frames) \in Nat /\ Len(live.frames) >= 1
      /\ live.frames[1].at = "exit.mark"
  BY <1>1, TopFrame
<1>3. /\ Acquire("SERIAL") \in FrameType /\ Acquire("SERIAL").at = "acquire"
      /\ PlainFrame(Acquire("SERIAL"))
  BY DEF Acquire, Frame, FrameType, Locks, PlainFrame, Places
<1>4. /\ "exit.yield" \in Places /\ "exit.yield" \in OverPlain /\ "exit.yield" \notin Holders
      /\ "exit.yield" \notin InitOrExit /\ "acquire" \notin InitOrExit
  BY DEF Places, GuardedSteps, OverPlain, Holders, InitOrExit
<1>5. /\ live' \in Context /\ live'.frames[1] = Acquire("SERIAL")
      /\ live'.frames[2].at = "exit.yield"
      /\ Len(live'.frames) = Len(live.frames) + 1
      /\ StackOK(live'.frames, Asked(cpu, live'), intr)
      /\ CallerInv'
  BY <1>1, <1>3, <1>4, CallStep
<1>6. ~Holding(live'.frames)
  BY <1>2, <1>3, <1>4, <1>5, HoldingTop
<1>7. held' \in [Locks -> BOOLEAN] /\ held'["SCHED"] = FALSE
  BY <1>1 DEF Drop, TypeOK, Locks
<1>8. ~At("yield.switch") /\ ~At("irq.eoi")
  BY <1>1, <1>2, AtFirst
<1>9. ~At("yield.switch")' /\ ~At("irq.eoi")'
  BY <1>3, <1>5, AtFirstNext
<1>10. cpu = current /\ cpu # Idle /\ isr = FALSE
  BY <1>1, <1>2, <1>8 DEF KernelInv, SwitchInv, TickInv, CallerInv, TypeOK
<1>11. TypeOK'
  <2>1. current \in Ids /\ current # Idle /\ Idle \in Ids
    BY <1>1, <1>10, KernelAssumption DEF TypeOK, Ids, Idle
  <2>2. /\ state' \in [Ids -> {"absent", "ready", "running", "finished"}]
        /\ state'[Idle] = "running"
    BY <1>1, <2>1 DEF TypeOK
  <2>. QED
    BY <1>1, <1>5, <1>7, <2>2 DEF TypeOK
<1>12. KernelInv'
  BY <1>1, <1>5, <1>6, <1>7, <1>8, <1>9, <1>10, <1>11, RunningStep
<1>. QED
  BY <1>10, <1>12

\* The call of yield_now from task_exit and from the timer's handler.
LEMMA CallsYield ==
  ASSUME KernelInv, NEW k, NEW l, At(k), GotoAndCall(l, Frame("yield.lock", "SCHED", intr)),
         \/ k = "exit.yield" /\ l = "dead"
         \/ k = "irq.eoi" /\ l = "iret",
         isr' = FALSE,
         UNCHANGED <<schedVars, cpu, intr, irr, held, parked>>
  PROVE  KernelInv'
<1>1. /\ live \in Context /\ Len(live.frames) \in Nat /\ Len(live.frames) >= 1
      /\ live.frames[1].at = k /\ TypeOK
  BY TopFrame DEF KernelInv
<1>2. StackOK(live.frames, Asked(cpu, live), intr)
  BY DEF KernelInv, LiveInv
<1>3. ~PlainFrame(live.frames[1]) /\ k \notin Holders
  BY <1>1 DEF PlainFrame, Holders
<1>4. intr = FALSE /\ held["SCHED"] = FALSE
  <2>1. ~intr
    BY <1>1, <1>2, <1>3, OffOutsidePlain
  <2>2. ~Holding(live.frames)
    BY <1>1, <1>2, <1>3, HoldingTop
  <2>. QED
    BY <1>1, <2>1, <2>2 DEF KernelInv, HeldInv, TypeOK, Locks
<1>. DEFINE f == Frame("yield.lock", "SCHED", intr)
<1>5. f \in FrameType /\ f.at = "yield.lock" /\ ~f.was
  BY <1>4 DEF Frame, FrameType, Places, GuardedSteps, YieldSteps, Locks
<1>6. f.at \in YieldSteps /\ f.at \notin InitOrExit /\ ~PlainFrame(f) /\ f.at \notin Holders
  BY <1>5 DEF YieldSteps, InitOrExit, PlainFrame, Holders
<1>7. l \in Places /\ l \notin InitOrExit
  BY DEF Places, InitOrExit
<1>. HIDE DEF f
<1>8. /\ live' \in Context /\ live'.frames[1] = f
      /\ Len(live'.frames) = Len(live.frames) + 1
      /\ StackOK(live'.frames, Asked(cpu, live'), intr) /\ CallerInv'
  <2>1. GotoAndCall(l, f)
    BY DEF f
  <2>. QED
    BY <1>5, <1>6, <1>7, <2>1, CallStep
<1>9. ~Holding(live'.frames)
  BY <1>1, <1>6, <1>8, HoldingTop
<1>10. ~At("yield.switch")
  BY <1>1, AtFirst
<1>11. ~At("yield.switch")' /\ ~At("irq.eoi")'
  BY <1>5, <1>8, AtFirstNext
<1>12. TypeOK'
  BY <1>1, <1>8, TypesKept DEF TypeOK
<1>. QED
  BY <1>4, <1>8, <1>9, <1>10, <1>11, <1>12, RunningStep DEF schedVars

LEMMA ExitYieldInv ==
  ASSUME KernelInv, ExitYield
  PROVE  KernelInv'
<1>1. At("exit.yield") /\ TypeOK
  BY DEF ExitYield, KernelInv
<1>2. ~At("irq.eoi")
  BY <1>1, AtFirst
<1>3. isr = FALSE
  BY <1>1, <1>2 DEF KernelInv, TickInv, TypeOK
<1>. QED
  BY <1>1, <1>3, CallsYield DEF ExitYield

LEMMA TimerHandlerInv ==
  ASSUME KernelInv, TimerHandler
  PROVE  KernelInv'
BY CallsYield DEF TimerHandler

LEMMA TimerIrqInv ==
  ASSUME KernelInv, TimerIrq
  PROVE  KernelInv'
<1>1. /\ intr = TRUE /\ irr' = FALSE /\ isr' = TRUE /\ intr' = FALSE /\ TypeOK
      /\ UNCHANGED <<schedVars, cpu, held, parked>>
      /\ live \in Context /\ Len(live.frames) \in Nat
  BY FramesOfContext DEF TimerIrq, Deliverable, KernelInv, TypeOK
<1>2. StackOK(live.frames, Asked(cpu, live), intr)
  BY DEF KernelInv, LiveInv
<1>3. PlainFrom(live.frames, 1) /\ Asked(cpu, live)
  BY <1>1, <1>2 DEF StackOK
<1>. DEFINE f == Frame("irq.eoi", "SCHED", intr)
<1>4. f \in FrameType /\ f.at = "irq.eoi" /\ f.was
  BY <1>1 DEF Frame, FrameType, Places, GuardedSteps, YieldSteps, Locks
<1>5. live' = PushResult(live, f)
  BY DEF TimerIrq, RepeatWith, PushResult
<1>. HIDE DEF f
<1>6. /\ live' \in Context /\ live'.ip = live.ip /\ Len(live'.frames) = Len(live.frames) + 1
      /\ live'.frames[1] = f
      /\ \A i \in 2 .. Len(live.frames) + 1 : live'.frames[i] = live.frames[i - 1]
  BY <1>1, <1>4, <1>5, PushFrames
<1>7. PlainFrom(live'.frames, 2)
  BY <1>1, <1>3, <1>6 DEF PlainFrom
<1>8. StackOK(live'.frames, Asked(cpu, live'), intr')
  <2>1. InTick(live'.frames)
    BY <1>1, <1>4, <1>6, <1>7 DEF InTick
  <2>2. Asked(cpu, live')
    BY <1>3, <1>6 DEF Asked
  <2>. QED
    BY <1>1, <2>1, <2>2 DEF StackOK
<1>9. ~Holding(live.frames) /\ ~Holding(live'.frames)
  <2>1. ~Holding(live.frames)
    BY <1>3 DEF PlainFrom, PlainFrame, Holding, Holders
  <2>2. ~PlainFrame(live'.frames[1]) /\ live'.frames[1].at \notin Holders
    BY <1>4, <1>6 DEF PlainFrame, Holders
  <2>. QED
    BY <1>1, <1>6, <1>8, <2>1, <2>2, HoldingTop
<1>10. ~At("yield.switch")
  BY <1>1, <1>3, AtFirst DEF PlainFrom, PlainFrame
<1>11. ~At("yield.switch")' /\ At("irq.eoi")'
  BY <1>1, <1>4, <1>6, AtFirstNext
<1>12. CallerInv'
  <2>. SUFFICES ASSUME NEW i \in 1 .. Len(live'.frames)
                PROVE  live'.frames[i].at \in {"irq.eoi", "acquire", "release"}
    BY DEF CallerInv
  <2>. QED
    BY <1>1, <1>4, <1>6, <1>7 DEF PlainFrom, PlainFrame
<1>13. TypeOK'
  BY <1>1, <1>6, TypesKept DEF TypeOK
<1>. QED
  BY <1>1, <1>8, <1>9, <1>10, <1>11, <1>12, <1>13, RunningStep DEF KernelInv, HeldInv, schedVars

\* A step that changes neither a context, nor a flag, nor a lock, nor the scheduler.
LEMMA IdleStep ==
  ASSUME KernelInv, irr' \in BOOLEAN,
         UNCHANGED <<schedVars, cpu, intr, isr, held, live, parked>>
  PROVE  KernelInv'
<1>1. TypeOK'
  BY DEF KernelInv, TypeOK, schedVars
<1>2. LiveInv' /\ ParkedInv'
  BY DEF KernelInv, LiveInv, ParkedInv, ParkedOK, Asked, BodyOf, schedVars
<1>3. SwitchInv' /\ TickInv' /\ HeldInv' /\ CallerInv'
  BY DEF KernelInv, SwitchInv, TickInv, HeldInv, CallerInv, At, InBody, Top, schedVars
<1>. QED
  BY <1>1, <1>2, <1>3 DEF KernelInv

\* A call other than sti and cli leaves what the body asked for as it was.
LEMMA SameAsked ==
  ASSUME NEW t, NEW c \in Context, NEW d, d.ip = c.ip + 1,
         BodyOf(t)[c.ip] \notin {"sti", "cli"}
  PROVE  Asked(t, d) = Asked(t, c)
<1>1. AskedFor(BodyOf(t), c.ip + 1) <=> AskedFor(BodyOf(t), c.ip)
  BY AskedNext DEF Context
<1>2. AskedFor(BodyOf(t), c.ip + 1) \in BOOLEAN /\ AskedFor(BodyOf(t), c.ip) \in BOOLEAN
  BY AskedBoolean
<1>. QED
  BY <1>1, <1>2 DEF Asked

LEMMA MainNeverExits ==
  ASSUME cpu = Idle
  PROVE  ~Op("exit")
BY BodiesAssumption DEF Op, Program, BodyOf

LEMMA TasksNeverInit ==
  ASSUME TypeOK, cpu # Idle
  PROVE  ~Op("init")
<1>1. cpu \in 1 .. MaxTasks /\ inits \in 1 .. MaxInits
  BY KernelAssumption DEF TypeOK, Ids, Idle
<1>2. Program = Body[inits][cpu]
  BY DEF Program, BodyOf
<1>. QED
  BY <1>1, <1>2, BodiesAssumption DEF Op

LEMMA CallGuardedInv ==
  ASSUME KernelInv, NEW o \in GuardedOps, Op(o), CallGuarded(o)
  PROVE  KernelInv'
<1>1. /\ InBody /\ TypeOK /\ intr' = FALSE /\ BodyOf(cpu)[live.ip] = o
      /\ live' = [ip |-> live.ip + 1, frames |-> Guarded(o)]
      /\ UNCHANGED <<schedVars, cpu, irr, isr, held, parked>>
  BY DEF Op, CallGuarded, CallWith, KernelInv, Program
<1>2. live \in Context /\ intr = Asked(cpu, live) /\ intr \in BOOLEAN
  BY <1>1, InBodyFacts DEF TypeOK
<1>. DEFINE fs == Guarded(o)
<1>3. /\ fs \in Seq(FrameType) /\ Len(fs) \in Nat /\ InGuarded(fs, intr) /\ AtStart(fs)
      /\ \A i \in 1 .. Len(fs) :
           /\ fs[i].at \in {"init.lock", "init.install"} => o = "init"
           /\ fs[i].at \in {"exit.lock", "exit.mark"} => o = "exit"
  BY <1>2, GuardedStart
<1>4. live' = [ip |-> live.ip + 1, frames |-> fs]
  BY <1>1
<1>. HIDE DEF fs
<1>5. live' \in Context /\ live'.frames = fs /\ live'.ip = live.ip + 1
  BY <1>2, <1>3, <1>4, SetFrames
<1>6. o = "init" => cpu = Idle
  BY <1>1, TasksNeverInit
<1>7. o = "exit" => cpu # Idle
  BY MainNeverExits
<1>8. StackOK(fs, Asked(cpu, live'), intr')
  <2>1. o \notin {"sti", "cli"}
    BY DEF GuardedOps
  <2>2. Asked(cpu, live') = intr
    BY <1>1, <1>2, <1>5, <2>1, SameAsked
  <2>. QED
    BY <1>1, <1>3, <2>2 DEF StackOK
<1>9. TypeOK'
  BY <1>1, <1>5, TypesKept DEF TypeOK
<1>. QED
  BY <1>1, <1>3, <1>5, <1>6, <1>7, <1>8, <1>9, BodyEnters DEF schedVars

LEMMA CallPlainInv ==
  ASSUME KernelInv, NEW o \in {"print", "alloc"}, Op(o), CallPlain(o)
  PROVE  KernelInv'
<1>1. /\ InBody /\ TypeOK /\ BodyOf(cpu)[live.ip] = o
      /\ live' = [ip |-> live.ip + 1, frames |-> Plain(o)]
      /\ UNCHANGED <<schedVars, cpu, intr, irr, isr, held, parked>>
  BY DEF Op, CallPlain, CallWith, KernelInv, Program
<1>2. live \in Context /\ intr = Asked(cpu, live) /\ intr \in BOOLEAN
  BY <1>1, InBodyFacts DEF TypeOK
<1>. DEFINE fs == Plain(o)
<1>3. fs \in Seq(FrameType) /\ Len(fs) = 1 /\ PlainFrame(fs[1]) /\ AtStart(fs)
  BY PlainStart
<1>4. live' = [ip |-> live.ip + 1, frames |-> fs]
  BY <1>1
<1>. HIDE DEF fs
<1>5. live' \in Context /\ live'.frames = fs /\ live'.ip = live.ip + 1
  BY <1>2, <1>3, <1>4, SetFrames
<1>6. StackOK(fs, Asked(cpu, live'), intr')
  <2>1. Asked(cpu, live') = intr
    BY <1>1, <1>2, <1>5, SameAsked
  <2>. QED
    BY <1>1, <1>3, <2>1 DEF StackOK, PlainFrom
<1>7. TypeOK'
  BY <1>1, <1>5, TypesKept DEF TypeOK
<1>8. \A i \in 1 .. Len(fs) : fs[i].at \in {"acquire", "release"}
  BY <1>3 DEF PlainFrame
<1>9. \A i \in 1 .. Len(fs) :
        /\ fs[i].at \in {"init.lock", "init.install"} => cpu = Idle
        /\ fs[i].at \in {"exit.lock", "exit.mark"} => cpu # Idle
  BY <1>8
<1>. QED
  BY <1>1, <1>3, <1>5, <1>6, <1>7, <1>9, BodyEnters DEF schedVars

\* A step of a body that stays in the body, one call further.
LEMMA Advances ==
  ASSUME KernelInv, InBody, Advance, intr' \in BOOLEAN, intr' <=> Asked(cpu, live'),
         UNCHANGED <<schedVars, cpu, irr, isr, held, parked>>
  PROVE  KernelInv'
<1>1. /\ live \in Context /\ live.frames = <<>> /\ Len(live.frames) = 0 /\ TypeOK
      /\ live.ip + 1 \in Nat \ {0}
  BY InBodyFacts DEF KernelInv, Context
<1>2. live' \in Context /\ live'.frames = <<>> /\ live'.ip = live.ip + 1
  BY <1>1 DEF Advance, Context
<1>3. <<>> \in Seq(FrameType) /\ Len(<<>>) = 0
  OBVIOUS
<1>. DEFINE fs == <<>>
<1>4. fs \in Seq(FrameType) /\ Len(fs) = 0 /\ live'.frames = fs
  BY <1>2, <1>3
<1>. HIDE DEF fs
<1>5. StackOK(fs, Asked(cpu, live'), intr') /\ AtStart(fs)
  BY <1>4 DEF StackOK, PlainFrom, AtStart
<1>6. TypeOK'
  BY <1>1, <1>2, TypesKept DEF TypeOK
<1>7. \A i \in 1 .. Len(fs) :
        /\ fs[i].at \in {"init.lock", "init.install"} => cpu = Idle
        /\ fs[i].at \in {"exit.lock", "exit.mark"} => cpu # Idle
  BY <1>4
<1>. QED
  BY <1>4, <1>5, <1>6, <1>7, BodyEnters DEF schedVars

LEMMA SetIfInv ==
  ASSUME KernelInv, NEW o \in {"sti", "cli"}, Op(o), SetIf(o)
  PROVE  KernelInv'
<1>1. /\ InBody /\ Advance /\ BodyOf(cpu)[live.ip] = o /\ live \in Context
      /\ UNCHANGED <<schedVars, cpu, irr, isr, held, parked>>
  BY DEF Op, SetIf, KernelInv, TypeOK, Program
<1>2. intr' = (o = "sti") /\ intr' \in BOOLEAN
  BY DEF SetIf
<1>3. live'.ip = live.ip + 1 /\ live.ip \in Nat \ {0}
  BY <1>1 DEF Advance, Context
<1>4. intr' <=> Asked(cpu, live')
  <2>. DEFINE b == BodyOf(cpu)
  <2>1. /\ b[live.ip] = "sti" => AskedFor(b, live'.ip)
        /\ b[live.ip] = "cli" => ~AskedFor(b, live'.ip)
    <3>. HIDE DEF b
    <3>. QED
      BY <1>3, AskedNext
  <2>2. Asked(cpu, live') <=> AskedFor(b, live'.ip)
    BY DEF Asked
  <2>3. b[live.ip] = o
    BY <1>1
  <2>4. o = "sti" \/ (o = "cli" /\ o # "sti")
    OBVIOUS
  <2>. HIDE DEF b
  <2>. QED
    BY <1>2, <2>1, <2>2, <2>3, <2>4
<1>. QED
  BY <1>1, <1>2, <1>4, Advances

LEMMA RecordInv ==
  ASSUME KernelInv, NEW o \in {"emit", "set", "wait", "saw", "check"}, Op(o), Record(o)
  PROVE  KernelInv'
<1>1. /\ InBody /\ Advance /\ BodyOf(cpu)[live.ip] = o /\ live \in Context
      /\ UNCHANGED <<schedVars, cpu, intr, irr, isr, held, parked>>
  BY DEF Op, Record, KernelInv, TypeOK, Program
<1>2. live'.ip = live.ip + 1
  BY <1>1 DEF Advance, Context
<1>3. intr = Asked(cpu, live) /\ intr \in BOOLEAN
  BY <1>1, InBodyFacts DEF KernelInv, TypeOK
<1>4. Asked(cpu, live') = Asked(cpu, live)
  BY <1>1, <1>2, SameAsked
<1>5. intr' \in BOOLEAN /\ (intr' <=> Asked(cpu, live'))
  BY <1>1, <1>3, <1>4
<1>. QED
  BY <1>1, <1>5, Advances

LEMMA ShellCommandInv ==
  ASSUME KernelInv, Op("shell"), ShellCommand
  PROVE  KernelInv'
<1>1. /\ InBody /\ TypeOK /\ UNCHANGED <<schedVars, cpu, irr, isr, held, parked>>
      /\ intr' \in BOOLEAN
  BY DEF Op, ShellCommand, KernelInv, TypeOK
<1>2. live \in Context /\ intr = Asked(cpu, live) /\ intr \in BOOLEAN
  BY <1>1, InBodyFacts DEF TypeOK
<1>3. ASSUME NEW fs \in Seq(FrameType), RepeatWith(fs), AtStart(fs),
             StackOK(fs, Asked(cpu, live), intr'),
             \A i \in 1 .. Len(fs) : fs[i].at \notin InitOrExit
      PROVE  KernelInv'
  <2>1. live' = [live EXCEPT !.frames = fs]
    BY <1>3 DEF RepeatWith
  <2>2. live' \in Context /\ live'.frames = fs /\ live'.ip = live.ip
    BY <1>2, <2>1, SetFrames
  <2>3. StackOK(fs, Asked(cpu, live'), intr')
    BY <1>3, <2>2 DEF Asked
  <2>4. TypeOK'
    BY <1>1, <2>2, TypesKept DEF TypeOK
  <2>. QED
    BY <1>1, <1>3, <2>2, <2>3, <2>4, BodyEnters DEF schedVars, InitOrExit
<1>4. ASSUME NEW o \in {"stats", "snapshot"}, RepeatWith(Guarded(o)), intr' = FALSE
      PROVE  KernelInv'
  <2>. DEFINE fs == Guarded(o)
  <2>1. o \in GuardedOps /\ o # "init" /\ o # "exit"
    BY DEF GuardedOps
  <2>2. /\ fs \in Seq(FrameType) /\ Len(fs) \in Nat /\ InGuarded(fs, intr) /\ AtStart(fs)
        /\ \A i \in 1 .. Len(fs) :
             /\ fs[i].at \in {"init.lock", "init.install"} => o = "init"
             /\ fs[i].at \in {"exit.lock", "exit.mark"} => o = "exit"
    BY <1>2, <2>1, GuardedStart
  <2>3. RepeatWith(fs)
    BY <1>4
  <2>. HIDE DEF fs
  <2>4. StackOK(fs, Asked(cpu, live), intr')
    BY <1>2, <1>4, <2>2 DEF StackOK
  <2>5. \A i \in 1 .. Len(fs) : fs[i].at \notin InitOrExit
    BY <2>1, <2>2 DEF InitOrExit
  <2>. QED
    BY <1>3, <2>2, <2>3, <2>4, <2>5
<1>5. ASSUME NEW o \in {"print", "alloc"}, RepeatWith(Plain(o)), intr' = intr
      PROVE  KernelInv'
  <2>. DEFINE fs == Plain(o)
  <2>1. fs \in Seq(FrameType) /\ Len(fs) = 1 /\ PlainFrame(fs[1]) /\ AtStart(fs)
    BY PlainStart
  <2>2. RepeatWith(fs)
    BY <1>5
  <2>. HIDE DEF fs
  <2>3. StackOK(fs, Asked(cpu, live), intr')
    BY <1>2, <1>5, <2>1 DEF StackOK, PlainFrom
  <2>4. \A i \in 1 .. Len(fs) : fs[i].at \notin InitOrExit
    BY <2>1 DEF InitOrExit, PlainFrame
  <2>. QED
    BY <1>3, <2>1, <2>2, <2>3, <2>4
<1>. QED
  BY <1>4, <1>5 DEF ShellCommand

LEMMA BodyStepInv ==
  ASSUME KernelInv, BodyStep
  PROVE  KernelInv'
<1>1. CASE \E o \in GuardedOps : Op(o) /\ CallGuarded(o)
  BY <1>1, CallGuardedInv
<1>2. CASE \E o \in {"print", "alloc"} : Op(o) /\ CallPlain(o)
  BY <1>2, CallPlainInv
<1>3. CASE \E o \in {"sti", "cli"} : Op(o) /\ SetIf(o)
  BY <1>3, SetIfInv
<1>4. CASE \E o \in {"emit", "set", "wait", "saw", "check"} : Op(o) /\ Record(o)
  BY <1>4, RecordInv
<1>5. CASE Halt
  <2>1. irr' \in BOOLEAN
    BY <1>5 DEF Halt, KernelInv, TypeOK
  <2>. QED
    BY <1>5, <2>1, IdleStep DEF Halt
<1>6. CASE Op("shell") /\ ShellCommand
  BY <1>6, ShellCommandInv
<1>. QED
  BY <1>1, <1>2, <1>3, <1>4, <1>5, <1>6 DEF BodyStep

LEMMA KernelStepInv ==
  ASSUME KernelInv, KernelStep
  PROVE  KernelInv'
<1>1. CASE YieldLock
  BY <1>1, TakeSched DEF YieldLock
<1>2. CASE ExitLock
  BY <1>2, TakeSched DEF ExitLock
<1>3. CASE SnapshotLock
  BY <1>3, TakeSched DEF SnapshotLock
<1>4. CASE InitLock
  BY <1>4, TakeAndAllocate DEF InitLock
<1>5. CASE SpawnLock
  BY <1>5, TakeAndAllocate DEF SpawnLock
<1>6. CASE LockAcquire
  BY <1>6, LockAcquireInv
<1>7. CASE LockRelease
  BY <1>7, LockReleaseInv
<1>8. CASE Restore
  BY <1>8, RestoreInv
<1>9. CASE YieldPick
  BY <1>9, YieldPickInv
<1>10. CASE SwitchContext
  BY <1>10, SwitchContextInv
<1>11. CASE InitInstall
  BY <1>11, InitInstallInv
<1>12. CASE SpawnPush
  BY <1>12, SpawnPushInv
<1>13. CASE ExitMark
  BY <1>13, ExitMarkInv
<1>14. CASE ExitYield
  BY <1>14, ExitYieldInv
<1>15. CASE SnapshotCopy
  BY <1>15, SnapshotCopyInv
<1>16. CASE TimerHandler
  BY <1>16, TimerHandlerInv
<1>17. CASE Iret
  BY <1>17, IretInv
<1>. QED
  BY <1>1, <1>2, <1>3, <1>4, <1>5, <1>6, <1>7, <1>8, <1>9, <1>10, <1>11, <1>12, <1>13,
     <1>14, <1>15, <1>16, <1>17 DEF KernelStep

LEMMA NextInv ==
  ASSUME KernelInv, [Next]_vars
  PROVE  KernelInv'
<1>1. CASE CpuStep
  BY <1>1, BodyStepInv, KernelStepInv DEF CpuStep
<1>2. CASE TimerIrq
  BY <1>2, TimerIrqInv
<1>3. CASE TimerTick
  <2>1. TimerTick /\ irr' \in BOOLEAN
    BY <1>3 DEF TimerTick
  <2>. QED
    BY <2>1, IdleStep DEF TimerTick
<1>4. CASE OtherIrq \/ UNCHANGED vars
  <2>1. irr' \in BOOLEAN
    BY <1>4 DEF OtherIrq, vars, KernelInv, TypeOK
  <2>. QED
    BY <1>4, <2>1, IdleStep DEF OtherIrq, vars
<1>. QED
  BY <1>1, <1>2, <1>3, <1>4 DEF Next

\* The machine, the locks and every stack keep the shape the routines give them,
\* whatever the bodies call and whenever the timer fires.
THEOREM KernelInvHolds == Spec => []KernelInv
<1>1. Init => KernelInv
  BY InitInv
<1>2. KernelInv /\ [Next]_vars => KernelInv'
  BY NextInv
<1>. QED
  BY <1>1, <1>2, PTL DEF Spec

-----------------------------------------------------------------------------
(* What preempt and the tasks rely on.                                     *)

\* preempt, run by any tick, finds SCHED free and current naming the stack it is on.
THEOREM PreemptionSafeHolds == Spec => []PreemptionSafe
<1>1. ASSUME KernelInv PROVE PreemptionSafe
  <2>. SUFFICES ASSUME intr PROVE cpu = current /\ ~held["SCHED"]
    BY DEF PreemptionSafe
  <2>1. StackOK(live.frames, Asked(cpu, live), intr) /\ TypeOK
    BY <1>1 DEF KernelInv, LiveInv
  <2>2. PlainFrom(live.frames, 1)
    BY <2>1 DEF StackOK
  <2>3. ~At("yield.switch")
    BY <2>1, <2>2, AtFirst DEF PlainFrom, PlainFrame
  <2>4. ~Holding(live.frames)
    BY <2>2 DEF PlainFrom, PlainFrame, Holding, Holders
  <2>. QED
    BY <1>1, <2>3, <2>4 DEF KernelInv, SwitchInv, HeldInv
<1>. QED
  BY <1>1, KernelInvHolds, PTL

\* Back in its body a task has the IF that body asked for, whoever ran meanwhile.
THEOREM OwnInterruptFlagHolds == Spec => []OwnInterruptFlag
<1>1. KernelInv => OwnInterruptFlag
  BY InBodyFacts DEF OwnInterruptFlag, Asked, Program
<1>. QED
  BY <1>1, KernelInvHolds, PTL

\* No routine ever waits for SCHED: on the one core it is free whenever it is asked for.
SchedUncontended ==
  ~InBody /\ Top.at \in Locking /\ Top.lock = "SCHED" => ~held["SCHED"]

THEOREM SchedUncontendedHolds == Spec => []SchedUncontended
<1>1. ASSUME KernelInv PROVE SchedUncontended
  <2>. SUFFICES ASSUME ~InBody, Top.at \in Locking, Top.lock = "SCHED"
                PROVE  ~Holding(live.frames)
    BY <1>1 DEF SchedUncontended, KernelInv, HeldInv
  <2>1. /\ live \in Context /\ Len(live.frames) \in Nat /\ Len(live.frames) >= 1
        /\ Top = live.frames[1]
    BY <1>1, TopFrame DEF KernelInv, At
  <2>2. StackOK(live.frames, Asked(cpu, live), intr)
    BY <1>1 DEF KernelInv, LiveInv
  <2>3. ~PlainFrame(live.frames[1]) /\ live.frames[1].at \notin Holders
    BY <2>1 DEF PlainFrame, Locking, Holders
  <2>. QED
    BY <2>1, <2>2, <2>3, HoldingTop
<1>. QED
  BY <1>1, KernelInvHolds, PTL

-----------------------------------------------------------------------------
(* The switch carries nothing along, and no body runs a call twice.        *)

LEMMA SwitchFacts ==
  ASSUME KernelInv, SwitchContext
  PROVE  ~held["SCHED"] /\ ~isr /\ ~intr
<1>1. /\ At("yield.switch") /\ TypeOK /\ Len(live.frames) \in Nat
      /\ Len(live.frames) >= 1 /\ live.frames[1].at = "yield.switch"
  BY TopFrame DEF SwitchContext, KernelInv
<1>2. ~PlainFrame(live.frames[1]) /\ "yield.switch" \notin Holders
  BY <1>1 DEF PlainFrame, Holders
<1>3. StackOK(live.frames, Asked(cpu, live), intr)
  BY DEF KernelInv, LiveInv
<1>4. ~intr
  BY <1>1, <1>2, <1>3, OffOutsidePlain
<1>5. ~Holding(live.frames)
  BY <1>1, <1>2, <1>3, HoldingTop
<1>6. ~At("irq.eoi")
  BY <1>1, AtFirst
<1>. QED
  BY <1>4, <1>5, <1>6 DEF KernelInv, HeldInv, TickInv

\* Moving, calling and returning stay where the body stands; calls go one further.
LEMMA IpMoves ==
  ASSUME TypeOK
  PROVE  /\ \A l : Goto(l) => live'.ip >= live.ip
         /\ \A l, f : GotoAndCall(l, f) => live'.ip >= live.ip
         /\ Return => live'.ip >= live.ip
         /\ \A fs : RepeatWith(fs) => live'.ip >= live.ip
         /\ \A fs : CallWith(fs) => live'.ip >= live.ip
         /\ Advance => live'.ip >= live.ip
         /\ UNCHANGED live => live'.ip >= live.ip
<1>1. live.ip \in Nat /\ live \in Context
  BY DEF TypeOK, Context
<1>2. ASSUME NEW l, Goto(l) PROVE live'.ip = live.ip
  BY <1>1, <1>2 DEF Goto, Context
<1>3. ASSUME NEW l, NEW f, GotoAndCall(l, f) PROVE live'.ip = live.ip
  BY <1>1, <1>3 DEF GotoAndCall, Context
<1>4. ASSUME Return PROVE live'.ip = live.ip
  BY <1>1, <1>4 DEF Return, Context
<1>5. ASSUME NEW fs, RepeatWith(fs) PROVE live'.ip = live.ip
  BY <1>1, <1>5 DEF RepeatWith, Context
<1>6. ASSUME NEW fs, CallWith(fs) PROVE live'.ip = live.ip + 1
  BY <1>1, <1>6 DEF CallWith
<1>7. ASSUME Advance PROVE live'.ip = live.ip + 1
  BY <1>1, <1>7 DEF Advance, Context
<1>. QED
  BY <1>1, <1>2, <1>3, <1>4, <1>5, <1>6, <1>7

LEMMA BodyStepMoves ==
  ASSUME TypeOK, BodyStep
  PROVE  cpu' = cpu /\ live'.ip >= live.ip
<1>1. CASE \E o \in GuardedOps : Op(o) /\ CallGuarded(o)
  BY <1>1, IpMoves DEF CallGuarded
<1>2. CASE \E o \in {"print", "alloc"} : Op(o) /\ CallPlain(o)
  BY <1>2, IpMoves DEF CallPlain
<1>3. CASE \E o \in {"sti", "cli"} : Op(o) /\ SetIf(o)
  BY <1>3, IpMoves DEF SetIf
<1>4. CASE \E o \in {"emit", "set", "wait", "saw", "check"} : Op(o) /\ Record(o)
  BY <1>4, IpMoves DEF Record
<1>5. CASE Halt
  BY <1>5, IpMoves DEF Halt
<1>6. CASE ShellCommand
  BY <1>6, IpMoves DEF ShellCommand
<1>. QED
  BY <1>1, <1>2, <1>3, <1>4, <1>5, <1>6 DEF BodyStep

LEMMA KernelStepMoves ==
  ASSUME TypeOK, KernelStep, ~SwitchContext
  PROVE  cpu' = cpu /\ live'.ip >= live.ip
<1>1. CASE LockAcquire \/ YieldLock \/ YieldPick \/ InitInstall \/ SpawnPush \/ ExitLock
             \/ SnapshotLock \/ SnapshotCopy
  BY <1>1, IpMoves
     DEF LockAcquire, YieldLock, YieldPick, InitInstall, SpawnPush, ExitLock, SnapshotLock,
         SnapshotCopy
<1>2. CASE InitLock \/ SpawnLock \/ ExitMark \/ ExitYield \/ TimerHandler
  BY <1>2, IpMoves DEF InitLock, SpawnLock, ExitMark, ExitYield, TimerHandler
<1>3. CASE LockRelease \/ Restore \/ Iret
  BY <1>3, IpMoves DEF LockRelease, Restore, Iret
<1>. QED
  BY <1>1, <1>2, <1>3 DEF KernelStep

\* A switch happens with the guard dropped, the tick acknowledged and IF clear, and
\* only a switch takes the CPU back to an earlier place of a body.
THEOREM CleanSwitchHolds == Spec => CleanSwitch
<1>. DEFINE Clean == IF cpu' # cpu THEN ~held["SCHED"] /\ ~isr /\ ~intr
                     ELSE live'.ip >= live.ip
<1>1. ASSUME KernelInv, Next PROVE Clean
  <2>0. TypeOK
    BY <1>1 DEF KernelInv
  <2>1. CASE BodyStep
    BY <2>0, <2>1, BodyStepMoves
  <2>2. CASE KernelStep /\ ~SwitchContext
    BY <2>0, <2>2, KernelStepMoves
  <2>3. CASE SwitchContext
    <3>1. cpu' # cpu
      <4>1. At("yield.switch") /\ cpu' = current
        BY <2>3 DEF SwitchContext
      <4>. QED
        BY <1>1, <4>1 DEF KernelInv, SwitchInv
    <3>. QED
      BY <1>1, <2>3, <3>1, SwitchFacts
  <2>4. CASE TimerIrq
    BY <2>0, <2>4, IpMoves DEF TimerIrq
  <2>5. CASE TimerTick \/ OtherIrq
    BY <2>0, <2>5, IpMoves DEF TimerTick, OtherIrq
  <2>. QED
    BY <1>1, <2>1, <2>2, <2>3, <2>4, <2>5 DEF Next, CpuStep
<1>2. KernelInv /\ [Next]_vars => [Clean]_vars
  BY <1>1
<1>3. CleanSwitch <=> [][Clean]_vars
  BY DEF CleanSwitch
<1>. QED
  BY <1>2, <1>3, KernelInvHolds, PTL DEF Spec

-----------------------------------------------------------------------------
(* Implementation of Scheduler: the pick is YieldNow or TaskExit, the      *)
(* critical sections of init and spawn are Reinit and Spawn, and every     *)
(* other step of the machine is a stutter.                                 *)

\* tasks[i].state as Scheduler sees it.
Seen == [state EXCEPT ![current] = "running"]

LEMMA AbsInit ==
  ASSUME Init
  PROVE  Abs!Init
<1>1. [state EXCEPT ![current] = "running"] = Abs!WithIdle
  BY KernelAssumption DEF Init, WithIdle, Ids, Idle, Abs!WithIdle, Abs!Ids, Abs!Idle
<1>. QED
  BY <1>1 DEF Init, Abs!Init, Idle, Abs!Idle

LEMMA AbsStutter ==
  ASSUME UNCHANGED schedVars
  PROVE  UNCHANGED Abs!vars
BY DEF schedVars, Abs!vars

LEMMA AbsExitMark ==
  ASSUME KernelInv, ExitMark
  PROVE  UNCHANGED Abs!vars
<1>1. /\ state' = [state EXCEPT ![current] = "finished"] /\ current' = current
      /\ UNCHANGED <<count, ready, inits>>
  BY DEF ExitMark
<1>2. /\ state \in [Ids -> {"absent", "ready", "running", "finished"}]
      /\ current \in Ids
  BY KernelAssumption DEF KernelInv, TypeOK, Ids
<1>3. Seen' = Seen
  BY <1>1, <1>2 DEF Seen
<1>. QED
  BY <1>1, <1>3 DEF Seen, Abs!vars

LEMMA AbsReinit ==
  ASSUME KernelInv, InitInstall
  PROVE  Abs!Reinit
<1>1. /\ inits < MaxInits /\ state' = WithIdle /\ count' = 1 /\ ready' = <<>>
      /\ current' = Idle /\ inits' = inits + 1
  BY DEF InitInstall
<1>2. current = Idle
  BY InitInstallInv
<1>3. Seen' = WithIdle
  BY <1>1, KernelAssumption DEF Seen, WithIdle, Ids, Idle
<1>4. WithIdle = Abs!WithIdle
  BY DEF WithIdle, Abs!WithIdle, Ids, Abs!Ids, Idle, Abs!Idle
<1>. QED
  BY <1>1, <1>2, <1>3, <1>4 DEF Seen, Abs!Reinit, Idle, Abs!Idle

LEMMA AbsSpawn ==
  ASSUME KernelInv, SpawnPush
  PROVE  Abs!Spawn
<1>1. /\ count <= MaxTasks /\ state' = [state EXCEPT ![count] = "ready"]
      /\ ready' = Append(ready, count) /\ count' = count + 1
      /\ UNCHANGED <<current, inits>>
  BY DEF SpawnPush
<1>2. /\ state \in [Ids -> {"absent", "ready", "running", "finished"}]
      /\ current \in Ids /\ count \in Ids /\ current # count
  BY <1>1, KernelAssumption DEF KernelInv, TypeOK, Ids
<1>3. Seen' = [Seen EXCEPT ![count] = "ready"]
  BY <1>1, <1>2 DEF Seen
<1>. QED
  BY <1>1, <1>3 DEF Seen, Abs!Spawn

\* The pick of another task: the outgoing one exits if it marked itself finished.
LEMMA AbsPick ==
  ASSUME KernelInv, YieldPick, Chosen # current
  PROVE  Abs!YieldNow \/ Abs!TaskExit
<1>1. /\ ready' = IF Requeues THEN Append(Rest, current) ELSE Rest
      /\ state' = [(IF Requeues THEN [state EXCEPT ![current] = "ready"] ELSE state)
                    EXCEPT ![Chosen] = "running"]
      /\ current' = Chosen /\ UNCHANGED <<count, inits>>
  BY DEF YieldPick, Choose
<1>2. /\ state \in [Ids -> {"absent", "ready", "running", "finished"}]
      /\ state[Idle] = "running" /\ current \in Ids /\ Idle \in Ids
  BY KernelAssumption DEF KernelInv, TypeOK, Ids, Idle
<1>3. Chosen \in Ids
  <2>1. CASE ready = <<>>
    BY <1>2, <2>1 DEF Chosen
  <2>2. CASE ready # <<>>
    <3>1. ready \in Seq(1 .. count - 1) /\ 1 .. count - 1 \subseteq Ids
      BY KernelAssumption DEF KernelInv, TypeOK, Ids
    <3>2. Head(ready) \in 1 .. count - 1
      BY <2>2, <3>1, HeadTailProperties
    <3>. QED
      BY <2>2, <3>1, <3>2 DEF Chosen
  <2>. QED
    BY <2>1, <2>2
<1>4. Abs!Chosen = Chosen /\ Abs!Rest = Rest /\ Abs!Idle = Idle
  BY DEF Chosen, Abs!Chosen, Rest, Abs!Rest, Idle, Abs!Idle
<1>5. CASE current = Idle
  <2>1. ~Requeues
    BY <1>5 DEF Requeues
  <2>2. state' = [state EXCEPT ![Chosen] = "running"] /\ ready' = Rest
    BY <1>1, <2>1
  <2>3. Seen = state
    BY <1>2, <1>5 DEF Seen
  <2>4. Seen' = [Seen EXCEPT ![Chosen] = "running"]
    BY <1>1, <1>2, <1>3, <2>2, <2>3 DEF Seen
  <2>5. Abs!Parked = Seen /\ Abs!Requeued = Rest
    BY <1>4, <1>5 DEF Abs!Parked, Abs!Requeued, Seen
  <2>6. Abs!YieldNow
    BY <1>1, <1>4, <2>2, <2>4, <2>5 DEF Abs!YieldNow, Seen
  <2>. QED
    BY <2>6
<1>6. CASE current # Idle /\ state[current] # "finished"
  <2>1. Requeues
    BY <1>6 DEF Requeues
  <2>2. /\ state' = [[state EXCEPT ![current] = "ready"] EXCEPT ![Chosen] = "running"]
        /\ ready' = Append(Rest, current)
    BY <1>1, <2>1
  <2>3. Seen' = [[Seen EXCEPT ![current] = "ready"] EXCEPT ![Chosen] = "running"]
    BY <1>1, <1>2, <1>3, <2>2 DEF Seen
  <2>4. Abs!Parked = [Seen EXCEPT ![current] = "ready"] /\ Abs!Requeued = Append(Rest, current)
    BY <1>4, <1>6 DEF Abs!Parked, Abs!Requeued, Seen
  <2>5. Abs!YieldNow
    BY <1>1, <1>4, <2>2, <2>3, <2>4 DEF Abs!YieldNow, Seen
  <2>. QED
    BY <2>5
<1>7. CASE current # Idle /\ state[current] = "finished"
  <2>1. ~Requeues
    BY <1>7 DEF Requeues
  <2>2. state' = [state EXCEPT ![Chosen] = "running"] /\ ready' = Rest
    BY <1>1, <2>1
  <2>3. Seen' = [Seen EXCEPT ![current] = "finished", ![Chosen] = "running"]
    BY <1>1, <1>2, <1>3, <1>7, <2>2 DEF Seen
  <2>4. Abs!TaskExit
    BY <1>1, <1>4, <1>7, <2>2, <2>3 DEF Abs!TaskExit, Seen
  <2>. QED
    BY <2>4
<1>. QED
  BY <1>5, <1>6, <1>7

LEMMA BodyStepStutters ==
  ASSUME BodyStep
  PROVE  UNCHANGED schedVars
<1>1. CASE \E o \in GuardedOps : Op(o) /\ CallGuarded(o)
  BY <1>1 DEF CallGuarded
<1>2. CASE \E o \in {"print", "alloc"} : Op(o) /\ CallPlain(o)
  BY <1>2 DEF CallPlain
<1>3. CASE \E o \in {"sti", "cli"} : Op(o) /\ SetIf(o)
  BY <1>3 DEF SetIf
<1>4. CASE \E o \in {"emit", "set", "wait", "saw", "check"} : Op(o) /\ Record(o)
  BY <1>4 DEF Record
<1>5. CASE Halt \/ ShellCommand
  BY <1>5 DEF Halt, ShellCommand
<1>. QED
  BY <1>1, <1>2, <1>3, <1>4, <1>5 DEF BodyStep

LEMMA AbsNext ==
  ASSUME KernelInv, Next
  PROVE  Abs!Next \/ UNCHANGED Abs!vars
<1>1. CASE InitInstall
  BY <1>1, AbsReinit DEF Abs!Next
<1>2. CASE SpawnPush
  BY <1>2, AbsSpawn DEF Abs!Next
<1>3. CASE ExitMark
  BY <1>3, AbsExitMark
<1>4. CASE YieldPick
  <2>1. CASE Chosen = current
    BY <1>4, <2>1, AbsStutter DEF YieldPick
  <2>2. CASE Chosen # current
    BY <1>4, <2>2, AbsPick DEF Abs!Next
  <2>. QED
    BY <2>1, <2>2
<1>5. CASE LockAcquire \/ LockRelease \/ Restore \/ YieldLock \/ SwitchContext \/ InitLock
             \/ SpawnLock \/ ExitLock
  BY <1>5, AbsStutter
     DEF LockAcquire, LockRelease, Restore, YieldLock, SwitchContext, InitLock, SpawnLock,
         ExitLock
<1>6. CASE ExitYield \/ SnapshotLock \/ SnapshotCopy \/ TimerHandler \/ Iret \/ TimerIrq
             \/ TimerTick \/ OtherIrq
  BY <1>6, AbsStutter
     DEF ExitYield, SnapshotLock, SnapshotCopy, TimerHandler, Iret, TimerIrq, TimerTick,
         OtherIrq
<1>7. CASE BodyStep
  BY <1>7, BodyStepStutters, AbsStutter
<1>. QED
  BY <1>1, <1>2, <1>3, <1>4, <1>5, <1>6, <1>7
     DEF Next, CpuStep, KernelStep

\* Opened up into flag, locks, stacks, ticks and switches, the scheduler still does
\* only what Scheduler does in single steps.
THEOREM ImplementsSchedulerHolds == Spec => ImplementsScheduler
<1>1. Init => Abs!Init
  BY AbsInit
<1>2. KernelInv /\ [Next]_vars => [Abs!Next]_Abs!vars
  <2>1. ASSUME KernelInv, UNCHANGED vars PROVE UNCHANGED Abs!vars
    BY <2>1, AbsStutter DEF vars
  <2>. QED
    BY <2>1, AbsNext
<1>. QED
  BY <1>1, <1>2, KernelInvHolds, PTL DEF Spec, Abs!Spec, ImplementsScheduler

-----------------------------------------------------------------------------
(* What is proved of Scheduler holds of the kernel.                        *)

\* The theorems about Scheduler; RoundRobin's history variable plays no part in them.
Promised == INSTANCE SchedulerProofs
              WITH state <- [state EXCEPT ![current] = "running"],
                   waited <- [t \in Ids |-> 0]

LEMMA SamePromise == Abs!Spec => Promised!Spec
<1>1. Abs!Init <=> Promised!Init
  BY DEF Abs!Init, Promised!Init, Abs!WithIdle, Promised!WithIdle, Abs!Ids, Promised!Ids,
         Abs!Idle, Promised!Idle
<1>2. Abs!vars = Promised!vars
  BY DEF Abs!vars, Promised!vars
<1>3. Abs!Next <=> Promised!Next
  <2>1. Abs!Reinit <=> Promised!Reinit
    BY DEF Abs!Reinit, Promised!Reinit, Abs!WithIdle, Promised!WithIdle, Abs!Ids, Promised!Ids,
           Abs!Idle, Promised!Idle
  <2>2. Abs!Spawn <=> Promised!Spawn
    BY DEF Abs!Spawn, Promised!Spawn
  <2>3. Abs!Chosen = Promised!Chosen /\ Abs!Rest = Promised!Rest /\ Abs!Idle = Promised!Idle
    BY DEF Abs!Chosen, Promised!Chosen, Abs!Rest, Promised!Rest, Abs!Idle, Promised!Idle
  <2>4. Abs!Parked = Promised!Parked /\ Abs!Requeued = Promised!Requeued
    BY <2>3 DEF Abs!Parked, Promised!Parked, Abs!Requeued, Promised!Requeued
  <2>5. Abs!YieldNow <=> Promised!YieldNow
    BY <2>3, <2>4 DEF Abs!YieldNow, Promised!YieldNow
  <2>6. Abs!TaskExit <=> Promised!TaskExit
    BY <2>3 DEF Abs!TaskExit, Promised!TaskExit
  <2>. QED
    BY <2>1, <2>2, <2>5, <2>6 DEF Abs!Next, Promised!Next
<1>4. [Abs!Next]_Abs!vars => [Promised!Next]_Promised!vars
  BY <1>2, <1>3 DEF Abs!vars, Promised!vars
<1>. QED
  BY <1>1, <1>4, PTL DEF Abs!Spec, Promised!Spec

\* Between any two instructions of the kernel the run queue and the task table agree:
\* no parked task is forgotten, none queued twice, and no finished one waits.
THEOREM KernelQueueInv == Spec => []Abs!QueueInv
<1>1. Promised!Spec => []Promised!QueueInv
  BY KernelAssumption, Promised!SchedulerQueueInv
<1>2. Promised!QueueInv => Abs!QueueInv
  BY DEF Abs!QueueInv, Promised!QueueInv, Abs!NoDuplicates, Promised!NoDuplicates,
         Abs!QueueIsReadySet, Promised!QueueIsReadySet, Abs!OneRunning, Promised!OneRunning,
         Abs!Contiguous, Promised!Contiguous, Abs!InQueue, Promised!InQueue,
         Abs!Ids, Promised!Ids, Abs!Idle, Promised!Idle
<1>. QED
  BY <1>1, <1>2, SamePromise, ImplementsSchedulerHolds, PTL DEF ImplementsScheduler

\* A task that finished is never switched to again, however ticks and exits interleave.
THEOREM KernelFinishedForever == Spec => Abs!FinishedForever
<1>1. Promised!Spec => Promised!FinishedForever
  BY KernelAssumption, Promised!SchedulerFinishedForever
<1>2. Promised!FinishedForever => Abs!FinishedForever
  BY DEF Abs!FinishedForever, Promised!FinishedForever, Abs!vars, Promised!vars, Abs!Ids,
         Promised!Ids
<1>. QED
  BY <1>1, <1>2, SamePromise, ImplementsSchedulerHolds, PTL DEF ImplementsScheduler

-----------------------------------------------------------------------------
(* Which call of its body a context is in: the frame at the bottom.        *)

Bottom(s) == s[Len(s)].at

\* c is in a call that stands at one of S.
Under(c, S) == c.frames # <<>> /\ Bottom(c.frames) \in S

Routine(o) ==
  CASE o = "yield" -> {"yield.lock", "yield.pick", "yield.switch"}
    [] o = "spawn" -> {"spawn.lock", "spawn.push"}
    [] o = "init"  -> {"init.lock", "init.install"}
    [] o = "exit"  -> {"exit.lock", "exit.mark", "exit.yield", "dead"}
Routines == {"yield", "spawn", "init", "exit"}

\* A step of the top frame from k to l: what it means for the bottom one.
Passes(k, l, S) ==
  IF Len(live.frames) = 1 THEN (Under(live, S) <=> k \in S) /\ (Under(live', S) <=> l \in S)
                          ELSE Under(live', S) <=> Under(live, S)

\* t is s with a frame on top.
Pushed(s, t) == Len(t) = Len(s) + 1 /\ \A i \in 2 .. Len(s) + 1 : t[i] = s[i - 1]

\* A stack that moved, called, returned or was interrupted keeps its bottom.
LEMMA BottomKept ==
  ASSUME NEW s, NEW t, Len(s) \in Nat
  PROVE  /\ Len(s) # 1 /\ (Moved(s, t) \/ Called(s, t) \/ Left(s, t))
              => t[Len(t)] = s[Len(s)]
         /\ Len(s) # 0 /\ Pushed(s, t) => t[Len(t)] = s[Len(s)]
<1>. DEFINE n == Len(s)
<1>1. ASSUME n # 1, Moved(s, t) PROVE t[Len(t)] = s[n]
  <2>1. n >= 1 /\ Len(t) = n
    BY <1>1 DEF Moved
  <2>2. n \in 2 .. n
    BY <1>1, <2>1
  <2>. QED
    BY <1>1, <2>1, <2>2 DEF Moved
<1>2. ASSUME n # 1, Called(s, t) PROVE t[Len(t)] = s[n]
  <2>1. n >= 1 /\ Len(t) = n + 1
    BY <1>2 DEF Called
  <2>2. n + 1 \in 3 .. n + 1 /\ n + 1 - 1 = n
    BY <1>2, <2>1
  <2>. QED
    BY <1>2, <2>1, <2>2 DEF Called
<1>3. ASSUME n # 1, Left(s, t) PROVE t[Len(t)] = s[n]
  <2>1. n >= 1 /\ Len(t) = n - 1
    BY <1>3 DEF Left
  <2>2. n - 1 \in 1 .. n - 1 /\ n - 1 + 1 = n
    BY <1>3, <2>1
  <2>. QED
    BY <1>3, <2>1, <2>2 DEF Left
<1>4. ASSUME n # 0, Pushed(s, t) PROVE t[Len(t)] = s[n]
  <2>1. Len(t) = n + 1 /\ n + 1 \in 2 .. n + 1 /\ n + 1 - 1 = n
    BY <1>4 DEF Pushed
  <2>. QED
    BY <1>4, <2>1 DEF Pushed
<1>. QED
  BY <1>1, <1>2, <1>3, <1>4

LEMMA NotEmpty ==
  ASSUME NEW c \in Context
  PROVE  c.frames = <<>> <=> Len(c.frames) = 0
BY FramesOfContext

LEMMA SameBottom ==
  ASSUME NEW c, NEW d, NEW S, c.frames # <<>>, d.frames # <<>>,
         d.frames[Len(d.frames)].at = c.frames[Len(c.frames)].at
  PROVE  Under(d, S) <=> Under(c, S)
BY DEF Under, Bottom

LEMMA OnlyBottom ==
  ASSUME NEW c, NEW S, c.frames # <<>>, Len(c.frames) = 1
  PROVE  Under(c, S) <=> c.frames[1].at \in S
BY DEF Under, Bottom

LEMMA GotoPasses ==
  ASSUME TypeOK, NEW k, At(k), NEW l \in Places, Goto(l), NEW S
  PROVE  /\ live'.ip = live.ip /\ live' \in Context /\ live'.frames # <<>>
         /\ live'.frames[1].at = l /\ Len(live'.frames) = Len(live.frames)
         /\ Passes(k, l, S)
<1>1. /\ live \in Context /\ live.frames # <<>> /\ Len(live.frames) \in Nat
      /\ Len(live.frames) >= 1 /\ live.frames[1].at = k
  BY TopFrame
<1>2. /\ live' \in Context /\ live'.ip = live.ip /\ Len(live'.frames) = Len(live.frames)
      /\ live'.frames[1].at = l
      /\ live'.frames[1].lock = live.frames[1].lock /\ live'.frames[1].was = live.frames[1].was
      /\ \A i \in 2 .. Len(live.frames) : live'.frames[i] = live.frames[i]
  BY <1>1, GotoFrames DEF Goto
<1>3. live'.frames # <<>>
  BY <1>1, <1>2, FramesOfContext
<1>4. CASE Len(live.frames) = 1
  <2>1. (Under(live, S) <=> k \in S) /\ (Under(live', S) <=> l \in S)
    BY <1>1, <1>2, <1>3, <1>4, OnlyBottom
  <2>. QED
    BY <1>2, <1>3, <1>4, <2>1 DEF Passes
<1>5. CASE Len(live.frames) # 1
  <2>0. Moved(live.frames, live'.frames)
    BY <1>1, <1>2 DEF Moved
  <2>1. live'.frames[Len(live'.frames)] = live.frames[Len(live.frames)]
    BY <1>1, <1>5, <2>0, BottomKept
  <2>2. Under(live', S) <=> Under(live, S)
    BY <1>1, <1>3, <2>1, SameBottom
  <2>. QED
    BY <1>2, <1>3, <1>5, <2>2 DEF Passes
<1>. QED
  BY <1>4, <1>5

LEMMA CallPasses ==
  ASSUME TypeOK, NEW k, At(k), NEW l \in Places, NEW f \in FrameType, GotoAndCall(l, f), NEW S
  PROVE  /\ live'.ip = live.ip /\ live' \in Context /\ live'.frames # <<>>
         /\ live'.frames[1] = f /\ Len(live'.frames) = Len(live.frames) + 1
         /\ Passes(k, l, S)
<1>1. /\ live \in Context /\ live.frames # <<>> /\ Len(live.frames) \in Nat
      /\ Len(live.frames) >= 1 /\ live.frames[1].at = k /\ Top = Head(live.frames)
  BY TopFrame DEF Top
<1>2. live' = CallResult(live, l, f)
  BY <1>1 DEF GotoAndCall, CallResult
<1>3. /\ live' \in Context /\ live'.ip = live.ip
      /\ Len(live'.frames) = Len(live.frames) + 1 /\ live'.frames[1] = f
      /\ live'.frames[2].at = l
      /\ live'.frames[2].lock = live.frames[1].lock /\ live'.frames[2].was = live.frames[1].was
      /\ \A i \in 3 .. Len(live.frames) + 1 : live'.frames[i] = live.frames[i - 1]
  BY <1>1, <1>2, CallFrames
<1>4. live'.frames # <<>>
  BY <1>1, <1>3, FramesOfContext
<1>5. CASE Len(live.frames) = 1
  <2>1. Len(live'.frames) = 2 /\ live'.frames[Len(live'.frames)].at = l
    BY <1>3, <1>5
  <2>2. (Under(live, S) <=> k \in S) /\ (Under(live', S) <=> l \in S)
    BY <1>1, <1>4, <1>5, <2>1, OnlyBottom DEF Under, Bottom
  <2>. QED
    BY <1>3, <1>4, <1>5, <2>2 DEF Passes
<1>6. CASE Len(live.frames) # 1
  <2>0. Called(live.frames, live'.frames)
    BY <1>1, <1>3 DEF Called
  <2>1. live'.frames[Len(live'.frames)] = live.frames[Len(live.frames)]
    BY <1>1, <1>6, <2>0, BottomKept
  <2>4. Under(live', S) <=> Under(live, S)
    BY <1>1, <1>4, <2>1, SameBottom
  <2>. QED
    BY <1>3, <1>4, <1>6, <2>4 DEF Passes
<1>. QED
  BY <1>5, <1>6

\* Whatever S holds, it holds no place for the body itself.
LEMMA ReturnPasses ==
  ASSUME TypeOK, NEW k, At(k), Return, NEW S
  PROVE  /\ live'.ip = live.ip /\ live' \in Context
         /\ Len(live'.frames) = Len(live.frames) - 1
         /\ Len(live.frames) = 1 => (Under(live, S) <=> k \in S) /\ ~Under(live', S)
         /\ Len(live.frames) # 1 => (Under(live', S) <=> Under(live, S))
<1>1. /\ live \in Context /\ live.frames # <<>> /\ Len(live.frames) \in Nat
      /\ Len(live.frames) >= 1 /\ live.frames[1].at = k
  BY TopFrame
<1>2. /\ live' \in Context /\ live'.ip = live.ip
      /\ Len(live'.frames) = Len(live.frames) - 1
      /\ \A i \in 1 .. Len(live.frames) - 1 : live'.frames[i] = live.frames[i + 1]
  BY <1>1, ReturnFrames DEF Return
<1>3. live'.frames = <<>> <=> Len(live.frames) = 1
  <2>1. live'.frames = <<>> <=> Len(live'.frames) = 0
    BY <1>2, NotEmpty
  <2>. QED
    BY <1>1, <1>2, <2>1
<1>4. CASE Len(live.frames) = 1
  <2>1. Under(live, S) <=> k \in S
    BY <1>1, <1>4, OnlyBottom
  <2>. QED
    BY <1>2, <1>3, <1>4, <2>1 DEF Under
<1>5. CASE Len(live.frames) # 1
  <2>0. Left(live.frames, live'.frames)
    BY <1>1, <1>2 DEF Left
  <2>1. live'.frames[Len(live'.frames)] = live.frames[Len(live.frames)]
    BY <1>1, <1>5, <2>0, BottomKept
  <2>4. Under(live', S) <=> Under(live, S)
    BY <1>1, <1>3, <1>5, <2>1, SameBottom
  <2>. QED
    BY <1>2, <1>5, <2>4
<1>. QED
  BY <1>4, <1>5

\* A tick puts its frame on top.
LEMMA TickPasses ==
  ASSUME KernelInv, TimerIrq, NEW S, "irq.eoi" \notin S
  PROVE  /\ live'.ip = live.ip /\ live' \in Context /\ (Under(live', S) <=> Under(live, S))
         /\ Len(live'.frames) = Len(live.frames) + 1 /\ live'.frames[1].at = "irq.eoi"
         /\ live.frames = <<>> \/ PlainFrame(live.frames[1])
<1>. DEFINE f == Frame("irq.eoi", "SCHED", intr)
<1>1. live \in Context /\ Len(live.frames) \in Nat /\ intr = TRUE
  BY FramesOfContext DEF KernelInv, TypeOK, TimerIrq, Deliverable
<1>2. f \in FrameType /\ f.at = "irq.eoi"
  BY <1>1 DEF Frame, FrameType, Places, GuardedSteps, YieldSteps, Locks
<1>3. live' = PushResult(live, f)
  BY DEF TimerIrq, RepeatWith, PushResult
<1>. HIDE DEF f
<1>4. /\ live' \in Context /\ live'.ip = live.ip /\ Len(live'.frames) = Len(live.frames) + 1
      /\ live'.frames[1] = f
      /\ \A i \in 2 .. Len(live.frames) + 1 : live'.frames[i] = live.frames[i - 1]
  BY <1>1, <1>2, <1>3, PushFrames
<1>5. live.frames = <<>> <=> Len(live.frames) = 0
  BY <1>1, NotEmpty
<1>6. live'.frames # <<>>
  BY <1>1, <1>4, FramesOfContext
<1>7. Under(live', S) <=> Under(live, S)
  <2>1. CASE Len(live.frames) = 0
    <3>1. Len(live'.frames) = 1 /\ live'.frames[1].at = "irq.eoi"
      BY <1>2, <1>4, <2>1
    <3>. QED
      BY <1>5, <1>6, <2>1, <3>1, OnlyBottom DEF Under
  <2>2. CASE Len(live.frames) # 0
    <3>0. Pushed(live.frames, live'.frames)
      BY <1>1, <1>4 DEF Pushed
    <3>1. live'.frames[Len(live'.frames)] = live.frames[Len(live.frames)]
      BY <1>1, <2>2, <3>0, BottomKept
    <3>. QED
      BY <1>5, <1>6, <2>2, <3>1, SameBottom
  <2>. QED
    BY <2>1, <2>2
<1>8. PlainFrom(live.frames, 1)
  BY <1>1 DEF KernelInv, LiveInv, StackOK
<1>. QED
  BY <1>1, <1>2, <1>4, <1>5, <1>7, <1>8 DEF PlainFrom

\* The places that name one routine, and those behind task_exit's mark.
Marks == {Routine(o) : o \in Routines} \cup {{"exit.yield", "dead"}}

\* The steps that leave the scheduler and the contexts that do not run alone, and stay
\* in the call they are in.
QuietStep ==
  \/ LockAcquire \/ LockRelease \/ Restore \/ YieldLock \/ InitLock \/ SpawnLock \/ ExitLock
  \/ ExitYield \/ SnapshotLock \/ SnapshotCopy \/ TimerHandler \/ Iret

LEMMA MarksKept ==
  ASSUME NEW S \in Marks
  PROVE  /\ S \subseteq Places /\ "irq.eoi" \notin S
         /\ \A k \in {"acquire", "release", "restore", "iret", "snapshot.lock",
                      "snapshot.copy", "irq.eoi"} : k \notin S
         /\ "yield.lock" \in S <=> "yield.pick" \in S
         /\ "yield.pick" \in S <=> "yield.switch" \in S
         /\ "init.lock" \in S <=> "init.install" \in S
         /\ "spawn.lock" \in S <=> "spawn.push" \in S
         /\ "exit.lock" \in S <=> "exit.mark" \in S
         /\ "exit.yield" \in S <=> "dead" \in S
<1>1. \A o \in Routines : S = Routine(o) =>
         /\ S \subseteq Places /\ "irq.eoi" \notin S
         /\ \A k \in {"acquire", "release", "restore", "iret", "snapshot.lock",
                      "snapshot.copy", "irq.eoi"} : k \notin S
         /\ "yield.lock" \in S <=> "yield.pick" \in S
         /\ "yield.pick" \in S <=> "yield.switch" \in S
         /\ "init.lock" \in S <=> "init.install" \in S
         /\ "spawn.lock" \in S <=> "spawn.push" \in S
         /\ "exit.lock" \in S <=> "exit.mark" \in S
         /\ "exit.yield" \in S <=> "dead" \in S
  BY DEF Routines, Routine, Places, GuardedSteps, YieldSteps
<1>2. S = {"exit.yield", "dead"} \/ \E o \in Routines : S = Routine(o)
  BY DEF Marks
<1>3. {"exit.yield", "dead"} \subseteq Places
  BY DEF Places, GuardedSteps, YieldSteps
<1>. QED
  BY <1>1, <1>2, <1>3

LEMMA QuietUnder ==
  ASSUME KernelInv, QuietStep, NEW S \in Marks
  PROVE  /\ UNCHANGED <<schedVars, cpu, parked, testVars>>
         /\ live'.ip = live.ip /\ live' \in Context /\ (Under(live', S) <=> Under(live, S))
<1>0. TypeOK
  BY DEF KernelInv
<1>1. Places = {"yield.lock", "yield.pick", "yield.switch", "restore", "init.lock",
                "init.install", "spawn.lock", "spawn.push", "exit.lock", "exit.mark",
                "exit.yield", "snapshot.lock", "snapshot.copy", "acquire", "release", "dead",
                "irq.eoi", "iret"}
  BY DEF Places, GuardedSteps, YieldSteps
<1>. DEFINE Kept == live'.ip = live.ip /\ live' \in Context /\ (Under(live', S) <=> Under(live, S))
<1>2. ASSUME NEW k, NEW l \in Places, At(k), Goto(l), k \in S <=> l \in S
      PROVE  Kept
  BY <1>0, <1>2, GotoPasses DEF Passes
<1>3. ASSUME NEW k, NEW l \in Places, NEW f \in FrameType, At(k), GotoAndCall(l, f),
             k \in S <=> l \in S
      PROVE  Kept
  BY <1>0, <1>3, CallPasses DEF Passes
<1>4. ASSUME NEW k, At(k), Return, k \notin S
      PROVE  Kept
  BY <1>0, <1>4, ReturnPasses
<1>5. UNCHANGED <<schedVars, cpu, parked, testVars>>
  BY DEF QuietStep, LockAcquire, LockRelease, Restore, YieldLock, InitLock, SpawnLock, ExitLock,
         ExitYield, SnapshotLock, SnapshotCopy, TimerHandler, Iret
<1>. SUFFICES Kept
  BY <1>5
<1>. HIDE DEF Kept
<1>16. /\ \A k \in {"acquire", "release", "restore", "iret", "snapshot.lock",
                      "snapshot.copy", "irq.eoi"} : k \notin S
       /\ "yield.lock" \in S <=> "yield.pick" \in S
       /\ "init.lock" \in S <=> "init.install" \in S
       /\ "spawn.lock" \in S <=> "spawn.push" \in S
       /\ "exit.lock" \in S <=> "exit.mark" \in S
       /\ "exit.yield" \in S <=> "dead" \in S
  BY MarksKept
<1>6. CASE LockAcquire
  <2>1. At("acquire") /\ Goto("release") /\ "release" \in Places
    BY <1>1, <1>6 DEF LockAcquire
  <2>. QED
    BY <1>2, <1>16, <2>1
<1>7. CASE YieldLock
  <2>1. At("yield.lock") /\ Goto("yield.pick") /\ "yield.pick" \in Places
    BY <1>1, <1>7 DEF YieldLock
  <2>. QED
    BY <1>2, <1>16, <2>1
<1>8. CASE ExitLock
  <2>1. At("exit.lock") /\ Goto("exit.mark") /\ "exit.mark" \in Places
    BY <1>1, <1>8 DEF ExitLock
  <2>. QED
    BY <1>2, <1>16, <2>1
<1>9. CASE SnapshotLock
  <2>1. At("snapshot.lock") /\ Goto("snapshot.copy") /\ "snapshot.copy" \in Places
    BY <1>1, <1>9 DEF SnapshotLock
  <2>. QED
    BY <1>2, <1>16, <2>1
<1>10. CASE SnapshotCopy
  <2>1. At("snapshot.copy") /\ Goto("restore") /\ "restore" \in Places
    BY <1>1, <1>10 DEF SnapshotCopy
  <2>. QED
    BY <1>2, <1>16, <2>1
<1>11. CASE LockRelease \/ Restore \/ Iret
  <2>1. Return /\ (At("release") \/ At("restore") \/ At("iret"))
    BY <1>11 DEF LockRelease, Restore, Iret
  <2>. QED
    BY <1>4, <1>16, <2>1
<1>12. CASE InitLock
  <2>1. Acquire("HEAP") \in FrameType
    BY <1>0, <1>1 DEF Acquire, Frame, FrameType, Locks
  <2>2. At("init.lock") /\ GotoAndCall("init.install", Acquire("HEAP")) /\ "init.install" \in Places
    BY <1>1, <1>12 DEF InitLock
  <2>. QED
    BY <1>3, <1>16, <2>1, <2>2
<1>13. CASE SpawnLock
  <2>1. Acquire("HEAP") \in FrameType
    BY <1>0, <1>1 DEF Acquire, Frame, FrameType, Locks
  <2>2. At("spawn.lock") /\ GotoAndCall("spawn.push", Acquire("HEAP")) /\ "spawn.push" \in Places
    BY <1>1, <1>13 DEF SpawnLock
  <2>. QED
    BY <1>3, <1>16, <2>1, <2>2
<1>14. CASE ExitYield
  <2>1. Frame("yield.lock", "SCHED", intr) \in FrameType
    BY <1>0, <1>1 DEF Frame, FrameType, Locks, TypeOK
  <2>2. At("exit.yield") /\ GotoAndCall("dead", Frame("yield.lock", "SCHED", intr)) /\ "dead" \in Places
    BY <1>1, <1>14 DEF ExitYield
  <2>. QED
    BY <1>3, <1>16, <2>1, <2>2
<1>15. CASE TimerHandler
  <2>1. Frame("yield.lock", "SCHED", intr) \in FrameType
    BY <1>0, <1>1 DEF Frame, FrameType, Locks, TypeOK
  <2>2. At("irq.eoi") /\ GotoAndCall("iret", Frame("yield.lock", "SCHED", intr)) /\ "iret" \in Places
    BY <1>1, <1>15 DEF TimerHandler
  <2>. QED
    BY <1>3, <1>16, <2>1, <2>2
<1>. QED
  BY <1>5, <1>6, <1>7, <1>8, <1>9, <1>10, <1>11, <1>12, <1>13, <1>14, <1>15 DEF QuietStep

-----------------------------------------------------------------------------
(* A frame of one routine is there because the body made that very call.   *)

\* Context c of the body b is in a routine only behind the call of it.
Calls(b, c) ==
  \A o \in Routines :
    Under(c, Routine(o)) => c.ip - 1 \in DOMAIN b /\ b[c.ip - 1] = o

CallInv == Calls(Program, live) /\ \A t \in Ids \ {cpu} : Calls(BodyOf(t), parked[t])

LEMMA BodyUnder ==
  ASSUME NEW c, c.frames = <<>>, NEW S
  PROVE  ~Under(c, S)
BY DEF Under

LEMMA CallsSame ==
  ASSUME NEW b, NEW c, NEW d, Calls(b, c), d.ip = c.ip,
         \A o \in Routines : Under(d, Routine(o)) => Under(c, Routine(o))
  PROVE  Calls(b, d)
BY DEF Calls

\* A guarded call that takes no routine's place, or the place of its own routine.
LEMMA GuardedUnder ==
  ASSUME intr \in BOOLEAN, NEW o \in GuardedOps, NEW c, c.frames = Guarded(o), NEW S \in Marks
  PROVE  Under(c, S) <=> o \in Routines /\ S = Routine(o)
<1>1. ASSUME NEW l, c.frames = <<Frame(l, "SCHED", intr)>>
      PROVE  Under(c, S) <=> l \in S
  <2>1. c.frames # <<>> /\ Len(c.frames) = 1 /\ c.frames[1].at = l
    BY <1>1 DEF Frame
  <2>. QED
    BY <2>1, OnlyBottom
<1>2. ASSUME NEW f, c.frames = <<Acquire("HEAP"), f>>
      PROVE  Under(c, S) <=> f.at \in S
  BY <1>2 DEF Under, Bottom
<1>3. \A p \in Routines : Routine(p) \in Marks
  BY DEF Marks
<1>4. S = {"exit.yield", "dead"} \/ \E p \in Routines : S = Routine(p)
  BY DEF Marks
<1>5. /\ "yield.lock" \in S <=> S = Routine("yield")
      /\ "spawn.lock" \in S <=> S = Routine("spawn")
      /\ "init.lock" \in S <=> S = Routine("init")
      /\ "exit.lock" \in S <=> S = Routine("exit")
      /\ "snapshot.lock" \notin S /\ "restore" \notin S
  <2>1. /\ Routine("yield") = {"yield.lock", "yield.pick", "yield.switch"}
        /\ Routine("spawn") = {"spawn.lock", "spawn.push"}
        /\ Routine("init") = {"init.lock", "init.install"}
        /\ Routine("exit") = {"exit.lock", "exit.mark", "exit.yield", "dead"}
    BY DEF Routine
  <2>2. \/ S = {"exit.yield", "dead"} \/ S = Routine("yield") \/ S = Routine("spawn")
        \/ S = Routine("init") \/ S = Routine("exit")
    BY <1>4 DEF Routines
  <2>3. CASE S = Routine("yield")
    BY <2>1, <2>3
  <2>4. CASE S = Routine("spawn")
    BY <2>1, <2>4
  <2>5. CASE S = Routine("init")
    BY <2>1, <2>5
  <2>6. CASE S = Routine("exit")
    BY <2>1, <2>6
  <2>7. CASE S = {"exit.yield", "dead"}
    BY <2>1, <2>7
  <2>. QED
    BY <2>2, <2>3, <2>4, <2>5, <2>6, <2>7
<1>6. CASE o = "yield"
  BY <1>1, <1>5, <1>6 DEF Guarded, Routines
<1>7. CASE o = "spawn"
  BY <1>1, <1>5, <1>7 DEF Guarded, Routines
<1>8. CASE o = "exit"
  BY <1>1, <1>5, <1>8 DEF Guarded, Routines
<1>9. CASE o = "snapshot"
  BY <1>1, <1>5, <1>9 DEF Guarded, Routines
<1>10. CASE o = "init"
  <2>1. Frame("init.lock", "SCHED", intr).at = "init.lock"
    BY DEF Frame
  <2>. QED
    BY <1>2, <1>5, <1>10, <2>1 DEF Guarded, Routines
<1>11. CASE o = "stats"
  <2>1. Frame("restore", "HEAP", intr).at = "restore"
    BY DEF Frame
  <2>. QED
    BY <1>2, <1>5, <1>11, <2>1 DEF Guarded, Routines
<1>. QED
  BY <1>6, <1>7, <1>8, <1>9, <1>10, <1>11 DEF GuardedOps

LEMMA PlainUnder ==
  ASSUME NEW o, NEW c, c.frames = Plain(o), NEW S \in Marks
  PROVE  ~Under(c, S)
<1>1. PICK k \in {"HEAP", "SERIAL"} : c.frames = <<Acquire(k)>>
  BY DEF Plain
<1>2. Under(c, S) <=> "acquire" \in S
  <2>1. c.frames # <<>> /\ Len(c.frames) = 1 /\ c.frames[1].at = "acquire"
    BY <1>1 DEF Acquire, Frame
  <2>. QED
    BY <2>1, OnlyBottom
<1>. QED
  BY <1>2, MarksKept

\* The body makes its call o.
Enters(o) ==
  /\ Op(o) /\ o \notin {"hlt", "shell"} /\ live'.ip = live.ip + 1
  /\ \A S \in Marks : Under(live', S) <=> o \in Routines /\ S = Routine(o)
  /\ log' = IF o = "emit" THEN Append(log, cpu) ELSE log
  /\ saw' = IF o = "saw" THEN TRUE ELSE saw

\* The shell's loop goes on, or the CPU halts.
Stays ==
  /\ live'.ip = live.ip /\ UNCHANGED testVars
  /\ \A S \in Marks : ~Under(live', S)

LEMMA BodyEffect ==
  ASSUME KernelInv, BodyStep
  PROVE  /\ InBody /\ UNCHANGED <<schedVars, cpu, parked>>
         /\ Stays \/ \E o : Enters(o)
<1>1. TypeOK /\ intr \in BOOLEAN /\ live \in Context
  BY DEF KernelInv, TypeOK
<1>2. CASE \E o \in GuardedOps : Op(o) /\ CallGuarded(o)
  <2>1. PICK o \in GuardedOps : Op(o) /\ CallGuarded(o)
    BY <1>2
  <2>2. /\ InBody /\ UNCHANGED <<schedVars, cpu, parked, testVars>>
        /\ live'.frames = Guarded(o) /\ live'.ip = live.ip + 1
    BY <2>1 DEF Op, CallGuarded, CallWith
  <2>3. o # "emit" /\ o # "saw" /\ o \notin {"hlt", "shell"}
    BY DEF GuardedOps
  <2>4. \A S \in Marks : Under(live', S) <=> o \in Routines /\ S = Routine(o)
    BY <1>1, <2>2, GuardedUnder
  <2>. QED
    BY <2>1, <2>2, <2>3, <2>4 DEF Enters, testVars
<1>3. CASE \E o \in {"print", "alloc"} : Op(o) /\ CallPlain(o)
  <2>1. PICK o \in {"print", "alloc"} : Op(o) /\ CallPlain(o)
    BY <1>3
  <2>2. /\ InBody /\ UNCHANGED <<schedVars, cpu, parked, testVars>>
        /\ live'.frames = Plain(o) /\ live'.ip = live.ip + 1
    BY <2>1 DEF Op, CallPlain, CallWith
  <2>3. o # "emit" /\ o # "saw" /\ o \notin Routines
    BY DEF Routines
  <2>4. \A S \in Marks : Under(live', S) <=> o \in Routines /\ S = Routine(o)
    BY <2>2, <2>3, PlainUnder
  <2>. QED
    BY <2>1, <2>2, <2>3, <2>4 DEF Enters, testVars
<1>4. CASE \/ \E o \in {"sti", "cli"} : Op(o) /\ SetIf(o)
           \/ \E o \in {"emit", "set", "wait", "saw", "check"} : Op(o) /\ Record(o)
  <2>1. PICK o \in {"sti", "cli", "emit", "set", "wait", "saw", "check"} :
           /\ Op(o) /\ Advance /\ UNCHANGED <<schedVars, cpu, parked>>
           /\ log' = IF o = "emit" THEN Append(log, cpu) ELSE log
           /\ saw' = IF o = "saw" THEN TRUE ELSE saw
    BY <1>4 DEF SetIf, Record, testVars
  <2>2. InBody /\ live'.frames = live.frames /\ live'.ip = live.ip + 1
    BY <1>1, <2>1 DEF Op, Advance, Context
  <2>3. \A S \in Marks : ~Under(live', S)
    BY <2>2, BodyUnder DEF InBody
  <2>4. o \notin Routines
    BY DEF Routines
  <2>. QED
    BY <2>1, <2>2, <2>3, <2>4 DEF Enters
<1>5. CASE \E o \in {"hlt", "shell"} : Op(o) /\ Halt
  <2>1. InBody /\ UNCHANGED <<schedVars, cpu, parked, testVars, live>>
    BY <1>5 DEF Op, Halt
  <2>. QED
    BY <2>1, BodyUnder DEF Stays, InBody
<1>6. CASE Op("shell") /\ ShellCommand
  <2>1. InBody /\ UNCHANGED <<schedVars, cpu, parked, testVars>>
    BY <1>6 DEF Op, ShellCommand
  <2>2. PICK fs : /\ RepeatWith(fs)
                  /\ fs = Guarded("stats") \/ fs = Guarded("snapshot")
                       \/ fs = Plain("print") \/ fs = Plain("alloc")
    BY <1>6 DEF ShellCommand
  <2>3. live'.ip = live.ip /\ live'.frames = fs
    BY <1>1, <2>2 DEF RepeatWith, Context
  <2>4. {"stats", "snapshot"} \subseteq GuardedOps /\ "stats" \notin Routines
        /\ "snapshot" \notin Routines
    BY DEF GuardedOps, Routines
  <2>5. \A S \in Marks : ~Under(live', S)
    BY <1>1, <2>2, <2>3, <2>4, GuardedUnder, PlainUnder
  <2>. QED
    BY <2>1, <2>3, <2>5 DEF Stays
<1>. QED
  BY <1>2, <1>3, <1>4, <1>5, <1>6 DEF BodyStep

LEMMA OwnMark ==
  ASSUME NEW o \in Routines
  PROVE  Routine(o) \in Marks
BY DEF Marks

\* Over a finished routine, or on to another place of the same one.
LEMMA CallsGoto ==
  ASSUME TypeOK, Calls(Program, live), NEW k, At(k), NEW l \in Places, Goto(l),
         \A S \in Marks : l \in S => k \in S
  PROVE  Calls(Program, live')
<1>1. \A o \in Routines : Passes(k, l, Routine(o)) /\ live'.ip = live.ip
  BY GotoPasses
<1>2. \A o \in Routines : Under(live', Routine(o)) => Under(live, Routine(o))
  BY <1>1, OwnMark DEF Passes
<1>3. live'.ip = live.ip
  BY <1>1 DEF Routines
<1>. QED
  BY <1>2, <1>3, CallsSame

\* The context switched away from, as it is parked.
Stopped == [live EXCEPT !.frames[1].at = "restore"]

LEMMA StoppedFacts ==
  ASSUME KernelInv, At("yield.switch")
  PROVE  /\ Stopped \in Context /\ Stopped.ip = live.ip /\ Stopped.frames # <<>>
         /\ Len(Stopped.frames) = Len(live.frames) /\ Stopped.frames[1].at = "restore"
         /\ \A i \in 2 .. Len(live.frames) : Stopped.frames[i] = live.frames[i]
         /\ \A S \in Marks : Under(Stopped, S) => Under(live, S)
         /\ \A S \in Marks : Len(live.frames) # 1 => (Under(Stopped, S) <=> Under(live, S))
<1>1. /\ live \in Context /\ live.frames # <<>> /\ Len(live.frames) \in Nat
      /\ Len(live.frames) >= 1 /\ "restore" \in Places
  BY TopFrame DEF KernelInv, Places, GuardedSteps, YieldSteps
<1>2. /\ Stopped \in Context /\ Stopped.ip = live.ip
      /\ Len(Stopped.frames) = Len(live.frames) /\ Stopped.frames[1].at = "restore"
      /\ Stopped.frames[1].lock = live.frames[1].lock
      /\ Stopped.frames[1].was = live.frames[1].was
      /\ \A i \in 2 .. Len(live.frames) : Stopped.frames[i] = live.frames[i]
  BY <1>1, GotoFrames DEF Stopped
<1>3. Moved(live.frames, Stopped.frames) /\ Stopped.frames # <<>>
  BY <1>1, <1>2, NotEmpty DEF Moved
<1>. SUFFICES ASSUME NEW S \in Marks
              PROVE  /\ Under(Stopped, S) => Under(live, S)
                     /\ Len(live.frames) # 1 => (Under(Stopped, S) <=> Under(live, S))
  BY <1>2, <1>3
<1>4. CASE Len(live.frames) = 1
  <2>1. Under(Stopped, S) <=> "restore" \in S
    BY <1>2, <1>3, <1>4, OnlyBottom
  <2>2. "restore" \notin S
    BY MarksKept
  <2>. QED
    BY <1>4, <2>1, <2>2
<1>5. CASE Len(live.frames) # 1
  BY <1>1, <1>3, <1>5, BottomKept, SameBottom
<1>. QED
  BY <1>4, <1>5

LEMMA FreshUnder ==
  ASSUME NEW S
  PROVE  ~Under(Fresh, S) /\ Fresh.ip = 1
BY DEF Under, Fresh

LEMMA CallInvNext ==
  ASSUME KernelInv, CallInv, [Next]_vars
  PROVE  CallInv'
<1>0. TypeOK /\ "restore" \in Places /\ "yield.switch" \in Places /\ "exit.yield" \in Places
  BY DEF KernelInv, Places, GuardedSteps, YieldSteps
<1>1. \A o \in Routines : Routine(o) \in Marks
  BY OwnMark
<1>2. ASSUME UNCHANGED <<cpu, inits, parked>>, Calls(Program, live')
      PROVE  CallInv'
  <2>1. Calls(Program, live)'
    BY <1>2 DEF Program, BodyOf
  <2>2. \A t \in Ids \ {cpu} : Calls(BodyOf(t), parked[t])'
    BY <1>2 DEF CallInv, BodyOf
  <2>. QED
    BY <1>2, <2>1, <2>2 DEF CallInv
<1>3. ASSUME live'.ip = live.ip, \A S \in Marks : Under(live', S) => Under(live, S)
      PROVE  Calls(Program, live')
  BY <1>1, <1>3, CallsSame DEF CallInv
<1>4. CASE QuietStep
  <2>1. UNCHANGED <<schedVars, cpu, parked>> /\ live'.ip = live.ip
    BY <1>4, QuietUnder DEF Marks
  <2>2. \A S \in Marks : Under(live', S) => Under(live, S)
    BY <1>4, QuietUnder
  <2>. QED
    BY <1>2, <1>3, <2>1, <2>2 DEF schedVars
<1>5. CASE TimerIrq
  <2>1. UNCHANGED <<schedVars, cpu, parked>>
    BY <1>5 DEF TimerIrq
  <2>2. live'.ip = live.ip /\ \A S \in Marks : Under(live', S) => Under(live, S)
    <3>1. \A S \in Marks : "irq.eoi" \notin S
      BY MarksKept
    <3>2. live'.ip = live.ip
      BY <1>5, TickPasses
    <3>. QED
      BY <1>5, <3>1, <3>2, TickPasses
  <2>. QED
    BY <1>2, <1>3, <2>1, <2>2 DEF schedVars
<1>6. CASE TimerTick \/ OtherIrq \/ UNCHANGED vars
  <2>1. UNCHANGED <<schedVars, cpu, parked, live>>
    BY <1>6 DEF TimerTick, OtherIrq, vars
  <2>. QED
    BY <1>2, <2>1 DEF schedVars, CallInv
<1>7. CASE YieldPick
  <2>1. /\ At("yield.pick") /\ UNCHANGED <<inits, cpu, parked>>
        /\ Goto("restore") \/ Goto("yield.switch")
    BY <1>7 DEF YieldPick, Choose, schedVars
  <2>2. \A S \in Marks : "restore" \notin S /\ ("yield.switch" \in S => "yield.pick" \in S)
    BY MarksKept
  <2>3. Calls(Program, live')
    BY <1>0, <2>1, <2>2, CallsGoto DEF CallInv
  <2>. QED
    BY <1>2, <2>1, <2>3
<1>8. CASE SpawnPush
  <2>1. /\ At("spawn.push") /\ UNCHANGED <<inits, cpu>> /\ Goto("restore")
        /\ parked' = [parked EXCEPT ![count] = Fresh]
    BY <1>8 DEF SpawnPush
  <2>2. \A S \in Marks : "restore" \notin S
    BY MarksKept
  <2>3. Calls(Program, live')
    BY <1>0, <2>1, <2>2, CallsGoto DEF CallInv
  <2>4. ASSUME NEW t \in Ids, t # cpu PROVE Calls(BodyOf(t), parked'[t])
    <3>1. parked'[t] = parked[t] \/ parked'[t] = Fresh
      BY <2>1, <1>0 DEF TypeOK
    <3>. QED
      BY <2>4, <3>1, FreshUnder DEF CallInv, Calls
  <2>5. Calls(Program, live)' /\ \A t \in Ids : BodyOf(t)' = BodyOf(t)
    BY <2>1, <2>3 DEF Program, BodyOf
  <2>. QED
    BY <2>1, <2>4, <2>5 DEF CallInv
<1>9. CASE InitInstall
  <2>1. /\ At("init.install") /\ cpu' = cpu /\ Goto("restore")
        /\ parked' = [t \in Ids |-> Fresh]
    BY <1>9 DEF InitInstall
  <2>2. cpu = Idle
    BY <1>0, <2>1, AtFirst, FramesOfContext DEF KernelInv, CallerInv, TypeOK
  <2>3. \A S \in Marks : "restore" \notin S
    BY MarksKept
  <2>4. Calls(Program, live')
    BY <1>0, <2>1, <2>3, CallsGoto DEF CallInv
  <2>5. Calls(Program, live)'
    BY <2>1, <2>2, <2>4 DEF Program, BodyOf
  <2>6. \A t \in Ids : Calls(BodyOf(t), parked[t])'
    BY <2>1, FreshUnder DEF Calls
  <2>. QED
    BY <2>5, <2>6 DEF CallInv
<1>10. CASE ExitMark
  <2>1. /\ At("exit.mark") /\ UNCHANGED <<inits, cpu, parked>>
        /\ GotoAndCall("exit.yield", Acquire("SERIAL"))
    BY <1>10 DEF ExitMark
  <2>2. Acquire("SERIAL") \in FrameType
    BY DEF Acquire, Frame, FrameType, Places, Locks
  <2>3. \A S : Passes("exit.mark", "exit.yield", S) /\ live'.ip = live.ip
    BY <1>0, <2>1, <2>2, CallPasses
  <2>4. \A o \in Routines : Under(live', Routine(o)) => Under(live, Routine(o))
    <3>1. \A o \in Routines : "exit.yield" \in Routine(o) => "exit.mark" \in Routine(o)
      BY DEF Routines, Routine
    <3>. QED
      BY <2>3, <3>1 DEF Passes
  <2>5. Calls(Program, live')
    BY <2>3, <2>4, CallsSame DEF CallInv
  <2>. QED
    BY <1>2, <2>1, <2>5
<1>11. CASE BodyStep
  <2>1. /\ UNCHANGED <<schedVars, cpu, parked>>
        /\ Stays \/ \E o : Enters(o)
    BY <1>11, BodyEffect
  <2>2. CASE Stays
    <3>1. Calls(Program, live')
      BY <1>1, <2>2 DEF Stays, Calls
    <3>. QED
      BY <1>2, <2>1, <3>1 DEF schedVars
  <2>3. CASE \E o : Enters(o)
    <3>1. PICK o : Enters(o)
      BY <2>3
    <3>2. /\ live.ip \in DOMAIN Program /\ Program[live.ip] = o /\ live'.ip - 1 = live.ip
      BY <1>0, <3>1 DEF Enters, Op, TypeOK, Context
    <3>3. ASSUME NEW p \in Routines, Under(live', Routine(p)) PROVE p = o
      <4>1. o \in Routines /\ Routine(p) = Routine(o)
        BY <1>1, <3>1, <3>3 DEF Enters
      <4>. QED
        BY <4>1 DEF Routine, Routines
    <3>4. Calls(Program, live')
      BY <3>2, <3>3 DEF Calls
    <3>. QED
      BY <1>2, <2>1, <3>4 DEF schedVars
  <2>. QED
    BY <2>1, <2>2, <2>3
<1>12. CASE SwitchContext
  <2>1. /\ At("yield.switch") /\ parked' = [parked EXCEPT ![cpu] = Stopped]
        /\ live' = parked[current] /\ cpu' = current /\ inits' = inits
    BY <1>12 DEF SwitchContext, Stopped, schedVars
  <2>2. current # cpu /\ current \in Ids /\ cpu \in Ids
    BY <1>0, <2>1, KernelAssumption DEF KernelInv, SwitchInv, TypeOK, Ids
  <2>3. Calls(Program, Stopped)
    BY <1>1, <2>1, StoppedFacts, CallsSame DEF CallInv
  <2>4. Calls(Program, live)'
    BY <2>1, <2>2 DEF CallInv, Program, BodyOf
  <2>5. ASSUME NEW t \in Ids, t # current PROVE Calls(BodyOf(t), parked'[t])
    <3>1. parked'[t] = IF t = cpu THEN Stopped ELSE parked[t]
      BY <1>0, <2>1, <2>2 DEF TypeOK
    <3>. QED
      BY <2>3, <3>1 DEF CallInv, Program
  <2>6. \A t \in Ids : BodyOf(t)' = BodyOf(t)
    BY <2>1 DEF BodyOf
  <2>. QED
    BY <2>1, <2>4, <2>5, <2>6 DEF CallInv
<1>. QED
  BY <1>4, <1>5, <1>6, <1>7, <1>8, <1>9, <1>10, <1>11, <1>12
     DEF Next, CpuStep, KernelStep, QuietStep

-----------------------------------------------------------------------------
(* What a step does to the scheduler and to the call the CPU is in.        *)

Leaving == {"exit.yield", "dead"}

SameCall == live'.ip = live.ip /\ \A S \in Marks : Under(live', S) <=> Under(live, S)

QuietEffect == UNCHANGED <<schedVars, cpu, parked, testVars>> /\ SameCall

CallEffect ==
  InBody /\ UNCHANGED <<schedVars, cpu, parked>> /\ \E o : Enters(o)

\* A yield that picks the task that runs.
NoSwitchEffect ==
  /\ Chosen = current /\ UNCHANGED <<schedVars, cpu, parked, testVars>>
  /\ live'.ip = live.ip /\ Under(live, Routine("yield"))
  /\ \A S \in Marks : ~Under(live', S)

\* One that picks another, called by the body, by task_exit or by a tick.
ChooseEffect ==
  /\ Chosen # current /\ Choose /\ cpu = current /\ UNCHANGED <<cpu, parked, testVars>>
  /\ SameCall
  /\ Under(live, Routine("yield")) \/ Under(live, Leaving) \/ Asked(cpu, live)

SwitchEffect ==
  /\ current # cpu /\ current \in Ids
  /\ parked' = [parked EXCEPT ![cpu] = Stopped] /\ Stopped.ip = live.ip
  /\ live' = parked[current] /\ cpu' = current /\ UNCHANGED <<schedVars, testVars>>
  /\ Under(live, Routine("yield")) \/ Under(live, Leaving) \/ Asked(cpu, live)

SpawnEffect ==
  /\ Under(live, Routine("spawn")) /\ count <= MaxTasks
  /\ state' = [state EXCEPT ![count] = "ready"]
  /\ ready' = Append(ready, count) /\ count' = count + 1
  /\ parked' = [parked EXCEPT ![count] = Fresh]
  /\ UNCHANGED <<current, inits, cpu, testVars>>
  /\ live'.ip = live.ip /\ \A S \in Marks : ~Under(live', S)
  /\ Len(live'.frames) = 1 /\ live'.frames[1].at = "restore"

MarkEffect ==
  /\ Under(live, Routine("exit")) /\ ~Under(live, Leaving) /\ cpu = current
  /\ state' = [state EXCEPT ![current] = "finished"]
  /\ UNCHANGED <<count, ready, current, inits, cpu, parked, testVars>>
  /\ live'.ip = live.ip /\ Under(live', Leaving) /\ ~Under(live', Routine("yield"))

InstallEffect ==
  /\ Under(live, Routine("init")) /\ cpu = Idle /\ inits < MaxInits
  /\ state' = WithIdle /\ count' = 1 /\ ready' = <<>> /\ current' = Idle
  /\ inits' = inits + 1 /\ parked' = [t \in Ids |-> Fresh]
  /\ UNCHANGED <<cpu, testVars>>
  /\ live'.ip = live.ip /\ \A S \in Marks : ~Under(live', S)
  /\ Len(live'.frames) = 1 /\ live'.frames[1].at = "restore"

\* A routine other than yield that enters the scheduler stands alone on its stack.
LEMMA GuardedAlone ==
  ASSUME KernelInv,
         NEW k \in {"init.lock", "init.install", "spawn.lock", "spawn.push", "exit.mark"}, At(k)
  PROVE  /\ Len(live.frames) = 1 /\ live.frames # <<>> /\ live.frames[1].at = k
         /\ \A S : Under(live, S) <=> k \in S
<1>1. live.frames # <<>> /\ Len(live.frames) >= 1 /\ live.frames[1].at = k
  BY TopFrame DEF KernelInv
<1>2. ~PlainFrame(live.frames[1]) /\ k \notin YieldSteps
  BY <1>1 DEF PlainFrame, YieldSteps
<1>3. Len(live.frames) = 1
  <2>1. StackOK(live.frames, Asked(cpu, live), intr)
    BY DEF KernelInv, LiveInv
  <2>. QED
    BY <1>1, <1>2, <2>1 DEF StackOK, PlainFrom, InGuarded, Dying, InTick
<1>. QED
  BY <1>1, <1>3, OnlyBottom

\* yield_now runs for the body, for task_exit, or for a tick the body let in.
LEMMA YieldOver ==
  ASSUME KernelInv, NEW k \in {"yield.lock", "yield.pick", "yield.switch"}, At(k)
  PROVE  \/ Len(live.frames) = 1 /\ Under(live, Routine("yield"))
         \/ Len(live.frames) = 2 /\ Under(live, Leaving)
         \/ Len(live.frames) # 1 /\ live.frames[2].at = "iret" /\ Asked(cpu, live)
<1>1. live.frames # <<>> /\ Len(live.frames) >= 1 /\ live.frames[1].at = k
  BY TopFrame DEF KernelInv
<1>2. ~PlainFrame(live.frames[1]) /\ k \in YieldSteps
  BY <1>1 DEF PlainFrame, YieldSteps
<1>3. \/ Len(live.frames) = 1
      \/ Len(live.frames) = 2 /\ live.frames[2].at = "dead"
      \/ Len(live.frames) # 1 /\ live.frames[2].at = "iret" /\ Asked(cpu, live)
  <2>1. StackOK(live.frames, Asked(cpu, live), intr)
    BY DEF KernelInv, LiveInv
  <2>. QED
    BY <1>1, <1>2, <2>1 DEF StackOK, PlainFrom, InGuarded, Dying, InTick, YieldSteps
<1>4. k \in Routine("yield")
  BY DEF Routine
<1>5. Len(live.frames) = 1 => Under(live, Routine("yield"))
  BY <1>1, <1>4, OnlyBottom
<1>6. Len(live.frames) = 2 /\ live.frames[2].at = "dead" => Under(live, Leaving)
  BY <1>1 DEF Under, Bottom, Leaving
<1>. QED
  BY <1>3, <1>5, <1>6

\* A context never waits inside yield_now's critical section or before its switch.
LEMMA ParkedNotYield ==
  ASSUME KernelInv, NEW t \in Ids, t # cpu
  PROVE  ~Under(parked[t], Routine("yield"))
<1>. DEFINE s == parked[t].frames
<1>1. /\ StackOK(s, Asked(t, parked[t]), FALSE)
      /\ s = <<>> \/ s[1].at = "restore"
  BY DEF KernelInv, ParkedInv, ParkedOK
<1>2. Len(s) \in Nat
  BY FramesOfContext DEF KernelInv, TypeOK
<1>. SUFFICES ASSUME s # <<>>
              PROVE  s[Len(s)].at \notin Routine("yield")
  BY DEF Under, Bottom
<1>. HIDE DEF s
<1>3. s[1].at = "restore" /\ ~PlainFrame(s[1])
  BY <1>1 DEF PlainFrame
<1>4. Routine("yield") = {"yield.lock", "yield.pick", "yield.switch"}
  BY DEF Routine
<1>5. Len(s) # 0
  <2>1. s = <<>> <=> Len(s) = 0
    BY FramesOfContext DEF s, KernelInv, TypeOK
  <2>. QED
    BY <2>1
<1>6. \/ s[Len(s)].at \in {"restore", "dead", "iret"} \/ PlainFrame(s[Len(s)])
  BY <1>1, <1>2, <1>3, <1>5 DEF StackOK, PlainFrom, InGuarded, Dying, InTick, YieldSteps, OverPlain
<1>. QED
  BY <1>4, <1>6 DEF PlainFrame

LEMMA LeavingIsMark == Leaving \in Marks
BY DEF Leaving, Marks

\* Every step, by its effect.
LEMMA StepEffect ==
  ASSUME KernelInv, [Next]_vars
  PROVE  \/ QuietEffect \/ CallEffect \/ NoSwitchEffect \/ ChooseEffect \/ SwitchEffect
         \/ SpawnEffect \/ MarkEffect \/ InstallEffect
<1>0. /\ TypeOK /\ (cpu # current <=> At("yield.switch"))
      /\ "restore" \in Places /\ "yield.switch" \in Places /\ "exit.yield" \in Places
      /\ "dead" \in Places
  BY DEF KernelInv, SwitchInv, Places, GuardedSteps, YieldSteps
<1>1. Routine("yield") \in Marks /\ Routine("exit") \in Marks
  BY OwnMark DEF Routines
<1>2. CASE QuietStep
  <2>1. /\ UNCHANGED <<schedVars, cpu, parked, testVars>> /\ live'.ip = live.ip
    BY <1>1, <1>2, QuietUnder
  <2>2. \A S \in Marks : Under(live', S) <=> Under(live, S)
    BY <1>2, QuietUnder
  <2>. QED
    BY <2>1, <2>2 DEF QuietEffect, SameCall
<1>3. CASE TimerIrq
  <2>1. \A S \in Marks : "irq.eoi" \notin S
    BY MarksKept
  <2>2. live'.ip = live.ip /\ \A S \in Marks : Under(live', S) <=> Under(live, S)
    BY <1>1, <1>3, <2>1, TickPasses
  <2>. QED
    BY <1>3, <2>2 DEF QuietEffect, SameCall, TimerIrq
<1>4. CASE TimerTick \/ OtherIrq \/ UNCHANGED vars
  BY <1>4 DEF TimerTick, OtherIrq, vars, QuietEffect, SameCall
<1>5. CASE BodyStep
  <2>1. InBody /\ UNCHANGED <<schedVars, cpu, parked>>
    BY <1>5, BodyEffect
  <2>2. CASE Stays
    <3>1. \A S \in Marks : ~Under(live, S)
      BY <2>1, BodyUnder DEF InBody
    <3>. QED
      BY <2>1, <2>2, <3>1 DEF Stays, QuietEffect, SameCall
  <2>. QED
    BY <1>5, <2>1, <2>2, BodyEffect DEF CallEffect
<1>6. CASE YieldPick
  <2>1. At("yield.pick") /\ UNCHANGED <<cpu, parked, testVars>> /\ cpu = current
    <3>1. At("yield.pick") /\ ~At("yield.switch")
      BY <1>0, <1>6, AtFirst DEF YieldPick
    <3>. QED
      BY <1>0, <1>6, <3>1 DEF YieldPick
  <2>2. CASE Chosen = current
    <3>1. UNCHANGED schedVars /\ Goto("restore")
      BY <1>6, <2>2 DEF YieldPick
    <3>2. \A S : Passes("yield.pick", "restore", S) /\ live'.ip = live.ip
      BY <1>0, <2>1, <3>1, GotoPasses
    <3>3. \A S \in Marks : "restore" \notin S
      BY MarksKept
    <3>4. CASE Len(live.frames) = 1
      <4>1. \A S \in Marks : ~Under(live', S)
        BY <3>2, <3>3, <3>4 DEF Passes
      <4>2. Under(live, Routine("yield"))
        <5>1. "yield.pick" \in Routine("yield")
          BY DEF Routine
        <5>. QED
          BY <3>2, <3>4, <5>1 DEF Passes
      <4>. QED
        BY <2>1, <2>2, <3>1, <3>2, <4>1, <4>2 DEF NoSwitchEffect
    <3>5. CASE Len(live.frames) # 1
      BY <2>1, <3>1, <3>2, <3>5 DEF Passes, QuietEffect, SameCall
    <3>. QED
      BY <3>4, <3>5
  <2>3. CASE Chosen # current
    <3>1. Choose /\ Goto("yield.switch")
      BY <1>6, <2>3 DEF YieldPick
    <3>2. \A S : Passes("yield.pick", "yield.switch", S) /\ live'.ip = live.ip
      BY <1>0, <2>1, <3>1, GotoPasses
    <3>3. \A S \in Marks : "yield.pick" \in S <=> "yield.switch" \in S
      BY MarksKept
    <3>4. SameCall
      BY <3>2, <3>3 DEF Passes, SameCall
    <3>5. Under(live, Routine("yield")) \/ Under(live, Leaving) \/ Asked(cpu, live)
      BY <2>1, YieldOver
    <3>. QED
      BY <2>1, <2>3, <3>1, <3>4, <3>5 DEF ChooseEffect
  <2>. QED
    BY <2>2, <2>3
<1>7. CASE SwitchContext
  <2>1. /\ At("yield.switch") /\ parked' = [parked EXCEPT ![cpu] = Stopped]
        /\ live' = parked[current] /\ cpu' = current /\ UNCHANGED <<schedVars, testVars>>
    BY <1>7 DEF SwitchContext, Stopped
  <2>2. current # cpu /\ current \in Ids
    BY <1>0, <2>1, KernelAssumption DEF TypeOK, Ids
  <2>3. Stopped.ip = live.ip
    BY <2>1, StoppedFacts
  <2>4. Under(live, Routine("yield")) \/ Under(live, Leaving) \/ Asked(cpu, live)
    BY <2>1, YieldOver
  <2>. QED
    BY <2>1, <2>2, <2>3, <2>4 DEF SwitchEffect
<1>8. CASE SpawnPush
  <2>1. At("spawn.push") /\ Goto("restore")
    BY <1>8 DEF SpawnPush
  <2>2. /\ \A S : Passes("spawn.push", "restore", S) /\ live'.ip = live.ip
        /\ live'.frames[1].at = "restore" /\ Len(live'.frames) = Len(live.frames)
    BY <1>0, <2>1, GotoPasses
  <2>3. Len(live.frames) = 1 /\ "spawn.push" \in Routine("spawn")
    BY <2>1, GuardedAlone DEF Routine
  <2>4. \A S \in Marks : "restore" \notin S
    BY MarksKept
  <2>5. Under(live, Routine("spawn")) /\ \A S \in Marks : ~Under(live', S)
    BY <2>2, <2>3, <2>4 DEF Passes
  <2>. QED
    BY <1>8, <2>2, <2>3, <2>5 DEF SpawnPush, SpawnEffect
<1>9. CASE ExitMark
  <2>1. At("exit.mark") /\ GotoAndCall("exit.yield", Acquire("SERIAL"))
    BY <1>9 DEF ExitMark
  <2>2. Acquire("SERIAL") \in FrameType
    BY DEF Acquire, Frame, FrameType, Places, Locks
  <2>3. \A S : Passes("exit.mark", "exit.yield", S) /\ live'.ip = live.ip
    BY <1>0, <2>1, <2>2, CallPasses
  <2>4. /\ Len(live.frames) = 1 /\ "exit.mark" \in Routine("exit")
        /\ "exit.mark" \notin Leaving /\ "exit.yield" \in Leaving
        /\ "exit.yield" \notin Routine("yield")
    BY <2>1, GuardedAlone DEF Routine, Leaving
  <2>5. /\ Under(live, Routine("exit")) /\ ~Under(live, Leaving)
        /\ Under(live', Leaving) /\ ~Under(live', Routine("yield"))
    BY <2>3, <2>4 DEF Passes
  <2>6. cpu = current
    <3>1. ~At("yield.switch")
      BY <1>0, <2>1, AtFirst
    <3>. QED
      BY <1>0, <3>1
  <2>. QED
    BY <1>9, <2>3, <2>5, <2>6 DEF ExitMark, MarkEffect
<1>10. CASE InitInstall
  <2>1. At("init.install") /\ Goto("restore")
    BY <1>10 DEF InitInstall
  <2>2. /\ \A S : Passes("init.install", "restore", S) /\ live'.ip = live.ip
        /\ live'.frames[1].at = "restore" /\ Len(live'.frames) = Len(live.frames)
    BY <1>0, <2>1, GotoPasses
  <2>3. Len(live.frames) = 1 /\ live.frames[1].at = "init.install" /\ "init.install" \in Routine("init")
    BY <2>1, GuardedAlone DEF Routine
  <2>4. \A S \in Marks : "restore" \notin S
    BY MarksKept
  <2>5. Under(live, Routine("init")) /\ \A S \in Marks : ~Under(live', S)
    BY <2>2, <2>3, <2>4 DEF Passes
  <2>6. cpu = Idle
    BY <2>3 DEF KernelInv, CallerInv
  <2>. QED
    BY <1>10, <2>2, <2>3, <2>5, <2>6 DEF InitInstall, InstallEffect
<1>. QED
  BY <1>2, <1>3, <1>4, <1>5, <1>6, <1>7, <1>8, <1>9, <1>10
     DEF Next, CpuStep, KernelStep, QuietStep

-----------------------------------------------------------------------------
(* The self-tests, for every number of turns.                              *)

\* The kernel runs kernel_main and the bodies it spawns.
Booted == Main = BootMain /\ Body = BootBody /\ MaxInits = 3 /\ MaxTasks >= 2

Done(t) == state[t] = "finished"
In(o) == Under(live, Routine(o))

\* A worker that has had k turns waits at this place for its next one.
Resting(p, k) == p = IF k = 0 THEN 1 ELSE 4 * k

\* The running worker is in the turn after its k-th.
InTurn(k) ==
  \/ live.ip \in 4 * k .. 4 * k + 3 /\ ~In("yield")
  \/ live.ip = 4 * k + 4 /\ In("yield")

\* The letter of that turn.
Letter(k) == IF k < Iters /\ live.ip >= 4 * k + 2 THEN 1 ELSE 0

\* The idle task spawns the workers and yields to the first.
Before ==
  /\ cpu = 0 /\ parked[1].ip = 1 /\ parked[2].ip = 1 /\ live.ip \in 1 .. 4
  /\ ~Done(1) /\ ~Done(2) /\ log = <<>>
  /\ count = (IF live.ip = 4 \/ In("spawn") THEN live.ip - 1 ELSE live.ip)
  /\ current = 0 => /\ Len(ready) = count - 1 /\ \A i \in 1 .. count - 1 : ready[i] = i
                    /\ live.ip = 4 => In("yield")
  /\ current # 0 => current = 1 /\ ready = <<2>> /\ live.ip = 4

\* The first worker runs; the second has had as many turns.
First ==
  /\ cpu = 1 /\ ~Done(2) /\ count = 3 /\ parked[0].ip = 4 /\ live.ip <= 4 * Iters + 2
  /\ (Done(1) <=> Under(live, Leaving))
  /\ \E k \in 0 .. Iters :
       Resting(parked[2].ip, k) /\ InTurn(k) /\ Len(log) = 2 * k + Letter(k)
  /\ current = 1 => ready = <<2>>
  /\ current # 1 => current = 2 /\ ready = IF Done(1) THEN <<>> ELSE <<1>>

\* The second worker runs, one turn behind.
Second ==
  /\ cpu = 2 /\ count = 3 /\ parked[0].ip = 4 /\ ~Done(1) /\ ~Done(2)
  /\ ~Under(live, Leaving)
  /\ \E k \in 0 .. Iters - 1 :
       parked[1].ip = 4 * k + 4 /\ InTurn(k) /\ Len(log) = 2 * k + 1 + Letter(k)
  /\ current = 2 => ready = <<1>>
  /\ current # 2 => current = 1 /\ ready = <<2>>

\* The first worker is gone, the second about to follow.
Last ==
  /\ cpu = 2 /\ count = 3 /\ parked[0].ip = 4 /\ Done(1) /\ live.ip <= 4 * Iters + 2
  /\ (Done(2) <=> Under(live, Leaving))
  /\ InTurn(Iters) /\ ~In("yield") /\ Len(log) = 2 * Iters
  /\ ready = <<>>
  /\ current # 2 => current = 0 /\ Done(2)

\* The idle task goes on, up to the next scheduler.
After ==
  /\ cpu = 0 /\ current = 0 /\ ready = <<>> /\ Done(1) /\ Done(2)
  /\ live.ip \in 4 .. 9 /\ ~In("yield") /\ (live.ip = 9 => In("init"))
  /\ Len(log) = 2 * Iters

CoopInv == inits = 1 => Before \/ First \/ Second \/ Last \/ After
LogInv == log \in Seq(Ids) /\ \A i \in 1 .. Len(log) : log[i] = IF i % 2 = 1 THEN 1 ELSE 2

-----------------------------------------------------------------------------
(* The bodies.                                                             *)

Cat(s, t) == s \o t

Joins(s, t, r) ==
  /\ Len(r) = Len(s) + Len(t)
  /\ \A i \in 1 .. Len(s) + Len(t) : r[i] = IF i <= Len(s) THEN s[i] ELSE t[i - Len(s)]

LEMMA Joined ==
  ASSUME NEW S, NEW s \in Seq(S), NEW t \in Seq(S)
  PROVE  Cat(s, t) \in Seq(S) /\ Joins(s, t, Cat(s, t))
BY ConcatProperties DEF Cat, Joins

LEMMA MainAt ==
  ASSUME Booted
  PROVE  /\ DOMAIN Main = 1 .. 18
         /\ Main[1] = "spawn" /\ Main[2] = "spawn" /\ Main[3] = "yield" /\ Main[4] = "check"
         /\ Main[5] = "print" /\ Main[6] = "sti" /\ Main[7] = "cli" /\ Main[8] = "init"
         /\ Main[9] = "spawn" /\ Main[10] = "spawn" /\ Main[11] = "sti" /\ Main[12] = "yield"
         /\ Main[13] = "check" /\ Main[14] = "print" /\ Main[15] = "init"
         /\ Main[16] = "spawn" /\ Main[17] = "yield" /\ Main[18] = "hlt"
<1>. DEFINE a == CooperativeSelfTest
            b == <<"sti">>
            c == PreemptiveSelfTest
            d == StartShell
            Ops == {"spawn", "yield", "check", "print", "sti", "cli", "init", "hlt"}
<1>1. /\ a \in Seq(Ops) /\ Len(a) = 5
      /\ a[1] = "spawn" /\ a[2] = "spawn" /\ a[3] = "yield" /\ a[4] = "check" /\ a[5] = "print"
  BY DEF CooperativeSelfTest
<1>2. b \in Seq(Ops) /\ Len(b) = 1 /\ b[1] = "sti"
  OBVIOUS
<1>3. /\ c \in Seq(Ops) /\ Len(c) = 8
      /\ c[1] = "cli" /\ c[2] = "init" /\ c[3] = "spawn" /\ c[4] = "spawn"
      /\ c[5] = "sti" /\ c[6] = "yield" /\ c[7] = "check" /\ c[8] = "print"
  BY DEF PreemptiveSelfTest
<1>4. /\ d \in Seq(Ops) /\ Len(d) = 4
      /\ d[1] = "init" /\ d[2] = "spawn" /\ d[3] = "yield" /\ d[4] = "hlt"
  BY DEF StartShell
<1>5. Main = Cat(Cat(Cat(a, b), c), d)
  BY DEF Booted, BootMain, Cat
<1>. HIDE DEF a, b, c, d, Ops
<1>6. /\ Cat(a, b) \in Seq(Ops) /\ Len(Cat(a, b)) = 5 + 1
      /\ \A i \in 1 .. 5 + 1 : Cat(a, b)[i] = IF i <= 5 THEN a[i] ELSE b[i - 5]
  <2>1. Cat(a, b) \in Seq(Ops) /\ Joins(a, b, Cat(a, b))
    BY <1>1, <1>2, Joined
  <2>. QED
    BY <1>1, <1>2, <2>1 DEF Joins
<1>. DEFINE p == Cat(a, b)
<1>7. p \in Seq(Ops) /\ Len(p) = 6
  BY <1>6
<1>8. /\ Cat(p, c) \in Seq(Ops) /\ Len(Cat(p, c)) = 6 + 8
      /\ \A i \in 1 .. 6 + 8 : Cat(p, c)[i] = IF i <= 6 THEN p[i] ELSE c[i - 6]
  <2>. HIDE DEF p
  <2>1. Cat(p, c) \in Seq(Ops) /\ Joins(p, c, Cat(p, c))
    BY <1>3, <1>7, Joined
  <2>. QED
    BY <1>3, <1>7, <2>1 DEF Joins
<1>. DEFINE q == Cat(p, c)
<1>9. q \in Seq(Ops) /\ Len(q) = 14
  BY <1>8
<1>10. /\ Cat(q, d) \in Seq(Ops) /\ Len(Cat(q, d)) = 14 + 4
      /\ \A i \in 1 .. 14 + 4 : Cat(q, d)[i] = IF i <= 14 THEN q[i] ELSE d[i - 14]
  <2>. HIDE DEF p, q
  <2>1. Cat(q, d) \in Seq(Ops) /\ Joins(q, d, Cat(q, d))
    BY <1>4, <1>9, Joined
  <2>. QED
    BY <1>4, <1>9, <2>1 DEF Joins
<1>11. Main = Cat(q, d)
  BY <1>5
<1>12. /\ \A i \in 1 .. 6 : p[i] = IF i <= 5 THEN a[i] ELSE b[i - 5]
       /\ \A i \in 1 .. 14 : q[i] = IF i <= 6 THEN p[i] ELSE c[i - 6]
       /\ \A i \in 1 .. 18 : Main[i] = IF i <= 14 THEN q[i] ELSE d[i - 14]
  BY <1>6, <1>8, <1>10, <1>11
<1>13. DOMAIN Main = 1 .. 18
  BY <1>10, <1>11, LenProperties
<1>. HIDE DEF p, q
<1>14. /\ Main[1] = a[1] /\ Main[2] = a[2] /\ Main[3] = a[3] /\ Main[4] = a[4]
       /\ Main[5] = a[5] /\ Main[6] = b[1]
  BY <1>12
<1>15. /\ Main[7] = c[1] /\ Main[8] = c[2] /\ Main[9] = c[3] /\ Main[10] = c[4]
       /\ Main[11] = c[5] /\ Main[12] = c[6] /\ Main[13] = c[7] /\ Main[14] = c[8]
  BY <1>12
<1>16. Main[15] = d[1] /\ Main[16] = d[2] /\ Main[17] = d[3] /\ Main[18] = d[4]
  BY <1>12
<1>. QED
  BY <1>1, <1>2, <1>3, <1>4, <1>13, <1>14, <1>15, <1>16

LEMMA WorkerAt ==
  /\ DOMAIN Worker = 1 .. 4 * Iters + 1
  /\ \A k \in Nat : k < Iters => /\ Worker[4 * k + 1] = "emit" /\ Worker[4 * k + 2] = "alloc"
                                 /\ Worker[4 * k + 3] = "yield" /\ Worker[4 * k + 4] = "alloc"
  /\ Worker[4 * Iters + 1] = "exit"
<1>1. Iters \in Nat
  BY BootAssumption
<1>2. \A k \in Nat : k < Iters =>
        /\ 4 * k + 1 \in 1 .. 4 * Iters /\ (4 * k + 1 - 1) % 4 = 0
        /\ 4 * k + 2 \in 1 .. 4 * Iters /\ (4 * k + 2 - 1) % 4 = 1
        /\ 4 * k + 3 \in 1 .. 4 * Iters /\ (4 * k + 3 - 1) % 4 = 2
        /\ 4 * k + 4 \in 1 .. 4 * Iters /\ (4 * k + 4 - 1) % 4 = 3
  BY <1>1
<1>3. Turn[1] = "emit" /\ Turn[2] = "alloc" /\ Turn[3] = "yield" /\ Turn[4] = "alloc"
  BY DEF Turn
<1>. QED
  BY <1>1, <1>2, <1>3 DEF Worker

\* Which operations stand at which places of the workers' body.
LEMMA WorkerPlaces ==
  ASSUME NEW p \in DOMAIN Worker
  PROVE  \/ p = 4 * Iters + 1 /\ Worker[p] = "exit"
         \/ \E k \in 0 .. Iters - 1 :
              \/ p = 4 * k + 1 /\ Worker[p] = "emit"
              \/ p = 4 * k + 2 /\ Worker[p] = "alloc"
              \/ p = 4 * k + 3 /\ Worker[p] = "yield"
              \/ p = 4 * k + 4 /\ Worker[p] = "alloc"
<1>1. Iters \in Nat /\ p \in 1 .. 4 * Iters + 1
  BY BootAssumption, WorkerAt
<1>2. CASE p = 4 * Iters + 1
  BY <1>2, WorkerAt
<1>3. CASE p # 4 * Iters + 1
  <2>. DEFINE k == (p - 1) \div 4
  <2>1. k \in 0 .. Iters - 1 /\ p \in 4 * k + 1 .. 4 * k + 4
    BY <1>1, <1>3
  <2>. HIDE DEF k
  <2>2. /\ Worker[4 * k + 1] = "emit" /\ Worker[4 * k + 2] = "alloc"
        /\ Worker[4 * k + 3] = "yield" /\ Worker[4 * k + 4] = "alloc"
    BY <1>1, <2>1, WorkerAt
  <2>. QED
    BY <1>1, <2>1, <2>2
<1>. QED
  BY <1>2, <1>3

LEMMA BootBodies ==
  ASSUME Booted
  PROVE  /\ inits = 1 => BodyOf(1) = Worker /\ BodyOf(2) = Worker
         /\ inits = 2 => BodyOf(1) = Waiter /\ BodyOf(2) = Setter
         /\ BodyOf(0) = Main /\ 0 \in Ids /\ 1 \in Ids /\ 2 \in Ids
<1>1. 0 \in Ids /\ 1 \in Ids /\ 2 \in Ids
  BY KernelAssumption DEF Booted, Ids
<1>2. /\ Body[1] = [t \in Ids |-> IF t \in {1, 2} THEN Worker ELSE <<>>]
      /\ Body[2] = [t \in Ids |-> IF t = 1 THEN Waiter ELSE IF t = 2 THEN Setter ELSE <<>>]
  BY DEF Booted, BootBody
<1>3. /\ Body[1][1] = Worker /\ Body[1][2] = Worker
      /\ Body[2][1] = Waiter /\ Body[2][2] = Setter
  BY <1>1, <1>2
<1>. QED
  BY <1>1, <1>3 DEF BodyOf, Idle

\* Before its first sti a body has not asked for interrupts.
LEMMA WorkerNeverAsks ==
  ASSUME NEW p \in Nat, p <= 4 * Iters + 2
  PROVE  ~AskedFor(Worker, p)
<1>1. \A i \in 1 .. p - 1 : Worker[i] \notin {"sti", "cli"}
  <2>. SUFFICES ASSUME NEW i \in 1 .. p - 1
                PROVE  Worker[i] \notin {"sti", "cli"}
    OBVIOUS
  <2>1. i \in DOMAIN Worker
    BY WorkerAt, BootAssumption
  <2>. QED
    BY <2>1, WorkerPlaces
<1>. QED
  BY <1>1 DEF AskedFor

LEMMA MainNeverAsks ==
  ASSUME Booted, NEW p \in 1 .. 6
  PROVE  ~AskedFor(Main, p)
<1>1. \A i \in 1 .. p - 1 : Main[i] \notin {"sti", "cli"}
  BY MainAt
<1>. QED
  BY <1>1 DEF AskedFor

-----------------------------------------------------------------------------
(* What the calls of the bodies say about the places in them.              *)

LEMMA Exclusive ==
  ASSUME NEW c
  PROVE  /\ ~(Under(c, Routine("yield")) /\ Under(c, Routine("exit")))
         /\ ~(Under(c, Routine("yield")) /\ Under(c, Routine("spawn")))
         /\ ~(Under(c, Routine("yield")) /\ Under(c, Routine("init")))
         /\ ~(Under(c, Routine("yield")) /\ Under(c, Leaving))
         /\ Under(c, Leaving) => Under(c, Routine("exit"))
<1>1. /\ Routine("yield") = {"yield.lock", "yield.pick", "yield.switch"}
      /\ Routine("spawn") = {"spawn.lock", "spawn.push"}
      /\ Routine("init") = {"init.lock", "init.install"}
      /\ Routine("exit") = {"exit.lock", "exit.mark", "exit.yield", "dead"}
      /\ Leaving = {"exit.yield", "dead"}
  BY DEF Routine, Leaving
<1>. QED
  BY <1>1 DEF Under

\* In the body of a worker.
LEMMA WorkerCalls ==
  ASSUME NEW c \in Context, Calls(Worker, c)
  PROVE  /\ Under(c, Routine("yield")) => \E j \in 1 .. Iters : c.ip = 4 * j
         /\ Under(c, Routine("exit")) => c.ip = 4 * Iters + 2
         /\ Under(c, Leaving) => c.ip = 4 * Iters + 2
         /\ ~Under(c, Routine("spawn")) /\ ~Under(c, Routine("init"))
<1>1. \A o \in Routines : Under(c, Routine(o)) => c.ip - 1 \in DOMAIN Worker /\ Worker[c.ip - 1] = o
  BY DEF Calls
<1>2. /\ Under(c, Routine("yield")) => c.ip - 1 \in DOMAIN Worker /\ Worker[c.ip - 1] = "yield"
      /\ Under(c, Routine("exit")) => c.ip - 1 \in DOMAIN Worker /\ Worker[c.ip - 1] = "exit"
      /\ Under(c, Routine("spawn")) => c.ip - 1 \in DOMAIN Worker /\ Worker[c.ip - 1] = "spawn"
      /\ Under(c, Routine("init")) => c.ip - 1 \in DOMAIN Worker /\ Worker[c.ip - 1] = "init"
  BY <1>1 DEF Routines
<1>3. c.ip \in Nat /\ Iters \in Nat
  BY BootAssumption DEF Context
<1>4. ASSUME c.ip - 1 \in DOMAIN Worker, Worker[c.ip - 1] = "yield"
      PROVE  \E j \in 1 .. Iters : c.ip = 4 * j
  <2>1. PICK k \in 0 .. Iters - 1 : c.ip - 1 = 4 * k + 3
    BY <1>4, WorkerPlaces
  <2>2. k + 1 \in 1 .. Iters /\ c.ip = 4 * (k + 1)
    BY <1>3, <2>1
  <2>. QED
    BY <2>2
<1>5. ASSUME c.ip - 1 \in DOMAIN Worker, Worker[c.ip - 1] = "exit"
      PROVE  c.ip = 4 * Iters + 2
  <2>1. c.ip - 1 = 4 * Iters + 1
    BY <1>5, WorkerPlaces
  <2>. QED
    BY <1>3, <2>1
<1>6. c.ip - 1 \in DOMAIN Worker => Worker[c.ip - 1] # "spawn" /\ Worker[c.ip - 1] # "init"
  BY WorkerPlaces
<1>7. Under(c, Leaving) => Under(c, Routine("exit"))
  BY Exclusive
<1>. QED
  BY <1>2, <1>4, <1>5, <1>6, <1>7

\* In kernel_main.
LEMMA MainCalls ==
  ASSUME Booted, NEW c \in Context, Calls(Main, c)
  PROVE  /\ Under(c, Routine("yield")) => c.ip \in {4, 13, 18}
         /\ Under(c, Routine("spawn")) => c.ip \in {2, 3, 10, 11, 17}
         /\ Under(c, Routine("init")) => c.ip \in {9, 16}
         /\ ~Under(c, Routine("exit")) /\ ~Under(c, Leaving)
<1>1. /\ Under(c, Routine("yield")) => c.ip - 1 \in DOMAIN Main /\ Main[c.ip - 1] = "yield"
      /\ Under(c, Routine("exit")) => c.ip - 1 \in DOMAIN Main /\ Main[c.ip - 1] = "exit"
      /\ Under(c, Routine("spawn")) => c.ip - 1 \in DOMAIN Main /\ Main[c.ip - 1] = "spawn"
      /\ Under(c, Routine("init")) => c.ip - 1 \in DOMAIN Main /\ Main[c.ip - 1] = "init"
  BY DEF Calls, Routines
<1>2. c.ip \in Nat
  BY DEF Context
<1>3. \A i \in DOMAIN Main :
        /\ Main[i] # "exit"
        /\ Main[i] = "yield" => i \in {3, 12, 17}
        /\ Main[i] = "spawn" => i \in {1, 2, 9, 10, 16}
        /\ Main[i] = "init" => i \in {8, 15}
  BY MainAt
<1>4. Under(c, Leaving) => Under(c, Routine("exit"))
  BY Exclusive
<1>. QED
  BY <1>1, <1>2, <1>3, <1>4

-----------------------------------------------------------------------------
(* Steps of the running worker.                                            *)

LEMMA SameTurn ==
  ASSUME SameCall
  PROVE  /\ \A k : (InTurn(k)' <=> InTurn(k)) /\ Letter(k)' = Letter(k)
         /\ live'.ip = live.ip
         /\ In("yield")' <=> In("yield")
         /\ In("spawn")' <=> In("spawn")
         /\ In("init")' <=> In("init")
         /\ Under(live', Leaving) <=> Under(live, Leaving)
<1>1. live'.ip = live.ip /\ (Under(live', Leaving) <=> Under(live, Leaving))
  BY LeavingIsMark DEF SameCall
<1>2. /\ In("yield")' <=> In("yield")
      /\ In("spawn")' <=> In("spawn")
      /\ In("init")' <=> In("init")
  BY OwnMark DEF SameCall, In, Routines
<1>. QED
  BY <1>1, <1>2 DEF InTurn, Letter

\* The log grows by the name of the running task.
Writes == log' = Append(log, cpu)

LEMMA TurnStep ==
  ASSUME TypeOK, InBody, NEW o, Enters(o), Program = Worker, NEW k \in 0 .. Iters, InTurn(k),
         live.ip <= 4 * Iters + 2
  PROVE  /\ InTurn(k)' /\ live'.ip <= 4 * Iters + 2 /\ ~Under(live', Leaving)
         /\ \/ Writes /\ k < Iters /\ Letter(k) = 0 /\ Letter(k)' = 1
            \/ log' = log /\ Letter(k)' = Letter(k)
<1>1. /\ live.ip \in DOMAIN Worker /\ Worker[live.ip] = o /\ live'.ip = live.ip + 1
      /\ In("yield")' <=> o = "yield"
      /\ ~Under(live', Leaving)
  <2>1. Leaving \in Marks /\ Routine("yield") \in Marks
    BY LeavingIsMark, OwnMark DEF Routines
  <2>2. \A p \in Routines : Leaving # Routine(p)
    <3>1. /\ "yield.lock" \in Routine("yield") /\ "spawn.lock" \in Routine("spawn")
          /\ "init.lock" \in Routine("init") /\ "exit.lock" \in Routine("exit")
      BY DEF Routine
    <3>2. \A x \in {"yield.lock", "spawn.lock", "init.lock", "exit.lock"} : x \notin Leaving
      BY DEF Leaving
    <3>. QED
      BY <3>1, <3>2 DEF Routines
  <2>3. \A p \in Routines : Routine(p) = Routine("yield") => p = "yield"
    BY DEF Routine, Routines
  <2>4. "yield" \in Routines
    BY DEF Routines
  <2>5. live.ip \in DOMAIN Worker /\ Worker[live.ip] = o /\ live'.ip = live.ip + 1
    BY DEF Enters, Op
  <2>6. \A S \in Marks : Under(live', S) <=> o \in Routines /\ S = Routine(o)
    BY DEF Enters
  <2>7. In("yield")' <=> o = "yield"
    BY <2>1, <2>3, <2>4, <2>6 DEF In
  <2>8. ~Under(live', Leaving)
    BY <2>1, <2>2, <2>6
  <2>. QED
    BY <2>5, <2>7, <2>8
<1>2. live.ip \in 4 * k .. 4 * k + 3 /\ live.ip \in Nat /\ live.ip >= 1 /\ Iters \in Nat
  <2>1. ~In("yield")
    BY DEF In, Under, InBody
  <2>. QED
    BY <2>1, BootAssumption DEF InTurn, TypeOK, Context
<1>3. /\ o = "emit" => Writes
      /\ o # "emit" => log' = log
  BY DEF Enters, Writes
<1>4. CASE live.ip = 4 * Iters + 1 /\ o = "exit"
  BY <1>1, <1>2, <1>3, <1>4 DEF InTurn, Letter
<1>5. CASE \E j \in 0 .. Iters - 1 : live.ip = 4 * j + 1 /\ o = "emit"
  BY <1>1, <1>2, <1>3, <1>5 DEF InTurn, Letter
<1>6. CASE \E j \in 0 .. Iters - 1 : live.ip = 4 * j + 2 /\ o = "alloc"
  BY <1>1, <1>2, <1>3, <1>6 DEF InTurn, Letter
<1>7. CASE \E j \in 0 .. Iters - 1 : live.ip = 4 * j + 3 /\ o = "yield"
  BY <1>1, <1>2, <1>3, <1>7 DEF InTurn, Letter
<1>8. CASE \E j \in 0 .. Iters - 1 : live.ip = 4 * j + 4 /\ o = "alloc"
  BY <1>1, <1>2, <1>3, <1>8 DEF InTurn, Letter
<1>. QED
  BY <1>1, <1>4, <1>5, <1>6, <1>7, <1>8, WorkerPlaces

-----------------------------------------------------------------------------
(* From phase to phase of the cooperative self-test.                       *)

LogStep ==
  \/ log' = log
  \/ Writes /\ cpu = 1 /\ \E k \in Nat : Len(log) = 2 * k
  \/ Writes /\ cpu = 2 /\ \E k \in Nat : Len(log) = 2 * k + 1

\* Kernel's invariants and where each context stands in its body.
BootFacts == Booted /\ KernelInv /\ CallInv /\ log \in Seq(Ids)

LEMMA OneElement ==
  ASSUME NEW S, NEW s \in Seq(S), Len(s) = 1, NEW x, s[1] = x
  PROVE  s = <<x>>
OBVIOUS

LEMMA RunningWorker ==
  ASSUME BootFacts, inits = 1, cpu \in {1, 2}, live.ip <= 4 * Iters + 2
  PROVE  /\ Program = Worker /\ live \in Context /\ ~Asked(cpu, live)
         /\ In("yield") => \E j \in 1 .. Iters : live.ip = 4 * j
         /\ In("exit") => live.ip = 4 * Iters + 2
         /\ Under(live, Leaving) => live.ip = 4 * Iters + 2
         /\ ~In("spawn") /\ ~In("init")
<1>1. Program = Worker /\ BodyOf(cpu) = Worker
  BY BootBodies DEF BootFacts, Program
<1>2. live \in Context /\ Calls(Worker, live)
  BY <1>1 DEF BootFacts, KernelInv, TypeOK, CallInv
<1>3. ~Asked(cpu, live)
  BY <1>1, <1>2, WorkerNeverAsks DEF Asked, Context
<1>. QED
  BY <1>1, <1>2, <1>3, WorkerCalls DEF In

LEMMA ParkedWorker ==
  ASSUME BootFacts, inits = 1, NEW t \in {1, 2}, t # cpu
  PROVE  /\ parked[t] \in Context /\ ~Under(parked[t], Routine("yield"))
         /\ Under(parked[t], Leaving) => parked[t].ip = 4 * Iters + 2
<1>1. t \in Ids /\ BodyOf(t) = Worker
  BY BootBodies DEF BootFacts
<1>2. parked[t] \in Context /\ Calls(Worker, parked[t])
  BY <1>1 DEF BootFacts, KernelInv, TypeOK, CallInv
<1>. QED
  BY <1>1, <1>2, WorkerCalls, ParkedNotYield DEF BootFacts

LEMMA RunningMain ==
  ASSUME BootFacts, cpu = 0
  PROVE  /\ Program = Main /\ live \in Context
         /\ live.ip <= 6 => ~Asked(cpu, live)
         /\ In("yield") => live.ip \in {4, 13, 18}
         /\ In("spawn") => live.ip \in {2, 3, 10, 11, 17}
         /\ In("init") => live.ip \in {9, 16}
         /\ ~In("exit") /\ ~Under(live, Leaving)
<1>1. Program = Main /\ BodyOf(cpu) = Main
  BY BootBodies DEF BootFacts, Program
<1>2. live \in Context /\ Calls(Main, live)
  BY <1>1 DEF BootFacts, KernelInv, TypeOK, CallInv
<1>3. live.ip <= 6 => ~Asked(cpu, live)
  BY <1>1, <1>2, MainNeverAsks DEF Asked, Context, BootFacts
<1>. QED
  BY <1>1, <1>2, <1>3, MainCalls DEF In, BootFacts

\* What kernel_main does next, and that it never writes a letter.
LEMMA MainStep ==
  ASSUME BootFacts, cpu = 0, InBody, NEW o, Enters(o)
  PROVE  /\ live.ip \in 1 .. 18 /\ live'.ip = live.ip + 1 /\ log' = log /\ Main[live.ip] = o
         /\ \A p \in Routines : Under(live', Routine(p)) <=> p = o
<1>1. live.ip \in 1 .. 18 /\ Main[live.ip] = o /\ live'.ip = live.ip + 1
  BY RunningMain, MainAt DEF Enters, Op, BootFacts
<1>2. o # "emit"
  <2>1. \A i \in 1 .. 18 : Main[i] # "emit"
    BY MainAt DEF BootFacts
  <2>. QED
    BY <1>1, <2>1
<1>3. log' = log
  BY <1>2 DEF Enters
<1>4. ASSUME NEW p \in Routines
      PROVE  Under(live', Routine(p)) <=> p = o
  <2>1. Under(live', Routine(p)) <=> o \in Routines /\ Routine(p) = Routine(o)
    BY OwnMark DEF Enters
  <2>2. o \in Routines => (Routine(p) = Routine(o) <=> p = o)
    BY DEF Routine, Routines
  <2>. QED
    BY <2>1, <2>2
<1>. QED
  BY <1>1, <1>3, <1>4

LEMMA BeforeNext ==
  ASSUME BootFacts, inits = 1, Before, [Next]_vars
  PROVE  LogStep /\ (inits' = 1 => Before' \/ First')
<1>0. /\ TypeOK /\ KernelInv /\ Booted /\ 0 \in Ids /\ 1 \in Ids /\ 2 \in Ids
      /\ 1 # 0 /\ 2 # 0 /\ cpu = 0 /\ Iters \in Nat
  BY BootBodies, BootAssumption DEF BootFacts, KernelInv, Before
<1>1. /\ Program = Main /\ live \in Context /\ ~Asked(cpu, live)
      /\ In("yield") => live.ip = 4
      /\ In("spawn") => live.ip \in {2, 3}
      /\ ~In("init") /\ ~In("exit") /\ ~Under(live, Leaving)
  BY <1>0, RunningMain DEF Before
<1>2. CASE QuietEffect
  BY <1>2, SameTurn DEF QuietEffect, Before, Done, schedVars, testVars, LogStep
<1>3. CASE CallEffect
  <2>1. InBody /\ UNCHANGED <<schedVars, cpu, parked>> /\ current = 0
    BY <1>0, <1>3, InBodyFacts DEF CallEffect
  <2>2. PICK o : Enters(o)
    BY <1>3 DEF CallEffect
  <2>3. /\ live.ip \in 1 .. 18 /\ live'.ip = live.ip + 1 /\ log' = log /\ Main[live.ip] = o
        /\ \A p \in Routines : Under(live', Routine(p)) <=> p = o
    BY <1>0, <2>1, <2>2, MainStep
  <2>4. ~In("spawn") /\ ~In("yield")
    BY <2>1 DEF InBody, In, Under
  <2>5. /\ live.ip \in 1 .. 3
        /\ live.ip \in 1 .. 2 => o = "spawn"
        /\ live.ip = 3 => o = "yield"
    <3>1. live.ip \in 1 .. 4 /\ live.ip # 4
      BY <2>1, <2>4 DEF Before
    <3>2. Main[1] = "spawn" /\ Main[2] = "spawn" /\ Main[3] = "yield"
      BY <1>0, MainAt
    <3>3. live.ip \in {1, 2, 3}
      BY <3>1
    <3>. QED
      BY <2>3, <3>2, <3>3
  <2>6. (In("spawn")' <=> o = "spawn") /\ (In("yield")' <=> o = "yield")
    BY <2>3 DEF In, Routines
  <2>7. Before'
    BY <1>0, <2>1, <2>3, <2>4, <2>5, <2>6 DEF Before, Done, schedVars
  <2>. QED
    BY <2>3, <2>7 DEF LogStep
<1>4. CASE NoSwitchEffect
  <2>1. In("yield") /\ Chosen = current /\ log' = log
    BY <1>4 DEF NoSwitchEffect, In, testVars
  <2>2. live.ip = 4 /\ count = 3
    BY <1>1, <2>1 DEF Before
  <2>3. ready # <<>> /\ Head(ready) # current
    BY <1>0, <2>2 DEF Before, TypeOK
  <2>. QED
    BY <2>1, <2>3 DEF Chosen
<1>5. CASE ChooseEffect
  <2>1. In("yield") /\ Choose /\ current = 0 /\ UNCHANGED <<cpu, parked, testVars>> /\ SameCall
    BY <1>0, <1>1, <1>5 DEF ChooseEffect, In
  <2>2. live.ip = 4 /\ count = 3 /\ Len(ready) = 2 /\ ready[1] = 1 /\ ready[2] = 2
    <3>1. live.ip = 4
      BY <1>1, <2>1
    <3>2. count = 3
      BY <3>1 DEF Before
    <3>3. Len(ready) = count - 1 /\ \A i \in 1 .. count - 1 : ready[i] = i
      BY <2>1 DEF Before
    <3>. QED
      BY <3>1, <3>2, <3>3
  <2>3. ready \in Seq(1 .. 2) /\ ready # <<>>
    <3>1. ready \in Seq(1 .. count - 1) /\ count - 1 = 2
      BY <1>0, <2>2 DEF TypeOK
    <3>2. ready # <<>>
      BY <2>2
    <3>. QED
      BY <3>1, <3>2
  <2>4. Chosen = 1 /\ Rest = <<2>>
    <3>1. /\ Head(ready) = ready[1] /\ Tail(ready) \in Seq(1 .. 2)
          /\ Len(Tail(ready)) = Len(ready) - 1
          /\ \A i \in 1 .. Len(Tail(ready)) : Tail(ready)[i] = ready[i + 1]
      BY <2>3, HeadTailProperties
    <3>2. Len(Tail(ready)) = 1 /\ Tail(ready)[1] = 2
      BY <2>2, <3>1
    <3>3. Tail(ready) = <<2>>
      BY <3>1, <3>2, OneElement
    <3>. QED
      BY <2>2, <2>3, <3>1, <3>3 DEF Chosen, Rest
  <2>5. ~Requeues
    BY <2>1 DEF Requeues, Idle
  <2>6. /\ ready' = <<2>> /\ current' = 1 /\ state' = [state EXCEPT ![1] = "running"]
        /\ count' = count /\ inits' = inits
    BY <2>1, <2>4, <2>5 DEF Choose
  <2>7. ~Done(1)' /\ ~Done(2)'
    BY <1>0, <2>6 DEF Before, Done, TypeOK
  <2>8. Before'
    BY <1>0, <2>1, <2>2, <2>6, <2>7, SameTurn DEF Before, testVars
  <2>. QED
    BY <2>1, <2>8 DEF LogStep, testVars
<1>6. CASE SwitchEffect
  <2>1. /\ current = 1 /\ ready = <<2>> /\ live.ip = 4 /\ count = 3
        /\ parked' = [parked EXCEPT ![0] = Stopped] /\ Stopped.ip = live.ip
        /\ live' = parked[1] /\ cpu' = 1 /\ UNCHANGED <<schedVars, testVars>>
    BY <1>0, <1>6 DEF SwitchEffect, Before
  <2>2. /\ parked'[0] = Stopped /\ parked'[2] = parked[2]
    BY <1>0, <2>1 DEF TypeOK
  <2>3. ~Under(live', Routine("yield")) /\ ~Under(live', Leaving) /\ live'.ip = 1
    BY <1>0, <2>1, ParkedWorker DEF Before
  <2>4. Resting(parked'[2].ip, 0) /\ InTurn(0)' /\ Len(log') = 2 * 0 + Letter(0)'
    BY <2>1, <2>2, <2>3 DEF Before, Resting, InTurn, In, Letter, testVars
  <2>5. First'
    BY <1>0, <2>1, <2>2, <2>3, <2>4 DEF Before, First, Done, schedVars
  <2>. QED
    BY <2>1, <2>5 DEF LogStep, testVars
<1>7. CASE SpawnEffect
  <2>1. In("spawn") /\ live.ip \in {2, 3} /\ current = 0 /\ count = live.ip - 1
    BY <1>1, <1>7 DEF SpawnEffect, In, Before
  <2>2. /\ state' = [state EXCEPT ![count] = "ready"]
        /\ ready' = Append(ready, count) /\ count' = count + 1
        /\ parked' = [parked EXCEPT ![count] = Fresh]
        /\ UNCHANGED <<current, inits, cpu, testVars>> /\ live'.ip = live.ip
    BY <1>7 DEF SpawnEffect
  <2>3. ~In("spawn")'
    BY <1>7, OwnMark DEF SpawnEffect, In, Routines
  <2>4. /\ ~Done(1)' /\ ~Done(2)' /\ parked'[1].ip = 1 /\ parked'[2].ip = 1
    BY <1>0, <2>1, <2>2 DEF Before, Done, TypeOK, Fresh
  <2>5. Len(ready') = count' - 1 /\ \A i \in 1 .. count' - 1 : ready'[i] = i
    <3>1. Len(ready) = count - 1 /\ \A i \in 1 .. count - 1 : ready[i] = i
      BY <2>1 DEF Before
    <3>2. /\ Len(Append(ready, count)) = Len(ready) + 1
          /\ \A i \in 1 .. Len(ready) : Append(ready, count)[i] = ready[i]
          /\ Append(ready, count)[Len(ready) + 1] = count
      BY <1>0, AppendProperties DEF TypeOK
    <3>. QED
      BY <2>1, <2>2, <3>1, <3>2
  <2>6. Before'
    BY <1>0, <2>1, <2>2, <2>3, <2>4, <2>5 DEF Before, testVars
  <2>. QED
    BY <2>2, <2>6 DEF LogStep, testVars
<1>8. CASE MarkEffect \/ InstallEffect
  BY <1>1, <1>8 DEF MarkEffect, InstallEffect, In
<1>. QED
  BY <1>0, <1>2, <1>3, <1>4, <1>5, <1>6, <1>7, <1>8, StepEffect

LEMMA LogGrows ==
  ASSUME log \in Seq(Ids), cpu \in Ids, Writes
  PROVE  Len(log') = Len(log) + 1
BY AppendProperties DEF Writes

LEMMA FirstNext ==
  ASSUME BootFacts, inits = 1, First, [Next]_vars
  PROVE  LogStep /\ (First' \/ Second' \/ Last')
<1>0. /\ TypeOK /\ KernelInv /\ Booted /\ 0 \in Ids /\ 1 \in Ids /\ 2 \in Ids
      /\ cpu = 1 /\ Iters \in Nat /\ live.ip <= 4 * Iters + 2
  BY BootBodies, BootAssumption DEF BootFacts, KernelInv, First
<1>1. /\ Program = Worker /\ live \in Context /\ ~Asked(cpu, live)
      /\ In("yield") => \E j \in 1 .. Iters : live.ip = 4 * j
      /\ In("exit") => live.ip = 4 * Iters + 2
      /\ Under(live, Leaving) => live.ip = 4 * Iters + 2
      /\ ~In("spawn") /\ ~In("init")
  BY <1>0, RunningWorker
<1>2. PICK k \in 0 .. Iters :
        Resting(parked[2].ip, k) /\ InTurn(k) /\ Len(log) = 2 * k + Letter(k)
  BY DEF First
<1>3. ~(In("yield") /\ Under(live, Leaving))
  BY Exclusive DEF In
<1>4. CASE QuietEffect
  <2>1. /\ UNCHANGED <<state, count, ready, current, cpu, parked, log>>
        /\ live'.ip = live.ip /\ InTurn(k)' /\ Letter(k)' = Letter(k)
        /\ Under(live', Leaving) <=> Under(live, Leaving)
    BY <1>2, <1>4, SameTurn DEF QuietEffect, schedVars, testVars
  <2>2. First'
    BY <1>0, <1>2, <2>1 DEF First, Done
  <2>. QED
    BY <2>1, <2>2 DEF LogStep
<1>5. CASE CallEffect
  <2>1. /\ InBody /\ UNCHANGED <<state, count, ready, current, cpu, parked>>
        /\ ~Under(live, Leaving) /\ current = 1
    BY <1>0, <1>5, InBodyFacts DEF CallEffect, schedVars, InBody, Under
  <2>2. PICK o : Enters(o)
    BY <1>5 DEF CallEffect
  <2>3. /\ InTurn(k)' /\ live'.ip <= 4 * Iters + 2 /\ ~Under(live', Leaving)
        /\ \/ Writes /\ k < Iters /\ Letter(k) = 0 /\ Letter(k)' = 1
           \/ log' = log /\ Letter(k)' = Letter(k)
    BY <1>0, <1>1, <1>2, <2>1, <2>2, TurnStep
  <2>4. Len(log') = 2 * k + Letter(k)' /\ LogStep
    <3>1. CASE Writes /\ Letter(k) = 0 /\ Letter(k)' = 1
      <4>1. Len(log) = 2 * k /\ k \in Nat /\ Len(log') = 2 * k + 1
        BY <1>0, <1>2, <3>1, LogGrows DEF BootFacts
      <4>. QED
        BY <1>0, <3>1, <4>1 DEF LogStep
    <3>2. CASE log' = log /\ Letter(k)' = Letter(k)
      BY <1>2, <3>2 DEF LogStep
    <3>. QED
      BY <2>3, <3>1, <3>2
  <2>5. First'
    BY <1>0, <1>2, <2>1, <2>3, <2>4 DEF First, Done
  <2>. QED
    BY <2>4, <2>5
<1>6. CASE NoSwitchEffect
  <2>1. In("yield") /\ Chosen = current
    BY <1>6 DEF NoSwitchEffect, In
  <2>2. ~Done(1)
    BY <1>3, <2>1 DEF First
  <2>3. (current = 1 /\ ready = <<2>>) \/ (current = 2 /\ ready = <<1>>)
    BY <2>2 DEF First
  <2>. QED
    BY <2>1, <2>3 DEF Chosen
<1>7. CASE ChooseEffect
  <2>1. /\ Choose /\ current = 1 /\ UNCHANGED <<cpu, parked, log>>
        /\ live'.ip = live.ip /\ InTurn(k)' /\ Letter(k)' = Letter(k)
        /\ Under(live', Leaving) <=> Under(live, Leaving)
    BY <1>0, <1>2, <1>7, SameTurn DEF ChooseEffect, testVars
  <2>2. ready = <<2>> /\ Chosen = 2 /\ Rest = <<>>
    <3>1. ready = <<2>>
      BY <2>1 DEF First
    <3>. QED
      BY <3>1 DEF Chosen, Rest
  <2>3. current' = 2 /\ count' = count
    BY <2>1, <2>2 DEF Choose
  <2>4. Requeues <=> ~Done(1)
    BY <2>1 DEF Requeues, Done, Idle
  <2>5. CASE Done(1)
    <3>1. ready' = <<>> /\ state' = [state EXCEPT ![2] = "running"]
      BY <2>1, <2>2, <2>4, <2>5 DEF Choose
    <3>2. Done(1)' /\ ~Done(2)'
      BY <1>0, <2>5, <3>1 DEF Done, TypeOK
    <3>3. First'
      BY <1>0, <1>2, <2>1, <2>3, <2>5, <3>1, <3>2 DEF First
    <3>. QED
      BY <2>1, <3>3 DEF LogStep
  <2>6. CASE ~Done(1)
    <3>1. ready' = <<1>> /\ state' = [[state EXCEPT ![1] = "ready"] EXCEPT ![2] = "running"]
      <4>1. Requeues /\ Append(<<>>, 1) = <<1>>
        BY <2>4, <2>6
      <4>2. ready' = Append(Rest, current)
        BY <2>1, <4>1 DEF Choose
      <4>3. state' = [[state EXCEPT ![current] = "ready"] EXCEPT ![Chosen] = "running"]
        BY <2>1, <4>1, Zenon DEF Choose
      <4>. QED
        BY <2>1, <2>2, <4>1, <4>2, <4>3
    <3>2. ~Done(1)' /\ ~Done(2)'
      BY <1>0, <3>1 DEF Done, TypeOK
    <3>3. First'
      BY <1>0, <1>2, <2>1, <2>3, <2>6, <3>1, <3>2 DEF First
    <3>. QED
      BY <2>1, <3>3 DEF LogStep
  <2>. QED
    BY <2>5, <2>6
<1>8. CASE SwitchEffect
  <2>1. /\ current = 2 /\ UNCHANGED <<state, count, ready, current, log>>
        /\ parked' = [parked EXCEPT ![1] = Stopped] /\ Stopped.ip = live.ip
        /\ live' = parked[2] /\ cpu' = 2
        /\ In("yield") \/ Under(live, Leaving)
    BY <1>0, <1>1, <1>8 DEF SwitchEffect, First, In, schedVars, testVars
  <2>2. parked'[1].ip = live.ip /\ parked'[0] = parked[0]
    BY <1>0, <2>1 DEF TypeOK
  <2>3. /\ ~Under(live', Routine("yield")) /\ (k = 0 => live'.ip = 1) /\ (k # 0 => live'.ip = 4 * k)
        /\ ~Under(live', Leaving)
    <3>1. (k = 0 => live'.ip = 1) /\ (k # 0 => live'.ip = 4 * k)
      BY <1>2, <2>1 DEF Resting
    <3>2. live'.ip # 4 * Iters + 2
      BY <1>0, <3>1
    <3>. QED
      BY <1>0, <2>1, <3>1, <3>2, ParkedWorker
  <2>4. InTurn(k)' /\ Letter(k)' = 0
    BY <2>3 DEF InTurn, In, Letter
  <2>5. CASE In("yield")
    <3>1. live.ip = 4 * k + 4 /\ k \in 0 .. Iters - 1
      BY <1>0, <1>1, <1>2, <2>5 DEF InTurn
    <3>2. Len(log) = 2 * k + 1
      BY <1>0, <1>2, <3>1 DEF Letter
    <3>3. ~Done(1) /\ ready = <<1>>
      BY <1>3, <2>1, <2>5 DEF First
    <3>4. Second'
      BY <1>0, <2>1, <2>2, <2>3, <2>4, <3>1, <3>2, <3>3 DEF First, Second, Done
    <3>. QED
      BY <2>1, <3>4 DEF LogStep
  <2>6. CASE Under(live, Leaving)
    <3>1. live.ip = 4 * Iters + 2 /\ k = Iters
      BY <1>0, <1>1, <1>2, <2>6 DEF InTurn
    <3>2. Len(log) = 2 * Iters
      BY <1>2, <3>1 DEF Letter
    <3>3. Done(1) /\ ready = <<>>
      BY <2>1, <2>6 DEF First
    <3>4. live'.ip <= 4 * Iters + 2 /\ ~In("yield")'
      BY <1>0, <2>3, <3>1 DEF In
    <3>5. Last'
      BY <1>0, <2>1, <2>2, <2>3, <2>4, <3>1, <3>2, <3>3, <3>4 DEF First, Last, Done
    <3>. QED
      BY <2>1, <3>5 DEF LogStep
  <2>. QED
    BY <2>1, <2>5, <2>6
<1>9. CASE MarkEffect
  <2>1. /\ In("exit") /\ current = 1 /\ state' = [state EXCEPT ![1] = "finished"]
        /\ UNCHANGED <<count, ready, current, cpu, parked, log>>
        /\ live'.ip = live.ip /\ Under(live', Leaving) /\ ~In("yield")'
    BY <1>0, <1>9 DEF MarkEffect, In, testVars
  <2>2. Done(1)' /\ ~Done(2)'
    BY <1>0, <2>1 DEF First, Done, TypeOK
  <2>3. InTurn(k)' /\ Letter(k)' = Letter(k)
    <3>1. ~In("yield")
      BY <2>1, Exclusive DEF In
    <3>. QED
      BY <1>2, <2>1, <3>1 DEF InTurn, Letter
  <2>4. First'
    BY <1>0, <1>2, <2>1, <2>2, <2>3 DEF First
  <2>. QED
    BY <2>1, <2>4 DEF LogStep
<1>10. CASE SpawnEffect \/ InstallEffect
  BY <1>1, <1>10 DEF SpawnEffect, InstallEffect, In
<1>. QED
  BY <1>0, <1>4, <1>5, <1>6, <1>7, <1>8, <1>9, <1>10, StepEffect

LEMMA SecondNext ==
  ASSUME BootFacts, inits = 1, Second, [Next]_vars
  PROVE  LogStep /\ (First' \/ Second')
<1>0. /\ TypeOK /\ KernelInv /\ Booted /\ 0 \in Ids /\ 1 \in Ids /\ 2 \in Ids
      /\ cpu = 2 /\ Iters \in Nat /\ ~Done(1) /\ ~Done(2) /\ ~Under(live, Leaving)
  BY BootBodies, BootAssumption DEF BootFacts, KernelInv, Second
<1>1. PICK k \in 0 .. Iters - 1 :
        parked[1].ip = 4 * k + 4 /\ InTurn(k) /\ Len(log) = 2 * k + 1 + Letter(k)
  BY DEF Second
<1>2. live.ip <= 4 * Iters
  BY <1>0, <1>1 DEF InTurn
<1>3. /\ Program = Worker /\ live \in Context /\ ~Asked(cpu, live)
      /\ In("yield") => \E j \in 1 .. Iters : live.ip = 4 * j
      /\ ~In("exit") /\ ~In("spawn") /\ ~In("init")
  BY <1>0, <1>2, RunningWorker DEF TypeOK, Context
<1>4. CASE QuietEffect
  <2>1. /\ UNCHANGED <<state, count, ready, current, cpu, parked, log>>
        /\ live'.ip = live.ip /\ InTurn(k)' /\ Letter(k)' = Letter(k)
        /\ Under(live', Leaving) <=> Under(live, Leaving)
    BY <1>1, <1>4, SameTurn DEF QuietEffect, schedVars, testVars
  <2>2. Second'
    BY <1>0, <1>1, <2>1 DEF Second, Done
  <2>. QED
    BY <2>1, <2>2 DEF LogStep
<1>5. CASE CallEffect
  <2>1. /\ InBody /\ UNCHANGED <<state, count, ready, current, cpu, parked>> /\ current = 2
    BY <1>0, <1>5, InBodyFacts DEF CallEffect, schedVars
  <2>2. PICK o : Enters(o)
    BY <1>5 DEF CallEffect
  <2>3. /\ InTurn(k)' /\ ~Under(live', Leaving)
        /\ \/ Writes /\ k < Iters /\ Letter(k) = 0 /\ Letter(k)' = 1
           \/ log' = log /\ Letter(k)' = Letter(k)
    <3>1. k \in 0 .. Iters /\ live.ip <= 4 * Iters + 2
      BY <1>0, <1>3, <1>2 DEF Context
    <3>. QED
      BY <1>0, <1>3, <1>1, <2>1, <2>2, <3>1, TurnStep
  <2>4. Len(log') = 2 * k + 1 + Letter(k)' /\ LogStep
    <3>1. CASE Writes /\ Letter(k) = 0 /\ Letter(k)' = 1
      <4>1. Len(log) = 2 * k + 1 /\ k \in Nat /\ Len(log') = 2 * k + 1 + 1
        BY <1>0, <1>1, <3>1, LogGrows DEF BootFacts
      <4>. QED
        BY <1>0, <3>1, <4>1 DEF LogStep
    <3>2. CASE log' = log /\ Letter(k)' = Letter(k)
      BY <1>1, <3>2 DEF LogStep
    <3>. QED
      BY <2>3, <3>1, <3>2
  <2>5. Second'
    BY <1>0, <1>1, <2>1, <2>3, <2>4 DEF Second, Done
  <2>. QED
    BY <2>4, <2>5
<1>6. CASE NoSwitchEffect
  <2>1. Chosen = current
    BY <1>6 DEF NoSwitchEffect
  <2>2. (current = 2 /\ ready = <<1>>) \/ (current = 1 /\ ready = <<2>>)
    BY DEF Second
  <2>. QED
    BY <2>1, <2>2 DEF Chosen
<1>7. CASE ChooseEffect
  <2>1. /\ Choose /\ current = 2 /\ UNCHANGED <<cpu, parked, log>>
        /\ live'.ip = live.ip /\ InTurn(k)' /\ Letter(k)' = Letter(k)
        /\ Under(live', Leaving) <=> Under(live, Leaving)
    BY <1>0, <1>1, <1>7, SameTurn DEF ChooseEffect, testVars
  <2>2. Chosen = 1 /\ Rest = <<>>
    <3>1. ready = <<1>>
      BY <2>1 DEF Second
    <3>. QED
      BY <3>1 DEF Chosen, Rest
  <2>3. current' = 1 /\ count' = count
    BY <2>1, <2>2 DEF Choose
  <2>4. Requeues
    BY <1>0, <2>1 DEF Requeues, Done, Idle
  <2>5. ready' = <<2>> /\ state' = [[state EXCEPT ![2] = "ready"] EXCEPT ![1] = "running"]
    <3>1. Append(<<>>, 2) = <<2>>
      OBVIOUS
    <3>2. ready' = Append(Rest, current)
      BY <2>1, <2>4 DEF Choose
    <3>3. state' = [[state EXCEPT ![current] = "ready"] EXCEPT ![Chosen] = "running"]
      BY <2>1, <2>4, Zenon DEF Choose
    <3>. QED
      BY <2>1, <2>2, <3>1, <3>2, <3>3
  <2>6. ~Done(1)' /\ ~Done(2)'
    BY <1>0, <2>5 DEF Done, TypeOK
  <2>7. Second'
    BY <1>0, <1>1, <2>1, <2>3, <2>5, <2>6 DEF Second
  <2>. QED
    BY <2>1, <2>7 DEF LogStep
<1>8. CASE SwitchEffect
  <2>1. /\ current = 1 /\ UNCHANGED <<state, count, ready, current, log>>
        /\ parked' = [parked EXCEPT ![2] = Stopped] /\ Stopped.ip = live.ip
        /\ live' = parked[1] /\ cpu' = 1 /\ In("yield")
    BY <1>0, <1>3, <1>8 DEF SwitchEffect, Second, In, schedVars, testVars
  <2>2. parked'[2].ip = live.ip /\ parked'[0] = parked[0]
    BY <1>0, <2>1 DEF TypeOK
  <2>3. live.ip = 4 * k + 4 /\ Len(log) = 2 * (k + 1)
    <3>1. live.ip = 4 * k + 4
      BY <1>1, <2>1 DEF InTurn
    <3>. QED
      BY <1>0, <1>1, <3>1 DEF Letter
  <2>4. live'.ip = 4 * (k + 1) /\ ~Under(live', Routine("yield")) /\ ~Under(live', Leaving)
    <3>1. live'.ip = 4 * (k + 1) /\ live'.ip # 4 * Iters + 2
      BY <1>0, <1>1, <2>1
    <3>. QED
      BY <1>0, <2>1, <3>1, ParkedWorker
  <2>5. InTurn(k + 1)' /\ Letter(k + 1)' = 0 /\ live'.ip <= 4 * Iters + 2
    BY <1>0, <2>4 DEF InTurn, In, Letter
  <2>6. Resting(parked'[2].ip, k + 1) /\ k + 1 \in 0 .. Iters
    BY <1>0, <2>2, <2>3 DEF Resting
  <2>7. ready = <<2>>
    BY <2>1 DEF Second
  <2>8. First'
    BY <1>0, <2>1, <2>2, <2>3, <2>4, <2>5, <2>6, <2>7 DEF First, Second, Done
  <2>. QED
    BY <2>1, <2>8 DEF LogStep
<1>9. CASE MarkEffect \/ SpawnEffect \/ InstallEffect
  BY <1>3, <1>9 DEF MarkEffect, SpawnEffect, InstallEffect, In
<1>. QED
  BY <1>0, <1>4, <1>5, <1>6, <1>7, <1>8, <1>9, StepEffect

LEMMA LastNext ==
  ASSUME BootFacts, inits = 1, Last, [Next]_vars
  PROVE  LogStep /\ (Last' \/ After')
<1>0. /\ TypeOK /\ KernelInv /\ Booted /\ 0 \in Ids /\ 1 \in Ids /\ 2 \in Ids
      /\ cpu = 2 /\ Iters \in Nat /\ live.ip <= 4 * Iters + 2 /\ ~In("yield")
      /\ InTurn(Iters) /\ Done(1) /\ (Done(2) <=> Under(live, Leaving))
  BY BootBodies, BootAssumption DEF BootFacts, KernelInv, Last
<1>1. Program = Worker /\ ~Asked(cpu, live) /\ ~In("spawn") /\ ~In("init")
  BY <1>0, RunningWorker
<1>2. CASE QuietEffect
  <2>1. /\ UNCHANGED <<state, count, ready, current, cpu, parked, log>>
        /\ live'.ip = live.ip /\ InTurn(Iters)' /\ ~In("yield")'
        /\ Under(live', Leaving) <=> Under(live, Leaving)
    BY <1>0, <1>2, SameTurn DEF QuietEffect, schedVars, testVars
  <2>2. Last'
    BY <1>0, <2>1 DEF Last, Done
  <2>. QED
    BY <2>1, <2>2 DEF LogStep
<1>3. CASE CallEffect
  <2>1. /\ InBody /\ UNCHANGED <<state, count, ready, current, cpu, parked>>
        /\ ~Under(live, Leaving) /\ current = 2
    BY <1>0, <1>3, InBodyFacts DEF CallEffect, schedVars, InBody, Under
  <2>2. PICK o : Enters(o)
    BY <1>3 DEF CallEffect
  <2>3. InTurn(Iters)' /\ live'.ip <= 4 * Iters + 2 /\ ~Under(live', Leaving) /\ log' = log
    BY <1>0, <1>1, <2>1, <2>2, TurnStep
  <2>4. ~In("yield")'
    BY <1>0, <2>3 DEF InTurn
  <2>5. Last'
    BY <1>0, <2>1, <2>3, <2>4 DEF Last, Done
  <2>. QED
    BY <2>3, <2>5 DEF LogStep
<1>4. CASE ChooseEffect
  <2>1. /\ Choose /\ current = 2 /\ UNCHANGED <<cpu, parked, log>>
        /\ live'.ip = live.ip /\ InTurn(Iters)' /\ ~In("yield")'
        /\ Under(live', Leaving) <=> Under(live, Leaving)
        /\ Under(live, Leaving)
    BY <1>0, <1>1, <1>4, SameTurn DEF ChooseEffect, testVars, In
  <2>2. Chosen = 0 /\ Rest = <<>>
    BY DEF Chosen, Rest, Last, Idle
  <2>3. ~Requeues
    BY <1>0, <2>1 DEF Requeues, Done
  <2>4. /\ ready' = <<>> /\ state' = [state EXCEPT ![0] = "running"]
        /\ current' = 0 /\ count' = count
    BY <2>1, <2>2, <2>3 DEF Choose
  <2>5. Done(1)' /\ Done(2)'
    BY <1>0, <2>1, <2>4 DEF Done, TypeOK
  <2>6. Last'
    BY <1>0, <2>1, <2>4, <2>5 DEF Last
  <2>. QED
    BY <2>1, <2>6 DEF LogStep
<1>5. CASE SwitchEffect
  <2>1. /\ current = 0 /\ UNCHANGED <<state, count, ready, current, log>>
        /\ live' = parked[0] /\ cpu' = 0 /\ Done(2)
    BY <1>0, <1>5 DEF SwitchEffect, Last, schedVars, testVars
  <2>2. live'.ip = 4 /\ ~In("yield")'
    BY <1>0, <2>1, ParkedNotYield DEF Last, In
  <2>3. After'
    BY <1>0, <2>1, <2>2 DEF Last, After, Done
  <2>. QED
    BY <2>1, <2>3 DEF LogStep
<1>6. CASE MarkEffect
  <2>1. /\ current = 2 /\ state' = [state EXCEPT ![2] = "finished"]
        /\ UNCHANGED <<count, ready, current, cpu, parked, log>>
        /\ live'.ip = live.ip /\ Under(live', Leaving) /\ ~In("yield")'
    BY <1>0, <1>6 DEF MarkEffect, In, testVars
  <2>2. Done(1)' /\ Done(2)'
    BY <1>0, <2>1 DEF Done, TypeOK
  <2>3. InTurn(Iters)'
    BY <1>0, <2>1 DEF InTurn
  <2>4. Last'
    BY <1>0, <2>1, <2>2, <2>3 DEF Last
  <2>. QED
    BY <2>1, <2>4 DEF LogStep
<1>7. CASE NoSwitchEffect \/ SpawnEffect \/ InstallEffect
  BY <1>0, <1>1, <1>7 DEF NoSwitchEffect, SpawnEffect, InstallEffect, In
<1>. QED
  BY <1>0, <1>2, <1>3, <1>4, <1>5, <1>6, <1>7, StepEffect

LEMMA AfterNext ==
  ASSUME BootFacts, inits = 1, After, [Next]_vars
  PROVE  LogStep /\ (inits' = 1 => After')
<1>0. /\ TypeOK /\ KernelInv /\ Booted /\ cpu = 0 /\ current = 0 /\ ready = <<>>
      /\ live.ip \in 4 .. 9 /\ ~In("yield") /\ (live.ip = 9 => In("init"))
  BY DEF BootFacts, KernelInv, After
<1>1. ~In("spawn") /\ ~In("exit")
  BY <1>0, RunningMain
<1>2. Chosen = current
  BY <1>0 DEF Chosen, Idle
<1>3. CASE QuietEffect
  <2>1. /\ UNCHANGED <<state, ready, current, cpu, log>>
        /\ live'.ip = live.ip /\ ~In("yield")' /\ (In("init")' <=> In("init"))
    BY <1>0, <1>3, SameTurn DEF QuietEffect, schedVars, testVars
  <2>2. After'
    BY <2>1 DEF After, Done
  <2>. QED
    BY <2>1, <2>2 DEF LogStep
<1>4. CASE CallEffect
  <2>1. InBody /\ UNCHANGED <<state, ready, current, cpu>> /\ ~In("init")
    BY <1>4 DEF CallEffect, schedVars, InBody, In, Under
  <2>2. PICK o : Enters(o)
    BY <1>4 DEF CallEffect
  <2>3. /\ live'.ip = live.ip + 1 /\ log' = log /\ Main[live.ip] = o
        /\ (In("yield")' <=> o = "yield") /\ (In("init")' <=> o = "init")
    BY <1>0, <2>1, <2>2, MainStep DEF In, Routines
  <2>4. live.ip \in 4 .. 8 /\ o # "yield" /\ (live.ip = 8 => o = "init")
    BY <1>0, <2>1, <2>3, MainAt
  <2>5. After'
    BY <1>0, <2>1, <2>3, <2>4 DEF After, Done
  <2>. QED
    BY <2>3, <2>5 DEF LogStep
<1>5. CASE NoSwitchEffect \/ ChooseEffect \/ SwitchEffect \/ SpawnEffect \/ MarkEffect
  BY <1>0, <1>1, <1>2, <1>5
     DEF NoSwitchEffect, ChooseEffect, SwitchEffect, SpawnEffect, MarkEffect, In
<1>6. CASE InstallEffect
  BY <1>0, <1>6 DEF InstallEffect, testVars, LogStep, TypeOK
<1>. QED
  BY <1>0, <1>3, <1>4, <1>5, <1>6, StepEffect

-----------------------------------------------------------------------------
(* The preemptive self-test, and both as an invariant.                     *)

Pos(t) == IF cpu = t THEN live.ip ELSE parked[t].ip

\* The waiter is behind its loop only with the flag seen.
WaitInv == inits = 2 => (Pos(1) >= 4 \/ Done(1) => saw)

BootInv == KernelInv /\ CallInv /\ CoopInv /\ LogInv /\ WaitInv

LEMMA InitsGrow ==
  ASSUME KernelInv, [Next]_vars
  PROVE  inits' = inits \/ (InstallEffect /\ inits' = inits + 1)
BY StepEffect
   DEF QuietEffect, CallEffect, NoSwitchEffect, ChooseEffect, Choose, SwitchEffect, SpawnEffect,
       MarkEffect, InstallEffect, schedVars

LEMMA WaiterAt ==
  /\ DOMAIN Waiter = 1 .. 4 /\ Waiter[1] = "sti" /\ Waiter[2] = "wait"
  /\ Waiter[3] = "saw" /\ Waiter[4] = "exit"
BY DEF Waiter

\* No body after the first scheduler's writes a letter.
LEMMA LogKept ==
  ASSUME BootFacts, inits # 1, [Next]_vars
  PROVE  log' = log
<1>0. TypeOK /\ KernelInv /\ Booted /\ inits \in {2, 3} /\ cpu \in Ids
  BY DEF BootFacts, KernelInv, TypeOK, Booted
<1>1. CASE CallEffect
  <2>1. PICK o : Enters(o)
    BY <1>1 DEF CallEffect
  <2>2. CASE cpu = 0
    BY <1>1, <2>1, <2>2, MainStep DEF CallEffect
  <2>3. CASE cpu # 0
    <3>1. live.ip \in DOMAIN Body[inits][cpu] /\ Body[inits][cpu][live.ip] = o
      BY <2>1, <2>3 DEF Enters, Op, Program, BodyOf, Idle
    <3>2. /\ Body[2] = [t \in Ids |-> IF t = 1 THEN Waiter ELSE IF t = 2 THEN Setter ELSE <<>>]
          /\ Body[3] = [t \in Ids |-> IF t = 1 THEN ShellMain ELSE <<>>]
      BY <1>0 DEF Booted, BootBody
    <3>3. \/ Body[inits][cpu] = Waiter \/ Body[inits][cpu] = Setter
          \/ Body[inits][cpu] = ShellMain \/ Body[inits][cpu] = <<>>
      BY <1>0, <3>2
    <3>4. /\ \A i \in DOMAIN Waiter : Waiter[i] # "emit"
          /\ \A i \in DOMAIN Setter : Setter[i] # "emit"
          /\ \A i \in DOMAIN ShellMain : ShellMain[i] # "emit"
          /\ DOMAIN <<>> = {}
      BY DEF Waiter, Setter, ShellMain
    <3>5. o # "emit"
      BY <3>1, <3>3, <3>4
    <3>. QED
      BY <2>1, <3>5 DEF Enters
  <2>. QED
    BY <2>2, <2>3
<1>2. CASE ~CallEffect
  BY <1>0, <1>2, StepEffect
     DEF QuietEffect, NoSwitchEffect, ChooseEffect, SwitchEffect, SpawnEffect, MarkEffect,
         InstallEffect, testVars
<1>. QED
  BY <1>1, <1>2

LEMMA CoopNext ==
  ASSUME Booted, BootInv, [Next]_vars
  PROVE  CoopInv' /\ LogStep
<1>1. BootFacts
  BY DEF BootInv, BootFacts, LogInv
<1>2. CASE inits = 1
  <2>1. Before \/ First \/ Second \/ Last \/ After
    BY <1>2 DEF BootInv, CoopInv
  <2>. QED
    BY <1>1, <1>2, <2>1, BeforeNext, FirstNext, SecondNext, LastNext, AfterNext DEF CoopInv
<1>3. CASE inits # 1
  <2>1. inits' # 1
    BY <1>3, InitsGrow DEF BootInv, KernelInv, TypeOK
  <2>. QED
    BY <1>1, <1>3, <2>1, LogKept DEF CoopInv, LogStep
<1>. QED
  BY <1>2, <1>3

LEMMA LogNext ==
  ASSUME TypeOK, LogInv, LogStep
  PROVE  LogInv'
<1>1. CASE log' = log
  BY <1>1 DEF LogInv
<1>2. CASE Writes
  <2>1. /\ log' \in Seq(Ids) /\ Len(log') = Len(log) + 1 /\ Len(log) \in Nat
        /\ \A i \in 1 .. Len(log) : log'[i] = log[i]
        /\ log'[Len(log) + 1] = cpu
    BY <1>2, AppendProperties, LenProperties DEF Writes, LogInv, TypeOK
  <2>2. cpu = IF (Len(log) + 1) % 2 = 1 THEN 1 ELSE 2
    <3>1. CASE cpu = 1 /\ \E k \in Nat : Len(log) = 2 * k
      BY <3>1
    <3>2. CASE cpu = 2 /\ \E k \in Nat : Len(log) = 2 * k + 1
      BY <3>2
    <3>3. CASE log' = log
      BY <2>1, <3>3
    <3>. QED
      BY <3>1, <3>2, <3>3 DEF LogStep
  <2>. QED
    BY <2>1, <2>2 DEF LogInv
<1>. QED
  BY <1>1, <1>2 DEF LogStep

LEMMA WaitNext ==
  ASSUME Booted, BootInv, [Next]_vars
  PROVE  WaitInv'
<1>0. TypeOK /\ KernelInv /\ CallInv /\ WaitInv /\ 1 \in Ids /\ BodyOf(0) = Main
  BY BootBodies DEF BootInv, KernelInv
<1>1. CASE InstallEffect
  <2>1. cpu' = 0 /\ parked'[1] = Fresh /\ state'[1] # "finished"
    BY <1>0, <1>1 DEF InstallEffect, WithIdle, Idle
  <2>. QED
    BY <2>1 DEF WaitInv, Pos, Done, Fresh
<1>. SUFFICES ASSUME inits = 2, inits' = inits
              PROVE  /\ (saw => saw')
                     /\ Pos(1)' >= 4 => Pos(1) >= 4 \/ saw'
                     /\ Done(1)' => Done(1) \/ saw'
  BY <1>0, <1>1, InitsGrow DEF WaitInv
<1>2. BodyOf(1) = Waiter /\ (cpu = 1 => Program = Waiter /\ Calls(Waiter, live))
  BY <1>0, BootBodies DEF CallInv, Program
<1>3. CASE QuietEffect \/ NoSwitchEffect
  BY <1>3 DEF QuietEffect, NoSwitchEffect, SameCall, schedVars, testVars, Pos, Done
<1>4. CASE CallEffect
  <2>1. PICK o : Enters(o)
    BY <1>4 DEF CallEffect
  <2>2. /\ UNCHANGED <<cpu, parked, state>> /\ (saw => saw') /\ live'.ip = live.ip + 1
        /\ (o = "saw" => saw') /\ live.ip \in DOMAIN Program /\ Program[live.ip] = o
    BY <1>4, <2>1 DEF CallEffect, Enters, Op, schedVars
  <2>3. cpu = 1 => (live.ip = 3 => o = "saw") /\ live.ip \in 1 .. 4
    BY <1>2, <2>2, WaiterAt
  <2>. QED
    BY <2>2, <2>3 DEF Pos, Done
<1>5. CASE ChooseEffect
  <2>1. /\ UNCHANGED <<cpu, parked, testVars>> /\ live'.ip = live.ip
        /\ state' = [(IF Requeues THEN [state EXCEPT ![current] = "ready"] ELSE state)
                       EXCEPT ![Chosen] = "running"]
    BY <1>5 DEF ChooseEffect, Choose, SameCall
  <2>2. Done(1)' => Done(1)
    BY <1>0, <2>1 DEF Done, TypeOK
  <2>. QED
    BY <2>1, <2>2 DEF Pos, testVars
<1>6. CASE SwitchEffect
  <2>1. /\ current # cpu /\ parked' = [parked EXCEPT ![cpu] = Stopped] /\ Stopped.ip = live.ip
        /\ live' = parked[current] /\ cpu' = current /\ UNCHANGED <<state, testVars>>
    BY <1>6 DEF SwitchEffect, schedVars
  <2>2. Pos(1)' = Pos(1)
    BY <1>0, <2>1 DEF Pos, TypeOK
  <2>. QED
    BY <2>1, <2>2 DEF Done, testVars
<1>7. CASE SpawnEffect
  <2>1. /\ parked' = [parked EXCEPT ![count] = Fresh] /\ live'.ip = live.ip
        /\ state' = [state EXCEPT ![count] = "ready"] /\ UNCHANGED <<cpu, testVars>>
    BY <1>7 DEF SpawnEffect
  <2>2. parked'[1] = parked[1] \/ parked'[1] = Fresh
    BY <1>0, <2>1 DEF TypeOK
  <2>3. Done(1)' => Done(1)
    BY <1>0, <2>1 DEF Done, TypeOK
  <2>. QED
    BY <2>1, <2>2, <2>3 DEF Pos, Fresh, testVars
<1>8. CASE MarkEffect
  <2>1. /\ In("exit") /\ cpu = current /\ state' = [state EXCEPT ![current] = "finished"]
        /\ UNCHANGED <<cpu, parked, testVars>> /\ live'.ip = live.ip
    BY <1>8 DEF MarkEffect, In
  <2>2. CASE cpu = 1
    <3>1. live.ip - 1 \in DOMAIN Waiter /\ Waiter[live.ip - 1] = "exit"
      BY <1>2, <2>1, <2>2 DEF Calls, In, Routines
    <3>2. live.ip = 5
      BY <1>0, <3>1, WaiterAt DEF TypeOK, Context
    <3>3. saw
      BY <1>0, <2>2, <3>2 DEF WaitInv, Pos
    <3>. QED
      BY <2>1, <3>3 DEF testVars
  <2>3. CASE cpu # 1
    <3>1. Done(1)' => Done(1)
      BY <1>0, <2>1, <2>3 DEF Done, TypeOK
    <3>. QED
      BY <2>1, <3>1 DEF Pos, testVars
  <2>. QED
    BY <2>2, <2>3
<1>9. ~InstallEffect
  BY DEF InstallEffect
<1>. QED
  BY <1>0, <1>3, <1>4, <1>5, <1>6, <1>7, <1>8, <1>9, StepEffect

LEMMA BootInit ==
  ASSUME Booted, Init
  PROVE  BootInv
<1>1. KernelInv
  BY InitInv
<1>2. live = Fresh /\ \A t \in Ids : parked[t] = Fresh
  BY DEF Init
<1>3. CallInv
  BY <1>2, FreshUnder DEF CallInv, Calls
<1>4. 1 \in Ids /\ 2 \in Ids
  BY BootBodies
<1>5. CoopInv
  <2>1. ~In("spawn") /\ live.ip = 1 /\ parked[1].ip = 1 /\ parked[2].ip = 1
    BY <1>2, <1>4, FreshUnder DEF In
  <2>2. ~Done(1) /\ ~Done(2)
    BY <1>4 DEF Init, WithIdle, Idle, Done
  <2>3. Before
    BY <2>1, <2>2 DEF Init, Before, Idle
  <2>. QED
    BY <2>3 DEF CoopInv
<1>6. LogInv /\ WaitInv
  BY DEF Init, LogInv, WaitInv
<1>. QED
  BY <1>1, <1>3, <1>5, <1>6 DEF BootInv

LEMMA BootNext ==
  ASSUME Booted, BootInv, [Next]_vars
  PROVE  BootInv'
<1>1. KernelInv' /\ CallInv'
  BY NextInv, CallInvNext DEF BootInv
<1>2. CoopInv' /\ LogInv'
  BY CoopNext, LogNext DEF BootInv, KernelInv
<1>3. WaitInv'
  BY WaitNext
<1>. QED
  BY <1>1, <1>2, <1>3 DEF BootInv

LEMMA BootMeansSelfTests ==
  ASSUME Booted, BootInv
  PROVE  SelfTests
<1>1. ASSUME cpu = Idle, Op("check"), inits = 1
      PROVE  Len(log) = 2 * Iters /\ state[1] = "finished" /\ state[2] = "finished"
  <2>1. cpu = 0 /\ InBody /\ current = 0 /\ ~In("yield")
    BY <1>1, InBodyFacts DEF Op, Idle, BootInv, InBody, In, Under
  <2>2. Program = Main /\ live.ip \in 1 .. 18 /\ Main[live.ip] = "check"
    BY <1>1, <2>1, MainAt DEF Op, Program, BodyOf, Idle
  <2>3. live.ip \in {4, 13}
    BY <2>2, MainAt
  <2>4. After
    BY <1>1, <2>1, <2>3 DEF BootInv, CoopInv, Before, First, Second, Last
  <2>. QED
    BY <2>4 DEF After, Done
<1>2. ASSUME inits = 2, state[1] = "finished"
      PROVE  saw
  BY <1>2 DEF BootInv, WaitInv, Done
<1>. QED
  BY <1>1, <1>2 DEF BootInv, LogInv, SelfTests

\* kernel_main's self-tests pass for every number of turns and of tasks, wherever ticks fall:
\* the workers write strictly in turn, the idle task goes on only once both have finished,
\* and a waiter that finished saw the flag.
THEOREM SelfTestsHold == Booted => (Spec => []SelfTests)
<1>. SUFFICES ASSUME Booted PROVE Spec => []SelfTests
  OBVIOUS
<1>1. Init => BootInv
  BY BootInit
<1>2. BootInv /\ [Next]_vars => BootInv'
  BY BootNext
<1>3. BootInv => SelfTests
  BY BootMeansSelfTests
<1>. QED
  BY <1>1, <1>2, <1>3, PTL DEF Spec

-----------------------------------------------------------------------------
(* The kernel with its shell: who may hold a lock, and who may sleep.      *)

\* The kernel runs kernel_main from its last scheduler on, and the shell.
Shelled == Main = InputMain /\ Body = InputBody /\ MaxInits = 2 /\ MaxTasks >= 1

Context0 == IF cpu = 0 THEN live ELSE parked[0]

\* Until the shell is in the table, the idle task is the only one that ever ran.
Alone ==
  /\ cpu = 0 /\ current = 0 /\ count = 1 /\ ready = <<>>
  /\ live.ip \in 1 .. 3 \/ (live.ip = 4 /\ In("spawn"))
  /\ inits = IF live.ip <= 2 \/ In("init") THEN 1 ELSE 2
  /\ \A t \in Ids \ {0} : parked[t] = Fresh

\* From then on the two share the CPU, and the one that does not run is next.
Both ==
  /\ cpu \in {0, 1} /\ current \in {0, 1} /\ count = 2 /\ inits = 2
  /\ ready = (IF current = 0 THEN <<1>> ELSE <<>>) /\ state[1] # "finished"
  /\ Context0.ip \in {4, 5} /\ ~Under(Context0, Routine("spawn"))
  /\ \A t \in Ids \ {0, 1} : parked[t] = Fresh

ShellFacts == Shelled /\ KernelInv /\ CallInv /\ (Alone \/ Both)

LEMMA ShellBodies ==
  ASSUME Shelled
  PROVE  /\ 0 \in Ids /\ 1 \in Ids /\ BodyOf(0) = Main
         /\ DOMAIN Main = 1 .. 5 /\ Main[1] = "sti" /\ Main[2] = "init" /\ Main[3] = "spawn"
         /\ Main[4] = "yield" /\ Main[5] = "hlt"
         /\ inits = 2 => BodyOf(1) = ShellMain
         /\ DOMAIN ShellMain = 1 .. 3 /\ ShellMain[1] = "sti" /\ ShellMain[2] = "print"
         /\ ShellMain[3] = "shell"
<1>1. 0 \in Ids /\ 1 \in Ids
  BY KernelAssumption DEF Shelled, Ids
<1>. DEFINE a == <<"sti">>
            Ops == {"sti", "init", "spawn", "yield", "hlt"}
<1>2. /\ DOMAIN Main = 1 .. 5
      /\ \A i \in 1 .. 5 : Main[i] = IF i <= 1 THEN "sti" ELSE StartShell[i - 1]
  <2>1. Main = Cat(a, StartShell)
    BY DEF Shelled, InputMain, Cat
  <2>2. a \in Seq(Ops) /\ Len(a) = 1 /\ a[1] = "sti"
    OBVIOUS
  <2>3. StartShell \in Seq(Ops) /\ Len(StartShell) = 4
    BY DEF StartShell
  <2>. HIDE DEF a, Ops
  <2>4. Main \in Seq(Ops) /\ Joins(a, StartShell, Main)
    BY <2>1, <2>2, <2>3, Joined
  <2>. QED
    BY <2>2, <2>3, <2>4, LenProperties DEF Joins
<1>3. inits = 2 => BodyOf(1) = ShellMain
  <2>1. Body[2] = [t \in Ids |-> ShellMain]
    BY DEF Shelled, InputBody
  <2>2. Body[2][1] = ShellMain
    BY <1>1, <2>1 DEF ShellMain
  <2>. QED
    BY <2>2 DEF BodyOf, Idle
<1>4. BodyOf(0) = Main
  BY DEF BodyOf, Idle
<1>5. /\ DOMAIN Main = 1 .. 5 /\ Main[1] = "sti" /\ Main[2] = "init" /\ Main[3] = "spawn"
      /\ Main[4] = "yield" /\ Main[5] = "hlt"
  BY <1>2 DEF StartShell
<1>6. /\ DOMAIN ShellMain = 1 .. 3 /\ ShellMain[1] = "sti" /\ ShellMain[2] = "print"
      /\ ShellMain[3] = "shell"
  BY DEF ShellMain
<1>. QED
  BY <1>1, <1>3, <1>4, <1>5, <1>6

LEMMA IdleCalls ==
  ASSUME Shelled, NEW c \in Context, Calls(Main, c)
  PROVE  /\ Under(c, Routine("yield")) => c.ip = 5
         /\ Under(c, Routine("spawn")) => c.ip = 4
         /\ Under(c, Routine("init")) => c.ip = 3
         /\ ~Under(c, Routine("exit")) /\ ~Under(c, Leaving)
<1>1. /\ Under(c, Routine("yield")) => c.ip - 1 \in DOMAIN Main /\ Main[c.ip - 1] = "yield"
      /\ Under(c, Routine("exit")) => c.ip - 1 \in DOMAIN Main /\ Main[c.ip - 1] = "exit"
      /\ Under(c, Routine("spawn")) => c.ip - 1 \in DOMAIN Main /\ Main[c.ip - 1] = "spawn"
      /\ Under(c, Routine("init")) => c.ip - 1 \in DOMAIN Main /\ Main[c.ip - 1] = "init"
  BY DEF Calls, Routines
<1>2. c.ip \in Nat
  BY DEF Context
<1>3. \A i \in DOMAIN Main :
        /\ Main[i] # "exit"
        /\ Main[i] = "yield" => i = 4
        /\ Main[i] = "spawn" => i = 3
        /\ Main[i] = "init" => i = 2
  BY ShellBodies
<1>4. Under(c, Leaving) => Under(c, Routine("exit"))
  BY Exclusive
<1>. QED
  BY <1>1, <1>2, <1>3, <1>4

LEMMA ShellCalls ==
  ASSUME NEW c, Calls(ShellMain, c), NEW o \in Routines
  PROVE  ~Under(c, Routine(o)) /\ ~Under(c, Leaving)
<1>1. \A i \in DOMAIN ShellMain : ShellMain[i] \notin Routines
  BY DEF ShellMain, Routines
<1>2. \A p \in Routines : ~Under(c, Routine(p))
  BY <1>1 DEF Calls
<1>3. Under(c, Leaving) => Under(c, Routine("exit"))
  BY Exclusive
<1>. QED
  BY <1>2, <1>3 DEF Routines

\* Where the two contexts can be.
LEMMA ShellPlaces ==
  ASSUME ShellFacts
  PROVE  /\ TypeOK /\ 0 \in Ids /\ 1 \in Ids /\ cpu \in {0, 1}
         /\ Context0 \in Context /\ Calls(Main, Context0)
         /\ cpu = 0 => Program = Main /\ live = Context0
         /\ cpu # 0 => /\ Both /\ Program = ShellMain
                       /\ \A o \in Routines : ~Under(live, Routine(o))
                       /\ ~Under(live, Leaving)
         /\ ~Under(live, Leaving) /\ ~Under(live, Routine("exit"))
<1>1. /\ TypeOK /\ 0 \in Ids /\ 1 \in Ids /\ BodyOf(0) = Main
      /\ inits = 2 => BodyOf(1) = ShellMain
  BY ShellBodies DEF ShellFacts, KernelInv
<1>2. cpu \in {0, 1} /\ (cpu # 0 => Both /\ inits = 2)
  BY DEF ShellFacts, Alone, Both
<1>3. Context0 \in Context /\ Calls(Main, Context0)
  BY <1>1 DEF Context0, TypeOK, ShellFacts, CallInv, Program
<1>4. cpu = 0 => Program = Main /\ live = Context0
  BY <1>1 DEF Program, Context0
<1>5. cpu # 0 => /\ Both /\ Program = ShellMain /\ Calls(ShellMain, live)
  BY <1>1, <1>2 DEF Program, ShellFacts, CallInv
<1>6. cpu # 0 => \A o \in Routines : ~Under(live, Routine(o)) /\ ~Under(live, Leaving)
  BY <1>5, ShellCalls
<1>7. "exit" \in Routines
  BY DEF Routines
<1>8. cpu = 0 => ~Under(live, Leaving) /\ ~Under(live, Routine("exit"))
  BY <1>3, <1>4, IdleCalls DEF ShellFacts
<1>. QED
  BY <1>1, <1>2, <1>3, <1>4, <1>5, <1>6, <1>7, <1>8

\* What the idle task does next.
LEMMA IdleCallsNext ==
  ASSUME ShellFacts, cpu = 0, InBody, NEW o, Enters(o)
  PROVE  /\ live.ip \in 1 .. 4 /\ live'.ip = live.ip + 1 /\ Main[live.ip] = o
         /\ \A p \in Routines : Under(live', Routine(p)) <=> p = o
<1>1. live.ip \in 1 .. 4 /\ Main[live.ip] = o /\ live'.ip = live.ip + 1
  <2>1. /\ live.ip \in DOMAIN Main /\ Main[live.ip] = o /\ live'.ip = live.ip + 1
        /\ o # "hlt"
    BY ShellPlaces DEF Enters, Op
  <2>2. live.ip \in 1 .. 5 /\ live.ip # 5
    BY <2>1, ShellBodies DEF ShellFacts
  <2>. QED
    BY <2>1, <2>2
<1>2. ASSUME NEW p \in Routines
      PROVE  Under(live', Routine(p)) <=> p = o
  <2>1. Under(live', Routine(p)) <=> o \in Routines /\ Routine(p) = Routine(o)
    BY OwnMark DEF Enters
  <2>2. o \in Routines => (Routine(p) = Routine(o) <=> p = o)
    BY DEF Routine, Routines
  <2>. QED
    BY <2>1, <2>2
<1>. QED
  BY <1>1, <1>2

LEMMA AloneNext ==
  ASSUME ShellFacts, Alone, [Next]_vars
  PROVE  Alone' \/ Both'
<1>0. /\ TypeOK /\ KernelInv /\ 0 \in Ids /\ 1 \in Ids /\ cpu = 0 /\ live = Context0
      /\ live \in Context /\ Calls(Main, live) /\ Shelled
  BY ShellPlaces DEF ShellFacts, Alone
<1>1. /\ In("yield") => live.ip = 5
      /\ In("spawn") => live.ip = 4
      /\ In("init") => live.ip = 3
      /\ ~In("exit") /\ ~Under(live, Leaving)
  BY <1>0, IdleCalls DEF In
<1>2. CASE QuietEffect
  BY <1>2, SameTurn DEF QuietEffect, Alone, schedVars
<1>3. CASE CallEffect
  <2>1. InBody /\ UNCHANGED <<schedVars, cpu, parked>>
    BY <1>3 DEF CallEffect
  <2>2. PICK o : Enters(o)
    BY <1>3 DEF CallEffect
  <2>3. /\ live.ip \in 1 .. 4 /\ live'.ip = live.ip + 1 /\ Main[live.ip] = o
        /\ \A p \in Routines : Under(live', Routine(p)) <=> p = o
    BY <1>0, <2>1, <2>2, IdleCallsNext
  <2>4. ~In("spawn") /\ ~In("init")
    BY <2>1 DEF InBody, In, Under
  <2>5. live.ip \in 1 .. 3 /\ (live.ip = 1 => o = "sti") /\ (live.ip = 2 => o = "init")
        /\ (live.ip = 3 => o = "spawn")
    BY <1>0, <2>3, <2>4, ShellBodies DEF Alone
  <2>6. (In("spawn")' <=> o = "spawn") /\ (In("init")' <=> o = "init")
    BY <2>3 DEF In, Routines
  <2>. QED
    BY <2>1, <2>3, <2>4, <2>5, <2>6 DEF Alone, schedVars
<1>4. CASE NoSwitchEffect \/ ChooseEffect
  <2>1. Chosen = 0 /\ current = 0
    BY DEF Alone, Chosen, Idle
  <2>2. NoSwitchEffect
    BY <1>4, <2>1 DEF ChooseEffect
  <2>3. In("yield")
    BY <2>2 DEF NoSwitchEffect, In
  <2>. QED
    BY <1>1, <2>3 DEF Alone
<1>5. CASE SwitchEffect
  BY <1>0, <1>5 DEF SwitchEffect, Alone
<1>6. CASE SpawnEffect
  <2>1. In("spawn") /\ live.ip = 4 /\ inits = 2 /\ ready = <<>> /\ count = 1 /\ current = 0
    BY <1>1, <1>6 DEF SpawnEffect, In, Alone
  <2>2. /\ state' = [state EXCEPT ![1] = "ready"]
        /\ ready' = Append(<<>>, 1) /\ count' = 2
        /\ parked' = [parked EXCEPT ![1] = Fresh]
        /\ UNCHANGED <<current, inits, cpu, testVars>> /\ live'.ip = live.ip
    BY <1>6, <2>1 DEF SpawnEffect
  <2>3. ~In("spawn")'
    BY <1>6, OwnMark DEF SpawnEffect, In, Routines
  <2>4. state'[1] = "ready" /\ \A t \in Ids \ {0, 1} : parked'[t] = Fresh
    BY <1>0, <2>2 DEF Alone, TypeOK
  <2>5. Context0' = live'
    BY <1>0, <2>2 DEF Context0
  <2>. QED
    BY <1>0, <2>1, <2>2, <2>3, <2>4, <2>5 DEF Both, In
<1>7. CASE InstallEffect
  <2>1. In("init") /\ live.ip = 3
    BY <1>1, <1>7 DEF InstallEffect, In
  <2>2. ~In("init")'
    BY <1>7, OwnMark DEF InstallEffect, In, Routines
  <2>. QED
    BY <1>0, <1>7, <2>1, <2>2 DEF InstallEffect, Alone, Idle
<1>8. CASE MarkEffect
  BY <1>1, <1>8 DEF MarkEffect, In
<1>. QED
  BY <1>0, <1>2, <1>3, <1>4, <1>5, <1>6, <1>7, <1>8, StepEffect

LEMMA BothNext ==
  ASSUME ShellFacts, Both, [Next]_vars
  PROVE  Both' /\ (Context0'.ip <= 4 => Context0.ip <= 4)
<1>0. /\ TypeOK /\ KernelInv /\ 0 \in Ids /\ 1 \in Ids /\ cpu \in {0, 1}
      /\ Context0 \in Context /\ Calls(Main, Context0) /\ Shelled
      /\ cpu = 0 => live = Context0
      /\ cpu = 1 => ~In("spawn") /\ ~In("init")
  BY ShellPlaces DEF ShellFacts, In, Routines
<1>1. ~In("exit") /\ ~Under(live, Leaving) /\ ~In("spawn") /\ ~In("init")
  <2>1. cpu = 0 => ~In("spawn") /\ ~In("init")
    BY <1>0, IdleCalls DEF In, Both
  <2>. QED
    BY <1>0, <2>1, ShellPlaces DEF In
<1>2. CASE QuietEffect
  <2>1. Context0'.ip = Context0.ip
        /\ (Under(Context0', Routine("spawn")) <=> Under(Context0, Routine("spawn")))
    BY <1>2, SameTurn DEF QuietEffect, Context0, In
  <2>. QED
    BY <1>2, <2>1 DEF QuietEffect, Both, schedVars
<1>3. CASE CallEffect
  <2>1. InBody /\ UNCHANGED <<schedVars, cpu, parked>>
    BY <1>3 DEF CallEffect
  <2>2. PICK o : Enters(o)
    BY <1>3 DEF CallEffect
  <2>3. CASE cpu = 0
    <3>1. /\ live.ip \in 1 .. 4 /\ live'.ip = live.ip + 1 /\ Main[live.ip] = o
          /\ \A p \in Routines : Under(live', Routine(p)) <=> p = o
      BY <2>1, <2>2, <2>3, IdleCallsNext
    <3>2. live.ip = 4 /\ o = "yield"
      BY <1>0, <2>3, <3>1, ShellBodies DEF Both
    <3>3. ~Under(live', Routine("spawn")) /\ Context0' = live'
      BY <2>1, <2>3, <3>1, <3>2 DEF Routines, Context0
    <3>. QED
      BY <1>0, <2>1, <2>3, <3>1, <3>2, <3>3 DEF Both, schedVars
  <2>4. CASE cpu = 1
    <3>1. Context0' = Context0
      BY <2>1, <2>4 DEF Context0
    <3>. QED
      BY <2>1, <3>1 DEF Both, schedVars
  <2>. QED
    BY <1>0, <2>3, <2>4
<1>4. CASE NoSwitchEffect
  <2>1. Context0'.ip = Context0.ip
        /\ (Under(Context0', Routine("spawn")) => Under(Context0, Routine("spawn")))
    BY <1>4, OwnMark DEF NoSwitchEffect, Context0, Routines
  <2>. QED
    BY <1>4, <2>1 DEF NoSwitchEffect, Both, schedVars
<1>5. CASE ChooseEffect
  <2>1. Choose /\ SameCall /\ Chosen # current /\ UNCHANGED <<cpu, parked>>
    BY <1>5 DEF ChooseEffect
  <2>2. Context0'.ip = Context0.ip
        /\ (Under(Context0', Routine("spawn")) <=> Under(Context0, Routine("spawn")))
    BY <2>1, SameTurn DEF Context0, In
  <2>3. CASE current = 0
    <3>1. ready = <<1>> /\ Chosen = 1 /\ Rest = <<>> /\ ~Requeues
      BY <2>3 DEF Both, Chosen, Rest, Requeues, Idle
    <3>2. current' = 1 /\ ready' = <<>> /\ state'[1] = "running" /\ UNCHANGED <<count, inits>>
      BY <1>0, <2>1, <3>1 DEF Choose, TypeOK
    <3>. QED
      BY <2>1, <2>2, <3>2 DEF Both
  <2>4. CASE current = 1
    <3>1. ready = <<>> /\ Chosen = 0 /\ Rest = <<>> /\ Requeues
      BY <2>4 DEF Both, Chosen, Rest, Requeues, Idle
    <3>2. /\ current' = 0 /\ ready' = Append(<<>>, 1) /\ UNCHANGED <<count, inits>>
          /\ state'[1] = "ready"
      BY <1>0, <2>1, <2>4, <3>1 DEF Choose, TypeOK
    <3>. QED
      BY <2>1, <2>2, <3>2 DEF Both
  <2>. QED
    BY <2>3, <2>4 DEF Both
<1>6. CASE SwitchEffect
  <2>1. /\ parked' = [parked EXCEPT ![cpu] = Stopped] /\ Stopped.ip = live.ip
        /\ live' = parked[current] /\ cpu' = current /\ current # cpu
        /\ UNCHANGED <<schedVars, testVars>>
    BY <1>6 DEF SwitchEffect
  <2>2. Under(Stopped, Routine("spawn")) => Under(live, Routine("spawn"))
    <3>1. At("yield.switch")
      BY <1>0, <2>1 DEF KernelInv, SwitchInv
    <3>. QED
      BY <1>0, <3>1, StoppedFacts, OwnMark DEF Routines
  <2>3. \A t \in Ids \ {0, 1} : parked'[t] = Fresh
    BY <1>0, <2>1 DEF Both, TypeOK
  <2>4. CASE cpu = 0
    <3>1. Context0' = Stopped
      BY <1>0, <2>1, <2>4 DEF Context0, TypeOK
    <3>. QED
      BY <1>0, <2>1, <2>2, <2>3, <2>4, <3>1 DEF Both, schedVars
  <2>5. CASE cpu = 1
    <3>1. Context0' = Context0
      BY <2>1, <2>5 DEF Context0, Both
    <3>. QED
      BY <2>1, <2>3, <2>5, <3>1 DEF Both, schedVars
  <2>. QED
    BY <1>0, <2>4, <2>5
<1>7. CASE SpawnEffect \/ InstallEffect \/ MarkEffect
  BY <1>1, <1>7 DEF SpawnEffect, InstallEffect, MarkEffect, In
<1>. QED
  BY <1>0, <1>2, <1>3, <1>4, <1>5, <1>6, <1>7, StepEffect

-----------------------------------------------------------------------------
(* What a step does to the frames of the running context.                  *)

\* Where a routine of a lock stands, and where one asks for SCHED.
LockSteps == {"acquire", "release"}
Asks == Locking \ {"acquire"}

\* Where the handler of a tick stands, below preempt's yield_now.
TickSteps == {"irq.eoi", "iret"}

SamePlain == held'["HEAP"] = held["HEAP"] /\ held'["SERIAL"] = held["SERIAL"]

TakeEffect ==
  /\ Moved(live.frames, live'.frames) /\ UNCHANGED <<cpu, parked>>
  /\ live.frames[1].at = "acquire" /\ live'.frames[1].at = "release"
  /\ held' = [held EXCEPT ![live.frames[1].lock] = TRUE]

DropEffect ==
  /\ Left(live.frames, live'.frames) /\ UNCHANGED <<cpu, parked>>
  /\ live.frames[1].at = "release" /\ held' = [held EXCEPT ![live.frames[1].lock] = FALSE]

MoveEffect ==
  /\ Moved(live.frames, live'.frames) /\ SamePlain /\ cpu' = cpu
  /\ live.frames[1].at \notin LockSteps /\ live'.frames[1].at \notin LockSteps \cup Asks
  /\ live'.frames[1].at \notin TickSteps

LeaveEffect ==
  /\ Left(live.frames, live'.frames) /\ SamePlain /\ UNCHANGED <<cpu, parked>>
  /\ live.frames[1].at \in {"restore", "iret"}

\* A routine allocates, prints or yields.
AskEffect ==
  /\ Called(live.frames, live'.frames) /\ SamePlain /\ UNCHANGED <<cpu, parked>>
  /\ live.frames[1].at \notin LockSteps /\ live'.frames[2].at \notin LockSteps \cup Asks
  /\ live'.frames[1].at \in Asks => live'.frames[1].lock = "SCHED"
  /\ live'.frames[1].at # "release" /\ live'.frames[1].at \notin TickSteps
  /\ live'.frames[2].at \in TickSteps => live.frames[1].at = "irq.eoi"
  /\ live'.frames[1].at = "acquire"
       => live.frames[1].at \in {"init.lock", "spawn.lock", "exit.mark"}

IrqEffect ==
  /\ Pushed(live.frames, live'.frames) /\ SamePlain /\ UNCHANGED <<cpu, parked>>
  /\ live'.frames[1].at = "irq.eoi"

\* The body, or the shell's loop, enters a routine.
StartEffect ==
  /\ live.frames = <<>> /\ SamePlain /\ UNCHANGED <<cpu, parked>>
  /\ \E o : /\ Op(o) \/ Op("shell")
            /\ \/ o \in GuardedOps /\ live'.frames = Guarded(o)
               \/ o \in {"print", "alloc"} /\ live'.frames = Plain(o)

RestEffect == live'.frames = live.frames /\ SamePlain /\ UNCHANGED <<cpu, parked>>

LEMMA GotoMoves ==
  ASSUME TypeOK, NEW k, At(k), NEW l \in Places, Goto(l)
  PROVE  /\ Moved(live.frames, live'.frames) /\ live.frames[1].at = k
         /\ live'.frames[1].at = l
<1>1. /\ live \in Context /\ live.frames # <<>> /\ Len(live.frames) \in Nat
      /\ Len(live.frames) >= 1 /\ live.frames[1].at = k
  BY TopFrame
<1>. QED
  BY <1>1, GotoFrames DEF Goto, Moved

LEMMA CallMoves ==
  ASSUME TypeOK, NEW k, At(k), NEW l \in Places, NEW f \in FrameType, GotoAndCall(l, f)
  PROVE  /\ Called(live.frames, live'.frames) /\ live.frames[1].at = k
         /\ live'.frames[1] = f /\ live'.frames[2].at = l
<1>1. /\ live \in Context /\ live.frames # <<>> /\ Len(live.frames) \in Nat
      /\ Len(live.frames) >= 1 /\ live.frames[1].at = k
  BY TopFrame
<1>2. live' = CallResult(live, l, f)
  BY <1>1 DEF GotoAndCall, CallResult, Top
<1>. QED
  BY <1>1, <1>2, CallFrames DEF Called

LEMMA ReturnMoves ==
  ASSUME TypeOK, NEW k, At(k), Return
  PROVE  Left(live.frames, live'.frames) /\ live.frames[1].at = k
<1>1. /\ live \in Context /\ live.frames # <<>> /\ Len(live.frames) \in Nat
      /\ Len(live.frames) >= 1 /\ live.frames[1].at = k
  BY TopFrame
<1>. QED
  BY <1>1, ReturnFrames DEF Return, Left

\* SCHED is not one of the other two.
LEMMA SchedApart ==
  ASSUME TypeOK, UNCHANGED held \/ Take("SCHED") \/ Drop("SCHED")
  PROVE  SamePlain
BY DEF TypeOK, Take, Drop, Locks, SamePlain

LEMMA CpuFrameEffect ==
  ASSUME KernelInv, BodyStep \/ KernelStep
  PROVE  \/ TakeEffect \/ DropEffect \/ MoveEffect \/ LeaveEffect \/ AskEffect
         \/ StartEffect \/ RestEffect \/ SwitchContext
<1>0. TypeOK
  BY DEF KernelInv
<1>1. /\ Places = {"yield.lock", "yield.pick", "yield.switch", "restore", "init.lock",
                   "init.install", "spawn.lock", "spawn.push", "exit.lock", "exit.mark",
                   "exit.yield", "snapshot.lock", "snapshot.copy", "acquire", "release", "dead",
                   "irq.eoi", "iret"}
      /\ Asks = {"yield.lock", "init.lock", "spawn.lock", "exit.lock", "snapshot.lock"}
  BY DEF Places, GuardedSteps, YieldSteps, Asks, Locking
<1>2. ASSUME NEW k, NEW l \in Places, At(k), Goto(l), cpu' = cpu,
             Take("SCHED") \/ Drop("SCHED"), k \notin LockSteps,
             l \notin LockSteps \cup Asks, l \notin TickSteps
      PROVE  MoveEffect
  BY <1>0, <1>2, GotoMoves, SchedApart DEF MoveEffect
<1>3. CASE LockAcquire
  <2>1. At("acquire") /\ Goto("release") /\ "release" \in Places /\ UNCHANGED <<cpu, parked>>
        /\ held' = [held EXCEPT ![Top.lock] = TRUE]
    BY <1>1, <1>3 DEF LockAcquire, Take
  <2>2. Top = live.frames[1]
    BY <1>0, <2>1, TopFrame
  <2>3. TakeEffect
    BY <1>0, <2>1, <2>2, GotoMoves DEF TakeEffect
  <2>. QED
    BY <2>3
<1>4. CASE LockRelease
  <2>1. At("release") /\ Return /\ UNCHANGED <<cpu, parked>>
        /\ held' = [held EXCEPT ![Top.lock] = FALSE]
    BY <1>4 DEF LockRelease, Drop
  <2>2. Top = live.frames[1]
    BY <1>0, <2>1, TopFrame
  <2>3. DropEffect
    BY <1>0, <2>1, <2>2, ReturnMoves DEF DropEffect
  <2>. QED
    BY <2>3
<1>5. CASE Restore \/ Iret
  <2>1. (At("restore") \/ At("iret")) /\ Return /\ UNCHANGED <<cpu, parked, held>>
    BY <1>5 DEF Restore, Iret
  <2>2. LeaveEffect
    BY <1>0, <2>1, ReturnMoves, SchedApart DEF LeaveEffect
  <2>. QED
    BY <2>2
<1>6. CASE YieldLock
  <2>1. At("yield.lock") /\ Goto("yield.pick") /\ Take("SCHED") /\ cpu' = cpu
    BY <1>6 DEF YieldLock
  <2>. QED
    BY <1>1, <1>2, <2>1 DEF LockSteps, TickSteps
<1>7. CASE YieldPick
  <2>1. At("yield.pick") /\ Drop("SCHED") /\ cpu' = cpu /\ (Goto("restore") \/ Goto("yield.switch"))
    BY <1>7 DEF YieldPick
  <2>. QED
    BY <1>1, <1>2, <2>1 DEF LockSteps, TickSteps
<1>8. CASE InitInstall
  <2>1. At("init.install") /\ Goto("restore") /\ Drop("SCHED") /\ cpu' = cpu
    BY <1>8 DEF InitInstall
  <2>. QED
    BY <1>1, <1>2, <2>1 DEF LockSteps, TickSteps
<1>9. CASE SpawnPush
  <2>1. At("spawn.push") /\ Goto("restore") /\ Drop("SCHED") /\ cpu' = cpu
    BY <1>9 DEF SpawnPush
  <2>. QED
    BY <1>1, <1>2, <2>1 DEF LockSteps, TickSteps
<1>10. CASE ExitLock
  <2>1. At("exit.lock") /\ Goto("exit.mark") /\ Take("SCHED") /\ cpu' = cpu
    BY <1>10 DEF ExitLock
  <2>. QED
    BY <1>1, <1>2, <2>1 DEF LockSteps, TickSteps
<1>11. CASE SnapshotLock
  <2>1. At("snapshot.lock") /\ Goto("snapshot.copy") /\ Take("SCHED") /\ cpu' = cpu
    BY <1>11 DEF SnapshotLock
  <2>. QED
    BY <1>1, <1>2, <2>1 DEF LockSteps, TickSteps
<1>12. CASE SnapshotCopy
  <2>1. At("snapshot.copy") /\ Goto("restore") /\ Drop("SCHED") /\ cpu' = cpu
    BY <1>12 DEF SnapshotCopy
  <2>. QED
    BY <1>1, <1>2, <2>1 DEF LockSteps, TickSteps
<1>13. ASSUME NEW k \in {"init.lock", "spawn.lock", "exit.mark"}, NEW l \in Places, At(k),
              NEW n \in {"HEAP", "SERIAL"}, GotoAndCall(l, Acquire(n)), UNCHANGED <<cpu, parked>>,
              Take("SCHED") \/ Drop("SCHED"),
              l \notin LockSteps \cup Asks, l \notin TickSteps
       PROVE  AskEffect
  <2>1. Acquire(n) \in FrameType /\ Acquire(n).at = "acquire"
    BY <1>1 DEF Acquire, Frame, FrameType, Locks
  <2>2. SamePlain
    BY <1>0, <1>13, SchedApart
  <2>. QED
    BY <1>0, <1>1, <1>13, <2>1, <2>2, CallMoves DEF AskEffect, LockSteps, TickSteps
<1>14. CASE InitLock
  <2>1. At("init.lock") /\ GotoAndCall("init.install", Acquire("HEAP")) /\ Take("SCHED")
        /\ UNCHANGED <<cpu, parked>>
    BY <1>14 DEF InitLock
  <2>. QED
    BY <1>1, <1>13, <2>1 DEF LockSteps, TickSteps
<1>15. CASE SpawnLock
  <2>1. At("spawn.lock") /\ GotoAndCall("spawn.push", Acquire("HEAP")) /\ Take("SCHED")
        /\ UNCHANGED <<cpu, parked>>
    BY <1>15 DEF SpawnLock
  <2>. QED
    BY <1>1, <1>13, <2>1 DEF LockSteps, TickSteps
<1>16. CASE ExitMark
  <2>1. At("exit.mark") /\ GotoAndCall("exit.yield", Acquire("SERIAL")) /\ Drop("SCHED")
        /\ UNCHANGED <<cpu, parked>>
    BY <1>16 DEF ExitMark
  <2>. QED
    BY <1>1, <1>13, <2>1 DEF LockSteps, TickSteps
<1>17. CASE ExitYield \/ TimerHandler
  <2>. DEFINE f == Frame("yield.lock", "SCHED", intr)
  <2>1. PICK k \in {"exit.yield", "irq.eoi"}, l \in {"dead", "iret"} :
          At(k) /\ GotoAndCall(l, f) /\ (l = "iret" => k = "irq.eoi")
    BY <1>17 DEF ExitYield, TimerHandler
  <2>2. UNCHANGED <<cpu, parked, held>>
    BY <1>17 DEF ExitYield, TimerHandler
  <2>3. f \in FrameType /\ f.at = "yield.lock" /\ f.lock = "SCHED" /\ l \in Places
    BY <1>0, <1>1 DEF Frame, FrameType, Locks, TypeOK
  <2>. HIDE DEF f
  <2>4. Called(live.frames, live'.frames) /\ live.frames[1].at = k /\ live'.frames[1] = f
        /\ live'.frames[2].at = l
    BY <1>0, <2>1, <2>3, CallMoves
  <2>5. SamePlain
    BY <1>0, <2>2, SchedApart
  <2>6. live'.frames[2].at \in TickSteps => live.frames[1].at = "irq.eoi"
    BY <2>1, <2>4 DEF TickSteps
  <2>7. live.frames[1].at \notin LockSteps /\ live'.frames[2].at \notin LockSteps \cup Asks
    BY <1>1, <2>4 DEF LockSteps
  <2>8. AskEffect
    BY <1>1, <2>2, <2>3, <2>4, <2>5, <2>6, <2>7 DEF AskEffect, TickSteps
  <2>. QED
    BY <2>8
<1>18. CASE BodyStep
  <2>1. live \in Context /\ live.frames = <<>>
    BY <1>18, BodyEffect, InBodyFacts
  <2>2. UNCHANGED <<held, cpu, parked>>
    BY <1>18
       DEF BodyStep, CallGuarded, CallPlain, SetIf, Record, Halt, ShellCommand
  <2>3. SamePlain
    BY <1>0, <2>2, SchedApart
  <2>4. CASE \E o \in GuardedOps : Op(o) /\ CallGuarded(o)
    BY <2>1, <2>2, <2>3, <2>4 DEF CallGuarded, CallWith, StartEffect
  <2>5. CASE \E o \in {"print", "alloc"} : Op(o) /\ CallPlain(o)
    BY <2>1, <2>2, <2>3, <2>5 DEF CallPlain, CallWith, StartEffect
  <2>6. CASE Op("shell") /\ ShellCommand
    <3>1. PICK o \in {"stats", "snapshot", "print", "alloc"} :
            \/ o \in GuardedOps /\ RepeatWith(Guarded(o))
            \/ o \in {"print", "alloc"} /\ RepeatWith(Plain(o))
      BY <2>6 DEF ShellCommand, GuardedOps
    <3>2. \/ o \in GuardedOps /\ live'.frames = Guarded(o)
          \/ o \in {"print", "alloc"} /\ live'.frames = Plain(o)
      BY <2>1, <3>1 DEF RepeatWith, Context
    <3>. QED
      BY <2>1, <2>2, <2>3, <2>6, <3>2 DEF StartEffect
  <2>7. CASE \/ \E o \in {"sti", "cli"} : Op(o) /\ SetIf(o)
             \/ \E o \in {"emit", "set", "wait", "saw", "check"} : Op(o) /\ Record(o)
    <3>1. live'.frames = live.frames
      BY <2>1, <2>7 DEF SetIf, Record, Advance, Context
    <3>. QED
      BY <2>2, <2>3, <3>1 DEF RestEffect
  <2>8. CASE \E o \in {"hlt", "shell"} : Op(o) /\ Halt
    BY <2>2, <2>3, <2>8 DEF Halt, RestEffect
  <2>. QED
    BY <1>18, <2>4, <2>5, <2>6, <2>7, <2>8 DEF BodyStep
<1>. QED
  BY <1>3, <1>4, <1>5, <1>6, <1>7, <1>8, <1>9, <1>10, <1>11, <1>12, <1>14, <1>15, <1>16, <1>17,
     <1>18 DEF KernelStep

LEMMA TimerIrqFrames ==
  ASSUME TypeOK, TimerIrq
  PROVE  IrqEffect
<1>. DEFINE f == Frame("irq.eoi", "SCHED", intr)
<1>1. live' = PushResult(live, f) /\ UNCHANGED <<cpu, parked, held>>
  BY DEF TimerIrq, RepeatWith, PushResult
<1>2. f \in FrameType /\ f.at = "irq.eoi"
  BY DEF Frame, FrameType, Locks, TypeOK, Places
<1>. HIDE DEF f
<1>3. live \in Context
  BY DEF TypeOK
<1>4. Pushed(live.frames, live'.frames) /\ live'.frames[1] = f
  BY <1>1, <1>2, <1>3, PushFrames DEF Pushed
<1>. QED
  BY <1>1, <1>2, <1>4, SchedApart DEF IrqEffect

LEMMA FrameEffect ==
  ASSUME KernelInv, [Next]_vars
  PROVE  \/ TakeEffect \/ DropEffect \/ MoveEffect \/ LeaveEffect \/ AskEffect \/ IrqEffect
         \/ StartEffect \/ RestEffect \/ SwitchContext
<1>1. TimerIrq => IrqEffect
  BY TimerIrqFrames DEF KernelInv
<1>2. CASE TimerTick \/ OtherIrq \/ UNCHANGED vars
  <2>1. UNCHANGED <<live, held, cpu, parked>>
    BY <1>2 DEF TimerTick, OtherIrq, vars
  <2>. QED
    BY <2>1, SchedApart DEF RestEffect, KernelInv
<1>. QED
  BY <1>1, <1>2, CpuFrameEffect DEF Next, CpuStep

-----------------------------------------------------------------------------
(* The heap lock and the serial lock: the idle task takes neither once     *)
(* another task may be preempted inside one, so that the CPU never spins   *)
(* with interrupts off for a lock that only a parked context could drop.   *)

\* Printing or allocating, or a call that does.
Plainly(s) == \E i \in 1 .. Len(s) : s[i].at \in LockSteps

IdleLockless == Both => ~Plainly(Context0.frames)

\* A taken lock has a holder.
Holds(s, l) == \E i \in 1 .. Len(s) : s[i].at = "release" /\ s[i].lock = l

HeldBy(l) == Holds(live.frames, l) \/ \E t \in Ids \ {cpu} : Holds(parked[t].frames, l)

LockInv == \A l \in {"HEAP", "SERIAL"} : held[l] => HeldBy(l)

\* Every other routine that asks for a lock asks for SCHED.
AsksInv == \A i \in 1 .. Len(live.frames) :
             live.frames[i].at \in Asks => live.frames[i].lock = "SCHED"

LEMMA BothCalls ==
  ASSUME ShellFacts, Both
  PROVE  ~Under(live, Routine("spawn")) /\ ~Under(live, Routine("init"))
<1>1. cpu # 0 => ~Under(live, Routine("spawn")) /\ ~Under(live, Routine("init"))
  BY ShellPlaces DEF Routines
<1>2. cpu = 0 => ~Under(live, Routine("spawn")) /\ ~Under(live, Routine("init"))
  BY ShellPlaces, IdleCalls DEF ShellFacts, Both
<1>. QED
  BY <1>1, <1>2

\* Only a switch changes the contexts that do not run.
LEMMA ParkedKept ==
  ASSUME ShellFacts, [Next]_vars, cpu' = cpu
  PROVE  \A t \in Ids \ {cpu} : parked'[t] = parked[t]
<1>0. KernelInv /\ TypeOK
  BY DEF ShellFacts, KernelInv
<1>1. CASE SpawnEffect \/ InstallEffect
  <2>1. Alone
    BY <1>1, BothCalls DEF ShellFacts, SpawnEffect, InstallEffect
  <2>2. \A t \in Ids \ {0} : parked[t] = Fresh /\ cpu = 0 /\ count = 1
    BY <2>1 DEF Alone
  <2>3. \/ parked' = [parked EXCEPT ![1] = Fresh]
        \/ parked' = [t \in Ids |-> Fresh]
    BY <1>1, <2>1 DEF SpawnEffect, InstallEffect, Alone
  <2>. QED
    BY <1>0, <2>1, <2>2, <2>3 DEF TypeOK, Alone
<1>2. CASE QuietEffect \/ CallEffect \/ NoSwitchEffect \/ ChooseEffect \/ MarkEffect
  BY <1>2 DEF QuietEffect, CallEffect, NoSwitchEffect, ChooseEffect, MarkEffect
<1>3. ~SwitchEffect
  BY DEF SwitchEffect
<1>. QED
  BY <1>0, <1>1, <1>2, <1>3, StepEffect

\* The second task appears with the critical section of spawn.
LEMMA BothBegins ==
  ASSUME ShellFacts, Alone, Both', [Next]_vars
  PROVE  Len(live'.frames) = 1 /\ live'.frames[1].at = "restore" /\ cpu' = 0
<1>1. KernelInv /\ count = 1 /\ count' = 2 /\ cpu = 0 /\ current = 0
  BY DEF ShellFacts, Alone, Both
<1>2. ~QuietEffect /\ ~CallEffect /\ ~NoSwitchEffect /\ ~MarkEffect /\ ~InstallEffect
  BY <1>1 DEF QuietEffect, CallEffect, NoSwitchEffect, MarkEffect, InstallEffect, schedVars
<1>3. ~ChooseEffect /\ ~SwitchEffect
  BY <1>1 DEF ChooseEffect, Choose, SwitchEffect, schedVars
<1>4. SpawnEffect
  BY <1>1, <1>2, <1>3, StepEffect
<1>. QED
  BY <1>1, <1>4 DEF SpawnEffect

\* Where the frames of a changed stack come from.
LEMMA FramesFrom ==
  ASSUME NEW s, NEW t, Len(s) \in Nat
  PROVE  /\ Moved(s, t) => \A i \in 1 .. Len(t) : i = 1 \/ (i \in 1 .. Len(s) /\ t[i] = s[i])
         /\ Called(s, t) => \A i \in 1 .. Len(t) :
              i \in {1, 2} \/ (i - 1 \in 1 .. Len(s) /\ t[i] = s[i - 1])
         /\ Left(s, t) => \A i \in 1 .. Len(t) : i + 1 \in 1 .. Len(s) /\ t[i] = s[i + 1]
         /\ Pushed(s, t) => \A i \in 1 .. Len(t) :
              i = 1 \/ (i - 1 \in 1 .. Len(s) /\ t[i] = s[i - 1])
<1>1. ASSUME Moved(s, t), NEW i \in 1 .. Len(t), i # 1
      PROVE  i \in 1 .. Len(s) /\ t[i] = s[i]
  BY <1>1 DEF Moved
<1>2. ASSUME Called(s, t), NEW i \in 1 .. Len(t), i \notin {1, 2}
      PROVE  i - 1 \in 1 .. Len(s) /\ t[i] = s[i - 1]
  BY <1>2 DEF Called
<1>3. ASSUME Left(s, t), NEW i \in 1 .. Len(t)
      PROVE  i + 1 \in 1 .. Len(s) /\ t[i] = s[i + 1]
  BY <1>3 DEF Left
<1>4. ASSUME Pushed(s, t), NEW i \in 1 .. Len(t), i # 1
      PROVE  i - 1 \in 1 .. Len(s) /\ t[i] = s[i - 1]
  BY <1>4 DEF Pushed
<1>. QED
  BY <1>1, <1>2, <1>3, <1>4

\* And where they go, all but the top.
LEMMA FramesTo ==
  ASSUME NEW s, NEW t, Len(s) \in Nat
  PROVE  /\ Moved(s, t) => \A i \in 1 .. Len(s) : i = 1 \/ (i \in 1 .. Len(t) /\ t[i] = s[i])
         /\ Called(s, t) => \A i \in 1 .. Len(s) :
              i = 1 \/ (i + 1 \in 1 .. Len(t) /\ t[i + 1] = s[i])
         /\ Left(s, t) => \A i \in 1 .. Len(s) : i = 1 \/ (i - 1 \in 1 .. Len(t) /\ t[i - 1] = s[i])
         /\ Pushed(s, t) => \A i \in 1 .. Len(s) : i + 1 \in 1 .. Len(t) /\ t[i + 1] = s[i]
<1>1. ASSUME Moved(s, t), NEW i \in 1 .. Len(s), i # 1
      PROVE  i \in 1 .. Len(t) /\ t[i] = s[i]
  BY <1>1 DEF Moved
<1>2. ASSUME Called(s, t), NEW i \in 1 .. Len(s), i # 1
      PROVE  i + 1 \in 1 .. Len(t) /\ t[i + 1] = s[i]
  <2>1. i + 1 \in 3 .. Len(s) + 1 /\ i + 1 - 1 = i /\ Len(t) = Len(s) + 1
    BY <1>2 DEF Called
  <2>2. t[i + 1] = s[i + 1 - 1]
    BY <1>2, <2>1 DEF Called
  <2>. QED
    BY <2>1, <2>2
<1>3. ASSUME Left(s, t), NEW i \in 1 .. Len(s), i # 1
      PROVE  i - 1 \in 1 .. Len(t) /\ t[i - 1] = s[i]
  <2>1. i - 1 \in 1 .. Len(s) - 1 /\ i - 1 + 1 = i /\ Len(t) = Len(s) - 1
    BY <1>3 DEF Left
  <2>2. t[i - 1] = s[i - 1 + 1]
    BY <1>3, <2>1 DEF Left
  <2>. QED
    BY <2>1, <2>2
<1>4. ASSUME Pushed(s, t), NEW i \in 1 .. Len(s)
      PROVE  i + 1 \in 1 .. Len(t) /\ t[i + 1] = s[i]
  <2>1. i + 1 \in 2 .. Len(s) + 1 /\ i + 1 - 1 = i /\ Len(t) = Len(s) + 1
    BY <1>4 DEF Pushed
  <2>2. t[i + 1] = s[i + 1 - 1]
    BY <1>4, <2>1 DEF Pushed
  <2>. QED
    BY <2>1, <2>2
<1>. QED
  BY <1>1, <1>2, <1>3, <1>4

LEMMA LiveLengths ==
  ASSUME TypeOK, TypeOK'
  PROVE  /\ live \in Context /\ Len(live.frames) \in Nat
         /\ live' \in Context /\ Len(live'.frames) \in Nat
         /\ live.frames = <<>> => Len(live.frames) = 0
         /\ live'.frames = <<>> => Len(live'.frames) = 0
BY FramesOfContext DEF TypeOK

LEMMA GuardedAsks ==
  ASSUME NEW o \in GuardedOps, NEW s, s = Guarded(o)
  PROVE  /\ \A i \in 1 .. Len(s) : s[i].at \in Asks => s[i].lock = "SCHED"
         /\ \A i \in 1 .. Len(s) : s[i].at \notin TickSteps
         /\ o = "yield" => ~Plainly(s)
<1>1. o = "stats" \/ o \in {"yield", "spawn", "init", "exit", "snapshot"}
  BY DEF GuardedOps
<1>2. CASE o = "stats"
  <2>1. s = <<Acquire("HEAP"), Frame("restore", "HEAP", intr)>>
    BY <1>2 DEF Guarded
  <2>2. Len(s) = 2 /\ s[1].at = "acquire" /\ s[2].at = "restore"
    BY <2>1 DEF Acquire, Frame
  <2>. QED
    BY <1>2, <2>2 DEF Asks, Locking, TickSteps
<1>3. CASE o = "init"
  <2>1. s = <<Acquire("HEAP"), Frame("init.lock", "SCHED", intr)>>
    BY <1>3 DEF Guarded
  <2>2. /\ Len(s) = 2 /\ s[1].at = "acquire"
        /\ s[2].at = "init.lock" /\ s[2].lock = "SCHED"
    BY <2>1 DEF Acquire, Frame
  <2>. QED
    BY <1>3, <2>2 DEF Asks, Locking, TickSteps
<1>4. CASE o \in {"yield", "spawn", "exit", "snapshot"}
  <2>1. PICK k \in {"yield.lock", "spawn.lock", "exit.lock", "snapshot.lock"} :
          s = <<Frame(k, "SCHED", intr)>>
    BY <1>4 DEF Guarded
  <2>2. Len(s) = 1 /\ s[1].at = k /\ s[1].lock = "SCHED"
    BY <2>1 DEF Frame
  <2>. QED
    BY <2>2 DEF Plainly, LockSteps, TickSteps
<1>. QED
  BY <1>1, <1>2, <1>3, <1>4

LEMMA PlainAsks ==
  ASSUME NEW o, NEW s, s = Plain(o)
  PROVE  Len(s) = 1 /\ s[1].at = "acquire"
<1>1. PICK k \in {"HEAP", "SERIAL"} : s = <<Acquire(k)>>
  BY DEF Plain
<1>. QED
  BY <1>1 DEF Acquire, Frame

LEMMA AsksNext ==
  ASSUME KernelInv, KernelInv', AsksInv, [Next]_vars
  PROVE  AsksInv'
<1>0. /\ live \in Context /\ Len(live.frames) \in Nat
      /\ live' \in Context /\ Len(live'.frames) \in Nat
      /\ live.frames = <<>> => Len(live.frames) = 0
      /\ live'.frames = <<>> => Len(live'.frames) = 0
  BY LiveLengths DEF KernelInv
<1>1. \A k \in LockSteps \cup {"irq.eoi", "restore", "dead", "iret"} : k \notin Asks
  BY DEF LockSteps, Asks, Locking
<1>. SUFFICES ASSUME NEW i \in 1 .. Len(live'.frames), live'.frames[i].at \in Asks
              PROVE  live'.frames[i].lock = "SCHED"
  BY DEF AsksInv
<1>2. CASE TakeEffect \/ MoveEffect
  <2>1. Moved(live.frames, live'.frames) /\ live'.frames[1].at \notin Asks
    BY <1>1, <1>2 DEF TakeEffect, MoveEffect, LockSteps
  <2>. QED
    BY <1>0, <2>1, FramesFrom DEF AsksInv
<1>3. CASE DropEffect \/ LeaveEffect
  <2>1. Left(live.frames, live'.frames)
    BY <1>3 DEF DropEffect, LeaveEffect
  <2>2. i + 1 \in 1 .. Len(live.frames) /\ live'.frames[i] = live.frames[i + 1]
    BY <1>0, <2>1, FramesFrom
  <2>. QED
    BY <2>2 DEF AsksInv
<1>4. CASE AskEffect
  <2>1. Called(live.frames, live'.frames) /\ live'.frames[2].at \notin Asks
        /\ (live'.frames[1].at \in Asks => live'.frames[1].lock = "SCHED")
    BY <1>4 DEF AskEffect
  <2>2. i \in {1, 2} \/ (i - 1 \in 1 .. Len(live.frames) /\ live'.frames[i] = live.frames[i - 1])
    BY <1>0, <2>1, FramesFrom
  <2>3. i # 2
    BY <2>1
  <2>4. i # 1 => live'.frames[i].lock = "SCHED"
    BY <2>2, <2>3 DEF AsksInv
  <2>. QED
    BY <2>1, <2>4
<1>5. CASE IrqEffect
  <2>1. Pushed(live.frames, live'.frames) /\ live'.frames[1].at \notin Asks
    BY <1>1, <1>5 DEF IrqEffect
  <2>. QED
    BY <1>0, <2>1, FramesFrom DEF AsksInv
<1>6. CASE StartEffect
  <2>1. PICK o : \/ o \in GuardedOps /\ live'.frames = Guarded(o)
                 \/ o \in {"print", "alloc"} /\ live'.frames = Plain(o)
    BY <1>6 DEF StartEffect
  <2>2. CASE o \in GuardedOps /\ live'.frames = Guarded(o)
    BY <2>2, GuardedAsks
  <2>3. CASE live'.frames = Plain(o)
    <3>1. Len(live'.frames) = 1 /\ live'.frames[1].at = "acquire"
      BY <2>3, PlainAsks
    <3>. QED
      BY <1>1, <3>1 DEF LockSteps
  <2>. QED
    BY <2>1, <2>2, <2>3
<1>7. CASE RestEffect
  BY <1>7 DEF RestEffect, AsksInv
<1>8. CASE SwitchContext
  <2>1. live' = parked[current] /\ current # cpu /\ current \in Ids
    <3>1. At("yield.switch") /\ live' = parked[current]
      BY <1>8 DEF SwitchContext
    <3>2. TypeOK /\ SwitchInv
      BY DEF KernelInv
    <3>. QED
      BY <3>1, <3>2, KernelAssumption DEF SwitchInv, TypeOK, Ids
  <2>2. /\ StackOK(live'.frames, Asked(current, parked[current]), FALSE)
        /\ live'.frames = <<>> \/ live'.frames[1].at = "restore"
    BY <2>1 DEF KernelInv, ParkedInv, ParkedOK
  <2>3. Len(live'.frames) >= 1 /\ live'.frames[1].at = "restore"
    BY <1>0, <2>2
  <2>4. live'.frames[i].at \in {"restore", "acquire", "release", "dead", "iret"}
    BY <1>0, <2>2, <2>3, RestingFrames
  <2>. QED
    BY <1>1, <2>4 DEF LockSteps
<1>. QED
  BY <1>2, <1>3, <1>4, <1>5, <1>6, <1>7, <1>8, FrameEffect

LEMMA LockNext ==
  ASSUME ShellFacts, KernelInv', LockInv, [Next]_vars
  PROVE  LockInv'
<1>0. /\ live \in Context /\ Len(live.frames) \in Nat /\ TypeOK
      /\ live' \in Context /\ Len(live'.frames) \in Nat
      /\ live.frames = <<>> => Len(live.frames) = 0
  BY LiveLengths DEF ShellFacts, KernelInv
<1>. SUFFICES ASSUME NEW l \in {"HEAP", "SERIAL"}, held'[l]
              PROVE  HeldBy(l)'
  BY DEF LockInv
<1>1. ASSUME cpu' = cpu, Holds(live.frames, l) => Holds(live'.frames, l), held[l]
      PROVE  HeldBy(l)'
  <2>1. \A t \in Ids \ {cpu} : parked'[t] = parked[t]
    BY <1>1, ParkedKept
  <2>2. HeldBy(l)
    BY <1>1 DEF LockInv
  <2>. QED
    BY <1>1, <2>1, <2>2 DEF HeldBy
<1>2. SamePlain => held[l]
  BY DEF SamePlain
<1>3. CASE TakeEffect
  <2>1. /\ Moved(live.frames, live'.frames) /\ cpu' = cpu
        /\ live.frames[1].at = "acquire" /\ live'.frames[1].at = "release"
        /\ held' = [held EXCEPT ![live.frames[1].lock] = TRUE]
    BY <1>3 DEF TakeEffect
  <2>2. Len(live'.frames) >= 1 /\ live'.frames[1].lock = live.frames[1].lock
    BY <2>1 DEF Moved
  <2>3. CASE live.frames[1].lock = l
    <3>1. Holds(live'.frames, l)
      BY <1>0, <2>1, <2>2, <2>3 DEF Holds
    <3>. QED
      BY <3>1 DEF HeldBy
  <2>4. CASE live.frames[1].lock # l
    <3>1. held[l]
      BY <1>0, <2>1, <2>4 DEF TypeOK, Locks
    <3>2. Holds(live.frames, l) => Holds(live'.frames, l)
      BY <1>0, <2>1, FramesTo DEF Holds
    <3>. QED
      BY <1>1, <2>1, <3>1, <3>2
  <2>. QED
    BY <2>3, <2>4
<1>4. CASE DropEffect
  <2>1. /\ Left(live.frames, live'.frames) /\ cpu' = cpu
        /\ held' = [held EXCEPT ![live.frames[1].lock] = FALSE]
    BY <1>4 DEF DropEffect
  <2>2. live.frames[1].lock # l /\ held[l]
    BY <1>0, <2>1 DEF TypeOK, Locks
  <2>3. Holds(live.frames, l) => Holds(live'.frames, l)
    BY <1>0, <2>1, <2>2, FramesTo DEF Holds
  <2>. QED
    BY <1>1, <2>1, <2>2, <2>3
<1>5. CASE MoveEffect
  <2>1. /\ Moved(live.frames, live'.frames) /\ cpu' = cpu /\ SamePlain
        /\ live.frames[1].at # "release"
    BY <1>5 DEF MoveEffect, LockSteps
  <2>2. Holds(live.frames, l) => Holds(live'.frames, l)
    BY <1>0, <2>1, FramesTo DEF Holds
  <2>. QED
    BY <1>1, <1>2, <2>1, <2>2
<1>6. CASE LeaveEffect
  <2>1. /\ Left(live.frames, live'.frames) /\ cpu' = cpu /\ SamePlain
        /\ live.frames[1].at # "release"
    BY <1>6 DEF LeaveEffect
  <2>2. Holds(live.frames, l) => Holds(live'.frames, l)
    BY <1>0, <2>1, FramesTo DEF Holds
  <2>. QED
    BY <1>1, <1>2, <2>1, <2>2
<1>7. CASE AskEffect
  <2>1. /\ Called(live.frames, live'.frames) /\ cpu' = cpu /\ SamePlain
        /\ live.frames[1].at # "release"
    BY <1>7 DEF AskEffect, LockSteps
  <2>2. Holds(live.frames, l) => Holds(live'.frames, l)
    BY <1>0, <2>1, FramesTo DEF Holds
  <2>. QED
    BY <1>1, <1>2, <2>1, <2>2
<1>8. CASE IrqEffect
  <2>1. Pushed(live.frames, live'.frames) /\ cpu' = cpu /\ SamePlain
    BY <1>8 DEF IrqEffect
  <2>2. Holds(live.frames, l) => Holds(live'.frames, l)
    BY <1>0, <2>1, FramesTo DEF Holds
  <2>. QED
    BY <1>1, <1>2, <2>1, <2>2
<1>9. CASE StartEffect \/ RestEffect
  <2>1. cpu' = cpu /\ SamePlain
    BY <1>9 DEF StartEffect, RestEffect
  <2>2. Holds(live.frames, l) => Holds(live'.frames, l)
    BY <1>0, <1>9 DEF StartEffect, RestEffect, Holds
  <2>. QED
    BY <1>1, <1>2, <2>1, <2>2
<1>10. CASE SwitchContext
  <2>1. /\ At("yield.switch") /\ live' = parked[current] /\ cpu' = current
        /\ held' = held /\ parked' = [parked EXCEPT ![cpu] = Stopped]
    BY <1>10 DEF SwitchContext, Stopped
  <2>2. current # cpu /\ current \in Ids /\ cpu \in Ids
    BY <2>1 DEF ShellFacts, KernelInv, SwitchInv, TypeOK, Ids
  <2>3. /\ Len(Stopped.frames) = Len(live.frames) /\ Len(live.frames) >= 1
        /\ live.frames[1].at = "yield.switch"
        /\ \A i \in 2 .. Len(live.frames) : Stopped.frames[i] = live.frames[i]
    BY <1>0, <2>1, TopFrame, StoppedFacts DEF ShellFacts
  <2>4. Holds(live.frames, l) => Holds(Stopped.frames, l)
    <3>. SUFFICES ASSUME NEW i \in 1 .. Len(live.frames), live.frames[i].at = "release",
                         live.frames[i].lock = l
                  PROVE  Holds(Stopped.frames, l)
      BY DEF Holds
    <3>1. i \in 2 .. Len(live.frames)
      BY <1>0, <2>3
    <3>. QED
      BY <1>0, <2>3, <3>1 DEF Holds
  <2>5. parked'[cpu] = Stopped /\ \A t \in Ids \ {cpu} : parked'[t] = parked[t]
    BY <1>0, <2>1, <2>2 DEF TypeOK
  <2>6. HeldBy(l)
    BY <2>1 DEF LockInv
  <2>7. CASE Holds(live.frames, l)
    BY <2>1, <2>2, <2>4, <2>5, <2>7 DEF HeldBy
  <2>8. CASE \E t \in Ids \ {cpu} : Holds(parked[t].frames, l)
    <3>1. PICK t \in Ids \ {cpu} : Holds(parked[t].frames, l)
      BY <2>8
    <3>2. t = current \/ t \in Ids \ {cpu'}
      BY <2>1
    <3>. QED
      BY <2>1, <2>5, <3>1, <3>2 DEF HeldBy
  <2>. QED
    BY <2>6, <2>7, <2>8 DEF HeldBy
<1>. QED
  BY <1>3, <1>4, <1>5, <1>6, <1>7, <1>8, <1>9, <1>10, FrameEffect DEF ShellFacts

LEMMA IdleFrames ==
  ASSUME ShellFacts, KernelInv', Both, cpu = 0, cpu' = 0, ~Plainly(live.frames), [Next]_vars
  PROVE  ~Plainly(live'.frames)
<1>0. /\ live \in Context /\ Len(live.frames) \in Nat /\ TypeOK /\ KernelInv
      /\ live' \in Context /\ Len(live'.frames) \in Nat
      /\ live.frames = <<>> => Len(live.frames) = 0
  BY LiveLengths DEF ShellFacts, KernelInv
<1>. SUFFICES ASSUME NEW i \in 1 .. Len(live'.frames)
              PROVE  live'.frames[i].at \notin LockSteps
  BY DEF Plainly
<1>1. \A j \in 1 .. Len(live.frames) : live.frames[j].at \notin LockSteps
  BY DEF Plainly
<1>2. CASE TakeEffect \/ DropEffect
  <2>1. Len(live.frames) >= 1 /\ live.frames[1].at \in LockSteps
    BY <1>2 DEF TakeEffect, DropEffect, LockSteps, Moved, Left
  <2>. QED
    BY <1>0, <1>1, <2>1
<1>3. CASE MoveEffect
  <2>1. Moved(live.frames, live'.frames) /\ live'.frames[1].at \notin LockSteps
    BY <1>3 DEF MoveEffect
  <2>2. i = 1 \/ (i \in 1 .. Len(live.frames) /\ live'.frames[i] = live.frames[i])
    BY <1>0, <2>1, FramesFrom
  <2>. QED
    BY <1>1, <2>1, <2>2
<1>4. CASE LeaveEffect
  <2>1. Left(live.frames, live'.frames)
    BY <1>4 DEF LeaveEffect
  <2>2. i + 1 \in 1 .. Len(live.frames) /\ live'.frames[i] = live.frames[i + 1]
    BY <1>0, <2>1, FramesFrom
  <2>. QED
    BY <1>1, <2>2
<1>5. CASE AskEffect
  <2>1. /\ Called(live.frames, live'.frames) /\ live'.frames[2].at \notin LockSteps
        /\ live'.frames[1].at # "release"
        /\ live'.frames[1].at = "acquire"
             => live.frames[1].at \in {"init.lock", "spawn.lock", "exit.mark"}
    BY <1>5 DEF AskEffect
  <2>2. Len(live.frames) >= 1
    BY <2>1 DEF Called
  <2>3. ASSUME NEW k \in {"init.lock", "spawn.lock", "exit.mark"}, live.frames[1].at = k
        PROVE  FALSE
    <3>1. At(k)
      BY <1>0, <2>2, <2>3, AtFirst
    <3>2. /\ Under(live, Routine("init")) <=> k \in Routine("init")
          /\ Under(live, Routine("spawn")) <=> k \in Routine("spawn")
          /\ Under(live, Routine("exit")) <=> k \in Routine("exit")
      BY <1>0, <3>1, GuardedAlone
    <3>3. k \in Routine("init") \/ k \in Routine("spawn") \/ k \in Routine("exit")
      BY DEF Routine
    <3>. QED
      BY <3>2, <3>3, BothCalls, ShellPlaces
  <2>4. live'.frames[1].at \notin LockSteps
    BY <2>1, <2>3 DEF LockSteps
  <2>5. i \in {1, 2} \/ (i - 1 \in 1 .. Len(live.frames) /\ live'.frames[i] = live.frames[i - 1])
    BY <1>0, <2>1, FramesFrom
  <2>. QED
    BY <1>1, <2>1, <2>4, <2>5
<1>6. CASE IrqEffect
  <2>1. Pushed(live.frames, live'.frames) /\ live'.frames[1].at \notin LockSteps
    BY <1>6 DEF IrqEffect, LockSteps
  <2>2. i = 1 \/ (i - 1 \in 1 .. Len(live.frames) /\ live'.frames[i] = live.frames[i - 1])
    BY <1>0, <2>1, FramesFrom
  <2>. QED
    BY <1>1, <2>1, <2>2
<1>7. CASE StartEffect
  <2>1. PICK o : /\ Op(o) \/ Op("shell")
                 /\ \/ o \in GuardedOps /\ live'.frames = Guarded(o)
                    \/ o \in {"print", "alloc"} /\ live'.frames = Plain(o)
    BY <1>7 DEF StartEffect
  <2>2. Program = Main /\ live.ip \in {4, 5} /\ Main[4] = "yield" /\ Main[5] = "hlt"
    BY ShellPlaces, ShellBodies DEF ShellFacts, Both
  <2>3. ~Op("shell") /\ (o = "yield" \/ o = "hlt")
    BY <2>1, <2>2 DEF Op
  <2>4. o = "yield" /\ live'.frames = Guarded(o)
    BY <2>1, <2>3 DEF GuardedOps
  <2>5. ~Plainly(live'.frames)
    BY <2>4, GuardedAsks DEF GuardedOps
  <2>. QED
    BY <2>5 DEF Plainly
<1>8. CASE RestEffect
  BY <1>1, <1>8 DEF RestEffect
<1>9. ~SwitchContext
  <2>1. SwitchContext => At("yield.switch") /\ cpu' = current
    BY DEF SwitchContext
  <2>. QED
    BY <1>0, <2>1 DEF KernelInv, SwitchInv
<1>. QED
  BY <1>0, <1>2, <1>3, <1>4, <1>5, <1>6, <1>7, <1>8, <1>9, FrameEffect

LEMMA IdleLocklessNext ==
  ASSUME ShellFacts, KernelInv', IdleLockless, [Next]_vars
  PROVE  IdleLockless'
<1>0. KernelInv /\ TypeOK /\ 0 \in Ids /\ cpu \in {0, 1} /\ Len(live.frames) \in Nat
  <2>1. Len(live.frames) \in Nat
    BY LiveLengths DEF ShellFacts, KernelInv
  <2>. QED
    BY <2>1, ShellPlaces DEF ShellFacts
<1>. SUFFICES ASSUME Both'
              PROVE  ~Plainly(Context0'.frames)
  BY DEF IdleLockless
<1>1. CASE Alone
  <2>1. Len(live'.frames) = 1 /\ live'.frames[1].at = "restore" /\ Context0' = live'
    BY <1>1, BothBegins DEF Context0
  <2>. QED
    BY <2>1 DEF Plainly, LockSteps
<1>2. CASE Both /\ cpu' = cpu
  <2>1. ~Plainly(Context0.frames)
    BY <1>2 DEF IdleLockless
  <2>2. CASE cpu = 0
    BY <1>2, <2>1, <2>2, IdleFrames DEF Context0
  <2>3. CASE cpu = 1
    <3>1. Context0' = Context0
      BY <1>0, <1>2, <2>3, ParkedKept DEF Context0
    <3>. QED
      BY <2>1, <3>1
  <2>. QED
    BY <1>0, <2>2, <2>3
<1>3. CASE Both /\ cpu' # cpu
  <2>1. ~Plainly(Context0.frames)
    BY <1>3 DEF IdleLockless
  <2>2. SwitchContext
    BY <1>0, <1>3, FrameEffect
       DEF TakeEffect, DropEffect, MoveEffect, LeaveEffect, AskEffect, IrqEffect, StartEffect,
           RestEffect
  <2>3. /\ At("yield.switch") /\ live' = parked[current] /\ cpu' = current
        /\ parked' = [parked EXCEPT ![cpu] = Stopped]
    BY <2>2 DEF SwitchContext, Stopped
  <2>4. CASE cpu = 0
    <3>1. Context0' = Stopped /\ Context0 = live
      BY <1>0, <1>3, <2>3, <2>4 DEF Context0, TypeOK
    <3>2. /\ Len(Stopped.frames) = Len(live.frames) /\ Stopped.frames[1].at = "restore"
          /\ \A i \in 2 .. Len(live.frames) : Stopped.frames[i] = live.frames[i]
      BY <1>0, <2>3, StoppedFacts
    <3>3. \A i \in 1 .. Len(live.frames) : live.frames[i].at \notin LockSteps
      BY <2>1, <3>1 DEF Plainly
    <3>4. ASSUME NEW i \in 1 .. Len(Stopped.frames)
          PROVE  Stopped.frames[i].at \notin LockSteps
      <4>1. i = 1 \/ i \in 2 .. Len(live.frames)
        BY <1>0, <3>2
      <4>. QED
        BY <3>2, <3>3, <4>1 DEF LockSteps
    <3>. QED
      BY <3>1, <3>4 DEF Plainly
  <2>5. CASE cpu = 1
    <3>1. cpu' = 0
      BY <1>3, <2>5 DEF Both
    <3>2. Context0' = Context0
      BY <2>3, <2>5, <3>1 DEF Context0
    <3>. QED
      BY <2>1, <3>2
  <2>. QED
    BY <1>0, <2>4, <2>5
<1>. QED
  BY <1>1, <1>2, <1>3 DEF ShellFacts

ShellInv == KernelInv /\ CallInv /\ (Alone \/ Both)
WedgeInv == ShellInv /\ AsksInv /\ LockInv /\ IdleLockless

LEMMA ShellInit ==
  ASSUME Shelled, Init
  PROVE  ShellInv
<1>1. KernelInv
  BY InitInv
<1>2. live = Fresh /\ \A t \in Ids : parked[t] = Fresh
  BY DEF Init
<1>3. CallInv
  BY <1>2, FreshUnder DEF CallInv, Calls
<1>4. ~In("init") /\ live.ip = 1
  BY <1>2, FreshUnder DEF In
<1>5. Alone
  BY <1>2, <1>4 DEF Init, Alone, Idle
<1>. QED
  BY <1>1, <1>3, <1>5 DEF ShellInv

LEMMA WedgeInit ==
  ASSUME Shelled, Init
  PROVE  WedgeInv
<1>1. AsksInv
  BY DEF Init, AsksInv, Fresh
<1>2. LockInv
  BY DEF LockInv, Init, Locks
<1>3. ~Both
  BY DEF Init, Both
<1>. QED
  BY <1>1, <1>2, <1>3, ShellInit DEF WedgeInv, IdleLockless

LEMMA ShellNext ==
  ASSUME Shelled, ShellInv, [Next]_vars
  PROVE  ShellInv'
<1>1. ShellFacts
  BY DEF ShellFacts, ShellInv
<1>2. KernelInv' /\ CallInv'
  BY NextInv, CallInvNext DEF ShellInv
<1>3. (Alone \/ Both)'
  BY <1>1, AloneNext, BothNext DEF ShellInv
<1>. QED
  BY <1>2, <1>3 DEF ShellInv

LEMMA WedgeNext ==
  ASSUME Shelled, WedgeInv, [Next]_vars
  PROVE  WedgeInv'
<1>1. ShellInv' /\ KernelInv' /\ ShellFacts
  BY ShellNext DEF ShellFacts, WedgeInv, ShellInv
<1>2. AsksInv'
  BY <1>1, AsksNext DEF WedgeInv, ShellInv
<1>3. LockInv' /\ IdleLockless'
  BY <1>1, LockNext, IdleLocklessNext DEF WedgeInv
<1>. QED
  BY <1>1, <1>2, <1>3 DEF WedgeInv

\* A stack whose top asks for a lock holds none of the other two.
LEMMA AskerHoldsNone ==
  ASSUME NEW s, NEW asked, NEW on, NEW l, Len(s) \in Nat, Len(s) >= 1, StackOK(s, asked, on),
         s[1].at = "acquire"
  PROVE  ~Holds(s, l)
<1>1. CASE PlainFrom(s, 1)
  BY <1>1 DEF PlainFrom, Holds
<1>2. CASE InGuarded(s, asked)
  <2>1. Len(s) = 2 /\ s[2].at \in OverPlain
    BY <1>2 DEF InGuarded, GuardedSteps, YieldSteps
  <2>2. s[1].at # "release" /\ s[2].at # "release"
    BY <2>1 DEF OverPlain
  <2>3. \A i \in 1 .. 2 : i = 1 \/ i = 2
    OBVIOUS
  <2>. QED
    BY <2>1, <2>2, <2>3 DEF Holds
<1>3. ~Dying(s) /\ ~InTick(s)
  BY DEF Dying, InTick, YieldSteps
<1>. QED
  BY <1>1, <1>2, <1>3 DEF StackOK

LEMMA WedgeMeansFree ==
  ASSUME Shelled, WedgeInv
  PROVE  NeverWedged
<1>0. KernelInv /\ TypeOK /\ ShellFacts /\ 0 \in Ids /\ 1 \in Ids /\ cpu \in {0, 1}
  BY ShellPlaces DEF WedgeInv, ShellInv, ShellFacts
<1>. SUFFICES ASSUME ~InBody, Top.at \in Locking
              PROVE  ~held[Top.lock]
  BY DEF NeverWedged
<1>1. PICK k : At(k)
  BY DEF At
<1>2. /\ live \in Context /\ Len(live.frames) \in Nat /\ Len(live.frames) >= 1
      /\ Top = live.frames[1] /\ Top.lock \in Locks
  BY <1>0, <1>1, TopFrame
<1>3. StackOK(live.frames, Asked(cpu, live), intr)
  BY <1>0 DEF KernelInv, LiveInv
<1>4. CASE Top.at \in Asks
  <2>1. Top.lock = "SCHED"
    BY <1>2, <1>4 DEF WedgeInv, AsksInv
  <2>2. ~PlainFrame(live.frames[1]) /\ live.frames[1].at \notin Holders
    BY <1>2, <1>4 DEF PlainFrame, Asks, Locking, Holders
  <2>3. ~Holding(live.frames)
    BY <1>2, <1>3, <2>2, HoldingTop
  <2>. QED
    BY <1>0, <2>1, <2>3 DEF KernelInv, HeldInv
<1>5. CASE Top.at = "acquire"
  <2>1. Top.lock \in {"HEAP", "SERIAL"}
    BY <1>2, <1>3, <1>5
       DEF StackOK, PlainFrom, PlainFrame, InGuarded, Dying, InTick, GuardedSteps, YieldSteps
  <2>. SUFFICES ASSUME HeldBy(Top.lock)
                PROVE  FALSE
    BY <2>1 DEF WedgeInv, LockInv
  <2>2. ~Holds(live.frames, Top.lock)
    BY <1>2, <1>3, <1>5, AskerHoldsNone
  <2>3. PICK t \in Ids \ {cpu} : Holds(parked[t].frames, Top.lock)
    BY <2>2 DEF HeldBy
  <2>4. ~Holds(Fresh.frames, Top.lock)
    BY DEF Holds, Fresh
  <2>5. CASE Alone
    BY <2>3, <2>4, <2>5 DEF Alone
  <2>6. CASE Both
    <3>1. ~Plainly(Context0.frames)
      BY <2>6 DEF WedgeInv, IdleLockless
    <3>2. cpu # 0
      <4>1. Plainly(live.frames)
        BY <1>2, <1>5 DEF Plainly, LockSteps
      <4>. QED
        BY <3>1, <4>1 DEF Context0
    <3>3. t = 0 /\ Context0 = parked[0]
      BY <1>0, <2>3, <2>4, <2>6, <3>2 DEF Both, Context0
    <3>. QED
      BY <2>3, <3>1, <3>3 DEF Holds, Plainly, LockSteps
  <2>. QED
    BY <2>5, <2>6 DEF WedgeInv, ShellInv
<1>. QED
  BY <1>4, <1>5 DEF Asks

\* With the shell and the idle task of kernel_main, no routine that asks for a lock with
\* interrupts off ever finds it taken, wherever ticks and keys fall and whatever commands
\* are typed: the CPU never spins for a lock that only a parked context could drop.
THEOREM NeverWedgedHolds == Shelled => (Spec => []NeverWedged)
<1>. SUFFICES ASSUME Shelled PROVE Spec => []NeverWedged
  OBVIOUS
<1>1. Init => WedgeInv
  BY WedgeInit
<1>2. WedgeInv /\ [Next]_vars => WedgeInv'
  BY WedgeNext
<1>3. WedgeInv => NeverWedged
  BY WedgeMeansFree
<1>. QED
  BY <1>1, <1>2, <1>3, PTL DEF Spec

-----------------------------------------------------------------------------
(* The kernel with its keyboard is the kernel.                             *)

\* Every step of the composed system is one of Kernel or leaves it as it is.
LEMMA InputIsKernel ==
  ASSUME KernelInv, [InputNext]_allVars
  PROVE  [Next]_vars
<1>1. CASE InputCpuStep
  <2>1. CASE KbdStep
    <3>1. UNCHANGED <<intr, live>>
      BY <2>1 DEF KbdStep, KbdRead, KbdPush, KbdEoi, KbdIret
    <3>. QED
      BY <2>1, <3>1 DEF KbdStep, vars
  <2>2. CASE Proceeds /\ ~Op("shell") /\ (BodyStep \/ KernelStep)
    BY <2>2 DEF Proceeds, Next, CpuStep
  <2>3. CASE Proceeds /\ ReplStep
    <3>1. Executes /\ Op("shell") /\ UNCHANGED <<schedVars, cpu, irr, isr, held, parked, testVars>>
      BY <2>3 DEF Proceeds, ReplStep
    <3>2. CASE UNCHANGED <<live, intr, halted>>
      BY <3>1, <3>2 DEF vars
    <3>3. CASE ReplHlt
      <4>1. Halt
        BY <3>1, <3>3 DEF ReplHlt, Halt
      <4>. QED
        BY <3>1, <4>1 DEF Next, CpuStep, BodyStep
    <3>4. CASE \/ \E o \in {"stats", "snapshot"} : RepeatWith(Guarded(o)) /\ intr' = FALSE /\ halted' = halted
               \/ \E o \in {"print", "alloc"} : RepeatWith(Plain(o)) /\ UNCHANGED <<intr, halted>>
      <4>1. ShellCommand
        BY <3>1, <3>4 DEF ShellCommand
      <4>. QED
        BY <3>1, <4>1 DEF Next, CpuStep, BodyStep
    <3>5. CASE ReplPoll
      <4>1. CASE RepeatWith(<<Acquire("SERIAL")>>)
        <5>1. RepeatWith(Plain("print")) /\ UNCHANGED <<intr, halted>>
          BY <3>5, <4>1 DEF ReplPoll, Plain
        <5>. QED
          BY <3>4, <5>1
      <4>. QED
        BY <3>2, <3>5, <4>1 DEF ReplPoll
    <3>6. CASE ReplPop \/ ReplSerial
      BY <3>2, <3>6 DEF ReplPop, ReplSerial
    <3>7. CASE ReplServe
      BY <3>2, <3>4, <3>7 DEF ReplServe
    <3>. QED
      BY <2>3, <3>3, <3>5, <3>6, <3>7 DEF ReplStep
  <2>. QED
    BY <1>1, <2>1, <2>2, <2>3 DEF InputCpuStep
<1>2. CASE InputInterrupt \/ InputTick
  BY <1>2 DEF InputInterrupt, InputTick, Next
<1>3. CASE KeyPress \/ UNCHANGED allVars
  BY <1>3 DEF KeyPress, allVars
<1>4. CASE KeyIrq
  <2>1. UNCHANGED <<schedVars, cpu, intr, irr, isr, held, live, parked, testVars>> /\ halted' = FALSE
        /\ intr /\ ~Deliverable
    BY <1>4 DEF KeyIrq, KeyDeliverable
  <2>2. CASE halted = TRUE
    BY <2>1, <2>2 DEF OtherIrq, Next
  <2>3. CASE halted = FALSE
    BY <2>1, <2>3 DEF vars
  <2>4. halted = TRUE \/ halted = FALSE
    BY DEF KernelInv, TypeOK
  <2>. QED
    BY <2>2, <2>3, <2>4
<1>. QED
  BY <1>1, <1>2, <1>3, <1>4 DEF InputNext

\* Whatever bodies run over it, the kernel with its keyboard IRQ and its shell loop takes
\* only steps of Kernel: the ring's handler and pop disturb neither IF, locks nor stacks.
THEOREM InputImplementsKernel == InputSpec => Spec
<1>1. InputInit => Init
  BY DEF InputInit
<1>2. Init => KernelInv
  BY InitInv
<1>3. KernelInv /\ [InputNext]_allVars => [Next]_vars
  BY InputIsKernel
<1>4. KernelInv /\ [Next]_vars => KernelInv'
  BY NextInv
<1>. QED
  BY <1>1, <1>2, <1>3, <1>4, PTL DEF InputSpec, Spec

LEMMA InputKernelInv == InputSpec => []KernelInv
BY InputImplementsKernel, KernelInvHolds, PTL

-----------------------------------------------------------------------------
(* The ring under the interrupt and the shell is the ring of InputRing.    *)

\* The handler has a byte to read only once a key was pressed.
PortInv == keys \in 0 .. MaxKeys /\ (kirr \/ kbd = "read" => keys >= 1)

LEMMA PortInvNext ==
  ASSUME PortInv, [InputNext]_allVars
  PROVE  PortInv'
<1>1. CASE UNCHANGED irqVars
  BY <1>1 DEF PortInv, irqVars
<1>2. CASE KeyPress
  BY <1>2, InputAssumption DEF PortInv, KeyPress
<1>3. CASE KeyIrq
  BY <1>3 DEF PortInv, KeyIrq, KeyDeliverable
<1>4. CASE KbdStep
  <2>1. UNCHANGED <<keys, kirr>> /\ kbd' # "read"
    BY <1>4 DEF KbdStep, KbdRead, KbdPush, KbdEoi, KbdIret
  <2>. QED
    BY <1>1, <2>1 DEF PortInv
<1>. QED
  BY <1>1, <1>2, <1>3, <1>4
     DEF InputNext, InputCpuStep, InputInterrupt, InputTick, allVars, inputVars

LEMMA InputIsRing ==
  ASSUME PortInv, [InputNext]_allVars
  PROVE  [Ring!Next]_Ring!ringVars
<1>1. CASE UNCHANGED keyVars
  BY <1>1 DEF keyVars, Ring!ringVars
<1>2. CASE KbdStep
  <2>1. CASE KbdRead
    <3>1. keys \in 1 .. MaxKeys
      BY <2>1 DEF KbdRead, PortInv
    <3>. QED
      BY <1>1, <2>1, <3>1 DEF KbdRead, Ring!Next
  <2>2. CASE KbdPush
    BY <1>1, <2>2 DEF KbdPush, Ring!Next
  <2>3. CASE KbdEoi \/ KbdIret
    BY <1>1, <2>3 DEF KbdEoi, KbdIret
  <2>. QED
    BY <1>2, <2>1, <2>2, <2>3 DEF KbdStep
<1>3. CASE ReplStep
  <2>1. CASE ReplPoll
    BY <1>1, <2>1 DEF ReplPoll, Ring!Next
  <2>2. CASE ReplPop
    BY <1>1, <2>2 DEF ReplPop, Ring!Next
  <2>3. CASE ReplSerial \/ ReplHlt \/ ReplServe
    BY <1>1, <2>3 DEF ReplSerial, ReplHlt, ReplServe
  <2>. QED
    BY <1>3, <2>1, <2>2, <2>3 DEF ReplStep
<1>. QED
  BY <1>1, <1>2, <1>3
     DEF InputNext, InputCpuStep, InputInterrupt, InputTick, KeyPress, KeyIrq, allVars,
         inputVars

\* The handler pushes and the shell pops in the order of InputRing, whatever the timer
\* preempts in between.
THEOREM InputImplementsRing == InputSpec => Ring!Spec
<1>1. InputInit => Ring!Init /\ PortInv
  BY InputAssumption DEF InputInit, PortInv
<1>2. PortInv /\ [InputNext]_allVars => [Ring!Next]_Ring!ringVars /\ PortInv'
  BY InputIsRing, PortInvNext
<1>. QED
  BY <1>1, <1>2, PTL DEF InputSpec, Ring!Spec

\* The theorems about the ring hold of it inside the kernel.
RingP == INSTANCE InputRingProofs WITH Byte <- 1 .. MaxKeys

LEMMA RingArguments == Cap \in Nat /\ Cap >= 2 /\ 1 .. MaxKeys \subseteq Nat \ {0}
BY InputAssumption

LEMMA RingSame == Ring!Spec => RingP!Spec
<1>1. Ring!Init <=> RingP!Init
  BY DEF Ring!Init, RingP!Init, Ring!NoPush, RingP!NoPush, Ring!NoPop, RingP!NoPop,
         Ring!Slots, RingP!Slots
<1>2. Ring!ringVars = RingP!ringVars
  BY DEF Ring!ringVars, RingP!ringVars
<1>3. Ring!Next <=> RingP!Next
  BY DEF Ring!Next, RingP!Next, Ring!PushLoad, RingP!PushLoad, Ring!PushStore, RingP!PushStore,
         Ring!PushPublish, RingP!PushPublish, Ring!PopLoad, RingP!PopLoad, Ring!PopRead,
         RingP!PopRead, Ring!PopAdvance, RingP!PopAdvance, Ring!PopEmpty, RingP!PopEmpty,
         Ring!NextSlot, RingP!NextSlot, Ring!NoPush, RingP!NoPush, Ring!NoPop, RingP!NoPop
<1>4. [Ring!Next]_Ring!ringVars => [RingP!Next]_RingP!ringVars
  BY <1>2, <1>3 DEF Ring!ringVars, RingP!ringVars
<1>. QED
  BY <1>1, <1>4, PTL DEF Ring!Spec, RingP!Spec

\* With the interrupt pushing and the shell popping, no slot is read while it is written.
THEOREM InputNoSlotRace == InputSpec => []Ring!NoSlotRace
<1>1. RingP!Spec => []RingP!NoSlotRace
  BY RingArguments, RingP!RingNoSlotRace
<1>2. RingP!NoSlotRace => Ring!NoSlotRace
  BY DEF RingP!NoSlotRace, Ring!NoSlotRace
<1>. QED
  BY <1>1, <1>2, RingSame, InputImplementsRing, PTL

\* Keys reach the shell as through a bounded FIFO, however ticks interrupt its pop.
THEOREM InputImplementsQueue == InputSpec => Ring!ImplementsQueue
<1>1. RingP!Spec => RingP!ImplementsQueue
  BY RingArguments, RingP!RingImplementsQueue
<1>2. RingP!Contents = Ring!Contents
  BY DEF RingP!Contents, Ring!Contents, RingP!Used, Ring!Used
<1>3. RingP!Queue!Init => Ring!Queue!Init
  BY <1>2 DEF RingP!Queue!Init, Ring!Queue!Init
<1>4. [RingP!Queue!Next]_RingP!Queue!qvars => [Ring!Queue!Next]_Ring!Queue!qvars
  BY <1>2 DEF RingP!Queue!Next, Ring!Queue!Next, RingP!Queue!Take, Ring!Queue!Take,
     RingP!Queue!Accept, Ring!Queue!Accept, RingP!Queue!Refuse, Ring!Queue!Refuse,
     RingP!Queue!qvars, Ring!Queue!qvars, RingP!Contents, Ring!Contents, RingP!Used, Ring!Used
<1>5. RingP!ImplementsQueue => Ring!ImplementsQueue
  BY <1>3, <1>4, PTL
     DEF RingP!ImplementsQueue, Ring!ImplementsQueue, RingP!Queue!Spec, Ring!Queue!Spec
<1>. QED
  BY <1>1, <1>5, RingSame, InputImplementsRing, PTL

\* Proved of Kernel, for any bodies: true of the kernel with its keyboard.
THEOREM InputKernelSafe ==
  InputSpec => []PreemptionSafe /\ []OwnInterruptFlag /\ CleanSwitch /\ ImplementsScheduler
BY InputImplementsKernel, PreemptionSafeHolds, OwnInterruptFlagHolds, CleanSwitchHolds,
   ImplementsSchedulerHolds, PTL

-----------------------------------------------------------------------------
(* Who sleeps over a byte: where the running context stands on its way     *)
(* from a tick, or from a yield of its own, to the switch.                 *)

\* Bound for the switch.
Yielding == At("irq.eoi") \/ At("yield.lock") \/ At("yield.pick") \/ At("yield.switch")

\* The idle task has not come to its hlt yet.
Early == Context0.ip <= 4 \/ Under(Context0, Routine("yield"))

LEMMA OneStand ==
  ASSUME NEW k, NEW l, At(k), At(l)
  PROVE  k = l
BY DEF At

\* Which steps leave the places of interest.
LEMMA StepsFrom ==
  ASSUME BodyStep \/ KernelStep
  PROVE  /\ At("irq.eoi") => TimerHandler
         /\ At("yield.lock") => YieldLock
         /\ At("yield.pick") => YieldPick
         /\ At("yield.switch") => SwitchContext
         /\ At("restore") => Restore
         /\ At("iret") => Iret
         /\ ~InBody => KernelStep
<1>1. BodyStep => InBody
  BY DEF BodyStep, Op
<1>2. \A k : At(k) => ~InBody
  BY DEF At
<1>3. ASSUME KernelStep
      PROVE  \/ TimerHandler /\ At("irq.eoi")
             \/ YieldLock /\ At("yield.lock")
             \/ YieldPick /\ At("yield.pick")
             \/ SwitchContext /\ At("yield.switch")
             \/ Restore /\ At("restore")
             \/ Iret /\ At("iret")
             \/ \E k \in {"acquire", "release", "init.lock", "init.install", "spawn.lock",
                          "spawn.push", "exit.lock", "exit.mark", "exit.yield",
                          "snapshot.lock", "snapshot.copy"} : At(k)
  BY <1>3
     DEF KernelStep, TimerHandler, YieldLock, YieldPick, SwitchContext, Restore, Iret,
         LockAcquire, LockRelease, InitLock, InitInstall, SpawnLock, SpawnPush, ExitLock,
         ExitMark, ExitYield, SnapshotLock, SnapshotCopy
<1>. QED
  BY <1>1, <1>2, <1>3, OneStand

\* Code that runs outside a tick stays outside.
LEMMA OwnKept ==
  ASSUME KernelInv, KernelInv', BodyStep \/ KernelStep, cpu' = cpu, OwnCode
  PROVE  OwnCode'
<1>0. /\ live \in Context /\ Len(live.frames) \in Nat /\ TypeOK
      /\ live' \in Context /\ Len(live'.frames) \in Nat
      /\ live.frames = <<>> => Len(live.frames) = 0
  BY LiveLengths DEF KernelInv
<1>1. \A j \in 1 .. Len(live.frames) : live.frames[j].at \notin TickSteps
  BY DEF OwnCode, TickSteps
<1>. SUFFICES ASSUME NEW i \in 1 .. Len(live'.frames)
              PROVE  live'.frames[i].at \notin TickSteps
  BY DEF OwnCode, TickSteps
<1>2. CASE TakeEffect \/ MoveEffect
  <2>1. Moved(live.frames, live'.frames) /\ live'.frames[1].at \notin TickSteps
    BY <1>2 DEF TakeEffect, MoveEffect, TickSteps
  <2>2. i = 1 \/ (i \in 1 .. Len(live.frames) /\ live'.frames[i] = live.frames[i])
    BY <1>0, <2>1, FramesFrom
  <2>. QED
    BY <1>1, <2>1, <2>2
<1>3. CASE DropEffect \/ LeaveEffect
  <2>1. Left(live.frames, live'.frames)
    BY <1>3 DEF DropEffect, LeaveEffect
  <2>2. i + 1 \in 1 .. Len(live.frames) /\ live'.frames[i] = live.frames[i + 1]
    BY <1>0, <2>1, FramesFrom
  <2>. QED
    BY <1>1, <2>2
<1>4. CASE AskEffect
  <2>1. /\ Called(live.frames, live'.frames) /\ live'.frames[1].at \notin TickSteps
        /\ live'.frames[2].at \in TickSteps => live.frames[1].at = "irq.eoi"
    BY <1>4 DEF AskEffect
  <2>2. Len(live.frames) >= 1
    BY <2>1 DEF Called
  <2>3. live'.frames[2].at \notin TickSteps
    BY <1>0, <1>1, <2>1, <2>2 DEF TickSteps
  <2>4. i \in {1, 2} \/ (i - 1 \in 1 .. Len(live.frames) /\ live'.frames[i] = live.frames[i - 1])
    BY <1>0, <2>1, FramesFrom
  <2>. QED
    BY <1>1, <2>1, <2>3, <2>4
<1>5. CASE StartEffect
  <2>1. PICK o : \/ o \in GuardedOps /\ live'.frames = Guarded(o)
                 \/ o \in {"print", "alloc"} /\ live'.frames = Plain(o)
    BY <1>5 DEF StartEffect
  <2>2. CASE o \in GuardedOps /\ live'.frames = Guarded(o)
    BY <2>2, GuardedAsks
  <2>3. CASE live'.frames = Plain(o)
    <3>1. Len(live'.frames) = 1 /\ live'.frames[1].at = "acquire"
      BY <2>3, PlainAsks
    <3>. QED
      BY <3>1 DEF TickSteps
  <2>. QED
    BY <2>1, <2>2, <2>3
<1>6. CASE RestEffect
  BY <1>1, <1>6 DEF RestEffect
<1>7. ~SwitchContext
  <2>1. SwitchContext => At("yield.switch") /\ cpu' = current
    BY DEF SwitchContext
  <2>. QED
    BY <2>1 DEF KernelInv, SwitchInv
<1>. QED
  BY <1>2, <1>3, <1>4, <1>5, <1>6, <1>7, CpuFrameEffect

\* The incoming context continues behind its own switch, or starts.
LEMMA SwitchedNot ==
  ASSUME KernelInv, KernelInv', SwitchContext
  PROVE  ~Yielding' /\ cpu' # cpu
<1>1. At("yield.switch") /\ live' = parked[current] /\ cpu' = current
  BY DEF SwitchContext
<1>2. current # cpu /\ current \in Ids
  BY <1>1, KernelAssumption DEF KernelInv, SwitchInv, TypeOK, Ids
<1>3. live'.frames = <<>> \/ live'.frames[1].at = "restore"
  BY <1>1, <1>2 DEF KernelInv, ParkedInv, ParkedOK
<1>4. live' \in Context
  BY DEF KernelInv, TypeOK
<1>5. \A k : At(k)' => live'.frames # <<>> /\ live'.frames[1].at = k
  <2>. TAKE k
  <2>1. At(k)' <=> Len(live'.frames) >= 1 /\ live'.frames[1].at = k
    BY <1>4, AtFirstNext
  <2>2. live'.frames = <<>> => Len(live'.frames) = 0
    OBVIOUS
  <2>. QED
    BY <2>1, <2>2
<1>. QED
  BY <1>1, <1>2, <1>3, <1>5 DEF Yielding

\* On its way back from a tick, a context does not turn round.
LEMMA ReturningNext ==
  ASSUME KernelInv, KernelInv', BodyStep \/ KernelStep, ~OwnCode, ~Yielding
  PROVE  ~Yielding' /\ cpu' = cpu
<1>0. /\ live \in Context /\ Len(live.frames) \in Nat /\ TypeOK
      /\ live' \in Context /\ Len(live'.frames) \in Nat
  BY LiveLengths DEF KernelInv
<1>1. InTick(live.frames)
  <2>1. StackOK(live.frames, Asked(cpu, live), intr)
    BY DEF KernelInv, LiveInv
  <2>2. ~PlainFrom(live.frames, 1) /\ ~InGuarded(live.frames, Asked(cpu, live)) /\ ~Dying(live.frames)
    BY DEF OwnCode, PlainFrom, PlainFrame, InGuarded, Dying, GuardedSteps, YieldSteps, OverPlain
  <2>. QED
    BY <2>1, <2>2 DEF StackOK
<1>2. \A k : At(k) <=> Len(live.frames) >= 1 /\ live.frames[1].at = k
  BY <1>0, AtFirst
<1>3. \A k : At(k)' => Len(live'.frames) >= 1 /\ live'.frames[1].at = k
  BY <1>0, AtFirstNext
<1>4. At("restore") \/ At("iret")
  BY <1>1, <1>2 DEF InTick, Yielding, YieldSteps
<1>5. (At("restore") => Restore) /\ (At("iret") => Iret)
  BY StepsFrom
<1>6. Left(live.frames, live'.frames) /\ cpu' = cpu
  <2>1. Return /\ cpu' = cpu
    BY <1>4, <1>5 DEF Restore, Iret
  <2>. QED
    BY <1>0, <1>4, <2>1, ReturnMoves
<1>7. Len(live'.frames) >= 1 => live'.frames[1].at \in {"iret", "acquire", "release"}
  <2>1. Len(live'.frames) >= 1 => live'.frames[1] = live.frames[2] /\ Len(live.frames) >= 2
    BY <1>0, <1>6 DEF Left
  <2>2. CASE At("restore")
    BY <1>1, <1>2, <2>1, <2>2 DEF InTick
  <2>3. CASE At("iret")
    BY <1>1, <1>2, <2>1, <2>3 DEF InTick, PlainFrom, PlainFrame, YieldSteps
  <2>. QED
    BY <1>4, <2>2, <2>3
<1>. QED
  BY <1>3, <1>6, <1>7 DEF Yielding

\* The idle task goes all the way to the switch: the shell is in the queue.
LEMMA YieldingNext ==
  ASSUME ShellFacts, KernelInv', Both, cpu = 0, cpu' = 0, BodyStep \/ KernelStep, Yielding
  PROVE  Yielding'
<1>0. KernelInv /\ TypeOK /\ live' \in Context
  BY DEF ShellFacts, KernelInv, TypeOK
<1>1. \A k : (Len(live'.frames) >= 1 /\ live'.frames[1].at = k) => At(k)'
  BY <1>0, AtFirstNext
<1>2. {"yield.lock", "yield.pick", "yield.switch", "iret"} \subseteq Places
  BY DEF Places, GuardedSteps, YieldSteps
<1>3. ASSUME At("irq.eoi")
      PROVE  At("yield.lock")'
  <2>. DEFINE f == Frame("yield.lock", "SCHED", intr)
  <2>1. GotoAndCall("iret", f)
    BY <1>3, StepsFrom DEF TimerHandler
  <2>2. f \in FrameType /\ f.at = "yield.lock"
    BY <1>0, <1>2 DEF Frame, FrameType, Locks, TypeOK
  <2>. HIDE DEF f
  <2>3. Called(live.frames, live'.frames) /\ live'.frames[1] = f
    BY <1>0, <1>2, <1>3, <2>1, <2>2, CallMoves
  <2>4. Len(live'.frames) >= 1
    <3>1. Len(live.frames) \in Nat
      BY LiveLengths, <1>0 DEF KernelInv
    <3>. QED
      BY <2>3, <3>1 DEF Called
  <2>. QED
    BY <1>1, <2>2, <2>3, <2>4
<1>4. ASSUME NEW k, NEW l \in Places, At(k), Goto(l)
      PROVE  At(l)'
  <2>1. Moved(live.frames, live'.frames) /\ live'.frames[1].at = l
    BY <1>0, <1>4, GotoMoves
  <2>. QED
    BY <1>1, <2>1 DEF Moved
<1>5. ASSUME At("yield.lock")
      PROVE  At("yield.pick")'
  BY <1>2, <1>4, <1>5, StepsFrom DEF YieldLock
<1>6. ASSUME At("yield.pick")
      PROVE  At("yield.switch")'
  <2>1. YieldPick
    BY <1>6, StepsFrom
  <2>2. current = 0
    BY <1>0, <1>6, OneStand DEF KernelInv, SwitchInv
  <2>3. Chosen = 1
    BY <2>2 DEF Both, Chosen
  <2>4. Goto("yield.switch")
    BY <2>1, <2>2, <2>3 DEF YieldPick
  <2>. QED
    BY <1>2, <1>4, <1>6, <2>4
<1>7. ~At("yield.switch")
  <2>1. At("yield.switch") => SwitchContext
    BY StepsFrom
  <2>. QED
    BY <1>0, <2>1, SwitchedNot
<1>. QED
  BY <1>3, <1>5, <1>6, <1>7 DEF Yielding

\* Once idle has left its one yield, it never comes back to it.
LEMMA EarlyNext ==
  ASSUME ShellFacts, Both, [Next]_vars, Early'
  PROVE  Early
<1>0. KernelInv /\ TypeOK /\ 0 \in Ids /\ cpu \in {0, 1}
  BY ShellPlaces DEF ShellFacts
<1>1. Context0'.ip <= 4 => Early
  BY BothNext DEF Early
<1>. SUFFICES ASSUME Under(Context0', Routine("yield"))
              PROVE  Early
  BY <1>1 DEF Early
<1>2. CASE cpu = 0 /\ cpu' = cpu
  <2>1. Context0 = live /\ Context0' = live'
    BY <1>2 DEF Context0
  <2>2. CASE QuietEffect \/ ChooseEffect
    <3>1. SameCall
      BY <2>2 DEF QuietEffect, ChooseEffect
    <3>. QED
      BY <2>1, <3>1, OwnMark DEF SameCall, Routines, Early
  <2>3. CASE CallEffect
    <3>1. InBody
      BY <2>3 DEF CallEffect
    <3>2. PICK o : Enters(o)
      BY <2>3 DEF CallEffect
    <3>3. live.ip \in 1 .. 4
      BY <1>2, <3>1, <3>2, IdleCallsNext
    <3>. QED
      BY <2>1, <3>3 DEF Early
  <2>4. CASE NoSwitchEffect
    BY <2>1, <2>4, OwnMark DEF NoSwitchEffect, Routines
  <2>5. ~SwitchEffect
    BY <1>2 DEF SwitchEffect
  <2>6. ~SpawnEffect /\ ~InstallEffect
    BY BothCalls DEF SpawnEffect, InstallEffect
  <2>7. ~MarkEffect
    BY ShellPlaces DEF MarkEffect
  <2>. QED
    BY <1>0, <2>2, <2>3, <2>4, <2>5, <2>6, <2>7, StepEffect
<1>3. CASE cpu = 1 /\ cpu' = cpu
  <2>1. Context0' = Context0
    BY <1>0, <1>3, ParkedKept DEF Context0
  <2>. QED
    BY <2>1 DEF Early
<1>4. CASE cpu' # cpu
  <2>1. SwitchContext
    BY <1>0, <1>4, FrameEffect
       DEF TakeEffect, DropEffect, MoveEffect, LeaveEffect, AskEffect, IrqEffect, StartEffect,
           RestEffect
  <2>2. /\ At("yield.switch") /\ live' = parked[current] /\ cpu' = current
        /\ parked' = [parked EXCEPT ![cpu] = Stopped]
    BY <2>1 DEF SwitchContext, Stopped
  <2>3. CASE cpu = 0
    <3>1. Context0' = Stopped /\ Context0 = live
      BY <1>0, <1>4, <2>2, <2>3 DEF Context0, TypeOK
    <3>. QED
      BY <1>0, <2>2, <3>1, StoppedFacts, OwnMark DEF Routines, Early
  <2>4. CASE cpu = 1
    <3>1. cpu' = 0
      BY <1>4, <2>2, <2>4 DEF Both
    <3>2. Context0' = Context0
      BY <2>2, <2>4, <3>1 DEF Context0
    <3>. QED
      BY <3>2 DEF Early
  <2>. QED
    BY <1>0, <2>3, <2>4
<1>. QED
  BY <1>0, <1>2, <1>3, <1>4

\* Who switches by itself: only the idle task, by its yield.
LEMMA OwnSwitch ==
  ASSUME ShellFacts, OwnCode, At("yield.switch")
  PROVE  cpu = 0 /\ Early
<1>1. Len(live.frames) \in Nat /\ Len(live.frames) >= 1
  BY TopFrame DEF ShellFacts, KernelInv
<1>2. Len(live.frames) # 1 => live.frames[2].at # "iret"
  <2>. SUFFICES ASSUME Len(live.frames) # 1
                PROVE  live.frames[2].at # "iret"
    OBVIOUS
  <2>1. \A n \in Nat : n >= 1 /\ n # 1 => 2 \in 1 .. n
    OBVIOUS
  <2>2. 2 \in 1 .. Len(live.frames)
    BY <1>1, <2>1
  <2>. QED
    BY <2>2 DEF OwnCode
<1>3. Under(live, Routine("yield")) \/ Under(live, Leaving)
  BY <1>2, YieldOver DEF ShellFacts
<1>4. Under(live, Routine("yield"))
  BY <1>3, ShellPlaces
<1>5. cpu = 0
  BY <1>4, ShellPlaces DEF Routines
<1>. QED
  BY <1>4, <1>5, ShellPlaces DEF Early

-----------------------------------------------------------------------------
(* How many ticks in a row the CPU sleeps through: a row has the tick that *)
(* resumes a shell parked right before its hlt, the one that ends this hlt *)
(* and the one that ends the idle task's.                                  *)

\* The CPU sleeps in the idle task's last instruction or in the shell's loop.
HaltInv == halted => IF cpu = 0 THEN live.ip = 5 /\ InBody ELSE repl = "poll"

\* A tick waits only for a task that has run, and preempts only what then has not.
RanInv == (irr => ran) /\ (Yielding /\ ~OwnCode => ~ran)

\* A shell that still has its hlt before it; a row has one tick less for it.
SleepBound ==
  IF Yielding
  THEN IF cpu = 0 THEN IF repl = "hlt" THEN 1 ELSE 3 ELSE IF repl = "hlt" THEN 0 ELSE 2
  ELSE IF cpu = 0 THEN IF repl = "hlt" THEN 0 ELSE 2
       ELSE IF ran THEN IF repl = "hlt" THEN 0 ELSE 1 ELSE IF repl = "hlt" THEN 1 ELSE 3

\* Before the idle task first sleeps, only the shell's own hlt can count.
EarlyInv ==
  /\ count = 1 => slept = 0
  /\ Early => slept <= 1 /\ (repl = "hlt" \/ halted => slept = 0)

SleepInv ==
  /\ slept \in Nat /\ ran \in BOOLEAN /\ HaltInv /\ RanInv /\ slept <= SleepBound /\ EarlyInv

SleepFacts == Shelled /\ ShellInv /\ SleepInv

\* The keyboard, its handler and the PIT leave the running task alone.
LEMMA StillKeeps ==
  ASSUME SleepFacts, UNCHANGED <<schedVars, cpu, live, parked, repl, ran, slept>>,
         halted' => halted, irr' => irr \/ ran
  PROVE  SleepInv'
<1>1. /\ \A k : At(k)' <=> At(k)
      /\ InBody' <=> InBody
      /\ OwnCode' <=> OwnCode
  BY DEF At, InBody, Top, OwnCode
<1>2. (Yielding' <=> Yielding) /\ (Early' <=> Early) /\ count' = count
  BY <1>1 DEF Yielding, Early, Context0, schedVars
<1>3. HaltInv' /\ RanInv'
  BY <1>1, <1>2 DEF SleepFacts, SleepInv, HaltInv, RanInv
<1>4. SleepBound' = SleepBound
  BY <1>2 DEF SleepBound
<1>5. EarlyInv'
  BY <1>2 DEF SleepFacts, SleepInv, EarlyInv
<1>. QED
  BY <1>3, <1>4, <1>5 DEF SleepFacts, SleepInv

LEMMA SleepPlaces ==
  ASSUME SleepFacts
  PROVE  /\ ShellFacts /\ KernelInv /\ TypeOK /\ cpu \in {0, 1} /\ slept \in Nat
         /\ Alone => slept = 0 /\ ~halted /\ cpu = 0
         /\ ~Alone => Both
         /\ cpu = 0 => Program = Main /\ live = Context0
         /\ cpu # 0 => Program = ShellMain
<1>1. ShellFacts
  BY DEF SleepFacts, ShellFacts, ShellInv
<1>2. Alone => slept = 0 /\ ~halted /\ cpu = 0
  <2>1. Alone => count = 1 /\ cpu = 0 /\ live.ip # 5
    BY DEF Alone
  <2>. QED
    BY <2>1 DEF SleepFacts, SleepInv, EarlyInv, HaltInv
<1>3. KernelInv /\ (~Alone => Both) /\ slept \in Nat
  BY DEF SleepFacts, ShellInv, SleepInv
<1>. QED
  BY <1>1, <1>2, <1>3, ShellPlaces

\* What a halted CPU and the idle task at its last instruction are not.
LEMMA HaltedNotEarly ==
  ASSUME SleepFacts, halted, cpu = 0
  PROVE  ~Early
<1>1. live = Context0 /\ live.ip = 5 /\ InBody
  BY SleepPlaces DEF SleepFacts, SleepInv, HaltInv
<1>. QED
  BY <1>1 DEF Early, Under, InBody

\* A tick.
LEMMA InterruptKeeps ==
  ASSUME SleepFacts, ShellInv', [Next]_vars, TimerIrq, ran' = FALSE, repl' = repl,
         slept' = slept \/ (halted /\ slept' = slept + 1)
  PROVE  SleepInv'
<1>0. /\ ShellFacts /\ KernelInv /\ TypeOK /\ cpu \in {0, 1} /\ slept \in Nat /\ slept' \in Nat
      /\ cpu' = cpu /\ irr /\ irr' = FALSE /\ halted' = FALSE /\ intr /\ count' = count
  <2>1. cpu' = cpu /\ irr /\ irr' = FALSE /\ halted' = FALSE /\ intr /\ count' = count
    BY DEF TimerIrq, Deliverable, schedVars
  <2>. QED
    BY <2>1, SleepPlaces
<1>1. ran = TRUE
  BY <1>0 DEF SleepFacts, SleepInv, RanInv
<1>2. ~Yielding
  <2>1. StackOK(live.frames, Asked(cpu, live), intr)
    BY <1>0 DEF KernelInv, LiveInv
  <2>2. PlainFrom(live.frames, 1)
    BY <1>0, <2>1 DEF StackOK
  <2>3. \A k : At(k) => Len(live.frames) >= 1 /\ live.frames[1].at = k
    BY <1>0, AtFirst
  <2>. QED
    BY <2>2, <2>3 DEF PlainFrom, PlainFrame, Yielding
<1>3. Yielding'
  <2>1. /\ Pushed(live.frames, live'.frames) /\ live'.frames[1].at = "irq.eoi"
        /\ Len(live.frames) \in Nat /\ live' \in Context
    BY <1>0, TimerIrqFrames, FramesOfContext DEF IrqEffect, TypeOK, ShellInv, KernelInv
  <2>2. Len(live'.frames) >= 1
    BY <2>1 DEF Pushed
  <2>. QED
    BY <2>1, <2>2, AtFirstNext DEF Yielding
<1>4. HaltInv' /\ RanInv'
  BY <1>0 DEF HaltInv, RanInv
<1>5. slept <= IF cpu = 0 THEN IF repl = "hlt" THEN 0 ELSE 2 ELSE IF repl = "hlt" THEN 0 ELSE 1
  BY <1>1, <1>2 DEF SleepFacts, SleepInv, SleepBound
<1>6. halted /\ cpu = 1 => repl # "hlt"
  BY DEF SleepFacts, SleepInv, HaltInv
<1>7. slept' <= SleepBound'
  BY <1>0, <1>3, <1>5, <1>6 DEF SleepBound
<1>8. EarlyInv'
  <2>1. count' = 1 => slept' = 0
    <3>1. count = 1 => Alone
      BY SleepPlaces DEF Both
    <3>. QED
      BY <1>0, <3>1, SleepPlaces
  <2>2. ASSUME Early'
        PROVE  slept' <= 1 /\ (repl' = "hlt" => slept' = 0)
    <3>1. CASE Alone
      <4>1. slept' = 0
        BY <3>1, SleepPlaces
      <4>. QED
        BY <4>1
    <3>2. CASE Both
      <4>1. Early
        BY <1>0, <2>2, <3>2, EarlyNext
      <4>2. slept <= 1 /\ (repl = "hlt" \/ halted => slept = 0)
        BY <4>1 DEF SleepFacts, SleepInv, EarlyInv
      <4>3. repl = "hlt" => ~halted
        BY <1>0, <1>6, <4>1, HaltedNotEarly
      <4>. QED
        BY <1>0, <4>2, <4>3
    <3>. QED
      BY <3>1, <3>2, SleepPlaces
  <2>. QED
    BY <1>0, <2>1, <2>2 DEF EarlyInv
<1>. QED
  BY <1>0, <1>4, <1>7, <1>8 DEF SleepInv

-----------------------------------------------------------------------------
(* Steps of the CPU.                                                       *)

CpuMoves == ~Op("shell") /\ (BodyStep \/ KernelStep) /\ repl' = repl

LEMMA CpuKept ==
  ASSUME BodyStep \/ KernelStep
  PROVE  /\ irr' = irr
         /\ \/ halted' = halted
            \/ (Op("hlt") \/ Op("shell")) /\ halted' = TRUE /\ UNCHANGED <<live, cpu>>
<1>1. CASE KernelStep
  BY <1>1
     DEF KernelStep, TimerHandler, YieldLock, YieldPick, SwitchContext, Restore, Iret,
         LockAcquire, LockRelease, InitLock, InitInstall, SpawnLock, SpawnPush, ExitLock,
         ExitMark, ExitYield, SnapshotLock, SnapshotCopy
<1>2. CASE BodyStep
  BY <1>2
     DEF BodyStep, CallGuarded, CallPlain, SetIf, Record, Halt, ShellCommand
<1>. QED
  BY <1>1, <1>2

\* The shell's loop runs in the shell's body.
LEMMA ReplFacts ==
  ASSUME SleepFacts, ReplStep
  PROVE  /\ cpu = 1 /\ cpu' = 1 /\ irr' = irr /\ OwnCode /\ OwnCode' /\ ~Yielding
         /\ repl # "hlt" => halted' = halted
         /\ repl = "hlt" => live' = live /\ repl' = "poll" /\ halted' = TRUE
<1>0. Op("shell") /\ cpu' = cpu /\ irr' = irr
  BY DEF ReplStep
<1>1. cpu = 1
  <2>1. live.ip \in DOMAIN Program /\ Program[live.ip] = "shell"
    BY <1>0 DEF Op
  <2>2. \A i \in DOMAIN Main : Main[i] # "shell"
    BY ShellBodies DEF SleepFacts
  <2>. QED
    BY <2>1, <2>2, SleepPlaces
<1>2. InBody /\ live \in Context /\ live.frames = <<>>
  <2>1. InBody /\ live.frames = <<>>
    BY <1>0 DEF Op, InBody
  <2>2. live \in Context
    BY SleepPlaces DEF TypeOK
  <2>. QED
    BY <2>1, <2>2
<1>3. OwnCode /\ ~Yielding
  BY <1>2 DEF OwnCode, Yielding, At
<1>4. live' = live => OwnCode'
  BY <1>3 DEF OwnCode
<1>5. ASSUME NEW o \in GuardedOps, RepeatWith(Guarded(o))
      PROVE  OwnCode'
  <2>1. live'.frames = Guarded(o)
    BY <1>2, <1>5 DEF RepeatWith, Context
  <2>2. \A i \in 1 .. Len(live'.frames) : live'.frames[i].at \notin TickSteps
    BY <2>1, GuardedAsks
  <2>. QED
    BY <2>2 DEF OwnCode, TickSteps
<1>6. ASSUME NEW o, RepeatWith(Plain(o))
      PROVE  OwnCode'
  <2>1. live'.frames = Plain(o)
    BY <1>2, <1>6 DEF RepeatWith, Context
  <2>2. Len(live'.frames) = 1 /\ live'.frames[1].at = "acquire"
    BY <2>1, PlainAsks
  <2>. QED
    BY <2>2 DEF OwnCode
<1>7. /\ \/ live' = live
         \/ \E o \in {"stats", "snapshot"} : RepeatWith(Guarded(o))
         \/ \E o \in {"print", "alloc"} : RepeatWith(Plain(o))
      /\ repl # "hlt" => halted' = halted
      /\ repl = "hlt" => live' = live /\ repl' = "poll" /\ halted' = TRUE
  <2>1. CASE ReplPoll
    <3>1. repl = "poll" /\ halted' = halted
          /\ (live' = live \/ RepeatWith(<<Acquire("SERIAL")>>))
      BY <2>1 DEF ReplPoll
    <3>2. <<Acquire("SERIAL")>> = Plain("print")
      BY DEF Plain
    <3>. QED
      BY <3>1, <3>2
  <2>2. CASE ReplServe
    BY <2>2 DEF ReplServe
  <2>3. CASE ReplPop \/ ReplSerial \/ ReplHlt
    BY <2>3 DEF ReplPop, ReplSerial, ReplHlt
  <2>. QED
    BY <2>1, <2>2, <2>3 DEF ReplStep
<1>8. OwnCode'
  BY <1>4, <1>5, <1>6, <1>7 DEF GuardedOps
<1>. QED
  BY <1>0, <1>1, <1>3, <1>7, <1>8

LEMMA HaltNext ==
  ASSUME SleepFacts, ~halted, CpuMoves \/ ReplStep
  PROVE  /\ HaltInv'
         /\ CpuMoves /\ halted' = TRUE => cpu = 0 /\ cpu' = 0 /\ live'.ip = 5 /\ InBody'
<1>1. CASE ReplStep
  <2>1. halted' => repl' = "poll" /\ cpu' = 1
    BY <1>1, ReplFacts
  <2>2. ~CpuMoves
    BY <1>1 DEF ReplStep, CpuMoves
  <2>. QED
    BY <2>1, <2>2 DEF HaltInv
<1>2. CASE CpuMoves
  <2>. SUFFICES ASSUME halted' # halted
                PROVE  cpu = 0 /\ cpu' = 0 /\ live'.ip = 5 /\ InBody'
    BY DEF HaltInv
  <2>1. Op("hlt") /\ UNCHANGED <<live, cpu>>
    BY <1>2, CpuKept DEF CpuMoves
  <2>2. live.ip \in DOMAIN Program /\ Program[live.ip] = "hlt" /\ InBody
    BY <2>1 DEF Op
  <2>3. cpu = 0
    <3>1. \A i \in DOMAIN ShellMain : ShellMain[i] # "hlt"
      BY DEF ShellMain
    <3>. QED
      BY <2>2, <3>1, SleepPlaces
  <2>4. live.ip = 5
    <3>1. \A i \in DOMAIN Main : Main[i] = "hlt" => i = 5
      BY ShellBodies DEF SleepFacts
    <3>. QED
      BY <2>2, <2>3, <3>1, SleepPlaces
  <2>. QED
    BY <2>1, <2>2, <2>3, <2>4 DEF InBody
<1>. QED
  BY <1>1, <1>2

LEMMA RanNext ==
  ASSUME SleepFacts, KernelInv', CpuMoves \/ ReplStep, ran' = (ran \/ OwnCode)
  PROVE  RanInv' /\ ran' \in BOOLEAN
<1>0. KernelInv /\ ran \in BOOLEAN /\ (irr => ran) /\ (Yielding /\ ~OwnCode => ~ran)
  BY SleepPlaces DEF SleepFacts, SleepInv, RanInv
<1>1. ran' \in BOOLEAN /\ (ran => ran') /\ (~OwnCode /\ ~ran => ~ran')
  BY <1>0
<1>2. irr' = irr
  BY CpuKept, ReplFacts DEF CpuMoves
<1>3. ASSUME Yielding', ~OwnCode'
      PROVE  ~ran'
  <2>1. CpuMoves
    BY <1>3, ReplFacts
  <2>2. BodyStep \/ KernelStep
    BY <2>1 DEF CpuMoves
  <2>3. cpu' = cpu
    <3>1. KernelInv /\ (cpu' # cpu => SwitchContext)
      BY <1>0, <2>2, CpuFrameEffect
         DEF TakeEffect, DropEffect, MoveEffect, LeaveEffect, AskEffect, StartEffect, RestEffect
    <3>. QED
      BY <1>3, <3>1, SwitchedNot
  <2>4. ~OwnCode
    BY <1>0, <1>3, <2>2, <2>3, OwnKept
  <2>5. Yielding
    BY <1>0, <1>3, <2>2, <2>4, ReturningNext
  <2>. QED
    BY <1>0, <1>1, <2>4, <2>5
<1>. QED
  BY <1>0, <1>1, <1>2, <1>3 DEF RanInv

\* The idle task runs, and the shell waits where it stopped.
LEMMA IdleKeeps ==
  ASSUME SleepFacts, ShellInv', [Next]_vars, CpuMoves, cpu = 0, ran' = (ran \/ OwnCode),
         slept' = slept
  PROVE  slept' <= SleepBound'
<1>0. /\ ShellFacts /\ KernelInv /\ KernelInv' /\ slept \in Nat /\ repl' = repl
      /\ BodyStep \/ KernelStep
      /\ ran \in BOOLEAN /\ (Yielding /\ ~OwnCode => ~ran)
  BY SleepPlaces DEF CpuMoves, ShellInv, SleepFacts, SleepInv, RanInv
<1>1. CASE Alone
  <2>1. slept' = 0
    BY <1>1, SleepPlaces
  <2>. QED
    BY <2>1 DEF SleepBound
<1>2. CASE Both /\ cpu' = cpu
  <2>1. Yielding => Yielding'
    BY <1>0, <1>2, YieldingNext
  <2>2. slept <= IF Yielding THEN IF repl = "hlt" THEN 1 ELSE 3 ELSE IF repl = "hlt" THEN 0 ELSE 2
    BY DEF SleepFacts, SleepInv, SleepBound
  <2>3. SleepBound' = IF Yielding' THEN IF repl = "hlt" THEN 1 ELSE 3
                                   ELSE IF repl = "hlt" THEN 0 ELSE 2
    BY <1>0, <1>2 DEF SleepBound
  <2>. QED
    BY <1>0, <2>1, <2>2, <2>3
<1>3. CASE Both /\ cpu' # cpu
  <2>1. SwitchContext
    BY <1>0, <1>3, CpuFrameEffect
       DEF TakeEffect, DropEffect, MoveEffect, LeaveEffect, AskEffect, StartEffect, RestEffect
  <2>2. At("yield.switch") /\ Yielding /\ ~Yielding'
    BY <1>0, <2>1, SwitchedNot DEF SwitchContext, Yielding
  <2>3. slept <= IF repl = "hlt" THEN 1 ELSE 3
    BY <2>2 DEF SleepFacts, SleepInv, SleepBound
  <2>4. SleepBound' = IF ran' THEN IF repl = "hlt" THEN 0 ELSE 1 ELSE IF repl = "hlt" THEN 1 ELSE 3
    BY <1>0, <1>3, <2>2 DEF SleepBound
  <2>5. CASE OwnCode
    <3>1. Early
      BY <1>0, <2>2, <2>5, OwnSwitch
    <3>2. slept <= 1 /\ (repl = "hlt" => slept = 0)
      BY <3>1 DEF SleepFacts, SleepInv, EarlyInv
    <3>. QED
      BY <1>0, <2>4, <3>2
  <2>6. CASE ~OwnCode
    <3>1. ~ran'
      BY <1>0, <2>2, <2>6
    <3>. QED
      BY <1>0, <2>3, <2>4, <3>1
  <2>. QED
    BY <2>5, <2>6
<1>. QED
  BY <1>1, <1>2, <1>3, SleepPlaces

\* The shell's context handles a tick.
LEMMA ShellKeeps ==
  ASSUME SleepFacts, ShellInv', [Next]_vars, CpuMoves, cpu = 1, ~OwnCode, ran' = (ran \/ OwnCode),
         slept' = slept
  PROVE  slept' <= SleepBound'
<1>0. /\ ShellFacts /\ KernelInv /\ KernelInv' /\ slept \in Nat /\ repl' = repl
      /\ BodyStep \/ KernelStep
      /\ ran \in BOOLEAN /\ (Yielding /\ ~OwnCode => ~ran)
  BY SleepPlaces DEF CpuMoves, ShellInv, SleepFacts, SleepInv, RanInv
<1>1. ran' = ran
  BY <1>0
<1>2. CASE Yielding
  <2>1. slept <= IF repl = "hlt" THEN 0 ELSE 2
    BY <1>2 DEF SleepFacts, SleepInv, SleepBound
  <2>2. ~ran'
    BY <1>0, <1>1, <1>2
  <2>3. CASE cpu' = cpu
    <3>1. SleepBound' = IF Yielding' THEN IF repl = "hlt" THEN 0 ELSE 2
                                     ELSE IF repl = "hlt" THEN 1 ELSE 3
      BY <1>0, <2>2, <2>3 DEF SleepBound
    <3>. QED
      BY <1>0, <2>1, <3>1
  <2>4. CASE cpu' # cpu
    <3>1. SwitchContext
      BY <1>0, <2>4, CpuFrameEffect
         DEF TakeEffect, DropEffect, MoveEffect, LeaveEffect, AskEffect, StartEffect, RestEffect
    <3>2. ~Yielding'
      BY <1>0, <3>1, SwitchedNot
    <3>3. cpu' = 0
      <4>1. Both
        BY SleepPlaces
      <4>2. cpu' \in {0, 1}
        BY <1>0, <4>1, BothNext DEF Both
      <4>. QED
        BY <2>4, <4>2
    <3>4. SleepBound' = IF repl = "hlt" THEN 0 ELSE 2
      BY <1>0, <3>2, <3>3 DEF SleepBound
    <3>. QED
      BY <2>1, <3>4
  <2>. QED
    BY <2>3, <2>4
<1>3. CASE ~Yielding
  <2>1. ~Yielding' /\ cpu' = cpu
    BY <1>0, <1>3, ReturningNext
  <2>2. SleepBound' = SleepBound
    BY <1>0, <1>1, <1>3, <2>1 DEF SleepBound
  <2>. QED
    BY <2>2 DEF SleepFacts, SleepInv
<1>. QED
  BY <1>2, <1>3

LEMMA CpuKeeps ==
  ASSUME SleepFacts, ShellInv', [Next]_vars, ~halted, CpuMoves \/ ReplStep,
         ran' = (ran \/ OwnCode),
         slept' = IF cpu = Shell /\ OwnCode /\ ~(Op("shell") /\ repl = "hlt") THEN 0 ELSE slept
  PROVE  SleepInv'
<1>0. KernelInv' /\ ShellFacts /\ KernelInv /\ cpu \in {0, 1} /\ slept \in Nat
  BY SleepPlaces DEF ShellInv
<1>1. HaltInv' /\ RanInv' /\ ran' \in BOOLEAN
  BY <1>0, HaltNext, RanNext
<1>2. CASE slept' = 0
  <2>1. 0 <= SleepBound'
    BY DEF SleepBound
  <2>2. EarlyInv'
    BY <1>2 DEF EarlyInv
  <2>. QED
    BY <1>1, <1>2, <2>1, <2>2 DEF SleepInv
<1>3. CASE ReplStep /\ slept' # 0
  <2>1. cpu = 1 /\ cpu' = 1 /\ OwnCode /\ OwnCode' /\ ~Yielding /\ Op("shell")
    BY <1>3, ReplFacts DEF ReplStep
  <2>2. repl = "hlt" /\ slept' = slept
    BY <1>3, <2>1 DEF Shell
  <2>3. live' = live /\ repl' = "poll" /\ ran'
    BY <1>3, <2>1, <2>2, ReplFacts
  <2>4. ~Yielding'
    <3>1. \A k : At(k)' <=> At(k)
      BY <2>3 DEF At, InBody, Top
    <3>. QED
      BY <2>1, <3>1 DEF Yielding
  <2>5. slept <= 1
    <3>1. slept <= IF ran THEN 0 ELSE 1
      BY <2>1, <2>2 DEF SleepFacts, SleepInv, SleepBound
    <3>. QED
      BY <1>0, <3>1
  <2>6. slept' <= SleepBound'
    BY <2>1, <2>2, <2>3, <2>4, <2>5 DEF SleepBound
  <2>7. Both /\ Both'
    <3>1. Both
      BY <2>1, SleepPlaces
    <3>. QED
      BY <1>0, <3>1, BothNext
  <2>8. ~Early'
    <3>1. Early => slept = 0
      BY <2>2 DEF SleepFacts, SleepInv, EarlyInv
    <3>. QED
      BY <1>0, <1>3, <2>2, <2>7, <3>1, EarlyNext
  <2>9. EarlyInv'
    BY <2>7, <2>8 DEF EarlyInv, Both
  <2>. QED
    BY <1>0, <1>1, <2>2, <2>6, <2>9 DEF SleepInv
<1>4. CASE CpuMoves /\ slept' = slept /\ slept' # 0
  <2>1. slept' <= SleepBound'
    <3>1. cpu = 0 => slept' <= SleepBound'
      BY <1>4, IdleKeeps
    <3>2. cpu = 1 => ~OwnCode
      BY <1>4 DEF CpuMoves, Shell
    <3>3. cpu = 1 => slept' <= SleepBound'
      BY <1>4, <3>2, ShellKeeps
    <3>. QED
      BY <1>0, <3>1, <3>3
  <2>2. Both /\ Both'
    <3>1. Both
      BY <1>4, SleepPlaces
    <3>. QED
      BY <1>0, <3>1, BothNext
  <2>3. ASSUME Early'
        PROVE  slept' <= 1 /\ (repl' = "hlt" \/ halted' => slept' = 0)
    <3>1. slept <= 1 /\ (repl = "hlt" => slept = 0)
      BY <1>0, <2>2, <2>3, EarlyNext DEF SleepFacts, SleepInv, EarlyInv
    <3>2. repl' = repl
      BY <1>4 DEF CpuMoves
    <3>3. ~halted'
      <4>1. ASSUME halted' = TRUE
            PROVE  FALSE
        <5>1. cpu' = 0 /\ live'.ip = 5 /\ InBody'
          BY <1>4, <4>1, HaltNext
        <5>2. Context0' = live'
          BY <5>1 DEF Context0
        <5>. QED
          BY <2>3, <5>1, <5>2 DEF Early, Under, InBody
      <4>2. halted' = halted \/ halted' = TRUE
        BY <1>4, CpuKept DEF CpuMoves
      <4>. QED
        BY <4>1, <4>2
    <3>. QED
      BY <1>4, <3>1, <3>2, <3>3
  <2>4. EarlyInv'
    BY <2>2, <2>3 DEF EarlyInv, Both
  <2>. QED
    BY <1>0, <1>1, <1>4, <2>1, <2>4 DEF SleepInv
<1>. QED
  BY <1>2, <1>3, <1>4 DEF CpuMoves

LEMMA SleepNext ==
  ASSUME SleepFacts, [InputNext]_allVars
  PROVE  SleepFacts'
<1>1. [Next]_vars
  BY InputIsKernel, SleepPlaces
<1>2. ShellInv' /\ Shelled
  BY <1>1, ShellNext DEF SleepFacts
<1>. SUFFICES SleepInv'
  BY <1>2 DEF SleepFacts
<1>3. ASSUME UNCHANGED <<schedVars, cpu, live, parked, repl, ran, slept>>,
             halted' => halted, irr' => irr \/ ran
      PROVE  SleepInv'
  BY <1>3, StillKeeps
<1>4. CASE UNCHANGED allVars \/ KeyPress
  BY <1>3, <1>4 DEF allVars, inputVars, histVars, vars, KeyPress
<1>5. CASE KeyIrq
  BY <1>3, <1>5 DEF KeyIrq, histVars
<1>6. CASE InputTick
  BY <1>3, <1>6 DEF InputTick, TimerTick, inputVars, histVars
<1>7. CASE KbdStep
  <2>1. UNCHANGED live
    BY <1>7 DEF KbdStep, KbdRead, KbdPush, KbdEoi, KbdIret
  <2>. QED
    BY <1>3, <1>7, <2>1 DEF KbdStep, histVars
<1>8. CASE InputInterrupt
  <2>1. TimerIrq /\ ran' = FALSE /\ repl' = repl
        /\ (slept' = slept \/ (halted /\ slept' = slept + 1))
    BY <1>8 DEF InputInterrupt
  <2>. QED
    BY <1>1, <1>2, <2>1, InterruptKeeps
<1>9. CASE InputCpuStep /\ ~KbdStep
  <2>1. /\ ~halted /\ (CpuMoves \/ ReplStep) /\ ran' = (ran \/ OwnCode)
        /\ slept' = IF cpu = Shell /\ OwnCode /\ ~(Op("shell") /\ repl = "hlt") THEN 0 ELSE slept
    BY <1>9 DEF InputCpuStep, Proceeds, Executes, CpuMoves
  <2>. QED
    BY <1>1, <1>2, <2>1, CpuKeeps
<1>. QED
  BY <1>4, <1>5, <1>6, <1>7, <1>8, <1>9 DEF InputNext, InputCpuStep

LEMMA SleepInit ==
  ASSUME Shelled, InputInit
  PROVE  SleepFacts
<1>1. ShellInv /\ Init
  BY ShellInit DEF InputInit
<1>2. ~halted /\ ~irr /\ InBody /\ slept = 0 /\ ran = TRUE
  BY DEF InputInit, Init, InBody, Fresh
<1>3. ~Yielding
  BY <1>2 DEF Yielding, At
<1>. QED
  BY <1>1, <1>2, <1>3 DEF SleepFacts, SleepInv, HaltInv, RanInv, EarlyInv, SleepBound

\* A byte in the ring is slept over for at most three ticks in a row, whatever is typed and
\* wherever ticks and keys fall, as long as no tick comes before the task that was given
\* the CPU has run: the lost-wakeup window between shell_main's empty poll and its hlt,
\* that hlt, and one of the idle task.
THEOREM BoundedSleepHolds == Shelled => (InputSpec => []BoundedSleep)
<1>. SUFFICES ASSUME Shelled PROVE InputSpec => []BoundedSleep
  OBVIOUS
<1>1. InputInit => SleepFacts
  BY SleepInit
<1>2. SleepFacts /\ [InputNext]_allVars => SleepFacts'
  BY SleepNext
<1>3. SleepFacts => BoundedSleep
  BY SleepPlaces DEF SleepFacts, SleepInv, SleepBound, BoundedSleep
<1>. QED
  BY <1>1, <1>2, <1>3, PTL DEF InputSpec

\* The booted kernel with its keyboard never wedges either.
THEOREM InputNeverWedged == Shelled => (InputSpec => []NeverWedged)
<1>. SUFFICES ASSUME Shelled PROVE InputSpec => []NeverWedged
  OBVIOUS
<1>1. InputSpec => Spec
  BY InputImplementsKernel
<1>2. Spec => []NeverWedged
  BY NeverWedgedHolds
<1>. QED
  BY <1>1, <1>2
=============================================================================
