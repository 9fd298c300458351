-------------------------------- MODULE Kernel -------------------------------
(***************************************************************************)
(* The scheduler of src/src/task.rs as the one CPU executes it: the        *)
(* interrupt flag, the timer IRQ and its end-of-interrupt, the three       *)
(* spinlocks, one kernel stack per task, and switch_context between them.  *)
(* Every step is a few instructions of one routine; whenever IF is set a   *)
(* tick may fall between two steps.  What the tasks run is a parameter: a  *)
(* task body is the sequence of kernel calls the code makes in it.         *)
(***************************************************************************)
EXTENDS Integers, Sequences

CONSTANTS
  MaxTasks,  \* bound: tasks spawned into one scheduler
  MaxInits,  \* bound: calls of task::init
  Main,      \* the body of kernel_main, from its first scheduler on
  Body       \* Body[e][t]: the body of task t of the e-th scheduler

ASSUME KernelAssumption == MaxTasks \in Nat /\ MaxInits \in Nat \ {0}

\* task_exit ends task bodies only, and every caller of init is the idle task.
ASSUME BodiesAssumption ==
  /\ \A i \in DOMAIN Main : Main[i] # "exit"
  /\ \A e \in 1 .. MaxInits, t \in 1 .. MaxTasks :
       \A i \in DOMAIN Body[e][t] : Body[e][t][i] # "init"

VARIABLES
  \* SCHED, behind its spinlock
  state, count, ready, current, inits,
  \* the machine
  cpu,      \* the task whose stack rsp is on
  intr,     \* RFLAGS.IF
  irr,      \* the PIC holds a timer tick it has not delivered
  isr,      \* the PIC delivered a tick and waits for its EOI
  halted,   \* the CPU sits in hlt
  held,     \* the spinlocks taken
  live,     \* the running context: its place in the body, its call frames
  parked,   \* tasks[i].saved_sp: each context as it was last switched away from
  \* what the self-tests record
  log,      \* SEQ: who appended a letter
  flag,     \* PREEMPT_FLAG
  saw       \* WAITER_SAW_FLAG

schedVars == <<state, count, ready, current, inits>>
testVars == <<log, flag, saw>>
vars == <<schedVars, cpu, intr, irr, isr, halted, held, live, parked, testVars>>

Idle == 0
Ids == 0 .. MaxTasks
Locks == {"SCHED", "HEAP", "SERIAL"}

\* A call frame: where the routine stands, the lock it is about, and the IF it
\* saved (by save_and_disable, or pushed by the CPU for iretq).
Frame(at, lock, was) == [at |-> at, lock |-> lock, was |-> was]
Acquire(l) == Frame("acquire", l, FALSE)

\* The image Task::new fabricates: it enters the body at its first call.
Fresh == [ip |-> 1, frames |-> <<>>]

WithIdle == [i \in Ids |-> IF i = Idle THEN "running" ELSE "absent"]

Init ==
  /\ state = WithIdle /\ count = 1 /\ ready = <<>> /\ current = Idle /\ inits = 1
  /\ cpu = Idle /\ intr = FALSE /\ irr = FALSE /\ isr = FALSE /\ halted = FALSE
  /\ held = [l \in Locks |-> FALSE]
  /\ live = Fresh /\ parked = [t \in Ids |-> Fresh]
  /\ log = <<>> /\ flag = FALSE /\ saw = FALSE

-----------------------------------------------------------------------------
(* The running context.                                                    *)

BodyOf(t) == IF t = Idle THEN Main ELSE Body[inits][t]
Program == BodyOf(cpu)
InBody == live.frames = <<>>
Top == Head(live.frames)
At(l) == ~InBody /\ Top.at = l
Op(o) == InBody /\ live.ip \in DOMAIN Program /\ Program[live.ip] = o

\* A pending tick is taken before the next instruction when IF is set.
Deliverable == irr /\ ~isr /\ intr
Executes == ~halted /\ ~Deliverable

Goto(l) == live' = [live EXCEPT !.frames[1].at = l]
GotoAndCall(l, f) ==
  live' = [live EXCEPT !.frames = <<f, [Top EXCEPT !.at = l]>> \o Tail(@)]
Return == live' = [live EXCEPT !.frames = Tail(@)]
Advance == live' = [live EXCEPT !.ip = @ + 1]
CallWith(fs) == live' = [ip |-> live.ip + 1, frames |-> fs]
RepeatWith(fs) == live' = [live EXCEPT !.frames = fs]

Take(l) == ~held[l] /\ held' = [held EXCEPT ![l] = TRUE]
Drop(l) == held' = [held EXCEPT ![l] = FALSE]

-----------------------------------------------------------------------------
(* Spinlocks.  A lock found taken is spun on: no step.                     *)

LockAcquire ==
  /\ At("acquire") /\ Take(Top.lock) /\ Goto("release")
  /\ UNCHANGED <<schedVars, cpu, intr, irr, isr, halted, parked, testVars>>

LockRelease ==
  /\ At("release") /\ Drop(Top.lock) /\ Return
  /\ UNCHANGED <<schedVars, cpu, intr, irr, isr, halted, parked, testVars>>

\* Fault: IF is set whatever it was before.
RestoreAlways ==
  /\ At("restore") /\ intr' = TRUE /\ Return
  /\ UNCHANGED <<schedVars, cpu, irr, isr, halted, held, parked, testVars>>

\* interrupts::restore at the end of a guarded routine.
Restore ==
  /\ At("restore") /\ intr' = (intr \/ Top.was) /\ Return
  /\ UNCHANGED <<schedVars, cpu, irr, isr, halted, held, parked, testVars>>

-----------------------------------------------------------------------------
(* yield_now: IF is already saved in the frame and cleared.                *)

YieldLock ==
  /\ At("yield.lock") /\ Take("SCHED") /\ Goto("yield.pick")
  /\ UNCHANGED <<schedVars, cpu, intr, irr, isr, halted, parked, testVars>>

Chosen == IF ready = <<>> THEN Idle ELSE Head(ready)
Rest == IF ready = <<>> THEN <<>> ELSE Tail(ready)

\* The outgoing task goes back to the queue unless it is idle or finished.
Requeues == current # Idle /\ state[current] # "finished"

\* Fault: the outgoing task is marked ready and not queued.
ChooseDrops ==
  /\ ready' = Rest
  /\ state' = [ (IF Requeues THEN [state EXCEPT ![current] = "ready"] ELSE state)
                EXCEPT ![Chosen] = "running" ]
  /\ current' = Chosen
  /\ UNCHANGED <<count, inits>>

Choose ==
  /\ ready' = IF Requeues THEN Append(Rest, current) ELSE Rest
  /\ state' = [ (IF Requeues THEN [state EXCEPT ![current] = "ready"] ELSE state)
                EXCEPT ![Chosen] = "running" ]
  /\ current' = Chosen
  /\ UNCHANGED <<count, inits>>

\* Fault: switch even to oneself.
PickEvenSelf ==
  /\ At("yield.pick") /\ Drop("SCHED")
  /\ Choose /\ Goto("yield.switch")
  /\ UNCHANGED <<cpu, intr, irr, isr, halted, parked, testVars>>

\* The critical section; the guard is dropped at its end, before the switch.
YieldPick ==
  /\ At("yield.pick") /\ Drop("SCHED")
  /\ IF Chosen = current
     THEN UNCHANGED schedVars /\ Goto("restore")
     ELSE Choose /\ Goto("yield.switch")
  /\ UNCHANGED <<cpu, intr, irr, isr, halted, parked, testVars>>

\* switch_context(&mut tasks[old].saved_sp, tasks[next].saved_sp): park the stack
\* the CPU is on, adopt the incoming one, whose pointer was read before.  IF is not
\* touched. The parked frame continues behind the switch, with restore(flags).
SwitchContext ==
  /\ At("yield.switch")
  /\ parked' = [parked EXCEPT ![cpu] = [live EXCEPT !.frames[1].at = "restore"]]
  /\ live' = parked[current]
  /\ cpu' = current
  /\ UNCHANGED <<schedVars, intr, irr, isr, halted, held, testVars>>

-----------------------------------------------------------------------------
(* init, spawn, task_exit and snapshot.                                    *)

InitLock ==  \* with_idle() is already allocated; the old scheduler is dropped inside
  /\ At("init.lock") /\ Take("SCHED") /\ GotoAndCall("init.install", Acquire("HEAP"))
  /\ UNCHANGED <<schedVars, cpu, intr, irr, isr, halted, parked, testVars>>

InitInstall ==
  /\ At("init.install") /\ inits < MaxInits /\ Drop("SCHED") /\ Goto("restore")
  /\ state' = WithIdle /\ count' = 1 /\ ready' = <<>> /\ current' = Idle
  /\ inits' = inits + 1
  /\ parked' = [t \in Ids |-> Fresh]
  /\ UNCHANGED <<cpu, intr, irr, isr, halted, testVars>>

SpawnLock ==  \* Task::new allocates the stack under SCHED
  /\ At("spawn.lock") /\ Take("SCHED") /\ GotoAndCall("spawn.push", Acquire("HEAP"))
  /\ UNCHANGED <<schedVars, cpu, intr, irr, isr, halted, parked, testVars>>

\* Fault: the table grows and the queue does not.
SpawnForgetsQueue ==
  /\ At("spawn.push") /\ count <= MaxTasks /\ Drop("SCHED") /\ Goto("restore")
  /\ state' = [state EXCEPT ![count] = "ready"]
  /\ count' = count + 1
  /\ parked' = [parked EXCEPT ![count] = Fresh]
  /\ UNCHANGED <<ready, current, inits, cpu, intr, irr, isr, halted, testVars>>

SpawnPush ==
  /\ At("spawn.push") /\ count <= MaxTasks /\ Drop("SCHED") /\ Goto("restore")
  /\ state' = [state EXCEPT ![count] = "ready"]
  /\ ready' = Append(ready, count)
  /\ count' = count + 1
  /\ parked' = [parked EXCEPT ![count] = Fresh]
  /\ UNCHANGED <<current, inits, cpu, intr, irr, isr, halted, testVars>>

ExitLock ==
  /\ At("exit.lock") /\ Take("SCHED") /\ Goto("exit.mark")
  /\ UNCHANGED <<schedVars, cpu, intr, irr, isr, halted, parked, testVars>>

ExitMark ==  \* then the serial line is printed, IF still clear
  /\ At("exit.mark") /\ Drop("SCHED")
  /\ state' = [state EXCEPT ![current] = "finished"]
  /\ GotoAndCall("exit.yield", Acquire("SERIAL"))
  /\ UNCHANGED <<count, ready, current, inits, cpu, intr, irr, isr, halted, parked,
                 testVars>>

ExitYield ==
  /\ At("exit.yield") /\ GotoAndCall("dead", Frame("yield.lock", "SCHED", intr))
  /\ UNCHANGED <<schedVars, cpu, intr, irr, isr, halted, held, parked, testVars>>

SnapshotLock ==
  /\ At("snapshot.lock") /\ Take("SCHED") /\ Goto("snapshot.copy")
  /\ UNCHANGED <<schedVars, cpu, intr, irr, isr, halted, parked, testVars>>

SnapshotCopy ==  \* to_vec allocates once IF is restored
  /\ At("snapshot.copy") /\ Drop("SCHED") /\ Goto("restore")
  /\ UNCHANGED <<schedVars, cpu, intr, irr, isr, halted, parked, testVars>>

-----------------------------------------------------------------------------
(* The timer: IRQ0 through the PIC and interrupt_dispatch to preempt.      *)

\* The PIT fires; an undelivered tick absorbs the next one (one IRR bit).
TimerTick ==
  /\ ~irr /\ irr' = TRUE
  /\ UNCHANGED <<schedVars, cpu, intr, isr, halted, held, live, parked, testVars>>

\* The CPU takes it: wakes from hlt, pushes RFLAGS, clears IF (interrupt gate).
TimerIrq ==
  /\ Deliverable
  /\ irr' = FALSE /\ isr' = TRUE /\ intr' = FALSE /\ halted' = FALSE
  /\ RepeatWith(<<Frame("irq.eoi", "SCHED", intr)>> \o live.frames)
  /\ UNCHANGED <<schedVars, cpu, held, parked, testVars>>

\* IRQ1: its handler (module KernelInput) touches nothing here, but it ends a hlt.
OtherIrq ==
  /\ halted /\ intr /\ ~Deliverable /\ halted' = FALSE
  /\ UNCHANGED <<schedVars, cpu, intr, irr, isr, held, live, parked, testVars>>

\* Fault: preempt first, acknowledge when this task runs again.
PreemptBeforeEoi ==
  /\ At("irq.eoi") /\ UNCHANGED isr
  /\ GotoAndCall("iret", Frame("yield.lock", "SCHED", intr))
  /\ UNCHANGED <<schedVars, cpu, intr, irr, halted, held, parked, testVars>>

\* pit::handle_interrupt and pic::send_eoi(0), then task::preempt.
TimerHandler ==
  /\ At("irq.eoi") /\ isr' = FALSE
  /\ GotoAndCall("iret", Frame("yield.lock", "SCHED", intr))
  /\ UNCHANGED <<schedVars, cpu, intr, irr, halted, held, parked, testVars>>

\* isr_common's iretq: RFLAGS as interrupted.
Iret ==
  /\ At("iret") /\ intr' = Top.was /\ Return
  /\ UNCHANGED <<schedVars, cpu, irr, isr, halted, held, parked, testVars>>

-----------------------------------------------------------------------------
(* The calls task bodies make.                                             *)

\* Routines that begin with save_and_disable, and the frames they start with.
Guarded(o) ==
  CASE o = "yield"    -> <<Frame("yield.lock", "SCHED", intr)>>
    [] o = "spawn"    -> <<Frame("spawn.lock", "SCHED", intr)>>
    [] o = "init"     -> <<Acquire("HEAP"), Frame("init.lock", "SCHED", intr)>>
    [] o = "exit"     -> <<Frame("exit.lock", "SCHED", intr)>>
    [] o = "stats"    -> <<Acquire("HEAP"), Frame("restore", "HEAP", intr)>>
    [] o = "snapshot" -> <<Frame("snapshot.lock", "SCHED", intr)>>
GuardedOps == {"yield", "spawn", "init", "exit", "stats", "snapshot"}

\* Fault: IF is saved and left as it is.
CallGuardedIfOn(o) ==
  /\ CallWith(Guarded(o))
  /\ UNCHANGED <<schedVars, cpu, intr, irr, isr, halted, held, parked, testVars>>

CallGuarded(o) ==
  /\ CallWith(Guarded(o)) /\ intr' = FALSE
  /\ UNCHANGED <<schedVars, cpu, irr, isr, halted, held, parked, testVars>>

\* Printing takes the serial lock and allocating the heap lock, at the caller's IF.
Plain(o) == IF o = "print" THEN <<Acquire("SERIAL")>> ELSE <<Acquire("HEAP")>>
CallPlain(o) ==
  /\ CallWith(Plain(o))
  /\ UNCHANGED <<schedVars, cpu, intr, irr, isr, halted, held, parked, testVars>>

\* interrupts::enable, or restore of a saved TRUE; save_and_disable on its own.
SetIf(o) ==
  /\ intr' = (o = "sti") /\ Advance
  /\ UNCHANGED <<schedVars, cpu, irr, isr, halted, held, parked, testVars>>

Record(o) ==
  /\ \/ o = "emit" /\ log' = Append(log, cpu) /\ UNCHANGED <<flag, saw>>
     \/ o = "set" /\ flag' = TRUE /\ UNCHANGED <<log, saw>>
     \/ o = "wait" /\ flag /\ UNCHANGED testVars
     \/ o = "saw" /\ saw' = TRUE /\ UNCHANGED <<log, flag>>
     \/ o = "check" /\ UNCHANGED testVars
  /\ Advance
  /\ UNCHANGED <<schedVars, cpu, intr, irr, isr, halted, held, parked>>

\* The shell: any command, or hlt when no input waits. hlt_loop: hlt again.
Halt ==
  /\ halted' = TRUE
  /\ UNCHANGED <<schedVars, cpu, intr, irr, isr, held, live, parked, testVars>>
ShellCommand ==
  /\ \/ \E o \in {"stats", "snapshot"} : RepeatWith(Guarded(o)) /\ intr' = FALSE
     \/ \E o \in {"print", "alloc"} : RepeatWith(Plain(o)) /\ UNCHANGED intr
  /\ UNCHANGED <<schedVars, cpu, irr, isr, halted, held, parked, testVars>>

BodyStep ==
  \/ \E o \in GuardedOps : Op(o) /\ CallGuarded(o)
  \/ \E o \in {"print", "alloc"} : Op(o) /\ CallPlain(o)
  \/ \E o \in {"sti", "cli"} : Op(o) /\ SetIf(o)
  \/ \E o \in {"emit", "set", "wait", "saw", "check"} : Op(o) /\ Record(o)
  \/ \E o \in {"hlt", "shell"} : Op(o) /\ Halt
  \/ Op("shell") /\ ShellCommand

KernelStep ==
  \/ LockAcquire \/ LockRelease \/ Restore \/ YieldLock \/ YieldPick \/ SwitchContext
  \/ InitLock \/ InitInstall \/ SpawnLock \/ SpawnPush \/ ExitLock \/ ExitMark
  \/ ExitYield \/ SnapshotLock \/ SnapshotCopy \/ TimerHandler \/ Iret

CpuStep == Executes /\ (BodyStep \/ KernelStep)

Next == CpuStep \/ TimerIrq \/ TimerTick \/ OtherIrq

Spec == Init /\ [][Next]_vars

-----------------------------------------------------------------------------
(* What holds whatever the bodies do.                                      *)

\* Whenever a tick can be taken, SCHED is free and `current` names the task whose
\* stack the CPU is on: preempt can neither spin nor park the wrong task.
PreemptionSafe == intr => cpu = current /\ ~held["SCHED"]

\* Nothing is carried across a switch that the incoming task could trip over: the
\* guard is dropped, the tick acknowledged, interrupts still off; and it resumes where it
\* was parked, so that no body runs a call twice.
CleanSwitch ==
  [][IF cpu' # cpu THEN ~held["SCHED"] /\ ~isr /\ ~intr ELSE live'.ip >= live.ip]_vars

\* The IF the body of the running task asked for: the last sti or cli before ip.
AskedFor(body, ip) ==
  LET sets == {i \in 1 .. ip - 1 : body[i] \in {"sti", "cli"}}
  IN  sets # {} /\ body[CHOOSE i \in sets : \A j \in sets : j <= i] = "sti"

\* Each task keeps its own IF through every call, tick and switch: back in its
\* body it is what that body last made it, whatever other tasks did with theirs.
OwnInterruptFlag == InBody => intr = AskedFor(Program, live.ip)

\* The routines that are about to take a spinlock.
Locking == {"acquire", "yield.lock", "init.lock", "spawn.lock", "exit.lock",
            "snapshot.lock"}

\* No CPU spins with interrupts off for a lock that is taken: on one core nobody
\* could ever release it.
NeverWedged == ~InBody /\ Top.at \in Locking /\ ~intr => ~held[Top.lock]

-----------------------------------------------------------------------------
(* Implementation of Scheduler. task_exit's mark becomes visible there at  *)
(* the switch away: until then the task is the running one.                *)

Abs == INSTANCE Scheduler WITH state <- [state EXCEPT ![current] = "running"]

ImplementsScheduler == Abs!Spec
=============================================================================
