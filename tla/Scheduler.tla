------------------------------ MODULE Scheduler ------------------------------
(***************************************************************************)
(* The promise of the task scheduler of src/src/task.rs, one action per    *)
(* critical section.  Every one of them runs with IF = 0 on the only core  *)
(* (save_and_disable .. restore), so nothing interleaves inside it; module *)
(* Kernel opens them up (flag, locks, stacks, the switch itself) and is    *)
(* shown to implement this module.                                         *)
(***************************************************************************)
EXTENDS Integers, Sequences

CONSTANTS
  MaxTasks,  \* bound: tasks spawned into one scheduler
  MaxInits   \* bound: calls of task::init (kernel_main makes three)

ASSUME SchedulerAssumption == MaxTasks \in Nat /\ MaxInits \in Nat \ {0}

VARIABLES
  state,    \* tasks[i].state; "absent" at and above tasks.len()
  count,    \* tasks.len()
  ready,    \* the VecDeque of runnable indices
  current,  \* the index of the running task
  inits     \* how often init has installed a scheduler

vars == <<state, count, ready, current, inits>>

Idle == 0
Ids == 0 .. MaxTasks
State == {"absent", "ready", "running", "finished"}

-----------------------------------------------------------------------------

\* Scheduler::with_idle: kernel_main alone, and already running.
WithIdle == [i \in Ids |-> IF i = Idle THEN "running" ELSE "absent"]

Init ==
  /\ state = WithIdle
  /\ count = 1
  /\ ready = <<>>
  /\ current = Idle
  /\ inits = 1

\* init() again: a new scheduler replaces the old one, whatever it held. Its
\* callers (the two self-tests and kernel_main) all run as the idle task.
Reinit ==
  /\ inits < MaxInits
  /\ current = Idle
  /\ state' = WithIdle
  /\ count' = 1
  /\ ready' = <<>>
  /\ inits' = inits + 1
  /\ UNCHANGED current

\* The new task takes index tasks.len() and the back of the queue.
Spawn ==
  /\ count <= MaxTasks
  /\ state' = [state EXCEPT ![count] = "ready"]
  /\ ready' = Append(ready, count)
  /\ count' = count + 1
  /\ UNCHANGED <<current, inits>>

\* ready.pop_front().unwrap_or(IDLE), taken before the outgoing task is requeued.
Chosen == IF ready = <<>> THEN Idle ELSE Head(ready)
Rest == IF ready = <<>> THEN <<>> ELSE Tail(ready)

\* Faults: requeue at the front; forget that idle is never queued.
RequeuedInFront == IF current = Idle THEN Rest ELSE <<current>> \o Rest
RequeuedAlways == Append(Rest, current)

\* What is requeued behind the others: the outgoing task, unless it is idle.
Requeued == IF current = Idle THEN Rest ELSE Append(Rest, current)

\* Outgoing task's state: the idle task is never marked, it stays "running".
Parked == IF current = Idle THEN state ELSE [state EXCEPT ![current] = "ready"]

\* yield_now, called by the task itself or by the timer's preempt(). When only
\* idle is runnable nothing happens (a step that changes nothing).
YieldNow ==
  /\ Chosen # current
  /\ ready' = Requeued
  /\ state' = [Parked EXCEPT ![Chosen] = "running"]
  /\ current' = Chosen
  /\ UNCHANGED <<count, inits>>

\* Fault: the finished task is requeued like any other.
TaskExitRequeued ==
  /\ current # Idle
  /\ state' = [state EXCEPT ![current] = "finished", ![Chosen] = "running"]
  /\ ready' = Requeued
  /\ current' = Chosen
  /\ UNCHANGED <<count, inits>>

\* task_exit: mark the running task finished, then yield_now, which does not
\* requeue it. Interrupts stay off between the two. The idle task never exits.
TaskExit ==
  /\ current # Idle
  /\ state' = [state EXCEPT ![current] = "finished", ![Chosen] = "running"]
  /\ ready' = Rest
  /\ current' = Chosen
  /\ UNCHANGED <<count, inits>>

Next == Reinit \/ Spawn \/ YieldNow \/ TaskExit

Spec == Init /\ [][Next]_vars

\* The timer reaches every task at 100 Hz, and every preemptible task runs with
\* interrupts on, so the running task is made to yield again and again.
FairSpec == Spec /\ WF_vars(YieldNow)

-----------------------------------------------------------------------------

TypeOK ==
  /\ state \in [Ids -> State]
  /\ count \in 1 .. MaxTasks + 1
  /\ ready \in Seq(1 .. MaxTasks)
  /\ current \in Ids
  /\ inits \in 1 .. MaxInits

InQueue(t) == \E i \in 1 .. Len(ready) : ready[i] = t

\* No task stands in the queue twice: one turn per round.
NoDuplicates ==
  \A i, j \in 1 .. Len(ready) : ready[i] = ready[j] => i = j

\* The queue holds exactly the tasks marked ready; a parked unfinished task is
\* never forgotten, a finished or running one never queued.
QueueIsReadySet ==
  \A t \in Ids : InQueue(t) <=> t # Idle /\ state[t] = "ready"

\* Besides idle, whose mark never changes, only the current task is "running".
OneRunning ==
  /\ state[Idle] = "running"
  /\ \A t \in Ids \ {Idle} : state[t] = "running" <=> t = current

\* Indices below tasks.len(), and only those, name a task.
Contiguous == \A t \in Ids : state[t] = "absent" <=> t >= count

\* The run queue and the task table never disagree, however spawns, yields,
\* preemptions, exits and re-initialisations are interleaved.
QueueInv == NoDuplicates /\ QueueIsReadySet /\ OneRunning /\ Contiguous

\* A task that finished never runs or waits again in the same scheduler.
FinishedForever ==
  [][\A t \in Ids : state[t] = "finished" /\ inits' = inits
        => state'[t] = "finished" /\ current' # t]_vars

\* Once the last scheduler is installed, a task that waits gets its turn.
EveryTaskRuns ==
  \A t \in Ids \ {Idle} :
    inits = MaxInits /\ state[t] = "ready" ~> current = t
=============================================================================
