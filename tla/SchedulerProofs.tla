--------------------------- MODULE SchedulerProofs ---------------------------
(***************************************************************************)
(* TLAPS proofs about Scheduler and RoundRobin, for every number of tasks  *)
(* and of initialisations.                                                 *)
(***************************************************************************)
EXTENDS RoundRobin, SequenceTheorems, FiniteSetTheorems, TLAPS

USE SchedulerAssumption DEF Idle, Ids, State

-----------------------------------------------------------------------------
(* The queue without its head, and with one element more.                  *)

\* What pop_front leaves: every later element, one place nearer.
LEMMA TailElements ==
  ASSUME NEW S, NEW q \in Seq(S), q # <<>>
  PROVE  /\ Tail(q) \in Seq(S) /\ Head(q) \in S /\ Head(q) = q[1]
         /\ Len(q) \in Nat \ {0} /\ Len(Tail(q)) = Len(q) - 1
         /\ \A i \in 1 .. Len(Tail(q)) : i + 1 \in 1 .. Len(q) /\ Tail(q)[i] = q[i + 1]
BY HeadTailProperties

\* What push_back leaves: the old elements in place and the new one last.
LEMMA AppendElements ==
  ASSUME NEW S, NEW q \in Seq(S), NEW e \in S
  PROVE  /\ Append(q, e) \in Seq(S) /\ Len(Append(q, e)) = Len(q) + 1 /\ Len(q) \in Nat
         /\ \A i \in 1 .. Len(q) : Append(q, e)[i] = q[i]
         /\ Append(q, e)[Len(q) + 1] = e
BY AppendProperties, LenProperties

\* The pick: idle when nothing waits, otherwise the oldest waiting task.
LEMMA ChosenAndRest ==
  ASSUME TypeOK
  PROVE  /\ Chosen \in Ids /\ Rest \in Seq(1 .. MaxTasks) /\ Len(Rest) \in Nat
         /\ ready = <<>> => Chosen = Idle /\ Rest = <<>>
         /\ ready # <<>> => /\ Chosen = ready[1] /\ Chosen \in 1 .. MaxTasks
                            /\ Len(Rest) = Len(ready) - 1
         /\ \A i \in 1 .. Len(Rest) : i + 1 \in 1 .. Len(ready) /\ Rest[i] = ready[i + 1]
<1>1. CASE ready = <<>>
  BY <1>1 DEF Chosen, Rest
<1>2. CASE ready # <<>>
  <2>1. ready \in Seq(1 .. MaxTasks)
    BY DEF TypeOK
  <2>2. Chosen = Head(ready) /\ Rest = Tail(ready)
    BY <1>2 DEF Chosen, Rest
  <2>. QED
    BY <1>2, <2>1, <2>2, TailElements
<1>. QED
  BY <1>1, <1>2

\* What is requeued: the rest of the queue, then the outgoing task unless idle.
LEMMA RequeuedElements ==
  ASSUME TypeOK
  PROVE  /\ Requeued \in Seq(1 .. MaxTasks)
         /\ Len(Requeued) = IF current = Idle THEN Len(Rest) ELSE Len(Rest) + 1
         /\ \A i \in 1 .. Len(Rest) : Requeued[i] = Rest[i]
         /\ current # Idle => Requeued[Len(Rest) + 1] = current
<1>1. Rest \in Seq(1 .. MaxTasks)
  BY ChosenAndRest
<1>2. CASE current = Idle
  BY <1>1, <1>2 DEF Requeued
<1>3. CASE current # Idle
  <2>1. current \in 1 .. MaxTasks
    BY <1>3 DEF TypeOK
  <2>2. Requeued = Append(Rest, current)
    BY <1>3 DEF Requeued
  <2>. QED
    BY <1>1, <1>3, <2>1, <2>2, AppendElements
<1>. QED
  BY <1>2, <1>3

-----------------------------------------------------------------------------
(* Type correctness.                                                       *)

LEMMA InitTypeOK == Init => TypeOK
BY DEF Init, TypeOK, WithIdle

LEMMA NextTypeOK == TypeOK /\ [Next]_vars => TypeOK'
<1> SUFFICES ASSUME TypeOK, [Next]_vars PROVE TypeOK'
  OBVIOUS
<1>1. CASE Reinit
  BY <1>1 DEF Reinit, TypeOK, WithIdle
<1>2. CASE Spawn
  <2>1. count \in 1 .. MaxTasks /\ ready \in Seq(1 .. MaxTasks)
    BY <1>2 DEF Spawn, TypeOK
  <2>2. ready' \in Seq(1 .. MaxTasks)
    BY <1>2, <2>1, AppendElements DEF Spawn
  <2>. QED
    BY <1>2, <2>1, <2>2 DEF Spawn, TypeOK
<1>3. CASE YieldNow
  <2>1. ready' \in Seq(1 .. MaxTasks)
    BY <1>3, RequeuedElements DEF YieldNow
  <2>. QED
    BY <1>3, <2>1, ChosenAndRest DEF YieldNow, TypeOK, Parked
<1>4. CASE TaskExit
  BY <1>4, ChosenAndRest DEF TaskExit, TypeOK
<1>5. CASE UNCHANGED vars
  BY <1>5 DEF vars, TypeOK
<1>. QED
  BY <1>1, <1>2, <1>3, <1>4, <1>5 DEF Next

\* Every reachable state of the scheduler is well typed, whatever the bounds.
THEOREM SchedulerTypeOK == Spec => []TypeOK
BY InitTypeOK, NextTypeOK, PTL DEF Spec

-----------------------------------------------------------------------------
(* The run queue agrees with the task table.  QueueInv is inductive as it  *)
(* stands, given TypeOK: a yield takes the head (a ready task, by          *)
(* QueueIsReadySet) out of the queue for good because it stands there once *)
(* (NoDuplicates), and puts the outgoing task behind it, which was not     *)
(* there because it was running (OneRunning).                              *)

LEMMA InitQueueInv == Init => QueueInv
BY DEF Init, WithIdle, QueueInv, NoDuplicates, QueueIsReadySet, OneRunning,
       Contiguous, InQueue

\* A task of the rest of the queue is a queued task other than the one chosen.
LEMMA InRest ==
  ASSUME TypeOK, QueueInv, NEW t \in Ids
  PROVE  (\E i \in 1 .. Len(Rest) : Rest[i] = t) <=> InQueue(t) /\ t # Chosen
<1>1. ASSUME NEW i \in 1 .. Len(Rest), Rest[i] = t
      PROVE  InQueue(t) /\ t # Chosen
  <2>1. i + 1 \in 1 .. Len(ready) /\ t = ready[i + 1]
    BY <1>1, ChosenAndRest
  <2>2. Rest # <<>>
    BY <1>1
  <2>3. Chosen = ready[1]
    BY <2>2, ChosenAndRest
  <2>4. Len(ready) \in Nat /\ i \in Nat /\ i >= 1
    BY <1>1, ChosenAndRest, LenProperties DEF TypeOK
  <2>5. 1 \in 1 .. Len(ready) /\ i + 1 # 1
    BY <2>1, <2>4
  <2>6. ready[1] # ready[i + 1]
    BY <2>1, <2>5 DEF QueueInv, NoDuplicates
  <2>. QED
    BY <2>1, <2>3, <2>6 DEF InQueue
<1>2. ASSUME InQueue(t), t # Chosen
      PROVE  \E i \in 1 .. Len(Rest) : Rest[i] = t
  <2>1. PICK j \in 1 .. Len(ready) : ready[j] = t
    BY <1>2 DEF InQueue
  <2>2. Len(ready) \in Nat /\ j \in Nat /\ ready # <<>>
    BY <2>1, LenProperties DEF TypeOK
  <2>3. Len(Rest) = Len(ready) - 1 /\ Chosen = ready[1]
    BY <2>2, ChosenAndRest
  <2>4. j # 1
    BY <2>1, <2>3, <1>2
  <2>5. j - 1 \in 1 .. Len(Rest) /\ (j - 1) + 1 = j
    BY <2>1, <2>2, <2>3, <2>4
  <2>6. Rest[j - 1] = ready[(j - 1) + 1]
    BY <2>5, ChosenAndRest
  <2>. QED
    BY <2>1, <2>5, <2>6
<1>. QED
  BY <1>1, <1>2

\* The rest of the queue still holds every task at most once.
LEMMA RestNoDuplicates ==
  ASSUME TypeOK, QueueInv,
         NEW i \in 1 .. Len(Rest), NEW j \in 1 .. Len(Rest), Rest[i] = Rest[j]
  PROVE  i = j
<1>1. /\ i + 1 \in 1 .. Len(ready) /\ j + 1 \in 1 .. Len(ready)
      /\ ready[i + 1] = ready[j + 1]
  BY ChosenAndRest
<1>2. i + 1 = j + 1
  BY <1>1 DEF QueueInv, NoDuplicates
<1>. QED
  BY <1>2

\* The chosen task is waiting, or it is idle and nothing waits.
LEMMA ChosenReady ==
  ASSUME TypeOK, QueueInv
  PROVE  Chosen # Idle => state[Chosen] = "ready" /\ Chosen # current
<1> SUFFICES ASSUME Chosen # Idle PROVE state[Chosen] = "ready" /\ Chosen # current
  OBVIOUS
<1>1. ready # <<>> /\ Chosen = ready[1] /\ Chosen \in Ids /\ 1 \in 1 .. Len(ready)
  BY ChosenAndRest
<1>2. InQueue(Chosen)
  BY <1>1 DEF InQueue
<1>. QED
  BY <1>1, <1>2 DEF QueueInv, QueueIsReadySet, OneRunning

LEMMA SpawnQueueInv == TypeOK /\ QueueInv /\ Spawn => QueueInv'
<1> SUFFICES ASSUME TypeOK, QueueInv, Spawn PROVE QueueInv'
  OBVIOUS
<1>1. /\ ready \in Seq(1 .. MaxTasks) /\ count \in 1 .. MaxTasks
      /\ state[count] = "absent" /\ count # Idle
  BY DEF TypeOK, Spawn, QueueInv, Contiguous
<1>2. ~InQueue(count)
  BY <1>1 DEF QueueInv, QueueIsReadySet
<1>3. /\ Len(ready') = Len(ready) + 1 /\ Len(ready) \in Nat
      /\ \A i \in 1 .. Len(ready) : ready'[i] = ready[i]
      /\ ready'[Len(ready) + 1] = count
  BY <1>1, AppendElements DEF Spawn
<1>4. state' = [state EXCEPT ![count] = "ready"] /\ count' = count + 1 /\ current' = current
  BY DEF Spawn
<1>5. NoDuplicates'
  BY <1>2, <1>3 DEF QueueInv, NoDuplicates, InQueue
<1>6. ASSUME NEW t \in Ids PROVE InQueue(t)' <=> InQueue(t) \/ t = count
  BY <1>3 DEF InQueue
<1>7. QueueIsReadySet'
  BY <1>1, <1>4, <1>6 DEF QueueInv, QueueIsReadySet, TypeOK
<1>8. OneRunning' /\ Contiguous'
  BY <1>1, <1>4 DEF QueueInv, OneRunning, Contiguous, TypeOK
<1>. QED
  BY <1>5, <1>7, <1>8 DEF QueueInv

LEMMA YieldQueueInv == TypeOK /\ QueueInv /\ YieldNow => QueueInv'
<1> SUFFICES ASSUME TypeOK, QueueInv, YieldNow PROVE QueueInv'
  OBVIOUS
<1>1. /\ ready' = Requeued /\ state' = [Parked EXCEPT ![Chosen] = "running"]
      /\ current' = Chosen /\ count' = count /\ Chosen # current
  BY DEF YieldNow
<1>2. /\ Chosen \in Ids /\ Len(Rest) \in Nat /\ current \in Ids
      /\ state \in [Ids -> State] /\ count \in 1 .. MaxTasks + 1
  BY ChosenAndRest DEF TypeOK
<1>3. current # Idle => state[current] = "running"
  BY <1>2 DEF QueueInv, OneRunning
<1>4. ~ \E i \in 1 .. Len(Rest) : Rest[i] = current /\ current # Idle
  BY <1>2, <1>3, InRest DEF QueueInv, QueueIsReadySet
<1>5. NoDuplicates'
  <2> SUFFICES ASSUME NEW i \in 1 .. Len(Requeued), NEW j \in 1 .. Len(Requeued),
                      Requeued[i] = Requeued[j]
               PROVE  i = j
    BY <1>1 DEF NoDuplicates
  <2>1. CASE i \in 1 .. Len(Rest) /\ j \in 1 .. Len(Rest)
    BY <2>1, RequeuedElements, RestNoDuplicates
  <2>2. CASE ~(i \in 1 .. Len(Rest) /\ j \in 1 .. Len(Rest))
    <3>1. /\ current # Idle /\ Len(Requeued) = Len(Rest) + 1
          /\ Requeued[Len(Rest) + 1] = current
      BY <1>2, <2>2, RequeuedElements
    <3>2. ASSUME NEW k \in 1 .. Len(Rest) PROVE Requeued[k] # current
      BY <1>4, <3>1, RequeuedElements
    <3>3. i = Len(Rest) + 1 \/ j = Len(Rest) + 1
      BY <1>2, <2>2, <3>1
    <3>4. i \notin 1 .. Len(Rest) /\ j \notin 1 .. Len(Rest)
      BY <3>1, <3>2, <3>3
    <3>. QED
      BY <1>2, <3>1, <3>4
  <2>. QED
    BY <2>1, <2>2
<1>6. ASSUME NEW t \in Ids
      PROVE  InQueue(t)' <=> (InQueue(t) /\ t # Chosen) \/ (t = current /\ t # Idle)
  <2>1. InQueue(t)' <=> \E i \in 1 .. Len(Requeued) : Requeued[i] = t
    BY <1>1 DEF InQueue
  <2>2. (\E i \in 1 .. Len(Requeued) : Requeued[i] = t)
          <=> (\E i \in 1 .. Len(Rest) : Rest[i] = t) \/ (t = current /\ t # Idle)
    <3>1. CASE current = Idle
      BY <1>2, <3>1, RequeuedElements
    <3>2. CASE current # Idle
      <4>1. /\ Len(Requeued) = Len(Rest) + 1 /\ Requeued[Len(Rest) + 1] = current
            /\ \A i \in 1 .. Len(Rest) : Requeued[i] = Rest[i]
        BY <3>2, RequeuedElements
      <4>2. \A i : i \in 1 .. Len(Requeued) <=> i \in 1 .. Len(Rest) \/ i = Len(Rest) + 1
        BY <1>2, <4>1
      <4>. QED
        BY <3>2, <4>1, <4>2
    <3>. QED
      BY <3>1, <3>2
  <2>. QED
    BY <2>1, <2>2, InRest
<1>7. ASSUME NEW t \in Ids
      PROVE  state'[t] = IF t = Chosen THEN "running"
                         ELSE IF t = current /\ t # Idle THEN "ready" ELSE state[t]
  BY <1>1, <1>2 DEF Parked
<1>8. QueueIsReadySet'
  BY <1>2, <1>6, <1>7, ChosenReady DEF QueueInv, QueueIsReadySet, OneRunning
<1>9. OneRunning'
  BY <1>1, <1>2, <1>7, ChosenReady DEF QueueInv, OneRunning
<1>10. Contiguous'
  BY <1>1, <1>2, <1>3, <1>7, ChosenReady DEF QueueInv, OneRunning, Contiguous
<1>. QED
  BY <1>5, <1>8, <1>9, <1>10 DEF QueueInv

LEMMA ExitQueueInv == TypeOK /\ QueueInv /\ TaskExit => QueueInv'
<1> SUFFICES ASSUME TypeOK, QueueInv, TaskExit PROVE QueueInv'
  OBVIOUS
<1>1. /\ ready' = Rest /\ current # Idle /\ current' = Chosen /\ count' = count
      /\ state' = [state EXCEPT ![current] = "finished", ![Chosen] = "running"]
  BY DEF TaskExit
<1>2. /\ Chosen \in Ids /\ current \in Ids /\ state \in [Ids -> State]
      /\ count \in 1 .. MaxTasks + 1
  BY ChosenAndRest DEF TypeOK
<1>3. state[current] = "running" /\ Chosen # current
  BY <1>1, <1>2, ChosenReady DEF QueueInv, OneRunning
<1>4. NoDuplicates'
  BY <1>1, RestNoDuplicates DEF NoDuplicates
<1>5. ASSUME NEW t \in Ids PROVE InQueue(t)' <=> InQueue(t) /\ t # Chosen
  <2>1. InQueue(t)' <=> \E i \in 1 .. Len(Rest) : Rest[i] = t
    BY <1>1 DEF InQueue
  <2>. QED
    BY <2>1, InRest
<1>6. ASSUME NEW t \in Ids
      PROVE  state'[t] = IF t = Chosen THEN "running"
                         ELSE IF t = current THEN "finished" ELSE state[t]
  BY <1>1, <1>2
<1>7. QueueIsReadySet'
  BY <1>2, <1>3, <1>5, <1>6, ChosenReady DEF QueueInv, QueueIsReadySet, OneRunning
<1>8. OneRunning'
  BY <1>1, <1>2, <1>3, <1>6, ChosenReady DEF QueueInv, OneRunning
<1>9. Contiguous'
  BY <1>1, <1>2, <1>3, <1>6, ChosenReady DEF QueueInv, OneRunning, Contiguous
<1>. QED
  BY <1>4, <1>7, <1>8, <1>9 DEF QueueInv

LEMMA NextQueueInv == TypeOK /\ QueueInv /\ [Next]_vars => QueueInv'
<1> SUFFICES ASSUME TypeOK, QueueInv, [Next]_vars PROVE QueueInv'
  OBVIOUS
<1>1. CASE Reinit
  BY <1>1 DEF Reinit, WithIdle, QueueInv, NoDuplicates, QueueIsReadySet, OneRunning,
              Contiguous, InQueue
<1>2. CASE UNCHANGED vars
  BY <1>2 DEF vars, QueueInv, NoDuplicates, QueueIsReadySet, OneRunning, Contiguous,
              InQueue
<1>. QED
  BY <1>1, <1>2, SpawnQueueInv, YieldQueueInv, ExitQueueInv DEF Next

\* In every reachable state the queue is exactly the set of tasks marked ready,
\* each once, and the current task is the only non-idle one marked running.
THEOREM SchedulerQueueInv == Spec => []QueueInv
BY SchedulerTypeOK, InitQueueInv, NextQueueInv, PTL DEF Spec

-----------------------------------------------------------------------------
(* Finished tasks stay finished: the only tasks a step marks are the new   *)
(* one (absent), the outgoing one (running) and the chosen one (ready).    *)

LEMMA StepKeepsFinished ==
  ASSUME TypeOK, QueueInv, [Next]_vars, NEW t \in Ids,
         state[t] = "finished", inits' = inits
  PROVE  state'[t] = "finished" /\ current' # t
<1>0. /\ t # Idle /\ t # current /\ t # count /\ state \in [Ids -> State]
      /\ count \in 1 .. MaxTasks + 1
  BY DEF TypeOK, QueueInv, OneRunning, Contiguous
<1>1. t # Chosen
  BY <1>0, ChosenReady
<1>2. CASE Reinit
  BY <1>2 DEF Reinit, TypeOK
<1>3. CASE Spawn
  BY <1>0, <1>3 DEF Spawn
<1>4. CASE YieldNow
  BY <1>0, <1>1, <1>4 DEF YieldNow, Parked
<1>5. CASE TaskExit
  BY <1>0, <1>1, <1>5 DEF TaskExit
<1>6. CASE UNCHANGED vars
  BY <1>0, <1>6 DEF vars
<1>. QED
  BY <1>2, <1>3, <1>4, <1>5, <1>6 DEF Next

\* task_exit is final: no interleaving of spawns, yields and exits brings a
\* finished task back to the CPU or to the queue.
THEOREM SchedulerFinishedForever == Spec => FinishedForever
<1>1. TypeOK /\ QueueInv /\ [Next]_vars
        => [\A t \in Ids : state[t] = "finished" /\ inits' = inits
              => state'[t] = "finished" /\ current' # t]_vars
  BY StepKeepsFinished
<1>. QED
  BY <1>1, SchedulerTypeOK, SchedulerQueueInv, PTL DEF Spec, FinishedForever

-----------------------------------------------------------------------------
(* Bounded wait.  WaitInv says it place by place; it needs that the queue  *)
(* never holds more elements than there are non-idle tasks, which follows  *)
(* from NoDuplicates by counting.                                          *)

\* A queue without duplicates is no longer than the number of spawned tasks.
QueueShort == Len(ready) <= count - 1

LEMMA QueueLength == TypeOK /\ QueueInv => QueueShort
<1> SUFFICES ASSUME TypeOK, QueueInv PROVE Len(ready) <= count - 1
  BY DEF QueueShort
<1>1. ready \in Seq(1 .. MaxTasks) /\ Len(ready) \in Nat /\ count \in 1 .. MaxTasks + 1
  BY LenProperties DEF TypeOK
<1>2. ASSUME NEW i \in 1 .. Len(ready) PROVE ready[i] \in 1 .. count - 1
  <2>1. ready[i] \in 1 .. MaxTasks /\ ready[i] \in Ids /\ InQueue(ready[i])
    BY <1>1, ElementOfSeq DEF InQueue
  <2>2. state[ready[i]] # "absent"
    BY <2>1 DEF QueueInv, QueueIsReadySet
  <2>. QED
    BY <1>1, <2>1, <2>2, SMTT(60) DEF QueueInv, Contiguous
<1> DEFINE place == [i \in 1 .. Len(ready) |-> ready[i]]
<1>3. place \in Injection(1 .. Len(ready), 1 .. count - 1)
  BY <1>2 DEF QueueInv, NoDuplicates, Injection, IsInjective
<1>4. /\ IsFiniteSet(1 .. count - 1) /\ Cardinality(1 .. count - 1) = count - 1
      /\ Cardinality(1 .. Len(ready)) = Len(ready)
  <2>1. 1 \in Int /\ count - 1 \in Int /\ Len(ready) \in Int /\ count - 1 >= 0
    BY <1>1
  <2>2. /\ IsFiniteSet(1 .. count - 1)
        /\ Cardinality(1 .. count - 1) = IF 1 > count - 1 THEN 0 ELSE count - 1 - 1 + 1
    BY <2>1, FS_Interval
  <2>3. Cardinality(1 .. Len(ready)) = IF 1 > Len(ready) THEN 0 ELSE Len(ready) - 1 + 1
    BY <2>1, FS_Interval
  <2>. QED
    BY <1>1, <2>2, <2>3
<1>5. Cardinality(1 .. Len(ready)) <= Cardinality(1 .. count - 1)
  BY <1>3, <1>4, FS_Injection
<1>. QED
  BY <1>4, <1>5

WaitIInv ==
  /\ waited \in [Ids -> Nat]
  /\ \A t \in Ids : ~InQueue(t) => waited[t] = 0
  /\ WaitInv

\* What Count does to one task's counter.
LEMMA CountStep ==
  ASSUME waited \in [Ids -> Nat], Count, NEW t \in Ids
  PROVE  waited'[t] = IF ~InQueue(t)' THEN 0
                      ELSE IF current' # current /\ InQueue(t) THEN OneMore(t)
                      ELSE waited[t]
BY DEF Count

\* OneMore adds one at most.
LEMMA OneMoreBound ==
  ASSUME waited \in [Ids -> Nat], NEW t \in Ids
  PROVE  OneMore(t) \in Nat /\ OneMore(t) <= waited[t] + 1
<1>1. waited[t] \in Nat /\ MaxTasks \in Nat
  BY SchedulerAssumption DEF SchedulerAssumption
<1>2. CASE waited[t] <= MaxTasks
  BY <1>1, <1>2, SMTT(60) DEF OneMore
<1>3. CASE ~(waited[t] <= MaxTasks)
  BY <1>1, <1>3 DEF OneMore
<1>. QED
  BY <1>2, <1>3

\* The counters stay natural numbers, and a task outside the queue waits for nothing.
LEMMA CountType ==
  ASSUME waited \in [Ids -> Nat], Count
  PROVE  /\ waited' \in [Ids -> Nat]
         /\ \A t \in Ids : ~InQueue(t)' => waited'[t] = 0
<1>1. \A t \in Ids : OneMore(t) \in Nat
  BY OneMoreBound
<1>. QED
  BY <1>1 DEF Count

\* One place forward makes up for one turn more.
LEMMA PlaceForTurn ==
  ASSUME NEW w \in Int, NEW v \in Int, NEW i \in Int, NEW n \in Int,
         v <= w + 1, w + (i + 1) <= n - 1
  PROVE  v + i <= n - 1
OBVIOUS

\* A switch moves the i-th place's task from place i + 1 and counts one turn.
LEMMA MovedUp ==
  ASSUME TypeOK, WaitIInv, Count, current' # current,
         NEW i \in 1 .. Len(Rest), i \in 1 .. Len(ready'), ready'[i] = Rest[i]
  PROVE  waited'[ready'[i]] + i <= count - 1
<1>1. /\ i + 1 \in 1 .. Len(ready) /\ ready'[i] = ready[i + 1]
      /\ ready \in Seq(1 .. MaxTasks)
  BY ChosenAndRest DEF TypeOK
<1>2. PICK t \in Ids : t = ready[i + 1]
  <2>1. ready[i + 1] \in 1 .. MaxTasks
    BY <1>1, ElementOfSeq
  <2>. QED
    BY <2>1
<1>3. InQueue(t) /\ InQueue(t)'
  BY <1>1, <1>2 DEF InQueue
<1>4. waited'[t] = OneMore(t)
  BY <1>3, CountStep DEF WaitIInv
<1>5. OneMore(t) \in Nat /\ OneMore(t) <= waited[t] + 1 /\ waited[t] \in Nat
  BY OneMoreBound DEF WaitIInv
<1>6. waited[ready[i + 1]] + (i + 1) <= count - 1
  BY <1>1 DEF WaitIInv, WaitInv
<1>7. i \in Int /\ count \in Int
  BY DEF TypeOK
<1>8. OneMore(t) + i <= count - 1
  <2>1. waited[t] + (i + 1) <= count - 1
    BY <1>2, <1>6
  <2>. QED
    BY <2>1, <1>5, <1>7, PlaceForTurn, SMTT(60)
<1>9. waited'[ready'[i]] = OneMore(t)
  BY <1>1, <1>2, <1>4
<1>. QED
  BY <1>8, <1>9

LEMMA NextWaitIInv ==
  ASSUME TypeOK, QueueInv, TypeOK', QueueShort', WaitIInv, [RRNext]_rrVars
  PROVE  WaitIInv'
<1>1. CASE UNCHANGED rrVars
  BY <1>1 DEF rrVars, vars, WaitIInv, WaitInv, InQueue
<1> SUFFICES ASSUME RRNext PROVE WaitIInv'
  BY <1>1
<1>2. Count /\ waited \in [Ids -> Nat]
  BY DEF RRNext, WaitIInv
<1>3. /\ waited' \in [Ids -> Nat]
      /\ \A t \in Ids : ~InQueue(t)' => waited'[t] = 0
  BY <1>2, CountType
<1>4. Len(ready') <= count' - 1 /\ Len(ready') \in Nat /\ Len(ready) \in Nat /\ Len(Rest) \in Nat
  <2>1. Len(ready) \in Nat /\ Len(ready') \in Nat
    BY LenProperties DEF TypeOK
  <2>2. Len(ready') <= count' - 1
    BY DEF QueueShort
  <2>. QED
    BY <2>1, <2>2, ChosenAndRest
<1>5. ASSUME NEW i \in 1 .. Len(ready') PROVE waited'[ready'[i]] + i <= count' - 1
  <2>1. CASE Reinit
    BY <2>1, <1>4 DEF Reinit
  <2>2. CASE Spawn
    <3>1. /\ count \in 1 .. MaxTasks /\ count' = count + 1 /\ current' = current
          /\ Len(ready') = Len(ready) + 1 /\ ready'[Len(ready) + 1] = count
          /\ \A k \in 1 .. Len(ready) : ready'[k] = ready[k]
      BY <2>2, AppendElements DEF Spawn, TypeOK
    <3>2. CASE i \in 1 .. Len(ready)
      <4>1. ready'[i] = ready[i] /\ i \in 1 .. Len(ready')
        BY <3>1, <3>2
      <4>2. PICK t \in Ids : t = ready[i]
        <5>1. ready \in Seq(1 .. MaxTasks)
          BY DEF TypeOK
        <5>2. ready[i] \in 1 .. MaxTasks
          BY <3>2, <5>1, ElementOfSeq
        <5>. QED
          BY <5>2
      <4>3. InQueue(t)
        BY <3>2, <4>2 DEF InQueue
      <4>4. InQueue(t)'
        BY <4>1, <4>2 DEF InQueue
      <4>5. waited'[t] = waited[t]
        BY <1>2, <3>1, <4>3, <4>4, CountStep
      <4>6. waited[t] \in Nat /\ i \in Int /\ count \in Int
        BY <1>2, <3>1
      <4>7. waited[t] + i <= count - 1
        BY <3>2, <4>2 DEF WaitIInv, WaitInv
      <4>8. waited[t] + i <= (count + 1) - 1
        BY <4>6, <4>7
      <4>. QED
        BY <3>1, <4>1, <4>2, <4>5, <4>8
    <3>3. CASE i = Len(ready) + 1
      <4>1. count \in Ids /\ ~InQueue(count)
        BY <3>1 DEF QueueInv, Contiguous, QueueIsReadySet
      <4>2. waited'[count] = 0
        BY <1>2, <3>1, <4>1, CountStep DEF WaitIInv
      <4>. QED
        BY <1>4, <3>1, <3>3, <4>2
    <3>. QED
      BY <1>4, <3>1, <3>2, <3>3
  <2>3. CASE YieldNow
    <3>1. /\ ready' = Requeued /\ count' = count /\ current' # current
          /\ count \in Int /\ current \in Ids
      BY <2>3 DEF YieldNow, TypeOK
    <3>2. CASE i \in 1 .. Len(Rest)
      BY <1>2, <3>1, <3>2, RequeuedElements, MovedUp
    <3>3. CASE i \notin 1 .. Len(Rest)
      <4>1. current # Idle /\ i = Len(Rest) + 1 /\ ready'[i] = current
        <5>1. Len(ready') = IF current = Idle THEN Len(Rest) ELSE Len(Rest) + 1
          BY <3>1, RequeuedElements
        <5>2. i \in Int /\ 1 <= i /\ i <= Len(ready') /\ ~(i <= Len(Rest))
          BY <1>4, <3>3
        <5>3. current # Idle /\ i = Len(Rest) + 1
          BY <1>4, <5>1, <5>2
        <5>. QED
          BY <3>1, <5>3, RequeuedElements
      <4>2. ~InQueue(current)
        BY <3>1, <4>1 DEF QueueInv, QueueIsReadySet, OneRunning
      <4>3. waited'[current] = 0
        BY <1>2, <3>1, <4>2, CountStep DEF WaitIInv
      <4>. QED
        BY <1>4, <3>1, <4>1, <4>3
    <3>. QED
      BY <3>2, <3>3
  <2>4. CASE TaskExit
    <3>1. /\ ready' = Rest /\ count' = count /\ current' = Chosen /\ current # Idle
          /\ current \in Ids
      BY <2>4 DEF TaskExit, TypeOK
    <3>2. Chosen # current
      BY <3>1, ChosenReady
    <3>. QED
      BY <1>2, <3>1, <3>2, MovedUp
  <2>. QED
    BY <2>1, <2>2, <2>3, <2>4 DEF RRNext, Next
<1>. QED
  BY <1>3, <1>5 DEF WaitIInv, WaitInv

LEMMA InitWaitIInv == RRInit => WaitIInv
BY DEF RRInit, Init, WaitIInv, WaitInv, InQueue

\* WaitInv bounds the counter of whatever place the task stands at.
LEMMA WaitBounds == TypeOK /\ WaitIInv => BoundedWait
<1> SUFFICES ASSUME TypeOK, WaitIInv, NEW t \in Ids, InQueue(t)
             PROVE  waited[t] <= count - 2
  BY DEF BoundedWait
<1>1. PICK i \in 1 .. Len(ready) : ready[i] = t
  BY DEF InQueue
<1>2. waited[t] + i <= count - 1
  BY <1>1 DEF WaitIInv, WaitInv
<1>3. waited[t] \in Nat /\ count \in Int /\ i \in Int /\ i >= 1
  BY DEF WaitIInv, TypeOK
<1>. QED
  BY <1>2, <1>3

\* Round robin: a queued task is passed over by at most one turn of every other
\* task, however many are spawned, exit or are preempted meanwhile.
THEOREM SchedulerBoundedWait == RRSpec => []BoundedWait
<1>1. RRInit => Init
  BY DEF RRInit
<1>2. [RRNext]_rrVars => [Next]_vars
  BY DEF RRNext, rrVars, vars
<1>3. RRSpec => Spec
  BY <1>1, <1>2, PTL DEF RRSpec, Spec
<1>4. TypeOK /\ QueueInv /\ TypeOK' /\ QueueShort' /\ WaitIInv /\ [RRNext]_rrVars
        => WaitIInv'
  BY NextWaitIInv
<1>5. RRSpec => []WaitIInv
  BY <1>3, <1>4, InitWaitIInv, QueueLength, SchedulerTypeOK, SchedulerQueueInv, PTL DEF RRSpec
<1>. QED
  BY <1>3, <1>5, WaitBounds, SchedulerTypeOK, PTL
=============================================================================
