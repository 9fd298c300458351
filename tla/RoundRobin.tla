------------------------------ MODULE RoundRobin -----------------------------
(***************************************************************************)
(* Scheduler with a history variable that counts, for each queued task,    *)
(* how many others were given the CPU since it entered the queue: the      *)
(* round-robin promise is a bound on that count.                           *)
(***************************************************************************)
EXTENDS Scheduler

VARIABLE waited  \* history: switches to other tasks since entering the queue,
                 \* counted up to MaxTasks, which is more than is ever promised

rrVars == <<vars, waited>>

RRInit == Init /\ waited = [t \in Ids |-> 0]

OneMore(t) == IF waited[t] < MaxTasks THEN waited[t] + 1 ELSE waited[t]

Count ==
  waited' = [t \in Ids |->
    IF ~InQueue(t)' THEN 0
    ELSE IF current' # current /\ InQueue(t) THEN OneMore(t)
    ELSE waited[t]]

RRNext == Next /\ Count

RRSpec == RRInit /\ [][RRNext]_rrVars
RRFairSpec == RRSpec /\ WF_rrVars(YieldNow /\ Count)

-----------------------------------------------------------------------------

\* The task at place i has at most as many turns to wait as stand before it.
WaitInv ==
  \A i \in 1 .. Len(ready) : waited[ready[i]] + i <= count - 1

\* No task waits for more turns than there are other non-idle tasks: neither
\* later spawns nor exits nor the idle task's slices push it back.
BoundedWait ==
  \A t \in Ids : InQueue(t) => waited[t] <= count - 2
=============================================================================
