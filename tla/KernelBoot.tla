------------------------------ MODULE KernelBoot -----------------------------
(***************************************************************************)
(* Kernel with the bodies the source really runs: kernel_main through the  *)
(* cooperative self-test, the preemptive self-test and the start of the    *)
(* shell, and the worker, waiter, setter and shell tasks; and what the     *)
(* self-tests and the shell rely on.                                       *)
(***************************************************************************)
EXTENDS Kernel

CONSTANT Iters  \* turns a cooperative worker takes (ITERS)

ASSUME BootAssumption == Iters \in Nat

-----------------------------------------------------------------------------
(* Bodies. The first scheduler is installed before these begin.            *)

\* worker_body: a letter and a heap box carried across every yield.
Turn == <<"emit", "alloc", "yield", "alloc">>
Worker ==
  [i \in 1 .. 4 * Iters + 1 |-> IF i <= 4 * Iters THEN Turn[((i - 1) % 4) + 1] ELSE "exit"]

Waiter == <<"sti", "wait", "saw", "exit">>
Setter == <<"sti", "set", "exit">>
ShellMain == <<"sti", "print", "shell">>

CooperativeSelfTest == <<"spawn", "spawn", "yield", "check", "print">>
PreemptiveSelfTest ==
  <<"cli", "init", "spawn", "spawn", "sti", "yield", "check", "print">>
\* task::init, spawn(shell_main), yield_now, hlt_loop.
StartShell == <<"init", "spawn", "yield", "hlt">>

\* kernel_main from task::cooperative_self_test to its end; "sti" is the one after
\* pit::init, the print after it stands for the serial output of the tests between.
BootMain == CooperativeSelfTest \o <<"sti">> \o PreemptiveSelfTest \o StartShell

BootBody ==
  << [t \in Ids |-> IF t \in {1, 2} THEN Worker ELSE <<>>],
     [t \in Ids |-> IF t = 1 THEN Waiter ELSE IF t = 2 THEN Setter ELSE <<>>],
     [t \in Ids |-> IF t = 1 THEN ShellMain ELSE <<>>] >>

-----------------------------------------------------------------------------

\* What the self-tests assert.  Cooperative: the workers alternate strictly, and the idle
\* task is resumed only when both have finished.  Preemptive: if the waiter is done when
\* the idle task looks, it has seen the flag, so it was preempted in its loop.
SelfTests ==
  /\ \A i \in 1 .. Len(log) : log[i] = IF i % 2 = 1 THEN 1 ELSE 2
  /\ cpu = Idle /\ Op("check") /\ inits = 1
       => Len(log) = 2 * Iters /\ state[1] = "finished" /\ state[2] = "finished"
  /\ cpu = Idle /\ Op("check") /\ inits = 2 /\ state[1] = "finished" => saw

-----------------------------------------------------------------------------
(* Liveness of the kernel that serves the shell.                           *)

\* The shell and the idle task are both given the CPU again and again.
BothRun == []<>(cpu = 1 /\ InBody) /\ []<>(cpu = Idle /\ InBody)
BothRunOnceStarted == (inits = MaxInits /\ count = 2) ~> BothRun
=============================================================================
