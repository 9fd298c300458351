------------------------------ MODULE KernelInput ----------------------------
(***************************************************************************)
(* The booted kernel with its keyboard: IRQ1 pushes a byte into the ring,  *)
(* the shell task pops it or goes to sleep, and the timer preempts either  *)
(* side between any two instructions.  Composes Kernel (the CPU, the locks *)
(* and the scheduler) with InputRing (push and pop).                       *)
(***************************************************************************)
EXTENDS KernelBoot

CONSTANTS
  Cap,      \* RING_CAP
  MaxKeys   \* bound: keys pressed

ASSUME InputAssumption == Cap \in Nat /\ Cap >= 2 /\ MaxKeys \in Nat

VARIABLES
  ring, head, tail, push, pop, taken, dropped,  \* as in InputRing
  kirr, kisr,  \* IRQ1 raised and not delivered; delivered and not acknowledged
  keys,        \* keys pressed so far; the last one names the scancode in port 0x60
  kbd,         \* where the keyboard handler stands, on top of `live`; "none": not in it.
               \* In it IF is clear, and `intr` is the IF that its iretq restores.
  repl,        \* where the shell stands in its loop when it is not in a call
  ran,         \* history: the running task executed code of its own since the last tick
  slept        \* history: ticks in a row that found the CPU in hlt and a byte in the ring

keyVars == <<ring, head, tail, push, pop, taken, dropped>>
irqVars == <<kirr, kisr, keys, kbd>>
histVars == <<ran, slept>>
inputVars == <<keyVars, irqVars, repl, histVars>>
allVars == <<vars, inputVars>>

Ring == INSTANCE InputRing WITH Byte <- 1 .. MaxKeys

InputInit ==
  /\ Init /\ Ring!Init
  /\ kirr = FALSE /\ kisr = FALSE /\ keys = 0 /\ kbd = "none" /\ repl = "poll"
  /\ ran = TRUE /\ slept = 0

KeyDeliverable == kirr /\ ~kisr /\ ~isr /\ intr /\ kbd = "none"
Proceeds == Executes /\ ~KeyDeliverable /\ kbd = "none"

-----------------------------------------------------------------------------
(* The keyboard interrupt.                                                 *)

\* The controller raises IRQ1 for a byte; the next one waits until it is read.
KeyPress ==
  /\ keys < MaxKeys /\ ~kirr /\ kbd # "read"
  /\ keys' = keys + 1 /\ kirr' = TRUE
  /\ UNCHANGED <<vars, keyVars, kisr, kbd, repl, histVars>>

\* IRQ0 has the higher priority.
KeyIrq ==
  /\ KeyDeliverable /\ ~Deliverable
  /\ kirr' = FALSE /\ kisr' = TRUE /\ kbd' = "read" /\ halted' = FALSE
  /\ UNCHANGED <<schedVars, cpu, intr, irr, isr, held, live, parked, testVars,
                 keyVars, keys, repl, histVars>>

\* handle_interrupt: a release, a modifier or an unmapped key yields no character;
\* any other is pushed.
KbdRead ==
  /\ kbd = "read"
  /\ \/ UNCHANGED keyVars /\ kbd' = "eoi"
     \/ Ring!PushLoad(keys) /\ kbd' = "push"
  /\ UNCHANGED <<kirr, kisr, keys, intr, live>>

KbdPush ==
  /\ kbd = "push"
  /\ \/ Ring!PushStore /\ UNCHANGED kbd
     \/ Ring!PushPublish /\ kbd' = "eoi"
     \/ push.at = "idle" /\ UNCHANGED keyVars /\ kbd' = "eoi"  \* dropped
  /\ UNCHANGED <<kirr, kisr, keys, intr, live>>

\* Fault: the handler echoes the key.
KbdEchoes ==
  /\ kbd = "eoi" /\ kisr' = FALSE /\ kbd' = "none" /\ intr' = FALSE
  /\ RepeatWith(<<Acquire("SERIAL"), Frame("iret", "SERIAL", intr)>> \o live.frames)
  /\ UNCHANGED <<keyVars, kirr, keys>>

KbdEoi ==
  /\ kbd = "eoi" /\ kisr' = FALSE /\ kbd' = "iret"
  /\ UNCHANGED <<keyVars, kirr, keys, intr, live>>

KbdIret ==
  /\ kbd = "iret" /\ kbd' = "none"
  /\ UNCHANGED <<keyVars, kirr, kisr, keys, intr, live>>

KbdStep ==
  /\ KbdRead \/ KbdPush \/ KbdEoi \/ KbdIret
  /\ UNCHANGED <<schedVars, cpu, irr, isr, halted, held, parked, testVars, repl, histVars>>

-----------------------------------------------------------------------------
(* The shell's loop: keyboard::pop().or_else(serial::read_byte), serve or hlt. *)

\* pop finds nothing, or goes on to read the slot.
ReplPoll ==
  /\ repl = "poll"
  /\ \/ Ring!PopEmpty /\ repl' = "serial" /\ RepeatWith(<<Acquire("SERIAL")>>)
        /\ UNCHANGED keyVars
     \/ Ring!PopLoad /\ repl' = "pop" /\ UNCHANGED live
  /\ UNCHANGED <<intr, halted>>

ReplPop ==
  /\ repl = "pop"
  /\ \/ Ring!PopRead /\ UNCHANGED repl
     \/ Ring!PopAdvance /\ repl' = "serve"
  /\ UNCHANGED <<intr, halted, live>>

\* The UART has a byte, or not.
ReplSerial ==
  /\ repl = "serial" /\ repl' \in {"serve", "hlt"}
  /\ UNCHANGED <<keyVars, intr, halted, live>>

\* Fault: sleep for good, as hlt_loop does.
ReplHltLoop ==
  /\ repl = "hlt" /\ halted' = TRUE
  /\ UNCHANGED <<keyVars, repl, intr, live>>

\* Between the empty poll and this step a key may have arrived.
ReplHlt ==
  /\ repl = "hlt" /\ halted' = TRUE /\ repl' = "poll"
  /\ UNCHANGED <<keyVars, intr, live>>

\* Line::edit ignores the byte, or it is echoed or completes a command.
ReplServe ==
  /\ repl = "serve" /\ repl' = "poll"
  /\ \/ UNCHANGED <<live, intr>>
     \/ \E o \in {"stats", "snapshot"} : RepeatWith(Guarded(o)) /\ intr' = FALSE
     \/ \E o \in {"print", "alloc"} : RepeatWith(Plain(o)) /\ UNCHANGED intr
  /\ UNCHANGED <<keyVars, halted>>

ReplStep ==
  /\ Op("shell")
  /\ ReplPoll \/ ReplPop \/ ReplSerial \/ ReplHlt \/ ReplServe
  /\ UNCHANGED <<schedVars, cpu, irr, isr, held, parked, testVars>>

-----------------------------------------------------------------------------

SleptCap == 4  \* bound of the history counter

Shell == 1

\* Not inside a timer interrupt taken by the running task.
OwnCode == \A i \in 1 .. Len(live.frames) : live.frames[i].at \notin {"irq.eoi", "iret"}

\* History: the row ends as soon as the shell executes anything but its hlt.
InputCpuStep ==
  \/ KbdStep
  \/ /\ Proceeds
     /\ \/ ~Op("shell") /\ (BodyStep \/ KernelStep) /\ UNCHANGED <<keyVars, repl>>
        \/ ReplStep
     /\ ran' = (ran \/ OwnCode)
     /\ slept' = IF cpu = Shell /\ OwnCode /\ ~(Op("shell") /\ repl = "hlt")
                 THEN 0 ELSE slept
     /\ UNCHANGED irqVars

InputInterrupt ==
  /\ kbd = "none" /\ TimerIrq
  /\ ran' = FALSE
  /\ slept' = IF halted /\ ~Ring!PopEmpty /\ slept < SleptCap THEN slept + 1 ELSE slept
  /\ UNCHANGED <<keyVars, irqVars, repl>>

\* The PIT's period of 10 ms is far longer than any handler: no second tick before the
\* task that was given the CPU has executed code of its own.
InputTick == TimerTick /\ ran /\ UNCHANGED inputVars

InputNext == InputCpuStep \/ InputInterrupt \/ InputTick \/ KeyPress \/ KeyIrq

\* The CPU executes whenever it can, the PIT fires at 100 Hz.
InputSpec ==
  /\ InputInit /\ [][InputNext]_allVars
  /\ WF_allVars(InputCpuStep) /\ WF_allVars(InputInterrupt)
  /\ WF_allVars(InputTick) /\ WF_allVars(KeyIrq)

\* kernel_main from its last scheduler on, interrupts on; shell_main, its only
\* task, enables them for itself first.
InputMain == <<"sti">> \o StartShell
InputBody == << [t \in Ids |-> <<>>], [t \in Ids |-> ShellMain] >>

-----------------------------------------------------------------------------

\* The CPU sleeps through at most three ticks over a waiting byte: one resumes the
\* shell parked behind its empty poll, right before its hlt; one ends that hlt and
\* hands the CPU to idle; one ends idle's.
BoundedSleep == slept <= 3

\* "the byte waits in the ring until the next tick reschedules the shell -- bounded
\* by the 100 Hz period" (shell.rs:16-18): one tick.
AwakeWithinOnePeriod == slept <= 1

\* Every byte that entered the ring is taken by the shell.
KeysTaken ==
  \A k \in 1 .. MaxKeys :
    (\E i \in DOMAIN Ring!Contents : Ring!Contents[i] = k) ~> taken = k

=============================================================================
