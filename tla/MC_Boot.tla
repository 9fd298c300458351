------------------------------- MODULE MC_Boot -------------------------------
(* The whole boot, with ITERS = 4 as in the code.                                 *)
EXTENDS KernelBoot

MCMain == BootMain
MCBody == BootBody
=============================================================================
