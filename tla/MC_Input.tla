------------------------------- MODULE MC_Input ------------------------------
(* A ring of two usable bytes, keys pressed at any time.                     *)
EXTENDS KernelInput

MCMain == InputMain
MCBody == InputBody
=============================================================================
