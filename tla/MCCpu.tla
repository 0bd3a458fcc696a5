------------------------------- MODULE MCCpu -------------------------------
(***************************************************************************)
(* Small instances of CpuExceptions, with all five modes.                   *)
(***************************************************************************)
EXTENDS CpuExceptions

AllModes == {"usr", "svc", "irq", "und", "abt"}

=============================================================================
