----------------------------- MODULE MCSandbox -----------------------------
(* Instances of Sandbox for TLC.  The constants keep the order of the      *)
(* code's: Chunk (4095) < PipeCap (65536).                                 *)
EXTENDS Sandbox

\* Success, failure, and the code of a failed execl.
MCExitCodes == {0, 1, 127}
=============================================================================
