---------------------------- MODULE MCEmulator -----------------------------
(* Instances of Emulator.                                                  *)
EXTENDS Emulator
=============================================================================
