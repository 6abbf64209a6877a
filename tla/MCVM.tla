-------------------------------- MODULE MCVM --------------------------------
(* Small instances of VMBackend for TLC.                                   *)
EXTENDS VMBackend, TLC

MCSymmetry == Permutations(Proc) \cup Permutations(Controller)
=============================================================================
