------------------------------- MODULE MCPwm -------------------------------
(* Small instances of Pwm for TLC.                                         *)
EXTENDS Pwm, TLC

\* The processes are interchangeable.
FileSymmetry == Permutations(Files)
=============================================================================
