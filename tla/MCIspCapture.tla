---------------------------- MODULE MCIspCapture ----------------------------
(* Small instances of IspCapture for TLC.                                  *)
EXTENDS IspCapture, TLC

\* The threads are interchangeable.
ThreadSymmetry == Permutations(Threads)
=============================================================================
