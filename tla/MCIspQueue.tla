----------------------------- MODULE MCIspQueue -----------------------------
(* Small instances of IspQueue for TLC.                                    *)
EXTENDS IspQueue, TLC

\* The threads are interchangeable, and so are the userspace addresses.
ThreadSymmetry == Permutations(Threads) \cup Permutations(Addrs)
=============================================================================
