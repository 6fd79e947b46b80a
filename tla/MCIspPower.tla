----------------------------- MODULE MCIspPower -----------------------------
(* The media graph of the drone's board for TLC: the horizontal camera on  *)
(* the CSI2 receiver, the vertical one on the CCDC's parallel port.        *)
EXTENDS IspPower, TLC

Link(a, b) == [src |-> a, snk |-> b]

SensorLink == {Link("soc1040", "csi2a")}

\* Every way a sensor's image, or one read from memory, reaches the resizer.
BoardLinks ==
  SensorLink \cup
  {Link("csi2a", "ccdc"), Link("ov7670", "ccdc"),
   Link("ccdc", "prev"), Link("ccdc", "res"), Link("ccdc", "ccdc_out"),
   Link("prev_in", "prev"), Link("prev", "res"), Link("res", "res_out")}

\* The handles are interchangeable.
HandleSymmetry == Permutations(Handles)
=============================================================================
