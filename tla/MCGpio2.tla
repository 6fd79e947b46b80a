------------------------------ MODULE MCGpio2 -------------------------------
EXTENDS Gpio2
=============================================================================
