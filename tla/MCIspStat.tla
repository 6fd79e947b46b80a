----------------------------- MODULE MCIspStat ------------------------------
EXTENDS IspStat
=============================================================================
