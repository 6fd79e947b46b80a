------------------------------ MODULE MCIspM2M ------------------------------
EXTENDS IspM2M
=============================================================================
