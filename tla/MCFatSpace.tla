---------------------------- MODULE MCFatSpace ----------------------------
EXTENDS FatSpace, TLC
=============================================================================
