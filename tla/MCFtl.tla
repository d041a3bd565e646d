-------------------------------- MODULE MCFtl ---------------------------------
EXTENDS Ftl, TLC
===============================================================================
