---------------------------- MODULE MCMountMux -----------------------------
EXTENDS MountMux, TLC
=============================================================================
