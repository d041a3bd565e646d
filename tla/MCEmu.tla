-------------------------------- MODULE MCEmu --------------------------------
EXTENDS Emu, TLC
=============================================================================
