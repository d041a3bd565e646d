--------------------------------- MODULE MCIl ---------------------------------
EXTENDS Il, TLC

CONSTANTS c, l

MCStarts == c :> {10} @@ l :> {20}
MCMaxMsg == c :> 2 @@ l :> 0
===============================================================================
