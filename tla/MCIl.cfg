SPECIFICATION Spec
CONSTANTS
  c = c
  l = l
  Caller = c
  Listener = l
  Starts <- MCStarts
  Defaultwin = 2
  Maxrq = 2
  Dlen = 1
  Balloc = 2
  MaxRexmit = 1
  Fast = 0
  Nqt = 1
  MaxMsg <- MCMaxMsg
  InFlight = 2
INVARIANT Reliable
CHECK_DEADLOCK FALSE
