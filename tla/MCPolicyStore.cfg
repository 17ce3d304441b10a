SPECIFICATION FairSpec
CONSTANTS
  server = server
  command = command
  u1 = u1
  u2 = u2
  u3 = u3
  r1 = r1
  Processes = {server, command}
  Updates = {u1, u2, u3}
  Reads = {r1}
  Home <- MCHome
  NoFile = NoFile
  NoCall = NoCall
INVARIANT ReadsCurrent
PROPERTIES
  AtomicUnlessDamaged
  EveryCallReturns
