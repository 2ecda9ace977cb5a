\* Two threads run three operations of one strand.
SPECIFICATION FairSpec
CONSTANTS
  Handlers = {h1, h2, h3}
  Threads = {t1, t2}
  None = None
INVARIANTS
  NoLostWakeup
  RunsOut
PROPERTIES
  ImplementsSerial
  EveryHandlerRuns
