CONSTANTS
  p1 = p1
  p2 = p2
  p3 = p3
  Profilers = {p1, p2, p3}
  signals = signals
  async = async
  plugin = plugin
  Installers = {signals, async, plugin}
  RuntimeSignals = signals
  Releasing = {async}
  Awaits = async
  Faulty = {plugin}
  Rank <- MCRank
  StaleAfter = 1
SPECIFICATION FairSpec
CHECK_DEADLOCK FALSE
INVARIANTS
  ObservesOnce
  NothingEscapes
  CaptureHasItsHooks
PROPERTY
  AbandonedAreDisposed
