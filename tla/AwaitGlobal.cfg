CONSTANTS
  p1 = p1
  p2 = p2
  p3 = p3
  Profilers = {p1, p2}
  signals = signals
  async = async
  plugin = plugin
  Installers = {signals, async, plugin}
  RuntimeSignals = signals
  Releasing = {async}
  Awaits = async
  Faulty = {}
  Rank <- MCRank
  StaleAfter = 1
SPECIFICATION Spec
CHECK_DEADLOCK FALSE
INVARIANT AwaitStaysCallable
