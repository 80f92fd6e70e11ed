CONSTANTS
  Cpu = Cpu
  Memory = Memory
  None = None
  Kinds <- MCKinds
  Drainable <- MCDrainable
  Disposable <- MCDisposable
  UntimedStop <- MCUntimedStop
SPECIFICATION Spec
INVARIANTS
  SettledMeansReleased
  LostKindHasDiagnostic
  NoProbeNoBundle
  OverlapOnlyAfterTimeout
  DisposedBeforeClose
PROPERTIES
  ImplementsManagedCapture
  NoDrainAfterStop
