SPECIFICATION Spec
CONSTANTS
  Captures <- TimelineInputs
  CaptureDuration <- Duration
  HeartbeatResolution <- Resolution
  StallThreshold <- Threshold
  Faults <- FaultInputs
  Views <- CpuViews
  Orders <- CpuOrders
  Comparisons <- Diffs
  Lives <- LifeInputs
  Traces <- TraceInputs
  CpuView <- HotView
INVARIANTS
  EventsAreKept
  FiguresAddUp
  AsyncTimeIsKept
  HotFramesAreToldOnce
  FailuresStayLocal
  DetectorsLoseNothing
  DiffsAgree
\* a behaviour ends when the part it took is carried out
CHECK_DEADLOCK FALSE
