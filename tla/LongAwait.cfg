SPECIFICATION Spec
CONSTANTS
  Captures <- TimelineInputs
  CaptureDuration <- Duration
  HeartbeatResolution <- Resolution
  StallThreshold <- Threshold
  Faults <- FaultInputs
  Views <- CpuViews
  Orders <- CpuOrders
  Comparisons <- Diffs
  Lives <- LifeInputs
  Traces <- TraceInputs
  CpuView <- HotView
INVARIANT LongAwaitsAreReported
CHECK_DEADLOCK FALSE
