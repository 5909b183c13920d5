CONSTANTS
  Sessions <- MCSessions
  Origin <- MCOrigin
SPECIFICATION Spec
INVARIANTS TypeOK StartAgrees FailureIsReported ParsesAlike NothingIsLost PositionsHold
