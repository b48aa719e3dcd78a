CONSTANTS
  AW <- MCAW
  InstrBits = InstrBits
  Kinds <- PrivKinds
  CsrOps <- PrivCsrOpsMpp2
  Targets <- MCTargets
  LsAddrs <- MCLsAddrs
SPECIFICATION Spec
VIEW StateView
INVARIANT NoAssertAbort
