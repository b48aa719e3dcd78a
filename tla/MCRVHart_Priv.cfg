CONSTANTS
  AW <- MCAW
  InstrBits = InstrBits
  Kinds <- PrivKinds
  CsrOps <- PrivCsrOps
  Targets <- MCTargets
  LsAddrs <- MCLsAddrs
SPECIFICATION Spec
VIEW StateView
INVARIANTS MprvOnlyInM PcAligned
PROPERTY TrapAtomicity
