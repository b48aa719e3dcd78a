CONSTANTS
  AW <- MCAW
  InstrBits = InstrBits
  Kinds <- IrqKinds
  CsrOps <- IrqCsrOps
  Targets <- MCTargets
  LsAddrs <- MCLsAddrs
SPECIFICATION Spec
VIEW StateView
INVARIANT TypeOK
PROPERTY IrqTakenAtBoundary
