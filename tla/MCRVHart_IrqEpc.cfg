CONSTANTS
  AW <- MCAW3
  InstrBits = InstrBits
  Kinds <- IrqKinds
  CsrOps <- IrqCsrOps
  Targets <- MCTargets3
  LsAddrs <- MCLsAddrs
SPECIFICATION Spec
VIEW StateView
PROPERTY IrqEpcIsNextPc
