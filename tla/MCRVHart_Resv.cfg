CONSTANTS
  AW <- MCAW
  InstrBits = InstrBits
  Kinds <- MemKinds
  CsrOps <- MemCsrOps
  Targets <- MCTargets
  LsAddrs <- MCLsAddrs
SPECIFICATION Spec
VIEW StateView
PROPERTY ReservationClearedOnTrap
\* a store to TBIO offset 8 ends the process (TBExitException)
CHECK_DEADLOCK FALSE
