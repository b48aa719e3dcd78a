CONSTANTS
  AW = 2
  InstrBits = InstrBits
  PageBits <- MCPageBits
  VABits <- MCVABits
  InitPmem <- MCInitPmem
  Writable <- MCWritable
  PteValues <- MCPteValuesReserved
  IoPages = {3}
  Contexts <- MCContexts
  LsVAs <- MCLsVAs
  FetchVAs <- MCFetchVAsCross
SPECIFICATION Spec
VIEW StateView

PROPERTY Sv32Refinement
