CONSTANTS
  AW = 2
  InstrBits = InstrBits
  PageBits <- MCPageBits
  VABits <- MCVABits
  InitPmem <- MCInitPmem
  Writable <- MCWritable
  PteValues <- MCPteValues
  IoPages = {3}
  Contexts <- MCContexts
  LsVAs <- MCLsVAs
  FetchVAs <- MCFetchVAs
SPECIFICATION Spec
VIEW StateView

INVARIANT TypeOK
PROPERTY Sv32Refinement
