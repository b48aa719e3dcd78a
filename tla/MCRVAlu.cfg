CONSTANTS
  XLEN = 4
  CounterBits = 1
  NRegs = 2
SPECIFICATION Spec
VIEW StateView

PROPERTY AluMatchesIsa
PROPERTY CountersTick
