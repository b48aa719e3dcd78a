CONSTANTS
  UartData <- MCUartData
  UartInit <- MCUartInit

SPECIFICATION Spec
PROPERTY UartWriteReadBack
