SPECIFICATION Spec
CONSTANTS
  MaxTimers = 2
  Delays = {1, 2}
  Counts <- OneOrTwo
  MaxLate = 2
  Recycles = FALSE
  Wrap = 6
  MaxHandlers = 2
  Names <- Parts
  Filters <- Parts
  SerialBufferSize = 3
  USART_RX_DATA_SIZE = 4
  VIRTUAL_COM_PORT_DATA_SIZE = 2
  PtrRange = 3
INVARIANTS TypeOK TimersKept AtMostFour
 
