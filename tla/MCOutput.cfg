SPECIFICATION Spec
CONSTANTS
  WIDTH = 8192
  KB = 8
  THOUSAND = 100
  Formats <- MCFormats
  Messages <- MCMessages
  UartMessage <- MCUartMessage
  Keys = {0, 107}
  Columns = 5
  MaxNested = 14
  MaxCalls = 2
  MaxInterrupts = 1
INVARIANTS TypeOK CallShown
PROPERTY Returns
