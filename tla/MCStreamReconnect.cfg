SPECIFICATION ReconnectSpec
CONSTANTS
  Streams = {1, 2, 3, 4}
  MaxBreaks = 1
  MaxFailures = 1
PROPERTIES ServerReaches
CHECK_DEADLOCK FALSE
