SPECIFICATION StatelessSpec
CONSTANTS
  Messages <- MCMessages
  SCAN_MAX_PKTS = 3
  DDOS_MIN_PACKETS = 50
  EXFIL_MIN_BYTES = 100000
  Captures <- MCCaptures
  Buffers = {1, 7, 50, 1000}
  Rooms = {0, 30, 69, 1000}
INVARIANTS ReadsInBounds PayloadAsSent NameAsSent FlaggedIffSuspicious OutputReadsBack PacketsAsCaptured
PROPERTIES ExtractionEnds
