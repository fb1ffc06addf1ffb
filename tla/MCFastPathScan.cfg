SPECIFICATION Spec
CONSTANTS
  Names <- MCNames
  Lower <- MCLower
  SCAN_MAX_PKTS = 3
  DDOS_MIN_PACKETS = 50
  EXFIL_MIN_BYTES = 100000
  Tuples <- MCTuples
  SrcIP <- MCSrcIP
  Hint <- MCHint
  Packets <- MCPackets
  NoHost = "(none)"
  NoPayload = "(empty)"
  rules_ <- NoRules
  max_flows = 1
  MaxPackets = 6
INVARIANTS PortScansAreReported
