SPECIFICATION BothSpec
CONSTANTS
  Names <- MCNames
  Lower <- MCLower
  SCAN_MAX_PKTS = 3
  DDOS_MIN_PACKETS = 50
  EXFIL_MIN_BYTES = 100000
  Tuples <- MCTuples
  SrcIP <- MCSrcIP
  PortsOf <- MCPortsOf
  Packets <- MCPackets
  Junk = Junk
  NoHost = "(none)"
  NoPayload = "(empty)"
  rules <- MCRules
  max_flows = 2
  MaxPackets = 5
INVARIANTS ReportAddsUp EnginesAgree
PROPERTIES ClassificationIsFinal
