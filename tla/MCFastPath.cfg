SPECIFICATION Spec
CONSTANTS
  Names <- MCNames
  Lower <- MCLower
  SCAN_MAX_PKTS = 3
  DDOS_MIN_PACKETS = 5
  EXFIL_MIN_BYTES = 20000
  Tuples <- MCTuples
  SrcIP <- MCSrcIP
  Hint <- MCHint
  Packets <- MCPackets
  NoHost = "(none)"
  NoPayload = "(empty)"
  rules_ <- MCRules
  max_flows = 2
  MaxPackets = 6
INVARIANTS ScoreIsOfLastMultipleOfFive VerdictFollowsHistory DelayFollowsTheApp CountersAddUp ReportTellsTheHistory
