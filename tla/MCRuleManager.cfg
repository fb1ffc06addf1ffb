SPECIFICATION Spec
CONSTANTS
  Names <- MCNames
  Lower <- MCLower
  IPs = {"ip1", "ip2"}
  IPStrings <- MCIPStrings
  ParseIP <- MCParseIP
  NoIP = "none"
  AppNames <- MCAppNames
  AppOf <- MCAppOf
  DomainStrings = {"", "TikTok.com", ".tiktok.com", "com"}
  Files <- MCFiles
  Stoi <- MCStoi
  Hostnames <- MCHostnames
  Delays = {0, 20}
  Sites <- TestSites
  TakenFor <- Mistaken
  MaxCommands = 4
INVARIANTS DecisionFollowsTheRulesGiven AppRuleBlocksItsSites
