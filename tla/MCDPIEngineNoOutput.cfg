SPECIFICATION FairSpec
CONSTANTS
  f0 = f0
  f1 = f1
  NumLBs = 1
  NumFPsPerLB = 1
  QueueCapacity = 1
  EnableStats = FALSE
  Flows = {f0}
  Hash <- Hash1
  Junk = Junk
  Corrupt = Corrupt
  Captures <- OneFlow
  Faults = {"output"}
PROPERTIES RunReturnsAlways
CHECK_DEADLOCK FALSE
