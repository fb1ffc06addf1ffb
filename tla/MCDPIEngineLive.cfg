SPECIFICATION FairSpec
CONSTANTS
  f0 = f0
  f1 = f1
  NumLBs = 1
  NumFPsPerLB = 2
  QueueCapacity = 1
  EnableStats = TRUE
  Flows = {f0, f1}
  Hash <- Hash2
  Junk = Junk
  Corrupt = Corrupt
  Captures <- CapturesLive
  Faults = {"input", "write"}
PROPERTIES ImplementsFilter RunReturns
