SPECIFICATION Spec
CONSTANTS
  f0 = f0
  f1 = f1
  NumLBs = 2
  NumFPsPerLB = 2
  QueueCapacity = 1
  EnableStats = FALSE
  Flows = {f0, f1}
  Hash <- Hash2
  Junk = Junk
  Corrupt = Corrupt
  Captures <- Captures3
  Faults = {"input", "output", "write"}
INVARIANTS TypeOK ShutdownInOrder NoPushIntoClosed EachFastPathSeesItsShareInOrder OutputIsWhatWasForwarded QuietAtReturn
