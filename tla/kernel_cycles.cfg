SPECIFICATION FairSpec
CONSTANTS
  Inputs = {"i", "j"}
  Resources = {}
  Queries = {"a", "b", "c"}
  Values = {"v0", "v1"}
  Errors = {"OSError", "DecodeError"}
  World = {"w0"}
  Unprobeable = {}
  Refusing = {}
  Split = {}
  Racy = {}
  Threads = {"t"}
  SpanThreads = {}
  AmbientValues = {"v0"}
  MaxQueryNodes = 2
  MaxRevision = 3
  MaxRequests = 3
  MaxEpoch = 0
  LoadOf <- MCLoadOf
  Body <- MCBody
  Equal <- MCEqual
  Rank <- MCRankInputsFirst
  Traces <- MCTraces
  Absent = Absent
INVARIANTS
  FromScratchConsistency

  
