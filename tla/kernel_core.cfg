SPECIFICATION Spec
CONSTANTS
  Inputs = {"i"}
  Resources = {"r"}
  Queries = {"parse", "mid", "top"}
  Values = {"v0", "v1"}
  Errors = {"OSError", "DecodeError"}
  World = {"w0", "w1", "gone"}
  Unprobeable = {}
  Refusing = {}
  Split = {}
  Racy = {"r"}
  Threads = {"t"}
  SpanThreads = {}
  AmbientValues = {"v0", "v1"}
  MaxQueryNodes = 0
  MaxRevision = 2
  MaxRequests = 3
  MaxEpoch = 0
  LoadOf <- MCLoadOf
  Body <- MCBody
  Equal <- MCEqual
  Rank <- MCRank
  Traces <- MCTraces
  Absent = Absent
INVARIANTS
  TypeOK
  FromScratchConsistency
  GreenRecordsReplay
PROPERTIES
  NoReaderMissesAChange
