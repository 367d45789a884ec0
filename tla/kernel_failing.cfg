SPECIFICATION Spec
CONSTANTS
  Inputs = {}
  Resources = {"r", "s"}
  Queries = {"pass", "soft", "side"}
  Values = {"v0", "v1"}
  Errors = {"OSError", "DecodeError"}
  World = {"w0", "gone", "refuse", "noprobe"}
  Unprobeable = {"noprobe"}
  Refusing = {"refuse"}
  Split = {"s"}
  Racy = {"r"}
  Threads = {"t"}
  SpanThreads = {}
  AmbientValues = {"v0"}
  MaxQueryNodes = 0
  MaxRevision = 3
  MaxRequests = 3
  MaxEpoch = 0
  LoadOf <- MCLoadOf
  Body <- MCBody
  Equal <- MCEqual
  Rank <- MCRank
  Traces <- MCTraces
  Absent = Absent
INVARIANTS
  ValueConsistency
  GreenRecordsReplay
