SPECIFICATION Spec
CONSTANTS
  Inputs = {}
  Resources = {}
  Queries = {"clock", "via", "far", "const", "other"}
  Values = {"v0", "v1"}
  Errors = {"OSError", "DecodeError"}
  World = {"w0"}
  Unprobeable = {}
  Refusing = {}
  Split = {}
  Racy = {}
  Threads = {"t"}
  SpanThreads = {"t"}
  AmbientValues = {"v0", "v1"}
  MaxQueryNodes = 3
  MaxRevision = 3
  MaxRequests = 3
  MaxEpoch = 0
  LoadOf <- MCLoadOf
  Body <- MCBody
  Equal <- MCEqual
  Rank <- MCRank
  Traces <- MCTraces
  Absent = Absent
INVARIANTS
  ValueConsistency
