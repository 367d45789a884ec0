SPECIFICATION Spec
CONSTANTS
  Inputs = {"i"}
  Resources = {"r"}
  Queries = {"leaf"}
  Values = {"v0", "v1"}
  Errors = {"OSError", "DecodeError"}
  World = {"w0", "w1"}
  Unprobeable = {}
  Refusing = {}
  Split = {}
  Racy = {}
  Threads = {"t", "u"}
  SpanThreads = {"t"}
  AmbientValues = {"v0"}
  MaxQueryNodes = 0
  MaxRevision = 2
  MaxRequests = 3
  MaxEpoch = 2
  LoadOf <- MCLoadOf
  Body <- MCBody
  Equal <- MCEqual
  Rank <- MCRank
  Traces <- MCTraces
  Absent = Absent
INVARIANTS
  ValuesAreDerived
  RevisionDiscipline

  
