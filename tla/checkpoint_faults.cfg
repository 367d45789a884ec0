SPECIFICATION Spec
CONSTANTS
  Inputs = {"i"}
  Resources = {"r"}
  Queries = {"leaf", "mid", "app"}
  Natives = {"v0", "v1"}
  Adapted = {"x0", "x1"}
  AdapterVersions = {1, 2}
  Versions = {1, 2}
  Editable = {"leaf"}
  World = {"w0", "gone"}
  Errors = {"OSError"}
  AmbientValues = {"v0", "v1"}
  Settable = {"v1"}
  MaxFaults = 1
  MaxRevision = 2
  MaxManifests = 1
  MaxProcesses = 2
  Encode <- MCEncode
  Decode <- MCDecode
  LoadOf <- MCLoadOf
  Captures <- MCCaptures
  Body <- MCBody
  Rank <- MCRank
  Absent = Absent
INVARIANTS
  AnswersAreFresh
  WarmsWithoutRunning
  SavedRecordsReplay
  ManifestsAreComplete
