SPECIFICATION FingerprintSpec
CONSTANTS
    Codes <- MCCodes
    Steps <- MCSteps
    World <- MCWorld
    Disk <- MCDisk
    Roots = {"qf", "qm", "qr", "qt"}
    Rebindings <- Everyday
    Edits <- MCEdits
    MaxWrites = 2
    MaxSaves = 1
INVARIANTS
  
  PinnedIsFolded
  ExplainAgrees
CHECK_DEADLOCK FALSE
