SPECIFICATION Spec
CONSTANTS
    Layouts <- MCLayouts
    Menu <- MCMenu
    Movable <- MCMovable
    Names <- MCNames
    Private <- MCPrivate
    Stdlib = {}
    Installed = {}
    Fresh = "z"
    MaxFollowDepth = 3
    MaxBaseDepth = 3
    MaxStatements = 3
INVARIANTS
  
  ClassModelsFollowTheGraph
  
  BrokenImportsAreReported
PROPERTIES
  FileEditsKeepTargets
  
  
CHECK_DEADLOCK FALSE
