CONSTANTS
  Paths <- ThreeFiles
  Named = {"mod", "req"}
  Openable = {"mod"}
  Texts <- FiveTexts
  TextsOf <- TextsOfFile
  Workspaces <- Started
  References <- Includes
  Requirements = "req"
  Problems <- ThreeProblems
  Analysis <- ReportedIn
  Fits <- WithinText
  Parses <- IsParsed
  Order <- Alphabetic
  Methods = {"prepareRename", "completion"}
  Reverts = FALSE
  Debounce = 1
  MaxMessages = 3
  MaxEdits = 2
  MaxFaults = 1
  Missing = Missing
SPECIFICATION Spec
INVARIANTS
  NoEditIsLost
  OpenDocumentsAnswerFromOneText
PROPERTIES
  ImplementsTheFeed
  RequestsAreAnswered
  ClientConverges
CHECK_DEADLOCK FALSE
