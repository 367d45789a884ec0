SPECIFICATION Spec
CONSTANTS
    Names = {"x"}
    Receivers = {"self"}
    BindingForms = {"assign", "loop"}
    FunctionHeaders <- Functions
    ClassHeaders <- Classes
    MaxScopes = 4
    MaxStatements = 4
INVARIANTS
  
  ReceiverIsTheInstance
CHECK_DEADLOCK FALSE
