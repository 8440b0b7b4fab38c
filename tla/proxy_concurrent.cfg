SPECIFICATION Spec
CONSTANTS
    Calls = {c1, c2}
    RequestIds = {i1, i2}
    NoCall = NoCall
    Tools <- MCTools
    States <- MCStates
    Stay = "stay"
    NumWorkflows = 2
    Initial <- TwoInitial
    Move <- TwoMove
    DenyInState <- TwoDenyInState
    DenyInCertainty <- TwoDenyInCertainty
    CannotFollow <- TwoCannotFollow
    RequiresState <- TwoRequiresState
    MaxOccurrences <- TwoMaxOccurrences
    Tags = {"UNTRUSTED_WEB"}
    Produces <- Tainting
    Disallowed <- Sinks
    AuditorOn = TRUE
    MaxInFlight = 2
    UniqueIds = TRUE
CHECK_DEADLOCK FALSE
SYMMETRY Symmetry
INVARIANTS TypeOK ReceiptsTruthful NoForgottenExecution NothingStranded LostCallLeavesDoubt
