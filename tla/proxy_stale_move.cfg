SPECIFICATION Spec
CONSTANTS
    Calls = {c1, c2}
    RequestIds = {i1, i2}
    NoCall = NoCall
    Tools <- MCTools
    States <- MCStates
    Stay = "stay"
    NumWorkflows = 1
    Initial <- OneInitial
    Move <- OneMove
    DenyInState <- OneDenyInState
    DenyInCertainty <- OneDenyInCertainty
    CannotFollow <- OneCannotFollow
    RequiresState <- OneRequiresState
    MaxOccurrences <- OneMaxOccurrences
    Tags = {"UNTRUSTED_WEB"}
    Produces <- NoTags
    Disallowed <- NoTags
    AuditorOn = FALSE
    MaxInFlight = 2
    UniqueIds = TRUE
CHECK_DEADLOCK FALSE
SYMMETRY Symmetry
PROPERTIES MovesFollowGraph
