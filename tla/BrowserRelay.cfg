SPECIFICATION Spec
CONSTANTS
    Procs = {gateway, command}
    Urls <- MCUrls
    Elements <- MCElements
    Forms <- MCForms
    Loads <- MCLoads
    Texts = {"link"}
    None = None
    Torn = Torn
    MapOrder <- MCMapOrder
    MaxTargets = 2
    MaxRef = 14
    MaxRequests = 3
SYMMETRY Symmetry
INVARIANTS TypedWhereItWas ActiveTargetExists
PROPERTIES RefsKeepTheirMeaning
CHECK_DEADLOCK FALSE
