SPECIFICATION Spec
CONSTANTS
    Scenes <- MCScenes
CHECK_DEADLOCK FALSE
INVARIANTS
    ReportTells
