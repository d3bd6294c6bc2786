SPECIFICATION Spec
CONSTANTS
    Kinds = {"llm"}
    MaxNodes = 3
    MaxPages = 3
    None = None
CHECK_DEADLOCK FALSE
INVARIANTS TypeOK TwinsFromTwoPages SavedIsServed ShownIsTrue
 
