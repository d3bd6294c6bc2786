SPECIFICATION FairSpec
CONSTANTS
    inbox = inbox
    done = done
    draft = draft
    final = final
    f1 = f1
    f2 = f2
    a = a
    b = b
    c = c
    Runs = {r1, r2}
    Items = {f1, f2}
    Dirs <- AllDirs
    Names <- AllNames
    Placement <- There
    Ids <- SomeIds
    NoId = NoId
    Graphs <- SomeGraphs
    UserSteps = 1
    Given <- OnePathOrNone
    Gone = Gone
    None = None
CHECK_DEADLOCK FALSE
INVARIANTS TypeOK WalkInOrder SucceededRanAll RecordTells ActsOnItsFile CommentsKept
PROPERTIES RunEnds
