SPECIFICATION Spec
CONSTANTS
    tidy = tidy
    sort = sort
    inbox = inbox
    done = done
    draft = draft
    final = final
    Workflows = {tidy, sort}
    Def <- Defs
    Items = {f1, f2}
    Dirs <- AllDirs
    Names <- AllNames
    Slots = {s1, s2}
    MaxPending = 1
    UserSteps = 2
    UserPaths <- TheirPaths
    Faults <- PathsFail
    Book = Book
    BookPath = BookPath
    Gone = Gone
    NoPath = NoPath
    Idle = Idle
CHECK_DEADLOCK FALSE
INVARIANTS NoSelfTrigger
