SPECIFICATION PollSpec
CONSTANTS
    Fds = {0, 1, 2}
    EmptyFirst = FALSE
INVARIANTS
    IndexMatchesArray
PROPERTIES
    PollImplementsPoller
