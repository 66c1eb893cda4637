\* Two runs that take two of three challenges at a time.
SPECIFICATION FairSpec
CONSTANTS
    Run = {r1, r2}
    Challenges = 3
    LIMIT = 2
    Drafts <- MCDrafts
    MaxTime = 2
    MaxEdits = 1
    MaxFails = 1
INVARIANT Inv
PROPERTIES SchedulesDone ClosesLast
