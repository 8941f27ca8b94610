SPECIFICATION RoundsFairSpec
CONSTANTS
    Ordinary = {"buzz"}
    Operations = {"pause", "resume", "backfill"}
    MaxCrashes = 1
INVARIANTS
    RoundsSafe
    NothingForgotten
    NoLostWakeup
PROPERTIES
    FenceMovesOn
    EventuallyTaken
