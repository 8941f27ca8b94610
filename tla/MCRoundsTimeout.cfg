SPECIFICATION RoundsSpec
CONSTANTS
    Ordinary = {"members", "buzz"}
    Operations = {"backfill"}
    MaxCrashes = 0
PROPERTIES
    FailedIsRequeued
