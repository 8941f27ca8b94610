SPECIFICATION RoundsSpec
CONSTANTS
    Ordinary = {"members", "buzz", "feishu"}
    Operations = {}
    MaxCrashes = 0
PROPERTIES
    RetryKept
