CONSTANTS
    Times = {"t1"}
    LatArgs = {"v1"}
    LonArgs = {"v1", "junk"}
    AltArgs = {"v1", "nan"}
    UnknownCommands = {"foo"}
    InboxBound = 2
    QueueBound = 2
SPECIFICATION Spec
INVARIANT EveryLineAnswered


