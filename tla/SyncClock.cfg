\* Two runs of the clock, which keeps two values.
SPECIFICATION LiveSpec
CONSTANTS
    MaxValues = 2
    Interval = 3
    IntervalAtStart = 1
    MaxRuns = 2
    None = None
INVARIANTS TypeOK NeverOversleeps OnePingAtATime
PROPERTY FirstPingsEnd
CHECK_DEADLOCK FALSE
