\* start and stop at any time, three tasks, three failures.
CONSTANTS
    Tasks = {t1, t2, t3}
    NoTask = NoTask
    MaxFaults = 3
SPECIFICATION Spec
INVARIANTS TypeOK SingleLoop
PROPERTIES CancelledEnds Reconnects
\* when every task has ended nothing is left to do
CHECK_DEADLOCK FALSE
