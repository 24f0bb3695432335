CONSTANT MaxStarts = 3
SPECIFICATION FairSpec
INVARIANTS TypeOK UpMeansServing ReleasedAfterTheLoops
PROPERTY StopReturns
\* Nothing is said of the process once it has used freed memory, and the host
\* may wait for the main thread forever (see StopReturns).
CHECK_DEADLOCK FALSE
