\* Four pids: enough for three shells and one child, so that every pid is
\* reused by several terminals and the process limit is reached.
SPECIFICATION FairSpec
CONSTANT NumPids = 4
INVARIANTS TypeOK CountOK StacksOK PidZeroReserved ContextOK DisplayOK ExitFlagOK
PROPERTIES OnlyRunningStackChanges DeferredExitHitsTarget TurnsComeCloser
           ImplementsStacks ImplementsSwitching
           RequestServed ExitServed ImplementsFairSwitching
