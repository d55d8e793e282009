\* Two sessions, so answers of the first arrive during the second; one
\* change of the gateway's orders, by a write or by itself.  The page rests once
\* the last session has ended.
CONSTANTS
    MaxSessions = 2
    MaxWrites = 1
SPECIFICATION FairSpec
INVARIANTS TypeOK OnlyOwnData FreshestShown ReadsOwnWrites
PROPERTIES SessionEndsForCause ExpiredSessionEnds
CHECK_DEADLOCK FALSE
