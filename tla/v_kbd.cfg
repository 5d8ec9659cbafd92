SPECIFICATION Spec
CONSTANTS
    MaxKeys = 1
    MaxJobs = 1
\* TLC stops at the first; each one alone, or -continue, shows the others.
INVARIANTS
    RestoredOnExit
    RunsInBackground
