SPECIFICATION Spec
CONSTANTS
    MaxKeys = 2
    MaxJobs = 3
INVARIANT LeftRawOnlyIfOvertaken
PROPERTY SignalEnds
