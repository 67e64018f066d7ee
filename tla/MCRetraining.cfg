CONSTANTS
    Schedulers = {s1, s2}
    Intervals = {1, 2}
    Threshold = 1
    MaxJobs = 2
    MaxClock = 2
    MaxDisruptions = 1
    None = None
SPECIFICATION FairSpec
INVARIANTS
    AsksOncePerSlot
PROPERTIES
    ScheduledJobsAreDue
    EventJobsNeedEvents
    DueSlotsPass
