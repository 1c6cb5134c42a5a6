CONSTANTS
    MaxEvents = 3
    WeekSlots = 4
SPECIFICATION Spec
INVARIANTS TypeOK PostedOnceInOrder QuietServersAreHealthy OneReport
PROPERTIES MondaysAreTried WorkerReturns HeardIsPosted
