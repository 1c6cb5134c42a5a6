CONSTANTS
    move = move
    tag = tag
    Calls = {move, tag}
    Unread = {tag}
    Cost <- Costs
    MaxBucket = 4
    Copies = {0, 2}
    Faults <- FaultsMet
SPECIFICATION Spec
CHECK_DEADLOCK FALSE
INVARIANTS TypeOK RepeatsFollowServerErrors ThrottledOutMeansContended
PROPERTIES ImplementsContract CallsEnd
