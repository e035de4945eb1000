SPECIFICATION FairSpec
CONSTANTS
    Plans <- MCPlans
    Names <- MCNames
    MaxHandlers = 2
    MAX_PACKET_ID = 3
INVARIANTS AckMatches PublishAccepted HandlersAgree  FilterMeans
PROPERTIES CallReturns LossNoticed
CHECK_DEADLOCK FALSE
