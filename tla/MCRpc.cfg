SPECIFICATION FairSpec
CONSTANTS
    Clients <- MCClients
    Plans <- MCPlans
INVARIANTS OwnReply  
 
CHECK_DEADLOCK FALSE
