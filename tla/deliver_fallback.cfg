SPECIFICATION FairSpec
CONSTANTS
    m1 = m1
    Messages = {m1}
    Plans <- TypicalPlans
    MaxChanges = 1
INVARIANTS TakenOnce OutcomeTrue PriorityKept
PROPERTY Concludes
CHECK_DEADLOCK FALSE
