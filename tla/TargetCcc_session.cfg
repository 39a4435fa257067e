SPECIFICATION Spec
CONSTANTS
    IdBits = 2
    Plans <- MCPlans
    Habits = {}
    Gap = 4
    Pool <- MCPool
    DaaRounds = 3
INVARIANTS AddressesAsAssigned LimitsAsSet  GetWhole ResetAsArmed
CHECK_DEADLOCK FALSE
