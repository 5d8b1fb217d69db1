SPECIFICATION Spec
CONSTANTS
    r1 = r1
    r2 = r2
    NoRecipe = none
    Recipes <- OneRecipe
    Names <- OutputNames
    MaxFields = 1
    MaxBytes = 16
    MaxCalls = 2
    MaxStream = 2
INVARIANT RegisteredDelivers
CHECK_DEADLOCK FALSE
