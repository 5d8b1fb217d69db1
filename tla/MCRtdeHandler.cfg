SPECIFICATION Spec
CONSTANTS
    r1 = r1
    r2 = r2
    NoRecipe = none
    Recipes <- TwoRecipes
    Names <- SomeNames
    MaxFields = 2
    MaxBytes = 16
    MaxCalls = 3
    MaxStream = 2
SYMMETRY RecipeSymmetry
INVARIANT TypeOK
INVARIANT WholeValues
INVARIANT RightVariables
INVARIANT RegisteredIsAccepted
PROPERTY StartConfirmed
PROPERTY RegistrationConfirmed
CHECK_DEADLOCK FALSE
