CONSTANTS
    DataTypes = {"int"}
    MaxArgs = 1
SPECIFICATION Spec
INVARIANT TypedUseChecks
INVARIANT CastAccessSafe
