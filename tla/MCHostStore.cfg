CONSTANTS
    Ids = {1, 2}
    Chains <- MCChains
    Workers = {"w1", "w2"}
    MaxBirths = 3
    MaxCommands = 5
SPECIFICATION Spec
INVARIANTS OwnSecret KeyringInStep
PROPERTIES ImportKeepsToItself
