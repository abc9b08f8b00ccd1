CONSTANTS
    a = a
    b = b
    user = user
    token = token
    flag = flag
    Names = {a, b}
    Vars = {user, token, flag}
    Own = {user}
    NoVar = NoVar
    MaxWorkers = 2
    Lists <- MCLists
    StepLists <- MCStepLists
    Nil = Nil
    MaxTries = 2
    Comparisons = {"==", "!=", "<", ">="}
    MaxTokens = 7
SPECIFICATION MCSpec
INVARIANTS
    OwnVariables
    EveryAccountReported
    CrashNeedsConcurrency
    ConditionsAreStandard
PROPERTIES
    RunEnds
    AccountGetsShorter
    ImplementsBatch
