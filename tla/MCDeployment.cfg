SPECIFICATION Spec
CONSTANTS
    Users = {"device", "gateway"}
    Budgets <- MCBudgets
CHECK_DEADLOCK FALSE
INVARIANTS
    InstalledWorks
PROPERTIES
    SeedIsWhole
    RerunPreserves
