INIT CloneInit
NEXT CloneNext
CONSTANTS
    Cloners = {"w1", "w2"}
    Template = "template"
    Crates <- MCCrates
    Foreign <- MCForeign
INVARIANTS
    WorkersBuildApart
CHECK_DEADLOCK FALSE
