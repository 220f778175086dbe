CONSTANTS
    Repetitions = 2
    MaxUnread = 2
    MinWorkflows = 2
    NoBudgets = "no budgets"
    WireSizes = {"response"}
    WorkSizes = {"read"}
    ResourceMetrics = {"idle"}
    referenceWorkflows <- Workflows
    Measurable <- MeasurableValues
    BudgetFiles <- Files
SPECIFICATION Spec
INVARIANTS
    NoOrphans
    SamplesTrusted
    CorpusLifetime
    GateExact
    WarnsExactly
    BaselineSound
PROPERTIES
    CommandExits
CHECK_DEADLOCK FALSE
