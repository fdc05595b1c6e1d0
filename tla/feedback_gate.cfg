SPECIFICATION Spec
CHECK_DEADLOCK FALSE
CONSTANTS
    Categories = {"conversion_crash", "docx_structure", "table_parsing", "extension_ui", "visual_quality", "unknown"}
    ModelSignals <- MCModelSignals
    FirstClassifiers = {"jev", "model"}
    MaxJevAttempts = 3
    MaxFormatRetries = 1
    MaxTransportRetries = 2
INVARIANTS
    StoredResultReadsBack
    SchemaAgreesWithPolicy
    WorkIsWarranted
    RepairWithoutMarkdown
PROPERTIES
    EveryStepCounts
