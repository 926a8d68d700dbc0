SPECIFICATION LibrariesSpec
CONSTANTS
    Boots <- CatBoots
    MaxProduct = 4
    Builders <- CatBuilders
    Edges <- CatEdges
    MaxPath = 4
INVARIANTS
    ValidationExact
    FindersExact
    DerivedLawful
    StructuresLawful
    CatOwnershipExact
    WasmTypesExact
    WasmNumericsExact
    WasmValidatedRunsSafe
    WasmEvaluatorAgrees
    WasmStoreSound
    DlRunsExact
    HmInferenceSound
    AdtAnalysisExact
    AdtNamesResolve
CHECK_DEADLOCK FALSE
