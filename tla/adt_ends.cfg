SPECIFICATION LibrariesSpec
CONSTANTS
    Boots <- CatBoots
    MaxProduct = 4
    Builders <- CatBuilders
    Edges <- CatEdges
    MaxPath = 4
INVARIANT
    AdtAnalysisEnds
CHECK_DEADLOCK FALSE
