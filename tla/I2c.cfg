SPECIFICATION Spec
CONSTANTS
    NumClients = 2
    PoolSize = 2
    TokenMax = 3
    Shapes <- SmallShapes
INVARIANT TypeOK
INVARIANT ListMatchesBus
INVARIANT StatusTruthful
PROPERTY CompleteMeansWhole
PROPERTY ImplementsBus
PROPERTY EveryTransferEnds
