CONSTANTS
    NullV = NullV
    UndefV = UndefV
    TrueV = TrueV
    FalseV = FalseV
    NoIndex = NoIndex
    NQ = 2
    MaxRows = 1
    MaxChanges = 1
    Requests <- MCRequests
    DeclaredIndexes <- MCDeclaredIndexes
    IndexColumns <- MCIndexColumns
    TableColumns <- MCTableColumns
    EngineErrors <- MCEngineErrors


SPECIFICATION Spec

INVARIANT ShowIndexesListsIndexes
