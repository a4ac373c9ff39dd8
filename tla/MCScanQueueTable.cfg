SPECIFICATION Spec
CONSTANTS
    MaxHeight = 3
    EntryPriorities <- MCEntryPriorities
    RetainPriorities <- MCRetainPriorities
INVARIANTS TypeOK ScannedRowsMaximal
PROPERTY ImplementsCells
VIEW RowsView
