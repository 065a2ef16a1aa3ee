SPECIFICATION MCPageSpec
CONSTANTS
    Columns <- MCColumns
    PageRows = {1, 2}
    NewRow = 3
    MaxOpenings = 2
    MaxOthers = 1
CHECK_DEADLOCK FALSE
INVARIANTS
    RowsKeepApart
    

    
