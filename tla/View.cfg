CONSTANTS
    e1 = e1
    e2 = e2
    e3 = e3
    e4 = e4
    A = A
    B = B
    x = x
    y = y
    None = None
    NoFilter = NoFilter
    TagFilter = TagFilter
    Entry <- Entries
    Section = {A, B}
    Value = {x, y}
    Home <- Homes
    Age <- AgesOf
    Like <- Words
    Tagged = {e1}
    Windows <- TwoWins
    Steps <- TwoSteps
    Before <- Starts
    May <- Anything
    MaxChanges = 1

SPECIFICATION Spec
INVARIANTS ShownIsAllElse FilterExact
