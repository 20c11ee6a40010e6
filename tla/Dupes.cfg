CONSTANTS
    short = short
    long = long
    NoSlot = NoSlot
    Entry <- Four
    Scores <- Flips
    Scored <- Even
    Alike <- Pairs
    Slot = {short, long}
    Covers <- Part
    May <- Anything
    MaxId = 2
    MaxChanges = 1

SPECIFICATION Spec
INVARIANTS VerdictsTrue LastCopyStays TableReloaded
PROPERTIES DoneIsDone
