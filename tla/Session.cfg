CONSTANTS
    d1 = d1
    d2 = d2
    f1 = f1
    f2 = f2
    q1 = q1
    o1 = o1
    Db = Db
    Edit <- One
    File <- F1
    Quiet <- Q1
    Foreign <- O1
    May <- Everything

SPECIFICATION FairSpec
INVARIANTS QuitSubmits ChangesNamed BundleComplete  StartCatchesUp
PROPERTIES QuitEnds
