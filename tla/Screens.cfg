CONSTANTS
    Screens <- All
    Start <- First
    May <- Both
    NoTimer = NoTimer
    NoList = NoList
    MaxChanges = 2
    Series <- One
    PayDays <- Days
    MonthLens <- Months
    Spans = {60, 200}
    Todays = {40, 160}
    MaxPayments = 4
    MaxScans = 2
    Section <- Secs
    NoSection = NoSection
    Entry <- Ents
    Home <- Homes
    Tag <- TwoTags
    Color = {"red"}
    FirstRows <- Rows
    MaxWrites = 2
    Statements <- TwoCards
    Alike <- Spellings
    FirstEntries <- Ledgers
    NoFile = NoFile
    MaxOpens = 2
    MaxEntries = 3
    Items = {1, 2, 3, 4}
    FirstIn = {1, 2, 3}
    PageSize = 2
    MaxLists = 2
    MaxSends = 3
    Entries = {1, 2}
    TagCount <- Tagged
    Levels = {0, 3}
    PageStep = 2
    Columns = {4, 5}
    NoCell = NoCell
    NoTag = NoTag
    NoAnchor = NoAnchor
    Reports <- SomeReports
    NoRequest = NoRequest
    MaxActs = 3
    EntryId = {e1, e2, e3}
    Old = {e3}
    Name = {n1}
    Content = {c1, c2}
    FileDays = 2
    MaxRows = 2
    FilesMay = {"crash", "gc"}
CHECK_DEADLOCK FALSE
SPECIFICATION Spec
INVARIANTS
    SettledIsShown
    DialogIsHeard
    MissingIsUnpaid
    SectionKnown
    EnteredOnce
    MissingOffered
    OneEntryPerItem
    DrawnIsHeld
    ReportShownIsCurrent
    RowsHaveFiles
PROPERTIES
    RenameIsExact
