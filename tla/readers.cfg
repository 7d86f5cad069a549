\* One reader in each behaviour.  A page that was left may stop for good.
SPECIFICATION Spec
CONSTANTS
    None = None
    Nothing = Nothing
    NULL = NULL
    t1 = t1
    Tasks <- OneTask
    MaxPolls = 2
    f1 = f1
    f2 = f2
    Files <- TwoFiles
    Saved <- OneSaved
    PerPages = {1, 2}
    FirstSize = 1
    MaxLoads = 2
    MaxChanges = 1
    i1 = i1
    i2 = i2
    i3 = i3
    i4 = i4
    n1 = n1
    n2 = n2
    n3 = n3
    Ids <- FourIds
    Names <- ThreeNames
    NameOf <- NamesOfIds
    Digits <- DigitsOfNames
    Empty <- EmptyNames
    MaxFiles = 2
INVARIANTS
    TypeOK
    IntervalIsKnown
    QuietPageIsChosen
    PageSelectionIsShown
    ResultIsOfLatest
    StatisticsAreOfTheirTime
    CalculationIsOfItsTime
    AnswerIsOfOneSet
PROPERTIES
    PageCatchesUp
    ShownLoadsEnd
CHECK_DEADLOCK FALSE
