SPECIFICATION WorkerSpec
CONSTANTS
    Absent = Absent  NotFetched = NotFetched  Missing = Missing
    NoText = NoText  NoLabel = NoLabel  NoDate = NoDate  Unreadable = Unreadable
    I1 = I1  I2 = I2  I3 = I3  V1 = V1  V2 = V2  T = T  T2 = T2
    D1 = D1  L1 = L1  C1 = C1  C2 = C2  S1 = S1  N1 = N1  N2 = N2  N3 = N3
    Row <- Movements
    Identified <- WithId
    Opening <- Openings
    Taxonomy <- Taxonomies
    NoTaxonomy = NoTaxonomy
    PageSize = 2
    MaxPages = 3
    MaxRows = 3
    MaxRefreshes = 2
    GroupCap = 2
    TotalCap = 3
    CardCap = 2
    Ask <- Asks
    SearchAnswer <- SearchAnswers
    StaticAnswer <- StaticAnswers
    SnapshotAnswer <- SnapshotAnswers
    EtfAnswer <- EtfAnswers
    EtfDataAnswer <- EtfDataAnswers
    StockAnswer <- StockAnswers
    ReportsAnswer <- ReportsAnswers
    CardsAnswer <- CardsAnswers
    ClientTimeout <- Timeouts
    HttpTimeout = 30
    Attempts = 3
INVARIANTS
    NamesFollowTaxonomy
    DividendsAddUp
    OneInstrument
    SectionsAccounted
    FieldsAgree
    ReadsFitTimeout
    ListsDropOnlyAtCap
PROPERTY
    StatementIsWhole
CHECK_DEADLOCK FALSE
