\* Archive, ingestion, series, evidence, scoring, score snapshots, historical
\* evaluation, challenger and deployment, side by side: `part` picks one.
SPECIFICATION Spec
CONSTANTS
    x = x
    y = y
    z = z
    Writer = {x, y, z}
    MaxPuts = 2
    Run = {x, y, z}
    Batch <- Batches
    Cutoff = {1, 2, 3, 4}
    Book <- Editions
    Calendar <- Season
    ScopePriority <- Scopes2
    AnnualQuarter = 0
    MarketCap <- Caps
    WindowSize = 3
    Threshold = 10
    LastDay = 9
    Bundle <- Loads
    ShortWindow = 2
    MediumWindow = 3
    NewsWindow = 2
    Announced <- Announcements
    Absent = Absent
    Undefined = Undefined
    SignificantDigits = 3
    Offered <- Bundles
    Curve <- Curves
    Share <- Weights2
    Coverage <- Minima
    PolicyLimit <- Limits
    ConfidenceShare <- Terms
    Floors <- Hard
    Researcher = {x, y}
    NoItem = NoItem
    Unscored = Unscored
    Release <- Activations
    PolicyOf <- Policies
    Wanted <- Asked
    Supply <- Supplies
    MaxCommands = 3
    Builder = {x, y}
    Shipment <- Shipments
    Content <- Contents
    Present = {"past"}
    ResearchCutoffs <- Months
    ReturnCutoff = {7}
    LabelCutoff = {7}
    Contract <- Contracts
    ReturnHorizon = {1, 2}
    DevelopmentPercent = 0
    ValidationPercent = 50
    MinimumValidation = 1
    MinimumHoldout = 1
    MaxRuns = 1
    MaxFailures = 1
    Operator = {x, y}
    None = None
    Unsettled = Unsettled
    Candidate = {1, 2, 3}
    MaxCandidates = 2
    Weight <- Weights
    Component = {"growth", "quality"}
    ComponentScore <- ComponentScores
    ChampionScore <- ChampionScores
    Split <- Splits
    Primary <- TopTwo
    World = {1, 2, 3}
    Outcomes <- Futures
    Moment = {1, 2}
    Sha = {"former", "next"}
    Nowhere = Nowhere
    Installer = {x, y}
    Unit = {"cycle", "api"}
    Provisioned = {Nowhere, "former"}
    MaxOperations = 3
SYMMETRY Alike
INVARIANTS TypeOK StoredIsWhole RunTellsRows ReadersSeeLatest IdentityHistorySound MaturityIsSound SplitIsMature ResumeAgrees NoLookahead QuartersTellBooks EvidenceTellsSince ScoreOnScale  ComparableScores OneSession PromotedOnMerit  DeployedAsTold
PROPERTIES ImprovementPays FrozenOnceBuilt KeepsHoldoutPromise
CHECK_DEADLOCK FALSE
