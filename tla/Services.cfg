SPECIFICATION Spec
CONSTANTS
 Shapes <- MCShapes
 Specs <- MCSpecs
 MaxBars = 5
 Bins = 3
 Text = Text
 MacdFast = 1
 MacdSlow = 2
 MacdSignal = 2
 Tenkan = 1
 Kijun = 2
 SenkouB = 3
 DefaultFast = 1
 DefaultSlow = 2
 RsiPeriod = 2
CONSTANTS
 Threads = {t1, t2}
 AiModels = {m1}
 Orders <- MCOrders
 Null = Null
 Junk = Junk
 JsonNull = JsonNull
 Unhashable = Unhashable
 BlankKey = BlankKey
 Raises = Raises
 MaxPuts = 2
 MaxRestarts = 2
 MaxRequests = 1
CONSTANTS
 FirstDay = 0
 LastDay = 740
 Horizons = {14, 60}
CONSTANTS
 Tasks = {seeder, r1, r2}
 Seeder = seeder
 NasdaqAnswers <- MCNasdaq
 OtherAnswers <- MCOther
 KapAnswers <- MCKap
 Seed <- MCSeed
 Unreachable = Unreachable
 NoSector = NoSector
 Display <- MCDisplay
 Ticker <- MCTicker
 Named <- MCNamed
 SectorsOf <- MCSectors
 CountryKeys <- MCKeys
 Order <- MCOrder
 Alphabet <- MCAlphabet
 Live <- MCLive
 FewResults = 3
 SearchLimit = 4
 FacetLimit = 2
 MaxRefreshes = 3
CONSTANTS
 Feeds <- MCFeeds
 SymbolFeed <- MCSymbolFeed
 Cut <- MCCut
 NoLink = NoLink
 AiReplies <- MCReplies
 Unparsable = Unparsable
 NotAnObject = NotAnObject
 Raised = Raised
 NotANumber = NotANumber
 Infinite = Infinite
 NewsLimit = 2
 MaxFetches = 4
CONSTANTS
 SchedulerEnabled = TRUE
 Clients = {fh}
 MaxKills = 2
CONSTANTS
 Shares = {s1, s2}
 Lots <- MCLots
 NoField = NoField
 Upper <- MCUpper
 Prices = {3}
 NoPrice = NoPrice
 MaxLots = 2
CONSTANTS
 BistSymbols = {"THYAO.IS"}
 UsSymbols = {"SPY"}
 Numbers = {0, 2}
 NotFinite = NotFinite
 None = None
 Failed = Failed
 OrdersStored <- MCOrdersStored
CONSTANTS
 ChatReplies <- MCSaid
 MaxAsked = 2
CONSTANTS
 Workers = {w1, w2}
 Morning = {"morning_us"}
 Benchmarks <- MCBenchmarks
 WatchlistSymbols <- MCLists
 HoldingSymbols <- MCHoldings
 Markets <- MCMarkets
 NoQuote = NoQuote
 Missing = Missing
 DigestLimit = 2
 MaxReports = 2
 MaxClock = 1
SYMMETRY Symmetry
INVARIANTS
 ReportsAnnounced SummariesSound NewestServed
 SecretsSurviveRestart AssistantSound
 UniverseSound SearchSound
 DeliveredStored VerdictsSound ConsensusFair
 MigrationSafe PortfolioSound QuotesSound
 ChatSound
PROPERTIES
 IndicatorsSound NoRepaint CandlesConserved CrossesCaught CalendarSteady ClientsOutliveTasks
CHECK_DEADLOCK FALSE
