SPECIFICATION SpecServices
CONSTANTS
    Slots = {t1, t2}
    Limit = 2
    Estimate = 1
    MaxCost = 2
    MaxDay = 1
    MaxBlind = 1
    Fetches = {f1, f2}
    Activators = {a1, a2}
    Licences <- FourLicences
    MaxTime = 4
    MaxRestarts = 1
    MaxTries = 4
    Clients = {q1, q2}
    Users = {u1}
    Addresses = {i1, i2}
    NoUser = NoUser
    NoAddress = NoAddress
    Configs <- ThreeConfigs
    DefaultConfig <- Burst2
    MaxTaken = 3
    Streams = {s1}
    Warmers = {w1, w2}
    Models = {"gpt", "local"}
    DefaultModel = "default"
    PriceTables <- TwoTables
    DefaultPrice = 150
    Lengths = {1, 7998, 30000}
    MaxTokenLimit = 5000
    MaxChunks = 2
    d1 = d1
    d2 = d2
    l1 = l1
    urgent = urgent
    other = other
    Deciders = {d1, d2}
    Loaders = {l1}
    Tables <- AllTables
    Requests <- Prompts
    Words = {urgent, other}
    EmptyWord = EmptyWord
    Prefixes <- ModelPrefixes
    MaxLoads = 2
    MaxMatches = 1
CHECK_DEADLOCK FALSE
INVARIANTS CounterIsDays DailyOvershoot SnapshotInOrder NonceOnce EarlyStaysUsable PaidIsLicensed WithinRates UserPaysForAddress HoldCovers RoughNeverShort DecidesFirstFound
PROPERTIES ShownCatchesUp
