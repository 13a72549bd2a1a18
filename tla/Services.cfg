\* The services that share no state, one after the other.
SPECIFICATION MCSpec
CONSTANTS
  Parts = {"vectors", "files", "accounts", "chats", "scheduler", "webhooks", "analytics", "settings",
           "migrations", "requirements", "delivery", "splitting", "endpoints"}
  k1 = k1
  k2 = k2
  k3 = k3
  \* Two agents, two requests that interleave, three points in pages of two.
  NoOne = NoOne
  Tenants = {a, b}
  Callers = {t1, t2}
  Names <- MCNames
  Extra = {}
  Ids = {1, 2, 3}
  Models = {e1, e2}
  SizeOf <- MCSizeOf
  Page = 2
  Snapshots = {FALSE, TRUE}
  MaxCalls = 2
  MaxAgain = 1
  MaxSelections = 1
  MaxBreaks = 1
  \* A manager that moves and one that copies, files of the agent and of a conversation.
  Nothing = Nothing
  Managers = {"local", "cloud"}
  Moving = {"local"}
  Chats = {"chat"}
  FileNames = {"f"}
  Clients = {t1, t2}
  MaxEdits = 3
  MaxErrors = 1
  \* Two keys of users, two names, two requests at a time, four in all.
  Unset = Unset
  Uids = {a, b}
  UserNames = {"n1", "n2"}
  Requests = {t1, t2}
  MaxRequests = 4
  MaxMishaps = 1
  \* Two sessions of one conversation.
  Nowhere = Nowhere
  Rooms = {"room"}
  Sessions = {t1, t2}
  MaxOpens = 2
  MaxTurns = 2
  MaxVanish = 1
  \* Two replicas, two runs at a time, one agent that offers a procedure or none.
  Nil = Nil
  Replicas = {a, b}
  Cats = {"cat"}
  Tools = {"tool"}
  Runs = {t1, t2}
  Cycle = 1
  MaxChanges = 2
  MaxHalts = 1
  \* Two addresses, two requests at a time.
  Addresses = {"url1", "url2"}
  Editors = {t1, t2}
  MaxEvents = 5
  \* Two files, two updates at a time.
  Documents = {"d1", "d2"}
  Counters = {t1, t2}
  Amounts = {0, 1}
  MaxUpdates = 4
  \* Two versions of a plugin, three settings.
  NoValue = NoValue
  Default = "default"
  SettingKeys = {k1, k2, k3}
  Values = {"old", "new"}
  Versions = {1, 2}
  KeysOf <- MCKeysOf
  Refused <- MCRefused
  Required = {}
  Chores = {t1, t2}
  MaxChores = 4
  \* Two commands at a time, two revisions.
  Operators = {t1, t2}
  MaxRevisions = 2
  MaxCommands = 3
  MaxCuts = 1
  \* Two server processes, two versions of a plugin, the second of which needs more.
  Nobody = Nobody
  Servers = {t1, t2}
  Packages = {"x", "y"}
  Releases = {1, 2}
  Needs <- MCNeeds
  MaxReplaces = 1
  MaxActivations = 3
  MaxTroubles = 2
  \* Two clients of one conversation on two replicas, one turn.
  Http = Http
  Sockets = {t1, t2}
  Pods = {a, b}
  Talks = {"room"}
  TokenShapes <- MCTokens
  Reported = {"tool"}
  MaxConnects = 2
  MaxSpeeches = 1
  MaxAsked = 1
  MaxTokens = 2
  MaxFalls = 1
  \* All pairs of chunks of up to three words, of a short and a long one.
  MinChunk = 5
  MaxMerge = 20
  MaxInput = 3
  Sample = 2
  WordSizes = {2, 13}
  Blanks = {0, 6}
  MaxWords = 3
  MaxChunks = 2
  \* Two plugins, two editions, two requests at a time.
  Extensions = {"p", "q"}
  Editions = {1, 2}
  Offers <- MCOffers
  DependsOn <- MCDependsOn
  Admins = {t1, t2}
  MaxOrders = 4
  MaxRestarts = 1
  MaxMisses = 1
SYMMETRY MCSymmetry
\* Once the bounded requests are served, nothing happens.
CHECK_DEADLOCK FALSE
INVARIANTS WalkComplete Ready FilesKept UniqueNames Alternates ToolsMatch OnceEach TotalsAgree SavedKept
           SchemaMatches RequirementsMet Streamed Split Served
PROPERTIES TenantsApart AppendsKept
