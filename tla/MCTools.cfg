SPECIFICATION ToolsSpec
CONSTANTS
  Issuers = {i1, i2}
  Caches = {cache}
  CacheOf <- OneCache
  NoOne = NoOne
  MaxKeys = 3
  Passes = {p1, p2}
  Connections = {zai, glm}
  Untold = {glm}
  MaxWindows = 2
  MaxPasses = 3
  e1 = e1
  e2 = e2
  n1 = n1
  n2 = n2
  Emails = {e1, e2}
  NoEmail = NoEmail
  CodexNames = {n1, n2}
  PreferredName <- ThePreferredName
  DerivedName <- TheDerivedName
  NoName = NoName
  LocalName = LocalName
  LocalCombo = LocalCombo
  ComboNames = {combo}
  Contexts = {1, 2}
  MaxId = 3
  MaxChanges = 2
  Services = {"omniroute", "remote_setup", "system_one", "phoenix"}
  SystemOneServices = {"system_one", "phoenix"}
  Default <- TheDefault
  CpuFloor = 8
  MemoryFloor = 4
  Hosts <- TheHosts
  Amounts = {0, 6}
  Overridden = {"system_one"}
  MaxSet = 2
  dense = dense
  moe = moe
  small = small
  Models = {dense, moe, small}
  Weights <- TheWeights
  Layers <- TheLayers
  Experts <- TheExperts
  CpuMoe <- TheCpuMoe
  Ctx = 10
  Ubatch = 3
  Window = 2
  Pad = 4
  MiB = 4
  Overhead = 1
  Spike = 1
  ReserveFloor = 2
  SystemOneVram = 5
  Vram = 26
  Ceilings = {0, 20}
  CompositorUses = {0, 4}
  MemoryPcts = {10, 46}
  b1 = b1
  b2 = b2
  Entries <- TheEntries
  ClientMax = 4
  Depths = {7}
  BenchPrompt = 1
  Filers = {w1, w2}
  MaxEdits = 2
  MaxWrites = 3
  LocalProvider = local
  Alias = alias
  cloud = cloud
  codex = codex
  big = big
  sol = sol
  Catalogs <- TheCatalogs
  Combos <- TheCombos
  Corrected <- TheCorrected
  DefaultOutput = 5
  Watched = {laya, llm}
  Laya = laya
  MaxClock = 2
  MaxPressure = 1
  MaxStarts = 1
INVARIANTS OneKeyPerCache OneCardPerWindow KnownOthersKeepTokens NothingTwice RestoreIsWhole CapsNeverVanish BudgetIsRight UsableIsMeasured ClientsStayWithin
CHECK_DEADLOCK FALSE
