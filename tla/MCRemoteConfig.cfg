SPECIFICATION FairRemoteSpec
CONSTANTS
  remote = remote
  Issuers = {c1, c2}
  Caches = {remote}
  CacheOf <- TheCaches
  NoOne = NoOne
  MasterKeys = {right, wrong}
  NoMaster = NoMaster
  MaxKeys = 2
  MaxRestarts = 1
INVARIANTS OneFetch AnswerIsLive SavedWasAccepted
PROPERTIES RequestsEnd
CHECK_DEADLOCK FALSE
