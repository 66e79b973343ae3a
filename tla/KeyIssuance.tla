----------------------------- MODULE KeyIssuance -----------------------------
(***************************************************************************)
(* ensure_api_key of pylib/remote_setup.py: threads and processes that     *)
(* need an OmniRoute API key share one through a cache file.  The locks    *)
(* around the sequence read, list, create, write belong to the cache; a    *)
(* process that dies gives its locks up.  OmniRoute may fail any request,  *)
(* and may have carried out one whose answer is lost.                      *)
(***************************************************************************)
EXTENDS Naturals, FiniteSets

CONSTANTS
  Issuers,   \* callers of ensure_api_key
  Caches,    \* cache files, each with a key name of its own
  CacheOf,   \* the cache a caller uses
  NoOne,
  MaxKeys    \* bound: keys OmniRoute ever makes

ASSUME KeyAssumption ==
  /\ CacheOf \in [Issuers -> Caches]
  /\ NoOne \notin Issuers
  /\ MaxKeys \in Nat

NoKey == 0

VARIABLES
  keys,     \* OmniRoute's keys: of each cache's name, the ones it has
  minted,   \* number of keys made
  files,    \* the cache files; NoKey is none, or one that cannot be parsed
  flock,    \* who holds the locks of a cache
  step,     \* where each caller is
  held,     \* the key each caller has read or made
  astray    \* history: keys whose answer was lost, or who made them did not
            \* live to write down

keyVars == <<keys, minted, files, flock, step, held, astray>>

Live == UNION {keys[c] : c \in Caches}

Callers(s) == {i \in Issuers : step[i] = s}

-----------------------------------------------------------------------------
(* One call, by caller i.                                                  *)

\* Only a call that succeeds has a key to show for it.
Stop(i, s) == /\ step' = [step EXCEPT ![i] = s]
              /\ flock' = [flock EXCEPT ![CacheOf[i]] = NoOne]
              /\ held' = [held EXCEPT ![i] = IF s = "ok" THEN @ ELSE NoKey]

\* Mutant: every caller opens the file, none waits.
TakeNoLock(i) ==
  /\ step[i] = "lock"
  /\ step' = [step EXCEPT ![i] = "read"]
  /\ UNCHANGED <<keys, minted, files, flock, held, astray>>

\* _key_issuance_lock and the flock of the cache's sibling.
TakeLock(i) ==
  /\ step[i] = "lock" /\ flock[CacheOf[i]] = NoOne
  /\ flock' = [flock EXCEPT ![CacheOf[i]] = i]
  /\ step' = [step EXCEPT ![i] = "read"]
  /\ UNCHANGED <<keys, minted, files, held, astray>>

\* An exception leaves both locks; what was made stays made.
Refused(i) ==
  /\ step[i] \in {"read", "list", "create", "write"}
  /\ Stop(i, "failed")
  /\ astray' = IF step[i] = "write" THEN astray \cup {held[i]} ELSE astray
  /\ UNCHANGED <<keys, minted, files>>

\* Log in, read the cache.
ReadCache(i) ==
  /\ step[i] = "read"
  /\ held' = [held EXCEPT ![i] = files[CacheOf[i]]]
  /\ step' = [step EXCEPT ![i] = IF files[CacheOf[i]] = NoKey THEN "create"
                                                              ELSE "list"]
  /\ UNCHANGED <<keys, minted, files, flock, astray>>

\* Mutant: a cached key is not looked for.
TrustCache(i) ==
  /\ step[i] = "list"
  /\ Stop(i, "ok")
  /\ UNCHANGED <<keys, minted, files, astray>>

\* Is the cached key still one of OmniRoute's?
ListKeys(i) ==
  /\ step[i] = "list"
  /\ IF held[i] \in Live
     THEN Stop(i, "ok")
     ELSE step' = [step EXCEPT ![i] = "create"] /\ UNCHANGED <<flock, held>>
  /\ UNCHANGED <<keys, minted, files, astray>>

\* OmniRoute makes the key; its answer arrives usable, or not.
CreateKey(i) ==
  /\ step[i] = "create" /\ minted < MaxKeys
  /\ minted' = minted + 1
  /\ keys' = [keys EXCEPT ![CacheOf[i]] = @ \cup {minted + 1}]
  /\ \/ /\ held' = [held EXCEPT ![i] = minted + 1]
        /\ step' = [step EXCEPT ![i] = "write"]
        /\ UNCHANGED <<flock, astray>>
     \/ /\ astray' = astray \cup {minted + 1}
        /\ Stop(i, "failed")
  /\ UNCHANGED files

\* write_cached_key replaces the file as a whole.
WriteCache(i) ==
  /\ step[i] = "write"
  /\ files' = [files EXCEPT ![CacheOf[i]] = held[i]]
  /\ Stop(i, "ok")
  /\ UNCHANGED <<keys, minted, astray>>

\* The processes of these callers are gone, and their locks with them.
Died(I) ==
  /\ step' = [i \in Issuers |-> IF i \in I THEN "off" ELSE step[i]]
  /\ flock' = [c \in Caches |-> IF flock[c] \in I THEN NoOne ELSE flock[c]]
  /\ astray' = astray \cup {held[i] : i \in I \cap Callers("write")}
  /\ held' = [i \in Issuers |-> IF i \in I THEN NoKey ELSE held[i]]
  /\ UNCHANGED <<keys, minted, files>>

Begin(i) == /\ step[i] \in {"off", "ok", "failed"}
            /\ step' = [step EXCEPT ![i] = "lock"]
            /\ held' = [held EXCEPT ![i] = NoKey]
            /\ UNCHANGED <<keys, minted, files, flock, astray>>

Issue(i) == \/ TakeLock(i) \/ ReadCache(i) \/ ListKeys(i) \/ CreateKey(i)
            \/ WriteCache(i) \/ Refused(i)

-----------------------------------------------------------------------------
(* The dashboard (external).                                               *)

Revoke == /\ \E c \in Caches, k \in Live :
               k \in keys[c] /\ keys' = [keys EXCEPT ![c] = @ \ {k}]
          /\ UNCHANGED <<minted, files, flock, step, held, astray>>

-----------------------------------------------------------------------------
Steps == {"off", "lock", "read", "list", "create", "write", "ok", "failed"}

KeyInit ==
  /\ keys = [c \in Caches |-> {}] /\ minted = 0
  /\ files = [c \in Caches |-> NoKey]
  /\ flock = [c \in Caches |-> NoOne]
  /\ step = [i \in Issuers |-> "off"]
  /\ held = [i \in Issuers |-> NoKey]
  /\ astray = {}

\* Processes that come and go (llmenv omniroute issue-key).
KeyNext == \/ \E i \in Issuers : Begin(i) \/ Issue(i) \/ Died({i})
           \/ Revoke

KeySpec == KeyInit /\ [][KeyNext]_keyVars

KeyTypeOK ==
  /\ keys \in [Caches -> SUBSET (1 .. minted)] /\ minted \in 0 .. MaxKeys
  /\ files \in [Caches -> 0 .. minted]
  /\ flock \in [Caches -> Issuers \cup {NoOne}]
  /\ step \in [Issuers -> Steps] /\ held \in [Issuers -> 0 .. minted]
  /\ astray \in SUBSET (0 .. minted)

\* However many threads and processes ask at once, OmniRoute has one key of a
\* cache's name, but for those whose answer or writer was lost: no caller
\* makes a key while another is making one or one is on file.
\* (_key_issuance_lock, _cache_file_lock, the listing)
OneKeyPerCache ==
  \A c \in Caches : Cardinality(keys[c] \ astray) <= 1
=============================================================================
