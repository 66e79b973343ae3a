------------------------ MODULE RemoteConfig_proofs ------------------------
(***************************************************************************)
(* The key cache and the remote-setup service, for any number of callers,   *)
(* caches, keys, clients and restarts.                                      *)
(*                                                                         *)
(* The key cache: the lock makes the sequence read, list, create, write one *)
(* caller's at a time; the file names the one key that counts, except       *)
(* between the answer that brings a new one and the write: there the caller *)
(* has it.                                                                 *)
(*                                                                         *)
(* The service: its workers never overlap, and as issuers of keys they keep *)
(* the invariant of the key cache.  A worker's steps through ensure_api_key *)
(* lie between its start and its end, so a thread that is no longer one     *)
(* holds no lock, and what it holds it has seen alive since its request.    *)
(***************************************************************************)
EXTENDS RemoteConfig, FiniteSetTheorems, TLAPS

-----------------------------------------------------------------------------
(* The key cache.                                                          *)

KeyTyped ==
  /\ minted \in Nat
  /\ keys \in [Caches -> SUBSET (1 .. minted)]
  /\ files \in [Caches -> Nat]
  /\ flock \in [Caches -> Issuers \cup {NoOne}]
  /\ step \in [Issuers -> Steps]
  /\ held \in [Issuers -> Nat]

\* The steps taken under the locks.
Locked == {"read", "list", "create", "write"}

LockHeld == \A i \in Issuers : step[i] \in Locked => flock[CacheOf[i]] = i

\* The keys that count.
Kept(c) == keys[c] \ astray

\* Nobody has made a key that is not on file yet.
Filed(c) == \A i \in Issuers : CacheOf[i] = c => step[i] # "write"

FileHasIt   == \A c \in Caches : Filed(c) => Kept(c) \subseteq {files[c]}
WriterHasIt == \A i \in Issuers : step[i] = "write" => Kept(CacheOf[i]) \subseteq {held[i]}
NobodyHasIt == \A i \in Issuers : step[i] = "create" => Kept(CacheOf[i]) = {}
ReaderKnows == \A i \in Issuers : step[i] = "list" => held[i] = files[CacheOf[i]]

KeyInv == KeyTyped /\ LockHeld /\ FileHasIt /\ WriterHasIt /\ NobodyHasIt /\ ReaderKnows

\* The lock has one holder, and the others of its cache stand outside.
LEMMA OneInside ==
  ASSUME KeyInv, NEW i \in Issuers, NEW j \in Issuers, step[i] \in Locked,
         step[j] \in Locked, CacheOf[i] = CacheOf[j]
  PROVE  i = j
BY DEF KeyInv, LockHeld

LEMMA KeyInitial == KeyInit => KeyInv
<1> SUFFICES ASSUME KeyInit PROVE KeyInv
  OBVIOUS
<1>1. KeyTyped
  BY DEF KeyInit, KeyTyped, Steps, NoKey
<1>2. LockHeld /\ FileHasIt /\ WriterHasIt /\ NobodyHasIt /\ ReaderKnows
  BY KeyAssumption DEF KeyInit, LockHeld, Locked, FileHasIt, WriterHasIt,
                       NobodyHasIt, ReaderKnows, Kept
<1> QED
  BY <1>1, <1>2 DEF KeyInv

LEMMA CountOne ==
  ASSUME NEW S, NEW x, S \subseteq {x}
  PROVE  Cardinality(S) <= 1
<1>1. IsFiniteSet({x}) /\ Cardinality({x}) = 1
  BY FS_Singleton
<1> QED
  BY <1>1, FS_Subset

LEMMA KeptIsOne == KeyInv => OneKeyPerCache
<1> SUFFICES ASSUME KeyInv, NEW c \in Caches PROVE Cardinality(keys[c] \ astray) <= 1
  BY DEF OneKeyPerCache
<1>1. CASE Filed(c)
  BY <1>1, CountOne DEF KeyInv, FileHasIt, Kept
<1>2. CASE ~Filed(c)
  <2>1. PICK i \in Issuers : CacheOf[i] = c /\ step[i] = "write"
    BY <1>2 DEF Filed
  <2>2. keys[c] \ astray \subseteq {held[i]}
    BY <2>1 DEF KeyInv, WriterHasIt, Kept
  <2> QED
    BY <2>2, CountOne
<1> QED
  BY <1>1, <1>2

\* Steps that make no key and write none down.
LEMMA CallerSteps ==
  ASSUME KeyInv, NEW i \in Issuers, Begin(i) \/ TakeLock(i) \/ ReadCache(i) \/ ListKeys(i)
  PROVE  KeyInv'
<1> USE KeyAssumption DEF KeyInv, KeyTyped
<1>0. CacheOf[i] \in Caches /\ UNCHANGED <<keys, minted, files, astray>>
  BY DEF Begin, TakeLock, ReadCache, ListKeys
<1>1. CASE Begin(i)
  <2>1. KeyTyped' /\ LockHeld'
    BY <1>0, <1>1 DEF Begin, Steps, NoKey, LockHeld, Locked
  <2>2. FileHasIt' /\ WriterHasIt' /\ NobodyHasIt' /\ ReaderKnows'
    BY <1>0, <1>1 DEF Begin, FileHasIt, WriterHasIt, NobodyHasIt, ReaderKnows, Filed, Kept
  <2> QED
    BY <2>1, <2>2
<1>2. CASE TakeLock(i)
  <2>1. KeyTyped' /\ LockHeld'
    BY <1>0, <1>2 DEF TakeLock, Steps, LockHeld, Locked
  <2>2. FileHasIt' /\ WriterHasIt' /\ NobodyHasIt' /\ ReaderKnows'
    BY <1>0, <1>2 DEF TakeLock, FileHasIt, WriterHasIt, NobodyHasIt, ReaderKnows, Filed, Kept
  <2> QED
    BY <2>1, <2>2
<1>3. CASE ReadCache(i)
  <2>1. KeyTyped' /\ LockHeld'
    BY <1>0, <1>3 DEF ReadCache, Steps, LockHeld, Locked
  <2>2. Filed(CacheOf[i])
    BY <1>3, OneInside DEF ReadCache, Filed, Locked
  <2>3. files[CacheOf[i]] = NoKey => Kept(CacheOf[i]) = {}
    BY <1>0, <2>2 DEF FileHasIt, Kept, NoKey
  <2>4. FileHasIt' /\ WriterHasIt' /\ NobodyHasIt' /\ ReaderKnows'
    BY <1>0, <1>3, <2>3
       DEF ReadCache, FileHasIt, WriterHasIt, NobodyHasIt, ReaderKnows, Filed, Kept
  <2> QED
    BY <2>1, <2>4
<1>4. CASE ListKeys(i)
  <2>1. Filed(CacheOf[i])
    BY <1>4, OneInside DEF ListKeys, Filed, Locked
  <2>2. CASE held[i] \in Live
    <3>1. KeyTyped' /\ LockHeld'
      BY <1>0, <1>4, <2>2, OneInside DEF ListKeys, Stop, Steps, LockHeld, Locked, NoKey
    <3>2. FileHasIt' /\ WriterHasIt' /\ NobodyHasIt' /\ ReaderKnows'
      BY <1>0, <1>4, <2>2 DEF ListKeys, Stop, FileHasIt, WriterHasIt, NobodyHasIt,
                              ReaderKnows, Filed, Kept
    <3> QED
      BY <3>1, <3>2
  <2>3. CASE held[i] \notin Live
    <3>1. Kept(CacheOf[i]) = {}
      <4>1. held[i] = files[CacheOf[i]] /\ Kept(CacheOf[i]) \subseteq {held[i]}
        BY <1>0, <1>4, <2>1 DEF ListKeys, ReaderKnows, FileHasIt
      <4>2. held[i] \notin keys[CacheOf[i]]
        BY <1>0, <2>3 DEF Live
      <4> QED
        BY <4>1, <4>2 DEF Kept
    <3>2. KeyTyped' /\ LockHeld'
      BY <1>0, <1>4, <2>3 DEF ListKeys, Steps, LockHeld, Locked
    <3>3. FileHasIt' /\ WriterHasIt' /\ NobodyHasIt' /\ ReaderKnows'
      BY <1>0, <1>4, <2>3, <3>1 DEF ListKeys, FileHasIt, WriterHasIt, NobodyHasIt,
                                    ReaderKnows, Filed, Kept
    <3> QED
      BY <3>2, <3>3
  <2> QED
    BY <2>2, <2>3
<1> QED
  BY <1>1, <1>2, <1>3, <1>4

\* OmniRoute makes a key: only for who has found that there is none.
LEMMA CreateStep ==
  ASSUME KeyInv, NEW i \in Issuers, CreateKey(i)
  PROVE  KeyInv'
<1> USE KeyAssumption DEF KeyInv, KeyTyped
<1> DEFINE c == CacheOf[i]
<1>1. c \in Caches /\ Kept(c) = {} /\ step[i] = "create"
  BY DEF CreateKey, NobodyHasIt
<1>2. Filed(c)
  BY <1>1, OneInside DEF Filed, Locked
<1>3. /\ minted' = minted + 1 /\ minted' \in Nat
      /\ keys' = [keys EXCEPT ![c] = @ \cup {minted + 1}]
      /\ UNCHANGED files
  BY DEF CreateKey
<1>4. keys' \in [Caches -> SUBSET (1 .. minted')]
  <2>1. keys[c] \cup {minted + 1} \in SUBSET (1 .. minted')
    BY <1>1, <1>3
  <2>2. \A d \in Caches : keys[d] \in SUBSET (1 .. minted')
    BY <1>3
  <2> QED
    BY <1>1, <1>3, <2>1, <2>2
<1>5. ASSUME NEW d \in Caches, d # c PROVE keys'[d] = keys[d]
  BY <1>3, <1>5
<1>6. ASSUME NEW j \in Issuers, CacheOf[j] = c, j # i PROVE step[j] \notin Locked
  BY <1>1, <1>6, OneInside DEF Locked
<1>7. CASE held' = [held EXCEPT ![i] = minted + 1] /\ step' = [step EXCEPT ![i] = "write"]
           /\ UNCHANGED <<flock, astray>>
  <2>1. KeyTyped' /\ LockHeld'
    BY <1>1, <1>3, <1>4, <1>7 DEF Steps, LockHeld, Locked
  <2>2. keys'[c] \ astray' \subseteq {minted + 1}
    BY <1>1, <1>3, <1>7 DEF Kept
  <2>3. FileHasIt' /\ WriterHasIt' /\ NobodyHasIt' /\ ReaderKnows'
    BY <1>1, <1>3, <1>5, <1>6, <1>7, <2>2
       DEF FileHasIt, WriterHasIt, NobodyHasIt, ReaderKnows, Filed, Kept, Locked
  <2> QED
    BY <2>1, <2>3
<1>8. CASE astray' = astray \cup {minted + 1} /\ Stop(i, "failed")
  <2>1. KeyTyped' /\ LockHeld'
    BY <1>1, <1>3, <1>4, <1>6, <1>8 DEF Stop, Steps, LockHeld, Locked, NoKey
  <2>2. keys'[c] \ astray' = {}
    BY <1>1, <1>3, <1>8 DEF Kept
  <2>3. FileHasIt' /\ WriterHasIt' /\ NobodyHasIt' /\ ReaderKnows'
    BY <1>1, <1>3, <1>5, <1>6, <1>8, <2>2
       DEF Stop, FileHasIt, WriterHasIt, NobodyHasIt, ReaderKnows, Filed, Kept, Locked
  <2> QED
    BY <2>1, <2>3
<1> QED
  BY <1>7, <1>8 DEF CreateKey

LEMMA WriteStep ==
  ASSUME KeyInv, NEW i \in Issuers, WriteCache(i)
  PROVE  KeyInv'
<1> USE KeyAssumption DEF KeyInv, KeyTyped
<1> DEFINE c == CacheOf[i]
<1>1. c \in Caches /\ Kept(c) \subseteq {held[i]} /\ step[i] = "write"
  BY DEF WriteCache, WriterHasIt
<1>2. files' = [files EXCEPT ![c] = held[i]] /\ UNCHANGED <<keys, minted, astray>>
  BY DEF WriteCache
<1>3. /\ step' = [step EXCEPT ![i] = "ok"] /\ flock' = [flock EXCEPT ![c] = NoOne]
      /\ held' = held
  BY DEF WriteCache, Stop
<1>4. ASSUME NEW j \in Issuers, CacheOf[j] = c, j # i PROVE step[j] \notin Locked
  BY <1>1, <1>4, OneInside DEF Locked
<1>5. KeyTyped' /\ LockHeld'
  BY <1>1, <1>2, <1>3, <1>4 DEF Steps, LockHeld, Locked
<1>6. FileHasIt' /\ WriterHasIt' /\ NobodyHasIt' /\ ReaderKnows'
  BY <1>1, <1>2, <1>3, <1>4
     DEF FileHasIt, WriterHasIt, NobodyHasIt, ReaderKnows, Filed, Kept, Locked
<1> QED
  BY <1>5, <1>6

\* A refusal, or a death, after a key was made sets the key apart.
LEMMA RefusedStep ==
  ASSUME KeyInv, NEW i \in Issuers, Refused(i)
  PROVE  KeyInv'
<1> USE KeyAssumption DEF KeyInv, KeyTyped
<1> DEFINE c == CacheOf[i]
<1>1. c \in Caches /\ step[i] \in Locked /\ UNCHANGED <<keys, minted, files>>
  BY DEF Refused, Locked
<1>2. /\ step' = [step EXCEPT ![i] = "failed"] /\ flock' = [flock EXCEPT ![c] = NoOne]
      /\ held' = [held EXCEPT ![i] = NoKey]
  BY DEF Refused, Stop
<1>3. ASSUME NEW j \in Issuers, CacheOf[j] = c, j # i PROVE step[j] \notin Locked
  BY <1>1, <1>3, OneInside
<1>4. \A d \in Caches : Kept(d)' \subseteq Kept(d)
  BY <1>1 DEF Refused, Kept
<1>5. step[i] = "write" => Kept(c)' = {}
  BY <1>1 DEF Refused, WriterHasIt, Kept
<1>6. KeyTyped' /\ LockHeld'
  BY <1>1, <1>2, <1>3 DEF Steps, LockHeld, Locked, NoKey
<1>7. FileHasIt'
  BY <1>1, <1>2, <1>4, <1>5 DEF FileHasIt, Filed
<1>8. WriterHasIt' /\ NobodyHasIt' /\ ReaderKnows'
  BY <1>1, <1>2, <1>4 DEF WriterHasIt, NobodyHasIt, ReaderKnows
<1> QED
  BY <1>6, <1>7, <1>8

LEMMA DeathStep ==
  ASSUME KeyInv, NEW I \in SUBSET Issuers, Died(I)
  PROVE  KeyInv'
<1> USE KeyAssumption DEF KeyInv, KeyTyped
<1>1. UNCHANGED <<keys, minted, files>>
  BY DEF Died
<1>2. /\ step' = [i \in Issuers |-> IF i \in I THEN "off" ELSE step[i]]
      /\ flock' = [c \in Caches |-> IF flock[c] \in I THEN NoOne ELSE flock[c]]
      /\ held' = [i \in Issuers |-> IF i \in I THEN NoKey ELSE held[i]]
  BY DEF Died
<1>3. \A d \in Caches : Kept(d)' \subseteq Kept(d)
  BY <1>1 DEF Died, Kept
<1>4. \A i \in I : step[i] = "write" => Kept(CacheOf[i])' = {}
  BY <1>1 DEF Died, Callers, WriterHasIt, Kept
<1>5. KeyTyped' /\ LockHeld'
  BY <1>1, <1>2 DEF Steps, LockHeld, Locked, NoKey
<1>6. FileHasIt'
  <2> SUFFICES ASSUME NEW c \in Caches, Filed(c)' PROVE Kept(c)' \subseteq {files[c]}
    BY <1>1 DEF FileHasIt
  <2>1. CASE Filed(c)
    BY <1>3, <2>1 DEF FileHasIt
  <2>2. CASE ~Filed(c)
    <3>1. PICK i \in Issuers : CacheOf[i] = c /\ step[i] = "write"
      BY <2>2 DEF Filed
    <3>2. i \in I
      BY <1>2, <3>1 DEF Filed
    <3> QED
      BY <1>4, <3>1, <3>2
  <2> QED
    BY <2>1, <2>2
<1>7. WriterHasIt' /\ NobodyHasIt' /\ ReaderKnows'
  BY <1>1, <1>2, <1>3 DEF WriterHasIt, NobodyHasIt, ReaderKnows
<1> QED
  BY <1>5, <1>6, <1>7

LEMMA RevokeStep ==
  ASSUME KeyInv, Revoke
  PROVE  KeyInv'
<1> USE KeyAssumption DEF KeyInv, KeyTyped
<1>1. PICK c \in Caches, k \in Live : keys' = [keys EXCEPT ![c] = @ \ {k}]
  BY DEF Revoke
<1>2. UNCHANGED <<minted, files, flock, step, held, astray>>
  BY DEF Revoke
<1>3. \A d \in Caches : Kept(d)' \subseteq Kept(d)
  BY <1>1, <1>2 DEF Kept
<1>4. KeyTyped' /\ LockHeld'
  BY <1>1, <1>2 DEF LockHeld
<1>5. FileHasIt' /\ WriterHasIt' /\ NobodyHasIt' /\ ReaderKnows'
  BY <1>2, <1>3 DEF FileHasIt, WriterHasIt, NobodyHasIt, ReaderKnows, Filed
<1> QED
  BY <1>4, <1>5

LEMMA KeyInvIsKept == KeyInv /\ [KeyNext]_keyVars => KeyInv'
<1> SUFFICES ASSUME KeyInv, [KeyNext]_keyVars PROVE KeyInv'
  OBVIOUS
<1>1. CASE UNCHANGED keyVars
  BY <1>1 DEF keyVars, KeyInv, KeyTyped, LockHeld, FileHasIt, WriterHasIt, NobodyHasIt,
              ReaderKnows, Filed, Kept
<1>2. CASE Revoke
  BY <1>2, RevokeStep
<1>3. ASSUME NEW i \in Issuers, Begin(i) \/ Issue(i) \/ Died({i}) PROVE KeyInv'
  BY <1>3, CallerSteps, CreateStep, WriteStep, RefusedStep, DeathStep DEF Issue
<1> QED
  BY <1>1, <1>2, <1>3 DEF KeyNext

\* However many callers share however many caches, whoever dies and whatever
\* answers are lost: of the keys that were written down, OmniRoute has at most one
\* under each cache's name.  (ensure_api_key under _cache_file_lock)
THEOREM OneKey == KeySpec => []OneKeyPerCache
<1>1. KeyInv /\ [KeyNext]_keyVars => KeyInv'
  BY KeyInvIsKept
<1> QED
  BY <1>1, KeyInitial, KeptIsOne, PTL DEF KeySpec

-----------------------------------------------------------------------------
(* The workers of the service.                                             *)

WorkersTyped ==
  /\ worker \in [Clients -> Working \cup {"off", "error", "ready"}]
  /\ flight \in Clients \cup {NoOne}

\* Only a worker at its key is within ensure_api_key.
KeyWorkOnly == \A c \in Clients : worker[c] # "key" => step[c] = "off"

RemoteInv == KeyInv /\ WorkersTyped /\ OneFetch /\ KeyWorkOnly

\* What a caller that stands outside the locks knows may be forgotten.
LEMMA OutsideStep ==
  ASSUME KeyInv, NEW c \in Clients, step[c] \notin Locked,
         NEW s \in Steps \ Locked, NEW k \in {held[c], NoKey},
         step' = [step EXCEPT ![c] = s], held' = [held EXCEPT ![c] = k],
         UNCHANGED <<keys, minted, files, flock, astray>>
  PROVE  KeyInv'
<1> USE KeyAssumption DEF KeyInv, KeyTyped, Clients
<1>1. KeyTyped' /\ LockHeld'
  BY DEF LockHeld, NoKey
<1>2. FileHasIt' /\ WriterHasIt' /\ NobodyHasIt' /\ ReaderKnows'
  BY DEF FileHasIt, WriterHasIt, NobodyHasIt, ReaderKnows, Filed, Kept, Locked
<1> QED
  BY <1>1, <1>2

LEMMA SameKeys == KeyInv /\ UNCHANGED keyVars => KeyInv'
BY DEF keyVars, KeyInv, KeyTyped, LockHeld, FileHasIt, WriterHasIt, NobodyHasIt,
       ReaderKnows, Filed, Kept

LEMMA SameWorkers ==
  (WorkersTyped /\ OneFetch /\ KeyWorkOnly) /\ UNCHANGED <<worker, flight, step>>
    => (WorkersTyped /\ OneFetch /\ KeyWorkOnly)'
BY DEF WorkersTyped, OneFetch, KeyWorkOnly

LEMMA RemoteInitial == RemoteInit => RemoteInv
<1> SUFFICES ASSUME RemoteInit PROVE RemoteInv
  OBVIOUS
<1>1. KeyInv
  BY KeyInitial DEF RemoteInit
<1>2. WorkersTyped /\ OneFetch /\ KeyWorkOnly
  BY KeyAssumption DEF RemoteInit, KeyInit, WorkersTyped, OneFetch, KeyWorkOnly, Working,
                       Clients
<1> QED
  BY <1>1, <1>2 DEF RemoteInv

\* The script's steps, a refusal and a revocation leave the workers alone.
LEMMA ScriptSteps ==
  ASSUME RemoteInv, NEW c \in Clients, StartScript(c) \/ TakeAnswer(c) \/ RefuseRequest(c)
  PROVE  RemoteInv'
<1>1. UNCHANGED <<keyVars, worker, flight>>
  BY DEF StartScript, TakeAnswer, RefuseRequest, Send
<1> QED
  BY <1>1, SameKeys, SameWorkers DEF RemoteInv, keyVars

LEMMA StartWorkerStep ==
  ASSUME RemoteInv, NEW c \in Clients, StartWorker(c)
  PROVE  RemoteInv'
<1> USE KeyAssumption DEF RemoteInv
<1>1. /\ flight = NoOne /\ flight' = c
      /\ worker' = [worker EXCEPT ![c] = "key"]
      /\ step' = [step EXCEPT ![c] = "lock"]
      /\ UNCHANGED <<keys, minted, files, flock, held, astray>>
  BY DEF StartWorker
<1>2. \A d \in Clients : worker[d] \notin Working
  BY <1>1 DEF OneFetch, Clients
<1>3. step[c] = "off"
  BY <1>2 DEF KeyWorkOnly, Working
<1>4. KeyInv'
  <2>1. held' = [held EXCEPT ![c] = held[c]]
    BY <1>1 DEF KeyInv, KeyTyped, Clients
  <2> QED
    BY <1>1, <1>3, <2>1, OutsideStep DEF Steps, Locked
<1>5. WorkersTyped' /\ OneFetch'
  BY <1>1, <1>2 DEF WorkersTyped, OneFetch, Working, Clients
<1>6. KeyWorkOnly'
  BY <1>1 DEF WorkersTyped, KeyWorkOnly, KeyInv, KeyTyped, Clients
<1> QED
  BY <1>4, <1>5, <1>6

LEMMA JoinStep ==
  ASSUME RemoteInv, NEW c \in Clients, Join(c)
  PROVE  RemoteInv'
<1> USE KeyAssumption DEF RemoteInv
<1>1. /\ worker' = [worker EXCEPT ![c] = IF Ended(c) THEN "off" ELSE @]
      /\ held' = [held EXCEPT ![c] = IF Ended(c) THEN NoKey ELSE @]
      /\ UNCHANGED <<keys, minted, files, flock, step, astray, flight>>
  BY DEF Join
<1>2. KeyInv'
  <2>1. CASE Ended(c)
    <3>1. step[c] = "off"
      BY <2>1 DEF Ended, KeyWorkOnly
    <3>2. step' = [step EXCEPT ![c] = "off"]
      BY <1>1, <3>1 DEF KeyInv, KeyTyped, Clients
    <3> QED
      BY <1>1, <2>1, <3>1, <3>2, OutsideStep DEF Steps, Locked
  <2>2. CASE ~Ended(c)
    <3>1. held' = held
      BY <1>1, <2>2 DEF KeyInv, KeyTyped, Clients
    <3> QED
      BY <1>1, <3>1, SameKeys DEF keyVars
  <2> QED
    BY <2>1, <2>2
<1>3. WorkersTyped' /\ OneFetch' /\ KeyWorkOnly'
  BY <1>1 DEF WorkersTyped, OneFetch, KeyWorkOnly, Ended, Working, Clients
<1> QED
  BY <1>2, <1>3

\* A worker's end gives the flight back.
LEMMA WorkerStep ==
  ASSUME RemoteInv, NEW c \in Clients, WorkerGoesOn(c)
  PROVE  RemoteInv'
<1> USE KeyAssumption DEF RemoteInv
<1>1. /\ worker[c] \in Working /\ step[c] \in {"ok", "failed", "off"}
      /\ step' = [step EXCEPT ![c] = "off"]
      /\ UNCHANGED <<keys, minted, files, flock, astray>>
  BY DEF WorkerGoesOn, KeyWorkOnly, Working
<1>2. flight = c /\ \A d \in Clients : d # c => worker[d] \notin Working
  BY <1>1 DEF OneFetch
<1>3. CASE worker' = [worker EXCEPT ![c] = "combos"] /\ UNCHANGED <<held, flight>>
  <2>1. held' = [held EXCEPT ![c] = held[c]]
    BY <1>3 DEF KeyInv, KeyTyped, Clients
  <2>2. KeyInv'
    BY <1>1, <2>1, OutsideStep DEF Steps, Locked
  <2>3. WorkersTyped' /\ OneFetch' /\ KeyWorkOnly'
    BY <1>1, <1>2, <1>3 DEF WorkersTyped, OneFetch, KeyWorkOnly, Working, Clients,
                            KeyInv, KeyTyped
  <2> QED
    BY <2>2, <2>3
<1>4. ASSUME NEW state \in {"ready", "error"}, EndWorker(c, state) PROVE RemoteInv'
  <2>1. PICK s \in {"ready", "error", "off"} : worker' = [worker EXCEPT ![c] = s]
    BY <1>4 DEF EndWorker
  <2>2. flight' = NoOne
    BY <1>4 DEF EndWorker
  <2>3. PICK k \in {held[c], NoKey} : held' = [held EXCEPT ![c] = k]
    BY <1>4 DEF EndWorker
  <2>4. KeyInv'
    BY <1>1, <2>3, OutsideStep DEF Steps, Locked
  <2>5. WorkersTyped' /\ OneFetch'
    BY <1>2, <2>1, <2>2 DEF WorkersTyped, OneFetch, Working, Clients
  <2>6. KeyWorkOnly'
    BY <1>1, <2>1 DEF WorkersTyped, KeyWorkOnly, KeyInv, KeyTyped, Clients
  <2> QED
    BY <2>4, <2>5, <2>6
<1> QED
  BY <1>3, <1>4 DEF WorkerGoesOn

LEMMA IssueStep ==
  ASSUME RemoteInv, NEW c \in Clients, IssueKey(c)
  PROVE  RemoteInv'
<1> USE KeyAssumption DEF RemoteInv
<1>1. Issue(c) /\ UNCHANGED <<worker, flight>>
  BY DEF IssueKey, serverVars
<1>2. KeyInv'
  BY <1>1, CallerSteps, CreateStep, WriteStep, RefusedStep DEF Issue, Clients
<1>3. step[c] # "off" /\ \A d \in Clients : d # c => step'[d] = step[d]
  BY <1>1 DEF Issue, TakeLock, ReadCache, ListKeys, CreateKey, WriteCache, Refused, Stop,
              KeyInv, KeyTyped, Clients
<1>4. WorkersTyped' /\ OneFetch' /\ KeyWorkOnly'
  BY <1>1, <1>3 DEF WorkersTyped, OneFetch, KeyWorkOnly
<1> QED
  BY <1>2, <1>4

LEMMA RestartStep ==
  ASSUME RemoteInv, Restart
  PROVE  RemoteInv'
<1> USE KeyAssumption DEF RemoteInv
<1>1. /\ Died(Clients) /\ worker' = [c \in Clients |-> "off"] /\ flight' = NoOne
  BY DEF Restart
<1>2. KeyInv'
  BY <1>1, DeathStep DEF Clients
<1>3. WorkersTyped' /\ OneFetch' /\ KeyWorkOnly'
  BY <1>1 DEF Died, WorkersTyped, OneFetch, KeyWorkOnly, Working, Clients
<1> QED
  BY <1>2, <1>3

LEMMA RemoteInvIsKept == RemoteInv /\ [RemoteNext]_remoteVars => RemoteInv'
<1> SUFFICES ASSUME RemoteInv, [RemoteNext]_remoteVars PROVE RemoteInv'
  OBVIOUS
<1>1. CASE UNCHANGED remoteVars
  BY <1>1, SameKeys, SameWorkers DEF RemoteInv, remoteVars, keyVars, serverVars
<1>2. CASE Restart
  BY <1>2, RestartStep
<1>3. CASE Others
  <2>1. KeyInv'
    BY <1>3, RevokeStep DEF Others, RemoteInv
  <2>2. UNCHANGED <<worker, flight, step>>
    BY <1>3 DEF Others, serverVars, Revoke
  <2> QED
    BY <2>1, <2>2, SameWorkers DEF RemoteInv
<1>4. ASSUME NEW c \in Clients,
             \/ StartScript(c) \/ TakeAnswer(c) \/ Thread(c)
             \/ WorkerGoesOn(c) \/ IssueKey(c)
      PROVE  RemoteInv'
  BY <1>4, ScriptSteps, StartWorkerStep, JoinStep, WorkerStep, IssueStep DEF Thread
<1> QED
  BY <1>1, <1>2, <1>3, <1>4 DEF RemoteNext

\* The service never has two fetches at work, whatever times out and whenever it
\* is restarted, and the flight is held by nobody else.  (_config_flight)
THEOREM NoFetchOverlaps == RemoteSpec => []OneFetch
<1>1. RemoteInv => OneFetch
  BY DEF RemoteInv
<1> QED
  BY <1>1, RemoteInitial, RemoteInvIsKept, PTL DEF RemoteSpec

\* The workers of the service, those that outlive their requests among them, and
\* whatever else shares their cache leave OmniRoute with one key that counts.
\* (_fetch_config_inputs, ensure_api_key)
THEOREM ServiceKeepsOneKey == RemoteSpec => []OneKeyPerCache
<1>1. RemoteInv => OneKeyPerCache
  BY KeptIsOne DEF RemoteInv
<1> QED
  BY <1>1, RemoteInitial, RemoteInvIsKept, PTL DEF RemoteSpec

-----------------------------------------------------------------------------
(* What the script saves.                                                  *)

\* Keys that are safe to keep: NoMaster is no key.
Accepted == pastMasters \cup {NoMaster}

ScriptTyped ==
  /\ DOMAIN saved = Clients /\ DOMAIN http = Clients /\ DOMAIN script = Clients
  /\ DOMAIN request = Clients /\ DOMAIN offered = Clients

\* An offer that is being fetched for, or was answered with success, is the
\* master key of then.
OfferStands ==
  \A c \in Clients :
    request[c] = "join" \/ http[c].status = "200" => offered[c].key \in Accepted

\* There is no answer while a request is under way or no script runs.
AnswersAreRead ==
  \A c \in Clients : /\ script[c] # "answered" => http[c] = NoAnswer
                     /\ request[c] # "none" => script[c] = "sent"

SavedInv == /\ ScriptTyped /\ SavedWasAccepted /\ OfferStands /\ AnswersAreRead
            /\ master \in Accepted

LEMMA SavedInitial == RemoteInit => SavedInv
BY DEF RemoteInit, SavedInv, ScriptTyped, SavedWasAccepted, OfferStands, AnswersAreRead,
       Accepted, NoAnswer, Clients

LEMMA SavedIsKept ==
  ASSUME SavedInv, [RemoteNext]_remoteVars
  PROVE  SavedInv'
<1> USE DEF SavedInv, SavedWasAccepted, Accepted
<1>1. CASE UNCHANGED <<clientVars, request, master, pastMasters>>
  BY <1>1 DEF clientVars, ScriptTyped, OfferStands, AnswersAreRead
<1>2. ASSUME NEW c \in Clients, StartScript(c) PROVE SavedInv'
  <2>1. /\ script[c] = "off" /\ request' = [request EXCEPT ![c] = "route"]
        /\ script' = [script EXCEPT ![c] = "sent"]
        /\ saved' \in {saved, [saved EXCEPT ![c] = NoMaster]}
        /\ UNCHANGED <<http, master, pastMasters>>
    BY <1>2 DEF StartScript, Send
  <2>2. PICK o : offered' = [offered EXCEPT ![c] = o]
    BY <1>2 DEF StartScript, Send
  <2>3. ScriptTyped' /\ SavedWasAccepted'
    BY <2>1, <2>2 DEF ScriptTyped
  <2>4. OfferStands' /\ AnswersAreRead'
    BY <2>1, <2>2 DEF ScriptTyped, OfferStands, AnswersAreRead, NoAnswer
  <2> QED
    BY <2>1, <2>3, <2>4
<1>3. ASSUME NEW c \in Clients, TakeAnswer(c) PROVE SavedInv'
  <2>1. /\ script[c] = "answered" /\ http' = [http EXCEPT ![c] = NoAnswer]
        /\ UNCHANGED <<master, pastMasters>>
    BY <1>3 DEF TakeAnswer
  <2>2. request[c] = "none"
    BY <2>1 DEF AnswersAreRead
  <2>3. PICK s \in {NoMaster, SaveAccepted(c)} : saved' = [saved EXCEPT ![c] = s]
    BY <1>3 DEF TakeAnswer
  <2>4. s \in Accepted
    BY <2>3 DEF SaveAccepted, OfferStands
  <2>5. PICK o : offered' = [offered EXCEPT ![c] = o]
    BY <1>3 DEF TakeAnswer, Send
  <2>6. \/ /\ script' = [script EXCEPT ![c] = "sent"]
           /\ request' = [request EXCEPT ![c] = "route"]
        \/ script' = [script EXCEPT ![c] = "off"] /\ UNCHANGED request
    BY <1>3 DEF TakeAnswer, Send
  <2>7. ScriptTyped' /\ SavedWasAccepted'
    BY <2>1, <2>3, <2>4, <2>5, <2>6 DEF ScriptTyped
  <2>8. OfferStands' /\ AnswersAreRead'
    BY <2>1, <2>2, <2>5, <2>6 DEF ScriptTyped, OfferStands, AnswersAreRead, NoAnswer
  <2> QED
    BY <2>1, <2>7, <2>8
<1>4. ASSUME NEW c \in Clients, RefuseRequest(c) \/ Join(c) PROVE SavedInv'
  <2>1. PICK answer : Answer(c, answer) /\ (answer.status = "200" => request[c] = "join")
    <3> DEFINE ok(a) == Answer(c, a) /\ (a.status = "200" => request[c] = "join")
    <3>1. CASE RefuseRequest(c)
      <4>1. Answer(c, Failure) \/ Answer(c, [status |-> "401", key |-> NoKey])
        BY <3>1 DEF RefuseRequest
      <4>2. ok(Failure) \/ ok([status |-> "401", key |-> NoKey])
        BY <4>1 DEF Failure
      <4> QED
        BY <4>2
    <3>2. CASE Join(c)
      <4>1. ok(Failure) \/ ok([status |-> "200", key |-> held[c]])
        BY <3>2 DEF Join
      <4> QED
        BY <4>1
    <3> QED
      BY <1>4, <3>1, <3>2
  <2>2. answer.status = "200" => offered[c].key \in Accepted
    BY <2>1 DEF OfferStands
  <2>3. ScriptTyped' /\ SavedWasAccepted'
    BY <2>1 DEF Answer, ScriptTyped
  <2>4. OfferStands' /\ AnswersAreRead'
    BY <2>1, <2>2 DEF Answer, ScriptTyped, OfferStands, AnswersAreRead
  <2> QED
    BY <2>1, <2>3, <2>4 DEF Answer
<1>5. ASSUME NEW c \in Clients, StartWorker(c) PROVE SavedInv'
  <2>1. /\ request[c] = "route" /\ offered[c].key \in Accepted
        /\ request' = [request EXCEPT ![c] = "join"]
        /\ UNCHANGED <<clientVars, master, pastMasters>>
    BY <1>5 DEF StartWorker
  <2>2. ScriptTyped' /\ SavedWasAccepted'
    BY <2>1 DEF ScriptTyped, clientVars
  <2>3. OfferStands' /\ AnswersAreRead'
    BY <2>1 DEF ScriptTyped, OfferStands, AnswersAreRead, clientVars
  <2> QED
    BY <2>1, <2>2, <2>3
<1>6. ASSUME NEW c \in Clients, WorkerGoesOn(c) \/ IssueKey(c) PROVE SavedInv'
  BY <1>1, <1>6 DEF WorkerGoesOn, IssueKey, serverVars
<1>7. CASE Restart
  <2>1. /\ master' \in Accepted' /\ pastMasters \subseteq pastMasters'
        /\ request' = [c \in Clients |-> "none"]
        /\ script' = [c \in Clients |-> IF script[c] = "sent" THEN "off" ELSE script[c]]
        /\ UNCHANGED <<saved, http>>
    BY <1>7 DEF Restart
  <2>2. offered' = [c \in Clients |-> IF script[c] = "sent" THEN NoOffer ELSE offered[c]]
    BY <1>7 DEF Restart
  <2>3. ScriptTyped' /\ SavedWasAccepted'
    BY <2>1, <2>2 DEF ScriptTyped
  <2>4. OfferStands' /\ AnswersAreRead'
    BY <2>1, <2>2 DEF ScriptTyped, OfferStands, AnswersAreRead, NoAnswer
  <2> QED
    BY <2>1, <2>3, <2>4
<1>8. CASE Others \/ UNCHANGED remoteVars
  BY <1>1, <1>8 DEF Others, serverVars, remoteVars
<1> QED
  BY <1>2, <1>3, <1>4, <1>5, <1>6, <1>7, <1>8 DEF RemoteNext, Thread

\* A key in a script's cache was the server's when it was answered for, however the
\* server and its key have changed.  (SETUP_SCRIPT_TEMPLATE)
THEOREM OnlyAcceptedIsSaved == RemoteSpec => []SavedWasAccepted
<1>1. SavedInv /\ [RemoteNext]_remoteVars => SavedInv'
  BY SavedIsKept
<1>2. SavedInv => SavedWasAccepted
  BY DEF SavedInv
<1> QED
  BY <1>1, <1>2, SavedInitial, PTL DEF RemoteSpec

-----------------------------------------------------------------------------
(* What the service answers.                                               *)

\* A worker whose request waits for it has seen the key alive that it comes back
\* with: its request can only wait for another worker after this one has ended.
HeldIsLive ==
  \A c \in Clients :
    request[c] = "join" /\ (worker[c] \in {"combos", "ready"} \/ step[c] \in {"write", "ok"})
      => held[c] \in liveSince[c]

AnswerInv == HeldIsLive /\ AnswerIsLive /\ DOMAIN liveSince = Clients

LEMMA AnswerInitial == RemoteInit => AnswerInv
BY DEF RemoteInit, AnswerInv, HeldIsLive, AnswerIsLive, NoAnswer, Clients

\* Who has a key at hand has it from the listing or has just made it.
LEMMA KeyComesLive ==
  ASSUME KeyInv, NEW i \in Issuers, Issue(i), step'[i] \in {"write", "ok"}
  PROVE  \/ held'[i] \in UNION {keys'[x] : x \in Caches}
         \/ step[i] = "write" /\ held'[i] = held[i]
<1> USE KeyAssumption DEF KeyInv, KeyTyped
<1>1. ~TakeLock(i) /\ ~ReadCache(i) /\ ~Refused(i)
  BY DEF TakeLock, ReadCache, Refused, Stop
<1>2. CASE ListKeys(i)
  <2>1. held'[i] = held[i] /\ held[i] \in Live /\ keys' = keys
    BY <1>2 DEF ListKeys, Stop
  <2> QED
    BY <2>1 DEF Live
<1>3. CASE CreateKey(i)
  <2>1. CacheOf[i] \in Caches /\ keys'[CacheOf[i]] = keys[CacheOf[i]] \cup {minted + 1}
    BY <1>3 DEF CreateKey
  <2>2. held'[i] = minted + 1
    BY <1>3 DEF CreateKey, Stop
  <2> QED
    BY <2>1, <2>2
<1>4. CASE WriteCache(i)
  BY <1>4 DEF WriteCache, Stop
<1> QED
  BY <1>1, <1>2, <1>3, <1>4 DEF Issue

\* The others see their keys as before, and more of OmniRoute's.
LEMMA AnswerStays ==
  ASSUME AnswerInv, \A c \in Clients : liveSince[c] \subseteq liveSince'[c],
         DOMAIN liveSince' = Clients, UNCHANGED <<http, request, worker, step, held>>
  PROVE  AnswerInv'
BY DEF AnswerInv, HeldIsLive, AnswerIsLive

LEMMA AnswerScript ==
  ASSUME RemoteInv, SavedInv, AnswerInv, NEW c \in Clients,
         StartScript(c) \/ TakeAnswer(c)
  PROVE  AnswerInv'
<1> USE DEF SavedInv, ScriptTyped, AnswerInv
<1>1. UNCHANGED <<worker, step, held>>
  BY DEF StartScript, TakeAnswer, keyVars
<1>2. request[c] = "none" /\ http'[c].status # "200"
  <2>1. script[c] # "answered" => http[c] = NoAnswer
    BY DEF AnswersAreRead
  <2>2. script[c] # "sent" => request[c] = "none"
    BY DEF AnswersAreRead
  <2>3. NoAnswer.status # "200"
    BY DEF NoAnswer
  <2>4. script[c] \in {"off", "answered"} /\ http'[c] = NoAnswer
    <3>1. CASE StartScript(c)
      BY <2>1, <3>1 DEF StartScript
    <3>2. CASE TakeAnswer(c)
      BY <3>2 DEF TakeAnswer
    <3> QED
      BY <3>1, <3>2
  <2> QED
    BY <2>2, <2>3, <2>4
<1>3. request' \in {request, [request EXCEPT ![c] = "route"]}
  BY DEF StartScript, TakeAnswer, Send
<1>4. PICK L : liveSince' = [liveSince EXCEPT ![c] = L]
  BY DEF StartScript, TakeAnswer, Send
<1>5. \A d \in Clients : d # c => http'[d] = http[d]
  BY DEF StartScript, TakeAnswer
<1> QED
  BY <1>1, <1>2, <1>3, <1>4, <1>5 DEF HeldIsLive, AnswerIsLive

LEMMA AnswerThread ==
  ASSUME RemoteInv, SavedInv, AnswerInv, NEW c \in Clients, Thread(c)
  PROVE  AnswerInv'
<1> USE DEF SavedInv, ScriptTyped, AnswerInv
<1>1. ASSUME NEW answer, Answer(c, answer),
             answer.status = "200" => answer.key \in liveSince[c],
             UNCHANGED step, \A d \in Clients : d # c => /\ worker'[d] = worker[d]
                                                         /\ held'[d] = held[d]
      PROVE  AnswerInv'
  <2>1. /\ request' = [request EXCEPT ![c] = "none"] /\ http' = [http EXCEPT ![c] = answer]
        /\ liveSince' = [liveSince EXCEPT ![c] = @ \cap {answer.key}]
    BY <1>1 DEF Answer
  <2> QED
    BY <1>1, <2>1 DEF HeldIsLive, AnswerIsLive
<1>2. CASE RefuseRequest(c)
  <2>1. UNCHANGED <<step, worker, held>>
    BY <1>2 DEF RefuseRequest, keyVars
  <2>2. Answer(c, Failure) \/ Answer(c, [status |-> "401", key |-> NoKey])
    BY <1>2 DEF RefuseRequest
  <2>3. Failure.status # "200"
    BY DEF Failure
  <2> QED
    BY <1>1, <2>1, <2>2, <2>3
<1>3. CASE StartWorker(c)
  <2>1. /\ request' = [request EXCEPT ![c] = "join"] /\ worker' = [worker EXCEPT ![c] = "key"]
        /\ step' = [step EXCEPT ![c] = "lock"] /\ UNCHANGED <<held, http, liveSince>>
    BY <1>3 DEF StartWorker, clientVars
  <2>2. worker \in [Clients -> Working \cup {"off", "error", "ready"}]
        /\ step \in [Clients -> Steps]
    BY DEF RemoteInv, WorkersTyped, KeyInv, KeyTyped, Clients
  <2> QED
    BY <2>1, <2>2 DEF HeldIsLive, AnswerIsLive
<1>4. CASE Join(c)
  <2>1. \A d \in Clients : d # c => worker'[d] = worker[d] /\ held'[d] = held[d]
    BY <1>4 DEF Join, RemoteInv, WorkersTyped, KeyInv, KeyTyped, Clients
  <2>2. UNCHANGED step /\ request[c] = "join"
    BY <1>4 DEF Join
  <2>3. CASE worker[c] = "ready" /\ Answer(c, [status |-> "200", key |-> held[c]])
    BY <1>1, <2>1, <2>2, <2>3 DEF HeldIsLive
  <2>4. CASE Answer(c, Failure)
    BY <1>1, <2>1, <2>2, <2>4 DEF Failure
  <2> QED
    BY <1>4, <2>3, <2>4 DEF Join
<1> QED
  BY <1>2, <1>3, <1>4 DEF Thread

LEMMA AnswerWorker ==
  ASSUME RemoteInv, SavedInv, AnswerInv, NEW c \in Clients, WorkerGoesOn(c) \/ IssueKey(c)
  PROVE  AnswerInv'
<1> USE DEF SavedInv, ScriptTyped, AnswerInv
<1>1. UNCHANGED <<http, request>>
  BY DEF WorkerGoesOn, IssueKey, serverVars, clientVars
<1>2. /\ worker \in [Clients -> Working \cup {"off", "error", "ready"}]
      /\ step \in [Clients -> Steps] /\ held \in [Clients -> Nat]
  BY DEF RemoteInv, WorkersTyped, KeyInv, KeyTyped, Clients
<1>3. CASE WorkerGoesOn(c)
  <2>1. UNCHANGED liveSince /\ step' = [step EXCEPT ![c] = "off"]
    BY <1>3 DEF WorkerGoesOn
  <2>2. \A d \in Clients : d # c => worker'[d] = worker[d] /\ held'[d] = held[d]
    BY <1>2, <1>3 DEF WorkerGoesOn, EndWorker
  <2>3. worker'[c] \in {"combos", "ready"}
          => held'[c] = held[c] /\ (worker[c] = "combos" \/ step[c] = "ok")
    BY <1>2, <1>3 DEF WorkerGoesOn, EndWorker
  <2> QED
    BY <1>1, <1>2, <2>1, <2>2, <2>3 DEF HeldIsLive, AnswerIsLive
<1>4. CASE IssueKey(c)
  <2> DEFINE all == UNION {keys'[x] : x \in Caches}
  <2>1. /\ Issue(c) /\ UNCHANGED worker
        /\ liveSince' = [d \in Clients |-> IF request[d] = "none" THEN liveSince[d]
                                           ELSE liveSince[d] \cup all]
    BY <1>4 DEF IssueKey, serverVars
  <2>2. step[c] # "off" /\ \A d \in Clients : d # c => /\ step'[d] = step[d]
                                                      /\ held'[d] = held[d]
    BY <1>2, <2>1
       DEF Issue, TakeLock, ReadCache, ListKeys, CreateKey, WriteCache, Refused, Stop
  <2>3. worker[c] = "key"
    BY <2>2 DEF RemoteInv, KeyWorkOnly
  <2>4. step'[c] \in {"write", "ok"} =>
          held'[c] \in all \/ (step[c] = "write" /\ held'[c] = held[c])
    BY <2>1, KeyComesLive DEF RemoteInv, Clients
  <2> HIDE DEF all
  <2>5. ASSUME NEW d \in Clients,
               request[d] = "join",
               worker[d] \in {"combos", "ready"} \/ step'[d] \in {"write", "ok"}
        PROVE  held'[d] \in liveSince'[d]
    <3>1. CASE d = c
      BY <2>1, <2>3, <2>4, <2>5, <3>1 DEF HeldIsLive
    <3>2. CASE d # c
      BY <2>1, <2>2, <2>5, <3>2 DEF HeldIsLive
    <3> QED
      BY <3>1, <3>2
  <2>6. \A d \in Clients : liveSince[d] \subseteq liveSince'[d]
    BY <2>1
  <2> QED
    BY <1>1, <2>1, <2>5, <2>6 DEF HeldIsLive, AnswerIsLive
<1> QED
  BY <1>3, <1>4

LEMMA AnswerIsKept ==
  ASSUME RemoteInv, SavedInv, AnswerInv, [RemoteNext]_remoteVars
  PROVE  AnswerInv'
<1>1. CASE Restart
  <2>1. /\ request' = [c \in Clients |-> "none"] /\ UNCHANGED http
        /\ liveSince' = [c \in Clients |-> IF script[c] = "sent" THEN {} ELSE liveSince[c]]
    BY <1>1 DEF Restart
  <2>2. \A c \in Clients : http[c].status = "200" => script[c] # "sent"
    BY DEF SavedInv, AnswersAreRead, NoAnswer
  <2> QED
    BY <2>1, <2>2 DEF AnswerInv, HeldIsLive, AnswerIsLive
<1>2. CASE Others \/ UNCHANGED remoteVars
  <2>1. UNCHANGED <<http, request, worker, step, held, liveSince>>
    BY <1>2 DEF Others, Revoke, remoteVars, keyVars, clientVars, serverVars
  <2> QED
    BY <2>1, AnswerStays DEF AnswerInv
<1> QED
  BY <1>1, <1>2, AnswerScript, AnswerThread, AnswerWorker DEF RemoteNext

\* A client that is told a key is told one that OmniRoute had at some moment since
\* the request, for any clients, caches, late workers and restarts.
\* (ensure_api_key, _handle_config)
THEOREM AnswersAreLive == RemoteSpec => []AnswerIsLive
<1>1. SavedInv /\ [RemoteNext]_remoteVars => SavedInv'
  BY SavedIsKept
<1>2. RemoteInv /\ SavedInv /\ AnswerInv /\ [RemoteNext]_remoteVars => AnswerInv'
  BY AnswerIsKept
<1>3. AnswerInv => AnswerIsLive
  BY DEF AnswerInv
<1> QED
  BY <1>1, <1>2, <1>3, RemoteInitial, RemoteInvIsKept, SavedInitial, AnswerInitial, PTL
     DEF RemoteSpec
=============================================================================
