----------------------------- MODULE RemoteConfig -----------------------------
(***************************************************************************)
(* The remote-setup service, pylib/remote_setup.py, and the installer it   *)
(* serves.  Client machines run the script, which sends GET /config with a *)
(* master key and asks again when a saved key is refused; the server lets  *)
(* one worker at a time fetch a key and the combos from OmniRoute, and     *)
(* answers 503 when that takes too long or another one is at it.           *)
(***************************************************************************)
EXTENDS KeyIssuance

CONSTANTS
  MasterKeys,  \* what a user may type
  NoMaster,
  MaxRestarts  \* bound: restarts of the server

ASSUME RemoteAssumption ==
  /\ NoMaster \notin MasterKeys
  /\ MaxRestarts \in Nat

VARIABLES
  \* client machines
  script,    \* "off", "sent" (waiting for the answer), "answered"
  saved,     \* the master key in the script's cache
  offered,   \* [key, fromCache, rmKey] of the script that runs
  http,      \* the answer: [status, key]
  \* the server
  master,    \* OMNI_ROUTER_MASTER_KEY; NoMaster is unset
  request,   \* the thread of a client's request: "none", "route", "join"
  worker,    \* its worker: "off", "key", "combos", "ready",
             \* "error" (box["error"] or box["crash"])
  flight,    \* who holds _config_flight
  restarts,
  \* history
  pastMasters,  \* the keys the server has had
  liveSince     \* OmniRoute keys alive at some time since the request began

clientVars == <<script, saved, offered, http>>
serverVars == <<master, request, worker, flight, restarts>>
remoteVars == <<keyVars, clientVars, serverVars, pastMasters, liveSince>>

\* Client machines: a request's worker goes by its client.
Clients == Issuers

\* Of the failures only a refused master key matters to the script.
Statuses == {"none", "200", "401", "4xx or 5xx"}
NoAnswer == [status |-> "none", key |-> NoKey]
Failure  == [status |-> "4xx or 5xx", key |-> NoKey]
NoOffer  == [key |-> NoMaster, fromCache |-> FALSE, rmKey |-> FALSE]
Working == {"key", "combos"}

-----------------------------------------------------------------------------
(* The installer script.                                                   *)

Send(c, key, fromCache, rmKey) ==
  /\ script' = [script EXCEPT ![c] = "sent"]
  /\ offered' = [offered EXCEPT ![c] = [key |-> key, fromCache |-> fromCache,
                                         rmKey |-> rmKey]]
  /\ request' = [request EXCEPT ![c] = "route"]
  /\ liveSince' = [liveSince EXCEPT ![c] = Live]

\* --rm-key forgets the saved key; one younger than seven days is used, and
\* otherwise forgotten.
StartScript(c) ==
  /\ script[c] = "off" /\ request[c] = "none"
  /\ \/ /\ saved[c] # NoMaster
        /\ Send(c, saved[c], TRUE, FALSE)
        /\ UNCHANGED saved
     \/ /\ \E key \in MasterKeys, rmKey \in BOOLEAN : Send(c, key, FALSE, rmKey)
        /\ saved' = [saved EXCEPT ![c] = NoMaster]
  /\ UNCHANGED <<keyVars, http, master, worker, flight, restarts, pastMasters>>

\* Mutant: the key is saved whatever the answer.
SaveAnyway(c) ==
  IF offered[c].rmKey THEN saved[c] ELSE offered[c].key

SaveAccepted(c) ==
  IF offered[c].rmKey \/ offered[c].fromCache \/ http[c].status # "200"
  THEN saved[c] ELSE offered[c].key

\* A saved key that is refused is forgotten and asked for, once.
TakeAnswer(c) ==
  /\ script[c] = "answered"
  /\ http' = [http EXCEPT ![c] = NoAnswer]
  /\ IF http[c].status = "401" /\ offered[c].fromCache
     THEN /\ \E key \in MasterKeys : Send(c, key, FALSE, FALSE)
          /\ saved' = [saved EXCEPT ![c] = NoMaster]
     ELSE /\ script' = [script EXCEPT ![c] = "off"]
          /\ saved' = [saved EXCEPT ![c] = SaveAccepted(c)]
          /\ offered' = [offered EXCEPT ![c] = NoOffer]
          /\ liveSince' = [liveSince EXCEPT ![c] = {}]
          /\ UNCHANGED request
  /\ UNCHANGED <<keyVars, master, worker, flight, restarts, pastMasters>>

-----------------------------------------------------------------------------
(* A request's thread.                                                     *)

Answer(c, answer) ==
  /\ request' = [request EXCEPT ![c] = "none"]
  /\ script' = [script EXCEPT ![c] = "answered"]
  /\ http' = [http EXCEPT ![c] = answer]
  /\ liveSince' = [liveSince EXCEPT ![c] = @ \cap {answer.key}]
  /\ UNCHANGED <<saved, offered, master, restarts, pastMasters>>

\* Not authorised; or not configured, a bad Host header, the flight taken, or
\* no thread to be had (which releases the flight at once).
RefuseRequest(c) ==
  /\ request[c] = "route"
  /\ IF master \in {NoMaster, offered[c].key}
     THEN Answer(c, Failure)
     ELSE Answer(c, [status |-> "401", key |-> NoKey])
  /\ UNCHANGED <<keyVars, worker, flight>>

\* Mutant: one worker per request.
StartAnyWorker(c) ==
  /\ request[c] = "route" /\ master = offered[c].key /\ worker[c] \notin Working
  /\ flight' = c
  /\ request' = [request EXCEPT ![c] = "join"]
  /\ worker' = [worker EXCEPT ![c] = "key"]
  /\ step' = [step EXCEPT ![c] = "lock"]
  /\ UNCHANGED <<keys, minted, files, flock, held, astray, clientVars, master,
                 restarts, pastMasters, liveSince>>

StartWorker(c) ==
  /\ request[c] = "route" /\ master = offered[c].key /\ flight = NoOne
  /\ flight' = c
  /\ request' = [request EXCEPT ![c] = "join"]
  /\ worker' = [worker EXCEPT ![c] = "key"]
  /\ step' = [step EXCEPT ![c] = "lock"]
  /\ UNCHANGED <<keys, minted, files, flock, held, astray, clientVars, master,
                 restarts, pastMasters, liveSince>>

\* A worker that has ended has left what it found for its request.
Ended(c) == worker[c] \in {"error", "ready"}

\* Mutant: the join has no deadline.
JoinForever(c) ==
  /\ request[c] = "join" /\ Ended(c)
  /\ IF worker[c] = "ready" THEN Answer(c, [status |-> "200", key |-> held[c]])
                            ELSE Answer(c, Failure)
  /\ worker' = [worker EXCEPT ![c] = "off"] /\ held' = [held EXCEPT ![c] = NoKey]
  /\ UNCHANGED <<keys, minted, files, flock, step, astray, flight>>

\* After CONFIG_DEADLINE_SECONDS the answer does not wait for the worker, which
\* may have been about to end; and an answer may turn out impossible to make.
Join(c) ==
  /\ request[c] = "join"
  /\ \/ worker[c] = "ready" /\ Answer(c, [status |-> "200", key |-> held[c]])
     \/ Answer(c, Failure)
  /\ worker' = [worker EXCEPT ![c] = IF Ended(c) THEN "off" ELSE @]
  /\ held' = [held EXCEPT ![c] = IF Ended(c) THEN NoKey ELSE @]
  /\ UNCHANGED <<keys, minted, files, flock, step, astray, flight>>

-----------------------------------------------------------------------------
(* A worker, _fetch_config_inputs.                                         *)

\* What a late worker found is nobody's.
EndWorker(c, state) ==
  /\ worker' = [worker EXCEPT ![c] = IF request[c] = "join" THEN state ELSE "off"]
  /\ held' = [held EXCEPT ![c] = IF worker'[c] = "ready" THEN @ ELSE NoKey]
  /\ flight' = NoOne

\* The key is there, or no key; then the combos, or none.
WorkerGoesOn(c) ==
  /\ \/ /\ worker[c] = "key" /\ step[c] = "ok"
        /\ worker' = [worker EXCEPT ![c] = "combos"]
        /\ UNCHANGED <<held, flight>>
     \/ worker[c] = "key" /\ step[c] = "failed" /\ EndWorker(c, "error")
     \/ /\ worker[c] = "combos"
        /\ \E state \in {"ready", "error"} : EndWorker(c, state)
  /\ step' = [step EXCEPT ![c] = "off"]
  /\ UNCHANGED <<keys, minted, files, flock, astray, clientVars, master, request,
                 restarts, pastMasters, liveSince>>

IssueKey(c) ==
  /\ Issue(c)
  /\ liveSince' = [d \in Clients |->
                      IF request[d] = "none" THEN liveSince[d]
                      ELSE liveSince[d] \cup UNION {keys'[x] : x \in Caches}]
  /\ UNCHANGED <<clientVars, serverVars, pastMasters>>

-----------------------------------------------------------------------------
\* The container is restarted, perhaps with another master key: its threads
\* are gone and the scripts that wait cannot reach it.
Restart ==
  /\ restarts < MaxRestarts
  /\ restarts' = restarts + 1
  /\ master' \in MasterKeys \cup {NoMaster}
  /\ pastMasters' = pastMasters \cup ({master'} \ {NoMaster})
  /\ Died(Clients)
  /\ request' = [c \in Clients |-> "none"]
  /\ worker' = [c \in Clients |-> "off"]
  /\ flight' = NoOne
  /\ script' = [c \in Clients |-> IF script[c] = "sent" THEN "off" ELSE script[c]]
  /\ offered' = [c \in Clients |-> IF script[c] = "sent" THEN NoOffer ELSE offered[c]]
  /\ liveSince' = [c \in Clients |-> IF script[c] = "sent" THEN {} ELSE liveSince[c]]
  /\ UNCHANGED <<saved, http>>

Others == /\ Revoke
          /\ UNCHANGED <<clientVars, serverVars, pastMasters, liveSince>>

RemoteInit ==
  /\ KeyInit
  /\ script = [c \in Clients |-> "off"]
  /\ saved = [c \in Clients |-> NoMaster]
  /\ offered = [c \in Clients |-> NoOffer]
  /\ http = [c \in Clients |-> NoAnswer]
  /\ master \in MasterKeys \cup {NoMaster}
  /\ request = [c \in Clients |-> "none"]
  /\ worker = [c \in Clients |-> "off"]
  /\ flight = NoOne /\ restarts = 0
  /\ pastMasters = {master} \ {NoMaster}
  /\ liveSince = [c \in Clients |-> {}]

Thread(c) == RefuseRequest(c) \/ StartWorker(c) \/ Join(c)

RemoteNext ==
  \/ \E c \in Clients : \/ StartScript(c) \/ TakeAnswer(c) \/ Thread(c)
                       \/ WorkerGoesOn(c) \/ IssueKey(c)
  \/ Restart \/ Others

RemoteSpec == RemoteInit /\ [][RemoteNext]_remoteVars

\* The server's threads run; OmniRoute may never answer a worker.
FairRemoteSpec == RemoteSpec /\ \A c \in Clients : WF_remoteVars(Thread(c))

-----------------------------------------------------------------------------
RemoteTypeOK ==
  /\ KeyTypeOK
  /\ script \in [Clients -> {"off", "sent", "answered"}]
  /\ saved \in [Clients -> MasterKeys \cup {NoMaster}]
  /\ offered \in [Clients -> [key : MasterKeys \cup {NoMaster},
                              fromCache : BOOLEAN, rmKey : BOOLEAN]]
  /\ http \in [Clients -> [status : Statuses, key : 0 .. MaxKeys]]
  /\ master \in MasterKeys \cup {NoMaster}
  /\ request \in [Clients -> {"none", "route", "join"}]
  /\ worker \in [Clients -> Working \cup {"off", "error", "ready"}]
  /\ flight \in Clients \cup {NoOne}
  /\ restarts \in 0 .. MaxRestarts
  /\ pastMasters \in SUBSET MasterKeys
  /\ liveSince \in [Clients -> SUBSET (1 .. MaxKeys)]

\* One fetch at a time, a late one included: whoever works holds the flight, and
\* a flight that is held is somebody's work, so it comes back.
\* (_config_flight: "a late worker never overlaps the next key creation")
OneFetch ==
  \A c \in Clients : worker[c] \in Working <=> flight = c

\* The key in a successful answer was one of OmniRoute's after the request came
\* in, whatever was cached and whatever was revoked before.  (ensure_api_key)
AnswerIsLive ==
  \A c \in Clients : http[c].status = "200" => http[c].key \in liveSince[c]

\* A saved master key was once accepted: "a mistyped key is never reused".
\* (SETUP_SCRIPT_TEMPLATE, after the status check)
SavedWasAccepted ==
  \A c \in Clients : saved[c] \in pastMasters \cup {NoMaster}

\* Every request is answered, unless the server is restarted, although OmniRoute
\* need not answer.  (worker.join(CONFIG_DEADLINE_SECONDS))
RequestsEnd == \A c \in Clients : request[c] # "none" ~> request[c] = "none"
=============================================================================
