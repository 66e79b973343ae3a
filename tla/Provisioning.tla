---------------------------- MODULE Provisioning ----------------------------
(***************************************************************************)
(* The tools that set OmniRoute up: provision and import_codex_auth of      *)
(* pylib/omniroute.py, and ensure_local_combo, backup_combos and            *)
(* restore_combos of pylib/omniroute_combos.py.  Each lists what OmniRoute  *)
(* has and then writes, with a request that may fail before or after it     *)
(* has had its effect; the operator repeats what failed.  The dashboard     *)
(* changes connections in between.                                          *)
(***************************************************************************)
EXTENDS Naturals, FiniteSets

CONSTANTS
  Emails,      \* Codex accounts
  NoEmail,
  CodexNames,  \* display names of Codex connections
  PreferredName,  \* the names the tool would give a new connection of an
  DerivedName,    \* account: the known one (or none), the one it derives
  NoName,
  LocalName,   \* llm-env-local
  LocalCombo,  \* my-coding-lite
  ComboNames,  \* the other combos
  Contexts,    \* context lengths of the local model
  MaxId,       \* bound: connections and combos ever made
  MaxChanges   \* bound: changes by the dashboard

ASSUME ProvisioningAssumption ==
  /\ NoEmail \notin Emails /\ NoName \notin CodexNames /\ LocalName \notin CodexNames
  /\ PreferredName \in [Emails -> CodexNames \cup {NoName}]
  /\ DerivedName \in [Emails -> CodexNames]
  /\ LocalCombo \notin ComboNames /\ Contexts \subseteq Nat
  /\ MaxId \in Nat /\ MaxChanges \in Nat

NoId == 0

VARIABLES
  connections,  \* [id, provider, name, email, session: whose tokens it has]
  combos,       \* [id, name, label and conn of the member, context]
  nextId,
  comboFile,    \* the combo backup: whether it can be read, and its combos,
                \* [id: the entry, name, label and bound: its member has a connection]
  tool,         \* the tool that runs
  changes,
  \* history
  before,       \* the combos when the tool began
  raced,        \* the dashboard has changed something since the tool listed
  misled,       \* accounts, as OmniRoute tells them (or not: NoEmail), whose
                \* connection got another's tokens, and
  doubled       \* names given to a second thing, although nobody else had
                \* changed anything since the tool began to list

routerVars == <<connections, combos, nextId>>
provisionVars == <<routerVars, comboFile, tool, changes, before, raced, misled, doubled>>

NoTool == [op |-> "none", pc |-> "idle", email |-> NoEmail, name |-> NoName,
           overwrite |-> FALSE, context |-> 0, conns |-> {}, seen |-> {},
           todo |-> {}]

-----------------------------------------------------------------------------
(* What is worked out from a listing.                                      *)

\* find_connection: the first of a name.
Named(C, name) == {c \in C : c.name = name}
First(C) == CHOOSE c \in C : \A d \in C : c.id <= d.id

\* What is left of a listing that is indexed by name.
Latest(C) == CHOOSE c \in C : \A d \in C : d.id <= c.id

\* _codex_name_owned_by_other_email: a connection whose account OmniRoute does not
\* tell is nobody's.
Owner(C, name, email) ==
  {c \in C : /\ c.provider = "codex" /\ c.name = name
             /\ c.email \notin {NoEmail, email}}

\* Mutant: a name somebody else has is taken all the same.
AnyImportName(C, email, override) ==
  IF override # NoName THEN override ELSE DerivedName[email]

\* resolve_codex_import_name: the account's own connection, unless its name is
\* somebody else's too; else the name that was asked for, on the same terms;
\* else the first of the known and the derived name nobody else has.
ImportName(C, email, override) ==
  LET mine == {c \in C : c.provider = "codex" /\ c.email = email}
      free(name) == Owner(C, name, email) = {}
      kept(name) == IF free(name) THEN name ELSE NoName
  IN  IF mine # {} THEN kept(First(mine).name)
      ELSE IF override # NoName THEN kept(override)
      ELSE IF PreferredName[email] # NoName /\ free(PreferredName[email])
           THEN PreferredName[email]
      ELSE kept(DerivedName[email])

\* Mutant: the connection of the backup is kept.
KeepConnection(C, b) == 1

\* _remap_combo_connection_ids: the live connection of the member's label, or none;
\* a member the file has without a connection is left as it is.
Remapped(C, b) ==
  IF ~b.bound \/ Named(C, b.label) = {} THEN NoId ELSE Latest(Named(C, b.label)).id

\* A file that was written when two combos had one name has it twice, and says of
\* neither which it is.
OnceInFile(b) == \A d \in comboFile.combos : d.name = b.name => d = b

\* _matches
Matches(combo, conn, context) ==
  combo.conn = conn /\ combo.label = LocalName /\ combo.context = context

-----------------------------------------------------------------------------
(* A tool runs: it logs in, lists, and writes.                             *)

StartProvision ==
  /\ tool.pc = "idle"
  /\ tool' = [NoTool EXCEPT !.op = "provision", !.pc = "list"]
  /\ UNCHANGED <<routerVars, comboFile, changes, before, raced, misled, doubled>>

StartImport ==
  /\ tool.pc = "idle"
  /\ \E e \in Emails, override \in CodexNames \cup {NoName} :
       tool' = [NoTool EXCEPT !.op = "import", !.pc = "list", !.email = e,
                              !.name = override]
  /\ UNCHANGED <<routerVars, comboFile, changes, before, raced, misled, doubled>>

\* Only for a measured context length (the capacity card).
StartLocalCombo ==
  /\ tool.pc = "idle"
  /\ \E n \in Contexts :
       tool' = [NoTool EXCEPT !.op = "local", !.pc = "list", !.context = n]
  /\ UNCHANGED <<routerVars, comboFile, changes, before, raced, misled, doubled>>

\* A backup that cannot be read ends a restore before it begins.
StartRestore ==
  /\ tool.pc = "idle" /\ comboFile.readable
  /\ \E overwrite \in BOOLEAN :
       tool' = [NoTool EXCEPT !.op = "restore", !.pc = "list", !.todo = comboFile.combos,
                              !.overwrite = overwrite]
  /\ UNCHANGED <<routerVars, comboFile, changes, before, raced, misled, doubled>>

\* Any request may fail, whatever has been done so far.
RequestFails ==
  /\ tool.pc \in {"list", "list more", "write"}
  /\ tool' = NoTool
  /\ UNCHANGED <<routerVars, comboFile, changes, before, raced, misled, doubled>>

\* One request for the connections, one for the combos where they matter: a
\* restore asks for the combos first, ensure_local_combo for the connections.
List ==
  /\ \/ /\ tool.pc = "list" /\ tool.op \in {"provision", "import"}
        /\ tool' = [tool EXCEPT !.pc = "write", !.conns = connections]
     \/ /\ tool.pc = "list" /\ tool.op = "local"
        /\ tool' = [tool EXCEPT !.pc = "list more", !.conns = connections]
     \/ /\ tool.pc = "list" /\ tool.op = "restore"
        /\ tool' = [tool EXCEPT !.pc = "list more", !.seen = combos]
     \/ /\ tool.pc = "list more" /\ tool.op = "local"
        /\ tool' = [tool EXCEPT !.pc = "write", !.seen = combos]
     \/ /\ tool.pc = "list more" /\ tool.op = "restore"
        /\ tool' = [tool EXCEPT !.pc = "write", !.conns = connections]
  /\ raced' = IF tool.pc = "list" THEN FALSE ELSE raced
  /\ before' = IF tool.pc = "list" THEN combos ELSE before
  /\ UNCHANGED <<routerVars, comboFile, changes, misled, doubled>>

\* The tool reports, or it fails: its answer may be lost although the request had
\* its effect.
Finish    == tool' = [tool EXCEPT !.pc = "done"]
GiveUp    == tool' = NoTool
Answered  == Finish \/ GiveUp

\* What a POST gives a name that is taken, it gives twice.
Twice(taken, name) ==
  doubled' = IF taken /\ ~raced THEN doubled \cup {name} ELSE doubled

\* Mutant: what the listing has is not looked at.
CreateConnection ==
  /\ tool.pc = "write" /\ tool.op = "provision"
  /\ nextId <= MaxId
  /\ connections' = connections \cup
       {[id |-> nextId, provider |-> "llama-cpp", name |-> LocalName,
         email |-> NoEmail, session |-> NoEmail]}
  /\ nextId' = nextId + 1
  /\ Answered
  /\ Twice(Named(connections, LocalName) # {}, LocalName)
  /\ UNCHANGED <<combos, comboFile, changes, before, raced, misled>>

\* provision: POST, or PUT by the id that was listed.
WriteConnection ==
  /\ tool.pc = "write" /\ tool.op = "provision"
  /\ LET mine   == Named(tool.conns, LocalName)
         old    == {c \in connections : mine # {} /\ c.id = First(mine).id}
         new(i) == [id |-> i, provider |-> "llama-cpp", name |-> LocalName,
                    email |-> NoEmail, session |-> NoEmail]
     IN  \/ /\ mine = {} /\ nextId <= MaxId
            /\ connections' = connections \cup {new(nextId)}
            /\ nextId' = nextId + 1
            /\ Twice(Named(connections, LocalName) # {}, LocalName)
            /\ Answered
         \/ /\ old # {}
            /\ connections' = (connections \ old) \cup {new(First(mine).id)}
            /\ Answered
            /\ UNCHANGED <<nextId, doubled>>
         \/ /\ mine # {} /\ old = {}
            /\ GiveUp
            /\ UNCHANGED <<connections, nextId, doubled>>
  /\ UNCHANGED <<combos, comboFile, changes, before, raced, misled>>

\* import_codex_auth: OmniRoute overwrites by display name, or creates.
WriteSession ==
  /\ tool.pc = "write" /\ tool.op = "import"
  /\ LET name   == ImportName(tool.conns, tool.email, tool.name)
         old    == {c \in connections : c.provider = "codex" /\ c.name = name}
         new(i) == [id |-> i, provider |-> "codex", name |-> name,
                    email |-> tool.email, session |-> tool.email]
     IN  \/ /\ name = NoName
            /\ GiveUp
            /\ UNCHANGED <<connections, nextId, misled>>
         \/ /\ name # NoName /\ old = {} /\ nextId <= MaxId
            /\ connections' = connections \cup {new(nextId)}
            /\ nextId' = nextId + 1
            /\ Answered
            /\ UNCHANGED misled
         \/ /\ name # NoName /\ old # {}
            /\ \E c \in old :
                 /\ connections' = (connections \ {c}) \cup {new(c.id)}
                 /\ misled' = IF raced \/ c.session = tool.email
                              THEN misled ELSE misled \cup {c.email}
            /\ Answered
            /\ UNCHANGED nextId
  /\ UNCHANGED <<combos, comboFile, changes, before, raced, doubled>>

PostCombo(combo, once) ==
  /\ nextId <= MaxId
  /\ combos' = combos \cup {combo}
  /\ nextId' = nextId + 1
  /\ Twice(once /\ Named(combos, combo.name) # {}, combo.name)

\* A combo that is no longer there cannot be replaced.
PutCombo(old, combo) ==
  /\ old.id \in {c.id : c \in combos}
  /\ combos' = {c \in combos : c.id # old.id} \cup {combo}
  /\ UNCHANGED <<nextId, doubled>>

\* ensure_local_combo: drift is overwritten; without the connection, skipped.
WriteLocalCombo ==
  /\ tool.pc = "write" /\ tool.op = "local"
  /\ LET mine   == Named(tool.conns, LocalName)
         old    == Named(tool.seen, LocalCombo)
         new(i) == [id |-> i, name |-> LocalCombo, label |-> LocalName,
                    conn |-> First(mine).id, context |-> tool.context]
         unchanged == Matches(First(old), First(mine).id, tool.context)
     IN  \/ mine = {} /\ GiveUp /\ UNCHANGED <<combos, nextId, doubled>>
         \/ mine # {} /\ old = {} /\ PostCombo(new(nextId), TRUE) /\ Answered
         \/ /\ mine # {} /\ old # {} /\ unchanged
            /\ Finish /\ UNCHANGED <<combos, nextId, doubled>>
         \/ /\ mine # {} /\ old # {} /\ ~unchanged
            /\ PutCombo(First(old), new(First(old).id)) /\ Answered
  /\ UNCHANGED <<connections, comboFile, changes, before, raced, misled>>

\* restore_combos, one combo of the file at a time: a request that fails, or
\* whose answer is lost, ends the tool with the rest undone.
RestoreOne ==
  /\ tool.pc = "write" /\ tool.op = "restore"
  /\ \E b \in tool.todo :
       LET old    == Named(tool.seen, b.name)
           new(i) == [id |-> i, name |-> b.name, label |-> b.label, context |-> 0,
                      conn |-> Remapped(tool.conns, b)]
           goOn   == tool' = [tool EXCEPT !.todo = @ \ {b}]
       IN  \/ old = {} /\ PostCombo(new(nextId), OnceInFile(b)) /\ (goOn \/ GiveUp)
           \/ /\ old # {} /\ tool.overwrite
              /\ PutCombo(Latest(old), new(Latest(old).id)) /\ (goOn \/ GiveUp)
           \/ /\ old # {} /\ ~tool.overwrite
              /\ goOn /\ UNCHANGED <<combos, nextId, doubled>>
  /\ UNCHANGED <<connections, comboFile, changes, before, raced, misled>>

RestoreEnds ==
  /\ tool.pc = "write" /\ tool.op = "restore" /\ tool.todo = {}
  /\ Finish
  /\ UNCHANGED <<routerVars, comboFile, changes, before, raced, misled, doubled>>

\* backup_combos writes its file in place.
Backup ==
  /\ tool.pc = "idle"
  /\ comboFile' \in
       {[readable |-> TRUE,
         combos |-> {[id |-> c.id, name |-> c.name, label |-> c.label,
                      bound |-> c.conn # NoId] : c \in combos}],
        [readable |-> FALSE, combos |-> {}]}
  /\ UNCHANGED <<routerVars, tool, changes, before, raced, misled, doubled>>

\* The tool has reported.
Report == /\ tool.pc = "done"
          /\ tool' = NoTool
          /\ UNCHANGED <<routerVars, comboFile, changes, before, raced, misled, doubled>>

-----------------------------------------------------------------------------
(* The dashboard (external).                                               *)

Changed == /\ changes < MaxChanges /\ changes' = changes + 1
           /\ raced' = TRUE
           /\ UNCHANGED <<comboFile, tool, before, misled, doubled>>

\* An account signs in under a name of its own, or a connection whose account
\* OmniRoute does not tell.
AddConnection ==
  /\ nextId <= MaxId
  /\ \E e \in Emails, known \in BOOLEAN, name \in CodexNames :
       connections' = connections \cup
         {[id |-> nextId, provider |-> "codex", name |-> name,
           email |-> IF known THEN e ELSE NoEmail, session |-> e]}
  /\ nextId' = nextId + 1
  /\ Changed /\ UNCHANGED combos

RemoveConnection ==
  /\ \E c \in connections : connections' = connections \ {c}
  /\ Changed /\ UNCHANGED <<combos, nextId>>

Rename ==
  /\ \E c \in connections, name \in CodexNames :
       /\ c.provider = "codex" /\ c.name # name
       /\ connections' = (connections \ {c}) \cup {[c EXCEPT !.name = name]}
  /\ Changed /\ UNCHANGED <<combos, nextId>>

\* A member names one of its provider's connections, or leaves the choice open.
AddCombo ==
  /\ nextId <= MaxId
  /\ \E name \in ComboNames, c \in connections, pinned \in BOOLEAN :
       /\ Named(combos, name) = {}
       /\ combos' = combos \cup {[id |-> nextId, name |-> name, label |-> c.name,
                                  conn |-> IF pinned THEN c.id ELSE NoId,
                                  context |-> 0]}
  /\ nextId' = nextId + 1
  /\ Changed /\ UNCHANGED connections

\* make clean: everything is gone.
Clean == /\ connections' = {} /\ combos' = {}
         /\ Changed /\ UNCHANGED nextId

-----------------------------------------------------------------------------
ProvisionInit ==
  /\ connections = {} /\ combos = {} /\ nextId = 1
  /\ comboFile = [readable |-> FALSE, combos |-> {}] /\ tool = NoTool /\ changes = 0
  /\ before = {} /\ raced = FALSE /\ misled = {} /\ doubled = {}

Tool == \/ StartProvision \/ StartImport \/ StartLocalCombo \/ StartRestore
        \/ List \/ RequestFails \/ WriteConnection \/ WriteSession \/ WriteLocalCombo
        \/ RestoreOne \/ RestoreEnds \/ Backup \/ Report

Dashboard == AddConnection \/ RemoveConnection \/ Rename \/ AddCombo \/ Clean

ProvisionNext == Tool \/ Dashboard

ProvisionSpec == ProvisionInit /\ [][ProvisionNext]_provisionVars

-----------------------------------------------------------------------------
\* An import that nobody has raced overwrites the tokens of no account but its own,
\* unless OmniRoute does not tell whose connection it is.  (import_codex_auth,
\* "matches the target connection by the ChatGPT email ... whenever possible, so a
\* local session for account A never overwrites OmniRoute tokens for account B":
\* a connection without an email passes for nobody's, and its tokens are lost)
KnownOthersKeepTokens == misled \subseteq {NoEmail}

\* However often a tool fails after its request had its effect and is repeated,
\* nothing is made a second time, but for a combo that a backup has twice.
\* (provision, ensure_local_combo; restore_combos, "Idempotent either way")
NothingTwice == doubled = {}

\* A restore that ends, undisturbed, leaves every combo that the file has once in place:
\* those that were there are as they were unless told otherwise, and those it wrote
\* point at a connection that lives if the file has them with a connection and one
\* has its label; a member backed up without a connection stays without.
\* (restore_combos, _remap_combo_connection_ids)
RestoreIsWhole ==
  tool.pc = "done" /\ tool.op = "restore" /\ ~raced =>
    \A b \in {d \in comboFile.combos : OnceInFile(d)} : \E c \in combos :
      /\ c.name = b.name
      /\ \/ c \in before /\ ~tool.overwrite
         \/ /\ c.label = b.label
            /\ IF b.bound /\ Named(connections, b.label) # {}
               THEN \E d \in Named(connections, b.label) : c.conn = d.id
               ELSE c.conn = NoId
=============================================================================
