---------------------------- MODULE Tools_proofs ----------------------------
(***************************************************************************)
(* The tools around the stack, for any connections, passes, windows,        *)
(* accounts, combos, catalogs and configurations.                           *)
(*                                                                         *)
(* z.ai weekly reset: the provider's memory of idempotency keys carries the  *)
(* proof.  A card that was redeemed for a window has left the window's key   *)
(* there, and no pass has another key for a window it has read.             *)
(*                                                                         *)
(* OmniRoute provisioning: a name the import settles on is, in its listing,  *)
(* nobody else's, and until a tool writes, its listing is what OmniRoute     *)
(* has, unless the dashboard has changed something.  A restore writes one    *)
(* combo at a time into what it has listed; the rest of the file is as it    *)
(* was, because ids are given once and name one combo.                      *)
(*                                                                         *)
(* Capacity card: every section of every card, saved or about to be, names   *)
(* the configuration it was measured in.                                    *)
(*                                                                         *)
(* Budget planning: no models that may be held at a time cost more than the *)
(* dearest that many, and what is left when the floors are taken off is what *)
(* llm-server's limit is cut from.  Sums over a set are unfolded, and what   *)
(* holds of every set is shown by a smallest counterexample.                *)
(***************************************************************************)
EXTENDS QuotaReset, Provisioning, CapacityCard, ResourceBudget, NumberFacts,
        FiniteSetTheorems, TLAPS

-----------------------------------------------------------------------------
(* z.ai weekly reset.                                                      *)

PassRecord == [pc : {"idle", "next", "post", "write"}, todo : SUBSET Connections,
               conn : Connections \cup {NoConnection}, window : Windows \cup {NoWindow},
               state : [Connections -> Windows \cup {NoWindow}]]

QuotaTyped ==
  /\ window \in [Connections -> Windows]
  /\ stateFile \in [Connections -> Windows \cup {NoWindow}]
  /\ pass \in [Passes -> PassRecord]
  /\ redeemed \in [Connections -> [Windows -> Nat]]

\* A pass that is past the reading of the usage is about a connection.
PassesAbout == \A p \in Passes : pass[p].pc \in {"post", "write"} => pass[p].conn \in Connections

\* A window's card has left the window's key with the provider.
KeysRemember ==
  \A c \in Connections, w \in Windows :
    redeemed[c][w] # 0 => redeemed[c][w] = 1 /\ <<c, "window", w>> \in honoured

QuotaInv == QuotaTyped /\ PassesAbout /\ KeysRemember

LEMMA NoPassTyped == NoPass \in PassRecord
BY DEF NoPass, PassRecord, NoConnection, NoWindow

LEMMA QuotaInitial == QuotaInit => QuotaInv
<1> SUFFICES ASSUME QuotaInit PROVE QuotaInv
  OBVIOUS
<1>1. 1 \in Windows
  BY QuotaAssumption DEF Windows
<1>2. QuotaTyped
  BY <1>1, NoPassTyped DEF QuotaInit, QuotaTyped
<1>3. PassesAbout /\ KeysRemember
  BY DEF QuotaInit, PassesAbout, KeysRemember, NoPass
<1> QED
  BY <1>2, <1>3 DEF QuotaInv

\* Everything but a POST leaves the cards and the keys alone.
LEMMA CardsUntouched ==
  ASSUME QuotaInv, UNCHANGED <<honoured, redeemed>>
  PROVE  KeysRemember'
BY DEF QuotaInv, KeysRemember

LEMMA PassSteps ==
  ASSUME QuotaInv, NEW p \in Passes,
         StartPass(p) \/ ReadUsage(p) \/ NoCardLeft(p) \/ WriteState(p) \/ EndPass(p)
  PROVE  QuotaInv'
<1> USE NoPassTyped DEF QuotaInv, QuotaTyped
<1>1. KeysRemember'
  BY CardsUntouched DEF StartPass, ReadUsage, NoCardLeft, WriteState, EndPass
<1>2. ASSUME StartPass(p) PROVE QuotaTyped' /\ PassesAbout'
  <2>1. [NoPass EXCEPT !.pc = "next", !.todo = Connections, !.state = stateFile] \in PassRecord
    BY DEF PassRecord, NoPass, NoConnection, NoWindow
  <2> QED
    BY <1>2, <2>1 DEF StartPass, PassesAbout, NoPass
<1>3. ASSUME ReadUsage(p) PROVE QuotaTyped' /\ PassesAbout'
  <2>1. PICK c \in pass[p].todo, answered \in BOOLEAN :
          pass' = [pass EXCEPT ![p].todo = @ \ {c}, ![p].conn = c, ![p].window = Told(c),
                               ![p].pc = IF answered /\ Due(p, c) THEN "post"
                                                                 ELSE "next"]
    BY <1>3 DEF ReadUsage
  <2> DEFINE pc == IF answered /\ Due(p, c) THEN "post" ELSE "next"
  <2>2. c \in Connections /\ pc \in {"post", "next"}
    BY DEF PassRecord
  <2>3. Told(c) \in Windows \cup {NoWindow}
    BY <2>2 DEF Told
  <2> HIDE DEF pc
  <2>4. [pass[p] EXCEPT !.todo = @ \ {c}, !.conn = c, !.window = Told(c), !.pc = pc]
          \in PassRecord
    BY <2>2, <2>3 DEF PassRecord
  <2>5. pass' \in [Passes -> PassRecord]
    BY <2>1, <2>4 DEF pc
  <2>6. PassesAbout'
    BY <2>1, <2>2 DEF PassesAbout, pc
  <2> QED
    BY <1>3, <2>5, <2>6 DEF ReadUsage
<1>4. ASSUME NoCardLeft(p) PROVE QuotaTyped' /\ PassesAbout'
  BY <1>4 DEF NoCardLeft, ToNext, PassesAbout, PassRecord
<1>5. ASSUME WriteState(p) PROVE QuotaTyped' /\ PassesAbout'
  <2> DEFINE new == [pass[p].state EXCEPT ![pass[p].conn] = pass[p].window]
  <2>1. new \in [Connections -> Windows \cup {NoWindow}]
    BY DEF PassRecord
  <2>2. CASE /\ stateFile' = new
             /\ pass' = [pass EXCEPT ![p].pc = "next", ![p].state = new]
    <3>1. [pass[p] EXCEPT !.pc = "next", !.state = new] \in PassRecord
      BY <2>1 DEF PassRecord
    <3>2. pass' \in [Passes -> PassRecord] /\ PassesAbout'
      BY <2>2, <3>1 DEF PassesAbout
    <3> QED
      BY <1>5, <2>1, <2>2, <3>2 DEF WriteState
  <2>3. CASE pass' = [pass EXCEPT ![p] = NoPass] /\ UNCHANGED stateFile
    BY <1>5, <2>3 DEF WriteState, PassesAbout, NoPass
  <2> QED
    BY <1>5, <2>2, <2>3 DEF WriteState
<1>6. ASSUME EndPass(p) PROVE QuotaTyped' /\ PassesAbout'
  BY <1>6 DEF EndPass, PassesAbout, NoPass
<1> QED
  BY <1>1, <1>2, <1>3, <1>4, <1>5, <1>6

LEMMA RedeemStep ==
  ASSUME QuotaInv, NEW p \in Passes, Redeem(p)
  PROVE  QuotaInv'
<1> DEFINE c == pass[p].conn
           w == window[c]
           new == ResetKey(p) \notin honoured
<1>1. c \in Connections /\ w \in Windows
  BY DEF Redeem, QuotaInv, QuotaTyped, PassesAbout
<1>2. PICK pc \in {"write", "next"} : pass' = [pass EXCEPT ![p].pc = pc]
  BY DEF Redeem
<1>3. [pass[p] EXCEPT !.pc = pc] \in PassRecord
  BY DEF QuotaInv, QuotaTyped, PassRecord
<1>4. pass' \in [Passes -> PassRecord] /\ PassesAbout'
  BY <1>1, <1>2, <1>3 DEF QuotaInv, QuotaTyped, PassesAbout
<1>5. honoured' = honoured \cup {ResetKey(p)} /\ UNCHANGED <<window, stateFile>>
  BY DEF Redeem
<1>6. CASE new /\ pass[p].window = w
  <2>1. redeemed' = [redeemed EXCEPT ![c][w] = @ + 1]
    BY <1>6 DEF Redeem
  <2>2. redeemed' \in [Connections -> [Windows -> Nat]]
    BY <1>1, <2>1 DEF QuotaInv, QuotaTyped
  <2>3. ResetKey(p) = <<c, "window", w>>
    BY <1>6 DEF ResetKey
  <2>4. redeemed[c][w] = 0
    BY <1>1, <1>6, <2>3 DEF QuotaInv, KeysRemember
  <2>5. ASSUME NEW d \in Connections, NEW v \in Windows, redeemed'[d][v] # 0
        PROVE  redeemed'[d][v] = 1 /\ <<d, "window", v>> \in honoured'
    <3>1. CASE d = c /\ v = w
      BY <1>1, <1>5, <2>1, <2>3, <2>4, <3>1 DEF QuotaInv, QuotaTyped
    <3>2. CASE ~(d = c /\ v = w)
      <4>1. redeemed'[d][v] = redeemed[d][v]
        BY <1>1, <2>1, <3>2 DEF QuotaInv, QuotaTyped
      <4> QED
        BY <1>5, <2>5, <4>1 DEF QuotaInv, KeysRemember
    <3> QED
      BY <3>1, <3>2
  <2> QED
    BY <1>4, <1>5, <2>2, <2>5 DEF QuotaInv, QuotaTyped, KeysRemember
<1>7. CASE ~(new /\ pass[p].window = w)
  <2>1. redeemed' = redeemed
    BY <1>7 DEF Redeem
  <2>2. KeysRemember'
    BY <1>5, <2>1 DEF QuotaInv, KeysRemember
  <2> QED
    BY <1>4, <1>5, <2>1, <2>2 DEF QuotaInv, QuotaTyped
<1> QED
  BY <1>6, <1>7

LEMMA ProviderSteps ==
  ASSUME QuotaInv, NEW c \in Connections, Spend(c) \/ Roll(c)
  PROVE  QuotaInv'
<1>1. KeysRemember'
  BY CardsUntouched DEF Spend, Roll
<1>2. window' \in [Connections -> Windows]
  <2>1. CASE Spend(c)
    BY <2>1 DEF Spend, QuotaInv, QuotaTyped
  <2>2. CASE Roll(c)
    <3>1. window[c] \in 1 .. MaxWindows /\ window[c] < MaxWindows
      BY <2>2 DEF Roll, QuotaInv, QuotaTyped, Windows
    <3>2. window[c] + 1 \in Windows
      BY <3>1, QuotaAssumption DEF Windows
    <3> QED
      BY <2>2, <3>2 DEF Roll, QuotaInv, QuotaTyped
  <2> QED
    BY <2>1, <2>2
<1> QED
  BY <1>1, <1>2 DEF Spend, Roll, QuotaInv, QuotaTyped, PassesAbout

\* However many passes run over however many connections, whatever answers are
\* lost and whoever overwrites the state file: at most one card is redeemed in a
\* weekly window by passes that had read it.  (_check_connection, Idempotency-Key)
THEOREM CardsSpared == QuotaSpec => []OneCardPerWindow
<1>1. QuotaInv /\ [QuotaNext]_quotaVars => QuotaInv'
  <2> SUFFICES ASSUME QuotaInv, [QuotaNext]_quotaVars PROVE QuotaInv'
    OBVIOUS
  <2>1. CASE UNCHANGED quotaVars
    BY <2>1 DEF quotaVars, QuotaInv, QuotaTyped, PassesAbout, KeysRemember
  <2>2. CASE QuotaNext
    BY <2>2, PassSteps, RedeemStep, ProviderSteps DEF QuotaNext
  <2> QED
    BY <2>1, <2>2
<1>2. QuotaInv => OneCardPerWindow
  <2> SUFFICES ASSUME QuotaInv, NEW c \in Connections, NEW w \in Windows
               PROVE  redeemed[c][w] <= 1
    BY DEF OneCardPerWindow
  <2>1. redeemed[c][w] \in Nat /\ (redeemed[c][w] # 0 => redeemed[c][w] = 1)
    BY DEF QuotaInv, QuotaTyped, KeysRemember
  <2> QED
    BY <2>1
<1> QED
  BY <1>1, <1>2, QuotaInitial, PTL DEF QuotaSpec

-----------------------------------------------------------------------------
(* OmniRoute provisioning: whose tokens.                                   *)

\* What a tool has listed before it writes a connection is still so.
ListingStands ==
  tool.pc = "write" /\ tool.op \in {"provision", "import"} /\ ~raced
    => tool.conns = connections

ToolShape == {"op", "pc", "email", "name", "overwrite", "context", "conns", "seen", "todo"}
               = DOMAIN tool

\* Whose OmniRoute says a connection is, is whose tokens it has.
ToldIsTrue == \A c \in connections : c.email # NoEmail => c.session = c.email

ImportInv == ToolShape /\ ListingStands /\ ToldIsTrue /\ KnownOthersKeepTokens

\* resolve_codex_import_name never settles on a name that somebody else has.
LEMMA NameIsFree ==
  ASSUME NEW C, NEW email, NEW override, ImportName(C, email, override) # NoName
  PROVE  Owner(C, ImportName(C, email, override), email) = {}
BY DEF ImportName

LEMMA ImportInitial == ProvisionInit => ImportInv
BY DEF ProvisionInit, ImportInv, ToolShape, ListingStands, ToldIsTrue,
       KnownOthersKeepTokens, NoTool

\* A tool that starts, gives up or reports is not about to write.
LEMMA ToolStarts ==
  ASSUME ImportInv,
         \/ StartProvision \/ StartImport \/ StartLocalCombo \/ StartRestore
         \/ RequestFails \/ Report \/ RestoreEnds
  PROVE  ImportInv'
<1>1. ToolShape' /\ tool'.pc # "write"
  <2>1. CASE StartProvision
    BY <2>1 DEF StartProvision, ToolShape, NoTool
  <2>2. CASE StartImport
    BY <2>2 DEF StartImport, ToolShape, NoTool
  <2>3. CASE StartLocalCombo
    BY <2>3 DEF StartLocalCombo, ToolShape, NoTool
  <2>4. CASE StartRestore
    BY <2>4 DEF StartRestore, ToolShape, NoTool
  <2>5. CASE RequestFails \/ Report
    <3>1. tool' = NoTool
      BY <2>5 DEF RequestFails, Report
    <3> QED
      BY <3>1 DEF NoTool, ToolShape
  <2>6. CASE RestoreEnds
    BY <2>6 DEF RestoreEnds, Finish, ImportInv, ToolShape
  <2> QED
    BY <2>1, <2>2, <2>3, <2>4, <2>5, <2>6
<1>2. misled' = misled /\ connections' = connections
  BY DEF StartProvision, StartImport, StartLocalCombo, StartRestore, RequestFails, Report,
         RestoreEnds, routerVars
<1> QED
  BY <1>1, <1>2 DEF ImportInv, ListingStands, ToldIsTrue, KnownOthersKeepTokens

LEMMA ListStep == ImportInv /\ List => ImportInv'
BY DEF ImportInv, ToolShape, ListingStands, ToldIsTrue, KnownOthersKeepTokens, List,
       routerVars

\* A write that ends the tool, one way or the other.
LEMMA Answers ==
  ASSUME ToolShape, Answered
  PROVE  ToolShape' /\ tool'.pc # "write"
<1>1. CASE Finish
  BY <1>1 DEF Finish, ToolShape
<1>2. CASE GiveUp
  BY <1>2 DEF GiveUp, ToolShape, NoTool
<1> QED
  BY <1>1, <1>2 DEF Answered

LEMMA ConnectionStep == ImportInv /\ WriteConnection => ImportInv'
<1> SUFFICES ASSUME ImportInv, WriteConnection PROVE ImportInv'
  OBVIOUS
<1>1. Answered /\ misled' = misled
  BY DEF WriteConnection, Answered
<1>2. \A c \in connections' : c \in connections \/ c.email = NoEmail
  BY DEF WriteConnection
<1> QED
  BY <1>1, <1>2, Answers DEF ImportInv, ListingStands, ToldIsTrue, KnownOthersKeepTokens

LEMMA ComboSteps ==
  ASSUME ImportInv, WriteLocalCombo \/ RestoreOne
  PROVE  ImportInv'
<1>1. UNCHANGED <<connections, misled, raced>> /\ tool.op \in {"local", "restore"}
  BY DEF WriteLocalCombo, RestoreOne
<1>2. CASE Answered
  BY <1>1, <1>2, Answers DEF ImportInv, ListingStands, ToldIsTrue, KnownOthersKeepTokens
<1>3. CASE \E b \in tool.todo : tool' = [tool EXCEPT !.todo = @ \ {b}]
  BY <1>1, <1>3 DEF ImportInv, ToolShape, ListingStands, ToldIsTrue, KnownOthersKeepTokens
<1> QED
  BY <1>2, <1>3 DEF WriteLocalCombo, RestoreOne, Answered

\* The step the theorem is about.
LEMMA SessionStep == ImportInv /\ WriteSession => ImportInv'
<1> SUFFICES ASSUME ImportInv, WriteSession PROVE ImportInv'
  OBVIOUS
<1> DEFINE name == ImportName(tool.conns, tool.email, tool.name)
           old  == {c \in connections : c.provider = "codex" /\ c.name = name}
<1>1. Answered
  BY DEF WriteSession, Answered
<1>2. ToldIsTrue'
  <2>1. \A c \in connections' : c \in connections \/ c.session = c.email
    BY DEF WriteSession
  <2> QED
    BY <2>1 DEF ImportInv, ToldIsTrue
<1>3. KnownOthersKeepTokens'
  <2>1. CASE misled' = misled
    BY <2>1 DEF ImportInv, KnownOthersKeepTokens
  <2>2. ASSUME NEW c \in old, name # NoName, ~raced, c.session # tool.email,
               misled' = misled \cup {c.email}
        PROVE  c.email = NoEmail
    <3>1. c.email = NoEmail \/ c.email # tool.email
      BY <2>2 DEF ImportInv, ToldIsTrue
    <3>2. tool.conns = connections
      BY <2>2 DEF WriteSession, ImportInv, ListingStands
    <3>3. c \notin Owner(tool.conns, name, tool.email)
      BY <2>2, NameIsFree
    <3> QED
      BY <2>2, <3>1, <3>2, <3>3 DEF Owner
  <2> QED
    BY <2>1, <2>2 DEF WriteSession, ImportInv, KnownOthersKeepTokens
<1> QED
  BY <1>1, <1>2, <1>3, Answers DEF ImportInv, ListingStands

\* The dashboard leaves a mark.
LEMMA DashboardSteps == ImportInv /\ Dashboard => ImportInv'
<1> SUFFICES ASSUME ImportInv, Dashboard PROVE ImportInv'
  OBVIOUS
<1>1. Changed
  BY DEF Dashboard, AddConnection, RemoveConnection, Rename, AddCombo, Clean
<1>2. ToldIsTrue'
  <2>1. CASE AddConnection
    <3>1. \A c \in connections' : c \in connections \/ c.email \in {NoEmail, c.session}
      BY <2>1 DEF AddConnection
    <3> QED
      BY <3>1 DEF ImportInv, ToldIsTrue
  <2>2. CASE Rename
    <3>1. PICK c \in connections, name \in CodexNames :
            connections' = (connections \ {c}) \cup {[c EXCEPT !.name = name]}
      BY <2>2 DEF Rename
    <3>2. /\ [c EXCEPT !.name = name].email = c.email
          /\ [c EXCEPT !.name = name].session = c.session
      OBVIOUS
    <3> QED
      BY <3>1, <3>2 DEF ImportInv, ToldIsTrue
  <2>3. CASE RemoveConnection \/ AddCombo \/ Clean
    <3>1. connections' \subseteq connections
      BY <2>3 DEF RemoveConnection, AddCombo, Clean
    <3> QED
      BY <3>1 DEF ImportInv, ToldIsTrue
  <2> QED
    BY <2>1, <2>2, <2>3 DEF Dashboard
<1> QED
  BY <1>1, <1>2 DEF Changed, ImportInv, ToolShape, ListingStands, KnownOthersKeepTokens

LEMMA ImportIsKept ==
  ASSUME ImportInv, [ProvisionNext]_provisionVars
  PROVE  ImportInv'
<1>1. CASE UNCHANGED provisionVars
  BY <1>1 DEF provisionVars, routerVars, ImportInv, ToolShape, ListingStands,
              ToldIsTrue, KnownOthersKeepTokens
<1>2. CASE Backup
  BY <1>2 DEF Backup, routerVars, ImportInv, ToolShape, ListingStands, ToldIsTrue,
              KnownOthersKeepTokens
<1>3. CASE Tool /\ ~Backup
  BY <1>3, ToolStarts, ListStep, ConnectionStep, ComboSteps, SessionStep DEF Tool
<1> QED
  BY <1>1, <1>2, <1>3, DashboardSteps DEF ProvisionNext

\* Whatever requests fail or lose their answers, however often the tools are
\* repeated: unless the dashboard interferes between the listing and the import, the
\* only tokens of another account that are overwritten are in connections whose
\* account OmniRoute does not tell.  (import_codex_auth, resolve_codex_import_name)
THEOREM TokensKept == ProvisionSpec => []KnownOthersKeepTokens
<1>1. ImportInv /\ [ProvisionNext]_provisionVars => ImportInv'
  BY ImportIsKept
<1>2. ImportInv => KnownOthersKeepTokens
  BY DEF ImportInv
<1> QED
  BY <1>1, <1>2, ImportInitial, PTL DEF ProvisionSpec
-----------------------------------------------------------------------------
(* Nothing twice, and restores that are whole.                             *)

Known == combos \cup before \cup tool.seen

\* Ids are given once, and a combo keeps its name.
IdsName ==
  /\ nextId \in Nat
  /\ \A c \in Known \cup connections \cup tool.conns : c.id \in Nat /\ c.id < nextId
  /\ \A c, d \in Known : c.id = d.id => c.name = d.name

\* What the tools that write combos have listed is still so.
CombosStand ==
  ~raced =>
    /\ tool.op = "local" /\ tool.pc = "write" => tool.seen = combos
    /\ tool.op = "restore" /\ tool.pc = "list more" => tool.seen = combos
    /\ tool.op = "restore" /\ tool.pc \in {"list more", "write", "done"} => tool.seen = before
    /\ tool.op = "restore" /\ tool.pc \in {"write", "done"} => tool.conns = connections

\* What RestoreIsWhole asks of a combo of the file.
InPlace(b) ==
  \E c \in combos :
    /\ c.name = b.name
    /\ \/ c \in before /\ ~tool.overwrite
       \/ /\ c.label = b.label
          /\ IF b.bound /\ Named(connections, b.label) # {}
             THEN \E d \in Named(connections, b.label) : c.conn = d.id
             ELSE c.conn = NoId

\* A restore has dealt with a combo, or it is as it was.
DealtWith(b) ==
  OnceInFile(b) => IF b \in tool.todo THEN Named(combos, b.name) = Named(before, b.name)
                   ELSE InPlace(b)

RestoreGoes ==
  tool.op = "restore" =>
    /\ tool.pc \in {"list", "list more"} => tool.todo = comboFile.combos
    /\ tool.pc = "write" => tool.todo \subseteq comboFile.combos
    /\ tool.pc = "done" => tool.todo = {}
    /\ tool.pc \in {"write", "done"} /\ ~raced => \A b \in comboFile.combos : DealtWith(b)

RestoreInv == ToolShape /\ ListingStands /\ IdsName /\ CombosStand /\ RestoreGoes

LEMMA RestoreInitial == ProvisionInit => RestoreInv /\ NothingTwice
BY DEF ProvisionInit, RestoreInv, ToolShape, ListingStands, IdsName, Known, CombosStand,
       RestoreGoes, NothingTwice, NoTool

\* The first and the last of a listing are of it.
LEMMA FirstAndLatest ==
  ASSUME NEW C, C # {}, NEW n \in Nat, \A c \in C : c.id \in Nat /\ c.id < n
  PROVE  First(C) \in C /\ Latest(C) \in C
<1> DEFINE Ids == {c.id : c \in C}
<1>1. Ids \in SUBSET Nat /\ Ids # {} /\ \A i \in Ids : i < n
  OBVIOUS
<1>2. \E m \in Ids : \A i \in Ids : m <= i
  BY <1>1, LeastNumber
<1>3. \E m \in Ids : \A i \in Ids : i <= m
  BY <1>1, GreatestNumber
<1>4. (\E c \in C : \A d \in C : c.id <= d.id) /\ (\E c \in C : \A d \in C : d.id <= c.id)
  BY <1>2, <1>3
<1>5. First(C) \in C
  BY <1>4 DEF First
<1>6. Latest(C) \in C
  BY <1>4 DEF Latest
<1> QED
  BY <1>5, <1>6

\* At most one combo comes to be known in a step: under a new id, or under an id and
\* the name that goes with it.
LEMMA IdsKept ==
  ASSUME IdsName, nextId' \in {nextId, nextId + 1},
         \A c \in (connections \cup tool.conns)' :
            c \in connections \cup tool.conns \/ (c.id \in Nat /\ c.id < nextId'),
         \/ Known' \subseteq Known
         \/ \E new : /\ Known' \subseteq Known \cup {new}
                     /\ \/ new.id = nextId /\ nextId' = nextId + 1
                        \/ \E d \in Known : new.id = d.id /\ new.name = d.name
  PROVE  IdsName'
<1>1. nextId' \in Nat /\ \A i \in Nat : i < nextId => i < nextId'
  BY DEF IdsName
<1>2. \A c \in (connections \cup tool.conns)' : c.id \in Nat /\ c.id < nextId'
  BY <1>1 DEF IdsName
<1>3. CASE Known' \subseteq Known
  BY <1>1, <1>2, <1>3 DEF IdsName
<1>4. ASSUME NEW new, Known' \subseteq Known \cup {new},
             new.id = nextId, nextId' = nextId + 1
      PROVE  IdsName'
  <2>1. \A c \in Known : c.id # new.id
    BY <1>4 DEF IdsName
  <2> QED
    BY <1>1, <1>2, <1>4, <2>1 DEF IdsName
<1>5. ASSUME NEW new, Known' \subseteq Known \cup {new},
             NEW d \in Known, new.id = d.id, new.name = d.name
      PROVE  IdsName'
  BY <1>1, <1>2, <1>5 DEF IdsName
<1> QED
  BY <1>3, <1>4, <1>5

\* A tool that starts, has ended, or is about connections says nothing of combos.
LEMMA NothingListed ==
  ASSUME \/ tool'.pc \in {"idle"}
         \/ tool'.pc = "done" /\ tool'.op # "restore"
         \/ tool'.pc = "list" /\ (tool'.op = "restore" => tool'.todo = comboFile'.combos)
         \/ tool'.op \notin {"local", "restore"}
  PROVE  CombosStand' /\ RestoreGoes'
BY DEF CombosStand, RestoreGoes

LEMMA AnswerIsLast ==
  ASSUME ToolShape, Answered
  PROVE  /\ tool' = NoTool \/ (tool'.pc = "done" /\ tool'.op = tool.op)
         /\ tool'.seen \in {{}, tool.seen} /\ tool'.conns \in {{}, tool.conns}
BY DEF ToolShape, Answered, Finish, GiveUp, NoTool

\* A tool starts, gives up, reports, or ends a restore.
LEMMA QuietSteps ==
  ASSUME RestoreInv,
         \/ StartProvision \/ StartImport \/ StartLocalCombo \/ StartRestore
         \/ RequestFails \/ Report \/ Backup \/ UNCHANGED provisionVars
  PROVE  IdsName' /\ CombosStand' /\ RestoreGoes'
<1> USE DEF RestoreInv
<1>1. UNCHANGED <<connections, combos, nextId, before>>
  BY DEF StartProvision, StartImport, StartLocalCombo, StartRestore, RequestFails, Report,
         Backup, provisionVars, routerVars
<1>2. CASE UNCHANGED provisionVars
  <2>1. UNCHANGED <<tool, comboFile, raced>>
    BY <1>2 DEF provisionVars, routerVars
  <2>2. IdsName'
    BY <1>1, <2>1 DEF IdsName, Known
  <2>3. CombosStand'
    BY <1>1, <2>1 DEF CombosStand
  <2>4. \A b : InPlace(b)' <=> InPlace(b)
    BY <1>1, <2>1 DEF InPlace, Named
  <2>5. \A b : DealtWith(b)' <=> DealtWith(b)
    BY <1>1, <2>1, <2>4 DEF DealtWith, OnceInFile, Named
  <2>6. RestoreGoes'
    BY <2>1, <2>5 DEF RestoreGoes
  <2> QED
    BY <2>2, <2>3, <2>6
<1>3. CASE Backup
  <2>1. tool' = tool /\ tool.pc = "idle"
    BY <1>3 DEF Backup
  <2> QED
    BY <1>1, <2>1, NothingListed DEF IdsName, Known
<1>4. CASE StartProvision \/ StartImport \/ StartLocalCombo \/ StartRestore
  <2>1. tool'.seen = {} /\ tool'.conns = {} /\ tool'.pc = "list"
        /\ (tool'.op = "restore" => tool'.todo = comboFile'.combos)
    BY <1>4 DEF StartProvision, StartImport, StartLocalCombo, StartRestore, NoTool
  <2>2. Known' \subseteq Known /\ (connections \cup tool.conns)' \subseteq connections
    BY <1>1, <2>1 DEF Known
  <2> QED
    BY <1>1, <2>1, <2>2, IdsKept, NothingListed
<1>5. CASE RequestFails \/ Report
  <2>1. tool'.seen = {} /\ tool'.conns = {} /\ tool'.pc = "idle"
    <3>1. tool' = NoTool
      BY <1>5 DEF RequestFails, Report
    <3> QED
      BY <3>1 DEF NoTool
  <2>2. Known' \subseteq Known /\ (connections \cup tool.conns)' \subseteq connections
    BY <1>1, <2>1 DEF Known
  <2> QED
    BY <1>1, <2>1, <2>2, IdsKept, NothingListed
<1> QED
  BY <1>2, <1>3, <1>4, <1>5

LEMMA ListingSteps ==
  ASSUME RestoreInv, List
  PROVE  IdsName' /\ CombosStand' /\ RestoreGoes'
<1> USE DEF RestoreInv, ToolShape
<1>1. /\ UNCHANGED <<connections, combos, nextId, comboFile>>
      /\ before' \in {before, combos} /\ tool'.seen \in {tool.seen, combos}
      /\ tool'.conns \in {tool.conns, connections}
  BY DEF List, routerVars
<1>2. IdsName'
  <2>1. Known' \subseteq Known
        /\ (connections \cup tool.conns)' \subseteq connections \cup tool.conns
    BY <1>1 DEF Known
  <2> QED
    BY <1>1, <2>1, IdsKept
<1>3. CombosStand'
  BY <1>1 DEF List, CombosStand
<1>4. CASE tool.op # "restore"
  <2>1. tool'.op # "restore"
    BY <1>4 DEF List
  <2> QED
    BY <1>2, <1>3, <2>1 DEF RestoreGoes
<1>5. CASE tool.op = "restore" /\ tool.pc = "list"
  <2>1. tool'.pc = "list more" /\ tool'.todo = tool.todo
    BY <1>5 DEF List
  <2> QED
    BY <1>1, <1>2, <1>3, <1>5, <2>1 DEF RestoreGoes
<1>6. CASE tool.op = "restore" /\ tool.pc = "list more"
  <2>1. tool'.pc = "write" /\ tool'.todo = tool.todo /\ raced' = raced /\ before' = before
    BY <1>6 DEF List
  <2>2. ~raced => combos = before
    BY <1>6 DEF CombosStand
  <2>3. \A b \in comboFile'.combos : ~raced' => DealtWith(b)'
    BY <1>1, <1>6, <2>1, <2>2 DEF RestoreGoes, DealtWith, Named
  <2> QED
    BY <1>1, <1>2, <1>3, <1>6, <2>1, <2>3 DEF RestoreGoes
<1> QED
  BY <1>4, <1>5, <1>6 DEF List

\* The tools that write connections.
LEMMA ConnectionsWritten ==
  ASSUME RestoreInv, WriteConnection \/ WriteSession
  PROVE  IdsName' /\ CombosStand' /\ RestoreGoes'
<1> USE DEF RestoreInv
<1>1. /\ Answered /\ UNCHANGED <<combos, before, comboFile>>
      /\ tool.op \in {"provision", "import"}
  BY DEF WriteConnection, WriteSession, Answered
<1>2. CombosStand' /\ RestoreGoes'
  BY <1>1, AnswerIsLast, NothingListed DEF NoTool
<1>3. Known' \subseteq Known /\ tool'.conns \subseteq tool.conns
  BY <1>1, AnswerIsLast DEF Known
<1>4. /\ nextId' \in {nextId, nextId + 1}
      /\ \A c \in connections' : c \in connections \/ (c.id \in Nat /\ c.id < nextId')
  <2>1. nextId \in Nat /\ nextId < nextId + 1 /\ nextId + 1 \in Nat
    BY DEF IdsName
  <2>2. CASE WriteConnection
    <3> DEFINE mine == Named(tool.conns, LocalName)
               new(i) == [id |-> i, provider |-> "llama-cpp", name |-> LocalName,
                          email |-> NoEmail, session |-> NoEmail]
    <3>1. CASE connections' = connections \cup {new(nextId)} /\ nextId' = nextId + 1
      BY <2>1, <3>1
    <3>2. ASSUME NEW old \in connections, old.id = First(mine).id, nextId' = nextId,
                 connections' \subseteq connections \cup {new(First(mine).id)}
          PROVE  <1>4!2
      BY <3>2 DEF IdsName
    <3>3. CASE UNCHANGED <<connections, nextId>>
      BY <3>3
    <3> QED
      BY <2>2, <3>1, <3>2, <3>3 DEF WriteConnection
  <2>3. CASE WriteSession
    <3> DEFINE new(i) == [id |-> i, provider |-> "codex",
                          name |-> ImportName(tool.conns, tool.email, tool.name),
                          email |-> tool.email, session |-> tool.email]
    <3>1. CASE connections' = connections \cup {new(nextId)} /\ nextId' = nextId + 1
      BY <2>1, <3>1
    <3>2. ASSUME NEW c \in connections, nextId' = nextId,
                 connections' = (connections \ {c}) \cup {new(c.id)}
          PROVE  <1>4!2
      BY <3>2 DEF IdsName
    <3>3. CASE UNCHANGED <<connections, nextId>>
      BY <3>3
    <3> QED
      BY <2>3, <3>1, <3>2, <3>3 DEF WriteSession
  <2> QED
    BY <2>2, <2>3
<1>5. IdsName'
  BY <1>3, <1>4, IdsKept
<1> QED
  BY <1>2, <1>5

\* ensure_local_combo.
LEMMA LocalComboWritten ==
  ASSUME RestoreInv, WriteLocalCombo
  PROVE  IdsName' /\ CombosStand' /\ RestoreGoes'
<1> USE DEF RestoreInv
<1> DEFINE old == Named(tool.seen, LocalCombo)
           new(i) == [id |-> i, name |-> LocalCombo, label |-> LocalName,
                      conn |-> First(Named(tool.conns, LocalName)).id,
                      context |-> tool.context]
<1>1. /\ Answered /\ UNCHANGED <<connections, before>> /\ tool.op = "local"
      /\ \/ UNCHANGED <<combos, nextId>>
         \/ combos' = combos \cup {new(nextId)} /\ nextId' = nextId + 1
         \/ /\ old # {} /\ nextId' = nextId
            /\ combos' \subseteq combos \cup {new(First(old).id)}
  BY DEF WriteLocalCombo, Answered, PostCombo, PutCombo
<1>2. CombosStand' /\ RestoreGoes'
  BY <1>1, AnswerIsLast, NothingListed DEF NoTool
<1>3. tool'.seen \subseteq tool.seen /\ tool'.conns \subseteq tool.conns
  BY <1>1, AnswerIsLast
<1>7. \A c \in (connections \cup tool.conns)' : c \in connections \cup tool.conns
  BY <1>1, <1>3
<1>8. IdsName
  OBVIOUS
<1> HIDE DEF old, new, RestoreInv
<1>4. CASE UNCHANGED <<combos, nextId>>
  <2>1. Known' \subseteq Known
    BY <1>1, <1>3, <1>4 DEF Known
  <2> QED
    BY <1>2, <1>4, <1>7, <1>8, <2>1, IdsKept
<1>5. CASE combos' = combos \cup {new(nextId)} /\ nextId' = nextId + 1
  <2>1. Known' \subseteq Known \cup {new(nextId)} /\ new(nextId).id = nextId
    BY <1>1, <1>3, <1>5 DEF Known, new
  <2> QED
    BY <1>2, <1>5, <1>7, <1>8, <2>1, IdsKept
<1>6. CASE old # {} /\ nextId' = nextId /\ combos' \subseteq combos \cup {new(First(old).id)}
  <2>1. nextId \in Nat /\ \A c \in old : c.id \in Nat /\ c.id < nextId
    BY <1>8 DEF IdsName, Known, Named, old
  <2>2. First(old) \in Known /\ First(old).name = LocalCombo
    BY <1>6, <2>1, FirstAndLatest DEF Named, Known, old
  <2>3. /\ Known' \subseteq Known \cup {new(First(old).id)}
        /\ new(First(old).id).id = First(old).id
        /\ new(First(old).id).name = First(old).name
    BY <1>1, <1>3, <1>6, <2>2 DEF Known, new
  <2> QED
    BY <1>2, <1>6, <1>7, <1>8, <2>2, <2>3, IdsKept
<1> QED
  BY <1>1, <1>2, <1>4, <1>5, <1>6

\* The dashboard leaves a mark, and combos it makes have new ids.
LEMMA DashboardChanges ==
  ASSUME RestoreInv, Dashboard
  PROVE  IdsName' /\ CombosStand' /\ RestoreGoes'
<1> USE DEF RestoreInv
<1>1. UNCHANGED <<comboFile, tool, before>> /\ raced'
  BY DEF Dashboard, AddConnection, RemoveConnection, Rename, AddCombo, Clean, Changed
<1>2. CombosStand' /\ RestoreGoes'
  BY <1>1 DEF CombosStand, RestoreGoes
<1>3. nextId \in Nat /\ nextId < nextId + 1 /\ nextId + 1 \in Nat
  BY DEF IdsName
<1>4. CASE AddConnection
  <2>1. PICK new : connections' = connections \cup {new} /\ new.id = nextId
    <3>1. PICK e \in Emails, known \in BOOLEAN, name \in CodexNames :
            connections' = connections \cup
              {[id |-> nextId, provider |-> "codex", name |-> name,
                email |-> IF known THEN e ELSE NoEmail, session |-> e]}
      BY <1>4 DEF AddConnection
    <3> DEFINE made == [id |-> nextId, provider |-> "codex", name |-> name,
                        email |-> IF known THEN e ELSE NoEmail, session |-> e]
    <3>2. connections' = connections \cup {made} /\ made.id = nextId
      BY <3>1
    <3> HIDE DEF made
    <3> QED
      BY <3>2
  <2>2. nextId' = nextId + 1 /\ combos' = combos
    BY <1>4 DEF AddConnection
  <2>3. Known' \subseteq Known
    BY <1>1, <2>2 DEF Known
  <2>4. \A c \in (connections \cup tool.conns)' :
          c \in connections \cup tool.conns \/ (c.id \in Nat /\ c.id < nextId')
    BY <1>1, <1>3, <2>1, <2>2
  <2> QED
    BY <1>2, <2>2, <2>3, <2>4, IdsKept
<1>5. CASE AddCombo
  <2>1. PICK new : combos' = combos \cup {new} /\ new.id = nextId
    <3>1. PICK name \in ComboNames, c \in connections, pinned \in BOOLEAN :
            combos' = combos \cup {[id |-> nextId, name |-> name, label |-> c.name,
                                    conn |-> IF pinned THEN c.id ELSE NoId,
                                    context |-> 0]}
      BY <1>5 DEF AddCombo
    <3> DEFINE made == [id |-> nextId, name |-> name, label |-> c.name,
                        conn |-> IF pinned THEN c.id ELSE NoId, context |-> 0]
    <3>2. combos' = combos \cup {made} /\ made.id = nextId
      BY <3>1
    <3> HIDE DEF made
    <3> QED
      BY <3>2
  <2>2. nextId' = nextId + 1 /\ connections' = connections
    BY <1>5 DEF AddCombo
  <2>3. Known' \subseteq Known \cup {new}
    BY <1>1, <2>1 DEF Known
  <2> QED
    BY <1>1, <1>2, <2>1, <2>2, <2>3, IdsKept
<1>6. CASE Rename
  <2>1. PICK c \in connections, name \in CodexNames :
          connections' = (connections \ {c}) \cup {[c EXCEPT !.name = name]}
    BY <1>6 DEF Rename
  <2>2. [c EXCEPT !.name = name].id = c.id
    OBVIOUS
  <2>3. nextId' = nextId /\ combos' = combos
    BY <1>6 DEF Rename
  <2>4. \A d \in connections' : d \in connections \/ (d.id \in Nat /\ d.id < nextId')
    BY <2>1, <2>2, <2>3 DEF IdsName
  <2>5. Known' \subseteq Known
    BY <1>1, <2>3 DEF Known
  <2> QED
    BY <1>1, <1>2, <2>3, <2>4, <2>5, IdsKept
<1>7. CASE RemoveConnection \/ Clean
  <2>1. connections' \subseteq connections /\ combos' \subseteq combos /\ nextId' = nextId
    BY <1>7 DEF RemoveConnection, Clean
  <2>2. Known' \subseteq Known
    BY <1>1, <2>1 DEF Known
  <2> QED
    BY <1>1, <1>2, <2>1, <2>2, IdsKept
<1> QED
  BY <1>4, <1>5, <1>6, <1>7 DEF Dashboard

LEMMA RestoreReports ==
  ASSUME RestoreInv, RestoreEnds
  PROVE  IdsName' /\ CombosStand' /\ RestoreGoes'
<1> USE DEF RestoreInv, ToolShape
<1>1. /\ UNCHANGED <<connections, combos, nextId, comboFile, before, raced>>
      /\ tool.op = "restore" /\ tool.pc = "write" /\ tool.todo = {}
      /\ tool' = [tool EXCEPT !.pc = "done"]
  BY DEF RestoreEnds, Finish, routerVars
<1>2. /\ tool'.pc = "done"
      /\ \A f \in {"op", "seen", "conns", "todo", "overwrite"} : tool'[f] = tool[f]
  BY <1>1
<1>3. IdsName'
  BY <1>1, <1>2, IdsKept DEF Known
<1>4. CombosStand'
  BY <1>1, <1>2 DEF CombosStand
<1>5. \A b : DealtWith(b) => DealtWith(b)'
  BY <1>1, <1>2 DEF DealtWith, InPlace, OnceInFile, Named
<1> QED
  BY <1>1, <1>2, <1>3, <1>4, <1>5 DEF RestoreGoes

\* A combo of the file that a restore writes or skips, and what becomes of the others.
LEMMA RestoreDealsWith ==
  ASSUME RestoreInv, ~raced, tool.pc = "write", tool.op = "restore", NEW b \in tool.todo,
         UNCHANGED <<connections, comboFile, before>>, nextId \in Nat,
         tool' = [tool EXCEPT !.todo = @ \ {b}],
         NEW new, new.name = b.name, new.label = b.label,
         new.conn = Remapped(tool.conns, b),
         \/ /\ new.id = nextId /\ combos' = combos \cup {new}
            /\ Named(tool.seen, b.name) = {}
         \/ /\ Named(tool.seen, b.name) # {} /\ tool.overwrite
            /\ new.id = Latest(Named(tool.seen, b.name)).id
            /\ combos' = {c \in combos : c.id # new.id} \cup {new}
         \/ /\ Named(tool.seen, b.name) # {} /\ ~tool.overwrite
            /\ combos' = combos
  PROVE  (\A d \in comboFile.combos : DealtWith(d))'
<1>1. /\ tool.seen = before /\ tool.conns = connections
      /\ b \in comboFile.combos /\ \A d \in comboFile.combos : DealtWith(d)
  BY DEF RestoreInv, CombosStand, RestoreGoes
<1>2. /\ tool'.todo = tool.todo \ {b} /\ tool'.overwrite = tool.overwrite
  BY DEF RestoreInv, ToolShape
<1>3. ASSUME Named(tool.seen, b.name) # {}
      PROVE  Latest(Named(tool.seen, b.name)) \in Named(tool.seen, b.name)
  <2>1. \A c \in Named(tool.seen, b.name) : c.id \in Nat /\ c.id < nextId
    BY DEF Named, RestoreInv, IdsName, Known
  <2> QED
    BY <1>3, <2>1, FirstAndLatest
<1>4. ASSUME NEW c, c.name # b.name PROVE c \in combos' <=> c \in combos
  <2>1. CASE Named(tool.seen, b.name) = {} \/ ~tool.overwrite
    BY <1>4, <2>1
  <2>2. ASSUME Named(tool.seen, b.name) # {}, c \in combos,
               c.id = Latest(Named(tool.seen, b.name)).id
        PROVE  FALSE
    BY <1>3, <1>4, <2>2 DEF RestoreInv, IdsName, Known, Named
  <2> QED
    BY <1>4, <2>1, <2>2
<1>5. ASSUME NEW d \in comboFile.combos, OnceInFile(d), d # b
      PROVE  DealtWith(d)'
  <2>1. d.name # b.name
    BY <1>1, <1>5 DEF OnceInFile
  <2>2. Named(combos', d.name) = Named(combos, d.name)
    BY <1>4, <2>1 DEF Named
  <2>3. CASE d \in tool.todo
    BY <1>1, <1>2, <1>5, <2>2, <2>3 DEF DealtWith, Named
  <2>4. CASE d \notin tool.todo
    <3>1. InPlace(d)
      BY <1>1, <1>5, <2>4 DEF DealtWith
    <3>2. InPlace(d)'
      BY <1>2, <1>4, <2>1, <3>1 DEF InPlace, Named
    <3> QED
      BY <1>2, <2>4, <3>2 DEF DealtWith
  <2> QED
    BY <2>3, <2>4
<1>6. ASSUME OnceInFile(b) PROVE InPlace(b)'
  <2>1. CASE new \in combos'
    <3>1. CASE ~b.bound \/ Named(connections, b.label) = {}
      BY <1>1, <2>1, <3>1 DEF InPlace, Remapped, Named
    <3>2. CASE b.bound /\ Named(connections, b.label) # {}
      <4>1. \A c \in Named(connections, b.label) : c.id \in Nat /\ c.id < nextId
        BY DEF Named, RestoreInv, IdsName
      <4>2. Latest(Named(connections, b.label)) \in Named(connections, b.label)
        BY <3>2, <4>1, FirstAndLatest
      <4>3. new.conn = Latest(Named(connections, b.label)).id
        BY <1>1, <3>2 DEF Remapped
      <4> QED
        BY <2>1, <3>2, <4>2, <4>3 DEF InPlace, Named
    <3> QED
      BY <3>1, <3>2
  <2>2. CASE combos' = combos /\ Named(tool.seen, b.name) # {} /\ ~tool.overwrite
    <3>1. Named(combos, b.name) = Named(before, b.name)
      BY <1>1, <1>6 DEF DealtWith
    <3>2. PICK c \in Named(before, b.name) : c \in combos
      BY <1>1, <2>2, <3>1 DEF Named
    <3> QED
      BY <1>2, <2>2, <3>2 DEF InPlace, Named
  <2> QED
    BY <2>1, <2>2
<1>7. DealtWith(b)'
  BY <1>2, <1>6 DEF DealtWith, OnceInFile
<1>8. ASSUME NEW d \in comboFile.combos PROVE DealtWith(d)'
  <2>1. OnceInFile(d)' <=> OnceInFile(d)
    BY DEF OnceInFile
  <2> QED
    BY <1>5, <1>7, <2>1 DEF DealtWith
<1> QED
  BY <1>8

LEMMA RestoreStep ==
  ASSUME RestoreInv, RestoreOne
  PROVE  IdsName' /\ CombosStand' /\ RestoreGoes'
<1>1. /\ UNCHANGED <<connections, comboFile, before, raced>>
      /\ tool.pc = "write" /\ tool.op = "restore" /\ nextId \in Nat
  BY DEF RestoreOne, RestoreInv, IdsName
<1>2. PICK b, new :
        /\ b \in tool.todo /\ new.name = b.name /\ new.label = b.label
        /\ new.conn = Remapped(tool.conns, b)
        /\ \/ /\ new.id = nextId /\ combos' = combos \cup {new} /\ nextId' = nextId + 1
              /\ Named(tool.seen, b.name) = {}
           \/ /\ Named(tool.seen, b.name) # {} /\ tool.overwrite /\ nextId' = nextId
              /\ new.id = Latest(Named(tool.seen, b.name)).id
              /\ combos' = {c \in combos : c.id # new.id} \cup {new}
           \/ /\ Named(tool.seen, b.name) # {} /\ ~tool.overwrite
              /\ UNCHANGED <<combos, nextId>>
        /\ tool' = [tool EXCEPT !.todo = @ \ {b}] \/ GiveUp
  <2>1. PICK b \in tool.todo :
          LET old    == Named(tool.seen, b.name)
              new(i) == [id |-> i, name |-> b.name, label |-> b.label, context |-> 0,
                         conn |-> Remapped(tool.conns, b)]
              goOn   == tool' = [tool EXCEPT !.todo = @ \ {b}]
          IN  \/ old = {} /\ PostCombo(new(nextId), OnceInFile(b)) /\ (goOn \/ GiveUp)
              \/ /\ old # {} /\ tool.overwrite
                 /\ PutCombo(Latest(old), new(Latest(old).id)) /\ (goOn \/ GiveUp)
              \/ /\ old # {} /\ ~tool.overwrite
                 /\ goOn /\ UNCHANGED <<combos, nextId, doubled>>
    BY DEF RestoreOne
  <2> DEFINE old    == Named(tool.seen, b.name)
             new(i) == [id |-> i, name |-> b.name, label |-> b.label, context |-> 0,
                        conn |-> Remapped(tool.conns, b)]
  <2>2. \A i : /\ new(i).id = i /\ new(i).name = b.name /\ new(i).label = b.label
               /\ new(i).conn = Remapped(tool.conns, b)
    OBVIOUS
  <2>3. \/ /\ combos' = combos \cup {new(nextId)} /\ nextId' = nextId + 1
           /\ old = {} /\ (tool' = [tool EXCEPT !.todo = @ \ {b}] \/ GiveUp)
        \/ /\ old # {} /\ tool.overwrite /\ nextId' = nextId
           /\ combos' = {c \in combos : c.id # Latest(old).id} \cup {new(Latest(old).id)}
           /\ (tool' = [tool EXCEPT !.todo = @ \ {b}] \/ GiveUp)
        \/ /\ old # {} /\ ~tool.overwrite /\ UNCHANGED <<combos, nextId>>
           /\ tool' = [tool EXCEPT !.todo = @ \ {b}]
    BY <2>1 DEF PostCombo, PutCombo
  <2> HIDE DEF new, old
  <2>4. \E n : /\ n.name = b.name /\ n.label = b.label
               /\ n.conn = Remapped(tool.conns, b)
               /\ \/ /\ n.id = nextId /\ combos' = combos \cup {n} /\ nextId' = nextId + 1
                     /\ old = {}
                  \/ /\ old # {} /\ tool.overwrite /\ nextId' = nextId
                     /\ n.id = Latest(old).id
                     /\ combos' = {c \in combos : c.id # n.id} \cup {n}
                  \/ /\ old # {} /\ ~tool.overwrite
                     /\ UNCHANGED <<combos, nextId>>
    <3>1. CASE nextId' = nextId + 1 /\ combos' = combos \cup {new(nextId)} /\ old = {}
      BY <2>2, <3>1
    <3>2. CASE /\ old # {} /\ tool.overwrite /\ nextId' = nextId
               /\ combos' = {c \in combos : c.id # Latest(old).id} \cup {new(Latest(old).id)}
      BY <2>2, <3>2
    <3>3. CASE old # {} /\ ~tool.overwrite /\ UNCHANGED <<combos, nextId>>
      BY <2>2, <3>3
    <3> QED
      BY <2>3, <3>1, <3>2, <3>3
  <2> QED
    BY <2>3, <2>4 DEF old
<1>3. tool'.seen \subseteq tool.seen /\ tool'.conns \subseteq tool.conns
  <2>1. CASE tool' = [tool EXCEPT !.todo = @ \ {b}]
    BY <2>1 DEF RestoreInv, ToolShape
  <2>2. CASE GiveUp
    BY <2>2 DEF GiveUp, NoTool
  <2> QED
    BY <1>2, <2>1, <2>2
<1>4. IdsName'
  <2>1. \A c \in (connections \cup tool.conns)' : c \in connections \cup tool.conns
    BY <1>1, <1>3
  <2>2. IdsName
    BY DEF RestoreInv
  <2>3. CASE UNCHANGED <<combos, nextId>>
    <3>1. Known' \subseteq Known
      BY <1>1, <1>3, <2>3 DEF Known
    <3> QED
      BY <2>1, <2>2, <2>3, <3>1, IdsKept
  <2>4. CASE new.id = nextId /\ combos' = combos \cup {new} /\ nextId' = nextId + 1
    <3>1. Known' \subseteq Known \cup {new}
      BY <1>1, <1>3, <2>4 DEF Known
    <3> QED
      BY <2>1, <2>2, <2>4, <3>1, IdsKept
  <2>5. CASE /\ Named(tool.seen, b.name) # {} /\ nextId' = nextId
             /\ new.id = Latest(Named(tool.seen, b.name)).id
             /\ combos' = {c \in combos : c.id # new.id} \cup {new}
    <3>1. Known' \subseteq Known \cup {new}
      BY <1>1, <1>3, <2>5 DEF Known
    <3>2. \A c \in Named(tool.seen, b.name) : c.id \in Nat /\ c.id < nextId
      BY <2>2 DEF Named, IdsName, Known
    <3>3. Latest(Named(tool.seen, b.name)) \in Named(tool.seen, b.name)
      BY <1>1, <2>5, <3>2, FirstAndLatest
    <3>4. PICK d \in Known : new.id = d.id /\ new.name = d.name
      BY <1>2, <2>5, <3>3 DEF Named, Known
    <3> QED
      BY <2>1, <2>2, <2>5, <3>1, <3>4, IdsKept
  <2> QED
    BY <1>2, <2>3, <2>4, <2>5
<1>5. CASE GiveUp
  <2>1. tool'.pc = "idle"
    BY <1>5 DEF GiveUp, NoTool
  <2> QED
    BY <1>4, <2>1, NothingListed
<1>6. CASE tool' = [tool EXCEPT !.todo = @ \ {b}]
  <2>1. /\ tool'.todo = tool.todo \ {b} /\ tool'.pc = "write" /\ tool'.op = "restore"
        /\ tool'.seen = tool.seen /\ tool'.conns = tool.conns
    BY <1>1, <1>6 DEF RestoreInv, ToolShape
  <2>2. CombosStand'
    BY <1>1, <2>1 DEF RestoreInv, CombosStand
  <2>3. ~raced => (\A d \in comboFile.combos : DealtWith(d))'
    <3>1. SUFFICES ASSUME ~raced PROVE (\A d \in comboFile.combos : DealtWith(d))'
      OBVIOUS
    <3> QED
      BY <1>1, <1>2, <1>6, <3>1, RestoreDealsWith
  <2>4. tool'.todo \subseteq comboFile'.combos
    BY <1>1, <2>1 DEF RestoreInv, RestoreGoes
  <2> QED
    BY <1>1, <1>4, <2>1, <2>2, <2>3, <2>4 DEF RestoreGoes
<1> QED
  BY <1>2, <1>5, <1>6

LEMMA RestoreIsKept ==
  ASSUME RestoreInv, ImportInv, [ProvisionNext]_provisionVars
  PROVE  RestoreInv'
<1>1. ToolShape' /\ ListingStands'
  BY ImportIsKept DEF ImportInv
<1>2. IdsName' /\ CombosStand' /\ RestoreGoes'
  BY QuietSteps, ListingSteps, ConnectionsWritten, LocalComboWritten, RestoreStep,
     RestoreReports, DashboardChanges DEF ProvisionNext, Tool
<1> QED
  BY <1>1, <1>2 DEF RestoreInv

\* However often a tool fails after its request had its effect and is repeated, and
\* whoever lists and writes in between, no connection and no combo is made a second
\* time by a tool that nobody has raced.  (provision, ensure_local_combo,
\* restore_combos)
THEOREM NothingIsDoubled == ProvisionSpec => []NothingTwice
<1>1. ASSUME RestoreInv, NothingTwice, [ProvisionNext]_provisionVars
      PROVE  NothingTwice'
  <2> USE <1>1 DEF NothingTwice
  <2>1. CASE WriteConnection
    <3>1. Named(tool.conns, LocalName) = {} /\ ~raced => Named(connections, LocalName) = {}
      BY <2>1 DEF RestoreInv, ListingStands, WriteConnection
    <3> QED
      BY <2>1, <3>1 DEF WriteConnection, Twice
  <2>2. CASE WriteLocalCombo
    <3>1. Named(tool.seen, LocalCombo) = {} /\ ~raced => Named(combos, LocalCombo) = {}
      BY <2>2 DEF RestoreInv, CombosStand, WriteLocalCombo
    <3> QED
      BY <2>2, <3>1 DEF WriteLocalCombo, PostCombo, PutCombo, Twice
  <2>3. CASE RestoreOne
    <3>1. ASSUME NEW b \in tool.todo, ~raced, OnceInFile(b), Named(tool.seen, b.name) = {}
          PROVE  Named(combos, b.name) = {}
      <4>1. /\ tool.seen = before /\ b \in comboFile.combos
            /\ \A d \in comboFile.combos : DealtWith(d)
        BY <2>3, <3>1 DEF RestoreOne, RestoreInv, CombosStand, RestoreGoes
      <4> QED
        BY <3>1, <4>1 DEF DealtWith
    <3> QED
      BY <2>3, <3>1 DEF RestoreOne, PostCombo, PutCombo, Twice
  <2>4. CASE doubled' = doubled
    BY <2>4
  <2> QED
    BY <2>1, <2>2, <2>3, <2>4
       DEF ProvisionNext, provisionVars, Tool, Dashboard, StartProvision, StartImport,
           StartLocalCombo, StartRestore, List, RequestFails, WriteSession, RestoreEnds,
           Backup, Report, AddConnection, RemoveConnection, Rename, AddCombo, Clean, Changed
<1> QED
  BY <1>1, ImportIsKept, RestoreIsKept, ImportInitial, RestoreInitial, PTL DEF ProvisionSpec

\* A restore that ends, undisturbed, leaves every combo the file has once in place,
\* whichever order it took them in and whatever was there.  (restore_combos,
\* _remap_combo_connection_ids)
THEOREM RestoresAreWhole == ProvisionSpec => []RestoreIsWhole
<1>1. RestoreInv => RestoreIsWhole
  <2> SUFFICES ASSUME RestoreInv, tool.pc = "done", tool.op = "restore", ~raced,
                      NEW b \in comboFile.combos, OnceInFile(b)
               PROVE  InPlace(b)
    BY DEF RestoreIsWhole, InPlace
  <2>1. tool.todo = {} /\ DealtWith(b)
    BY DEF RestoreInv, RestoreGoes
  <2> QED
    BY <2>1 DEF DealtWith
<1> QED
  BY <1>1, ImportIsKept, RestoreIsKept, ImportInitial, RestoreInitial, PTL DEF ProvisionSpec

-----------------------------------------------------------------------------
(* The capacity card.                                                      *)

\* What a depth section says was swept, for the build it names.
DepthSwept(section) ==
  section # NoSection =>
    /\ section.fp \in Entries /\ section.measured \in Nat
    /\ \E s \in sweeps : s.build = section.fp.build /\ s.depth = section.measured

\* What a gate section says has passed, has, or models.yml was changed under it.
GatePassed(section) ==
  section # NoSection =>
    section.fp \in Entries /\ (section.passed => section.fp \in gatesPassed \cup untested)

CardMeasured(c) == DepthSwept(c.depth) /\ GatePassed(c.gate)

\* A command's report is of the gate it has run, and what it is about to save is
\* measured.
FilerMeasured(f) ==
  /\ {"pc", "ran", "passed", "card"} = DOMAIN f
  /\ {"depth", "gate"} = DOMAIN f.card /\ CardMeasured(f.card)
  /\ f.pc = "report" /\ f.passed => f.ran \in gatesPassed

CardInv ==
  /\ entry \in Entries
  /\ \A s \in sweeps : s.depth \in Nat
  /\ DOMAIN filer = Filers
  /\ {"depth", "gate"} = DOMAIN card
  /\ CardMeasured(card)
  /\ \A w \in Filers : FilerMeasured(filer[w])

LEMMA BlankIsMeasured ==
  {"depth", "gate"} = DOMAIN NoCard /\ CardMeasured(NoCard) /\ FilerMeasured(IdleFiler)
BY DEF NoCard, CardMeasured, DepthSwept, GatePassed, FilerMeasured, IdleFiler

LEMMA CardInitial == CardInit => CardInv
BY BlankIsMeasured DEF CardInit, CardInv

\* Sweeps are kept, and so are gates.
LEMMA MeasuredStays ==
  ASSUME sweeps \subseteq sweeps', gatesPassed \subseteq gatesPassed',
         untested \subseteq untested'
  PROVE  /\ \A section : DepthSwept(section) => DepthSwept(section)'
         /\ \A section : GatePassed(section) => GatePassed(section)'
         /\ \A c : CardMeasured(c) => CardMeasured(c)'
         /\ \A f : FilerMeasured(f) => FilerMeasured(f)'
<1>1. \A section : DepthSwept(section) => DepthSwept(section)'
  BY DEF DepthSwept
<1>2. \A section : GatePassed(section) => GatePassed(section)'
  BY DEF GatePassed
<1>3. \A c : CardMeasured(c) => CardMeasured(c)'
  BY <1>1, <1>2 DEF CardMeasured
<1>4. \A f : FilerMeasured(f) => FilerMeasured(f)'
  BY <1>3 DEF FilerMeasured
<1> QED
  BY <1>1, <1>2, <1>3, <1>4

\* What a command comes to be in a step.
LEMMA FilerStep ==
  ASSUME CardInv, sweeps' = sweeps, gatesPassed \subseteq gatesPassed',
         untested \subseteq untested', entry' = entry,
         {"depth", "gate"} = DOMAIN card', CardMeasured(card)',
         NEW w \in Filers, NEW new, filer' = [filer EXCEPT ![w] = new], FilerMeasured(new)'
  PROVE  CardInv'
<1>1. ASSUME NEW v \in Filers PROVE FilerMeasured(filer[v])'
  <2>1. PICK f, g : f = filer[v] /\ g = filer'[v]
    OBVIOUS
  <2>2. FilerMeasured(g)'
    <3>1. g = new \/ g = f
      BY <2>1 DEF CardInv
    <3>2. FilerMeasured(f)
      BY <2>1 DEF CardInv
    <3> QED
      BY <3>1, <3>2, MeasuredStays
  <2> QED
    BY <2>1, <2>2
<1> QED
  BY <1>1 DEF CardInv

LEMMA SaveStep ==
  ASSUME CardInv, NEW w \in Filers, SaveCard(w)
  PROVE  CardInv'
<1>1. /\ card' \in {card, filer[w].card} /\ filer' = [filer EXCEPT ![w] = IdleFiler]
      /\ UNCHANGED <<entry, sweeps, gatesPassed, untested>>
  BY DEF SaveCard, gateHistory
<1>2. PICK new, c : new = IdleFiler /\ c = card'
  OBVIOUS
<1>3. {"depth", "gate"} = DOMAIN c /\ CardMeasured(c) /\ FilerMeasured(new)
  BY <1>1, <1>2, BlankIsMeasured DEF CardInv, FilerMeasured
<1>4. CardMeasured(c)' /\ FilerMeasured(new)'
  BY <1>1, <1>3, MeasuredStays
<1> QED
  BY <1>1, <1>2, <1>3, <1>4, FilerStep

LEMMA GateSteps ==
  ASSUME CardInv, NEW w \in Filers, StartGate(w) \/ EndGate(w)
  PROVE  CardInv'
<1>1. /\ UNCHANGED <<entry, sweeps, card, untested>> /\ gatesPassed \subseteq gatesPassed'
      /\ CardMeasured(card)' /\ {"depth", "gate"} = DOMAIN card'
  <2>1. UNCHANGED <<entry, sweeps, card, untested>> /\ gatesPassed \subseteq gatesPassed'
    BY DEF StartGate, EndGate, gateHistory
  <2>2. PICK c : c = card
    OBVIOUS
  <2>3. CardMeasured(c)'
    BY <2>1, <2>2, MeasuredStays DEF CardInv
  <2> QED
    BY <2>1, <2>2, <2>3 DEF CardInv
<1>2. CASE StartGate(w)
  <2>1. PICK new : /\ new = [IdleFiler EXCEPT !.pc = "gate", !.ran = entry]
                   /\ filer' = [filer EXCEPT ![w] = new]
    BY <1>2 DEF StartGate
  <2>2. /\ {"pc", "ran", "passed", "card"} = DOMAIN new /\ new.pc = "gate"
        /\ new.card = NoCard
    BY <2>1 DEF IdleFiler
  <2>3. FilerMeasured(new)
    BY <2>2, BlankIsMeasured DEF FilerMeasured
  <2>4. FilerMeasured(new)'
    BY <1>1, <2>3, MeasuredStays
  <2> QED
    BY <1>1, <2>1, <2>4, FilerStep
<1>3. CASE EndGate(w)
  <2>1. CASE filer' = [filer EXCEPT ![w] = IdleFiler]
    <3>1. PICK new : new = IdleFiler
      OBVIOUS
    <3>2. FilerMeasured(new)'
      BY <1>1, <3>1, BlankIsMeasured, MeasuredStays
    <3> QED
      BY <1>1, <2>1, <3>1, <3>2, FilerStep
  <2>2. ASSUME NEW passed \in BOOLEAN,
               filer' = [filer EXCEPT ![w] = [@ EXCEPT !.pc = "report", !.passed = passed]],
               gatesPassed' = gatesPassed \cup (IF passed THEN {filer[w].ran} ELSE {})
        PROVE  CardInv'
    <3>1. PICK old, new : /\ old = filer[w]
                          /\ new = [old EXCEPT !.pc = "report", !.passed = passed]
      OBVIOUS
    <3>2. FilerMeasured(old) /\ filer' = [filer EXCEPT ![w] = new]
      BY <2>2, <3>1 DEF CardInv
    <3>3. /\ {"pc", "ran", "passed", "card"} = DOMAIN new
          /\ new.card = old.card /\ new.ran = old.ran /\ new.passed = passed
      BY <3>1, <3>2 DEF FilerMeasured
    <3>4. CardMeasured(new.card)'
      <4>1. PICK c : c = new.card
        OBVIOUS
      <4>2. CardMeasured(c)
        BY <3>2, <3>3, <4>1 DEF FilerMeasured
      <4>3. CardMeasured(c)'
        BY <1>1, <4>2, MeasuredStays
      <4> QED
        BY <4>1, <4>3
    <3>5. passed => new.ran \in gatesPassed'
      BY <2>2, <3>1, <3>3
    <3>6. FilerMeasured(new)'
      BY <3>2, <3>3, <3>4, <3>5 DEF FilerMeasured
    <3> QED
      BY <1>1, <3>2, <3>6, FilerStep
  <2> QED
    BY <1>3, <2>1, <2>2 DEF EndGate
<1> QED
  BY <1>2, <1>3

\* A section that is stamped with the entry of now.
LEMMA FilingSteps ==
  ASSUME CardInv, NEW w \in Filers, FileReport(w) \/ FileSweep(w)
  PROVE  CardInv'
<1>1. /\ UNCHANGED <<entry, sweeps, card, gatesPassed>> /\ untested \subseteq untested'
      /\ CardMeasured(card)' /\ {"depth", "gate"} = DOMAIN card'
  <2>1. UNCHANGED <<entry, sweeps, card, gatesPassed>> /\ untested \subseteq untested'
    BY DEF FileReport, FileSweep, gateHistory
  <2>2. PICK c : c = card
    OBVIOUS
  <2>3. CardMeasured(c)'
    BY <2>1, <2>2, MeasuredStays DEF CardInv
  <2> QED
    BY <2>1, <2>2, <2>3 DEF CardInv
<1>2. PICK old : old = filer[w] /\ FilerMeasured(old)
  BY DEF CardInv
<1>3. ASSUME NEW c, {"depth", "gate"} = DOMAIN c, DepthSwept(c.depth)', GatePassed(c.gate)',
             filer' = [filer EXCEPT ![w] = [@ EXCEPT !.pc = "save", !.card = c]]
      PROVE  CardInv'
  <2>1. PICK new : new = [old EXCEPT !.pc = "save", !.card = c]
    OBVIOUS
  <2>2. filer' = [filer EXCEPT ![w] = new]
    BY <1>2, <1>3, <2>1 DEF CardInv
  <2>3. /\ {"pc", "ran", "passed", "card"} = DOMAIN new
        /\ new.card = c /\ new.pc = "save"
    BY <1>2, <2>1 DEF FilerMeasured
  <2>4. FilerMeasured(new)'
    BY <1>3, <2>3 DEF FilerMeasured, CardMeasured
  <2> QED
    BY <1>1, <2>2, <2>4, FilerStep
<1>4. CASE FileReport(w)
  <2>1. PICK section, c : /\ section = [fp |-> entry, passed |-> old.passed]
                          /\ c = [card EXCEPT !.gate = section]
    OBVIOUS
  <2>2. c.gate = section /\ c.depth = card.depth /\ {"depth", "gate"} = DOMAIN c
    BY <2>1 DEF CardInv
  <2>3. section.fp = entry /\ section.passed = old.passed
    BY <2>1
  <2>4. filer' = [filer EXCEPT ![w] = [@ EXCEPT !.pc = "save", !.card = c]]
    BY <1>2, <1>4, <2>1 DEF FileReport
  <2>5. DepthSwept(c.depth)'
    BY <1>1, <2>2 DEF CardInv, CardMeasured, DepthSwept
  <2>6. old.passed => entry \in gatesPassed \cup untested'
    BY <1>2, <1>4 DEF FileReport, FilerMeasured
  <2>7. GatePassed(c.gate)'
    BY <1>1, <2>2, <2>3, <2>6 DEF GatePassed, CardInv
  <2> QED
    BY <1>3, <2>2, <2>4, <2>5, <2>7
<1>5. CASE FileSweep(w)
  <2>1. PICK s \in sweeps :
          /\ s.build = entry.build
          /\ filer' = [filer EXCEPT ![w] = [@ EXCEPT !.pc = "save", !.card =
                [card EXCEPT !.depth = [fp |-> entry, measured |-> s.depth]]]]
    BY <1>5 DEF FileSweep
  <2>2. PICK section, c : /\ section = [fp |-> entry, measured |-> s.depth]
                          /\ c = [card EXCEPT !.depth = section]
    OBVIOUS
  <2>3. c.depth = section /\ c.gate = card.gate /\ {"depth", "gate"} = DOMAIN c
    BY <2>2 DEF CardInv
  <2>4. section.fp = entry /\ section.measured = s.depth
    BY <2>2
  <2>5. filer' = [filer EXCEPT ![w] = [@ EXCEPT !.pc = "save", !.card = c]]
    BY <2>1, <2>2
  <2>6. DepthSwept(c.depth)'
    BY <1>1, <2>1, <2>3, <2>4 DEF DepthSwept, CardInv
  <2>7. GatePassed(c.gate)'
    BY <1>1, <2>3 DEF CardInv, CardMeasured, GatePassed
  <2> QED
    BY <1>3, <2>3, <2>5, <2>6, <2>7
<1> QED
  BY <1>4, <1>5

LEMMA CardIsKept ==
  ASSUME CardInv, [CardNext]_cardVars
  PROVE  CardInv'
<1>1. CASE Sweep \/ EditEntry \/ AskCombo \/ UNCHANGED cardVars
  <2>1. /\ UNCHANGED <<card, filer, gatesPassed, untested>> /\ sweeps \subseteq sweeps'
        /\ entry' \in Entries
    <3>1. entry \in Entries
      BY DEF CardInv
    <3>2. UNCHANGED <<card, filer, gatesPassed, untested>>
      BY <1>1 DEF Sweep, EditEntry, AskCombo, cardVars, gateHistory
    <3>3. sweeps \subseteq sweeps'
      BY <1>1 DEF Sweep, EditEntry, AskCombo, cardVars
    <3>4. entry' = entry \/ entry' \in Entries
      BY <1>1 DEF Sweep, EditEntry, AskCombo, cardVars
    <3> QED
      BY <3>1, <3>2, <3>3, <3>4
  <2>2. \A s \in sweeps' : s.depth \in Nat
    <3>1. \A s \in sweeps : s.depth \in Nat
      BY DEF CardInv
    <3>2. CASE Sweep
      <4>1. PICK d \in Depths : sweeps' = sweeps \cup {[build |-> entry.build, depth |-> d]}
        BY <3>2 DEF Sweep
      <4>2. d \in Nat
        BY CardAssumption
      <4> QED
        BY <3>1, <4>1, <4>2
    <3>3. CASE sweeps' = sweeps
      BY <3>1, <3>3
    <3> QED
      BY <1>1, <3>2, <3>3 DEF EditEntry, AskCombo, cardVars
  <2>3. CardMeasured(card)'
    <3>1. PICK c : c = card
      OBVIOUS
    <3>2. CardMeasured(c)'
      BY <2>1, <3>1, MeasuredStays DEF CardInv
    <3> QED
      BY <2>1, <3>1, <3>2
  <2>4. ASSUME NEW w \in Filers PROVE FilerMeasured(filer[w])'
    <3>1. PICK f : f = filer[w]
      OBVIOUS
    <3>2. FilerMeasured(f)'
      BY <2>1, <3>1, MeasuredStays DEF CardInv
    <3> QED
      BY <2>1, <3>1, <3>2
  <2> QED
    BY <2>1, <2>2, <2>3, <2>4 DEF CardInv
<1>2. ASSUME NEW w \in Filers,
             StartGate(w) \/ EndGate(w) \/ FileReport(w) \/ FileSweep(w) \/ SaveCard(w)
      PROVE  CardInv'
  BY <1>2, GateSteps, FilingSteps, SaveStep
<1> QED
  BY <1>1, <1>2 DEF CardNext

\* The least of a set is one of it and no more than any other.
LEMMA MinIsLeast ==
  ASSUME NEW S \in SUBSET Nat, S # {}
  PROVE  Min(S) \in S /\ \A n \in S : Min(S) <= n
<1>1. \E m \in S : \A n \in S : m <= n
  BY LeastNumber
<1> QED
  BY <1>1 DEF Min

\* However models.yml was edited and reverted and whichever commands overlapped,
\* what the card says is usable was swept that deep in the same build, and a gate begun
\* with this entry has passed, unless the entry is what a gate's report found when it
\* was filed and not what the gate began with.  (usable, write_card)
THEOREM CardIsMeasured == CardSpec => []UsableIsMeasured
<1>1. CardInv => UsableIsMeasured
  <2> SUFFICES ASSUME CardInv, UsableContext(entry) # Unknown
               PROVE  /\ entry \in gatesPassed \cup untested
                      /\ \E s \in sweeps : /\ s.build = entry.build
                                           /\ UsableContext(entry) <= s.depth + BenchPrompt
                      /\ UsableContext(entry) <= entry.ctx
    BY DEF UsableIsMeasured
  <2>1. entry.ctx \in Nat \ {0} /\ BenchPrompt \in Nat /\ entry # NoConfig
    BY CardAssumption DEF CardInv, NoConfig
  <2>2. card.depth.fp = entry /\ card.gate.fp = entry /\ card.gate.passed
    BY DEF UsableContext, IsCurrent
  <2>3. card.depth # NoSection /\ card.gate # NoSection
    BY <2>1, <2>2 DEF NoSection
  <2>4. entry \in gatesPassed \cup untested
    BY <2>2, <2>3 DEF CardInv, CardMeasured, GatePassed
  <2>5. PICK s \in sweeps : s.build = entry.build /\ s.depth = card.depth.measured
    BY <2>2, <2>3 DEF CardInv, CardMeasured, DepthSwept
  <2>6. s.depth + BenchPrompt \in Nat
    BY <2>1 DEF CardInv
  <2>7. UsableContext(entry) = Min({entry.ctx, s.depth + BenchPrompt})
    BY <2>2, <2>5 DEF UsableContext, IsCurrent
  <2>8. /\ UsableContext(entry) <= entry.ctx
        /\ UsableContext(entry) <= s.depth + BenchPrompt
    BY <2>1, <2>6, <2>7, MinIsLeast
  <2> QED
    BY <2>4, <2>5, <2>8
<1>2. CardInv /\ [CardNext]_cardVars => CardInv'
  BY CardIsKept
<1> QED
  BY <1>1, <1>2, CardInitial, PTL DEF CardSpec

\* What is usable is a number.
LEMMA UsableTyped ==
  ASSUME CardInv
  PROVE  UsableContext(entry) \in Nat /\ UsableOutput(entry) \in Nat
<1>1. entry.ctx \in Nat \ {0} /\ BenchPrompt \in Nat /\ ClientMax \in Nat /\ entry # NoConfig
  BY CardAssumption DEF CardInv, NoConfig
<1>2. UsableContext(entry) \in Nat
  <2>1. CASE IsCurrent(card.depth, entry) /\ IsCurrent(card.gate, entry) /\ card.gate.passed
    <3>1. card.depth # NoSection
      BY <1>1, <2>1 DEF IsCurrent, NoSection
    <3>2. card.depth.measured \in Nat
      BY <3>1 DEF CardInv, CardMeasured, DepthSwept
    <3>3. {entry.ctx, card.depth.measured + BenchPrompt} \in SUBSET Nat
      BY <1>1, <3>2
    <3> QED
      BY <2>1, <3>3, MinIsLeast DEF UsableContext
  <2> QED
    BY <2>1 DEF UsableContext, Unknown
<1>3. {ClientMax, UsableContext(entry)} \in SUBSET Nat
  BY <1>1, <1>2
<1> QED
  BY <1>2, <1>3, MinIsLeast DEF UsableOutput

\* The least of what is known, or that nothing is.
LEMMA LeastOfKnown ==
  ASSUME NEW S \in SUBSET Nat
  PROVE  /\ LeastKnown(S) \in Nat
         /\ LeastKnown(S) # Unknown =>
              LeastKnown(S) \in S /\ \A n \in S : n # Unknown => LeastKnown(S) <= n
         /\ LeastKnown(S) = Unknown => S \subseteq {Unknown}
<1>1. CASE S \subseteq {Unknown}
  BY <1>1 DEF LeastKnown, Unknown
<1>2. CASE ~(S \subseteq {Unknown})
  <2>1. S \ {Unknown} \in SUBSET Nat /\ S \ {Unknown} # {}
    BY <1>2
  <2>2. LeastKnown(S) = Min(S \ {Unknown})
    BY <1>2 DEF LeastKnown
  <2>3. LeastKnown(S) \in S \ {Unknown} /\ \A n \in S \ {Unknown} : LeastKnown(S) <= n
    BY <2>1, <2>2, MinIsLeast
  <2> QED
    BY <2>3
<1> QED
  BY <1>1, <1>2

LEMMA FirstKnownTyped ==
  ASSUME NEW catalog \in Catalogs, NEW root
  PROVE  /\ FirstKnown(catalog, root, "context") \in Nat
         /\ FirstKnown(catalog, root, "output") \in Nat
<1>1. ASSUME NEW field, \A i \in DOMAIN catalog : catalog[i][field] \in Nat
      PROVE  FirstKnown(catalog, root, field) \in Nat
  <2> DEFINE known == {i \in DOMAIN catalog : /\ catalog[i].root = root
                                              /\ catalog[i][field] # Unknown}
  <2>1. CASE known = {}
    BY <2>1 DEF FirstKnown, Unknown
  <2>2. CASE known # {}
    <3>1. known \in SUBSET Nat
      BY CardAssumption
    <3>2. Min(known) \in known
      BY <2>2, <3>1, MinIsLeast
    <3>3. FirstKnown(catalog, root, field) = catalog[Min(known)][field]
      BY <2>2 DEF FirstKnown
    <3> QED
      BY <1>1, <3>2, <3>3
  <2> QED
    BY <2>1, <2>2
<1>2. \A i \in DOMAIN catalog : catalog[i]["context"] \in Nat /\ catalog[i]["output"] \in Nat
  BY CardAssumption
<1> QED
  BY <1>1, <1>2

\* What a catalog says first of a model is what is known of it.
LEMMA FirstSaid ==
  ASSUME NEW catalog \in Catalogs, NEW i \in DOMAIN catalog, NEW model, NEW field,
         SaysFirst(catalog, i, model, field)
  PROVE  FirstKnown(catalog, model, field) = catalog[i][field]
<1> DEFINE known == {j \in DOMAIN catalog : /\ catalog[j].root = model
                                            /\ catalog[j][field] # Unknown}
<1>1. DOMAIN catalog = 1 .. Len(catalog) /\ Len(catalog) \in Nat
  BY CardAssumption
<1>2. known \in SUBSET Nat /\ i \in known
  BY <1>1 DEF SaysFirst
<1>3. PICK least : least = Min(known)
  OBVIOUS
<1>4. least \in known /\ least <= i
  BY <1>2, <1>3, MinIsLeast
<1>5. least = i
  <2>1. SUFFICES ASSUME least # i PROVE FALSE
    OBVIOUS
  <2>2. least \in 1 .. i - 1
    BY <1>1, <1>2, <1>4, <2>1
  <2> QED
    BY <1>4, <2>2 DEF SaysFirst
<1> QED
  BY <1>2, <1>3, <1>5 DEF FirstKnown

LEMMA MembersTyped ==
  ASSUME CardInv, NEW catalog \in Catalogs, NEW remote \in BOOLEAN, NEW m
  PROVE  MemberWindow(catalog, remote, m) \in Nat /\ MemberOutput(catalog, remote, m) \in Nat
<1>1. UsableContext(entry) \in Nat /\ UsableOutput(entry) \in Nat
  BY UsableTyped
<1>2. <<m.provider, m.model>> \in DOMAIN Corrected => Corrected[<<m.provider, m.model>>] \in Nat
  BY CardAssumption
<1>3. /\ FirstKnown(catalog, m.model, "context") \in Nat
      /\ FirstKnown(catalog, m.model, "output") \in Nat
  BY FirstKnownTyped
<1> QED
  BY <1>1, <1>2, <1>3 DEF MemberWindow, MemberOutput, LocalLimit, Unknown

\* The limits ClientModel works out: the context, the member output, what of it is
\* given, and the member that limits.
LimitsOf(catalog, remote, combo, ctx, out, max, least) ==
  /\ ctx = LeastKnown({MemberWindow(catalog, remote, combo[i]) : i \in DOMAIN combo})
  /\ out = LeastKnown({MemberOutput(catalog, remote, combo[i]) : i \in DOMAIN combo})
  /\ max = IF out = Unknown THEN Min({ctx, DefaultOutput}) ELSE Min({ctx, out})
  /\ least = Min({i \in DOMAIN combo : MemberWindow(catalog, remote, combo[i]) = ctx})

\* What one combo comes to, for one client.
LEMMA ClientModelFits ==
  ASSUME CardInv, NEW catalog \in Catalogs, NEW combo \in Combos, NEW remote \in BOOLEAN,
         NEW ctx, NEW out, NEW max, NEW least,
         LimitsOf(catalog, remote, combo, ctx, out, max, least),
         ctx # Unknown
  PROVE  /\ ctx \in Nat /\ max \in Nat /\ max <= ctx
         /\ \A i \in DOMAIN combo : MemberWindow(catalog, remote, combo[i]) # Unknown
              => ctx <= MemberWindow(catalog, remote, combo[i])
         /\ \A i \in DOMAIN combo : MemberOutput(catalog, remote, combo[i]) # Unknown
              => max <= MemberOutput(catalog, remote, combo[i])
         /\ least \in DOMAIN combo /\ MemberWindow(catalog, remote, combo[least]) = ctx
<1> DEFINE W == {MemberWindow(catalog, remote, combo[i]) : i \in DOMAIN combo}
           O == {MemberOutput(catalog, remote, combo[i]) : i \in DOMAIN combo}
           limits == {i \in DOMAIN combo : MemberWindow(catalog, remote, combo[i]) = ctx}
<1> USE DEF LimitsOf
<1>1. W \in SUBSET Nat /\ O \in SUBSET Nat
  BY MembersTyped
<1>2. ctx \in W /\ ctx \in Nat /\ \A n \in W : n # Unknown => ctx <= n
  BY <1>1, LeastOfKnown
<1>3. /\ out \in Nat /\ \A n \in O : out # Unknown /\ n # Unknown => out <= n
      /\ out = Unknown => O \subseteq {Unknown}
  BY <1>1, LeastOfKnown
<1>4. limits \in SUBSET Nat /\ limits # {}
  <2>1. DOMAIN combo \in SUBSET Nat
    BY CardAssumption
  <2> QED
    BY <1>2, <2>1
<1>5. least \in limits
  BY <1>4, MinIsLeast
<1>6. {ctx, DefaultOutput} \in SUBSET Nat /\ {ctx, out} \in SUBSET Nat
  BY <1>2, <1>3, CardAssumption
<1>7. max <= ctx /\ max \in Nat
  <2>1. CASE out = Unknown
    BY <2>1, <1>6, MinIsLeast
  <2>2. CASE out # Unknown
    BY <2>2, <1>6, MinIsLeast
  <2> QED
    BY <2>1, <2>2
<1>8. ASSUME NEW i \in DOMAIN combo, MemberOutput(catalog, remote, combo[i]) # Unknown
      PROVE  max <= MemberOutput(catalog, remote, combo[i])
  <2>1. PICK n \in O : n = MemberOutput(catalog, remote, combo[i])
    OBVIOUS
  <2>2. out # Unknown /\ out <= n /\ n \in Nat
    BY <1>1, <1>3, <1>8, <2>1
  <2>3. max <= out /\ max \in Nat
    BY <1>6, <1>7, <2>2, MinIsLeast
  <2> QED
    BY <1>3, <2>1, <2>2, <2>3
<1> QED
  BY <1>2, <1>5, <1>7, <1>8

\* A client that has just asked is told what fits.
LEMMA AskedFits ==
  ASSUME CardInv, AskCombo
  PROVE  ClientsStayWithin'
<1>1. PICK catalog \in Catalogs, combo \in Combos, remote \in BOOLEAN :
        listed' = ClientModel(catalog, remote, combo)
  BY DEF AskCombo
<1>2. UsableContext(entry)' = UsableContext(entry)
  BY DEF AskCombo, UsableContext
<1> DEFINE takes(i) == MemberWindow(catalog, remote, combo[i])
           gives(i) == MemberOutput(catalog, remote, combo[i])
<1>3. PICK ctx, out, max, least : LimitsOf(catalog, remote, combo, ctx, out, max, least)
  BY DEF LimitsOf
<1>4. CASE ctx = Unknown
  BY <1>1, <1>3, <1>4 DEF LimitsOf, ClientModel, ClientsStayWithin
<1>5. CASE ctx # Unknown
  <2>1. /\ ctx \in Nat /\ max \in Nat /\ max <= ctx
        /\ \A i \in DOMAIN combo : takes(i) # Unknown => ctx <= takes(i)
        /\ \A i \in DOMAIN combo : gives(i) # Unknown => max <= gives(i)
        /\ least \in DOMAIN combo /\ takes(least) = ctx
    <3>1. /\ ctx \in Nat /\ max \in Nat /\ max <= ctx
          /\ \A i \in DOMAIN combo : MemberWindow(catalog, remote, combo[i]) # Unknown
               => ctx <= MemberWindow(catalog, remote, combo[i])
          /\ \A i \in DOMAIN combo : MemberOutput(catalog, remote, combo[i]) # Unknown
               => max <= MemberOutput(catalog, remote, combo[i])
          /\ least \in DOMAIN combo /\ MemberWindow(catalog, remote, combo[least]) = ctx
      BY <1>3, <1>5, ClientModelFits
    <3> QED
      BY <3>1
  <2>2. /\ listed'.ctx = ctx /\ listed'.out = max /\ listed'.limiting = combo[least]
        /\ listed'.remote = remote /\ listed'.combo = combo /\ listed'.catalog = catalog
    BY <1>1, <1>3, <1>5 DEF LimitsOf, ClientModel
  <2>3. ToSet(combo) = {combo[i] : i \in DOMAIN combo}
    BY DEF ToSet
  <2>4. \A m : m.provider = LocalProvider =>
          <<m.provider, m.model>> \notin DOMAIN Corrected
    BY CardAssumption
  <2>5. ASSUME NEW i \in DOMAIN combo,
               <<combo[i].provider, combo[i].model>> \in DOMAIN Corrected
        PROVE  ctx <= Corrected[<<combo[i].provider, combo[i].model>>]
    <3>1. /\ takes(i) = Corrected[<<combo[i].provider, combo[i].model>>]
          /\ takes(i) \in Nat \ {0}
      BY <2>4, <2>5, CardAssumption DEF MemberWindow
    <3> QED
      BY <2>1, <3>1 DEF Unknown
  <2>6. ASSUME NEW i \in DOMAIN combo, combo[i].provider = LocalProvider, ~remote,
               combo[i].model = Alias, UsableContext(entry) # Unknown
        PROVE  ctx <= UsableContext(entry) /\ max <= ClientMax
    <3>1. takes(i) = UsableContext(entry) /\ gives(i) = UsableOutput(entry)
      BY <2>6 DEF MemberWindow, MemberOutput, LocalLimit
    <3>2. ClientMax \in Nat \ {0} /\ UsableContext(entry) \in Nat \ {0}
      BY <2>6, UsableTyped, CardAssumption DEF Unknown
    <3>3. {ClientMax, UsableContext(entry)} \in SUBSET (Nat \ {0})
      BY <3>2
    <3>4. UsableOutput(entry) \in Nat \ {0} /\ UsableOutput(entry) <= ClientMax
      BY <3>3, MinIsLeast DEF UsableOutput
    <3>5. max <= gives(i)
      BY <2>1, <3>1, <3>4 DEF Unknown
    <3> QED
      BY <2>1, <2>6, <3>1, <3>2, <3>4, <3>5 DEF Unknown
  <2>7. ASSUME NEW i \in DOMAIN combo, combo[i].provider = LocalProvider,
               remote \/ UsableContext(entry) = Unknown
        PROVE  combo[least] # combo[i]
    <3>1. takes(i) = Unknown
      BY <2>7 DEF MemberWindow, LocalLimit
    <3> QED
      BY <1>5, <2>1, <3>1
  <2>8. remote => combo[least].provider # LocalProvider
    BY <2>1, <2>7
  <2>12. ASSUME NEW i \in DOMAIN combo, combo[i].provider # LocalProvider,
                NEW k \in DOMAIN catalog
         PROVE  /\ /\ <<combo[i].provider, combo[i].model>> \notin DOMAIN Corrected
                   /\ SaysFirst(catalog, k, combo[i].model, "context")
                   => ctx <= catalog[k].context
                /\ SaysFirst(catalog, k, combo[i].model, "output")
                   => max <= catalog[k].output
    <3>1. ASSUME <<combo[i].provider, combo[i].model>> \notin DOMAIN Corrected,
                 SaysFirst(catalog, k, combo[i].model, "context")
          PROVE  ctx <= catalog[k].context
      <4>1. takes(i) = FirstKnown(catalog, combo[i].model, "context")
        BY <2>12, <3>1 DEF MemberWindow
      <4>2. FirstKnown(catalog, combo[i].model, "context") = catalog[k]["context"]
        BY <3>1, FirstSaid
      <4>3. catalog[k]["context"] # Unknown
        BY <3>1 DEF SaysFirst
      <4>4. PICK said : said = takes(i)
        OBVIOUS
      <4>5. said = catalog[k].context /\ said # Unknown
        BY <4>1, <4>2, <4>3, <4>4
      <4>6. ctx <= said
        BY <2>1, <2>12, <4>4, <4>5
      <4> QED
        BY <4>5, <4>6
    <3>2. ASSUME SaysFirst(catalog, k, combo[i].model, "output")
          PROVE  max <= catalog[k].output
      <4>1. gives(i) = FirstKnown(catalog, combo[i].model, "output")
        BY <2>12 DEF MemberOutput
      <4>2. FirstKnown(catalog, combo[i].model, "output") = catalog[k]["output"]
        BY <3>2, FirstSaid
      <4>3. catalog[k]["output"] # Unknown
        BY <3>2 DEF SaysFirst
      <4>4. PICK said : said = gives(i)
        OBVIOUS
      <4>5. said = catalog[k].output /\ said # Unknown
        BY <4>1, <4>2, <4>3, <4>4
      <4>6. max <= said
        BY <2>1, <2>12, <4>4, <4>5
      <4> QED
        BY <4>5, <4>6
    <3> QED
      BY <3>1, <3>2
  <2> HIDE DEF takes, gives
  <2>9. combo[least] \in ToSet(combo)
    BY <2>1, <2>3
  <2>10. \A m \in ToSet(combo) :
           /\ <<m.provider, m.model>> \in DOMAIN Corrected =>
                ctx <= Corrected[<<m.provider, m.model>>]
           /\ m.provider = LocalProvider /\ ~remote /\ UsableContext(entry) # Unknown
                /\ m.model = Alias => ctx <= UsableContext(entry) /\ max <= ClientMax
           /\ m.provider # LocalProvider => \A k \in DOMAIN catalog :
                /\ /\ <<m.provider, m.model>> \notin DOMAIN Corrected
                   /\ SaysFirst(catalog, k, m.model, "context")
                   => ctx <= catalog[k].context
                /\ SaysFirst(catalog, k, m.model, "output") => max <= catalog[k].output
           /\ m.provider = LocalProvider /\ (remote \/ UsableContext(entry) = Unknown)
                => combo[least] # m
    BY <2>3, <2>5, <2>6, <2>7, <2>12
  <2>11. remote => \E m \in ToSet(combo) : m.provider # LocalProvider
    BY <2>8, <2>9
  <2> QED
    BY <1>2, <2>1, <2>2, <2>9, <2>10, <2>11 DEF ClientsStayWithin
<1> QED
  BY <1>4, <1>5

\* Whatever the catalog says and whenever a client asks, it is never told more than a
\* member of the combo can take for all that is known of it, from the card, a
\* correction or the catalog, and no combo of local members alone reaches a remote one.
\* (compute_combo_context, _build_unified_models)
THEOREM ClientsFit == CardSpec => []ClientsStayWithin
<1>1. CardInit => ClientsStayWithin
  BY DEF CardInit, Unlisted, ClientsStayWithin
<1>2. CardInv /\ ClientsStayWithin /\ [CardNext]_cardVars => ClientsStayWithin'
  <2> SUFFICES ASSUME CardInv, ClientsStayWithin, [CardNext]_cardVars
               PROVE  ClientsStayWithin'
    OBVIOUS
  <2>1. CASE AskCombo
    BY <2>1, AskedFits
  <2>2. CASE Sweep \/ EditEntry \/ \E w \in Filers :
               StartGate(w) \/ EndGate(w) \/ FileReport(w) \/ FileSweep(w) \/ SaveCard(w)
    <3>1. listed' = Unlisted
      BY <2>2 DEF Sweep, EditEntry, Begins, StartGate, EndGate, FileReport, FileSweep, SaveCard
    <3> QED
      BY <3>1 DEF Unlisted, ClientsStayWithin
  <2>3. CASE UNCHANGED cardVars
    <3>1. listed' = listed /\ UsableContext(entry)' = UsableContext(entry)
      BY <2>3 DEF cardVars, UsableContext
    <3> QED
      BY <3>1 DEF ClientsStayWithin
  <2> QED
    BY <2>1, <2>2, <2>3 DEF CardNext
<1>3. CardInv /\ [CardNext]_cardVars => CardInv'
  BY CardIsKept
<1> QED
  BY <1>1, <1>2, <1>3, CardInitial, PTL DEF CardSpec

-----------------------------------------------------------------------------
(* Sums over finite sets.  The fold's recursive function exists, so a sum   *)
(* can be unfolded; what follows is by a smallest counterexample.          *)

OneOf(s) == CHOOSE x \in s : TRUE

Unfolded(sum, cost, s) ==
  IF s = {} THEN 0 ELSE cost[OneOf(s)] + sum[s \ {OneOf(s)}]

\* The subsets up to a size.
UpTo(S, n) == {s \in SUBSET S : Cardinality(s) <= n}

LEMMA OneLess ==
  ASSUME NEW s, IsFiniteSet(s), s # {}
  PROVE  /\ OneOf(s) \in s /\ IsFiniteSet(s \ {OneOf(s)})
         /\ Cardinality(s \ {OneOf(s)}) = Cardinality(s) - 1
         /\ Cardinality(s) \in Nat /\ Cardinality(s) >= 1
<1>1. OneOf(s) \in s
  BY DEF OneOf
<1>2. IsFiniteSet(s \ {OneOf(s)})
      /\ Cardinality(s \ {OneOf(s)}) = Cardinality(s) - 1
  BY <1>1, FS_RemoveElement
<1>3. Cardinality(s) \in Nat /\ Cardinality(s) # 0
  BY FS_CardinalityType, FS_EmptySet
<1> QED
  BY <1>1, <1>2, <1>3

LEMMA FoldExists ==
  ASSUME NEW S, IsFiniteSet(S), NEW cost
  PROVE  \E sum : sum = [s \in SUBSET S |-> Unfolded(sum, cost, s)]
<1> DEFINE Has(n) ==
      \E sum : sum = [s \in UpTo(S, n) |-> Unfolded(sum, cost, s)]
<1>1. \A n \in Nat : Has(n)
  <2> DEFINE Bad == {n \in Nat : ~Has(n)}
  <2> SUFFICES ASSUME Bad # {} PROVE FALSE
    OBVIOUS
  <2>1. PICK m \in Bad : \A n \in Bad : m <= n
    <3> HIDE DEF Bad
    <3>1. Bad \in SUBSET Nat
      BY DEF Bad
    <3> QED
      BY <3>1, LeastNumber
  <2>2. \A s \in SUBSET S : IsFiniteSet(s) /\ Cardinality(s) \in Nat
    BY FS_Subset, FS_CardinalityType
  <2>3. CASE m = 0
    <3>1. UpTo(S, m) = {{}}
      BY <2>2, <2>3, FS_EmptySet DEF UpTo
    <3>2. PICK sum : sum = [s \in UpTo(S, m) |-> 0]
      OBVIOUS
    <3>3. \A s \in UpTo(S, m) : Unfolded(sum, cost, s) = 0
      BY <3>1 DEF Unfolded
    <3> QED
      BY <2>1, <3>2, <3>3
  <2>4. CASE m # 0
    <3>1. m - 1 \in Nat /\ Has(m - 1)
      BY <2>1, <2>4
    <3>2. PICK sum : sum = [s \in UpTo(S, m - 1) |-> Unfolded(sum, cost, s)]
      BY <3>1
    <3>3. PICK more : more = [s \in UpTo(S, m) |-> Unfolded(sum, cost, s)]
      OBVIOUS
    <3>4. ASSUME NEW s \in UpTo(S, m)
          PROVE  Unfolded(sum, cost, s) = Unfolded(more, cost, s)
      <4>1. CASE s = {}
        BY <4>1 DEF Unfolded
      <4>2. CASE s # {}
        <5>1. s \in SUBSET S /\ IsFiniteSet(s) /\ Cardinality(s) <= m
          BY <2>2 DEF UpTo
        <5>2. s \ {OneOf(s)} \in UpTo(S, m - 1)
          BY <2>1, <4>2, <5>1, OneLess DEF UpTo
        <5>3. s \ {OneOf(s)} \in UpTo(S, m)
          BY <2>1, <2>2, <5>2 DEF UpTo
        <5>4. more[s \ {OneOf(s)}] = sum[s \ {OneOf(s)}]
          BY <3>2, <3>3, <5>2, <5>3
        <5> QED
          BY <4>2, <5>4 DEF Unfolded
      <4> QED
        BY <4>1, <4>2
    <3>5. more = [s \in UpTo(S, m) |-> Unfolded(more, cost, s)]
      BY <3>3, <3>4
    <3> QED
      BY <2>1, <3>5
  <2> QED
    BY <2>3, <2>4
<1>2. Cardinality(S) \in Nat /\ UpTo(S, Cardinality(S)) = SUBSET S
  BY FS_Subset, FS_CardinalityType DEF UpTo
<1> QED
  BY <1>1, <1>2

TheFold(cost, S) == CHOOSE sum : sum = [s \in SUBSET S |-> Unfolded(sum, cost, s)]

LEMMA TotalIsFold ==
  ASSUME NEW S, NEW cost
  PROVE  Total(cost, S) = TheFold(cost, S)[S]
BY DEF Total, SumFunctionOnSet, FoldFunctionOnSet, MapThenFoldSet, TheFold,
       Unfolded, OneOf

LEMMA FoldUnfolds ==
  ASSUME NEW S, IsFiniteSet(S), NEW cost, NEW s \in SUBSET S
  PROVE  TheFold(cost, S)[s] = Unfolded(TheFold(cost, S), cost, s)
<1>1. TheFold(cost, S)
        = [t \in SUBSET S |-> Unfolded(TheFold(cost, S), cost, t)]
  BY FoldExists DEF TheFold
<1> QED
  BY <1>1

\* The fold of a larger set gives a subset its own sum.
LEMMA FoldIsTotal ==
  ASSUME NEW S, IsFiniteSet(S), NEW cost, NEW s \in SUBSET S
  PROVE  TheFold(cost, S)[s] = Total(cost, s)
<1> DEFINE Bad == {n \in Nat : \E T, t : /\ IsFiniteSet(T) /\ t \in SUBSET T
                                         /\ Cardinality(t) = n
                                         /\ TheFold(cost, T)[t] # Total(cost, t)}
<1> SUFFICES ASSUME Bad # {} PROVE FALSE
  BY FS_Subset, FS_CardinalityType
<1>1. PICK m \in Bad : \A n \in Bad : m <= n
  <2> HIDE DEF Bad
  <2>1. Bad \in SUBSET Nat
    BY DEF Bad
  <2> QED
    BY <2>1, LeastNumber
<1>2. PICK T, t : /\ IsFiniteSet(T) /\ t \in SUBSET T
                  /\ Cardinality(t) = m
                  /\ TheFold(cost, T)[t] # Total(cost, t)
  BY <1>1
<1>3. IsFiniteSet(t)
  BY <1>2, FS_Subset
<1>4. /\ TheFold(cost, T)[t] = Unfolded(TheFold(cost, T), cost, t)
      /\ Total(cost, t) = Unfolded(TheFold(cost, t), cost, t)
  BY <1>2, <1>3, FoldUnfolds, TotalIsFold
<1>5. t # {}
  BY <1>2, <1>4 DEF Unfolded
<1>6. PICK u : u = t \ {OneOf(t)}
  OBVIOUS
<1>7. /\ u \in SUBSET T /\ u \in SUBSET t /\ IsFiniteSet(u)
      /\ Cardinality(u) \in Nat /\ Cardinality(u) < m
  BY <1>2, <1>3, <1>5, <1>6, OneLess
<1>8. TheFold(cost, T)[u] = Total(cost, u) /\ TheFold(cost, t)[u] = Total(cost, u)
  <2>1. Cardinality(u) \notin Bad
    <3> HIDE DEF Bad
    <3>1. m \in Nat
      BY DEF Bad
    <3> QED
      BY <1>1, <1>7, <3>1
  <2> QED
    BY <1>2, <1>3, <1>7, <2>1
<1> QED
  BY <1>2, <1>4, <1>5, <1>6, <1>8 DEF Unfolded

LEMMA TotalOfNone == ASSUME NEW cost PROVE Total(cost, {}) = 0
BY FS_EmptySet, FoldUnfolds, TotalIsFold DEF Unfolded

LEMMA TotalOfOne ==
  ASSUME NEW S, IsFiniteSet(S), S # {}, NEW cost
  PROVE  Total(cost, S) = cost[OneOf(S)] + Total(cost, S \ {OneOf(S)})
<1>1. PICK u : u = S \ {OneOf(S)}
  OBVIOUS
<1>2. u \in SUBSET S /\ S \in SUBSET S
  BY <1>1
<1>3. TheFold(cost, S)[S] = cost[OneOf(S)] + TheFold(cost, S)[u]
  BY <1>1, <1>2, FoldUnfolds DEF Unfolded
<1>4. TheFold(cost, S)[u] = Total(cost, u)
  BY <1>2, FoldIsTotal
<1> QED
  BY <1>1, <1>3, <1>4, TotalIsFold

\* A sum of numbers is one.
LEMMA TotalIsNat ==
  ASSUME NEW S, IsFiniteSet(S), NEW cost, \A x \in S : cost[x] \in Nat
  PROVE  Total(cost, S) \in Nat
<1> DEFINE Bad == {n \in Nat : \E T : /\ IsFiniteSet(T) /\ Cardinality(T) = n
                                      /\ \A x \in T : cost[x] \in Nat
                                      /\ Total(cost, T) \notin Nat}
<1> SUFFICES ASSUME Bad # {} PROVE FALSE
  BY FS_CardinalityType
<1>1. PICK m \in Bad : \A n \in Bad : m <= n
  <2> HIDE DEF Bad
  <2>1. Bad \in SUBSET Nat
    BY DEF Bad
  <2> QED
    BY <2>1, LeastNumber
<1>2. PICK T : /\ IsFiniteSet(T) /\ Cardinality(T) = m
               /\ \A x \in T : cost[x] \in Nat
               /\ Total(cost, T) \notin Nat
  BY <1>1
<1>3. T # {}
  BY <1>2, TotalOfNone
<1>4. PICK u : u = T \ {OneOf(T)}
  OBVIOUS
<1>5. /\ OneOf(T) \in T /\ IsFiniteSet(u)
      /\ Cardinality(u) \in Nat /\ Cardinality(u) < m
  BY <1>2, <1>3, <1>4, OneLess
<1>6. Cardinality(u) \notin Bad
  <2> HIDE DEF Bad
  <2>1. m \in Nat
    BY DEF Bad
  <2> QED
    BY <1>1, <1>5, <2>1
<1>7. Total(cost, u) \in Nat
  BY <1>2, <1>4, <1>5, <1>6
<1>8. Total(cost, T) = cost[OneOf(T)] + Total(cost, u)
  BY <1>2, <1>3, <1>4, TotalOfOne
<1> QED
  BY <1>2, <1>5, <1>7, <1>8

\* Any element may be taken out first.
LEMMA TotalWithout ==
  ASSUME NEW S, IsFiniteSet(S), NEW cost, \A x \in S : cost[x] \in Nat,
         NEW y \in S
  PROVE  Total(cost, S) = cost[y] + Total(cost, S \ {y})
<1> DEFINE Bad == {n \in Nat : \E T, z : /\ IsFiniteSet(T) /\ Cardinality(T) = n
                                         /\ \A x \in T : cost[x] \in Nat
                                         /\ z \in T
                                         /\ Total(cost, T) # cost[z] + Total(cost, T \ {z})}
<1> SUFFICES ASSUME Bad # {} PROVE FALSE
  BY FS_CardinalityType
<1>1. PICK m \in Bad : \A n \in Bad : m <= n
  <2> HIDE DEF Bad
  <2>1. Bad \in SUBSET Nat
    BY DEF Bad
  <2> QED
    BY <2>1, LeastNumber
<1>2. PICK T, z : /\ IsFiniteSet(T) /\ Cardinality(T) = m
                  /\ \A x \in T : cost[x] \in Nat
                  /\ z \in T
                  /\ Total(cost, T) # cost[z] + Total(cost, T \ {z})
  BY <1>1
<1>3. PICK o : o = OneOf(T)
  OBVIOUS
<1>4. /\ o \in T /\ IsFiniteSet(T \ {o})
      /\ Cardinality(T \ {o}) \in Nat /\ Cardinality(T \ {o}) < m
  BY <1>2, <1>3, OneLess
<1>5. Total(cost, T) = cost[o] + Total(cost, T \ {o})
  BY <1>2, <1>3, TotalOfOne
<1>6. o # z
  BY <1>2, <1>5
<1>7. Cardinality(T \ {o}) \notin Bad
  <2> HIDE DEF Bad
  <2>1. m \in Nat
    BY DEF Bad
  <2> QED
    BY <1>1, <1>4, <2>1
<1>8. Total(cost, T \ {o}) = cost[z] + Total(cost, (T \ {o}) \ {z})
  BY <1>2, <1>4, <1>6, <1>7
<1>9. PICK u : u = T \ {z}
  OBVIOUS
<1>10. IsFiniteSet(u) /\ o \in u /\ Cardinality(u) \in Nat /\ Cardinality(u) < m
  BY <1>2, <1>4, <1>6, <1>9, FS_RemoveElement, FS_CardinalityType
<1>11. Cardinality(u) \notin Bad
  <2> HIDE DEF Bad
  <2>1. m \in Nat
    BY DEF Bad
  <2> QED
    BY <1>1, <1>10, <2>1
<1>12. Total(cost, u) = cost[o] + Total(cost, u \ {o})
  BY <1>2, <1>9, <1>10, <1>11
<1>13. PICK w : w = (T \ {o}) \ {z} /\ w = u \ {o}
  BY <1>9
<1>14. Total(cost, w) \in Nat /\ cost[o] \in Nat /\ cost[z] \in Nat
  BY <1>2, <1>4, <1>13, TotalIsNat, FS_Subset
<1>15. Total(cost, T) = cost[o] + (cost[z] + Total(cost, w))
  BY <1>5, <1>8, <1>13
<1>16. cost[z] + Total(cost, u) = cost[z] + (cost[o] + Total(cost, w))
  BY <1>12, <1>13
<1>17. cost[o] + (cost[z] + Total(cost, w)) = cost[z] + (cost[o] + Total(cost, w))
  BY <1>14
<1> QED
  BY <1>2, <1>9, <1>15, <1>16, <1>17

\* A part of a set costs no more.
LEMMA TotalOfPart ==
  ASSUME NEW S, IsFiniteSet(S), NEW cost, \A x \in S : cost[x] \in Nat,
         NEW R \in SUBSET S
  PROVE  Total(cost, R) <= Total(cost, S)
<1> DEFINE Bad == {n \in Nat : \E T : /\ IsFiniteSet(T) /\ Cardinality(T) = n
                                      /\ R \subseteq T
                                      /\ \A x \in T : cost[x] \in Nat
                                      /\ ~(Total(cost, R) <= Total(cost, T))}
<1> SUFFICES ASSUME Bad # {} PROVE FALSE
  BY FS_CardinalityType
<1>1. PICK m \in Bad : \A n \in Bad : m <= n
  <2> HIDE DEF Bad
  <2>1. Bad \in SUBSET Nat
    BY DEF Bad
  <2> QED
    BY <2>1, LeastNumber
<1>2. PICK T : /\ IsFiniteSet(T) /\ Cardinality(T) = m /\ R \subseteq T
               /\ \A x \in T : cost[x] \in Nat
               /\ ~(Total(cost, R) <= Total(cost, T))
  BY <1>1
<1>3. Total(cost, R) \in Nat /\ Total(cost, T) \in Nat
  BY <1>2, FS_Subset, TotalIsNat
<1>4. PICK y \in T : y \notin R
  <2>1. R # T
    BY <1>2, <1>3
  <2> QED
    BY <1>2, <2>1
<1>5. PICK u : u = T \ {y}
  OBVIOUS
<1>6. IsFiniteSet(u) /\ Cardinality(u) \in Nat /\ Cardinality(u) < m
      /\ R \subseteq u
  <2>1. IsFiniteSet(T \ {y}) /\ Cardinality(T \ {y}) = Cardinality(T) - 1
    BY <1>2, <1>4, FS_RemoveElement
  <2>2. Cardinality(T) \in Nat /\ Cardinality(T \ {y}) \in Nat
    BY <1>2, <2>1, FS_CardinalityType
  <2>3. R \subseteq u
    BY <1>2, <1>4, <1>5
  <2> QED
    BY <1>2, <1>5, <2>1, <2>2, <2>3
<1>7. Cardinality(u) \notin Bad
  <2> HIDE DEF Bad
  <2>1. m \in Nat
    BY DEF Bad
  <2> QED
    BY <1>1, <1>6, <2>1
<1>8. Total(cost, R) <= Total(cost, u)
  BY <1>2, <1>5, <1>6, <1>7
<1>9. Total(cost, T) = cost[y] + Total(cost, u)
  BY <1>2, <1>4, <1>5, TotalWithout
<1>10. Total(cost, u) \in Nat /\ cost[y] \in Nat
  BY <1>2, <1>4, <1>5, <1>6, TotalIsNat
<1> QED
  BY <1>2, <1>3, <1>8, <1>9, <1>10

\* Those that cost most cost no less than any others, if those are no more.
Dearest(cost, S, T) == \A t \in T, s \in S \ T : cost[s] <= cost[t]

LEMMA DearestIsMost ==
  ASSUME NEW S, IsFiniteSet(S), NEW cost, \A x \in S : cost[x] \in Nat,
         NEW T \in SUBSET S, Dearest(cost, S, T),
         NEW R \in SUBSET S, Cardinality(R) <= Cardinality(T)
  PROVE  Total(cost, R) <= Total(cost, T)
<1> DEFINE Worse(Q) == /\ Q \in SUBSET S /\ Cardinality(Q) <= Cardinality(T)
                       /\ ~(Total(cost, Q) <= Total(cost, T))
           Bad == {n \in Nat : \E Q : Worse(Q) /\ Cardinality(Q \ T) = n}
<1>0. \A Q \in SUBSET S : /\ IsFiniteSet(Q) /\ Cardinality(Q) \in Nat
                          /\ Total(cost, Q) \in Nat
  BY FS_Subset, FS_CardinalityType, TotalIsNat
<1> SUFFICES ASSUME Bad # {} PROVE FALSE
  <2>1. R \ T \in SUBSET S
    OBVIOUS
  <2> QED
    BY <1>0, <2>1
<1>1. PICK m \in Bad : \A n \in Bad : m <= n
  <2> HIDE DEF Bad
  <2>1. Bad \in SUBSET Nat
    BY DEF Bad
  <2> QED
    BY <2>1, LeastNumber
<1>2. PICK Q : Worse(Q) /\ Cardinality(Q \ T) = m
  BY <1>1
<1>3. PICK r \in Q : r \notin T
  <2>1. ~(Q \subseteq T)
    <3>1. \A x \in T : cost[x] \in Nat
      OBVIOUS
    <3> QED
      BY <1>0, <1>2, <3>1, TotalOfPart
  <2> QED
    BY <2>1
<1>4. PICK t \in T : t \notin Q
  <2> SUFFICES ASSUME T \subseteq Q PROVE FALSE
    OBVIOUS
  <2>1. Cardinality(T) <= Cardinality(Q) /\ (Cardinality(T) = Cardinality(Q) => T = Q)
    BY <1>0, <1>2, FS_Subset
  <2>2. T = Q
    BY <1>0, <1>2, <2>1
  <2> QED
    BY <1>3, <2>2
<1>5. PICK rest : rest = Q \ {r}
  OBVIOUS
<1>6. PICK P : P = rest \cup {t}
  OBVIOUS
<1>7. /\ rest \in SUBSET S /\ t \notin rest /\ P \in SUBSET S
      /\ Cardinality(rest) = Cardinality(Q) - 1
      /\ Cardinality(P) = Cardinality(rest) + 1
  <2>1. rest \in SUBSET S /\ t \notin rest /\ P \in SUBSET S
    BY <1>2, <1>4, <1>5, <1>6
  <2>2. Cardinality(rest) = Cardinality(Q) - 1
    BY <1>0, <1>2, <1>3, <1>5, FS_RemoveElement
  <2>3. Cardinality(P) = Cardinality(rest) + 1
    BY <1>0, <1>6, <2>1, FS_AddElement
  <2> QED
    BY <2>1, <2>2, <2>3
<1>8. P \ T = (Q \ T) \ {r} /\ Cardinality(P \ T) = m - 1 /\ m \in Nat
  <2>1. P \ T = (Q \ T) \ {r}
    BY <1>5, <1>6
  <2>2. Q \ T \in SUBSET S /\ r \in Q \ T
    BY <1>2, <1>3
  <2>3. IsFiniteSet(Q \ T) /\ m \in Nat
    BY <1>0, <1>2, <2>2
  <2> QED
    BY <1>2, <2>1, <2>2, <2>3, FS_RemoveElement
<1>9. ~Worse(P)
  <2>1. P \ T \in SUBSET S
    BY <1>7
  <2>2. Cardinality(P \ T) \in Nat /\ Cardinality(P \ T) < m
    BY <1>0, <1>8, <2>1
  <2>3. Cardinality(P \ T) \notin Bad
    <3> HIDE DEF Bad
    <3> QED
      BY <1>1, <1>8, <2>2
  <2> QED
    BY <2>2, <2>3
<1>10. Total(cost, P) <= Total(cost, T)
  BY <1>0, <1>2, <1>7, <1>9
<1>11. Total(cost, Q) = cost[r] + Total(cost, rest)
  BY <1>0, <1>2, <1>3, <1>5, TotalWithout
<1>12. Total(cost, P) = cost[t] + Total(cost, rest)
  <2>1. rest = P \ {t} /\ t \in P
    BY <1>6, <1>7
  <2> QED
    BY <1>0, <1>7, <2>1, TotalWithout
<1>13. cost[r] <= cost[t] /\ cost[r] \in Nat /\ cost[t] \in Nat
  BY <1>2, <1>3, <1>4 DEF Dearest
<1> QED
  BY <1>0, <1>2, <1>7, <1>10, <1>11, <1>12, <1>13

\* There are as many that cost most as one asks for.
LEMMA DearestExist ==
  ASSUME NEW S, IsFiniteSet(S), NEW cost, \A x \in S : cost[x] \in Nat,
         NEW k \in Nat, k <= Cardinality(S)
  PROVE  \E T \in SUBSET S : Cardinality(T) = k /\ Dearest(cost, S, T)
<1> DEFINE Has(n) == \E T \in SUBSET S : Cardinality(T) = n /\ Dearest(cost, S, T)
           Bad == {n \in Nat : n <= Cardinality(S) /\ ~Has(n)}
<1>0. \A Q \in SUBSET S : /\ IsFiniteSet(Q) /\ Cardinality(Q) \in Nat
                          /\ Total(cost, Q) \in Nat
  BY FS_Subset, FS_CardinalityType, TotalIsNat
<1> SUFFICES ASSUME Bad # {} PROVE FALSE
  OBVIOUS
<1>1. PICK m \in Bad : \A n \in Bad : m <= n
  <2> HIDE DEF Bad
  <2>1. Bad \in SUBSET Nat
    BY DEF Bad
  <2> QED
    BY <2>1, LeastNumber
<1>2. m \in Nat /\ m <= Cardinality(S) /\ ~Has(m)
  BY <1>1
<1>3. m # 0
  BY <1>2, FS_EmptySet DEF Dearest
<1>4. m - 1 \in Nat /\ m - 1 \notin Bad /\ m - 1 <= Cardinality(S)
      /\ m - 1 < Cardinality(S)
  <2>1. m - 1 \in Nat /\ m - 1 < m
    BY <1>2, <1>3
  <2>2. m - 1 \notin Bad
    <3> HIDE DEF Bad
    <3> QED
      BY <1>1, <1>2, <2>1
  <2> QED
    BY <1>0, <1>2, <2>1, <2>2
<1>5. PICK T \in SUBSET S : Cardinality(T) = m - 1 /\ Dearest(cost, S, T)
  BY <1>4
<1>6. PICK C : C = {cost[s] : s \in S \ T}
  OBVIOUS
<1>7. C \in SUBSET Nat /\ C # {}
  <2>1. S # T
    BY <1>4, <1>5
  <2> QED
    BY <1>6, <2>1
<1>8. Total(cost, S) + 1 \in Nat /\ \A n \in C : n < Total(cost, S) + 1
  <2>1. ASSUME NEW s \in S PROVE cost[s] < Total(cost, S) + 1
    <3>1. Total(cost, S) = cost[s] + Total(cost, S \ {s})
      BY TotalWithout
    <3>2. Total(cost, S \ {s}) \in Nat /\ Total(cost, S) \in Nat
      BY <1>0
    <3> QED
      BY <3>1, <3>2
  <2> QED
    BY <1>0, <1>6, <2>1
<1>9. PICK most \in C : \A n \in C : n <= most
  BY <1>7, <1>8, GreatestNumber
<1>10. PICK x \in S \ T : cost[x] = most
  BY <1>6, <1>9
<1>11. \A s \in S \ T : cost[s] <= cost[x]
  BY <1>6, <1>9, <1>10
<1>12. Cardinality(T \cup {x}) = m /\ T \cup {x} \in SUBSET S
  BY <1>0, <1>2, <1>5, <1>10, FS_AddElement
<1>13. Dearest(cost, S, T \cup {x})
  BY <1>5, <1>10, <1>11 DEF Dearest
<1> QED
  BY <1>2, <1>12, <1>13

\* Costs that agree on a set sum up to the same.
LEMMA TotalAgrees ==
  ASSUME NEW S, IsFiniteSet(S), NEW cost, NEW price, \A x \in S : cost[x] = price[x]
  PROVE  Total(cost, S) = Total(price, S)
<1> DEFINE Bad == {n \in Nat : \E T \in SUBSET S : /\ Cardinality(T) = n
                                                   /\ Total(cost, T) # Total(price, T)}
<1> SUFFICES ASSUME Bad # {} PROVE FALSE
  BY FS_CardinalityType
<1>1. PICK m \in Bad : \A n \in Bad : m <= n
  <2> HIDE DEF Bad
  <2>1. Bad \in SUBSET Nat
    BY DEF Bad
  <2> QED
    BY <2>1, LeastNumber
<1>2. PICK T \in SUBSET S : Cardinality(T) = m /\ Total(cost, T) # Total(price, T)
  BY <1>1
<1>3. IsFiniteSet(T)
  BY FS_Subset
<1>4. T # {}
  BY <1>2, TotalOfNone
<1>5. PICK u : u = T \ {OneOf(T)}
  OBVIOUS
<1>6. /\ OneOf(T) \in T /\ IsFiniteSet(u)
      /\ Cardinality(u) \in Nat /\ Cardinality(u) < m
  BY <1>2, <1>3, <1>4, <1>5, OneLess
<1>7. Cardinality(u) \notin Bad
  <2> HIDE DEF Bad
  <2>1. m \in Nat
    BY DEF Bad
  <2> QED
    BY <1>1, <1>6, <2>1
<1>8. Total(cost, u) = Total(price, u)
  BY <1>2, <1>5, <1>6, <1>7
<1>9. /\ Total(cost, T) = cost[OneOf(T)] + Total(cost, u)
      /\ Total(price, T) = price[OneOf(T)] + Total(price, u)
  BY <1>3, <1>4, <1>5, TotalOfOne
<1>10. cost[OneOf(T)] = price[OneOf(T)]
  BY <1>2, <1>6
<1> QED
  BY <1>2, <1>8, <1>9, <1>10

-----------------------------------------------------------------------------
(* What the limits are made of.                                            *)

LEMMA LessOfTwo ==
  ASSUME NEW a \in Int, NEW b \in Int
  PROVE  /\ Min({a, b}) \in Int /\ Min({a, b}) <= a /\ Min({a, b}) <= b
         /\ Min({a, b}) = a \/ Min({a, b}) = b
<1>1. \E x \in {a, b} : \A y \in {a, b} : x =< y
  <2>1. CASE a <= b
    BY <2>1
  <2>2. CASE ~(a <= b)
    BY <2>2
  <2> QED
    BY <2>1, <2>2
<1>2. Min({a, b}) \in {a, b} /\ \A y \in {a, b} : Min({a, b}) =< y
  BY <1>1 DEF Min
<1> QED
  BY <1>2

LEMMA MoreOfTwo ==
  ASSUME NEW a \in Int, NEW b \in Int
  PROVE  /\ Max({a, b}) \in Int /\ Max({a, b}) >= a /\ Max({a, b}) >= b
         /\ Max({a, b}) = a \/ Max({a, b}) = b
<1>1. \E x \in {a, b} : \A y \in {a, b} : x >= y
  <2>1. CASE a >= b
    BY <2>1
  <2>2. CASE ~(a >= b)
    BY <2>2
  <2> QED
    BY <2>1, <2>2
<1>2. Max({a, b}) \in {a, b} /\ \A y \in {a, b} : Max({a, b}) >= y
  BY <1>1 DEF Max
<1> QED
  BY <1>2

LEMMA MostOfThree ==
  ASSUME NEW a \in Int, NEW b \in Int, NEW c \in Int
  PROVE  /\ Max({a, b, c}) \in Int /\ Max({a, b, c}) >= a
<1>1. \E x \in {a, b, c} : \A y \in {a, b, c} : x >= y
  <2>1. CASE a >= b /\ a >= c
    BY <2>1
  <2>2. CASE b >= a /\ b >= c
    BY <2>2
  <2>3. CASE c >= a /\ c >= b
    BY <2>3
  <2> QED
    BY <2>1, <2>2, <2>3
<1>2. Max({a, b, c}) \in {a, b, c} /\ \A y \in {a, b, c} : Max({a, b, c}) >= y
  BY <1>1 DEF Max
<1> QED
  BY <1>2

\* A percentage is rounded to a neighbour.
LEMMA Rounded ==
  ASSUME NEW n \in Nat
  PROVE  /\ Round(n, 100) \in Nat
         /\ \A r \in Nat : 100 * r <= n => r <= Round(n, 100)
         /\ n > 50 => Round(n, 100) >= 1
<1>1. /\ n \div 100 \in Nat /\ n % 100 \in Nat /\ n % 100 < 100
      /\ n = 100 * (n \div 100) + (n % 100)
  OBVIOUS
<1>2. PICK q \in Nat, r \in Nat : /\ q = n \div 100 /\ r = n % 100
                                  /\ r < 100 /\ n = 100 * q + r
  BY <1>1
<1>3. Round(n, 100) = IF 2 * r > 100 \/ (2 * r = 100 /\ q % 2 = 1) THEN q + 1 ELSE q
  BY <1>2 DEF Round
<1>4. Round(n, 100) \in {q, q + 1}
  BY <1>3
<1>5. \A k \in Nat : 100 * k <= n => k <= q
  BY <1>2
<1>6. n > 50 => Round(n, 100) >= 1
  <2>1. CASE q = 0
    BY <1>2, <1>3, <2>1
  <2>2. CASE q # 0
    BY <1>2, <1>4, <2>2
  <2> QED
    BY <2>1, <2>2
<1> QED
  BY <1>2, <1>4, <1>5, <1>6

\* Rounding up to whole parts loses nothing.
LEMMA CeilCovers ==
  ASSUME NEW n \in Nat, NEW d \in Nat \ {0}
  PROVE  CeilOf(n, d) \in Nat /\ n <= d * CeilOf(n, d)
<1>1. PICK k \in Nat : k = n + d - 1
  OBVIOUS
<1>2. /\ k \div d \in Nat /\ k % d \in Nat /\ k % d < d
      /\ k = d * (k \div d) + (k % d)
  OBVIOUS
<1>3. d * (k \div d) \in Nat
  BY <1>2
<1>4. n <= d * (k \div d)
  BY <1>1, <1>2, <1>3
<1> QED
  BY <1>1, <1>2, <1>4 DEF CeilOf

-----------------------------------------------------------------------------
(* Capacity and budget planning.                                           *)

Configs == [enabled : SUBSET Models, models_max : Nat, llm : BOOLEAN,
            system_one : BOOLEAN, pct : Nat,
            overrides : [Services -> [PolicyKeys -> Nat \cup {NotSet}]]]

\* What was answered is about the file as it is.
AnswerStands ==
  /\ answer.kind \in {"nothing", "limits", "budget"}
  /\ answer.kind = "limits" =>
       /\ Valid(config)
       /\ \E host \in Hosts :
            /\ ~TooSmall(config, host)
            /\ answer = [kind |-> "limits", host |-> host,
                         limits |-> Limits(config, host)]
  /\ answer.kind = "budget" =>
       /\ config.models_max <= Cardinality(config.enabled)
       /\ \E host \in Hosts, compositor \in CompositorUses, ceiling \in Ceilings :
            answer = Budget(config, host, compositor, ceiling)

BudgetInv == config \in Configs /\ AnswerStands

LEMMA PoliciesTyped ==
  ASSUME NEW f \in Configs, NEW s \in Services
  PROVE  EffectivePolicy(s, f.overrides) \in [PolicyKeys -> Nat]
BY BudgetAssumption DEF Configs, EffectivePolicy

LEMMA ActiveFinite ==
  ASSUME NEW f
  PROVE  Active(f) \in SUBSET Services /\ IsFiniteSet(Active(f))
<1>1. Active(f) \in SUBSET Services
  BY DEF Active
<1> QED
  BY <1>1, BudgetAssumption, FS_Subset

\* The floors are the host's own and the minima of what runs.
LEMMA FloorsAre ==
  ASSUME NEW f \in Configs
  PROVE  /\ Floors(f).cpus \in Nat /\ Floors(f).memory \in Nat
         /\ \A reserved :
              (\A s \in Active(f) : reserved[s] =
                                      EffectivePolicy(s, f.overrides).memory_min_mib) =>
                /\ Floors(f).memory = MemoryFloor + Total(reserved, Active(f))
                /\ Total(reserved, Active(f)) \in Nat
<1> DEFINE policy(s) == EffectivePolicy(s, f.overrides)
<1>1. PICK cpu : cpu = [s \in Services |-> policy(s).cpus_min]
  OBVIOUS
<1>2. PICK memory : memory = [s \in Services |-> policy(s).memory_min_mib]
  OBVIOUS
<1>3. \A s \in Active(f) : cpu[s] \in Nat /\ memory[s] \in Nat
  BY <1>1, <1>2, PoliciesTyped, ActiveFinite DEF PolicyKeys
<1>4. Total(cpu, Active(f)) \in Nat /\ Total(memory, Active(f)) \in Nat
  BY <1>3, ActiveFinite, TotalIsNat
<1>5. Floors(f) = [cpus |-> CpuFloor + Total(cpu, Active(f)),
                   memory |-> MemoryFloor + Total(memory, Active(f))]
  BY <1>1, <1>2 DEF Floors
<1>6. ASSUME NEW reserved,
             \A s \in Active(f) : reserved[s] = policy(s).memory_min_mib
      PROVE  Total(reserved, Active(f)) = Total(memory, Active(f))
  <2>1. \A s \in Active(f) : reserved[s] = memory[s]
    BY <1>2, <1>6, ActiveFinite
  <2> QED
    BY <2>1, ActiveFinite, TotalAgrees
<1>7. CpuFloor \in Nat /\ MemoryFloor \in Nat
  BY BudgetAssumption
<1> HIDE DEF policy
<1> QED
  BY <1>4, <1>5, <1>6, <1>7 DEF policy

\* llm-server's memory: within what the others leave, no less than the host's
\* share, and enough for whatever both the percentage and the others leave room for.
LEMMA LlmMemoryIs ==
  ASSUME NEW f \in Configs, NEW host \in Hosts, NEW pct \in Nat
  PROVE  /\ LlmMemory(f, host, pct) \in Int
         /\ LlmMemory(f, host, pct) <= host.memory - Floors(f).memory
         /\ Floors(f).memory < host.memory => 0 < LlmMemory(f, host, pct)
         /\ \A r \in Nat : r <= host.memory - Floors(f).memory
                           /\ 100 * r <= host.memory * pct =>
                             r <= LlmMemory(f, host, pct)
<1>1. PICK memory \in Nat, floor \in Nat :
        /\ memory = host.memory /\ floor = Floors(f).memory /\ floor >= 1
  <2>1. host.memory \in Nat /\ MemoryFloor >= 1 /\ MemoryFloor \in Nat
    BY BudgetAssumption
  <2>2. PICK reserved : reserved = [s \in Active(f) |->
                                     EffectivePolicy(s, f.overrides).memory_min_mib]
    OBVIOUS
  <2>3. /\ Floors(f).memory = MemoryFloor + Total(reserved, Active(f))
        /\ Total(reserved, Active(f)) \in Nat
    BY <2>2, FloorsAre
  <2> QED
    BY <2>1, <2>3, FloorsAre
<1>2. memory * 30 \in Nat /\ memory * pct \in Nat
  BY <1>1
<1>3. PICK share \in Nat, part \in Nat :
        share = Round(memory * 30, 100) /\ part = Round(memory * pct, 100)
  BY <1>2, Rounded
<1>4. PICK most \in Int : most = Max({share, part}) /\ most >= share /\ most >= part
  <2>1. share \in Int /\ part \in Int
    OBVIOUS
  <2>2. Max({share, part}) \in Int /\ Max({share, part}) >= share
        /\ Max({share, part}) >= part
    BY <2>1, MoreOfTwo
  <2> QED
    BY <2>2
<1>5. LlmMemory(f, host, pct) = Min({memory - floor, most})
  BY <1>1, <1>3, <1>4 DEF LlmMemory, MemoryFloorPct
<1>6. PICK left \in Int, got \in Int :
        /\ left = memory - floor /\ got = LlmMemory(f, host, pct)
        /\ got <= left /\ got <= most /\ (got = left \/ got = most)
  <2>1. PICK left \in Int : left = memory - floor
    BY <1>1
  <2>2. /\ Min({left, most}) \in Int /\ Min({left, most}) <= left
        /\ Min({left, most}) <= most
        /\ (Min({left, most}) = left \/ Min({left, most}) = most)
    BY LessOfTwo
  <2> QED
    BY <1>5, <2>1, <2>2
<1>7. floor < memory => share >= 1
  BY <1>1, <1>2, <1>3, Rounded
<1>8. \A r \in Nat : 100 * r <= memory * pct => r <= part
  BY <1>2, <1>3, Rounded
<1> QED
  BY <1>1, <1>3, <1>4, <1>6, <1>7, <1>8

\* A processor at least, when the others leave one.
LEMMA LlmCpusIs ==
  ASSUME NEW f \in Configs, NEW host \in Hosts, Floors(f).cpus < host.cpus
  PROVE  0 < LlmCpus(f, host)
<1>1. PICK cpus \in Nat, floor \in Nat :
        cpus = host.cpus /\ floor = Floors(f).cpus /\ floor < cpus
  BY BudgetAssumption, FloorsAre
<1>2. PICK cores \in Nat : cores = cpus \div 4
  BY <1>1
<1>3. cores * 20 \in Nat /\ cores * 60 \in Nat
  OBVIOUS
<1>4. PICK most \in Int :
        most = Max({1, Round(cores * 20, 100), Round(cores * 60, 100)}) /\ most >= 1
  <2>1. PICK a \in Int, b \in Int :
          a = Round(cores * 20, 100) /\ b = Round(cores * 60, 100)
    <3>1. Round(cores * 20, 100) \in Nat /\ Round(cores * 60, 100) \in Nat
      BY <1>3, Rounded
    <3> QED
      BY <3>1
  <2>2. Max({1, a, b}) \in Int /\ Max({1, a, b}) >= 1
    BY MostOfThree
  <2> QED
    BY <2>1, <2>2
<1>5. LlmCpus(f, host) = Min({cpus - floor, 4 * most})
  BY <1>1, <1>2, <1>4 DEF LlmCpus, CpuFloorPct, CpuPct
<1>6. PICK left \in Int, cap \in Int : left = cpus - floor /\ cap = 4 * most
  BY <1>1, <1>4
<1>7. Min({left, cap}) = left \/ Min({left, cap}) = cap
  BY LessOfTwo
<1>8. left > 0 /\ cap > 0
  BY <1>1, <1>4, <1>6
<1> QED
  BY <1>5, <1>6, <1>7, <1>8

\* The models that cost most are there, and no others that fit cost more.
LEMMA TopCosts ==
  ASSUME NEW S, IsFiniteSet(S), NEW cost, \A x \in S : cost[x] \in Nat,
         NEW n \in Nat, n <= Cardinality(S)
  PROVE  /\ Total(cost, Top(cost, S, n)) \in Nat
         /\ \A R \in SUBSET S : Cardinality(R) <= n =>
              Total(cost, R) \in Nat /\ Total(cost, R) <= Total(cost, Top(cost, S, n))
<1>1. \E T \in kSubset(n, S) : Dearest(cost, S, T)
  BY DearestExist DEF kSubset
<1>2. Top(cost, S, n) \in kSubset(n, S) /\ Dearest(cost, S, Top(cost, S, n))
  BY <1>1 DEF Top, Dearest
<1>3. PICK T \in SUBSET S : /\ T = Top(cost, S, n) /\ Cardinality(T) = n
                            /\ Dearest(cost, S, T)
  BY <1>2 DEF kSubset
<1>4. \A R \in SUBSET S : Total(cost, R) \in Nat
  BY FS_Subset, TotalIsNat
<1>5. \A R \in SUBSET S : Cardinality(R) <= n => Total(cost, R) <= Total(cost, T)
  BY <1>3, DearestIsMost
<1> QED
  BY <1>3, <1>4, <1>5

LEMMA BudgetInitial == BudgetInit => BudgetInv
<1> SUFFICES ASSUME BudgetInit PROVE BudgetInv
  OBVIOUS
<1>1. Max(MemoryPcts) \in Nat
  <2>1. MemoryPcts \in SUBSET Nat /\ MemoryPcts # {} /\ \A n \in MemoryPcts : n < 101
    BY BudgetAssumption
  <2>2. \E m \in MemoryPcts : \A n \in MemoryPcts : n <= m
    BY <2>1, GreatestNumber
  <2>3. \E m \in MemoryPcts : \A n \in MemoryPcts : m >= n
    BY <2>1, <2>2
  <2> QED
    BY <2>1, <2>3 DEF Max
<1>2. PICK none : none = [s \in Services |-> [k \in PolicyKeys |-> NotSet]]
  OBVIOUS
<1>3. none \in [Services -> [PolicyKeys -> Nat \cup {NotSet}]]
  BY <1>2
<1>4. config \in Configs
  BY <1>1, <1>2, <1>3 DEF BudgetInit, Configs
<1>5. AnswerStands
  BY DEF BudgetInit, AnswerStands, Nothing
<1> QED
  BY <1>4, <1>5 DEF BudgetInv

\* A file that is saved, or written by hand, has not been answered about.
LEMMA Unanswered ==
  ASSUME config' \in Configs, answer' = Nothing
  PROVE  BudgetInv'
BY DEF BudgetInv, AnswerStands, Nothing

LEMMA OverrideTyped ==
  ASSUME NEW overrides \in [Services -> [PolicyKeys -> Nat \cup {NotSet}]],
         NEW s \in Services, NEW k \in PolicyKeys, NEW n \in Nat
  PROVE  [overrides EXCEPT ![s][k] = n] \in [Services -> [PolicyKeys -> Nat \cup {NotSet}]]
OBVIOUS

LEMMA BudgetStep ==
  ASSUME BudgetInv, BudgetNext
  PROVE  BudgetInv'
<1> USE DEF BudgetInv
<1>1. \A s \in Overridden : s \in Services
  BY BudgetAssumption
<1>2. \A n \in Amounts : n \in Nat
  BY BudgetAssumption
<1>3. CASE SetOverride
  <2>1. PICK s \in Overridden, k \in PolicyKeys, n \in Amounts :
          Save([config EXCEPT !.overrides[s][k] = n])
    BY <1>3 DEF SetOverride
  <2>2. PICK overrides : overrides = [config.overrides EXCEPT ![s][k] = n]
    OBVIOUS
  <2>3. overrides \in [Services -> [PolicyKeys -> Nat \cup {NotSet}]]
    BY <1>1, <1>2, <2>2, OverrideTyped DEF Configs
  <2>4. config' = [config EXCEPT !.overrides = overrides] /\ answer' = Nothing
    BY <2>1, <2>2 DEF Save
  <2>5. config' \in Configs
    BY <2>3, <2>4 DEF Configs
  <2> QED
    BY <2>4, <2>5, Unanswered
<1>4. CASE ClearOverride
  <2>1. PICK S : Save([config EXCEPT !.overrides = [s \in Services |->
                   IF s \in S THEN [k \in PolicyKeys |-> NotSet] ELSE @[s]]])
    BY <1>4 DEF ClearOverride
  <2>2. PICK overrides : overrides =
          [s \in Services |-> IF s \in S THEN [k \in PolicyKeys |-> NotSet]
                                         ELSE config.overrides[s]]
    OBVIOUS
  <2>3. overrides \in [Services -> [PolicyKeys -> Nat \cup {NotSet}]]
    BY <2>2 DEF Configs
  <2>4. config' = [config EXCEPT !.overrides = overrides] /\ answer' = Nothing
    BY <2>1, <2>2 DEF Save
  <2>5. config' \in Configs
    BY <2>3, <2>4 DEF Configs
  <2> QED
    BY <2>4, <2>5, Unanswered
<1>5. CASE SetModels
  <2>1. PICK S \in SUBSET Models :
          Save([config EXCEPT !.enabled = S,
                              !.models_max = Min({@, Cardinality(S)})])
    BY <1>5 DEF SetModels
  <2>2. Cardinality(S) \in Nat /\ config.models_max \in Nat
    BY BudgetAssumption, FS_Subset, FS_CardinalityType DEF Configs
  <2>3. PICK n \in Nat : n = Min({config.models_max, Cardinality(S)})
    <3>1. PICK a \in Int, b \in Int : /\ a = config.models_max /\ b = Cardinality(S)
                                      /\ a >= 0 /\ b >= 0
      BY <2>2
    <3>2. Min({a, b}) = a \/ Min({a, b}) = b
      BY LessOfTwo
    <3> QED
      BY <3>1, <3>2
  <2>4. config' = [config EXCEPT !.enabled = S, !.models_max = n] /\ answer' = Nothing
    BY <2>1, <2>3 DEF Save
  <2>5. config' \in Configs
    BY <2>4 DEF Configs
  <2> QED
    BY <2>4, <2>5, Unanswered
<1>6. CASE EditByHand
  <2>1. answer' = Nothing
    BY <1>6 DEF EditByHand
  <2>2. ASSUME NEW s \in Overridden, NEW k \in PolicyKeys, NEW n \in Amounts,
               config' = [config EXCEPT !.overrides[s][k] = n]
        PROVE  config' \in Configs
    <3>1. PICK overrides : overrides = [config.overrides EXCEPT ![s][k] = n]
      OBVIOUS
    <3>2. overrides \in [Services -> [PolicyKeys -> Nat \cup {NotSet}]]
      BY <1>1, <1>2, <3>1, OverrideTyped DEF Configs
    <3>3. config' = [config EXCEPT !.overrides = overrides]
      BY <2>2, <3>1
    <3> QED
      BY <3>2, <3>3 DEF Configs
  <2>3. ASSUME NEW llm \in BOOLEAN, NEW s1 \in BOOLEAN, NEW pct \in MemoryPcts,
               NEW n \in 1 .. Cardinality(Models),
               config' = [config EXCEPT !.llm = llm, !.system_one = s1, !.pct = pct,
                                        !.models_max = n]
        PROVE  config' \in Configs
    <3>1. pct \in Nat /\ n \in Nat
      BY BudgetAssumption, FS_CardinalityType
    <3> QED
      BY <2>3, <3>1 DEF Configs
  <2>4. config' \in Configs
    BY <1>6, <2>2, <2>3 DEF EditByHand
  <2> QED
    BY <2>1, <2>4, Unanswered
<1>7. CASE AskLimits
  <2>1. PICK host \in Hosts :
          /\ ~TooSmall(config, host)
          /\ answer' = [kind |-> "limits", host |-> host, limits |-> Limits(config, host)]
    BY <1>7 DEF AskLimits
  <2>2. Valid(config) /\ config' = config
    BY <1>7 DEF AskLimits
  <2>3. answer'.kind = "limits"
    BY <2>1
  <2>4. AnswerStands'
    BY <2>1, <2>2, <2>3 DEF AnswerStands
  <2> QED
    BY <2>2, <2>4
<1>8. CASE AskBudget
  <2>1. PICK host \in Hosts, compositor \in CompositorUses, ceiling \in Ceilings :
          answer' = Budget(config, host, compositor, ceiling)
    BY <1>8 DEF AskBudget
  <2>2. config' = config /\ config.models_max <= Cardinality(config.enabled)
    BY <1>8 DEF AskBudget
  <2>3. answer'.kind = "budget"
    BY <2>1 DEF Budget
  <2>4. AnswerStands'
    BY <2>1, <2>2, <2>3 DEF AnswerStands
  <2> QED
    BY <2>2, <2>4
<1> QED
  BY <1>3, <1>4, <1>5, <1>6, <1>7, <1>8 DEF BudgetNext

LEMMA BudgetInvHolds == BudgetSpec => []BudgetInv
<1>1. BudgetInv /\ [BudgetNext]_budgetVars => BudgetInv'
  <2>1. CASE BudgetNext
    BY <2>1, BudgetStep
  <2>2. CASE UNCHANGED budgetVars
    BY <2>2 DEF budgetVars, BudgetInv, AnswerStands
  <2> QED
    BY <2>1, <2>2
<1> QED
  BY BudgetInitial, <1>1, PTL DEF BudgetSpec

\* Whatever becomes of models.yml, no limit that is rendered is 0 but that of what
\* is off, and llm-server's leaves the host and the others what is theirs.
\* (validate_overrides, compute_resource_limits)
THEOREM CapsStay == BudgetSpec => []CapsNeverVanish
<1>1. ASSUME BudgetInv PROVE CapsNeverVanish
  <2> SUFFICES ASSUME answer.kind = "limits" PROVE CapsNeverVanish
    BY DEF CapsNeverVanish
  <2>1. PICK host \in Hosts :
          /\ ~TooSmall(config, host)
          /\ answer = [kind |-> "limits", host |-> host, limits |-> Limits(config, host)]
    BY <1>1 DEF BudgetInv, AnswerStands
  <2>2. Valid(config) /\ config \in Configs
    BY <1>1 DEF BudgetInv, AnswerStands
  <2>3. PICK policies : policies = [s \in Active(config) |->
                                      EffectivePolicy(s, config.overrides)]
    OBVIOUS
  <2>4. /\ answer.limits.services = policies /\ answer.host = host
        /\ answer.limits.memory = IF config.llm THEN LlmMemory(config, host, config.pct) ELSE 0
        /\ answer.limits.cpus = IF config.llm THEN LlmCpus(config, host) ELSE 0
    BY <2>1, <2>3 DEF Limits
  <2>5. ASSUME NEW s \in Active(config)
        PROVE  /\ 0 < policies[s].cpus_max /\ 0 < policies[s].memory_max_mib
               /\ policies[s].memory_min_mib <= policies[s].memory_max_mib
    <3>1. s \in Services
      BY ActiveFinite
    <3>2. policies[s] = EffectivePolicy(s, config.overrides)
      BY <2>3
    <3>3. ValidOverride(s, config.overrides)
      BY <2>2, <3>1 DEF Valid, ValidOverrides
    <3>4. \A k \in PolicyKeys : /\ config.overrides[s][k] \in Nat \cup {NotSet}
                                /\ config.overrides[s][k] # 0
                                /\ Default[s][k] \in Nat \ {0}
      BY <2>2, <3>1, <3>3, BudgetAssumption DEF Configs, ValidOverride
    <3>5. \A k \in PolicyKeys : EffectivePolicy(s, config.overrides)[k] \in Nat \ {0}
      BY <3>4 DEF EffectivePolicy
    <3> QED
      BY <3>2, <3>3, <3>5 DEF ValidOverride, PolicyKeys
  <2>6. PICK reserved : reserved = [s \in DOMAIN policies |-> policies[s].memory_min_mib]
    OBVIOUS
  <2>7. /\ Floors(config).memory = MemoryFloor + Total(reserved, DOMAIN policies)
        /\ Total(reserved, DOMAIN policies) \in Nat /\ Floors(config).memory \in Nat
    <3>1. DOMAIN policies = Active(config)
      BY <2>3
    <3>2. \A s \in Active(config) :
            reserved[s] = EffectivePolicy(s, config.overrides).memory_min_mib
      BY <2>3, <2>6, <3>1
    <3> QED
      BY <2>2, <3>1, <3>2, FloorsAre
  <2>8. ASSUME config.llm
        PROVE  /\ 0 < answer.limits.cpus /\ 0 < answer.limits.memory
               /\ answer.limits.memory + Total(reserved, DOMAIN policies) + MemoryFloor
                    <= answer.host.memory
    <3>1. host.cpus \in Nat /\ host.memory \in Nat /\ MemoryFloor \in Nat
      BY BudgetAssumption
    <3>2. /\ Floors(config).cpus \in Nat
          /\ Floors(config).cpus < host.cpus /\ Floors(config).memory < host.memory
      BY <2>1, <2>2, <2>7, <2>8, <3>1, FloorsAre DEF TooSmall
    <3>3. config.pct \in Nat
      BY <2>2 DEF Configs
    <3>4. /\ LlmMemory(config, host, config.pct) \in Int
          /\ LlmMemory(config, host, config.pct) <= host.memory - Floors(config).memory
          /\ 0 < LlmMemory(config, host, config.pct)
      BY <2>2, <3>2, <3>3, LlmMemoryIs
    <3>5. 0 < LlmCpus(config, host)
      BY <2>2, <3>2, LlmCpusIs
    <3> QED
      BY <2>4, <2>7, <2>8, <3>1, <3>4, <3>5
  <2>9. DOMAIN policies = Active(config)
    BY <2>3
  <2> QED
    BY <2>4, <2>5, <2>6, <2>8, <2>9 DEF CapsNeverVanish
<1> QED
  BY BudgetInvHolds, <1>1, PTL

\* What the budget says fits does, whichever models are held at a time, and the
\* percentage it asks for is enough.  (compute_budget, cmd_budget)
THEOREM BudgetsAreRight == BudgetSpec => []BudgetIsRight
<1>1. ASSUME BudgetInv PROVE BudgetIsRight
  <2> SUFFICES ASSUME answer.kind = "budget" PROVE BudgetIsRight
    BY DEF BudgetIsRight
  <2>1. PICK host \in Hosts, compositor \in CompositorUses, ceiling \in Ceilings :
          answer = Budget(config, host, compositor, ceiling)
    BY <1>1 DEF BudgetInv, AnswerStands
  <2>2. config \in Configs /\ config.models_max <= Cardinality(config.enabled)
    BY <1>1 DEF BudgetInv, AnswerStands
  <2>3. PICK ram \in Nat, vram \in Nat :
          /\ ram = RamRequired(config)
          /\ vram = Total(VramMib, Top(VramMib, config.enabled, config.models_max))
          /\ \A S \in SUBSET config.enabled : Cardinality(S) <= config.models_max =>
               /\ Total(VramMib, S) \in Nat /\ Total(VramMib, S) <= vram
               /\ Total(RamMib, S) \in Nat /\ Total(RamMib, S) <= ram
    <3>1. /\ config.enabled \in SUBSET Models /\ IsFiniteSet(config.enabled)
          /\ config.models_max \in Nat
      BY <2>2, BudgetAssumption, FS_Subset DEF Configs
    <3>2. \A x \in config.enabled : RamMib[x] \in Nat /\ VramMib[x] \in Nat
      BY <3>1, CostsAssumption DEF RamMib, VramMib
    <3>3. PICK r, v : r = RamMib /\ v = VramMib
      OBVIOUS
    <3>4. \A x \in config.enabled : r[x] \in Nat /\ v[x] \in Nat
      BY <3>2, <3>3
    <3>5. /\ Total(r, Top(r, config.enabled, config.models_max)) \in Nat
          /\ \A R \in SUBSET config.enabled : Cardinality(R) <= config.models_max =>
               /\ Total(r, R) \in Nat
               /\ Total(r, R) <= Total(r, Top(r, config.enabled, config.models_max))
      BY <2>2, <3>1, <3>4, TopCosts
    <3>6. /\ Total(v, Top(v, config.enabled, config.models_max)) \in Nat
          /\ \A R \in SUBSET config.enabled : Cardinality(R) <= config.models_max =>
               /\ Total(v, R) \in Nat
               /\ Total(v, R) <= Total(v, Top(v, config.enabled, config.models_max))
      BY <2>2, <3>1, <3>4, TopCosts
    <3> QED
      BY <3>3, <3>5, <3>6 DEF RamRequired
  <2>4. PICK limit, room \in Int :
          /\ limit = (IF config.llm THEN LlmMemory(config, host, config.pct) ELSE 0)
          /\ limit \in Int
          /\ room = Available(config, compositor, ceiling)
    <3>1. config.pct \in Nat
      BY <2>2 DEF Configs
    <3>2. LlmMemory(config, host, config.pct) \in Int
      BY <2>2, <3>1, LlmMemoryIs
    <3>3. Available(config, compositor, ceiling) \in Int
      <4>1. PICK v \in Int, c \in Int, u \in Int, r \in Int :
              v = Vram /\ c = ceiling /\ u = compositor /\ r = ReserveFloor
        BY BudgetAssumption
      <4>2. Min({v, c}) \in Int /\ Max({u, r}) \in Int
        BY LessOfTwo, MoreOfTwo
      <4>3. SystemOneVram \in Int /\ Spike \in Int
        BY BudgetAssumption
      <4> QED
        BY <4>1, <4>2, <4>3 DEF Available
    <3> QED
      BY <3>2, <3>3
  <2>5. /\ answer.host = host /\ answer.compositor = compositor
        /\ answer.feasible = (vram <= room /\ ~TooSmall(config, host) /\ ram <= limit)
        /\ answer.needed = IF TooSmall(config, host) \/ ram <= limit \/ ~config.llm
                              \/ ram > LlmMemory(config, host, 100)
                           THEN NotSet ELSE CeilOf(100 * ram, host.memory)
    BY <2>1, <2>3, <2>4 DEF Budget
  <2>6. ASSUME answer.feasible,
               NEW S \in SUBSET config.enabled, Cardinality(S) <= config.models_max
        PROVE  /\ Total(VramMib, S) + Max({answer.compositor, ReserveFloor}) + Spike
                    + (IF config.system_one THEN SystemOneVram ELSE 0) <= Vram
               /\ Total(RamMib, S) <= Limits(config, answer.host).memory
    <3>1. vram <= room /\ ram <= limit
      BY <2>5, <2>6
    <3>2. PICK v \in Int, c \in Int, u \in Int, r \in Int, spike \in Int :
            /\ v = Vram /\ c = ceiling /\ u = compositor /\ r = ReserveFloor
            /\ spike = Spike
      BY BudgetAssumption
    <3>3. PICK least \in Int, most \in Int :
            least = Min({v, c}) /\ most = Max({u, r}) /\ least <= v
      <4>1. Min({v, c}) \in Int /\ Max({u, r}) \in Int /\ Min({v, c}) <= v
        BY LessOfTwo, MoreOfTwo
      <4> QED
        BY <4>1
    <3>4. PICK s1 \in Int : s1 = IF config.system_one THEN SystemOneVram ELSE 0
      BY BudgetAssumption
    <3>5. room = (IF c = 0 THEN v ELSE least) - most - s1 - spike
      BY <2>4, <3>2, <3>3, <3>4 DEF Available
    <3>6. PICK total \in Nat : total = Total(VramMib, S) /\ total <= vram
      BY <2>3, <2>6
    <3>7. total + most + spike + s1 <= v
      BY <3>1, <3>3, <3>5, <3>6
    <3>8. Limits(config, host).memory = limit
      BY <2>4 DEF Limits
    <3>9. Total(RamMib, S) <= limit
      BY <2>3, <2>4, <2>6, <3>1
    <3>10. answer.host = host /\ answer.compositor = compositor
      BY <2>5
    <3>11. Total(VramMib, S) + Max({answer.compositor, ReserveFloor}) + Spike
              + (IF config.system_one THEN SystemOneVram ELSE 0) = total + most + spike + s1
      BY <3>2, <3>3, <3>4, <3>6, <3>10
    <3>12. Limits(config, answer.host).memory = limit
      BY <3>8, <3>10
    <3> QED
      BY <3>2, <3>7, <3>9, <3>11, <3>12
  <2>7. ASSUME answer.needed # NotSet,
               NEW S \in SUBSET config.enabled, Cardinality(S) <= config.models_max
        PROVE  Total(RamMib, S) <= LlmMemory(config, answer.host, answer.needed)
    <3>1. /\ ~TooSmall(config, host) /\ config.llm
          /\ ~(ram > LlmMemory(config, host, 100))
          /\ answer.needed = CeilOf(100 * ram, host.memory)
      BY <2>5, <2>7
    <3>2. host.memory \in Nat /\ Floors(config).memory \in Nat
      BY <2>2, BudgetAssumption, FloorsAre
    <3>3. Floors(config).memory < host.memory
      BY <3>1, <3>2 DEF TooSmall
    <3>4. /\ LlmMemory(config, host, 100) \in Int
          /\ LlmMemory(config, host, 100) <= host.memory - Floors(config).memory
      BY <2>2, LlmMemoryIs
    <3>5. PICK memory \in Nat \ {0}, n \in Nat, needed \in Nat :
            /\ memory = host.memory /\ n = 100 * ram
            /\ needed = CeilOf(100 * ram, host.memory) /\ n <= memory * needed
      <4>1. PICK memory \in Nat \ {0}, n \in Nat : memory = host.memory /\ n = 100 * ram
        BY <3>2, <3>3
      <4>2. CeilOf(n, memory) \in Nat /\ n <= memory * CeilOf(n, memory)
        BY CeilCovers
      <4> QED
        BY <4>1, <4>2
    <3>6. ram <= host.memory - Floors(config).memory
      BY <3>1, <3>2, <3>4
    <3>7. 100 * ram <= host.memory * needed
      BY <3>5
    <3>8. /\ LlmMemory(config, host, needed) \in Int
          /\ ram <= LlmMemory(config, host, needed)
      BY <2>2, <3>6, <3>7, LlmMemoryIs
    <3>9. answer.needed = needed /\ answer.host = host
      BY <2>5, <3>1, <3>5
    <3>10. Total(RamMib, S) \in Nat /\ Total(RamMib, S) <= ram
      BY <2>3, <2>7
    <3>11. Total(RamMib, S) <= LlmMemory(config, host, needed)
      BY <3>8, <3>10
    <3> QED
      BY <3>9, <3>11
  <2> QED
    BY <2>6, <2>7 DEF BudgetIsRight
<1> QED
  BY BudgetInvHolds, <1>1, PTL
=============================================================================
