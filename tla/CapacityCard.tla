---------------------------- MODULE CapacityCard ----------------------------
(***************************************************************************)
(* The capacity card of the local model (pylib/capacity.py) and the limits  *)
(* it gives clients: compute_combo_context of pylib/omniroute.py and        *)
(* _build_unified_models of pylib/remote_setup.py.  models.yml is edited    *)
(* between a measurement, its filing and its use, and commands that measure *)
(* and file overlap: scripts/model-interference.sh loads the model for      *)
(* minutes before it files its report.                                      *)
(***************************************************************************)
EXTENDS Integers, FiniteSetsExt, SequencesExt

CONSTANTS
  Entries,    \* of models.yml: [build: a file and the flags it is run with, ctx]
  ClientMax,  \* client_max_output_tokens
  Depths,
  BenchPrompt,  \* BENCH_PROMPT_TOKENS
  Filers,     \* commands that file a measurement
  MaxEdits, MaxWrites,  \* bounds: edits of models.yml, commands begun
  LocalProvider,  \* llama-cpp
  Alias,      \* the local model's
  Catalogs,   \* sequences of [root, context, output], as OmniRoute lists them
  Combos,     \* sequences of members, [provider, model]
  Corrected,  \* windows the tools know better, <<provider, model>> -> Nat
  DefaultOutput  \* 128000

\* What the code takes is positive: models.yml is validated, a catalog's limits and
\* the corrected windows are token counts; the tools correct no local window.
ASSUME CardAssumption ==
  /\ \A e \in Entries : e.ctx \in Nat \ {0}
  /\ Depths \subseteq Nat /\ BenchPrompt \in Nat
  /\ ClientMax \in Nat \ {0} /\ DefaultOutput \in Nat \ {0}
  /\ \A catalog \in Catalogs : \A i \in DOMAIN catalog :
       catalog[i].context \in Nat /\ catalog[i].output \in Nat
  /\ \A list \in Catalogs \cup Combos : DOMAIN list = 1 .. Len(list) /\ Len(list) \in Nat
  /\ \A known \in DOMAIN Corrected :
       Corrected[known] \in Nat \ {0} /\ known[1] # LocalProvider

Unknown == 0
NoConfig == [build |-> "none", ctx |-> 0]
NoSection == [fp |-> NoConfig]
NoCard == [depth |-> NoSection, gate |-> NoSection]

VARIABLES
  entry,    \* the model's, of now
  sweeps,   \* bench-fit.sh outputs: [build, depth]
  card,     \* its sections, each with its fingerprint
  filer,    \* each command: [pc, ran: the entry a gate began with, passed: its
            \* verdict, card: what it will save]
  edits, writes,
  listed,   \* what a client was last given
  \* history
  gatesPassed,  \* entries that gates which passed had begun with, and
  untested      \* entries that models.yml had come to have when the report of a
                \* gate begun with another one was filed

gateHistory == <<gatesPassed, untested>>
cardVars == <<entry, sweeps, gateHistory, card, filer, edits, writes, listed>>

Unlisted == [kind |-> "nothing"]
IdleFiler == [pc |-> "idle", ran |-> NoConfig, passed |-> FALSE, card |-> NoCard]

-----------------------------------------------------------------------------
(* capacity.py: what is usable.                                            *)

\* Mutant: a section is current whatever the configuration is.
AnySection(section, config) == section.fp # NoConfig

\* _current, with the configuration itself for its fingerprint.
IsCurrent(section, config) == section.fp = config

\* usable, which read_card works out anew against the configuration of now.
UsableContext(config) ==
  IF /\ IsCurrent(card.depth, config)
     /\ IsCurrent(card.gate, config) /\ card.gate.passed
  THEN Min({config.ctx, card.depth.measured + BenchPrompt})
  ELSE Unknown

UsableOutput(config) == Min({ClientMax, UsableContext(config)})

-----------------------------------------------------------------------------
(* Measuring and filing.                                                   *)

\* bench-fit.sh.
Sweep == /\ \E d \in Depths :
              sweeps' = sweeps \cup {[build |-> entry.build, depth |-> d]}
         /\ UNCHANGED <<entry, gateHistory, card, filer, edits, writes>>
         /\ listed' = Unlisted

Begins(w) == /\ filer[w].pc = "idle" /\ writes < MaxWrites
             /\ writes' = writes + 1
             /\ listed' = Unlisted

\* model-interference.sh reads the entry, warms the model up and takes its baseline.
StartGate(w) ==
  /\ Begins(w)
  /\ filer' = [filer EXCEPT ![w] = [IdleFiler EXCEPT !.pc = "gate", !.ran = entry]]
  /\ UNCHANGED <<entry, sweeps, gateHistory, card, edits>>

\* The load window is over and interference evaluate has its verdict, or the
\* script has ended without one.
EndGate(w) ==
  /\ filer[w].pc = "gate"
  /\ \/ \E passed \in BOOLEAN :
          /\ filer' = [filer EXCEPT ![w] = [@ EXCEPT !.pc = "report", !.passed = passed]]
          /\ gatesPassed' = gatesPassed \cup (IF passed THEN {filer[w].ran} ELSE {})
     \/ filer' = [filer EXCEPT ![w] = IdleFiler] /\ UNCHANGED gatesPassed
  /\ listed' = Unlisted
  /\ UNCHANGED <<entry, sweeps, untested, card, edits, writes>>

\* write_card reads models.yml and the card, and stamps what it files with the
\* configuration it has read: a report says not what it was measured with.
FileReport(w) ==
  /\ filer[w].pc = "report"
  /\ filer' = [filer EXCEPT ![w] = [@ EXCEPT !.pc = "save", !.card =
        [card EXCEPT !.gate = [fp |-> entry, passed |-> filer[w].passed]]]]
  /\ untested' = untested \cup (IF filer[w].ran = entry THEN {} ELSE {entry})
  /\ listed' = Unlisted
  /\ UNCHANGED <<entry, sweeps, gatesPassed, card, edits, writes>>

\* A sweep of another build is refused.
FileSweep(w) ==
  /\ Begins(w)
  /\ \E s \in sweeps :
       /\ s.build = entry.build
       /\ filer' = [filer EXCEPT ![w] = [@ EXCEPT !.pc = "save", !.card =
             [card EXCEPT !.depth = [fp |-> entry, measured |-> s.depth]]]]
  /\ UNCHANGED <<entry, sweeps, gateHistory, card, edits>>

\* _save replaces the card as a whole; the command may fail before.
SaveCard(w) ==
  /\ filer[w].pc = "save"
  /\ card' \in {card, filer[w].card}
  /\ filer' = [filer EXCEPT ![w] = IdleFiler]
  /\ listed' = Unlisted
  /\ UNCHANGED <<entry, sweeps, gateHistory, edits, writes>>

EditEntry ==
  /\ edits < MaxEdits /\ edits' = edits + 1
  /\ entry' \in Entries \ {entry}
  /\ listed' = Unlisted
  /\ UNCHANGED <<sweeps, gateHistory, card, filer, writes>>

-----------------------------------------------------------------------------
(* What clients are told of the combos.                                    *)

\* The first entry of a root that says so.
FirstKnown(catalog, root, field) ==
  LET known == {i \in DOMAIN catalog : /\ catalog[i].root = root
                                       /\ catalog[i][field] # Unknown}
  IN  IF known = {} THEN Unknown ELSE catalog[Min(known)][field]

\* local_limits; remote-setup has none.
LocalLimit(remote, model, n) == IF remote \/ model # Alias THEN Unknown ELSE n

\* Mutant: the catalog is believed about the local model too.
CatalogWindow(catalog, remote, m) ==
  IF <<m.provider, m.model>> \in DOMAIN Corrected THEN Corrected[<<m.provider, m.model>>]
  ELSE FirstKnown(catalog, m.model, "context")

\* _resolve_member_context_window
MemberWindow(catalog, remote, m) ==
  IF m.provider = LocalProvider
  THEN LocalLimit(remote, m.model, UsableContext(entry))
  ELSE IF <<m.provider, m.model>> \in DOMAIN Corrected
  THEN Corrected[<<m.provider, m.model>>]
  ELSE FirstKnown(catalog, m.model, "context")

MemberOutput(catalog, remote, m) ==
  IF m.provider = LocalProvider
  THEN LocalLimit(remote, m.model, UsableOutput(entry))
  ELSE FirstKnown(catalog, m.model, "output")

LeastKnown(S) == IF S \subseteq {Unknown} THEN Unknown ELSE Min(S \ {Unknown})

\* compute_combo_context and _build_unified_models: a combo of which nothing is
\* known is left out.
ClientModel(catalog, remote, combo) ==
  LET window(i) == MemberWindow(catalog, remote, combo[i])
      ctx == LeastKnown({window(i) : i \in DOMAIN combo})
      out == LeastKnown({MemberOutput(catalog, remote, combo[i]) : i \in DOMAIN combo})
  IN  IF ctx = Unknown THEN [kind |-> "left out"]
      ELSE [kind |-> "model", ctx |-> ctx,
            out |-> IF out = Unknown THEN Min({ctx, DefaultOutput}) ELSE Min({ctx, out}),
            limiting |-> combo[Min({i \in DOMAIN combo : window(i) = ctx})],
            remote |-> remote, combo |-> combo, catalog |-> catalog]

\* Asking changes nothing; what a command is about to save is of no account.
AskCombo ==
  /\ \A w \in Filers : filer[w].pc = "idle"
  /\ \E catalog \in Catalogs, combo \in Combos, remote \in BOOLEAN :
       listed' = ClientModel(catalog, remote, combo)
  /\ UNCHANGED <<entry, sweeps, gateHistory, card, filer, edits, writes>>

-----------------------------------------------------------------------------
CardInit == /\ entry \in Entries /\ sweeps = {} /\ card = NoCard
            /\ filer = [w \in Filers |-> IdleFiler]
            /\ edits = 0 /\ writes = 0 /\ listed = Unlisted
            /\ gatesPassed = {} /\ untested = {}

CardNext == \/ Sweep \/ EditEntry \/ AskCombo
            \/ \E w \in Filers : \/ StartGate(w) \/ EndGate(w) \/ FileReport(w)
                                 \/ FileSweep(w) \/ SaveCard(w)

CardSpec == CardInit /\ [][CardNext]_cardVars

\* What the card gives the present configuration was measured: its build was swept
\* that deep, and a gate begun with it has passed, however the file was edited and
\* reverted and whichever commands overlapped -- or, against "measured-only", a gate
\* begun with another entry found this one in models.yml when its report was filed:
\* write_card stamps a report with the configuration of its filing.  (usable)
UsableIsMeasured ==
  UsableContext(entry) # Unknown =>
    /\ entry \in gatesPassed \cup untested
    /\ \E s \in sweeps : /\ s.build = entry.build
                         /\ UsableContext(entry) <= s.depth + BenchPrompt
    /\ UsableContext(entry) <= entry.ctx

\* The entry of a catalog that says first what a model can take.
SaysFirst(catalog, i, model, field) ==
  /\ catalog[i].root = model /\ catalog[i][field] # Unknown
  /\ \A j \in 1 .. i - 1 : catalog[j].root = model => catalog[j][field] = Unknown

\* A client is never told more than a member of the combo whose window or output is
\* known can take: the local model's is what its card says now, another's is the
\* tools' correction, else what the catalog that was read says first; the member
\* named as the limit is one, and no combo of local members alone reaches a remote
\* client.  (compute_combo_context; _resolve_member_context_window, "never from the
\* catalog"; _build_unified_models, "Local-only combos never reach remote clients")
ClientsStayWithin ==
  listed.kind = "model" =>
    /\ listed.out <= listed.ctx
    /\ listed.limiting \in ToSet(listed.combo)
    /\ \A m \in ToSet(listed.combo) :
         /\ <<m.provider, m.model>> \in DOMAIN Corrected =>
              listed.ctx <= Corrected[<<m.provider, m.model>>]
         /\ m.provider # LocalProvider => \A i \in DOMAIN listed.catalog :
              /\ /\ <<m.provider, m.model>> \notin DOMAIN Corrected
                 /\ SaysFirst(listed.catalog, i, m.model, "context")
                 => listed.ctx <= listed.catalog[i].context
              /\ SaysFirst(listed.catalog, i, m.model, "output")
                 => listed.out <= listed.catalog[i].output
         /\ m.provider = LocalProvider /\ ~listed.remote /\ UsableContext(entry) # Unknown
              /\ m.model = Alias => /\ listed.ctx <= UsableContext(entry)
                                   /\ listed.out <= ClientMax
         /\ m.provider = LocalProvider /\ (listed.remote \/ UsableContext(entry) = Unknown)
              => listed.limiting # m
    /\ listed.remote => \E m \in ToSet(listed.combo) : m.provider # LocalProvider
=============================================================================
