------------------------------- MODULE MCTools -------------------------------
(***************************************************************************)
(* The tools around the stack, which share no state with each other: a      *)
(* behaviour is one of them at work.  The instances are small: two callers  *)
(* of one key cache; two passes over a z.ai connection whose usage tells    *)
(* the window and one whose does not; two accounts of which one has a name   *)
(* in the tool's table; hosts just below, at and well above the floors; a    *)
(* dense model and two with experts, one of which costs more RAM and less    *)
(* VRAM.                                                                    *)
(***************************************************************************)
EXTENDS KeyIssuance, QuotaReset, Provisioning, ResourceBudget, CapacityCard,
        InterferenceGate

CONSTANTS e1, e2, n1, n2, dense, moe, small, cloud, codex, big, sol, b1, b2

VARIABLE tooling  \* which tool this behaviour is about

OneCache == [i \in Issuers |-> CHOOSE c \in Caches : TRUE]

ThePreferredName == [e \in Emails |-> IF e = e1 THEN n1 ELSE NoName]
TheDerivedName   == [e \in Emails |-> n2]

P(cmin, cmax, mmin, mmax) == [cpus_min |-> cmin, cpus_max |-> cmax,
                              memory_min_mib |-> mmin, memory_max_mib |-> mmax]
TheDefault == [omniroute |-> P(4, 8, 1, 3), remote_setup |-> P(1, 2, 1, 1),
               system_one |-> P(4, 8, 2, 4), phoenix |-> P(1, 4, 1, 2)]
TheHosts == {[cpus |-> 16, memory |-> 9], [cpus |-> 24, memory |-> 16],
             [cpus |-> 64, memory |-> 40]}
L(kind) == [kind |-> kind, width |-> 1]
TheWeights == dense :> 40 @@ moe :> 46 @@ small :> 30
TheLayers  == dense :> <<L("full"), L("swa")>> @@ moe :> <<L("recurrent"), L("full")>>
              @@ small :> <<L("full")>>
TheExperts == dense :> <<>> @@ moe :> <<9, 9, 9>> @@ small :> <<11, 11>>
TheCpuMoe  == dense :> NotSet @@ moe :> 2 @@ small :> 2

E(root, ctx, out) == [root |-> root, context |-> ctx, output |-> out]
M(p, m) == [provider |-> p, model |-> m]
TheEntries == {[build |-> b1, ctx |-> 5], [build |-> b1, ctx |-> 20],
               [build |-> b2, ctx |-> 20]}
TheCatalogs == {<<>>, <<E(big, 8, 4), E(sol, 9, 0), E(Alias, 3, 3)>>,
                <<E(Alias, 99, 99), E(big, 0, 9), E(big, 5, 2)>>}
TheCombos == {<<M(LocalProvider, Alias)>>, <<M(LocalProvider, big)>>,
              <<M(cloud, big), M(LocalProvider, Alias)>>,
              <<M(codex, sol), M(cloud, big)>>, <<M(cloud, Alias), M(codex, sol)>>}
TheCorrected == <<codex, sol>> :> 6

Init == /\ tooling \in {"keys", "quota", "provision", "budget", "card", "gate"}
        /\ KeyInit /\ QuotaInit /\ ProvisionInit /\ BudgetInit /\ CardInit /\ GateInit
        /\ tooling = "card" \/ entry = CHOOSE x \in Entries : TRUE
        /\ tooling = "gate" \/ \A s \in Watched : service[s].on

Next ==
  /\ UNCHANGED tooling
  /\ \/ /\ tooling = "keys" /\ KeyNext
        /\ UNCHANGED <<quotaVars, provisionVars, budgetVars, cardVars,
                       gateVars>>
     \/ /\ tooling = "quota" /\ QuotaNext
        /\ UNCHANGED <<keyVars, provisionVars, budgetVars, cardVars,
                       gateVars>>
     \/ /\ tooling = "provision" /\ ProvisionNext
        /\ UNCHANGED <<keyVars, quotaVars, budgetVars, cardVars,
                       gateVars>>
     \/ /\ tooling = "budget" /\ BudgetNext
        /\ UNCHANGED <<keyVars, quotaVars, provisionVars, cardVars,
                       gateVars>>
     \/ /\ tooling = "card" /\ CardNext
        /\ UNCHANGED <<keyVars, quotaVars, provisionVars, budgetVars,
                       gateVars>>
     \/ /\ tooling = "gate" /\ GateNext
        /\ UNCHANGED <<keyVars, quotaVars, provisionVars, budgetVars,
                       cardVars>>

ToolsSpec ==
  /\ Init
  /\ [][Next]_<<tooling, keyVars, quotaVars, provisionVars, budgetVars, cardVars,
              gateVars>>
=============================================================================
