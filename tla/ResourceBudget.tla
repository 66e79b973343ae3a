--------------------------- MODULE ResourceBudget ---------------------------
(***************************************************************************)
(* What models.yml lets the containers have, and whether the models fit:    *)
(* pylib/resources.py (limits and overrides), pylib/budget.py and           *)
(* `llmenv budget` (VRAM and RAM), with the commands and the hand edits that *)
(* change the file.  CPUs are quarters of a core, memory is in MiB, sizes in  *)
(* models' files in bytes.                                                  *)
(***************************************************************************)
EXTENDS Integers, FiniteSetsExt, SequencesExt

CONSTANTS
  Services,     \* with a policy; the last two come with System One
  SystemOneServices,
  Default,      \* DEFAULT_POLICY: [Services -> [PolicyKeys -> Nat]]
  CpuFloor, MemoryFloor,  \* of the host
  Hosts,        \* [cpus, memory]
  Amounts,      \* what an override may say; 0 stands for all that is no positive
  Overridden,   \* number
  MaxSet,       \* bound: keys overridden at a time
  Models,
  Weights,      \* size of each model's file
  Layers,       \* its attention layers: [kind, width: bytes per cell]
  Experts,      \* bytes of routed experts of each block; <<>> for a dense model
  CpuMoe,       \* n_cpu_moe, or NotSet
  Ctx, Ubatch, Window, Pad,
  MiB,          \* bytes
  Overhead, Spike,        \* RUNTIME_OVERHEAD_MIB, SPIKE_HEADROOM_MIB
  ReserveFloor, SystemOneVram, Vram,
  Ceilings,     \* vram_budget_ceiling_mib; 0 for none
  CompositorUses,
  MemoryPcts    \* memory_ceiling_pct

NotSet == -1
PolicyKeys == {"cpus_min", "cpus_max", "memory_min_mib", "memory_max_mib"}
MemoryFloorPct == 30
CpuPct == 60
CpuFloorPct == 20

\* Policies and floors are positive; a configuration's percentage is validated; the
\* rest are sizes.
ASSUME BudgetAssumption ==
  /\ IsFiniteSet(Services) /\ SystemOneServices \subseteq Services
  /\ Overridden \subseteq Services /\ Amounts \subseteq Nat
  /\ Default \in [Services -> [PolicyKeys -> Nat \ {0}]]
  /\ CpuFloor \in Nat /\ MemoryFloor \in Nat \ {0}
  /\ Hosts \subseteq [cpus : Nat, memory : Nat]
  /\ MemoryPcts \subseteq 1 .. 100 /\ MemoryPcts # {}
  /\ IsFiniteSet(Models)
  /\ Vram \in Nat /\ Spike \in Nat /\ ReserveFloor \in Nat /\ SystemOneVram \in Nat
  /\ Ceilings \subseteq Nat /\ CompositorUses \subseteq Nat

VARIABLES
  config,    \* models.yml: [enabled, models_max, llm, system_one, pct, overrides]
  answer   \* what the last command said of it

budgetVars == <<config, answer>>

Nothing == [kind |-> "nothing"]

\* Python rounds n / d to the even neighbour when it is half way.
Round(n, d) ==
  LET q == n \div d
      twice == 2 * (n % d)
  IN  IF twice > d \/ (twice = d /\ q % 2 = 1) THEN q + 1 ELSE q

CeilOf(n, d) == (n + d - 1) \div d

Total(cost, S) == SumFunctionOnSet(cost, S)

-----------------------------------------------------------------------------
(* resources.py: the policy of a service, and the limits.                  *)

EffectivePolicy(s, overrides) ==
  [k \in PolicyKeys |-> IF overrides[s][k] = NotSet THEN Default[s][k]
                                                    ELSE overrides[s][k]]

\* Mutant: 0 is a number like any other.
AcceptZero(s, overrides) ==
  LET p == EffectivePolicy(s, overrides)
  IN  p.cpus_min <= p.cpus_max /\ p.memory_min_mib <= p.memory_max_mib

\* validate_overrides
ValidOverride(s, overrides) ==
  LET p == EffectivePolicy(s, overrides)
  IN  /\ \A k \in PolicyKeys : overrides[s][k] # 0
      /\ p.cpus_min <= p.cpus_max /\ p.memory_min_mib <= p.memory_max_mib

ValidOverrides(overrides) == \A s \in Services : ValidOverride(s, overrides)

\* validate_config, of the parts that change here.
Valid(f) == /\ f.llm => f.enabled # {} /\ f.models_max <= Cardinality(f.enabled)
            /\ ValidOverrides(f.overrides)

Active(f) == IF f.system_one THEN Services ELSE Services \ SystemOneServices

Floors(f) ==
  LET policy(s) == EffectivePolicy(s, f.overrides)
      cpu    == [s \in Services |-> policy(s).cpus_min]
      memory == [s \in Services |-> policy(s).memory_min_mib]
  IN  [cpus |-> CpuFloor + Total(cpu, Active(f)),
       memory |-> MemoryFloor + Total(memory, Active(f))]

\* compute_resource_limits, of a file that is valid; without llm-server it gets
\* nothing, and the floors may use the host up.
TooSmall(f, host) ==
  IF f.llm THEN host.cpus <= Floors(f).cpus \/ host.memory <= Floors(f).memory
           ELSE host.cpus < Floors(f).cpus \/ host.memory < Floors(f).memory

LlmMemory(f, host, pct) ==
  Min({host.memory - Floors(f).memory,
       Max({Round(host.memory * MemoryFloorPct, 100), Round(host.memory * pct, 100)})})

LlmCpus(f, host) ==
  LET cores == host.cpus \div 4
  IN  Min({host.cpus - Floors(f).cpus,
           4 * Max({1, Round(cores * CpuFloorPct, 100), Round(cores * CpuPct, 100)})})

Limits(f, host) ==
  [services |-> [s \in Active(f) |-> EffectivePolicy(s, f.overrides)],
   memory |-> IF f.llm THEN LlmMemory(f, host, f.pct) ELSE 0,
   cpus |-> IF f.llm THEN LlmCpus(f, host) ELSE 0]

-----------------------------------------------------------------------------
(* budget.py and gguf.py: what a model takes.                              *)

\* kv_cache_components_mib: a sliding window keeps only so many cells, a
\* recurrent layer none.
Cells(kind) == IF kind = "full" THEN Ctx
               ELSE Pad * CeilOf(Min({Ctx, Window + Ubatch}), Pad)

KvMib(m) ==
  LET bytes(kind) == FoldLeft(LAMBDA sum, l :
                        IF l.kind = kind THEN sum + Cells(kind) * l.width ELSE sum,
                      0, Layers[m])
  IN  CeilOf(bytes("full"), MiB) + CeilOf(bytes("swa"), MiB)

\* moe_expert_offload_mib: the routed experts of the first n blocks.
OffloadMib(m) ==
  IF CpuMoe[m] = NotSet THEN 0
  ELSE CeilOf(FoldLeft(LAMBDA a, b : a + b, 0,
                SubSeq(Experts[m], 1, Min({CpuMoe[m], Len(Experts[m])}))), MiB)

\* _model_costs, and what compute_budget adds; n_cpu_moe of a dense model is
\* refused.
RamMib  == [m \in Models |-> OffloadMib(m)]
VramMib == [m \in Models |->
              CeilOf(Weights[m], MiB) - OffloadMib(m) + KvMib(m) + Overhead]

\* The experts are part of the model's file: what is left of it is a size too.
ASSUME CostsAssumption ==
  /\ Overhead \in Nat
  /\ \A m \in Models : /\ CeilOf(Weights[m], MiB) \in Nat /\ KvMib(m) \in Nat
                       /\ OffloadMib(m) \in 0 .. CeilOf(Weights[m], MiB)

Refusable(m) == CpuMoe[m] # NotSet /\ Experts[m] = <<>>

\* The n models that cost most.
Top(cost, S, n) ==
  CHOOSE T \in kSubset(n, S) : \A t \in T, s \in S \ T : cost[s] <= cost[t]

Available(f, compositor, ceiling) ==
  (IF ceiling = 0 THEN Vram ELSE Min({Vram, ceiling}))
  - Max({compositor, ReserveFloor})
  - (IF f.system_one THEN SystemOneVram ELSE 0) - Spike

\* Mutant: the RAM of those that cost most VRAM.
RamOfResidents(f) == Total(RamMib, Top(VramMib, f.enabled, f.models_max))

\* cmd_budget: the RAM of those that cost most RAM.
RamRequired(f) == Total(RamMib, Top(RamMib, f.enabled, f.models_max))

Budget(f, host, compositor, ceiling) ==
  LET ram    == RamRequired(f)
      most   == LlmMemory(f, host, 100)
      vramOk == Total(VramMib, Top(VramMib, f.enabled, f.models_max))
                  <= Available(f, compositor, ceiling)
      limit  == IF f.llm THEN LlmMemory(f, host, f.pct) ELSE 0
      ramOk  == ~TooSmall(f, host) /\ ram <= limit
  IN  [kind |-> "budget", host |-> host, compositor |-> compositor,
       ceiling |-> ceiling, feasible |-> vramOk /\ ramOk,
       \* the percentage the remedy names, when there is one
       needed |-> IF TooSmall(f, host) \/ ram <= limit \/ ~f.llm \/ ram > most
                  THEN NotSet ELSE CeilOf(100 * ram, host.memory)]

-----------------------------------------------------------------------------
(* The commands; one that refuses changes nothing.                         *)

Save(f) == /\ Valid(f)
           /\ config' = f /\ answer' = Nothing

Keys(overrides) == {x \in Services \X PolicyKeys : overrides[x[1]][x[2]] # NotSet}

\* llmenv resource-override set.
SetOverride ==
  \E s \in Overridden, k \in PolicyKeys, n \in Amounts :
    LET new == [config EXCEPT !.overrides[s][k] = n]
    IN  /\ Valid(config) /\ Cardinality(Keys(new.overrides)) <= MaxSet
        /\ Save(new)

\* llmenv resource-override clear, of a service or of all: the file it finds may
\* be a bad one.
ClearOverride ==
  \E S \in {{s} : s \in Services} \cup {Services} :
    Save([config EXCEPT !.overrides = [s \in Services |->
            IF s \in S THEN [k \in PolicyKeys |-> NotSet] ELSE @[s]]])

\* llmenv models enable, disable and select, with sync_models_max.
SetModels ==
  \E S \in SUBSET Models \ {{}} :
    /\ Valid(config) /\ S # config.enabled
    /\ Save([config EXCEPT !.enabled = S,
                         !.models_max = Min({@, Cardinality(S)})])

EditByHand ==
  /\ answer' = Nothing
  /\ \/ \E s \in Overridden, k \in PolicyKeys, n \in Amounts :
          /\ config' = [config EXCEPT !.overrides[s][k] = n]
          /\ Cardinality(Keys(config'.overrides)) <= MaxSet
     \/ \E llm, s1 \in BOOLEAN, pct \in MemoryPcts, n \in 1 .. Cardinality(Models) :
          config' = [config EXCEPT !.llm = llm, !.system_one = s1, !.pct = pct,
                               !.models_max = n]

\* llmenv resources, and render-compose with the limits it works out.
AskLimits ==
  /\ Valid(config)
  /\ \E host \in Hosts :
       /\ ~TooSmall(config, host)
       /\ answer' = [kind |-> "limits", host |-> host, limits |-> Limits(config, host)]
  /\ UNCHANGED config

AskBudget ==
  /\ Valid(config) /\ config.enabled # {} /\ config.models_max <= Cardinality(config.enabled)
  /\ \A m \in config.enabled : ~Refusable(m)
  /\ \E host \in Hosts, compositor \in CompositorUses, ceiling \in Ceilings :
       answer' = Budget(config, host, compositor, ceiling)
  /\ UNCHANGED config

-----------------------------------------------------------------------------
BudgetInit ==
  /\ config = [enabled |-> Models, models_max |-> 1, llm |-> TRUE,
               system_one |-> FALSE, pct |-> Max(MemoryPcts),
               overrides |-> [s \in Services |-> [k \in PolicyKeys |-> NotSet]]]
  /\ answer = Nothing

BudgetNext == \/ SetOverride \/ ClearOverride \/ SetModels \/ EditByHand
              \/ AskLimits \/ AskBudget

BudgetSpec == BudgetInit /\ [][BudgetNext]_budgetVars

\* Whatever commands and hands have made of the file, a limit that is rendered is
\* a limit: 0, which Compose is told as "no limit", is nobody's but that of what is
\* off; and llm-server's leaves the host its floor.  (validate_overrides, "0 would
\* silently uncap a container"; compute_resource_limits)
CapsNeverVanish ==
  answer.kind = "limits" =>
    LET l == answer.limits
        reserved == [s \in DOMAIN l.services |-> l.services[s].memory_min_mib]
    IN  /\ \A s \in DOMAIN l.services :
             /\ 0 < l.services[s].cpus_max /\ 0 < l.services[s].memory_max_mib
             /\ l.services[s].memory_min_mib <= l.services[s].memory_max_mib
        /\ config.llm =>
             /\ 0 < l.cpus /\ 0 < l.memory
             /\ l.memory + Total(reserved, DOMAIN l.services) + MemoryFloor
                  <= answer.host.memory

\* What the budget says fits does fit, whichever models llama-server comes to hold
\* at a time, in VRAM and in its RAM; and the percentage it asks for is enough.
\* (compute_budget; cmd_budget, "must cover every enabled model that could become
\* concurrently resident", "raise it to at least")
BudgetIsRight ==
  answer.kind = "budget" =>
    /\ answer.feasible =>
         \A S \in SUBSET config.enabled : Cardinality(S) <= config.models_max =>
           /\ Total(VramMib, S) + Max({answer.compositor, ReserveFloor}) + Spike
                + (IF config.system_one THEN SystemOneVram ELSE 0) <= Vram
           /\ Total(RamMib, S) <= Limits(config, answer.host).memory
    /\ answer.needed # NotSet =>
         \A S \in SUBSET config.enabled : Cardinality(S) <= config.models_max =>
           Total(RamMib, S) <= LlmMemory(config, answer.host, answer.needed)
=============================================================================
