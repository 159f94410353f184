--------------------------- MODULE MCPlanGuardrails ---------------------------
(***************************************************************************)
(* Instances of PlanGuardrails for TLC: plans of up to two steps around    *)
(* the caps of a workload with 8 units of memory and 4 of cpu, half a      *)
(* core.                                                                   *)
(***************************************************************************)
EXTENDS PlanGuardrails, TLC

W(x) == [kind |-> "word", word |-> x]
F(x) == [kind |-> "flag", word |-> x]
Set(x) == [kind |-> "flag=", word |-> x]
Kubectl(t, values, writes) == [tokens |-> <<W("kubectl")>> \o t, values |-> values, writes |-> writes]

\* The namespace of the second command is called "get".
SomeCommands ==
    {Kubectl(<<W("get"), W("pods")>>, {}, FALSE),
     Kubectl(<<F("-n"), W("get"), W("delete"), W("pod")>>, {}, TRUE),
     Kubectl(<<Set("--context"), W("rollout"), W("restart")>>, {}, TRUE),
     Kubectl(<<F("--warnings-as-errors"), W("rollout"), W("status")>>, {}, FALSE),
     Kubectl(<<F("--unheard-of"), W("get")>>, {}, FALSE),
     Kubectl(<<W("set"), W("resources")>>, {16, 17}, TRUE)}

Memory(v) == "memory" :> v
Cpu(v) == "cpu" :> v
SomePatches == {NoPatch} \cup {Memory(v) : v \in {3, 4, 16, 17}} \cup {Cpu(v) : v \in {2, 16}}
               \cup {Memory(v) @@ Cpu(16) : v \in {16, 17}}

Says(v) == [mentions |-> {v}, claims |-> FALSE]

OurSteps == {[type |-> PersonaUpdate, patch |-> p, command |-> NoCommand, prose |-> {Says(17)}] : p \in SomePatches}
OtherSteps == {[type |-> "workload-apply", patch |-> NoPatch, command |-> c, prose |-> {Says(16), Caveat}] : c \in SomeCommands}

SomePlans ==
    {[steps |-> s, summary |-> t] :
        s \in {<< >>} \cup {<<a>> : a \in OtherSteps} \cup {<<a, b>> : a \in OurSteps, b \in OurSteps \cup OtherSteps},
        t \in {{}, {Says(17), Caveat}}}

Limits == Memory(8) @@ Cpu(4)
Live(limits, marks, managers) == [found |-> TRUE, limits |-> limits, marks |-> marks, managers |-> managers]

SomeWorkloads ==
    {[found |-> FALSE, limits |-> NoPatch, marks |-> {}, managers |-> {}],
     Live(Limits, {}, {[benign |-> TRUE, op |-> "Apply", resources |-> TRUE]}),
     Live(Limits, {}, {[benign |-> FALSE, op |-> "Update", resources |-> TRUE]}),
     Live(Memory(8), {"helm"}, {})}

SomePersonas == {NoPatch, Memory(6) @@ Cpu(4)}
=============================================================================
