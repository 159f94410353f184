----------------------- MODULE MCRemediationLifecycle -----------------------
(* Instances of RemediationLifecycle for TLC. *)
EXTENDS RemediationLifecycle

CONSTANTS a1, a2, a3, mem, cpu

\* A memory increase over a stale persona (the persona says 4, the container has
\* 1), and a CPU plan whose workload could not be resolved.
MemoryIncrease ==
    [ steps |-> {}, type |-> "persona-update",
      patch |-> [f \in {mem} |-> 2], pre |-> [f \in {mem} |-> 4],
      rollback |-> TRUE, delay |-> 2,
      observed |-> [f \in Fields |-> 1] ]

CpuStep ==
    [ steps |-> {[autoExecutable |-> TRUE, type |-> "persona-update", hasPatch |-> TRUE],
                 [autoExecutable |-> FALSE, type |-> "manual", hasPatch |-> FALSE]},
      type |-> "persona-update",
      patch |-> [f \in {cpu} |-> 2], pre |-> [f \in {cpu} |-> 4],
      rollback |-> FALSE, delay |-> 1,
      observed |-> None ]

\* An advisory plan, and one without the snapshot that a rollback would need.
Advisory ==
    [ steps |-> {[autoExecutable |-> FALSE, type |-> "manual", hasPatch |-> FALSE]},
      type |-> "notification", patch |-> None, pre |-> None,
      rollback |-> FALSE, delay |-> 1, observed |-> None ]

NoSnapshot == [MemoryIncrease EXCEPT !.pre = None]

MemoryPlans == [a \in Actions |-> MemoryIncrease]
MixedPlans  == [a \in Actions |-> CASE a = a1 -> CpuStep
                                    [] a = a2 -> Advisory
                                    [] a = a3 -> NoSnapshot]

MCSignals == { [type |-> "original", critical |-> FALSE, ours |-> TRUE],
               [type |-> "other", critical |-> TRUE, ours |-> TRUE],
               [type |-> "original", critical |-> TRUE, ours |-> FALSE] }

MCPersona == [f \in Fields |-> 4]
MCLive    == [f \in Fields |-> 1]
=============================================================================
