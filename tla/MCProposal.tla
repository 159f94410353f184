------------------------------ MODULE MCProposal ------------------------------
(* Instances of Proposal for TLC. *)
EXTENDS Proposal, TLC

CONSTANT mem

\* Two incidents of one root cause: an OOM kill and the crash loop that trails it.
SameTarget == [i \in Incidents |-> mem]

\* Plans are interchangeable, and with one target so are the incidents.
Symmetry == Permutations(Plans) \cup Permutations(Incidents)
=============================================================================
