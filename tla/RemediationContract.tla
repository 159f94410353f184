------------------------- MODULE RemediationContract -------------------------
(***************************************************************************)
(* What the remediation loop promises a reader of RemediationAction        *)
(* objects, without saying how: the phase order, that a persona is first   *)
(* patched for a plan a human granted, before its verification begins, and *)
(* that a plan settles once.                                               *)
(***************************************************************************)
CONSTANT Actions

VARIABLES
    phase,    \* the phase of each action, as every client sees it
    granted,  \* the actions a human approved
    wrote     \* the actions whose patch reached the persona

contract == <<phase, granted, wrote>>

Init ==
    /\ phase = [a \in Actions |-> "Pending"]
    /\ granted = {}
    /\ wrote = {}

Move(a, sources, target) ==
    /\ phase[a] \in sources
    /\ phase' = [phase EXCEPT ![a] = target]

Grant(a) ==
    /\ Move(a, {"Pending"}, "Approved")
    /\ granted' = granted \cup {a}
    /\ UNCHANGED wrote

Decline(a) ==
    /\ Move(a, {"Pending", "Approved", "Applying"}, "Rejected")
    /\ UNCHANGED <<granted, wrote>>

\* The patch may land before the phase says so, and land late on an action that
\* failed or was declined meanwhile; verification only begins once it has landed.
Write(a) ==
    /\ a \in granted
    /\ phase[a] \in {"Approved", "Applying", "Failed", "Rejected"}
    /\ wrote' = wrote \cup {a}
    /\ UNCHANGED <<phase, granted>>

Announce(a) ==
    /\ a \in wrote
    /\ Move(a, {"Approved"}, "Applying")
    /\ UNCHANGED <<granted, wrote>>

\* Acknowledged claims that nothing was changed.
Acknowledge(a) ==
    /\ a \notin wrote
    /\ Move(a, {"Approved"}, "Acknowledged")
    /\ UNCHANGED <<granted, wrote>>

StartVerification(a) ==
    /\ Move(a, {"Applying"}, "Verifying")
    /\ UNCHANGED <<granted, wrote>>

Conclude(a) ==
    /\ \/ Move(a, {"Verifying"}, "Completed")
       \/ Move(a, {"Verifying"}, "RolledBack")
       \/ Move(a, {"Approved", "Verifying"}, "Failed")
    /\ UNCHANGED <<granted, wrote>>

Next ==
    \E a \in Actions :
        \/ Grant(a)
        \/ Decline(a)
        \/ Write(a)
        \/ Announce(a)
        \/ Acknowledge(a)
        \/ StartVerification(a)
        \/ Conclude(a)

Spec == Init /\ [][Next]_contract
=============================================================================
