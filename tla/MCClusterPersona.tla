--------------------------- MODULE MCClusterPersona ---------------------------
(***************************************************************************)
(* Instances of ClusterPersona for TLC: a persona of the user's beside the *)
(* bootstrap's, and a cluster that grows a node which is not ready yet, a  *)
(* pod that no node accepts and an application.                            *)
(***************************************************************************)
EXTENDS ClusterPersona, TLC

CONSTANT mine

Small == [nodes |-> {<<"a", TRUE>>}, pods |-> [p \in {1} |-> <<"Running", TRUE>>],
          addons |-> {"argocd"}, spaces |-> 1, apps |-> 0]

SomeWorlds ==
    {Small, [Small EXCEPT !.nodes = {<<"a", TRUE>>, <<"b", FALSE>>},
                          !.pods = (1 :> <<"Succeeded", TRUE>> @@ 2 :> <<"Pending", FALSE>>),
                          !.spaces = 2, !.apps = 1]}

SomePolicies == {Omitted, [mode |-> "observe", trust |-> 2], [mode |-> "propose", trust |-> 0]}
=============================================================================
