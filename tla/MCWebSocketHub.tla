--------------------------- MODULE MCWebSocketHub ---------------------------
(***************************************************************************)
(* Instances of WebSocketHub for TLC.                                      *)
(***************************************************************************)
EXTENDS WebSocketHub, TLC

CONSTANTS c1, c2, incidents

OneTopic == {incidents}

\* c1 subscribes, changes its mind and lists; c2 only listens.
AskEach == c1 :> ([type : {"subscribe", "unsubscribe"}, topic : OneTopic]
                  \cup {[type |-> "request", topic |-> "listed"]})
           @@ c2 :> [type : {"subscribe"}, topic : OneTopic]

AsksEach == c1 :> 2 @@ c2 :> 1
=============================================================================
