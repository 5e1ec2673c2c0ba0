----------------------------- MODULE MCWebSocket -----------------------------
(* Instances of WebSocketSender for TLC.                                    *)
EXTENDS WebSocketSender

CONSTANTS e1, e2, s1, s2, ann, bob

\* Every notification is for ann.
ForAnn == [e \in Event |-> ann]
=============================================================================
