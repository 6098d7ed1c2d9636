----------------------------- MODULE MCSGPrune ------------------------------
(* Instances of SGPrune for TLC. *)
EXTENDS SGPrune

CONSTANTS app, alb, jit, any, office

\* A port of the application is first public and then behind the balancer.
Public  == [groups |-> {app, alb, jit}, rules |-> {<<app, any>>, <<alb, any>>}]
Behind  == [groups |-> {app, alb, jit}, rules |-> {<<app, alb>>, <<app, office>>, <<alb, any>>}]
Listed  == [groups |-> {app}, rules |-> {<<app, Prefix>>, <<app, office>>}]

MCConfigs == {Public, Behind, Listed}
MCFewConfigs == {Public, Behind}
MCDoors == {<<app, any>>, <<alb, office>>}
MCOneDoor == {<<app, any>>}
=============================================================================
