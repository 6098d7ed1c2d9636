------------------------ MODULE MCEnvironmentResource ------------------------
(* Instances of EnvironmentResource for TLC. *)
EXTENDS EnvironmentResource, TLC

CONSTANTS e1, e2, e3, d1, d2, k1, r1, r2, r3

MCVersions == {{}, {r1}, {r3}, {r1, r2}}
MCDefaultDir == [e \in Envs |-> IF e = e1 THEN d1 ELSE d2]

C(ver, key, modeB) == [ver |-> ver, dir |-> Local, key |-> key, modeB |-> modeB]

\* e1 in Mode A with local state, e2 in Mode A with remote state or without, e3 in
\* Mode B with a name of e1 in an account of its own; e2 changes its topology
\* together with its remote state, to one that looks everything up and makes nothing.
MCMixed == (e1 :> {C({r1, r2}, Local, FALSE)})
        @@ (e2 :> {C({r3}, k1, FALSE), C({}, Local, FALSE)})
        @@ (e3 :> {C({r1}, Local, TRUE)})

\* Remote state, but the work dir is lost.
MCRemoteOnly == (e1 :> {C({r1}, k1, FALSE)}) @@ (e2 :> {})
=============================================================================
