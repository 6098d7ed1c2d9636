------------------------- MODULE MCTopologyResource --------------------------
(* Instances of TopologyResource for TLC. *)
EXTENDS TopologyResource, TLC

CONSTANTS prod, test, dublin, paris, pg, small, large, burst, std, bucket, blob, gpu

Db(enc, size, name) == [enc |-> enc, engine |-> pg, size |-> size, name |-> name]
Conf(name, place, comps, db) == [name |-> name, place |-> place, comps |-> comps, db |-> db]

\* Three catalogs: the oldest lacks a class, and the newest has the large class in
\* another family.
Older  == [x \in Places \X Sizes |->
             IF x = <<paris, large>> THEN None ELSE IF x[2] = large THEN std ELSE burst]
Newer  == [x \in Places \X Sizes |-> IF x[2] = large THEN std ELSE burst]
Newest == [x \in Places \X Sizes |-> burst]
MCCatalogs == {Older, Newer, Newest}
MCMoving == {Newer, Newest}

\* Without a database, with one, and each attribute of it changed.
MCConfigs ==
  {Conf(prod, dublin, {bucket}, None),
   Conf(prod, dublin, {bucket}, Db(FALSE, small, None)),
   Conf(prod, dublin, {}, Db(TRUE, small, None)),
   Conf(prod, paris, {bucket}, Db(FALSE, large, None)),
   Conf(test, dublin, {}, Db(FALSE, small, prod))}
\* One database in two sizes.
MCGrown == {Conf(prod, dublin, {bucket}, Db(FALSE, small, None)),
            Conf(prod, dublin, {bucket}, Db(FALSE, large, None))}

MCAlias == blob :> bucket
=============================================================================
