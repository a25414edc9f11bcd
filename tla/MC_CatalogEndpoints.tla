------------------------- MODULE MC_CatalogEndpoints -------------------------
(* Two nodes, both re-crawled, and one handler.                              *)
EXTENDS CatalogEndpoints, TLC

CONSTANTS n1, n2, h1

MCNodeId == {n1, n2}
MCHandler == {h1}

(* The participants share a dataset; only the first states its name, and   *)
(* its second version has lost the dataset and changed the service.         *)
First == [participant_id |-> "P1", datasets |-> {"d1", "d2"}, services |-> {"s1"}]
Later == [participant_id |-> "P1", datasets |-> {"d2"}, services |-> {"s2"}]
Other == [participant_id |-> None, datasets |-> {"d2"}, services |-> {"s3"}]

MCContent == {First, Later, Other}
MCFetched == {[id |-> 1, origin_node |-> n1, content |-> First],
              [id |-> 1, origin_node |-> n1, content |-> Later],
              [id |-> 1, origin_node |-> n2, content |-> Other]}

(* A token is known to see d1, another is not known.                       *)
MCAuthConfigs == [mode : {"disabled", "bearer"}, catalog_access : {"t1" :> {"d1"}}]
                   \union [mode : {"dcp"}, catalog_access : {"t1" :> {"d1", "d2"}}]
=============================================================================
