----------------------- MODULE MC_InMemoryCatalogCache -----------------------
(* Two nodes, a writer and a reader, then two writers; see the README.       *)
EXTENDS InMemoryCatalogCache, TLC

CONSTANTS crawler, reader, n1, n2

MCClient == {crawler, reader}
MCNodeId == {n1, n2}

(***************************************************************************)
(* The crawler upserts both nodes and deletes one; the reader asks for     *)
(* everything, for one node, and for the second page of size one.          *)
(***************************************************************************)
MCMayRequest ==
    (crawler :> {UpsertOf(cat) : cat \in Catalog} \union {DeleteOf(n1)})
    @@ (reader :> {QueryOf(All), QueryOf(ForNode(n2)),
                   QueryOf([All EXCEPT !.offset = 1, !.limit = 1]),
                   UpsertOf([id |-> 1, origin_node |-> n1, content |-> "old"])})
=============================================================================
