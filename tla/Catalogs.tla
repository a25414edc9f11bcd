------------------------------ MODULE Catalogs ------------------------------
(***************************************************************************)
(* The data the catalog caches store and the way they answer a query:      *)
(* `catalog_core::Catalog` and `rdf_store::CatalogQuery`, and the          *)
(* filter / sort / skip / take pipeline both cache backends end with.      *)
(*                                                                         *)
(* A catalog's participant id, datasets and services are one opaque        *)
(* content: no cache looks into them.  Its id keeps its order, because     *)
(* query results are sorted by it.                                         *)
(***************************************************************************)
EXTENDS Integers, Sequences, FiniteSets

CONSTANTS
    NodeId,     \* origin nodes, the keys of a cache
    CatalogId,  \* catalog ids, ordered as strings are
    Content,    \* everything else in a catalog
    None        \* Option::None

ASSUME CatalogIdAssumption == CatalogId \subseteq Nat

(***************************************************************************)
(* `id` is whatever "@id" the participant answered with, so two nodes may  *)
(* well use the same one; `origin_node` names the participant.             *)
(***************************************************************************)
Catalog == [id : CatalogId, origin_node : NodeId, content : Content]

ASSUME NoneAssumption == None \notin Catalog /\ None \notin NodeId

(* A query: an optional origin node, and a page of the sorted results.     *)
CatalogQuery == [origin_node : NodeId \union {None},
                 offset      : Nat,
                 limit       : Nat \union {None}]

(* CatalogQuery::all() and CatalogQuery::for_node(node).                   *)
All == [origin_node |-> None, offset |-> 0, limit |-> None]
ForNode(node) == [All EXCEPT !.origin_node = node]

(* The catalogs a query is about, out of the set S of those stored.        *)
Selected(S, q) == {cat \in S : q.origin_node \in {None, cat.origin_node}}

(***************************************************************************)
(* `results.sort_by(|a, b| a.id.cmp(&b.id))`: a stable sort by id alone of *)
(* a list in hash order, so catalogs with equal ids come in any order.     *)
(***************************************************************************)
SortedById(S) ==
    {s \in [1 .. Cardinality(S) -> S] :
        \A i, j \in DOMAIN s : i < j => s[i] # s[j] /\ s[i].id <= s[j].id}

(* `into_iter().skip(offset).take(limit)`.                                 *)
Page(s, q) ==
    SubSeq(s, q.offset + 1,
           IF q.limit = None \/ q.offset + q.limit > Len(s)
           THEN Len(s) ELSE q.offset + q.limit)

(* Every answer the code may give to q when the stored catalogs are S.     *)
Answers(S, q) == {Page(s, q) : s \in SortedById(Selected(S, q))}

-----------------------------------------------------------------------------
(***************************************************************************)
(* The calls of the trait `CatalogCache` and what they return.             *)
(***************************************************************************)
UpsertOf(cat) == [op |-> "upsert", catalog |-> cat]
QueryOf(q)    == [op |-> "query",  query   |-> q]
DeleteOf(n)   == [op |-> "delete", node    |-> n]

Request == [op : {"upsert"}, catalog : Catalog]
             \union [op : {"query"}, query : CatalogQuery]
             \union [op : {"delete"}, node : NodeId]

(* The node a write is about.                                              *)
Target(req) == IF req.op = "upsert" THEN req.catalog.origin_node ELSE req.node

(* StoreResult: what a call returns.                                       *)
Ok(value) == [ok |-> TRUE, value |-> value]
Err       == [ok |-> FALSE]

ReplyTo(req) ==
    {Err} \union
    CASE req.op = "upsert" -> {Ok(None)}
      [] req.op = "query"  -> [ok : {TRUE}, value : Seq(Catalog)]
      [] req.op = "delete" -> [ok : {TRUE}, value : BOOLEAN]
=============================================================================
