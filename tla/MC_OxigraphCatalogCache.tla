----------------------- MODULE MC_OxigraphCatalogCache -----------------------
(***************************************************************************)
(* Instances of OxigraphCatalogCache: who shares the cache, and which      *)
(* calls each client makes.                                                *)
(***************************************************************************)
EXTENDS OxigraphCatalogCache, TLC

CONSTANTS crawler, reader, n1, n2

MCNodeId == {n1, n2}

Version(n, content) == [id |-> 1, origin_node |-> n, content |-> content]

Crawls == {UpsertOf(Version(n, v)) : n \in NodeId, v \in Content}
Reads == {QueryOf(All), QueryOf(ForNode(n1)),
          QueryOf([All EXCEPT !.offset = 1, !.limit = 1])}

(***************************************************************************)
(* As deployed: the scheduler's task writes, a request handler reads.      *)
(* Handlers do not disturb each other, so one of them stands for all.      *)
(***************************************************************************)
CrawlerAndReaderClients == {crawler, reader}
CrawlerAndReader == crawler :> Crawls @@ reader :> Reads
OneWriter == crawler :> Crawls \union {DeleteOf(n1)} @@ reader :> Reads

(* Any call, with ids that sort the results.                               *)
AnyCall == {UpsertOf(cat) : cat \in Catalog} \union {DeleteOf(n) : n \in NodeId} \union Reads

SequentialClients == {crawler}
Sequential == crawler :> AnyCall

(* Two clients that both write, never while the other is in a call.        *)
EqualClients == {crawler, reader}
AnyOfBoth == crawler :> AnyCall @@ reader :> AnyCall
=============================================================================
