------------------------ MODULE OxigraphCatalogCache ------------------------
(***************************************************************************)
(* `rdf_store::oxigraph_backend::OxigraphCatalogCache`: one named graph    *)
(* per origin node, meant to hold one triple whose object is the node's    *)
(* catalog.  Each access to the store is atomic, but a method makes        *)
(* several of them with nothing held in between, and the runtime has more  *)
(* than one worker thread: methods of different clients interleave at      *)
(* every access.                                                           *)
(*                                                                         *)
(* Node and catalog conversions (`node_iri`, `serde_json`) cannot fail on  *)
(* the values written here and lose nothing: node ids are percent-encoded  *)
(* and the store is written by `upsert` only.                              *)
(***************************************************************************)
EXTENDS Catalogs

CONSTANTS
    Client,         \* the tasks that share the cache
    MayRequest,     \* the calls each of them makes
    StorageErrors   \* whether accesses to the store may fail

ASSUME MayRequestAssumption == MayRequest \in [Client -> SUBSET Request]
ASSUME StorageErrorsAssumption == StorageErrors \in BOOLEAN

VARIABLES
    quads,        \* the catalogs whose triples are in each node's graph
    graph_names,  \* the named graphs the store knows of
    call,         \* where each client is in its call
    confirmed,    \* history: what the last completed write left in a graph
    steady        \* history: the graphs never empty since a client's call

vars == <<quads, graph_names, call, confirmed, steady>>

NoCall == [pc |-> "idle", req |-> None, ret |-> None,
           pending |-> {}, found |-> {}]

(* The store accesses of each method, in their order.                      *)
Accesses(req) ==
    CASE req.op = "upsert" -> {"remove", "insert"}
      [] req.op = "delete" -> {"check", "drop"}
      [] req.op = "query"  -> {"list", "load"}

(***************************************************************************)
(* A call in progress, about to make one of its accesses: `pending` are    *)
(* the graphs a query has yet to load, `found` what it has loaded.         *)
(***************************************************************************)
InCall(req) == [pc      : Accesses(req) \union {"returned"},
                req     : {req},
                ret     : ReplyTo(req) \union {None},
                pending : SUBSET NodeId,
                found   : SUBSET Catalog]

NonEmpty(q) == {n \in NodeId : q[n] # {}}

Init ==
    /\ quads = [n \in NodeId |-> {}]
    /\ graph_names = {}
    /\ call = [c \in Client |-> NoCall]
    /\ confirmed = [n \in NodeId |-> {}]
    /\ steady = [c \in Client |-> {}]

-----------------------------------------------------------------------------
(* The store: `contreforts_kg::store::GraphStore` over Oxigraph.           *)

(* What every change of the triples does to the history.                   *)
SetQuads(new) ==
    /\ quads' = new
    /\ steady' = [c \in Client |-> steady[c] \intersect NonEmpty(new)]

(* `remove_subject_from_named_graph`: the emptied graph keeps its name.    *)
StoreRemove(n) ==
    /\ SetQuads([quads EXCEPT ![n] = {}])
    /\ UNCHANGED graph_names

(* `insert_in_named_graph`: adds a triple, whatever the graph holds.       *)
StoreInsert(n, cat) ==
    /\ SetQuads([quads EXCEPT ![n] = @ \union {cat}])
    /\ graph_names' = graph_names \union {n}

(* `has_subject`.                                                          *)
HasGraph(n) == n \in graph_names
HasTriple(n) == quads[n] # {}

StoreUnchanged == UNCHANGED <<quads, graph_names, steady>>

-----------------------------------------------------------------------------
(* The graph a catalog is stored in: node_iri(&catalog.origin_node).       *)
GraphById(cat) == cat.id
GraphOf(cat) == cat.origin_node

(* The first store access a method makes.                                  *)
FirstAccessInsertOnly(req) ==
    CASE req.op = "upsert" -> "insert"
      [] req.op = "delete" -> "check"
      [] req.op = "query"  -> IF req.query.origin_node = None THEN "list" ELSE "load"

FirstAccess(req) ==
    CASE req.op = "upsert" -> "remove"
      [] req.op = "delete" -> "check"
      [] req.op = "query"  -> IF req.query.origin_node = None THEN "list" ELSE "load"

Goto(c, pc) == call' = [call EXCEPT ![c].pc = pc]
Finish(c, ret) == call' = [call EXCEPT ![c].pc = "returned", ![c].ret = ret]

(* A query for one node loads that node's graph and no other.              *)
Invoke(c, req) ==
    /\ call[c].pc = "idle"
    /\ req \in MayRequest[c]
    /\ call' = [call EXCEPT ![c] =
                  [NoCall EXCEPT
                     !.pc = FirstAccess(req),
                     !.req = req,
                     !.pending = IF FirstAccess(req) = "load"
                                 THEN {req.query.origin_node} ELSE {}]]
    /\ steady' = [steady EXCEPT ![c] = NonEmpty(quads)]
    /\ UNCHANGED <<quads, graph_names, confirmed>>

(* upsert, first access: drop what the graph holds.                        *)
RemovePrior(c) ==
    /\ call[c].pc = "remove"
    /\ StoreRemove(Target(call[c].req))
    /\ Goto(c, "insert")
    /\ UNCHANGED confirmed

(* upsert, second access: store the new catalog.                           *)
InsertNew(c) ==
    /\ call[c].pc = "insert"
    /\ LET cat == call[c].req.catalog
       IN  /\ StoreInsert(GraphOf(cat), cat)
           /\ confirmed' = [confirmed EXCEPT ![cat.origin_node] = {cat}]
    /\ Finish(c, Ok(None))

(* query(all), first access: the names of the graphs.                      *)
NamedGraphs(c) ==
    /\ call[c].pc = "list"
    /\ call' = [call EXCEPT ![c].pc = "load", ![c].pending = graph_names]
    /\ StoreUnchanged
    /\ UNCHANGED confirmed

(* The graphs still to load after that of n.                               *)
RemainingUntilEmpty(c, n) ==
    IF quads[n] = {} THEN {} ELSE call[c].pending \ {n}
Remaining(c, n) == call[c].pending \ {n}

(***************************************************************************)
(* query, next access: `load_graph` takes the first quad of one more       *)
(* graph, whichever the store yields first, and skips an empty graph.      *)
(***************************************************************************)
LoadGraph(c, n) ==
    /\ call[c].pc = "load"
    /\ n \in call[c].pending
    /\ \E first \in IF quads[n] = {} THEN {{}} ELSE {{cat} : cat \in quads[n]} :
          call' = [call EXCEPT ![c].pending = Remaining(c, n),
                                ![c].found = @ \union first]
    /\ StoreUnchanged
    /\ UNCHANGED confirmed

(* query, after the last graph: sort, skip, take, and return.              *)
Answer(c) ==
    /\ call[c].pc = "load"
    /\ call[c].pending = {}
    /\ \E answer \in Answers(call[c].found, call[c].req.query) :
          Finish(c, Ok(answer))
    /\ StoreUnchanged
    /\ UNCHANGED confirmed

(* delete, first access: `has_subject`.                                    *)
HasSubject(c) ==
    /\ call[c].pc = "check"
    /\ IF HasTriple(Target(call[c].req)) THEN Goto(c, "drop") ELSE Finish(c, Ok(FALSE))
    /\ StoreUnchanged
    /\ UNCHANGED confirmed

(* delete, second access.                                                  *)
RemoveSubject(c) ==
    /\ call[c].pc = "drop"
    /\ LET n == Target(call[c].req)
       IN  /\ StoreRemove(n)
           /\ confirmed' = [confirmed EXCEPT ![n] = {}]
    /\ Finish(c, Ok(TRUE))

(***************************************************************************)
(* Any access fails: `?` returns the error at once, and what the method    *)
(* did before stays done.                                                  *)
(***************************************************************************)
Fail(c) ==
    /\ StorageErrors
    /\ \/ call[c].pc \in {"remove", "insert", "list", "check", "drop"}
       \/ call[c].pc = "load" /\ call[c].pending # {}
    /\ Finish(c, Err)
    /\ StoreUnchanged
    /\ UNCHANGED confirmed

Return(c) ==
    /\ call[c].pc = "returned"
    /\ call' = [call EXCEPT ![c] = NoCall]
    /\ StoreUnchanged
    /\ UNCHANGED confirmed

Step(c) ==
    \/ \E req \in MayRequest[c] : Invoke(c, req)
    \/ RemovePrior(c)
    \/ InsertNew(c)
    \/ NamedGraphs(c)
    \/ \E n \in NodeId : LoadGraph(c, n)
    \/ Answer(c)
    \/ HasSubject(c)
    \/ RemoveSubject(c)
    \/ Fail(c)
    \/ Return(c)

Next == \E c \in Client : Step(c)

Spec == Init /\ [][Next]_vars

-----------------------------------------------------------------------------
CallOK(c, state) ==
    state = NoCall \/ \E req \in MayRequest[c] : state \in InCall(req)

CallsOK == DOMAIN call = Client /\ \A c \in Client : CallOK(c, call[c])

TypeOK ==
    /\ quads \in [NodeId -> SUBSET Catalog]
    /\ graph_names \subseteq NodeId
    /\ CallsOK
    /\ confirmed \in [NodeId -> SUBSET Catalog]
    /\ steady \in [Client -> SUBSET NodeId]

(***************************************************************************)
(* As the broker is deployed: no two clients upsert or delete the same     *)
(* node.  The scheduler's task is the only writer of all.                  *)
(***************************************************************************)
OneWriterPerNode ==
    \A c, d \in Client : \A r \in MayRequest[c], s \in MayRequest[d] :
        r.op # "query" /\ s.op # "query" /\ Target(r) = Target(s) => c = d

(***************************************************************************)
(* Callers that let no other call run beside a write, which is what the    *)
(* in-memory backend's lock gives them and this backend leaves to them.    *)
(***************************************************************************)
Active(c) == call[c].pc \notin {"idle", "returned"}

WritesExclusive ==
    \A c, d \in Client :
        Active(c) /\ Active(d) /\ call[c].req.op # "query" => c = d

ExclusiveSpec == Init /\ [][Next /\ WritesExclusive']_vars

(***************************************************************************)
(* The module's own claim: "each origin node's named graph holds exactly   *)
(* one triple" (or none, before the node's first crawl).  upsert does not  *)
(* look at what its insert finds; it counts on its own remove.             *)
(***************************************************************************)
OneTriplePerGraph == \A n \in NodeId : \A a, b \in quads[n] : a = b

(* Client c is between the first and the last access of a write to n.      *)
Writing(c, n) ==
    /\ call[c].pc \in {"insert", "drop"}
    /\ Target(call[c].req) = n

(***************************************************************************)
(* Outside of a write a graph holds what the last completed write left     *)
(* there: the catalog of the last upsert that returned Ok, or nothing      *)
(* after a delete.  In particular an upsert that fails leaves the previous *)
(* catalog in place, as a failed crawl must.                               *)
(***************************************************************************)
LastWriteKept ==
    \A n \in NodeId :
        (\A c \in Client : ~Writing(c, n)) => quads[n] = confirmed[n]

(***************************************************************************)
(* Whatever fails, a graph outside of a write never holds a catalog other  *)
(* than the last one confirmed: the cache may lose a catalog to a failed   *)
(* upsert, it never serves a superseded one.                               *)
(***************************************************************************)
NothingStale ==
    \A n \in NodeId :
        (\A c \in Client : ~Writing(c, n)) => quads[n] \subseteq confirmed[n]

(***************************************************************************)
(* query(all) reads the graphs one by one, long after it listed them, and  *)
(* upserts come in between; still every node that had a catalog all along  *)
(* is in the answer, as is the node of a query for one node.               *)
(***************************************************************************)
SteadyNodesReported ==
    \A c \in Client :
        call[c].pc = "returned" /\ call[c].ret # Err /\ call[c].req.op = "query" =>
            LET q == call[c].req.query
            IN  q.offset = 0 /\ q.limit = None =>
                  \A n \in steady[c] :
                      q.origin_node \in {None, n} =>
                          \E i \in DOMAIN call[c].ret.value :
                              call[c].ret.value[i].origin_node = n

(***************************************************************************)
(* A re-crawled node is always found: "Re-crawling the same node always    *)
(* overwrites its prior catalog wholesale".  Loading the graph of a node   *)
(* with a confirmed catalog finds a catalog of that node.                  *)
(***************************************************************************)
CachedNodeFound ==
    [][\A c \in Client, n \in NodeId :
          LoadGraph(c, n) /\ confirmed[n] # {} =>
              \E cat \in call'[c].found : cat.origin_node = n]_vars

(***************************************************************************)
(* The trait's contract.  An upsert takes effect when it removes the prior *)
(* triple: the cache then stands for the catalog about to be inserted.     *)
(***************************************************************************)
Inserting(n) == {c \in Client : call[c].pc = "insert" /\ Target(call[c].req) = n}

AbstractGraphs ==
    [n \in NodeId |->
        IF Inserting(n) # {}
        THEN call[CHOOSE c \in Inserting(n) : TRUE].req.catalog
        ELSE IF quads[n] = {} THEN None ELSE CHOOSE cat \in quads[n] : TRUE]

AbstractCall ==
    [c \in Client |->
        [pc  |-> CASE call[c].pc \in {"idle", "returned"} -> call[c].pc
                   [] call[c].pc = "insert" -> "returned"
                   [] OTHER -> "called",
         req |-> call[c].req,
         ret |-> IF call[c].pc = "insert" THEN Ok(None) ELSE call[c].ret]]

Cache == INSTANCE CatalogCache WITH graphs <- AbstractGraphs, call <- AbstractCall

(***************************************************************************)
(* "so the two backends are behavior-equivalent": like the in-memory       *)
(* backend, this one implements the trait.                                 *)
(***************************************************************************)
ImplementsCache == Cache!Spec
=============================================================================
