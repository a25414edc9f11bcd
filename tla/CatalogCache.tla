---------------------------- MODULE CatalogCache ----------------------------
(***************************************************************************)
(* What the trait `rdf_store::CatalogCache` promises its callers: one      *)
(* catalog per origin node, and each call takes effect at one instant      *)
(* between its invocation and its return.  An upsert replaces the node's   *)
(* catalog wholesale, a query answers from one state of the cache, a       *)
(* delete reports whether it removed something, and a call that returns    *)
(* an error has changed nothing.                                           *)
(***************************************************************************)
EXTENDS Catalogs

CONSTANTS
    Client,     \* the tasks that share the cache
    MayRequest  \* the calls each of them makes, a subset of Request

VARIABLES
    graphs,     \* the catalog cached for each origin node, or None
    call        \* what each client is doing

vars == <<graphs, call>>

NoCall == [pc |-> "idle", req |-> None, ret |-> None]

Cached == {graphs[n] : n \in NodeId} \ {None}

Init ==
    /\ graphs = [n \in NodeId |-> None]
    /\ call = [c \in Client |-> NoCall]

(* A client calls the cache.                                               *)
Invoke(c, req) ==
    /\ call[c].pc = "idle"
    /\ req \in MayRequest[c]
    /\ call' = [call EXCEPT ![c] = [pc |-> "called", req |-> req, ret |-> None]]
    /\ UNCHANGED graphs

(* The call of client c is pending and now takes effect with result ret.   *)
Effect(c, ret) ==
    /\ call[c].pc = "called"
    /\ call' = [call EXCEPT
                  ![c] = [pc |-> "returned", req |-> call[c].req, ret |-> ret]]

(* "always overwrites its prior catalog wholesale".                        *)
Upsert(c) ==
    /\ call[c].req.op = "upsert"
    /\ Effect(c, Ok(None))
    /\ LET cat == call[c].req.catalog
       IN  graphs' = [graphs EXCEPT ![cat.origin_node] = cat]

Query(c) ==
    /\ call[c].req.op = "query"
    /\ \E answer \in Answers(Cached, call[c].req.query) : Effect(c, Ok(answer))
    /\ UNCHANGED graphs

(* "Returns `true` if a catalog was actually removed."                     *)
Delete(c) ==
    /\ call[c].req.op = "delete"
    /\ LET n == call[c].req.node
       IN  /\ Effect(c, Ok(graphs[n] # None))
           /\ graphs' = [graphs EXCEPT ![n] = None]

Fail(c) ==
    /\ Effect(c, Err)
    /\ UNCHANGED graphs

Return(c) ==
    /\ call[c].pc = "returned"
    /\ call' = [call EXCEPT ![c] = NoCall]
    /\ UNCHANGED graphs

Next ==
    \E c \in Client :
        \/ \E req \in MayRequest[c] : Invoke(c, req)
        \/ call[c].pc = "called" /\ (Upsert(c) \/ Query(c) \/ Delete(c) \/ Fail(c))
        \/ Return(c)

Spec == Init /\ [][Next]_vars
=============================================================================
