------------------------ MODULE InMemoryCatalogCache ------------------------
(***************************************************************************)
(* `rdf_store::memory::InMemoryCatalogCache`: a HashMap behind a tokio     *)
(* RwLock.  A write inserts or removes under the write lock; a query walks *)
(* the map entry by entry under the read lock.  The guard is dropped when  *)
(* the method returns, so a client still holds the lock while its result   *)
(* is being handed back.                                                   *)
(***************************************************************************)
EXTENDS Catalogs

CONSTANTS
    Client,     \* the tasks that share the cache
    MayRequest  \* the calls each of them makes

ASSUME MayRequestAssumption == MayRequest \in [Client -> SUBSET Request]

VARIABLES
    graphs,     \* RwLock<HashMap<NodeId, Catalog>>: the map ...
    waiting,    \* ... and the lock's queue of clients
    call        \* where each client is in its call

vars == <<graphs, waiting, call>>

NoCall == [pc |-> "idle", req |-> None, ret |-> None,
           visited |-> {}, found |-> {}]

(***************************************************************************)
(* A call in progress: `visited` are the map entries a query has walked,   *)
(* `found` those of them that matched its filter.                          *)
(***************************************************************************)
InCall(req) == [pc      : {"waiting", "holding", "returned"},
                req     : {req},
                ret     : ReplyTo(req) \union {None},
                visited : SUBSET NodeId,
                found   : SUBSET Catalog]

Present == {n \in NodeId : graphs[n] # None}

Holders == {c \in Client : call[c].pc \in {"holding", "returned"}}

(* Which lock mode the method takes.                                       *)
IsUpsert(c) == call[c].req.op = "upsert"
IsWrite(c) == call[c].req.op \in {"upsert", "delete"}

(* `graphs.insert(catalog.origin_node.clone(), catalog)`.                  *)
InsertVacant(cat) ==
    IF graphs[cat.origin_node] = None
    THEN [graphs EXCEPT ![cat.origin_node] = cat] ELSE graphs
Insert(cat) == [graphs EXCEPT ![cat.origin_node] = cat]

(* `graphs.remove(node).is_some()`.                                        *)
RemovedEntry(n) == graphs[n]
Removed(n) == graphs[n] # None

Init ==
    /\ graphs = [n \in NodeId |-> None]
    /\ waiting = <<>>
    /\ call = [c \in Client |-> NoCall]

(***************************************************************************)
(* A client calls a method and queues for `read().await` or                *)
(* `write().await`.                                                        *)
(***************************************************************************)
Invoke(c, req) ==
    /\ call[c].pc = "idle"
    /\ req \in MayRequest[c]
    /\ call' = [call EXCEPT ![c] = [NoCall EXCEPT !.pc = "waiting", !.req = req]]
    /\ waiting' = Append(waiting, c)
    /\ UNCHANGED graphs

(***************************************************************************)
(* tokio's RwLock is FIFO: the client at the head of the queue gets the    *)
(* lock once nobody holds it in a conflicting mode.                        *)
(***************************************************************************)
GrantBarging(c) ==
    /\ call[c].pc = "waiting"
    /\ \A d \in Holders : ~IsWrite(c) /\ ~IsWrite(d)
    /\ waiting' = SelectSeq(waiting, LAMBDA d : d # c)
    /\ call' = [call EXCEPT ![c].pc = "holding"]
    /\ UNCHANGED graphs

Grant(c) ==
    /\ waiting # <<>>
    /\ c = Head(waiting)
    /\ \A d \in Holders : ~IsWrite(c) /\ ~IsWrite(d)
    /\ waiting' = Tail(waiting)
    /\ call' = [call EXCEPT ![c].pc = "holding"]
    /\ UNCHANGED graphs

Finish(c, ret) == call' = [call EXCEPT ![c].pc = "returned", ![c].ret = ret]

Upsert(c) ==
    /\ call[c].pc = "holding"
    /\ call[c].req.op = "upsert"
    /\ graphs' = Insert(call[c].req.catalog)
    /\ Finish(c, Ok(None))
    /\ UNCHANGED waiting

Delete(c) ==
    /\ call[c].pc = "holding"
    /\ call[c].req.op = "delete"
    /\ LET n == call[c].req.node
       IN  /\ graphs' = [graphs EXCEPT ![n] = None]
           /\ Finish(c, Ok(Removed(n)))
    /\ UNCHANGED waiting

(* `graphs.values().filter(..).cloned()`, one entry, in hash order.        *)
Visit(c, n) ==
    /\ call[c].pc = "holding"
    /\ call[c].req.op = "query"
    /\ n \in Present \ call[c].visited
    /\ call' = [call EXCEPT
                  ![c].visited = @ \union {n},
                  ![c].found = @ \union Selected({graphs[n]}, call[c].req.query)]
    /\ UNCHANGED <<graphs, waiting>>

(* The map is exhausted: sort, skip, take, and return.                     *)
Answer(c) ==
    /\ call[c].pc = "holding"
    /\ call[c].req.op = "query"
    /\ Present \subseteq call[c].visited
    /\ \E answer \in Answers(call[c].found, call[c].req.query) :
          Finish(c, Ok(answer))
    /\ UNCHANGED <<graphs, waiting>>

(* The method returns and drops its guard.                                 *)
Return(c) ==
    /\ call[c].pc = "returned"
    /\ call' = [call EXCEPT ![c] = NoCall]
    /\ UNCHANGED <<graphs, waiting>>

Progress(c) ==
    \/ Grant(c)
    \/ Upsert(c)
    \/ Delete(c)
    \/ \E n \in NodeId : Visit(c, n)
    \/ Answer(c)
    \/ Return(c)

Next ==
    \E c \in Client : Progress(c) \/ \E req \in MayRequest[c] : Invoke(c, req)

Spec == Init /\ [][Next]_vars

(***************************************************************************)
(* The runtime keeps polling a task that can go on, and the lock wakes the *)
(* head of its queue; no client is obliged to call.                        *)
(***************************************************************************)
FairSpec == Spec /\ \A c \in Client : WF_vars(Progress(c))

-----------------------------------------------------------------------------
CallOK(c, state) ==
    state = NoCall \/ \E req \in MayRequest[c] : state \in InCall(req)

CallsOK == DOMAIN call = Client /\ \A c \in Client : CallOK(c, call[c])

TypeOK ==
    /\ graphs \in [NodeId -> Catalog \union {None}]
    /\ waiting \in Seq(Client)
    /\ CallsOK

(***************************************************************************)
(* A query that is walking the map has collected exactly the matching      *)
(* catalogs, as the map holds them now, of the entries it has walked: no   *)
(* upsert or delete can slip under the read guard.                         *)
(***************************************************************************)
WalkIsSnapshot ==
    \A c \in Client :
        call[c].pc = "holding" /\ call[c].req.op = "query" =>
            /\ call[c].visited \subseteq Present
            /\ call[c].found = Selected({graphs[n] : n \in call[c].visited},
                                        call[c].req.query)

(***************************************************************************)
(* Every call of the trait returns.  Grant's FIFO order matters: with      *)
(* readers let past a waiting writer an upsert could starve.               *)
(***************************************************************************)
EveryCallReturns == \A c \in Client : call[c].pc = "waiting" ~> call[c].pc = "idle"

(***************************************************************************)
(* The backend implements the trait: a call takes effect at its critical   *)
(* section, a query when it has walked the whole map.                      *)
(***************************************************************************)
AbstractCall ==
    [c \in Client |->
        [pc  |-> IF call[c].pc \in {"waiting", "holding"} THEN "called" ELSE call[c].pc,
         req |-> call[c].req,
         ret |-> call[c].ret]]

Cache == INSTANCE CatalogCache WITH call <- AbstractCall

ImplementsCache == Cache!Spec
=============================================================================
