------------------------ MODULE CatalogEndpoints_proofs ------------------------
(***************************************************************************)
(* Theorems about the endpoints, for any nodes, catalogs, callers,         *)
(* handlers and configurations.                                            *)
(*                                                                         *)
(* The handlers' cache is the Oxigraph backend: what                       *)
(* OxigraphCatalogCache_proofs proves of it holds here once every step of  *)
(* the endpoints is shown to be a step of the store, or none of its own.   *)
(***************************************************************************)
EXTENDS CatalogEndpoints, Catalogs_proofs

StoreProofs == INSTANCE OxigraphCatalogCache_proofs

-----------------------------------------------------------------------------
(* The endpoints use the cache as its module assumes.                      *)

LEMMA QueryForTyped ==
    ASSUME NEW request \in HttpRequest
    PROVE  QueryFor(request) \in Request /\ QueryFor(request).op = "query"
BY DEF QueryFor, HttpRequest, QueryOf, ForNode, All, Request, CatalogQuery

LEMMA CallsTyped == MayRequest \in [Client -> SUBSET Request]
<1>1. ASSUME NEW cat \in Fetched
      PROVE  UpsertOf(cat) \in Request
  BY FetchedAssumption DEF UpsertOf, Request
<1>2. QED
  BY <1>1, QueryForTyped DEF MayRequest, Client

LEMMA StoreNone == StoreProofs!NoneAssumption
BY NoneAssumption DEF StoreProofs!NoneAssumption, StoreProofs!Catalog, Catalog

LEMMA StoreIds == StoreProofs!CatalogIdAssumption
BY CatalogIdAssumption DEF StoreProofs!CatalogIdAssumption

LEMMA StoreCalls == StoreProofs!MayRequestAssumption
BY CallsTyped DEF StoreProofs!MayRequestAssumption, StoreProofs!Request, Request,
                  StoreProofs!Catalog, Catalog, StoreProofs!CatalogQuery, CatalogQuery

LEMMA StoreFails == StoreProofs!StorageErrorsAssumption
BY StorageErrorsAssumption DEF StoreProofs!StorageErrorsAssumption

-----------------------------------------------------------------------------
(* `Store` and `StoreProofs` are instances of the same operators.          *)

LEMMA SameCardinality ==
    ASSUME NEW S PROVE Store!Cardinality(S) = StoreProofs!Cardinality(S)
BY Zenon DEF Store!Cardinality, StoreProofs!Cardinality

LEMMA SameFinite ==
    ASSUME NEW S PROVE IsFiniteSet(S) <=> StoreProofs!IsFiniteSet(S)
BY Zenon DEF IsFiniteSet, StoreProofs!IsFiniteSet

LEMMA SameSelected ==
    ASSUME NEW S, NEW q
    PROVE  /\ Store!Selected(S, q) = StoreProofs!Selected(S, q)
           /\ Store!Selected(S, q) = Selected(S, q)
BY DEF Store!Selected, StoreProofs!Selected, Selected

LEMMA SameSorted ==
    ASSUME NEW S
    PROVE  /\ Store!SortedById(S) = StoreProofs!SortedById(S)
           /\ Store!SortedById(S) = SortedById(S)
<1>1. Store!Cardinality(S) = Cardinality(S)
  BY Zenon DEF Store!Cardinality, Cardinality
<1>2. QED
  BY <1>1, Zenon, SameCardinality DEF Store!SortedById, StoreProofs!SortedById, SortedById

LEMMA SameAnswers ==
    ASSUME NEW S, NEW q
    PROVE  /\ Store!Answers(S, q) = StoreProofs!Answers(S, q)
           /\ Store!Answers(S, q) = Answers(S, q)
<1>1. \A s : /\ Store!Page(s, q) = StoreProofs!Page(s, q)
             /\ Store!Page(s, q) = Page(s, q)
  BY Zenon DEF Store!Page, StoreProofs!Page, Page
<1>2. QED
  BY <1>1, SameSelected, SameSorted, Zenon
     DEF Store!Answers, StoreProofs!Answers, Answers

LEMMA SameReplies ==
    /\ \A x : Store!Ok(x) = StoreProofs!Ok(x) /\ Store!Ok(x) = Ok(x)
    /\ Store!Err = StoreProofs!Err /\ Store!Err = Err
BY DEF Store!Ok, StoreProofs!Ok, Ok, Store!Err, StoreProofs!Err, Err

LEMMA SameFinish ==
    ASSUME NEW c, NEW ret PROVE Store!Finish(c, ret) <=> StoreProofs!Finish(c, ret)
BY Zenon DEF Store!Finish, StoreProofs!Finish

LEMMA SameStoreUnchanged == Store!StoreUnchanged <=> StoreProofs!StoreUnchanged
BY Zenon DEF Store!StoreUnchanged, StoreProofs!StoreUnchanged

LEMMA SameStoreChanges ==
    ASSUME NEW n
    PROVE  /\ Store!StoreRemove(n) <=> StoreProofs!StoreRemove(n)
           /\ \A cat : Store!StoreInsert(n, cat) <=> StoreProofs!StoreInsert(n, cat)
<1>1. \A q : Store!NonEmpty(q) = StoreProofs!NonEmpty(q)
  BY Zenon DEF Store!NonEmpty, StoreProofs!NonEmpty
<1>2. \A q : Store!SetQuads(q) <=> StoreProofs!SetQuads(q)
  BY <1>1, Zenon DEF Store!SetQuads, StoreProofs!SetQuads
<1>3. QED
  BY <1>2, Zenon DEF Store!StoreRemove, StoreProofs!StoreRemove,
                     Store!StoreInsert, StoreProofs!StoreInsert

LEMMA SameInvoke ==
    ASSUME NEW c, NEW req PROVE Store!Invoke(c, req) <=> StoreProofs!Invoke(c, req)
BY Zenon DEF Store!Invoke, StoreProofs!Invoke, Store!FirstAccess, StoreProofs!FirstAccess,
             Store!NonEmpty, StoreProofs!NonEmpty, Store!NoCall, StoreProofs!NoCall

LEMMA SameRemovePrior ==
    ASSUME NEW c PROVE Store!RemovePrior(c) <=> StoreProofs!RemovePrior(c)
BY SameStoreChanges, Zenon DEF Store!RemovePrior, StoreProofs!RemovePrior,
    Store!Target, StoreProofs!Target, Store!Goto, StoreProofs!Goto

LEMMA SameInsertNew ==
    ASSUME NEW c PROVE Store!InsertNew(c) <=> StoreProofs!InsertNew(c)
BY SameStoreChanges, SameReplies, SameFinish, Zenon
   DEF Store!InsertNew, StoreProofs!InsertNew, Store!GraphOf, StoreProofs!GraphOf

LEMMA SameNamedGraphs ==
    ASSUME NEW c PROVE Store!NamedGraphs(c) <=> StoreProofs!NamedGraphs(c)
BY SameStoreUnchanged, Zenon DEF Store!NamedGraphs, StoreProofs!NamedGraphs

LEMMA SameLoadGraph ==
    ASSUME NEW c, NEW n PROVE Store!LoadGraph(c, n) <=> StoreProofs!LoadGraph(c, n)
BY SameStoreUnchanged, Zenon DEF Store!LoadGraph, StoreProofs!LoadGraph,
    Store!Remaining, StoreProofs!Remaining

LEMMA SameAnswer ==
    ASSUME NEW c PROVE Store!Answer(c) <=> StoreProofs!Answer(c)
BY SameStoreUnchanged, SameAnswers, SameReplies, SameFinish, Zenon
   DEF Store!Answer, StoreProofs!Answer

LEMMA SameHasSubject ==
    ASSUME NEW c PROVE Store!HasSubject(c) <=> StoreProofs!HasSubject(c)
BY SameStoreUnchanged, SameReplies, SameFinish, Zenon
   DEF Store!HasSubject, StoreProofs!HasSubject, Store!HasTriple, StoreProofs!HasTriple,
       Store!Target, StoreProofs!Target, Store!Goto, StoreProofs!Goto

LEMMA SameRemoveSubject ==
    ASSUME NEW c PROVE Store!RemoveSubject(c) <=> StoreProofs!RemoveSubject(c)
BY SameStoreChanges, SameReplies, SameFinish, Zenon
   DEF Store!RemoveSubject, StoreProofs!RemoveSubject, Store!Target, StoreProofs!Target

LEMMA SameFail ==
    ASSUME NEW c PROVE Store!Fail(c) <=> StoreProofs!Fail(c)
BY SameStoreUnchanged, SameReplies, SameFinish, Zenon DEF Store!Fail, StoreProofs!Fail

LEMMA SameReturn ==
    ASSUME NEW c PROVE Store!Return(c) <=> StoreProofs!Return(c)
BY SameStoreUnchanged, Zenon
   DEF Store!Return, StoreProofs!Return, Store!NoCall, StoreProofs!NoCall

LEMMA SameStep == ASSUME NEW c PROVE Store!Step(c) <=> StoreProofs!Step(c)
BY SameInvoke, SameRemovePrior, SameInsertNew, SameNamedGraphs, SameLoadGraph, SameAnswer,
   SameHasSubject, SameRemoveSubject, SameFail, SameReturn, Zenon
   DEF Store!Step, StoreProofs!Step

LEMMA SameSpec == Store!Spec <=> StoreProofs!Spec
<1>1. Store!Init <=> StoreProofs!Init
  BY Zenon DEF Store!Init, StoreProofs!Init, Store!NoCall, StoreProofs!NoCall
<1>2. [Store!Next]_(Store!vars) <=> [StoreProofs!Next]_(StoreProofs!vars)
  BY SameStep, Zenon DEF Store!Next, StoreProofs!Next, Store!vars, StoreProofs!vars
<1>3. QED
  BY <1>1, <1>2, PTL DEF Store!Spec, StoreProofs!Spec

-----------------------------------------------------------------------------
(***************************************************************************)
(* Whatever the handlers and the scheduler's task do, the store goes       *)
(* through a behaviour of the Oxigraph backend: no step of an endpoint     *)
(* touches the cache other than by a call of the trait.                    *)
(***************************************************************************)
THEOREM RefinesStore == Spec => Store!Spec
<1>1. Init => Store!Init
  BY DEF Init
<1>2. ASSUME [Next]_vars PROVE [Store!Next]_(Store!vars)
  <2>1. ASSUME NEW h \in Handler, NEW request \in HttpRequest, Authorize(h, request)
        PROVE  UNCHANGED Store!vars
    BY <2>1, Zenon DEF Authorize, store, Store!vars
  <2>2. ASSUME NEW h \in Handler,
               Query(h) \/ QueryStep(h) \/ QueryFails(h) \/ Answer(h)
        PROVE  Store!Next
    <3>1. CASE Query(h)
      <4>1. Store!Invoke(h, QueryFor(handler[h].request))
        BY <3>1 DEF Query
      <4>2. QueryFor(handler[h].request) \in MayRequest[h]
        BY <4>1, Zenon DEF Store!Invoke
      <4>3. QED
        BY <4>1, <4>2, Zenon DEF Store!Step, Store!Next, Client
    <3>2. CASE QueryStep(h)
      BY <3>2, Zenon DEF QueryStep, Store!Step, Store!Next, Client
    <3>3. CASE QueryFails(h)
      BY <3>3, Zenon DEF QueryFails, Store!Step, Store!Next, Client
    <3>4. CASE Answer(h)
      BY <3>4, Zenon DEF Answer, Store!Step, Store!Next, Client
    <3>5. QED
      BY <2>2, <3>1, <3>2, <3>3, <3>4
  <2>3. ASSUME NEW h \in Handler, Done(h)
        PROVE  UNCHANGED Store!vars
    BY <2>3, Zenon DEF Done, store, Store!vars
  <2>4. CASE Crawl
    BY <2>4, Zenon DEF Crawl, Store!Next, Client
  <2>5. CASE UNCHANGED vars
    BY <2>5, Zenon DEF vars, Store!vars
  <2>6. QED
    BY <1>2, <2>1, <2>2, <2>3, <2>4, <2>5 DEF Next
<1>3. QED
  BY <1>1, <1>2, PTL DEF Spec, Store!Spec

-----------------------------------------------------------------------------
(* What the endpoints rely on of their store.                              *)

(* A handler in the middle of its query.                                   *)
InQuery == [pc      : {"list", "load", "returned"},
            req     : {QueryFor(request) : request \in HttpRequest},
            ret     : [ok : {TRUE}, value : Seq(Catalog)] \union {Err, None},
            pending : SUBSET NodeId,
            found   : SUBSET Catalog]

GraphFacts ==
    /\ quads \in [NodeId -> SUBSET Catalog]
    /\ \A n \in NodeId : \A cat \in quads[n] : cat.origin_node = n
    /\ \A n \in NodeId : quads[n] # {} => n \in graph_names
    /\ graph_names \subseteq NodeId

CallFacts ==
    /\ DOMAIN call = Client
    /\ \A h \in Handler : /\ call[h].pc = "idle" \/ call[h] \in InQuery
                          /\ IsFiniteSet(call[h].found)

StoreFacts == Store!TypeOK /\ GraphFacts /\ CallFacts

LEMMA SameTypes == Store!TypeOK <=> StoreProofs!TypeOK
<1>1. Store!Catalog = StoreProofs!Catalog
  BY DEF Store!Catalog, StoreProofs!Catalog
<1>2. \A req : Store!Accesses(req) = StoreProofs!Accesses(req)
  BY Zenon DEF Store!Accesses, StoreProofs!Accesses
<1>3. \A req : Store!ReplyTo(req) = StoreProofs!ReplyTo(req)
  BY <1>1, SameReplies, Zenon DEF Store!ReplyTo, StoreProofs!ReplyTo
<1>4. \A req : Store!InCall(req) = StoreProofs!InCall(req)
  BY <1>1, <1>2, <1>3, Zenon DEF Store!InCall, StoreProofs!InCall
<1>5. Store!CallsOK <=> StoreProofs!CallsOK
  BY <1>4, Zenon DEF Store!CallsOK, StoreProofs!CallsOK, Store!CallOK, StoreProofs!CallOK,
                     Store!NoCall, StoreProofs!NoCall
<1>6. QED
  BY <1>1, <1>5, Zenon DEF Store!TypeOK, StoreProofs!TypeOK

LEMMA GraphFactsHold == StoreProofs!TypeInv /\ StoreProofs!QueryInv => GraphFacts
BY DEF StoreProofs!TypeInv, StoreProofs!TypeOK, StoreProofs!QueryInv, StoreProofs!StoreInv,
       StoreProofs!NonEmpty, StoreProofs!Catalog, Catalog, GraphFacts

LEMMA CallFactsHold == StoreProofs!TypeInv => CallFacts
<1> SUFFICES ASSUME StoreProofs!TypeInv PROVE CallFacts
  OBVIOUS
<1>1. DOMAIN call = Client /\ \A c \in Client : StoreProofs!CallOK(c, call[c])
  BY DEF StoreProofs!TypeInv, StoreProofs!TypeOK, StoreProofs!CallsOK
<1>2. ASSUME NEW h \in Handler
      PROVE  call[h].pc = "idle" \/ call[h] \in InQuery
  <2>1. CASE call[h] = StoreProofs!NoCall
    BY <2>1 DEF StoreProofs!NoCall
  <2>2. ASSUME NEW req \in MayRequest[h], call[h] \in StoreProofs!InCall(req)
        PROVE  call[h] \in InQuery
    <3>1. req \in {QueryFor(request) : request \in HttpRequest}
      BY HandlerAssumption DEF MayRequest, Client
    <3>2. req.op = "query"
      BY <3>1, QueryForTyped
    <3>3. StoreProofs!Accesses(req) = {"list", "load"}
      BY <3>2 DEF StoreProofs!Accesses
    <3>4. StoreProofs!ReplyTo(req) = {Err} \union [ok : {TRUE}, value : Seq(Catalog)]
      BY <3>2 DEF StoreProofs!ReplyTo, StoreProofs!Err, Err, StoreProofs!Catalog, Catalog
    <3>5. call[h] \in [pc : {"list", "load", "returned"}, req : {req},
                       ret : [ok : {TRUE}, value : Seq(Catalog)] \union {Err, None},
                       pending : SUBSET NodeId, found : SUBSET Catalog]
      BY <2>2, <3>3, <3>4 DEF StoreProofs!InCall, StoreProofs!Catalog, Catalog
    <3>6. QED
      BY <3>1, <3>5 DEF InQuery
  <2>3. QED
    BY <1>1, <2>1, <2>2 DEF StoreProofs!CallOK, Client
<1>3. \A h \in Handler : IsFiniteSet(call[h].found)
  BY SameFinite DEF StoreProofs!TypeInv, StoreProofs!FoundFinite, Client
<1>4. QED
  BY <1>1, <1>2, <1>3 DEF CallFacts

LEMMA StoreFactsAlways == Spec => []StoreFacts
<1>1. StoreProofs!Spec => [](StoreProofs!TypeInv /\ StoreProofs!QueryInv)
  BY StoreProofs!QueryInvAlways, StoreNone, StoreIds, StoreCalls, StoreFails, PTL
<1>2. StoreProofs!TypeInv /\ StoreProofs!QueryInv => StoreFacts
  BY GraphFactsHold, CallFactsHold, SameTypes DEF StoreFacts, StoreProofs!TypeInv
<1>3. QED
  BY <1>1, <1>2, RefinesStore, SameSpec, PTL

-----------------------------------------------------------------------------
(* The inductive invariant, for one handler.                               *)

(* A handler is in its query exactly when it has called the cache.         *)
Linked(h) ==
    /\ handler[h].pc = "querying" <=> call[h].pc # "idle"
    /\ handler[h].pc = "querying" => call[h].req = QueryFor(handler[h].request)

(* The request asks for this catalog, if it is there.                      *)
Wanted(h, cat) == QueryFor(handler[h].request).query.origin_node \in {None, cat.origin_node}

(* What the query has loaded was cached while it ran, and what was cached  *)
(* all along is still to be loaded, or loaded, and then in the answer.     *)
Progress(h) ==
    handler[h].pc = "querying" =>
        /\ \A n \in NodeId : quads[n] \in since[h][n]
        /\ call[h].found \subseteq Seen(h)
        /\ call[h].pc = "load" =>
              \A cat \in Steady(h) : Wanted(h, cat) =>
                  cat.origin_node \in call[h].pending \/ cat \in call[h].found
        /\ call[h].pc = "returned" /\ call[h].ret # Err =>
              /\ call[h].ret = Ok(call[h].ret.value)
              /\ call[h].ret.value \in Seq(Catalog)
              /\ \A i \in DOMAIN call[h].ret.value : call[h].ret.value[i] \in Seen(h)
              /\ \A cat \in Steady(h) : Wanted(h, cat) =>
                    \E i \in DOMAIN call[h].ret.value : call[h].ret.value[i] = cat

(* With authorization on, a handler past `authorize` knows what its caller *)
(* may see.                                                                *)
Limited(h) ==
    /\ dsp_auth.mode # "disabled"
    /\ handler[h].pc \in {"authorized", "querying"}
    /\ handler[h].request.route # "catalog"
    => handler[h].allowed # None /\ handler[h].allowed \subseteq May(handler[h].request)

(* The properties, of one handler's answer.                                *)
EntriesOf(h) ==
    /\ Answered(h, "catalog_request") =>
         /\ \A i \in DOMAIN Body(h).catalog :
               \E cat \in Seen(h) :
                  Body(h).catalog[i] =
                      DspCatalog(ParticipantOf(cat), VisibleTo(h, cat),
                                 cat.content.services, <<>>)
         /\ \A d \in Served(Body(h)) : \E cat \in Seen(h) : d \in VisibleTo(h, cat)
    /\ Answered(h, "dataset") =>
         \E cat \in Seen(h) : Body(h) \in VisibleTo(h, cat)

SteadyOf(h) ==
    \A cat \in Steady(h) :
        /\ Answered(h, "catalog_request") => VisibleTo(h, cat) \subseteq Served(Body(h))
        /\ handler[h].pc = "answered" /\ handler[h].answer = NotFound =>
              handler[h].request.id \notin VisibleTo(h, cat)
        /\ Answered(h, "catalog") /\ handler[h].request.node \in {None, cat.origin_node} =>
              \E i \in DOMAIN Body(h) : Body(h)[i] = cat

AccessOf(h) ==
    dsp_auth.mode # "disabled" =>
        /\ Answered(h, "catalog_request") => Served(Body(h)) \subseteq May(handler[h].request)
        /\ Answered(h, "dataset") => Body(h) \in May(handler[h].request)

HandlerInv(h) ==
    /\ HandlerOK(h)
    /\ Linked(h)
    /\ Progress(h)
    /\ Limited(h)
    /\ EntriesOf(h)
    /\ SteadyOf(h)
    /\ AccessOf(h)

EndpointInv ==
    /\ dsp_auth \in AuthConfigs
    /\ DOMAIN handler = Handler
    /\ since \in [Handler -> [NodeId -> SUBSET SUBSET Catalog]]
    /\ \A h \in Handler : HandlerInv(h)

-----------------------------------------------------------------------------
(* The answers, for lists of catalogs of any length.                       *)

LEMMA CatalogParts ==
    ASSUME NEW cat \in Catalog
    PROVE  /\ cat.content.datasets \in SUBSET DatasetId
           /\ cat.content.services \in SUBSET ServiceId
           /\ ParticipantOf(cat) \in Participant \union NodeId
           /\ cat.origin_node \in NodeId
BY ContentAssumption DEF Catalog, ParticipantOf

(* Flat or nested, a document serves the visible datasets of the catalogs  *)
(* it was made from, and no other.                                         *)
LEMMA DocumentServes ==
    ASSUME NEW catalogs \in Seq(Catalog), NEW allowed
    PROVE  Served(CatalogDocument(allowed, catalogs)) =
               UNION {Visible(allowed, catalogs[i].content.datasets) : i \in DOMAIN catalogs}
<1> DEFINE document == CatalogDocument(allowed, catalogs)
           visible(i) == Visible(allowed, catalogs[i].content.datasets)
<1>1. CASE Len(catalogs) <= 1
  <2>1. document.dataset = Visible(allowed, FlatDatasets(catalogs)) /\ document.catalog = <<>>
    BY <1>1 DEF CatalogDocument, DspCatalog
  <2>2. Served(document) = Visible(allowed, FlatDatasets(catalogs))
    BY <2>1 DEF Served
  <2>3. QED
    BY <2>2 DEF Visible, FlatDatasets
<1>2. CASE ~(Len(catalogs) <= 1)
  <2>1. document.dataset = {} /\ document.catalog = Nested(allowed, catalogs)
    BY <1>2 DEF CatalogDocument, DspCatalog
  <2>2. /\ DOMAIN document.catalog = {i \in DOMAIN catalogs : visible(i) # {}}
        /\ \A i \in DOMAIN document.catalog : document.catalog[i].dataset = visible(i)
    BY <2>1 DEF Nested, Shown, DspCatalog
  <2> HIDE DEF document, visible
  <2>3. Served(document) = UNION {visible(i) : i \in DOMAIN catalogs}
    BY <2>1, <2>2 DEF Served
  <2>4. QED
    BY <2>3 DEF document, visible
<1>3. QED
  BY <1>1, <1>2

(* Each entry of a document comes from one catalog.                        *)
LEMMA EntryOfCatalog ==
    ASSUME NEW catalogs \in Seq(Catalog), NEW allowed,
           NEW i \in DOMAIN CatalogDocument(allowed, catalogs).catalog
    PROVE  /\ i \in DOMAIN catalogs
           /\ CatalogDocument(allowed, catalogs).catalog[i] =
                 DspCatalog(ParticipantOf(catalogs[i]),
                            Visible(allowed, catalogs[i].content.datasets),
                            catalogs[i].content.services, <<>>)
<1>1. CatalogDocument(allowed, catalogs).catalog \in {<<>>, Nested(allowed, catalogs)}
  BY DEF CatalogDocument, DspCatalog
<1>2. CatalogDocument(allowed, catalogs).catalog = Nested(allowed, catalogs)
  BY <1>1
<1>3. QED
  BY <1>2 DEF Nested, Shown, ServicesOf

(* A dataset is found when a catalog shows it to the caller.               *)
LEMMA DatasetFound ==
    ASSUME NEW catalogs \in Seq(Catalog), NEW allowed, NEW d
    PROVE  d \in Visible(allowed, FlatDatasets(catalogs)) <=>
              \E i \in DOMAIN catalogs : d \in Visible(allowed, catalogs[i].content.datasets)
BY DEF Visible, FlatDatasets

LEMMA DocumentTyped ==
    ASSUME NEW catalogs \in Seq(Catalog), NEW allowed
    PROVE  FederationOK(CatalogDocument(allowed, catalogs))
<1> DEFINE document == CatalogDocument(allowed, catalogs)
<1>1. \A i \in DOMAIN catalogs : catalogs[i] \in Catalog
  OBVIOUS
<1>2. CASE Len(catalogs) <= 1
  <2>1. document = [participant_id |-> ConnectorId,
                    dataset |-> Visible(allowed, FlatDatasets(catalogs)),
                    service |-> FlatServices(catalogs), catalog |-> <<>>]
    BY <1>2 DEF CatalogDocument, DspCatalog
  <2>2. /\ Visible(allowed, FlatDatasets(catalogs)) \in SUBSET DatasetId
        /\ FlatServices(catalogs) \in SUBSET ServiceId
    BY <1>1, CatalogParts DEF Visible, FlatDatasets, FlatServices
  <2>3. <<>> \in [DOMAIN <<>> -> Document] /\ DOMAIN <<>> = {}
    OBVIOUS
  <2> HIDE DEF document
  <2>4. QED
    BY <2>1, <2>2, <2>3 DEF FederationOK, document
<1>3. CASE ~(Len(catalogs) <= 1)
  <2> DEFINE nested == Nested(allowed, catalogs)
  <2>1. document = [participant_id |-> ConnectorId, dataset |-> {}, service |-> {},
                    catalog |-> nested]
    BY <1>3 DEF CatalogDocument, DspCatalog
  <2>2. nested \in [DOMAIN nested -> Document] /\ DOMAIN nested \subseteq Nat
    <3>1. ASSUME NEW i \in Shown(allowed, catalogs)
          PROVE  DspCatalog(ParticipantOf(catalogs[i]),
                            Visible(allowed, catalogs[i].content.datasets),
                            ServicesOf(catalogs[i], catalogs), <<>>) \in Document
      <4>1. catalogs[i] \in Catalog
        BY <1>1 DEF Shown
      <4>2. <<>> \in Seq({})
        OBVIOUS
      <4>3. Visible(allowed, catalogs[i].content.datasets) \in SUBSET DatasetId
        BY <4>1, CatalogParts DEF Visible
      <4>4. QED
        BY <4>1, <4>2, <4>3, CatalogParts DEF DspCatalog, Document, ServicesOf
    <3>2. DOMAIN nested = Shown(allowed, catalogs) /\ Shown(allowed, catalogs) \subseteq Nat
      BY DEF Nested, Shown
    <3>3. QED
      BY <3>1, <3>2 DEF Nested
  <2> HIDE DEF document, nested
  <2>3. QED
    BY <2>1, <2>2 DEF FederationOK, document
<1>4. QED
  BY <1>2, <1>3

LEMMA AnswerTyped ==
    ASSUME NEW request \in HttpRequest, NEW allowed, NEW catalogs \in Seq(Catalog)
    PROVE  AnswerOK(request, AnswerTo(request, allowed, catalogs))
<1>1. CASE request.route = "catalog_request"
  BY <1>1, DocumentTyped DEF AnswerTo, AnswerOK, Found
<1>2. CASE request.route = "dataset"
  BY <1>2 DEF AnswerTo, AnswerOK
<1>3. CASE request.route = "catalog"
  BY <1>3 DEF AnswerTo, AnswerOK, Found
<1>4. QED
  BY <1>1, <1>2, <1>3 DEF HttpRequest

-----------------------------------------------------------------------------
(* The steps.                                                              *)

LEMMA EndpointInvInit == Init => EndpointInv
<1> SUFFICES ASSUME Init PROVE EndpointInv
  OBVIOUS
<1>1. \A h \in Handler : handler[h] = Idle /\ call[h] = Store!NoCall
  BY DEF Init, Store!Init, Client
<1>2. \A h \in Handler : handler[h].pc = "idle" /\ call[h].pc = "idle"
  BY <1>1 DEF Idle, Store!NoCall
<1>3. \A h \in Handler : HandlerInv(h)
  BY <1>1, <1>2 DEF HandlerInv, HandlerOK, Linked, Progress, Limited, EntriesOf, SteadyOf,
                    AccessOf, Answered
<1>4. QED
  BY <1>3 DEF Init, EndpointInv

(* A step that leaves a handler, its call and the graphs as they are.      *)
LEMMA HandlerUntouched ==
    ASSUME NEW k \in Handler, HandlerInv(k), handler'[k] = handler[k], call'[k] = call[k],
           since'[k] = since[k], UNCHANGED <<quads, dsp_auth>>
    PROVE  HandlerInv(k)'
<1>1. HandlerOK(k)'
  BY DEF HandlerInv, HandlerOK
<1>2. Seen(k)' = Seen(k) /\ Steady(k)' = Steady(k)
  BY DEF Seen, Steady
<1>3. Linked(k)' /\ Limited(k)' /\ AccessOf(k)'
  BY DEF HandlerInv, Linked, Limited, AccessOf, Answered, Body, May
<1>4. Progress(k)'
  BY <1>2 DEF HandlerInv, Progress, Wanted
<1>5. EntriesOf(k)' /\ SteadyOf(k)'
  BY <1>2 DEF HandlerInv, EntriesOf, SteadyOf, Answered, Body, VisibleTo
<1>6. QED
  BY <1>1, <1>3, <1>4, <1>5 DEF HandlerInv

(* A step of one handler: the others are untouched.                        *)
LEMMA OneHandlerSteps ==
    ASSUME EndpointInv, NEW h \in Handler, NEW entry, NEW seen,
           handler' = [handler EXCEPT ![h] = entry],
           since' = [since EXCEPT ![h] = seen], seen \in [NodeId -> SUBSET SUBSET Catalog],
           \A k \in Handler \ {h} : call'[k] = call[k],
           UNCHANGED <<quads, dsp_auth>>, HandlerInv(h)'
    PROVE  EndpointInv'
<1>1. DOMAIN handler' = Handler /\ since' \in [Handler -> [NodeId -> SUBSET SUBSET Catalog]]
  BY DEF EndpointInv
<1>2. ASSUME NEW k \in Handler \ {h}
      PROVE  HandlerInv(k)'
  <2>1. handler'[k] = handler[k] /\ since'[k] = since[k]
    BY DEF EndpointInv
  <2>2. QED
    BY <2>1, HandlerUntouched DEF EndpointInv
<1>3. QED
  BY <1>1, <1>2 DEF EndpointInv

LEMMA AuthorizeKeeps ==
    ASSUME EndpointInv, StoreFacts, NEW h \in Handler, NEW request \in HttpRequest,
           Authorize(h, request)
    PROVE  EndpointInv'
<1>1. /\ handler[h].pc = "idle" /\ since' = since /\ call' = call
      /\ UNCHANGED <<quads, dsp_auth>>
  BY DEF Authorize, store
<1>2. DOMAIN handler = Handler /\ DOMAIN since = Handler /\ call[h].pc = "idle"
      /\ dsp_auth \in DspAuthConfig
  BY <1>1, AuthConfigsAssumption DEF EndpointInv, HandlerInv, Linked
<1>3. ASSUME NEW allowed \in (SUBSET DatasetId) \union {None}, Authorized(h, request, allowed),
             dsp_auth.mode # "disabled" /\ request.route # "catalog" =>
                 allowed # None /\ allowed \subseteq May(request)
      PROVE  EndpointInv'
  <2> DEFINE entry == [pc |-> "authorized", request |-> request, allowed |-> allowed,
                       answer |-> None]
  <2>1. handler' = [handler EXCEPT ![h] = entry] /\ handler'[h] = entry
    <3> DEFINE new == [Idle EXCEPT !.pc = "authorized", !.request = request,
                                   !.allowed = allowed]
    <3>1. new \in [pc : {"authorized"}, request : {request}, allowed : {allowed},
                   answer : {None}]
      BY DEF Idle
    <3>2. handler' = [handler EXCEPT ![h] = new]
      BY <1>3, Zenon DEF Authorized
    <3> HIDE DEF new
    <3>3. new = entry
      BY <3>1
    <3> HIDE DEF entry
    <3>4. QED
      BY <1>2, <3>2, <3>3
  <2>2. HandlerOK(h)'
    BY <2>1 DEF HandlerOK
  <2>3. Linked(h)' /\ Progress(h)'
    BY <1>1, <1>2, <2>1 DEF Linked, Progress
  <2>4. Limited(h)'
    BY <1>1, <1>3, <2>1 DEF Limited, May
  <2>5. (EntriesOf(h) /\ SteadyOf(h) /\ AccessOf(h))'
    BY <2>1 DEF EntriesOf, SteadyOf, AccessOf, Answered
  <2>6. HandlerInv(h)'
    BY <2>2, <2>3, <2>4, <2>5 DEF HandlerInv
  <2>7. since' = [since EXCEPT ![h] = since[h]]
        /\ since[h] \in [NodeId -> SUBSET SUBSET Catalog]
    BY <1>1 DEF EndpointInv
  <2> HIDE DEF entry
  <2>8. QED
    BY <1>1, <2>1, <2>6, <2>7, OneHandlerSteps
<1>4. ASSUME Refuse(h, request)
      PROVE  EndpointInv'
  <2> DEFINE entry == [pc |-> "answered", request |-> request, allowed |-> None,
                       answer |-> Unauthorized]
  <2>1. handler' = [handler EXCEPT ![h] = entry] /\ handler'[h] = entry
    <3> DEFINE new == [Idle EXCEPT !.pc = "answered", !.request = request,
                                   !.answer = Unauthorized]
    <3>1. new \in [pc : {"answered"}, request : {request}, allowed : {None},
                   answer : {Unauthorized}]
      BY DEF Idle
    <3>2. handler' = [handler EXCEPT ![h] = new]
      BY <1>4, Zenon DEF Refuse
    <3> HIDE DEF new
    <3>3. new = entry
      BY <3>1
    <3> HIDE DEF entry
    <3>4. QED
      BY <1>2, <3>2, <3>3
  <2>2. AnswerOK(request, Unauthorized)
    BY DEF AnswerOK
  <2>3. HandlerOK(h)'
    BY <2>1, <2>2 DEF HandlerOK
  <2>4. (Linked(h) /\ Progress(h) /\ Limited(h))'
    BY <1>1, <1>2, <2>1 DEF Linked, Progress, Limited
  <2>5. (EntriesOf(h) /\ SteadyOf(h) /\ AccessOf(h))'
    BY <2>1 DEF EntriesOf, SteadyOf, AccessOf, Answered, Unauthorized, NotFound
  <2>6. HandlerInv(h)'
    BY <2>3, <2>4, <2>5 DEF HandlerInv
  <2>7. since' = [since EXCEPT ![h] = since[h]]
        /\ since[h] \in [NodeId -> SUBSET SUBSET Catalog]
    BY <1>1 DEF EndpointInv
  <2> HIDE DEF entry
  <2>8. QED
    BY <1>1, <2>1, <2>6, <2>7, OneHandlerSteps
<1>5. Access(request.token) \in SUBSET DatasetId /\ Access(request.token) = May(request)
  BY <1>2 DEF Access, May, DspAuthConfig
<1>6. CASE request.route = "catalog" \/ dsp_auth.mode = "disabled"
  BY <1>3, <1>6, Zenon DEF Authorize
<1>7. CASE ~(request.route = "catalog" \/ dsp_auth.mode = "disabled") /\ request.token = None
  BY <1>4, <1>7 DEF Authorize
<1>8. CASE /\ ~(request.route = "catalog" \/ dsp_auth.mode = "disabled")
           /\ request.token # None
  <2>1. Access(request.token) # None
    BY <1>5, DatasetAssumption
  <2>2. CASE dsp_auth.mode = "bearer"
    BY <1>3, <1>5, <1>8, <2>1, <2>2 DEF Authorize
  <2>3. CASE dsp_auth.mode # "bearer"
    <3>1. CASE Refuse(h, request)
      BY <1>4, <3>1
    <3>2. ASSUME NEW granted \in SUBSET Access(request.token), Authorized(h, request, granted)
          PROVE  EndpointInv'
      <4>1. granted \in SUBSET DatasetId /\ granted \subseteq May(request)
        BY <1>5
      <4>2. granted # None
        BY <4>1, DatasetAssumption
      <4>3. QED
        BY <1>3, <3>2, <4>1, <4>2
    <3>3. QED
      BY <1>8, <2>3, <3>1, <3>2 DEF Authorize
  <2>4. QED
    BY <2>2, <2>3
<1>9. QED
  BY <1>6, <1>7, <1>8

(* A handler about to query sees all graphs as they are now.               *)
LEMMA QueryKeeps ==
    ASSUME EndpointInv, StoreFacts, NEW h \in Handler, Query(h)
    PROVE  EndpointInv'
<1> DEFINE request == handler[h].request
           entry == [handler[h] EXCEPT !.pc = "querying"]
           seen == [n \in NodeId |-> {quads[n]}]
<1>1. /\ handler[h].pc = "authorized" /\ HandlerInv(h) /\ DOMAIN handler = Handler
      /\ since \in [Handler -> [NodeId -> SUBSET SUBSET Catalog]]
      /\ Store!Invoke(h, QueryFor(request))
      /\ handler' = [handler EXCEPT ![h] = entry]
      /\ since' = [since EXCEPT ![h] = seen]
      /\ UNCHANGED <<quads, dsp_auth>>
  <2>1. UNCHANGED quads
    BY DEF Query, Store!Invoke
  <2>2. QED
    BY <2>1 DEF Query, EndpointInv
<1>2. /\ request \in HttpRequest
      /\ handler[h].allowed \in (SUBSET DatasetId) \union {None}
      /\ entry = [pc |-> "querying", request |-> request, allowed |-> handler[h].allowed,
                  answer |-> None]
  BY <1>1 DEF HandlerInv, HandlerOK, Idle
<1>3. handler'[h] = entry /\ since'[h] = seen
  BY <1>1
<1>4. HandlerOK(h)'
  BY <1>2, <1>3 DEF HandlerOK
<1>5. seen \in [NodeId -> SUBSET SUBSET Catalog] /\ \A n \in NodeId : since'[h][n] = {quads'[n]}
  BY <1>1, <1>3 DEF StoreFacts, GraphFacts
<1> DEFINE q == QueryFor(request).query
<1>6. /\ call'[h].pc = IF q.origin_node = None THEN "list" ELSE "load"
      /\ call'[h].req = QueryFor(request)
      /\ call'[h].found = {}
      /\ call'[h].pc = "load" => call'[h].pending = {q.origin_node}
      /\ \A k \in Handler \ {h} : call'[k] = call[k]
  <2>1. DOMAIN call = Client /\ h \in Client
    BY DEF StoreFacts, CallFacts, Client
  <2>2. QueryFor(request).op = "query"
    BY <1>2, QueryForTyped
  <2>3. Store!FirstAccess(QueryFor(request)) = IF q.origin_node = None THEN "list" ELSE "load"
    BY <2>2 DEF Store!FirstAccess
  <2>4. QED
    BY <1>1, <2>1, <2>3 DEF Store!Invoke, Store!NoCall
<1> HIDE DEF request, entry, seen, q
<1>7. handler'[h].pc = "querying" /\ handler'[h].request = request
      /\ handler'[h].allowed = handler[h].allowed
  BY <1>2, <1>3
<1>8. Linked(h)'
  BY <1>6, <1>7 DEF Linked
<1>9. Progress(h)'
  <2>1. call'[h].pc = "load" => \A cat \in Catalog : Wanted(h, cat)' =>
            cat.origin_node \in call'[h].pending
    BY <1>6, <1>7 DEF Wanted, q
  <2>2. (\A cat \in Steady(h) : cat \in Catalog)'
    BY DEF Steady
  <2>3. call'[h].pc # "returned"
    BY <1>6
  <2>4. QED
    BY <1>5, <1>6, <2>1, <2>2, <2>3 DEF Progress
<1>10. Limited(h)'
  BY <1>1, <1>7 DEF HandlerInv, Limited, May, request
<1>11. (EntriesOf(h) /\ SteadyOf(h) /\ AccessOf(h))'
  BY <1>7 DEF EntriesOf, SteadyOf, AccessOf, Answered
<1>12. HandlerInv(h)'
  BY <1>4, <1>8, <1>9, <1>10, <1>11 DEF HandlerInv
<1>13. QED
  BY <1>1, <1>5, <1>6, <1>12, OneHandlerSteps

(* The steps of a query change nothing but its call.                       *)
LEMMA CallSteps ==
    ASSUME EndpointInv, NEW h \in Handler, call[h].pc # "idle",
           UNCHANGED <<quads, dsp_auth, handler, since>>,
           \A k \in Handler \ {h} : call'[k] = call[k],
           call'[h].pc # "idle", call'[h].req = call[h].req, Progress(h)'
    PROVE  EndpointInv'
<1>1. HandlerInv(h) /\ handler[h].pc = "querying"
  BY DEF EndpointInv, HandlerInv, Linked
<1>2. HandlerOK(h)' /\ Linked(h)' /\ Limited(h)'
  BY <1>1 DEF HandlerInv, HandlerOK, Linked, Limited, May
<1>3. (EntriesOf(h) /\ SteadyOf(h) /\ AccessOf(h))'
  BY <1>1 DEF EntriesOf, SteadyOf, AccessOf, Answered
<1>4. HandlerInv(h)'
  BY <1>2, <1>3 DEF HandlerInv
<1>5. \A k \in Handler \ {h} : HandlerInv(k)'
  BY HandlerUntouched DEF EndpointInv
<1>6. QED
  BY <1>4, <1>5 DEF EndpointInv

(* What a step of h's query leaves of its call.                            *)
LEMMA CallChanges ==
    ASSUME StoreFacts, NEW h \in Handler, call[h].pc # "idle"
    PROVE  /\ call[h] \in InQuery /\ IsFiniteSet(call[h].found)
           /\ \A new : call' = [call EXCEPT ![h] = new] =>
                 call'[h] = new /\ \A k \in Handler \ {h} : call'[k] = call[k]
BY DEF StoreFacts, CallFacts, Client

(* The graphs of the catalogs that are steady now are in the list.         *)
LEMMA ListKeeps ==
    ASSUME EndpointInv, StoreFacts, NEW h \in Handler, Store!NamedGraphs(h),
           UNCHANGED <<dsp_auth, handler, since>>
    PROVE  EndpointInv'
<1> DEFINE new == [call[h] EXCEPT !.pc = "load", !.pending = graph_names]
<1>1. /\ call[h].pc = "list" /\ call' = [call EXCEPT ![h] = new] /\ UNCHANGED quads
  BY DEF Store!NamedGraphs, Store!StoreUnchanged
<1>2. /\ call[h] \in InQuery
      /\ call'[h] = new /\ \A k \in Handler \ {h} : call'[k] = call[k]
  BY <1>1, CallChanges
<1>3. /\ call'[h].pc = "load" /\ call'[h].req = call[h].req
      /\ call'[h].pending = graph_names /\ call'[h].found = call[h].found
  BY <1>2 DEF InQuery
<1> HIDE DEF new
<1>4. HandlerInv(h) /\ handler[h].pc = "querying"
  BY <1>1 DEF EndpointInv, HandlerInv, Linked
<1>5. Seen(h)' = Seen(h) /\ Steady(h)' = Steady(h)
  BY DEF Seen, Steady
<1>6. \A cat \in Steady(h) : cat.origin_node \in graph_names
  <2> SUFFICES ASSUME NEW cat \in Steady(h) PROVE cat.origin_node \in graph_names
    OBVIOUS
  <2>1. cat.origin_node \in NodeId /\ since[h][cat.origin_node] = {{cat}}
    BY CatalogParts DEF Steady
  <2>2. quads[cat.origin_node] = {cat}
    BY <1>4, <2>1 DEF HandlerInv, Progress
  <2>3. QED
    BY <2>1, <2>2 DEF StoreFacts, GraphFacts
<1>7. Progress(h)'
  BY <1>1, <1>3, <1>4, <1>5, <1>6 DEF HandlerInv, Progress
<1>8. QED
  BY <1>1, <1>2, <1>3, <1>7, CallSteps

(* A graph is loaded: what it yields was seen, and if the node's catalog   *)
(* is steady it is what the graph yields.                                  *)
LEMMA LoadKeeps ==
    ASSUME EndpointInv, StoreFacts, NEW h \in Handler, NEW n \in NodeId,
           Store!LoadGraph(h, n), UNCHANGED <<dsp_auth, handler, since>>
    PROVE  EndpointInv'
<1>1. call[h].pc = "load" /\ n \in call[h].pending /\ UNCHANGED quads
  BY DEF Store!LoadGraph, Store!StoreUnchanged
<1>2. PICK first \in IF quads[n] = {} THEN {{}} ELSE {{cat} : cat \in quads[n]} :
        call' = [call EXCEPT ![h].pending = Store!Remaining(h, n),
                              ![h].found = @ \union first]
  BY DEF Store!LoadGraph
<1> DEFINE new == [call[h] EXCEPT !.pending = call[h].pending \ {n},
                                  !.found = call[h].found \union first]
<1>3. call' = [call EXCEPT ![h] = new]
  BY <1>1, <1>2 DEF Store!Remaining, StoreFacts, CallFacts, InQuery
<1>4. /\ call[h] \in InQuery
      /\ call'[h] = new /\ \A k \in Handler \ {h} : call'[k] = call[k]
  BY <1>1, <1>3, CallChanges
<1>5. /\ call'[h].pc = "load" /\ call'[h].req = call[h].req
      /\ call'[h].pending = call[h].pending \ {n}
      /\ call'[h].found = call[h].found \union first
  BY <1>1, <1>4 DEF InQuery
<1> HIDE DEF new
<1>6. HandlerInv(h) /\ handler[h].pc = "querying"
  BY <1>1 DEF EndpointInv, HandlerInv, Linked
<1>7. /\ \A m \in NodeId : quads[m] \in since[h][m]
      /\ call[h].found \subseteq Seen(h)
      /\ \A cat \in Steady(h) : Wanted(h, cat) =>
             cat.origin_node \in call[h].pending \/ cat \in call[h].found
  BY <1>1, <1>6 DEF HandlerInv, Progress
<1>8. Seen(h)' = Seen(h) /\ Steady(h)' = Steady(h) /\ \A cat : Wanted(h, cat)' = Wanted(h, cat)
  BY DEF Seen, Steady, Wanted
<1>9. first \subseteq Seen(h)
  BY <1>2, <1>7 DEF Seen
<1>10. ASSUME NEW cat \in Steady(h), cat.origin_node = n
       PROVE  cat \in first
  <2>1. quads[n] = {cat}
    BY <1>7, <1>10 DEF Steady
  <2>2. QED
    BY <1>2, <2>1
<1>11. Progress(h)'
  BY <1>1, <1>5, <1>6, <1>7, <1>8, <1>9, <1>10 DEF Progress
<1>12. QED
  BY <1>1, <1>4, <1>5, <1>11, CallSteps

(* The query is answered from what it has loaded.                          *)
LEMMA QueryAnswered ==
    ASSUME EndpointInv, StoreFacts, NEW h \in Handler,
           Store!Answer(h), UNCHANGED <<dsp_auth, handler, since>>
    PROVE  EndpointInv'
<1> DEFINE q == call[h].req.query
           found == call[h].found
<1>1. call[h].pc = "load" /\ call[h].pending = {} /\ UNCHANGED quads
  BY DEF Store!Answer, Store!StoreUnchanged
<1>2. PICK answer \in Answers(found, q) : Store!Finish(h, Ok(answer))
  BY SameAnswers, SameReplies, Zenon DEF Store!Answer
<1> DEFINE new == [call[h] EXCEPT !.pc = "returned", !.ret = Ok(answer)]
<1>3. call' = [call EXCEPT ![h] = new]
  BY <1>1, <1>2 DEF Store!Finish, StoreFacts, CallFacts, InQuery
<1>4. /\ call[h] \in InQuery /\ IsFiniteSet(found)
      /\ call'[h] = new /\ \A k \in Handler \ {h} : call'[k] = call[k]
  BY <1>1, <1>3, CallChanges
<1>5. call'[h].pc = "returned" /\ call'[h].req = call[h].req /\ call'[h].ret = Ok(answer)
  BY <1>4 DEF InQuery
<1> HIDE DEF new
<1>6. HandlerInv(h) /\ handler[h].pc = "querying" /\ call[h].req = QueryFor(handler[h].request)
  BY <1>1 DEF EndpointInv, HandlerInv, Linked
<1>7. q \in CatalogQuery /\ q.offset = 0 /\ q.limit = None
  <2>1. handler[h].request \in HttpRequest
    BY <1>6 DEF HandlerInv, HandlerOK, Idle
  <2>2. QED
    BY <1>6, <2>1 DEF QueryFor, HttpRequest, QueryOf, ForNode, All, CatalogQuery
<1>8. /\ \A n \in NodeId : quads[n] \in since[h][n]
      /\ found \subseteq Seen(h)
      /\ \A cat \in Steady(h) : Wanted(h, cat) => cat \in found
  BY <1>1, <1>6 DEF HandlerInv, Progress
<1>9. Seen(h)' = Seen(h) /\ Steady(h)' = Steady(h) /\ \A cat : Wanted(h, cat)' = Wanted(h, cat)
  BY DEF Seen, Steady, Wanted
<1>10. found \in SUBSET Catalog
  BY <1>4 DEF InQuery
<1> HIDE DEF q, found
<1>11. answer \in Seq(Selected(found, q))
  BY <1>2, <1>4, <1>7, <1>10, AnswersSelected
<1>12. answer \in Seq(Catalog) /\ \A i \in DOMAIN answer : answer[i] \in Seen(h)
  BY <1>8, <1>10, <1>11 DEF Selected
<1>13. ASSUME NEW cat \in Steady(h), Wanted(h, cat)
       PROVE  \E i \in DOMAIN answer : answer[i] = cat
  <2>1. cat \in Selected(found, q)
    BY <1>6, <1>8, <1>13 DEF Selected, Wanted, q
  <2>2. QED
    BY <1>2, <1>4, <1>7, <1>10, <2>1, WholeAnswer
<1>14. Ok(answer) = Ok(Ok(answer).value) /\ Ok(answer).value = answer
  BY DEF Ok
<1>15. call[h].found = found /\ call'[h].found = call[h].found
  BY <1>3, <1>4 DEF found, new, InQuery
<1>16. Progress(h)'
  BY <1>1, <1>5, <1>8, <1>9, <1>12, <1>13, <1>14, <1>15 DEF Progress
<1>17. QED
  BY <1>1, <1>4, <1>5, <1>16, CallSteps

LEMMA QueryFailsKeeps ==
    ASSUME EndpointInv, StoreFacts, NEW h \in Handler, QueryFails(h)
    PROVE  EndpointInv'
<1> DEFINE new == [call[h] EXCEPT !.pc = "returned", !.ret = Err]
<1>1. /\ call[h].pc # "idle" /\ UNCHANGED <<quads, dsp_auth, handler, since>>
      /\ Store!Finish(h, Err)
  BY SameReplies DEF QueryFails, Store!Fail, Store!StoreUnchanged
<1>2. call' = [call EXCEPT ![h] = new]
  BY <1>1 DEF Store!Finish, StoreFacts, CallFacts, InQuery
<1>3. /\ call[h] \in InQuery
      /\ call'[h] = new /\ \A k \in Handler \ {h} : call'[k] = call[k]
  BY <1>1, <1>2, CallChanges
<1>4. /\ call'[h].pc = "returned" /\ call'[h].req = call[h].req /\ call'[h].ret = Err
      /\ call'[h].found = call[h].found
  BY <1>3 DEF InQuery
<1> HIDE DEF new
<1>5. Seen(h)' = Seen(h) /\ Progress(h)
  BY <1>1 DEF Seen, EndpointInv, HandlerInv
<1>6. Progress(h)'
  BY <1>1, <1>4, <1>5 DEF Progress
<1>7. QED
  BY <1>1, <1>3, <1>4, <1>6, CallSteps

(* What an answer made from a list owes to the list.                       *)
LEMMA AnswerServes ==
    ASSUME NEW request \in HttpRequest, NEW allowed, NEW catalogs \in Seq(Catalog), NEW answer,
           answer = AnswerTo(request, allowed, catalogs)
    PROVE  /\ request.route = "catalog_request" =>
                 /\ answer # NotFound
                 /\ \A d : d \in Served(answer.body) <=>
                      \E i \in DOMAIN catalogs :
                          d \in Visible(allowed, catalogs[i].content.datasets)
                 /\ \A i \in DOMAIN answer.body.catalog :
                      /\ i \in DOMAIN catalogs
                      /\ answer.body.catalog[i] =
                            DspCatalog(ParticipantOf(catalogs[i]),
                                       Visible(allowed, catalogs[i].content.datasets),
                                       catalogs[i].content.services, <<>>)
           /\ request.route = "dataset" =>
                 /\ answer.status = 200 =>
                       \E i \in DOMAIN catalogs :
                          answer.body \in Visible(allowed, catalogs[i].content.datasets)
                 /\ answer = NotFound =>
                       \A i \in DOMAIN catalogs :
                          request.id \notin Visible(allowed, catalogs[i].content.datasets)
           /\ request.route = "catalog" => answer # NotFound /\ answer.body = catalogs
<1>1. CASE request.route = "catalog_request"
  <2>1. answer.body = CatalogDocument(allowed, catalogs) /\ answer.status = 200
    BY <1>1 DEF AnswerTo, Found
  <2>2. answer # NotFound
    BY <2>1 DEF NotFound
  <2>3. \A d : d \in Served(answer.body) <=>
           \E i \in DOMAIN catalogs : d \in Visible(allowed, catalogs[i].content.datasets)
    BY <2>1, DocumentServes
  <2>4. QED
    BY <1>1, <2>1, <2>2, <2>3, EntryOfCatalog
<1>2. CASE request.route = "dataset"
  <2>1. answer = IF request.id \in Visible(allowed, FlatDatasets(catalogs))
                 THEN Found(request.id) ELSE NotFound
    BY <1>2 DEF AnswerTo
  <2>2. Found(request.id).status = 200 /\ Found(request.id).body = request.id
        /\ NotFound.status = 404
    BY DEF Found, NotFound
  <2>3. QED
    BY <1>2, <2>1, <2>2, DatasetFound
<1>3. CASE request.route = "catalog"
  <2>1. answer.body = catalogs /\ answer.status = 200
    BY <1>3 DEF AnswerTo, Found
  <2>2. QED
    BY <1>3, <2>1 DEF NotFound
<1>4. QED
  BY <1>1, <1>2, <1>3 DEF HttpRequest

LEMMA AnswerKeeps ==
    ASSUME EndpointInv, StoreFacts, NEW h \in Handler, Answer(h)
    PROVE  EndpointInv'
<1> DEFINE request == handler[h].request
           allowed == handler[h].allowed
           catalogs == call[h].ret.value
           answer == IF ~call[h].ret.ok THEN StoreFailed
                     ELSE AnswerTo(request, allowed, catalogs)
           new == [handler[h] EXCEPT !.pc = "answered", !.answer = answer]
<1>1. /\ call[h].pc = "returned" /\ call' = [call EXCEPT ![h] = Store!NoCall]
      /\ UNCHANGED <<quads, dsp_auth, since>>
  BY DEF Answer, Store!Return, Store!StoreUnchanged
<1>2. /\ DOMAIN handler = Handler /\ handler[h].pc = "querying" /\ HandlerInv(h)
      /\ since \in [Handler -> [NodeId -> SUBSET SUBSET Catalog]]
  BY <1>1 DEF EndpointInv, HandlerInv, Linked
<1>3. /\ request \in HttpRequest /\ allowed \in (SUBSET DatasetId) \union {None}
      /\ handler[h] = [pc |-> "querying", request |-> request, allowed |-> allowed,
                       answer |-> None]
  BY <1>2 DEF HandlerInv, HandlerOK, Idle
<1>4. handler' = [handler EXCEPT ![h] = new]
  BY <1>2 DEF Answer
<1>5. /\ handler'[h].pc = "answered" /\ handler'[h].request = request
      /\ handler'[h].allowed = allowed /\ handler'[h].answer = answer
      /\ handler'[h] = [pc |-> "answered", request |-> request, allowed |-> allowed,
                        answer |-> answer]
  <2>1. handler'[h] = new
    BY <1>2, <1>4
  <2> HIDE DEF request, allowed, answer
  <2>2. handler[h] \in [pc : {"querying"}, request : {request}, allowed : {allowed},
                        answer : {None}]
    BY <1>3
  <2>3. new \in [pc : {"answered"}, request : {request}, allowed : {allowed},
                 answer : {answer}]
    BY <2>2
  <2> HIDE DEF new
  <2>4. QED
    BY <2>1, <2>3
<1>6. call'[h].pc = "idle" /\ \A k \in Handler \ {h} : call'[k] = call[k]
  <2>1. call'[h] = Store!NoCall /\ \A k \in Handler \ {h} : call'[k] = call[k]
    BY <1>1, CallChanges
  <2>2. QED
    BY <2>1 DEF Store!NoCall
<1>7. \/ answer = StoreFailed
      \/ /\ answer = AnswerTo(request, allowed, catalogs) /\ catalogs \in Seq(Catalog)
         /\ \A i \in DOMAIN catalogs : catalogs[i] \in Seen(h)
         /\ \A cat \in Steady(h) : Wanted(h, cat) => \E i \in DOMAIN catalogs : catalogs[i] = cat
  <2>1. call[h].ret = Err => answer = StoreFailed
    BY DEF Err
  <2>2. call[h].ret = Ok(catalogs) => answer = AnswerTo(request, allowed, catalogs)
    <3> HIDE DEF request, allowed, catalogs
    <3>1. Ok(catalogs).ok = TRUE
      BY DEF Ok
    <3>2. QED
      BY <3>1
  <2>3. QED
    BY <1>1, <1>2, <2>1, <2>2 DEF HandlerInv, Progress
<1> HIDE DEF request, allowed, catalogs, answer, new
<1>8. Seen(h)' = Seen(h) /\ Steady(h)' = Steady(h)
  BY <1>1 DEF Seen, Steady
<1>9. HandlerOK(h)'
  <2>1. AnswerOK(request, answer)
    BY <1>3, <1>7, AnswerTyped DEF AnswerOK
  <2>2. QED
    BY <1>3, <1>5, <2>1 DEF HandlerOK
<1>10. (Linked(h) /\ Progress(h) /\ Limited(h))'
  BY <1>5, <1>6 DEF Linked, Progress, Limited
<1>11. (EntriesOf(h) /\ SteadyOf(h) /\ AccessOf(h))'
  <2>1. CASE answer = StoreFailed
    <3>1. handler'[h].answer.status = 500 /\ handler'[h].answer # NotFound
      BY <1>5, <2>1 DEF StoreFailed, NotFound
    <3>2. QED
      BY <3>1 DEF EntriesOf, SteadyOf, AccessOf, Answered
  <2>2. CASE answer # StoreFailed
    <3>1. answer = AnswerTo(request, allowed, catalogs) /\ catalogs \in Seq(Catalog)
      BY <1>7, <2>2
    <3> DEFINE shows(i, d) == d \in Visible(allowed, catalogs[i].content.datasets)
    <3>2. /\ request.route = "catalog_request" =>
               /\ answer # NotFound
               /\ \A d : d \in Served(answer.body) <=> \E i \in DOMAIN catalogs : shows(i, d)
          /\ request.route = "dataset" =>
               /\ answer.status = 200 => \E i \in DOMAIN catalogs : shows(i, answer.body)
               /\ answer = NotFound => \A i \in DOMAIN catalogs : ~shows(i, request.id)
          /\ request.route = "catalog" => answer # NotFound /\ answer.body = catalogs
      BY <1>3, <3>1, AnswerServes
    <3>3. EntriesOf(h)'
      BY <1>3, <1>5, <1>7, <1>8, <2>2, <3>1, AnswerServes
         DEF EntriesOf, Answered, Body, VisibleTo
    <3>4. SteadyOf(h)'
      <4> SUFFICES ASSUME NEW cat \in Steady(h)
                   PROVE  /\ Answered(h, "catalog_request")' =>
                                VisibleTo(h, cat)' \subseteq Served(answer.body)
                          /\ answer = NotFound => request.id \notin VisibleTo(h, cat)'
                          /\ Answered(h, "catalog")' /\ request.node \in {None, cat.origin_node} =>
                                \E i \in DOMAIN answer.body : answer.body[i] = cat
        BY <1>5, <1>8 DEF SteadyOf, Body
      <4>1. VisibleTo(h, cat)' = Visible(allowed, cat.content.datasets)
        BY <1>5 DEF VisibleTo
      <4>2. request.route # "catalog" \/ request.node \in {None, cat.origin_node} =>
               Wanted(h, cat)
        BY DEF Wanted, QueryFor, QueryOf, ForNode, All, request
      <4>3. Wanted(h, cat) => \E i \in DOMAIN catalogs : catalogs[i] = cat
        BY <1>7, <2>2
      <4>4. request.route \in {"catalog_request", "dataset", "catalog"}
        BY <1>3 DEF HttpRequest
      <4>5. \A d \in VisibleTo(h, cat)' : Wanted(h, cat) =>
               \E i \in DOMAIN catalogs : shows(i, d)
        BY <4>1, <4>3
      <4> HIDE DEF shows
      <4>6. Answered(h, "catalog_request")' => request.route = "catalog_request"
        BY <1>5 DEF Answered
      <4>7. Answered(h, "catalog")' => request.route = "catalog"
        BY <1>5 DEF Answered
      <4>8. QED
        BY <3>2, <4>2, <4>3, <4>4, <4>5, <4>6, <4>7
    <3>5. AccessOf(h)'
      <4>1. dsp_auth.mode # "disabled" /\ request.route # "catalog" =>
                allowed # None /\ allowed \subseteq May(request)
        BY <1>2 DEF HandlerInv, Limited, request, allowed
      <4>2. May(request)' = May(request)
        BY <1>1, <1>5 DEF May, request
      <4>3. allowed # None => \A s : Visible(allowed, s) \subseteq allowed
        BY DEF Visible
      <4>4. ASSUME dsp_auth.mode # "disabled", request.route # "catalog",
                   NEW d, NEW i \in DOMAIN catalogs, shows(i, d)
            PROVE  d \in May(request)'
        BY <4>1, <4>2, <4>3, <4>4
      <4> HIDE DEF shows
      <4>5. UNCHANGED dsp_auth
        BY <1>1
      <4>6. ASSUME dsp_auth.mode # "disabled", Answered(h, "catalog_request")'
            PROVE  Served(answer.body) \subseteq May(request)'
        <5>1. request.route = "catalog_request"
          BY <1>5, <4>6 DEF Answered
        <5>2. QED
          BY <3>2, <4>4, <4>6, <5>1
      <4>7. ASSUME dsp_auth.mode # "disabled", Answered(h, "dataset")'
            PROVE  answer.body \in May(request)'
        <5>1. request.route = "dataset" /\ answer.status = 200
          BY <1>5, <4>7 DEF Answered
        <5>2. QED
          BY <3>2, <4>4, <4>7, <5>1
      <4>8. May(handler[h].request)' = May(request)' /\ Body(h)' = answer.body
        BY <1>5 DEF Body, May, request
      <4>9. QED
        BY <4>5, <4>6, <4>7, <4>8 DEF AccessOf
    <3>6. QED
      BY <3>3, <3>4, <3>5
  <2>3. QED
    BY <2>1, <2>2
<1>12. HandlerInv(h)'
  BY <1>9, <1>10, <1>11 DEF HandlerInv
<1>13. since' = [since EXCEPT ![h] = since[h]]
       /\ since[h] \in [NodeId -> SUBSET SUBSET Catalog]
  BY <1>1, <1>2
<1>14. QED
  BY <1>1, <1>4, <1>6, <1>12, <1>13, OneHandlerSteps

LEMMA DoneKeeps ==
    ASSUME EndpointInv, StoreFacts, NEW h \in Handler, Done(h)
    PROVE  EndpointInv'
<1> DEFINE seen == [n \in NodeId |-> {}]
<1>1. /\ handler[h].pc = "answered" /\ call' = call /\ UNCHANGED <<quads, dsp_auth>>
      /\ handler' = [handler EXCEPT ![h] = Idle]
      /\ since' = [since EXCEPT ![h] = seen]
  BY DEF Done, store
<1>2. handler'[h] = Idle /\ call[h].pc = "idle" /\ seen \in [NodeId -> SUBSET SUBSET Catalog]
  BY <1>1 DEF EndpointInv, HandlerInv, Linked
<1> HIDE DEF seen
<1>3. handler'[h].pc = "idle" /\ call'[h].pc = "idle"
  BY <1>1, <1>2 DEF Idle
<1>4. HandlerInv(h)'
  BY <1>2, <1>3 DEF HandlerInv, HandlerOK, Linked, Progress, Limited, EntriesOf, SteadyOf,
                    AccessOf, Answered
<1>5. QED
  BY <1>1, <1>2, <1>4, OneHandlerSteps

(***************************************************************************)
(* The crawler writes while handlers query: what they have seen grows, and *)
(* what was steady may not be any more.                                    *)
(***************************************************************************)
LEMMA CrawlKeeps ==
    ASSUME EndpointInv, StoreFacts, StoreFacts', Crawl
    PROVE  EndpointInv'
<1>1. /\ UNCHANGED <<dsp_auth, handler>>
      /\ since' = [h \in Handler |->
                      IF handler[h].pc = "querying"
                      THEN [n \in NodeId |-> since[h][n] \union {quads'[n]}] ELSE since[h]]
  BY DEF Crawl, Observe
<1>2. \A h \in Handler : call'[h] = call[h]
  <2>1. \A h \in Handler : h # Crawler
    BY HandlerAssumption
  <2>2. \E new : call' = [call EXCEPT ![Crawler] = new]
    <3>1. CASE \E req : Store!Invoke(Crawler, req)
      BY <3>1 DEF Store!Invoke
    <3>2. \A pc : Store!Goto(Crawler, pc) => \E new : call' = [call EXCEPT ![Crawler] = new]
      BY DEF Store!Goto
    <3>3. \A ret : Store!Finish(Crawler, ret) => \E new : call' = [call EXCEPT ![Crawler] = new]
      BY DEF Store!Finish
    <3>4. CASE Store!RemovePrior(Crawler)
      BY <3>2, <3>4 DEF Store!RemovePrior
    <3>5. CASE Store!InsertNew(Crawler)
      BY <3>3, <3>5 DEF Store!InsertNew
    <3>6. CASE Store!NamedGraphs(Crawler)
      BY <3>6 DEF Store!NamedGraphs
    <3>7. CASE \E n \in NodeId : Store!LoadGraph(Crawler, n)
      BY <3>7 DEF Store!LoadGraph
    <3>8. CASE Store!Answer(Crawler)
      BY <3>3, <3>8 DEF Store!Answer
    <3>9. CASE Store!HasSubject(Crawler)
      BY <3>2, <3>3, <3>9 DEF Store!HasSubject
    <3>10. CASE Store!RemoveSubject(Crawler)
      BY <3>3, <3>10 DEF Store!RemoveSubject
    <3>11. CASE Store!Fail(Crawler)
      BY <3>3, <3>11 DEF Store!Fail
    <3>12. CASE Store!Return(Crawler)
      BY <3>12 DEF Store!Return
    <3>13. QED
      BY <3>1, <3>4, <3>5, <3>6, <3>7, <3>8, <3>9, <3>10, <3>11, <3>12 DEF Crawl, Store!Step
  <2>3. QED
    BY <2>1, <2>2 DEF StoreFacts, CallFacts, Client
<1>3. quads' \in [NodeId -> SUBSET Catalog]
  BY DEF StoreFacts, GraphFacts
<1>4. since' \in [Handler -> [NodeId -> SUBSET SUBSET Catalog]]
  BY <1>1, <1>3 DEF EndpointInv
<1>5. ASSUME NEW h \in Handler
      PROVE  HandlerInv(h)'
  <2>1. HandlerInv(h) /\ handler'[h] = handler[h] /\ call'[h] = call[h]
    BY <1>1, <1>2 DEF EndpointInv
  <2>2. HandlerOK(h)' /\ Linked(h)' /\ Limited(h)' /\ AccessOf(h)'
    BY <1>1, <2>1 DEF HandlerInv, HandlerOK, Linked, Limited, AccessOf, Answered, Body, May
  <2>3. CASE handler[h].pc = "querying"
    <3>1. \A n \in NodeId : since'[h][n] = since[h][n] \union {quads'[n]}
      BY <1>1, <2>3
    <3>2. Seen(h) \subseteq Seen(h)'
      BY <3>1 DEF Seen
    <3>3. Steady(h)' \subseteq Steady(h)
      <4> SUFFICES ASSUME NEW cat \in Catalog, since'[h][cat.origin_node] = {{cat}}
                   PROVE  since[h][cat.origin_node] = {{cat}}
        BY DEF Steady
      <4>1. cat.origin_node \in NodeId
        BY CatalogParts
      <4>2. quads[cat.origin_node] \in since[h][cat.origin_node]
        BY <2>1, <2>3, <4>1 DEF HandlerInv, Progress
      <4>3. since[h][cat.origin_node] \subseteq {{cat}}
        BY <3>1, <4>1
      <4> DEFINE A == since[h][cat.origin_node]
      <4> HIDE DEF A
      <4>4. A # {} /\ \A x \in A : x = {cat}
        BY <4>2, <4>3 DEF A
      <4>5. A = {{cat}}
        BY <4>4
      <4>6. QED
        BY <4>5 DEF A
    <3>4. Progress(h)
      BY <2>1 DEF HandlerInv
    <3>5. \A n \in NodeId : quads'[n] \in since'[h][n]
      BY <3>1
    <3>6. \A cat : Wanted(h, cat)' = Wanted(h, cat)
      BY <2>1 DEF Wanted
    <3>7. Progress(h)'
      BY <2>1, <2>3, <3>2, <3>3, <3>4, <3>5, <3>6 DEF Progress
    <3>8. (EntriesOf(h) /\ SteadyOf(h))'
      BY <2>1, <2>3 DEF EntriesOf, SteadyOf, Answered
    <3>9. QED
      BY <2>2, <3>7, <3>8 DEF HandlerInv
  <2>4. CASE handler[h].pc # "querying"
    <3>1. since'[h] = since[h]
      BY <1>1, <2>4
    <3>2. Seen(h)' = Seen(h) /\ Steady(h)' = Steady(h)
      BY <3>1 DEF Seen, Steady
    <3>3. Progress(h)'
      BY <2>1, <2>4 DEF Progress
    <3>4. EntriesOf(h)' /\ SteadyOf(h)'
      BY <2>1, <3>2 DEF HandlerInv, EntriesOf, SteadyOf, Answered, Body, VisibleTo
    <3>5. QED
      BY <2>2, <3>3, <3>4 DEF HandlerInv
  <2>5. QED
    BY <2>3, <2>4
<1>6. QED
  BY <1>1, <1>4, <1>5 DEF EndpointInv

LEMMA EndpointInvStep ==
    ASSUME EndpointInv, StoreFacts, StoreFacts', [Next]_vars
    PROVE  EndpointInv'
<1>1. ASSUME NEW h \in Handler, QueryStep(h)
      PROVE  EndpointInv'
  <2>1. UNCHANGED <<dsp_auth, handler, since>>
    BY <1>1 DEF QueryStep
  <2>2. QED
    BY <1>1, <2>1, ListKeeps, LoadKeeps, QueryAnswered DEF QueryStep
<1>2. CASE UNCHANGED vars
  <2>1. \A h \in Handler : HandlerInv(h)'
    BY <1>2, HandlerUntouched DEF vars, EndpointInv
  <2>2. QED
    BY <1>2, <2>1 DEF vars, EndpointInv
<1>3. QED
  BY <1>1, <1>2, AuthorizeKeeps, QueryKeeps, QueryFailsKeeps, AnswerKeeps, DoneKeeps,
     CrawlKeeps DEF Next

LEMMA EndpointInvAlways == Spec => [](StoreFacts /\ EndpointInv)
<1>1. StoreFacts /\ StoreFacts' /\ EndpointInv /\ [Next]_vars => EndpointInv'
  BY EndpointInvStep
<1>2. QED
  BY <1>1, EndpointInvInit, StoreFactsAlways, PTL DEF Spec

-----------------------------------------------------------------------------
(* The theorems.                                                           *)

(* Handlers, their answers and the store they share stay well formed.      *)
THEOREM TypeCorrect == Spec => []TypeOK
<1>1. StoreFacts /\ EndpointInv => TypeOK
  BY DEF StoreFacts, EndpointInv, HandlerInv, TypeOK
<1>2. QED
  BY <1>1, EndpointInvAlways, PTL

(***************************************************************************)
(* With authorization on, no handler of the DSP endpoints serves a dataset *)
(* beyond what the configuration gives its caller's token, for any number  *)
(* of handlers and catalogs, nested answers and refused tokens included.   *)
(***************************************************************************)
THEOREM AccessRespected == Spec => []ServedWithinAccess
<1>1. EndpointInv => ServedWithinAccess
  BY DEF EndpointInv, HandlerInv, AccessOf, ServedWithinAccess
<1>2. QED
  BY <1>1, EndpointInvAlways, PTL

(***************************************************************************)
(* Whatever the crawler writes between the accesses of a query, an entry   *)
(* of the answer is one catalog that was cached meanwhile, whole.          *)
(***************************************************************************)
THEOREM WholeEntries == Spec => []EntriesAreCatalogs
<1>1. EndpointInv => EntriesAreCatalogs
  BY DEF EndpointInv, HandlerInv, EntriesOf, EntriesAreCatalogs
<1>2. QED
  BY <1>1, EndpointInvAlways, PTL

(***************************************************************************)
(* A catalog that was cached throughout a query is served, by all of the   *)
(* three routes, to a caller who may see it.                               *)
(***************************************************************************)
THEOREM SteadyServed == Spec => []SteadyCatalogsServed
<1>1. EndpointInv => SteadyCatalogsServed
  BY DEF EndpointInv, HandlerInv, SteadyOf, SteadyCatalogsServed
<1>2. QED
  BY <1>1, EndpointInvAlways, PTL

(***************************************************************************)
(* The scheduler's task is the store's only writer, so that what is proved *)
(* of one writer per node holds of the deployed process: no graph holds    *)
(* two catalogs, nor outside of a write a superseded one.                  *)
(***************************************************************************)
THEOREM CrawlerWritesAlone == Spec => [](Store!OneTriplePerGraph /\ Store!NothingStale)
<1>1. StoreProofs!OneWriterPerNode
  <2>1. \A c \in Client : c # Crawler => \A r \in MayRequest[c] : r.op = "query"
    BY QueryForTyped DEF MayRequest, Client
  <2>2. QED
    BY <2>1 DEF StoreProofs!OneWriterPerNode
<1>2. /\ StoreProofs!Spec => []StoreProofs!OneTriplePerGraph
      /\ StoreProofs!Spec => []StoreProofs!NothingStale
  BY <1>1, StoreProofs!OneTriple, StoreProofs!NeverStale,
     StoreNone, StoreIds, StoreCalls, StoreFails, PTL
<1>3. StoreProofs!OneTriplePerGraph => Store!OneTriplePerGraph
  BY DEF StoreProofs!OneTriplePerGraph, Store!OneTriplePerGraph
<1>4. StoreProofs!NothingStale => Store!NothingStale
  BY Zenon DEF StoreProofs!NothingStale, Store!NothingStale, StoreProofs!Writing,
               Store!Writing, StoreProofs!Target, Store!Target
<1>5. QED
  BY <1>2, <1>3, <1>4, RefinesStore, SameSpec, PTL
=============================================================================
