--------------------------- MODULE CatalogEndpoints ---------------------------
(***************************************************************************)
(* The endpoints of `http-api` that serve the cache: `catalog_request` and *)
(* `get_dsp_dataset`, for callers that `authorize` lets in, and the        *)
(* unauthenticated `get_catalog`.  Handlers run concurrently with the      *)
(* scheduler's task, which upserts catalogs into the same Oxigraph store.  *)
(*                                                                         *)
(* Datasets and services are their ids; lists of them are sets, because    *)
(* the endpoints pass on their order and look no further.                  *)
(***************************************************************************)
EXTENDS Catalogs

CONSTANTS
    Handler,        \* request handlers
    Crawler,        \* the scheduler's task
    Fetched,        \* the catalogs its crawls may fetch
    DatasetId,
    ServiceId,
    ConnectorId,    \* CONNECTOR_PARTICIPANT_ID
    Participant,    \* the participant ids answers may carry
    Token,          \* bearer tokens that callers present
    AuthConfigs,    \* the configurations the process may start with
    StorageErrors

ASSUME ContentAssumption ==
    Content \subseteq [participant_id : Participant \union {None},
                       datasets       : SUBSET DatasetId,
                       services       : SUBSET ServiceId]

ASSUME FetchedAssumption == Fetched \subseteq Catalog
ASSUME HandlerAssumption == Crawler \notin Handler
ASSUME TokenAssumption == None \notin Token \union Participant
ASSUME DatasetAssumption == \A S \in SUBSET DatasetId : S # None
ASSUME StorageErrorsAssumption == StorageErrors \in BOOLEAN

(***************************************************************************)
(* DspAuthConfig.  `catalog_access` says what a token's caller may see; in *)
(* DCP mode it stands for all that the caller's credentials list.          *)
(***************************************************************************)
DspAuthConfig == [mode : {"disabled", "bearer", "dcp"},
                  catalog_access : UNION {[known -> SUBSET DatasetId] : known \in SUBSET Token}]

ASSUME AuthConfigsAssumption == AuthConfigs \subseteq DspAuthConfig

HttpRequest == [route : {"catalog_request"}, token : Token \union {None}]
                 \union [route : {"dataset"}, token : Token \union {None}, id : DatasetId]
                 \union [route : {"catalog"}, node : NodeId \union {None}]

VARIABLES
    quads, graph_names, call, confirmed, steady,    \* the cache
    dsp_auth,   \* the configuration
    handler,    \* what each handler is doing
    since       \* history: what each graph held since a handler's query began

store == <<quads, graph_names, call, confirmed, steady>>
vars == <<quads, graph_names, call, confirmed, steady, dsp_auth, handler, since>>

QueryFor(request) ==
    IF request.route = "catalog" /\ request.node # None
    THEN QueryOf(ForNode(request.node)) ELSE QueryOf(All)

Client == Handler \union {Crawler}
MayRequest ==
    [c \in Client |-> IF c = Crawler THEN {UpsertOf(cat) : cat \in Fetched}
                      ELSE {QueryFor(request) : request \in HttpRequest}]

Store == INSTANCE OxigraphCatalogCache

Idle == [pc |-> "idle", request |-> None, allowed |-> None, answer |-> None]

Init ==
    /\ Store!Init
    /\ dsp_auth \in AuthConfigs
    /\ handler = [h \in Handler |-> Idle]
    /\ since = [h \in Handler |-> [n \in NodeId |-> {}]]

-----------------------------------------------------------------------------
(* The answers.                                                            *)
Unauthorized == [status |-> 401]
NotFound == [status |-> 404]
StoreFailed == [status |-> 500]
Found(body) == [status |-> 200, body |-> body]

DspCatalog(participant, datasets, services, nested) ==
    [participant_id |-> participant, dataset |-> datasets,
     service |-> services, catalog |-> nested]

(* `allowed` is None when authorization is disabled.                       *)
Visible(allowed, datasets) ==
    IF allowed = None THEN datasets ELSE datasets \intersect allowed

(* flatten_catalogs.                                                       *)
FlatDatasets(catalogs) == UNION {catalogs[i].content.datasets : i \in DOMAIN catalogs}
FlatServices(catalogs) == UNION {catalogs[i].content.services : i \in DOMAIN catalogs}

ParticipantOrNone(cat) == cat.content.participant_id
ParticipantOf(cat) ==
    IF cat.content.participant_id = None THEN cat.origin_node
    ELSE cat.content.participant_id

ServicesOfAll(cat, catalogs) == FlatServices(catalogs)
ServicesOf(cat, catalogs) == cat.content.services

(* One entry per node of which the caller sees a dataset, in the order of  *)
(* the catalogs; an entry here keeps its catalog's position in the list.   *)
Shown(allowed, catalogs) ==
    {i \in DOMAIN catalogs : Visible(allowed, catalogs[i].content.datasets) # {}}

Nested(allowed, catalogs) ==
    [i \in Shown(allowed, catalogs) |->
        DspCatalog(ParticipantOf(catalogs[i]),
                   Visible(allowed, catalogs[i].content.datasets),
                   ServicesOf(catalogs[i], catalogs), <<>>)]

(* Flat for at most one node, a federation of catalogs for more.           *)
CatalogDocument(allowed, catalogs) ==
    IF Len(catalogs) <= 1
    THEN DspCatalog(ConnectorId, Visible(allowed, FlatDatasets(catalogs)),
                    FlatServices(catalogs), <<>>)
    ELSE DspCatalog(ConnectorId, {}, {}, Nested(allowed, catalogs))

AnswerTo(request, allowed, catalogs) ==
    CASE request.route = "catalog_request" -> Found(CatalogDocument(allowed, catalogs))
      [] request.route = "dataset" ->
            IF request.id \in Visible(allowed, FlatDatasets(catalogs))
            THEN Found(request.id) ELSE NotFound
      [] request.route = "catalog" -> Found(catalogs)

-----------------------------------------------------------------------------
(* What `authorize` makes of the caller's token, in bearer and DCP mode.   *)
AccessUnlessUnknown(token) ==
    IF token \in DOMAIN dsp_auth.catalog_access THEN dsp_auth.catalog_access[token] ELSE DatasetId
Access(token) ==
    IF token \in DOMAIN dsp_auth.catalog_access THEN dsp_auth.catalog_access[token] ELSE {}

Authorized(h, request, allowed) ==
    handler' = [handler EXCEPT ![h] = [Idle EXCEPT !.pc = "authorized",
                                                   !.request = request,
                                                   !.allowed = allowed]]

Refuse(h, request) ==
    handler' = [handler EXCEPT ![h] = [Idle EXCEPT !.pc = "answered",
                                                   !.request = request,
                                                   !.answer = Unauthorized]]

(***************************************************************************)
(* A request arrives and passes `authorize`.  DCP verification may refuse  *)
(* any token, or grant less of it than at other times: calls fail, and     *)
(* credentials expire.                                                     *)
(***************************************************************************)
Authorize(h, request) ==
    /\ handler[h].pc = "idle"
    /\ IF request.route = "catalog" \/ dsp_auth.mode = "disabled"
       THEN Authorized(h, request, None)
       ELSE IF request.token = None THEN Refuse(h, request)
       ELSE IF dsp_auth.mode = "bearer" THEN Authorized(h, request, Access(request.token))
       ELSE \/ Refuse(h, request)
            \/ \E granted \in SUBSET Access(request.token) : Authorized(h, request, granted)
    /\ UNCHANGED <<store, dsp_auth, since>>

(* What a step of the crawler adds to the history of a query in progress.  *)
Observe ==
    since' = [h \in Handler |->
                IF handler[h].pc = "querying"
                THEN [n \in NodeId |-> since[h][n] \union {quads'[n]}] ELSE since[h]]

(* The handler calls `cache.query`.                                        *)
Query(h) ==
    /\ handler[h].pc = "authorized"
    /\ Store!Invoke(h, QueryFor(handler[h].request))
    /\ handler' = [handler EXCEPT ![h].pc = "querying"]
    /\ since' = [since EXCEPT ![h] = [n \in NodeId |-> {quads[n]}]]
    /\ UNCHANGED dsp_auth

(* One store access of its query.                                          *)
QueryStep(h) ==
    /\ \/ Store!NamedGraphs(h)
       \/ \E n \in NodeId : Store!LoadGraph(h, n)
       \/ Store!Answer(h)
    /\ UNCHANGED <<dsp_auth, handler, since>>

QueryFails(h) ==
    /\ Store!Fail(h)
    /\ UNCHANGED <<dsp_auth, handler, since>>

(* The query returns, and the handler answers.                             *)
Answer(h) ==
    /\ Store!Return(h)
    /\ LET x == handler[h]
           answer == IF ~call[h].ret.ok THEN StoreFailed
                     ELSE AnswerTo(x.request, x.allowed, call[h].ret.value)
       IN  handler' = [handler EXCEPT ![h].pc = "answered", ![h].answer = answer]
    /\ UNCHANGED <<dsp_auth, since>>

Done(h) ==
    /\ handler[h].pc = "answered"
    /\ handler' = [handler EXCEPT ![h] = Idle]
    /\ since' = [since EXCEPT ![h] = [n \in NodeId |-> {}]]
    /\ UNCHANGED <<store, dsp_auth>>

(* The scheduler's task crawls: one access of an upsert, or a failed one.  *)
Crawl ==
    /\ Store!Step(Crawler)
    /\ Observe
    /\ UNCHANGED <<dsp_auth, handler>>

Next ==
    \/ \E h \in Handler :
        \/ \E request \in HttpRequest : Authorize(h, request)
        \/ Query(h)
        \/ QueryStep(h)
        \/ QueryFails(h)
        \/ Answer(h)
        \/ Done(h)
    \/ Crawl

Spec == Init /\ [][Next]_vars

-----------------------------------------------------------------------------
Document == [participant_id : Participant \union NodeId \union {ConnectorId},
             dataset : SUBSET DatasetId, service : SUBSET ServiceId, catalog : Seq({})]

FederationOK(d) ==
    /\ d \in [participant_id : {ConnectorId}, dataset : SUBSET DatasetId,
              service : SUBSET ServiceId, catalog : [DOMAIN d.catalog -> Document]]
    /\ DOMAIN d.catalog \subseteq Nat
    /\ DOMAIN d.catalog # {} => d.dataset = {} /\ d.service = {}

AnswerOK(request, answer) ==
    \/ answer \in {Unauthorized, StoreFailed}
    \/ request.route = "dataset" /\ answer \in {NotFound, Found(request.id)}
    \/ /\ answer = Found(answer.body)
       /\ \/ request.route = "catalog" /\ answer.body \in Seq(Catalog)
          \/ request.route = "catalog_request" /\ FederationOK(answer.body)

HandlerOK(h) ==
    LET x == handler[h]
    IN  \/ x = Idle
        \/ /\ x = [pc |-> x.pc, request |-> x.request, allowed |-> x.allowed,
                   answer |-> x.answer]
           /\ x.request \in HttpRequest
           /\ x.allowed \in (SUBSET DatasetId) \union {None}
           /\ \/ x.pc \in {"authorized", "querying"} /\ x.answer = None
              \/ x.pc = "answered" /\ AnswerOK(x.request, x.answer)

TypeOK ==
    /\ Store!TypeOK
    /\ dsp_auth \in AuthConfigs
    /\ DOMAIN handler = Handler
    /\ \A h \in Handler : HandlerOK(h)
    /\ since \in [Handler -> [NodeId -> SUBSET SUBSET Catalog]]

Answered(h, route) ==
    /\ handler[h].pc = "answered"
    /\ handler[h].request.route = route
    /\ handler[h].answer.status = 200

Body(h) == handler[h].answer.body

(* The catalogs that were cached at some time of h's query.                *)
Seen(h) == UNION {UNION since[h][n] : n \in NodeId}

(* Those that were cached all the time.                                    *)
Steady(h) == {cat \in Catalog : since[h][cat.origin_node] = {{cat}}}

(* The datasets of a catalog that h's caller may see.                      *)
VisibleTo(h, cat) == Visible(handler[h].allowed, cat.content.datasets)

(* The datasets of an answer, nested or not.                               *)
Served(document) ==
    document.dataset \union
    UNION {document.catalog[i].dataset : i \in DOMAIN document.catalog}

(***************************************************************************)
(* A query visits the graphs one after the other while the crawler         *)
(* replaces them.  Still every entry of an answer is one catalog that was  *)
(* cached during the query, its datasets and services together under its   *)
(* own participant, and every dataset served comes from such a catalog.    *)
(***************************************************************************)
EntriesAreCatalogs ==
    \A h \in Handler :
        /\ Answered(h, "catalog_request") =>
             /\ \A i \in DOMAIN Body(h).catalog :
                   \E cat \in Seen(h) :
                      Body(h).catalog[i] =
                          DspCatalog(ParticipantOf(cat), VisibleTo(h, cat),
                                     cat.content.services, <<>>)
             /\ \A d \in Served(Body(h)) : \E cat \in Seen(h) : d \in VisibleTo(h, cat)
        /\ Answered(h, "dataset") =>
             \E cat \in Seen(h) : Body(h) \in VisibleTo(h, cat)

(***************************************************************************)
(* What was cached all along is served, whatever the crawler does to the   *)
(* other nodes: its visible datasets are in the document, looking one of   *)
(* them up does not answer 404, and GET /catalog lists it.                 *)
(***************************************************************************)
SteadyCatalogsServed ==
    \A h \in Handler : \A cat \in Steady(h) :
        /\ Answered(h, "catalog_request") => VisibleTo(h, cat) \subseteq Served(Body(h))
        /\ handler[h].pc = "answered" /\ handler[h].answer = NotFound =>
              handler[h].request.id \notin VisibleTo(h, cat)
        /\ Answered(h, "catalog") /\ handler[h].request.node \in {None, cat.origin_node} =>
              \E i \in DOMAIN Body(h) : Body(h)[i] = cat

(***************************************************************************)
(* With authorization on, the DSP endpoints serve a caller only datasets   *)
(* its token is configured, or credentialed, to see; without a token, or   *)
(* with one that is not known, nothing.                                    *)
(***************************************************************************)
May(request) ==
    IF request.token \in DOMAIN dsp_auth.catalog_access
    THEN dsp_auth.catalog_access[request.token] ELSE {}

ServedWithinAccess ==
    \A h \in Handler : dsp_auth.mode # "disabled" =>
        /\ Answered(h, "catalog_request") => Served(Body(h)) \subseteq May(handler[h].request)
        /\ Answered(h, "dataset") => Body(h) \in May(handler[h].request)

(***************************************************************************)
(* "A presented token with no entry here sees an empty catalog, not an     *)
(* error": no dataset, no service and no participant.                      *)
(***************************************************************************)
UnknownTokenSeesEmptyCatalog ==
    \A h \in Handler :
        /\ dsp_auth.mode = "bearer"
        /\ Answered(h, "catalog_request")
        /\ handler[h].request.token \notin DOMAIN dsp_auth.catalog_access
        => Body(h) = DspCatalog(ConnectorId, {}, {}, <<>>)
=============================================================================
