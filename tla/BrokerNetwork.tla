---------------------------- MODULE BrokerNetwork ----------------------------
(***************************************************************************)
(* Brokers at work together.  A process starts (`main`), crawls its        *)
(* participants (`spawn_scheduler`, `crawl_once`, `parse_catalog_response`)*)
(* and serves what it has cached (`catalog_request`), to consumers and to  *)
(* other brokers that crawl it, until it crashes and starts anew with      *)
(* nothing: caches live in memory.                                         *)
(*                                                                         *)
(* The other participants (Edge) are external; they offer documents and    *)
(* may change them.  Who requires DCP, edge or broker, calls back at the   *)
(* crawler's own listener before it answers.  What CatalogEndpoints,       *)
(* DcpExchange and Crawler show in detail is one step here: an answer is   *)
(* made from the cache at one moment, an exchange succeeds or fails as     *)
(* part of the request, and cycles follow each other without time.         *)
(***************************************************************************)
EXTENDS ResponseParser

CONSTANTS
    Broker,      \* processes of this code
    Edge,        \* participants of another make
    SampleNode,  \* "sample-participant"
    Sample,      \* the catalog seeded under it
    Networks,    \* who crawls whom, and what there is to crawl
    MaxFaults,   \* bound on requests that fail although the target serves
    MaxCrashes   \* bound on crashes

Node == Broker \union Edge \union {SampleNode}

ASSUME NodesAssumption ==
    /\ IsFiniteSet(Broker \union Edge)
    /\ Broker \intersect Edge = {} /\ SampleNode \notin Broker \union Edge

(* The sample has each service once, and those its datasets name.          *)
ASSUME SampleAssumption ==
    /\ Sample \in ParsedCatalog
    /\ \A i, j \in DOMAIN Sample.data_services :
          Sample.data_services[i].id = Sample.data_services[j].id => i = j
    /\ \A dataset \in ToSet(Sample.datasets) : \A id \in ToSet(dataset.distributions) :
          \E service \in ToSet(Sample.data_services) : service.id = id
ASSUME BoundsAssumption == MaxFaults \in Nat /\ MaxCrashes \in Nat

(***************************************************************************)
(* A network: its brokers, those among them without a crawler              *)
(* configuration, whom the others crawl, the edge participants that        *)
(* require DCP, what a broker with DSP_AUTH_MODE=dcp lets its crawlers see *)
(* (None: no authorization), and the documents each edge participant       *)
(* offers over time.                                                       *)
(***************************************************************************)
ASSUME NetworksAssumption ==
    \A w \in Networks :
        /\ w.brokers \subseteq Broker /\ w.sampled \subseteq w.brokers
        /\ w.gated \subseteq Edge
        /\ \A b \in Broker : w.access[b] = None \/ w.access[b] \subseteq Id
        /\ \A b \in w.brokers \ w.sampled : w.crawls[b] \in Seq(w.brokers \union Edge)
        /\ \A e \in Edge : w.offers[e] \in Seq(Document) /\ w.offers[e] # <<>>

VARIABLES
    network,  \* the network
    version,  \* which of its documents an edge participant offers
    process,  \* "down", "started", or "serving" once the listener is bound
    cache,    \* what each broker has cached for each origin node, or None
    crawl,    \* each broker's scheduler task
    faults,   \* requests that failed for no lasting reason
    crashes   \* crashes so far

vars == <<network, version, process, cache, crawl, faults, crashes>>

(***************************************************************************)
(* A cached catalog.  Lists are kept as sets: brokers that crawl each      *)
(* other repeat a dataset without end, and no property counts.             *)
(***************************************************************************)
Held(catalog) == [datasets |-> ToSet(catalog.datasets), services |-> ToSet(catalog.data_services)]

(* A scheduler's task: idle, or crawling its participant number at.        *)
FirstParticipant == 1
NoTask == [pc |-> "off", at |-> FirstParticipant, document |-> None, body |-> None]
Task == [NoTask EXCEPT !.pc = "crawling"]

Init ==
    /\ network \in Networks
    /\ version = [e \in Edge |-> 1]
    /\ process = [b \in Broker |-> "down"]
    /\ cache = [b \in Broker |-> [n \in Node |-> None]]
    /\ crawl = [b \in Broker |-> NoTask]
    /\ faults = 0
    /\ crashes = 0

-----------------------------------------------------------------------------
(***************************************************************************)
(* main.  With a crawler configuration the cache starts empty and the      *)
(* scheduler is spawned at once; without one a sample is seeded first.     *)
(***************************************************************************)
Start(b) ==
    /\ b \in network.brokers
    /\ process[b] = "down"
    /\ process' = [process EXCEPT ![b] = "started"]
    /\ crawl' = [crawl EXCEPT ![b] = IF b \in network.sampled THEN NoTask ELSE Task]
    /\ UNCHANGED <<network, version, cache, faults, crashes>>

SeedsAnyway(b) == TRUE
Seeds(b) == b \in network.sampled

Seed(b) ==
    /\ process[b] = "started"
    /\ Seeds(b)
    /\ cache[b][SampleNode] = None
    /\ cache' = [cache EXCEPT ![b][SampleNode] = Held(Sample)]
    /\ UNCHANGED <<network, version, process, crawl, faults, crashes>>

(* The seeding is awaited, the crawler's first cycle is not.               *)
ReadyAtOnce(b) == TRUE
Ready(b) == b \in network.sampled => cache[b][SampleNode] # None

Bind(b) ==
    /\ process[b] = "started"
    /\ Ready(b)
    /\ process' = [process EXCEPT ![b] = "serving"]
    /\ UNCHANGED <<network, version, cache, crawl, faults, crashes>>

(* The process ends, at any point; nothing is persisted.                   *)
Crash(b) ==
    /\ process[b] # "down"
    /\ crashes < MaxCrashes
    /\ process' = [process EXCEPT ![b] = "down"]
    /\ cache' = [cache EXCEPT ![b] = [n \in Node |-> None]]
    /\ crawl' = [crawl EXCEPT ![b] = NoTask]
    /\ crashes' = crashes + 1
    /\ UNCHANGED <<network, version, faults>>

-----------------------------------------------------------------------------
(***************************************************************************)
(* catalog_request: one flat document when at most one node is cached,     *)
(* else a nested one for each node with a dataset.  They come in the order *)
(* of catalog ids, which are fresh with every answer of a broker: in any.  *)
(***************************************************************************)
DspDataService(s) == [at_id |-> s.id, id |-> Absent, url |-> s.endpoint_url]

DspDataset(d) ==
    [at_id |-> d.id, id |-> Absent,
     distribution |-> [i \in DOMAIN d.distributions |->
                           [kind |-> "string", id |-> d.distributions[i]]]]

DspCatalog(held, nested) ==
    [service |-> SetToSeq({DspDataService(s) : s \in held.services}),
     dataset |-> SetToSeq({DspDataset(d) : d \in held.datasets}),
     catalog |-> nested]

NothingHeld == [datasets |-> {}, services |-> {}]

(* Services are not filtered.                                              *)
VisibleAll(b, held) == held
Visible(b, held) ==
    IF network.access[b] = None THEN held
    ELSE [held EXCEPT !.datasets = {d \in @ : d.id \in network.access[b]}]

Answers(b) ==
    LET cached == {n \in Node : cache[b][n] # None}
        shown == [n \in cached |-> Visible(b, cache[b][n])]
        listed == {n \in cached : shown[n].datasets # {}}
    IN  IF Cardinality(cached) <= 1
        THEN {DspCatalog(IF cached = {} THEN NothingHeld ELSE shown[CHOOSE n \in cached : TRUE],
                         <<>>)}
        ELSE {DspCatalog(NothingHeld, [i \in DOMAIN order |-> DspCatalog(shown[order[i]], <<>>)])
                  : order \in SetToSeqs(listed)}

-----------------------------------------------------------------------------
Participants(b) == network.crawls[b]
Current(b) == Participants(b)[crawl[b].at]
MoreParticipants(b) == crawl[b].at <= Len(Participants(b))

(* The next tick, once the cycle is over.                                  *)
Tick(b) ==
    /\ crawl[b].pc = "crawling"
    /\ ~MoreParticipants(b)
    /\ crawl' = [crawl EXCEPT ![b] = Task]
    /\ UNCHANGED <<network, version, process, cache, faults, crashes>>

(* Whether n answers a request of b's.  DCP makes n call back.             *)
RequiresDcp(n) == IF n \in Broker THEN network.access[n] # None ELSE n \in network.gated

Reachable(b, n) ==
    /\ n \in Broker => process[n] = "serving"
    /\ RequiresDcp(n) => process[b] = "serving"

Documents(n) == IF n \in Broker THEN Answers(n) ELSE {network.offers[n][version[n]]}

(* crawl_one: the answer is parsed and the upsert begins.                  *)
Fetch(b) ==
    /\ crawl[b].pc = "crawling"
    /\ MoreParticipants(b)
    /\ Reachable(b, Current(b))
    /\ \E document \in Documents(Current(b)) :
          crawl' = [crawl EXCEPT ![b].pc = "removing",
                                 ![b].document = document,
                                 ![b].body = ParseCatalogResponse(document)]
    /\ UNCHANGED <<network, version, process, cache, faults, crashes>>

(* A failed request costs the participant its turn in this cycle only.     *)
StopAfterFailure(task) == NoTask
SkipAfterFailure(task) == [task EXCEPT !.at = @ + 2]
AfterFailure(task) == [task EXCEPT !.at = @ + 1]

FetchFails(b) ==
    /\ crawl[b].pc = "crawling"
    /\ MoreParticipants(b)
    /\ IF Reachable(b, Current(b))
       THEN faults < MaxFaults /\ faults' = faults + 1
       ELSE UNCHANGED faults
    /\ crawl' = [crawl EXCEPT ![b] = AfterFailure(@)]
    /\ UNCHANGED <<network, version, process, cache, crashes>>

(* The two accesses of the Oxigraph cache's upsert.                        *)
RemovePrior(b) ==
    /\ crawl[b].pc = "removing"
    /\ cache' = [cache EXCEPT ![b][Current(b)] = None]
    /\ crawl' = [crawl EXCEPT ![b].pc = "inserting"]
    /\ UNCHANGED <<network, version, process, faults, crashes>>

InsertNew(b) ==
    /\ crawl[b].pc = "inserting"
    /\ cache' = [cache EXCEPT ![b][Current(b)] = Held(crawl[b].body)]
    /\ crawl' = [crawl EXCEPT ![b] = [Task EXCEPT !.at = crawl[b].at + 1]]
    /\ UNCHANGED <<network, version, process, faults, crashes>>

(* An edge participant offers something else from now on.                  *)
Change(e) ==
    /\ version[e] < Len(network.offers[e])
    /\ version' = [version EXCEPT ![e] = @ + 1]
    /\ UNCHANGED <<network, process, cache, crawl, faults, crashes>>

-----------------------------------------------------------------------------
CrawlStep(b) == Tick(b) \/ Fetch(b) \/ FetchFails(b) \/ RemovePrior(b) \/ InsertNew(b)

Next ==
    \/ \E b \in Broker : Start(b) \/ Seed(b) \/ Bind(b) \/ Crash(b) \/ CrawlStep(b)
    \/ \E e \in Edge : Change(e)

Spec == Init /\ [][Next]_vars

(***************************************************************************)
(* A process that is down is started again and comes up; a scheduler's     *)
(* task goes on, for its requests are answered or fail.  Crawler shows     *)
(* what becomes of the others when one is not.                             *)
(***************************************************************************)
FairSpec ==
    /\ Spec
    /\ \A b \in Broker :
          WF_vars(Start(b)) /\ WF_vars(Seed(b)) /\ WF_vars(Bind(b)) /\ WF_vars(CrawlStep(b))

-----------------------------------------------------------------------------
TaskOK(b) ==
    /\ crawl[b].pc \in {"off", "crawling", "removing", "inserting"}
    /\ crawl[b].pc # "off" => crawl[b].at \in 1 .. Len(Participants(b)) + 1
    /\ IF crawl[b].pc \in {"removing", "inserting"}
       THEN crawl[b].body \in ParsedCatalog
       ELSE crawl[b].document = None /\ crawl[b].body = None

TypeOK ==
    /\ network \in Networks
    /\ \A e \in Edge : version[e] \in DOMAIN network.offers[e]
    /\ process \in [Broker -> {"down", "started", "serving"}]
    /\ \A b \in Broker :
          /\ TaskOK(b)
          /\ \A n \in Node :
                cache[b][n] # None =>
                    /\ cache[b][n].datasets \subseteq Dataset
                    /\ cache[b][n].services \subseteq DataService
    /\ faults \in 0 .. MaxFaults
    /\ crashes \in 0 .. MaxCrashes

(* The brokers that hold an answer just parsed.                            *)
Parsed == {b \in Broker : crawl[b].pc \in {"removing", "inserting"}}

(***************************************************************************)
(* No dataset of an answer is lost, however deep it is nested, and none is *)
(* made up: each one with an id is kept, in the document's order, with the *)
(* service ids of its distributions.                                       *)
(***************************************************************************)
EveryDatasetKept == \A b \in Parsed : HoldsEveryDataset(crawl[b].body, crawl[b].document)

(***************************************************************************)
(* A service mentioned more than once, in `service`, in place of an        *)
(* accessService or in a nested catalog, is kept once, as first mentioned. *)
(***************************************************************************)
FirstServiceWins == \A b \in Parsed : HoldsFirstServices(crawl[b].body, crawl[b].document)

(* What a broker crawls, what those crawl, and so on, with itself.         *)
ClosedUnderCrawling(nodes) ==
    \A c \in nodes \intersect Broker : ToSet(Participants(c)) \subseteq nodes

Upstream(b) ==
    {n \in Node : \A nodes \in SUBSET Node : b \in nodes /\ ClosedUnderCrawling(nodes) => n \in nodes}

Circular ==
    \E b \in network.brokers :
        \E c \in ToSet(Participants(b)) \intersect Broker : b \in Upstream(c)

(* What there is to list in the end: documents up to version v, the sample.*)
Offered(n, v) ==
    IF n \in Edge THEN Held(ParseCatalogResponse(network.offers[n][v]))
    ELSE IF n \in network.sampled THEN Held(Sample) ELSE NothingHeld

Within(held, sources) ==
    /\ held.datasets \subseteq UNION {s.datasets : s \in sources}
    /\ held.services \subseteq UNION {s.services : s \in sources}

(* Whatever b has cached is among the sources.                             *)
ListsWithin(b, sources) ==
    \A n \in Node : cache[b][n] # None => Within(cache[b][n], sources)

(***************************************************************************)
(* However long the chain of brokers, and whoever crashed, a broker lists  *)
(* only what some participant upstream has offered, or a broker upstream   *)
(* was seeded with for want of a crawler; the sample never mixes with what *)
(* was crawled.                                                            *)
(***************************************************************************)
NothingInvented ==
    \A b \in network.brokers :
        ListsWithin(b, UNION {{Offered(n, v) : v \in IF n \in Edge THEN 1 .. version[n] ELSE {1}}
                                  : n \in Upstream(b)})

(***************************************************************************)
(* A dataset's service travels with it: when every document names only     *)
(* services it has, so does every cached catalog, after parsing, merging   *)
(* and re-serving over any number of brokers.                              *)
(***************************************************************************)
Resolves(held) ==
    \A d \in held.datasets : \A i \in DOMAIN d.distributions :
        d.distributions[i] = NoText \/ \E s \in held.services : s.id = d.distributions[i]

Closed(document) ==
    LET entries == ToSet(Entries(document))
        ids == {s.id : s \in UNION {ServicesSaid(entry) : entry \in entries}}
    IN  \A entry \in entries : \A d \in DatasetsSaid(entry) : \A i \in DOMAIN d.distributions :
            d.distributions[i] \in ids \union {NoText}

ReferencesResolve ==
    (\A e \in Edge : \A v \in DOMAIN network.offers[e] : Closed(network.offers[e][v])) =>
        \A b \in network.brokers : \A n \in Node :
            cache[b][n] # None => Resolves(cache[b][n])

(***************************************************************************)
(* Access is kept on the way: who crawls a broker that requires DCP caches *)
(* none of the datasets its credential does not list, and so cannot hand   *)
(* them on.                                                                *)
(***************************************************************************)
CrawledWithinAccess ==
    \A b, c \in network.brokers :
        cache[b][c] # None /\ network.access[c] # None =>
            \A d \in cache[b][c].datasets : d.id \in network.access[c]

(***************************************************************************)
(* A broker without a crawler "has something real to serve" from its first *)
(* answer on, after a restart too: who crawls it never caches less than it *)
(* may see.                                                                *)
(***************************************************************************)
SampleServedWhole ==
    \A b \in network.brokers : \A c \in network.sampled :
        cache[b][c] # None => cache[b][c] = Visible(c, Held(Sample))

(***************************************************************************)
(* Again and again each participant's catalog is cached as it is offered,  *)
(* although the first cycle may find a listener not yet bound, requests    *)
(* fail, and a restart loses all.                                          *)
(***************************************************************************)
IsCrawled(b, n) ==
    IF n \in Edge THEN cache[b][n] = Offered(n, version[n]) ELSE cache[b][n] # None

ParticipantsCrawled ==
    \A b \in Broker : \A n \in Broker \union Edge :
        []<>(b \in network.brokers /\ n \in ToSet(Participants(b)) => IsCrawled(b, n))

(***************************************************************************)
(* What a participant has withdrawn disappears from all brokers for good,  *)
(* also from those that know it by way of others, unless brokers crawl one *)
(* another in a circle, where each would go on handing it to the next.     *)
(***************************************************************************)
OnlyWhatIsOffered ==
    \A b \in network.brokers :
        ListsWithin(b, {Offered(n, IF n \in Edge THEN version[n] ELSE 1) : n \in Upstream(b)})

WithdrawnGoes == ~Circular => <>[]OnlyWhatIsOffered
=============================================================================
