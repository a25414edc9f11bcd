# A TLA+ model of federated-catalog-rs

federated-catalog-rs is a federated catalog broker for dataspaces: it crawls the
catalogs of a configured list of participants, keeps one catalog per participant
in a cache, and serves the union over the Dataspace Protocol (DSP), optionally to
authenticated callers only. This directory holds TLA+ models of it, TLC
configurations that check them on small instances, and theorems about them that
TLAPS checks for every value of the constants.

## 1. The system

Five Rust crates under `crates/`, one process (`http-api`'s `main`) on a
multi-threaded tokio runtime.

| component | state | operations | who calls it |
|---|---|---|---|
| `catalog-core` | none (types) | `Catalog`, `Dataset`, `DataService`, `NodeId` | all |
| `rdf-store`, trait `CatalogCache` | one catalog per origin node | `upsert`, `query` (filter, sort, page), `delete` | crawler writes, HTTP handlers query; nothing deletes |
| `rdf-store`, `InMemoryCatalogCache` | `RwLock<HashMap>` | the trait's, each under one lock | default cache, seeded with a sample |
| `rdf-store`, `OxigraphCatalogCache` | an RDF store, one named graph per node, one JSON triple in each | the trait's, each as several store accesses | the cache when a crawler runs |
| `crawler`, configuration | the file | parse, `validate` | `main`, at start |
| `crawler`, scheduler and cycle | interval timer, the cycle's summary | `spawn_scheduler`, `crawl_once`, `crawl_one` | spawned once by `main`, never stopped |
| `crawler`, response parser | none | `parse_catalog_response`, `collect_datasets_and_services` | `crawl_one` |
| `http-api`, catalog endpoints | shared `AppState` | `catalog_request`, `get_dsp_dataset`, `get_catalog`, DID documents, presentation query | HTTP callers |
| `http-api`, caller access | the access map, or the DCP configuration | `authorize`, `visible_datasets` | the endpoints |
| `http-api`, start-up | which cache, sample or crawler | `main`, `seed_sample_catalog`, bind | - |
| `http-api`, DCP verifier | none between requests | `verify_dcp_bearer_token`: resolve DIDs, verify the token, fetch and verify a presentation, union what the credentials grant | `authorize` |
| `dcp-core` | the holder's key, fresh at each start | mint a self-issued token, answer a presentation query, resolve `did:web` | crawler and DCP verifier |

They interact by calls within a process (`crawl_once` to the cache and the holder,
the endpoints to the cache and the verifier), by shared state (the cache, between
one writing task and many reading ones) and by HTTP (the crawler to participants,
which may call back for a DID document and a presentation; the verifier to the
holder of a token and to credential issuers). Nothing is persisted: a restart
begins with an empty cache and a new key.

What is hard about it, and what makes each part correct:

- **The caches.** Calls interleave on several threads. A query should answer from
  the cache as it was at one moment, an upsert replace a catalog wholesale, and a
  failed call change nothing. The in-memory backend holds a lock; the Oxigraph
  backend makes two store accesses per upsert and one per graph in a query, with
  nothing held in between.
- **The crawl cycle.** Any participant may fail in one of several ways, or be
  silent. The others must get their turn, the summary must add up, a failed crawl
  must leave the old catalog in place, and cycles must neither overlap nor be lost
  when one takes longer than the interval.
- **The parser.** Services are deduplicated by id across three places they may
  appear in, datasets are not; nested catalogs are flattened.
- **The network.** A crawler starts before its own listener is bound, so a participant
  that calls back finds nobody at first; a restart loses the cache; a broker's answer is
  another broker's input. What is listed must stay within what is offered, keep its services, and go
  when it is withdrawn.
- **The endpoints.** The answer's shape depends on how many nodes the cache holds
  at that moment; what a caller sees depends on access computed before.
- **The DCP exchange.** Three parties, up to a dozen messages, tokens and
  credentials that expire meanwhile, keys that change with a restart.

`PROJECT.json` lists the hazards, each at its line, with the properties that cover
it or the reason why none does yet.

## 2. Plan

The caches come first, because everything the broker serves passes through them
while two kinds of task touch them; then the crawler, the only writer; then what
reads them; then the protocol with other parties.

| order | module | composes | state |
|---|---|---|---|
| 1 | `Catalogs`, `CatalogCache` | - | done |
| 2 | `InMemoryCatalogCache`, `OxigraphCatalogCache` | refine `CatalogCache` | done |
| 3 | `Crawler` | sees the cache through its trait | done |
| 4 | `DcpExchange` | `dcp-core` holder, verifier, issuers | done |
| 5 | `CatalogEndpoints` | `OxigraphCatalogCache` with the crawler's writes | done |
| 6 | `ResponseParser` | pure: `parse_catalog_response` against a reference definition | done |
| 7 | `BrokerNetwork` | start-up, crawl cycle, parser and `catalog_request` of several brokers | done |

Abstract specifications: `CatalogCache` (an atomic map) for both backends, the reference
definitions of `ResponseParser` for the parser. What the endpoints and the exchange promise
is stated as invariants over history variables: an answer from catalogs cached during the request, a decision
between what was valid when the token came and what is valid at the end.

Each component's theorems are in a module of their own beside it, `<component>_proofs`
(section 5): every invariant and every action property that a run checks is a theorem; liveness is not.

## 3. The modules

`Catalogs` holds the data and the query algebra: a catalog is an id, an origin
node and an opaque content; ids are numbers because results are sorted by them
(`results.sort_by(|a, b| a.id.cmp(&b.id))`), nodes and contents are only compared.
`Answers(S, q)` is the set of lists the code may return for a query `q` when `S`
is stored: the sort is by id alone over a list in hash order, so equal ids come in
any order. `Page` is `skip(offset).take(limit)`.

`CatalogCache` is what the trait promises: `Invoke`, then one atomic `Upsert`,
`Query` or `Delete` or a `Fail` without effect, then `Return`.

`InMemoryCatalogCache` is `InMemoryCatalogCache` in `rdf-store/src/lib.rs`.
`graphs` is the map, `waiting` the FIFO queue of tokio's `RwLock`, `call` where each
client is.

| action | code |
|---|---|
| `Invoke` | a method is called and reaches `.read().await` or `.write().await` |
| `Grant` | the lock is acquired; the guard lives until the method returns |
| `Upsert`, `Delete` | `graphs.insert`, `graphs.remove(..).is_some()` |
| `Visit` | the filter looks at one more entry of `graphs.values()` |
| `Answer` | sort, skip, take |
| `Return` | the method returns and drops its guard |

`OxigraphCatalogCache` is the persistent backend. Its methods are `async` but never
await: each makes several accesses to `GraphStore`, each atomic, on whichever worker
thread runs its task. So an action is one access: `RemovePrior` then `InsertNew` for
`upsert`; `NamedGraphs`, one `LoadGraph` per graph and `Answer` for `query`;
`HasSubject` then `RemoveSubject` for `delete`; `Fail` is an access that returns an
error, which `?` passes on at once. `quads` are the triples of each named graph,
`graph_names` the names the store lists: an emptied graph keeps its name. Two
variables are history, read by no guard: `confirmed` (what the last completed write left
in a graph) and `steady` (which graphs were never empty since a client's call).
`GraphStore` is outside the repository (a submodule); it is modelled from its use and
the comments there, and marked external in the map.

`Crawler` is `ParticipantsConfig::validate`, `spawn_scheduler`, `crawl_once` and
`crawl_one`, one sequential task, and around it time (`Advance`) and the participants
(`FetchFails`, `FetchSucceeds`). `pc` is the await point the task is at: the
timer's tick (`waiting`), the HTTP request (`awaiting`), the cache's upsert
(`caching`). `at` is the loop's position and `summary` the `CrawlSummary`; the history
variables `before` and `fetched` remember the cache at the start of the cycle and what
each participant answered. The cache appears as one function from participant to
catalog because the crawler is the only writer: an upsert succeeds or fails, and a failing
one may have lost the old catalog, which is what `OxigraphCatalogCache` shows of it.
The configuration is chosen at `Init` among whole files; `Load` refuses the inconsistent
ones. What `parse_catalog_response` makes of a body is an opaque content here: it always
succeeds on JSON, and `ResponseParser` says what it is.

`DcpExchange` is one exchange per holder: `mint_self_issued_token` and
`answer_presentation_query` of the holder, `verify_dcp_bearer_token` of the verifier, and
the DID document each serves. The state of an exchange is the verifier's local variables,
and `pc` the call it waits for.

| action | code |
|---|---|
| `Present` | the holder signs T1 and sends its request |
| `ServeHolderDid`, `ServeVerifierDid` | a host answers the GET of its DID document with its current key |
| `CheckToken` | signature, audience, expiry of T1; T3 is signed and the query sent |
| `AnswerQuery` | the holder checks T3 and signs a presentation, or answers 401 |
| `CheckPresentation` | checked with the key fetched before the query |
| `CheckCredential` | one turn of the loop; after the last credential, the decision |
| `CallFails` | a call errs, or its answer is no success |
| `RestartHolder`, `RestartVerifier` | a new key under the old kid |
| `Advance` | the clock, one for all |

A key is a number, a signature the key it was made with, and it verifies against that
key only. Every holder and wallet is fixed at `Init`. `begun`, `ended` and `restarted` are history. A restarted
verifier forgets its exchanges. The code holds no timeout here either: an exchange whose holder or
issuer stays silent never ends, and nothing in the model makes it.

`CatalogEndpoints` instantiates `OxigraphCatalogCache` as `Store`, with the crawler as the client
that upserts and the request handlers as clients that query. `Authorize` is
`authorize` for the three modes (DCP verification is a refusal or any part of what the
caller's credentials list, which is what `DcpExchange` shows of it), `Query`,
`QueryStep` and `Answer` are the call of `cache.query` and what the handler makes of its
result, `Crawl` is any store access of the crawler. That every behaviour of the process is one
of `Store!Spec` is a theorem (`RefinesStore`). `CatalogDocument` is the flat or nested document, `AnswerTo` the
three routes. `since` is history: what each graph has held since a handler's query began.

`ResponseParser` is `parse_catalog_response`, `collect_datasets_and_services` and
`parse_data_service` as operators on documents. A document is a record of the arrays the
parser reads (`service`, `dataset`, `catalog`); an object's `@id` and `id` are each a
string, absent, or no string, because `get("@id").or_else(..).and_then(as_str)` tells the
three apart: an `@id` that is no string hides the `id` beside it. Each loop of the code is a `ForEach` over functions from
catalogs to catalogs, one per turn: a document's own services, then its datasets with the services given in place, then
its nested catalogs. The recursion of `collect_datasets_and_services` is the function `CollectTo` of the depth a document nests to. Depth is
bounded by `MaxDepth`: before the parser sees a body, `response.json()` has read it, and serde_json refuses what
nests deeper than its recursion limit.
Against the parser stand `DatasetsIn` and `ServicesIn`, the lists of all that a document says, and
`DatasetsSaid` and `ServicesSaid`, what one entry of it says, as sets. Left
out are the catalog's own id and participant id, a dataset's format and properties, a service's description.

`BrokerNetwork` puts processes of this code, and participants of another make, into a
network. Of a broker it models `main` (`Start`, `Seed`, `Bind`), the scheduler's task
(`Tick`, `Fetch`, `FetchFails`, `RemovePrior`, `InsertNew`) and, as `Answers`, the document
`catalog_request` composes, which the next broker's `Fetch` hands to
`ParseCatalogResponse`.

| action | code |
|---|---|
| `Start` | `main` up to the cache; with a configuration the scheduler is spawned here |
| `Seed` | `seed_sample_catalog`, awaited, when `CRAWLER_CONFIG_PATH` is unset |
| `Bind` | the listener is bound: the process answers from now on |
| `Crash` | the process ends anywhere; cache and task are gone |
| `Tick` | the cycle is over and the next begins |
| `Fetch`, `FetchFails` | `crawl_one`: the target answers, or cannot be reached, or fails |
| `RemovePrior`, `InsertNew` | the two store accesses of `upsert` |
| `Change` | a participant offers its next document |

A target that requires DCP, a participant or a broker in `DSP_AUTH_MODE=dcp`,
answers only when the crawler's own process is `serving`, because it calls back the holder routes of that
listener; `access` is what it then lets the crawler see. Nested entries come in any order: they are sorted by
catalog id, and a broker's answers get a fresh one each. An answer is made from the cache at one
instant; what interleaving does within a query is `CatalogEndpoints`' subject. Cached lists are kept as sets, since
two brokers that crawl each other repeat datasets in ever longer lists.

Some operators exist only as faulty variants of their neighbour, such as
`GrantBarging` (a reader may pass a waiting writer), `FirstAccessInsertOnly` (an
upsert that forgets to remove), `NextDeadlineDelay` (another missed-tick policy) or
`AbortAfterFailure` (the loop stops at a failure). No specification uses them: each
stands for a mistake that a property of its module must notice when it takes the place of the
operator below it, and `PROJECT.json` pairs them with the property.

## 4. The runs

| run | specification | states | what it shows |
|---|---|---|---|
| `in_memory` | `InMemoryCatalogCache!FairSpec` | 7 thousand | the locked map implements `CatalogCache`, a walk is a snapshot, no call starves |
| `oxigraph_one_writer` | `OxigraphCatalogCache!Spec`, storage errors | 47 thousand | with the crawler as only writer graphs hold at most one triple, never a superseded one; a query over all graphs reports every node cached throughout |
| `oxigraph_exclusive` | `OxigraphCatalogCache!ExclusiveSpec`, no errors | 260 thousand | two clients that make any call, but none beside a write: the backend implements `CatalogCache`, and graphs keep the last write, although queries overlap and both clients write one node |
| `crawler` | `Crawler!FairSpec`, nobody silent | 82 thousand | a cycle attempts all, accounts for all, changes the cache by successful crawls only, ends; cycles follow the interval |
| `dcp_exchange` | `DcpExchange!Spec` | 176 thousand | an accepted token is granted what credentials valid when it came list, and at least what those still valid at the end list; never without a credential that was valid, nor an empty access because one expired on the way; each refusal has its cause: without a restart of the holder no signature is refused, before its lifetime no token |
| `endpoints` | `CatalogEndpoints!Spec`, storage errors | 586 thousand | entries are whole catalogs cached during the query, under their own participant; what was cached throughout is served by all three routes; nobody is served a dataset beyond its access |
| `broker_network` | `BrokerNetwork!FairSpec` | 141 thousand | parsing keeps every dataset and the first mention of every service; brokers list only what was offered upstream and what they may see, and with it the services it names; each participant is cached as it is offered again and again, after failed first cycles, faults and restarts; what is withdrawn disappears everywhere, unless brokers crawl each other in a circle |
| `oxigraph_concurrent_read` | one writer, one reader | violation | a reader between `RemovePrior` and `InsertNew` finds no catalog of a cached node |
| `oxigraph_failed_upsert` | one client, storage errors | violation | a failed insert has lost the old catalog |
| `crawler_silent_participant` | `Crawler!FairSpec`, `p1` silent | violation | a participant that never answers stops the cycle for all |
| `dcp_expired_mixture` | `DcpExchange!Spec` | violation | "all presented credentials are expired" is said of a wallet with a valid one |
| `endpoints_unknown_token` | `CatalogEndpoints!Spec` | violation | a caller that sees nothing is sent the services of the only cached node |

**Bounds.** Two nodes are enough to distinguish the node a call is about from
another. Two contents distinguish an old version from a new one. Ids are `{1, 2}` where
sorting and equal ids matter, `{1}` where a run is about interleaving. Two clients
suffice in the caches: a client sees of the others only what they do to the store, and
the three-client case that matters for the lock, a reader passing a waiting
writer, needs only a reader that calls again and again. Queries are all, one node, and the
second page of size one. The crawler gets six files: a mixed one, one with the same id
at both ends of the list, interval zero, no participants, and two that validation
refuses. `MaxTime` is 3 (2 in the silent run): with intervals of 1 and 2 seconds a cycle can miss
deadlines, catch up, and wait again. The exchange has one holder, because exchanges of two share only the clock
and the verifier's key; nine configurations (credentials that expire during the run, in either order; one that is
unsound or of another type; none; another audience), a clock up to 4 with tokens that live 2, and up to two restarts of each party, so that a
credential, T1 and T3 can each expire between any two steps. The endpoints have one handler (handlers do not write), two nodes, of which one has two versions
with different datasets and services and the other no participant id, a dataset both list, a known and an unknown token. No symmetry is declared: liveness and refinement are checked on the same runs.
The network run has 53 networks: one broker with one participant for each of 48 documents, a product of
service lists, dataset lists and nested catalogs that contains each form of id (under `@id`, under `id`,
hidden, missing), each form of accessService, ids that meet again in another place or on another level, and
two levels of nesting; a chain of two brokers whose first has two participants, one of which requires DCP and changes its offer,
and which share a service id; the same chain with a broker in the middle that shows its crawler one dataset only; a broker that crawls one that serves the sample, open or showing it one of its two datasets;
two that crawl each other. Documents nest two levels deep at most (`MaxDepth`), the least depth at which a nested catalog has one itself. One fault and two crashes are enough for a request to fail in each cycle that
matters, and for each of two brokers to be restarted, or one of them twice.
Deadlock is checked everywhere; `Stopped` in `Crawler` lets a refused process and the end of the modelled time stutter.

**Fairness.** In `InMemoryCatalogCache`, weak fairness of each client's progress: tokio
polls a task that can go on, and wakes the head of the lock's queue. No fairness makes a
client call. In `Crawler`, weak fairness of the task, and of the answer of the
participants that are not `Silent`: their TCP connection delivers an answer or breaks. Time
is not fair: no property needs it to pass. The Oxigraph backend and the endpoints have no liveness property, because their methods never wait for
anything but the DCP exchange, and `query` walks a list it has collected. `DcpExchange` has none because the only fairness that would
give one, of hosts that answer or break the connection, is not this code's to give: its client has no timeout. In `BrokerNetwork`, weak fairness of starting,
seeding and binding (a process that is down is started again by whoever runs it) and of a task's next
step (a request is answered or fails; silence is `Crawler`'s subject). Crashes, faults and changes are bounded, so
that the properties speak of what happens once they are over.

`WithdrawnGoes` excludes circles because it fails there: with `a` crawling `b` and `b` crawling `a`,
a dataset its participant no longer offers is handed back and forth for good.

## 5. The proofs

The theorems hold for every value of the constants, under the assumptions the modules name:
catalog ids are naturals, `None` is not a value, clients make calls of the trait, and
the verifier is no holder.

Beside them, the contents of catalogs are records of datasets and services, `None` is no token, participant or
set of datasets, configurations have the declared shape, and the bounds are naturals. Of the network: there are
finitely many brokers and participants, disjoint; the file of a broker names brokers of the network and participants; documents are documents;
and the seeded sample is one catalog whose services have distinct ids and include those its datasets name, as
`seed_sample_catalog` builds it. TLC evaluates every assumption in the runs.

`Catalogs_proofs` types the algebra: a page of a sorted list of catalogs is a
list of the catalogs selected (`AnswersSelected`), so an answer is a legal reply. And it is complete: a
list without repetition as long as a finite set reaches each member
(`SortedCovers`, a fact on cardinalities, no induction), so a query without a page answers with all it selects (`WholeAnswer`).

`InMemoryCatalogCache_proofs` proves that the backend implements `CatalogCache`
(`Implements`). The inductive invariant `IInv` is the type invariant with, besides,
`QueueOK` (the queue holds each waiting client once and nobody else),
`NothingWalked` (a client in the queue starts its walk from nothing), `Exclusive` (who holds
the lock to write holds it alone) and `WalkIsSnapshot`. Each is needed: that the walk is a
snapshot rests on exclusion; exclusion is kept by `Grant`, whose client must not
occur in the queue a second time. The refinement then maps `Grant` and `Visit` to
stuttering and every other action to the abstract one of its name; for `Answer`,
`WalkIsSnapshot` says that what was found is what is cached at that instant. `TypeCorrect` and
`Snapshot` are the two properties among its conjuncts.

`OxigraphCatalogCache_proofs` proves `TypeCorrect` without any assumption on the clients,
and, when no two clients write the same node (`OneWriterPerNode`, which the deployment
guarantees: the scheduler's task is the only writer), `OneTriple`, `NeverStale`
and, with a store that does not fail, `LastWrite`. The invariant relates the position of the
writer to the graph: an insert about to happen finds the graph empty, a drop about
to happen finds its triple, a graph never holds anything but the confirmed catalog, and it
is empty or confirmed outside of a write. None of the three properties is inductive alone: a state with a second triple
pending would satisfy them and be left by one step.
Without the assumption two upserts of one node may both remove before either inserts, and leave two triples; and two deletes
may both find the triple before either removes it, and both answer `true`. The trait asks implementations to be
"safe to share across crawl tasks" (`rdf-store/src/lib.rs:119`); this backend is so only for tasks that write different nodes. The broker has one
writing task and never calls `delete`, so nothing is checked of what `delete` answers beside another writer.

`SteadyReported` (`SteadyNodesReported`) needs no assumption at all, neither on writers nor on errors.
`QueryInv` says that every graph with a triple is listed and holds catalogs of its own node (`StoreInv`), that a
node with a catalog ever since the call began is still to be loaded or already
found (`Covered`), and that the answer names it (`Reported`, from `WholeAnswer`). The property is only the last
of these.

`ExclusiveImplements` is the promise of `rdf-store/src/lib.rs` that "the two backends are
behavior-equivalent", with the conditions it needs: no storage error, and nothing that runs beside a write
(`ExclusiveSpec`, every step of which leaves `WritesExclusive`). Queries may overlap and every client may write every node.
An upsert takes effect when it removes the prior triple (`AbstractGraphs` then shows the new catalog), a query when it has
loaded its last graph. The invariant `ExclusiveInv` adds `LoadedInv` to the above: as no write
can begin meanwhile, what a query has found is what the graphs it need not load any more hold now, so
its last load sees one state of the cache. Each action has its lemma
(`RemovePriorRefines` and so on). Both conditions are necessary: `oxigraph_concurrent_read` and
`oxigraph_failed_upsert` show what happens without the one and without the other. `ExclusiveLastWrite` follows from the same invariant.

`Crawler_proofs` proves all six invariants of the crawler for any file, any number of participants and any
stretch of time. They speak of a cycle that has ended, so `CrawlInv` says what holds at each turn: the
counters and `fetched` are as far as `at` and `pc` say (`CountsInv`, for `EveryTurnAccounted`); the listed failures are those of earlier turns, in their order
(`FailuresInv`, where a `position` is carried from turn to turn); a participant without a fetch in this cycle
has its old catalog (`KeptInv`, for `FailuresLeaveCatalogs`), one whose last fetch was cached has that (`CachedInv`, for `FreshCatalogs`, which must look
at all turns of an id, because a file may list one twice); a task that runs has a validated file (`ConfigInv`, for `ValidatedConfigSuffices`); and `next_tick`
is the deadline after the last cycle begun (`ClockInv`, for `CyclesFollowClock`). From `ConfigInv` follows `RequestGoesOut`: the configuration errors of `crawl_one` never
occur, on which the counting of attempts rests in turn.

`CatalogEndpoints_proofs` first shows that the process uses the cache as a store is meant to be used. `RefinesStore` says that
every step of the endpoints is a step of `OxigraphCatalogCache` or leaves the store alone. The theorems of the store then hold of
its instance here (`StoreProofs`; the lemmas `Same...` say that the two instances of its operators are one), and with
a single client that upserts, `OneTriple` and `NeverStale` become theorems of the deployed process (`CrawlerWritesAlone`). `EndpointInv` holds, for each
handler: it is querying exactly while its call is under way, and with its own query (`Linked`); what the call has found
was cached since it began, and what was cached all along is still to be loaded, found, or in the reply (`Progress`); behind `authorize` it
knows a limit no larger than its token's (`Limited`). From these follow, when the handler answers,
`EntriesOf`, `SteadyOf` and `AccessOf`, from what each shape of answer makes of a list of catalogs of any length. While the query runs, the crawler goes
on writing: then what `since` has seen grows and what is steady shrinks (`CrawlKeeps`).
`WholeEntries`, `SteadyServed` and `AccessRespected` are `EntriesAreCatalogs`, `SteadyCatalogsServed` and `ServedWithinAccess`. TLC checked `EndpointInv` on
the endpoints' instance before it was proved.

`DcpExchange_proofs` proves `TypeCorrect`, `ExactAccess`, `ExpiredRefused`, `GenuineEmptyGrant` and
`ExplainedRefusals` for any number of holders, wallets of any length, any lifetime and any
number of restarts. The properties speak of a finished exchange, so each of them needs to know
how it got there; the invariant says, of every holder's exchange, that
its times are not ahead of the clock (`ClockOK`), that inside the loop what has been collected was listed by a
credential valid at the beginning and contains all that the credentials behind the
index list if they are valid even now, or all that they list while none was found expired (`LoopOK`), that what a
running exchange holds was signed and published under one key unless the holder restarted,
the verifier's own restart ending the exchange (`KeysOK`), and that an
expired credential is remembered only when there is one (`ExpiryOK`). Time and the steps of other
holders preserve it (`Frame`, where the clock's only effect is to make fewer credentials
valid), a refusal preserves it when it is explained (`Refusing`), and each action has its lemma.
The equality of `repackaged.key` and the published key is what shows that
the holder never answers a live query with 401 but for age, although documents name keys by a fixed id.

`ResponseParser_proofs` shows what the parser computes for documents of any width and depth. The library's induction theorems are
out of the provers' reach, but not that every nonempty set of numbers has a least element: `UpTo` is
induction up to a bound as a statement about a set, and each recursive function of the model is shown to exist
by it (`ForEachDefined`, `FlattenDefined`, `CollectDefined`, `EntriesDefined` and their like) before anything is said of its values. `Said(D, L)` is the
catalogs whose datasets are the list `D` and whose services are the first of each id in the list `L`, and a turn
`Says(turn, Ds, Ls)` when from `Said(D, L)` it leads to `D` and `L` with `Ds` and `Ls` put behind them, whatever `D` and `L` are. This is what makes
the induction go through: "the catalog holds the first service of each id" is no property of a turn by itself, because whether
a turn adds its service depends on all that was said before it. One service is the step (`KeepsKnown`, `KeepsNew`);
a loop says what its turns say, put together (`ForEachSaid`); this gives, statement by statement, what a document's own
entries say (`CollectOwnSaid`), and by induction on depth what the recursion does (`CollectToSaid`). There the parser and the reference put the same
lists together in different ways: the parser catalog by catalog, the reference for all entries at once. `JoinedConcat` and `JoinedFlatten` say that it comes to
the same. `ParserKeepsOrder` sums up: all datasets with an id, wherever nested, in order and as often as listed, and nothing else; each
mentioned service id once, as first mentioned. `ParserKeepsWhatIsSaid` is what of this is left without order
(`DatasetsListedSet`, `ServicesListedSet`, `AllListed`), and all that the other properties of a network need.

`BrokerNetwork_proofs` proves all seven invariants of any network. `EveryDatasetKeptEver` and `FirstServiceKept`
are `EveryDatasetKept` and `FirstServiceWins`: a body in hand is what the parser made of the document beside it, which is a document even when a
broker composed it (`TaskFits`), and `ParserKeepsOrder` says the rest. `TypeCorrect`, `NothingInventedEver`,
`ReferencesKept`, `AccessKeptOnTheWay` and `SampleNeverPartial` are `TypeOK`, `NothingInvented`, `ReferencesResolve`,
`CrawledWithinAccess` and `SampleServedWhole`. First come the two ends of a hop: what a broker sends is read as what it held
(`ServiceRead`, `DatasetRead`, `CatalogSent`), so an answer, flat or nested in any order, says what the caches hold and the caller may see,
each dataset with all the services cached beside it (`AnswerSaid`). The invariants speak of caches only, but what is cached was an answer
in hand before, and an answer was made from other caches: `CameFrom(b, n, held)` says of a catalog that
`b` has from `n` all four things, and holds of caches and of answers in hand alike (`ContentFits`). `FromEdge` and
`FromBroker` are the inductive step over the chain, where sources of a broker are sources of who crawls it (`SourcesGrow`), also in a circle; `ChangeKeeps` shows that
offers once made stay sources. For the sample, `SampleOnly` adds that a broker without a crawler caches nothing else, and has it before it serves.
TLC checked this invariant on the run's networks before it was proved. Two things came up on the way. The sample's own dataset must resolve for
`ReferencesResolve` to hold, which is an assumption now. And `SampleServedWhole` must compare with what the crawling
broker may see of the sample, not with the sample, or it fails as soon as the serving broker requires DCP; a network of this kind is among those checked.

Only model-checked is liveness, which the prover does not reach: `EveryCallReturns`, `EveryParticipantCrawled`,
`ParticipantsCrawled` and `WithdrawnGoes`.

## 6. What is not modelled, and what was found

Not modelled: cryptography (signatures are symbolic), JSON and percent encoding beyond what the
caches and the parser distinguish, the URLs a `did:web` stands for, malformed tokens and documents, environment
variables (`load_dsp_auth`), the constant answers (version, health, placeholder offers), logging, the compliance harness, the vendored crates.

Five runs end in a counterexample, each against a sentence of the repository quoted in `PROJECT.json`:

- A re-crawl replaces a catalog in two accesses, and a request in between does not
  see the node (`rdf-store/src/lib.rs:437`); the in-memory backend does not behave so.
- A failing insert leaves the node without its last good catalog (`:438`).
- The crawler's HTTP client has no timeout, and its loop is sequential: one silent
  participant stops all crawling (`crawler/src/lib.rs:137`).
- A caller with one expired credential and a valid one that grants nothing is refused because "all
  presented credentials are expired" (`http-api/src/dcp.rs:256`).
- When one node is cached, or two and one is being replaced, a token without an entry is sent all
  services of that node (`http-api/src/lib.rs:695`), not "an empty catalog".
