------------------------------- MODULE Crawler -------------------------------
(***************************************************************************)
(* The catalog crawler: a validated configuration, the scheduler task and  *)
(* the crawl cycle it runs (`crawler::spawn_scheduler`, `crawl_once`,      *)
(* `crawl_one`).  One task does everything, one participant after the      *)
(* other; around it time passes and participants answer, with a catalog,   *)
(* with an error, or never: the HTTP client has no timeout.                *)
(*                                                                         *)
(* The cache is seen through its trait: an upsert replaces the node's      *)
(* catalog, or fails and may then have lost it (OxigraphCatalogCache shows *)
(* how).                                                                   *)
(***************************************************************************)
EXTENDS Integers, Sequences

CONSTANTS
    ParticipantId,  \* the ids participants are configured with
    Content,        \* what a participant's catalog may hold
    None,           \* Option::None
    Configs,        \* the configuration files, as deserialised
    Silent,         \* participants that may accept a request and never answer
    MaxTime         \* bound on time, in seconds

Participant == [id           : ParticipantId,
                requires_dcp : BOOLEAN,
                provider_did : BOOLEAN]   \* is_some()

Config == [interval_secs : Nat,
           holder        : BOOLEAN,       \* is_some()
           participants  : Seq(Participant)]

ASSUME ConfigsAssumption == Configs \subseteq Config
ASSUME NoneAssumption == None \notin Content
ASSUME SilentAssumption == Silent \subseteq ParticipantId
ASSUME MaxTimeAssumption == MaxTime \in Nat

VARIABLES
    config,     \* the configuration file
    holder,     \* whether the crawler has a holder identity
    cache,      \* the catalog cached for each participant, or None
    now,        \* seconds since the process started
    next_tick,  \* the interval timer's next deadline
    pc,         \* where the scheduler's task is
    at,         \* the participant being crawled
    body,       \* the catalog fetched from it, when there is one
    summary,    \* the CrawlSummary of the current or last cycle
    cycles,     \* history: cycles begun
    before,     \* history: the cache when this cycle began
    fetched     \* history: what each attempted participant answered

cycleVars == <<at, body, summary, before, fetched>>
timeVars == <<now, next_tick, cycles>>
vars == <<config, holder, cache, pc, cycleVars, timeVars>>

FetchError == {"transport", "http_status", "malformed_json"}
ConfigError == {"no_holder", "no_provider_did"}
Failure == [id : ParticipantId, cause : FetchError \union ConfigError \union {"cache"}]

EmptySummary == [attempted |-> 0, succeeded |-> 0, failed |-> 0, failures |-> <<>>]

-----------------------------------------------------------------------------
(***************************************************************************)
(* ParticipantsConfig::validate: a participant that requires DCP has a     *)
(* provider DID, and then the file has a holder.                           *)
(***************************************************************************)
ValidDidOnly(c) ==
    \A i \in DOMAIN c.participants :
        c.participants[i].requires_dcp => c.participants[i].provider_did

Valid(c) ==
    \A i \in DOMAIN c.participants :
        c.participants[i].requires_dcp => c.participants[i].provider_did /\ c.holder

(* `config.interval_secs.max(1)`.                                          *)
Period == IF config.interval_secs < 1 THEN 1 ELSE config.interval_secs

Current == config.participants[at]

Init ==
    /\ config \in Configs
    /\ holder = FALSE
    /\ cache = [id \in ParticipantId |-> None]
    /\ now = 0
    /\ next_tick = 0
    /\ pc = "starting"
    /\ at = 1
    /\ body = None
    /\ summary = EmptySummary
    /\ cycles = 0
    /\ before = cache
    /\ fetched = <<>>

(***************************************************************************)
(* main: load and validate the file, build the holder identity, spawn the  *)
(* scheduler; a bad file stops the process.                                *)
(***************************************************************************)
Load ==
    /\ pc = "starting"
    /\ IF Valid(config)
       THEN pc' = "waiting" /\ holder' = config.holder /\ next_tick' = now
       ELSE pc' = "refused" /\ UNCHANGED <<holder, next_tick>>
    /\ UNCHANGED <<config, cache, now, cycles, cycleVars>>

(***************************************************************************)
(* The deadline after this one.  tokio's default for missed ticks is       *)
(* Burst: deadlines keep their grid, and late ticks follow at once.        *)
(***************************************************************************)
NextDeadlineDelay == now + Period
NextDeadline == next_tick + Period

(* `interval.tick().await`, then crawl_once starts.                        *)
Tick ==
    /\ pc = "waiting"
    /\ now >= next_tick
    /\ next_tick' = NextDeadline
    /\ cycles' = cycles + 1
    /\ pc' = "crawling"
    /\ at' = 1
    /\ summary' = EmptySummary
    /\ before' = cache
    /\ fetched' = <<>>
    /\ UNCHANGED <<config, holder, cache, now, body>>

(* crawl_once's loop: is there a participant left, and which comes next.   *)
MoreParticipants == at <= Len(config.participants)

(* After a failure the loop goes on, as after a success.                   *)
AdvanceTwice == at + 2
AbortAfterFailure == Len(config.participants) + 1
AfterFailure == at + 1

Attempted == [summary EXCEPT !.attempted = @ + 1]

Failed(s, cause) ==
    [s EXCEPT !.failed = @ + 1,
              !.failures = Append(@, [id |-> Current.id, cause |-> cause])]

(***************************************************************************)
(* What crawl_one still checks although validation excludes it.            *)
(***************************************************************************)
RequestErrors ==
    IF ~Current.requires_dcp THEN {}
    ELSE IF ~holder THEN {"no_holder"}
    ELSE IF ~Current.provider_did THEN {"no_provider_did"}
    ELSE {}

(***************************************************************************)
(* The request goes out, with a fresh token or the placeholder header,     *)
(* unless it cannot be built.                                              *)
(***************************************************************************)
Send ==
    /\ pc = "crawling"
    /\ MoreParticipants
    /\ IF RequestErrors = {}
       THEN /\ summary' = Attempted
            /\ pc' = "awaiting"
            /\ UNCHANGED <<at, fetched>>
       ELSE /\ \E cause \in RequestErrors : summary' = Failed(Attempted, cause)
            /\ at' = AfterFailure
            /\ fetched' = Append(fetched, None)
            /\ UNCHANGED pc
    /\ UNCHANGED <<config, holder, cache, body, before, timeVars>>

(* What a failed fetch does to the cache: nothing.                         *)
ClearedByFailedFetch == [cache EXCEPT ![Current.id] = None]
AfterFailedFetch == cache

(* No connection or a broken one, a non-2xx status, or a body not JSON.    *)
FetchFails(cause) ==
    /\ pc = "awaiting"
    /\ summary' = Failed(summary, cause)
    /\ cache' = AfterFailedFetch
    /\ at' = AfterFailure
    /\ pc' = "crawling"
    /\ fetched' = Append(fetched, None)
    /\ UNCHANGED <<config, holder, body, before, timeVars>>

(* A 2xx answer with a JSON body, which always parses to some catalog.     *)
FetchSucceeds(content) ==
    /\ pc = "awaiting"
    /\ body' = content
    /\ pc' = "caching"
    /\ fetched' = Append(fetched, content)
    /\ UNCHANGED <<config, holder, cache, at, summary, before, timeVars>>

(* The catalog is filed under the participant's own id as origin node.     *)
StoredIfAbsent ==
    IF cache[Current.id] = None THEN [cache EXCEPT ![Current.id] = body] ELSE cache
Stored == [cache EXCEPT ![Current.id] = body]

UpsertOk ==
    /\ pc = "caching"
    /\ cache' = Stored
    /\ summary' = [summary EXCEPT !.succeeded = @ + 1]
    /\ body' = None
    /\ at' = at + 1
    /\ pc' = "crawling"
    /\ UNCHANGED <<config, holder, before, fetched, timeVars>>

(* upsert returns an error, before or after it dropped the old catalog.    *)
UpsertFails ==
    /\ pc = "caching"
    /\ cache' \in {cache, [cache EXCEPT ![Current.id] = None]}
    /\ summary' = Failed(summary, "cache")
    /\ body' = None
    /\ at' = AfterFailure
    /\ pc' = "crawling"
    /\ UNCHANGED <<config, holder, before, fetched, timeVars>>

(* The cycle is over; its summary is logged.                               *)
EndCycle ==
    /\ pc = "crawling"
    /\ ~MoreParticipants
    /\ pc' = "waiting"
    /\ UNCHANGED <<config, holder, cache, cycleVars, timeVars>>

(* A second passes, whatever the task is doing.                            *)
Advance ==
    /\ pc \notin {"starting", "refused"}
    /\ now < MaxTime
    /\ now' = now + 1
    /\ UNCHANGED <<config, holder, cache, pc, cycleVars, next_tick, cycles>>

(* A process that refused its configuration has stopped; time is bounded.  *)
Stopped ==
    /\ \/ pc = "refused"
       \/ pc = "waiting" /\ now = MaxTime /\ now < next_tick
    /\ UNCHANGED vars

Task == Load \/ Tick \/ Send \/ UpsertOk \/ UpsertFails \/ EndCycle

Answer ==
    \/ \E cause \in FetchError : FetchFails(cause)
    \/ \E content \in Content : FetchSucceeds(content)

Next == Task \/ Answer \/ Advance \/ Stopped

Spec == Init /\ [][Next]_vars

(***************************************************************************)
(* The runtime polls the task whenever it can go on; a participant that is *)
(* not Silent answers or its connection breaks.                            *)
(***************************************************************************)
FairSpec ==
    /\ Spec
    /\ WF_vars(Task)
    /\ WF_vars(pc = "awaiting" /\ Current.id \notin Silent /\ Answer)

-----------------------------------------------------------------------------
Running == pc \in {"crawling", "awaiting", "caching"}

SummaryOK ==
    summary \in [attempted : Nat, succeeded : Nat, failed : Nat, failures : Seq(Failure)]

TypeOK ==
    /\ config \in Configs
    /\ holder \in BOOLEAN
    /\ cache \in [ParticipantId -> Content \union {None}]
    /\ now \in 0 .. MaxTime
    /\ next_tick \in Nat
    /\ pc \in {"starting", "refused", "waiting", "crawling", "awaiting", "caching"}
    /\ at \in 1 .. Len(config.participants) + 1
    /\ body \in Content \union {None}
    /\ SummaryOK
    /\ cycles \in Nat
    /\ before \in [ParticipantId -> Content \union {None}]
    /\ fetched \in Seq(Content \union {None})

(* The positions of a cycle's participants, those with id, and a cycle     *)
(* that has just ended.                                                    *)
Positions == DOMAIN config.participants
PositionsOf(id) == {i \in Positions : config.participants[i].id = id}
Done == pc = "waiting" /\ cycles > 0
Failures == DOMAIN summary.failures

(***************************************************************************)
(* One bad participant never costs the others their turn: a cycle that     *)
(* ends has attempted every configured participant, has counted each once  *)
(* as succeeded or failed, and lists in participant order those that       *)
(* failed, among them all that did not answer with a catalog.              *)
(***************************************************************************)
SummaryComplete ==
    Done =>
        /\ summary.attempted = Len(config.participants)
        /\ summary.succeeded + summary.failed = summary.attempted
        /\ summary.failed = Len(summary.failures)
        /\ \E position \in [Failures -> Positions] :
              /\ \A k, l \in Failures : k < l => position[k] < position[l]
              /\ \A k \in Failures :
                    summary.failures[k].id = config.participants[position[k]].id
              /\ \A i \in Positions :
                    fetched[i] = None => \E k \in Failures : position[k] = i

(***************************************************************************)
(* "a failed crawl must not overwrite the previously cached good catalog   *)
(* for this node": a participant none of whose fetches succeeded keeps the *)
(* catalog it had when the cycle began.                                    *)
(***************************************************************************)
FailedCrawlKeepsCatalog ==
    Done =>
        \A id \in ParticipantId :
            (\A i \in PositionsOf(id) : fetched[i] = None) => cache[id] = before[id]

(***************************************************************************)
(* Crawling anew replaces: when a cycle ends without a cache failure for a *)
(* participant, the cache holds the catalog it answered with last.         *)
(***************************************************************************)
CrawledCatalogCached ==
    Done =>
        \A i \in Positions :
            LET id == config.participants[i].id
            IN  /\ fetched[i] # None
                /\ \A j \in PositionsOf(id) : j > i => fetched[j] = None
                /\ \A k \in Failures :
                        summary.failures[k] # [id |-> id, cause |-> "cache"]
                => cache[id] = fetched[i]

(***************************************************************************)
(* A configuration that passed validation "is always internally consistent *)
(* by the time crawl code ever sees it": crawl_one never lacks a holder or *)
(* a provider DID.                                                         *)
(***************************************************************************)
ConfigErrorsUnreachable ==
    \A k \in Failures : summary.failures[k].cause \notin ConfigError

(***************************************************************************)
(* The scheduler "runs crawl_once every interval_secs": never more cycles  *)
(* than deadlines passed, and cycles that came late because an earlier one *)
(* was slow are made up for, so that when it waits for a deadline it has   *)
(* begun one cycle for each that passed.                                   *)
(***************************************************************************)
OneCyclePerPeriod ==
    /\ cycles <= now \div Period + 1
    /\ pc = "waiting" /\ now < next_tick => cycles = now \div Period + 1

(***************************************************************************)
(* "one bad participant must never prevent the others from being crawled": *)
(* a cycle that has begun reaches its last participant and ends.           *)
(***************************************************************************)
EveryParticipantCrawled ==
    \A c \in 1 .. MaxTime + 1 :
        (Running /\ cycles = c) ~>
            (cycles = c /\ pc = "waiting" /\ summary.attempted = Len(config.participants))
=============================================================================
