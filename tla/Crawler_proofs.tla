---------------------------- MODULE Crawler_proofs ----------------------------
(***************************************************************************)
(* Theorems about the crawler, for any participants, configurations,       *)
(* contents and stretch of time.                                           *)
(***************************************************************************)
EXTENDS Crawler, TLAPS

-----------------------------------------------------------------------------
(* The inductive invariant.                                                *)

(* Participants 1 .. at - 1 have had their turn; while one is being        *)
(* crawled it is counted as attempted, and once it has answered with a     *)
(* catalog that is the body being cached.                                  *)
CountsInv ==
    /\ summary.attempted = IF pc \in {"awaiting", "caching"} THEN at ELSE at - 1
    /\ Len(fetched) = IF pc = "caching" THEN at ELSE at - 1
    /\ summary.succeeded + summary.failed = at - 1
    /\ summary.failed = Len(summary.failures)
    /\ pc \in {"awaiting", "caching"} => MoreParticipants
    /\ pc = "caching" => body \in Content /\ fetched[at] = body
    /\ Done => ~MoreParticipants

(* The failures listed so far, each at the position of its participant.    *)
LocatesFailures(position) ==
    /\ position \in [Failures -> 1 .. at - 1]
    /\ \A k, l \in Failures : k < l => position[k] < position[l]
    /\ \A k \in Failures :
          summary.failures[k].id = config.participants[position[k]].id
    /\ \A i \in 1 .. at - 1 :
          fetched[i] = None => \E k \in Failures : position[k] = i

FailuresInv == \E position : LocatesFailures(position)

(* What the turns so far have done to the cache.                           *)
TurnsOf(id) == {i \in 1 .. at - 1 : config.participants[i].id = id}

KeptInv ==
    \A id \in ParticipantId :
        (\A i \in TurnsOf(id) : fetched[i] = None) => cache[id] = before[id]

CacheFailed(id) ==
    \E k \in Failures : summary.failures[k] = [id |-> id, cause |-> "cache"]

CachedInv ==
    \A i \in 1 .. at - 1 :
        LET id == config.participants[i].id
        IN  /\ fetched[i] # None
            /\ \A j \in TurnsOf(id) : j > i => fetched[j] = None
            /\ ~CacheFailed(id)
            => cache[id] = fetched[i]

(* The task runs on a configuration that passed validation.                *)
ConfigInv ==
    pc \notin {"starting", "refused"} => Valid(config) /\ holder = config.holder

(* One deadline per cycle begun, the last of them not before its time.     *)
ClockInv ==
    /\ next_tick = cycles * Period
    /\ cycles = 0 \/ next_tick <= now + Period
    /\ pc \in {"starting", "refused"} => now = 0 /\ cycles = 0

CrawlInv ==
    /\ TypeOK
    /\ CountsInv
    /\ FailuresInv
    /\ KeptInv
    /\ CachedInv
    /\ ConfigInv
    /\ ClockInv
    /\ ConfigErrorsUnreachable

-----------------------------------------------------------------------------
(* What the types of the configuration and the summary give.               *)

LEMMA ConfigTypes ==
    ASSUME TypeOK
    PROVE  /\ config.participants \in Seq(Participant)
           /\ Len(config.participants) \in Nat
           /\ Positions = 1 .. Len(config.participants)
           /\ Period \in Nat \ {0}
           /\ at \in Nat \ {0}
           /\ \A i \in Positions : config.participants[i] \in Participant
           /\ MoreParticipants => Current \in Participant /\ at \in Positions
<1>1. config \in Config
  BY ConfigsAssumption DEF TypeOK
<1>2. config.participants \in Seq(Participant) /\ config.interval_secs \in Nat
  BY <1>1 DEF Config
<1>3. Positions = 1 .. Len(config.participants) /\ Len(config.participants) \in Nat
  BY <1>2 DEF Positions
<1>4. Period \in Nat \ {0}
  BY <1>2 DEF Period
<1>5. at \in Nat \ {0}
  BY <1>3 DEF TypeOK
<1>6. \A i \in Positions : config.participants[i] \in Participant
  BY <1>2, <1>3
<1>7. QED
  BY <1>2, <1>3, <1>4, <1>5, <1>6 DEF MoreParticipants, Current

Summary == [attempted : Nat, succeeded : Nat, failed : Nat, failures : Seq(Failure)]

(* Counting a failure keeps the summary's type and appends to its list.    *)
LEMMA FailedTyped ==
    ASSUME NEW s \in Summary, Current \in Participant,
           NEW cause \in FetchError \union ConfigError \union {"cache"}
    PROVE  /\ Failed(s, cause) \in Summary
           /\ Failed(s, cause).attempted = s.attempted
           /\ Failed(s, cause).succeeded = s.succeeded
           /\ Failed(s, cause).failed = s.failed + 1
           /\ Failed(s, cause).failures =
                 Append(s.failures, [id |-> Current.id, cause |-> cause])
           /\ Len(Failed(s, cause).failures) = Len(s.failures) + 1
<1> DEFINE failure == [id |-> Current.id, cause |-> cause]
<1>1. Current.id \in ParticipantId
  BY DEF Participant
<1>2. failure \in Failure
  BY <1>1 DEF Failure
<1>3. s.failures \in Seq(Failure) /\ s.failed \in Nat
  BY DEF Summary
<1>4. /\ Append(s.failures, failure) \in Seq(Failure)
      /\ Len(Append(s.failures, failure)) = Len(s.failures) + 1
  BY <1>2, <1>3
<1> DEFINE count == s.failed + 1
           list == Append(s.failures, failure)
<1>5. Failed(s, cause) = [s EXCEPT !.failed = count, !.failures = list]
  BY DEF Failed
<1>6. count \in Nat /\ list \in Seq(Failure) /\ Len(list) = Len(s.failures) + 1
  BY <1>3, <1>4
<1> HIDE DEF failure, count, list
<1>7. /\ Failed(s, cause) \in Summary
      /\ Failed(s, cause).attempted = s.attempted
      /\ Failed(s, cause).succeeded = s.succeeded
      /\ Failed(s, cause).failed = count
      /\ Failed(s, cause).failures = list
  BY <1>5, <1>6 DEF Summary
<1>8. QED
  BY <1>6, <1>7 DEF failure, count, list

(* A configuration that passed validation leaves crawl_one nothing to      *)
(* refuse: the request always goes out.                                    *)
LEMMA RequestGoesOut ==
    ASSUME CrawlInv, Send
    PROVE  /\ summary' = Attempted
           /\ pc' = "awaiting"
           /\ UNCHANGED <<at, fetched>>
<1>1. pc = "crawling" /\ MoreParticipants
  BY DEF Send
<1>2. Valid(config) /\ holder = config.holder
  BY <1>1 DEF CrawlInv, ConfigInv
<1>3. at \in DOMAIN config.participants
  BY <1>1, ConfigTypes DEF CrawlInv, Positions
<1>4. Current.requires_dcp => Current.provider_did /\ holder
  BY <1>2, <1>3 DEF Valid, Current
<1>5. RequestErrors = {}
  BY <1>4 DEF RequestErrors
<1>6. QED
  BY <1>5 DEF Send

-----------------------------------------------------------------------------
(* Every conjunct holds when the process starts.                           *)

LEMMA CrawlInvInit == Init => CrawlInv
<1> SUFFICES ASSUME Init PROVE CrawlInv
  OBVIOUS
<1>1. TypeOK
  <2>1. config \in Config
    BY ConfigsAssumption DEF Init
  <2>2. Len(config.participants) \in Nat
    BY <2>1 DEF Config
  <2>3. SummaryOK
    BY DEF Init, SummaryOK, EmptySummary
  <2>4. /\ cache \in [ParticipantId -> Content \union {None}]
        /\ before \in [ParticipantId -> Content \union {None}]
    BY DEF Init
  <2>5. at \in 1 .. Len(config.participants) + 1 /\ now \in 0 .. MaxTime
    BY <2>2, MaxTimeAssumption DEF Init
  <2>6. fetched \in Seq(Content \union {None})
    BY DEF Init
  <2>7. QED
    BY <2>3, <2>4, <2>5, <2>6 DEF Init, TypeOK
<1>2. CountsInv
  BY DEF Init, CountsInv, EmptySummary, Done
<1>3. FailuresInv
  <2>1. Failures = {}
    BY DEF Init, Failures, EmptySummary
  <2>2. LocatesFailures([k \in {} |-> 0])
    BY <2>1 DEF Init, LocatesFailures
  <2>3. QED
    BY <2>2 DEF FailuresInv
<1>4. KeptInv /\ CachedInv
  BY DEF Init, KeptInv, CachedInv, TurnsOf
<1>5. ConfigInv
  BY DEF Init, ConfigInv
<1>6. ClockInv
  BY <1>1, ConfigTypes DEF Init, ClockInv
<1>7. ConfigErrorsUnreachable
  BY DEF Init, ConfigErrorsUnreachable, Failures, EmptySummary
<1>8. QED
  BY <1>1, <1>2, <1>3, <1>4, <1>5, <1>6, <1>7 DEF CrawlInv

-----------------------------------------------------------------------------
(* Type correctness.                                                       *)

LEMMA SummaryTyped == SummaryOK <=> summary \in Summary
BY DEF SummaryOK, Summary

LEMMA TypeOKStep ==
    ASSUME CrawlInv, [Next]_vars
    PROVE  TypeOK'
<1> USE DEF cycleVars, timeVars
<1>1. /\ TypeOK
      /\ summary \in Summary
      /\ pc \in {"awaiting", "caching"} => MoreParticipants
      /\ pc = "caching" => body \in Content
  BY SummaryTyped DEF CrawlInv, CountsInv, TypeOK
<1>2. /\ Len(config.participants) \in Nat /\ Period \in Nat \ {0} /\ at \in Nat \ {0}
      /\ MoreParticipants =>
            /\ Current \in Participant /\ Current.id \in ParticipantId
            /\ at + 1 \in 1 .. Len(config.participants) + 1
  BY <1>1, ConfigTypes DEF MoreParticipants, Participant
<1>3. CASE Load
  <2>1. config.holder \in BOOLEAN /\ now \in Nat
    BY <1>1, ConfigsAssumption, MaxTimeAssumption DEF TypeOK, Config
  <2>2. holder' \in BOOLEAN /\ next_tick' \in Nat /\ pc' \in {"waiting", "refused"}
    BY <1>1, <1>3, <2>1 DEF Load, TypeOK
  <2>3. QED
    BY <1>1, <1>3, <2>2 DEF Load, TypeOK, SummaryOK
<1>4. CASE Tick
  <2>1. next_tick' \in Nat /\ cycles' \in Nat
    BY <1>1, <1>2, <1>4 DEF Tick, NextDeadline, TypeOK
  <2>2. SummaryOK' /\ at' \in 1 .. Len(config.participants) + 1
    BY <1>2, <1>4 DEF Tick, SummaryOK, EmptySummary
  <2>3. fetched' \in Seq(Content \union {None})
    BY <1>4 DEF Tick
  <2>4. QED
    BY <1>1, <1>4, <2>1, <2>2, <2>3 DEF Tick, TypeOK
<1>5. CASE Send
  <2>1. Attempted \in Summary
    BY <1>1 DEF Attempted, Summary
  <2>2. summary' \in Summary /\ pc' = "awaiting" /\ UNCHANGED <<at, fetched>>
    BY <1>5, <2>1, RequestGoesOut
  <2>3. UNCHANGED <<config, holder, cache, body, before, timeVars>>
    BY <1>5 DEF Send
  <2>4. SummaryOK'
    BY <2>2 DEF SummaryOK, Summary
  <2>5. QED
    BY <1>1, <2>2, <2>3, <2>4 DEF TypeOK
<1>6. ASSUME NEW cause \in FetchError, FetchFails(cause)
      PROVE  TypeOK'
  <2>1. MoreParticipants /\ at' = at + 1
    BY <1>1, <1>6 DEF FetchFails, AfterFailure
  <2>2. summary' = Failed(summary, cause) /\ summary' \in Summary
    BY <1>1, <1>2, <1>6, <2>1, FailedTyped DEF FetchFails
  <2>3. SummaryOK' /\ fetched' \in Seq(Content \union {None})
    BY <1>1, <1>6, <2>2 DEF FetchFails, SummaryOK, Summary, TypeOK
  <2>4. QED
    BY <1>1, <1>2, <1>6, <2>1, <2>3 DEF FetchFails, AfterFailedFetch, TypeOK
<1>7. ASSUME NEW content \in Content, FetchSucceeds(content)
      PROVE  TypeOK'
  <2>1. fetched' \in Seq(Content \union {None})
    BY <1>1, <1>7 DEF FetchSucceeds, TypeOK
  <2>2. QED
    BY <1>1, <1>7, <2>1 DEF FetchSucceeds, TypeOK, SummaryOK
<1>8. CASE UpsertOk
  <2>1. MoreParticipants /\ at' = at + 1 /\ body \in Content
    BY <1>1, <1>8 DEF UpsertOk
  <2>2. cache' \in [ParticipantId -> Content \union {None}]
    BY <1>1, <1>2, <1>8, <2>1 DEF UpsertOk, Stored, TypeOK
  <2>3. summary' \in Summary
    BY <1>1, <1>8 DEF UpsertOk, Summary
  <2>4. SummaryOK'
    BY <2>3 DEF SummaryOK, Summary
  <2>5. QED
    BY <1>1, <1>2, <1>8, <2>1, <2>2, <2>4 DEF UpsertOk, TypeOK
<1>9. CASE UpsertFails
  <2>1. MoreParticipants /\ at' = at + 1
    BY <1>1, <1>9 DEF UpsertFails, AfterFailure
  <2>2. cache' \in [ParticipantId -> Content \union {None}]
    BY <1>1, <1>9 DEF UpsertFails, TypeOK
  <2>3. summary' \in Summary
    BY <1>1, <1>2, <1>9, <2>1, FailedTyped DEF UpsertFails
  <2>4. SummaryOK'
    BY <2>3 DEF SummaryOK, Summary
  <2>5. QED
    BY <1>1, <1>2, <1>9, <2>1, <2>2, <2>4 DEF UpsertFails, TypeOK
<1>10. CASE EndCycle
  BY <1>1, <1>10 DEF EndCycle, TypeOK, SummaryOK
<1>11. CASE Advance
  BY <1>1, <1>11, MaxTimeAssumption DEF Advance, TypeOK, SummaryOK
<1>12. CASE UNCHANGED vars
  BY <1>1, <1>12 DEF vars, TypeOK, SummaryOK
<1>13. QED
  BY <1>3, <1>4, <1>5, <1>6, <1>7, <1>8, <1>9, <1>10, <1>11, <1>12
     DEF Next, Task, Answer, Stopped

-----------------------------------------------------------------------------
(* The configuration, and what validation of it excludes.                  *)

LEMMA ConfigStep ==
    ASSUME CrawlInv, [Next]_vars
    PROVE  config' = config /\ ConfigInv'
<1>1. config' = config
  BY DEF Next, Task, Answer, Load, Tick, Send, FetchFails, FetchSucceeds, UpsertOk,
         UpsertFails, EndCycle, Advance, Stopped, vars
<1>2. CASE Load
  BY <1>1, <1>2 DEF Load, ConfigInv, Valid
<1>3. CASE ~Load
  <2>1. holder' = holder /\ (pc' \in {"starting", "refused"} \/ pc \notin {"starting", "refused"})
    BY <1>3 DEF Next, Task, Answer, Tick, Send, FetchFails, FetchSucceeds, UpsertOk,
           UpsertFails, EndCycle, Advance, Stopped, vars
  <2>2. QED
    BY <1>1, <2>1 DEF CrawlInv, ConfigInv, Valid
<1>4. QED
  BY <1>1, <1>2, <1>3

-----------------------------------------------------------------------------
(* The counts.                                                             *)

LEMMA CountsStep ==
    ASSUME CrawlInv, [Next]_vars
    PROVE  CountsInv'
<1> USE DEF cycleVars, timeVars
<1>1. /\ TypeOK /\ CountsInv /\ config' = config
      /\ summary \in Summary /\ fetched \in Seq(Content \union {None})
  BY SummaryTyped, ConfigStep DEF CrawlInv, TypeOK
<1>2. /\ Len(config.participants) \in Nat /\ at \in Nat \ {0}
      /\ Len(summary.failures) \in Nat /\ Len(fetched) \in Nat
      /\ summary.attempted \in Nat /\ summary.succeeded \in Nat /\ summary.failed \in Nat
      /\ MoreParticipants => Current \in Participant
  BY <1>1, ConfigTypes DEF Summary
<1>3. \A answer \in Content \union {None} :
         fetched' = Append(fetched, answer) =>
            /\ Len(fetched') = Len(fetched) + 1
            /\ fetched'[Len(fetched) + 1] = answer
  BY <1>1
<1>4. CASE Load
  BY <1>1, <1>2, <1>4 DEF Load, CountsInv, MoreParticipants, Done, CrawlInv, ClockInv
<1>5. CASE Tick
  BY <1>1, <1>5 DEF Tick, CountsInv, EmptySummary, Done
<1>6. CASE Send
  <2>1. /\ pc = "crawling" /\ MoreParticipants /\ pc' = "awaiting"
        /\ summary' = Attempted /\ UNCHANGED <<at, fetched>>
    BY <1>6, RequestGoesOut DEF Send
  <2>2. /\ summary'.attempted = summary.attempted + 1
        /\ summary'.succeeded = summary.succeeded
        /\ summary'.failed = summary.failed
        /\ summary'.failures = summary.failures
    BY <1>1, <2>1 DEF Attempted, Summary
  <2>3. QED
    BY <1>1, <1>2, <2>1, <2>2 DEF CountsInv, MoreParticipants, Done
<1>7. ASSUME NEW cause \in FetchError, FetchFails(cause)
      PROVE  CountsInv'
  <2>1. /\ pc = "awaiting" /\ MoreParticipants /\ pc' = "crawling" /\ at' = at + 1
        /\ summary' = Failed(summary, cause) /\ fetched' = Append(fetched, None)
    BY <1>1, <1>7 DEF FetchFails, AfterFailure, CountsInv
  <2>2. /\ summary'.attempted = summary.attempted
        /\ summary'.succeeded = summary.succeeded
        /\ summary'.failed = summary.failed + 1
        /\ Len(summary'.failures) = Len(summary.failures) + 1
    BY <1>1, <1>2, <2>1, FailedTyped
  <2>3. Len(fetched') = Len(fetched) + 1
    BY <1>3, <2>1
  <2>4. QED
    BY <1>1, <1>2, <2>1, <2>2, <2>3 DEF CountsInv, Done
<1>8. ASSUME NEW content \in Content, FetchSucceeds(content)
      PROVE  CountsInv'
  <2>1. /\ pc = "awaiting" /\ pc' = "caching" /\ body' = content
        /\ UNCHANGED <<at, summary>> /\ fetched' = Append(fetched, content)
    BY <1>8 DEF FetchSucceeds
  <2>2. Len(fetched') = Len(fetched) + 1 /\ fetched'[Len(fetched) + 1] = content
    BY <1>3, <2>1
  <2>3. QED
    BY <1>1, <1>2, <2>1, <2>2 DEF CountsInv, MoreParticipants, Done
<1>9. CASE UpsertOk
  <2>1. /\ pc = "caching" /\ pc' = "crawling" /\ at' = at + 1 /\ fetched' = fetched
        /\ summary' = [summary EXCEPT !.succeeded = summary.succeeded + 1]
    BY <1>9 DEF UpsertOk
  <2>2. /\ summary'.attempted = summary.attempted
        /\ summary'.succeeded = summary.succeeded + 1
        /\ summary'.failed = summary.failed
        /\ summary'.failures = summary.failures
    BY <1>1, <2>1 DEF Summary
  <2>3. QED
    BY <1>1, <1>2, <2>1, <2>2 DEF CountsInv, Done
<1>10. CASE UpsertFails
  <2>1. /\ pc = "caching" /\ MoreParticipants /\ pc' = "crawling" /\ at' = at + 1
        /\ summary' = Failed(summary, "cache") /\ fetched' = fetched
    BY <1>1, <1>10 DEF UpsertFails, AfterFailure, CountsInv
  <2>2. /\ summary'.attempted = summary.attempted
        /\ summary'.succeeded = summary.succeeded
        /\ summary'.failed = summary.failed + 1
        /\ Len(summary'.failures) = Len(summary.failures) + 1
    BY <1>1, <1>2, <2>1, FailedTyped
  <2>3. /\ summary.attempted = at /\ Len(fetched) = at
        /\ summary.succeeded + summary.failed = at - 1
        /\ summary.failed = Len(summary.failures)
    BY <1>1, <2>1 DEF CountsInv
  <2>4. ~Done'
    BY <2>1 DEF Done
  <2>5. /\ summary'.attempted = at' - 1 /\ Len(fetched') = at' - 1
        /\ summary'.succeeded + summary'.failed = at' - 1
        /\ summary'.failed = Len(summary'.failures)
    BY <1>1, <1>2, <2>1, <2>2, <2>3
  <2>6. QED
    BY <2>1, <2>4, <2>5 DEF CountsInv
<1>11. CASE EndCycle
  BY <1>1, <1>2, <1>11 DEF EndCycle, CountsInv, MoreParticipants, Done
<1>12. CASE Advance
  BY <1>1, <1>12 DEF Advance, CountsInv, MoreParticipants, Done
<1>13. CASE UNCHANGED vars
  BY <1>1, <1>13 DEF vars, CountsInv, MoreParticipants, Done
<1>14. QED
  BY <1>4, <1>5, <1>6, <1>7, <1>8, <1>9, <1>10, <1>11, <1>12, <1>13
     DEF Next, Task, Answer, Stopped

-----------------------------------------------------------------------------
(* One participant's turn: what each kind of step leaves of those before   *)
(* it.  Only Tick starts over.                                             *)

(* A turn that fails appends one failure, Current's, to the list.          *)
FailsWith(cause) ==
    summary'.failures = Append(summary.failures, [id |-> Current.id, cause |-> cause])

(* The turns over stay as they were.                                       *)
PastKept == \A i \in 1 .. at - 1 : fetched'[i] = fetched[i]

(* A step inside a turn, or between cycles, ends no turn.                  *)
StayStep == at' = at /\ PastKept /\ UNCHANGED <<summary.failures, cache, before>>

(* Current's turn ends without a catalog, or with one that is lost or kept. *)
NoCatalogStep ==
    /\ at' = at + 1 /\ PastKept /\ UNCHANGED <<cache, before>>
    /\ fetched'[at] = None
    /\ \E cause \in FetchError : FailsWith(cause)

CachedStep ==
    /\ at' = at + 1 /\ PastKept /\ before' = before
    /\ fetched'[at] = body /\ body \in Content
    /\ cache' = Stored
    /\ summary'.failures = summary.failures

CacheFailsStep ==
    /\ at' = at + 1 /\ PastKept /\ before' = before
    /\ fetched'[at] = body /\ body \in Content
    /\ cache' \in {cache, [cache EXCEPT ![Current.id] = None]}
    /\ FailsWith("cache")

NewCycleStep == at' = 1 /\ before' = cache' /\ summary'.failures = <<>>

TurnStep ==
    MoreParticipants /\ (NoCatalogStep \/ CachedStep \/ CacheFailsStep)

(* Every step of the crawler is one of these.                              *)
LEMMA KindsOfStep ==
    ASSUME CrawlInv, [Next]_vars
    PROVE  StayStep \/ TurnStep \/ NewCycleStep
<1> USE DEF cycleVars, timeVars
<1>1. /\ TypeOK /\ CountsInv /\ summary \in Summary
      /\ fetched \in Seq(Content \union {None})
      /\ at \in Nat \ {0} /\ Len(fetched) \in Nat
  BY SummaryTyped, ConfigTypes DEF CrawlInv, TypeOK
<1>2. \A answer \in Content \union {None} :
         fetched' = Append(fetched, answer) =>
            /\ \A i \in 1 .. Len(fetched) : fetched'[i] = fetched[i]
            /\ fetched'[Len(fetched) + 1] = answer
  BY <1>1
<1>3. CASE Load \/ EndCycle \/ Advance \/ UNCHANGED vars
  BY <1>3 DEF Load, EndCycle, Advance, vars, StayStep, PastKept
<1>4. CASE Tick
  BY <1>4 DEF Tick, NewCycleStep, EmptySummary
<1>5. CASE Send
  <2>1. summary'.failures = summary.failures /\ UNCHANGED <<at, fetched>>
    BY <1>1, <1>5, RequestGoesOut DEF Attempted, Summary
  <2>2. QED
    BY <1>5, <2>1 DEF Send, StayStep, PastKept
<1>6. ASSUME NEW cause \in FetchError, FetchFails(cause)
      PROVE  TurnStep
  <2>1. /\ MoreParticipants /\ Len(fetched) = at - 1 /\ at' = at + 1
        /\ UNCHANGED <<cache, before>> /\ fetched' = Append(fetched, None)
    BY <1>1, <1>6 DEF FetchFails, CountsInv, AfterFailure, AfterFailedFetch
  <2>2. PastKept /\ fetched'[at] = None
    BY <1>1, <1>2, <2>1 DEF PastKept
  <2>3. FailsWith(cause)
    BY <1>1, <1>6, <2>1, FailedTyped, ConfigTypes DEF FetchFails, FailsWith
  <2>4. QED
    BY <2>1, <2>2, <2>3 DEF TurnStep, NoCatalogStep
<1>7. ASSUME NEW content \in Content, FetchSucceeds(content)
      PROVE  StayStep
  BY <1>1, <1>2, <1>7 DEF FetchSucceeds, CountsInv, StayStep, PastKept
<1>8. CASE UpsertOk
  <2>1. /\ MoreParticipants /\ body \in Content /\ fetched[at] = body
        /\ at' = at + 1 /\ UNCHANGED <<before, fetched>> /\ cache' = Stored
    BY <1>1, <1>8 DEF UpsertOk, CountsInv
  <2>2. summary'.failures = summary.failures
    BY <1>1, <1>8 DEF UpsertOk, Summary
  <2>3. QED
    BY <2>1, <2>2 DEF TurnStep, CachedStep, PastKept
<1>9. CASE UpsertFails
  <2>1. /\ MoreParticipants /\ body \in Content /\ fetched[at] = body
        /\ at' = at + 1 /\ UNCHANGED <<before, fetched>>
        /\ cache' \in {cache, [cache EXCEPT ![Current.id] = None]}
    BY <1>1, <1>9 DEF UpsertFails, CountsInv, AfterFailure
  <2>2. FailsWith("cache")
    BY <1>1, <1>9, <2>1, FailedTyped, ConfigTypes DEF UpsertFails, FailsWith
  <2>3. QED
    BY <2>1, <2>2 DEF TurnStep, CacheFailsStep, PastKept
<1>10. QED
  BY <1>3, <1>4, <1>5, <1>6, <1>7, <1>8, <1>9 DEF Next, Task, Answer, Stopped

(* The failures of a list one longer.                                      *)
LEMMA LongerList ==
    ASSUME TypeOK, MoreParticipants,
           NEW cause \in FetchError \union {"cache"}, FailsWith(cause)
    PROVE  LET n == Len(summary.failures)
           IN  /\ n \in Nat
               /\ Failures = 1 .. n
               /\ Failures' = 1 .. n + 1
               /\ \A k \in 1 .. n : summary'.failures[k] = summary.failures[k]
               /\ \A k \in Failures' : k \in 1 .. n \/ k = n + 1
               /\ summary'.failures[n + 1] = [id |-> Current.id, cause |-> cause]
<1>1. [id |-> Current.id, cause |-> cause] \in Failure
  BY ConfigTypes DEF Failure, Participant
<1>2. summary.failures \in Seq(Failure)
  BY SummaryTyped DEF TypeOK, Summary
<1>3. QED
  BY <1>1, <1>2 DEF FailsWith, Failures

-----------------------------------------------------------------------------
(* Each part of the invariant is preserved.                                *)

LEMMA ConfigErrorsStep ==
    ASSUME CrawlInv, [Next]_vars
    PROVE  ConfigErrorsUnreachable'
<1>1. ConfigErrorsUnreachable /\ TypeOK
  BY DEF CrawlInv
<1>2. CASE summary'.failures = <<>> \/ summary'.failures = summary.failures
  BY <1>1, <1>2 DEF ConfigErrorsUnreachable, Failures
<1>3. ASSUME MoreParticipants, NEW cause \in FetchError \union {"cache"}, FailsWith(cause)
      PROVE  ConfigErrorsUnreachable'
  <2> DEFINE n == Len(summary.failures)
  <2>1. cause \notin ConfigError
    BY DEF FetchError, ConfigError
  <2>2. /\ Failures = 1 .. n
        /\ \A k \in Failures' : k \in 1 .. n \/ k = n + 1
        /\ \A k \in 1 .. n : summary'.failures[k] = summary.failures[k]
        /\ summary'.failures[n + 1] = [id |-> Current.id, cause |-> cause]
    BY <1>1, <1>3, LongerList
  <2>3. QED
    BY <1>1, <2>1, <2>2 DEF ConfigErrorsUnreachable
<1>4. QED
  BY <1>2, <1>3, KindsOfStep
     DEF StayStep, TurnStep, NoCatalogStep, CachedStep, CacheFailsStep, NewCycleStep

LEMMA FailuresStep ==
    ASSUME CrawlInv, [Next]_vars
    PROVE  FailuresInv'
<1>1. TypeOK /\ at \in Nat \ {0} /\ config' = config
  BY ConfigTypes, ConfigStep DEF CrawlInv
<1>2. PICK position : LocatesFailures(position)
  BY DEF CrawlInv, FailuresInv
<1>3. CASE StayStep
  <2>1. LocatesFailures(position)'
    BY <1>1, <1>2, <1>3 DEF StayStep, PastKept, LocatesFailures, Failures
  <2>2. QED
    BY <2>1 DEF FailuresInv
<1>4. CASE NewCycleStep
  <2>1. Failures' = {} /\ 1 .. at' - 1 = {}
    BY <1>4 DEF NewCycleStep, Failures
  <2>2. LocatesFailures([k \in {} |-> 0])'
    BY <2>1 DEF LocatesFailures
  <2>3. QED
    BY <2>2 DEF FailuresInv
<1>5. CASE CachedStep
  <2>1. /\ 1 .. at' - 1 = 1 .. at
        /\ \A i \in 1 .. at : i \in 1 .. at - 1 \/ i = at
        /\ fetched'[at] # None
    BY <1>1, <1>5, NoneAssumption DEF CachedStep
  <2>2. LocatesFailures(position)'
    BY <1>1, <1>2, <1>5, <2>1 DEF CachedStep, PastKept, LocatesFailures, Failures
  <2>3. QED
    BY <2>2 DEF FailuresInv
<1>6. ASSUME MoreParticipants, NEW cause \in FetchError \union {"cache"},
             FailsWith(cause), at' = at + 1, PastKept
      PROVE  FailuresInv'
  <2>1. PICK n \in Nat :
          /\ Failures = 1 .. n /\ Failures' = 1 .. n + 1
          /\ \A k \in Failures' : k \in 1 .. n \/ k = n + 1
          /\ \A k \in 1 .. n : summary'.failures[k] = summary.failures[k]
          /\ summary'.failures[n + 1] = [id |-> Current.id, cause |-> cause]
    BY <1>1, <1>6, LongerList
  <2>2. /\ 1 .. at' - 1 = 1 .. at
        /\ \A i \in 1 .. at : i \in 1 .. at - 1 \/ i = at
    BY <1>1, <1>6
  <2>3. PICK extended : extended = [k \in 1 .. n + 1 |-> IF k = n + 1 THEN at ELSE position[k]]
    OBVIOUS
  <2>4. /\ extended[n + 1] = at
        /\ \A k \in 1 .. n : extended[k] = position[k] /\ position[k] \in 1 .. at - 1
    BY <1>2, <2>1, <2>3 DEF LocatesFailures
  <2>5. extended \in [Failures' -> 1 .. at' - 1]
    <3>1. \A k \in 1 .. n + 1 : extended[k] \in 1 .. at
      BY <1>1, <2>1, <2>4
    <3>2. QED
      BY <2>1, <2>2, <2>3, <3>1
  <2>6. ASSUME NEW k \in Failures', NEW l \in Failures', k < l
        PROVE  extended[k] < extended[l]
    <3>1. k \in 1 .. n /\ extended[k] = position[k] /\ position[k] \in 1 .. at - 1
      BY <2>1, <2>4, <2>6
    <3>2. CASE l = n + 1
      BY <1>1, <2>4, <3>1, <3>2
    <3>3. CASE l \in 1 .. n
      BY <1>2, <2>1, <2>4, <2>6, <3>1, <3>3 DEF LocatesFailures
    <3>4. QED
      BY <2>1, <3>2, <3>3
  <2>7. ASSUME NEW k \in Failures'
        PROVE  summary'.failures[k].id = config'.participants[extended[k]].id
    <3>1. CASE k = n + 1
      BY <1>1, <2>1, <2>4, <3>1 DEF Current
    <3>2. CASE k \in 1 .. n
      BY <1>1, <1>2, <2>1, <2>4, <3>2 DEF LocatesFailures
    <3>3. QED
      BY <2>1, <3>1, <3>2
  <2>8. ASSUME NEW i \in 1 .. at' - 1, fetched'[i] = None
        PROVE  \E k \in Failures' : extended[k] = i
    <3>1. CASE i = at
      BY <2>1, <2>4, <3>1
    <3>2. CASE i \in 1 .. at - 1
      <4>1. PICK k \in Failures : position[k] = i
        BY <1>2, <1>6, <2>8, <3>2 DEF LocatesFailures, PastKept
      <4>2. k \in Failures' /\ extended[k] = i
        BY <2>1, <2>4, <4>1
      <4>3. QED
        BY <4>2
    <3>3. QED
      BY <2>2, <3>1, <3>2
  <2>9. LocatesFailures(extended)'
    BY <2>5, <2>6, <2>7, <2>8 DEF LocatesFailures
  <2>10. QED
    BY <2>9 DEF FailuresInv
<1>7. QED
  BY <1>3, <1>4, <1>5, <1>6, KindsOfStep DEF TurnStep, NoCatalogStep, CacheFailsStep

(* What a turn over, or the list of failures growing, means for one id.    *)
LEMMA TurnAdded ==
    ASSUME TypeOK, MoreParticipants, config' = config, at' = at + 1
    PROVE  /\ \A i \in 1 .. at' - 1 : i \in 1 .. at - 1 \/ i = at
           /\ \A id : id = Current.id => at \in TurnsOf(id)'
           /\ \A id : TurnsOf(id) \subseteq TurnsOf(id)'
           /\ \A id : \A i \in TurnsOf(id) : i < at
BY ConfigTypes DEF TurnsOf, Current

LEMMA CacheFailuresKept ==
    ASSUME TypeOK, MoreParticipants, NEW cause \in FetchError \union {"cache"},
           FailsWith(cause)
    PROVE  /\ \A id : CacheFailed(id) => CacheFailed(id)'
           /\ \A id : cause = "cache" /\ id = Current.id => CacheFailed(id)'
<1>1. PICK n \in Nat :
        /\ Failures = 1 .. n /\ Failures' = 1 .. n + 1
        /\ \A k \in 1 .. n : summary'.failures[k] = summary.failures[k]
        /\ summary'.failures[n + 1] = [id |-> Current.id, cause |-> cause]
  BY LongerList
<1>2. n + 1 \in Failures' /\ \A k \in Failures : k \in Failures'
  BY <1>1
<1>3. \A id : CacheFailed(id) => CacheFailed(id)'
  BY <1>1, <1>2 DEF CacheFailed
<1>4. \A id : cause = "cache" /\ id = Current.id => CacheFailed(id)'
  BY <1>1, <1>2 DEF CacheFailed
<1>5. QED
  BY <1>3, <1>4

LEMMA CacheStep ==
    ASSUME CrawlInv, [Next]_vars
    PROVE  KeptInv' /\ CachedInv'
<1>1. /\ TypeOK /\ KeptInv /\ CachedInv /\ config' = config
      /\ at \in Nat \ {0} /\ cache \in [ParticipantId -> Content \union {None}]
      /\ MoreParticipants => Current.id \in ParticipantId /\ at \in Positions
      /\ \A i \in 1 .. at - 1 : config.participants[i].id \in ParticipantId
  BY ConfigTypes, ConfigStep DEF CrawlInv, TypeOK, Participant
<1>2. CASE StayStep
  <2>1. /\ \A id : TurnsOf(id)' = TurnsOf(id) /\ (CacheFailed(id)' <=> CacheFailed(id))
        /\ \A id : TurnsOf(id) \subseteq 1 .. at - 1
        /\ \A i \in 1 .. at - 1 : fetched'[i] = fetched[i]
    BY <1>1, <1>2 DEF StayStep, PastKept, TurnsOf, CacheFailed, Failures
  <2>2. KeptInv'
    BY <1>1, <1>2, <2>1 DEF StayStep, KeptInv
  <2>3. CachedInv'
    BY <1>1, <1>2, <2>1 DEF StayStep, CachedInv
  <2>4. QED
    BY <2>2, <2>3
<1>3. CASE NewCycleStep
  <2>1. 1 .. at' - 1 = {}
    BY <1>3 DEF NewCycleStep
  <2>2. QED
    BY <1>3, <2>1 DEF NewCycleStep, KeptInv, CachedInv
<1>4. CASE TurnStep
  <2>0. PICK id0 : id0 = Current.id
    OBVIOUS
  <2>1. /\ MoreParticipants /\ at' = at + 1 /\ before' = before
        /\ \A i \in 1 .. at - 1 : fetched'[i] = fetched[i]
        /\ config'.participants[at].id = id0
    BY <1>1, <1>4, <2>0
       DEF TurnStep, NoCatalogStep, CachedStep, CacheFailsStep, PastKept, Current
  <2>2. /\ \A i \in 1 .. at' - 1 : i \in 1 .. at - 1 \/ i = at
        /\ at \in TurnsOf(id0)' /\ at \in 1 .. at' - 1
        /\ \A id : TurnsOf(id) \subseteq TurnsOf(id)' /\ TurnsOf(id) \subseteq 1 .. at - 1
        /\ \A i \in 1 .. at - 1 : i < at
    BY <1>1, <2>0, <2>1, TurnAdded DEF TurnsOf
  <2>3. \A id : CacheFailed(id) => CacheFailed(id)'
    BY <1>1, <1>4, CacheFailuresKept
       DEF TurnStep, NoCatalogStep, CachedStep, CacheFailsStep, CacheFailed, Failures
  <2>4. \A id \in ParticipantId \ {id0} : cache'[id] = cache[id]
    BY <1>1, <1>4, <2>0 DEF TurnStep, NoCatalogStep, CachedStep, CacheFailsStep, Stored
  <2>5. fetched'[at] = None => cache' = cache
    BY <1>4, NoneAssumption DEF TurnStep, NoCatalogStep, CachedStep, CacheFailsStep
  <2>6. \/ fetched'[at] = None
        \/ cache'[id0] = fetched'[at]
        \/ CacheFailed(id0)'
    BY <1>1, <1>4, <2>0, <2>1, CacheFailuresKept
       DEF TurnStep, NoCatalogStep, CachedStep, CacheFailsStep, Stored
  <2>7. ASSUME NEW id \in ParticipantId, \A i \in TurnsOf(id)' : fetched'[i] = None
        PROVE  cache'[id] = before'[id]
    <3>1. \A i \in TurnsOf(id) : fetched[i] = None
      BY <2>1, <2>2, <2>7
    <3>2. cache[id] = before[id]
      BY <1>1, <3>1 DEF KeptInv
    <3>3. cache'[id] = cache[id]
      <4>1. id = id0 => fetched'[at] = None
        BY <2>2, <2>7
      <4>2. QED
        BY <2>4, <2>5, <4>1
    <3>4. QED
      BY <2>1, <3>2, <3>3
  <2>8. ASSUME NEW i \in 1 .. at' - 1, NEW id, id = config.participants[i].id,
               fetched'[i] # None,
               \A j \in TurnsOf(id)' : j > i => fetched'[j] = None,
               ~CacheFailed(id)'
        PROVE  cache'[id] = fetched'[i]
    <3>1. CASE i = at
      BY <1>1, <2>1, <2>6, <2>8, <3>1
    <3>2. CASE i \in 1 .. at - 1
      <4>1. /\ fetched[i] # None /\ ~CacheFailed(id) /\ id \in ParticipantId
            /\ \A j \in TurnsOf(id) : j > i => fetched[j] = None
        BY <1>1, <2>1, <2>2, <2>3, <2>8, <3>2
      <4>2. cache[id] = fetched[i]
        BY <1>1, <2>8, <3>2, <4>1 DEF CachedInv
      <4>3. id = id0 => fetched'[at] = None
        BY <1>1, <2>2, <2>8, <3>2
      <4>4. cache'[id] = cache[id]
        BY <2>4, <2>5, <4>1, <4>3
      <4>5. QED
        BY <2>1, <3>2, <4>2, <4>4
    <3>3. QED
      BY <2>2, <3>1, <3>2
  <2>9. KeptInv'
    BY <2>7 DEF KeptInv
  <2>10. CachedInv'
    BY <1>1, <2>8 DEF CachedInv
  <2>11. QED
    BY <2>9, <2>10
<1>5. QED
  BY <1>2, <1>3, <1>4, KindsOfStep

LEMMA ClockStep ==
    ASSUME CrawlInv, [Next]_vars
    PROVE  ClockInv'
<1> USE DEF timeVars
<1>1. /\ ClockInv /\ config' = config /\ Period' = Period
      /\ Period \in Nat /\ now \in Nat /\ cycles \in Nat /\ next_tick \in Nat
  BY ConfigTypes, ConfigStep, MaxTimeAssumption DEF CrawlInv, TypeOK, Period
<1>2. CASE Load
  <2>1. now = 0 /\ cycles = 0 /\ next_tick' = 0 /\ UNCHANGED <<now, cycles>>
    BY <1>1, <1>2 DEF Load, ClockInv
  <2>2. QED
    BY <1>1, <2>1 DEF ClockInv
<1>3. CASE Tick
  <2>1. /\ next_tick <= now /\ next_tick' = next_tick + Period /\ cycles' = cycles + 1
        /\ now' = now /\ pc' = "crawling"
    BY <1>1, <1>3 DEF Tick, NextDeadline
  <2>2. (cycles + 1) * Period = cycles * Period + Period
    BY <1>1
  <2>3. QED
    BY <1>1, <2>1, <2>2 DEF ClockInv
<1>4. CASE Advance
  BY <1>1, <1>4 DEF Advance, ClockInv
<1>5. CASE ~Load /\ ~Tick /\ ~Advance
  <2>1. UNCHANGED timeVars /\ (pc' \in {"starting", "refused"} => pc' = pc)
    BY <1>5 DEF Next, Task, Answer, Send, FetchFails, FetchSucceeds, UpsertOk,
           UpsertFails, EndCycle, Stopped, vars
  <2>2. QED
    BY <1>1, <2>1 DEF ClockInv
<1>6. QED
  BY <1>2, <1>3, <1>4, <1>5

(* Division by a period, as multiplication.                                *)
LEMMA QuotientBounds ==
    ASSUME NEW n \in Nat, NEW p \in Nat \ {0}, NEW c \in Nat
    PROVE  /\ n \div p \in Nat
           /\ c * p <= n => c <= n \div p
           /\ n < c * p => n \div p < c
<1>1. PICK q \in Int : q = n \div p
  OBVIOUS
<1>2. q * p <= n /\ n < (q + 1) * p
  BY <1>1
<1>3. q \in Nat
  <2>1. CASE q < 0
    <3>1. (q + 1) * p <= 0
      BY <2>1
    <3>2. QED
      BY <1>2, <3>1
  <2>2. QED
    BY <2>1
<1>4. ASSUME c * p <= n
      PROVE  c <= q
  <2>1. CASE c >= q + 1
    <3>1. c * p >= (q + 1) * p
      BY <2>1
    <3>2. QED
      BY <1>2, <1>4, <3>1
  <2>2. QED
    BY <2>1
<1>5. ASSUME n < c * p
      PROVE  q < c
  <2>1. CASE q >= c
    <3>1. q * p >= c * p
      BY <2>1
    <3>2. QED
      BY <1>2, <1>5, <3>1
  <2>2. QED
    BY <2>1
<1>6. QED
  BY <1>1, <1>3, <1>4, <1>5

LEMMA ClockGivesOneCyclePerPeriod ==
    ASSUME CrawlInv
    PROVE  OneCyclePerPeriod
<1>1. /\ Period \in Nat \ {0} /\ now \in Nat /\ cycles \in Nat
      /\ next_tick = cycles * Period /\ (cycles = 0 \/ next_tick <= now + Period)
  BY ConfigTypes, MaxTimeAssumption DEF CrawlInv, TypeOK, ClockInv
<1>2. now \div Period \in Nat
  BY <1>1, QuotientBounds
<1>3. CASE cycles = 0
  BY <1>1, <1>2, <1>3 DEF OneCyclePerPeriod
<1>4. CASE cycles # 0
  <2>1. cycles - 1 \in Nat /\ (cycles - 1) * Period = next_tick - Period
    BY <1>1, <1>4
  <2>2. cycles - 1 <= now \div Period
    BY <1>1, <1>4, <2>1, QuotientBounds
  <2>3. now < next_tick => now \div Period < cycles
    BY <1>1, QuotientBounds
  <2>4. QED
    BY <1>1, <1>2, <2>2, <2>3 DEF OneCyclePerPeriod
<1>5. QED
  BY <1>3, <1>4

LEMMA CrawlInvAlways == Spec => []CrawlInv
<1>1. CrawlInv /\ [Next]_vars => CrawlInv'
  BY TypeOKStep, ConfigStep, CountsStep, ConfigErrorsStep, FailuresStep, CacheStep,
     ClockStep DEF CrawlInv
<1>2. QED
  BY <1>1, CrawlInvInit, PTL DEF Spec

-----------------------------------------------------------------------------
(* When a cycle is done, every participant has had its turn.               *)
LEMMA AllTurnsOver ==
    ASSUME CrawlInv, Done
    PROVE  /\ 1 .. at - 1 = Positions
           /\ at - 1 = Len(config.participants)
           /\ pc = "waiting"
           /\ \A id : PositionsOf(id) = TurnsOf(id)
<1>1. ~MoreParticipants /\ at \in 1 .. Len(config.participants) + 1
  BY DEF CrawlInv, CountsInv, TypeOK
<1>2. /\ Len(config.participants) \in Nat /\ at \in Nat
      /\ Positions = 1 .. Len(config.participants)
  BY ConfigTypes DEF CrawlInv
<1>3. at - 1 = Len(config.participants)
  BY <1>1, <1>2 DEF MoreParticipants
<1>4. QED
  BY <1>2, <1>3 DEF PositionsOf, TurnsOf, Done

(***************************************************************************)
(* The crawler's state stays well formed: the position in the list of      *)
(* participants never runs past its end, and the summary lists failures of *)
(* configured participants only.                                           *)
(***************************************************************************)
THEOREM TypeCorrect == Spec => []TypeOK
BY CrawlInvAlways, PTL DEF CrawlInv

(***************************************************************************)
(* crawl_once gives every configured participant exactly one turn, counts  *)
(* it once, and lists in order those that failed, however many answered    *)
(* badly and whichever ids are configured twice.                           *)
(***************************************************************************)
THEOREM EveryTurnAccounted == Spec => []SummaryComplete
<1>1. CrawlInv => SummaryComplete
  <2> SUFFICES ASSUME CrawlInv, Done
               PROVE  /\ summary.attempted = Len(config.participants)
                      /\ summary.succeeded + summary.failed = summary.attempted
                      /\ summary.failed = Len(summary.failures)
                      /\ \E position \in [Failures -> Positions] :
                            /\ \A k, l \in Failures : k < l => position[k] < position[l]
                            /\ \A k \in Failures :
                                  summary.failures[k].id
                                    = config.participants[position[k]].id
                            /\ \A i \in Positions :
                                  fetched[i] = None => \E k \in Failures : position[k] = i
    BY DEF SummaryComplete
  <2>1. /\ 1 .. at - 1 = Positions /\ at - 1 = Len(config.participants)
        /\ pc = "waiting"
    BY AllTurnsOver
  <2>2. PICK position : LocatesFailures(position)
    BY DEF CrawlInv, FailuresInv
  <2>3. /\ position \in [Failures -> Positions]
        /\ \A k, l \in Failures : k < l => position[k] < position[l]
        /\ \A k \in Failures :
              summary.failures[k].id = config.participants[position[k]].id
        /\ \A i \in Positions :
              fetched[i] = None => \E k \in Failures : position[k] = i
    BY <2>1, <2>2 DEF LocatesFailures
  <2>4. /\ summary.attempted = Len(config.participants)
        /\ summary.succeeded + summary.failed = summary.attempted
        /\ summary.failed = Len(summary.failures)
    BY <2>1 DEF CrawlInv, CountsInv
  <2>5. QED
    BY <2>3, <2>4
<1>2. QED
  BY <1>1, CrawlInvAlways, PTL

(***************************************************************************)
(* A participant none of whose fetches of a cycle succeeded still has, at  *)
(* the cycle's end, the catalog cached when the cycle began.               *)
(***************************************************************************)
THEOREM FailuresLeaveCatalogs == Spec => []FailedCrawlKeepsCatalog
<1>1. CrawlInv => FailedCrawlKeepsCatalog
  BY AllTurnsOver DEF CrawlInv, KeptInv, FailedCrawlKeepsCatalog
<1>2. QED
  BY <1>1, CrawlInvAlways, PTL

(***************************************************************************)
(* At the end of a cycle the cache holds what a participant answered with  *)
(* last in it, unless storing one of its catalogs failed.                  *)
(***************************************************************************)
THEOREM FreshCatalogs == Spec => []CrawledCatalogCached
<1>1. CrawlInv => CrawledCatalogCached
  BY AllTurnsOver DEF CrawlInv, CachedInv, CacheFailed, CrawledCatalogCached
<1>2. QED
  BY <1>1, CrawlInvAlways, PTL

(***************************************************************************)
(* ParticipantsConfig::validate makes crawl_one's own checks unreachable:  *)
(* no crawl ever fails for want of a holder or of a provider DID.          *)
(***************************************************************************)
THEOREM ValidatedConfigSuffices == Spec => []ConfigErrorsUnreachable
BY CrawlInvAlways, PTL DEF CrawlInv

(***************************************************************************)
(* spawn_scheduler's interval: no more cycles than deadlines passed, and   *)
(* none missed once the task waits again, however slow the cycles were.    *)
(***************************************************************************)
THEOREM CyclesFollowClock == Spec => []OneCyclePerPeriod
BY CrawlInvAlways, ClockGivesOneCyclePerPeriod, PTL

=============================================================================
