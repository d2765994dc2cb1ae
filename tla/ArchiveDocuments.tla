--------------------------- MODULE ArchiveDocuments ---------------------------
(***************************************************************************)
(* The archive codec: how a finished run becomes a JSON document of schema *)
(* version 1 or 2, and which documents become a run again.                 *)
(*                                                                         *)
(* A JSON object is a record, so its keys are its DOMAIN, and a missing or *)
(* surplus key makes a record with another domain.  A scalar is written    *)
(* plainly where the code accepts one type only, and as [type, n] where it *)
(* tells 1, 1.0 and true apart.  A decoder is two operators: ...Reads says *)
(* that it raises nothing, ...Of is what it then returns.  Texts that are  *)
(* copied verbatim (messages, units, the clock and the ammeter type of a   *)
(* single measurement) are left out, and with them the check that the type *)
(* and the unit of every sample are those of its window.                   *)
(*                                                                         *)
(* Times are ticks and NoTime is null.  Currents count units in the last   *)
(* place, which makes the tolerance of the statistics a number, upwards    *)
(* from below the smallest one, so that none is NoTime.                    *)
(***************************************************************************)
EXTENDS SampleModels, SequencesExt

CONSTANT TicksPerSecond   \* ticks of every clock here

ASSUME TickAssumption == TicksPerSecond \in Nat \ {0}

ARCHIVE_SCHEMA_VERSION == 2
SUPPORTED_ARCHIVE_SCHEMA_VERSIONS == {1, 2}
RETRY_SCHEMA_VERSION == 2

Float(n) == [type |-> "float", n |-> n]
Null == [type |-> "null"]

HasKeys(object, keys) == keys \subseteq DOMAIN object

\* isoformat() whose offset becomes a Z; None is the stamp of NoTime.
Stamp(t) == [at |-> t, suffix |-> "Z"]

\* parse_utc_timestamp takes a Z or a zero offset, and no naive time.
StampReads(stamp) == stamp.suffix \in {"Z", "+00:00"}

\* The elements of S in the order R, a set of pairs, puts them in.
InOrder(S, R) ==
  SubSeq([i \in 1 .. Cardinality(S) |->
            CHOOSE x \in S : Cardinality({y \in S : <<y, x>> \in R}) = i - 1],
         1, Cardinality(S))

Increasing == [S \in SUBSET Nat |-> InOrder(S, {p \in S \X S : p[1] < p[2]})]

\* The members of a sequence at some of its places.
Picked(s, places) ==
  LET order == Increasing[places]
  IN  SubSeq([i \in DOMAIN order |-> s[order[i]]], 1, Len(order))

-----------------------------------------------------------------------------
(* Statistics of the successful readings.                                  *)

Currents(samples) ==
  Picked([i \in DOMAIN samples |-> samples[i].result.current], SuccessfulSlots(samples))

Sorted(values) ==
  LET places == DOMAIN values
      order  == InOrder(places, {p \in places \X places :
                                   \/ values[p[1]] < values[p[2]]
                                   \/ values[p[1]] = values[p[2]] /\ p[1] < p[2]})
  IN  SubSeq([i \in places |-> values[order[i]]], 1, Len(values))

Total(values) ==
  LET upTo[n \in 0 .. Len(values)] == IF n = 0 THEN 0 ELSE upTo[n - 1] + values[n]
  IN  upTo[Len(values)]

\* The deviation of the population, in whole units.
Root == [n \in Nat |-> CHOOSE d \in 0 .. n : d * d <= n /\ (d + 1) * (d + 1) > n]

Deviation(values, mean) ==
  LET squares == [i \in DOMAIN values |-> (values[i] - mean) * (values[i] - mean)]
  IN  Root[Total(squares) \div Len(values)]

CurrentStatisticsAccepts(s) ==
  /\ s.measurements_count >= 1
  /\ s.standard_deviation_current \in Nat
  /\ s.mean_current \in s.minimum_current .. s.maximum_current
  /\ s.median_current \in s.minimum_current .. s.maximum_current
  /\ s.measurements_count = 1 =>
       /\ {s.median_current, s.minimum_current, s.maximum_current} = {s.mean_current}
       /\ s.standard_deviation_current = 0

CalculateCurrentStatistics == [values \in Seq(Int) |->
  LET count  == Len(values)
      sorted == Sorted(values)
      middle == count \div 2 + 1
      mean   == Total(values) \div count
  IN  IF count = 0 THEN Null ELSE
      [measurements_count |-> count,
       mean_current       |-> mean,
       median_current     |-> IF count % 2 = 1 THEN sorted[middle]
                              ELSE (sorted[middle - 1] + sorted[middle]) \div 2,
       standard_deviation_current |-> Deviation(values, mean),
       minimum_current    |-> sorted[1],
       maximum_current    |-> sorted[count]]]

\* An analysis is its sampling result; the statistics follow from it.
Statistics(result) == CalculateCurrentStatistics[Currents(result.samples)]

MAX_RETRY_DELAY_SECONDS == 60

RetryPolicyAccepts(attempts, delay) ==
  /\ attempts \in 1 .. MaxAttemptsPerSlot
  /\ delay >= 0 /\ delay <= MAX_RETRY_DELAY_SECONDS * TicksPerSecond

MAX_MEASUREMENTS_COUNT == 100000
MAX_TOTAL_DURATION_SECONDS == 86400
MAX_SAMPLING_FREQUENCY_HZ == 10000

\* N = D * F, with the period of one slot in place of its frequency.
SamplingSettingsAccepts(count, duration, period) ==
  /\ count >= 1 /\ count <= MAX_MEASUREMENTS_COUNT
  /\ duration > 0 /\ duration <= MAX_TOTAL_DURATION_SECONDS * TicksPerSecond
  /\ period > 0 /\ TicksPerSecond <= period * MAX_SAMPLING_FREQUENCY_HZ
  /\ duration = count * period

\* What the constructors of an archived run and of everything in it let pass.
ArchivedMeasurement ==
  [status : Status, measured : BOOLEAN, current : Nat \cup {NoTime},
   latency : Nat \cup {NoTime}, errors : SUBSET ErrorCode]

ArchivedSample ==
  [index : Nat, scheduled : Nat, started : Nat \cup {NoTime}, completed : Nat,
   attempts : Nat, result : ArchivedMeasurement]

ArchivedSampling ==
  [ammeter : STRING, status : Status, timestamp : Nat, elapsed : Nat, opened : BOOLEAN,
   startedAt : Nat \cup {NoTime}, samplingElapsed : Nat \cup {NoTime}, count : Nat,
   duration : Nat, period : Nat, samples : Seq(ArchivedSample), errors : SUBSET ErrorCode,
   maxAttempts : Nat, retryDelay : Nat]

\* A window is its own constructors' business, whatever is done with it later.
WindowAccepts(r) ==
  /\ r \in ArchivedSampling
  /\ \A i \in DOMAIN r.samples :
       /\ SampleResultAccepts(r.samples[i])
       /\ r.samples[i].result.measured <=> r.samples[i].result.current # NoTime
       /\ r.samples[i].result.current = NoTime <=> r.samples[i].result.latency = NoTime
  /\ r.opened <=> r.startedAt # NoTime
  /\ RetryPolicyAccepts(r.maxAttempts, r.retryDelay)
  /\ SamplingSettingsAccepts(r.count, r.duration, r.period)
  /\ SamplingResultAccepts(r)

\* An archived run has such a window, and statistics that pass in their turn.
RunAccepts(run) ==
  /\ run \in [run_id : {run.run_id}, archived_at : Nat, metadata : {run.metadata},
              result : {run.result}]
  /\ WindowAccepts(run.result)
  /\ LET s == Statistics(run.result) IN s = Null \/ CurrentStatisticsAccepts(s)

-----------------------------------------------------------------------------
(* Encoding.                                                               *)

\* A key that only the documents with retries have.
WithRetryKey(object, key, value, version) ==
  IF version < RETRY_SCHEMA_VERSION THEN object
  ELSE [k \in DOMAIN object \cup {key} |-> IF k = key THEN value ELSE object[k]]

MeasurementDocument(r) ==
  [status |-> r.status, current |-> r.current,
   request_latency |-> r.latency, errors |-> r.errors]

SampleDocument(s, started, version) ==
  WithRetryKey(
    [sample_index |-> s.index,
     scheduled    |-> s.scheduled,
     scheduled_at |-> Stamp(started + s.scheduled),
     started      |-> s.started,
     started_at   |-> Stamp(IF s.started = NoTime THEN NoTime ELSE started + s.started),
     completed    |-> s.completed,
     timing_error |-> IF s.started = NoTime THEN NoTime ELSE s.started - s.scheduled,
     result       |-> MeasurementDocument(s.result)],
    "request_attempts", s.attempts, version)

Missed(samples) == Cardinality({i \in DOMAIN samples : MissedSlot(samples[i])})

SamplingDocument(r, version) ==
  LET ok == Cardinality(SuccessfulSlots(r.samples))
  IN  WithRetryKey(
        [ammeter_type     |-> r.ammeter,
         status           |-> r.status,
         timestamp        |-> Stamp(r.timestamp),
         elapsed          |-> r.elapsed,
         sampling_started |-> Stamp(r.startedAt),
         sampling_elapsed |-> r.samplingElapsed,
         settings |-> [measurements_count |-> r.count, total_duration |-> r.duration,
                       slot_period |-> r.period],
         summary  |-> [successful |-> ok, missed |-> Missed(r.samples),
                       failed |-> Len(r.samples) - ok - Missed(r.samples)],
         samples  |-> [i \in DOMAIN r.samples |->
                         SampleDocument(r.samples[i], r.startedAt, version)],
         errors   |-> r.errors],
        "retry", [max_attempts |-> r.maxAttempts, retry_delay |-> r.retryDelay], version)

Metrics == {"mean_current", "median_current", "standard_deviation_current",
            "minimum_current", "maximum_current"}

StatisticsDocument(s) ==
  IF s = Null THEN Null
  ELSE [k \in DOMAIN s |-> IF k \in Metrics THEN Float(s[k]) ELSE s[k]]

AnalysisDocument(r, version) ==
  LET ok == Cardinality(SuccessfulSlots(r.samples))
  IN  [ammeter_type |-> r.ammeter,
       status       |-> r.status,
       timestamp    |-> Stamp(r.timestamp),
       summary |-> [planned |-> r.count, recorded |-> Len(r.samples), analyzed |-> ok,
                    excluded |-> Len(r.samples) - ok, missed |-> Missed(r.samples),
                    failed |-> Len(r.samples) - ok - Missed(r.samples)],
       statistics      |-> StatisticsDocument(Statistics(r)),
       sampling_result |-> SamplingDocument(r, version)]

RunDocument(run, version) ==
  [schema_version |-> version,
   run_id         |-> run.run_id,
   archived_at    |-> Stamp(run.archived_at),
   metadata       |-> run.metadata,
   analysis       |-> AnalysisDocument(run.result, version)]

-----------------------------------------------------------------------------
(* Decoding: each level raises on a missing key, on a wrong value and on   *)
(* what the frozen dataclass it builds refuses.                            *)

MeasurementOf(d) ==
  [status |-> d.status, measured |-> d.current # NoTime,
   current |-> d.current, latency |-> d.request_latency, errors |-> d.errors]

MeasurementReads(d) ==
  /\ HasKeys(d, {"status", "current", "request_latency", "errors"})
  /\ d.status \in Status
  /\ d.errors \subseteq ErrorCode
  /\ (d.current = NoTime) = (d.request_latency = NoTime)
  /\ MeasurementResultAccepts(MeasurementOf(d))

\* Mutated form of SampleOf: version 1 had one request in every slot.
SampleOfWithoutDefault(d, version) ==
  [index |-> d.sample_index, scheduled |-> d.scheduled,
   started |-> d.started, completed |-> d.completed,
   attempts |-> IF "request_attempts" \in DOMAIN d THEN d.request_attempts ELSE 1,
   result |-> MeasurementOf(d.result)]

\* Version 1 predates retries: a started slot had one request, a missed none.
SampleOf(d, version) ==
  [index |-> d.sample_index, scheduled |-> d.scheduled,
   started |-> d.started, completed |-> d.completed,
   attempts |-> IF version >= RETRY_SCHEMA_VERSION THEN d.request_attempts
                ELSE IF d.started = NoTime THEN 0 ELSE 1,
   result |-> MeasurementOf(d.result)]

SampleReads(d, version) ==
  /\ HasKeys(d, {"sample_index", "scheduled", "started", "completed", "result"})
  /\ ("request_attempts" \in DOMAIN d) = (version >= RETRY_SCHEMA_VERSION)
  /\ MeasurementReads(d.result)
  /\ SampleResultAccepts(SampleOf(d, version))

SamplingOf(d, version) ==
  [ammeter |-> d.ammeter_type, status |-> d.status,
   timestamp |-> d.timestamp.at, elapsed |-> d.elapsed,
   opened |-> d.sampling_started.at # NoTime,
   startedAt |-> d.sampling_started.at, samplingElapsed |-> d.sampling_elapsed,
   count |-> d.settings.measurements_count, duration |-> d.settings.total_duration,
   period |-> d.settings.slot_period,
   samples |-> [i \in DOMAIN d.samples |-> SampleOf(d.samples[i], version)],
   errors |-> d.errors,
   maxAttempts |-> IF version >= RETRY_SCHEMA_VERSION THEN d.retry.max_attempts ELSE 1,
   retryDelay  |-> IF version >= RETRY_SCHEMA_VERSION THEN d.retry.retry_delay ELSE 0]

SamplingReads(d, version) ==
  /\ IF version >= RETRY_SCHEMA_VERSION
       THEN /\ HasKeys(d, {"retry"})
            /\ HasKeys(d.retry, {"max_attempts", "retry_delay"})
            /\ RetryPolicyAccepts(d.retry.max_attempts, d.retry.retry_delay)
       ELSE "retry" \notin DOMAIN d
  /\ HasKeys(d, {"ammeter_type", "status", "timestamp", "elapsed", "sampling_started",
                 "sampling_elapsed", "settings", "samples", "errors"})
  /\ d.status \in Status
  /\ d.errors \subseteq ErrorCode
  /\ StampReads(d.timestamp) /\ StampReads(d.sampling_started)
  /\ HasKeys(d.settings, {"measurements_count", "total_duration", "slot_period"})
  /\ SamplingSettingsAccepts(d.settings.measurements_count, d.settings.total_duration,
                             d.settings.slot_period)
  /\ \A i \in DOMAIN d.samples : SampleReads(d.samples[i], version)
  /\ SamplingResultAccepts(SamplingOf(d, version))

-----------------------------------------------------------------------------
(* A stored document must be what its run encodes to; only the five metrics *)
(* may differ, by eight units in the last place.                           *)

MetricTolerance == 8

\* Mutated form of MetricsMatch: the difference without its absolute value.
MetricsMatchFromBelow(recalculated, stored) ==
  /\ stored.type = "float"
  /\ recalculated.n - stored.n <= MetricTolerance

MetricsMatch(recalculated, stored) ==
  /\ stored.type = "float"
  /\ recalculated.n - stored.n \in -MetricTolerance .. MetricTolerance

StatisticsMatch(recalculated, stored) ==
  \/ recalculated = Null /\ stored = Null
  \/ /\ recalculated # Null /\ stored # Null
     /\ DOMAIN recalculated = DOMAIN stored
     /\ \A k \in DOMAIN stored :
          IF k \in Metrics THEN MetricsMatch(recalculated[k], stored[k])
                           ELSE recalculated[k] = stored[k]

AnalysisDocumentsMatch(recalculated, stored) ==
  /\ DOMAIN recalculated = DOMAIN stored
  /\ \A k \in DOMAIN stored \ {"statistics"} : recalculated[k] = stored[k]
  /\ StatisticsMatch(recalculated.statistics, stored.statistics)

ArchiveDocumentsMatch(recalculated, stored) ==
  /\ DOMAIN recalculated = DOMAIN stored
  /\ \A k \in DOMAIN stored \ {"analysis"} : recalculated[k] = stored[k]
  /\ AnalysisDocumentsMatch(recalculated.analysis, stored.analysis)

\* The analysis is built from the decoded window, statistics and all.
AnalysisReads(d, version) ==
  /\ HasKeys(d, {"sampling_result"})
  /\ SamplingReads(d.sampling_result, version)
  /\ LET result == SamplingOf(d.sampling_result, version)
         s      == Statistics(result)
     IN  /\ s = Null \/ CurrentStatisticsAccepts(s)
         /\ AnalysisDocumentsMatch(AnalysisDocument(result, version), d)

RunOf(d) ==
  [run_id |-> d.run_id, archived_at |-> d.archived_at.at, metadata |-> d.metadata,
   result |-> SamplingOf(d.analysis.sampling_result, d.schema_version)]

\* The version decides before anything else is looked at.
VersionSupported(d) == d.schema_version \in SUPPORTED_ARCHIVE_SCHEMA_VERSIONS

RunReads(d) ==
  /\ HasKeys(d, {"schema_version"}) /\ VersionSupported(d)
  /\ HasKeys(d, {"run_id", "archived_at", "metadata", "analysis"})
  /\ StampReads(d.archived_at)
  /\ AnalysisReads(d.analysis, d.schema_version)
  /\ ArchiveDocumentsMatch(RunDocument(RunOf(d), d.schema_version), d)

\* What load_archived_test_run makes of the file of run id.
Loaded(d, id) ==
  CASE ~HasKeys(d, {"schema_version"}) -> "corrupt"
    [] HasKeys(d, {"schema_version"}) /\ ~VersionSupported(d) -> "unsupported"
    [] RunReads(d) /\ d.run_id = id -> "run"
    [] OTHER -> "corrupt"
=============================================================================
