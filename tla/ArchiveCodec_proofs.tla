-------------------------- MODULE ArchiveCodec_proofs -------------------------
(***************************************************************************)
(* The codec loses nothing and accepts no lie, for any set of archived     *)
(* runs that the constructors let pass, any number of samples and any      *)
(* number of edits.                                                        *)
(*                                                                         *)
(* Canonical... says what holds of every value the constructors return, by *)
(* whichever way it came to be.  First, level by level, the decoder undoes *)
(* the encoder on canonical values (RunDecodes).  Then, whatever is edited *)
(* keeps the types the comparisons need (Typed), and what is read from     *)
(* such a document is canonical again (ReadCanonical), which is why an     *)
(* export of it loads.  Last, a document that is read equals the encoding  *)
(* of the window it holds but for the five metrics (ReadFaithful), and     *)
(* what that encoding states is counted against its samples.               *)
(***************************************************************************)
EXTENDS ArchiveCodec, ArchiveDocuments_proofs

-----------------------------------------------------------------------------
(* What the encoder writes.                                                *)

(* The two versions are 1 and 2, and the second knows retries. *)
LEMMA Versions ==
  /\ SUPPORTED_ARCHIVE_SCHEMA_VERSIONS = {1, 2}
  /\ ARCHIVE_SCHEMA_VERSION = 2 /\ RETRY_SCHEMA_VERSION = 2
BY DEF SUPPORTED_ARCHIVE_SCHEMA_VERSIONS, ARCHIVE_SCHEMA_VERSION, RETRY_SCHEMA_VERSION

(* The stamp of a start that may be missing. *)
StartedAt(s, t) == Stamp(IF s.started = NoTime THEN NoTime ELSE t + s.started)

SampleKeys ==
  {"sample_index", "scheduled", "scheduled_at", "started", "started_at", "completed",
   "timing_error", "result"}

(* The keys and values of one encoded sample: request_attempts only in version 2. *)
LEMMA SampleWritten ==
  ASSUME NEW s, NEW t, NEW version \in {1, 2}
  PROVE  LET d == SampleDocument(s, t, version)
         IN  /\ DOMAIN d = SampleKeys \cup (IF version = 2 THEN {"request_attempts"} ELSE {})
             /\ d.sample_index = s.index /\ d.scheduled = s.scheduled
             /\ d.scheduled_at = Stamp(t + s.scheduled)
             /\ d.started = s.started /\ d.started_at = StartedAt(s, t)
             /\ d.completed = s.completed
             /\ d.timing_error = IF s.started = NoTime THEN NoTime ELSE s.started - s.scheduled
             /\ d.result = MeasurementDocument(s.result)
             /\ version = 2 => d.request_attempts = s.attempts
<1> DEFINE object ==
      [sample_index |-> s.index, scheduled |-> s.scheduled,
       scheduled_at |-> Stamp(t + s.scheduled), started |-> s.started,
       started_at |-> StartedAt(s, t), completed |-> s.completed,
       timing_error |-> IF s.started = NoTime THEN NoTime ELSE s.started - s.scheduled,
       result |-> MeasurementDocument(s.result)]
<1>1. PICK o : o = object
  OBVIOUS
<1>2. /\ DOMAIN o = SampleKeys
      /\ o.sample_index = s.index /\ o.scheduled = s.scheduled
      /\ o.scheduled_at = Stamp(t + s.scheduled)
      /\ o.started = s.started /\ o.started_at = StartedAt(s, t)
      /\ o.completed = s.completed
      /\ o.timing_error = IF s.started = NoTime THEN NoTime ELSE s.started - s.scheduled
      /\ o.result = MeasurementDocument(s.result)
  BY <1>1 DEF SampleKeys
<1>3. PICK d : d = WithRetryKey(o, "request_attempts", s.attempts, version)
  OBVIOUS
<1>4. SampleDocument(s, t, version) = d
  BY <1>1, <1>3 DEF SampleDocument, StartedAt
<1> HIDE DEF object
<1>5. "request_attempts" \notin DOMAIN o
  BY <1>2 DEF SampleKeys
<1>6. /\ DOMAIN d = DOMAIN o \cup (IF version = 2 THEN {"request_attempts"} ELSE {})
      /\ \A k \in DOMAIN o : d[k] = o[k]
      /\ version = 2 => d.request_attempts = s.attempts
  <2>1. CASE version = 1
    <3>1. d = o
      BY <2>1, <1>3, Versions DEF WithRetryKey
    <3> QED
      BY <2>1, <3>1
  <2>2. CASE version = 2
    <3>1. d = [k \in DOMAIN o \cup {"request_attempts"} |-> IF k = "request_attempts" THEN s.attempts ELSE o[k]]
      BY <2>2, <1>3, Versions DEF WithRetryKey
    <3> QED
      BY <2>2, <1>5, <3>1
  <2> QED
    BY <2>1, <2>2
<1>7. \A k \in SampleKeys : d[k] = o[k]
  BY <1>2, <1>6
<1> QED
  BY <1>2, <1>4, <1>6, <1>7 DEF SampleKeys

SamplingKeys ==
  {"ammeter_type", "status", "timestamp", "elapsed", "sampling_started", "sampling_elapsed",
   "settings", "summary", "samples", "errors"}

(* Those of an encoded window: retry only in version 2. *)
LEMMA SamplingWritten ==
  ASSUME NEW r, NEW version \in {1, 2}
  PROVE  LET d == SamplingDocument(r, version)
             ok == Cardinality(SuccessfulSlots(r.samples))
         IN  /\ DOMAIN d = SamplingKeys \cup (IF version = 2 THEN {"retry"} ELSE {})
             /\ d.ammeter_type = r.ammeter /\ d.status = r.status
             /\ d.timestamp = Stamp(r.timestamp) /\ d.elapsed = r.elapsed
             /\ d.sampling_started = Stamp(r.startedAt) /\ d.sampling_elapsed = r.samplingElapsed
             /\ d.settings = [measurements_count |-> r.count, total_duration |-> r.duration,
                              slot_period |-> r.period]
             /\ d.summary = [successful |-> ok, missed |-> Missed(r.samples),
                             failed |-> Len(r.samples) - ok - Missed(r.samples)]
             /\ d.samples = [i \in DOMAIN r.samples |->
                               SampleDocument(r.samples[i], r.startedAt, version)]
             /\ d.errors = r.errors
             /\ version = 2 =>
                  d.retry = [max_attempts |-> r.maxAttempts, retry_delay |-> r.retryDelay]
<1>0. PICK ok, missed, slots :
        /\ ok = Cardinality(SuccessfulSlots(r.samples)) /\ missed = Missed(r.samples)
        /\ slots = [i \in DOMAIN r.samples |-> SampleDocument(r.samples[i], r.startedAt, version)]
  OBVIOUS
<1>1. PICK o : o = [ammeter_type     |-> r.ammeter,
                    status           |-> r.status,
                    timestamp        |-> Stamp(r.timestamp),
                    elapsed          |-> r.elapsed,
                    sampling_started |-> Stamp(r.startedAt),
                    sampling_elapsed |-> r.samplingElapsed,
                    settings |-> [measurements_count |-> r.count, total_duration |-> r.duration,
                                  slot_period |-> r.period],
                    summary  |-> [successful |-> ok, missed |-> missed,
                                  failed |-> Len(r.samples) - ok - missed],
                    samples  |-> slots,
                    errors   |-> r.errors]
  OBVIOUS
<1>2. /\ DOMAIN o = SamplingKeys
      /\ o.ammeter_type = r.ammeter /\ o.status = r.status
      /\ o.timestamp = Stamp(r.timestamp) /\ o.elapsed = r.elapsed
      /\ o.sampling_started = Stamp(r.startedAt) /\ o.sampling_elapsed = r.samplingElapsed
      /\ o.settings = [measurements_count |-> r.count, total_duration |-> r.duration,
                       slot_period |-> r.period]
      /\ o.summary = [successful |-> ok, missed |-> missed, failed |-> Len(r.samples) - ok - missed]
      /\ o.samples = slots /\ o.errors = r.errors
  BY <1>1 DEF SamplingKeys
<1>3. PICK retry : retry = [max_attempts |-> r.maxAttempts, retry_delay |-> r.retryDelay]
  OBVIOUS
<1>4. PICK d : d = WithRetryKey(o, "retry", retry, version)
  OBVIOUS
<1>5. SamplingDocument(r, version) = d
  BY <1>0, <1>1, <1>3, <1>4 DEF SamplingDocument
<1>6. "retry" \notin DOMAIN o
  BY <1>2 DEF SamplingKeys
<1>7. /\ DOMAIN d = DOMAIN o \cup (IF version = 2 THEN {"retry"} ELSE {})
      /\ \A k \in DOMAIN o : d[k] = o[k]
      /\ version = 2 => d.retry = retry
  <2>1. CASE version = 1
    <3>1. d = o
      BY <2>1, <1>4, Versions DEF WithRetryKey
    <3> QED
      BY <2>1, <3>1
  <2>2. CASE version = 2
    <3>1. d = [k \in DOMAIN o \cup {"retry"} |-> IF k = "retry" THEN retry ELSE o[k]]
      BY <2>2, <1>4, Versions DEF WithRetryKey
    <3> QED
      BY <2>2, <1>6, <3>1
  <2> QED
    BY <2>1, <2>2
<1>8. \A k \in SamplingKeys : d[k] = o[k]
  BY <1>2, <1>7
<1>9. /\ d.ammeter_type = r.ammeter /\ d.status = r.status
      /\ d.timestamp = Stamp(r.timestamp) /\ d.elapsed = r.elapsed
      /\ d.sampling_started = Stamp(r.startedAt) /\ d.sampling_elapsed = r.samplingElapsed
      /\ d.settings = o.settings /\ d.summary = o.summary
      /\ d.samples = slots /\ d.errors = r.errors
  BY <1>2, <1>8 DEF SamplingKeys
<1> QED
  BY <1>0, <1>2, <1>3, <1>5, <1>7, <1>9

-----------------------------------------------------------------------------
(* What is written is read back.                                           *)

MeasurementRecord(m) ==
  m = [status |-> m.status, measured |-> m.current # NoTime, current |-> m.current,
       latency |-> m.latency, errors |-> m.errors]

(* What holds of every sample that was archived, or decoded. *)
CanonicalSample(s) ==
  /\ s = [index |-> s.index, scheduled |-> s.scheduled, started |-> s.started,
          completed |-> s.completed, attempts |-> s.attempts, result |-> s.result]
  /\ MeasurementRecord(s.result)
  /\ s.scheduled \in Int /\ s.started \in Int /\ s.result.current \in Int
  /\ s.result.status \in Status /\ s.result.errors \subseteq ErrorCode
  /\ (s.result.current = NoTime) = (s.result.latency = NoTime)
  /\ SampleResultAccepts(s)

(* The attempts that version 1 takes for granted. *)
FirstAttempt(s) == s.attempts = IF s.started = NoTime THEN 0 ELSE 1

(* measurement_result_from_dict inverts its encoder. *)
LEMMA MeasurementDecodes ==
  ASSUME NEW m, MeasurementRecord(m)
  PROVE  MeasurementOf(MeasurementDocument(m)) = m
<1>1. PICK d : d = MeasurementDocument(m)
  OBVIOUS
<1>2. d.status = m.status /\ d.current = m.current /\ d.request_latency = m.latency /\ d.errors = m.errors
  BY <1>1 DEF MeasurementDocument
<1>3. MeasurementOf(d) = [status |-> m.status, measured |-> m.current # NoTime,
                          current |-> m.current, latency |-> m.latency, errors |-> m.errors]
  BY <1>2 DEF MeasurementOf
<1> QED
  BY <1>1, <1>3 DEF MeasurementRecord

(* So does sample_result_from_dict, in version 1 for a sample of its default attempts. *)
LEMMA SampleDecodes ==
  ASSUME NEW s, NEW t, NEW version \in {1, 2}, CanonicalSample(s), version = 1 => FirstAttempt(s)
  PROVE  /\ SampleOf(SampleDocument(s, t, version), version) = s
         /\ SampleReads(SampleDocument(s, t, version), version)
<1>1. PICK d : d = SampleDocument(s, t, version)
  OBVIOUS
<1>2. /\ DOMAIN d = SampleKeys \cup (IF version = 2 THEN {"request_attempts"} ELSE {})
      /\ d.sample_index = s.index /\ d.scheduled = s.scheduled
      /\ d.started = s.started /\ d.completed = s.completed
      /\ d.result = MeasurementDocument(s.result)
      /\ version = 2 => d.request_attempts = s.attempts
  BY <1>1, SampleWritten, ZenonT(60)
<1>3. MeasurementOf(d.result) = s.result
  BY <1>2, MeasurementDecodes DEF CanonicalSample
<1>4. (IF version >= RETRY_SCHEMA_VERSION THEN d.request_attempts
       ELSE IF d.started = NoTime THEN 0 ELSE 1) = s.attempts
  BY <1>2, Versions DEF FirstAttempt
<1>5. SampleOf(d, version) =
        [index |-> s.index, scheduled |-> s.scheduled, started |-> s.started,
         completed |-> s.completed, attempts |-> s.attempts, result |-> s.result]
  BY <1>2, <1>3, <1>4, Zenon DEF SampleOf
<1>6. SampleOf(d, version) = s
  BY <1>5 DEF CanonicalSample
<1>7. MeasurementReads(d.result)
  <2>1. PICK e : e = d.result
    OBVIOUS
  <2>2. /\ DOMAIN e = {"status", "current", "request_latency", "errors"}
        /\ e.status = s.result.status /\ e.current = s.result.current
        /\ e.request_latency = s.result.latency /\ e.errors = s.result.errors
    BY <1>2, <2>1 DEF MeasurementDocument
  <2>3. MeasurementResultAccepts(MeasurementOf(e))
    BY <1>3, <2>1 DEF CanonicalSample, SampleResultAccepts
  <2>4. MeasurementReads(e)
    BY <2>2, <2>3 DEF MeasurementReads, HasKeys, CanonicalSample
  <2> QED
    BY <2>1, <2>4
<1>8. HasKeys(d, {"sample_index", "scheduled", "started", "completed", "result"})
  BY <1>2 DEF HasKeys, SampleKeys
<1>9. ("request_attempts" \in DOMAIN d) = (version >= RETRY_SCHEMA_VERSION)
  BY <1>2, Versions DEF SampleKeys
<1>10. SampleResultAccepts(SampleOf(d, version))
  BY <1>6 DEF CanonicalSample
<1>11. SampleReads(d, version)
  BY <1>7, <1>8, <1>9, <1>10 DEF SampleReads
<1> QED
  BY <1>1, <1>6, <1>11

(* What holds of every window that was archived, or decoded. *)
WindowRecord(r) ==
  r = [ammeter |-> r.ammeter, status |-> r.status, timestamp |-> r.timestamp,
       elapsed |-> r.elapsed, opened |-> r.startedAt # NoTime, startedAt |-> r.startedAt,
       samplingElapsed |-> r.samplingElapsed, count |-> r.count, duration |-> r.duration,
       period |-> r.period, samples |-> r.samples, errors |-> r.errors,
       maxAttempts |-> r.maxAttempts, retryDelay |-> r.retryDelay]

CanonicalWindow(r) ==
  /\ WindowRecord(r)
  /\ r.startedAt \in Int
  /\ r.status \in Status /\ r.errors \subseteq ErrorCode
  /\ \E S : r.samples \in Seq(S)
  /\ \A i \in DOMAIN r.samples : CanonicalSample(r.samples[i])
  /\ RetryPolicyAccepts(r.maxAttempts, r.retryDelay)
  /\ SamplingSettingsAccepts(r.count, r.duration, r.period)
  /\ SamplingResultAccepts(r)

(* The windows that version 1 can hold. *)
WithoutRetries(r) ==
  /\ r.maxAttempts = 1 /\ r.retryDelay = 0
  /\ \A i \in DOMAIN r.samples : FirstAttempt(r.samples[i])

(* So does sampling_result_from_dict, in version 1 for a window without retries. *)
LEMMA WindowDecodes ==
  ASSUME NEW r, NEW version \in {1, 2}, CanonicalWindow(r), version = 1 => WithoutRetries(r)
  PROVE  /\ SamplingOf(SamplingDocument(r, version), version) = r
         /\ SamplingReads(SamplingDocument(r, version), version)
<1>1. PICK d : d = SamplingDocument(r, version)
  OBVIOUS
<1>2. PICK slots : slots = [i \in DOMAIN r.samples |->
                              SampleDocument(r.samples[i], r.startedAt, version)]
  OBVIOUS
<1>3. /\ DOMAIN d = SamplingKeys \cup (IF version = 2 THEN {"retry"} ELSE {})
      /\ d.ammeter_type = r.ammeter /\ d.status = r.status
      /\ d.timestamp = Stamp(r.timestamp) /\ d.elapsed = r.elapsed
      /\ d.sampling_started = Stamp(r.startedAt) /\ d.sampling_elapsed = r.samplingElapsed
      /\ d.settings = [measurements_count |-> r.count, total_duration |-> r.duration,
                       slot_period |-> r.period]
      /\ d.samples = slots /\ d.errors = r.errors
      /\ version = 2 =>
           d.retry = [max_attempts |-> r.maxAttempts, retry_delay |-> r.retryDelay]
  BY <1>1, <1>2, SamplingWritten
<1>4. \A i \in DOMAIN r.samples : SampleOf(slots[i], version) = r.samples[i] /\ SampleReads(slots[i], version)
  <2> SUFFICES ASSUME NEW i \in DOMAIN r.samples
               PROVE  SampleOf(slots[i], version) = r.samples[i] /\ SampleReads(slots[i], version)
    OBVIOUS
  <2>1. slots[i] = SampleDocument(r.samples[i], r.startedAt, version)
    BY <1>2
  <2>2. CanonicalSample(r.samples[i]) /\ (version = 1 => FirstAttempt(r.samples[i]))
    BY DEF CanonicalWindow, WithoutRetries
  <2> QED
    BY <2>1, <2>2, SampleDecodes
<1>5. [i \in DOMAIN d.samples |-> SampleOf(d.samples[i], version)] = r.samples
  <2>1. PICK S : r.samples \in Seq(S)
    BY DEF CanonicalWindow
  <2>2. r.samples = [i \in DOMAIN r.samples |-> r.samples[i]]
    BY <2>1
  <2>3. d.samples = slots /\ DOMAIN slots = DOMAIN r.samples
    BY <1>2, <1>3
  <2> QED
    BY <1>4, <2>2, <2>3
<1>6. /\ (IF version >= RETRY_SCHEMA_VERSION THEN d.retry.max_attempts ELSE 1) = r.maxAttempts
      /\ (IF version >= RETRY_SCHEMA_VERSION THEN d.retry.retry_delay ELSE 0) = r.retryDelay
  BY <1>3, Versions DEF WithoutRetries
<1>7. /\ d.timestamp.at = r.timestamp /\ d.sampling_started.at = r.startedAt
      /\ d.settings.measurements_count = r.count /\ d.settings.total_duration = r.duration
      /\ d.settings.slot_period = r.period
  BY <1>3 DEF Stamp
<1>8. SamplingOf(d, version) =
        [ammeter |-> r.ammeter, status |-> r.status, timestamp |-> r.timestamp,
         elapsed |-> r.elapsed, opened |-> r.startedAt # NoTime, startedAt |-> r.startedAt,
         samplingElapsed |-> r.samplingElapsed, count |-> r.count, duration |-> r.duration,
         period |-> r.period, samples |-> r.samples, errors |-> r.errors,
         maxAttempts |-> r.maxAttempts, retryDelay |-> r.retryDelay]
  BY <1>3, <1>5, <1>6, <1>7, Zenon DEF SamplingOf
<1>9. SamplingOf(d, version) = r
  BY <1>8 DEF CanonicalWindow, WindowRecord
<1>10. IF version >= RETRY_SCHEMA_VERSION
         THEN /\ HasKeys(d, {"retry"})
              /\ HasKeys(d.retry, {"max_attempts", "retry_delay"})
              /\ RetryPolicyAccepts(d.retry.max_attempts, d.retry.retry_delay)
         ELSE "retry" \notin DOMAIN d
  <2>1. CASE version = 2
    <3>1. d.retry = [max_attempts |-> r.maxAttempts, retry_delay |-> r.retryDelay]
      BY <1>3, <2>1
    <3>2. "retry" \in DOMAIN d /\ DOMAIN d.retry = {"max_attempts", "retry_delay"}
      BY <1>3, <2>1, <3>1
    <3>3. RetryPolicyAccepts(d.retry.max_attempts, d.retry.retry_delay)
      BY <3>1 DEF CanonicalWindow
    <3> QED
      BY <2>1, <3>2, <3>3, Versions DEF HasKeys
  <2>2. CASE version = 1
    BY <1>3, <2>2, Versions DEF SamplingKeys
  <2> QED
    BY <2>1, <2>2
<1>11. HasKeys(d, {"ammeter_type", "status", "timestamp", "elapsed", "sampling_started",
                   "sampling_elapsed", "settings", "samples", "errors"})
  BY <1>3 DEF HasKeys, SamplingKeys
<1>12. /\ d.status \in Status /\ d.errors \subseteq ErrorCode
       /\ StampReads(d.timestamp) /\ StampReads(d.sampling_started)
  BY <1>3 DEF CanonicalWindow, StampReads, Stamp
<1>13. /\ HasKeys(d.settings, {"measurements_count", "total_duration", "slot_period"})
       /\ SamplingSettingsAccepts(d.settings.measurements_count, d.settings.total_duration,
                                  d.settings.slot_period)
  BY <1>3, <1>7 DEF HasKeys, CanonicalWindow
<1>14. \A i \in DOMAIN d.samples : SampleReads(d.samples[i], version)
  BY <1>2, <1>3, <1>4
<1>15. SamplingResultAccepts(SamplingOf(d, version))
  BY <1>9 DEF CanonicalWindow
<1>16. SamplingReads(d, version)
  BY <1>10, <1>11, <1>12, <1>13, <1>14, <1>15 DEF SamplingReads
<1> QED
  BY <1>1, <1>9, <1>16

(* The samples of such a window hold integers. *)
LEMMA WindowReadings ==
  ASSUME NEW r, CanonicalWindow(r)
  PROVE  /\ \E S : r.samples \in Seq(S)
         /\ \A i \in DOMAIN r.samples : r.samples[i].result.current \in Int
BY DEF CanonicalWindow, CanonicalSample

(* The statistics of such a window pass their constructor. *)
LEMMA CanonicalStatistics ==
  ASSUME NEW r, CanonicalWindow(r)
  PROVE  Statistics(r) = Null \/ CurrentStatisticsAccepts(Statistics(r))
<1>1. PICK samples, s : samples = r.samples /\ s = Statistics(r)
  OBVIOUS
<1>2. PICK S : samples \in Seq(S)
  BY <1>1, WindowReadings
<1>3. \A i \in DOMAIN samples : samples[i].result.current \in Int
  BY <1>1, WindowReadings
<1>4. s = CalculateCurrentStatistics[Currents(samples)]
  BY <1>1 DEF Statistics
<1> QED
  BY <1>1, <1>2, <1>3, <1>4, StatisticsOfSlots

(* Statistics are stored under their names, the metrics as floats. *)
LEMMA StatisticsWritten ==
  ASSUME NEW r, CanonicalWindow(r)
  PROVE  LET s == Statistics(r)
             x == StatisticsDocument(s)
         IN  /\ x = Null <=> s = Null
             /\ s # Null =>
                  /\ DOMAIN x = StatisticsKeys
                  /\ x.measurements_count = s.measurements_count
                  /\ \A k \in Metrics : x[k] = Float(s[k]) /\ s[k] \in Int
<1>1. PICK s, x : s = Statistics(r) /\ x = StatisticsDocument(s)
  OBVIOUS
<1>2. CASE s = Null
  BY <1>1, <1>2 DEF StatisticsDocument
<1>3. CASE s # Null
  <2>1. x = [k \in DOMAIN s |-> IF k \in Metrics THEN Float(s[k]) ELSE s[k]]
    BY <1>1, <1>3 DEF StatisticsDocument
  <2>2. DOMAIN s = StatisticsKeys /\ \A k \in StatisticsKeys : s[k] \in Int
    <3>1. PICK samples : samples = r.samples
      OBVIOUS
    <3>2. PICK S : samples \in Seq(S)
      BY <3>1, WindowReadings
    <3>3. \A i \in DOMAIN samples : samples[i].result.current \in Int
      BY <3>1, WindowReadings
    <3>4. s = CalculateCurrentStatistics[Currents(samples)]
      BY <1>1, <3>1 DEF Statistics
    <3> QED
      BY <1>3, <3>2, <3>3, <3>4, StatisticsOfSlots
  <2>3. Metrics \subseteq StatisticsKeys /\ "measurements_count" \in StatisticsKeys \ Metrics
    BY DEF Metrics, StatisticsKeys
  <2>4. /\ DOMAIN x = StatisticsKeys /\ x["measurements_count"] = s["measurements_count"]
        /\ \A k \in Metrics : x[k] = Float(s[k]) /\ s[k] \in Int
    BY <2>1, <2>2, <2>3
  <2>5. x # Null
    BY <2>3, <2>4 DEF Null
  <2> QED
    BY <1>1, <1>3, <2>4, <2>5
<1> QED
  BY <1>2, <1>3

(* Recalculated statistics match what they were written as. *)
LEMMA StatisticsMatchThemselves ==
  ASSUME NEW r, CanonicalWindow(r)
  PROVE  StatisticsMatch(StatisticsDocument(Statistics(r)), StatisticsDocument(Statistics(r)))
<1>1. PICK s, x : s = Statistics(r) /\ x = StatisticsDocument(s)
  OBVIOUS
<1>2. CASE s = Null
  BY <1>1, <1>2, StatisticsWritten DEF StatisticsMatch
<1>3. CASE s # Null
  <2>1. x # Null /\ \A k \in Metrics : x[k] = Float(s[k]) /\ s[k] \in Int
    BY <1>1, <1>3, StatisticsWritten
  <2>2. \A k \in Metrics : MetricsMatch(x[k], x[k])
    <3> TAKE k \in Metrics
    <3>1. PICK n \in Int : x[k] = Float(n)
      BY <2>1
    <3>2. x[k].type = "float" /\ x[k].n = n
      BY <3>1 DEF Float
    <3>3. n - n \in -MetricTolerance .. MetricTolerance
      BY DEF MetricTolerance
    <3> QED
      BY <3>2, <3>3 DEF MetricsMatch
  <2>3. StatisticsMatch(x, x)
    BY <2>1, <2>2 DEF StatisticsMatch
  <2> QED
    BY <1>1, <2>3
<1> QED
  BY <1>2, <1>3

AnalysisKeys == {"ammeter_type", "status", "timestamp", "summary", "statistics", "sampling_result"}

(* The keys and values of an encoded analysis. *)
LEMMA AnalysisWritten ==
  ASSUME NEW r, NEW version
  PROVE  LET a == AnalysisDocument(r, version)
             ok == Cardinality(SuccessfulSlots(r.samples))
         IN  /\ DOMAIN a = AnalysisKeys
             /\ a.ammeter_type = r.ammeter /\ a.status = r.status
             /\ a.timestamp = Stamp(r.timestamp)
             /\ a.summary = [planned |-> r.count, recorded |-> Len(r.samples), analyzed |-> ok,
                             excluded |-> Len(r.samples) - ok, missed |-> Missed(r.samples),
                             failed |-> Len(r.samples) - ok - Missed(r.samples)]
             /\ a.statistics = StatisticsDocument(Statistics(r))
             /\ a.sampling_result = SamplingDocument(r, version)
BY DEF AnalysisDocument, AnalysisKeys

(* sampling_analysis_from_dict accepts what its encoder wrote. *)
LEMMA AnalysisDecodes ==
  ASSUME NEW r, NEW version \in {1, 2}, CanonicalWindow(r), version = 1 => WithoutRetries(r)
  PROVE  AnalysisReads(AnalysisDocument(r, version), version)
<1>1. PICK d : d = AnalysisDocument(r, version)
  OBVIOUS
<1>2. /\ DOMAIN d = AnalysisKeys /\ d.statistics = StatisticsDocument(Statistics(r))
      /\ d.sampling_result = SamplingDocument(r, version)
  BY <1>1, AnalysisWritten
<1>3. SamplingOf(d.sampling_result, version) = r /\ SamplingReads(d.sampling_result, version)
  BY <1>2, WindowDecodes
<1>4. StatisticsMatch(d.statistics, d.statistics)
  BY <1>2, StatisticsMatchThemselves
<1>5. AnalysisDocumentsMatch(d, d)
  BY <1>4 DEF AnalysisDocumentsMatch
<1>6. Statistics(r) = Null \/ CurrentStatisticsAccepts(Statistics(r))
  BY CanonicalStatistics
<1>7. HasKeys(d, {"sampling_result"})
  BY <1>2 DEF HasKeys, AnalysisKeys
<1>8. AnalysisReads(d, version)
  BY <1>1, <1>3, <1>5, <1>6, <1>7, Zenon DEF AnalysisReads
<1> QED
  BY <1>1, <1>8

RunRecord(r) ==
  r = [run_id |-> r.run_id, archived_at |-> r.archived_at, metadata |-> r.metadata,
       result |-> r.result]

RunKeys == {"schema_version", "run_id", "archived_at", "metadata", "analysis"}

(* The keys and values of an encoded run. *)
LEMMA RunWritten ==
  ASSUME NEW r, NEW version
  PROVE  LET d == RunDocument(r, version)
         IN  /\ DOMAIN d = RunKeys
             /\ d.schema_version = version /\ d.run_id = r.run_id
             /\ d.archived_at = Stamp(r.archived_at) /\ d.metadata = r.metadata
             /\ d.analysis = AnalysisDocument(r.result, version)
BY DEF RunDocument, RunKeys

(* The decoder inverts the encoder, and accepts what it writes. *)
LEMMA RunDecodes ==
  ASSUME NEW r, NEW version \in {1, 2}, RunRecord(r), CanonicalWindow(r.result),
         version = 1 => WithoutRetries(r.result)
  PROVE  /\ RunOf(RunDocument(r, version)) = r
         /\ RunReads(RunDocument(r, version))
         /\ Loaded(RunDocument(r, version), r.run_id) = "run"
<1>1. PICK d : d = RunDocument(r, version)
  OBVIOUS
<1>2. /\ DOMAIN d = RunKeys /\ d.schema_version = version /\ d.run_id = r.run_id
      /\ d.archived_at = Stamp(r.archived_at) /\ d.metadata = r.metadata
      /\ d.analysis = AnalysisDocument(r.result, version)
  BY <1>1, RunWritten
<1>3. /\ d.analysis.sampling_result = SamplingDocument(r.result, version)
      /\ d.analysis.statistics = StatisticsDocument(Statistics(r.result))
  <2>1. PICK result, a : result = r.result /\ a = AnalysisDocument(result, version)
    OBVIOUS
  <2>2. /\ a.sampling_result = SamplingDocument(result, version)
        /\ a.statistics = StatisticsDocument(Statistics(result))
    BY <2>1, AnalysisWritten
  <2> QED
    BY <1>2, <2>1, <2>2
<1>4. SamplingOf(d.analysis.sampling_result, version) = r.result
  BY <1>3, WindowDecodes
<1>5. d.archived_at.at = r.archived_at
  BY <1>2 DEF Stamp
<1>6. RunOf(d) = r
  <2>1. RunOf(d) = [run_id |-> r.run_id, archived_at |-> r.archived_at,
                    metadata |-> r.metadata, result |-> r.result]
    BY <1>2, <1>4, <1>5, Zenon DEF RunOf
  <2> QED
    BY <2>1 DEF RunRecord
<1>7. HasKeys(d, {"schema_version"}) /\ VersionSupported(d)
  BY <1>2, Versions DEF HasKeys, RunKeys, VersionSupported
<1>8. HasKeys(d, {"run_id", "archived_at", "metadata", "analysis"})
  BY <1>2 DEF HasKeys, RunKeys
<1>9. StampReads(d.archived_at)
  BY <1>2 DEF StampReads, Stamp
<1>10. AnalysisReads(d.analysis, d.schema_version)
  BY <1>2, AnalysisDecodes
<1>11. AnalysisDocumentsMatch(d.analysis, d.analysis)
  BY <1>3, StatisticsMatchThemselves DEF AnalysisDocumentsMatch
<1>12. ArchiveDocumentsMatch(RunDocument(RunOf(d), d.schema_version), d)
  <2>1. RunDocument(RunOf(d), d.schema_version) = d
    BY <1>1, <1>2, <1>6
  <2>2. ArchiveDocumentsMatch(d, d)
    BY <1>11 DEF ArchiveDocumentsMatch
  <2> QED
    BY <2>1, <2>2
<1>13. RunReads(d)
  BY <1>7, <1>8, <1>9, <1>10, <1>12 DEF RunReads
<1>14. Loaded(d, r.run_id) = "run"
  BY <1>2, <1>7, <1>13 DEF Loaded
<1> QED
  BY <1>1, <1>6, <1>13, <1>14

-----------------------------------------------------------------------------
(* The runs that are archived.                                             *)

LEMMA ArchivedSampleCanonical ==
  ASSUME NEW s \in ArchivedSample, SampleResultAccepts(s),
         s.result.measured <=> s.result.current # NoTime,
         s.result.current = NoTime <=> s.result.latency = NoTime
  PROVE  CanonicalSample(s) /\ (s.attempts <= 1 => FirstAttempt(s))
<1>1. /\ s = [index |-> s.index, scheduled |-> s.scheduled, started |-> s.started,
              completed |-> s.completed, attempts |-> s.attempts, result |-> s.result]
      /\ s.scheduled \in Nat /\ s.started \in Nat \cup {NoTime} /\ s.attempts \in Nat
      /\ s.result \in ArchivedMeasurement
  BY DEF ArchivedSample
<1>2. PICK m \in ArchivedMeasurement : m = s.result
  BY <1>1
<1>3. /\ m = [status |-> m.status, measured |-> m.measured, current |-> m.current,
              latency |-> m.latency, errors |-> m.errors]
      /\ m.status \in Status /\ m.measured \in BOOLEAN
      /\ m.current \in Nat \cup {NoTime} /\ m.errors \subseteq ErrorCode
  BY DEF ArchivedMeasurement
<1>4. m.measured = (m.current # NoTime) /\ (m.current = NoTime) = (m.latency = NoTime)
  BY <1>2, <1>3
<1>5. MeasurementRecord(m)
  BY <1>3, <1>4 DEF MeasurementRecord
<1>6. s.scheduled \in Int /\ s.started \in Int /\ m.current \in Int
  BY <1>1, <1>3 DEF NoTime
<1>7. CanonicalSample(s)
  BY <1>1, <1>2, <1>3, <1>4, <1>5, <1>6 DEF CanonicalSample
<1>8. s.attempts <= 1 => FirstAttempt(s)
  BY <1>1 DEF FirstAttempt, SampleResultAccepts
<1> QED
  BY <1>7, <1>8

(* What the constructors let pass is canonical; without retries version 1 can hold it. *)
LEMMA AcceptedCanonical ==
  ASSUME NEW r, RunAccepts(r)
  PROVE  /\ RunRecord(r) /\ CanonicalWindow(r.result)
         /\ ~Retried(r.result) => WithoutRetries(r.result)
<1>2. PICK w : w = r.result
  OBVIOUS
<1>1. WindowAccepts(w)
  BY <1>2 DEF RunAccepts
<1>3. r \in [run_id : {r.run_id}, archived_at : Nat, metadata : {r.metadata}, result : {w}]
  BY <1>2 DEF RunAccepts
<1>4. RunRecord(r) /\ w \in ArchivedSampling
  BY <1>1, <1>2, <1>3 DEF RunRecord, WindowAccepts
<1>5. /\ \A i \in DOMAIN w.samples :
           /\ SampleResultAccepts(w.samples[i])
           /\ w.samples[i].result.measured <=> w.samples[i].result.current # NoTime
           /\ w.samples[i].result.current = NoTime <=> w.samples[i].result.latency = NoTime
      /\ w.opened <=> w.startedAt # NoTime
      /\ RetryPolicyAccepts(w.maxAttempts, w.retryDelay)
      /\ SamplingSettingsAccepts(w.count, w.duration, w.period)
      /\ SamplingResultAccepts(w)
  BY <1>1 DEF WindowAccepts
<1>6. /\ w = [ammeter |-> w.ammeter, status |-> w.status, timestamp |-> w.timestamp,
              elapsed |-> w.elapsed, opened |-> w.opened, startedAt |-> w.startedAt,
              samplingElapsed |-> w.samplingElapsed, count |-> w.count,
              duration |-> w.duration, period |-> w.period, samples |-> w.samples,
              errors |-> w.errors, maxAttempts |-> w.maxAttempts, retryDelay |-> w.retryDelay]
      /\ w.opened \in BOOLEAN /\ w.startedAt \in Nat \cup {NoTime} /\ w.status \in Status
      /\ w.errors \subseteq ErrorCode /\ w.samples \in Seq(ArchivedSample)
      /\ w.maxAttempts \in Nat /\ w.retryDelay \in Nat
  BY <1>4 DEF ArchivedSampling
<1>7. w.opened = (w.startedAt # NoTime)
  BY <1>5, <1>6
<1>8. WindowRecord(w)
  BY <1>6, <1>7 DEF WindowRecord
<1>9. w.startedAt \in Int
  BY <1>6 DEF NoTime
<1>10. \A i \in DOMAIN w.samples : w.samples[i] \in ArchivedSample
  BY <1>6
<1>11. \A i \in DOMAIN w.samples :
         /\ CanonicalSample(w.samples[i])
         /\ w.samples[i].attempts <= 1 => FirstAttempt(w.samples[i])
  BY <1>5, <1>10, ArchivedSampleCanonical
<1>12. CanonicalWindow(w)
  BY <1>5, <1>6, <1>8, <1>9, <1>11 DEF CanonicalWindow
<1>13. ~Retried(w) => WithoutRetries(w)
  <2> SUFFICES ASSUME ~Retried(w) PROVE WithoutRetries(w)
    OBVIOUS
  <2>1. /\ ~(w.maxAttempts > 1) /\ ~(w.retryDelay > 0)
        /\ \A i \in DOMAIN w.samples : ~(w.samples[i].attempts > 1)
    BY DEF Retried
  <2>2. w.maxAttempts = 1 /\ w.retryDelay = 0
    BY <1>5, <1>6, <2>1 DEF RetryPolicyAccepts
  <2>3. \A i \in DOMAIN w.samples : FirstAttempt(w.samples[i])
    <3> TAKE i \in DOMAIN w.samples
    <3>1. w.samples[i].attempts \in Nat
      BY <1>10 DEF ArchivedSample
    <3> QED
      BY <1>11, <2>1, <3>1
  <2> QED
    BY <2>2, <2>3 DEF WithoutRetries
<1> QED
  BY <1>2, <1>4, <1>12, <1>13

LEMMA RunsCanonical ==
  ASSUME NEW r \in Runs
  PROVE  /\ RunRecord(r) /\ CanonicalWindow(r.result)
         /\ ~Retried(r.result) => WithoutRetries(r.result)
BY RunsAssumption, AcceptedCanonical

(* What the archive writes, it reads: the document of any run whose window  *)
(* passed its own constructors loads under its identifier as that very run, *)
(* in version 2 always and in version 1 when no slot was retried.           *)
THEOREM EveryArchivedRunLoads ==
  ASSUME NEW archived, NEW version \in SUPPORTED_ARCHIVE_SCHEMA_VERSIONS,
         archived \in [run_id : {archived.run_id}, archived_at : Nat,
                      metadata : {archived.metadata}, result : {archived.result}],
         WindowAccepts(archived.result), version = 1 => ~Retried(archived.result)
  PROVE  /\ Loaded(RunDocument(archived, version), archived.run_id) = "run"
         /\ RunOf(RunDocument(archived, version)) = archived
<1>1. RunAccepts(archived)
  BY EveryWindowIsArchivable
<1>2. /\ RunRecord(archived) /\ CanonicalWindow(archived.result)
      /\ version = 1 => WithoutRetries(archived.result)
  BY <1>1, AcceptedCanonical
<1>3. version \in {1, 2}
  BY Versions DEF SUPPORTED_ARCHIVE_SCHEMA_VERSIONS
<1> QED
  BY <1>2, <1>3, RunDecodes

-----------------------------------------------------------------------------
(* Documents that were edited keep some of their types.                    *)

SampleTyped(s) ==
  /\ \A k \in {"scheduled", "started"} \cap DOMAIN s : s[k] \in Int
  /\ "result" \in DOMAIN s => ("current" \in DOMAIN s.result => s.result.current \in Int)

SamplingTyped(d) ==
  /\ "sampling_started" \in DOMAIN d =>
       "at" \in DOMAIN d.sampling_started /\ d.sampling_started.at \in Int
  /\ "samples" \in DOMAIN d =>
       /\ \E n \in Nat : DOMAIN d.samples = 1 .. n
       /\ \A i \in DOMAIN d.samples : SampleTyped(d.samples[i])

MetricsTyped(x) ==
  \A k \in Metrics \cap DOMAIN x : "n" \in DOMAIN x[k] /\ x[k].n \in Int

AnalysisTyped(a) ==
  /\ "statistics" \in DOMAIN a => MetricsTyped(a.statistics)
  /\ "sampling_result" \in DOMAIN a => SamplingTyped(a.sampling_result)

Typed(d) == "analysis" \in DOMAIN d => AnalysisTyped(d.analysis)

(* Every document the program writes has them. *)
LEMMA WrittenTyped ==
  ASSUME NEW r, NEW version \in {1, 2}, CanonicalWindow(r.result)
  PROVE  Typed(RunDocument(r, version))
<1>1. PICK w, d, a, s, x :
        /\ w = r.result /\ d = RunDocument(r, version) /\ a = AnalysisDocument(w, version)
        /\ s = SamplingDocument(w, version) /\ x = StatisticsDocument(Statistics(w))
  OBVIOUS
<1>2. CanonicalWindow(w)
  BY <1>1
<1>3. d.analysis = a /\ a.statistics = x /\ a.sampling_result = s
  <2>1. d.analysis = AnalysisDocument(r.result, version)
    BY <1>1, RunWritten
  <2>2. a.statistics = x /\ a.sampling_result = s
    BY <1>1, AnalysisWritten
  <2> QED
    BY <1>1, <2>1, <2>2
<1>4. MetricsTyped(x)
  <2>1. CASE Statistics(w) = Null
    <3>1. x = Null
      BY <1>1, <2>1 DEF StatisticsDocument
    <3>2. Metrics \cap DOMAIN x = {}
      BY <3>1 DEF Null, Metrics
    <3> QED
      BY <3>2 DEF MetricsTyped
  <2>2. CASE Statistics(w) # Null
    <3>1. \A k \in Metrics : \E n \in Int : x[k] = Float(n)
      BY <1>1, <1>2, <2>2, StatisticsWritten
    <3>2. \A k \in Metrics : "n" \in DOMAIN x[k] /\ x[k].n \in Int
      <4> TAKE k \in Metrics
      <4>1. PICK n \in Int : x[k] = Float(n)
        BY <3>1
      <4>2. PICK y : y = Float(n)
        OBVIOUS
      <4>3. "n" \in DOMAIN y /\ y.n = n
        BY <4>2 DEF Float
      <4> QED
        BY <4>1, <4>2, <4>3
    <3> QED
      BY <3>2 DEF MetricsTyped
  <2> QED
    BY <2>1, <2>2
<1>5. SamplingTyped(s)
  <2>1. /\ s.sampling_started = Stamp(w.startedAt)
        /\ s.samples = [i \in DOMAIN w.samples |->
                          SampleDocument(w.samples[i], w.startedAt, version)]
    <3>1. PICK y : y = SamplingDocument(w, version)
      OBVIOUS
    <3>2. /\ y.sampling_started = Stamp(w.startedAt)
          /\ y.samples = [i \in DOMAIN w.samples |->
                            SampleDocument(w.samples[i], w.startedAt, version)]
      BY <3>1, SamplingWritten
    <3> QED
      BY <1>1, <3>1, <3>2
  <2>2. "at" \in DOMAIN s.sampling_started /\ s.sampling_started.at \in Int
    BY <1>2, <2>1 DEF Stamp, CanonicalWindow
  <2>3. \E n \in Nat : DOMAIN s.samples = 1 .. n
    <3>1. PICK S : w.samples \in Seq(S)
      BY <1>2 DEF CanonicalWindow
    <3>2. DOMAIN s.samples = 1 .. Len(w.samples) /\ Len(w.samples) \in Nat
      BY <2>1, <3>1
    <3> QED
      BY <3>2
  <2>4. \A i \in DOMAIN s.samples : SampleTyped(s.samples[i])
    <3> SUFFICES ASSUME NEW i \in DOMAIN w.samples PROVE SampleTyped(s.samples[i])
      BY <2>1
    <3>1. PICK c, t, e : /\ c = w.samples[i] /\ t = w.startedAt
                         /\ e = SampleDocument(c, t, version)
      OBVIOUS
    <3>2. s.samples[i] = e
      BY <2>1, <3>1
    <3>3. CanonicalSample(c)
      BY <1>2, <3>1 DEF CanonicalWindow
    <3>4. e.scheduled = c.scheduled /\ e.started = c.started /\ e.result = MeasurementDocument(c.result)
      <4>1. e = SampleDocument(c, t, version)
        BY <3>1
      <4> QED
        BY <4>1, SampleWritten
    <3>5. e.scheduled \in Int /\ e.started \in Int /\ e.result.current \in Int
      <4>1. c.scheduled \in Int /\ c.started \in Int /\ c.result.current \in Int
        BY <3>3 DEF CanonicalSample
      <4>2. e.result.current = c.result.current
        BY <3>4 DEF MeasurementDocument
      <4> QED
        BY <3>4, <4>1, <4>2
    <3> QED
      BY <3>2, <3>5 DEF SampleTyped
  <2> QED
    BY <2>2, <2>3, <2>4 DEF SamplingTyped
<1>6. AnalysisTyped(a)
  BY <1>3, <1>4, <1>5 DEF AnalysisTyped
<1> QED
  BY <1>1, <1>3, <1>6 DEF Typed

(* An object kept all it has but for neighbouring values and a retry key. *)
Kept(new, old) ==
  \A k \in DOMAIN new :
    \/ k \in {"retry", "request_attempts"}
    \/ k \in DOMAIN old /\ (new[k] = old[k] \/ new[k] \in Neighbours(k, old[k]))

(* Every edit of one object keeps it in that sense. *)
LEMMA EditedKeeps ==
  ASSUME NEW object, NEW new \in Edited(object)
  PROVE  Kept(new, object)
<1>1. CASE \E k \in DOMAIN object : \E v \in Neighbours(k, object[k]) :
             new = [object EXCEPT ![k] = v]
  <2>1. PICK k \in DOMAIN object : \E v \in Neighbours(k, object[k]) : new = [object EXCEPT ![k] = v]
    BY <1>1
  <2>2. PICK v : v \in Neighbours(k, object[k]) /\ new = [object EXCEPT ![k] = v]
    BY <2>1
  <2>3. DOMAIN new = DOMAIN object
    BY <2>2
  <2>4. new[k] = v
    BY <2>2
  <2>5. \A j \in DOMAIN object : j # k => new[j] = object[j]
    BY <2>2
  <2> QED
    BY <2>2, <2>3, <2>4, <2>5, Zenon DEF Kept
<1>2. CASE \E gone \in DOMAIN object : new = [k \in DOMAIN object \ {gone} |-> object[k]]
  <2>1. PICK gone \in DOMAIN object : new = [k \in DOMAIN object \ {gone} |-> object[k]]
    BY <1>2
  <2>2. DOMAIN new \subseteq DOMAIN object /\ \A k \in DOMAIN new : new[k] = object[k]
    BY <2>1
  <2> QED
    BY <2>2, Zenon DEF Kept
<1>3. ASSUME NEW key \in {"retry", "request_attempts"}, NEW value, new = Added(object, key, value)
      PROVE  Kept(new, object)
  <2>1. /\ DOMAIN new = DOMAIN object \cup {key}
        /\ \A k \in DOMAIN object : new[k] = object[k]
    BY <1>3 DEF Added
  <2> QED
    BY <2>1, Zenon DEF Kept
<1>4. \/ \E k \in DOMAIN object : new \in {[object EXCEPT ![k] = v] : v \in Neighbours(k, object[k])}
      \/ \E gone \in DOMAIN object : new = [k \in DOMAIN object \ {gone} |-> object[k]]
      \/ new = Added(object, "retry", [max_attempts |-> 1, retry_delay |-> 0])
      \/ new = Added(object, "request_attempts", 1)
  <2> DEFINE changed == UNION {{[object EXCEPT ![k] = v] : v \in Neighbours(k, object[k])} :
                                k \in DOMAIN object}
             dropped == {[k \in DOMAIN object \ {gone} |-> object[k]] : gone \in DOMAIN object}
             added == {Added(object, "retry", [max_attempts |-> 1, retry_delay |-> 0]),
                       Added(object, "request_attempts", 1)}
  <2>2. Edited(object) = changed \cup dropped \cup added
    BY Zenon DEF Edited
  <2>3. CASE new \in changed
    BY <2>3, Zenon
  <2>4. CASE new \in dropped
    BY <2>4, Zenon
  <2>5. CASE new \in added
    BY <2>5, Zenon
  <2> HIDE DEF changed, dropped, added
  <2> QED
    BY <2>2, <2>3, <2>4, <2>5, Zenon
<1> QED
  BY <1>1, <1>2, <1>3, <1>4, Zenon

(* An edit of a key does not replace the parts below it, *)
LEMMA NeighboursOfParts ==
  ASSUME NEW v, NEW key \in {"analysis", "sampling_result", "samples", "result"},
         NEW w \in Neighbours(key, v)
  PROVE  w = v
BY DEF Neighbours, Metrics

(* leaves a number a number, *)
LEMMA NeighboursOfNumbers ==
  ASSUME NEW v \in Int, NEW key \in {"scheduled", "started", "current"}, NEW w \in Neighbours(key, v)
  PROVE  w \in Int
<1>1. w \in {v - 1, v + 1}
  BY DEF Neighbours, Metrics
<1> QED
  BY <1>1

(* an instant an instant, *)
LEMMA NeighboursOfStart ==
  ASSUME NEW v, "at" \in DOMAIN v, v.at \in Int, NEW w \in Neighbours("sampling_started", v)
  PROVE  "at" \in DOMAIN w /\ w.at \in Int
<1>1. w \in {[v EXCEPT !.suffix = ""], [v EXCEPT !.suffix = "+00:00"], [v EXCEPT !.at = @ + 1]}
  BY DEF Neighbours, Metrics
<1>2. CASE w = [v EXCEPT !.suffix = ""]
  BY <1>2
<1>3. CASE w = [v EXCEPT !.suffix = "+00:00"]
  BY <1>3
<1>4. CASE w = [v EXCEPT !.at = @ + 1]
  BY <1>4
<1> QED
  BY <1>1, <1>2, <1>3, <1>4

(* a metric a metric, *)
LEMMA NeighboursOfMetric ==
  ASSUME NEW v, "n" \in DOMAIN v, v.n \in Int, NEW key \in Metrics, NEW w \in Neighbours(key, v)
  PROVE  "n" \in DOMAIN w /\ w.n \in Int
<1>1. \/ \E d \in {-9, -8, 8, 9} : w = [v EXCEPT !.n = v.n + d]
      \/ w = [v EXCEPT !.type = "int"]
  BY DEF Neighbours, Metrics
<1> QED
  BY <1>1

(* and may make the statistics null. *)
LEMMA NeighboursOfStatistics ==
  ASSUME NEW v, NEW w \in Neighbours("statistics", v)
  PROVE  MetricsTyped(w)
<1>1. w = Null
  BY DEF Neighbours, Metrics
<1>2. Metrics \cap DOMAIN w = {}
  BY <1>1 DEF Null, Metrics
<1> QED
  BY <1>2 DEF MetricsTyped

(* Keeping an object keeps its types. *)
LEMMA KeptMeasurement ==
  ASSUME NEW new, NEW old, Kept(new, old), "current" \in DOMAIN old => old.current \in Int
  PROVE  "current" \in DOMAIN new => new.current \in Int
BY NeighboursOfNumbers DEF Kept

(* The same for a sample, *)
LEMMA KeptSample ==
  ASSUME NEW new, NEW old, Kept(new, old), SampleTyped(old)
  PROVE  SampleTyped(new)
<1>1. ASSUME NEW k \in {"scheduled", "started"} \cap DOMAIN new
      PROVE  new[k] \in Int
  <2>1. k \in DOMAIN old /\ (new[k] = old[k] \/ new[k] \in Neighbours(k, old[k]))
    BY DEF Kept
  <2>2. old[k] \in Int
    BY <2>1 DEF SampleTyped
  <2> QED
    BY <2>1, <2>2, NeighboursOfNumbers
<1>2. "result" \in DOMAIN new => "result" \in DOMAIN old /\ new.result = old.result
  BY NeighboursOfParts DEF Kept
<1> QED
  BY <1>1, <1>2 DEF SampleTyped

(* a window, *)
LEMMA KeptSampling ==
  ASSUME NEW new, NEW old, Kept(new, old), SamplingTyped(old)
  PROVE  SamplingTyped(new)
<1>1. "samples" \in DOMAIN new => "samples" \in DOMAIN old /\ new.samples = old.samples
  BY NeighboursOfParts DEF Kept
<1>2. ASSUME "sampling_started" \in DOMAIN new
      PROVE  "at" \in DOMAIN new.sampling_started /\ new.sampling_started.at \in Int
  <2>1. PICK v, w : v = old.sampling_started /\ w = new.sampling_started
    OBVIOUS
  <2>2. "sampling_started" \in DOMAIN old /\ (w = v \/ w \in Neighbours("sampling_started", v))
    BY <1>2, <2>1 DEF Kept
  <2>3. "at" \in DOMAIN v /\ v.at \in Int
    BY <2>1, <2>2 DEF SamplingTyped
  <2> QED
    BY <2>1, <2>2, <2>3, NeighboursOfStart
<1> QED
  BY <1>1, <1>2, Zenon DEF SamplingTyped

(* the statistics, *)
LEMMA KeptMetrics ==
  ASSUME NEW new, NEW old, Kept(new, old), MetricsTyped(old)
  PROVE  MetricsTyped(new)
<1> SUFFICES ASSUME NEW k \in Metrics \cap DOMAIN new
             PROVE  "n" \in DOMAIN new[k] /\ new[k].n \in Int
  BY DEF MetricsTyped
<1>1. PICK v, w : v = old[k] /\ w = new[k]
  OBVIOUS
<1>2. k \in DOMAIN old /\ (w = v \/ w \in Neighbours(k, v))
  BY <1>1 DEF Kept, Metrics
<1>3. "n" \in DOMAIN v /\ v.n \in Int
  BY <1>1, <1>2 DEF MetricsTyped
<1> QED
  BY <1>1, <1>2, <1>3, NeighboursOfMetric

(* an analysis, *)
LEMMA KeptAnalysis ==
  ASSUME NEW new, NEW old, Kept(new, old), AnalysisTyped(old)
  PROVE  AnalysisTyped(new)
<1>1. "sampling_result" \in DOMAIN new =>
        "sampling_result" \in DOMAIN old /\ new.sampling_result = old.sampling_result
  BY NeighboursOfParts DEF Kept
<1>2. ASSUME "statistics" \in DOMAIN new PROVE MetricsTyped(new.statistics)
  <2>1. \/ new.statistics \in Neighbours("statistics", old.statistics)
        \/ "statistics" \in DOMAIN old /\ new.statistics = old.statistics
    BY <1>2 DEF Kept
  <2> QED
    BY <2>1, NeighboursOfStatistics DEF AnalysisTyped
<1> QED
  BY <1>1, <1>2 DEF AnalysisTyped

(* and a document. *)
LEMMA KeptDocument ==
  ASSUME NEW new, NEW old, Kept(new, old), Typed(old)
  PROVE  Typed(new)
<1>1. "analysis" \in DOMAIN new => "analysis" \in DOMAIN old /\ new.analysis = old.analysis
  BY NeighboursOfParts DEF Kept
<1> QED
  BY <1>1 DEF Typed

(* Writing one part of an object anew keeps them too. *)
LEMMA EditKeepsTypes ==
  ASSUME Typed(document), Edit
  PROVE  Typed(document')
<1>1. PICK d, e, a, s : d = document /\ e = document' /\ a = d.analysis /\ s = a.sampling_result
  OBVIOUS
<1> SUFFICES Typed(e)
  BY <1>1
<1>2. ASSUME Complete
      PROVE  /\ "analysis" \in DOMAIN d
             /\ {"summary", "statistics", "sampling_result"} \subseteq DOMAIN a
             /\ {"samples", "settings", "summary"} \subseteq DOMAIN s
             /\ a = Analysis /\ s = Sampling
  BY <1>1, <1>2 DEF Complete, HasKeys, Analysis, Sampling
<1>3. ASSUME Complete PROVE AnalysisTyped(a) /\ MetricsTyped(a.statistics) /\ SamplingTyped(s)
  BY <1>1, <1>2, <1>3 DEF Typed, AnalysisTyped
<1>4. ASSUME Complete, NEW o, AnalysisTyped(o), e = [d EXCEPT !.analysis = o]
      PROVE  Typed(e)
  <2>1. e.analysis = o
    BY <1>2, <1>4
  <2> QED
    BY <1>4, <2>1 DEF Typed
<1>5. ASSUME Complete, NEW o, SamplingTyped(o), e = [d EXCEPT !.analysis = [a EXCEPT !.sampling_result = o]]
      PROVE  Typed(e)
  <2>1. PICK b : b = [a EXCEPT !.sampling_result = o]
    OBVIOUS
  <2>2. DOMAIN b = DOMAIN a /\ b.sampling_result = o /\ b.statistics = a.statistics
    BY <1>2, <1>5, <2>1
  <2>3. AnalysisTyped(b)
    BY <1>3, <1>5, <2>2 DEF AnalysisTyped
  <2> QED
    BY <1>4, <1>5, <2>1, <2>3
<1>6. ASSUME Complete, NEW i \in DOMAIN s.samples, NEW o, SampleTyped(o),
             e = [d EXCEPT !.analysis = [a EXCEPT !.sampling_result = [s EXCEPT !.samples = [s.samples EXCEPT ![i] = o]]]]
      PROVE  Typed(e)
  <2>1. PICK z, y, x : z = s.samples /\ y = [z EXCEPT ![i] = o] /\ x = [s EXCEPT !.samples = y]
    OBVIOUS
  <2>2. DOMAIN x = DOMAIN s /\ x.samples = y /\ x.sampling_started = s.sampling_started
    BY <1>2, <1>6, <2>1
  <2>3. DOMAIN y = DOMAIN z /\ y[i] = o /\ \A j \in DOMAIN z : j # i => y[j] = z[j]
    BY <1>6, <2>1
  <2>4. /\ \E n \in Nat : DOMAIN z = 1 .. n
        /\ \A j \in DOMAIN z : SampleTyped(z[j])
    BY <1>2, <1>3, <1>6, <2>1 DEF SamplingTyped
  <2>5. /\ \E n \in Nat : DOMAIN y = 1 .. n
        /\ \A j \in DOMAIN y : SampleTyped(y[j])
    BY <1>6, <2>3, <2>4
  <2>6. SamplingTyped(x)
    BY <1>3, <1>6, <2>2, <2>5 DEF SamplingTyped
  <2> QED
    BY <1>5, <1>6, <2>1, <2>6
<1>7. CASE e \in Edited(d)
  BY <1>1, <1>7, EditedKeeps, KeptDocument
<1>8. CASE Complete /\ \E o \in Edited(a) : e = [d EXCEPT !.analysis = o]
  <2>1. PICK o \in Edited(a) : e = [d EXCEPT !.analysis = o]
    BY <1>8
  <2>2. AnalysisTyped(o)
    BY <1>3, <1>8, EditedKeeps, KeptAnalysis
  <2> QED
    BY <1>4, <1>8, <2>1, <2>2, Zenon
<1>9. CASE /\ Complete
           /\ \E key \in {"summary", "statistics", "sampling_result"} :
                \E o \in Edited(a[key]) : e = [d EXCEPT !.analysis = [a EXCEPT ![key] = o]]
  <2>1. PICK key \in {"summary", "statistics", "sampling_result"} :
          \E o \in Edited(a[key]) : e = [d EXCEPT !.analysis = [a EXCEPT ![key] = o]]
    BY <1>9
  <2>2. PICK part : part = a[key]
    OBVIOUS
  <2>3. PICK o : o \in Edited(part) /\ e = [d EXCEPT !.analysis = [a EXCEPT ![key] = o]]
    BY <2>1, <2>2
  <2>4. PICK b : b = [a EXCEPT ![key] = o]
    OBVIOUS
  <2>5. DOMAIN b = DOMAIN a /\ b[key] = o /\ \A k \in DOMAIN a : k # key => b[k] = a[k]
    BY <1>2, <1>9, <2>4
  <2>6. Kept(o, part)
    BY <2>3, EditedKeeps
  <2>7. key = "statistics" => MetricsTyped(o)
    BY <1>3, <1>9, <2>2, <2>6, KeptMetrics
  <2>8. key = "sampling_result" => SamplingTyped(o)
    BY <1>1, <1>3, <1>9, <2>2, <2>6, KeptSampling
  <2>9. MetricsTyped(b.statistics)
    BY <1>2, <1>3, <1>9, <2>5, <2>7
  <2>10. SamplingTyped(b.sampling_result)
    BY <1>1, <1>2, <1>3, <1>9, <2>5, <2>8
  <2>11. AnalysisTyped(b)
    BY <2>9, <2>10 DEF AnalysisTyped
  <2> QED
    BY <1>4, <1>9, <2>3, <2>4, <2>11, Zenon
<1>10. CASE /\ Complete
            /\ \E key \in {"summary", "settings", "retry"} \cap DOMAIN s :
                 \E o \in Edited(s[key]) :
                   e = [d EXCEPT !.analysis = [a EXCEPT !.sampling_result = [s EXCEPT ![key] = o]]]
  <2>1. PICK key \in {"summary", "settings", "retry"} \cap DOMAIN s :
          \E o \in Edited(s[key]) :
            e = [d EXCEPT !.analysis = [a EXCEPT !.sampling_result = [s EXCEPT ![key] = o]]]
    BY <1>10
  <2>2. PICK o : e = [d EXCEPT !.analysis = [a EXCEPT !.sampling_result = [s EXCEPT ![key] = o]]]
    BY <2>1
  <2>3. PICK y : y = [s EXCEPT ![key] = o]
    OBVIOUS
  <2>4. DOMAIN y = DOMAIN s /\ y.samples = s.samples /\ y.sampling_started = s.sampling_started
    BY <1>2, <1>10, <2>3
  <2>5. SamplingTyped(y)
    BY <1>3, <1>10, <2>4 DEF SamplingTyped
  <2> QED
    BY <1>5, <1>10, <2>2, <2>3, <2>5, Zenon
<1>11. CASE /\ Complete
            /\ \E i \in DOMAIN s.samples : \E o \in Edited(s.samples[i]) :
                 e = [d EXCEPT !.analysis = [a EXCEPT !.sampling_result =
                                               [s EXCEPT !.samples = [s.samples EXCEPT ![i] = o]]]]
  <2>1. PICK i \in DOMAIN s.samples :
          \E o \in Edited(s.samples[i]) :
            e = [d EXCEPT !.analysis = [a EXCEPT !.sampling_result =
                                          [s EXCEPT !.samples = [s.samples EXCEPT ![i] = o]]]]
    BY <1>11
  <2>2. PICK c : c = s.samples[i]
    OBVIOUS
  <2>3. PICK o : /\ o \in Edited(c)
                 /\ e = [d EXCEPT !.analysis = [a EXCEPT !.sampling_result =
                                                  [s EXCEPT !.samples = [s.samples EXCEPT ![i] = o]]]]
    BY <2>1, <2>2
  <2>4. SampleTyped(c)
    BY <1>2, <1>3, <1>11, <2>2 DEF SamplingTyped
  <2>5. SampleTyped(o)
    BY <2>3, <2>4, EditedKeeps, KeptSample
  <2> QED
    BY <1>6, <1>11, <2>1, <2>3, <2>5, Zenon
<1>12. CASE /\ Complete
            /\ \E i \in {j \in DOMAIN s.samples : HasKeys(s.samples[j], {"result"})} :
                 \E o \in Edited(s.samples[i].result) :
                   e = [d EXCEPT !.analysis = [a EXCEPT !.sampling_result =
                          [s EXCEPT !.samples = [s.samples EXCEPT ![i] = [s.samples[i] EXCEPT !.result = o]]]]]
  <2>1. PICK i \in DOMAIN s.samples :
          /\ HasKeys(s.samples[i], {"result"})
          /\ \E o \in Edited(s.samples[i].result) :
               e = [d EXCEPT !.analysis = [a EXCEPT !.sampling_result =
                      [s EXCEPT !.samples = [s.samples EXCEPT ![i] = [s.samples[i] EXCEPT !.result = o]]]]]
    BY <1>12
  <2>2. PICK c, m : c = s.samples[i] /\ m = c.result
    OBVIOUS
  <2>3. PICK o : /\ o \in Edited(m)
                 /\ e = [d EXCEPT !.analysis = [a EXCEPT !.sampling_result =
                          [s EXCEPT !.samples = [s.samples EXCEPT ![i] = [c EXCEPT !.result = o]]]]]
    BY <2>1, <2>2
  <2>4. SampleTyped(c) /\ "result" \in DOMAIN c
    BY <1>2, <1>3, <1>12, <2>1, <2>2 DEF SamplingTyped, HasKeys
  <2>5. Kept(o, m)
    BY <2>3, EditedKeeps
  <2>6. "current" \in DOMAIN o => o.current \in Int
    BY <2>2, <2>4, <2>5, KeptMeasurement DEF SampleTyped
  <2>7. PICK y : y = [c EXCEPT !.result = o]
    OBVIOUS
  <2>8. DOMAIN y = DOMAIN c /\ y.result = o /\ \A k \in DOMAIN c : k # "result" => y[k] = c[k]
    BY <2>4, <2>7
  <2>9. SampleTyped(y)
    BY <2>4, <2>6, <2>8 DEF SampleTyped
  <2> QED
    BY <1>6, <1>12, <2>1, <2>2, <2>3, <2>7, <2>9, Zenon
<1>13. \/ document' \in Edited(document)
       \/ Complete /\ \E o \in Edited(Analysis) : document' = [document EXCEPT !.analysis = o]
       \/ /\ Complete
          /\ \E key \in {"summary", "statistics", "sampling_result"} :
               \E o \in Edited(Analysis[key]) : document' = [document EXCEPT !.analysis[key] = o]
       \/ /\ Complete
          /\ \E key \in {"summary", "settings", "retry"} \cap DOMAIN Sampling :
               \E o \in Edited(Sampling[key]) :
                 document' = [document EXCEPT !.analysis.sampling_result[key] = o]
       \/ /\ Complete
          /\ \E i \in DOMAIN Sampling.samples : \E o \in Edited(Sampling.samples[i]) :
               document' = [document EXCEPT !.analysis.sampling_result.samples[i] = o]
       \/ /\ Complete
          /\ \E i \in {j \in DOMAIN Sampling.samples : HasKeys(Sampling.samples[j], {"result"})} :
               \E o \in Edited(Sampling.samples[i].result) :
                 document' = [document EXCEPT !.analysis.sampling_result.samples[i].result = o]
  BY Zenon DEF Edit
<1>14. CASE document' \in Edited(document)
  BY <1>1, <1>7, <1>14, Zenon
<1>15. CASE Complete /\ \E o \in Edited(Analysis) : document' = [document EXCEPT !.analysis = o]
  BY <1>1, <1>2, <1>8, <1>15, Zenon
<1>16. CASE /\ Complete
            /\ \E key \in {"summary", "statistics", "sampling_result"} :
                 \E o \in Edited(Analysis[key]) : document' = [document EXCEPT !.analysis[key] = o]
  <2>1. PICK key \in {"summary", "statistics", "sampling_result"} :
          \E o \in Edited(a[key]) : e = [d EXCEPT !.analysis[key] = o]
    BY <1>1, <1>2, <1>16, Zenon
  <2>2. PICK part : part = a[key]
    OBVIOUS
  <2>3. PICK o \in Edited(part) : e = [d EXCEPT !.analysis[key] = o]
    BY <2>1, <2>2, Zenon
  <2>4. e = [d EXCEPT !.analysis = [a EXCEPT ![key] = o]]
    BY <1>1, <2>3, Zenon
  <2> QED
    BY <1>9, <1>16, <2>2, <2>3, <2>4, Zenon
<1>17. CASE /\ Complete
            /\ \E key \in {"summary", "settings", "retry"} \cap DOMAIN Sampling :
                 \E o \in Edited(Sampling[key]) :
                   document' = [document EXCEPT !.analysis.sampling_result[key] = o]
  <2>1. PICK key \in {"summary", "settings", "retry"} \cap DOMAIN s :
          \E o \in Edited(s[key]) : e = [d EXCEPT !.analysis.sampling_result[key] = o]
    BY <1>1, <1>2, <1>17, Zenon
  <2>2. PICK part : part = s[key]
    OBVIOUS
  <2>3. PICK o \in Edited(part) : e = [d EXCEPT !.analysis.sampling_result[key] = o]
    BY <2>1, <2>2, Zenon
  <2>4. e = [d EXCEPT !.analysis = [a EXCEPT !.sampling_result = [s EXCEPT ![key] = o]]]
    BY <1>1, <2>3, Zenon
  <2> QED
    BY <1>10, <1>17, <2>2, <2>3, <2>4, Zenon
<1>18. CASE /\ Complete
            /\ \E i \in DOMAIN Sampling.samples : \E o \in Edited(Sampling.samples[i]) :
                 document' = [document EXCEPT !.analysis.sampling_result.samples[i] = o]
  <2>1. PICK i \in DOMAIN s.samples :
          \E o \in Edited(s.samples[i]) : e = [d EXCEPT !.analysis.sampling_result.samples[i] = o]
    BY <1>1, <1>2, <1>18, Zenon
  <2>2. PICK part : part = s.samples[i]
    OBVIOUS
  <2>3. PICK o \in Edited(part) : e = [d EXCEPT !.analysis.sampling_result.samples[i] = o]
    BY <2>1, <2>2, Zenon
  <2>4. e = [d EXCEPT !.analysis = [a EXCEPT !.sampling_result =
                                      [s EXCEPT !.samples = [s.samples EXCEPT ![i] = o]]]]
    BY <1>1, <2>3, Zenon
  <2> QED
    BY <1>11, <1>18, <2>2, <2>3, <2>4, Zenon
<1>19. CASE /\ Complete
            /\ \E i \in {j \in DOMAIN Sampling.samples : HasKeys(Sampling.samples[j], {"result"})} :
                 \E o \in Edited(Sampling.samples[i].result) :
                   document' = [document EXCEPT !.analysis.sampling_result.samples[i].result = o]
  <2>1. PICK i \in {j \in DOMAIN s.samples : HasKeys(s.samples[j], {"result"})} :
          \E o \in Edited(s.samples[i].result) :
            e = [d EXCEPT !.analysis.sampling_result.samples[i].result = o]
    <3>1. /\ document' = e /\ document = d /\ Sampling = s
      BY <1>1, <1>2, <1>19
    <3>2. \E i \in {j \in DOMAIN s.samples : HasKeys(s.samples[j], {"result"})} :
            \E o \in Edited(s.samples[i].result) :
              e = [d EXCEPT !.analysis.sampling_result.samples[i].result = o]
      BY <1>19, <3>1
    <3> QED
      BY <3>2
  <2>2. PICK part : part = s.samples[i].result
    OBVIOUS
  <2>3. PICK o \in Edited(part) : e = [d EXCEPT !.analysis.sampling_result.samples[i].result = o]
    BY <2>1, <2>2, Zenon
  <2>4. e = [d EXCEPT !.analysis = [a EXCEPT !.sampling_result =
               [s EXCEPT !.samples = [s.samples EXCEPT ![i] = [s.samples[i] EXCEPT !.result = o]]]]]
    BY <1>1, <2>3, Zenon
  <2> QED
    BY <1>12, <1>19, <2>2, <2>3, <2>4, Zenon
<1> QED
  BY <1>13, <1>14, <1>15, <1>16, <1>17, <1>18, <1>19, Zenon

-----------------------------------------------------------------------------
(* What the decoder returns could have been archived.                      *)

LEMMA SampleReadCanonical ==
  ASSUME NEW e, NEW version, SampleTyped(e), SampleReads(e, version)
  PROVE  CanonicalSample(SampleOf(e, version))
<1>1. PICK s, m, x : s = SampleOf(e, version) /\ m = MeasurementOf(x) /\ x = e.result
  OBVIOUS
<1>2. /\ {"sample_index", "scheduled", "started", "completed", "result"} \subseteq DOMAIN e
      /\ MeasurementReads(x) /\ SampleResultAccepts(s)
  BY <1>1 DEF SampleReads, HasKeys
<1>3. /\ {"status", "current", "request_latency", "errors"} \subseteq DOMAIN x
      /\ x.status \in Status /\ x.errors \subseteq ErrorCode
      /\ (x.current = NoTime) = (x.request_latency = NoTime)
  BY <1>2, Zenon DEF MeasurementReads, HasKeys
<1>4. e.scheduled \in Int /\ e.started \in Int /\ x.current \in Int
  BY <1>1, <1>2, <1>3 DEF SampleTyped
<1>5. PICK attempts : s = [index |-> e.sample_index, scheduled |-> e.scheduled,
                           started |-> e.started, completed |-> e.completed,
                           attempts |-> attempts, result |-> m]
  BY <1>1, Zenon DEF SampleOf
<1>6. /\ s.index = e.sample_index /\ s.scheduled = e.scheduled /\ s.started = e.started
      /\ s.completed = e.completed /\ s.attempts = attempts /\ s.result = m
  BY <1>5
<1>7. m = [status |-> x.status, measured |-> x.current # NoTime, current |-> x.current,
           latency |-> x.request_latency, errors |-> x.errors]
  BY <1>1 DEF MeasurementOf
<1>8. m.status = x.status /\ m.current = x.current /\ m.latency = x.request_latency /\ m.errors = x.errors
  BY <1>7
<1>9. MeasurementRecord(m)
  BY <1>7, <1>8, Zenon DEF MeasurementRecord
<1>10. s = [index |-> s.index, scheduled |-> s.scheduled, started |-> s.started,
            completed |-> s.completed, attempts |-> s.attempts, result |-> s.result]
  BY <1>5, <1>6, Zenon
<1>11. /\ s.scheduled \in Int /\ s.started \in Int /\ s.result.current \in Int
       /\ s.result.status \in Status /\ s.result.errors \subseteq ErrorCode
       /\ (s.result.current = NoTime) = (s.result.latency = NoTime)
       /\ MeasurementRecord(s.result)
  BY <1>3, <1>4, <1>6, <1>8, <1>9
<1>12. CanonicalSample(s)
  BY <1>2, <1>10, <1>11 DEF CanonicalSample
<1> QED
  BY <1>1, <1>12

(* A window that decodes is canonical. *)
LEMMA WindowReadCanonical ==
  ASSUME NEW d, NEW version \in {1, 2}, SamplingTyped(d), SamplingReads(d, version)
  PROVE  CanonicalWindow(SamplingOf(d, version))
<1>1. PICK r, places : r = SamplingOf(d, version) /\ places = DOMAIN d.samples
  OBVIOUS
<1>2. /\ {"ammeter_type", "status", "timestamp", "elapsed", "sampling_started",
          "sampling_elapsed", "settings", "samples", "errors"} \subseteq DOMAIN d
      /\ d.status \in Status /\ d.errors \subseteq ErrorCode
      /\ SamplingSettingsAccepts(d.settings.measurements_count, d.settings.total_duration,
                                 d.settings.slot_period)
      /\ \A i \in places : SampleReads(d.samples[i], version)
      /\ SamplingResultAccepts(r)
  BY <1>1 DEF SamplingReads, HasKeys
<1>3. /\ version = 2 => RetryPolicyAccepts(d.retry.max_attempts, d.retry.retry_delay)
  BY Versions DEF SamplingReads
<1>4. RetryPolicyAccepts(1, 0)
  BY TickAssumption DEF RetryPolicyAccepts, MaxAttemptsPerSlot, MAX_RETRY_DELAY_SECONDS
<1>5. PICK attempts, delay :
        /\ attempts = IF version >= RETRY_SCHEMA_VERSION THEN d.retry.max_attempts ELSE 1
        /\ delay = IF version >= RETRY_SCHEMA_VERSION THEN d.retry.retry_delay ELSE 0
  OBVIOUS
<1>6. RetryPolicyAccepts(attempts, delay)
  BY <1>3, <1>4, <1>5, Versions
<1>7. PICK slots : slots = [i \in places |-> SampleOf(d.samples[i], version)]
  OBVIOUS
<1>8. r = [ammeter |-> d.ammeter_type, status |-> d.status, timestamp |-> d.timestamp.at,
           elapsed |-> d.elapsed, opened |-> d.sampling_started.at # NoTime,
           startedAt |-> d.sampling_started.at, samplingElapsed |-> d.sampling_elapsed,
           count |-> d.settings.measurements_count, duration |-> d.settings.total_duration,
           period |-> d.settings.slot_period, samples |-> slots, errors |-> d.errors,
           maxAttempts |-> attempts, retryDelay |-> delay]
  BY <1>1, <1>5, <1>7, Zenon DEF SamplingOf
<1>9. /\ r.ammeter = d.ammeter_type /\ r.status = d.status /\ r.timestamp = d.timestamp.at
      /\ r.elapsed = d.elapsed /\ r.startedAt = d.sampling_started.at
      /\ r.samplingElapsed = d.sampling_elapsed /\ r.count = d.settings.measurements_count
      /\ r.duration = d.settings.total_duration /\ r.period = d.settings.slot_period
      /\ r.samples = slots /\ r.errors = d.errors
      /\ r.maxAttempts = attempts /\ r.retryDelay = delay
  BY <1>8
<1>10. WindowRecord(r)
  BY <1>8, <1>9, Zenon DEF WindowRecord
<1>11. /\ d.sampling_started.at \in Int
       /\ \E n \in Nat : places = 1 .. n
       /\ \A i \in places : SampleTyped(d.samples[i])
  BY <1>1, <1>2 DEF SamplingTyped
<1>12. \A i \in places : CanonicalSample(slots[i])
  <2> TAKE i \in places
  <2>1. PICK e : e = d.samples[i]
    OBVIOUS
  <2>2. SampleTyped(e) /\ SampleReads(e, version)
    BY <1>2, <1>11, <2>1
  <2>3. slots[i] = SampleOf(e, version)
    BY <1>7, <2>1
  <2> QED
    BY <2>2, <2>3, SampleReadCanonical
<1>13. \E S : slots \in Seq(S)
  <2>1. PICK n \in Nat : places = 1 .. n
    BY <1>11
  <2>2. slots = [i \in 1 .. n |-> slots[i]]
    BY <1>7, <2>1
  <2>3. PICK S : S = {slots[i] : i \in 1 .. n}
    OBVIOUS
  <2>4. slots \in Seq(S)
    BY <2>2, <2>3
  <2> QED
    BY <2>4
<1>14. /\ r.startedAt \in Int /\ r.status \in Status /\ r.errors \subseteq ErrorCode
       /\ \E S : r.samples \in Seq(S)
       /\ \A i \in DOMAIN r.samples : CanonicalSample(r.samples[i])
  BY <1>2, <1>7, <1>9, <1>11, <1>12, <1>13
<1>15. /\ RetryPolicyAccepts(r.maxAttempts, r.retryDelay)
       /\ SamplingSettingsAccepts(r.count, r.duration, r.period)
       /\ SamplingResultAccepts(r)
  BY <1>2, <1>6, <1>9
<1>17. CanonicalWindow(r)
  BY <1>10, <1>14, <1>15 DEF CanonicalWindow
<1> QED
  BY <1>1, <1>17

(* So is the run of every document that loads. *)
LEMMA ReadCanonical ==
  ASSUME NEW d, Typed(d), RunReads(d)
  PROVE  /\ RunRecord(RunOf(d)) /\ CanonicalWindow(RunOf(d).result)
         /\ d.schema_version \in {1, 2} /\ RunOf(d).run_id = d.run_id
<1>1. PICK r, w, a, version :
        /\ r = RunOf(d) /\ version = d.schema_version /\ a = d.analysis
        /\ w = SamplingOf(a.sampling_result, version)
  OBVIOUS
<1>2. r = [run_id |-> d.run_id, archived_at |-> d.archived_at.at, metadata |-> d.metadata,
           result |-> w]
  BY <1>1 DEF RunOf
<1>3. r.run_id = d.run_id /\ r.result = w /\ RunRecord(r)
  BY <1>2 DEF RunRecord
<1>4. /\ version \in {1, 2} /\ "analysis" \in DOMAIN d /\ AnalysisReads(a, version)
  BY <1>1, Versions DEF RunReads, VersionSupported, HasKeys
<1>5. "sampling_result" \in DOMAIN a /\ SamplingReads(a.sampling_result, version)
  BY <1>1, <1>4 DEF AnalysisReads, HasKeys
<1>6. SamplingTyped(a.sampling_result)
  BY <1>1, <1>4, <1>5 DEF Typed, AnalysisTyped
<1>7. CanonicalWindow(w)
  BY <1>1, <1>4, <1>5, <1>6, WindowReadCanonical
<1> QED
  BY <1>1, <1>3, <1>4, <1>7

-----------------------------------------------------------------------------
(* The invariant.                                                          *)

(* Until it is edited, a document is what its run encodes to, in a version *)
(* that can hold it. *)
Pristine ==
  \E version \in {1, 2} :
    /\ Retried(run.result) => version = 2
    /\ document = RunDocument(run, version)

CodecInv ==
  /\ run \in Runs /\ edits \in Nat
  /\ Typed(document)
  /\ edits = 0 => Pristine

(* A file loads only as the run it was asked for. *)
LEMMA AcceptedReads ==
  ASSUME NEW d, NEW id, Loaded(d, id) = "run"
  PROVE  RunReads(d) /\ d.run_id = id
BY DEF Loaded

(* An untouched document loads as its run. *)
LEMMA PristineDecodes ==
  ASSUME run \in Runs, Pristine
  PROVE  Accepted /\ RunOf(document) = run
<1>1. PICK version \in {1, 2} :
        /\ Retried(run.result) => version = 2
        /\ document = RunDocument(run, version)
  BY DEF Pristine
<1>2. PICK r \in Runs : r = run
  OBVIOUS
<1>3. /\ RunRecord(r) /\ CanonicalWindow(r.result) /\ (version = 1 => WithoutRetries(r.result))
  BY <1>1, <1>2, RunsCanonical
<1>4. /\ RunOf(RunDocument(r, version)) = r
      /\ Loaded(RunDocument(r, version), r.run_id) = "run"
  BY <1>3, RunDecodes
<1> QED
  BY <1>1, <1>2, <1>4 DEF Accepted

(* A run that was just archived starts in the invariant. *)
LEMMA InitCodec == Init => CodecInv
<1> SUFFICES ASSUME Init PROVE CodecInv
  OBVIOUS
<1>1. PICK version \in {1, 2} :
        /\ Retried(run.result) => version >= 2
        /\ document = RunDocument(run, version)
  BY Versions DEF Init
<1>2. run \in Runs /\ edits = 0
  BY DEF Init
<1>3. Pristine
  BY <1>1 DEF Pristine
<1>4. Typed(document)
  <2>1. PICK r \in Runs : r = run
    BY <1>2
  <2>2. Typed(RunDocument(r, version))
    BY RunsCanonical, WrittenTyped
  <2> QED
    BY <1>1, <2>1, <2>2
<1> QED
  BY <1>2, <1>3, <1>4 DEF CodecInv

(* What is exported is the loaded run in the current version. *)
LEMMA ExportWrites ==
  ASSUME CodecInv, Export
  PROVE  /\ RunOf(document') = RunOf(document)
         /\ Loaded(document', run'.run_id) = "run"
         /\ Typed(document')
<1>1. PICK d, r : d = document /\ r = RunOf(d)
  OBVIOUS
<1>2. RunReads(d) /\ d.run_id = run.run_id /\ run' = run /\ document' = RunDocument(r, 2)
  BY <1>1, AcceptedReads, Versions DEF Export
<1>3. Typed(d)
  BY <1>1 DEF CodecInv
<1>4. RunRecord(r) /\ CanonicalWindow(r.result) /\ r.run_id = d.run_id
  BY <1>1, <1>2, <1>3, ReadCanonical
<1>5. RunOf(RunDocument(r, 2)) = r /\ Loaded(RunDocument(r, 2), r.run_id) = "run"
  BY <1>4, RunDecodes
<1>6. Typed(RunDocument(r, 2))
  BY <1>4, WrittenTyped
<1> QED
  BY <1>1, <1>2, <1>4, <1>5, <1>6

(* Edits and exports keep it. *)
LEMMA NextCodec == CodecInv /\ [Next]_vars => CodecInv'
<1> SUFFICES ASSUME CodecInv, [Next]_vars PROVE CodecInv'
  OBVIOUS
<1>1. CASE Edit
  <2>1. Typed(document')
    BY <1>1, EditKeepsTypes DEF CodecInv
  <2>2. run' = run /\ edits' = edits + 1
    BY <1>1 DEF Edit
  <2>3. edits' \in Nat /\ edits' # 0
    BY <2>2 DEF CodecInv
  <2> QED
    BY <2>1, <2>2, <2>3 DEF CodecInv
<1>2. CASE Export
  <2>1. run' = run /\ edits' = edits /\ document' = RunDocument(RunOf(document), 2)
    BY <1>2, Versions DEF Export
  <2>2. Typed(document')
    BY <1>2, ExportWrites
  <2>3. ASSUME edits' = 0 PROVE Pristine'
    <3>1. RunOf(document) = run
      BY <2>1, <2>3, PristineDecodes DEF CodecInv
    <3>2. document' = RunDocument(run', 2)
      BY <2>1, <3>1
    <3> QED
      BY <3>2 DEF Pristine
  <2> QED
    BY <2>1, <2>2, <2>3 DEF CodecInv
<1>3. CASE UNCHANGED vars
  BY <1>3 DEF vars, CodecInv, Pristine
<1> QED
  BY <1>1, <1>2, <1>3 DEF Next

(* Every reachable document has the types its decoder relies on, and is the
    encoding of its run until the first edit. *)
THEOREM CodecInvariant == Spec => []CodecInv
<1> QED
  BY InitCodec, NextCodec, PTL DEF Spec

(* A document nobody touched loads as the run it was written from: what    *)
(* version 1 does not store, its decoder puts back.                        *)
THEOREM DecodingInvertsEncoding == Spec => []RoundTrip
<1>1. CodecInv => RoundTrip
  BY PristineDecodes DEF CodecInv, RoundTrip
<1> QED
  BY <1>1, CodecInvariant, PTL

(* What is exported loads as the very run that was on display, whatever    *)
(* was edited before it was loaded, and from either version.               *)
THEOREM ExportsKeepTheRun == Spec => ExportKeepsRun
<1>1. CodecInv => (Export => Accepted' /\ RunOf(document') = RunOf(document))
  BY ExportWrites DEF Accepted
<1> QED
  BY <1>1, CodecInvariant, PTL DEF ExportKeepsRun, Spec

-----------------------------------------------------------------------------
(* What an accepted document says of itself.                               *)

(* The window an accepted document holds is the one its own encoding of    *)
(* that window shows, but for the five metrics. *)
Faithful(d, w, version) ==
  /\ d.analysis.status = w.status
  /\ d.analysis.summary = AnalysisDocument(w, version).summary
  /\ d.analysis.sampling_result = SamplingDocument(w, version)
  /\ StatisticsMatch(StatisticsDocument(Statistics(w)), d.analysis.statistics)

(* ArchiveDocumentsMatch made it so when the document was loaded. *)
LEMMA ReadFaithful ==
  ASSUME NEW d, RunReads(d)
  PROVE  Faithful(d, RunOf(d).result, d.schema_version)
<1>1. PICK a, version, w, full :
        /\ a = d.analysis /\ version = d.schema_version
        /\ w = SamplingOf(a.sampling_result, version) /\ full = AnalysisDocument(w, version)
  OBVIOUS
<1>2. AnalysisDocumentsMatch(full, a)
  BY <1>1 DEF RunReads, AnalysisReads
<1>3. /\ DOMAIN full = AnalysisKeys /\ full.status = w.status
      /\ full.statistics = StatisticsDocument(Statistics(w))
      /\ full.sampling_result = SamplingDocument(w, version)
  BY <1>1, AnalysisWritten, ZenonT(60)
<1>4. /\ DOMAIN full = DOMAIN a
      /\ \A k \in DOMAIN a \ {"statistics"} : full[k] = a[k]
      /\ StatisticsMatch(full.statistics, a.statistics)
  BY <1>2 DEF AnalysisDocumentsMatch
<1>5. a.status = full.status /\ a.summary = full.summary /\ a.sampling_result = full.sampling_result
  BY <1>3, <1>4 DEF AnalysisKeys
<1>6. RunOf(d).result = w
  BY <1>1 DEF RunOf
<1> QED
  BY <1>1, <1>3, <1>4, <1>5, <1>6, Zenon DEF Faithful

(* A sample is a success if it has a reading, and missed if it never       *)
(* started. *)
LEMMA CanonicalSlots ==
  ASSUME NEW s, CanonicalSample(s)
  PROVE  /\ s.result.status = "SUCCESS" <=> s.result.current # NoTime
         /\ MissedSlot(s) <=> s.started = NoTime
<1>1. PICK m : m = s.result
  OBVIOUS
<1>2. m.measured = (m.current # NoTime)
  BY <1>1 DEF CanonicalSample, MeasurementRecord
<1>3. MeasurementResultAccepts(m) /\ m.status # "PARTIAL"
  BY <1>1 DEF CanonicalSample, SampleResultAccepts
<1>4. m.status = "SUCCESS" <=> m.current # NoTime
  BY <1>2, <1>3 DEF MeasurementResultAccepts
<1>5. MissedSlot(s) <=> s.started = NoTime
  BY DEF CanonicalSample, SampleResultAccepts
<1> QED
  BY <1>1, <1>4, <1>5

MissedPlaces(samples) == {i \in DOMAIN samples : MissedSlot(samples[i])}

(* The samples of a written window, slot by slot. *)
LEMMA SlotsWritten ==
  ASSUME NEW w, NEW version \in {1, 2}, CanonicalWindow(w),
         NEW samples, samples = SamplingDocument(w, version).samples
  PROVE  /\ DOMAIN samples = DOMAIN w.samples
         /\ \A i \in DOMAIN w.samples :
              /\ samples[i] = SampleDocument(w.samples[i], w.startedAt, version)
              /\ samples[i].result.current = w.samples[i].result.current
              /\ samples[i].started = w.samples[i].started
         /\ WithReading(samples) = SuccessfulSlots(w.samples)
         /\ NeverStarted(samples) = MissedPlaces(w.samples)
<1>1. samples = [i \in DOMAIN w.samples |-> SampleDocument(w.samples[i], w.startedAt, version)]
  <2>1. PICK d : d = SamplingDocument(w, version)
    OBVIOUS
  <2>2. d.samples = [i \in DOMAIN w.samples |-> SampleDocument(w.samples[i], w.startedAt, version)]
    BY <2>1, SamplingWritten
  <2> QED
    BY <2>1, <2>2
<1>2. ASSUME NEW i \in DOMAIN w.samples
      PROVE  /\ samples[i] = SampleDocument(w.samples[i], w.startedAt, version)
             /\ samples[i].result.current = w.samples[i].result.current
             /\ samples[i].started = w.samples[i].started
             /\ w.samples[i].result.status = "SUCCESS" <=> samples[i].result.current # NoTime
             /\ MissedSlot(w.samples[i]) <=> samples[i].started = NoTime
  <2>1. PICK s, e, t : s = w.samples[i] /\ t = w.startedAt /\ e = SampleDocument(s, t, version)
    OBVIOUS
  <2>2. samples[i] = e
    BY <1>1, <2>1
  <2>3. e.started = s.started /\ e.result = MeasurementDocument(s.result)
    BY <2>1, SampleWritten
  <2>4. e.result.current = s.result.current
    BY <2>3 DEF MeasurementDocument
  <2>5. CanonicalSample(s)
    BY <2>1 DEF CanonicalWindow
  <2> QED
    BY <2>1, <2>2, <2>3, <2>4, <2>5, CanonicalSlots
<1>3. DOMAIN samples = DOMAIN w.samples
  BY <1>1
<1> QED
  BY <1>2, <1>3 DEF SuccessfulSlots, WithReading, NeverStarted, MissedPlaces

(* The counts and the status follow from the samples. *)
LEMMA CountsFollow ==
  ASSUME NEW d, NEW w, NEW version \in {1, 2}, CanonicalWindow(w), Faithful(d, w, version)
  PROVE  CountsTell(d.analysis)
<1>1. PICK a, e, samples, ok, missed, n :
        /\ a = d.analysis /\ e = a.sampling_result /\ samples = e.samples
        /\ ok = Cardinality(SuccessfulSlots(w.samples)) /\ missed = Missed(w.samples)
        /\ n = Len(w.samples)
  OBVIOUS
<1>2. /\ e = SamplingDocument(w, version) /\ a.status = w.status
      /\ a.summary = AnalysisDocument(w, version).summary
  BY <1>1 DEF Faithful
<1>3. /\ e.status = w.status /\ e.errors = w.errors
      /\ e.settings = [measurements_count |-> w.count, total_duration |-> w.duration,
                       slot_period |-> w.period]
      /\ e.summary = [successful |-> ok, missed |-> missed, failed |-> n - ok - missed]
  <2>1. PICK y : y = SamplingDocument(w, version)
    OBVIOUS
  <2>2. /\ y.status = w.status /\ y.errors = w.errors
        /\ y.settings = [measurements_count |-> w.count, total_duration |-> w.duration,
                         slot_period |-> w.period]
        /\ y.summary = [successful |-> Cardinality(SuccessfulSlots(w.samples)),
                        missed |-> Missed(w.samples),
                        failed |-> Len(w.samples) - Cardinality(SuccessfulSlots(w.samples))
                                     - Missed(w.samples)]
    BY <2>1, SamplingWritten
  <2> QED
    BY <1>1, <1>2, <2>1, <2>2
<1>4. a.summary = [planned |-> w.count, recorded |-> n, analyzed |-> ok, excluded |-> n - ok,
                   missed |-> missed, failed |-> n - ok - missed]
  BY <1>1, <1>2, AnalysisWritten
<1>5. Cardinality(WithReading(samples)) = ok /\ Cardinality(NeverStarted(samples)) = missed
  <2>1. /\ WithReading(samples) = SuccessfulSlots(w.samples)
        /\ NeverStarted(samples) = MissedPlaces(w.samples)
    BY <1>1, <1>2, SlotsWritten
  <2> QED
    BY <1>1, <2>1, Zenon DEF Missed, MissedPlaces
<1>6. PICK S, list : list \in Seq(S) /\ list = w.samples
  BY DEF CanonicalWindow
<1>7. /\ n \in Nat /\ IsFiniteSet(DOMAIN list) /\ Cardinality(DOMAIN list) = n
      /\ SuccessfulSlots(list) \in SUBSET (DOMAIN list) /\ ok \in Nat
  BY <1>1, <1>6, SlotCounts
<1>8. missed \in Nat
  <2>1. PICK away : away = {i \in DOMAIN list : MissedSlot(list[i])}
    OBVIOUS
  <2>2. IsFiniteSet(away)
    BY <1>7, <2>1, FS_Subset
  <2>3. missed = Cardinality(away)
    BY <1>1, <1>6, <2>1 DEF Missed
  <2> QED
    BY <2>2, <2>3, FS_CardinalityType
<1>9. w.status = "SUCCESS" <=> ok = w.count /\ w.errors = {}
  <2>1. /\ StatusAccepts(w.status, w.count, list, w.errors)
        /\ w.opened => n = w.count
        /\ ~w.opened => list = <<>>
        /\ w.opened = (w.startedAt # NoTime)
        /\ w.count >= 1
    BY <1>1, <1>6 DEF CanonicalWindow, WindowRecord, SamplingResultAccepts, SamplingSettingsAccepts
  <2>2. ASSUME w.status = "SUCCESS" PROVE ok = w.count /\ w.errors = {}
    BY <1>1, <1>6, <1>7, <2>1, <2>2 DEF StatusAccepts, HasFailures
  <2>3. ASSUME ok = w.count, w.errors = {} PROVE w.status = "SUCCESS"
    <3>1. w.opened
      <4>1. ASSUME list = <<>> PROVE ok = 0
        <5>1. n = 0
          BY <1>1, <1>6, <4>1
        <5>2. ok <= n
          BY <1>1, <1>6, <1>7, FS_Subset
        <5> QED
          BY <1>7, <5>1, <5>2
      <4> QED
        BY <1>7, <2>1, <2>3, <4>1
    <3>2. SuccessfulSlots(list) = DOMAIN list
      BY <1>1, <1>6, <1>7, <2>1, <2>3, <3>1, FS_Subset
    <3> QED
      BY <2>1, <2>3, <3>2 DEF StatusAccepts, HasFailures
  <2> QED
    BY <2>2, <2>3
<1>10. /\ a.summary.planned = w.count /\ a.summary.recorded = n /\ a.summary.analyzed = ok
       /\ a.summary.excluded = n - ok /\ a.summary.missed = missed
       /\ a.summary.failed = n - ok - missed
       /\ e.summary.successful = ok /\ e.summary.missed = missed
       /\ e.summary.failed = n - ok - missed /\ e.settings.measurements_count = w.count
  BY <1>3, <1>4
<1>11. n = ok + missed + (n - ok - missed) /\ n - ok = missed + (n - ok - missed)
  BY <1>7, <1>8
<1> QED
  BY <1>1, <1>2, <1>3, <1>5, <1>9, <1>10, <1>11, Zenon DEF CountsTell

(* The instants of the samples follow from the schedule. *)
LEMMA InstantsFollow ==
  ASSUME NEW d, NEW w, NEW version \in {1, 2}, CanonicalWindow(w), Faithful(d, w, version)
  PROVE  InstantsTell(d.analysis.sampling_result, version)
<1>1. PICK e, samples, t : /\ e = d.analysis.sampling_result /\ samples = e.samples
                           /\ t = w.startedAt
  OBVIOUS
<1>2. e = SamplingDocument(w, version)
  BY <1>1 DEF Faithful
<1>3. e.sampling_started.at = t
  <2>1. SamplingDocument(w, version).sampling_started = Stamp(w.startedAt)
    BY SamplingWritten, ZenonT(60)
  <2>2. e.sampling_started = Stamp(t)
    BY <1>1, <1>2, <2>1
  <2> QED
    BY <2>2 DEF Stamp
<1>4. /\ DOMAIN samples = DOMAIN w.samples
      /\ \A i \in DOMAIN w.samples : samples[i] = SampleDocument(w.samples[i], t, version)
  BY <1>1, <1>2, SlotsWritten
<1>5. ASSUME NEW i \in DOMAIN samples
      PROVE  /\ samples[i].scheduled_at.at = t + samples[i].scheduled
             /\ samples[i].started # NoTime =>
                  samples[i].started_at.at = samples[i].scheduled_at.at + samples[i].timing_error
             /\ version = 1 => "request_attempts" \notin DOMAIN samples[i]
  <2>1. PICK s, x : s = w.samples[i] /\ x = samples[i]
    OBVIOUS
  <2>2. CanonicalSample(s) /\ x = SampleDocument(s, t, version)
    BY <1>4, <2>1 DEF CanonicalWindow
  <2>3. /\ DOMAIN x = SampleKeys \cup (IF version = 2 THEN {"request_attempts"} ELSE {})
        /\ x.scheduled = s.scheduled /\ x.scheduled_at = Stamp(t + s.scheduled)
        /\ x.started = s.started /\ x.started_at = StartedAt(s, t)
        /\ x.timing_error = IF s.started = NoTime THEN NoTime ELSE s.started - s.scheduled
    <3>1. PICK y : y = SampleDocument(s, t, version)
      OBVIOUS
    <3>2. /\ DOMAIN y = SampleKeys \cup (IF version = 2 THEN {"request_attempts"} ELSE {})
          /\ y.scheduled = s.scheduled /\ y.scheduled_at = Stamp(t + s.scheduled)
          /\ y.started = s.started /\ y.started_at = StartedAt(s, t)
          /\ y.timing_error = IF s.started = NoTime THEN NoTime ELSE s.started - s.scheduled
      BY <3>1, SampleWritten, ZenonT(60)
    <3> QED
      BY <2>2, <3>1, <3>2
  <2>4. x.scheduled_at.at = t + s.scheduled
    BY <2>3 DEF Stamp
  <2>5. s.started # NoTime => x.started_at.at = t + s.started /\ x.timing_error = s.started - s.scheduled
    BY <2>3 DEF StartedAt, Stamp
  <2>6. t \in Int /\ s.scheduled \in Int /\ s.started \in Int
    BY <1>1, <2>2 DEF CanonicalWindow, CanonicalSample
  <2>7. s.started # NoTime => x.started_at.at = x.scheduled_at.at + x.timing_error
    BY <2>4, <2>5, <2>6
  <2>8. version = 1 => "request_attempts" \notin DOMAIN x
    BY <2>3 DEF SampleKeys
  <2> QED
    BY <2>1, <2>3, <2>4, <2>7, <2>8
<1> QED
  BY <1>1, <1>3, <1>5, Zenon DEF InstantsTell

(* The j-th of the sorted values has rank j among the values. *)
LEMMA SortedRank ==
  ASSUME NEW values \in Seq(Int), NEW j \in 1 .. Len(values)
  PROVE  /\ HasRank(Sorted(values)[j], j, values)
         /\ Sorted(values)[j] \in Int
         /\ Sorted(values)[j] \in {values[k] : k \in DOMAIN values}
<1>1. PICK places, R : places = DOMAIN values /\ R = ValueOrder(values)
  OBVIOUS
<1>2. PICK p \in places : /\ Sorted(values)[j] = values[p]
                          /\ Cardinality(Below(p, places, R)) = j - 1
  <2>1. Len(values) >= 1
    OBVIOUS
  <2> QED
    BY <1>1, <2>1, SortedBounds
<1>3. PICK x, B, fewer, atMost :
        /\ x = values[p] /\ B = Below(p, places, R)
        /\ fewer = {k \in places : values[k] < x} /\ atMost = {k \in places : values[k] <= x}
  OBVIOUS
<1>4. x \in Int /\ \A k \in places : values[k] \in Int /\ k \in Nat
  BY <1>1, <1>3
<1>5. IsFiniteSet(places)
  <2>1. PICK n \in Nat : places = 1 .. n
    BY <1>1
  <2> QED
    BY <2>1, FS_Interval
<1>6. \A k \in places : k \in B <=> values[k] < x \/ (values[k] = x /\ k < p)
  <2> TAKE k \in places
  <2>1. k \in B <=> <<k, p>> \in R
    BY <1>3 DEF Below
  <2>2. <<k, p>> \in R <=> values[k] < values[p] \/ (values[k] = values[p] /\ k < p)
    BY <1>1 DEF ValueOrder
  <2> QED
    BY <1>3, <2>1, <2>2
<1>7. B \in SUBSET places /\ IsFiniteSet(B)
  <2>1. B \in SUBSET places
    BY <1>3 DEF Below
  <2> QED
    BY <1>5, <2>1, FS_Subset
<1>8. Cardinality(B) = j - 1 /\ j \in Nat
  BY <1>2, <1>3
<1>9. Cardinality(fewer) < j
  <2>1. fewer \in SUBSET B
    BY <1>3, <1>6
  <2>2. IsFiniteSet(fewer) /\ Cardinality(fewer) <= Cardinality(B)
    BY <1>7, <2>1, FS_Subset
  <2>3. Cardinality(fewer) \in Nat
    BY <2>2, FS_CardinalityType
  <2> QED
    BY <1>8, <2>2, <2>3
<1>10. Cardinality(atMost) >= j
  <2>1. p \notin B
    BY <1>3, <1>4, <1>6
  <2>2. IsFiniteSet(B \cup {p}) /\ Cardinality(B \cup {p}) = Cardinality(B) + 1
    BY <1>7, <2>1, FS_AddElement
  <2>3. B \cup {p} \in SUBSET atMost
    BY <1>3, <1>4, <1>6, <1>7
  <2>4. IsFiniteSet(atMost)
    BY <1>3, <1>5, FS_Subset
  <2>5. Cardinality(B \cup {p}) <= Cardinality(atMost)
    BY <2>3, <2>4, FS_Subset
  <2>6. Cardinality(atMost) \in Nat
    BY <2>4, FS_CardinalityType
  <2> QED
    BY <1>8, <2>2, <2>5, <2>6
<1>11. HasRank(x, j, values)
  BY <1>1, <1>3, <1>9, <1>10 DEF HasRank
<1> QED
  BY <1>1, <1>2, <1>3, <1>4, <1>11

(* A quotient is the whole number below its fraction. *)
LEMMA QuotientIsFloor ==
  ASSUME NEW n \in Nat, n >= 1, NEW t \in Int
  PROVE  /\ t \div n \in Int
         /\ n * (t \div n) <= t /\ t < n * ((t \div n) + 1)
<1>1. PICK q, r : q = t \div n /\ r = t % n
  OBVIOUS
<1>2. q \in Int /\ r \in 0 .. n - 1 /\ t = n * q + r
  BY <1>1
<1>3. n * (q + 1) = n * q + n
  BY <1>2
<1>4. n * q \in Int
  BY <1>2
<1> QED
  BY <1>1, <1>2, <1>3, <1>4

(* The median is in the middle of the values. *)
LEMMA MedianFollows ==
  ASSUME NEW values \in Seq(Int), Len(values) >= 1
  PROVE  IsMedian(StatisticsRecord(values).median_current, values)
<1>1. PICK n \in Nat : n = Len(values) /\ n >= 1
  OBVIOUS
<1>2. PICK sorted, all : sorted = Sorted(values) /\ all = {values[k] : k \in DOMAIN values}
  OBVIOUS
<1>3. \A j \in 1 .. n : HasRank(sorted[j], j, values) /\ sorted[j] \in Int /\ sorted[j] \in all
  BY <1>1, <1>2, SortedRank
<1>4. PICK x : x = IF n % 2 = 1 THEN sorted[n \div 2 + 1]
                   ELSE (sorted[(n \div 2 + 1) - 1] + sorted[n \div 2 + 1]) \div 2
  OBVIOUS
<1>5. StatisticsRecord(values).median_current = x
  BY <1>1, <1>2, <1>4 DEF StatisticsRecord
<1>6. PICK i, j : i = (n + 1) \div 2 /\ j = n \div 2 + 1
  OBVIOUS
<1>7. i \in 1 .. n /\ j \in 1 .. n
  BY <1>1, <1>6
<1>8. PICK low, high : low = sorted[i] /\ high = sorted[j]
  OBVIOUS
<1>9. /\ low \in Int /\ high \in Int /\ low \in all /\ high \in all
      /\ HasRank(low, i, values) /\ HasRank(high, j, values)
  BY <1>3, <1>7, <1>8
<1>10. x \in Int /\ 2 * x <= low + high /\ low + high < 2 * (x + 1)
  <2>1. CASE n % 2 = 1
    <3>1. i = j
      BY <1>1, <1>6, <2>1
    <3>2. x = high /\ low = high
      BY <1>4, <1>6, <1>8, <2>1, <3>1
    <3> QED
      BY <1>9, <3>2
  <2>2. CASE n % 2 # 1
    <3>1. i = j - 1
      BY <1>1, <1>6, <2>2
    <3>2. x = (low + high) \div 2
      BY <1>4, <1>6, <1>8, <2>2, <3>1
    <3> QED
      BY <1>9, <3>2
  <2> QED
    BY <2>1, <2>2
<1>11. IsMedian(x, values)
  BY <1>1, <1>2, <1>6, <1>9, <1>10 DEF IsMedian
<1> QED
  BY <1>5, <1>11

(* The deviation is the root of the mean square. *)
LEMMA DeviationFollows ==
  ASSUME NEW values \in Seq(Int), Len(values) >= 1, NEW mean \in Int
  PROVE  IsDeviation(Deviation(values, mean), mean, values)
<1>1. PICK n \in Nat : n = Len(values) /\ n >= 1 /\ DOMAIN values = 1 .. n
  OBVIOUS
<1>2. PICK squares : squares = [k \in 1 .. n |-> (values[k] - mean) * (values[k] - mean)]
  OBVIOUS
<1>3. PICK t, q, d : t = Total(squares) /\ q = t \div n /\ d = Root[q]
  OBVIOUS
<1>4. Deviation(values, mean) = d
  BY <1>1, <1>2, <1>3 DEF Deviation
<1>5. t \in Nat
  BY <1>1, <1>2, <1>3, SquaresAddUp
<1>6. q \in Nat /\ n * q <= t /\ t < n * (q + 1)
  <2>1. t \div n \in Int /\ n * (t \div n) <= t /\ t < n * ((t \div n) + 1)
    BY <1>1, <1>5, QuotientIsFloor
  <2>2. t \div n >= 0
    BY <1>1, <1>5
  <2> QED
    BY <1>3, <2>1, <2>2
<1>7. d \in Nat /\ d * d <= q /\ q < (d + 1) * (d + 1)
  BY <1>3, <1>6, RootExists
<1>8. PICK low, high \in Nat : low = d * d /\ high = (d + 1) * (d + 1)
  BY <1>7
<1>9. n * low <= n * q
  BY <1>1, <1>6, <1>7, <1>8
<1>10. n * (q + 1) <= n * high
  <2>1. q + 1 <= high
    BY <1>6, <1>7, <1>8
  <2> QED
    BY <1>1, <1>6, <1>8, <2>1
<1>11. n * low \in Int /\ n * high \in Int /\ n * q \in Int /\ n * (q + 1) \in Int
  BY <1>1, <1>6, <1>8
<1>12. n * low <= t /\ t < n * high
  BY <1>5, <1>6, <1>9, <1>10, <1>11
<1>13. IsDeviation(d, mean, values)
  BY <1>1, <1>2, <1>3, <1>7, <1>8, <1>12 DEF IsDeviation
<1> QED
  BY <1>4, <1>13

(* Every statistic of one reading or more is what its name says. *)
LEMMA StatisticsOfValues ==
  ASSUME NEW values \in Seq(Int), Len(values) >= 1
  PROVE  LET s == CalculateCurrentStatistics[values]
         IN  /\ s.measurements_count = Len(values)
             /\ HasRank(s.minimum_current, 1, values)
             /\ HasRank(s.maximum_current, Len(values), values)
             /\ IsMedian(s.median_current, values)
             /\ IsMean(s.mean_current, values)
             /\ IsDeviation(s.standard_deviation_current, s.mean_current, values)
<1>1. PICK n \in Nat : n = Len(values) /\ n >= 1
  OBVIOUS
<1>2. PICK s : s = CalculateCurrentStatistics[values]
  OBVIOUS
<1>3. s = StatisticsRecord(values)
  BY <1>2, StatisticsCalculated
<1>4. /\ s.measurements_count = n
      /\ s.mean_current = Total(values) \div n
      /\ s.standard_deviation_current = Deviation(values, Total(values) \div n)
      /\ s.minimum_current = Sorted(values)[1] /\ s.maximum_current = Sorted(values)[n]
  BY <1>1, <1>3 DEF StatisticsRecord
<1>5. HasRank(s.minimum_current, 1, values) /\ HasRank(s.maximum_current, n, values)
  <2>1. 1 \in 1 .. Len(values) /\ n \in 1 .. Len(values)
    BY <1>1
  <2> QED
    BY <1>4, <2>1, SortedRank
<1>6. IsMedian(s.median_current, values)
  BY <1>3, MedianFollows
<1>7. PICK t, mean : t = Total(values) /\ mean = t \div n
  OBVIOUS
<1>8. t \in Int
  BY <1>7, TotalIsNumber
<1>9. mean \in Int /\ n * mean <= t /\ t < n * (mean + 1)
  BY <1>1, <1>7, <1>8, QuotientIsFloor
<1>10. IsMean(s.mean_current, values)
  BY <1>1, <1>4, <1>7, <1>9 DEF IsMean
<1>11. IsDeviation(s.standard_deviation_current, s.mean_current, values)
  BY <1>4, <1>7, <1>9, DeviationFollows
<1> QED
  BY <1>1, <1>2, <1>4, <1>5, <1>6, <1>10, <1>11

(* The stored statistics are those of the readings, within the tolerance. *)
LEMMA StatisticsFollow ==
  ASSUME NEW d, NEW w, NEW version \in {1, 2}, CanonicalWindow(w), Faithful(d, w, version),
         MetricsTyped(d.analysis.statistics)
  PROVE  StatisticsTell(d.analysis)
<1>1. PICK a, samples, stats, values, n, s, x :
        /\ a = d.analysis /\ samples = a.sampling_result.samples /\ stats = a.statistics
        /\ values = Picked([i \in DOMAIN samples |-> samples[i].result.current],
                           WithReading(samples))
        /\ n = Len(values) /\ s = Statistics(w) /\ x = StatisticsDocument(s)
  OBVIOUS
<1>2. /\ samples = SamplingDocument(w, version).samples
      /\ StatisticsMatch(x, stats) /\ MetricsTyped(stats)
  BY <1>1 DEF Faithful
<1>3. values = Currents(w.samples)
  <2>1. /\ DOMAIN samples = DOMAIN w.samples
        /\ \A i \in DOMAIN w.samples : samples[i].result.current = w.samples[i].result.current
        /\ WithReading(samples) = SuccessfulSlots(w.samples)
    BY <1>2, SlotsWritten
  <2>2. [i \in DOMAIN samples |-> samples[i].result.current]
          = [i \in DOMAIN w.samples |-> w.samples[i].result.current]
    BY <2>1
  <2> QED
    BY <1>1, <2>1, <2>2 DEF Currents
<1>4. PICK S, list : list = w.samples /\ list \in Seq(S)
                     /\ \A i \in DOMAIN list : list[i].result.current \in Int
  BY WindowReadings
<1>5. values \in Seq(Int) /\ n = Cardinality(SuccessfulSlots(list)) /\ n \in Nat
  <2>1. Currents(list) \in Seq(Int) /\ Len(Currents(list)) = Cardinality(SuccessfulSlots(list))
    BY <1>4, CurrentsOfSlots
  <2>2. values = Currents(list)
    BY <1>3, <1>4
  <2>3. n = Len(values)
    BY <1>1
  <2>4. Len(Currents(list)) \in Nat
    BY <2>1
  <2> QED
    BY <2>1, <2>2, <2>3, <2>4
<1>6. s = CalculateCurrentStatistics[values]
  BY <1>1, <1>3 DEF Statistics
<1>7. s = Null <=> n = 0
  <2>1. s = Null <=> SuccessfulSlots(list) = {}
    BY <1>3, <1>4, <1>6, StatisticsOfSlots
  <2>2. n = 0 <=> SuccessfulSlots(list) = {}
    BY <1>4, <1>5, SlotCounts
  <2> QED
    BY <2>1, <2>2
<1>8. x = Null <=> s = Null
  BY <1>1, StatisticsWritten
<1>9. (stats = Null) = (n = 0)
  BY <1>2, <1>7, <1>8 DEF StatisticsMatch
<1>10. ASSUME stats # Null
       PROVE  /\ stats.measurements_count = n
              /\ \E y \in Near(stats.minimum_current) : HasRank(y, 1, values)
              /\ \E y \in Near(stats.maximum_current) : HasRank(y, n, values)
              /\ \E y \in Near(stats.median_current) : IsMedian(y, values)
              /\ \E mean \in Near(stats.mean_current) :
                   /\ IsMean(mean, values)
                   /\ \E y \in Near(stats.standard_deviation_current) :
                        IsDeviation(y, mean, values)
  <2>1. s # Null /\ n >= 1
    BY <1>5, <1>7, <1>9, <1>10
  <2>2. /\ s.measurements_count = n
        /\ HasRank(s.minimum_current, 1, values) /\ HasRank(s.maximum_current, n, values)
        /\ IsMedian(s.median_current, values) /\ IsMean(s.mean_current, values)
        /\ IsDeviation(s.standard_deviation_current, s.mean_current, values)
    BY <1>1, <1>5, <1>6, <2>1, StatisticsOfValues
  <2>3. /\ DOMAIN x = StatisticsKeys /\ x.measurements_count = s.measurements_count
        /\ \A k \in Metrics : x[k] = Float(s[k]) /\ s[k] \in Int
    BY <1>1, <2>1, StatisticsWritten
  <2>4. /\ DOMAIN stats = StatisticsKeys
        /\ \A k \in StatisticsKeys :
             IF k \in Metrics THEN MetricsMatch(x[k], stats[k]) ELSE x[k] = stats[k]
    BY <1>2, <1>10, <2>3 DEF StatisticsMatch
  <2>5. stats.measurements_count = n
    BY <2>2, <2>3, <2>4 DEF StatisticsKeys, Metrics
  <2>6. ASSUME NEW k \in Metrics
        PROVE  s[k] \in Near(stats[k])
    <3>1. PICK m, v : m = s[k] /\ v = stats[k].n
      OBVIOUS
    <3>2. k \in StatisticsKeys
      BY DEF Metrics, StatisticsKeys
    <3>3. MetricsMatch(x[k], stats[k]) /\ x[k] = Float(m) /\ m \in Int
      BY <2>3, <2>4, <3>1, <3>2
    <3>4. x[k].n = m
      BY <3>3 DEF Float
    <3>5. v \in Int
      BY <1>2, <2>4, <3>1, <3>2 DEF MetricsTyped
    <3>6. m - v \in -MetricTolerance .. MetricTolerance
      BY <3>1, <3>3, <3>4 DEF MetricsMatch
    <3>7. m \in v - MetricTolerance .. v + MetricTolerance
      BY <3>3, <3>5, <3>6 DEF MetricTolerance
    <3> QED
      BY <3>1, <3>7 DEF Near
  <2>7. /\ s.minimum_current \in Near(stats.minimum_current)
        /\ s.maximum_current \in Near(stats.maximum_current)
        /\ s.median_current \in Near(stats.median_current)
        /\ s.mean_current \in Near(stats.mean_current)
        /\ s.standard_deviation_current \in Near(stats.standard_deviation_current)
    BY <2>6 DEF Metrics
  <2> QED
    BY <2>2, <2>5, <2>7
<1> QED
  BY <1>1, <1>9, <1>10, Zenon DEF StatisticsTell

(* Whatever was edited, a document that still loads states of its window   *)
(* what its samples say: counts, statuses, statistics and instants.        *)
THEOREM AcceptedDocumentsTellTheTruth == Spec => []AcceptedTellsTheTruth
<1>1. ASSUME CodecInv, Accepted
      PROVE  /\ CountsTell(Analysis) /\ StatisticsTell(Analysis)
             /\ InstantsTell(Sampling, document.schema_version)
  <2>1. PICK d, w, version : d = document /\ w = RunOf(d).result /\ version = d.schema_version
    OBVIOUS
  <2>2. RunReads(d) /\ Typed(d)
    BY <1>1, <2>1, AcceptedReads DEF Accepted, CodecInv
  <2>3. CanonicalWindow(w) /\ version \in {1, 2}
    BY <2>1, <2>2, ReadCanonical
  <2>4. Faithful(d, w, version)
    BY <2>1, <2>2, ReadFaithful
  <2>5. MetricsTyped(d.analysis.statistics)
    <3>1. "analysis" \in DOMAIN d /\ AnalysisReads(d.analysis, version)
      BY <2>1, <2>2 DEF RunReads, HasKeys
    <3>2. PICK a, full : a = d.analysis /\ full = AnalysisDocument(SamplingOf(a.sampling_result, version), version)
      OBVIOUS
    <3>3. DOMAIN full = DOMAIN a
      BY <3>1, <3>2 DEF AnalysisReads, AnalysisDocumentsMatch
    <3>4. DOMAIN full = AnalysisKeys
      BY <3>2, AnalysisWritten
    <3> QED
      BY <2>2, <3>1, <3>2, <3>3, <3>4 DEF Typed, AnalysisTyped, AnalysisKeys
  <2>6. CountsTell(d.analysis) /\ StatisticsTell(d.analysis)
    BY <2>3, <2>4, <2>5, CountsFollow, StatisticsFollow
  <2>7. InstantsTell(d.analysis.sampling_result, version)
    BY <2>3, <2>4, InstantsFollow
  <2> QED
    BY <2>1, <2>6, <2>7 DEF Analysis, Sampling
<1>2. CodecInv => AcceptedTellsTheTruth
  BY <1>1 DEF AcceptedTellsTheTruth
<1> QED
  BY <1>2, CodecInvariant, PTL
=============================================================================
