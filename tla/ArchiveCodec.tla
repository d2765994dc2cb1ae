----------------------------- MODULE ArchiveCodec -----------------------------
(***************************************************************************)
(* The life of one archive document: the program writes it, in the version *)
(* of its day; others edit it, one key at a time; the program loads it and *)
(* exports what it loaded, always in the current version.                  *)
(***************************************************************************)
EXTENDS ArchiveDocuments

CONSTANTS
  Runs,      \* the runs that were archived
  Other,     \* an ammeter and a run ID that are not those of any run
  MaxEdits   \* bound on the edits of one document

ASSUME MaxEditsAssumption == MaxEdits \in Nat

ASSUME RunsAssumption == \A run \in Runs : RunAccepts(run)

VARIABLES
  run,        \* the run the document was written from
  document,   \* what its file holds
  edits       \* how often the file was edited since it was written

vars == <<run, document, edits>>

\* Only a run without retries can have been written by the program that
\* knew version 1.
Retried(r) ==
  \/ r.maxAttempts > 1 \/ r.retryDelay > 0
  \/ \E i \in DOMAIN r.samples : r.samples[i].attempts > 1

Init ==
  /\ run \in Runs
  /\ edits = 0
  /\ \E version \in SUPPORTED_ARCHIVE_SCHEMA_VERSIONS :
       /\ Retried(run.result) => version >= RETRY_SCHEMA_VERSION
       /\ document = RunDocument(run, version)

-----------------------------------------------------------------------------
(* Edits of another program: any key of any object gets a neighbouring     *)
(* value, disappears, or is added.                                         *)

Neighbours(key, v) ==
  CASE key \in {"timestamp", "archived_at", "sampling_started", "started_at", "scheduled_at"} ->
         {[v EXCEPT !.suffix = ""], [v EXCEPT !.suffix = "+00:00"], [v EXCEPT !.at = @ + 1]}
    [] key \in Metrics ->
         {[v EXCEPT !.n = @ + d] : d \in {-9, -8, 8, 9}} \cup {[v EXCEPT !.type = "int"]}
    [] key = "status" -> Status
    [] key = "errors" -> {{}, {"INVALID_MEASUREMENT"}, {"SAMPLING_SLOT_MISSED"}}
    [] key = "statistics" -> {Null}
    [] key \in {"ammeter_type", "run_id"} -> {Other}
    [] key = "schema_version" -> 1 .. 3
    [] key \in {"metadata", "summary", "sampling_result", "settings", "samples", "result",
                "analysis", "retry", "type"} -> {v}
    [] OTHER -> {v - 1, v + 1}

Added(object, key, value) ==
  [k \in DOMAIN object \cup {key} |-> IF k \in DOMAIN object THEN object[k] ELSE value]

\* object with one key changed, dropped, or added as a version-2 writer would.
Edited(object) ==
  (UNION {{[object EXCEPT ![k] = v] : v \in Neighbours(k, object[k])} : k \in DOMAIN object})
  \cup {[k \in DOMAIN object \ {gone} |-> object[k]] : gone \in DOMAIN object}
  \cup {Added(object, "retry", [max_attempts |-> 1, retry_delay |-> 0]),
        Added(object, "request_attempts", 1)}

Analysis == document.analysis
Sampling == document.analysis.sampling_result

Complete ==
  /\ HasKeys(document, {"analysis"})
  /\ HasKeys(Analysis, {"summary", "statistics", "sampling_result"})
  /\ HasKeys(Sampling, {"samples", "settings", "summary"})

Edit ==
  /\ edits < MaxEdits
  /\ edits' = edits + 1
  /\ UNCHANGED run
  /\ \/ document' \in Edited(document)
     \/ Complete /\ \E o \in Edited(Analysis) : document' = [document EXCEPT !.analysis = o]
     \/ /\ Complete
        /\ \E key \in {"summary", "statistics", "sampling_result"} :
             \E o \in Edited(Analysis[key]) : document' = [document EXCEPT !.analysis[key] = o]
     \/ /\ Complete
        /\ \E key \in {"summary", "settings", "retry"} \cap DOMAIN Sampling :
             \E o \in Edited(Sampling[key]) :
               document' = [document EXCEPT !.analysis.sampling_result[key] = o]
     \/ /\ Complete
        /\ \E i \in DOMAIN Sampling.samples : \E o \in Edited(Sampling.samples[i]) :
             document' = [document EXCEPT !.analysis.sampling_result.samples[i] = o]
     \/ /\ Complete
        /\ \E i \in {j \in DOMAIN Sampling.samples : HasKeys(Sampling.samples[j], {"result"})} :
             \E o \in Edited(Sampling.samples[i].result) :
               document' = [document EXCEPT !.analysis.sampling_result.samples[i].result = o]

\* Mutated form of Export: the stored document under the current version.
ExportStored ==
  /\ Loaded(document, run.run_id) = "run"
  /\ document' = [document EXCEPT !.schema_version = ARCHIVE_SCHEMA_VERSION]
  /\ edits' = edits
  /\ UNCHANGED run

\* The desktop exports a loaded run through archived_test_run_to_dict.
Export ==
  /\ Loaded(document, run.run_id) = "run"
  /\ document' = RunDocument(RunOf(document), ARCHIVE_SCHEMA_VERSION)
  /\ edits' = edits
  /\ UNCHANGED run

Next == Edit \/ Export

Spec == Init /\ [][Next]_vars

-----------------------------------------------------------------------------
Accepted == Loaded(document, run.run_id) = "run"

(* A document nobody touched loads as the run it was written from, in      *)
(* either version: what version 1 does not store is what its decoder puts  *)
(* back, and the statistics it is given are some its model accepts.        *)
RoundTrip == edits = 0 => Accepted /\ RunOf(document) = run

WithReading(samples) == {i \in DOMAIN samples : samples[i].result.current # NoTime}

NeverStarted(samples) == {i \in DOMAIN samples : samples[i].started = NoTime}

\* Every count and status of analysis document a follows from its samples.
CountsTell(a) ==
  LET d      == a.sampling_result
      ok     == Cardinality(WithReading(d.samples))
      missed == Cardinality(NeverStarted(d.samples))
  IN  /\ a.status = d.status
      /\ a.summary.planned = d.settings.measurements_count
      /\ a.summary.analyzed = ok /\ d.summary.successful = ok
      /\ a.summary.missed = missed /\ d.summary.missed = missed
      /\ a.summary.recorded = ok + missed + a.summary.failed
      /\ a.summary.excluded = missed + d.summary.failed
      /\ d.status = "SUCCESS" <=> ok = d.settings.measurements_count /\ d.errors = {}

\* x is the j-th of the values in ascending order.
HasRank(x, j, values) ==
  /\ Cardinality({k \in DOMAIN values : values[k] < x}) < j
  /\ Cardinality({k \in DOMAIN values : values[k] <= x}) >= j

\* The middle value, or half of the sum of the two in the middle.
IsMedian(x, values) ==
  LET n == Len(values) IN
  \E low, high \in {values[k] : k \in DOMAIN values} :
    /\ HasRank(low, (n + 1) \div 2, values) /\ HasRank(high, n \div 2 + 1, values)
    /\ 2 * x <= low + high /\ low + high < 2 * (x + 1)

IsMean(x, values) ==
  /\ Len(values) * x <= Total(values)
  /\ Total(values) < Len(values) * (x + 1)

\* The square of d is the mean of the squared distances to the mean.
IsDeviation(d, mean, values) ==
  LET squares == Total([k \in DOMAIN values |-> (values[k] - mean) * (values[k] - mean)]) IN
  /\ d \in Nat
  /\ Len(values) * (d * d) <= squares
  /\ squares < Len(values) * ((d + 1) * (d + 1))

\* What a stored metric may stand for.
Near(metric) == metric.n - MetricTolerance .. metric.n + MetricTolerance

\* Each of its statistics is, but for the tolerance, what the readings make it.
StatisticsTell(a) ==
  LET samples == a.sampling_result.samples
      values  == Picked([i \in DOMAIN samples |-> samples[i].result.current],
                        WithReading(samples))
      n       == Len(values)
      stats   == a.statistics
  IN  /\ (stats = Null) = (n = 0)
      /\ stats # Null =>
           /\ stats.measurements_count = n
           /\ \E x \in Near(stats.minimum_current) : HasRank(x, 1, values)
           /\ \E x \in Near(stats.maximum_current) : HasRank(x, n, values)
           /\ \E x \in Near(stats.median_current) : IsMedian(x, values)
           /\ \E mean \in Near(stats.mean_current) :
                /\ IsMean(mean, values)
                /\ \E d \in Near(stats.standard_deviation_current) :
                     IsDeviation(d, mean, values)

\* The instants of the samples are those of the schedule.
InstantsTell(d, version) ==
  \A i \in DOMAIN d.samples :
    LET s == d.samples[i] IN
    /\ s.scheduled_at.at = d.sampling_started.at + s.scheduled
    /\ s.started # NoTime => s.started_at.at = s.scheduled_at.at + s.timing_error
    /\ version = 1 => "request_attempts" \notin DOMAIN s

(* Whatever was edited, a document that still loads tells no lie about     *)
(* itself: the counts, the status and the instants it states are those of  *)
(* the samples it holds, and each of the five metrics lies within eight    *)
(* units in the last place of the one its readings have.  The facts are    *)
(* counted here from the document, by rank, sum and square, and not by the *)
(* encoder's own calculation.                                              *)
AcceptedTellsTheTruth ==
  Accepted => /\ CountsTell(Analysis) /\ StatisticsTell(Analysis)
              /\ InstantsTell(Sampling, document.schema_version)

(* Exporting a loaded run, also one of version 1, gives a document of the  *)
(* current version that loads as the very same run.                        *)
ExportKeepsRun ==
  [][Export => Accepted' /\ RunOf(document') = RunOf(document)]_vars

=============================================================================
