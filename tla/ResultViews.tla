------------------------------ MODULE ResultViews ------------------------------
(***************************************************************************)
(* The view models of the desktop: what the Results and the Compare page   *)
(* show of archive documents.  Numbers stand for their formatted texts and *)
(* NoTime for the placeholder; titles, units, colours and column widths    *)
(* are left out.                                                           *)
(***************************************************************************)
EXTENDS ArchiveQuery

\* find_runs and get_run hand documents of the current version to the pages.
DocumentOf == [id \in RunIds |-> RunDocument(Runs[id], ARCHIVE_SCHEMA_VERSION)]

STATISTICS_METRICS ==
  <<"mean_current", "median_current", "standard_deviation_current",
    "minimum_current", "maximum_current", "measurements_count">>

\* One statistic of a document; finite() of a missing one is None.
Shown(statistics, key) ==
  IF statistics = Null THEN NoTime
  ELSE IF key \in Metrics THEN statistics[key].n ELSE statistics[key]

Samples(analysis) == analysis.sampling_result.samples

CountRetriedSamples(analysis) ==
  Cardinality({i \in DOMAIN Samples(analysis) : Samples(analysis)[i].request_attempts > 1})

DescribeRetryPolicy(analysis) ==
  LET retry == analysis.sampling_result.retry
  IN  IF retry.max_attempts <= 1 THEN <<1>> ELSE <<retry.max_attempts, retry.retry_delay>>

\* No ratio of a window that recorded nothing.
SuccessRatio(summary) ==
  IF summary.recorded <= 0 THEN <<>> ELSE <<summary.analyzed, summary.recorded>>

-----------------------------------------------------------------------------
(* The history table.                                                      *)

HistoryRow(document) ==
  LET a == document.analysis
  IN  [run_id      |-> document.run_id,
       ammeter     |-> a.ammeter_type,
       status      |-> a.status,
       archived_at |-> document.archived_at.at,
       samples     |-> <<a.summary.analyzed, a.summary.recorded>>,
       ratio       |-> SuccessRatio(a.summary),
       mean        |-> Shown(a.statistics, "mean_current"),
       deviation   |-> Shown(a.statistics, "standard_deviation_current"),
       slot_period |-> a.sampling_result.settings.slot_period,
       retried     |-> CountRetriedSamples(a),
       retry       |-> DescribeRetryPolicy(a),
       metadata    |-> document.metadata]

Rows == [id \in RunIds |-> HistoryRow(DocumentOf[id])]

\* A needle is a word of the texts a row is searched by, blank when "".
RowMatchesSearch(row, needle) ==
  needle = "" \/ needle \in {row.ammeter, row.status} \cup DOMAIN row.metadata

-----------------------------------------------------------------------------
(* The detail of one run.                                                  *)

SummaryCards(analysis) ==
  [status    |-> analysis.status,
   samples   |-> <<analysis.summary.analyzed, analysis.summary.recorded>>,
   usable    |-> SuccessRatio(analysis.summary),
   mean      |-> Shown(analysis.statistics, "mean_current"),
   median    |-> Shown(analysis.statistics, "median_current"),
   deviation |-> Shown(analysis.statistics, "standard_deviation_current"),
   window    |-> analysis.sampling_result.sampling_elapsed,
   retries   |-> CountRetriedSamples(analysis),
   policy    |-> DescribeRetryPolicy(analysis)]

SampleRow(s) ==
  [index |-> s.sample_index, scheduled |-> s.scheduled, started |-> s.started,
   timing_error |-> s.timing_error, latency |-> s.result.request_latency,
   attempts |-> s.request_attempts, current |-> s.result.current,
   status |-> s.result.status, errors |-> s.result.errors]

SampleRows(analysis) ==
  [i \in DOMAIN Samples(analysis) |-> SampleRow(Samples(analysis)[i])]

\* The CSV export has the columns of the table, the attempts excepted.
SamplesCsv(analysis) ==
  [i \in DOMAIN Samples(analysis) |->
     LET row == SampleRow(Samples(analysis)[i])
     IN  [k \in DOMAIN row \ {"attempts"} |-> row[k]]]

\* Errors of the run itself come without a slot.
ErrorLines(analysis) ==
  {<<code>> : code \in analysis.sampling_result.errors}
  \cup UNION {{<<s.sample_index, code>> : code \in s.result.errors} :
                s \in ToSet(Samples(analysis))}

StatisticsRows(run) ==
  LET a == run.analysis
  IN  [metrics |-> [i \in DOMAIN STATISTICS_METRICS |-> Shown(a.statistics, STATISTICS_METRICS[i])],
       planned |-> a.summary.planned, recorded |-> a.summary.recorded,
       excluded |-> a.summary.excluded, failed |-> a.summary.failed,
       missed |-> a.summary.missed, settings |-> a.sampling_result.settings,
       retry |-> DescribeRetryPolicy(a), retried |-> CountRetriedSamples(a),
       metadata |-> run.metadata]

\* A missed slot is drawn where it was scheduled.
PlotX(s) == IF s.started # NoTime THEN s.started ELSE s.scheduled

\* Mutated form of Drawn: whatever was requested.
DrawnIfStarted(s) == s.started # NoTime

Drawn(s) == s.result.status = "SUCCESS" /\ s.result.current # NoTime

PlotSeries(analysis) ==
  LET samples == Samples(analysis)
      slots == DOMAIN samples
      xs == {PlotX(samples[i]) : i \in slots}
      Drawings == {i \in slots : Drawn(samples[i])}
      Points(ys, places) == Picked([i \in slots |-> <<PlotX(samples[i]), ys[i]>>], places)
      latencies == [i \in slots |-> samples[i].result.request_latency]
      delays == [i \in slots |-> samples[i].timing_error]
  IN  [readings |-> Points([i \in slots |-> samples[i].result.current], Drawings),
       failures |-> Points([i \in slots |-> NoTime], slots \ Drawings),
       latency  |-> Points(latencies, {i \in slots : latencies[i] # NoTime}),
       timing   |-> Points(delays, {i \in slots : delays[i] # NoTime}),
       span     |-> IF xs = {} THEN <<0, 1>> ELSE <<Min(xs), Max(xs)>>,
       lines    |-> [k \in {"mean_current", "minimum_current", "maximum_current"} |->
                       Shown(analysis.statistics, k)]]

\* Failures are drawn at the mean, and no line for a metric without value.
ShowAnalysis(analysis) ==
  LET series  == PlotSeries(analysis)
      average == FoldLeft(LAMBDA sum, point : sum + point[2], 0, series.readings)
                 \div Len(series.readings)
      height  == CASE series.lines.mean_current # NoTime -> series.lines.mean_current
                   [] series.lines.mean_current = NoTime /\ series.readings # <<>> -> average
                   [] OTHER -> 0
      shown   == {k \in DOMAIN series.lines : series.lines[k] # NoTime}
  IN  [series EXCEPT !.failures = [i \in DOMAIN @ |-> <<@[i][1], height>>],
                     !.lines = [k \in shown |-> series.lines[k]]]

\* Everything _show_selection fills.
Detail(run) ==
  [run_id |-> run.run_id, cards |-> SummaryCards(run.analysis),
   plot |-> ShowAnalysis(run.analysis), samples |-> SampleRows(run.analysis),
   statistics |-> StatisticsRows(run), errors |-> ErrorLines(run.analysis), json |-> run]

Details == [id \in RunIds |-> Detail(DocumentOf[id])]

-----------------------------------------------------------------------------
(* The comparison: serialized, laid out baseline first, and reduced to one *)
(* metric.                                                                 *)

ComparisonDocument(c) ==
  [baseline   |-> DocumentOf[c.baseline],
   candidates |-> [i \in DOMAIN c.candidates |->
     [archived_run           |-> DocumentOf[c.candidates[i]],
      statistics_delta       |-> c.deltas[i],
      same_ammeter_type      |-> c.same_ammeter_types[i],
      same_sampling_settings |-> c.same_sampling_settings[i]]]]

ComparisonEntry(run, isBaseline, deltas, comparable) ==
  [run_id |-> run.run_id, ammeter |-> run.analysis.ammeter_type,
   status |-> run.analysis.status, is_baseline |-> isBaseline,
   statistics |-> run.analysis.statistics, deltas |-> deltas, comparable |-> comparable]

ComparisonView(document) ==
  <<ComparisonEntry(document.baseline, TRUE, Null, <<>>)>>
  \o [i \in DOMAIN document.candidates |->
        LET c == document.candidates[i]
        IN  ComparisonEntry(c.archived_run, FALSE, c.statistics_delta,
                            <<c.same_ammeter_type, c.same_sampling_settings>>)]

MetricSeries(view, metric) ==
  [i \in DOMAIN view |->
     [run_id |-> view[i].run_id, is_baseline |-> view[i].is_baseline,
      value |-> Shown(view[i].statistics, metric),
      delta |-> IF view[i].deltas = Null THEN <<>> ELSE <<view[i].deltas[metric]>>]]

\* A row of the table finds its delta by run ID.
ComparisonRows(view, series) ==
  [i \in DOMAIN view |->
     LET entry == view[i] IN
     [run_id |-> entry.run_id, is_baseline |-> entry.is_baseline,
      ammeter |-> entry.ammeter, status |-> entry.status,
      count |-> Shown(entry.statistics, "measurements_count"),
      mean  |-> Shown(entry.statistics, "mean_current"),
      deviation  |-> Shown(entry.statistics, "standard_deviation_current"),
      delta      |-> IF entry.is_baseline THEN {}
                     ELSE UNION {ToSet(e.delta) : e \in {e \in ToSet(series) : e.run_id = entry.run_id}},
      comparable |-> entry.comparable]]

\* The chart leaves out the runs without a value; the table lists them all.
Bars(series) == Picked(series, {i \in DOMAIN series : series[i].value # NoTime})
=============================================================================
