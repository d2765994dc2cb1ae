---------------------------- MODULE ArchiveBrowser ----------------------------
(***************************************************************************)
(* The readers of one archive: the Results and the Compare page of the     *)
(* desktop window, and scripts that query AmmeterResultManager, while runs *)
(* are archived, removed and damaged behind their backs.                   *)
(*                                                                         *)
(* The pages live on the GUI thread and load synchronously, so a slot is   *)
(* one action.  They share nothing but the archive; a behaviour therefore  *)
(* follows one reader (visits) and leaves the other page out.              *)
(***************************************************************************)
EXTENDS ResultViews

CONSTANTS
  AmmeterTypes,     \* the ammeters of the first filter
  Limits,           \* values of the limit box
  InitialLimit,     \* the one it starts with
  Needles,          \* texts of the search box, "" among them
  CompareLimit,     \* how many runs the Compare page lists
  Queries,          \* what scripts ask, as raw texts
  MaxMishaps        \* bound on removed and damaged files

ASSUME BrowserAssumption ==
  /\ \A n \in Limits \cup {CompareLimit} : n \in 1 .. MAX_ARCHIVE_QUERY_LIMIT
  /\ InitialLimit \in Limits /\ "" \in Needles
  /\ MaxMishaps \in Nat

\* Every filter of a query holds what was asked for, or nothing.
ASSUME QueriesAssumption ==
  \A raw \in Queries :
    /\ DOMAIN raw = {"ammeter", "status", "from", "until", "has_statistics", "metadata", "limit"}
    /\ \A k \in DOMAIN raw \ {"metadata"} : \A x, y \in raw[k] : x = y
    /\ raw.from \cup raw.until \cup raw.limit \subseteq Int
    /\ raw.has_statistics \subseteq BOOLEAN

VARIABLES
  archive,    \* the file of every run ID
  pending,    \* run_completed is queued for the window
  mishaps,
  visits,     \* the reader: a page, or a script
  page,       \* the page on top, "start" before the initial load
  results,    \* the Results page
  compare,    \* the Compare page
  dialog,     \* the file dialog of an export
  exported,   \* every export so far wrote what was shown when it was asked for
  reply       \* what the last script query returned

vars == <<archive, pending, mishaps, visits, page, results, compare, dialog, exported, reply>>

NoFilters ==
  [ammeter |-> {}, status |-> {}, from |-> {}, until |-> {}, has_statistics |-> {},
   metadata |-> <<>>, limit |-> {InitialLimit}]

Ascending  == [column |-> "archived_at", descending |-> FALSE]
Descending == [column |-> "archived_at", descending |-> TRUE]

NoDialog == [kind |-> "none", what |-> NoRun]
NoComparison == [baseline |-> NoRun]
NoReply == [query |-> NoFilters, outcome |-> "none", ids |-> <<>>]

Init ==
  /\ archive \in [RunIds -> {"absent", "run"}]
  /\ pending = FALSE
  /\ mishaps = 0
  /\ visits \in {"results", "compare", "script"}
  /\ page = "start"
  /\ results = [filters |-> NoFilters, needle |-> "", runs |-> <<>>, table |-> <<>>,
                sort |-> Ascending, selected |-> NoRun, detail |-> NoRun, banner |-> "none"]
  /\ compare = [rows |-> <<>>, baseline |-> NoRun, checked |-> {}, metric |-> "mean_current",
                comparison |-> NoComparison, shown |-> "none", banner |-> "none"]
  /\ dialog = NoDialog
  /\ exported = TRUE
  /\ reply = NoReply

-----------------------------------------------------------------------------
(* The history table.                                                      *)

\* Rank of the ISO text of time t: a whole second has no fraction and its Z
\* sorts after the point of every other instant of that second.
TextRank(t) ==
  LET fraction == t % TicksPerSecond
  IN  (t \div TicksPerSecond) * (TicksPerSecond + 1)
      + IF fraction = 0 THEN TicksPerSecond ELSE fraction

SortKey(id, column) ==
  IF column = "archived_at" THEN TextRank(Rows[id].archived_at) ELSE Rows[id].samples[1]

Sorts == [column : {"archived_at", "samples"}, descending : BOOLEAN]

CellLess(a, b, sort) ==
  IF sort.descending THEN SortKey(b, sort.column) < SortKey(a, sort.column)
  ELSE SortKey(a, sort.column) < SortKey(b, sort.column)

\* Qt sorts stably, in either direction, by __lt__ of the cells.
SortedBy(sort) == [ids \in Seq(RunIds) |->
  LET places == DOMAIN ids
      order  == InOrder(places, {p \in places \X places :
                                   \/ CellLess(ids[p[1]], ids[p[2]], sort)
                                   \/ ~CellLess(ids[p[2]], ids[p[1]], sort) /\ p[1] < p[2]})
  IN  SubSeq([i \in places |-> ids[order[i]]], 1, Len(ids))]

Visible(r) == Picked(r.runs, {i \in DOMAIN r.runs : RowMatchesSearch(Rows[r.runs[i]], r.needle)})

\* Mutated form of Filled: only an empty table clears the detail.
FilledKeepingDetail(r) ==
  [r EXCEPT !.table = SortedBy(Descending)[SortedBy(r.sort)[Visible(r)]], !.sort = Descending,
            !.selected = NoRun, !.detail = IF Visible(r) = <<>> THEN NoRun ELSE r.detail]

\* _fill_history: the old rows take the selection and the detail with them,
\* the new ones are sorted as the header says and then newest first.
Filled(r) ==
  [r EXCEPT !.table = SortedBy(Descending)[SortedBy(r.sort)[Visible(r)]], !.sort = Descending,
            !.selected = NoRun, !.detail = NoRun]

\* refresh of the Results page.
ResultsRefreshed(r) ==
  IF Listable(archive)
  THEN Filled([r EXCEPT !.banner = "none",
                        !.runs = FindArchivedTestRuns(ResolveArchivedRunQuery(r.filters), archive)])
  ELSE Filled([r EXCEPT !.banner = "unreadable", !.runs = <<>>])

\* Mutated form of CompareRefreshed: the rebuilt list starts from its top.
CompareRefreshedFromTop(c) ==
  LET rows == IF Listable(archive)
              THEN FindArchivedTestRuns([NoFilters EXCEPT !.limit = {CompareLimit}], archive)
              ELSE <<>>
      baseline == IF rows = <<>> THEN NoRun ELSE rows[1]
  IN  [c EXCEPT !.rows = rows, !.baseline = baseline,
                !.checked = (@ \cap ToSet(rows)) \ {baseline},
                !.banner = IF Listable(archive) THEN "none" ELSE "unreadable"]

\* refresh of the Compare page: what was chosen is chosen again if it is
\* still listed, and a list without the old baseline starts from its top.
CompareRefreshed(c) ==
  LET rows == IF Listable(archive)
              THEN FindArchivedTestRuns([NoFilters EXCEPT !.limit = {CompareLimit}], archive)
              ELSE <<>>
      baseline == IF c.baseline \in ToSet(rows) THEN c.baseline
                  ELSE IF rows = <<>> THEN NoRun ELSE rows[1]
  IN  [c EXCEPT !.rows = rows, !.baseline = baseline,
                !.checked = (@ \cap ToSet(rows)) \ {baseline},
                !.banner = IF Listable(archive) THEN "none" ELSE "unreadable"]

-----------------------------------------------------------------------------
(* The user of the Results page.                                           *)

OnResults == page = "results" /\ dialog = NoDialog

UNCHANGED_BUT_RESULTS ==
  UNCHANGED <<archive, pending, mishaps, visits, page, compare, dialog, exported, reply>>

FilterChoices ==
  [ammeter |-> {{}} \cup {{Text(a)} : a \in AmmeterTypes},
   status  |-> {{}} \cup {{Text(s)} : s \in Status},
   has_statistics |-> {{}, {TRUE}, {FALSE}},
   limit   |-> {{n} : n \in Limits}]

SetFilter ==
  /\ OnResults
  /\ \E k \in DOMAIN FilterChoices : \E choice \in FilterChoices[k] :
       results' = ResultsRefreshed([results EXCEPT !.filters[k] = choice])
  /\ UNCHANGED_BUT_RESULTS

Search ==
  /\ OnResults
  /\ \E needle \in Needles : results' = Filled([results EXCEPT !.needle = needle])
  /\ UNCHANGED_BUT_RESULTS

\* A click on a header; the selected row moves with its run.
SortTable ==
  /\ OnResults
  /\ \E sort \in Sorts : results' = [results EXCEPT !.sort = sort, !.table = SortedBy(sort)[@]]
  /\ UNCHANGED_BUT_RESULTS

Select ==
  /\ OnResults
  /\ \E id \in ToSet(results.table) \cup {NoRun} :
       results' = [results EXCEPT !.selected = id, !.detail = id]
  /\ UNCHANGED_BUT_RESULTS

-----------------------------------------------------------------------------
(* The user of the Compare page.                                           *)

OnCompare == page = "compare" /\ dialog = NoDialog

UNCHANGED_BUT_COMPARE ==
  UNCHANGED <<archive, pending, mishaps, visits, page, results, dialog, exported, reply>>

\* The run that becomes the baseline is hidden from the candidates.
ChooseBaseline ==
  /\ OnCompare
  /\ \E id \in ToSet(compare.rows) :
       compare' = [compare EXCEPT !.baseline = id, !.checked = @ \ {id}]
  /\ UNCHANGED_BUT_COMPARE

ToggleCandidate ==
  /\ OnCompare
  /\ \E id \in ToSet(compare.rows) \ {compare.baseline} :
       compare' = [compare EXCEPT !.checked = IF id \in @ THEN @ \ {id} ELSE @ \cup {id}]
  /\ UNCHANGED_BUT_COMPARE

ClearCandidates ==
  /\ OnCompare
  /\ compare' = [compare EXCEPT !.checked = {}]
  /\ UNCHANGED_BUT_COMPARE

Candidates == Picked(compare.rows, {i \in DOMAIN compare.rows : compare.rows[i] \in compare.checked})

\* The archive is read anew: a run that was listed may be gone.
Compare ==
  /\ OnCompare
  /\ compare.baseline # NoRun /\ Candidates # <<>>
  /\ compare' =
       IF Comparable(compare.baseline, Candidates, archive)
       THEN [compare EXCEPT !.comparison = HistoricalComparison(compare.baseline, Candidates),
                            !.shown = compare.metric, !.banner = "none"]
       ELSE [compare EXCEPT !.comparison = NoComparison, !.shown = "none",
                            !.banner = "comparison failed"]
  /\ UNCHANGED_BUT_COMPARE

\* Mutated form of SetMetric: the new metric always waits for the next one.
SetMetricLater ==
  /\ OnCompare
  /\ \E metric \in ToSet(STATISTICS_METRICS) :
       compare' = [compare EXCEPT !.metric = metric]
  /\ UNCHANGED_BUT_COMPARE

\* Without a comparison the new metric waits for the next one.
SetMetric ==
  /\ OnCompare
  /\ \E metric \in ToSet(STATISTICS_METRICS) :
       compare' = [compare EXCEPT !.metric = metric,
                     !.shown = IF compare.comparison = NoComparison THEN @ ELSE metric]
  /\ UNCHANGED_BUT_COMPARE

-----------------------------------------------------------------------------
(* Exports.  The file dialog runs an event loop of its own: it blocks the  *)
(* user of the window, but not the signals of a run.                       *)

UNCHANGED_BY_DIALOGS == UNCHANGED <<archive, pending, mishaps, visits, page, reply>>

\* The run is looked up before the dialog, the comparison after it.
OpenDialog ==
  /\ \/ OnResults /\ results.selected # NoRun
        /\ dialog' = [kind |-> "run", what |-> results.selected]
     \/ OnCompare /\ compare.comparison # NoComparison
        /\ dialog' = [kind |-> "comparison", what |-> compare.comparison.baseline]
  /\ UNCHANGED <<results, compare, exported>>
  /\ UNCHANGED_BY_DIALOGS

CancelDialog ==
  /\ dialog # NoDialog
  /\ dialog' = NoDialog
  /\ UNCHANGED <<results, compare, exported>>
  /\ UNCHANGED_BY_DIALOGS

\* Mutated form of Written: the run is looked up after the dialog, too.
WrittenAfterwards ==
  IF dialog.kind = "run" THEN results.selected ELSE compare.comparison.baseline

Written == IF dialog.kind = "run" THEN dialog.what ELSE compare.comparison.baseline

Export ==
  /\ dialog # NoDialog
  /\ dialog' = NoDialog
  /\ exported' = (exported /\ Written = dialog.what)
  /\ UNCHANGED <<results, compare>>
  /\ UNCHANGED_BY_DIALOGS

ExportFails ==
  /\ dialog # NoDialog
  /\ dialog' = NoDialog
  /\ IF dialog.kind = "run"
       THEN results' = [results EXCEPT !.banner = "export failed"] /\ UNCHANGED compare
       ELSE compare' = [compare EXCEPT !.banner = "export failed"] /\ UNCHANGED results
  /\ UNCHANGED exported
  /\ UNCHANGED_BY_DIALOGS

-----------------------------------------------------------------------------
(* The window.                                                             *)

RefreshBoth ==
  /\ results' = IF visits = "results" THEN ResultsRefreshed(results) ELSE results
  /\ compare' = IF visits = "compare" THEN CompareRefreshed(compare) ELSE compare

InitialLoad ==
  /\ page = "start" /\ visits # "script"
  /\ page' = "run"
  /\ RefreshBoth
  /\ UNCHANGED <<archive, pending, mishaps, visits, dialog, exported, reply>>

\* Going to a page, also to the one on top (F5), reloads it.
Navigate ==
  /\ page # "start" /\ dialog = NoDialog
  /\ page' \in {"run", visits}
  /\ results' = IF page' = "results" THEN ResultsRefreshed(results) ELSE results
  /\ compare' = IF page' = "compare" THEN CompareRefreshed(compare) ELSE compare
  /\ UNCHANGED <<archive, pending, mishaps, visits, dialog, exported, reply>>

RunCompleted ==
  /\ pending /\ page # "start"
  /\ pending' = FALSE
  /\ RefreshBoth
  /\ UNCHANGED <<archive, mishaps, visits, page, dialog, exported, reply>>

-----------------------------------------------------------------------------
(* Scripts and the archive itself.                                         *)

Reply(raw, outcome, ids) == [query |-> raw, outcome |-> outcome, ids |-> ids]

Answer(raw) ==
  IF ~Resolves(raw) THEN Reply(raw, "refused", <<>>)
  ELSE IF ~Listable(archive) THEN Reply(raw, "failed", <<>>)
  ELSE Reply(raw, "found", FindArchivedTestRuns(ResolveArchivedRunQuery(raw), archive))

Ask ==
  /\ visits = "script"
  /\ \E raw \in Queries : reply' = Answer(raw)
  /\ UNCHANGED <<archive, pending, mishaps, visits, page, results, compare, dialog, exported>>

UNCHANGED_BY_FILES == UNCHANGED <<visits, page, results, compare, dialog, exported, reply>>

\* A run is archived, by this window or by another program.
Publish ==
  /\ \E id \in RunIds :
       archive[id] = "absent" /\ archive' = [archive EXCEPT ![id] = "run"]
  /\ pending' \in {pending, TRUE}
  /\ UNCHANGED mishaps
  /\ UNCHANGED_BY_FILES

\* Somebody removes or damages a file.
LoseFile ==
  /\ mishaps < MaxMishaps
  /\ mishaps' = mishaps + 1
  /\ \E id \in RunIds, state \in {"absent", "damaged"} :
       archive[id] \notin {"absent", state} /\ archive' = [archive EXCEPT ![id] = state]
  /\ UNCHANGED pending
  /\ UNCHANGED_BY_FILES

Next ==
  \/ SetFilter \/ Search \/ SortTable \/ Select
  \/ ChooseBaseline \/ ToggleCandidate \/ ClearCandidates \/ Compare \/ SetMetric
  \/ OpenDialog \/ CancelDialog \/ Export \/ ExportFails
  \/ InitialLoad \/ Navigate \/ RunCompleted
  \/ Ask \/ Publish \/ LoseFile

Spec == Init /\ [][Next]_vars

-----------------------------------------------------------------------------
\* A run of the archive passes every filter of a query.
Fits(raw, id) ==
  LET run == Runs[id]
      ok  == {i \in DOMAIN run.result.samples : run.result.samples[i].result.current # NoTime}
  IN  /\ archive[id] = "run"
      /\ \A t \in raw.ammeter : t.value = run.result.ammeter
      /\ \A t \in raw.status : t.value = run.result.status
      /\ \A from \in raw.from : from <= run.archived_at
      /\ \A until \in raw.until : ~(until <= run.archived_at)
      /\ \A has \in raw.has_statistics : has <=> ok # {}
      /\ \A k \in DOMAIN raw.metadata :
           <<k, raw.metadata[k]>> \in {<<j, run.metadata[j]>> : j \in DOMAIN run.metadata}

Newer(a, b) == \/ Runs[a].archived_at > Runs[b].archived_at
               \/ Runs[a].archived_at = Runs[b].archived_at /\ a < b

AnswersExactly(raw, ids) ==
  /\ \A i, j \in DOMAIN ids : i < j => Newer(ids[i], ids[j])
  /\ \A i \in DOMAIN ids : Fits(raw, ids[i])
  /\ \A n \in raw.limit : Len(ids) <= n
  /\ \A id \in {k \in RunIds : Fits(raw, k)} \ ToSet(ids) :
       /\ raw.limit = {Len(ids)}
       /\ \A i \in DOMAIN ids : Newer(ids[i], id)

(* A query returns exactly what it asks for: the runs of the archive that  *)
(* pass every filter, each once, newest first with equal times by ID, and  *)
(* where the limit cuts it cuts the oldest of them.  The history of the    *)
(* Results page is such an answer to its filters.                          *)
AnswersAreExact ==
  [][/\ reply' # reply /\ reply'.outcome = "found" =>
          AnswersExactly(reply'.query, reply'.ids)
     /\ results'.runs # results.runs \/ results'.filters # results.filters =>
          \/ results'.banner = "unreadable" /\ results'.runs = <<>>
          \/ AnswersExactly(results'.filters, results'.runs)]_vars

(* The detail pane shows the selected run and nothing else: no refresh, no *)
(* search and no new row order leaves the detail of a run that is not the  *)
(* selected one, what is selected is a run of the table, and an export     *)
(* wrote what was shown when it was asked for, whatever was refreshed      *)
(* while the file dialog was open.                                         *)
DetailIsSelection ==
  /\ exported
  /\ results.detail = results.selected
  /\ results.selected # NoRun => results.selected \in ToSet(results.table)
  /\ ToSet(results.table) \subseteq ToSet(results.runs)

(* The parts of the detail, made from different fields of the document by  *)
(* different code, tell the same story: as many readings are drawn as were *)
(* analyzed, all of them between the drawn minimum and maximum and around  *)
(* the mean of the history row, every other slot is drawn as a failure and *)
(* has its errors listed, and the CSV has a line for each.                 *)
DetailAgrees ==
  results.detail # NoRun =>
    LET d == Details[results.detail]
        row == Rows[results.detail]
        readings == d.plot.readings
        lines == d.plot.lines
    IN  /\ Len(readings) = d.cards.samples[1]
        /\ Len(readings) + Len(d.plot.failures) = d.statistics.recorded
        /\ Len(d.plot.failures) = d.statistics.excluded
        /\ d.statistics.excluded = d.statistics.failed + d.statistics.missed
        /\ Len(SamplesCsv(d.json.analysis)) = row.samples[2]
        /\ {lines[k] : k \in DOMAIN lines \cap {"mean_current"}} = {row.mean} \ {NoTime}
        /\ \A i \in DOMAIN d.plot.failures :
             d.plot.failures[i] \in (d.plot.span[1] .. d.plot.span[2]) \X {row.mean, 0}
        /\ \A i \in DOMAIN readings :
             readings[i][2] \in lines.minimum_current .. lines.maximum_current
        /\ \A i \in DOMAIN d.samples :
             d.samples[i].status # "SUCCESS" <=>
               \E code \in ErrorCode : <<d.samples[i].index, code>> \in d.errors
        /\ row.status = "SUCCESS" <=> d.errors = {} /\ Len(readings) = d.statistics.planned

Value(id, metric) == IF StatisticsOf[id] = Null THEN {} ELSE {StatisticsOf[id][metric]}

RowTells(table, i, baseline, metric) ==
  LET row == table[i]
      old == Rows[row.run_id]
  IN  /\ row.is_baseline <=> i = 1
      /\ row.delta = IF i = 1 THEN {}
                     ELSE {v - w : v \in Value(row.run_id, metric), w \in Value(baseline, metric)}
      /\ [k \in {"ammeter", "status", "mean", "deviation"} |-> row[k]] =
         [k \in {"ammeter", "status", "mean", "deviation"} |-> old[k]]
      /\ row.mean # NoTime => row.count = old.samples[1]
      /\ i > 1 => row.comparable[1] = (row.ammeter = table[1].ammeter)

ComparisonTells(c, series, table, metric) ==
  /\ [i \in DOMAIN table |-> table[i].run_id] = <<c.baseline>> \o c.candidates
  /\ {<<bar.run_id, bar.value>> : bar \in ToSet(Bars(series))} =
       UNION {{row.run_id} \X Value(row.run_id, metric) : row \in ToSet(table)}
  /\ \A i \in DOMAIN table : RowTells(table, i, c.baseline, metric)

(* The chart and the table show the comparison that was loaded, in the     *)
(* metric the box says: baseline first, then the candidates in list order, *)
(* a bar for every run with statistics; every delta is the candidate's     *)
(* value minus the baseline's, where both have one, and the rest of a row  *)
(* is what the history says of that run.                                   *)
ComparisonAgrees ==
  compare.comparison # NoComparison =>
    LET view   == ComparisonView(ComparisonDocument(compare.comparison))
        series == MetricSeries(view, compare.shown)
    IN  ComparisonTells(compare.comparison, series, ComparisonRows(view, series), compare.metric)

(* What the pages make of the documents agrees with itself and with the    *)
(* history: the detail of the selected run, and the comparison on screen.  *)
ViewsAgree == DetailAgrees /\ ComparisonAgrees

(* Reloading the Compare page changes no choice of the user that the       *)
(* archive still allows: a listed baseline stays, every listed candidate   *)
(* stays checked, and the baseline is never one of its own candidates.     *)
ChoicesSurviveRefresh ==
  [][/\ RunCompleted \/ Navigate =>
          LET listed == ToSet(compare'.rows) IN
          /\ compare.baseline \in listed => compare'.baseline = compare.baseline
          /\ compare'.checked = (compare.checked \cap listed) \ {compare'.baseline}
     /\ compare'.baseline \notin compare'.checked]_vars
=============================================================================
