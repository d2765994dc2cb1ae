----------------------------- MODULE ArchiveQuery -----------------------------
(***************************************************************************)
(* What the readers of the archive ask of AmmeterResultManager: find the   *)
(* runs that match a query, and compare some runs with a baseline.         *)
(*                                                                         *)
(* An archive maps every run ID to the state of its file.  The runs        *)
(* themselves never change, so Runs says what the file of an ID holds once *)
(* it is there.  An ID is a number: the rank of its UUID.                  *)
(***************************************************************************)
EXTENDS ArchiveDocuments

CONSTANT Runs

MAX_METADATA_ENTRIES == 50

\* Metadata maps trimmed keys to JSON scalars.
RunMetadataEntryAccepts(key, value) ==
  key # "" /\ value.type \in {"str", "bool", "int", "float", "null"}

MetadataResolves(metadata) ==
  /\ Cardinality(DOMAIN metadata) <= MAX_METADATA_ENTRIES
  /\ \A k \in DOMAIN metadata : RunMetadataEntryAccepts(k, metadata[k])

ASSUME RunsAssumption ==
  /\ DOMAIN Runs \subseteq Nat \ {0} /\ IsFiniteSet(DOMAIN Runs)
  /\ \A id \in DOMAIN Runs :
       /\ Runs[id].run_id = id
       /\ RunAccepts(Runs[id])
       /\ MetadataResolves(Runs[id].metadata)

RunIds == DOMAIN Runs

NoRun == 0      \* no ID: a combo box without entries, a table without selection

FileState == {"absent", "run", "damaged"}

\* What calculate_current_statistics made of each run.
StatisticsOf == [id \in RunIds |-> Statistics(Runs[id].result)]

-----------------------------------------------------------------------------
(* Queries.  A filter is a set that holds the one value asked for, or      *)
(* nothing when the filter is not given.  A raw text is a record: padded   *)
(* texts (blanks around, capitals) are stripped and lowered, and a blank   *)
(* one has no value.                                                       *)

Text(v) == [value |-> v, padded |-> FALSE]
PaddedText(v) == [value |-> v, padded |-> TRUE]
BlankText == [value |-> "", padded |-> TRUE]

MAX_ARCHIVE_QUERY_LIMIT == 10000

QueryAccepts(q) ==
  /\ \A a \in q.from, b \in q.until : a <= b
  /\ \A n \in q.limit : n \in 1 .. MAX_ARCHIVE_QUERY_LIMIT

\* resolve_archived_run_query refuses a blank ammeter and an unknown status.
Resolves(raw) ==
  /\ BlankText \notin raw.ammeter
  /\ \A t \in raw.status : t.value \in Status
  /\ MetadataResolves(raw.metadata)
  /\ QueryAccepts(raw)

ResolveArchivedRunQuery(raw) ==
  [raw EXCEPT !.ammeter = {t.value : t \in raw.ammeter},
              !.status  = {t.value : t \in raw.status}]

Matches(q, run) ==
  /\ q.ammeter \subseteq {run.result.ammeter}
  /\ q.status \subseteq {run.result.status}
  /\ \A t \in q.from : run.archived_at >= t
  /\ \A t \in q.until : run.archived_at < t
  /\ q.has_statistics \subseteq {StatisticsOf[run.run_id] # Null}
  /\ \A k \in DOMAIN q.metadata :
       k \in DOMAIN run.metadata /\ run.metadata[k] = q.metadata[k]

\* Newest first, and by ID where the times are equal.
Before(a, b) ==
  \/ Runs[a].archived_at > Runs[b].archived_at
  \/ Runs[a].archived_at = Runs[b].archived_at /\ a < b

Newest == [ids \in SUBSET RunIds |-> InOrder(ids, {p \in ids \X ids : Before(p[1], p[2])})]

Cut(ids, limit) ==
  IF \E n \in limit : n < Len(ids) THEN SubSeq(ids, 1, CHOOSE n \in limit : TRUE) ELSE ids

\* Mutated form of FindArchivedTestRuns: the limit cuts before the filters.
FindArchivedTestRunsCutFirst(q, archive) ==
  LET latest == Cut(Newest[{id \in RunIds : archive[id] = "run"}], q.limit)
  IN  Newest[{id \in ToSet(latest) : Matches(q, Runs[id])}]

FindArchivedTestRuns(q, archive) ==
  Cut(Newest[{id \in RunIds : archive[id] = "run" /\ Matches(q, Runs[id])}], q.limit)

\* One damaged file makes the listing raise, whatever was asked.
Listable(archive) == \A id \in RunIds : archive[id] # "damaged"

-----------------------------------------------------------------------------
(* Comparisons.                                                            *)

Deltas(baseline, candidate) ==
  IF Null \in {baseline, candidate} THEN Null
  ELSE [k \in DOMAIN baseline |-> candidate[k] - baseline[k]]

Settings(r) == [count |-> r.count, duration |-> r.duration, period |-> r.period]

HistoricalComparisonAccepts(baseline, candidates) ==
  /\ candidates # <<>>
  /\ IsInjective(<<baseline>> \o candidates)

HistoricalComparison(baseline, candidates) ==
  LET base == Runs[baseline].result
      each == [i \in DOMAIN candidates |-> Runs[candidates[i]].result]
  IN  [baseline   |-> baseline,
       candidates |-> candidates,
       deltas |-> [i \in DOMAIN candidates |->
                     Deltas(StatisticsOf[baseline], StatisticsOf[candidates[i]])],
       same_ammeter_types |->
         [i \in DOMAIN candidates |-> each[i].ammeter = base.ammeter],
       same_sampling_settings |->
         [i \in DOMAIN candidates |-> Settings(each[i]) = Settings(base)]]

RetrieveArchivedTestRun(id, archive) == IF archive[id] = "run" THEN {Runs[id]} ELSE {}

\* compare gets every run before it builds the comparison; any may be gone.
Comparable(baseline, candidates, archive) ==
  /\ \A id \in {baseline} \cup ToSet(candidates) : RetrieveArchivedTestRun(id, archive) # {}
  /\ HistoricalComparisonAccepts(baseline, candidates)
=============================================================================
