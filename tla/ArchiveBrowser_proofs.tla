------------------------ MODULE ArchiveBrowser_proofs ------------------------
(***************************************************************************)
(* Proofs about ArchiveBrowser, for any archive of valid runs, any queries *)
(* and any limits: a query is answered exactly (AnswersAreExact), the      *)
(* detail is that of the selected run (DetailIsSelection), a reload keeps  *)
(* the choices on the Compare page (ChoicesSurviveRefresh) and the views   *)
(* agree with each other (ViewsAgree).                                     *)
(*                                                                         *)
(* The invariant of the pages is BInv, and ComparisonInv says of the       *)
(* comparison on screen where it came from.  What the pages show is made   *)
(* by picking, sorting and computing statistics, about which there are     *)
(* lemmas in ArchiveDocuments_proofs.                                      *)
(***************************************************************************)
EXTENDS ArchiveBrowser, ArchiveDocuments_proofs

-----------------------------------------------------------------------------
(* The runs and their samples.                                             *)

(* The runs are valid, and there are finitely many of them. *)
LEMMA RunFacts ==
  /\ RunIds \subseteq Nat \ {0} /\ IsFiniteSet(RunIds)
  /\ \A id \in RunIds : /\ Runs[id].run_id = id /\ Runs[id].archived_at \in Nat
                       /\ RunAccepts(Runs[id]) /\ Runs[id].result \in ArchivedSampling
BY RunsAssumption DEF RunIds, RunAccepts, WindowAccepts

(* What the constructors have checked of the samples of an archived run. *)
LEMMA SampleFacts ==
  ASSUME NEW id \in RunIds
  PROVE  LET samples == Runs[id].result.samples IN
         /\ samples \in Seq(ArchivedSample)
         /\ \A i \in DOMAIN samples :
              /\ samples[i] \in ArchivedSample /\ samples[i].result \in ArchivedMeasurement
              /\ samples[i].index = i - 1
              /\ samples[i].result.status = "SUCCESS" <=> samples[i].result.current # NoTime
              /\ samples[i].result.status = "SUCCESS" <=> samples[i].result.errors = {}
<1> DEFINE samples == Runs[id].result.samples
<1>1. /\ samples \in Seq(ArchivedSample)
      /\ \A i \in DOMAIN samples :
           /\ SampleResultAccepts(samples[i])
           /\ samples[i].result.measured <=> samples[i].result.current # NoTime
      /\ SamplingResultAccepts(Runs[id].result)
  BY RunFacts DEF RunAccepts, WindowAccepts, ArchivedSampling
<1>2. \A i \in DOMAIN samples : samples[i].index = i - 1
  BY <1>1 DEF SamplingResultAccepts
<1> HIDE DEF samples
<1>3. \A i \in DOMAIN samples : samples[i] \in ArchivedSample
  BY <1>1
<1>4. \A i \in DOMAIN samples : samples[i].result \in ArchivedMeasurement
  BY <1>3 DEF ArchivedSample
<1>5. \A i \in DOMAIN samples :
        /\ samples[i].result.status = "SUCCESS" <=> samples[i].result.measured
        /\ samples[i].result.status = "SUCCESS" <=> samples[i].result.errors = {}
  BY <1>1 DEF SampleResultAccepts, MeasurementResultAccepts
<1> QED
  BY <1>1, <1>2, <1>3, <1>4, <1>5 DEF samples

(* The slots of a window, and the successful ones among them. *)
LEMMA SlotFacts ==
  ASSUME NEW id \in RunIds
  PROVE  LET samples == Runs[id].result.samples
             ok == SuccessfulSlots(samples)
         IN  /\ Len(samples) \in Nat /\ DOMAIN samples = 1 .. Len(samples)
             /\ IsFiniteSet(DOMAIN samples) /\ Cardinality(DOMAIN samples) = Len(samples)
             /\ ok \in SUBSET (DOMAIN samples) /\ IsFiniteSet(ok) /\ Cardinality(ok) \in Nat
             /\ Cardinality(ok) = 0 <=> ok = {}
             /\ ok = {i \in DOMAIN samples : samples[i].result.current # NoTime}
<1> PICK samples : samples = Runs[id].result.samples
  OBVIOUS
<1>1. /\ samples \in Seq(ArchivedSample)
      /\ \A i \in DOMAIN samples :
            samples[i].result.status = "SUCCESS" <=> samples[i].result.current # NoTime
  BY SampleFacts
<1> DEFINE ok == SuccessfulSlots(samples)
<1>2. /\ Len(samples) \in Nat /\ DOMAIN samples = 1 .. Len(samples)
      /\ IsFiniteSet(DOMAIN samples) /\ Cardinality(DOMAIN samples) = Len(samples)
      /\ ok \in SUBSET (DOMAIN samples) /\ IsFiniteSet(ok) /\ Cardinality(ok) \in Nat
      /\ Cardinality(ok) = 0 <=> ok = {}
  BY <1>1, SlotCounts
<1>3. ok = {i \in DOMAIN samples : samples[i].result.current # NoTime}
  BY <1>1 DEF SuccessfulSlots
<1> HIDE DEF ok
<1> QED
  BY <1>2, <1>3 DEF ok

(* Newest first, by ID where the times are equal, orders the runs. *)
LEMMA BeforeOrders ==
  ASSUME NEW ids \in SUBSET RunIds
  PROVE  Orders({p \in ids \X ids : Before(p[1], p[2])}, ids)
<1>1. \A a \in ids : a \in Nat /\ Runs[a].archived_at \in Nat
  BY RunFacts
<1>2. \A a, b \in ids : <<a, b>> \in {p \in ids \X ids : Before(p[1], p[2])} <=> Before(a, b)
  OBVIOUS
<1>3. \A a \in ids : ~Before(a, a)
  BY <1>1 DEF Before
<1>4. \A a, b, c \in ids : Before(a, b) /\ Before(b, c) => Before(a, c)
  BY <1>1 DEF Before
<1>5. \A a, b \in ids : a = b \/ Before(a, b) \/ Before(b, a)
  BY <1>1 DEF Before
<1> QED
  BY <1>2, <1>3, <1>4, <1>5 DEF Orders

(* A listing holds the runs it is made of, newest first. *)
LEMMA NewestArranges ==
  ASSUME NEW ids \in SUBSET RunIds
  PROVE  /\ Newest[ids] \in Seq(ids)
         /\ \A id \in ids : \E i \in 1 .. Len(Newest[ids]) : Newest[ids][i] = id
         /\ \A i, j \in 1 .. Len(Newest[ids]) : i < j => Before(Newest[ids][i], Newest[ids][j])
<1> DEFINE R == {p \in ids \X ids : Before(p[1], p[2])}
           s == Newest[ids]
<1>1. s = InOrder(ids, R)
  BY DEF Newest
<1>2. IsFiniteSet(ids)
  BY RunFacts, FS_Subset
<1>3. Orders(R, ids)
  BY BeforeOrders
<1>4. \A x, y : <<x, y>> \in R => Before(x, y)
  OBVIOUS
<1> HIDE DEF R, s
<1>5. Arranges(s, ids, R)
  BY <1>1, <1>2, <1>3, InOrderArranges
<1>6. /\ s \in Seq(ids)
      /\ \A id \in ids : \E i \in 1 .. Len(s) : s[i] = id
      /\ \A i, j \in 1 .. Len(s) : i < j => Before(s[i], s[j])
  BY <1>4, <1>5 DEF Arranges
<1> QED
  BY <1>6 DEF s

-----------------------------------------------------------------------------
(* The history table is sorted by integers.                                *)

(* Both columns that can be sorted hold integers. *)
LEMMA SortKeyType ==
  ASSUME NEW id \in RunIds, NEW column \in {"archived_at", "samples"}
  PROVE  SortKey(id, column) \in Int
<1> DEFINE ok == SuccessfulSlots(Runs[id].result.samples)
<1>1. Rows[id].archived_at = Runs[id].archived_at
  BY DEF Rows, HistoryRow, DocumentOf, RunDocument, Stamp
<1>2. Rows[id].samples[1] = Cardinality(ok)
  BY DEF Rows, HistoryRow, DocumentOf, RunDocument, AnalysisDocument
<1>3. Cardinality(ok) \in Nat
  BY SlotFacts
<1>4. Cardinality(ok) \in Int
  BY <1>3
<1>5. TextRank(Rows[id].archived_at) \in Int
  <2>1. PICK t \in Nat : t = Rows[id].archived_at
    BY <1>1, RunFacts
  <2>2. PICK k \in Nat : k = TicksPerSecond /\ k # 0
    <3>1. TicksPerSecond \in Nat \ {0}
      BY TickAssumption
    <3> QED
      BY <3>1
  <2>3. t \div k \in Int /\ t % k \in Int
    BY <2>2
  <2>4. PICK q \in Int : q = t \div k
    BY <2>3
  <2>5. q * (k + 1) \in Int
    OBVIOUS
  <2>6. TextRank(t) \in Int
    BY <2>2, <2>3, <2>4, <2>5 DEF TextRank
  <2> QED
    BY <2>1, <2>6
<1> QED
  BY <1>2, <1>4, <1>5 DEF SortKey

CellOrder(ids, sort) ==
  {p \in (DOMAIN ids) \X (DOMAIN ids) :
     \/ CellLess(ids[p[1]], ids[p[2]], sort)
     \/ ~CellLess(ids[p[2]], ids[p[1]], sort) /\ p[1] < p[2]}

(* The order of the rows is total: equal cells keep their places. *)
LEMMA CellOrderOrders ==
  ASSUME NEW ids \in Seq(RunIds), NEW sort \in Sorts
  PROVE  Orders(CellOrder(ids, sort), DOMAIN ids)
<1> DEFINE key(i) == SortKey(ids[i], sort.column)
           less(i, j) == CellLess(ids[i], ids[j], sort)
<1>1. \A i \in DOMAIN ids : i \in Nat /\ ids[i] \in RunIds
  OBVIOUS
<1>2. sort.column \in {"archived_at", "samples"} /\ sort.descending \in BOOLEAN
  BY DEF Sorts
<1>3. \A i \in DOMAIN ids : key(i) \in Int
  BY <1>1, <1>2, SortKeyType
<1>4. \/ \A i, j \in DOMAIN ids : less(i, j) <=> key(j) < key(i)
      \/ \A i, j \in DOMAIN ids : less(i, j) <=> key(i) < key(j)
  BY <1>2 DEF CellLess
<1>5. \A i, j \in DOMAIN ids :
        <<i, j>> \in CellOrder(ids, sort) <=> less(i, j) \/ (~less(j, i) /\ i < j)
  BY DEF CellOrder
<1> HIDE DEF key, less
<1>6. \A i \in DOMAIN ids : ~less(i, i)
  BY <1>3, <1>4
<1>7. \A i, j, k \in DOMAIN ids :
        (less(i, j) \/ (~less(j, i) /\ i < j)) /\ (less(j, k) \/ (~less(k, j) /\ j < k))
          => less(i, k) \/ (~less(k, i) /\ i < k)
  BY <1>1, <1>3, <1>4
<1>8. \A i, j \in DOMAIN ids :
        i = j \/ less(i, j) \/ (~less(j, i) /\ i < j) \/ less(j, i) \/ (~less(i, j) /\ j < i)
  BY <1>1
<1>9. \A x \in DOMAIN ids : <<x, x>> \notin CellOrder(ids, sort)
  BY <1>1, <1>5, <1>6
<1>10. \A x, y, z \in DOMAIN ids :
         <<x, y>> \in CellOrder(ids, sort) /\ <<y, z>> \in CellOrder(ids, sort)
           => <<x, z>> \in CellOrder(ids, sort)
  BY <1>5, <1>7
<1>11. \A x, y \in DOMAIN ids :
         x = y \/ <<x, y>> \in CellOrder(ids, sort) \/ <<y, x>> \in CellOrder(ids, sort)
  BY <1>5, <1>8
<1> QED
  BY <1>9, <1>10, <1>11 DEF Orders

(* Sorting a table keeps its rows. *)
LEMMA SortedByKeeps ==
  ASSUME NEW ids \in Seq(RunIds), NEW sort \in Sorts
  PROVE  SortedBy(sort)[ids] \in Seq(RunIds) /\ ToSet(SortedBy(sort)[ids]) = ToSet(ids)
<1> DEFINE places == DOMAIN ids
           order == InOrder(places, CellOrder(ids, sort))
           g == [i \in places |-> ids[order[i]]]
           n == Len(ids)
<1>1. SortedBy(sort)[ids] = SubSeq(g, 1, n)
  BY DEF SortedBy, CellOrder
<1>2. n \in Nat /\ places = 1 .. n
  OBVIOUS
<1>3. IsFiniteSet(places) /\ Cardinality(places) = n
  <2>1. PICK m \in Nat : m = n
    BY <1>2
  <2>2. IsFiniteSet(1 .. m) /\ Cardinality(1 .. m) = IF 1 > m THEN 0 ELSE m - 1 + 1
    BY FS_Interval
  <2> QED
    BY <1>2, <2>1, <2>2
<1>4. Arranges(order, places, CellOrder(ids, sort))
  BY <1>3, CellOrderOrders, InOrderArranges
<1> HIDE DEF order
<1>5. /\ order \in Seq(places) /\ Len(order) = n
      /\ \A x \in places : \E i \in 1 .. n : order[i] = x
  BY <1>3, <1>4 DEF Arranges
<1>6. \A i \in 1 .. n : order[i] \in 1 .. n
  BY <1>2, <1>5, SMTT(60)
<1>7. \A i \in 1 .. n : ids[i] \in RunIds
  BY <1>2
<1>8. /\ g = [i \in 1 .. n |-> ids[order[i]]]
      /\ \A x \in 1 .. n : \E i \in 1 .. n : order[i] = x
      /\ ids \in Seq(RunIds)
  BY <1>2, <1>5
<1> HIDE DEF n, places, g
<1>9. g \in Seq(RunIds) /\ Len(g) = n /\ \A i \in 1 .. n : g[i] = ids[order[i]]
  BY <1>2, <1>6, <1>7, <1>8
<1>10. /\ SubSeq(g, 1, n) \in Seq(RunIds) /\ Len(SubSeq(g, 1, n)) = n
       /\ \A i \in 1 .. n : SubSeq(g, 1, n)[i] = g[i]
  BY <1>2, <1>9
<1>11. PICK t \in Seq(RunIds) : t = SortedBy(sort)[ids] /\ Len(t) = n /\ \A i \in 1 .. n : t[i] = ids[order[i]]
  BY <1>1, <1>9, <1>10
<1>12. DOMAIN t = 1 .. n
  BY <1>2, <1>11
<1>13. \A x : x \in ToSet(t) => x \in ToSet(ids)
  BY <1>2, <1>6, <1>11, <1>12 DEF ToSet, places
<1>14. \A x : x \in ToSet(ids) => x \in ToSet(t)
  <2> SUFFICES ASSUME NEW x, x \in ToSet(ids)
               PROVE  x \in ToSet(t)
    OBVIOUS
  <2>1. PICK k \in 1 .. n : x = ids[k]
    BY <1>2 DEF ToSet, places
  <2>2. PICK i \in 1 .. n : order[i] = k
    BY <1>8
  <2>3. i \in DOMAIN t /\ t[i] = x
    BY <1>11, <1>12, <2>1, <2>2
  <2> QED
    BY <2>3 DEF ToSet
<1> QED
  BY <1>11, <1>13, <1>14

-----------------------------------------------------------------------------
(* Statistics are missing exactly where there is no reading.               *)

(* Every slot holds a reading or nothing, and a successful one a reading. *)
LEMMA ReadingFacts ==
  ASSUME NEW id \in RunIds
  PROVE  LET samples == Runs[id].result.samples
         IN  /\ samples \in Seq(ArchivedSample)
             /\ \A i \in DOMAIN samples : samples[i].result.current \in Int
             /\ \A i \in SuccessfulSlots(samples) : samples[i].result.current \in Nat
<1> PICK samples : samples = Runs[id].result.samples
  OBVIOUS
<1>1. /\ samples \in Seq(ArchivedSample)
      /\ \A i \in DOMAIN samples : samples[i].result \in ArchivedMeasurement
  BY SampleFacts
<1>2. \A i \in DOMAIN samples : samples[i].result.current \in Nat \cup {NoTime}
  BY <1>1 DEF ArchivedMeasurement
<1>3. \A i \in DOMAIN samples : samples[i].result.current \in Int
  BY <1>2 DEF NoTime
<1>4. SuccessfulSlots(samples) = {i \in DOMAIN samples : samples[i].result.current # NoTime}
  BY SlotFacts
<1> QED
  BY <1>1, <1>2, <1>3, <1>4

(* A run has no statistics exactly if no slot of it succeeded. *)
LEMMA StatisticsMissing ==
  ASSUME NEW id \in RunIds
  PROVE  StatisticsOf[id] # Null <=>
           {i \in DOMAIN Runs[id].result.samples :
              Runs[id].result.samples[i].result.current # NoTime} # {}
<1> PICK samples, s : samples = Runs[id].result.samples /\ s = StatisticsOf[id]
  OBVIOUS
<1>1. s = CalculateCurrentStatistics[Currents(samples)]
  BY DEF StatisticsOf, Statistics
<1>2. SuccessfulSlots(samples) = {i \in DOMAIN samples : samples[i].result.current # NoTime}
  BY SlotFacts
<1>3. /\ samples \in Seq(ArchivedSample)
      /\ \A i \in DOMAIN samples : samples[i].result.current \in Int
  BY ReadingFacts
<1>4. s = Null <=> SuccessfulSlots(samples) = {}
  BY <1>1, <1>3, StatisticsOfSlots
<1> QED
  BY <1>2, <1>4

-----------------------------------------------------------------------------
(* Answers to queries.                                                     *)

(* What the use cases and the widgets make of a filter. *)
RawQuery(raw) ==
  /\ {"ammeter", "status", "from", "until", "has_statistics", "metadata", "limit"} = DOMAIN raw
  /\ raw.from \in SUBSET Int /\ raw.until \in SUBSET Int /\ raw.limit \in SUBSET Nat
  /\ raw.has_statistics \in SUBSET BOOLEAN
  /\ \A m, n \in raw.limit : m = n

(* The resolved query lets through what fits the raw one. *)
LEMMA ResolvedMatches ==
  ASSUME NEW raw, RawQuery(raw), NEW id \in RunIds
  PROVE  archive[id] = "run" /\ Matches(ResolveArchivedRunQuery(raw), Runs[id]) <=> Fits(raw, id)
<1> DEFINE q == ResolveArchivedRunQuery(raw)
           run == Runs[id]
           has == StatisticsOf[id] # Null
<1>1. /\ q.ammeter = {t.value : t \in raw.ammeter} /\ q.status = {t.value : t \in raw.status}
      /\ q.from = raw.from /\ q.until = raw.until /\ q.has_statistics = raw.has_statistics
      /\ q.metadata = raw.metadata
  BY DEF RawQuery, ResolveArchivedRunQuery
<1>2. run.run_id = id /\ run.archived_at \in Nat
  BY RunFacts
<1>3. raw.from \in SUBSET Int /\ raw.until \in SUBSET Int /\ raw.has_statistics \in SUBSET BOOLEAN
  BY DEF RawQuery
<1>4. has <=> {i \in DOMAIN run.result.samples : run.result.samples[i].result.current # NoTime} # {}
  BY StatisticsMissing
<1> HIDE DEF q, has
<1>5. q.ammeter \subseteq {run.result.ammeter} <=> \A t \in raw.ammeter : t.value = run.result.ammeter
  BY <1>1
<1>6. q.status \subseteq {run.result.status} <=> \A t \in raw.status : t.value = run.result.status
  BY <1>1
<1>7. (\A t \in q.from : run.archived_at >= t) <=> \A from \in raw.from : from <= run.archived_at
  BY <1>1, <1>2, <1>3
<1>8. (\A t \in q.until : run.archived_at < t) <=> \A until \in raw.until : ~(until <= run.archived_at)
  BY <1>1, <1>2, <1>3
<1>9. q.has_statistics \subseteq {has} <=> \A h \in raw.has_statistics : h <=> has
  BY <1>1, <1>3 DEF has
<1>10. (\A k \in DOMAIN q.metadata : k \in DOMAIN run.metadata /\ run.metadata[k] = q.metadata[k])
         <=> \A k \in DOMAIN raw.metadata :
               <<k, raw.metadata[k]>> \in {<<j, run.metadata[j]>> : j \in DOMAIN run.metadata}
  BY <1>1
<1>11. Matches(q, run) <=>
         /\ q.ammeter \subseteq {run.result.ammeter} /\ q.status \subseteq {run.result.status}
         /\ \A t \in q.from : run.archived_at >= t
         /\ \A t \in q.until : run.archived_at < t
         /\ q.has_statistics \subseteq {has}
         /\ \A k \in DOMAIN q.metadata : k \in DOMAIN run.metadata /\ run.metadata[k] = q.metadata[k]
  BY <1>2 DEF Matches, has
<1>12. Fits(raw, id) <=>
         /\ archive[id] = "run"
         /\ \A t \in raw.ammeter : t.value = run.result.ammeter
         /\ \A t \in raw.status : t.value = run.result.status
         /\ \A from \in raw.from : from <= run.archived_at
         /\ \A until \in raw.until : ~(until <= run.archived_at)
         /\ \A h \in raw.has_statistics : h <=> has
         /\ \A k \in DOMAIN raw.metadata :
              <<k, raw.metadata[k]>> \in {<<j, run.metadata[j]>> : j \in DOMAIN run.metadata}
  BY <1>4 DEF Fits
<1>13. Matches(q, run) /\ archive[id] = "run" <=> Fits(raw, id)
  BY <1>5, <1>6, <1>7, <1>8, <1>9, <1>10, <1>11, <1>12
<1> QED
  BY <1>13 DEF q

(* A limit cuts the end off. *)
LEMMA CutKeepsTheFront ==
  ASSUME NEW s \in Seq(RunIds), NEW limit \in SUBSET Nat, \A m, n \in limit : m = n
  PROVE  /\ Cut(s, limit) \in Seq(RunIds) /\ Len(Cut(s, limit)) <= Len(s)
         /\ \A i \in 1 .. Len(Cut(s, limit)) : Cut(s, limit)[i] = s[i]
         /\ \A n \in limit : Len(Cut(s, limit)) <= n
         /\ Len(Cut(s, limit)) < Len(s) => limit = {Len(Cut(s, limit))}
<1>1. CASE \E n \in limit : n < Len(s)
  <2>1. PICK n \in limit : n < Len(s)
    BY <1>1
  <2>2. n \in Nat /\ limit = {n}
    BY <2>1
  <2>3. (CHOOSE k \in limit : TRUE) = n
    BY <2>2
  <2>4. Cut(s, limit) = SubSeq(s, 1, n)
    BY <1>1, <2>3 DEF Cut
  <2>5. /\ SubSeq(s, 1, n) \in Seq(RunIds) /\ Len(SubSeq(s, 1, n)) = n
        /\ \A i \in 1 .. n : SubSeq(s, 1, n)[i] = s[i]
    BY <2>1, <2>2
  <2>6. Len(s) \in Nat
    OBVIOUS
  <2>7. PICK t : t = Cut(s, limit)
    OBVIOUS
  <2>8. t \in Seq(RunIds) /\ Len(t) = n /\ \A i \in 1 .. n : t[i] = s[i]
    BY <2>4, <2>5, <2>7
  <2>9. Len(t) < Len(s) /\ limit = {Len(t)} /\ \A m \in limit : Len(t) <= m
    BY <2>1, <2>2, <2>6, <2>8
  <2>10. /\ t \in Seq(RunIds) /\ Len(t) <= Len(s)
         /\ \A i \in 1 .. Len(t) : t[i] = s[i]
         /\ \A m \in limit : Len(t) <= m
         /\ Len(t) < Len(s) => limit = {Len(t)}
    BY <2>2, <2>6, <2>8, <2>9
  <2> QED
    BY <2>7, <2>10, Zenon
<1>2. CASE ~\E n \in limit : n < Len(s)
  <2>1. Cut(s, limit) = s
    BY <1>2 DEF Cut
  <2>2. Len(s) \in Nat
    OBVIOUS
  <2> QED
    BY <1>2, <2>1, <2>2
<1> QED
  BY <1>1, <1>2

(* What the use case returns answers the query it was asked. *)
LEMMA FindAnswersExactly ==
  ASSUME NEW raw, RawQuery(raw)
  PROVE  /\ FindArchivedTestRuns(ResolveArchivedRunQuery(raw), archive) \in Seq(RunIds)
         /\ AnswersExactly(raw, FindArchivedTestRuns(ResolveArchivedRunQuery(raw), archive))
<1> DEFINE q == ResolveArchivedRunQuery(raw)
           found == {id \in RunIds : archive[id] = "run" /\ Matches(q, Runs[id])}
           s == Newest[found]
           ids == Cut(s, raw.limit)
<1>1. q.limit = raw.limit /\ raw.limit \in SUBSET Nat /\ \A m, n \in raw.limit : m = n
  BY DEF RawQuery, ResolveArchivedRunQuery
<1>2. FindArchivedTestRuns(q, archive) = ids
  BY <1>1 DEF FindArchivedTestRuns
<1>3. found \in SUBSET RunIds
  OBVIOUS
<1>4. \A id \in RunIds : id \in found <=> Fits(raw, id)
  BY ResolvedMatches
<1> HIDE DEF q, found
<1>5. /\ s \in Seq(found)
      /\ \A id \in found : \E i \in 1 .. Len(s) : s[i] = id
      /\ \A i, j \in 1 .. Len(s) : i < j => Before(s[i], s[j])
  BY <1>3, NewestArranges
<1> HIDE DEF s
<1>6. s \in Seq(RunIds) /\ \A i \in 1 .. Len(s) : s[i] \in found
  BY <1>3, <1>5
<1>7. /\ ids \in Seq(RunIds) /\ Len(ids) <= Len(s)
      /\ \A i \in 1 .. Len(ids) : ids[i] = s[i]
      /\ \A n \in raw.limit : Len(ids) <= n
      /\ Len(ids) < Len(s) => raw.limit = {Len(ids)}
  BY <1>1, <1>6, CutKeepsTheFront
<1> HIDE DEF ids
<1>8. /\ DOMAIN ids = 1 .. Len(ids) /\ Len(ids) \in Nat /\ Len(s) \in Nat
      /\ 1 .. Len(ids) \subseteq 1 .. Len(s)
  BY <1>6, <1>7
<1>9. \A a, b : Before(a, b) <=> Newer(a, b)
  BY DEF Before, Newer
<1>10. \A i, j \in DOMAIN ids : i < j => Newer(ids[i], ids[j])
  BY <1>5, <1>7, <1>8, <1>9
<1>11. \A i \in DOMAIN ids : Fits(raw, ids[i])
  BY <1>4, <1>6, <1>3, <1>7, <1>8
<1>12. \A id \in {k \in RunIds : Fits(raw, k)} \ ToSet(ids) :
         raw.limit = {Len(ids)} /\ \A i \in DOMAIN ids : Newer(ids[i], id)
  <2> TAKE id \in {k \in RunIds : Fits(raw, k)} \ ToSet(ids)
  <2>1. PICK k \in 1 .. Len(s) : s[k] = id
    BY <1>4, <1>5
  <2>2. k \notin 1 .. Len(ids)
    BY <2>1, <1>7, <1>8 DEF ToSet
  <2>3. Len(ids) < k /\ Len(ids) < Len(s)
    BY <2>2, <1>8
  <2>4. ASSUME NEW i \in DOMAIN ids PROVE Newer(ids[i], id)
    <3>1. i \in 1 .. Len(s) /\ i < k /\ ids[i] = s[i]
      BY <2>3, <1>7, <1>8
    <3>2. Before(s[i], s[k])
      BY <3>1, <1>5
    <3> QED
      BY <2>1, <3>1, <3>2, <1>9
  <2> QED
    BY <2>3, <2>4, <1>7
<1>13. AnswersExactly(raw, ids)
  BY <1>7, <1>10, <1>11, <1>12 DEF AnswersExactly
<1> QED
  BY <1>2, <1>7, <1>13 DEF q

-----------------------------------------------------------------------------
(* The inductive invariant.                                                *)

(* What the Results page shows: the history, its table, and a run of it. *)
HistoryType(r) ==
  /\ DOMAIN r = {"filters", "needle", "runs", "table", "sort", "selected", "detail", "banner"}
  /\ RawQuery(r.filters) /\ r.runs \in Seq(RunIds) /\ r.sort \in Sorts

HistoryInv(r) ==
  /\ HistoryType(r)
  /\ r.table \in Seq(RunIds)
  /\ r.detail = r.selected
  /\ r.selected # NoRun => r.selected \in ToSet(r.table)
  /\ ToSet(r.table) \subseteq ToSet(r.runs)

(* What may be compared on the Compare page. *)
ChoiceInv(c) ==
  /\ DOMAIN c = {"rows", "baseline", "checked", "metric", "comparison", "shown", "banner"}
  /\ c.checked \subseteq ToSet(c.rows) \ {c.baseline}

(* A dialog about a comparison is about the one on screen. *)
DialogInv ==
  \/ dialog = NoDialog
  \/ dialog.kind = "run"
  \/ dialog.kind = "comparison" /\ dialog.what = compare.comparison.baseline

BInv == HistoryInv(results) /\ ChoiceInv(compare) /\ DialogInv /\ exported

(* Every limit of the page is a natural number. *)
LEMMA LimitFacts == InitialLimit \in Nat /\ \A n \in Limits : n \in Nat
<1>1. InitialLimit \in Limits
  BY BrowserAssumption
<1>2. \A n \in Limits : n \in 1 .. MAX_ARCHIVE_QUERY_LIMIT
  BY BrowserAssumption
<1>3. MAX_ARCHIVE_QUERY_LIMIT \in Nat
  BY DEF MAX_ARCHIVE_QUERY_LIMIT
<1>4. \A n \in Limits : n \in Nat
  BY <1>2, <1>3
<1> QED
  BY <1>1, <1>4

(* The query without filters is a query. *)
LEMMA NoFiltersRaw == RawQuery(NoFilters)
BY LimitFacts DEF NoFilters, RawQuery

(* A refresh empties the selection and fills the table from the history. *)
LEMMA FilledInv ==
  ASSUME NEW r, HistoryType(r)
  PROVE  HistoryInv(Filled(r)) /\ Filled(r).filters = r.filters /\ Filled(r).runs = r.runs
<1> DEFINE places == {i \in DOMAIN r.runs : RowMatchesSearch(Rows[r.runs[i]], r.needle)}
           shown == Visible(r)
           sorted == SortedBy(Descending)[SortedBy(r.sort)[shown]]
           t == Filled(r)
<1>1. /\ DOMAIN r = {"filters", "needle", "runs", "table", "sort", "selected", "detail", "banner"}
      /\ RawQuery(r.filters) /\ r.runs \in Seq(RunIds) /\ r.sort \in Sorts
  BY DEF HistoryType
<1>2. Descending \in Sorts
  BY DEF Descending, Sorts
<1>3. /\ DOMAIN t = DOMAIN r /\ t.filters = r.filters /\ t.runs = r.runs
      /\ t.table = sorted /\ t.sort = Descending /\ t.selected = NoRun /\ t.detail = NoRun
  BY <1>1 DEF Filled
<1> HIDE DEF t
<1>4. places \in SUBSET (DOMAIN r.runs) /\ shown = Picked(r.runs, places)
  BY DEF Visible
<1> HIDE DEF places, shown
<1>5. /\ shown \in Seq(RunIds)
      /\ \A k \in 1 .. Len(shown) : \E i \in places : shown[k] = r.runs[i]
  BY <1>1, <1>4, PickedMembers
<1>6. ToSet(shown) \subseteq ToSet(r.runs)
  BY <1>4, <1>5 DEF ToSet
<1>7. PICK first : /\ first = SortedBy(r.sort)[shown]
                    /\ first \in Seq(RunIds) /\ ToSet(first) = ToSet(shown)
  BY <1>1, <1>5, SortedByKeeps
<1>8. sorted \in Seq(RunIds) /\ ToSet(sorted) = ToSet(first)
  BY <1>2, <1>7, SortedByKeeps
<1> HIDE DEF sorted
<1>9. HistoryInv(t)
  BY <1>1, <1>2, <1>3, <1>6, <1>7, <1>8 DEF HistoryInv, HistoryType
<1> QED
  BY <1>3, <1>9 DEF t

(* What a refresh may leave behind: the answer to the filters, or a banner. *)
Told(r) ==
  \/ r.banner = "unreadable" /\ r.runs = <<>>
  \/ AnswersExactly(r.filters, r.runs)

(* A refresh leaves the answer to the filters, or a banner. *)
LEMMA RefreshedInv ==
  ASSUME NEW r, HistoryType(r)
  PROVE  HistoryInv(ResultsRefreshed(r)) /\ Told(ResultsRefreshed(r))
<1> DEFINE found == FindArchivedTestRuns(ResolveArchivedRunQuery(r.filters), archive)
           listed == [r EXCEPT !.banner = "none", !.runs = found]
           failed == [r EXCEPT !.banner = "unreadable", !.runs = <<>>]
           t == ResultsRefreshed(r)
<1>1. /\ DOMAIN r = {"filters", "needle", "runs", "table", "sort", "selected", "detail", "banner"}
      /\ RawQuery(r.filters) /\ r.runs \in Seq(RunIds) /\ r.sort \in Sorts
  BY DEF HistoryType
<1>2. found \in Seq(RunIds) /\ AnswersExactly(r.filters, found)
  BY <1>1, FindAnswersExactly
<1> HIDE DEF found
<1>3. CASE Listable(archive)
  <2>1. t = Filled(listed)
    BY <1>3 DEF ResultsRefreshed, found
  <2>2. HistoryType(listed) /\ listed.filters = r.filters /\ listed.runs = found
    BY <1>1, <1>2 DEF HistoryType
  <2> HIDE DEF listed, t
  <2>3. HistoryInv(t) /\ t.filters = listed.filters /\ t.runs = listed.runs
    BY <2>1, <2>2, FilledInv
  <2>4. HistoryInv(t) /\ Told(t)
    BY <1>2, <2>2, <2>3 DEF Told
  <2> QED
    BY <2>4 DEF t
<1>4. CASE ~Listable(archive)
  <2>1. t = Filled(failed)
    BY <1>4 DEF ResultsRefreshed
  <2>2. /\ HistoryType(failed) /\ DOMAIN failed = DOMAIN r
        /\ failed.runs = <<>> /\ failed.banner = "unreadable"
    BY <1>1 DEF HistoryType
  <2> HIDE DEF failed, t
  <2>3. HistoryInv(t) /\ t.runs = failed.runs
    BY <2>1, <2>2, FilledInv
  <2>4. t.banner = failed.banner
    BY <1>1, <2>1, <2>2 DEF Filled
  <2>5. HistoryInv(t) /\ Told(t)
    BY <2>2, <2>3, <2>4 DEF Told
  <2> QED
    BY <2>5 DEF t
<1> QED
  BY <1>3, <1>4

(* A refresh of the Compare page keeps every choice still listed. *)
LEMMA CompareRefreshedInv ==
  ASSUME NEW c, ChoiceInv(c)
  PROVE  LET t == CompareRefreshed(c) IN
         /\ ChoiceInv(t) /\ t.comparison = c.comparison
         /\ c.baseline \in ToSet(t.rows) => t.baseline = c.baseline
         /\ t.checked = (c.checked \cap ToSet(t.rows)) \ {t.baseline}
<1> PICK rows : rows = IF Listable(archive)
                       THEN FindArchivedTestRuns([NoFilters EXCEPT !.limit = {CompareLimit}], archive)
                       ELSE <<>>
  OBVIOUS
<1> PICK baseline : baseline = IF c.baseline \in ToSet(rows) THEN c.baseline
                               ELSE IF rows = <<>> THEN NoRun ELSE rows[1]
  OBVIOUS
<1> DEFINE t == CompareRefreshed(c)
<1>1. DOMAIN c = {"rows", "baseline", "checked", "metric", "comparison", "shown", "banner"}
  BY DEF ChoiceInv
<1>2. /\ DOMAIN t = DOMAIN c /\ t.rows = rows /\ t.baseline = baseline
      /\ t.checked = (c.checked \cap ToSet(rows)) \ {baseline}
      /\ t.comparison = c.comparison
  BY <1>1 DEF CompareRefreshed
<1> HIDE DEF t
<1>3. ChoiceInv(t)
  BY <1>1, <1>2 DEF ChoiceInv
<1>4. c.baseline \in ToSet(t.rows) => t.baseline = c.baseline
  BY <1>2
<1> QED
  BY <1>2, <1>3, <1>4 DEF t

(* BInv holds initially. *)
LEMMA BInvInit == Init => BInv
<1> SUFFICES ASSUME Init PROVE BInv
  OBVIOUS
<1>1. Ascending \in Sorts
  BY DEF Ascending, Sorts
<1>2. HistoryInv(results)
  <2>1. /\ DOMAIN results = {"filters", "needle", "runs", "table", "sort", "selected", "detail", "banner"}
        /\ results.filters = NoFilters /\ results.runs = <<>> /\ results.table = <<>>
        /\ results.sort = Ascending /\ results.selected = NoRun /\ results.detail = NoRun
    BY DEF Init
  <2>2. <<>> \in Seq(RunIds)
    OBVIOUS
  <2>3. HistoryType(results)
    BY <1>1, <2>1, <2>2, NoFiltersRaw DEF HistoryType
  <2> QED
    BY <2>1, <2>2, <2>3 DEF HistoryInv
<1>3. ChoiceInv(compare)
  BY DEF Init, ChoiceInv
<1> QED
  BY <1>2, <1>3 DEF Init, BInv, DialogInv

-----------------------------------------------------------------------------
(* The user of the Results page.                                           *)

(* What a step may do to the Results page. *)
ResultsStep ==
  /\ HistoryInv(results')
  /\ results'.runs # results.runs \/ results'.filters # results.filters =>
       \/ results'.banner = "unreadable" /\ results'.runs = <<>>
       \/ AnswersExactly(results'.filters, results'.runs)

(* A refresh is a step of the Results page. *)
LEMMA RefreshStep ==
  ASSUME NEW r, HistoryType(r), results' = ResultsRefreshed(r)
  PROVE  ResultsStep
<1> PICK t : t = ResultsRefreshed(r)
  OBVIOUS
<1>1. HistoryInv(t) /\ Told(t)
  BY RefreshedInv
<1>2. results' = t
  OBVIOUS
<1> QED
  BY <1>1, <1>2 DEF ResultsStep, Told

(* A new filter refreshes the history. *)
LEMMA SetFilterStep ==
  ASSUME HistoryInv(results), SetFilter
  PROVE  ResultsStep
<1>1. PICK k \in DOMAIN FilterChoices : \E choice \in FilterChoices[k] :
        results' = ResultsRefreshed([results EXCEPT !.filters[k] = choice])
  BY DEF SetFilter
<1>2. PICK choice \in FilterChoices[k] :
        results' = ResultsRefreshed([results EXCEPT !.filters[k] = choice])
  BY <1>1
<1> DEFINE r == [results EXCEPT !.filters[k] = choice]
           f == [results.filters EXCEPT ![k] = choice]
<1>3. /\ DOMAIN results = {"filters", "needle", "runs", "table", "sort", "selected", "detail", "banner"}
      /\ RawQuery(results.filters) /\ results.runs \in Seq(RunIds) /\ results.sort \in Sorts
  BY DEF HistoryInv, HistoryType
<1>4. k \in {"ammeter", "status", "has_statistics", "limit"}
  BY DEF FilterChoices
<1>5. k = "has_statistics" => choice \in SUBSET BOOLEAN
  <2> SUFFICES ASSUME k = "has_statistics" PROVE choice \in SUBSET BOOLEAN
    OBVIOUS
  <2>1. choice \in {{}, {TRUE}, {FALSE}}
    BY DEF FilterChoices
  <2> QED
    BY <2>1
<1>6. k = "limit" => choice \in SUBSET Nat /\ \A m, n \in choice : m = n
  BY LimitFacts DEF FilterChoices
<1>7. RawQuery(f)
  <2>1. \A x \in DOMAIN results.filters : f[x] = IF x = k THEN choice ELSE results.filters[x]
    OBVIOUS
  <2>2. DOMAIN f = DOMAIN results.filters
    OBVIOUS
  <2> HIDE DEF f
  <2>3. {"ammeter", "status", "from", "until", "has_statistics", "metadata", "limit"} = DOMAIN f
    BY <1>3, <2>2 DEF RawQuery
  <2>4. f.from = results.filters.from /\ f.until = results.filters.until
    BY <1>4, <2>1, <2>2, <2>3
  <2>5. f.has_statistics \in SUBSET BOOLEAN
    BY <1>3, <1>5, <2>1, <2>2, <2>3 DEF RawQuery
  <2>6. f.limit \in SUBSET Nat /\ \A m, n \in f.limit : m = n
    BY <1>3, <1>6, <2>1, <2>2, <2>3 DEF RawQuery
  <2> QED
    BY <1>3, <2>3, <2>4, <2>5, <2>6 DEF RawQuery
<1>8. DOMAIN r = DOMAIN results /\ r.filters = f /\ r.runs = results.runs /\ r.sort = results.sort
  BY <1>3
<1> HIDE DEF r, f
<1>9. HistoryType(r)
  BY <1>3, <1>7, <1>8 DEF HistoryType
<1>10. results' = ResultsRefreshed(r)
  BY <1>2 DEF r
<1> QED
  BY <1>9, <1>10, RefreshStep

(* A new search text fills the table from the same history. *)
LEMMA SearchStep ==
  ASSUME HistoryInv(results), Search
  PROVE  ResultsStep
<1>1. PICK needle : results' = Filled([results EXCEPT !.needle = needle])
  BY DEF Search
<1> DEFINE r == [results EXCEPT !.needle = needle]
<1>2. HistoryType(results)
  BY DEF HistoryInv
<1>3. r.filters = results.filters /\ r.runs = results.runs
  BY <1>2 DEF HistoryType
<1>4. HistoryType(r)
  BY <1>2 DEF HistoryType
<1> HIDE DEF r
<1>5. PICK t : t = Filled(r) /\ HistoryInv(t) /\ t.filters = r.filters /\ t.runs = r.runs
  BY <1>4, FilledInv
<1>6. results' = t
  BY <1>1, <1>5 DEF r
<1> QED
  BY <1>3, <1>5, <1>6 DEF ResultsStep

(* A new order keeps the rows and what is selected. *)
LEMMA SortTableStep ==
  ASSUME HistoryInv(results), SortTable
  PROVE  ResultsStep
<1>1. PICK sort \in Sorts :
        results' = [results EXCEPT !.sort = sort, !.table = SortedBy(sort)[results.table]]
  BY DEF SortTable
<1>2. HistoryType(results) /\ results.table \in Seq(RunIds)
  BY DEF HistoryInv
<1>3. PICK table : /\ table = SortedBy(sort)[results.table]
                   /\ table \in Seq(RunIds) /\ ToSet(table) = ToSet(results.table)
  BY <1>2, SortedByKeeps
<1>4. /\ DOMAIN results' = DOMAIN results /\ results'.filters = results.filters
      /\ results'.runs = results.runs /\ results'.sort = sort /\ results'.table = table
      /\ results'.selected = results.selected /\ results'.detail = results.detail
  BY <1>1, <1>2, <1>3 DEF HistoryType
<1>5. HistoryType(results')
  BY <1>2, <1>4 DEF HistoryType
<1> QED
  BY <1>3, <1>4, <1>5 DEF ResultsStep, HistoryInv

(* A selection brings its own detail along. *)
LEMMA SelectStep ==
  ASSUME HistoryInv(results), Select
  PROVE  ResultsStep
<1>1. PICK id \in ToSet(results.table) \cup {NoRun} :
        results' = [results EXCEPT !.selected = id, !.detail = id]
  BY DEF Select
<1>2. HistoryType(results)
  BY DEF HistoryInv
<1>3. /\ DOMAIN results' = DOMAIN results /\ results'.filters = results.filters
      /\ results'.runs = results.runs /\ results'.sort = results.sort /\ results'.table = results.table
      /\ results'.selected = id /\ results'.detail = id
  BY <1>1, <1>2 DEF HistoryType
<1>4. HistoryType(results')
  BY <1>2, <1>3 DEF HistoryType
<1> QED
  BY <1>1, <1>3, <1>4 DEF ResultsStep, HistoryInv

(* A step that leaves the Results page alone. *)
LEMMA SameResults ==
  ASSUME HistoryInv(results), results' = results
  PROVE  ResultsStep
BY DEF ResultsStep

-----------------------------------------------------------------------------
(* The user of the Compare page and the dialogs.                           *)

(* A choice changes no row, and no dialog is open while it is made. *)
LEMMA ChoiceStep ==
  ASSUME ChoiceInv(compare),
         ChooseBaseline \/ ToggleCandidate \/ ClearCandidates \/ Compare \/ SetMetric
  PROVE  ChoiceInv(compare')
<1> USE DEF ChoiceInv
<1>1. CASE ChooseBaseline
  <2>1. PICK id : compare' = [compare EXCEPT !.baseline = id, !.checked = compare.checked \ {id}]
    BY <1>1 DEF ChooseBaseline
  <2> QED
    BY <2>1
<1>2. CASE ToggleCandidate
  <2>1. PICK id \in ToSet(compare.rows) \ {compare.baseline} :
          compare' = [compare EXCEPT !.checked = IF id \in compare.checked THEN compare.checked \ {id}
                                                 ELSE compare.checked \cup {id}]
    BY <1>2 DEF ToggleCandidate
  <2> QED
    BY <2>1
<1>3. CASE ClearCandidates
  BY <1>3 DEF ClearCandidates
<1>4. CASE Compare
  <2>1. PICK comparison, shown, banner :
          compare' = [compare EXCEPT !.comparison = comparison, !.shown = shown, !.banner = banner]
    BY <1>4 DEF Compare
  <2> QED
    BY <2>1
<1>5. CASE SetMetric
  <2>1. PICK metric, shown : compare' = [compare EXCEPT !.metric = metric, !.shown = shown]
    BY <1>5 DEF SetMetric
  <2> QED
    BY <2>1
<1> QED
  BY <1>1, <1>2, <1>3, <1>4, <1>5

(* An export writes what its dialog was opened for. *)
LEMMA DialogStep ==
  ASSUME BInv, OpenDialog \/ CancelDialog \/ Export \/ ExportFails
  PROVE  DialogInv' /\ exported' /\ ChoiceInv(compare') /\ ResultsStep
<1>1. HistoryInv(results) /\ ChoiceInv(compare) /\ DialogInv /\ exported
  BY DEF BInv
<1>2. CASE OpenDialog
  <2>1. results' = results /\ compare' = compare /\ exported' = exported
    BY <1>2 DEF OpenDialog
  <2>2. DialogInv'
    BY <1>2, <2>1 DEF OpenDialog, DialogInv
  <2> QED
    BY <1>1, <2>1, <2>2, SameResults
<1>3. CASE CancelDialog
  <2>1. results' = results /\ compare' = compare /\ exported' = exported /\ dialog' = NoDialog
    BY <1>3 DEF CancelDialog
  <2> QED
    BY <1>1, <2>1, SameResults DEF DialogInv
<1>4. CASE Export
  <2>1. results' = results /\ compare' = compare /\ dialog' = NoDialog /\ dialog # NoDialog
    BY <1>4 DEF Export
  <2>2. Written = dialog.what
    BY <1>1, <2>1 DEF Written, DialogInv
  <2>3. exported'
    BY <1>1, <1>4, <2>2 DEF Export
  <2> QED
    BY <1>1, <2>1, <2>3, SameResults DEF DialogInv
<1>5. CASE ExportFails
  <2>1. dialog' = NoDialog /\ exported' = exported
    BY <1>5 DEF ExportFails
  <2>2. ChoiceInv(compare')
    BY <1>1, <1>5 DEF ExportFails, ChoiceInv
  <2>3. ResultsStep
    <3>1. CASE results' = results
      BY <1>1, <3>1, SameResults
    <3>2. CASE results' = [results EXCEPT !.banner = "export failed"]
      <4>1. HistoryType(results)
        BY <1>1 DEF HistoryInv
      <4>2. /\ DOMAIN results' = DOMAIN results /\ results'.filters = results.filters
            /\ results'.runs = results.runs /\ results'.sort = results.sort
            /\ results'.table = results.table
            /\ results'.selected = results.selected /\ results'.detail = results.detail
        BY <3>2, <4>1 DEF HistoryType
      <4>3. HistoryType(results')
        BY <4>1, <4>2 DEF HistoryType
      <4> QED
        BY <1>1, <4>2, <4>3 DEF ResultsStep, HistoryInv
    <3> QED
      BY <1>5, <3>1, <3>2 DEF ExportFails
  <2> QED
    BY <1>1, <2>1, <2>2, <2>3 DEF DialogInv
<1> QED
  BY <1>2, <1>3, <1>4, <1>5

-----------------------------------------------------------------------------
(* The window.                                                             *)

(* A refresh of the Compare page keeps every choice that is still listed. *)
Kept(c, d) ==
  /\ c.baseline \in ToSet(d.rows) => d.baseline = c.baseline
  /\ d.checked = (c.checked \cap ToSet(d.rows)) \ {d.baseline}

(* Each page is refreshed or left as it is. *)
LEMMA WindowStep ==
  ASSUME BInv, InitialLoad \/ Navigate \/ RunCompleted
  PROVE  /\ ResultsStep
         /\ ChoiceInv(compare') /\ compare'.comparison = compare.comparison /\ Kept(compare, compare')
<1>1. HistoryInv(results) /\ ChoiceInv(compare)
  BY DEF BInv
<1>2. results' = results \/ results' = ResultsRefreshed(results)
  BY DEF InitialLoad, Navigate, RunCompleted, RefreshBoth
<1>3. compare' = compare \/ compare' = CompareRefreshed(compare)
  BY DEF InitialLoad, Navigate, RunCompleted, RefreshBoth
<1>4. ResultsStep
  <2>1. HistoryType(results)
    BY <1>1 DEF HistoryInv
  <2> QED
    BY <1>1, <1>2, <2>1, SameResults, RefreshStep
<1>5. CASE compare' = compare
  BY <1>1, <1>4, <1>5 DEF ChoiceInv, Kept
<1>6. CASE compare' = CompareRefreshed(compare)
  <2> PICK t : t = CompareRefreshed(compare)
    OBVIOUS
  <2>1. /\ ChoiceInv(t) /\ t.comparison = compare.comparison
        /\ compare.baseline \in ToSet(t.rows) => t.baseline = compare.baseline
        /\ t.checked = (compare.checked \cap ToSet(t.rows)) \ {t.baseline}
    BY <1>1, CompareRefreshedInv
  <2>2. compare' = t
    BY <1>6
  <2> QED
    BY <1>4, <2>1, <2>2 DEF Kept
<1> QED
  BY <1>3, <1>5, <1>6

-----------------------------------------------------------------------------
(* Every step.                                                             *)

ByResultsUser == SetFilter \/ Search \/ SortTable \/ Select
ByCompareUser == ChooseBaseline \/ ToggleCandidate \/ ClearCandidates \/ Compare \/ SetMetric
ByDialog == OpenDialog \/ CancelDialog \/ Export \/ ExportFails
ByWindow == InitialLoad \/ Navigate \/ RunCompleted
Elsewhere == Ask \/ Publish \/ LoseFile

(* What the groups of actions leave unchanged. *)
LEMMA Frames ==
  /\ ByResultsUser => UNCHANGED <<compare, dialog, exported, reply>>
  /\ ByCompareUser => dialog = NoDialog /\ UNCHANGED <<results, dialog, exported, reply>>
  /\ ByDialog => UNCHANGED reply
  /\ ByWindow => UNCHANGED <<dialog, exported, reply>>
  /\ Elsewhere => UNCHANGED <<results, compare, dialog, exported>>
  /\ Publish \/ LoseFile => UNCHANGED reply
  /\ UNCHANGED vars => UNCHANGED <<results, compare, dialog, exported, reply>>
<1>1. ByResultsUser => UNCHANGED <<compare, dialog, exported, reply>>
  BY DEF ByResultsUser, SetFilter, Search, SortTable, Select, UNCHANGED_BUT_RESULTS
<1>2. ByCompareUser => dialog = NoDialog /\ UNCHANGED <<results, dialog, exported, reply>>
  BY DEF ByCompareUser, ChooseBaseline, ToggleCandidate, ClearCandidates, Compare, SetMetric,
         OnCompare, UNCHANGED_BUT_COMPARE
<1>3. ByDialog => UNCHANGED reply
  BY DEF ByDialog, OpenDialog, CancelDialog, Export, ExportFails, UNCHANGED_BY_DIALOGS
<1>4. ByWindow => UNCHANGED <<dialog, exported, reply>>
  BY DEF ByWindow, InitialLoad, Navigate, RunCompleted
<1>5. Elsewhere => UNCHANGED <<results, compare, dialog, exported>>
  BY DEF Elsewhere, Ask, Publish, LoseFile, UNCHANGED_BY_FILES
<1>6. Publish \/ LoseFile => UNCHANGED reply
  BY DEF Publish, LoseFile, UNCHANGED_BY_FILES
<1>7. UNCHANGED vars => UNCHANGED <<results, compare, dialog, exported, reply>>
  BY DEF vars
<1> QED
  BY <1>1, <1>2, <1>3, <1>4, <1>5, <1>6, <1>7

(* Every step keeps BInv. *)
LEMMA BInvStep ==
  ASSUME BInv, [Next]_vars
  PROVE  BInv' /\ ResultsStep
<1>1. HistoryInv(results) /\ ChoiceInv(compare) /\ DialogInv /\ exported
  BY DEF BInv
<1>2. SUFFICES ResultsStep /\ ChoiceInv(compare') /\ DialogInv' /\ exported'
  BY DEF BInv, ResultsStep
<1>3. CASE ByResultsUser
  <2>1. ResultsStep
    BY <1>1, <1>3, SetFilterStep, SearchStep, SortTableStep, SelectStep DEF ByResultsUser
  <2>2. compare' = compare /\ dialog' = dialog /\ exported' = exported
    BY <1>3, Frames
  <2> QED
    BY <1>1, <2>1, <2>2 DEF DialogInv
<1>4. CASE ByCompareUser
  <2>1. results' = results /\ dialog' = NoDialog /\ exported' = exported
    BY <1>4, Frames
  <2>2. ChoiceInv(compare')
    BY <1>1, <1>4, ChoiceStep DEF ByCompareUser
  <2> QED
    BY <1>1, <2>1, <2>2, SameResults DEF DialogInv
<1>5. CASE ByDialog
  BY <1>5, DialogStep DEF ByDialog
<1>6. CASE ByWindow
  <2>1. ResultsStep /\ ChoiceInv(compare') /\ compare'.comparison = compare.comparison
    BY <1>6, WindowStep DEF ByWindow
  <2>2. dialog' = dialog /\ exported' = exported
    BY <1>6, Frames
  <2> QED
    BY <1>1, <2>1, <2>2 DEF DialogInv
<1>7. CASE Elsewhere \/ UNCHANGED vars
  <2>1. results' = results /\ compare' = compare /\ dialog' = dialog /\ exported' = exported
    BY <1>7, Frames
  <2> QED
    BY <1>1, <2>1, SameResults DEF DialogInv
<1> QED
  BY <1>3, <1>4, <1>5, <1>6, <1>7
     DEF Next, ByResultsUser, ByCompareUser, ByDialog, ByWindow, Elsewhere

(* BInv holds in every reachable state. *)
THEOREM BrowserInvariant == Spec => []BInv
<1>1. BInv /\ [Next]_vars => BInv'
  BY BInvStep
<1> QED
  BY <1>1, BInvInit, PTL DEF Spec

(* The detail pane shows the selected run of the table, and exports write  *)
(* what was shown: _fill_history, _show_selection and the export slots.    *)
THEOREM DetailFollowsSelection == Spec => []DetailIsSelection
<1>1. BInv => DetailIsSelection
  BY DEF BInv, HistoryInv, DetailIsSelection
<1> QED
  BY <1>1, BrowserInvariant, PTL

(* A script's query and a refreshed history hold exactly the runs that fit *)
(* them, newest first: FindArchivedTestRuns and ResultsPage.refresh.       *)
THEOREM QueriesAnswerExactly == Spec => AnswersAreExact
<1> DEFINE Exact ==
      /\ reply' # reply /\ reply'.outcome = "found" =>
           AnswersExactly(reply'.query, reply'.ids)
      /\ results'.runs # results.runs \/ results'.filters # results.filters =>
           \/ results'.banner = "unreadable" /\ results'.runs = <<>>
           \/ AnswersExactly(results'.filters, results'.runs)
<1>1. BInv /\ [Next]_vars => [Exact]_vars
  <2> SUFFICES ASSUME BInv, [Next]_vars PROVE Exact
    OBVIOUS
  <2>1. results'.runs # results.runs \/ results'.filters # results.filters =>
          \/ results'.banner = "unreadable" /\ results'.runs = <<>>
          \/ AnswersExactly(results'.filters, results'.runs)
    BY BInvStep DEF ResultsStep
  <2>2. ASSUME reply' # reply, reply'.outcome = "found"
        PROVE  AnswersExactly(reply'.query, reply'.ids)
    <3>1. Ask
      BY <2>2, Frames DEF Next, ByResultsUser, ByCompareUser, ByDialog, ByWindow
    <3>2. PICK raw \in Queries : reply' = Answer(raw)
      BY <3>1 DEF Ask
    <3>3. Resolves(raw) /\ reply'.query = raw
          /\ reply'.ids = FindArchivedTestRuns(ResolveArchivedRunQuery(raw), archive)
      BY <2>2, <3>2 DEF Answer, Reply
    <3>4. RawQuery(raw)
      <4>1. /\ DOMAIN raw = {"ammeter", "status", "from", "until", "has_statistics", "metadata", "limit"}
            /\ \A k \in DOMAIN raw \ {"metadata"} : \A x, y \in raw[k] : x = y
            /\ raw.from \cup raw.until \cup raw.limit \subseteq Int
            /\ raw.has_statistics \subseteq BOOLEAN
        BY QueriesAssumption
      <4>2. \A n \in raw.limit : n \in 1 .. MAX_ARCHIVE_QUERY_LIMIT
        BY <3>3 DEF Resolves, QueryAccepts
      <4>3. MAX_ARCHIVE_QUERY_LIMIT \in Nat
        BY DEF MAX_ARCHIVE_QUERY_LIMIT
      <4>4. raw.limit \in SUBSET Nat
        BY <4>2, <4>3
      <4>5. \A m, n \in raw.limit : m = n
        BY <4>1
      <4> QED
        BY <4>1, <4>4, <4>5 DEF RawQuery
    <3> QED
      BY <3>3, <3>4, FindAnswersExactly
  <2> QED
    BY <2>1, <2>2
<1> QED
  BY <1>1, BrowserInvariant, PTL DEF Spec, AnswersAreExact

(* No refresh of the Compare page loses a choice that is still listed, and *)
(* no baseline is its own candidate: ComparePage.refresh.                  *)
THEOREM RefreshKeepsChoices == Spec => ChoicesSurviveRefresh
<1> DEFINE Survive ==
      /\ RunCompleted \/ Navigate =>
           LET listed == ToSet(compare'.rows) IN
           /\ compare.baseline \in listed => compare'.baseline = compare.baseline
           /\ compare'.checked = (compare.checked \cap listed) \ {compare'.baseline}
      /\ compare'.baseline \notin compare'.checked
<1>1. BInv /\ [Next]_vars => [Survive]_vars
  <2> SUFFICES ASSUME BInv, [Next]_vars PROVE Survive
    OBVIOUS
  <2>1. RunCompleted \/ Navigate => Kept(compare, compare')
    BY WindowStep
  <2>2. compare'.baseline \notin compare'.checked
    BY BInvStep DEF BInv, ChoiceInv
  <2> QED
    BY <2>1, <2>2 DEF Kept
<1> QED
  BY <1>1, BrowserInvariant, PTL DEF Spec, ChoicesSurviveRefresh

-----------------------------------------------------------------------------
(* Statistics of an archived run.                                          *)

(* The statistics are natural numbers, with the count of readings and the bounds. *)
LEMMA StatisticsFacts ==
  ASSUME NEW id \in RunIds, StatisticsOf[id] # Null
  PROVE  LET s == StatisticsOf[id]
             samples == Runs[id].result.samples
         IN  /\ DOMAIN s = StatisticsKeys
             /\ \A k \in StatisticsKeys : s[k] \in Nat
             /\ s.measurements_count = Cardinality(SuccessfulSlots(samples))
             /\ \A i \in SuccessfulSlots(samples) :
                  /\ s.minimum_current <= samples[i].result.current
                  /\ samples[i].result.current <= s.maximum_current
<1>0. PICK samples, s, ok :
        /\ samples = Runs[id].result.samples /\ s = StatisticsOf[id] /\ ok = SuccessfulSlots(samples)
  OBVIOUS
<1>1. s = CalculateCurrentStatistics[Currents(samples)] /\ s = Statistics(Runs[id].result)
  BY <1>0 DEF StatisticsOf, Statistics
<1>2. /\ samples \in Seq(ArchivedSample)
      /\ \A i \in DOMAIN samples : samples[i].result.current \in Int
      /\ \A i \in ok : samples[i].result.current \in Nat
  BY <1>0, ReadingFacts
<1>4. /\ DOMAIN s = StatisticsKeys /\ s.measurements_count = Cardinality(ok)
      /\ \A i \in ok : /\ s.minimum_current <= samples[i].result.current
                       /\ samples[i].result.current <= s.maximum_current
      /\ \E i \in ok : s.minimum_current = samples[i].result.current
      /\ \E i \in ok : s.maximum_current = samples[i].result.current
      /\ CurrentStatisticsAccepts(s) /\ \A k \in StatisticsKeys : s[k] \in Int
  BY <1>0, <1>1, <1>2, StatisticsOfSlots
<1>5. /\ s.mean_current \in s.minimum_current .. s.maximum_current
      /\ s.median_current \in s.minimum_current .. s.maximum_current
      /\ s.standard_deviation_current \in Nat
  BY <1>4 DEF CurrentStatisticsAccepts
<1>6. s.minimum_current \in Nat /\ s.maximum_current \in Nat
  BY <1>2, <1>4
<1>7. s.mean_current \in Nat /\ s.median_current \in Nat
  BY <1>5, <1>6
<1>8. s.measurements_count \in Nat
  BY <1>0, <1>4, SlotFacts
<1>9. \A k \in StatisticsKeys : s[k] \in Nat
  BY <1>5, <1>6, <1>7, <1>8 DEF StatisticsKeys
<1> QED
  BY <1>0, <1>4, <1>9

-----------------------------------------------------------------------------
(* Documents of the current version.                                       *)

(* Documents are written in the version with retries. *)
LEMMA CurrentVersion == ~(ARCHIVE_SCHEMA_VERSION < RETRY_SCHEMA_VERSION)
BY DEF ARCHIVE_SCHEMA_VERSION, RETRY_SCHEMA_VERSION

(* What the document of a sample says of it. *)
LEMMA SampleDocumentFacts ==
  ASSUME NEW s, NEW t
  PROVE  LET d == SampleDocument(s, t, ARCHIVE_SCHEMA_VERSION) IN
         /\ d.sample_index = s.index /\ d.scheduled = s.scheduled /\ d.started = s.started
         /\ d.result.status = s.result.status /\ d.result.current = s.result.current
         /\ d.result.errors = s.result.errors
<1> DEFINE plain ==
             [sample_index |-> s.index,
              scheduled    |-> s.scheduled,
              scheduled_at |-> Stamp(t + s.scheduled),
              started      |-> s.started,
              started_at   |-> Stamp(IF s.started = NoTime THEN NoTime ELSE t + s.started),
              completed    |-> s.completed,
              timing_error |-> IF s.started = NoTime THEN NoTime ELSE s.started - s.scheduled,
              result       |-> MeasurementDocument(s.result)]
           d == WithRetryKey(plain, "request_attempts", s.attempts, ARCHIVE_SCHEMA_VERSION)
<1>1. SampleDocument(s, t, ARCHIVE_SCHEMA_VERSION) = d
  BY DEF SampleDocument
<1>2. /\ plain.sample_index = s.index /\ plain.scheduled = s.scheduled /\ plain.started = s.started
      /\ plain.result = MeasurementDocument(s.result)
      /\ {"sample_index", "scheduled", "started", "result"} \subseteq DOMAIN plain
  OBVIOUS
<1> HIDE DEF plain
<1>3. \A k \in DOMAIN plain : k # "request_attempts" => d[k] = plain[k]
  BY CurrentVersion DEF WithRetryKey
<1> HIDE DEF d
<1>4. /\ d.sample_index = s.index /\ d.scheduled = s.scheduled /\ d.started = s.started
      /\ d.result = MeasurementDocument(s.result)
  BY <1>2, <1>3
<1> QED
  BY <1>1, <1>4 DEF MeasurementDocument

(* What the document of a run says of it. *)
LEMMA DocumentFacts ==
  ASSUME NEW id \in RunIds
  PROVE  LET a == DocumentOf[id].analysis
             r == Runs[id].result
             ok == Cardinality(SuccessfulSlots(r.samples))
         IN  /\ DocumentOf[id].run_id = id
             /\ a.ammeter_type = r.ammeter /\ a.status = r.status
             /\ a.statistics = StatisticsDocument(StatisticsOf[id])
             /\ a.summary = [planned |-> r.count, recorded |-> Len(r.samples), analyzed |-> ok,
                             excluded |-> Len(r.samples) - ok, missed |-> Missed(r.samples),
                             failed |-> Len(r.samples) - ok - Missed(r.samples)]
             /\ a.sampling_result.errors = r.errors
             /\ Samples(a) = [i \in DOMAIN r.samples |->
                                SampleDocument(r.samples[i], r.startedAt, ARCHIVE_SCHEMA_VERSION)]
<1> PICK r : r = Runs[id].result
  OBVIOUS
<1> DEFINE d == DocumentOf[id]
           a == AnalysisDocument(r, ARCHIVE_SCHEMA_VERSION)
           w == SamplingDocument(r, ARCHIVE_SCHEMA_VERSION)
           ok == Cardinality(SuccessfulSlots(r.samples))
           samples == [i \in DOMAIN r.samples |->
                         SampleDocument(r.samples[i], r.startedAt, ARCHIVE_SCHEMA_VERSION)]
           retry == [max_attempts |-> r.maxAttempts, retry_delay |-> r.retryDelay]
           plain ==
             [ammeter_type     |-> r.ammeter,
              status           |-> r.status,
              timestamp        |-> Stamp(r.timestamp),
              elapsed          |-> r.elapsed,
              sampling_started |-> Stamp(r.startedAt),
              sampling_elapsed |-> r.samplingElapsed,
              settings |-> [measurements_count |-> r.count, total_duration |-> r.duration,
                            slot_period |-> r.period],
              summary  |-> [successful |-> ok, missed |-> Missed(r.samples),
                            failed |-> Len(r.samples) - ok - Missed(r.samples)],
              samples  |-> samples,
              errors   |-> r.errors]
<1>1. d.analysis = a /\ d.run_id = Runs[id].run_id
  BY DEF DocumentOf, RunDocument
<1>2. Runs[id].run_id = id
  BY RunFacts
<1>3. w = WithRetryKey(plain, "retry", retry, ARCHIVE_SCHEMA_VERSION)
  BY DEF SamplingDocument
<1>4. plain.samples = samples /\ plain.errors = r.errors /\ {"samples", "errors"} \subseteq DOMAIN plain
  OBVIOUS
<1> HIDE DEF plain, retry
<1>5. \A k \in DOMAIN plain : k # "retry" => w[k] = plain[k]
  BY <1>3, CurrentVersion DEF WithRetryKey
<1>6. StatisticsOf[id] = Statistics(r)
  BY DEF StatisticsOf
<1>7. /\ a.ammeter_type = r.ammeter /\ a.status = r.status
      /\ a.statistics = StatisticsDocument(Statistics(r)) /\ a.sampling_result = w
  BY DEF AnalysisDocument
<1>8. a.summary = [planned |-> r.count, recorded |-> Len(r.samples), analyzed |-> ok,
                   excluded |-> Len(r.samples) - ok, missed |-> Missed(r.samples),
                   failed |-> Len(r.samples) - ok - Missed(r.samples)]
  BY DEF AnalysisDocument
<1> HIDE DEF a, w, samples
<1>9. w.samples = samples /\ w.errors = r.errors
  BY <1>4, <1>5
<1>10. Samples(a) = samples
  BY <1>7, <1>9 DEF Samples
<1> QED
  BY <1>1, <1>2, <1>6, <1>7, <1>8, <1>9, <1>10 DEF samples, d

(* What the decoder shows of a statistic of a stored run. *)
LEMMA ShownFacts ==
  ASSUME NEW id \in RunIds, NEW k \in StatisticsKeys
  PROVE  Shown(DocumentOf[id].analysis.statistics, k) =
           IF StatisticsOf[id] = Null THEN NoTime ELSE StatisticsOf[id][k]
<1> PICK s : s = StatisticsOf[id]
  OBVIOUS
<1>1. DocumentOf[id].analysis.statistics = StatisticsDocument(s)
  BY DocumentFacts
<1>2. CASE s = Null
  BY <1>1, <1>2 DEF StatisticsDocument, Shown
<1>3. CASE s # Null
  <2>1. DOMAIN s = StatisticsKeys
    BY <1>3, StatisticsFacts
  <2>2. PICK d : d = [j \in DOMAIN s |-> IF j \in Metrics THEN Float(s[j]) ELSE s[j]]
    OBVIOUS
  <2>6. StatisticsDocument(s) = d
    BY <1>3, <2>2 DEF StatisticsDocument
  <2>7. DOMAIN d = DOMAIN s /\ d[k] = IF k \in Metrics THEN Float(s[k]) ELSE s[k]
    BY <2>1, <2>2
  <2>3. "measurements_count" \in DOMAIN d /\ "measurements_count" \notin DOMAIN Null
    BY <2>1, <2>7 DEF StatisticsKeys, Null
  <2>4. d # Null
    BY <2>3
  <2>5. Float(s[k]).n = s[k]
    BY DEF Float
  <2> QED
    BY <1>1, <1>3, <2>6, <2>7, <2>4, <2>5 DEF Shown
<1> QED
  BY <1>2, <1>3

-----------------------------------------------------------------------------
(* The plot of a run.                                                      *)

(* The slots as the view models read them. *)
LEMMA SlotViews ==
  ASSUME NEW id \in RunIds
  PROVE  LET views == Samples(DocumentOf[id].analysis)
             samples == Runs[id].result.samples
         IN  /\ DOMAIN views = DOMAIN samples
             /\ \A i \in DOMAIN samples :
                  /\ views[i].sample_index = i - 1
                  /\ views[i].result.status = samples[i].result.status
                  /\ views[i].result.current = samples[i].result.current
                  /\ views[i].result.errors = samples[i].result.errors
                  /\ PlotX(views[i]) \in Nat
                  /\ Drawn(views[i]) <=> i \in SuccessfulSlots(samples)
<1> PICK samples, t : samples = Runs[id].result.samples /\ t = Runs[id].result.startedAt
  OBVIOUS
<1> PICK views : views = Samples(DocumentOf[id].analysis)
  OBVIOUS
<1>1. views = [i \in DOMAIN samples |-> SampleDocument(samples[i], t, ARCHIVE_SCHEMA_VERSION)]
  BY DocumentFacts, ZenonT(60)
<1>2. \A i \in DOMAIN samples :
        /\ samples[i] \in ArchivedSample
        /\ samples[i].index = i - 1
        /\ samples[i].result.status = "SUCCESS" <=> samples[i].result.current # NoTime
  BY SampleFacts
<1>3. ASSUME NEW i \in DOMAIN samples
      PROVE  /\ views[i].sample_index = i - 1
             /\ views[i].result.status = samples[i].result.status
             /\ views[i].result.current = samples[i].result.current
             /\ views[i].result.errors = samples[i].result.errors
             /\ PlotX(views[i]) \in Nat
             /\ Drawn(views[i]) <=> i \in SuccessfulSlots(samples)
  <2>1. PICK d : d = SampleDocument(samples[i], t, ARCHIVE_SCHEMA_VERSION)
    OBVIOUS
  <2>2. d = views[i]
    BY <1>1, <2>1
  <2>3. PICK s : s = samples[i]
    OBVIOUS
  <2>4. /\ d.sample_index = s.index /\ d.scheduled = s.scheduled /\ d.started = s.started
        /\ d.result.status = s.result.status /\ d.result.current = s.result.current
        /\ d.result.errors = s.result.errors
    BY <2>1, <2>3, SampleDocumentFacts, SMTT(60)
  <2>5. s.scheduled \in Nat /\ s.started \in Nat \cup {NoTime}
    BY <1>2, <2>3 DEF ArchivedSample
  <2>6. PlotX(d) \in Nat
    BY <2>4, <2>5 DEF PlotX
  <2>7. Drawn(d) <=> s.result.status = "SUCCESS"
    BY <1>2, <2>3, <2>4 DEF Drawn
  <2>8. i \in SuccessfulSlots(samples) <=> s.result.status = "SUCCESS"
    BY <2>3 DEF SuccessfulSlots
  <2> QED
    BY <1>2, <2>2, <2>3, <2>4, <2>6, <2>7, <2>8
<1>4. DOMAIN views = DOMAIN samples
  BY <1>1
<1> QED
  BY <1>3, <1>4

(* A finite set of times lies between its least and its greatest. *)
LEMMA SpanFacts ==
  ASSUME NEW xs \in SUBSET Nat, IsFiniteSet(xs), NEW x \in xs
  PROVE  x \in Min(xs) .. Max(xs)
<1> DEFINE t == Increasing[xs]
<1>1. Arranges(t, xs, Smaller(xs))
  BY IncreasingArranges
<1> HIDE DEF t
<1>2. t \in Seq(xs)
  BY <1>1 DEF Arranges
<1> PICK n \in Nat : n = Len(t)
  BY <1>2
<1>3. /\ \A i \in 1 .. n : t[i] \in xs
      /\ \A y \in xs : \E i \in 1 .. n : t[i] = y
      /\ \A i, j \in 1 .. n : i < j => t[i] < t[j]
  <2>1. \A i \in 1 .. n : t[i] \in xs
    BY <1>2
  <2>2. \A y \in xs : \E i \in 1 .. n : t[i] = y
    BY <1>1 DEF Arranges
  <2>3. \A i, j \in 1 .. n : i < j => <<t[i], t[j]>> \in Smaller(xs)
    BY <1>1 DEF Arranges
  <2>4. \A y, z \in xs : <<y, z>> \in Smaller(xs) => y < z
    BY DEF Smaller
  <2> QED
    BY <2>1, <2>2, <2>3, <2>4
<1>4. 1 \in 1 .. n /\ n \in 1 .. n
  BY <1>2, <1>3
<1>5. \A i \in 1 .. n : t[i] \in Nat
  BY <1>3
<1>6. ASSUME NEW y \in xs
      PROVE  t[1] <= y /\ y <= t[n]
  <2>1. PICK i \in 1 .. n : t[i] = y
    BY <1>3
  <2>2. i = 1 \/ t[1] < t[i]
    BY <1>3, <1>4
  <2>3. i = n \/ t[i] < t[n]
    BY <1>3, <1>4
  <2> QED
    BY <1>4, <1>5, <2>1, <2>2, <2>3
<1>7. Min(xs) \in xs /\ \A y \in xs : Min(xs) <= y
  BY <1>3, <1>4, <1>6 DEF Min
<1>8. Max(xs) \in xs /\ \A y \in xs : Max(xs) >= y
  <2>1. t[n] \in xs /\ \A y \in xs : t[n] >= y
    BY <1>3, <1>4, <1>6
  <2> QED
    BY <2>1 DEF Max
<1> QED
  BY <1>7, <1>8

(* The readings, the failures and the span of the plot. *)
LEMMA SeriesFacts ==
  ASSUME NEW id \in RunIds
  PROVE  LET series == PlotSeries(DocumentOf[id].analysis)
             samples == Runs[id].result.samples
             ok == SuccessfulSlots(samples)
         IN  /\ DOMAIN series = {"readings", "failures", "latency", "timing", "span", "lines"}
             /\ DOMAIN series.readings = 1 .. Cardinality(ok)
             /\ Len(series.readings) = Cardinality(ok) /\ \E P : series.readings \in Seq(P)
             /\ \A k \in DOMAIN series.readings :
                  \E i \in ok : series.readings[k][2] = samples[i].result.current
             /\ DOMAIN series.failures = 1 .. (Len(samples) - Cardinality(ok))
             /\ Len(series.failures) = Len(samples) - Cardinality(ok)
             /\ Len(samples) - Cardinality(ok) \in Nat
             /\ \A k \in DOMAIN series.failures :
                  series.failures[k][1] \in series.span[1] .. series.span[2]
             /\ series.lines = [k \in {"mean_current", "minimum_current", "maximum_current"} |->
                                  Shown(DocumentOf[id].analysis.statistics, k)]
<1> PICK a : a = DocumentOf[id].analysis
  OBVIOUS
<1> PICK samples, views : samples = Runs[id].result.samples /\ views = Samples(a)
  OBVIOUS
<1> PICK series : series = PlotSeries(a)
  OBVIOUS
<1> PICK ok : ok = SuccessfulSlots(samples)
  OBVIOUS
<1> DEFINE slots == DOMAIN samples
           xs == {PlotX(views[i]) : i \in slots}
           read == [i \in slots |-> <<PlotX(views[i]), views[i].result.current>>]
           lost == [i \in slots |-> <<PlotX(views[i]), NoTime>>]
<1>1. /\ Len(samples) \in Nat /\ slots = 1 .. Len(samples)
      /\ IsFiniteSet(slots) /\ Cardinality(slots) = Len(samples)
      /\ ok \in SUBSET slots /\ IsFiniteSet(ok) /\ Cardinality(ok) \in Nat
  BY SlotFacts
<1>2. /\ DOMAIN views = slots
      /\ \A i \in slots : /\ views[i].result.current = samples[i].result.current
                          /\ PlotX(views[i]) \in Nat
                          /\ Drawn(views[i]) <=> i \in ok
  BY SlotViews
<1>3. {i \in DOMAIN views : Drawn(views[i])} = ok
  BY <1>1, <1>2
<1> HIDE DEF slots, xs, read, lost
<1>4. /\ DOMAIN series = {"readings", "failures", "latency", "timing", "span", "lines"}
      /\ series.lines = [k \in {"mean_current", "minimum_current", "maximum_current"} |->
                            Shown(a.statistics, k)]
  BY DEF PlotSeries
<1>5. series.span = IF xs = {} THEN <<0, 1>> ELSE <<Min(xs), Max(xs)>>
  <2>1. PICK drawn : drawn = {PlotX(views[i]) : i \in DOMAIN views}
    OBVIOUS
  <2>2. series.span = IF drawn = {} THEN <<0, 1>> ELSE <<Min(drawn), Max(drawn)>>
    BY <2>1, ZenonT(60) DEF PlotSeries
  <2>3. drawn = xs
    BY <1>2, <2>1 DEF xs
  <2> QED
    BY <2>2, <2>3
<1>6. series.readings = Picked(read, ok)
  <2>1. series.readings =
          Picked([i \in DOMAIN views |-> <<PlotX(views[i]), [j \in DOMAIN views |-> views[j].result.current][i]>>],
                 {i \in DOMAIN views : Drawn(views[i])})
    BY DEF PlotSeries
  <2>2. [i \in DOMAIN views |-> <<PlotX(views[i]), [j \in DOMAIN views |-> views[j].result.current][i]>>] = read
    BY <1>2 DEF read
  <2> QED
    BY <1>3, <2>1, <2>2
<1>7. series.failures = Picked(lost, slots \ ok)
  <2>1. series.failures =
          Picked([i \in DOMAIN views |-> <<PlotX(views[i]), [j \in DOMAIN views |-> NoTime][i]>>],
                 DOMAIN views \ {i \in DOMAIN views : Drawn(views[i])})
    BY DEF PlotSeries
  <2>2. [i \in DOMAIN views |-> <<PlotX(views[i]), [j \in DOMAIN views |-> NoTime][i]>>] = lost
    BY <1>2 DEF lost
  <2> QED
    BY <1>2, <1>3, <2>1, <2>2
<1> PICK P : P = {read[i] : i \in slots} \cup {lost[i] : i \in slots}
  OBVIOUS
<1>8. /\ read \in Seq(P) /\ DOMAIN read = slots
      /\ lost \in Seq(P) /\ DOMAIN lost = slots
  <2>1. DOMAIN read = slots /\ DOMAIN lost = slots
    BY DEF read, lost
  <2>2. \A i \in slots : read[i] \in P /\ lost[i] \in P
    OBVIOUS
  <2>3. read = [i \in slots |-> read[i]] /\ lost = [i \in slots |-> lost[i]]
    BY DEF read, lost
  <2>4. PICK n \in Nat : slots = 1 .. n
    BY <1>1
  <2>5. read \in Seq(P)
    BY <2>2, <2>3, <2>4
  <2>6. lost \in Seq(P)
    BY <2>2, <2>3, <2>4
  <2> QED
    BY <2>1, <2>5, <2>6
<1>22. PICK readings : readings = Picked(read, ok)
  OBVIOUS
<1>9. /\ readings \in Seq(P) /\ Len(readings) = Cardinality(ok)
      /\ \A k \in 1 .. Len(readings) : \E i \in ok : readings[k] = read[i]
  <2>1. ok \in SUBSET (DOMAIN read)
    BY <1>1, <1>8
  <2>2. read \in Seq(P)
    BY <1>8
  <2>3. /\ Picked(read, ok) \in Seq(P) /\ Len(Picked(read, ok)) = Cardinality(ok)
        /\ \A k \in 1 .. Len(Picked(read, ok)) : \E i \in ok : Picked(read, ok)[k] = read[i]
    BY <2>1, <2>2, PickedMembers, ZenonT(60)
  <2> QED
    BY <1>22, <2>3, ZenonT(60)
<1>23. series.readings = readings
  BY <1>6, <1>22
<1>20. PICK missed : missed = slots \ ok
  OBVIOUS
<1> PICK failures : failures = Picked(lost, missed)
  OBVIOUS
<1>10. /\ failures \in Seq(P) /\ Len(failures) = Cardinality(missed)
       /\ \A k \in 1 .. Len(failures) : \E i \in missed : failures[k] = lost[i]
  <2>1. missed \in SUBSET (DOMAIN lost)
    BY <1>8, <1>20
  <2>2. lost \in Seq(P)
    BY <1>8
  <2> QED
    BY <2>1, <2>2, PickedMembers, ZenonT(60)
<1>17. series.failures = failures
  BY <1>7, <1>20
<1>11. Cardinality(missed) = Len(samples) - Cardinality(ok) /\ Cardinality(missed) \in Nat
  <2>1. IsFiniteSet(missed) /\ Cardinality(missed) = Cardinality(slots) - Cardinality(slots \cap ok)
    BY <1>1, <1>20, FS_Difference
  <2>2. slots \cap ok = ok
    BY <1>1
  <2>3. Cardinality(missed) \in Nat
    BY <2>1, FS_CardinalityType
  <2> QED
    BY <1>1, <2>1, <2>2, <2>3
<1>12. \A k \in 1 .. Cardinality(ok) : \E i \in ok : series.readings[k][2] = samples[i].result.current
  <2>1. \A i \in ok : read[i][2] = samples[i].result.current
    BY <1>1, <1>2 DEF read
  <2> QED
    BY <1>9, <1>23, <2>1
<1>13. xs \in SUBSET Nat /\ IsFiniteSet(xs)
  <2> DEFINE f == [i \in slots |-> PlotX(views[i])]
  <2>1. f \in Surjection(slots, xs)
    BY DEF Surjection, xs
  <2>2. IsFiniteSet(xs)
    BY <1>1, <2>1, FS_Surjection
  <2> QED
    BY <1>2, <2>2 DEF xs
<1>14. \A i \in slots : lost[i][1] \in series.span[1] .. series.span[2]
  <2> TAKE i \in slots
  <2>1. PICK x \in xs : x = PlotX(views[i])
    BY DEF xs
  <2>2. x \in Min(xs) .. Max(xs)
    BY <1>13, SpanFacts
  <2>3. series.span[1] = Min(xs) /\ series.span[2] = Max(xs)
    BY <1>5, <2>1
  <2>4. lost[i][1] = x
    BY <2>1 DEF lost
  <2> QED
    BY <2>2, <2>3, <2>4
<1>15. \A k \in 1 .. Cardinality(missed) : series.failures[k][1] \in series.span[1] .. series.span[2]
  <2> TAKE k \in 1 .. Cardinality(missed)
  <2>1. PICK i \in missed : failures[k] = lost[i]
    BY <1>10
  <2>2. i \in slots
    BY <1>20, <2>1
  <2> QED
    BY <1>14, <1>17, <2>1, <2>2
<1>16. /\ DOMAIN series.readings = 1 .. Cardinality(ok) /\ Len(series.readings) = Cardinality(ok)
       /\ DOMAIN series.failures = 1 .. Cardinality(missed) /\ Len(series.failures) = Cardinality(missed)
  BY <1>9, <1>10, <1>17, <1>23
<1>18. \A k \in DOMAIN series.readings :
         \E i \in ok : series.readings[k][2] = samples[i].result.current
  BY <1>12, <1>16
<1>19. \A k \in DOMAIN series.failures :
         series.failures[k][1] \in series.span[1] .. series.span[2]
  BY <1>15, <1>16
<1>21. \E Q : series.readings \in Seq(Q)
  BY <1>9, <1>23
<1> QED
  BY <1>4, <1>11, <1>16, <1>18, <1>19, <1>21

LineKeys == {"mean_current", "minimum_current", "maximum_current"}

(* What the plot adds: failures are drawn at the mean, missing lines not.  *)
LEMMA PlotFacts ==
  ASSUME NEW id \in RunIds
  PROVE  LET plot == ShowAnalysis(DocumentOf[id].analysis)
             series == PlotSeries(DocumentOf[id].analysis)
             s == StatisticsOf[id]
         IN  /\ plot.readings = series.readings /\ plot.span = series.span
             /\ DOMAIN plot.failures = DOMAIN series.failures
             /\ Len(plot.failures) = Len(series.failures)
             /\ \A k \in DOMAIN series.failures :
                  plot.failures[k] =
                    <<series.failures[k][1], IF s = Null THEN 0 ELSE s.mean_current>>
             /\ DOMAIN plot.lines = IF s = Null THEN {} ELSE LineKeys
             /\ \A k \in DOMAIN plot.lines : plot.lines[k] = s[k]
<1> PICK a : a = DocumentOf[id].analysis
  OBVIOUS
<1> PICK series : series = PlotSeries(a)
  OBVIOUS
<1> PICK s : s = StatisticsOf[id]
  OBVIOUS
<1> DEFINE average == FoldLeft(LAMBDA sum, point : sum + point[2], 0, series.readings)
                      \div Len(series.readings)
           height == CASE series.lines.mean_current # NoTime -> series.lines.mean_current
                       [] series.lines.mean_current = NoTime /\ series.readings # <<>> -> average
                       [] OTHER -> 0
           shown == {k \in DOMAIN series.lines : series.lines[k] # NoTime}
           plot == [series EXCEPT !.failures = [i \in DOMAIN @ |-> <<@[i][1], height>>],
                                  !.lines = [k \in shown |-> series.lines[k]]]
<1>1. ShowAnalysis(a) = plot
  BY Zenon DEF ShowAnalysis
<1>2. /\ DOMAIN series = {"readings", "failures", "latency", "timing", "span", "lines"}
      /\ series.lines = [k \in LineKeys |-> Shown(a.statistics, k)]
      /\ Len(series.readings) = Cardinality(SuccessfulSlots(Runs[id].result.samples))
      /\ \E P : series.readings \in Seq(P)
  BY SeriesFacts DEF LineKeys
<1>3. LineKeys \subseteq StatisticsKeys
  BY DEF LineKeys, StatisticsKeys
<1>4. \A k \in LineKeys : series.lines[k] = IF s = Null THEN NoTime ELSE s[k]
  BY <1>2, <1>3, ShownFacts
<1>5. s # Null => \A k \in LineKeys : s[k] # NoTime
  <2>1. s # Null => \A k \in StatisticsKeys : s[k] \in Nat
    BY StatisticsFacts
  <2> QED
    BY <1>3, <2>1 DEF NoTime
<1>6. shown = IF s = Null THEN {} ELSE LineKeys
  BY <1>2, <1>4, <1>5
<1>7. height = IF s = Null THEN 0 ELSE s.mean_current
  <2>1. "mean_current" \in LineKeys
    BY DEF LineKeys
  <2>2. CASE s = Null
    <3>1. series.lines.mean_current = NoTime
      BY <1>4, <2>1, <2>2
    <3>2. Cardinality(SuccessfulSlots(Runs[id].result.samples)) = 0
      BY <2>2, StatisticsMissing, SlotFacts
    <3>3. PICK P : series.readings \in Seq(P)
      BY <1>2
    <3>4. ~(series.readings # <<>>)
      BY <1>2, <3>2, <3>3
    <3> HIDE DEF average
    <3> QED
      BY <2>2, <3>1, <3>4
  <2>3. CASE s # Null
    <3>1. series.lines.mean_current = s.mean_current /\ s.mean_current # NoTime
      BY <1>4, <1>5, <2>1, <2>3
    <3> HIDE DEF average
    <3> QED
      BY <2>3, <3>1
  <2> QED
    BY <2>2, <2>3
<1> HIDE DEF height, shown, average
<1>8. /\ plot.readings = series.readings /\ plot.span = series.span
      /\ plot.failures = [i \in DOMAIN series.failures |-> <<series.failures[i][1], height>>]
      /\ plot.lines = [k \in shown |-> series.lines[k]]
  BY <1>2
<1> HIDE DEF plot
<1>9. DOMAIN plot.lines = shown /\ \A k \in shown : plot.lines[k] = s[k]
  BY <1>4, <1>6, <1>8
<1>10. \A k \in DOMAIN series.failures :
         plot.failures[k] = <<series.failures[k][1], IF s = Null THEN 0 ELSE s.mean_current>>
  BY <1>7, <1>8
<1>11. Len(plot.failures) = Len(series.failures)
  <2>1. PICK m \in Nat : DOMAIN series.failures = 1 .. m /\ Len(series.failures) = m
    BY SeriesFacts
  <2>2. plot.failures = [i \in 1 .. m |-> <<series.failures[i][1], height>>]
    BY <1>8, <2>1
  <2> QED
    BY <2>1, <2>2
<1> QED
  BY <1>1, <1>6, <1>8, <1>9, <1>10, <1>11

-----------------------------------------------------------------------------
(* The detail of a run.                                                    *)

(* What the history row of a run says of it. *)
LEMMA RowFacts ==
  ASSUME NEW id \in RunIds
  PROVE  LET row == Rows[id]
             r == Runs[id].result
             s == StatisticsOf[id]
         IN  /\ row.run_id = id /\ row.ammeter = r.ammeter /\ row.status = r.status
             /\ row.samples = <<Cardinality(SuccessfulSlots(r.samples)), Len(r.samples)>>
             /\ row.mean = IF s = Null THEN NoTime ELSE s.mean_current
             /\ row.deviation = IF s = Null THEN NoTime ELSE s.standard_deviation_current
<1> PICK a : a = DocumentOf[id].analysis
  OBVIOUS
<1>1. {"mean_current", "standard_deviation_current"} \subseteq StatisticsKeys
  BY DEF StatisticsKeys
<1>2. \A k \in StatisticsKeys :
        Shown(a.statistics, k) = IF StatisticsOf[id] = Null THEN NoTime ELSE StatisticsOf[id][k]
  BY ShownFacts
<1>3. /\ Rows[id].run_id = DocumentOf[id].run_id
      /\ Rows[id].ammeter = a.ammeter_type /\ Rows[id].status = a.status
      /\ Rows[id].samples = <<a.summary.analyzed, a.summary.recorded>>
      /\ Rows[id].mean = Shown(a.statistics, "mean_current")
      /\ Rows[id].deviation = Shown(a.statistics, "standard_deviation_current")
  BY DEF Rows, HistoryRow
<1> PICK r : r = Runs[id].result
  OBVIOUS
<1>4. DocumentOf[id].run_id = id /\ a.ammeter_type = r.ammeter /\ a.status = r.status
  BY DocumentFacts
<1>5. a.summary = [planned |-> r.count, recorded |-> Len(r.samples),
                   analyzed |-> Cardinality(SuccessfulSlots(r.samples)),
                   excluded |-> Len(r.samples) - Cardinality(SuccessfulSlots(r.samples)),
                   missed |-> Missed(r.samples),
                   failed |-> Len(r.samples) - Cardinality(SuccessfulSlots(r.samples)) - Missed(r.samples)]
  BY DocumentFacts
<1> QED
  BY <1>1, <1>2, <1>3, <1>4, <1>5

(* What the parts of the detail of a run are made of. *)
LEMMA DetailParts ==
  ASSUME NEW id \in RunIds
  PROVE  LET d == Details[id]
             a == DocumentOf[id].analysis
             r == Runs[id].result
             ok == Cardinality(SuccessfulSlots(r.samples))
         IN  /\ d.plot = ShowAnalysis(a) /\ d.errors = ErrorLines(a) /\ d.json.analysis = a
             /\ d.cards.samples = <<ok, Len(r.samples)>>
             /\ d.statistics.planned = r.count /\ d.statistics.recorded = Len(r.samples)
             /\ d.statistics.excluded = Len(r.samples) - ok
             /\ d.statistics.failed = Len(r.samples) - ok - Missed(r.samples)
             /\ d.statistics.missed = Missed(r.samples)
             /\ DOMAIN d.samples = DOMAIN r.samples
             /\ \A i \in DOMAIN r.samples : /\ d.samples[i].index = i - 1
                                            /\ d.samples[i].status = r.samples[i].result.status
<1> PICK doc : doc = DocumentOf[id]
  OBVIOUS
<1> PICK a, views : a = doc.analysis /\ views = Samples(a)
  OBVIOUS
<1> PICK r : r = Runs[id].result
  OBVIOUS
<1>1. a.summary = [planned |-> r.count, recorded |-> Len(r.samples),
                   analyzed |-> Cardinality(SuccessfulSlots(r.samples)),
                   excluded |-> Len(r.samples) - Cardinality(SuccessfulSlots(r.samples)),
                   missed |-> Missed(r.samples),
                   failed |-> Len(r.samples) - Cardinality(SuccessfulSlots(r.samples)) - Missed(r.samples)]
  BY DocumentFacts
<1>2. /\ DOMAIN views = DOMAIN r.samples
      /\ \A i \in DOMAIN r.samples : /\ views[i].sample_index = i - 1
                                     /\ views[i].result.status = r.samples[i].result.status
  BY SlotViews
<1>3. Details[id] = Detail(doc)
  BY DEF Details
<1>4. /\ Detail(doc).plot = ShowAnalysis(a) /\ Detail(doc).errors = ErrorLines(a)
      /\ Detail(doc).json = doc /\ Detail(doc).cards = SummaryCards(a)
      /\ Detail(doc).statistics = StatisticsRows(doc) /\ Detail(doc).samples = SampleRows(a)
  BY DEF Detail
<1>5. SummaryCards(a).samples = <<a.summary.analyzed, a.summary.recorded>>
  BY DEF SummaryCards
<1>6. /\ StatisticsRows(doc).planned = a.summary.planned
      /\ StatisticsRows(doc).recorded = a.summary.recorded
      /\ StatisticsRows(doc).excluded = a.summary.excluded
      /\ StatisticsRows(doc).failed = a.summary.failed
      /\ StatisticsRows(doc).missed = a.summary.missed
  BY DEF StatisticsRows
<1>7. /\ DOMAIN SampleRows(a) = DOMAIN r.samples
      /\ \A i \in DOMAIN r.samples : /\ SampleRows(a)[i].index = i - 1
                                     /\ SampleRows(a)[i].status = r.samples[i].result.status
  BY <1>2 DEF SampleRows, SampleRow
<1> PICK d : d = Details[id]
  OBVIOUS
<1>8. /\ d.plot = ShowAnalysis(a) /\ d.errors = ErrorLines(a) /\ d.json.analysis = a
      /\ d.cards = SummaryCards(a) /\ d.statistics = StatisticsRows(doc) /\ d.samples = SampleRows(a)
  BY <1>3, <1>4
<1>9. PICK ok, missed : ok = Cardinality(SuccessfulSlots(r.samples)) /\ missed = Missed(r.samples)
  OBVIOUS
<1>10. /\ a.summary.planned = r.count /\ a.summary.recorded = Len(r.samples)
       /\ a.summary.analyzed = ok /\ a.summary.excluded = Len(r.samples) - ok
       /\ a.summary.missed = missed /\ a.summary.failed = Len(r.samples) - ok - missed
  BY <1>1, <1>9
<1>11. /\ d.cards.samples = <<ok, Len(r.samples)>>
       /\ d.statistics.planned = r.count /\ d.statistics.recorded = Len(r.samples)
       /\ d.statistics.excluded = Len(r.samples) - ok
       /\ d.statistics.failed = Len(r.samples) - ok - missed
       /\ d.statistics.missed = missed
  BY <1>5, <1>6, <1>8, <1>10
<1>12. /\ DOMAIN d.samples = DOMAIN r.samples
       /\ \A i \in DOMAIN r.samples : /\ d.samples[i].index = i - 1
                                      /\ d.samples[i].status = r.samples[i].result.status
  BY <1>7, <1>8
<1> QED
  BY <1>8, <1>9, <1>11, <1>12

(* Every slot without a reading has an error, and no other slot has. *)
LEMMA ErrorFacts ==
  ASSUME NEW id \in RunIds
  PROVE  LET errors == ErrorLines(DocumentOf[id].analysis)
             r == Runs[id].result
         IN  /\ \A i \in DOMAIN r.samples :
                  r.samples[i].result.status # "SUCCESS" <=>
                    \E code \in ErrorCode : <<i - 1, code>> \in errors
             /\ errors = {} <=> r.errors = {} /\ SuccessfulSlots(r.samples) = DOMAIN r.samples
<1> PICK a, views : a = DocumentOf[id].analysis /\ views = Samples(a)
  OBVIOUS
<1> PICK samples, own : samples = Runs[id].result.samples /\ own = Runs[id].result.errors
  OBVIOUS
<1> PICK errors : errors = ErrorLines(a)
  OBVIOUS
<1>1. /\ DOMAIN views = DOMAIN samples
      /\ \A i \in DOMAIN samples : /\ views[i].sample_index = i - 1
                                   /\ views[i].result.errors = samples[i].result.errors
  BY SlotViews
<1>2. a.sampling_result.errors = own
  BY DocumentFacts
<1>3. \A i \in DOMAIN samples :
        /\ i \in Nat /\ samples[i].result \in ArchivedMeasurement
        /\ samples[i].result.status = "SUCCESS" <=> samples[i].result.errors = {}
  BY SampleFacts, SMTT(60)
<1>4. \A i \in DOMAIN samples : samples[i].result.errors \in SUBSET ErrorCode
  BY <1>3 DEF ArchivedMeasurement
<1>5. \A e : e \in errors <=>
        \/ \E code \in own : e = <<code>>
        \/ \E i \in DOMAIN samples : \E code \in samples[i].result.errors : e = <<i - 1, code>>
  <2>1. errors = {<<code>> : code \in own}
                 \cup UNION {{<<s.sample_index, code>> : code \in s.result.errors} : s \in ToSet(views)}
    BY <1>2 DEF ErrorLines
  <2>2. ToSet(views) = {views[i] : i \in DOMAIN samples}
    BY <1>1 DEF ToSet
  <2> QED
    BY <1>1, <2>1, <2>2
<1>6. ASSUME NEW i \in DOMAIN samples
      PROVE  samples[i].result.status # "SUCCESS" <=>
               \E code \in ErrorCode : <<i - 1, code>> \in errors
  <2>1. ASSUME NEW code \in ErrorCode, <<i - 1, code>> \in errors
        PROVE  code \in samples[i].result.errors
    <3>1. ~ \E c \in own : <<i - 1, code>> = <<c>>
      OBVIOUS
    <3>2. PICK j \in DOMAIN samples :
            \E c \in samples[j].result.errors : <<i - 1, code>> = <<j - 1, c>>
      BY <1>5, <2>1, <3>1
    <3>3. i = j /\ code \in samples[j].result.errors
      BY <1>3, <3>2
    <3> QED
      BY <3>2, <3>3
  <2>2. ASSUME NEW code \in samples[i].result.errors
        PROVE  code \in ErrorCode /\ <<i - 1, code>> \in errors
    BY <1>4, <1>5
  <2> QED
    BY <1>3, <2>1, <2>2
<1>7. errors = {} <=> own = {} /\ \A i \in DOMAIN samples : samples[i].result.errors = {}
  BY <1>5
<1>8. SuccessfulSlots(samples) = DOMAIN samples <=>
        \A i \in DOMAIN samples : samples[i].result.errors = {}
  BY <1>3 DEF SuccessfulSlots
<1> QED
  BY <1>6, <1>7, <1>8

(* What DetailAgrees says of a detail and its row in the history. *)
Consistent(d, row) ==
  /\ Len(d.plot.readings) = d.cards.samples[1]
  /\ Len(d.plot.readings) + Len(d.plot.failures) = d.statistics.recorded
  /\ Len(d.plot.failures) = d.statistics.excluded
  /\ d.statistics.excluded = d.statistics.failed + d.statistics.missed
  /\ Len(SamplesCsv(d.json.analysis)) = row.samples[2]
  /\ {d.plot.lines[k] : k \in DOMAIN d.plot.lines \cap {"mean_current"}} = {row.mean} \ {NoTime}
  /\ \A i \in DOMAIN d.plot.failures :
       d.plot.failures[i] \in (d.plot.span[1] .. d.plot.span[2]) \X {row.mean, 0}
  /\ \A i \in DOMAIN d.plot.readings :
       d.plot.readings[i][2] \in d.plot.lines.minimum_current .. d.plot.lines.maximum_current
  /\ \A i \in DOMAIN d.samples :
       d.samples[i].status # "SUCCESS" <=>
         \E code \in ErrorCode : <<d.samples[i].index, code>> \in d.errors
  /\ row.status = "SUCCESS" <=> d.errors = {} /\ Len(d.plot.readings) = d.statistics.planned

(* The detail of a run that is shown is the detail of an archived run.     *)
LEMMA DetailHolds == HistoryInv(results) => DetailAgrees
<1> SUFFICES ASSUME HistoryInv(results), results.detail # NoRun
             PROVE  DetailAgrees
  BY DEF DetailAgrees
<1>1. results.detail \in RunIds
  <2>1. results.table \in Seq(RunIds) /\ results.detail \in ToSet(results.table)
    BY DEF HistoryInv
  <2> QED
    BY <2>1 DEF ToSet
<1>0. PICK id, a, r, d, row, s, series, plot, ok, n, total :
        /\ id \in RunIds /\ id = results.detail /\ a = DocumentOf[id].analysis /\ r = Runs[id].result
        /\ d = Details[id] /\ row = Rows[id] /\ s = StatisticsOf[id]
        /\ series = PlotSeries(a) /\ plot = ShowAnalysis(a)
        /\ ok = SuccessfulSlots(r.samples) /\ n = Cardinality(ok) /\ total = Len(r.samples)
  BY <1>1
<1>2. /\ total \in Nat /\ DOMAIN r.samples = 1 .. total /\ n \in Nat
      /\ IsFiniteSet(DOMAIN r.samples) /\ Cardinality(DOMAIN r.samples) = total
      /\ ok \in SUBSET (DOMAIN r.samples) /\ (n = 0 <=> ok = {})
      /\ ok = {i \in DOMAIN r.samples : r.samples[i].result.current # NoTime}
  BY <1>0, SlotFacts
<1>3. /\ row.run_id = id /\ row.status = r.status /\ row.samples = <<n, total>>
      /\ row.mean = IF s = Null THEN NoTime ELSE s.mean_current
  BY <1>0, RowFacts
<1>4. /\ d.plot = plot /\ d.errors = ErrorLines(a) /\ d.json.analysis = a
      /\ d.cards.samples = <<n, total>>
      /\ d.statistics.planned = r.count /\ d.statistics.recorded = total
      /\ d.statistics.excluded = total - n
      /\ d.statistics.failed = total - n - Missed(r.samples)
      /\ d.statistics.missed = Missed(r.samples)
      /\ DOMAIN d.samples = DOMAIN r.samples
      /\ \A i \in DOMAIN r.samples : /\ d.samples[i].index = i - 1
                                     /\ d.samples[i].status = r.samples[i].result.status
  BY <1>0, DetailParts
<1>5. /\ DOMAIN series.readings = 1 .. n /\ Len(series.readings) = n
      /\ \A k \in DOMAIN series.readings :
           \E i \in ok : series.readings[k][2] = r.samples[i].result.current
      /\ DOMAIN series.failures = 1 .. (total - n) /\ Len(series.failures) = total - n
      /\ total - n \in Nat
      /\ \A k \in DOMAIN series.failures :
           series.failures[k][1] \in series.span[1] .. series.span[2]
  BY <1>0, SeriesFacts, ZenonT(60)
<1>6. /\ plot.readings = series.readings /\ plot.span = series.span
      /\ DOMAIN plot.failures = DOMAIN series.failures /\ Len(plot.failures) = Len(series.failures)
      /\ \A k \in DOMAIN series.failures :
           plot.failures[k] = <<series.failures[k][1], IF s = Null THEN 0 ELSE s.mean_current>>
      /\ DOMAIN plot.lines = IF s = Null THEN {} ELSE LineKeys
      /\ \A k \in DOMAIN plot.lines : plot.lines[k] = s[k]
  BY <1>0, PlotFacts
<1>7. s # Null =>
        /\ \A k \in StatisticsKeys : s[k] \in Nat
        /\ \A i \in ok : /\ s.minimum_current <= r.samples[i].result.current
                         /\ r.samples[i].result.current <= s.maximum_current
  BY <1>0, StatisticsFacts
<1>8. s = Null <=> ok = {}
  BY <1>0, <1>2, StatisticsMissing
<1>9. Len(plot.failures) = total - n
  BY <1>5, <1>6
<1>10. Missed(r.samples) \in Nat
  <2>1. {i \in DOMAIN r.samples : MissedSlot(r.samples[i])} \in SUBSET (DOMAIN r.samples)
    OBVIOUS
  <2>2. IsFiniteSet({i \in DOMAIN r.samples : MissedSlot(r.samples[i])})
    BY <1>2, <2>1, FS_Subset
  <2> QED
    BY <2>2, FS_CardinalityType DEF Missed
<1>11. total - n = (total - n - Missed(r.samples)) + Missed(r.samples)
  BY <1>2, <1>10
<1>12. Len(SamplesCsv(a)) = total
  <2>1. DOMAIN Samples(a) = 1 .. total
    BY <1>0, <1>2, SlotViews
  <2>2. DOMAIN SamplesCsv(a) = 1 .. total
    BY <2>1 DEF SamplesCsv
  <2> QED
    BY <1>2, <2>2
<1>13. {plot.lines[k] : k \in DOMAIN plot.lines \cap {"mean_current"}} = {row.mean} \ {NoTime}
  <2>1. CASE s = Null
    BY <1>3, <1>6, <2>1
  <2>2. CASE s # Null
    <3>1. "mean_current" \in LineKeys /\ "mean_current" \in StatisticsKeys
      BY DEF LineKeys, StatisticsKeys
    <3>2. s.mean_current \in Nat /\ s.mean_current # NoTime
      BY <1>7, <2>2, <3>1 DEF NoTime
    <3>3. DOMAIN plot.lines \cap {"mean_current"} = {"mean_current"} /\ plot.lines["mean_current"] = s.mean_current
      BY <1>6, <2>2, <3>1
    <3> QED
      BY <1>3, <2>2, <3>2, <3>3
  <2> QED
    BY <2>1, <2>2
<1>14. \A i \in DOMAIN plot.failures :
         plot.failures[i] \in (plot.span[1] .. plot.span[2]) \X {row.mean, 0}
  <2> TAKE i \in DOMAIN plot.failures
  <2>1. PICK x, y : plot.failures[i] = <<x, y>> /\ x = series.failures[i][1]
                    /\ y = IF s = Null THEN 0 ELSE s.mean_current
    BY <1>6
  <2>2. x \in plot.span[1] .. plot.span[2]
    BY <1>5, <1>6, <2>1
  <2>3. y \in {row.mean, 0}
    BY <1>3, <2>1
  <2>4. PICK span, heights : span = plot.span[1] .. plot.span[2] /\ heights = {row.mean, 0}
    OBVIOUS
  <2>5. <<x, y>> \in span \X heights
    BY <2>2, <2>3, <2>4
  <2> QED
    BY <2>1, <2>4, <2>5, Zenon
<1>15. \A i \in DOMAIN plot.readings :
         plot.readings[i][2] \in plot.lines.minimum_current .. plot.lines.maximum_current
  <2> TAKE i \in DOMAIN plot.readings
  <2>1. PICK j \in ok : plot.readings[i][2] = r.samples[j].result.current
    BY <1>5, <1>6, ZenonT(60)
  <2>2. s # Null
    BY <1>8, <2>1
  <2>3. {"minimum_current", "maximum_current"} \subseteq LineKeys \cap StatisticsKeys
    BY DEF LineKeys, StatisticsKeys
  <2>4. plot.lines.minimum_current = s.minimum_current /\ plot.lines.maximum_current = s.maximum_current
    BY <1>6, <2>2, <2>3
  <2>5. s.minimum_current \in Nat /\ s.maximum_current \in Nat
    BY <1>7, <2>2, <2>3
  <2>6. r.samples[j].result.current \in Int
    <3>1. j \in DOMAIN r.samples
      BY <1>2, <2>1
    <3>2. r.samples[j].result \in ArchivedMeasurement
      BY <1>0, <3>1, SampleFacts
    <3> QED
      BY <3>2 DEF ArchivedMeasurement, NoTime
  <2> QED
    BY <1>7, <2>1, <2>2, <2>4, <2>5, <2>6
<1>16. /\ \A i \in DOMAIN r.samples :
            r.samples[i].result.status # "SUCCESS" <=>
              \E code \in ErrorCode : <<i - 1, code>> \in d.errors
       /\ d.errors = {} <=> r.errors = {} /\ ok = DOMAIN r.samples
  <2>1. PICK errors : errors = ErrorLines(a)
    OBVIOUS
  <2>2. /\ \A i \in DOMAIN r.samples :
             r.samples[i].result.status # "SUCCESS" <=>
               \E code \in ErrorCode : <<i - 1, code>> \in errors
        /\ errors = {} <=> r.errors = {} /\ ok = DOMAIN r.samples
    BY <1>0, <2>1, ErrorFacts
  <2>3. d.errors = errors
    BY <1>4, <2>1
  <2> QED
    BY <2>2, <2>3
<1>17. StatusAccepts(r.status, r.count, r.samples, r.errors)
  BY <1>0, RunFacts DEF RunAccepts, WindowAccepts, SamplingResultAccepts
<1>18. row.status = "SUCCESS" <=> d.errors = {} /\ n = r.count
  <2>1. r.status = "SUCCESS" => total = r.count /\ r.errors = {} /\ ok = DOMAIN r.samples
    BY <1>0, <1>17 DEF StatusAccepts, HasFailures
  <2>2. r.errors = {} /\ ok = DOMAIN r.samples => r.status = "SUCCESS"
    BY <1>0, <1>17 DEF StatusAccepts, HasFailures
  <2>3. ok = DOMAIN r.samples => n = total
    BY <1>0, <1>2
  <2>4. row.status = r.status
    BY <1>3
  <2>5. d.errors = {} <=> r.errors = {} /\ ok = DOMAIN r.samples
    BY <1>16
  <2> QED
    BY <2>1, <2>2, <2>3, <2>4, <2>5
<1>19. \A i \in DOMAIN d.samples :
         d.samples[i].status # "SUCCESS" <=>
           \E code \in ErrorCode : <<d.samples[i].index, code>> \in d.errors
  BY <1>4, <1>16, ZenonT(60)
<1>20. n + (total - n) = total
  BY <1>2
<1>21. /\ Len(d.plot.readings) = d.cards.samples[1]
       /\ Len(d.plot.readings) + Len(d.plot.failures) = d.statistics.recorded
       /\ Len(d.plot.failures) = d.statistics.excluded
       /\ d.statistics.excluded = d.statistics.failed + d.statistics.missed
  BY <1>4, <1>5, <1>6, <1>9, <1>11, <1>20
<1>22. /\ Len(SamplesCsv(d.json.analysis)) = row.samples[2]
       /\ row.status = "SUCCESS" <=> d.errors = {} /\ Len(d.plot.readings) = d.statistics.planned
  BY <1>3, <1>4, <1>5, <1>6, <1>12, <1>18
<1>23. {d.plot.lines[k] : k \in DOMAIN d.plot.lines \cap {"mean_current"}} = {row.mean} \ {NoTime}
  BY <1>4, <1>13
<1>24. \A i \in DOMAIN d.plot.failures :
         d.plot.failures[i] \in (d.plot.span[1] .. d.plot.span[2]) \X {row.mean, 0}
  BY <1>4, <1>14
<1>25. \A i \in DOMAIN d.plot.readings :
         d.plot.readings[i][2] \in d.plot.lines.minimum_current .. d.plot.lines.maximum_current
  BY <1>4, <1>15
<1>26. Consistent(d, row)
  BY <1>19, <1>21, <1>22, <1>23, <1>24, <1>25 DEF Consistent
<1>27. Consistent(Details[results.detail], Rows[results.detail])
  BY <1>0, <1>26
<1> QED
  BY <1>27 DEF DetailAgrees, Consistent

-----------------------------------------------------------------------------
(* The comparison.                                                         *)

(* The members of a sequence with one more before it. *)
LEMMA OneBefore ==
  ASSUME NEW S, NEW x \in S, NEW t \in Seq(S)
  PROVE  /\ Len(t) \in Nat /\ DOMAIN (<<x>> \o t) = 1 .. Len(t) + 1
         /\ Len(<<x>> \o t) = Len(t) + 1 /\ <<x>> \o t \in Seq(S)
         /\ (<<x>> \o t)[1] = x
         /\ \A j \in 1 .. Len(t) : (<<x>> \o t)[j + 1] = t[j]
OBVIOUS

(* What an entry of the comparison says of run id. *)
EntryOf(e, id) ==
  /\ e.run_id = id
  /\ e.ammeter = Runs[id].result.ammeter /\ e.status = Runs[id].result.status
  /\ e.statistics = DocumentOf[id].analysis.statistics

CandidateEntry(e, id, baseline) ==
  /\ EntryOf(e, id) /\ e.is_baseline = FALSE
  /\ e.deltas = Deltas(StatisticsOf[baseline], StatisticsOf[id])
  /\ e.comparable[1] = (Runs[id].result.ammeter = Runs[baseline].result.ammeter)

(* The entries of a comparison's view, baseline first. *)
LEMMA ViewFacts ==
  ASSUME NEW b \in RunIds, NEW cs \in Seq(RunIds)
  PROVE  LET view == ComparisonView(ComparisonDocument(HistoricalComparison(b, cs)))
         IN  /\ DOMAIN view = 1 .. Len(cs) + 1 /\ Len(view) = Len(cs) + 1
             /\ \E P : view \in Seq(P)
             /\ EntryOf(view[1], b) /\ view[1].is_baseline = TRUE /\ view[1].deltas = Null
             /\ \A j \in 1 .. Len(cs) : CandidateEntry(view[j + 1], cs[j], b)
<1>0. PICK c : c = HistoricalComparison(b, cs)
  OBVIOUS
<1>1. PICK document : document = ComparisonDocument(c)
  OBVIOUS
<1>2. PICK n \in Nat : n = Len(cs) /\ DOMAIN cs = 1 .. n
  OBVIOUS
<1>3. PICK head : head = ComparisonEntry(document.baseline, TRUE, Null, <<>>)
  OBVIOUS
<1>4. PICK tail : tail = [i \in DOMAIN document.candidates |->
                           LET e == document.candidates[i]
                           IN  ComparisonEntry(e.archived_run, FALSE, e.statistics_delta,
                                               <<e.same_ammeter_type, e.same_sampling_settings>>)]
  OBVIOUS
<1>5. ComparisonView(document) = <<head>> \o tail
  BY <1>3, <1>4 DEF ComparisonView
<1>6. /\ c.baseline = b /\ c.candidates = cs
      /\ c.deltas = [i \in DOMAIN cs |-> Deltas(StatisticsOf[b], StatisticsOf[cs[i]])]
      /\ c.same_ammeter_types =
           [i \in DOMAIN cs |-> Runs[cs[i]].result.ammeter = Runs[b].result.ammeter]
  BY <1>0 DEF HistoricalComparison
<1>7. /\ document.baseline = DocumentOf[b]
      /\ document.candidates = [i \in DOMAIN cs |->
           [archived_run           |-> DocumentOf[cs[i]],
            statistics_delta       |-> c.deltas[i],
            same_ammeter_type      |-> c.same_ammeter_types[i],
            same_sampling_settings |-> c.same_sampling_settings[i]]]
  BY <1>1, <1>6 DEF ComparisonDocument
<1>8. \A id \in RunIds :
        /\ DocumentOf[id].run_id = id
        /\ DocumentOf[id].analysis.ammeter_type = Runs[id].result.ammeter
        /\ DocumentOf[id].analysis.status = Runs[id].result.status
  BY DocumentFacts
<1>9. EntryOf(head, b) /\ head.is_baseline = TRUE /\ head.deltas = Null
  BY <1>3, <1>7, <1>8 DEF ComparisonEntry, EntryOf
<1>10. DOMAIN tail = 1 .. n
  BY <1>2, <1>4, <1>7
<1>11. ASSUME NEW j \in 1 .. n
       PROVE  CandidateEntry(tail[j], cs[j], b)
  <2>1. cs[j] \in RunIds
    BY <1>2
  <2>2. PICK e : e = document.candidates[j]
    OBVIOUS
  <2>3. /\ e.archived_run = DocumentOf[cs[j]]
        /\ e.statistics_delta = Deltas(StatisticsOf[b], StatisticsOf[cs[j]])
        /\ e.same_ammeter_type = (Runs[cs[j]].result.ammeter = Runs[b].result.ammeter)
    BY <1>2, <1>6, <1>7, <2>2
  <2>4. tail[j] = ComparisonEntry(e.archived_run, FALSE, e.statistics_delta,
                                  <<e.same_ammeter_type, e.same_sampling_settings>>)
    BY <1>2, <1>4, <1>7, <2>2
  <2>5. PICK t, x : t = tail[j] /\ x = e.same_ammeter_type
    OBVIOUS
  <2>6. /\ t.run_id = DocumentOf[cs[j]].run_id /\ t.is_baseline = FALSE
        /\ t.ammeter = DocumentOf[cs[j]].analysis.ammeter_type
        /\ t.status = DocumentOf[cs[j]].analysis.status
        /\ t.statistics = DocumentOf[cs[j]].analysis.statistics
        /\ t.deltas = e.statistics_delta /\ t.comparable = <<x, e.same_sampling_settings>>
    BY <2>3, <2>4, <2>5 DEF ComparisonEntry
  <2>7. t.comparable[1] = x
    BY <2>6
  <2> QED
    BY <1>8, <2>1, <2>3, <2>5, <2>6, <2>7 DEF CandidateEntry, EntryOf
<1>12. PICK P : P = {head} \cup {tail[j] : j \in 1 .. n}
  OBVIOUS
<1>13. head \in P /\ tail \in Seq(P) /\ Len(tail) = n
  <2>1. \A j \in 1 .. n : tail[j] \in P
    BY <1>12
  <2>2. tail = [j \in 1 .. n |-> tail[j]]
    BY <1>4, <1>10
  <2> QED
    BY <1>12, <2>1, <2>2
<1>14. PICK view : view = <<head>> \o tail
  OBVIOUS
<1>15. /\ DOMAIN view = 1 .. n + 1 /\ Len(view) = n + 1 /\ view \in Seq(P)
       /\ view[1] = head /\ \A j \in 1 .. n : view[j + 1] = tail[j]
  BY <1>13, <1>14, OneBefore
<1>16. \A j \in 1 .. n : CandidateEntry(view[j + 1], cs[j], b)
  BY <1>11, <1>15
<1>17. ComparisonView(ComparisonDocument(HistoricalComparison(b, cs))) = view
  BY <1>0, <1>1, <1>5, <1>14
<1> QED
  BY <1>2, <1>9, <1>15, <1>16, <1>17

(* The values the Compare page may show of a run. *)

Differences(id, baseline, metric) ==
  {v - w : v \in Value(id, metric), w \in Value(baseline, metric)}

(* The same, place by place. *)
LEMMA ViewPlaces ==
  ASSUME NEW b \in RunIds, NEW cs \in Seq(RunIds)
  PROVE  LET view == ComparisonView(ComparisonDocument(HistoricalComparison(b, cs)))
             ids == <<b>> \o cs
         IN  /\ DOMAIN view = DOMAIN ids /\ DOMAIN ids = 1 .. Len(view)
             /\ Len(view) \in Nat /\ Len(view) = Len(ids)
             /\ (\E P : view \in Seq(P)) /\ 1 \in DOMAIN ids
             /\ ids \in Seq(RunIds) /\ ids[1] = b
             /\ \A i \in DOMAIN ids :
                  /\ EntryOf(view[i], ids[i]) /\ ids[i] \in RunIds
                  /\ view[i].is_baseline <=> i = 1
                  /\ i = 1 => view[i].deltas = Null
                  /\ i # 1 => /\ i > 1
                              /\ view[i].deltas = Deltas(StatisticsOf[b], StatisticsOf[ids[i]])
                              /\ view[i].comparable[1] =
                                   (Runs[ids[i]].result.ammeter = Runs[b].result.ammeter)
<1> PICK view : view = ComparisonView(ComparisonDocument(HistoricalComparison(b, cs)))
  OBVIOUS
<1> PICK ids : ids = <<b>> \o cs
  OBVIOUS
<1>1. PICK n \in Nat : n = Len(cs)
  OBVIOUS
<1>2. /\ DOMAIN view = 1 .. n + 1 /\ Len(view) = n + 1 /\ (\E P : view \in Seq(P))
      /\ EntryOf(view[1], b) /\ view[1].is_baseline = TRUE /\ view[1].deltas = Null
      /\ \A j \in 1 .. n : CandidateEntry(view[j + 1], cs[j], b)
  BY <1>1, ViewFacts
<1>3. /\ DOMAIN ids = 1 .. n + 1 /\ Len(ids) = n + 1 /\ ids \in Seq(RunIds) /\ ids[1] = b
      /\ \A j \in 1 .. n : ids[j + 1] = cs[j]
  BY <1>1, OneBefore
<1>4. ASSUME NEW i \in 1 .. n + 1
      PROVE  /\ EntryOf(view[i], ids[i]) /\ ids[i] \in RunIds
             /\ view[i].is_baseline <=> i = 1
             /\ i = 1 => view[i].deltas = Null
             /\ i # 1 => /\ i > 1
                         /\ view[i].deltas = Deltas(StatisticsOf[b], StatisticsOf[ids[i]])
                         /\ view[i].comparable[1] =
                              (Runs[ids[i]].result.ammeter = Runs[b].result.ammeter)
  <2>1. CASE i = 1
    BY <1>2, <1>3, <2>1
  <2>2. CASE i # 1
    <3>1. PICK j \in 1 .. n : i = j + 1
      <4>1. i - 1 \in 1 .. n /\ i = (i - 1) + 1
        BY <1>1, <2>2
      <4> QED
        BY <4>1
    <3>2. CandidateEntry(view[i], ids[i], b)
      BY <1>2, <1>3, <3>1
    <3>3. i > 1 /\ cs[j] \in RunIds /\ ids[i] = cs[j]
      BY <1>1, <1>3, <3>1
    <3> QED
      BY <2>2, <3>2, <3>3 DEF CandidateEntry
  <2> QED
    BY <2>1, <2>2
<1>5. 1 \in 1 .. n + 1
  BY <1>1
<1> QED
  BY <1>2, <1>3, <1>4, <1>5

(* Where both have statistics a delta has every metric. *)
LEMMA DeltaFacts ==
  ASSUME NEW id \in RunIds, NEW b \in RunIds, NEW metric \in StatisticsKeys
  PROVE  LET deltas == Deltas(StatisticsOf[b], StatisticsOf[id])
             shown == IF deltas = Null THEN <<>> ELSE <<deltas[metric]>>
         IN  ToSet(shown) = Differences(id, b, metric)
<1>1. PICK s, t : s = StatisticsOf[b] /\ t = StatisticsOf[id]
  OBVIOUS
<1>2. PICK deltas : deltas = Deltas(s, t)
  OBVIOUS
<1>3. CASE s = Null \/ t = Null
  <2>1. deltas = Null
    BY <1>2, <1>3 DEF Deltas
  <2>2. Differences(id, b, metric) = {}
    BY <1>1, <1>3 DEF Differences, Value
  <2>3. ToSet(<<>>) = {}
    BY DEF ToSet
  <2> QED
    BY <1>1, <1>2, <2>1, <2>2, <2>3
<1>4. CASE s # Null /\ t # Null
  <2>1. DOMAIN s = StatisticsKeys
    BY <1>1, <1>4, StatisticsFacts
  <2>2. deltas = [k \in StatisticsKeys |-> t[k] - s[k]]
    BY <1>2, <1>4, <2>1 DEF Deltas
  <2>3. "measurements_count" \in DOMAIN deltas /\ "measurements_count" \notin DOMAIN Null
    BY <2>2 DEF StatisticsKeys, Null
  <2>4. deltas # Null /\ deltas[metric] = t[metric] - s[metric]
    BY <2>2, <2>3
  <2>5. Differences(id, b, metric) = {t[metric] - s[metric]}
    BY <1>1, <1>4 DEF Differences, Value
  <2>6. \A x : ToSet(<<x>>) = {x}
    BY DEF ToSet
  <2> QED
    BY <1>1, <1>2, <2>4, <2>5, <2>6
<1> QED
  BY <1>3, <1>4

ViewOf(b, cs) == ComparisonView(ComparisonDocument(HistoricalComparison(b, cs)))
SeriesOf(b, cs, metric) == MetricSeries(ViewOf(b, cs), metric)
TableOf(b, cs, metric) == ComparisonRows(ViewOf(b, cs), SeriesOf(b, cs, metric))
IdsOf(b, cs) == <<b>> \o cs

(* What the chart and the table say of the run in place i. *)
PlaceTells(series, table, ids, i, b, metric) ==
  LET s == StatisticsOf[ids[i]] IN
  /\ ids[i] \in RunIds
  /\ series[i].run_id = ids[i]
  /\ series[i].value = IF s = Null THEN NoTime ELSE s[metric]
  /\ table[i].run_id = ids[i] /\ (table[i].is_baseline <=> i = 1)
  /\ table[i].ammeter = Runs[ids[i]].result.ammeter
  /\ table[i].status = Runs[ids[i]].result.status
  /\ table[i].count = IF s = Null THEN NoTime ELSE s.measurements_count
  /\ table[i].mean = IF s = Null THEN NoTime ELSE s.mean_current
  /\ table[i].deviation = IF s = Null THEN NoTime ELSE s.standard_deviation_current
  /\ table[i].delta = IF i = 1 THEN {} ELSE Differences(ids[i], b, metric)
  /\ i # 1 => table[i].comparable[1] =
                (Runs[ids[i]].result.ammeter = Runs[b].result.ammeter)

(* The chart and the table, place by place. *)
LEMMA ComparisonFacts ==
  ASSUME NEW b \in RunIds, NEW cs \in Seq(RunIds), NEW metric \in StatisticsKeys,
         IsInjective(IdsOf(b, cs))
  PROVE  /\ DOMAIN SeriesOf(b, cs, metric) = DOMAIN IdsOf(b, cs)
         /\ DOMAIN TableOf(b, cs, metric) = DOMAIN IdsOf(b, cs)
         /\ \E P : SeriesOf(b, cs, metric) \in Seq(P)
         /\ \A i \in DOMAIN IdsOf(b, cs) :
              PlaceTells(SeriesOf(b, cs, metric), TableOf(b, cs, metric), IdsOf(b, cs), i, b, metric)
<1>0. PICK view, series, table, ids :
        /\ view = ViewOf(b, cs) /\ series = SeriesOf(b, cs, metric)
        /\ table = TableOf(b, cs, metric) /\ ids = IdsOf(b, cs)
  OBVIOUS
<1>1. /\ DOMAIN view = DOMAIN ids /\ DOMAIN ids = 1 .. Len(view) /\ Len(view) \in Nat
      /\ \A i \in DOMAIN ids :
           /\ EntryOf(view[i], ids[i]) /\ ids[i] \in RunIds
           /\ view[i].is_baseline <=> i = 1
           /\ i = 1 => view[i].deltas = Null
           /\ i # 1 => /\ i > 1
                       /\ view[i].deltas = Deltas(StatisticsOf[b], StatisticsOf[ids[i]])
                       /\ view[i].comparable[1] =
                            (Runs[ids[i]].result.ammeter = Runs[b].result.ammeter)
  BY <1>0, ViewPlaces DEF ViewOf, IdsOf
<1>2. \A i, j \in DOMAIN ids : ids[i] = ids[j] => i = j
  BY <1>0 DEF IsInjective
<1>3. series = [i \in DOMAIN ids |->
                 [run_id |-> view[i].run_id, is_baseline |-> view[i].is_baseline,
                  value |-> Shown(view[i].statistics, metric),
                  delta |-> IF view[i].deltas = Null THEN <<>> ELSE <<view[i].deltas[metric]>>]]
  BY <1>0, <1>1 DEF SeriesOf, MetricSeries
<1>4. DOMAIN series = DOMAIN ids /\ \E P : series \in Seq(P)
  <2>1. PICK n \in Nat : DOMAIN ids = 1 .. n
    BY <1>1
  <2>2. PICK P : P = {series[i] : i \in 1 .. n}
    OBVIOUS
  <2>3. DOMAIN series = 1 .. n /\ series = [i \in 1 .. n |-> series[i]]
    BY <1>3, <2>1
  <2>4. series \in Seq(P)
    BY <2>2, <2>3
  <2> QED
    BY <2>1, <2>3, <2>4
<1>5. ASSUME NEW i \in DOMAIN ids
      PROVE  /\ series[i].run_id = ids[i]
             /\ series[i].value = IF StatisticsOf[ids[i]] = Null THEN NoTime
                                  ELSE StatisticsOf[ids[i]][metric]
             /\ series[i].delta = IF view[i].deltas = Null THEN <<>>
                                  ELSE <<view[i].deltas[metric]>>
  <2>1. /\ view[i].run_id = ids[i] /\ ids[i] \in RunIds
        /\ view[i].statistics = DocumentOf[ids[i]].analysis.statistics
    BY <1>1 DEF EntryOf
  <2>2. Shown(view[i].statistics, metric) = IF StatisticsOf[ids[i]] = Null THEN NoTime
                                            ELSE StatisticsOf[ids[i]][metric]
    BY <2>1, ShownFacts
  <2>3. /\ series[i].run_id = view[i].run_id
        /\ series[i].value = Shown(view[i].statistics, metric)
        /\ series[i].delta = IF view[i].deltas = Null THEN <<>> ELSE <<view[i].deltas[metric]>>
    BY <1>3
  <2> QED
    BY <2>1, <2>2, <2>3
<1>6. ASSUME NEW i \in DOMAIN ids
      PROVE  UNION {ToSet(e.delta) : e \in {e \in ToSet(series) : e.run_id = ids[i]}} =
               ToSet(series[i].delta)
  <2>1. ToSet(series) = {series[j] : j \in DOMAIN ids}
    BY <1>4 DEF ToSet
  <2>3. \A j \in DOMAIN ids : series[j].run_id = ids[i] => j = i
    <3> TAKE j \in DOMAIN ids
    <3>1. series[j].run_id = ids[j]
      BY <1>5
    <3> QED
      BY <1>2, <3>1
  <2>4. series[i].run_id = ids[i]
    BY <1>5
  <2>2. {e \in ToSet(series) : e.run_id = ids[i]} = {series[i]}
    BY <2>1, <2>3, <2>4
  <2> QED
    BY <2>2
<1>7. ASSUME NEW i \in DOMAIN ids, i # 1
      PROVE  ToSet(series[i].delta) = Differences(ids[i], b, metric)
  <2>1. PICK deltas : deltas = Deltas(StatisticsOf[b], StatisticsOf[ids[i]])
    OBVIOUS
  <2>2. series[i].delta = IF deltas = Null THEN <<>> ELSE <<deltas[metric]>>
    BY <1>1, <1>5, <1>7, <2>1
  <2>3. ToSet(IF deltas = Null THEN <<>> ELSE <<deltas[metric]>>) = Differences(ids[i], b, metric)
    BY <1>1, <2>1, DeltaFacts
  <2> QED
    BY <2>2, <2>3
<1>8. table = [i \in DOMAIN ids |->
               LET entry == view[i] IN
               [run_id |-> entry.run_id, is_baseline |-> entry.is_baseline,
                ammeter |-> entry.ammeter, status |-> entry.status,
                count |-> Shown(entry.statistics, "measurements_count"),
                mean  |-> Shown(entry.statistics, "mean_current"),
                deviation  |-> Shown(entry.statistics, "standard_deviation_current"),
                delta      |-> IF entry.is_baseline THEN {}
                               ELSE UNION {ToSet(e.delta) :
                                             e \in {e \in ToSet(series) : e.run_id = entry.run_id}},
                comparable |-> entry.comparable]]
  BY <1>0, <1>1, SMTT(60) DEF TableOf, ComparisonRows
<1>9. ASSUME NEW i \in DOMAIN ids
      PROVE  /\ table[i].run_id = ids[i] /\ (table[i].is_baseline <=> i = 1)
             /\ table[i].ammeter = Runs[ids[i]].result.ammeter
             /\ table[i].status = Runs[ids[i]].result.status
             /\ table[i].count = IF StatisticsOf[ids[i]] = Null THEN NoTime
                                 ELSE StatisticsOf[ids[i]].measurements_count
             /\ table[i].mean = IF StatisticsOf[ids[i]] = Null THEN NoTime
                                ELSE StatisticsOf[ids[i]].mean_current
             /\ table[i].deviation = IF StatisticsOf[ids[i]] = Null THEN NoTime
                                     ELSE StatisticsOf[ids[i]].standard_deviation_current
             /\ table[i].delta = IF i = 1 THEN {} ELSE Differences(ids[i], b, metric)
             /\ i # 1 => table[i].comparable[1] =
                           (Runs[ids[i]].result.ammeter = Runs[b].result.ammeter)
  <2>1. PICK entry, row, id : entry = view[i] /\ row = table[i] /\ id = ids[i]
    OBVIOUS
  <2>2. PICK found : found = UNION {ToSet(e.delta) : e \in {e \in ToSet(series) : e.run_id = entry.run_id}}
    OBVIOUS
  <2>3. row = [run_id |-> entry.run_id, is_baseline |-> entry.is_baseline,
               ammeter |-> entry.ammeter, status |-> entry.status,
               count |-> Shown(entry.statistics, "measurements_count"),
               mean  |-> Shown(entry.statistics, "mean_current"),
               deviation  |-> Shown(entry.statistics, "standard_deviation_current"),
               delta      |-> IF entry.is_baseline THEN {} ELSE found,
               comparable |-> entry.comparable]
    BY <1>8, <2>1, <2>2
  <2>4. /\ id \in RunIds /\ entry.run_id = id /\ (entry.is_baseline <=> i = 1)
        /\ entry.ammeter = Runs[id].result.ammeter /\ entry.status = Runs[id].result.status
        /\ entry.statistics = DocumentOf[id].analysis.statistics
        /\ i # 1 => entry.comparable[1] = (Runs[id].result.ammeter = Runs[b].result.ammeter)
    BY <1>1, <2>1 DEF EntryOf
  <2>5. {"measurements_count", "mean_current", "standard_deviation_current"} \subseteq StatisticsKeys
    BY DEF StatisticsKeys
  <2>6. \A k \in StatisticsKeys :
          Shown(entry.statistics, k) = IF StatisticsOf[id] = Null THEN NoTime ELSE StatisticsOf[id][k]
    BY <2>4, ShownFacts
  <2>7. i # 1 => found = Differences(id, b, metric)
    BY <1>6, <1>7, <2>1, <2>2, <2>4
  <2>8. /\ row.run_id = entry.run_id /\ row.is_baseline = entry.is_baseline
        /\ row.ammeter = entry.ammeter /\ row.status = entry.status
        /\ row.count = Shown(entry.statistics, "measurements_count")
        /\ row.mean = Shown(entry.statistics, "mean_current")
        /\ row.deviation = Shown(entry.statistics, "standard_deviation_current")
        /\ row.delta = (IF entry.is_baseline THEN {} ELSE found)
        /\ row.comparable = entry.comparable
    BY <2>3
  <2> QED
    BY <2>1, <2>4, <2>5, <2>6, <2>7, <2>8
<1>10. DOMAIN table = DOMAIN ids
  BY <1>8
<1>11. \A i \in DOMAIN ids : PlaceTells(series, table, ids, i, b, metric)
  BY <1>1, <1>5, <1>9 DEF PlaceTells
<1> QED
  BY <1>0, <1>4, <1>10, <1>11

(* What is remembered of a comparison, and what may be chosen for the next. *)
ComparisonInv(c) ==
  /\ c.rows \in Seq(RunIds) /\ c.baseline \in RunIds \cup {NoRun}
  /\ c.metric \in StatisticsKeys
  /\ c.comparison # NoComparison =>
       /\ c.shown = c.metric
       /\ \E b \in RunIds, cs \in Seq(RunIds) :
            IsInjective(IdsOf(b, cs)) /\ c.comparison = HistoricalComparison(b, cs)

(* The chart has a bar for every run with statistics. *)
LEMMA ChartHolds ==
  ASSUME NEW b \in RunIds, NEW cs \in Seq(RunIds), NEW metric \in StatisticsKeys,
         IsInjective(IdsOf(b, cs))
  PROVE  {<<bar.run_id, bar.value>> : bar \in ToSet(Bars(SeriesOf(b, cs, metric)))} =
           UNION {{row.run_id} \X Value(row.run_id, metric) : row \in ToSet(TableOf(b, cs, metric))}
<1>1. PICK series, table, ids :
        /\ series = SeriesOf(b, cs, metric) /\ table = TableOf(b, cs, metric) /\ ids = IdsOf(b, cs)
  OBVIOUS
<1>2. /\ DOMAIN series = DOMAIN ids /\ DOMAIN table = DOMAIN ids
      /\ \E P : series \in Seq(P)
      /\ \A i \in DOMAIN ids : PlaceTells(series, table, ids, i, b, metric)
  BY <1>1, ComparisonFacts
<1>3. \A i \in DOMAIN ids :
        /\ series[i].run_id = ids[i] /\ table[i].run_id = ids[i] /\ ids[i] \in RunIds
        /\ series[i].value = IF StatisticsOf[ids[i]] = Null THEN NoTime
                             ELSE StatisticsOf[ids[i]][metric]
  BY <1>2 DEF PlaceTells
<1>4. PICK places : places = {i \in DOMAIN series : series[i].value # NoTime}
  OBVIOUS
<1>5. PICK bars : bars = Picked(series, places)
  OBVIOUS
<1>6. /\ DOMAIN bars = 1 .. Len(bars)
      /\ \A k \in DOMAIN bars : \E i \in places : bars[k] = series[i]
      /\ \A i \in places : \E k \in DOMAIN bars : bars[k] = series[i]
  <2>1. PICK P : series \in Seq(P)
    BY <1>2
  <2>2. places \in SUBSET (DOMAIN series)
    BY <1>4
  <2>3. /\ bars \in Seq(P)
        /\ \A k \in 1 .. Len(bars) : \E i \in places : bars[k] = series[i]
        /\ \A i \in places : \E k \in 1 .. Len(bars) : bars[k] = series[i]
    BY <1>5, <2>1, <2>2, PickedMembers
  <2> QED
    BY <2>3, SMTT(60)
<1>7. ToSet(bars) = {series[i] : i \in places}
  BY <1>6 DEF ToSet
<1>8. \A i \in DOMAIN ids : i \in places <=> StatisticsOf[ids[i]] # Null
  <2> TAKE i \in DOMAIN ids
  <2>1. StatisticsOf[ids[i]] # Null => StatisticsOf[ids[i]][metric] \in Nat
    BY <1>3, StatisticsFacts
  <2> QED
    BY <1>2, <1>3, <1>4, <2>1 DEF NoTime
<1>9. ToSet(table) = {table[i] : i \in DOMAIN ids}
  BY <1>2 DEF ToSet
<1>10. \A i \in DOMAIN ids :
         {ids[i]} \X Value(ids[i], metric) =
           IF i \in places THEN {<<ids[i], series[i].value>>} ELSE {}
  <2> TAKE i \in DOMAIN ids
  <2>1. CASE i \in places
    <3>1. Value(ids[i], metric) = {series[i].value}
      BY <1>3, <1>8, <2>1 DEF Value
    <3> QED
      BY <2>1, <3>1
  <2>2. CASE i \notin places
    <3>1. Value(ids[i], metric) = {}
      BY <1>8, <2>2 DEF Value
    <3> QED
      BY <2>2, <3>1
  <2> QED
    BY <2>1, <2>2
<1>11. {<<bar.run_id, bar.value>> : bar \in ToSet(bars)} = {<<ids[i], series[i].value>> : i \in places}
  <2>1. \A i \in places : series[i].run_id = ids[i]
    BY <1>2, <1>3, <1>4
  <2> QED
    BY <1>7, <2>1
<1>12. UNION {{row.run_id} \X Value(row.run_id, metric) : row \in ToSet(table)} =
         UNION {{ids[i]} \X Value(ids[i], metric) : i \in DOMAIN ids}
  BY <1>3, <1>9
<1>13. UNION {{ids[i]} \X Value(ids[i], metric) : i \in DOMAIN ids} =
         {<<ids[i], series[i].value>> : i \in places}
  <2>1. \A i \in places : i \in DOMAIN ids
    BY <1>2, <1>4
  <2> QED
    BY <1>10, <2>1
<1>14. Bars(series) = bars
  BY <1>4, <1>5 DEF Bars
<1> QED
  BY <1>1, <1>11, <1>12, <1>13, <1>14

(* Every row of the table tells what it should. *)
LEMMA RowsHold ==
  ASSUME NEW b \in RunIds, NEW cs \in Seq(RunIds), NEW metric \in StatisticsKeys,
         IsInjective(IdsOf(b, cs)), NEW i \in DOMAIN TableOf(b, cs, metric)
  PROVE  RowTells(TableOf(b, cs, metric), i, b, metric)
<1>1. PICK series, table, ids :
        /\ series = SeriesOf(b, cs, metric) /\ table = TableOf(b, cs, metric) /\ ids = IdsOf(b, cs)
  OBVIOUS
<1>2. /\ DOMAIN table = DOMAIN ids
      /\ \A j \in DOMAIN ids : PlaceTells(series, table, ids, j, b, metric)
  BY <1>1, ComparisonFacts
<1>3. i \in DOMAIN ids /\ 1 \in DOMAIN ids /\ ids[1] = b /\ \A j \in DOMAIN ids : j \in Nat
  <2>1. DOMAIN ids = 1 .. Len(cs) + 1 /\ ids[1] = b /\ Len(cs) \in Nat
    BY <1>1, OneBefore DEF IdsOf
  <2> QED
    BY <1>1, <1>2, <2>1
<1>4. PICK id, row, s : id = ids[i] /\ row = table[i] /\ s = StatisticsOf[id]
  OBVIOUS
<1>5. /\ id \in RunIds /\ row.run_id = id /\ (row.is_baseline <=> i = 1)
      /\ row.ammeter = Runs[id].result.ammeter /\ row.status = Runs[id].result.status
      /\ row.count = IF s = Null THEN NoTime ELSE s.measurements_count
      /\ row.mean = IF s = Null THEN NoTime ELSE s.mean_current
      /\ row.deviation = IF s = Null THEN NoTime ELSE s.standard_deviation_current
      /\ row.delta = IF i = 1 THEN {} ELSE Differences(id, b, metric)
      /\ i # 1 => row.comparable[1] = (Runs[id].result.ammeter = Runs[b].result.ammeter)
  BY <1>2, <1>3, <1>4 DEF PlaceTells
<1>6. table[1].ammeter = Runs[b].result.ammeter
  BY <1>2, <1>3 DEF PlaceTells
<1>7. PICK old : old = Rows[id]
  OBVIOUS
<1>8. /\ old.ammeter = Runs[id].result.ammeter /\ old.status = Runs[id].result.status
      /\ old.samples[1] = Cardinality(SuccessfulSlots(Runs[id].result.samples))
      /\ old.mean = IF s = Null THEN NoTime ELSE s.mean_current
      /\ old.deviation = IF s = Null THEN NoTime ELSE s.standard_deviation_current
  BY <1>4, <1>5, <1>7, RowFacts
<1>9. \A k \in {"ammeter", "status", "mean", "deviation"} : row[k] = old[k]
  BY <1>5, <1>8
<1>10. row.mean # NoTime => row.count = old.samples[1]
  <2>1. s # Null => s.measurements_count = Cardinality(SuccessfulSlots(Runs[id].result.samples))
    BY <1>4, <1>5, StatisticsFacts
  <2> QED
    BY <1>5, <1>8, <2>1
<1>11. row.delta = IF i = 1 THEN {}
                   ELSE {v - w : v \in Value(row.run_id, metric), w \in Value(b, metric)}
  BY <1>5 DEF Differences
<1>12. i > 1 => row.comparable[1] = (row.ammeter = table[1].ammeter)
  BY <1>3, <1>5, <1>6
<1>13. [k \in {"ammeter", "status", "mean", "deviation"} |-> row[k]] =
       [k \in {"ammeter", "status", "mean", "deviation"} |-> old[k]]
  BY <1>9
<1>14. old = Rows[row.run_id] /\ row.is_baseline <=> i = 1
  BY <1>5, <1>7
<1>15. RowTells(table, i, b, metric)
  BY <1>4, <1>5, <1>7, <1>10, <1>11, <1>12, <1>13 DEF RowTells
<1> QED
  BY <1>1, <1>15

(* The comparison on screen is one of archived runs, each listed once.     *)
LEMMA ComparisonHolds == ComparisonInv(compare) => ComparisonAgrees
<1> SUFFICES ASSUME ComparisonInv(compare) PROVE ComparisonAgrees
  OBVIOUS
<1>a. CASE compare.comparison = NoComparison
  BY <1>a DEF ComparisonAgrees
<1> SUFFICES ASSUME compare.comparison # NoComparison PROVE ComparisonAgrees
  BY <1>a
<1>1. PICK metric \in StatisticsKeys : metric = compare.metric /\ metric = compare.shown
  BY DEF ComparisonInv
<1>2. PICK b \in RunIds, cs \in Seq(RunIds) :
        IsInjective(IdsOf(b, cs)) /\ compare.comparison = HistoricalComparison(b, cs)
  BY DEF ComparisonInv
<1>3. PICK c, series, table, ids :
        /\ c = compare.comparison /\ ids = IdsOf(b, cs)
        /\ series = SeriesOf(b, cs, metric) /\ table = TableOf(b, cs, metric)
  OBVIOUS
<1>4. c.baseline = b /\ c.candidates = cs
  BY <1>2, <1>3 DEF HistoricalComparison
<1>5. [i \in DOMAIN table |-> table[i].run_id] = <<c.baseline>> \o c.candidates
  <2>1. /\ DOMAIN table = DOMAIN ids
        /\ \A i \in DOMAIN ids : PlaceTells(series, table, ids, i, b, metric)
    BY <1>2, <1>3, ComparisonFacts
  <2>2. \A i \in DOMAIN ids : table[i].run_id = ids[i]
    BY <2>1 DEF PlaceTells
  <2>3. ids \in Seq(RunIds)
    BY <1>3, OneBefore DEF IdsOf
  <2>4. ids = [i \in DOMAIN ids |-> ids[i]]
    BY <2>3
  <2>5. [i \in DOMAIN table |-> table[i].run_id] = ids
    BY <2>1, <2>2, <2>4
  <2>6. ids = <<c.baseline>> \o c.candidates
    BY <1>3, <1>4 DEF IdsOf
  <2> QED
    BY <2>5, <2>6
<1>6. {<<bar.run_id, bar.value>> : bar \in ToSet(Bars(series))} =
        UNION {{row.run_id} \X Value(row.run_id, metric) : row \in ToSet(table)}
  BY <1>2, <1>3, ChartHolds
<1>7. \A i \in DOMAIN table : RowTells(table, i, c.baseline, metric)
  BY <1>2, <1>3, <1>4, RowsHold
<1>8. ComparisonTells(c, series, table, metric)
  BY <1>5, <1>6, <1>7 DEF ComparisonTells
<1>9. /\ series = MetricSeries(ComparisonView(ComparisonDocument(compare.comparison)), compare.shown)
      /\ table = ComparisonRows(ComparisonView(ComparisonDocument(compare.comparison)), series)
  BY <1>1, <1>2, <1>3 DEF SeriesOf, TableOf, ViewOf
<1> DEFINE View == ComparisonView(ComparisonDocument(compare.comparison))
           Series == MetricSeries(View, compare.shown)
           Table == ComparisonRows(View, Series)
<1>10. ComparisonTells(compare.comparison, Series, Table, compare.metric)
  BY <1>1, <1>3, <1>8, <1>9
<1> QED
  BY <1>10 DEF ComparisonAgrees

-----------------------------------------------------------------------------
(* What is compared is always a comparison of archived runs.               *)

ComparePage == {"rows", "baseline", "checked", "metric", "comparison", "shown", "banner"}

(* The part of ComparisonInv about the comparison on screen. *)
OnScreen(comparison, shown, metric) ==
  comparison # NoComparison =>
    /\ shown = metric
    /\ \E b \in RunIds, cs \in Seq(RunIds) :
         IsInjective(IdsOf(b, cs)) /\ comparison = HistoricalComparison(b, cs)

(* The invariant by its parts. *)
LEMMA ComparisonInvParts ==
  ASSUME NEW c
  PROVE  ComparisonInv(c) <=>
           /\ c.rows \in Seq(RunIds) /\ c.baseline \in RunIds \cup {NoRun}
           /\ c.metric \in StatisticsKeys
           /\ OnScreen(c.comparison, c.shown, c.metric)
BY DEF ComparisonInv, OnScreen

(* ComparisonInv holds initially. *)
LEMMA ComparisonInvInit == Init => ComparisonInv(compare)
<1> SUFFICES ASSUME Init PROVE ComparisonInv(compare)
  OBVIOUS
<1>1. /\ compare.rows = <<>> /\ compare.baseline = NoRun /\ compare.metric = "mean_current"
      /\ compare.comparison = NoComparison
  BY DEF Init
<1>2. <<>> \in Seq(RunIds) /\ "mean_current" \in StatisticsKeys
  BY DEF StatisticsKeys
<1>3. OnScreen(compare.comparison, compare.shown, compare.metric)
  BY <1>1 DEF OnScreen
<1> QED
  BY <1>1, <1>2, <1>3, ComparisonInvParts

(* A refresh lists archived runs and leaves the comparison on screen. *)
LEMMA CompareRefreshedKeeps ==
  ASSUME NEW c, DOMAIN c = ComparePage, ComparisonInv(c)
  PROVE  ComparisonInv(CompareRefreshed(c))
<1> DEFINE raw == [NoFilters EXCEPT !.limit = {CompareLimit}]
<1>1. RawQuery(raw)
  <2>1. CompareLimit \in 1 .. MAX_ARCHIVE_QUERY_LIMIT
    BY BrowserAssumption
  <2>2. CompareLimit \in Nat
    BY <2>1 DEF MAX_ARCHIVE_QUERY_LIMIT
  <2> QED
    BY <2>2, NoFiltersRaw DEF NoFilters, RawQuery
<1>2. FindArchivedTestRuns(raw, archive) \in Seq(RunIds)
  <2> PICK q : q = raw
    OBVIOUS
  <2>0. /\ DOMAIN q = {"ammeter", "status", "from", "until", "has_statistics", "metadata", "limit"}
        /\ q = [k \in DOMAIN q |-> q[k]] /\ q.ammeter = {} /\ q.status = {}
    BY DEF NoFilters
  <2>1. ResolveArchivedRunQuery(q) = q
    <3>1. {t.value : t \in q.ammeter} = {} /\ {t.value : t \in q.status} = {}
      BY <2>0
    <3>2. [q EXCEPT !.ammeter = {}, !.status = {}] = q
      BY <2>0
    <3> QED
      BY <3>1, <3>2 DEF ResolveArchivedRunQuery
  <2>2. FindArchivedTestRuns(ResolveArchivedRunQuery(raw), archive) \in Seq(RunIds)
    BY <1>1, FindAnswersExactly
  <2> QED
    BY <2>1, <2>2
<1>3. PICK rows : rows = IF Listable(archive) THEN FindArchivedTestRuns(raw, archive) ELSE <<>>
  OBVIOUS
<1>4. PICK baseline : baseline = IF c.baseline \in ToSet(rows) THEN c.baseline
                                 ELSE IF rows = <<>> THEN NoRun ELSE rows[1]
  OBVIOUS
<1>5. PICK t : t = CompareRefreshed(c)
  OBVIOUS
<1>6. /\ t.rows = rows /\ t.baseline = baseline /\ t.metric = c.metric
      /\ t.comparison = c.comparison /\ t.shown = c.shown
  BY <1>3, <1>4, <1>5 DEF CompareRefreshed, ComparePage
<1>7. rows \in Seq(RunIds)
  BY <1>2, <1>3
<1>8. baseline \in RunIds \cup {NoRun}
  BY <1>4, <1>7, ComparisonInvParts
<1> QED
  BY <1>5, <1>6, <1>7, <1>8, ComparisonInvParts

(* A comparison is made of the listed runs, each of them once. *)
LEMMA CompareKeeps ==
  ASSUME ComparisonInv(compare), ChoiceInv(compare), Compare
  PROVE  ComparisonInv(compare')
<1>1. /\ DOMAIN compare = ComparePage /\ compare.baseline \in RunIds
      /\ compare.rows \in Seq(RunIds) /\ compare.metric \in StatisticsKeys
  BY ComparisonInvParts DEF ChoiceInv, ComparePage, Compare
<1>2. Candidates \in Seq(RunIds)
  <2> PICK places : places = {i \in DOMAIN compare.rows : compare.rows[i] \in compare.checked}
    OBVIOUS
  <2>1. Candidates = Picked(compare.rows, places) /\ places \in SUBSET (DOMAIN compare.rows)
    BY DEF Candidates
  <2> QED
    BY <1>1, <2>1, PickedMembers
<1>3. CASE Comparable(compare.baseline, Candidates, archive)
  <2>1. IsInjective(IdsOf(compare.baseline, Candidates))
    BY <1>3 DEF Comparable, HistoricalComparisonAccepts, IdsOf
  <2>2. PICK comparison : comparison = HistoricalComparison(compare.baseline, Candidates)
    OBVIOUS
  <2>3. compare' = [compare EXCEPT !.comparison = comparison, !.shown = compare.metric,
                                   !.banner = "none"]
    BY <1>3, <2>2 DEF Compare
  <2>4. /\ compare'.rows = compare.rows /\ compare'.baseline = compare.baseline
        /\ compare'.metric = compare.metric /\ compare'.shown = compare.metric
        /\ compare'.comparison = comparison
    BY <1>1, <2>3 DEF ComparePage
  <2>5. OnScreen(compare'.comparison, compare'.shown, compare'.metric)
    BY <1>1, <1>2, <2>1, <2>2, <2>4 DEF OnScreen
  <2> QED
    BY <1>1, <2>4, <2>5, ComparisonInvParts
<1>4. CASE ~Comparable(compare.baseline, Candidates, archive)
  <2>1. compare' = [compare EXCEPT !.comparison = NoComparison, !.shown = "none",
                                   !.banner = "comparison failed"]
    BY <1>4 DEF Compare
  <2>2. /\ compare'.rows = compare.rows /\ compare'.baseline = compare.baseline
        /\ compare'.metric = compare.metric /\ compare'.comparison = NoComparison
    BY <1>1, <2>1 DEF ComparePage
  <2>3. OnScreen(compare'.comparison, compare'.shown, compare'.metric)
    BY <2>2 DEF OnScreen
  <2> QED
    BY <1>1, <2>2, <2>3, ComparisonInvParts
<1> QED
  BY <1>3, <1>4

(* The chart follows the box as long as a comparison is on screen. *)
LEMMA SetMetricKeeps ==
  ASSUME ComparisonInv(compare), ChoiceInv(compare), SetMetric
  PROVE  ComparisonInv(compare')
<1>1. ToSet(STATISTICS_METRICS) \subseteq StatisticsKeys
  BY DEF ToSet, STATISTICS_METRICS, StatisticsKeys
<1>2. DOMAIN compare = ComparePage
  BY DEF ChoiceInv, ComparePage
<1>3. PICK metric \in StatisticsKeys :
        compare' = [compare EXCEPT !.metric = metric,
                      !.shown = IF compare.comparison = NoComparison THEN compare.shown ELSE metric]
  BY <1>1 DEF SetMetric
<1>4. /\ compare'.rows = compare.rows /\ compare'.baseline = compare.baseline
      /\ compare'.metric = metric /\ compare'.comparison = compare.comparison
      /\ compare.comparison # NoComparison => compare'.shown = metric
  BY <1>2, <1>3 DEF ComparePage
<1>5. OnScreen(compare'.comparison, compare'.shown, compare'.metric)
  BY <1>4, ComparisonInvParts DEF OnScreen
<1> QED
  BY <1>4, <1>5, ComparisonInvParts

(* The other steps change at most the choices and the banner. *)
LEMMA ChoicesKeep ==
  ASSUME ComparisonInv(compare), ChoiceInv(compare),
         ChooseBaseline \/ ToggleCandidate \/ ClearCandidates \/ ExportFails
  PROVE  ComparisonInv(compare')
<1>1. DOMAIN compare = ComparePage
  BY DEF ChoiceInv, ComparePage
<1>2. compare.rows \in Seq(RunIds)
  BY ComparisonInvParts
<1>3. /\ compare'.rows = compare.rows /\ compare'.metric = compare.metric
      /\ compare'.comparison = compare.comparison /\ compare'.shown = compare.shown
      /\ compare'.baseline \in {compare.baseline} \cup RunIds
  <2>1. CASE ChooseBaseline
    <3>1. ToSet(compare.rows) \subseteq RunIds
      BY <1>2 DEF ToSet
    <3>2. PICK id \in RunIds :
            compare' = [compare EXCEPT !.baseline = id, !.checked = compare.checked \ {id}]
      BY <2>1, <3>1 DEF ChooseBaseline
    <3> QED
      BY <1>1, <3>2 DEF ComparePage
  <2>2. CASE ToggleCandidate \/ ClearCandidates
    <3>1. PICK checked : compare' = [compare EXCEPT !.checked = checked]
      BY <2>2 DEF ToggleCandidate, ClearCandidates
    <3> QED
      BY <1>1, <3>1 DEF ComparePage
  <2>3. CASE ExportFails
    <3>1. compare' = compare \/ compare' = [compare EXCEPT !.banner = "export failed"]
      BY <2>3 DEF ExportFails
    <3> QED
      BY <1>1, <3>1 DEF ComparePage
  <2> QED
    BY <2>1, <2>2, <2>3
<1> QED
  BY <1>3, ComparisonInvParts

(* Every step keeps ComparisonInv. *)
LEMMA ComparisonInvStep ==
  ASSUME BInv, ComparisonInv(compare), [Next]_vars
  PROVE  ComparisonInv(compare')
<1>1. ChoiceInv(compare)
  BY DEF BInv
<1>2. DOMAIN compare = ComparePage
  BY <1>1 DEF ChoiceInv, ComparePage
<1>3. CASE ByCompareUser
  BY <1>1, <1>3, ChoicesKeep, CompareKeeps, SetMetricKeeps DEF ByCompareUser
<1>4. CASE ByWindow
  <2>1. compare' = compare \/ compare' = CompareRefreshed(compare)
    BY <1>4 DEF ByWindow, InitialLoad, Navigate, RunCompleted, RefreshBoth
  <2> QED
    BY <1>2, <2>1, CompareRefreshedKeeps
<1>5. CASE ExportFails
  BY <1>1, <1>5, ChoicesKeep
<1>6. CASE OpenDialog \/ CancelDialog \/ Export
  <2>1. compare' = compare
    BY <1>6 DEF OpenDialog, CancelDialog, Export
  <2> QED
    BY <2>1
<1>7. CASE ByResultsUser \/ Elsewhere \/ UNCHANGED vars
  <2>1. compare' = compare
    BY <1>7, Frames
  <2> QED
    BY <2>1
<1> QED
  BY <1>3, <1>4, <1>5, <1>6, <1>7 DEF Next, ByResultsUser, ByCompareUser, ByWindow, Elsewhere

(* The plot, the cards, the sample table, the errors and the CSV of the    *)
(* selected run agree with each other and with the history, and the chart  *)
(* and the table of the Compare page show the comparison that was loaded:  *)
(* ResultsPage._show_selection, ComparePage.compare and _metric_changed.   *)
THEOREM ViewsTellTheSameStory == Spec => []ViewsAgree
<1> DEFINE Inv == ComparisonInv(compare)
<1>1. Init => Inv
  BY ComparisonInvInit
<1>2. BInv /\ Inv /\ [Next]_vars => Inv'
  BY ComparisonInvStep
<1>3. BInv /\ Inv => ViewsAgree
  BY DetailHolds, ComparisonHolds DEF BInv, ViewsAgree
<1> HIDE DEF Inv
<1> QED
  BY <1>1, <1>2, <1>3, BrowserInvariant, PTL DEF Spec
=============================================================================
