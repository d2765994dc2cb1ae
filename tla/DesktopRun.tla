----------------------------- MODULE DesktopRun ------------------------------
(***************************************************************************)
(* A sampling run of the desktop console: RunPage on the GUI thread, the    *)
(* RunWorker and DesktopRunService.execute_run on a QThread, the StopToken  *)
(* they share, and the queued signals that carry samples, stages, analyses  *)
(* and the outcome back.  A sampling window is abstracted to what the       *)
(* LiveAmmeterClient and the CancellableSleeper see of it: slots, requests, *)
(* retries and waits (SamplingRun models it in full).                       *)
(*                                                                         *)
(* An ammeter is its place in the selection of the run.                     *)
(***************************************************************************)
EXTENDS Integers, FiniteSets, Sequences, SequencesExt

CONSTANTS MaxAmmeters, \* in a selection
          Slots,       \* measurements_count of each window
          MaxAttempts, \* of the retry policy
          Faults,      \* TRUE when injected latency may sleep in a request
          MaxRuns

ASSUME DesktopAssumption ==
  /\ {MaxAmmeters, Slots, MaxAttempts, MaxRuns} \subseteq Nat \ {0}
  /\ Faults \in BOOLEAN

Ammeters == 1..MaxAmmeters

VARIABLES
  \* RunPage
  run,       \* the number of the last run started
  busy,      \* _thread is not None
  stop,      \* the StopToken of run has been requested
  window,    \* the main window: "open", "closed", or "exited" with the process
  stage,     \* _live_state[a]["stage"]
  slots,     \* ... ["slots"]
  requests,  \* ... ["requests"]
  failures,  \* ... ["failures"]
  analysed,  \* the keys of _analyses
  banner,
  inbox,     \* events posted to the GUI thread, oldest first
  \* the request of the run
  count,     \* ammeters selected
  archiving, \* archive_results
  \* RunWorker and execute_run
  wpc,
  at,        \* the ammeter of the loop in execute_run
  slot, attempt,
  index,     \* LiveAmmeterClient._index
  pending,   \* samples not flushed yet
  kept,      \* the keys of analyses
  faulty,    \* the keys of failures
  filed,     \* the keys of archived
  \* history
  archive,   \* the windows archived on disk, <<run, ammeter>>
  emitted,   \* samples of each ammeter in this run
  reached,   \* the last slot each window got to
  retried,   \* ammeters with a slot requested more than once
  lost,      \* failed_samples of each window
  unstarted, \* ammeters whose emulator did not start
  late       \* samples taken after the stop was requested

page == <<run, busy, window, stage, slots, requests, failures, analysed, banner, count, archiving>>
loop == <<at, slot, attempt, index>>
outcome == <<kept, faulty, filed, archive>>
windows == <<emitted, reached, retried, lost, unstarted, late>>
vars == <<page, stop, inbox, wpc, loop, pending, outcome, windows>>

Stages == {"queued", "sampling", "cancelled", "failed", "archiving", "done"}
Banners == {"none", "complete", "stopped", "errors", "failed"}

Each(x) == [a \in Ammeters |-> x]

Init ==
  /\ run = 0 /\ busy = FALSE /\ stop = FALSE /\ window = "open"
  /\ stage = Each("queued") /\ slots = Each(0) /\ requests = Each(0) /\ failures = Each(0)
  /\ analysed = {} /\ banner = "none" /\ inbox = <<>>
  /\ count = 1 /\ archiving = FALSE
  /\ wpc = "none" /\ at = 1 /\ slot = 1 /\ attempt = 0 /\ index = 0 /\ pending = <<>>
  /\ kept = {} /\ faulty = {} /\ filed = {} /\ archive = {}
  /\ emitted = Each(0) /\ reached = Each(0) /\ lost = Each(0)
  /\ retried = {} /\ unstarted = {} /\ late = 0

-----------------------------------------------------------------------------
(* The worker thread.  A signal it emits is an event of the GUI thread.     *)

\* Mutated form of Flushed: the list is cleared after it was posted, and with it
\* the event that shares it.
FlushedAliased == IF pending = <<>> THEN <<>> ELSE <<[kind |-> "samples", of |-> run, batch |-> <<>>]>>

(* _flush: the samples collected so far become one event.                   *)
Flushed == IF pending = <<>> THEN <<>> ELSE <<[kind |-> "samples", of |-> run, batch |-> pending]>>

Stage(a, st) == [kind |-> "stage", of |-> run, ammeter |-> a, stage |-> st]
Event(k) == [kind |-> k, of |-> run]
Analysis(a) == [kind |-> "analysis", of |-> run, ammeter |-> a]

(* Every signal but samples_ready is emitted after a flush.                 *)
Post(events) == inbox' = inbox \o Flushed \o events /\ pending' = <<>>

\* Mutated form of SetUpFails: the thread is not told to quit.
SetUpFailsForGood ==
  /\ wpc = "setup"
  /\ wpc' = "returned"
  /\ Post(<<Event("failed")>>)
  /\ UNCHANGED <<page, stop, loop, outcome, windows>>

(* execute_run builds a framework from the configuration file, which raises *)
(* when the file has become invalid.                                        *)
SetUp ==
  /\ wpc = "setup"
  /\ wpc' = "head"
  /\ UNCHANGED <<page, stop, inbox, loop, pending, outcome, windows>>

SetUpFails ==
  /\ wpc = "setup"
  /\ wpc' = "returned"
  /\ Post(<<Event("failed"), Event("quit")>>)
  /\ UNCHANGED <<page, stop, loop, outcome, windows>>

BeginWindow ==
  /\ wpc = "head" /\ at <= count /\ ~stop
  /\ wpc' = "start"
  /\ index' = 0 /\ slot' = 1 /\ attempt' = 0
  /\ Post(<<Stage(at, "sampling")>>)
  /\ UNCHANGED <<page, stop, at, outcome, windows>>

StartSucceeds ==
  /\ wpc = "start"
  /\ wpc' = "wait"
  /\ UNCHANGED <<page, stop, inbox, loop, pending, outcome, windows>>

(* A start failure still ends in an analysis, of a run without samples.     *)
StartFails ==
  /\ wpc = "start"
  /\ wpc' = "analysed"
  /\ unstarted' = unstarted \cup {at}
  /\ UNCHANGED <<page, stop, inbox, loop, pending, outcome, emitted, reached, retried, lost, late>>

\* Mutated form of Request: only sleeps look at the token.
RequestAnyway ==
  /\ wpc = "wait" /\ attempt < MaxAttempts
  /\ wpc' = "reading"
  /\ attempt' = attempt + 1
  /\ index' = index + 1
  /\ reached' = [reached EXCEPT ![at] = slot]
  /\ retried' = IF attempt > 0 THEN retried \cup {at} ELSE retried
  /\ UNCHANGED <<page, stop, inbox, at, slot, pending, outcome, emitted, lost, unstarted, late>>

(* LiveAmmeterClient looks at the token before each request.                *)
Request ==
  /\ wpc = "wait" /\ attempt < MaxAttempts /\ ~stop
  /\ wpc' = "reading"
  /\ attempt' = attempt + 1
  /\ index' = index + 1
  /\ reached' = [reached EXCEPT ![at] = slot]
  /\ retried' = IF attempt > 0 THEN retried \cup {at} ELSE retried
  /\ UNCHANGED <<page, stop, inbox, at, slot, pending, outcome, emitted, lost, unstarted, late>>

(* collect_scheduled_sample and the loop of the window go on to the next    *)
(* slot.                                                                    *)
NextSlot ==
  IF slot < Slots THEN slot' = slot + 1 /\ attempt' = 0 /\ wpc' = "wait"
                  ELSE wpc' = "window" /\ UNCHANGED <<slot, attempt>>

(* A slot is missed before its first request, or its next attempt would not *)
(* fit; only requested slots count as failed samples.                       *)
GiveUpSlot ==
  /\ wpc = "wait"
  /\ reached' = [reached EXCEPT ![at] = slot]
  /\ lost' = [lost EXCEPT ![at] = IF attempt > 0 THEN @ + 1 ELSE @]
  /\ NextSlot
  /\ UNCHANGED <<page, stop, inbox, at, index, pending, outcome, emitted, retried, unstarted, late>>

(* The request returns or raises and is streamed; _collect_sample flushes   *)
(* when its interval has passed or its batch is full.                       *)
Collect(ok) ==
  LET sample == [ammeter |-> at, index |-> index - 1, ok |-> ok] IN
  /\ \/ pending' = Append(pending, sample) /\ inbox' = inbox
     \/ /\ pending' = <<>>
        /\ inbox' = Append(inbox, [kind |-> "samples", of |-> run, batch |-> Append(pending, sample)])
  /\ emitted' = [emitted EXCEPT ![at] = @ + 1]
  /\ late' = IF stop THEN late + 1 ELSE late

Succeed ==
  /\ wpc = "reading"
  /\ Collect(TRUE)
  /\ NextSlot
  /\ UNCHANGED <<page, stop, at, index, outcome, reached, retried, lost, unstarted>>

(* A failed request, or a value that is not a finite number.                *)
Fail ==
  /\ wpc = "reading"
  /\ Collect(FALSE)
  /\ IF attempt < MaxAttempts
     THEN wpc' = "wait" /\ UNCHANGED <<slot, attempt, lost>>
     ELSE lost' = [lost EXCEPT ![at] = @ + 1] /\ NextSlot
  /\ UNCHANGED <<page, stop, at, index, outcome, reached, retried, unstarted>>

(* The window is over once its duration is, which may need no sleep.        *)
EndWindow ==
  /\ wpc = "window"
  /\ wpc' = "analysed"
  /\ UNCHANGED <<page, stop, inbox, loop, pending, outcome, windows>>

\* Mutated form of Cancel: the window so far is analysed.
CancelKeepsWindow ==
  /\ stop
  /\ wpc \in {"wait", "window"} \/ (wpc = "reading" /\ Faults)
  /\ wpc' = "analysed"
  /\ UNCHANGED <<page, stop, inbox, loop, pending, outcome, windows>>

\* Mutated form of Cancel: the stage of the ammeter is not reported.
CancelSilently ==
  /\ stop
  /\ wpc \in {"wait", "window"} \/ (wpc = "reading" /\ Faults)
  /\ wpc' = "return"
  /\ UNCHANGED <<page, stop, inbox, loop, pending, outcome, windows>>

(* RunCancelled leaves a sleep or the check before a request, or, with      *)
(* injected latency, the request.                                           *)
Cancel ==
  /\ stop
  /\ wpc \in {"wait", "window"} \/ (wpc = "reading" /\ Faults)
  /\ wpc' = "return"
  /\ Post(<<Stage(at, "cancelled")>>)
  /\ UNCHANGED <<page, stop, loop, outcome, windows>>

(* Any other exception costs the run this ammeter only.                     *)
WindowRaises ==
  /\ wpc \in {"start", "wait", "window"}
  /\ wpc' = "head"
  /\ at' = at + 1
  /\ faulty' = faulty \cup {at}
  /\ Post(<<Stage(at, "failed")>>)
  /\ UNCHANGED <<page, stop, slot, attempt, index, kept, filed, archive, windows>>

\* Mutated form of KeepAnalysis: samples are flushed after the analysis.
KeepAnalysisUnflushed ==
  /\ wpc = "analysed"
  /\ kept' = kept \cup {at}
  /\ pending' = <<>>
  /\ IF archiving
     THEN wpc' = "archive" /\ at' = at
          /\ inbox' = inbox \o <<Analysis(at)>> \o Flushed \o <<Stage(at, "archiving")>>
     ELSE wpc' = "head" /\ at' = at + 1
          /\ inbox' = inbox \o <<Analysis(at)>> \o Flushed \o <<Stage(at, "done")>>
  /\ UNCHANGED <<page, stop, slot, attempt, index, faulty, filed, archive, windows>>

KeepAnalysis ==
  /\ wpc = "analysed"
  /\ kept' = kept \cup {at}
  /\ IF archiving
     THEN wpc' = "archive" /\ at' = at /\ Post(<<Analysis(at), Stage(at, "archiving")>>)
     ELSE wpc' = "head" /\ at' = at + 1 /\ Post(<<Analysis(at), Stage(at, "done")>>)
  /\ UNCHANGED <<page, stop, slot, attempt, index, faulty, filed, archive, windows>>

Archived ==
  /\ wpc = "archive"
  /\ archive' = archive \cup {<<run, at>>}
  /\ filed' = filed \cup {at}
  /\ wpc' = "head" /\ at' = at + 1
  /\ Post(<<Stage(at, "done")>>)
  /\ UNCHANGED <<page, stop, slot, attempt, index, kept, faulty, windows>>

\* Mutated form of ArchivingFails: the failure is in no outcome.
ArchivingFailsUnrecorded ==
  /\ wpc = "archive"
  /\ wpc' = "head" /\ at' = at + 1
  /\ Post(<<Stage(at, "done")>>)
  /\ UNCHANGED <<page, stop, slot, attempt, index, kept, faulty, filed, archive, windows>>

ArchivingFails ==
  /\ wpc = "archive"
  /\ faulty' = faulty \cup {at}
  /\ wpc' = "head" /\ at' = at + 1
  /\ Post(<<Stage(at, "done")>>)
  /\ UNCHANGED <<page, stop, slot, attempt, index, kept, filed, archive, windows>>

(* The loop is over or broken off; the token, once set, is never cleared,   *)
(* so that it also tells whether the loop was.                              *)
Return ==
  /\ wpc = "return" \/ (wpc = "head" /\ (at > count \/ stop))
  /\ wpc' = "returned"
  /\ Post(<<[kind |-> "completed", of |-> run, faulty |-> faulty, cancelled |-> stop], Event("quit")>>)
  /\ UNCHANGED <<page, stop, loop, outcome, windows>>

(* The thread leaves its event loop and tells so.                           *)
ThreadFinishes ==
  /\ wpc = "quitting"
  /\ wpc' = "none"
  /\ inbox' = Append(inbox, Event("finished"))
  /\ UNCHANGED <<page, stop, loop, pending, outcome, windows>>

WorkerStep ==
  \/ SetUp \/ SetUpFails
  \/ BeginWindow \/ StartSucceeds \/ StartFails
  \/ Request \/ Succeed \/ Fail \/ GiveUpSlot \/ EndWindow \/ Cancel \/ WindowRaises
  \/ KeepAnalysis \/ Archived \/ ArchivingFails
  \/ Return \/ ThreadFinishes

-----------------------------------------------------------------------------
(* The GUI thread.  It handles one event at a time, oldest first.           *)

Of(a, batch) == {i \in DOMAIN batch : batch[i].ammeter = a}

OnSamples(batch) ==
  /\ requests' = [a \in Ammeters |-> requests[a] + Cardinality(Of(a, batch))]
  /\ failures' = [a \in Ammeters |-> failures[a] + Cardinality({i \in Of(a, batch) : ~batch[i].ok})]
  /\ slots' = [a \in Ammeters |-> Max({slots[a]} \cup {batch[i].index + 1 : i \in Of(a, batch)})]
  /\ UNCHANGED <<stage, analysed, banner, busy, wpc>>

OnStage(a, st) ==
  /\ stage' = [stage EXCEPT ![a] = st]
  /\ UNCHANGED <<slots, requests, failures, analysed, banner, busy, wpc>>

OnAnalysis(a) ==
  /\ analysed' = analysed \cup {a}
  /\ UNCHANGED <<stage, slots, requests, failures, banner, busy, wpc>>

\* Mutated form of OnCompleted: the page is free as soon as it has the outcome.
OnCompletedFrees(failed, cancelled) ==
  /\ banner' = IF failed # {} THEN "errors" ELSE IF cancelled THEN "stopped" ELSE "complete"
  /\ busy' = FALSE
  /\ UNCHANGED <<stage, slots, requests, failures, analysed, wpc>>

OnCompleted(failed, cancelled) ==
  /\ banner' = IF failed # {} THEN "errors" ELSE IF cancelled THEN "stopped" ELSE "complete"
  /\ UNCHANGED <<stage, slots, requests, failures, analysed, busy, wpc>>

OnFailed ==
  /\ banner' = "failed"
  /\ UNCHANGED <<stage, slots, requests, failures, analysed, busy, wpc>>

(* QThread.quit, connected to both outcomes.                                *)
OnQuit ==
  /\ wpc' = "quitting"
  /\ UNCHANGED <<stage, slots, requests, failures, analysed, banner, busy>>

OnThreadFinished ==
  /\ busy' = FALSE
  /\ UNCHANGED <<stage, slots, requests, failures, analysed, banner, wpc>>

Dispatch(e) ==
  CASE e.kind = "samples"   -> OnSamples(e.batch)
    [] e.kind = "stage"     -> OnStage(e.ammeter, e.stage)
    [] e.kind = "analysis"  -> OnAnalysis(e.ammeter)
    [] e.kind = "completed" -> OnCompleted(e.faulty, e.cancelled)
    [] e.kind = "failed"    -> OnFailed
    [] e.kind = "quit"      -> OnQuit
    [] e.kind = "finished"  -> OnThreadFinished

HandleEvent ==
  /\ window # "exited" /\ inbox # <<>>
  /\ Dispatch(Head(inbox))
  /\ inbox' = Tail(inbox)
  /\ UNCHANGED <<run, window, count, archiving, stop, loop, pending, outcome, windows>>

(* start_run: refused while busy, which is how long one thread is there.    *)
StartRun ==
  /\ window = "open" /\ ~busy /\ run < MaxRuns
  /\ run' = run + 1 /\ busy' = TRUE /\ stop' = FALSE /\ window' = window
  /\ stage' = Each("queued") /\ slots' = Each(0) /\ requests' = Each(0) /\ failures' = Each(0)
  /\ analysed' = {} /\ banner' = "none" /\ inbox' = inbox
  /\ count' \in Ammeters /\ archiving' \in BOOLEAN
  /\ wpc' = "setup" /\ at' = 1 /\ slot' = 1 /\ attempt' = 0 /\ index' = 0 /\ pending' = <<>>
  /\ kept' = {} /\ faulty' = {} /\ filed' = {} /\ archive' = archive
  /\ emitted' = Each(0) /\ reached' = Each(0) /\ lost' = Each(0)
  /\ retried' = {} /\ unstarted' = {} /\ late' = 0

RequestStop ==
  /\ window = "open" /\ busy
  /\ stop' = TRUE
  /\ UNCHANGED <<page, inbox, wpc, loop, pending, outcome, windows>>

(* closeEvent, confirmed if a run is under way.  The event loop goes on     *)
(* until it finds the event that quits the application.                     *)
Close ==
  /\ window = "open"
  /\ window' = "closed"
  /\ stop' = (stop \/ busy)
  /\ UNCHANGED <<run, busy, stage, slots, requests, failures, analysed, banner, count, archiving,
                 inbox, wpc, loop, pending, outcome, windows>>

(* main returns without waiting for the thread, which dies where it is.     *)
Exit ==
  /\ window = "closed"
  /\ window' = "exited"
  /\ wpc' = "killed"
  /\ UNCHANGED <<run, busy, stage, slots, requests, failures, analysed, banner, count, archiving,
                 stop, inbox, loop, pending, outcome, windows>>

Next == WorkerStep \/ HandleEvent \/ StartRun \/ RequestStop \/ Close \/ Exit

Spec == Init /\ [][Next]_vars

(* The operating system schedules the worker, whose every call has a        *)
(* timeout, and Qt delivers what is posted.  Nobody has to start, stop or   *)
(* close anything.                                                          *)
FairSpec == Spec /\ WF_vars(WorkerStep) /\ WF_vars(HandleEvent)

-----------------------------------------------------------------------------
(* Properties *)

(* No event of an earlier run is ever shown as the current one's: the page  *)
(* becomes idle, and start_run possible, only once the last run's thread is *)
(* gone and every event of it is handled (_on_thread_finished, is_busy).    *)
OneRunAtATime ==
  /\ \A i \in DOMAIN inbox : inbox[i].of = run
  /\ ~busy => inbox = <<>> /\ wpc \in {"none", "killed"}

(* Batching drops, repeats and reorders no sample (the comment on           *)
(* FLUSH_INTERVAL_SECONDS): what is on its way to the page, in the events   *)
(* or not flushed yet, is exactly what the page has not shown, in the order *)
(* of the requests.                                                         *)
Batch(e) ==
  IF e \in DOMAIN inbox
  THEN IF inbox[e].kind = "samples" THEN inbox[e].batch ELSE <<>>
  ELSE IF e = Len(inbox) + 1 THEN pending ELSE <<>>

OnTheWay(a) == UNION {{e} \X Of(a, Batch(e)) : e \in 1..Len(inbox) + 1}
IndexAt(p) == Batch(p[1])[p[2]].index
Earlier(p, q) == p[1] < q[1] \/ (p[1] = q[1] /\ p[2] < q[2])

NoSampleDropped ==
  \A a \in Ammeters :
    /\ requests[a] <= emitted[a]
    /\ {IndexAt(p) : p \in OnTheWay(a)} = requests[a]..emitted[a] - 1
    /\ \A p, q \in OnTheWay(a) : Earlier(p, q) => IndexAt(p) < IndexAt(q)

(* When the page shows an analysis it has shown every sample of its window, *)
(* and unless a slot was retried the failures it counted are the analysis'  *)
(* failed samples: missed slots are in neither (_emit_analysis flushes;     *)
(* _emit counts an unusable value as a failure "so the live counters match  *)
(* the archived analysis", which a retried slot breaks).                    *)
AnalysisFollowsSamples ==
  \A a \in analysed : /\ requests[a] = emitted[a]
                      /\ a \notin retried => failures[a] = lost[a]

(* An idle page shows the end of its run: no ammeter is left sampling or    *)
(* archiving, every analysis the worker kept is there, and a banner tells   *)
(* how the run went, whatever stopped it.                                   *)
IdlePageIsFinal ==
  ~busy /\ run > 0 =>
    /\ \A a \in Ammeters : stage[a] \in {"queued", "cancelled", "failed", "done"}
    /\ analysed = kept /\ requests = emitted
    /\ banner # "none"

(* What the banner of _on_completed says is true of the archive: complete   *)
(* runs are analysed and archived whole, the analyses of a stopped run were *)
(* archived, and a stop never hides a failure.                              *)
BannerIsTrue ==
  LET allArchived == archiving => \A a \in analysed : <<run, a>> \in archive IN
  /\ banner = "complete" => analysed = 1..count /\ allArchived
  /\ banner = "stopped" => stop /\ allArchived /\ "failed" \notin {stage[a] : a \in Ammeters}

(* The interrupted window is discarded rather than archived (README, Live   *)
(* streaming and cancellation): an archived window went through every slot, *)
(* unless its emulator did not start at all.                                *)
OnlyWholeWindowsArchived ==
  \A a \in Ammeters : <<run, a>> \in archive => reached[a] = Slots \/ a \in unstarted

(* A stop request lets the request under way end, and no other begin,       *)
(* through retries and into the next window (StopToken).                    *)
StopIsPrompt == late <= 1

(* A run ends and frees the page, however it ends, unless the application   *)
(* exits first.                                                             *)
RunsEnd == busy ~> (~busy \/ window = "exited")

-----------------------------------------------------------------------------
(* Claims of the documentation that the code does not meet.                 *)

(* "Progress tracks slots reached rather than requests issued, so a retried *)
(* run still reports one unit of progress per slot" (README, Retries in the *)
(* console): false, the index a sample carries counts requests.             *)
ProgressCountsSlots == \A a \in Ammeters : slots[a] <= reached[a]
=============================================================================
