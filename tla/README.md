# Ammeter QA System: TLA+ models and proofs

This directory models the Ammeter QA System (`src/`), model-checks it with TLC
on small instances and proves its main invariants with TLAPS for every value of
the constants. Paths below are relative to the repository; `uc/` stands for
`src/application/use_cases/`, `pe/` for `src/infrastructure/persistence/`,
`em/` for `src/infrastructure/emulators/` and `dk/` for
`src/presentation/desktop/`.

## 1. Inventory of the system

The program samples the current of (emulated) ammeters over TCP. A use case
starts emulators in threads of its own process, reads them through a socket
client, stops them, and hands the result to an append-only archive of JSON
files. A console entry point, an importable framework and a Qt desktop console
drive the use cases.

| Component | State it keeps | Operations | Interacts with | Hard part | What makes it correct |
|---|---|---|---|---|---|
| Sampling window: `uc/run_ammeter_sampling_test.py`, `collect_scheduled_sample.py`, `measure_with_retries.py`, `wait_until_deadline.py` | clock readings, slot index, attempts, samples, errors | start, wait for slot, request, back off, record, close the window, stop | emulators, client, clock, sleeper | the clock moves between any two reads; requests overrun; exceptions leave through `finally` | a fixed schedule; retries inside a budget; every result its model accepts; the emulator released |
| Result models: `src/domain/models/*_result.py`, `retry_policy.py` | none (frozen) | construct and validate | built by the runs, decoded by the archive | rules that relate status, errors, times and counts | no path of a run builds a value its constructor refuses |
| Result archive: `pe/save_archived_test_run.py`, `publish_archive_without_overwrite.py`, `load_...`, `list_...` | directory, lock files, temporary files, documents | save, load, list | other processes, the file system | races between processes, I/O errors, kills, power loss | append-only; a published name is a whole document; a reported outcome is true |
| Archiving use cases: `uc/archive_sampling_analysis.py`, `archive_sampling_analyses.py` | none | archive one, archive a batch | archive, identifiers | a batch that fails half-way | earlier runs of the batch stay |
| Emulator lifecycle: `em/start_emulators.py`, `serve_emulator.py`, `stop_emulators.py`, `join_emulator_threads.py` | threads, ready and stop events, startup errors | start a group, stop it, join it | server threads, ports | start failures half-way, leaks past the join deadline, interrupts | a leak is always told; a started group listens; whatever runs has been told to stop |
| Smoke test and single test: `uc/run_ammeter_smoke_test.py`, `run_single_ammeter_test.py` | the group they own, collected errors | run once | emulator lifecycle, client | combinations of start, request and stop errors | the first cause is the one reported; a single run always yields a valid result |
| Ammeter emulators and their protocol: `Ammeters/base_ammeter.py`, `client.py` | listener and its backlog, receive buffer, stop event | accept, receive, answer, read the answer | client | fragments, clients of the older protocol, one connection at a time, deadlines on both sides, resets | an answer belongs to the whole frame; abandoned requests delay nobody; requests end |
| Desktop run: `dk/run_service.py`, `workers.py`, `run_page.py` | stop token, pending samples, live counters, banner | start, stop, stream, complete, close | framework, archive, Qt event loop | two threads, queued signals, stop at any moment | no sample lost; a stop is prompt and honest; the page ends idle and final |
| Archive queries: `uc/find_...`, `retrieve_...`, `compare_...`, `resolve_archived_run_query.py`, `resolve_run_metadata.py` | none | find, get, compare | archive listing, pages, scripts | half-open times, equal times, limit after filters, one damaged file | exactly the runs asked for, newest first |
| Desktop results and comparison: `dk/results_page.py`, `compare_page.py`, `view_models.py`, `widgets.py` | listed runs, filters, sort, selection, detail; baseline, candidates, comparison, metric; file dialog | filter, search, sort, select, compare, change metric, export, refresh | archive queries, the `run_completed` signal | refreshes behind the user's back and under an open dialog; the archive changes between two reads | the detail is of the selection; views agree; choices survive a refresh |
| Archive codec: `pe/*_dict.py`, `*_match.py` | none | encode, decode, verify | save and load, export | two schema versions; a canonical form with a tolerance | round trip; what is accepted does not contradict itself |
| Settings: `uc/resolve_*.py`, `src/infrastructure/config/` | none | resolve, validate | YAML file | N = D x F, boundaries | a resolved plan is a valid plan |
| Framework facade: `src/testing/` | the lazily built result manager | run, analyze, archive | everything above | double-checked lock | one manager |
| Statistics, console formatting, serialization, theme, configuration files, ports | none | pure functions and layout | | floating point | |

`PROJECT.json` lists the same components with their status, and under `hazards`
the places where this code is hard to test, each with the properties that cover
it or the reason why none does.

## 2. Modules

| Module | Models | Uses |
|---|---|---|
| `SampleModels` | the constructor rules of `MeasurementResult`, `SampleResult`, `SamplingResult` as predicates (`...Accepts`) | |
| `SamplingRun` | one call of `run_ammeter_sampling_test` | `SampleModels` |
| `SamplingContract` | abstract: slots resolved once, in order, and a status that summarises them | |
| `ArchiveStore` | any number of saves, loads and listings on one directory | `AppendOnlyArchive` |
| `AppendOnlyArchive` | abstract: one document per run ID, published atomically, never replaced, truthful outcomes | |
| `EmulatorGroup` | consecutive smoke and single sessions and their server threads | `SampleModels` |
| `EmulatorProtocol` | the bytes between one emulator, the program's client and other programs | |
| `DesktopRun` | the desktop's GUI thread and worker thread | |
| `ArchiveDocuments` | encoder, decoder and canonical-form check of schema versions 1 and 2; the statistics | `SampleModels` |
| `ArchiveCodec` | the life of one document: written, edited, loaded, exported | `ArchiveDocuments` |
| `ArchiveQuery` | query resolution, filters, order, limit; comparisons | `ArchiveDocuments` |
| `ResultViews` | the view models: what the pages make of documents | `ArchiveQuery` |
| `ArchiveBrowser` | the Results and the Compare page and scripts, reading an archive that changes | `ResultViews` |
| `SamplingRun_proofs`, `ArchiveStore_proofs`, `EmulatorGroup_proofs`, `EmulatorProtocol_proofs`, `DesktopRun_proofs` | theorems about the module they are named after | |
| `ArchiveDocuments_proofs` | lemmas on the orders, sorts and statistics of `ArchiveDocuments` | |
| `ArchiveCodec_proofs`, `ArchiveBrowser_proofs` | theorems about the module they are named after | `ArchiveDocuments_proofs` |
| `MC...` | TLC instances; each `.cfg` is one run | |

The components are joined where the code joins them through data. `SampleModels`
is what a sampling run builds (`SamplingRun`), a single run concludes
(`EmulatorGroup`) and the decoder accepts (`ArchiveDocuments`); the documents of
the codec are what queries filter (`ArchiveQuery`) and pages show (`ResultViews`,
`ArchiveBrowser`). Where the code joins them by a call, the caller's module takes
of the callee what the caller can see: `DesktopRun` has slots, requests and
retries without the clock that `SamplingRun` adds, `EmulatorGroup` has requests
that are answered or closed without the bytes that `EmulatorProtocol` adds, and
the files of `ArchiveBrowser` are absent, a run, or damaged, which is all a load
of `ArchiveStore` tells of one.

### SamplingRun

One process and the clock. `Tick` may happen between any two steps; every clock
read of the Python code is therefore a step of its own (`Reads`, `Expired`,
`ReachSlot`, `MissSlot`, `SleepOn`, ...), which covers preemption, slow
requests and late wake-ups at once. `pc` names the place in the code,
`waiting` which of the three calls of `wait_until_deadline` is active (slot,
backoff, window). `origin`, `startedAt`, `resumeAt` and `windowEnd` are the
locals of the same meaning. `emulator` and `raised` model the `finally` block:
`StopSucceeds` and `StopFails` are reached on every way out, and `raised` tells
whether an exception goes on afterwards. The reported `SamplingResult` is
compared with the rules of `SampleModels`, so "the run always returns a result
its own model accepts" is an invariant and not an assumption.

Time is in ticks: `Period` is one slot, `RetryDelay` the backoff. `MaxTime`
stops the clock; it only bounds the state space, and the proofs hold for all of
its values.

### ArchiveStore

A save is the sequence of its system calls as another process sees them:
`MakeDirectory`, `AcquireLock` (`O_CREAT|O_EXCL`), `CheckTarget`,
`MakeTemporary`, `WriteDocument`, `SyncDocument`, `Publish` (a hard link, or a
rename that fails on Windows when the name exists), `UnlinkTemporary`, and the
`finally` block `DropTemporary`, `DropLock`. Each may be interrupted or fail at
the places where the code handles it (`LockTaken`, `PublishRefused`,
`UnlinkFails`, `Raise`). Three more actions are the windows where it does not.
`LockOrphaned`: the lock exists, but closing its descriptor raises or an
interrupt comes before `lock_acquired` is set. `TemporaryOrphaned`: `mkstemp`
has made the file, and an interrupt comes before line 76 has noted its path.
`CleanupInterrupted`: an interrupt in the `finally` block skips the rest of it
and replaces what the save was about to return or raise. `cutShort` remembers
the saves these interrupts hit (`CutShort`), `littered` those whose entry the
system refused to close or to remove; `NothingLeftBehind` allows what they leave
and nothing else. Since the `finally` block can still change the outcome, a save
has told it only when it has ended (`Reported`). Files are abstracted to the save that wrote them:
`target[id]` is the file a published name stands for, `text[s]` whether its
contents are partial or complete, `synced` whether they would survive a crash.

Readers (`BeginLoad`, `BeginList`, `EndScan`, `Stat`, `Open`, `Read`, `Return`)
see the directory at several moments; the listing works from a stale scan, as
`list_archived_test_runs` does.

The environment can `Kill` a saver, take the machine down (`PowerLoss`: unsynced
contents and unsynced directory entries may be lost) and `Tamper` with the
directory. `MaxMishaps` bounds environment steps and I/O errors together. The
directory itself is never synced by the code, so a save that has returned may
vanish in a power loss; `AppendOnlyArchive` allows exactly that and nothing
else.

`Earlier[s]` orders the saves of one `archive_all` batch.

### EmulatorGroup

Sessions (calls of `run_ammeter_smoke_test` or `run_single_ammeter_test`)
follow each other on the same configured ports, so a thread that outlives the
session that owns it meets the next one. `thread[s][a]` is the place of the
server thread in `serve_emulator`/`start_server`, from `starting` through
`listening` (ready event still to be set), `open`, `accepting` and `serving` to
`dead`; `failing` and `dying` are an exception on its way to `startup_error`.
The coordinator's `pc` goes through `construct`, `await`, `measure`, `waiting`,
`stop`, `stopJoin`, or after a failure of the start through `cleanup` and
`startJoin`. An interrupt may hit every blocking call, including
`Thread.start` before the thread is appended to the list.

`Exclusive` is the semantics of `SO_REUSEADDR`, port by port: on the port of an
ammeter in the set (POSIX) a second listener is refused; on the others (Windows)
two share the port and either may be given a connection.

### EmulatorProtocol

Connections are records in the order of the backlog; `turn` is the last one
accepted. A connection of the program sends the command and its delimiter, one
of another program any of `Messages`. `Deliver` and `DeliverEnd` let any number
of bytes arrive at any moment, so every fragmentation occurs. The server's `pc`
is its place in `start_server` (`loop`, `accept`), `_receive_command` (`receive`
for the check of stop event and deadline, `recv` for the call) and the answer;
`Examine` is what it decides after each piece: a frame, the command without a
delimiter, or what can no longer become the command. `Answer` hangs up; with
bytes unread that is a reset, which may take the answer with it. The client
reads pieces of the answer (`ReadAnswer`), its end (`ReadEnd`), or gives up
(`GiveUp`) while its connection stays in the backlog.

A client of another program may also reset its connection, at any byte
(`Abort`). `recv` then raises, at once or after the bytes that came before
(`RecvReset`): `_receive_command` catches only the timeout and `start_server`
only that of `accept`, so the exception ends the server thread, and leaving the
`with` block closes the listener (`CloseListener`). The emulator is "dead", the
backlog is reset and later connections are refused. An error of `sendall` is
caught, so a reset that comes later costs that client its answer only.
`RequestsSucceed` names this death among the excuses of a request
(`KilledBefore`).

Time is counted in the server's polls of a tenth of a second: `MaxPolls` of them
make `request_timeout_seconds`. The server thread is assumed not to be
descheduled for that long, so that a connection which was complete when its turn
came is read before its deadline. A client's deadline may pass at any moment.
The numbers in an answer, their syntax and finiteness are not modelled; an
answer is a measurement or the message for unsupported commands.

### DesktopRun

`wpc` is the worker thread in `execute_run`; the page's variables are those of
`RunPage`; `inbox` is the queue of Qt events posted to the GUI thread. A signal
emitted by the worker is an event appended to it (`Post`, always after a flush,
as in `RunWorker`), and `HandleEvent` runs one slot function to its end. User
actions (`StartRun`, `RequestStop`, `Close`) fall between events. A sampling
window is reduced to what the client and the sleeper decorators see: `Request`
checks the token, `Succeed`/`Fail` stream a sample and flush or not,
`GiveUpSlot` misses a slot or gives up its retries, `Cancel` is `RunCancelled`
out of a sleep, a check or an injected latency. When the window is closed the
event loop may handle more events until `Exit`, after which the worker is dead
wherever it was.

### ArchiveDocuments and ArchiveCodec

A JSON object is a record and its keys are the record's domain, so that a
missing or surplus key is a different domain. For each decoder there are two
operators: `...Reads` (it raises nothing) and `...Of` (what it returns); `Loaded`
puts them together as `load_archived_test_run` does, version first. Currents
count units of the last place, which turns the relative tolerance of the
statistics' comparison into `MetricTolerance`. The largest settings and the
largest retry delay are those of the code (`MAX_...`, with `TicksPerSecond` ticks
to a second). The ammeter type and the unit of each sample, which must be those
of its window, are not modelled, like all texts that are copied. Where the code tells `1`, `1.0`
and `true` apart a scalar is `[type, n]`. What the constructors let pass
is `WindowAccepts` for a sampling window and `RunAccepts` for an archived run,
which adds its statistics (`CalculateCurrentStatistics`, with its sums in `Total`).

`ArchiveCodec` writes a run in a version that can hold it, lets others change,
drop or add any key of any object (`Edit`), and exports what still loads
(`Export`), as the Results page does. Its truth (`AcceptedTellsTheTruth`) is in
three parts, counted from the samples and not through the encoder: `CountsTell`,
`StatisticsTell` and `InstantsTell`. `StatisticsTell` defines each of the five
metrics in its own way (minimum, maximum and median by the rank of a reading, the
mean and the deviation by the inequalities that a rounded quotient and a rounded
root satisfy) and asks the stored one to be `Near` it.

### ArchiveQuery, ResultViews and ArchiveBrowser

`ArchiveQuery` has one operator per use case; a filter is the set of the one
value asked for or the empty set. `ResultViews` translates `view_models.py`: the
history row, the detail with its cards, plot, tables and errors, and the
comparison with its series, bars and rows. `ArchiveBrowser` has one action per
slot function of the two pages. The file dialog of an export runs an event loop
of its own, so `RunCompleted` may refresh the page below it. The archive changes
between any two steps: runs are published, by this window (then `pending` is the
queued `run_completed`) or by another process, and files are removed and
damaged. The pages share nothing but the archive, so a behaviour follows one
reader (`visits`). `SortTable` and `Filled` sort twice and stably, as Qt does;
`TextRank` is the order of the texts of time stamps.

## 3. Runs

All runs are in `PROJECT.json`. TLC checks every one exhaustively.

| Run | Instance | What it shows |
|---|---|---|
| `sampling_retries` | 2 slots of 3 ticks, 3 attempts, delay 1, clock to 9, fair | types, rules of the result models, schedule, retry budget, release of the emulator, refinement of `SamplingContract`, a run returns or raises |
| `sampling_retry_claim` | violation | see findings |
| `archive_saves` | a batch of two and one independent save, 2 IDs, POSIX, 2 mishaps | published documents are whole, outcomes true, the earlier writes of a batch remain, nothing left behind by a save but what a fault or an interrupt in one of three windows leaves, refinement of `AppendOnlyArchive` |
| `archive_reads` | 2 saves, 1 reader, a good and a bad foreign file, Windows rename, 2 mishaps, symmetry | readers return whole runs and miss none that was there before |
| `archive_exists_claim` | violation | see findings |
| `emulator_sessions` | 2 sessions, 2 ammeters, one exclusive and one shared port, 3 mishaps, fair | leaks told, started means listening, nothing runs unstopped, sessions without mishaps succeed one after the other, verdicts true, readings are the session's own, sessions end, stopped threads die |
| `emulator_protocol` | 2 connections, at most one of another program, 2 polls, 4 bytes read at most, a command of 2 bytes, 6 messages and resets of the other program, fair | frames are answered by their content however they are cut, requests succeed or have an excuse, abandoned ones cost nothing, every request ends |
| `emulator_fragments_claim` | violation | see findings |
| `desktop_window` | 2 runs of 2 ammeters with 1 slot of 2 attempts, fair | no sample dropped or reordered, analysis after samples, idle page final, banner true, stop prompt, no event crosses from run to run, interrupted windows are not archived, a run frees the page |
| `desktop_progress_claim` | violation | see findings |
| `archive_codec` | 4 runs (retried, partial, failed, never opened) with readings 30, 90, 45 and 60, 40 and a missed slot, both versions, 2 edits | round trip, what still loads does not contradict itself (counts, five metrics, instants), exports keep the run |
| `archive_browser` | 3 runs, two at the same instant and two within one second; limits 1 and 3, 2 runs on the Compare page, 2 search texts, 15 script queries, 1 mishap, one reader | answers exact, detail is the selection, views agree, choices survive refreshes |

**Why the bounds are enough.** `sampling_retries`: two slots let a request
overrun into the next slot and past it, three ticks leave room for two backoffs
of one tick, and the clock goes one slot past the window so that the last wait
can be overslept. Archive: two saves meet at every step of each other; the third
is what a batch needs beside a competitor. Two mishaps combine a crash with its
consequence (a stale lock and a failed clean-up, a power loss and an edit).
`emulator_sessions`: three mishaps are a leak and two failures of the session
that meets it, and the two ammeters have the two kinds of port.
`emulator_protocol`: a request and its retry, or a request and a stranger before
or behind it; four bytes are the command, a byte more than its delimiter and the
limit, two polls tell the first wait from the last. `desktop_window`: what
crosses windows and runs is met by the second of each; one slot of two attempts
is a sample, a retried sample or a missed slot. `archive_codec`: a second edit
can hide the first, which is what the cross-checks of the canonical form are
for; three readings that are not sorted have a median that is neither the first
nor the mean, two have one that is halfway, and an edit by eight units is within
the tolerance, one by nine is not. `archive_browser`: three runs have a first, a middle and a last place, a
limit that cuts and one that does not; the page starts with the larger one
(`InitialLimit`), so that a user can choose the one that cuts. What is proved
holds for all values of these constants.

**Symmetry** is used for the two run IDs in `archive_reads` only, which checks
no liveness. `CHECK_DEADLOCK FALSE` is used because each modelled system
stops: runs, saves and sessions end, and the number of them is bounded.

**Fairness.** `SamplingRun`: weak fairness of the clock and of the thread; the
client, the starter and the stopper have total timeouts.
`EmulatorGroup`: weak fairness of the coordinator and of each server thread,
whose waits are polls of a tenth of a second. `EmulatorProtocol`: weak fairness
of the server thread, of the delivery of what the program sent, and of its
client's reading; nobody has to lose patience and strangers may be silent for
ever. `DesktopRun`: weak fairness of
the worker and of the Qt event loop. No action of a user or of the environment
other than the clock is fair, and strong fairness is nowhere assumed.

## 4. Findings

Each is a statement of the repository that TLC refutes (a `violation` run).

1. **A retried request may end in the next slot** (`sampling_retry_claim`).
   The docstring of `measure_with_retries` says that every retry must complete
   before `slot_end`; the code bounds only when the request begins.
2. **A stale lock reports an archive that does not exist**
   (`archive_exists_claim`). `AlreadyExists` is raised for a lock file whose
   save died or could not remove it.
3. **Progress counts requests** (`desktop_progress_claim`). The index a live
   sample carries is per request, so a retried slot is progress twice. For the
   same reason the live failure counter is the analysis' only for ammeters
   without retries, which is how `AnalysisFollowsSamples` states it.
4. **A fragment can be a command** (`emulator_fragments_claim`). README says
   that complete-frame reads keep fragments from being mistaken for messages;
   for the sake of older callers a first piece that equals the command is
   answered, whatever follows it.

Observations that are hazards and not findings, because nothing in the
repository says otherwise: a stop that comes after the last window is reported
as a stopped run although nothing was discarded; an interrupt during startup
whose clean-up leaks a thread surfaces as `EmulatorStartError`; the shared
startup deadline can name an emulator that is ready; the history sorts time
stamps as texts, so of two runs within a second the older may be on top; the
client takes a value without its delimiter for an answer when the stream ends; an
interrupt between lines 48 and 60 or 71 and 76 of `save_archived_test_run.py`, or
in its `finally` block, leaves a lock or a temporary file behind (README:545,
"cleaned up after failed writes", speaks of failed writes, and those do clean
up); a client that resets its connection in mid-command ends the emulator's
server thread.

## 5. Proofs

Eight modules hold theorems; every safety and action property of the passing
runs is stated by one of them. Each proof is about one inductive invariant and
its strengthenings. The assumptions are those of the constants, and TLC
evaluates them in the runs: positive counts, distinct names and a command
without delimiters that is shorter than what the server reads
(`SettingsAssumption`, `ArchiveAssumption`, `GroupAssumption`,
`ProtocolAssumption`, `DesktopAssumption`); limits the query model accepts
(`BrowserAssumption`) and queries that resolve (`QueriesAssumption`); and of the
archived runs, in the two `RunsAssumption`, that their constructors let them
pass (`RunAccepts`), which is all that is known of a run that was archived. Its
last conjunct, that the statistics pass too, is a consequence of the others
(`EveryWindowIsArchivable`): it takes nothing from the assumption's generality.

**SamplingRun.** `IInv == TypeOK /\ WindowInv /\ SlotInv /\ SamplesInv /\ ExitInv`.
The properties speak of finished samples and reports; what makes them inductive
is what holds on the way there: between opening and closing the window the
number of samples is the slot index and no error has been met (`WindowInv`), the
current slot began inside its interval and after all earlier samples
(`SlotInv`), each sample is acceptable at the current time (`SamplesInv`), and
the variables the report is built from agree (`ExitInv`). `BudgetInv`
strengthens `RetryBudget` with the slot under way; it needs multiplication, so
the one non-linear fact is a lemma (`OneMoreDelay`). `EveryResultAccepted`: the
run never builds a value its own model refuses. `RunKeepsContract` proves the
refinement: each step is a step of `SamplingContract` or a stutter.

**ArchiveStore.** `IInv == TypeOK /\ SaverInv /\ NameInv /\ LitterInv /\ BatchInv /\ ReaderInv`.
`SaverInv` ties a save's place to its file, `NameInv` every published name to a
published file of its own ID. The invariant is independent of who holds a
lock: the theorems hold although locks are lost, because `Publish` does not
overwrite. Only `LitterInv` speaks of lock files, for the clean-up. `ReaderInv`
carries what a reader owes its caller through a stale scan. `NoLitter` follows
from `LitterInv`: at each place of a save it says what exists of its entries, so
that a save that ends with something left is in `littered`, or in `cutShort` and
reports an interrupt. `BatchKeepsItsPast` proves `EarlierWritesRemain`.
`StoreKeepsArchive` proves the refinement of
`AppendOnlyArchive`.

**EmulatorGroup.** `IInv` adds to `TypeOK` and `LeaksAreTold` the places of the
loops (`PlaceInv`), what threads may exist outside the list (`ThreadInv`), what
a set ready event means (`ReadyInv`), what the session has concluded
(`VerdictInv`) and whose answer a client may hold (`RequestInv`).
`SessionsTellTheTruth` proves both parts of `VerdictsAreTrue`. `CleanInv` adds
what holds as long as there was no mishap (only threads told to stop are dead,
those of earlier sessions all are, the peer of a request is the session's own);
`CleanSessionsSucceed` proves `CleanSessionsRepeat` from it for any number of
sessions.

**EmulatorProtocol.** `IInv` is `TypeInv` and, for each connection, how far its
two ends are (`WireInv`), what those in the backlog and the one being served
look like (`QueueInv`), what the server can have made of the program's bytes
(`AnswerInv`) and its client of the answer (`ResultInv`). A server that is dead
has another program's reset connection for its current one (in `QueueInv`), as
the program never resets one (in `WireInv`).
`RequestsGetMeasurements` proves `RequestsSucceed` for any command, any messages
of strangers and any number of connections. It rests on two facts about the
program's line: what has come of it is a prefix of the command until the
delimiter is there, and its frame is the command. The second part of the module
adds the messages of everybody else. `AnswersFollowFrames` proves `FramesAreExact`:
as nobody knows how much of a message is still to come, its invariant
`FrameInv` speaks of every length the message may yet have, and
`ExamineDecides` shows that the server makes up its mind only when all of these
have the same verdict. Frames are cut at a least and trimmed at a greatest
element; that these exist (`MinOfSet`, `MaxOfSet`) follows from the well-founded
order on finite sets.

**DesktopRun.** The page learns of the run only through the queue, so `IInv`
says in which order events can be queued at each place of the worker
(`QueueInv`), what they and the page say of the run (`SeenInv`, `VerdictInv`)
and what the worker has done so far (`LoopInv`, `WindowInv`, `LateInv`). For
any number of runs, ammeters, slots and attempts: runs do not overlap, the
banner is true, interrupted windows are dropped, a stop ends the requests.

Three more theorems are about the samples (`NoSampleDropped`,
`AnalysisFollowsSamples`, `IdlePageIsFinal`). `SInv` follows each sample from
its request to the page. `FlowInv` is the heart of it: the samples of an ammeter
in the queued batches and in `pending` are, in order, exactly those requested
but not yet shown. It is stated through places and indices, each index having
one place, and a batch handled or posted moves a set of places; so the steps
need arithmetic and cardinalities where counting through a fold would need
induction. `TallyInv` and `FailedInv` relate the counters to it, the latter only
for ammeters without retries and with the slot under way (`Undecided`);
`AfterInv` says that nothing of an ammeter is behind its analysis, `OverInv`
what a worker that is done has left in the queue, and `StageInv` that each
ammeter's last stage is final, is being queued, or belongs to the ammeter at
work.

**ArchiveDocuments.** `InOrder` gives the element with `i - 1` others below it
the place `i`. `InOrderArranges` proves by counting that this is a sequence of
all elements in order: ranks are distinct and below the cardinality, so every
rank is taken. Picking, listing and sorting are cases of it. `StatisticsOfSlots`
concludes that the statistics of a window count its successful slots and that
their least and greatest are readings with all others between them.

`StatisticsAlwaysAccepted` says of any number of readings that `CurrentStatistics`
accepts what is computed from them: the mean and the median lie between the
minimum and the maximum, and one reading has no deviation. The mean needs the
value of a sum, which needs induction. `CountingUp` is induction stated of a set
of numbers instead of an operator: a set that holds 0, and with a number below
the limit the next one, holds all numbers up to the limit. It follows from the
strict subset order being well-founded on finite sets (of the intervals `0 .. x`
up to a number missing from the set, one is least). `TotalIsLast` and
`TotalBounds` use it.
From there `EveryWindowIsArchivable`: a run that was measured and built is never
lost between its last sample and the archive because its statistics are refused.

**ArchiveCodec.** "Canonical" is what holds of every sample, window and run that
the constructors return. `RunDecodes`, level by level from the measurement up:
on canonical runs the decoder of either version undoes the encoder, in version 1
if there were no retries. With `EveryWindowIsArchivable` this holds of any run
whose window passed its constructors, not only of the runs of a behaviour
(`EveryArchivedRunLoads`). `CodecInv` says that a document nobody edited is the
encoding of its run, which gives `RoundTrip`, and that any document is `Typed`:
an edit may spoil every value, but it leaves the few numbers that are compared
numbers. From that `ReadCanonical` shows that what loads is canonical again,
whatever was edited, and so its export loads as the same run
(`ExportKeepsRun`). A document that loads is the encoding of the window it holds
but for the five metrics (`ReadFaithful`), and what that encoding says is
counted against the samples (`CountsFollow`, `StatisticsFollow`,
`InstantsFollow`). For the statistics this means that the functions which compute
them meet the independent definitions of the property: the place of a reading in
the sorted sequence is its rank (`SortedRank`, `MedianFollows`), a quotient is a
floor (`QuotientIsFloor`), and the deviation is a root of a mean of squares
(`SquaresAddUp`, `DeviationFollows`); the tolerance is added last. This gives `AcceptedTellsTheTruth` for any number of edits.
The edits are those of the model, to neighbouring values of the same JSON type:
that the code's decoders refuse other types is not modelled, and `Typed` stands
for it.

**ArchiveBrowser.** `QueriesAnswerExactly` is about one evaluation of the use
case, for any archive and any limit: filtered, newest first, cut to the newest,
each run once. For the pages `BInv` has the history (`HistoryInv`: rows, detail
and selection belong together), the choices of the Compare page (`ChoiceInv`)
and the open file dialog (`DialogInv`); `DetailFollowsSelection` and
`RefreshKeepsChoices` follow. `ViewsTellTheSameStory` adds where the comparison
on screen came from: different archived runs, through `HistoricalComparison`,
drawn in the metric chosen last. It then computes both sides, the view models' and
the property's, from the samples of a run; they meet in `StatisticsOfSlots`.

`PROJECT.json` lists the theorems with the property each one states.

**Only model-checked.** Liveness (`RunEnds`, `SessionsEnd`, `StopEndsThreads`,
`RequestsEnd`, `RunsEnd`) is beyond the prover. The statistics are modelled, and
proved about, in whole units; how floating point rounds a mean or a deviation is
neither modelled nor proved. The findings are runs of TLC.

## 6. Not modelled, and why

- **Settings resolution** (`uc/resolve_*.py`): pure validation of arguments at
  start-up, with unit tests over its boundaries. What the runs rely on is
  assumed of the constants of `SamplingRun`. The tolerance of N = D x F is
  floating point, which TLA+ has not.
- **Framework facade** (`src/testing/`): wires ports to use cases. Its one piece
  of mutable state is the result manager, built under a lock by two lines.
- **Configuration files and bootstrap**: one file read once.
- **Console presentation and serialization, desktop theme**: layout.
- **Ports, errors, clocks, identifiers**: declarations and one-line adapters.
- **Tests, examples, documents**: read as statements about the code.

Partly modelled: statistics (in whole units; rounding is not), the ammeter
emulators (the measured values themselves are random numbers), the desktop's
shell and pages (widgets, formats, clipboard, settings files and the live plot
are not), and texts that the codec copies verbatim.

## 7. What is left

Nothing that is left out carries state other parts depend on. What would be
worth more work: a proof that `SamplingRun` without its clock is the window that
`DesktopRun` assumes, as `SamplingContract` is of the run's slots; and one
composed model of `SamplingRun` and `EmulatorProtocol`, in which a slot's retry
meets its own abandoned connection under the run's clock instead of the patience
of an arbitrary client.
