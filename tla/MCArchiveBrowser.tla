--------------------------- MODULE MCArchiveBrowser ---------------------------
(***************************************************************************)
(* Runs for ArchiveBrowser: three runs, two of them archived within one    *)
(* second (ticks 4 and 5, two to the second) and two at the same instant,  *)
(* one of them without a single reading.                                   *)
(***************************************************************************)
EXTENDS ArchiveBrowser

Slot(i, started, attempts, status, current, errors) ==
  [index |-> i, scheduled |-> i * 4, started |-> started, completed |-> i * 4 + 3,
   attempts |-> attempts,
   result |-> [status |-> status, measured |-> current # NoTime, current |-> current,
               latency |-> IF current = NoTime THEN NoTime ELSE 1, errors |-> errors]]

Window(ammeter, status, samples) ==
  [ammeter |-> ammeter, status |-> status, timestamp |-> 0, elapsed |-> 13, opened |-> TRUE,
   startedAt |-> 1, samplingElapsed |-> 11, count |-> Len(samples),
   duration |-> 4 * Len(samples), period |-> 4, samples |-> samples, errors |-> {},
   maxAttempts |-> 2, retryDelay |-> 1]

ThreeRuns ==
  <<[run_id |-> 1, archived_at |-> 4, metadata |-> [site |-> Float(1)],
     result |-> Window("greenlee", "SUCCESS",
                       <<Slot(0, 0, 2, "SUCCESS", 30, {}), Slot(1, 5, 1, "SUCCESS", 90, {})>>)],
    [run_id |-> 2, archived_at |-> 5, metadata |-> [site |-> Float(2)],
     result |-> Window("entes", "PARTIAL",
                       <<Slot(0, 1, 1, "SUCCESS", 40, {}),
                         Slot(1, NoTime, 0, "FAILED", NoTime, {"SAMPLING_SLOT_MISSED"})>>)],
    [run_id |-> 3, archived_at |-> 5, metadata |-> <<>>,
     result |-> Window("greenlee", "FAILED",
                       <<Slot(0, 0, 1, "FAILED", NoTime, {"INVALID_MEASUREMENT"})>>)]>>

\* One filter more than none, of every kind, and some that are refused.
Asked(filters) == filters @@ [NoFilters EXCEPT !.limit = {}]

ScriptQueries ==
  {Asked([ammeter |-> {PaddedText("greenlee")}]), Asked([ammeter |-> {BlankText}]),
   Asked([ammeter |-> {Text("greenlee")}, limit |-> {1}]),
   Asked([status |-> {PaddedText("PARTIAL")}, until |-> {5}]),
   Asked([status |-> {Text("unknown")}]),
   Asked([from |-> {5}]), Asked([from |-> {4}, until |-> {5}]), Asked([from |-> {5}, until |-> {4}]),
   Asked([has_statistics |-> {TRUE}, limit |-> {1}]), Asked([has_statistics |-> {FALSE}]),
   Asked([metadata |-> [site |-> Float(1)]]),
   Asked([metadata |-> [site |-> [type |-> "int", n |-> 1]]]),
   Asked([metadata |-> [site |-> [type |-> "list", n |-> 1]]]),
   Asked([limit |-> {0}]), Asked([limit |-> {2}])}
=============================================================================
