---------------------------- MODULE MCArchiveCodec ----------------------------
(***************************************************************************)
(* Runs for ArchiveCodec: a retried window of three readings, a partial    *)
(* one of two and a missed slot, one whose only request failed, and one    *)
(* that never opened.                                                      *)
(***************************************************************************)
EXTENDS ArchiveCodec

Reading(c) ==
  [status |-> "SUCCESS", measured |-> TRUE, current |-> c, latency |-> 1, errors |-> {}]

Failure(code) ==
  [status |-> "FAILED", measured |-> FALSE, current |-> NoTime, latency |-> NoTime,
   errors |-> {code}]

Sample(i, started, attempts, result) ==
  [index |-> i, scheduled |-> i * 4, started |-> started, completed |-> i * 4 + 3,
   attempts |-> attempts, result |-> result]

Window(status, samples, errors, maxAttempts) ==
  [ammeter |-> "greenlee", status |-> status, timestamp |-> 100, elapsed |-> 15,
   opened |-> samples # <<>>, startedAt |-> IF samples = <<>> THEN NoTime ELSE 102,
   samplingElapsed |-> IF samples = <<>> THEN NoTime ELSE 13,
   count |-> IF samples = <<>> THEN 1 ELSE Len(samples),
   duration |-> IF samples = <<>> THEN 4 ELSE 4 * Len(samples), period |-> 4,
   samples |-> samples, errors |-> errors,
   maxAttempts |-> maxAttempts, retryDelay |-> maxAttempts - 1]

Archived(result) ==
  [run_id |-> "run", archived_at |-> 120, metadata |-> [site |-> Float(1)], result |-> result]

FourRuns ==
  {Archived(Window("SUCCESS", <<Sample(0, 0, 2, Reading(30)), Sample(1, 5, 1, Reading(90)),
                                Sample(2, 8, 1, Reading(45))>>, {}, 2)),
   Archived(Window("PARTIAL", <<Sample(0, 1, 1, Reading(60)),
                                Sample(1, NoTime, 0, Failure("SAMPLING_SLOT_MISSED")),
                                Sample(2, 8, 1, Reading(40))>>, {}, 1)),
   Archived(Window("FAILED", <<Sample(0, 0, 1, Failure("INVALID_MEASUREMENT"))>>,
                   {"EMULATOR_STOP_FAILED"}, 1)),
   Archived(Window("FAILED", <<>>, {"EMULATOR_START_FAILED"}, 1))}
=============================================================================
