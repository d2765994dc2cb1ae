---------------------------- MODULE SampleModels ----------------------------
(***************************************************************************)
(* The result values of one sampling window and the rules their frozen     *)
(* dataclasses enforce when they are constructed.  An *Accepts operator is *)
(* TRUE exactly when the constructor returns instead of raising            *)
(* ValueError; the type tests of __post_init__ (isinstance, isfinite) are  *)
(* the types of the fields here.                                           *)
(*                                                                         *)
(* Times are integers counted in a common tick, so the 1e-9 tolerances of  *)
(* the float comparisons vanish.  NoTime stands for Python's None.         *)
(***************************************************************************)
EXTENDS Integers, Sequences

NoTime == -1

MaxAttemptsPerSlot == 10

Status == {"SUCCESS", "PARTIAL", "FAILED"}

ErrorCode == {"EMULATOR_START_FAILED", "EMULATOR_STOP_FAILED",
              "MEASUREMENT_REQUEST_FAILED", "INVALID_MEASUREMENT",
              "SAMPLING_SLOT_MISSED"}

\* What one request can fail with and still be a sample of the run.
RequestFailure == {"MEASUREMENT_REQUEST_FAILED", "INVALID_MEASUREMENT"}

-----------------------------------------------------------------------------
(* The envelope of one measurement: "measured" says that current and       *)
(* latency are both present (they are set together or not at all).         *)

MeasurementResult ==
  [status : Status, measured : BOOLEAN, errors : SUBSET ErrorCode]

MeasurementResultAccepts(r) ==
  \/ r.status = "SUCCESS" /\ r.measured  /\ r.errors = {}
  \/ r.status = "FAILED"  /\ ~r.measured /\ r.errors # {}
  \/ r.status = "PARTIAL" /\ r.measured  /\ r.errors # {}

Succeeded == [status |-> "SUCCESS", measured |-> TRUE, errors |-> {}]

FailedWith(code) ==
  [status |-> "FAILED", measured |-> FALSE, errors |-> {code}]

-----------------------------------------------------------------------------
(* One scheduled slot.                                                     *)

SampleResult ==
  [index : Nat, scheduled : Nat, started : Nat \cup {NoTime},
   completed : Nat, attempts : 0 .. MaxAttemptsPerSlot,
   result : MeasurementResult]

MissedSlot(s) == "SAMPLING_SLOT_MISSED" \in s.result.errors

SampleResultAccepts(s) ==
  /\ MeasurementResultAccepts(s.result)
  /\ s.result.status # "PARTIAL"
  /\ s.completed >= s.scheduled
  /\ s.attempts \in 0 .. MaxAttemptsPerSlot
  /\ \/ /\ s.started = NoTime
        /\ s.result.status = "FAILED"
        /\ MissedSlot(s)
        /\ s.attempts = 0
     \/ /\ s.started # NoTime
        /\ s.started >= s.scheduled
        /\ s.completed >= s.started
        /\ ~MissedSlot(s)
        /\ s.attempts >= 1

-----------------------------------------------------------------------------
(* The aggregate of one window.                                            *)

SuccessfulSlots(samples) ==
  {i \in DOMAIN samples : samples[i].result.status = "SUCCESS"}

HasFailures(samples, errors) ==
  errors # {} \/ SuccessfulSlots(samples) # DOMAIN samples

\* The three statuses as SamplingResult checks them against its contents.
StatusAccepts(status, count, samples, errors) ==
  \/ /\ status = "SUCCESS"
     /\ Len(samples) = count
     /\ ~HasFailures(samples, errors)
  \/ /\ status = "PARTIAL"
     /\ SuccessfulSlots(samples) # {}
     /\ HasFailures(samples, errors)
  \/ /\ status = "FAILED"
     /\ SuccessfulSlots(samples) = {}
     /\ HasFailures(samples, errors)

\* A window that never opened carries no samples and no sampling time; one
\* that opened carries one sample per slot, on the fixed schedule, and covers
\* the whole window and every sample.
SamplingResultAccepts(r) ==
  /\ IF r.opened
       THEN /\ Len(r.samples) = r.count
            /\ r.samplingElapsed >= r.count * r.period
            /\ \A i \in DOMAIN r.samples :
                 r.samplingElapsed >= r.samples[i].completed
            /\ r.elapsed >= r.samplingElapsed
       ELSE r.samplingElapsed = NoTime /\ r.samples = <<>>
  /\ \A i \in DOMAIN r.samples :
       /\ r.samples[i].index = i - 1
       /\ r.samples[i].scheduled = (i - 1) * r.period
       /\ r.samples[i].attempts <= r.maxAttempts
  /\ StatusAccepts(r.status, r.count, r.samples, r.errors)
=============================================================================
