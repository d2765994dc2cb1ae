---------------------------- MODULE SamplingRun -----------------------------
(***************************************************************************)
(* One call of run_ammeter_sampling_test for one ammeter: start its        *)
(* emulator, fill Count fixed slots of Period ticks, wait for the end of   *)
(* the window, stop the emulator whatever happened, report.                *)
(*                                                                         *)
(* The code runs in one thread; what is concurrent with it is the          *)
(* monotonic clock.  Tick may fall between any two steps, so every clock   *)
(* read of the code is a separate step here and a preemption, a slow       *)
(* request and a late wake-up are all covered by ticks.                    *)
(***************************************************************************)
EXTENDS SampleModels

CONSTANTS
  Count,        \* SamplingSettings.measurements_count
  Period,       \* 1 / sampling_frequency_hz, in ticks
  MaxAttempts,  \* RetryPolicy.max_attempts
  RetryDelay,   \* RetryPolicy.retry_delay_seconds, in ticks
  MaxTime       \* bound: the clock of a behaviour stops here

\* What SamplingSettings and RetryPolicy accept.  total_duration_seconds is
\* Count * Period: SamplingSettings rejects any other combination.
ASSUME SettingsAssumption ==
  /\ Count \in Nat \ {0}
  /\ Period \in Nat \ {0}
  /\ MaxAttempts \in 1 .. MaxAttemptsPerSlot
  /\ RetryDelay \in Nat
  /\ MaxTime \in Nat

VARIABLES
  now,        \* the monotonic clock; operation_started is 0
  pc,         \* the next step of the code
  waiting,    \* which call of wait_until_deadline is active
  reading,    \* its current_time
  origin,     \* sampling_origin
  index,      \* sample_index
  startedAt,  \* started_at of the current slot
  attempts,   \* requests issued in the current slot
  failure,    \* code of the slot's last failed request
  resumeAt,   \* resume_at of the current backoff
  samples,    \* the results so far, slot i at position i + 1
  errors,     \* codes of the run's own errors
  emulator,   \* what became of the emulator the run owns
  raised,     \* an exception is propagating
  windowEnd,  \* sampling_elapsed_seconds
  report      \* the returned SamplingResult

vars == <<now, pc, waiting, reading, origin, index, startedAt, attempts,
          failure, resumeAt, samples, errors, emulator, raised, windowEnd,
          report>>

waitVars   == <<waiting, reading>>
slotVars   == <<index, startedAt, attempts, failure, resumeAt>>
resultVars == <<samples, errors, windowEnd, report>>

NoReport == [status |-> "none"]

ProgramPoint == {"start", "waiting", "sleeping", "missed", "request",
                 "inflight", "backoff", "record", "stop", "report",
                 "returned", "raised"}

Finished == pc \in {"returned", "raised"}

Init ==
  /\ now = 0
  /\ pc = "start"
  /\ waiting = "slot"
  /\ reading = NoTime
  /\ origin = NoTime
  /\ index = 0
  /\ startedAt = NoTime
  /\ attempts = 0
  /\ failure = "none"
  /\ resumeAt = NoTime
  /\ samples = <<>>
  /\ errors = {}
  /\ emulator = "none"
  /\ raised = FALSE
  /\ windowEnd = NoTime
  /\ report = NoReport

-----------------------------------------------------------------------------
(* The schedule.  Slot i is the half-open interval that starts at          *)
(* SlotStart(i) and ends where slot i + 1 starts.                          *)

SlotStart(i) == origin + i * Period
SlotEnd(i)   == SlotStart(i) + Period

\* Mutated form of Deadline: the window is taken to end at its last deadline.
DeadlineOfLastSlot ==
  CASE waiting = "slot"    -> SlotStart(index)
    [] waiting = "backoff" -> resumeAt
    [] waiting = "window"  -> origin + (Count - 1) * Period

\* The deadline argument of the active wait_until_deadline.
Deadline ==
  CASE waiting = "slot"    -> SlotStart(index)
    [] waiting = "backoff" -> resumeAt
    [] waiting = "window"  -> origin + Count * Period

\* Mutated forms of Expired: a closed interval, and no exemption for the window.
ExpiredAfterEnd(t)   == waiting # "window" /\ t > SlotEnd(index)
ExpiredInWindowToo(t) == t >= SlotEnd(index)

\* t is at or past the wait's slot_end; the window's own wait has none.
Expired(t) == waiting # "window" /\ t >= SlotEnd(index)

\* The backoff could not end before the slot does.
Unaffordable(t) == t + RetryDelay >= SlotEnd(index)

AttemptsExhausted == attempts >= MaxAttempts

-----------------------------------------------------------------------------
(* The clock.                                                              *)

Tick ==
  /\ ~Finished
  /\ now < MaxTime
  /\ now' = now + 1
  /\ UNCHANGED <<pc, waitVars, origin, slotVars, resultVars, emulator, raised>>

-----------------------------------------------------------------------------
(* Starting the emulator.  EmulatorStartError becomes an error of the      *)
(* result; a starter that does not return exactly the requested emulator   *)
(* is treated alike, but what it returned is stopped; any other exception  *)
(* propagates.                                                             *)

StartSucceeds ==
  /\ pc = "start"
  /\ emulator' = "running"
  /\ origin' = now
  /\ pc' = "waiting"
  /\ UNCHANGED <<now, waitVars, slotVars, resultVars, raised>>

StartFails ==
  /\ pc = "start"
  /\ emulator' \in {"none", "running"}
  /\ errors' = errors \cup {"EMULATOR_START_FAILED"}
  /\ pc' = "stop"
  /\ UNCHANGED <<now, waitVars, origin, slotVars, samples, windowEnd, report,
                 raised>>

StartRaises ==
  /\ pc = "start"
  /\ raised' = TRUE
  /\ pc' = "stop"
  /\ UNCHANGED <<now, waitVars, origin, slotVars, resultVars, emulator>>

-----------------------------------------------------------------------------
(* wait_until_deadline.  "waiting" is its first clock read, "sleeping" the *)
(* read after the sleeper returned: at the deadline, late, or early.       *)

\* A sleeper that came back with a clock that did not move is a RuntimeError.
Stalled == pc = "sleeping" /\ now <= reading

Reads == pc \in {"waiting", "sleeping"} /\ ~Stalled

SleepOn ==
  /\ Reads
  /\ ~Expired(now)
  /\ now < Deadline
  /\ reading' = now
  /\ pc' = "sleeping"
  /\ UNCHANGED <<now, waiting, origin, slotVars, resultVars, emulator, raised>>

ReachSlot ==
  /\ Reads /\ waiting = "slot"
  /\ ~Expired(now)
  /\ now >= Deadline
  /\ startedAt' = now
  /\ reading' = NoTime
  /\ pc' = "request"
  /\ UNCHANGED <<now, waiting, origin, index, attempts, failure, resumeAt,
                 resultVars, emulator, raised>>

MissSlot ==
  /\ Reads /\ waiting = "slot"
  /\ Expired(now)
  /\ pc' = "missed"
  /\ UNCHANGED <<now, waitVars, origin, slotVars, resultVars, emulator, raised>>

EndBackoff ==
  /\ Reads /\ waiting = "backoff"
  /\ ~Expired(now)
  /\ now >= Deadline
  /\ reading' = NoTime
  /\ pc' = "request"
  /\ UNCHANGED <<now, waiting, origin, slotVars, resultVars, emulator, raised>>

OversleepBackoff ==
  /\ Reads /\ waiting = "backoff"
  /\ Expired(now)
  /\ pc' = "record"
  /\ UNCHANGED <<now, waitVars, origin, slotVars, resultVars, emulator, raised>>

EndWindow ==
  /\ Reads /\ waiting = "window"
  /\ ~Expired(now)
  /\ now >= Deadline
  /\ windowEnd' = now - origin
  /\ pc' = "stop"
  /\ UNCHANGED <<now, waitVars, origin, slotVars, samples, errors, report,
                 emulator, raised>>

\* Also what a cancellable sleeper does when the run is stopped.
SleepRaises ==
  /\ pc = "sleeping"
  /\ raised' = TRUE
  /\ pc' = "stop"
  /\ UNCHANGED <<now, waitVars, origin, slotVars, resultVars, emulator>>

-----------------------------------------------------------------------------
(* One request and the decision to retry it.                               *)

IssueRequest ==
  /\ pc = "request"
  /\ attempts' = attempts + 1
  /\ pc' = "inflight"
  /\ UNCHANGED <<now, waitVars, origin, index, startedAt, failure, resumeAt,
                 resultVars, emulator, raised>>

RequestSucceeds ==
  /\ pc = "inflight"
  /\ failure' = "none"
  /\ pc' = "record"
  /\ UNCHANGED <<now, waitVars, origin, index, startedAt, attempts, resumeAt,
                 resultVars, emulator, raised>>

RequestFails(code) ==
  /\ pc = "inflight"
  /\ failure' = code
  /\ pc' = IF AttemptsExhausted THEN "record" ELSE "backoff"
  /\ UNCHANGED <<now, waitVars, origin, index, startedAt, attempts, resumeAt,
                 resultVars, emulator, raised>>

\* Any other exception of the client: a cancelled run, a defect.
RequestRaises ==
  /\ pc = "inflight"
  /\ raised' = TRUE
  /\ pc' = "stop"
  /\ UNCHANGED <<now, waitVars, origin, slotVars, resultVars, emulator>>

\* Mutated form of PlanBackoff: every delay is counted from the slot's start.
PlanBackoffFromStart ==
  /\ pc = "backoff"
  /\ resumeAt' = startedAt + RetryDelay
  /\ IF Unaffordable(now)
       THEN pc' = "record" /\ UNCHANGED waiting
       ELSE pc' = "waiting" /\ waiting' = "backoff"
  /\ UNCHANGED <<now, reading, origin, index, startedAt, attempts, failure,
                 resultVars, emulator, raised>>

PlanBackoff ==
  /\ pc = "backoff"
  /\ resumeAt' = now + RetryDelay
  /\ IF Unaffordable(now)
       THEN pc' = "record" /\ UNCHANGED waiting
       ELSE pc' = "waiting" /\ waiting' = "backoff"
  /\ UNCHANGED <<now, reading, origin, index, startedAt, attempts, failure,
                 resultVars, emulator, raised>>

-----------------------------------------------------------------------------
(* Recording a slot and moving on.                                         *)

\* Mutated form of MissedSample: the reading that missed the slot is its start.
MissedSampleStarted(t) ==
  [index |-> index, scheduled |-> index * Period, started |-> t - origin,
   completed |-> t - origin, attempts |-> 0,
   result |-> FailedWith("SAMPLING_SLOT_MISSED")]

MissedSample(t) ==
  [index |-> index, scheduled |-> index * Period, started |-> NoTime,
   completed |-> t - origin, attempts |-> 0,
   result |-> FailedWith("SAMPLING_SLOT_MISSED")]

StartedSample(t) ==
  [index |-> index, scheduled |-> index * Period,
   started |-> startedAt - origin, completed |-> t - origin,
   attempts |-> attempts,
   result |-> IF failure = "none" THEN Succeeded ELSE FailedWith(failure)]

\* Mutated form of NextSlot: the attempts of a retried slot count for the next.
NextSlotKeepsAttempts(sample) ==
  /\ samples' = Append(samples, sample)
  /\ index' = index + 1
  /\ waiting' = IF index + 1 < Count THEN "slot" ELSE "window"
  /\ pc' = "waiting"
  /\ reading' = NoTime
  /\ startedAt' = NoTime
  /\ failure' = "none"
  /\ resumeAt' = NoTime
  /\ UNCHANGED <<now, origin, attempts, errors, windowEnd, report, emulator, raised>>

\* The locals of the slot go out of scope with the call that held them.
NextSlot(sample) ==
  /\ samples' = Append(samples, sample)
  /\ index' = index + 1
  /\ waiting' = IF index + 1 < Count THEN "slot" ELSE "window"
  /\ pc' = "waiting"
  /\ reading' = NoTime
  /\ startedAt' = NoTime
  /\ attempts' = 0
  /\ failure' = "none"
  /\ resumeAt' = NoTime
  /\ UNCHANGED <<now, origin, errors, windowEnd, report, emulator, raised>>

RecordMissed == pc = "missed" /\ NextSlot(MissedSample(now))

RecordStarted == pc = "record" /\ NextSlot(StartedSample(now))

\* wait_until_deadline gives up: the clock stalled across a sleep.
StallRaises ==
  /\ Stalled
  /\ raised' = TRUE
  /\ pc' = "stop"
  /\ UNCHANGED <<now, waitVars, origin, slotVars, resultVars, emulator>>

-----------------------------------------------------------------------------
(* The finally block and the report.                                       *)

AfterStop == IF raised THEN "raised" ELSE "report"

NothingToStop ==
  /\ pc = "stop" /\ emulator = "none"
  /\ pc' = AfterStop
  /\ UNCHANGED <<now, waitVars, origin, slotVars, resultVars, emulator, raised>>

StopSucceeds ==
  /\ pc = "stop" /\ emulator = "running"
  /\ emulator' = "stopped"
  /\ pc' = AfterStop
  /\ UNCHANGED <<now, waitVars, origin, slotVars, resultVars, raised>>

\* Mutated form of StopFails: the error is dropped.
StopFailsSilently ==
  /\ pc = "stop" /\ emulator = "running"
  /\ emulator' = "leaked"
  /\ pc' = AfterStop
  /\ UNCHANGED <<now, waitVars, origin, slotVars, resultVars, raised>>

\* The serving thread outlived the shutdown timeout.
StopFails ==
  /\ pc = "stop" /\ emulator = "running"
  /\ emulator' = "leaked"
  /\ errors' = errors \cup {"EMULATOR_STOP_FAILED"}
  /\ pc' = AfterStop
  /\ UNCHANGED <<now, waitVars, origin, slotVars, samples, windowEnd, report,
                 raised>>

\* Mutated form of RunStatus: only the samples are looked at.
RunStatusOfSamples ==
  IF Len(samples) = Count /\ SuccessfulSlots(samples) = DOMAIN samples
    THEN "SUCCESS"
    ELSE IF SuccessfulSlots(samples) # {} THEN "PARTIAL" ELSE "FAILED"

RunStatus ==
  IF Len(samples) = Count /\ ~HasFailures(samples, errors)
    THEN "SUCCESS"
    ELSE IF SuccessfulSlots(samples) # {} THEN "PARTIAL" ELSE "FAILED"

Report ==
  /\ pc = "report"
  /\ report' = [status |-> RunStatus, opened |-> origin # NoTime,
                count |-> Count, period |-> Period,
                maxAttempts |-> MaxAttempts, samples |-> samples,
                errors |-> errors, samplingElapsed |-> windowEnd,
                elapsed |-> now]
  /\ pc' = "returned"
  /\ UNCHANGED <<now, waitVars, origin, slotVars, samples, errors, windowEnd,
                 emulator, raised>>

-----------------------------------------------------------------------------

Start   == StartSucceeds \/ StartFails \/ StartRaises
Wait    == \/ SleepOn \/ ReachSlot \/ MissSlot \/ EndBackoff
           \/ OversleepBackoff \/ EndWindow \/ SleepRaises \/ StallRaises
Request == \/ IssueRequest \/ RequestSucceeds \/ RequestRaises
           \/ \E code \in RequestFailure : RequestFails(code)
           \/ PlanBackoff
Record  == RecordMissed \/ RecordStarted
Stop    == NothingToStop \/ StopSucceeds \/ StopFails

Step == Start \/ Wait \/ Request \/ Record \/ Stop \/ Report

Next == Tick \/ Step

Spec == Init /\ [][Next]_vars

\* The thread is scheduled, the clock advances, and no call it makes blocks
\* for ever: the client, the starter and the stopper all have total timeouts.
FairSpec == Spec /\ WF_vars(Tick) /\ WF_vars(Step)

-----------------------------------------------------------------------------
(* Properties.                                                             *)

\* Every variable has its type.
TypeOK ==
  /\ now \in Nat
  /\ pc \in ProgramPoint
  /\ waiting \in {"slot", "backoff", "window"}
  /\ reading \in Nat \cup {NoTime}
  /\ origin \in Nat \cup {NoTime}
  /\ index \in 0 .. Count
  /\ startedAt \in Nat \cup {NoTime}
  /\ attempts \in 0 .. MaxAttempts
  /\ failure \in RequestFailure \cup {"none"}
  /\ resumeAt \in Nat \cup {NoTime}
  /\ samples \in Seq(SampleResult)
  /\ errors \in SUBSET ErrorCode
  /\ emulator \in {"none", "running", "stopped", "leaked"}
  /\ raised \in BOOLEAN
  /\ windowEnd \in Nat \cup {NoTime}
  /\ report.status \in Status \cup {"none"}

\* collect_scheduled_sample never trips over the domain's own rules: every
\* sample it builds is one the SampleResult constructor accepts, so no slot is
\* lost to a ValueError whatever the clock did between the reads.
SamplesAccepted ==
  \A i \in DOMAIN samples : SampleResultAccepts(samples[i])

\* The report assembled after the finally block, on every path through the
\* run, is one the SamplingResult constructor accepts.
ReportAccepted == pc = "returned" => SamplingResultAccepts(report)

\* Nothing the run builds is refused by the model that holds it, so no run ends
\* in a ValueError of its own making.
ResultsAccepted == SamplesAccepted /\ ReportAccepted

\* Slots do not drift and do not overlap: a started slot was started inside
\* its own half-open interval, a missed one was given up only after that
\* interval, and no slot starts before the earlier ones are complete.
FixedSchedule ==
  \A i \in DOMAIN samples :
    LET s == samples[i] IN
      /\ IF s.started = NoTime
           THEN s.completed >= s.scheduled + Period
           ELSE s.started < s.scheduled + Period
      /\ \A j \in DOMAIN samples :
           i < j /\ samples[j].started # NoTime
             => samples[j].started >= s.completed

\* A slot's retries stay within its budget: the backoffs between its requests
\* were all waited out, and all of them fitted inside one slot.
RetryBudget ==
  \A i \in DOMAIN samples :
    LET s == samples[i]
        backoffs == (s.attempts - 1) * RetryDelay
    IN  s.attempts > 1
          => /\ s.attempts <= MaxAttempts
             /\ backoffs < Period
             /\ s.completed - s.started >= backoffs

\* The finally block covers every way out: no run ends with an emulator it
\* started and never tried to stop, and a thread that would not stop shows up
\* in the report and rules out SUCCESS.
EmulatorReleased ==
  /\ Finished => emulator # "running"
  /\ pc = "returned" /\ emulator = "leaked"
       => "EMULATOR_STOP_FAILED" \in report.errors /\ report.status # "SUCCESS"

\* A run ends, returning or raising, once the clock advances and the calls it
\* makes come back.
RunEnds == <>Finished

\* The docstring of measure_with_retries: a request that is retried completes
\* inside its slot, so a recovery cannot delay the next deadline.
RetriesEndInTheirSlot ==
  \A i \in DOMAIN samples :
    samples[i].attempts > 1
      => samples[i].completed <= samples[i].scheduled + Period

-----------------------------------------------------------------------------
(* The window keeps its contract.                                          *)

ContractOutcome(s) ==
  IF s.started = NoTime THEN "missed"
  ELSE IF s.result.status = "SUCCESS" THEN "answered" ELSE "unanswered"

ContractPhase ==
  CASE pc = "returned" -> "reported"
    [] pc = "raised"   -> "raised"
    [] pc = "start"    -> "idle"
    [] pc \in {"stop", "report"} ->
         IF raised THEN "aborted"
         ELSE IF origin # NoTime THEN "complete" ELSE "rejected"
    [] OTHER -> "open"

Contract == INSTANCE SamplingContract WITH
  clock    <- now,
  phase    <- ContractPhase,
  openedAt <- origin,
  outcomes <- [i \in DOMAIN samples |-> ContractOutcome(samples[i])]

\* SamplingRun implements SamplingContract: one decision per slot, in order,
\* never early, and a report only for a complete or a rejected window.
KeepsContract == Contract!CSpec
=============================================================================
