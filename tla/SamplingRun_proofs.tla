------------------------ MODULE SamplingRun_proofs --------------------------
(***************************************************************************)
(* Proofs about SamplingRun, for every number of slots, period, retry      *)
(* policy and length of the clock.  The properties speak of the samples    *)
(* already recorded; the inductive invariant adds what the code knows      *)
(* about the slot it is in (SlotInv), about the window as a whole          *)
(* (WindowInv) and about the way out (ExitInv).                            *)
(***************************************************************************)
EXTENDS SamplingRun, TLAPS

(* The inductive invariant.                                                *)

\* The window has been opened and not left: the emulator is up, no error has
\* been met and there is one sample for every slot before the current one.
WindowOpen ==
  pc \in {"waiting", "sleeping", "missed", "request", "inflight", "backoff",
          "record"}

WindowInv ==
  WindowOpen =>
    /\ origin \in Nat
    /\ origin <= now
    /\ Len(samples) = index
    /\ emulator = "running"
    /\ ~raised
    /\ errors = {}
    /\ windowEnd = NoTime
    /\ waiting = "window" => index = Count /\ pc \in {"waiting", "sleeping"}
    /\ waiting # "window" => index < Count
    /\ pc = "missed" => waiting = "slot" /\ now >= SlotEnd(index)

\* The current slot was started inside its interval, after every earlier slot
\* was complete, and has attempts left whenever another request may come.
InSlot ==
  \/ pc \in {"request", "inflight", "backoff", "record"}
  \/ pc \in {"waiting", "sleeping"} /\ waiting = "backoff"

SlotInv ==
  /\ InSlot =>
       /\ startedAt \in Nat
       /\ startedAt <= now
       /\ startedAt >= SlotStart(index)
       /\ startedAt < SlotEnd(index)
       /\ \A i \in 1 .. Len(samples) :
            samples[i].completed <= startedAt - origin
       /\ pc # "request" => attempts >= 1
       /\ pc \notin {"inflight", "record"} => attempts < MaxAttempts
  /\ pc \in {"waiting", "sleeping"} /\ waiting = "slot" => attempts = 0

\* What holds of the sample recorded for slot i once the clock shows t.
GoodSample(s, i, t) ==
  /\ SampleResultAccepts(s)
  /\ s.index = i - 1
  /\ s.scheduled = (i - 1) * Period
  /\ s.attempts <= MaxAttempts
  /\ s.completed <= t - origin
  /\ s.started = NoTime => s.completed >= s.scheduled + Period
  /\ s.started # NoTime => s.started < s.scheduled + Period

SamplesInv ==
  /\ origin = NoTime => samples = <<>>
  /\ \A i \in 1 .. Len(samples) : GoodSample(samples[i], i, now)
  /\ \A i, j \in 1 .. Len(samples) :
       i < j /\ samples[j].started # NoTime
         => samples[j].started >= samples[i].completed

\* Before the window and after it.
ExitInv ==
  /\ pc = "start" =>
       /\ origin = NoTime /\ windowEnd = NoTime /\ errors = {} /\ ~raised
       /\ emulator = "none" /\ waiting = "slot" /\ index = 0 /\ attempts = 0
  /\ pc \in {"stop", "report"} /\ ~raised /\ origin = NoTime =>
       windowEnd = NoTime /\ errors # {}
  /\ pc \in {"stop", "report"} /\ ~raised /\ origin # NoTime =>
       /\ Len(samples) = Count
       /\ windowEnd \in Nat
       /\ windowEnd <= now - origin
       /\ windowEnd >= Count * Period
       /\ \A i \in 1 .. Len(samples) : samples[i].completed <= windowEnd
  /\ pc = "stop" => emulator \in {"none", "running"}
  /\ pc = "report" =>
       /\ ~raised
       /\ emulator # "running"
       /\ emulator = "leaked" => "EMULATOR_STOP_FAILED" \in errors
  /\ pc = "raised" => emulator # "running"
  /\ pc = "returned" => SamplingResultAccepts(report) /\ EmulatorReleased

IInv == TypeOK /\ WindowInv /\ SlotInv /\ SamplesInv /\ ExitInv

-----------------------------------------------------------------------------
(* Facts the steps share.                                                  *)

\* Slot times are natural numbers.
LEMMA ProductNat == \A a, b \in Nat : a * b \in Nat
  OBVIOUS

\* The recorded samples stay good while the clock runs on.
LEMMA SamplesKept ==
  ASSUME IInv, samples' = samples, origin' = origin,
         now' \in Nat, now' >= now
  PROVE  SamplesInv'
<1>1. ASSUME NEW i \in 1 .. Len(samples)
      PROVE  GoodSample(samples[i], i, now)'
  <2>1. samples[i].completed \in Int
    <3>1. samples[i] \in SampleResult
      BY DEF IInv, TypeOK
    <3> QED
      BY <3>1 DEF SampleResult
  <2>2. GoodSample(samples[i], i, now)
    BY DEF IInv, SamplesInv
  <2>3. origin \in Int
    BY DEF IInv, TypeOK, NoTime
  <2> QED
    BY <2>1, <2>2, <2>3 DEF GoodSample, IInv, TypeOK
<1> QED
  BY <1>1 DEF IInv, SamplesInv

\* A window that has been opened has good samples, complete by now.
LEMMA CompleteByNow ==
  ASSUME IInv
  PROVE  \A i \in 1 .. Len(samples) : samples[i].completed <= now - origin
  BY DEF IInv, SamplesInv, GoodSample

-----------------------------------------------------------------------------
(* Every step of the code, and of the clock, preserves the invariant.      *)

\* The part of the invariant that does not look into the samples.
ControlInv == TypeOK /\ WindowInv /\ SlotInv /\ ExitInv

LEMMA ClockStep == ASSUME IInv, Tick PROVE IInv'
<1>1. ControlInv'
  BY SettingsAssumption, ProductNat
  DEF ControlInv, IInv, TypeOK, WindowInv, WindowOpen, SlotInv, InSlot, ExitInv,
      ProgramPoint, NoTime, waitVars, slotVars, resultVars, SlotStart, SlotEnd,
      Finished, EmulatorReleased, Tick
<1>2. SamplesInv'
  BY SamplesKept DEF Tick, resultVars, IInv, TypeOK
<1> QED
  BY <1>1, <1>2 DEF ControlInv, IInv

LEMMA StartStep == ASSUME IInv, Start PROVE IInv'
<1> USE SettingsAssumption, ProductNat
    DEF ControlInv, IInv, TypeOK, WindowInv, WindowOpen, SlotInv, InSlot,
        ExitInv, ProgramPoint, NoTime, waitVars, slotVars, resultVars,
        Finished, ErrorCode
<1>1. CASE StartSucceeds
  <2>1. samples = <<>>
    BY <1>1 DEF StartSucceeds, SamplesInv
  <2>2. ControlInv'
    BY <1>1, <2>1 DEF StartSucceeds
  <2>3. SamplesInv'
    BY <1>1, <2>1 DEF StartSucceeds, SamplesInv
  <2> QED
    BY <2>2, <2>3
<1>2. CASE StartFails
  <2>1. ControlInv'
    BY <1>2 DEF StartFails
  <2> QED
    BY <1>2, <2>1, SamplesKept DEF StartFails
<1>3. CASE StartRaises
  <2>1. ControlInv'
    BY <1>3 DEF StartRaises
  <2> QED
    BY <1>3, <2>1, SamplesKept DEF StartRaises
<1> QED
  BY <1>1, <1>2, <1>3 DEF Start

LEMMA WaitStep == ASSUME IInv, Wait PROVE IInv'
<1>1. SamplesInv'
  BY SamplesKept
  DEF Wait, SleepOn, ReachSlot, MissSlot, EndBackoff, OversleepBackoff,
      EndWindow, SleepRaises, StallRaises, resultVars, IInv, TypeOK
<1>2. \A i \in 1 .. Len(samples) : samples[i].completed <= now - origin
  BY CompleteByNow
<1>3. ControlInv'
  <2> USE SettingsAssumption, ProductNat
      DEF ControlInv, IInv, TypeOK, WindowInv, WindowOpen, SlotInv, InSlot,
          ExitInv, ProgramPoint, NoTime, waitVars, slotVars, resultVars,
          SlotStart, SlotEnd, Deadline, Expired, Reads, Stalled, Finished
  <2>1. CASE SleepOn
    BY <2>1, ZenonT(60) DEF SleepOn
  <2>2. CASE ReachSlot
    <3>1. /\ WindowOpen /\ index < Count /\ attempts = 0
          /\ now >= SlotStart(index) /\ now < SlotEnd(index)
          /\ origin \in Nat /\ now \in Nat
      BY <2>2, SMTT(60) DEF ReachSlot
    <3>2. SlotInv'
      BY <2>2, <1>2, <3>1, SMTT(60) DEF ReachSlot
    <3>3. TypeOK' /\ WindowInv' /\ ExitInv'
      BY <2>2, <3>1, SMTT(60) DEF ReachSlot
    <3> QED
      BY <3>2, <3>3
  <2>3. CASE MissSlot
    BY <2>3, SMTT(60) DEF MissSlot
  <2>4. CASE EndBackoff
    BY <2>4, ZenonT(60) DEF EndBackoff
  <2>5. CASE OversleepBackoff
    BY <2>5, SMTT(60) DEF OversleepBackoff
  <2>6. CASE EndWindow
    <3>1. /\ WindowOpen /\ index = Count
          /\ now >= origin + Count * Period
          /\ windowEnd' = now - origin
          /\ origin \in Nat /\ now \in Nat
      BY <2>6, SMTT(60) DEF EndWindow
    <3>2. ExitInv'
      BY <2>6, <1>2, <3>1, SMTT(60) DEF EndWindow
    <3>3. TypeOK' /\ WindowInv' /\ SlotInv'
      BY <2>6, <3>1, SMTT(60) DEF EndWindow
    <3> QED
      BY <3>2, <3>3
  <2>7. CASE SleepRaises
    BY <2>7, SMTT(60) DEF SleepRaises
  <2>8. CASE StallRaises
    BY <2>8, SMTT(60) DEF StallRaises
  <2> QED
    BY <2>1, <2>2, <2>3, <2>4, <2>5, <2>6, <2>7, <2>8 DEF Wait
<1> QED
  BY <1>1, <1>3 DEF ControlInv, IInv

LEMMA RequestStep == ASSUME IInv, Request PROVE IInv'
<1>1. SamplesInv'
  BY SamplesKept
  DEF Request, IssueRequest, RequestSucceeds, RequestRaises, RequestFails,
      PlanBackoff, resultVars, IInv, TypeOK
<1>2. ControlInv'
  <2> USE SettingsAssumption, ProductNat
      DEF ControlInv, IInv, TypeOK, WindowInv, WindowOpen, SlotInv, InSlot,
          ExitInv, ProgramPoint, NoTime, waitVars, slotVars, resultVars,
          SlotStart, SlotEnd, Unaffordable, AttemptsExhausted, Finished
  <2>1. CASE IssueRequest
    BY <2>1, SMTT(60) DEF IssueRequest
  <2>2. CASE RequestSucceeds
    BY <2>2, SMTT(60) DEF RequestSucceeds
  <2>3. CASE RequestRaises
    BY <2>3, SMTT(60) DEF RequestRaises
  <2>4. ASSUME NEW code \in RequestFailure, RequestFails(code)
        PROVE  ControlInv'
    BY <2>4, SMTT(60) DEF RequestFails
  <2>5. CASE PlanBackoff
    BY <2>5, SMTT(60) DEF PlanBackoff
  <2> QED
    BY <2>1, <2>2, <2>3, <2>4, <2>5 DEF Request
<1> QED
  BY <1>1, <1>2 DEF ControlInv, IInv

\* Recording a good sample that starts after every earlier one is complete
\* keeps the invariant; the two Record actions build such a sample.
LEMMA RecordGoodSample ==
  ASSUME IInv, NEW s \in SampleResult, pc \in {"missed", "record"},
         NextSlot(s), GoodSample(s, index + 1, now),
         s.started # NoTime =>
           \A i \in 1 .. Len(samples) : samples[i].completed <= s.started
  PROVE  IInv'
<1>1. /\ WindowOpen /\ waiting # "window" /\ index < Count
      /\ origin \in Nat /\ now \in Nat /\ Len(samples) = index
      /\ samples \in Seq(SampleResult) /\ index \in Nat
  BY SettingsAssumption DEF IInv, WindowInv, WindowOpen, TypeOK
<1>2. /\ samples' \in Seq(SampleResult)
      /\ Len(samples') = index + 1
      /\ samples'[index + 1] = s
      /\ \A i \in 1 .. index : samples'[i] = samples[i]
  BY <1>1 DEF NextSlot
<1>3. SamplesInv'
  <2>1. \A i \in 1 .. Len(samples') : GoodSample(samples'[i], i, now)
    BY <1>1, <1>2 DEF IInv, SamplesInv
  <2>2. (\A i \in 1 .. Len(samples) : GoodSample(samples[i], i, now))'
    BY <2>1 DEF GoodSample, NextSlot
  <2>3. \A i, j \in 1 .. Len(samples') :
          i < j /\ samples'[j].started # NoTime
            => samples'[j].started >= samples'[i].completed
    <3> SUFFICES ASSUME NEW i \in 1 .. Len(samples'),
                        NEW j \in 1 .. Len(samples'),
                        i < j, samples'[j].started # NoTime
                 PROVE  samples'[j].started >= samples'[i].completed
      OBVIOUS
    <3>1. i \in 1 .. index
      BY <1>1, <1>2
    <3>2. CASE j = index + 1
      <4>1. samples[i] \in SampleResult
        BY <1>1, <3>1
      <4>2. samples[i].completed \in Int /\ s.started \in Int
        BY <4>1 DEF SampleResult, NoTime
      <4>3. samples[i].completed <= s.started
        BY <1>1, <1>2, <3>1, <3>2
      <4> QED
        BY <1>2, <3>1, <3>2, <4>2, <4>3
    <3>3. CASE j \in 1 .. index
      BY <1>1, <1>2, <3>1, <3>3 DEF IInv, SamplesInv
    <3> QED
      BY <1>1, <1>2, <3>2, <3>3
  <2> QED
    BY <1>1, <2>2, <2>3 DEF SamplesInv, NextSlot, NoTime
<1>4. ControlInv'
  BY <1>1, <1>2, SettingsAssumption
  DEF ControlInv, IInv, TypeOK, WindowInv, WindowOpen, SlotInv, InSlot,
      ExitInv, ProgramPoint, NoTime, NextSlot, Finished
<1> QED
  BY <1>3, <1>4 DEF ControlInv, IInv

\* What the two Record actions append is a SampleResult.
LEMMA SlotTimes ==
  ASSUME IInv, pc \in {"missed", "record"}
  PROVE  /\ origin \in Nat /\ now \in Nat /\ origin <= now
         /\ index \in Nat /\ index * Period \in Nat /\ Period \in Nat \ {0}
         /\ (index + 1) - 1 = index
  BY SettingsAssumption, ProductNat DEF IInv, WindowInv, WindowOpen, TypeOK

LEMMA MissedSampleType ==
  ASSUME IInv, pc = "missed" PROVE MissedSample(now) \in SampleResult
<1>1. FailedWith("SAMPLING_SLOT_MISSED") \in MeasurementResult
  BY DEF FailedWith, MeasurementResult, Status, ErrorCode
<1> QED
  BY SlotTimes, <1>1 DEF MissedSample, SampleResult, NoTime, MaxAttemptsPerSlot

\* A started slot at the point where it is recorded.
LEMMA StartedSlot ==
  ASSUME IInv, pc = "record"
  PROVE  /\ startedAt \in Nat /\ startedAt <= now
         /\ startedAt >= origin + index * Period
         /\ startedAt < origin + index * Period + Period
         /\ \A i \in 1 .. Len(samples) :
              samples[i].completed <= startedAt - origin
         /\ attempts \in 1 .. MaxAttempts
         /\ MaxAttempts \in 1 .. MaxAttemptsPerSlot
         /\ failure \in RequestFailure \cup {"none"}
  BY SettingsAssumption DEF IInv, SlotInv, InSlot, SlotEnd, SlotStart, TypeOK

SlotOutcome == IF failure = "none" THEN Succeeded ELSE FailedWith(failure)

LEMMA SlotOutcomeAccepted ==
  ASSUME IInv
  PROVE  /\ SlotOutcome \in MeasurementResult
         /\ MeasurementResultAccepts(SlotOutcome)
         /\ SlotOutcome.status # "PARTIAL"
         /\ "SAMPLING_SLOT_MISSED" \notin SlotOutcome.errors
<1>1. failure \in RequestFailure \cup {"none"}
  BY DEF IInv, TypeOK
<1> QED
  BY <1>1
  DEF SlotOutcome, FailedWith, Succeeded, MeasurementResult, Status, ErrorCode,
      RequestFailure, MeasurementResultAccepts

LEMMA StartedSampleType ==
  ASSUME IInv, pc = "record" PROVE StartedSample(now) \in SampleResult
<1>1. /\ index \in Nat /\ index * Period \in Nat
      /\ startedAt - origin \in Nat /\ now - origin \in Nat
  BY SlotTimes, StartedSlot, SMTT(60)
<1>2. attempts \in 0 .. MaxAttemptsPerSlot
  BY StartedSlot DEF MaxAttemptsPerSlot
<1>3. SlotOutcome \in MeasurementResult
  BY SlotOutcomeAccepted
<1> QED
  BY <1>1, <1>2, <1>3 DEF StartedSample, SlotOutcome, SampleResult

LEMMA RecordStep == ASSUME IInv, Record PROVE IInv'
<1>1. pc \in {"missed", "record"}
  BY DEF Record, RecordMissed, RecordStarted
<1>2. CASE RecordMissed
  <2> DEFINE s == MissedSample(now)
  <2>1. now >= origin + index * Period + Period
    BY <1>2 DEF RecordMissed, IInv, WindowInv, WindowOpen, SlotEnd, SlotStart
  <2>2. s \in SampleResult /\ s.started = NoTime
    BY <1>2, MissedSampleType DEF RecordMissed, MissedSample
  <2>3. SampleResultAccepts(s)
    BY <1>1, <2>1, SlotTimes
    DEF MissedSample, SampleResultAccepts, MeasurementResultAccepts,
        FailedWith, MissedSlot, NoTime, MaxAttemptsPerSlot
  <2>4. GoodSample(s, index + 1, now)
    BY <1>1, <2>1, <2>3, SlotTimes, SettingsAssumption
    DEF MissedSample, GoodSample, NoTime
  <2> QED
    BY <1>2, <2>2, <2>4, RecordGoodSample DEF RecordMissed
<1>3. CASE RecordStarted
  <2> DEFINE s == StartedSample(now)
  <2>1. pc = "record" /\ NextSlot(s)
    BY <1>3 DEF RecordStarted
  <2>2. /\ s.index = index /\ s.scheduled = index * Period
        /\ s.started = startedAt - origin /\ s.completed = now - origin
        /\ s.attempts = attempts /\ s.result = SlotOutcome
    BY DEF StartedSample, SlotOutcome
  <2>3. s \in SampleResult
    BY <2>1, StartedSampleType
  <2> HIDE DEF s
  <2>4. SampleResultAccepts(s)
    <3>1. /\ MeasurementResultAccepts(s.result)
          /\ s.result.status # "PARTIAL"
          /\ ~MissedSlot(s)
      BY <2>2, SlotOutcomeAccepted DEF MissedSlot
    <3>2. /\ s.started \in Nat /\ s.started # NoTime
          /\ s.started >= s.scheduled /\ s.completed >= s.started
          /\ s.completed >= s.scheduled
          /\ s.attempts \in 0 .. MaxAttemptsPerSlot /\ s.attempts >= 1
      <4>1. /\ startedAt \in Nat /\ startedAt <= now
            /\ startedAt >= origin + index * Period
            /\ attempts \in 1 .. MaxAttemptsPerSlot
        BY <2>1, StartedSlot DEF MaxAttemptsPerSlot
      <4>2. origin \in Nat /\ now \in Nat /\ index * Period \in Nat
        BY <1>1, SlotTimes
      <4> QED
        BY <2>2, <4>1, <4>2 DEF NoTime, MaxAttemptsPerSlot
    <3> QED
      BY <3>1, <3>2 DEF SampleResultAccepts
  <2>5. GoodSample(s, index + 1, now)
    BY <1>1, <2>1, <2>2, <2>4, SlotTimes, StartedSlot, SMTT(60)
    DEF GoodSample, NoTime, MaxAttemptsPerSlot
  <2>6. \A i \in 1 .. Len(samples) : samples[i].completed <= s.started
    BY <2>1, <2>2, StartedSlot
  <2> QED
    BY <2>1, <2>3, <2>5, <2>6, RecordGoodSample
<1> QED
  BY <1>2, <1>3 DEF Record

LEMMA StopStep == ASSUME IInv, Stop PROVE IInv'
<1>1. SamplesInv'
  BY SamplesKept
  DEF Stop, NothingToStop, StopSucceeds, StopFails, resultVars, IInv, TypeOK
<1>2. ControlInv'
  <2> USE SettingsAssumption, ProductNat
      DEF ControlInv, IInv, TypeOK, WindowInv, WindowOpen, SlotInv, InSlot,
          ExitInv, ProgramPoint, ErrorCode, NoTime, waitVars, slotVars,
          resultVars, AfterStop, Finished
  <2>1. CASE NothingToStop
    BY <2>1 DEF NothingToStop
  <2>2. CASE StopSucceeds
    BY <2>2 DEF StopSucceeds
  <2>3. CASE StopFails
    BY <2>3 DEF StopFails
  <2> QED
    BY <2>1, <2>2, <2>3 DEF Stop
<1> QED
  BY <1>1, <1>2 DEF ControlInv, IInv

\* The status the code computes is one the constructor accepts.
LEMMA RunStatusAccepted ==
  ASSUME samples \in Seq(SampleResult),
         Len(samples) = Count \/ (samples = <<>> /\ errors # {})
  PROVE  StatusAccepts(RunStatus, Count, samples, errors)
<1>1. DOMAIN samples = 1 .. Len(samples) /\ Len(samples) \in Nat
  OBVIOUS
<1>2. Len(samples) # Count => HasFailures(samples, errors)
  BY DEF HasFailures
<1>3. SuccessfulSlots(samples) = {} => HasFailures(samples, errors)
  <2>1. Len(samples) = Count => 1 \in DOMAIN samples
    BY <1>1, SettingsAssumption
  <2> QED
    BY <2>1 DEF HasFailures
<1> QED
  BY <1>2, <1>3 DEF StatusAccepts, RunStatus

LEMMA ReportStep == ASSUME IInv, Report PROVE IInv'
<1>1. /\ pc = "report" /\ pc' = "returned" /\ ~raised /\ emulator # "running"
      /\ emulator = "leaked" => "EMULATOR_STOP_FAILED" \in errors
      /\ samples \in Seq(SampleResult) /\ DOMAIN samples = 1 .. Len(samples)
      /\ now \in Nat /\ errors \in SUBSET ErrorCode
  BY DEF Report, IInv, ExitInv, TypeOK
<1>2. Len(samples) = Count \/ (samples = <<>> /\ errors # {})
  BY <1>1 DEF IInv, ExitInv, SamplesInv
<1>3. /\ report'.status = RunStatus /\ report'.opened = (origin # NoTime)
      /\ report'.count = Count /\ report'.period = Period
      /\ report'.maxAttempts = MaxAttempts /\ report'.samples = samples
      /\ report'.errors = errors /\ report'.samplingElapsed = windowEnd
      /\ report'.elapsed = now
  BY DEF Report
<1>4. StatusAccepts(report'.status, report'.count, report'.samples,
                    report'.errors)
  BY <1>1, <1>2, <1>3, RunStatusAccepted
<1>5. \A i \in DOMAIN report'.samples :
        /\ report'.samples[i].index = i - 1
        /\ report'.samples[i].scheduled = (i - 1) * report'.period
        /\ report'.samples[i].attempts <= report'.maxAttempts
  BY <1>1, <1>3 DEF IInv, SamplesInv, GoodSample
<1>6. ASSUME origin # NoTime PROVE SamplingResultAccepts(report')
  <2>1. /\ Len(samples) = Count
        /\ windowEnd \in Nat
        /\ windowEnd <= now - origin
        /\ windowEnd >= Count * Period
        /\ \A i \in 1 .. Len(samples) : samples[i].completed <= windowEnd
        /\ origin \in Nat
    BY <1>1, <1>6 DEF IInv, ExitInv, TypeOK
  <2>2. /\ now >= windowEnd
        /\ \A i \in 1 .. Len(samples) : samples[i].completed \in Nat
    <3>1. \A i \in 1 .. Len(samples) : samples[i] \in SampleResult
      BY <1>1
    <3> QED
      BY <1>1, <2>1, <3>1 DEF SampleResult
  <2>3. Count * Period \in Nat
    BY SettingsAssumption, ProductNat
  <2>4. \A i \in DOMAIN report'.samples :
          report'.samplingElapsed >= report'.samples[i].completed
    BY <1>1, <1>3, <2>1, <2>2
  <2> HIDE DEF RunStatus
  <2>5. report'.samplingElapsed >= report'.count * report'.period
    BY <1>3, <2>1
  <2>6. /\ report'.opened
        /\ Len(report'.samples) = report'.count
        /\ report'.elapsed >= report'.samplingElapsed
    BY <1>3, <1>6, <2>1, <2>2
  <2> QED
    BY <1>4, <1>5, <2>4, <2>5, <2>6 DEF SamplingResultAccepts
<1>7. ASSUME origin = NoTime PROVE SamplingResultAccepts(report')
  <2>1. samples = <<>> /\ windowEnd = NoTime
    BY <1>1, <1>7 DEF IInv, ExitInv, SamplesInv
  <2>2. ~report'.opened /\ report'.samplingElapsed = NoTime
        /\ report'.samples = <<>>
    BY <1>3, <1>7, <2>1
  <2> QED
    BY <1>4, <1>5, <2>2 DEF SamplingResultAccepts
<1>8. SamplingResultAccepts(report')
  BY <1>6, <1>7
<1>9. emulator = "leaked" => RunStatus # "SUCCESS"
  BY <1>1 DEF RunStatus, HasFailures
<1>10. RunStatus \in Status
  BY DEF RunStatus, Status
<1>11. ControlInv'
  BY <1>1, <1>3, <1>8, <1>9, <1>10
  DEF Report, ControlInv, IInv, TypeOK, WindowInv, WindowOpen, SlotInv, InSlot,
      ExitInv, ProgramPoint, NoTime, waitVars, slotVars, Finished,
      EmulatorReleased
<1>12. SamplesInv'
  BY SamplesKept DEF Report, IInv, TypeOK
<1> QED
  BY <1>11, <1>12 DEF ControlInv, IInv

-----------------------------------------------------------------------------
(* The invariant and what follows from it.                                 *)

LEMMA Initially == ASSUME Init PROVE IInv
<1>1. /\ Len(samples) = 0 /\ samples \in Seq(SampleResult)
      /\ report.status = "none"
  BY DEF Init, NoReport
<1>2. ControlInv
  <2>1. TypeOK
    <3>1. /\ now \in Nat /\ reading \in {NoTime} /\ origin \in {NoTime}
          /\ index \in 0 .. Count /\ attempts \in 0 .. MaxAttempts
      BY SettingsAssumption DEF Init, MaxAttemptsPerSlot
    <3>2. /\ errors \in SUBSET ErrorCode /\ raised \in BOOLEAN
          /\ waiting \in {"slot", "backoff", "window"}
          /\ startedAt \in {NoTime} /\ resumeAt \in {NoTime}
          /\ windowEnd \in {NoTime} /\ failure = "none"
          /\ emulator = "none" /\ pc \in ProgramPoint
      BY DEF Init, ProgramPoint
    <3> QED
      BY <1>1, <3>1, <3>2 DEF TypeOK
  <2>2. pc = "start"
    BY DEF Init
  <2>3. WindowInv /\ SlotInv
    BY <2>2 DEF WindowInv, WindowOpen, SlotInv, InSlot
  <2>4. ExitInv
    BY DEF Init, ExitInv
  <2> QED
    BY <2>1, <2>3, <2>4 DEF ControlInv
<1>3. SamplesInv
  BY <1>1 DEF Init, SamplesInv
<1> QED
  BY <1>2, <1>3 DEF ControlInv, IInv

LEMMA NextStep == IInv /\ [Next]_vars => IInv'
<1>1. ASSUME IInv, UNCHANGED vars PROVE IInv'
  BY <1>1
  DEF vars, IInv, TypeOK, WindowInv, WindowOpen, SlotInv, InSlot, SamplesInv,
      GoodSample, ExitInv, EmulatorReleased, Finished, SlotStart, SlotEnd
<1> QED
  BY <1>1, ClockStep, StartStep, WaitStep, RequestStep, RecordStep, StopStep,
     ReportStep DEF Next, Step

LEMMA Invariance == Spec => []IInv
  BY Initially, NextStep, PTL DEF Spec

\* Every reachable state of a sampling run is well typed: in particular no
\* slot is recorded past the last one and no request exceeds the retry policy.
THEOREM TypeCorrect == Spec => []TypeOK
<1>1. IInv => TypeOK
  BY DEF IInv
<1> QED
  BY <1>1, Invariance, PTL

\* Whatever the clock does between the reads of collect_scheduled_sample, the
\* sample it builds satisfies the rules of SampleResult.__post_init__.
THEOREM EverySampleAccepted == Spec => []SamplesAccepted
<1>1. IInv => SamplesAccepted
  <2>1. TypeOK => DOMAIN samples = 1 .. Len(samples)
    BY DEF TypeOK
  <2> QED
    BY <2>1 DEF IInv, SamplesInv, GoodSample, SamplesAccepted
<1> QED
  BY <1>1, Invariance, PTL

\* Slots neither drift nor overlap: each is started inside its own half-open
\* interval, or given up after it, and only once the earlier ones are complete.
THEOREM ScheduleIsFixed == Spec => []FixedSchedule
<1>1. IInv => FixedSchedule
  <2>1. TypeOK => DOMAIN samples = 1 .. Len(samples)
    BY DEF TypeOK
  <2> QED
    BY <2>1 DEF IInv, SamplesInv, GoodSample, FixedSchedule
<1> QED
  BY <1>1, Invariance, PTL

\* Every report satisfies the rules of SamplingResult.__post_init__: one sample
\* per slot, the whole window covered, and a status that matches the contents.
THEOREM EveryReportAccepted == Spec => []ReportAccepted
<1>1. IInv => ReportAccepted
  BY DEF IInv, ExitInv, ReportAccepted
<1> QED
  BY <1>1, Invariance, PTL

\* Every sample and every report passes the rules of its result model, whatever
\* the clock did between two reads and whichever way the run took.
THEOREM EveryResultAccepted == Spec => []ResultsAccepted
  BY EverySampleAccepted, EveryReportAccepted, PTL DEF ResultsAccepted

\* No path out of the run, returning or raising, leaves an emulator running
\* that was never told to stop, and a leak is always reported.
THEOREM EmulatorAlwaysReleased == Spec => []EmulatorReleased
<1>1. IInv => EmulatorReleased
  BY DEF IInv, ExitInv, EmulatorReleased, Finished
<1> QED
  BY <1>1, Invariance, PTL

-----------------------------------------------------------------------------
(* The retry budget.  While a slot is being measured its requests have     *)
(* already taken at least the backoffs between them, and a planned backoff *)
(* ends inside the slot.                                                   *)

Budgeted(backoffs, t) ==
  /\ backoffs <= t - startedAt
  /\ backoffs > 0 => backoffs < Period

BudgetInv ==
  /\ pc \in {"inflight", "backoff", "record"}
       \/ (pc \in {"waiting", "sleeping"} /\ waiting = "backoff")
       => Budgeted((attempts - 1) * RetryDelay, now)
  /\ pc = "request" => Budgeted(attempts * RetryDelay, now)
  /\ pc \in {"waiting", "sleeping"} /\ waiting = "backoff" =>
       resumeAt \in Nat /\ Budgeted(attempts * RetryDelay, resumeAt)
  /\ RetryBudget

\* One more attempt is one more delay.
LEMMA OneMoreDelay ==
  \A a \in Nat \ {0} :
    /\ (a - 1) * RetryDelay \in Nat
    /\ a * RetryDelay = (a - 1) * RetryDelay + RetryDelay
  BY SettingsAssumption

\* The budget of the recorded slots is not touched while none is recorded.
LEMMA BudgetKept ==
  ASSUME RetryBudget, samples' = samples PROVE RetryBudget'
  BY DEF RetryBudget

LEMMA BudgetRecordStep == ASSUME IInv, BudgetInv, Record PROVE BudgetInv'
<1>1. pc' = "waiting" /\ waiting' # "backoff"
  BY DEF Record, RecordMissed, RecordStarted, NextSlot
<1>2. ASSUME NEW s \in SampleResult, NextSlot(s),
             s.attempts > 1 =>
               /\ s.attempts <= MaxAttempts
               /\ (s.attempts - 1) * RetryDelay < Period
               /\ s.completed - s.started >= (s.attempts - 1) * RetryDelay
      PROVE  RetryBudget'
  <2>1. samples \in Seq(SampleResult) /\ samples' = Append(samples, s)
    BY <1>2 DEF IInv, TypeOK, NextSlot
  <2>2. \A i \in DOMAIN samples' :
          \/ samples'[i] = s
          \/ i \in DOMAIN samples /\ samples'[i] = samples[i]
    <3>1. /\ Len(samples) \in Nat
          /\ DOMAIN samples' = 1 .. (Len(samples) + 1)
          /\ DOMAIN samples = 1 .. Len(samples)
          /\ samples'[Len(samples) + 1] = s
          /\ \A i \in 1 .. Len(samples) : samples'[i] = samples[i]
      BY <2>1
    <3>2. \A i \in 1 .. (Len(samples) + 1) :
            i = Len(samples) + 1 \/ i \in 1 .. Len(samples)
      BY <3>1
    <3>3. ASSUME NEW i \in DOMAIN samples'
          PROVE  \/ samples'[i] = s
                 \/ i \in DOMAIN samples /\ samples'[i] = samples[i]
      <4>1. i \in 1 .. (Len(samples) + 1)
        BY <3>1
      <4>2. CASE i = Len(samples) + 1
        BY <3>1, <4>2
      <4>3. CASE i \in 1 .. Len(samples)
        BY <3>1, <4>3
      <4> QED
        BY <3>2, <4>1, <4>2, <4>3
    <3> QED
      BY <3>3
  <2> QED
    BY <1>2, <2>2 DEF BudgetInv, RetryBudget
<1>3. CASE RecordMissed
  <2> DEFINE s == MissedSample(now)
  <2>1. s.attempts = 0 /\ NextSlot(s)
    BY <1>3 DEF MissedSample, RecordMissed
  <2>2. s \in SampleResult
    BY <1>3, MissedSampleType DEF RecordMissed
  <2> HIDE DEF s
  <2> QED
    BY <1>1, <1>2, <2>1, <2>2 DEF BudgetInv
<1>4. CASE RecordStarted
  <2> DEFINE s == StartedSample(now)
             backoffs == (attempts - 1) * RetryDelay
  <2>1. /\ s.attempts = attempts /\ s.started = startedAt - origin
        /\ s.completed = now - origin /\ NextSlot(s)
    BY <1>4 DEF StartedSample, RecordStarted
  <2>2. s \in SampleResult
    BY <1>4, StartedSampleType DEF RecordStarted
  <2>3. Budgeted(backoffs, now)
    BY <1>4 DEF BudgetInv, RecordStarted
  <2>4. /\ attempts \in 1 .. MaxAttempts /\ startedAt \in Int /\ now \in Int
        /\ origin \in Int
    BY <1>4, SettingsAssumption
    DEF RecordStarted, IInv, SlotInv, InSlot, TypeOK, NoTime,
        MaxAttemptsPerSlot
  <2>5. backoffs \in Nat /\ Period \in Nat \ {0}
    BY <2>4, OneMoreDelay, SettingsAssumption DEF MaxAttemptsPerSlot
  <2> HIDE DEF s
  <2>6. s.completed - s.started >= backoffs /\ backoffs < Period
    BY <2>1, <2>3, <2>4, <2>5 DEF Budgeted
  <2> QED
    BY <1>1, <1>2, <2>1, <2>2, <2>4, <2>6, SettingsAssumption
    DEF BudgetInv, MaxAttemptsPerSlot
<1> QED
  BY <1>3, <1>4 DEF Record

LEMMA BudgetSlotStep ==
  ASSUME IInv, BudgetInv, Tick \/ Wait \/ Request PROVE BudgetInv'
<1>1. RetryBudget'
  BY BudgetKept
  DEF BudgetInv, Tick, Wait, SleepOn, ReachSlot, MissSlot, EndBackoff,
      OversleepBackoff, EndWindow, SleepRaises, StallRaises, Request,
      IssueRequest, RequestSucceeds, RequestRaises, RequestFails, PlanBackoff,
      resultVars
<1>2. /\ now \in Nat /\ attempts \in Nat /\ startedAt \in Int
      /\ RetryDelay \in Nat /\ Period \in Nat \ {0}
  BY SettingsAssumption DEF IInv, TypeOK, NoTime, MaxAttemptsPerSlot
<1>3. CASE Tick
  <2>1. attempts * RetryDelay \in Int /\ (attempts - 1) * RetryDelay \in Int
    BY <1>2
  <2> QED
    BY <1>1, <1>2, <1>3, <2>1
    DEF BudgetInv, Budgeted, Tick, waitVars, slotVars
<1>4. CASE ReachSlot
  <2>1. /\ pc' = "request" /\ startedAt' = now /\ now' = now
        /\ attempts' = 0
    BY <1>4 DEF ReachSlot, IInv, SlotInv, Reads
  <2>2. attempts' * RetryDelay = 0
    BY <1>2, <2>1
  <2> QED
    BY <1>1, <1>2, <2>1, <2>2 DEF BudgetInv, Budgeted
<1>5. CASE EndBackoff
  <2>1. /\ pc' = "request" /\ now >= resumeAt /\ resumeAt \in Nat
        /\ attempts * RetryDelay \in Int
        /\ Budgeted(attempts * RetryDelay, resumeAt)
    BY <1>2, <1>5 DEF EndBackoff, BudgetInv, Reads, Deadline
  <2> QED
    BY <1>1, <1>2, <1>5, <2>1 DEF EndBackoff, BudgetInv, Budgeted, slotVars
<1>6. CASE IssueRequest
  <2>1. /\ pc' = "inflight" /\ (attempts' - 1) = attempts
        /\ Budgeted(attempts * RetryDelay, now)
    BY <1>2, <1>6 DEF IssueRequest, BudgetInv
  <2> QED
    BY <1>1, <1>6, <2>1 DEF IssueRequest, BudgetInv, Budgeted
<1>7. CASE PlanBackoff
  <2> DEFINE backoffs == (attempts - 1) * RetryDelay
  <2>1. /\ attempts \in Nat \ {0} /\ startedAt \in Nat /\ startedAt <= now
        /\ startedAt >= SlotStart(index)
        /\ Budgeted(backoffs, now)
        /\ resumeAt' = now + RetryDelay
        /\ pc' \in {"record", "waiting"}
        /\ pc' = "waiting" => ~Unaffordable(now)
        /\ index * Period \in Int /\ origin \in Int
    BY <1>2, <1>7
    DEF PlanBackoff, BudgetInv, IInv, SlotInv, InSlot, TypeOK, NoTime
  <2>2. backoffs \in Nat /\ attempts * RetryDelay = backoffs + RetryDelay
    BY <2>1, OneMoreDelay
  <2>3. pc' = "waiting" => now + RetryDelay < startedAt + Period
    BY <1>2, <2>1 DEF Unaffordable, SlotEnd, SlotStart
  <2> HIDE DEF backoffs
  <2>4. pc' = "waiting" => Budgeted(attempts * RetryDelay, now + RetryDelay)
    BY <1>2, <2>1, <2>2, <2>3 DEF Budgeted
  <2>5. /\ (Budgeted(attempts * RetryDelay, resumeAt))' <=>
             Budgeted(attempts * RetryDelay, now + RetryDelay)
        /\ (Budgeted((attempts - 1) * RetryDelay, now))' <=>
             Budgeted(backoffs, now)
        /\ resumeAt' \in Nat
    BY <1>2, <1>7, <2>1 DEF PlanBackoff, Budgeted, backoffs
  <2> QED
    BY <1>1, <2>1, <2>4, <2>5 DEF BudgetInv
<1>8. CASE SleepOn \/ OversleepBackoff \/ RequestSucceeds
           \/ \E code \in RequestFailure : RequestFails(code)
  BY <1>1, <1>8
  DEF SleepOn, OversleepBackoff, RequestSucceeds, RequestFails, BudgetInv,
      Budgeted, Reads, waitVars, slotVars
<1>9. CASE MissSlot \/ EndWindow \/ SleepRaises \/ StallRaises \/ RequestRaises
  <2>1. pc' \in {"missed", "stop"}
    BY <1>9 DEF MissSlot, EndWindow, SleepRaises, StallRaises, RequestRaises
  <2> QED
    BY <1>1, <2>1 DEF BudgetInv
<1> QED
  BY <1>3, <1>4, <1>5, <1>6, <1>7, <1>8, <1>9 DEF Wait, Request

LEMMA BudgetStep == ASSUME IInv, BudgetInv, [Next]_vars PROVE BudgetInv'
<1>1. CASE UNCHANGED vars
  BY <1>1 DEF BudgetInv, Budgeted, RetryBudget, vars
<1>2. CASE Record
  BY <1>2, BudgetRecordStep
<1>3. CASE Tick \/ Wait \/ Request
  BY <1>3, BudgetSlotStep
<1>4. CASE Start \/ Stop \/ Report
  <2>1. /\ samples' = samples
        /\ \/ pc' \in {"stop", "report", "returned", "raised"}
           \/ pc' = "waiting" /\ waiting' = "slot"
    <3>1. CASE Start
      BY <3>1
      DEF Start, StartSucceeds, StartFails, StartRaises, resultVars, waitVars,
          IInv, ExitInv
    <3>2. CASE Stop \/ Report
      <4>1. AfterStop \in {"report", "raised"}
        BY DEF AfterStop
      <4> QED
        BY <3>2, <4>1
        DEF Stop, NothingToStop, StopSucceeds, StopFails, Report, resultVars
    <3> QED
      BY <1>4, <3>1, <3>2
  <2> QED
    BY <2>1, BudgetKept DEF BudgetInv
<1> QED
  BY <1>1, <1>2, <1>3, <1>4 DEF Next, Step

\* Retries stay inside their slot's budget for every retry policy: the backoffs
\* between a slot's requests were waited out and together fit in one period.
THEOREM RetriesStayInBudget == Spec => []RetryBudget
<1>1. Init => BudgetInv
  BY DEF Init, BudgetInv, RetryBudget
<1>2. IInv /\ BudgetInv /\ [Next]_vars => BudgetInv'
  BY BudgetStep
<1>3. BudgetInv => RetryBudget
  BY DEF BudgetInv
<1> QED
  BY <1>1, <1>2, <1>3, Invariance, PTL DEF Spec

-----------------------------------------------------------------------------
(* SamplingRun implements SamplingContract.                                *)

Outcomes == [i \in DOMAIN samples |-> ContractOutcome(samples[i])]

LEMMA OutcomesKept == samples' = samples => Outcomes' = Outcomes
  BY DEF Outcomes, ContractOutcome

LEMMA OutcomesAppended ==
  ASSUME NEW s \in SampleResult, samples \in Seq(SampleResult),
         samples' = Append(samples, s)
  PROVE  /\ Outcomes' = Append(Outcomes, ContractOutcome(s))
         /\ Len(Outcomes) = Len(samples)
<1> DEFINE O == {"answered", "unanswered", "missed"}
<1>1. \A x : ContractOutcome(x) \in O
  BY DEF ContractOutcome
<1>2. /\ Len(samples) \in Nat /\ DOMAIN samples = 1 .. Len(samples)
      /\ samples' \in Seq(SampleResult)
      /\ Len(samples') = Len(samples) + 1
      /\ DOMAIN samples' = 1 .. (Len(samples) + 1)
      /\ samples'[Len(samples) + 1] = s
      /\ \A i \in 1 .. Len(samples) : samples'[i] = samples[i]
  OBVIOUS
<1>3. Outcomes \in Seq(O) /\ Len(Outcomes) = Len(samples)
  BY <1>1, <1>2 DEF Outcomes
<1>4. Outcomes' = [i \in 1 .. (Len(samples) + 1) |-> ContractOutcome(samples'[i])]
  BY <1>2 DEF Outcomes, ContractOutcome
<1>5. Append(Outcomes, ContractOutcome(s)) =
        [i \in 1 .. (Len(samples) + 1) |->
           IF i = Len(samples) + 1 THEN ContractOutcome(s)
           ELSE ContractOutcome(samples[i])]
  BY <1>1, <1>2, <1>3 DEF Outcomes
<1>6. \A i \in 1 .. (Len(samples) + 1) :
        ContractOutcome(samples'[i]) =
          IF i = Len(samples) + 1 THEN ContractOutcome(s)
          ELSE ContractOutcome(samples[i])
  BY <1>2
<1> QED
  BY <1>3, <1>4, <1>5, <1>6

LEMMA ContractDecides ==
  ASSUME IInv, Record PROVE \E o \in Contract!Outcome : Contract!Decide(o)
<1>1. /\ ContractPhase = "open" /\ ContractPhase' = "open"
      /\ now' = now /\ origin' = origin
  BY DEF Record, RecordMissed, RecordStarted, NextSlot, ContractPhase
<1>2. PICK s \in SampleResult :
        /\ samples' = Append(samples, s)
        /\ ContractOutcome(s) = "missed" => now >= SlotEnd(index)
  <2>1. CASE RecordMissed
    <3>1. now >= SlotEnd(index)
      BY <2>1 DEF RecordMissed, IInv, WindowInv, WindowOpen
    <3> QED
      BY <2>1, <3>1, MissedSampleType DEF RecordMissed, NextSlot
  <2>2. CASE RecordStarted
    <3>1. ContractOutcome(StartedSample(now)) # "missed"
      <4>1. startedAt - origin # NoTime
        BY <2>2, SlotTimes, StartedSlot DEF RecordStarted, NoTime
      <4> QED
        BY <4>1 DEF ContractOutcome, StartedSample
    <3> QED
      BY <2>2, <3>1, StartedSampleType DEF RecordStarted, NextSlot
  <2> QED
    BY <2>1, <2>2 DEF Record
<1>3. /\ samples \in Seq(SampleResult) /\ Len(samples) = index
      /\ index < Count /\ now >= SlotStart(index)
      /\ origin \in Nat /\ now \in Nat /\ index \in Nat
  <2>1. /\ samples \in Seq(SampleResult) /\ Len(samples) = index
        /\ index < Count /\ origin \in Nat /\ now \in Nat /\ index \in Nat
    BY SettingsAssumption
    DEF Record, RecordMissed, RecordStarted, IInv, TypeOK, WindowInv,
        WindowOpen
  <2>2. index * Period \in Nat /\ Period \in Nat
    BY <2>1, SettingsAssumption, ProductNat
  <2>3. CASE RecordMissed
    BY <2>1, <2>2, <2>3
    DEF RecordMissed, IInv, WindowInv, WindowOpen, SlotStart, SlotEnd
  <2>4. CASE RecordStarted
    BY <2>1, <2>2, <2>4, StartedSlot DEF RecordStarted, SlotStart
  <2> QED
    BY <2>1, <2>3, <2>4 DEF Record
<1>4. /\ Outcomes' = Append(Outcomes, ContractOutcome(s))
      /\ Len(Outcomes) = index
  BY <1>2, <1>3, OutcomesAppended
<1>5. (index + 1) * Period = index * Period + Period
  BY <1>3, SettingsAssumption
<1>6. ContractOutcome(s) \in Contract!Outcome
  BY DEF ContractOutcome, Contract!Outcome
<1>7. /\ now >= Contract!SlotTime(Len(Outcomes))
      /\ ContractOutcome(s) = "missed" =>
           now >= Contract!SlotTime(Len(Outcomes) + 1)
  <2>1. index * Period \in Int /\ Period \in Int
    BY <1>3, SettingsAssumption
  <2> QED
    BY <1>2, <1>3, <1>4, <1>5, <2>1 DEF Contract!SlotTime, SlotStart, SlotEnd
<1>8. Contract!Decide(ContractOutcome(s))
  BY <1>1, <1>3, <1>4, <1>7 DEF Contract!Decide, Outcomes
<1> QED
  BY <1>6, <1>8

LEMMA ContractStep ==
  ASSUME IInv, [Next]_vars PROVE [Contract!CNext]_(Contract!cvars)
<1> USE OutcomesKept
    DEF Contract!cvars, Contract!CNext, Outcomes
<1>1. CASE UNCHANGED vars
  BY <1>1 DEF vars, ContractPhase
<1>2. CASE Tick
  BY <1>2 DEF Tick, Contract!Advance, ContractPhase, resultVars
<1>3. CASE StartSucceeds
  BY <1>3 DEF StartSucceeds, Contract!Open, ContractPhase, resultVars
<1>4. CASE StartFails
  BY <1>4 DEF StartFails, Contract!Reject, ContractPhase, IInv, ExitInv
<1>5. CASE StartRaises \/ SleepRaises \/ StallRaises \/ RequestRaises
  BY <1>5
  DEF StartRaises, SleepRaises, StallRaises, RequestRaises, Stalled,
      Contract!Abort, ContractPhase, resultVars
<1>6. CASE SleepOn \/ ReachSlot \/ MissSlot \/ EndBackoff \/ OversleepBackoff
  BY <1>6
  DEF SleepOn, ReachSlot, MissSlot, EndBackoff, OversleepBackoff, Reads,
      ContractPhase, resultVars
<1>7. CASE EndWindow
  <2>1. /\ ContractPhase = "open" /\ pc' = "stop" /\ ~raised' /\ origin' = origin
        /\ origin \in Nat /\ now' = now /\ samples' = samples
        /\ Len(samples) = Count
        /\ now >= Contract!SlotTime(Count)
    BY <1>7
    DEF EndWindow, Reads, Deadline, ContractPhase, IInv, WindowInv, WindowOpen,
        Contract!SlotTime
  <2>2. ContractPhase' = "complete"
    BY <2>1 DEF ContractPhase, NoTime
  <2>3. Len(Outcomes) = Count
    <3>1. samples \in Seq(SampleResult)
      BY DEF IInv, TypeOK
    <3> QED
      BY <2>1, <3>1
  <2> QED
    BY <2>1, <2>2, <2>3 DEF Contract!Complete
<1>8. CASE IssueRequest \/ RequestSucceeds \/ PlanBackoff
           \/ \E code \in RequestFailure : RequestFails(code)
  BY <1>8
  DEF IssueRequest, RequestSucceeds, PlanBackoff, RequestFails, ContractPhase,
      resultVars
<1>9. CASE Record
  BY <1>9, ContractDecides
<1>10. CASE Stop
  BY <1>10
  DEF Stop, NothingToStop, StopSucceeds, StopFails, AfterStop,
      Contract!Deliver, ContractPhase, resultVars
<1>11. CASE Report
  BY <1>11
  DEF Report, Contract!Deliver, ContractPhase, IInv, ExitInv
<1> QED
  BY <1>1, <1>2, <1>3, <1>4, <1>5, <1>6, <1>7, <1>8, <1>9, <1>10, <1>11
  DEF Next, Step, Start, Wait, Request

\* Every sampling run, whatever its settings, is a behaviour of
\* SamplingContract: the waits, retries, clock reads and the finally block
\* never decide a slot twice, out of order or early.
THEOREM RunKeepsContract == Spec => KeepsContract
<1>1. Init => Contract!CInit
  <2>1. ASSUME Init PROVE Contract!CInit
    BY <2>1 DEF Init, Contract!CInit, ContractPhase, NoTime
  <2> QED
    BY <2>1
<1>2. IInv /\ [Next]_vars => [Contract!CNext]_(Contract!cvars)
  BY ContractStep
<1> QED
  BY <1>1, <1>2, Invariance, PTL DEF Spec, KeepsContract, Contract!CSpec
=============================================================================
