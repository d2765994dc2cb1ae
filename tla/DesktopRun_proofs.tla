-------------------------- MODULE DesktopRun_proofs ---------------------------
(***************************************************************************)
(* Proofs about DesktopRun, for any number of runs, ammeters, slots and    *)
(* attempts: runs do not overlap (OneRunAtATime), the banner is true of    *)
(* the archive (BannerIsTrue), what is archived are whole windows          *)
(* (OnlyWholeWindowsArchived), a stop is prompt (StopIsPrompt), no sample  *)
(* is dropped (NoSampleDropped), an analysis comes after the samples of    *)
(* its window (AnalysisFollowsSamples) and an idle page shows the end of   *)
(* its run (IdlePageIsFinal).                                              *)
(*                                                                         *)
(* The page learns of the run only through the queue of events, so the     *)
(* inductive invariant IInv says in which order they can be queued at each *)
(* place of the worker (QueueInv), what they and the page say of the run   *)
(* (SeenInv, VerdictInv), and what the worker has done so far (LoopInv,    *)
(* WindowInv, LateInv).  The last three properties need SInv besides, the  *)
(* second part of this module.                                             *)
(***************************************************************************)
EXTENDS DesktopRun, SequenceTheorems, FiniteSetTheorems, TLAPS

Working == {"setup", "head", "start", "wait", "reading", "window", "analysed", "archive", "return"}

Samples == [ammeter : Ammeters, index : Int, ok : BOOLEAN]

Events ==
  [kind : {"samples"}, of : Nat, batch : Seq(Samples)]
  \cup [kind : {"stage"}, of : Nat, ammeter : Ammeters, stage : Stages]
  \cup [kind : {"analysis"}, of : Nat, ammeter : Ammeters]
  \cup [kind : {"completed"}, of : Nat, faulty : SUBSET Ammeters, cancelled : BOOLEAN]
  \cup [kind : {"failed", "quit", "finished"}, of : Nat]

TypeInv ==
  /\ run \in Nat /\ busy \in BOOLEAN /\ stop \in BOOLEAN
  /\ window \in {"open", "closed", "exited"}
  /\ stage \in [Ammeters -> Stages]
  /\ analysed \subseteq Ammeters /\ kept \subseteq Ammeters /\ faulty \subseteq Ammeters
  /\ banner \in Banners
  /\ inbox \in Seq(Events) /\ pending \in Seq(Samples)
  /\ count \in Ammeters /\ archiving \in BOOLEAN
  /\ wpc \in Working \cup {"none", "returned", "quitting", "killed"}
  /\ at \in Nat \ {0} /\ slot \in 1 .. Slots /\ attempt \in Nat /\ index \in Int
  /\ reached \in [Ammeters -> Nat]
  /\ late \in Nat

(* Which events can be queued, and in which order.                         *)
QueueInv ==
  /\ \A i \in DOMAIN inbox : inbox[i].of = run
  /\ window = "exited" <=> wpc = "killed"
  /\ wpc \in Working => busy /\ \A i \in DOMAIN inbox : inbox[i].kind \in {"samples", "stage", "analysis"}
  /\ wpc = "returned" =>
       /\ busy /\ inbox # <<>> /\ inbox[Len(inbox)].kind = "quit"
       /\ \A i \in 1 .. Len(inbox) - 1 : inbox[i].kind \notin {"quit", "finished"}
  /\ wpc = "quitting" => busy /\ inbox = <<>>
  /\ wpc = "none" /\ busy => Len(inbox) = 1 /\ inbox[1].kind = "finished"
  /\ ~busy => inbox = <<>> /\ wpc \in {"none", "killed"}
  /\ \A i, j \in DOMAIN inbox :
       inbox[i].kind \in {"completed", "failed"} /\ i < j => inbox[j].kind = "quit"
  /\ banner # "none" =>
       wpc \notin Working /\ \A i \in DOMAIN inbox : inbox[i].kind \in {"quit", "finished"}

(* The page knows an analysis, or it is in the queue; and who is shown as  *)
(* failed has failed.                                                      *)
Announced(a) == \E i \in DOMAIN inbox : inbox[i].kind = "analysis" /\ inbox[i].ammeter = a

SeenInv ==
  /\ \A a \in Ammeters : a \in kept <=> a \in analysed \/ Announced(a)
  /\ \A a \in Ammeters : stage[a] = "failed" => a \in faulty
  /\ \A i \in DOMAIN inbox :
       inbox[i].kind = "stage" /\ inbox[i].stage = "failed" => inbox[i].ammeter \in faulty

(* What an outcome means.                                                  *)
Verdict(failed, cancelled) ==
  /\ failed = faulty
  /\ cancelled => stop
  /\ failed = {} /\ ~cancelled => kept = 1 .. count
  /\ failed = {} /\ archiving => \A a \in kept : <<run, a>> \in archive

VerdictInv ==
  /\ \A i \in DOMAIN inbox : inbox[i].kind = "completed" => Verdict(inbox[i].faulty, inbox[i].cancelled)
  /\ banner = "complete" => Verdict({}, FALSE)
  /\ banner = "stopped" => Verdict({}, TRUE)

(* The ammeters the loop of execute_run has done with.                     *)
LoopInv ==
  /\ archive \subseteq {<<r, a>> : r \in 1 .. run, a \in Ammeters}
  /\ wpc \in Working =>
       /\ run >= 1
       /\ wpc \notin {"setup", "head", "return"} => at <= count
       /\ at <= count + 1
       /\ wpc = "return" => stop
       /\ wpc = "archive" => at \in kept
       /\ \A a \in 1 .. at - 1 : a \in kept \cup faulty
       /\ \A a \in kept : a < at \/ (a = at /\ wpc = "archive")
       /\ \A a \in kept : archiving /\ a < at => a \in faulty \/ <<run, a>> \in archive
       /\ \A a \in Ammeters : <<run, a>> \in archive => a < at

Whole(a) == reached[a] = Slots \/ a \in unstarted

WindowInv ==
  /\ \A a \in Ammeters : <<run, a>> \in archive => Whole(a)
  /\ wpc \in {"analysed", "archive"} => Whole(at)
  /\ wpc = "window" => reached[at] = Slots
  /\ wpc = "reading" => reached[at] = slot

LateInv ==
  /\ late <= 1
  /\ ~stop \/ wpc = "reading" => late = 0

IInv == TypeInv /\ QueueInv /\ SeenInv /\ VerdictInv /\ LoopInv /\ WindowInv /\ LateInv

-----------------------------------------------------------------------------
(* Nothing has happened yet.                                               *)
LEMMA InitEstablishes == Init => IInv
<1> SUFFICES ASSUME Init PROVE IInv
  OBVIOUS
<1>1. 1 \in Ammeters /\ 1 \in 1 .. Slots
  BY DesktopAssumption DEF Ammeters
<1>2. TypeInv
  <2>1. inbox \in Seq(Events) /\ pending \in Seq(Samples)
    BY DEF Init
  <2>2. stage \in [Ammeters -> Stages] /\ reached \in [Ammeters -> Nat]
    BY DEF Init, Each, Stages
  <2>3. run \in Nat /\ at \in Nat \ {0} /\ attempt \in Nat /\ index \in Int /\ late \in Nat
    BY DEF Init
  <2>4. /\ banner \in Banners /\ window \in {"open", "closed", "exited"}
        /\ wpc \in Working \cup {"none", "returned", "quitting", "killed"}
        /\ busy \in BOOLEAN /\ stop \in BOOLEAN /\ archiving \in BOOLEAN
    BY DEF Init, Banners
  <2> QED BY <1>1, <2>1, <2>2, <2>3, <2>4 DEF Init, TypeInv
<1>3. QueueInv
  BY DEF Init, QueueInv, Working
<1>4. SeenInv /\ VerdictInv
  BY DEF Init, SeenInv, VerdictInv, Announced, Each
<1>5. LoopInv /\ WindowInv /\ LateInv
  BY DEF Init, LoopInv, WindowInv, LateInv, Working
<1> QED BY <1>2, <1>3, <1>4, <1>5 DEF IInv

-----------------------------------------------------------------------------
(* The queue as the worker sees it.                                        *)

(* The queue keeps what it has and gains the flushed samples and events.   *)
LEMMA Posting ==
  ASSUME TypeInv, NEW events \in Seq(Events), Post(events)
  PROVE  /\ inbox' \in Seq(Events) /\ pending' \in Seq(Samples)
         /\ \E m \in Nat :
              /\ m >= Len(inbox) /\ Len(inbox') = m + Len(events)
              /\ \A i \in 1 .. Len(inbox) : inbox'[i] = inbox[i]
              /\ \A i \in Len(inbox) + 1 .. m : inbox'[i].kind = "samples" /\ inbox'[i].of = run
              /\ \A i \in 1 .. Len(events) : inbox'[m + i] = events[i]
<1>1. inbox \in Seq(Events) /\ pending \in Seq(Samples) /\ run \in Nat
  BY DEF TypeInv
<1>2. inbox' = (inbox \o Flushed) \o events /\ pending' = <<>>
  BY DEF Post
<1>3. /\ Flushed \in Seq(Events)
      /\ \A i \in 1 .. Len(Flushed) : Flushed[i].kind = "samples" /\ Flushed[i].of = run
  <2>1. CASE pending = <<>>
    BY <2>1 DEF Flushed
  <2>2. CASE pending # <<>>
    <3> DEFINE e == [kind |-> "samples", of |-> run, batch |-> pending]
    <3>1. e \in Events /\ e.kind = "samples" /\ e.of = run
      BY <1>1 DEF Events
    <3>2. Flushed = <<e>>
      BY <2>2 DEF Flushed
    <3> HIDE DEF e
    <3> QED BY <3>1, <3>2
  <2> QED BY <2>1, <2>2
<1>4. PICK queue \in Seq(Events), m \in Nat : queue = inbox \o Flushed /\ m = Len(queue)
  <2>1. inbox \o Flushed \in Seq(Events)
    BY <1>1, <1>3
  <2>2. Len(inbox \o Flushed) \in Nat
    BY <2>1
  <2> QED BY <2>1, <2>2
<1>5. /\ m = Len(inbox) + Len(Flushed)
      /\ \A i \in 1 .. Len(inbox) : queue[i] = inbox[i]
      /\ \A i \in Len(inbox) + 1 .. m : queue[i] = Flushed[i - Len(inbox)]
  BY <1>1, <1>3, <1>4
<1>6. /\ inbox' \in Seq(Events) /\ Len(inbox') = m + Len(events)
      /\ \A i \in 1 .. m : inbox'[i] = queue[i]
      /\ \A i \in 1 .. Len(events) : inbox'[m + i] = events[i]
  BY <1>2, <1>4
<1>7. Len(inbox) \in Nat /\ Len(Flushed) \in Nat
  BY <1>1, <1>3
<1>8. \A i \in Len(inbox) + 1 .. m : inbox'[i].kind = "samples" /\ inbox'[i].of = run
  <2> TAKE i \in Len(inbox) + 1 .. m
  <2>1. i \in 1 .. m /\ i - Len(inbox) \in 1 .. Len(Flushed)
    BY <1>5, <1>7
  <2>2. inbox'[i] = Flushed[i - Len(inbox)]
    BY <1>5, <1>6, <2>1
  <2> QED BY <1>3, <2>1, <2>2
<1>9. m >= Len(inbox) /\ \A i \in 1 .. Len(inbox) : inbox'[i] = inbox[i]
  BY <1>5, <1>6, <1>7
<1>10. pending' \in Seq(Samples)
  BY <1>2
<1> QED BY <1>6, <1>8, <1>9, <1>10

(* While the worker works, the queue holds no outcome, and there is none.  *)
LEMMA NoVerdictYet ==
  ASSUME QueueInv', (wpc \in Working)'
  PROVE  VerdictInv'
BY DEF QueueInv, VerdictInv

(* It stays in order as long as the worker goes on and tells no outcome.   *)
LEMMA WorkerQueue ==
  ASSUME TypeInv, QueueInv, wpc \in Working, wpc' \in Working, UNCHANGED page,
         inbox' \in Seq(Events), Len(inbox') >= Len(inbox),
         \A i \in 1 .. Len(inbox) : inbox'[i] = inbox[i],
         \A i \in Len(inbox) + 1 .. Len(inbox') :
           inbox'[i].of = run /\ inbox'[i].kind \in {"samples", "stage", "analysis"}
  PROVE  QueueInv' /\ VerdictInv'
<1>1. \A i \in DOMAIN inbox' : i \in 1 .. Len(inbox) \/ i \in Len(inbox) + 1 .. Len(inbox')
  BY DEF TypeInv
<1>2. \A i \in DOMAIN inbox' :
        inbox'[i].of = run /\ inbox'[i].kind \in {"samples", "stage", "analysis"}
  <2>1. \A i \in 1 .. Len(inbox) :
          inbox[i].of = run /\ inbox[i].kind \in {"samples", "stage", "analysis"}
    BY DEF QueueInv, TypeInv
  <2> QED
    BY <1>1, <2>1
<1>3. UNCHANGED <<run, window, busy, banner>>
  BY DEF page
<1>4. /\ "killed" \notin Working /\ "returned" \notin Working /\ "quitting" \notin Working
      /\ "none" \notin Working
  BY DEF Working
<1>5. QueueInv'
  BY <1>2, <1>3, <1>4 DEF QueueInv
<1> QED BY <1>5, NoVerdictYet

(* A worker that goes on and posts some stages or an analysis.             *)
LEMMA WorkerPosts ==
  ASSUME TypeInv, QueueInv, wpc \in Working, wpc' \in Working, UNCHANGED page,
         NEW events \in Seq(Events), Post(events),
         \A i \in 1 .. Len(events) : events[i].of = run /\ events[i].kind \in {"stage", "analysis"}
  PROVE  QueueInv' /\ VerdictInv'
<1>1. PICK m \in Nat :
        /\ m >= Len(inbox) /\ Len(inbox') = m + Len(events)
        /\ \A i \in 1 .. Len(inbox) : inbox'[i] = inbox[i]
        /\ \A i \in Len(inbox) + 1 .. m : inbox'[i].kind = "samples" /\ inbox'[i].of = run
        /\ \A i \in 1 .. Len(events) : inbox'[m + i] = events[i]
  BY Posting
<1>2. inbox' \in Seq(Events) /\ Len(inbox) \in Nat /\ Len(events) \in Nat
  BY Posting DEF TypeInv
<1>3. ASSUME NEW i \in Len(inbox) + 1 .. Len(inbox')
      PROVE  inbox'[i].of = run /\ inbox'[i].kind \in {"samples", "stage", "analysis"}
  <2>1. CASE i <= m
    BY <1>1, <1>2, <2>1
  <2>2. CASE i > m
    <3>1. i - m \in 1 .. Len(events) /\ inbox'[m + (i - m)] = events[i - m] /\ m + (i - m) = i
      BY <1>1, <1>2, <2>2
    <3> QED BY <3>1
  <2> QED BY <1>2, <2>1, <2>2
<1> QED BY <1>1, <1>2, <1>3, WorkerQueue

(* What is announced of a queue to which stages of ammeters are posted.    *)
LEMMA StagePosted ==
  ASSUME TypeInv, SeenInv, NEW a \in Ammeters, NEW st \in Stages, Post(<<Stage(a, st)>>),
         UNCHANGED <<page, kept>>, faulty \subseteq faulty', st = "failed" => a \in faulty'
  PROVE  SeenInv'
<1> DEFINE events == <<Stage(a, st)>>
<1>1. /\ events \in Seq(Events) /\ Len(events) = 1 /\ events[1].kind = "stage"
      /\ events[1].ammeter = a /\ events[1].stage = st
  BY DEF Stage, Events, TypeInv
<1>2. Post(events)
  OBVIOUS
<1> HIDE DEF events
<1>3. PICK m \in Nat :
        /\ m >= Len(inbox) /\ Len(inbox') = m + Len(events)
        /\ \A i \in 1 .. Len(inbox) : inbox'[i] = inbox[i]
        /\ \A i \in Len(inbox) + 1 .. m : inbox'[i].kind = "samples" /\ inbox'[i].of = run
        /\ \A i \in 1 .. Len(events) : inbox'[m + i] = events[i]
  BY <1>1, <1>2, Posting
<1>4. inbox' \in Seq(Events) /\ Len(inbox) \in Nat /\ DOMAIN inbox = 1 .. Len(inbox)
  BY <1>1, <1>2, Posting DEF TypeInv
<1>5. DOMAIN inbox' = 1 .. m + 1 /\ inbox'[m + 1] = events[1]
  BY <1>1, <1>3, <1>4
<1>6. \A b \in Ammeters : Announced(b)' <=> Announced(b)
  <2> SUFFICES ASSUME NEW b \in Ammeters PROVE Announced(b)' <=> Announced(b)
    OBVIOUS
  <2>1. ASSUME NEW i \in DOMAIN inbox', inbox'[i].kind = "analysis" PROVE i \in DOMAIN inbox /\ inbox'[i] = inbox[i]
    BY <1>1, <1>3, <1>4, <1>5, <2>1
  <2>2. \A i \in DOMAIN inbox : i \in DOMAIN inbox' /\ inbox'[i] = inbox[i]
    BY <1>3, <1>4, <1>5
  <2> QED BY <2>1, <2>2 DEF Announced
<1>7. \A i \in DOMAIN inbox' :
        inbox'[i].kind = "stage" /\ inbox'[i].stage = "failed" => inbox'[i].ammeter \in faulty'
  <2> SUFFICES ASSUME NEW i \in DOMAIN inbox', inbox'[i].kind = "stage", inbox'[i].stage = "failed"
               PROVE  inbox'[i].ammeter \in faulty'
    OBVIOUS
  <2>1. CASE i = m + 1
    BY <1>1, <1>5, <2>1
  <2>2. CASE i # m + 1
    <3>1. i \in DOMAIN inbox /\ inbox'[i] = inbox[i]
      BY <1>3, <1>4, <1>5, <2>2
    <3> QED BY <3>1 DEF SeenInv
  <2> QED BY <2>1, <2>2
<1> QED BY <1>6, <1>7 DEF SeenInv, page

(* Where the worker works on an ammeter, it is one of the selection.       *)
LEMMA AtSelected ==
  ASSUME IInv, wpc \in Working \ {"setup", "head", "return"}
  PROVE  at \in Ammeters /\ at <= count
BY DesktopAssumption DEF IInv, TypeInv, LoopInv, Ammeters

-----------------------------------------------------------------------------
(* Steps of the worker that post nothing.                                  *)

LEMMA Silently ==
  ASSUME TypeInv, QueueInv, SeenInv, wpc \in Working, wpc' \in Working,
         UNCHANGED <<page, inbox, kept, faulty>>
  PROVE  QueueInv' /\ SeenInv' /\ VerdictInv'
<1>1. QueueInv' /\ VerdictInv'
  BY WorkerQueue DEF TypeInv
<1>2. SeenInv'
  BY DEF SeenInv, Announced, page
<1> QED BY <1>1, <1>2

LEMMA StepSetUp ==
  ASSUME IInv, SetUp
  PROVE  IInv'
<1>1. wpc \in Working /\ wpc' \in Working
  BY DEF SetUp, Working
<1>2. TypeInv'
  BY <1>1 DEF IInv, TypeInv, SetUp, page, loop, outcome, windows
<1>3. QueueInv' /\ SeenInv' /\ VerdictInv'
  BY <1>1, Silently DEF IInv, SetUp, outcome
<1>4. LoopInv' /\ WindowInv' /\ LateInv'
  BY <1>1 DEF IInv, SetUp, LoopInv, WindowInv, LateInv, Whole, page, loop, outcome, windows
<1> QED BY <1>2, <1>3, <1>4 DEF IInv

LEMMA StepStart ==
  ASSUME IInv, StartSucceeds \/ StartFails
  PROVE  IInv'
<1>1. wpc = "start" /\ wpc \in Working /\ wpc' \in {"wait", "analysed"} /\ wpc' \in Working
  BY DEF StartSucceeds, StartFails, Working
<1>2. UNCHANGED <<page, stop, inbox, loop, pending, outcome, emitted, reached, retried, lost, late>>
  BY DEF StartSucceeds, StartFails, windows
<1>3. TypeInv'
  BY <1>1, <1>2 DEF IInv, TypeInv, page, loop, outcome
<1>4. QueueInv' /\ SeenInv' /\ VerdictInv'
  BY <1>1, <1>2, Silently DEF IInv, outcome
<1>5. LoopInv' /\ LateInv'
  BY <1>1, <1>2 DEF IInv, LoopInv, LateInv, page, loop, outcome
<1>6. WindowInv'
  <2>1. unstarted \subseteq unstarted' /\ (wpc' = "analysed" => at \in unstarted')
    BY <1>1 DEF StartSucceeds, StartFails, windows
  <2> QED BY <1>1, <1>2, <2>1 DEF IInv, WindowInv, Whole, page, loop, outcome
<1> QED BY <1>3, <1>4, <1>5, <1>6 DEF IInv

LEMMA StepRequest ==
  ASSUME IInv, Request
  PROVE  IInv'
<1>1. /\ wpc = "wait" /\ wpc \in Working /\ wpc' = "reading" /\ wpc' \in Working /\ ~stop
      /\ attempt' = attempt + 1 /\ index' = index + 1 /\ reached' = [reached EXCEPT ![at] = slot]
      /\ UNCHANGED <<page, stop, inbox, at, slot, pending, outcome, emitted, lost, unstarted, late>>
  BY DEF Request, Working
<1>2. at \in Ammeters /\ at <= count /\ slot \in Nat
  BY <1>1, AtSelected, DesktopAssumption DEF IInv, TypeInv, Working
<1>3. TypeInv'
  BY <1>1, <1>2 DEF IInv, TypeInv, page, outcome
<1>4. QueueInv' /\ SeenInv' /\ VerdictInv'
  BY <1>1, Silently DEF IInv, outcome
<1>5. LoopInv' /\ LateInv'
  BY <1>1 DEF IInv, LoopInv, LateInv, page, outcome
<1>6. WindowInv'
  <2>1. \A a \in Ammeters : <<run, a>> \in archive => a # at
    BY <1>1, <1>2 DEF IInv, LoopInv, TypeInv, Ammeters
  <2> QED BY <1>1, <1>2, <2>1 DEF IInv, TypeInv, WindowInv, Whole, page, outcome
<1> QED BY <1>3, <1>4, <1>5, <1>6 DEF IInv

(* Going on to the next slot, or to the end of the window.                 *)
LEMMA SlotsInOrder ==
  ASSUME TypeInv, NextSlot
  PROVE  /\ slot' \in 1 .. Slots /\ attempt' \in Nat
         /\ wpc' \in {"wait", "window"} /\ (wpc' = "window" => slot = Slots)
BY DesktopAssumption DEF TypeInv, NextSlot

LEMMA StepGiveUpSlot ==
  ASSUME IInv, GiveUpSlot
  PROVE  IInv'
<1>1. /\ wpc = "wait" /\ wpc \in Working
      /\ reached' = [reached EXCEPT ![at] = slot]
      /\ UNCHANGED <<page, stop, inbox, at, index, pending, outcome, emitted, retried, unstarted, late>>
  BY DEF GiveUpSlot, Working
<1>2. /\ slot' \in 1 .. Slots /\ attempt' \in Nat
      /\ wpc' \in {"wait", "window"} /\ (wpc' = "window" => slot = Slots) /\ wpc' \in Working
  BY SlotsInOrder DEF GiveUpSlot, IInv, Working
<1>3. at \in Ammeters /\ at <= count /\ slot \in Nat
  BY <1>1, AtSelected, DesktopAssumption DEF IInv, TypeInv, Working
<1>4. TypeInv'
  BY <1>1, <1>2, <1>3 DEF IInv, TypeInv, page, outcome
<1>5. QueueInv' /\ SeenInv' /\ VerdictInv'
  BY <1>1, <1>2, Silently DEF IInv, outcome
<1>6. LoopInv' /\ LateInv'
  BY <1>1, <1>2 DEF IInv, LoopInv, LateInv, page, outcome
<1>7. WindowInv'
  <2>1. \A a \in Ammeters : <<run, a>> \in archive => a # at
    BY <1>1, <1>3 DEF IInv, LoopInv, TypeInv, Ammeters
  <2> QED BY <1>1, <1>2, <1>3, <2>1 DEF IInv, TypeInv, WindowInv, Whole, page, outcome
<1> QED BY <1>4, <1>5, <1>6, <1>7 DEF IInv

LEMMA StepEndWindow ==
  ASSUME IInv, EndWindow
  PROVE  IInv'
<1>1. /\ wpc = "window" /\ wpc \in Working /\ wpc' = "analysed" /\ wpc' \in Working
      /\ UNCHANGED <<page, stop, inbox, loop, pending, outcome, windows>>
  BY DEF EndWindow, Working
<1>2. TypeInv'
  BY <1>1 DEF IInv, TypeInv, page, loop, outcome, windows
<1>3. QueueInv' /\ SeenInv' /\ VerdictInv'
  BY <1>1, Silently DEF IInv, outcome
<1>4. LoopInv' /\ WindowInv' /\ LateInv'
  BY <1>1 DEF IInv, LoopInv, WindowInv, LateInv, Whole, page, loop, outcome, windows
<1> QED BY <1>2, <1>3, <1>4 DEF IInv

-----------------------------------------------------------------------------
(* Steps of the worker that post.                                          *)

(* A sample waits for its flush, or is flushed.                            *)
LEMMA Collecting ==
  ASSUME IInv, wpc = "reading", wpc' \in Working, NEW ok \in BOOLEAN, Collect(ok),
         UNCHANGED <<page, stop, outcome>>
  PROVE  /\ inbox' \in Seq(Events) /\ pending' \in Seq(Samples)
         /\ QueueInv' /\ SeenInv' /\ VerdictInv'
<1> DEFINE sample == [ammeter |-> at, index |-> index - 1, ok |-> ok]
           e == [kind |-> "samples", of |-> run, batch |-> Append(pending, sample)]
<1>1. TypeInv /\ QueueInv /\ SeenInv /\ wpc \in Working
  BY DEF IInv, Working
<1>2. sample \in Samples
  BY AtSelected DEF Samples, IInv, TypeInv, Working
<1>3. e \in Events /\ e.kind = "samples" /\ e.of = run
  BY <1>1, <1>2 DEF Events, TypeInv
<1>4. \/ pending' = Append(pending, sample) /\ inbox' = inbox
      \/ pending' = <<>> /\ inbox' = Append(inbox, e)
  BY DEF Collect
<1> HIDE DEF sample, e
<1>5. /\ inbox' \in Seq(Events) /\ pending' \in Seq(Samples) /\ Len(inbox) \in Nat
      /\ Len(inbox') = Len(inbox) \/ (Len(inbox') = Len(inbox) + 1 /\ inbox'[Len(inbox) + 1] = e)
      /\ \A i \in 1 .. Len(inbox) : inbox'[i] = inbox[i]
  <2>1. inbox \in Seq(Events) /\ pending \in Seq(Samples) /\ Len(inbox) \in Nat
    BY <1>1 DEF TypeInv
  <2>2. CASE pending' = Append(pending, sample) /\ inbox' = inbox
    BY <1>2, <2>1, <2>2
  <2>3. CASE pending' = <<>> /\ inbox' = Append(inbox, e)
    BY <1>3, <2>1, <2>3
  <2> QED BY <1>4, <2>2, <2>3
<1>6. \A i \in Len(inbox) + 1 .. Len(inbox') :
        inbox'[i].of = run /\ inbox'[i].kind \in {"samples", "stage", "analysis"}
  BY <1>3, <1>5
<1>7. QueueInv' /\ VerdictInv'
  BY <1>1, <1>5, <1>6, WorkerQueue
<1>8. SeenInv'
  <2>1. inbox \in Seq(Events)
    BY <1>1 DEF TypeInv
  <2>2. ASSUME NEW i \in DOMAIN inbox', inbox'[i].kind # "samples"
        PROVE  i \in DOMAIN inbox /\ inbox'[i] = inbox[i]
    <3>1. i \in 1 .. Len(inbox)
      BY <1>3, <1>5, <2>2
    <3> QED BY <1>5, <2>1, <3>1
  <2>3. \A i \in DOMAIN inbox : i \in DOMAIN inbox' /\ inbox'[i] = inbox[i]
    BY <1>5, <2>1
  <2>4. \A a \in Ammeters : Announced(a)' <=> Announced(a)
    BY <2>2, <2>3 DEF Announced
  <2>5. \A i \in DOMAIN inbox' :
          inbox'[i].kind = "stage" /\ inbox'[i].stage = "failed" => inbox'[i].ammeter \in faulty
    BY <1>1, <2>2 DEF SeenInv
  <2> QED BY <1>1, <2>4, <2>5 DEF SeenInv, page, outcome
<1> QED BY <1>5, <1>7, <1>8

LEMMA StepSucceedOrFail ==
  ASSUME IInv, Succeed \/ Fail
  PROVE  IInv'
<1>1. PICK ok \in BOOLEAN : Collect(ok)
  BY DEF Succeed, Fail
<1>2. /\ wpc = "reading" /\ wpc \in Working
      /\ UNCHANGED <<page, stop, at, index, outcome, reached, retried, unstarted>>
  BY DEF Succeed, Fail, Working
<1>3. /\ slot' \in 1 .. Slots /\ attempt' \in Nat
      /\ wpc' \in {"wait", "window"} /\ (wpc' = "window" => slot = Slots) /\ wpc' \in Working
  BY SlotsInOrder DEF Succeed, Fail, IInv, TypeInv, Working
<1>4. /\ inbox' \in Seq(Events) /\ pending' \in Seq(Samples)
      /\ QueueInv' /\ SeenInv' /\ VerdictInv'
  BY <1>1, <1>2, <1>3, Collecting
<1>5. late = 0 /\ late' = IF stop THEN late + 1 ELSE late
  BY <1>1, <1>2 DEF Collect, IInv, LateInv
<1>6. TypeInv'
  BY <1>2, <1>3, <1>4, <1>5 DEF IInv, TypeInv, page, outcome
<1>7. LoopInv' /\ WindowInv'
  BY <1>2, <1>3 DEF IInv, LoopInv, WindowInv, Whole, page, outcome, Working
<1>8. LateInv'
  BY <1>2, <1>3, <1>5 DEF LateInv
<1> QED BY <1>4, <1>6, <1>7, <1>8 DEF IInv

(* A stage is posted by a worker that goes on.                             *)
LEMMA Staging ==
  ASSUME IInv, wpc \in Working, wpc' \in Working, NEW a \in Ammeters, NEW st \in Stages,
         Post(<<Stage(a, st)>>),
         UNCHANGED <<page, kept>>, faulty \subseteq faulty', st = "failed" => a \in faulty'
  PROVE  /\ inbox' \in Seq(Events) /\ pending' \in Seq(Samples)
         /\ QueueInv' /\ SeenInv' /\ VerdictInv'
<1> DEFINE events == <<Stage(a, st)>>
<1>1. TypeInv /\ QueueInv /\ SeenInv
  BY DEF IInv
<1>2. Stage(a, st) \in Events /\ Stage(a, st).of = run /\ Stage(a, st).kind = "stage"
  BY <1>1 DEF Stage, Events, TypeInv
<1>3. /\ events \in Seq(Events)
      /\ \A i \in 1 .. Len(events) : events[i].of = run /\ events[i].kind \in {"stage", "analysis"}
  BY <1>2
<1>4. inbox' \in Seq(Events) /\ pending' \in Seq(Samples)
  BY <1>1, <1>3, Posting
<1>5. QueueInv' /\ VerdictInv'
  BY <1>1, <1>3, WorkerPosts
<1>6. SeenInv'
  BY <1>1, StagePosted
<1> QED BY <1>4, <1>5, <1>6

LEMMA StepBeginWindow ==
  ASSUME IInv, BeginWindow
  PROVE  IInv'
<1>1. /\ wpc = "head" /\ wpc \in Working /\ wpc' = "start" /\ wpc' \in Working
      /\ at <= count /\ slot' = 1 /\ attempt' = 0 /\ index' = 0
      /\ Post(<<Stage(at, "sampling")>>)
      /\ UNCHANGED <<page, stop, at, outcome, windows>>
  BY DEF BeginWindow, Working
<1>2. at \in Ammeters /\ "sampling" \in Stages /\ 1 \in 1 .. Slots
  BY <1>1, DesktopAssumption DEF IInv, TypeInv, Ammeters, Stages
<1>3. /\ inbox' \in Seq(Events) /\ pending' \in Seq(Samples)
      /\ QueueInv' /\ SeenInv' /\ VerdictInv'
  BY <1>1, <1>2, Staging DEF outcome
<1>4. TypeInv'
  BY <1>1, <1>2, <1>3 DEF IInv, TypeInv, page, outcome, windows
<1>5. LoopInv' /\ WindowInv' /\ LateInv'
  BY <1>1 DEF IInv, LoopInv, WindowInv, LateInv, Whole, page, outcome, windows
<1> QED BY <1>3, <1>4, <1>5 DEF IInv

LEMMA StepCancel ==
  ASSUME IInv, Cancel
  PROVE  IInv'
<1>1. /\ wpc \in {"wait", "window", "reading"} /\ wpc \in Working
      /\ wpc' = "return" /\ wpc' \in Working /\ stop
      /\ Post(<<Stage(at, "cancelled")>>)
      /\ UNCHANGED <<page, stop, loop, outcome, windows>>
  BY DEF Cancel, Working
<1>2. at \in Ammeters /\ at <= count /\ "cancelled" \in Stages
  BY <1>1, AtSelected DEF Stages, Working
<1>3. /\ inbox' \in Seq(Events) /\ pending' \in Seq(Samples)
      /\ QueueInv' /\ SeenInv' /\ VerdictInv'
  BY <1>1, <1>2, Staging DEF outcome
<1>4. TypeInv'
  BY <1>1, <1>3 DEF IInv, TypeInv, page, loop, outcome, windows
<1>5. LoopInv' /\ WindowInv' /\ LateInv'
  BY <1>1 DEF IInv, LoopInv, WindowInv, LateInv, Whole, page, loop, outcome, windows
<1> QED BY <1>3, <1>4, <1>5 DEF IInv

LEMMA StepWindowRaises ==
  ASSUME IInv, WindowRaises
  PROVE  IInv'
<1>1. /\ wpc \in {"start", "wait", "window"} /\ wpc \in Working
      /\ wpc' = "head" /\ wpc' \in Working /\ at' = at + 1 /\ faulty' = faulty \cup {at}
      /\ Post(<<Stage(at, "failed")>>)
      /\ UNCHANGED <<page, stop, slot, attempt, index, kept, filed, archive, windows>>
  BY DEF WindowRaises, Working
<1>2. at \in Ammeters /\ at <= count /\ "failed" \in Stages
  BY <1>1, AtSelected DEF Stages, Working
<1>3. /\ inbox' \in Seq(Events) /\ pending' \in Seq(Samples)
      /\ QueueInv' /\ SeenInv' /\ VerdictInv'
  BY <1>1, <1>2, Staging
<1>4. TypeInv'
  BY <1>1, <1>2, <1>3, SMTT(60) DEF IInv, TypeInv, page, windows
<1>5. LoopInv'
  <2>1. \A a \in 1 .. at : a \in 1 .. at - 1 \/ a = at
    BY DEF IInv, TypeInv
  <2> QED BY <1>1, <1>2, <2>1 DEF IInv, TypeInv, LoopInv, page, Ammeters
<1>6. WindowInv' /\ LateInv'
  BY <1>1 DEF IInv, WindowInv, LateInv, Whole, page, windows
<1> QED BY <1>3, <1>4, <1>5, <1>6 DEF IInv

LEMMA StepArchive ==
  ASSUME IInv, Archived \/ ArchivingFails
  PROVE  IInv'
<1>1. /\ wpc = "archive" /\ wpc \in Working /\ wpc' = "head" /\ wpc' \in Working /\ at' = at + 1
      /\ Post(<<Stage(at, "done")>>)
      /\ UNCHANGED <<page, stop, slot, attempt, index, kept, windows>>
      /\ \/ faulty' = faulty /\ archive' = archive \cup {<<run, at>>}
         \/ faulty' = faulty \cup {at} /\ archive' = archive
  BY DEF Archived, ArchivingFails, Working
<1>2. at \in Ammeters /\ at <= count /\ "done" \in Stages /\ "done" # "failed"
  BY <1>1, AtSelected DEF Stages, Working
<1>3. /\ inbox' \in Seq(Events) /\ pending' \in Seq(Samples)
      /\ QueueInv' /\ SeenInv' /\ VerdictInv'
  BY <1>1, <1>2, Staging
<1>4. TypeInv'
  <2>1. faulty' \subseteq Ammeters
    BY <1>1, <1>2 DEF IInv, TypeInv
  <2> QED BY <1>1, <1>2, <1>3, <2>1 DEF IInv, TypeInv, page, windows
<1>5. LoopInv'
  <2>1. \A a \in 1 .. at : a \in 1 .. at - 1 \/ a = at
    BY DEF IInv, TypeInv
  <2>2. run \in 1 .. run
    BY <1>1 DEF IInv, TypeInv, LoopInv
  <2>3. run' = run /\ count' = count /\ stop' = stop /\ archiving' = archiving /\ kept' = kept
    BY <1>1 DEF page
  <2>4. archive' \subseteq {<<r, a>> : r \in 1 .. run, a \in Ammeters}
    BY <1>1, <1>2, <2>2 DEF IInv, LoopInv
  <2>5. \A a \in kept : a \in Ammeters /\ a < at + 1 /\ a \in Nat
    BY <1>1, <1>2 DEF IInv, LoopInv, TypeInv, Ammeters
  <2>6. \A a \in kept : archiving /\ a < at + 1 => a \in faulty' \/ <<run, a>> \in archive'
    <3> SUFFICES ASSUME NEW a \in kept, archiving PROVE a \in faulty' \/ <<run, a>> \in archive'
      OBVIOUS
    <3>1. CASE a = at
      BY <1>1, <3>1
    <3>2. CASE a # at
      BY <1>1, <2>5, <3>2 DEF IInv, LoopInv
    <3> QED BY <3>1, <3>2
  <2>7. \A a \in Ammeters : <<run, a>> \in archive' => a < at + 1
    BY <1>1, <1>2 DEF IInv, LoopInv, TypeInv, Ammeters
  <2>8. \A a \in 1 .. at : a \in kept \cup faulty'
    <3>1. \A a \in 1 .. at - 1 : a \in kept \cup faulty
      BY <1>1 DEF IInv, LoopInv
    <3>2. at \in kept \cup faulty'
      BY <1>1, <1>2 DEF IInv, LoopInv
    <3> QED BY <1>1, <2>1, <3>1, <3>2
  <2>9. at' - 1 = at /\ at' <= count + 1 /\ run >= 1
    BY <1>1, <1>2 DEF IInv, TypeInv, LoopInv
  <2> QED BY <1>1, <2>3, <2>4, <2>5, <2>6, <2>7, <2>8, <2>9 DEF LoopInv
<1>6. WindowInv' /\ LateInv'
  BY <1>1 DEF IInv, WindowInv, LateInv, Whole, page, windows
<1> QED BY <1>3, <1>4, <1>5, <1>6 DEF IInv

LEMMA StepKeepAnalysis ==
  ASSUME IInv, KeepAnalysis
  PROVE  IInv'
<1>1. PICK st \in {"archiving", "done"} : Post(<<Analysis(at), Stage(at, st)>>)
  BY DEF KeepAnalysis
<1>2. /\ wpc = "analysed" /\ wpc \in Working /\ wpc' \in {"archive", "head"} /\ wpc' \in Working
      /\ kept' = kept \cup {at}
      /\ \/ archiving /\ wpc' = "archive" /\ at' = at
         \/ ~archiving /\ wpc' = "head" /\ at' = at + 1
      /\ UNCHANGED <<page, stop, slot, attempt, index, faulty, filed, archive, windows>>
  BY DEF KeepAnalysis, Working, TypeInv, IInv
<1>3. TypeInv /\ QueueInv /\ SeenInv /\ at \in Ammeters /\ at <= count /\ st \in Stages /\ st # "failed"
  BY <1>2, AtSelected DEF IInv, Stages, Working
<1> DEFINE events == <<Analysis(at), Stage(at, st)>>
<1>4. /\ events \in Seq(Events) /\ Len(events) = 2
      /\ events[1].kind = "analysis" /\ events[1].ammeter = at /\ events[1].of = run
      /\ events[2].kind = "stage" /\ events[2].stage = st /\ events[2].of = run
  <2>1. /\ Analysis(at) \in Events /\ Analysis(at).kind = "analysis"
        /\ Analysis(at).ammeter = at /\ Analysis(at).of = run
    BY <1>3 DEF Analysis, Events, TypeInv
  <2>2. /\ Stage(at, st) \in Events /\ Stage(at, st).kind = "stage"
        /\ Stage(at, st).stage = st /\ Stage(at, st).of = run
    BY <1>3 DEF Stage, Events, TypeInv
  <2> QED BY <2>1, <2>2
<1>5. Post(events)
  BY <1>1
<1> HIDE DEF events
<1>6. \A i \in 1 .. Len(events) : events[i].of = run /\ events[i].kind \in {"stage", "analysis"}
  BY <1>4
<1>7. /\ QueueInv' /\ VerdictInv' /\ inbox' \in Seq(Events) /\ pending' \in Seq(Samples)
  BY <1>2, <1>3, <1>4, <1>5, <1>6, WorkerPosts, Posting
<1>8. SeenInv'
  <2>1. PICK m \in Nat :
          /\ m >= Len(inbox) /\ Len(inbox') = m + Len(events)
          /\ \A i \in 1 .. Len(inbox) : inbox'[i] = inbox[i]
          /\ \A i \in Len(inbox) + 1 .. m : inbox'[i].kind = "samples" /\ inbox'[i].of = run
          /\ \A i \in 1 .. Len(events) : inbox'[m + i] = events[i]
    BY <1>3, <1>4, <1>5, Posting
  <2>2. inbox \in Seq(Events) /\ Len(inbox) \in Nat
    BY <1>3 DEF TypeInv
  <2>3. DOMAIN inbox' = 1 .. m + 2 /\ inbox'[m + 1] = events[1] /\ inbox'[m + 2] = events[2]
    BY <1>4, <1>7, <2>1
  <2>4. ASSUME NEW i \in DOMAIN inbox', i # m + 1, i # m + 2, inbox'[i].kind # "samples"
        PROVE  i \in DOMAIN inbox /\ inbox'[i] = inbox[i]
    <3>1. i \in 1 .. Len(inbox)
      <4>1. i \in 1 .. m
        BY <2>3, <2>4
      <4> QED BY <2>1, <2>2, <2>4, <4>1
    <3> QED BY <2>1, <2>2, <3>1
  <2>5. \A i \in DOMAIN inbox : i \in DOMAIN inbox' /\ inbox'[i] = inbox[i]
    BY <2>1, <2>2, <2>3
  <2>6. \A a \in Ammeters : Announced(a)' <=> Announced(a) \/ a = at
    <3> SUFFICES ASSUME NEW a \in Ammeters PROVE Announced(a)' <=> Announced(a) \/ a = at
      OBVIOUS
    <3>1. Announced(a)' => Announced(a) \/ a = at
      BY <1>4, <2>3, <2>4 DEF Announced
    <3>2. Announced(a) => Announced(a)'
      BY <2>5 DEF Announced
    <3>3. a = at => Announced(a)'
      BY <1>4, <2>3 DEF Announced
    <3> QED BY <3>1, <3>2, <3>3
  <2>7. \A i \in DOMAIN inbox' :
          inbox'[i].kind = "stage" /\ inbox'[i].stage = "failed" => inbox'[i].ammeter \in faulty
    BY <1>3, <1>4, <2>3, <2>4 DEF SeenInv
  <2> QED BY <1>2, <1>3, <2>6, <2>7 DEF SeenInv, page
<1>9. TypeInv'
  BY <1>2, <1>3, <1>7, SMTT(60) DEF TypeInv, page, windows
<1>10. LoopInv'
  <2>1. \A a \in 1 .. at : a \in 1 .. at - 1 \/ a = at
    BY <1>3 DEF TypeInv
  <2> QED BY <1>2, <1>3, <2>1 DEF IInv, TypeInv, LoopInv, page, Ammeters
<1>11. WindowInv' /\ LateInv'
  BY <1>2 DEF IInv, WindowInv, LateInv, Whole, page, windows
<1> QED BY <1>7, <1>8, <1>9, <1>10, <1>11 DEF IInv

(* The queue of a worker that has told its outcome and to quit.            *)
LEMMA Ending ==
  ASSUME IInv, wpc \in Working, wpc' = "returned",
         NEW e \in Events, e.of = run, e.kind \in {"completed", "failed"},
         Post(<<e, Event("quit")>>), UNCHANGED <<page, stop, loop, outcome, windows>>,
         e.kind = "completed" => Verdict(e.faulty, e.cancelled)
  PROVE  IInv'
<1>1. TypeInv /\ QueueInv /\ SeenInv /\ wpc' \notin Working
  BY DEF IInv, Working
<1> DEFINE events == <<e, Event("quit")>>
<1>2. /\ events \in Seq(Events) /\ Len(events) = 2 /\ events[1] = e
      /\ events[2].kind = "quit" /\ events[2].of = run
  <2>1. Event("quit") \in Events /\ Event("quit").kind = "quit" /\ Event("quit").of = run
    BY <1>1 DEF Event, Events, TypeInv
  <2> QED BY <2>1
<1>3. Post(events)
  OBVIOUS
<1> HIDE DEF events
<1>4. PICK m \in Nat :
        /\ m >= Len(inbox) /\ Len(inbox') = m + Len(events)
        /\ \A i \in 1 .. Len(inbox) : inbox'[i] = inbox[i]
        /\ \A i \in Len(inbox) + 1 .. m : inbox'[i].kind = "samples" /\ inbox'[i].of = run
        /\ \A i \in 1 .. Len(events) : inbox'[m + i] = events[i]
  BY <1>1, <1>2, <1>3, Posting
<1>5. /\ inbox' \in Seq(Events) /\ pending' \in Seq(Samples)
      /\ inbox \in Seq(Events) /\ Len(inbox) \in Nat
  BY <1>1, <1>2, <1>3, Posting DEF TypeInv
<1>6. /\ DOMAIN inbox' = 1 .. m + 2 /\ Len(inbox') = m + 2
      /\ inbox'[m + 1] = e /\ inbox'[m + 2] = events[2]
  BY <1>2, <1>4, <1>5
<1>7. ASSUME NEW i \in 1 .. m
      PROVE  \/ inbox'[i].kind = "samples" /\ inbox'[i].of = run
             \/ i \in DOMAIN inbox /\ inbox'[i] = inbox[i]
  <2>1. CASE i <= Len(inbox)
    BY <1>4, <1>5, <2>1
  <2>2. CASE i > Len(inbox)
    BY <1>4, <1>5, <2>2
  <2> QED BY <1>5, <2>1, <2>2
<1>8. \A i \in 1 .. m : inbox'[i].of = run /\ inbox'[i].kind \in {"samples", "stage", "analysis"}
  BY <1>1, <1>7 DEF QueueInv
<1>9. \A i \in DOMAIN inbox : i \in 1 .. m /\ inbox'[i] = inbox[i]
  BY <1>4, <1>5
<1>10. UNCHANGED <<run, busy, window, stage, analysed, banner, count, archiving, kept, faulty, archive>>
  BY DEF page, outcome
<1>11. TypeInv'
  BY <1>1, <1>5, <1>10 DEF TypeInv, loop, outcome, windows
<1>12. QueueInv'
  <2>1. busy /\ banner = "none" /\ window # "exited"
    BY <1>1 DEF QueueInv, Working
  <2>2. inbox' # <<>> /\ inbox'[Len(inbox')].kind = "quit"
    BY <1>2, <1>5, <1>6
  <2>3. \A i \in 1 .. Len(inbox') - 1 : inbox'[i].kind \notin {"quit", "finished"}
    BY <1>6, <1>8
  <2>4. \A i \in DOMAIN inbox' : inbox'[i].of = run
    BY <1>2, <1>6, <1>8
  <2>5. \A i, j \in DOMAIN inbox' :
          inbox'[i].kind \in {"completed", "failed"} /\ i < j => inbox'[j].kind = "quit"
    <3>1. ASSUME NEW i \in DOMAIN inbox', inbox'[i].kind \in {"completed", "failed"} PROVE i = m + 1
      BY <1>2, <1>6, <1>8, <3>1
    <3>2. ASSUME NEW j \in DOMAIN inbox', m + 1 < j PROVE inbox'[j].kind = "quit"
      BY <1>2, <1>6, <3>2
    <3> QED BY <3>1, <3>2
  <2> QED BY <1>1, <1>10, <2>1, <2>2, <2>3, <2>4, <2>5 DEF QueueInv
<1>13. SeenInv'
  <2>1. \A a \in Ammeters : Announced(a)' <=> Announced(a)
    <3> SUFFICES ASSUME NEW a \in Ammeters PROVE Announced(a)' <=> Announced(a)
      OBVIOUS
    <3>1. Announced(a) => Announced(a)'
      BY <1>6, <1>9 DEF Announced
    <3>2. ASSUME NEW i \in DOMAIN inbox', inbox'[i].kind = "analysis" PROVE i \in DOMAIN inbox /\ inbox'[i] = inbox[i]
      <4>1. i \in 1 .. m
        BY <1>2, <1>6, <3>2
      <4> QED BY <1>7, <3>2, <4>1
    <3> QED BY <3>1, <3>2 DEF Announced
  <2>2. ASSUME NEW i \in DOMAIN inbox', inbox'[i].kind = "stage", inbox'[i].stage = "failed"
        PROVE  inbox'[i].ammeter \in faulty
    <3>1. i \in 1 .. m
      BY <1>2, <1>6, <2>2
    <3>2. i \in DOMAIN inbox /\ inbox'[i] = inbox[i]
      BY <1>7, <2>2, <3>1
    <3> QED BY <1>1, <2>2, <3>2 DEF SeenInv
  <2> QED BY <1>1, <1>10, <2>1, <2>2 DEF SeenInv
<1>14. VerdictInv'
  <2>1. banner = "none"
    BY <1>1 DEF QueueInv
  <2>2. ASSUME NEW i \in DOMAIN inbox', inbox'[i].kind = "completed" PROVE i = m + 1
    BY <1>2, <1>6, <1>8, <2>2
  <2> QED BY <1>6, <1>10, <2>1, <2>2 DEF VerdictInv, Verdict
<1>15. LoopInv' /\ WindowInv' /\ LateInv'
  BY <1>1, <1>10 DEF IInv, LoopInv, WindowInv, LateInv, Whole, windows
<1> QED BY <1>11, <1>12, <1>13, <1>14, <1>15 DEF IInv

LEMMA StepSetUpFails ==
  ASSUME IInv, SetUpFails
  PROVE  IInv'
<1>1. /\ wpc \in Working /\ wpc' = "returned" /\ Post(<<Event("failed"), Event("quit")>>)
      /\ UNCHANGED <<page, stop, loop, outcome, windows>>
  BY DEF SetUpFails, Working
<1>2. Event("failed") \in Events /\ Event("failed").kind = "failed" /\ Event("failed").of = run
  BY DEF Event, Events, IInv, TypeInv
<1> QED BY <1>1, <1>2, Ending

LEMMA StepReturn ==
  ASSUME IInv, Return
  PROVE  IInv'
<1> DEFINE e == [kind |-> "completed", of |-> run, faulty |-> faulty, cancelled |-> stop]
<1>1. /\ wpc \in Working /\ wpc' = "returned" /\ Post(<<e, Event("quit")>>)
      /\ UNCHANGED <<page, stop, loop, outcome, windows>>
      /\ wpc \in {"return", "head"} /\ (at > count \/ stop)
  BY DEF Return, Working, IInv, LoopInv
<1>2. /\ e \in Events /\ e.kind = "completed" /\ e.of = run
      /\ e.faulty = faulty /\ e.cancelled = stop
  BY DEF Events, IInv, TypeInv
<1>3. Verdict(faulty, stop)
  <2>1. faulty = {} /\ ~stop => kept = 1 .. count
    <3> SUFFICES ASSUME faulty = {}, ~stop PROVE kept = 1 .. count
      OBVIOUS
    <3>1. at = count + 1
      BY <1>1 DEF IInv, TypeInv, LoopInv, Ammeters
    <3>2. 1 .. count \subseteq kept
      BY <1>1, <3>1 DEF IInv, TypeInv, LoopInv, Ammeters
    <3>3. kept \subseteq 1 .. count
      BY <1>1, <3>1 DEF IInv, TypeInv, LoopInv, Ammeters
    <3> QED BY <3>2, <3>3
  <2>2. faulty = {} /\ archiving => \A a \in kept : <<run, a>> \in archive
    BY <1>1 DEF IInv, LoopInv
  <2> QED BY <2>1, <2>2 DEF Verdict
<1> HIDE DEF e
<1> QED BY <1>1, <1>2, <1>3, Ending

LEMMA StepThreadFinishes ==
  ASSUME IInv, ThreadFinishes
  PROVE  IInv'
<1>1. /\ wpc = "quitting" /\ wpc' = "none" /\ inbox' = Append(inbox, Event("finished"))
      /\ UNCHANGED <<page, stop, loop, pending, outcome, windows>>
  BY DEF ThreadFinishes
<1>2. TypeInv /\ QueueInv /\ busy /\ inbox = <<>> /\ "none" \notin Working /\ wpc \notin Working
  BY <1>1 DEF IInv, QueueInv, Working
<1>3. /\ Event("finished") \in Events /\ Event("finished").kind = "finished"
      /\ Event("finished").of = run
  BY <1>2 DEF Event, Events, TypeInv
<1>4. /\ inbox' \in Seq(Events) /\ Len(inbox') = 1 /\ DOMAIN inbox' = {1}
      /\ inbox'[1] = Event("finished")
  BY <1>1, <1>2, <1>3 DEF TypeInv
<1>5. UNCHANGED <<run, busy, window, stage, analysed, banner, count, archiving, kept, faulty, archive>>
  BY <1>1 DEF page, outcome
<1>6. TypeInv'
  BY <1>1, <1>2, <1>4, <1>5 DEF TypeInv, loop, outcome, windows
<1>7. QueueInv'
  BY <1>1, <1>2, <1>3, <1>4, <1>5 DEF QueueInv
<1>8. SeenInv' /\ VerdictInv'
  <2>1. \A a \in Ammeters : ~Announced(a)' /\ ~Announced(a)
    BY <1>2, <1>3, <1>4 DEF Announced
  <2> QED BY <1>1, <1>3, <1>4, <1>5, <2>1 DEF IInv, SeenInv, VerdictInv, Verdict
<1>9. LoopInv' /\ WindowInv' /\ LateInv'
  BY <1>1, <1>2, <1>5 DEF IInv, LoopInv, WindowInv, LateInv, Whole, windows
<1> QED BY <1>6, <1>7, <1>8, <1>9 DEF IInv

-----------------------------------------------------------------------------
(* Steps of the user and of the process.                                   *)

LEMMA StepStartRun ==
  ASSUME IInv, StartRun
  PROVE  IInv'
<1>1. TypeInv /\ QueueInv /\ ~busy /\ window = "open" /\ wpc = "none" /\ inbox = <<>>
  BY DEF IInv, QueueInv, StartRun
<1>2. /\ run' = run + 1 /\ busy' = TRUE /\ stop' = FALSE /\ window' = "open"
      /\ stage' = Each("queued") /\ analysed' = {} /\ banner' = "none" /\ inbox' = <<>>
      /\ count' \in Ammeters /\ archiving' \in BOOLEAN
      /\ wpc' = "setup" /\ at' = 1 /\ slot' = 1 /\ attempt' = 0 /\ index' = 0 /\ pending' = <<>>
      /\ kept' = {} /\ faulty' = {} /\ archive' = archive /\ reached' = Each(0) /\ late' = 0
  BY <1>1 DEF StartRun
<1>3. TypeInv'
  <2>1. run' \in Nat /\ at' \in Nat \ {0} /\ slot' \in 1 .. Slots
    BY <1>1, <1>2, DesktopAssumption DEF TypeInv
  <2>2. stage' \in [Ammeters -> Stages] /\ reached' \in [Ammeters -> Nat]
    BY <1>2 DEF Each, Stages
  <2>3. inbox' \in Seq(Events) /\ pending' \in Seq(Samples) /\ banner' \in Banners
    BY <1>2 DEF Banners
  <2>4. wpc' \in Working
    BY <1>2 DEF Working
  <2>5. /\ busy' \in BOOLEAN /\ stop' \in BOOLEAN /\ archiving' \in BOOLEAN
    BY <1>2
  <2>6. /\ window' \in {"open", "closed", "exited"} /\ count' \in Ammeters
        /\ analysed' \subseteq Ammeters /\ kept' \subseteq Ammeters /\ faulty' \subseteq Ammeters
    BY <1>2
  <2>7. attempt' \in Nat /\ index' \in Int /\ late' \in Nat
    BY <1>2
  <2> QED BY <2>1, <2>2, <2>3, <2>4, <2>5, <2>6, <2>7 DEF TypeInv
<1>4. QueueInv'
  BY <1>2 DEF QueueInv, Working
<1>5. SeenInv' /\ VerdictInv'
  BY <1>2 DEF SeenInv, VerdictInv, Announced, Each
<1>6. \A a \in Ammeters : <<run', a>> \notin archive
  BY <1>1, <1>2 DEF IInv, TypeInv, LoopInv
<1>7. LoopInv'
  <2>1. archive' \subseteq {<<r, a>> : r \in 1 .. run', a \in Ammeters}
    BY <1>1, <1>2 DEF IInv, TypeInv, LoopInv
  <2>2. run' >= 1 /\ count' >= 1
    BY <1>1, <1>2 DEF TypeInv, Ammeters
  <2>3. count' \in Nat /\ at' = 1
    BY <1>2, DesktopAssumption DEF Ammeters
  <2>4. \A a \in Ammeters : <<run', a>> \notin archive'
    BY <1>2, <1>6
  <2>5. at' <= count' + 1
    <3>1. PICK n \in Nat : count' = n
      BY <2>3
    <3>2. 1 <= n + 1
      OBVIOUS
    <3> QED BY <2>3, <3>1, <3>2
  <2>6. \A a \in 1 .. at' - 1 : a \in (kept \cup faulty)'
    BY <2>3
  <2> QED BY <1>2, <2>1, <2>2, <2>4, <2>5, <2>6 DEF LoopInv
<1>8. WindowInv' /\ LateInv'
  BY <1>2, <1>6 DEF WindowInv, LateInv
<1> QED BY <1>3, <1>4, <1>5, <1>7, <1>8 DEF IInv

(* A stop, and closing the window, change nothing that is claimed but the  *)
(* token.                                                                  *)
LEMMA StepStopOrClose ==
  ASSUME IInv, RequestStop \/ Close
  PROVE  IInv'
<1>1. /\ stop' \in BOOLEAN /\ (stop => stop') /\ wpc' = wpc
      /\ window # "exited" /\ window' \in {"open", "closed"}
      /\ UNCHANGED <<run, busy, stage, analysed, banner, count, archiving,
                     inbox, loop, pending, outcome, windows>>
  BY DEF RequestStop, Close, page, IInv, TypeInv
<1>2. TypeInv'
  BY <1>1 DEF IInv, TypeInv, loop, outcome, windows
<1>3. QueueInv' /\ SeenInv'
  BY <1>1 DEF IInv, QueueInv, SeenInv, Announced, outcome
<1>4. VerdictInv' /\ LoopInv' /\ WindowInv' /\ LateInv'
  BY <1>1 DEF IInv, VerdictInv, Verdict, LoopInv, WindowInv, LateInv, Whole, loop, outcome, windows
<1> QED BY <1>2, <1>3, <1>4 DEF IInv

(* The process ends and the worker with it, wherever it was.               *)
LEMMA StepExit ==
  ASSUME IInv, Exit
  PROVE  IInv'
<1>1. /\ window' = "exited" /\ wpc' = "killed" /\ wpc' \notin Working
      /\ UNCHANGED <<run, busy, stage, analysed, banner, count, archiving,
                     stop, inbox, loop, pending, outcome, windows>>
  BY DEF Exit, Working
<1>2. TypeInv'
  BY <1>1 DEF IInv, TypeInv, loop, outcome, windows
<1>3. QueueInv' /\ SeenInv'
  BY <1>1 DEF IInv, QueueInv, SeenInv, Announced, outcome
<1>4. VerdictInv' /\ LoopInv' /\ WindowInv' /\ LateInv'
  BY <1>1 DEF IInv, VerdictInv, Verdict, LoopInv, WindowInv, LateInv, Whole, loop, outcome, windows
<1> QED BY <1>2, <1>3, <1>4 DEF IInv

-----------------------------------------------------------------------------
(* Steps of the page: the oldest event is handled.                         *)

(* What an event of each kind carries.                                     *)
LEMMA EventFields ==
  ASSUME NEW e \in Events
  PROVE  /\ e.kind = "stage" => e.ammeter \in Ammeters /\ e.stage \in Stages
         /\ e.kind = "analysis" => e.ammeter \in Ammeters
         /\ e.kind = "completed" => e.faulty \subseteq Ammeters /\ e.cancelled \in BOOLEAN
         /\ e.kind \in {"samples", "stage", "analysis", "completed", "failed", "quit", "finished"}
BY DEF Events

(* The rest of the queue.                                                  *)
LEMMA Rest ==
  ASSUME TypeInv, inbox # <<>>, inbox' = Tail(inbox)
  PROVE  /\ inbox \in Seq(Events) /\ inbox' \in Seq(Events) /\ Len(inbox) \in Nat
         /\ 1 \in DOMAIN inbox /\ Head(inbox) = inbox[1] /\ Head(inbox) \in Events
         /\ Len(inbox') = Len(inbox) - 1
         /\ \A i \in DOMAIN inbox' : i \in Nat /\ i + 1 \in DOMAIN inbox /\ inbox'[i] = inbox[i + 1]
         /\ \A i \in DOMAIN inbox : i = 1 \/ (i - 1 \in DOMAIN inbox' /\ inbox'[i - 1] = inbox[i])
<1>1. inbox \in Seq(Events) /\ inbox' \in Seq(Events) /\ Len(inbox) \in Nat /\ Len(inbox) >= 1
  BY DEF TypeInv
<1>2. Len(inbox') = Len(inbox) - 1 /\ \A i \in 1 .. Len(inbox) - 1 : inbox'[i] = inbox[i + 1]
  BY <1>1
<1>3. 1 \in DOMAIN inbox /\ Head(inbox) = inbox[1] /\ inbox[1] \in Events
  BY <1>1
<1>4. ASSUME NEW i \in DOMAIN inbox'
      PROVE  i \in Nat /\ i + 1 \in DOMAIN inbox /\ inbox'[i] = inbox[i + 1]
  BY <1>1, <1>2
<1>5. ASSUME NEW i \in DOMAIN inbox, i # 1
      PROVE  i - 1 \in DOMAIN inbox' /\ inbox'[i - 1] = inbox[i]
  <2>1. i - 1 \in 1 .. Len(inbox) - 1 /\ (i - 1) + 1 = i
    BY <1>1, <1>5
  <2> QED BY <1>1, <1>2, <2>1
<1> QED BY <1>1, <1>2, <1>3, <1>4, <1>5

(* While the thread is there the queue stays in order.                     *)
LEMMA RestInOrder ==
  ASSUME IInv, window # "exited", inbox # <<>>, inbox' = Tail(inbox),
         Head(inbox).kind \notin {"quit", "finished"}, UNCHANGED <<run, window, busy, wpc>>,
         banner' # "none" => banner # "none" \/ Head(inbox).kind \in {"completed", "failed"}
  PROVE  QueueInv'
<1>1. TypeInv /\ QueueInv
  BY DEF IInv
<1>2. wpc \in Working \/ wpc = "returned"
  <2>1. inbox[1].kind \notin {"quit", "finished"}
    BY <1>1, Rest
  <2> QED BY <1>1, <2>1 DEF QueueInv, TypeInv
<1>3. \A i \in DOMAIN inbox' : inbox'[i].of = run'
  BY <1>1, Rest DEF QueueInv
<1>4. /\ "killed" \notin Working /\ "returned" \notin Working /\ "quitting" \notin Working
      /\ "none" \notin Working
  BY DEF Working
<1>5. busy /\ wpc \notin {"none", "quitting", "killed"}
  BY <1>1, <1>2, <1>4 DEF QueueInv
<1>6. wpc \in Working => \A i \in DOMAIN inbox' : inbox'[i].kind \in {"samples", "stage", "analysis"}
  BY <1>1, Rest DEF QueueInv
<1>7. wpc = "returned" =>
        /\ inbox' # <<>> /\ inbox'[Len(inbox')].kind = "quit"
        /\ \A i \in 1 .. Len(inbox') - 1 : inbox'[i].kind \notin {"quit", "finished"}
  <2> SUFFICES ASSUME wpc = "returned"
               PROVE  /\ inbox' # <<>> /\ inbox'[Len(inbox')].kind = "quit"
                      /\ \A i \in 1 .. Len(inbox') - 1 : inbox'[i].kind \notin {"quit", "finished"}
    OBVIOUS
  <2>1. /\ inbox[Len(inbox)].kind = "quit"
        /\ \A i \in 1 .. Len(inbox) - 1 : inbox[i].kind \notin {"quit", "finished"}
    BY <1>1 DEF QueueInv
  <2>2. PICK n \in Nat : Len(inbox) = n + 1 /\ Len(inbox') = n /\ n # 0
    <3>1. Len(inbox) # 1 /\ Len(inbox) \in Nat /\ Len(inbox) >= 1 /\ Len(inbox') = Len(inbox) - 1
      BY <1>1, <2>1, Rest
    <3>2. Len(inbox) - 1 \in Nat /\ Len(inbox) - 1 # 0 /\ Len(inbox) = (Len(inbox) - 1) + 1
      BY <3>1
    <3> QED BY <3>1, <3>2
  <2>3. inbox' \in Seq(Events) /\ DOMAIN inbox' = 1 .. n
    BY <1>1, <2>2, Rest
  <2>4. inbox'[n] = inbox[n + 1]
    BY <1>1, <2>2, <2>3, Rest
  <2>5. ASSUME NEW i \in 1 .. n - 1 PROVE inbox'[i].kind \notin {"quit", "finished"}
    <3>1. i \in DOMAIN inbox' /\ i + 1 \in 1 .. n
      BY <2>2, <2>3
    <3>2. inbox'[i] = inbox[i + 1]
      BY <1>1, <3>1, Rest
    <3> QED BY <2>1, <2>2, <3>1, <3>2
  <2> QED BY <2>1, <2>2, <2>3, <2>4, <2>5
<1>8. \A i, j \in DOMAIN inbox' :
        inbox'[i].kind \in {"completed", "failed"} /\ i < j => inbox'[j].kind = "quit"
  <2> SUFFICES ASSUME NEW i \in DOMAIN inbox', NEW j \in DOMAIN inbox', i < j,
                      inbox'[i].kind \in {"completed", "failed"}
               PROVE  inbox'[j].kind = "quit"
    OBVIOUS
  <2>1. /\ i + 1 \in DOMAIN inbox /\ inbox'[i] = inbox[i + 1] /\ i \in Nat
        /\ j + 1 \in DOMAIN inbox /\ inbox'[j] = inbox[j + 1] /\ j \in Nat
    BY <1>1, Rest
  <2>2. i + 1 < j + 1
    BY <2>1
  <2> QED BY <1>1, <2>1, <2>2 DEF QueueInv
<1>9. banner' # "none" =>
        wpc \notin Working /\ \A i \in DOMAIN inbox' : inbox'[i].kind \in {"quit", "finished"}
  <2>1. CASE banner # "none"
    BY <1>1, <2>1, Rest DEF QueueInv
  <2>2. CASE Head(inbox).kind \in {"completed", "failed"}
    <3>1. 1 \in DOMAIN inbox /\ inbox[1].kind \in {"completed", "failed"}
      BY <1>1, <2>2, Rest
    <3>2. ASSUME NEW i \in DOMAIN inbox' PROVE inbox'[i].kind = "quit"
      <4>1. i \in Nat /\ i >= 1 /\ i + 1 \in DOMAIN inbox /\ inbox'[i] = inbox[i + 1]
        <5>1. inbox' \in Seq(Events)
          BY <1>1, Rest
        <5> QED BY <1>1, <5>1, Rest
      <4>2. 1 < i + 1
        BY <4>1
      <4> QED BY <1>1, <3>1, <4>1, <4>2 DEF QueueInv
    <3> QED BY <1>1, <3>1, <3>2 DEF QueueInv
  <2> QED BY <2>1, <2>2
<1> QED BY <1>1, <1>2, <1>3, <1>4, <1>5, <1>6, <1>7, <1>8, <1>9 DEF QueueInv

(* What the rest of the queue announces, and its outcomes.                 *)
LEMMA RestAnnounces ==
  ASSUME TypeInv, SeenInv, VerdictInv, inbox # <<>>, inbox' = Tail(inbox),
         UNCHANGED <<run, stop, count, archiving, outcome>>
  PROVE  /\ \A a \in Ammeters :
              Announced(a) <=> Announced(a)' \/ (Head(inbox).kind = "analysis" /\ Head(inbox).ammeter = a)
         /\ \A i \in DOMAIN inbox' :
              inbox'[i].kind = "stage" /\ inbox'[i].stage = "failed" => inbox'[i].ammeter \in faulty'
         /\ (\A i \in DOMAIN inbox :
               inbox[i].kind = "completed" => Verdict(inbox[i].faulty, inbox[i].cancelled))'
         /\ banner = "complete" => Verdict({}, FALSE)'
         /\ banner = "stopped" => Verdict({}, TRUE)'
<1>1. UNCHANGED <<kept, faulty, archive>>
  BY DEF outcome
<1>2. \A f, c : Verdict(f, c) => Verdict(f, c)'
  BY <1>1 DEF Verdict
<1>3. ASSUME NEW a \in Ammeters
      PROVE  Announced(a) <=> Announced(a)' \/ (Head(inbox).kind = "analysis" /\ Head(inbox).ammeter = a)
  <2>1. Announced(a)' => Announced(a)
    BY Rest DEF Announced
  <2>2. Head(inbox).kind = "analysis" /\ Head(inbox).ammeter = a => Announced(a)
    BY Rest DEF Announced
  <2>3. ASSUME NEW i \in DOMAIN inbox, inbox[i].kind = "analysis", inbox[i].ammeter = a
        PROVE  Announced(a)' \/ (Head(inbox).kind = "analysis" /\ Head(inbox).ammeter = a)
    BY <2>3, Rest, ZenonT(60) DEF Announced
  <2> QED BY <2>1, <2>2, <2>3 DEF Announced
<1>4. ASSUME NEW i \in DOMAIN inbox', inbox'[i].kind = "stage", inbox'[i].stage = "failed"
      PROVE  inbox'[i].ammeter \in faulty'
  BY <1>1, <1>4, Rest DEF SeenInv
<1>5. ASSUME NEW i \in DOMAIN inbox', inbox'[i].kind = "completed"
      PROVE  Verdict(inbox[i].faulty, inbox[i].cancelled)'
  <2>1. i + 1 \in DOMAIN inbox /\ inbox'[i] = inbox[i + 1]
    BY Rest
  <2>2. Verdict(inbox[i + 1].faulty, inbox[i + 1].cancelled)
    BY <1>5, <2>1 DEF VerdictInv
  <2> QED BY <1>1, <2>1, <2>2 DEF Verdict
<1>6. /\ banner = "complete" => Verdict({}, FALSE)'
      /\ banner = "stopped" => Verdict({}, TRUE)'
  BY <1>1 DEF VerdictInv, Verdict
<1> QED BY <1>3, <1>4, <1>5, <1>6

(* What the page does not touch.                                           *)
LEMMA PageOnly ==
  ASSUME IInv, wpc' = wpc \/ wpc' = "quitting",
         UNCHANGED <<run, window, count, archiving, stop, loop, pending, outcome, windows>>
  PROVE  LoopInv' /\ WindowInv' /\ LateInv'
<1>1. "quitting" \notin Working
  BY DEF Working
<1> QED BY <1>1 DEF IInv, LoopInv, WindowInv, LateInv, Whole, loop, outcome, windows

LEMMA StepHandleEvent ==
  ASSUME IInv, HandleEvent
  PROVE  IInv'
<1> DEFINE e == Head(inbox)
<1>1. /\ TypeInv /\ QueueInv /\ SeenInv /\ VerdictInv
      /\ window # "exited" /\ inbox # <<>> /\ Dispatch(e) /\ inbox' = Tail(inbox)
      /\ UNCHANGED <<run, window, count, archiving, stop, loop, pending, outcome, windows>>
  BY DEF IInv, HandleEvent
<1>2. e \in Events /\ inbox' \in Seq(Events) /\ e = inbox[1] /\ 1 \in DOMAIN inbox
  BY <1>1, Rest
<1>3. UNCHANGED <<at, slot, attempt, index, kept, faulty, archive, reached, unstarted, late>>
  BY <1>1 DEF loop, outcome, windows
<1> HIDE DEF e
<1>4. CASE e.kind = "samples"
  <2>1. UNCHANGED <<stage, analysed, banner, busy, wpc>>
    BY <1>1, <1>4 DEF Dispatch, OnSamples
  <2>2. TypeInv'
    BY <1>1, <1>2, <1>3, <2>1 DEF TypeInv
  <2>3. QueueInv'
    BY <1>1, <1>4, <2>1, RestInOrder DEF e
  <2>4. SeenInv' /\ VerdictInv'
    BY <1>1, <1>3, <1>4, <2>1, RestAnnounces DEF SeenInv, VerdictInv, e
  <2> QED BY <1>1, <2>1, <2>2, <2>3, <2>4, PageOnly DEF IInv
<1>5. CASE e.kind = "stage"
  <2>1. stage' = [stage EXCEPT ![e.ammeter] = e.stage] /\ UNCHANGED <<analysed, banner, busy, wpc>>
    BY <1>1, <1>5 DEF Dispatch, OnStage
  <2>2. e.ammeter \in Ammeters /\ e.stage \in Stages
    BY <1>2, <1>5, EventFields
  <2>3. TypeInv'
    BY <1>1, <1>2, <1>3, <2>1, <2>2 DEF TypeInv
  <2>4. QueueInv'
    BY <1>1, <1>5, <2>1, RestInOrder DEF e
  <2>5. \A a \in Ammeters : stage'[a] = "failed" => a \in faulty
    BY <1>1, <1>2, <1>5, <2>1, <2>2 DEF SeenInv, TypeInv
  <2>6. SeenInv' /\ VerdictInv'
    BY <1>1, <1>3, <1>5, <2>1, <2>5, RestAnnounces DEF SeenInv, VerdictInv, e
  <2> QED BY <1>1, <2>1, <2>3, <2>4, <2>6, PageOnly DEF IInv
<1>6. CASE e.kind = "analysis"
  <2>1. analysed' = analysed \cup {e.ammeter} /\ UNCHANGED <<stage, banner, busy, wpc>>
    BY <1>1, <1>6 DEF Dispatch, OnAnalysis
  <2>2. e.ammeter \in Ammeters
    BY <1>2, <1>6, EventFields
  <2>3. TypeInv'
    BY <1>1, <1>2, <1>3, <2>1, <2>2 DEF TypeInv
  <2>4. QueueInv'
    BY <1>1, <1>6, <2>1, RestInOrder DEF e
  <2>5. SeenInv' /\ VerdictInv'
    BY <1>1, <1>3, <1>6, <2>1, RestAnnounces DEF SeenInv, VerdictInv, e
  <2> QED BY <1>1, <2>1, <2>3, <2>4, <2>5, PageOnly DEF IInv
<1>7. CASE e.kind \in {"completed", "failed"}
  <2>1. /\ UNCHANGED <<stage, analysed, busy, wpc>> /\ banner' \in Banners
        /\ banner' = "complete" => e.kind = "completed" /\ e.faulty = {} /\ ~e.cancelled
        /\ banner' = "stopped" => e.kind = "completed" /\ e.faulty = {} /\ e.cancelled
    BY <1>1, <1>7 DEF Dispatch, OnCompleted, OnFailed, Banners
  <2>2. TypeInv'
    BY <1>1, <1>2, <1>3, <2>1 DEF TypeInv
  <2>3. QueueInv'
    BY <1>1, <1>7, <2>1, RestInOrder DEF e
  <2>4. SeenInv'
    BY <1>1, <1>3, <1>7, <2>1, RestAnnounces DEF SeenInv, e
  <2>5. e.kind = "completed" => Verdict(e.faulty, e.cancelled)
    BY <1>1, <1>2 DEF VerdictInv
  <2>6. /\ banner' = "complete" => Verdict({}, FALSE)'
        /\ banner' = "stopped" => Verdict({}, TRUE)'
    <3>1. CASE banner' = "complete"
      BY <1>1, <1>3, <2>1, <2>5, <3>1 DEF Verdict
    <3>2. CASE banner' = "stopped"
      BY <1>1, <1>3, <2>1, <2>5, <3>2 DEF Verdict
    <3> QED BY <3>1, <3>2
  <2>7. VerdictInv'
    BY <1>1, <2>6, RestAnnounces DEF VerdictInv
  <2> QED BY <1>1, <2>1, <2>2, <2>3, <2>4, <2>7, PageOnly DEF IInv
<1>8. CASE e.kind = "quit"
  <2>1. wpc' = "quitting" /\ UNCHANGED <<stage, analysed, banner, busy>>
    BY <1>1, <1>8 DEF Dispatch, OnQuit
  <2>2. wpc = "returned" /\ busy
    BY <1>1, <1>2, <1>8 DEF QueueInv, TypeInv
  <2>3. inbox' = <<>>
    <3>1. ~(1 \in 1 .. Len(inbox) - 1)
      BY <1>1, <1>2, <1>8, <2>2 DEF QueueInv
    <3>2. Len(inbox') = 0 /\ inbox' \in Seq(Events)
      BY <1>1, <3>1, Rest
    <3> QED BY <3>2, EmptySeq
  <2>4. TypeInv'
    BY <1>1, <1>2, <1>3, <2>1 DEF TypeInv
  <2>5. QueueInv'
    BY <1>1, <2>1, <2>2, <2>3 DEF QueueInv, Working
  <2>6. SeenInv' /\ VerdictInv'
    BY <1>1, <1>3, <1>8, <2>1, RestAnnounces DEF SeenInv, VerdictInv, e
  <2> QED BY <1>1, <2>1, <2>4, <2>5, <2>6, PageOnly DEF IInv
<1>9. CASE e.kind = "finished"
  <2>1. busy' = FALSE /\ UNCHANGED <<stage, analysed, banner, wpc>>
    BY <1>1, <1>9 DEF Dispatch, OnThreadFinished
  <2>2. wpc = "none" /\ busy /\ Len(inbox) = 1
    <3>1. wpc # "returned"
      <4>1. wpc = "returned" => 1 \notin 1 .. Len(inbox) - 1 /\ inbox[Len(inbox)].kind = "quit"
        BY <1>1, <1>2, <1>9 DEF QueueInv
      <4>2. Len(inbox) \in Nat /\ Len(inbox) >= 1
        BY <1>1, <1>2, Rest
      <4>3. PICK n \in Nat : n = Len(inbox) /\ n >= 1
        BY <4>2
      <4>4. wpc = "returned" => n = 1
        BY <4>1, <4>3
      <4> QED BY <1>2, <1>9, <4>1, <4>3, <4>4
    <3> QED BY <1>1, <1>2, <1>9, <3>1 DEF QueueInv, TypeInv
  <2>3. inbox' = <<>>
    BY <1>1, <2>2, Rest, EmptySeq
  <2>4. TypeInv'
    BY <1>1, <1>2, <1>3, <2>1 DEF TypeInv
  <2>5. QueueInv'
    BY <1>1, <2>1, <2>2, <2>3 DEF QueueInv, Working
  <2>6. SeenInv' /\ VerdictInv'
    BY <1>1, <1>3, <1>9, <2>1, RestAnnounces DEF SeenInv, VerdictInv, e
  <2> QED BY <1>1, <2>1, <2>4, <2>5, <2>6, PageOnly DEF IInv
<1> QED BY <1>2, <1>4, <1>5, <1>6, <1>7, <1>8, <1>9, EventFields

-----------------------------------------------------------------------------
(* IInv is inductive.                                                      *)

LEMMA NextPreserves == IInv /\ [Next]_vars => IInv'
<1> SUFFICES ASSUME IInv, [Next]_vars PROVE IInv'
  OBVIOUS
<1>1. CASE WorkerStep
  BY <1>1, StepSetUp, StepSetUpFails, StepBeginWindow, StepStart, StepRequest, StepSucceedOrFail,
     StepGiveUpSlot, StepEndWindow, StepCancel, StepWindowRaises, StepKeepAnalysis, StepArchive,
     StepReturn, StepThreadFinishes DEF WorkerStep
<1>2. CASE HandleEvent
  BY <1>2, StepHandleEvent
<1>3. CASE StartRun
  BY <1>3, StepStartRun
<1>4. CASE RequestStop \/ Close
  BY <1>4, StepStopOrClose
<1>5. CASE Exit
  BY <1>5, StepExit
<1>6. CASE UNCHANGED vars
  <2>1. UNCHANGED <<run, busy, window, stage, analysed, banner, count, archiving,
                    stop, inbox, wpc, loop, pending, outcome, windows>>
    BY <1>6 DEF vars, page
  <2>2. TypeInv' /\ QueueInv' /\ SeenInv'
    BY <2>1 DEF IInv, TypeInv, QueueInv, SeenInv, Announced, loop, outcome, windows
  <2>3. VerdictInv' /\ LoopInv' /\ WindowInv' /\ LateInv'
    BY <2>1 DEF IInv, VerdictInv, Verdict, LoopInv, WindowInv, LateInv, Whole, loop, outcome, windows
  <2> QED BY <2>2, <2>3 DEF IInv
<1> QED BY <1>1, <1>2, <1>3, <1>4, <1>5, <1>6 DEF Next

(* What is announced has been kept, so a page with a verdict shows all.    *)
LEMMA BannerSuffices == IInv => BannerIsTrue
<1> SUFFICES ASSUME IInv PROVE BannerIsTrue
  OBVIOUS
<1>1. ASSUME banner # "none" PROVE analysed = kept
  <2>1. \A a \in Ammeters : ~Announced(a)
    BY <1>1 DEF IInv, QueueInv, Announced
  <2> QED BY <2>1 DEF IInv, TypeInv, SeenInv
<1>2. CASE banner = "complete"
  BY <1>1, <1>2 DEF IInv, VerdictInv, Verdict, BannerIsTrue
<1>3. CASE banner = "stopped"
  <2>1. "failed" \notin {stage[a] : a \in Ammeters}
    BY <1>3 DEF IInv, SeenInv, VerdictInv, Verdict
  <2> QED BY <1>1, <1>3, <2>1 DEF IInv, VerdictInv, Verdict, BannerIsTrue
<1> QED BY <1>2, <1>3 DEF BannerIsTrue

LEMMA Inductive == Spec => []IInv
BY InitEstablishes, NextPreserves, PTL DEF Spec

(* However many runs are started, stopped and cut short: no event of an    *)
(* earlier run is ever handled as the current one's, and start_run is      *)
(* possible only when the last thread and all its events are gone.         *)
THEOREM RunsDoNotOverlap == Spec => []OneRunAtATime
<1>1. IInv => OneRunAtATime
  BY DEF IInv, QueueInv, OneRunAtATime
<1> QED BY <1>1, Inductive, PTL

(* For any selection and any order of failures, stops and events, what the *)
(* banner says of the archive is true.                                     *)
THEOREM BannerTellsTheTruth == Spec => []BannerIsTrue
BY BannerSuffices, Inductive, PTL

(* Whatever is in the archive of a run went through every slot of its      *)
(* window, or its emulator did not start: no interrupted window is kept.   *)
THEOREM InterruptedWindowsAreDropped == Spec => []OnlyWholeWindowsArchived
<1>1. IInv => OnlyWholeWindowsArchived
  BY DEF IInv, WindowInv, Whole, OnlyWholeWindowsArchived
<1> QED BY <1>1, Inductive, PTL

(* With any number of slots, attempts and ammeters, one request at most    *)
(* ends after the stop.                                                    *)
THEOREM StopEndsRequests == Spec => []StopIsPrompt
<1>1. IInv => StopIsPrompt
  BY DEF IInv, LateInv, StopIsPrompt
<1> QED BY <1>1, Inductive, PTL

-----------------------------------------------------------------------------
(* What the page has seen of the samples.                                  *)
(*                                                                         *)
(* The samples on their way are a function from places, the events of the  *)
(* queue and the pending list behind them, to batches.  To the worker it   *)
(* grows at its end, to the page it loses its head, and posting an event   *)
(* leaves it as it is; the lemmas up to SInv are about such functions,     *)
(* whatever the rest of the state is.                                      *)

Places == Nat \ {0}

(* The samples of ammeter a in q carry the indices from lo up to hi - 1,   *)
(* each once, in order.                                                    *)
Flow(q, a, lo, hi) ==
  /\ \A e \in Places : \A i \in Of(a, q[e]) : q[e][i].index \in lo .. hi - 1
  /\ \A k \in lo .. hi - 1 : \E e \in Places : \E i \in Of(a, q[e]) : q[e][i].index = k
  /\ \A d, e \in Places : \A i \in Of(a, q[d]), j \in Of(a, q[e]) :
       d < e \/ (d = e /\ i < j) => q[d][i].index < q[e][j].index

(* The indices of the failed ones.                                         *)
Missed(q, a) ==
  {k \in Int : \E e \in Places : \E i \in Of(a, q[e]) : q[e][i].index = k /\ ~q[e][i].ok}

(* A batch that gains a sample gains its position.                         *)
Gains(batch, longer, s) ==
  /\ Len(longer) = Len(batch) + 1
  /\ \A i \in 1 .. Len(batch) : longer[i] = batch[i]
  /\ longer[Len(batch) + 1] = s

LEMMA AppendGains ==
  ASSUME NEW batch \in Seq(Samples), NEW s \in Samples
  PROVE  Append(batch, s) \in Seq(Samples) /\ Gains(batch, Append(batch, s), s)
BY DEF Gains

LEMMA OfLonger ==
  ASSUME NEW batch \in Seq(Samples), NEW s \in Samples, NEW a \in Ammeters,
         NEW longer \in Seq(Samples), Gains(batch, longer, s)
  PROVE  /\ \A i \in Of(a, batch) : i \in Of(a, longer) /\ longer[i] = batch[i] /\ i < Len(longer)
         /\ \A i \in Of(a, longer) :
              (i \in Of(a, batch) /\ longer[i] = batch[i]) \/ (i = Len(longer) /\ longer[i] = s /\ s.ammeter = a)
         /\ s.ammeter = a => Len(longer) \in Of(a, longer) /\ longer[Len(longer)] = s
<1>1. /\ Len(batch) \in Nat /\ Len(longer) = Len(batch) + 1
      /\ \A i \in 1 .. Len(batch) : longer[i] = batch[i]
      /\ longer[Len(batch) + 1] = s
  BY DEF Gains
<1>2. DOMAIN longer = 1 .. Len(batch) + 1 /\ DOMAIN batch = 1 .. Len(batch)
  BY <1>1
<1>3. PICK n \in Nat : n = Len(batch)
  BY <1>1
<1>4. \A i \in Of(a, batch) : i \in Of(a, longer) /\ longer[i] = batch[i] /\ i < Len(longer)
  BY <1>1, <1>2, <1>3 DEF Of
<1>5. \A i \in Of(a, longer) :
        (i \in Of(a, batch) /\ longer[i] = batch[i]) \/ (i = Len(longer) /\ longer[i] = s /\ s.ammeter = a)
  BY <1>1, <1>2, <1>3 DEF Of
<1>6. s.ammeter = a => Len(longer) \in Of(a, longer) /\ longer[Len(longer)] = s
  BY <1>1, <1>2, <1>3 DEF Of
<1> QED BY <1>4, <1>5, <1>6

(* The queue grows by one sample at its end.                               *)
Grows(q, r, n, s) ==
  /\ Gains(q[n], r[n], s)
  /\ \A e \in Places : e # n => r[e] = q[e]
  /\ \A e \in Places : e > n => q[e] = <<>>

LEMMA FlowGrows ==
  ASSUME NEW q \in [Places -> Seq(Samples)], NEW r \in [Places -> Seq(Samples)],
         NEW n \in Places, NEW s \in Samples,
         Grows(q, r, n, s),
         NEW a \in Ammeters, NEW lo \in Nat, NEW hi \in Nat, lo <= hi, Flow(q, a, lo, hi),
         s.ammeter = a => s.index = hi,
         NEW top \in Nat, s.ammeter = a => top = hi + 1, s.ammeter # a => top = hi
  PROVE  Flow(r, a, lo, top)
<1>grows. Gains(q[n], r[n], s) /\ \A e \in Places : e # n => r[e] = q[e]
  BY DEF Grows
<1>ends. \A e \in Places : e > n => Of(a, q[e]) = {}
  BY DEF Grows, Of
<1>0. PICK last \in Nat : last = Len(r[n])
  OBVIOUS
<1>1. /\ \A i \in Of(a, q[n]) : i \in Of(a, r[n]) /\ r[n][i] = q[n][i] /\ i < last
      /\ \A i \in Of(a, r[n]) :
           (i \in Of(a, q[n]) /\ r[n][i] = q[n][i]) \/ (i = last /\ r[n][i] = s /\ s.ammeter = a)
      /\ s.ammeter = a => last \in Of(a, r[n]) /\ r[n][last] = s
  BY <1>0, <1>grows, OfLonger
<1>2. top \in Nat /\ hi <= top /\ (s.ammeter = a => top = hi + 1)
  OBVIOUS
<1>3. Places \subseteq Nat /\ \A e \in Places : Of(a, q[e]) \subseteq Nat /\ Of(a, r[e]) \subseteq Nat
  BY SMTT(60) DEF Of, Places
<1>4. \A e \in Places : \A i \in Of(a, q[e]) : i \in Of(a, r[e]) /\ r[e][i] = q[e][i]
  BY <1>1, <1>grows
<1>5. \A e \in Places : \A i \in Of(a, r[e]) :
        \/ i \in Of(a, q[e]) /\ r[e][i] = q[e][i]
        \/ e = n /\ i = last /\ r[e][i] = s /\ s.ammeter = a
  BY <1>1, <1>grows
<1>6. \A e \in Places : \A i \in Of(a, q[e]) : e <= n
  <2> SUFFICES ASSUME NEW e \in Places, e > n, NEW i \in Of(a, q[e]) PROVE FALSE
    BY <1>3
  <2> QED BY <1>ends
<1>7. \A e \in Places : \A i \in Of(a, q[e]) : q[e][i].index \in lo .. hi - 1
  BY DEF Flow
<1>8. \A e \in Places : \A i \in Of(a, r[e]) : r[e][i].index \in lo .. top - 1
  <2> SUFFICES ASSUME NEW e \in Places, NEW i \in Of(a, r[e]) PROVE r[e][i].index \in lo .. top - 1
    OBVIOUS
  <2>1. CASE i \in Of(a, q[e]) /\ r[e][i] = q[e][i]
    <3>1. r[e][i].index \in lo .. hi - 1
      BY <1>7, <2>1
    <3> QED BY <1>2, <3>1
  <2>2. CASE e = n /\ i = last /\ r[e][i] = s /\ s.ammeter = a
    BY <1>2, <2>2
  <2> QED BY <1>5, <2>1, <2>2
<1>9. ASSUME NEW k \in lo .. top - 1
      PROVE  \E e \in Places : \E i \in Of(a, r[e]) : r[e][i].index = k
  <2>1. CASE k < hi
    <3>0. k \in lo .. hi - 1
      BY <1>2, <2>1
    <3>1. PICK e \in Places : \E i \in Of(a, q[e]) : q[e][i].index = k
      BY <3>0 DEF Flow
    <3> QED BY <1>4, <3>1
  <2>2. CASE k >= hi
    <3>1. s.ammeter = a /\ k = hi
      BY <1>2, <2>2
    <3> QED BY <1>1, <3>1
  <2> QED BY <2>1, <2>2
<1>10. ASSUME NEW d \in Places, NEW e \in Places, NEW i \in Of(a, r[d]), NEW j \in Of(a, r[e]),
              d < e \/ (d = e /\ i < j)
       PROVE  r[d][i].index < r[e][j].index
  <2>1. CASE e = n /\ j = last /\ r[e][j] = s /\ s.ammeter = a
    <3>1. ~(d = n /\ i = last)
      BY <1>3, <1>10, <2>1
    <3>2. i \in Of(a, q[d]) /\ r[d][i] = q[d][i]
      BY <1>5, <3>1
    <3>3. r[d][i].index \in lo .. hi - 1
      BY <1>7, <3>2
    <3> QED BY <2>1, <3>3
  <2>2. CASE j \in Of(a, q[e]) /\ r[e][j] = q[e][j]
    <3>1. CASE i \in Of(a, q[d]) /\ r[d][i] = q[d][i]
      BY <1>10, <2>2, <3>1 DEF Flow
    <3>2. CASE d = n /\ i = last
      <4>1. e <= n
        BY <1>6, <2>2
      <4>2. d = e /\ last < j
        BY <1>3, <1>10, <3>2, <4>1
      <4>3. j < last
        BY <1>1, <2>2, <3>2, <4>2
      <4> QED BY <1>3, <4>2, <4>3
    <3> QED BY <1>5, <3>1, <3>2
  <2> QED BY <1>5, <2>1, <2>2
<1> QED BY <1>8, <1>9, <1>10 DEF Flow

LEMMA MissedGrows ==
  ASSUME NEW q \in [Places -> Seq(Samples)], NEW r \in [Places -> Seq(Samples)],
         NEW n \in Places, NEW s \in Samples, Grows(q, r, n, s), NEW a \in Ammeters
  PROVE  \A k : k \in Missed(r, a) <=> k \in Missed(q, a) \/ (s.ammeter = a /\ ~s.ok /\ k = s.index)
<1>grows. Gains(q[n], r[n], s) /\ \A e \in Places : e # n => r[e] = q[e]
  BY DEF Grows
<1>0. PICK last \in Nat : last = Len(r[n])
  OBVIOUS
<1>1. /\ \A i \in Of(a, q[n]) : i \in Of(a, r[n]) /\ r[n][i] = q[n][i] /\ i < last
      /\ \A i \in Of(a, r[n]) :
           (i \in Of(a, q[n]) /\ r[n][i] = q[n][i]) \/ (i = last /\ r[n][i] = s /\ s.ammeter = a)
      /\ s.ammeter = a => last \in Of(a, r[n]) /\ r[n][last] = s
  BY <1>0, <1>grows, OfLonger
<1>4. \A e \in Places : \A i \in Of(a, q[e]) : i \in Of(a, r[e]) /\ r[e][i] = q[e][i]
  BY <1>1, <1>grows
<1>5. \A e \in Places : \A i \in Of(a, r[e]) :
        \/ i \in Of(a, q[e]) /\ r[e][i] = q[e][i]
        \/ e = n /\ i = last /\ r[e][i] = s /\ s.ammeter = a
  BY <1>1, <1>grows
<1>6. ASSUME NEW k \in Missed(r, a)
      PROVE  k \in Missed(q, a) \/ (s.ammeter = a /\ ~s.ok /\ k = s.index)
  <2>1. PICK e \in Places : \E i \in Of(a, r[e]) : r[e][i].index = k /\ ~r[e][i].ok
    BY DEF Missed
  <2>2. PICK i \in Of(a, r[e]) : r[e][i].index = k /\ ~r[e][i].ok
    BY <2>1
  <2>3. CASE i \in Of(a, q[e]) /\ r[e][i] = q[e][i]
    BY <2>2, <2>3 DEF Missed
  <2>4. CASE r[e][i] = s /\ s.ammeter = a
    BY <2>2, <2>4
  <2> QED BY <1>5, <2>3, <2>4
<1>7. ASSUME NEW k \in Missed(q, a) PROVE k \in Missed(r, a)
  BY <1>4 DEF Missed
<1>8. s.ammeter = a /\ ~s.ok => s.index \in Missed(r, a)
  <2>1. s.index \in Int
    BY DEF Samples
  <2> QED BY <1>1, <2>1 DEF Missed
<1> QED BY <1>6, <1>7, <1>8

Bad(a, batch) == {i \in Of(a, batch) : ~batch[i].ok}
Indices(batch, places) == {batch[i].index : i \in places}

(* The batch at the head of a flow: as many samples of a as the indices it *)
(* takes away, and as many failed ones.                                    *)
LEMMA HeadOfFlow ==
  ASSUME NEW q \in [Places -> Seq(Samples)], NEW a \in Ammeters, NEW lo \in Nat, NEW hi \in Nat,
         lo <= hi, Flow(q, a, lo, hi),
         NEW batch \in Seq(Samples), batch = q[1]
  PROVE  /\ IsFiniteSet(Of(a, batch)) /\ Cardinality(Of(a, batch)) \in Nat
         /\ lo + Cardinality(Of(a, batch)) <= hi
         /\ Indices(batch, Of(a, batch)) = lo .. lo + Cardinality(Of(a, batch)) - 1
         /\ Cardinality(Bad(a, batch)) = Cardinality(Indices(batch, Bad(a, batch)))
<1>1. batch = q[1]
  OBVIOUS
<1>2. 1 \in Places
  BY DEF Places
<1> DEFINE P == Of(a, batch)
           I == {batch[i].index : i \in P}
           Lost == {i \in P : ~batch[i].ok}
           F == {batch[i].index : i \in Lost}
<1>3. P \subseteq 1 .. Len(batch) /\ Len(batch) \in Nat
  BY DEF Of
<1>4. IsFiniteSet(P) /\ Cardinality(P) \in Nat
  <2>1. IsFiniteSet(1 .. Len(batch))
    BY <1>3, FS_Interval
  <2>2. IsFiniteSet(P)
    BY <1>3, <2>1, FS_Subset
  <2> QED BY <2>2, FS_CardinalityType
<1>5. PICK k \in Nat : k = Cardinality(P)
  BY <1>4
<1>6. \A i, j \in P : i < j => batch[i].index < batch[j].index
  BY <1>1, <1>2 DEF Flow
<1>7. \A i \in P : batch[i].index \in lo .. hi - 1
  BY <1>1, <1>2 DEF Flow
<1> HIDE DEF P
<1>8. \A i, j \in P : batch[i].index = batch[j].index => i = j
  <2> SUFFICES ASSUME NEW i \in P, NEW j \in P, batch[i].index = batch[j].index, i # j PROVE FALSE
    OBVIOUS
  <2>1. i < j \/ j < i
    BY <1>3
  <2>2. batch[i].index \in Int /\ batch[j].index \in Int
    BY <1>7
  <2> QED BY <1>6, <2>1, <2>2
<1>9. ASSUME NEW Q \in SUBSET P
      PROVE  /\ IsFiniteSet({batch[i].index : i \in Q})
             /\ Cardinality({batch[i].index : i \in Q}) = Cardinality(Q)
  <2> DEFINE J == {batch[i].index : i \in Q}
             f == [i \in Q |-> batch[i].index]
  <2>1. f \in Bijection(Q, J)
    <3>1. \A x, y \in Q : f[x] = f[y] => x = y
      BY <1>8
    <3>2. f \in [Q -> J] /\ \A y \in J : \E x \in Q : f[x] = y
      OBVIOUS
    <3> QED BY <3>1, <3>2 DEF Bijection, Injection, IsInjective, Surjection
  <2>2. IsFiniteSet(Q)
    BY <1>4, FS_Subset
  <2>3. IsFiniteSet(J) /\ Cardinality(J) = Cardinality(Q)
    <3> HIDE DEF f, J
    <3> QED BY <2>1, <2>2, FS_Bijection DEF ExistsBijection
  <2> QED BY <2>3
<1>10. IsFiniteSet(I) /\ Cardinality(I) = k
  BY <1>5, <1>9
<1>11. Cardinality(Lost) = Cardinality(F)
  BY <1>9
<1>12. I \subseteq lo .. hi - 1
  BY <1>7
<1>13. ASSUME NEW x \in I, NEW y \in lo .. hi - 1, y < x PROVE y \in I
  <2>1. PICK i \in P : batch[i].index = x
    OBVIOUS
  <2>2. PICK e \in Places : \E j \in Of(a, q[e]) : q[e][j].index = y
    BY DEF Flow
  <2>3. PICK j \in Of(a, q[e]) : q[e][j].index = y
    BY <2>2
  <2>4. ~(1 < e)
    <3> SUFFICES ASSUME 1 < e PROVE FALSE
      OBVIOUS
    <3>1. q[1][i].index < q[e][j].index
      BY <1>1, <1>2, <2>1 DEF Flow, P
    <3>2. x < y /\ x \in Int /\ y \in Int
      BY <1>1, <1>12, <2>1, <2>3, <3>1
    <3> QED BY <1>13, <3>2
  <2>5. e = 1
    BY <2>4 DEF Places
  <2> QED BY <1>1, <2>3, <2>5 DEF P
<1>14. IsFiniteSet(lo .. hi - 1) /\ Cardinality(lo .. hi - 1) = hi - lo
  <2>1. PICK top \in Int : top = hi - 1
    OBVIOUS
  <2>2. IsFiniteSet(lo .. top) /\ Cardinality(lo .. top) = IF lo > top THEN 0 ELSE top - lo + 1
    BY FS_Interval
  <2> QED BY <2>1, <2>2
<1>15. k <= hi - lo
  BY <1>10, <1>12, <1>14, FS_Subset
<1>16. I \subseteq lo .. lo + k - 1
  <2> HIDE DEF I
  <2> SUFFICES ASSUME NEW x \in I, x >= lo + k PROVE FALSE
    BY <1>12
  <2>0. x \in Int /\ x <= hi - 1
    BY <1>12
  <2>1. x \in Int /\ lo .. x \subseteq I
    <3>1. ASSUME NEW y \in lo .. x, y # x PROVE y \in I
      <4>1. y < x /\ y \in lo .. hi - 1
        BY <2>0, <3>1
      <4> QED BY <4>1, <1>13
    <3> QED BY <2>0, <3>1
  <2>2. IsFiniteSet(lo .. x) /\ Cardinality(lo .. x) = x - lo + 1
    BY <2>1, FS_Interval
  <2>3. x - lo + 1 <= k
    BY <1>10, <2>1, <2>2, FS_Subset
  <2> QED BY <2>1, <2>3
<1>17. IsFiniteSet(lo .. lo + k - 1) /\ Cardinality(lo .. lo + k - 1) = k
  BY FS_Interval
<1>18. I = lo .. lo + k - 1
  <2> HIDE DEF I
  <2> QED BY <1>10, <1>16, <1>17, FS_Subset
<1>19. lo + k <= hi
  BY <1>15
<1>20. Lost = Bad(a, batch) /\ F = Indices(batch, Bad(a, batch)) /\ I = Indices(batch, P)
  BY DEF P, Bad, Indices
<1> HIDE DEF Lost, F, I
<1> QED BY <1>4, <1>5, <1>11, <1>18, <1>19, <1>20 DEF P

(* The missed indices are some of those on their way.                      *)
LEMMA MissedFinite ==
  ASSUME NEW q \in [Places -> Seq(Samples)], NEW a \in Ammeters, NEW lo \in Nat, NEW hi \in Nat,
         Flow(q, a, lo, hi)
  PROVE  Missed(q, a) \subseteq lo .. hi - 1 /\ IsFiniteSet(Missed(q, a)) /\ Cardinality(Missed(q, a)) \in Nat
<1>1. Missed(q, a) \subseteq lo .. hi - 1
  BY DEF Missed, Flow
<1>2. IsFiniteSet(lo .. hi - 1)
  <2>1. PICK top \in Int : top = hi - 1
    OBVIOUS
  <2> QED BY <2>1, FS_Interval
<1>3. IsFiniteSet(Missed(q, a))
  BY <1>1, <1>2, FS_Subset
<1> QED BY <1>1, <1>3, FS_CardinalityType

(* The page takes the head: what it counts is what the flow loses.         *)
LEMMA FlowLosesHead ==
  ASSUME NEW q \in [Places -> Seq(Samples)], NEW r \in [Places -> Seq(Samples)],
         \A e \in Places : r[e] = q[e + 1],
         NEW a \in Ammeters, NEW lo \in Nat, NEW hi \in Nat, lo <= hi, Flow(q, a, lo, hi)
  PROVE  LET got == Cardinality(Of(a, q[1]))
             bad == Cardinality(Bad(a, q[1]))
         IN  /\ got \in Nat /\ bad \in Nat /\ lo + got <= hi /\ Flow(r, a, lo + got, hi)
             /\ Cardinality(Missed(r, a)) \in Nat
             /\ Cardinality(Missed(q, a)) = bad + Cardinality(Missed(r, a))
<1>1. PICK batch \in Seq(Samples) : batch = q[1]
  BY DEF Places
<1> DEFINE P == Of(a, batch)
           B == {i \in P : ~batch[i].ok}
           F == {batch[i].index : i \in B}
<1>2. /\ IsFiniteSet(P) /\ Cardinality(P) \in Nat /\ lo + Cardinality(P) <= hi
      /\ {batch[i].index : i \in P} = lo .. lo + Cardinality(P) - 1
      /\ Cardinality(B) = Cardinality(F)
  <2>1. B = Bad(a, batch) /\ F = Indices(batch, Bad(a, batch)) /\ {batch[i].index : i \in P} = Indices(batch, P)
    BY DEF Bad, Indices
  <2>2. /\ IsFiniteSet(Of(a, batch)) /\ Cardinality(Of(a, batch)) \in Nat
        /\ lo + Cardinality(Of(a, batch)) <= hi
        /\ Indices(batch, Of(a, batch)) = lo .. lo + Cardinality(Of(a, batch)) - 1
        /\ Cardinality(Bad(a, batch)) = Cardinality(Indices(batch, Bad(a, batch)))
    BY <1>1, HeadOfFlow
  <2> HIDE DEF B, F
  <2> QED BY <2>1, <2>2
<1>3. PICK got \in Nat : got = Cardinality(P)
  BY <1>2
<1>4. IsFiniteSet(B) /\ Cardinality(B) \in Nat
  <2>1. B \subseteq P
    OBVIOUS
  <2>2. IsFiniteSet(B)
    <3> HIDE DEF P, B
    <3> QED BY <1>2, <2>1, FS_Subset
  <2> QED BY <2>2, FS_CardinalityType
<1> HIDE DEF P
<1>5. /\ \A i \in P : batch[i].index \in lo .. lo + got - 1
      /\ \A k \in lo .. lo + got - 1 : \E i \in P : batch[i].index = k
      /\ lo + got <= hi
  BY <1>2, <1>3
<1>6. 1 \in Places /\ \A e \in Places : e + 1 \in Places /\ 1 < e + 1 /\ (e = 1 \/ e - 1 \in Places)
  BY DEF Places
<1>7. \A e \in Places : \A i \in Of(a, q[e]) : q[e][i].index \in lo .. hi - 1
  BY DEF Flow
<1>8. \A i \in P : \A e \in Places : \A j \in Of(a, r[e]) : batch[i].index < r[e][j].index
  <2> SUFFICES ASSUME NEW i \in P, NEW e \in Places, NEW j \in Of(a, r[e])
               PROVE  batch[i].index < r[e][j].index
    OBVIOUS
  <2>1. e + 1 \in Places /\ 1 < e + 1 /\ r[e] = q[e + 1] /\ j \in Of(a, q[e + 1]) /\ i \in Of(a, q[1])
    BY <1>1, <1>6 DEF P
  <2>2. q[1][i].index < q[e + 1][j].index
    BY <1>6, <2>1 DEF Flow
  <2> QED BY <1>1, <2>1, <2>2
<1>9. \A e \in Places : \A j \in Of(a, r[e]) : r[e][j].index \in lo + got .. hi - 1
  <2> SUFFICES ASSUME NEW e \in Places, NEW j \in Of(a, r[e]) PROVE r[e][j].index \in lo + got .. hi - 1
    OBVIOUS
  <2>1. r[e][j].index \in lo .. hi - 1
    BY <1>6, <1>7
  <2>2. CASE got = 0
    BY <2>1, <2>2
  <2>3. CASE got > 0
    <3>1. lo + got - 1 \in lo .. lo + got - 1
      BY <2>3
    <3>2. PICK i \in P : batch[i].index = lo + got - 1
      BY <1>5, <3>1
    <3>3. lo + got - 1 < r[e][j].index
      BY <1>8, <3>2
    <3> QED BY <2>1, <3>3
  <2> QED BY <2>2, <2>3
<1>10. Flow(r, a, lo + got, hi)
  <2>1. ASSUME NEW k \in lo + got .. hi - 1
        PROVE  \E e \in Places : \E j \in Of(a, r[e]) : r[e][j].index = k
    <3>1. k \in lo .. hi - 1 /\ k \notin lo .. lo + got - 1
      OBVIOUS
    <3>2. PICK e \in Places : \E j \in Of(a, q[e]) : q[e][j].index = k
      BY <3>1 DEF Flow
    <3>3. e # 1
      BY <1>1, <1>5, <3>1, <3>2 DEF P
    <3>4. e - 1 \in Places /\ r[e - 1] = q[e]
      BY <1>6, <3>3 DEF Places
    <3> QED BY <3>2, <3>4
  <2>2. ASSUME NEW d \in Places, NEW e \in Places, NEW i \in Of(a, r[d]), NEW j \in Of(a, r[e]),
               d < e \/ (d = e /\ i < j)
        PROVE  r[d][i].index < r[e][j].index
    <3>1. d + 1 < e + 1 \/ (d + 1 = e + 1 /\ i < j)
      BY <2>2 DEF Places
    <3>2. i \in Of(a, q[d + 1]) /\ j \in Of(a, q[e + 1]) /\ d + 1 \in Places /\ e + 1 \in Places
      BY <1>6
    <3>3. q[d + 1][i].index < q[e + 1][j].index
      BY <3>1, <3>2 DEF Flow
    <3> QED BY <3>3
  <2> QED BY <1>9, <2>1, <2>2 DEF Flow
<1>11. /\ IsFiniteSet(Missed(r, a)) /\ Cardinality(Missed(r, a)) \in Nat
       /\ Missed(r, a) \subseteq lo + got .. hi - 1
  <2>1. lo + got \in Nat
    OBVIOUS
  <2> QED BY <1>10, <2>1, MissedFinite
<1>12. F \subseteq lo .. lo + got - 1
  BY <1>5
<1>13. IsFiniteSet(F)
  <2>1. IsFiniteSet(lo .. lo + got - 1)
    <3>1. PICK top \in Int : top = lo + got - 1
      OBVIOUS
    <3> QED BY <3>1, FS_Interval
  <2> HIDE DEF F
  <2> QED BY <1>12, <2>1, FS_Subset
<1>14. Missed(q, a) = F \cup Missed(r, a)
  <2>1. ASSUME NEW k \in Missed(q, a) PROVE k \in F \cup Missed(r, a)
    <3>1. PICK e \in Places : \E i \in Of(a, q[e]) : q[e][i].index = k /\ ~q[e][i].ok
      BY DEF Missed
    <3>2. CASE e = 1
      BY <1>1, <3>1, <3>2 DEF P
    <3>3. CASE e # 1
      <4>1. e - 1 \in Places /\ r[e - 1] = q[e]
        BY <1>6, <3>3 DEF Places
      <4> QED BY <3>1, <4>1 DEF Missed
    <3> QED BY <3>2, <3>3
  <2>2. ASSUME NEW k \in F PROVE k \in Missed(q, a)
    <3>1. PICK i \in P : ~batch[i].ok /\ k = batch[i].index
      OBVIOUS
    <3>2. k \in Int
      BY <1>5, <3>1
    <3> QED BY <1>1, <1>6, <3>1, <3>2 DEF Missed, P
  <2>3. ASSUME NEW k \in Missed(r, a) PROVE k \in Missed(q, a)
    BY <1>6, SMTT(60) DEF Missed
  <2> QED BY <2>1, <2>2, <2>3
<1>15. F \cap Missed(r, a) = {}
  BY <1>11, <1>12
<1>16. Cardinality(Missed(q, a)) = Cardinality(F) + Cardinality(Missed(r, a))
  <2>1. PICK x, y : x = F /\ y = Missed(r, a) /\ IsFiniteSet(x) /\ IsFiniteSet(y)
    BY <1>11, <1>13
  <2>2. Cardinality(x \cup y) = Cardinality(x) + Cardinality(y) - Cardinality(x \cap y)
    BY <2>1, FS_Union
  <2>3. Cardinality(x \cap y) = 0 /\ Cardinality(x) \in Nat /\ Cardinality(y) \in Nat
    BY <1>15, <2>1, FS_EmptySet, FS_CardinalityType
  <2> HIDE DEF F
  <2> QED BY <1>14, <2>1, <2>2, <2>3
<1>17. /\ got = Cardinality(Of(a, q[1]))
       /\ Cardinality(B) = Cardinality(Bad(a, q[1]))
  BY <1>1, <1>3 DEF P, Bad
<1> HIDE DEF B, F
<1> QED BY <1>2, <1>4, <1>5, <1>10, <1>11, <1>16, <1>17

-----------------------------------------------------------------------------
(* The samples on their way to the page, and the inductive invariant.      *)

Queue == [e \in Places |-> Batch(e)]

FlowInv == \A a \in Ammeters : requests[a] <= emitted[a] /\ Flow(Queue, a, requests[a], emitted[a])

(* Counters are zero until the worker gets to the ammeter, and the client  *)
(* numbers its requests as they are made.                                  *)
TallyInv ==
  /\ requests \in [Ammeters -> Nat] /\ failures \in [Ammeters -> Nat]
  /\ emitted \in [Ammeters -> Nat] /\ lost \in [Ammeters -> Nat]
  /\ wpc \in Working => \A a \in Ammeters :
       a > at \/ (a = at /\ wpc \in {"setup", "head", "start"}) =>
         emitted[a] = 0 /\ failures[a] = 0 /\ lost[a] = 0
  /\ wpc = "start" => index = 0 /\ attempt = 0
  /\ wpc = "wait" => index = emitted[at]
  /\ wpc = "reading" => index = emitted[at] + 1 /\ attempt > 0

InWindow == {"start", "wait", "reading", "window", "analysed", "archive"}

(* As long as no slot was retried, the failures counted and those on their *)
(* way are the samples lost, but for a slot that may be tried again.       *)
Undecided(a) == IF a = at /\ wpc = "wait" /\ attempt > 0 THEN 1 ELSE 0

FailedInv ==
  \A a \in Ammeters \ retried :
    a \in kept \/ (a = at /\ wpc \in InWindow) =>
      failures[a] + Cardinality(Missed(Queue, a)) = lost[a] + Undecided(a)

(* No sample of an ammeter is behind its analysis.                         *)
AfterInv ==
  /\ \A a \in analysed : \A e \in Places : Of(a, Queue[e]) = {}
  /\ \A i \in DOMAIN inbox : inbox[i].kind = "analysis" =>
       \A e \in Places : e > i => Of(inbox[i].ammeter, Queue[e]) = {}

(* A worker that is done has left nothing behind but its outcome.          *)
WorkerDone == ~busy \/ wpc \in {"none", "returned", "quitting"}

OverInv ==
  WorkerDone =>
    /\ pending = <<>>
    /\ run > 0 => banner # "none" \/ \E i \in DOMAIN inbox : inbox[i].kind \in {"completed", "failed"}

(* Every ammeter but the one at work ends in a final stage.                *)
Final == {"queued", "cancelled", "failed", "done"}

StageOf(a, i) == inbox[i].kind = "stage" /\ inbox[i].ammeter = a

Settled(a) ==
  \/ stage[a] \in Final /\ \A i \in DOMAIN inbox : ~StageOf(a, i)
  \/ \E i \in DOMAIN inbox : /\ StageOf(a, i) /\ inbox[i].stage \in Final
                             /\ \A j \in DOMAIN inbox : j > i => ~StageOf(a, j)

StageInv == \A a \in Ammeters : Settled(a) \/ (a = at /\ wpc \in InWindow) \/ (wpc = "killed" /\ busy)

SInv == FlowInv /\ TallyInv /\ FailedInv /\ AfterInv /\ OverInv /\ StageInv

-----------------------------------------------------------------------------
(* How the steps change the samples on their way.                          *)

LEMMA QueueType ==
  ASSUME TypeInv
  PROVE  /\ Queue \in [Places -> Seq(Samples)]
         /\ \A e \in Places : e > Len(inbox) + 1 => Queue[e] = <<>>
         /\ Len(inbox) + 1 \in Places /\ Queue[Len(inbox) + 1] = pending
<1>1. inbox \in Seq(Events) /\ pending \in Seq(Samples) /\ Len(inbox) \in Nat /\ DOMAIN inbox = 1 .. Len(inbox)
  BY DEF TypeInv
<1>2. ASSUME NEW e \in Places PROVE Batch(e) \in Seq(Samples)
  <2>1. e \in DOMAIN inbox /\ inbox[e].kind = "samples" => inbox[e].batch \in Seq(Samples)
    <3>1. e \in DOMAIN inbox => inbox[e] \in Events
      BY <1>1
    <3> QED BY <3>1 DEF Events
  <2> QED BY <1>1, <2>1 DEF Batch
<1>3. Queue \in [Places -> Seq(Samples)] /\ \A e \in Places : Queue[e] = Batch(e)
  BY <1>2 DEF Queue
<1>4. ASSUME NEW e \in Places, e > Len(inbox) + 1 PROVE Batch(e) = <<>>
  BY <1>1, <1>4 DEF Batch, Places
<1>5. Len(inbox) + 1 \in Places /\ Batch(Len(inbox) + 1) = pending
  BY <1>1 DEF Batch, Places
<1> QED BY <1>3, <1>4, <1>5

(* Samples that are flushed stay where they are.                           *)
LEMMA PostKeepsQueue ==
  ASSUME TypeInv, NEW events \in Seq(Events), Post(events),
         \A i \in 1 .. Len(events) : events[i].kind # "samples"
  PROVE  Queue' = Queue /\ pending' = <<>>
<1>1. inbox \in Seq(Events) /\ pending \in Seq(Samples) /\ run \in Nat
  BY DEF TypeInv
<1>2. PICK n \in Nat, k \in Nat : n = Len(inbox) /\ k = Len(events)
  BY <1>1
<1>3. inbox' = (inbox \o Flushed) \o events /\ pending' = <<>>
  BY DEF Post
<1>4. SUFFICES ASSUME NEW e \in Places PROVE Batch(e)' = Batch(e)
  BY <1>3 DEF Queue
<1>5. e \in Nat /\ e >= 1
  BY DEF Places
<1>6. CASE pending = <<>>
  <2>1. inbox' = inbox \o events
    BY <1>1, <1>3, <1>6 DEF Flushed
  <2>2. /\ DOMAIN inbox' = 1 .. n + k /\ DOMAIN inbox = 1 .. n /\ Len(inbox') = n + k
        /\ \A i \in 1 .. n : inbox'[i] = inbox[i]
        /\ \A i \in n + 1 .. n + k : inbox'[i].kind # "samples"
    BY <1>1, <1>2, <2>1
  <2> QED BY <1>2, <1>3, <1>5, <1>6, <2>2 DEF Batch
<1>7. CASE pending # <<>>
  <2>1. PICK ev \in Events : ev.kind = "samples" /\ ev.batch = pending /\ Flushed = <<ev>>
    <3>1. [kind |-> "samples", of |-> run, batch |-> pending] \in Events
      BY <1>1 DEF Events
    <3> QED BY <1>7, <3>1 DEF Flushed
  <2>2. PICK queue \in Seq(Events) :
          /\ queue = inbox \o Flushed /\ Len(queue) = n + 1
          /\ \A i \in 1 .. n : queue[i] = inbox[i]
          /\ queue[n + 1] = ev
    <3>1. PICK queue : queue = inbox \o <<ev>>
      OBVIOUS
    <3>2. /\ queue \in Seq(Events) /\ Len(queue) = n + 1
          /\ \A i \in 1 .. n : queue[i] = inbox[i]
          /\ queue[n + 1] = ev
      BY <1>1, <1>2, <3>1
    <3>3. queue = inbox \o Flushed
      BY <2>1, <3>1
    <3> QED BY <3>2, <3>3
  <2>3. /\ inbox' \in Seq(Events) /\ Len(inbox') = n + 1 + k
        /\ \A i \in 1 .. n + 1 : inbox'[i] = queue[i]
        /\ \A i \in n + 2 .. n + 1 + k : inbox'[i] = events[i - (n + 1)]
    <3>1. inbox' = queue \o events
      BY <1>3, <2>2
    <3>2. Len(queue) = n + 1 /\ Len(events) = k
      BY <1>2, <2>2
    <3>3. queue \o events \in Seq(Events) /\ Len(queue \o events) = n + 1 + k
      BY <3>2
    <3>4. \A i \in 1 .. n + 1 : (queue \o events)[i] = queue[i]
      BY <3>2
    <3>5. \A i \in n + 2 .. n + 1 + k : (queue \o events)[i] = events[i - (n + 1)]
      BY <3>2
    <3> QED BY <3>1, <3>3, <3>4, <3>5
  <2>4. DOMAIN inbox' = 1 .. n + 1 + k /\ DOMAIN inbox = 1 .. n
    BY <1>1, <1>2, <2>3
  <2>5. /\ \A i \in 1 .. n : inbox'[i] = inbox[i]
        /\ inbox'[n + 1] = ev
    <3>1. (\A i \in 1 .. n : queue[i] = inbox[i]) /\ queue[n + 1] = ev
      BY <2>2
    <3>2. \A i \in 1 .. n + 1 : inbox'[i] = queue[i]
      BY <2>3
    <3>3. inbox'[n + 1] = queue[n + 1]
      BY <3>2
    <3>4. \A i \in 1 .. n : inbox'[i] = queue[i]
      BY <3>2
    <3> QED BY <3>1, <3>3, <3>4
  <2>6. ASSUME NEW i \in n + 2 .. n + 1 + k PROVE inbox'[i].kind # "samples"
    <3>1. i - (n + 1) \in 1 .. Len(events)
      BY <1>2
    <3> QED BY <2>3, <3>1
  <2> QED BY <1>2, <1>3, <1>5, <2>1, <2>3, <2>4, <2>5, <2>6 DEF Batch
<1> QED BY <1>6, <1>7

(* A collected sample is the last on its way, flushed or not.              *)
LEMMA CollectGrowsQueue ==
  ASSUME TypeInv, NEW ok \in BOOLEAN, Collect(ok), at \in Ammeters
  PROVE  \E s \in Samples :
           /\ s.ammeter = at /\ s.index = index - 1 /\ s.ok = ok
           /\ Gains(Queue[Len(inbox) + 1], Queue'[Len(inbox) + 1], s)
           /\ \A e \in Places : e # Len(inbox) + 1 => Queue'[e] = Queue[e]
           /\ Queue' \in [Places -> Seq(Samples)]
<1>1. inbox \in Seq(Events) /\ pending \in Seq(Samples) /\ run \in Nat /\ index \in Int
  BY DEF TypeInv
<1>2. PICK n \in Nat : n = Len(inbox)
  BY <1>1
<1>3. PICK s \in Samples : s = [ammeter |-> at, index |-> index - 1, ok |-> ok]
  <2>1. [ammeter |-> at, index |-> index - 1, ok |-> ok] \in Samples
    <3>1. index - 1 \in Int
      BY <1>1
    <3> QED BY <3>1 DEF Samples
  <2> QED BY <2>1
<1>4. PICK longer \in Seq(Samples) : longer = Append(pending, s) /\ Gains(pending, longer, s)
  BY <1>1, AppendGains
<1>5. \/ pending' = longer /\ inbox' = inbox
      \/ pending' = <<>> /\ inbox' = Append(inbox, [kind |-> "samples", of |-> run, batch |-> longer])
  BY <1>3, <1>4 DEF Collect
<1>6. DOMAIN inbox = 1 .. n
  BY <1>1, <1>2
<1>7. Batch(n + 1) = pending /\ \A e \in Places : e > n + 1 => Batch(e) = <<>>
  BY <1>2, <1>6 DEF Batch, Places
<1>8. Batch(n + 1)' = longer /\ \A e \in Places : e # n + 1 => Batch(e)' = Batch(e)
  <2>1. CASE pending' = longer /\ inbox' = inbox
    BY <1>2, <1>6, <2>1 DEF Batch, Places
  <2>2. CASE pending' = <<>> /\ inbox' = Append(inbox, [kind |-> "samples", of |-> run, batch |-> longer])
    <3>1. PICK ev \in Events : ev.kind = "samples" /\ ev.batch = longer /\ inbox' = Append(inbox, ev)
      <4>1. [kind |-> "samples", of |-> run, batch |-> longer] \in Events
        BY <1>1 DEF Events
      <4> QED BY <2>2, <4>1
    <3>2. /\ DOMAIN inbox' = 1 .. n + 1 /\ Len(inbox') = n + 1
          /\ \A i \in 1 .. n : inbox'[i] = inbox[i]
          /\ inbox'[n + 1] = ev
      BY <1>1, <1>2, <3>1
    <3> QED BY <1>2, <1>6, <1>7, <2>2, <3>1, <3>2 DEF Batch, Places
  <2> QED BY <1>5, <2>1, <2>2
<1>9. n + 1 \in Places
  BY DEF Places
<1>10. /\ Queue[n + 1] = pending /\ Queue'[n + 1] = longer
       /\ \A e \in Places : e # n + 1 => Queue'[e] = Queue[e]
  BY <1>7, <1>8, <1>9 DEF Queue
<1>11. s.ammeter = at /\ s.index = index - 1 /\ s.ok = ok
  BY <1>3
<1>12. Queue' \in [Places -> Seq(Samples)]
  <2>1. \A e \in Places : Queue'[e] \in Seq(Samples)
    BY <1>2, <1>4, <1>10, QueueType
  <2>2. Queue' = [e \in Places |-> Queue'[e]]
    BY DEF Queue
  <2> QED BY <2>1, <2>2
<1> QED BY <1>2, <1>4, <1>10, <1>11, <1>12

(* The page takes the head.                                                *)
LEMMA TailShiftsQueue ==
  ASSUME TypeInv, inbox # <<>>, inbox' = Tail(inbox), UNCHANGED pending
  PROVE  /\ \A e \in Places : Queue'[e] = Queue[e + 1]
         /\ Queue[1] = IF Head(inbox).kind = "samples" THEN Head(inbox).batch ELSE <<>>
<1>1. /\ inbox \in Seq(Events) /\ inbox' \in Seq(Events)
      /\ 1 \in DOMAIN inbox /\ Head(inbox) = inbox[1] /\ Len(inbox') = Len(inbox) - 1
      /\ \A i \in DOMAIN inbox' : i \in Nat /\ i + 1 \in DOMAIN inbox /\ inbox'[i] = inbox[i + 1]
  BY Rest
<1>2. PICK n \in Nat : Len(inbox) = n + 1 /\ Len(inbox') = n
  <2>1. Len(inbox') \in Nat /\ Len(inbox) \in Nat /\ Len(inbox) = Len(inbox') + 1
    BY <1>1
  <2> QED BY <2>1
<1>3. DOMAIN inbox = 1 .. n + 1 /\ DOMAIN inbox' = 1 .. n
  BY <1>1, <1>2
<1>4. ASSUME NEW e \in Places PROVE Batch(e)' = Batch(e + 1)
  <2>1. e \in Nat /\ e >= 1
    BY DEF Places
  <2>2. e \in DOMAIN inbox' <=> e + 1 \in DOMAIN inbox
    BY <1>3, <2>1
  <2>3. e = Len(inbox') + 1 <=> e + 1 = Len(inbox) + 1
    BY <1>2, <2>1
  <2>4. e \in DOMAIN inbox' => inbox'[e] = inbox[e + 1]
    BY <1>1
  <2> QED BY <2>2, <2>3, <2>4 DEF Batch
<1>5. \A e \in Places : e + 1 \in Places
  BY DEF Places
<1>6. \A e \in Places : Queue'[e] = Queue[e + 1]
  BY <1>4, <1>5 DEF Queue
<1>7. 1 \in Places /\ Queue[1] = Batch(1)
  BY DEF Queue, Places
<1> QED BY <1>1, <1>6, <1>7 DEF Batch

(* The queue keeps what it has, and may gain events behind it.             *)
Extends ==
  /\ Len(inbox) \in Nat /\ Len(inbox') \in Nat /\ Len(inbox) <= Len(inbox')
  /\ DOMAIN inbox = 1 .. Len(inbox) /\ DOMAIN inbox' = 1 .. Len(inbox')
  /\ \A i \in 1 .. Len(inbox) : inbox'[i] = inbox[i]

LEMMA PostExtends ==
  ASSUME TypeInv, NEW events \in Seq(Events), Post(events)
  PROVE  /\ Extends
         /\ \E m \in Nat :
              /\ m >= Len(inbox) /\ Len(inbox') = m + Len(events)
              /\ \A i \in Len(inbox) + 1 .. m : inbox'[i].kind = "samples"
              /\ \A i \in 1 .. Len(events) : inbox'[m + i] = events[i]
<1>1. PICK m \in Nat :
        /\ m >= Len(inbox) /\ Len(inbox') = m + Len(events)
        /\ \A i \in 1 .. Len(inbox) : inbox'[i] = inbox[i]
        /\ \A i \in Len(inbox) + 1 .. m : inbox'[i].kind = "samples" /\ inbox'[i].of = run
        /\ \A i \in 1 .. Len(events) : inbox'[m + i] = events[i]
  BY Posting
<1>2. inbox \in Seq(Events) /\ inbox' \in Seq(Events)
  BY Posting DEF TypeInv
<1>3. Extends
  BY <1>1, <1>2 DEF Extends
<1> QED BY <1>1, <1>3

LEMMA FlowKept ==
  ASSUME FlowInv, Queue' = Queue, UNCHANGED <<requests, emitted>>
  PROVE  FlowInv'
BY DEF FlowInv, Flow

(* Behind the end of the queue there are no samples.                       *)
LEMMA AfterKept ==
  ASSUME TypeInv, AfterInv, Extends, Queue' = Queue, UNCHANGED analysed
  PROVE  AfterInv'
<1>1. \A a \in analysed' : \A e \in Places : Of(a, Queue'[e]) = {}
  BY DEF AfterInv
<1>2. ASSUME NEW i \in DOMAIN inbox', inbox'[i].kind = "analysis", NEW e \in Places, e > i
      PROVE  Of(inbox'[i].ammeter, Queue'[e]) = {}
  <2>1. CASE i \in DOMAIN inbox
    BY <1>2, <2>1 DEF AfterInv, Extends
  <2>2. CASE i \notin DOMAIN inbox
    <3>1. e > Len(inbox) + 1
      BY <1>2, <2>2 DEF Extends, Places
    <3>2. Queue[e] = <<>>
      BY <3>1, QueueType
    <3> QED BY <3>2 DEF Of
  <2> QED BY <2>1, <2>2
<1> QED BY <1>1, <1>2 DEF AfterInv

(* Who has no new stage stays settled.                                     *)
LEMMA SettledKept ==
  ASSUME Extends, UNCHANGED stage, NEW a,
         \A i \in Len(inbox) + 1 .. Len(inbox') : ~StageOf(a, i)', Settled(a)
  PROVE  Settled(a)'
<1>1. \A i \in DOMAIN inbox' : StageOf(a, i)' => i \in DOMAIN inbox /\ StageOf(a, i)
  BY DEF Extends, StageOf
<1>2. \A i \in DOMAIN inbox : i \in DOMAIN inbox' /\ inbox'[i] = inbox[i] /\ (StageOf(a, i) => StageOf(a, i)')
  BY DEF Extends, StageOf
<1> QED BY <1>1, <1>2 DEF Settled

(* Who is posted a final stage, last, is settled.                          *)
LEMMA SettledLast ==
  ASSUME Extends, NEW a, NEW n, n = Len(inbox'), n > 0,
         inbox'[n].kind = "stage", inbox'[n].ammeter = a, inbox'[n].stage \in Final
  PROVE  Settled(a)'
<1>1. n \in DOMAIN inbox' /\ \A j \in DOMAIN inbox' : ~(j > n)
  BY DEF Extends
<1> QED BY <1>1 DEF Settled, StageOf

-----------------------------------------------------------------------------
(* Steps of the worker that neither collect nor post.                      *)

LEMMA Quietly ==
  ASSUME IInv, SInv, UNCHANGED <<page, inbox, pending, at, emitted>>,
         wpc \in Working, wpc' \in Working, wpc \in InWindow => wpc' \in InWindow
  PROVE  Queue' = Queue /\ FlowInv' /\ AfterInv' /\ OverInv' /\ StageInv'
<1>1. Queue' = Queue
  BY DEF Queue, Batch
<1>2. Extends
  BY DEF Extends, IInv, TypeInv
<1>3. UNCHANGED <<busy, stage, requests, failures, analysed, banner>>
  BY DEF page
<1>4. FlowInv' /\ AfterInv'
  BY <1>1, <1>2, <1>3, FlowKept, AfterKept DEF SInv, IInv
<1>5. wpc' \notin {"none", "returned", "quitting", "killed"} /\ wpc \notin {"none", "returned", "quitting", "killed"}
  BY DEF Working
<1>6. busy
  BY DEF IInv, QueueInv
<1>7. OverInv'
  BY <1>3, <1>5, <1>6 DEF OverInv, WorkerDone
<1>8. \A a \in Ammeters : Settled(a) => Settled(a)'
  BY <1>3 DEF Settled, StageOf
<1>9. StageInv'
  BY <1>3, <1>5, <1>8 DEF SInv, StageInv
<1> QED BY <1>1, <1>4, <1>7, <1>9

LEMMA SamplesSetUp ==
  ASSUME IInv, SInv, SetUp
  PROVE  SInv'
<1>1. wpc = "setup" /\ wpc' = "head" /\ UNCHANGED <<page, stop, inbox, loop, pending, outcome, windows>>
  BY DEF SetUp
<1>2. UNCHANGED <<at, slot, attempt, index, kept, emitted, lost, retried, requests, failures>>
  BY <1>1 DEF page, loop, outcome, windows
<1>3. Queue' = Queue /\ FlowInv' /\ AfterInv' /\ OverInv' /\ StageInv'
  BY <1>1, <1>2, Quietly DEF Working, InWindow
<1>4. TallyInv'
  BY <1>1, <1>2 DEF SInv, TallyInv, Working
<1>5. FailedInv'
  BY <1>1, <1>2, <1>3 DEF SInv, FailedInv, Undecided, InWindow
<1> QED BY <1>3, <1>4, <1>5 DEF SInv

LEMMA SamplesStart ==
  ASSUME IInv, SInv, StartSucceeds \/ StartFails
  PROVE  SInv'
<1>1. /\ wpc = "start" /\ wpc' \in {"wait", "analysed"}
      /\ UNCHANGED <<page, stop, inbox, loop, pending, outcome, emitted, retried, lost>>
  BY DEF StartSucceeds, StartFails, windows
<1>2. UNCHANGED <<at, slot, attempt, index, kept, requests, failures>>
  BY <1>1 DEF page, loop, outcome
<1>3. Queue' = Queue /\ FlowInv' /\ AfterInv' /\ OverInv' /\ StageInv'
  BY <1>1, <1>2, Quietly DEF Working, InWindow
<1>4. at \in Ammeters
  BY <1>1, AtSelected DEF Working
<1>5. index = 0 /\ attempt = 0 /\ emitted[at] = 0
  BY <1>1, <1>4 DEF SInv, TallyInv, Working
<1>6. TallyInv'
  BY <1>1, <1>2, <1>5 DEF SInv, TallyInv, Working
<1>7. FailedInv'
  BY <1>1, <1>2, <1>3, <1>5 DEF SInv, FailedInv, Undecided, InWindow
<1> QED BY <1>3, <1>6, <1>7 DEF SInv

LEMMA SamplesRequest ==
  ASSUME IInv, SInv, Request
  PROVE  SInv'
<1>1. /\ wpc = "wait" /\ wpc' = "reading" /\ attempt' = attempt + 1 /\ index' = index + 1
      /\ retried' = (IF attempt > 0 THEN retried \cup {at} ELSE retried)
      /\ UNCHANGED <<page, stop, inbox, at, slot, pending, outcome, emitted, lost>>
  BY DEF Request
<1>2. UNCHANGED <<kept, requests, failures>>
  BY <1>1 DEF page, outcome
<1>3. Queue' = Queue /\ FlowInv' /\ AfterInv' /\ OverInv' /\ StageInv'
  BY <1>1, Quietly DEF Working, InWindow
<1>4. at \in Ammeters /\ attempt \in Nat
  BY <1>1, AtSelected DEF Working, IInv, TypeInv
<1>5. TallyInv'
  BY <1>1, <1>2, <1>4 DEF SInv, TallyInv, Working
<1>6. FailedInv'
  <2> SUFFICES ASSUME NEW a \in Ammeters \ retried', a \in kept \/ a = at
               PROVE  failures[a] + Cardinality(Missed(Queue, a)) = lost[a] + Undecided(a)'
    BY <1>1, <1>2, <1>3 DEF FailedInv
  <2>1. failures[a] + Cardinality(Missed(Queue, a)) = lost[a] + Undecided(a)
    BY <1>1 DEF SInv, FailedInv, InWindow
  <2>2. Undecided(a) = 0 /\ Undecided(a)' = 0
    BY <1>1 DEF Undecided
  <2> QED BY <2>1, <2>2
<1> QED BY <1>3, <1>5, <1>6 DEF SInv

LEMMA SamplesGiveUpSlot ==
  ASSUME IInv, SInv, GiveUpSlot
  PROVE  SInv'
<1>1. /\ wpc = "wait" /\ NextSlot
      /\ lost' = [lost EXCEPT ![at] = IF attempt > 0 THEN @ + 1 ELSE @]
      /\ UNCHANGED <<page, stop, inbox, at, index, pending, outcome, emitted, retried>>
  BY DEF GiveUpSlot
<1>2. UNCHANGED <<kept, requests, failures>>
  BY <1>1 DEF page, outcome
<1>3. wpc' \in {"wait", "window"} /\ (wpc' = "wait" => attempt' = 0)
  BY <1>1 DEF NextSlot
<1>4. Queue' = Queue /\ FlowInv' /\ AfterInv' /\ OverInv' /\ StageInv'
  BY <1>1, <1>3, Quietly DEF Working, InWindow
<1>5. at \in Ammeters /\ attempt \in Nat
  BY <1>1, AtSelected DEF Working, IInv, TypeInv
<1>6. TallyInv'
  <2>1. lost' \in [Ammeters -> Nat] /\ \A a \in Ammeters : a # at => lost'[a] = lost[a]
    BY <1>1, <1>5 DEF SInv, TallyInv
  <2>2. \A a \in Ammeters : a > at => a # at
    BY <1>5 DEF Ammeters
  <2> QED BY <1>1, <1>2, <1>3, <1>5, <2>1, <2>2 DEF SInv, TallyInv, Working
<1>7. FailedInv'
  <2> SUFFICES ASSUME NEW a \in Ammeters \ retried, a \in kept \/ a = at
               PROVE  failures[a] + Cardinality(Missed(Queue, a)) = lost'[a] + Undecided(a)'
    BY <1>1, <1>2, <1>4 DEF FailedInv
  <2>1. failures[a] + Cardinality(Missed(Queue, a)) = lost[a] + Undecided(a)
    BY <1>1 DEF SInv, FailedInv, InWindow
  <2>2. Undecided(a)' = 0
    BY <1>1, <1>3 DEF Undecided
  <2>3. lost[a] \in Nat /\ Undecided(a) \in Nat /\ lost'[a] = lost[a] + Undecided(a)
    BY <1>1, <1>5 DEF SInv, TallyInv, Undecided
  <2> QED BY <2>1, <2>2, <2>3
<1> QED BY <1>4, <1>6, <1>7 DEF SInv

LEMMA SamplesEndWindow ==
  ASSUME IInv, SInv, EndWindow
  PROVE  SInv'
<1>1. wpc = "window" /\ wpc' = "analysed" /\ UNCHANGED <<page, stop, inbox, loop, pending, outcome, windows>>
  BY DEF EndWindow
<1>2. UNCHANGED <<at, slot, attempt, index, kept, emitted, lost, retried, requests, failures>>
  BY <1>1 DEF page, loop, outcome, windows
<1>3. Queue' = Queue /\ FlowInv' /\ AfterInv' /\ OverInv' /\ StageInv'
  BY <1>1, <1>2, Quietly DEF Working, InWindow
<1>4. TallyInv'
  BY <1>1, <1>2 DEF SInv, TallyInv, Working
<1>5. FailedInv'
  BY <1>1, <1>2, <1>3 DEF SInv, FailedInv, Undecided, InWindow
<1> QED BY <1>3, <1>4, <1>5 DEF SInv

-----------------------------------------------------------------------------
(* Steps of the worker that post.                                          *)

LEMMA Postingly ==
  ASSUME IInv, SInv, NEW events \in Seq(Events), Post(events),
         \A i \in 1 .. Len(events) : events[i].kind # "samples", UNCHANGED <<page, emitted>>
  PROVE  /\ Queue' = Queue /\ pending' = <<>> /\ Extends /\ FlowInv' /\ AfterInv'
         /\ \A b : Settled(b) /\ (\A i \in 1 .. Len(events) : ~(events[i].kind = "stage" /\ events[i].ammeter = b))
                 => Settled(b)'
<1>1. TypeInv
  BY DEF IInv
<1>2. Queue' = Queue /\ pending' = <<>>
  BY <1>1, PostKeepsQueue
<1>3. PICK m \in Nat :
        /\ m >= Len(inbox) /\ Len(inbox') = m + Len(events)
        /\ \A i \in Len(inbox) + 1 .. m : inbox'[i].kind = "samples"
        /\ \A i \in 1 .. Len(events) : inbox'[m + i] = events[i]
  BY <1>1, PostExtends
<1>4. Extends
  BY <1>1, PostExtends
<1>5. UNCHANGED <<stage, analysed, requests>>
  BY DEF page
<1>6. FlowInv' /\ AfterInv'
  BY <1>1, <1>2, <1>4, <1>5, FlowKept, AfterKept DEF SInv
<1>7. ASSUME NEW b, Settled(b), \A i \in 1 .. Len(events) : ~(events[i].kind = "stage" /\ events[i].ammeter = b)
      PROVE  Settled(b)'
  <2>1. ASSUME NEW i \in Len(inbox) + 1 .. Len(inbox') PROVE ~StageOf(b, i)'
    <3>1. CASE i <= m
      <4>1. i \in Len(inbox) + 1 .. m
        BY <1>4, <3>1 DEF Extends
      <4> QED BY <1>3, <4>1 DEF StageOf
    <3>2. CASE i > m
      <4>1. i - m \in 1 .. Len(events) /\ m + (i - m) = i
        BY <1>3, <1>4, <3>2 DEF Extends
      <4> QED BY <1>3, <1>7, <4>1 DEF StageOf
    <3> QED BY <1>3, <1>4, <3>1, <3>2 DEF Extends
  <2> QED BY <1>4, <1>5, <1>7, <2>1, SettledKept
<1> QED BY <1>2, <1>4, <1>6, <1>7

LEMMA PostFinal ==
  ASSUME IInv, NEW events \in Seq(Events), Post(events), NEW n \in Nat \ {0}, n = Len(events), NEW a,
         events[n].kind = "stage", events[n].ammeter = a, events[n].stage \in Final
  PROVE  Settled(a)'
<1>1. TypeInv
  BY DEF IInv
<1>2. PICK m \in Nat :
        /\ m >= Len(inbox) /\ Len(inbox') = m + Len(events)
        /\ \A i \in 1 .. Len(events) : inbox'[m + i] = events[i]
  BY <1>1, PostExtends
<1>3. Extends
  BY <1>1, PostExtends
<1>4. inbox'[m + n] = events[n] /\ m + n = Len(inbox') /\ m + n > 0
  BY <1>2
<1> QED BY <1>3, <1>4, SettledLast

LEMMA PostStage ==
  ASSUME IInv, SInv, at \in Ammeters, NEW st \in Stages, Post(<<Stage(at, st)>>), UNCHANGED <<page, emitted>>
  PROVE  /\ Queue' = Queue /\ pending' = <<>> /\ FlowInv' /\ AfterInv'
         /\ \A b : (Settled(b) /\ b # at) \/ (b = at /\ st \in Final) => Settled(b)'
<1> DEFINE events == <<Stage(at, st)>>
<1>1. /\ events \in Seq(Events) /\ Len(events) = 1 /\ events[1].kind = "stage"
      /\ events[1].ammeter = at /\ events[1].stage = st
  BY DEF Stage, Events, IInv, TypeInv
<1>2. Post(events)
  OBVIOUS
<1> HIDE DEF events
<1>3. \A i \in 1 .. Len(events) : events[i].kind # "samples" /\ events[i].ammeter = at
  BY <1>1
<1>4. ASSUME NEW b, b = at, st \in Final PROVE Settled(b)'
  <2>1. PICK n \in Nat \ {0} : n = 1
    OBVIOUS
  <2>2. n = Len(events) /\ events[n].kind = "stage" /\ events[n].ammeter = b /\ events[n].stage \in Final
    BY <1>1, <1>4, <2>1
  <2> QED BY <1>1, <1>2, <2>2, PostFinal
<1> QED BY <1>1, <1>2, <1>3, <1>4, Postingly

(* While it works, the worker is not done.                                 *)
LEMMA StillWorking ==
  ASSUME IInv, wpc \in Working, wpc' \in Working, UNCHANGED page
  PROVE  OverInv'
<1>1. busy' /\ wpc' \notin {"none", "returned", "quitting"}
  BY DEF IInv, QueueInv, page, Working
<1> QED BY <1>1 DEF OverInv, WorkerDone

LEMMA SamplesBeginWindow ==
  ASSUME IInv, SInv, BeginWindow
  PROVE  SInv'
<1>1. /\ wpc = "head" /\ at <= count /\ wpc' = "start" /\ index' = 0 /\ attempt' = 0
      /\ Post(<<Stage(at, "sampling")>>) /\ UNCHANGED <<page, stop, at, outcome, windows>>
  BY DEF BeginWindow
<1>2. UNCHANGED <<at, kept, emitted, lost, retried, requests, failures, stage>>
  BY <1>1 DEF page, outcome, windows
<1>3. at \in Ammeters /\ wpc \in Working /\ wpc' \in Working
  BY <1>1, DesktopAssumption DEF IInv, TypeInv, Ammeters, Working
<1>4. Queue' = Queue /\ FlowInv' /\ AfterInv' /\ \A b : Settled(b) /\ b # at => Settled(b)'
  BY <1>1, <1>2, <1>3, PostStage DEF Stages
<1>5. OverInv'
  BY <1>1, <1>3, StillWorking
<1>6. TallyInv'
  BY <1>1, <1>2, <1>3 DEF SInv, TallyInv
<1>7. StageInv'
  BY <1>1, <1>2, <1>4 DEF SInv, StageInv, InWindow
<1>8. FailedInv'
  <2> SUFFICES ASSUME NEW a \in Ammeters \ retried, a \in kept \/ a = at
               PROVE  failures[a] + Cardinality(Missed(Queue, a)) = lost[a]
    BY <1>1, <1>2, <1>4 DEF FailedInv, Undecided, SInv, TallyInv
  <2>1. CASE a = at
    <3>1. requests[a] = 0 /\ emitted[a] = 0 /\ failures[a] = 0 /\ lost[a] = 0 /\ Flow(Queue, a, 0, 0)
      BY <1>1, <1>3, <2>1 DEF SInv, TallyInv, FlowInv
    <3>2. Missed(Queue, a) \subseteq 0 .. 0 - 1
      BY <3>1, MissedFinite, QueueType DEF IInv
    <3>3. Missed(Queue, a) = {}
      BY <3>2
    <3> QED BY <3>1, <3>3, FS_EmptySet
  <2>2. CASE a # at
    <3>1. failures[a] + Cardinality(Missed(Queue, a)) = lost[a] + Undecided(a)
      BY <2>2 DEF SInv, FailedInv
    <3> QED BY <2>2, <3>1 DEF Undecided, SInv, TallyInv
  <2> QED BY <2>1, <2>2
<1> QED BY <1>4, <1>5, <1>6, <1>7, <1>8 DEF SInv

LEMMA SamplesCancel ==
  ASSUME IInv, SInv, Cancel
  PROVE  SInv'
<1>1. /\ wpc \in {"wait", "window", "reading"} /\ wpc' = "return"
      /\ Post(<<Stage(at, "cancelled")>>) /\ UNCHANGED <<page, stop, loop, outcome, windows>>
  BY DEF Cancel
<1>2. UNCHANGED <<at, attempt, index, kept, emitted, lost, retried, requests, failures, stage>>
  BY <1>1 DEF page, outcome, windows, loop
<1>3. at \in Ammeters /\ wpc \in Working /\ wpc' \in Working
  BY <1>1, AtSelected DEF Working
<1>4. /\ Queue' = Queue /\ FlowInv' /\ AfterInv' /\ \A b : Settled(b) \/ b = at => Settled(b)'
  BY <1>1, <1>2, <1>3, PostStage DEF Stages, Final
<1>5. OverInv'
  BY <1>1, <1>3, StillWorking
<1>6. TallyInv'
  BY <1>1, <1>2, <1>3 DEF SInv, TallyInv
<1>7. StageInv'
  <2>1. wpc # "killed"
    BY <1>1
  <2> QED BY <1>2, <1>4, <2>1 DEF SInv, StageInv
<1>8. FailedInv'
  <2> SUFFICES ASSUME NEW a \in Ammeters \ retried, a \in kept
               PROVE  failures[a] + Cardinality(Missed(Queue, a)) = lost[a]
    BY <1>1, <1>2, <1>4 DEF FailedInv, Undecided, InWindow, SInv, TallyInv
  <2>1. a # at
    BY <1>1, <1>3 DEF IInv, LoopInv, TypeInv
  <2>2. failures[a] + Cardinality(Missed(Queue, a)) = lost[a] + Undecided(a)
    BY DEF SInv, FailedInv
  <2> QED BY <2>1, <2>2 DEF Undecided, SInv, TallyInv
<1> QED BY <1>4, <1>5, <1>6, <1>7, <1>8 DEF SInv

(* The loop goes on to the next ammeter: what happened to this one is told *)
(* and its window is over.                                                 *)
LEMMA SamplesNextAmmeter ==
  ASSUME IInv, SInv, wpc \in {"start", "wait", "window", "archive"}, wpc' = "head", at' = at + 1,
         NEW st \in {"failed", "done"}, Post(<<Stage(at, st)>>), UNCHANGED <<page, kept, windows>>
  PROVE  SInv'
<1>1. UNCHANGED <<emitted, lost, retried, requests, failures, stage>>
  BY DEF page, windows
<1>2. at \in Ammeters /\ wpc \in Working /\ wpc' \in Working
  BY AtSelected DEF Working
<1>3. /\ Queue' = Queue /\ FlowInv' /\ AfterInv' /\ \A b : Settled(b) \/ b = at => Settled(b)'
  BY <1>1, <1>2, PostStage DEF Stages, Final
<1>4. OverInv'
  BY <1>2, StillWorking
<1>5. TallyInv'
  <2>1. \A a \in Ammeters : a > at' \/ a = at' => a > at
    BY <1>2 DEF Ammeters
  <2>2. \A a \in Ammeters : a > at => emitted[a] = 0 /\ failures[a] = 0 /\ lost[a] = 0
    BY <1>2 DEF SInv, TallyInv
  <2> QED BY <1>1, <2>1, <2>2 DEF SInv, TallyInv
<1>6. StageInv'
  BY <1>1, <1>3 DEF SInv, StageInv
<1>7. FailedInv'
  <2> SUFFICES ASSUME NEW a \in Ammeters \ retried, a \in kept
               PROVE  failures[a] + Cardinality(Missed(Queue, a)) = lost[a]
    BY <1>1, <1>3 DEF FailedInv, Undecided, InWindow, SInv, TallyInv
  <2>1. ~(a = at /\ wpc = "wait")
    BY <1>2 DEF IInv, LoopInv, TypeInv
  <2>2. failures[a] + Cardinality(Missed(Queue, a)) = lost[a] + Undecided(a)
    BY DEF SInv, FailedInv
  <2> QED BY <2>1, <2>2 DEF Undecided, SInv, TallyInv
<1> QED BY <1>3, <1>4, <1>5, <1>6, <1>7 DEF SInv

LEMMA SamplesGoOn ==
  ASSUME IInv, SInv, WindowRaises \/ Archived \/ ArchivingFails
  PROVE  SInv'
<1>1. CASE WindowRaises
  BY <1>1, SamplesNextAmmeter DEF WindowRaises
<1>2. CASE Archived
  BY <1>2, SamplesNextAmmeter DEF Archived
<1>3. CASE ArchivingFails
  BY <1>3, SamplesNextAmmeter DEF ArchivingFails
<1> QED BY <1>1, <1>2, <1>3

LEMMA SamplesKeepAnalysis ==
  ASSUME IInv, SInv, KeepAnalysis
  PROVE  SInv'
<1>1. /\ wpc = "analysed" /\ wpc' \in {"archive", "head"} /\ kept' = kept \cup {at}
      /\ at' = (IF wpc' = "archive" THEN at ELSE at + 1)
      /\ UNCHANGED <<page, stop, slot, attempt, index, faulty, filed, archive, windows>>
  BY DEF KeepAnalysis
<1>2. PICK st \in {"archiving", "done"} :
        Post(<<Analysis(at), Stage(at, st)>>) /\ (wpc' = "head" => st = "done")
  BY DEF KeepAnalysis
<1>3. UNCHANGED <<emitted, lost, retried, requests, failures, stage>>
  BY <1>1 DEF page, windows
<1>4. at \in Ammeters /\ wpc \in Working /\ wpc' \in Working
  BY <1>1, AtSelected DEF Working
<1> DEFINE events == <<Analysis(at), Stage(at, st)>>
<1>5. /\ events \in Seq(Events) /\ Len(events) = 2
      /\ events[1].kind = "analysis" /\ events[2].kind = "stage" /\ events[1].ammeter = at
      /\ events[2].ammeter = at /\ events[2].stage = st
  BY <1>4 DEF Stage, Analysis, Events, Stages, IInv, TypeInv
<1>6. Post(events)
  BY <1>2
<1> HIDE DEF events
<1>7. \A i \in 1 .. Len(events) : events[i].kind # "samples" /\ events[i].ammeter = at
  <2>1. \A i \in 1 .. Len(events) : i = 1 \/ i = 2
    BY <1>5
  <2> QED BY <1>5, <2>1
<1>8. Queue' = Queue /\ FlowInv' /\ AfterInv' /\ \A b : Settled(b) /\ b # at => Settled(b)'
  BY <1>1, <1>3, <1>5, <1>6, <1>7, Postingly
<1>9. ASSUME NEW b, b = at, wpc' = "head" PROVE Settled(b)'
  <2>1. PICK n \in Nat \ {0} : n = 2
    OBVIOUS
  <2>2. /\ n = Len(events) /\ events[n].kind = "stage" /\ events[n].ammeter = b
        /\ events[n].stage \in Final
    BY <1>2, <1>5, <1>9, <2>1 DEF Final
  <2> QED BY <1>5, <1>6, <2>2, PostFinal
<1>10. OverInv'
  BY <1>1, <1>4, StillWorking
<1>11. TallyInv'
  <2>1. \A a \in Ammeters : a > at' \/ (a = at' /\ wpc' = "head") => a > at
    BY <1>1, <1>4 DEF Ammeters
  <2>2. \A a \in Ammeters : a > at => emitted[a] = 0 /\ failures[a] = 0 /\ lost[a] = 0
    BY <1>4 DEF SInv, TallyInv
  <2> QED BY <1>1, <1>3, <2>1, <2>2 DEF SInv, TallyInv
<1>12. StageInv'
  BY <1>1, <1>3, <1>8, <1>9 DEF SInv, StageInv, InWindow
<1>13. FailedInv'
  <2> SUFFICES ASSUME NEW a \in Ammeters \ retried, a \in kept \/ a = at
               PROVE  failures[a] + Cardinality(Missed(Queue, a)) = lost[a]
    BY <1>1, <1>3, <1>8 DEF FailedInv, Undecided, InWindow, SInv, TallyInv
  <2>1. failures[a] + Cardinality(Missed(Queue, a)) = lost[a] + Undecided(a)
    BY <1>1 DEF SInv, FailedInv, InWindow
  <2> QED BY <1>1, <2>1 DEF Undecided, SInv, TallyInv
<1> QED BY <1>8, <1>10, <1>11, <1>12, <1>13 DEF SInv

(* The worker tells the outcome and is done.                               *)
LEMMA SamplesEnding ==
  ASSUME IInv, SInv, wpc \in {"setup", "head", "return"}, wpc' = "returned",
         NEW e \in Events, e.kind \in {"completed", "failed"},
         Post(<<e, Event("quit")>>), UNCHANGED <<page, stop, loop, outcome, windows>>
  PROVE  SInv'
<1>1. UNCHANGED <<at, attempt, index, kept, emitted, lost, retried, requests, failures, stage>>
  BY DEF page, outcome, windows, loop
<1> DEFINE events == <<e, Event("quit")>>
<1>2. /\ events \in Seq(Events) /\ Len(events) = 2
      /\ events[1].kind \in {"completed", "failed"} /\ events[2].kind = "quit"
  BY DEF Event, Events, IInv, TypeInv
<1>3. Post(events)
  OBVIOUS
<1> HIDE DEF events
<1>4. \A i \in 1 .. Len(events) : events[i].kind \notin {"samples", "stage"}
  <2>1. \A i \in 1 .. Len(events) : i = 1 \/ i = 2
    BY <1>2
  <2> QED BY <1>2, <2>1
<1>5. /\ Queue' = Queue /\ pending' = <<>> /\ FlowInv' /\ AfterInv' /\ Extends
      /\ \A b : Settled(b) => Settled(b)'
  BY <1>1, <1>2, <1>3, <1>4, Postingly
<1>6. PICK m \in Nat :
        /\ m >= Len(inbox) /\ Len(inbox') = m + Len(events)
        /\ \A i \in 1 .. Len(events) : inbox'[m + i] = events[i]
  BY <1>2, <1>3, PostExtends DEF IInv
<1>7. OverInv'
  <2>1. m + 1 \in DOMAIN inbox' /\ inbox'[m + 1] = events[1]
    BY <1>2, <1>5, <1>6 DEF Extends
  <2> QED BY <1>2, <1>5, <2>1 DEF OverInv
<1>8. TallyInv'
  BY <1>1 DEF SInv, TallyInv, Working
<1>9. StageInv'
  BY <1>1, <1>5 DEF SInv, StageInv, InWindow
<1>10. FailedInv'
  <2> SUFFICES ASSUME NEW a \in Ammeters \ retried, a \in kept
               PROVE  failures[a] + Cardinality(Missed(Queue, a)) = lost[a]
    BY <1>1, <1>5 DEF FailedInv, Undecided, InWindow, SInv, TallyInv
  <2>1. failures[a] + Cardinality(Missed(Queue, a)) = lost[a] + Undecided(a)
    BY DEF SInv, FailedInv
  <2> QED BY <2>1 DEF Undecided, SInv, TallyInv
<1> QED BY <1>5, <1>7, <1>8, <1>9, <1>10 DEF SInv

LEMMA SamplesEnd ==
  ASSUME IInv, SInv, SetUpFails \/ Return
  PROVE  SInv'
<1>1. CASE SetUpFails
  <2>1. Event("failed") \in Events /\ Event("failed").kind = "failed"
    BY DEF Event, Events, IInv, TypeInv
  <2> QED BY <1>1, <2>1, SamplesEnding DEF SetUpFails
<1>2. CASE Return
  <2> DEFINE e == [kind |-> "completed", of |-> run, faulty |-> faulty, cancelled |-> stop]
  <2>1. e \in Events /\ e.kind = "completed"
    BY DEF Events, IInv, TypeInv
  <2>2. Post(<<e, Event("quit")>>) /\ wpc \in {"head", "return"} /\ wpc' = "returned"
        /\ UNCHANGED <<page, stop, loop, outcome, windows>>
    BY <1>2 DEF Return
  <2> HIDE DEF e
  <2> QED BY <2>1, <2>2, SamplesEnding
<1> QED BY <1>1, <1>2

LEMMA SamplesThreadFinishes ==
  ASSUME IInv, SInv, ThreadFinishes
  PROVE  SInv'
<1>1. /\ wpc = "quitting" /\ wpc' = "none" /\ inbox' = Append(inbox, Event("finished"))
      /\ UNCHANGED <<page, stop, loop, pending, outcome, windows>>
  BY DEF ThreadFinishes
<1>2. UNCHANGED <<run, busy, banner, analysed, at, attempt, index, kept, emitted, lost, retried, requests, failures, stage>>
  BY <1>1 DEF page, outcome, windows, loop
<1>3. pending = <<>>
  BY <1>1 DEF SInv, OverInv, WorkerDone
<1> DEFINE events == <<Event("finished")>>
<1>4. /\ events \in Seq(Events) /\ Len(events) = 1 /\ events[1].kind = "finished"
  BY DEF Event, Events, IInv, TypeInv
<1>5. Post(events)
  BY <1>1, <1>3 DEF Post, Flushed, IInv, TypeInv
<1> HIDE DEF events
<1>6. \A i \in 1 .. Len(events) : events[i].kind = "finished"
  BY <1>4
<1>7. /\ Queue' = Queue /\ pending' = <<>> /\ FlowInv' /\ AfterInv' /\ Extends
      /\ \A b : Settled(b) => Settled(b)'
  BY <1>1, <1>2, <1>4, <1>5, <1>6, Postingly
<1>8. OverInv'
  <2>1. run > 0 => banner # "none" \/ \E i \in DOMAIN inbox : inbox[i].kind \in {"completed", "failed"}
    BY <1>1 DEF SInv, OverInv, WorkerDone
  <2>2. \A i \in DOMAIN inbox : i \in DOMAIN inbox' /\ inbox'[i] = inbox[i]
    BY <1>7 DEF Extends
  <2> QED BY <1>2, <1>7, <2>1, <2>2 DEF OverInv
<1>9. TallyInv'
  BY <1>1, <1>2 DEF SInv, TallyInv, Working
<1>10. StageInv'
  BY <1>1, <1>2, <1>7 DEF SInv, StageInv, InWindow
<1>11. FailedInv'
  BY <1>1, <1>2, <1>7 DEF SInv, FailedInv, Undecided, InWindow
<1> QED BY <1>7, <1>8, <1>9, <1>10, <1>11 DEF SInv

-----------------------------------------------------------------------------
(* Steps of the worker that collect a sample.                              *)

LEMMA CollectExtends ==
  ASSUME TypeInv, NEW ok \in BOOLEAN, Collect(ok), at \in Ammeters
  PROVE  Extends /\ \A i \in Len(inbox) + 1 .. Len(inbox') : inbox'[i].kind = "samples"
<1>1. inbox \in Seq(Events) /\ Len(inbox) \in Nat /\ DOMAIN inbox = 1 .. Len(inbox)
  BY DEF TypeInv
<1>2. CASE inbox' = inbox
  BY <1>1, <1>2 DEF Extends
<1>3. CASE inbox' # inbox
  <2>1. PICK ev : ev.kind = "samples" /\ inbox' = Append(inbox, ev)
    BY <1>3 DEF Collect
  <2>2. PICK n \in Nat : n = Len(inbox)
    BY <1>1
  <2>3. /\ Len(inbox') = n + 1 /\ DOMAIN inbox' = 1 .. n + 1 /\ inbox'[n + 1] = ev
        /\ \A i \in 1 .. n : inbox'[i] = inbox[i]
    BY <1>1, <2>1, <2>2
  <2> QED BY <1>1, <2>1, <2>2, <2>3 DEF Extends
<1> QED BY <1>2, <1>3

LEMMA SamplesCollected ==
  ASSUME IInv, SInv, wpc = "reading", NEW ok \in BOOLEAN, Collect(ok), wpc' \in {"wait", "window"},
         UNCHANGED <<page, at, index, kept, retried>>
  PROVE  /\ FlowInv' /\ AfterInv' /\ OverInv' /\ StageInv'
         /\ emitted' = [emitted EXCEPT ![at] = @ + 1]
         /\ \A a \in Ammeters :
              /\ Cardinality(Missed(Queue, a)) \in Nat
              /\ ok \/ a # at => Cardinality(Missed(Queue, a)') = Cardinality(Missed(Queue, a))
              /\ ~ok /\ a = at => Cardinality(Missed(Queue, a)') = Cardinality(Missed(Queue, a)) + 1
<1>1. TypeInv /\ FlowInv /\ TallyInv /\ AfterInv /\ StageInv
  BY DEF IInv, SInv
<1>2. wpc \in Working /\ wpc' \in Working
  BY DEF Working
<1>3. at \in Ammeters
  BY AtSelected DEF Working
<1>4. UNCHANGED <<requests, failures, stage, analysed>>
  BY DEF page
<1>5. emitted' = [emitted EXCEPT ![at] = @ + 1]
  BY DEF Collect
<1>6. PICK s \in Samples :
        /\ s.ammeter = at /\ s.index = index - 1 /\ s.ok = ok
        /\ Gains(Queue[Len(inbox) + 1], Queue'[Len(inbox) + 1], s)
        /\ \A e \in Places : e # Len(inbox) + 1 => Queue'[e] = Queue[e]
        /\ Queue' \in [Places -> Seq(Samples)]
  BY <1>1, <1>3, CollectGrowsQueue
<1>7. PICK n \in Places : n = Len(inbox) + 1
  BY <1>1, QueueType
<1>8. Queue \in [Places -> Seq(Samples)] /\ \A e \in Places : e > n => Queue[e] = <<>>
  BY <1>1, <1>7, QueueType
<1>9. PICK q \in [Places -> Seq(Samples)] : q = Queue
  BY <1>8
<1>10. Queue' \in [Places -> Seq(Samples)]
  BY <1>6
<1>11. PICK r \in [Places -> Seq(Samples)] : r = Queue'
  BY <1>10
<1>12. Gains(q[n], r[n], s) /\ \A e \in Places : (e # n => r[e] = q[e]) /\ (e > n => q[e] = <<>>)
  BY <1>6, <1>7, <1>8, <1>9, <1>11
<1>13. \A a \in Ammeters : requests[a] \in Nat /\ emitted[a] \in Nat /\ requests[a] <= emitted[a]
                          /\ Flow(q, a, requests[a], emitted[a])
  BY <1>1, <1>9 DEF FlowInv, TallyInv
<1>14. s.index = emitted[at]
  BY <1>1, <1>3, <1>6, <1>13 DEF TallyInv
<1>15. ASSUME NEW a \in Ammeters
       PROVE  /\ Flow(r, a, requests[a], IF at = a THEN emitted[a] + 1 ELSE emitted[a])
              /\ at = a /\ ~ok => Missed(r, a) = Missed(q, a) \cup {emitted[a]}
              /\ at # a \/ ok => Missed(r, a) = Missed(q, a)
  <2>1. PICK lo \in Nat, hi \in Nat : lo = requests[a] /\ hi = emitted[a]
    BY <1>13
  <2>2. lo <= hi /\ Flow(q, a, lo, hi) /\ (s.ammeter = a => s.index = hi)
    BY <1>6, <1>13, <1>14, <2>1
  <2>3. Grows(q, r, n, s)
    BY <1>12 DEF Grows
  <2>4. PICK top \in Nat : top = IF s.ammeter = a THEN hi + 1 ELSE hi
    OBVIOUS
  <2>5. Flow(r, a, lo, top)
    <3>1. (s.ammeter = a => top = hi + 1) /\ (s.ammeter # a => top = hi)
      BY <2>4
    <3> QED BY <2>2, <2>3, <3>1, FlowGrows
  <2>6. \A k : k \in Missed(r, a) <=> k \in Missed(q, a) \/ (s.ammeter = a /\ ~s.ok /\ k = s.index)
    BY <2>3, MissedGrows, ZenonT(60)
  <2> QED BY <1>6, <1>14, <2>1, <2>4, <2>5, <2>6
<1>16. FlowInv'
  <2> SUFFICES ASSUME NEW a \in Ammeters
               PROVE  requests[a] <= emitted'[a] /\ Flow(r, a, requests[a], emitted'[a])
    BY <1>4, <1>11 DEF FlowInv
  <2>1. emitted'[a] = IF at = a THEN emitted[a] + 1 ELSE emitted[a]
    BY <1>1, <1>5 DEF TallyInv
  <2> QED BY <1>13, <1>15, <2>1
<1>17. ASSUME NEW a \in Ammeters
       PROVE  /\ Cardinality(Missed(q, a)) \in Nat
              /\ Cardinality(Missed(r, a)) = Cardinality(Missed(q, a)) + IF a = at /\ ~ok THEN 1 ELSE 0
  <2>1. PICK lo \in Nat, hi \in Nat : lo = requests[a] /\ hi = emitted[a] /\ Flow(q, a, lo, hi)
    BY <1>13
  <2>2. Missed(q, a) \subseteq lo .. hi - 1 /\ IsFiniteSet(Missed(q, a)) /\ Cardinality(Missed(q, a)) \in Nat
    BY <2>1, MissedFinite
  <2>3. CASE a = at /\ ~ok
    <3>1. Missed(r, a) = Missed(q, a) \cup {hi}
      BY <1>15, <2>1, <2>3
    <3>2. hi \notin Missed(q, a)
      BY <2>2
    <3> QED BY <2>2, <2>3, <3>1, <3>2, FS_AddElement
  <2>4. CASE ~(a = at /\ ~ok)
    <3>1. Missed(r, a) = Missed(q, a)
      BY <1>15, <2>4
    <3> QED BY <2>2, <2>4, <3>1
  <2> QED BY <2>3, <2>4
<1>18. Extends /\ \A i \in Len(inbox) + 1 .. Len(inbox') : inbox'[i].kind = "samples"
  BY <1>1, <1>3, CollectExtends
<1>19. StageInv'
  <2>1. \A i \in Len(inbox) + 1 .. Len(inbox') : \A a : ~StageOf(a, i)'
    BY <1>18 DEF StageOf
  <2>2. ASSUME NEW a, Settled(a) PROVE Settled(a)'
    BY <1>4, <1>18, <2>1, <2>2, SettledKept
  <2> QED BY <1>1, <2>2 DEF StageInv, InWindow
<1>20. OverInv'
  BY <1>2, StillWorking
<1>21. ASSUME NEW b \in Ammeters \ {at}, NEW e \in Places, Of(b, q[e]) = {} PROVE Of(b, r[e]) = {}
  <2>1. CASE e = n
    <3>1. PICK batch \in Seq(Samples), longer \in Seq(Samples) : batch = q[n] /\ longer = r[n] /\ Gains(batch, longer, s)
      BY <1>12
    <3>2. \A i \in Of(b, longer) :
            (i \in Of(b, batch) /\ longer[i] = batch[i]) \/ (i = Len(longer) /\ longer[i] = s /\ s.ammeter = b)
      BY <3>1, OfLonger
    <3> QED BY <1>6, <1>21, <2>1, <3>1, <3>2
  <2>2. CASE e # n
    BY <1>12, <1>21, <2>2
  <2> QED BY <2>1, <2>2
<1>22. at \notin kept
  BY <1>1, <1>2 DEF IInv, LoopInv, TypeInv
<1>23. at \notin analysed /\ \A i \in DOMAIN inbox : inbox[i].kind = "analysis" => inbox[i].ammeter # at
  BY <1>3, <1>22 DEF IInv, SeenInv, Announced
<1>24. AfterInv'
  <2>1. ASSUME NEW a \in analysed, NEW e \in Places PROVE Of(a, r[e]) = {}
    <3>1. a \in Ammeters \ {at} /\ Of(a, q[e]) = {}
      BY <1>1, <1>9, <1>23 DEF AfterInv, TypeInv
    <3> QED BY <1>21, <3>1
  <2>2. ASSUME NEW i \in DOMAIN inbox', inbox'[i].kind = "analysis", NEW e \in Places, e > i
        PROVE  Of(inbox'[i].ammeter, r[e]) = {}
    <3>1. i \in DOMAIN inbox /\ inbox'[i] = inbox[i]
      <4>1. i \notin Len(inbox) + 1 .. Len(inbox')
        BY <1>18, <2>2
      <4> QED BY <1>18, <4>1 DEF Extends
    <3>2. inbox[i].ammeter \in Ammeters
      <4>1. inbox[i] \in Events
        BY <1>1, <3>1 DEF TypeInv
      <4> QED BY <2>2, <3>1, <4>1, EventFields
    <3>3. Of(inbox[i].ammeter, q[e]) = {} /\ inbox[i].ammeter # at
      BY <1>1, <1>9, <1>23, <2>2, <3>1 DEF AfterInv
    <3> QED BY <1>21, <3>1, <3>2, <3>3
  <2> QED BY <1>4, <1>11, <2>1, <2>2 DEF AfterInv
<1> QED BY <1>5, <1>9, <1>11, <1>16, <1>17, <1>19, <1>20, <1>24

LEMMA SamplesSucceed ==
  ASSUME IInv, SInv, Succeed
  PROVE  SInv'
<1>1. /\ wpc = "reading" /\ Collect(TRUE) /\ NextSlot
      /\ UNCHANGED <<page, stop, at, index, outcome, retried, lost>>
  BY DEF Succeed
<1>2. wpc' \in {"wait", "window"} /\ (wpc' = "wait" => attempt' = 0)
  BY <1>1 DEF NextSlot
<1>3. UNCHANGED <<kept, requests, failures>>
  BY <1>1 DEF page, outcome
<1>4. at \in Ammeters
  BY <1>1, AtSelected DEF Working
<1>5. /\ FlowInv' /\ AfterInv' /\ OverInv' /\ StageInv'
      /\ emitted' = [emitted EXCEPT ![at] = @ + 1]
      /\ \A a \in Ammeters : Cardinality(Missed(Queue, a)) \in Nat
                           /\ Cardinality(Missed(Queue, a)') = Cardinality(Missed(Queue, a))
  BY <1>1, <1>2, <1>3, SamplesCollected
<1>6. TallyInv'
  <2>1. emitted' \in [Ammeters -> Nat] /\ \A a \in Ammeters : a # at => emitted'[a] = emitted[a]
    BY <1>4, <1>5 DEF SInv, TallyInv
  <2>2. emitted'[at] = index
    BY <1>1, <1>4, <1>5 DEF SInv, TallyInv
  <2>3. \A a \in Ammeters : a > at => a # at
    BY <1>4 DEF Ammeters
  <2>4. wpc \in Working
    BY <1>1 DEF Working
  <2> QED BY <1>1, <1>2, <1>3, <2>1, <2>2, <2>3, <2>4 DEF SInv, TallyInv
<1>7. FailedInv'
  <2> SUFFICES ASSUME NEW a \in Ammeters \ retried, a \in kept \/ a = at
               PROVE  failures[a] + Cardinality(Missed(Queue, a)) = lost[a] + Undecided(a)'
    BY <1>1, <1>3, <1>5 DEF FailedInv
  <2>1. failures[a] + Cardinality(Missed(Queue, a)) = lost[a] + Undecided(a)
    BY <1>1 DEF SInv, FailedInv, InWindow
  <2>2. Undecided(a) = 0 /\ Undecided(a)' = 0
    BY <1>1, <1>2 DEF Undecided
  <2> QED BY <2>1, <2>2
<1> QED BY <1>5, <1>6, <1>7 DEF SInv

LEMMA SamplesFail ==
  ASSUME IInv, SInv, Fail
  PROVE  SInv'
<1>1. /\ wpc = "reading" /\ Collect(FALSE)
      /\ UNCHANGED <<page, stop, at, index, outcome, retried>>
  BY DEF Fail
<1>2. /\ wpc' \in {"wait", "window"}
      /\ \/ wpc' = "wait" /\ UNCHANGED <<attempt, lost>>
         \/ lost' = [lost EXCEPT ![at] = @ + 1] /\ (wpc' = "wait" => attempt' = 0)
  BY DEF Fail, NextSlot
<1>3. UNCHANGED <<kept, requests, failures>>
  BY <1>1 DEF page, outcome
<1>4. at \in Ammeters /\ attempt > 0
  BY <1>1, AtSelected DEF Working, SInv, TallyInv
<1>5. /\ FlowInv' /\ AfterInv' /\ OverInv' /\ StageInv'
      /\ emitted' = [emitted EXCEPT ![at] = @ + 1]
      /\ \A a \in Ammeters :
           /\ Cardinality(Missed(Queue, a)) \in Nat
           /\ Cardinality(Missed(Queue, a)') = Cardinality(Missed(Queue, a)) + IF a = at THEN 1 ELSE 0
  <2>1. PICK ok \in BOOLEAN : Collect(ok) /\ ~ok
    BY <1>1
  <2> QED BY <1>1, <1>2, <1>3, <2>1, SamplesCollected
<1>6. lost' \in [Ammeters -> Nat] /\ lost \in [Ammeters -> Nat] /\ \A a \in Ammeters : a # at => lost'[a] = lost[a]
  BY <1>2, <1>4 DEF SInv, TallyInv
<1>7. TallyInv'
  <2>1. emitted' \in [Ammeters -> Nat] /\ \A a \in Ammeters : a # at => emitted'[a] = emitted[a]
    BY <1>4, <1>5 DEF SInv, TallyInv
  <2>2. emitted'[at] = index
    BY <1>1, <1>4, <1>5 DEF SInv, TallyInv
  <2>3. \A a \in Ammeters : a > at => a # at
    BY <1>4 DEF Ammeters
  <2>4. wpc \in Working
    BY <1>1 DEF Working
  <2> QED BY <1>1, <1>2, <1>3, <1>6, <2>1, <2>2, <2>3, <2>4 DEF SInv, TallyInv
<1>8. FailedInv'
  <2> SUFFICES ASSUME NEW a \in Ammeters \ retried, a \in kept \/ a = at
               PROVE  failures[a] + Cardinality(Missed(Queue, a)') = lost'[a] + Undecided(a)'
    BY <1>1, <1>3, <1>5 DEF FailedInv
  <2>1. failures[a] + Cardinality(Missed(Queue, a)) = lost[a] + Undecided(a)
    BY <1>1 DEF SInv, FailedInv, InWindow
  <2>2. Undecided(a) = 0 /\ lost[a] \in Nat /\ lost'[a] \in Nat /\ failures[a] \in Nat
    BY <1>1, <1>6 DEF Undecided, SInv, TallyInv
  <2>3. CASE a = at
    <3>1. lost'[a] + Undecided(a)' = lost[a] + 1
      BY <1>1, <1>2, <1>4, <1>6, <2>2, <2>3 DEF Undecided
    <3> QED BY <1>5, <2>1, <2>2, <2>3, <3>1
  <2>4. CASE a # at
    <3>1. Undecided(a)' = 0 /\ lost'[a] = lost[a]
      BY <1>1, <1>6, <2>4 DEF Undecided
    <3> QED BY <1>5, <2>1, <2>2, <2>4, <3>1
  <2> QED BY <2>3, <2>4
<1> QED BY <1>5, <1>7, <1>8 DEF SInv

-----------------------------------------------------------------------------
(* The page takes the oldest event.                                        *)

LEMMA SettledShown ==
  ASSUME TypeInv, inbox # <<>>, inbox' = Tail(inbox), NEW a \in Ammeters, Settled(a),
         stage'[a] = IF StageOf(a, 1) THEN inbox[1].stage ELSE stage[a]
  PROVE  Settled(a)'
<1>1. /\ inbox \in Seq(Events) /\ inbox' \in Seq(Events) /\ 1 \in DOMAIN inbox
      /\ \A i \in DOMAIN inbox' : i \in Nat /\ i + 1 \in DOMAIN inbox /\ inbox'[i] = inbox[i + 1]
      /\ \A i \in DOMAIN inbox : i = 1 \/ (i - 1 \in DOMAIN inbox' /\ inbox'[i - 1] = inbox[i])
  BY Rest
<1>2. /\ \A i \in DOMAIN inbox' : StageOf(a, i)' <=> StageOf(a, i + 1)
      /\ \A i \in DOMAIN inbox' : i >= 1
  BY <1>1 DEF StageOf
<1>3. CASE stage[a] \in Final /\ \A i \in DOMAIN inbox : ~StageOf(a, i)
  <2>1. stage'[a] \in Final
    BY <1>1, <1>3
  <2>2. \A i \in DOMAIN inbox' : ~StageOf(a, i)'
    BY <1>1, <1>2, <1>3
  <2> QED BY <2>1, <2>2 DEF Settled
<1>4. ASSUME NEW i \in DOMAIN inbox, StageOf(a, i), inbox[i].stage \in Final,
             \A j \in DOMAIN inbox : j > i => ~StageOf(a, j)
      PROVE  Settled(a)'
  <2>1. CASE i = 1
    <3>1. stage'[a] \in Final
      BY <1>4, <2>1
    <3>2. \A j \in DOMAIN inbox' : ~StageOf(a, j)'
      <4>1. \A j \in DOMAIN inbox' : j + 1 \in DOMAIN inbox /\ j + 1 > 1
        BY <1>1, <1>2
      <4> QED BY <1>2, <1>4, <2>1, <4>1
    <3> QED BY <3>1, <3>2 DEF Settled
  <2>2. CASE i # 1
    <3>1. PICK k \in DOMAIN inbox' : i = k + 1 /\ inbox'[k] = inbox[i] /\ k \in Nat
      <4>1. i - 1 \in DOMAIN inbox' /\ inbox'[i - 1] = inbox[i] /\ i \in Nat
        BY <1>1, <2>2
      <4>2. i = (i - 1) + 1 /\ i - 1 \in Nat
        BY <1>1, <4>1
      <4> QED BY <4>1, <4>2
    <3>2. StageOf(a, k)' /\ inbox'[k].stage \in Final
      BY <1>4, <3>1 DEF StageOf
    <3>3. ASSUME NEW j \in DOMAIN inbox', j > k PROVE ~StageOf(a, j)'
      <4>1. j + 1 \in DOMAIN inbox /\ j + 1 > i
        BY <1>1, <3>1, <3>3
      <4> QED BY <1>2, <1>4, <4>1
    <3> QED BY <3>2, <3>3 DEF Settled
  <2> QED BY <2>1, <2>2
<1> QED BY <1>3, <1>4 DEF Settled

(* What it counts is what is no longer on its way.                         *)
LEMMA Counted ==
  ASSUME IInv, SInv, HandleEvent
  PROVE  \A a \in Ammeters :
           LET got == Cardinality(Of(a, Queue[1]))
               bad == Cardinality(Bad(a, Queue[1]))
           IN  /\ got \in Nat /\ bad \in Nat
               /\ requests'[a] = requests[a] + got /\ failures'[a] = failures[a] + bad
               /\ requests[a] + got <= emitted[a] /\ Flow(Queue', a, requests[a] + got, emitted[a])
               /\ Cardinality(Missed(Queue', a)) \in Nat
               /\ Cardinality(Missed(Queue, a)) = bad + Cardinality(Missed(Queue', a))
<1> DEFINE e == Head(inbox)
<1>1. /\ TypeInv /\ inbox # <<>> /\ Dispatch(e) /\ inbox' = Tail(inbox) /\ UNCHANGED pending
  BY DEF IInv, HandleEvent
<1>2. /\ \A x \in Places : Queue'[x] = Queue[x + 1]
      /\ Queue[1] = IF e.kind = "samples" THEN e.batch ELSE <<>>
  BY <1>1, TailShiftsQueue
<1>3. e \in Events
  BY <1>1, Rest
<1> HIDE DEF e
<1>4. PICK q \in [Places -> Seq(Samples)] : q = Queue
  BY <1>1, QueueType
<1>5. PICK r \in [Places -> Seq(Samples)] : r = Queue'
  <2>1. ASSUME NEW x \in Places PROVE Queue'[x] \in Seq(Samples)
    <3>1. x + 1 \in Places
      BY DEF Places
    <3> QED BY <1>2, <1>4, <3>1
  <2>2. Queue' = [x \in Places |-> Queue'[x]]
    BY DEF Queue
  <2>3. Queue' \in [Places -> Seq(Samples)]
    BY <2>1, <2>2
  <2> QED BY <2>3
<1>6. \A x \in Places : r[x] = q[x + 1]
  BY <1>2, <1>4, <1>5
<1> SUFFICES ASSUME NEW a \in Ammeters
             PROVE  LET got == Cardinality(Of(a, q[1]))
                        bad == Cardinality(Bad(a, q[1]))
                    IN  /\ got \in Nat /\ bad \in Nat
                        /\ requests'[a] = requests[a] + got /\ failures'[a] = failures[a] + bad
                        /\ requests[a] + got <= emitted[a] /\ Flow(r, a, requests[a] + got, emitted[a])
                        /\ Cardinality(Missed(r, a)) \in Nat
                        /\ Cardinality(Missed(q, a)) = bad + Cardinality(Missed(r, a))
  BY <1>4, <1>5
<1>7. PICK lo \in Nat, hi \in Nat : lo = requests[a] /\ hi = emitted[a] /\ lo <= hi /\ Flow(q, a, lo, hi)
  BY <1>4 DEF SInv, FlowInv, TallyInv
<1>8. PICK got, bad : got = Cardinality(Of(a, q[1])) /\ bad = Cardinality(Bad(a, q[1]))
  OBVIOUS
<1>9. /\ got \in Nat /\ bad \in Nat /\ lo + got <= hi /\ Flow(r, a, lo + got, hi)
      /\ Cardinality(Missed(r, a)) \in Nat
      /\ Cardinality(Missed(q, a)) = bad + Cardinality(Missed(r, a))
  BY <1>6, <1>7, <1>8, FlowLosesHead, ZenonT(60)
<1>10. requests'[a] = requests[a] + got /\ failures'[a] = failures[a] + bad
  <2>1. CASE e.kind = "samples"
    <3>1. /\ requests'[a] = requests[a] + Cardinality(Of(a, e.batch))
          /\ failures'[a] = failures[a] + Cardinality(Bad(a, e.batch))
      BY <1>1, <2>1 DEF Dispatch, OnSamples, Bad
    <3> QED BY <1>2, <1>4, <1>8, <2>1, <3>1
  <2>2. CASE e.kind # "samples"
    <3>1. UNCHANGED <<requests, failures>>
      BY <1>1, <1>3, <2>2, EventFields
         DEF Dispatch, OnStage, OnAnalysis, OnCompleted, OnFailed, OnQuit, OnThreadFinished
    <3>2. q[1] = <<>>
      BY <1>2, <1>4, <2>2
    <3>3. Of(a, q[1]) = {} /\ Bad(a, q[1]) = {}
      BY <3>2 DEF Of, Bad
    <3>4. got = 0 /\ bad = 0
      BY <1>8, <3>3, FS_EmptySet
    <3> QED BY <3>1, <3>4 DEF SInv, TallyInv
  <2> QED BY <2>1, <2>2
<1> QED BY <1>7, <1>8, <1>9, <1>10

(* The events at the end of a run come when the worker is done.            *)
LEMMA LastEvents ==
  ASSUME IInv, HandleEvent
  PROVE  /\ wpc # "killed"
         /\ Head(inbox).kind = "quit" => wpc \in {"returned", "quitting"} /\ wpc' = "quitting" /\ busy' = busy
         /\ Head(inbox).kind = "finished" => wpc' = wpc
         /\ Head(inbox).kind \notin {"quit", "finished"} => wpc' = wpc /\ busy' = busy
<1> DEFINE e == Head(inbox)
<1>1. TypeInv /\ QueueInv /\ inbox # <<>> /\ Dispatch(e) /\ window # "exited" /\ inbox' = Tail(inbox)
  BY DEF IInv, HandleEvent
<1>2. e \in Events /\ e = inbox[1] /\ 1 \in DOMAIN inbox
  BY <1>1, Rest
<1>3. wpc # "killed"
  BY <1>1 DEF QueueInv
<1>4. e.kind = "quit" => wpc \in {"returned", "quitting"}
  <2>1. e.kind = "quit" => wpc \notin Working /\ ~(wpc = "none" /\ busy) /\ busy
    BY <1>1, <1>2 DEF QueueInv
  <2> QED BY <1>1, <1>3, <2>1 DEF TypeInv
<1> HIDE DEF e
<1>5. /\ e.kind = "quit" => wpc' = "quitting" /\ busy' = busy
      /\ e.kind = "finished" => wpc' = wpc
      /\ e.kind \notin {"quit", "finished"} => wpc' = wpc /\ busy' = busy
  BY <1>1, <1>2, EventFields
     DEF Dispatch, OnSamples, OnStage, OnAnalysis, OnCompleted, OnFailed, OnQuit, OnThreadFinished
<1> QED BY <1>3, <1>4, <1>5 DEF e

LEMMA SamplesHandleEvent ==
  ASSUME IInv, SInv, IInv', HandleEvent
  PROVE  SInv'
<1> DEFINE e == Head(inbox)
<1>1. /\ TypeInv /\ QueueInv /\ inbox # <<>> /\ Dispatch(e) /\ inbox' = Tail(inbox)
      /\ UNCHANGED <<run, window, count, archiving, stop, loop, pending, outcome, windows>>
  BY DEF IInv, HandleEvent
<1>2. UNCHANGED <<at, slot, attempt, index, kept, emitted, lost, retried>>
  BY <1>1 DEF loop, outcome, windows
<1>3. /\ e \in Events /\ e = inbox[1] /\ 1 \in DOMAIN inbox /\ inbox' \in Seq(Events)
      /\ \A i \in DOMAIN inbox' : i \in Nat /\ i + 1 \in DOMAIN inbox /\ inbox'[i] = inbox[i + 1]
      /\ \A i \in DOMAIN inbox : i = 1 \/ (i - 1 \in DOMAIN inbox' /\ inbox'[i - 1] = inbox[i])
  BY <1>1, Rest
<1>4. /\ wpc # "killed"
      /\ e.kind = "quit" => wpc \in {"returned", "quitting"} /\ wpc' = "quitting" /\ busy' = busy
      /\ e.kind = "finished" => wpc' = wpc
      /\ e.kind \notin {"quit", "finished"} => wpc' = wpc /\ busy' = busy
  BY LastEvents
<1>5. wpc' = wpc \/ (wpc \in {"returned", "quitting"} /\ wpc' = "quitting")
  BY <1>3, <1>4, EventFields
<1>6. /\ \A x \in Places : Queue'[x] = Queue[x + 1]
      /\ Queue[1] = IF e.kind = "samples" THEN e.batch ELSE <<>>
  BY <1>1, TailShiftsQueue
<1>7. \A x \in Places : x + 1 \in Places /\ x >= 1
  BY DEF Places
<1> HIDE DEF e
<1>8. requests' \in [Ammeters -> Nat] /\ failures' \in [Ammeters -> Nat]
  <2>1. DOMAIN requests' = Ammeters /\ DOMAIN failures' = Ammeters /\ requests' = [a \in Ammeters |-> requests'[a]]
        /\ failures' = [a \in Ammeters |-> failures'[a]]
    BY <1>1, <1>3, EventFields
       DEF Dispatch, OnSamples, OnStage, OnAnalysis, OnCompleted, OnFailed, OnQuit, OnThreadFinished, SInv, TallyInv
  <2>2. \A a \in Ammeters : requests'[a] \in Nat /\ failures'[a] \in Nat
    BY Counted DEF SInv, TallyInv
  <2> QED BY <2>1, <2>2
<1>9. FlowInv'
  <2> SUFFICES ASSUME NEW a \in Ammeters PROVE requests'[a] <= emitted[a] /\ Flow(Queue', a, requests'[a], emitted[a])
    BY <1>2 DEF FlowInv
  <2> QED BY Counted
<1>10. TallyInv'
  <2>1. ASSUME wpc' \in Working, NEW a \in Ammeters, a > at \/ (a = at /\ wpc' \in {"setup", "head", "start"})
        PROVE  emitted[a] = 0 /\ failures'[a] = 0 /\ lost[a] = 0
    <3>1. wpc' = wpc /\ wpc \in Working
      BY <1>5, <2>1 DEF Working
    <3>2. emitted[a] = 0 /\ failures[a] = 0 /\ lost[a] = 0
      BY <2>1, <3>1 DEF SInv, TallyInv
    <3>3. requests[a] \in Nat /\ requests[a] <= emitted[a] /\ Flow(Queue, a, requests[a], emitted[a])
      BY DEF SInv, TallyInv, FlowInv
    <3>4. requests[a] = 0 /\ Flow(Queue, a, 0, 0)
      BY <3>2, <3>3
    <3>5. Missed(Queue, a) \subseteq 0 .. 0 - 1
      BY <1>1, <3>4, MissedFinite, QueueType
    <3>6. Missed(Queue, a) = {}
      BY <3>5
    <3>7. Cardinality(Missed(Queue, a)) = 0
      BY <3>6, FS_EmptySet
    <3>8. PICK bad \in Nat, rest \in Nat : failures'[a] = failures[a] + bad /\ 0 = bad + rest
      BY <3>7, Counted
    <3> QED BY <3>2, <3>8
  <2> QED BY <1>2, <1>5, <1>8, <2>1 DEF SInv, TallyInv
<1>11. FailedInv'
  <2> SUFFICES ASSUME NEW a \in Ammeters \ retried, a \in kept \/ (a = at /\ wpc' \in InWindow)
               PROVE  failures'[a] + Cardinality(Missed(Queue', a)) = lost[a] + Undecided(a)'
    BY <1>2 DEF FailedInv
  <2>1. failures[a] + Cardinality(Missed(Queue, a)) = lost[a] + Undecided(a)
    BY <1>5 DEF SInv, FailedInv, InWindow
  <2>2. Undecided(a)' = Undecided(a)
    BY <1>2, <1>5 DEF Undecided
  <2>3. PICK bad \in Nat, rest \in Nat :
          /\ failures'[a] = failures[a] + bad /\ rest = Cardinality(Missed(Queue', a))
          /\ Cardinality(Missed(Queue, a)) = bad + rest
    BY Counted
  <2>4. failures[a] \in Nat
    BY DEF SInv, TallyInv
  <2> QED BY <2>1, <2>2, <2>3, <2>4
<1>12. AfterInv'
  <2>1. ASSUME NEW a \in analysed', NEW x \in Places PROVE Of(a, Queue'[x]) = {}
    <3>1. CASE a \in analysed
      BY <1>6, <1>7, <3>1 DEF SInv, AfterInv
    <3>2. CASE a \notin analysed
      <4>1. e.kind = "analysis" /\ e.ammeter = a
        BY <1>1, <1>3, <2>1, <3>2, EventFields
           DEF Dispatch, OnSamples, OnStage, OnAnalysis, OnCompleted, OnFailed, OnQuit, OnThreadFinished
      <4>2. x + 1 \in Places /\ x + 1 > 1
        BY DEF Places
      <4> QED BY <1>3, <1>6, <4>1, <4>2 DEF SInv, AfterInv
    <3> QED BY <3>1, <3>2
  <2>2. ASSUME NEW i \in DOMAIN inbox', inbox'[i].kind = "analysis", NEW x \in Places, x > i
        PROVE  Of(inbox'[i].ammeter, Queue'[x]) = {}
    <3>1. i + 1 \in DOMAIN inbox /\ inbox'[i] = inbox[i + 1] /\ x + 1 > i + 1 /\ x + 1 \in Places
      BY <1>3, <1>7, <2>2 DEF Places
    <3> QED BY <1>6, <2>2, <3>1 DEF SInv, AfterInv
  <2> QED BY <2>1, <2>2 DEF AfterInv
<1>13. OverInv'
  <2> SUFFICES ASSUME WorkerDone'
               PROVE  /\ pending = <<>>
                      /\ run > 0 => banner' # "none" \/ \E i \in DOMAIN inbox' : inbox'[i].kind \in {"completed", "failed"}
    BY <1>1 DEF OverInv
  <2>1. WorkerDone
    <3>1. CASE e.kind = "finished"
      <4>1. wpc' = "killed" \/ wpc' \in {"none", "returned", "quitting"}
        <5>1. QueueInv'
          BY DEF IInv
        <5>2. ~busy' => wpc' \in {"none", "killed"}
          BY <5>1 DEF QueueInv
        <5> QED BY <5>2 DEF WorkerDone
      <4> QED BY <1>4, <3>1, <4>1 DEF WorkerDone
    <3>2. CASE e.kind # "finished"
      BY <1>4, <3>2 DEF WorkerDone
    <3> QED BY <3>1, <3>2
  <2>2. pending = <<>>
    BY <2>1 DEF SInv, OverInv
  <2>3. CASE e.kind \in {"completed", "failed"}
    <3>1. banner' # "none"
      BY <1>1, <2>3 DEF Dispatch, OnCompleted, OnFailed
    <3> QED BY <2>2, <3>1
  <2>4. CASE e.kind \notin {"completed", "failed"}
    <3>1. banner' = banner
      BY <1>1, <1>3, <2>4, EventFields DEF Dispatch, OnSamples, OnStage, OnAnalysis, OnQuit, OnThreadFinished
    <3>2. ASSUME NEW i \in DOMAIN inbox, inbox[i].kind \in {"completed", "failed"}
          PROVE  \E k \in DOMAIN inbox' : inbox'[k].kind \in {"completed", "failed"}
      <4>1. i # 1
        BY <1>3, <2>4, <3>2
      <4> QED BY <1>3, <3>2, <4>1
    <3> QED BY <2>1, <2>2, <3>1, <3>2 DEF SInv, OverInv
  <2> QED BY <2>3, <2>4
<1>14. StageInv'
  <2> SUFFICES ASSUME NEW a \in Ammeters PROVE Settled(a)' \/ (a = at /\ wpc' \in InWindow)
    BY <1>2 DEF StageInv
  <2>1. Settled(a) \/ (a = at /\ wpc \in InWindow)
    BY <1>4 DEF SInv, StageInv
  <2>2. stage'[a] = IF StageOf(a, 1) THEN inbox[1].stage ELSE stage[a]
    <3>1. CASE e.kind = "stage"
      <4>1. stage' = [stage EXCEPT ![e.ammeter] = e.stage] /\ stage \in [Ammeters -> Stages]
        BY <1>1, <3>1 DEF Dispatch, OnStage, TypeInv
      <4> QED BY <1>3, <3>1, <4>1 DEF StageOf
    <3>2. CASE e.kind # "stage"
      <4>1. stage' = stage
        BY <1>1, <1>3, <3>2, EventFields
           DEF Dispatch, OnSamples, OnAnalysis, OnCompleted, OnFailed, OnQuit, OnThreadFinished
      <4> QED BY <1>3, <3>2, <4>1 DEF StageOf
    <3> QED BY <3>1, <3>2
  <2>3. Settled(a) => Settled(a)'
    BY <1>1, <2>2, SettledShown
  <2>4. wpc \in InWindow => wpc' = wpc
    BY <1>5 DEF InWindow
  <2> QED BY <2>1, <2>3, <2>4
<1> QED BY <1>9, <1>10, <1>11, <1>12, <1>13, <1>14 DEF SInv

-----------------------------------------------------------------------------
(* Starting, stopping and leaving.                                         *)

(* Nothing is on its way.                                                  *)
LEMMA EmptyFlow ==
  ASSUME NEW q, \A e \in Places : q[e] = <<>>, NEW a \in Ammeters
  PROVE  Flow(q, a, 0, 0) /\ Missed(q, a) = {} /\ Cardinality(Missed(q, a)) = 0
<1>1. \A e \in Places : Of(a, q[e]) = {}
  BY DEF Of
<1>2. Flow(q, a, 0, 0)
  <2>1. 0 .. 0 - 1 = {}
    OBVIOUS
  <2> QED BY <1>1, <2>1 DEF Flow
<1>3. Missed(q, a) = {}
  BY <1>1 DEF Missed
<1> QED BY <1>2, <1>3, FS_EmptySet

(* No sample, no event and no ammeter at work yet.                         *)
Fresh ==
  /\ inbox = <<>> /\ pending = <<>> /\ analysed = {} /\ kept = {}
  /\ stage = Each("queued")
  /\ requests = Each(0) /\ failures = Each(0) /\ emitted = Each(0) /\ lost = Each(0)
  /\ (wpc = "setup" /\ busy) \/ (wpc = "none" /\ run = 0)

LEMMA FreshSuffices == Fresh => SInv
<1> SUFFICES ASSUME Fresh PROVE SInv
  OBVIOUS
<1> USE DEF Fresh
<1>1. DOMAIN inbox = {}
  OBVIOUS
<1>2. \A e \in Places : Queue[e] = <<>>
  BY <1>1 DEF Queue, Batch
<1>3. \A a \in Ammeters :
        requests[a] = 0 /\ failures[a] = 0 /\ emitted[a] = 0 /\ lost[a] = 0 /\ stage[a] = "queued"
  BY DEF Each
<1>4. FlowInv
  BY <1>2, <1>3, EmptyFlow DEF FlowInv
<1>5. TallyInv
  <2>1. /\ requests \in [Ammeters -> Nat] /\ failures \in [Ammeters -> Nat]
        /\ emitted \in [Ammeters -> Nat] /\ lost \in [Ammeters -> Nat]
    BY DEF Each
  <2> QED BY <1>3, <2>1 DEF TallyInv
<1>6. FailedInv
  BY DEF FailedInv, InWindow
<1>7. AfterInv /\ OverInv
  BY <1>1 DEF AfterInv, OverInv, WorkerDone
<1>8. StageInv
  BY <1>1, <1>3 DEF StageInv, Settled, Final
<1> QED BY <1>4, <1>5, <1>6, <1>7, <1>8 DEF SInv

LEMMA SamplesInit == Init => SInv
BY FreshSuffices DEF Init, Fresh

LEMMA SamplesStartRun ==
  ASSUME IInv, StartRun
  PROVE  SInv'
<1>1. inbox = <<>>
  BY DEF IInv, QueueInv, StartRun
<1>2. Fresh'
  BY <1>1 DEF StartRun, Fresh, Each
<1>3. Fresh' => SInv'
  BY FreshSuffices, PTL
<1> QED BY <1>2, <1>3

(* Who leaves the page and the worker's counts as they are, keeps what is  *)
(* known of the samples, whoever else moves.                               *)
LEMMA Untouched ==
  ASSUME IInv, SInv,
         UNCHANGED <<run, busy, stage, requests, failures, analysed, banner, inbox, pending, at, attempt,
                     index, kept, emitted, lost, retried>>,
         wpc' = wpc \/ wpc' = "killed"
  PROVE  SInv'
<1>1. Queue' = Queue
  BY DEF Queue, Batch
<1>2. Extends
  BY DEF Extends, IInv, TypeInv
<1>3. FlowInv' /\ AfterInv'
  BY <1>1, <1>2, FlowKept, AfterKept DEF SInv, IInv
<1>4. TallyInv'
  BY DEF SInv, TallyInv, Working
<1>5. FailedInv'
  <2> SUFFICES ASSUME NEW a \in Ammeters \ retried, a \in kept \/ (a = at /\ wpc' \in InWindow)
               PROVE  failures[a] + Cardinality(Missed(Queue, a)) = lost[a] + Undecided(a)'
    BY <1>1 DEF FailedInv
  <2>1. CASE wpc' = wpc
    BY <2>1 DEF SInv, FailedInv, Undecided
  <2>2. CASE wpc' = "killed"
    <3>1. a \in kept /\ Undecided(a)' = 0
      BY <2>2 DEF InWindow, Undecided
    <3>2. ~(a = at /\ wpc = "wait")
      BY <3>1 DEF IInv, LoopInv, TypeInv, Working
    <3>3. Undecided(a) = 0
      BY <3>2 DEF Undecided
    <3> QED BY <3>1, <3>3 DEF SInv, FailedInv
  <2> QED BY <2>1, <2>2
<1>6. OverInv'
  <2>1. WorkerDone' => WorkerDone
    BY DEF WorkerDone
  <2> QED BY <2>1 DEF SInv, OverInv
<1>7. StageInv'
  <2>1. \A a \in Ammeters : Settled(a) => Settled(a)'
    BY DEF Settled, StageOf
  <2>2. ~busy => wpc \notin InWindow
    BY DEF IInv, QueueInv, InWindow
  <2>3. busy \in BOOLEAN
    BY DEF IInv, TypeInv
  <2> QED BY <2>1, <2>2, <2>3 DEF SInv, StageInv
<1> QED BY <1>3, <1>4, <1>5, <1>6, <1>7 DEF SInv

LEMMA SamplesOthers ==
  ASSUME IInv, SInv, RequestStop \/ Close \/ Exit \/ UNCHANGED vars
  PROVE  SInv'
<1>1. /\ UNCHANGED <<run, busy, stage, requests, failures, analysed, banner, inbox, pending, loop, outcome, windows>>
      /\ wpc' = wpc \/ wpc' = "killed"
  BY DEF RequestStop, Close, Exit, vars, page
<1>2. UNCHANGED <<at, attempt, index, kept, emitted, lost, retried>>
  BY <1>1 DEF loop, outcome, windows
<1> QED BY <1>1, <1>2, Untouched

LEMMA SamplesNext == IInv /\ SInv /\ [Next]_vars => SInv'
<1> SUFFICES ASSUME IInv, SInv, [Next]_vars PROVE SInv'
  OBVIOUS
<1>0. IInv'
  BY NextPreserves
<1>1. CASE WorkerStep
  BY <1>1, SamplesSetUp, SamplesEnd, SamplesBeginWindow, SamplesStart, SamplesRequest, SamplesSucceed,
     SamplesFail, SamplesGiveUpSlot, SamplesEndWindow, SamplesCancel, SamplesGoOn, SamplesKeepAnalysis,
     SamplesThreadFinishes DEF WorkerStep
<1>2. CASE HandleEvent
  BY <1>0, <1>2, SamplesHandleEvent
<1>3. CASE StartRun
  BY <1>3, SamplesStartRun
<1>4. CASE RequestStop \/ Close \/ Exit \/ UNCHANGED vars
  BY <1>4, SamplesOthers
<1> QED BY <1>1, <1>2, <1>3, <1>4 DEF Next

LEMMA SamplesAlways == Spec => [](IInv /\ SInv)
<1>1. Init => IInv /\ SInv
  BY InitEstablishes, SamplesInit
<1>2. IInv /\ SInv /\ [Next]_vars => (IInv /\ SInv)'
  BY NextPreserves, SamplesNext
<1> QED BY <1>1, <1>2, PTL DEF Spec

-----------------------------------------------------------------------------
(* What the page and its reader see.                                       *)

(* The samples on their way are those of the flow.                         *)
LEMMA OnTheWayInFlow ==
  ASSUME TypeInv, NEW a \in Ammeters
  PROVE  /\ \A p \in OnTheWay(a) : \E e \in Places : \E i \in Of(a, Queue[e]) :
              p[1] = e /\ p[2] = i /\ IndexAt(p) = Queue[e][i].index
         /\ \A e \in Places : \A i \in Of(a, Queue[e]) :
              <<e, i>> \in OnTheWay(a) /\ IndexAt(<<e, i>>) = Queue[e][i].index
<1>1. PICK n \in Nat : n = Len(inbox)
  BY DEF TypeInv
<1>2. \A e \in 1 .. n + 1 : e \in Places /\ Queue[e] = Batch(e)
  BY DEF Places, Queue
<1>3. ASSUME NEW p \in OnTheWay(a)
      PROVE  \E e \in Places : \E i \in Of(a, Queue[e]) :
               p[1] = e /\ p[2] = i /\ IndexAt(p) = Queue[e][i].index
  <2>1. PICK e \in 1 .. n + 1 : p \in {e} \X Of(a, Batch(e))
    BY <1>1 DEF OnTheWay
  <2>2. p[1] = e /\ p[2] \in Of(a, Batch(e))
    BY <2>1
  <2> QED BY <1>2, <2>2 DEF IndexAt
<1>4. ASSUME NEW e \in Places, NEW i \in Of(a, Queue[e])
      PROVE  <<e, i>> \in OnTheWay(a) /\ IndexAt(<<e, i>>) = Queue[e][i].index
  <2>1. e <= n + 1
    <3>1. e > n + 1 => Queue[e] = <<>>
      BY <1>1, QueueType
    <3>2. Queue[e] # <<>>
      BY DEF Of
    <3> QED BY <3>1, <3>2 DEF Places
  <2>2. e \in 1 .. n + 1
    BY <2>1 DEF Places
  <2>3. <<e, i>> \in {e} \X Of(a, Batch(e))
    BY <1>2, <2>2
  <2>4. <<e, i>> \in OnTheWay(a)
    BY <1>1, <2>2, <2>3 DEF OnTheWay
  <2> QED BY <1>2, <2>2, <2>4 DEF IndexAt
<1> QED BY <1>3, <1>4

LEMMA FlowSuffices == IInv /\ SInv => NoSampleDropped
<1> SUFFICES ASSUME IInv, SInv, NEW a \in Ammeters
             PROVE  /\ requests[a] <= emitted[a]
                    /\ {IndexAt(p) : p \in OnTheWay(a)} = requests[a] .. emitted[a] - 1
                    /\ \A p, q \in OnTheWay(a) : Earlier(p, q) => IndexAt(p) < IndexAt(q)
  BY DEF NoSampleDropped
<1>1. TypeInv /\ requests[a] <= emitted[a] /\ Flow(Queue, a, requests[a], emitted[a])
  BY DEF IInv, SInv, FlowInv
<1>2. ASSUME NEW p \in OnTheWay(a) PROVE IndexAt(p) \in requests[a] .. emitted[a] - 1
  BY <1>1, OnTheWayInFlow DEF Flow
<1>3. ASSUME NEW k \in requests[a] .. emitted[a] - 1 PROVE \E p \in OnTheWay(a) : IndexAt(p) = k
  <2>1. PICK e \in Places : \E i \in Of(a, Queue[e]) : Queue[e][i].index = k
    BY <1>1 DEF Flow
  <2>2. PICK i \in Of(a, Queue[e]) : Queue[e][i].index = k
    BY <2>1
  <2> QED BY <1>1, <2>2, OnTheWayInFlow
<1>4. ASSUME NEW p \in OnTheWay(a), NEW q \in OnTheWay(a), Earlier(p, q)
      PROVE  IndexAt(p) < IndexAt(q)
  <2>1. PICK d \in Places : \E i \in Of(a, Queue[d]) : p[1] = d /\ p[2] = i /\ IndexAt(p) = Queue[d][i].index
    BY <1>1, OnTheWayInFlow
  <2>2. PICK e \in Places : \E j \in Of(a, Queue[e]) : q[1] = e /\ q[2] = j /\ IndexAt(q) = Queue[e][j].index
    BY <1>1, OnTheWayInFlow
  <2>3. PICK i \in Of(a, Queue[d]) : p[1] = d /\ p[2] = i /\ IndexAt(p) = Queue[d][i].index
    BY <2>1
  <2>4. PICK j \in Of(a, Queue[e]) : q[1] = e /\ q[2] = j /\ IndexAt(q) = Queue[e][j].index
    BY <2>2
  <2>5. d < e \/ (d = e /\ i < j)
    BY <1>4, <2>3, <2>4 DEF Earlier
  <2>6. Queue[d][i].index < Queue[e][j].index
    BY <1>1, <2>5 DEF Flow
  <2> QED BY <2>3, <2>4, <2>6
<1>5. {IndexAt(p) : p \in OnTheWay(a)} = requests[a] .. emitted[a] - 1
  BY <1>2, <1>3
<1> QED BY <1>1, <1>4, <1>5

(* With no sample of an ammeter on its way, the page has seen them all.    *)
LEMMA AllSeen ==
  ASSUME SInv, NEW a \in Ammeters, \A e \in Places : Of(a, Queue[e]) = {}
  PROVE  requests[a] = emitted[a] /\ Cardinality(Missed(Queue, a)) = 0
<1>1. PICK lo \in Nat, hi \in Nat : lo = requests[a] /\ hi = emitted[a] /\ lo <= hi /\ Flow(Queue, a, lo, hi)
  BY DEF SInv, FlowInv, TallyInv
<1>2. ~(lo < hi)
  <2> SUFFICES ASSUME lo < hi PROVE FALSE
    OBVIOUS
  <2>1. lo \in lo .. hi - 1
    OBVIOUS
  <2> QED BY <1>1, <2>1 DEF Flow
<1>3. Missed(Queue, a) = {}
  BY DEF Missed
<1> QED BY <1>1, <1>2, <1>3, FS_EmptySet

LEMMA AnalysisSuffices == IInv /\ SInv => AnalysisFollowsSamples
<1> SUFFICES ASSUME IInv, SInv, NEW a \in analysed
             PROVE  requests[a] = emitted[a] /\ (a \notin retried => failures[a] = lost[a])
  BY DEF AnalysisFollowsSamples
<1>1. a \in Ammeters /\ a \in kept
  BY DEF IInv, TypeInv, SeenInv
<1>2. \A e \in Places : Of(a, Queue[e]) = {}
  BY DEF SInv, AfterInv
<1>3. requests[a] = emitted[a] /\ Cardinality(Missed(Queue, a)) = 0
  BY <1>1, <1>2, AllSeen
<1>4. Undecided(a) = 0
  <2>1. ~(a = at /\ wpc = "wait")
    BY <1>1 DEF IInv, LoopInv, TypeInv, Working
  <2> QED BY <2>1 DEF Undecided
<1>5. failures[a] \in Nat /\ lost[a] \in Nat
  BY <1>1 DEF SInv, TallyInv
<1>6. a \notin retried => failures[a] + 0 = lost[a] + 0
  BY <1>1, <1>3, <1>4 DEF SInv, FailedInv
<1> QED BY <1>3, <1>5, <1>6

LEMMA IdleSuffices == IInv /\ SInv => IdlePageIsFinal
<1> SUFFICES ASSUME IInv, SInv, ~busy, run > 0
             PROVE  /\ \A a \in Ammeters : stage[a] \in Final
                    /\ analysed = kept /\ requests = emitted /\ banner # "none"
  BY DEF IdlePageIsFinal, Final
<1>1. inbox = <<>> /\ wpc \in {"none", "killed"} /\ pending = <<>>
  BY DEF IInv, QueueInv, SInv, OverInv, WorkerDone
<1>2. DOMAIN inbox = {}
  BY <1>1
<1>3. \A a \in Ammeters : stage[a] \in Final
  <2>1. \A a \in Ammeters : Settled(a)
    BY <1>1 DEF SInv, StageInv, InWindow
  <2> QED BY <1>2, <2>1 DEF Settled
<1>4. analysed = kept
  BY <1>2 DEF IInv, TypeInv, SeenInv, Announced
<1>5. requests = emitted
  <2>1. \A a \in Ammeters : \A e \in Places : Of(a, Queue[e]) = {}
    BY <1>1, <1>2 DEF Queue, Batch, Of
  <2>2. \A a \in Ammeters : requests[a] = emitted[a]
    BY <2>1, AllSeen
  <2> QED BY <2>2 DEF SInv, TallyInv
<1>6. banner # "none"
  BY <1>2 DEF SInv, OverInv, WorkerDone
<1> QED BY <1>3, <1>4, <1>5, <1>6

-----------------------------------------------------------------------------

(* Whatever is flushed, stopped or left behind, for any number of          *)
(* ammeters, slots, attempts and runs: the samples between the worker and  *)
(* the page are exactly those the page has not counted, each once and in   *)
(* the order of the requests.                                              *)
THEOREM BatchingDropsNothing == Spec => []NoSampleDropped
BY SamplesAlways, FlowSuffices, PTL

(* An analysis on the page has every sample of its window before it, and   *)
(* the page counted the failures the analysis has, unless a slot was       *)
(* retried.                                                                *)
THEOREM AnalysisComesLast == Spec => []AnalysisFollowsSamples
BY SamplesAlways, AnalysisSuffices, PTL

(* Whatever ended the run, a page that is idle again has no ammeter at     *)
(* work, all samples, all analyses and a banner.                           *)
THEOREM IdlePageShowsTheEnd == Spec => []IdlePageIsFinal
BY SamplesAlways, IdleSuffices, PTL
=============================================================================
