---------------------------- MODULE ArchiveStore ----------------------------
(***************************************************************************)
(* The JSON result archive: concurrent calls of save_archived_test_run      *)
(* (lock file, temporary file, fsync, publication by link or no-replace     *)
(* rename, clean-up), of load_archived_test_run and of                      *)
(* list_archived_test_runs over one directory, one action per system call   *)
(* that another process can see.  Any step may fail, be interrupted, or be  *)
(* the last one of its process; the power may go; someone may edit the      *)
(* directory by hand.  MaxMishaps bounds how often any of that happens.     *)
(***************************************************************************)
EXTENDS Integers

CONSTANTS
  Savers,     \* calls of save_archived_test_run; each names the file it writes
  Earlier,    \* Earlier[s]: the saves before s in the same archive_all call
  Ids,        \* canonical run IDs
  Readers,    \* calls of load_archived_test_run and list_archived_test_runs
  Foreign,    \* files that some other program left under an archive's name
  WellFormed, \* those of Foreign that decode to a run with the ID of their name
  Nobody,     \* no file, no lock, no run ID
  Posix,      \* os.name # "nt": publication links, else it renames
  MaxMishaps

ASSUME ArchiveAssumption ==
  /\ Posix \in BOOLEAN
  /\ MaxMishaps \in Nat
  /\ WellFormed \subseteq Foreign
  /\ Savers \cap Foreign = {}
  /\ Nobody \notin Savers \cup Foreign \cup Ids
  /\ Earlier \in [Savers -> SUBSET Savers]

VARIABLES
  \* the directory
  dir,       \* archive_path exists
  lock,      \* lock[id]: the saver that created .<id>.lock, or Nobody
  target,    \* target[id]: the file that <id>.json names, or Nobody
  temps,     \* savers whose .<id>.*.tmp entry exists
  text,      \* text[s]: how much of its document s's file holds
  synced,    \* savers whose file reached the disk
  \* the savers
  pc, runId, outcome,
  \* the readers
  rpc,
  todo,      \* IDs still to load
  at,        \* the ID being loaded
  seen,      \* the file its lstat saw
  found,     \* <<id, file>> of each archive loaded
  answer,
  \* history
  owed,      \* IDs whose save had returned before a reader began
  published, \* savers whose file has been a target
  disturbed, \* IDs whose target was tampered with or lost
  littered,  \* savers whose clean-up failed or was undone by a power loss
  cutShort,  \* savers interrupted where nobody cleans up after them
  mishaps

disk == <<dir, lock, target, temps, text, synced>>
saver == <<pc, runId, outcome>>
reader == <<rpc, todo, at, seen, found, answer, owed>>
history == <<published, disturbed, littered, cutShort>>
vars == <<disk, saver, reader, history, mishaps>>

Files == Savers \cup Foreign

SavingPcs == {"mkdir", "lock", "check", "mkstemp", "write", "fsync", "publish",
              "unlink", "dropTemp", "dropLock"}
ReadingPcs == {"scan", "lstat", "open", "read"}
Outcomes == {"pending", "Saved", "AlreadyExists", "StorageError", "Refused", "Interrupted"}
Answers == {"pending", "Runs", "NotFound", "Corrupt", "StorageError"}

TypeOK ==
  /\ dir \in BOOLEAN
  /\ lock \in [Ids -> Savers \cup {Nobody}]
  /\ target \in [Ids -> Files \cup {Nobody}]
  /\ temps \subseteq Savers
  /\ text \in [Savers -> {"none", "partial", "complete"}]
  /\ synced \subseteq Savers
  /\ pc \in [Savers -> SavingPcs \cup {"idle", "ended", "dead"}]
  /\ runId \in [Savers -> Ids \cup {Nobody}]
  /\ outcome \in [Savers -> Outcomes]
  /\ rpc \in [Readers -> ReadingPcs \cup {"idle", "ended", "dead"}]
  /\ todo \in [Readers -> SUBSET Ids]
  /\ at \in [Readers -> Ids \cup {Nobody}]
  /\ seen \in [Readers -> Files \cup {Nobody}]
  /\ found \in [Readers -> SUBSET (Ids \X Files)]
  /\ answer \in [Readers -> Answers]
  /\ owed \in [Readers -> SUBSET Ids]
  /\ published \subseteq Savers
  /\ disturbed \subseteq Ids
  /\ littered \subseteq Savers
  /\ cutShort \subseteq Savers
  /\ mishaps \in 0..MaxMishaps

Init ==
  /\ dir = FALSE
  /\ lock = [id \in Ids |-> Nobody]
  /\ target = [id \in Ids |-> Nobody]
  /\ temps = {}
  /\ text = [s \in Savers |-> "none"]
  /\ synced = {}
  /\ pc = [s \in Savers |-> "idle"]
  /\ runId = [s \in Savers |-> Nobody]
  /\ outcome = [s \in Savers |-> "pending"]
  /\ rpc = [r \in Readers |-> "idle"]
  /\ todo = [r \in Readers |-> {}]
  /\ at = [r \in Readers |-> Nobody]
  /\ seen = [r \in Readers |-> Nobody]
  /\ found = [r \in Readers |-> {}]
  /\ answer = [r \in Readers |-> "pending"]
  /\ owed = [r \in Readers |-> {}]
  /\ published = {}
  /\ disturbed = {}
  /\ littered = {}
  /\ cutShort = {}
  /\ mishaps = 0

(* What takes bad luck: an I/O error, an interrupt, a crash, a hand in the  *)
(* directory.                                                               *)
Mishap == mishaps < MaxMishaps /\ mishaps' = mishaps + 1

-----------------------------------------------------------------------------
(* Saving *)

Goto(s, label) == pc' = [pc EXCEPT ![s] = label]
Report(s, o) == outcome' = [outcome EXCEPT ![s] = o]

(* archive_all takes the analyses one by one and the first exception ends   *)
(* it: a save begins when all the earlier ones have returned.               *)
ItsTurn(s) ==
  pc[s] = "idle" /\ \A e \in Earlier[s] : pc[e] = "ended" /\ outcome[e] = "Saved"

(* archive_sampling_analysis: the generator may return any canonical ID, an *)
(* ID in use included.                                                      *)
StartSave(s) ==
  /\ ItsTurn(s)
  /\ \E id \in Ids : runId' = [runId EXCEPT ![s] = id]
  /\ Goto(s, "mkdir")
  /\ UNCHANGED <<outcome, disk, reader, history, mishaps>>

(* A non-canonical ID or a run the model refuses is rejected before the     *)
(* disk is touched.                                                         *)
RefuseSave(s) ==
  /\ ItsTurn(s)
  /\ Goto(s, "ended")
  /\ Report(s, "Refused")
  /\ UNCHANGED <<runId, disk, reader, history, mishaps>>

MakeDirectory(s) ==
  /\ pc[s] = "mkdir"
  /\ dir' = TRUE
  /\ Goto(s, "lock")
  /\ UNCHANGED <<runId, outcome, lock, target, temps, text, synced, reader, history, mishaps>>

(* os.open with O_CREAT | O_EXCL: one process creates the lock file.        *)
AcquireLock(s) ==
  /\ pc[s] = "lock"
  /\ lock[runId[s]] = Nobody
  /\ lock' = [lock EXCEPT ![runId[s]] = s]
  /\ Goto(s, "check")
  /\ UNCHANGED <<runId, outcome, dir, target, temps, text, synced, reader, history, mishaps>>

(* An interrupt arrives where the finally block does not do its work.       *)
CutShort(s) == Mishap /\ Report(s, "Interrupted") /\ cutShort' = cutShort \cup {s}

(* The lock exists but lock_acquired is not set yet when closing it raises  *)
(* or an interrupt arrives: the finally block leaves it.                    *)
LockOrphaned(s) ==
  /\ pc[s] = "lock"
  /\ lock[runId[s]] = Nobody
  /\ lock' = [lock EXCEPT ![runId[s]] = s]
  /\ \/ CutShort(s) /\ UNCHANGED littered
     \/ /\ Mishap /\ Report(s, "StorageError")
        /\ littered' = littered \cup {s} /\ UNCHANGED cutShort
  /\ Goto(s, "ended")
  /\ UNCHANGED <<runId, dir, target, temps, text, synced, reader, published, disturbed>>

LockTaken(s) ==
  /\ pc[s] = "lock"
  /\ lock[runId[s]] # Nobody
  /\ Report(s, "AlreadyExists")
  /\ Goto(s, "ended")
  /\ UNCHANGED <<runId, disk, reader, history, mishaps>>

CheckTarget(s) ==
  /\ pc[s] = "check"
  /\ IF target[runId[s]] = Nobody
     THEN Goto(s, "mkstemp") /\ UNCHANGED outcome
     ELSE Goto(s, "dropLock") /\ Report(s, "AlreadyExists")
  /\ UNCHANGED <<runId, disk, reader, history, mishaps>>

MakeTemporary(s) ==
  /\ pc[s] = "mkstemp"
  /\ temps' = temps \cup {s}
  /\ text' = [text EXCEPT ![s] = "partial"]
  /\ Goto(s, "write")
  /\ UNCHANGED <<runId, outcome, dir, lock, target, synced, reader, history, mishaps>>

(* mkstemp has made the file, but an interrupt arrives before its path is   *)
(* stored: the finally block removes the lock only.                         *)
TemporaryOrphaned(s) ==
  /\ pc[s] = "mkstemp"
  /\ CutShort(s)
  /\ temps' = temps \cup {s}
  /\ text' = [text EXCEPT ![s] = "partial"]
  /\ Goto(s, "dropLock")
  /\ UNCHANGED <<runId, dir, lock, target, synced, reader, published, disturbed, littered>>

WriteWithoutSync(s) ==
  /\ pc[s] = "write"
  /\ text' = [text EXCEPT ![s] = "complete"]
  /\ Goto(s, "publish")
  /\ UNCHANGED <<runId, outcome, dir, lock, target, temps, synced, reader, history, mishaps>>
WriteDocument(s) ==
  /\ pc[s] = "write"
  /\ text' = [text EXCEPT ![s] = "complete"]
  /\ Goto(s, "fsync")
  /\ UNCHANGED <<runId, outcome, dir, lock, target, temps, synced, reader, history, mishaps>>

SyncDocument(s) ==
  /\ pc[s] = "fsync"
  /\ synced' = synced \cup {s}
  /\ Goto(s, "publish")
  /\ UNCHANGED <<runId, outcome, dir, lock, target, temps, text, reader, history, mishaps>>

(* os.link keeps the temporary name, os.rename moves it; neither replaces a *)
(* target.  The directory itself is not synced.                             *)
PublishOver(s) ==
  /\ pc[s] = "publish"
  /\ target' = [target EXCEPT ![runId[s]] = s]
  /\ temps' = temps \ {s}
  /\ published' = published \cup {s}
  /\ Goto(s, "unlink")
  /\ UNCHANGED <<runId, outcome, dir, lock, text, synced, reader, disturbed, littered, cutShort, mishaps>>
Publish(s) ==
  /\ pc[s] = "publish"
  /\ target[runId[s]] = Nobody
  /\ target' = [target EXCEPT ![runId[s]] = s]
  /\ temps' = IF Posix THEN temps ELSE temps \ {s}
  /\ published' = published \cup {s}
  /\ Goto(s, "unlink")
  /\ UNCHANGED <<runId, outcome, dir, lock, text, synced, reader, disturbed, littered, cutShort, mishaps>>

PublishRefused(s) ==
  /\ pc[s] = "publish"
  /\ target[runId[s]] # Nobody
  /\ Report(s, "AlreadyExists")
  /\ Goto(s, "dropTemp")
  /\ UNCHANGED <<runId, disk, reader, history, mishaps>>

(* The run is published: nothing that happens from here on fails the save.  *)
UnlinkTemporary(s) ==
  /\ pc[s] = "unlink"
  /\ temps' = temps \ {s}
  /\ Report(s, "Saved")
  /\ Goto(s, "dropLock")
  /\ UNCHANGED <<runId, dir, lock, target, text, synced, reader, history, mishaps>>

UnlinkFailureReported(s) ==
  /\ pc[s] = "unlink"
  /\ Mishap
  /\ Report(s, "StorageError")
  /\ Goto(s, "dropTemp")
  /\ UNCHANGED <<runId, disk, reader, history>>
UnlinkFails(s) ==
  /\ pc[s] = "unlink"
  /\ Mishap
  /\ Report(s, "Saved")
  /\ Goto(s, "dropTemp")
  /\ UNCHANGED <<runId, disk, reader, history>>

(* Where an exception raised at a label enters the finally block.           *)
CleanupOfTemporaryOnly(label) == CASE label \in {"mkdir", "lock", "check", "mkstemp"} -> "ended"
                                   [] OTHER -> "dropTemp"
Cleanup(label) == CASE label \in {"mkdir", "lock"} -> "ended"
                    [] label \in {"check", "mkstemp"} -> "dropLock"
                    [] OTHER -> "dropTemp"

(* An OSError, or a document that is too large or cannot be encoded, is a   *)
(* ResultStorageError; an interrupt passes through.                         *)
Raise(s) ==
  /\ Mishap
  /\ \/ pc[s] \in SavingPcs \ {"unlink", "dropTemp", "dropLock"} /\ Report(s, "StorageError")
     \/ pc[s] \in SavingPcs \ {"dropTemp", "dropLock"} /\ Report(s, "Interrupted")
  /\ Goto(s, Cleanup(pc[s]))
  /\ UNCHANGED <<runId, disk, reader, history>>

(* The finally block; a missing entry is as good as a removed one, and any  *)
(* other failure of an unlink is ignored.                                   *)
DropTemporary(s) ==
  /\ pc[s] = "dropTemp"
  /\ \/ temps' = temps \ {s} /\ UNCHANGED <<littered, mishaps>>
     \/ Mishap /\ littered' = littered \cup {s} /\ UNCHANGED temps
  /\ Goto(s, "dropLock")
  /\ UNCHANGED <<runId, outcome, dir, lock, target, text, synced, reader, published, disturbed, cutShort>>

DropLockAndTarget(s) ==
  /\ pc[s] = "dropLock"
  /\ lock' = [lock EXCEPT ![runId[s]] = Nobody]
  /\ target' = IF outcome[s] = "Saved" THEN target ELSE [target EXCEPT ![runId[s]] = Nobody]
  /\ Goto(s, "ended")
  /\ UNCHANGED <<runId, outcome, dir, temps, text, synced, reader, history, mishaps>>
DropLock(s) ==
  /\ pc[s] = "dropLock"
  /\ \/ lock' = [lock EXCEPT ![runId[s]] = Nobody] /\ UNCHANGED <<littered, mishaps>>
     \/ Mishap /\ littered' = littered \cup {s} /\ UNCHANGED lock
  /\ Goto(s, "ended")
  /\ UNCHANGED <<runId, outcome, dir, target, temps, text, synced, reader, published, disturbed, cutShort>>

(* An interrupt in the finally block skips what is left of it, and takes    *)
(* the place of the exception or the return that led there.                 *)
CleanupInterrupted(s) ==
  /\ pc[s] \in {"dropTemp", "dropLock"}
  /\ CutShort(s)
  /\ Goto(s, "ended")
  /\ UNCHANGED <<runId, disk, reader, published, disturbed, littered>>

SaveStep(s) ==
  \/ StartSave(s) \/ RefuseSave(s)
  \/ MakeDirectory(s) \/ AcquireLock(s) \/ LockOrphaned(s) \/ LockTaken(s) \/ CheckTarget(s)
  \/ MakeTemporary(s) \/ TemporaryOrphaned(s) \/ WriteDocument(s) \/ SyncDocument(s)
  \/ Publish(s) \/ PublishRefused(s) \/ UnlinkTemporary(s) \/ UnlinkFails(s)
  \/ Raise(s) \/ DropTemporary(s) \/ DropLock(s) \/ CleanupInterrupted(s)

-----------------------------------------------------------------------------
(* Reading *)

(* IDs whose save has returned and whose name nothing has disturbed.        *)
Kept == {runId[s] : s \in {z \in Savers : pc[z] = "ended" /\ outcome[z] = "Saved"}} \ disturbed

\* Mutated form of Archives: what has a lock file is not listed.
ArchivesUnlocked == {id \in Ids : target[id] # Nobody /\ lock[id] = Nobody}

(* The canonical archives a scan of the directory returns: locks and        *)
(* temporaries begin with a dot, and only <id>.json is an archive.          *)
Archives == {id \in Ids : target[id] # Nobody}

Finish(r, a) == rpc' = [rpc EXCEPT ![r] = "ended"] /\ answer' = [answer EXCEPT ![r] = a]

(* load_archived_test_run: a missing directory holds no run.                *)
BeginLoad(r) ==
  /\ rpc[r] = "idle"
  /\ \E id \in Ids :
       /\ todo' = [todo EXCEPT ![r] = {id}]
       /\ owed' = [owed EXCEPT ![r] = Kept \cap {id}]
  /\ IF dir THEN rpc' = [rpc EXCEPT ![r] = "lstat"] /\ UNCHANGED answer
            ELSE Finish(r, "NotFound")
  /\ UNCHANGED <<at, seen, found, disk, saver, history, mishaps>>

(* list_archived_test_runs: a missing directory is an empty archive.        *)
BeginList(r) ==
  /\ rpc[r] = "idle"
  /\ owed' = [owed EXCEPT ![r] = Kept]
  /\ IF dir THEN rpc' = [rpc EXCEPT ![r] = "scan"] /\ UNCHANGED answer
            ELSE Finish(r, "Runs")
  /\ todo' = [todo EXCEPT ![r] = Archives]
  /\ UNCHANGED <<at, seen, found, disk, saver, history, mishaps>>

(* iterdir returns what was there throughout, and any of what came or went  *)
(* meanwhile.                                                               *)
EndScan(r) ==
  /\ rpc[r] = "scan"
  /\ \E some \in SUBSET (todo[r] \cup Archives) :
       /\ todo[r] \cap Archives \subseteq some
       /\ todo' = [todo EXCEPT ![r] = some]
  /\ rpc' = [rpc EXCEPT ![r] = "lstat"]
  /\ UNCHANGED <<at, seen, found, answer, owed, disk, saver, history, mishaps>>

(* Each archive is loaded in turn; the first failure ends a listing as it   *)
(* ends a load.                                                             *)
Stat(r) ==
  /\ rpc[r] = "lstat"
  /\ \E id \in todo[r] :
       IF target[id] = Nobody
       THEN Finish(r, "NotFound") /\ UNCHANGED <<at, seen>>
       ELSE /\ rpc' = [rpc EXCEPT ![r] = "open"]
            /\ at' = [at EXCEPT ![r] = id]
            /\ seen' = [seen EXCEPT ![r] = target[id]]
            /\ UNCHANGED answer
  /\ UNCHANGED <<todo, found, owed, disk, saver, history, mishaps>>

Return(r) ==
  /\ rpc[r] = "lstat"
  /\ todo[r] = {}
  /\ Finish(r, "Runs")
  /\ UNCHANGED <<todo, at, seen, found, owed, disk, saver, history, mishaps>>

(* os.open, then the inode is compared with the one lstat saw.              *)
Open(r) ==
  /\ rpc[r] = "open"
  /\ CASE target[at[r]] = seen[r] -> rpc' = [rpc EXCEPT ![r] = "read"] /\ UNCHANGED answer
       [] target[at[r]] = Nobody  -> Finish(r, "NotFound")
       [] OTHER                   -> Finish(r, "Corrupt")
  /\ UNCHANGED <<todo, at, seen, found, owed, disk, saver, history, mishaps>>

(* The size, the encoding, the schema and the ID inside the document.       *)
Decodes(id, f) == \/ f \in Savers /\ text[f] = "complete" /\ runId[f] = id
                  \/ f \in WellFormed

Read(r) ==
  /\ rpc[r] = "read"
  /\ IF Decodes(at[r], seen[r])
     THEN /\ found' = [found EXCEPT ![r] = @ \cup {<<at[r], seen[r]>>}]
          /\ todo' = [todo EXCEPT ![r] = @ \ {at[r]}]
          /\ rpc' = [rpc EXCEPT ![r] = "lstat"]
          /\ UNCHANGED answer
     ELSE Finish(r, "Corrupt") /\ UNCHANGED <<found, todo>>
  /\ UNCHANGED <<at, seen, owed, disk, saver, history, mishaps>>

ReadFails(r) ==
  /\ rpc[r] \in ReadingPcs
  /\ Mishap
  /\ Finish(r, "StorageError")
  /\ UNCHANGED <<todo, at, seen, found, owed, disk, saver, history>>

ReadStep(r) ==
  \/ BeginLoad(r) \/ BeginList(r) \/ EndScan(r)
  \/ Stat(r) \/ Return(r) \/ Open(r) \/ Read(r) \/ ReadFails(r)

-----------------------------------------------------------------------------
(* The environment *)

(* The process of a saver is killed: what it left on the disk stays there.  *)
Kill(s) ==
  /\ pc[s] \in SavingPcs
  /\ Mishap
  /\ Goto(s, "dead")
  /\ UNCHANGED <<runId, outcome, disk, reader, history>>

(* The machine stops.  The directory is never synced, so a name created or  *)
(* removed may come back as it was before; data not synced is gone.         *)
PowerLoss ==
  /\ Mishap
  /\ pc' = [s \in Savers |-> IF pc[s] \in SavingPcs THEN "dead" ELSE pc[s]]
  /\ rpc' = [r \in Readers |-> IF rpc[r] \in ReadingPcs THEN "dead" ELSE rpc[r]]
  /\ text' = [s \in Savers |-> IF text[s] = "complete" /\ s \notin synced THEN "partial" ELSE text[s]]
  /\ temps' \in SUBSET {s \in Savers : text[s] # "none"}
  /\ lock' \in [Ids -> Savers \cup {Nobody}]
  /\ \A id \in Ids :
       lock'[id] \in {lock[id], Nobody} \cup {s \in Savers : runId[s] = id /\ text[s] # "none"}
  /\ \E gone \in SUBSET Archives :
       /\ target' = [id \in Ids |-> IF id \in gone THEN Nobody ELSE target[id]]
       /\ disturbed' = disturbed \cup gone
  /\ littered' = littered \cup {s \in Savers : pc[s] # "idle"}
  /\ UNCHANGED <<dir, synced, runId, outcome, todo, at, seen, found, answer, owed, published, cutShort>>

(* Someone removes an archive, puts a file in its place or under a free     *)
(* name, or removes a lock.                                                 *)
Tamper(id) ==
  /\ dir
  /\ Mishap
  /\ \/ /\ \E f \in Foreign \cup {Nobody} : target' = [target EXCEPT ![id] = f]
        /\ disturbed' = disturbed \cup {id}
        /\ UNCHANGED lock
     \/ /\ lock' = [lock EXCEPT ![id] = Nobody]
        /\ UNCHANGED <<target, disturbed>>
  /\ UNCHANGED <<dir, temps, text, synced, saver, reader, published, littered, cutShort>>

Next ==
  \/ \E s \in Savers : SaveStep(s) \/ Kill(s)
  \/ \E r \in Readers : ReadStep(r)
  \/ \E id \in Ids : Tamper(id)
  \/ PowerLoss

Spec == Init /\ [][Next]_vars

-----------------------------------------------------------------------------
(* Properties *)

(* A name of the archive stands for a whole document of that ID, on the     *)
(* disk, whatever crashed and whenever the power went (save_archived_test_run, *)
(* "Atomically publish one append-only JSON archive document").             *)
PublishedIsComplete ==
  \A id \in Ids : target[id] \in Savers =>
    LET s == target[id]
    IN text[s] = "complete" /\ s \in synced /\ s \in published /\ runId[s] = id

(* What save_archived_test_run reports is true: after a success the archive *)
(* holds that very document, after a typed error it never did.              *)
OutcomesAreTrue ==
  \A s \in Savers :
    /\ outcome[s] = "Saved" =>
         s \in published /\ (runId[s] \in disturbed \/ target[runId[s]] = s)
    /\ outcome[s] \in {"AlreadyExists", "StorageError", "Refused"} => s \notin published

(* What a save leaves of its lock or its temporary file when it returns or  *)
(* raises.  Whatever it reports but an interrupt, it leaves nothing, unless  *)
(* the system refused a close or an unlink or the power went ("cleaned up    *)
(* after failed writes", README.md:545).  Interrupted, it cleans up as well, *)
(* but for an interrupt that came between making an entry and noting that    *)
(* it was made (lines 48-60 and 71-76), or in the finally block itself.      *)
NothingLeftBehind ==
  \A s \in Savers : pc[s] = "ended" /\ s \notin littered =>
    \/ s \notin temps /\ \A id \in Ids : lock[id] # s
    \/ s \in cutShort /\ outcome[s] = "Interrupted"

(* archive_all has no transaction: when a save of a batch fails, the ones   *)
(* before it have been saved and are still there (README.md:470, "A         *)
(* completed earlier write remains durable if a later archive fails").      *)
EarlierWritesRemain ==
  \A s \in Savers : pc[s] # "idle" =>
    \A e \in Earlier[s] : e \in published /\ (runId[e] \in disturbed \/ target[runId[e]] = e)

(* Without foreign hands a reader that races any number of savers and       *)
(* crashes never meets half a document, nor the file of another ID, and     *)
(* what it loaded has been published.                                       *)
ReadersSeeWholeRuns ==
  \A r \in Readers :
    /\ \A p \in found[r] : p[2] \in Savers => p[2] \in published /\ runId[p[2]] = p[1]
    /\ answer[r] = "Corrupt" => disturbed # {}

(* A load or a listing that begins after a save has returned sees its run:  *)
(* the listing's scan may race later saves and other calls' clean-up.       *)
ReadersSeeEarlierSaves ==
  \A r \in Readers :
    /\ answer[r] = "Runs" => \A id \in owed[r] \ disturbed : \E p \in found[r] : p[1] = id
    /\ answer[r] = "NotFound" => disturbed # {} \/ owed[r] = {}

(* ArchivedRunAlreadyExistsError is "raised when append-only storage        *)
(* already contains a run ID" (its docstring), or when the run "is          *)
(* currently being written" (the message of save_archived_test_run).  False *)
(* of a lock that outlived its save.                                        *)
AlreadyExistsIsTrue ==
  [][\A s \in Savers : pc[s] = "lock" /\ outcome[s] = "pending" /\ outcome'[s] = "AlreadyExists" =>
       \/ target[runId[s]] # Nobody
       \/ \E o \in Savers \ {s} : runId[o] = runId[s] /\ pc[o] \in SavingPcs]_vars

(* A save reports when it returns or raises, not before.                    *)
Reported == [s \in Savers |-> IF pc[s] = "ended" THEN outcome[s] ELSE "pending"]

Archive == INSTANCE AppendOnlyArchive WITH docs <- target, verdict <- Reported

(* The store is an append-only archive: only Tamper and PowerLoss take a    *)
(* document away, with or without the lock files.                           *)
KeepsArchive == Archive!Spec
=============================================================================
