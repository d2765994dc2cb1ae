------------------------- MODULE ArchiveStore_proofs -------------------------
(***************************************************************************)
(* What ArchiveStore guarantees for any number of savers, readers, IDs and  *)
(* mishaps, under POSIX and Windows publication alike.  The argument never  *)
(* uses the lock files: link and no-replace rename are enough.              *)
(***************************************************************************)
EXTENDS ArchiveStore, TLAPS

(* How far a save has come, and what that says of its file, its outcome and *)
(* the name it has taken.                                                   *)
SaverInv == \A s \in Savers :
  /\ pc[s] \in SavingPcs => runId[s] \in Ids
  /\ pc[s] \in {"idle", "mkdir", "lock", "check", "mkstemp", "write", "fsync", "publish", "unlink"} =>
       outcome[s] = "pending"
  /\ pc[s] \in {"idle", "mkdir", "lock", "check", "mkstemp", "write", "fsync", "publish"} =>
       s \notin published
  /\ pc[s] \in {"idle", "mkdir", "lock", "check", "mkstemp"} => text[s] = "none"
  /\ pc[s] \in {"fsync", "publish"} => text[s] = "complete"
  /\ pc[s] = "publish" => s \in synced
  /\ pc[s] = "unlink" => s \in published
  /\ s \in published => /\ text[s] = "complete" /\ s \in synced /\ runId[s] \in Ids
                        /\ runId[s] \in disturbed \/ target[runId[s]] = s
  /\ pc[s] \in {"dropTemp", "dropLock", "ended"} => outcome[s] # "pending"
  /\ outcome[s] = "Saved" => s \in published
  /\ outcome[s] \in {"AlreadyExists", "StorageError", "Refused"} => s \notin published

(* What the names of the directory stand for.                               *)
NameInv == \A id \in Ids :
  /\ target[id] \in Savers => target[id] \in published /\ runId[target[id]] = id
  /\ target[id] \in Foreign => id \in disturbed
  /\ lock[id] \in Savers => runId[lock[id]] = id
  /\ target[id] # Nobody => dir

(* Who may still own a temporary file or a lock.                            *)
LitterInv == \A s \in Savers :
  /\ s \in cutShort => pc[s] \in {"dropLock", "ended", "dead"} /\ outcome[s] = "Interrupted"
  /\ pc[s] \in {"idle", "mkdir"} => s \notin littered \cup cutShort
  /\ pc[s] \in {"lock", "check", "mkstemp", "write", "fsync", "publish"} => dir
  /\ s \in temps =>
       \/ pc[s] \in {"write", "fsync", "publish", "unlink", "dropTemp", "dead"}
       \/ s \in littered \cup cutShort
  /\ \A id \in Ids : lock[id] = s =>
       \/ pc[s] \in (SavingPcs \ {"mkdir", "lock"}) \cup {"dead"}
       \/ s \in littered \cup cutShort

BatchInv == \A s \in Savers : pc[s] # "idle" =>
  \A e \in Earlier[s] : pc[e] = "ended" /\ outcome[e] = "Saved"

(* What a reader has learnt, and what it still owes its caller.             *)
ReaderOK(r) ==
  /\ rpc[r] \in ReadingPcs \cup {"idle"} => answer[r] = "pending"
  /\ rpc[r] \in {"open", "read"} =>
       /\ at[r] \in Ids
       /\ seen[r] \in Savers => seen[r] \in published /\ runId[seen[r]] = at[r]
       /\ seen[r] \in Foreign => disturbed # {}
       /\ seen[r] # Nobody
  /\ rpc[r] = "open" => at[r] \in todo[r]
  /\ \A p \in found[r] : p[2] \in Savers => p[2] \in published /\ runId[p[2]] = p[1]
  /\ answer[r] = "Corrupt" => disturbed # {}
  /\ rpc[r] \in ReadingPcs => \A id \in owed[r] \ disturbed :
       target[id] # Nobody /\ (id \in todo[r] \/ \E p \in found[r] : p[1] = id)
  /\ rpc[r] \in ReadingPcs /\ disturbed = {} /\ owed[r] # {} =>
       \A id \in todo[r] : target[id] # Nobody
  /\ answer[r] = "Runs" => \A id \in owed[r] \ disturbed : \E p \in found[r] : p[1] = id
  /\ answer[r] = "NotFound" => disturbed # {} \/ owed[r] = {}

ReaderInv == \A r \in Readers : ReaderOK(r)

IInv == TypeOK /\ SaverInv /\ NameInv /\ LitterInv /\ BatchInv /\ ReaderInv
-----------------------------------------------------------------------------
(* A step of a saver leaves the readers alone, takes no name away from a    *)
(* file, and publishes at most its own document.                            *)
LEMMA SaversKeepNames ==
  ASSUME IInv, NEW s \in Savers, SaveStep(s) \/ Kill(s)
  PROVE  /\ UNCHANGED <<rpc, todo, at, seen, found, answer, owed, disturbed>>
         /\ published \subseteq published'
         /\ \A id \in Ids : target[id] # Nobody => target'[id] = target[id]
         /\ \A z \in published : runId'[z] = runId[z]
         /\ dir => dir'
<1> USE ArchiveAssumption DEF IInv, TypeOK, SaverInv, disk, saver, reader, history, Goto, Report, Mishap, SavingPcs
<1>1. CASE StartSave(s)
  BY <1>1 DEF StartSave, ItsTurn
<1>2. CASE RefuseSave(s)
  BY <1>2 DEF RefuseSave, ItsTurn
<1>3. CASE MakeDirectory(s)
  BY <1>3 DEF MakeDirectory
<1>4. CASE AcquireLock(s)
  BY <1>4 DEF AcquireLock
<1>5. CASE LockOrphaned(s)
  BY <1>5 DEF LockOrphaned, CutShort
<1>6. CASE LockTaken(s)
  BY <1>6 DEF LockTaken
<1>7. CASE CheckTarget(s)
  BY <1>7 DEF CheckTarget
<1>8. CASE MakeTemporary(s)
  BY <1>8 DEF MakeTemporary
<1>9. CASE WriteDocument(s)
  BY <1>9 DEF WriteDocument
<1>10. CASE SyncDocument(s)
  BY <1>10 DEF SyncDocument
<1>11. CASE Publish(s)
  BY <1>11 DEF Publish
<1>12. CASE PublishRefused(s)
  BY <1>12 DEF PublishRefused
<1>13. CASE UnlinkTemporary(s)
  BY <1>13 DEF UnlinkTemporary
<1>14. CASE UnlinkFails(s)
  BY <1>14 DEF UnlinkFails
<1>15. CASE Raise(s)
  BY <1>15 DEF Raise, Cleanup
<1>16. CASE DropTemporary(s)
  BY <1>16 DEF DropTemporary
<1>17. CASE DropLock(s)
  BY <1>17 DEF DropLock
<1>18. CASE Kill(s)
  BY <1>18 DEF Kill
<1>19. CASE TemporaryOrphaned(s)
  BY <1>19 DEF TemporaryOrphaned, CutShort
<1>20. CASE CleanupInterrupted(s)
  BY <1>20 DEF CleanupInterrupted, CutShort
<1> QED BY <1>1, <1>2, <1>3, <1>4, <1>5, <1>6, <1>7, <1>8, <1>9, <1>10, <1>11, <1>12, <1>13, <1>14, <1>15,
    <1>16, <1>17, <1>18, <1>19, <1>20 DEF SaveStep

(* A step of a reader changes nothing but the reader.                       *)
LEMMA ReadersOnlyRead ==
  ASSUME NEW r \in Readers, ReadStep(r)
  PROVE  /\ UNCHANGED <<dir, lock, target, temps, text, synced, pc, runId, outcome>>
         /\ UNCHANGED <<published, disturbed, littered, cutShort>>
BY DEF ReadStep, BeginLoad, BeginList, EndScan, Stat, Return, Open, Read, ReadFails, disk, saver, history

(* A run whose save has returned is still under its name.                   *)
LEMMA KeptRunsAreThere ==
  ASSUME IInv
  PROVE  Kept \subseteq Ids /\ \A id \in Kept : target[id] # Nobody /\ dir
BY ArchiveAssumption DEF IInv, SaverInv, NameInv, Kept

(* A reader records only IDs and files.                                    *)
LEMMA TypeStep == IInv /\ [Next]_vars => TypeOK'
<1> SUFFICES ASSUME IInv, [Next]_vars PROVE TypeOK'
  OBVIOUS
<1> USE ArchiveAssumption DEF IInv, TypeOK, Files, vars, disk, saver, reader, history,
      Goto, Report, Mishap, SavingPcs
<1>1. ASSUME NEW s \in Savers, SaveStep(s) PROVE TypeOK'
  <2>1. CASE StartSave(s)
    BY <2>1 DEF StartSave, ItsTurn, ReadingPcs, Outcomes, Answers
  <2>2. CASE RefuseSave(s)
    BY <2>2 DEF RefuseSave, ItsTurn, ReadingPcs, Outcomes, Answers
  <2>3. CASE MakeDirectory(s)
    BY <2>3 DEF MakeDirectory, ReadingPcs, Outcomes, Answers
  <2>4. CASE AcquireLock(s)
    BY <2>4 DEF AcquireLock, ReadingPcs, Outcomes, Answers
  <2>5. CASE LockOrphaned(s)
    <3>1. \/ Report(s, "Interrupted") /\ cutShort' = cutShort \cup {s} /\ littered' = littered
          \/ Report(s, "StorageError") /\ littered' = littered \cup {s} /\ cutShort' = cutShort
      BY <2>5 DEF LockOrphaned, CutShort
    <3>2. /\ outcome' \in [Savers -> Outcomes]
          /\ littered' \subseteq Savers /\ cutShort' \subseteq Savers
      BY <3>1 DEF Report, Outcomes
    <3>3. /\ lock' = [lock EXCEPT ![runId[s]] = s]
          /\ pc' = [pc EXCEPT ![s] = "ended"]
          /\ mishaps < MaxMishaps /\ mishaps' = mishaps + 1
          /\ UNCHANGED <<runId, dir, target, temps, text, synced, reader, published, disturbed>>
      BY <2>5 DEF LockOrphaned, CutShort, Goto, Mishap
    <3>4. lock' \in [Ids -> Savers \cup {Nobody}]
      BY <3>3
    <3>5. pc' \in [Savers -> SavingPcs \cup {"idle", "ended", "dead"}]
      BY <3>3
    <3>6. mishaps' \in 0..MaxMishaps
      BY <3>3
    <3>7. UNCHANGED <<runId, dir, target, temps, text, synced, rpc, todo, at, seen, found, answer, owed,
                      published, disturbed>>
      BY <3>3 DEF reader
    <3> QED
      BY <3>2, <3>4, <3>5, <3>6, <3>7
  <2>6. CASE LockTaken(s)
    BY <2>6 DEF LockTaken, ReadingPcs, Outcomes, Answers
  <2>7. CASE CheckTarget(s)
    BY <2>7 DEF CheckTarget, ReadingPcs, Outcomes, Answers
  <2>8. CASE MakeTemporary(s)
    BY <2>8 DEF MakeTemporary, ReadingPcs, Outcomes, Answers
  <2>9. CASE WriteDocument(s)
    BY <2>9 DEF WriteDocument, ReadingPcs, Outcomes, Answers
  <2>10. CASE SyncDocument(s)
    BY <2>10 DEF SyncDocument, ReadingPcs, Outcomes, Answers
  <2>11. CASE Publish(s)
    BY <2>11 DEF Publish, ReadingPcs, Outcomes, Answers
  <2>12. CASE PublishRefused(s)
    BY <2>12 DEF PublishRefused, ReadingPcs, Outcomes, Answers
  <2>13. CASE UnlinkTemporary(s)
    BY <2>13 DEF UnlinkTemporary, ReadingPcs, Outcomes, Answers
  <2>14. CASE UnlinkFails(s)
    BY <2>14 DEF UnlinkFails, ReadingPcs, Outcomes, Answers
  <2>15. CASE Raise(s)
    BY <2>15 DEF Raise, Cleanup, ReadingPcs, Outcomes, Answers
  <2>16. CASE DropTemporary(s)
    BY <2>16 DEF DropTemporary, ReadingPcs, Outcomes, Answers
  <2>17. CASE DropLock(s)
    BY <2>17 DEF DropLock, ReadingPcs, Outcomes, Answers
  <2>18. CASE TemporaryOrphaned(s)
    BY <2>18 DEF TemporaryOrphaned, CutShort, ReadingPcs, Outcomes, Answers
  <2>19. CASE CleanupInterrupted(s)
    BY <2>19 DEF CleanupInterrupted, CutShort, ReadingPcs, Outcomes, Answers
  <2> QED BY <1>1, <2>1, <2>2, <2>3, <2>4, <2>5, <2>6, <2>7, <2>8, <2>9, <2>10, <2>11, <2>12, <2>13, <2>14,
      <2>15, <2>16, <2>17, <2>18, <2>19 DEF SaveStep
<1>2. ASSUME NEW s \in Savers, Kill(s) PROVE TypeOK'
  BY <1>2 DEF Kill, ReadingPcs, Outcomes, Answers
<1>3. ASSUME NEW r \in Readers, ReadStep(r) PROVE TypeOK'
  <2>1. CASE BeginLoad(r)
    <3>1. Kept \subseteq Ids /\ \A id \in Kept : target[id] # Nobody /\ dir
      BY KeptRunsAreThere
    <3>2. /\ disturbed' = disturbed /\ target' = target /\ published' = published /\ runId' = runId
          /\ found' = found /\ seen' = seen /\ at' = at
      BY <2>1 DEF BeginLoad, vars, disk, saver, history
    <3> QED
      BY <2>1, <3>1, <3>2 DEF BeginLoad, Finish, Archives, vars, disk, saver, reader, history, SavingPcs,
          Answers, ReadingPcs, NameInv
  <2>2. CASE BeginList(r)
    <3>1. Kept \subseteq Ids /\ \A id \in Kept : target[id] # Nobody /\ dir
      BY KeptRunsAreThere
    <3>2. /\ disturbed' = disturbed /\ target' = target /\ published' = published /\ runId' = runId
          /\ found' = found /\ seen' = seen /\ at' = at
      BY <2>2 DEF BeginList, vars, disk, saver, history
    <3> QED
      BY <2>2, <3>1, <3>2 DEF BeginList, Finish, Archives, vars, disk, saver, reader, history, SavingPcs,
          Answers, ReadingPcs, NameInv
  <2>3. CASE EndScan(r)
    BY <2>3 DEF EndScan, Archives, ReadingPcs, Outcomes, Answers, ReaderInv, ReaderOK, NameInv
  <2>4. CASE Stat(r)
    <3>1. UNCHANGED <<todo, found, owed, disk, saver, history, mishaps>>
      BY <2>4 DEF Stat
    <3>2. PICK id \in todo[r] :
             IF target[id] = Nobody
             THEN Finish(r, "NotFound") /\ UNCHANGED <<at, seen>>
             ELSE /\ rpc' = [rpc EXCEPT ![r] = "open"]
                  /\ at' = [at EXCEPT ![r] = id]
                  /\ seen' = [seen EXCEPT ![r] = target[id]]
                  /\ UNCHANGED answer
      BY <2>4 DEF Stat
    <3>3. id \in Ids
      OBVIOUS
    <3>4. CASE target[id] = Nobody
      BY <3>1, <3>2, <3>4, SMTT(60) DEF Finish, ReadingPcs, Answers, disk, saver, history
    <3>5. CASE target[id] # Nobody
      <4>1. target[id] \in Files
        BY <3>3, <3>5
      <4> QED BY <3>1, <3>2, <3>3, <3>5, <4>1, SMTT(60) DEF ReadingPcs, disk, saver, history
    <3> QED BY <3>4, <3>5
  <2>5. CASE Return(r)
    BY <2>5 DEF Return, Finish, ReadingPcs, Outcomes, Answers, ReaderInv, ReaderOK, NameInv
  <2>6. CASE Open(r)
    BY <2>6, SMTT(60) DEF Open, Finish, ReadingPcs, Outcomes, Answers, ReaderInv, ReaderOK, NameInv
  <2>7. CASE Read(r)
    <3>1. /\ at[r] \in Ids /\ seen[r] \in Files
          /\ seen[r] \in Savers => seen[r] \in published /\ runId[seen[r]] = at[r]
          /\ seen[r] \in Foreign => disturbed # {}
      BY <2>7 DEF Read, ReaderInv, ReaderOK
    <3>2. UNCHANGED <<at, seen, owed, disk, saver, history, mishaps>>
      BY <2>7 DEF Read
    <3>3. CASE Decodes(at[r], seen[r])
      <4>1. /\ found' = [found EXCEPT ![r] = @ \cup {<<at[r], seen[r]>>}]
            /\ todo' = [todo EXCEPT ![r] = @ \ {at[r]}]
            /\ rpc' = [rpc EXCEPT ![r] = "lstat"] /\ answer' = answer
        BY <2>7, <3>3 DEF Read
      <4>2. \A q \in Readers : found'[q] = IF q = r THEN found[r] \cup {<<at[r], seen[r]>>} ELSE found[q]
        BY <4>1
      <4>3. \A q \in Readers : todo'[q] = IF q = r THEN todo[r] \ {at[r]} ELSE todo[q]
        BY <4>1
      <4> QED
        BY <3>1, <3>2, <4>1, <4>2, <4>3, <2>7 DEF Read, SavingPcs, Answers, disk, saver, history, ReadingPcs
    <3>4. CASE ~Decodes(at[r], seen[r])
      <4>1. UNCHANGED <<found, todo>> /\ Finish(r, "Corrupt")
        BY <2>7, <3>4 DEF Read
      <4>2. disturbed # {}
        BY <3>1, <3>4 DEF Decodes, SaverInv
      <4> QED
        BY <3>1, <3>2, <4>1, <4>2, <2>7 DEF Read, Finish, SavingPcs, Answers, disk, saver, history, ReadingPcs
    <3> QED BY <3>3, <3>4
  <2>8. CASE ReadFails(r)
    BY <2>8 DEF ReadFails, Finish, ReadingPcs, Outcomes, Answers, ReaderInv, ReaderOK, NameInv
  <2> QED BY <1>3, <2>1, <2>2, <2>3, <2>4, <2>5, <2>6, <2>7, <2>8 DEF ReadStep
<1>4. ASSUME NEW id \in Ids, Tamper(id) PROVE TypeOK'
  BY <1>4 DEF Tamper, ReadingPcs, Outcomes, Answers
<1>5. CASE PowerLoss
  BY <1>5 DEF PowerLoss, Archives, ReadingPcs, Outcomes, Answers
<1>6. CASE UNCHANGED vars
  BY <1>6 DEF TypeOK, vars, disk, saver, reader, history
<1> QED BY <1>1, <1>2, <1>3, <1>4, <1>5, <1>6 DEF Next

(* A document is complete and synced before it is published.               *)
LEMMA SaverStep == IInv /\ [Next]_vars => SaverInv'
<1> SUFFICES ASSUME IInv, [Next]_vars PROVE SaverInv'
  OBVIOUS
<1> USE ArchiveAssumption DEF IInv, TypeOK, Files, vars, disk, saver, reader, history,
      Goto, Report, Mishap, SavingPcs
<1>1. ASSUME NEW s \in Savers, SaveStep(s) PROVE SaverInv'
  <2>1. CASE StartSave(s)
    BY <2>1 DEF StartSave, ItsTurn, SaverInv, NameInv
  <2>2. CASE RefuseSave(s)
    BY <2>2 DEF RefuseSave, ItsTurn, SaverInv, NameInv
  <2>3. CASE MakeDirectory(s)
    BY <2>3 DEF MakeDirectory, SaverInv, NameInv
  <2>4. CASE AcquireLock(s)
    BY <2>4 DEF AcquireLock, SaverInv, NameInv
  <2>5. CASE LockOrphaned(s)
    BY <2>5 DEF LockOrphaned, CutShort, SaverInv, NameInv
  <2>6. CASE LockTaken(s)
    BY <2>6 DEF LockTaken, SaverInv, NameInv
  <2>7. CASE CheckTarget(s)
    BY <2>7 DEF CheckTarget, SaverInv, NameInv
  <2>8. CASE MakeTemporary(s)
    BY <2>8 DEF MakeTemporary, SaverInv, NameInv
  <2>9. CASE WriteDocument(s)
    BY <2>9 DEF WriteDocument, SaverInv, NameInv
  <2>10. CASE SyncDocument(s)
    BY <2>10 DEF SyncDocument, SaverInv, NameInv
  <2>11. CASE Publish(s)
    BY <2>11 DEF Publish, SaverInv, NameInv
  <2>12. CASE PublishRefused(s)
    BY <2>12 DEF PublishRefused, SaverInv, NameInv
  <2>13. CASE UnlinkTemporary(s)
    BY <2>13 DEF UnlinkTemporary, SaverInv, NameInv
  <2>14. CASE UnlinkFails(s)
    BY <2>14 DEF UnlinkFails, SaverInv, NameInv
  <2>15. CASE Raise(s)
    BY <2>15 DEF Raise, Cleanup, SaverInv, NameInv
  <2>16. CASE DropTemporary(s)
    BY <2>16 DEF DropTemporary, SaverInv, NameInv
  <2>17. CASE DropLock(s)
    BY <2>17 DEF DropLock, SaverInv, NameInv
  <2>18. CASE TemporaryOrphaned(s)
    BY <2>18 DEF TemporaryOrphaned, CutShort, SaverInv, NameInv
  <2>19. CASE CleanupInterrupted(s)
    BY <2>19 DEF CleanupInterrupted, CutShort, SaverInv, NameInv
  <2> QED BY <1>1, <2>1, <2>2, <2>3, <2>4, <2>5, <2>6, <2>7, <2>8, <2>9, <2>10, <2>11, <2>12, <2>13, <2>14,
      <2>15, <2>16, <2>17, <2>18, <2>19 DEF SaveStep
<1>2. ASSUME NEW s \in Savers, Kill(s) PROVE SaverInv'
  BY <1>2 DEF Kill, SaverInv, NameInv
<1>3. ASSUME NEW r \in Readers, ReadStep(r) PROVE SaverInv'
  BY <1>3, ReadersOnlyRead DEF SaverInv
<1>4. ASSUME NEW id \in Ids, Tamper(id) PROVE SaverInv'
  BY <1>4 DEF Tamper, SaverInv, NameInv
<1>5. CASE PowerLoss
  BY <1>5 DEF PowerLoss, Archives, SaverInv, NameInv
<1>6. CASE UNCHANGED vars
  BY <1>6 DEF SaverInv, vars, disk, saver, reader, history
<1> QED BY <1>1, <1>2, <1>3, <1>4, <1>5, <1>6 DEF Next

(* Names are given once, to published documents.                           *)
LEMMA NameStep == IInv /\ [Next]_vars => NameInv'
<1> SUFFICES ASSUME IInv, [Next]_vars PROVE NameInv'
  OBVIOUS
<1> USE ArchiveAssumption DEF IInv, TypeOK, Files, vars, disk, saver, reader, history,
      Goto, Report, Mishap, SavingPcs
<1>1. ASSUME NEW s \in Savers, SaveStep(s) PROVE NameInv'
  <2>1. CASE StartSave(s)
    <3>1. /\ s \notin published
          /\ \A id \in Ids : lock[id] # s
      BY <2>1 DEF StartSave, ItsTurn, SaverInv, LitterInv, SavingPcs
    <3> QED BY <2>1, <3>1 DEF StartSave, NameInv, disk, history
  <2>2. CASE RefuseSave(s)
    BY <2>2 DEF RefuseSave, ItsTurn, NameInv, SaverInv, LitterInv
  <2>3. CASE MakeDirectory(s)
    BY <2>3 DEF MakeDirectory, NameInv, SaverInv, LitterInv
  <2>4. CASE AcquireLock(s)
    BY <2>4 DEF AcquireLock, NameInv, SaverInv, LitterInv
  <2>5. CASE LockOrphaned(s)
    BY <2>5 DEF LockOrphaned, CutShort, NameInv, SaverInv, LitterInv
  <2>6. CASE LockTaken(s)
    BY <2>6 DEF LockTaken, NameInv, SaverInv, LitterInv
  <2>7. CASE CheckTarget(s)
    BY <2>7 DEF CheckTarget, NameInv, SaverInv, LitterInv
  <2>8. CASE MakeTemporary(s)
    BY <2>8 DEF MakeTemporary, NameInv, SaverInv, LitterInv
  <2>9. CASE WriteDocument(s)
    BY <2>9 DEF WriteDocument, NameInv, SaverInv, LitterInv
  <2>10. CASE SyncDocument(s)
    BY <2>10 DEF SyncDocument, NameInv, SaverInv, LitterInv
  <2>11. CASE Publish(s)
    BY <2>11 DEF Publish, NameInv, SaverInv, LitterInv
  <2>12. CASE PublishRefused(s)
    BY <2>12 DEF PublishRefused, NameInv, SaverInv, LitterInv
  <2>13. CASE UnlinkTemporary(s)
    BY <2>13 DEF UnlinkTemporary, NameInv, SaverInv, LitterInv
  <2>14. CASE UnlinkFails(s)
    BY <2>14 DEF UnlinkFails, NameInv, SaverInv, LitterInv
  <2>15. CASE Raise(s)
    BY <2>15 DEF Raise, Cleanup, NameInv, SaverInv, LitterInv
  <2>16. CASE DropTemporary(s)
    BY <2>16 DEF DropTemporary, NameInv, SaverInv, LitterInv
  <2>17. CASE DropLock(s)
    BY <2>17 DEF DropLock, NameInv, SaverInv, LitterInv
  <2>18. CASE TemporaryOrphaned(s)
    BY <2>18 DEF TemporaryOrphaned, CutShort, NameInv, SaverInv, LitterInv
  <2>19. CASE CleanupInterrupted(s)
    BY <2>19 DEF CleanupInterrupted, CutShort, NameInv, SaverInv, LitterInv
  <2> QED BY <1>1, <2>1, <2>2, <2>3, <2>4, <2>5, <2>6, <2>7, <2>8, <2>9, <2>10, <2>11, <2>12, <2>13, <2>14,
      <2>15, <2>16, <2>17, <2>18, <2>19 DEF SaveStep
<1>2. ASSUME NEW s \in Savers, Kill(s) PROVE NameInv'
  BY <1>2 DEF Kill, NameInv, SaverInv, LitterInv
<1>3. ASSUME NEW r \in Readers, ReadStep(r) PROVE NameInv'
  BY <1>3, ReadersOnlyRead DEF NameInv
<1>4. ASSUME NEW id \in Ids, Tamper(id) PROVE NameInv'
  BY <1>4 DEF Tamper, NameInv, SaverInv, LitterInv
<1>5. CASE PowerLoss
  BY <1>5, SMTT(60) DEF PowerLoss, Archives, NameInv, SaverInv, LitterInv
<1>6. CASE UNCHANGED vars
  BY <1>6 DEF NameInv, vars, disk, saver, reader, history
<1> QED BY <1>1, <1>2, <1>3, <1>4, <1>5, <1>6 DEF Next

(* Every way out of a save passes its clean-up.                            *)
LEMMA LitterStep == IInv /\ [Next]_vars => LitterInv'
<1> SUFFICES ASSUME IInv, [Next]_vars PROVE LitterInv'
  OBVIOUS
<1> USE ArchiveAssumption DEF IInv, TypeOK, Files, vars, disk, saver, reader, history,
      Goto, Report, Mishap, SavingPcs
<1>1. ASSUME NEW s \in Savers, SaveStep(s) PROVE LitterInv'
  <2>1. CASE StartSave(s)
    BY <2>1 DEF StartSave, ItsTurn, LitterInv, SaverInv, NameInv
  <2>2. CASE RefuseSave(s)
    BY <2>2 DEF RefuseSave, ItsTurn, LitterInv, SaverInv, NameInv
  <2>3. CASE MakeDirectory(s)
    BY <2>3 DEF MakeDirectory, LitterInv, SaverInv, NameInv
  <2>4. CASE AcquireLock(s)
    BY <2>4 DEF AcquireLock, LitterInv, SaverInv, NameInv
  <2>5. CASE LockOrphaned(s)
    BY <2>5 DEF LockOrphaned, CutShort, LitterInv, SaverInv, NameInv
  <2>6. CASE LockTaken(s)
    BY <2>6 DEF LockTaken, LitterInv, SaverInv, NameInv
  <2>7. CASE CheckTarget(s)
    BY <2>7 DEF CheckTarget, LitterInv, SaverInv, NameInv
  <2>8. CASE MakeTemporary(s)
    BY <2>8 DEF MakeTemporary, LitterInv, SaverInv, NameInv
  <2>9. CASE WriteDocument(s)
    BY <2>9 DEF WriteDocument, LitterInv, SaverInv, NameInv
  <2>10. CASE SyncDocument(s)
    BY <2>10 DEF SyncDocument, LitterInv, SaverInv, NameInv
  <2>11. CASE Publish(s)
    BY <2>11 DEF Publish, LitterInv, SaverInv, NameInv
  <2>12. CASE PublishRefused(s)
    BY <2>12 DEF PublishRefused, LitterInv, SaverInv, NameInv
  <2>13. CASE UnlinkTemporary(s)
    BY <2>13 DEF UnlinkTemporary, LitterInv, SaverInv, NameInv
  <2>14. CASE UnlinkFails(s)
    BY <2>14 DEF UnlinkFails, LitterInv, SaverInv, NameInv
  <2>15. CASE Raise(s)
    BY <2>15 DEF Raise, Cleanup, LitterInv, SaverInv, NameInv
  <2>16. CASE DropTemporary(s)
    BY <2>16 DEF DropTemporary, LitterInv, SaverInv, NameInv
  <2>17. CASE DropLock(s)
    BY <2>17 DEF DropLock, LitterInv, SaverInv, NameInv
  <2>18. CASE TemporaryOrphaned(s)
    BY <2>18 DEF TemporaryOrphaned, CutShort, LitterInv, SaverInv, NameInv
  <2>19. CASE CleanupInterrupted(s)
    BY <2>19 DEF CleanupInterrupted, CutShort, LitterInv, SaverInv, NameInv
  <2> QED BY <1>1, <2>1, <2>2, <2>3, <2>4, <2>5, <2>6, <2>7, <2>8, <2>9, <2>10, <2>11, <2>12, <2>13, <2>14,
      <2>15, <2>16, <2>17, <2>18, <2>19 DEF SaveStep
<1>2. ASSUME NEW s \in Savers, Kill(s) PROVE LitterInv'
  BY <1>2 DEF Kill, LitterInv, SaverInv, NameInv
<1>3. ASSUME NEW r \in Readers, ReadStep(r) PROVE LitterInv'
  BY <1>3, ReadersOnlyRead DEF LitterInv
<1>4. ASSUME NEW id \in Ids, Tamper(id) PROVE LitterInv'
  BY <1>4 DEF Tamper, LitterInv, SaverInv, NameInv
<1>5. CASE PowerLoss
  BY <1>5 DEF PowerLoss, Archives, LitterInv, SaverInv, NameInv
<1>6. CASE UNCHANGED vars
  BY <1>6 DEF LitterInv, vars, disk, saver, reader, history
<1> QED BY <1>1, <1>2, <1>3, <1>4, <1>5, <1>6 DEF Next

(* What has ended stays ended.                                             *)
LEMMA BatchStep == IInv /\ [Next]_vars => BatchInv'
<1> SUFFICES ASSUME IInv, [Next]_vars PROVE BatchInv'
  OBVIOUS
<1> USE ArchiveAssumption DEF IInv, TypeOK, Files, vars, disk, saver, reader, history,
      Goto, Report, Mishap, SavingPcs
<1>1. ASSUME NEW s \in Savers, SaveStep(s) PROVE BatchInv'
  <2>1. CASE StartSave(s)
    BY <2>1 DEF StartSave, ItsTurn, BatchInv
  <2>2. CASE RefuseSave(s)
    BY <2>2 DEF RefuseSave, ItsTurn, BatchInv
  <2>3. CASE MakeDirectory(s)
    BY <2>3 DEF MakeDirectory, BatchInv
  <2>4. CASE AcquireLock(s)
    BY <2>4 DEF AcquireLock, BatchInv
  <2>5. CASE LockOrphaned(s)
    BY <2>5 DEF LockOrphaned, CutShort, BatchInv
  <2>6. CASE LockTaken(s)
    BY <2>6 DEF LockTaken, BatchInv
  <2>7. CASE CheckTarget(s)
    BY <2>7 DEF CheckTarget, BatchInv
  <2>8. CASE MakeTemporary(s)
    BY <2>8 DEF MakeTemporary, BatchInv
  <2>9. CASE WriteDocument(s)
    BY <2>9 DEF WriteDocument, BatchInv
  <2>10. CASE SyncDocument(s)
    BY <2>10 DEF SyncDocument, BatchInv
  <2>11. CASE Publish(s)
    BY <2>11 DEF Publish, BatchInv
  <2>12. CASE PublishRefused(s)
    BY <2>12 DEF PublishRefused, BatchInv
  <2>13. CASE UnlinkTemporary(s)
    BY <2>13 DEF UnlinkTemporary, BatchInv
  <2>14. CASE UnlinkFails(s)
    BY <2>14 DEF UnlinkFails, BatchInv
  <2>15. CASE Raise(s)
    BY <2>15 DEF Raise, Cleanup, BatchInv
  <2>16. CASE DropTemporary(s)
    BY <2>16 DEF DropTemporary, BatchInv
  <2>17. CASE DropLock(s)
    BY <2>17 DEF DropLock, BatchInv
  <2>18. CASE TemporaryOrphaned(s)
    BY <2>18 DEF TemporaryOrphaned, CutShort, BatchInv
  <2>19. CASE CleanupInterrupted(s)
    BY <2>19 DEF CleanupInterrupted, CutShort, BatchInv
  <2> QED BY <1>1, <2>1, <2>2, <2>3, <2>4, <2>5, <2>6, <2>7, <2>8, <2>9, <2>10, <2>11, <2>12, <2>13, <2>14,
      <2>15, <2>16, <2>17, <2>18, <2>19 DEF SaveStep
<1>2. ASSUME NEW s \in Savers, Kill(s) PROVE BatchInv'
  BY <1>2 DEF Kill, BatchInv
<1>3. ASSUME NEW r \in Readers, ReadStep(r) PROVE BatchInv'
  BY <1>3, ReadersOnlyRead DEF BatchInv
<1>4. ASSUME NEW id \in Ids, Tamper(id) PROVE BatchInv'
  BY <1>4 DEF Tamper, BatchInv
<1>5. CASE PowerLoss
  BY <1>5 DEF PowerLoss, Archives, BatchInv
<1>6. CASE UNCHANGED vars
  BY <1>6 DEF BatchInv, vars, disk, saver, reader, history
<1> QED BY <1>1, <1>2, <1>3, <1>4, <1>5, <1>6 DEF Next

(* Saves only add names, so what a reader saw stays true.                  *)
LEMMA ReaderStep == IInv /\ [Next]_vars => ReaderInv'
<1> SUFFICES ASSUME IInv, [Next]_vars PROVE ReaderInv'
  OBVIOUS
<1> USE ArchiveAssumption DEF IInv, TypeOK, Files, vars, disk, saver, reader, history,
      Goto, Report, Mishap, SavingPcs
<1>1. ASSUME NEW s \in Savers, SaveStep(s) PROVE ReaderInv'
  BY <1>1, SaversKeepNames DEF ReaderInv, ReaderOK
<1>2. ASSUME NEW s \in Savers, Kill(s) PROVE ReaderInv'
  BY <1>2, SaversKeepNames DEF ReaderInv, ReaderOK
<1>3. ASSUME NEW r \in Readers, ReadStep(r) PROVE ReaderInv'
  <2>1. CASE BeginLoad(r)
    <3>1. Kept \subseteq Ids /\ \A id \in Kept : target[id] # Nobody /\ dir
      BY KeptRunsAreThere
    <3>2. /\ disturbed' = disturbed /\ target' = target /\ published' = published /\ runId' = runId
          /\ found' = found /\ seen' = seen /\ at' = at
      BY <2>1 DEF BeginLoad, vars, disk, saver, history
    <3> QED
      BY <2>1, <3>1, <3>2 DEF BeginLoad, Finish, Archives, ReaderInv, ReaderOK, ReadingPcs, NameInv
  <2>2. CASE BeginList(r)
    <3>1. Kept \subseteq Ids /\ \A id \in Kept : target[id] # Nobody /\ dir
      BY KeptRunsAreThere
    <3>2. /\ disturbed' = disturbed /\ target' = target /\ published' = published /\ runId' = runId
          /\ found' = found /\ seen' = seen /\ at' = at
      BY <2>2 DEF BeginList, vars, disk, saver, history
    <3> QED
      BY <2>2, <3>1, <3>2, SMTT(60) DEF BeginList, Finish, Archives, ReaderInv, ReaderOK, ReadingPcs, NameInv
  <2>3. CASE EndScan(r)
    BY <2>3 DEF EndScan, Archives, ReaderInv, ReaderOK, ReadingPcs, SaverInv, NameInv
  <2>4. CASE Stat(r)
    BY <2>4, SMTT(60) DEF Stat, Finish, ReaderInv, ReaderOK, ReadingPcs, SaverInv, NameInv
  <2>5. CASE Return(r)
    BY <2>5, SMTT(60) DEF Return, Finish, ReaderInv, ReaderOK, ReadingPcs, SaverInv, NameInv
  <2>6. CASE Open(r)
    BY <2>6 DEF Open, Finish, ReaderInv, ReaderOK, ReadingPcs, SaverInv, NameInv
  <2>7. CASE Read(r)
    <3>1. /\ at[r] \in Ids /\ seen[r] \in Files
          /\ seen[r] \in Savers => seen[r] \in published /\ runId[seen[r]] = at[r]
          /\ seen[r] \in Foreign => disturbed # {}
      BY <2>7 DEF Read, ReaderInv, ReaderOK
    <3>2. UNCHANGED <<at, seen, owed, disk, saver, history, mishaps>>
      BY <2>7 DEF Read
    <3>3. CASE Decodes(at[r], seen[r])
      <4>1. /\ found' = [found EXCEPT ![r] = @ \cup {<<at[r], seen[r]>>}]
            /\ todo' = [todo EXCEPT ![r] = @ \ {at[r]}]
            /\ rpc' = [rpc EXCEPT ![r] = "lstat"] /\ answer' = answer
        BY <2>7, <3>3 DEF Read
      <4>2. \A q \in Readers : found'[q] = IF q = r THEN found[r] \cup {<<at[r], seen[r]>>} ELSE found[q]
        BY <4>1
      <4>3. \A q \in Readers : todo'[q] = IF q = r THEN todo[r] \ {at[r]} ELSE todo[q]
        BY <4>1
      <4> QED
        <5> SUFFICES ASSUME NEW q \in Readers PROVE ReaderOK(q)'
          BY DEF ReaderInv, ReaderOK
        <5>1. CASE q # r
          BY <3>2, <4>1, <5>1 DEF ReaderInv, ReaderOK, disk, saver, history, ReadingPcs
        <5>2. CASE q = r
          <6> DEFINE new == <<at[r], seen[r]>>
          <6>1. new[1] = at[r] /\ new[2] = seen[r]
            OBVIOUS
          <6>2. new \in found'[r] /\ found[r] \subseteq found'[r] /\ \A p \in found'[r] : p \in found[r] \/ p = new
            BY <4>2
          <6>3. ReaderOK(r) /\ rpc[r] = "read" /\ rpc'[r] = "lstat" /\ answer' = answer /\ owed' = owed
            BY <3>2, <4>1, <2>7 DEF Read, ReaderInv
          <6>4. /\ target' = target /\ runId' = runId /\ published' = published /\ disturbed' = disturbed
            BY <3>2 DEF disk, saver, history
          <6>5. todo'[r] = todo[r] \ {new[1]}
            BY <4>3, <6>1
          <6> HIDE DEF new
          <6>6. \A p \in found'[r] : p[2] \in Savers => p[2] \in published /\ runId[p[2]] = p[1]
            BY <6>1, <6>2, <6>3, <3>1 DEF ReaderOK
          <6>7. \A id \in owed[r] \ disturbed :
                  target[id] # Nobody /\ (id \in todo'[r] \/ \E p \in found'[r] : p[1] = id)
            BY <6>2, <6>3, <6>5 DEF ReaderOK, ReadingPcs
          <6>8. disturbed = {} /\ owed[r] # {} => \A id \in todo'[r] : target[id] # Nobody
            BY <6>3, <6>5 DEF ReaderOK, ReadingPcs
          <6>9. answer[r] = "pending"
            BY <6>3 DEF ReaderOK, ReadingPcs
          <6> QED
            BY <5>2, <6>3, <6>4, <6>6, <6>7, <6>8, <6>9 DEF ReaderOK
        <5> QED BY <5>1, <5>2
    <3>4. CASE ~Decodes(at[r], seen[r])
      <4>1. UNCHANGED <<found, todo>> /\ Finish(r, "Corrupt")
        BY <2>7, <3>4 DEF Read
      <4>2. disturbed # {}
        BY <3>1, <3>4 DEF Decodes, SaverInv
      <4> QED
        BY <3>1, <3>2, <4>1, <4>2, <2>7 DEF Read, Finish, ReaderInv, ReaderOK, disk, saver, history,
            ReadingPcs
    <3> QED BY <3>3, <3>4
  <2>8. CASE ReadFails(r)
    BY <2>8 DEF ReadFails, Finish, ReaderInv, ReaderOK, ReadingPcs, SaverInv, NameInv
  <2> QED BY <1>3, <2>1, <2>2, <2>3, <2>4, <2>5, <2>6, <2>7, <2>8 DEF ReadStep
<1>4. ASSUME NEW id \in Ids, Tamper(id) PROVE ReaderInv'
  <2>1. UNCHANGED <<rpc, todo, at, seen, found, answer, owed, published, runId>>
    BY <1>4 DEF Tamper, saver, reader
  <2>2. \/ UNCHANGED <<target, disturbed>>
        \/ disturbed' = disturbed \cup {id} /\ \A j \in Ids \ {id} : target'[j] = target[j]
    BY <1>4 DEF Tamper
  <2>3. CASE UNCHANGED <<target, disturbed>>
    BY <2>1, <2>3, SMTT(60) DEF ReaderInv, ReaderOK
  <2>4. CASE disturbed' = disturbed \cup {id} /\ \A j \in Ids \ {id} : target'[j] = target[j]
    <3>1. id \in disturbed' /\ disturbed \subseteq disturbed' /\ disturbed' # {}
      BY <2>4
    <3> QED
      BY <2>1, <2>4, <3>1 DEF ReaderInv, ReaderOK
  <2> QED BY <2>2, <2>3, <2>4
<1>5. CASE PowerLoss
  BY <1>5, SMTT(60) DEF PowerLoss, Archives, ReaderInv, ReaderOK, ReadingPcs, SaverInv, NameInv
<1>6. CASE UNCHANGED vars
  BY <1>6 DEF ReaderInv, ReaderOK, vars, disk, saver, reader, history
<1> QED BY <1>1, <1>2, <1>3, <1>4, <1>5, <1>6 DEF Next

-----------------------------------------------------------------------------
LEMMA InitInv == Init => IInv
<1> SUFFICES ASSUME Init PROVE IInv
  OBVIOUS
<1> USE ArchiveAssumption DEF Init
<1>1. TypeOK
  <2>1. /\ dir \in BOOLEAN /\ temps \subseteq Savers /\ synced \subseteq Savers
        /\ lock \in [Ids -> Savers \cup {Nobody}] /\ target \in [Ids -> Files \cup {Nobody}]
        /\ text \in [Savers -> {"none", "partial", "complete"}]
    BY DEF Files
  <2>2. /\ pc \in [Savers -> SavingPcs \cup {"idle", "ended", "dead"}]
        /\ runId \in [Savers -> Ids \cup {Nobody}]
        /\ outcome \in [Savers -> Outcomes]
    BY DEF Outcomes
  <2>3. /\ rpc \in [Readers -> ReadingPcs \cup {"idle", "ended", "dead"}]
        /\ todo \in [Readers -> SUBSET Ids] /\ owed \in [Readers -> SUBSET Ids]
        /\ found \in [Readers -> SUBSET (Ids \X Files)]
    OBVIOUS
  <2>4. /\ at \in [Readers -> Ids \cup {Nobody}] /\ seen \in [Readers -> Files \cup {Nobody}]
        /\ answer \in [Readers -> Answers]
    BY DEF Answers
  <2>5. /\ published \subseteq Savers /\ disturbed \subseteq Ids /\ littered \subseteq Savers
        /\ cutShort \subseteq Savers /\ mishaps \in 0..MaxMishaps
    OBVIOUS
  <2> QED BY <2>1, <2>2, <2>3, <2>4, <2>5 DEF TypeOK
<1>2. SaverInv
  BY DEF SaverInv, SavingPcs
<1>3. NameInv /\ LitterInv /\ BatchInv
  BY DEF NameInv, LitterInv, BatchInv, Files
<1>4. ReaderInv
  BY DEF ReaderInv, ReaderOK, ReadingPcs
<1> QED BY <1>1, <1>2, <1>3, <1>4 DEF IInv

(* The invariant of the store, inductive for every value of the constants.  *)
THEOREM StoreInvariant == Spec => []IInv
<1>1. IInv /\ [Next]_vars => IInv'
  BY TypeStep, SaverStep, NameStep, LitterStep, BatchStep, ReaderStep DEF IInv
<1> QED
  BY <1>1, InitInv, PTL DEF Spec

(* Type correctness: a reader records only IDs and files of the directory.  *)
THEOREM TypeCorrect == Spec => []TypeOK
BY StoreInvariant, PTL DEF IInv

(* Whatever crashes, and whenever the power goes, a published name stands   *)
(* for a whole document of its ID: WriteDocument, SyncDocument and Publish  *)
(* happen in this order and a synced file survives.                         *)
THEOREM DocumentsAreWhole == Spec => []PublishedIsComplete
<1>1. IInv => PublishedIsComplete
  BY DEF IInv, TypeOK, SaverInv, NameInv, PublishedIsComplete
<1> QED BY <1>1, StoreInvariant, PTL

(* Every typed outcome of save_archived_test_run is true of the archive.    *)
THEOREM OutcomesTold == Spec => []OutcomesAreTrue
<1>1. IInv => OutcomesAreTrue
  BY DEF IInv, SaverInv, OutcomesAreTrue
<1> QED BY <1>1, StoreInvariant, PTL

(* An exit of save_archived_test_run that is not an interrupt passes the    *)
(* clean-up it needs, and an interrupt skips it in the two known places     *)
(* only.                                                                    *)
THEOREM NoLitter == Spec => []NothingLeftBehind
<1>1. IInv => NothingLeftBehind
  BY DEF IInv, TypeOK, LitterInv, NothingLeftBehind, SavingPcs
<1> QED BY <1>1, StoreInvariant, PTL

(* A batch that fails leaves the runs it had saved in the archive.          *)
THEOREM BatchKeepsItsPast == Spec => []EarlierWritesRemain
<1>1. IInv => EarlierWritesRemain
  BY ArchiveAssumption DEF IInv, SaverInv, BatchInv, EarlierWritesRemain
<1> QED BY <1>1, StoreInvariant, PTL

(* Loads and listings return whole runs under their own IDs.                *)
THEOREM ReadersSafe == Spec => []ReadersSeeWholeRuns
<1>1. IInv => ReadersSeeWholeRuns
  BY DEF IInv, ReaderInv, ReaderOK, ReadersSeeWholeRuns
<1> QED BY <1>1, StoreInvariant, PTL

(* A read that begins after a save has returned sees its run.               *)
THEOREM ReadersCurrent == Spec => []ReadersSeeEarlierSaves
<1>1. IInv => ReadersSeeEarlierSaves
  BY DEF IInv, ReaderInv, ReaderOK, ReadersSeeEarlierSaves
<1> QED BY <1>1, StoreInvariant, PTL

-----------------------------------------------------------------------------
(* What each step of a saver is to the append-only archive.                 *)
LEMMA SaverRefines ==
  ASSUME IInv, NEW s \in Savers, SaveStep(s) \/ Kill(s)
  PROVE  Archive!Next \/ UNCHANGED Archive!vars
<1> USE DEF Archive!vars
<1>0. /\ pc \in [Savers -> SavingPcs \cup {"idle", "ended", "dead"}]
      /\ outcome \in [Savers -> Outcomes]
  BY DEF IInv, TypeOK
(* A step that does not end the save reports nothing, and one that does     *)
(* reports the outcome.                                                     *)
<1>1. ASSUME NEW l, Goto(s, l), l # "ended", pc[s] # "ended",
             \/ outcome' = outcome
             \/ \E o : Report(s, o)
      PROVE  Reported' = Reported
  BY <1>0, <1>1 DEF Goto, Report, Reported
<1>2. ASSUME Goto(s, "ended"), pc[s] # "ended", NEW o \in Outcomes \ {"pending"},
             outcome'[s] = o, \A z \in Savers \ {s} : outcome'[z] = outcome[z],
             o = "Saved" => s \in published,
             s \in published => o \in {"Saved", "Interrupted"},
             UNCHANGED <<target, published, disturbed>>
      PROVE  Archive!Next
  <2>1. Reported[s] = "pending" /\ Reported' = [Reported EXCEPT ![s] = o]
    BY <1>0, <1>2 DEF Goto, Reported
  <2>2. Archive!Answer(s, o)
    BY <1>2, <2>1 DEF Archive!Answer
  <2> QED
    BY <1>2, <2>2 DEF Archive!Next, Archive!Verdicts, Outcomes
<1> USE DEF SavingPcs
<1>3. CASE StartSave(s)
  BY <1>1, <1>3 DEF StartSave, ItsTurn, disk, history
<1>4. CASE MakeDirectory(s)
  BY <1>1, <1>4 DEF MakeDirectory, disk, history
<1>5. CASE AcquireLock(s)
  BY <1>1, <1>5 DEF AcquireLock, disk, history
<1>6. CASE MakeTemporary(s)
  BY <1>1, <1>6 DEF MakeTemporary, disk, history
<1>7. CASE TemporaryOrphaned(s)
  BY <1>1, <1>7 DEF TemporaryOrphaned, CutShort, disk, history
<1>8. CASE WriteDocument(s)
  BY <1>1, <1>8 DEF WriteDocument, disk, history
<1>9. CASE SyncDocument(s)
  BY <1>1, <1>9 DEF SyncDocument, disk, history
<1>10. CASE PublishRefused(s)
  BY <1>1, <1>10 DEF PublishRefused, disk, history
<1>11. CASE UnlinkTemporary(s)
  BY <1>1, <1>11 DEF UnlinkTemporary, disk, history
<1>12. CASE UnlinkFails(s)
  BY <1>1, <1>12 DEF UnlinkFails, disk, history
<1>13. CASE DropTemporary(s)
  BY <1>1, <1>13 DEF DropTemporary, disk, history
<1>14. CASE CheckTarget(s)
  BY <1>1, <1>14 DEF CheckTarget, disk, history
<1>15. CASE Kill(s)
  BY <1>0, <1>15 DEF Kill, Goto, Reported, disk, history
<1>16. CASE Publish(s)
  <2>1. Reported' = Reported
    BY <1>1, <1>16 DEF Publish
  <2>2. Archive!Publish(s, runId[s])
    BY <1>16, <2>1 DEF Publish, Archive!Publish, Reported, IInv, SaverInv
  <2>3. runId[s] \in Ids
    BY <1>16 DEF Publish, IInv, SaverInv
  <2> QED BY <2>2, <2>3 DEF Archive!Next
<1>17. CASE RefuseSave(s)
  BY <1>0, <1>2, <1>17 DEF RefuseSave, ItsTurn, Report, disk, history, IInv, SaverInv, Outcomes
<1>18. CASE LockOrphaned(s)
  BY <1>0, <1>2, <1>18 DEF LockOrphaned, CutShort, Report, disk, history, IInv, SaverInv, Outcomes
<1>19. CASE LockTaken(s)
  BY <1>0, <1>2, <1>19 DEF LockTaken, Report, disk, history, IInv, SaverInv, Outcomes
<1>20. CASE DropLock(s)
  BY <1>0, <1>2, <1>20 DEF DropLock, disk, history, IInv, SaverInv, Outcomes
<1>21. CASE CleanupInterrupted(s)
  BY <1>0, <1>2, <1>21 DEF CleanupInterrupted, CutShort, Report, disk, history, IInv, SaverInv, Outcomes
<1>22. CASE Raise(s)
  <2>1. CASE Cleanup(pc[s]) # "ended"
    BY <1>1, <1>22, <2>1 DEF Raise, disk, history
  <2>2. CASE Cleanup(pc[s]) = "ended"
    BY <1>0, <1>2, <1>22, <2>2 DEF Raise, Cleanup, Report, disk, history, IInv, SaverInv, Outcomes
  <2> QED BY <2>1, <2>2
<1> QED
  BY <1>3, <1>4, <1>5, <1>6, <1>7, <1>8, <1>9, <1>10, <1>11, <1>12, <1>13, <1>14,
     <1>15, <1>16, <1>17, <1>18, <1>19, <1>20, <1>21, <1>22 DEF SaveStep

(* The store implements the append-only archive.                            *)
THEOREM StoreKeepsArchive == Spec => KeepsArchive
<1>1. Init => Archive!Init
  BY DEF Init, Archive!Init, Reported
<1>2. IInv /\ [Next]_vars => [Archive!Next]_(Archive!vars)
  <2> SUFFICES ASSUME IInv, [Next]_vars PROVE Archive!Next \/ UNCHANGED Archive!vars
    OBVIOUS
  <2>1. ASSUME NEW s \in Savers, SaveStep(s) \/ Kill(s) PROVE Archive!Next \/ UNCHANGED Archive!vars
    BY <2>1, SaverRefines
  <2>2. ASSUME NEW r \in Readers, ReadStep(r) PROVE UNCHANGED Archive!vars
    BY <2>2, ReadersOnlyRead DEF Archive!vars, Reported
  <2>3. ASSUME NEW id \in Ids, Tamper(id) PROVE Archive!Next \/ UNCHANGED Archive!vars
    <3>1. CASE UNCHANGED <<target, disturbed>>
      BY <2>3, <3>1 DEF Tamper, saver, Archive!vars, Reported
    <3>2. CASE ~UNCHANGED <<target, disturbed>>
      <4>1. PICK f \in Foreign \cup {Nobody} : target' = [target EXCEPT ![id] = f]
        BY <2>3, <3>2 DEF Tamper
      <4>2. disturbed' = disturbed \cup {id} /\ UNCHANGED <<published, Reported>>
        BY <2>3, <3>2 DEF Tamper, saver, Reported
      <4>3. Archive!Disturb
        BY <4>1, <4>2, ArchiveAssumption DEF Archive!Disturb, IInv, TypeOK, Files
      <4> QED BY <4>3 DEF Archive!Next
    <3> QED BY <3>1, <3>2
  <2>4. CASE PowerLoss
    <3>1. PICK gone \in SUBSET Archives :
            /\ target' = [id \in Ids |-> IF id \in gone THEN Nobody ELSE target[id]]
            /\ disturbed' = disturbed \cup gone
      BY <2>4 DEF PowerLoss
    <3>2. UNCHANGED <<published, Reported>>
      BY <2>4 DEF PowerLoss, Reported, IInv, TypeOK, SavingPcs
    <3>3. Archive!Disturb
      BY <3>1, <3>2, ArchiveAssumption DEF Archive!Disturb, Archives, IInv, TypeOK, Files
    <3> QED BY <3>3 DEF Archive!Next
  <2>5. CASE UNCHANGED vars
    BY <2>5 DEF vars, disk, saver, history, Archive!vars, Reported
  <2> QED BY <2>1, <2>2, <2>3, <2>4, <2>5 DEF Next
<1> QED
  BY <1>1, <1>2, StoreInvariant, PTL DEF Spec, KeepsArchive, Archive!Spec
=============================================================================
