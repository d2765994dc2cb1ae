-------------------------- MODULE AppendOnlyArchive --------------------------
(***************************************************************************)
(* What the result archive promises to the callers of its saver: a run ID   *)
(* holds at most one document, a document appears in one atomic step and is *)
(* never replaced or removed by a save, and the outcome a save reports is   *)
(* the truth about its own document.  Only the environment (someone editing *)
(* the directory by hand, a power loss) can take a document away.           *)
(***************************************************************************)
CONSTANTS Savers,   \* calls of save_archived_test_run
          Ids,      \* run IDs
          Files,    \* every file a name may stand for: the Savers' own, and others
          Nobody    \* no file

VARIABLES docs,      \* the document each run ID holds
          published, \* the saves whose document has been in the archive
          verdict,   \* what each save has reported
          disturbed  \* the IDs something other than a save has touched

vars == <<docs, published, verdict, disturbed>>

Verdicts == {"pending", "Saved", "AlreadyExists", "StorageError", "Refused", "Interrupted"}

TypeOK == /\ docs \in [Ids -> Files \cup {Nobody}]
          /\ published \subseteq Savers
          /\ verdict \in [Savers -> Verdicts]
          /\ disturbed \subseteq Ids

Init == /\ docs = [id \in Ids |-> Nobody]
        /\ published = {}
        /\ verdict = [s \in Savers |-> "pending"]
        /\ disturbed = {}

(* A document is added under an ID that holds none, once per save.          *)
Publish(s, id) ==
  /\ docs[id] = Nobody
  /\ s \notin published
  /\ verdict[s] = "pending"
  /\ docs' = [docs EXCEPT ![id] = s]
  /\ published' = published \cup {s}
  /\ UNCHANGED <<verdict, disturbed>>

(* A save reports success exactly when its document went in; an interrupt   *)
(* (the caller's own Ctrl-C) says nothing about it.                         *)
Answer(s, v) ==
  /\ verdict[s] = "pending"
  /\ v # "pending"
  /\ v = "Saved" => s \in published
  /\ s \in published => v \in {"Saved", "Interrupted"}
  /\ verdict' = [verdict EXCEPT ![s] = v]
  /\ UNCHANGED <<docs, published, disturbed>>

(* The environment removes documents or puts foreign files in their place;  *)
(* the promise no longer covers an ID it has touched.                       *)
Disturb ==
  /\ docs' \in [Ids -> Files \cup {Nobody}]
  /\ disturbed \subseteq disturbed'
  /\ disturbed' \subseteq Ids
  /\ \A id \in Ids : docs'[id] # docs[id] => id \in disturbed' /\ docs'[id] \notin Savers
  /\ UNCHANGED <<published, verdict>>

Next == \/ \E s \in Savers : \/ \E id \in Ids : Publish(s, id)
                             \/ \E v \in Verdicts : Answer(s, v)
        \/ Disturb

Spec == Init /\ [][Next]_vars
=============================================================================
