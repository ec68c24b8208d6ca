--------------------------- MODULE EvidenceFiles ---------------------------
(***************************************************************************)
(* The rows of `evidence_files` and the objects they stand for in the S3   *)
(* bucket: two systems that no transaction spans.  An upload commits a     *)
(* PENDING row, puts the object and commits STORED or FAILED; a delete     *)
(* removes the object and commits DELETED with an audit event; the         *)
(* reconciliation script compares the two and re-issues lost deletes.      *)
(* Every action is one statement, one storage call or one commit, and any  *)
(* request may die between two of them.                                    *)
(*                                                                         *)
(*   api/v1/evidence.py              upload and delete endpoints           *)
(*   evidence_file_service           row transitions                       *)
(*   storage/service.py              put, delete, object_exists            *)
(*   evidence_reconciliation_service, scripts/reconcile_evidence_files.py  *)
(***************************************************************************)
EXTENDS Integers

CONSTANTS
    Files,          \* evidence_files rows, each with its own storage key
    Deleters,       \* DELETE requests
    NoFile          \* a delete request that has not arrived

ASSUME EvidenceFilesAssumption == NoFile \notin Files

VARIABLES
    status,     \* the committed status column
    object,     \* the bucket holds an object under the file's key
    lingering,  \* a put attempt was given up on and may still land
    deletions,  \* committed evidence_file.deleted audit events of the file
    upload,     \* phase of the request that uploads the file
    delete,     \* per DELETE request: its phase and the file it loaded
    scan,       \* the reconciliation run
    asked,      \* history: files a DELETE request has set out to delete
    removed     \* history: files whose storage delete a request saw succeed

vars == <<status, object, lingering, deletions, upload, delete, scan, asked, removed>>

Statuses == {"ABSENT", "PENDING", "STORED", "FAILED", "DELETED"}
UploadPhases == {"idle", "putting", "marking", "failing", "done"}
DeletePhases == {"idle", "checked", "removed", "done"}
ScanPhases == {"idle", "heading", "repairing", "refetched", "redeleted"}
Classes == {"NONE", "CONSISTENT", "NO_ACTION", "SAFE_TO_REPAIR", "MANUAL_REVIEW",
            "INFRASTRUCTURE_FAILURE"}

Deletion == [at : DeletePhases, file : Files \cup {NoFile}]
Scan == [at : ScanPhases, rows : [Files -> Statuses], todo : SUBSET Files,
         found : [Files -> Classes], file : Files \cup {NoFile}]

IdleScan == [at |-> "idle", rows |-> [f \in Files |-> "ABSENT"], todo |-> {},
             found |-> [f \in Files |-> "NONE"], file |-> NoFile]

Init == /\ status = [f \in Files |-> "ABSENT"]
        /\ object = [f \in Files |-> FALSE]
        /\ lingering = [f \in Files |-> FALSE]
        /\ deletions = [f \in Files |-> 0]
        /\ upload = [f \in Files |-> "idle"]
        /\ delete = [d \in Deleters |-> [at |-> "idle", file |-> NoFile]]
        /\ scan = IdleScan
        /\ asked = {} /\ removed = {}

CanTransition(current, target) ==
    <<current, target>> \in {<<"PENDING", "STORED">>, <<"PENDING", "FAILED">>,
                             <<"STORED", "DELETED">>}

bucket == <<object, lingering>>
history == <<asked, removed>>
-----------------------------------------------------------------------------
(* POST /evidence/{id}/files.  Nobody else writes a row its session loaded as
   PENDING, so the loaded status is the one _transition_file checks.       *)

CreatePendingFile(f) ==
    /\ upload[f] = "idle"
    /\ status' = [status EXCEPT ![f] = "PENDING"]
    /\ upload' = [upload EXCEPT ![f] = "putting"]
    /\ UNCHANGED <<bucket, deletions, delete, scan, history>>

PutSucceeds(f) ==
    /\ upload[f] = "putting"
    /\ object' = [object EXCEPT ![f] = TRUE]
    /\ upload' = [upload EXCEPT ![f] = "marking"]
    /\ UNCHANGED <<status, lingering, deletions, delete, scan, history>>

(* Mutant: StorageUploadError is swallowed. *)
PutFailsSwallowed(f) ==
    /\ upload[f] = "putting"
    /\ upload' = [upload EXCEPT ![f] = "marking"]
    /\ UNCHANGED <<status, bucket, deletions, delete, scan, history>>

PutFails(f) ==
    /\ upload[f] = "putting"
    /\ upload' = [upload EXCEPT ![f] = "failing"]
    /\ UNCHANGED <<status, bucket, deletions, delete, scan, history>>

(* _transition_file with the row create_pending_file refreshed. *)
Mark(f, phase, target) ==
    /\ upload[f] = phase /\ CanTransition("PENDING", target)
    /\ status' = [status EXCEPT ![f] = target]
    /\ upload' = [upload EXCEPT ![f] = "done"]
    /\ UNCHANGED <<bucket, deletions, delete, scan, history>>

MarkStored(f) == Mark(f, "marking", "STORED")
MarkFailed(f) == Mark(f, "failing", "FAILED")

CrashUpload(f) ==
    /\ upload[f] \notin {"idle", "done"}
    /\ upload' = [upload EXCEPT ![f] = "done"]
    /\ UNCHANGED <<status, bucket, deletions, delete, scan, history>>

(* botocore gives up on one HTTP attempt and sends another, or raises; the
   attempt it gave up on is still on its way and may reach the bucket.     *)
AttemptTimesOut(f) ==
    /\ upload[f] = "putting" /\ ~lingering[f]
    /\ lingering' = [lingering EXCEPT ![f] = TRUE]
    /\ UNCHANGED <<status, object, deletions, upload, delete, scan, history>>

AttemptLands(f) ==
    /\ lingering[f]
    /\ object' = [object EXCEPT ![f] = TRUE]
    /\ lingering' = [lingering EXCEPT ![f] = FALSE]
    /\ UNCHANGED <<status, deletions, upload, delete, scan, history>>
-----------------------------------------------------------------------------
(* DELETE /evidence/{id}/files/{file}. *)

(* Mutant: only an already deleted file is refused. *)
CheckNotDeleted(d, f) ==
    /\ delete[d].at = "idle" /\ status[f] \notin {"ABSENT", "DELETED"}
    /\ delete' = [delete EXCEPT ![d] = [at |-> "checked", file |-> f]]
    /\ asked' = asked \cup {f}
    /\ UNCHANGED <<status, bucket, deletions, upload, scan, removed>>

CheckStored(d, f) ==
    /\ delete[d].at = "idle" /\ status[f] = "STORED"
    /\ delete' = [delete EXCEPT ![d] = [at |-> "checked", file |-> f]]
    /\ asked' = asked \cup {f}
    /\ UNCHANGED <<status, bucket, deletions, upload, scan, removed>>

DeleteObject(d) ==
    /\ delete[d].at = "checked"
    /\ object' = [object EXCEPT ![delete[d].file] = FALSE]
    /\ delete' = [delete EXCEPT ![d].at = "removed"]
    /\ removed' = removed \cup {delete[d].file}
    /\ UNCHANGED <<status, lingering, deletions, upload, scan, asked>>

(* Mutant: StorageDeleteError is logged and the row marked anyway. *)
DeleteObjectFailsSwallowed(d) ==
    /\ delete[d].at = "checked"
    /\ delete' = [delete EXCEPT ![d].at = "removed"]
    /\ UNCHANGED <<status, bucket, deletions, upload, scan, history>>

(* StorageDeleteError: the object may be gone nevertheless; the row is left. *)
DeleteObjectFails(d) ==
    /\ delete[d].at = "checked"
    /\ object' \in {object, [object EXCEPT ![delete[d].file] = FALSE]}
    /\ delete' = [delete EXCEPT ![d].at = "done"]
    /\ UNCHANGED <<status, lingering, deletions, upload, scan, history>>

(* mark_deleted selects the row again, but the session still holds the object
   CheckStored loaded, and a SELECT does not overwrite loaded attributes: the
   transition is checked against STORED whatever the row says by now.      *)
MarkDeleted(d) ==
    LET f == delete[d].file
    IN  /\ delete[d].at = "removed" /\ CanTransition("STORED", "DELETED")
        /\ status' = [status EXCEPT ![f] = "DELETED"]
        /\ deletions' = [deletions EXCEPT ![f] = @ + 1]
        /\ delete' = [delete EXCEPT ![d].at = "done"]
        /\ UNCHANGED <<bucket, upload, scan, history>>

CrashDelete(d) ==
    /\ delete[d].at \in {"checked", "removed"}
    /\ delete' = [delete EXCEPT ![d].at = "done"]
    /\ UNCHANGED <<status, bucket, deletions, upload, scan, history>>
-----------------------------------------------------------------------------
(* scripts/reconcile_evidence_files.py: scan_evidence_files, apply_repairs. *)

(* Mutant: a FAILED row with an object is repaired too. *)
ClassifyFailedRepairable(row, exists) ==
    CASE row = "STORED"  -> IF exists THEN "CONSISTENT" ELSE "MANUAL_REVIEW"
      [] row = "PENDING" -> "MANUAL_REVIEW"
      [] row \in {"FAILED", "DELETED"} -> IF exists THEN "SAFE_TO_REPAIR" ELSE "NO_ACTION"
      [] OTHER -> "NONE"

Classify(row, exists) ==
    CASE row = "STORED"  -> IF exists THEN "CONSISTENT" ELSE "MANUAL_REVIEW"
      [] row = "PENDING" -> "MANUAL_REVIEW"
      [] row = "FAILED"  -> IF exists THEN "MANUAL_REVIEW" ELSE "NO_ACTION"
      [] row = "DELETED" -> IF exists THEN "SAFE_TO_REPAIR" ELSE "NO_ACTION"
      [] OTHER -> "NONE"

(* One SELECT reads every row; the HEAD requests follow one by one. *)
StartScan ==
    /\ scan.at = "idle"
    /\ scan' = [at |-> "heading", rows |-> status,
                todo |-> {f \in Files : status[f] # "ABSENT"},
                found |-> IdleScan.found, file |-> NoFile]
    /\ UNCHANGED <<status, bucket, deletions, upload, delete, history>>

Record(f, class) ==
    /\ scan.at = "heading" /\ f \in scan.todo
    /\ scan' = [scan EXCEPT !.todo = scan.todo \ {f},
                            !.found = [scan.found EXCEPT ![f] = class]]
    /\ UNCHANGED <<status, bucket, deletions, upload, delete, history>>

HeadObject(f) == Record(f, Classify(scan.rows[f], object[f]))
HeadUnavailable(f) == Record(f, "INFRASTRUCTURE_FAILURE")

StartRepairs ==
    /\ scan.at = "heading" /\ scan.todo = {}
    /\ scan' = [scan EXCEPT !.at = "repairing",
                            !.todo = {f \in Files : scan.found[f] = "SAFE_TO_REPAIR"}]
    /\ UNCHANGED <<status, bucket, deletions, upload, delete, history>>

(* db.get: the scan's objects are gone from the session, so it reads anew. *)
RefetchRow(f) ==
    /\ scan.at = "repairing" /\ f \in scan.todo
    /\ IF status[f] = "DELETED"
       THEN scan' = [scan EXCEPT !.at = "refetched", !.file = f, !.todo = scan.todo \ {f}]
       ELSE scan' = [scan EXCEPT !.todo = scan.todo \ {f}]
    /\ UNCHANGED <<status, bucket, deletions, upload, delete, history>>

DeleteAgain ==
    /\ scan.at = "refetched"
    /\ \/ /\ object' = [object EXCEPT ![scan.file] = FALSE]
          /\ scan' = [scan EXCEPT !.at = "redeleted"]
       \/ /\ object' \in {object, [object EXCEPT ![scan.file] = FALSE]}
          /\ scan' = [scan EXCEPT !.at = "repairing"]
    /\ UNCHANGED <<status, lingering, deletions, upload, delete, history>>

(* The audit event of the repair; neither status nor deleted_at is written. *)
AuditRepair ==
    /\ scan.at = "redeleted"
    /\ scan' = [scan EXCEPT !.at = "repairing"]
    /\ UNCHANGED <<status, bucket, deletions, upload, delete, history>>

(* The script has handled its last anomaly, or dies anywhere. *)
EndScan ==
    /\ scan.at # "idle"
    /\ scan' = IdleScan
    /\ UNCHANGED <<status, bucket, deletions, upload, delete, history>>
-----------------------------------------------------------------------------
UploadStep(f) == \/ CreatePendingFile(f) \/ PutSucceeds(f) \/ PutFails(f)
                 \/ MarkStored(f) \/ MarkFailed(f) \/ CrashUpload(f)
                 \/ AttemptTimesOut(f) \/ AttemptLands(f)
DeleteStep(d) == \/ \E f \in Files : CheckStored(d, f)
                 \/ DeleteObject(d) \/ DeleteObjectFails(d) \/ MarkDeleted(d)
                 \/ CrashDelete(d)
ScanStep == \/ StartScan
            \/ \E f \in Files : HeadObject(f) \/ HeadUnavailable(f) \/ RefetchRow(f)
            \/ StartRepairs \/ DeleteAgain \/ AuditRepair \/ EndScan

Next == \/ \E f \in Files : UploadStep(f)
        \/ \E d \in Deleters : DeleteStep(d)
        \/ ScanStep

Spec == Init /\ [][Next]_vars
-----------------------------------------------------------------------------
TypeOK ==
    /\ status \in [Files -> Statuses]
    /\ object \in [Files -> BOOLEAN] /\ lingering \in [Files -> BOOLEAN]
    /\ deletions \in [Files -> Nat]
    /\ upload \in [Files -> UploadPhases]
    /\ delete \in [Deleters -> Deletion]
    /\ scan \in Scan
    /\ asked \subseteq Files /\ removed \subseteq Files

(* A row is PENDING exactly while its upload runs or since it died, and no
   other request ever finds it asked for.                                  *)
UploadsOK ==
    \A f \in Files :
       /\ upload[f] = "idle" => status[f] = "ABSENT"
       /\ upload[f] \in {"putting", "marking", "failing"} => status[f] = "PENDING"
       /\ upload[f] = "marking" \/ status[f] = "STORED" => object[f] \/ f \in asked
       /\ f \in asked => status[f] \in {"STORED", "DELETED"}

DeletesOK ==
    \A d \in Deleters :
       /\ delete[d].at \in {"checked", "removed"} => delete[d].file \in asked
       /\ delete[d].at = "removed" => delete[d].file \in removed

(* "mark_deleted() only ever runs after this exact object's StorageService
   .delete() call already succeeded" and "no false deleted-successfully audit
   event may exist": the row is DELETED exactly when its deletion is audited,
   and only after the storage delete of that file has succeeded.           *)
DeletionIsReal ==
    \A f \in Files : /\ status[f] = "DELETED" <=> deletions[f] > 0
                     /\ status[f] = "DELETED" => f \in removed

(* A STORED row lost its object only if a DELETE request asked for that: no
   upload, lost attempt or reconciliation run ever causes this desync.     *)
StoredObjectsKept ==
    \A f \in Files : status[f] = "STORED" /\ ~object[f] => f \in asked

(* What a run has classified SAFE_TO_REPAIR stays DELETED until it gets round
   to it ("this can never actually fire under current code").              *)
RepairsAuthorized ==
    /\ \A f \in Files : scan.rows[f] = "DELETED" => status[f] = "DELETED"
    /\ \A f \in Files : scan.found[f] = "SAFE_TO_REPAIR" => status[f] = "DELETED"
    /\ scan.at \in {"refetched", "redeleted"} =>
          scan.file \in Files /\ status[scan.file] = "DELETED"

EvidenceFilesInv == /\ TypeOK /\ UploadsOK /\ DeletesOK /\ DeletionIsReal
                    /\ StoredObjectsKept /\ RepairsAuthorized

(* The status column follows the transition table even though the checks are
   made on rows loaded before a storage call: nothing leaves FAILED or
   DELETED, no deleted file comes back.                                    *)
LifecycleRespected ==
    [][\A f \in Files : status'[f] # status[f] =>
          \/ status[f] = "ABSENT" /\ status'[f] = "PENDING"
          \/ CanTransition(status[f], status'[f])]_vars
=============================================================================
