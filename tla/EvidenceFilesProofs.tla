------------------------ MODULE EvidenceFilesProofs ------------------------
(***************************************************************************)
(* Theorems about EvidenceFiles, for every set of files and requests.  The *)
(* invariant relates three actors that never lock anything: it holds       *)
(* because a row is written only by the actor whose phase it corresponds   *)
(* to, and because FAILED and DELETED are never left.  The last part is    *)
(* about what the code promises only where no put attempt lands late, or   *)
(* where DELETE requests do not overlap.                                   *)
(***************************************************************************)
EXTENDS MCEvidenceFiles, FiniteSetTheorems, TLAPS

USE EvidenceFilesAssumption DEF EvidenceFilesAssumption

(* The initial rows satisfy the invariant. *)
LEMMA InitInv == Init => EvidenceFilesInv
  BY DEF Init, EvidenceFilesInv, TypeOK, UploadsOK, DeletesOK, DeletionIsReal,
         StoredObjectsKept, RepairsAuthorized, Scan, IdleScan, Deletion, Statuses,
         UploadPhases, DeletePhases, ScanPhases, Classes

(* An upload only writes a row that no delete request or repair can see. *)
LEMMA UploadKeepsInv ==
  ASSUME EvidenceFilesInv, NEW f \in Files, UploadStep(f)
  PROVE  EvidenceFilesInv'
  <1> USE DEF EvidenceFilesInv, TypeOK, UploadsOK, DeletesOK, DeletionIsReal,
              StoredObjectsKept, RepairsAuthorized, Statuses, UploadPhases, bucket,
              history
  <1>1. CASE CreatePendingFile(f)
    BY <1>1 DEF CreatePendingFile, Scan
  <1>2. CASE PutSucceeds(f)
    BY <1>2 DEF PutSucceeds
  <1>3. CASE PutFails(f)
    BY <1>3 DEF PutFails
  <1>4. CASE MarkStored(f)
    BY <1>4 DEF MarkStored, Mark
  <1>5. CASE MarkFailed(f)
    BY <1>5 DEF MarkFailed, Mark
  <1>6. CASE CrashUpload(f)
    BY <1>6 DEF CrashUpload
  <1>7. CASE AttemptTimesOut(f)
    BY <1>7 DEF AttemptTimesOut
  <1>8. CASE AttemptLands(f)
    BY <1>8 DEF AttemptLands
  <1> QED BY <1>1, <1>2, <1>3, <1>4, <1>5, <1>6, <1>7, <1>8 DEF UploadStep

(* A delete request changes the row of a file it was asked to delete. *)
LEMMA DeleteKeepsInv ==
  ASSUME EvidenceFilesInv, NEW d \in Deleters, DeleteStep(d)
  PROVE  EvidenceFilesInv'
  <1> USE DEF EvidenceFilesInv, TypeOK, UploadsOK, DeletesOK, DeletionIsReal,
              StoredObjectsKept, RepairsAuthorized, Statuses, Deletion, DeletePhases,
              bucket, history
  <1>1. ASSUME NEW f \in Files, CheckStored(d, f)
        PROVE  EvidenceFilesInv'
    BY <1>1 DEF CheckStored
  <1>2. CASE DeleteObject(d)
    BY <1>2 DEF DeleteObject
  <1>3. CASE DeleteObjectFails(d)
    <2>1. CASE UNCHANGED object
      BY <1>3, <2>1 DEF DeleteObjectFails
    <2>2. CASE object' = [object EXCEPT ![delete[d].file] = FALSE]
      BY <1>3, <2>2 DEF DeleteObjectFails
    <2> QED BY <1>3, <2>1, <2>2 DEF DeleteObjectFails
  <1>4. CASE MarkDeleted(d)
    BY <1>4 DEF MarkDeleted
  <1>5. CASE CrashDelete(d)
    BY <1>5 DEF CrashDelete
  <1> QED BY <1>1, <1>2, <1>3, <1>4, <1>5 DEF DeleteStep

(* A reconciliation run removes objects of DELETED rows and writes no row. *)
LEMMA ScanKeepsInv ==
  ASSUME EvidenceFilesInv, ScanStep
  PROVE  EvidenceFilesInv'
  <1> USE DEF EvidenceFilesInv, TypeOK, UploadsOK, DeletesOK, DeletionIsReal,
              StoredObjectsKept, RepairsAuthorized, Scan, ScanPhases, Classes, IdleScan,
              Statuses, bucket, history
  <1>1. CASE StartScan
    <2>1. /\ scan'.at = "heading" /\ scan'.rows = status
          /\ \A f \in Files : scan'.found[f] = "NONE"
          /\ scan' \in Scan
      BY <1>1 DEF StartScan
    <2> QED BY <1>1, <2>1 DEF StartScan
  <1>2. ASSUME NEW f \in Files, HeadObject(f) \/ HeadUnavailable(f)
        PROVE  EvidenceFilesInv'
    <2>1. PICK class \in Classes : /\ Record(f, class)
                                   /\ class = "SAFE_TO_REPAIR" => scan.rows[f] = "DELETED"
      BY <1>2 DEF HeadObject, HeadUnavailable, Classify
    <2>2. /\ scan'.at = scan.at /\ scan'.rows = scan.rows /\ scan'.file = scan.file
          /\ scan'.found = [scan.found EXCEPT ![f] = class]
          /\ scan' \in Scan
      BY <2>1 DEF Record
    <2> QED BY <2>1, <2>2 DEF Record
  <1>3. ASSUME NEW f \in Files, RefetchRow(f)
        PROVE  EvidenceFilesInv'
    <2>1. /\ scan' \in Scan /\ scan'.rows = scan.rows /\ scan'.found = scan.found
          /\ scan'.at \in {"refetched", "redeleted"} =>
                scan'.file = f /\ status[f] = "DELETED"
      <3> DEFINE rest == [scan EXCEPT !.todo = scan.todo \ {f}]
                 here == [rest EXCEPT !.file = f]
      <3>1. /\ rest \in Scan /\ rest.at = scan.at
            /\ rest.rows = scan.rows /\ rest.found = scan.found
        OBVIOUS
      <3> HIDE DEF rest
      <3>2. here \in Scan /\ here.file = f /\ here.rows = rest.rows /\ here.found = rest.found
        BY <3>1
      <3> HIDE DEF here
      <3>3. scan' = rest \/ (scan' = [here EXCEPT !.at = "refetched"] /\ status[f] = "DELETED")
        <4>1. CASE status[f] = "DELETED"
          <5> SUFFICES [scan EXCEPT !.at = "refetched", !.file = f, !.todo = scan.todo \ {f}]
                         = [here EXCEPT !.at = "refetched"]
            BY <1>3, <4>1 DEF RefetchRow
          <5> QED BY DEF here, rest
        <4> QED BY <1>3, <4>1 DEF RefetchRow, rest
      <3> QED BY <1>3, <3>1, <3>2, <3>3 DEF RefetchRow
    <2> QED BY <1>3, <2>1 DEF RefetchRow
  <1>4. CASE StartRepairs
    <2> DEFINE rest == [scan EXCEPT !.todo = {f \in Files : scan.found[f] = "SAFE_TO_REPAIR"}]
    <2>1. rest \in Scan /\ rest.rows = scan.rows /\ rest.found = scan.found
      OBVIOUS
    <2> HIDE DEF rest
    <2>2. scan' = [rest EXCEPT !.at = "repairing"]
      BY <1>4 DEF StartRepairs, rest
    <2>3. /\ scan' \in Scan /\ scan'.rows = scan.rows /\ scan'.found = scan.found
          /\ scan'.at = "repairing"
      BY <2>1, <2>2
    <2> QED BY <1>4, <2>3 DEF StartRepairs
  <1>5. CASE DeleteAgain
    <2>1. \E at \in {"redeleted", "repairing"} : scan' = [scan EXCEPT !.at = at]
      BY <1>5 DEF DeleteAgain
    <2>2. /\ scan' \in Scan /\ scan'.rows = scan.rows /\ scan'.found = scan.found
          /\ scan'.file = scan.file /\ scan.at = "refetched"
      BY <1>5, <2>1 DEF DeleteAgain
    <2>3. object' \in {object, [object EXCEPT ![scan.file] = FALSE]}
      BY <1>5 DEF DeleteAgain
    <2>4. /\ object' \in [Files -> BOOLEAN]
          /\ \A f \in Files : f # scan.file => object'[f] = object[f]
      <3>1. object \in [Files -> BOOLEAN]
        OBVIOUS
      <3> HIDE DEF EvidenceFilesInv
      <3> QED BY ONLY <2>3, <3>1
    <2>5. status[scan.file] = "DELETED" /\ scan.file \in Files
      BY <2>2
    <2> QED BY <1>5, <2>2, <2>4, <2>5 DEF DeleteAgain
  <1>6. CASE AuditRepair
    BY <1>6 DEF AuditRepair
  <1>7. CASE EndScan
    BY <1>7 DEF EndScan
  <1> QED BY <1>1, <1>2, <1>3, <1>4, <1>5, <1>6, <1>7 DEF ScanStep

(* The invariant of the component: uploads, deletes, lost put attempts,
   crashes and reconciliation runs in any order keep rows, bucket, audit
   events and the running requests in agreement.                           *)
THEOREM EvidenceFilesInvariant == Spec => []EvidenceFilesInv
  <1>1. EvidenceFilesInv /\ [Next]_vars => EvidenceFilesInv'
    <2> SUFFICES ASSUME EvidenceFilesInv, [Next]_vars PROVE EvidenceFilesInv'
      OBVIOUS
    <2>1. CASE UNCHANGED vars
      BY <2>1 DEF vars, EvidenceFilesInv, TypeOK, UploadsOK, DeletesOK, DeletionIsReal,
                  StoredObjectsKept, RepairsAuthorized
    <2> QED BY <2>1, UploadKeepsInv, DeleteKeepsInv, ScanKeepsInv DEF Next
  <1> QED BY <1>1, InitInv, PTL DEF Spec

(* A DELETED row has a deletion audit event and a storage delete behind it,
   and no file without them is reported deleted.                           *)
THEOREM DeletionsAreReal == Spec => []DeletionIsReal
  BY EvidenceFilesInvariant, PTL DEF EvidenceFilesInv

(* A STORED row only loses its object to a DELETE request. *)
THEOREM StoredObjectsAreKept == Spec => []StoredObjectsKept
  BY EvidenceFilesInvariant, PTL DEF EvidenceFilesInv

(* What a run classified SAFE_TO_REPAIR is still DELETED when it gets to it. *)
THEOREM RepairsAreAuthorized == Spec => []RepairsAuthorized
  BY EvidenceFilesInvariant, PTL DEF EvidenceFilesInv

(* The status column only moves along the transition table, although every
   check is made on a row loaded before the storage call.                  *)
THEOREM LifecycleIsRespected == Spec => LifecycleRespected
  <1> DEFINE Step == \A f \in Files : status'[f] # status[f] =>
                        \/ status[f] = "ABSENT" /\ status'[f] = "PENDING"
                        \/ CanTransition(status[f], status'[f])
  <1>1. EvidenceFilesInv /\ [Next]_vars => [Step]_vars
    <2> SUFFICES ASSUME EvidenceFilesInv, Next, NEW f \in Files, status'[f] # status[f]
                 PROVE  \/ status[f] = "ABSENT" /\ status'[f] = "PENDING"
                        \/ CanTransition(status[f], status'[f])
      BY DEF vars
    <2> USE DEF EvidenceFilesInv, TypeOK, UploadsOK, DeletesOK, CanTransition
    <2>1. ASSUME NEW g \in Files, UploadStep(g)
          PROVE  \/ status[f] = "ABSENT" /\ status'[f] = "PENDING"
                 \/ CanTransition(status[f], status'[f])
      BY <2>1 DEF UploadStep, CreatePendingFile, PutSucceeds, PutFails, MarkStored, MarkFailed,
                  Mark, CrashUpload, AttemptTimesOut, AttemptLands
    <2>2. ASSUME NEW d \in Deleters, DeleteStep(d) PROVE CanTransition(status[f], status'[f])
      BY <2>2 DEF DeleteStep, CheckStored, DeleteObject, DeleteObjectFails, MarkDeleted,
                  CrashDelete
    <2>3. CASE ScanStep
      BY <2>3 DEF ScanStep, StartScan, HeadObject, HeadUnavailable, Record, RefetchRow, StartRepairs,
                  DeleteAgain, AuditRepair, EndScan
    <2> QED BY <2>1, <2>2, <2>3 DEF Next
  <1> QED BY <1>1, EvidenceFilesInvariant, PTL DEF Spec, LifecycleRespected
-----------------------------------------------------------------------------
(* Where every put attempt reaches the bucket before put() returns, nothing
   puts an object again once a DELETE request has seen it removed.         *)
GoneInv ==
    scenario # "lingering" =>
       /\ \A f \in Files : ~lingering[f] /\ (status[f] = "DELETED" => ~object[f])
       /\ \A d \in Deleters : delete[d].at = "removed" => ~object[delete[d].file]

(* A DELETE request between its check and its commit. *)
Deleting(d) == delete[d].at \in {"checked", "removed"}

(* One DELETE request at a time: the row it checked is still STORED. *)
OnceInv ==
    scenario = "serial" =>
       /\ \A d, e \in Deleters : Deleting(d) /\ Deleting(e) => d = e
       /\ \A d \in Deleters : Deleting(d) => status[delete[d].file] = "STORED"
       /\ \A f \in Files : deletions[f] <= 1

(* Every scenario's behaviours are behaviours of the component. *)
LEMMA ScenariosAreBehaviours == MCSpec => Spec
  <1>1. [MCNext]_<<vars, scenario>> => [Next]_vars
    BY DEF MCNext
  <1> QED BY <1>1, PTL DEF MCSpec, MCInit, Spec

LEMMA InitGoneOnce == MCInit => GoneInv /\ OnceInv
  BY DEF MCInit, Init, GoneInv, OnceInv, Deleting

(* Only an upload in flight puts an object, and its row is still PENDING. *)
LEMMA GoneIsKept ==
  ASSUME EvidenceFilesInv, GoneInv, MCNext, scenario # "lingering"
  PROVE  GoneInv'
  <1> USE DEF EvidenceFilesInv, TypeOK, UploadsOK, DeletesOK, GoneInv, Deletion,
              DeletePhases, Statuses, UploadPhases, bucket, history
  <1>1. scenario' = scenario /\ lingering' = lingering /\ Next
    BY DEF MCNext
  <1>2. ASSUME NEW f \in Files, UploadStep(f)
        PROVE  GoneInv'
    <2>1. /\ UNCHANGED <<delete, asked>>
          /\ \A g \in Files : object'[g] # object[g] => g \notin asked /\ status'[g] = "PENDING"
          /\ \A g \in Files : status'[g] = "DELETED" => status[g] = "DELETED"
      BY <1>1, <1>2 DEF UploadStep, CreatePendingFile, PutSucceeds, PutFails, MarkStored, MarkFailed,
              Mark, CrashUpload, AttemptTimesOut, AttemptLands
    <2>2. \A d \in Deleters : delete[d].at = "removed" =>
             delete[d].file \in asked /\ delete[d].file \in Files
      OBVIOUS
    <2> QED BY <1>1, <2>1, <2>2
  <1>3. ASSUME NEW d \in Deleters, DeleteStep(d)
        PROVE  GoneInv'
    <2>1. ASSUME NEW f \in Files, CheckStored(d, f) PROVE GoneInv'
      BY <1>1, <2>1 DEF CheckStored
    <2>2. CASE DeleteObject(d)
      BY <1>1, <2>2 DEF DeleteObject
    <2>3. CASE DeleteObjectFails(d)
      BY <1>1, <2>3 DEF DeleteObjectFails
    <2>4. CASE MarkDeleted(d)
      BY <1>1, <2>4 DEF MarkDeleted
    <2>5. CASE CrashDelete(d)
      BY <1>1, <2>5 DEF CrashDelete
    <2> QED BY <1>3, <2>1, <2>2, <2>3, <2>4, <2>5 DEF DeleteStep
  <1>4. CASE ScanStep
    <2>1. /\ UNCHANGED <<status, delete>>
          /\ \E f \in Files \cup {NoFile} : object' \in {object, [object EXCEPT ![f] = FALSE]}
      BY <1>4 DEF ScanStep, StartScan, HeadObject, HeadUnavailable, Record, RefetchRow,
                  StartRepairs, DeleteAgain, AuditRepair, EndScan, Scan
    <2>2. \A f \in Files : object'[f] => object[f]
      BY <2>1
    <2>3. \A d \in Deleters : delete[d].at = "removed" => delete[d].file \in Files
      OBVIOUS
    <2> QED BY ONLY GoneInv, <1>1, <2>1, <2>2, <2>3 DEF GoneInv
  <1> QED BY <1>1, <1>2, <1>3, <1>4 DEF Next

(* A step starts at most one DELETE request, so the requests in progress are
   finitely many and a count of one leaves no room for two.                *)
LEMMA OneDeleteMeansOne ==
  ASSUME NEW d \in Deleters,
         \A a, b \in Deleters : Deleting(a) /\ Deleting(b) => a = b,
         \A e \in Deleters : Deleting(e)' => e = d \/ Deleting(e),
         OneDeleteAtATime'
  PROVE  \A a, b \in Deleters : Deleting(a)' /\ Deleting(b)' => a = b
  <1> SUFFICES ASSUME NEW a \in Deleters, NEW b \in Deleters,
                      Deleting(a)', Deleting(b)', a # b
               PROVE  FALSE
    OBVIOUS
  <1> DEFINE Now == {e \in Deleters : delete'[e].at \in {"checked", "removed"}}
  <1>1. Now \subseteq {a, b}
    BY DEF Deleting
  <1>2. {a, b} \subseteq Now
    BY DEF Deleting
  <1>3. IsFiniteSet({a}) /\ Cardinality({a}) = 1
    BY FS_Singleton
  <1>4. Cardinality({a} \cup {b}) = 2
    BY <1>3, FS_AddElement
  <1>5. Now = {a} \cup {b}
    BY <1>1, <1>2
  <1>6. Cardinality(Now) <= 1
    BY DEF OneDeleteAtATime
  <1> HIDE DEF Now
  <1> QED BY <1>4, <1>5, <1>6

(* The row a lone DELETE request checked stays STORED until it marks it. *)
LEMMA OnceIsKept ==
  ASSUME EvidenceFilesInv, OnceInv, MCNext, scenario = "serial"
  PROVE  OnceInv'
  <1> USE DEF EvidenceFilesInv, TypeOK, UploadsOK, DeletesOK, DeletionIsReal, OnceInv, Deleting,
              Deletion, DeletePhases, Statuses, UploadPhases, bucket, history
  <1>1. scenario' = scenario /\ OneDeleteAtATime' /\ Next
    BY DEF MCNext
  <1>2. ASSUME NEW f \in Files, UploadStep(f)
        PROVE  OnceInv'
    <2>1. /\ UNCHANGED <<delete, deletions>>
          /\ \A g \in Files : status'[g] # status[g] => status[g] # "STORED"
      BY <1>2 DEF UploadStep, CreatePendingFile, PutSucceeds, PutFails, MarkStored, MarkFailed,
              Mark, CrashUpload, AttemptTimesOut, AttemptLands
    <2>2. \A d \in Deleters : Deleting(d) => delete[d].file \in Files
      OBVIOUS
    <2> QED BY ONLY OnceInv, <1>1, <2>1, <2>2 DEF OnceInv, Deleting
  <1>3. ASSUME NEW d \in Deleters, DeleteStep(d)
        PROVE  OnceInv'
    <2>1. \A e \in Deleters : e # d => delete'[e] = delete[e]
      BY <1>3 DEF DeleteStep, CheckStored, DeleteObject, DeleteObjectFails, MarkDeleted,
                  CrashDelete
    <2>2. \A a, b \in Deleters : Deleting(a)' /\ Deleting(b)' => a = b
      BY <1>1, <2>1, OneDeleteMeansOne
    <2>3. ASSUME NEW f \in Files, CheckStored(d, f) PROVE OnceInv'
      BY <1>1, <2>2, <2>3 DEF CheckStored
    <2>4. CASE DeleteObject(d) \/ DeleteObjectFails(d) \/ CrashDelete(d)
      BY <1>1, <2>2, <2>4 DEF DeleteObject, DeleteObjectFails, CrashDelete
    <2>5. CASE MarkDeleted(d)
      BY <1>1, <2>2, <2>5 DEF MarkDeleted
    <2> QED BY <1>3, <2>3, <2>4, <2>5 DEF DeleteStep
  <1>4. CASE ScanStep
    <2>1. UNCHANGED <<status, delete, deletions>>
      BY <1>4 DEF ScanStep, StartScan, HeadObject, HeadUnavailable, Record, RefetchRow,
                  StartRepairs, DeleteAgain, AuditRepair, EndScan
    <2> QED BY ONLY OnceInv, <1>1, <2>1 DEF OnceInv, Deleting
  <1> QED BY <1>1, <1>2, <1>3, <1>4 DEF Next

(* Both parts together, over every step of the scenarios. *)
LEMMA ScenarioInvariant == MCSpec => [](GoneInv /\ OnceInv)
  <1>1. EvidenceFilesInv /\ GoneInv /\ OnceInv /\ [MCNext]_<<vars, scenario>>
           => GoneInv' /\ OnceInv'
    <2> SUFFICES ASSUME EvidenceFilesInv, GoneInv, OnceInv, [MCNext]_<<vars, scenario>>
                 PROVE  GoneInv' /\ OnceInv'
      OBVIOUS
    <2>1. CASE UNCHANGED <<vars, scenario>>
      BY <2>1 DEF vars, GoneInv, OnceInv, Deleting
    <2>2. CASE MCNext
      <3>1. scenario' = scenario
        BY <2>2 DEF MCNext
      <3>2. GoneInv'
        BY <2>2, <3>1, GoneIsKept DEF GoneInv
      <3>3. OnceInv'
        BY <2>2, <3>1, OnceIsKept DEF OnceInv
      <3> QED BY <3>2, <3>3
    <2> QED BY <2>1, <2>2
  <1> QED BY <1>1, InitGoneOnce, ScenariosAreBehaviours, EvidenceFilesInvariant, PTL
          DEF MCSpec

(* Where no put attempt lands late, a DELETED row never has an object. *)
THEOREM DeletedFilesAreGone == MCSpec => []DeletedIsGone
  <1>1. GoneInv => DeletedIsGone
    BY DEF GoneInv, DeletedIsGone
  <1> QED BY <1>1, ScenarioInvariant, PTL

(* DELETE requests that do not overlap delete a file, and audit it, once. *)
THEOREM DeletedOnceOneAtATime == MCSpec => []DeletedOnceSerially
  <1>1. OnceInv => DeletedOnceSerially
    BY DEF OnceInv, DeletedOnceSerially, DeletedOnce
  <1> QED BY <1>1, ScenarioInvariant, PTL
=============================================================================
