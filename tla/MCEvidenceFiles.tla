-------------------------- MODULE MCEvidenceFiles --------------------------
(* Small instances of EvidenceFiles for TLC. *)
EXTENDS EvidenceFiles, FiniteSets, TLC

Symmetric == Permutations(Files) \cup Permutations(Deleters)

(* The scenario of a behaviour, fixed at its start:
     "lingering"  put attempts the client gave up on may land later;
     "prompt"     every put attempt reaches the bucket before put() returns;
     "serial"     as "prompt", and one DELETE request at a time, its retries
                  after a failure or crash included.                         *)
CONSTANT Scenarios
VARIABLE scenario

OneDeleteAtATime ==
    Cardinality({d \in Deleters : delete[d].at \in {"checked", "removed"}}) <= 1

MCInit == Init /\ scenario \in Scenarios

MCNext == /\ Next
          /\ scenario # "lingering" => UNCHANGED lingering
          /\ scenario = "serial" => OneDeleteAtATime'
          /\ UNCHANGED scenario

MCSpec == MCInit /\ [][MCNext]_<<vars, scenario>>
-----------------------------------------------------------------------------
(* "DELETED + missing: the expected, healthy shape of a DELETED row": where
   every put attempt reaches the bucket before put() returns, a DELETED row
   never has an object.                                                    *)
DeletedIsGone ==
    scenario # "lingering" => \A f \in Files : status[f] = "DELETED" => ~object[f]

(* "a repeat delete attempt on an already deleted file is rejected [...] rather
   than silently succeeding a second time or calling StorageService.delete()
   again": a file is deleted, and audited as deleted, once.                *)
DeletedOnce == \A f \in Files : deletions[f] <= 1

(* The same promise for DELETE requests that do not overlap. *)
DeletedOnceSerially == scenario = "serial" => DeletedOnce
=============================================================================
