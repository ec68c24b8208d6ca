----------------------------- MODULE MCScreens -----------------------------
(* The screens of the web client for TLC, and the liveness of the inventory.

   The two systems share no state: a behaviour runs one of them and leaves
   the other where it started.  On the Blank screen, which loads nothing and
   offers nothing, the inventory of MCPartInventory runs.                   *)
EXTENDS MCPartInventory, ScreenProtocol, SequencesExt,
        PlatformScreens, TenantScreens, ComplianceScreens, AssetScreens,
        MaintenanceScreens, OperationsScreens, AccountScreens

Catalog == PlatformScreens \cup TenantScreens \cup ComplianceScreens \cup AssetScreens
              \cup MaintenanceScreens \cup OperationsScreens \cup AccountScreens

(* What two acts do to each other, and an act to the loads of its feed, shows
   with two of its acts at a time.                                          *)
Pairs(acts) ==
    { A \in SUBSET acts : Cardinality(A) = Least(Cardinality(acts), 2) }

Blank == [feed |-> FeedShape(NoFeed, Always), acts |-> <<>>]

AllScreens ==
    {Blank} \cup UNION { { [feed |-> s.feed, acts |-> SetToSeq(A)] : A \in Pairs(s.acts) }
                         : s \in Catalog }
-----------------------------------------------------------------------------
InventoryRuns == screen = Blank

ClientInit ==
    /\ MCInit /\ ScreenInit
    /\ ~InventoryRuns => /\ need = CHOOSE n \in OpeningNeeds : TRUE
                         /\ part = CHOOSE p \in OpeningParts \ NoStock : TRUE

ClientNext == \/ InventoryRuns /\ MCNext /\ UNCHANGED screenVars
              \/ ~InventoryRuns /\ ScreenNext /\ UNCHANGED mcvars

ClientSpec == /\ ClientInit /\ [][ClientNext]_<<mcvars, screenVars>>
              /\ Fairness /\ ScreenFairness
-----------------------------------------------------------------------------
(* No spinner and no busy state stays for ever while the screen does: every
   answer, failure or timer ends what its request began, also when another
   request began meanwhile.  A screen has its access token for as long as it is
   mounted (AuthGuard), so no handler returns for want of one.               *)
WaitsEnd ==
    /\ loading ~> (~loading \/ ~mounted)
    /\ \A k \in 0..2 :
          (k \in Locks /\ held[k] # Nothing) ~>
             (k \notin Locks \/ held[k] = Nothing \/ ~mounted)
=============================================================================
