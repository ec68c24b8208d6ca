-------------------------- MODULE OperationsScreens --------------------------
(* The screens that summarize the fleet, the facilities and the regulatory
   register.  A line "\* n-m symbol" names the lines of the component that the
   next definition stands for; paths are relative to src/frontend.          *)
EXTENDS ScreenForms

\* @ app/(app)/dashboard/page.tsx
\* 153-173 DashboardPage: the timeline and the fleet are empty if they fail
DashboardFeeds == { Feed("summary") }
\* 189-330 DashboardPage
DashboardDisplay == [summary |-> Panel]
Dashboard == ReadOnly(DashboardFeeds, DashboardDisplay)

\* @ app/(app)/intelligence/fleet/page.tsx
\* 42-70 FleetIntelligencePage
IntelligenceFeeds == { Feed("intelligence") }
\* 164-262 FleetIntelligencePage
IntelligenceDisplay == [intelligence |-> Panel]
FleetIntelligence == ReadOnly(IntelligenceFeeds, IntelligenceDisplay)

\* @ app/(app)/maintenance/control-center/page.tsx
\* 68-103 MaintenanceControlCenterPage
ControlCenterFeeds == { [Feed("center") EXCEPT !.stale = "ignored", !.onError = "empty"] }
\* 212-300 MaintenanceControlCenterPage
ControlCenterDisplay == [center |-> Panel]
ControlCenter == ReadOnly(ControlCenterFeeds, ControlCenterDisplay)

\* @ app/(app)/maintenance/operations/page.tsx
\* 46-76 RealWorkOrderSnapshot
SnapshotFeeds == { Feed("orders") }
\* 78-110 RealWorkOrderSnapshot
SnapshotDisplay == [orders |-> Panel]
OrderSnapshot == ReadOnly(SnapshotFeeds, SnapshotDisplay)

\* @ app/(app)/maintenance/control-tower/page.tsx
\* 22-49 RealOperationalStateSummary
TowerFeeds == { Feed("summary") }
\* 51-81 RealOperationalStateSummary
TowerDisplay == [summary |-> Panel]
ControlTower == ReadOnly(TowerFeeds, TowerDisplay)

\* @ app/(app)/maintenance/hangar/page.tsx
\* 29-53 RealActiveWorkOrders
HangarFeeds == { Feed("orders") }
\* 55-88 RealActiveWorkOrders
HangarDisplay == [orders |-> Panel]
Hangar == ReadOnly(HangarFeeds, HangarDisplay)

\* @ app/(app)/maintenance/aog-recovery/[aircraftId]/page.tsx
\* 107-154 AogRecoveryPage: the status is read for the aircraft found first
RecoveryFeeds == { [Feed("recovery") EXCEPT !.onError = "empty"] }
\* 229-335 AogRecoveryPage
RecoveryDisplay == [recovery |-> Panel]
AogRecovery == ReadOnly(RecoveryFeeds, RecoveryDisplay)

\* @ app/(app)/facilities/page.tsx
\* 26-55 load
FacilityListFeeds == { Feed("facilities") }
\* 57-92 createFacility
FacilityListActs == { [Act("create") EXCEPT !.reloads = {"facilities"}] }
\* 118-160 RealFacilities
FacilityListOffers == [create |-> Button({"idle"})]
Facilities == Screen(FacilityListFeeds, [facilities |-> Panel], FacilityListActs,
                     FacilityListOffers)

\* @ app/(app)/facilities/[id]/page.tsx
\* 21-55 load
FacilityFeeds == { Feed("facility") }
\* 57-83 save, toggleStatus
FacilityActs == { [Act(n) EXCEPT !.lock = "shared", !.replaces = {"facility"}]
                    : n \in {"save", "status"} }
\* 85-169 RealFacilityDetail
FacilityOffers == [n \in {"save", "status"} |-> Button({"content", "idle"})]
Facility == Screen(FacilityFeeds, [facility |-> Panel], FacilityActs, FacilityOffers)

\* @ app/(app)/compliance/regulatory-register/page.tsx
\* 32-80 RealRegulatoryRegister
RegisterFeeds == { [Feed("register") EXCEPT !.stale = "ignored"] }
\* 82-153 RealRegulatoryRegister
RegisterDisplay == [register |-> Panel]
RegulatoryRegister == ReadOnly(RegisterFeeds, RegisterDisplay)

\* @ app/(app)/compliance/assets/[id]/impact/page.tsx
\* 13-35 refresh
AssetImpactFeeds == { [Feed("impact") EXCEPT !.reissue = {"refresh"}] }
\* 37-50 handleResolveInspection
AssetImpactActs == { [Act("resolve") EXCEPT !.lock = "none", !.reloads = {"impact"},
                                            !.tells = "page"] }
\* 52-120 AssetComplianceImpactPage
AssetImpactDisplay == [impact |-> Panel]
\* 236-287 AssetComplianceImpactPage
AssetImpactOffers == [resolve |-> Button({"content"})]
AssetImpact == Screen(AssetImpactFeeds, AssetImpactDisplay, AssetImpactActs,
                      AssetImpactOffers)

\* @ app/(app)/compliance/inspections/[id]/impact/page.tsx
\* 13-35 refresh
InspectionImpactFeeds == { Feed("impact") }
\* 37-50 handleResolve
InspectionImpactActs == AssetImpactActs
\* 52-140 InspectionComplianceImpactPage
InspectionImpactOffers == [resolve |-> Button({"content"})]
InspectionImpact == Screen(InspectionImpactFeeds, [impact |-> Panel], InspectionImpactActs,
                           InspectionImpactOffers)

OperationsScreens ==
    Dashboard \cup FleetIntelligence \cup ControlCenter \cup OrderSnapshot \cup ControlTower
    \cup Hangar \cup AogRecovery \cup Facilities \cup Facility \cup RegulatoryRegister
    \cup AssetImpact \cup InspectionImpact
=============================================================================
