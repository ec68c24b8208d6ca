---------------------------- MODULE AssetScreens ----------------------------
(* The screens of assets, aircraft and drones.  A line "\* n-m symbol" names
   the lines of the component that the next definition stands for; paths are
   relative to src/frontend.                                                *)
EXTENDS ScreenForms, Sequences

\* @ components/assets/AssetRegistrationModal.tsx
\* 28-174 handleFormSubmit
RegisterAct == [Act("register") EXCEPT !.reloads = {"assets"}, !.leaves = TRUE]
\* 176-374 AssetRegistrationModal
RegisterOffer == ClosableModal({"idle"})

\* @ app/(app)/tenant/fleet/page.tsx
\* 108-160 fetchRealAssets
FleetFeeds == { Feed("assets") }
\* 205-219 TenantFleetPage
FleetDisplay == [assets |-> Always]
Fleet == Screen(FleetFeeds, FleetDisplay, {RegisterAct}, [register |-> RegisterOffer])

\* @ app/(app)/assets/page.tsx
\* 328-390 fetchAssets
AssetsFeeds == { Feed("assets") }
\* 607-630 RealAssets
AssetsDisplay == [assets |-> Panel]
Assets == Screen(AssetsFeeds, AssetsDisplay, {RegisterAct}, [register |-> RegisterOffer])

\* @ app/(app)/assets/[id]/page.tsx
\* 86-253 InstallComponentModal
InstallOffer == ClosableModal({"content", "idle"})
\* 255-371 LogFlightModal
LogFlightOffer == ClosableModal({"content", "idle"})
\* 430-499 AssetDetailPage
AssetFeeds == { Feed("components"), Feed("configuration"), Feed("operations") }
\* 501-577 handleInstallComponent, handleRemoveComponent, handleLogFlight
AssetActs ==
    { [Act("install") EXCEPT !.replaces = {"components"}, !.reloads = {"configuration"},
                             !.quiet = TRUE, !.spans = "reload", !.closes = "reloaded"],
      [Act("remove") EXCEPT !.lock = "none", !.replaces = {"components"},
                            !.reloads = {"configuration"}, !.quiet = TRUE,
                            !.tells = "nobody"],
      [Act("flight") EXCEPT !.reloads = {"operations"}, !.quiet = TRUE,
                            !.spans = "reload", !.closes = "reloaded"] }
\* 579-600 AssetDetailPage
AssetDisplay == [n \in {"components", "configuration", "operations"} |-> Panel]
\* 843-1030 AssetDetailPage
AssetOffers == [remove |-> Button({"content"}), install |-> InstallOffer,
                flight |-> LogFlightOffer]
Asset == Screen(AssetFeeds, AssetDisplay, AssetActs, AssetOffers)

\* @ app/(app)/drones/page.tsx
\* 256-286 RealDrones
DronesFeeds == { Feed("assets") }
\* 288-306 createDrone
DronesActs == { RegisterAct, [Act("create") EXCEPT !.reloads = {"assets"}] }
\* 388-429 RealDrones
DronesDisplay == [assets |-> Panel]
\* 335-390 RealDrones
DronesOffers == [create |-> Button({"idle"}), register |-> RegisterOffer]
Drones == Screen(DronesFeeds, DronesDisplay, DronesActs, DronesOffers)

\* @ app/(app)/drones/[id]/page.tsx
\* 57-82 DroneFindingsPanel
DroneFindingsFeeds == { Feed("findings") }
\* 84-121 submitFinding, closeFinding, dispositionFinding
FindingsActs ==
    { [Act("submit") EXCEPT !.reloads = {"findings"}, !.tells = "page"],
      [Act("close") EXCEPT !.lock = "none", !.reloads = {"findings"}, !.tells = "page"],
      [Act("dispose") EXCEPT !.lock = "none", !.reloads = {"findings"}, !.tells = "page"] }
\* 123-202 DroneFindingsPanel
DroneFindingsOffers == [submit |-> ClosableInline({"idle"}), close |-> Button({"content"}),
                        dispose |-> Button({"content"})]
DroneFindings == Screen(DroneFindingsFeeds, [findings |-> Panel], FindingsActs,
                        DroneFindingsOffers)

\* 204-249 RealDroneDetail
DroneFeeds == { [Feed("flights") EXCEPT !.reissue = {"idle input"}] }
              \cup { Feed(n) : n \in {"drone", "batteries", "components", "maintenance",
                                      "missions", "compliance"} }
\* 251-343 loadMissions, loadMaintenance, loadBatteryMaintenance, loadComponentMaintenance, loadFlights
DroneCovers ==
    [n \in {"drone", "batteries", "components", "maintenance"} |-> Panel]
    @@ [n \in {"missions", "compliance"} |-> Spinner] @@ [flights |-> {"failed"}]
\* @ components/maintenance/MaintenanceSection.tsx
\* 36-86 MaintenanceItemCard
AccomplishAct(feed) == [Act("done " \o feed) EXCEPT !.lock = "each", !.spans = "reload",
                                                   !.reloads = {feed}]
\* 97-157 createAndLinkRequirement, recordAccomplishment
AddRuleAct(feed) == [Act("rule " \o feed) EXCEPT !.spans = "reload", !.reloads = {feed}]
\* 159-250 MaintenanceSection
MaintenanceOffers(feed) == [n \in {"done " \o feed, "rule " \o feed} |->
                              Button({"content", "idle"})]
\* @ app/(app)/drones/[id]/page.tsx
\* 273-288 handleAuthorizeMission
AuthorizeAct == [Act("authorize") EXCEPT !.row = TRUE, !.reloads = {"missions"},
                                         !.tells = "page"]
\* 398-431 recordFlight
RecordFlightAct == [Act("flight") EXCEPT !.reloads = {"flights", "maintenance", "batteries"},
                                         !.rewinds = TRUE]
\* 490-564 RealDroneDetail
AuthorizeOffer == [authorize |-> Button({"content", "idle"})]
\* 688-768 RealDroneDetail
BatteryActs == {AddRuleAct("batteries"), AccomplishAct("batteries")}
\* 770-855 RealDroneDetail
ComponentActs == {AddRuleAct("components"), AccomplishAct("components")}
\* 881-917 RealDroneDetail
RecordFlightOffer == [flight |-> Button({"idle"})]
\* 919-994 RealDroneDetail
DroneActs == {AuthorizeAct, RecordFlightAct, AddRuleAct("maintenance"),
              AccomplishAct("maintenance")} \cup BatteryActs \cup ComponentActs
Drone == Screen(DroneFeeds, DroneCovers, DroneActs,
                AuthorizeOffer @@ RecordFlightOffer @@ MaintenanceOffers("maintenance")
                @@ MaintenanceOffers("batteries") @@ MaintenanceOffers("components"))

\* @ components/flights/FlightHistoryTable.tsx
\* 20-75 FlightDetailPanel
FlightFeeds == { [Feed("flight") EXCEPT !.reissue = {"input"}] }
\* 78-190 FlightHistoryTable
Flight == ReadOnly(FlightFeeds, [flight |-> Always])

\* @ app/(app)/aircraft/page.tsx
\* 84-106 RealAircraftList
AircraftListFeeds == { [Feed("aircraft") EXCEPT !.stale = "ignored"] }
\* 108-162 RealAircraftList
AircraftListDisplay == [aircraft |-> Panel]
AircraftList == Screen(AircraftListFeeds, AircraftListDisplay, {RegisterAct},
                       [register |-> RegisterOffer])

\* @ app/(app)/aircraft/[id]/page.tsx
\* 48-73 AircraftFindingsPanel
AircraftFindingsFeeds == { Feed("findings") }
\* 75-112 submit, close, dispose
AircraftFindingsActs == FindingsActs
\* 114-193 AircraftFindingsPanel
AircraftFindingsOffers == DroneFindingsOffers
AircraftFindings == Screen(AircraftFindingsFeeds, [findings |-> Panel],
                           AircraftFindingsActs, AircraftFindingsOffers)
\* 195-222 RealAircraftDetail
AircraftFeeds == { Feed("aircraft") }
\* 224-251 startEditing, saveEdits
AircraftActs == { [Act("save") EXCEPT !.replaces = {"aircraft"}] }
\* 253-326 RealAircraftDetail
AircraftOffers == [save |-> Inline({"content", "idle"})]
Aircraft == Screen(AircraftFeeds, [aircraft |-> Panel], AircraftActs, AircraftOffers)

AssetScreens == Fleet \cup Assets \cup Asset \cup Drones \cup DroneFindings \cup Drone
                \cup Flight \cup AircraftList \cup AircraftFindings \cup Aircraft
=============================================================================
