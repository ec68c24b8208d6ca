------------------------- MODULE MaintenanceScreens -------------------------
(* The screens of maintenance, stores and procurement.  A line
   "\* n-m symbol" names the lines of the component that the next definition
   stands for; paths are relative to src/frontend.                          *)
EXTENDS ScreenForms

\* @ app/(app)/maintenance/work-orders/page.tsx
\* 59-140 fetchWorkOrders
WorkOrdersFeeds == { [Feed("orders") EXCEPT !.reissue = {"input"}] }
\* 142-184 handleCreateSubmit
WorkOrdersActs == { [Act("create") EXCEPT !.reloads = {"orders"}] }
\* 310-438 RealWorkOrdersList
WorkOrdersDisplay == [orders |-> Panel]
\* 440-586 RealWorkOrdersList
WorkOrdersOffers == [create |-> ClosableModal({"idle"})]
WorkOrders == Screen(WorkOrdersFeeds, WorkOrdersDisplay, WorkOrdersActs, WorkOrdersOffers)

\* @ app/(app)/maintenance/work-orders/[id]/page.tsx
\* 59-122 loadData: what fails besides the order itself is passed over
WorkOrderFeeds == { Feed("order"), [Feed("tasks") EXCEPT !.onError = "silent"] }
\* 124-206 handleTransition, handleComplete, handleClose, handleAssignSubmit
OrderActs ==
    { [Act(n) EXCEPT !.lock = "shared", !.replaces = {"order"},
                     !.reloads = {"order", "tasks"} \cup
                        (IF n = "assign" THEN {} ELSE {"readiness"})]
        : n \in {"transition", "complete", "close", "assign"} }
\* 208-280 handleCancelSubmit, handleAddTaskSubmit, completeTask
TaskActs ==
    { [Act("cancel") EXCEPT !.lock = "shared", !.replaces = {"order"},
                            !.reloads = {"order", "tasks"}],
      [Act("add task") EXCEPT !.lock = "shared", !.reloads = {"order", "tasks", "readiness"}],
      [Act("complete task") EXCEPT !.reloads = {"order", "tasks", "readiness"}] }
\* 282-356 RealWorkOrderDetail
WorkOrderDisplay == [n \in {"order", "tasks"} |-> Panel]
\* 357-483 RealWorkOrderDetail
OrderOffers == [n \in {"transition", "complete", "close"} |-> Button({"content", "idle"})]
\* 640-720 RealWorkOrderDetail
TaskOffers == [n \in {"complete task"} |-> Button({"content", "idle"})]
\* 838-952 RealWorkOrderDetail
OrderDialogs == [n \in {"assign", "cancel"} |-> ClosableModal({"content", "idle"})]
\* 953-1072 RealWorkOrderDetail
TaskDialog == [n \in {"add task"} |-> ClosableModal({"content", "idle"})]
WorkOrder == Screen(WorkOrderFeeds, WorkOrderDisplay, OrderActs \cup TaskActs,
                    OrderOffers @@ TaskOffers @@ OrderDialogs @@ TaskDialog)

(* The page gives the panel a new key after an act: the panel mounts again,
   and its answers under way find no component.                             *)
\* @ components/evidence/RealReleaseReadinessPanel.tsx
\* 27-60 load
ReadinessFeeds == { [Feed("readiness") EXCEPT !.stale = "ignored",
                                              !.reissue = {"idle refresh"}] }
\* 62-89 RealReleaseReadinessPanel
ReadinessDisplay == [readiness |-> Panel]
ReleaseReadiness == Screen(ReadinessFeeds, ReadinessDisplay,
                           {a \in OrderActs \cup TaskActs : "readiness" \in a.reloads},
                           OrderOffers @@ TaskOffers @@ TaskDialog)

\* @ components/evidence/RealTaskGatePanel.tsx
\* 31-100 createEvidence, transitionEvidence, createInspection, transitionInspection
GateActs == { [Act(n) EXCEPT !.lock = "shared"] : n \in {"evidence", "inspection"} }
\* 102-189 RealTaskGatePanel
GateOffers == [n \in {"evidence", "inspection"} |-> Button({"idle"})]
TaskGate == Form(GateActs, GateOffers)

\* @ app/(app)/maintenance/deferred/page.tsx
\* 52-96 RealDeferredItemsList
DeferredFeeds == { [Feed("items") EXCEPT !.stale = "ignored"] }
\* 98-118 startClose, submitClose
DeferredActs == { [Act("close") EXCEPT !.reloads = {"items"}] }
\* 120-250 RealDeferredItemsList
DeferredOffers == [close |-> SwitchableInline({"content", "idle"})]
Deferred == Screen(DeferredFeeds, [items |-> Panel], DeferredActs, DeferredOffers)

\* @ app/(app)/maintenance/inspections/page.tsx
\* 39-88 RealInspectionQueueList
QueueFeeds == { [Feed("inspections") EXCEPT !.stale = "ignored"] }
\* 90-143 RealInspectionQueueList
QueueDisplay == [inspections |-> Panel]
InspectionQueue == ReadOnly(QueueFeeds, QueueDisplay)

\* @ app/(app)/maintenance/inspections/[id]/page.tsx
\* 38-74 load
InspectionFeeds == { Feed("requirements") }
\* 76-103 doTransition, createRequirement
InspectionActs ==
    { [Act("transition") EXCEPT !.row = TRUE, !.reloads = {"requirements"}],
      [Act("create") EXCEPT !.lock = "none", !.reloads = {"requirements"}] }
\* 105-232 RealInspectionDetail
InspectionOffers == [transition |-> Button({"content", "idle"}), create |-> Button({"content"})]
Inspection == Screen(InspectionFeeds, [requirements |-> Panel], InspectionActs,
                     InspectionOffers)

\* @ app/(app)/maintenance/technicians/page.tsx
\* 23-75 RealTechniciansList
TechniciansFeeds == { [Feed("technicians") EXCEPT !.stale = "ignored"] }
\* 77-106 RealTechniciansList
TechniciansDisplay == [technicians |-> Panel]
Technicians == ReadOnly(TechniciansFeeds, TechniciansDisplay)

\* @ app/(app)/maintenance/technicians/[id]/page.tsx
\* 20-50 RealTechnicianDetail
TechnicianFeeds == { [Feed("technician") EXCEPT !.stale = "ignored"] }
\* 52-100 RealTechnicianDetail
TechnicianDisplay == [technician |-> Panel]
Technician == ReadOnly(TechnicianFeeds, TechnicianDisplay)

\* @ app/(app)/maintenance/parts/page.tsx
\* 39-81 refetchBackendParts
PartsFeeds == { [Feed("parts") EXCEPT !.stale = "effect", !.onError = "empty"] }
\* 87-126 runInventoryAction
PartsActs == { [Act("stock") EXCEPT !.spans = "reload", !.closes = "never",
                                    !.reloads = {"parts"}] }
\* 211-336 PartsInventoryPage
PartsOffers == [stock |-> ClosableInline({"content", "idle"})]
PartsStore == Screen(PartsFeeds, [parts |-> Panel], PartsActs, PartsOffers)

\* @ app/(app)/procurement/purchase-orders/page.tsx
\* 63-133 refetchPurchaseOrders, refetchApprovedRequests
OrdersFeeds == { [Feed(n) EXCEPT !.onError = "empty"] : n \in {"orders", "requests"} }
\* 135-192 startCreatePo, submitCreatePo
CreateOrderAct == [Act("create") EXCEPT !.spans = "reload",
                                        !.reloads = {"orders", "requests"}]
\* 194-233 runTransition, runReceive: one busy state, the order and the action
OrdersActs == { [Act(n) EXCEPT !.lock = "shared", !.row = TRUE, !.spans = "reload",
                               !.reloads = {"orders"}]
                  : n \in {"advance", "cancel", "receive"} }
\* 272-404 PurchaseOrdersPage: inside the table of the requests
CreateOrderOffer(where) == [create |-> ClosableInline(where)]
\* 420-512 PurchaseOrdersPage: inside the table of the orders
OrdersOffers(where) == [n \in {"advance", "cancel", "receive"} |-> Button(where)]
PurchaseOrdersSeen(feed, create, others) ==
    Screen({f \in OrdersFeeds : f.name = feed}, [n \in {feed} |-> Panel],
           OrdersActs \cup {CreateOrderAct}, OrdersOffers(others) @@ CreateOrderOffer(create))
PurchaseOrders == PurchaseOrdersSeen("requests", {"content", "idle"}, {"idle"})
                     \cup PurchaseOrdersSeen("orders", {"idle"}, {"content", "idle"})

\* @ app/(app)/data-import/page.tsx
\* 58-125 handleCommit
CommitAct == [Act("commit") EXCEPT !.reloads = {"history"}]
\* 210-364 ValidationPreview
CommitOffer == [commit |-> Button({"idle"})]
\* 370-408 loadHistory
ImportFeeds == { [Feed("history") EXCEPT !.reissue = {"idle refresh"}, !.onError = "empty"] }
\* 410-445 handleValidate
ValidateAct == Act("validate")
\* 505-585 DataImportPage
ValidateOffer == [validate |-> Button({"idle"})]
\* 600-646 DataImportPage
ImportDisplay == [history |-> Panel]
DataImport == Screen(ImportFeeds, ImportDisplay, {CommitAct, ValidateAct},
                     CommitOffer @@ ValidateOffer)

MaintenanceScreens ==
    WorkOrders \cup WorkOrder \cup ReleaseReadiness \cup TaskGate \cup Deferred
    \cup InspectionQueue \cup Inspection \cup Technicians \cup Technician \cup PartsStore
    \cup PurchaseOrders \cup DataImport
=============================================================================
