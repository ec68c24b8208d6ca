-------------------------- MODULE PlatformScreens --------------------------
(* The screens of the platform administration.  A line "\* n-m symbol" names
   the lines of the component that the next definition stands for; paths are
   relative to src/frontend.                                                *)
EXTENDS ScreenForms

\* @ app/(app)/platform/organizations/[organizationId]/page.tsx
\* 134-282 loadData
OrganizationFeeds == { Feed("organization") }
\* 295-456 handleToggleOrgStatus, handleInviteAdmin, handleCreateOrgUser, handleResetOrgUserPassword
OrganizationUserActs ==
    { [Act("suspend") EXCEPT !.lock = "shared", !.replaces = {"organization"},
                             !.reloads = {"organization"}, !.tells = "page"],
      [Act("invite") EXCEPT !.closes = "later", !.reloads = {"organization"}],
      [Act("addUser") EXCEPT !.closes = "later", !.reloads = {"organization"}],
      [Act("reset") EXCEPT !.closes = "never"] }
\* 458-592 handleSaveOverrideModal, handleRemoveOverride
OrganizationFeatureActs ==
    { [Act("override") EXCEPT !.reloads = {"organization"}],
      [Act("inherit") EXCEPT !.lock = "shared", !.reloads = {"organization"},
                             !.tells = "page"] }
\* 723-738 PlatformOrganizationDetailPage
OrganizationDisplay == [organization |-> Panel]
\* 919-1059 PlatformOrganizationDetailPage
OrganizationUserOffers == [invite |-> ClosableInline({"content", "idle"}),
                           addUser |-> ClosableInline({"content", "idle"})]
\* 1284-1316 PlatformOrganizationDetailPage
OrganizationFeatureOffers == [inherit |-> Button({"content", "idle"})]
\* 1464-1529 PlatformOrganizationDetailPage
OrganizationInvitationActs ==
    { [Act(name) EXCEPT !.lock = "none", !.tells = "nobody"] : name \in {"resend", "revoke"} }
\* 1531-1617 PlatformOrganizationDetailPage
OrganizationDialogs == [suspend |-> ClosableModal({"idle"}),
                        reset |-> ClosableModal({"content", "idle"})]
\* 1619-1768 PlatformOrganizationDetailPage
OrganizationOverrideDialog == [override |-> Modal({"content", "idle"})]
Organization ==
    Screen(OrganizationFeeds, OrganizationDisplay,
           OrganizationUserActs \cup OrganizationFeatureActs \cup OrganizationInvitationActs,
           OrganizationUserOffers @@ OrganizationFeatureOffers @@ OrganizationDialogs
              @@ OrganizationOverrideDialog
              @@ [resend |-> Button({"content"}), revoke |-> Button({"content"})])

\* @ app/(app)/platform/organizations/[organizationId]/subscriptions/page.tsx
\* 71-129 load
SubscriptionsFeeds == { Feed("subscriptions") }
\* 133-251 submitCreate, submitEdit, confirmAction
SubscriptionsActs == { [Act("confirm") EXCEPT !.reloads = {"subscriptions"}] }
\* 326-413 RealSubscriptionAdmin
SubscriptionsDisplay == [subscriptions |-> Spinner]
\* 465-572 RealSubscriptionAdmin
SubscriptionsOffers == [confirm |-> ClosableModal({"content", "idle"})]
Subscriptions == Screen(SubscriptionsFeeds, SubscriptionsDisplay, SubscriptionsActs,
                        SubscriptionsOffers)

\* @ app/(app)/platform/organizations/page.tsx
\* 21-90 CreateAdminForm
CreateAdminAct == [Act("admin") EXCEPT !.lock = "child", !.reloads = {"organizations"}]
\* 92-154 load
OrganizationsFeeds == { Feed("organizations") }
\* 156-228 createOrg, toggleStatus, confirmSuspend
OrganizationsActs ==
    { [Act("create") EXCEPT !.reloads = {"organizations"}, !.tells = "page"],
      [Act("activate") EXCEPT !.lock = "none", !.reloads = {"organizations"}, !.tells = "page"],
      [Act("suspend") EXCEPT !.reloads = {"organizations"}, !.tells = "page"] }
\* 406-470 PlatformOrganizationsPage
OrganizationsDisplay == [organizations |-> Panel]
\* 444-485 PlatformOrganizationsPage
OrganizationsOffers == [create |-> Button({"idle"}), activate |-> Button({"content"}),
                        suspend |-> ClosableModal({"content", "idle"}),
                        admin |-> Button({"content", "idle"})]
Organizations == Screen(OrganizationsFeeds, OrganizationsDisplay,
                        OrganizationsActs \cup {CreateAdminAct}, OrganizationsOffers)

\* @ app/(app)/platform/plans/page.tsx
\* 60-190 load
PlansFeeds == { Feed("plans") }
\* 258-402 handleCreatePlan, handleSaveEdit, handleToggleActive
PlansActs ==
    { [Act("create") EXCEPT !.reloads = {"plans"}], [Act("edit") EXCEPT !.reloads = {"plans"}],
      [Act("toggle") EXCEPT !.reloads = {"plans"}, !.tells = "page"] }
\* 545-603 PlatformPlansPage
PlansDisplay == [plans |-> Panel]
\* 605-754 PlatformPlansPage
PlansCreateDialog == [create |-> ClosableModal({"idle"})]
\* 913-1047 PlatformPlansPage
PlansDialogs == [edit |-> ClosableModal({"content", "idle"}),
                 toggle |-> ClosableModal({"content", "idle"})]
Plans == Screen(PlansFeeds, PlansDisplay, PlansActs, PlansCreateDialog @@ PlansDialogs)

\* @ app/(app)/platform/plans/[planId]/page.tsx
\* 268-395 loadData
PlanFeeds == { Feed("plan"), Feed("trail") }
\* 439-563 handleSaveOverview, handleTogglePlanActive, handleConfirmFeatureToggle, handleToggleCategory
PlanActs ==
    LET Changed == {"plan", "trail"} IN
    { [Act("overview") EXCEPT !.replaces = {"plan"}, !.reloads = Changed],
      [Act("active") EXCEPT !.lock = "shared", !.reloads = Changed, !.tells = "page"],
      [Act("feature") EXCEPT !.lock = "shared", !.replaces = {"plan"}, !.reloads = Changed,
                             !.tells = "page"],
      [Act("category") EXCEPT !.lock = "none", !.reloads = Changed, !.tells = "page"] }
\* 565-621 handleSaveLimits
PlanLimitsAct == [Act("limits") EXCEPT !.reloads = {"trail"}, !.spans = "reload", !.quiet = TRUE]
\* 643-719 PlanDetailPage
PlanDisplay == [plan |-> Spinner, trail |-> Spinner]
\* 720-816 PlanDetailPage
PlanOverviewOffer == [overview |-> ClosableInline({"content", "idle"})]
\* 890-966 PlanDetailPage
PlanFeatureOffer == [category |-> Button({"content"})]
\* 990-1103 PlanDetailPage
PlanLimitsOffer == [limits |-> Button({"content", "idle"})]
\* 1222-1256 PlanDetailPage
PlanDialogs == [feature |-> ClosableModal({"content", "idle"}),
                active |-> ClosableModal({"content", "idle"})]
Plan == Screen(PlanFeeds, PlanDisplay, PlanActs \cup {PlanLimitsAct},
               PlanOverviewOffer @@ PlanFeatureOffer @@ PlanLimitsOffer @@ PlanDialogs)

\* @ app/(app)/platform/deleted-records/page.tsx
\* 27-97 PermanentDeleteDialog
PermanentDeleteDialog == ClosableModal({"content", "idle"})
\* 99-148 refresh
DeletedRecordsFeeds == { [Feed("records") EXCEPT !.reissue = {"input"}, !.onError = "empty"] }
\* 150-246 handleRestore, handlePermanentDelete
DeletedRecordsActs == { [Act("restore") EXCEPT !.row = TRUE, !.reloads = {"records"}],
                        [Act("delete") EXCEPT !.reloads = {"records"}] }
\* 283-381 RealDeletedRecordsQueue
DeletedRecordsDisplay == [records |-> Panel]
DeletedRecords ==
    Screen(DeletedRecordsFeeds, DeletedRecordsDisplay, DeletedRecordsActs,
           [restore |-> Button({"content", "idle"}), delete |-> PermanentDeleteDialog])

\* @ app/(app)/platform/entitlements/page.tsx
\* 51-162 PlatformEntitlementsPage
EntitlementsFeeds == { [Feed("entitlements") EXCEPT !.reissue = {"input"}, !.clears = FALSE] }
\* 215-362 PlatformEntitlementsPage
EntitlementsDisplay == [entitlements |-> Panel]
Entitlements == ReadOnly(EntitlementsFeeds, EntitlementsDisplay)

\* @ app/(app)/platform/product-catalog/page.tsx
\* 29-60 load
ProductCatalogFeeds == { Feed("suites") }
\* 62-82 createSuite
ProductCatalogActs == { [Act("suite") EXCEPT !.reloads = {"suites"}] }
\* 84-156 RealProductCatalog
ProductCatalogOffers == [suite |-> Button({"idle"})]
\* 158-267 RealProductCatalog
ProductCatalogDisplay == [suites |-> Panel]
ProductCatalog == Screen(ProductCatalogFeeds, ProductCatalogDisplay, ProductCatalogActs,
                         ProductCatalogOffers)

\* @ app/(app)/platform/organizations/provision/page.tsx
\* 25-65 RealProvisionOrganization
ProvisionFeeds == { [Feed("plans") EXCEPT !.clears = FALSE] }
\* 67-137 submit, resendInvitation
ProvisionActs == { Act("provision"), Act("resend") }
\* 262-287 RealProvisionOrganization
ProvisionResultOffers == [resend |-> Button({"idle"})]
\* 288-448 RealProvisionOrganization
ProvisionDisplay == [plans |-> Panel]
\* 449-515 RealProvisionOrganization
ProvisionOffers == [provision |-> Button({"content", "idle"})]
Provision == Screen(ProvisionFeeds, ProvisionDisplay, ProvisionActs,
                    ProvisionResultOffers @@ ProvisionOffers)

\* @ app/(app)/platform/audit/page.tsx
\* 181-276 RealAuditFeed
AuditFeeds == { [Feed("events") EXCEPT !.stale = "ignored", !.reissue = {"input"},
                                       !.onError = "empty"] }
\* 366-511 RealAuditFeed
AuditDisplay == [events |-> Panel]
Audit == ReadOnly(AuditFeeds, AuditDisplay)

\* @ app/(app)/platform/approvals/page.tsx
\* 71-114 ReviewDialog
ReviewActs == { [Act("decide") EXCEPT !.closes = "never", !.reloads = {"approvals"}] }
\* 116-237 ReviewDialog
ReviewOffers == [decide |-> ClosableModal({"content", "idle"})]
\* 239-322 RealApprovalsFeed
ApprovalsFeeds == { [Feed("approvals") EXCEPT !.reissue = {"input"}, !.onError = "empty"] }
\* 362-448 RealApprovalsFeed
ApprovalsDisplay == [approvals |-> Panel]
Approvals == Screen(ApprovalsFeeds, ApprovalsDisplay, ReviewActs, ReviewOffers)

\* @ app/(app)/platform/monitoring/page.tsx
\* 64-126 loadHealth, loadActivity, refresh
MonitoringFeeds ==
    { [Feed("health") EXCEPT !.reissue = {"idle refresh"}, !.onError = "empty"],
      [Feed("activity") EXCEPT !.reissue = {"refresh"}, !.onError = "empty"] }
\* 140-311 RealMonitoringPage
MonitoringDisplay == [health |-> Panel, activity |-> Panel]
Monitoring == ReadOnly(MonitoringFeeds, MonitoringDisplay)

\* @ app/(app)/platform/dashboard/page.tsx
\* 17-78 PlatformDashboardPage
PlatformDashboardFeeds == { Feed("stats") }
\* 80-229 PlatformDashboardPage
PlatformDashboardDisplay == [stats |-> Panel]
PlatformDashboard == ReadOnly(PlatformDashboardFeeds, PlatformDashboardDisplay)

\* @ app/(app)/platform/usage/page.tsx
\* 85-170 PlatformUsagePage
PlatformUsageFeeds == { Feed("limits") }
\* 271-312 PlatformUsagePage
PlatformUsageDisplay == [limits |-> Panel]
PlatformUsage == ReadOnly(PlatformUsageFeeds, PlatformUsageDisplay)

\* @ app/(app)/platform/subscriptions/page.tsx
\* 44-126 PlatformSubscriptionsPage
SubscriptionListFeeds == { Feed("subscriptions") }
\* 211-276 PlatformSubscriptionsPage
SubscriptionListDisplay == [subscriptions |-> Panel]
SubscriptionList == ReadOnly(SubscriptionListFeeds, SubscriptionListDisplay)

\* @ app/(app)/platform/users/page.tsx
\* 20-76 PlatformUsersPage
PlatformUsersFeeds == { Feed("users") }
\* 193-268 PlatformUsersPage
PlatformUsersDisplay == [users |-> Panel]
PlatformUsers == ReadOnly(PlatformUsersFeeds, PlatformUsersDisplay)

PlatformScreens ==
    UNION { Organization, Subscriptions, Organizations, Plans, Plan, DeletedRecords,
            Entitlements, ProductCatalog, Provision, Audit, Approvals, Monitoring,
            PlatformDashboard, PlatformUsage, SubscriptionList, PlatformUsers }
=============================================================================
