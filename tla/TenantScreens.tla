--------------------------- MODULE TenantScreens ---------------------------
(* The screens on which an organization administers itself.  A line
   "\* n-m symbol" names the lines of the component that the next definition
   stands for; paths are relative to src/frontend.  On most of them the panel
   has no content: what is shown stays on the display next to the spinner.

   Some handlers set their busy state and then return when there is no access
   token (users 118, invitations 96, facilities 122).  No act has that outcome:
   the token is dropped only with the user, by clearSession of lib/auth/
   SessionContext.tsx (60-70), and AuthGuard, which is around every page of
   (app), then renders nothing (components/auth/AuthGuard.tsx, 40-42): the page
   is unmounted, and its busy state is gone.                                *)
EXTENDS ScreenForms

\* @ app/(app)/tenant/users/page.tsx
\* 22-95 loadUsers
UsersFeeds == { Feed("users") }
\* 97-223 handleSaveRoles, handleToggleStatus, handleCreateUser, handleResetPassword
UsersActs ==
    { [Act("roles") EXCEPT !.replaces = {"users"}],
      [Act("status") EXCEPT !.lock = "none", !.replaces = {"users"}, !.tells = "nobody"],
      [Act("create") EXCEPT !.replaces = {"users"}],
      [Act("reset") EXCEPT !.closes = "never"] }
\* 252-275 TenantUsersPage
UsersDisplay == [users |-> Always]
\* 379-508 TenantUsersPage
UsersOffers == [status |-> Button({"content"}), roles |-> Modal({"content", "idle"})]
\* 510-616 TenantUsersPage
UsersCreateDialog == [create |-> Modal({"idle"})]
\* 618-701 TenantUsersPage
UsersResetDialog == [reset |-> ClosableModal({"content", "idle"})]
Users == Screen(UsersFeeds, UsersDisplay, UsersActs,
                UsersOffers @@ UsersCreateDialog @@ UsersResetDialog)

\* @ app/(app)/tenant/invitations/page.tsx
\* 23-69 loadInvitations
InvitationsFeeds == { Feed("invitations") }
\* 71-160 handleInvite, handleResend, handleCancel
InvitationsActs ==
    { [Act("invite") EXCEPT !.replaces = {"invitations"}],
      [Act("resend") EXCEPT !.lock = "none", !.reloads = {"invitations"}, !.tells = "nobody"],
      [Act("cancel") EXCEPT !.lock = "none", !.reloads = {"invitations"}, !.tells = "nobody"] }
\* 201-262 TenantInvitationsPage
InvitationsDisplay == [invitations |-> Always]
\* 293-452 TenantInvitationsPage
InvitationsOffers == [invite |-> Modal({"idle"}), resend |-> Button({"content"}),
                      cancel |-> Button({"content"})]
Invitations == Screen(InvitationsFeeds, InvitationsDisplay, InvitationsActs,
                      InvitationsOffers)

\* @ app/(app)/tenant/facilities/page.tsx
\* 48-89 loadFacilities
FacilitiesFeeds == { Feed("facilities") }
\* 91-140 handleCreateFacility
FacilitiesActs == { [Act("create") EXCEPT !.replaces = {"facilities"}] }
\* 186-220 TenantFacilitiesPage
FacilitiesDisplay == [facilities |-> Always]
\* 263-384 TenantFacilitiesPage
FacilitiesOffers == [create |-> Modal({"idle"})]
TenantFacilities == Screen(FacilitiesFeeds, FacilitiesDisplay, FacilitiesActs,
                           FacilitiesOffers)

\* @ app/(app)/tenant/settings/page.tsx
\* 37-58 handleRequestDeletion
DeletionAct == [Act("deletion") EXCEPT !.frees = "failure", !.closes = "never",
                                       !.leaves = TRUE]
\* 60-89 TenantSettingsPage
SettingsFeeds == { Feed("settings") }
\* 91-132 handleSave
SaveSettingsAct == [Act("save") EXCEPT !.replaces = {"settings"}]
\* 155-177 TenantSettingsPage
SettingsDisplay == [settings |-> Always]
\* 291-383 TenantSettingsPage
SettingsOffers == [save |-> Button({"content", "idle"}), deletion |-> Inline({"idle"})]
Settings == Screen(SettingsFeeds, SettingsDisplay, {SaveSettingsAct, DeletionAct},
                   SettingsOffers)

\* @ app/(app)/tenant/profile/page.tsx
\* 20-59 TenantProfilePage
ProfileFeeds == { Feed("profile") }
\* 61-92 handleSave
ProfileActs == { [Act("save") EXCEPT !.replaces = {"profile"}] }
\* 94-138 TenantProfilePage
ProfileDisplay == [profile |-> Always]
\* 139-284 TenantProfilePage
ProfileOffers == [save |-> Button({"content", "idle"})]
TenantProfile == Screen(ProfileFeeds, ProfileDisplay, ProfileActs, ProfileOffers)

\* @ app/(app)/tenant/audit/page.tsx
\* 13-52 TenantAuditPage
TenantAuditFeeds == { Feed("events") }
\* 88-147 TenantAuditPage
TenantAuditDisplay == [events |-> Always]
TenantAudit == ReadOnly(TenantAuditFeeds, TenantAuditDisplay)

\* @ app/(app)/tenant/entitlements/page.tsx
\* 63-101 TenantEntitlementsPage
TenantEntitlementsFeeds == { Feed("entitlements") }
\* 138-184 TenantEntitlementsPage
TenantEntitlementsDisplay == [entitlements |-> Always]
TenantEntitlements == ReadOnly(TenantEntitlementsFeeds, TenantEntitlementsDisplay)

\* @ app/(app)/tenant/usage/page.tsx
\* 13-40 TenantUsagePage
TenantUsageFeeds == { Feed("usage") }
\* 76-120 TenantUsagePage
TenantUsageDisplay == [usage |-> Always]
TenantUsage == ReadOnly(TenantUsageFeeds, TenantUsageDisplay)

\* @ app/(app)/tenant/roles/page.tsx
\* 13-40 TenantRolesPage
TenantRolesFeeds == { Feed("roles") }
\* 76-97 TenantRolesPage
TenantRolesDisplay == [roles |-> Always]
TenantRoles == ReadOnly(TenantRolesFeeds, TenantRolesDisplay)

\* @ app/(app)/tenant/teams/page.tsx
\* 13-39 TenantTeamsPage
TenantTeamsFeeds == { Feed("teams") }
\* 62-84 TenantTeamsPage
TenantTeamsDisplay == [teams |-> Always]
TenantTeams == ReadOnly(TenantTeamsFeeds, TenantTeamsDisplay)

\* @ app/(app)/tenant/subscription/page.tsx
\* 13-34 TenantSubscriptionPage
TenantSubscriptionFeeds == { Feed("entitlements") }
\* 57-79 TenantSubscriptionPage
TenantSubscriptionDisplay == [entitlements |-> Always]
TenantSubscription == ReadOnly(TenantSubscriptionFeeds, TenantSubscriptionDisplay)

\* @ app/(app)/tenant/dashboard/page.tsx
\* 13-43 TenantDashboardPage
TenantDashboardFeeds == { Feed("stats") }
\* 76-98 TenantDashboardPage
TenantDashboardDisplay == [stats |-> Always]
TenantDashboard == ReadOnly(TenantDashboardFeeds, TenantDashboardDisplay)

\* @ app/(app)/organization/plan/page.tsx
\* 33-58 OrganizationPlanPage
OrganizationPlanFeeds == { Feed("entitlements") }
\* 60-192 OrganizationPlanPage
OrganizationPlanDisplay == [entitlements |-> Panel]
OrganizationPlan == ReadOnly(OrganizationPlanFeeds, OrganizationPlanDisplay)

TenantScreens ==
    UNION { Users, Invitations, TenantFacilities, Settings, TenantProfile,
            TenantAudit, TenantEntitlements, TenantUsage, TenantRoles, TenantTeams,
            TenantSubscription, TenantDashboard, OrganizationPlan }
=============================================================================
