--------------------------- MODULE AccountScreens ---------------------------
(* Signing in, and the account of the user.  These forms load nothing: the user
   is in the session.  A line "\* n-m symbol" names the lines of the component
   that the next definition stands for; paths are relative to src/frontend.  *)
EXTENDS ScreenForms

\* @ app/login/page.tsx
\* 11-41 handleSubmit
LoginActs == { [Act("login") EXCEPT !.leaves = TRUE] }
\* 65-110 LoginPage
LoginOffers == [login |-> Button({"idle"})]
Login == Form(LoginActs, LoginOffers)

\* @ app/forgot-password/page.tsx
\* 9-31 handleSubmit
ForgotActs == { Act("forgot") }
\* 33-92 ForgotPasswordPage
ForgotOffers == [forgot |-> Button({"idle"})]
ForgotPassword == Form(ForgotActs, ForgotOffers)

\* @ app/reset-password/page.tsx
\* 9-31 handleSubmit
ResetActs == { Act("reset") }
\* 33-114 ResetPasswordForm
ResetOffers == [reset |-> Button({"idle"})]
ResetPassword == Form(ResetActs, ResetOffers)

\* @ app/onboarding/complete/page.tsx
\* 17-42 handleSubmit
OnboardingActs == { Act("complete") }
\* 44-128 CompleteOnboardingForm
OnboardingOffers == [complete |-> Button({"idle"})]
Onboarding == Form(OnboardingActs, OnboardingOffers)

\* @ app/(app)/settings/page.tsx
\* 23-70 EmailVerificationCard
VerificationActs == { [Act(n) EXCEPT !.lock = "shared"] : n \in {"request", "confirm"} }
\* 72-107 EmailVerificationCard
VerificationOffers == [n \in {"request", "confirm"} |-> Button({"idle"})]
EmailVerification == Form(VerificationActs, VerificationOffers)

\* @ app/(app)/profile/page.tsx
\* 15-93 EmailVerificationSection
ProfileVerification == Form(VerificationActs, VerificationOffers)
\* 179-254 handlePhotoFileSelect, handleRemovePhoto
PhotoActs == { [Act(n) EXCEPT !.lock = "shared"] : n \in {"upload", "remove"} }
\* 256-300 handleSaveProfile
SaveProfileAct == Act("save")
\* 302-411 handleRequestEmailChange, handleConfirmEmailChange, handleCancelEmailChange
EmailActs == { [Act(n) EXCEPT !.lock = "shared"]
                 : n \in {"request change", "confirm change", "cancel change"} }
\* 425-433 handleRequestPasswordReset
PasswordResetAct == [Act("reset") EXCEPT !.lock = "none", !.tells = "nobody"]
\* 639-692 ProfileContent
PhotoOffers == [n \in {"upload", "remove"} |-> Button({"idle"})]
\* 694-817 ProfileContent
SaveProfileOffer == [save |-> Inline({"idle"})]
\* 819-942 ProfileContent
EmailOffers == [n \in {"request change", "confirm change", "cancel change"}
                  |-> Button({"idle"})]
\* 1043-1078 ProfileContent
PasswordResetOffer == [reset |-> Button({})]
UserProfile == Form(PhotoActs, PhotoOffers) \cup Form(EmailActs, EmailOffers)
               \cup Form({SaveProfileAct, PasswordResetAct},
                         SaveProfileOffer @@ PasswordResetOffer)

AccountScreens == Login \cup ForgotPassword \cup ResetPassword \cup Onboarding
                  \cup EmailVerification \cup ProfileVerification \cup UserProfile
=============================================================================
