------------------------- MODULE ComplianceScreens -------------------------
(* The screens of compliance, evidence and findings.  A line "\* n-m symbol"
   names the lines of the component that the next definition stands for; paths
   are relative to src/frontend.                                            *)
EXTENDS ScreenForms

\* @ components/evidence/EvidenceFilesPanel.tsx
\* 29-66 loadFiles
EvidenceFilesFeeds == { Feed("files") }
\* 68-142 handleUpload, confirmDelete
EvidenceFilesActs == { [Act("upload") EXCEPT !.reloads = {"files"}],
                       [Act("delete") EXCEPT !.reloads = {"files"}] }
\* 144-249 EvidenceFilesPanel
EvidenceFilesDisplay == [files |-> Panel]
\* 250-338 EvidenceFilesPanel
EvidenceFilesOffers == [upload |-> Button({"idle"}),
                        delete |-> ClosableModal({"content", "idle"})]
EvidenceFilesPanel == Screen(EvidenceFilesFeeds, EvidenceFilesDisplay, EvidenceFilesActs,
                             EvidenceFilesOffers)

\* @ app/(app)/compliance/obligations/[id]/page.tsx
\* 27-74 loadData
ObligationFeeds == { Feed("obligation") }
\* 76-147 handleReevaluate, handleAttachEvidence, handleVerifyEvidence, handleRejectEvidence
ObligationActs ==
    { [Act(name) EXCEPT !.lock = "shared", !.spans = "reload", !.tells = "page",
                        !.reloads = {"obligation"}] :
         name \in {"evaluate", "attach", "verify", "reject"} }
\* 149-181 ObligationDetailPage
ObligationDisplay == [obligation |-> Spinner]
\* 212-219 ObligationDetailPage
EvaluateOffer == [evaluate |-> Button({"content", "idle"})]
\* 529-546 ObligationDetailPage
VerifyOffer == [verify |-> Button({"content", "idle"})]
\* 582-704 ObligationDetailPage
AttachOffer == [attach |-> ClosableModal({"content", "idle"})]
\* 706-787 ObligationDetailPage
RejectOffer == [reject |-> ClosableModal({"content", "idle"})]
Obligation == Screen(ObligationFeeds, ObligationDisplay, ObligationActs,
                     EvaluateOffer @@ VerifyOffer @@ AttachOffer @@ RejectOffer)

\* @ app/(app)/compliance/evidence/[id]/page.tsx
\* 18-48 loadEvidence
EvidenceFeeds == { Feed("evidence") }
\* 50-81 handleVerify, handleReject
EvidenceActs ==
    { [Act(name) EXCEPT !.lock = "shared", !.spans = "reload", !.tells = "page",
                        !.reloads = {"evidence"}] : name \in {"verify", "reject"} }
\* 83-123 EvidenceDetailPage
EvidenceDisplay == [evidence |-> Spinner]
\* 151-186 EvidenceDetailPage
VerifyEvidenceOffer == [verify |-> Button({"content", "idle"})]
\* 337-415 EvidenceDetailPage
RejectEvidenceOffer == [reject |-> ClosableModal({"content", "idle"})]
EvidenceDetail == Screen(EvidenceFeeds, EvidenceDisplay, EvidenceActs,
                         VerifyEvidenceOffer @@ RejectEvidenceOffer)

\* @ app/(app)/findings/[id]/page.tsx
\* 26-61 refresh
FindingFeeds == { Feed("finding") }
\* 63-100 dispose, close, handleCorrelateCompliance
FindingActs == { [Act(name) EXCEPT !.lock = "none", !.reloads = {"finding"}] :
                   name \in {"dispose", "close", "correlate"} }
\* 104-137 FindingDetailPage
FindingDisplay == [finding |-> Panel]
\* 139-153 FindingDetailPage
FindingOffers == [dispose |-> Button({"content"}), close |-> Button({"content"})]
\* 388-446 FindingDetailPage
CorrelateOffer == [correlate |-> ClosableModal({"content"})]
Finding == Screen(FindingFeeds, FindingDisplay, FindingActs,
                  FindingOffers @@ CorrelateOffer)

\* @ app/(app)/compliance/page.tsx
\* 52-112 RealCompliancePage
ComplianceFeeds == { [Feed("compliance") EXCEPT !.stale = "ignored"] }
\* 114-263 RealCompliancePage
ComplianceDisplay == [compliance |-> Panel]
Compliance == ReadOnly(ComplianceFeeds, ComplianceDisplay)

\* @ app/(app)/assessment-intelligence/page.tsx
\* 35-82 loadAll
AssessmentFeeds == { Feed("assessment") }
\* 84-92 runNow
AssessmentActs == { [Act("run") EXCEPT !.reloads = {"assessment"}, !.tells = "page"] }
\* 126-269 AssessmentDetail
AssessmentDisplay == [assessment |-> Panel]
\* 271-298 loadList
AssessmentsFeeds == { Feed("assessments") }
\* 300-324 createAssessment
AssessmentsActs == { [Act("create") EXCEPT !.reloads = {"assessments"}, !.tells = "page"] }
\* 326-398 RealAssessmentIntelligence
AssessmentsDisplay == [assessments |-> Panel]
Assessments == Screen(AssessmentFeeds, AssessmentDisplay, AssessmentActs,
                      [run |-> Button({"idle"})])
               \cup Screen(AssessmentsFeeds, AssessmentsDisplay, AssessmentsActs,
                           [create |-> Button({"idle"})])

ComplianceScreens ==
    UNION { EvidenceFilesPanel, Obligation, EvidenceDetail, Finding, Compliance, Assessments }
=============================================================================
