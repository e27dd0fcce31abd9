------------------------- MODULE ConnectionsProofs --------------------------
(***************************************************************************)
(* Proofs about Connections, for any number of requests, Apps, paths and   *)
(* revisions: no usable grant holds a spent token, and what is recorded as *)
(* checked was checked.                                                    *)
(***************************************************************************)
EXTENDS Connections, TLAPS

\* The request of w is under way for the revision of the grant that is stored.
Exchanging(w) == worker[w].phase \in {"claimed", "answered"} /\ worker[w].revision = grant.revision

\* Of one revision of the grant at most the request that holds the claim may
\* have exchanged the refresh token, and until its answer is in, or when Gitee
\* refused for its rate, the token is still there.
RefreshInv ==
  /\ spent <= grant.revision
  /\ \A w \in Workers : worker[w].revision <= grant.revision
  /\ grant.status = "active" => spent < grant.revision
  /\ \A w \in Workers : Exchanging(w) =>
       /\ grant.status # "active"
       /\ grant.status = "refreshing" => grant.claim = w
       /\ grant.status = "refreshing" /\ worker[w].phase = "claimed" => spent < grant.revision
       /\ grant.status = "refreshing" /\ worker[w].answer = "rate" => spent < grant.revision

\* A claimed request has no answer yet.
PhaseInv == \A w \in Workers : worker[w].answer # "none" => worker[w].phase = "answered"

\* The snapshot of an import names the App it was made with, as long as the
\* App was not saved again.
ImportInv ==
  importing # Nil =>
    /\ provider = "github" =>
         /\ importing.revision <= app.revision
         /\ importing.revision = app.revision => importing.verified = app.id
    /\ provider = "gitee" => importing.verified = 1

\* The invariant every request, answer and event preserves.
ConnInv == ConnTypeOK /\ RefreshInv /\ PhaseInv /\ ImportInv /\ EvidenceGenuine

-----------------------------------------------------------------------------
\* The empty installation satisfies the invariant.
LEMMA ConnInitInv == ASSUME ConnInit PROVE ConnInv
<1> USE ConnectionsAssumption DEF ConnInit
<1>1. ConnTypeOK
  BY DEF ConnTypeOK, Grants, Validators, Revisions, Logins, NoFlow, Idle, NoValidator
<1>2. RefreshInv /\ PhaseInv
  BY DEF RefreshInv, PhaseInv, Exchanging, Idle
<1>3. ImportInv /\ EvidenceGenuine
  BY DEF ImportInv, EvidenceGenuine
<1> QED BY <1>1, <1>2, <1>3 DEF ConnInv

-----------------------------------------------------------------------------
(* Types.                                                                  *)

\* Revisions as the requests copy them.
LEMMA GrantRevision == ASSUME ConnTypeOK PROVE grant.revision \in Revisions
BY DEF ConnTypeOK, Grants

\* What the transactions write into the row of the grant.
LEMMA GrantRows ==
  ASSUME ConnTypeOK
  PROVE  /\ [grant EXCEPT !.due = TRUE] \in Grants
         /\ [grant EXCEPT !.wait = FALSE] \in Grants
         /\ \A w \in Workers :
              [grant EXCEPT !.status = "refreshing", !.claim = w, !.due = FALSE] \in Grants
         /\ grant.revision < RevisionLimit =>
              /\ Withdrawn \in Grants
              /\ \A answer : Completed(answer) \in Grants
<1> USE ConnectionsAssumption DEF Grants
<1>1. grant \in Grants
  BY DEF ConnTypeOK
<1>2. [grant EXCEPT !.due = TRUE] \in Grants
  BY <1>1
<1>3. [grant EXCEPT !.wait = FALSE] \in Grants
  BY <1>1
<1>4. ASSUME NEW w \in Workers
      PROVE  [grant EXCEPT !.status = "refreshing", !.claim = w, !.due = FALSE] \in Grants
  BY <1>1
<1>5. ASSUME grant.revision < RevisionLimit PROVE Withdrawn \in Grants
  <2>1. grant.revision + 1 \in Revisions
    BY <1>1, <1>5 DEF Revisions
  <2> QED BY <1>1, <2>1 DEF Withdrawn
<1>6. ASSUME grant.revision < RevisionLimit, NEW answer PROVE Completed(answer) \in Grants
  <2>1. grant.revision + 1 \in Revisions
    BY <1>1, <1>6 DEF Revisions
  <2>2. [grant EXCEPT !.status = "active", !.revision = @ + 1, !.age = "fresh", !.claim = Nil] \in Grants
    BY <1>1, <2>1
  <2>3. [grant EXCEPT !.status = "active", !.claim = Nil, !.wait = TRUE] \in Grants
    BY <1>1
  <2> QED BY <1>5, <1>6, <2>2, <2>3 DEF Completed
<1> QED BY <1>2, <1>3, <1>4, <1>5, <1>6

\* The steps of World keep the types.
LEMMA TypeWorld == ASSUME ConnTypeOK, World PROVE ConnTypeOK'
<1> USE ConnectionsAssumption DEF ConnTypeOK, Revisions, Logins, Event, connVars, githubVars, giteeVars, automationVars, importVars, flowVars, worldVars
<1>1. ASSUME RightsChange PROVE ConnTypeOK'
  BY <1>1 DEF RightsChange
<1>2. ASSUME LoginReplaced PROVE ConnTypeOK'
  BY <1>2 DEF LoginReplaced, Logins
<1>3. ASSUME ExpireTrip PROVE ConnTypeOK'
  BY <1>3 DEF ExpireTrip, NoFlow, Logins, Revisions
<1>4. ASSUME PruneIntegrationCredentials PROVE ConnTypeOK'
  BY <1>4 DEF PruneIntegrationCredentials
<1>5. ASSUME GrantAges PROVE ConnTypeOK'
  <2>1. grant' \in Grants
    BY <1>5, GrantRows, ZenonT(60) DEF GrantAges, Grants
  <2> QED BY <1>5, <2>1 DEF GrantAges
<1>6. ASSUME ClaimDue PROVE ConnTypeOK'
  <2>1. grant' \in Grants
    BY <1>6, GrantRows DEF ClaimDue
  <2> QED BY <1>6, <2>1 DEF ClaimDue
<1>7. ASSUME RetryPasses PROVE ConnTypeOK'
  <2>1. grant' \in Grants
    BY <1>7, GrantRows DEF RetryPasses
  <2> QED BY <1>7, <2>1 DEF RetryPasses
<1> QED BY <1>1, <1>2, <1>3, <1>4, <1>5, <1>6, <1>7 DEF World

\* The steps of App keep the types.
LEMMA TypeApp == ASSUME ConnTypeOK, App PROVE ConnTypeOK'
<1> USE ConnectionsAssumption DEF ConnTypeOK, Revisions, Logins, Event, connVars, githubVars, giteeVars, automationVars, importVars, flowVars, worldVars
<1>1. ASSUME SaveApp PROVE ConnTypeOK'
  BY <1>1 DEF SaveApp
<1>2. ASSUME NEW id \in AppIds, SaveIntegrationApp(id) PROVE ConnTypeOK'
  BY <1>2 DEF SaveIntegrationApp, NoFlow
<1>3. ASSUME SaveAppFails PROVE ConnTypeOK'
  BY <1>3 DEF SaveAppFails
<1> QED BY <1>1, <1>2, <1>3 DEF App

\* The steps of Authorizing keep the types.
LEMMA TypeAuthorizing == ASSUME ConnTypeOK, Authorizing PROVE ConnTypeOK'
<1> USE ConnectionsAssumption DEF ConnTypeOK, Revisions, Logins, Event, connVars, githubVars, giteeVars, automationVars, importVars, flowVars, worldVars
<1>1. ASSUME BeginIntegrationFlow PROVE ConnTypeOK'
  BY <1>1 DEF BeginIntegrationFlow
<1>2. ASSUME ConsumeIntegrationFlow PROVE ConnTypeOK'
  BY <1>2 DEF ConsumeIntegrationFlow
<1>3. ASSUME SaveIntegrationProof PROVE ConnTypeOK'
  BY <1>3 DEF SaveIntegrationProof, NoFlow, SameIntegration
<1>4. ASSUME BeginGiteeFlow PROVE ConnTypeOK'
  BY <1>4 DEF BeginGiteeFlow
<1>5. ASSUME ConsumeGiteeFlow PROVE ConnTypeOK'
  BY <1>5, GrantRevision DEF ConsumeGiteeFlow
<1>6. ASSUME SaveGiteeGrant PROVE ConnTypeOK'
  <2>1. grant' \in Grants
    <3>1. grant.revision + 1 \in Revisions
      BY <1>6, GrantRevision DEF SaveGiteeGrant
    <3> QED BY <1>6, <3>1 DEF SaveGiteeGrant, Grants
  <2> QED BY <1>6, <2>1 DEF SaveGiteeGrant, NoFlow
<1>7. ASSUME ExchangeFails PROVE ConnTypeOK'
  BY <1>7 DEF ExchangeFails
<1>8. ASSUME RevokeGiteeGrant PROVE ConnTypeOK'
  <2>1. grant' \in Grants
    BY <1>8, GrantRows DEF RevokeGiteeGrant
  <2> QED BY <1>8, <2>1 DEF RevokeGiteeGrant
<1> QED BY <1>1, <1>2, <1>3, <1>4, <1>5, <1>6, <1>7, <1>8 DEF Authorizing

\* The steps of Access keep the types.
LEMMA TypeAccess == ASSUME ConnTypeOK, Access PROVE ConnTypeOK'
<1> USE ConnectionsAssumption DEF ConnTypeOK, Revisions, Logins, Event, connVars, githubVars, giteeVars, automationVars, importVars, flowVars, worldVars
<1>1. ASSUME NEW w \in Workers, GiteeGrant(w) PROVE ConnTypeOK'
  <2>1. grant' \in Grants
    BY <1>1, GrantRows DEF GiteeGrant, Reclaimed
  <2>2. grant.revision \in Revisions
    BY DEF Grants
  <2> QED BY <1>1, <2>1, <2>2 DEF GiteeGrant, Idle
<1>2. ASSUME NEW w \in Workers, ClaimGiteeRefresh(w) PROVE ConnTypeOK'
  <2>1. grant' \in Grants
    <3>1. CASE UNCHANGED grant BY <3>1
    <3>2. CASE grant' = [grant EXCEPT !.status = "refreshing", !.claim = w, !.due = FALSE]
      BY <1>2, <3>2, GrantRows
    <3> QED BY <1>2, <3>1, <3>2 DEF ClaimGiteeRefresh
  <2> QED BY <1>2, <2>1 DEF ClaimGiteeRefresh, Idle
<1>3. ASSUME NEW w \in Workers, Refresh(w) PROVE ConnTypeOK'
  BY <1>3 DEF Refresh, Later
<1>4. ASSUME NEW w \in Workers, CompleteGiteeRefresh(w) PROVE ConnTypeOK'
  <2>1. grant' \in Grants
    BY <1>4, GrantRows DEF CompleteGiteeRefresh
  <2> QED BY <1>4, <2>1 DEF CompleteGiteeRefresh, Idle
<1>5. ASSUME NEW w \in Workers, WorkerDies(w) PROVE ConnTypeOK'
  BY <1>5 DEF WorkerDies, Idle, Later
<1> QED BY <1>1, <1>2, <1>3, <1>4, <1>5 DEF Access

\* The steps of Importing keep the types.
LEMMA TypeImporting == ASSUME ConnTypeOK, Importing PROVE ConnTypeOK'
<1> USE ConnectionsAssumption DEF ConnTypeOK, Revisions, Logins, Event, connVars, githubVars, giteeVars, automationVars, importVars, flowVars, worldVars
<1>1. ASSUME StartImport PROVE ConnTypeOK'
  BY <1>1, GrantRevision DEF StartImport, ImportFromGitHub, ImportFromGitee, GrantUsable, ProofCurrent
<1>2. ASSUME ImportRepositories PROVE ConnTypeOK'
  BY <1>2 DEF ImportRepositories, SameIntegration, AppCurrent
<1>3. ASSUME ImportGiteeRepositories PROVE ConnTypeOK'
  BY <1>3 DEF ImportGiteeRepositories
<1>4. ASSUME ImportFails PROVE ConnTypeOK'
  BY <1>4 DEF ImportFails
<1> QED BY <1>1, <1>2, <1>3, <1>4 DEF Importing

\* The steps of Automating keep the types.
LEMMA TypeAutomating == ASSUME ConnTypeOK, Automating PROVE ConnTypeOK'
<1> USE ConnectionsAssumption DEF ConnTypeOK, Revisions, Logins, Event, connVars, githubVars, giteeVars, automationVars, importVars, flowVars, worldVars
<1>1. ASSUME SaveGiteeWebhook PROVE ConnTypeOK'
  BY <1>1 DEF SaveGiteeWebhook
<1>2. ASSUME ValidationTarget PROVE ConnTypeOK'
  BY <1>2 DEF ValidationTarget, Validators
<1>3. ASSUME ReadPipeline PROVE ConnTypeOK'
  <2>1. \E n \in Revisions : validator' = [validator EXCEPT !.phase = "read", !.revision = n]
    BY <1>3, GrantRevision DEF ReadPipeline, ValidateDefaultPipeline, ValidateProject
  <2>2. validator' \in Validators
    BY <2>1, ZenonT(60) DEF Validators
  <2> QED BY <1>3, <2>2 DEF ReadPipeline
<1>4. ASSUME RecordValidation PROVE ConnTypeOK'
  BY <1>4 DEF RecordValidation, NoValidator, Validators, SameTarget, CredentialRevision
<1>5. ASSUME ValidationFails PROVE ConnTypeOK'
  BY <1>5 DEF ValidationFails, NoValidator, Validators
<1>6. ASSUME NEW path \in Paths, NEW enabled \in BOOLEAN, UpdateProjectAutomation(path, enabled) PROVE ConnTypeOK'
  BY <1>6 DEF UpdateProjectAutomation, Ready, Resolved
<1> QED BY <1>1, <1>2, <1>3, <1>4, <1>5, <1>6 DEF Automating

\* Every step keeps the types.
LEMMA TypeStep == ASSUME ConnTypeOK, [ConnNext]_connVars PROVE ConnTypeOK'
<1>1. CASE UNCHANGED connVars
  BY <1>1 DEF connVars, ConnTypeOK
<1> QED BY <1>1, TypeWorld, TypeApp, TypeAuthorizing, TypeAccess, TypeImporting, TypeAutomating DEF ConnNext

-----------------------------------------------------------------------------
(* The refresh token.                                                      *)

\* What the argument about the token needs of the types.
LEMMA TokenTypes ==
  ASSUME ConnTypeOK
  PROVE  /\ spent \in Nat /\ grant.revision \in Nat
         /\ \A w \in Workers : worker[w].revision \in Nat
         /\ worker = [w \in Workers |-> worker[w]]
BY ConnectionsAssumption DEF ConnTypeOK, Grants, Revisions

\* Rows that keep their status, revision and claim.
LEMMA RefreshFrame ==
  ASSUME RefreshInv, PhaseInv, UNCHANGED <<worker, spent>>,
         grant'.status = grant.status, grant'.revision = grant.revision, grant'.claim = grant.claim
  PROVE  RefreshInv' /\ PhaseInv'
BY DEF RefreshInv, PhaseInv, Exchanging

\* A new revision of the row: no request is about it yet, so its token is there.
LEMMA RefreshAnew ==
  ASSUME ConnTypeOK, RefreshInv, PhaseInv, UNCHANGED spent,
         grant'.revision = grant.revision + 1,
         \A w \in Workers : worker'[w] \in {worker[w], Idle}
  PROVE  RefreshInv' /\ PhaseInv'
BY TokenTypes DEF RefreshInv, PhaseInv, Exchanging, Idle

\* Time and the administrator.
LEMMA RefreshOther ==
  ASSUME ConnTypeOK, RefreshInv, PhaseInv,
         World \/ App \/ Authorizing \/ Importing \/ Automating
  PROVE  RefreshInv' /\ PhaseInv'
<1>1. CASE UNCHANGED <<grant, worker, spent>>
  BY <1>1, RefreshFrame
<1>2. CASE GrantAges \/ ClaimDue \/ RetryPasses
  <2>1. grant'.status = grant.status /\ grant'.revision = grant.revision /\ grant'.claim = grant.claim
    BY <1>2 DEF ConnTypeOK, Grants, GrantAges, ClaimDue, RetryPasses
  <2> QED BY <1>2, <2>1, RefreshFrame DEF GrantAges, ClaimDue, RetryPasses
<1>3. CASE SaveGiteeGrant \/ RevokeGiteeGrant
  <2>1. grant'.revision = grant.revision + 1
    <3>1. CASE SaveGiteeGrant BY <3>1 DEF SaveGiteeGrant
    <3>2. CASE RevokeGiteeGrant BY <3>2 DEF ConnTypeOK, Grants, RevokeGiteeGrant, Withdrawn
    <3> QED BY <1>3, <3>1, <3>2
  <2> QED BY <1>3, <2>1, RefreshAnew DEF SaveGiteeGrant, RevokeGiteeGrant
<1>4. ASSUME World, ~(GrantAges \/ ClaimDue \/ RetryPasses) PROVE UNCHANGED <<grant, worker, spent>>
  BY <1>4 DEF World, RightsChange, LoginReplaced, ExpireTrip, PruneIntegrationCredentials, giteeVars
<1>5. ASSUME App PROVE UNCHANGED <<grant, worker, spent>>
  BY <1>5 DEF App, SaveApp, SaveIntegrationApp, SaveAppFails, giteeVars
<1>6. ASSUME Authorizing, ~(SaveGiteeGrant \/ RevokeGiteeGrant) PROVE UNCHANGED <<grant, worker, spent>>
  BY <1>6 DEF Authorizing, BeginIntegrationFlow, ConsumeIntegrationFlow, SaveIntegrationProof,
              BeginGiteeFlow, ConsumeGiteeFlow, ExchangeFails, giteeVars
<1>7. ASSUME Importing PROVE UNCHANGED <<grant, worker, spent>>
  BY <1>7 DEF Importing, StartImport, ImportRepositories, ImportGiteeRepositories, ImportFails, giteeVars
<1>8. ASSUME Automating PROVE UNCHANGED <<grant, worker, spent>>
  BY <1>8 DEF Automating, SaveGiteeWebhook, ValidationTarget, ReadPipeline, RecordValidation,
              ValidationFails, UpdateProjectAutomation, giteeVars
<1> QED BY <1>1, <1>2, <1>3, <1>4, <1>5, <1>6, <1>7, <1>8

\* The requests that use the grant.
LEMMA RefreshAccess ==
  ASSUME ConnTypeOK, RefreshInv, PhaseInv, NEW w \in Workers,
         \/ GiteeGrant(w) \/ ClaimGiteeRefresh(w) \/ Refresh(w)
         \/ CompleteGiteeRefresh(w) \/ WorkerDies(w)
  PROVE  RefreshInv' /\ PhaseInv'
<1> USE TokenTypes DEF Idle
<1>1. CASE GiteeGrant(w)
  <2>1. CASE grant.status = "refreshing" /\ grant.due
    <3>1. grant'.revision = grant.revision + 1 /\ grant'.status = "revoked"
      BY <1>1, <2>1 DEF GiteeGrant, Reclaimed, Withdrawn, ConnTypeOK, Grants
    <3> QED BY <1>1, <3>1, RefreshAnew DEF GiteeGrant
  <2>2. CASE ~(grant.status = "refreshing" /\ grant.due)
    <3>1. grant' = grant /\ spent' = spent
      BY <1>1, <2>2 DEF GiteeGrant, Reclaimed
    <3> QED BY <1>1, <3>1 DEF GiteeGrant, RefreshInv, PhaseInv, Exchanging
  <2> QED BY <2>1, <2>2
<1>2. CASE ClaimGiteeRefresh(w)
  <2> DEFINE granted == /\ GrantLive /\ grant.status = "active"
                        /\ grant.revision = worker[w].revision /\ ~grant.wait
  <2>1. CASE ~granted
    <3>1. worker' = [worker EXCEPT ![w] = Idle] /\ UNCHANGED <<grant, spent>>
      BY <1>2, <2>1 DEF ClaimGiteeRefresh
    <3> QED BY <3>1 DEF RefreshInv, PhaseInv, Exchanging
  <2>2. CASE granted
    <3>1. /\ grant.status = "active" /\ grant.revision = worker[w].revision
          /\ grant' = [grant EXCEPT !.status = "refreshing", !.claim = w, !.due = FALSE]
          /\ worker' = [worker EXCEPT ![w].phase = "claimed"] /\ spent' = spent
          /\ worker[w].phase = "read"
      BY <1>2, <2>2 DEF ClaimGiteeRefresh
    <3>2. grant'.status = "refreshing" /\ grant'.claim = w /\ grant'.revision = grant.revision
      BY <3>1 DEF ConnTypeOK, Grants
    <3>3. \A v \in Workers : ~Exchanging(v)
      BY <3>1 DEF RefreshInv
    <3>4. spent < grant.revision /\ worker[w].answer = "none"
      BY <3>1 DEF RefreshInv, PhaseInv, ConnTypeOK
    <3> QED BY <3>1, <3>2, <3>3, <3>4 DEF RefreshInv, PhaseInv, Exchanging, ConnTypeOK
  <2> QED BY <2>1, <2>2
<1>3. CASE Refresh(w)
  <2>1. /\ worker[w].phase = "claimed" /\ grant' = grant
        /\ spent' \in {spent, worker[w].revision}
        /\ \E a \in {"token", "failed", "rate"} :
             /\ worker' = [worker EXCEPT ![w].phase = "answered", ![w].answer = a]
             /\ a = "rate" => spent' = spent
    BY <1>3 DEF Refresh, Later
  <2> QED BY <2>1 DEF RefreshInv, PhaseInv, Exchanging, ConnTypeOK
<1>4. CASE CompleteGiteeRefresh(w)
  <2>1. worker' = [worker EXCEPT ![w] = Idle] /\ spent' = spent /\ worker[w].phase = "answered"
    BY <1>4 DEF CompleteGiteeRefresh
  <2>2. CASE UNCHANGED grant
    BY <2>1, <2>2 DEF RefreshInv, PhaseInv, Exchanging
  <2>3. CASE grant' # grant
    <3>1. /\ grant.status = "refreshing" /\ grant.claim = w /\ grant.revision = worker[w].revision
          /\ grant' = Completed(worker[w].answer)
      BY <1>4, <2>3 DEF CompleteGiteeRefresh
    <3>2. CASE worker[w].answer = "rate"
      <4>1. grant'.status = "active" /\ grant'.revision = grant.revision
        BY <3>1, <3>2 DEF Completed, ConnTypeOK, Grants
      <4>2. \A v \in Workers \ {w} : ~Exchanging(v)
        BY <3>1 DEF RefreshInv
      <4>3. spent < grant.revision
        BY <2>1, <3>1, <3>2 DEF RefreshInv, Exchanging
      <4> QED BY <2>1, <4>1, <4>2, <4>3 DEF RefreshInv, PhaseInv, Exchanging
    <3>3. CASE worker[w].answer # "rate"
      <4>1. grant'.revision = grant.revision + 1
        BY <3>1, <3>3 DEF Completed, Withdrawn, ConnTypeOK, Grants
      <4> QED BY <2>1, <4>1, RefreshAnew
    <3> QED BY <3>2, <3>3
  <2> QED BY <2>2, <2>3
<1>5. CASE WorkerDies(w)
  <2>1. /\ worker' = [worker EXCEPT ![w] = Idle] /\ grant' = grant
        /\ spent' \in {spent, worker[w].revision}
        /\ spent' # spent => worker[w].phase = "claimed"
    BY <1>5 DEF WorkerDies, Later
  <2> QED BY <2>1 DEF RefreshInv, PhaseInv, Exchanging
<1> QED BY <1>1, <1>2, <1>3, <1>4, <1>5
-----------------------------------------------------------------------------
(* What counts as checked.                                                 *)

\* Only imports touch the repository; a new revision of the App outdates the
\* snapshots of the former.
LEMMA ImportStep ==
  ASSUME ConnTypeOK, ImportInv, repo.app = repo.verified, [ConnNext]_connVars
  PROVE  ImportInv' /\ repo'.app = repo'.verified
<1>1. app.revision \in Nat /\ (importing # Nil => importing.revision \in Nat)
  BY ConnectionsAssumption DEF ConnTypeOK, Revisions
<1>2. CASE UNCHANGED <<provider, app, importing, repo>>
  BY <1>2 DEF ImportInv
<1>3. ASSUME NEW id \in AppIds, SaveIntegrationApp(id) PROVE ImportInv' /\ repo'.app = repo'.verified
  BY <1>1, <1>3 DEF SaveIntegrationApp, ImportInv, importVars, worldVars
<1>4. CASE StartImport
  <2>1. UNCHANGED <<provider, app, repo>>
    BY <1>4 DEF StartImport, worldVars, githubVars
  <2>2. CASE ImportFromGitHub
    BY <1>1, <2>1, <2>2 DEF ImportFromGitHub, ImportInv
  <2>3. CASE ImportFromGitee
    BY <2>1, <2>3 DEF ImportFromGitee, ImportInv
  <2> QED BY <1>4, <2>2, <2>3 DEF StartImport
<1>5. CASE ImportRepositories
  BY <1>1, <1>5 DEF ImportRepositories, SameIntegration, ImportInv
<1>6. CASE ImportGiteeRepositories
  BY <1>6 DEF ImportGiteeRepositories, ImportInv
<1>7. CASE ImportFails
  BY <1>7 DEF ImportFails, ImportInv
<1>8. ASSUME World \/ Authorizing \/ Access \/ Automating PROVE UNCHANGED <<provider, app, importing, repo>>
  <2>1. CASE World
    BY <2>1 DEF World, RightsChange, LoginReplaced, ExpireTrip, PruneIntegrationCredentials,
                GrantAges, ClaimDue, RetryPasses, githubVars, importVars
  <2>2. CASE Authorizing
    BY <2>2 DEF Authorizing, BeginIntegrationFlow, ConsumeIntegrationFlow, SaveIntegrationProof,
                BeginGiteeFlow, ConsumeGiteeFlow, SaveGiteeGrant, ExchangeFails, RevokeGiteeGrant,
                worldVars, githubVars, importVars
  <2>3. CASE Access
    BY <2>3 DEF Access, GiteeGrant, ClaimGiteeRefresh, Refresh, CompleteGiteeRefresh, WorkerDies,
                worldVars, githubVars, importVars
  <2>4. CASE Automating
    BY <2>4 DEF Automating, SaveGiteeWebhook, ValidationTarget, ReadPipeline, RecordValidation,
                ValidationFails, UpdateProjectAutomation, worldVars, githubVars, importVars
  <2> QED BY <1>8, <2>1, <2>2, <2>3, <2>4
<1>9. ASSUME SaveApp \/ SaveAppFails PROVE UNCHANGED <<provider, app, importing, repo>>
  BY <1>9 DEF SaveApp, SaveAppFails, worldVars, importVars
<1>10. CASE UNCHANGED connVars
  BY <1>2, <1>10 DEF connVars
<1> QED BY <1>2, <1>3, <1>4, <1>5, <1>6, <1>7, <1>8, <1>9, <1>10 DEF ConnNext, App, Importing

\* A validation is recorded, and automation enabled, only with what was read.
LEMMA EvidenceStep ==
  ASSUME ConnInv, [ConnNext]_connVars PROVE EvidenceGenuine'
<1> USE DEF ConnInv
<1>1. repo'.app = repo'.verified
  BY ImportStep DEF EvidenceGenuine
<1>2. CASE UNCHANGED <<validation, settings>>
  BY <1>1, <1>2 DEF EvidenceGenuine
<1>3. CASE RecordValidation
  BY <1>1, <1>3 DEF RecordValidation, SameTarget, EvidenceGenuine
<1>4. ASSUME NEW path \in Paths, NEW enabled \in BOOLEAN, UpdateProjectAutomation(path, enabled)
      PROVE  EvidenceGenuine'
  <2>1. /\ validation' = validation
        /\ settings' = [revision |-> settings.revision + 1, enabled |-> enabled, path |-> path,
                        seen |-> IF enabled THEN validation.seen[1] ELSE Nil]
        /\ enabled => validation # Nil /\ validation.path = path
    BY <1>4 DEF UpdateProjectAutomation, Ready
  <2> QED BY <1>1, <2>1 DEF EvidenceGenuine
<1>5. ASSUME World \/ App \/ Authorizing \/ Access \/ Importing PROVE UNCHANGED <<validation, settings>>
  <2>1. CASE World
    BY <2>1 DEF World, RightsChange, LoginReplaced, ExpireTrip, PruneIntegrationCredentials,
                GrantAges, ClaimDue, RetryPasses, automationVars
  <2>2. CASE App
    BY <2>2 DEF App, SaveApp, SaveIntegrationApp, SaveAppFails, automationVars
  <2>3. CASE Authorizing
    BY <2>3 DEF Authorizing, BeginIntegrationFlow, ConsumeIntegrationFlow, SaveIntegrationProof,
                BeginGiteeFlow, ConsumeGiteeFlow, SaveGiteeGrant, ExchangeFails, RevokeGiteeGrant,
                automationVars
  <2>4. CASE Access
    BY <2>4 DEF Access, GiteeGrant, ClaimGiteeRefresh, Refresh, CompleteGiteeRefresh, WorkerDies,
                automationVars
  <2>5. CASE Importing
    BY <2>5 DEF Importing, StartImport, ImportRepositories, ImportGiteeRepositories, ImportFails,
                automationVars
  <2> QED BY <1>5, <2>1, <2>2, <2>3, <2>4, <2>5
<1>6. ASSUME SaveGiteeWebhook \/ ValidationTarget \/ ReadPipeline \/ ValidationFails
      PROVE  UNCHANGED <<validation, settings>>
  BY <1>6 DEF SaveGiteeWebhook, ValidationTarget, ReadPipeline, ValidationFails, automationVars
<1>7. CASE UNCHANGED connVars
  BY <1>2, <1>7 DEF connVars
<1> QED BY <1>2, <1>3, <1>4, <1>5, <1>6, <1>7 DEF ConnNext, Automating

-----------------------------------------------------------------------------
\* The invariant holds in every state, whatever the requests, the provider and
\* the world around them do.
THEOREM ConnInvariance == ConnSpec => []ConnInv
<1>1. ConnInit => ConnInv
  BY ConnInitInv
<1>2. ASSUME ConnInv, [ConnNext]_connVars PROVE ConnInv'
  <2>1. ConnTypeOK'
    BY <1>2, TypeStep DEF ConnInv
  <2>2. RefreshInv' /\ PhaseInv'
    <3>1. CASE UNCHANGED connVars
      BY <1>2, <3>1 DEF connVars, ConnInv, RefreshInv, PhaseInv, Exchanging
    <3>2. CASE Access
      BY <1>2, <3>2, RefreshAccess DEF Access, ConnInv
    <3> QED BY <1>2, <3>1, <3>2, RefreshOther DEF ConnNext, ConnInv
  <2>3. ImportInv'
    BY <1>2, ImportStep DEF ConnInv, EvidenceGenuine
  <2>4. EvidenceGenuine'
    BY <1>2, EvidenceStep
  <2> QED BY <2>1, <2>2, <2>3, <2>4 DEF ConnInv
<1> QED BY <1>1, <1>2, PTL DEF ConnSpec

\* The rows and snapshots keep their types.
THEOREM ConnTypeCorrect == ConnSpec => []ConnTypeOK
<1>1. ConnInv => ConnTypeOK
  BY DEF ConnInv
<1> QED BY <1>1, ConnInvariance, PTL

\* No usable grant holds a refresh token that Gitee has exchanged
\* (ClaimGiteeRefresh, CompleteGiteeRefresh, GiteeGrant).
THEOREM TokenUnspent == ConnSpec => []NoSpentToken
<1>1. ConnInv => NoSpentToken
  BY TokenTypes DEF ConnInv, RefreshInv, NoSpentToken
<1> QED BY <1>1, ConnInvariance, PTL

\* What is recorded as checked was checked (RecordGiteeValidation,
\* UpdateProjectAutomation, ImportRepositories).
THEOREM EvidenceHolds == ConnSpec => []EvidenceGenuine
<1>1. ConnInv => EvidenceGenuine
  BY DEF ConnInv
<1> QED BY <1>1, ConnInvariance, PTL
=============================================================================
