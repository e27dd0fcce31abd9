----------------------------- MODULE Connections ----------------------------
(***************************************************************************)
(* The connection of a project to its provider: the GitHub App or the      *)
(* Gitee grant, the import of the repository and the validation that lets  *)
(* its automation be enabled (internal/integration, internal/gitee,        *)
(* internal/githubapp; internal/store/postgres: integration.go, gitee.go,  *)
(* gitee_automation.go, gitee_repositories.go, project_automation.go).     *)
(*                                                                         *)
(* Every operation is a snapshot taken in one transaction, calls to the    *)
(* provider outside of any, and a second transaction that compares the     *)
(* snapshot with the rows as they are by then.  In between the             *)
(* administrator may lose the session or the rights, the login             *)
(* configuration may be replaced, the App saved again, the grant refreshed *)
(* by another request, revoked or given anew, the settings changed.        *)
(*                                                                         *)
(* The first administrator's provider never changes (module Login), so an  *)
(* installation uses one of the two providers.  One administrator, one     *)
(* project.  Revisions, UUIDs in the code, are numbers.                    *)
(***************************************************************************)
EXTENDS Naturals, FiniteSets

CONSTANTS
  Workers,      \* requests and background work that use the Gitee grant
  Paths,        \* pipeline paths
  DefaultPath,  \* .yuanci.yml
  Nil,
  AppIds,       \* identifiers of GitHub Apps
  AppLimit, RevisionLimit, LoginLimit, TripLimit, SettingsLimit, HookLimit,  \* bounds
  EventLimit    \* how often the world around the requests changes

ASSUME ConnectionsAssumption ==
  /\ DefaultPath \in Paths
  /\ Nil \notin Workers
  /\ AppLimit \in 0..RevisionLimit
  /\ {RevisionLimit, TripLimit, SettingsLimit, HookLimit, EventLimit} \subseteq Nat
  /\ LoginLimit \in Nat \ {0}
  /\ AppIds \subseteq Nat \ {0}

VARIABLES
  provider,    \* "github" or "gitee"
  rights,      \* "session": an administrator with a session; "admin": without; "none"
  events,      \* how often the world around the requests has changed
  login,       \* the number of the active login configuration
  app,         \* github_app_configs: revision, App id, login configuration
  saving,      \* the snapshot of a request that saves the App
  flow,        \* github_import_flows or gitee_oauth_flows: the row of the session
  exchange,    \* the snapshot of a callback that exchanges its code
  proof,       \* github_import_proofs: the row of the session
  importing,   \* the snapshot of a request that imports the repository
  repo,        \* the repository: 0 or the App id / 1 for Gitee, and what verified it
  grant,       \* gitee_authorizations: the row of the administrator
  worker,      \* worker[w]: where a use of the grant stands (Service.Access)
  spent,       \* the last revision of the grant whose refresh token Gitee exchanged
  hook,        \* the revision of gitee_webhook_configs
  settings,    \* repository_automation_settings
  validation,  \* the row of the last recorded validation
  validator    \* the request that validates the pipeline

connVars == <<provider, rights, events, login, app, saving, flow, exchange, proof, importing,
              repo, grant, worker, spent, hook, settings, validation, validator>>

githubVars == <<app, saving, proof>>
giteeVars == <<grant, worker, spent, hook>>
automationVars == <<settings, validation, validator>>
importVars == <<importing, repo>>
flowVars == <<flow, exchange>>
worldVars == <<provider, rights, login, events>>

Revisions == 0..RevisionLimit
Logins == 1..LoginLimit
NoFlow(n) == [id |-> n, phase |-> "none", login |-> 1, app |-> 0]
Idle == [phase |-> "idle", revision |-> 0, answer |-> "none"]
NoValidator == [phase |-> "idle", settings |-> 0, path |-> DefaultPath, hook |-> 0,
                revision |-> 0]

Grants == [status : {"none", "active", "refreshing", "revoked"}, revision : Revisions,
           login : Logins, age : {"fresh", "near", "past"},
           claim : Workers \cup {Nil}, due : BOOLEAN, wait : BOOLEAN]
Validators == [phase : {"idle", "target", "read"}, settings : 0..SettingsLimit,
               path : Paths, hook : 0..HookLimit, revision : Revisions]

ConnTypeOK ==
  /\ provider \in {"github", "gitee"} /\ rights \in {"session", "admin", "none"}
  /\ login \in Logins /\ events \in 0..EventLimit
  /\ app \in [revision : Revisions, id : AppIds \cup {0}, login : Logins]
  /\ saving = Nil \/ saving \in [revision : Revisions, login : Logins]
  /\ flow \in [id : 0..TripLimit, phase : {"none", "begun", "consumed"}, login : Logins,
               app : Revisions]
  /\ exchange = Nil \/ exchange \in [flow : 0..TripLimit, login : Logins, revision : Revisions]
  /\ proof = Nil \/ proof \in [id : 0..TripLimit, login : Logins, app : Revisions]
  /\ importing = Nil \/
       importing \in [login : Logins, revision : Revisions, proof : 0..TripLimit,
                      verified : AppIds \cup {0, 1}]
  /\ repo \in [app : AppIds \cup {0, 1}, verified : AppIds \cup {0, 1}]
  /\ grant \in Grants
  /\ worker \in [Workers -> [phase : {"idle", "read", "claimed", "answered"},
                             revision : Revisions,
                             answer : {"none", "token", "rate", "failed"}]]
  /\ spent \in Revisions /\ hook \in 0..HookLimit
  /\ settings \in [revision : 0..SettingsLimit, enabled : BOOLEAN, path : Paths,
                   seen : Paths \cup {Nil}]
  /\ validation = Nil \/
       validation \in [settings : 0..SettingsLimit, path : Paths, revision : Revisions,
                       hook : 0..HookLimit, seen : Paths \X Revisions \X (0..HookLimit)]
  /\ validator \in Validators

-----------------------------------------------------------------------------
\* What the transactions see.

\* settingsAccess: a session of an account that is an administrator now.  The
\* automation of a project asks for RepositoryManage on it instead; the two
\* rights come and go together here.
Admitted == rights = "session"

\* The App is configured for the login configuration in force.
AppCurrent == app.revision # 0 /\ app.login = login

\* integrationSnapshot: a proof counts while it is of this App revision and
\* of this login configuration.
ProofCurrent == proof # Nil /\ proof.login = login /\ proof.app = app.revision

\* sameIntegration, without the proof.
SameIntegration(snapshot) == snapshot.login = login /\ snapshot.revision = app.revision

\* sameGitee: the same login configuration and the same revision of the grant.
SameGitee(snapshot) == snapshot.login = login /\ snapshot.revision = grant.revision

\* liveGiteeGrant: the owner is still an administrator and the login
\* configuration of the grant still in force.
GrantLive == grant.status # "none" /\ grant.login = login /\ rights # "none"

\* The grant, when its row is asked for (giteeBindingQuery).
Bound == GrantLive /\ grant.status # "revoked"

\* checkGiteeGrant.
GrantUsable(revision) ==
  /\ grant.status = "active" /\ grant.revision = revision
  /\ grant.login = login /\ grant.age # "past"

-----------------------------------------------------------------------------
\* The world around a request: sessions and rights come and go, the login
\* configuration is replaced (module Login), rows run out of time.

Event == events < EventLimit /\ events' = events + 1

RightsChange ==
  /\ Event
  /\ \E r \in {"session", "admin", "none"} \ {rights} : rights' = r
  /\ UNCHANGED <<provider, login, githubVars, giteeVars, automationVars, importVars, flowVars>>

LoginReplaced ==
  /\ Event
  /\ login < LoginLimit
  /\ login' = login + 1
  /\ UNCHANGED <<provider, rights, githubVars, giteeVars, automationVars, importVars, flowVars>>

ExpireTrip ==
  /\ Event
  /\ flow.phase # "none"
  /\ flow' = NoFlow(flow.id)
  /\ UNCHANGED <<provider, rights, login, githubVars, giteeVars, automationVars, importVars, exchange>>

\* PruneIntegrationCredentials removes what is out of time, without a session
\* or of a former login configuration or App; the deadlines do the same.
PruneIntegrationCredentials ==
  /\ Event
  /\ proof # Nil
  /\ proof' = Nil
  /\ UNCHANGED <<provider, rights, login, app, saving, giteeVars, automationVars, importVars, flowVars>>

GrantAges ==
  /\ Event
  /\ grant.status \in {"active", "refreshing"} /\ grant.age # "past"
  /\ grant' = [grant EXCEPT !.age = IF @ = "fresh" THEN "near" ELSE "past"]
  /\ UNCHANGED <<provider, rights, login, githubVars, worker, spent, hook, automationVars, importVars, flowVars>>

\* A minute after the claim; the end of the delay that Gitee asked for.
ClaimDue ==
  /\ Event
  /\ grant.status = "refreshing" /\ ~grant.due
  /\ grant' = [grant EXCEPT !.due = TRUE]
  /\ UNCHANGED <<provider, rights, login, githubVars, worker, spent, hook, automationVars, importVars, flowVars>>

RetryPasses ==
  /\ Event
  /\ grant.wait
  /\ grant' = [grant EXCEPT !.wait = FALSE]
  /\ UNCHANGED <<provider, rights, login, githubVars, worker, spent, hook, automationVars, importVars, flowVars>>

-----------------------------------------------------------------------------
\* The GitHub App (integration/service.go Save, SaveIntegrationApp).

SaveApp ==
  /\ provider = "github" /\ Admitted /\ saving = Nil
  /\ saving' = [revision |-> app.revision, login |-> login]
  /\ UNCHANGED <<worldVars, app, proof, giteeVars, automationVars, importVars, flowVars>>

\* The provider confirmed that the key is of the App whose client id the login
\* configuration has; a new revision drops the flows and proofs of the former.
SaveIntegrationApp(id) ==
  /\ saving # Nil /\ Admitted /\ SameIntegration(saving)
  /\ app.revision < AppLimit
  /\ AppCurrent => id = app.id
  /\ app' = [revision |-> app.revision + 1, id |-> id, login |-> login]
  /\ flow' = NoFlow(flow.id)
  /\ proof' = Nil /\ saving' = Nil
  /\ UNCHANGED <<worldVars, giteeVars, automationVars, importVars, exchange>>

\* The request ends without a change: the provider or a check refused.
SaveAppFails ==
  /\ saving # Nil
  /\ saving' = Nil
  /\ UNCHANGED <<worldVars, app, proof, giteeVars, automationVars, importVars, flowVars>>

-----------------------------------------------------------------------------
\* Authorizing: the administrator goes to the provider and comes back.

BeginIntegrationFlow ==
  /\ provider = "github" /\ Admitted /\ AppCurrent
  /\ flow.id < TripLimit
  /\ flow' = [id |-> flow.id + 1, phase |-> "begun", login |-> login, app |-> app.revision]
  /\ proof' = Nil
  /\ UNCHANGED <<worldVars, app, saving, giteeVars, automationVars, importVars, exchange>>

ConsumeIntegrationFlow ==
  /\ provider = "github" /\ Admitted /\ AppCurrent
  /\ exchange = Nil
  /\ flow.phase = "begun" /\ flow.login = login /\ flow.app = app.revision
  /\ flow' = [flow EXCEPT !.phase = "consumed"]
  /\ exchange' = [flow |-> flow.id, login |-> login, revision |-> app.revision]
  /\ UNCHANGED <<worldVars, githubVars, giteeVars, automationVars, importVars>>

SaveIntegrationProof ==
  /\ provider = "github" /\ exchange # Nil
  /\ Admitted /\ SameIntegration(exchange) /\ app.revision # 0
  /\ flow.id = exchange.flow /\ flow.phase = "consumed"
  /\ proof' = [id |-> flow.id, login |-> login, app |-> app.revision]
  /\ flow' = NoFlow(flow.id) /\ exchange' = Nil
  /\ UNCHANGED <<worldVars, app, saving, giteeVars, automationVars, importVars>>

BeginGiteeFlow ==
  /\ provider = "gitee" /\ Admitted
  /\ flow.id < TripLimit
  /\ flow' = [id |-> flow.id + 1, phase |-> "begun", login |-> login, app |-> 0]
  /\ UNCHANGED <<worldVars, githubVars, giteeVars, automationVars, importVars, exchange>>

ConsumeGiteeFlow ==
  /\ provider = "gitee" /\ Admitted
  /\ exchange = Nil
  /\ flow.phase = "begun" /\ flow.login = login
  /\ flow' = [flow EXCEPT !.phase = "consumed"]
  /\ exchange' = [flow |-> flow.id, login |-> login, revision |-> grant.revision]
  /\ UNCHANGED <<worldVars, githubVars, giteeVars, automationVars, importVars>>

\* A grant given anew replaces the row whatever its state, a claim on it
\* included.
SaveGiteeGrant ==
  /\ provider = "gitee" /\ exchange # Nil
  /\ Admitted /\ SameGitee(exchange)
  /\ flow.id = exchange.flow /\ flow.phase = "consumed"
  /\ grant.revision < RevisionLimit
  /\ grant' = [status |-> "active", revision |-> grant.revision + 1, login |-> login,
               age |-> "fresh", claim |-> Nil, due |-> FALSE, wait |-> FALSE]
  /\ flow' = NoFlow(flow.id) /\ exchange' = Nil
  /\ UNCHANGED <<worldVars, githubVars, worker, spent, hook, automationVars, importVars>>

ExchangeFails ==
  /\ exchange # Nil
  /\ exchange' = Nil
  /\ UNCHANGED <<worldVars, githubVars, giteeVars, automationVars, importVars, flow>>

Withdrawn == [grant EXCEPT !.status = "revoked", !.revision = @ + 1, !.claim = Nil,
                           !.due = FALSE]

RevokeGiteeGrant ==
  /\ provider = "gitee" /\ Admitted
  /\ grant.status # "none" /\ grant.revision < RevisionLimit
  /\ grant' = Withdrawn
  /\ UNCHANGED <<worldVars, githubVars, worker, spent, hook, automationVars, importVars, flowVars>>

-----------------------------------------------------------------------------
\* Using the Gitee grant (gitee/service.go Access): a grant close to its end
\* is refreshed by one request at a time, since the exchange of a refresh
\* token uses it up.

MutantReclaim ==
  IF grant.status = "refreshing" /\ grant.due
  THEN [grant EXCEPT !.status = "active", !.claim = Nil, !.due = FALSE] ELSE grant

\* GiteeGrant: a claim that ran out of time leaves it unknown whether the
\* token was exchanged, and the grant is withdrawn.
Reclaimed == IF grant.status = "refreshing" /\ grant.due THEN Withdrawn ELSE grant

GiteeGrant(w) ==
  /\ worker[w].phase = "idle"
  /\ grant.status # "none" /\ grant.revision < RevisionLimit
  /\ ~(Bound /\ grant.status = "active" /\ grant.age = "fresh")
  /\ grant' = Reclaimed
  /\ worker' = [worker EXCEPT ![w] =
                  IF Bound /\ grant'.status # "revoked"
                  THEN [phase |-> "read", revision |-> grant.revision, answer |-> "none"]
                  ELSE Idle]
  /\ UNCHANGED <<worldVars, githubVars, spent, hook, automationVars, importVars, flowVars>>

ClaimGiteeRefresh(w) ==
  /\ worker[w].phase = "read"
  /\ IF GrantLive /\ grant.status = "active" /\ grant.revision = worker[w].revision /\ ~grant.wait
     THEN /\ grant' = [grant EXCEPT !.status = "refreshing", !.claim = w, !.due = FALSE]
          /\ worker' = [worker EXCEPT ![w].phase = "claimed"]
     ELSE /\ worker' = [worker EXCEPT ![w] = Idle]
          /\ UNCHANGED grant
  /\ UNCHANGED <<worldVars, githubVars, spent, hook, automationVars, importVars, flowVars>>

Later(a, b) == IF a > b THEN a ELSE b

\* Gitee exchanges the refresh token, refuses for its rate, or the call fails
\* with or without the exchange having happened.
Refresh(w) ==
  /\ worker[w].phase = "claimed"
  /\ \/ /\ spent' = Later(spent, worker[w].revision)
        /\ \E a \in {"token", "failed"} :
             worker' = [worker EXCEPT ![w].phase = "answered", ![w].answer = a]
     \/ /\ \E a \in {"rate", "failed"} :
             worker' = [worker EXCEPT ![w].phase = "answered", ![w].answer = a]
        /\ UNCHANGED spent
  /\ UNCHANGED <<worldVars, githubVars, grant, hook, automationVars, importVars, flowVars>>

\* The row a completion writes: the new token under a new revision, the old
\* one with a delay, or a withdrawn grant when the outcome is not known.
Completed(answer) ==
  CASE answer = "token" -> [grant EXCEPT !.status = "active", !.revision = @ + 1,
                                         !.age = "fresh", !.claim = Nil]
    [] answer = "rate"  -> [grant EXCEPT !.status = "active", !.claim = Nil, !.wait = TRUE]
    [] OTHER            -> Withdrawn

CompleteGiteeRefresh(w) ==
  /\ worker[w].phase = "answered"
  /\ grant.revision < RevisionLimit
  /\ grant' = IF /\ GrantLive /\ grant.status = "refreshing"
                 /\ grant.revision = worker[w].revision
                 /\ grant.claim = w /\ ~grant.due
              THEN Completed(worker[w].answer) ELSE grant
  /\ worker' = [worker EXCEPT ![w] = Idle]
  /\ UNCHANGED <<worldVars, githubVars, spent, hook, automationVars, importVars, flowVars>>

\* The process that serves the request dies; after the claim, the exchange of
\* the token may still reach Gitee.
WorkerDies(w) ==
  /\ worker[w].phase # "idle"
  /\ worker' = [worker EXCEPT ![w] = Idle]
  /\ \/ UNCHANGED spent
     \/ worker[w].phase = "claimed" /\ spent' = Later(spent, worker[w].revision)
  /\ UNCHANGED <<worldVars, githubVars, grant, hook, automationVars, importVars, flowVars>>

-----------------------------------------------------------------------------
\* Importing the repository.

\* authorized, installation: GitHub names the installations of the person and
\* confirms this one with the key of the App in the snapshot.
ImportFromGitHub ==
  /\ provider = "github" /\ app.revision # 0 /\ ProofCurrent
  /\ importing' = [login |-> login, revision |-> app.revision, proof |-> proof.id,
                   verified |-> app.id]

\* repositoryAccess: Gitee shows the repository to the token of the revision
\* pinned here.
ImportFromGitee ==
  /\ provider = "gitee" /\ GrantUsable(grant.revision)
  /\ importing' = [login |-> login, revision |-> grant.revision, proof |-> 0, verified |-> 1]

\* An import of a repository that is there already changes nothing or is
\* refused, and is left out.
StartImport ==
  /\ Admitted /\ importing = Nil /\ repo.app = 0
  /\ ImportFromGitHub \/ ImportFromGitee
  /\ UNCHANGED <<worldVars, githubVars, giteeVars, automationVars, repo, flowVars>>

\* The installation, and with it the repository, is recorded for the App in
\* force at this moment.
ImportRepositories ==
  /\ provider = "github" /\ importing # Nil
  /\ Admitted /\ SameIntegration(importing) /\ AppCurrent
  /\ ProofCurrent /\ proof.id = importing.proof
  /\ repo' = [app |-> app.id, verified |-> importing.verified]
  /\ importing' = Nil
  /\ UNCHANGED <<worldVars, githubVars, giteeVars, automationVars, flowVars>>

ImportGiteeRepositories ==
  /\ provider = "gitee" /\ importing # Nil
  /\ Admitted /\ GrantUsable(importing.revision)
  /\ repo' = [app |-> 1, verified |-> importing.verified]
  /\ importing' = Nil
  /\ UNCHANGED <<worldVars, githubVars, giteeVars, automationVars, flowVars>>

ImportFails ==
  /\ importing # Nil
  /\ importing' = Nil
  /\ UNCHANGED <<worldVars, githubVars, giteeVars, automationVars, repo, flowVars>>

-----------------------------------------------------------------------------
\* Automation of the project.

SaveGiteeWebhook ==
  /\ provider = "gitee" /\ Admitted /\ repo.app # 0 /\ Bound
  /\ hook < HookLimit
  /\ hook' = hook + 1
  /\ UNCHANGED <<worldVars, githubVars, grant, worker, spent, automationVars, importVars, flowVars>>

\* ResolveGitHubRepository: the repository's installation is of the App in
\* force; giteeBindingQuery.
Resolved == /\ repo.app # 0
            /\ IF provider = "github" THEN AppCurrent /\ repo.app = app.id ELSE Bound

\* The revision of the credentials with which the provider is asked.
CredentialRevision == IF provider = "github" THEN app.revision ELSE grant.revision

\* The binding and the webhook that Gitee's validation needs besides.
GiteeValidationTarget == Bound /\ hook # 0

\* GetProjectAutomationValidationTarget, GiteeValidationTarget.
ValidationTarget ==
  /\ Admitted /\ repo.app # 0 /\ validator.phase = "idle"
  /\ provider = "gitee" => GiteeValidationTarget
  /\ validator' = [phase |-> "target", settings |-> settings.revision,
                   path |-> settings.path, hook |-> hook, revision |-> 0]
  /\ UNCHANGED <<worldVars, githubVars, giteeVars, settings, validation, importVars, flowVars>>

\* Pin the credentials, read the file at one commit and compile it.
ValidateDefaultPipeline ==
  /\ provider = "github" /\ Resolved
  /\ validator' = [validator EXCEPT !.phase = "read", !.revision = app.revision]

ValidateProject ==
  /\ provider = "gitee" /\ Resolved
  /\ validator' = [validator EXCEPT !.phase = "read", !.revision = grant.revision]

ReadPipeline ==
  /\ validator.phase = "target"
  /\ ValidateDefaultPipeline \/ ValidateProject
  /\ UNCHANGED <<worldVars, githubVars, giteeVars, settings, validation, importVars, flowVars>>

MutantSameCredentials == validator.revision = CredentialRevision /\ validator.hook = hook

\* What the recording transaction compares with the rows of that moment.
SameTarget ==
  /\ validator.settings = settings.revision /\ validator.path = settings.path
  /\ validator.revision = CredentialRevision /\ validator.hook = hook

\* RecordProjectAutomationValidation, RecordGiteeValidation: the row is made
\* of the settings as they are by then (seen, what was really read, is history).
\* GitHub's writes the values of the request, which were just compared with them.
RecordValidation ==
  /\ validator.phase = "read"
  /\ Admitted /\ Resolved /\ SameTarget
  /\ provider = "gitee" => GrantUsable(validator.revision)
  /\ validation' = [settings |-> settings.revision, path |-> settings.path,
                    revision |-> CredentialRevision, hook |-> hook,
                    seen |-> <<validator.path, validator.revision, validator.hook>>]
  /\ validator' = NoValidator
  /\ UNCHANGED <<worldVars, githubVars, giteeVars, settings, importVars, flowVars>>

ValidationFails ==
  /\ validator.phase # "idle"
  /\ validator' = NoValidator
  /\ UNCHANGED <<worldVars, githubVars, giteeVars, settings, validation, importVars, flowVars>>

\* The validation that enabling needs: of these settings, this path and the
\* credentials in force.
Ready(path) ==
  /\ validation # Nil /\ Resolved
  /\ validation.settings = settings.revision /\ validation.path = path
  /\ validation.revision = CredentialRevision
  /\ provider = "gitee" => validation.hook = hook /\ GrantUsable(grant.revision)

\* UpdateProjectAutomation, for a caller who saw the settings in force.
UpdateProjectAutomation(path, enabled) ==
  /\ Admitted /\ repo.app # 0 /\ settings.revision < SettingsLimit
  /\ enabled => Ready(path)
  /\ settings' = [revision |-> settings.revision + 1, enabled |-> enabled, path |-> path,
                  seen |-> IF enabled THEN validation.seen[1] ELSE Nil]
  /\ UNCHANGED <<worldVars, githubVars, giteeVars, validation, validator, importVars, flowVars>>

-----------------------------------------------------------------------------
ConnInit ==
  /\ provider \in {"github", "gitee"} /\ rights = "session" /\ login = 1 /\ events = 0
  /\ app = [revision |-> 0, id |-> 0, login |-> 1]
  /\ saving = Nil /\ flow = NoFlow(0) /\ exchange = Nil /\ proof = Nil
  /\ importing = Nil /\ repo = [app |-> 0, verified |-> 0]
  /\ grant = [status |-> "none", revision |-> 0, login |-> 1, age |-> "fresh",
              claim |-> Nil, due |-> FALSE, wait |-> FALSE]
  /\ worker = [w \in Workers |-> Idle] /\ spent = 0 /\ hook = 0
  /\ settings = [revision |-> 0, enabled |-> FALSE, path |-> DefaultPath, seen |-> Nil]
  /\ validation = Nil /\ validator = NoValidator

World == \/ RightsChange \/ LoginReplaced \/ ExpireTrip \/ PruneIntegrationCredentials
         \/ GrantAges \/ ClaimDue \/ RetryPasses
App == SaveApp \/ (\E id \in AppIds : SaveIntegrationApp(id)) \/ SaveAppFails
Authorizing == \/ BeginIntegrationFlow \/ ConsumeIntegrationFlow \/ SaveIntegrationProof
               \/ BeginGiteeFlow \/ ConsumeGiteeFlow \/ SaveGiteeGrant
               \/ ExchangeFails \/ RevokeGiteeGrant
Access == \E w \in Workers : \/ GiteeGrant(w) \/ ClaimGiteeRefresh(w) \/ Refresh(w)
                             \/ CompleteGiteeRefresh(w) \/ WorkerDies(w)
Importing == StartImport \/ ImportRepositories \/ ImportGiteeRepositories \/ ImportFails
Automating == \/ SaveGiteeWebhook \/ ValidationTarget \/ ReadPipeline
              \/ RecordValidation \/ ValidationFails
              \/ \E path \in Paths, enabled \in BOOLEAN : UpdateProjectAutomation(path, enabled)

ConnNext == World \/ App \/ Authorizing \/ Access \/ Importing \/ Automating

ConnSpec == ConnInit /\ [][ConnNext]_connVars

-----------------------------------------------------------------------------
\* No grant that may be used holds a refresh token which Gitee has already
\* exchanged: neither two requests that refresh at once, nor a lost answer, a
\* late one, a dead process or a new authorization in between may leave it
\* (ClaimGiteeRefresh, CompleteGiteeRefresh, GiteeGrant).
NoSpentToken == grant.status = "active" => grant.revision # spent

\* What is recorded as checked was checked: the pipeline of the validation row
\* was read under that path with those credentials, the path of an enabled
\* automation was read, and the installation of the repository was confirmed
\* with the key of the App it is recorded for, whatever changed while the
\* provider was asked (RecordGiteeValidation, UpdateProjectAutomation,
\* ImportRepositories).
EvidenceGenuine ==
  /\ validation # Nil =>
       validation.seen = <<validation.path, validation.revision, validation.hook>>
  /\ settings.enabled => settings.seen = settings.path
  /\ repo.app = repo.verified
=============================================================================
