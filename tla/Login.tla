------------------------------- MODULE Login --------------------------------
(***************************************************************************)
(* Logging in and administering the login (internal/store/postgres:        *)
(* oauth.go, provisioning.go, identity.go; internal/provisioning;          *)
(* internal/httpapi: oauth.go, provisioning.go, browser.go).               *)
(*                                                                         *)
(* A browser keeps three cookies: its session, the nonce of the login flow *)
(* it began last and its setup session.  A login is a flow row that the    *)
(* callback first consumes (one transaction), then, after the provider has *)
(* said who the person is, completes (another transaction).  Between them  *)
(* every other request may run: log out, suspend, revoke a membership,     *)
(* save or activate another login configuration.  Each transaction holds   *)
(* the advisory lock 982716421 or is one statement, so it is one step.     *)
(*                                                                         *)
(* An account is named by the external subject whose first login made it.  *)
(***************************************************************************)
EXTENDS Policy, FiniteSets, FiniteSetsExt

CONSTANTS
  Browsers,           \* browsers of the people using the server
  Subjects,           \* external identities at the providers
  ProviderOf,         \* the provider of each subject
  Offered,            \* the <<role, kind>> grants the people edit
  None,               \* no account, no subject
  FlowCapacity,       \* rows of oauth_flows allowed at once (1000 in the code)
  CandidateCapacity,  \* candidates allowed at once (100 in the code)
  FlowLimit, SessionLimit, ConfigLimit, SetupLimit,  \* bounds of the instance
  LapseLimit          \* how often time or the operator takes something away

ASSUME LoginAssumption ==
  /\ None \notin Subjects
  /\ ProviderOf \in [Subjects -> {"github", "gitee"}]
  /\ Offered \subseteq Roles \X Kinds
  /\ {FlowCapacity, CandidateCapacity} \subseteq Nat \ {0}
  /\ {FlowLimit, SessionLimit, ConfigLimit, SetupLimit, LapseLimit} \subseteq Nat

VARIABLES
  managed,     \* whether login is configured in the database or in a file
  cookie,      \* cookie[b]: the session, flow and setup cookies of a browser
  sessions,    \* browser_sessions, in order of creation
  flows,       \* oauth_flows, in order of creation
  configs,     \* login_configs, in order of creation
  setup,       \* the row of auth_setup
  bootstrap,   \* the row of oauth_bootstrap
  identity,    \* external_identities: the account of each bound subject
  suspended,   \* accounts whose status is not active
  grants,      \* memberships: <<account, role, kind>>
  lapses       \* how often something was taken away

loginVars == <<managed, cookie, sessions, flows, configs, setup, bootstrap,
               identity, suspended, grants, lapses>>

Sessions == 1..Len(sessions)
Flows == 1..Len(flows)
Configs == 1..Len(configs)
Accounts == {identity[s] : s \in Subjects} \ {None}

\* The types of the rows; 0 stands for an absent reference.
Cookies == [session : 0..SessionLimit, flow : 0..FlowLimit, setup : 0..SetupLimit]
SessionRow == [account : Subjects, subject : Subjects, flow : 1..FlowLimit,
               browser : Browsers, age : {"recent", "live", "expired"}, revoked : BOOLEAN]
FlowRow == [browser : Browsers, link : 0..SessionLimit, config : 0..ConfigLimit,
            verify : 0..SessionLimit, setup : 0..SetupLimit,
            phase : {"begun", "consumed", "overdue", "lost", "gone"},
            handler : Browsers, current : 0..SessionLimit, token : 0..SetupLimit]
ConfigRow == [subject : Subjects, expected : 0..ConfigLimit, by : Subjects \cup {None},
              setup : 0..SetupLimit, status : {"candidate", "active", "retired"},
              live : BOOLEAN]

LoginTypeOK ==
  /\ managed \in BOOLEAN
  /\ cookie \in [Browsers -> Cookies]
  /\ sessions \in Seq(SessionRow) /\ Len(sessions) <= SessionLimit
  /\ flows \in Seq(FlowRow) /\ Len(flows) <= FlowLimit
  /\ configs \in Seq(ConfigRow) /\ Len(configs) <= ConfigLimit
  /\ setup \in [issued : 0..SetupLimit, code : BOOLEAN, session : 0..SetupLimit,
                finished : BOOLEAN]
  /\ bootstrap \in [subject : Subjects \cup {None}, consumed : BOOLEAN]
  /\ identity \in [Subjects -> Subjects \cup {None}]
  /\ suspended \subseteq Subjects
  /\ grants \subseteq Subjects \X Roles \X Kinds
  /\ lapses \in 0..LapseLimit

-----------------------------------------------------------------------------
\* Who may do what.

\* authenticateSession, sessionLive: a session row that still stands for an
\* active account; recentSession: one made less than ten minutes ago.
Authenticated(n) ==
  /\ n # 0
  /\ ~sessions[n].revoked
  /\ sessions[n].age # "expired"
  /\ sessions[n].account \notin suspended
Recent(n) == sessions[n].age = "recent"

\* authorize: the grants of the account, judged by the policy.
GrantsOf(account) == {<<g[2], g[3]>> : g \in {h \in grants : h[1] = account}}
Authorize(account, action, kind) == Allowed(GrantsOf(account), action, kind, FALSE)

HasAdmin == \E a \in Subjects : <<a, "admin", "instance">> \in grants

\* settingsAccess: an administrator's recent session, or the setup session
\* while the server has no administrator.
SettingsSession(n) ==
  /\ Authenticated(n)
  /\ Authorize(sessions[n].account, "instance.manage", "instance")
  /\ Recent(n)
SettingsSetup(t) ==
  /\ t # 0
  /\ setup.session = t
  /\ ~setup.finished
  /\ ~bootstrap.consumed

\* activeID: the configuration in force, 0 when there is none.
ActiveID == IF \E c \in Configs : configs[c].status = "active"
            THEN CHOOSE c \in Configs : configs[c].status = "active" ELSE 0

MutantCheckCandidateAnyStatus(c, account, token) ==
  /\ configs[c].live
  /\ configs[c].expected = ActiveID
  /\ IF token # 0 THEN configs[c].setup = token ELSE configs[c].by = account

\* checkCandidate: still a candidate, in time, made by this account or this
\* setup session, and made for the configuration that is in force now.
CheckCandidate(c, account, token) ==
  /\ configs[c].status = "candidate"
  /\ configs[c].live
  /\ configs[c].expected = ActiveID
  /\ IF token # 0 THEN configs[c].setup = token ELSE configs[c].by = account

-----------------------------------------------------------------------------
\* Opening the server: the file mode names the first administrator at
\* start-up, the managed mode hands a setup code to the operator's browser.

ConfigureGitHubBootstrap(s) ==
  /\ ~managed
  /\ ProviderOf[s] = "github"
  /\ bootstrap.subject = None
  /\ ~HasAdmin
  /\ bootstrap' = [subject |-> s, consumed |-> FALSE]
  /\ UNCHANGED <<managed, cookie, sessions, flows, configs, setup, identity,
                 suspended, grants, lapses>>

IssueSetupCode ==
  /\ managed
  /\ setup.issued < SetupLimit
  /\ ~setup.finished /\ bootstrap.subject = None /\ ~HasAdmin
  /\ setup' = [setup EXCEPT !.issued = @ + 1, !.code = TRUE, !.session = 0]
  /\ configs' = [c \in Configs |->
                   IF configs[c].setup # 0 /\ configs[c].status = "candidate"
                   THEN [configs[c] EXCEPT !.status = "retired"] ELSE configs[c]]
  /\ UNCHANGED <<managed, cookie, sessions, flows, bootstrap, identity, suspended, grants, lapses>>

\* exchangeSetup: the code works once and leaves a setup session, numbered
\* after the code it was bought with.
ExchangeSetupCode(b) ==
  /\ setup.code
  /\ ~setup.finished /\ bootstrap.subject = None
  /\ setup' = [setup EXCEPT !.code = FALSE, !.session = setup.issued]
  /\ cookie' = [cookie EXCEPT ![b].setup = setup.issued]
  /\ UNCHANGED <<managed, sessions, flows, configs, bootstrap, identity, suspended, grants, lapses>>

-----------------------------------------------------------------------------
\* Login configurations.

\* SaveLoginCandidate with the account's session or the browser's setup
\* session.  The caller names the configuration it saw in force; a candidate
\* is stored only when that is still true.  An administrator cannot change
\* whose identity was the first administrator's.  The caller's own and every
\* outdated candidate are retired first.
SaveLoginCandidate(b, s, account, token) ==
  LET kept == [c \in Configs |->
                 IF /\ configs[c].status = "candidate"
                    /\ \/ ~configs[c].live
                       \/ account # None /\ configs[c].by = account
                       \/ token # 0 /\ configs[c].setup = token
                 THEN [configs[c] EXCEPT !.status = "retired"] ELSE configs[c]]
  IN /\ Len(configs) < ConfigLimit
     /\ Cardinality({c \in Configs : kept[c].status = "candidate"}) < CandidateCapacity
     /\ configs' = Append(kept, [subject |-> s, expected |-> ActiveID, by |-> account,
                                 setup |-> token, status |-> "candidate", live |-> TRUE])
     /\ UNCHANGED <<managed, cookie, sessions, flows, setup, bootstrap, identity,
                    suspended, grants, lapses>>

SaveSettings(b) ==
  /\ managed
  /\ \/ /\ SettingsSession(cookie[b].session)
        /\ bootstrap.consumed
        /\ SaveLoginCandidate(b, bootstrap.subject, sessions[cookie[b].session].account, 0)
     \/ /\ SettingsSetup(cookie[b].setup)
        /\ \E s \in Subjects : SaveLoginCandidate(b, s, None, cookie[b].setup)

-----------------------------------------------------------------------------
\* Login flows.

\* The insertion shared by BeginOAuth and BeginManagedOAuth; rows out of time
\* are deleted first and do not count.  The browser gets no cookie if the answer
\* is lost, or if the configuration is of another provider than asked for
\* (StartFor), which is found out after the row was committed.
InsertFlow(b, link, config, verify, token) ==
  /\ Len(flows) < FlowLimit
  /\ Cardinality({f \in Flows : flows[f].phase \in {"begun", "consumed", "lost"}})
       < FlowCapacity
  /\ flows' = Append(flows, [browser |-> b, link |-> link, config |-> config,
                             verify |-> verify, setup |-> token, phase |-> "begun",
                             handler |-> b, current |-> 0, token |-> 0])
  /\ cookie' \in {cookie, [cookie EXCEPT ![b].flow = Len(flows) + 1]}
  /\ UNCHANGED <<managed, sessions, configs, setup, bootstrap, identity, suspended, grants, lapses>>

\* A link needs a recent session of the account the identity is to join.
LinkSession(b) == {0} \cup {n \in {cookie[b].session} : Authenticated(n) /\ Recent(n)}

BeginOAuth(b) ==
  /\ ~managed
  /\ \E link \in LinkSession(b) : InsertFlow(b, link, 0, 0, 0)

BeginManagedOAuth(b) ==
  /\ managed
  /\ \/ /\ ActiveID # 0
        /\ \E link \in LinkSession(b) : InsertFlow(b, link, ActiveID, 0, 0)
     \/ \E c \in Configs :
          \/ /\ SettingsSession(cookie[b].session)
             /\ CheckCandidate(c, sessions[cookie[b].session].account, 0)
             /\ InsertFlow(b, 0, c, cookie[b].session, 0)
          \/ /\ SettingsSetup(cookie[b].setup)
             /\ CheckCandidate(c, None, cookie[b].setup)
             /\ InsertFlow(b, 0, c, 0, cookie[b].setup)

MutantConsumableByState(b, f) == flows[f].phase = "begun"

\* The statement of ConsumeOAuth: the callback carries the state of the flow,
\* the cookie its nonce; both must be of one row that was not consumed before.
Consumable(b, f) == cookie[b].flow = f /\ flows[f].phase = "begun"

\* finishLogin up to the exchange: the cookies are read from the request and
\* kept for the completion.
ConsumeOAuth(b, f) ==
  /\ Consumable(b, f)
  /\ flows' = [flows EXCEPT ![f].phase = "consumed", ![f].handler = b,
                            ![f].current = cookie[b].session, ![f].token = cookie[b].setup]
  /\ UNCHANGED <<managed, cookie, sessions, configs, setup, bootstrap, identity,
                 suspended, grants, lapses>>

\* The callback fails: the person refused, the provider did not answer, a
\* check of the completion refused or its transaction was rolled back.  The
\* row keeps a ticket that nobody holds any more, and the browser loses its
\* flow cookie, a newer one too.
CallbackFails(f) ==
  /\ flows[f].phase \in {"consumed", "overdue"}
  /\ flows' = [flows EXCEPT ![f].phase = IF @ = "consumed" THEN "lost" ELSE "gone"]
  /\ cookie' = [cookie EXCEPT ![flows[f].handler].flow = 0]
  /\ UNCHANGED <<managed, sessions, configs, setup, bootstrap, identity, suspended, grants, lapses>>

\* The account that the flow acts for: that of the session which began a link
\* or a verification.
Claimed(flow) == IF flow.link # 0 \/ flow.verify # 0
                 THEN sessions[flow.current].account ELSE None

\* prepareManagedCompletion and the check of a link: the flow's configuration
\* and session still allow what they allowed when the flow began.
PrepareManagedCompletion(flow, s) ==
  \/ flow.config = 0 /\ ProviderOf[s] = "github"
  \/ /\ flow.config # 0
     /\ ProviderOf[s] = ProviderOf[configs[flow.config].subject]
     /\ \/ /\ flow.verify = 0 /\ flow.setup = 0
           /\ configs[flow.config].status = "active"
        \/ /\ flow.verify # 0
           /\ flow.current = flow.verify
           /\ SettingsSession(flow.current)
           /\ CheckCandidate(flow.config, sessions[flow.current].account, 0)
           /\ identity[s] = sessions[flow.current].account
        \/ /\ flow.setup # 0
           /\ flow.token = flow.setup
           /\ SettingsSetup(flow.token)
           /\ CheckCandidate(flow.config, None, flow.token)
           /\ s = configs[flow.config].subject
           /\ bootstrap.subject = None

LinkAllowed(flow) ==
  flow.link # 0 => flow.current = flow.link /\ Authenticated(flow.current) /\ Recent(flow.current)

\* An identity that is bound stays with its account.
NoConflict(flow, s) ==
  identity[s] # None /\ Claimed(flow) # None => identity[s] = Claimed(flow)

\* The account of the person: the bound one, else the claiming one, else new.
Owner(flow, s) ==
  CASE Claimed(flow) # None -> Claimed(flow)
    [] identity[s] # None -> identity[s]
    [] OTHER -> s

\* finishOAuth: one transaction that uses up the ticket, binds the identity,
\* grants the first administrator, issues the session, activates a verified
\* configuration and revokes the session the browser had.
FinishOAuth(f, s) ==
  LET flow == flows[f]
      row == IF flow.setup # 0 THEN [subject |-> s, consumed |-> FALSE] ELSE bootstrap
      owner == Owner(flow, s)
      n == Len(sessions) + 1
      verified == flow.verify # 0 \/ flow.setup # 0
  IN /\ flow.phase = "consumed"
     /\ n <= SessionLimit
     /\ PrepareManagedCompletion(flow, s)
     /\ LinkAllowed(flow)
     /\ NoConflict(flow, s)
     /\ row.subject # None
     /\ ~row.consumed => s = row.subject /\ ~HasAdmin
     /\ owner \notin suspended
     /\ identity' = [identity EXCEPT ![s] = owner]
     /\ grants' = grants \cup (IF row.consumed THEN {} ELSE {<<owner, "admin", "instance">>})
     /\ bootstrap' = [row EXCEPT !.consumed = TRUE]
     /\ sessions' = Append([i \in Sessions |->
                              IF i = flow.current THEN [sessions[i] EXCEPT !.revoked = TRUE]
                              ELSE sessions[i]],
                           [account |-> owner, subject |-> s, flow |-> f,
                            browser |-> flow.handler, age |-> "recent", revoked |-> FALSE])
     /\ configs' = IF ~verified THEN configs
                   ELSE [c \in Configs |->
                           CASE c = flow.config -> [configs[c] EXCEPT !.status = "active"]
                             [] c # flow.config /\ configs[c].status = "active"
                                  -> [configs[c] EXCEPT !.status = "retired"]
                             [] OTHER -> configs[c]]
     /\ setup' = IF verified THEN [setup EXCEPT !.finished = TRUE, !.code = FALSE, !.session = 0]
                 ELSE setup
     /\ flows' = [flows EXCEPT ![f].phase = "gone"]
     /\ cookie' = [cookie EXCEPT ![flow.handler] =
                     [session |-> n, flow |-> 0, setup |-> IF managed THEN 0 ELSE @.setup]]
     /\ UNCHANGED <<managed, suspended, lapses>>

-----------------------------------------------------------------------------
\* Sessions and memberships.

\* logout, RevokeSession.
RevokeSession(b) ==
  /\ Authenticated(cookie[b].session)
  /\ sessions' = [sessions EXCEPT ![cookie[b].session].revoked = TRUE]
  /\ cookie' = [cookie EXCEPT ![b].session = 0]
  /\ UNCHANGED <<managed, flows, configs, setup, bootstrap, identity, suspended, grants, lapses>>

MutantSelf(actor, account) == TRUE

\* ChangeMembership is refused on the caller's own grants.
NotSelf(actor, account) == actor # account

ChangeMembership(b, account, role, kind, add) ==
  LET n == cookie[b].session
      grant == <<account, role, kind>>
  IN /\ role \in DeploymentRoles => kind = "environment"
     /\ Authenticated(n)
     /\ NotSelf(sessions[n].account, account)
     /\ Authorize(sessions[n].account, "members.manage", kind)
     /\ account \in Accounts
     /\ add => account \notin suspended
     /\ grants' = IF add THEN grants \cup {grant} ELSE grants \ {grant}
     /\ grants' # grants
     /\ UNCHANGED <<managed, cookie, sessions, flows, configs, setup, bootstrap,
                    identity, suspended, lapses>>

\* The bound on what is taken away.
Lapse == lapses < LapseLimit /\ lapses' = lapses + 1

\* The operator suspends an account in the database.
Suspend(account) ==
  /\ Lapse
  /\ account \in Accounts \ suspended
  /\ suspended' = suspended \cup {account}
  /\ UNCHANGED <<managed, cookie, sessions, flows, configs, setup, bootstrap,
                 identity, grants>>

-----------------------------------------------------------------------------
\* Time: ten minutes make a session no longer recent, twelve hours end it,
\* five minutes end a flow, thirty a candidate and a setup session, fifteen a
\* code.  An older session is never younger than a newer one.
AgeSession(n) ==
  /\ Lapse
  /\ sessions[n].age # "expired"
  /\ \A m \in 1..(n - 1) :
       sessions[m].age = "expired" \/ (sessions[n].age = "recent" /\ sessions[m].age = "live")
  /\ sessions' = [sessions EXCEPT ![n].age = IF @ = "recent" THEN "live" ELSE "expired"]
  /\ UNCHANGED <<managed, cookie, flows, configs, setup, bootstrap, identity, suspended, grants>>

ExpireFlow(f) ==
  /\ Lapse
  /\ flows[f].phase \in {"begun", "consumed", "lost"}
  /\ flows' = [flows EXCEPT ![f].phase = IF @ = "consumed" THEN "overdue" ELSE "gone"]
  /\ UNCHANGED <<managed, cookie, sessions, configs, setup, bootstrap, identity,
                 suspended, grants>>

ExpireCandidate(c) ==
  /\ Lapse
  /\ configs[c].status = "candidate" /\ configs[c].live
  /\ configs' = [configs EXCEPT ![c].live = FALSE]
  /\ UNCHANGED <<managed, cookie, sessions, flows, setup, bootstrap, identity,
                 suspended, grants>>

ExpireSetup ==
  /\ Lapse
  /\ setup.code \/ setup.session # 0
  /\ setup' = [setup EXCEPT !.code = FALSE, !.session = 0]
  /\ UNCHANGED <<managed, cookie, sessions, flows, configs, bootstrap, identity,
                 suspended, grants>>

-----------------------------------------------------------------------------
LoginInit ==
  /\ managed \in BOOLEAN
  /\ cookie = [b \in Browsers |-> [session |-> 0, flow |-> 0, setup |-> 0]]
  /\ sessions = << >> /\ flows = << >> /\ configs = << >>
  /\ setup = [issued |-> 0, code |-> FALSE, session |-> 0, finished |-> FALSE]
  /\ bootstrap = [subject |-> None, consumed |-> FALSE]
  /\ identity = [s \in Subjects |-> None]
  /\ suspended = {} /\ grants = {}
  /\ lapses = 0

LoginTime ==
  \/ \E n \in Sessions : AgeSession(n)
  \/ \E f \in Flows : ExpireFlow(f)
  \/ \E c \in Configs : ExpireCandidate(c)
  \/ ExpireSetup

LoginNext ==
  \/ \E s \in Subjects : ConfigureGitHubBootstrap(s)
  \/ IssueSetupCode
  \/ \E b \in Browsers :
       \/ ExchangeSetupCode(b) \/ SaveSettings(b) \/ BeginOAuth(b) \/ BeginManagedOAuth(b)
       \/ RevokeSession(b)
       \/ \E f \in Flows : ConsumeOAuth(b, f)
       \/ \E a \in Subjects, g \in Offered, add \in BOOLEAN :
            ChangeMembership(b, a, g[1], g[2], add)
  \/ \E f \in Flows : CallbackFails(f) \/ \E s \in Subjects : FinishOAuth(f, s)
  \/ \E a \in Subjects : Suspend(a)
  \/ LoginTime

LoginSpec == LoginInit /\ [][LoginNext]_loginVars

-----------------------------------------------------------------------------
\* Once the first administrator was made there is always one: administrators
\* may revoke each other in any order and from any number of browsers, but the
\* edits are serialised, judged by the grants at that moment and never on the
\* editor's own (ChangeMembership); and the bootstrap, which may not be
\* repeated, is not needed again.
AdminRemains == bootstrap.consumed => HasAdmin

\* A session stands for what was proved when it was issued: it is in the
\* browser that began the login, the identity shown by the provider still
\* belongs to the session's account, and no two sessions come from one flow
\* (ConsumeOAuth, FinishOAuth).
SessionsBound ==
  /\ \A n \in Sessions : /\ sessions[n].browser = flows[sessions[n].flow].browser
                         /\ identity[sessions[n].subject] = sessions[n].account
  /\ \A n, m \in Sessions : sessions[n].flow = sessions[m].flow => n = m

\* A configuration comes into force only from being a candidate, in the place
\* of the configuration its author had seen in force, although its
\* verification passes through the provider; once retired it never comes back
\* (checkCandidate at both ends of the flow, activateLoginConfig).
ConfigLineage ==
  [][\A c \in 1..Len(configs) :
       /\ configs[c].status = "retired" => configs'[c].status = "retired"
       /\ configs'[c].status = "active" /\ configs[c].status # "active"
            => configs[c].expected = ActiveID]_loginVars
=============================================================================
