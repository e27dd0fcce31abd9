----------------------------- MODULE LoginProofs -----------------------------
(***************************************************************************)
(* For any number of browsers, people, flows, sessions and configurations: *)
(* an administrator remains, a session stands for what was proved when it  *)
(* was issued, and a configuration comes into force only in the place of   *)
(* the one its author had seen.                                            *)
(***************************************************************************)
EXTENDS Login, TLAPS

\* References are to rows that exist, and the flow cookie of a browser is of a
\* flow which that browser began.
CookieInv ==
  \A b \in Browsers :
    /\ cookie[b].session \in 0..Len(sessions)
    /\ cookie[b].flow # 0 => cookie[b].flow \in Flows /\ flows[cookie[b].flow].browser = b

\* A flow is handled in the browser that began it, refers to rows that exist,
\* and verifies nothing but a configuration.
FlowInv ==
  \A f \in Flows :
    /\ flows[f].handler = flows[f].browser
    /\ {flows[f].link, flows[f].verify, flows[f].current} \subseteq 0..Len(sessions)
    /\ flows[f].config \in 0..Len(configs)
    /\ flows[f].verify # 0 \/ flows[f].setup # 0 => flows[f].config # 0
    /\ flows[f].verify = 0 \/ flows[f].setup = 0

\* The flow of a session is used up.
SpentInv == \A n \in Sessions : sessions[n].flow \in Flows /\ flows[sessions[n].flow].phase = "gone"

\* The first administrator is somebody.
FirstInv == bootstrap.consumed => bootstrap.subject # None

\* The invariant every request and the clock preserve.
LoginInv ==
  /\ LoginTypeOK /\ CookieInv /\ FlowInv /\ SpentInv /\ FirstInv
  /\ AdminRemains /\ SessionsBound
-----------------------------------------------------------------------------
(* Rows.                                                                   *)

\* A configuration row with another status, or out of time.
LEMMA ConfigStatus ==
  ASSUME NEW r \in ConfigRow, NEW v \in {"candidate", "active", "retired"},
         NEW t, t = [r EXCEPT !.status = v]
  PROVE  t \in ConfigRow /\ t.status = v /\ t.expected = r.expected
  BY DEF ConfigRow

\* A configuration that is no longer live keeps its status.
LEMMA ConfigLate ==
  ASSUME NEW r \in ConfigRow, NEW t, t = [r EXCEPT !.live = FALSE]
  PROVE  t \in ConfigRow /\ t.status = r.status
  BY DEF ConfigRow

\* A rewritten table of configurations has as many rows as before.
LEMMA ConfigTable ==
  ASSUME LoginTypeOK, NEW g, g = [c \in Configs |-> g[c]],
         \A c \in Configs : g[c] \in ConfigRow
  PROVE  g \in Seq(ConfigRow) /\ Len(g) = Len(configs) /\ Len(configs) \in 0..ConfigLimit
  BY LoginAssumption DEF LoginTypeOK, Configs

\* A flow row in another phase.
LEMMA FlowPhase ==
  ASSUME LoginTypeOK, NEW f \in Flows, NEW v \in {"begun", "consumed", "overdue", "lost", "gone"},
         flows' = [flows EXCEPT ![f].phase = v]
  PROVE  /\ flows' \in Seq(FlowRow) /\ Len(flows') = Len(flows)
         /\ \A g \in Flows : flows'[g] = IF g = f THEN [flows[f] EXCEPT !.phase = v] ELSE flows[g]
<1>1. flows \in Seq(FlowRow) /\ flows[f] \in FlowRow
  BY DEF LoginTypeOK, Flows
<1>2. PICK r : r = [flows[f] EXCEPT !.phase = v]
  OBVIOUS
<1>3. r \in FlowRow
  BY <1>1, <1>2 DEF FlowRow
<1>4. flows' = [flows EXCEPT ![f] = r]
  BY <1>2
<1> QED BY ONLY <1>1, <1>2, <1>3, <1>4, f \in Flows DEF Flows

\* Flows that keep their browser, references and end keep what refers to them.
FlowsKept ==
  /\ Len(flows') = Len(flows)
  /\ \A f \in Flows :
       /\ flows'[f].browser = flows[f].browser /\ flows'[f].handler = flows[f].handler
       /\ flows'[f].link = flows[f].link /\ flows'[f].verify = flows[f].verify
       /\ flows'[f].current = flows[f].current /\ flows'[f].config = flows[f].config
       /\ flows'[f].setup = flows[f].setup
       /\ flows[f].phase = "gone" => flows'[f].phase = "gone"

\* A change of phase other than from the last one.
LEMMA PhaseKept ==
  ASSUME LoginTypeOK, NEW f \in Flows, NEW v \in {"begun", "consumed", "overdue", "lost", "gone"},
         flows' = [flows EXCEPT ![f].phase = v], flows[f].phase = "gone" => v = "gone"
  PROVE  FlowsKept /\ flows' \in Seq(FlowRow) /\ flows'[f].phase = v
<1>1. /\ flows' \in Seq(FlowRow) /\ Len(flows') = Len(flows)
      /\ \A g \in Flows : flows'[g] = IF g = f THEN [flows[f] EXCEPT !.phase = v] ELSE flows[g]
  BY FlowPhase
<1>2. flows[f] \in FlowRow
  BY DEF LoginTypeOK, Flows
<1>3. PICK r : r = [flows[f] EXCEPT !.phase = v]
  OBVIOUS
<1>4. /\ r.browser = flows[f].browser /\ r.handler = flows[f].handler
      /\ r.link = flows[f].link /\ r.verify = flows[f].verify
      /\ r.current = flows[f].current /\ r.config = flows[f].config
      /\ r.setup = flows[f].setup /\ r.phase = v
  BY <1>2, <1>3 DEF FlowRow
<1>5. \A g \in Flows : flows'[g] = IF g = f THEN r ELSE flows[g]
  BY <1>1, <1>3
<1> QED BY ONLY <1>1, <1>4, <1>5, f \in Flows, flows[f].phase = "gone" => v = "gone" DEF FlowsKept

\* A session row that is revoked or older.
SessionsKept ==
  /\ sessions' \in Seq(SessionRow) /\ Len(sessions') = Len(sessions)
  /\ \A n \in Sessions :
       /\ sessions'[n].browser = sessions[n].browser /\ sessions'[n].flow = sessions[n].flow
       /\ sessions'[n].subject = sessions[n].subject
       /\ sessions'[n].account = sessions[n].account

\* A revoked session stays the session of the same login,
LEMMA SessionRevoked ==
  ASSUME NEW r \in SessionRow, NEW t, t = [r EXCEPT !.revoked = TRUE]
  PROVE  /\ t \in SessionRow /\ t.browser = r.browser /\ t.flow = r.flow
         /\ t.subject = r.subject /\ t.account = r.account
  BY DEF SessionRow

\* and so does an older one.
LEMMA SessionAged ==
  ASSUME NEW r \in SessionRow, NEW v \in {"recent", "live", "expired"},
         NEW t, t = [r EXCEPT !.age = v]
  PROVE  /\ t \in SessionRow /\ t.browser = r.browser /\ t.flow = r.flow
         /\ t.subject = r.subject /\ t.account = r.account
  BY DEF SessionRow

\* One row of the sessions changes.
LEMMA SessionChange ==
  ASSUME LoginTypeOK, NEW n \in Sessions, NEW r \in SessionRow,
         r.browser = sessions[n].browser, r.flow = sessions[n].flow,
         r.subject = sessions[n].subject, r.account = sessions[n].account,
         sessions' = [sessions EXCEPT ![n] = r]
  PROVE  SessionsKept
<1>1. sessions \in Seq(SessionRow)
  BY DEF LoginTypeOK
<1>2. /\ sessions' \in Seq(SessionRow) /\ Len(sessions') = Len(sessions)
      /\ \A m \in Sessions : sessions'[m] = IF m = n THEN r ELSE sessions[m]
  BY ONLY <1>1, sessions' = [sessions EXCEPT ![n] = r], n \in Sessions, r \in SessionRow DEF Sessions
<1> QED BY <1>2 DEF SessionsKept

\* The references and bindings survive a step that adds no row.
LEMMA KeepRows ==
  ASSUME LoginInv, Len(sessions') = Len(sessions), SessionsKept \/ sessions' = sessions,
         FlowsKept \/ flows' = flows, Len(configs') >= Len(configs), Len(configs') \in Nat, UNCHANGED identity,
         \A b \in Browsers : /\ cookie'[b].session \in {0, cookie[b].session}
                             /\ cookie'[b].flow \in {0, cookie[b].flow}
  PROVE  CookieInv' /\ FlowInv' /\ SpentInv' /\ SessionsBound'
<1> USE DEF LoginInv
<1>1. /\ Len(sessions) \in Nat /\ Sessions' = Sessions
      /\ Len(configs) \in Nat
      /\ \A n \in Sessions :
           /\ sessions'[n].browser = sessions[n].browser /\ sessions'[n].flow = sessions[n].flow
           /\ sessions'[n].subject = sessions[n].subject
           /\ sessions'[n].account = sessions[n].account
  BY DEF SessionsKept, LoginTypeOK, Sessions
<1>2. /\ Flows' = Flows
      /\ \A f \in Flows :
           /\ flows'[f].browser = flows[f].browser /\ flows'[f].handler = flows[f].handler
           /\ flows'[f].link = flows[f].link /\ flows'[f].verify = flows[f].verify
           /\ flows'[f].current = flows[f].current /\ flows'[f].config = flows[f].config
           /\ flows'[f].setup = flows[f].setup
           /\ flows[f].phase = "gone" => flows'[f].phase = "gone"
  BY DEF FlowsKept, Flows
<1>3. CookieInv'
  BY <1>1, <1>2 DEF CookieInv
<1>4. FlowInv'
  BY <1>1, <1>2 DEF FlowInv
<1>5. SpentInv'
  BY <1>1, <1>2 DEF SpentInv
<1>6. SessionsBound'
  BY <1>1, <1>2 DEF SessionsBound, SpentInv
<1> QED BY <1>3, <1>4, <1>5, <1>6
-----------------------------------------------------------------------------
(* Opening the server, and the clock.                                      *)

\* The row of the setup.
SetupRow == [issued : 0..SetupLimit, code : BOOLEAN, session : 0..SetupLimit, finished : BOOLEAN]

\* The bounds are numbers.
LEMMA Limits ==
  FlowLimit \in Nat /\ SessionLimit \in Nat /\ ConfigLimit \in Nat /\ SetupLimit \in Nat /\ LapseLimit \in Nat
  BY LoginAssumption

\* The row of the setup, issued again, exchanged, or out of time.
LEMMA SetupType ==
  ASSUME NEW r \in SetupRow, NEW i \in 0..SetupLimit, NEW j \in 0..SetupLimit, NEW u \in BOOLEAN
  PROVE  /\ [r EXCEPT !.issued = i, !.code = u, !.session = j] \in SetupRow
         /\ [r EXCEPT !.code = u, !.session = j] \in SetupRow
         /\ [r EXCEPT !.finished = TRUE, !.code = u, !.session = j] \in SetupRow
  BY DEF SetupRow

\* A cookie of which one part changes.
LEMMA CookieType ==
  ASSUME LoginTypeOK, NEW b \in Browsers, NEW k \in Cookies,
         cookie' = [cookie EXCEPT ![b] = k]
  PROVE  /\ cookie' \in [Browsers -> Cookies]
         /\ \A a \in Browsers : cookie'[a] = IF a = b THEN k ELSE cookie[a]
  BY DEF LoginTypeOK

\* The administrator is named in the environment (ConfigureGitHubBootstrap).
LEMMA OpenStep ==
  ASSUME LoginInv, NEW x \in Subjects, ConfigureGitHubBootstrap(x) PROVE LoginInv'
<1> USE DEF LoginInv
<1>1. /\ bootstrap' = [subject |-> x, consumed |-> FALSE]
      /\ UNCHANGED <<managed, cookie, sessions, flows, configs, setup, identity,
                     suspended, grants, lapses>>
  BY DEF ConfigureGitHubBootstrap
<1>2. LoginTypeOK'
  BY <1>1 DEF LoginTypeOK
<1>3. CookieInv' /\ FlowInv' /\ SpentInv' /\ SessionsBound'
  BY <1>1, KeepRows DEF LoginTypeOK
<1> QED BY <1>1, <1>2, <1>3 DEF FirstInv, AdminRemains

\* A setup code replaces the one before (IssueSetupCode).
LEMMA SetupCodeStep ==
  ASSUME LoginInv, IssueSetupCode PROVE LoginInv'
<1> USE DEF LoginInv
<1>1. /\ setup' = [setup EXCEPT !.issued = @ + 1, !.code = TRUE, !.session = 0]
      /\ setup.issued < SetupLimit
      /\ configs' = [c \in Configs |->
                       IF configs[c].setup # 0 /\ configs[c].status = "candidate"
                       THEN [configs[c] EXCEPT !.status = "retired"] ELSE configs[c]]
      /\ UNCHANGED <<managed, cookie, sessions, flows, bootstrap, identity, suspended, grants, lapses>>
  BY DEF IssueSetupCode
<1>2. \A c \in Configs : configs'[c] \in ConfigRow
  BY <1>1, ConfigStatus DEF LoginTypeOK, Configs
<1>3. configs' \in Seq(ConfigRow) /\ Len(configs') = Len(configs) /\ Len(configs) \in 0..ConfigLimit
  BY <1>1, <1>2, ConfigTable
<1>4. setup' \in SetupRow
  <2>1. setup \in SetupRow /\ setup.issued \in 0..SetupLimit
    BY DEF LoginTypeOK, SetupRow
  <2>2. setup.issued + 1 \in 0..SetupLimit /\ 0 \in 0..SetupLimit
    BY <1>1, <2>1, Limits
  <2> QED BY <1>1, <2>1, <2>2, SetupType
<1>5. LoginTypeOK'
  BY <1>1, <1>3, <1>4 DEF LoginTypeOK, SetupRow
<1>6. CookieInv' /\ FlowInv' /\ SpentInv' /\ SessionsBound'
  <2>1. Len(configs') >= Len(configs) /\ Len(configs') \in Nat
    BY <1>3, Limits
  <2> QED BY ONLY <1>1, <2>1, LoginInv, KeepRows
<1> QED BY <1>1, <1>5, <1>6 DEF FirstInv, AdminRemains, HasAdmin

\* A setup code is exchanged for a setup session.
LEMMA ExchangeStep ==
  ASSUME LoginInv, NEW b \in Browsers, ExchangeSetupCode(b) PROVE LoginInv'
<1> USE DEF LoginInv
<1>1. /\ setup' = [setup EXCEPT !.code = FALSE, !.session = setup.issued]
      /\ cookie' = [cookie EXCEPT ![b].setup = setup.issued]
      /\ UNCHANGED <<managed, sessions, flows, configs, bootstrap, identity, suspended, grants, lapses>>
  BY DEF ExchangeSetupCode
<1>2. PICK k : k = [cookie[b] EXCEPT !.setup = setup.issued]
  OBVIOUS
<1>3. k \in Cookies /\ k.session = cookie[b].session /\ k.flow = cookie[b].flow
  BY <1>2 DEF LoginTypeOK, Cookies
<1>4. cookie' = [cookie EXCEPT ![b] = k]
  BY <1>1, <1>2
<1>5. cookie' \in [Browsers -> Cookies] /\ \A a \in Browsers : cookie'[a] = IF a = b THEN k ELSE cookie[a]
  BY ONLY <1>4, <1>3, LoginInv, b \in Browsers, CookieType DEF LoginInv
<1>6. setup' \in SetupRow
  BY <1>1, SetupType, ZenonT(60) DEF LoginTypeOK, SetupRow
<1>7. LoginTypeOK'
  BY <1>1, <1>5, <1>6 DEF LoginTypeOK, SetupRow
<1>8. CookieInv' /\ FlowInv' /\ SpentInv' /\ SessionsBound'
  BY <1>1, <1>3, <1>5, KeepRows DEF LoginTypeOK
<1> QED BY <1>1, <1>7, <1>8 DEF FirstInv, AdminRemains, HasAdmin

\* A session gets older.
LEMMA AgeStep ==
  ASSUME LoginInv, NEW n \in Sessions, AgeSession(n) PROVE LoginInv'
<1> USE DEF LoginInv
<1>1. /\ Lapse
      /\ sessions' = [sessions EXCEPT ![n].age = IF @ = "recent" THEN "live" ELSE "expired"]
      /\ UNCHANGED <<managed, cookie, flows, configs, setup, bootstrap, identity, suspended, grants>>
  BY DEF AgeSession
<1>2. PICK r : r = [sessions[n] EXCEPT !.age = IF sessions[n].age = "recent" THEN "live" ELSE "expired"]
  OBVIOUS
<1>3. sessions[n] \in SessionRow
  BY DEF LoginTypeOK, Sessions
<1>4. /\ r \in SessionRow /\ r.browser = sessions[n].browser /\ r.flow = sessions[n].flow
      /\ r.subject = sessions[n].subject /\ r.account = sessions[n].account
  BY <1>2, <1>3, SessionAged
<1>5. sessions' = [sessions EXCEPT ![n] = r]
  BY <1>1, <1>2, <1>3 DEF SessionRow
<1>6. SessionsKept
  BY ONLY <1>4, <1>5, LoginInv, n \in Sessions, SessionChange DEF LoginInv
<1>7. LoginTypeOK'
  BY <1>1, <1>6, LoginAssumption, SMTT(30) DEF LoginTypeOK, SessionsKept, Lapse
<1>8. CookieInv' /\ FlowInv' /\ SpentInv' /\ SessionsBound'
  BY <1>1, <1>6, KeepRows DEF LoginTypeOK, SessionsKept
<1> QED BY <1>1, <1>7, <1>8 DEF FirstInv, AdminRemains, HasAdmin

\* Flows, candidates and the setup run out.
LEMMA ExpireStep ==
  ASSUME LoginInv, (\E f \in Flows : ExpireFlow(f)) \/ (\E c \in Configs : ExpireCandidate(c)) \/ ExpireSetup
  PROVE  LoginInv'
<1> USE DEF LoginInv
<1>1. ASSUME NEW f \in Flows, ExpireFlow(f) PROVE LoginInv'
  <2>1. /\ Lapse /\ flows[f].phase \in {"begun", "consumed", "lost"}
        /\ flows' = [flows EXCEPT ![f].phase = IF flows[f].phase = "consumed" THEN "overdue" ELSE "gone"]
        /\ UNCHANGED <<managed, cookie, sessions, configs, setup, bootstrap, identity, suspended, grants>>
    BY <1>1 DEF ExpireFlow
  <2>2. FlowsKept /\ flows' \in Seq(FlowRow)
    BY <2>1, PhaseKept
  <2>3. LoginTypeOK'
    BY <2>1, <2>2, LoginAssumption, SMTT(30) DEF LoginTypeOK, FlowsKept, Lapse
  <2>4. CookieInv' /\ FlowInv' /\ SpentInv' /\ SessionsBound'
    BY <2>1, <2>2, KeepRows DEF LoginTypeOK
  <2> QED BY <2>1, <2>3, <2>4 DEF FirstInv, AdminRemains, HasAdmin
<1>2. ASSUME NEW c \in Configs, ExpireCandidate(c) PROVE LoginInv'
  <2>1. /\ Lapse
        /\ configs' = [configs EXCEPT ![c] = [configs[c] EXCEPT !.live = FALSE]]
        /\ UNCHANGED <<managed, cookie, sessions, flows, setup, bootstrap, identity, suspended, grants>>
    BY <1>2 DEF ExpireCandidate
  <2>2. PICK r : r = [configs[c] EXCEPT !.live = FALSE]
    OBVIOUS
  <2>3. r \in ConfigRow /\ configs \in Seq(ConfigRow)
    BY <2>2, ConfigLate DEF LoginTypeOK, Configs
  <2>4. configs' = [configs EXCEPT ![c] = r]
    BY <2>1, <2>2
  <2>5. configs' \in Seq(ConfigRow) /\ Len(configs') = Len(configs) /\ Len(configs) \in Nat
    BY ONLY <2>3, <2>4, c \in Configs DEF Configs
  <2>6. LoginTypeOK'
    BY <2>1, <2>5, LoginAssumption, SMTT(30) DEF LoginTypeOK, Lapse
  <2>7. CookieInv' /\ FlowInv' /\ SpentInv' /\ SessionsBound'
    BY <2>1, <2>5, KeepRows
  <2> QED BY <2>1, <2>6, <2>7 DEF FirstInv, AdminRemains, HasAdmin
<1>3. CASE ExpireSetup
  <2>1. /\ Lapse
        /\ setup' = [setup EXCEPT !.code = FALSE, !.session = 0]
        /\ UNCHANGED <<managed, cookie, sessions, flows, configs, bootstrap, identity, suspended, grants>>
    BY <1>3 DEF ExpireSetup
  <2>2. setup' \in SetupRow
    <3>1. setup \in SetupRow /\ 0 \in 0..SetupLimit
      BY Limits DEF LoginTypeOK, SetupRow
    <3> QED BY <2>1, <3>1, SetupType
  <2>3. LoginTypeOK'
    BY <2>1, <2>2, LoginAssumption, SMTT(30) DEF LoginTypeOK, Lapse, SetupRow
  <2>4. CookieInv' /\ FlowInv' /\ SpentInv' /\ SessionsBound'
    BY <2>1, KeepRows DEF LoginTypeOK
  <2> QED BY <2>1, <2>3, <2>4 DEF FirstInv, AdminRemains, HasAdmin
<1> QED BY <1>1, <1>2, <1>3

\* A failed callback uses up its flow and takes a cookie away.
LEMMA CallbackFailsStep ==
  ASSUME LoginInv, NEW f \in Flows, CallbackFails(f) PROVE LoginInv'
<1> USE DEF LoginInv
<1>1. /\ flows[f].phase \in {"consumed", "overdue"}
      /\ flows' = [flows EXCEPT ![f].phase = IF flows[f].phase = "consumed" THEN "lost" ELSE "gone"]
      /\ cookie' = [cookie EXCEPT ![flows[f].handler].flow = 0]
      /\ UNCHANGED <<managed, sessions, configs, setup, bootstrap, identity, suspended, grants, lapses>>
  BY DEF CallbackFails
<1>2. FlowsKept /\ flows' \in Seq(FlowRow)
  BY <1>1, PhaseKept
<1>3. flows[f].handler \in Browsers
  <2>1. flows[f] \in FlowRow
    BY DEF LoginTypeOK, Flows
  <2> QED BY <2>1 DEF FlowRow
<1>4. PICK k : k = [cookie[flows[f].handler] EXCEPT !.flow = 0]
  OBVIOUS
<1>5. k \in Cookies /\ k.session = cookie[flows[f].handler].session /\ k.flow = 0
  <2>1. cookie[flows[f].handler] \in Cookies
    BY <1>3 DEF LoginTypeOK
  <2> QED BY <1>4, <2>1, Limits DEF Cookies
<1>6. cookie' = [cookie EXCEPT ![flows[f].handler] = k]
  BY <1>1, <1>4
<1>7. /\ cookie' \in [Browsers -> Cookies]
      /\ \A a \in Browsers : cookie'[a] = IF a = flows[f].handler THEN k ELSE cookie[a]
  BY ONLY <1>3, <1>5, <1>6, LoginInv, CookieType DEF LoginInv
<1>8. LoginTypeOK'
  BY <1>1, <1>2, <1>7 DEF LoginTypeOK, FlowsKept
<1>9. CookieInv' /\ FlowInv' /\ SpentInv' /\ SessionsBound'
  BY <1>1, <1>2, <1>5, <1>7, KeepRows DEF LoginTypeOK
<1> QED BY <1>1, <1>8, <1>9 DEF FirstInv, AdminRemains, HasAdmin

\* Logging out revokes the session of the browser.
LEMMA RevokeSessionStep ==
  ASSUME LoginInv, NEW b \in Browsers, RevokeSession(b) PROVE LoginInv'
<1> USE DEF LoginInv
<1>1. /\ cookie[b].session # 0
      /\ sessions' = [sessions EXCEPT ![cookie[b].session].revoked = TRUE]
      /\ cookie' = [cookie EXCEPT ![b].session = 0]
      /\ UNCHANGED <<managed, flows, configs, setup, bootstrap, identity, suspended, grants, lapses>>
  BY DEF RevokeSession, Authenticated
<1>2. cookie[b].session \in Sessions
  BY <1>1 DEF CookieInv, Sessions, LoginTypeOK
<1>3. PICK n \in Sessions : n = cookie[b].session
  BY <1>2
<1>4. PICK r : r = [sessions[n] EXCEPT !.revoked = TRUE]
  OBVIOUS
<1>5. sessions[n] \in SessionRow
  BY DEF LoginTypeOK, Sessions
<1>6. /\ r \in SessionRow /\ r.browser = sessions[n].browser /\ r.flow = sessions[n].flow
      /\ r.subject = sessions[n].subject /\ r.account = sessions[n].account
  BY <1>4, <1>5, SessionRevoked
<1>7. sessions' = [sessions EXCEPT ![n] = r]
  BY <1>1, <1>3, <1>4
<1>8. SessionsKept
  BY ONLY <1>7, <1>6, LoginInv, n \in Sessions, SessionChange DEF LoginInv
<1>9. PICK k : k = [cookie[b] EXCEPT !.session = 0]
  OBVIOUS
<1>10. k \in Cookies /\ k.session = 0 /\ k.flow = cookie[b].flow
  <2>1. cookie[b] \in Cookies
    BY DEF LoginTypeOK
  <2> QED BY <1>9, <2>1, Limits DEF Cookies
<1>11. cookie' = [cookie EXCEPT ![b] = k]
  BY <1>1, <1>9
<1>12. cookie' \in [Browsers -> Cookies] /\ \A a \in Browsers : cookie'[a] = IF a = b THEN k ELSE cookie[a]
  BY ONLY <1>10, <1>11, LoginInv, b \in Browsers, CookieType DEF LoginInv
<1>13. LoginTypeOK'
  BY <1>1, <1>8, <1>12 DEF LoginTypeOK, SessionsKept
<1>14. CookieInv' /\ FlowInv' /\ SpentInv' /\ SessionsBound'
  BY <1>1, <1>8, <1>10, <1>12, KeepRows DEF LoginTypeOK, SessionsKept
<1> QED BY <1>1, <1>13, <1>14 DEF FirstInv, AdminRemains, HasAdmin
-----------------------------------------------------------------------------
(* Memberships.                                                            *)

\* The instance has no ancestor, and only administrators manage members.
LEMMA InstancePath == Path("instance") = {"instance"}
<1>1. \A k \in 1..4 : Order[k] = "instance" <=> k = 1
  BY DEF Order
<1>2. (CHOOSE k \in 1..4 : Order[k] = "instance") = 1
  BY <1>1
<1>3. Order[1] = "instance"
  BY DEF Order
<1>4. Path("instance") = {Order[i] : i \in 1..1}
  BY <1>2 DEF Path
<1> QED BY <1>3, <1>4

\* Only an administrator manages members.
LEMMA AdminManages ==
  ASSUME NEW r \in Roles, "members.manage" \in RoleAllows[r] PROVE r = "admin"
<1>1. r \in {"viewer", "developer", "maintainer", "admin", "deployer", "approver"}
  BY DEF Roles, RoleAllows
<1>2. "members.manage" \notin Reading \cup {"run.read"}
  BY DEF Reading
<1>3. "members.manage" \notin Developing
  BY DEF Reading, Developing
<1>4. "members.manage" \notin Maintaining
  BY <1>3 DEF Maintaining
<1>5. "members.manage" \notin Reading \cup {"deployment.create"}
  BY DEF Reading
<1>6. "members.manage" \notin Reading \cup {"deployment.approve"}
  BY DEF Reading
<1> QED BY <1>1, <1>2, <1>3, <1>4, <1>5, <1>6 DEF RoleAllows

\* Who may edit the grants of the instance is an administrator of it.
LEMMA EditorIsAdmin ==
  ASSUME LoginTypeOK, NEW a, Authorize(a, "members.manage", "instance")
  PROVE  <<a, "admin", "instance">> \in grants
<1>1. PICK g \in GrantsOf(a) : "members.manage" \in RoleAllows[g[1]] /\ g[2] \in Path("instance")
  BY DEF Authorize, Allowed
<1>2. PICK h \in grants : h[1] = a /\ g = <<h[2], h[3]>>
  BY DEF GrantsOf
<1>3. h \in Subjects \X Roles \X Kinds
  BY DEF LoginTypeOK
<1>4. h = <<a, h[2], h[3]>> /\ h[2] \in Roles
  BY <1>2, <1>3
<1>5. h[2] = "admin" /\ h[3] = "instance"
  BY <1>1, <1>2, <1>4, InstancePath, AdminManages
<1> QED BY <1>4, <1>5

\* Of the administrators, the one who edits remains.
LEMMA MembershipStep ==
  ASSUME LoginInv, NEW b \in Browsers, NEW a \in Subjects, NEW g \in Offered, NEW add \in BOOLEAN,
         ChangeMembership(b, a, g[1], g[2], add)
  PROVE  LoginInv'
<1> USE DEF LoginInv
<1>1. /\ Authenticated(cookie[b].session)
      /\ sessions[cookie[b].session].account # a
      /\ Authorize(sessions[cookie[b].session].account, "members.manage", g[2])
      /\ grants' = IF add THEN grants \cup {<<a, g[1], g[2]>>} ELSE grants \ {<<a, g[1], g[2]>>}
      /\ UNCHANGED <<managed, cookie, sessions, flows, configs, setup, bootstrap,
                     identity, suspended, lapses>>
  BY DEF ChangeMembership, NotSelf
<1>2. PICK n : n = cookie[b].session
  OBVIOUS
<1>3. n \in Sessions
  BY <1>1, <1>2 DEF Authenticated, CookieInv, Sessions, LoginTypeOK
<1>4. sessions[n] \in SessionRow
  BY <1>3 DEF LoginTypeOK, Sessions
<1>5. sessions[n].account \in Subjects
  BY <1>4 DEF SessionRow
<1>6. g \in Roles \X Kinds
  BY LoginAssumption
<1>7. grants' \subseteq Subjects \X Roles \X Kinds
  BY <1>1, <1>6 DEF LoginTypeOK
<1>8. LoginTypeOK'
  BY <1>1, <1>7 DEF LoginTypeOK
<1>9. CookieInv' /\ FlowInv' /\ SpentInv' /\ SessionsBound'
  BY <1>1, KeepRows DEF LoginTypeOK
<1>10. HasAdmin => HasAdmin'
  <2>1. CASE g[1] = "admin" /\ g[2] = "instance"
    <3>1. <<sessions[n].account, "admin", "instance">> \in grants
      BY <1>1, <1>2, <2>1, EditorIsAdmin
    <3>2. <<sessions[n].account, "admin", "instance">> \in grants'
      BY <1>1, <1>2, <3>1
    <3> QED BY <1>5, <3>2 DEF HasAdmin
  <2>2. CASE ~(g[1] = "admin" /\ g[2] = "instance")
    BY <1>1, <2>2 DEF HasAdmin
  <2> QED BY <2>1, <2>2
<1> QED BY <1>1, <1>8, <1>9, <1>10 DEF FirstInv, AdminRemains

\* The suspension of a user.
LEMMA SuspendStep ==
  ASSUME LoginInv, NEW a \in Subjects, Suspend(a) PROVE LoginInv'
<1> USE DEF LoginInv
<1>1. /\ Lapse /\ suspended' = suspended \cup {a}
      /\ UNCHANGED <<managed, cookie, sessions, flows, configs, setup, bootstrap, identity, grants>>
  BY DEF Suspend
<1>2. LoginTypeOK'
  BY <1>1, Limits DEF LoginTypeOK, Lapse
<1>3. CookieInv' /\ FlowInv' /\ SpentInv' /\ SessionsBound'
  BY <1>1, KeepRows DEF LoginTypeOK
<1> QED BY <1>1, <1>2, <1>3 DEF FirstInv, AdminRemains, HasAdmin
-----------------------------------------------------------------------------
(* Configurations and flows.                                               *)

\* The configuration in force is one of the rows.
LEMMA ActiveRow ==
  ASSUME LoginTypeOK
  PROVE  ActiveID \in 0..Len(configs) /\ ActiveID \in 0..ConfigLimit
<1>1. Len(configs) \in Nat /\ Len(configs) <= ConfigLimit
  BY DEF LoginTypeOK
<1>2. ActiveID = 0 \/ ActiveID \in Configs
  BY DEF ActiveID
<1> QED BY <1>1, <1>2, Limits DEF Configs

\* New login settings are saved as a candidate.
LEMMA SaveStep ==
  ASSUME LoginInv, NEW b \in Browsers, SaveSettings(b) PROVE LoginInv'
<1> USE DEF LoginInv
<1>1. PICK x \in Subjects, account \in Subjects \cup {None}, token \in 0..SetupLimit :
        SaveLoginCandidate(b, x, account, token)
  <2>1. CASE /\ SettingsSession(cookie[b].session) /\ bootstrap.consumed
             /\ SaveLoginCandidate(b, bootstrap.subject, sessions[cookie[b].session].account, 0)
    <3>1. bootstrap.subject \in Subjects
      BY <2>1 DEF FirstInv, LoginTypeOK
    <3>2. cookie[b].session \in Sessions
      BY <2>1 DEF SettingsSession, Authenticated, CookieInv, Sessions, LoginTypeOK
    <3>3. sessions[cookie[b].session] \in SessionRow
      BY <3>2 DEF LoginTypeOK, Sessions
    <3>4. sessions[cookie[b].session].account \in Subjects
      BY <3>3 DEF SessionRow
    <3> QED BY <2>1, <3>1, <3>4, Limits
  <2>2. CASE \E x \in Subjects : SaveLoginCandidate(b, x, None, cookie[b].setup)
    <3>1. cookie[b] \in Cookies
      BY DEF LoginTypeOK
    <3> QED BY <2>2, <3>1 DEF Cookies
  <2> QED BY <2>1, <2>2 DEF SaveSettings
<1>2. PICK kept : kept = [c \in Configs |->
                 IF /\ configs[c].status = "candidate"
                    /\ \/ ~configs[c].live
                       \/ account # None /\ configs[c].by = account
                       \/ token # 0 /\ configs[c].setup = token
                 THEN [configs[c] EXCEPT !.status = "retired"] ELSE configs[c]]
  OBVIOUS
<1>3. PICK new : new = [subject |-> x, expected |-> ActiveID, by |-> account,
                        setup |-> token, status |-> "candidate", live |-> TRUE]
  OBVIOUS
<1>4. /\ Len(configs) < ConfigLimit /\ configs' = Append(kept, new)
      /\ UNCHANGED <<managed, cookie, sessions, flows, setup, bootstrap, identity,
                     suspended, grants, lapses>>
  BY <1>1, <1>2, <1>3 DEF SaveLoginCandidate
<1>5. \A c \in Configs : kept[c] \in ConfigRow
  BY <1>2, ConfigStatus DEF LoginTypeOK, Configs
<1>6. kept \in Seq(ConfigRow) /\ Len(kept) = Len(configs) /\ Len(configs) \in 0..ConfigLimit
  BY <1>2, <1>5, ConfigTable
<1>7. new \in ConfigRow
  BY <1>3, ActiveRow DEF ConfigRow
<1>8. configs' \in Seq(ConfigRow) /\ Len(configs') = Len(configs) + 1
  BY ONLY <1>4, <1>6, <1>7
<1>9. LoginTypeOK'
  BY <1>4, <1>6, <1>8, Limits DEF LoginTypeOK
<1>10. CookieInv' /\ FlowInv' /\ SpentInv' /\ SessionsBound'
  <2>1. Len(configs') >= Len(configs) /\ Len(configs') \in Nat
    BY <1>6, <1>8, Limits
  <2> QED BY ONLY <1>4, <2>1, LoginInv, KeepRows
<1> QED BY <1>4, <1>9, <1>10 DEF FirstInv, AdminRemains, HasAdmin

\* A new flow is of the browser that gets its cookie, if it gets it.
LEMMA InsertStep ==
  ASSUME LoginInv, NEW b \in Browsers, NEW link \in 0..Len(sessions), NEW config \in 0..Len(configs),
         NEW verify \in 0..Len(sessions), NEW token \in 0..SetupLimit,
         verify # 0 \/ token # 0 => config # 0, verify = 0 \/ token = 0,
         InsertFlow(b, link, config, verify, token)
  PROVE  LoginInv'
<1> USE DEF LoginInv
<1>1. PICK new : new = [browser |-> b, link |-> link, config |-> config, verify |-> verify,
                        setup |-> token, phase |-> "begun", handler |-> b, current |-> 0, token |-> 0]
  OBVIOUS
<1>2. /\ Len(flows) < FlowLimit /\ flows' = Append(flows, new)
      /\ cookie' \in {cookie, [cookie EXCEPT ![b].flow = Len(flows) + 1]}
      /\ UNCHANGED <<managed, sessions, configs, setup, bootstrap, identity, suspended, grants, lapses>>
  BY <1>1 DEF InsertFlow
<1>3. /\ flows \in Seq(FlowRow) /\ Len(flows) \in Nat /\ Len(sessions) \in Nat /\ Len(configs) \in Nat
      /\ Len(sessions) <= SessionLimit /\ Len(configs) <= ConfigLimit
  BY DEF LoginTypeOK
<1>4. link \in 0..SessionLimit /\ verify \in 0..SessionLimit /\ config \in 0..ConfigLimit
      /\ 0 \in 0..SessionLimit /\ 0 \in 0..SetupLimit
  BY <1>3, Limits
<1>5. new \in FlowRow
  BY <1>1, <1>4 DEF FlowRow
<1>6. /\ flows' \in Seq(FlowRow) /\ Len(flows') = Len(flows) + 1 /\ flows'[Len(flows) + 1] = new
      /\ \A f \in Flows : flows'[f] = flows[f]
  BY ONLY <1>2, <1>3, <1>5 DEF Flows
<1>7. cookie[b] \in Cookies /\ cookie \in [Browsers -> Cookies] /\ Len(flows) + 1 \in 0..FlowLimit
  BY <1>2, <1>3, Limits DEF LoginTypeOK
<1>8. PICK k : /\ k \in {cookie[b], [cookie[b] EXCEPT !.flow = Len(flows) + 1]}
               /\ cookie' = [cookie EXCEPT ![b] = k]
  BY <1>2, <1>7
<1>9. k \in Cookies /\ k.session = cookie[b].session /\ k.flow \in {cookie[b].flow, Len(flows) + 1}
  BY <1>7, <1>8 DEF Cookies
<1>10. cookie' \in [Browsers -> Cookies] /\ \A a \in Browsers : cookie'[a] = IF a = b THEN k ELSE cookie[a]
  BY <1>7, <1>8, <1>9
<1>11. LoginTypeOK'
  BY <1>2, <1>3, <1>6, <1>10, Limits, SMTT(30) DEF LoginTypeOK
<1>12. Sessions' = Sessions /\ Flows = 1..Len(flows) /\ Flows' = Flows \cup {Len(flows) + 1}
  BY <1>2, <1>3, <1>6 DEF Sessions, Flows
<1>13. new.browser = b /\ new.handler = b /\ new.link = link /\ new.verify = verify
       /\ new.current = 0 /\ new.config = config /\ new.setup = token
  BY <1>1
<1>14. CookieInv'
  BY <1>2, <1>6, <1>9, <1>10, <1>12, <1>13 DEF CookieInv
<1>15. FlowInv'
  BY <1>2, <1>3, <1>6, <1>12, <1>13, SMTT(30) DEF FlowInv
<1>16. SpentInv'
  BY <1>2, <1>6, <1>12 DEF SpentInv
<1>17. SessionsBound'
  BY <1>2, <1>6, <1>12 DEF SessionsBound, SpentInv
<1> QED BY <1>2, <1>11, <1>14, <1>15, <1>16, <1>17 DEF FirstInv, AdminRemains, HasAdmin

\* A flow is begun, with the setup or the login configuration.
LEMMA BeginStep ==
  ASSUME LoginInv, NEW b \in Browsers, BeginOAuth(b) \/ BeginManagedOAuth(b) PROVE LoginInv'
<1> USE DEF LoginInv
<1>1. /\ cookie[b].session \in 0..Len(sessions) /\ cookie[b].setup \in 0..SetupLimit
      /\ Len(sessions) \in Nat /\ Len(configs) \in Nat /\ 0 \in 0..SetupLimit
  <2>1. cookie[b] \in Cookies
    BY DEF LoginTypeOK
  <2> QED BY <2>1, Limits DEF Cookies, CookieInv, LoginTypeOK
<1>2. LinkSession(b) \subseteq 0..Len(sessions)
  BY <1>1 DEF LinkSession
<1>3. 0 \in 0..Len(sessions) /\ 0 \in 0..Len(configs) /\ Configs = 1..Len(configs)
  BY <1>1 DEF Configs
<1>4. CASE \E link \in LinkSession(b) : InsertFlow(b, link, 0, 0, 0)
  BY <1>1, <1>2, <1>3, <1>4, InsertStep
<1>5. CASE \E link \in LinkSession(b) : InsertFlow(b, link, ActiveID, 0, 0)
  BY <1>1, <1>2, <1>3, <1>5, ActiveRow, InsertStep
<1>6. CASE \E c \in Configs : InsertFlow(b, 0, c, cookie[b].session, 0)
  BY <1>1, <1>3, <1>6, InsertStep
<1>7. CASE \E c \in Configs : InsertFlow(b, 0, c, 0, cookie[b].setup)
  BY <1>1, <1>3, <1>7, InsertStep
<1> QED BY <1>4, <1>5, <1>6, <1>7 DEF BeginOAuth, BeginManagedOAuth

\* A callback is served in the browser that began the flow: only it has the
\* cookie.
LEMMA ConsumeStep ==
  ASSUME LoginInv, NEW b \in Browsers, NEW f \in Flows, ConsumeOAuth(b, f) PROVE LoginInv'
<1> USE DEF LoginInv
<1>1. /\ cookie[b].flow = f /\ flows[f].phase = "begun"
      /\ flows' = [flows EXCEPT ![f].phase = "consumed", ![f].handler = b,
                                ![f].current = cookie[b].session, ![f].token = cookie[b].setup]
      /\ UNCHANGED <<managed, cookie, sessions, configs, setup, bootstrap, identity,
                     suspended, grants, lapses>>
  BY DEF ConsumeOAuth, Consumable
<1>2. PICK r : r = [flows[f] EXCEPT !.phase = "consumed", !.handler = b,
                                    !.current = cookie[b].session, !.token = cookie[b].setup]
  OBVIOUS
<1>3. flows \in Seq(FlowRow) /\ flows[f] \in FlowRow /\ cookie[b] \in Cookies
  BY DEF LoginTypeOK, Flows
<1>4. /\ r \in FlowRow /\ r.browser = flows[f].browser /\ r.handler = b
      /\ r.link = flows[f].link /\ r.verify = flows[f].verify /\ r.config = flows[f].config
      /\ r.setup = flows[f].setup /\ r.current = cookie[b].session
  BY <1>2, <1>3 DEF FlowRow, Cookies
<1>5. flows' = [flows EXCEPT ![f] = r]
  BY <1>1, <1>2, <1>3
<1>6. /\ flows' \in Seq(FlowRow) /\ Len(flows') = Len(flows)
      /\ \A g \in Flows : flows'[g] = IF g = f THEN r ELSE flows[g]
  BY ONLY <1>3, <1>4, <1>5, f \in Flows DEF Flows
<1>7. LoginTypeOK'
  BY <1>1, <1>6 DEF LoginTypeOK
<1>8. flows[f].browser = b /\ cookie[b].session \in 0..Len(sessions)
  BY <1>1, <1>3 DEF CookieInv, Flows
<1>9. UNCHANGED <<cookie, sessions, configs, identity>>
  BY <1>1
<1>10. Flows' = Flows /\ Sessions' = Sessions
  BY <1>9, <1>6 DEF Flows, Sessions
<1>11. CookieInv'
  BY <1>9, <1>4, <1>6, <1>10 DEF CookieInv
<1>12. FlowInv'
  BY <1>9, <1>4, <1>6, <1>8, <1>10, SMTT(30) DEF FlowInv
<1>13. \A n \in Sessions : sessions[n].flow \in Flows /\ sessions[n].flow # f
  BY <1>1 DEF SpentInv
<1>14. SpentInv'
  BY <1>9, <1>6, <1>10, <1>13 DEF SpentInv
<1>15. SessionsBound'
  BY <1>9, <1>6, <1>10, <1>13 DEF SessionsBound
<1> QED BY <1>1, <1>7, <1>11, <1>12, <1>14, <1>15 DEF FirstInv, AdminRemains, HasAdmin
-----------------------------------------------------------------------------
(* The completion of a login.                                              *)

\* The account a login is for is that of a person; one who is known stays with
\* the account that is theirs.
LEMMA OwnerType ==
  ASSUME LoginInv, NEW f \in Flows, NEW x \in Subjects,
         PrepareManagedCompletion(flows[f], x), LinkAllowed(flows[f]), NoConflict(flows[f], x)
  PROVE  /\ Owner(flows[f], x) \in Subjects
         /\ identity[x] # None => Owner(flows[f], x) = identity[x]
<1> USE DEF LoginInv
<1>1. PICK flow : flow = flows[f]
  OBVIOUS
<1>2. /\ flow.verify # 0 => flow.config # 0 /\ flow.setup = 0
      /\ flow.current \in 0..Len(sessions) /\ Len(sessions) \in Nat
  BY <1>1 DEF FlowInv, LoginTypeOK
<1>3. ASSUME flow.link # 0 \/ flow.verify # 0 PROVE flow.current # 0
  <2>1. CASE flow.link # 0
    BY <1>1, <2>1 DEF LinkAllowed
  <2>2. CASE flow.verify # 0
    BY <1>1, <1>2, <2>2 DEF PrepareManagedCompletion
  <2> QED BY <1>3, <2>1, <2>2
<1>4. ASSUME flow.link # 0 \/ flow.verify # 0
      PROVE  Claimed(flow) \in Subjects
  <2>1. flow.current \in Sessions
    BY <1>2, <1>3, <1>4 DEF Sessions
  <2>2. sessions[flow.current] \in SessionRow
    BY <2>1 DEF LoginTypeOK, Sessions
  <2> QED BY <1>4, <2>2 DEF Claimed, SessionRow
<1>5. Claimed(flow) \in Subjects \cup {None}
  BY <1>4 DEF Claimed
<1>6. identity[x] \in Subjects \cup {None}
  BY DEF LoginTypeOK
<1>7. identity[x] # None /\ Claimed(flow) # None => identity[x] = Claimed(flow)
  BY <1>1 DEF NoConflict
<1> QED BY <1>1, <1>5, <1>6, <1>7, LoginAssumption DEF Owner

\* The sessions of a completion: the former one revoked, the new one last.
LEMMA SessionAppend ==
  ASSUME LoginTypeOK, NEW new \in SessionRow, NEW t, t = [n \in Sessions |-> t[n]],
         \A n \in Sessions : t[n] = sessions[n] \/ t[n] = [sessions[n] EXCEPT !.revoked = TRUE],
         sessions' = Append(t, new)
  PROVE  /\ sessions' \in Seq(SessionRow) /\ Len(sessions') = Len(sessions) + 1
         /\ sessions'[Len(sessions) + 1] = new
         /\ \A n \in Sessions :
              /\ sessions'[n].browser = sessions[n].browser /\ sessions'[n].flow = sessions[n].flow
              /\ sessions'[n].subject = sessions[n].subject
              /\ sessions'[n].account = sessions[n].account
<1>1. sessions \in Seq(SessionRow) /\ \A n \in Sessions : sessions[n] \in SessionRow
  BY DEF LoginTypeOK, Sessions
<1>2. \A n \in Sessions :
        /\ t[n] \in SessionRow
        /\ t[n].browser = sessions[n].browser /\ t[n].flow = sessions[n].flow
        /\ t[n].subject = sessions[n].subject /\ t[n].account = sessions[n].account
  BY <1>1, SessionRevoked
<1>3. t \in Seq(SessionRow) /\ Len(t) = Len(sessions)
  BY <1>1, <1>2 DEF Sessions
<1>4. /\ sessions' \in Seq(SessionRow) /\ Len(sessions') = Len(t) + 1
      /\ sessions'[Len(t) + 1] = new /\ \A n \in 1..Len(t) : sessions'[n] = t[n]
  BY ONLY <1>3, sessions' = Append(t, new), new \in SessionRow
<1> QED BY <1>2, <1>3, <1>4 DEF Sessions

\* A completion issues one session, to the browser that began the flow, for
\* the account of the person, and uses the flow up.
LEMMA FinishStep ==
  ASSUME LoginInv, NEW f \in Flows, NEW x \in Subjects, FinishOAuth(f, x) PROVE LoginInv'
<1> USE DEF LoginInv
<1>1. PICK flow : flow = flows[f]
  OBVIOUS
<1>2. PICK row : row = IF flow.setup # 0 THEN [subject |-> x, consumed |-> FALSE] ELSE bootstrap
  OBVIOUS
<1>3. PICK owner : owner = Owner(flow, x)
  OBVIOUS
<1>4. PICK new : new = [account |-> owner, subject |-> x, flow |-> f, browser |-> flow.handler,
                        age |-> "recent", revoked |-> FALSE]
  OBVIOUS
<1>5. /\ flow.phase = "consumed" /\ Len(sessions) + 1 <= SessionLimit
      /\ PrepareManagedCompletion(flow, x) /\ LinkAllowed(flow) /\ NoConflict(flow, x)
      /\ row.subject # None
      /\ identity' = [identity EXCEPT ![x] = owner]
      /\ grants' = grants \cup (IF row.consumed THEN {} ELSE {<<owner, "admin", "instance">>})
      /\ bootstrap' = [row EXCEPT !.consumed = TRUE]
      /\ flows' = [flows EXCEPT ![f].phase = "gone"]
      /\ UNCHANGED <<managed, suspended, lapses>>
  BY <1>1, <1>2, <1>3 DEF FinishOAuth
<1>6. PICK t : t = [i \in Sessions |-> IF i = flow.current THEN [sessions[i] EXCEPT !.revoked = TRUE]
                                       ELSE sessions[i]]
  OBVIOUS
<1>7. sessions' = Append(t, new)
  BY <1>1, <1>3, <1>4, <1>6 DEF FinishOAuth
<1>8. configs' \in Seq(ConfigRow) /\ Len(configs') = Len(configs) /\ Len(configs) \in 0..ConfigLimit
  <2>1. CASE configs' = configs
    BY <2>1, Limits DEF LoginTypeOK
  <2>2. CASE configs' = [c \in Configs |->
                           CASE c = flow.config -> [configs[c] EXCEPT !.status = "active"]
                             [] c # flow.config /\ configs[c].status = "active"
                                  -> [configs[c] EXCEPT !.status = "retired"]
                             [] OTHER -> configs[c]]
    <3>1. \A c \in Configs : configs[c] \in ConfigRow
      BY DEF LoginTypeOK, Configs
    <3>2. \A c \in Configs : configs'[c] \in ConfigRow
      BY ONLY <2>2, <3>1, ConfigStatus
    <3> QED BY <2>2, <3>2, ConfigTable
  <2> QED BY <1>1, <2>1, <2>2 DEF FinishOAuth
<1>9. setup' \in SetupRow
  <2>1. setup \in SetupRow /\ 0 \in 0..SetupLimit
    BY Limits DEF LoginTypeOK, SetupRow
  <2>2. setup' = setup \/ setup' = [setup EXCEPT !.finished = TRUE, !.code = FALSE, !.session = 0]
    BY DEF FinishOAuth
  <2> QED BY <2>1, <2>2, SetupType
<1>10. owner \in Subjects /\ (identity[x] # None => owner = identity[x])
  BY <1>1, <1>3, <1>5, OwnerType
<1>11. flow \in FlowRow /\ flow.handler \in Browsers /\ flow.handler = flow.browser
  <2>1. flow \in FlowRow
    BY <1>1 DEF LoginTypeOK, Flows
  <2> QED BY <1>1, <2>1 DEF FlowRow, FlowInv
<1>12. f \in 1..FlowLimit /\ Len(sessions) \in Nat
  BY Limits DEF LoginTypeOK, Flows
<1>13. new \in SessionRow
  BY <1>4, <1>10, <1>11, <1>12 DEF SessionRow
<1>14. new.browser = flow.browser /\ new.flow = f /\ new.subject = x /\ new.account = owner
  BY <1>4, <1>11
<1>15. /\ sessions' \in Seq(SessionRow) /\ Len(sessions') = Len(sessions) + 1
       /\ sessions'[Len(sessions) + 1] = new
       /\ \A n \in Sessions :
            /\ sessions'[n].browser = sessions[n].browser /\ sessions'[n].flow = sessions[n].flow
            /\ sessions'[n].subject = sessions[n].subject
            /\ sessions'[n].account = sessions[n].account
  <2>1. /\ t = [n \in Sessions |-> t[n]]
        /\ \A n \in Sessions : t[n] = sessions[n] \/ t[n] = [sessions[n] EXCEPT !.revoked = TRUE]
    BY ONLY <1>6
  <2> QED BY ONLY <1>7, <1>13, <2>1, LoginInv, SessionAppend DEF LoginInv
<1>16. FlowsKept /\ flows' \in Seq(FlowRow) /\ flows'[f].phase = "gone"
  BY <1>5, PhaseKept
<1>17. PICK k : k = [session |-> Len(sessions) + 1, flow |-> 0,
                     setup |-> IF managed THEN 0 ELSE cookie[flow.handler].setup]
  OBVIOUS
<1>18. k \in Cookies /\ k.session = Len(sessions) + 1 /\ k.flow = 0
  <2>1. cookie[flow.handler] \in Cookies
    BY <1>11 DEF LoginTypeOK
  <2>2. cookie[flow.handler].setup \in 0..SetupLimit
    BY <2>1 DEF Cookies
  <2> QED BY <1>5, <1>12, <1>17, <2>2, Limits DEF Cookies
<1>19. cookie' = [cookie EXCEPT ![flow.handler] = k]
  BY <1>1, <1>17 DEF FinishOAuth
<1>20. /\ cookie' \in [Browsers -> Cookies]
       /\ \A a \in Browsers : cookie'[a] = IF a = flow.handler THEN k ELSE cookie[a]
  BY ONLY <1>11, <1>18, <1>19, LoginInv, CookieType DEF LoginInv
<1>21. /\ row \in [subject : Subjects \cup {None}, consumed : BOOLEAN]
       /\ row.consumed => row = bootstrap
  BY <1>2 DEF LoginTypeOK
<1>22. /\ bootstrap' \in [subject : Subjects \cup {None}, consumed : BOOLEAN]
       /\ bootstrap'.subject = row.subject
  BY <1>5, <1>21
<1>23. grants' \subseteq Subjects \X Roles \X Kinds
  <2>1. "admin" \in Roles
    BY DEF Roles, RoleAllows
  <2>2. "instance" \in Kinds
    <3>1. Order[1] = "instance"
      BY DEF Order
    <3> QED BY <3>1 DEF Kinds
  <2> QED BY <1>5, <1>10, <2>1, <2>2 DEF LoginTypeOK
<1>24. identity' \in [Subjects -> Subjects \cup {None}]
  BY <1>5, <1>10 DEF LoginTypeOK
<1>25. LoginTypeOK'
  <2>1. Len(flows') <= FlowLimit /\ Len(configs') <= ConfigLimit /\ Len(sessions') <= SessionLimit
    BY <1>5, <1>8, <1>15, <1>16 DEF FlowsKept, LoginTypeOK
  <2> QED BY <1>5, <1>8, <1>9, <1>15, <1>16, <1>20, <1>22, <1>23, <1>24, <2>1 DEF LoginTypeOK, SetupRow
<1>26. /\ Flows' = Flows /\ Sessions = 1..Len(sessions) /\ Sessions' = Sessions \cup {Len(sessions) + 1}
       /\ Len(sessions) + 1 \notin Sessions
  BY <1>12, <1>15, <1>16 DEF Flows, Sessions, FlowsKept
<1>27. CookieInv'
  <2>1. Len(sessions') = Len(sessions) + 1 /\ \A g \in Flows : flows'[g].browser = flows[g].browser
    BY <1>15, <1>16 DEF FlowsKept
  <2>2. ASSUME NEW a \in Browsers, a # flow.handler
        PROVE  /\ cookie'[a] = cookie[a] /\ cookie[a].session \in 0..(Len(sessions) + 1)
               /\ cookie[a].flow # 0 => cookie[a].flow \in Flows /\ flows'[cookie[a].flow].browser = a
    BY <1>12, <1>20, <2>1, <2>2 DEF CookieInv
  <2>3. cookie'[flow.handler].session \in 0..(Len(sessions) + 1) /\ cookie'[flow.handler].flow = 0
    BY <1>11, <1>12, <1>18, <1>20
  <2> QED BY <1>26, <2>1, <2>2, <2>3 DEF CookieInv
<1>28. FlowInv'
  <2>1. Len(sessions') = Len(sessions) + 1 /\ Len(configs') = Len(configs)
    BY <1>8, <1>15
  <2>2. \A g \in Flows :
          /\ flows'[g].browser = flows[g].browser /\ flows'[g].handler = flows[g].handler
          /\ flows'[g].link = flows[g].link /\ flows'[g].verify = flows[g].verify
          /\ flows'[g].current = flows[g].current /\ flows'[g].config = flows[g].config
          /\ flows'[g].setup = flows[g].setup
    BY <1>16 DEF FlowsKept
  <2>3. ASSUME NEW g \in Flows
        PROVE  /\ flows[g].handler = flows[g].browser
               /\ {flows[g].link, flows[g].verify, flows[g].current} \subseteq 0..(Len(sessions) + 1)
               /\ flows[g].config \in 0..Len(configs)
               /\ flows[g].verify # 0 \/ flows[g].setup # 0 => flows[g].config # 0
               /\ flows[g].verify = 0 \/ flows[g].setup = 0
    <3>1. 0..Len(sessions) \subseteq 0..(Len(sessions) + 1)
      BY <1>12
    <3> QED BY ONLY <3>1, LoginInv, g \in Flows DEF FlowInv, LoginInv
  <2> QED BY ONLY <1>26, <2>1, <2>2, <2>3, SMTT(30) DEF FlowInv
<1>29. \A n \in Sessions : sessions[n].flow \in Flows /\ sessions[n].flow # f
  BY <1>1, <1>5 DEF SpentInv
<1>30. SpentInv'
  BY <1>14, <1>15, <1>16, <1>26 DEF SpentInv, FlowsKept
<1>31. SessionsBound'
  <2>1. ASSUME NEW n \in Sessions
        PROVE  /\ sessions'[n].browser = flows'[sessions'[n].flow].browser
               /\ identity'[sessions'[n].subject] = sessions'[n].account
    <3>1. /\ sessions[n].browser = flows[sessions[n].flow].browser
          /\ identity[sessions[n].subject] = sessions[n].account
      BY DEF SessionsBound
    <3>2. sessions[n] \in SessionRow
      BY DEF LoginTypeOK, Sessions
    <3>3. sessions[n].account \in Subjects /\ sessions[n].subject \in Subjects
      BY <3>2 DEF SessionRow
    <3>4. identity'[sessions[n].subject] = sessions[n].account
      BY <1>5, <1>10, <3>1, <3>3, LoginAssumption DEF LoginTypeOK
    <3> QED BY <1>15, <1>16, <1>29, <3>1, <3>4 DEF FlowsKept
  <2>2. /\ new.browser = flows'[new.flow].browser
        /\ identity'[new.subject] = new.account
    BY <1>1, <1>5, <1>14, <1>16 DEF FlowsKept, LoginTypeOK
  <2>3. ASSUME NEW n \in Sessions, NEW m \in Sessions, sessions'[n].flow = sessions'[m].flow
        PROVE  n = m
    BY <1>15, <2>3 DEF SessionsBound
  <2>4. \A n \in Sessions : sessions'[n].flow # new.flow
    BY <1>14, <1>15, <1>29
  <2> QED BY <1>15, <1>26, <2>1, <2>2, <2>3, <2>4 DEF SessionsBound
<1>32. FirstInv'
  BY <1>5, <1>22 DEF FirstInv
<1>33. AdminRemains'
  <2>1. CASE row.consumed
    BY <1>5, <1>21, <2>1 DEF AdminRemains, HasAdmin
  <2>2. CASE ~row.consumed
    BY <1>5, <1>10, <2>2 DEF AdminRemains, HasAdmin
  <2> QED BY <2>1, <2>2
<1> QED BY <1>25, <1>27, <1>28, <1>30, <1>31, <1>32, <1>33
-----------------------------------------------------------------------------
(* Theorems.                                                               *)

\* At first nobody has logged in.
LEMMA LoginInitInv == LoginInit => LoginInv
<1> SUFFICES ASSUME LoginInit PROVE LoginInv
  OBVIOUS
<1>1. Sessions = {} /\ Flows = {} /\ Len(sessions) = 0
  BY DEF LoginInit, Sessions, Flows
<1>2. [session |-> 0, flow |-> 0, setup |-> 0] \in Cookies
  BY Limits DEF Cookies
<1>3. [issued |-> 0, code |-> FALSE, session |-> 0, finished |-> FALSE] \in SetupRow
  BY Limits DEF SetupRow
<1>4. LoginTypeOK
  <2>1. cookie \in [Browsers -> Cookies]
    BY <1>2 DEF LoginInit
  <2>2. /\ sessions \in Seq(SessionRow) /\ flows \in Seq(FlowRow) /\ configs \in Seq(ConfigRow)
        /\ Len(sessions) <= SessionLimit /\ Len(flows) <= FlowLimit /\ Len(configs) <= ConfigLimit
    BY Limits DEF LoginInit
  <2>3. setup \in SetupRow /\ bootstrap \in [subject : Subjects \cup {None}, consumed : BOOLEAN]
    BY <1>3 DEF LoginInit
  <2> QED BY <2>1, <2>2, <2>3, Limits DEF LoginInit, LoginTypeOK, SetupRow
<1>5. CookieInv
  BY <1>1 DEF LoginInit, CookieInv
<1> QED BY <1>1, <1>4, <1>5 DEF LoginInit, LoginInv, FlowInv, SpentInv, FirstInv, AdminRemains, SessionsBound

\* Every step keeps the invariant.
LEMMA LoginStep ==
  ASSUME LoginInv, [LoginNext]_loginVars PROVE LoginInv'
<1>1. ASSUME NEW b \in Browsers,
             \/ ExchangeSetupCode(b) \/ SaveSettings(b) \/ BeginOAuth(b) \/ BeginManagedOAuth(b)
             \/ RevokeSession(b)
             \/ \E f \in Flows : ConsumeOAuth(b, f)
             \/ \E a \in Subjects, g \in Offered, add \in BOOLEAN :
                  ChangeMembership(b, a, g[1], g[2], add)
      PROVE  LoginInv'
  BY <1>1, ExchangeStep, SaveStep, BeginStep, RevokeSessionStep, ConsumeStep, MembershipStep
<1>2. CASE UNCHANGED loginVars
  <2>1. LoginTypeOK' /\ FirstInv' /\ AdminRemains'
    BY <1>2 DEF loginVars, LoginInv, LoginTypeOK, FirstInv, AdminRemains, HasAdmin
  <2>2. CookieInv' /\ FlowInv' /\ SpentInv' /\ SessionsBound'
    BY <1>2, KeepRows DEF loginVars, LoginInv, LoginTypeOK
  <2> QED BY <2>1, <2>2 DEF LoginInv
<1>3. CASE LoginTime
  BY <1>3, AgeStep, ExpireStep DEF LoginTime
<1>4. CASE \/ \E x \in Subjects : ConfigureGitHubBootstrap(x)
           \/ IssueSetupCode
           \/ \E f \in Flows : CallbackFails(f) \/ \E x \in Subjects : FinishOAuth(f, x)
           \/ \E a \in Subjects : Suspend(a)
  BY <1>4, OpenStep, SetupCodeStep, CallbackFailsStep, FinishStep, SuspendStep
<1> QED BY <1>1, <1>2, <1>3, <1>4 DEF LoginNext

\* The invariant holds in every state, the types of all rows among it.
THEOREM LoginInvariance == LoginSpec => []LoginInv
  BY LoginInitInv, LoginStep, PTL DEF LoginSpec

\* Once there was an administrator there is always one (ChangeMembership).
THEOREM AdminAlwaysRemains == LoginSpec => []AdminRemains
<1>1. LoginInv => AdminRemains
  BY DEF LoginInv
<1> QED BY <1>1, LoginInvariance, PTL

\* A session is in the browser that began the login, of the account the shown
\* identity belongs to, and the only one of its flow (ConsumeOAuth,
\* FinishOAuth).
THEOREM SessionsAlwaysBound == LoginSpec => []SessionsBound
<1>1. LoginInv => SessionsBound
  BY DEF LoginInv
<1> QED BY <1>1, LoginInvariance, PTL

\* What ConfigLineage says of one step.
LineageStep ==
  \A c \in 1..Len(configs) :
    /\ configs[c].status = "retired" => configs'[c].status = "retired"
    /\ configs'[c].status = "active" /\ configs[c].status # "active" => configs[c].expected = ActiveID

\* A rewritten row is as it was or retired.
LEMMA RetiredRows ==
  ASSUME LoginTypeOK,
         \A c \in Configs : \/ configs'[c] = configs[c]
                            \/ configs'[c] = [configs[c] EXCEPT !.status = "retired"]
  PROVE  LineageStep
<1>1. \A c \in Configs : configs[c] \in ConfigRow
  BY DEF LoginTypeOK, Configs
<1>2. ASSUME NEW c \in Configs, configs'[c] # configs[c] PROVE configs'[c].status = "retired"
  <2>1. PICK r : r = [configs[c] EXCEPT !.status = "retired"]
    OBVIOUS
  <2>2. r.status = "retired"
    BY ONLY <1>1, <2>1, ConfigStatus
  <2> QED BY ONLY <1>2, <2>1, <2>2,
             \A d \in Configs : \/ configs'[d] = configs[d]
                                \/ configs'[d] = [configs[d] EXCEPT !.status = "retired"]
<1> QED BY <1>2 DEF LineageStep, Configs

\* A verified configuration is a candidate of the one in force.
LEMMA FinishLineage ==
  ASSUME LoginInv, NEW f \in Flows, NEW x \in Subjects, FinishOAuth(f, x) PROVE LineageStep
<1> USE DEF LoginInv
<1>1. PICK flow : flow = flows[f]
  OBVIOUS
<1>2. \A c \in Configs : configs[c] \in ConfigRow
  BY DEF LoginTypeOK, Configs
<1>3. CASE configs' = configs
  BY <1>2, <1>3, RetiredRows
<1>4. CASE configs' # configs
  <2>1. /\ flow.verify # 0 \/ flow.setup # 0
        /\ configs' = [c \in Configs |->
                         CASE c = flow.config -> [configs[c] EXCEPT !.status = "active"]
                           [] c # flow.config /\ configs[c].status = "active"
                                -> [configs[c] EXCEPT !.status = "retired"]
                           [] OTHER -> configs[c]]
        /\ PrepareManagedCompletion(flow, x)
    BY <1>1, <1>4 DEF FinishOAuth
  <2>2. flow.config # 0
    BY <1>1, <2>1 DEF FlowInv
  <2>3. configs[flow.config].status = "candidate" /\ configs[flow.config].expected = ActiveID
    BY <2>1, <2>2 DEF PrepareManagedCompletion, CheckCandidate
  <2>4. ASSUME NEW c \in Configs, c # flow.config
        PROVE  configs'[c] = configs[c] \/ configs'[c].status = "retired"
    BY <1>2, <2>1, <2>4, ConfigStatus
  <2> QED BY <2>3, <2>4 DEF LineageStep, Configs
<1> QED BY <1>3, <1>4

\* A step replaces the active configuration only by a verified one.
LEMMA LineageHolds ==
  ASSUME LoginInv, [LoginNext]_loginVars PROVE LineageStep
<1> USE DEF LoginInv
<1>1. CASE configs' = configs
  BY <1>1, RetiredRows
<1>2. CASE IssueSetupCode
  <2>1. \A c \in Configs : \/ configs'[c] = configs[c]
                           \/ configs'[c] = [configs[c] EXCEPT !.status = "retired"]
    BY <1>2 DEF IssueSetupCode
  <2> QED BY <2>1, RetiredRows
<1>3. ASSUME NEW b \in Browsers, SaveSettings(b) PROVE LineageStep
  <2>1. PICK x, account, token : SaveLoginCandidate(b, x, account, token)
    BY <1>3 DEF SaveSettings
  <2>2. PICK kept : kept = [c \in Configs |->
                 IF /\ configs[c].status = "candidate"
                    /\ \/ ~configs[c].live
                       \/ account # None /\ configs[c].by = account
                       \/ token # 0 /\ configs[c].setup = token
                 THEN [configs[c] EXCEPT !.status = "retired"] ELSE configs[c]]
    OBVIOUS
  <2>3. PICK new : new = [subject |-> x, expected |-> ActiveID, by |-> account,
                          setup |-> token, status |-> "candidate", live |-> TRUE]
    OBVIOUS
  <2>4. configs' = Append(kept, new)
    BY <2>1, <2>2, <2>3 DEF SaveLoginCandidate
  <2>5. \A c \in Configs : kept[c] \in ConfigRow
    BY <2>2, ConfigStatus DEF LoginTypeOK, Configs
  <2>6. kept \in Seq(ConfigRow) /\ Len(kept) = Len(configs)
    BY <2>2, <2>5, ConfigTable
  <2>7. \A c \in Configs : configs'[c] = kept[c]
    BY ONLY <2>4, <2>6 DEF Configs
  <2>8. \A c \in Configs : \/ kept[c] = configs[c]
                           \/ kept[c] = [configs[c] EXCEPT !.status = "retired"]
    BY ONLY <2>2
  <2> QED BY <2>7, <2>8, RetiredRows
<1>4. ASSUME NEW c \in Configs, ExpireCandidate(c) PROVE LineageStep
  <2>1. configs' = [configs EXCEPT ![c] = [configs[c] EXCEPT !.live = FALSE]]
    BY <1>4 DEF ExpireCandidate
  <2>2. configs[c] \in ConfigRow /\ configs \in Seq(ConfigRow)
    BY DEF LoginTypeOK, Configs
  <2>3. \A d \in Configs : configs'[d].status = configs[d].status
    BY <2>1, <2>2, ConfigLate DEF Configs
  <2> QED BY <2>3 DEF LineageStep, Configs
<1>5. ASSUME NEW f \in Flows, NEW x \in Subjects, FinishOAuth(f, x) PROVE LineageStep
  BY <1>5, FinishLineage
<1>6. ASSUME NEW b \in Browsers,
             \/ ExchangeSetupCode(b) \/ BeginOAuth(b) \/ BeginManagedOAuth(b) \/ RevokeSession(b)
             \/ \E f \in Flows : ConsumeOAuth(b, f)
             \/ \E a \in Subjects, g \in Offered, add \in BOOLEAN :
                  ChangeMembership(b, a, g[1], g[2], add)
      PROVE  configs' = configs
  BY <1>6 DEF ExchangeSetupCode, BeginOAuth, BeginManagedOAuth, InsertFlow, RevokeSession,
              ConsumeOAuth, ChangeMembership
<1>7. ASSUME \/ \E x \in Subjects : ConfigureGitHubBootstrap(x)
             \/ \E f \in Flows : CallbackFails(f)
             \/ \E a \in Subjects : Suspend(a)
             \/ \E n \in Sessions : AgeSession(n)
             \/ \E f \in Flows : ExpireFlow(f)
             \/ ExpireSetup
      PROVE  configs' = configs
  BY <1>7 DEF ConfigureGitHubBootstrap, CallbackFails, Suspend, AgeSession, ExpireFlow, ExpireSetup
<1>8. CASE UNCHANGED loginVars
  BY <1>1, <1>8 DEF loginVars
<1> QED BY <1>1, <1>2, <1>3, <1>4, <1>5, <1>6, <1>7, <1>8 DEF LoginNext, LoginTime

\* A configuration comes into force only in the place of the one its author
\* had seen, and a retired one never does (checkCandidate,
\* activateLoginConfig).
THEOREM LineageAlways == LoginSpec => ConfigLineage
<1>1. LoginInv /\ [LoginNext]_loginVars => [LineageStep]_loginVars
  BY LineageHolds
<1>2. ConfigLineage <=> [][LineageStep]_loginVars
  BY PTL DEF ConfigLineage, LineageStep
<1> QED BY <1>1, <1>2, LoginInvariance, PTL DEF LoginSpec
=============================================================================
