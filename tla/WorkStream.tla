----------------------------- MODULE WorkStream -----------------------------
(***************************************************************************)
(* The Work stream between the Runners and the gRPC server, composed with  *)
(* the job rows of RunQueue: the Runner's session loop with its local jobs,*)
(* its executors, lease timers and log buffers; the stream, which breaks   *)
(* and is opened again; and the server's handler, one transaction at a     *)
(* time.                                                                   *)
(*                                                                         *)
(* A lease token is the number of the claim that issued it.  The Runner's  *)
(* clock and the database's are not compared: a local deadline may pass at *)
(* any moment.  What nothing but a failure brings about counts against     *)
(* MaxFaults: broken streams, dead processes, deadlines that pass although *)
(* the lease could still be renewed, and unavailable credentials.  A Runner*)
(* announces the same capabilities in every heartbeat, also after a restart*)
(* (RunQueue models the change of them).                                   *)
(***************************************************************************)
EXTENDS Integers, Sequences, FiniteSets

CONSTANTS
  RunLimit, Keys, Deps, Kinds, Runners, Capacity, CanRun, NoRunner,
  Printing,     \* the keys whose commands write output
  LogLimit,     \* MaxJobLogChunks, the marker of a cut log included
  InFlight,     \* messages a stream holds in one direction
  HeartbeatWindow, \* a heartbeat is sent while fewer messages are under way
  MaxFaults,
  MaxClaims     \* claims of one job

ASSUME StoreAssumption == RunLimit \in Nat /\ IsFiniteSet(Keys) /\ NoRunner \notin Runners
ASSUME LogLimitAssumption == LogLimit \in Nat \ {0}

VARIABLES
  runStatus, kind, jobStatus, owner, accepted, ttl, disabled, pending, final, rerunKey,
  token,      \* jobs.lease_token_hash: the claim that wrote it
  stored,     \* job_log_chunks
  expired,    \* jobs whose job_log_streams.expires_at has passed
  handler,    \* the server's Work handler of each Runner
  attached,   \* Runners whose handler serves the stream they use now
  requests, responses,
  link,       \* Runners inside runSession with a stream
  active,     \* the Runner's local jobs
  executing,  \* goroutines in executeJob
  results, losses,   \* the channels of these names
  sent,       \* sentLogs of the session
  faults,
  begun,      \* history: executions begun
  ran,        \* history: jobs whose executor returned no error
  printed,    \* history: the log chunks made of what the executor wrote
  cut         \* history: jobs some output of which the Runner threw away

queue == <<runStatus, kind, jobStatus, owner, accepted, ttl, disabled, pending, final, rerunKey>>
wire == <<attached, requests, responses, link>>
client == <<active, executing, results, losses, sent>>
history == <<begun, ran, printed, cut, expired>>
vars == <<queue, token, stored, handler, wire, client, faults, history>>

Announced(w) == [capacity |-> Capacity[w], fits |-> {k \in Keys : <<w, k>> \in CanRun}]

Q == INSTANCE RunQueue WITH
  Descriptors <- [w \in Runners |-> {Announced(w)}],
  descriptor <- [w \in Runners |-> Announced(w)], SourceCapable <- Runners, Retirable <- {}, Requests <- {}, LeaseTicks <- 1

Jobs == (1..RunLimit) \X Keys
Status(j) == jobStatus[j[1]][j[2]]

-----------------------------------------------------------------------------
(* The Runner's local jobs.                                                *)

NoEntry == [lease |-> 0, phase |-> "none", lost |-> FALSE, verdict |-> "none",
            seq |-> 0, chunk |-> 0, last |-> "none"]

\* decodeAssignment, armLeaseDeadline, newLogBuffer
NewEntry(t) == [NoEntry EXCEPT !.lease = t, !.phase = "awaitingAcceptance"]

Known(w) == {j \in Jobs : active[w][j].phase # "none"}
Awaiting(w) == {j \in Jobs : active[w][j].phase \in {"awaitingAcceptance", "awaitingStart"}}

\* The context of the execution of job j under lease t is canceled.
Canceled(w, j, t) ==
  active[w][j].phase = "none" \/ active[w][j].lease # t \/ active[w][j].lost

\* resendTransition
Transition(w, j) ==
  [type |-> IF active[w][j].phase = "awaitingAcceptance" THEN "accepted" ELSE "started",
   job |-> j, lease |-> active[w][j].lease]

\* sendHeartbeat: the leases listed are those of executions with authority.
MutantReportAll(w) == {<<j, active[w][j].lease>> : j \in Known(w)}
Reported(w) ==
  {<<j, active[w][j].lease>> :
     j \in {i \in Jobs : ~active[w][i].lost /\ active[w][i].phase \in {"running", "completed"}}}

Heartbeat(w) == [type |-> "heartbeat", leases |-> Reported(w)]

Completion(j, e) == [type |-> "completed", job |-> j, lease |-> e.lease, verdict |-> e.verdict]

\* A renewal of a completed job: the completion may have been lost.
MutantResendNothing(j, e) == <<>>
Resend(j, e) == <<Completion(j, e)>>

Orders(S) == {s \in [1..Cardinality(S) -> S] : S = {s[i] : i \in 1..Cardinality(S)}}

-----------------------------------------------------------------------------
(* The stream.  Messages of a stream the other side has left are dropped.  *)

Send(w, s) == requests' = IF w \in attached THEN [requests EXCEPT ![w] = @ \o s] ELSE requests
Respond(w, s) == responses' = IF w \in attached THEN [responses EXCEPT ![w] = @ \o s] ELSE responses

Room(w) == Len(requests[w]) < InFlight

\* runSession returns.
LeaveStream(w) ==
  /\ link' = link \ {w}
  /\ attached' = attached \ {w}
  /\ responses' = [responses EXCEPT ![w] = <<>>]
  /\ sent' = [sent EXCEPT ![w] = [j \in Jobs |-> 0]]

\* Work returns, and with it endSession.
CloseStream(w) ==
  /\ handler' = [handler EXCEPT ![w] = [at |-> "none"]]
  /\ attached' = attached \ {w}
  /\ requests' = [requests EXCEPT ![w] = <<>>]

Fault == faults < MaxFaults /\ faults' = faults + 1

-----------------------------------------------------------------------------
Init ==
  /\ Q!Init
  /\ token = [j \in Jobs |-> 0]
  /\ stored = [j \in Jobs |-> <<>>]
  /\ handler = [w \in Runners |-> [at |-> "none"]]
  /\ attached = {}
  /\ requests = [w \in Runners |-> <<>>]
  /\ responses = [w \in Runners |-> <<>>]
  /\ link = {}
  /\ active = [w \in Runners |-> [j \in Jobs |-> NoEntry]]
  /\ executing = [w \in Runners |-> {}]
  /\ results = [w \in Runners |-> <<>>]
  /\ losses = [w \in Runners |-> <<>>]
  /\ sent = [w \in Runners |-> [j \in Jobs |-> 0]]
  /\ faults = 0
  /\ begun = [j \in Jobs |-> 0]
  /\ ran = {}
  /\ printed = [j \in Jobs |-> <<>>]
  /\ cut = {}
  /\ expired = {}

-----------------------------------------------------------------------------
(* Sessions.                                                               *)

\* Run, runSession: a new stream.  The server refuses it (beginSession) while
\* the handler of an earlier stream of the Runner has not returned.
Connect(w) ==
  /\ w \notin link
  /\ link' = link \cup {w}
  /\ IF handler[w].at = "none"
       THEN /\ attached' = attached \cup {w}
            /\ handler' = [handler EXCEPT ![w] = [at |-> "idle"]]
            /\ \E s \in Orders(Awaiting(w)) :
                 requests' = [requests EXCEPT ![w] =
                   [i \in DOMAIN s |-> Transition(w, s[i])] \o <<Heartbeat(w)>>]
       ELSE UNCHANGED <<attached, handler, requests>>
  /\ UNCHANGED <<queue, token, stored, responses, client, faults, history>>

\* The Runner learns that the server has left the stream.
StreamEnds(w) ==
  /\ w \in link \ attached
  /\ LeaveStream(w)
  /\ UNCHANGED <<queue, token, stored, handler, requests, active, executing, results, losses,
                 faults, history>>

\* The connection fails, or the certificate is due for rotation.  The server
\* may go on with what it has already received.
Disconnect(w) ==
  /\ w \in attached
  /\ Fault
  /\ LeaveStream(w)
  /\ UNCHANGED <<queue, token, stored, handler, requests, active, executing, results, losses, history>>

\* The server notices that the Runner has left.
OrphanEnds(w) ==
  /\ handler[w].at # "none" /\ w \notin attached
  /\ CloseStream(w)
  /\ UNCHANGED <<queue, token, stored, responses, link, client, faults, history>>

\* The Runner's process dies or is shut down.
Crash(w) ==
  /\ Fault
  /\ LeaveStream(w)
  /\ active' = [active EXCEPT ![w] = [j \in Jobs |-> NoEntry]]
  /\ executing' = [executing EXCEPT ![w] = {}]
  /\ results' = [results EXCEPT ![w] = <<>>]
  /\ losses' = [losses EXCEPT ![w] = <<>>]
  /\ UNCHANGED <<queue, token, stored, handler, requests, history>>

-----------------------------------------------------------------------------
(* The server's handler.                                                   *)

\* The token and the Runner's certificate identify the current lease.
HasLease(w, j, t) == Q!Holds(w, j[1], j[2]) /\ token[j] = t

Refuse(w) == CloseStream(w) /\ UNCHANGED <<queue, token, stored, responses>>

Handled(w) == requests' = [requests EXCEPT ![w] = Tail(@)] /\ UNCHANGED <<token, handler, attached>>

\* handleReceipt
HandleAccepted(w, m) ==
  IF HasLease(w, m.job, m.lease)
    THEN /\ Q!AcknowledgeRunnerJob(w, m.job[1], m.job[2])
         /\ Respond(w, <<[type |-> "renewed", job |-> m.job]>>)
         /\ Handled(w) /\ UNCHANGED stored
    ELSE Refuse(w)

HandleStarted(w, m) ==
  IF HasLease(w, m.job, m.lease) /\ m.job \in accepted
    THEN /\ Q!StartRunnerJob(w, m.job[1], m.job[2])
         /\ Respond(w, <<[type |-> "renewed", job |-> m.job]>>)
         /\ Handled(w) /\ UNCHANGED stored
    ELSE Refuse(w)

HandleCompletion(w, m) ==
  IF HasLease(w, m.job, m.lease)
    THEN /\ Q!CompleteRunnerJob(w, m.job[1], m.job[2], m.verdict)
         /\ Handled(w) /\ UNCHANGED <<stored, responses>>
    ELSE Refuse(w)

\* AppendLogChunk: the rows after chunk m, or <<>> if it is refused.  The chunk
\* that fills the log leaves room for the marker only, and the marker for none.
Row(m) == [lease |-> m.lease, seq |-> m.seq, body |-> m.body]
LastBody(rows) == IF rows = <<>> THEN "none" ELSE rows[Len(rows)].body

Appendable(rows, m) ==
  /\ m.seq = Len(rows) + 1
  /\ LastBody(rows) # "marker"
  /\ m.body # "marker" => LastBody(rows) # "fills" /\ m.seq < LogLimit
  /\ m.seq <= LogLimit

MutantAppendAlways(rows, m) == Append(rows, Row(m))
AppendLogChunk(rows, m) ==
  IF m.seq <= Len(rows) THEN IF rows[m.seq] = Row(m) THEN rows ELSE <<>>
  ELSE IF Appendable(rows, m) THEN Append(rows, Row(m)) ELSE <<>>

\* handleLog: a chunk of a running job whose log may still be written.
HandleLog(w, m) ==
  LET rows == AppendLogChunk(stored[m.job], m)
  IN  IF /\ HasLease(w, m.job, m.lease) /\ Status(m.job) = "running"
         /\ m.job \notin expired /\ rows # <<>>
        THEN /\ stored' = [stored EXCEPT ![m.job] = rows]
             /\ Respond(w, <<[type |-> "logAck", job |-> m.job, seq |-> m.seq]>>)
             /\ Handled(w) /\ UNCHANGED queue
        ELSE Refuse(w)

\* handleHeartbeat: renew what is listed, answer each lease, go on to claim.
HandleHeartbeat(w, m) ==
  LET good == {l \in m.leases : HasLease(w, l[1], l[2])}
      Answer(l) == [type |-> IF l \in good THEN "renewed" ELSE "cancel", job |-> l[1]]
  IN  /\ Q!RenewRunnerLeases(w, {l[1] : l \in good}, Announced(w))
      /\ \E s \in Orders(m.leases) : Respond(w, [i \in DOMAIN s |-> Answer(s[i])])
      /\ requests' = [requests EXCEPT ![w] = Tail(@)]
      /\ handler' = [handler EXCEPT ![w] = [at |-> "claiming"]]
      /\ UNCHANGED <<token, stored, attached>>

Serve(w) ==
  /\ handler[w].at = "idle" /\ requests[w] # <<>> /\ Len(responses[w]) < InFlight
  /\ LET m == Head(requests[w])
     IN  CASE m.type = "accepted"  -> HandleAccepted(w, m)
           [] m.type = "started"   -> HandleStarted(w, m)
           [] m.type = "completed" -> HandleCompletion(w, m)
           [] m.type = "log"       -> HandleLog(w, m)
           [] m.type = "heartbeat" -> HandleHeartbeat(w, m)
  /\ UNCHANGED <<link, client, faults, history>>

\* The claim loop of handleHeartbeat: a job without source is sent at once.
Assign(w, j, t) == [type |-> "assignment", job |-> j, lease |-> t]

Claim(w) ==
  /\ handler[w].at = "claiming" /\ Len(responses[w]) < InFlight
  /\ \E j \in Jobs :
       /\ token[j] < MaxClaims
       /\ Q!ClaimRunnerJob(w, j[1], j[2])
       /\ token' = [token EXCEPT ![j] = @ + 1]
       /\ IF kind[j[1]] = "checkout"
            THEN handler' = [handler EXCEPT ![w] = [at |-> "issuing", job |-> j, lease |-> token'[j]]]
                 /\ UNCHANGED responses
            ELSE Respond(w, <<Assign(w, j, token'[j])>>) /\ UNCHANGED handler
  /\ UNCHANGED <<stored, attached, requests, link, client, faults, history>>

\* No job, no capacity, or the runs are locked by other transactions.
StopClaiming(w) ==
  /\ handler[w].at = "claiming"
  /\ handler' = [handler EXCEPT ![w] = [at |-> "idle"]]
  /\ UNCHANGED <<queue, token, stored, wire, client, faults, history>>

\* attachSourceCredential: the credential is issued,
IssueCredential(w) ==
  /\ handler[w].at = "issuing"
  /\ Respond(w, <<Assign(w, handler[w].job, handler[w].lease)>>)
  /\ handler' = [handler EXCEPT ![w] = [at |-> "claiming"]]
  /\ UNCHANGED <<queue, token, stored, attached, requests, link, client, faults, history>>

\* or it is not: the job is given back, or fails for good, and the stream ends.
CredentialUnavailable(w, permanent) ==
  /\ handler[w].at = "issuing"
  /\ Fault
  /\ LET j == handler[w].job
     IN  IF ~HasLease(w, j, handler[w].lease) THEN UNCHANGED queue
         ELSE IF permanent THEN Q!CompleteRunnerJob(w, j[1], j[2], "failed")
         ELSE Q!ReleaseRunnerJob(w, j[1], j[2])
  /\ CloseStream(w)
  /\ UNCHANGED <<token, stored, responses, link, client, history>>

-----------------------------------------------------------------------------
(* The Runner's loop: handleResponse.                                      *)

SetEntry(w, j, e) == active' = [active EXCEPT ![w][j] = e]

Took(w) == responses' = [responses EXCEPT ![w] = Tail(@)] /\ UNCHANGED <<link, attached, sent>>

\* An error of handleResponse ends the session.
Break(w) == LeaveStream(w) /\ UNCHANGED <<requests, active, executing, begun>>

TakeAssignment(w, m) ==
  CASE m.job \in Known(w) /\ active[w][m.job].lease = m.lease ->
         /\ Send(w, IF m.job \in Awaiting(w) THEN <<Transition(w, m.job)>> ELSE <<>>)
         /\ Took(w) /\ UNCHANGED <<active, executing, begun>>
    [] m.job \notin Known(w) /\ Cardinality(Known(w)) < Capacity[w] ->
         /\ SetEntry(w, m.job, NewEntry(m.lease))
         /\ Send(w, <<[type |-> "accepted", job |-> m.job, lease |-> m.lease]>>)
         /\ Took(w) /\ UNCHANGED <<executing, begun>>
    [] OTHER -> Break(w)

TakeRenewal(w, m) ==
  LET e == active[w][m.job]
  IN  CASE e.phase = "none" -> Break(w)
        [] e.lost ->
             SetEntry(w, m.job, NoEntry) /\ Took(w) /\ UNCHANGED <<requests, executing, begun>>
        [] ~e.lost /\ e.phase = "awaitingAcceptance" ->
             /\ SetEntry(w, m.job, [e EXCEPT !.phase = "awaitingStart"])
             /\ Send(w, <<[type |-> "started", job |-> m.job, lease |-> e.lease]>>)
             /\ Took(w) /\ UNCHANGED <<executing, begun>>
        [] ~e.lost /\ e.phase = "awaitingStart" ->
             /\ SetEntry(w, m.job, [e EXCEPT !.phase = "running"])
             /\ executing' = [executing EXCEPT ![w] = @ \cup {<<m.job, e.lease>>}]
             /\ begun' = [begun EXCEPT ![m.job] = @ + 1]
             /\ Took(w) /\ UNCHANGED requests
        [] ~e.lost /\ e.phase = "running" -> Took(w) /\ UNCHANGED <<requests, active, executing, begun>>
        [] ~e.lost /\ e.phase = "completed" ->
             Send(w, Resend(m.job, e)) /\ Took(w) /\ UNCHANGED <<active, executing, begun>>

TakeLogAck(w, m) ==
  /\ active' = [active EXCEPT ![w][m.job].chunk = IF @ = m.seq THEN 0 ELSE @]
  /\ Took(w) /\ UNCHANGED <<requests, executing, begun>>

TakeCancel(w, m) ==
  SetEntry(w, m.job, NoEntry) /\ Took(w) /\ UNCHANGED <<requests, executing, begun>>

Receive(w) ==
  /\ w \in link /\ responses[w] # <<>>
  /\ LET m == Head(responses[w])
     IN  CASE m.type = "assignment" -> TakeAssignment(w, m)
           [] m.type = "renewed"    -> TakeRenewal(w, m)
           [] m.type = "logAck"     -> TakeLogAck(w, m)
           [] m.type = "cancel"     -> TakeCancel(w, m)
  /\ UNCHANGED <<queue, token, stored, handler, results, losses, faults, ran, printed, cut,
                 expired>>

\* decodeAssignment, armLeaseDeadline: the lease ran out on the way.  A job that
\* got as far as its timer leaves a notice of the loss.
AssignmentExpired(w) ==
  /\ w \in link /\ responses[w] # <<>> /\ Head(responses[w]).type = "assignment"
  /\ LET m == Head(responses[w])
     IN  /\ IF HasLease(w, m.job, m.lease) THEN Fault ELSE UNCHANGED faults
         /\ \/ UNCHANGED losses
            \/ /\ m.job \notin Known(w) /\ Cardinality(Known(w)) < Capacity[w]
               /\ Len(losses[w]) < Capacity[w]
               /\ losses' = [losses EXCEPT ![w] = Append(@, m.job)]
  /\ Break(w)
  /\ UNCHANGED <<queue, token, stored, handler, results, ran, printed, cut, expired>>

-----------------------------------------------------------------------------
(* The Runner's loop: the other events of runSession.                      *)

\* A result arrives; it names the job, not the lease.
Reportable(w) == LET e == active[w][Head(results[w]).job] IN e.phase = "running" /\ ~e.lost

HandleResult(w) ==
  /\ w \in link /\ results[w] # <<>>
  /\ results' = [results EXCEPT ![w] = Tail(@)]
  /\ LET r == Head(results[w])
         e == [active[w][r.job] EXCEPT !.phase = "completed", !.verdict = r.verdict]
     IN  IF Reportable(w)
           THEN SetEntry(w, r.job, e) /\ Send(w, <<Completion(r.job, e)>>)
           ELSE /\ active' = [active EXCEPT ![w][r.job] = IF @.lost THEN NoEntry ELSE @]
                /\ UNCHANGED requests
  /\ UNCHANGED <<queue, token, stored, handler, attached, responses, link, executing, losses, sent,
                 faults, history>>

\* The ticker.
SendHeartbeat(w) ==
  /\ w \in attached
  /\ Len(requests[w]) + Len(responses[w]) < HeartbeatWindow
  /\ Send(w, <<Heartbeat(w)>>)
  /\ UNCHANGED <<queue, token, stored, handler, attached, responses, link, client, faults, history>>

\* logTick: the pending chunk, once in a session.
SendLog(w, j) ==
  LET e == active[w][j]
  IN  /\ w \in link /\ Room(w)
      /\ ~e.lost /\ e.chunk \notin {0, sent[w][j]}
      /\ Send(w, <<[type |-> "log", job |-> j, lease |-> e.lease, seq |-> e.chunk,
                     body |-> e.last]>>)
      /\ sent' = [sent EXCEPT ![w][j] = e.chunk]
      /\ UNCHANGED <<queue, token, stored, handler, attached, responses, link, active, executing,
                     results, losses, faults, history>>

HandleLoss(w) ==
  /\ w \in link /\ losses[w] # <<>>
  /\ losses' = [losses EXCEPT ![w] = Tail(@)]
  /\ active' = [active EXCEPT ![w][Head(losses[w])] = IF @.lost THEN NoEntry ELSE @]
  /\ UNCHANGED <<queue, token, stored, handler, wire, executing, results, sent, faults, history>>

-----------------------------------------------------------------------------
(* The Runner's other goroutines, and the executor.                        *)

\* loseLease from the lease timer: the notice is dropped if the channel is full.
LoseLease(w, j) ==
  /\ j \in Known(w) /\ ~active[w][j].lost
  /\ SetEntry(w, j, [active[w][j] EXCEPT !.lost = TRUE])
  /\ losses' = IF Len(losses[w]) < Capacity[w] THEN [losses EXCEPT ![w] = Append(@, j)] ELSE losses
  /\ UNCHANGED <<queue, token, stored, handler, wire, executing, results, sent, history>>

\* The deadline passes although the lease could be renewed, or because it cannot.
LocalDeadline(w, j) ==
  /\ LoseLease(w, j)
  /\ IF HasLease(w, j, active[w][j].lease) THEN Fault ELSE UNCHANGED faults

\* What logWriter.Write makes of the next output: a chunk, one that fills the
\* log to MaxJobLogBytes, or, where none fits any more, the empty marker.
NextBodies(e) ==
  IF e.last = "fills" \/ e.seq >= LogLimit - 1 THEN {"marker"} ELSE {"data", "fills"}

\* logWriter.Write: a chunk waits until it is acknowledged.  The marker stands
\* for output that is thrown away; what is written after it leaves no trace.
WriteLog(w, j) ==
  LET e == active[w][j]
  IN  /\ <<j, e.lease>> \in executing[w] /\ ~Canceled(w, j, e.lease)
      /\ j[2] \in Printing /\ e.chunk = 0 /\ e.last # "marker"
      /\ \E b \in NextBodies(e) :
           /\ SetEntry(w, j, [e EXCEPT !.seq = @ + 1, !.chunk = e.seq + 1, !.last = b])
           /\ printed' = [printed EXCEPT ![j] = Append(@, b)]
           /\ cut' = IF b = "marker" THEN cut \cup {j} ELSE cut
      /\ UNCHANGED <<queue, token, stored, handler, wire, executing, results, losses, sent, faults,
                     begun, ran, expired>>

\* executeJob: the executor returns, and its result is delivered unless the
\* channel is full or, once the job is canceled, possibly not at all.
FinishExecution(w, j, t, verdict) ==
  /\ <<j, t>> \in executing[w]
  /\ Canceled(w, j, t) \/ active[w][j].chunk = 0
  /\ verdict = "failed" => ~Canceled(w, j, t)
  /\ verdict = "canceled" => Canceled(w, j, t)
  /\ executing' = [executing EXCEPT ![w] = @ \ {<<j, t>>}]
  /\ \/ /\ Len(results[w]) < Capacity[w]
        /\ results' = [results EXCEPT ![w] = Append(@, [job |-> j, verdict |-> verdict])]
     \/ Canceled(w, j, t) /\ UNCHANGED results
  /\ ran' = IF verdict = "succeeded" THEN ran \cup {j} ELSE ran
  /\ UNCHANGED <<queue, token, stored, handler, wire, active, losses, sent, faults, begun, printed,
                 cut, expired>>

-----------------------------------------------------------------------------
(* The store's own steps.                                                  *)

rest == <<token, stored, handler, wire, client, history>>

\* job_log_streams.expires_at, seven days after the job was created, passes.
\* Until a chunk of the job is to be stored that makes no difference.
LogExpires(j) ==
  /\ j \notin expired /\ \E w \in Runners : active[w][j].chunk # 0
  /\ expired' = expired \cup {j}
  /\ UNCHANGED <<queue, token, stored, handler, wire, client, faults, begun, ran, printed, cut>>

Submit(r, c) == Q!CreateRun(r, c) /\ UNCHANGED <<rest, faults>>

Cancel(r) == Q!CancelAuthorizedRun(r) /\ UNCHANGED <<rest, faults>>

Recover(r) ==
  /\ \E S, late \in SUBSET Keys : Q!RecoverExpiredRunnerLeases(r, S, late)
  /\ UNCHANGED <<rest, faults>>

\* Some message or local job can still renew the lease of job j, or the handler
\* has not yet finished the loop in which it claimed the job.
Renewable(j) ==
  \E w \in Runners :
    /\ owner[j[1]][j[2]] = w
    /\ \/ active[w][j].lease = token[j] /\ ~active[w][j].lost
       \/ \E i \in DOMAIN responses[w] : responses[w][i] = Assign(w, j, token[j])
       \/ handler[w].at \in {"claiming", "issuing"}

StoreDeadline(j) ==
  /\ Q!Elapse(j[1], j[2])
  /\ IF Renewable(j) THEN Fault ELSE UNCHANGED faults
  /\ UNCHANGED rest

-----------------------------------------------------------------------------
Next ==
  \/ \E w \in Runners :
       \/ Connect(w) \/ StreamEnds(w) \/ Disconnect(w) \/ OrphanEnds(w) \/ Crash(w)
       \/ Serve(w) \/ Claim(w) \/ StopClaiming(w) \/ IssueCredential(w)
       \/ \E p \in BOOLEAN : CredentialUnavailable(w, p)
       \/ Receive(w) \/ AssignmentExpired(w) \/ HandleResult(w) \/ SendHeartbeat(w) \/ HandleLoss(w)
       \/ \E j \in Jobs : SendLog(w, j) \/ LocalDeadline(w, j) \/ WriteLog(w, j)
       \/ \E e \in executing[w], v \in Q!JobResults : FinishExecution(w, e[1], e[2], v)
  \/ \E r \in 1..RunLimit, c \in Kinds : Submit(r, c)
  \/ \E r \in 1..RunLimit : Cancel(r) \/ Recover(r)
  \/ \E j \in Jobs : StoreDeadline(j) \/ LogExpires(j)

Spec == Init /\ [][Next]_vars

-----------------------------------------------------------------------------
(* Fairness.  A Runner opens its stream again after every backoff; both    *)
(* sides read what arrives; select takes an event that stays ready; timers *)
(* fire, the executor applies the job's timeout, and recovery runs every 5 *)
(* seconds.  Strong fairness where readiness comes and goes with sessions  *)
(* and locks: a claim skips locked runs, so it succeeds in the end, not    *)
(* every time; a loss notice outlasts the sessions that could take it; and *)
(* a deadline that no renewal can move passes.                             *)

Fairness ==
  /\ \A w \in Runners :
       /\ WF_vars(Connect(w)) /\ WF_vars(StreamEnds(w)) /\ WF_vars(OrphanEnds(w))
       /\ WF_vars(Serve(w)) /\ WF_vars(IssueCredential(w)) /\ WF_vars(StopClaiming(w))
       /\ SF_vars(Claim(w))
       /\ WF_vars(Receive(w))
       /\ WF_vars(HandleResult(w)) /\ SF_vars(HandleLoss(w)) /\ WF_vars(SendHeartbeat(w))
       /\ \A j \in Jobs :
            /\ WF_vars(SendLog(w, j))
            /\ WF_vars(LocalDeadline(w, j) /\ UNCHANGED faults)
            /\ WF_vars(\E t \in 1..MaxClaims, v \in Q!JobResults : FinishExecution(w, j, t, v))
  /\ \A r \in 1..RunLimit : WF_vars(Recover(r))
  /\ SF_vars(\E j \in Jobs : StoreDeadline(j) /\ UNCHANGED faults)

FairSpec == Spec /\ Fairness

-----------------------------------------------------------------------------
(* Properties.                                                             *)

\* The stream, with its retries and the store's transactions, keeps the promise
\* about every job: begun at most once, and succeeded only after it ran to the
\* end ("It must not create an execution container until the Server accepts the
\* start transition", and a started job is never handed out again).
Promise == INSTANCE JobPromise WITH
  verdict <- [j \in Jobs |-> IF Status(j) \in Q!JobResults THEN Status(j) ELSE "open"]

\* The detailed specification implements the promise.
KeepsPromise == Promise!PromiseSpec

\* While a Runner executes a job with authority, the store has it running under
\* that very lease, or has given the lease up: no renewal, repeated transition
\* or late answer of an earlier session stands in for the accepted start.
ExecutionAuthorized ==
  \A w \in Runners : \A e \in executing[w] :
    /\ token[e[1]] = e[2] /\ owner[e[1][1]][e[1][2]] = w
    /\ Status(e[1]) \in {"running"} \cup Q!JobResults

\* The stored log is what the Runner made of the output, without a gap, a
\* repetition or a chunk of another lease, and nothing follows the marker that
\* closes it: everything a Runner has seen acknowledged and at most one chunk
\* more.  Once the job has succeeded all of it is there, and it ends in a marker
\* exactly if some output was thrown away at the limit (reconnects send the
\* pending chunk again; AppendLogChunk recognises it; a log that has expired
\* holds its job up and is not skipped).
LogExact ==
  /\ \A j \in Jobs :
       /\ Len(stored[j]) <= Len(printed[j])
       /\ \A i \in DOMAIN stored[j] :
            stored[j][i] = [lease |-> token[j], seq |-> i, body |-> printed[j][i]]
       /\ \A i \in DOMAIN stored[j] : stored[j][i].body = "marker" => i = Len(stored[j])
       /\ Status(j) = "succeeded" =>
            /\ Len(stored[j]) = Len(printed[j])
            /\ j \in cut <=> LastBody(stored[j]) = "marker"
  /\ \A w \in Runners, j \in Jobs :
       LET e == active[w][j]
       IN  e.phase # "none" /\ e.seq > 0 => e.seq - Len(stored[j]) \in {0, IF e.chunk = 0 THEN 0 ELSE 1}

\* A local job that has lost its lease, without a notice that would remove it.
Unnoticed(w, j) == active[w][j].lost /\ \A i \in DOMAIN losses[w] : losses[w][i] # j

\* A local job with a log chunk that the server will never take: it refuses the
\* stream at every attempt, and the heartbeat before it renews the lease.
LogStuck(w, j) == active[w][j].chunk # 0 /\ j \in expired

\* The bound on claims: this job would have been claimed once more.
Exhausted(j) == Status(j) = "queued" /\ token[j] = MaxClaims

\* Once failures stop, every submitted job comes to an end: no order of breaks,
\* refused sessions, lost answers and lapsed leases leaves a Runner and the
\* server waiting for each other, but for the two states in which the code does:
\* a dropped notice of a lost lease, and an unfinished log that has expired.
JobsEnd ==
  \/ []<>((\A j \in Jobs : Status(j) \notin Q!Unfinished) \/ \E j \in Jobs : Exhausted(j))
  \/ <>[](\E w \in Runners, j \in Jobs : Unnoticed(w, j) \/ LogStuck(w, j))
-----------------------------------------------------------------------------
(* What a document of the repository says, and the Runner does not keep.   *)

\* "A recovered connection reports local active Jobs; the Server renews those
\* still valid and cancels unknown, expired, moved or terminal Jobs": a local
\* job whose lease has expired does not stay with the Runner.
ExpiredJobsLeave == \A w \in Runners, j \in Jobs : active[w][j].lost ~> ~active[w][j].lost
=============================================================================
