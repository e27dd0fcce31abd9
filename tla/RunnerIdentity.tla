--------------------------- MODULE RunnerIdentity ---------------------------
(***************************************************************************)
(* The identity of one Runner: its enrolment with a registration token,    *)
(* the credentials in its state directory, the rotation of its certificate *)
(* through the gRPC server and the certificate rows behind it.             *)
(*                                                                         *)
(* A certificate is the position of its row, a key (with the request made  *)
(* from it) a number, and a fresh key is one that nothing holds any more.  *)
(* Time passes in the steps that matter: a certificate has six hours left, *)
(* is past its end, or is past the grace of its replacement.  What only a  *)
(* failure brings about counts against MaxFaults.                          *)
(***************************************************************************)
EXTENDS RunnerPKI, Sequences

CONSTANTS
  CertLimit,  \* bound: certificates issued
  KeyLimit    \* bound: keys held at the same time

ASSUME IdentityAssumption ==
  CertLimit \in Nat \ {0} /\ KeyLimit \in Nat \ {0}

VARIABLES
  token,     \* runner_registration_tokens: uses left, whether it is in time
  status,    \* runners.status, "none" without a row
  certs,     \* runner_certificates
  dir,       \* the state directory with its pending rotation
  staging,   \* its "-next-" sibling
  backup,    \* its "-previous-" sibling
  tokenFile, \* the registration token is at hand
  at,        \* where the Runner process is
  current,   \* the credentials it uses
  fresh,     \* the credentials it is about to persist
  calls      \* Register and RotateCertificate calls the server may still apply

disk == <<dir, staging, backup, tokenFile>>
store == <<token, status, certs>>
process == <<at, current, fresh>>
vars == <<pkiVars, faults, store, disk, process, calls>>

Absent == [key |-> 0, cert |-> 0, pending |-> 0]
NoPair == [key |-> 0, cert |-> 0]
Pair(key, cert) == [key |-> key, cert |-> cert]
Directory(pair) == [key |-> pair.key, cert |-> pair.cert, pending |-> 0]
Serials == 1..Len(certs)

Init ==
  /\ PKIInit
  /\ token = [left |-> 0, live |-> FALSE] /\ status = "none" /\ certs = <<>>
  /\ dir = Absent /\ staging = Absent /\ backup = Absent /\ tokenFile = FALSE
  /\ at = "down" /\ current = NoPair /\ fresh = NoPair
  /\ calls = {}

-----------------------------------------------------------------------------
(* The server and its certificate rows.                                    *)

\* IssueToken and `yuancictl runner-token issue`: the digest is stored and the
\* token carried to the Runner.
IssueToken ==
  /\ Serving /\ status = "none" /\ ~tokenFile /\ ~token.live
  /\ token' = [left |-> 1, live |-> TRUE] /\ tokenFile' = TRUE
  /\ UNCHANGED <<pkiVars, status, certs, dir, staging, backup, process, calls, faults>>

TokenExpires ==
  /\ token.live /\ token' = [token EXCEPT !.live = FALSE]
  /\ UNCHANGED <<pkiVars, status, certs, disk, process, calls, faults>>

Certificate(key, replaces) ==
  [key |-> key, replaces |-> replaces, state |-> "active", age |-> "fresh"]

\* The defect of a check that forgets retire_at.
MutantAcceptedRetiring(c) ==
  /\ status # "disabled" /\ certs[c].age # "expired"
  /\ certs[c].state \in {"active", "retiring", "lapsed"}

\* AuthenticateRunner; "lapsed" is a retiring row past its retire_at.
Accepted(c) ==
  /\ status # "disabled" /\ certs[c].age # "expired"
  /\ certs[c].state \in {"active", "retiring"}

\* The call c is answered, to the Runner if it still waits for the answer.
Answer(c, place, pair) ==
  /\ calls' = calls \ {c}
  /\ IF c.waiting THEN at' = place /\ fresh' = pair
                  ELSE UNCHANGED <<at, fresh>>

\* Enroll and EnrollRunner, in one transaction.  The Runner's name is unique.
EnrollRunner(c) ==
  /\ c.cert = 0
  /\ IF token.live /\ token.left > 0 /\ status = "none"
     THEN /\ token' = [token EXCEPT !.left = @ - 1]
          /\ status' = "offline"
          /\ certs' = Append(certs, Certificate(c.key, 0))
          /\ Answer(c, "enrolled", Pair(c.key, Len(certs) + 1))
     ELSE Answer(c, "down", NoPair) /\ UNCHANGED store
  /\ UNCHANGED <<pkiVars, disk, current, faults>>

\* The interceptor of RotateCertificate.
Authenticate(c) ==
  /\ c.cert # 0 /\ ~c.known
  /\ IF Accepted(c.cert)
     THEN calls' = (calls \ {c}) \cup {[c EXCEPT !.known = TRUE]} /\ UNCHANGED <<at, fresh>>
     ELSE Answer(c, "running", NoPair)
  /\ UNCHANGED <<pkiVars, store, disk, current, faults>>

Replacement(c) == {d \in Serials : certs[d].replaces = c}

\* Only an active certificate without a replacement is replaced, by a request
\* not seen before.
Replaceable(c) ==
  /\ certs[c.cert].state = "active" /\ Replacement(c.cert) = {}
  /\ \A d \in Serials : certs[d].key # c.key

\* The defect of treating a repeated request like any other.
MutantRepeatedDenied(c) == {}

\* replacementCertificate for the request of c: a revoked certificate has no
\* retire_at to answer with.
Repeated(c) ==
  {d \in Replacement(c.cert) : certs[d].key = c.key /\ certs[c.cert].state # "revoked"}

\* Rotate and RotateRunnerCertificate.  The same request again is answered
\* with the replacement that exists.
RotateRunnerCertificate(c) ==
  /\ c.cert # 0 /\ c.known
  /\ \/ /\ status # "disabled"
        /\ \E d \in Repeated(c) : Answer(c, "issued", Pair(c.key, d))
        /\ UNCHANGED certs
     \/ /\ status # "disabled" /\ Replaceable(c)
        /\ certs' = Append([certs EXCEPT ![c.cert].state = "retiring"], Certificate(c.key, c.cert))
        /\ Answer(c, "issued", Pair(c.key, Len(certs) + 1))
     \/ /\ status = "disabled" \/ (Repeated(c) = {} /\ ~Replaceable(c))
        /\ Answer(c, "running", NoPair)
        /\ UNCHANGED certs
  /\ UNCHANGED <<pkiVars, token, status, disk, current, faults>>

Serve ==
  /\ Serving
  /\ \E c \in calls : EnrollRunner(c) \/ Authenticate(c) \/ RotateRunnerCertificate(c)

\* A call nobody waits for never reaches the store.
DropCall ==
  /\ \E c \in calls : ~c.waiting /\ calls' = calls \ {c}
  /\ UNCHANGED <<pkiVars, store, disk, process, faults>>

DisableRunner ==
  /\ status = "offline" /\ status' = "disabled"
  /\ certs' = [c \in Serials |-> [certs[c] EXCEPT !.state = "revoked"]]
  /\ UNCHANGED <<pkiVars, token, disk, process, calls, faults>>

RevokeRunnerCertificate ==
  /\ \E c \in Serials :
       /\ certs[c].state # "revoked"
       /\ certs' = [certs EXCEPT ![c].state = "revoked"]
  /\ UNCHANGED <<pkiVars, token, status, disk, process, calls, faults>>

-----------------------------------------------------------------------------
(* Time.  The grace of fifteen minutes ends long before the replacement    *)
(* has six of its twenty-four hours left, and certificates end in the      *)
(* order in which they were issued.                                        *)

\* The last certificate of the bound does not age.
SixHoursLeft ==
  /\ \E c \in Serials :
       /\ c < CertLimit /\ certs[c].age = "fresh"
       /\ \A d \in Serials : d < c => certs[d].age # "fresh" /\ certs[d].state # "retiring"
       /\ certs' = [certs EXCEPT ![c].age = "due"]
  /\ UNCHANGED <<pkiVars, token, status, disk, process, calls, faults>>

Expire ==
  /\ \E c \in Serials :
       /\ certs[c].age = "due" /\ \A d \in Serials : d < c => certs[d].age = "expired"
       /\ certs' = [certs EXCEPT ![c].age = "expired"]
  /\ UNCHANGED <<pkiVars, token, status, disk, process, calls, faults>>

GraceEnds ==
  /\ \E c \in Serials :
       /\ certs[c].state = "retiring" /\ certs' = [certs EXCEPT ![c].state = "lapsed"]
  /\ UNCHANGED <<pkiVars, token, status, disk, process, calls, faults>>

-----------------------------------------------------------------------------
(* The Runner.                                                             *)

KeysHeld ==
  {certs[c].key : c \in Serials} \cup {c.key : c \in calls}
    \cup {dir.key, dir.pending, staging.key, backup.key, backup.pending, current.key, fresh.key}

FreeKeys == (1..KeyLimit) \ KeysHeld
FreshKey == CHOOSE k \in FreeKeys : TRUE

Call(cert, key) == [cert |-> cert, key |-> key, known |-> FALSE, waiting |-> TRUE]

\* LoadOrEnroll on a state directory that is there.  An expired pair is
\* refused and the process ends.
LoadCredentials ==
  /\ at = "down" /\ dir # Absent /\ certs[dir.cert].age # "expired"
  /\ at' = "running" /\ current' = Pair(dir.key, dir.cert)
  /\ UNCHANGED <<pkiVars, store, disk, fresh, calls, faults>>

\* LoadOrEnroll without one.  The key of the request is not on disk.
Enroll ==
  /\ at = "down" /\ dir = Absent /\ tokenFile /\ FreeKeys # {}
  /\ at' = "enrolling"
  /\ calls' = calls \cup {Call(0, FreshKey)}
  /\ UNCHANGED <<pkiVars, store, disk, current, fresh, faults>>

\* persistCredentials, published by one rename.
PersistEnrolled ==
  /\ at = "enrolled" /\ certs[fresh.cert].age # "expired"
  /\ dir' = Directory(fresh) /\ at' = "persisted"
  /\ current' = fresh /\ fresh' = NoPair
  /\ UNCHANGED <<pkiVars, store, staging, backup, tokenFile, calls, faults>>

RemoveToken ==
  /\ at = "persisted"
  /\ tokenFile' = FALSE /\ at' = "running"
  /\ UNCHANGED <<pkiVars, store, dir, staging, backup, current, fresh, calls, faults>>

\* The defect of a Runner that makes a new request for every attempt.
MutantPendingAnew == [dir EXCEPT !.pending = FreshKey]

\* loadOrCreatePendingRotation: the request of an earlier attempt is used again.
Pending == IF dir.pending # 0 THEN dir ELSE [dir EXCEPT !.pending = FreshKey]

\* The rotation timer of a session and the first half of RotateCredentials.
RotationDue ==
  /\ at = "running" /\ certs[current.cert].age # "fresh" /\ dir # Absent
  /\ FreeKeys # {}
  /\ dir' = Pending /\ at' = "rotating"
  /\ calls' = calls \cup {Call(current.cert, Pending.pending)}
  /\ UNCHANGED <<pkiVars, store, staging, backup, tokenFile, current, fresh, faults>>

\* replaceCredentials, one file operation at a time.
Stage ==
  /\ at = "issued" /\ certs[fresh.cert].age # "expired"
  /\ staging' = Directory(fresh) /\ at' = "staged"
  /\ UNCHANGED <<pkiVars, store, dir, backup, tokenFile, current, fresh, calls, faults>>

MoveAside ==
  /\ at = "staged"
  /\ backup' = dir /\ dir' = Absent
  /\ at' = "moved"
  /\ UNCHANGED <<pkiVars, store, staging, tokenFile, current, fresh, calls, faults>>

Activate ==
  /\ at = "moved"
  /\ dir' = staging /\ staging' = Absent
  /\ at' = "activated"
  /\ UNCHANGED <<pkiVars, store, backup, tokenFile, current, fresh, calls, faults>>

RemoveBackup ==
  /\ at = "activated"
  /\ backup' = Absent /\ current' = fresh /\ fresh' = NoPair
  /\ at' = "running"
  /\ UNCHANGED <<pkiVars, store, dir, staging, tokenFile, calls, faults>>

ClientStep ==
  \/ LoadCredentials \/ Enroll \/ PersistEnrolled \/ RemoveToken
  \/ RotationDue \/ Stage \/ MoveAside \/ Activate \/ RemoveBackup

-----------------------------------------------------------------------------
(* Failures of the Runner.                                                 *)

Abandoned == {[c EXCEPT !.waiting = FALSE] : c \in calls}

\* The call times out or its connection breaks; the server may still apply it.
CallFails ==
  /\ Fault /\ at \in {"enrolling", "rotating"}
  /\ at' = IF at = "enrolling" THEN "down" ELSE "running"
  /\ calls' = Abandoned
  /\ UNCHANGED <<pkiVars, store, disk, current, fresh>>

\* A file operation fails and the deferred removals run.  A process that is
\* enrolling ends with the error, one that is rotating goes on with the
\* credentials it had.
DiskFails ==
  /\ Fault /\ fresh' = NoPair
  /\ \/ /\ at \in {"enrolled", "persisted"}
        /\ at' = "down" /\ current' = NoPair
        /\ UNCHANGED <<dir, staging, backup>>
     \/ /\ at \in {"issued", "staged"}
        /\ at' = "running" /\ staging' = Absent
        /\ UNCHANGED <<dir, backup, current>>
     \/ /\ at = "moved"
        /\ at' = "running" /\ staging' = Absent
        /\ \/ dir' = backup /\ backup' = Absent
           \/ UNCHANGED <<dir, backup>>
        /\ UNCHANGED current
     \/ /\ at = "activated"
        /\ at' = "running"
        /\ UNCHANGED <<dir, staging, backup, current>>
  /\ UNCHANGED <<pkiVars, store, tokenFile, calls>>

\* The pair in the answer has ended meanwhile: credentialsFromPEM.
AnswerExpired ==
  /\ at \in {"enrolled", "issued"} /\ certs[fresh.cert].age = "expired"
  /\ at' = IF at = "enrolled" THEN "down" ELSE "running"
  /\ fresh' = NoPair
  /\ UNCHANGED <<pkiVars, store, disk, current, calls, faults>>

Crash ==
  /\ Fault /\ at # "down"
  /\ at' = "down" /\ current' = NoPair /\ fresh' = NoPair
  /\ calls' = Abandoned
  /\ UNCHANGED <<pkiVars, store, disk>>

Next ==
  \/ PKINext /\ UNCHANGED <<store, disk, process, calls>>
  \/ IssueToken \/ TokenExpires \/ Serve \/ DropCall
  \/ DisableRunner \/ RevokeRunnerCertificate
  \/ SixHoursLeft \/ Expire \/ GraceEnds
  \/ ClientStep \/ CallFails \/ DiskFails \/ AnswerExpired \/ Crash

Spec == Init /\ [][Next]_vars

\* The Runner is restarted and retries, the server answers.  Time and the
\* administrator are not hurried.
FairSpec == Spec /\ WF_vars(ClientStep \/ AnswerExpired) /\ WF_vars(Serve)

-----------------------------------------------------------------------------
(* Properties.                                                             *)

Holds(p, c) ==
  \/ p.cert = c
  \/ p.cert # 0 /\ p.cert = certs[c].replaces /\ p.pending = certs[c].key

\* Once the Runner is enrolled, the newest certificate the server has issued
\* to it can be brought into use from its disk alone, whatever call was lost
\* and wherever the process died: its pair is in one of the directories, or
\* the key of its request is pending beside the pair that asks for it
\* (RotateCredentials, replaceCredentials).  LoadOrEnroll looks into the state
\* directory only.
RecoverableFromDisk ==
  (certs # <<>> /\ ~tokenFile) =>
    \E p \in {dir, staging, backup} : Holds(p, Len(certs))

\* At most two certificates of a Runner are accepted at a time, and of two the
\* newer one replaced the older one: lost answers and repeated rotations leave
\* no third identity behind (RotateRunnerCertificate, AuthenticateRunner).
AcceptedLineage ==
  \A c, d \in Serials : c < d /\ Accepted(c) /\ Accepted(d) => certs[d].replaces = c

Renewed == at = "running" /\ certs[current.cert].age = "fresh"

\* Between rotations, with a certificate on disk that the server does not accept.
Refused == at \in {"running", "down"} /\ dir # Absent /\ ~Accepted(dir.cert)

\* The two ways in which the code itself leaves the Runner without a way to
\* renew: the state directory is gone, since the process died between the two
\* renames or could not undo the first; or the new directory is in place but
\* the old one could not be removed, and the old pair in memory goes on asking
\* for a replacement that exists.  Neither holds while a rotation proceeds.
Stranded ==
  \/ dir = Absent /\ at # "moved"
  \/ at = "running" /\ dir # Absent /\ current.cert # dir.cert

\* A Runner whose certificate is due for rotation gets a new one in use, in
\* spite of lost answers, failed writes and crashes, unless its certificate is
\* no longer accepted meanwhile or it ends up stranded (Run, RotateCredentials).
RotationFinishes ==
  (at = "running" /\ certs[current.cert].age = "due" /\ Accepted(current.cert))
    ~> (Renewed \/ Refused \/ Stranded)
=============================================================================
