------------------------ MODULE RunnerIdentityProofs ------------------------
(***************************************************************************)
(* For any number of certificates, ceremonies and failures: the server's   *)
(* certificates are of one ceremony, no third certificate of a Runner is   *)
(* ever accepted, and its newest one can be brought into use from the      *)
(* Runner's disk.                                                          *)
(***************************************************************************)
EXTENDS RunnerIdentity, TLAPS

\* The last certificate issued, and what a row of runner_certificates holds.
Newest == Len(certs)
Keys == 1..KeyLimit

\* Certificates, the pairs on the Runner's disk, its requests and their
\* answers.
Rows == [key : Keys, replaces : Nat, state : {"active", "retiring", "lapsed", "revoked"},
         age : {"fresh", "due", "expired"}]
CallsOf == [cert : Nat, key : Keys, known : BOOLEAN, waiting : BOOLEAN]
Folders == [key : Nat, cert : Nat, pending : Keys \cup {0}]
Pairs == [key : Nat, cert : Nat]
Places == {"down", "enrolling", "enrolled", "persisted", "running", "rotating",
           "issued", "staged", "moved", "activated"}

\* The types of the store, the disk and the process.
IdentityTypeOK ==
  /\ token \in [left : Int, live : BOOLEAN] /\ status \in {"none", "offline", "disabled"}
  /\ certs \in Seq(Rows)
  /\ dir \in Folders /\ staging \in Folders /\ backup \in Folders /\ tokenFile \in BOOLEAN
  /\ at \in Places /\ current \in Pairs /\ fresh \in Pairs
  /\ calls \subseteq CallsOf

\* What the directory of a ceremony holds is of that ceremony.
CeremonyInv ==
  /\ files \in [1..FileCount -> {0, ceremony}]
  /\ ceremony \in Nat /\ writing \in 0..(FileCount + 1)
  /\ ~made => files = NoFiles
  /\ writing # 0 => made
  /\ PKIOneCeremony

\* The certificates are a chain: each replaced the one before it, which was
\* due by then; a certificate ages only after the grace of its predecessor.
ChainInv ==
  /\ status = "none" <=> certs = <<>>
  /\ \A c \in Serials :
       /\ certs[c].replaces = c - 1
       /\ c < Newest => certs[c].state # "active" /\ certs[c].age # "fresh"
       /\ certs[c].age # "fresh" => \A d \in Serials : d < c => certs[d].state # "retiring"

\* A call under way is of a certificate that exists and is due.
CallInv ==
  \A x \in calls : x.cert # 0 => x.cert \in Serials /\ certs[x.cert].age # "fresh"

\* The Runner waits for at most one call, the one of the operation it is in.
WaitInv ==
  /\ \A x, y \in calls : x.waiting /\ y.waiting => x = y
  /\ \A x \in calls : x.waiting =>
       \/ at = "enrolling" /\ x.cert = 0
       \/ at = "rotating" /\ x.cert = current.cert /\ x.cert # 0 /\ x.key = dir.pending

\* The directory the Runner's identity is in: the state directory, or the one
\* moved aside while there is none.
Home == IF dir # Absent THEN dir ELSE backup

\* The identity is of the newest certificate, its pending request one nobody
\* has answered, or of the one before with the newest's request pending.  A
\* call that could still be granted carries the pending request.
HomeInv ==
  IF Home = Absent
  THEN /\ at \in {"down", "enrolling", "enrolled"}
       /\ \A x \in calls : x.cert = 0
       /\ certs # <<>> => tokenFile
  ELSE /\ Home.cert \in Serials
       /\ \/ Home.cert = Newest /\ \A c \in Serials : certs[c].key # Home.pending
          \/ Home.cert = Newest - 1 /\ Home.pending = certs[Newest].key
       /\ \A x \in calls : x.cert <= Home.cert
       /\ \A x \in calls : x.cert = Newest => x.key = Home.pending

\* What the process holds in memory, by the place it is at.
PlaceInv ==
  /\ at = "enrolled" => Home = Absent /\ Newest = 1 /\ fresh.cert = 1
  /\ at = "persisted" => dir # Absent /\ current.cert = dir.cert
  /\ at \in {"running", "rotating", "issued", "staged", "moved"} => current.cert \in Serials
  /\ at \in {"running", "rotating"} /\ dir # Absent /\ current.cert # dir.cert =>
       /\ current.cert < dir.cert /\ dir.cert = Newest
       /\ \A x \in calls : x.cert # Newest
  /\ at \in {"rotating", "issued", "staged"} => dir # Absent
  /\ at = "moved" => dir = Absent
  /\ at \in {"issued", "staged", "moved"} =>
       current.cert = Home.cert /\ Home.cert = Newest - 1 /\ fresh.cert = Newest
  /\ at \in {"staged", "moved"} => staging = Directory(fresh)
  /\ at = "activated" =>
       /\ dir = Directory(fresh) /\ fresh.cert = Newest
       /\ current.cert \in Serials /\ current.cert < dir.cert
       /\ \A x \in calls : x.cert # Newest

\* A token that may still be used for the first time is at hand.
TokenInv == status = "none" /\ token.left > 0 => tokenFile

\* The invariant of every step of the server, the Runner and the clock.
IdentityInv ==
  IdentityTypeOK /\ TokenInv /\ ChainInv /\ CallInv /\ WaitInv /\ HomeInv /\ PlaceInv
-----------------------------------------------------------------------------
(* The certificates of the server.                                         *)

\* Every step of the ceremony, and every other step, keeps CeremonyInv.
LEMMA CeremonyStep ==
  ASSUME CeremonyInv, [Next]_vars PROVE CeremonyInv'
<1> USE DEF FileCount, NoFiles, NotServing, CeremonyInv, PKIOneCeremony
<1>1. CASE InitializePKI
  BY <1>1 DEF InitializePKI, NewTarget
<1>2. CASE WriteFile
  BY <1>2 DEF WriteFile
<1>3. CASE PKIWritten
  BY <1>3 DEF PKIWritten
<1>4. CASE PKIFails
  BY <1>4 DEF PKIFails
<1>5. CASE PKIDies
  BY <1>5 DEF PKIDies
<1>6. CASE ClearTarget
  BY <1>6 DEF ClearTarget
<1>7. CASE LoadPKI
  BY <1>7 DEF LoadPKI
<1>8. CASE UNCHANGED pkiVars
  BY <1>8 DEF pkiVars
<1>9. ASSUME Serve PROVE UNCHANGED pkiVars
  BY <1>9 DEF Serve, EnrollRunner, Authenticate, RotateRunnerCertificate
<1>10. ASSUME \/ IssueToken \/ TokenExpires \/ DropCall \/ DisableRunner \/ RevokeRunnerCertificate
              \/ SixHoursLeft \/ Expire \/ GraceEnds
       PROVE  UNCHANGED pkiVars
  BY <1>10 DEF IssueToken, TokenExpires, DropCall, DisableRunner, RevokeRunnerCertificate,
               SixHoursLeft, Expire, GraceEnds
<1>11. ASSUME ClientStep \/ CallFails \/ DiskFails \/ AnswerExpired \/ Crash
       PROVE  UNCHANGED pkiVars
  BY <1>11 DEF ClientStep, LoadCredentials, Enroll, PersistEnrolled, RemoveToken, RotationDue,
               Stage, MoveAside, Activate, RemoveBackup, CallFails, DiskFails, AnswerExpired, Crash
<1>12. CASE UNCHANGED vars
  BY <1>8, <1>12 DEF vars
<1> QED BY <1>1, <1>2, <1>3, <1>4, <1>5, <1>6, <1>7, <1>8, <1>9, <1>10, <1>11, <1>12 DEF Next, PKINext

\* The server never runs with certificates of two ceremonies, however often
\* the command was repeated, failed or died half way.
THEOREM OneCeremony == Spec => []PKIOneCeremony
<1>1. Init => CeremonyInv
  BY DEF Init, PKIInit, CeremonyInv, PKIOneCeremony, NoFiles, NotServing, FileCount
<1>2. CeremonyInv => PKIOneCeremony
  BY DEF CeremonyInv
<1> QED BY <1>1, <1>2, CeremonyStep, PTL DEF Spec
-----------------------------------------------------------------------------
(* Rows.                                                                   *)

\* A row with another state, or another age, is a row.
LEMMA RowState ==
  ASSUME NEW r \in Rows, NEW v \in {"active", "retiring", "lapsed", "revoked"},
         NEW t, t = [r EXCEPT !.state = v]
  PROVE  /\ t \in Rows /\ t.key = r.key /\ t.replaces = r.replaces /\ t.age = r.age
         /\ t.state = v
  BY DEF Rows

\* A row whose certificate ages is otherwise the same.
LEMMA RowAge ==
  ASSUME NEW r \in Rows, NEW v \in {"fresh", "due", "expired"},
         NEW t, t = [r EXCEPT !.age = v]
  PROVE  /\ t \in Rows /\ t.key = r.key /\ t.replaces = r.replaces /\ t.state = r.state
         /\ t.age = v
  BY DEF Rows

\* A change of one row leaves the others and their number alone.
LEMMA RowChange ==
  ASSUME NEW s \in Seq(Rows), NEW c \in 1..Len(s), NEW r \in Rows,
         NEW t, t = [s EXCEPT ![c] = r]
  PROVE  /\ t \in Seq(Rows) /\ Len(t) = Len(s)
         /\ \A d \in 1..Len(s) : t[d] = IF d = c THEN r ELSE s[d]
  OBVIOUS

\* A new row is the last.
LEMMA RowAppend ==
  ASSUME NEW s \in Seq(Rows), NEW r \in Rows, NEW t, t = Append(s, r)
  PROVE  /\ t \in Seq(Rows) /\ Len(t) = Len(s) + 1 /\ t[Len(s) + 1] = r
         /\ \A d \in 1..Len(s) : t[d] = s[d]
  OBVIOUS

\* The steps that change the state or the age of rows, and what they keep.
Ageing == \/ DisableRunner \/ RevokeRunnerCertificate \/ SixHoursLeft \/ Expire \/ GraceEnds

\* No row is added, and each keeps its key and the one it replaced.
SameRows ==
  /\ certs' \in Seq(Rows) /\ Len(certs') = Len(certs)
  /\ \A c \in Serials : /\ certs'[c].key = certs[c].key
                        /\ certs'[c].replaces = certs[c].replaces

\* Rows keep their key and their place, and move on in one direction: no row
\* becomes active, fresh or retiring again.
LEMMA AgeingRows ==
  ASSUME IdentityTypeOK, Ageing
  PROVE  /\ SameRows /\ UNCHANGED <<disk, process, calls>>
         /\ \A c \in Serials : /\ certs'[c].state # certs[c].state =>
                                    certs'[c].state \in {"revoked", "lapsed"}
                               /\ certs[c].age # "fresh" => certs'[c].age # "fresh"
                               /\ certs[c].age = "fresh" /\ certs'[c].age # "fresh" =>
                                    \A d \in Serials : d < c => certs[d].state # "retiring"
         /\ status' = status \/ (status = "offline" /\ status' = "disabled")
<1> USE DEF SameRows, Serials
<1>1. certs \in Seq(Rows) /\ \A c \in Serials : certs[c] \in Rows
  BY DEF IdentityTypeOK
<1>2. CASE DisableRunner
  <2>1. certs' = [c \in 1..Len(certs) |-> [certs[c] EXCEPT !.state = "revoked"]]
    BY <1>2 DEF DisableRunner
  <2>2. \A c \in 1..Len(certs) :
          /\ certs'[c] \in Rows /\ certs'[c].key = certs[c].key
          /\ certs'[c].replaces = certs[c].replaces /\ certs'[c].age = certs[c].age
          /\ certs'[c].state = "revoked"
    BY <1>1, <2>1, RowState
  <2>3. certs' \in Seq(Rows) /\ Len(certs') = Len(certs)
    BY <1>1, <2>1, <2>2
  <2>4. UNCHANGED <<disk, process, calls>> /\ status = "offline" /\ status' = "disabled"
    BY <1>2 DEF DisableRunner
  <2> QED BY <2>2, <2>3, <2>4
<1>3. CASE RevokeRunnerCertificate
  <2>1. PICK c \in Serials : certs' = [certs EXCEPT ![c] = [certs[c] EXCEPT !.state = "revoked"]]
    BY <1>3 DEF RevokeRunnerCertificate
  <2>2. PICK r \in Rows : r = [certs[c] EXCEPT !.state = "revoked"]
    BY <1>1, RowState
  <2>3. /\ certs' \in Seq(Rows) /\ Len(certs') = Len(certs)
        /\ \A d \in Serials : certs'[d] = IF d = c THEN r ELSE certs[d]
    BY <1>1, <2>1, <2>2, RowChange
  <2>4. UNCHANGED <<disk, process, calls>> /\ status' = status
    BY <1>3 DEF RevokeRunnerCertificate
  <2>5. /\ r.key = certs[c].key /\ r.replaces = certs[c].replaces
        /\ r.state = "revoked" /\ r.age = certs[c].age
    BY <1>1, <2>2, RowState
  <2> QED BY <2>3, <2>4, <2>5
<1>4. CASE SixHoursLeft
  <2>1. PICK c \in Serials :
          /\ certs' = [certs EXCEPT ![c] = [certs[c] EXCEPT !.age = "due"]]
          /\ \A d \in Serials : d < c => certs[d].state # "retiring"
    BY <1>4 DEF SixHoursLeft
  <2>2. PICK r \in Rows : r = [certs[c] EXCEPT !.age = "due"]
    BY <1>1, RowAge
  <2>3. /\ certs' \in Seq(Rows) /\ Len(certs') = Len(certs)
        /\ \A d \in Serials : certs'[d] = IF d = c THEN r ELSE certs[d]
    BY <1>1, <2>1, <2>2, RowChange
  <2>4. UNCHANGED <<disk, process, calls>> /\ status' = status
    BY <1>4 DEF SixHoursLeft
  <2>5. /\ r.key = certs[c].key /\ r.replaces = certs[c].replaces
        /\ r.age = "due" /\ r.state = certs[c].state
    BY <1>1, <2>2, RowAge
  <2> QED BY <2>1, <2>3, <2>4, <2>5
<1>5. CASE Expire
  <2>1. PICK c \in Serials :
          certs[c].age = "due" /\ certs' = [certs EXCEPT ![c] = [certs[c] EXCEPT !.age = "expired"]]
    BY <1>5 DEF Expire
  <2>2. PICK r \in Rows : r = [certs[c] EXCEPT !.age = "expired"]
    BY <1>1, RowAge
  <2>3. /\ certs' \in Seq(Rows) /\ Len(certs') = Len(certs)
        /\ \A d \in Serials : certs'[d] = IF d = c THEN r ELSE certs[d]
    BY <1>1, <2>1, <2>2, RowChange
  <2>4. UNCHANGED <<disk, process, calls>> /\ status' = status
    BY <1>5 DEF Expire
  <2>5. /\ r.key = certs[c].key /\ r.replaces = certs[c].replaces
        /\ r.age = "expired" /\ r.state = certs[c].state
    BY <1>1, <2>2, RowAge
  <2> QED BY <2>1, <2>3, <2>4, <2>5
<1>6. CASE GraceEnds
  <2>1. PICK c \in Serials : certs' = [certs EXCEPT ![c] = [certs[c] EXCEPT !.state = "lapsed"]]
    BY <1>6 DEF GraceEnds
  <2>2. PICK r \in Rows : r = [certs[c] EXCEPT !.state = "lapsed"]
    BY <1>1, RowState
  <2>3. /\ certs' \in Seq(Rows) /\ Len(certs') = Len(certs)
        /\ \A d \in Serials : certs'[d] = IF d = c THEN r ELSE certs[d]
    BY <1>1, <2>1, <2>2, RowChange
  <2>4. UNCHANGED <<disk, process, calls>> /\ status' = status
    BY <1>6 DEF GraceEnds
  <2>5. /\ r.key = certs[c].key /\ r.replaces = certs[c].replaces
        /\ r.state = "lapsed" /\ r.age = certs[c].age
    BY <1>1, <2>2, RowState
  <2> QED BY <2>3, <2>4, <2>5
<1> QED BY <1>2, <1>3, <1>4, <1>5, <1>6 DEF Ageing
-----------------------------------------------------------------------------
(* What a step keeps when it leaves the rest alone.                        *)

\* No call is new, whatever became of the ones there were.
OldCalls == \A y \in calls' : \E x \in calls : y.cert = x.cert /\ y.key = x.key

\* The parts of the invariant, under steps that leave what they are about
\* alone: the chain of certificates,
LEMMA KeepChain ==
  ASSUME ChainInv, UNCHANGED <<status, certs>> PROVE ChainInv'
  BY DEF ChainInv, Serials, Newest

\* the requests under way,
LEMMA KeepCalls ==
  ASSUME CallInv, OldCalls, UNCHANGED certs PROVE CallInv'
  BY DEF CallInv, OldCalls, Serials

\* the identity on disk,
LEMMA KeepHome ==
  ASSUME IdentityTypeOK, HomeInv, SameRows, OldCalls, UNCHANGED <<dir, backup>>,
         tokenFile => tokenFile', Home = Absent => at' \in {"down", "enrolling", "enrolled"}
  PROVE  HomeInv'
<1>1. Home' = Home
  BY DEF Home
<1>2. Newest' = Newest /\ Serials' = Serials /\ (certs' = <<>> <=> certs = <<>>)
  BY DEF SameRows, Newest, Serials, IdentityTypeOK
<1>3. CASE Home = Absent
  BY <1>1, <1>2, <1>3 DEF HomeInv, OldCalls
<1>4. CASE Home # Absent
  <2>1. /\ Home.cert \in Serials
        /\ \A x \in calls : x.cert <= Home.cert
        /\ \A x \in calls : x.cert = Newest => x.key = Home.pending
    BY <1>4 DEF HomeInv
  <2>2. /\ \A y \in calls' : y.cert <= Home.cert
        /\ \A y \in calls' : y.cert = Newest => y.key = Home.pending
    BY <2>1 DEF OldCalls
  <2>3. Newest \in Serials
    BY <2>1 DEF Newest, Serials, IdentityTypeOK
  <2>4. \A c \in Serials : certs'[c].key = certs[c].key
    BY DEF SameRows
  <2> QED BY <1>1, <1>2, <1>4, <2>1, <2>2, <2>3, <2>4 DEF HomeInv
<1> QED BY <1>3, <1>4

\* the files of a change under way,
LEMMA KeepPlace ==
  ASSUME IdentityTypeOK, PlaceInv, SameRows, OldCalls, UNCHANGED <<dir, staging, backup, process>>
  PROVE  PlaceInv'
<1>1. Home' = Home /\ Newest' = Newest /\ Serials' = Serials
  BY DEF Home, SameRows, Newest, Serials, IdentityTypeOK
<1>2. /\ at' = at /\ dir' = dir /\ staging' = staging /\ current' = current /\ fresh' = fresh
      /\ \A n \in Nat : (\A x \in calls : x.cert # n) => \A y \in calls' : y.cert # n
  BY DEF process, OldCalls
<1>3. Newest \in Nat
  BY DEF Newest, IdentityTypeOK
<1> QED BY <1>1, <1>2, <1>3 DEF PlaceInv, Directory

\* and what the Runner waits for.
LEMMA KeepWait ==
  ASSUME WaitInv, UNCHANGED <<dir, at, current>>, calls' \subseteq calls PROVE WaitInv'
  BY DEF WaitInv

\* The passing of time and the administrator's orders keep the invariant.
LEMMA AgeingStep ==
  ASSUME IdentityInv, Ageing, IdentityTypeOK' PROVE IdentityInv'
<1> USE DEF IdentityInv
<1>1. /\ SameRows /\ UNCHANGED <<disk, process, calls>>
      /\ \A c \in Serials : /\ certs'[c].state # certs[c].state =>
                                 certs'[c].state \in {"revoked", "lapsed"}
                            /\ certs[c].age # "fresh" => certs'[c].age # "fresh"
                            /\ certs[c].age = "fresh" /\ certs'[c].age # "fresh" =>
                                 \A d \in Serials : d < c => certs[d].state # "retiring"
      /\ status' = status \/ (status = "offline" /\ status' = "disabled")
  BY AgeingRows
<1>2. TokenInv'
  <2>1. token' = token
    BY DEF Ageing, DisableRunner, RevokeRunnerCertificate, SixHoursLeft, Expire, GraceEnds
  <2> QED BY <1>1, <2>1 DEF TokenInv, disk
<1>3. Newest' = Newest /\ Serials' = Serials /\ (certs' = <<>> <=> certs = <<>>) /\ OldCalls
  BY <1>1 DEF SameRows, Newest, Serials, IdentityTypeOK, OldCalls
<1>4. ChainInv'
  <2>1. status' = "none" <=> certs' = <<>>
    BY <1>1, <1>3 DEF ChainInv
  <2>2. ASSUME NEW c \in Serials
        PROVE  /\ certs'[c].replaces = c - 1
               /\ c < Newest => certs'[c].state # "active" /\ certs'[c].age # "fresh"
    BY <1>1 DEF ChainInv, SameRows
  <2>3. ASSUME NEW c \in Serials, certs'[c].age # "fresh", NEW d \in Serials, d < c
        PROVE  certs'[d].state # "retiring"
    BY <1>1, <2>3 DEF ChainInv
  <2> QED BY <1>3, <2>1, <2>2, <2>3 DEF ChainInv
<1>5. CallInv'
  BY <1>1, <1>3 DEF CallInv
<1>6. WaitInv'
  BY <1>1, KeepWait DEF disk, process
<1>7. HomeInv'
  <2>1. Home = Absent => at \in {"down", "enrolling", "enrolled"}
    BY DEF HomeInv
  <2> QED BY <1>1, <1>3, <2>1, KeepHome DEF disk, process
<1>8. PlaceInv'
  BY <1>1, <1>3, KeepPlace DEF disk
<1> QED BY <1>2, <1>4, <1>5, <1>6, <1>7, <1>8
-----------------------------------------------------------------------------
(* The calls and the server's answers.                                     *)

\* An answered call is gone, and nobody waits for another one.
LEMMA Answered ==
  ASSUME IdentityInv, NEW x \in calls, NEW place, NEW pair, Answer(x, place, pair),
         UNCHANGED <<dir, current>>
  PROVE  /\ OldCalls /\ calls' \subseteq calls /\ WaitInv'
         /\ x.waiting => at' = place /\ fresh' = pair
         /\ ~x.waiting => UNCHANGED <<at, fresh>>
<1>1. /\ calls' = calls \ {x}
      /\ x.waiting => at' = place /\ fresh' = pair
      /\ ~x.waiting => UNCHANGED <<at, fresh>>
  BY DEF Answer
<1>2. OldCalls
  BY <1>1 DEF OldCalls
<1>3. WaitInv'
  BY <1>1 DEF IdentityInv, WaitInv
<1> QED BY <1>1, <1>2, <1>3

\* A refused call changes nothing but the place the Runner goes on from.
LEMMA RefuseStep ==
  ASSUME IdentityInv, IdentityTypeOK', NEW x \in calls, NEW place,
         Answer(x, place, NoPair), UNCHANGED <<store, disk, current>>,
         IF x.cert = 0 THEN place = "down" ELSE place = "running"
  PROVE  IdentityInv'
<1> USE DEF IdentityInv
<1>1. /\ OldCalls /\ calls' \subseteq calls /\ WaitInv'
      /\ x.waiting => at' = place /\ fresh' = NoPair
      /\ ~x.waiting => UNCHANGED <<at, fresh>>
  BY Answered DEF disk
<1>2. SameRows /\ UNCHANGED <<token, status, certs, dir, staging, backup, tokenFile, current>>
  BY DEF SameRows, store, disk, IdentityTypeOK
<1>3. TokenInv' /\ ChainInv' /\ CallInv'
  BY <1>1, <1>2, KeepChain, KeepCalls DEF TokenInv
<1>4. CASE ~x.waiting
  <2>1. HomeInv'
    BY <1>1, <1>2, <1>4, KeepHome DEF HomeInv
  <2>2. PlaceInv'
    BY <1>1, <1>2, <1>4, KeepPlace DEF process
  <2> QED BY <1>1, <1>3, <2>1, <2>2
<1>5. CASE x.waiting
  <2>1. \/ at = "enrolling" /\ at' = "down"
        \/ at = "rotating" /\ at' = "running"
    BY <1>1, <1>5 DEF WaitInv
  <2>2. HomeInv'
    <3>1. Home = Absent => at' \in {"down", "enrolling", "enrolled"}
      BY <2>1 DEF HomeInv
    <3> QED BY <1>1, <1>2, <3>1, KeepHome
  <2>3. PlaceInv'
    <3>1. Newest' = Newest /\ Serials' = Serials /\ Newest \in Nat
      BY <1>2 DEF Newest, Serials, IdentityTypeOK
    <3>2. CASE at' = "down"
      BY <3>2 DEF PlaceInv
    <3>3. CASE at = "rotating" /\ at' = "running"
      BY <1>1, <1>2, <3>1, <3>3 DEF PlaceInv
    <3> QED BY <2>1, <3>2, <3>3
  <2> QED BY <1>1, <1>3, <2>2, <2>3
<1> QED BY <1>4, <1>5

\* The enrolment is granted once, before anything is on the disk.
LEMMA EnrollStep ==
  ASSUME IdentityInv, IdentityTypeOK', NEW x \in calls, EnrollRunner(x), certs' # certs
  PROVE  IdentityInv'
<1> USE DEF IdentityInv
<1>1. /\ token.left > 0 /\ status = "none" /\ status' = "offline"
      /\ certs' = Append(certs, Certificate(x.key, 0))
      /\ Answer(x, "enrolled", Pair(x.key, Len(certs) + 1))
      /\ UNCHANGED <<dir, staging, backup, tokenFile, current>>
  BY DEF EnrollRunner, disk, store
<1>2. /\ OldCalls /\ calls' \subseteq calls /\ WaitInv'
      /\ x.waiting => at' = "enrolled" /\ fresh' = Pair(x.key, Len(certs) + 1)
      /\ ~x.waiting => UNCHANGED <<at, fresh>>
  BY <1>1, Answered
<1>3. certs = <<>> /\ Len(certs) = 0 /\ Serials = {}
  BY <1>1 DEF ChainInv, Serials
<1>4. Len(certs') = 1 /\ certs'[1] = Certificate(x.key, 0) /\ certs' # <<>>
  BY <1>1, <1>3
<1>5. Home = Absent /\ Home' = Absent /\ \A y \in calls : y.cert = 0
  BY <1>1, <1>3 DEF HomeInv, Home
<1>6. at \in {"down", "enrolling"} /\ (x.waiting => at = "enrolling")
  BY <1>3, <1>5 DEF HomeInv, PlaceInv, WaitInv, Newest
<1>7. tokenFile' /\ TokenInv'
  BY <1>1 DEF TokenInv
<1>8. ChainInv'
  <2>1. Serials' = {1} /\ Newest' = 1
    BY <1>4 DEF Serials, Newest
  <2>2. certs'[1].replaces = 0 /\ certs'[1].age = "fresh"
    BY <1>4 DEF Certificate
  <2> QED BY <1>1, <1>4, <2>1, <2>2 DEF ChainInv
<1>9. CallInv'
  BY <1>2, <1>5 DEF CallInv
<1>10. HomeInv'
  BY <1>2, <1>5, <1>6, <1>7 DEF HomeInv
<1>11. PlaceInv'
  BY <1>2, <1>3, <1>4, <1>5, <1>6 DEF PlaceInv, Newest, Pair
<1> QED BY <1>2, <1>7, <1>8, <1>9, <1>10, <1>11

\* A call that passed the interceptor is still the same call.
LEMMA KnownStep ==
  ASSUME IdentityInv, IdentityTypeOK', NEW x \in calls,
         calls' = (calls \ {x}) \cup {[x EXCEPT !.known = TRUE]},
         UNCHANGED <<store, disk, process>>
  PROVE  IdentityInv'
<1> USE DEF IdentityInv
<1>1. PICK z : z = [x EXCEPT !.known = TRUE]
  OBVIOUS
<1>2. z.cert = x.cert /\ z.key = x.key /\ z.waiting = x.waiting
  BY <1>1 DEF IdentityTypeOK, CallsOf
<1>3. calls' = (calls \ {x}) \cup {z}
  BY <1>1
<1>4. OldCalls
  BY <1>2, <1>3 DEF OldCalls
<1>5. SameRows /\ UNCHANGED <<token, status, certs, dir, staging, backup, tokenFile, at, current>>
  BY DEF SameRows, store, disk, process, IdentityTypeOK
<1>6. WaitInv'
  BY <1>2, <1>3, <1>5 DEF WaitInv
<1>7. TokenInv' /\ ChainInv' /\ CallInv' /\ HomeInv' /\ PlaceInv'
  BY <1>4, <1>5, KeepChain, KeepCalls, KeepHome, KeepPlace DEF TokenInv, HomeInv
<1> QED BY <1>6, <1>7

\* The same request again: the answer is the newest certificate, because a
\* request that is pending beside the newest was never answered.
LEMMA RepeatStep ==
  ASSUME IdentityInv, IdentityTypeOK', NEW x \in calls, x.cert # 0,
         NEW d \in Repeated(x), Answer(x, "issued", Pair(x.key, d)),
         UNCHANGED <<store, disk, current>>
  PROVE  IdentityInv'
<1> USE DEF IdentityInv
<1>1. /\ OldCalls /\ calls' \subseteq calls /\ WaitInv'
      /\ x.waiting => at' = "issued" /\ fresh' = Pair(x.key, d)
      /\ ~x.waiting => UNCHANGED <<at, fresh>>
  BY Answered DEF disk
<1>2. SameRows /\ UNCHANGED <<token, status, certs, dir, staging, backup, tokenFile, current>>
  BY DEF SameRows, store, disk, IdentityTypeOK
<1>3. TokenInv' /\ ChainInv' /\ CallInv'
  BY <1>1, <1>2, KeepChain, KeepCalls DEF TokenInv
<1>4. CASE ~x.waiting
  BY <1>1, <1>2, <1>3, <1>4, KeepHome, KeepPlace DEF HomeInv, process
<1>5. CASE x.waiting
  <2>1. at = "rotating" /\ x.cert = current.cert /\ x.key = dir.pending /\ dir # Absent
    BY <1>5 DEF WaitInv, PlaceInv
  <2>2. d \in Serials /\ certs[d].replaces = x.cert /\ certs[d].key = x.key /\ d - 1 = x.cert
    BY DEF Repeated, Replacement, ChainInv
  <2>3. Home = dir /\ dir.cert = Newest - 1
    BY <2>1, <2>2 DEF Home, HomeInv
  <2>4. Newest \in Nat /\ d \in Nat
    BY <2>2 DEF Newest, Serials, IdentityTypeOK
  <2>5. Newest \in Nat /\ d \in Nat /\ dir.cert # Newest
    BY <2>3, <2>4
  <2>6. current.cert = dir.cert /\ d = Newest
    BY <2>1, <2>2, <2>3, <2>5 DEF PlaceInv
  <2>7. HomeInv'
    BY <1>1, <1>2, <2>1, KeepHome DEF Home
  <2>8. /\ Home' = Home /\ Newest' = Newest /\ Serials' = Serials
        /\ at' = "issued" /\ fresh'.cert = Newest
    BY <1>1, <1>2, <1>5, <2>6 DEF Home, Newest, Serials, Pair
  <2>9. PlaceInv'
    BY <1>2, <2>1, <2>3, <2>6, <2>8 DEF PlaceInv
  <2> QED BY <1>1, <1>3, <2>7, <2>9
<1> QED BY <1>4, <1>5

\* The row a granted rotation adds, and the one it retires.
LEMMA ReplacedRows ==
  ASSUME IdentityTypeOK, NEW x \in calls, x.cert \in Serials,
         certs' = Append([certs EXCEPT ![x.cert].state = "retiring"],
                         Certificate(x.key, x.cert))
  PROVE  /\ Len(certs') = Len(certs) + 1 /\ certs' \in Seq(Rows)
         /\ certs'[Len(certs) + 1] = Certificate(x.key, x.cert)
         /\ \A c \in Serials : /\ certs'[c].key = certs[c].key
                               /\ certs'[c].replaces = certs[c].replaces
                               /\ certs'[c].age = certs[c].age
                               /\ c # x.cert => certs'[c].state = certs[c].state
                               /\ c = x.cert => certs'[c].state = "retiring"
<1>1. certs \in Seq(Rows) /\ certs[x.cert] \in Rows /\ x.cert \in 1..Len(certs)
  BY DEF IdentityTypeOK, Serials
<1>2. PICK r \in Rows : r = [certs[x.cert] EXCEPT !.state = "retiring"]
  BY <1>1, RowState
<1>3. r.key = certs[x.cert].key /\ r.replaces = certs[x.cert].replaces
      /\ r.age = certs[x.cert].age /\ r.state = "retiring"
  BY <1>1, <1>2, RowState
<1>4. PICK t : t = [certs EXCEPT ![x.cert] = r]
  OBVIOUS
<1>5. /\ t \in Seq(Rows) /\ Len(t) = Len(certs)
      /\ \A c \in 1..Len(certs) : t[c] = IF c = x.cert THEN r ELSE certs[c]
  BY <1>1, <1>4, RowChange
<1>6. Certificate(x.key, x.cert) \in Rows
  BY DEF Certificate, Rows, IdentityTypeOK, CallsOf
<1>7. PICK q \in Rows : q = Certificate(x.key, x.cert) /\ certs' = Append(t, q)
  BY <1>2, <1>4, <1>6
<1>8. /\ certs' \in Seq(Rows) /\ Len(certs') = Len(t) + 1
      /\ certs'[Len(t) + 1] = q
      /\ \A c \in 1..Len(t) : certs'[c] = t[c]
  BY ONLY <1>5, <1>7, RowAppend
<1> QED BY <1>3, <1>5, <1>7, <1>8 DEF Serials

\* A rotation is granted for the newest certificate and for the request that
\* is pending beside it.
LEMMA ReplaceStep ==
  ASSUME IdentityInv, IdentityTypeOK', NEW x \in calls, x.cert # 0, Replaceable(x),
         certs' = Append([certs EXCEPT ![x.cert].state = "retiring"],
                         Certificate(x.key, x.cert)),
         Answer(x, "issued", Pair(x.key, Len(certs) + 1)),
         UNCHANGED <<token, status, disk, current>>
  PROVE  IdentityInv'
<1> USE DEF IdentityInv
<1>1. /\ OldCalls /\ calls' \subseteq calls /\ WaitInv'
      /\ x.waiting => at' = "issued" /\ fresh' = Pair(x.key, Len(certs) + 1)
      /\ ~x.waiting => UNCHANGED <<at, fresh>>
  BY Answered DEF disk
<1>2. UNCHANGED <<dir, staging, backup, tokenFile, token, status, current>> /\ Home' = Home
  BY DEF disk, Home
<1>3. x.cert \in Serials /\ certs[x.cert].state = "active" /\ certs[x.cert].age # "fresh"
  BY DEF Replaceable, CallInv
<1>4. x.cert = Newest /\ Newest \in Nat \ {0} /\ Len(certs) = Newest
  BY <1>3 DEF ChainInv, Newest, Serials, IdentityTypeOK
<1>5. /\ Len(certs') = Newest + 1
      /\ certs'[Newest + 1] = Certificate(x.key, Newest)
      /\ \A c \in Serials : /\ certs'[c].key = certs[c].key
                            /\ certs'[c].replaces = certs[c].replaces
                            /\ certs'[c].age = certs[c].age
                            /\ c # x.cert => certs'[c].state = certs[c].state
                            /\ c = x.cert => certs'[c].state = "retiring"
  BY <1>3, <1>4, ReplacedRows
<1>6. Newest' = Newest + 1 /\ Serials' = Serials \cup {Newest + 1} /\ Serials = 1..Newest
  BY <1>4, <1>5 DEF Newest, Serials
<1>7. /\ certs'[Newest + 1].key = x.key /\ certs'[Newest + 1].replaces = Newest
      /\ certs'[Newest + 1].age = "fresh"
  BY <1>5 DEF Certificate
<1>8. Home # Absent /\ Home.cert = Newest /\ Home.pending = x.key
  <2>1. Home # Absent
    BY DEF HomeInv
  <2>2. x.cert <= Home.cert /\ x.key = Home.pending /\ Home.cert \in Serials
    BY <1>4, <2>1 DEF HomeInv
  <2> QED BY <1>4, <1>6, <2>1, <2>2
<1>9. TokenInv'
  BY <1>2 DEF TokenInv
<1>10. ChainInv'
  <2>1. status' # "none" /\ certs' # <<>>
    BY <1>2, <1>4, <1>5 DEF ChainInv
  <2>2. ASSUME NEW c \in Serials
        PROVE  /\ certs'[c].replaces = c - 1
               /\ certs'[c].state # "active" /\ certs'[c].age # "fresh"
    BY <1>3, <1>4, <1>5, <1>6, <2>2 DEF ChainInv
  <2>3. ASSUME NEW c \in Serials, certs'[c].age # "fresh", NEW d \in Serials, d < c
        PROVE  certs'[d].state # "retiring"
    BY <1>4, <1>5, <1>6, <2>3 DEF ChainInv
  <2>4. ASSUME NEW c \in Serials', NEW d \in Serials', certs'[c].age # "fresh", d < c
        PROVE  certs'[d].state # "retiring"
    BY <1>4, <1>6, <1>7, <2>3, <2>4
  <2> QED BY <1>4, <1>6, <1>7, <2>1, <2>2, <2>4 DEF ChainInv
<1>11. CallInv'
  BY <1>1, <1>5, <1>6, ZenonT(60) DEF CallInv
<1>12. HomeInv'
  <2>1. \A y \in calls' : y.cert <= Newest /\ y.cert \in Nat
    BY <1>1, <1>8 DEF HomeInv, IdentityTypeOK, CallsOf
  <2> QED BY <1>2, <1>4, <1>6, <1>7, <1>8, <2>1 DEF HomeInv
<1>13. PlaceInv'
  <2>1. CASE x.waiting
    <3>1. at = "rotating" /\ x.cert = current.cert /\ dir # Absent
      BY <2>1 DEF WaitInv, PlaceInv
    <3>2. at' = "issued" /\ fresh'.cert = Newest + 1
      BY <1>1, <1>4, <2>1 DEF Pair
    <3>3. current'.cert = Newest /\ dir' # Absent
      BY <1>2, <1>4, <3>1
    <3>4. Home'.cert = Newest
      BY <1>2, <1>8
    <3>5. Newest = Newest' - 1 /\ fresh'.cert = Newest'
      BY <1>4, <1>6, <3>2
    <3>6. Newest \in Serials'
      BY <1>4, <1>6
    <3> QED BY <3>2, <3>3, <3>4, <3>5, <3>6 DEF PlaceInv
  <2>2. CASE ~x.waiting
    <3>1. at' = at /\ fresh' = fresh
      BY <1>1, <2>2
    <3>2. at \notin {"enrolled", "issued", "staged", "moved", "activated"}
      BY <1>4, <1>8 DEF PlaceInv
    <3>3. at \in {"running", "rotating"} /\ dir # Absent => current.cert = dir.cert
      BY <1>4 DEF PlaceInv
    <3> QED BY <1>2, <1>6, <3>1, <3>2, <3>3 DEF PlaceInv
  <2> QED BY <2>1, <2>2
<1> QED BY <1>1, <1>9, <1>10, <1>11, <1>12, <1>13

\* What the server does with a call keeps the invariant.
LEMMA ServeStep ==
  ASSUME IdentityInv, IdentityTypeOK', Serve PROVE IdentityInv'
<1>1. PICK x \in calls : EnrollRunner(x) \/ Authenticate(x) \/ RotateRunnerCertificate(x)
  BY DEF Serve
<1>2. CASE EnrollRunner(x)
  <2>1. CASE certs' # certs
    BY <1>2, <2>1, EnrollStep
  <2>2. CASE certs' = certs
    <3>1. \A r : Append(certs, r) # certs
      BY DEF IdentityInv, IdentityTypeOK
    <3>2. Answer(x, "down", NoPair) /\ UNCHANGED <<store, disk, current>> /\ x.cert = 0
      BY <1>2, <2>2, <3>1 DEF EnrollRunner
    <3> QED BY <3>2, RefuseStep
  <2> QED BY <2>1, <2>2
<1>3. CASE Authenticate(x)
  <2>1. x.cert # 0 /\ UNCHANGED <<store, disk, current>>
    BY <1>3 DEF Authenticate
  <2>2. CASE Accepted(x.cert)
    BY <1>3, <2>1, <2>2, KnownStep DEF Authenticate, process
  <2>3. CASE ~Accepted(x.cert)
    BY <1>3, <2>1, <2>3, RefuseStep DEF Authenticate
  <2> QED BY <2>2, <2>3
<1>4. CASE RotateRunnerCertificate(x)
  <2>1. x.cert # 0 /\ UNCHANGED <<token, status, disk, current>>
    BY <1>4 DEF RotateRunnerCertificate
  <2>2. \/ \E d \in Repeated(x) : Answer(x, "issued", Pair(x.key, d)) /\ UNCHANGED certs
        \/ /\ Replaceable(x)
           /\ certs' = Append([certs EXCEPT ![x.cert].state = "retiring"],
                              Certificate(x.key, x.cert))
           /\ Answer(x, "issued", Pair(x.key, Len(certs) + 1))
        \/ Answer(x, "running", NoPair) /\ UNCHANGED certs
    BY <1>4 DEF RotateRunnerCertificate
  <2> QED BY <2>1, <2>2, RepeatStep, ReplaceStep, RefuseStep DEF store
<1> QED BY <1>1, <1>2, <1>3, <1>4
-----------------------------------------------------------------------------
(* The Runner.                                                             *)

\* Away from its two calls the Runner waits for none.
LEMMA NoWait ==
  ASSUME WaitInv, at \notin {"enrolling", "rotating"} PROVE \A x \in calls : ~x.waiting
  BY DEF WaitInv

\* A Runner that has its identity in its state directory and no certificate
\* in memory.
LEMMA LoadStep ==
  ASSUME IdentityInv, IdentityTypeOK', LoadCredentials PROVE IdentityInv'
<1> USE DEF IdentityInv
<1>1. /\ at = "down" /\ dir # Absent /\ at' = "running" /\ current' = Pair(dir.key, dir.cert)
      /\ UNCHANGED <<token, status, certs, dir, staging, backup, tokenFile, fresh, calls>>
  BY DEF LoadCredentials, store, disk
<1>2. SameRows /\ OldCalls
  BY <1>1 DEF SameRows, OldCalls, IdentityTypeOK
<1>3. Home = dir /\ dir.cert \in Serials /\ Serials' = Serials
  BY <1>1 DEF Home, HomeInv, Serials
<1>4. TokenInv' /\ ChainInv' /\ CallInv' /\ WaitInv'
  BY <1>1, <1>2, KeepChain, KeepCalls, NoWait DEF TokenInv, WaitInv
<1>5. HomeInv'
  BY <1>1, <1>2, <1>3, KeepHome
<1>6. PlaceInv'
  BY <1>1, <1>3 DEF PlaceInv, Pair
<1> QED BY <1>4, <1>5, <1>6

\* No row is of the key 0, which stands for none.
LEMMA RowKey == ASSUME IdentityTypeOK PROVE \A c \in Serials : certs[c].key # 0
<1> SUFFICES ASSUME NEW c \in Serials PROVE certs[c].key # 0
  OBVIOUS
<1>1. certs[c] \in Rows
  BY DEF IdentityTypeOK, Serials
<1>2. certs[c].key \in Keys
  BY <1>1 DEF Rows
<1> QED BY <1>2, IdentityAssumption DEF Keys

\* A key is chosen among the free ones.
LEMMA FreshKeyFree == ASSUME FreeKeys # {} PROVE FreshKey \in FreeKeys
  BY DEF FreshKey

\* The request for an enrolment is of no certificate.
LEMMA AskStep ==
  ASSUME IdentityInv, IdentityTypeOK', Enroll PROVE IdentityInv'
<1> USE DEF IdentityInv
<1>1. /\ at = "down" /\ at' = "enrolling" /\ calls' = calls \cup {Call(0, FreshKey)}
      /\ UNCHANGED <<token, status, certs, dir, staging, backup, tokenFile, current, fresh>>
  BY DEF Enroll, store, disk
<1>2. PICK z : z = Call(0, FreshKey)
  OBVIOUS
<1>3. z.cert = 0 /\ calls' = calls \cup {z}
  BY <1>1, <1>2 DEF Call
<1>4. Home' = Home /\ Newest' = Newest /\ Serials' = Serials
  BY <1>1 DEF Home, Newest, Serials
<1>5. TokenInv' /\ ChainInv' /\ CallInv' /\ WaitInv'
  BY <1>1, <1>3, <1>4, KeepChain, NoWait DEF TokenInv, CallInv, WaitInv
<1>6. HomeInv'
  <2>1. CASE Home = Absent
    BY <1>1, <1>3, <1>4, <2>1 DEF HomeInv
  <2>2. CASE Home # Absent
    <3>1. Home.cert \in Serials /\ Newest # 0 /\ 0 <= Home.cert
      BY <2>2 DEF HomeInv, Serials, Newest, IdentityTypeOK
    <3> QED BY <1>1, <1>3, <1>4, <2>2, <3>1 DEF HomeInv
  <2> QED BY <2>1, <2>2
<1>7. PlaceInv'
  BY <1>1 DEF PlaceInv
<1> QED BY <1>5, <1>6, <1>7

\* The first pair is written.
LEMMA PersistStep ==
  ASSUME IdentityInv, IdentityTypeOK', PersistEnrolled PROVE IdentityInv'
<1> USE DEF IdentityInv
<1>1. /\ at = "enrolled" /\ at' = "persisted" /\ dir' = Directory(fresh) /\ current' = fresh
      /\ UNCHANGED <<token, status, certs, staging, backup, tokenFile, calls>>
  BY DEF PersistEnrolled, store
<1>2. Home = Absent /\ Newest = 1 /\ fresh.cert = 1 /\ \A x \in calls : x.cert = 0
  BY <1>1 DEF PlaceInv, HomeInv
<1>3. dir'.cert = 1 /\ dir'.pending = 0 /\ dir' # Absent /\ Home' = dir'
  BY <1>1, <1>2 DEF Directory, Absent, Home
<1>4. OldCalls
  BY <1>1 DEF OldCalls
<1>5. TokenInv' /\ ChainInv' /\ CallInv' /\ WaitInv'
  BY <1>1, <1>4, KeepChain, KeepCalls, NoWait DEF TokenInv, WaitInv
<1>6. HomeInv'
  <2>1. \A c \in Serials : certs[c].key # 0
    BY RowKey
  <2>2. Serials' = Serials /\ Newest' = 1 /\ 1 \in Serials
    BY <1>1, <1>2 DEF Serials, Newest
  <2> QED BY <1>1, <1>2, <1>3, <2>1, <2>2 DEF HomeInv
<1>7. PlaceInv'
  BY <1>1, <1>2, <1>3 DEF PlaceInv
<1> QED BY <1>5, <1>6, <1>7

\* The token goes when the identity is on the disk.
LEMMA RemoveTokenStep ==
  ASSUME IdentityInv, IdentityTypeOK', RemoveToken PROVE IdentityInv'
<1> USE DEF IdentityInv
<1>1. /\ at = "persisted" /\ at' = "running"
      /\ UNCHANGED <<token, status, certs, dir, staging, backup, current, fresh, calls>>
  BY DEF RemoveToken, store
<1>2. OldCalls
  BY <1>1 DEF OldCalls
<1>3. dir # Absent /\ Home = dir /\ current.cert = dir.cert /\ dir.cert \in Serials
  BY <1>1 DEF PlaceInv, Home, HomeInv
<1>4. status # "none"
  BY <1>3 DEF ChainInv, Serials
<1>5. Home' = Home /\ Newest' = Newest /\ Serials' = Serials
  BY <1>1 DEF Home, Newest, Serials
<1>6. TokenInv' /\ ChainInv' /\ CallInv' /\ WaitInv'
  BY <1>1, <1>2, <1>4, KeepChain, KeepCalls, NoWait DEF TokenInv, WaitInv
<1>7. HomeInv'
  BY <1>1, <1>3, <1>5 DEF HomeInv
<1>8. PlaceInv'
  BY <1>1, <1>3, <1>5 DEF PlaceInv
<1> QED BY <1>6, <1>7, <1>8

\* The request of a rotation is on the disk before it is sent; one that is
\* pending already is sent again.
LEMMA RotateStep ==
  ASSUME IdentityInv, IdentityTypeOK', RotationDue PROVE IdentityInv'
<1> USE DEF IdentityInv
<1>1. /\ at = "running" /\ at' = "rotating" /\ certs[current.cert].age # "fresh" /\ dir # Absent
      /\ dir' = Pending /\ calls' = calls \cup {Call(current.cert, Pending.pending)}
      /\ FreeKeys # {}
      /\ UNCHANGED <<token, status, certs, staging, backup, tokenFile, current, fresh>>
  BY DEF RotationDue, store
<1>2. Home = dir /\ dir.cert \in Serials /\ current.cert \in Serials
  BY <1>1 DEF Home, HomeInv, PlaceInv
<1>3. /\ dir'.cert = dir.cert /\ dir' # Absent /\ Home' = dir' /\ dir'.pending # 0
      /\ IF dir.pending # 0 THEN dir'.pending = dir.pending ELSE dir'.pending \in FreeKeys
  <2>1. dir'.cert = dir.cert
    BY <1>1 DEF Pending, IdentityTypeOK, Folders
  <2>2. IF dir.pending # 0 THEN dir'.pending = dir.pending ELSE dir'.pending \in FreeKeys
    BY <1>1, FreshKeyFree DEF Pending, IdentityTypeOK, Folders
  <2>3. dir.cert # 0
    BY <1>2 DEF Serials
  <2>4. dir' # Absent /\ Home' = dir'
    BY <2>1, <2>3 DEF Absent, Home
  <2>5. dir'.pending # 0
    BY <2>2 DEF FreeKeys
  <2> QED BY <2>1, <2>2, <2>4, <2>5
<1>4. PICK z : z = Call(current.cert, Pending.pending)
  OBVIOUS
<1>5. z.cert = current.cert /\ z.key = dir'.pending /\ calls' = calls \cup {z}
  BY <1>1, <1>4 DEF Call
<1>6. Newest' = Newest /\ Serials' = Serials /\ Newest \in Nat /\ Serials = 1..Newest
  BY <1>1 DEF Newest, Serials, IdentityTypeOK
<1>7. /\ \A x \in calls : x.cert <= dir.cert
      /\ \A x \in calls : x.cert = Newest => x.key = dir.pending /\ x.key # 0
      /\ \/ dir.cert = Newest /\ \A c \in Serials : certs[c].key # dir.pending
         \/ dir.cert = Newest - 1 /\ dir.pending = certs[Newest].key
  BY <1>1, <1>2 DEF HomeInv, IdentityTypeOK, CallsOf, Keys
<1>8. current.cert = dir.cert \/ (current.cert < dir.cert /\ dir.cert = Newest)
  BY <1>1 DEF PlaceInv
<1>9. TokenInv' /\ ChainInv'
  BY <1>1, KeepChain DEF TokenInv
<1>10. CallInv'
  BY <1>1, <1>2, <1>5, <1>6 DEF CallInv
<1>11. WaitInv'
  <2>1. \A x \in calls : ~x.waiting
    BY <1>1, NoWait
  <2>2. z.cert # 0
    BY <1>2, <1>5, <1>6
  <2> QED BY <1>1, <1>5, <2>1, <2>2 DEF WaitInv
<1>12. HomeInv'
  <2>1. \A x \in calls' : x.cert <= dir'.cert
    BY <1>2, <1>3, <1>5, <1>6, <1>7, <1>8
  <2>2. \A x \in calls' : x.cert = Newest => x.key = dir'.pending
    BY <1>3, <1>5, <1>7
  <2>3. dir.cert = Newest - 1 => dir.pending # 0
    BY <1>2, <1>6, <1>7, RowKey
  <2>4. \A c \in Serials : \A k \in FreeKeys : certs[c].key # k
    BY DEF FreeKeys, KeysHeld
  <2>5. \/ dir'.cert = Newest /\ \A c \in Serials : certs[c].key # dir'.pending
        \/ dir'.cert = Newest - 1 /\ dir'.pending = certs[Newest].key
    BY <1>3, <1>7, <2>3, <2>4
  <2> QED BY <1>1, <1>2, <1>3, <1>6, <2>1, <2>2, <2>5 DEF HomeInv
<1>13. PlaceInv'
  <2>1. CASE current.cert = dir.cert
    BY <1>1, <1>2, <1>3, <1>6, <2>1 DEF PlaceInv
  <2>2. CASE current.cert # dir.cert
    <3>1. /\ current.cert < dir.cert /\ dir.cert = Newest
          /\ \A x \in calls : x.cert # Newest
      BY <1>1, <2>2 DEF PlaceInv
    <3>2. z.cert # Newest
      BY <1>5, <2>2, <3>1
    <3> QED BY <1>1, <1>2, <1>3, <1>5, <1>6, <3>1, <3>2 DEF PlaceInv
  <2> QED BY <2>1, <2>2
<1> QED BY <1>9, <1>10, <1>11, <1>12, <1>13

\* The directories are exchanged: the identity is in the state directory, in
\* the one moved aside, and then in the new one.
LEMMA ReplaceCredentialsStep ==
  ASSUME IdentityInv, IdentityTypeOK', Stage \/ MoveAside \/ Activate \/ RemoveBackup
  PROVE  IdentityInv'
<1> USE DEF IdentityInv
<1>1. UNCHANGED <<token, status, certs, tokenFile, calls>>
  BY DEF Stage, MoveAside, Activate, RemoveBackup, store
<1>2. at \in {"issued", "staged", "moved", "activated"}
  BY DEF Stage, MoveAside, Activate, RemoveBackup
<1>3. OldCalls /\ SameRows /\ Newest' = Newest /\ Serials' = Serials
  BY <1>1 DEF OldCalls, SameRows, Newest, Serials, IdentityTypeOK
<1>4. TokenInv' /\ ChainInv' /\ CallInv' /\ WaitInv'
  BY <1>1, <1>2, <1>3, KeepChain, KeepCalls, NoWait DEF TokenInv, WaitInv
<1>5. Home # Absent /\ Home.cert \in Serials /\ Newest \in Nat /\ Serials = 1..Newest
  BY <1>2 DEF HomeInv, Newest, Serials, IdentityTypeOK
<1>6. CASE Stage
  <2>1. /\ at = "issued" /\ at' = "staged" /\ staging' = Directory(fresh)
        /\ UNCHANGED <<dir, backup, current, fresh>> /\ Home' = Home
    BY <1>6 DEF Stage, Home
  <2>2. HomeInv'
    BY <1>1, <1>3, <1>5, <2>1, KeepHome
  <2>3. PlaceInv'
    BY <1>3, <2>1 DEF PlaceInv, Directory
  <2> QED BY <1>4, <2>2, <2>3
<1>7. CASE MoveAside
  <2>1. /\ at = "staged" /\ at' = "moved" /\ backup' = dir /\ dir' = Absent
        /\ UNCHANGED <<staging, current, fresh>>
    BY <1>7 DEF MoveAside
  <2>2. dir # Absent /\ Home = dir /\ Home' = Home
    BY <2>1 DEF PlaceInv, Home
  <2>3. HomeInv'
    BY <1>1, <1>3, <1>5, <2>2 DEF HomeInv
  <2>4. PlaceInv'
    BY <1>3, <2>1, <2>2 DEF PlaceInv, Directory
  <2> QED BY <1>4, <2>3, <2>4
<1>8. CASE Activate
  <2>1. /\ at = "moved" /\ at' = "activated" /\ dir' = staging
        /\ UNCHANGED <<backup, current, fresh>>
    BY <1>8 DEF Activate
  <2>2. /\ staging = Directory(fresh) /\ fresh.cert = Newest
        /\ current.cert = Home.cert /\ Home.cert = Newest - 1
    BY <2>1 DEF PlaceInv
  <2>3. dir'.cert = Newest /\ dir'.pending = 0 /\ dir' = Directory(fresh)
    BY <2>1, <2>2 DEF Directory
  <2>4. dir' # Absent /\ Home' = dir'
    BY <1>5, <2>3 DEF Absent, Home
  <2>5. \A x \in calls : x.cert \in Nat /\ x.cert <= Newest - 1
    BY <1>5, <2>2 DEF HomeInv, IdentityTypeOK, CallsOf
  <2>6. HomeInv'
    BY <1>1, <1>3, <1>5, <2>3, <2>4, <2>5, RowKey DEF HomeInv
  <2>7. PlaceInv'
    BY <1>1, <1>3, <1>5, <2>1, <2>2, <2>3, <2>5 DEF PlaceInv, Directory
  <2> QED BY <1>4, <2>6, <2>7
<1>9. CASE RemoveBackup
  <2>1. /\ at = "activated" /\ at' = "running" /\ current' = fresh
        /\ UNCHANGED <<dir, staging>>
    BY <1>9 DEF RemoveBackup
  <2>2. dir = Directory(fresh) /\ fresh.cert = Newest /\ current.cert \in Serials
    BY <2>1 DEF PlaceInv
  <2>3. dir.cert = Newest /\ Newest # 0
    BY <1>5, <2>2 DEF Directory
  <2>4. dir # Absent /\ Home = dir /\ Home' = Home
    BY <2>1, <2>3 DEF Absent, Home
  <2>5. HomeInv'
    BY <1>1, <1>3, <1>5, <2>4 DEF HomeInv
  <2>6. PlaceInv'
    BY <1>3, <1>5, <2>1, <2>2, <2>3 DEF PlaceInv
  <2> QED BY <1>4, <2>5, <2>6
<1> QED BY <1>6, <1>7, <1>8, <1>9

\* Calls that nobody waits for any more are still calls.
LEMMA AbandonedCalls ==
  ASSUME IdentityTypeOK, calls' = Abandoned
  PROVE  OldCalls /\ \A y \in calls' : ~y.waiting
<1>1. \A x \in calls : LET y == [x EXCEPT !.waiting = FALSE]
                       IN  y.cert = x.cert /\ y.key = x.key /\ ~y.waiting
  BY DEF IdentityTypeOK, CallsOf
<1> QED BY <1>1 DEF Abandoned, OldCalls

\* Lost answers and deaths.
LEMMA FailStep ==
  ASSUME IdentityInv, IdentityTypeOK', CallFails \/ Crash PROVE IdentityInv'
<1> USE DEF IdentityInv
<1>1. /\ UNCHANGED <<token, status, certs, dir, staging, backup, tokenFile>>
      /\ calls' = Abandoned
  BY DEF CallFails, Crash, store, disk
<1>2. OldCalls /\ \A y \in calls' : ~y.waiting
  BY <1>1, AbandonedCalls
<1>3. SameRows /\ Newest' = Newest /\ Serials' = Serials /\ Newest \in Nat
  BY <1>1 DEF SameRows, Newest, Serials, IdentityTypeOK
<1>4. TokenInv' /\ ChainInv' /\ CallInv' /\ WaitInv'
  BY <1>1, <1>2, KeepChain, KeepCalls DEF TokenInv, WaitInv
<1>5. CASE at' = "down"
  BY <1>1, <1>2, <1>3, <1>4, <1>5, KeepHome DEF PlaceInv
<1>6. CASE at' # "down"
  <2>1. at = "rotating" /\ at' = "running" /\ UNCHANGED <<current, fresh>>
    BY <1>6 DEF CallFails, Crash
  <2>2. Home # Absent
    BY <2>1 DEF HomeInv
  <2>3. HomeInv'
    BY <1>1, <1>2, <1>3, <2>2, KeepHome
  <2>4. (\A x \in calls : x.cert # Newest) => \A y \in calls' : y.cert # Newest
    BY <1>2 DEF OldCalls
  <2>5. PlaceInv'
    BY <1>1, <1>3, <2>1, <2>4 DEF PlaceInv
  <2> QED BY <1>4, <2>3, <2>5
<1> QED BY <1>5, <1>6

\* Failed writes: the Runner goes on with the identity it had, or ends.
LEMMA DiskFailsStep ==
  ASSUME IdentityInv, IdentityTypeOK', DiskFails PROVE IdentityInv'
<1> USE DEF IdentityInv
<1>1. UNCHANGED <<token, status, certs, tokenFile, calls>> /\ at \notin {"enrolling", "rotating"}
  BY DEF DiskFails, store
<1>2. OldCalls /\ SameRows /\ Newest' = Newest /\ Serials' = Serials
  BY <1>1 DEF OldCalls, SameRows, Newest, Serials, IdentityTypeOK
<1>3. TokenInv' /\ ChainInv' /\ CallInv' /\ WaitInv'
  BY <1>1, <1>2, KeepChain, KeepCalls, NoWait DEF TokenInv, WaitInv
<1>4. Newest \in Nat /\ Serials = 1..Newest
  BY DEF Newest, Serials, IdentityTypeOK
<1>5. CASE at \in {"enrolled", "persisted"}
  <2>1. at' = "down" /\ UNCHANGED <<dir, staging, backup>>
    BY <1>5 DEF DiskFails
  <2> QED BY <1>1, <1>2, <1>3, <2>1, KeepHome DEF PlaceInv
<1>6. CASE at \in {"issued", "staged"}
  <2>1. at' = "running" /\ UNCHANGED <<dir, backup, current>>
    BY <1>6 DEF DiskFails
  <2>2. Home # Absent /\ dir # Absent /\ Home = dir /\ current.cert = Home.cert
        /\ current.cert \in Serials
    BY <1>6 DEF HomeInv, PlaceInv, Home
  <2>3. HomeInv'
    BY <1>1, <1>2, <2>1, <2>2, KeepHome
  <2>4. PlaceInv'
    BY <1>2, <2>1, <2>2 DEF PlaceInv
  <2> QED BY <1>3, <2>3, <2>4
<1>7. CASE at = "moved"
  <2>1. /\ at' = "running" /\ current' = current
        /\ \/ dir' = backup /\ backup' = Absent
           \/ UNCHANGED <<dir, backup>>
    BY <1>7 DEF DiskFails
  <2>2. Home # Absent /\ dir = Absent /\ Home = backup /\ current.cert = Home.cert
        /\ current.cert \in Serials
    BY <1>7 DEF HomeInv, PlaceInv, Home
  <2>3. Home' = Home
    BY <2>1, <2>2 DEF Home
  <2>4. HomeInv'
    BY <1>1, <1>2, <2>2, <2>3 DEF HomeInv
  <2>5. PlaceInv'
    BY <1>2, <2>1, <2>2 DEF PlaceInv
  <2> QED BY <1>3, <2>4, <2>5
<1>8. CASE at = "activated"
  <2>1. at' = "running" /\ UNCHANGED <<dir, staging, backup, current>>
    BY <1>8 DEF DiskFails
  <2>2. /\ dir = Directory(fresh) /\ fresh.cert = Newest
        /\ current.cert \in Serials /\ current.cert < dir.cert
        /\ \A x \in calls : x.cert # Newest
    BY <1>8 DEF PlaceInv
  <2>3. Home # Absent /\ dir.cert = Newest
    BY <1>8, <2>2 DEF HomeInv, Directory
  <2>4. HomeInv'
    BY <1>1, <1>2, <2>1, <2>3, KeepHome
  <2>5. PlaceInv'
    BY <1>1, <1>2, <2>1, <2>2, <2>3 DEF PlaceInv
  <2> QED BY <1>3, <2>4, <2>5
<1> QED BY <1>5, <1>6, <1>7, <1>8 DEF DiskFails

\* An answer that came too late.
LEMMA ExpiredStep ==
  ASSUME IdentityInv, IdentityTypeOK', AnswerExpired PROVE IdentityInv'
<1> USE DEF IdentityInv
<1>1. /\ UNCHANGED <<token, status, certs, dir, staging, backup, tokenFile, current, calls>>
      /\ \/ at = "enrolled" /\ at' = "down"
         \/ at = "issued" /\ at' = "running"
  BY DEF AnswerExpired, store, disk
<1>2. OldCalls /\ SameRows /\ Newest' = Newest /\ Serials' = Serials
  BY <1>1 DEF OldCalls, SameRows, Newest, Serials, IdentityTypeOK
<1>3. TokenInv' /\ ChainInv' /\ CallInv' /\ WaitInv'
  BY <1>1, <1>2, KeepChain, KeepCalls, NoWait DEF TokenInv, WaitInv
<1>4. CASE at' = "down"
  BY <1>1, <1>2, <1>3, <1>4, KeepHome DEF PlaceInv
<1>5. CASE at = "issued" /\ at' = "running"
  <2>1. Home # Absent /\ dir # Absent /\ Home = dir /\ current.cert = Home.cert
        /\ current.cert \in Serials
    BY <1>5 DEF HomeInv, PlaceInv, Home
  <2>2. HomeInv'
    BY <1>1, <1>2, <2>1, KeepHome
  <2>3. PlaceInv'
    BY <1>1, <1>2, <1>5, <2>1 DEF PlaceInv
  <2> QED BY <1>3, <2>2, <2>3
<1> QED BY <1>1, <1>4, <1>5
-----------------------------------------------------------------------------
(* All steps.                                                              *)

\* Every call and pair is of the type the store, the disk and the process
\* have room for.
LEMMA AnswerType ==
  ASSUME IdentityTypeOK, NEW x \in calls, NEW place \in Places, NEW pair \in Pairs,
         Answer(x, place, pair)
  PROVE  calls' \subseteq CallsOf /\ at' \in Places /\ fresh' \in Pairs
  BY DEF Answer, IdentityTypeOK

\* Types after a step of the server,
LEMMA ServeType ==
  ASSUME IdentityInv, Serve PROVE IdentityTypeOK'
<1> USE DEF IdentityInv
<1>1. PICK x \in calls : EnrollRunner(x) \/ Authenticate(x) \/ RotateRunnerCertificate(x)
  BY DEF Serve
<1>2. /\ NoPair \in Pairs /\ {"down", "running", "enrolled", "issued"} \subseteq Places
      /\ \A n \in Nat : Pair(x.key, n) \in Pairs
      /\ x \in CallsOf /\ x.key \in Keys /\ x.cert \in Nat
  BY IdentityAssumption DEF Pairs, NoPair, Pair, Places, IdentityTypeOK, CallsOf, Keys
<1>3. certs \in Seq(Rows) /\ Len(certs) \in Nat
  BY DEF IdentityTypeOK
<1>4. CASE EnrollRunner(x)
  <2>1. UNCHANGED <<dir, staging, backup, tokenFile, current>>
    BY <1>4 DEF EnrollRunner, disk
  <2>2. Certificate(x.key, 0) \in Rows
    BY <1>2 DEF Certificate, Rows
  <2>3. CASE certs' = Append(certs, Certificate(x.key, 0)) /\ status' = "offline"
             /\ token' = [token EXCEPT !.left = @ - 1]
             /\ Answer(x, "enrolled", Pair(x.key, Len(certs) + 1))
    <3>1. certs' \in Seq(Rows)
      BY <1>3, <2>2, <2>3, RowAppend
    <3>2. token' \in [left : Int, live : BOOLEAN]
      BY <2>3 DEF IdentityTypeOK
    <3>3. calls' \subseteq CallsOf /\ at' \in Places /\ fresh' \in Pairs
      BY <1>2, <1>3, <2>3, AnswerType
    <3> QED BY <2>1, <2>3, <3>1, <3>2, <3>3 DEF IdentityTypeOK
  <2>4. CASE Answer(x, "down", NoPair) /\ UNCHANGED store
    <3>1. calls' \subseteq CallsOf /\ at' \in Places /\ fresh' \in Pairs
      BY <1>2, <2>4, AnswerType
    <3> QED BY <2>1, <2>4, <3>1 DEF IdentityTypeOK, store
  <2> QED BY <1>4, <2>3, <2>4 DEF EnrollRunner
<1>5. CASE Authenticate(x)
  <2>1. UNCHANGED <<token, status, certs, dir, staging, backup, tokenFile, current>>
    BY <1>5 DEF Authenticate, store, disk
  <2>2. [x EXCEPT !.known = TRUE] \in CallsOf
    BY <1>2 DEF CallsOf
  <2>3. calls' \subseteq CallsOf /\ at' \in Places /\ fresh' \in Pairs
    BY <1>2, <1>5, <2>2, AnswerType DEF Authenticate, IdentityTypeOK
  <2> QED BY <2>1, <2>3 DEF IdentityTypeOK
<1>6. CASE RotateRunnerCertificate(x)
  <2>1. UNCHANGED <<token, status, dir, staging, backup, tokenFile, current>> /\ x.cert # 0
    BY <1>6 DEF RotateRunnerCertificate, disk
  <2>2. \/ \E d \in Repeated(x) : Answer(x, "issued", Pair(x.key, d)) /\ UNCHANGED certs
        \/ /\ certs' = Append([certs EXCEPT ![x.cert].state = "retiring"],
                              Certificate(x.key, x.cert))
           /\ Answer(x, "issued", Pair(x.key, Len(certs) + 1))
        \/ Answer(x, "running", NoPair) /\ UNCHANGED certs
    BY <1>6 DEF RotateRunnerCertificate
  <2>3. Repeated(x) \subseteq Nat
    BY <1>3 DEF Repeated, Replacement, Serials
  <2>4. calls' \subseteq CallsOf /\ at' \in Places /\ fresh' \in Pairs
    BY <1>2, <1>3, <2>2, <2>3, AnswerType
  <2>5. x.cert \in Serials
    BY <2>1 DEF CallInv
  <2>6. certs' \in Seq(Rows)
    BY <1>3, <2>2, <2>5, ReplacedRows
  <2> QED BY <2>1, <2>4, <2>6 DEF IdentityTypeOK
<1> QED BY <1>1, <1>4, <1>5, <1>6

\* of the Runner or of what goes wrong with it,
LEMMA ClientType ==
  ASSUME IdentityInv, ClientStep \/ CallFails \/ DiskFails \/ AnswerExpired \/ Crash
  PROVE  IdentityTypeOK'
<1> USE DEF IdentityInv
<1>1. UNCHANGED <<token, status, certs>> /\ tokenFile' \in BOOLEAN
  BY DEF ClientStep, LoadCredentials, Enroll, PersistEnrolled, RemoveToken, RotationDue,
         Stage, MoveAside, Activate, RemoveBackup, CallFails, DiskFails, AnswerExpired, Crash,
         store, disk, IdentityTypeOK
<1>2. at' \in Places
  BY DEF ClientStep, LoadCredentials, Enroll, PersistEnrolled, RemoveToken, RotationDue,
         Stage, MoveAside, Activate, RemoveBackup, CallFails, DiskFails, AnswerExpired, Crash, Places
<1>3. NoPair \in Pairs /\ Absent \in Folders /\ Directory(fresh) \in Folders
      /\ Pair(dir.key, dir.cert) \in Pairs
  BY DEF NoPair, Absent, Pair, Directory, Pairs, Folders, IdentityTypeOK
<1>4. current' \in Pairs /\ fresh' \in Pairs
  BY <1>3 DEF ClientStep, LoadCredentials, Enroll, PersistEnrolled, RemoveToken, RotationDue,
         Stage, MoveAside, Activate, RemoveBackup, CallFails, DiskFails, AnswerExpired, Crash,
         IdentityTypeOK
<1>5. ASSUME FreeKeys # {} PROVE FreshKey \in Keys
  BY <1>5, FreshKeyFree DEF FreeKeys, Keys
<1>6. ASSUME RotationDue PROVE Pending \in Folders /\ Pending.pending \in Keys
  <2>1. FreshKey \in Keys /\ FreshKey \in Nat
    BY <1>5, <1>6, IdentityAssumption DEF RotationDue, Keys
  <2>2. Pending \in Folders
    BY <2>1 DEF Pending, Folders, IdentityTypeOK
  <2>3. CASE dir.pending = 0
    BY <2>1, <2>3 DEF Pending, IdentityTypeOK, Folders
  <2>4. CASE dir.pending # 0
    BY <2>4 DEF Pending, IdentityTypeOK, Folders
  <2> QED BY <2>2, <2>3, <2>4
<1>7. dir' \in Folders /\ staging' \in Folders /\ backup' \in Folders
  BY <1>3, <1>6 DEF ClientStep, LoadCredentials, Enroll, PersistEnrolled, RemoveToken, RotationDue,
         Stage, MoveAside, Activate, RemoveBackup, CallFails, DiskFails, AnswerExpired, Crash,
         disk, IdentityTypeOK
<1>8. Abandoned \subseteq CallsOf
  BY DEF Abandoned, IdentityTypeOK, CallsOf
<1>9. ASSUME NEW n \in Nat, NEW k \in Keys PROVE Call(n, k) \in CallsOf
  BY DEF Call, CallsOf
<1>10. calls' \subseteq CallsOf
  <2>1. CASE Enroll
    BY <1>5, <1>9, <2>1 DEF Enroll, IdentityTypeOK
  <2>2. CASE RotationDue
    BY <1>6, <1>9, <2>2 DEF RotationDue, IdentityTypeOK, Pairs
  <2>3. CASE ~Enroll /\ ~RotationDue
    BY <1>8, <2>3 DEF ClientStep, LoadCredentials, PersistEnrolled, RemoveToken,
         Stage, MoveAside, Activate, RemoveBackup, CallFails, DiskFails, AnswerExpired, Crash,
         IdentityTypeOK
  <2> QED BY <2>1, <2>2, <2>3
<1> QED BY <1>1, <1>2, <1>4, <1>7, <1>10 DEF IdentityTypeOK

\* and after any step.
LEMMA IdentityTypeStep ==
  ASSUME IdentityInv, [Next]_vars PROVE IdentityTypeOK'
<1> USE DEF IdentityInv
<1>1. CASE UNCHANGED <<store, disk, process, calls>>
  BY <1>1 DEF IdentityTypeOK, store, disk, process
<1>2. CASE IssueToken
  BY <1>2 DEF IssueToken, IdentityTypeOK, process
<1>3. CASE TokenExpires
  BY <1>3 DEF TokenExpires, IdentityTypeOK, disk, process
<1>4. CASE DropCall
  BY <1>4 DEF DropCall, IdentityTypeOK, store, disk, process
<1>5. CASE Ageing
  <2>1. SameRows /\ UNCHANGED <<disk, process, calls>>
        /\ (status' = status \/ (status = "offline" /\ status' = "disabled"))
    BY <1>5, AgeingRows
  <2>2. token' = token
    BY <1>5 DEF Ageing, DisableRunner, RevokeRunnerCertificate, SixHoursLeft, Expire, GraceEnds
  <2> QED BY <2>1, <2>2 DEF IdentityTypeOK, SameRows, disk, process
<1>6. CASE Serve
  BY <1>6, ServeType
<1>7. CASE ClientStep \/ CallFails \/ DiskFails \/ AnswerExpired \/ Crash
  BY <1>7, ClientType
<1>8. CASE UNCHANGED vars
  BY <1>1, <1>8 DEF vars
<1> QED BY <1>1, <1>2, <1>3, <1>4, <1>5, <1>6, <1>7, <1>8 DEF Next, Ageing

\* A Runner that was never enrolled has a token and nothing else.
LEMMA IdentityInit == Init => IdentityInv
<1> SUFFICES ASSUME Init PROVE IdentityInv
  OBVIOUS
<1>1. Serials = {} /\ Newest = 0 /\ Home = Absent /\ certs = <<>>
  BY DEF Init, Serials, Newest, Home
<1>2. IdentityTypeOK
  <2>1. Absent \in Folders /\ NoPair \in Pairs
    BY DEF Absent, NoPair, Folders, Pairs
  <2>2. token \in [left : Int, live : BOOLEAN] /\ certs \in Seq(Rows)
    BY DEF Init
  <2> QED BY <2>1, <2>2 DEF Init, IdentityTypeOK, Places
<1> QED BY <1>1, <1>2 DEF Init, IdentityInv, TokenInv, ChainInv, CallInv, WaitInv, HomeInv, PlaceInv

\* Every step keeps the invariant.
LEMMA IdentityStep ==
  ASSUME IdentityInv, [Next]_vars PROVE IdentityInv'
<1>1. IdentityTypeOK'
  BY IdentityTypeStep
<1>2. CASE UNCHANGED <<status, certs, disk, process, calls>> /\ token' = token
  <2>1. SameRows /\ OldCalls
    BY <1>2 DEF SameRows, OldCalls, IdentityInv, IdentityTypeOK
  <2> QED BY <1>1, <1>2, <2>1, KeepChain, KeepCalls, KeepHome, KeepPlace, KeepWait
          DEF IdentityInv, TokenInv, disk, process, HomeInv
<1>3. CASE IssueToken \/ TokenExpires \/ DropCall
  <2>1. /\ UNCHANGED <<status, certs, dir, staging, backup, process>> /\ calls' \subseteq calls
        /\ tokenFile => tokenFile'
    BY <1>3 DEF IssueToken, TokenExpires, DropCall, store, disk
  <2>2. SameRows /\ OldCalls
    BY <2>1 DEF SameRows, OldCalls, IdentityInv, IdentityTypeOK
  <2>3. TokenInv'
    <3>1. CASE IssueToken
      BY <3>1 DEF IssueToken, TokenInv
    <3>2. CASE TokenExpires
      BY <3>2 DEF TokenExpires, TokenInv, IdentityInv, IdentityTypeOK, disk
    <3>3. CASE DropCall
      BY <3>3 DEF DropCall, TokenInv, IdentityInv, store, disk
    <3> QED BY <1>3, <3>1, <3>2, <3>3
  <2>4. HomeInv'
    BY <2>1, <2>2, KeepHome DEF IdentityInv, HomeInv, process
  <2> QED BY <1>1, <2>1, <2>2, <2>3, <2>4, KeepChain, KeepCalls, KeepPlace, KeepWait
          DEF IdentityInv, process
<1>4. CASE Ageing
  BY <1>1, <1>4, AgeingStep
<1>5. CASE Serve
  BY <1>1, <1>5, ServeStep
<1>6. CASE ClientStep
  BY <1>1, <1>6, LoadStep, AskStep, PersistStep, RemoveTokenStep, RotateStep,
     ReplaceCredentialsStep DEF ClientStep
<1>7. CASE CallFails \/ DiskFails \/ AnswerExpired \/ Crash
  BY <1>1, <1>7, FailStep, DiskFailsStep, ExpiredStep
<1>8. ASSUME UNCHANGED <<store, disk, process, calls>>
      PROVE  UNCHANGED <<status, certs, disk, process, calls>> /\ token' = token
  BY <1>8 DEF store
<1>9. CASE UNCHANGED vars
  BY <1>2, <1>8, <1>9 DEF vars
<1> QED BY <1>2, <1>3, <1>4, <1>5, <1>6, <1>7, <1>8, <1>9 DEF Next, Ageing
-----------------------------------------------------------------------------
(* Theorems.                                                               *)

\* The inductive invariant holds in every state.
THEOREM IdentityInvariance == Spec => []IdentityInv
  BY IdentityInit, IdentityStep, PTL DEF Spec

\* Whatever call was lost and wherever the Runner died, its newest certificate
\* can be brought into use from its disk alone (RotateCredentials,
\* replaceCredentials).
THEOREM RecoverableAlways == Spec => []RecoverableFromDisk
<1>1. IdentityInv => RecoverableFromDisk
  <2> SUFFICES ASSUME IdentityInv, certs # <<>>, ~tokenFile
               PROVE  \E p \in {dir, staging, backup} : Holds(p, Len(certs))
    BY DEF RecoverableFromDisk
  <2>1. Home # Absent /\ Home \in {dir, staging, backup}
    BY DEF IdentityInv, HomeInv, Home
  <2>2. /\ Home.cert \in Serials
        /\ \/ Home.cert = Newest
           \/ Home.cert = Newest - 1 /\ Home.pending = certs[Newest].key
    BY <2>1 DEF IdentityInv, HomeInv
  <2>3. Newest = Len(certs) /\ Newest \in Serials /\ Home.cert # 0
    BY <2>2 DEF Newest, Serials, IdentityInv, IdentityTypeOK
  <2>4. certs[Newest].replaces = Newest - 1
    BY <2>3 DEF IdentityInv, ChainInv
  <2>5. Holds(Home, Len(certs))
    BY <2>2, <2>3, <2>4 DEF Holds
  <2> QED BY <2>1, <2>5
<1> QED BY <1>1, IdentityInvariance, PTL

\* At most two certificates of a Runner are accepted, one of which replaced
\* the other (RotateRunnerCertificate, AuthenticateRunner).
THEOREM LineageHolds == Spec => []AcceptedLineage
<1>1. IdentityInv => AcceptedLineage
  <2> SUFFICES ASSUME IdentityInv, NEW c \in Serials, NEW d \in Serials, c < d,
                      Accepted(c), Accepted(d)
               PROVE  certs[d].replaces = c
    BY DEF AcceptedLineage
  <2>1. Serials = 1..Newest /\ Newest \in Nat
    BY DEF Serials, Newest, IdentityInv, IdentityTypeOK
  <2>2. certs[c].state = "retiring"
    BY <2>1 DEF IdentityInv, ChainInv, Accepted
  <2>3. CASE c + 1 < d
    <3>1. c + 1 \in Serials /\ certs[c + 1].age # "fresh"
      BY <2>1, <2>3 DEF IdentityInv, ChainInv
    <3> QED BY <2>1, <2>2, <3>1 DEF IdentityInv, ChainInv
  <2>4. CASE c + 1 = d
    BY <2>1, <2>4 DEF IdentityInv, ChainInv
  <2> QED BY <2>1, <2>3, <2>4
<1> QED BY <1>1, IdentityInvariance, PTL
=============================================================================
