------------------------------ MODULE RunnerPKI ------------------------------
(***************************************************************************)
(* The certificates of the Runner gRPC server: `yuancictl runner-pki init` *)
(* writes them, file by file, into a new directory, and the server reads   *)
(* some of them when it starts.                                            *)
(*                                                                         *)
(* A file is the number of the ceremony that wrote it, 0 when it is not    *)
(* there.  Names, lifetimes and encodings are left out; two files of the   *)
(* same ceremony fit together and two of different ones do not.            *)
(***************************************************************************)
EXTENDS Integers

CONSTANTS
  MaxCeremonies,  \* bound: times the command is given
  MaxFaults       \* bound: what only a failure brings about

ASSUME PKIAssumption == MaxCeremonies \in Nat \ {0} /\ MaxFaults \in Nat

VARIABLES
  made,      \* the output directory exists
  files,     \* what it holds, in the order in which InitializePKI writes
  ceremony,  \* history: the last ceremony begun
  writing,   \* the file to be written next, 0 when the command is not running
  pki,       \* what the server loaded: the ceremonies of its trust root, issuer and own chain
  faults     \* history: failures so far

pkiVars == <<made, files, ceremony, writing, pki>>

\* offline-root/{root-key,root-cert}, server/{root-cert,intermediate-key,
\* intermediate-cert,server-key,server-chain,manifest}
FileCount == 8
NoFiles == [f \in 1..FileCount |-> 0]
NotServing == [root |-> 0, issuer |-> 0, chain |-> 0]

PKIInit ==
  /\ made = FALSE /\ files = NoFiles /\ ceremony = 0 /\ writing = 0
  /\ pki = NotServing /\ faults = 0

Fault == faults < MaxFaults /\ faults' = faults + 1

\* The defect of a command that accepts a directory left by an earlier one.
MutantAnyTarget == TRUE

\* os.Mkdir refuses a target that exists.
NewTarget == ~made

InitializePKI ==
  /\ writing = 0 /\ NewTarget /\ ceremony < MaxCeremonies
  /\ made' = TRUE /\ ceremony' = ceremony + 1 /\ writing' = 1
  /\ UNCHANGED <<files, pki, faults>>

\* A temporary file, synced and renamed over the target.
WriteFile ==
  /\ writing \in 1..FileCount
  /\ files' = [files EXCEPT ![writing] = ceremony]
  /\ writing' = writing + 1
  /\ UNCHANGED <<made, ceremony, pki, faults>>

PKIWritten ==
  /\ writing = FileCount + 1 /\ writing' = 0
  /\ UNCHANGED <<made, files, ceremony, pki, faults>>

\* The deferred removal, after any error up to the last sync.
PKIFails ==
  /\ Fault /\ writing # 0 /\ writing' = 0
  /\ made' = FALSE /\ files' = NoFiles
  /\ UNCHANGED <<ceremony, pki>>

\* The command dies and its deferred removal with it.
PKIDies ==
  /\ Fault /\ writing # 0 /\ writing' = 0
  /\ UNCHANGED <<made, files, ceremony, pki>>

\* The operator removes what a dead command left.
ClearTarget ==
  /\ writing = 0 /\ made /\ files[FileCount] = 0 /\ pki = NotServing
  /\ made' = FALSE /\ files' = NoFiles
  /\ UNCHANGED <<ceremony, writing, pki, faults>>

\* X509KeyPair and publicKeysEqual compare a certificate with its key; the
\* issuer is not compared with the trust root.  The server may be started at any
\* moment, also while a command writes.  Its five reads are one step: that a
\* command fails and is given again between two of them is left out.
LoadPKI ==
  /\ pki = NotServing
  /\ \A f \in 3..7 : files[f] # 0
  /\ files[6] = files[7] /\ files[4] = files[5]
  /\ pki' = [root |-> files[3], issuer |-> files[5], chain |-> files[7]]
  /\ UNCHANGED <<made, files, ceremony, writing, faults>>

PKINext ==
  \/ InitializePKI \/ WriteFile \/ PKIWritten \/ PKIFails \/ PKIDies
  \/ ClearTarget \/ LoadPKI

Serving == pki # NotServing

\* Whatever fails or dies while the directory is written, and whenever the
\* server is started on it, the server's trust root, issuer and own chain are
\* of one ceremony (InitializePKI, LoadPKI): the Runners it enrols verify.
PKIOneCeremony == pki.root = pki.issuer /\ pki.issuer = pki.chain
=============================================================================
