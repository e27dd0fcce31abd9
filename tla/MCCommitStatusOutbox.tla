------------------------ MODULE MCCommitStatusOutbox ------------------------
(* Instances of CommitStatusOutbox for TLC.                                *)
EXTENDS CommitStatusOutbox

CONSTANTS r1, w1, w2

OneRun == {r1}
OneWorker == {w1}
NoRows == {}
TwoWorkers == {w1, w2}
=============================================================================
