-------------------------- MODULE MCRunnerIdentity --------------------------
EXTENDS RunnerIdentity
=============================================================================
