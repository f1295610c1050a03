--------------------------- MODULE MCRunnerDaemon ---------------------------
EXTENDS RunnerDaemon
=============================================================================
