---------------------------- MODULE MCEventStore ----------------------------
EXTENDS EventStore

\* Nothing to define: every constant is a small set or number of the cfg.  The
\* actors are not symmetric, for one of them writes without a run.
=============================================================================
