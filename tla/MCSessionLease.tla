--------------------------- MODULE MCSessionLease ---------------------------
EXTENDS SessionLease

\* Nothing to define.  Processes and runs are interchangeable, but a symmetry set
\* would not be sound for AbandonedLeaseLapses.
=============================================================================
