---------------------------- MODULE MCSubmission ----------------------------
EXTENDS Submission, TLC
=============================================================================
