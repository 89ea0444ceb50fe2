------------------------------- MODULE MCCron -------------------------------
EXTENDS Cron, TLC
=============================================================================
