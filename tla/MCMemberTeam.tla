---------------------------- MODULE MCMemberTeam ----------------------------
EXTENDS MemberTeam

\* Nothing to define: the lead and its one member are told apart by their variables,
\* and the numbers of runs, turns, questions and messages are constants of the cfg.
=============================================================================
