---------------------------- MODULE MCPromptLogs ----------------------------
(* Constants of the TLC run of PromptLogs. *)
EXTENDS PromptLogs, TLC

CONSTANT u1

\* Two calls of one user, in two years.
Callers == <<u1, u1>>
Dates   == <<1, 2>>
=============================================================================
