------------------------------ MODULE JobStates ------------------------------
(***************************************************************************)
(* The statuses of a Job and the rule that says which transitions are       *)
(* legal (shared/core/state_machine/states.py).                             *)
(***************************************************************************)

\* JobStatus
Statuses == {"pending", "waiting-file", "running", "converting", "done", "failed"}

\* TERMINAL_STATES
TerminalStates == {"done", "failed"}

\* VALID_TRANSITIONS as a relation; "any transition to FAILED ... not listed".
ValidTransitions ==
    { <<"pending", "running">>,      <<"pending", "waiting-file">>,
      <<"waiting-file", "pending">>,
      <<"running", "converting">>,   <<"running", "done">>,
      <<"converting", "done">>,
      <<"failed", "pending">> }

\* is_valid_transition: a self transition always, to failed from every
\* non-terminal state, anything else when the table lists it.
IsValidTransition(from, to) ==
    \/ from = to
    \/ to = "failed" /\ from \notin TerminalStates
    \/ to # "failed" /\ <<from, to>> \in ValidTransitions

==============================================================================
