-------------------------- MODULE JobStateMachine --------------------------
(* The status values of a job and the moves between them that               *)
(* assert_transition accepts.                                               *)

\* "absent" stands for a row that has not been inserted yet.
JobStatus ==
    {"absent", "pending", "claimed", "running", "paused", "success",
     "partial_success", "failed", "cancelled"}

ActiveStatus == {"claimed", "running"}

\* What the executors of the local agent report as the outcome of a job.  The
\* request has room for any JobStatus that assert_transition lets through; no
\* program of the repository sends another.
ResultStatus == {"success", "partial_success"}

\* ALLOWED_TRANSITIONS of the state machine.
AllowedTransitions ==
    {<<"pending", "claimed">>, <<"pending", "paused">>,
     <<"pending", "cancelled">>,
     <<"claimed", "running">>, <<"claimed", "pending">>,
     <<"claimed", "failed">>, <<"claimed", "paused">>,
     <<"running", "success">>, <<"running", "partial_success">>,
     <<"running", "failed">>, <<"running", "paused">>,
     <<"running", "cancelled">>,
     <<"paused", "pending">>, <<"paused", "cancelled">>,
     <<"failed", "pending">>, <<"partial_success", "pending">>}
=============================================================================
