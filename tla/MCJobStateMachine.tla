-------------------------- MODULE MCJobStateMachine --------------------------
(* Instances of JobStateMachine for TLC: who calls, on which Job. *)
EXTENDS JobStateMachine, TLC

CONSTANTS s1, s2, s3, s4

\* The upload handoff: the storage event races the explicit confirmation, the
\* expiry of the upload and the first worker.
UploadSessions == {s1, s2, s3, s4}
UploadCalls == s1 :> "upload_event" @@ s2 :> "confirm" @@ s3 :> "expire" @@ s4 :> "start"

\* The processing end: two deliveries of one task finish, with a result bound to a
\* document and with one that is not, a third fails, against the sweeper.
RunSessions == {s1, s2, s3, s4}
RunCalls == s1 :> "complete" @@ s2 :> "complete_unbound" @@ s3 :> "fail" @@ s4 :> "sweep"

\* The shortest race that matters: a worker finishes while the sweeper holds its
\* scan.
SweepSessions == {s1, s2}
SweepCalls == s1 :> "complete" @@ s2 :> "sweep"
==============================================================================
