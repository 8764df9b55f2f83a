-------------------------- MODULE JobStateMachine --------------------------
(***************************************************************************)
(* One job driven through event_job_update() (JobState) by any event its   *)
(* callers may post, in any order; a rejected event leaves the job as it   *)
(* is.  This checks the state machine alone, without the actions that      *)
(* event_job_action() takes, which JobManager adds.                        *)
(***************************************************************************)
EXTENDS JobState

(* One job receiving any event.  start_pending is set by the exec         *)
(* collaborator when it sends the start request in RUN and cleared by the *)
(* final release, so the environment may toggle it (set only in RUN).      *)
(* entered_by and last are history: the event that moved the job into      *)
(* CLEANUP, and the last accepted event with the state it found.           *)

VARIABLES job, entered_by, last

svars == <<job, entered_by, last>>

Init ==
  /\ job = NewJob
  /\ entered_by = "none"
  /\ last = [ev |-> E("memo"), from |-> "NEW"]

Receive(ev) ==
  LET r == Update(job, ev)
  IN /\ r.ok
     /\ job' = r.job
     /\ entered_by' = IF r.job.state = "CLEANUP" /\ job.state # "CLEANUP"
                      THEN ev.name ELSE entered_by
     /\ last' = [ev |-> ev, from |-> job.state]

ToggleStartPending ==
  /\ job.start_pending \/ job.state = "RUN"
  /\ job' = [job EXCEPT !.start_pending = ~@]
  /\ UNCHANGED <<entered_by, last>>

Next ==
  \/ \E ev \in Events : Receive(ev)
  \/ ToggleStartPending

Spec == Init /\ [][Next]_svars

-----------------------------------------------------------------------------
TypeOK ==
  /\ job \in Job
  /\ entered_by \in {"none", "exception", "finish"}
  /\ last \in [ev : Events, from : JobStates]

(* Monotonic state (spec 8.1): whatever events arrive, event_job_update()  *)
(* only moves a job along an edge of the RFC 21 diagram; INACTIVE is final.*)
StateFollowsDag ==
  [][job'.state = job.state \/ <<job.state, job'.state>> \in Edges]_job

(* End-event latch (spec 8.7): the job's end_event is the event that moved *)
(* it into CLEANUP, a later fatal exception or finish never replaces it,   *)
(* and no job outside CLEANUP and INACTIVE has one.                        *)
EndEventIsCleanupCause ==
  /\ job.end_event = entered_by
  /\ (job.end_event # "none") <=> job.state \in {"CLEANUP", "INACTIVE"}

(* The transition table (spec 4.3) rejects a release with final = true in *)
(* RUN: the job's resources cannot be released while it still runs.        *)
NoFinalReleaseInRun ==
  ~(last.ev.name = "release" /\ last.ev.final /\ last.from = "RUN")
=============================================================================
