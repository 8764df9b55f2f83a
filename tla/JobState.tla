------------------------------ MODULE JobState ------------------------------
(***************************************************************************)
(* The job record and the job state machine of event_job_update() in       *)
(* src/src/modules/job-manager/event.c (RFC 21).  Update(job, ev) is the   *)
(* pure transition function; JobStateMachine lets one job receive any     *)
(* event through it, and JobManager composes it with the post pipeline.    *)
(*                                                                         *)
(* Event contexts are abstracted to what the function decodes: the         *)
(* severity of an exception, "final" of a release, the description of a   *)
(* dependency.  Urgency, priority, userid, flags and annotations are data  *)
(* the state machine stores but never tests, and are left out.            *)
(***************************************************************************)
EXTENDS Naturals, FiniteSets

CONSTANTS
  Deps,        \* dependency descriptions
  PerilogMax   \* UINT8_MAX, the limit of job->perilog_active

ASSUME PerilogMax \in Nat \ {0}

JobStates == {"NEW", "DEPEND", "PRIORITY", "SCHED", "RUN", "CLEANUP", "INACTIVE"}

\* FLUX_JOB_STATE_RUNNING is the mask RUN | CLEANUP.
Running(s) == s \in {"RUN", "CLEANUP"}

\* Names with a meaning to the state machine; "start" stands for every
\* other name (committed and cached, no state change).
Names == {"submit", "dependency-add", "dependency-remove", "memo", "depend",
          "priority", "urgency", "exception", "alloc", "free", "finish",
          "release", "clean", "prolog-start", "prolog-finish",
          "epilog-start", "epilog-finish", "flux-restart", "start"}

NoDep == "none"

Ev(name, sev, final, desc) ==
  [name |-> name, severity |-> sev, final |-> final, desc |-> desc]
E(name) == Ev(name, 0, FALSE, NoDep)

\* The events a caller can post: one per name, with each decoded context.
Events ==
  { E(n) : n \in Names \ {"exception", "release", "dependency-add",
                          "dependency-remove"} }
  \cup { Ev("exception", s, FALSE, NoDep) : s \in {0, 1} }
  \cup { Ev("release", 0, f, NoDep) : f \in BOOLEAN }
  \cup { Ev(n, 0, FALSE, d) : n \in {"dependency-add", "dependency-remove"},
                              d \in Deps }

\* struct job, the fields the state machine and event_job_action() use.
Job == [state : JobStates, has_resources : BOOLEAN, alloc_queued : BOOLEAN,
        alloc_pending : BOOLEAN, free_pending : BOOLEAN,
        start_pending : BOOLEAN, alloc_bypass : BOOLEAN,
        perilog_active : 0..PerilogMax, depend_posted : BOOLEAN,
        deps : SUBSET Deps, end_event : {"none", "exception", "finish"},
        eventlog_seq : Nat]

\* A job as job-ingest hands it to the job manager.
NewJob ==
  [state |-> "NEW", has_resources |-> FALSE, alloc_queued |-> FALSE,
   alloc_pending |-> FALSE, free_pending |-> FALSE, start_pending |-> FALSE,
   alloc_bypass |-> FALSE, perilog_active |-> 0, depend_posted |-> FALSE,
   deps |-> {}, end_event |-> "none", eventlog_seq |-> 0]

-----------------------------------------------------------------------------
(* Result of Update: ok = FALSE is the -1 return (EINVAL, EPROTO,          *)
(* EOVERFLOW); the job is then whatever the function left it as.           *)
Ok(job) == [ok |-> TRUE, job |-> job]
Fail(job) == [ok |-> FALSE, job |-> job]

\* Mutations of EndEvent, Perilog and Alloc below, each a plausible slip.
EndEventOverwrite(job, name) == name
PerilogUnbounded(job, cmd) ==
  IF cmd = "start" THEN Ok([job EXCEPT !.perilog_active = @ + 1])
  ELSE Ok([job EXCEPT !.perilog_active = IF @ > 0 THEN @ - 1 ELSE 0])
AllocAlwaysRun(job) ==
  IF job.state \notin {"SCHED", "CLEANUP"} THEN Fail(job)
  ELSE Ok([job EXCEPT !.has_resources = TRUE, !.state = "RUN"])


\* event_release_context_decode() passes &final, an int **, to json_unpack
\* "b": the decoded value lands in the local pointer and *final keeps the
\* 0 it was given, so the caller always sees final == 0.
ReleaseFinal(ev) == FALSE

\* job_dependency_add / job_dependency_remove (job.c, not in this tree).
DependencyAdd(job, d) == Ok([job EXCEPT !.deps = @ \cup {d}])
DependencyRemove(job, d) ==
  IF d \in job.deps THEN Ok([job EXCEPT !.deps = @ \ {d}]) ELSE Fail(job)

\* event_handle_perilog()
Perilog(job, cmd) ==
  IF cmd = "start"
  THEN IF job.perilog_active = PerilogMax THEN Fail(job)
       ELSE Ok([job EXCEPT !.perilog_active = @ + 1])
  ELSE Ok([job EXCEPT !.perilog_active = IF @ > 0 THEN @ - 1 ELSE 0])

\* Record the end event unless one is already set.
EndEvent(job, name) ==
  IF job.end_event = "none" THEN name ELSE job.end_event

Goto(job, s) == [job EXCEPT !.state = s]

\* The "alloc" event: resources arrive in SCHED (the job runs) or in
\* CLEANUP (after a cancel raced the scheduler's answer).
Alloc(job) ==
  IF job.state \notin {"SCHED", "CLEANUP"} THEN Fail(job)
  ELSE Ok([job EXCEPT !.has_resources = TRUE,
                      !.state = IF job.state = "SCHED" THEN "RUN" ELSE @])

\* event_job_update()
Update(job, ev) ==
  LET s == job.state
      n == ev.name
  IN CASE n = "submit" ->
            IF s # "NEW" THEN Fail(job) ELSE Ok(Goto(job, "DEPEND"))
       [] n \in {"dependency-add", "dependency-remove"} ->
            IF s # "DEPEND" THEN Fail(job)
            ELSE IF n = "dependency-add" THEN DependencyAdd(job, ev.desc)
            ELSE DependencyRemove(job, ev.desc)
       [] n = "depend" ->
            IF s # "DEPEND" THEN Fail(job) ELSE Ok(Goto(job, "PRIORITY"))
       [] n = "priority" ->
            IF s \notin {"PRIORITY", "SCHED"} THEN Fail(job)
            ELSE Ok(Goto(job, "SCHED"))
       [] n = "exception" ->
            IF s \in {"NEW", "INACTIVE"} THEN Fail(job)
            ELSE IF ev.severity = 0
                 THEN Ok([Goto(job, "CLEANUP") EXCEPT
                            !.end_event = EndEvent(job, "exception")])
                 ELSE Ok(job)
       [] n = "alloc" -> Alloc(job)
       [] n = "free" ->
            IF s # "CLEANUP" \/ ~job.has_resources THEN Fail(job)
            ELSE Ok([job EXCEPT !.has_resources = FALSE])
       [] n = "finish" ->
            IF s \notin {"RUN", "CLEANUP"} THEN Fail(job)
            ELSE IF s = "RUN"
                 THEN Ok([Goto(job, "CLEANUP") EXCEPT
                            !.end_event = EndEvent(job, "finish")])
                 ELSE Ok(job)
       [] n = "release" ->
            IF s \notin {"RUN", "CLEANUP"} THEN Fail(job)
            ELSE IF ReleaseFinal(ev) /\ s = "RUN" THEN Fail(job)
            ELSE Ok(job)
       [] n = "clean" ->
            IF s # "CLEANUP" THEN Fail(job) ELSE Ok(Goto(job, "INACTIVE"))
       [] n \in {"prolog-start", "prolog-finish"} ->
            IF job.start_pending THEN Fail(job)
            ELSE Perilog(job, IF n = "prolog-start" THEN "start" ELSE "finish")
       [] n \in {"epilog-start", "epilog-finish"} ->
            IF s # "CLEANUP" THEN Fail(job)
            ELSE Perilog(job, IF n = "epilog-start" THEN "start" ELSE "finish")
       [] n = "flux-restart" ->
            Ok(IF s = "SCHED" THEN Goto(job, "PRIORITY") ELSE job)
       [] OTHER -> Ok(job)    \* memo, urgency, set-flags and any other name


\* The edges of the RFC 21 state diagram, back-edge and skips included
\* (an exception is accepted in DEPEND, so DEPEND -> CLEANUP is one).
Edges ==
  { <<"NEW", "DEPEND">>, <<"DEPEND", "PRIORITY">>, <<"PRIORITY", "SCHED">>,
    <<"SCHED", "RUN">>, <<"RUN", "CLEANUP">>, <<"CLEANUP", "INACTIVE">>,
    <<"SCHED", "PRIORITY">>, <<"DEPEND", "CLEANUP">>,
    <<"PRIORITY", "CLEANUP">>, <<"SCHED", "CLEANUP">> }
=============================================================================
