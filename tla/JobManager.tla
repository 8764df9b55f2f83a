----------------------------- MODULE JobManager -----------------------------
(***************************************************************************)
(* The job-manager event engine of src/src/modules/job-manager/event.c:    *)
(* event_job_post_entry() runs the job state machine (JobState), keeps the *)
(* eventlog sequence, batches the eventlog append and the job-state        *)
(* transition (EventBatch), calls the jobtap plugins and then              *)
(* event_job_action(), which talks to the scheduler and exec collaborators *)
(* and may post further events to the same job, recursively.              *)
(*                                                                         *)
(* The reactor is single threaded: a post runs to completion, nested posts *)
(* included, as one step.  The post pipeline is therefore a recursive      *)
(* operator over a record W of the state it touches; each reactor callback *)
(* (a collaborator's response, a plugin's delayed post, the batch timer, a *)
(* KVS or publish completion) is one action.                               *)
(*                                                                         *)
(* The collaborators (alloc.c, start.c, the jobtap plugins, the perilog    *)
(* plugin) are not in this tree; their part is modelled from the spec and  *)
(* from what event.c expects of them: a request flag is set when a request *)
(* is sent and cleared before the response's event is posted.             *)
(***************************************************************************)
EXTENDS JobState, Integers, Sequences, FiniteSets

CONSTANTS
  Jobs,           \* job ids
  MaxRaise,       \* bound on the exceptions raised on one job
  CommitMayFail,  \* whether a KVS commit may fail
  PubMayFail      \* whether a job-state publish may fail

VARIABLES
  jobs,      \* the job records (ctx->active_jobs holds those in active)
  active,    \* ids in ctx->active_jobs
  running,   \* ctx->running_jobs
  journal,   \* what journal_process_event() was given: <<seq, name>> per job
  exec,      \* the exec collaborator's view of each job's shell
  scripts,   \* prolog and epilog scripts the perilog plugin runs, per job
  evindex,   \* event->evindex: event name -> id
  evids,     \* the event ids stashed with each job (job_event_id_set)
  batch, pending, kvs, notified, pubs, sent, halted, down  \* EventBatch

jmvars == <<jobs, active, running, journal, exec, scripts, evindex, evids>>
vars == <<jobs, active, running, journal, exec, scripts, evindex, evids,
          batch, pending, kvs, notified, pubs, sent, halted, down>>

EX == INSTANCE EventIndex

BE == INSTANCE EventBatch
        WITH Values <- Events, States <- JobStates, Msgs <- {},
             MaxAppends <- 1

NoCommit == "NO_COMMIT"
ForceSequence == "FORCE_SEQUENCE"

\* What a jobtap plugin does from a state-change callback: post a
\* dependency-add (job.state.depend), post the priority at once
\* (job.state.priority), start a prolog (job.state.run) or an epilog
\* (job.state.cleanup, for a job holding resources).
Plugs == [dep : Deps \cup {NoDep}, prio : BOOLEAN, prolog : BOOLEAN,
          epilog : BOOLEAN]

Done(W) == [w |-> W, ok |-> TRUE]

\* Exception severities raised: 0 is fatal (a cancel), 1 is not.
Severities == {0, 1}

\* F applied to the value of x: x is evaluated once, whatever F does with it.
LetVal(x, F(_)) == CHOOSE r \in {F(v) : v \in {x}} : TRUE

-----------------------------------------------------------------------------
(* Collaborator requests made by event_job_action().                       *)

\* alloc_enqueue_alloc_request(): queue the job for the scheduler.
AllocEnqueue(W, j) ==
  IF W.jobs[j].alloc_queued \/ W.jobs[j].alloc_pending THEN W
  ELSE [W EXCEPT !.jobs[j].alloc_queued = TRUE]

\* alloc_dequeue_alloc_request(): take a queued request back.
AllocDequeue(W, j) == [W EXCEPT !.jobs[j].alloc_queued = FALSE]

\* start_send_request(): ask job-exec to start the job shells.
StartSend(W, j) ==
  IF W.jobs[j].start_pending THEN W
  ELSE [W EXCEPT !.jobs[j].start_pending = TRUE, !.exec[j] = "running"]

\* alloc_send_free_request(): give the resources back to the scheduler.
FreeSend(W, j) == [W EXCEPT !.jobs[j].free_pending = TRUE]

-----------------------------------------------------------------------------
\* Mutations of the helpers below, each a plausible slip in that code.
FreeReadyInverted(job) ==
  job.has_resources /\ job.perilog_active = 0 /\ ~job.alloc_bypass
    /\ job.start_pending /\ ~job.free_pending
FreeReadyIgnoresPerilog(job) ==
  job.has_resources /\ ~job.alloc_bypass /\ ~job.start_pending
    /\ ~job.free_pending
CleanReadyIgnoresAlloc(job) ==
  ~job.alloc_queued /\ ~job.free_pending /\ ~job.start_pending
    /\ ~job.has_resources
JournalSeqAfterIncrement(job, flags) ==
  IF NoCommit \in flags /\ ForceSequence \notin flags
  THEN -1 ELSE job.eventlog_seq + 1
JournalSeqNoForce(job, flags) ==
  IF NoCommit \in flags THEN -1 ELSE job.eventlog_seq
RunningDeltaRunOnly(a, b) ==
  IF b = "RUN" /\ a # "RUN" THEN 1 ELSE IF b # "RUN" /\ a = "RUN" THEN -1 ELSE 0
RunningDeltaSwapped(a, b) ==
  IF Running(b) /\ ~Running(a) THEN -1
  ELSE IF ~Running(b) /\ Running(a) THEN 1 ELSE 0

\* CLEANUP: the resources may go back to the scheduler once no prolog or
\* epilog runs, the shells have sent their final release and no free is
\* already outstanding.
FreeReady(job) ==
  job.has_resources /\ job.perilog_active = 0 /\ ~job.alloc_bypass
    /\ ~job.start_pending /\ ~job.free_pending

\* CLEANUP: cleanup is complete, no request to a collaborator is
\* outstanding and the job holds no resources.
CleanReady(job) ==
  ~job.alloc_queued /\ ~job.alloc_pending /\ ~job.free_pending
    /\ ~job.start_pending /\ ~job.has_resources

\* The sequence number given to the journal: -1 for an event that is not
\* committed, unless it is forced (it is already in the eventlog).
JournalSeq(job, flags) ==
  IF NoCommit \in flags /\ ForceSequence \notin flags
  THEN -1 ELSE job.eventlog_seq

-----------------------------------------------------------------------------
RECURSIVE PostEntry(_, _, _, _, _), PostPack(_, _, _, _), Jobtap(_, _, _, _),
          Action(_, _, _)

\* event_job_post_pack() / event_job_post_vpack(): EAGAIN in NEW.
PostPack(W, j, ev, plug) ==
  IF W.jobs[j].state = "NEW" THEN [w |-> W, ok |-> FALSE]
  ELSE PostEntry(W, j, ev, {}, plug)

\* Start a perilog script: the plugin posts prolog-start / epilog-start.
ScriptStart(W, j, kind, plug) ==
  LetVal(PostPack(W, j, E(kind \o "-start"), plug),
         LAMBDA r : IF r.ok THEN [r.w EXCEPT !.scripts[j] = @ \cup {kind}]
                    ELSE r.w)

\* event_jobtap_call(): on a state change, the callback of the new state.
\* Its result is ignored.
Jobtap(W, j, old, plug) ==
  LET job == W.jobs[j]
  IN IF job.state = old THEN W
     ELSE CASE job.state = "DEPEND" /\ plug.dep # NoDep ->
                 PostPack(W, j, Ev("dependency-add", 0, FALSE, plug.dep), plug).w
            [] job.state = "PRIORITY" /\ plug.prio ->
                 PostPack(W, j, E("priority"), plug).w
            [] job.state = "RUN" /\ plug.prolog ->
                 ScriptStart(W, j, "prolog", plug)
            [] job.state = "CLEANUP" /\ plug.epilog /\ job.has_resources ->
                 ScriptStart(W, j, "epilog", plug)
            [] OTHER -> W

\* event_job_action(): what to do in the job's current state.
Action(W, j, plug) ==
  LET job == W.jobs[j]
  IN CASE job.state = "DEPEND" ->
            IF job.deps = {} /\ ~job.depend_posted
            THEN LetVal(PostPack(W, j, E("depend"), plug),
                        LAMBDA r : IF ~r.ok THEN r
                                   ELSE Done([r.w EXCEPT !.jobs[j].depend_posted = TRUE]))
            ELSE Done(W)
       [] job.state = "PRIORITY" -> Done(AllocDequeue(W, j))
       [] job.state = "SCHED" -> Done(AllocEnqueue(W, j))
       [] job.state = "RUN" ->
            Done(IF job.perilog_active = 0 THEN StartSend(W, j) ELSE W)
       [] job.state = "CLEANUP" ->
            LET W1 == IF job.alloc_queued THEN AllocDequeue(W, j) ELSE W
                W2 == IF FreeReady(W1.jobs[j]) THEN FreeSend(W1, j) ELSE W1
            IN IF CleanReady(W2.jobs[j])
               THEN PostPack(W2, j, E("clean"), plug)
               ELSE Done(W2)
       [] job.state = "INACTIVE" -> Done([W EXCEPT !.active = @ \ {j}])
       [] OTHER -> Done(W)

\* event_job_cache(): the name's id from event_index(), stashed with the job.
Cache(W, j, name) ==
  LET ix == EX!IndexOf(W.evindex, name)
  IN [W EXCEPT !.evindex = ix, !.evids[j] = @ \cup {ix[name]}]

\* The change of ctx->running_jobs for a job going from state a to b.
RunningDelta(a, b) ==
  IF Running(b) /\ ~Running(a) THEN 1
  ELSE IF ~Running(b) /\ Running(a) THEN -1 ELSE 0

\* event_job_post_entry()
PostEntry(W, j, ev, flags, plug) ==
  LET job == W.jobs[j]
      seq == JournalSeq(job, flags)
      Wj == [W EXCEPT !.journal[j] = Append(@, <<seq, ev.name>>)]
      r == Update(job, ev)
      new == [r.job EXCEPT !.eventlog_seq = IF seq # -1 THEN job.eventlog_seq + 1 ELSE @]
      b1 == IF NoCommit \in flags THEN W.batch
            ELSE BE!event_batch_commit_event(W.batch, j, ev)
      b2 == IF new.state # job.state
            THEN BE!event_batch_pub_state(b1, j, new.state, new.eventlog_seq)
            ELSE b1
  IN IF ~r.ok THEN [w |-> [Wj EXCEPT !.jobs[j] = r.job], ok |-> FALSE]
     ELSE LetVal(Jobtap([Cache(Wj, j, ev.name) EXCEPT !.jobs[j] = new, !.batch = b2,
                           !.running = @ + RunningDelta(job.state, new.state)],
                        j, job.state, plug),
                 LAMBDA v : Action(v, j, plug))

-----------------------------------------------------------------------------
(* Reactor callbacks.                                                      *)

Now == [jobs |-> jobs, active |-> active, running |-> running,
        journal |-> journal, exec |-> exec, scripts |-> scripts, batch |-> batch,
        evindex |-> evindex, evids |-> evids]

SetNow(W) ==
  /\ jobs' = W.jobs
  /\ active' = W.active
  /\ running' = W.running
  /\ journal' = W.journal
  /\ exec' = W.exec
  /\ scripts' = W.scripts
  /\ evindex' = W.evindex
  /\ evids' = W.evids
  /\ batch' = W.batch
  /\ UNCHANGED <<pending, kvs, notified, pubs, sent, halted, down>>

Live == ~halted /\ ~down

\* A post made from a callback, with whatever the plugins choose to do.
Post(W, j, ev) ==
  \E plug \in Plugs : \E W2 \in {PostPack(W, j, ev, plug).w} : SetNow(W2)

\* submit: job-ingest hands a NEW job over; it enters active_jobs and its
\* submit event, already in the eventlog, is posted NO_COMMIT with a
\* forced sequence number.
Submit(j) ==
  /\ Live
  /\ j \notin active
  /\ jobs[j].state = "NEW"
  /\ \E plug \in Plugs :
       \E W2 \in {PostEntry([Now EXCEPT !.active = @ \cup {j}], j, E("submit"),
                             {NoCommit, ForceSequence}, plug).w} :
         SetNow(W2)

\* An exception raised on an active job (a cancel has severity 0).
Raise(j, sev) ==
  /\ Live
  /\ j \in active
  /\ Len(SelectSeq(journal[j], LAMBDA e : e[2] = "exception")) < MaxRaise
  /\ Post(Now, j, Ev("exception", sev, FALSE, NoDep))

\* The priority plugin's priority, when it was not given at once.
Prioritize(j) ==
  /\ Live
  /\ jobs[j].state = "PRIORITY"
  /\ Post(Now, j, E("priority"))

\* A dependency plugin finds a dependency satisfied.
DependencySatisfied(j, d) ==
  /\ Live
  /\ j \in active
  /\ d \in jobs[j].deps
  /\ Post(Now, j, Ev("dependency-remove", 0, FALSE, d))

\* The scheduler interface sends a queued alloc request.
SchedSend(j) ==
  /\ Live
  /\ jobs[j].alloc_queued
  /\ jobs' = [jobs EXCEPT ![j].alloc_queued = FALSE, ![j].alloc_pending = TRUE]
  /\ UNCHANGED <<active, running, journal, exec, scripts, evindex, evids,
                 batch, pending, kvs, notified, pubs, sent, halted, down>>

\* The scheduler allocates resources.
SchedAlloc(j) ==
  /\ Live
  /\ jobs[j].alloc_pending
  /\ Post([Now EXCEPT !.jobs[j].alloc_pending = FALSE], j, E("alloc"))

\* The scheduler answers a cancelled alloc request without resources.
SchedCancel(j) ==
  /\ Live
  /\ jobs[j].alloc_pending
  /\ jobs[j].state = "CLEANUP"
  /\ \E plug \in Plugs :
       \E W2 \in {Action([Now EXCEPT !.jobs[j].alloc_pending = FALSE], j, plug).w} :
         SetNow(W2)

\* The scheduler acknowledges a free request.
SchedFree(j) ==
  /\ Live
  /\ jobs[j].free_pending
  /\ Post([Now EXCEPT !.jobs[j].free_pending = FALSE], j, E("free"))

\* job-exec reports that the job shells exited.
ExecFinish(j) ==
  /\ Live
  /\ exec[j] = "running"
  /\ Post([Now EXCEPT !.exec[j] = "exited"], j, E("finish"))

\* job-exec releases the last resources: the final release response.
ExecRelease(j) ==
  /\ Live
  /\ exec[j] = "exited"
  /\ Post([Now EXCEPT !.exec[j] = "released", !.jobs[j].start_pending = FALSE],
          j, Ev("release", 0, TRUE, NoDep))

\* A prolog or epilog script of the perilog plugin completes.
ScriptFinish(j, kind) ==
  /\ Live
  /\ kind \in scripts[j]
  /\ Post([Now EXCEPT !.scripts[j] = @ \ {kind}], j, E(kind \o "-finish"))

BatchStep(A) == A /\ UNCHANGED jmvars

-----------------------------------------------------------------------------
Init ==
  /\ jobs = [j \in Jobs |-> NewJob]
  /\ active = {}
  /\ running = 0
  /\ journal = [j \in Jobs |-> <<>>]
  /\ exec = [j \in Jobs |-> "none"]
  /\ scripts = [j \in Jobs |-> {}]
  /\ evindex = EX!EmptyIndex
  /\ evids = [j \in Jobs |-> {}]
  /\ batch = BE!NoBatch
  /\ pending = <<>>
  /\ kvs = [j \in Jobs |-> <<E("submit")>>]
  /\ notified = [j \in Jobs |-> <<>>]
  /\ pubs = 0
  /\ sent = <<>>
  /\ halted = FALSE
  /\ down = FALSE

Next ==
  \/ \E j \in Jobs :
       \/ Submit(j)
       \/ \E sev \in Severities : Raise(j, sev)
       \/ Prioritize(j)
       \/ \E d \in Deps : DependencySatisfied(j, d)
       \/ SchedSend(j)
       \/ SchedAlloc(j)
       \/ SchedCancel(j)
       \/ SchedFree(j)
       \/ ExecFinish(j)
       \/ ExecRelease(j)
       \/ \E k \in {"prolog", "epilog"} : ScriptFinish(j, k)
  \/ BatchStep(BE!TimerFires)
  \/ BatchStep(BE!CommitDone)
  \/ BatchStep(BE!PublishDone)
  \/ BatchStep(BE!Shutdown)

(* The batch timer, the KVS, the broker, the perilog scripts and a killed  *)
(* job's shells always answer; a scheduler answers a cancel and a free.    *)
(* A scheduler need not ever allocate, a job need not ever finish on its   *)
(* own, and dependencies need not be satisfied.                            *)
Fairness ==
  /\ WF_vars(BatchStep(BE!TimerFires))
  /\ WF_vars(BatchStep(BE!CommitDone))
  /\ WF_vars(BatchStep(BE!PublishDone))
  /\ WF_vars(halted /\ BatchStep(BE!Shutdown))
  /\ \A j \in Jobs :
       /\ WF_vars(jobs[j].state = "CLEANUP" /\ (SchedAlloc(j) \/ SchedCancel(j)))
       /\ WF_vars(SchedFree(j))
       /\ WF_vars(jobs[j].state = "CLEANUP" /\ ExecFinish(j))
       /\ WF_vars(ExecRelease(j))
       /\ \A k \in {"prolog", "epilog"} : WF_vars(ScriptFinish(j, k))

Spec == Init /\ [][Next]_vars /\ Fairness

-----------------------------------------------------------------------------
\* The eventlog of job j as the job manager has written it so far:
\* committed, in flight, and in the current batch.
FullLog(j) ==
  LET own(t) == [i \in DOMAIN BE!OfJob(t, j) |-> BE!OfJob(t, j)[i][2]]
      F[i \in 0..Len(pending)] ==
        IF i = 0 THEN kvs[j] ELSE F[i-1] \o own(pending[i].txn)
  IN F[Len(pending)] \o own(batch.txn)

TypeOK ==
  /\ jobs \in [Jobs -> Job]
  /\ active \in SUBSET Jobs
  /\ running \in 0..Cardinality(Jobs)
  /\ journal \in [Jobs -> Seq((Int) \X Names)]
  /\ exec \in [Jobs -> {"none", "running", "exited", "released"}]
  /\ scripts \in [Jobs -> SUBSET {"prolog", "epilog"}]
  /\ evindex \in [DOMAIN evindex -> Nat] /\ DOMAIN evindex \subseteq Names
  /\ evids \in [Jobs -> SUBSET Nat]
  /\ BE!TypeOK

(* Published transitions follow the diagram (spec 8.1, 5.3): for each job, *)
(* the job-state transitions subscribers receive, in the order they are    *)
(* published, walk the RFC 21 diagram from NEW, nested posts from plugin   *)
(* callbacks and event_job_action() included.                              *)
PubStatesFollowDag ==
  \A j \in Jobs : \A i \in DOMAIN notified[j] :
    <<IF i = 1 THEN "NEW" ELSE notified[j][i-1][1], notified[j][i][1]>> \in Edges

\* The states of job j carried by a sequence of batch transitions.
TransStates(t, j) == [i \in DOMAIN BE!OfJob(t, j) |-> BE!OfJob(t, j)[i][2]]

\* The transitions of job j not yet published: those of the batches in
\* flight, oldest first, then those of the current batch.
Queued(j) ==
  LET F[i \in 0..Len(pending)] ==
        IF i = 0 THEN <<>> ELSE F[i-1] \o TransStates(pending[i].trans, j)
  IN F[Len(pending)] \o TransStates(batch.trans, j)

Published(j) == [i \in DOMAIN notified[j] |-> notified[j][i][1]]

\* The refinement mapping: the abstract job state is the job record's, a
\* job has entered the states it published and those still queued, and
\* the published ones are those received by subscribers.
Lifecycle == INSTANCE JobLifecycle
  WITH st <- [j \in Jobs |-> jobs[j].state],
       hist <- [j \in Jobs |-> Published(j) \o Queued(j)],
       pub <- [j \in Jobs |-> Published(j)],
       MaxPath <- 6

(* The engine implements JobLifecycle: every reactor callback moves a job *)
(* along a path of the RFC 21 diagram and queues exactly the states it     *)
(* entered, and job-state events deliver those states to subscribers in    *)
(* the order they were entered, across batches, nested posts from plugin   *)
(* callbacks and event_job_action(), and the flush of event_ctx_destroy.  *)
ImplementsLifecycle == Lifecycle!Spec

(* The engine publishes what it queues: whenever a job has entered states *)
(* not yet published, they are eventually all received by subscribers,    *)
(* through the 10 ms batch timer and the commit and publish completions,   *)
(* whatever further posts the reactor runs between.                        *)
TransitionsPublished ==
  \A j \in Jobs : Queued(j) # <<>> ~> Queued(j) = <<>>

(* The event ids (event_job_cache, spec 4.1 and step 6 of 4.3): the index *)
(* hands out the dense ids 1..N, distinct per name, and the ids stashed    *)
(* with a submitted job are exactly those of the events in its eventlog:  *)
(* an id is stashed only for an event the state machine accepted, and it  *)
(* still names that event after later posts, of this job or another, have *)
(* grown the index, nested posts from plugins and actions included.  Once *)
(* a failed commit has stopped the reactor, or event_ctx_destroy has      *)
(* dropped a failed batch, the lost events keep their ids; only the index *)
(* is then required to be dense.                                           *)
EventIdsMatchEventlog ==
  /\ EX!IdsDense(evindex)
  /\ Live => \A j \in Jobs :
       evids[j] = IF jobs[j].state = "NEW" THEN {}
                  ELSE {evindex[FullLog(j)[i].name] : i \in DOMAIN FullLog(j)}

(* ctx->running_jobs, adjusted by every post from the state it found and  *)
(* the state it left, counts the jobs in RUN or CLEANUP.                   *)
RunningCount ==
  running = Cardinality({j \in Jobs : Running(jobs[j].state)})

(* A job leaves the job manager clean (event_job_action, CLEANUP): once    *)
(* INACTIVE it holds no resources, has no request outstanding with the     *)
(* scheduler or job-exec, its shells have sent their final release, and no *)
(* prolog or epilog runs for it.                                           *)
InactiveIsClean ==
  \A j \in Jobs : jobs[j].state = "INACTIVE" =>
    /\ ~jobs[j].has_resources
    /\ ~jobs[j].alloc_queued /\ ~jobs[j].alloc_pending
    /\ ~jobs[j].free_pending /\ ~jobs[j].start_pending
    /\ exec[j] \in {"none", "released"}
    /\ scripts[j] = {}
    /\ j \notin active

(* The eventlog sequence (event_job_post_entry, EVENT_NO_COMMIT and       *)
(* EVENT_FORCE_SEQUENCE): a submitted job's eventlog_seq is the number of  *)
(* entries of the eventlog written for it, committed, in flight or batched. *)
EventlogSeqMatches ==
  \A j \in Jobs : jobs[j].state # "NEW" => jobs[j].eventlog_seq = Len(FullLog(j))

(* The journal matches the eventlog (event.c line 772, "Journal event      *)
(* sequence should match actual sequence of events in the job eventlog"):  *)
(* every journal entry with a sequence number n names the event at         *)
(* position n of the job's eventlog.                                       *)
JournalMatchesEventlog ==
  \A j \in Jobs : \A i \in DOMAIN journal[j] :
    LET n == journal[j][i][1]
    IN n >= 0 => /\ n < Len(FullLog(j))
                 /\ FullLog(j)[n+1].name = journal[j][i][2]

(* Every job that enters CLEANUP eventually becomes INACTIVE (spec 8.4),   *)
(* given that the scheduler answers cancels and frees, job-exec releases   *)
(* and the scripts finish; unless the reactor was stopped.                 *)
CleanupCompletes ==
  \A j \in Jobs :
    jobs[j].state = "CLEANUP" ~> (jobs[j].state = "INACTIVE" \/ halted \/ down)
=============================================================================
