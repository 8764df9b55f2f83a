----------------------------- MODULE EventBatch -----------------------------
(***************************************************************************)
(* The eventlog commit batching of src/src/modules/job-manager/event.c.    *)
(*                                                                         *)
(* Posting an event appends an entry to the current batch (creating it and *)
(* arming the 10 ms timer if there is none), may add a job-state           *)
(* transition to it, and a request handler may defer its response to it.   *)
(* When the timer fires the batch is committed to the KVS in one           *)
(* transaction; when the commit completes the batch is destroyed, which    *)
(* publishes its transitions as one "job-state" event and sends the        *)
(* deferred responses.  A batch with no KVS writes is destroyed at once.   *)
(* event_ctx_destroy() flushes everything synchronously.                   *)
(*                                                                         *)
(* An entry is <<job, value>>; a transition is <<job, state, n>> where n   *)
(* is the position in the job's eventlog of the event that caused it (the *)
(* code identifies it by the event's timestamp).  The reactor is single    *)
(* threaded: every action below is one callback run to completion.        *)
(***************************************************************************)
EXTENDS Naturals, Sequences, FiniteSets

CONSTANTS
  Jobs,           \* job ids
  Values,         \* payloads of eventlog entries
  States,         \* job state names carried by transitions
  Msgs,           \* requests whose response is deferred to a batch
  MaxAppends,     \* bound on the eventlog entries of one job
  CommitMayFail,  \* whether a KVS commit may fail
  PubMayFail      \* whether a job-state publish may fail

ASSUME Assumption ==
  /\ Jobs # {}
  /\ MaxAppends \in Nat \ {0}
  /\ CommitMayFail \in BOOLEAN
  /\ PubMayFail \in BOOLEAN

VARIABLES
  batch,     \* event->batch; open = FALSE stands for NULL (timer disarmed)
  pending,   \* event->pending: batches whose commit is in flight, in order
  kvs,       \* jobs/<id>/eventlog in the KVS, per job
  notified,  \* job-state transitions published, per job, as <<state, n>>
  pubs,      \* event->pub_futures: publishes awaiting their response
  sent,      \* deferred responses sent, each with its registration snapshot
  halted,    \* flux_reactor_stop_error() was called
  down       \* event_ctx_destroy() has run

bvars == <<batch, pending, kvs, notified, pubs, sent, halted, down>>

-----------------------------------------------------------------------------
(* Values of a batch and the API that fills it.                            *)

\* struct event_batch with txn, state_trans and responses still NULL.
NoBatch == [open |-> FALSE, txn |-> <<>>, trans |-> <<>>, resp |-> <<>>]

\* A mutation of event_batch_start: the batch is created, the timer not armed.
event_batch_start_unarmed(b) == IF b.open THEN b ELSE NoBatch

\* event_batch_start(): create the batch (and arm the timer) if none.
event_batch_start(b) == IF b.open THEN b ELSE [NoBatch EXCEPT !.open = TRUE]

\* The entries of job j in a sequence of entries or transitions.
OfJob(s, j) == SelectSeq(s, LAMBDA e : e[1] = j)

\* Eventlog entries of j already handed to a batch: committed, in flight,
\* or in the current batch.
Appended(j) ==
  Len(kvs[j])
    + Len(OfJob(batch.txn, j))
    + LET Count[i \in 0..Len(pending)] ==
            IF i = 0 THEN 0 ELSE Count[i-1] + Len(OfJob(pending[i].txn, j))
      IN Count[Len(pending)]

\* event_batch_commit_event(): append the encoded entry to the transaction.
event_batch_commit_event(b, j, v) ==
  [event_batch_start(b) EXCEPT !.txn = Append(@, <<j, v>>)]

\* event_batch_pub_state(): add [id, state, timestamp] to the transitions.
event_batch_pub_state(b, j, s, n) ==
  [event_batch_start(b) EXCEPT !.trans = Append(@, <<j, s, n>>)]

\* event_batch_respond(): defer the response to msg m.  Two snapshots
\* record, per job, the appends the response follows: those of its own
\* batch (and the KVS), and all made so far, in flight ones included.
event_batch_respond(b, m) ==
  LET nb == event_batch_start(b)
      own == [j \in Jobs |-> Len(kvs[j]) + Len(OfJob(nb.txn, j))]
      all == [j \in Jobs |-> Appended(j)]
  IN [nb EXCEPT !.resp = Append(@, <<m, own, all>>)]

-----------------------------------------------------------------------------
(* Destroying a batch (event_batch_destroy) has effects on the world: it   *)
(* publishes the transitions, if any, and sends the responses.  W is a     *)
(* record [notified, pubs, sent]; Destroy returns the record after it.     *)

Notify(n, trans) ==
  [j \in Jobs |-> n[j] \o
     LET t == OfJob(trans, j) IN [k \in DOMAIN t |-> <<t[k][2], t[k][3]>>]]

Destroy(W, b) ==
  [notified |-> Notify(W.notified, b.trans),
   pubs     |-> IF Len(b.trans) > 0 THEN W.pubs + 1 ELSE W.pubs,
   sent     |-> W.sent \o b.resp]

\* Apply a committed transaction to the KVS.
Apply(k, txn) ==
  [j \in Jobs |-> k[j] \o
     LET t == OfJob(txn, j) IN [i \in DOMAIN t |-> t[i][2]]]

World == [notified |-> notified, pubs |-> pubs, sent |-> sent]

SetWorld(W) ==
  /\ notified' = W.notified
  /\ pubs' = W.pubs
  /\ sent' = W.sent

Live == ~halted /\ ~down

-----------------------------------------------------------------------------
(* Mutations of the callbacks below, each a plausible slip in that code.  *)
TimerFiresDestroyNow ==
  /\ Live /\ batch.open /\ batch' = NoBatch
  /\ SetWorld(Destroy(World, batch))
  /\ UNCHANGED <<pending, kvs, halted, down>>
CommitDoneWrongBatch ==
  /\ Live /\ pending # <<>>
  /\ kvs' = Apply(kvs, Head(pending).txn)
  /\ pending' = Tail(pending)
  /\ SetWorld(Destroy(World, batch))
  /\ batch' = NoBatch
  /\ UNCHANGED <<halted, down>>
PublishDoneUnguarded ==
  /\ Live
  /\ pubs' = pubs - 1
  /\ UNCHANGED <<batch, pending, kvs, notified, sent, halted, down>>

-----------------------------------------------------------------------------
(* Reactor callbacks of the batch engine.                                  *)

\* timer_cb -> event_batch_commit(): a batch with KVS writes is committed;
\* one without is destroyed at once.  flux_kvs_commit() failing stops the
\* reactor and destroys the batch.
TimerFires ==
  /\ Live
  /\ batch.open
  /\ batch' = NoBatch
  /\ UNCHANGED kvs
  /\ \/ /\ Len(batch.txn) > 0
        /\ pending' = Append(pending, batch)
        /\ UNCHANGED <<notified, pubs, sent, halted>>
     \/ /\ Len(batch.txn) > 0
        /\ CommitMayFail
        /\ halted' = TRUE
        /\ SetWorld(Destroy(World, batch))
        /\ UNCHANGED pending
     \/ /\ Len(batch.txn) = 0
        /\ SetWorld(Destroy(World, batch))
        /\ UNCHANGED <<pending, halted>>
  /\ UNCHANGED down

\* commit_continuation(): the KVS answers the oldest commit (the KVS
\* completes one client's transactions in order).  On error the reactor
\* is stopped; either way the batch is removed and destroyed.
CommitDone ==
  /\ Live
  /\ pending # <<>>
  /\ \E ok \in IF CommitMayFail THEN BOOLEAN ELSE {TRUE} :
       /\ kvs' = IF ok THEN Apply(kvs, Head(pending).txn) ELSE kvs
       /\ halted' = ~ok
  /\ pending' = Tail(pending)
  /\ SetWorld(Destroy(World, Head(pending)))
  /\ UNCHANGED <<batch, down>>

\* publish_continuation(): a job-state publish completed.
PublishDone ==
  /\ Live
  /\ pubs > 0
  /\ pubs' = pubs - 1
  /\ \E ok \in IF PubMayFail THEN BOOLEAN ELSE {TRUE} : halted' = ~ok
  /\ UNCHANGED <<batch, pending, kvs, notified, sent, down>>

\* event_ctx_destroy(): commit the current batch, then wait for each
\* pending commit in order and destroy its batch (whatever the commit's
\* outcome), then wait for the publishes.  It runs when the module is
\* unloaded, and after the reactor was stopped with an error.
Shutdown ==
  /\ ~down
  /\ LET early == batch.open /\ Len(batch.txn) = 0
         queue == IF batch.open /\ Len(batch.txn) > 0
                  THEN Append(pending, batch) ELSE pending
         W0 == IF early THEN Destroy(World, batch) ELSE World
         Drain[i \in 0..Len(queue)] ==
           IF i = 0 THEN W0 ELSE Destroy(Drain[i-1], queue[i])
     IN \E ok \in [1..Len(queue) -> IF CommitMayFail THEN BOOLEAN ELSE {TRUE}] :
          LET Store[i \in 0..Len(queue)] ==
                IF i = 0 THEN kvs
                ELSE IF ok[i] THEN Apply(Store[i-1], queue[i].txn)
                     ELSE Store[i-1]
          IN /\ kvs' = Store[Len(queue)]
             /\ notified' = Drain[Len(queue)].notified
             /\ sent' = Drain[Len(queue)].sent
  /\ pubs' = 0
  /\ batch' = NoBatch
  /\ pending' = <<>>
  /\ down' = TRUE
  /\ UNCHANGED halted

-----------------------------------------------------------------------------
(* Callers of the API, as event_job_post_entry() and request handlers use *)
(* it: an event is appended and, if it changed the job's state, its        *)
(* transition is added right after; a handler may defer a response.        *)

PostCommitted(j, v) ==
  /\ Live
  /\ Appended(j) < MaxAppends
  /\ \/ batch' = event_batch_commit_event(batch, j, v)
     \/ \E s \in States :
          batch' = event_batch_pub_state(event_batch_commit_event(batch, j, v),
                                         j, s, Appended(j) + 1)
  /\ UNCHANGED <<pending, kvs, notified, pubs, sent, halted, down>>

RespondOnCommit(m) ==
  /\ Live
  /\ \A i \in DOMAIN sent : sent[i][1] # m
  /\ \A i \in DOMAIN batch.resp : batch.resp[i][1] # m
  /\ \A p \in DOMAIN pending :
       \A i \in DOMAIN pending[p].resp : pending[p].resp[i][1] # m
  /\ batch' = event_batch_respond(batch, m)
  /\ UNCHANGED <<pending, kvs, notified, pubs, sent, halted, down>>

-----------------------------------------------------------------------------
Init ==
  /\ batch = NoBatch
  /\ pending = <<>>
  /\ kvs = [j \in Jobs |-> <<>>]
  /\ notified = [j \in Jobs |-> <<>>]
  /\ pubs = 0
  /\ sent = <<>>
  /\ halted = FALSE
  /\ down = FALSE

Next ==
  \/ \E j \in Jobs, v \in Values : PostCommitted(j, v)
  \/ \E m \in Msgs : RespondOnCommit(m)
  \/ TimerFires
  \/ CommitDone
  \/ PublishDone
  \/ Shutdown

\* The timer, the KVS and the broker answer eventually; once the reactor
\* is stopped the module tears down (event_ctx_destroy).
Fairness ==
  /\ WF_bvars(TimerFires)
  /\ WF_bvars(CommitDone)
  /\ WF_bvars(PublishDone)
  /\ WF_bvars(halted /\ Shutdown)

Spec == Init /\ [][Next]_bvars /\ Fairness

-----------------------------------------------------------------------------
Entry == Jobs \X Values
Batch == [open : BOOLEAN, txn : Seq(Entry), trans : Seq(Jobs \X States \X Nat),
          resp : Seq(Msgs \X [Jobs -> Nat] \X [Jobs -> Nat])]

TypeOK ==
  /\ batch \in Batch
  /\ pending \in Seq(Batch)
  /\ kvs \in [Jobs -> Seq(Values)]
  /\ notified \in [Jobs -> Seq(States \X Nat)]
  /\ pubs \in Nat
  /\ sent \in Seq(Msgs \X [Jobs -> Nat] \X [Jobs -> Nat])
  /\ halted \in BOOLEAN
  /\ down \in BOOLEAN

(* Durable before published (event.c lines 124-128): whoever receives a    *)
(* job-state transition can read the event that caused it in the job's     *)
(* KVS eventlog.                                                           *)
DurableBeforePub ==
  \A j \in Jobs : \A i \in DOMAIN notified[j] : notified[j][i][2] <= Len(kvs[j])

(* Read after write for deferred responses (event_batch_respond): a        *)
(* response is sent only once every append made to its batch before it was *)
(* registered is in the KVS.                                               *)
RespondAfterCommit ==
  \A i \in DOMAIN sent : \A j \in Jobs : sent[i][2][j] <= Len(kvs[j])

EventuallyFlushed ==
  \A j \in Jobs : \A n \in 1..MaxAppends :
    (Appended(j) >= n) ~> (Len(kvs[j]) >= n \/ halted \/ down)
=============================================================================
