----------------------------- MODULE EventIndex -----------------------------
(***************************************************************************)
(* The event index of the job manager (event_index in                      *)
(* src/src/modules/job-manager/event.c): a hash from event name to a small *)
(* integer id, filled on first use with the current size plus one.         *)
(* event_job_cache calls it for every event posted to a job and stashes    *)
(* the id with the job.  These are operators on the hash, a function from  *)
(* names to ids; JobManager keeps the hash and applies them in its post    *)
(* pipeline.                                                               *)
(*                                                                         *)
(* The insert's failure return (-1, ENOMEM) is not an outcome: czmq's      *)
(* zhashx_insert fails only on a duplicate key, which the lookup excludes, *)
(* and it asserts on an allocation failure, as the code's comment says.    *)
(***************************************************************************)
EXTENDS Naturals, FiniteSets, Functions, TLC

\* event_ctx_create: zhashx_new.
EmptyIndex == [n \in {} |-> 0]

\* The id a new entry gets: zhashx_size (event->evindex) + 1.
NewIdZeroBased(index) == Cardinality(DOMAIN index)

NewId(index) == Cardinality(DOMAIN index) + 1

\* zhashx_insert of name with the new id.
Inserted(index, name) == (name :> NewId(index)) @@ index

IndexOfNoLookup(index, name) == Inserted(index, name)

\* event_index: the hash after looking name up and, if it is absent,
\* inserting it; the id returned is IndexOf(index, name)[name].
IndexOf(index, name) ==
  IF name \in DOMAIN index THEN index ELSE Inserted(index, name)

\* The ids handed out are dense and distinct: exactly 1..N for N names.
IdsDense(index) ==
  /\ Range(index) = 1..Cardinality(DOMAIN index)
  /\ IsInjective(index)
=============================================================================
