---------------------------- MODULE MCJobManager ----------------------------
(* Model-checking instance of JobManager: jobs and dependencies are model  *)
(* values given in the cfg; the definitions below restrict the plugins and *)
(* the exceptions of some runs to keep them within TLC's reach.            *)
EXTENDS JobManager

CONSTANT d1   \* the dependency of Deps, a model value

\* Two plugin behaviours: no plugin acts, or a dependency plugin adds a
\* dependency and the priority plugin gives the priority at once.
MCPlugs ==
  { [dep |-> NoDep, prio |-> FALSE, prolog |-> FALSE, epilog |-> FALSE],
    [dep |-> d1, prio |-> TRUE, prolog |-> FALSE, epilog |-> FALSE] }

\* No plugin acts, or the priority, prolog and epilog plugins all act.
MCPlugsPerilog ==
  { [dep |-> NoDep, prio |-> FALSE, prolog |-> FALSE, epilog |-> FALSE],
    [dep |-> NoDep, prio |-> TRUE, prolog |-> TRUE, epilog |-> TRUE] }

\* No plugin acts, for the event-id run (exceptions raised twice).
MCNoPlugs ==
  { [dep |-> NoDep, prio |-> FALSE, prolog |-> FALSE, epilog |-> FALSE] }

\* Only fatal exceptions (a cancel), for the perilog, failure and liveness runs.
MCCancelOnly == {0}
=============================================================================
