------------------------------ MODULE Affinity ------------------------------
(***************************************************************************)
(* The cpu-affinity shell plugin (src/src/shell/affinity.c).  In the       *)
(* shell's init callback, affinity_init reads the cpu-affinity option,     *)
(* creates the affinity context sa (hwloc topology, rank info, core list), *)
(* computes the shell's cpuset, hands sa to the plugin as aux data, binds  *)
(* the shell, and for "per-task" distributes the tasks and registers a     *)
(* task.exec handler.  Each task is a forked child of the shell: the       *)
(* handler runs in the child, binds it to its own cpuset and destroys the  *)
(* child's copy of sa before the task is exec'd.  When the shell exits,    *)
(* the plugin's aux destructor destroys the shell's sa.                    *)
(*                                                                         *)
(* hwloc is abstracted: which of its calls succeed is an input chosen in   *)
(* Init, and a binding is the class of cpuset it comes from.               *)
(***************************************************************************)
EXTENDS Integers, FiniteSets, TLC

CONSTANTS
    Tasks,          \* the shell's local tasks
    OptionValues    \* the cpu-affinity option: "unset", "invalid" or a string

Procs == {"shell"} \cup Tasks

\* What the library calls do in this run.  create: topology init, load and
\* restrict, the rank info and its unpack; cores: every allocated core is
\* in the topology; aux: flux_plugin_aux_set; bind: hwloc_set_cpubind of
\* the shell; distrib: distribute_tasks; handler: flux_plugin_add_handler.
Env == [create : BOOLEAN, cores : BOOLEAN, aux : BOOLEAN, bind : BOOLEAN,
        distrib : BOOLEAN, handler : BOOLEAN]

VARIABLES
    opt,        \* the cpu-affinity option as given to the shell
    env,        \* which library calls succeed
    pc,         \* the shell: "init", "running" (tasks launched) or "exited"
    rc,         \* the return code of affinity_init
    sa,         \* per process: its copy of the context: "none", "live", "freed"
    frees,      \* per process: how often shell_affinity_destroy ran on it
    aux,        \* sa is the plugin's "affinity" aux item (destroyed at exit)
    shellBind,  \* the shell's binding: "none" or "shell" (sa->cpuset)
    pertask,    \* sa->pertask is set
    handler,    \* the task.exec handler is registered
    taskBind    \* per task: "new" (not yet exec'd), "none", "shell", "pertask"

vars == <<opt, env, pc, rc, sa, frees, aux, shellBind, pertask, handler,
          taskBind>>

TypeOK ==
    /\ opt \in OptionValues /\ env \in Env
    /\ pc \in {"init", "running", "exited"} /\ rc \in {0, -1}
    /\ sa \in [Procs -> {"none", "live", "freed"}]
    /\ frees \in [Procs -> Nat]
    /\ aux \in BOOLEAN /\ shellBind \in {"none", "shell"}
    /\ pertask \in BOOLEAN /\ handler \in BOOLEAN
    /\ taskBind \in [Tasks -> {"new", "none", "shell", "pertask"}]

Init ==
    /\ opt \in OptionValues /\ env \in Env
    /\ pc = "init" /\ rc = 0
    /\ sa = [p \in Procs |-> "none"] /\ frees = [p \in Procs |-> 0]
    /\ aux = FALSE /\ shellBind = "none" /\ pertask = FALSE /\ handler = FALSE
    /\ taskBind = [t \in Tasks |-> "new"]

(* affinity_getopt: enabled unless the option is the string "off"; an     *)
(* option that is not a string is logged and leaves the default "on".     *)
affinity_getopt_invalid_off(o) == o \notin {"off", "invalid"}

affinity_getopt(o) == o # "off"

(* The option string that selects per-task binding (strcmp "per-task").   *)
PerTask(o) == o = "per-task"

(* shell_affinity_destroy on process p's copy of sa.                      *)
Destroy(p) ==
    /\ sa' = [sa EXCEPT ![p] = "freed"]
    /\ frees' = [frees EXCEPT ![p] = @ + 1]

(* affinity_init, the whole init callback.  Its failures, in the order    *)
(* the code meets them: create (which destroys the half-built sa itself), *)
(* the cpuset of the cores (affinity disabled, return 0), aux_set (sa     *)
(* destroyed, -1), the shell bind (-1, sa already owned by aux).  A        *)
(* return of -1 fails the shell's init and no task is launched.           *)
AffinityInit ==
    /\ pc = "init"
    /\ CASE ~affinity_getopt(opt) ->
              /\ rc' = 0 /\ pc' = "running"
              /\ UNCHANGED <<sa, frees, aux, shellBind, pertask, handler>>
         [] ~env.create ->
              /\ Destroy("shell") /\ rc' = -1 /\ pc' = "exited"
              /\ UNCHANGED <<aux, shellBind, pertask, handler>>
         [] ~env.cores ->
              /\ sa' = [sa EXCEPT !["shell"] = "live"]
              /\ rc' = 0 /\ pc' = "running"
              /\ UNCHANGED <<frees, aux, shellBind, pertask, handler>>
         [] ~env.aux ->
              /\ Destroy("shell") /\ rc' = -1 /\ pc' = "exited"
              /\ UNCHANGED <<aux, shellBind, pertask, handler>>
         [] ~env.bind ->
              /\ sa' = [sa EXCEPT !["shell"] = "live"] /\ aux' = TRUE
              /\ rc' = -1 /\ pc' = "exited"
              /\ UNCHANGED <<frees, shellBind, pertask, handler>>
         [] OTHER ->
              /\ sa' = [sa EXCEPT !["shell"] = "live"] /\ aux' = TRUE
              /\ shellBind' = "shell"
              /\ pertask' = (PerTask(opt) /\ env.distrib)
              /\ handler' = (PerTask(opt) /\ env.handler)
              /\ rc' = 0 /\ pc' = "running"
              /\ UNCHANGED frees
    /\ UNCHANGED <<opt, env, taskBind>>

TaskExecInShell(t) ==
    /\ pc = "running"
    /\ taskBind[t] = "new"
    /\ IF handler
         THEN /\ taskBind' = [taskBind EXCEPT ![t] =
                                 IF pertask THEN "pertask" ELSE shellBind]
              /\ Destroy("shell")
         ELSE UNCHANGED <<taskBind, sa, frees>>
    /\ UNCHANGED <<opt, env, pc, rc, aux, shellBind, pertask, handler>>

(* A task's child process: it is forked with a copy of the shell's sa and *)
(* its binding, runs the task.exec handler (task_affinity) if registered, *)
(* and is exec'd.  task_affinity binds the child to its own cpuset when   *)
(* sa->pertask is set and destroys the child's copy of sa.                *)
TaskExec(t) ==
    /\ pc = "running"
    /\ taskBind[t] = "new"
    /\ IF handler
         THEN /\ taskBind' = [taskBind EXCEPT ![t] =
                                 IF pertask THEN "pertask" ELSE shellBind]
              /\ sa' = [sa EXCEPT ![t] = "freed"]
              /\ frees' = [frees EXCEPT ![t] = frees["shell"] + 1]
         ELSE /\ taskBind' = [taskBind EXCEPT ![t] = shellBind]
              /\ sa' = [sa EXCEPT ![t] = sa["shell"]]
              /\ frees' = [frees EXCEPT ![t] = frees["shell"]]
    /\ UNCHANGED <<opt, env, pc, rc, aux, shellBind, pertask, handler>>

(* The shell exits once every task has run: the plugin is destroyed with  *)
(* its aux items, so an sa held as aux is destroyed.                       *)
ShellExit ==
    /\ pc = "running"
    /\ \A t \in Tasks : taskBind[t] # "new"
    /\ IF aux THEN Destroy("shell") /\ aux' = FALSE
              ELSE UNCHANGED <<sa, frees, aux>>
    /\ pc' = "exited"
    /\ UNCHANGED <<opt, env, rc, shellBind, pertask, handler, taskBind>>

Next == AffinityInit \/ ShellExit \/ \E t \in Tasks : TaskExec(t)

Spec == Init /\ [][Next]_vars

-----------------------------------------------------------------------------
(* Properties                                                              *)

(* No copy of sa is destroyed twice: not by the error paths of            *)
(* affinity_init, not by task_affinity in a child, not by the aux         *)
(* destructor when the shell exits.                                        *)
NoDoubleFree == \A p \in Procs : frees[p] <= 1

(* Once affinity_init has returned, the shell's sa is either destroyed or *)
(* held by the plugin as aux data, so it is destroyed at exit: every      *)
(* return path releases what shell_affinity_create allocated.             *)
ContextReleased ==
    pc # "init" => (sa["shell"] = "live" => aux)

(* Each launched task runs with the binding the option asks for: none     *)
(* when affinity is off or the cores are not in the topology; its own     *)
(* cpuset with "per-task" when the distribution and the handler were set  *)
(* up; the shell's cpuset otherwise.                                       *)
TaskBindingFollowsOption ==
    \A t \in Tasks : taskBind[t] # "new" =>
        taskBind[t] =
            IF opt = "off" \/ ~env.cores THEN "none"
            ELSE IF opt = "per-task" /\ env.distrib /\ env.handler
            THEN "pertask" ELSE "shell"
=============================================================================
