---------------------------- MODULE JobLifecycle ----------------------------
(***************************************************************************)
(* What the job-manager event engine promises about job states (spec 4.2,  *)
(* 5.3 and 8.1), with no batches, plugins or collaborators: each job moves *)
(* along the RFC 21 diagram, possibly several edges in one reactor         *)
(* callback (nested posts), and the states it enters are published to      *)
(* subscribers later, in the order they were entered, any number at once.  *)
(* JobManager implements this specification (JobManager!ImplementsLifecycle).*)
(***************************************************************************)
EXTENDS JobState, Sequences, SequencesExt

CONSTANTS
  Jobs,        \* job ids
  MaxPath      \* the most edges one callback takes a job along

VARIABLES
  st,          \* the job's state in the job manager's memory
  hist,        \* the states each job has entered, in order
  pub          \* the states published for each job, in order

absvars == <<st, hist, pub>>

\* The paths of 1..n edges of the diagram starting from state s, as the
\* sequences of states they enter.
RECURSIVE PathsFrom(_, _)
PathsFrom(s, n) ==
  IF n = 0 THEN {}
  ELSE UNION { {<<t>>} \cup {<<t>> \o q : q \in PathsFrom(t, n - 1)} :
                 t \in {e[2] : e \in {x \in Edges : x[1] = s}} }

Init ==
  /\ st = [j \in Jobs |-> "NEW"]
  /\ hist = [j \in Jobs |-> <<>>]
  /\ pub = [j \in Jobs |-> <<>>]

\* A callback moves job j along a path of the diagram.
Enter(j) ==
  \E p \in PathsFrom(st[j], MaxPath) :
    /\ st' = [st EXCEPT ![j] = Last(p)]
    /\ hist' = [hist EXCEPT ![j] = @ \o p]
    /\ UNCHANGED pub

\* The prefixes of job j's entered states it may have published next.
Publishable(j) == {SubSeq(hist[j], 1, n) : n \in Len(pub[j])..Len(hist[j])}

\* Some of the entered states of some jobs are published, oldest first.
Publish ==
  \E np \in {f \in [Jobs -> UNION {Publishable(j) : j \in Jobs}] :
               \A j \in Jobs : f[j] \in Publishable(j)} :
    /\ np # pub
    /\ pub' = np
    /\ UNCHANGED <<st, hist>>

Next == (\E j \in Jobs : Enter(j)) \/ Publish

Spec == Init /\ [][Next]_absvars
=============================================================================
