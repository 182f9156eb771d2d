-------------------------- MODULE LayoutBootstrap --------------------------
(***************************************************************************)
(* The Helm Job that gives Garage its storage layout                       *)
(* (templates/layout-bootstrap-job.yaml): it waits until all nodes are up, *)
(* stages the roles that differ from the requested ones, and applies what  *)
(* is staged as the next layout version.  A Pod of the Job may fail        *)
(* between any two steps, and a request may time out before or after it    *)
(* took effect; the Job then starts another Pod, up to backoffLimit times  *)
(* and until its deadline.  After a Job has ended, however it ended, the   *)
(* operator may sync the same release again or install another one; two    *)
(* Jobs at a time are outside the Job's contract (ADR 0001).               *)
(*                                                                         *)
(* Garage is external: GetClusterStatus shows the roles of the current     *)
(* layout, not the staged ones; UpdateClusterLayout adds to what is        *)
(* staged; ApplyClusterLayout takes the next version number only, applies  *)
(* everything that is staged, and clears it.                               *)
(***************************************************************************)
EXTENDS Naturals

CONSTANTS
  None,
  Nodes,          \* the Garage Pods
  Roles,          \* zone, capacity and tags of a node
  Redundancies,   \* values of zoneRedundancy (the chart's schema has one)
  Values,         \* requested layouts: the values of the releases
  BackoffLimit,   \* layoutBootstrap.backoffLimit
  MaxFaults,      \* bound on failures of Pods, requests and nodes
  MaxUpgrades     \* bound on changes of the values

ASSUME LayoutAssumption ==
  /\ Values \subseteq [roles : [Nodes -> Roles], redundancy : Redundancies]
  /\ BackoffLimit \in Nat /\ MaxFaults \in Nat /\ MaxUpgrades \in Nat
  /\ None \notin Roles \cup Redundancies

VARIABLES
  wanted,         \* the values of the current release
  layout,         \* Garage's current layout
  staged,         \* what is staged in Garage
  up,             \* the nodes that are connected
  job,            \* the Job and its running Pod
  leftover,       \* auxiliary: what the Job found staged that its release
                  \* does not want
  upgrades, faults

vars == <<wanted, layout, staged, up, job, leftover, upgrades, faults>>

NoRoles == [n \in Nodes |-> None]
NothingStaged == [roles |-> NoRoles, redundancy |-> None]

\* pc: what the Pod does next, or how the Job ended ("unchanged" when it
\* found the layout matching); pods: Pods that failed; seen: the status.
JobSteps == {"wait", "update", "apply", "unchanged", "applied", "failed"}

Ended == job.pc \in {"unchanged", "applied", "failed"}
Succeeded == job.pc \in {"unchanged", "applied"}

LayoutTypeOK ==
  /\ wanted \in Values
  /\ layout.version \in Nat
  /\ layout.roles \in [Nodes -> Roles \cup {None}]
  /\ layout.redundancy \in Redundancies \cup {None}
  /\ staged.roles \in [Nodes -> Roles \cup {None}]
  /\ staged.redundancy \in Redundancies \cup {None}
  /\ up \subseteq Nodes
  /\ job.pc \in JobSteps
  /\ job.pods \in 0..(IF job.pc = "failed" THEN BackoffLimit + 1 ELSE BackoffLimit)
  /\ job.pc = "apply" => job.version = layout.version + 1
  /\ leftover \in [Nodes -> Roles \cup {None}]
  /\ upgrades \in 0..MaxUpgrades /\ faults \in 0..MaxFaults

NewJob == [pc |-> "wait", pods |-> 0, changes |-> NoRoles, version |-> None]

\* A fresh installation.
Init ==
  /\ wanted \in Values
  /\ layout = [version |-> 0, roles |-> NoRoles, redundancy |-> None]
  /\ staged = NothingStaged
  /\ up \in SUBSET Nodes
  /\ job = NewJob
  /\ leftover = NoRoles
  /\ upgrades = 0 /\ faults = 0

-----------------------------------------------------------------------------
(* Garage *)

\* The second function where it says something, else the first.
Override(f, g) == [n \in Nodes |-> IF g[n] = None THEN f[n] ELSE g[n]]

UpdateClusterLayout(changes, redundancy) ==
  staged' = [roles |-> Override(staged.roles, changes), redundancy |-> redundancy]

ApplyClusterLayout(version) ==
  /\ version = layout.version + 1
  /\ layout' = [version |-> version,
                roles |-> Override(layout.roles, staged.roles),
                redundancy |-> IF staged.redundancy = None THEN layout.redundancy
                                                           ELSE staged.redundancy]
  /\ staged' = NothingStaged

-----------------------------------------------------------------------------
(* The Job *)

\* Variant of PodFails that allows one retry more.
PodFailsOnceMore ==
  /\ faults < MaxFaults /\ faults' = faults + 1
  /\ job' = IF job.pods > BackoffLimit
              THEN [NewJob EXCEPT !.pc = "failed", !.pods = BackoffLimit + 1]
              ELSE [NewJob EXCEPT !.pods = job.pods + 1]

\* A Pod fails; the Job gives up after backoffLimit retries.
PodFails ==
  /\ faults < MaxFaults /\ faults' = faults + 1
  /\ job' = IF job.pods = BackoffLimit
              THEN [NewJob EXCEPT !.pc = "failed", !.pods = BackoffLimit + 1]
              ELSE [NewJob EXCEPT !.pods = job.pods + 1]

\* Variant of Changes that stages all roles without comparing.
AllRoles == wanted.roles

\* The roles that are missing in the current layout.
Changes ==
  [n \in Nodes |-> IF layout.roles[n] = wanted.roles[n] THEN None ELSE wanted.roles[n]]

\* Variant of ReadStatus that goes on with the nodes that are there.
ReadStatusOfSome ==
  /\ job.pc = "wait" /\ up # {}
  /\ LET found == [n \in Nodes |-> IF n \in up THEN Changes[n] ELSE None]
     IN job' = IF found = NoRoles THEN [job EXCEPT !.pc = "unchanged"]
               ELSE [job EXCEPT !.pc = "update", !.changes = found,
                                !.version = layout.version + 1]
  /\ UNCHANGED <<wanted, layout, staged, up, leftover, upgrades, faults>>

\* Variant of ReadStatus that applies the version it has seen.
ReadStatusSameVersion ==
  /\ job.pc = "wait" /\ up = Nodes
  /\ job' = IF Changes = NoRoles THEN [job EXCEPT !.pc = "unchanged"]
            ELSE [job EXCEPT !.pc = "update", !.changes = Changes,
                             !.version = layout.version]
  /\ UNCHANGED <<wanted, layout, staged, up, leftover, upgrades, faults>>

\* GetClusterStatus until all nodes are up; roles are compared with the
\* status it returned, and the version to apply is computed from it.
ReadStatus ==
  /\ job.pc = "wait" /\ up = Nodes
  /\ job' = IF Changes = NoRoles THEN [job EXCEPT !.pc = "unchanged"]
            ELSE [job EXCEPT !.pc = "update", !.changes = Changes,
                             !.version = layout.version + 1]
  /\ UNCHANGED <<wanted, layout, staged, up, leftover, upgrades, faults>>

Update ==
  /\ job.pc = "update"
  /\ UpdateClusterLayout(job.changes, wanted.redundancy)
  /\ \/ job' = [job EXCEPT !.pc = "apply"] /\ UNCHANGED faults
     \/ PodFails
  /\ UNCHANGED <<wanted, layout, up, leftover, upgrades>>

Apply ==
  /\ job.pc = "apply"
  /\ ApplyClusterLayout(job.version)
  /\ \/ job' = [job EXCEPT !.pc = "applied"] /\ UNCHANGED faults
     \/ PodFails
  /\ UNCHANGED <<wanted, up, leftover, upgrades>>

\* The Pod is killed, a request fails without effect, or the Pod gives up on
\* missing nodes.
Crash ==
  /\ ~Ended
  /\ PodFails
  /\ UNCHANGED <<wanted, layout, staged, up, leftover, upgrades>>

\* activeDeadlineSeconds have passed: the Job fails with its running Pod.
Deadline ==
  /\ ~Ended
  /\ faults < MaxFaults /\ faults' = faults + 1
  /\ job' = [NewJob EXCEPT !.pc = "failed", !.pods = job.pods]
  /\ UNCHANGED <<wanted, layout, staged, up, leftover, upgrades>>

JobStep == ReadStatus \/ Update \/ Apply

-----------------------------------------------------------------------------
(* Operators and nodes *)

\* The Job of a release starts; nothing resets what is staged.
Start(v) ==
  /\ Ended
  /\ wanted' = v
  /\ job' = NewJob
  /\ leftover' = [n \in Nodes |-> IF staged.roles[n] = v.roles[n] THEN None
                                                                ELSE staged.roles[n]]
  /\ UNCHANGED <<layout, staged, up, faults>>

\* Another release or a rollback, after a success or a failure.
Upgrade ==
  /\ upgrades < MaxUpgrades /\ upgrades' = upgrades + 1
  /\ \E v \in Values \ {wanted} : Start(v)

\* The same release again.
Resync == Start(wanted) /\ UNCHANGED upgrades

NodeUp(n) ==
  /\ n \notin up /\ up' = up \cup {n}
  /\ UNCHANGED <<wanted, layout, staged, job, leftover, upgrades, faults>>

NodeDown(n) ==
  /\ n \in up /\ up' = up \ {n}
  /\ faults < MaxFaults /\ faults' = faults + 1
  /\ UNCHANGED <<wanted, layout, staged, job, leftover, upgrades>>

Next ==
  \/ JobStep \/ Crash \/ Deadline \/ Upgrade \/ Resync
  \/ \E n \in Nodes : NodeUp(n) \/ NodeDown(n)

\* The Pod runs, and nodes that are down come back.  Nobody is obliged to
\* sync again.
Fairness ==
  /\ WF_vars(JobStep)
  /\ \A n \in Nodes : WF_vars(NodeUp(n))

Spec == Init /\ [][Next]_vars /\ Fairness

-----------------------------------------------------------------------------
(* Properties *)

RolesAsWanted == layout.roles = wanted.roles

\* Wherever earlier Pods and Jobs stopped: after a success each node has the
\* requested role, unless the Job found another release's role staged for it,
\* and then at most that one is applied or still staged.  A Job that applied a
\* layout leaves nothing staged and has applied the requested zone redundancy.
\* ADR 0001, "failure after staging repeats the same desired roles, then applies
\* them", is the case in which nothing is left over: the release stays the same.
SuccessIsComplete ==
  /\ Succeeded => \A n \in Nodes :
       /\ layout.roles[n] # wanted.roles[n] =>
            leftover[n] # None /\ layout.roles[n] = leftover[n]
       /\ staged.roles[n] \in {None, leftover[n]}
  /\ job.pc = "unchanged" => RolesAsWanted
  /\ job.pc = "applied" => staged = NothingStaged /\ layout.redundancy = wanted.redundancy

\* ADR 0001: "failure after a successful apply observes the matching layout
\* and exits": as long as the roles are the requested ones no further
\* version is made, however often the Job runs.
NoNeedlessVersion ==
  [][layout'.version # layout.version =>
       layout'.version = layout.version + 1 /\ ~RolesAsWanted]_vars

\* If no failure is the last word, that is, if someone syncs after every Job
\* that failed, then each node finally has the requested role for good, or the
\* last Job found another release's role staged for it.
Converges ==
  []<>(job.pc # "failed") =>
    <>[](\A n \in Nodes : layout.roles[n] = wanted.roles[n] \/ leftover[n] # None)
=============================================================================
