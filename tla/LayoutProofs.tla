---------------------------- MODULE LayoutProofs ----------------------------
(***************************************************************************)
(* Proofs about LayoutBootstrap, for every set of nodes, roles and         *)
(* requested layouts.                                                      *)
(*                                                                         *)
(* The argument: what is staged for a node is wanted by the release, or    *)
(* the Job found it staged when it started, and it is never the role that  *)
(* the node has; a Pod that applies has staged everything missing.  So     *)
(* what an apply may get wrong, and what a Job that finds the roles        *)
(* matching may leave staged, are the roles that Jobs of other releases    *)
(* have left behind.                                                       *)
(***************************************************************************)
EXTENDS LayoutBootstrap, TLAPS

RoleChanges == [Nodes -> Roles \cup {None}]

JobRecord == [pc : JobSteps, pods : Nat, changes : RoleChanges, version : Nat \cup {None}]

LayoutTyped ==
  /\ wanted \in Values
  /\ layout \in [version : Nat, roles : RoleChanges, redundancy : Redundancies \cup {None}]
  /\ staged \in [roles : RoleChanges, redundancy : Redundancies \cup {None}]
  /\ up \subseteq Nodes
  /\ job \in JobRecord
  /\ leftover \in RoleChanges
  /\ upgrades \in 0..MaxUpgrades /\ faults \in 0..MaxFaults

\* The Job gives up after BackoffLimit retries.
PodsCounted == job.pods <= IF job.pc = "failed" THEN BackoffLimit + 1 ELSE BackoffLimit

\* What is staged for a node is wanted or was found there, and is not in force.
StagedIsKnown ==
  \A n \in Nodes :
    /\ staged.roles[n] \in {None, wanted.roles[n], leftover[n]}
    /\ staged.roles[n] # None => staged.roles[n] # layout.roles[n]

\* What the Pod has read still holds when it acts on it.
PodUpToDate ==
  /\ job.pc \in {"update", "apply"} => ~RolesAsWanted /\ job.version = layout.version + 1
  /\ job.pc = "update" => job.changes = Changes
  /\ job.pc = "apply" =>
       /\ \A n \in Nodes :
            layout.roles[n] # wanted.roles[n] => staged.roles[n] = wanted.roles[n]
       /\ staged.redundancy = wanted.redundancy

LayoutInv ==
  LayoutTyped /\ PodsCounted /\ StagedIsKnown /\ PodUpToDate /\ SuccessIsComplete

-----------------------------------------------------------------------------
(* Layouts *)

\* A requested layout gives every node a role.
LEMMA WantedTyped ==
  ASSUME NEW v \in Values
  PROVE  /\ v.roles \in [Nodes -> Roles] /\ v.redundancy \in Redundancies
         /\ v.redundancy # None /\ \A n \in Nodes : v.roles[n] # None
BY LayoutAssumption

\* Nothing has to change when the roles are the wanted ones, and only then.
LEMMA ChangesMissing ==
  ASSUME LayoutTyped
  PROVE  /\ Changes \in RoleChanges
         /\ (Changes = NoRoles) <=> RolesAsWanted
<1>1. /\ wanted.roles \in [Nodes -> Roles] /\ \A n \in Nodes : wanted.roles[n] # None
      /\ layout.roles \in [Nodes -> Roles \cup {None}]
  BY WantedTyped DEF LayoutTyped, RoleChanges
<1>2. \A n \in Nodes : (Changes[n] = None) <=> (layout.roles[n] = wanted.roles[n])
  BY <1>1 DEF Changes
<1>3. Changes \in RoleChanges
  BY <1>1 DEF Changes, RoleChanges
<1>4. Changes = NoRoles => \A n \in Nodes : Changes[n] = None
  BY DEF NoRoles
<1>5. (\A n \in Nodes : Changes[n] = None) => Changes = NoRoles
  BY <1>3 DEF NoRoles, RoleChanges
<1> QED BY <1>1, <1>2, <1>3, <1>4, <1>5 DEF RolesAsWanted

\* Overriding layouts gives a layout.
LEMMA OverrideTyped ==
  ASSUME NEW f \in RoleChanges, NEW g \in RoleChanges
  PROVE  Override(f, g) \in RoleChanges
BY DEF Override, RoleChanges

\* Staging what is missing replaces what is staged for these nodes, and leaves
\* the other nodes' as it was.
LEMMA StagingCompletes ==
  ASSUME LayoutTyped, NEW n \in Nodes
  PROVE  Override(staged.roles, Changes)[n] =
           IF layout.roles[n] = wanted.roles[n] THEN staged.roles[n] ELSE wanted.roles[n]
<1>1. wanted.roles \in [Nodes -> Roles] /\ wanted.roles[n] # None
  BY WantedTyped DEF LayoutTyped
<1> QED BY <1>1 DEF Override, Changes

-----------------------------------------------------------------------------
(* Jobs *)

\* A new Job waits for the nodes.
LEMMA NewJobWaits ==
  NewJob \in JobRecord /\ NewJob.pc = "wait" /\ NewJob.pods = 0
BY DEF NewJob, JobRecord, JobSteps, RoleChanges, NoRoles

\* After a failure the next Pod starts over, or the Job has failed.
LEMMA PodFailsRestarts ==
  ASSUME LayoutTyped, PodsCounted, ~Ended, PodFails
  PROVE  /\ job' \in JobRecord /\ job'.pc \in {"wait", "failed"}
         /\ PodsCounted' /\ faults' \in 0..MaxFaults
<1> USE LayoutAssumption
<1>1. job.pods \in Nat /\ job.pods <= BackoffLimit /\ faults \in 0..MaxFaults
  BY DEF LayoutTyped, PodsCounted, Ended, JobRecord
<1>2. faults' \in 0..MaxFaults
  BY <1>1 DEF PodFails
<1>3. CASE job.pods = BackoffLimit
  <2>1. job' = [pc |-> "failed", pods |-> BackoffLimit + 1, changes |-> NoRoles, version |-> None]
    BY <1>3 DEF PodFails, NewJob
  <2>2. job' \in JobRecord /\ job'.pc = "failed" /\ job'.pods = BackoffLimit + 1
    BY <2>1 DEF JobRecord, JobSteps, RoleChanges, NoRoles
  <2> QED BY <1>2, <2>2 DEF PodsCounted
<1>4. CASE job.pods # BackoffLimit
  <2>1. job' = [NewJob EXCEPT !.pods = job.pods + 1]
    BY <1>4 DEF PodFails
  <2>2. job' \in JobRecord /\ job'.pc = "wait" /\ job'.pods = job.pods + 1
    BY <1>1, <2>1, NewJobWaits DEF JobRecord
  <2> QED BY <1>1, <1>2, <1>4, <2>2 DEF PodsCounted
<1> QED BY <1>3, <1>4

\* A Pod that goes on keeps its Job.
LEMMA PodMovesOn ==
  ASSUME LayoutTyped, PodsCounted, ~Ended,
         NEW pc \in JobSteps \ {"failed"}, job' = [job EXCEPT !.pc = pc]
  PROVE  /\ job' \in JobRecord /\ PodsCounted' /\ job'.pc = pc
         /\ job'.changes = job.changes /\ job'.version = job.version
BY DEF LayoutTyped, PodsCounted, JobRecord, Ended

-----------------------------------------------------------------------------
(* The invariant is inductive *)

\* Reading the status: the Pod ends if nothing is missing, or knows what is.
LEMMA ReadStatusStep ==
  ASSUME LayoutInv, ReadStatus
  PROVE  LayoutInv'
<1> USE DEF LayoutInv
<1>0. /\ UNCHANGED <<wanted, layout, staged, up, leftover, upgrades, faults>>
      /\ job.pc = "wait" /\ ~Ended /\ job \in JobRecord /\ layout.version \in Nat
  BY DEF ReadStatus, Ended, LayoutTyped
<1>1. RolesAsWanted' = RolesAsWanted /\ StagedIsKnown' /\ Changes' = Changes
  BY <1>0 DEF RolesAsWanted, StagedIsKnown, Changes
<1>2. CASE RolesAsWanted
  <2>1. job' = [job EXCEPT !.pc = "unchanged"]
    BY <1>2, ChangesMissing DEF ReadStatus
  <2>2. job' \in JobRecord /\ PodsCounted' /\ job'.pc = "unchanged"
    BY <1>0, <2>1, PodMovesOn DEF JobSteps
  <2>3. LayoutTyped' /\ PodUpToDate'
    BY <1>0, <2>2 DEF LayoutTyped, PodUpToDate
  <2>4. \A n \in Nodes : layout.roles[n] = wanted.roles[n]
                          /\ staged.roles[n] \in {None, leftover[n]}
    BY <1>2 DEF StagedIsKnown, RolesAsWanted
  <2>5. SuccessIsComplete'
    BY <1>0, <1>1, <1>2, <2>2, <2>4 DEF SuccessIsComplete
  <2> QED BY <1>1, <2>2, <2>3, <2>5
<1>3. CASE ~RolesAsWanted
  <2>1. job' = [job EXCEPT !.pc = "update", !.changes = Changes, !.version = layout.version + 1]
    BY <1>3, ChangesMissing DEF ReadStatus
  <2>2. /\ job' \in JobRecord /\ job'.pc = "update" /\ job'.pods = job.pods
        /\ job'.changes = Changes /\ job'.version = layout.version + 1
    <3>1. Changes \in RoleChanges /\ layout.version + 1 \in Nat
      BY <1>0, ChangesMissing
    <3> QED BY <1>0, <2>1, <3>1 DEF JobRecord, JobSteps
  <2>3. LayoutTyped' /\ PodsCounted' /\ SuccessIsComplete'
    BY <1>0, <2>2 DEF LayoutTyped, PodsCounted, SuccessIsComplete, Succeeded
  <2>4. PodUpToDate'
    BY <1>0, <1>1, <1>3, <2>2 DEF PodUpToDate
  <2> QED BY <1>1, <2>3, <2>4
<1> QED BY <1>2, <1>3

\* Staging: everything that is missing is staged then, on top of whatever
\* earlier Pods have staged.
LEMMA UpdateStep ==
  ASSUME LayoutInv, Update
  PROVE  LayoutInv'
<1> USE DEF LayoutInv
<1>0. /\ UNCHANGED <<wanted, layout, up, leftover, upgrades>> /\ job.pc = "update" /\ ~Ended
      /\ ~RolesAsWanted /\ job.changes = Changes /\ job.version = layout.version + 1
      /\ wanted \in Values
  BY DEF Update, Ended, PodUpToDate, LayoutTyped
<1> DEFINE new == Override(staged.roles, Changes)
<1>1. staged' = [roles |-> new, redundancy |-> wanted.redundancy]
  BY <1>0 DEF Update, UpdateClusterLayout
<1>2. new \in RoleChanges
  BY ChangesMissing, OverrideTyped DEF LayoutTyped
<1>3. \A n \in Nodes :
        new[n] = IF layout.roles[n] = wanted.roles[n] THEN staged.roles[n] ELSE wanted.roles[n]
  BY StagingCompletes
<1> HIDE DEF new
<1>4. /\ staged' \in [roles : RoleChanges, redundancy : Redundancies \cup {None}]
      /\ staged'.roles = new /\ staged'.redundancy = wanted.redundancy
  BY <1>0, <1>1, <1>2, WantedTyped
<1>5. StagedIsKnown' /\ ~RolesAsWanted'
  BY <1>0, <1>3, <1>4 DEF StagedIsKnown, RolesAsWanted
<1>6. CASE job' = [job EXCEPT !.pc = "apply"] /\ UNCHANGED faults
  <2>1. /\ job' \in JobRecord /\ PodsCounted' /\ job'.pc = "apply" /\ job'.version = job.version
    BY <1>0, <1>6, PodMovesOn DEF JobSteps
  <2>2. LayoutTyped' /\ SuccessIsComplete'
    BY <1>0, <1>4, <1>6, <2>1 DEF LayoutTyped, SuccessIsComplete, Succeeded
  <2>3. PodUpToDate'
    BY <1>0, <1>3, <1>4, <1>5, <2>1 DEF PodUpToDate
  <2> QED BY <1>5, <2>1, <2>2, <2>3
<1>7. CASE PodFails
  <2>1. /\ job' \in JobRecord /\ job'.pc \in {"wait", "failed"} /\ PodsCounted'
        /\ faults' \in 0..MaxFaults
    BY <1>0, <1>7, PodFailsRestarts
  <2>2. LayoutTyped'
    BY <1>0, <1>4, <2>1 DEF LayoutTyped
  <2>3. PodUpToDate' /\ SuccessIsComplete'
    BY <2>1 DEF PodUpToDate, SuccessIsComplete, Succeeded
  <2> QED BY <1>5, <2>1, <2>2, <2>3
<1> QED BY <1>6, <1>7 DEF Update

\* Applying: every node has its wanted role or one that was left over, and
\* nothing is staged.
LEMMA ApplyStep ==
  ASSUME LayoutInv, Apply
  PROVE  LayoutInv'
<1> USE DEF LayoutInv
<1>0. /\ UNCHANGED <<wanted, up, leftover, upgrades>> /\ job.pc = "apply" /\ ~Ended
      /\ wanted \in Values /\ layout.version \in Nat
      /\ layout.roles \in RoleChanges /\ staged.roles \in RoleChanges
      /\ staged.redundancy = wanted.redundancy
      /\ job.version = layout.version + 1
  BY DEF Apply, Ended, PodUpToDate, LayoutTyped
<1>1. /\ wanted.redundancy \in Redundancies /\ wanted.redundancy # None
      /\ \A n \in Nodes : wanted.roles[n] # None
  BY <1>0, WantedTyped
<1> DEFINE new == Override(layout.roles, staged.roles)
<1>2. /\ layout' = [version |-> layout.version + 1, roles |-> new,
                    redundancy |-> wanted.redundancy]
      /\ staged' = NothingStaged
  BY <1>0, <1>1 DEF Apply, ApplyClusterLayout
<1>3. new \in RoleChanges
  BY <1>0, OverrideTyped
<1>4. \A n \in Nodes :
        new[n] # wanted.roles[n] => leftover[n] # None /\ new[n] = leftover[n]
  <2> SUFFICES ASSUME NEW n \in Nodes, new[n] # wanted.roles[n]
               PROVE  leftover[n] # None /\ new[n] = leftover[n]
    OBVIOUS
  <2>1. new[n] = IF staged.roles[n] = None THEN layout.roles[n] ELSE staged.roles[n]
    BY DEF Override
  <2>2. layout.roles[n] # wanted.roles[n] => staged.roles[n] = wanted.roles[n]
    BY <1>0 DEF PodUpToDate
  <2>3. staged.roles[n] \in {None, wanted.roles[n], leftover[n]}
    BY DEF StagedIsKnown
  <2> QED BY <1>1, <2>1, <2>2, <2>3
<1> HIDE DEF new
<1>5. /\ layout' \in [version : Nat, roles : RoleChanges, redundancy : Redundancies \cup {None}]
      /\ layout'.roles = new /\ layout'.redundancy = wanted.redundancy
  BY <1>0, <1>1, <1>2, <1>3
<1>6. /\ staged' \in [roles : RoleChanges, redundancy : Redundancies \cup {None}]
      /\ \A n \in Nodes : staged'.roles[n] = None
  BY <1>2 DEF NothingStaged, NoRoles, RoleChanges
<1>7. StagedIsKnown'
  BY <1>6 DEF StagedIsKnown
<1>8. CASE job' = [job EXCEPT !.pc = "applied"] /\ UNCHANGED faults
  <2>1. job' \in JobRecord /\ PodsCounted' /\ job'.pc = "applied"
    BY <1>0, <1>8, PodMovesOn DEF JobSteps
  <2>2. LayoutTyped' /\ PodUpToDate'
    BY <1>0, <1>5, <1>6, <1>8, <2>1 DEF LayoutTyped, PodUpToDate
  <2>3. SuccessIsComplete'
    BY <1>0, <1>2, <1>4, <1>5, <1>6, <2>1 DEF SuccessIsComplete, NothingStaged, NoRoles
  <2> QED BY <1>7, <2>1, <2>2, <2>3
<1>9. CASE PodFails
  <2>1. /\ job' \in JobRecord /\ job'.pc \in {"wait", "failed"} /\ PodsCounted'
        /\ faults' \in 0..MaxFaults
    BY <1>0, <1>9, PodFailsRestarts
  <2>2. LayoutTyped'
    BY <1>0, <1>5, <1>6, <2>1 DEF LayoutTyped
  <2>3. PodUpToDate' /\ SuccessIsComplete'
    BY <2>1 DEF PodUpToDate, SuccessIsComplete, Succeeded
  <2> QED BY <1>7, <2>1, <2>2, <2>3
<1> QED BY <1>8, <1>9 DEF Apply

\* A Pod or a Job that fails elsewhere changes nothing in Garage.
LEMMA FailureStep ==
  ASSUME LayoutInv, Crash \/ Deadline
  PROVE  LayoutInv'
<1> USE DEF LayoutInv
<1>0. UNCHANGED <<wanted, layout, staged, up, leftover, upgrades>>
  BY DEF Crash, Deadline
<1> DEFINE Restarts == /\ job' \in JobRecord /\ job'.pc \in {"wait", "failed"}
                       /\ PodsCounted' /\ faults' \in 0..MaxFaults
<1>1. ASSUME Crash
      PROVE  Restarts
  BY <1>1, PodFailsRestarts DEF Crash
<1>2. ASSUME Deadline
      PROVE  Restarts
  <2>1. job.pods \in Nat /\ job.pods <= BackoffLimit
    BY <1>2 DEF Deadline, LayoutTyped, PodsCounted, Ended, JobRecord
  <2>2. job' = [pc |-> "failed", pods |-> job.pods, changes |-> NoRoles, version |-> None]
    BY <1>2 DEF Deadline, NewJob
  <2>3. job' \in JobRecord /\ job'.pc = "failed" /\ job'.pods = job.pods
    BY <2>1, <2>2 DEF JobRecord, JobSteps, RoleChanges, NoRoles
  <2>4. PodsCounted' /\ faults' \in 0..MaxFaults
    BY <1>2, <2>1, <2>3, LayoutAssumption DEF PodsCounted, Deadline, LayoutTyped
  <2> QED BY <2>3, <2>4
<1>3. LayoutTyped'
  BY <1>0, <1>1, <1>2 DEF LayoutTyped
<1>4. PodUpToDate' /\ SuccessIsComplete'
  BY <1>1, <1>2 DEF PodUpToDate, SuccessIsComplete, Succeeded
<1>5. StagedIsKnown'
  BY <1>0 DEF StagedIsKnown
<1> QED BY <1>1, <1>2, <1>3, <1>4, <1>5

\* A new Job starts, for the same or for other values; what is staged and not
\* wanted now is left over.
LEMMA StartStep ==
  ASSUME LayoutInv, NEW v \in Values, Start(v), upgrades' \in 0..MaxUpgrades
  PROVE  LayoutInv'
<1> USE DEF LayoutInv
<1>0. job' = NewJob /\ wanted' = v /\ UNCHANGED <<layout, staged, up, faults>>
  BY DEF Start
<1>1. job' \in JobRecord /\ job'.pc = "wait" /\ job'.pods = 0
  BY <1>0, NewJobWaits
<1>2. /\ leftover' \in RoleChanges
      /\ \A n \in Nodes : staged.roles[n] = v.roles[n] \/ leftover'[n] = staged.roles[n]
  BY DEF Start, LayoutTyped, RoleChanges
<1>3. LayoutTyped'
  BY <1>0, <1>1, <1>2 DEF LayoutTyped
<1>4. PodUpToDate' /\ SuccessIsComplete'
  BY <1>1 DEF PodUpToDate, SuccessIsComplete, Succeeded
<1>5. PodsCounted'
  BY <1>1, LayoutAssumption DEF PodsCounted
<1>6. StagedIsKnown'
  BY <1>0, <1>2 DEF StagedIsKnown
<1> QED BY <1>3, <1>4, <1>5, <1>6

\* Nodes that come and go change nothing else.
LEMMA NodesStep ==
  ASSUME LayoutInv, UNCHANGED <<wanted, layout, staged, job, leftover, upgrades>>, up' \subseteq Nodes,
         faults' \in 0..MaxFaults
  PROVE  LayoutInv'
<1> USE DEF LayoutInv
<1>1. LayoutTyped' /\ PodsCounted'
  BY DEF LayoutTyped, PodsCounted
<1>2. StagedIsKnown' /\ SuccessIsComplete'
  BY DEF StagedIsKnown, SuccessIsComplete, Succeeded, RolesAsWanted, NothingStaged
<1>3. PodUpToDate'
  BY DEF PodUpToDate, RolesAsWanted, Changes, Override
<1> QED BY <1>1, <1>2, <1>3

\* A fresh installation satisfies the invariant.
LEMMA LayoutInvInit == Init => LayoutInv
<1> SUFFICES ASSUME Init PROVE LayoutInv
  OBVIOUS
<1>1. NoRoles \in RoleChanges /\ \A n \in Nodes : NoRoles[n] = None
  BY DEF NoRoles, RoleChanges
<1>2. job \in JobRecord /\ job.pc = "wait" /\ job.pods = 0
  BY NewJobWaits DEF Init
<1>3. LayoutTyped /\ PodsCounted
  BY <1>1, <1>2, LayoutAssumption DEF Init, LayoutTyped, PodsCounted, NothingStaged
<1>4. StagedIsKnown
  BY <1>1 DEF Init, StagedIsKnown, NothingStaged
<1>5. PodUpToDate /\ SuccessIsComplete
  BY <1>2 DEF PodUpToDate, SuccessIsComplete, Succeeded
<1> QED BY <1>3, <1>4, <1>5 DEF LayoutInv

\* Every step keeps it.
LEMMA LayoutInvNext == LayoutInv /\ [Next]_vars => LayoutInv'
<1> SUFFICES ASSUME LayoutInv, [Next]_vars PROVE LayoutInv'
  OBVIOUS
<1>1. up \subseteq Nodes /\ faults \in 0..MaxFaults
  BY DEF LayoutInv, LayoutTyped
<1>2. CASE UNCHANGED vars
  BY <1>1, <1>2, NodesStep DEF vars
<1>3. ASSUME NEW n \in Nodes, NodeUp(n) \/ NodeDown(n)
      PROVE  LayoutInv'
  <2>1. /\ UNCHANGED <<wanted, layout, staged, job, leftover, upgrades>> /\ up' \subseteq Nodes
        /\ faults' \in 0..MaxFaults
    BY <1>1, <1>3, LayoutAssumption DEF NodeUp, NodeDown
  <2> QED BY <2>1, NodesStep
<1>4. CASE Upgrade
  <2>1. PICK v \in Values : Start(v)
    BY <1>4 DEF Upgrade
  <2>2. upgrades' \in 0..MaxUpgrades
    BY <1>4, LayoutAssumption DEF Upgrade, LayoutInv, LayoutTyped
  <2> QED BY <2>1, <2>2, StartStep
<1>5. CASE Resync
  <2>1. wanted \in Values /\ Start(wanted) /\ upgrades' \in 0..MaxUpgrades
    BY <1>5 DEF Resync, LayoutInv, LayoutTyped
  <2> QED BY <2>1, StartStep
<1> QED BY <1>2, <1>3, <1>4, <1>5, ReadStatusStep, UpdateStep, ApplyStep, FailureStep
   DEF Next, JobStep

-----------------------------------------------------------------------------
(* Theorems *)

\* It holds in every reachable state.
LEMMA LayoutInvAlways == Spec => []LayoutInv
BY LayoutInvInit, LayoutInvNext, PTL DEF Spec

\* Layouts, stages and Jobs have their types, a Job never has more than
\* backoffLimit retries, and the version a Pod is about to apply is the next.
THEOREM LayoutTypeCorrect == Spec => []LayoutTypeOK
<1>1. ASSUME LayoutInv
      PROVE  LayoutTypeOK
  <2>1. LayoutTyped /\ PodsCounted /\ PodUpToDate
    BY <1>1 DEF LayoutInv
  <2>2. job.pods \in 0..(IF job.pc = "failed" THEN BackoffLimit + 1 ELSE BackoffLimit)
    BY <2>1, LayoutAssumption DEF LayoutTyped, JobRecord, PodsCounted
  <2>3. job.pc = "apply" => job.version = layout.version + 1
    BY <2>1 DEF PodUpToDate
  <2> QED BY <2>1, <2>2, <2>3 DEF LayoutTyped, LayoutTypeOK, JobRecord, RoleChanges
<1> QED BY <1>1, LayoutInvAlways, PTL

\* Wherever the Pods and Jobs before it stopped: after a Job that succeeds each
\* node has the requested role, unless the Job found another release's role
\* staged for it, and then at most that one is applied or still staged.  A Job
\* that applied a layout leaves nothing staged and has applied the requested
\* zone redundancy.
THEOREM SuccessAlwaysComplete == Spec => []SuccessIsComplete
<1>1. LayoutInv => SuccessIsComplete
  BY DEF LayoutInv
<1> QED BY <1>1, LayoutInvAlways, PTL

\* No Job makes a layout version while the roles are the requested ones, and
\* none makes more than the next.
THEOREM VersionsAreNeeded == Spec => NoNeedlessVersion
<1>1. ASSUME LayoutInv, [Next]_vars, layout'.version # layout.version
      PROVE  layout'.version = layout.version + 1 /\ ~RolesAsWanted
  <2>1. CASE Apply
    <3>1. ~RolesAsWanted
      BY <1>1, <2>1 DEF Apply, LayoutInv, PodUpToDate
    <3>2. layout'.version = layout.version + 1
      BY <2>1 DEF Apply, ApplyClusterLayout
    <3> QED BY <3>1, <3>2
  <2>2. CASE UNCHANGED layout
    BY <1>1, <2>2
  <2> QED BY <1>1, <2>1, <2>2 DEF Next, vars, JobStep, ReadStatus, Update, Crash,
     Deadline, Upgrade, Resync, Start, NodeUp, NodeDown
<1>2. LayoutInv /\ [Next]_vars =>
        [layout'.version # layout.version =>
           layout'.version = layout.version + 1 /\ ~RolesAsWanted]_vars
  BY <1>1
<1> QED BY <1>2, LayoutInvAlways, PTL DEF Spec, NoNeedlessVersion

=============================================================================
