-------------------------- MODULE DeploymentMarkers ---------------------------
(***************************************************************************)
(* matrix-tools deployment-markers: the processes that the pre and post    *)
(* hook Jobs of the chart run, all of them reading and writing one         *)
(* ConfigMap, <release>-markers.                                           *)
(*                                                                         *)
(* A process runs GenerateConfigMap (pkg/marker/marker.go) once for every  *)
(* marker on its command line: Get, or Create when Get fails, then the     *)
(* check (pre) or the assignment (post) on the copy it holds, then Update. *)
(* Only the API calls touch the ConfigMap, so an action is one call and    *)
(* the local code that follows it.                                         *)
(*                                                                         *)
(* Several processes may run at once: the Job's replacement policy is      *)
(* TerminatingOrFailed, so a replacement starts while the pod it replaces  *)
(* is still terminating.  A process may be killed between any two calls, a *)
(* call may fail, and a call may be carried out although its reply is      *)
(* lost.  A failed container is restarted until the Job is given up.       *)
(***************************************************************************)
EXTENDS KubeObject, JobBackoff, Sequences

CONSTANTS
  Jobs,            \* the command lines, as the Job's template or a user has
                   \* written them; processes with one command line are those
                   \* of the pods of one Job
  InitialObjects,  \* the ConfigMaps the cluster may hold at the start
  MaxFaults,       \* bound on kills, failed calls and lost replies
  MaxAdmin         \* bound on deletions and creations by others

Steps  == {"pre", "post", "unknown"}
Marker == [key : Keys, newValue : Values, allowedValues : SUBSET Values,
           fields : Nat]       \* fields between the colons, in the argument

ASSUME MarkersAssumption ==
  /\ \A j \in Jobs :
       /\ j.step \in Steps
       /\ j.labels \in Labels
       /\ j.labelsParse \in BOOLEAN     \* each label has its equals sign
       /\ j.markers \in Seq(Marker)
       /\ j.markers # << >>
  /\ InitialObjects \subseteq Object
  /\ MaxFaults \in Nat
  /\ MaxAdmin \in Nat

VARIABLES
  cm,         \* the ConfigMap in the cluster
  pc,         \* where a process is: the call it is about to make
  job,        \* the command line of a process
  at,         \* the position in the list of the marker being handled
  copy,       \* existingConfigMap: the local copy that Update will send
  restarts,   \* how often the container was restarted
  faults,     \* faults so far
  admin       \* changes by others so far

vars == <<cm, pc, job, at, copy, restarts, faults, admin>>

PC      == {"idle", "get", "create", "update", "failed", "done", "stopped"}
Running == {"get", "create", "update"}

Current(p) == job[p].markers[at[p]]

(***************************************************************************)
(* The whole command line is parsed before the first call: fewer than      *)
(* three fields are an error, exactly three and a label without an equals  *)
(* sign an index out of range, which ends the process as an error does.    *)
(***************************************************************************)

\* Faulty: the markers are parsed one by one, as they are handled.
ParseArgsOfFirst(j) == j.labelsParse /\ j.markers[1].fields > 3

ParseArgs(j) ==
  /\ j.labelsParse
  /\ \A i \in DOMAIN j.markers : j.markers[i].fields > 3

Init ==
  /\ cm \in InitialObjects
  /\ pc = [p \in Procs |-> "idle"]
  /\ job \in [Procs -> Jobs]
  /\ at = [p \in Procs |-> 1]
  /\ copy = [p \in Procs |-> Removed(cm)]
  /\ restarts = [p \in Procs |-> 0]
  /\ faults = 0
  /\ admin = 0
-------------------------------------------------------------------------------
(***************************************************************************)
(* The code between Get or Create and Update, on the object just read.     *)
(***************************************************************************)

\* Faulty: the check lets the value pass that the post step will store.
RefusesAllButNew(j, m, obj) ==
  /\ j.step = "pre"
  /\ obj.data[m.key] \notin m.allowedValues \cup {None, m.newValue}

\* Faulty: the post step makes the check of the pre step, too.
RefusesInBothSteps(j, m, obj) ==
  /\ obj.data[m.key] # None
  /\ obj.data[m.key] \notin m.allowedValues

\* The pre step refuses a key whose value is not among the allowed ones; a
\* key that is absent passes.  A step that is neither pre nor post is found
\* out here only, after the ConfigMap was read or created.
Refuses(j, m, obj) ==
  \/ /\ j.step = "pre"
     /\ obj.data[m.key] # None
     /\ obj.data[m.key] \notin m.allowedValues
  \/ j.step \notin {"pre", "post"}

\* Faulty: the post step only replaces a value that is already there.
PreparedIfPresent(j, m, obj) ==
  [exists |-> obj.exists,
   labels |-> j.labels,
   data   |-> IF j.step = "post" /\ obj.data[m.key] # None
              THEN [obj.data EXCEPT ![m.key] = m.newValue]
              ELSE obj.data,
   rv     |-> obj.rv]

\* What Update will send: our labels, and for the post step the new value,
\* whatever the current value is.
Prepared(j, m, obj) ==
  [exists |-> obj.exists,
   labels |-> j.labels,
   data   |-> IF j.step = "post"
              THEN [obj.data EXCEPT ![m.key] = m.newValue]
              ELSE obj.data,
   rv     |-> obj.rv]

Goto(p, l) == pc' = [pc EXCEPT ![p] = l]

\* Faulty: the step goes on after the check has failed.
EditAnyway(p, obj) ==
  /\ Goto(p, "update")
  /\ copy' = [copy EXCEPT ![p] = Prepared(job[p], Current(p), obj)]

Edit(p, obj) ==
  \/ /\ Refuses(job[p], Current(p), obj)
     /\ Goto(p, "failed")
     /\ UNCHANGED copy
  \/ /\ ~ Refuses(job[p], Current(p), obj)
     /\ Goto(p, "update")
     /\ copy' = [copy EXCEPT ![p] = Prepared(job[p], Current(p), obj)]
-------------------------------------------------------------------------------
Launch(p) ==
  IF ParseArgs(job[p]) THEN Goto(p, "get") ELSE Goto(p, "failed")

Start(p) ==
  /\ pc[p] = "idle"
  /\ Launch(p)
  /\ UNCHANGED <<cm, job, at, copy, restarts, faults, admin>>

\* Any error of Get leads to Create; NotFound is the one that is no fault.
GetNotFound(p) ==
  /\ pc[p] = "get"
  /\ ~ cm.exists
  /\ Goto(p, "create")
  /\ UNCHANGED <<cm, job, at, copy, restarts, faults, admin>>

\* Faulty: nobody looks at the labels.
GetFoundAnyLabel(p) ==
  /\ pc[p] = "get"
  /\ cm.exists
  /\ Edit(p, cm)
  /\ UNCHANGED <<cm, job, at, restarts, faults, admin>>

GetFound(p) ==
  /\ pc[p] = "get"
  /\ cm.exists
  /\ \/ /\ cm.labels = Foreign
        /\ Goto(p, "failed")
        /\ UNCHANGED copy
     \/ /\ cm.labels # Foreign
        /\ Edit(p, cm)
  /\ UNCHANGED <<cm, job, at, restarts, faults, admin>>

Create(p) ==
  /\ pc[p] = "create"
  /\ \/ /\ cm.exists
        /\ Goto(p, "failed")
        /\ UNCHANGED <<cm, copy>>
     \/ /\ ~ cm.exists
        /\ cm' = Created(cm, job[p].labels, NoData)
        /\ Edit(p, Created(cm, job[p].labels, NoData))
  /\ UNCHANGED <<job, at, restarts, faults, admin>>

\* Faulty: the loop runs one past the end of the list.
AdvanceTooFar(p) ==
  IF at[p] <= Len(job[p].markers)
  THEN /\ at' = [at EXCEPT ![p] = @ + 1]
       /\ Goto(p, "get")
  ELSE /\ Goto(p, "done")
       /\ UNCHANGED at

\* The loop over the markers goes on after an accepted update.
Advance(p) ==
  IF at[p] < Len(job[p].markers)
  THEN /\ at' = [at EXCEPT ![p] = @ + 1]
       /\ Goto(p, "get")
  ELSE /\ Goto(p, "done")
       /\ UNCHANGED at

\* Faulty: the update is sent without a version, the last writer wins.
UpdateLastWins(p) ==
  /\ pc[p] = "update"
  /\ cm.exists
  /\ cm' = [copy[p] EXCEPT !.rv = cm.rv + 1]
  /\ Advance(p)
  /\ UNCHANGED <<job, copy, restarts, faults, admin>>

\* Faulty: the error of an update is only logged.
UpdateIgnored(p) ==
  /\ pc[p] = "update"
  /\ cm' = IF Accepts(cm, copy[p]) THEN Updated(cm, copy[p]) ELSE cm
  /\ Advance(p)
  /\ UNCHANGED <<job, copy, restarts, faults, admin>>

Update(p) ==
  /\ pc[p] = "update"
  /\ \/ /\ Accepts(cm, copy[p])
        /\ cm' = Updated(cm, copy[p])
        /\ Advance(p)
     \/ /\ ~ Accepts(cm, copy[p])
        /\ Goto(p, "failed")
        /\ UNCHANGED <<cm, at>>
  /\ UNCHANGED <<job, copy, restarts, faults, admin>>
-------------------------------------------------------------------------------
(***************************************************************************)
(* Faults.  A call that fails without effect, other than Get, ends the     *)
(* process as a kill before the call does.                                 *)
(***************************************************************************)
Fault ==
  /\ faults < MaxFaults
  /\ faults' = faults + 1

\* Get fails although the ConfigMap may exist: the code creates it all the
\* same.
GetError(p) ==
  /\ pc[p] = "get"
  /\ Fault
  /\ Goto(p, "create")
  /\ UNCHANGED <<cm, job, at, copy, restarts, admin>>

Kill(p) ==
  /\ pc[p] \in Running
  /\ Fault
  /\ Goto(p, "failed")
  /\ UNCHANGED <<cm, job, at, copy, restarts, admin>>

\* The ConfigMap is created, the reply is lost or the process is killed.
CreateLost(p) ==
  /\ pc[p] = "create"
  /\ ~ cm.exists
  /\ Fault
  /\ cm' = Created(cm, job[p].labels, NoData)
  /\ Goto(p, "failed")
  /\ UNCHANGED <<job, at, copy, restarts, admin>>

\* The update is stored, the reply is lost or the process is killed.
UpdateLost(p) ==
  /\ pc[p] = "update"
  /\ Accepts(cm, copy[p])
  /\ Fault
  /\ cm' = Updated(cm, copy[p])
  /\ Goto(p, "failed")
  /\ UNCHANGED <<job, at, copy, restarts, admin>>

\* The container exits with 1 and is started again, from the first marker.
Restart(p) ==
  /\ pc[p] = "failed"
  /\ restarts[p] < MaxRestarts
  /\ restarts' = [restarts EXCEPT ![p] = @ + 1]
  /\ at' = [at EXCEPT ![p] = 1]
  /\ Launch(p)
  /\ UNCHANGED <<cm, job, copy, faults, admin>>

\* The pods of a Job that are pending or running.
Active(j) == {p \in Procs : job[p] = j /\ pc[p] \notin {"done", "stopped"}}

\* The Job has failed, and its pods are stopped one after the other.
GiveUp(p) ==
  /\ pc[p] \notin {"done", "stopped"}
  /\ \/ PastBackoffLimit(Active(job[p]), restarts)
     \/ \E q \in Procs : job[q] = job[p] /\ pc[q] = "stopped"
  /\ Goto(p, "stopped")
  /\ UNCHANGED <<cm, job, at, copy, restarts, faults, admin>>

-------------------------------------------------------------------------------
(***************************************************************************)
(* Somebody else deletes the ConfigMap or makes one of the same name.      *)
(***************************************************************************)
Admin ==
  /\ admin < MaxAdmin
  /\ admin' = admin + 1
  /\ UNCHANGED <<pc, job, at, copy, restarts, faults>>

AdminDelete ==
  /\ Admin
  /\ cm.exists
  /\ cm' = Removed(cm)

AdminCreate ==
  /\ Admin
  /\ ~ cm.exists
  /\ \E d \in Data : cm' = Created(cm, Foreign, d)

-------------------------------------------------------------------------------
Step(p) == GetNotFound(p) \/ GetFound(p) \/ Create(p) \/ Update(p)

Next ==
  \/ \E p \in Procs :
       \/ Start(p)
       \/ GetNotFound(p)
       \/ GetFound(p)
       \/ Create(p)
       \/ Update(p)
       \/ GetError(p)
       \/ Kill(p)
       \/ CreateLost(p)
       \/ UpdateLost(p)
       \/ Restart(p)
       \/ GiveUp(p)
  \/ AdminDelete
  \/ AdminCreate

Spec == Init /\ [][Next]_vars

(***************************************************************************)
(* A process that can make its next call makes it, the kubelet starts a    *)
(* container and starts it again when it failed.  Nothing obliges a fault, *)
(* another user of the cluster or the controller's verdict to happen.      *)
(***************************************************************************)
Fairness ==
  \A p \in Procs : WF_vars(Start(p)) /\ WF_vars(Step(p)) /\ WF_vars(Restart(p))

FairSpec == Spec /\ Fairness

-------------------------------------------------------------------------------
(***************************************************************************)
(* Properties                                                              *)
(***************************************************************************)

\* The type of every variable.
TypeOK ==
  /\ cm \in Object
  /\ pc \in [Procs -> PC]
  /\ job \in [Procs -> Jobs]
  /\ at \in [Procs -> Nat \ {0}]
  /\ \A p \in Procs : at[p] \in DOMAIN job[p].markers
  /\ copy \in [Procs -> Object]
  /\ restarts \in [Procs -> 0..MaxRestarts]
  /\ faults \in 0..MaxFaults
  /\ admin \in 0..MaxAdmin

\* Versions in the copies are versions the ConfigMap has had.
VersionsGrow == \A p \in Procs : copy[p].rv <= cm.rv

\* As long as the version of a copy is the version in the cluster, the copy
\* is what the step makes of the ConfigMap as it is now, whoever else has
\* been at work since it was read.
CopyIsCurrent ==
  \A p \in Procs :
    pc[p] = "update" /\ Accepts(cm, copy[p]) =>
      /\ cm.labels # Foreign
      /\ ~ Refuses(job[p], Current(p), cm)
      /\ copy[p] = Prepared(job[p], Current(p), cm)

\* No lost update: while the ConfigMap stays in place, the value of a key
\* changes only when a post step stores the new value of its own marker
\* under it.  A process that read the ConfigMap before another one wrote a
\* different key never puts the old value of that key back
\* (marker.go: Get, assignment, Update).  And no list is stored in part
\* because a marker further on cannot be parsed (args.go).
OnlyPostWritesItsKey ==
  [][cm.exists /\ cm'.exists =>
       \A k \in Keys :
         cm'.data[k] # cm.data[k] =>
           \E p \in Procs :
             /\ pc[p] = "update"
             /\ job[p].step = "post"
             /\ Current(p).key = k
             /\ cm'.data[k] = Current(p).newValue
             /\ \A i \in DOMAIN job[p].markers : job[p].markers[i].fields > 3]_vars

\* The check of the pre step is not stale when the step succeeds: although
\* it looks at a copy taken earlier, a pre step goes past a marker only at
\* a moment when the value in the cluster is absent or allowed.
PreChecksCurrentValue ==
  [][\A p \in Procs :
       /\ pc[p] = "update"
       /\ job[p].step = "pre"
       /\ pc'[p] \in {"get", "done"}
       => /\ cm.exists
          /\ cm.data[Current(p).key] \in Current(p).allowedValues \cup {None}]_vars

\* A ConfigMap that carries another's managed-by label, or none, is never
\* modified, also when it appears under a process that has read, or found
\* missing, an earlier ConfigMap of that name.
ForeignIsLeftAlone ==
  [][cm.exists /\ cm.labels = Foreign => \/ UNCHANGED cm
                                         \/ ~ cm'.exists]_vars

\* A process that has gone through its whole post list leaves the cluster
\* with the ConfigMap its markers were stored in: at the moment it ends,
\* every key of its list holds a value that a post step wrote, never None.
\* (The keys of earlier markers may have been overwritten meanwhile.)
PostLeavesNoKeyOut ==
  [][\A p \in Procs :
       /\ pc[p] # "done" /\ pc'[p] = "done"
       /\ job[p].step = "post"
       /\ admin' = 0
       => \A i \in DOMAIN job[p].markers :
            cm'.data[job[p].markers[i].key] # None]_vars

Owner ==
  IF ~ cm.exists THEN "nobody" ELSE IF cm.labels = Foreign THEN "others" ELSE "us"

Markers == IF cm.exists THEN cm.data ELSE NoData

Passed ==
  [p \in Procs |-> IF pc[p] = "done" THEN Len(job[p].markers) ELSE at[p] - 1]

Atomic == INSTANCE AtomicMarkers WITH
  owner <- Owner, markers <- Markers, passed <- Passed

\* An entry takes three calls and may be overtaken by other processes, killed
\* and repeated between any two of them.  Yet it has the effect of a check or
\* an assignment in one step, at the moment its update is accepted, and the
\* process goes on to the next entry only after it (marker.go: Get or Create,
\* Update).
ImplementsAtomicMarkers == Atomic!Spec

\* What pays for restarts since the version n.
PaidFrom(n) ==
  admin = 0 /\ Owner # "others" =>
    \A p \in Procs :
      ParseArgs(job[p]) /\ job[p].step = "post" =>
        restarts[p] <= faults + (cm.rv - n)

\* A post step does not fail by itself: every restart of its container is
\* paid for by a fault or by a change of the ConfigMap, no change paying for
\* two restarts of one container, and storing the same value a second time is
\* no change.  (The ConfigMap has the version 0 at the start or a later one.)
RestartsArePaidFor == PaidFrom(0)

\* The pods of one Job of the chart, a post list of one marker.
ChartJob(j) ==
  /\ j.step = "post" /\ ParseArgs(j) /\ Len(j.markers) = 1
  /\ \A p \in Procs : job[p] = j

\* Faults, and two restarts of every pod but one, are less than the limit.
WithinBudget == faults + 2 * (Cardinality(Procs) - 1) < BackoffLimit

\* The Job is not given up within that budget, although the restarts of all
\* its pods are added up: the pods cost each other two restarts at most, one
\* when the ConfigMap is created and one when it gets the value, since from
\* then on they change nothing (marker.go: Create, Update; job.yaml:
\* backoffLimit, podReplacementPolicy).
NeverGivesUp ==
  /\ \E j \in Jobs : ChartJob(j)
  /\ admin = 0 /\ Owner # "others"
  /\ WithinBudget
  => \A p \in Procs :
       /\ pc[p] # "stopped"
       /\ ~ PastBackoffLimit(Active(job[p]), restarts)

\* The post step is retried to completion, also next to the pod of another
\* release's Job, within the same budget: with two pods, up to three faults
\* of a backoffLimit of six.  Whatever a killed attempt left behind - a
\* ConfigMap without data, the new value already stored - a later attempt
\* goes through, because post does not check the value it replaces.
PostCompletes ==
  \A p \in Procs :
    pc[p] = "get" /\ job[p].step = "post" ~> pc[p] = "done" \/ ~ WithinBudget
===============================================================================
