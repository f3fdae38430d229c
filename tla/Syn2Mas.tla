------------------------------- MODULE Syn2Mas --------------------------------
(***************************************************************************)
(* matrix-tools syn2mas (pkg/syn2mas/syn2mas.go): the process of the       *)
(* migration hook Job.  It scales the StatefulSets of Synapse down, waits  *)
(* until their pods are gone, runs mas-cli syn2mas migrate and scales the  *)
(* StatefulSets back to what it has recorded.                              *)
(*                                                                         *)
(* It shares the StatefulSets with the StatefulSet controller, which       *)
(* starts and stops pods and writes the status: the pods it has seen, and  *)
(* that it has seen the spec.  It does so again when the last pod has      *)
(* gone, so also while scaleBack is at work.  A status that is written     *)
(* between the process's read and its Update makes the Update a conflict,  *)
(* and the process only logs the error of an Update.  The controller and   *)
(* mas-cli are not part of the repository.                                 *)
(*                                                                         *)
(* A Job with backoffLimit 0 and restartPolicy Never runs one process.     *)
(* When it has failed, an operator may run the upgrade, and so another     *)
(* Job, again: an attempt.                                                 *)
(***************************************************************************)
EXTENDS Naturals, FiniteSets

CONSTANTS
  Sts,              \* the StatefulSets of Synapse and its workers
  MaxReplicas,      \* bound on the replicas of a StatefulSet
  Scales,           \* the replicas that releases install
  Grants,           \* what the Role of the Job may let it update
  Strays,           \* whether a pod of the component that is no StatefulSet's
                    \* and did not succeed is left: a failed configuration check
  MaxRetries,       \* SYN2MAS_SCALE_DOWN_MAX_RETRIES, 60 by default
  MaxAttempts,      \* bound on the upgrades that are tried
  MaxErrors,        \* bound on the calls of the API that fail
  MaxEvictions,     \* bound on the pods that the cluster takes away
  MaxKills          \* bound on the attempts that are killed

ASSUME Syn2MasAssumption ==
  /\ IsFiniteSet(Sts) /\ Sts # {}
  /\ MaxReplicas \in Nat
  /\ Scales \subseteq [Sts -> 0..MaxReplicas]
  /\ Grants \subseteq SUBSET Sts
  /\ Strays \subseteq BOOLEAN
  /\ MaxRetries \in Nat /\ MaxAttempts \in Nat
  /\ MaxErrors \in Nat /\ MaxEvictions \in Nat /\ MaxKills \in Nat

VARIABLES
  scale,       \* the replicas that the release has installed
  granted,     \* the StatefulSets that the Role lets the Job update
  stray,       \* a pod as above is left
  spec,        \* spec.replicas of a StatefulSet
  status,      \* the pods of a StatefulSet as its status has them:
               \* availableReplicas are those ready, replicas counts them all
  observed,    \* the StatefulSets whose status is of the spec as it stands:
               \* observedGeneration is the generation
  pods,        \* the pods of a StatefulSet by their state
  pc,          \* what the process does next, or how the attempt has ended
  orig,        \* stsReplicas: what scaleDownSynapse has recorded
  todo,        \* the StatefulSets that a loop has not finished with
  item,        \* the one that scaleBack has got
  fresh,       \* those stored as the process has last read them
  retries,     \* remainingRetries
  result,      \* the exit code to be, once mas-cli has ended
  migrated,    \* MAS' database holds the users of Synapse
  ignored,     \* the StatefulSets of which this attempt ignored an error
  lost,        \* history: those that an attempt has scaled down and, at its
               \* end, has not scaled back
  attempts, errors, evictions, kills    \* so far

cluster == <<spec, status, observed, pods>>
setting == <<scale, granted, stray>>
bounds  == <<attempts, errors, evictions, kills>>
process == <<pc, orig, todo, item, fresh, retries, result, migrated, ignored,
             lost>>
vars    == <<setting, cluster, process, bounds>>

PC == {"idle", "list", "down", "available", "gone", "migrate", "get", "put",
       "ok", "failed", "killed"}

Ended   == {"ok", "failed", "killed"}
Running == PC \ (Ended \cup {"idle"})

Pods == [starting : Nat, ready : Nat, stopping : Nat]

Count(s) == pods[s].starting + pods[s].ready + pods[s].stopping

Init ==
  /\ scale \in Scales
  /\ granted \in Grants
  /\ stray \in Strays
  /\ spec = scale
  /\ pods = [s \in Sts |-> [starting |-> 0, ready |-> scale[s], stopping |-> 0]]
  /\ status = pods
  /\ observed = Sts
  /\ pc = "idle"
  /\ orig = [s \in Sts |-> 0]
  /\ todo = {}
  /\ item = CHOOSE s \in Sts : TRUE
  /\ fresh = {}
  /\ retries = 0
  /\ result = "failed"
  /\ migrated = FALSE
  /\ ignored = {}
  /\ lost = {}
  /\ attempts = 0 /\ errors = 0 /\ evictions = 0 /\ kills = 0
-------------------------------------------------------------------------------
(***************************************************************************)
(* The StatefulSet controller and the kubelet.                             *)
(***************************************************************************)
Move(s, from, to) ==
  /\ pods[s][from] > 0
  /\ pods' = [pods EXCEPT ![s][from] = @ - 1, ![s][to] = @ + 1]
  /\ UNCHANGED <<setting, spec, status, observed, process>>

\* A pod takes the name of the one that it replaces, so that one must be gone.
CreatePod(s) ==
  /\ Count(s) < spec[s]
  /\ pods' = [pods EXCEPT ![s].starting = @ + 1]
  /\ UNCHANGED <<setting, spec, status, observed, process, bounds>>

PodReady(s) == Move(s, "starting", "ready") /\ UNCHANGED bounds

StopPod(s) ==
  /\ pods[s].starting + pods[s].ready > spec[s]
  /\ Move(s, "starting", "stopping") \/ Move(s, "ready", "stopping")
  /\ UNCHANGED bounds

PodGone(s) ==
  /\ pods[s].stopping > 0
  /\ pods' = [pods EXCEPT ![s].stopping = @ - 1]
  /\ UNCHANGED <<setting, spec, status, observed, process, bounds>>

\* The status follows the pods and the spec, and with every change of it the
\* StatefulSet has another version.
Report(s) ==
  /\ status[s] # pods[s] \/ s \notin observed
  /\ status' = [status EXCEPT ![s] = pods[s]]
  /\ observed' = observed \cup {s}
  /\ fresh' = fresh \ {s}
  /\ UNCHANGED <<setting, spec, pods, pc, orig, todo, item, retries, result,
                 migrated, ignored, lost, bounds>>

\* A node is drained, a pod is deleted.
Evict(s) ==
  /\ evictions < MaxEvictions
  /\ Move(s, "ready", "stopping")
  /\ evictions' = evictions + 1
  /\ UNCHANGED <<attempts, errors, kills>>
-------------------------------------------------------------------------------
(***************************************************************************)
(* Helm creates the Job.  Its init containers, syn2mas check the last of   *)
(* them, may fail before anything is scaled down.                          *)
(***************************************************************************)
Begin ==
  /\ pc \in {"idle", "failed", "killed"}
  /\ attempts < MaxAttempts
  /\ attempts' = attempts + 1
  /\ pc' \in {"list", "failed"}
  /\ ignored' = {}
  /\ UNCHANGED <<setting, cluster, orig, todo, item, fresh, retries, result,
                 migrated, lost, errors, evictions, kills>>

(***************************************************************************)
(* scaleDownSynapse                                                        *)
(***************************************************************************)

\* Faulty: the replicas are read after they have been set to zero.
ListStatefulSetsLate ==
  /\ pc = "list"
  /\ orig' = [s \in Sts |-> 0]
  /\ fresh' = Sts
  /\ todo' = Sts
  /\ pc' = "down"
  /\ UNCHANGED <<setting, cluster, item, retries, result, migrated, ignored,
                 lost, bounds>>

ListStatefulSets ==
  /\ pc = "list"
  /\ orig' = spec
  /\ fresh' = Sts
  /\ todo' = Sts
  /\ pc' = "down"
  /\ UNCHANGED <<setting, cluster, item, retries, result, migrated, ignored,
                 lost, bounds>>

\* An Update that sets the replicas of s: it is stored if the Role grants it
\* and the StatefulSet has not changed since it was read.  The copy is not
\* used again.
SetReplicas(s, n) ==
  /\ fresh' = fresh \ {s}
  /\ \/ /\ s \in fresh \cap granted
        /\ spec' = [spec EXCEPT ![s] = n]
        /\ observed' = IF spec[s] = n THEN observed ELSE observed \ {s}
        /\ UNCHANGED <<ignored, errors>>
     \/ /\ s \notin fresh \cap granted
        /\ ignored' = ignored \cup {s}
        /\ UNCHANGED <<spec, observed, errors>>
     \/ /\ errors < MaxErrors
        /\ errors' = errors + 1
        /\ ignored' = ignored \cup {s}
        /\ UNCHANGED <<spec, observed>>

ScaleDown(s) ==
  /\ pc = "down"
  /\ s \in todo
  /\ SetReplicas(s, 0)
  /\ todo' = todo \ {s}
  /\ pc' = IF todo' = {} THEN "available" ELSE "down"
  /\ UNCHANGED <<setting, status, pods, orig, item, retries, result, migrated,
                 lost, attempts, evictions, kills>>

\* The loop has no limit: nothing happens while a replica is available.
AwaitUnavailable ==
  /\ pc = "available"
  /\ \A s \in Sts : status[s].ready = 0
  /\ pc' = "gone"
  /\ retries' = MaxRetries
  /\ UNCHANGED <<setting, cluster, orig, todo, item, fresh, result, migrated,
                 ignored, lost, bounds>>

\* A pod of the component that has not succeeded, terminating ones included.
PodsFound == stray \/ \E s \in Sts : Count(s) > 0

\* What the attempt has scaled down and has not been back to: an attempt that
\* ends here leaves it at zero.
Unreturned ==
  {s \in Sts \ ignored :
     \/ pc = "down" /\ s \notin todo
     \/ pc \in {"available", "gone", "migrate"}
     \/ pc \in {"get", "put"} /\ s \in todo}

\* Faulty: the loop ends without an error when it has used its retries up.
AwaitGoneOrTimeout ==
  /\ pc = "gone"
  /\ \/ /\ PodsFound /\ retries > 0
        /\ retries' = retries - 1
        /\ UNCHANGED pc
     \/ /\ ~ PodsFound \/ retries = 0
        /\ pc' = "migrate"
        /\ UNCHANGED retries
  /\ UNCHANGED <<setting, cluster, orig, todo, item, fresh, result, migrated,
                 ignored, lost, bounds>>

\* Faulty: nobody looks whether a retry is left.
AwaitGoneForever ==
  /\ pc = "gone"
  /\ \/ /\ PodsFound
        /\ retries' = retries - 1
        /\ UNCHANGED pc
     \/ /\ ~ PodsFound
        /\ pc' = "migrate"
        /\ UNCHANGED retries
  /\ UNCHANGED <<setting, cluster, orig, todo, item, fresh, result, migrated,
                 ignored, lost, bounds>>

\* Faulty: nobody counts the retries.
AwaitGoneUncounted ==
  /\ pc = "gone"
  /\ ~ PodsFound
  /\ pc' = "migrate"
  /\ UNCHANGED <<setting, cluster, orig, todo, item, fresh, retries, result,
                 migrated, ignored, lost, bounds>>

\* With no retry left the process exits and scales nothing back.
AwaitGone ==
  /\ pc = "gone"
  /\ \/ /\ PodsFound
        /\ retries > 0
        /\ retries' = retries - 1
        /\ UNCHANGED <<pc, lost>>
     \/ /\ PodsFound
        /\ retries = 0
        /\ pc' = "failed"
        /\ lost' = lost \cup Unreturned
        /\ UNCHANGED retries
     \/ /\ ~ PodsFound
        /\ pc' = "migrate"
        /\ UNCHANGED <<retries, lost>>
  /\ UNCHANGED <<setting, cluster, orig, todo, item, fresh, result, migrated,
                 ignored, bounds>>

(***************************************************************************)
(* RunSyn2MAS: mas-cli migrates or fails; scaleBack follows in both cases. *)
(***************************************************************************)
\* Faulty: the process exits at once when mas-cli has failed.
MigrateOrExit ==
  /\ pc = "migrate"
  /\ \/ /\ migrated' = TRUE
        /\ result' = "ok"
        /\ todo' = Sts
        /\ pc' = "get"
     \/ /\ result' = "failed"
        /\ pc' = "failed"
        /\ UNCHANGED <<todo, migrated>>
  /\ UNCHANGED <<setting, cluster, orig, item, fresh, retries, ignored, lost,
                 bounds>>

Migrate ==
  /\ pc = "migrate"
  /\ \/ /\ migrated' = TRUE
        /\ result' = "ok"
     \/ /\ result' = "failed"
        /\ UNCHANGED migrated
  /\ todo' = Sts
  /\ pc' = "get"
  /\ UNCHANGED <<setting, cluster, orig, item, fresh, retries, ignored, lost,
                 bounds>>

(***************************************************************************)
(* scaleBack: Get and Update of every StatefulSet recorded, in an order    *)
(* that Go leaves open.  An error of Get ends the process.                 *)
(***************************************************************************)

\* Faulty: the copies of the List are used again.
GetNothing(s) ==
  /\ pc = "get"
  /\ s \in todo
  /\ item' = s
  /\ pc' = "put"
  /\ UNCHANGED <<setting, cluster, orig, todo, fresh, retries, result, migrated,
                 ignored, lost, bounds>>

GetStatefulSet(s) ==
  /\ pc = "get"
  /\ s \in todo
  /\ \/ /\ s \in granted
        /\ item' = s
        /\ fresh' = {s}
        /\ pc' = "put"
        /\ UNCHANGED lost
     \/ /\ s \notin granted
        /\ pc' = "failed"
        /\ lost' = lost \cup Unreturned
        /\ UNCHANGED <<item, fresh>>
  /\ UNCHANGED <<setting, cluster, orig, todo, retries, result, migrated,
                 ignored, bounds>>

\* Faulty: one replica for everyone.
ScaleBackToOne ==
  /\ pc = "put"
  /\ SetReplicas(item, 1)
  /\ todo' = todo \ {item}
  /\ pc' = IF todo' = {} THEN result ELSE "get"
  /\ UNCHANGED <<setting, status, pods, orig, item, retries, result, migrated,
                 lost, attempts, evictions, kills>>

ScaleBack ==
  /\ pc = "put"
  /\ SetReplicas(item, orig[item])
  /\ todo' = todo \ {item}
  /\ pc' = IF todo' = {} THEN result ELSE "get"
  /\ lost' = lost \cup (ignored' \ ignored)
  /\ UNCHANGED <<setting, status, pods, orig, item, retries, result, migrated,
                 attempts, evictions, kills>>
-------------------------------------------------------------------------------
\* A List or Get fails: the process exits, wherever it is.
ReadError ==
  /\ pc \in {"list", "available", "gone", "get"}
  /\ errors < MaxErrors
  /\ errors' = errors + 1
  /\ pc' = "failed"
  /\ lost' = lost \cup Unreturned
  /\ UNCHANGED <<setting, cluster, orig, todo, item, fresh, retries, result,
                 migrated, ignored, attempts, evictions, kills>>

\* The pod of the Job is taken away, perhaps after mas-cli has committed.
Kill ==
  /\ pc \in Running
  /\ kills < MaxKills
  /\ kills' = kills + 1
  /\ pc' = "killed"
  /\ lost' = lost \cup Unreturned
  /\ \/ UNCHANGED migrated
     \/ pc = "migrate" /\ migrated' = TRUE
  /\ UNCHANGED <<setting, cluster, orig, todo, item, fresh, retries, result,
                 ignored, attempts, errors, evictions>>
-------------------------------------------------------------------------------
Controller(s) ==
  CreatePod(s) \/ PodReady(s) \/ StopPod(s) \/ PodGone(s) \/ Report(s)

Process ==
  \/ ListStatefulSets
  \/ \E s \in Sts : ScaleDown(s)
  \/ AwaitUnavailable
  \/ AwaitGone
  \/ Migrate
  \/ \E s \in Sts : GetStatefulSet(s)
  \/ ScaleBack

Next ==
  \/ \E s \in Sts :
       \/ CreatePod(s)
       \/ PodReady(s)
       \/ StopPod(s)
       \/ PodGone(s)
       \/ Report(s)
       \/ Evict(s)
       \/ ScaleDown(s)
       \/ GetStatefulSet(s)
  \/ Begin
  \/ ListStatefulSets
  \/ AwaitUnavailable
  \/ AwaitGone
  \/ Migrate
  \/ ScaleBack
  \/ ReadError
  \/ Kill

Spec == Init /\ [][Next]_vars

(***************************************************************************)
(* The controller reconciles every StatefulSet, pods that are told to stop *)
(* do, a Synapse that is started becomes ready, and the process runs on;   *)
(* mas-cli ends.  An operator need not try again.                          *)
(***************************************************************************)
Fairness ==
  /\ \A s \in Sts : /\ WF_vars(CreatePod(s))
                    /\ WF_vars(PodReady(s))
                    /\ WF_vars(StopPod(s))
                    /\ WF_vars(PodGone(s))
                    /\ WF_vars(Report(s))
  /\ WF_vars(Process)

FairSpec == Spec /\ Fairness
-------------------------------------------------------------------------------
(***************************************************************************)
(* Properties                                                              *)
(***************************************************************************)

\* The type of every variable.
TypeOK ==
  /\ scale \in [Sts -> 0..MaxReplicas]
  /\ granted \subseteq Sts
  /\ stray \in BOOLEAN
  /\ spec \in [Sts -> 0..MaxReplicas]
  /\ status \in [Sts -> Pods]
  /\ observed \subseteq Sts
  /\ pods \in [Sts -> Pods]
  /\ \A s \in Sts : Count(s) <= MaxReplicas
  /\ pc \in PC
  /\ orig \in [Sts -> 0..MaxReplicas]
  /\ todo \subseteq Sts
  /\ item \in Sts
  /\ fresh \subseteq Sts
  /\ retries \in 0..MaxRetries
  /\ result \in {"ok", "failed"}
  /\ migrated \in BOOLEAN
  /\ ignored \subseteq Sts
  /\ lost \subseteq Sts
  /\ attempts \in 0..MaxAttempts
  /\ errors \in 0..MaxErrors
  /\ evictions \in 0..MaxEvictions
  /\ kills \in 0..MaxKills

\* While mas-cli may be at work no pod runs, starts or is still stopping in
\* a StatefulSet that the attempt has scaled down, although the process has
\* looked at the status and at the pods only once each, at different times
\* (syn2mas.go: the two loops of scaleDownSynapse).
MigratesAlone ==
  pc = "migrate" =>
    \A s \in Sts \ ignored : spec[s] = 0 /\ Count(s) = 0

\* No StatefulSet ever gets a scale other than zero or the one it was
\* installed with, across attempts that fail half way; and when no attempt
\* is at work, one that is not at the installed scale has been left at zero
\* by an attempt that exited or was killed after it had scaled it down and
\* before it had scaled it back, or whose last Update of it was refused.
\* What an attempt fails to do to one StatefulSet is never found at another.
InstalledUnlessLost ==
  \A s \in Sts :
    /\ spec[s] \in {0, scale[s]}
    /\ pc \notin Running /\ s \notin lost => spec[s] = scale[s]

\* An attempt that goes through scaleBack leaves every StatefulSet at the
\* scale at which it found it, except where an Update failed; and the first
\* attempt finds the scale that the release installed.  Its exit code is that
\* of mas-cli: with 0 the users have been migrated.
ScalesBack ==
  [][pc = "put" /\ pc' \in {"ok", "failed"} =>
       /\ \A s \in Sts \ ignored' :
            /\ spec'[s] = orig[s]
            /\ attempts = 1 => spec'[s] = scale[s]
       /\ pc' = "ok" => migrated']_vars

\* The Job succeeds only when the users have been migrated, whatever has
\* become of earlier attempts and of scaling back.
SuccessMeansMigrated == pc = "ok" => migrated

\* An attempt comes to its end, whatever fails and also with a pod of the
\* component left over, unless it waits in the loop that has no limit for a
\* StatefulSet whose Update it has ignored the error of: it was refused by
\* the Role, it was a conflict or it failed, and the replicas that were to
\* be no more are still asked for.
AttemptEnds ==
  pc = "list" ~>
    \/ pc \in Ended
    \/ pc = "available" /\ \E s \in ignored : spec[s] > 0

\* Once mas-cli has run, the attempt ends and Synapse is available again at
\* the recorded scale, whether the migration has succeeded or failed, unless
\* the Job is killed or the operator is faster with the next attempt.  The
\* exceptions are the StatefulSets of which an Update failed or was refused,
\* and those that the order of Go's map leaves for after a Get that fails,
\* also because the Role does not grant it: there scaleBack ends, and they
\* stay down.
ScaleReturns ==
  \A a \in 1..MaxAttempts :
    pc = "migrate" /\ attempts = a ~>
      \/ pc = "killed" \/ attempts > a
      \/ /\ pc \in {"ok", "failed"}
         /\ \A s \in Sts \ (ignored \cup todo) : status[s].ready = orig[s]

\* docs/syn2mas.md: "The job will downscale Synapse and its workers to 0
\* replicas while the migration runs."
DownWhileMigrating ==
  pc = "migrate" => \A s \in Sts : spec[s] = 0 /\ Count(s) = 0

\* docs/syn2mas.md: "At the end of the migration, Synapse will be scaled
\* back up to its original number of replicas."
BackAtOriginalScale == pc = "ok" => \A s \in Sts : spec[s] = scale[s]

\* The same sentence, of a Job none of whose own calls has failed.
BackUnlessIgnored == ignored = {} => BackAtOriginalScale

\* The first attempt has everything down while mas-cli may be at work if no
\* call fails and nothing is evicted, whatever the Role grants: then no
\* status is written between the List and the Updates that rely on it, and a
\* StatefulSet that the Role does not grant keeps the process waiting.
UndisturbedIsDown ==
  attempts = 1 /\ errors = 0 /\ evictions = 0 => DownWhileMigrating

\* The controller has nothing to do for s, and its status says so.
Rest(s) ==
  /\ s \in observed
  /\ status[s] = pods[s]
  /\ pods[s] = [starting |-> 0, ready |-> spec[s], stopping |-> 0]

Quiet(a, e, v) == attempts = a /\ errors = e /\ evictions = v

\* When the controller has caught up with the last pod before mas-cli ends,
\* an attempt of which no call fails and during which nothing is evicted has
\* everything it has been back to at the recorded scale when it ends,
\* whatever has gone before: no status is left to be written between the Get
\* and the Update of a StatefulSet (syn2mas.go: scaleBack), and what the one
\* before it sets off in the controller does not touch the next.
ReturnsFromRest ==
  \A a \in 1..MaxAttempts, e \in 0..MaxErrors, v \in 0..MaxEvictions :
    [](pc = "migrate" /\ Quiet(a, e, v) /\ (\A s \in Sts : Rest(s))
       => [](Quiet(a, e, v) /\ pc \in {"ok", "failed"} =>
               \A s \in Sts \ todo : spec[s] = orig[s]))
===============================================================================
