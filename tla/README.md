# Element Server Suite Helm chart: TLA+ models and proofs

The repository deploys a Matrix stack on Kubernetes. Most of it is text: Helm
templates that configure other programs. The behaviour of its own is in three
places, and these modules are about them:

- **matrix-tools** (`matrix-tools/`), a Go program with the subcommands
  `deployment-markers`, `generate-secrets`, `syn2mas`, `render-config` and
  `tcpwait`, run in hook Jobs and init containers;
- **the life of a release** (`charts/matrix-stack/templates/`): which hooks
  are rendered for which values, in which order they run, and what they promise
  about the transitions between authentication by Synapse (`legacy_auth`) and by
  Matrix Authentication Service, MAS (`delegated_auth`), and about generated
  credentials;
- **the start of the pods**: the script that sets PostgreSQL up, and the init
  containers that render a configuration and wait for the database.

## 1. Inventory

| component | state | operations | interacts with |
|---|---|---|---|
| deployment-markers (`pkg/marker/marker.go`, `cmd/deployment-markers`) | none of its own; the ConfigMap `<release>-markers` | parse the list; for each marker: Get or Create, check (`pre`) or assign (`post`), Update | the API server; itself, in the pre and post Jobs and in a pod that replaces a terminating one; other users of the cluster |
| generate-secrets (`pkg/secret/*.go`, `cmd/generate-secrets`) | the Secret `<release>-generated` | parse the list; for each request: Get or Create, generate if absent, Update | as above; everything that mounts the Secret |
| init-secrets list (`templates/init-secrets/_helpers.tpl`, `ess-library/_credentials.tpl`) | the values | render the list of requests, and the references to the keys | its types are parsed by generate-secrets, its keys mounted by pods and hooks |
| syn2mas (`pkg/syn2mas/syn2mas.go`) | recorded replicas, retries | List and scale down, await the status, await the pods, run `mas-cli syn2mas migrate`, scale back | StatefulSets and pods, written at the same time by the StatefulSet controller; the database through mas-cli |
| release life cycle (`templates/deployment-markers`, `init-secrets`, `matrix-authentication-service/syn2mas_job.yaml`, `synapse/synapse_check_config_job_hook.yaml`) | the values, the deployed manifests, the marker, where the accounts are, which credentials exist | install, upgrade, uninstall, roll back: each a sequence of hooks and the main phase, the last one without hooks | Helm; Jobs that outlive the upgrade that made them |
| render-config (`pkg/renderer`, `cmd/render-config`) | the merged configuration; the output file, which outlives the container | remove the old output, open the files, for each substitute variables and merge, write | the volumes of ConfigMaps and Secrets, which the kubelet replaces; the main container of Synapse, MAS, Hookshot |
| tcpwait (`pkg/tcpwait`) | none | dial until it succeeds | PostgreSQL |
| PostgreSQL (`templates/postgres/statefulset.yaml`, `configs/postgres/configure-dbs.sh.tpl`) | roles with their passwords, databases | initialise; for each component create or alter the role, create the database; again whenever the updater starts | the generated Secret or the values; the pods of Synapse and MAS |
| command line (`cmd/main.go`, `pkg/args`) | none | parse, dispatch | all of the above |
| HAProxy and Synapse's workers (`configs/synapse/partial-haproxy.cfg.tpl`, `templates/synapse/_synapse_details.tpl`) | map of paths to processes | route a request | Synapse's StatefulSets, MAS |
| Element Web, Element Admin, Hookshot, Matrix RTC, Redis, well-known | manifests | none | - |
| library templates, validation, tests, scripts, workflows | - | - | - |

What is hard about them, with the line where each one bites, is the list
`hazards` of `PROJECT.json`. In short: objects of the API are read, edited as a
copy and written back whole, while other processes do the same; processes are
killed and restarted between any two calls, or lose the reply to a call that was
carried out; errors are ignored in some places; the migration looks at a
cluster that moves under it; upgrades fail half way, Jobs that Helm has
given up on finish later, and a rollback runs no hook at all; the restarts of
all pods of a Job share one limit; pods that need
each other start, crash and are replaced in any order, with nothing but a port
between them.

What makes the components correct:

- *deployment-markers*: no update is lost, the check of `pre` is not stale, `post`
  gets through and leaves no key out, what others manage is left alone;
- *generate-secrets*: a credential is generated once, stays, and is there
  when the hook succeeds;
- *syn2mas*: mas-cli never runs together with Synapse; Synapse comes back at its
  scale; success means migrated;
- *render-config*: the result is the merge of all files; the main container runs
  only on a complete and current result; the pod comes up;
- *start-up*: two runs of one script never make each other fail; waiting for a
  port is waiting for the database; a changed password gets everywhere; the
  component connects in the end;
- *release*: the accounts are in one place, move only from Synapse to MAS, the
  marker tells where they are, and what a manifest refers to exists.

## 2. Modules

| module | what it models |
|---|---|
| `KubeObject` | one ConfigMap or Secret of the API server (external): versions, conditional update, creation, deletion |
| `JobBackoff` | when Kubernetes gives a hook Job up: the restarts of its pods added up (external) |
| `AtomicMarkers` | what deployment-markers promises: each entry of a list is checked or stored in one step (abstract) |
| `DeploymentMarkers` | the processes of the pre and post hook Jobs on one ConfigMap; implements `AtomicMarkers`; extends `KubeObject` and `JobBackoff` |
| `DeploymentMarkersProof` | its theorems, the refinement among them |
| `WriteOnceStore` | what generate-secrets promises: a store each of whose keys is written once (abstract) |
| `GenerateSecrets` | the processes of the init-secrets Job on one Secret; implements `WriteOnceStore`; extends `KubeObject` and `JobBackoff` |
| `GenerateSecretsProof` | its theorems, the refinement among them |
| `Credentials` | what the templates make of the values: the list of requests, and the keys that the manifests refer to |
| `CredentialsProof` | theorems about the templates, for all values |
| `InitSecrets` | that list, run by the processes of `GenerateSecrets` |
| `InitSecretsProof` | what becomes of the hook for given values; extends `GenerateSecretsProof` and `CredentialsProof` |
| `Syn2Mas`, `Syn2MasProof` | the process of the migration Job and the StatefulSet controller; theorems |
| `Documents` | documents, one level of their merge, and a reference that says what the whole merge leaves at a path |
| `RenderConfig`, `RenderConfigProof` | the init container that renders a configuration, with its restarts, over any merge; extends `Documents`; theorems, also about a merge made level by level |
| `DeepMerge` | the merge and the substitution of variables to any depth, by recursion over `Documents` |
| `Startup`, `StartupProof` | PostgreSQL, its script, db-wait and the rotation of a password, composed with the pod of `RenderConfig`; theorems, also of the pod in this composition |
| `Accounts` | what the release promises: accounts settle once and move once (abstract) |
| `Release`, `ReleaseProof` | the life of a release; implements `Accounts`; extends `Credentials`; takes from the other modules the outcomes of the Jobs; theorems |
| `MC...` | the values of the constants for the runs. `MCRenderConfig` puts `DeepMerge` into `Startup` |

### How state and actions correspond to the code

**DeploymentMarkers, GenerateSecrets.** Only calls of the API touch shared
state, so an action is one call and all the local code up to the next one. `pc`
names the call a process is about to make (`get`, `create`, `update`), `copy`
is `existingConfigMap` or `existingSecret`, `at` the position in the loop of
`Run`. `GetFound` is Get and the code after it: the label check, the labels,
`Data`, the check or the assignment (`Edit`). `GetError` is the branch of
`err != nil` that is not NotFound, where the code creates the object all the
same. `Kill` is a killed process and also any other call that fails without
effect, since both end in `os.Exit(1)` before the next call; `CreateLost` and
`UpdateLost` are the calls that took effect although the process never learned
it. `Restart` is `restartPolicy: OnFailure`: a fresh process that starts from the
first entry of the list. Every process is the container of a pod; those with the
same command line are the pods of one Job, which overlap while one is terminating
(`podReplacementPolicy` sees to it that this is rare, not that it cannot be:
a pod on a node that is lost). `GiveUp` is `backoffLimit: 6`: as soon as the
restarts of the Job's pending and running pods, added up (`PastBackoffLimit`),
have reached the limit the Job has failed and its pods are stopped, each at some
later moment (`stopped`). Nothing obliges Kubernetes to be quick about it, so that a
pod may also get through before it is stopped.

Command lines are what a Job or a user may write: for a marker, its key, values
and the number of its fields; for a request, its type and the arguments of its
generator. `ParseArgs` is the parser: it rejects an unknown type, and panics at
a marker of three fields and at a label without an equals sign. A panic and an
error are the same here, the end of the process with a code other than zero. What it does not look at
is found out later, in the middle of the list: a step that is neither `pre` nor
`post` (`Refuses`), a generator without its argument (`Generated`).

Labels are abstracted to ours (one value per version of the chart) and
`Foreign`, which stands for a missing managed-by label and another's: the code
does not tell these two apart. A generated credential is a member of a set of
values; two values are enough to tell "kept" from "generated again". A signing
key is always the same value, as its generator has a constant seed.
The one error of a generator that the code swallows, that of the random number
generator for `rand32` (`secret.go:72`), is left out: with it the
key would stay absent.

**Syn2Mas.** `ListStatefulSets`, `ScaleDown`, `AwaitUnavailable`, `AwaitGone`
are the parts of `scaleDownSynapse`, `Migrate` is mas-cli, `GetStatefulSet` and
`ScaleBack` are the loop of `scaleBack`. `orig` is `stsReplicas`, `fresh` the
StatefulSets whose stored version is the one read, so that an Update outside
`fresh` is a conflict. The controller (`CreatePod`, `PodReady`, `StopPod`,
`PodGone`, `Report`) is external; a StatefulSet replaces a pod only once the old
one is gone. `Report` writes the status whenever it is not that of the pods or not
of the spec: `status` has the pods as the last one has counted them
(`availableReplicas`, `replicas`), and outside `observed` the
`observedGeneration` is behind. So the controller writes also after the last pod has
gone, and after every Update of the process, at any later moment: both may fall between
a Get and an Update of the process and make this Update a conflict. `lost` is a history
variable: the StatefulSets that an attempt has scaled down and, at its end, not
scaled back (`Unreturned`). The loop of `scaleDownSynapse` takes the
StatefulSets in any order, as that of `scaleBack` does in Go. `stray` is a pod
with the component label of Synapse that belongs to no StatefulSet and did not
succeed, which the configuration check leaves when it fails. `granted` is the
Role of the Job, which names the StatefulSets of the *new* values. An attempt is
one Job (`backoffLimit: 0`, `restartPolicy: Never`); an operator may make another.

**Documents, DeepMerge, RenderConfig.** A document is a function of its keys, a
value a map, a list, a scalar, or a scalar that is a variable. `MergeLevel` is one
call of `deepMergeMaps`, with the call for the maps below as a parameter;
`DeepMerge` is what the whole recursion leaves in `destination`. The reference
`IsMergeAt` does not
merge: it says for a path which of the documents have a say (those that have
the path and that no later one cuts off) and what the last of them, or the lists
at their end, make of it; `Paths` are the paths looked at. `RenderConfig` has the merge, the substitution and the
variables of a document as constants (`Merge`, `Substitute`, `VariablesOf`,
`Empty`), so that its theorems hold for any; the run gives them the operators of
`DeepMerge`. `Stat` is the removal of an old output, `Open` a turn of
the loop of `readFiles`, `Render` a turn of that of `RenderConfig`, `Write` the
marshalling and `os.WriteFile`. A killed or failed write leaves a part of the file
(`Partial`), and with mode 0440 nobody writes it again. `opened` holds contents:
the kubelet replaces a mounted file by another one, and whoever has opened the old
one reads it to the end. `Renders` joins the ways in which a file does not
render: a variable that is not set, a template whose secret cannot be read, a text
that is no YAML. Restarts of a container in the pod and of the whole sandbox keep the
volume `rendered-config`; a new pod starts with an empty one, which is `Init`.
What is abstracted: a variable stands for a whole scalar and its value holds no
reference to another variable; the text of YAML and of templates; all
the variables of a file are read in the step in which it is merged.

**Startup.** `server` is `init` while the entrypoint of the image runs the script
on a server that listens on a socket only, and `up` once the port is open. `at`
is the position in `configure-dbs.sh` of each of its two runs: that of the
entrypoint, through `/docker-entrypoint-initdb.d`, and that of the container
`postgres-ess-updater`, which loops on `pg_isready` first (`wait`). One action
is one statement against the server or one `cat`: `SelectRole` and `AlterRole`
are joined by `&&`, `CreateRole` follows by `||`, so that an `ALTER` that fails leads to
a `CREATE`; `set -e` ends the script at one that fails (`aborted`), but not at
the `cat`, whose status `export` hides. `Reaches` is `PGHOST` of the updater
against the socket of the entrypoint. An updater whose script has aborted
sleeps like one whose script has not; `RestartUpdater` is its livenessProbe,
which asks the server. `RenderPassword` is `Render` of `RenderConfig` and
says which password has got into the configuration; `WaitForTCP` is db-wait,
an init container, so that `waited` is lost with the sandbox.
`hashed` says that the password is in the values: then a change comes
with new labels and both pods are replaced (`Rehash`, `stale`), independently of each
other; otherwise it is the content of a Secret and changes under the pods
(`Remount`). Other components' parts of the script are in it as a failure that may
come before (`ReadPassword`).

**Release.** An upgrade runs through `phase` in the order of the hooks:
pre-markers (-10), init-secrets (-10, after it by name), migration (0),
check-config (0, after it by name), the main phase, the dry run of the migration
(0), post-markers (10). The migration, the markers and the generation are single
actions with the outcomes that `Syn2Mas`, `DeploymentMarkers` and
`GenerateSecrets` show. A Job that
exceeds Helm's timeout goes on (`lateMarker`, `lateMigration`) until an upgrade
replaces it. `history` holds the revisions that Helm keeps, deployed or failed
(`Keep`; `MaxHistory` is Helm's limit, counted in revisions that differ), and
`Rollback` applies the manifests of any of them, with no hook, and may fail before
or after that. `home`, `bound` and `careless` are history
variables: where accounts have been made or moved to, the mode of an upgrade
that has failed after it had changed something, and whether the operator has ever
asked for an upgrade or a rollback to another mode than `bound` (`Finishes`), or for
a rollback to a mode that the marker does not admit (`Admits`, the comparison that
the hook would have made). The operator is free to do so: `careless` disables no
action, the properties name it as their exception. `serving` is the mode the
deployed Synapse has. One generated credential is followed, whichever:
`generated` says that the Secret has it, `refers` whether a deployed manifest
mounts it, and then whether the init-secrets hook of the upgrade that brought
the manifest has succeeded (`made`) or not (`unmade`). `KnownTypes` are the types of the image's matrix-tools; the runs
include `extra`, as if finding 4 were repaired, since without it no release
with Synapse gets beyond its first hook.

History and bookkeeping variables elsewhere: `ignored` and `attempts` in `Syn2Mas`,
`faults`, `admin`, `changes` and `crashes` in the others.

## 3. Runs

| run | shows |
|---|---|
| `markers_safety` | two processes with any of seven command lines (pre and post, one and two markers, two chart versions, and three malformed ones), three initial clusters, one fault, one restart, one intervention: no lost update, no stale check, others' objects left alone, no key of a post list left out, every entry atomic (`AtomicMarkers`) |
| `markers_liveness` | backoffLimit 6 over the pods of a Job, four faults, competing processes: post completes and its Job is not given up with up to three of the faults, and no restart of it is without a fault or a change that pays for it |
| `secrets_safety` | as the first, for generate-secrets: credentials are write-once and present when the hook has succeeded; a generator that lacks an argument and an unknown type included |
| `secrets_liveness` | backoffLimit 6 over a pod and its replacement, three faults: with up to two of them the list of two keys is generated and the Job not given up; no restart is without a fault or a change that pays for it |
| `syn2mas_safety` | main process and worker, two attempts, one failed call, one eviction, one kill, with and without a stray pod, with and without the worker in the Role: what the migration keeps to whatever happens, which StatefulSets may be left at zero (`InstalledUnlessLost`), and that the first attempt has everything down as long as no call fails and no pod is evicted (`UndisturbedIsDown`) |
| `syn2mas_liveness` | one attempt with a failed call, an eviction and a kill, granted or not, with and without a stray pod: it ends or waits for what it has ignored the error of, Synapse comes back except where a call failed or was refused, and wholly so from a cluster at rest (`ReturnsFromRest`) |
| `render_config` | any files, with a database in service: the result is the reference merge, complete and current when the main container starts, and the pod comes up. One set of files, started together with PostgreSQL: the script runs through, the wait suffices, a changed password gets into the role and into the configuration, the component connects |
| `release` | the 16 combinations of the values that decide the mode, upgrades without bound, with the credentials generated, and two more with all of them provided, rollbacks to any of two kept revisions, failures anywhere, late Jobs, an operator who is free: what holds until the first careless step, and, whatever the operator does, that no manifest and no hook refers to a credential that is not there, with the exception that a rollback makes none |
| `syn2mas_conflict` | **violated**: mas-cli runs although a StatefulSet was not scaled down |
| `syn2mas_scale_lost` | **violated**: a migration none of whose own calls has failed ends with success and Synapse at zero, after an attempt that did not |
| `release_lost_post` | **violated**: MAS can be disabled after it has been enabled |
| `init_secrets_extra` | **violated**: the hook does not generate what the chart asks for |

`MigratesAlone` and `ScalesBack` except the StatefulSets of which the process
has ignored an error; `syn2mas_conflict` shows what the exception costs.
`ScalesBack` speaks of the scale the *attempt* found; `syn2mas_scale_lost` shows
the difference from the scale the release installed.

**Bounds and why they are enough.** Two processes: every
interference is between a copy and a write by somebody else, and the somebody
is one process or the administrator. Two keys and two values: the property is
about a key that a process is not handling. One fault and one restart for safety: a
fault in either process at any call; the liveness runs have more. The restarts of a
container are bounded by `MaxRestarts`, in the liveness runs by six, the limit of the whole
Job: a container that has been restarted so often has used its Job up by itself. The
budget of a Job (`WithinBudget`) is what its limit outlasts in
the worst interleaving of conflicts between its pods: the faults, two restarts of every
pod but one for a post list of the chart, and one more than the length of the list for
generate-secrets. With two pods that is three faults for the markers, two for a list
of two keys. The runs have one fault more than the budget, so that Jobs are given up in
them. In the safety runs the limit is one, so that a Job is given up at once, or a
little later. `Syn2Mas`: two StatefulSets for "one of several"; one retry, so that
the retries can run out and not run out; two attempts, so that the second finds
what the first has left; one replica each, since the code never counts them. The
liveness run has one attempt, with a failed call, an eviction and a kill; a second attempt
is in the safety run only, where it finds whatever the first has left. `RenderConfig`: three files, since it takes a third for a map
to come back after a scalar has cut it off and for lists to be appended to an
appended list; values three maps deep, two keys of which one is an
overwritten array, at every depth, and all paths of up to four keys, one more than
the deepest document has; two faults, so that a run can find the part of a
file that another has left and fail to remove it. `Startup`: its scenario has one
set of files and no fault of the init container, so that the product with
PostgreSQL stays small; one crash of the server at any step of either run of the
script (`MaxCrashes`), and one change of the password (`MaxChanges`), which is
what it takes for a pod to hold the earlier one. `Release` bounds the different
revisions that Helm keeps: with two, a revision to return to, deployed or failed, stays
while another one is deployed. Of the components only those that take part in the
migration vary, and the credential that is followed is one that an upgrade may be
the first to ask for; the theorem `CredentialsPresent` is for all values, all keys and any
`MaxHistory`.

**Fairness.** A process that can call calls, the kubelet starts a container and
starts it again, the StatefulSet controller reconciles, a pod told to stop stops,
a started Synapse becomes ready, mas-cli ends. The init container of `RenderConfig` is
restarted without limit (`restartPolicy: Always` of the pod) and runs on (`WF` of its
steps together: one of them is enabled at a time). In `Startup` also the server
starts, each run of the script and db-wait go on, and the controllers replace the
pods that are to be replaced; the restart of the updater by its probe is *not*
among it, since a server that is soon back is not noticed. These are the promises of
Kubernetes (and of mas-cli and PostgreSQL), not of this code. No fault, eviction,
kill, crash, intervention or further attempt is ever obliged to happen.

The liveness properties say where they stop. `PostCompletes` and
`GenerationCompletes` stop with the budget of the Job. `AttemptEnds` excepts an attempt
that waits in the loop at `syn2mas.go:44`, which has no limit, for a
StatefulSet that still asks for replicas because the Update at line 39 was refused by
the Role, was a conflict or failed, an error the code ignores. `ScaleReturns` excepts the
StatefulSets of which an Update failed in the same way and those that `scaleBack`
has not come to because a Get before failed, an attempt that is killed, and an operator
who is faster with the next one. `MainConnects` excepts an updater
whose script a crash has aborted and that nobody starts again, and a password
that changes in a Secret of which the pods carry no hash: after it role,
configuration and Secret may differ for good.

**Deadlock** is not checked: every run but `release` ends when all processes
have, and `release` cannot stop.

## 4. Findings

1. `syn2mas.go:39`: the error of the Update that scales down is ignored. An
   eviction as the Job starts makes it a conflict, and the migration goes on
   beside a StatefulSet that starts its pod again (`syn2mas_conflict`). As long as no
   call fails and nothing is evicted it does not happen: `UndisturbedAttempt`, and
   `FirstAttemptIsDown` for the first attempt on an installation at rest.
2. `syn2mas.go:104`: when the pods do not go in time the process exits with
   Synapse at zero; the next attempt takes zero for the original scale
   (`syn2mas_scale_lost`). Synapse stays at zero after the successful Job, until the
   main phase of the upgrade, if it is reached, sets the replicas again. That
   between attempts only such a StatefulSet is at zero is the theorem `InstalledOrLost`.
3. The marker is written by the last hook. An installation that fails after the
   main phase has no marker, and any later upgrade passes the pre check
   (`release_lost_post`). As long as the operator stays with the
   mode of the failed upgrade until one succeeds and rolls back to no mode that the
   marker does not admit (`careless` is false) it does not happen; the theorems
   are `CarefulDoesNotDisable` and `CarefulStaysDelegated`. For any operator who makes
   no rollback, one upgrade with MAS that succeeds is enough
   (`SuccessStaysDelegated`).
4. `init-secrets/_helpers.tpl:53` asks for `SYNAPSE_EXTRA:extra`, a type that
   `parseSecretType` refuses (`init_secrets_extra`; for all values with Synapse,
   the theorem `SynapseTurnsDown`).

Two more have no run of their own; they are the exceptions that properties of passing runs
make, without which TLC refutes these:

5. `syn2mas.go:124`: the error of the Update that scales back is ignored as well. The
   controller writes the status once more when the last pod has gone, and nobody waits
   for that; between the Get and the Update of a StatefulSet it makes the Update a
   conflict, and the Job succeeds with Synapse at zero, in its first attempt and with no
   failed call and no eviction, until the
   main phase of the upgrade sets the replicas again. mas-cli has to be faster than the
   controller for this: the condition of `ReturnsFromRest`. When it is not, and no call fails and nothing is evicted
   from then on, every scale is restored: `EverythingReturnsFromRest`.
6. `deployment-markers/job.yaml:17`: the hooks are of install and upgrade only. A `helm
   rollback` compares no marker and stores none, so that the way back to
   `legacy_auth`, which the documentation says is closed (`docs/syn2mas.md:21,27`), is open: the rollback that makes
   the operator `careless` in the run `release`; users whom MAS has are then authenticated by Synapse, while the
   marker says `delegated_auth`. Nor does it run init-secrets: the manifests of an upgrade
   that failed in that hook or before may refer to credentials that nobody has made, the
   exception in `CredentialsArePresent`.

## 5. Proofs

TLAPS checks eight modules of theorems. Each holds for every value of the
constants that the assumption of its module admits (`ObjectAssumption`,
`MarkersAssumption`, `SecretsAssumption`, `Syn2MasAssumption`,
`RenderConfigAssumption`, `StartupAssumption`, `ReleaseAssumption`,
`BackoffAssumption`): the
constants have their types, no list is empty, a Secret that does not exist has
no data, and the values that stand for "none" are not among the others.

- `DeploymentMarkersProof`: `TypeCorrect`, `CopiesAreCurrent`, `NoLostUpdate`,
  `PreCheckIsNotStale`, `ForeignUntouched`, `PostIsComplete`,
  `EntriesAreAtomic` (the refinement of `AtomicMarkers`), `RestartsPaid`,
  `RestartsAreCounted`, `ChartJobNeverGivesUp`;
- `GenerateSecretsProof`: `TypeCorrect`, `CopiesAreCurrent`, `GeneratedStays`,
  `SecretIsWriteOnce` (the refinement of `WriteOnceStore`), `RestartsPaid`,
  `RestartsAreCounted`, `JobNeverGivesUp`, `ShortListNeverGivesUp`.

  The argument is the same in both. `CopyIsCurrent` says that a copy the server
  would accept is what the code makes of the object *as it is now*. By itself it
  is not inductive: a step that gives the object a new version might give it the
  version of some older copy. `VersionsGrow` excludes that, since copies only
  hold versions the object has had and every change goes to a higher one. The
  inductive invariant is `TypeOK /\ VersionsGrow /\ CopyIsCurrent`
  (for `GeneratedStays` together with the property itself); each action then
  either does not touch the object, or is an accepted update, whose effect
  `CopyIsCurrent` gives, or is a creation or deletion. The action properties and
  the steps of the refinements are one case per action from that invariant. In
  `EntriesAreAtomic` an entry takes effect when its update is accepted; by
  `CopyIsCurrent` it then makes of the markers what a check or an assignment in one
  step makes of them, an update whose reply is lost is an assignment that is made
  again, and everything else that a process does is not seen.

  `RestartsPaid` is the safety half of `PostCompletes`, and of
  `GenerationCompletes` for a list whose types are known and whose generators have
  what they need (`Works`). A post step checks no value, and generate-secrets takes
  a value that is there as it is, so each only fails when a fault hits it or when
  the object has got a new version since it was read. The invariant `Account` says
  how many restarts the faults and versions so far have paid for (`Paid`), for a
  process that is sure to fail one more (`Owes`), and for one with a copy counts
  the versions up to that of the copy. It takes `VersionsGrow`: a copy
  that is refused is an *older* version. `PaidFrom(n)` counts from any version at
  which a behaviour may begin. `ChartJobNeverGivesUp` draws the conclusion for the
  pods of one Job of the chart, any number of which overlap and whose restarts are
  added up. Counted from the first version they make at most two, since an update of a
  ConfigMap that is `Settled` is the ConfigMap itself (`Versions`). Each of these costs
  every pod but the one that makes it a restart, never that one: so the account that is
  kept is one of all pods together (`SharedAccount`: the sum of the restarts and of
  those that are owed is at most the faults and, for each version, the pods but one), and
  it is below the limit within the budget (`BudgetSuffices`). TLC finds a Job that is
  given up when there is one fault more.

  For generate-secrets an update of the Job's own Secret is either the first
  labelling of it or gives a key a value that it lacked. So no pod can take the
  Secret to a version above `Ceiling`: the present one, plus the keys of the list
  that lack a value, plus one if the labels are still to be set. `Ceiling` never
  rises (`CeilingStays`), a lacking key being a member of a finite set that an update
  makes smaller by one. With m keys lacking at the start, m + 1 versions are made,
  and `JobNeverGivesUp` follows from the same account: a limit above the faults
  and m + 1 restarts of every pod but one is enough. `ShortListNeverGivesUp` takes the
  length of the list for m. TLC confirms the bound on the list of two keys
  and refutes a smaller one. An upgrade that finds the Secret complete needs one
  restart of each further pod; a first installation with more than four keys leaves
  no room in a limit of six for a pod that overlaps, and then nothing is promised.

- `Syn2MasProof`: `TypeCorrect`, `MigrationIsAlone`, `InstalledOrLost`,
  `OkMeansMigrated`, `EverythingScalesBack`, `UndisturbedAttempt`,
  `FirstAttemptIsDown`, `EverythingReturnsFromRest`. The process never sees all
  StatefulSets at once. So the invariant says what its loops have achieved for
  those they have behind them (`Down`, `Back`), what has been recorded
  (`Recorded`, `First`), and that the controller, which also moves pods in
  between, creates none for a StatefulSet that asks for none. The last three theorems
  say under which condition the documentation is right. An attempt that begins with the
  StatefulSets at rest (`UndisturbedAttempt` takes any moment for its beginning, not
  the first state alone) has read what the server stores: the controller only writes a
  status after a pod or the spec has changed, and a pod only changes after a spec has, an
  eviction or a failed call being a step that is counted. So each Update of
  scaling down is of a fresh copy and none is a conflict. The one error that is still
  ignored is that of a StatefulSet that the Role withholds (`Kept`), and for that one the
  attempt waits. For scaling back the same argument needs the controller at rest once more,
  which the code does not wait for (finding 5): `EverythingReturnsFromRest` starts
  from a moment of the migration when it is (`Rest`). What the Update of one StatefulSet
  then sets off in the controller concerns none that is still to come.
- `RenderConfigProof`: `TypeCorrect`, `WholeConfig`, `MountedConfig`, for any
  merge. `Progress` ties what is in memory and in the file to where the
  container is; `Current` compares what was opened and read at different
  moments with what is mounted now.

  `MergesAsDocumented` and `OverridesHaveTheLastWord` are about the merge itself, for
  documents of any depth, paths of any length and any number of files. They assume
  `MergesDocuments`: there is a set `Document` that has the empty document, is closed
  under going down into a map and under `Merge`, and has every file that renders, and on
  it `Merge` is one level of a merge whose maps are merged by `Merge`. Of the
  configurations of YAML this set is that of all documents; the last condition is the
  definition of `DeepMerge`, read as an equation. It is
  all that the proof knows of the recursion, which the provers cannot unfold. The argument
  has two inductions, both over a set of numbers with no gap (`Induction`, from the
  theorems about finite sets: a gap would inject a finite set into a smaller one).
  Along the path: what the merge of two documents has under i keys is what
  `Laid` makes of what the two have there, with the overwritten keys known at
  the first key only and with the places above at which the new document cuts the path
  (`MergeAlong`, `MergeOfTwo`). Over the files: one more document adds
  itself to the writers, or cuts all of them off, and extends the list
  that those at the end append (`OneMoreWriter`, `OneMorePart`, `OneMoreDocument`). The
  invariant `MergedSoFar` says of *every* state, after restarts too, that the output is
  the merge of what has been read. `OverridesPrevail` draws the conclusion for
  which the chart puts its overrides last.
- `StartupProof`: `StartupTypeCorrect`, `ScriptSucceeds`, `EntrypointSucceeds`,
  `WaitSuffices`, `PasswordReachesBothEnds`. The server keeps the two runs of the script
  apart (`Boot`), so that what a run has found out still holds when it acts on
  it, unless the server has crashed (`Undisturbed`), and what it has done stays
  done (`Achieved`, `Told`). `EntrypointSucceeds` justifies that `Startup` has no
  action for an entrypoint whose script has failed: there is none.
  `PasswordReachesBothEnds` joins the two sides of a rotation of a password in the
  values: the role, by `Told`, and the configuration on which the new pod runs.
  `PodTypeCorrect`, `PodHasWholeConfig` and `PodHasMountedConfig` are the theorems of
  `RenderConfigProof` for the pod in this composition, whose next-state relation has
  steps of its own (db-wait, rotation, replacement of the pod): the invariant is the
  same, each further step keeps it. So is `PodMergesAsDocumented`.
- `CredentialsProof`: `ReferencesAreRequested` (the keys the templates
  refer to and those the list requests are the same, but for `SYNAPSE_EXTRA` when it is
  provided), `TypesOfTheList`, `ArgumentsOfTheList`, for all values of the
  chart that it renders. The list is built by appending; the lemmas say what
  one conditional request adds to the keys and types (`OneRequest`).
- `InitSecretsProof`: what `GenerateSecrets` makes of that list.
  `SynapseTurnsDown`: with Synapse in the values no process gets beyond the parsing
  of its command line (finding 4). `HookProvides`: a hook that is done
  has left every key that a manifest refers to in the Secret; as the code is, this
  is of use without Synapse only. `OthersNeverFail`: without Synapse the hook does
  not fail unless something disturbs it, and `OthersArePaidFor` says what, beside
  other pods of the hook, by `RestartsPaid`. Their assumptions are that the size and
  the template that the list names are among those the generators know.
- `ReleaseProof`: `TypeCorrect`, `CredentialsPresent`; until the first careless step
  `MarkerTrue`, `LegacyInWindow`, `MarkerStays`,
  `AccountsMoveOnce` (the refinement of `Accounts`), `CarefulDoesNotDisable`,
  `CarefulStaysDelegated`; and without rollbacks, for any operator,
  `SuccessStaysDelegated`. `CredentialsPresent` rests
  on `ReferencesAreRequested` and holds for any operator: the revisions in `history`
  that got through their init-secrets hook refer to nothing that was not made
  (`Present`, `HistoryStep`), and the generated Secret loses nothing. The others rest on
  `CarefulInv`: between two upgrades either the marker tells where the accounts
  are, or an upgrade is left to be finished whose mode does (`Markers`,
  `Unfinished`), and during an upgrade each phase has what the hooks before
  it have established (`Upgrading`). A rollback to a mode that the marker admits and
  that leaves nothing half way keeps both. After a careless step they are false: `release_lost_post`, and the rollback
  of finding 6.

Only model-checked: liveness and with it fairness (`PostCompletes`,
`GenerationCompletes`, `AttemptEnds`, `ScaleReturns`, `PodStarts`,
`MainConnects`), which are out of the prover's reach; and that the recursive
operators `Substituted` and `DeepMerge` give documents, which the theorems about the
merge assume and no theorem can say of a recursive operator. Every other property
of a passing run is stated by a theorem; `StartupTypeOK` and `SuccessMeansMigrated` by a
theorem alone (of the second `ScalesBack` has what matters). The four violated properties are
refuted by their runs.

## 6. Not modelled

- Manifests that only configure other programs (Element Web, Element Admin,
  Hookshot, Matrix RTC, Redis, well-known), library templates, the wording of
  logs; the Python tests, scripts and workflows.
- The routing of requests by HAProxy: a stateless table of regular expressions
  whose reference is Synapse's documentation, outside the repository.
- Of the command line, the parsers of `syn2mas`, `render-config` and `tcpwait`,
  which return what their command line says.
- In `Release`: the deletion of a hook Job by Helm is one step with
  the creation of the next; the main phase applies everything or nothing that
  matters to the mode; the hooks that create configuration objects for other
  hooks; markers and the init-secrets hook are enabled throughout
  (`deploymentMarkers.enabled`, `initSecrets.enabled`); credentials of a
  Secret that an administrator edits (`GenerateSecrets` has that).
- In `Startup`: the admin password, the exporter, the parts of the script for
  further components, a volume that is lost or damaged by a crash.
- In `RenderConfig`: values of variables that hold references to other variables
  (`renderer.go:131`), which needs texts instead of trees.

To repeat the checks, in this directory: `tlc -config X.cfg MC...` for the pairs
that `PROJECT.json` lists under `runs`, and `tlapm` on the eight proof modules.
