---------------------------- MODULE GenerateSecrets ---------------------------
(***************************************************************************)
(* matrix-tools generate-secrets: the process of the init-secrets hook     *)
(* Job, which fills the Secret <release>-generated with the credentials    *)
(* that the values of the release do not provide.                          *)
(*                                                                         *)
(* A process parses its command line, a list of keys with the type of the  *)
(* credential to generate, and then runs GenerateSecret                    *)
(* (pkg/secret/secret.go) for each: Get, or Create when Get fails, the     *)
(* generation of a value for a key that is absent, and Update.  An action  *)
(* is one call of the API and the local code that follows it.              *)
(*                                                                         *)
(* As with DeploymentMarkers, processes overlap when the Job replaces a    *)
(* terminating pod, may be killed between any two calls, lose replies, and *)
(* are restarted until the Job is given up.                                *)
(***************************************************************************)
EXTENDS KubeObject, JobBackoff, Sequences

CONSTANTS
  Jobs,            \* the command lines: labels and a list of requests;
                   \* processes with one command line are those of the pods
                   \* of one Job
  Sizes,           \* the arguments that are a size rsa.GenerateKey takes
  Templates,       \* the arguments that are a registration file in the pod
  SeededKey,       \* the signing key: its source of random numbers always
                   \* starts from the seed 0
  InitialObjects,  \* the Secrets the cluster may hold at the start
  MaxFaults,       \* bound on kills, failed calls and lost replies
  MaxAdmin         \* bound on deletions and creations by others

\* The types that parseSecretType knows.
SecretTypes ==
  {"rand32", "signingkey", "hex32", "rsa", "ecdsaprime256v1", "registration"}

\* args: what follows the type, the arguments of the generator.  A request
\* of fewer than three fields has the type "".
Request == [key : Keys, type : STRING, args : Seq(STRING)]

ASSUME SecretsAssumption ==
  /\ SeededKey \in Values
  /\ \A j \in Jobs : /\ j.labels \in Labels
                     /\ j.labelsParse \in BOOLEAN
                     /\ j.requests \in Seq(Request)
                     /\ j.requests # << >>
  /\ InitialObjects \subseteq {o \in Object : o.exists \/ o.data = NoData}
  /\ MaxFaults \in Nat
  /\ MaxAdmin \in Nat

VARIABLES
  secret,     \* the Secret in the cluster
  pc,         \* where a process is: the call it is about to make
  job,        \* the command line of a process
  at,         \* the position in the list of the request being handled
  copy,       \* existingSecret: the local copy that Update will send
  restarts,   \* how often the container was restarted
  faults,     \* faults so far
  admin       \* changes by others so far

vars == <<secret, pc, job, at, copy, restarts, faults, admin>>

PC      == {"idle", "get", "create", "update", "failed", "done", "stopped"}
Running == {"get", "create", "update"}

Current(p) == job[p].requests[at[p]]

Init ==
  /\ secret \in InitialObjects
  /\ pc = [p \in Procs |-> "idle"]
  /\ job \in [Procs -> Jobs]
  /\ at = [p \in Procs |-> 1]
  /\ copy = [p \in Procs |-> Removed(secret)]
  /\ restarts = [p \in Procs |-> 0]
  /\ faults = 0
  /\ admin = 0
-------------------------------------------------------------------------------
Goto(p, l) == pc' = [pc EXCEPT ![p] = l]

\* One type that is unknown, or a label without an equals sign (an index out
\* of range), and nothing is generated at all.
ParseArgs(j) ==
  /\ j.labelsParse
  /\ \A i \in DOMAIN j.requests : j.requests[i].type \in SecretTypes

\* The arguments are looked at only now: one that is missing is an index out
\* of range, and ends the process as a bad one does.
RSAWorks(args) ==
  Len(args) > 1 /\ args[1] \in Sizes /\ args[2] \in {"pem", "der"}

RegistrationWorks(args) == Len(args) > 0 /\ args[1] \in Templates

\* The values a generator may come up with, none when it fails.  Of the
\* others none does: the system's random numbers are always to be had.
Generated(r) ==
  CASE r.type = "signingkey"   -> {SeededKey}
    [] r.type = "rsa"          -> IF RSAWorks(r.args) THEN Values ELSE {}
    [] r.type = "registration" -> IF RegistrationWorks(r.args) THEN Values ELSE {}
    [] OTHER                   -> Values

Generates(r) == Generated(r) # {}

\* What Update will send: our labels, and a value for the key if it has none.
Prepared(labels, obj, data) ==
  [exists |-> obj.exists, labels |-> labels, data |-> data, rv |-> obj.rv]

\* Faulty: a key that has its value is taken for a failure.
EditOnce(p, obj) ==
  LET r == Current(p) IN
  \/ /\ obj.data[r.key] = None
     /\ \E v \in Generated(r) :
          copy' = [copy EXCEPT ![p] =
            Prepared(job[p].labels, obj, [obj.data EXCEPT ![r.key] = v])]
     /\ Goto(p, "update")
  \/ /\ obj.data[r.key] # None \/ ~ Generates(r)
     /\ Goto(p, "failed")
     /\ UNCHANGED copy

Edit(p, obj) ==
  LET r == Current(p) IN
  \/ /\ obj.data[r.key] # None
     /\ copy' = [copy EXCEPT ![p] = Prepared(job[p].labels, obj, obj.data)]
     /\ Goto(p, "update")
  \/ /\ obj.data[r.key] = None
     /\ \E v \in Generated(r) :
          copy' = [copy EXCEPT ![p] =
            Prepared(job[p].labels, obj, [obj.data EXCEPT ![r.key] = v])]
     /\ Goto(p, "update")
  \/ /\ obj.data[r.key] = None
     /\ ~ Generates(r)
     /\ Goto(p, "failed")
     /\ UNCHANGED copy
-------------------------------------------------------------------------------
\* The process starts by parsing its command line.
Start(p) ==
  /\ pc[p] = "idle"
  /\ Goto(p, IF ParseArgs(job[p]) THEN "get" ELSE "failed")
  /\ UNCHANGED <<secret, job, at, copy, restarts, faults, admin>>

\* Any error of Get leads to Create; NotFound is the one that is no fault.
GetNotFound(p) ==
  /\ pc[p] = "get"
  /\ ~ secret.exists
  /\ Goto(p, "create")
  /\ UNCHANGED <<secret, job, at, copy, restarts, faults, admin>>

\* Faulty: nobody looks at the labels.
GetFoundAnyLabel(p) ==
  /\ pc[p] = "get"
  /\ secret.exists
  /\ Edit(p, secret)
  /\ UNCHANGED <<secret, job, at, restarts, faults, admin>>

GetFound(p) ==
  /\ pc[p] = "get"
  /\ secret.exists
  /\ \/ /\ secret.labels = Foreign
        /\ Goto(p, "failed")
        /\ UNCHANGED copy
     \/ /\ secret.labels # Foreign
        /\ Edit(p, secret)
  /\ UNCHANGED <<secret, job, at, restarts, faults, admin>>

Create(p) ==
  /\ pc[p] = "create"
  /\ \/ /\ secret.exists
        /\ Goto(p, "failed")
        /\ UNCHANGED <<secret, copy>>
     \/ /\ ~ secret.exists
        /\ secret' = Created(secret, job[p].labels, NoData)
        /\ Edit(p, Created(secret, job[p].labels, NoData))
  /\ UNCHANGED <<job, at, restarts, faults, admin>>

\* Faulty: the loop runs one past the end of the list.
AdvanceTooFar(p) ==
  IF at[p] <= Len(job[p].requests)
  THEN /\ at' = [at EXCEPT ![p] = @ + 1]
       /\ Goto(p, "get")
  ELSE /\ Goto(p, "done")
       /\ UNCHANGED at

\* The loop over the requests goes on after an accepted update.
Advance(p) ==
  IF at[p] < Len(job[p].requests)
  THEN /\ at' = [at EXCEPT ![p] = @ + 1]
       /\ Goto(p, "get")
  ELSE /\ Goto(p, "done")
       /\ UNCHANGED at

\* Faulty: the update is sent without a version, the last writer wins.
UpdateLastWins(p) ==
  /\ pc[p] = "update"
  /\ secret.exists
  /\ secret' = [copy[p] EXCEPT !.rv = secret.rv + 1]
  /\ Advance(p)
  /\ UNCHANGED <<job, copy, restarts, faults, admin>>

\* Faulty: the error of a conflict is logged and forgotten.
UpdateIgnoringConflict(p) ==
  /\ pc[p] = "update"
  /\ \/ Accepts(secret, copy[p]) /\ secret' = Updated(secret, copy[p])
     \/ ~ Accepts(secret, copy[p]) /\ UNCHANGED secret
  /\ Advance(p)
  /\ UNCHANGED <<job, copy, restarts, faults, admin>>

Update(p) ==
  /\ pc[p] = "update"
  /\ \/ /\ Accepts(secret, copy[p])
        /\ secret' = Updated(secret, copy[p])
        /\ Advance(p)
     \/ /\ ~ Accepts(secret, copy[p])
        /\ Goto(p, "failed")
        /\ UNCHANGED <<secret, at>>
  /\ UNCHANGED <<job, copy, restarts, faults, admin>>
-------------------------------------------------------------------------------
(***************************************************************************)
(* Faults.  A call that fails without effect, other than Get, ends the     *)
(* process as a kill before the call does.                                 *)
(***************************************************************************)
Fault ==
  /\ faults < MaxFaults
  /\ faults' = faults + 1

GetError(p) ==
  /\ pc[p] = "get"
  /\ Fault
  /\ Goto(p, "create")
  /\ UNCHANGED <<secret, job, at, copy, restarts, admin>>

Kill(p) ==
  /\ pc[p] \in Running
  /\ Fault
  /\ Goto(p, "failed")
  /\ UNCHANGED <<secret, job, at, copy, restarts, admin>>

\* The Secret is created, the reply is lost or the process is killed.
CreateLost(p) ==
  /\ pc[p] = "create"
  /\ ~ secret.exists
  /\ Fault
  /\ secret' = Created(secret, job[p].labels, NoData)
  /\ Goto(p, "failed")
  /\ UNCHANGED <<job, at, copy, restarts, admin>>

\* The update is stored, the reply is lost or the process is killed.
UpdateLost(p) ==
  /\ pc[p] = "update"
  /\ Accepts(secret, copy[p])
  /\ Fault
  /\ secret' = Updated(secret, copy[p])
  /\ Goto(p, "failed")
  /\ UNCHANGED <<job, at, copy, restarts, admin>>

\* The container exits with 1 and is started again, from its arguments.
Restart(p) ==
  /\ pc[p] = "failed"
  /\ restarts[p] < MaxRestarts
  /\ restarts' = [restarts EXCEPT ![p] = @ + 1]
  /\ at' = [at EXCEPT ![p] = 1]
  /\ Goto(p, "idle")
  /\ UNCHANGED <<secret, job, copy, faults, admin>>

\* The pods of a Job that are pending or running.
Active(j) == {p \in Procs : job[p] = j /\ pc[p] \notin {"done", "stopped"}}

\* The Job has failed, and its pods are stopped one after the other.
GiveUp(p) ==
  /\ pc[p] \notin {"done", "stopped"}
  /\ \/ PastBackoffLimit(Active(job[p]), restarts)
     \/ \E q \in Procs : job[q] = job[p] /\ pc[q] = "stopped"
  /\ Goto(p, "stopped")
  /\ UNCHANGED <<secret, job, at, copy, restarts, faults, admin>>
-------------------------------------------------------------------------------
(***************************************************************************)
(* Somebody else deletes the Secret or makes one of the same name.         *)
(***************************************************************************)
Admin ==
  /\ admin < MaxAdmin
  /\ admin' = admin + 1
  /\ UNCHANGED <<pc, job, at, copy, restarts, faults>>

AdminDelete ==
  /\ Admin
  /\ secret.exists
  /\ secret' = Removed(secret)

AdminCreate ==
  /\ Admin
  /\ ~ secret.exists
  /\ \E d \in Data : secret' = Created(secret, Foreign, d)
-------------------------------------------------------------------------------
Step(p) ==
  Start(p) \/ GetNotFound(p) \/ GetFound(p) \/ Create(p) \/ Update(p)

Next ==
  \/ \E p \in Procs :
       \/ Start(p)
       \/ GetNotFound(p)
       \/ GetFound(p)
       \/ Create(p)
       \/ Update(p)
       \/ GetError(p)
       \/ Kill(p)
       \/ CreateLost(p)
       \/ UpdateLost(p)
       \/ Restart(p)
       \/ GiveUp(p)
  \/ AdminDelete
  \/ AdminCreate

Spec == Init /\ [][Next]_vars

(***************************************************************************)
(* A container is started, makes its next call, and is started again when  *)
(* it failed.  No fault, no other user of the cluster and no verdict of    *)
(* the Job controller has to come.                                         *)
(***************************************************************************)
Fairness == \A p \in Procs : WF_vars(Step(p)) /\ WF_vars(Restart(p))

FairSpec == Spec /\ Fairness
-------------------------------------------------------------------------------
(***************************************************************************)
(* Properties                                                              *)
(***************************************************************************)

\* The type of every variable; a Secret that is gone has no data.
TypeOK ==
  /\ secret \in Object
  /\ ~ secret.exists => secret.data = NoData
  /\ pc \in [Procs -> PC]
  /\ job \in [Procs -> Jobs]
  /\ at \in [Procs -> Nat \ {0}]
  /\ \A p \in Procs : at[p] \in DOMAIN job[p].requests
  /\ copy \in [Procs -> Object]
  /\ restarts \in [Procs -> 0..MaxRestarts]
  /\ faults \in 0..MaxFaults
  /\ admin \in 0..MaxAdmin

\* Versions in the copies are versions the Secret has had.
VersionsGrow == \A p \in Procs : copy[p].rv <= secret.rv

\* A copy whose version is still the version in the cluster differs from
\* the Secret at most in the key being handled, and there only when the
\* Secret has no value.
CopyIsCurrent ==
  \A p \in Procs :
    pc[p] = "update" /\ Accepts(secret, copy[p]) =>
      /\ secret.labels # Foreign
      /\ copy[p].exists
      /\ copy[p].labels = job[p].labels
      /\ \A k \in Keys : copy[p].data[k] # secret.data[k] =>
           k = Current(p).key /\ secret.data[k] = None
      /\ copy[p].data[Current(p).key] # None

\* The Secret implements the write-once store: of two processes that both
\* found a key missing at most one gives it a value, a restart generates
\* nothing a second time, and labels that are not ours keep every process
\* off (secret.go: the existence check on the copy, and Update).
Owner ==
  IF ~ secret.exists THEN "nobody"
  ELSE IF secret.labels = Foreign THEN "others"
  ELSE "us"

Store == INSTANCE WriteOnceStore WITH owner <- Owner, store <- secret.data

ImplementsWriteOnce == Store!Spec

\* A process that has come to the end of its list, and so lets the release
\* go on, leaves every credential of its list in the Secret, and they stay
\* there, whatever other processes and later restarts do; the credentials
\* before the one being handled are there already.
GeneratedIsThere ==
  admin = 0 =>
    \A p \in Procs : \A i \in DOMAIN job[p].requests :
      i < at[p] \/ pc[p] = "done" =>
        secret.exists /\ secret.data[job[p].requests[i].key] # None

\* A list whose types are known and whose generators work.
Works(j) ==
  /\ ParseArgs(j)
  /\ \A i \in DOMAIN j.requests : Generates(j.requests[i])

\* The budget of restarts after the version n.
PaidFrom(n) ==
  admin = 0 /\ Owner # "others" =>
    \A p \in Procs : Works(job[p]) => restarts[p] <= faults + (secret.rv - n)

\* A list that works does not fail by itself, also when an attempt before has
\* generated a part of it: every restart of its container is paid for by a
\* fault or by a change of the Secret, no change paying for two restarts of
\* one container.  (The Secret has the version 0 at the start or a later one.)
RestartsArePaidFor == PaidFrom(0)

\* The pods of one Job, a list that works.
OneJob(j) == Works(j) /\ \A p \in Procs : job[p] = j

\* Faults, and m + 1 restarts of every pod but one, are less than the limit.
WithinBudget(m) == faults + (Cardinality(Procs) - 1) * (m + 1) < BackoffLimit

NeverGivesUp(m) ==
  admin = 0 /\ Owner # "others" /\ WithinBudget(m) =>
    \A p \in Procs :
      /\ pc[p] # "stopped"
      /\ ~ PastBackoffLimit(Active(job[p]), restarts)

\* The Job is not given up within that budget, although the restarts of all
\* its pods are added up: the pods cost each other one restart for every key
\* of the list, and one for the creation of the Secret or its labels, since
\* whoever comes second finds the value there and leaves it (secret.go: the
\* existence check, Update; job.yaml: backoffLimit, podReplacementPolicy).
ListNeverGivesUp ==
  \A j \in Jobs : OneJob(j) => NeverGivesUp(Len(j.requests))

\* Within the same budget the list is generated to its end in spite of
\* kills, lost replies and conflicts between the pods: with two pods and two
\* keys, up to two faults of a backoffLimit of six.
GenerationCompletes ==
  \A p \in Procs :
    pc[p] = "get" /\ OneJob(job[p])
      ~> pc[p] = "done" \/ ~ WithinBudget(Len(job[p].requests))
===============================================================================
