--------------------------- MODULE InitSecretsProof ---------------------------
(***************************************************************************)
(* Proofs about the init-secrets hook Job, for all values of a release:    *)
(* the facts about the templates (CredentialsProof) and those about the    *)
(* processes of generate-secrets (GenerateSecretsProof) put together.      *)
(***************************************************************************)
EXTENDS InitSecrets, GenerateSecretsProof, CredentialsProof

-------------------------------------------------------------------------------
(***************************************************************************)
(* The two programs know of each other's types.                            *)
(***************************************************************************)

\* The parser of the command line accepts the list exactly without Synapse.
LEMMA ListIsParsed ==
  ASSUME NEW v, NEW j, j.requests = GeneratedSecrets(v), j.labelsParse
  PROVE  ParseArgs(j) <=> ~ v.synapse
<1>1. ParseArgs(j) <=> RequestedTypes(v) \subseteq SecretTypes
  BY DEF ParseArgs, RequestedTypes
<1>2. RequestedTypes(v) \subseteq SecretTypes <=> "extra" \notin RequestedTypes(v)
  BY TypesOfTheList DEF SecretTypes, Types
<1> QED
  BY <1>1, <1>2, TypesOfTheList

\* Where the pod has the sizes and files that the list names, a generator
\* that matrix-tools knows works.
LEMMA ListIsGenerated ==
  ASSUME NEW v, ~ v.synapse, NEW i \in DOMAIN GeneratedSecrets(v),
         "4096" \in Sizes, "hookshot-registration.yaml" \in Templates
  PROVE  Generates(GeneratedSecrets(v)[i])
<1> DEFINE r == GeneratedSecrets(v)[i]
<1>1. Fits(r.type, r.args)
  BY ArgumentsOfTheList
<1> HIDE DEF r
<1>2. SeededKey \in Values
  BY SecretsAssumption
<1>3. CASE r.type = "rsa"
  <2>1. r.args \in {<< "4096", "der" >>, << "4096", "pem" >>}
    BY <1>1, <1>3 DEF Fits
  <2>2. RSAWorks(r.args)
    BY <2>1 DEF RSAWorks
  <2> QED
    BY <1>2, <1>3, <2>2 DEF Generates, Generated, r
<1>4. CASE r.type = "registration"
  <2>1. r.args = << "hookshot-registration.yaml" >>
    BY <1>1, <1>4 DEF Fits
  <2>2. RegistrationWorks(r.args)
    BY <2>1 DEF RegistrationWorks
  <2> QED
    BY <1>2, <1>4, <2>2 DEF Generates, Generated, r
<1>5. CASE r.type \notin {"rsa", "registration"}
  BY <1>2, <1>5 DEF Generates, Generated, r
<1> QED
  BY <1>3, <1>4, <1>5

-------------------------------------------------------------------------------
(***************************************************************************)
(* A list that is turned down.                                             *)
(***************************************************************************)
Parsed == \A p \in Procs : pc[p] \in Running \cup {"done"} => ParseArgs(job[p])

\* Only Start gets a process going.
LEMMA GetsGoing ==
  ASSUME TypeOK, [Next]_vars, NEW p \in Procs, pc'[p] \in Running \cup {"done"}
  PROVE  pc[p] \in Running \cup {"done"} \/ Start(p)
<1>0. pc \in [Procs -> PC]
  BY DEF TypeOK
<1>1. ASSUME NEW q \in Procs, q # p,
             \/ Start(q) \/ GetNotFound(q) \/ GetError(q) \/ Kill(q)
             \/ CreateLost(q) \/ UpdateLost(q) \/ Restart(q) \/ GiveUp(q)
      PROVE  pc'[p] = pc[p]
  BY <1>0, <1>1 DEF Start, GetNotFound, GetError, Kill, CreateLost, UpdateLost,
                    Restart, GiveUp, Goto
<1>2. ASSUME NEW q \in Procs, q # p, GetFound(q) \/ Create(q) PROVE pc'[p] = pc[p]
  BY <1>0, <1>2 DEF GetFound, Create, Edit, Goto
<1>3. ASSUME NEW q \in Procs, q # p, Update(q) PROVE pc'[p] = pc[p]
  BY <1>0, <1>3 DEF Update, Advance, Goto
<1>4. CASE \/ GetNotFound(p) \/ GetFound(p) \/ Create(p) \/ Update(p) \/ GetError(p)
           \/ Kill(p) \/ CreateLost(p) \/ UpdateLost(p)
  BY <1>4 DEF GetNotFound, GetFound, Create, Update, GetError, Kill, CreateLost,
              UpdateLost, Running
<1>5. CASE Restart(p) \/ GiveUp(p)
  BY <1>0, <1>5 DEF Restart, GiveUp, Goto, Running
<1>6. CASE AdminDelete \/ AdminCreate \/ UNCHANGED vars
  BY <1>6 DEF AdminDelete, AdminCreate, Admin, vars
<1> QED
  BY <1>1, <1>2, <1>3, <1>4, <1>5, <1>6 DEF Next

LEMMA StartsParsed ==
  ASSUME TypeOK, NEW p \in Procs, Start(p), pc'[p] \in Running \cup {"done"}
  PROVE  ParseArgs(job[p])
BY DEF TypeOK, Start, Goto, Running

\* A process that has made a call has an acceptable command line.
LEMMA ParsedFirst == Spec => []Parsed
<1>1. Init => Parsed
  BY DEF Init, Parsed, Running
<1>2. IInv /\ Parsed /\ [Next]_vars => Parsed'
  <2> SUFFICES ASSUME IInv, Parsed, [Next]_vars,
                      NEW p \in Procs, pc'[p] \in Running \cup {"done"}
               PROVE  ParseArgs(job'[p])
    BY DEF Parsed
  <2>1. job' = job
    BY JobsFixed DEF IInv
  <2>2. ParseArgs(job[p])
    BY GetsGoing, StartsParsed DEF IInv, Parsed
  <2> QED
    BY <2>1, <2>2
<1> QED
  BY <1>1, <1>2, Invariant, PTL DEF Spec

\* With Synapse in the values no process of the hook makes a single call of
\* the API, whichever credentials are provided and however often its
\* container is started again: the type "extra" of the list is not known to
\* parseSecretType.
THEOREM SynapseTurnsDown ==
  ASSUME NEW v, v.synapse, NEW p \in Procs
  PROVE  Spec => []TurnsDown(p, v)
<1>1. TypeOK /\ Parsed => TurnsDown(p, v)
  <2> SUFFICES ASSUME TypeOK, Parsed, RunsListOf(p, v)
               PROVE  pc[p] \in {"idle", "failed", "stopped"}
    BY DEF TurnsDown
  <2>1. ~ ParseArgs(job[p])
    BY ListIsParsed DEF RunsListOf, ParseArgs
  <2>2. pc[p] \in PC
    BY DEF TypeOK
  <2> QED
    BY <2>1, <2>2 DEF Parsed, PC, Running
<1> QED
  BY <1>1, TypeCorrect, ParsedFirst, PTL

-------------------------------------------------------------------------------
(***************************************************************************)
(* A list that is accepted.                                                *)
(***************************************************************************)

\* Whatever the values are: once the hook is done, every credential that a
\* manifest reads from <release>-generated is in it, after any kills, lost
\* replies and conflicts with other pods of the Job.  (With Synapse it does
\* not get that far: SynapseTurnsDown.)
THEOREM HookProvides ==
  ASSUME NEW v, Renders(v), NEW p \in Procs
  PROVE  Spec => []Provides(p, v)
<1>1. GeneratedIsThere => Provides(p, v)
  <2> SUFFICES ASSUME GeneratedIsThere, RunsListOf(p, v), pc[p] = "done", admin = 0,
                      NEW key \in References(v)
               PROVE  secret.exists /\ secret.data[key] # None
    BY DEF Provides
  <2>1. PICK i \in DOMAIN GeneratedSecrets(v) : GeneratedSecrets(v)[i].key = key
    BY ReferencesAreRequested DEF RequestedKeys
  <2>2. i \in DOMAIN job[p].requests /\ job[p].requests[i].key = key
    BY <2>1 DEF RunsListOf
  <2> QED
    BY <2>2 DEF GeneratedIsThere
<1> QED
  BY <1>1, GeneratedStays, PTL

\* One pod that has the cluster to itself.
Alone(p) ==
  faults = 0 /\ admin = 0 =>
    /\ pc[p] # "failed"
    /\ secret.exists => secret.labels # Foreign
    /\ pc[p] = "create" => ~ secret.exists
    /\ pc[p] = "update" => Accepts(secret, copy[p])

\* The Job of p is that of the values v, which a first installation or a
\* release of the same chart finds without a foreign Secret.
Ready(p, v) ==
  RunsListOf(p, v) /\ job[p].labelsParse /\ (secret.exists => secret.labels # Foreign)

\* What Edit leaves is accepted, when the generator works.
LEMMA EditIsAccepted ==
  ASSUME TypeOK, NEW p \in Procs, NEW obj \in Object, obj.exists, Edit(p, obj),
         Generates(Current(p))
  PROVE  pc'[p] = "update" /\ Accepts(obj, copy'[p])
<1>1. pc'[p] # "failed"
  BY DEF Edit, Generates, Goto, TypeOK
<1>2. pc'[p] = "update" /\ EditedCopy(p, obj)
  BY <1>1, EditKeeps
<1> QED
  BY <1>2 DEF EditedCopy, Accepts

LEMMA AloneStep ==
  ASSUME NEW v, ~ v.synapse, NEW p, Procs = {p},
         "4096" \in Sizes, "hookshot-registration.yaml" \in Templates,
         IInv, Alone(p), RunsListOf(p, v), job[p].labelsParse, [Next]_vars
  PROVE  Alone(p)'
<1> SUFFICES ASSUME faults' = 0, admin' = 0
             PROVE  /\ pc'[p] # "failed"
                    /\ secret'.exists => secret'.labels # Foreign
                    /\ pc'[p] = "create" => ~ secret'.exists
                    /\ pc'[p] = "update" => Accepts(secret', copy'[p])
  BY DEF Alone
<1>0. /\ TypeOK /\ p \in Procs /\ pc \in [Procs -> PC] /\ copy \in [Procs -> Object]
      /\ secret \in Object /\ faults \in Nat /\ admin \in Nat
      /\ job[p].labels # Foreign
  BY SecretsAssumption, ObjectAssumption, CurrentType DEF IInv, TypeOK
<1>1. Generates(Current(p))
  BY <1>0, ListIsGenerated DEF RunsListOf, Current, TypeOK
<1>2. ~ Fault /\ ~ Admin
  BY <1>0 DEF Fault, Admin
<1>3. CASE Start(p)
  <2>1. pc'[p] = "get" /\ faults = 0 /\ admin = 0 /\ secret' = secret
    BY <1>0, <1>3, ListIsParsed DEF Start, Goto, RunsListOf
  <2> QED
    BY <2>1 DEF Alone
<1>4. CASE GetNotFound(p)
  BY <1>0, <1>4 DEF GetNotFound, Goto, Alone
<1>5. CASE GetFound(p)
  <2>1. faults = 0 /\ admin = 0 /\ secret' = secret /\ secret.exists
    BY <1>5 DEF GetFound
  <2>2. secret.labels # Foreign /\ Edit(p, secret)
    BY <1>5, <2>1 DEF GetFound, Alone
  <2> QED
    BY <1>0, <1>1, <2>1, <2>2, EditIsAccepted
<1>6. CASE Create(p)
  <2>1. faults = 0 /\ admin = 0 /\ ~ secret.exists
    BY <1>6 DEF Create, Alone
  <2> DEFINE new == Created(secret, job[p].labels, NoData)
  <2>2. secret' = new /\ Edit(p, new)
    BY <1>6, <2>1 DEF Create
  <2>3. new \in Object /\ new.exists /\ new.labels = job[p].labels
    BY <1>0, CurrentType, ObjectTypes
  <2> HIDE DEF new
  <2> QED
    BY <1>0, <1>1, <2>2, <2>3, EditIsAccepted
<1>7. CASE Update(p)
  <2>1. faults = 0 /\ admin = 0 /\ pc[p] = "update" /\ Accepts(secret, copy[p])
    BY <1>7 DEF Update, Alone
  <2>2. secret' = Updated(secret, copy[p]) /\ Advance(p)
    BY <1>7, <2>1 DEF Update
  <2>3. copy[p].exists /\ copy[p].labels = job[p].labels
    BY <1>0, <2>1 DEF IInv, CopyIsCurrent
  <2>4. secret'.labels # Foreign
    BY <1>0, <2>1, <2>2, <2>3, UpdatedType
  <2>5. pc'[p] \in {"get", "done"}
    BY <1>0, <2>2 DEF Advance, Goto
  <2> QED
    BY <2>4, <2>5
<1>8. CASE Restart(p)
  BY <1>8 DEF Restart, Alone
<1>9. CASE GiveUp(p) \/ UNCHANGED vars
  BY <1>0, <1>9 DEF GiveUp, Goto, vars, Alone
<1>10. ~ (GetError(p) \/ Kill(p) \/ CreateLost(p) \/ UpdateLost(p))
       /\ ~ AdminDelete /\ ~ AdminCreate
  BY <1>2 DEF GetError, Kill, CreateLost, UpdateLost, AdminDelete, AdminCreate
<1> QED
  BY <1>3, <1>4, <1>5, <1>6, <1>7, <1>8, <1>9, <1>10 DEF Next

\* Without Synapse in the values nothing in the list stops the hook: a pod
\* whose calls succeed and that finds no foreign Secret never fails.  Its list
\* is accepted, its generators have their arguments, and it is in nobody's
\* way, not even its own.
THEOREM OthersNeverFail ==
  ASSUME NEW v, ~ v.synapse, NEW p, Procs = {p},
         "4096" \in Sizes, "hookshot-registration.yaml" \in Templates
  PROVE  Spec /\ Ready(p, v) => []NeverFailsAlone(p)
<1> DEFINE J == RunsListOf(p, v) /\ job[p].labelsParse
<1>1. Init /\ Ready(p, v) => Alone(p) /\ J
  BY DEF Init, Ready, Alone
<1>2. IInv /\ Alone(p) /\ J /\ [Next]_vars => (Alone(p) /\ J)'
  <2> SUFFICES ASSUME IInv, Alone(p), J, [Next]_vars
               PROVE  (Alone(p) /\ J)'
    OBVIOUS
  <2>1. job' = job
    BY JobsFixed DEF IInv
  <2> QED
    BY <2>1, AloneStep DEF RunsListOf
<1>3. Alone(p) => NeverFailsAlone(p)
  BY DEF Alone, NeverFailsAlone
<1> HIDE DEF J
<1> QED
  BY <1>1, <1>2, <1>3, Invariant, PTL DEF Spec

\* The same for a pod that is not alone, such as the replacement of one that
\* is still terminating: it fails only for a fault, or because another pod has
\* changed the Secret.
THEOREM OthersArePaidFor ==
  ASSUME NEW v, ~ v.synapse, NEW p \in Procs,
         "4096" \in Sizes, "hookshot-registration.yaml" \in Templates
  PROVE  Spec => []IsPaidFor(p, v)
<1>1. TypeOK /\ RestartsArePaidFor => IsPaidFor(p, v)
  <2> SUFFICES ASSUME TypeOK, RestartsArePaidFor, RunsListOf(p, v),
                      job[p].labelsParse, admin = 0, Owner # "others"
               PROVE  restarts[p] <= faults + secret.rv
    BY DEF IsPaidFor
  <2>1. Works(job[p])
    BY ListIsParsed, ListIsGenerated DEF Works, RunsListOf
  <2>2. restarts[p] <= faults + (secret.rv - 0)
    BY <2>1 DEF RestartsArePaidFor, PaidFrom
  <2>3. secret.rv \in Nat
    BY DEF TypeOK, Object
  <2> QED
    BY <2>2, <2>3
<1> QED
  BY <1>1, TypeCorrect, RestartsPaid, PTL
===============================================================================
