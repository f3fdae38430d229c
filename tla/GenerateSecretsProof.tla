-------------------------- MODULE GenerateSecretsProof ------------------------
(***************************************************************************)
(* Proofs about GenerateSecrets, for any number of processes, any lists    *)
(* and any bound on faults and restarts.                                   *)
(*                                                                         *)
(* As for the deployment markers, an update that is accepted acts on the   *)
(* Secret as it is: CopyIsCurrent.  From it follow that the Secret         *)
(* implements the write-once store and that a credential, once there,      *)
(* outlives every other process (GeneratedIsThere).                        *)
(***************************************************************************)
EXTENDS GenerateSecrets, FiniteSetTheorems, TLAPS

IInv == TypeOK /\ VersionsGrow /\ CopyIsCurrent

-------------------------------------------------------------------------------
(***************************************************************************)
(* The operators on objects.                                               *)
(***************************************************************************)

\* The request a process is handling is one of its command line.
LEMMA CurrentType ==
  ASSUME TypeOK, NEW p \in Procs
  PROVE  /\ job[p] \in Jobs
         /\ job[p].labels \in Labels
         /\ Current(p) \in Request
         /\ Current(p).key \in Keys
<1>1. job[p] \in Jobs
  BY DEF TypeOK
<1>2. job[p].requests \in Seq(Request) /\ at[p] \in DOMAIN job[p].requests
  BY <1>1, SecretsAssumption DEF TypeOK
<1>3. Current(p) \in Request
  BY <1>2 DEF Current
<1>4. Current(p).key \in Keys
  BY <1>3 DEF Request
<1> QED
  BY <1>1, <1>3, <1>4, SecretsAssumption

\* The objects that the server makes are objects.
LEMMA ObjectTypes ==
  ASSUME NEW obj \in Object
  PROVE  /\ Removed(obj) \in Object
         /\ Removed(obj).rv = obj.rv
         /\ Removed(obj).data = NoData
         /\ ~ Removed(obj).exists
         /\ NoData \in Data
         /\ \A l \in Labels \cup {Foreign}, d \in Data :
              /\ Created(obj, l, d) \in Object
              /\ Created(obj, l, d).exists
              /\ Created(obj, l, d).labels = l
              /\ Created(obj, l, d).data = d
              /\ Created(obj, l, d).rv = obj.rv + 1
BY DEF Object, Data, NoData, Removed, Created

\* A stored update keeps the version exactly when it changes nothing.
LEMMA UpdatedType ==
  ASSUME NEW obj \in Object, NEW sent \in Object, Accepts(obj, sent), sent.exists
  PROVE  /\ Updated(obj, sent) \in Object
         /\ Updated(obj, sent).exists
         /\ Updated(obj, sent).data = sent.data
         /\ Updated(obj, sent).labels = sent.labels
         /\ \/ Updated(obj, sent) = obj
            \/ Updated(obj, sent).rv = obj.rv + 1
BY DEF Object, Updated, Accepts

\* What a generator comes up with is a value.
LEMMA GeneratedType == ASSUME NEW x PROVE Generated(x) \subseteq Values
BY SecretsAssumption DEF Generated

\* What Edit leaves in the copy of q: the object with our labels and, when
\* it had no value for the key being handled, one.
EditedCopy(q, obj) ==
  /\ copy'[q].rv = obj.rv
  /\ copy'[q].exists = obj.exists
  /\ copy'[q].labels = job[q].labels
  /\ copy'[q].data[Current(q).key] # None
  /\ \A k \in Keys : copy'[q].data[k] # obj.data[k] =>
       k = Current(q).key /\ obj.data[k] = None

LEMMA EditKeeps ==
  ASSUME TypeOK, NEW q \in Procs, NEW obj \in Object, Edit(q, obj)
  PROVE  /\ pc' \in [Procs -> PC]
         /\ copy' \in [Procs -> Object]
         /\ \A p \in Procs : p # q => pc'[p] = pc[p] /\ copy'[p] = copy[p]
         /\ \/ pc'[q] = "update" /\ EditedCopy(q, obj)
            \/ pc'[q] = "failed" /\ copy'[q] = copy[q]
<1> DEFINE kept   == Prepared(job[q].labels, obj, obj.data)
           new(v) == Prepared(job[q].labels, obj,
                              [obj.data EXCEPT ![Current(q).key] = v])
<1>1. job[q].labels \in Labels /\ Current(q).key \in Keys
  BY CurrentType
<1>2. /\ kept \in Object /\ kept.rv = obj.rv /\ kept.exists = obj.exists
      /\ kept.labels = job[q].labels /\ kept.data = obj.data
  BY <1>1 DEF Object, Prepared
<1>3. ASSUME NEW v \in Values
      PROVE  /\ new(v) \in Object /\ new(v).rv = obj.rv
             /\ new(v).exists = obj.exists /\ new(v).labels = job[q].labels
             /\ new(v).data[Current(q).key] = v
             /\ \A k \in Keys : k # Current(q).key => new(v).data[k] = obj.data[k]
  BY <1>1 DEF Object, Data, Prepared
<1>4. pc \in [Procs -> PC] /\ copy \in [Procs -> Object]
  BY DEF TypeOK
<1> HIDE DEF kept, new
<1>5. CASE obj.data[Current(q).key] # None
  <2>1. copy' = [copy EXCEPT ![q] = kept] /\ Goto(q, "update")
    BY <1>5 DEF Edit, kept
  <2> QED
    BY <1>2, <1>4, <1>5, <2>1 DEF EditedCopy, Goto, PC
<1>6. CASE obj.data[Current(q).key] = None /\ Generates(Current(q))
  <2>1. PICK v \in Values : copy' = [copy EXCEPT ![q] = new(v)]
    BY <1>6, GeneratedType DEF Edit, new
  <2>2. Goto(q, "update")
    BY <1>6 DEF Edit
  <2>3. v # None
    BY ObjectAssumption
  <2> QED
    BY <1>3, <1>4, <1>6, <2>1, <2>2, <2>3 DEF EditedCopy, Goto, PC
<1>7. CASE obj.data[Current(q).key] = None /\ ~ Generates(Current(q))
  BY <1>4, <1>7 DEF Edit, Generates, Goto, PC
<1> QED
  BY <1>5, <1>6, <1>7

-------------------------------------------------------------------------------
(***************************************************************************)
(* The inductive invariant.                                                *)
(***************************************************************************)

LEMMA InitEstablishes == Init => IInv
<1> SUFFICES ASSUME Init PROVE IInv
  OBVIOUS
<1>1. secret \in Object /\ (secret.exists \/ secret.data = NoData)
  BY SecretsAssumption DEF Init
<1>2. TypeOK
  <2>1. \A p \in Procs : 1 \in DOMAIN job[p].requests
    BY SecretsAssumption DEF Init
  <2> QED
    BY <1>1, <2>1, ObjectTypes, SecretsAssumption, BackoffAssumption
    DEF Init, TypeOK, PC
<1>3. VersionsGrow
  BY <1>1, ObjectTypes DEF Init, VersionsGrow, Object
<1>4. CopyIsCurrent
  BY DEF Init, CopyIsCurrent
<1> QED
  BY <1>2, <1>3, <1>4 DEF IInv

\* A step that leaves the Secret, the command lines and the copies alone,
\* and takes no process to its update, keeps the invariant.
LEMMA QuietStep ==
  ASSUME IInv, TypeOK', UNCHANGED <<secret, job, copy>>,
         \A p \in Procs : pc'[p] = "update" => pc[p] = "update" /\ at'[p] = at[p]
  PROVE  IInv'
<1>1. VersionsGrow'
  BY DEF IInv, VersionsGrow
<1>2. CopyIsCurrent'
  BY DEF IInv, CopyIsCurrent, Current
<1> QED
  BY <1>1, <1>2 DEF IInv

\* An update of q that is accepted changes no value but that of its key,
\* and that only from None, and it makes every other copy of this version
\* stale unless it changes nothing.
LEMMA StoreKeeps ==
  ASSUME IInv, NEW q \in Procs, pc[q] = "update", Accepts(secret, copy[q]),
         secret' = Updated(secret, copy[q])
  PROVE  /\ secret' \in Object
         /\ secret.exists /\ secret'.exists
         /\ secret.labels # Foreign /\ secret'.labels # Foreign
         /\ secret' = secret \/ secret'.rv = secret.rv + 1
         /\ secret'.data[Current(q).key] # None
         /\ \A k \in Keys : secret'.data[k] # secret.data[k] =>
              k = Current(q).key /\ secret.data[k] = None
<1>1. /\ secret.labels # Foreign
      /\ copy[q].exists
      /\ copy[q].labels = job[q].labels
      /\ \A k \in Keys : copy[q].data[k] # secret.data[k] =>
           k = Current(q).key /\ secret.data[k] = None
      /\ copy[q].data[Current(q).key] # None
  BY DEF IInv, CopyIsCurrent
<1>2. secret \in Object /\ copy[q] \in Object
  BY DEF IInv, TypeOK
<1>3. job[q].labels # Foreign
  BY CurrentType, ObjectAssumption DEF IInv
<1> QED
  BY <1>1, <1>2, <1>3, UpdatedType DEF Accepts

\* When the Secret of a step is a new version of it, or gone, the only
\* copies that are still current are those the step itself has made.
LEMMA NewVersionStep ==
  ASSUME IInv, TypeOK', UNCHANGED job,
         secret'.rv = secret.rv + 1 \/ (secret'.rv = secret.rv /\ ~ secret'.exists),
         NEW q \in Procs,
         \A p \in Procs : p # q => copy'[p] = copy[p],
         copy'[q] = copy[q] \/ copy'[q].rv = secret'.rv,
         pc'[q] = "update" =>
           /\ secret'.labels # Foreign
           /\ copy'[q].exists
           /\ copy'[q].labels = job[q].labels
           /\ \A k \in Keys : copy'[q].data[k] # secret'.data[k] =>
                k = Current(q)'.key /\ secret'.data[k] = None
           /\ copy'[q].data[Current(q)'.key] # None
  PROVE  IInv'
<1>1. /\ secret.rv \in Nat /\ secret'.rv \in Nat
      /\ \A p \in Procs : copy[p].rv \in Nat
  BY DEF IInv, TypeOK, Object
<1>2. VersionsGrow'
  BY <1>1 DEF IInv, VersionsGrow
<1>3. ASSUME NEW p \in Procs, p # q PROVE ~ Accepts(secret', copy'[p])
  BY <1>1, <1>3 DEF IInv, VersionsGrow, Accepts
<1>4. CopyIsCurrent'
  BY <1>3 DEF CopyIsCurrent
<1> QED
  BY <1>2, <1>4 DEF IInv

LEMMA GetFoundKeeps ==
  ASSUME IInv, NEW q \in Procs, GetFound(q)
  PROVE  IInv'
<1>1. secret \in Object
  BY DEF IInv, TypeOK
<1>2. CASE secret.labels = Foreign
  <2>1. TypeOK'
    BY <1>2, CurrentType DEF GetFound, Goto, IInv, TypeOK, PC
  <2> QED
    BY <1>2, <2>1, QuietStep DEF GetFound, Goto, IInv, TypeOK, PC
<1>3. CASE secret.labels # Foreign
  <2>1. Edit(q, secret) /\ UNCHANGED <<secret, job, at, restarts, faults,
                                       admin>>
    BY <1>3 DEF GetFound
  <2>2. /\ pc' \in [Procs -> PC] /\ copy' \in [Procs -> Object]
        /\ \A p \in Procs : p # q => pc'[p] = pc[p] /\ copy'[p] = copy[p]
        /\ \/ pc'[q] = "update" /\ EditedCopy(q, secret)
           \/ pc'[q] = "failed" /\ copy'[q] = copy[q]
    BY <1>1, <2>1, EditKeeps DEF IInv
  <2>3. TypeOK'
    BY <2>1, <2>2 DEF IInv, TypeOK
  <2>4. VersionsGrow'
    <3>1. \A p \in Procs : copy[p].rv \in Nat /\ secret.rv \in Nat
      BY DEF IInv, TypeOK, Object
    <3> QED
      BY <3>1, <2>1, <2>2 DEF IInv, VersionsGrow, EditedCopy
  <2>5. secret.exists
    BY DEF GetFound
  <2>6. CopyIsCurrent'
    <3>1. \A p \in Procs : Current(p)' = Current(p)
      BY <2>1 DEF Current
    <3>2. ASSUME NEW p \in Procs, p # q, pc'[p] = "update", Accepts(secret', copy'[p])
          PROVE  /\ pc[p] = "update" /\ Accepts(secret, copy[p])
                 /\ copy'[p] = copy[p]
      BY <2>1, <2>2, <3>2 DEF Accepts
    <3>3. pc'[q] = "update" =>
            /\ copy'[q].exists
            /\ copy'[q].labels = job[q].labels
            /\ \A k \in Keys : copy'[q].data[k] # secret.data[k] =>
                 k = Current(q).key /\ secret.data[k] = None
            /\ copy'[q].data[Current(q).key] # None
      BY <2>2, <2>5 DEF EditedCopy
    <3> QED
      BY <1>3, <2>1, <3>1, <3>2, <3>3 DEF IInv, CopyIsCurrent
  <2> QED
    BY <2>3, <2>4, <2>6 DEF IInv
<1> QED
  BY <1>2, <1>3

LEMMA CreateKeeps ==
  ASSUME IInv, NEW q \in Procs, Create(q)
  PROVE  IInv'
<1>1. secret \in Object /\ job[q].labels \in Labels
  BY CurrentType DEF IInv, TypeOK
<1>2. CASE secret.exists
  <2>1. TypeOK'
    BY <1>2 DEF Create, Goto, IInv, TypeOK, PC
  <2> QED
    BY <1>2, <2>1, QuietStep DEF Create, Goto, IInv, TypeOK, PC
<1>3. CASE ~ secret.exists
  <2> DEFINE made == Created(secret, job[q].labels, NoData)
  <2>1. /\ secret' = made /\ Edit(q, made)
        /\ UNCHANGED <<job, at, restarts, faults, admin>>
    BY <1>3 DEF Create
  <2>2. /\ made \in Object /\ made.exists /\ made.rv = secret.rv + 1
        /\ made.labels # Foreign
    BY <1>1, ObjectTypes, ObjectAssumption
  <2> HIDE DEF made
  <2>3. /\ pc' \in [Procs -> PC] /\ copy' \in [Procs -> Object]
        /\ \A p \in Procs : p # q => pc'[p] = pc[p] /\ copy'[p] = copy[p]
        /\ \/ pc'[q] = "update" /\ EditedCopy(q, made)
           \/ pc'[q] = "failed" /\ copy'[q] = copy[q]
    BY <2>1, <2>2, EditKeeps DEF IInv
  <2>4. TypeOK'
    BY <2>1, <2>2, <2>3 DEF IInv, TypeOK
  <2>5. Current(q)' = Current(q)
    BY <2>1 DEF Current
  <2>6. pc'[q] = "update" =>
          /\ copy'[q].exists
          /\ copy'[q].labels = job[q].labels
          /\ \A k \in Keys : copy'[q].data[k] # made.data[k] =>
               k = Current(q).key /\ made.data[k] = None
          /\ copy'[q].data[Current(q).key] # None
    BY <2>2, <2>3 DEF EditedCopy
  <2>7. copy'[q] = copy[q] \/ copy'[q].rv = made.rv
    BY <2>3 DEF EditedCopy
  <2> QED
    BY <2>1, <2>2, <2>3, <2>4, <2>5, <2>6, <2>7, NewVersionStep
<1> QED
  BY <1>2, <1>3

LEMMA UpdateKeeps ==
  ASSUME IInv, NEW q \in Procs, Update(q)
  PROVE  IInv'
<1>1. CASE ~ Accepts(secret, copy[q])
  <2>1. TypeOK'
    BY <1>1 DEF Update, Goto, IInv, TypeOK, PC
  <2> QED
    BY <1>1, <2>1, QuietStep DEF Update, Goto, IInv, TypeOK, PC
<1>2. CASE Accepts(secret, copy[q])
  <2>1. /\ pc[q] = "update" /\ secret' = Updated(secret, copy[q]) /\ Advance(q)
        /\ UNCHANGED <<job, copy, restarts, faults, admin>>
    BY <1>2 DEF Update
  <2>2. /\ secret' \in Object /\ secret'.exists
        /\ secret' = secret \/ secret'.rv = secret.rv + 1
    BY <1>2, <2>1, StoreKeeps
  <2>3. /\ pc' \in [Procs -> PC]
        /\ at' \in [Procs -> Nat \ {0}]
        /\ \A p \in Procs : at'[p] \in DOMAIN job[p].requests
        /\ pc'[q] # "update"
        /\ \A p \in Procs : p # q => pc'[p] = pc[p] /\ at'[p] = at[p]
    <3>1. job[q].requests \in Seq(Request) /\ at[q] \in DOMAIN job[q].requests
      BY SecretsAssumption DEF IInv, TypeOK
    <3>2. /\ pc'[q] # "update"
          /\ pc' \in [Procs -> PC]
          /\ \A p \in Procs : p # q => pc'[p] = pc[p]
      BY <2>1 DEF Advance, Goto, IInv, TypeOK, PC
    <3>3. \/ at' = at
          \/ at[q] < Len(job[q].requests) /\ at' = [at EXCEPT ![q] = at[q] + 1]
      BY <2>1 DEF Advance
    <3>4. at[q] + 1 \in DOMAIN job[q].requests \/ ~ at[q] < Len(job[q].requests)
      BY <3>1 DEF IInv, TypeOK
    <3>5. /\ at' \in [Procs -> Nat \ {0}]
          /\ \A p \in Procs : p # q => at'[p] = at[p]
          /\ at'[q] \in DOMAIN job[q].requests
      <4>1. at \in [Procs -> Nat \ {0}] /\ at[q] + 1 \in Nat \ {0}
        BY DEF IInv, TypeOK
      <4>2. at[q] \in DOMAIN job[q].requests
        BY DEF IInv, TypeOK
      <4> QED
        BY <3>3, <3>4, <4>1, <4>2
    <3>6. \A p \in Procs : at[p] \in DOMAIN job[p].requests
      BY DEF IInv, TypeOK
    <3> QED
      BY <3>2, <3>5, <3>6
  <2>4. TypeOK'
    BY <2>1, <2>2, <2>3 DEF IInv, TypeOK
  <2>5. CASE secret' = secret
    BY <2>1, <2>3, <2>4, <2>5, QuietStep
  <2>6. CASE secret'.rv = secret.rv + 1
    BY <2>1, <2>3, <2>4, <2>6, NewVersionStep
  <2> QED
    BY <2>2, <2>5, <2>6
<1> QED
  BY <1>1, <1>2

LEMMA UpdateLostKeeps ==
  ASSUME IInv, NEW q \in Procs, UpdateLost(q)
  PROVE  IInv'
<1>1. /\ secret' \in Object /\ secret'.exists
      /\ secret' = secret \/ secret'.rv = secret.rv + 1
  BY StoreKeeps DEF UpdateLost
<1>2. TypeOK'
  BY <1>1, SecretsAssumption DEF UpdateLost, Fault, Goto, IInv, TypeOK, PC
<1>3. /\ pc'[q] = "failed"
      /\ \A p \in Procs : p # q => pc'[p] = pc[p]
  BY DEF UpdateLost, Goto, IInv, TypeOK
<1>4. CASE secret' = secret
  BY <1>2, <1>3, <1>4, QuietStep DEF UpdateLost
<1>5. CASE secret'.rv = secret.rv + 1
  BY <1>2, <1>3, <1>5, NewVersionStep DEF UpdateLost
<1> QED
  BY <1>1, <1>4, <1>5

LEMMA CreateLostKeeps ==
  ASSUME IInv, NEW q \in Procs, CreateLost(q)
  PROVE  IInv'
<1>1. secret' \in Object /\ secret'.exists /\ secret'.rv = secret.rv + 1
  <2>1. secret \in Object /\ job[q].labels \in Labels
    BY CurrentType DEF IInv, TypeOK
  <2> QED
    BY <2>1, ObjectTypes DEF CreateLost
<1>2. TypeOK'
  BY <1>1, SecretsAssumption DEF CreateLost, Fault, Goto, IInv, TypeOK, PC
<1>3. pc'[q] = "failed"
  BY DEF CreateLost, Goto, IInv, TypeOK
<1> QED
  BY <1>1, <1>2, <1>3, NewVersionStep DEF CreateLost

\* Steps of one process that make no call with an effect.
LEMMA LocalStepKeeps ==
  ASSUME IInv, NEW q \in Procs,
         Start(q) \/ GetNotFound(q) \/ GetError(q) \/ Kill(q) \/ Restart(q)
               \/ GiveUp(q)
  PROVE  IInv'
<1>1. /\ UNCHANGED <<secret, job, copy>>
      /\ pc'[q] # "update"
      /\ pc' \in [Procs -> PC]
      /\ \A p \in Procs : p # q => pc'[p] = pc[p] /\ at'[p] = at[p]
  BY DEF Start, GetNotFound, GetError, Kill, GiveUp, Restart, Goto, IInv,
         TypeOK, PC
<1>2. TypeOK'
  <2>1. \A p \in Procs : 1 \in DOMAIN job[p].requests
    BY SecretsAssumption DEF IInv, TypeOK
  <2>2. restarts' \in [Procs -> 0..MaxRestarts]
    BY BackoffAssumption
    DEF Start, GetNotFound, GetError, Kill, GiveUp, Restart, IInv, TypeOK
  <2>3. faults' \in 0..MaxFaults /\ admin' \in 0..MaxAdmin
    BY SecretsAssumption
    DEF Start, GetNotFound, GetError, Kill, GiveUp, Restart, Fault, IInv, TypeOK
  <2>4. at' = at \/ at' = [at EXCEPT ![q] = 1]
    BY DEF Start, GetNotFound, GetError, Kill, GiveUp, Restart
  <2> QED
    BY <1>1, <2>1, <2>2, <2>3, <2>4 DEF IInv, TypeOK
<1> QED
  BY <1>1, <1>2, QuietStep

LEMMA AdminKeeps ==
  ASSUME IInv, AdminDelete \/ AdminCreate
  PROVE  IInv'
<1>1. /\ secret' \in Object
      /\ secret'.exists \/ secret'.data = NoData
      /\ \/ secret'.rv = secret.rv /\ ~ secret'.exists
         \/ secret'.rv = secret.rv + 1 /\ secret'.exists /\ secret'.labels = Foreign
  <2>1. secret \in Object
    BY DEF IInv, TypeOK
  <2>2. CASE AdminDelete
    BY <2>1, <2>2, ObjectTypes DEF AdminDelete
  <2>3. CASE AdminCreate
    BY <2>1, <2>3, ObjectTypes DEF AdminCreate
  <2> QED
    BY <2>2, <2>3
<1>2. TypeOK'
  BY <1>1, SecretsAssumption DEF AdminDelete, AdminCreate, Admin, IInv, TypeOK
<1>3. UNCHANGED <<pc, job, at, copy>>
  BY DEF AdminDelete, AdminCreate, Admin
<1>4. /\ secret.rv \in Nat /\ secret'.rv \in Nat
      /\ \A p \in Procs : copy[p].rv \in Nat
  BY <1>2 DEF IInv, TypeOK, Object
<1>5. VersionsGrow'
  BY <1>1, <1>3, <1>4 DEF IInv, VersionsGrow
<1>6. CopyIsCurrent'
  BY <1>1, <1>3, <1>4 DEF IInv, VersionsGrow, CopyIsCurrent, Accepts
<1> QED
  BY <1>2, <1>5, <1>6 DEF IInv

LEMMA StepKeeps == IInv /\ [Next]_vars => IInv'
<1> SUFFICES ASSUME IInv, [Next]_vars PROVE IInv'
  OBVIOUS
<1>1. ASSUME NEW q \in Procs,
             Start(q) \/ GetNotFound(q) \/ GetError(q) \/ Kill(q) \/ Restart(q)
               \/ GiveUp(q)
      PROVE  IInv'
  BY <1>1, LocalStepKeeps
<1>2. ASSUME NEW q \in Procs, GetFound(q) PROVE IInv'
  BY <1>2, GetFoundKeeps
<1>3. ASSUME NEW q \in Procs, Create(q) PROVE IInv'
  BY <1>3, CreateKeeps
<1>4. ASSUME NEW q \in Procs, Update(q) PROVE IInv'
  BY <1>4, UpdateKeeps
<1>5. ASSUME NEW q \in Procs, CreateLost(q) PROVE IInv'
  BY <1>5, CreateLostKeeps
<1>6. ASSUME NEW q \in Procs, UpdateLost(q) PROVE IInv'
  BY <1>6, UpdateLostKeeps
<1>7. CASE AdminDelete \/ AdminCreate
  BY <1>7, AdminKeeps
<1>8. CASE UNCHANGED vars
  <2>1. TypeOK'
    BY <1>8 DEF vars, IInv, TypeOK
  <2> QED
    BY <1>8, <2>1, QuietStep DEF vars
<1> QED
  BY <1>1, <1>2, <1>3, <1>4, <1>5, <1>6, <1>7, <1>8 DEF Next

LEMMA Invariant == Spec => []IInv
BY InitEstablishes, StepKeeps, PTL DEF Spec

\* Every variable has its type in every reachable state.
THEOREM TypeCorrect == Spec => []TypeOK
BY Invariant, PTL DEF IInv

\* A copy of the version in the cluster differs from it only by a value for
\* the missing key its process handles.
THEOREM CopiesAreCurrent == Spec => []CopyIsCurrent
BY Invariant, PTL DEF IInv

-------------------------------------------------------------------------------
(***************************************************************************)
(* What a step may do to the Secret.                                       *)
(***************************************************************************)

\* The steps of matrix-tools that change the Secret make an empty one where
\* there is none, or store an update.
LEMMA EffectOfStep ==
  ASSUME IInv, [Next]_vars
  PROVE  \/ secret' = secret
         \/ AdminDelete
         \/ AdminCreate
         \/ \E q \in Procs :
              /\ ~ secret.exists
              /\ secret' = Created(secret, job[q].labels, NoData)
         \/ \E q \in Procs :
              /\ pc[q] = "update"
              /\ Accepts(secret, copy[q])
              /\ secret' = Updated(secret, copy[q])
<1>1. ASSUME NEW q \in Procs, Create(q) \/ CreateLost(q)
      PROVE  \/ secret' = secret
             \/ /\ ~ secret.exists
                /\ secret' = Created(secret, job[q].labels, NoData)
  BY <1>1 DEF Create, CreateLost
<1>2. ASSUME NEW q \in Procs, Update(q) \/ UpdateLost(q)
      PROVE  \/ secret' = secret
             \/ /\ pc[q] = "update"
                /\ Accepts(secret, copy[q])
                /\ secret' = Updated(secret, copy[q])
  BY <1>2 DEF Update, UpdateLost
<1>3. ASSUME NEW q \in Procs, GetFound(q) PROVE secret' = secret
  BY <1>3 DEF GetFound
<1>4. ASSUME NEW q \in Procs,
             Start(q) \/ GetNotFound(q) \/ GetError(q) \/ Kill(q) \/ Restart(q)
               \/ GiveUp(q)
      PROVE  secret' = secret
  BY <1>4 DEF Start, GetNotFound, GetError, Kill, GiveUp, Restart
<1>5. CASE UNCHANGED vars
  BY <1>5 DEF vars
<1> QED
  BY <1>1, <1>2, <1>3, <1>4, <1>5 DEF Next

\* As long as nobody deletes the Secret, no value in it is lost.
LEMMA ValuesStay ==
  ASSUME IInv, [Next]_vars, admin' = 0, secret.exists
  PROVE  /\ secret'.exists
         /\ \A k \in Keys : secret.data[k] # None => secret'.data[k] # None
<1>1. ~ AdminDelete /\ ~ AdminCreate
  BY DEF AdminDelete, AdminCreate, Admin, IInv, TypeOK
<1>2. CASE secret' = secret
  BY <1>2
<1>3. CASE \E q \in Procs : /\ pc[q] = "update"
                            /\ Accepts(secret, copy[q])
                            /\ secret' = Updated(secret, copy[q])
  BY <1>3, StoreKeeps
<1> QED
  BY <1>1, <1>2, <1>3, EffectOfStep

\* A process moves on in its list, or ends, only after an update of its own.
LEMMA Progress ==
  ASSUME IInv, [Next]_vars, NEW p \in Procs,
         NEW i \in DOMAIN job[p].requests, i < at'[p] \/ pc'[p] = "done"
  PROVE  \/ i < at[p] \/ pc[p] = "done"
         \/ i = at[p] /\ Update(p) /\ Accepts(secret, copy[p])
<1>1. /\ pc \in [Procs -> PC] /\ at \in [Procs -> Nat \ {0}]
      /\ job[p].requests \in Seq(Request)
      /\ at[p] \in DOMAIN job[p].requests
  BY SecretsAssumption DEF IInv, TypeOK
<1>2. ASSUME NEW q \in Procs, Update(q)
      PROVE  \/ i < at[p] \/ pc[p] = "done"
             \/ i = at[p] /\ Update(p) /\ Accepts(secret, copy[p])
  <2>1. CASE q # p
    BY <1>1, <1>2, <2>1 DEF Update, Advance, Goto
  <2>2. CASE q = p /\ ~ Accepts(secret, copy[q])
    BY <1>1, <1>2, <2>2 DEF Update, Goto
  <2>3. CASE q = p /\ Accepts(secret, copy[q])
    <3>1. Advance(p)
      BY <1>2, <2>3 DEF Update
    <3>2. CASE at[p] < Len(job[p].requests)
      <4>1. at'[p] = at[p] + 1 /\ pc'[p] = "get"
        BY <1>1, <3>1, <3>2 DEF Advance, Goto
      <4> QED
        BY <1>1, <1>2, <2>3, <4>1
    <3>3. CASE ~ at[p] < Len(job[p].requests)
      <4>1. i \in 1..Len(job[p].requests) /\ at[p] \in 1..Len(job[p].requests)
        BY <1>1
      <4> QED
        BY <1>2, <2>3, <3>3, <4>1
    <3> QED
      BY <3>2, <3>3
  <2> QED
    BY <2>1, <2>2, <2>3
<1>3. ASSUME NEW q \in Procs, Restart(q) PROVE i < at[p] \/ pc[p] = "done"
  <2>1. i \in 1..Len(job[p].requests)
    BY <1>1
  <2> QED
    BY <1>1, <1>3, <2>1 DEF Restart, Goto
<1>4. ASSUME NEW q \in Procs, NEW obj, Edit(q, obj)
      PROVE  pc'[p] = pc[p] \/ pc'[p] \in {"update", "failed"}
  BY <1>1, <1>4 DEF Edit, Goto
<1>5. ASSUME NEW q \in Procs, GetFound(q) \/ Create(q)
      PROVE  i < at[p] \/ pc[p] = "done"
  BY <1>1, <1>4, <1>5 DEF GetFound, Create, Goto
<1>6. ASSUME NEW q \in Procs,
             \/ Start(q) \/ GetNotFound(q) \/ GetError(q) \/ Kill(q)
             \/ GiveUp(q) \/ CreateLost(q) \/ UpdateLost(q)
      PROVE  i < at[p] \/ pc[p] = "done"
  BY <1>1, <1>6 DEF Start, GetNotFound, GetError, Kill, GiveUp, CreateLost,
                    UpdateLost, Goto
<1>7. CASE AdminDelete \/ AdminCreate \/ UNCHANGED vars
  BY <1>7 DEF AdminDelete, AdminCreate, Admin, vars
<1> QED
  BY <1>2, <1>3, <1>5, <1>6, <1>7 DEF Next

\* The command lines never change, and interventions by others only add up.
LEMMA JobsFixed ==
  ASSUME TypeOK, [Next]_vars
  PROVE  job' = job /\ (admin' = 0 => admin = 0)
<1>1. admin \in Nat
  BY SecretsAssumption DEF TypeOK
<1>2. ASSUME NEW q \in Procs,
             \/ Start(q) \/ GetNotFound(q) \/ GetError(q) \/ Kill(q)
             \/ GiveUp(q) \/ CreateLost(q) \/ UpdateLost(q) \/ Restart(q)
      PROVE  job' = job /\ admin' = admin
  BY <1>2 DEF Start, GetNotFound, GetError, Kill, GiveUp, CreateLost,
              UpdateLost, Restart
<1>3. ASSUME NEW q \in Procs, GetFound(q) \/ Create(q)
      PROVE  job' = job /\ admin' = admin
  BY <1>3 DEF GetFound, Create
<1>4. ASSUME NEW q \in Procs, Update(q) PROVE job' = job /\ admin' = admin
  BY <1>4 DEF Update
<1>5. CASE AdminDelete \/ AdminCreate
  <2>1. job' = job /\ admin' = admin + 1
    BY <1>5 DEF AdminDelete, AdminCreate, Admin
  <2> QED
    BY <1>1, <2>1
<1>6. CASE UNCHANGED vars
  BY <1>6 DEF vars
<1> QED
  BY <1>2, <1>3, <1>4, <1>5, <1>6 DEF Next

\* Without somebody else's interference, a process that has ended has left
\* every credential of its list behind, and there they stay.
THEOREM GeneratedStays == Spec => []GeneratedIsThere
<1>1. Init => GeneratedIsThere
  <2>1. ASSUME Init, NEW p \in Procs, NEW i \in DOMAIN job[p].requests
        PROVE  ~ i < at[p] /\ pc[p] # "done"
    <3>1. job[p].requests \in Seq(Request)
      BY <2>1, SecretsAssumption DEF Init
    <3>2. i \in 1..Len(job[p].requests)
      BY <3>1
    <3> QED
      BY <2>1, <3>2 DEF Init
  <2> QED
    BY <2>1 DEF GeneratedIsThere
<1>2. IInv /\ GeneratedIsThere /\ [Next]_vars => GeneratedIsThere'
  <2> SUFFICES ASSUME IInv, GeneratedIsThere, [Next]_vars, admin' = 0,
                      NEW p \in Procs, NEW i \in DOMAIN job[p].requests,
                      i < at'[p] \/ pc'[p] = "done"
               PROVE  secret'.exists /\ secret'.data[job[p].requests[i].key] # None
    BY JobsFixed DEF GeneratedIsThere, IInv
  <2>1. admin = 0
    BY JobsFixed DEF IInv
  <2>2. job[p].requests[i].key \in Keys
    <3>1. job[p] \in Jobs
      BY DEF IInv, TypeOK
    <3>2. job[p].requests \in Seq(Request)
      BY <3>1, SecretsAssumption
    <3>3. job[p].requests[i] \in Request
      BY <3>2
    <3> QED
      BY <3>3 DEF Request
  <2>3. CASE i < at[p] \/ pc[p] = "done"
    BY <2>1, <2>2, <2>3, ValuesStay DEF GeneratedIsThere
  <2>4. CASE i = at[p] /\ Update(p) /\ Accepts(secret, copy[p])
    BY <2>4, StoreKeeps DEF Update, Current
  <2> QED
    BY <2>3, <2>4, Progress
<1> QED
  BY <1>1, <1>2, Invariant, PTL DEF Spec

-------------------------------------------------------------------------------
(***************************************************************************)
(* The Secret implements the write-once store.                             *)
(***************************************************************************)

\* Every step of the processes is a step of the store, or no step of it.
LEMMA StoreStep == IInv /\ [Next]_vars => [Store!Next]_(Store!vars)
<1> SUFFICES ASSUME IInv, [Next]_vars PROVE [Store!Next]_(Store!vars)
  OBVIOUS
<1>1. secret \in Object /\ (secret.exists \/ secret.data = NoData)
  BY DEF IInv, TypeOK
<1>2. secret.data \in [Keys -> Values \cup {None}]
  BY <1>1 DEF Object, Data
<1>3. CASE secret' = secret
  BY <1>3 DEF Store!vars, Owner
<1>4. CASE AdminDelete
  <2>1. /\ Owner # "nobody" /\ Owner' = "nobody" /\ secret'.data = NoData
    BY <1>1, <1>4, ObjectTypes DEF AdminDelete, Owner
  <2> QED
    BY <2>1 DEF Store!Next, Store!OthersDelete, Store!NoData, NoData
<1>5. CASE AdminCreate
  <2>1. PICK d \in Data : secret' = Created(secret, Foreign, d)
    BY <1>5 DEF AdminCreate
  <2>2. Owner = "nobody" /\ Owner' = "others" /\ secret'.data = d
    BY <1>1, <1>5, <2>1, ObjectTypes DEF AdminCreate, Owner
  <2> QED
    BY <2>2 DEF Store!Next, Store!OthersProvide, Data
<1>6. ASSUME NEW q \in Procs, ~ secret.exists,
             secret' = Created(secret, job[q].labels, NoData)
      PROVE  Store!Create
  <2>1. job[q].labels \in Labels /\ job[q].labels # Foreign
    BY CurrentType, ObjectAssumption DEF IInv
  <2>2. /\ secret'.exists
        /\ secret'.labels = job[q].labels
        /\ secret'.data = NoData
    BY <1>6 DEF Created
  <2>3. Owner = "nobody" /\ Owner' = "us"
    BY <1>6, <2>1, <2>2 DEF Owner
  <2>4. secret'.data = secret.data
    BY <1>1, <1>6, <2>2
  <2> QED
    BY <2>3, <2>4 DEF Store!Create
<1>7. ASSUME NEW q \in Procs, pc[q] = "update", Accepts(secret, copy[q]),
             secret' = Updated(secret, copy[q])
      PROVE  [Store!Next]_(Store!vars)
  <2> DEFINE k == Current(q).key
  <2>1. /\ secret' \in Object
        /\ secret.exists /\ secret'.exists
        /\ secret.labels # Foreign /\ secret'.labels # Foreign
        /\ secret'.data[k] # None
        /\ \A x \in Keys : secret'.data[x] # secret.data[x] =>
             x = k /\ secret.data[x] = None
    BY <1>7, StoreKeeps
  <2>2. Owner = "us" /\ Owner' = "us"
    BY <2>1 DEF Owner
  <2>3. secret'.data \in [Keys -> Values \cup {None}] /\ k \in Keys
    BY <2>1, CurrentType DEF Object, Data, IInv
  <2>4. CASE secret.data[k] # None
    <3>1. secret'.data = secret.data
      BY <1>2, <2>1, <2>3, <2>4
    <3> QED
      BY <2>2, <3>1 DEF Store!vars
  <2>5. CASE secret.data[k] = None
    <3>1. secret'.data[k] \in Values
      BY <2>1, <2>3
    <3>2. secret'.data = [secret.data EXCEPT ![k] = secret'.data[k]]
      BY <1>2, <2>1, <2>3
    <3>3. Store!Generate(k, secret'.data[k])
      BY <2>2, <2>5, <3>2 DEF Store!Generate
    <3> QED
      BY <2>3, <3>1, <3>3 DEF Store!Next
  <2> QED
    BY <2>4, <2>5
<1> QED
  BY <1>3, <1>4, <1>5, <1>6, <1>7, EffectOfStep DEF Store!Next

\* The Secret that the processes share is a store in which a credential,
\* once it has a value, keeps it until somebody else deletes the Secret.
THEOREM SecretIsWriteOnce == Spec => ImplementsWriteOnce
<1>1. Init => Store!Init
  <2> SUFFICES ASSUME Init PROVE Store!Init
    OBVIOUS
  <2>1. secret \in Object /\ (secret.exists \/ secret.data = NoData)
    BY SecretsAssumption DEF Init
  <2> QED
    BY <2>1 DEF Store!Init, Store!NoData, NoData, Owner, Object, Data
<1>2. IInv /\ [Next]_vars => [Store!Next]_(Store!vars)
  BY StoreStep
<1> QED
  BY <1>1, <1>2, Invariant, PTL DEF Spec, ImplementsWriteOnce, Store!Spec

-------------------------------------------------------------------------------
(***************************************************************************)
(* What pays for a restart.  A list that works fails because a fault hits  *)
(* it, or because the Secret is a new version since it was read, as for    *)
(* the markers; a key that has its value is no reason.                     *)
(***************************************************************************)
Paid(n) == faults + (secret.rv - n)

\* What a process needs to have in hand: one restart when it has failed, or
\* will certainly fail in its next call.
Owes(p, n) ==
  /\ pc[p] # "update" => restarts[p] <= Paid(n)
  /\ pc[p] = "failed" => restarts[p] + 1 <= Paid(n)
  /\ pc[p] = "create" /\ secret.exists => restarts[p] + 1 <= Paid(n)
  /\ pc[p] = "update" => secret.exists /\ restarts[p] <= faults + (copy[p].rv - n)

Account(n) ==
  /\ n <= secret.rv
  /\ admin = 0 /\ Owner # "others" =>
       \A p \in Procs : Works(job[p]) => Owes(p, n)

\* As long as nobody else is at work, the Secret stays in place, a change of
\* it is a new version, and it never becomes ours when it was another's.
LEMMA AloneTheVersionGrows ==
  ASSUME IInv, [Next]_vars, admin' = 0
  PROVE  /\ admin = 0 /\ job' = job
         /\ ~ AdminDelete /\ ~ AdminCreate
         /\ secret' = secret \/ (secret'.exists /\ secret'.rv = secret.rv + 1)
         /\ Owner' # "others" => Owner # "others"
         /\ faults' = faults \/ faults' = faults + 1
<1>1. secret \in Object /\ admin \in Nat
  BY SecretsAssumption DEF IInv, TypeOK
<1>2. ~ AdminDelete /\ ~ AdminCreate
  BY <1>1 DEF AdminDelete, AdminCreate, Admin
<1>3. admin = 0 /\ job' = job
  BY JobsFixed DEF IInv
<1>4. faults' = faults \/ faults' = faults + 1
  BY <1>2 DEF Next, vars, Start, GetNotFound, GetFound, Create, Update,
           GetError, Kill, GiveUp, CreateLost, UpdateLost, Restart, Fault
<1>5. CASE secret' = secret
  BY <1>2, <1>3, <1>4, <1>5 DEF Owner
<1>6. CASE \E q \in Procs : /\ ~ secret.exists
                            /\ secret' = Created(secret, job[q].labels, NoData)
  BY <1>1, <1>2, <1>3, <1>4, <1>6, ObjectTypes, CurrentType DEF Owner, IInv
<1>7. CASE \E q \in Procs : /\ pc[q] = "update"
                            /\ Accepts(secret, copy[q])
                            /\ secret' = Updated(secret, copy[q])
  BY <1>2, <1>3, <1>4, <1>7, StoreKeeps DEF Owner
<1> QED
  BY <1>2, <1>5, <1>6, <1>7, EffectOfStep

\* The numbers that are compared.
LEMMA Amounts ==
  ASSUME IInv, NEW p \in Procs
  PROVE  /\ faults \in Nat /\ secret.rv \in Nat
         /\ restarts[p] \in Nat /\ copy[p].rv \in Nat
         /\ copy[p].rv <= secret.rv
BY SecretsAssumption DEF IInv, TypeOK, VersionsGrow, Object

\* The steps of others only add to what has been paid.
LEMMA OwesWhileOthersWork ==
  ASSUME IInv, IInv', NEW n \in Nat, NEW p \in Procs, Owes(p, n),
         pc'[p] = pc[p], copy'[p] = copy[p], restarts'[p] = restarts[p],
         secret' = secret \/ (secret'.exists /\ secret'.rv = secret.rv + 1),
         faults' = faults \/ faults' = faults + 1
  PROVE  Owes(p, n)'
<1>1. /\ faults \in Nat /\ secret.rv \in Nat
      /\ restarts[p] \in Nat /\ copy[p].rv \in Nat
  BY Amounts
<1>2. faults' \in Nat /\ secret'.rv \in Nat
  BY Amounts, <1>1
<1> QED
  BY <1>1, <1>2 DEF Owes, Paid

\* A list that works has a value for every Secret that it is given.
LEMMA WorkIsEdited ==
  ASSUME IInv, NEW p \in Procs, Works(job[p]), NEW obj \in Object, Edit(p, obj)
  PROVE  pc'[p] = "update" /\ copy'[p].rv = obj.rv
<1>1. Generates(Current(p))
  BY DEF Works, Current, IInv, TypeOK
<1>2. pc'[p] # "failed"
  BY <1>1 DEF Edit, Generates, Goto, IInv, TypeOK
<1> QED
  BY <1>2, EditKeeps DEF EditedCopy, IInv

\* Every change of the Secret is a new version, a deletion is none.
LEMMA VersionStep ==
  ASSUME IInv, [Next]_vars
  PROVE  secret'.rv = secret.rv \/ secret'.rv = secret.rv + 1
<1>1. ASSUME NEW q \in Procs, pc[q] = "update", Accepts(secret, copy[q]),
             secret' = Updated(secret, copy[q])
      PROVE  secret' = secret \/ secret'.rv = secret.rv + 1
  BY <1>1, StoreKeeps
<1>2. CASE AdminDelete \/ AdminCreate
  BY <1>2 DEF AdminDelete, AdminCreate, Removed, Created
<1> QED
  BY <1>1, <1>2, EffectOfStep DEF Created

LEMMA InitAccount ==
  ASSUME Init, NEW n \in Nat, n <= secret.rv
  PROVE  Account(n)
<1>1. secret.rv \in Nat
  BY SecretsAssumption DEF Init, Object
<1> QED
  BY <1>1 DEF Init, Account, Owes, Paid

\* A call of p that finds the Secret of its copy changed, or finds one
\* where there was none, has been overtaken by the change that pays for it.
LEMMA OwesAfterOwnStep ==
  ASSUME IInv, IInv', [Next]_vars, admin' = 0, Owner # "others",
         NEW n \in Nat, n <= secret.rv, NEW p \in Procs, Owes(p, n),
         Works(job[p]),
         \/ Start(p) \/ GetNotFound(p) \/ GetFound(p) \/ Create(p) \/ Update(p)
         \/ GetError(p) \/ Kill(p) \/ CreateLost(p) \/ UpdateLost(p)
         \/ Restart(p) \/ GiveUp(p)
  PROVE  Owes(p, n)'
<1>0. /\ pc \in [Procs -> PC]
      /\ copy \in [Procs -> Object]
      /\ restarts \in [Procs -> 0..MaxRestarts]
      /\ secret \in Object
  BY DEF IInv, TypeOK
<1>1. /\ faults \in Nat /\ secret.rv \in Nat
      /\ restarts[p] \in Nat /\ copy[p].rv \in Nat
      /\ copy[p].rv <= secret.rv
  BY Amounts
<1>2. /\ faults' \in Nat /\ secret'.rv \in Nat
      /\ restarts'[p] \in Nat /\ copy'[p].rv \in Nat
  BY SecretsAssumption DEF IInv, TypeOK, Object
<1>3. secret.exists => secret.labels # Foreign
  BY DEF Owner
<1>5. CASE Start(p)
  BY <1>0, <1>1, <1>5 DEF Start, Goto, Works, Owes, Paid
<1>6. CASE GetNotFound(p)
  BY <1>0, <1>1, <1>6 DEF GetNotFound, Goto, Owes, Paid
<1>7. CASE GetFound(p)
  <2>1. Edit(p, secret) /\ secret.exists /\ pc[p] = "get"
        /\ UNCHANGED <<secret, restarts, faults>>
    BY <1>3, <1>7 DEF GetFound
  <2>2. pc'[p] = "update" /\ copy'[p].rv = secret.rv
    BY <2>1, <1>0, WorkIsEdited
  <2> QED
    BY <1>1, <2>1, <2>2 DEF Owes, Paid
<1>8. CASE Create(p)
  <2>1. CASE secret.exists
    BY <1>0, <1>1, <1>8, <2>1 DEF Create, Goto, Owes, Paid
  <2>2. CASE ~ secret.exists
    <3> DEFINE new == Created(secret, job[p].labels, NoData)
    <3>1. Edit(p, new) /\ secret' = new /\ pc[p] = "create"
          /\ UNCHANGED <<restarts, faults>>
      BY <1>8, <2>2 DEF Create
    <3>2. new \in Object /\ new.exists /\ new.rv = secret.rv + 1
      BY <1>0, ObjectTypes, CurrentType DEF IInv
    <3> HIDE DEF new
    <3>3. pc'[p] = "update" /\ copy'[p].rv = new.rv
      BY <3>1, <3>2, <1>0, WorkIsEdited
    <3> QED
      BY <1>1, <3>1, <3>2, <3>3 DEF Owes, Paid
  <2> QED
    BY <2>1, <2>2
<1>9. CASE Update(p)
  <2>1. CASE Accepts(secret, copy[p])
    <3>1. pc'[p] \in {"get", "done"} /\ UNCHANGED <<restarts, faults>>
      BY <1>0, <1>9, <2>1 DEF Update, Advance, Goto
    <3>2. secret' = secret \/ secret'.rv = secret.rv + 1
      BY <1>9, <2>1, StoreKeeps DEF Update
    <3>3. pc[p] = "update" /\ copy[p].rv = secret.rv
      BY <1>9, <2>1 DEF Update, Accepts
    <3> QED
      BY <1>1, <3>1, <3>2, <3>3 DEF Owes, Paid
  <2>2. CASE ~ Accepts(secret, copy[p])
    <3>1. pc[p] = "update" /\ pc'[p] = "failed"
          /\ UNCHANGED <<secret, restarts, faults>>
      BY <1>0, <1>9, <2>2 DEF Update, Goto
    <3>2. secret.exists /\ restarts[p] <= faults + (copy[p].rv - n)
      BY <3>1 DEF Owes
    <3>3. secret.rv # copy[p].rv
      BY <2>2, <3>2 DEF Accepts
    <3>4. n \in Nat /\ restarts[p] + 1 <= Paid(n)
      BY <1>1, <3>2, <3>3 DEF Paid
    <3>5. restarts'[p] <= Paid(n)' /\ restarts'[p] + 1 <= Paid(n)'
      BY <1>1, <3>1, <3>4 DEF Paid
    <3> QED
      BY <3>1, <3>5 DEF Owes
  <2> QED
    BY <2>1, <2>2
<1>10. CASE GetError(p) \/ Kill(p)
  <2>1. pc'[p] # "update" /\ UNCHANGED <<secret, restarts>> /\ faults' = faults + 1
    BY <1>0, <1>10 DEF GetError, Kill, Fault, Goto
  <2>2. restarts[p] <= Paid(n)
    BY <1>1 DEF Owes, Paid
  <2> QED
    BY <1>1, <2>1, <2>2 DEF Owes, Paid
<1>11. CASE CreateLost(p) \/ UpdateLost(p)
  <2>1. pc'[p] = "failed" /\ UNCHANGED restarts /\ faults' = faults + 1
    BY <1>0, <1>11 DEF CreateLost, UpdateLost, Fault, Goto
  <2>2. restarts[p] <= Paid(n)
    BY <1>1 DEF Owes, Paid
  <2>3. secret' = secret \/ secret'.rv = secret.rv + 1
    BY AloneTheVersionGrows
  <2> QED
    BY <1>1, <2>1, <2>2, <2>3 DEF Owes, Paid
<1>12. CASE Restart(p)
  <2>1. pc[p] = "failed" /\ pc'[p] = "idle" /\ restarts'[p] = restarts[p] + 1
        /\ UNCHANGED <<secret, faults>>
    BY <1>0, <1>12 DEF Restart, Goto
  <2> QED
    BY <1>1, <2>1 DEF Owes, Paid
<1>13. CASE GiveUp(p)
  <2>1. pc'[p] = "stopped" /\ UNCHANGED <<secret, restarts, faults>>
    BY <1>0, <1>13 DEF GiveUp, Goto
  <2>2. restarts[p] <= Paid(n)
    BY <1>1 DEF Owes, Paid
  <2> QED
    BY <1>1, <2>1, <2>2 DEF Owes, Paid
<1> QED
  BY <1>5, <1>6, <1>7, <1>8, <1>9, <1>10, <1>11, <1>12, <1>13

\* A step of one process leaves what the others hold alone.
LEMMA OwnStepIsOwn ==
  ASSUME IInv, NEW q \in Procs, NEW p \in Procs, p # q,
         \/ Start(q) \/ GetNotFound(q) \/ GetFound(q) \/ Create(q) \/ Update(q)
         \/ GetError(q) \/ Kill(q) \/ CreateLost(q) \/ UpdateLost(q)
         \/ Restart(q) \/ GiveUp(q)
  PROVE  /\ pc'[p] = pc[p] /\ copy'[p] = copy[p] /\ restarts'[p] = restarts[p]
<1>0. /\ pc \in [Procs -> PC]
      /\ copy \in [Procs -> Object]
      /\ restarts \in [Procs -> 0..MaxRestarts]
  BY DEF IInv, TypeOK
<1>1. ASSUME NEW obj, Edit(q, obj)
      PROVE  pc'[p] = pc[p] /\ copy'[p] = copy[p]
  BY <1>0, <1>1 DEF Edit, Goto
<1>2. CASE Start(q) \/ GetNotFound(q) \/ GetError(q) \/ Kill(q) \/ CreateLost(q)
             \/ UpdateLost(q) \/ Restart(q) \/ GiveUp(q)
  BY <1>0, <1>2 DEF Start, GetNotFound, GetError, Kill, GiveUp, CreateLost,
                    UpdateLost, Restart, Goto
<1>3. CASE GetFound(q)
  BY <1>0, <1>1, <1>3 DEF GetFound, Goto
<1>4. CASE Create(q)
  BY <1>0, <1>1, <1>4 DEF Create, Goto
<1>5. CASE Update(q)
  BY <1>0, <1>5 DEF Update, Advance, Goto
<1> QED
  BY <1>2, <1>3, <1>4, <1>5

LEMMA AccountStep ==
  ASSUME IInv, IInv', [Next]_vars, NEW n \in Nat, Account(n)
  PROVE  Account(n)'
<1>1. n <= secret'.rv
  <2>1. secret.rv \in Nat /\ n <= secret.rv
    BY DEF Account, IInv, TypeOK, Object
  <2>2. secret'.rv = secret.rv \/ secret'.rv = secret.rv + 1
    BY VersionStep
  <2> QED
    BY <2>1, <2>2
<1>2. ASSUME admin' = 0, Owner' # "others", NEW p \in Procs, Works(job'[p])
      PROVE  Owes(p, n)'
  <2>1. /\ admin = 0 /\ job' = job
        /\ ~ AdminDelete /\ ~ AdminCreate
        /\ secret' = secret \/ (secret'.exists /\ secret'.rv = secret.rv + 1)
        /\ Owner # "others"
        /\ faults' = faults \/ faults' = faults + 1
    BY <1>2, AloneTheVersionGrows
  <2>2. Owes(p, n) /\ n <= secret.rv /\ Works(job[p])
    BY <1>2, <2>1 DEF Account
  <2>3. ASSUME NEW q \in Procs,
               \/ Start(q) \/ GetNotFound(q) \/ GetFound(q) \/ Create(q)
               \/ Update(q) \/ GetError(q) \/ Kill(q) \/ CreateLost(q)
               \/ UpdateLost(q) \/ Restart(q) \/ GiveUp(q)
        PROVE  Owes(p, n)'
    <3>1. CASE p = q
      BY <1>2, <2>1, <2>2, <2>3, <3>1, OwesAfterOwnStep
    <3>2. CASE p # q
      BY <2>1, <2>2, <2>3, <3>2, OwnStepIsOwn, OwesWhileOthersWork
    <3> QED
      BY <3>1, <3>2
  <2>4. CASE UNCHANGED vars
    BY <2>1, <2>2, <2>4, OwesWhileOthersWork DEF vars
  <2> QED
    BY <2>1, <2>3, <2>4 DEF Next
<1> QED
  BY <1>1, <1>2 DEF Account

LEMMA AccountPays ==
  ASSUME IInv, NEW n \in Nat, Account(n)
  PROVE  PaidFrom(n)
<1> SUFFICES ASSUME admin = 0, Owner # "others",
                    NEW p \in Procs, Works(job[p])
             PROVE  restarts[p] <= faults + (secret.rv - n)
  BY DEF PaidFrom
<1>1. Owes(p, n)
  BY DEF Account
<1> QED
  BY <1>1, Amounts DEF Owes, Paid

\* No list that works uses up its restarts by itself: counted from any version
\* that is not above the first one of a behaviour, in particular from that one,
\* the restarts of a container are no more than the faults and the changes of
\* the Secret.
THEOREM RestartsAreCounted ==
  ASSUME NEW n \in Nat
  PROVE  Spec /\ n <= secret.rv => []PaidFrom(n)
<1>1. Init /\ n <= secret.rv => Account(n)
  BY InitAccount
<1>2. IInv /\ IInv' /\ [Next]_vars /\ Account(n) => Account(n)'
  BY AccountStep
<1>3. IInv /\ Account(n) => PaidFrom(n)
  BY AccountPays
<1> QED
  BY <1>1, <1>2, <1>3, Invariant, PTL DEF Spec

\* The same from the version 0, the first of an object in the runs.
THEOREM RestartsPaid == Spec => []RestartsArePaidFor
<1>1. Init => Account(0)
  <2>1. Init => 0 <= secret.rv
    BY SecretsAssumption DEF Init, Object
  <2> QED
    BY <2>1, InitAccount
<1>2. IInv /\ IInv' /\ [Next]_vars /\ Account(0) => Account(0)'
  BY AccountStep
<1>3. IInv /\ Account(0) => RestartsArePaidFor
  BY AccountPays DEF RestartsArePaidFor
<1> QED
  BY <1>1, <1>2, <1>3, Invariant, PTL DEF Spec

-------------------------------------------------------------------------------
(***************************************************************************)
(* The restarts of a Job's pods together.  A fault costs the pod it hits   *)
(* one restart, a new version every pod but the one that made it.  What is *)
(* added up is the load of the pods: the restarts they had and the one     *)
(* that a failed pod, or one whose next call must fail, will need.         *)
(***************************************************************************)
OnlyList(j) == \A p \in Procs : job[p] = j

Doomed(p) ==
  \/ pc[p] = "update" /\ copy[p].rv < secret.rv
  \/ pc[p] = "create" /\ secret.exists

Load ==
  [p \in Procs |->
     IF pc[p] = "failed" \/ Doomed(p) THEN restarts[p] + 1 ELSE restarts[p]]

Tally(f) == {r \in Procs \X (1..(MaxRestarts + 1)) : r[2] <= f[r[1]]}

SharedAccount(n) ==
  admin = 0 /\ Owner # "others" =>
    Cardinality(Tally(Load))
      <= faults + (Cardinality(Procs) - 1) * (secret.rv - n)

LEMMA TallyType ==
  ASSUME NEW f
  PROVE  IsFiniteSet(Tally(f)) /\ Cardinality(Tally(f)) \in Nat
<1>1. IsFiniteSet(1..(MaxRestarts + 1))
  BY FS_Interval, BackoffAssumption
<1>2. IsFiniteSet(Procs \X (1..(MaxRestarts + 1)))
  BY <1>1, FS_Product, BackoffAssumption
<1>3. IsFiniteSet(Tally(f))
  BY <1>2, FS_Subset DEF Tally
<1> QED
  BY <1>3, FS_CardinalityType

\* Counting one more for some of the pods adds as many to the tally.
LEMMA TallyGrows ==
  ASSUME NEW f \in [Procs -> Nat], NEW g \in [Procs -> Nat],
         NEW P \in SUBSET Procs,
         \A p \in Procs : g[p] <= (IF p \in P THEN f[p] + 1 ELSE f[p])
  PROVE  Cardinality(Tally(g)) <= Cardinality(Tally(f)) + Cardinality(P)
<1> DEFINE h == [p \in P |-> <<p, f[p] + 1>>]
           T == {h[p] : p \in P}
<1>1. IsFiniteSet(P) /\ Cardinality(P) \in Nat
  BY FS_Subset, FS_CardinalityType, BackoffAssumption
<1>2. IsFiniteSet(T) /\ Cardinality(T) \in Nat
      /\ Cardinality(T) <= Cardinality(P)
  <2>1. h \in Surjection(P, T)
    BY DEF Surjection
  <2> QED
    BY <1>1, <2>1, FS_Surjection, FS_CardinalityType
<1>3. Tally(g) \subseteq Tally(f) \cup T
  <2> SUFFICES ASSUME NEW r \in Tally(g), r \notin Tally(f) PROVE r \in T
    OBVIOUS
  <2>1. PICK p \in Procs, i \in 1..(MaxRestarts + 1) : r = <<p, i>>
    BY DEF Tally
  <2>2. i <= g[p] /\ ~ (i <= f[p])
    BY <2>1 DEF Tally
  <2>3. p \in P /\ i = f[p] + 1
    <3>1. f[p] \in Nat /\ g[p] \in Nat /\ i \in Nat
      BY BackoffAssumption
    <3> QED
      BY <2>2, <3>1
  <2> QED
    BY <2>1, <2>3
<1>4. /\ IsFiniteSet(Tally(f) \cup T)
      /\ Cardinality(Tally(f) \cup T)
           = Cardinality(Tally(f)) + Cardinality(T)
               - Cardinality(Tally(f) \cap T)
      /\ Cardinality(Tally(f) \cap T) \in Nat
  BY <1>2, TallyType, FS_Union, FS_Intersection, FS_CardinalityType
<1>5. Cardinality(Tally(g)) <= Cardinality(Tally(f) \cup T)
  BY <1>3, <1>4, FS_Subset
<1> QED
  BY <1>1, <1>2, <1>4, <1>5, TallyType

\* The restarts of the pods that count are among those of all pods.
LEMMA SumBelowTally ==
  ASSUME IInv, NEW S \in SUBSET Procs
  PROVE  /\ Sum(S, restarts) <= Cardinality(Tally(Load))
         /\ Sum(S, restarts) \in Nat
<1> DEFINE A == {r \in S \X (1..MaxRestarts) : r[2] <= restarts[r[1]]}
<1>1. \A p \in Procs :
        restarts[p] \in Nat /\ Load[p] \in Nat /\ restarts[p] <= Load[p]
  BY BackoffAssumption DEF Load, IInv, TypeOK
<1>2. A \subseteq Tally(Load)
  <2> SUFFICES ASSUME NEW r \in A PROVE r \in Tally(Load)
    OBVIOUS
  <2>1. PICK p \in S, i \in 1..MaxRestarts : r = <<p, i>> /\ i <= restarts[p]
    OBVIOUS
  <2>2. i \in 1..(MaxRestarts + 1) /\ i <= Load[p]
    BY <1>1, <2>1, BackoffAssumption
  <2> QED
    BY <2>1, <2>2 DEF Tally
<1>3. Cardinality(A) <= Cardinality(Tally(Load)) /\ IsFiniteSet(A)
  BY <1>2, TallyType, FS_Subset
<1>4. Cardinality(A) \in Nat
  BY <1>3, FS_CardinalityType
<1> QED
  BY <1>3, <1>4 DEF Sum

\* A step of another pod adds to the load of a pod only with a new version.
LEMMA OthersLoad ==
  ASSUME IInv, IInv', NEW p \in Procs,
         pc'[p] = pc[p], copy'[p] = copy[p], restarts'[p] = restarts[p],
         secret' = secret \/ secret'.rv = secret.rv + 1
  PROVE  Load'[p] <= Load[p] + (secret'.rv - secret.rv)
<1>1. restarts[p] \in Nat /\ secret.rv \in Nat
  BY Amounts
<1> QED
  BY <1>1 DEF Load, Doomed

\* What a pod does itself adds to its load only when a fault hits it.
LEMMA OwnLoad ==
  ASSUME IInv, IInv', [Next]_vars, admin' = 0, Owner # "others",
         NEW n \in Nat, NEW q \in Procs, Owes(q, n),
         Works(job[q]),
         \/ Start(q) \/ GetNotFound(q) \/ GetFound(q) \/ Create(q) \/ Update(q)
         \/ GetError(q) \/ Kill(q) \/ GiveUp(q) \/ CreateLost(q)
         \/ UpdateLost(q) \/ Restart(q)
  PROVE  Load'[q] <= Load[q] + (faults' - faults)
<1>0. /\ pc \in [Procs -> PC]
      /\ copy \in [Procs -> Object]
      /\ restarts \in [Procs -> 0..MaxRestarts]
      /\ secret \in Object
  BY DEF IInv, TypeOK
<1>1. /\ faults \in Nat /\ secret.rv \in Nat
      /\ restarts[q] \in Nat /\ copy[q].rv \in Nat
      /\ copy[q].rv <= secret.rv
  BY Amounts
<1>2. /\ Load[q] = IF pc[q] = "failed" \/ Doomed(q)
                   THEN restarts[q] + 1 ELSE restarts[q]
      /\ Load'[q] = IF pc'[q] = "failed" \/ Doomed(q)'
                    THEN restarts'[q] + 1 ELSE restarts'[q]
  BY DEF Load
<1>3. secret.exists => secret.labels # Foreign
  BY DEF Owner
<1>4. CASE Start(q) \/ GetNotFound(q) \/ GiveUp(q)
  <2>1. /\ pc'[q] \in {"get", "create", "stopped"}
        /\ pc'[q] = "create" => ~ secret.exists
        /\ UNCHANGED <<secret, restarts, faults>>
    BY <1>0, <1>4 DEF Start, GetNotFound, GiveUp, Works, Goto
  <2> QED
    BY <1>1, <1>2, <2>1 DEF Doomed
<1>5. CASE GetFound(q)
  <2>1. Edit(q, secret) /\ UNCHANGED <<secret, restarts, faults>>
    BY <1>3, <1>5 DEF GetFound
  <2>2. pc'[q] = "update" /\ copy'[q].rv = secret.rv
    BY <2>1, <1>0, WorkIsEdited
  <2> QED
    BY <1>1, <1>2, <2>1, <2>2 DEF Doomed
<1>6. CASE Create(q)
  <2>1. CASE secret.exists
    BY <1>0, <1>1, <1>2, <1>6, <2>1 DEF Create, Goto, Doomed
  <2>2. CASE ~ secret.exists
    <3> DEFINE new == Created(secret, job[q].labels, NoData)
    <3>1. Edit(q, new) /\ secret' = new /\ UNCHANGED <<restarts, faults>>
      BY <1>6, <2>2 DEF Create
    <3>2. new \in Object
      BY <1>0, ObjectTypes, CurrentType DEF IInv
    <3> HIDE DEF new
    <3>3. pc'[q] = "update" /\ copy'[q].rv = secret'.rv
      BY <3>1, <3>2, <1>0, WorkIsEdited
    <3>4. secret'.rv \in Nat
      BY <3>1, <3>2 DEF Object
    <3> QED
      BY <1>1, <1>2, <3>1, <3>3, <3>4 DEF Doomed
  <2> QED
    BY <2>1, <2>2
<1>7. CASE Update(q)
  <2>1. CASE Accepts(secret, copy[q])
    <3>1. pc'[q] \in {"get", "done"} /\ UNCHANGED <<restarts, faults>>
      BY <1>0, <1>7, <2>1 DEF Update, Advance, Goto
    <3> QED
      BY <1>1, <1>2, <3>1 DEF Doomed
  <2>2. CASE ~ Accepts(secret, copy[q])
    <3>1. pc[q] = "update" /\ UNCHANGED <<restarts, faults>>
      BY <1>7, <2>2 DEF Update
    <3>2. secret.exists
      BY <3>1 DEF Owes
    <3>3. Doomed(q)
      BY <1>1, <2>2, <3>1, <3>2 DEF Accepts, Doomed
    <3> QED
      BY <1>1, <1>2, <3>1, <3>3
  <2> QED
    BY <2>1, <2>2
<1>8. CASE GetError(q) \/ Kill(q) \/ CreateLost(q) \/ UpdateLost(q)
  <2>1. UNCHANGED restarts /\ faults' = faults + 1
    BY <1>8 DEF GetError, Kill, CreateLost, UpdateLost, Fault
  <2> QED
    BY <1>1, <1>2, <2>1
<1>9. CASE Restart(q)
  <2>1. /\ pc[q] = "failed" /\ pc'[q] = "idle" /\ restarts'[q] = restarts[q] + 1
        /\ UNCHANGED faults
    BY <1>0, <1>9 DEF Restart, Goto
  <2> QED
    BY <1>1, <1>2, <2>1 DEF Doomed
<1> QED
  BY <1>4, <1>5, <1>6, <1>7, <1>8, <1>9

\* A step adds to the tally no more than the fault and, for all pods but
\* one, the version that it counts.
LEMMA TallyStep ==
  ASSUME IInv, IInv', [Next]_vars, admin' = 0, Owner' # "others",
         NEW n \in Nat, Account(n), NEW j \in Jobs, Works(j), OnlyList(j)
  PROVE  Cardinality(Tally(Load')) <=
           Cardinality(Tally(Load)) + (faults' - faults)
             + (IF secret'.rv = secret.rv THEN 0 ELSE Cardinality(Procs) - 1)
<1>1. /\ admin = 0 /\ job' = job
      /\ ~ AdminDelete /\ ~ AdminCreate
      /\ secret' = secret \/ (secret'.exists /\ secret'.rv = secret.rv + 1)
      /\ Owner # "others"
      /\ faults' = faults \/ faults' = faults + 1
  BY AloneTheVersionGrows
<1>2. /\ secret.rv \in Nat /\ faults \in Nat
      /\ Load \in [Procs -> Nat] /\ Load' \in [Procs -> Nat]
      /\ Cardinality(Procs) \in Nat
      /\ Cardinality(Tally(Load)) \in Nat /\ Cardinality(Tally(Load')) \in Nat
  <2>1. secret.rv \in Nat /\ faults \in Nat
    BY SecretsAssumption DEF IInv, TypeOK, Object
  <2>2. Load \in [Procs -> Nat] /\ Load' \in [Procs -> Nat]
    <3>1. \A p \in Procs : restarts[p] \in Nat /\ restarts'[p] \in Nat
      BY BackoffAssumption DEF IInv, TypeOK
    <3> QED
      BY <3>1 DEF Load
  <2>3. Cardinality(Procs) \in Nat
    BY FS_CardinalityType, BackoffAssumption
  <2> QED
    BY <2>1, <2>2, <2>3, TallyType
<1>3. CASE UNCHANGED vars
  <2>1. Load' = Load /\ secret'.rv = secret.rv /\ faults' = faults
    BY <1>3 DEF vars, Load, Doomed
  <2> QED
    BY <1>2, <2>1
<1>4. ASSUME NEW q \in Procs,
             \/ Start(q) \/ GetNotFound(q) \/ GetFound(q) \/ Create(q)
             \/ Update(q) \/ GetError(q) \/ Kill(q) \/ GiveUp(q)
             \/ CreateLost(q) \/ UpdateLost(q) \/ Restart(q)
      PROVE  Cardinality(Tally(Load')) <=
               Cardinality(Tally(Load)) + (faults' - faults)
                 + (IF secret'.rv = secret.rv THEN 0
                                              ELSE Cardinality(Procs) - 1)
  <2> DEFINE hit   == IF faults' = faults THEN {} ELSE {q}
             beaten == IF secret'.rv = secret.rv THEN {} ELSE Procs \ {q}
             P      == hit \cup beaten
  <2>1. Load'[q] <= Load[q] + (faults' - faults)
    BY <1>1, <1>4, OwnLoad DEF Account, OnlyList
  <2>2. \A p \in Procs : p # q => Load'[p] <= Load[p] + (secret'.rv - secret.rv)
    BY <1>1, <1>4, OwnStepIsOwn, OthersLoad
  <2>3. \A p \in Procs : Load'[p] <= (IF p \in P THEN Load[p] + 1 ELSE Load[p])
    BY <1>1, <1>2, <2>1, <2>2
  <2>4. Cardinality(Tally(Load')) <= Cardinality(Tally(Load)) + Cardinality(P)
    BY <1>2, <2>3, TallyGrows
  <2>5. Cardinality(hit) = faults' - faults /\ IsFiniteSet(hit)
    <3>1. CASE faults' = faults
      BY <1>2, <3>1, FS_EmptySet
    <3>2. CASE faults' = faults + 1
      <4>1. faults' # faults /\ faults' - faults = 1
        BY <1>2, <3>2
      <4>2. hit = {q}
        BY <4>1
      <4> HIDE DEF hit
      <4> QED
        BY <4>1, <4>2, FS_Singleton
    <3> QED
      BY <1>1, <3>1, <3>2
  <2>6. /\ Cardinality(beaten)
             = (IF secret'.rv = secret.rv THEN 0 ELSE Cardinality(Procs) - 1)
        /\ IsFiniteSet(beaten)
    <3>1. /\ IsFiniteSet(Procs \ {q})
          /\ Cardinality(Procs \ {q}) = Cardinality(Procs) - 1
      BY FS_RemoveElement, BackoffAssumption
    <3> QED
      BY <3>1, FS_EmptySet
  <2>7. Cardinality(P) = Cardinality(hit) + Cardinality(beaten)
    <3>1. Cardinality(hit) \in Nat /\ Cardinality(beaten) \in Nat
      BY <2>5, <2>6, FS_CardinalityType
    <3>2. hit \cap beaten = {}
      OBVIOUS
    <3> HIDE DEF hit, beaten
    <3>3. Cardinality(P)
            = Cardinality(hit) + Cardinality(beaten)
                - Cardinality(hit \cap beaten)
      BY <2>5, <2>6, FS_Union
    <3> QED
      BY <3>1, <3>2, <3>3, FS_EmptySet
  <2> QED
    BY <1>1, <1>2, <2>4, <2>5, <2>6, <2>7
<1> QED
  BY <1>1, <1>3, <1>4 DEF Next

LEMMA OneMore ==
  ASSUME NEW a \in Int, NEW b \in Nat
  PROVE  a * (b + 1) = a * b + a
OBVIOUS

LEMMA SharedStep ==
  ASSUME IInv, IInv', [Next]_vars, NEW j \in Jobs, Works(j), OnlyList(j),
         NEW n \in Nat, Account(n), SharedAccount(n)
  PROVE  SharedAccount(n)'
<1> DEFINE a == Cardinality(Procs) - 1
           b == secret.rv - n
<1> SUFFICES ASSUME admin' = 0, Owner' # "others"
             PROVE  Cardinality(Tally(Load')) <= faults' + a * (secret'.rv - n)
  BY DEF SharedAccount
<1>1. /\ admin = 0 /\ job' = job
      /\ secret' = secret \/ secret'.rv = secret.rv + 1
      /\ Owner # "others"
      /\ faults' = faults \/ faults' = faults + 1
  BY AloneTheVersionGrows
<1>3. Cardinality(Tally(Load)) <= faults + a * b
  BY <1>1 DEF SharedAccount
<1>4. /\ a \in Int /\ b \in Nat /\ a * b \in Int
      /\ faults \in Nat /\ secret.rv \in Nat
      /\ Cardinality(Tally(Load)) \in Nat /\ Cardinality(Tally(Load')) \in Nat
  <2>1. a \in Int
    BY FS_CardinalityType, BackoffAssumption
  <2>2. b \in Nat /\ faults \in Nat /\ secret.rv \in Nat
    BY SecretsAssumption DEF Account, IInv, TypeOK, Object
  <2>3. a * b \in Int
    BY <2>1, <2>2
  <2> QED
    BY <2>1, <2>2, <2>3, TallyType
<1>5. Cardinality(Tally(Load')) <=
        Cardinality(Tally(Load)) + (faults' - faults)
          + (IF secret'.rv = secret.rv THEN 0 ELSE a)
  BY TallyStep
<1> HIDE DEF a, b
<1>6. CASE secret'.rv = secret.rv
  <2>1. a * (secret'.rv - n) = a * b
    BY <1>6 DEF b
  <2> QED
    BY <1>1, <1>3, <1>4, <1>5, <1>6, <2>1
<1>7. CASE secret'.rv # secret.rv
  <2>1. secret'.rv - n = b + 1
    BY <1>1, <1>4, <1>7 DEF b
  <2>2. a * (secret'.rv - n) = a * b + a
    BY <1>4, <2>1, OneMore
  <2> QED
    BY <1>1, <1>3, <1>4, <1>5, <1>7, <2>2
<1> QED
  BY <1>6, <1>7

-------------------------------------------------------------------------------
(***************************************************************************)
(* The versions that the pods of one Job make.  They have one list, so an  *)
(* update either gives the Secret a value it lacks, or the Job's labels.   *)
(***************************************************************************)

\* The keys that j asks for, and those of them without a value.
ListedKeys(j)    == {j.requests[i].key : i \in DOMAIN j.requests}
Without(j, data) == {k \in ListedKeys(j) : data[k] = None}
Lacking(j)       == Without(j, secret.data)

\* Whether the Secret is still to be created or labelled by a pod of j.
Unlabelled(j) == IF secret.exists /\ secret.labels = j.labels THEN 0 ELSE 1

\* The highest version to which the pods of j can take the Secret.
Ceiling(j) == secret.rv + Cardinality(Lacking(j)) + Unlabelled(j)

\* Counted from the version n, at most m + 1 versions are to be had.
Limited(j, m, n) ==
  /\ n <= secret.rv
  /\ Account(n)
  /\ admin = 0 => Ceiling(j) <= n + m + 1

LEMMA WithoutIsFinite ==
  ASSUME NEW j \in Jobs, NEW data
  PROVE  /\ IsFiniteSet(Without(j, data))
         /\ Cardinality(Without(j, data)) \in Nat
         /\ Cardinality(Without(j, data)) <= Len(j.requests)
<1> DEFINE places == 1..Len(j.requests)
           keyAt  == [i \in places |-> j.requests[i].key]
<1>1. j.requests \in Seq(Request)
  BY SecretsAssumption
<1>2. /\ Len(j.requests) \in Nat /\ DOMAIN j.requests = places
      /\ IsFiniteSet(places) /\ Cardinality(places) = Len(j.requests)
  <2>1. Len(j.requests) \in Nat /\ DOMAIN j.requests = places
    BY <1>1
  <2>2. IsFiniteSet(places) /\ Cardinality(places) = Len(j.requests)
    BY <2>1, FS_Interval
  <2> QED
    BY <2>1, <2>2
<1>3. keyAt \in Surjection(places, ListedKeys(j))
  BY <1>2 DEF ListedKeys, Surjection
<1> HIDE DEF places, keyAt
<1>4. /\ IsFiniteSet(ListedKeys(j))
      /\ Cardinality(ListedKeys(j)) <= Len(j.requests)
  BY <1>2, <1>3, FS_Surjection
<1>5. /\ IsFiniteSet(Without(j, data))
      /\ Cardinality(Without(j, data)) <= Cardinality(ListedKeys(j))
  BY <1>4, FS_Subset DEF Without
<1> QED
  BY <1>2, <1>4, <1>5, FS_CardinalityType

LEMMA LackingIsFinite ==
  ASSUME NEW j \in Jobs
  PROVE  /\ IsFiniteSet(Lacking(j))
         /\ Cardinality(Lacking(j)) \in Nat
         /\ Cardinality(Lacking(j))' \in Nat
         /\ Cardinality(Lacking(j)) <= Len(j.requests)
BY WithoutIsFinite DEF Lacking

\* A new version has cost the Secret a lack or has made it the Job's.
LEMMA CeilingStays ==
  ASSUME IInv, IInv', [Next]_vars, NEW j \in Jobs, OnlyList(j), admin' = 0
  PROVE  Ceiling(j)' <= Ceiling(j)
<1>1. /\ secret \in Object /\ secret' \in Object
      /\ secret.rv \in Nat /\ secret'.rv \in Nat
      /\ ~ secret.exists => secret.data = NoData
  BY DEF IInv, TypeOK, Object
<1>2. /\ IsFiniteSet(Lacking(j)) /\ Cardinality(Lacking(j)) \in Nat
      /\ Cardinality(Lacking(j))' \in Nat
  BY LackingIsFinite
<1>3. CASE secret' = secret
  BY <1>1, <1>2, <1>3 DEF Ceiling, Lacking, Without, Unlabelled
<1>4. ASSUME NEW q \in Procs, ~ secret.exists,
             secret' = Created(secret, job[q].labels, NoData)
      PROVE  Ceiling(j)' <= Ceiling(j)
  <2>1. job[q].labels = j.labels /\ j.labels \in Labels
    BY SecretsAssumption DEF OnlyList
  <2>2. /\ secret'.rv = secret.rv + 1 /\ secret'.exists
        /\ secret'.labels = j.labels /\ secret'.data = secret.data
    BY <1>1, <1>4, <2>1, ObjectTypes
  <2>3. Lacking(j)' = Lacking(j)
    BY <2>2 DEF Lacking, Without
  <2> QED
    BY <1>1, <1>2, <1>4, <2>2, <2>3 DEF Ceiling, Unlabelled
<1>5. ASSUME NEW q \in Procs, pc[q] = "update", Accepts(secret, copy[q]),
             secret' = Updated(secret, copy[q])
      PROVE  Ceiling(j)' <= Ceiling(j)
  <2> DEFINE key == Current(q).key
  <2>1. /\ secret.exists /\ secret'.exists
        /\ secret' = secret \/ secret'.rv = secret.rv + 1
        /\ secret'.data[key] # None
        /\ \A k \in Keys : secret'.data[k] # secret.data[k] =>
             k = key /\ secret.data[k] = None
    BY <1>5, StoreKeeps
  <2>2. secret'.labels = j.labels
    <3>1. copy[q].labels = j.labels
      BY <1>5 DEF IInv, CopyIsCurrent, OnlyList
    <3> QED
      BY <3>1, <1>5 DEF Updated
  <2>3. key \in ListedKeys(j) /\ ListedKeys(j) \subseteq Keys
    <3>1. Current(q) = j.requests[at[q]] /\ at[q] \in DOMAIN j.requests
      BY DEF Current, OnlyList, IInv, TypeOK
    <3>2. key \in ListedKeys(j)
      BY <3>1 DEF ListedKeys
    <3>3. j.requests \in Seq(Request)
      BY SecretsAssumption
    <3>4. \A i \in DOMAIN j.requests : j.requests[i] \in Request
      BY <3>3
    <3>5. \A i \in DOMAIN j.requests : j.requests[i].key \in Keys
      BY <3>4 DEF Request
    <3> QED
      BY <3>2, <3>5 DEF ListedKeys
  <2> HIDE DEF key
  <2>4. Lacking(j)' = Lacking(j) \ {key}
    BY <2>1, <2>3 DEF Lacking, Without
  <2>5. Cardinality(Lacking(j))' =
          IF key \in Lacking(j) THEN Cardinality(Lacking(j)) - 1
                                ELSE Cardinality(Lacking(j))
    BY <1>2, <2>4, FS_RemoveElement
  <2>6. CASE secret.labels # j.labels
    BY <1>1, <1>2, <2>1, <2>2, <2>5, <2>6 DEF Ceiling, Unlabelled
  <2>7. CASE secret.labels = j.labels /\ key \in Lacking(j)
    BY <1>1, <1>2, <2>1, <2>2, <2>5, <2>7 DEF Ceiling, Unlabelled
  <2>8. CASE secret.labels = j.labels /\ key \notin Lacking(j)
    <3>1. secret.data[key] # None
      BY <2>3, <2>8 DEF Lacking, Without
    <3>2. \A k \in Keys : secret'.data[k] = secret.data[k]
      BY <2>1, <3>1
    <3>3. secret'.data = secret.data
      BY <1>1, <3>2 DEF Object, Data
    <3>4. secret' = secret
      BY <1>5, <2>2, <2>8, <3>3 DEF Updated
    <3> QED
      BY <1>3, <3>4
  <2> QED
    BY <2>6, <2>7, <2>8
<1>6. ~ AdminDelete /\ ~ AdminCreate
  BY AloneTheVersionGrows
<1> QED
  BY <1>3, <1>4, <1>5, <1>6, EffectOfStep

LEMMA LimitedStep ==
  ASSUME IInv, IInv', [Next]_vars, NEW j \in Jobs, OnlyList(j),
         NEW m \in Nat, NEW n \in Nat, Limited(j, m, n)
  PROVE  Limited(j, m, n)'
<1>1. Account(n)' /\ n <= secret'.rv
  <2>1. Account(n)'
    BY AccountStep DEF Limited
  <2> QED
    BY <2>1 DEF Account
<1>2. ASSUME admin' = 0 PROVE Ceiling(j)' <= n + m + 1
  <2>1. Ceiling(j) <= n + m + 1
    BY <1>2, AloneTheVersionGrows DEF Limited
  <2>2. Ceiling(j)' <= Ceiling(j)
    BY <1>2, CeilingStays
  <2>3. Ceiling(j) \in Nat /\ Ceiling(j)' \in Nat
    BY LackingIsFinite
       DEF Ceiling, Unlabelled, IInv, TypeOK, Object
  <2> QED
    BY <2>1, <2>2, <2>3
<1> QED
  BY <1>1, <1>2 DEF Limited

-------------------------------------------------------------------------------
(***************************************************************************)
(* Both counts together: the Job is not given up.                          *)
(***************************************************************************)
Budget(j, m) ==
  OnlyList(j) /\ \E n \in Nat : Limited(j, m, n) /\ SharedAccount(n)

Within(m) == admin = 0 /\ Owner # "others" /\ WithinBudget(m)
Below(m)  == Within(m) => \A p \in Procs :
                            ~ PastBackoffLimit(Active(job[p]), restarts)
GoesOn(m) == Within(m) => \A p \in Procs : pc[p] # "stopped"

LEMMA InitBudget ==
  ASSUME Init, NEW j \in Jobs, OnlyList(j),
         NEW m \in Nat, Cardinality(Lacking(j)) <= m
  PROVE  Budget(j, m) /\ GoesOn(m)
<1>1. secret.rv \in Nat
  BY SecretsAssumption DEF Init, Object
<1>2. Account(secret.rv)
  BY <1>1, InitAccount
<1>3. Cardinality(Lacking(j)) \in Nat
  BY LackingIsFinite
<1>4. Limited(j, m, secret.rv)
  BY <1>1, <1>2, <1>3 DEF Limited, Ceiling, Unlabelled
<1>5. SharedAccount(secret.rv)
  <2>1. \A p \in Procs : Load[p] = 0
    BY DEF Init, Load, Doomed
  <2>2. Tally(Load) = {}
    BY <2>1, BackoffAssumption DEF Tally
  <2>3. (Cardinality(Procs) - 1) * (secret.rv - secret.rv) = 0
    <3>1. Cardinality(Procs) - 1 \in Int /\ secret.rv - secret.rv = 0
      BY <1>1, FS_CardinalityType, BackoffAssumption
    <3> QED
      BY <3>1
  <2> QED
    BY <2>2, <2>3, FS_EmptySet DEF Init, SharedAccount
<1>6. GoesOn(m)
  BY DEF Init, GoesOn
<1> QED
  BY <1>1, <1>4, <1>5, <1>6 DEF Budget

LEMMA BudgetStep ==
  ASSUME IInv, IInv', [Next]_vars,
         NEW j \in Jobs, Works(j), NEW m \in Nat, Budget(j, m)
  PROVE  Budget(j, m)'
<1>1. PICK n \in Nat : Limited(j, m, n) /\ SharedAccount(n)
  BY DEF Budget
<1>2. OnlyList(j) /\ OnlyList(j)'
  BY JobsFixed DEF IInv, OnlyList, Budget
<1>3. Account(n)
  BY <1>1 DEF Limited
<1>4. Limited(j, m, n)'
  BY <1>1, <1>2, LimitedStep
<1>5. SharedAccount(n)'
  BY <1>1, <1>2, <1>3, SharedStep
<1> QED
  BY <1>2, <1>4, <1>5 DEF Budget

LEMMA MoreTimes ==
  ASSUME NEW a \in Nat, NEW b \in Nat, NEW c \in Nat, b <= c
  PROVE  a * b <= a * c /\ a * b \in Nat /\ a * c \in Nat
<1>1. c - b \in Nat /\ c = b + (c - b)
  OBVIOUS
<1>2. a * (c - b) \in Nat /\ a * b \in Nat
  BY <1>1
<1>3. a * c = a * b + a * (c - b)
  BY <1>1
<1> QED
  BY <1>2, <1>3

\* Within the budget the sum stays below the limit.
LEMMA BudgetSuffices ==
  ASSUME IInv, NEW j \in Jobs, NEW m \in Nat, Budget(j, m)
  PROVE  Below(m)
<1> SUFFICES ASSUME admin = 0, Owner # "others", WithinBudget(m),
                    NEW p \in Procs
             PROVE  ~ PastBackoffLimit(Active(job[p]), restarts)
  BY DEF Below, Within
<1> DEFINE a == Cardinality(Procs) - 1
<1>1. PICK n \in Nat : Limited(j, m, n) /\ SharedAccount(n)
  BY DEF Budget
<1>2. a \in Nat
  <2>1. Cardinality(Procs) \in Nat /\ Cardinality(Procs) # 0
    BY FS_CardinalityType, FS_EmptySet, BackoffAssumption
  <2> QED
    BY <2>1
<1>3. secret.rv - n \in Nat /\ secret.rv - n <= m + 1
  <2>1. Cardinality(Lacking(j)) \in Nat
    BY LackingIsFinite
  <2> QED
    BY <1>1, <2>1, Amounts DEF Limited, Ceiling, Unlabelled
<1>4. Cardinality(Tally(Load)) <= faults + a * (secret.rv - n)
  BY <1>1 DEF SharedAccount
<1>5. faults + a * (m + 1) < BackoffLimit
  BY DEF WithinBudget
<1>6. /\ Sum(Active(job[p]), restarts) <= Cardinality(Tally(Load))
      /\ Sum(Active(job[p]), restarts) \in Nat
  BY SumBelowTally DEF Active
<1>7. faults \in Nat /\ Cardinality(Tally(Load)) \in Nat /\ BackoffLimit \in Nat
  BY Amounts, TallyType, BackoffAssumption
<1> HIDE DEF a
<1>8. /\ a * (secret.rv - n) <= a * (m + 1)
      /\ a * (secret.rv - n) \in Nat /\ a * (m + 1) \in Nat
  BY <1>2, <1>3, MoreTimes
<1> QED
  BY <1>4, <1>5, <1>6, <1>7, <1>8 DEF PastBackoffLimit

\* Only the controller's verdict stops a pod.
LEMMA OnlyGiveUpStops ==
  ASSUME IInv, [Next]_vars, NEW p \in Procs, pc'[p] = "stopped"
  PROVE  pc[p] = "stopped" \/ GiveUp(p)
<1>0. pc \in [Procs -> PC]
  BY DEF IInv, TypeOK
<1>1. ASSUME NEW q \in Procs, GetFound(q) \/ Create(q)
      PROVE  pc[p] = "stopped"
  BY <1>0, <1>1 DEF GetFound, Create, Edit, Goto
<1>2. ASSUME NEW q \in Procs, Update(q)
      PROVE  pc[p] = "stopped"
  BY <1>0, <1>2 DEF Update, Advance, Goto
<1>3. ASSUME NEW q \in Procs,
             \/ Start(q) \/ GetNotFound(q) \/ GetError(q) \/ Kill(q)
             \/ CreateLost(q) \/ UpdateLost(q) \/ Restart(q)
      PROVE  pc[p] = "stopped"
  BY <1>0, <1>3 DEF Start, GetNotFound, GetError, Kill, CreateLost, UpdateLost,
                    Restart, Goto
<1>4. ASSUME NEW q \in Procs, GiveUp(q), q # p
      PROVE  pc[p] = "stopped"
  BY <1>0, <1>4 DEF GiveUp, Goto
<1>5. CASE AdminDelete \/ AdminCreate \/ UNCHANGED vars
  BY <1>5 DEF AdminDelete, AdminCreate, Admin, vars
<1> QED
  BY <1>1, <1>2, <1>3, <1>4, <1>5 DEF Next

LEMMA GoesOnStep ==
  ASSUME IInv, IInv', [Next]_vars, NEW m \in Nat, Below(m), GoesOn(m)
  PROVE  GoesOn(m)'
<1> SUFFICES ASSUME admin' = 0, Owner' # "others", WithinBudget(m)',
                    NEW p \in Procs
             PROVE  pc'[p] # "stopped"
  BY DEF GoesOn, Within
<1>1. /\ admin = 0 /\ Owner # "others"
      /\ faults' = faults \/ faults' = faults + 1
  BY AloneTheVersionGrows
<1>2. WithinBudget(m)
  <2> DEFINE a == (Cardinality(Procs) - 1) * (m + 1)
  <2>1. faults \in Nat /\ BackoffLimit \in Nat /\ a \in Int
    <3>1. Cardinality(Procs) - 1 \in Int /\ m + 1 \in Int
      BY FS_CardinalityType, BackoffAssumption
    <3> QED
      BY <3>1, Amounts, BackoffAssumption
  <2>2. faults' + a < BackoffLimit
    BY DEF WithinBudget
  <2>3. (faults + a < BackoffLimit) => WithinBudget(m)
    BY DEF WithinBudget
  <2> HIDE DEF a
  <2> QED
    BY <1>1, <2>1, <2>2, <2>3
<1>3. /\ \A q \in Procs : pc[q] # "stopped"
      /\ ~ PastBackoffLimit(Active(job[p]), restarts)
  BY <1>1, <1>2 DEF Below, GoesOn, Within
<1> QED
  BY <1>3, OnlyGiveUpStops DEF GiveUp

\* The pods of one Job, any number of which overlap, with a list that works:
\* of m keys without a value at the start, a backoffLimit above the faults
\* and m + 1 restarts of every pod but one, added up over the pods, is
\* enough: one for each key and one for the creation of the Secret or its new
\* labels.
THEOREM JobNeverGivesUp ==
  ASSUME NEW j \in Jobs, Works(j), NEW m \in Nat
  PROVE  Spec /\ OnlyList(j) /\ Cardinality(Lacking(j)) <= m
           => []NeverGivesUp(m)
<1>1. Init /\ OnlyList(j) /\ Cardinality(Lacking(j)) <= m
        => Budget(j, m) /\ GoesOn(m)
  BY InitBudget
<1>2. IInv /\ IInv' /\ [Next]_vars /\ Budget(j, m) => Budget(j, m)'
  BY BudgetStep
<1>3. IInv /\ Budget(j, m) => Below(m)
  BY BudgetSuffices
<1>4. IInv /\ IInv' /\ [Next]_vars /\ Below(m) /\ GoesOn(m) => GoesOn(m)'
  BY GoesOnStep
<1>5. Below(m) /\ GoesOn(m) => NeverGivesUp(m)
  BY DEF Below, GoesOn, Within, NeverGivesUp
<1> QED
  BY <1>1, <1>2, <1>3, <1>4, <1>5, Invariant, PTL DEF Spec

\* Whatever the Secret holds at the start, one restart of every pod but one
\* for each entry of the list, and one more, are enough.
THEOREM ShortListNeverGivesUp == Spec => []ListNeverGivesUp
<1> DEFINE Budgets == \A j \in Jobs : OneJob(j) =>
                        Budget(j, Len(j.requests)) /\ GoesOn(Len(j.requests))
<1>0. \A j \in Jobs : Len(j.requests) \in Nat
  BY SecretsAssumption
<1>1. Init => Budgets
  BY <1>0, InitBudget, LackingIsFinite DEF OneJob, OnlyList
<1>2. IInv /\ IInv' /\ [Next]_vars /\ Budgets => Budgets'
  <2> SUFFICES ASSUME IInv, IInv', [Next]_vars, Budgets,
                      NEW j \in Jobs, OneJob(j)'
               PROVE  /\ Budget(j, Len(j.requests))'
                      /\ GoesOn(Len(j.requests))'
    OBVIOUS
  <2>1. OneJob(j)
    BY JobsFixed DEF IInv, OneJob
  <2>2. Budget(j, Len(j.requests)) /\ GoesOn(Len(j.requests)) /\ Works(j)
    BY <2>1 DEF OneJob
  <2>3. Below(Len(j.requests))
    BY <1>0, <2>2, BudgetSuffices
  <2> QED
    BY <1>0, <2>2, <2>3, BudgetStep, GoesOnStep
<1>3. IInv /\ Budgets => ListNeverGivesUp
  <2> SUFFICES ASSUME IInv, Budgets, NEW j \in Jobs, OneJob(j)
               PROVE  NeverGivesUp(Len(j.requests))
    BY DEF ListNeverGivesUp
  <2>1. Budget(j, Len(j.requests)) /\ GoesOn(Len(j.requests))
    OBVIOUS
  <2>2. Below(Len(j.requests))
    BY <1>0, <2>1, BudgetSuffices
  <2> QED
    BY <2>1, <2>2 DEF Below, GoesOn, Within, NeverGivesUp
<1> HIDE DEF Budgets
<1> QED
  BY <1>1, <1>2, <1>3, Invariant, PTL DEF Spec
===============================================================================
