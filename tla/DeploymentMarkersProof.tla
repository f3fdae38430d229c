------------------------ MODULE DeploymentMarkersProof ------------------------
(***************************************************************************)
(* Proofs about DeploymentMarkers, for any number of processes, any        *)
(* command lines and any bound on faults and restarts.                     *)
(*                                                                         *)
(* The argument is that of optimistic concurrency.  A process works on a   *)
(* copy; CopyIsCurrent says that as long as the version of the copy is     *)
(* still the version in the cluster, the copy is what the step makes of    *)
(* the ConfigMap as it is now, so that an update which is accepted has the *)
(* effect of a check and an assignment made in one step.                   *)
(***************************************************************************)
EXTENDS DeploymentMarkers, FiniteSetTheorems, TLAPS

IInv == TypeOK /\ VersionsGrow /\ CopyIsCurrent

-------------------------------------------------------------------------------
(***************************************************************************)
(* The operators on objects.                                               *)
(***************************************************************************)

\* The marker a process is handling is one of its command line.
LEMMA CurrentType ==
  ASSUME TypeOK, NEW p \in Procs
  PROVE  /\ job[p] \in Jobs
         /\ job[p].labels \in Labels
         /\ Current(p) \in Marker
BY MarkersAssumption DEF TypeOK, Current

\* The objects that the code and the server make are objects.
LEMMA ObjectTypes ==
  ASSUME NEW obj \in Object
  PROVE  /\ Removed(obj) \in Object
         /\ Removed(obj).rv = obj.rv
         /\ ~ Removed(obj).exists
         /\ NoData \in Data
         /\ \A l \in Labels \cup {Foreign}, d \in Data :
              /\ Created(obj, l, d) \in Object
              /\ Created(obj, l, d).exists
              /\ Created(obj, l, d).labels = l
              /\ Created(obj, l, d).data = d
              /\ Created(obj, l, d).rv = obj.rv + 1
BY DEF Object, Data, NoData, Removed, Created

\* Preparing an object changes nothing but its labels and its data.
LEMMA PreparedType ==
  ASSUME NEW obj \in Object, NEW j \in Jobs, NEW m \in Marker
  PROVE  /\ Prepared(j, m, obj) \in Object
         /\ Prepared(j, m, obj).exists = obj.exists
         /\ Prepared(j, m, obj).rv = obj.rv
         /\ Prepared(j, m, obj).labels = j.labels
         /\ \A k \in Keys :
              \/ Prepared(j, m, obj).data[k] = obj.data[k]
              \/ /\ j.step = "post" 
                 /\ k = m.key
                 /\ Prepared(j, m, obj).data[k] = m.newValue
         /\ j.step = "post" => Prepared(j, m, obj).data[m.key] = m.newValue
BY MarkersAssumption DEF Object, Data, Prepared, Marker

\* A stored update keeps the version exactly when it changes nothing.
LEMMA UpdatedType ==
  ASSUME NEW obj \in Object, NEW sent \in Object, Accepts(obj, sent), sent.exists
  PROVE  /\ Updated(obj, sent) \in Object
         /\ Updated(obj, sent).exists
         /\ Updated(obj, sent).data = sent.data
         /\ \/ Updated(obj, sent) = obj
            \/ Updated(obj, sent).rv = obj.rv + 1
BY DEF Object, Updated, Accepts

-------------------------------------------------------------------------------
(***************************************************************************)
(* The inductive invariant.                                                *)
(***************************************************************************)

LEMMA InitEstablishes == Init => IInv
<1> SUFFICES ASSUME Init PROVE IInv
  OBVIOUS
<1>1. cm \in Object
  BY MarkersAssumption DEF Init
<1>2. TypeOK
  <2>1. \A p \in Procs : 1 \in DOMAIN job[p].markers
    BY MarkersAssumption DEF Init
  <2> QED
    BY <1>1, <2>1, ObjectTypes, MarkersAssumption, BackoffAssumption
    DEF Init, TypeOK, PC
<1>3. VersionsGrow
  BY <1>1, ObjectTypes DEF Init, VersionsGrow, Object
<1>4. CopyIsCurrent
  BY DEF Init, CopyIsCurrent
<1> QED
  BY <1>2, <1>3, <1>4 DEF IInv

\* A step of q that leaves the ConfigMap, the command lines and the copies
\* alone, and takes no process to its update, keeps the invariant.
LEMMA QuietStep ==
  ASSUME IInv, TypeOK', UNCHANGED <<cm, job, copy>>,
         \A p \in Procs : pc'[p] = "update" => pc[p] = "update" /\ at'[p] = at[p]
  PROVE  IInv'
<1>1. VersionsGrow'
  BY DEF IInv, VersionsGrow
<1>2. CopyIsCurrent'
  BY DEF IInv, CopyIsCurrent, Current
<1> QED
  BY <1>1, <1>2 DEF IInv

\* What Edit leaves in the copy of q is current, and nothing else changes.
LEMMA EditKeeps ==
  ASSUME TypeOK, NEW q \in Procs, NEW obj \in Object, Edit(q, obj)
  PROVE  /\ pc' \in [Procs -> PC]
         /\ copy' \in [Procs -> Object]
         /\ \A p \in Procs : p # q => pc'[p] = pc[p] /\ copy'[p] = copy[p]
         /\ copy'[q].rv = copy[q].rv \/ copy'[q].rv = obj.rv
         /\ pc'[q] = "update" =>
              /\ ~ Refuses(job[q], Current(q), obj)
              /\ copy'[q] = Prepared(job[q], Current(q), obj)
         /\ pc'[q] \in {"update", "failed"}
<1>1. Prepared(job[q], Current(q), obj) \in Object
  BY CurrentType, PreparedType
<1>2. Prepared(job[q], Current(q), obj).rv = obj.rv
  BY CurrentType, PreparedType
<1> QED
  BY <1>1, <1>2 DEF Edit, Goto, TypeOK, PC

\* An update of q that is accepted stores what its marker makes of the
\* current ConfigMap, and makes every other copy of this version stale
\* unless it changes nothing.
LEMMA StoreKeeps ==
  ASSUME IInv, NEW q \in Procs, pc[q] = "update", Accepts(cm, copy[q]),
         cm' = Updated(cm, copy[q])
  PROVE  /\ cm' \in Object
         /\ cm'.exists
         /\ cm' = cm \/ cm'.rv = cm.rv + 1
         /\ cm'.data = Prepared(job[q], Current(q), cm).data
<1>1. copy[q] = Prepared(job[q], Current(q), cm)
  BY DEF IInv, CopyIsCurrent
<1>2. cm \in Object /\ copy[q] \in Object
  BY DEF IInv, TypeOK
<1>3. copy[q].exists
  BY <1>1, <1>2, CurrentType, PreparedType DEF IInv, Accepts
<1> QED
  BY <1>1, <1>2, <1>3, UpdatedType

\* When the ConfigMap of a step is a new version of it, or gone, the only
\* copies that are still current are those the step itself has made.
LEMMA NewVersionStep ==
  ASSUME IInv, TypeOK', UNCHANGED job,
         cm'.rv = cm.rv + 1 \/ (cm'.rv = cm.rv /\ ~ cm'.exists),
         NEW q \in Procs,
         \A p \in Procs : p # q => copy'[p] = copy[p],
         copy'[q] = copy[q] \/ copy'[q].rv = cm'.rv,
         pc'[q] = "update" =>
           /\ cm'.labels # Foreign
           /\ ~ Refuses(job[q], Current(q)', cm')
           /\ copy'[q] = Prepared(job[q], Current(q)', cm')
  PROVE  IInv'
<1>1. /\ cm.rv \in Nat /\ cm'.rv \in Nat
      /\ \A p \in Procs : copy[p].rv \in Nat
  BY DEF IInv, TypeOK, Object
<1>2. VersionsGrow'
  BY <1>1 DEF IInv, VersionsGrow
<1>3. CopyIsCurrent'
  <2> SUFFICES ASSUME NEW p \in Procs, pc'[p] = "update", Accepts(cm', copy'[p])
               PROVE  /\ cm'.labels # Foreign
                      /\ ~ Refuses(job'[p], Current(p)', cm')
                      /\ copy'[p] = Prepared(job'[p], Current(p)', cm')
    BY DEF CopyIsCurrent
  <2>1. CASE p = q
    BY <2>1
  <2>2. CASE p # q
    BY <2>2, <1>1 DEF IInv, VersionsGrow, Accepts
  <2> QED
    BY <2>1, <2>2
<1> QED
  BY <1>2, <1>3 DEF IInv

LEMMA GetFoundKeeps ==
  ASSUME IInv, NEW q \in Procs, GetFound(q)
  PROVE  IInv'
<1>1. cm \in Object
  BY DEF IInv, TypeOK
<1>2. CASE cm.labels = Foreign
  <2>1. TypeOK'
    BY <1>2, CurrentType DEF GetFound, Goto, IInv, TypeOK, PC
  <2> QED
    BY <1>2, <2>1, QuietStep DEF GetFound, Goto, IInv, TypeOK, PC
<1>3. CASE cm.labels # Foreign
  <2>1. Edit(q, cm)
    BY <1>3 DEF GetFound
  <2>2. TypeOK'
    BY <1>1, <2>1, EditKeeps DEF GetFound, IInv, TypeOK
  <2>3. VersionsGrow'
    <3>1. \A p \in Procs : copy[p].rv \in Nat /\ cm.rv \in Nat
      BY DEF IInv, TypeOK, Object
    <3> QED
      BY <3>1, <1>1, <2>1, EditKeeps DEF GetFound, IInv, VersionsGrow
  <2>4. CopyIsCurrent'
    BY <1>1, <1>3, <2>1, EditKeeps DEF GetFound, IInv, CopyIsCurrent, Current
  <2> QED
    BY <2>2, <2>3, <2>4 DEF IInv
<1> QED
  BY <1>2, <1>3

LEMMA CreateKeeps ==
  ASSUME IInv, NEW q \in Procs, Create(q)
  PROVE  IInv'
<1>1. cm \in Object /\ job[q].labels \in Labels
  BY CurrentType DEF IInv, TypeOK
<1>2. CASE cm.exists
  <2>1. TypeOK'
    BY <1>2 DEF Create, Goto, IInv, TypeOK, PC
  <2> QED
    BY <1>2, <2>1, QuietStep DEF Create, Goto, IInv, TypeOK, PC
<1>3. CASE ~ cm.exists
  <2> DEFINE new == Created(cm, job[q].labels, NoData)
  <2>1. cm' = new /\ Edit(q, new) /\ UNCHANGED <<job, at, restarts, faults,
                                                 admin>>
    BY <1>3 DEF Create
  <2>2. new \in Object /\ new.rv = cm.rv + 1 /\ new.labels # Foreign
    BY <1>1, ObjectTypes, ObjectAssumption
  <2> HIDE DEF new
  <2>3. TypeOK'
    BY <2>1, <2>2, EditKeeps DEF IInv, TypeOK
  <2>4. Current(q)' = Current(q)
    BY <2>1 DEF Current
  <2>5. pc'[q] = "update" => /\ ~ Refuses(job[q], Current(q), new)
                            /\ copy'[q] = Prepared(job[q], Current(q), new)
    BY <2>1, <2>2, EditKeeps DEF IInv
  <2>6. copy'[q] = copy[q] \/ copy'[q].rv = new.rv
    BY <2>1, <2>2, EditKeeps, CurrentType, PreparedType DEF IInv, Edit, Goto, TypeOK
  <2>7. \A p \in Procs : p # q => copy'[p] = copy[p]
    BY <2>1, <2>2, EditKeeps DEF IInv
  <2> QED
    BY <2>1, <2>2, <2>3, <2>4, <2>5, <2>6, <2>7, NewVersionStep
<1> QED
  BY <1>2, <1>3

LEMMA UpdateKeeps ==
  ASSUME IInv, NEW q \in Procs, Update(q)
  PROVE  IInv'
<1>1. CASE ~ Accepts(cm, copy[q])
  <2>1. TypeOK'
    BY <1>1 DEF Update, Goto, IInv, TypeOK, PC
  <2> QED
    BY <1>1, <2>1, QuietStep DEF Update, Goto, IInv, TypeOK, PC
<1>2. CASE Accepts(cm, copy[q])
  <2>1. /\ pc[q] = "update" /\ cm' = Updated(cm, copy[q]) /\ Advance(q)
        /\ UNCHANGED <<job, copy, restarts, faults, admin>>
    BY <1>2 DEF Update
  <2>2. cm' \in Object /\ (cm' = cm \/ cm'.rv = cm.rv + 1)
    BY <1>2, <2>1, StoreKeeps
  <2>3. /\ pc' \in [Procs -> PC]
        /\ at' \in [Procs -> Nat \ {0}]
        /\ \A p \in Procs : at'[p] \in DOMAIN job[p].markers
        /\ pc'[q] # "update"
        /\ \A p \in Procs : p # q => pc'[p] = pc[p] /\ at'[p] = at[p]
    <3>1. job[q].markers \in Seq(Marker) /\ at[q] \in DOMAIN job[q].markers
      BY MarkersAssumption DEF IInv, TypeOK
    <3>2. /\ pc'[q] # "update"
          /\ pc' \in [Procs -> PC]
          /\ \A p \in Procs : p # q => pc'[p] = pc[p]
      BY <2>1 DEF Advance, Goto, IInv, TypeOK, PC
    <3>3. \/ at' = at
          \/ at[q] < Len(job[q].markers) /\ at' = [at EXCEPT ![q] = at[q] + 1]
      BY <2>1 DEF Advance
    <3>4. at[q] + 1 \in DOMAIN job[q].markers \/ ~ at[q] < Len(job[q].markers)
      BY <3>1 DEF IInv, TypeOK
    <3>5. /\ at' \in [Procs -> Nat \ {0}]
          /\ \A p \in Procs : p # q => at'[p] = at[p]
          /\ at'[q] \in DOMAIN job[q].markers
      <4>1. at \in [Procs -> Nat \ {0}] /\ at[q] + 1 \in Nat \ {0}
        BY DEF IInv, TypeOK
      <4>2. at[q] \in DOMAIN job[q].markers
        BY DEF IInv, TypeOK
      <4> QED
        BY <3>3, <3>4, <4>1, <4>2
    <3>6. \A p \in Procs : at[p] \in DOMAIN job[p].markers
      BY DEF IInv, TypeOK
    <3> QED
      BY <3>2, <3>5, <3>6
  <2>4. TypeOK'
    BY <2>1, <2>2, <2>3 DEF IInv, TypeOK
  <2>5. CASE cm' = cm
    BY <2>1, <2>3, <2>4, <2>5, QuietStep
  <2>6. CASE cm'.rv = cm.rv + 1
    BY <2>1, <2>3, <2>4, <2>6, NewVersionStep
  <2> QED
    BY <2>2, <2>5, <2>6
<1> QED
  BY <1>1, <1>2

LEMMA UpdateLostKeeps ==
  ASSUME IInv, NEW q \in Procs, UpdateLost(q)
  PROVE  IInv'
<1>1. cm' \in Object /\ (cm' = cm \/ cm'.rv = cm.rv + 1)
  BY StoreKeeps DEF UpdateLost
<1>2. TypeOK'
  BY <1>1, MarkersAssumption DEF UpdateLost, Fault, Goto, IInv, TypeOK, PC
<1>3. /\ pc'[q] = "failed"
      /\ \A p \in Procs : p # q => pc'[p] = pc[p]
  BY DEF UpdateLost, Goto, IInv, TypeOK
<1>4. CASE cm' = cm
  BY <1>2, <1>3, <1>4, QuietStep DEF UpdateLost
<1>5. CASE cm'.rv = cm.rv + 1
  BY <1>2, <1>3, <1>5, NewVersionStep DEF UpdateLost
<1> QED
  BY <1>1, <1>4, <1>5

LEMMA CreateLostKeeps ==
  ASSUME IInv, NEW q \in Procs, CreateLost(q)
  PROVE  IInv'
<1>1. cm' \in Object /\ cm'.rv = cm.rv + 1
  BY ObjectTypes, CurrentType DEF CreateLost, IInv, TypeOK
<1>2. TypeOK'
  BY <1>1, MarkersAssumption DEF CreateLost, Fault, Goto, IInv, TypeOK, PC
<1>3. pc'[q] = "failed"
  BY DEF CreateLost, Goto, IInv, TypeOK
<1> QED
  BY <1>1, <1>2, <1>3, NewVersionStep DEF CreateLost

\* Steps of one process that make no call with an effect.
LEMMA LocalStepKeeps ==
  ASSUME IInv, NEW q \in Procs,
         Start(q) \/ GetNotFound(q) \/ GetError(q) \/ Kill(q) \/ Restart(q)
               \/ GiveUp(q)
  PROVE  IInv'
<1>1. /\ UNCHANGED <<cm, job, copy>>
      /\ pc'[q] # "update"
      /\ pc' \in [Procs -> PC]
      /\ \A p \in Procs : p # q => pc'[p] = pc[p] /\ at'[p] = at[p]
  BY DEF Start, GetNotFound, GetError, Kill, GiveUp, Restart, Launch, Goto,
         IInv, TypeOK, PC
<1>2. TypeOK'
  <2>1. \A p \in Procs : 1 \in DOMAIN job[p].markers
    BY MarkersAssumption DEF IInv, TypeOK
  <2>2. restarts' \in [Procs -> 0..MaxRestarts]
    BY BackoffAssumption
    DEF Start, GetNotFound, GetError, Kill, GiveUp, Restart, IInv, TypeOK
  <2>3. faults' \in 0..MaxFaults /\ admin' \in 0..MaxAdmin
    BY MarkersAssumption
    DEF Start, GetNotFound, GetError, Kill, GiveUp, Restart, Fault, IInv, TypeOK
  <2>4. at' = at \/ at' = [at EXCEPT ![q] = 1]
    BY DEF Start, GetNotFound, GetError, Kill, GiveUp, Restart
  <2> QED
    BY <1>1, <2>1, <2>2, <2>3, <2>4 DEF IInv, TypeOK
<1> QED
  BY <1>1, <1>2, QuietStep

LEMMA AdminKeeps ==
  ASSUME IInv, AdminDelete \/ AdminCreate
  PROVE  IInv'
<1>1. /\ cm' \in Object
      /\ \/ cm'.rv = cm.rv /\ ~ cm'.exists
         \/ cm'.rv = cm.rv + 1 /\ cm'.exists /\ cm'.labels = Foreign
  <2>1. cm \in Object
    BY DEF IInv, TypeOK
  <2>2. CASE AdminDelete
    BY <2>1, <2>2, ObjectTypes DEF AdminDelete
  <2>3. CASE AdminCreate
    BY <2>1, <2>3, ObjectTypes DEF AdminCreate
  <2> QED
    BY <2>2, <2>3
<1>2. TypeOK'
  BY <1>1, MarkersAssumption DEF AdminDelete, AdminCreate, Admin, IInv, TypeOK
<1>3. UNCHANGED <<pc, job, at, copy>>
  BY DEF AdminDelete, AdminCreate, Admin
<1>4. /\ cm.rv \in Nat /\ cm'.rv \in Nat
      /\ \A p \in Procs : copy[p].rv \in Nat
  BY <1>2 DEF IInv, TypeOK, Object
<1>5. VersionsGrow'
  BY <1>1, <1>3, <1>4 DEF IInv, VersionsGrow
<1>6. CopyIsCurrent'
  BY <1>1, <1>3, <1>4 DEF IInv, VersionsGrow, CopyIsCurrent, Accepts
<1> QED
  BY <1>2, <1>5, <1>6 DEF IInv

LEMMA StepKeeps == IInv /\ [Next]_vars => IInv'
<1> SUFFICES ASSUME IInv, [Next]_vars PROVE IInv'
  OBVIOUS
<1>1. ASSUME NEW q \in Procs,
             Start(q) \/ GetNotFound(q) \/ GetError(q) \/ Kill(q) \/ Restart(q)
               \/ GiveUp(q)
      PROVE  IInv'
  BY <1>1, LocalStepKeeps
<1>2. ASSUME NEW q \in Procs, GetFound(q) PROVE IInv'
  BY <1>2, GetFoundKeeps
<1>3. ASSUME NEW q \in Procs, Create(q) PROVE IInv'
  BY <1>3, CreateKeeps
<1>4. ASSUME NEW q \in Procs, Update(q) PROVE IInv'
  BY <1>4, UpdateKeeps
<1>5. ASSUME NEW q \in Procs, CreateLost(q) PROVE IInv'
  BY <1>5, CreateLostKeeps
<1>6. ASSUME NEW q \in Procs, UpdateLost(q) PROVE IInv'
  BY <1>6, UpdateLostKeeps
<1>7. CASE AdminDelete \/ AdminCreate
  BY <1>7, AdminKeeps
<1>8. CASE UNCHANGED vars
  <2>1. TypeOK'
    BY <1>8 DEF vars, IInv, TypeOK
  <2> QED
    BY <1>8, <2>1, QuietStep DEF vars
<1> QED
  BY <1>1, <1>2, <1>3, <1>4, <1>5, <1>6, <1>7, <1>8 DEF Next

LEMMA Invariant == Spec => []IInv
BY InitEstablishes, StepKeeps, PTL DEF Spec

\* Every variable has its type in every reachable state.
THEOREM TypeCorrect == Spec => []TypeOK
BY Invariant, PTL DEF IInv

\* A copy whose version is the one in the cluster is the ConfigMap of the
\* cluster with the marker applied, for any number of processes.
THEOREM CopiesAreCurrent == Spec => []CopyIsCurrent
BY Invariant, PTL DEF IInv

-------------------------------------------------------------------------------
(***************************************************************************)
(* What a step may do to the ConfigMap.                                    *)
(***************************************************************************)

\* The only steps that change a ConfigMap and leave it in place are the
\* updates that are accepted.
LEMMA OnlyUpdatesChange ==
  ASSUME IInv, [Next]_vars, cm.exists, cm'.exists, cm' # cm
  PROVE  \E q \in Procs :
           /\ pc[q] = "update"
           /\ Accepts(cm, copy[q])
           /\ cm' = Updated(cm, copy[q])
<1>1. cm \in Object
  BY DEF IInv, TypeOK
<1>2. ASSUME NEW q \in Procs, Create(q) PROVE FALSE
  BY <1>2 DEF Create
<1>3. ASSUME NEW q \in Procs, CreateLost(q) PROVE FALSE
  BY <1>3 DEF CreateLost
<1>4. ~ AdminDelete /\ ~ AdminCreate
  BY <1>1, ObjectTypes DEF AdminDelete, AdminCreate
<1>5. ASSUME NEW q \in Procs, Update(q) \/ UpdateLost(q)
      PROVE  /\ pc[q] = "update"
             /\ Accepts(cm, copy[q])
             /\ cm' = Updated(cm, copy[q])
  BY <1>5 DEF Update, UpdateLost
<1>6. ASSUME NEW q \in Procs, GetFound(q) PROVE FALSE
  BY <1>6 DEF GetFound
<1>7. ASSUME NEW q \in Procs,
             Start(q) \/ GetNotFound(q) \/ GetError(q) \/ Kill(q) \/ Restart(q)
               \/ GiveUp(q)
      PROVE  FALSE
  BY <1>7 DEF Start, GetNotFound, GetError, Kill, GiveUp, Restart
<1> QED
  BY <1>2, <1>3, <1>4, <1>5, <1>6, <1>7 DEF Next, vars

\* A process that makes calls has parsed its whole command line.
Parsed == \A p \in Procs : pc[p] \in Running => ParseArgs(job[p])

LEMMA ParsedFirst == Spec => []Parsed
<1>1. Init => Parsed
  BY DEF Init, Parsed, Running
<1>2. IInv /\ Parsed /\ [Next]_vars => Parsed'
  <2> SUFFICES ASSUME IInv, Parsed, [Next]_vars, NEW p \in Procs,
                      pc'[p] \in Running
               PROVE  ParseArgs(job'[p])
    BY DEF Parsed
  <2>1. pc \in [Procs -> PC]
    BY DEF IInv, TypeOK
  <2>2. job' = job
    BY DEF Next, vars, Start, GetNotFound, GetFound, Create, Update, GetError,
           Kill, GiveUp, CreateLost, UpdateLost, Restart, AdminDelete,
           AdminCreate, Admin
  <2>3. pc[p] \in Running \/ ParseArgs(job[p])
    <3>1. ASSUME NEW q \in Procs, Start(q) \/ Restart(q)
          PROVE  pc[p] \in Running \/ ParseArgs(job[p])
      BY <2>1, <3>1 DEF Start, Restart, Launch, Goto, Running
    <3>2. ASSUME NEW q \in Procs,
                 GetNotFound(q) \/ GetError(q) \/ Kill(q) \/ GiveUp(q)
                   \/ CreateLost(q) \/ UpdateLost(q)
          PROVE  pc[p] \in Running
      BY <2>1, <3>2 DEF GetNotFound, GetError, Kill, GiveUp, CreateLost,
                        UpdateLost, Goto, Running
    <3>3. ASSUME NEW q \in Procs, GetFound(q) \/ Create(q)
          PROVE  pc[p] \in Running
      BY <2>1, <3>3 DEF GetFound, Create, Edit, Goto, Running
    <3>4. ASSUME NEW q \in Procs, Update(q) PROVE pc[p] \in Running
      BY <2>1, <3>4 DEF Update, Advance, Goto, Running
    <3>5. CASE AdminDelete \/ AdminCreate \/ UNCHANGED vars
      BY <3>5 DEF AdminDelete, AdminCreate, Admin, vars
    <3> QED
      BY <3>1, <3>2, <3>3, <3>4, <3>5 DEF Next
  <2> QED
    BY <2>2, <2>3 DEF Parsed
<1> QED
  BY <1>1, <1>2, Invariant, PTL DEF Spec

\* No update is lost: no process ever puts back, or drops, the value of a
\* key that is not the one its post step is setting.
THEOREM NoLostUpdate == Spec => OnlyPostWritesItsKey
<1> DEFINE A == cm.exists /\ cm'.exists =>
       \A k \in Keys :
         cm'.data[k] # cm.data[k] =>
           \E p \in Procs :
             /\ pc[p] = "update"
             /\ job[p].step = "post"
             /\ Current(p).key = k
             /\ cm'.data[k] = Current(p).newValue
             /\ \A i \in DOMAIN job[p].markers : job[p].markers[i].fields > 3
<1>1. IInv /\ Parsed /\ [Next]_vars => A
  <2> SUFFICES ASSUME IInv, Parsed, [Next]_vars, cm.exists, cm'.exists,
                      NEW k \in Keys, cm'.data[k] # cm.data[k]
               PROVE  \E p \in Procs :
                        /\ pc[p] = "update"
                        /\ job[p].step = "post"
                        /\ Current(p).key = k
                        /\ cm'.data[k] = Current(p).newValue
                        /\ \A i \in DOMAIN job[p].markers :
                             job[p].markers[i].fields > 3
    OBVIOUS
  <2>1. PICK q \in Procs : /\ pc[q] = "update"
                           /\ Accepts(cm, copy[q])
                           /\ cm' = Updated(cm, copy[q])
    BY OnlyUpdatesChange
  <2>2. cm'.data = Prepared(job[q], Current(q), cm).data
    BY <2>1, StoreKeeps
  <2>3. cm \in Object /\ job[q] \in Jobs /\ Current(q) \in Marker
    BY CurrentType DEF IInv, TypeOK
  <2>4. ParseArgs(job[q])
    BY <2>1 DEF Parsed, Running
  <2> QED
    BY <2>1, <2>2, <2>3, <2>4, PreparedType DEF ParseArgs
<1>2. IInv /\ Parsed /\ [Next]_vars => [A]_vars
  BY <1>1
<1> QED
  BY <1>2, Invariant, ParsedFirst, PTL DEF Spec, OnlyPostWritesItsKey

\* The value a pre step has checked is the value in the cluster at the
\* moment the step succeeds.
THEOREM PreCheckIsNotStale == Spec => PreChecksCurrentValue
<1> DEFINE A == \A p \in Procs :
       /\ pc[p] = "update"
       /\ job[p].step = "pre"
       /\ pc'[p] \in {"get", "done"}
       => /\ cm.exists
          /\ cm.data[Current(p).key] \in Current(p).allowedValues \cup {None}
<1>1. IInv /\ [Next]_vars => A
  <2> SUFFICES ASSUME IInv, [Next]_vars, NEW p \in Procs,
                      pc[p] = "update", job[p].step = "pre",
                      pc'[p] \in {"get", "done"}
               PROVE  /\ cm.exists
                      /\ cm.data[Current(p).key] \in Current(p).allowedValues \cup {None}
    OBVIOUS
  <2>1. pc \in [Procs -> PC]
    BY DEF IInv, TypeOK
  <2>2. Update(p)
    <3>1. ASSUME NEW q \in Procs, Edit(q, cm) \/ Edit(q, Created(cm, job[q].labels, NoData))
          PROVE  pc'[p] = pc[p] \/ pc'[p] \in {"update", "failed"}
      BY <2>1, <3>1 DEF Edit, Goto
    <3>2. ASSUME NEW q \in Procs, GetFound(q) PROVE FALSE
      BY <2>1, <3>1, <3>2 DEF GetFound, Goto
    <3>3. ASSUME NEW q \in Procs, Create(q) PROVE FALSE
      BY <2>1, <3>1, <3>3 DEF Create, Goto
    <3>4. ASSUME NEW q \in Procs,
                 \/ Start(q) \/ GetNotFound(q) \/ GetError(q) \/ Kill(q)
                 \/ GiveUp(q) \/ CreateLost(q) \/ UpdateLost(q)
          PROVE  FALSE
      BY <2>1, <3>4 DEF Start, GetNotFound, GetError, Kill, GiveUp, CreateLost,
                        UpdateLost, Launch, Goto
    <3>7. ASSUME NEW q \in Procs, Restart(q) PROVE FALSE
      BY <2>1, <3>7 DEF Restart, Launch, Goto
    <3>5. ASSUME NEW q \in Procs, Update(q), q # p PROVE FALSE
      BY <2>1, <3>5 DEF Update, Advance, Goto
    <3>6. ~ AdminDelete /\ ~ AdminCreate /\ vars' # vars
      BY DEF AdminDelete, AdminCreate, Admin, vars
    <3> QED
      BY <3>2, <3>3, <3>4, <3>5, <3>6, <3>7 DEF Next
  <2>3. Accepts(cm, copy[p])
    BY <2>1, <2>2 DEF Update, Goto
  <2> QED
    BY <2>3 DEF IInv, CopyIsCurrent, Refuses, Accepts
<1>2. IInv /\ [Next]_vars => [A]_vars
  BY <1>1
<1> QED
  BY <1>2, Invariant, PTL DEF Spec, PreChecksCurrentValue

\* A ConfigMap of another's is modified by no step of matrix-tools.
THEOREM ForeignUntouched == Spec => ForeignIsLeftAlone
<1> DEFINE A == cm.exists /\ cm.labels = Foreign => UNCHANGED cm \/ ~ cm'.exists
<1>1. IInv /\ [Next]_vars => A
  BY OnlyUpdatesChange DEF IInv, CopyIsCurrent
<1>2. IInv /\ [Next]_vars => [A]_vars
  BY <1>1
<1> QED
  BY <1>2, Invariant, PTL DEF Spec, ForeignIsLeftAlone

-------------------------------------------------------------------------------
(***************************************************************************)
(* What a list leaves behind.  As long as nobody else interferes, a key    *)
(* that a post step has gone past is never without a value again: other    *)
(* processes replace values and drop none.                                 *)
(***************************************************************************)
Stored(p) ==
  /\ cm.exists \/ at[p] = 1
  /\ \A i \in DOMAIN job[p].markers :
       i < at[p] => cm.data[job[p].markers[i].key] # None

StoredSoFar ==
  admin = 0 => \A p \in Procs : job[p].step = "post" => Stored(p)

\* The keys of a command line are keys.
LEMMA MarkerType ==
  ASSUME TypeOK, NEW p \in Procs, NEW i \in DOMAIN job[p].markers
  PROVE  job[p].markers[i] \in Marker /\ job[p].markers[i].key \in Keys
<1>1. job[p].markers \in Seq(Marker)
  BY MarkersAssumption DEF TypeOK
<1>2. job[p].markers[i] \in Marker
  BY <1>1
<1> QED
  BY <1>2 DEF Marker

\* An accepted update takes no value away and, in a post step, gives the key
\* of the marker one.
LEMMA UpdateStores ==
  ASSUME IInv, NEW q \in Procs, pc[q] = "update", Accepts(cm, copy[q]),
         cm' = Updated(cm, copy[q])
  PROVE  /\ cm'.exists
         /\ \A k \in Keys : cm.data[k] # None => cm'.data[k] # None
         /\ job[q].step = "post" => cm'.data[Current(q).key] # None
<1>1. cm'.exists /\ cm'.data = Prepared(job[q], Current(q), cm).data
  BY StoreKeeps
<1>2. cm \in Object /\ job[q] \in Jobs /\ Current(q) \in Marker
  BY CurrentType DEF IInv, TypeOK
<1>3. Current(q).newValue # None
  BY <1>2, ObjectAssumption DEF Marker
<1> QED
  BY <1>1, <1>2, <1>3, PreparedType

LEMMA StoredStep ==
  ASSUME IInv, StoredSoFar, [Next]_vars
  PROVE  StoredSoFar'
<1> SUFFICES ASSUME admin' = 0, NEW p \in Procs, job'[p].step = "post"
             PROVE  Stored(p)'
  BY DEF StoredSoFar
<1>1. admin \in Nat /\ at \in [Procs -> Nat \ {0}] /\ pc \in [Procs -> PC]
  BY MarkersAssumption DEF IInv, TypeOK
<1>2. ~ AdminDelete /\ ~ AdminCreate
  BY <1>1 DEF AdminDelete, AdminCreate, Admin
<1>3. admin = 0 /\ job' = job
  BY <1>1, <1>2 DEF Next, vars, Start, GetNotFound, GetFound, Create, Update,
           GetError, Kill, GiveUp, CreateLost, UpdateLost, Restart
<1>4. Stored(p)
  BY <1>3 DEF StoredSoFar
<1>5. ASSUME cm' = cm, at'[p] = at[p] \/ at'[p] = 1 PROVE Stored(p)'
  <2>1. \A i \in DOMAIN job[p].markers : ~ (i < 1)
    BY MarkersAssumption DEF IInv, TypeOK
  <2> QED
    BY <1>3, <1>4, <1>5, <2>1 DEF Stored
<1>6. ASSUME ~ cm.exists, at' = at PROVE Stored(p)'
  <2>1. at'[p] = 1
    BY <1>4, <1>6 DEF Stored
  <2>2. \A i \in DOMAIN job[p].markers : ~ (i < 1)
    BY MarkersAssumption DEF IInv, TypeOK
  <2> QED
    BY <1>3, <2>1, <2>2 DEF Stored
<1>7. ASSUME NEW q \in Procs,
             Start(q) \/ GetNotFound(q) \/ GetError(q) \/ Kill(q) \/ GetFound(q)
               \/ GiveUp(q)
               \/ Restart(q)
      PROVE  Stored(p)'
  <2>1. cm' = cm /\ (at' = at \/ at' = [at EXCEPT ![q] = 1])
    BY <1>7 DEF Start, GetNotFound, GetError, Kill, GiveUp, GetFound, Restart
  <2> QED
    BY <1>1, <1>5, <2>1
<1>8. ASSUME NEW q \in Procs, Create(q) \/ CreateLost(q) PROVE Stored(p)'
  BY <1>5, <1>6, <1>8 DEF Create, CreateLost
<1>9. ASSUME NEW q \in Procs, UpdateLost(q) PROVE Stored(p)'
  <2>1. at' = at /\ cm' = Updated(cm, copy[q])
        /\ pc[q] = "update" /\ Accepts(cm, copy[q])
    BY <1>9 DEF UpdateLost
  <2>2. cm'.exists /\ \A k \in Keys : cm.data[k] # None => cm'.data[k] # None
    BY <2>1, UpdateStores
  <2> QED
    BY <1>3, <1>4, <2>1, <2>2, MarkerType DEF Stored, IInv
<1>10. ASSUME NEW q \in Procs, Update(q) PROVE Stored(p)'
  <2>1. CASE ~ Accepts(cm, copy[q])
    BY <1>5, <1>10, <2>1 DEF Update
  <2>2. CASE Accepts(cm, copy[q])
    <3>1. /\ cm'.exists
          /\ \A k \in Keys : cm.data[k] # None => cm'.data[k] # None
          /\ job[q].step = "post" => cm'.data[Current(q).key] # None
      BY <1>10, <2>2, UpdateStores DEF Update
    <3>2. \/ at' = at
          \/ at' = [at EXCEPT ![q] = at[q] + 1]
      BY <1>10, <2>2 DEF Update, Advance
    <3>3. CASE at'[p] = at[p]
      BY <1>3, <1>4, <3>1, <3>3, MarkerType DEF Stored, IInv
    <3>4. CASE p = q /\ at'[p] = at[p] + 1
      <4>1. \A i \in DOMAIN job[p].markers : i \in Nat
        BY MarkersAssumption DEF IInv, TypeOK
      <4>2. \A i \in DOMAIN job[p].markers :
              i < at[p] + 1 => i < at[p] \/ i = at[p]
        BY <1>1, <4>1
      <4>3. cm'.data[job[p].markers[at[p]].key] # None
        BY <1>3, <3>1, <3>4 DEF Current
      <4> QED
        BY <1>3, <1>4, <3>1, <3>4, <4>2, <4>3, MarkerType DEF Stored, IInv
    <3> QED
      BY <1>1, <3>2, <3>3, <3>4
  <2> QED
    BY <2>1, <2>2
<1>11. CASE UNCHANGED vars
  BY <1>5, <1>11 DEF vars
<1> QED
  BY <1>2, <1>7, <1>8, <1>9, <1>10, <1>11 DEF Next

LEMMA StoredInvariant == Spec => [](IInv /\ StoredSoFar)
<1>1. Init => StoredSoFar
  <2>1. Init => \A p \in Procs : \A i \in DOMAIN job[p].markers : ~ (i < at[p])
    BY MarkersAssumption DEF Init
  <2> QED
    BY <2>1 DEF Init, StoredSoFar, Stored
<1> QED
  BY <1>1, InitEstablishes, StepKeeps, StoredStep, PTL DEF Spec

\* A post list that ends has left a value under every one of its keys.
THEOREM PostIsComplete == Spec => PostLeavesNoKeyOut
<1> DEFINE A == \A p \in Procs :
       /\ pc[p] # "done" /\ pc'[p] = "done"
       /\ job[p].step = "post"
       /\ admin' = 0
       => \A i \in DOMAIN job[p].markers :
            cm'.data[job[p].markers[i].key] # None
<1>1. IInv /\ StoredSoFar /\ [Next]_vars => A
  <2> SUFFICES ASSUME IInv, StoredSoFar, [Next]_vars, NEW p \in Procs,
                      pc[p] # "done", pc'[p] = "done",
                      job[p].step = "post", admin' = 0,
                      NEW i \in DOMAIN job[p].markers
               PROVE  cm'.data[job[p].markers[i].key] # None
    OBVIOUS
  <2>1. pc \in [Procs -> PC]
    BY DEF IInv, TypeOK
  <2>2. Update(p)
    <3>1. ASSUME NEW q \in Procs, GetFound(q) \/ Create(q) PROVE FALSE
      BY <2>1, <3>1 DEF GetFound, Create, Edit, Goto
    <3>2. ASSUME NEW q \in Procs,
                 \/ GetNotFound(q) \/ GetError(q) \/ Kill(q) \/ GiveUp(q)
                 \/ CreateLost(q) \/ UpdateLost(q)
          PROVE  FALSE
      BY <2>1, <3>2 DEF GetNotFound, GetError, Kill, GiveUp, CreateLost,
                        UpdateLost, Goto
    <3>3. ASSUME NEW q \in Procs, Start(q) \/ Restart(q) PROVE FALSE
      BY <2>1, <3>3 DEF Start, Restart, Launch, Goto
    <3>4. ASSUME NEW q \in Procs, Update(q), q # p PROVE FALSE
      BY <2>1, <3>4 DEF Update, Advance, Goto
    <3>5. ~ AdminDelete /\ ~ AdminCreate /\ vars' # vars
      BY DEF AdminDelete, AdminCreate, Admin, vars
    <3> QED
      BY <3>1, <3>2, <3>3, <3>4, <3>5 DEF Next
  <2>3. /\ Accepts(cm, copy[p])
        /\ cm' = Updated(cm, copy[p])
        /\ ~ (at[p] < Len(job[p].markers))
        /\ admin = 0
    BY <2>1, <2>2 DEF Update, Advance, Goto
  <2>4. /\ \A k \in Keys : cm.data[k] # None => cm'.data[k] # None
        /\ cm'.data[Current(p).key] # None
    BY <2>2, <2>3, UpdateStores DEF Update
  <2>5. i < at[p] \/ i = at[p]
    <3>1. job[p].markers \in Seq(Marker) /\ at[p] \in DOMAIN job[p].markers
      BY MarkersAssumption DEF IInv, TypeOK
    <3>2. i \in 1..Len(job[p].markers) /\ at[p] \in 1..Len(job[p].markers)
      BY <3>1
    <3>3. Len(job[p].markers) \in Nat
      BY <3>1
    <3> QED
      BY <2>3, <3>2, <3>3
  <2> QED
    BY <2>3, <2>4, <2>5, MarkerType DEF StoredSoFar, Stored, Current, IInv
<1>2. IInv /\ StoredSoFar /\ [Next]_vars => [A]_vars
  BY <1>1
<1> QED
  BY <1>2, StoredInvariant, PTL DEF Spec, PostLeavesNoKeyOut

-------------------------------------------------------------------------------
(***************************************************************************)
(* The refinement of AtomicMarkers.  Only an accepted update takes a       *)
(* process past an entry, and what it stores is, by CopyIsCurrent, what    *)
(* one check or assignment makes of the ConfigMap as it is now.            *)
(***************************************************************************)

\* A process that has not ended is at an entry of its list.
LEMMA PassedType ==
  ASSUME IInv, NEW p \in Procs
  PROVE  /\ Len(job[p].markers) \in Nat
         /\ at[p] \in 1..Len(job[p].markers)
         /\ Passed[p] = IF pc[p] = "done" THEN Len(job[p].markers) ELSE at[p] - 1
         /\ pc[p] # "done" => /\ Passed[p] < Len(job[p].markers)
                              /\ Passed[p] + 1 = at[p]
                              /\ Atomic!HasEntries(p)
                              /\ Atomic!Entry(p) = Current(p)
<1>1. job[p].markers \in Seq(Marker) /\ at[p] \in DOMAIN job[p].markers
  BY MarkersAssumption DEF IInv, TypeOK
<1>2. Len(job[p].markers) \in Nat /\ at[p] \in 1..Len(job[p].markers)
  BY <1>1
<1>3. Passed[p] = IF pc[p] = "done" THEN Len(job[p].markers) ELSE at[p] - 1
  BY DEF Passed
<1>4. pc[p] # "done" => Passed[p] < Len(job[p].markers) /\ Passed[p] + 1 = at[p]
  BY <1>2, <1>3
<1> QED
  BY <1>2, <1>3, <1>4 DEF Atomic!HasEntries, Atomic!Entry, Current

\* A step that leaves the ConfigMap and the positions alone, and ends no
\* process successfully, is not seen.
LEMMA QuietIsStutter ==
  ASSUME UNCHANGED <<cm, job, at>>,
         \A p \in Procs : pc'[p] = "done" <=> pc[p] = "done"
  PROVE  UNCHANGED Atomic!vars
BY DEF Atomic!vars, Owner, Markers, Passed

LEMMA CreateIsAtomic ==
  ASSUME IInv, Parsed, NEW q \in Procs, pc[q] = "create", ~ cm.exists,
         cm' = Created(cm, job[q].labels, NoData), UNCHANGED <<job, at>>,
         \A p \in Procs : pc'[p] = "done" <=> pc[p] = "done"
  PROVE  Atomic!Create(q)
<1>1. cm \in Object /\ job[q].labels \in Labels
  BY CurrentType DEF IInv, TypeOK
<1>2. cm'.exists /\ cm'.labels # Foreign /\ cm'.data = NoData
  BY <1>1, ObjectTypes, ObjectAssumption
<1>3. Owner = "nobody" /\ Owner' = "us" /\ Markers' = Markers
  BY <1>2 DEF Owner, Markers
<1>4. Passed' = Passed
  BY DEF Passed
<1>5. Atomic!WellFormed(job[q])
  BY DEF Parsed, Running, ParseArgs, Atomic!WellFormed
<1> QED
  BY <1>3, <1>4, <1>5 DEF Atomic!Create

\* The update of q is accepted; q goes on, or does not learn of it.
LEMMA UpdateIsAtomic ==
  ASSUME IInv, Parsed, NEW q \in Procs, pc[q] = "update",
         Accepts(cm, copy[q]), cm' = Updated(cm, copy[q]), UNCHANGED job,
         Passed' = [Passed EXCEPT ![q] = @ + 1] \/ UNCHANGED Passed
  PROVE  Atomic!Check(q) \/ Atomic!Store(q) \/ UNCHANGED Atomic!vars
<1> DEFINE new == Prepared(job[q], Current(q), cm)
<1>1. /\ cm.exists
      /\ cm.labels # Foreign
      /\ ~ Refuses(job[q], Current(q), cm)
      /\ copy[q] = new
  BY DEF IInv, CopyIsCurrent, Accepts
<1>2. cm \in Object /\ job[q] \in Jobs /\ Current(q) \in Marker
      /\ job[q].labels \in Labels
  BY CurrentType DEF IInv, TypeOK
<1>3. cm'.exists /\ cm'.data = new.data
  BY StoreKeeps
<1>4. cm'.labels # Foreign
  BY <1>1, <1>2, ObjectAssumption, PreparedType DEF Updated
<1>5. Owner = "us" /\ Owner' = "us" /\ Markers = cm.data /\ Markers' = new.data
  BY <1>1, <1>3, <1>4 DEF Owner, Markers
<1>6. Atomic!WellFormed(job[q])
  BY DEF Parsed, Running, ParseArgs, Atomic!WellFormed
<1>7. Atomic!HasEntries(q) /\ Atomic!Entry(q) = Current(q)
  BY PassedType
<1>8. CASE job[q].step = "post"
  <2>1. new.data = [cm.data EXCEPT ![Current(q).key] = Current(q).newValue]
    BY <1>8 DEF Prepared
  <2> QED
    BY <1>5, <1>6, <1>7, <1>8, <2>1
    DEF Atomic!Store, Atomic!Handles, Atomic!Passes
<1>9. CASE job[q].step = "pre"
  <2>1. new.data = cm.data
    BY <1>9 DEF Prepared
  <2>2. cm.data[Current(q).key] \in Current(q).allowedValues \cup {None}
    BY <1>1, <1>9 DEF Refuses
  <2>3. CASE UNCHANGED Passed
    BY <1>5, <2>1, <2>3 DEF Atomic!vars
  <2>4. CASE Passed' = [Passed EXCEPT ![q] = @ + 1]
    BY <1>5, <1>6, <1>7, <1>9, <2>1, <2>2, <2>4
    DEF Atomic!Check, Atomic!Handles, Atomic!Passes
  <2> QED
    BY <2>3, <2>4
<1> QED
  BY <1>1, <1>8, <1>9 DEF Refuses

\* What an accepted update makes of the number of entries passed.
LEMMA AdvancePasses ==
  ASSUME IInv, NEW q \in Procs, pc[q] = "update", Advance(q), UNCHANGED job
  PROVE  Passed' = [Passed EXCEPT ![q] = @ + 1]
<1>1. pc \in [Procs -> PC] /\ at \in [Procs -> Nat \ {0}]
  BY DEF IInv, TypeOK
<1>2. /\ Len(job[q].markers) \in Nat
      /\ at[q] \in 1..Len(job[q].markers)
      /\ Passed[q] = at[q] - 1
  BY PassedType
<1>3. \A p \in Procs : p # q => pc'[p] = pc[p] /\ at'[p] = at[p]
  BY <1>1 DEF Advance, Goto
<1>4. \/ pc'[q] = "get" /\ at'[q] = at[q] + 1
      \/ pc'[q] = "done" /\ Len(job[q].markers) = at[q]
  BY <1>1, <1>2 DEF Advance, Goto
<1>5. Passed' = [p \in Procs |-> IF p = q THEN at[q] ELSE Passed[p]]
  BY <1>2, <1>3, <1>4 DEF Passed
<1>6. Passed = [p \in Procs |-> Passed[p]]
  BY DEF Passed
<1> QED
  BY <1>2, <1>5, <1>6

\* The kubelet starts the list of a failed process from its first entry.
LEMMA RestartIsAtomic ==
  ASSUME IInv, NEW q \in Procs, Restart(q)
  PROVE  Atomic!BeginAgain(q)
<1>1. pc \in [Procs -> PC] /\ at \in [Procs -> Nat \ {0}]
  BY DEF IInv, TypeOK
<1>2. /\ \A p \in Procs : p # q => pc'[p] = pc[p] /\ at'[p] = at[p]
      /\ at'[q] = 1 /\ pc'[q] # "done"
  BY <1>1 DEF Restart, Launch, Goto
<1>3. Passed' = [p \in Procs |-> IF p = q THEN 0 ELSE Passed[p]]
  BY <1>2 DEF Passed, Restart
<1>4. Passed' = [Passed EXCEPT ![q] = 0]
  BY <1>3 DEF Passed
<1>5. UNCHANGED <<Owner, Markers, job>>
  BY DEF Restart, Owner, Markers
<1>6. Atomic!HasEntries(q)
  BY PassedType DEF Restart
<1> QED
  BY <1>4, <1>5, <1>6 DEF Atomic!BeginAgain

LEMMA AdminIsAtomic ==
  ASSUME IInv, AdminDelete \/ AdminCreate
  PROVE  Atomic!OthersDelete \/ Atomic!OthersProvide
<1>1. cm \in Object
  BY DEF IInv, TypeOK
<1>2. UNCHANGED <<job, Passed>>
  BY DEF AdminDelete, AdminCreate, Admin, Passed
<1>3. ASSUME AdminDelete PROVE Atomic!OthersDelete
  <2>1. cm.exists /\ ~ cm'.exists
    BY <1>1, <1>3, ObjectTypes DEF AdminDelete
  <2>2. Owner # "nobody" /\ Owner' = "nobody" /\ Markers' = NoData
    BY <2>1 DEF Owner, Markers
  <2> QED
    BY <1>2, <2>2 DEF Atomic!OthersDelete, Atomic!NoMarkers, NoData
<1>4. ASSUME AdminCreate PROVE Atomic!OthersProvide
  <2>1. PICK d \in Data : cm' = Created(cm, Foreign, d)
    BY <1>4 DEF AdminCreate
  <2>2. ~ cm.exists /\ cm'.exists /\ cm'.labels = Foreign /\ cm'.data = d
    BY <1>4, <2>1 DEF AdminCreate, Created
  <2>3. Owner = "nobody" /\ Owner' = "others" /\ Markers' = d
    BY <2>2 DEF Owner, Markers
  <2> QED
    BY <1>2, <2>1, <2>3 DEF Atomic!OthersProvide, Data
<1> QED
  BY <1>3, <1>4

LEMMA AtomicStep ==
  ASSUME IInv, Parsed, [Next]_vars
  PROVE  [Atomic!Next]_(Atomic!vars)
<1>0. pc \in [Procs -> PC]
  BY DEF IInv, TypeOK
<1>1. ASSUME NEW q \in Procs,
             Start(q) \/ GetNotFound(q) \/ GetError(q) \/ Kill(q) \/ GiveUp(q)
      PROVE  UNCHANGED Atomic!vars
  BY <1>0, <1>1, QuietIsStutter
  DEF Start, GetNotFound, GetError, Kill, GiveUp, Launch, Goto, Running
<1>2. ASSUME NEW q \in Procs, GetFound(q) PROVE UNCHANGED Atomic!vars
  BY <1>0, <1>2, QuietIsStutter DEF GetFound, Edit, Goto
<1>3. ASSUME NEW q \in Procs, Create(q)
      PROVE  Atomic!Create(q) \/ UNCHANGED Atomic!vars
  <2>1. /\ pc[q] = "create"
        /\ UNCHANGED <<job, at>>
        /\ \A p \in Procs : pc'[p] = "done" <=> pc[p] = "done"
    BY <1>0, <1>3 DEF Create, Edit, Goto
  <2>2. CASE cm.exists
    BY <1>3, <2>1, <2>2, QuietIsStutter DEF Create
  <2>3. CASE ~ cm.exists
    BY <1>3, <2>1, <2>3, CreateIsAtomic DEF Create
  <2> QED
    BY <2>2, <2>3
<1>4. ASSUME NEW q \in Procs, CreateLost(q) PROVE Atomic!Create(q)
  <2>1. \A p \in Procs : pc'[p] = "done" <=> pc[p] = "done"
    BY <1>0, <1>4 DEF CreateLost, Goto
  <2> QED
    BY <1>4, <2>1, CreateIsAtomic DEF CreateLost
<1>5. ASSUME NEW q \in Procs, Update(q)
      PROVE  Atomic!Check(q) \/ Atomic!Store(q) \/ UNCHANGED Atomic!vars
  <2>1. CASE Accepts(cm, copy[q])
    <3>1. /\ pc[q] = "update" /\ cm' = Updated(cm, copy[q])
          /\ Advance(q) /\ UNCHANGED job
      BY <1>5, <2>1 DEF Update
    <3>2. Passed' = [Passed EXCEPT ![q] = @ + 1]
      BY <3>1, AdvancePasses
    <3> QED
      BY <2>1, <3>1, <3>2, UpdateIsAtomic
  <2>2. CASE ~ Accepts(cm, copy[q])
    <3>1. /\ UNCHANGED <<cm, job, at>>
          /\ \A p \in Procs : pc'[p] = "done" <=> pc[p] = "done"
      BY <1>0, <1>5, <2>2 DEF Update, Goto
    <3> QED
      BY <3>1, QuietIsStutter
  <2> QED
    BY <2>1, <2>2
<1>6. ASSUME NEW q \in Procs, UpdateLost(q)
      PROVE  Atomic!Check(q) \/ Atomic!Store(q) \/ UNCHANGED Atomic!vars
  <2>1. \A p \in Procs : pc'[p] = "done" <=> pc[p] = "done"
    BY <1>0, <1>6 DEF UpdateLost, Goto
  <2>2. UNCHANGED Passed
    BY <1>6, <2>1 DEF UpdateLost, Passed
  <2> QED
    BY <1>6, <2>2, UpdateIsAtomic DEF UpdateLost
<1>7. CASE UNCHANGED vars
  BY <1>7, QuietIsStutter DEF vars
<1> QED
  BY <1>1, <1>2, <1>3, <1>4, <1>5, <1>6, <1>7, RestartIsAtomic, AdminIsAtomic
  DEF Next, Atomic!Next

\* Any number of processes that read, edit a copy and write it back, are
\* killed and repeated, carry out their command lines entry by entry as if
\* each entry were one step on the ConfigMap.
THEOREM EntriesAreAtomic == Spec => ImplementsAtomicMarkers
<1>1. Init => Atomic!Init
  <2> SUFFICES ASSUME Init PROVE Atomic!Init
    OBVIOUS
  <2>1. cm \in Object
    BY MarkersAssumption DEF Init
  <2>2. Passed = [p \in Procs |-> 0]
    BY DEF Init, Passed
  <2>3. \/ Owner = "nobody" /\ Markers = NoData
        \/ Owner \in {"us", "others"} /\ Markers \in Data
    BY <2>1 DEF Owner, Markers, Object
  <2> QED
    BY <2>2, <2>3 DEF Init, Atomic!Init, Atomic!NoMarkers, NoData, Data
<1>2. IInv /\ Parsed /\ [Next]_vars => [Atomic!Next]_(Atomic!vars)
  BY AtomicStep
<1> QED
  BY <1>1, <1>2, Invariant, ParsedFirst, PTL
  DEF Spec, ImplementsAtomicMarkers, Atomic!Spec
-------------------------------------------------------------------------------
(***************************************************************************)
(* What pays for a restart.  A post step fails because a fault hits it, or *)
(* because the ConfigMap is a new version since it read it; the fault and  *)
(* the new version are counted, and they are counted after the restart     *)
(* before.                                                                 *)
(***************************************************************************)
Paid(n) == faults + (cm.rv - n)

\* What a process needs to have in hand: one restart when it has failed, or
\* will certainly fail in its next call.
Owes(p, n) ==
  /\ pc[p] # "update" => restarts[p] <= Paid(n)
  /\ pc[p] = "failed" => restarts[p] + 1 <= Paid(n)
  /\ pc[p] = "create" /\ cm.exists => restarts[p] + 1 <= Paid(n)
  /\ pc[p] = "update" => cm.exists /\ restarts[p] <= faults + (copy[p].rv - n)

Account(n) ==
  /\ n <= cm.rv
  /\ admin = 0 /\ Owner # "others" =>
       \A p \in Procs :
         ParseArgs(job[p]) /\ job[p].step = "post" => Owes(p, n)

\* As long as nobody else is at work, the ConfigMap stays in place, a change
\* of it is a new version, and it never becomes ours when it was another's.
LEMMA AloneTheVersionGrows ==
  ASSUME IInv, [Next]_vars, admin' = 0
  PROVE  /\ admin = 0 /\ job' = job
         /\ ~ AdminDelete /\ ~ AdminCreate
         /\ cm' = cm \/ (cm'.exists /\ cm'.rv = cm.rv + 1)
         /\ Owner' # "others" => Owner # "others"
         /\ faults' = faults \/ faults' = faults + 1
<1>1. admin \in Nat /\ cm \in Object
  BY MarkersAssumption DEF IInv, TypeOK
<1>2. ~ AdminDelete /\ ~ AdminCreate
  BY <1>1 DEF AdminDelete, AdminCreate, Admin
<1>3. /\ admin = 0 /\ job' = job
      /\ faults' = faults \/ faults' = faults + 1
  BY <1>1, <1>2 DEF Next, vars, Start, GetNotFound, GetFound, Create, Update,
           GetError, Kill, GiveUp, CreateLost, UpdateLost, Restart, Fault
<1>4. ASSUME NEW q \in Procs,
             Start(q) \/ GetNotFound(q) \/ GetError(q) \/ Kill(q) \/ GetFound(q)
               \/ GiveUp(q)
               \/ Restart(q)
      PROVE  cm' = cm
  BY <1>4 DEF Start, GetNotFound, GetError, Kill, GiveUp, GetFound, Restart
<1>5. ASSUME NEW q \in Procs, Create(q) \/ CreateLost(q)
      PROVE  cm' = cm \/ (cm'.exists /\ cm'.rv = cm.rv + 1)
  BY <1>1, <1>5, ObjectTypes, CurrentType DEF Create, CreateLost, Created, IInv
<1>6. ASSUME NEW q \in Procs, Update(q) \/ UpdateLost(q)
      PROVE  cm' = cm \/ (cm'.exists /\ cm'.rv = cm.rv + 1)
  BY <1>6, StoreKeeps DEF Update, UpdateLost
<1>7. cm' = cm \/ (cm'.exists /\ cm'.rv = cm.rv + 1)
  BY <1>2, <1>4, <1>5, <1>6 DEF Next, vars
<1>8. Owner' # "others" => Owner # "others"
  BY <1>7, OnlyUpdatesChange DEF Owner, IInv, CopyIsCurrent
<1> QED
  BY <1>2, <1>3, <1>7, <1>8

\* The numbers that are compared.
LEMMA Amounts ==
  ASSUME IInv, NEW p \in Procs
  PROVE  /\ faults \in Nat /\ cm.rv \in Nat
         /\ restarts[p] \in Nat /\ copy[p].rv \in Nat
         /\ copy[p].rv <= cm.rv
BY MarkersAssumption DEF IInv, TypeOK, VersionsGrow, Object

\* The steps of others only add to what has been paid.
LEMMA OwesWhileOthersWork ==
  ASSUME IInv, IInv', NEW n \in Nat, NEW p \in Procs, Owes(p, n),
         pc'[p] = pc[p], copy'[p] = copy[p], restarts'[p] = restarts[p],
         cm' = cm \/ (cm'.exists /\ cm'.rv = cm.rv + 1),
         faults' = faults \/ faults' = faults + 1
  PROVE  Owes(p, n)'
<1>1. /\ faults \in Nat /\ cm.rv \in Nat
      /\ restarts[p] \in Nat /\ copy[p].rv \in Nat
  BY Amounts
<1>2. faults' \in Nat /\ cm'.rv \in Nat
  BY Amounts, <1>1
<1> QED
  BY <1>1, <1>2 DEF Owes, Paid

\* A post step turns down no ConfigMap, whatever its data.
LEMMA PostIsEdited ==
  ASSUME IInv, NEW p \in Procs, job[p].step = "post",
         NEW obj \in Object, Edit(p, obj)
  PROVE  pc'[p] = "update" /\ copy'[p].rv = obj.rv
<1>1. ~ Refuses(job[p], Current(p), obj)
  BY DEF Refuses
<1>2. Prepared(job[p], Current(p), obj).rv = obj.rv
  BY DEF Prepared
<1>3. pc \in [Procs -> PC] /\ copy \in [Procs -> Object]
  BY DEF IInv, TypeOK
<1> QED
  BY <1>1, <1>2, <1>3 DEF Edit, Goto

\* Every change of the ConfigMap is a new version, a deletion is none.
LEMMA VersionStep ==
  ASSUME IInv, [Next]_vars
  PROVE  cm'.rv = cm.rv \/ cm'.rv = cm.rv + 1
<1>1. cm \in Object
  BY DEF IInv, TypeOK
<1>2. ASSUME NEW q \in Procs,
             Start(q) \/ GetNotFound(q) \/ GetError(q) \/ Kill(q) \/ GetFound(q)
               \/ GiveUp(q)
               \/ Restart(q)
      PROVE  cm' = cm
  BY <1>2 DEF Start, GetNotFound, GetError, Kill, GiveUp, GetFound, Restart
<1>3. ASSUME NEW q \in Procs, Create(q) \/ CreateLost(q)
      PROVE  cm'.rv = cm.rv \/ cm'.rv = cm.rv + 1
  BY <1>3 DEF Create, CreateLost, Created
<1>4. ASSUME NEW q \in Procs, Update(q) \/ UpdateLost(q)
      PROVE  cm' = cm \/ cm'.rv = cm.rv + 1
  BY <1>4, StoreKeeps DEF Update, UpdateLost
<1>5. CASE AdminDelete \/ AdminCreate
  BY <1>5 DEF AdminDelete, AdminCreate, Removed, Created
<1> QED
  BY <1>2, <1>3, <1>4, <1>5 DEF Next, vars

LEMMA InitAccount ==
  ASSUME Init, NEW n \in Nat, n <= cm.rv
  PROVE  Account(n)
<1>1. cm.rv \in Nat
  BY MarkersAssumption DEF Init, Object
<1> QED
  BY <1>1 DEF Init, Account, Owes, Paid

\* A call of p that finds the ConfigMap of its copy changed, or finds one
\* where there was none, has been overtaken by the change that pays for it.
LEMMA OwesAfterOwnStep ==
  ASSUME IInv, IInv', [Next]_vars, admin' = 0, Owner # "others",
         NEW n \in Nat, n <= cm.rv, NEW p \in Procs, Owes(p, n),
         ParseArgs(job[p]), job[p].step = "post",
         \/ Start(p) \/ GetNotFound(p) \/ GetFound(p) \/ Create(p) \/ Update(p)
         \/ GetError(p) \/ Kill(p) \/ CreateLost(p) \/ UpdateLost(p)
         \/ Restart(p) \/ GiveUp(p)
  PROVE  Owes(p, n)'
<1>0. /\ pc \in [Procs -> PC]
      /\ copy \in [Procs -> Object]
      /\ restarts \in [Procs -> 0..MaxRestarts]
      /\ cm \in Object
  BY DEF IInv, TypeOK
<1>1. /\ faults \in Nat /\ cm.rv \in Nat
      /\ restarts[p] \in Nat /\ copy[p].rv \in Nat
      /\ copy[p].rv <= cm.rv
  BY Amounts
<1>2. /\ faults' \in Nat /\ cm'.rv \in Nat
      /\ restarts'[p] \in Nat /\ copy'[p].rv \in Nat
  BY MarkersAssumption DEF IInv, TypeOK, Object
<1>3. cm.exists => cm.labels # Foreign
  BY DEF Owner
<1>5. CASE Start(p)
  BY <1>0, <1>1, <1>5 DEF Start, Launch, Goto, Owes, Paid
<1>6. CASE GetNotFound(p)
  BY <1>0, <1>1, <1>6 DEF GetNotFound, Goto, Owes, Paid
<1>7. CASE GetFound(p)
  <2>1. Edit(p, cm) /\ cm.exists /\ pc[p] = "get"
        /\ UNCHANGED <<cm, restarts, faults>>
    BY <1>3, <1>7 DEF GetFound
  <2>2. pc'[p] = "update" /\ copy'[p].rv = cm.rv
    BY <2>1, <1>0, PostIsEdited
  <2> QED
    BY <1>1, <2>1, <2>2 DEF Owes, Paid
<1>8. CASE Create(p)
  <2>1. CASE cm.exists
    BY <1>0, <1>1, <1>8, <2>1 DEF Create, Goto, Owes, Paid
  <2>2. CASE ~ cm.exists
    <3> DEFINE new == Created(cm, job[p].labels, NoData)
    <3>1. Edit(p, new) /\ cm' = new /\ pc[p] = "create"
          /\ UNCHANGED <<restarts, faults>>
      BY <1>8, <2>2 DEF Create
    <3>2. new \in Object /\ new.exists /\ new.rv = cm.rv + 1
      BY <1>0, ObjectTypes, CurrentType DEF IInv
    <3> HIDE DEF new
    <3>3. pc'[p] = "update" /\ copy'[p].rv = new.rv
      BY <3>1, <3>2, <1>0, PostIsEdited
    <3> QED
      BY <1>1, <3>1, <3>2, <3>3 DEF Owes, Paid
  <2> QED
    BY <2>1, <2>2
<1>9. CASE Update(p)
  <2>1. CASE Accepts(cm, copy[p])
    <3>1. pc'[p] \in {"get", "done"} /\ UNCHANGED <<restarts, faults>>
      BY <1>0, <1>9, <2>1 DEF Update, Advance, Goto
    <3>2. cm' = cm \/ cm'.rv = cm.rv + 1
      BY <1>9, <2>1, StoreKeeps DEF Update
    <3>3. pc[p] = "update" /\ copy[p].rv = cm.rv
      BY <1>9, <2>1 DEF Update, Accepts
    <3> QED
      BY <1>1, <3>1, <3>2, <3>3 DEF Owes, Paid
  <2>2. CASE ~ Accepts(cm, copy[p])
    <3>1. pc[p] = "update" /\ pc'[p] = "failed"
          /\ UNCHANGED <<cm, restarts, faults>>
      BY <1>0, <1>9, <2>2 DEF Update, Goto
    <3>2. restarts[p] <= faults + (copy[p].rv - n) /\ copy[p].rv < cm.rv
      BY <1>1, <2>2, <3>1 DEF Accepts, Owes
    <3> QED
      BY <1>1, <3>1, <3>2 DEF Owes, Paid
  <2> QED
    BY <2>1, <2>2
<1>10. CASE GetError(p) \/ Kill(p)
  <2>1. pc'[p] # "update" /\ UNCHANGED <<cm, restarts>> /\ faults' = faults + 1
    BY <1>0, <1>10 DEF GetError, Kill, Fault, Goto
  <2>2. restarts[p] <= Paid(n)
    BY <1>1 DEF Owes, Paid
  <2> QED
    BY <1>1, <2>1, <2>2 DEF Owes, Paid
<1>11. CASE CreateLost(p) \/ UpdateLost(p)
  <2>1. pc'[p] = "failed" /\ UNCHANGED restarts /\ faults' = faults + 1
    BY <1>0, <1>11 DEF CreateLost, UpdateLost, Fault, Goto
  <2>2. restarts[p] <= Paid(n)
    BY <1>1 DEF Owes, Paid
  <2>3. cm' = cm \/ cm'.rv = cm.rv + 1
    BY AloneTheVersionGrows
  <2> QED
    BY <1>1, <2>1, <2>2, <2>3 DEF Owes, Paid
<1>12. CASE Restart(p)
  <2>1. pc[p] = "failed" /\ pc'[p] = "get" /\ restarts'[p] = restarts[p] + 1
        /\ UNCHANGED <<cm, faults>>
    BY <1>0, <1>12 DEF Restart, Launch, Goto
  <2> QED
    BY <1>1, <2>1 DEF Owes, Paid
<1>13. CASE GiveUp(p)
  <2>1. pc'[p] = "stopped" /\ UNCHANGED <<cm, restarts, faults>>
    BY <1>0, <1>13 DEF GiveUp, Goto
  <2>2. restarts[p] <= Paid(n)
    BY <1>1 DEF Owes, Paid
  <2> QED
    BY <1>1, <2>1, <2>2 DEF Owes, Paid
<1> QED
  BY <1>5, <1>6, <1>7, <1>8, <1>9, <1>10, <1>11, <1>12, <1>13

\* A step of one process leaves what the others hold alone.
LEMMA OwnStepIsOwn ==
  ASSUME IInv, NEW q \in Procs, NEW p \in Procs, p # q,
         \/ Start(q) \/ GetNotFound(q) \/ GetFound(q) \/ Create(q) \/ Update(q)
         \/ GetError(q) \/ Kill(q) \/ CreateLost(q) \/ UpdateLost(q)
         \/ Restart(q) \/ GiveUp(q)
  PROVE  /\ pc'[p] = pc[p] /\ copy'[p] = copy[p] /\ restarts'[p] = restarts[p]
<1>0. /\ pc \in [Procs -> PC]
      /\ copy \in [Procs -> Object]
      /\ restarts \in [Procs -> 0..MaxRestarts]
  BY DEF IInv, TypeOK
<1>1. ASSUME NEW obj, Edit(q, obj)
      PROVE  pc'[p] = pc[p] /\ copy'[p] = copy[p]
  BY <1>0, <1>1 DEF Edit, Goto
<1>2. CASE Start(q) \/ GetNotFound(q) \/ GetError(q) \/ Kill(q) \/ CreateLost(q)
             \/ UpdateLost(q) \/ Restart(q) \/ GiveUp(q)
  BY <1>0, <1>2 DEF Start, GetNotFound, GetError, Kill, GiveUp, CreateLost,
                    UpdateLost, Restart, Launch, Goto
<1>3. CASE GetFound(q)
  BY <1>0, <1>1, <1>3 DEF GetFound, Goto
<1>4. CASE Create(q)
  BY <1>0, <1>1, <1>4 DEF Create, Goto
<1>5. CASE Update(q)
  BY <1>0, <1>5 DEF Update, Advance, Goto
<1> QED
  BY <1>2, <1>3, <1>4, <1>5

LEMMA AccountStep ==
  ASSUME IInv, IInv', [Next]_vars, NEW n \in Nat, Account(n)
  PROVE  Account(n)'
<1>1. n <= cm'.rv
  <2>1. cm.rv \in Nat /\ n <= cm.rv
    BY DEF Account, IInv, TypeOK, Object
  <2>2. cm'.rv = cm.rv \/ cm'.rv = cm.rv + 1
    BY VersionStep
  <2> QED
    BY <2>1, <2>2
<1>2. ASSUME admin' = 0, Owner' # "others", NEW p \in Procs,
             ParseArgs(job'[p]), job'[p].step = "post"
      PROVE  Owes(p, n)'
  <2>1. /\ admin = 0 /\ job' = job
        /\ ~ AdminDelete /\ ~ AdminCreate
        /\ cm' = cm \/ (cm'.exists /\ cm'.rv = cm.rv + 1)
        /\ Owner # "others"
        /\ faults' = faults \/ faults' = faults + 1
    BY <1>2, AloneTheVersionGrows
  <2>2. Owes(p, n) /\ n <= cm.rv /\ ParseArgs(job[p]) /\ job[p].step = "post"
    BY <1>2, <2>1 DEF Account
  <2>3. ASSUME NEW q \in Procs,
               \/ Start(q) \/ GetNotFound(q) \/ GetFound(q) \/ Create(q)
               \/ Update(q) \/ GetError(q) \/ Kill(q) \/ CreateLost(q)
               \/ UpdateLost(q) \/ Restart(q) \/ GiveUp(q)
        PROVE  Owes(p, n)'
    <3>1. CASE p = q
      BY <1>2, <2>1, <2>2, <2>3, <3>1, OwesAfterOwnStep
    <3>2. CASE p # q
      BY <2>1, <2>2, <2>3, <3>2, OwnStepIsOwn, OwesWhileOthersWork
    <3> QED
      BY <3>1, <3>2
  <2>4. CASE UNCHANGED vars
    BY <2>1, <2>2, <2>4, OwesWhileOthersWork DEF vars
  <2> QED
    BY <2>1, <2>3, <2>4 DEF Next
<1> QED
  BY <1>1, <1>2 DEF Account

LEMMA AccountPays ==
  ASSUME IInv, NEW n \in Nat, Account(n)
  PROVE  PaidFrom(n)
<1> SUFFICES ASSUME admin = 0, Owner # "others",
                    NEW p \in Procs, ParseArgs(job[p]), job[p].step = "post"
             PROVE  restarts[p] <= faults + (cm.rv - n)
  BY DEF PaidFrom
<1>1. Owes(p, n)
  BY DEF Account
<1> QED
  BY <1>1, Amounts DEF Owes, Paid

\* No post step uses up its restarts by itself: counted from any version that
\* is not above the first one of a behaviour, in particular from that one, the
\* restarts of a container are no more than the faults and the changes of the
\* ConfigMap.
THEOREM RestartsAreCounted ==
  ASSUME NEW n \in Nat
  PROVE  Spec /\ n <= cm.rv => []PaidFrom(n)
<1>1. Init /\ n <= cm.rv => Account(n)
  BY InitAccount
<1>2. IInv /\ IInv' /\ [Next]_vars /\ Account(n) => Account(n)'
  BY AccountStep
<1>3. IInv /\ Account(n) => PaidFrom(n)
  BY AccountPays
<1> QED
  BY <1>1, <1>2, <1>3, Invariant, PTL DEF Spec

\* The same from the version 0, the first of an object in the runs.
THEOREM RestartsPaid == Spec => []RestartsArePaidFor
<1>1. Init => Account(0)
  <2>1. Init => 0 <= cm.rv
    BY MarkersAssumption DEF Init, Object
  <2> QED
    BY <2>1, InitAccount
<1>2. IInv /\ IInv' /\ [Next]_vars /\ Account(0) => Account(0)'
  BY AccountStep
<1>3. IInv /\ Account(0) => RestartsArePaidFor
  BY AccountPays DEF RestartsArePaidFor
<1> QED
  BY <1>1, <1>2, <1>3, Invariant, PTL DEF Spec

-------------------------------------------------------------------------------
(***************************************************************************)
(* The pods of one Job of the chart.  They make at most two versions: a    *)
(* ConfigMap without data, and one with the value.  From then on the       *)
(* update that any of them sends is the ConfigMap as it is.                *)
(***************************************************************************)
Settled(j) ==
  /\ cm.exists
  /\ cm.labels = j.labels
  /\ cm.data[j.markers[1].key] = j.markers[1].newValue

Versions(n) ==
  admin = 0 =>
    \A j \in Jobs : ChartJob(j) =>
      \/ cm.rv = n
      \/ cm.rv = n + 1 /\ cm.exists
      \/ cm.rv = n + 2 /\ Settled(j)

\* The update of a pod of the Job settles the ConfigMap.
LEMMA UpdateSettles ==
  ASSUME IInv, NEW j \in Jobs, ChartJob(j), NEW q \in Procs, pc[q] = "update",
         Accepts(cm, copy[q]), cm' = Updated(cm, copy[q]), cm' # cm
  PROVE  Settled(j)' /\ ~ Settled(j)
<1> DEFINE m == j.markers[1]
<1>1. job[q] = j /\ Current(q) = m /\ m \in Marker
  <2>1. job[q] = j /\ at[q] \in DOMAIN j.markers /\ Len(j.markers) = 1
    BY DEF ChartJob, IInv, TypeOK
  <2>2. j.markers \in Seq(Marker)
    BY MarkersAssumption
  <2>3. at[q] = 1
    BY <2>1, <2>2
  <2> QED
    BY <2>1, <2>2, <2>3 DEF Current
<1>2. cm \in Object /\ cm.exists /\ j.step = "post"
  BY DEF ChartJob, IInv, TypeOK, Accepts
<1>3. copy[q] = Prepared(j, m, cm)
  BY <1>1 DEF IInv, CopyIsCurrent
<1>4. /\ copy[q].labels = j.labels
      /\ copy[q].data = [cm.data EXCEPT ![m.key] = m.newValue]
  BY <1>2, <1>3 DEF Prepared
<1>5. cm.data \in [Keys -> Values \cup {None}] /\ m.key \in Keys
  BY <1>1, <1>2 DEF Object, Data, Marker
<1>6. copy[q].data[m.key] = m.newValue
  BY <1>4, <1>5
<1>7. /\ ~ (cm.labels = copy[q].labels /\ cm.data = copy[q].data)
      /\ cm'.exists /\ cm'.labels = copy[q].labels /\ cm'.data = copy[q].data
  BY DEF Updated
<1>8. cm.data[m.key] = m.newValue => copy[q].data = cm.data
  BY <1>4, <1>5
<1> QED
  BY <1>4, <1>6, <1>7, <1>8 DEF Settled

LEMMA VersionsStep ==
  ASSUME IInv, [Next]_vars, NEW n \in Nat, Versions(n)
  PROVE  Versions(n)'
<1> SUFFICES ASSUME admin' = 0, NEW j \in Jobs, ChartJob(j)'
             PROVE  \/ cm'.rv = n
                    \/ cm'.rv = n + 1 /\ cm'.exists
                    \/ cm'.rv = n + 2 /\ Settled(j)'
  BY DEF Versions
<1>1. /\ admin = 0 /\ job' = job
      /\ cm' = cm \/ (cm'.exists /\ cm'.rv = cm.rv + 1)
  BY AloneTheVersionGrows
<1>2. ChartJob(j)
  BY <1>1 DEF ChartJob
<1>3. \/ cm.rv = n
      \/ cm.rv = n + 1 /\ cm.exists
      \/ cm.rv = n + 2 /\ Settled(j)
  BY <1>1, <1>2 DEF Versions
<1>4. CASE cm' = cm
  BY <1>3, <1>4 DEF Settled
<1>5. CASE cm' # cm /\ ~ cm.exists
  BY <1>1, <1>3, <1>5 DEF Settled
<1>6. CASE cm' # cm /\ cm.exists
  <2>1. PICK q \in Procs : /\ pc[q] = "update"
                           /\ Accepts(cm, copy[q])
                           /\ cm' = Updated(cm, copy[q])
    BY <1>1, <1>6, OnlyUpdatesChange
  <2>2. Settled(j)' /\ ~ Settled(j)
    BY <1>2, <1>6, <2>1, UpdateSettles
  <2> QED
    BY <1>1, <1>3, <1>6, <2>2
<1> QED
  BY <1>4, <1>5, <1>6
-------------------------------------------------------------------------------
(***************************************************************************)
(* The restarts of a Job's pods together.  A fault costs the pod it hits   *)
(* one restart, a new version every pod but the one that made it.  What is *)
(* added up is the load of the pods: the restarts they had and the one     *)
(* that a failed pod, or one whose next call must fail, will need.         *)
(***************************************************************************)
Doomed(p) ==
  \/ pc[p] = "update" /\ copy[p].rv < cm.rv
  \/ pc[p] = "create" /\ cm.exists

Load ==
  [p \in Procs |->
     IF pc[p] = "failed" \/ Doomed(p) THEN restarts[p] + 1 ELSE restarts[p]]

Tally(f) == {r \in Procs \X (1..(MaxRestarts + 1)) : r[2] <= f[r[1]]}

SharedAccount(n) ==
  admin = 0 /\ Owner # "others" /\ (\E j \in Jobs : ChartJob(j)) =>
    Cardinality(Tally(Load)) <= faults + (Cardinality(Procs) - 1) * (cm.rv - n)

Budget == \E n \in Nat : Account(n) /\ Versions(n) /\ SharedAccount(n)

LEMMA TallyType ==
  ASSUME NEW f
  PROVE  IsFiniteSet(Tally(f)) /\ Cardinality(Tally(f)) \in Nat
<1>1. IsFiniteSet(1..(MaxRestarts + 1))
  BY FS_Interval, BackoffAssumption
<1>2. IsFiniteSet(Procs \X (1..(MaxRestarts + 1)))
  BY <1>1, FS_Product, BackoffAssumption
<1>3. IsFiniteSet(Tally(f))
  BY <1>2, FS_Subset DEF Tally
<1> QED
  BY <1>3, FS_CardinalityType

\* Counting one more for some of the pods adds as many to the tally.
LEMMA TallyGrows ==
  ASSUME NEW f \in [Procs -> Nat], NEW g \in [Procs -> Nat],
         NEW P \in SUBSET Procs,
         \A p \in Procs : g[p] <= (IF p \in P THEN f[p] + 1 ELSE f[p])
  PROVE  Cardinality(Tally(g)) <= Cardinality(Tally(f)) + Cardinality(P)
<1> DEFINE h == [p \in P |-> <<p, f[p] + 1>>]
           T == {h[p] : p \in P}
<1>1. IsFiniteSet(P) /\ Cardinality(P) \in Nat
  BY FS_Subset, FS_CardinalityType, BackoffAssumption
<1>2. IsFiniteSet(T) /\ Cardinality(T) \in Nat
      /\ Cardinality(T) <= Cardinality(P)
  <2>1. h \in Surjection(P, T)
    BY DEF Surjection
  <2> QED
    BY <1>1, <2>1, FS_Surjection, FS_CardinalityType
<1>3. Tally(g) \subseteq Tally(f) \cup T
  <2> SUFFICES ASSUME NEW r \in Tally(g), r \notin Tally(f) PROVE r \in T
    OBVIOUS
  <2>1. PICK p \in Procs, i \in 1..(MaxRestarts + 1) : r = <<p, i>>
    BY DEF Tally
  <2>2. i <= g[p] /\ ~ (i <= f[p])
    BY <2>1 DEF Tally
  <2>3. p \in P /\ i = f[p] + 1
    <3>1. f[p] \in Nat /\ g[p] \in Nat /\ i \in Nat
      BY BackoffAssumption
    <3> QED
      BY <2>2, <3>1
  <2> QED
    BY <2>1, <2>3
<1>4. /\ IsFiniteSet(Tally(f) \cup T)
      /\ Cardinality(Tally(f) \cup T)
           = Cardinality(Tally(f)) + Cardinality(T)
               - Cardinality(Tally(f) \cap T)
      /\ Cardinality(Tally(f) \cap T) \in Nat
  BY <1>2, TallyType, FS_Union, FS_Intersection, FS_CardinalityType
<1>5. Cardinality(Tally(g)) <= Cardinality(Tally(f) \cup T)
  BY <1>3, <1>4, FS_Subset
<1> QED
  BY <1>1, <1>2, <1>4, <1>5, TallyType

\* The restarts of the pods that count are among those of all pods.
LEMMA SumBelowTally ==
  ASSUME IInv, NEW S \in SUBSET Procs
  PROVE  /\ Sum(S, restarts) <= Cardinality(Tally(Load))
         /\ Sum(S, restarts) \in Nat
<1> DEFINE A == {r \in S \X (1..MaxRestarts) : r[2] <= restarts[r[1]]}
<1>1. \A p \in Procs :
        restarts[p] \in Nat /\ Load[p] \in Nat /\ restarts[p] <= Load[p]
  BY BackoffAssumption DEF Load, IInv, TypeOK
<1>2. A \subseteq Tally(Load)
  <2> SUFFICES ASSUME NEW r \in A PROVE r \in Tally(Load)
    OBVIOUS
  <2>1. PICK p \in S, i \in 1..MaxRestarts : r = <<p, i>> /\ i <= restarts[p]
    OBVIOUS
  <2>2. i \in 1..(MaxRestarts + 1) /\ i <= Load[p]
    BY <1>1, <2>1, BackoffAssumption
  <2> QED
    BY <2>1, <2>2 DEF Tally
<1>3. Cardinality(A) <= Cardinality(Tally(Load)) /\ IsFiniteSet(A)
  BY <1>2, TallyType, FS_Subset
<1>4. Cardinality(A) \in Nat
  BY <1>3, FS_CardinalityType
<1> QED
  BY <1>3, <1>4 DEF Sum

\* A step of another pod adds to the load of a pod only with a new version.
LEMMA OthersLoad ==
  ASSUME IInv, IInv', NEW p \in Procs,
         pc'[p] = pc[p], copy'[p] = copy[p], restarts'[p] = restarts[p],
         cm' = cm \/ cm'.rv = cm.rv + 1
  PROVE  Load'[p] <= Load[p] + (cm'.rv - cm.rv)
<1>1. restarts[p] \in Nat /\ cm.rv \in Nat
  BY Amounts
<1> QED
  BY <1>1 DEF Load, Doomed

\* What a pod does itself adds to its load only when a fault hits it.
LEMMA OwnLoad ==
  ASSUME IInv, IInv', [Next]_vars, admin' = 0, Owner # "others",
         NEW n \in Nat, NEW q \in Procs, Owes(q, n),
         ParseArgs(job[q]), job[q].step = "post",
         \/ Start(q) \/ GetNotFound(q) \/ GetFound(q) \/ Create(q) \/ Update(q)
         \/ GetError(q) \/ Kill(q) \/ GiveUp(q) \/ CreateLost(q)
         \/ UpdateLost(q) \/ Restart(q)
  PROVE  Load'[q] <= Load[q] + (faults' - faults)
<1>0. /\ pc \in [Procs -> PC]
      /\ copy \in [Procs -> Object]
      /\ restarts \in [Procs -> 0..MaxRestarts]
      /\ cm \in Object
  BY DEF IInv, TypeOK
<1>1. /\ faults \in Nat /\ cm.rv \in Nat
      /\ restarts[q] \in Nat /\ copy[q].rv \in Nat
      /\ copy[q].rv <= cm.rv
  BY Amounts
<1>2. /\ Load[q] = IF pc[q] = "failed" \/ Doomed(q)
                   THEN restarts[q] + 1 ELSE restarts[q]
      /\ Load'[q] = IF pc'[q] = "failed" \/ Doomed(q)'
                    THEN restarts'[q] + 1 ELSE restarts'[q]
  BY DEF Load
<1>3. cm.exists => cm.labels # Foreign
  BY DEF Owner
<1>4. CASE Start(q) \/ GetNotFound(q) \/ GiveUp(q)
  <2>1. /\ pc'[q] \in {"get", "create", "stopped"}
        /\ pc'[q] = "create" => ~ cm.exists
        /\ UNCHANGED <<cm, restarts, faults>>
    BY <1>0, <1>4 DEF Start, GetNotFound, GiveUp, Launch, Goto
  <2> QED
    BY <1>1, <1>2, <2>1 DEF Doomed
<1>5. CASE GetFound(q)
  <2>1. Edit(q, cm) /\ UNCHANGED <<cm, restarts, faults>>
    BY <1>3, <1>5 DEF GetFound
  <2>2. pc'[q] = "update" /\ copy'[q].rv = cm.rv
    BY <2>1, <1>0, PostIsEdited
  <2> QED
    BY <1>1, <1>2, <2>1, <2>2 DEF Doomed
<1>6. CASE Create(q)
  <2>1. CASE cm.exists
    BY <1>0, <1>1, <1>2, <1>6, <2>1 DEF Create, Goto, Doomed
  <2>2. CASE ~ cm.exists
    <3> DEFINE new == Created(cm, job[q].labels, NoData)
    <3>1. Edit(q, new) /\ cm' = new /\ UNCHANGED <<restarts, faults>>
      BY <1>6, <2>2 DEF Create
    <3>2. new \in Object
      BY <1>0, ObjectTypes, CurrentType DEF IInv
    <3> HIDE DEF new
    <3>3. pc'[q] = "update" /\ copy'[q].rv = cm'.rv
      BY <3>1, <3>2, <1>0, PostIsEdited
    <3>4. cm'.rv \in Nat
      BY <3>1, <3>2 DEF Object
    <3> QED
      BY <1>1, <1>2, <3>1, <3>3, <3>4 DEF Doomed
  <2> QED
    BY <2>1, <2>2
<1>7. CASE Update(q)
  <2>1. CASE Accepts(cm, copy[q])
    <3>1. pc'[q] \in {"get", "done"} /\ UNCHANGED <<restarts, faults>>
      BY <1>0, <1>7, <2>1 DEF Update, Advance, Goto
    <3> QED
      BY <1>1, <1>2, <3>1 DEF Doomed
  <2>2. CASE ~ Accepts(cm, copy[q])
    <3>1. pc[q] = "update" /\ UNCHANGED <<restarts, faults>>
      BY <1>7, <2>2 DEF Update
    <3>2. cm.exists
      BY <3>1 DEF Owes
    <3>3. Doomed(q)
      BY <1>1, <2>2, <3>1, <3>2 DEF Accepts, Doomed
    <3> QED
      BY <1>1, <1>2, <3>1, <3>3
  <2> QED
    BY <2>1, <2>2
<1>8. CASE GetError(q) \/ Kill(q) \/ CreateLost(q) \/ UpdateLost(q)
  <2>1. UNCHANGED restarts /\ faults' = faults + 1
    BY <1>8 DEF GetError, Kill, CreateLost, UpdateLost, Fault
  <2> QED
    BY <1>1, <1>2, <2>1
<1>9. CASE Restart(q)
  <2>1. /\ pc[q] = "failed" /\ pc'[q] = "get" /\ restarts'[q] = restarts[q] + 1
        /\ UNCHANGED faults
    BY <1>0, <1>9 DEF Restart, Launch, Goto
  <2> QED
    BY <1>1, <1>2, <2>1 DEF Doomed
<1> QED
  BY <1>4, <1>5, <1>6, <1>7, <1>8, <1>9

\* A step adds to the tally no more than the fault and, for all pods but
\* one, the version that it counts.
LEMMA TallyStep ==
  ASSUME IInv, IInv', [Next]_vars, admin' = 0, Owner' # "others",
         NEW n \in Nat, Account(n), NEW j \in Jobs, ChartJob(j)
  PROVE  Cardinality(Tally(Load')) <=
           Cardinality(Tally(Load)) + (faults' - faults)
             + (IF cm'.rv = cm.rv THEN 0 ELSE Cardinality(Procs) - 1)
<1>1. /\ admin = 0 /\ job' = job
      /\ ~ AdminDelete /\ ~ AdminCreate
      /\ cm' = cm \/ (cm'.exists /\ cm'.rv = cm.rv + 1)
      /\ Owner # "others"
      /\ faults' = faults \/ faults' = faults + 1
  BY AloneTheVersionGrows
<1>2. /\ cm.rv \in Nat /\ faults \in Nat
      /\ Load \in [Procs -> Nat] /\ Load' \in [Procs -> Nat]
      /\ Cardinality(Procs) \in Nat
      /\ Cardinality(Tally(Load)) \in Nat /\ Cardinality(Tally(Load')) \in Nat
  <2>1. cm.rv \in Nat /\ faults \in Nat
    BY MarkersAssumption DEF IInv, TypeOK, Object
  <2>2. Load \in [Procs -> Nat] /\ Load' \in [Procs -> Nat]
    <3>1. \A p \in Procs : restarts[p] \in Nat /\ restarts'[p] \in Nat
      BY BackoffAssumption DEF IInv, TypeOK
    <3> QED
      BY <3>1 DEF Load
  <2>3. Cardinality(Procs) \in Nat
    BY FS_CardinalityType, BackoffAssumption
  <2> QED
    BY <2>1, <2>2, <2>3, TallyType
<1>3. CASE UNCHANGED vars
  <2>1. Load' = Load /\ cm'.rv = cm.rv /\ faults' = faults
    BY <1>3 DEF vars, Load, Doomed
  <2> QED
    BY <1>2, <2>1
<1>4. ASSUME NEW q \in Procs,
             \/ Start(q) \/ GetNotFound(q) \/ GetFound(q) \/ Create(q)
             \/ Update(q) \/ GetError(q) \/ Kill(q) \/ GiveUp(q)
             \/ CreateLost(q) \/ UpdateLost(q) \/ Restart(q)
      PROVE  Cardinality(Tally(Load')) <=
               Cardinality(Tally(Load)) + (faults' - faults)
                 + (IF cm'.rv = cm.rv THEN 0 ELSE Cardinality(Procs) - 1)
  <2> DEFINE hit   == IF faults' = faults THEN {} ELSE {q}
             beaten == IF cm'.rv = cm.rv THEN {} ELSE Procs \ {q}
             P      == hit \cup beaten
  <2>1. Load'[q] <= Load[q] + (faults' - faults)
    BY <1>1, <1>4, OwnLoad DEF Account, ChartJob
  <2>2. \A p \in Procs : p # q => Load'[p] <= Load[p] + (cm'.rv - cm.rv)
    BY <1>1, <1>4, OwnStepIsOwn, OthersLoad
  <2>3. \A p \in Procs : Load'[p] <= (IF p \in P THEN Load[p] + 1 ELSE Load[p])
    BY <1>1, <1>2, <2>1, <2>2
  <2>4. Cardinality(Tally(Load')) <= Cardinality(Tally(Load)) + Cardinality(P)
    BY <1>2, <2>3, TallyGrows
  <2>5. Cardinality(hit) = faults' - faults /\ IsFiniteSet(hit)
    <3>1. CASE faults' = faults
      BY <1>2, <3>1, FS_EmptySet
    <3>2. CASE faults' = faults + 1
      <4>1. faults' # faults /\ faults' - faults = 1
        BY <1>2, <3>2
      <4>2. hit = {q}
        BY <4>1
      <4> HIDE DEF hit
      <4> QED
        BY <4>1, <4>2, FS_Singleton
    <3> QED
      BY <1>1, <3>1, <3>2
  <2>6. /\ Cardinality(beaten)
             = (IF cm'.rv = cm.rv THEN 0 ELSE Cardinality(Procs) - 1)
        /\ IsFiniteSet(beaten)
    <3>1. /\ IsFiniteSet(Procs \ {q})
          /\ Cardinality(Procs \ {q}) = Cardinality(Procs) - 1
      BY FS_RemoveElement, BackoffAssumption
    <3> QED
      BY <3>1, FS_EmptySet
  <2>7. Cardinality(P) = Cardinality(hit) + Cardinality(beaten)
    <3>1. Cardinality(hit) \in Nat /\ Cardinality(beaten) \in Nat
      BY <2>5, <2>6, FS_CardinalityType
    <3>2. hit \cap beaten = {}
      OBVIOUS
    <3> HIDE DEF hit, beaten
    <3>3. Cardinality(P)
            = Cardinality(hit) + Cardinality(beaten)
                - Cardinality(hit \cap beaten)
      BY <2>5, <2>6, FS_Union
    <3> QED
      BY <3>1, <3>2, <3>3, FS_EmptySet
  <2> QED
    BY <1>1, <1>2, <2>4, <2>5, <2>6, <2>7
<1> QED
  BY <1>1, <1>3, <1>4 DEF Next

LEMMA OneMore ==
  ASSUME NEW a \in Int, NEW b \in Nat
  PROVE  a * (b + 1) = a * b + a
OBVIOUS

LEMMA SharedStep ==
  ASSUME IInv, IInv', [Next]_vars, NEW n \in Nat, Account(n), SharedAccount(n)
  PROVE  SharedAccount(n)'
<1> DEFINE a == Cardinality(Procs) - 1
           b == cm.rv - n
<1> SUFFICES ASSUME admin' = 0, Owner' # "others",
                    NEW j \in Jobs, ChartJob(j)'
             PROVE  Cardinality(Tally(Load')) <= faults' + a * (cm'.rv - n)
  BY DEF SharedAccount
<1>1. /\ admin = 0 /\ job' = job
      /\ cm' = cm \/ cm'.rv = cm.rv + 1
      /\ Owner # "others"
      /\ faults' = faults \/ faults' = faults + 1
  BY AloneTheVersionGrows
<1>2. ChartJob(j)
  BY <1>1 DEF ChartJob
<1>3. Cardinality(Tally(Load)) <= faults + a * b
  BY <1>1, <1>2 DEF SharedAccount
<1>4. /\ a \in Int /\ b \in Nat /\ a * b \in Int
      /\ faults \in Nat /\ cm.rv \in Nat
      /\ Cardinality(Tally(Load)) \in Nat /\ Cardinality(Tally(Load')) \in Nat
  <2>1. a \in Int
    BY FS_CardinalityType, BackoffAssumption
  <2>2. b \in Nat /\ faults \in Nat /\ cm.rv \in Nat
    BY MarkersAssumption DEF Account, IInv, TypeOK, Object
  <2>3. a * b \in Int
    BY <2>1, <2>2
  <2> QED
    BY <2>1, <2>2, <2>3, TallyType
<1>5. Cardinality(Tally(Load')) <=
        Cardinality(Tally(Load)) + (faults' - faults)
          + (IF cm'.rv = cm.rv THEN 0 ELSE a)
  BY <1>2, TallyStep
<1> HIDE DEF a, b
<1>6. CASE cm'.rv = cm.rv
  <2>1. a * (cm'.rv - n) = a * b
    BY <1>6 DEF b
  <2> QED
    BY <1>1, <1>3, <1>4, <1>5, <1>6, <2>1
<1>7. CASE cm'.rv # cm.rv
  <2>1. cm'.rv - n = b + 1
    BY <1>1, <1>4, <1>7 DEF b
  <2>2. a * (cm'.rv - n) = a * b + a
    BY <1>4, <2>1, OneMore
  <2> QED
    BY <1>1, <1>3, <1>4, <1>5, <1>7, <2>2
<1> QED
  BY <1>6, <1>7

\* Within the budget the sum stays below the limit.
LEMMA BudgetSuffices ==
  ASSUME IInv, Budget, NEW j \in Jobs, ChartJob(j),
         admin = 0, Owner # "others", WithinBudget, NEW p \in Procs
  PROVE  ~ PastBackoffLimit(Active(job[p]), restarts)
<1>1. PICK n \in Nat : Account(n) /\ Versions(n) /\ SharedAccount(n)
  BY DEF Budget
<1> DEFINE a == Cardinality(Procs) - 1
<1>2. a \in Nat
  <2>1. Cardinality(Procs) \in Nat /\ Cardinality(Procs) # 0
    BY FS_CardinalityType, FS_EmptySet, BackoffAssumption
  <2> QED
    BY <2>1
<1>3. cm.rv - n \in {0, 1, 2}
  BY <1>1, Amounts DEF Versions
<1>4. Cardinality(Tally(Load)) <= faults + a * (cm.rv - n)
  BY <1>1 DEF SharedAccount
<1>5. a * (cm.rv - n) <= 2 * a
  <2> HIDE DEF a
  <2>1. CASE cm.rv - n = 0
    BY <1>2, <2>1
  <2>2. CASE cm.rv - n = 1
    BY <1>2, <2>2
  <2>3. CASE cm.rv - n = 2
    BY <1>2, <2>3
  <2> QED
    BY <1>3, <2>1, <2>2, <2>3
<1>6. faults + 2 * a < BackoffLimit
  BY DEF WithinBudget
<1>7. /\ Sum(Active(job[p]), restarts) <= Cardinality(Tally(Load))
      /\ Sum(Active(job[p]), restarts) \in Nat
  BY SumBelowTally DEF Active
<1>8. faults \in Nat /\ Cardinality(Tally(Load)) \in Nat /\ BackoffLimit \in Nat
      /\ a * (cm.rv - n) \in Int
  <2> HIDE DEF a
  <2> QED
    BY <1>2, <1>3, Amounts, TallyType, BackoffAssumption
<1> HIDE DEF a
<1> QED
  BY <1>2, <1>4, <1>5, <1>6, <1>7, <1>8 DEF PastBackoffLimit

\* Only the controller's verdict stops a pod.
LEMMA OnlyGiveUpStops ==
  ASSUME IInv, [Next]_vars, NEW p \in Procs, pc'[p] = "stopped"
  PROVE  pc[p] = "stopped" \/ GiveUp(p)
<1>0. pc \in [Procs -> PC]
  BY DEF IInv, TypeOK
<1>1. ASSUME NEW q \in Procs, GetFound(q) \/ Create(q)
      PROVE  pc[p] = "stopped"
  BY <1>0, <1>1 DEF GetFound, Create, Edit, Goto
<1>2. ASSUME NEW q \in Procs, Update(q)
      PROVE  pc[p] = "stopped"
  BY <1>0, <1>2 DEF Update, Advance, Goto
<1>3. ASSUME NEW q \in Procs,
             \/ Start(q) \/ GetNotFound(q) \/ GetError(q) \/ Kill(q)
             \/ CreateLost(q) \/ UpdateLost(q) \/ Restart(q)
      PROVE  pc[p] = "stopped"
  BY <1>0, <1>3 DEF Start, GetNotFound, GetError, Kill, CreateLost, UpdateLost,
                    Restart, Launch, Goto
<1>4. ASSUME NEW q \in Procs, GiveUp(q), q # p
      PROVE  pc[p] = "stopped"
  BY <1>0, <1>4 DEF GiveUp, Goto
<1>5. CASE AdminDelete \/ AdminCreate \/ UNCHANGED vars
  BY <1>5 DEF AdminDelete, AdminCreate, Admin, vars
<1> QED
  BY <1>1, <1>2, <1>3, <1>4, <1>5 DEF Next

\* A Job of the chart is given up only after more faults than its
\* backoffLimit less two for every pod but one, whatever ConfigMap of ours it
\* found and however the restarts are spread over its pods.
THEOREM ChartJobNeverGivesUp == Spec => []NeverGivesUp
<1> DEFINE Alone  == /\ \E j \in Jobs : ChartJob(j)
                     /\ admin = 0 /\ Owner # "others"
                     /\ WithinBudget
           Below  == Alone => \A p \in Procs :
                                ~ PastBackoffLimit(Active(job[p]), restarts)
           GoesOn == Alone => \A p \in Procs : pc[p] # "stopped"
<1>1. Init => Budget /\ GoesOn
  <2> SUFFICES ASSUME Init PROVE Budget /\ GoesOn
    OBVIOUS
  <2>1. cm.rv \in Nat
    BY MarkersAssumption DEF Init, Object
  <2>2. Account(cm.rv) /\ Versions(cm.rv)
    BY <2>1, InitAccount DEF Versions
  <2>3. SharedAccount(cm.rv)
    <3>1. \A p \in Procs : Load[p] = 0
      BY DEF Init, Load, Doomed
    <3>2. Tally(Load) = {}
      BY <3>1, BackoffAssumption DEF Tally
    <3>3. (Cardinality(Procs) - 1) * (cm.rv - cm.rv) = 0
      <4>1. Cardinality(Procs) - 1 \in Int /\ cm.rv - cm.rv = 0
        BY <2>1, FS_CardinalityType, BackoffAssumption
      <4> QED
        BY <4>1
    <3> QED
      BY <3>2, <3>3, FS_EmptySet DEF Init, SharedAccount
  <2>4. Budget
    BY <2>1, <2>2, <2>3 DEF Budget
  <2>5. \A p \in Procs : pc[p] # "stopped"
    BY DEF Init
  <2> QED
    BY <2>4, <2>5
<1>2. IInv /\ IInv' /\ [Next]_vars /\ Budget => Budget'
  <2> SUFFICES ASSUME IInv, IInv', [Next]_vars,
                      NEW n \in Nat, Account(n), Versions(n), SharedAccount(n)
               PROVE  Account(n)' /\ Versions(n)' /\ SharedAccount(n)'
    BY DEF Budget
  <2> QED
    BY AccountStep, VersionsStep, SharedStep
<1>3. IInv /\ Budget => Below
  BY BudgetSuffices
<1>4. IInv /\ IInv' /\ [Next]_vars /\ Below /\ GoesOn => GoesOn'
  <2> SUFFICES ASSUME IInv, IInv', [Next]_vars, Below, GoesOn,
                      NEW j \in Jobs, ChartJob(j)',
                      admin' = 0, Owner' # "others", WithinBudget',
                      NEW p \in Procs
               PROVE  pc'[p] # "stopped"
    OBVIOUS
  <2>1. /\ admin = 0 /\ job' = job /\ Owner # "others"
        /\ faults' = faults \/ faults' = faults + 1
    BY AloneTheVersionGrows
  <2>2. ChartJob(j) /\ WithinBudget
    <3>1. faults \in Nat /\ 2 * (Cardinality(Procs) - 1) \in Int
          /\ BackoffLimit \in Nat
      BY Amounts, FS_CardinalityType, BackoffAssumption
    <3> QED
      BY <2>1, <3>1 DEF ChartJob, WithinBudget
  <2>3. /\ \A q \in Procs : pc[q] # "stopped"
        /\ ~ PastBackoffLimit(Active(job[p]), restarts)
    BY <2>1, <2>2
  <2> QED
    BY <2>3, OnlyGiveUpStops DEF GiveUp
<1>5. Below /\ GoesOn => NeverGivesUp
  BY DEF NeverGivesUp
<1> HIDE DEF Below, GoesOn
<1> QED
  BY <1>1, <1>2, <1>3, <1>4, <1>5, Invariant, PTL DEF Spec
===============================================================================
