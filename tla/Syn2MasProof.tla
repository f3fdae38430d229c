----------------------------- MODULE Syn2MasProof -----------------------------
(***************************************************************************)
(* Proofs about Syn2Mas, for any StatefulSets with any replicas, whatever  *)
(* the Role grants, and any number of attempts and faults.                 *)
(*                                                                         *)
(* The process never looks at all StatefulSets at once, so the invariant   *)
(* says what it has achieved so far: those of which it has ignored no      *)
(* error and which its loop has behind it are at zero while it scales      *)
(* down (Down), and at the recorded scale while it scales back (Back).     *)
(* Across attempts, what none of them has lost is at the installed scale   *)
(* unless the attempt at work has scaled it down (Installed).              *)
(* The controller cannot undo it: it creates no pod for a StatefulSet      *)
(* that asks for none.                                                     *)
(***************************************************************************)
EXTENDS Syn2Mas, TLAPS

\* What has been recorded is what was installed, or the zero that an earlier
\* attempt has left.
Recorded ==
  /\ \A s \in Sts : spec[s] \in {0, scale[s]}
  /\ \A s \in Sts : orig[s] \in {0, scale[s]}

\* A good exit code is only kept of a migration that was committed.
Committed ==
  /\ result = "ok" => migrated
  /\ pc = "ok" => migrated

Down ==
  /\ pc = "list" => ignored = {}
  /\ pc = "down" => ignored \cap todo = {}
  /\ pc = "down" => \A s \in Sts \ (ignored \cup todo) : spec[s] = 0
  /\ pc \in {"available", "gone", "migrate"} =>
       \A s \in Sts \ ignored : spec[s] = 0
  /\ pc = "migrate" => \A s \in Sts \ ignored : Count(s) = 0

Back ==
  pc \in {"get", "put"} => \A s \in Sts \ (ignored \cup todo) : spec[s] = orig[s]

\* The first attempt finds what the release has installed.
First ==
  /\ attempts = 0 <=> pc = "idle"
  /\ pc = "idle" => spec = scale
  /\ pc = "list" /\ attempts = 1 => spec = scale
  /\ pc \in Running \ {"list"} /\ attempts = 1 => orig = scale

\* A StatefulSet that no attempt has lost is at its scale, and recorded with
\* it, unless the attempt at work has scaled it down and is to be back to it.
Installed ==
  \A s \in Sts \ lost :
    /\ s \notin Unreturned => spec[s] = scale[s]
    /\ pc \in Running \ {"list"} => orig[s] = scale[s]

IInv == TypeOK /\ Recorded /\ Committed /\ Down /\ Back /\ First /\ Installed

-------------------------------------------------------------------------------
LEMMA InitIInv == Init => IInv
<1> SUFFICES ASSUME Init PROVE IInv
  OBVIOUS
<1>1. scale \in [Sts -> 0..MaxReplicas] /\ 0 \in 0..MaxReplicas
  BY Syn2MasAssumption DEF Init
<1>2. /\ pods \in [Sts -> Pods]
      /\ \A s \in Sts : Count(s) <= MaxReplicas
  BY <1>1, Syn2MasAssumption DEF Init, Pods, Count
<1>3. TypeOK
  <2>1. /\ 0 \in 0..MaxRetries /\ 0 \in 0..MaxAttempts /\ 0 \in 0..MaxErrors
        /\ 0 \in 0..MaxEvictions /\ 0 \in 0..MaxKills
    BY Syn2MasAssumption
  <2>2. orig \in [Sts -> 0..MaxReplicas]
    BY <1>1 DEF Init
  <2>3. granted \subseteq Sts /\ stray \in BOOLEAN
    BY Syn2MasAssumption DEF Init
  <2> QED
    BY <1>1, <1>2, <2>1, <2>2, <2>3, Syn2MasAssumption DEF Init, TypeOK, PC
<1>4. Recorded /\ Committed /\ Down /\ Back /\ First /\ Installed
  BY <1>1 DEF Init, Recorded, Committed, Down, Back, First, Installed,
              Unreturned, Running, PC, Ended
<1> QED
  BY <1>3, <1>4 DEF IInv

-------------------------------------------------------------------------------
(***************************************************************************)
(* The controller.                                                         *)
(***************************************************************************)

\* A pod that changes its state stays one pod.
LEMMA MoveKeeps ==
  ASSUME TypeOK, NEW s \in Sts,
         \/ Move(s, "starting", "ready")
         \/ Move(s, "starting", "stopping")
         \/ Move(s, "ready", "stopping")
  PROVE  /\ pods' \in [Sts -> Pods]
         /\ \A t \in Sts : Count(t)' = Count(t)
         /\ UNCHANGED <<setting, spec, status, observed, process>>
<1>1. pods \in [Sts -> Pods]
  BY DEF TypeOK
<1>2. CASE Move(s, "starting", "ready")
  <2>1. /\ pods[s].starting > 0
        /\ pods' = [pods EXCEPT ![s] =
             [pods[s] EXCEPT !.starting = pods[s].starting - 1,
                             !.ready = pods[s].ready + 1]]
    BY <1>1, <1>2 DEF Move, Pods
  <2> QED
    BY <1>1, <1>2, <2>1 DEF Move, Pods, Count
<1>3. CASE Move(s, "starting", "stopping")
  <2>1. /\ pods[s].starting > 0
        /\ pods' = [pods EXCEPT ![s] =
             [pods[s] EXCEPT !.starting = pods[s].starting - 1,
                             !.stopping = pods[s].stopping + 1]]
    BY <1>1, <1>3 DEF Move, Pods
  <2> QED
    BY <1>1, <1>3, <2>1 DEF Move, Pods, Count
<1>4. CASE Move(s, "ready", "stopping")
  <2>1. /\ pods[s].ready > 0
        /\ pods' = [pods EXCEPT ![s] =
             [pods[s] EXCEPT !.ready = pods[s].ready - 1,
                             !.stopping = pods[s].stopping + 1]]
    BY <1>1, <1>4 DEF Move, Pods
  <2> QED
    BY <1>1, <1>4, <2>1 DEF Move, Pods, Count
<1> QED
  BY <1>2, <1>3, <1>4

\* The controller changes the pods and the status; it adds a pod only where
\* the spec asks for one more.
LEMMA ControllerKeeps ==
  ASSUME TypeOK, NEW s \in Sts, Controller(s) \/ Evict(s)
  PROVE  /\ pods' \in [Sts -> Pods]
         /\ status' \in [Sts -> Pods]
         /\ observed' \subseteq Sts
         /\ fresh' \subseteq Sts
         /\ evictions' \in 0..MaxEvictions
         /\ \A t \in Sts : Count(t)' <= Count(t) \/ Count(t)' <= spec[t]
         /\ \A t \in Sts : Count(t) \in Nat /\ Count(t)' \in Nat
         /\ UNCHANGED <<setting, spec, pc, orig, todo, item, retries, result,
                        migrated, ignored, lost, attempts, errors, kills>>
<1>1. /\ pods \in [Sts -> Pods]
      /\ status \in [Sts -> Pods] /\ observed \subseteq Sts
      /\ fresh \subseteq Sts
      /\ evictions \in 0..MaxEvictions
      /\ spec \in [Sts -> 0..MaxReplicas]
      /\ MaxReplicas \in Nat /\ MaxEvictions \in Nat
  BY Syn2MasAssumption DEF TypeOK
<1>2. ASSUME pods' \in [Sts -> Pods]
      PROVE  \A t \in Sts : Count(t) \in Nat /\ Count(t)' \in Nat
  BY <1>1, <1>2 DEF Count, Pods
<1>3. CASE CreatePod(s)
  <2>1. /\ pods' = [pods EXCEPT ![s] =
             [pods[s] EXCEPT !.starting = pods[s].starting + 1]]
        /\ Count(s) < spec[s]
    BY <1>1, <1>3 DEF CreatePod, Pods
  <2>2. pods' \in [Sts -> Pods]
    BY <1>1, <2>1 DEF Pods
  <2>3. \A t \in Sts : IF t = s THEN Count(t)' = Count(t) + 1
                               ELSE Count(t)' = Count(t)
    BY <1>1, <2>1 DEF Count, Pods
  <2>4. \A t \in Sts : Count(t)' <= Count(t) \/ Count(t)' <= spec[t]
    BY <1>1, <1>2, <2>1, <2>2, <2>3
  <2> QED
    BY <1>1, <1>2, <1>3, <2>2, <2>4
       DEF CreatePod, process, bounds
<1>4. CASE PodReady(s) \/ StopPod(s) \/ Evict(s)
  <2>1. /\ pods' \in [Sts -> Pods]
        /\ \A t \in Sts : Count(t)' = Count(t)
        /\ UNCHANGED <<setting, spec, status, observed, process>>
    BY <1>4, MoveKeeps DEF PodReady, StopPod, Evict
  <2>2. \A t \in Sts : Count(t)' <= Count(t)
    BY <1>2, <2>1
  <2>3. evictions' \in 0..MaxEvictions
    BY <1>1, <1>4 DEF PodReady, StopPod, Evict, bounds
  <2> QED
    BY <1>1, <1>2, <1>4, <2>1, <2>2, <2>3
       DEF PodReady, StopPod, Evict, process, bounds
<1>5. CASE PodGone(s)
  <2>1. /\ pods' = [pods EXCEPT ![s] =
             [pods[s] EXCEPT !.stopping = pods[s].stopping - 1]]
        /\ pods[s].stopping > 0
    BY <1>1, <1>5 DEF PodGone, Pods
  <2>2. pods' \in [Sts -> Pods]
    BY <1>1, <2>1 DEF Pods
  <2>3. \A t \in Sts : IF t = s THEN Count(t)' = Count(t) - 1
                               ELSE Count(t)' = Count(t)
    BY <1>1, <2>1 DEF Count, Pods
  <2>4. \A t \in Sts : Count(t)' <= Count(t)
    BY <1>2, <2>2, <2>3
  <2> QED
    BY <1>1, <1>2, <1>5, <2>2, <2>4 DEF PodGone, process, bounds
<1>6. CASE Report(s)
  <2>2. status' \in [Sts -> Pods] /\ observed' \subseteq Sts
    BY <1>1, <1>6 DEF Report
  <2>3. pods' = pods /\ \A t \in Sts : Count(t)' = Count(t)
    BY <1>6 DEF Report, Count
  <2>4. \A t \in Sts : Count(t)' <= Count(t)
    BY <1>1, <1>2, <2>3
  <2> QED
    BY <1>1, <1>2, <1>6, <2>2, <2>3, <2>4 DEF Report, bounds
<1> QED
  BY <1>3, <1>4, <1>5, <1>6 DEF Controller

LEMMA ControllerIInv ==
  ASSUME IInv, NEW s \in Sts, Controller(s) \/ Evict(s)
  PROVE  IInv'
<1>1. TypeOK
  BY DEF IInv
<1>2. /\ pods' \in [Sts -> Pods]
      /\ status' \in [Sts -> Pods]
      /\ observed' \subseteq Sts
      /\ fresh' \subseteq Sts
      /\ evictions' \in 0..MaxEvictions
      /\ \A t \in Sts : Count(t)' <= Count(t) \/ Count(t)' <= spec[t]
      /\ \A t \in Sts : Count(t) \in Nat /\ Count(t)' \in Nat
      /\ UNCHANGED <<setting, spec, pc, orig, todo, item, retries, result,
                     migrated, ignored, lost, attempts, errors, kills>>
  BY <1>1, ControllerKeeps
<1>3. \A t \in Sts : Count(t)' <= MaxReplicas
  <2>1. \A t \in Sts : Count(t) <= MaxReplicas /\ spec[t] \in 0..MaxReplicas
    BY <1>1 DEF TypeOK
  <2> QED
    BY <1>2, <2>1, Syn2MasAssumption
<1>4. TypeOK'
  BY <1>1, <1>2, <1>3 DEF TypeOK, setting
<1>5. Recorded' /\ Committed' /\ Back' /\ First' /\ Installed'
  BY <1>2 DEF IInv, Recorded, Committed, Back, First, Installed, Unreturned,
              setting
<1>6. Down'
  <2>1. ASSUME pc = "migrate", NEW t \in Sts \ ignored
        PROVE  Count(t)' = 0
    BY <1>2, <2>1 DEF IInv, Down
  <2> QED
    BY <1>2, <2>1 DEF IInv, Down
<1> QED
  BY <1>4, <1>5, <1>6 DEF IInv

-------------------------------------------------------------------------------
(***************************************************************************)
(* The process.                                                            *)
(***************************************************************************)

\* An Update sets the replicas of the StatefulSet, or its error is ignored.
LEMMA SetReplicasKeeps ==
  ASSUME TypeOK, NEW s \in Sts, NEW n \in 0..MaxReplicas, SetReplicas(s, n)
  PROVE  /\ spec' \in [Sts -> 0..MaxReplicas]
         /\ ignored' \subseteq Sts /\ ignored \subseteq ignored'
         /\ errors' \in 0..MaxErrors
         /\ observed' \subseteq Sts /\ fresh' \subseteq Sts
         /\ spec'[s] = n \/ s \in ignored'
         /\ spec'[s] \in {n, spec[s]}
         /\ \A t \in Sts \ {s} : spec'[t] = spec[t]
         /\ spec'[s] = spec[s] \/ ignored' = ignored
         /\ ignored' \subseteq ignored \cup {s}
BY Syn2MasAssumption DEF TypeOK, SetReplicas

LEMMA ScaleDownIInv ==
  ASSUME IInv, NEW s \in Sts, ScaleDown(s)
  PROVE  IInv'
<1>0. TypeOK /\ 0 \in 0..MaxReplicas
  BY Syn2MasAssumption DEF IInv
<1>1. /\ spec' \in [Sts -> 0..MaxReplicas]
      /\ ignored' \subseteq Sts /\ ignored \subseteq ignored'
      /\ errors' \in 0..MaxErrors
      /\ observed' \subseteq Sts /\ fresh' \subseteq Sts
      /\ spec'[s] = 0 \/ s \in ignored'
      /\ spec'[s] \in {0, spec[s]}
      /\ \A t \in Sts \ {s} : spec'[t] = spec[t]
      /\ spec'[s] = spec[s] \/ ignored' = ignored
      /\ ignored' \subseteq ignored \cup {s}
  BY <1>0, SetReplicasKeeps DEF ScaleDown
<1>2. /\ pc = "down" /\ todo' = todo \ {s}
      /\ pc' = IF todo' = {} THEN "available" ELSE "down"
      /\ UNCHANGED <<scale, granted, stray, status, pods, orig, item, retries,
                     result, migrated, lost, attempts, evictions, kills>>
  BY DEF ScaleDown, setting
<1>3. TypeOK'
  BY <1>0, <1>1, <1>2 DEF TypeOK, PC, Count
<1>4. Recorded'
  BY <1>1, <1>2 DEF IInv, Recorded
<1>5. Committed' /\ Back'
  BY <1>2 DEF IInv, Committed, Back
<1>6. Down'
  <2>1. /\ \A t \in Sts \ (ignored' \cup todo') : spec'[t] = 0
        /\ ignored' \cap todo' = {}
    BY <1>1, <1>2 DEF IInv, Down
  <2> QED
    BY <1>2, <2>1 DEF Down
<1>7. First'
  BY <1>2 DEF IInv, First, Running, PC, Ended
<1>8. Installed'
  <2> SUFFICES ASSUME NEW t \in Sts \ lost
               PROVE  /\ t \notin Unreturned' => spec'[t] = scale[t]
                      /\ orig[t] = scale[t]
    BY <1>2 DEF Installed, Running, PC, Ended
  <2>1. /\ orig[t] = scale[t]
        /\ t \in todo \cup ignored => spec[t] = scale[t]
    BY <1>2 DEF IInv, Installed, Unreturned, Running, PC, Ended
  <2>2. t \notin Unreturned' => t \in todo' \cup ignored'
    BY <1>2 DEF Unreturned
  <2>3. t \in todo' \cup ignored' => spec'[t] = scale[t]
    <3>1. CASE t = s
      BY <1>1, <1>2, <2>1, <3>1 DEF ScaleDown, IInv, Down
    <3>2. CASE t # s
      BY <1>1, <1>2, <2>1, <3>2
    <3> QED
      BY <3>1, <3>2
  <2> QED
    BY <2>1, <2>2, <2>3
<1> QED
  BY <1>3, <1>4, <1>5, <1>6, <1>7, <1>8 DEF IInv

LEMMA ScaleBackIInv ==
  ASSUME IInv, ScaleBack
  PROVE  /\ IInv'
         /\ \A t \in Sts \ (ignored' \cup todo') : spec'[t] = orig[t]
<1>0. TypeOK /\ item \in Sts /\ orig[item] \in 0..MaxReplicas
  BY DEF IInv, TypeOK
<1>1. /\ spec' \in [Sts -> 0..MaxReplicas]
      /\ ignored' \subseteq Sts /\ ignored \subseteq ignored'
      /\ errors' \in 0..MaxErrors
      /\ observed' \subseteq Sts /\ fresh' \subseteq Sts
      /\ spec'[item] = orig[item] \/ item \in ignored'
      /\ spec'[item] \in {orig[item], spec[item]}
      /\ \A t \in Sts \ {item} : spec'[t] = spec[t]
      /\ spec'[item] = spec[item] \/ ignored' = ignored
      /\ ignored' \subseteq ignored \cup {item}
  BY <1>0, SetReplicasKeeps DEF ScaleBack
<1>2. /\ pc = "put" /\ todo' = todo \ {item}
      /\ pc' = IF todo' = {} THEN result ELSE "get"
      /\ lost' = lost \cup (ignored' \ ignored)
      /\ UNCHANGED <<scale, granted, stray, status, pods, orig, item, retries,
                     result, migrated, attempts, evictions, kills>>
  BY DEF ScaleBack, setting
<1>3. result \in {"ok", "failed"}
  BY <1>0 DEF TypeOK
<1>4. TypeOK'
  BY <1>0, <1>1, <1>2, <1>3 DEF TypeOK, PC, Count
<1>5. Recorded'
  BY <1>0, <1>1, <1>2 DEF IInv, Recorded
<1>6. Committed' /\ Down'
  BY <1>2, <1>3 DEF IInv, Committed, Down
<1>7. \A t \in Sts \ (ignored' \cup todo') : spec'[t] = orig[t]
  BY <1>0, <1>1, <1>2 DEF IInv, Back
<1>8. Back'
  BY <1>2, <1>7 DEF Back
<1>9. First'
  BY <1>2, <1>3 DEF IInv, First, Running, PC, Ended
<1>10. Installed'
  <2> SUFFICES ASSUME NEW t \in Sts \ lost'
               PROVE  /\ t \notin Unreturned' => spec'[t] = scale[t]
                      /\ orig[t] = scale[t]
    BY <1>2 DEF Installed
  <2>1. /\ t \notin lost /\ orig[t] = scale[t]
        /\ t \notin todo \ ignored => spec[t] = scale[t]
    BY <1>2 DEF IInv, Installed, Unreturned, Running, PC, Ended
  <2>2. t \in todo' \ ignored' => t \in Unreturned'
    BY <1>2 DEF Unreturned
  <2>3. t \notin todo' \ ignored' => spec'[t] = scale[t]
    <3>1. CASE t = item
      BY <1>1, <1>2, <2>1, <3>1
    <3>2. CASE t # item
      BY <1>1, <1>2, <2>1, <3>2
    <3> QED
      BY <3>1, <3>2
  <2> QED
    BY <2>1, <2>2, <2>3
<1> QED
  BY <1>4, <1>5, <1>6, <1>7, <1>8, <1>9, <1>10 DEF IInv

\* The steps that leave the StatefulSets alone.
LEMMA ProcessIInv ==
  ASSUME IInv,
         \/ Begin \/ ListStatefulSets \/ AwaitUnavailable \/ AwaitGone
         \/ Migrate \/ (\E s \in Sts : GetStatefulSet(s))
         \/ ReadError \/ Kill
  PROVE  IInv'
<1> USE DEF setting, cluster, bounds
<1>0. TypeOK
  BY DEF IInv
<1>1. CASE Begin
  <2>1. TypeOK'
    BY <1>0, <1>1, Syn2MasAssumption DEF Begin, TypeOK, PC, Count
  <2>2. Recorded' /\ Committed' /\ Down' /\ Back'
    BY <1>1 DEF IInv, Begin, Recorded, Committed, Down, Back
  <2>3. attempts \in Nat /\ attempts' = attempts + 1
    BY <1>0, <1>1, Syn2MasAssumption DEF Begin, TypeOK
  <2>4. First'
    BY <1>1, <2>3 DEF IInv, Begin, First, Running, PC, Ended
  <2>9. Installed'
    BY <1>1 DEF IInv, Begin, Installed, Unreturned, Running, PC, Ended
  <2> QED
    BY <2>1, <2>2, <2>4, <2>9 DEF IInv
<1>2. CASE ListStatefulSets
  <2>1. TypeOK'
    BY <1>0, <1>2 DEF ListStatefulSets, TypeOK, PC, Count
  <2>2. Recorded' /\ Committed' /\ Down' /\ Back'
    BY <1>2 DEF IInv, ListStatefulSets, Recorded, Committed, Down, Back
  <2>3. First'
    BY <1>2 DEF IInv, ListStatefulSets, First, Running, PC, Ended
  <2>9. Installed'
    BY <1>2 DEF IInv, ListStatefulSets, Installed, Unreturned, Running, PC, Ended
  <2> QED
    BY <2>1, <2>2, <2>3, <2>9 DEF IInv
<1>3. CASE AwaitUnavailable
  <2>1. TypeOK'
    BY <1>0, <1>3, Syn2MasAssumption DEF AwaitUnavailable, TypeOK, PC, Count
  <2>2. Recorded' /\ Committed' /\ Down' /\ Back'
    BY <1>3 DEF IInv, AwaitUnavailable, Recorded, Committed, Down, Back
  <2>3. First'
    BY <1>3 DEF IInv, AwaitUnavailable, First, Running, PC, Ended
  <2>9. Installed'
    BY <1>3 DEF IInv, AwaitUnavailable, Installed, Unreturned, Running, PC, Ended
  <2> QED
    BY <2>1, <2>2, <2>3, <2>9 DEF IInv
<1>4. CASE AwaitGone
  <2>0. retries' \in 0..MaxRetries
    BY <1>0, <1>4, Syn2MasAssumption DEF AwaitGone, TypeOK
  <2>1. TypeOK'
    BY <1>0, <1>4, <2>0 DEF AwaitGone, TypeOK, PC, Count, Unreturned
  <2>2. Recorded' /\ Committed' /\ Back'
    BY <1>4 DEF IInv, AwaitGone, Recorded, Committed, Back
  <2>3. ASSUME pc' = "migrate", NEW s \in Sts PROVE Count(s)' = 0
    <3>1. ~ PodsFound /\ pods' = pods
      BY <1>4, <2>3 DEF AwaitGone
    <3>2. Count(s) \in Nat
      BY <1>0 DEF TypeOK, Pods, Count
    <3>3. Count(s) = 0
      BY <3>1, <3>2 DEF PodsFound
    <3> QED
      BY <3>1, <3>3 DEF Count
  <2>4. Down'
    BY <1>4, <2>3 DEF IInv, AwaitGone, Down
  <2>5. First'
    BY <1>4 DEF IInv, AwaitGone, First, Running, PC, Ended
  <2>9. Installed'
    BY <1>4 DEF IInv, AwaitGone, Installed, Unreturned, Running, PC, Ended
  <2> QED
    BY <2>1, <2>2, <2>4, <2>5, <2>9 DEF IInv
<1>5. CASE Migrate
  <2>1. TypeOK'
    BY <1>0, <1>5 DEF Migrate, TypeOK, PC, Count
  <2>2. Recorded' /\ Committed' /\ Down' /\ Back'
    BY <1>5 DEF IInv, Migrate, Recorded, Committed, Down, Back
  <2>3. First'
    BY <1>5 DEF IInv, Migrate, First, Running, PC, Ended
  <2>9. Installed'
    BY <1>5 DEF IInv, Migrate, Installed, Unreturned, Running, PC, Ended
  <2> QED
    BY <2>1, <2>2, <2>3, <2>9 DEF IInv
<1>6. CASE \E s \in Sts : GetStatefulSet(s)
  <2>0. PICK s \in Sts : GetStatefulSet(s)
    BY <1>6
  <2>1. TypeOK'
    BY <1>0, <2>0 DEF GetStatefulSet, TypeOK, PC, Count, Unreturned
  <2>2. Recorded' /\ Committed' /\ Down' /\ Back'
    BY <2>0 DEF IInv, GetStatefulSet, Recorded, Committed, Down, Back
  <2>3. First'
    BY <2>0 DEF IInv, GetStatefulSet, First, Running, PC, Ended
  <2>9. Installed'
    BY <2>0 DEF IInv, GetStatefulSet, Installed, Unreturned, Running, PC, Ended
  <2> QED
    BY <2>1, <2>2, <2>3, <2>9 DEF IInv
<1>7. CASE ReadError
  <2>1. TypeOK'
    BY <1>0, <1>7, Syn2MasAssumption DEF ReadError, TypeOK, PC, Count, Unreturned
  <2>2. Recorded' /\ Committed' /\ Down' /\ Back'
    BY <1>7 DEF IInv, ReadError, Recorded, Committed, Down, Back
  <2>3. First'
    BY <1>7 DEF IInv, ReadError, First, Running, PC, Ended
  <2>9. Installed'
    BY <1>7 DEF IInv, ReadError, Installed, Unreturned, Running, PC, Ended
  <2> QED
    BY <2>1, <2>2, <2>3, <2>9 DEF IInv
<1>8. CASE Kill
  <2>0. kills' \in 0..MaxKills /\ migrated' \in BOOLEAN /\ pc' \in PC
    <3>1. kills' \in 0..MaxKills
      BY <1>0, <1>8, Syn2MasAssumption DEF Kill, TypeOK
    <3>2. migrated' \in BOOLEAN
      BY <1>0, <1>8 DEF Kill, TypeOK
    <3> QED
      BY <1>8, <3>1, <3>2 DEF Kill, PC
  <2>1. TypeOK'
    BY <1>0, <1>8, <2>0 DEF Kill, TypeOK, Count, Unreturned
  <2>2. Recorded' /\ Committed' /\ Down' /\ Back'
    BY <1>8 DEF IInv, Kill, Recorded, Committed, Down, Back
  <2>3. First'
    BY <1>8 DEF IInv, Kill, First, Running, PC, Ended
  <2>9. Installed'
    BY <1>8 DEF IInv, Kill, Installed, Unreturned, Running, PC, Ended
  <2> QED
    BY <2>1, <2>2, <2>3, <2>9 DEF IInv
<1> QED
  BY <1>1, <1>2, <1>3, <1>4, <1>5, <1>6, <1>7, <1>8

LEMMA NextIInv ==
  ASSUME IInv, [Next]_vars
  PROVE  IInv'
<1>1. ASSUME NEW s \in Sts, Controller(s) \/ Evict(s) PROVE IInv'
  BY <1>1, ControllerIInv
<1>2. ASSUME NEW s \in Sts, ScaleDown(s) PROVE IInv'
  BY <1>2, ScaleDownIInv
<1>3. CASE ScaleBack
  BY <1>3, ScaleBackIInv
<1>4. CASE \/ Begin \/ ListStatefulSets \/ AwaitUnavailable \/ AwaitGone
           \/ Migrate \/ (\E s \in Sts : GetStatefulSet(s))
           \/ ReadError \/ Kill
  BY <1>4, ProcessIInv
<1>5. CASE UNCHANGED vars
  BY <1>5 DEF IInv, TypeOK, Recorded, Committed, Down, Back, First, Installed,
              Unreturned, Count, vars, setting, cluster, process, bounds
<1> QED
  BY <1>1, <1>2, <1>3, <1>4, <1>5 DEF Next, Controller

\* The invariant that carries the theorems below.
THEOREM Invariant == Spec => []IInv
BY InitIInv, NextIInv, PTL DEF Spec

-------------------------------------------------------------------------------
\* Every variable keeps its type; in particular no StatefulSet ever has more
\* pods than the greatest number of replicas that was installed.
THEOREM TypeCorrect == Spec => []TypeOK
BY Invariant, PTL DEF IInv

\* While mas-cli may be at work, no pod is left of a StatefulSet that the
\* attempt has scaled down, although the status, the pods and the replicas
\* are looked at one after the other while the controller goes on.
THEOREM MigrationIsAlone == Spec => []MigratesAlone
<1>1. IInv => MigratesAlone
  BY DEF IInv, Down, MigratesAlone
<1> QED
  BY <1>1, Invariant, PTL

\* Any sequence of attempts that fail anywhere leaves each StatefulSet at
\* zero or at the scale that the release has installed, and at the latter
\* unless one of them has exited before it was back to it or was refused.
THEOREM InstalledOrLost == Spec => []InstalledUnlessLost
<1>1. IInv => InstalledUnlessLost
  BY DEF IInv, Recorded, Installed, Unreturned, InstalledUnlessLost, Running, PC,
         Ended
<1> QED
  BY <1>1, Invariant, PTL

\* A Job that succeeds has migrated, or an earlier attempt has.
THEOREM OkMeansMigrated == Spec => []SuccessMeansMigrated
<1>1. IInv => SuccessMeansMigrated
  BY DEF IInv, Committed, SuccessMeansMigrated
<1> QED
  BY <1>1, Invariant, PTL

\* An attempt that goes through scaleBack leaves every StatefulSet whose
\* Update did not fail as it was found, and tells with 0 that the users are
\* migrated.
THEOREM EverythingScalesBack == Spec => ScalesBack
<1> DEFINE Restored ==
             pc = "put" /\ pc' \in {"ok", "failed"} =>
               /\ \A s \in Sts \ ignored' :
                    /\ spec'[s] = orig[s]
                    /\ attempts = 1 => spec'[s] = scale[s]
               /\ pc' = "ok" => migrated'
<1>1. IInv /\ [Next]_vars => Restored \/ UNCHANGED vars
  <2> SUFFICES ASSUME IInv, Next, pc = "put", pc' \in {"ok", "failed"}
               PROVE  Restored
    OBVIOUS
  <2>1. ScaleBack
    BY DEF Next, CreatePod, PodReady, StopPod, PodGone, Report, Evict, Move,
           ScaleDown, GetStatefulSet, Begin, ListStatefulSets,
           AwaitUnavailable, AwaitGone, Migrate, ReadError, Kill, process
  <2>2. \A t \in Sts \ (ignored' \cup todo') : spec'[t] = orig[t]
    BY <2>1, ScaleBackIInv
  <2>3. todo' = {}
    BY <2>1 DEF ScaleBack
  <2>4. attempts = 1 => orig = scale
    BY DEF IInv, First, Running, PC, Ended
  <2>5. pc' = "ok" => migrated'
    BY <2>1, ScaleBackIInv DEF IInv, Committed
  <2> QED
    BY <2>2, <2>3, <2>4, <2>5
<1> QED
  BY <1>1, Invariant, PTL DEF Spec, ScalesBack

-------------------------------------------------------------------------------
(***************************************************************************)
(* What an attempt needs to have everything down while mas-cli is at work. *)
(*                                                                         *)
(* It begins when the StatefulSets are at rest, no call fails and nothing  *)
(* is evicted.  Then a StatefulSet stays at rest until its own Update, so  *)
(* that the copy of the List is still the stored one when it is used, and  *)
(* one that has been told to stop does nothing but stop.                   *)
(***************************************************************************)

\* The pods are stopping, and the status may lag behind.
Going(s) ==
  spec[s] = 0 /\ pods[s].starting = 0 /\ pods[s].ready <= status[s].ready

\* The Role did not let the process scale it down.
Kept(s) == Rest(s) /\ spec[s] > 0 /\ s \notin granted

\* How far such an attempt has come.
Undisturbed ==
  /\ pc # "idle"
  /\ pc = "list" => \A s \in Sts : Rest(s)
  /\ pc = "down" =>
       \A s \in Sts : IF s \in todo THEN Rest(s) /\ s \in fresh
                                   ELSE Going(s) \/ Kept(s)
  /\ pc = "available" => \A s \in Sts : Going(s) \/ Kept(s)
  /\ pc = "gone" => \A s \in Sts : Going(s) /\ status[s].ready = 0
  /\ pc = "migrate" => \A s \in Sts : spec[s] = 0 /\ Count(s) = 0

\* The controller leaves alone what is at rest, and what is going goes on;
\* where the last replica is gone, none becomes available again.
LEMMA ControllerCalm ==
  ASSUME TypeOK, NEW s \in Sts, Controller(s), NEW t \in Sts
  PROVE  /\ Rest(t) => Rest(t)'
         /\ Kept(t) => Kept(t)'
         /\ Going(t) => Going(t)'
         /\ Going(t) /\ status[t].ready = 0 => status'[t].ready = 0
         /\ Rest(t) /\ t \in fresh => t \in fresh'
         /\ fresh' \subseteq fresh
         /\ UNCHANGED <<setting, spec, pc, orig, todo, item, attempts, errors,
                        evictions>>
<1>1. /\ pods \in [Sts -> Pods]
      /\ status \in [Sts -> Pods] /\ observed \subseteq Sts
      /\ spec \in [Sts -> 0..MaxReplicas]
      /\ MaxReplicas \in Nat
  BY Syn2MasAssumption DEF TypeOK
<1>2. CASE CreatePod(s)
  <2>1. /\ pods' = [pods EXCEPT ![s] =
             [pods[s] EXCEPT !.starting = pods[s].starting + 1]]
        /\ Count(s) < spec[s]
    BY <1>1, <1>2 DEF CreatePod, Pods
  <2>2. ~ Rest(s) /\ ~ Going(s)
    BY <1>1, <2>1 DEF Rest, Going, Count, Pods
  <2>3. t # s => pods'[t] = pods[t]
    BY <1>1, <2>1
  <2> QED
    BY <1>2, <2>2, <2>3
       DEF CreatePod, process, bounds, setting, Rest, Going, Kept
<1>3. CASE PodReady(s)
  <2>1. /\ pods[s].starting > 0
        /\ pods' = [pods EXCEPT ![s] =
             [pods[s] EXCEPT !.starting = pods[s].starting - 1,
                             !.ready = pods[s].ready + 1]]
    BY <1>1, <1>3 DEF PodReady, Move, Pods
  <2>2. ~ Rest(s) /\ ~ Going(s)
    BY <1>1, <2>1 DEF Rest, Going, Pods
  <2>3. t # s => pods'[t] = pods[t]
    BY <1>1, <2>1
  <2> QED
    BY <1>3, <2>2, <2>3
       DEF PodReady, Move, process, bounds, setting, Rest, Going, Kept
<1>4. CASE StopPod(s)
  <2>1. ~ Rest(s)
    BY <1>1, <1>4 DEF StopPod, Rest, Pods
  <2>2. \/ /\ pods[s].starting > 0
           /\ pods' = [pods EXCEPT ![s] =
                [pods[s] EXCEPT !.starting = pods[s].starting - 1,
                                !.stopping = pods[s].stopping + 1]]
        \/ /\ pods[s].ready > 0
           /\ pods' = [pods EXCEPT ![s] =
                [pods[s] EXCEPT !.ready = pods[s].ready - 1,
                                !.stopping = pods[s].stopping + 1]]
    BY <1>1, <1>4 DEF StopPod, Move, Pods
  <2>3. /\ UNCHANGED <<setting, spec, status, observed, process>>
        /\ UNCHANGED bounds
    BY <1>4 DEF StopPod, Move
  <2>4. t # s => pods'[t] = pods[t]
    BY <1>1, <2>2
  <2>5. Going(s) => Going(s)'
    <3> SUFFICES ASSUME Going(s) PROVE Going(s)'
      OBVIOUS
    <3>1. pods[s] \in Pods /\ status[s].ready \in Nat /\ pods[s].starting = 0
      BY <1>1 DEF Going, Pods
    <3>2. /\ pods'[s].starting = pods[s].starting
          /\ pods'[s].ready = pods[s].ready - 1
      <4>1. pods' = [pods EXCEPT ![s] =
              [pods[s] EXCEPT !.ready = pods[s].ready - 1,
                              !.stopping = pods[s].stopping + 1]]
        BY <2>2, <3>1
      <4> QED
        BY <1>1, <3>1, <4>1 DEF Pods
    <3>3. pods'[s].ready <= status[s].ready
      BY <3>1, <3>2 DEF Going, Pods
    <3> QED
      BY <2>3, <3>1, <3>2, <3>3 DEF Going
  <2> QED
    BY <2>1, <2>3, <2>4, <2>5
       DEF process, bounds, setting, Rest, Going, Kept
<1>5. CASE PodGone(s)
  <2>1. /\ pods' = [pods EXCEPT ![s] =
             [pods[s] EXCEPT !.stopping = pods[s].stopping - 1]]
        /\ pods[s].stopping > 0
    BY <1>1, <1>5 DEF PodGone, Pods
  <2>2. ~ Rest(s)
    BY <1>1, <2>1 DEF Rest, Pods
  <2>3. /\ t # s => pods'[t] = pods[t]
        /\ pods'[s].starting = pods[s].starting /\ pods'[s].ready = pods[s].ready
    BY <1>1, <2>1 DEF Pods
  <2> QED
    BY <1>5, <2>2, <2>3
       DEF PodGone, process, bounds, setting, Rest, Going, Kept
<1>6. CASE Report(s)
  <2>1. /\ status[s] # pods[s] \/ s \notin observed
        /\ status' = [status EXCEPT ![s] = pods[s]]
        /\ observed' = observed \cup {s}
        /\ fresh' = fresh \ {s}
        /\ UNCHANGED <<setting, spec, pods, pc, orig, todo, item, attempts,
                       errors, evictions>>
    BY <1>6 DEF Report, bounds
  <2>2. ~ Rest(s)
    BY <2>1 DEF Rest
  <2>3. pods[s].ready \in Nat /\ status'[s].ready = pods[s].ready
    BY <1>1, <2>1 DEF Pods
  <2>4. /\ Going(s) => Going(s)'
        /\ Going(s) /\ status[s].ready = 0 => status'[s].ready = 0
    BY <2>1, <2>3 DEF Going
  <2>5. t # s => status'[t] = status[t] /\ (t \in observed' <=> t \in observed)
    BY <1>1, <2>1
  <2> QED
    BY <2>1, <2>2, <2>4, <2>5 DEF setting, Rest, Going, Kept
<1> QED
  BY <1>2, <1>3, <1>4, <1>5, <1>6 DEF Controller

LEMMA ControllerUndisturbed ==
  ASSUME TypeOK, Undisturbed, NEW s \in Sts, Controller(s)
  PROVE  Undisturbed'
<1>1. /\ \A t \in Sts : Rest(t) => Rest(t)'
      /\ \A t \in Sts : Kept(t) => Kept(t)'
      /\ \A t \in Sts : Going(t) => Going(t)'
      /\ \A t \in Sts : Going(t) /\ status[t].ready = 0 => status'[t].ready = 0
      /\ \A t \in Sts : Rest(t) /\ t \in fresh => t \in fresh'
      /\ UNCHANGED <<setting, spec, pc, orig, todo, item>>
  BY ControllerCalm
<1>2. UNCHANGED <<spec, pc, orig, todo, item, granted>>
  BY <1>1 DEF setting
<1>3. CASE pc \in {"list", "down"}
  BY <1>1, <1>2, <1>3 DEF Undisturbed
<1>4. CASE pc \in {"available", "gone"}
  BY <1>1, <1>2, <1>4 DEF Undisturbed
<1>5. CASE pc = "migrate"
  <2>1. \A t \in Sts : Count(t) \in Nat /\ Count(t)' \in Nat
    BY ControllerKeeps
  <2>2. \A t \in Sts : Count(t)' <= Count(t) \/ Count(t)' <= spec[t]
    BY ControllerKeeps
  <2>3. \A t \in Sts : spec[t] = 0 /\ Count(t) = 0
    BY <1>5 DEF Undisturbed
  <2>4. \A t \in Sts : Count(t)' = 0
    BY <2>1, <2>2, <2>3
  <2> QED
    BY <1>2, <1>5, <2>3, <2>4 DEF Undisturbed
<1>6. CASE pc \in Ended \cup {"get", "put"}
  BY <1>2, <1>6 DEF Undisturbed, Ended
<1> QED
  BY <1>3, <1>4, <1>5, <1>6 DEF TypeOK, PC, Ended, Undisturbed

\* The steps of an attempt of which no call fails.
LEMMA ProcessUndisturbed ==
  ASSUME TypeOK, Undisturbed, UNCHANGED <<attempts, errors>>,
         \/ ListStatefulSets \/ (\E s \in Sts : ScaleDown(s))
         \/ AwaitUnavailable \/ AwaitGone \/ Migrate
         \/ (\E s \in Sts : GetStatefulSet(s))
         \/ ScaleBack \/ Kill
  PROVE  Undisturbed'
<1> USE DEF setting, cluster
<1>0. /\ spec \in [Sts -> 0..MaxReplicas]
      /\ pods \in [Sts -> Pods] /\ todo \subseteq Sts
      /\ result \in {"ok", "failed"}
      /\ MaxReplicas \in Nat /\ errors \in Nat
  BY Syn2MasAssumption DEF TypeOK
<1>1. CASE ListStatefulSets
  BY <1>1 DEF ListStatefulSets, Undisturbed, Rest
<1>2. ASSUME NEW s \in Sts, ScaleDown(s) PROVE Undisturbed'
  <2>1. /\ pc = "down" /\ s \in todo /\ SetReplicas(s, 0)
        /\ todo' = todo \ {s}
        /\ pc' = IF todo' = {} THEN "available" ELSE "down"
        /\ UNCHANGED <<granted, status, pods>>
    BY <1>2 DEF ScaleDown
  <2>2. Rest(s) /\ s \in fresh
    BY <2>1 DEF Undisturbed
  <2>3. /\ fresh' = fresh \ {s}
        /\ \/ /\ s \in granted /\ spec' = [spec EXCEPT ![s] = 0]
              /\ observed \ {s} \subseteq observed'
           \/ s \notin granted /\ spec' = spec /\ observed' = observed
    BY <1>0, <2>1, <2>2 DEF SetReplicas
  <2>4. Going(s)' \/ Kept(s)'
    <3>1. /\ status[s] = pods[s] /\ pods[s].starting = 0
          /\ pods[s].ready = spec[s] /\ spec[s] \in Nat
      BY <1>0, <2>2 DEF Rest
    <3>2. CASE s \in granted \/ spec[s] = 0
      <4>1. spec'[s] = 0
        BY <1>0, <2>3, <3>2
      <4> QED
        BY <2>1, <3>1, <4>1 DEF Going
    <3>3. CASE s \notin granted /\ spec[s] > 0
      BY <2>1, <2>2, <2>3, <3>3 DEF Rest, Kept
    <3> QED
      BY <3>1, <3>2, <3>3
  <2>5. \A t \in Sts \ {s} : /\ spec'[t] = spec[t]
                             /\ t \in observed => t \in observed'
                             /\ t \in fresh => t \in fresh'
    BY <1>0, <2>3
  <2>6. \A t \in Sts \ {s} :
          IF t \in todo' THEN Rest(t)' /\ t \in fresh'
                         ELSE Going(t)' \/ Kept(t)'
    BY <2>1, <2>5 DEF Undisturbed, Rest, Going, Kept
  <2>7. s \notin todo'
    BY <2>1
  <2> QED
    BY <2>1, <2>4, <2>6, <2>7 DEF Undisturbed
<1>3. CASE AwaitUnavailable
  <2>1. /\ pc = "available" /\ pc' = "gone"
        /\ UNCHANGED <<spec, status, observed, pods>>
        /\ \A s \in Sts : status[s].ready = 0
    BY <1>3 DEF AwaitUnavailable
  <2>2. \A s \in Sts : Going(s)
    BY <1>0, <2>1 DEF Undisturbed, Kept, Rest
  <2> QED
    BY <2>1, <2>2 DEF Undisturbed, Going
<1>4. CASE AwaitGone
  <2>1. /\ pc = "gone" /\ UNCHANGED <<spec, status, observed, pods>>
        /\ pc' \in {"gone", "failed", "migrate"}
    BY <1>4 DEF AwaitGone
  <2>2. ASSUME pc' = "migrate", NEW s \in Sts PROVE spec'[s] = 0 /\ Count(s)' = 0
    <3>1. ~ Count(s) > 0
      BY <1>4, <2>2 DEF AwaitGone, PodsFound
    <3>2. Count(s) \in Nat
      BY <1>0 DEF Count, Pods
    <3>3. Going(s)
      BY <2>1 DEF Undisturbed
    <3> QED
      BY <2>1, <3>1, <3>2, <3>3 DEF Going, Count
  <2> QED
    BY <2>1, <2>2 DEF Undisturbed, Going
<1>5. CASE Migrate \/ (\E s \in Sts : GetStatefulSet(s)) \/ ScaleBack \/ Kill
  <2>1. pc' \in {"get", "put", "ok", "failed", "killed"}
    BY <1>0, <1>5 DEF Migrate, GetStatefulSet, ScaleBack, Kill
  <2> QED
    BY <2>1 DEF Undisturbed
<1> QED
  BY <1>1, <1>2, <1>3, <1>4, <1>5

Disturbed(a, e, v) == attempts > a \/ errors > e \/ evictions > v

LEMMA CountersGrow ==
  ASSUME TypeOK, [Next]_vars
  PROVE  /\ attempts \in Nat /\ errors \in Nat /\ evictions \in Nat
         /\ attempts' \in {attempts, attempts + 1}
         /\ errors' \in {errors, errors + 1}
         /\ evictions' \in {evictions, evictions + 1}
<1>1. attempts \in Nat /\ errors \in Nat /\ evictions \in Nat
  BY Syn2MasAssumption DEF TypeOK
<1>2. /\ attempts' \in {attempts, attempts + 1}
      /\ errors' \in {errors, errors + 1}
      /\ evictions' \in {evictions, evictions + 1}
  BY DEF Next, CreatePod, PodReady, StopPod, PodGone, Report, Evict, Move,
         ScaleDown, GetStatefulSet, Begin, ListStatefulSets, SetReplicas,
         AwaitUnavailable, AwaitGone, Migrate, ScaleBack, ReadError, Kill,
         vars, bounds
<1> QED
  BY <1>1, <1>2

\* What has been disturbed stays so, and what is quiet is disturbed or counts
\* no more than before.
LEMMA QuietOrDisturbed ==
  ASSUME TypeOK, [Next]_vars, NEW a \in Nat, NEW e \in Nat, NEW v \in Nat
  PROVE  /\ Disturbed(a, e, v) => Disturbed(a, e, v)'
         /\ Quiet(a, e, v) => \/ Disturbed(a, e, v)'
                              \/ /\ Quiet(a, e, v)'
                                 /\ UNCHANGED <<attempts, errors, evictions>>
         /\ Quiet(a, e, v) => ~ Disturbed(a, e, v)
<1>1. /\ attempts \in Nat /\ errors \in Nat /\ evictions \in Nat
      /\ attempts' \in {attempts, attempts + 1}
      /\ errors' \in {errors, errors + 1}
      /\ evictions' \in {evictions, evictions + 1}
  BY CountersGrow
<1> QED
  BY <1>1 DEF Disturbed, Quiet

\* An undisturbed attempt goes on as one, or something disturbs it.
LEMMA NextUndisturbed ==
  ASSUME TypeOK, Undisturbed, [Next]_vars,
         UNCHANGED <<attempts, errors, evictions>>
  PROVE  Undisturbed'
<1>1. attempts \in Nat /\ errors \in Nat /\ evictions \in Nat
  BY CountersGrow
<1>2. ASSUME NEW s \in Sts, Controller(s) PROVE Undisturbed'
  BY <1>2, ControllerUndisturbed
<1>3. CASE \/ ListStatefulSets \/ (\E s \in Sts : ScaleDown(s))
           \/ AwaitUnavailable \/ AwaitGone \/ Migrate
           \/ (\E s \in Sts : GetStatefulSet(s))
           \/ ScaleBack \/ Kill
  BY <1>3, ProcessUndisturbed
<1>4. ~ Begin /\ ~ ReadError /\ \A s \in Sts : ~ Evict(s)
  BY <1>1 DEF Begin, ReadError, Evict
<1>5. CASE UNCHANGED vars
  BY <1>5 DEF Undisturbed, Rest, Going, Kept, Count, vars, setting, cluster,
              process
<1> QED
  BY <1>2, <1>3, <1>4, <1>5 DEF Next, Controller

\* What is promised of an attempt: nothing runs while mas-cli may be at work,
\* and the loop without a limit waits for nothing else than for StatefulSets
\* that have been scaled down, or that the Role withholds.
DownAsDocumented ==
  /\ DownWhileMigrating
  /\ pc = "available" => \A s \in Sts : spec[s] = 0 \/ s \notin granted

LEMMA UndisturbedKeepsPromise ==
  ASSUME Undisturbed
  PROVE  DownAsDocumented
BY DEF Undisturbed, Going, Kept, DownAsDocumented, DownWhileMigrating

\* An attempt, the first or a later one, that begins with the StatefulSets
\* at rest at any scales has everything down as documented as long as no call
\* fails, nothing is evicted and the next attempt has not begun; also when
\* the Role grants less than it has to, mas-cli fails, a pod is left over, or
\* the Job is killed.
THEOREM UndisturbedAttempt ==
  ASSUME NEW a \in Nat, NEW e \in Nat, NEW v \in Nat
  PROVE  Spec => [](pc = "list" /\ Quiet(a, e, v) /\ (\A s \in Sts : Rest(s))
                    => [](Quiet(a, e, v) => DownAsDocumented))
<1> DEFINE Start == pc = "list" /\ Quiet(a, e, v) /\ (\A s \in Sts : Rest(s))
           Since == Disturbed(a, e, v) \/ (Quiet(a, e, v) /\ Undisturbed)
           Promise == Quiet(a, e, v) => DownAsDocumented
<1>1. Start => Since
  BY DEF Undisturbed
<1>2. TypeOK /\ Since /\ [Next]_vars => Since'
  BY QuietOrDisturbed, NextUndisturbed
<1>3. TypeOK /\ [Next]_vars /\ Since => Promise
  BY QuietOrDisturbed, UndisturbedKeepsPromise
<1>4. Spec => [](Start => []Promise)
  <2> HIDE DEF Start, Since, Promise
  <2> QED
    BY <1>1, <1>2, <1>3, TypeCorrect, PTL DEF Spec
<1> QED
  BY <1>4

\* Before the first attempt the StatefulSets are at rest, unless something is
\* evicted.
FirstUndisturbed ==
  \/ Disturbed(1, 0, 0)
  \/ Quiet(0, 0, 0) /\ pc = "idle" /\ \A s \in Sts : Rest(s)
  \/ Quiet(1, 0, 0) /\ Undisturbed

\* The sentence of docs/syn2mas.md on scaling down holds for a first attempt
\* of which no call fails and during which nothing is evicted.
THEOREM FirstAttemptIsDown == Spec => []UndisturbedIsDown
<1>1. Init => FirstUndisturbed
  BY Syn2MasAssumption DEF Init, FirstUndisturbed, Quiet, Rest
<1>2. TypeOK /\ FirstUndisturbed /\ [Next]_vars => FirstUndisturbed'
  <2> SUFFICES ASSUME TypeOK, FirstUndisturbed, [Next]_vars
               PROVE  FirstUndisturbed'
    OBVIOUS
  <2>1. /\ attempts \in Nat /\ errors \in Nat /\ evictions \in Nat
        /\ attempts' \in {attempts, attempts + 1}
        /\ errors' \in {errors, errors + 1}
        /\ evictions' \in {evictions, evictions + 1}
    BY CountersGrow
  <2>2. CASE Disturbed(1, 0, 0)
    BY <2>1, <2>2 DEF Disturbed, FirstUndisturbed
  <2>3. CASE Quiet(1, 0, 0) /\ Undisturbed
    BY <2>3, QuietOrDisturbed, NextUndisturbed DEF FirstUndisturbed
  <2>4. CASE Quiet(0, 0, 0) /\ pc = "idle" /\ \A s \in Sts : Rest(s)
    <3>1. ASSUME NEW s \in Sts, Controller(s) PROVE FirstUndisturbed'
      <4>1. /\ \A t \in Sts : Rest(t)'
            /\ UNCHANGED <<pc, attempts, errors, evictions>>
        BY <2>4, <3>1, ControllerCalm
      <4> QED
        BY <2>4, <4>1 DEF Quiet, FirstUndisturbed
    <3>2. ASSUME NEW s \in Sts, Evict(s) PROVE FirstUndisturbed'
      BY <2>1, <2>4, <3>2 DEF Evict, Quiet, Disturbed, FirstUndisturbed
    <3>3. CASE Begin
      <4>1. Quiet(1, 0, 0)' /\ pc' \in {"list", "failed"}
            /\ UNCHANGED <<spec, status, observed, pods>>
        BY <2>4, <3>3 DEF Begin, Quiet, cluster
      <4>2. Undisturbed'
        BY <2>4, <4>1 DEF Undisturbed, Rest
      <4> QED
        BY <4>1, <4>2 DEF FirstUndisturbed
    <3>4. CASE UNCHANGED vars
      BY <2>4, <3>4 DEF vars, cluster, process, bounds, Quiet, Rest,
                        FirstUndisturbed
    <3> QED
      BY <2>4, <3>1, <3>2, <3>3, <3>4
         DEF Next, Controller, ScaleDown, GetStatefulSet, ListStatefulSets,
             AwaitUnavailable, AwaitGone, Migrate, ScaleBack, ReadError, Kill,
             Running, PC, Ended
  <2> QED
    BY <2>2, <2>3, <2>4 DEF FirstUndisturbed
<1>3. FirstUndisturbed => UndisturbedIsDown
  BY UndisturbedKeepsPromise
     DEF FirstUndisturbed, Disturbed, Quiet, UndisturbedIsDown, DownAsDocumented
<1> QED
  BY <1>1, <1>2, <1>3, TypeCorrect, PTL DEF Spec

-------------------------------------------------------------------------------
(***************************************************************************)
(* What scaleBack needs to be as documented.                               *)
(*                                                                         *)
(* No status is left to be written when mas-cli ends.  What scaleBack sets *)
(* off in the controller concerns the StatefulSets that it has behind it.  *)
(***************************************************************************)
Returning ==
  /\ pc \in {"migrate", "get", "put"} \cup Ended
  /\ pc = "migrate" => \A s \in Sts : Rest(s)
  /\ pc \in {"get", "put"} =>
       \A s \in Sts : IF s \in todo THEN Rest(s) ELSE spec[s] = orig[s]
  /\ pc = "put" => item \in todo \cap granted /\ item \in fresh
  /\ pc \in {"ok", "failed"} => \A s \in Sts \ todo : spec[s] = orig[s]

LEMMA ControllerReturning ==
  ASSUME TypeOK, Returning, NEW s \in Sts, Controller(s)
  PROVE  Returning'
<1>1. /\ \A t \in Sts : Rest(t) => Rest(t)'
      /\ \A t \in Sts : Rest(t) /\ t \in fresh => t \in fresh'
      /\ UNCHANGED <<setting, spec, pc, orig, todo, item>>
  BY ControllerCalm
<1>2. UNCHANGED <<spec, pc, orig, todo, item, granted>> /\ item \in Sts
  BY <1>1 DEF setting, TypeOK
<1> QED
  BY <1>1, <1>2 DEF Returning

LEMMA ProcessReturning ==
  ASSUME TypeOK, Returning, UNCHANGED errors,
         \/ Migrate \/ (\E s \in Sts : GetStatefulSet(s)) \/ ScaleBack \/ Kill
  PROVE  Returning'
<1> USE DEF setting, cluster, Ended
<1>0. /\ spec \in [Sts -> 0..MaxReplicas] /\ item \in Sts
      /\ todo \subseteq Sts /\ result \in {"ok", "failed"} /\ errors \in Nat
  BY Syn2MasAssumption DEF TypeOK
<1>1. CASE Migrate
  BY <1>1 DEF Migrate, Returning, Rest
<1>2. ASSUME NEW s \in Sts, GetStatefulSet(s) PROVE Returning'
  BY <1>2 DEF GetStatefulSet, Returning, Rest
<1>3. CASE ScaleBack
  <2>1. /\ pc = "put" /\ SetReplicas(item, orig[item])
        /\ todo' = todo \ {item}
        /\ pc' = IF todo' = {} THEN result ELSE "get"
        /\ UNCHANGED <<status, pods, orig>>
    BY <1>3 DEF ScaleBack
  <2>2. item \in fresh \cap granted
    BY <2>1 DEF Returning
  <2>3. /\ spec' = [spec EXCEPT ![item] = orig[item]]
        /\ observed \ {item} \subseteq observed'
    BY <1>0, <2>1, <2>2 DEF SetReplicas
  <2>4. \A t \in Sts : IF t \in todo' THEN Rest(t)' ELSE spec'[t] = orig[t]
    <3> SUFFICES ASSUME NEW t \in Sts
                 PROVE  IF t \in todo' THEN Rest(t)' ELSE spec'[t] = orig[t]
      OBVIOUS
    <3>1. CASE t = item
      BY <1>0, <2>1, <2>3, <3>1
    <3>2. CASE t # item
      BY <1>0, <2>1, <2>3, <3>2 DEF Returning, Rest
    <3> QED
      BY <3>1, <3>2
  <2> QED
    BY <1>0, <2>1, <2>4 DEF Returning
<1>4. CASE Kill
  BY <1>4 DEF Kill, Returning
<1> QED
  BY <1>1, <1>2, <1>3, <1>4

LEMMA NextReturning ==
  ASSUME TypeOK, Returning, [Next]_vars,
         UNCHANGED <<attempts, errors, evictions>>
  PROVE  Returning'
<1>1. attempts \in Nat /\ errors \in Nat /\ evictions \in Nat
  BY CountersGrow
<1>2. ASSUME NEW s \in Sts, Controller(s) PROVE Returning'
  BY <1>2, ControllerReturning
<1>3. CASE \/ Migrate \/ (\E s \in Sts : GetStatefulSet(s))
           \/ ScaleBack \/ Kill
  BY <1>3, ProcessReturning
<1>4. /\ ~ Begin /\ ~ ReadError /\ \A s \in Sts : ~ Evict(s)
      /\ ~ ListStatefulSets /\ \A s \in Sts : ~ ScaleDown(s)
      /\ ~ AwaitUnavailable /\ ~ AwaitGone
  BY <1>1 DEF Begin, ReadError, Evict, ListStatefulSets, ScaleDown,
              AwaitUnavailable, AwaitGone, Returning, Ended
<1>5. CASE UNCHANGED vars
  BY <1>5 DEF Returning, Rest, vars, setting, cluster, process
<1> QED
  BY <1>2, <1>3, <1>4, <1>5 DEF Next, Controller

\* When the controller has caught up before mas-cli ends, an attempt of which
\* no call fails from then on and during which nothing is evicted has
\* everything it has been back to at the recorded scale at its end: the
\* sentence of docs/syn2mas.md on scaling back, with what it takes.
THEOREM EverythingReturnsFromRest == Spec => ReturnsFromRest
<1> SUFFICES ASSUME NEW a \in 1..MaxAttempts, NEW e \in 0..MaxErrors,
                    NEW v \in 0..MaxEvictions
             PROVE  Spec =>
               [](pc = "migrate" /\ Quiet(a, e, v) /\ (\A s \in Sts : Rest(s))
                  => [](Quiet(a, e, v) /\ pc \in {"ok", "failed"} =>
                          \A s \in Sts \ todo : spec[s] = orig[s]))
  BY DEF ReturnsFromRest
<1> DEFINE Start == pc = "migrate" /\ Quiet(a, e, v) /\ (\A s \in Sts : Rest(s))
           Since == Disturbed(a, e, v) \/ (Quiet(a, e, v) /\ Returning)
           Promise == Quiet(a, e, v) /\ pc \in {"ok", "failed"} =>
                        \A s \in Sts \ todo : spec[s] = orig[s]
<1>0. a \in Nat /\ e \in Nat /\ v \in Nat
  BY Syn2MasAssumption
<1>1. Start => Since
  BY DEF Returning
<1>2. TypeOK /\ Since /\ [Next]_vars => Since'
  BY <1>0, QuietOrDisturbed, NextReturning
<1>3. TypeOK /\ [Next]_vars /\ Since => Promise
  BY <1>0, QuietOrDisturbed DEF Returning
<1>4. Spec => [](Start => []Promise)
  <2> HIDE DEF Start, Since, Promise
  <2> QED
    BY <1>1, <1>2, <1>3, TypeCorrect, PTL DEF Spec
<1> QED
  BY <1>4
===============================================================================
