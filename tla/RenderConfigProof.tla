-------------------------- MODULE RenderConfigProof ---------------------------
(***************************************************************************)
(* Proofs about RenderConfig, for any number of files, any contents of     *)
(* them, any merge and any bound on changes and faults.                    *)
(*                                                                         *)
(* Two facts carry them.  How far the container has got tells what it has  *)
(* in memory and in the output file (Progress).  And as long as nothing    *)
(* has changed since it started, what it has opened and read so far is     *)
(* what is mounted now (Current): files are opened before the secrets are  *)
(* read, so both have to be compared with the same moment.                 *)
(***************************************************************************)
EXTENDS RenderConfig, FiniteSetTheorems, TLAPS

\* What the theorem about the merge is about: the documents, the entries of
\* their lists, and their scalars, whatever these are.
CONSTANTS Document, Item, Scalar

\* What Substitute makes of the files with the secrets.
Docs == {Substitute(file, s) : file \in Contents,
                               s \in [Environment -> SecretValues \cup {Missing}]}

Progress ==
  /\ read \in Seq(Docs)
  /\ pc = "stat" => Len(opened) = 0 /\ Len(read) = 0
  /\ pc = "open" => Len(opened) < N /\ Len(read) = 0
  /\ pc = "render" => Len(opened) = N /\ Len(read) < N
  /\ pc \in {"write", "exit", "running"} => Len(opened) = N /\ Len(read) = N
  /\ pc \in {"exit", "running"} => conf = Whole(output)

Current ==
  ~ changed =>
    /\ \A i \in 1..Len(opened) : opened[i] = mounted[i]
    /\ \A i \in 1..Len(read) :
         /\ InOrder(i)
         /\ read[i] = Substitute(mounted[i], secrets)

IInv == TypeOK /\ Progress /\ Current

\* The length of the command line.
LEMMA NType == N \in Nat /\ N > 0 /\ 1..N = DOMAIN Sources
BY RenderConfigAssumption DEF N

\* A file may contain what is listed for it.
LEMMA SourcesInContents ==
  ASSUME NEW i \in 1..N
  PROVE  Sources[i] \subseteq Contents
BY DEF Contents

\* Nothing opened, nothing read.
LEMMA EmptyType ==
  ASSUME NEW s, s = << >>
  PROVE  /\ s \in Seq(Contents) /\ s \in Seq(Docs)
         /\ Len(s) = 0
         /\ DOMAIN s = {}
OBVIOUS

LEMMA InitIInv == Init => IInv
<1> SUFFICES ASSUME Init PROVE IInv
  OBVIOUS
<1>1. mounted \in [1..N -> Contents] /\ \A i \in 1..N : mounted[i] \in Sources[i]
  BY DEF Init
<1>2. conf.file = "absent"
  BY DEF Init, Absent
<1>3. opened = << >> /\ read = << >>
  BY DEF Init
<1>4. TypeOK
  <2>1. /\ opened \in Seq(Contents)
        /\ Len(opened) = 0 /\ Len(read) = 0
        /\ DOMAIN opened = {}
    BY <1>3, EmptyType
  <2>2. 0 \in 0..MaxChanges /\ 0 \in 0..MaxFaults
    BY RenderConfigAssumption
  <2>3. \A i \in DOMAIN opened : opened[i] \in Sources[i] \ {Missing}
    BY <2>1
  <2>4. Len(opened) <= N /\ Len(read) <= Len(opened)
    BY <2>1, NType
  <2> QED
    BY <1>1, <1>2, <2>1, <2>2, <2>3, <2>4 DEF Init, TypeOK, PC
<1>5. Progress
  BY <1>3, EmptyType DEF Init, Progress
<1>6. Current
  BY <1>3, EmptyType DEF Current
<1> QED
  BY <1>4, <1>5, <1>6 DEF IInv

\* Starting again, nothing is opened or read, whatever has become of the
\* output file.
LEMMA FreshIInv ==
  ASSUME IInv, pc' = "stat", opened' = << >>, read' = << >>, changed' = FALSE,
         UNCHANGED <<mounted, secrets, changes>>,
         conf' = conf \/ conf' = Absent, faults' \in 0..MaxFaults
  PROVE  IInv'
<1>0. opened' = << >> /\ read' = << >>
  OBVIOUS
<1>1. TypeOK'
  <2>1. /\ opened' \in Seq(Contents)
        /\ Len(opened') = 0 /\ Len(read') = 0
        /\ DOMAIN opened' = {}
    BY <1>0, EmptyType
  <2>2. \A i \in DOMAIN opened' : opened'[i] \in Sources[i] \ {Missing}
    BY <2>1
  <2>3. Len(opened') <= N /\ Len(read') <= Len(opened')
    BY <2>1, NType
  <2>4. pc' \in PC
    BY DEF PC
  <2>5. conf'.file \in {"absent", "partial", "whole"}
    BY DEF IInv, TypeOK, Absent
  <2> QED
    BY <2>1, <2>2, <2>3, <2>4, <2>5 DEF IInv, TypeOK
<1>2. Progress'
  BY <1>0, EmptyType, NType DEF Progress
<1>3. Current'
  BY <1>0, EmptyType DEF Current
<1> QED
  BY <1>1, <1>2, <1>3 DEF IInv

LEMMA StartIInv ==
  ASSUME IInv, StartAgain, faults' \in 0..MaxFaults
  PROVE  IInv'
BY FreshIInv DEF StartAgain

\* A step that leaves what is mounted and what is read from it alone.
LEMMA CurrentKept ==
  ASSUME Current, UNCHANGED <<mounted, secrets, opened, read, changed>>
  PROVE  Current'
BY DEF Current, InOrder, Renders

LEMMA OpenIInv ==
  ASSUME IInv, Open
  PROVE  IInv'
<1> DEFINE file == mounted[Len(opened) + 1]
<1>1. CASE file = Missing
  <2>1. TypeOK'
    BY <1>1 DEF IInv, TypeOK, Open, PC
  <2>2. Progress'
    BY <1>1 DEF IInv, Open, Progress
  <2> QED
    BY <1>1, <2>1, <2>2, CurrentKept DEF IInv, Open
<1>2. CASE file # Missing
  <2>1. /\ pc = "open" /\ Len(opened) < N /\ Len(read) = 0
        /\ opened \in Seq(Contents) /\ N \in Nat
        /\ opened' = Append(opened, file)
        /\ pc' = IF Len(opened') = N THEN "render" ELSE "open"
        /\ UNCHANGED <<mounted, secrets, read, output, conf, changed, changes,
                       faults>>
    BY <1>2, NType DEF IInv, TypeOK, Progress, Open
  <2>2. Len(opened) + 1 \in 1..N
    BY <2>1
  <2>3. file \in Sources[Len(opened) + 1] \ {Missing} /\ file \in Contents
    BY <1>2, <2>2, SourcesInContents DEF IInv, TypeOK
  <2>4. /\ opened' \in Seq(Contents)
        /\ Len(opened') = Len(opened) + 1
        /\ \A i \in 1..Len(opened) : opened'[i] = opened[i]
        /\ opened'[Len(opened) + 1] = file
    BY <2>1, <2>3
  <2>5. TypeOK'
    <3>1. \A i \in DOMAIN opened' : opened'[i] \in Sources[i] \ {Missing}
      <4> SUFFICES ASSUME NEW i \in 1..Len(opened')
                   PROVE  opened'[i] \in Sources[i] \ {Missing}
        BY <2>4
      <4>1. CASE i \in 1..Len(opened)
        BY <2>1, <2>4, <4>1 DEF IInv, TypeOK
      <4>2. CASE i = Len(opened) + 1
        BY <2>3, <2>4, <4>2
      <4> QED
        BY <2>1, <2>4, <4>1, <4>2
    <3> QED
      BY <2>1, <2>4, <3>1 DEF IInv, TypeOK, PC
  <2>6. Progress'
    BY <2>1, <2>4 DEF IInv, Progress
  <2>7. Current'
    <3> SUFFICES ASSUME ~ changed', NEW i \in 1..Len(opened')
                 PROVE  opened'[i] = mounted'[i]
      BY <2>1 DEF Current
    <3>1. CASE i \in 1..Len(opened)
      BY <2>1, <2>4, <3>1 DEF IInv, Current
    <3>2. CASE i = Len(opened) + 1
      BY <2>1, <2>4, <3>2
    <3> QED
      BY <2>1, <2>4, <3>1, <3>2
  <2> QED
    BY <2>5, <2>6, <2>7 DEF IInv
<1> QED
  BY <1>1, <1>2

LEMMA RenderIInv ==
  ASSUME IInv, Render
  PROVE  IInv'
<1> DEFINE file == opened[Len(read) + 1]
           doc  == Substitute(file, secrets)
<1>1. CASE ~ Renders(file)
  <2>1. TypeOK'
    BY <1>1 DEF IInv, TypeOK, Render, PC
  <2>2. Progress'
    BY <1>1 DEF IInv, Render, Progress
  <2> QED
    BY <1>1, <2>1, <2>2, CurrentKept DEF IInv, Render
<1>2. CASE Renders(file)
  <2>1. /\ pc = "render" /\ Len(opened) = N /\ Len(read) < N
        /\ opened \in Seq(Contents) /\ read \in Seq(Docs) /\ N \in Nat
        /\ read' = Append(read, doc)
        /\ pc' = IF Len(read') = N THEN "write" ELSE "render"
        /\ UNCHANGED <<mounted, secrets, opened, conf, changed, changes,
                       faults>>
    BY <1>2, NType DEF IInv, TypeOK, Progress, Render
  <2>2. Len(read) + 1 \in 1..N
    BY <2>1
  <2>3. doc \in Docs
    <3>1. file \in Contents
      BY <2>1, <2>2
    <3> QED
      BY <3>1 DEF IInv, TypeOK, Docs
  <2>4. /\ read' \in Seq(Docs)
        /\ Len(read') = Len(read) + 1
        /\ \A i \in 1..Len(read) : read'[i] = read[i]
        /\ read'[Len(read) + 1] = doc
    BY <2>1, <2>3
  <2>5. TypeOK'
    <3>1. pc' \in PC
      BY <2>1 DEF PC
    <3>2. Len(read') <= Len(opened')
      BY <2>1, <2>2, <2>4
    <3> QED
      BY <2>1, <3>1, <3>2 DEF IInv, TypeOK
  <2>6. Progress'
    BY <2>1, <2>4 DEF IInv, Progress
  <2>7. Current'
    <3> SUFFICES ASSUME ~ changed', NEW i \in 1..Len(read')
                 PROVE  InOrder(i) /\ read'[i] = Substitute(mounted[i], secrets)
      BY <2>1 DEF IInv, Current, InOrder, Renders
    <3>1. CASE i \in 1..Len(read)
      BY <2>1, <2>4, <3>1 DEF IInv, Current
    <3>2. CASE i = Len(read) + 1
      <4>1. file = mounted[i] /\ file # Missing
        BY <2>1, <2>2, <3>2 DEF IInv, TypeOK, Current
      <4> QED
        BY <1>2, <2>4, <3>2, <4>1 DEF InOrder
    <3> QED
      BY <2>1, <2>4, <3>1, <3>2
  <2> QED
    BY <2>5, <2>6, <2>7 DEF IInv
<1> QED
  BY <1>1, <1>2

\* What changes is marked as changed, until the container starts again.
LEMMA ChangeIInv ==
  ASSUME IInv,
         \/ \E i \in 1..N : ChangeFile(i)
         \/ \E x \in Environment : ChangeSecret(x)
  PROVE  IInv'
<1>0. Change
  BY DEF ChangeFile, ChangeSecret
<1>1. /\ mounted' \in [1..N -> Contents]
      /\ \A i \in 1..N : mounted'[i] \in Sources[i]
  <2>1. CASE \E i \in 1..N : ChangeFile(i)
    <3>1. PICK i \in 1..N : ChangeFile(i)
      BY <2>1
    <3>2. PICK content \in Sources[i] : mounted' = [mounted EXCEPT ![i] = content]
      BY <3>1 DEF ChangeFile
    <3> QED
      BY <3>2, SourcesInContents DEF IInv, TypeOK
  <2>2. CASE UNCHANGED mounted
    BY <2>2 DEF IInv, TypeOK
  <2> QED
    BY <2>1, <2>2 DEF ChangeSecret
<1>2. secrets' \in [Environment -> SecretValues \cup {Missing}]
  <2>1. CASE \E x \in Environment : ChangeSecret(x)
    <3>1. PICK x \in Environment, content \in SecretValues \cup {Missing} :
            secrets' = [secrets EXCEPT ![x] = content]
      BY <2>1 DEF ChangeSecret
    <3> QED
      BY <3>1 DEF IInv, TypeOK
  <2>2. CASE UNCHANGED secrets
    BY <2>2 DEF IInv, TypeOK
  <2> QED
    BY <2>1, <2>2 DEF ChangeFile
<1>3. TypeOK'
  BY <1>0, <1>1, <1>2, RenderConfigAssumption DEF IInv, TypeOK, Change
<1>4. Progress'
  BY <1>0 DEF IInv, Progress, Change
<1>5. Current'
  BY <1>0 DEF Current, Change
<1> QED
  BY <1>3, <1>4, <1>5 DEF IInv

LEMMA NextIInv ==
  ASSUME IInv, [Next]_vars
  PROVE  IInv'
<1>0. ASSUME Fault PROVE faults' \in 0..MaxFaults
  BY <1>0, RenderConfigAssumption DEF Fault, IInv, TypeOK
<1>1. CASE Stat
  <2>1. faults' \in 0..MaxFaults
    BY <1>0, <1>1 DEF Stat, IInv, TypeOK
  <2>2. TypeOK'
    BY <1>1, <2>1 DEF Stat, IInv, TypeOK, PC, Absent
  <2>3. Progress'
    BY <1>1, NType DEF Stat, IInv, Progress
  <2> QED
    BY <1>1, <2>2, <2>3, CurrentKept DEF Stat, IInv
<1>2. CASE Open
  BY <1>2, OpenIInv
<1>3. CASE Render
  BY <1>3, RenderIInv
<1>4. CASE Write
  <2>1. faults' \in 0..MaxFaults
    BY <1>0, <1>4 DEF Write, IInv, TypeOK
  <2>2. TypeOK'
    BY <1>4, <2>1 DEF Write, IInv, TypeOK, PC, Partial, Whole
  <2>3. Progress'
    BY <1>4 DEF Write, IInv, Progress, Whole
  <2> QED
    BY <1>4, <2>2, <2>3, CurrentKept DEF Write, IInv
<1>5. CASE Exit
  <2>1. TypeOK'
    BY <1>5 DEF Exit, IInv, TypeOK, PC
  <2>2. Progress'
    BY <1>5 DEF Exit, IInv, Progress
  <2> QED
    BY <1>5, <2>1, <2>2, CurrentKept DEF Exit, IInv
<1>6. CASE Kill
  <2>1. TypeOK'
    BY <1>0, <1>6 DEF Kill, IInv, TypeOK, PC
  <2>2. Progress'
    BY <1>6 DEF Kill, IInv, Progress
  <2> QED
    BY <1>6, <2>1, <2>2, CurrentKept DEF Kill, IInv
<1>7. CASE Restart
  BY <1>7, StartIInv DEF Restart, IInv, TypeOK
<1>8. CASE SandboxRestart
  BY <1>0, <1>8, StartIInv DEF SandboxRestart
<1>9. CASE (\E i \in 1..N : ChangeFile(i)) \/ \E x \in Environment : ChangeSecret(x)
  BY <1>9, ChangeIInv
<1>10. CASE UNCHANGED vars
  <2>1. TypeOK' /\ Progress'
    BY <1>10 DEF vars, IInv, TypeOK, Progress
  <2> QED
    BY <1>10, <2>1, CurrentKept DEF vars, IInv
<1> QED
  BY <1>1, <1>2, <1>3, <1>4, <1>5, <1>6, <1>7, <1>8, <1>9, <1>10 DEF Next

\* The invariant that carries the theorems below.
THEOREM Invariant == Spec => []IInv
BY InitIInv, NextIInv, PTL DEF Spec

\* Every variable keeps its type: no file is opened that is not there, and
\* never more files are read than are open.
THEOREM TypeCorrect == Spec => []TypeOK
BY Invariant, PTL DEF IInv

\* What the invariant says of the main container.
LEMMA WholeFromIInv == IInv => RunsOnWholeConfig
BY DEF IInv, Progress, RunsOnWholeConfig

LEMMA MountedFromIInv == IInv => RunsOnMountedConfig
<1> SUFFICES ASSUME IInv, pc = "running", ~ changed
             PROVE  /\ \A i \in 1..N : InOrder(i)
                    /\ read = [i \in 1..N |-> Substitute(mounted[i], secrets)]
  BY DEF RunsOnMountedConfig
<1>1. read \in Seq(Docs) /\ Len(read) = N
  BY DEF IInv, Progress
<1>2. \A i \in 1..N : InOrder(i) /\ read[i] = Substitute(mounted[i], secrets)
  BY <1>1 DEF IInv, Current
<1>3. read = [i \in 1..N |-> read[i]]
  BY <1>1
<1> QED
  BY <1>2, <1>3

\* However the container has been killed and restarted before, the main
\* container starts on the complete merge of all files by one run.
THEOREM WholeConfig == Spec => []RunsOnWholeConfig
BY WholeFromIInv, Invariant, PTL

\* When nothing has changed since the container started, although files and
\* secrets are read at different moments, the main container runs on exactly
\* what is mounted.
THEOREM MountedConfig == Spec => []RunsOnMountedConfig
BY MountedFromIInv, Invariant, PTL

-------------------------------------------------------------------------------
(***************************************************************************)
(* The merge, for documents of any depth, paths of any length and any      *)
(* number of files.                                                        *)
(*                                                                         *)
(* A merge is known here by one level of it (MergesByLevel), which the     *)
(* recursive DeepMerge of the runs satisfies by its definition.  From this *)
(* follows, key by key, what the merge of two documents leaves along a     *)
(* path (MergeAlong, MergeOfTwo), and from that, file by file, what the    *)
(* merge of a list of them leaves there (OneMoreDocument).                 *)
(***************************************************************************)

Value == [map : Document] \cup [list : Seq(Item)] \cup [scalar : Scalar]

\* A document holds values, its maps documents; one of them has no key.
DocumentsHold ==
  /\ EmptyDocument \in Document
  /\ \A doc \in Document : \A key \in DOMAIN doc : doc[key] \in Value

\* The merge is made level by level, and gives a document.
MergesByLevel ==
  \A source, destination \in Document, keys \in {ArrayOverwriteKeys, {}} :
    /\ Merge(source, destination, keys) \in Document
    /\ Merge(source, destination, keys) =
         MergeLevel(source, destination, keys, Merge)

\* The value that a document is.
MapOf(doc) == [map |-> doc]

IsEmpty(set) == set = {}

\* A list under this path is not joined with the one before.
Overwrites(path) == Len(path) = 1 /\ path[1] \in ArrayOverwriteKeys

\* Induction up to n, over a set.
LEMMA Induction ==
  ASSUME NEW n \in Nat, NEW S, 0 \in S,
         \A i \in 0..n : i \in S /\ i < n => i + 1 \in S
  PROVE  \A i \in 0..n : i \in S
<1> SUFFICES ASSUME NEW k \in 0..n, k \notin S
             PROVE  FALSE
  OBVIOUS
<1> DEFINE T == {i \in 0..k : i \notin S}
           f == [i \in T |-> i - 1]
<1>1. IsFiniteSet(T) /\ Cardinality(T) \in Nat /\ k \in T
  <2>1. IsFiniteSet(0..k)
    BY FS_Interval
  <2> QED
    BY <2>1, FS_Subset, FS_CardinalityType
<1>2. ASSUME NEW i \in T PROVE i - 1 \in T \ {k}
  <2>1. i \in 0..k /\ i \notin S /\ i # 0
    OBVIOUS
  <2>2. i - 1 \in 0..n /\ i - 1 < n /\ (i - 1) + 1 = i
    BY <2>1
  <2>3. i - 1 \notin S
    BY <2>1, <2>2
  <2> QED
    BY <2>1, <2>3
<1>3. T \subseteq Int
  OBVIOUS
<1> HIDE DEF T
<1>4. f \in Injection(T, T \ {k})
  <2>1. f \in [T -> T \ {k}]
    BY <1>2
  <2>2. \A i, j \in T : f[i] = f[j] => i = j
    BY <1>3
  <2> QED
    BY <2>1, <2>2 DEF Injection, IsInjective
<1> HIDE DEF f
<1>5. /\ IsFiniteSet(T \ {k})
      /\ Cardinality(T \ {k}) = Cardinality(T) - 1
  BY <1>1, FS_RemoveElement
<1>6. Cardinality(T) <= Cardinality(T) - 1
  BY <1>4, <1>5, FS_Injection
<1> QED
  BY <1>1, <1>6

\* The values along a path, one key after the other.
LEMMA AlongStep ==
  ASSUME NEW doc, NEW path, Len(path) \in Nat
  PROVE  /\ Along(doc, path)[0] = MapOf(doc)
         /\ \A i \in 0..Len(path) : i < Len(path) =>
              Along(doc, path)[i + 1] = Under(Along(doc, path)[i], path[i + 1])
<1> DEFINE n == Len(path)
           Is(f, k) == f = [i \in 0..k |-> IF i = 0 THEN [map |-> doc]
                                           ELSE Under(f[i - 1], path[i])]
           S == {k \in 0..n : \E f : Is(f, k)}
<1>1. 0 \in S
  <2>1. Is([i \in 0..0 |-> [map |-> doc]], 0)
    OBVIOUS
  <2> HIDE DEF Is
  <2>2. \E f : Is(f, 0)
    BY <2>1
  <2> QED
    BY <2>2
<1>2. ASSUME NEW k \in 0..n, k \in S, k < n PROVE k + 1 \in S
  <2>1. PICK f : Is(f, k)
    BY <1>2
  <2> DEFINE g == [i \in 0..(k + 1) |-> IF i = k + 1 THEN Under(f[k], path[k + 1])
                                       ELSE f[i]]
  <2>2. ASSUME NEW i \in 0..(k + 1)
        PROVE  g[i] = IF i = 0 THEN [map |-> doc] ELSE Under(g[i - 1], path[i])
    <3>1. CASE i = k + 1
      BY <3>1
    <3>2. CASE i # k + 1
      <4>1. i \in 0..k /\ g[i] = f[i] /\ (i # 0 => g[i - 1] = f[i - 1])
        BY <3>2
      <4>2. f[i] = IF i = 0 THEN [map |-> doc] ELSE Under(f[i - 1], path[i])
        BY <2>1, <4>1
      <4> QED
        BY <4>1, <4>2
    <3> QED
      BY <3>1, <3>2
  <2>3. Is(g, k + 1)
    BY <2>2
  <2> HIDE DEF Is, g
  <2>4. \E h : Is(h, k + 1)
    BY <2>3
  <2>5. k + 1 \in 0..n
    BY <1>2
  <2> QED
    BY <2>4, <2>5
<1>3. n \in S
  <2>1. n \in Nat /\ n \in 0..n
    OBVIOUS
  <2> HIDE DEF S, n
  <2>2. \A i \in 0..n : i \in S
    BY <1>1, <1>2, <2>1, Induction
  <2> QED
    BY <2>1, <2>2
<1>4. Is(Along(doc, path), n)
  BY <1>3 DEF Along
<1>5. \A i \in 0..n : Along(doc, path)[i] =
        IF i = 0 THEN [map |-> doc] ELSE Under(Along(doc, path)[i - 1], path[i])
  BY <1>4
<1> HIDE DEF Is, S
<1> QED
  BY <1>5 DEF MapOf

\* A value has one kind, and Nothing has none.
LEMMA Kinds ==
  /\ \A v \in Value :
       /\ v # Nothing
       /\ IsMap(v) => v.map \in Document /\ ~ IsList(v)
       /\ IsList(v) => v.list \in Seq(Item)
  /\ ~ IsMap(Nothing) /\ ~ IsList(Nothing)
  /\ \A doc : IsMap([map |-> doc])
  /\ \A list : IsList([list |-> list])
BY DEF Value, Nothing, IsMap, IsList

\* Going down, one stays among the values.
LEMMA UnderType ==
  ASSUME DocumentsHold,
         NEW v \in Value \cup {Nothing}, NEW key
  PROVE  Under(v, key) \in Value \cup {Nothing}
<1>1. CASE IsMap(v)
  BY <1>1, Kinds DEF Under, DocumentsHold
<1>2. CASE ~ IsMap(v)
  BY <1>2 DEF Under
<1> QED
  BY <1>1, <1>2

\* What a merge leaves at the last key of a path, of what the two documents
\* have there: cuts are the places above it at which the new one cuts the path.
Laid(new, old, cuts, keys, key) ==
  IF new = Nothing THEN IF cuts = {} THEN old ELSE Nothing
  ELSE IF old = Nothing THEN new ELSE Joined(new, old, key \in keys, Merge)

\* One key of a merge.
LEMMA UnderMerge ==
  ASSUME DocumentsHold, MergesByLevel,
         NEW source \in Document, NEW destination \in Document,
         NEW keys \in {ArrayOverwriteKeys, {}}, NEW key, NEW cuts, cuts = {}
  PROVE  Under(MapOf(Merge(source, destination, keys)), key) =
           Laid(Under(MapOf(source), key), Under(MapOf(destination), key),
                cuts, keys, key)
<1> DEFINE merged == Merge(source, destination, keys)
<1>1. merged = MergeLevel(source, destination, keys, Merge)
  BY DEF MergesByLevel
<1>2. /\ DOMAIN merged = DOMAIN source \cup DOMAIN destination
      /\ key \in DOMAIN merged =>
           merged[key] =
             CASE key \notin DOMAIN source      -> destination[key]
               [] key \notin DOMAIN destination -> source[key]
               [] OTHER -> Joined(source[key], destination[key],
                                  key \in keys, Merge)
  BY <1>1 DEF MergeLevel, Joined
<1>3. /\ key \in DOMAIN source => source[key] # Nothing
      /\ key \in DOMAIN destination => destination[key] # Nothing
  BY Kinds DEF DocumentsHold
<1>4. ASSUME NEW doc
      PROVE  Under(MapOf(doc), key) =
               IF key \in DOMAIN doc THEN doc[key] ELSE Nothing
  BY Kinds DEF Under, MapOf
<1> HIDE DEF merged
<1>5. Under(MapOf(merged), key) =
        IF key \in DOMAIN merged THEN merged[key] ELSE Nothing
  BY <1>4
<1> QED
  BY <1>2, <1>3, <1>4, <1>5 DEF Laid, merged, Joined

\* One key further: what is above has been merged with no key to overwrite.
LEMMA UnderLaid ==
  ASSUME DocumentsHold, MergesByLevel,
         NEW new, NEW old, NEW cuts, NEW below, NEW keys, NEW none,
         NEW above, NEW key,
         new \in Value \cup {Nothing},
         old \in Value \cup {Nothing},
         new # Nothing => IsEmpty(cuts),
         IsEmpty(below) <=> IsEmpty(cuts) /\ (new = Nothing \/ IsMap(new)),
         IsEmpty(none)
  PROVE  Under(Laid(new, old, cuts, keys, above), key) =
           Laid(Under(new, key), Under(old, key), below, none, key)
<1> USE DEF IsEmpty
<1>1. CASE new = Nothing
  BY <1>1, Kinds DEF Laid, Under
<1>2. CASE new # Nothing /\ ~ IsMap(new)
  <2>1. ~ IsMap(Laid(new, old, cuts, keys, above))
    BY <1>2, Kinds DEF Laid, Joined, IsMap, IsList
  <2> QED
    BY <1>2, <2>1 DEF Laid, Under
<1>3. CASE IsMap(new) /\ ~ IsMap(old)
  <2>1. Laid(new, old, cuts, keys, above) = new
    BY <1>3, Kinds DEF Laid, Joined
  <2>2. Under(old, key) = Nothing
    BY <1>3 DEF Under
  <2>3. below = {}
    BY <1>3, Kinds
  <2> QED
    BY <1>3, <2>1, <2>2, <2>3 DEF Laid
<1>4. CASE IsMap(new) /\ IsMap(old)
  <2>1. /\ new.map \in Document /\ old.map \in Document
        /\ new # Nothing /\ old # Nothing
    BY <1>4, Kinds
  <2>2. Laid(new, old, cuts, keys, above) = MapOf(Merge(new.map, old.map, none))
    BY <1>4, <2>1, Kinds DEF Laid, Joined, MapOf
  <2>3. Under(MapOf(Merge(new.map, old.map, none)), key) =
          Laid(Under(MapOf(new.map), key), Under(MapOf(old.map), key),
               below, none, key)
    <3>1. none \in {ArrayOverwriteKeys, {}} /\ below = {}
      BY <1>4, <2>1
    <3> QED
      BY <2>1, <3>1, UnderMerge
  <2>4. /\ Under(MapOf(new.map), key) = Under(new, key)
        /\ Under(MapOf(old.map), key) = Under(old, key)
    BY <1>4, Kinds DEF Under, MapOf
  <2> QED
    BY <2>2, <2>3, <2>4
<1> QED
  BY <1>1, <1>2, <1>3, <1>4, Kinds

\* The places above the i-th of a path at which a document cuts it.
CutsAbove(doc, path, i) ==
  {j \in 1..i - 1 : Along(doc, path)[j] # Nothing /\ ~ IsMap(Along(doc, path)[j])}

\* The keys whose arrays are overwritten at the i-th place of a path.
KeysAt(i) == IF i = 1 THEN ArrayOverwriteKeys ELSE {}

\* The law of the merge of two documents, along a path of any length.
MergedBy(new, old, merged, source, path, i) ==
  /\ new[i] \in Value \cup {Nothing}
  /\ old[i] \in Value \cup {Nothing}
  /\ new[i] # Nothing => CutsAbove(source, path, i) = {}
  /\ merged[i] = Laid(new[i], old[i], CutsAbove(source, path, i), KeysAt(i),
                      path[i])

LEMMA MergeAlong ==
  ASSUME DocumentsHold, MergesByLevel,
         NEW source \in Document, NEW destination \in Document,
         NEW path, Len(path) \in Nat
  PROVE  \A i \in 1..Len(path) :
           MergedBy(Along(source, path), Along(destination, path),
                    Along(Merge(source, destination, ArrayOverwriteKeys), path),
                    source, path, i)
<1> DEFINE n      == Len(path)
           new    == Along(source, path)
           old    == Along(destination, path)
           merged == Along(Merge(source, destination, ArrayOverwriteKeys), path)
           Law(i) == MergedBy(new, old, merged, source, path, i)
           T      == {i \in 0..n : i # 0 => Law(i)}
<1>1. /\ new[0] = MapOf(source) /\ old[0] = MapOf(destination)
      /\ merged[0] = MapOf(Merge(source, destination, ArrayOverwriteKeys))
      /\ \A i \in 0..n : i < n =>
           /\ new[i + 1] = Under(new[i], path[i + 1])
           /\ old[i + 1] = Under(old[i], path[i + 1])
           /\ merged[i + 1] = Under(merged[i], path[i + 1])
  BY AlongStep
<1>2. /\ MapOf(source) \in Value
      /\ MapOf(destination) \in Value
  BY DEF Value, MapOf
<1>3. ASSUME NEW i \in 0..n, i < n
      PROVE  CutsAbove(source, path, i + 1) = {} <=>
               /\ CutsAbove(source, path, i) = {}
               /\ i # 0 => new[i] = Nothing \/ IsMap(new[i])
  <2>1. \A j : j \in 1..(i + 1) - 1 <=> j \in 1..(i - 1) \/ (i # 0 /\ j = i)
    OBVIOUS
  <2> QED
    BY <2>1 DEF CutsAbove
<1>4. n \in Nat
  OBVIOUS
<1> HIDE DEF n, new, old, merged
<1>5. ASSUME NEW i \in 0..n, i < n, i # 0 => Law(i)
      PROVE  Law(i + 1)
  <2>1. new[i] \in Value \cup {Nothing} /\ old[i] \in Value \cup {Nothing}
    BY <1>1, <1>2, <1>5 DEF MergedBy
  <2>2. /\ new[i + 1] \in Value \cup {Nothing}
        /\ old[i + 1] \in Value \cup {Nothing}
    BY <1>1, <1>5, <2>1, UnderType
  <2>3. new[i + 1] # Nothing => IsMap(new[i])
    BY <1>1, <1>5 DEF Under
  <2>4. i = 0 => CutsAbove(source, path, i) = {}
    BY DEF CutsAbove
  <2>5. new[i + 1] # Nothing => CutsAbove(source, path, i + 1) = {}
    BY <1>3, <1>5, <2>3, <2>4, Kinds DEF MergedBy
  <2>6. merged[i + 1] = Laid(new[i + 1], old[i + 1], CutsAbove(source, path, i + 1),
                             KeysAt(i + 1), path[i + 1])
    <3>1. CASE i = 0
      <4>1. /\ i + 1 = 1
            /\ CutsAbove(source, path, i + 1) = {}
            /\ KeysAt(i + 1) = ArrayOverwriteKeys
        BY <3>1 DEF CutsAbove, KeysAt
      <4>2. Under(MapOf(Merge(source, destination, ArrayOverwriteKeys)), path[1]) =
              Laid(Under(MapOf(source), path[1]),
                   Under(MapOf(destination), path[1]),
                   {}, ArrayOverwriteKeys, path[1])
        BY UnderMerge
      <4> QED
        BY <1>1, <1>5, <3>1, <4>1, <4>2
    <3>2. CASE i # 0
      <4>1. /\ CutsAbove(source, path, i + 1) = {} <=>
                 /\ CutsAbove(source, path, i) = {}
                 /\ new[i] = Nothing \/ IsMap(new[i])
            /\ KeysAt(i + 1) = {}
            /\ new[i] # Nothing => CutsAbove(source, path, i) = {}
        BY <1>3, <1>5, <3>2 DEF KeysAt, MergedBy
      <4>2. merged[i] = Laid(new[i], old[i], CutsAbove(source, path, i), KeysAt(i),
                             path[i])
        BY <1>5, <3>2 DEF MergedBy
      <4>3. Under(Laid(new[i], old[i], CutsAbove(source, path, i), KeysAt(i),
                       path[i]),
                  path[i + 1]) =
              Laid(Under(new[i], path[i + 1]), Under(old[i], path[i + 1]),
                   CutsAbove(source, path, i + 1), {}, path[i + 1])
        <5> DEFINE a == new[i]
                   b == old[i]
                   c == CutsAbove(source, path, i)
                   d == CutsAbove(source, path, i + 1)
        <5>1. /\ a \in Value \cup {Nothing} /\ b \in Value \cup {Nothing}
              /\ a # Nothing => IsEmpty(c)
              /\ IsEmpty(d) <=> IsEmpty(c) /\ (a = Nothing \/ IsMap(a))
          BY <2>1, <4>1 DEF IsEmpty
        <5> HIDE DEF a, b, c, d
        <5>2. ASSUME NEW keys, NEW above, NEW key, NEW none, IsEmpty(none)
              PROVE  Under(Laid(a, b, c, keys, above), key) =
                       Laid(Under(a, key), Under(b, key), d, none, key)
          BY <5>1, <5>2, UnderLaid
        <5> QED
          BY <5>2 DEF IsEmpty, a, b, c, d
      <4> QED
        BY <1>1, <1>5, <4>1, <4>2, <4>3
    <3> QED
      BY <3>1, <3>2
  <2> QED
    BY <2>2, <2>5, <2>6 DEF MergedBy
<1>6. \A i \in 0..n : i \in T
  <2>1. 0 \in T /\ \A i \in 0..n : i \in T /\ i < n => i + 1 \in T
    <3> HIDE DEF Law
    <3> QED
      BY <1>4, <1>5
  <2> HIDE DEF T
  <2> QED
    BY <1>4, <2>1, Induction
<1>7. \A i \in 1..n : Law(i)
  <2>1. \A i \in 1..n : i \in 0..n /\ i # 0
    BY <1>4
  <2> HIDE DEF Law
  <2> QED
    BY <1>6, <2>1
<1> QED
  BY <1>7 DEF n, new, old, merged

\* What a merge leaves at a path, of what the two documents have there.
MergedTo(new, old, merged, cut, overwrites) ==
  /\ new \in Value \cup {Nothing}
  /\ new # Nothing => ~ cut
  /\ new = Nothing => merged = IF cut THEN Nothing ELSE old
  /\ IsMap(new) => IsMap(merged)
  /\ IsList(new) /\ IsList(old) /\ ~ overwrites =>
       merged = [list |-> old.list \o new.list]
  /\ /\ new # Nothing /\ ~ IsMap(new)
     /\ ~ (IsList(new) /\ IsList(old) /\ ~ overwrites)
     => merged = new

\* The merge of two documents, at a path.
LEMMA MergeOfTwo ==
  ASSUME DocumentsHold, MergesByLevel,
         NEW source \in Document, NEW destination \in Document,
         NEW path, Len(path) \in Nat, Len(path) > 0
  PROVE  MergedTo(At(source, path), At(destination, path),
                  At(Merge(source, destination, ArrayOverwriteKeys), path),
                  Cuts(source, path), Overwrites(path))
<1> DEFINE n    == Len(path)
           new  == At(source, path)
           old  == At(destination, path)
           cuts == CutsAbove(source, path, n)
<1>1. /\ new \in Value \cup {Nothing}
      /\ old \in Value \cup {Nothing}
      /\ new # Nothing => cuts = {}
      /\ At(Merge(source, destination, ArrayOverwriteKeys), path) =
           Laid(new, old, cuts, KeysAt(n), path[n])
  <2>1. n \in 1..n
    OBVIOUS
  <2>2. MergedBy(Along(source, path), Along(destination, path),
                 Along(Merge(source, destination, ArrayOverwriteKeys), path),
                 source, path, n)
    BY <2>1, MergeAlong
  <2> QED
    BY <2>2 DEF MergedBy, At
<1>2. Cuts(source, path) <=> cuts # {}
  BY DEF Cuts, CutsAbove
<1>3. Overwrites(path) <=> path[n] \in KeysAt(n)
  BY DEF Overwrites, KeysAt
<1> HIDE DEF new, old, cuts, n
<1>4. CASE new = Nothing
  BY <1>1, <1>2, <1>4, Kinds DEF MergedTo, Laid, new, old
<1>5. CASE new # Nothing /\ old = Nothing
  BY <1>1, <1>2, <1>5, Kinds DEF MergedTo, Laid, new, old
<1>6. CASE new # Nothing /\ old # Nothing
  <2>1. At(Merge(source, destination, ArrayOverwriteKeys), path) =
          Joined(new, old, path[n] \in KeysAt(n), Merge)
    BY <1>1, <1>6 DEF Laid
  <2>2. CASE IsMap(new) /\ IsMap(old)
    BY <1>1, <1>2, <1>6, <2>1, <2>2, Kinds DEF MergedTo, Joined, new, old
  <2>3. CASE IsMap(new) /\ ~ IsMap(old)
    BY <1>1, <1>2, <1>6, <2>1, <2>3, Kinds DEF MergedTo, Joined, new, old
  <2>4. CASE ~ IsMap(new) /\ IsList(new) /\ IsList(old) /\ ~ Overwrites(path)
    BY <1>1, <1>2, <1>3, <1>6, <2>1, <2>4, Kinds DEF MergedTo, Joined, new, old
  <2>5. CASE ~ IsMap(new) /\ ~ (IsList(new) /\ IsList(old) /\ ~ Overwrites(path))
    BY <1>1, <1>2, <1>3, <1>6, <2>1, <2>5, Kinds DEF MergedTo, Joined, new, old
  <2> QED
    BY <2>2, <2>3, <2>4, <2>5
<1> QED
  BY <1>4, <1>5, <1>6

\* A set of numbers up to n that is not empty has a last one.
LEMMA LastOf ==
  ASSUME NEW n \in Nat, NEW W \in SUBSET (1..n), W # {}
  PROVE  \E last \in W : \A i \in W : i <= last
<1> DEFINE S == {k \in 0..n : W \cap (1..k) # {} =>
                   \E last \in W \cap (1..k) : \A i \in W \cap (1..k) : i <= last}
<1>1. 0 \in S
  OBVIOUS
<1>2. ASSUME NEW k \in 0..n, k \in S, k < n
      PROVE  k + 1 \in S
  <2>1. 1..(k + 1) = (1..k) \cup {k + 1} /\ k + 1 \in 0..n
    BY <1>2
  <2>2. CASE k + 1 \in W
    <3>1. k + 1 \in W \cap (1..(k + 1)) /\ \A i \in W \cap (1..(k + 1)) : i <= k + 1
      BY <2>2
    <3> QED
      BY <2>1, <3>1
  <2>3. CASE k + 1 \notin W
    <3>1. W \cap (1..(k + 1)) = W \cap (1..k)
      BY <2>1, <2>3
    <3> QED
      BY <1>2, <2>1, <3>1
  <2> QED
    BY <2>2, <2>3
<1>3. n \in S
  <2> HIDE DEF S
  <2>1. \A k \in 0..n : k \in S
    BY <1>1, <1>2, Induction
  <2> QED
    BY <2>1
<1>4. W \cap (1..n) = W
  OBVIOUS
<1> QED
  BY <1>3, <1>4

\* Nothing is merged yet.
LEMMA NoDocuments ==
  ASSUME NEW path, Len(path) \in Nat, Len(path) > 0, NEW keys
  PROVE  IsMergeAt(path, EmptyDocument, << >>, keys)
<1> DEFINE n     == Len(path)
           value == Along(EmptyDocument, path)
           S     == {i \in 0..n : i # 0 => value[i] = Nothing}
<1>1. /\ value[0] = MapOf(EmptyDocument)
      /\ \A i \in 0..n : i < n => value[i + 1] = Under(value[i], path[i + 1])
  BY AlongStep
<1>2. \A key : Under(MapOf(EmptyDocument), key) = Nothing
  BY DEF MapOf, Under, EmptyDocument
<1>3. \A key : Under(Nothing, key) = Nothing
  BY Kinds DEF Under
<1> HIDE DEF value
<1>4. \A i \in 0..n : i \in S /\ i < n => i + 1 \in S
  BY <1>1, <1>2, <1>3
<1>5. 0 \in S /\ n \in Nat
  OBVIOUS
<1> HIDE DEF S
<1>6. n \in S
  <2> HIDE DEF n
  <2>1. \A i \in 0..n : i \in S
    BY <1>4, <1>5, Induction
  <2> QED
    BY <1>5, <2>1
<1>7. At(EmptyDocument, path) = Nothing
  BY <1>6 DEF S, At, value
<1>8. Writers(<< >>, path) = {}
  BY DEF Writers
<1> QED
  BY <1>7, <1>8 DEF IsMergeAt

\* The writers once one more document has been merged.
LEMMA OneMoreWriter ==
  ASSUME NEW docs, NEW doc, docs \in Seq(Document), doc \in Document, NEW path,
         At(doc, path) # Nothing => ~ Cuts(doc, path)
  PROVE  LET t == Len(docs)
             all == Append(docs, doc)
         IN /\ t \in Nat /\ Len(all) = t + 1
            /\ DOMAIN docs = 1..t /\ DOMAIN all = 1..(t + 1)
            /\ all[t + 1] = doc
            /\ \A i \in 1..t : all[i] = docs[i]
            /\ Writers(docs, path) \subseteq 1..t
            /\ Cuts(doc, path) => Writers(all, path) = {}
            /\ ~ Cuts(doc, path) /\ At(doc, path) = Nothing =>
                 Writers(all, path) = Writers(docs, path)
            /\ At(doc, path) # Nothing =>
                 Writers(all, path) = Writers(docs, path) \cup {t + 1}
<1> DEFINE t == Len(docs)
           all == Append(docs, doc)
<1>1. /\ t \in Nat /\ Len(all) = t + 1
      /\ DOMAIN docs = 1..t /\ DOMAIN all = 1..(t + 1)
      /\ all[t + 1] = doc
      /\ \A i \in 1..t : all[i] = docs[i]
  OBVIOUS
<1>2. 1..(t + 1) = (1..t) \cup {t + 1} /\ t + 1 \notin 1..t
      /\ \A i \in 1..t : t + 1 > i /\ ~ i > t + 1
  BY <1>1
<1> HIDE DEF t, all
<1>3. Writers(docs, path) \subseteq 1..t
  BY <1>1 DEF Writers
<1>4. \A i \in 1..(t + 1) : i \in Writers(all, path) <=>
        /\ At(all[i], path) # Nothing
        /\ \A j \in 1..(t + 1) : j > i => ~ Cuts(all[j], path)
  BY <1>1 DEF Writers
<1>5. \A i \in 1..t : i \in Writers(docs, path) <=>
        /\ At(docs[i], path) # Nothing
        /\ \A j \in 1..t : j > i => ~ Cuts(docs[j], path)
  BY <1>1 DEF Writers
<1>6. Writers(all, path) \subseteq 1..(t + 1)
  BY <1>1 DEF Writers
<1>7. \A i \in 1..t : i \in Writers(all, path) <=>
        i \in Writers(docs, path) /\ ~ Cuts(doc, path)
  BY <1>1, <1>2, <1>4, <1>5
<1>8. t + 1 \in Writers(all, path) <=> At(doc, path) # Nothing
  BY <1>1, <1>2, <1>4
<1>9. \A i : i \in Writers(all, path) => i \in 1..t \/ i = t + 1
  BY <1>2, <1>6
<1>10. Cuts(doc, path) => Writers(all, path) = {}
  BY <1>7, <1>8, <1>9
<1>11. ~ Cuts(doc, path) /\ At(doc, path) = Nothing =>
         Writers(all, path) = Writers(docs, path)
  BY <1>3, <1>7, <1>8, <1>9
<1>12. At(doc, path) # Nothing =>
         Writers(all, path) = Writers(docs, path) \cup {t + 1}
  BY <1>3, <1>7, <1>8, <1>9
<1> QED
  BY <1>1, <1>3, <1>10, <1>11, <1>12 DEF t, all

\* One more part at the end of a list.
LEMMA OneMorePart ==
  ASSUME NEW docs, NEW doc, docs \in Seq(Document), doc \in Document, NEW path,
         NEW list \in Seq(Item), NEW part \in Seq(Item),
         Concatenates(list, docs, path),
         \A i \in Appended(docs, path) : At(docs[i], path).list \in Seq(Item),
         \/ /\ Appended(Append(docs, doc), path) = Appended(docs, path)
            /\ part = << >>
         \/ /\ Appended(Append(docs, doc), path) =
                 Appended(docs, path) \cup {Len(docs) + 1}
            /\ At(doc, path).list = part
  PROVE  Concatenates(list \o part, Append(docs, doc), path)
<1> DEFINE t == Len(docs)
           all == Append(docs, doc)
           m == Len(list)
           p == Len(part)
<1>1. /\ t \in Nat /\ Len(all) = t + 1
      /\ all[t + 1] = doc
      /\ \A i \in 1..t : all[i] = docs[i]
      /\ DOMAIN docs = 1..t
  OBVIOUS
<1>2. /\ m \in Nat /\ p \in Nat /\ Len(list \o part) = m + p
      /\ \A n \in 1..m : (list \o part)[n] = list[n]
      /\ \A n \in 1..p : (list \o part)[m + n] = part[n]
  OBVIOUS
<1>3. PICK end \in [0..t -> 0..m] :
        /\ end[0] = 0
        /\ end[t] = m
        /\ \A i \in 1..t :
             IF i \in Appended(docs, path)
             THEN LET own == At(docs[i], path).list IN
                  /\ end[i] = end[i - 1] + Len(own)
                  /\ \A n \in 1..Len(own) : list[end[i - 1] + n] = own[n]
             ELSE end[i] = end[i - 1]
  BY DEF Concatenates
<1> HIDE DEF t, all, m, p
<1> DEFINE longer == [i \in 0..(t + 1) |-> IF i = t + 1 THEN m + p ELSE end[i]]
<1>4. longer \in [0..(t + 1) -> 0..(m + p)]
  BY <1>1, <1>2, <1>3
<1>5. /\ longer[0] = 0 /\ longer[t + 1] = m + p /\ longer[t] = m
      /\ \A i \in 1..t : longer[i] = end[i] /\ longer[i - 1] = end[i - 1]
  <2>1. \A i \in 1..t : i # t + 1 /\ i - 1 # t + 1 /\ i \in 0..(t + 1)
                         /\ i - 1 \in 0..(t + 1)
    BY <1>1
  <2>2. 0 # t + 1 /\ t # t + 1
    BY <1>1
  <2> QED
    BY <1>1, <1>3, <2>1, <2>2
<1>6. Appended(docs, path) \subseteq 1..t
  BY <1>1 DEF Appended, Writers, t
<1> DEFINE whole == list \o part
<1> HIDE DEF longer, whole
<1>7. ASSUME NEW i \in 1..(t + 1)
      PROVE  IF i \in Appended(all, path)
             THEN LET own == At(all[i], path).list IN
                  /\ longer[i] = longer[i - 1] + Len(own)
                  /\ \A n \in 1..Len(own) : whole[longer[i - 1] + n] = own[n]
             ELSE longer[i] = longer[i - 1]
  <2>1. CASE i = t + 1
    <3>1. i \notin Appended(docs, path) /\ i - 1 = t
      BY <1>1, <1>6, <2>1
    <3>2. CASE i \in Appended(all, path)
      <4>1. At(all[i], path).list = part
        BY <1>1, <2>1, <3>1, <3>2 DEF all, t
      <4> QED
        BY <1>2, <1>5, <2>1, <3>1, <3>2, <4>1 DEF p, whole
    <3>3. CASE i \notin Appended(all, path)
      <4>1. part = << >> /\ p = 0
        BY <2>1, <3>3 DEF all, t, p
      <4> QED
        BY <1>2, <1>5, <2>1, <3>1, <3>3, <4>1
    <3> QED
      BY <3>2, <3>3
  <2>2. CASE i # t + 1
    <3>1. i \in 1..t
      BY <1>1, <2>2
    <3>2. i \in Appended(all, path) <=> i \in Appended(docs, path)
      BY <2>2 DEF all, t
    <3>3. CASE i \in Appended(docs, path)
      <4> DEFINE own == At(docs[i], path).list
      <4>1. /\ end[i] = end[i - 1] + Len(own)
            /\ \A n \in 1..Len(own) : list[end[i - 1] + n] = own[n]
        BY <1>3, <3>1, <3>3
      <4>2. own = At(all[i], path).list
        BY <1>1, <3>1
      <4>3. end[i - 1] \in 0..m /\ end[i] \in 0..m
        BY <1>1, <1>3, <3>1
      <4> HIDE DEF own
      <4>4. \A n \in 1..Len(own) : whole[end[i - 1] + n] = own[n]
        <5> SUFFICES ASSUME NEW n \in 1..Len(own)
                     PROVE  whole[end[i - 1] + n] = own[n]
          OBVIOUS
        <5>1. end[i - 1] + n \in 1..m
          <6>1. own \in Seq(Item)
            BY <3>3 DEF own
          <6>2. Len(own) \in Nat
            BY <6>1
          <6> DEFINE l == Len(own)
                     before == end[i - 1]
                     after == end[i]
          <6>3. l \in Nat /\ before \in 0..m /\ after \in 0..m /\ after = before + l
                /\ m \in Nat /\ n \in 1..l
            BY <1>2, <4>1, <4>3, <6>2
          <6> HIDE DEF l, before, after
          <6>4. before + n \in 1..m
            BY <6>3
          <6> QED
            BY <6>4 DEF before
        <5> QED
          BY <1>2, <4>1, <5>1 DEF whole
      <4>5. /\ longer[i] = longer[i - 1] + Len(own)
            /\ \A n \in 1..Len(own) : whole[longer[i - 1] + n] = own[n]
        BY <1>5, <3>1, <4>1, <4>4
      <4> QED
        BY <3>2, <3>3, <4>2, <4>5
    <3>4. CASE i \notin Appended(docs, path)
      BY <1>3, <1>5, <3>1, <3>2, <3>4
    <3> QED
      BY <3>3, <3>4
  <2> QED
    BY <2>1, <2>2
<1>8. /\ Len(all) = t + 1 /\ Len(whole) = m + p
  BY <1>1, <1>2 DEF whole, m, p, t
<1>9. Concatenates(whole, all, path)
  <2>1. longer \in [0..Len(all) -> 0..Len(whole)]
    BY <1>4, <1>8
  <2>2. /\ longer[0] = 0 /\ longer[Len(all)] = Len(whole)
        /\ \A i \in 1..Len(all) :
             IF i \in Appended(all, path)
             THEN LET own == At(all[i], path).list IN
                  /\ longer[i] = longer[i - 1] + Len(own)
                  /\ \A n \in 1..Len(own) : whole[longer[i - 1] + n] = own[n]
             ELSE longer[i] = longer[i - 1]
    BY <1>5, <1>7, <1>8
  <2> QED
    BY <2>1, <2>2 DEF Concatenates
<1> QED
  BY <1>9 DEF whole, all

\* The last writer decides what is at a path (IsMergeAt).
DecidedBy(value, result, docs, path) ==
  CASE IsMap(value) -> IsMap(result)
    [] IsList(value) /\ ~ Overwrites(path) ->
         IsList(result) /\ Concatenates(result.list, docs, path)
    [] OTHER -> result = value

LEMMA Decided ==
  ASSUME NEW value \in Value, NEW result, NEW docs, NEW path
  PROVE  DecidedBy(value, result, docs, path) <=>
           /\ IsMap(value) => IsMap(result)
           /\ ~ IsMap(value) /\ IsList(value) /\ ~ Overwrites(path) =>
                IsList(result) /\ Concatenates(result.list, docs, path)
           /\ ~ IsMap(value) /\ ~ (IsList(value) /\ ~ Overwrites(path)) =>
                result = value
<1>1. CASE IsMap(value) /\ ~ (IsList(value) /\ ~ Overwrites(path))
  BY <1>1 DEF DecidedBy
<1>2. CASE ~ IsMap(value) /\ IsList(value) /\ ~ Overwrites(path)
  BY <1>2 DEF DecidedBy
<1>3. CASE ~ IsMap(value) /\ ~ (IsList(value) /\ ~ Overwrites(path))
  BY <1>3 DEF DecidedBy
<1> QED
  BY <1>1, <1>2, <1>3, Kinds

\* What the merge of a list of documents is at a path, spelled out.
LEMMA LastWriter ==
  ASSUME NEW docs, docs \in Seq(Document), NEW path,
         NEW old, old \in Value \cup {Nothing},
         \A i \in Writers(docs, path) : At(docs[i], path) \in Value,
         Writers(docs, path) = {} => old = Nothing,
         \A last \in Writers(docs, path) :
           (\A i \in Writers(docs, path) : i <= last) =>
             DecidedBy(At(docs[last], path), old, docs, path),
         ~ Overwrites(path)
  PROVE  /\ ~ IsList(old) => Appended(docs, path) = {}
         /\ IsList(old) => Concatenates(old.list, docs, path)
<1>1. CASE Writers(docs, path) = {}
  BY <1>1, Kinds DEF Appended
<1>2. CASE Writers(docs, path) # {}
  <2>1. Len(docs) \in Nat /\ Writers(docs, path) \subseteq 1..Len(docs)
    BY DEF Writers
  <2>2. PICK last \in Writers(docs, path) : \A i \in Writers(docs, path) : i <= last
    BY <1>2, <2>1, LastOf
  <2>3. PICK value \in Value : value = At(docs[last], path)
    OBVIOUS
  <2>4. /\ IsMap(value) => IsMap(old)
        /\ ~ IsMap(value) /\ IsList(value) =>
             IsList(old) /\ Concatenates(old.list, docs, path)
        /\ ~ IsMap(value) /\ ~ IsList(value) => old = value
    BY <2>2, <2>3, Decided
  <2>5. ASSUME NEW i \in Appended(docs, path)
        PROVE  IsList(value)
    <3>1. i \in Writers(docs, path) /\ last >= i
      BY <2>1, <2>2 DEF Appended
    <3> QED
      BY <2>2, <2>3, <3>1 DEF Appended
  <2>6. IsMap(value) => ~ IsList(value)
    BY Kinds
  <2>7. IsMap(old) => ~ IsList(old)
    BY Kinds
  <2> QED
    BY <2>4, <2>5, <2>6, <2>7
<1> QED
  BY <1>1, <1>2

\* One turn of the loop: one more document is merged.
LEMMA OneMoreDocument ==
  ASSUME DocumentsHold, MergesByLevel,
         NEW docs, docs \in Seq(Document),
         NEW sofar \in Document, NEW doc \in Document,
         NEW path, Len(path) \in Nat, Len(path) > 0,
         IsMergeAt(path, sofar, docs, ArrayOverwriteKeys)
  PROVE  IsMergeAt(path, Merge(doc, sofar, ArrayOverwriteKeys), Append(docs, doc),
                   ArrayOverwriteKeys)
<1> DEFINE t   == Len(docs)
           all == Append(docs, doc)
           new == At(doc, path)
           old == At(sofar, path)
           merged == At(Merge(doc, sofar, ArrayOverwriteKeys), path)
<1>1. MergedTo(new, old, merged, Cuts(doc, path), Overwrites(path))
  BY MergeOfTwo
<1>2. /\ new \in Value \cup {Nothing}
      /\ new # Nothing => ~ Cuts(doc, path)
  BY <1>1 DEF MergedTo
<1>3. old \in Value \cup {Nothing}
  BY MergeOfTwo DEF MergedTo
<1>4. /\ t \in Nat /\ Len(all) = t + 1
      /\ DOMAIN docs = 1..t /\ DOMAIN all = 1..(t + 1)
      /\ all[t + 1] = doc
      /\ \A i \in 1..t : all[i] = docs[i]
      /\ Writers(docs, path) \subseteq 1..t
      /\ Cuts(doc, path) => Writers(all, path) = {}
      /\ ~ Cuts(doc, path) /\ new = Nothing =>
           Writers(all, path) = Writers(docs, path)
      /\ new # Nothing => Writers(all, path) = Writers(docs, path) \cup {t + 1}
  BY <1>2, OneMoreWriter
<1>5. \A i \in Writers(docs, path) : At(docs[i], path) \in Value
  <2> SUFFICES ASSUME NEW i \in Writers(docs, path)
               PROVE  At(docs[i], path) \in Value
    OBVIOUS
  <2>1. docs[i] \in Document /\ At(docs[i], path) # Nothing
    BY DEF Writers
  <2>2. At(docs[i], path) \in Value \cup {Nothing}
    BY <2>1, MergeOfTwo DEF MergedTo
  <2> QED
    BY <2>1, <2>2
<1>6. /\ Writers(docs, path) = {} => old = Nothing
      /\ \A last \in Writers(docs, path) :
           (\A i \in Writers(docs, path) : i <= last) =>
             DecidedBy(At(docs[last], path), old, docs, path)
  BY DEF IsMergeAt, DecidedBy, Overwrites
<1> HIDE DEF all, new, old, merged
<1>7. SUFFICES
        /\ Writers(all, path) = {} => merged = Nothing
        /\ \A last \in Writers(all, path) :
             (\A i \in Writers(all, path) : i <= last) =>
               DecidedBy(At(all[last], path), merged, all, path)
  BY <1>7 DEF IsMergeAt, DecidedBy, Overwrites, all, merged
<1>8. ~ Overwrites(path) =>
        /\ ~ IsList(old) => Appended(docs, path) = {}
        /\ IsList(old) => Concatenates(old.list, docs, path)
  <2> HIDE DEF t
  <2> QED
    BY <1>3, <1>5, <1>6, LastWriter
<1>9. \A i \in Appended(docs, path) : At(docs[i], path).list \in Seq(Item)
  <2>1. \A i \in Appended(docs, path) :
          i \in Writers(docs, path) /\ IsList(At(docs[i], path))
    <3>1. \A i \in Writers(docs, path) : i >= i
      BY <1>4
    <3> QED
      BY <3>1 DEF Appended
  <2> QED
    BY <1>5, <2>1, Kinds
<1>10. \A i \in Writers(docs, path) : At(all[i], path) = At(docs[i], path)
  BY <1>4
<1>11. CASE Cuts(doc, path)
  BY <1>1, <1>2, <1>4, <1>11 DEF MergedTo
<1>12. CASE ~ Cuts(doc, path) /\ new = Nothing
  <2>1. merged = old /\ Writers(all, path) = Writers(docs, path)
    BY <1>1, <1>4, <1>12 DEF MergedTo
  <2>2. Appended(all, path) = Appended(docs, path)
    BY <1>10, <2>1 DEF Appended
  <2>3. ASSUME IsList(old), Concatenates(old.list, docs, path)
        PROVE  Concatenates(old.list, all, path)
    <3>1. old.list \in Seq(Item)
      BY <1>3, <2>3, Kinds
    <3>2. << >> \in Seq(Item) /\ old.list \o << >> = old.list
      BY <3>1
    <3>3. Concatenates(old.list \o << >>, all, path)
      BY <1>9, <2>2, <2>3, <3>1, <3>2, OneMorePart DEF all
    <3> QED
      BY <3>2, <3>3
  <2> QED
    <3> SUFFICES ASSUME NEW last \in Writers(docs, path),
                        \A i \in Writers(docs, path) : i <= last
                 PROVE  DecidedBy(At(all[last], path), old, all, path)
      BY <1>6, <2>1
    <3>1. PICK value \in Value :
            value = At(docs[last], path) /\ value = At(all[last], path)
      BY <1>5, <1>10
    <3>2. DecidedBy(value, old, docs, path)
      BY <1>6, <3>1
    <3>3. DecidedBy(value, old, all, path)
      BY <2>3, <3>2, Decided
    <3> QED
      BY <3>1, <3>3
<1>13. CASE new # Nothing
  <2>1. Writers(all, path) = Writers(docs, path) \cup {t + 1}
    BY <1>4, <1>13
  <2>2. \A last \in Writers(all, path) :
          (\A i \in Writers(all, path) : i <= last) => last = t + 1
    BY <1>4, <2>1
  <2>3. At(all[t + 1], path) = new
    BY <1>4 DEF new
  <2>4. ASSUME ~ IsMap(new), IsList(new), ~ Overwrites(path)
        PROVE  IsList(merged) /\ Concatenates(merged.list, all, path)
    <3>1. new.list \in Seq(Item)
      BY <1>2, <1>13, <2>4, Kinds
    <3>2. Appended(all, path) =
            {i \in Writers(docs, path) : \A j \in Writers(docs, path) :
               j >= i => IsList(At(docs[j], path))} \cup {t + 1}
      <4>1. \A i \in Writers(docs, path) : t + 1 >= i /\ ~ i >= t + 1
        BY <1>4
      <4>2. t + 1 >= t + 1
        BY <1>4
      <4> HIDE DEF t
      <4> QED
        BY <1>10, <2>1, <2>3, <2>4, <4>1, <4>2 DEF Appended
    <3>3. Appended(all, path) = Appended(docs, path) \cup {t + 1}
      BY <3>2 DEF Appended
    <3>4. CASE IsList(old)
      <4>1. merged = [list |-> old.list \o new.list]
        BY <1>1, <2>4, <3>4 DEF MergedTo
      <4>2. Concatenates(old.list, docs, path) /\ old.list \in Seq(Item)
        BY <1>3, <1>8, <2>4, <3>4, Kinds
      <4>3. Concatenates(old.list \o new.list, all, path)
        BY <1>9, <3>1, <3>3, <4>2, OneMorePart DEF all, new
      <4> QED
        BY <4>1, <4>3, Kinds
    <3>5. CASE ~ IsList(old)
      <4>1. merged = new
        BY <1>1, <1>13, <2>4, <3>5 DEF MergedTo
      <4>2. Appended(docs, path) = {}
        BY <1>8, <2>4, <3>5
      <4>3. << >> \in Seq(Item) /\ << >> \o new.list = new.list
        BY <3>1
      <4>4. Concatenates(<< >>, docs, path)
        <5>2. Len(<< >>) = 0
          OBVIOUS
        <5> QED
          <6> HIDE DEF t
          <6> DEFINE end == [i \in 0..t |-> 0]
          <6>1. /\ end \in [0..t -> 0..0] /\ end[0] = 0 /\ end[t] = 0
                /\ \A i \in 1..t : end[i] = end[i - 1]
            BY <1>4
          <6> HIDE DEF end
          <6> QED
            BY <4>2, <5>2, <6>1 DEF Concatenates, t
      <4>5. Concatenates(<< >> \o new.list, all, path)
        BY <1>9, <3>1, <3>3, <4>3, <4>4, OneMorePart DEF all, new
      <4> QED
        BY <2>4, <4>1, <4>3, <4>5
    <3> QED
      BY <3>4, <3>5
  <2>5. /\ IsMap(new) => IsMap(merged)
        /\ ~ IsMap(new) /\ ~ (IsList(new) /\ ~ Overwrites(path)) => merged = new
    BY <1>1, <1>13 DEF MergedTo
  <2> QED
    <3>1. new \in Value
      BY <1>2, <1>13
    <3>2. DecidedBy(new, merged, all, path)
      BY <2>4, <2>5, <3>1, Decided
    <3> QED
      BY <2>1, <2>2, <2>3, <3>2
<1> QED
  BY <1>11, <1>12, <1>13

-------------------------------------------------------------------------------
(***************************************************************************)
(* The container, again.                                                   *)
(***************************************************************************)

\* A file whose variables all have values becomes a document.
RendersDocuments ==
  \A file \in Contents, s \in [Environment -> SecretValues \cup {Missing}] :
    /\ file # Missing /\ file # Invalid
    /\ VariablesOf(file) \subseteq Environment
    /\ \A x \in VariablesOf(file) : s[x] # Missing
    => Substitute(file, s) \in Document

MergesDocuments ==
  /\ Empty = EmptyDocument
  /\ DocumentsHold
  /\ MergesByLevel
  /\ RendersDocuments

\* At every moment the output is the merge of what has been read.
MergedSoFar ==
  /\ read \in Seq(Document)
  /\ output \in Document
  /\ \A path \in Paths : IsMergeAt(path, output, read, ArrayOverwriteKeys)

LEMMA PathLength ==
  ASSUME NEW path \in Paths
  PROVE  Len(path) \in Nat /\ Len(path) > 0
<1>1. path \in Seq(STRING) /\ path # << >>
  BY RenderConfigAssumption
<1> QED
  BY <1>1

LEMMA NothingMerged ==
  ASSUME MergesDocuments, NEW docs, docs = << >>, NEW merged, merged = Empty
  PROVE  /\ docs \in Seq(Document)
         /\ merged \in Document
         /\ \A path \in Paths : IsMergeAt(path, merged, docs, ArrayOverwriteKeys)
<1>1. \A path \in Paths : IsMergeAt(path, EmptyDocument, << >>, ArrayOverwriteKeys)
  BY PathLength, NoDocuments
<1>2. << >> \in Seq(Document)
  OBVIOUS
<1> QED
  BY <1>1, <1>2 DEF MergesDocuments, DocumentsHold

LEMMA RenderMerges ==
  ASSUME MergesDocuments, IInv, MergedSoFar, Render
  PROVE  MergedSoFar'
<1> DEFINE file == opened[Len(read) + 1]
           doc  == Substitute(file, secrets)
<1>1. CASE ~ Renders(file)
  <2>1. UNCHANGED <<read, output>>
    BY <1>1 DEF Render
  <2> QED
    BY <2>1 DEF MergedSoFar
<1>2. CASE Renders(file)
  <2>1. /\ read' = Append(read, doc)
        /\ output' = Merge(doc, output, ArrayOverwriteKeys)
    BY <1>2 DEF Render
  <2>2. doc \in Document
    <3>1. /\ Len(read) \in Nat /\ Len(read) < N /\ Len(opened) = N /\ N \in Nat
          /\ opened \in Seq(Contents)
          /\ \A i \in DOMAIN opened : opened[i] \in Sources[i] \ {Missing}
      BY NType DEF IInv, TypeOK, Progress, Render
    <3>2. Len(read) + 1 \in 1..N /\ DOMAIN opened = 1..N
      BY <3>1
    <3>3. file \in Contents /\ file # Missing
      BY <3>1, <3>2
    <3>4. secrets \in [Environment -> SecretValues \cup {Missing}]
      BY DEF IInv, TypeOK
    <3> QED
      BY <1>2, <3>3, <3>4 DEF Renders, MergesDocuments, RendersDocuments
  <2>3. read \in Seq(Document) /\ output \in Document
    BY DEF MergedSoFar
  <2> HIDE DEF doc
  <2>4. read' \in Seq(Document)
    BY <2>1, <2>2, <2>3
  <2>5. output' \in Document
    BY <2>1, <2>2, <2>3 DEF MergesDocuments, MergesByLevel
  <2>6. ASSUME NEW path \in Paths
        PROVE  IsMergeAt(path, output', read', ArrayOverwriteKeys)
    <3>1. IsMergeAt(path, output, read, ArrayOverwriteKeys)
      BY DEF MergedSoFar
    <3> QED
      BY <2>1, <2>2, <2>3, <3>1, PathLength, OneMoreDocument DEF MergesDocuments
  <2> QED
    BY <2>4, <2>5, <2>6 DEF MergedSoFar
<1> QED
  BY <1>1, <1>2

LEMMA MergedStep ==
  ASSUME MergesDocuments, IInv, MergedSoFar, [Next]_vars
  PROVE  MergedSoFar'
<1>1. CASE Render
  BY <1>1, RenderMerges
<1>2. CASE Restart \/ SandboxRestart
  <2>1. read' = << >> /\ output' = Empty
    BY <1>2 DEF Restart, SandboxRestart, StartAgain
  <2> QED
    BY <2>1, NothingMerged DEF MergedSoFar
<1>3. CASE UNCHANGED <<read, output>>
  BY <1>3 DEF MergedSoFar
<1>4. \/ Render \/ Restart \/ SandboxRestart \/ UNCHANGED <<read, output>>
  BY DEF Next, vars, Stat, Open, Write, Exit, Kill, ChangeFile, ChangeSecret, Change
<1> QED
  BY <1>1, <1>2, <1>3, <1>4

LEMMA InitMerged ==
  ASSUME MergesDocuments, Init
  PROVE  MergedSoFar
BY NothingMerged DEF Init, MergedSoFar

\* Whatever the files contain and however many there are, the loop leaves at
\* every path what the comment on RenderConfig says: the last file that has a
\* say wins, maps are joined, arrays appended, but for those at the top level
\* whose keys are named.
THEOREM MergesAsDocumented ==
  ASSUME MergesDocuments
  PROVE  Spec => []MergeIsReference
<1>1. Init => MergedSoFar
  BY InitMerged
<1>2. IInv /\ MergedSoFar /\ [Next]_vars => MergedSoFar'
  BY MergedStep
<1>3. MergedSoFar => MergeIsReference
  BY DEF MergedSoFar, MergeIsReference
<1> QED
  BY <1>1, <1>2, <1>3, Invariant, PTL DEF Spec

\* What the chart's overrides, the last of the files, say at a path.
Overrides(path) == At(read[N], path)

\* The overrides have the last word in what the main container reads: a scalar
\* of theirs is there as it is, and so is a list under a key that is named, and
\* where they have a map there is one.
OverridesPrevail ==
  pc = "running" =>
    \A path \in Paths :
      /\ IsMap(Overrides(path)) => IsMap(At(conf.config, path))
      /\ /\ Overrides(path) # Nothing /\ ~ IsMap(Overrides(path))
         /\ IsList(Overrides(path)) => Overwrites(path)
         => At(conf.config, path) = Overrides(path)

LEMMA OverridesFromMerge ==
  ASSUME MergesDocuments, IInv, MergedSoFar
  PROVE  OverridesPrevail
<1> SUFFICES ASSUME pc = "running", NEW path \in Paths, Overrides(path) # Nothing
             PROVE  /\ IsMap(Overrides(path)) => IsMap(At(conf.config, path))
                    /\ /\ ~ IsMap(Overrides(path))
                       /\ IsList(Overrides(path)) => Overwrites(path)
                       => At(conf.config, path) = Overrides(path)
  BY Kinds DEF OverridesPrevail
<1>1. /\ Len(read) = N /\ N \in Nat /\ N > 0 /\ read \in Seq(Document)
      /\ conf.config = output
  BY NType DEF IInv, Progress, MergedSoFar, Whole
<1>2. DOMAIN read = 1..N /\ N \in 1..N /\ \A j \in 1..N : ~ j > N /\ j <= N
  BY <1>1
<1>3. N \in Writers(read, path) /\ \A i \in Writers(read, path) : i <= N
  BY <1>2 DEF Writers, Overrides
<1>4. PICK value \in Value : value = At(read[N], path)
  <2>1. read[N] \in Document
    BY <1>1, <1>2
  <2>2. At(read[N], path) \in Value \cup {Nothing}
    BY <2>1, PathLength, MergeOfTwo DEF MergesDocuments, MergedTo
  <2> QED
    BY <2>2 DEF Overrides
<1>5. DecidedBy(value, At(output, path), read, path)
  <2>1. IsMergeAt(path, output, read, ArrayOverwriteKeys)
    BY DEF MergedSoFar
  <2> QED
    BY <1>3, <1>4, <2>1 DEF IsMergeAt, DecidedBy, Overwrites
<1> QED
  BY <1>1, <1>4, <1>5, Decided DEF Overrides

\* No file of the user takes back what the chart overrides, however the
\* container was restarted on the way.
THEOREM OverridesHaveTheLastWord ==
  ASSUME MergesDocuments
  PROVE  Spec => []OverridesPrevail
<1>1. Init => MergedSoFar
  BY InitMerged
<1>2. IInv /\ MergedSoFar /\ [Next]_vars => MergedSoFar'
  BY MergedStep
<1>3. IInv /\ MergedSoFar => OverridesPrevail
  BY OverridesFromMerge
<1> QED
  BY <1>1, <1>2, <1>3, Invariant, PTL DEF Spec
===============================================================================
