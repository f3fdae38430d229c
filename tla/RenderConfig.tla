----------------------------- MODULE RenderConfig -----------------------------
(***************************************************************************)
(* matrix-tools render-config: the init container that merges the          *)
(* underrides, the user's files and the overrides of a component into the  *)
(* one file that the main container reads.                                 *)
(*                                                                         *)
(* The files are mounted from ConfigMaps and Secrets, and so are the       *)
(* secrets that the variables in them read; the kubelet may replace each   *)
(* of them, or provide it late.  The container opens all files, and then   *)
(* reads, substitutes and merges one after the other.  It may be killed at *)
(* any step, it is restarted until it succeeds, and it is run again when   *)
(* the pod's sandbox is, with the file of the earlier run still there.     *)
(***************************************************************************)
EXTENDS Documents

CONSTANTS
  VariablesOf(_),      \* what renderer.go does with documents: the variables
                       \* of one, the document with their values in their
  Substitute(_, _),    \* places, and its merge into what was merged before
  Merge(_, _, _),
  Empty,               \* the document without a key
  Sources,             \* for each file on the command line, in order, what
                       \* it may contain
  ArrayOverwriteKeys,  \* -array-overwrite-keys
  Environment,         \* the variables that are set; each reads a secret
  SecretValues,        \* what a secret may contain
  Missing,             \* a file that is not there
  Invalid,             \* a file that is no YAML
  Paths,               \* the paths at which the result is looked at
  MaxChanges,          \* bound on the changes of what is mounted
  MaxFaults            \* bound on kills, errors and restarts of the sandbox

\* The chart always names its underrides and its overrides.
ASSUME RenderConfigAssumption ==
  /\ Sources \in Seq(SUBSET UNION {Sources[i] : i \in DOMAIN Sources})
  /\ Len(Sources) > 0
  /\ Missing # Invalid
  /\ Missing \notin SecretValues
  /\ \A path \in Paths : path \in Seq(STRING) /\ path # << >>
  /\ MaxChanges \in Nat /\ MaxFaults \in Nat

VARIABLES
  mounted,    \* the files
  secrets,    \* the secrets that the variables read
  pc,         \* the next step of the container
  opened,     \* the files opened so far: a file that is replaced stays as it is
              \* for those who have opened it
  read,       \* the documents merged so far
  output,     \* what they have been merged to
  conf,       \* the output file
  changed,    \* something mounted has changed since the container started
  changes,    \* such changes so far
  faults      \* faults so far

vars == <<mounted, secrets, pc, opened, read, output, conf, changed, changes,
          faults>>

N == Len(Sources)

Contents == UNION {Sources[i] : i \in 1..N}

PC      == {"stat", "open", "render", "write", "exit", "failed", "running"}
Working == {"stat", "open", "render", "write", "exit"}

Absent  == [file |-> "absent"]
Partial == [file |-> "partial"]
Whole(config) == [file |-> "whole", config |-> config]

Init ==
  /\ mounted \in {m \in [1..N -> Contents] :
                    \A i \in 1..N : m[i] \in Sources[i]}
  /\ secrets \in [Environment -> SecretValues \cup {Missing}]
  /\ pc = "stat"
  /\ opened = << >>
  /\ read = << >>
  /\ output = Empty
  /\ conf = Absent
  /\ changed = FALSE
  /\ changes = 0
  /\ faults = 0
-------------------------------------------------------------------------------
Fault ==
  /\ faults < MaxFaults
  /\ faults' = faults + 1

\* Faulty: a file that is there is taken for the result.
StatAndKeep ==
  /\ pc = "stat"
  /\ pc' = IF conf = Absent THEN "open" ELSE "exit"
  /\ UNCHANGED <<mounted, secrets, opened, read, output, conf, changed, changes,
                 faults>>

\* Faulty: nobody removes the file.
StatOnly ==
  /\ pc = "stat"
  /\ pc' = "open"
  /\ UNCHANGED <<mounted, secrets, opened, read, output, conf, changed, changes,
                 faults>>

\* A file that is there is removed.  When Stat fails for another reason than
\* that there is none, the code goes on as if there were none.  An error of
\* Remove is a Kill.
Stat ==
  /\ pc = "stat"
  /\ pc' = "open"
  /\ \/ conf' = Absent /\ UNCHANGED faults
     \/ Fault /\ UNCHANGED conf
  /\ UNCHANGED <<mounted, secrets, opened, read, output, changed, changes>>

\* Faulty: the error is only logged.
OpenAnyway ==
  /\ pc = "open"
  /\ opened' = Append(opened, mounted[Len(opened) + 1])
  /\ pc' = IF Len(opened') = N THEN "render" ELSE "open"
  /\ UNCHANGED <<mounted, secrets, read, output, conf, changed, changes,
                 faults>>

\* readFiles, one file at a time.
Open ==
  /\ pc = "open"
  /\ LET file == mounted[Len(opened) + 1] IN
       IF file = Missing
       THEN pc' = "failed" /\ UNCHANGED opened
       ELSE /\ opened' = Append(opened, file)
            /\ pc' = IF Len(opened') = N THEN "render" ELSE "open"
  /\ UNCHANGED <<mounted, secrets, read, output, conf, changed, changes,
                 faults>>

\* Every variable is set, and what it reads is there.
Renders(file) ==
  /\ file # Invalid
  /\ VariablesOf(file) \subseteq Environment
  /\ \A x \in VariablesOf(file) : secrets[x] # Missing

\* One turn of the loop of RenderConfig.
Render ==
  /\ pc = "render"
  /\ LET file == opened[Len(read) + 1] IN
       IF Renders(file)
       THEN LET doc == Substitute(file, secrets) IN
              /\ read' = Append(read, doc)
              /\ output' = Merge(doc, output, ArrayOverwriteKeys)
              /\ pc' = IF Len(read') = N THEN "write" ELSE "render"
       ELSE pc' = "failed" /\ UNCHANGED <<read, output>>
  /\ UNCHANGED <<mounted, secrets, opened, conf, changed, changes, faults>>

\* Faulty: the error of WriteFile is only logged.
WriteAnyway ==
  /\ pc = "write"
  /\ \/ /\ conf = Absent
        /\ conf' = Whole(output)
        /\ UNCHANGED faults
     \/ /\ conf # Absent
        /\ UNCHANGED <<conf, faults>>
     \/ /\ conf = Absent
        /\ Fault
        /\ conf' = Partial
  /\ pc' = "exit"
  /\ UNCHANGED <<mounted, secrets, opened, read, output, changed, changes>>

\* The file is created with mode 0440: it cannot be written a second time.
Write ==
  /\ pc = "write"
  /\ \/ /\ conf = Absent
        /\ conf' = Whole(output)
        /\ pc' = "exit"
        /\ UNCHANGED faults
     \/ /\ conf # Absent
        /\ pc' = "failed"
        /\ UNCHANGED <<conf, faults>>
     \/ /\ conf = Absent
        /\ Fault
        /\ conf' = Partial
        /\ pc' = "failed"
  /\ UNCHANGED <<mounted, secrets, opened, read, output, changed, changes>>

\* The container has succeeded and the main container starts.
Exit ==
  /\ pc = "exit"
  /\ pc' = "running"
  /\ UNCHANGED <<mounted, secrets, opened, read, output, conf, changed, changes,
                 faults>>
-------------------------------------------------------------------------------
Kill ==
  /\ pc \in Working
  /\ Fault
  /\ pc' = "failed"
  /\ UNCHANGED <<mounted, secrets, opened, read, output, conf, changed,
                 changes>>

StartAgain ==
  /\ pc' = "stat"
  /\ opened' = << >>
  /\ read' = << >>
  /\ output' = Empty
  /\ changed' = FALSE
  /\ UNCHANGED <<mounted, secrets, conf, changes>>

Restart ==
  /\ pc = "failed"
  /\ StartAgain
  /\ UNCHANGED faults

\* All containers of the pod are started again.
SandboxRestart ==
  /\ pc = "running"
  /\ Fault
  /\ StartAgain

Change ==
  /\ changes < MaxChanges
  /\ changes' = changes + 1
  /\ changed' = TRUE
  /\ UNCHANGED <<pc, opened, read, output, conf, faults>>

ChangeFile(i) ==
  /\ Change
  /\ \E content \in Sources[i] \ {mounted[i]} :
       mounted' = [mounted EXCEPT ![i] = content]
  /\ UNCHANGED secrets

ChangeSecret(x) ==
  /\ Change
  /\ \E content \in (SecretValues \cup {Missing}) \ {secrets[x]} :
       secrets' = [secrets EXCEPT ![x] = content]
  /\ UNCHANGED mounted

Container == Stat \/ Open \/ Render \/ Write \/ Exit \/ Restart

Next ==
  \/ Stat
  \/ Open
  \/ Render
  \/ Write
  \/ Exit
  \/ Kill
  \/ Restart
  \/ SandboxRestart
  \/ \E i \in 1..N : ChangeFile(i)
  \/ \E x \in Environment : ChangeSecret(x)

Spec == Init /\ [][Next]_vars

(***************************************************************************)
(* The container runs on, and the kubelet restarts it and starts the main  *)
(* container.                                                              *)
(***************************************************************************)
FairSpec == Spec /\ WF_vars(Container)
-------------------------------------------------------------------------------
(***************************************************************************)
(* Properties                                                              *)
(***************************************************************************)

\* The type of every variable, as far as it is not that of a document.
TypeOK ==
  /\ mounted \in [1..N -> Contents]
  /\ \A i \in 1..N : mounted[i] \in Sources[i]
  /\ secrets \in [Environment -> SecretValues \cup {Missing}]
  /\ pc \in PC
  /\ opened \in Seq(Contents)
  /\ Len(opened) <= N /\ Len(read) <= Len(opened)
  /\ \A i \in DOMAIN opened : opened[i] \in Sources[i] \ {Missing}
  /\ conf.file \in {"absent", "partial", "whole"}
  /\ changed \in BOOLEAN
  /\ changes \in 0..MaxChanges
  /\ faults \in 0..MaxFaults

\* The merge, file by file and in place, computes what the comment on
\* RenderConfig says: at every path the last file that has a say wins, maps
\* are joined, arrays appended, and only arrays at the top level whose keys
\* are named are overwritten.
MergeIsReference ==
  pc \in {"render", "write"} =>
    \A path \in Paths : IsMergeAt(path, output, read, ArrayOverwriteKeys)

\* The main container reads the complete merge of all files by one run of
\* the init container, never part of a file nor one that an earlier run has
\* left behind.
RunsOnWholeConfig ==
  pc = "running" =>
    /\ Len(read) = N
    /\ conf = Whole(output)

\* File i is there and everything in it can be read.
InOrder(i) == mounted[i] # Missing /\ Renders(mounted[i])

\* It is not stale: when nothing mounted has changed since the container
\* started - in particular after a change that made the pod start again -
\* the main container has what is mounted.
RunsOnMountedConfig ==
  pc = "running" /\ ~ changed =>
    /\ \A i \in 1..N : InOrder(i)
    /\ read = [i \in 1..N |-> Substitute(mounted[i], secrets)]

\* The pod comes up once all that is mounted is there and in order, whatever
\* kills and failures before that have left behind.
PodStarts == <>[](\A i \in 1..N : InOrder(i)) => <>[](pc = "running")
===============================================================================
