----------------------------- MODULE StartupProof -----------------------------
(***************************************************************************)
(* Proofs about Startup, for any files, any passwords and any number of    *)
(* crashes and changes.                                                    *)
(*                                                                         *)
(* The two runs of the script are kept apart by the server: the entrypoint *)
(* is in it only on the server without a port, and then the updater still  *)
(* waits (Boot).  So what one of them has found out about the role and the *)
(* database still holds when it acts on it, unless the server has crashed  *)
(* under it (Undisturbed), and what it has done stays done (Achieved).     *)
(*                                                                         *)
(* The component's pod is that of RenderConfig: every step but its         *)
(* replacement is a step of RenderConfig or none, so that the invariant of *)
(* RenderConfigProof holds here, too, and carries what is said of the      *)
(* configuration and the password in it (Rendered).                        *)
(***************************************************************************)
EXTENDS Startup, RenderConfigProof

Typed ==
  /\ secrets \in [Environment -> Passwords]
  /\ StartupTypeOK

Boot ==
  /\ ~ initialised => server = "down" /\ at["updater"] = "wait" /\ ~ waited
  /\ at["entrypoint"] \in InScript \cup {"idle", "done"}
  /\ at["entrypoint"] \in InScript => server = "init"
  /\ server = "init" => at["updater"] = "wait" /\ ~ waited
  /\ waited => at["entrypoint"] \notin InScript
  /\ crashes = 0 /\ at["updater"] # "wait" => server = "up"

Undisturbed ==
  \A s \in Scripts :
    s = "entrypoint" \/ crashes = 0 =>
      /\ at[s] # "aborted"
      /\ at[s] = "create" => role = None
      /\ at[s] = "createdb" => ~ database

Achieved ==
  \A s \in Scripts :
    /\ at[s] \in {"datname", "createdb", "done"} => role # None
    /\ at[s] = "done" => database

Told ==
  hashed /\ "postgres" \notin stale =>
    /\ at["updater"] \in {"select", "alter", "create"} =>
         ess["updater"] = secrets[PASSWORD]
    /\ at["updater"] \in {"datname", "createdb", "done"} =>
         role = secrets[PASSWORD]

StartupInv == Typed /\ Boot /\ Undisturbed /\ Achieved /\ Told

\* The constants.
LEMMA Assumed ==
  /\ PASSWORD \in Environment
  /\ None \notin Passwords
  /\ Missing \in Passwords
  /\ MaxCrashes \in Nat
BY StartupAssumption DEF Passwords

LEMMA InitStartupInv == StartupInit => StartupInv
<1> SUFFICES ASSUME StartupInit PROVE StartupInv
  OBVIOUS
<1>0. secrets \in [Environment -> Passwords]
  BY DEF StartupInit, Init, Passwords
<1>1. secrets[PASSWORD] \in Passwords
  BY <1>0, Assumed
<1>a. \E place : /\ at = [entrypoint |-> "idle", updater |-> place]
                 /\ place \in {"wait", "done"}
  BY DEF StartupInit, StartTogether, InService
<1>b. at \in [Scripts -> {"idle", "wait", "done"}]
  <2>1. PICK place : /\ at = [entrypoint |-> "idle", updater |-> place]
                     /\ place \in {"wait", "done"}
    BY <1>a
  <2>2. at = [s \in Scripts |-> IF s = "updater" THEN place ELSE "idle"]
    BY <2>1 DEF Scripts
  <2> QED
    BY <2>1, <2>2
<1>2. Typed
  <2>1. role \in Passwords \cup {None} /\ database \in BOOLEAN
        /\ initialised \in BOOLEAN /\ server \in {"down", "init", "up"}
    BY <1>1 DEF StartupInit, StartTogether, InService
  <2>2. at \in [Scripts -> Places]
    BY <1>b DEF Places
  <2>3. ess \in [Scripts -> Passwords]
    BY Assumed DEF StartupInit
  <2> QED
    BY <1>0, <2>1, <2>2, <2>3, Assumed DEF StartupInit, Typed, StartupTypeOK
<1>3. /\ at["entrypoint"] = "idle"
      /\ at["updater"] = "wait" \/ /\ at["updater"] = "done"
                                   /\ InService
  BY DEF StartupInit, StartTogether, InService
<1>4. Boot
  BY <1>3 DEF StartupInit, StartTogether, InService, Boot, InScript
<1>5. Undisturbed /\ Achieved /\ Told
  BY <1>1, <1>3, Assumed DEF InService, Undisturbed, Achieved, Told, Scripts
<1> QED
  BY <1>2, <1>4, <1>5 DEF StartupInv

\* A step of the component's pod, or a change of what it reads: the server
\* and the scripts do not notice.
LEMMA ComponentKeeps ==
  ASSUME StartupInv,
         UNCHANGED <<databaseVars, hashed, crashes>>,
         stale' \subseteq Pods,
         secrets' \in [Environment -> Passwords],
         password' \in Passwords,
         waited' \in BOOLEAN, waited' => waited \/ server = "up",
         \/ secrets'[PASSWORD] = secrets[PASSWORD] /\ ("postgres" \in stale => "postgres" \in stale')
         \/ ~ hashed \/ "postgres" \in stale'
  PROVE  StartupInv'
<1>1. Typed'
  BY DEF StartupInv, Typed, StartupTypeOK, databaseVars
<1>2. Boot'
  BY DEF StartupInv, Boot, databaseVars, InScript
<1>3. Undisturbed' /\ Achieved'
  BY DEF StartupInv, Undisturbed, Achieved, databaseVars
<1>4. Told'
  BY DEF StartupInv, Told, databaseVars
<1> QED
  BY <1>1, <1>2, <1>3, <1>4 DEF StartupInv

LEMMA StartServerKeeps == StartupInv /\ StartServer => StartupInv'
<1> SUFFICES ASSUME StartupInv, StartServer PROVE StartupInv'
  OBVIOUS
<1>1. Typed'
  BY DEF StartupInv, Typed, StartupTypeOK, StartServer, vars, Scripts, Places,
     InScript
<1>2. Boot'
  BY <1>1 DEF StartupInv, Typed, StartupTypeOK, Boot, StartServer, vars, Scripts,
     InScript
<1>3. Undisturbed' /\ Achieved' /\ Told'
  BY DEF StartupInv, Typed, StartupTypeOK, Undisturbed, Achieved, Told,
     StartServer, vars, Scripts
<1> QED
  BY <1>1, <1>2, <1>3 DEF StartupInv

LEMMA OpenPortKeeps == StartupInv /\ OpenPort => StartupInv'
BY DEF StartupInv, Typed, StartupTypeOK, Boot, Undisturbed, Achieved, Told,
   OpenPort, vars, InScript

LEMMA CrashKeeps == StartupInv /\ Crash => StartupInv'
<1> SUFFICES ASSUME StartupInv, Crash PROVE StartupInv'
  OBVIOUS
<1>0. crashes' # 0 /\ crashes' \in 0..MaxCrashes
  BY Assumed DEF StartupInv, Typed, StartupTypeOK, Crash
<1>1. Typed'
  BY <1>0 DEF StartupInv, Typed, StartupTypeOK, Crash, vars, Scripts, Places,
     InScript
<1>2. Boot'
  BY <1>0 DEF StartupInv, Typed, StartupTypeOK, Boot, Crash, vars, Scripts,
     InScript
<1>3. Undisturbed' /\ Achieved' /\ Told'
  BY <1>0 DEF StartupInv, Typed, StartupTypeOK, Undisturbed, Achieved, Told,
     Crash, vars, Scripts
<1> QED
  BY <1>1, <1>2, <1>3 DEF StartupInv

LEMMA ReadyKeeps == StartupInv /\ Ready => StartupInv'
<1> SUFFICES ASSUME StartupInv, Ready PROVE StartupInv'
  OBVIOUS
<1>1. Typed'
  BY DEF StartupInv, Typed, StartupTypeOK, Ready, vars, Scripts, Places, InScript
<1>2. Boot'
  BY DEF StartupInv, Typed, StartupTypeOK, Boot, Ready, vars, Scripts, InScript
<1>3. Undisturbed' /\ Achieved' /\ Told'
  BY DEF StartupInv, Typed, StartupTypeOK, Undisturbed, Achieved, Told, Ready,
     vars, Scripts
<1> QED
  BY <1>1, <1>2, <1>3 DEF StartupInv

LEMMA RestartUpdaterKeeps == StartupInv /\ RestartUpdater => StartupInv'
<1> SUFFICES ASSUME StartupInv, RestartUpdater PROVE StartupInv'
  OBVIOUS
<1>1. Typed'
  BY DEF StartupInv, Typed, StartupTypeOK, RestartUpdater, vars, Scripts, Places,
     InScript
<1>2. Boot'
  BY DEF StartupInv, Typed, StartupTypeOK, Boot, RestartUpdater, vars, Scripts,
     InScript
<1>3. Undisturbed' /\ Achieved' /\ Told'
  BY DEF StartupInv, Typed, StartupTypeOK, Undisturbed, Achieved, Told,
     RestartUpdater, vars, Scripts
<1> QED
  BY <1>1, <1>2, <1>3 DEF StartupInv

LEMMA ReplacePostgresKeeps == StartupInv /\ ReplacePostgres => StartupInv'
<1> SUFFICES ASSUME StartupInv, ReplacePostgres PROVE StartupInv'
  OBVIOUS
<1>0. /\ at' = [s \in Scripts |-> IF s = "updater" THEN "wait" ELSE "idle"]
      /\ at'["updater"] = "wait" /\ at'["entrypoint"] = "idle"
  BY DEF ReplacePostgres, Scripts
<1>1. Typed'
  BY <1>0 DEF StartupInv, Typed, StartupTypeOK, ReplacePostgres, vars, Scripts,
     Places, Pods
<1>2. Boot'
  BY <1>0 DEF StartupInv, Boot, ReplacePostgres, vars, InScript
<1>3. Undisturbed' /\ Achieved' /\ Told'
  BY <1>0 DEF Undisturbed, Achieved, Told, Scripts
<1> QED
  BY <1>1, <1>2, <1>3 DEF StartupInv

\* Only one of them is in the script, and has its server.
LEMMA OneScript ==
  ASSUME StartupInv, NEW s \in Scripts, at[s] \in InScript
  PROVE  /\ \A t \in Scripts \ {s} : at[t] \notin InScript
         /\ s = "entrypoint" \/ crashes = 0 => Reaches(s)
         /\ s = "entrypoint" => at["updater"] = "wait"
BY DEF StartupInv, Boot, Scripts, InScript, Reaches

\* A step of the script to a place in or after it: what is left to show is
\* what the step itself does to the role and the database.
LEMMA GoesKeeps ==
  ASSUME StartupInv, NEW s \in Scripts, NEW from \in InScript,
         NEW to \in InScript \cup {"done", "aborted"}, Goes(s, from, to),
         s = "entrypoint" => to # "aborted",
         role' \in Passwords \cup {None}, database' \in BOOLEAN,
         ess' \in [Scripts -> Passwords]
  PROVE  /\ Typed' /\ Boot'
         /\ at' = [at EXCEPT ![s] = to]
         /\ at'[s] = to
         /\ at[s] = from
         /\ \A t \in Scripts \ {s} : at'[t] = at[t] /\ at'[t] \notin InScript
         /\ UNCHANGED <<secrets, hashed, stale, crashes>>
<1>0. at \in [Scripts -> Places]
  BY DEF StartupInv, Typed, StartupTypeOK
<1>1. at' = [at EXCEPT ![s] = to] /\ at[s] = from /\ at'[s] = to
  BY <1>0 DEF Goes
<1>2. \A t \in Scripts \ {s} : at'[t] = at[t] /\ at'[t] \notin InScript
  BY <1>0, <1>1, OneScript
<1>3. UNCHANGED <<secrets, server, initialised, waited, password, hashed, stale,
                 crashes>>
  BY DEF Goes, vars
<1>4. to \in Places
  BY DEF Places
<1>5. Typed'
  BY <1>0, <1>1, <1>3, <1>4 DEF StartupInv, Typed, StartupTypeOK
<1>6. Boot'
  <2>1. CASE s = "entrypoint"
    BY <2>1, <1>0, <1>1, <1>2, <1>3 DEF StartupInv, Boot, Scripts, InScript
  <2>2. CASE s = "updater"
    BY <2>2, <1>0, <1>1, <1>2, <1>3 DEF StartupInv, Boot, Scripts, InScript
  <2> QED
    BY <2>1, <2>2 DEF Scripts
<1> QED
  BY <1>1, <1>2, <1>3, <1>5, <1>6

LEMMA ReadPasswordKeeps ==
  ASSUME StartupInv, NEW s \in Scripts, ReadPassword(s)
  PROVE  StartupInv'
<1>0. /\ role \in Passwords \cup {None} /\ database \in BOOLEAN
      /\ ess \in [Scripts -> Passwords] /\ ess[s] \in Passwords /\ ess[s] # None
      /\ secrets[PASSWORD] \in Passwords
  BY Assumed DEF StartupInv, Typed, StartupTypeOK
<1>1. at[s] = "read" /\ at[s] \in InScript
  BY DEF ReadPassword, Goes, InScript
<1>2. /\ s = "entrypoint" \/ crashes = 0 => Reaches(s)
      /\ s = "entrypoint" => at["updater"] = "wait"
  BY <1>1, OneScript
<1>3. PICK to \in InScript \cup {"done", "aborted"} :
        /\ Goes(s, "read", to)
        /\ \/ to = "select" /\ ess' = [ess EXCEPT ![s] = secrets[PASSWORD]]
           \/ to = "aborted" /\ UNCHANGED ess /\ ~ Reaches(s)
        /\ UNCHANGED <<role, database>>
        /\ s = "entrypoint" \/ crashes = 0 => to # "aborted"
        /\ role' \in Passwords \cup {None} /\ database' \in BOOLEAN
        /\ ess' \in [Scripts -> Passwords]
  <2>1. CASE Goes(s, "read", "select") /\ ess' = [ess EXCEPT ![s] = secrets[PASSWORD]]
    <3>1. ess' \in [Scripts -> Passwords]
      BY <2>1, <1>0
    <3>2. UNCHANGED <<role, database>> /\ "select" \in InScript
      BY <2>1 DEF ReadPassword, InScript
    <3> QED
      BY <2>1, <3>1, <3>2, <1>0
  <2>2. CASE Goes(s, "read", "aborted") /\ ~ Reaches(s) /\ UNCHANGED ess
    <3>1. UNCHANGED <<role, database>>
      BY <2>2 DEF ReadPassword
    <3> QED
      BY <2>2, <3>1, <1>0, <1>2
  <2> QED
    BY <2>1, <2>2 DEF ReadPassword
<1>4. /\ Typed' /\ Boot'
      /\ at'[s] = to /\ at[s] = "read"
      /\ \A t \in Scripts \ {s} : at'[t] = at[t] /\ at'[t] \notin InScript
      /\ UNCHANGED <<secrets, hashed, stale, crashes>>
  BY <1>1, <1>3, GoesKeeps
<1>5. Undisturbed'
  BY <1>0, <1>2, <1>3, <1>4 DEF StartupInv, Undisturbed, InScript, Reaches
<1>6. Achieved'
  BY <1>0, <1>2, <1>3, <1>4 DEF StartupInv, Achieved, InScript
<1>7. Told'
  BY <1>0, <1>2, <1>3, <1>4 DEF StartupInv, Told, InScript, Scripts
<1> QED
  BY <1>4, <1>5, <1>6, <1>7 DEF StartupInv

LEMMA SelectRoleKeeps ==
  ASSUME StartupInv, NEW s \in Scripts, SelectRole(s)
  PROVE  StartupInv'
<1>0. /\ role \in Passwords \cup {None} /\ database \in BOOLEAN
      /\ ess \in [Scripts -> Passwords] /\ ess[s] \in Passwords /\ ess[s] # None
      /\ secrets[PASSWORD] \in Passwords
  BY Assumed DEF StartupInv, Typed, StartupTypeOK
<1>1. at[s] = "select" /\ at[s] \in InScript
  BY DEF SelectRole, Goes, InScript
<1>2. /\ s = "entrypoint" \/ crashes = 0 => Reaches(s)
      /\ s = "entrypoint" => at["updater"] = "wait"
  BY <1>1, OneScript
<1>3. PICK to \in InScript \cup {"done", "aborted"} :
        /\ Goes(s, "select", to)
        /\ to = IF Reaches(s) /\ role # None THEN "alter" ELSE "create"
        /\ UNCHANGED <<role, database, ess>>
        /\ s = "entrypoint" \/ crashes = 0 => to # "aborted"
        /\ role' \in Passwords \cup {None} /\ database' \in BOOLEAN
        /\ ess' \in [Scripts -> Passwords]
  BY <1>0, <1>1, <1>2, Assumed DEF SelectRole, Undisturbed, StartupInv, InScript
<1>4. /\ Typed' /\ Boot'
      /\ at'[s] = to /\ at[s] = "select"
      /\ \A t \in Scripts \ {s} : at'[t] = at[t] /\ at'[t] \notin InScript
      /\ UNCHANGED <<secrets, hashed, stale, crashes>>
  BY <1>1, <1>3, GoesKeeps
<1>5. Undisturbed'
  BY <1>0, <1>2, <1>3, <1>4 DEF StartupInv, Undisturbed, InScript, Reaches
<1>6. Achieved'
  BY <1>0, <1>2, <1>3, <1>4 DEF StartupInv, Achieved, InScript
<1>7. Told'
  BY <1>0, <1>2, <1>3, <1>4 DEF StartupInv, Told, InScript, Scripts
<1> QED
  BY <1>4, <1>5, <1>6, <1>7 DEF StartupInv

LEMMA AlterRoleKeeps ==
  ASSUME StartupInv, NEW s \in Scripts, AlterRole(s)
  PROVE  StartupInv'
<1>0. /\ role \in Passwords \cup {None} /\ database \in BOOLEAN
      /\ ess \in [Scripts -> Passwords] /\ ess[s] \in Passwords /\ ess[s] # None
      /\ secrets[PASSWORD] \in Passwords
  BY Assumed DEF StartupInv, Typed, StartupTypeOK
<1>1. at[s] = "alter" /\ at[s] \in InScript
  BY DEF AlterRole, Goes, InScript
<1>2. /\ s = "entrypoint" \/ crashes = 0 => Reaches(s)
      /\ s = "entrypoint" => at["updater"] = "wait"
  BY <1>1, OneScript
<1>3. PICK to \in InScript \cup {"done", "aborted"} :
        /\ Goes(s, "alter", to)
        /\ \/ to = "datname" /\ role' = ess[s]
           \/ to = "create" /\ ~ Reaches(s) /\ UNCHANGED <<role, ess>>
        /\ UNCHANGED database
        /\ s = "entrypoint" \/ crashes = 0 => to # "aborted"
        /\ role' \in Passwords \cup {None} /\ database' \in BOOLEAN
        /\ ess' \in [Scripts -> Passwords]
  BY <1>0, <1>1, <1>2, Assumed DEF AlterRole, Undisturbed, StartupInv, InScript, Sets
<1>4. /\ Typed' /\ Boot'
      /\ at'[s] = to /\ at[s] = "alter"
      /\ \A t \in Scripts \ {s} : at'[t] = at[t] /\ at'[t] \notin InScript
      /\ UNCHANGED <<secrets, hashed, stale, crashes>>
  BY <1>1, <1>3, GoesKeeps
<1>5. Undisturbed'
  BY <1>0, <1>2, <1>3, <1>4 DEF StartupInv, Undisturbed, InScript, Reaches
<1>6. Achieved'
  BY <1>0, <1>2, <1>3, <1>4 DEF StartupInv, Achieved, InScript
<1>7. Told'
  BY <1>0, <1>2, <1>3, <1>4 DEF StartupInv, Told, InScript, Scripts
<1> QED
  BY <1>4, <1>5, <1>6, <1>7 DEF StartupInv

LEMMA CreateRoleKeeps ==
  ASSUME StartupInv, NEW s \in Scripts, CreateRole(s)
  PROVE  StartupInv'
<1>0. /\ role \in Passwords \cup {None} /\ database \in BOOLEAN
      /\ ess \in [Scripts -> Passwords] /\ ess[s] \in Passwords /\ ess[s] # None
      /\ secrets[PASSWORD] \in Passwords
  BY Assumed DEF StartupInv, Typed, StartupTypeOK
<1>1. at[s] = "create" /\ at[s] \in InScript
  BY DEF CreateRole, Goes, InScript
<1>2. /\ s = "entrypoint" \/ crashes = 0 => Reaches(s)
      /\ s = "entrypoint" => at["updater"] = "wait"
  BY <1>1, OneScript
<1>3. PICK to \in InScript \cup {"done", "aborted"} :
        /\ Goes(s, "create", to)
        /\ \/ to = "datname" /\ role' = ess[s]
           \/ to = "aborted" /\ UNCHANGED <<role, ess>>
        /\ UNCHANGED database
        /\ s = "entrypoint" \/ crashes = 0 => to # "aborted"
        /\ role' \in Passwords \cup {None} /\ database' \in BOOLEAN
        /\ ess' \in [Scripts -> Passwords]
  BY <1>0, <1>1, <1>2, Assumed DEF CreateRole, Undisturbed, StartupInv, InScript, Sets
<1>4. /\ Typed' /\ Boot'
      /\ at'[s] = to /\ at[s] = "create"
      /\ \A t \in Scripts \ {s} : at'[t] = at[t] /\ at'[t] \notin InScript
      /\ UNCHANGED <<secrets, hashed, stale, crashes>>
  BY <1>1, <1>3, GoesKeeps
<1>5. Undisturbed'
  BY <1>0, <1>2, <1>3, <1>4 DEF StartupInv, Undisturbed, InScript, Reaches
<1>6. Achieved'
  BY <1>0, <1>2, <1>3, <1>4 DEF StartupInv, Achieved, InScript
<1>7. Told'
  BY <1>0, <1>2, <1>3, <1>4 DEF StartupInv, Told, InScript, Scripts
<1> QED
  BY <1>4, <1>5, <1>6, <1>7 DEF StartupInv

LEMMA SelectDatabaseKeeps ==
  ASSUME StartupInv, NEW s \in Scripts, SelectDatabase(s)
  PROVE  StartupInv'
<1>0. /\ role \in Passwords \cup {None} /\ database \in BOOLEAN
      /\ ess \in [Scripts -> Passwords] /\ ess[s] \in Passwords /\ ess[s] # None
      /\ secrets[PASSWORD] \in Passwords
  BY Assumed DEF StartupInv, Typed, StartupTypeOK
<1>1. at[s] = "datname" /\ at[s] \in InScript
  BY DEF SelectDatabase, Goes, InScript
<1>2. /\ s = "entrypoint" \/ crashes = 0 => Reaches(s)
      /\ s = "entrypoint" => at["updater"] = "wait"
  BY <1>1, OneScript
<1>3. PICK to \in InScript \cup {"done", "aborted"} :
        /\ Goes(s, "datname", to)
        /\ to = IF Reaches(s) /\ database THEN "done" ELSE "createdb"
        /\ UNCHANGED <<role, database, ess>>
        /\ s = "entrypoint" \/ crashes = 0 => to # "aborted"
        /\ role' \in Passwords \cup {None} /\ database' \in BOOLEAN
        /\ ess' \in [Scripts -> Passwords]
  BY <1>0, <1>1, <1>2, Assumed DEF SelectDatabase, Undisturbed, StartupInv, InScript
<1>4. /\ Typed' /\ Boot'
      /\ at'[s] = to /\ at[s] = "datname"
      /\ \A t \in Scripts \ {s} : at'[t] = at[t] /\ at'[t] \notin InScript
      /\ UNCHANGED <<secrets, hashed, stale, crashes>>
  BY <1>1, <1>3, GoesKeeps
<1>5. Undisturbed'
  BY <1>0, <1>2, <1>3, <1>4 DEF StartupInv, Undisturbed, InScript, Reaches
<1>6. Achieved'
  BY <1>0, <1>2, <1>3, <1>4 DEF StartupInv, Achieved, InScript
<1>7. Told'
  BY <1>0, <1>2, <1>3, <1>4 DEF StartupInv, Told, InScript, Scripts
<1> QED
  BY <1>4, <1>5, <1>6, <1>7 DEF StartupInv

LEMMA CreateDatabaseKeeps ==
  ASSUME StartupInv, NEW s \in Scripts, CreateDatabase(s)
  PROVE  StartupInv'
<1>0. /\ role \in Passwords \cup {None} /\ database \in BOOLEAN
      /\ ess \in [Scripts -> Passwords] /\ ess[s] \in Passwords /\ ess[s] # None
      /\ secrets[PASSWORD] \in Passwords
  BY Assumed DEF StartupInv, Typed, StartupTypeOK
<1>1. at[s] = "createdb" /\ at[s] \in InScript
  BY DEF CreateDatabase, Goes, InScript
<1>2. /\ s = "entrypoint" \/ crashes = 0 => Reaches(s)
      /\ s = "entrypoint" => at["updater"] = "wait"
  BY <1>1, OneScript
<1>3. PICK to \in InScript \cup {"done", "aborted"} :
        /\ Goes(s, "createdb", to)
        /\ \/ to = "done" /\ database' = TRUE
           \/ to = "aborted" /\ UNCHANGED database
        /\ UNCHANGED <<role, ess>>
        /\ s = "entrypoint" \/ crashes = 0 => to # "aborted"
        /\ role' \in Passwords \cup {None} /\ database' \in BOOLEAN
        /\ ess' \in [Scripts -> Passwords]
  BY <1>0, <1>1, <1>2, Assumed DEF CreateDatabase, Undisturbed, StartupInv, InScript
<1>4. /\ Typed' /\ Boot'
      /\ at'[s] = to /\ at[s] = "createdb"
      /\ \A t \in Scripts \ {s} : at'[t] = at[t] /\ at'[t] \notin InScript
      /\ UNCHANGED <<secrets, hashed, stale, crashes>>
  BY <1>1, <1>3, GoesKeeps
<1>5. Undisturbed'
  BY <1>0, <1>2, <1>3, <1>4 DEF StartupInv, Undisturbed, InScript, Reaches
<1>6. Achieved'
  BY <1>0, <1>2, <1>3, <1>4 DEF StartupInv, Achieved, InScript
<1>7. Told'
  BY <1>0, <1>2, <1>3, <1>4 DEF StartupInv, Told, InScript, Scripts
<1> QED
  BY <1>4, <1>5, <1>6, <1>7 DEF StartupInv

LEMMA NextKeeps == StartupInv /\ [StartupNext]_allVars => StartupInv'
<1> SUFFICES ASSUME StartupInv, [StartupNext]_allVars PROVE StartupInv'
  OBVIOUS
<1>0. secrets \in [Environment -> Passwords] /\ password \in Passwords
      /\ secrets[PASSWORD] \in Passwords
      /\ waited \in BOOLEAN /\ stale \subseteq Pods
  BY Assumed DEF StartupInv, Typed, StartupTypeOK
<1>1. CASE StartServer \/ OpenPort \/ Crash \/ Ready \/ RestartUpdater
  BY <1>1, StartServerKeeps, OpenPortKeeps, CrashKeeps, ReadyKeeps,
     RestartUpdaterKeeps
<1>2. CASE \E s \in Scripts : Script(s)
  BY <1>2, ReadPasswordKeeps, SelectRoleKeeps, AlterRoleKeeps, CreateRoleKeeps,
     SelectDatabaseKeeps, CreateDatabaseKeeps DEF Script
<1>3. CASE WaitForTCP
  BY <1>3, <1>0, ComponentKeeps DEF WaitForTCP, vars
<1>4. CASE RenderPassword
  BY <1>4, <1>0, ComponentKeeps DEF RenderPassword, Render
<1>5. CASE InitContainer \/ KillContainer
  <2>1. UNCHANGED secrets /\ UNCHANGED startupVars
    BY <1>5 DEF InitContainer, KillContainer, Stat, Open, Write, Exit, Restart,
       StartAgain, Kill
  <2> QED
    BY <2>1, <1>0, ComponentKeeps DEF startupVars
<1>6. CASE RestartPod
  BY <1>6, <1>0, ComponentKeeps DEF RestartPod, SandboxRestart, StartAgain
<1>7. CASE Remount
  <2>1. /\ UNCHANGED startupVars
        /\ secrets' \in [Environment -> Passwords]
        /\ secrets'[PASSWORD] = secrets[PASSWORD] \/ ~ hashed
    <3>1. CASE \E i \in 1..N : ChangeFile(i)
      BY <3>1, <1>7, <1>0 DEF Remount, ChangeFile
    <3>2. CASE \E x \in Environment \ {PASSWORD} : ChangeSecret(x)
      BY <3>2, <1>7, <1>0, Assumed DEF Remount, ChangeSecret, Passwords
    <3>3. CASE ~ hashed /\ ChangeSecret(PASSWORD)
      BY <3>3, <1>7, <1>0 DEF Remount, ChangeSecret, Passwords
    <3> QED
      BY <3>1, <3>2, <3>3, <1>7 DEF Remount
  <2> QED
    BY <2>1, <1>0, ComponentKeeps DEF startupVars
<1>8. CASE Rehash
  <2>1. secrets' \in [Environment -> Passwords]
    BY <1>8, <1>0 DEF Rehash, ChangeSecret, Passwords
  <2>2. stale' = Pods /\ "postgres" \in stale'
    BY <1>8 DEF Rehash, Pods
  <2> QED
    BY <1>8, <2>1, <2>2, <1>0, ComponentKeeps DEF Rehash
<1>9. CASE ReplaceComponent
  BY <1>9, <1>0, ComponentKeeps DEF ReplaceComponent
<1>10. CASE ReplacePostgres
  BY <1>10, ReplacePostgresKeeps
<1>11. CASE UNCHANGED allVars
  BY <1>11, <1>0, ComponentKeeps DEF allVars, startupVars, vars
<1> QED
  BY <1>1, <1>2, <1>3, <1>4, <1>5, <1>6, <1>7, <1>8, <1>9, <1>10, <1>11
     DEF StartupNext

\* The invariant that carries the theorems below.
THEOREM StartupInvariant == StartupSpec => []StartupInv
BY InitStartupInv, NextKeeps, PTL DEF StartupSpec

\* Every variable has its type.
THEOREM StartupTypeCorrect == StartupSpec => []StartupTypeOK
<1>1. StartupInv => StartupTypeOK
  BY DEF StartupInv, Typed
<1> QED
  BY <1>1, StartupInvariant, PTL

\* configure-dbs.sh only fails under a server that crashes.
THEOREM ScriptSucceeds == StartupSpec => []ScriptRunsThrough
<1>1. StartupInv => ScriptRunsThrough
  BY DEF StartupInv, Undisturbed, ScriptRunsThrough, Typed, StartupTypeOK
<1> QED
  BY <1>1, StartupInvariant, PTL

\* In the entrypoint it never fails: a crash takes the entrypoint with it.
THEOREM EntrypointSucceeds == StartupSpec => [](at["entrypoint"] # "aborted")
<1>1. StartupInv => at["entrypoint"] # "aborted"
  BY DEF StartupInv, Undisturbed, Scripts
<1> QED
  BY <1>1, StartupInvariant, PTL

\* Where there was no data, whoever gets through db-wait finds the role and
\* the database.
THEOREM WaitSuffices == StartupSpec => []WaitedForDatabase
<1>1. StartupInv => WaitedForDatabase
  BY DEF StartupInv, Boot, Achieved, WaitedForDatabase, Scripts
<1> QED
  BY <1>1, StartupInvariant, PTL

-------------------------------------------------------------------------------
(***************************************************************************)
(* The pod of RenderConfig within the start of the component.              *)
(***************************************************************************)

\* A step of the script is none of the component's pod.
LEMMA ScriptIsElsewhere ==
  ASSUME NEW s \in Scripts, Script(s)
  PROVE  UNCHANGED <<vars, waited, password, hashed, stale>>
BY DEF Script, ReadPassword, SelectRole, AlterRole, CreateRole, SelectDatabase,
   CreateDatabase, Goes

LEMMA StepOfPod ==
  ASSUME [StartupNext]_allVars
  PROVE  [Next]_vars \/ ReplaceComponent
<1>1. CASE StartServer \/ OpenPort \/ Crash \/ Ready \/ RestartUpdater
  BY <1>1 DEF StartServer, OpenPort, Crash, Ready, RestartUpdater
<1>2. CASE \E s \in Scripts : Script(s)
  BY <1>2, ScriptIsElsewhere
<1>3. CASE InitContainer \/ RenderPassword \/ KillContainer \/ RestartPod
  BY <1>3 DEF InitContainer, RenderPassword, KillContainer, RestartPod, Next
<1>4. CASE WaitForTCP \/ ReplacePostgres
  BY <1>4 DEF WaitForTCP, ReplacePostgres
<1>5. CASE Remount
  BY <1>5, Assumed DEF Remount, Next
<1>6. CASE Rehash
  BY <1>6, Assumed DEF Rehash, Next
<1>7. CASE UNCHANGED allVars
  BY <1>7 DEF allVars
<1> QED
  BY <1>1, <1>2, <1>3, <1>4, <1>5, <1>6, <1>7 DEF StartupNext

\* The pod that replaces another one is as fresh as a container that starts
\* again, but for the configuration file, which it does not have.
LEMMA PodStep ==
  ASSUME IInv, [StartupNext]_allVars
  PROVE  IInv'
<1>1. CASE ReplaceComponent
  <2>1. faults' \in 0..MaxFaults
    BY <1>1 DEF ReplaceComponent, IInv, TypeOK
  <2> QED
    BY <1>1, <2>1, FreshIInv DEF ReplaceComponent
<1>2. CASE [Next]_vars
  BY <1>2, NextIInv
<1> QED
  BY <1>1, <1>2, StepOfPod

THEOREM PodInvariant == StartupSpec => []IInv
<1>1. StartupInit => IInv
  BY InitIInv DEF StartupInit
<1>2. IInv /\ [StartupNext]_allVars => IInv'
  BY PodStep
<1> QED
  BY <1>1, <1>2, PTL DEF StartupSpec

\* Beside PostgreSQL, and when it is replaced, the pod keeps its types.
THEOREM PodTypeCorrect == StartupSpec => []TypeOK
BY PodInvariant, PTL DEF IInv

\* A pod that is replaced, restarted and killed in any order runs its main
\* container on the complete merge by one run.
THEOREM PodHasWholeConfig == StartupSpec => []RunsOnWholeConfig
BY WholeFromIInv, PodInvariant, PTL

\* The new pod does not run on what was mounted in the old one.
THEOREM PodHasMountedConfig == StartupSpec => []RunsOnMountedConfig
BY MountedFromIInv, PodInvariant, PTL

LEMMA PodMergedStep ==
  ASSUME MergesDocuments, IInv, MergedSoFar, [StartupNext]_allVars
  PROVE  MergedSoFar'
<1>1. CASE ReplaceComponent
  BY <1>1, NothingMerged DEF ReplaceComponent, MergedSoFar
<1>2. CASE [Next]_vars
  BY <1>2, MergedStep
<1> QED
  BY <1>1, <1>2, StepOfPod

\* Whatever happens around it, the pod merges as documented, any files of any
\* depth, and the overrides have the last word in what its component reads.
THEOREM PodMergesAsDocumented ==
  ASSUME MergesDocuments
  PROVE  StartupSpec => [](MergeIsReference /\ OverridesPrevail)
<1>1. StartupInit => MergedSoFar
  BY InitMerged DEF StartupInit
<1>2. IInv /\ MergedSoFar /\ [StartupNext]_allVars => MergedSoFar'
  BY PodMergedStep
<1>3. IInv /\ MergedSoFar => MergeIsReference /\ OverridesPrevail
  BY OverridesFromMerge DEF MergedSoFar, MergeIsReference
<1> QED
  BY <1>1, <1>2, <1>3, PodInvariant, PTL DEF StartupSpec

-------------------------------------------------------------------------------
(***************************************************************************)
(* The password at both ends.                                              *)
(***************************************************************************)

\* The files read so far have brought the password as it is now.
Rendered ==
  hashed /\ "component" \notin stale =>
    \A i \in 1..Len(read) :
      PASSWORD \in VariablesOf(opened[i]) => password = secrets[PASSWORD]

\* Without a file that is read, there is nothing to show.
LEMMA NothingRendered ==
  ASSUME read' = << >>
  PROVE  Rendered'
BY EmptyType DEF Rendered

LEMMA RenderedKept ==
  ASSUME Rendered, UNCHANGED <<read, password, hashed>>,
         opened' = opened \/ Len(read) = 0,
         secrets'[PASSWORD] = secrets[PASSWORD] \/ ~ hashed,
         "component" \in stale => "component" \in stale'
  PROVE  Rendered'
BY DEF Rendered

LEMMA RenderPasswordRenders ==
  ASSUME IInv, Rendered, RenderPassword
  PROVE  Rendered'
<1> DEFINE file == opened[Len(read) + 1]
           doc  == Substitute(file, secrets)
<1>1. /\ pc = "render" /\ UNCHANGED <<secrets, opened, hashed, stale>>
      /\ read \in Seq(Docs) /\ Len(read) \in Nat
  BY DEF RenderPassword, Render, IInv, Progress
<1>2. CASE ~ Renders(file)
  BY <1>1, <1>2, RenderedKept DEF RenderPassword, Render
<1>3. CASE Renders(file)
  <2>1. /\ read' = Append(read, doc)
        /\ pc' # "failed"
        /\ password' = IF PASSWORD \in VariablesOf(file) THEN secrets[PASSWORD]
                                                         ELSE password
    BY <1>3 DEF RenderPassword, Render
  <2>2. Len(read') = Len(read) + 1
    <3>1. file \in Contents
      <4>1. /\ Len(opened) = N /\ Len(read) < N /\ opened \in Seq(Contents)
        BY <1>1 DEF IInv, TypeOK, Progress
      <4> QED
        BY <1>1, <4>1, NType
    <3>2. doc \in Docs
      BY <3>1 DEF IInv, TypeOK, Docs
    <3> QED
      BY <1>1, <2>1, <3>2
  <2>3. \A i \in 1..(Len(read) + 1) : i \in 1..Len(read) \/ i = Len(read) + 1
    BY <1>1
  <2> QED
    BY <1>1, <2>1, <2>2, <2>3 DEF Rendered
<1> QED
  BY <1>2, <1>3

LEMMA RenderedStep ==
  ASSUME StartupInv, IInv, Rendered, [StartupNext]_allVars
  PROVE  Rendered'
<1>1. CASE StartServer \/ OpenPort \/ Crash \/ Ready \/ RestartUpdater
             \/ WaitForTCP \/ UNCHANGED allVars
  BY <1>1, RenderedKept
  DEF StartServer, OpenPort, Crash, Ready, RestartUpdater, WaitForTCP, allVars,
      startupVars, vars
<1>2. CASE \E s \in Scripts : Script(s)
  BY <1>2, ScriptIsElsewhere, RenderedKept DEF vars
<1>3. CASE InitContainer
  <2>1. CASE Restart
    BY <2>1, NothingRendered DEF Restart, StartAgain
  <2>2. CASE Stat \/ Open \/ Write \/ Exit
    <3>1. UNCHANGED <<secrets, read>> /\ UNCHANGED startupVars
      BY <1>3, <2>2 DEF InitContainer, Stat, Open, Write, Exit, Restart, StartAgain
    <3>2. opened' = opened \/ Len(read) = 0
      BY <2>2 DEF Stat, Open, Write, Exit, IInv, Progress
    <3> QED
      BY <3>1, <3>2, RenderedKept DEF startupVars
  <2> QED
    BY <1>3, <2>1, <2>2 DEF InitContainer
<1>4. CASE RenderPassword
  BY <1>4, RenderPasswordRenders
<1>5. CASE KillContainer
  BY <1>5, RenderedKept DEF KillContainer, Kill, startupVars
<1>6. CASE RestartPod
  BY <1>6, NothingRendered DEF RestartPod, SandboxRestart, StartAgain
<1>7. CASE Remount
  <2>1. UNCHANGED <<read, opened>> /\ UNCHANGED startupVars
    BY <1>7 DEF Remount, ChangeFile, ChangeSecret, Change
  <2>2. secrets'[PASSWORD] = secrets[PASSWORD] \/ ~ hashed
    <3>1. secrets \in [Environment -> Passwords]
      BY DEF StartupInv, Typed
    <3> QED
      BY <1>7, <3>1, Assumed DEF Remount, ChangeFile, ChangeSecret
  <2> QED
    BY <2>1, <2>2, RenderedKept DEF startupVars
<1>8. CASE Rehash
  BY <1>8 DEF Rehash, Rendered, Pods
<1>9. CASE ReplaceComponent
  BY <1>9, NothingRendered DEF ReplaceComponent
<1>10. CASE ReplacePostgres
  BY <1>10, RenderedKept DEF ReplacePostgres, vars
<1> QED
  BY <1>1, <1>2, <1>3, <1>4, <1>5, <1>6, <1>7, <1>8, <1>9, <1>10
     DEF StartupNext

\* A password from the values has reached role and configuration once the new
\* pod of each is done, whichever is replaced first.
THEOREM PasswordReachesBothEnds == StartupSpec => []PasswordsAgree
<1>1. StartupInit => Rendered
  BY EmptyType DEF StartupInit, Init, Rendered
<1>2. StartupInv /\ IInv /\ Rendered /\ [StartupNext]_allVars => Rendered'
  BY RenderedStep
<1>3. StartupInv /\ IInv /\ Rendered => PasswordsAgree
  <2> SUFFICES ASSUME StartupInv, IInv, Rendered, hashed
               PROVE  /\ "postgres" \notin stale /\ at["updater"] = "done" =>
                           role = secrets[PASSWORD] /\ database
                      /\ /\ "component" \notin stale
                         /\ pc = "running"
                         /\ \E i \in 1..N : PASSWORD \in VariablesOf(opened[i])
                         => password = secrets[PASSWORD]
    BY DEF PasswordsAgree
  <2>1. "postgres" \notin stale /\ at["updater"] = "done" =>
          role = secrets[PASSWORD] /\ database
    BY DEF StartupInv, Achieved, Told, Scripts
  <2>2. pc = "running" => Len(read) = N
    BY DEF IInv, Progress
  <2> QED
    BY <2>1, <2>2 DEF Rendered
<1> QED
  BY <1>1, <1>2, <1>3, StartupInvariant, PodInvariant, PTL DEF StartupSpec
===============================================================================
