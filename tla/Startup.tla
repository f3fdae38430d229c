------------------------------- MODULE Startup --------------------------------
(***************************************************************************)
(* A component that needs a database, from the first start of the chart's  *)
(* PostgreSQL to its own: the component's pod is that of RenderConfig,     *)
(* followed by the init container db-wait (matrix-tools tcpwait); the pod  *)
(* of PostgreSQL has the server and the container postgres-ess-updater.    *)
(* They share a password, and nothing but a port orders them.              *)
(*                                                                         *)
(* The same script, configure-dbs.sh, creates the component's role and     *)
(* database.  The image's entrypoint runs it on a server for this purpose, *)
(* that only listens on a socket, when there is no data yet; the updater   *)
(* runs it whenever it starts, once the server can be reached by TCP.  The *)
(* server may crash at any step; a password may change, and the rollouts   *)
(* that this may cause are in any order.                                   *)
(***************************************************************************)
EXTENDS RenderConfig

CONSTANTS
  PASSWORD,     \* the variable that reads the component's password
  None,         \* no such role
  MaxCrashes    \* bound on crashes of the server

ASSUME StartupAssumption ==
  /\ PASSWORD \in Environment
  /\ None \notin SecretValues \cup {Missing}
  /\ MaxCrashes \in Nat

VARIABLES
  server,       \* the server, when it initialises its data, or in service
  initialised,  \* the volume has data
  role,         \* the password of the component's role, if there is one
  database,     \* the component's database exists
  at,           \* where each run of the script is
  ess,          \* the password it has read
  waited,       \* db-wait has succeeded in the component's pod
  password,     \* the password in the component's configuration
  hashed,       \* the values hold the password, and the pods a hash of it
  stale,        \* the pods to be replaced because of that hash
  crashes       \* crashes of the server so far

databaseVars == <<server, initialised, role, database, at, ess>>
startupVars  == <<databaseVars, waited, password, hashed, stale, crashes>>
allVars      == <<vars, startupVars>>

Scripts == {"entrypoint", "updater"}
InScript == {"read", "select", "alter", "create", "datname", "createdb"}
Places   == InScript \cup {"idle", "wait", "done", "aborted"}
Passwords == SecretValues \cup {Missing}
Pods      == {"postgres", "component"}

\* The pods start together: on a first installation there is no data; on an
\* upgrade the component may have been enabled before, with whatever password.
StartTogether ==
  /\ server = "down"
  /\ initialised \in BOOLEAN
  /\ role \in Passwords \cup {None}
  /\ database \in BOOLEAN
  /\ ~ initialised => role = None
  /\ database => role # None
  /\ at = [entrypoint |-> "idle", updater |-> "wait"]

\* Only the component's pod starts.
InService ==
  /\ server = "up"
  /\ initialised = TRUE
  /\ role = secrets[PASSWORD]
  /\ database = TRUE
  /\ at = [entrypoint |-> "idle", updater |-> "done"]

StartupInit ==
  /\ Init
  /\ StartTogether \/ InService
  /\ ess = [s \in Scripts |-> Missing]
  /\ waited = FALSE
  /\ password = Missing
  /\ hashed \in BOOLEAN
  /\ hashed => secrets[PASSWORD] # Missing
  /\ stale = {}
  /\ crashes \in 0..MaxCrashes
-------------------------------------------------------------------------------
(***************************************************************************)
(* PostgreSQL                                                              *)
(***************************************************************************)

\* The entrypoint: initdb and the server for the scripts, or the server.
StartServer ==
  /\ server = "down"
  /\ server' = IF initialised THEN "up" ELSE "init"
  /\ initialised' = TRUE
  /\ at' = [at EXCEPT !["entrypoint"] = IF initialised THEN "idle" ELSE "read"]
  /\ UNCHANGED <<vars, role, database, ess, waited, password, hashed, stale,
                 crashes>>

\* The scripts have run, and the server starts again with its port open.  (If
\* one failed, the container would exit: EntrypointSucceeds in StartupProof.)
OpenPort ==
  /\ server = "init"
  /\ at["entrypoint"] = "done"
  /\ server' = "up"
  /\ UNCHANGED <<vars, initialised, role, database, at, ess, waited, password,
                 hashed, stale, crashes>>

\* The container of the server is restarted, that of the updater is not.
Crash ==
  /\ server # "down"
  /\ crashes < MaxCrashes
  /\ crashes' = crashes + 1
  /\ server' = "down"
  /\ at' = [at EXCEPT !["entrypoint"] = "idle"]
  /\ UNCHANGED <<vars, initialised, role, database, ess, waited, password,
                 hashed, stale>>

\* Faulty: the updater does not wait.
ReadyAtOnce ==
  /\ at["updater"] = "wait"
  /\ server # "down"
  /\ at' = [at EXCEPT !["updater"] = "read"]
  /\ UNCHANGED <<vars, server, initialised, role, database, ess, waited,
                 password, hashed, stale, crashes>>

\* pg_isready -h localhost
Ready ==
  /\ at["updater"] = "wait"
  /\ server = "up"
  /\ at' = [at EXCEPT !["updater"] = "read"]
  /\ UNCHANGED <<vars, server, initialised, role, database, ess, waited,
                 password, hashed, stale, crashes>>

\* The livenessProbe of the updater asks the server: the kubelet may restart
\* the one because of the other.
RestartUpdater ==
  /\ at["updater"] # "wait"
  /\ server # "up"
  /\ at' = [at EXCEPT !["updater"] = "wait"]
  /\ UNCHANGED <<vars, server, initialised, role, database, ess, waited,
                 password, hashed, stale, crashes>>
-------------------------------------------------------------------------------
(***************************************************************************)
(* configure-dbs.sh, the part for the component.  Those for others before  *)
(* it can only make it fail earlier.                                       *)
(***************************************************************************)
Reaches(s) == server = IF s = "updater" THEN "up" ELSE "init"

Goes(s, from, to) ==
  /\ at[s] = from
  /\ at' = [at EXCEPT ![s] = to]
  /\ UNCHANGED <<vars, server, initialised, waited, password, hashed, stale,
                 crashes>>

\* export hides the status of cat: without a password the script goes on.
ReadPassword(s) ==
  \/ /\ Goes(s, "read", "select")
     /\ ess' = [ess EXCEPT ![s] = secrets[PASSWORD]]
     /\ UNCHANGED <<role, database>>
  \/ /\ ~ Reaches(s)
     /\ Goes(s, "read", "aborted")
     /\ UNCHANGED <<role, database, ess>>

\* A server that does not answer knows no role.
SelectRole(s) ==
  /\ Goes(s, "select", IF Reaches(s) /\ role # None THEN "alter" ELSE "create")
  /\ UNCHANGED <<role, database, ess>>

\* The script does not use the password again.
Sets(s) ==
  /\ role' = ess[s]
  /\ ess' = [ess EXCEPT ![s] = Missing]

\* Faulty: the password of a role that is there is left.
AlterNothing(s) ==
  /\ Goes(s, "alter", IF Reaches(s) THEN "datname" ELSE "create")
  /\ UNCHANGED <<role, database, ess>>

AlterRole(s) ==
  /\ Goes(s, "alter", IF Reaches(s) THEN "datname" ELSE "create")
  /\ IF Reaches(s) THEN Sets(s) ELSE UNCHANGED <<role, ess>>
  /\ UNCHANGED database

CreateRole(s) ==
  LET created == Reaches(s) /\ role = None IN
    /\ Goes(s, "create", IF created THEN "datname" ELSE "aborted")
    /\ IF created THEN Sets(s) ELSE UNCHANGED <<role, ess>>
    /\ UNCHANGED database

SelectDatabase(s) ==
  /\ Goes(s, "datname", IF Reaches(s) /\ database THEN "done" ELSE "createdb")
  /\ UNCHANGED <<role, database, ess>>

CreateDatabase(s) ==
  LET created == Reaches(s) /\ ~ database IN
    /\ Goes(s, "createdb", IF created THEN "done" ELSE "aborted")
    /\ database' = (database \/ created)
    /\ UNCHANGED <<role, ess>>

Script(s) ==
  \/ ReadPassword(s)
  \/ SelectRole(s)
  \/ AlterRole(s)
  \/ CreateRole(s)
  \/ SelectDatabase(s)
  \/ CreateDatabase(s)
-------------------------------------------------------------------------------
(***************************************************************************)
(* The component's pod                                                     *)
(***************************************************************************)

\* Faulty: any server will do.
WaitForAny ==
  /\ pc = "running" /\ ~ waited
  /\ server # "down"
  /\ waited' = TRUE
  /\ UNCHANGED <<vars, databaseVars, password, hashed, stale, crashes>>

\* db-wait dials until it gets a connection.
WaitForTCP ==
  /\ pc = "running" /\ ~ waited
  /\ server = "up"
  /\ waited' = TRUE
  /\ UNCHANGED <<vars, databaseVars, password, hashed, stale, crashes>>

\* The password gets into the configuration with the file that refers to it.
RenderPassword ==
  /\ Render
  /\ LET names == pc' # "failed" /\ PASSWORD \in VariablesOf(opened[Len(read) + 1])
     IN password' = IF names THEN secrets[PASSWORD] ELSE password
  /\ UNCHANGED <<databaseVars, waited, hashed, stale, crashes>>

InitContainer ==
  /\ Stat \/ Open \/ Write \/ Exit \/ Restart
  /\ UNCHANGED startupVars

KillContainer == Kill /\ UNCHANGED startupVars

RestartPod ==
  /\ SandboxRestart
  /\ waited' = FALSE
  /\ UNCHANGED <<databaseVars, password, hashed, stale, crashes>>
-------------------------------------------------------------------------------
(***************************************************************************)
(* Changes                                                                 *)
(***************************************************************************)
Remount ==
  /\ \/ \E i \in 1..N : ChangeFile(i)
     \/ \E x \in Environment \ {PASSWORD} : ChangeSecret(x)
     \/ ~ hashed /\ ChangeSecret(PASSWORD)
  /\ UNCHANGED startupVars

\* Faulty: the component's pod has no such label.
RehashPostgres ==
  /\ hashed
  /\ ChangeSecret(PASSWORD)
  /\ secrets'[PASSWORD] # Missing
  /\ stale' = {"postgres"}
  /\ UNCHANGED <<databaseVars, waited, password, hashed, crashes>>

\* An upgrade with another password in the values changes a label of both
\* pods.
Rehash ==
  /\ hashed
  /\ ChangeSecret(PASSWORD)
  /\ secrets'[PASSWORD] # Missing
  /\ stale' = Pods
  /\ UNCHANGED <<databaseVars, waited, password, hashed, crashes>>

\* The controller replaces a pod; a new pod of the component has an empty
\* directory for its configuration.
ReplaceComponent ==
  /\ "component" \in stale
  /\ stale' = stale \ {"component"}
  /\ pc' = "stat"
  /\ opened' = << >>
  /\ read' = << >>
  /\ output' = Empty
  /\ conf' = Absent
  /\ changed' = FALSE
  /\ waited' = FALSE
  /\ UNCHANGED <<mounted, secrets, changes, faults, databaseVars, password,
                 hashed, crashes>>

ReplacePostgres ==
  /\ "postgres" \in stale
  /\ stale' = stale \ {"postgres"}
  /\ server' = "down"
  /\ at' = [entrypoint |-> "idle", updater |-> "wait"]
  /\ UNCHANGED <<vars, initialised, role, database, ess, waited, password,
                 hashed, crashes>>

StartupNext ==
  \/ StartServer \/ OpenPort \/ Crash \/ Ready \/ RestartUpdater
  \/ \E s \in Scripts : Script(s)
  \/ InitContainer \/ RenderPassword \/ KillContainer \/ WaitForTCP
  \/ RestartPod
  \/ Remount \/ Rehash \/ ReplaceComponent \/ ReplacePostgres

StartupSpec == StartupInit /\ [][StartupNext]_allVars

(***************************************************************************)
(* Containers run on and are restarted, and the controllers roll out what  *)
(* has changed.                                                            *)
(***************************************************************************)
StartupFairness ==
  /\ WF_allVars(StartServer \/ OpenPort)
  /\ WF_allVars(Ready)
  /\ \A s \in Scripts : WF_allVars(Script(s))
  /\ WF_allVars(WaitForTCP)
  /\ WF_allVars(RenderPassword \/ InitContainer)
  /\ WF_allVars(ReplaceComponent)
  /\ WF_allVars(ReplacePostgres)
-------------------------------------------------------------------------------
(***************************************************************************)
(* Properties                                                              *)
(***************************************************************************)

\* The type of every variable that RenderConfig does not have.
StartupTypeOK ==
  /\ server \in {"down", "init", "up"}
  /\ initialised \in BOOLEAN
  /\ role \in Passwords \cup {None}
  /\ database \in BOOLEAN
  /\ at \in [Scripts -> Places]
  /\ ess \in [Scripts -> Passwords]
  /\ waited \in BOOLEAN
  /\ password \in Passwords
  /\ hashed \in BOOLEAN
  /\ stale \subseteq Pods
  /\ crashes \in 0..MaxCrashes

\* The entrypoint and the updater run the same script, which fails when
\* another creates the role or the database between its question and its
\* answer: they never meet, also when one or the other starts again, so that
\* only a server that has crashed makes the script fail.  (A failure of the
\* updater goes unnoticed: its shell goes on to sleep.)
ScriptRunsThrough ==
  \A s \in Scripts : at[s] = "aborted" => crashes > 0

\* db-wait only looks at a port.  Where there was no data, this is enough: no
\* container of the component starts before role and database are there.
WaitedForDatabase ==
  waited /\ at["entrypoint"] # "idle" => role # None /\ database

\* A password that was changed in the values has reached both ends, each once
\* its new pod is done, in whatever order the two are replaced: the role, when
\* the updater is - with crashes of the server it may not be, but it does not
\* claim to be with an earlier password - and the configuration that the
\* component runs on, when that names the password.
PasswordsAgree ==
  hashed =>
    /\ "postgres" \notin stale /\ at["updater"] = "done" =>
         role = secrets[PASSWORD] /\ database
    /\ /\ "component" \notin stale
       /\ pc = "running"
       /\ \E i \in 1..N : PASSWORD \in VariablesOf(opened[i])
       => password = secrets[PASSWORD]

\* The component's main container can work.
Works ==
  /\ pc = "running" /\ waited
  /\ server = "up"
  /\ database /\ role = password

\* It does in the end, whatever the order in which the pods start, crash and
\* are replaced, unless a crash has made the updater fail, or the password
\* was changed where no hash of it makes the pods start again.
MainConnects ==
  /\ <>[](/\ \A i \in 1..N : InOrder(i)
          /\ \E i \in 1..N : PASSWORD \in VariablesOf(mounted[i]))
  /\ [](hashed \/ changes = 0)
  /\ []<>(at["updater"] # "aborted")
  => <>[]Works
===============================================================================
