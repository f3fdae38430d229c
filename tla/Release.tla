------------------------------- MODULE Release --------------------------------
(***************************************************************************)
(* The life of a release of the chart: installations, upgrades, rollbacks  *)
(* and uninstallations with changing values, each upgrade a sequence of    *)
(* hook Jobs around the main phase in which Helm applies the manifests.  A *)
(* hook or the main phase that fails, or exceeds Helm's timeout, ends the  *)
(* upgrade.  Helm does not stop a Job that it no longer waits for: it is   *)
(* deleted when a later upgrade creates a Job of the same name, and until  *)
(* then it may do its work, late.  The hooks are of installation and       *)
(* upgrade only; a rollback, to any revision that Helm keeps, runs none.   *)
(*                                                                         *)
(* The Jobs are taken from their own modules, with the outcomes these      *)
(* show: DeploymentMarkers (a pre step succeeds at a moment when the value *)
(* is absent or allowed; a post step stores its value or fails, stored or  *)
(* not), GenerateSecrets (success means that every key asked for has a     *)
(* value, and a value once there stays) and Syn2Mas (success means         *)
(* migrated; a failure may come after the migration).  Deployment markers  *)
(* are enabled throughout.                                                 *)
(*                                                                         *)
(* Generated credentials do not depend on one another, so that one of them *)
(* is followed, whichever.                                                 *)
(*                                                                         *)
(* The operator is free.  What the markers promise needs an operator who   *)
(* does two things that no hook does: finish an upgrade that has failed    *)
(* half way in the mode it was begun in, and compare the marker before a   *)
(* rollback.  Nothing is assumed of that; careless tells whether there has *)
(* been an upgrade or a rollback against it.                               *)
(***************************************************************************)
EXTENDS Credentials, FiniteSetsExt

CONSTANTS
  Values,       \* the values that the operator tries
  Followed,     \* the credentials that may be followed
  KnownTypes,   \* the types of secrets that the configured image can make
  MayRollBack,  \* whether the operator uses helm rollback
  MaxHistory,   \* how many different revisions Helm keeps
  NoValues      \* no upgrade runs

\* Beside the values of Credentials: matrixAuthenticationService.syn2mas with
\* enabled and dryRun.
ReleaseValues ==
  [synapse : BOOLEAN, mas : BOOLEAN, rtc : BOOLEAN, hookshot : BOOLEAN,
   postgres : BOOLEAN, databases : SUBSET {"synapse", "mas"},
   provided : SUBSET (CredentialKeys \ {"SYNAPSE_EXTRA"}),
   syn2mas : BOOLEAN, dryRun : BOOLEAN]

Modes == {"nothing", "legacy", "delegated"}

\* Whether manifests refer to the credential in <release>-generated; "unmade"
\* are those of an upgrade whose init-secrets hook has never succeeded.
Reference == {"no", "made", "unmade"}

Revisions == [mode : Modes, refers : Reference]

ASSUME ReleaseAssumption ==
  /\ Values \subseteq ReleaseValues
  /\ Followed \subseteq CredentialKeys
  /\ MayRollBack \in BOOLEAN
  /\ MaxHistory \in Nat
  /\ NoValues \notin Values

VARIABLES
  values,         \* the values of the upgrade that runs, NoValues otherwise
  phase,          \* the hook or phase it is in, or how the last one has ended
  serving,        \* the mode of authentication that is deployed
  marker,         \* MATRIX_STACK_MSC3861 in the ConfigMap, or "absent"
  home,           \* where the accounts live; "split" when in two places
  bound,          \* the mode of an upgrade that failed after it had changed
                  \* something, "free" when there is nothing to finish
  lateMarker,     \* what a post-markers Job left behind may still store
  lateMigration,  \* a migration Job left behind may still migrate
  credential,     \* the credential that is followed
  generated,      \* whether <release>-generated holds it
  refers,         \* whether the deployed manifests refer to it there
  history,        \* the revisions that Helm keeps, whatever became of them
  careless        \* whether an upgrade or a rollback has been asked for that
                  \* leaves another one half way, or a rollback to a mode
                  \* that the marker does not admit

accounts == <<serving, marker, home, bound>>
late     == <<lateMarker, lateMigration>>
secrets  == <<credential, generated, refers>>
vars     == <<values, phase, accounts, late, secrets, history, careless>>

MarkerValues == {"legacy_auth", "syn2mas_migrated", "delegated_auth"}

Migrated(m) == m \in {"syn2mas_migrated", "delegated_auth"}

Phases == {"pre-markers", "init-secrets", "migration", "check-config", "main",
           "dry-run", "post-markers"}
Ended  == {"none", "deployed", "failed"}
-------------------------------------------------------------------------------
(***************************************************************************)
(* What the templates make of the values.                                  *)
(***************************************************************************)
DryRun(v)  == v.synapse /\ v.mas /\ v.syn2mas /\ v.dryRun
Migrate(v) == v.synapse /\ v.mas /\ v.syn2mas /\ ~ v.dryRun

\* Faulty: nobody thinks of the dry run.
ReadyWheneverEnabled(v) == v.mas

ReadyToHandleAuth(v) == v.mas /\ (~ v.syn2mas \/ ~ v.dryRun)

Mode(v) ==
  CASE ~ v.synapse                          -> "nothing"
    [] v.synapse /\ ~ ReadyToHandleAuth(v)  -> "legacy"
    [] v.synapse /\ ReadyToHandleAuth(v)    -> "delegated"

\* Faulty: a name that no other upgrade knows.
NewValueMisspelt(v) ==
  CASE ~ v.mas \/ DryRun(v) -> "legacy_auth"
    [] Migrate(v)           -> "syn2mas-migrated"
    [] OTHER                -> "delegated_auth"

\* Faulty: a dry run is recorded as a migration.
NewValueOfDryRun(v) ==
  CASE ~ v.mas           -> "legacy_auth"
    [] v.mas /\ v.syn2mas -> "syn2mas_migrated"
    [] OTHER             -> "delegated_auth"

NewValue(v) ==
  CASE ~ v.mas \/ DryRun(v) -> "legacy_auth"
    [] Migrate(v)           -> "syn2mas_migrated"
    [] OTHER                -> "delegated_auth"

\* Faulty: the migration may be abandoned.
AllowedValuesToGoBack(v) ==
  CASE ~ v.mas \/ DryRun(v) -> {"legacy_auth", "syn2mas_migrated"}
    [] Migrate(v)           -> {"legacy_auth"}
    [] OTHER                -> {"delegated_auth", "syn2mas_migrated"}

AllowedValues(v) ==
  CASE ~ v.mas \/ DryRun(v) -> {"legacy_auth"}
    [] Migrate(v)           -> {"legacy_auth"}
    [] OTHER                -> {"delegated_auth", "syn2mas_migrated"}
-------------------------------------------------------------------------------
Init ==
  /\ values = NoValues
  /\ phase = "none"
  /\ serving = "nothing"
  /\ marker = "absent"
  /\ home = "none"
  /\ bound = "free"
  /\ lateMarker = "absent"
  /\ lateMigration = FALSE
  /\ credential \in Followed
  /\ generated = FALSE
  /\ refers = "no"
  /\ history = {}
  /\ careless = FALSE

\* What the manifests of the upgrade that runs have for the credential.
Referring ==
  CASE credential \notin References(values)          -> "no"
    [] /\ credential \in References(values)
       /\ phase \in {"pre-markers", "init-secrets"}  -> "unmade"
    [] OTHER                                         -> "made"

Proceed(p) == phase' = p /\ UNCHANGED <<values, history>>

\* Helm keeps the revision of an upgrade, deployed or failed, and drops one
\* when it has too many.  Revisions that are alike count once here, so that
\* it may be any of the earlier ones.
Keep(revision) ==
  history' \in {h \in SUBSET (history \cup {revision}) :
                  /\ revision \in h
                  /\ Cardinality(h) = Min({MaxHistory,
                                           Cardinality(history \cup {revision})})}

\* The end of an upgrade.
Finish(p) ==
  /\ phase' = p
  /\ values' = NoValues
  /\ Keep([mode |-> Mode(values), refers |-> Referring])

\* Every hook and the main phase may fail; what it has changed by then is
\* said in the action of its own.
Fail == Finish("failed")

\* Whether mode m leaves nothing half way.
Finishes(m) == bound \in {"free", m}

\* helm upgrade --install; Helm's lock admits one at a time.
Upgrade(v) ==
  /\ phase \in Ended
  /\ Renders(v)
  /\ values' = v
  /\ phase' = "pre-markers"
  /\ careless' = (careless \/ ~ Finishes(Mode(v)))
  /\ UNCHANGED <<accounts, late, secrets, history>>

\* helm uninstall runs no hook and leaves the ConfigMap, the Secret and the
\* databases.
Uninstall ==
  /\ phase \in {"deployed", "failed"}
  /\ phase' = "none"
  /\ serving' = "nothing"
  /\ refers' = "no"
  /\ history' = {}
  /\ UNCHANGED <<values, marker, home, bound, late, credential, generated,
                 careless>>

\* The Job is rendered when there is a marker, that is for Synapse.
PreMarkers ==
  /\ phase = "pre-markers"
  /\ \/ /\ values.synapse => marker \in AllowedValues(values) \cup {"absent"}
        /\ Proceed("init-secrets")
     \/ Fail
  /\ UNCHANGED <<accounts, late, secrets, careless>>

\* Faulty: the hook is one of the installation only.
InitSecretsOnInstall ==
  /\ phase = "init-secrets"
  /\ \/ /\ Proceed(IF Migrate(values) THEN "migration" ELSE "check-config")
        /\ generated' = (generated \/ /\ history = {}
                                      /\ credential \in RequestedKeys(values))
     \/ Fail /\ UNCHANGED generated
  /\ UNCHANGED <<accounts, late, credential, refers, careless>>

\* One type that the image does not know and nothing is generated.
InitSecrets ==
  LET known == RequestedTypes(values) \subseteq KnownTypes
      filled == generated \/ (known /\ credential \in RequestedKeys(values))
  IN /\ phase = "init-secrets"
     /\ \/ /\ known
           /\ Proceed(IF Migrate(values) THEN "migration" ELSE "check-config")
           /\ generated' = filled
        \/ /\ Fail
           /\ generated' \in {generated, filled}
     /\ UNCHANGED <<accounts, late, credential, refers, careless>>

\* The accounts are where they were, or migrated; a Job left behind by an
\* earlier upgrade is deleted, and this one may be left behind in turn.
Migration ==
  LET moved == IF home = "split" THEN "split" ELSE "mas"
  IN /\ phase = "migration"
     /\ \/ /\ Proceed("check-config")
           /\ home' = moved
           /\ lateMigration' = FALSE
        \/ /\ Fail
           /\ home' \in {home, moved}
           /\ lateMigration' \in BOOLEAN
     /\ bound' = IF home' # home \/ lateMigration' THEN Mode(values) ELSE bound
     /\ UNCHANGED <<serving, marker, lateMarker, secrets, careless>>

\* For Synapse's configuration, unless synapse.checkConfigHook is disabled.
CheckConfig ==
  /\ phase = "check-config"
  /\ \/ Proceed("main")
     \/ values.synapse /\ Fail
  /\ UNCHANGED <<accounts, late, secrets, careless>>

\* Where the accounts of users that are served in mode m end up.
Settled(m) ==
  CASE m = "nothing"                             -> home
    [] m = "legacy" /\ home \in {"none", "synapse"} -> "synapse"
    [] m = "delegated" /\ home \in {"none", "mas"}  -> "mas"
    [] OTHER                                     -> "split"

\* The manifests of a revision are applied.
Apply(mode, reference) ==
  /\ serving' = mode
  /\ home' = Settled(mode)
  /\ refers' = reference

\* Helm applies the manifests, and then may fail to see them ready.
Main ==
  /\ phase = "main"
  /\ \/ /\ Apply(Mode(values), Referring)
        /\ bound' = Mode(values)
        /\ \/ Proceed(IF DryRun(values) THEN "dry-run" ELSE "post-markers")
           \/ Fail
     \/ /\ Fail
        /\ UNCHANGED <<serving, home, bound, refers>>
  /\ UNCHANGED <<marker, late, credential, generated, careless>>

\* Faulty: the argument --dry-run is lost.
DryRunThatMigrates ==
  /\ phase = "dry-run"
  /\ \/ Proceed("post-markers")
     \/ Fail
  /\ home' = "mas"
  /\ lateMigration' = FALSE
  /\ UNCHANGED <<serving, marker, bound, lateMarker, secrets, careless>>

\* The same Job as that of the migration, hence the one left behind is gone.
DryRunHook ==
  /\ phase = "dry-run"
  /\ \/ Proceed("post-markers")
     \/ Fail
  /\ lateMigration' = FALSE
  /\ UNCHANGED <<accounts, lateMarker, secrets, careless>>

PostMarkers ==
  /\ phase = "post-markers"
  /\ \/ /\ Finish("deployed")
        /\ bound' = "free"
        /\ IF values.synapse
           THEN marker' = NewValue(values) /\ lateMarker' = "absent"
           ELSE UNCHANGED <<marker, lateMarker>>
     \/ /\ values.synapse
        /\ Fail
        /\ UNCHANGED bound
        /\ marker' \in {marker, NewValue(values)}
        /\ lateMarker' \in {"absent", NewValue(values)}
  /\ UNCHANGED <<serving, home, lateMigration, secrets, careless>>

\* Whether the marker tells that the accounts are where mode m looks for them.
\* docs/syn2mas.md has it that there is no way back from delegated_auth; a
\* rollback runs no hook that would look.
Admits(m) ==
  /\ m = "legacy" => marker = "legacy_auth"
  /\ m = "delegated" => Migrated(marker)

\* helm rollback: the manifests of any revision that Helm keeps, whether it
\* was deployed or failed, without any hook.
Rollback(r) ==
  /\ MayRollBack
  /\ phase \in {"deployed", "failed"}
  /\ \/ Apply(r.mode, r.refers) /\ phase' \in {"deployed", "failed"}
     \/ UNCHANGED <<serving, home, refers>> /\ phase' = "failed"
  /\ careless' = (careless \/ ~ Finishes(r.mode) \/ ~ Admits(r.mode))
  /\ UNCHANGED <<values, marker, bound, late, credential, generated, history>>
-------------------------------------------------------------------------------
(***************************************************************************)
(* A Job that Helm no longer waits for.                                    *)
(***************************************************************************)
LateMarker ==
  /\ lateMarker # "absent"
  /\ marker' = lateMarker
  /\ lateMarker' = "absent"
  /\ UNCHANGED <<values, phase, serving, home, bound, lateMigration, secrets,
                 history, careless>>

LateMigration ==
  /\ lateMigration
  /\ home = "synapse"
  /\ home' = "mas"
  /\ lateMigration' = FALSE
  /\ UNCHANGED <<values, phase, serving, marker, bound, lateMarker, secrets,
                 history, careless>>

Next ==
  \/ \E v \in Values : Upgrade(v)
  \/ Uninstall
  \/ PreMarkers
  \/ InitSecrets
  \/ Migration
  \/ CheckConfig
  \/ Main
  \/ DryRunHook
  \/ PostMarkers
  \/ \E r \in history : Rollback(r)
  \/ LateMarker
  \/ LateMigration

Spec == Init /\ [][Next]_vars
-------------------------------------------------------------------------------
(***************************************************************************)
(* Properties                                                              *)
(***************************************************************************)

\* The type of every variable.
TypeOK ==
  /\ values \in Values \cup {NoValues}
  /\ phase \in Phases \cup Ended
  /\ values = NoValues <=> phase \in Ended
  /\ serving \in Modes
  /\ marker \in MarkerValues \cup {"absent"}
  /\ home \in {"none", "synapse", "mas", "split"}
  /\ bound \in Modes \cup {"free"}
  /\ lateMarker \in MarkerValues \cup {"absent"}
  /\ lateMigration \in BOOLEAN
  /\ credential \in Followed
  /\ generated \in BOOLEAN
  /\ refers \in Reference
  /\ history \subseteq Revisions
  /\ careless \in BOOLEAN

\* As long as the operator finishes in its mode what has failed half way and
\* rolls back to no mode that the marker does not admit, the accounts live in
\* one place and move only from Synapse to Matrix Authentication Service,
\* wherever upgrades fail (the markers of deployment-markers/_helpers.tpl with
\* the order of the hooks).  After the first upgrade or rollback against that
\* nothing is said.
Place == INSTANCE Accounts

ImplementsAccounts == Place!Init /\ [][careless' \/ Place!Next]_home

\* "Prevent downgrading from syn2mas_migrated/delegated_auth back to
\* legacy_auth" (docs/syn2mas.md), also with Jobs of earlier upgrades still
\* at work, with the same operator.
MarkerNeverGoesBack ==
  [][Migrated(marker) /\ ~ careless' => Migrated(marker')]_vars

\* When an upgrade of a stack with Synapse has succeeded, or a rollback has,
\* the marker tells where the accounts are, which is where the deployed mode
\* looks for them; with the same operator.
MarkerIsTrue ==
  phase = "deployed" /\ serving # "nothing" /\ ~ careless =>
    /\ marker = "legacy_auth" <=> home = "synapse"
    /\ Migrated(marker) <=> home = "mas"
    /\ serving = "legacy" <=> home = "synapse"

\* Synapse is scaled back with the configuration of the old release before
\* the new one is applied (syn2mas.go), so that it authenticates users that
\* have been migrated; but, with the same operator, only until the upgrade
\* that migrates them has succeeded, and that one is left to be finished.
LegacyOnlyInWindow ==
  serving = "legacy" /\ home = "mas" /\ ~ careless => bound = "delegated"

\* No pod waits for a credential that nobody makes: what the deployed
\* manifests read from <release>-generated is there, however many upgrades
\* with other values, failures, rollbacks and installations anew have come
\* before, and whatever the operator does (init-secrets/_helpers.tpl against
\* the templates that refer to the keys); and it is there before the hooks
\* that mount it run.  The exception is a rollback to the manifests of an
\* upgrade that has failed in a hook before its credentials were made, as long
\* as these manifests stay: a rollback makes none.
CredentialsArePresent ==
  \/ generated
  \/ /\ refers # "made"
     /\ phase \in {"migration", "check-config", "main", "dry-run",
                   "post-markers"} =>
          credential \notin References(values)

\* _helpers.tpl of the deployment markers: "This effectively prevents
\* disabling Matrix Authentication Service once it has been enabled."
MasIsNotDisabled ==
  [][serving = "delegated" => serving' # "legacy"]_vars
===============================================================================
