----------------------------- MODULE ReleaseProof -----------------------------
(***************************************************************************)
(* Proofs about Release, for any values that the operator may try and any  *)
(* credential that is followed.                                            *)
(*                                                                         *)
(* That what is deployed refers only to credentials that are there rests   *)
(* on a fact about the templates: References(v) is a subset of             *)
(* RequestedKeys(v) for all values that render, although the two are       *)
(* written in different files.  That the accounts stay in one place needs  *)
(* an operator who has not been careless.  The invariant then says, of all *)
(* states between two upgrades, that either the marker tells where the     *)
(* accounts are or an upgrade is left to be finished in the mode that      *)
(* does; a rollback to a mode that the marker admits fits both.            *)
(***************************************************************************)
EXTENDS Release, CredentialsProof

\* What the marker says of the accounts.
Markers ==
  /\ marker = "legacy_auth" => home \in {"synapse", "mas"}
  /\ Migrated(marker) => home = "mas"
  /\ lateMarker = "legacy_auth" => bound = "legacy"
  /\ Migrated(lateMarker) => home = "mas"

\* Where the marker does not tell, an upgrade is left to be finished, and
\* its mode does.
Unfinished ==
  /\ home = "synapse" /\ marker # "legacy_auth" => bound = "legacy"
  /\ home = "mas" /\ ~ Migrated(marker) => bound = "delegated"
  /\ home = "mas" /\ serving = "legacy" => bound = "delegated"
  /\ lateMigration /\ home # "mas" => bound = "delegated"
  /\ bound = "legacy" => home = "synapse"

\* What serves users has them, and the marker was there once it was deployed.
Served ==
  /\ serving = "legacy" => home \in {"synapse", "mas"}
  /\ serving = "delegated" => home = "mas"
  /\ phase = "deployed" /\ serving = "legacy" =>
       home = "synapse" /\ marker = "legacy_auth" /\ bound # "delegated"
  /\ phase = "deployed" /\ serving = "delegated" => Migrated(marker)

\* How far an upgrade has come.
Upgrading ==
  /\ phase \in Phases => bound \in {"free", Mode(values)}
  /\ phase \in Phases \ {"pre-markers"} =>
       /\ Mode(values) = "legacy" => home \in {"none", "synapse"}
       /\ Mode(values) = "delegated" /\ ~ Migrate(values) => home \in {"none", "mas"}
  /\ phase = "migration" => Migrate(values)
  /\ phase \in {"check-config", "main"} /\ Migrate(values) => home = "mas"
  /\ phase \in {"dry-run", "post-markers"} =>
       /\ serving = Mode(values) /\ bound = Mode(values)
       /\ Mode(values) = "legacy" => home = "synapse"
       /\ Mode(values) = "delegated" => home = "mas"
  /\ phase = "dry-run" => DryRun(values)

CarefulInv == home # "split" /\ Markers /\ Unfinished /\ Served /\ Upgrading

\* Nothing refers to a credential before it is generated.
Present ==
  /\ phase \in Phases => Renders(values)
  /\ refers = "made" => generated
  /\ \A r \in history : r.refers = "made" => generated
  /\ phase \in Phases \ {"pre-markers", "init-secrets"} /\ ~ generated =>
       credential \notin References(values)

-------------------------------------------------------------------------------
\* The mode, the value of the marker and the values that may be replaced.
LEMMA ModeFacts ==
  ASSUME NEW v
  PROVE  /\ Mode(v) \in Modes
         /\ v.synapse <=> Mode(v) # "nothing"
         /\ Mode(v) = "legacy" =>
              /\ NewValue(v) = "legacy_auth"
              /\ AllowedValues(v) = {"legacy_auth"}
              /\ ~ Migrate(v)
         /\ Mode(v) = "delegated" =>
              /\ Migrated(NewValue(v))
              /\ ~ Migrate(v) => \A m \in AllowedValues(v) : Migrated(m)
         /\ Migrate(v) => Mode(v) = "delegated"
         /\ DryRun(v) => Mode(v) = "legacy"
         /\ NewValue(v) \in MarkerValues
<1>1. CASE ~ v.synapse
  BY <1>1 DEF Mode, Migrate, DryRun, Modes, NewValue, MarkerValues
<1>2. CASE v.synapse /\ ~ ReadyToHandleAuth(v)
  <2>1. Mode(v) = "legacy"
    BY <1>2 DEF Mode
  <2>2. ~ v.mas \/ DryRun(v)
    BY <1>2 DEF ReadyToHandleAuth, DryRun
  <2>3. ~ Migrate(v)
    BY <2>2 DEF Migrate, DryRun
  <2>4. NewValue(v) = "legacy_auth" /\ AllowedValues(v) = {"legacy_auth"}
    BY <2>2, <2>3 DEF NewValue, AllowedValues
  <2> QED
    BY <1>2, <2>1, <2>3, <2>4 DEF Modes, MarkerValues
<1>3. CASE v.synapse /\ ReadyToHandleAuth(v)
  <2>1. Mode(v) = "delegated"
    BY <1>3 DEF Mode
  <2>2. v.mas /\ ~ DryRun(v)
    BY <1>3 DEF ReadyToHandleAuth, DryRun
  <2>3. CASE Migrate(v)
    BY <1>3, <2>1, <2>2, <2>3 DEF NewValue, Migrated, Modes, MarkerValues
  <2>4. CASE ~ Migrate(v)
    BY <1>3, <2>1, <2>2, <2>4
       DEF NewValue, AllowedValues, Migrated, Modes, MarkerValues
  <2> QED
    BY <2>3, <2>4
<1> QED
  BY <1>1, <1>2, <1>3

LEMMA InitInv == Init => TypeOK /\ CarefulInv /\ Present
BY ReleaseAssumption
   DEF Init, TypeOK, Ended, Modes, CarefulInv, Markers, Unfinished, Served,
       Upgrading, Present, Phases, Migrated, Reference

\* The manifests of the upgrade that runs, as Helm keeps them.
Revision == [mode |-> Mode(values), refers |-> Referring]

\* No revision comes into the history but that of an upgrade that ends.
LEMMA HistoryStep ==
  ASSUME [Next]_vars
  PROVE  \A r \in history' : r \in history \/ (phase \in Phases /\ r = Revision)
<1> USE DEF accounts, late, secrets
<1>1. ASSUME NEW p, Finish(p) PROVE history' \subseteq history \cup {Revision}
  BY <1>1 DEF Finish, Keep, Revision
<1>2. CASE \/ PreMarkers \/ InitSecrets \/ Migration \/ CheckConfig \/ Main
           \/ DryRunHook \/ PostMarkers
  <2>1. phase \in Phases
    BY <1>2 DEF PreMarkers, InitSecrets, Migration, CheckConfig, Main,
                DryRunHook, PostMarkers, Phases
  <2>2. history' = history \/ \E p \in Ended : Finish(p)
    BY <1>2 DEF PreMarkers, InitSecrets, Migration, CheckConfig, Main,
                DryRunHook, PostMarkers, Proceed, Fail, Ended
  <2> QED
    BY <1>1, <2>1, <2>2
<1>3. CASE Uninstall
  BY <1>3 DEF Uninstall
<1>4. CASE ~ Uninstall /\ ~ (\/ PreMarkers \/ InitSecrets \/ Migration
                             \/ CheckConfig \/ Main \/ DryRunHook
                             \/ PostMarkers)
  BY <1>4 DEF Next, Upgrade, Rollback, LateMarker, LateMigration, vars
<1> QED
  BY <1>2, <1>3, <1>4

LEMMA NextTypeOK ==
  ASSUME TypeOK, [Next]_vars
  PROVE  TypeOK'
<1> USE ReleaseAssumption DEF accounts, late, secrets
<1>0. history' \subseteq Revisions
  <2>1. Mode(values) \in Modes /\ Referring \in Reference
    BY ModeFacts DEF Referring, Reference
  <2>2. Revision \in Revisions
    BY <2>1 DEF Revision, Revisions
  <2> QED
    BY <2>2, HistoryStep DEF TypeOK
<1>1. ASSUME NEW v \in Values, Upgrade(v) PROVE TypeOK'
  BY <1>0, <1>1 DEF Upgrade, TypeOK, Phases, Ended
<1>2. CASE Uninstall
  BY <1>0, <1>2 DEF Uninstall, TypeOK, Phases, Ended, Modes, Reference
<1>3. CASE PreMarkers
  BY <1>0, <1>3 DEF PreMarkers, Proceed, Fail, Finish, TypeOK, Phases, Ended
<1>4. CASE InitSecrets
  <2>1. generated' \in BOOLEAN
    BY <1>4 DEF InitSecrets, TypeOK
  <2>2. \/ phase' \in {"migration", "check-config"} /\ UNCHANGED values
        \/ phase' = "failed" /\ values' = NoValues
    BY <1>4 DEF InitSecrets, Proceed, Fail, Finish
  <2>3. phase = "init-secrets" /\ UNCHANGED <<accounts, late, credential,
                                              refers, careless>>
    BY <1>4 DEF InitSecrets
  <2>4. /\ values' \in Values \cup {NoValues}
        /\ phase' \in Phases \cup Ended
        /\ values' = NoValues <=> phase' \in Ended
    BY <2>2, <2>3 DEF TypeOK, Phases, Ended
  <2> QED
    BY <1>0, <2>1, <2>3, <2>4 DEF TypeOK
<1>5. CASE Migration
  BY <1>0, <1>5, ModeFacts DEF Migration, Proceed, Fail, Finish, TypeOK, Phases, Ended
<1>6. CASE CheckConfig
  BY <1>0, <1>6 DEF CheckConfig, Proceed, Fail, Finish, TypeOK, Phases, Ended
<1>7. CASE Main
  <2>1. refers' \in Reference
    BY <1>7 DEF Main, Apply, Referring, Reference, TypeOK
  <2>2. serving' \in Modes /\ bound' \in Modes \cup {"free"}
    BY <1>7, ModeFacts DEF Main, Apply, TypeOK
  <2>3. home' \in {"none", "synapse", "mas", "split"}
    BY <1>7 DEF Main, Apply, Settled, TypeOK
  <2>4. \/ phase' \in {"dry-run", "post-markers"} /\ UNCHANGED values
        \/ phase' = "failed" /\ values' = NoValues
    BY <1>7 DEF Main, Proceed, Fail, Finish
  <2>5. phase = "main" /\ UNCHANGED <<marker, late, credential, generated,
                                      careless>>
    BY <1>7 DEF Main
  <2>6. /\ values' \in Values \cup {NoValues}
        /\ phase' \in Phases \cup Ended
        /\ values' = NoValues <=> phase' \in Ended
    BY <2>4, <2>5 DEF TypeOK, Phases, Ended
  <2> QED
    BY <1>0, <2>1, <2>2, <2>3, <2>5, <2>6 DEF TypeOK
<1>8. CASE DryRunHook
  BY <1>0, <1>8 DEF DryRunHook, Proceed, Fail, Finish, TypeOK, Phases, Ended
<1>9. CASE PostMarkers
  BY <1>0, <1>9, ModeFacts DEF PostMarkers, Fail, Finish, TypeOK, Phases, Ended
<1>10. ASSUME NEW r \in history, Rollback(r) PROVE TypeOK'
  <2>1. r.mode \in Modes /\ r.refers \in Reference
    BY DEF TypeOK, Revisions
  <2> QED
    BY <1>0, <1>10, <2>1
       DEF Rollback, Apply, Settled, TypeOK, Phases, Ended, Modes
<1>11. CASE LateMarker
  BY <1>0, <1>11 DEF LateMarker, TypeOK
<1>12. CASE LateMigration
  BY <1>0, <1>12 DEF LateMigration, TypeOK
<1>13. CASE UNCHANGED vars
  BY <1>0, <1>13 DEF vars, TypeOK
<1> QED
  BY <1>1, <1>2, <1>3, <1>4, <1>5, <1>6, <1>7, <1>8, <1>9, <1>10, <1>11, <1>12,
     <1>13 DEF Next

-------------------------------------------------------------------------------
LEMMA NextPresent ==
  ASSUME TypeOK, Present, [Next]_vars
  PROVE  Present'
<1> USE DEF accounts, late, secrets
<1>a. generated => generated'
  BY DEF Next, Upgrade, Uninstall, PreMarkers, InitSecrets, Migration,
         CheckConfig, Main, DryRunHook, PostMarkers, Rollback, LateMarker,
         LateMigration, vars
<1>0. \A r \in history' : r.refers = "made" => generated'
  <2>1. phase \in Phases /\ Referring = "made" => generated
    BY DEF Present, Referring
  <2> QED
    BY <1>a, <2>1, HistoryStep DEF Present, Revision
<1>1. ASSUME NEW v \in Values, Upgrade(v) PROVE Present'
  BY <1>0, <1>1 DEF Upgrade, Present, Phases
<1>2. CASE Uninstall
  BY <1>0, <1>2 DEF Uninstall, Finish, Present, Phases
<1>3. CASE PreMarkers
  BY <1>0, <1>3 DEF PreMarkers, Proceed, Fail, Finish, Present, Phases
<1>4. CASE InitSecrets
  <2>1. generated => generated'
    BY <1>4 DEF InitSecrets, TypeOK
  <2>2. \/ /\ phase' \in {"migration", "check-config"} /\ UNCHANGED values
           /\ credential \in RequestedKeys(values) => generated'
        \/ phase' = "failed"
    BY <1>4 DEF InitSecrets, Proceed, Fail, Finish
  <2>3. Renders(values) => References(values) \subseteq RequestedKeys(values)
    BY ReferencesAreRequested
  <2>4. phase = "init-secrets" /\ UNCHANGED <<credential, refers>>
    BY <1>4 DEF InitSecrets
  <2> QED
    BY <1>0, <2>1, <2>2, <2>3, <2>4 DEF Present, Phases
<1>5. CASE Migration
  BY <1>0, <1>5 DEF Migration, Proceed, Fail, Finish, Present, Phases
<1>6. CASE CheckConfig
  BY <1>0, <1>6 DEF CheckConfig, Proceed, Fail, Finish, Present, Phases
<1>7. CASE Main
  <2>1. refers' = Referring \/ refers' = refers
    BY <1>7 DEF Main, Apply
  <2>2. phase = "main" /\ UNCHANGED <<credential, generated>>
    BY <1>7 DEF Main
  <2>3. refers' = "made" => generated'
    BY <2>1, <2>2 DEF Present, Phases, Referring
  <2>4. \/ phase' \in {"dry-run", "post-markers"} /\ UNCHANGED values
        \/ phase' = "failed"
    BY <1>7 DEF Main, Proceed, Fail, Finish
  <2> QED
    BY <1>0, <2>2, <2>3, <2>4 DEF Present, Phases
<1>8. CASE DryRunHook
  BY <1>0, <1>8 DEF DryRunHook, Proceed, Fail, Finish, Present, Phases
<1>9. CASE PostMarkers
  BY <1>0, <1>9 DEF PostMarkers, Fail, Finish, Present, Phases
<1>10. ASSUME NEW r \in history, Rollback(r) PROVE Present'
  BY <1>0, <1>10 DEF Rollback, Apply, Present, Phases
<1>11. CASE LateMarker
  BY <1>0, <1>11 DEF LateMarker, Present
<1>12. CASE LateMigration
  BY <1>0, <1>12 DEF LateMigration, Present
<1>13. CASE UNCHANGED vars
  BY <1>0, <1>13 DEF vars, Present
<1> QED
  BY <1>1, <1>2, <1>3, <1>4, <1>5, <1>6, <1>7, <1>8, <1>9, <1>10, <1>11, <1>12,
     <1>13 DEF Next

-------------------------------------------------------------------------------
LEMMA NextCareful ==
  ASSUME TypeOK, CarefulInv, [Next]_vars, ~ careless'
  PROVE  CarefulInv'
<1> USE DEF accounts, late, secrets
<1>1. ASSUME NEW v \in Values, Upgrade(v) PROVE CarefulInv'
  BY <1>1, ReleaseAssumption DEF Upgrade, Finishes, TypeOK, Phases, Ended,
     CarefulInv, Markers, Unfinished, Served, Upgrading
<1>2. CASE Uninstall
  BY <1>2 DEF Uninstall, Finish, Phases, 
     CarefulInv, Markers, Unfinished, Served, Upgrading
<1>3. CASE PreMarkers
  BY <1>3, ModeFacts DEF PreMarkers, Proceed, Fail, Finish, TypeOK, Phases, Migrated,
     CarefulInv, Markers, Unfinished, Served, Upgrading
<1>4. CASE InitSecrets
  BY <1>4, ModeFacts DEF InitSecrets, Proceed, Fail, Finish, Phases,
     CarefulInv, Markers, Unfinished, Served, Upgrading
<1>5. CASE Migration
  BY <1>5, ModeFacts DEF Migration, Proceed, Fail, Finish, TypeOK, Phases,
     CarefulInv, Markers, Unfinished, Served, Upgrading
<1>6. CASE CheckConfig
  BY <1>6, ModeFacts DEF CheckConfig, Proceed, Fail, Finish, Phases,
     CarefulInv, Markers, Unfinished, Served, Upgrading
<1>7. CASE Main
  BY <1>7, ModeFacts DEF Main, Apply, Settled, Proceed, Fail, Finish, TypeOK, Phases, Modes,
     CarefulInv, Markers, Unfinished, Served, Upgrading
<1>8. CASE DryRunHook
  BY <1>8, ModeFacts DEF DryRunHook, Proceed, Fail, Finish, Phases,
     CarefulInv, Markers, Unfinished, Served, Upgrading
<1>9. CASE PostMarkers
  BY <1>9, ModeFacts DEF PostMarkers, Fail, Finish, TypeOK, Phases, Migrated, Modes,
     CarefulInv, Markers, Unfinished, Served, Upgrading
<1>10. ASSUME NEW r \in history, Rollback(r) PROVE CarefulInv'
  <2>1. /\ phase \in {"deployed", "failed"} /\ phase' \in {"deployed", "failed"}
        /\ r.mode \in Modes
        /\ bound \in {"free", r.mode} /\ Admits(r.mode)
        /\ UNCHANGED <<marker, bound, lateMarker, lateMigration>>
    BY <1>10 DEF Rollback, Finishes, TypeOK, Revisions
  <2>2. \/ /\ serving' = r.mode
           /\ home' = Settled(r.mode)
        \/ /\ UNCHANGED <<serving, home>>
           /\ phase' = "failed"
    BY <1>10 DEF Rollback, Apply
  <2>3. /\ r.mode = "legacy" => home = "synapse" /\ marker = "legacy_auth"
        /\ r.mode = "delegated" => home = "mas" /\ Migrated(marker)
    BY <2>1 DEF Admits, CarefulInv, Markers, Unfinished, Migrated
  <2>4. home' = home
    BY <2>1, <2>2, <2>3 DEF Settled, Modes
  <2>5. Markers' /\ Unfinished'
    BY <2>1, <2>2, <2>3, <2>4 DEF CarefulInv, Markers, Unfinished, Modes, Migrated
  <2>6. Served'
    BY <2>1, <2>2, <2>3, <2>4 DEF CarefulInv, Served, Migrated
  <2>7. Upgrading'
    BY <2>1 DEF Upgrading, Phases
  <2> QED
    BY <2>4, <2>5, <2>6, <2>7 DEF CarefulInv
<1>11. CASE LateMarker
  BY <1>11 DEF LateMarker, TypeOK, MarkerValues, Migrated,
     CarefulInv, Markers, Unfinished, Served, Upgrading
<1>12. CASE LateMigration
  BY <1>12, ModeFacts DEF LateMigration, TypeOK, Phases, Migrated,
     CarefulInv, Markers, Unfinished, Served, Upgrading
<1>13. CASE UNCHANGED vars
  BY <1>13 DEF vars,
     CarefulInv, Markers, Unfinished, Served, Upgrading
<1> QED
  BY <1>1, <1>2, <1>3, <1>4, <1>5, <1>6, <1>7, <1>8, <1>9, <1>10, <1>11, <1>12,
     <1>13 DEF Next

-------------------------------------------------------------------------------
\* Without any promise of the operator, types and credentials are kept: the
\* part of the invariant that carries TypeCorrect and CredentialsPresent.
THEOREM Invariant == Spec => [](TypeOK /\ Present)
<1>1. Init => TypeOK /\ Present
  BY InitInv
<1>2. TypeOK /\ Present /\ [Next]_vars => TypeOK' /\ Present'
  BY NextTypeOK, NextPresent
<1> QED
  BY <1>1, <1>2, PTL DEF Spec

\* A careless step is not forgotten.
LEMMA NextCareless ==
  ASSUME [Next]_vars, careless
  PROVE  careless'
BY DEF Next, Upgrade, Uninstall, PreMarkers, InitSecrets, Migration,
       CheckConfig, Main, DryRunHook, PostMarkers, Rollback, LateMarker,
       LateMigration, vars

\* As long as the operator has not been careless, the marker, the deployed
\* mode and the place of the accounts stay in step: the part that carries the
\* other theorems.
THEOREM CarefulInvariant == Spec => [](careless \/ CarefulInv)
<1>1. Init => CarefulInv
  BY InitInv
<1>2. TypeOK /\ (careless \/ CarefulInv) /\ [Next]_vars =>
        (careless \/ CarefulInv)'
  BY NextCareful, NextCareless
<1> QED
  BY <1>1, <1>2, Invariant, PTL DEF Spec

\* Every variable keeps its type.
THEOREM TypeCorrect == Spec => []TypeOK
BY Invariant, PTL

\* Whatever the operator does, the hooks that run mount no credential of
\* <release>-generated that is not there, and neither do the deployed
\* manifests, a rollback to those of an upgrade that has failed before its
\* credentials were made aside.
THEOREM CredentialsPresent == Spec => []CredentialsArePresent
<1>1. Present => CredentialsArePresent
  BY DEF Present, CredentialsArePresent, Phases
<1> QED
  BY <1>1, Invariant, PTL

\* As long as the operator has not been careless, a deployed stack serves its users from the place
\* where the accounts are, and the marker names it.
THEOREM MarkerTrue == Spec => []MarkerIsTrue
<1>1. TypeOK /\ (careless \/ CarefulInv) => MarkerIsTrue
  BY DEF TypeOK, CarefulInv, Markers, Served, MarkerIsTrue, Modes, Migrated
<1> QED
  BY <1>1, Invariant, CarefulInvariant, PTL

\* As long as the operator has not been careless, users that have been
\* migrated meet the old way of authentication only until the upgrade that migrates them is finished.
THEOREM LegacyInWindow == Spec => []LegacyOnlyInWindow
<1>1. careless \/ CarefulInv => LegacyOnlyInWindow
  BY DEF CarefulInv, Unfinished, LegacyOnlyInWindow
<1> QED
  BY <1>1, CarefulInvariant, PTL

\* What a step does to the marker and to the accounts.
LEMMA Effects ==
  ASSUME TypeOK, CarefulInv, [Next]_vars, CarefulInv'
  PROVE  /\ Migrated(marker) => Migrated(marker')
         /\ \/ home' = home
            \/ home = "none" /\ home' \in {"synapse", "mas"}
            \/ home = "synapse" /\ home' = "mas"
<1> USE DEF accounts, late, secrets
<1>1. home' \in {"none", "synapse", "mas"}
  BY NextTypeOK DEF TypeOK, CarefulInv
<1>2. home' = home \/ home = "none" \/ home' = "mas"
  BY DEF Next, Upgrade, Uninstall, PreMarkers, InitSecrets, Migration,
         CheckConfig, Main, DryRunHook, PostMarkers, Rollback, LateMarker,
         LateMigration, Apply, Settled, vars, CarefulInv
<1>3. \/ marker' = marker
      \/ lateMarker # "absent" /\ marker' = lateMarker
      \/ phase = "post-markers" /\ values.synapse /\ marker' = NewValue(values)
  BY DEF Next, Upgrade, Uninstall, PreMarkers, InitSecrets, Migration,
         CheckConfig, Main, DryRunHook, PostMarkers, Rollback, LateMarker,
         LateMigration, vars
<1>4. ASSUME Migrated(marker), lateMarker # "absent" PROVE Migrated(lateMarker)
  <2>1. home = "mas" /\ lateMarker # "legacy_auth"
    BY <1>4 DEF CarefulInv, Markers, Unfinished
  <2> QED
    BY <1>4, <2>1 DEF TypeOK, MarkerValues, Migrated
<1>5. ASSUME Migrated(marker), phase = "post-markers", values.synapse
      PROVE  Migrated(NewValue(values))
  <2>1. home = "mas"
    BY <1>5 DEF CarefulInv, Markers
  <2>2. Mode(values) = "delegated"
    BY <1>5, <2>1, ModeFacts DEF CarefulInv, Upgrading, Modes
  <2> QED
    BY <2>2, ModeFacts
<1>6. Migrated(marker) => Migrated(marker')
  BY <1>3, <1>4, <1>5
<1>7. \/ home' = home
      \/ home = "none" /\ home' \in {"synapse", "mas"}
      \/ home = "synapse" /\ home' = "mas"
  BY <1>1, <1>2 DEF TypeOK, CarefulInv
<1> QED
  BY <1>6, <1>7

\* As long as the operator has not been careless, the marker never tells again that accounts which
\* have been migrated are Synapse's, although a Job of an earlier upgrade may
\* still store its value.
THEOREM MarkerStays == Spec => MarkerNeverGoesBack
<1>1. TypeOK /\ (careless \/ CarefulInv) /\ [Next]_vars =>
        (Migrated(marker) /\ ~ careless' => Migrated(marker'))
  BY NextCareless, NextCareful, Effects
<1> QED
  BY <1>1, Invariant, CarefulInvariant, PTL DEF Spec, MarkerNeverGoesBack

\* As long as the operator has not been careless, the accounts live in one place and move once.
THEOREM AccountsMoveOnce == Spec => ImplementsAccounts
<1>1. Init => Place!Init
  BY DEF Init, Place!Init
<1>2. TypeOK /\ (careless \/ CarefulInv) /\ [Next]_vars =>
        [careless' \/ Place!Next]_home
  BY NextCareless, NextCareful, Effects DEF Place!Next, Place!Settle, Place!Move
<1> QED
  BY <1>1, <1>2, Invariant, CarefulInvariant, PTL
     DEF Spec, ImplementsAccounts

-------------------------------------------------------------------------------
(***************************************************************************)
(* What it takes that Matrix Authentication Service, once enabled, is not  *)
(* disabled: an operator who is not careless, or an upgrade with it that   *)
(* has succeeded, and no rollbacks.                                        *)
(***************************************************************************)

\* Who serves users in the new mode serves them so for good, or nobody.
LEMMA NoReturn ==
  ASSUME TypeOK, CarefulInv, [Next]_vars, ~ careless',
         home = "mas", serving # "legacy"
  PROVE  home' = "mas" /\ serving' # "legacy"
<1>1. home' = "mas"
  <2>1. CarefulInv'
    BY NextCareful
  <2> QED
    BY <2>1, Effects
<1>2. CASE Main
  <2>1. Mode(values) # "legacy"
    BY <1>2 DEF Main, CarefulInv, Upgrading, Phases
  <2>2. serving' = Mode(values) \/ serving' = serving
    BY <1>2 DEF Main, Apply
  <2> QED
    BY <1>1, <2>1, <2>2
<1>3. ASSUME NEW r \in history, Rollback(r) PROVE home' = "mas" /\ serving' # "legacy"
  <2>1. bound \in {"free", r.mode} /\ Admits(r.mode)
    BY <1>3 DEF Rollback, Finishes
  <2>2. r.mode # "legacy"
    BY <2>1 DEF Admits, CarefulInv, Unfinished, Migrated
  <2>3. serving' = r.mode \/ serving' = serving
    BY <1>3 DEF Rollback, Apply
  <2> QED
    BY <1>1, <2>2, <2>3
<1>4. CASE Uninstall
  BY <1>1, <1>4 DEF Uninstall
<1>5. CASE ~ Main /\ ~ Uninstall /\ ~ \E r \in history : Rollback(r)
  <2>1. serving' = serving
    BY <1>5
       DEF Next, Upgrade, PreMarkers, InitSecrets, Migration, CheckConfig,
           DryRunHook, PostMarkers, LateMarker, LateMigration, vars, accounts
  <2> QED
    BY <1>1, <2>1
<1> QED
  BY <1>2, <1>3, <1>4, <1>5

\* As long as the operator has not been careless, the sentences of the
\* template and of the documentation that two runs refute hold: no step
\* disables Matrix Authentication Service, and no rollback.
THEOREM CarefulDoesNotDisable ==
  Spec => [][serving = "delegated" /\ ~ careless' => serving' # "legacy"]_vars
<1>1. TypeOK /\ (careless \/ CarefulInv) /\ [Next]_vars =>
        (serving = "delegated" /\ ~ careless' => serving' # "legacy")
  <2> SUFFICES ASSUME TypeOK, careless \/ CarefulInv, [Next]_vars,
                      serving = "delegated", ~ careless'
               PROVE  serving' # "legacy"
    OBVIOUS
  <2>0. CarefulInv
    BY NextCareless
  <2>1. home = "mas"
    BY <2>0 DEF CarefulInv, Served
  <2> QED
    BY <2>0, <2>1, NoReturn
<1> QED
  BY <1>1, Invariant, CarefulInvariant, PTL DEF Spec

\* Nor do several steps: whatever is uninstalled, installed anew, upgraded or
\* rolled back, users that were served by Matrix Authentication Service once
\* are not authenticated by Synapse again before a careless step.
THEOREM CarefulStaysDelegated ==
  Spec => [](serving = "delegated" => [](careless \/ serving # "legacy"))
<1> DEFINE Delegated == careless \/ (home = "mas" /\ serving # "legacy")
<1>1. (careless \/ CarefulInv) /\ serving = "delegated" => Delegated
  BY DEF CarefulInv, Served
<1>2. TypeOK /\ (careless \/ CarefulInv) /\ Delegated /\ [Next]_vars => Delegated'
  BY NextCareless, NoReturn
<1>3. Delegated => careless \/ serving # "legacy"
  OBVIOUS
<1> HIDE DEF Delegated
<1> QED
  BY <1>1, <1>2, <1>3, Invariant, CarefulInvariant, PTL DEF Spec

\* The marker is stored, no Job is left that undoes it, and an upgrade that
\* has it compared has not been let through to the old mode.
Protected ==
  /\ Migrated(marker)
  /\ lateMarker # "legacy_auth"
  /\ phase \in Phases \ {"pre-markers"} => Mode(values) # "legacy"

\* An upgrade that has succeeded has stored its marker and left no Job.
Stored ==
  /\ phase \in {"dry-run", "post-markers"} => serving = Mode(values)
  /\ phase = "deployed" /\ serving = "delegated" =>
       Migrated(marker) /\ lateMarker = "absent"

LEMMA NextStored ==
  ASSUME ~ MayRollBack, TypeOK, Stored, [Next]_vars
  PROVE  Stored'
<1> USE DEF accounts, late, secrets
<1>1. ASSUME NEW v \in Values, Upgrade(v) PROVE Stored'
  BY <1>1 DEF Upgrade, Stored
<1>2. CASE \/ Uninstall \/ PreMarkers \/ InitSecrets \/ Migration
           \/ CheckConfig
  BY <1>2 DEF Uninstall, PreMarkers, InitSecrets, Migration, CheckConfig,
              Proceed, Fail, Finish, Stored
<1>3. CASE Main
  BY <1>3 DEF Main, Apply, Proceed, Fail, Finish, Stored
<1>4. CASE DryRunHook
  BY <1>4 DEF DryRunHook, Proceed, Fail, Finish, Stored
<1>5. CASE PostMarkers
  BY <1>5, ModeFacts DEF PostMarkers, Fail, Finish, Stored
<1>6. CASE LateMarker \/ LateMigration
  BY <1>6 DEF LateMarker, LateMigration, Stored
<1>7. CASE UNCHANGED vars
  BY <1>7 DEF vars, Stored
<1>8. ~ \E r \in history : Rollback(r)
  BY DEF Rollback
<1> QED
  BY <1>1, <1>2, <1>3, <1>4, <1>5, <1>6, <1>7, <1>8 DEF Next

\* No upgrade gets past the check of a stored marker to the old mode.
LEMMA ProtectedStays ==
  ASSUME ~ MayRollBack, TypeOK, Protected, [Next]_vars
  PROVE  Protected' /\ (serving' = "legacy" => serving = "legacy")
<1> USE DEF accounts, late, secrets
<1>1. ASSUME NEW v \in Values, Upgrade(v)
      PROVE  Protected' /\ serving' = serving
  BY <1>1 DEF Upgrade, Protected
<1>2. CASE Uninstall
  BY <1>2 DEF Uninstall, Finish, Protected, Phases
<1>3. CASE PreMarkers
  <2>1. phase' = "init-secrets" => Mode(values) # "legacy"
    <3>1. marker # "legacy_auth" /\ marker # "absent"
      BY DEF Protected, Migrated
    <3> QED
      BY <1>3, <3>1, ModeFacts DEF PreMarkers, Proceed, Fail, Finish
  <2> QED
    BY <1>3, <2>1 DEF PreMarkers, Proceed, Fail, Finish, Protected, Phases
<1>4. CASE InitSecrets \/ Migration \/ CheckConfig \/ DryRunHook
  BY <1>4 DEF InitSecrets, Migration, CheckConfig, DryRunHook, Proceed, Fail,
              Finish, Protected, Phases
<1>5. CASE Main
  BY <1>5 DEF Main, Apply, Proceed, Fail, Finish, Protected, Phases
<1>6. CASE PostMarkers
  <2>1. Mode(values) # "legacy"
    BY <1>6 DEF PostMarkers, Protected, Phases
  <2>2. values.synapse => Migrated(NewValue(values))
    BY <2>1, ModeFacts DEF Modes
  <2> QED
    BY <1>6, <2>1, <2>2
       DEF PostMarkers, Fail, Finish, Protected, Phases, Migrated
<1>7. CASE LateMarker
  BY <1>7 DEF LateMarker, Protected, Migrated, TypeOK, MarkerValues
<1>8. CASE LateMigration
  BY <1>8 DEF LateMigration, Protected
<1>9. CASE UNCHANGED vars
  BY <1>9 DEF vars, Protected
<1>10. ~ \E r \in history : Rollback(r)
  BY DEF Rollback
<1> QED
  BY <1>1, <1>2, <1>3, <1>4, <1>5, <1>6, <1>7, <1>8, <1>9, <1>10 DEF Next

\* Whatever the operator does short of rolling back: once an upgrade with
\* Matrix Authentication Service has succeeded, post-markers hook included,
\* Synapse never authenticates users again.
THEOREM SuccessStaysDelegated ==
  ASSUME ~ MayRollBack
  PROVE  Spec => [](phase = "deployed" /\ serving = "delegated" =>
                      [](serving # "legacy"))
<1> DEFINE Safe == Protected /\ serving # "legacy"
           Succeeded == phase = "deployed" /\ serving = "delegated"
<1>1. Init => Stored
  BY DEF Init, Stored
<1>2. TypeOK /\ Stored /\ [Next]_vars => Stored'
  BY NextStored
<1>3. Stored /\ Succeeded => Safe
  BY DEF Stored, Protected, Phases
<1>4. TypeOK /\ Safe /\ [Next]_vars => Safe'
  BY ProtectedStays
<1>5. Safe => serving # "legacy"
  OBVIOUS
<1>6. Spec => [](Succeeded => [](serving # "legacy"))
  <2> HIDE DEF Safe, Succeeded
  <2> QED
    BY <1>1, <1>2, <1>3, <1>4, <1>5, Invariant, PTL DEF Spec
<1> QED
  BY <1>6
===============================================================================
