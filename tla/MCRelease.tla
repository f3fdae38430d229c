------------------------------ MODULE MCRelease -------------------------------
(***************************************************************************)
(* An instance of Release.  The values of the components that take part in *)
(* the migration are tried in every combination.                           *)
(***************************************************************************)
EXTENDS Release

WithProvided(provided) ==
  {[synapse |-> s, mas |-> m, rtc |-> FALSE, hookshot |-> FALSE,
    postgres |-> TRUE, databases |-> {}, provided |-> provided,
    syn2mas |-> y, dryRun |-> r] :
     s \in BOOLEAN, m \in BOOLEAN, y \in BOOLEAN, r \in BOOLEAN}

\* The chart's defaults.
DefaultValues == WithProvided({})

\* Here the user provides the credentials, so that nothing refers to those
\* that are generated; of the migration the defaults are enough.
AllProvided ==
  {v \in WithProvided(CredentialKeys \ {"SYNAPSE_EXTRA"}) :
     v.synapse /\ ~ v.syn2mas /\ ~ v.dryRun}

AllValues == DefaultValues \cup AllProvided

\* A key that is asked for under a condition on two components: an upgrade
\* that enables one of them asks for it first.
SharedSecret == {"MAS_SYNAPSE_SHARED_SECRET"}
===============================================================================
