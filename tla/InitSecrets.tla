----------------------------- MODULE InitSecrets ------------------------------
(***************************************************************************)
(* The init-secrets hook Job of the chart: the list of requests that the   *)
(* templates make of the values (Credentials), run by the processes of     *)
(* GenerateSecrets.                                                        *)
(***************************************************************************)
EXTENDS GenerateSecrets, Credentials

\* The Job of a release with the values v.
RunsListOf(p, v) == job[p].requests = GeneratedSecrets(v)

\* Pods refer to a credential when the hook is done: what the manifests read
\* from the Secret is in it, as long as nobody else interferes.
Provides(p, v) ==
  RunsListOf(p, v) /\ pc[p] = "done" /\ admin = 0 =>
    \A key \in References(v) : secret.exists /\ secret.data[key] # None

\* With the values v the parser of the command line turns the list down.
TurnsDown(p, v) == RunsListOf(p, v) => pc[p] \in {"idle", "failed", "stopped"}

\* A pod that has the cluster to itself and suffers no fault does not fail.
NeverFailsAlone(p) == faults = 0 /\ admin = 0 => pc[p] # "failed"

\* A pod among others of the hook is started again only for a fault, or for
\* a change of the Secret.
IsPaidFor(p, v) ==
  RunsListOf(p, v) /\ job[p].labelsParse /\ admin = 0 /\ Owner # "others" =>
    restarts[p] <= faults + secret.rv

\* docs/maintenance.md: "By default (initSecrets.enabled: true) the chart
\* will run a pre-install / pre-upgrade Helm hook to generate a variety of
\* credentials": without any fault the hook generates what the chart asks
\* for.
HookGenerates == \A p \in Procs : pc[p] = "idle" ~> pc[p] = "done"
===============================================================================
