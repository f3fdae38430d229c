----------------------------- MODULE Credentials ------------------------------
(***************************************************************************)
(* What the templates of the chart make of the credentials in the values:  *)
(* the list of requests of the init-secrets hook Job, and the keys of the  *)
(* Secret <release>-generated that the manifests refer to.  The two are    *)
(* written in different files, the first in one place and the second       *)
(* wherever a credential is used.                                          *)
(*                                                                         *)
(* Of the values only what these depend on is kept: which components are   *)
(* enabled, whether the chart's PostgreSQL is, which of the two components *)
(* that need a database have one of their own, and which credentials are   *)
(* provided.  initSecrets is enabled throughout.                           *)
(***************************************************************************)
EXTENDS Sequences

CredentialKeys ==
  {"POSTGRES_SYNAPSE_PASSWORD", "POSTGRES_MATRIX_AUTHENTICATION_SERVICE_PASSWORD",
   "POSTGRES_ADMIN_PASSWORD", "ELEMENT_CALL_LIVEKIT_SECRET", "SYNAPSE_EXTRA",
   "SYNAPSE_MACAROON", "SYNAPSE_REGISTRATION_SHARED_SECRET",
   "SYNAPSE_SIGNING_KEY", "MAS_SYNAPSE_SHARED_SECRET", "MAS_ENCRYPTION_SECRET",
   "MAS_RSA_PRIVATE_KEY", "MAS_ECDSA_PRIME256V1_PRIVATE_KEY",
   "HOOKSHOT_REGISTRATION", "HOOKSHOT_RSA_PASSKEY"}

ChartValues ==
  [synapse : BOOLEAN, mas : BOOLEAN, rtc : BOOLEAN, hookshot : BOOLEAN,
   postgres : BOOLEAN, databases : SUBSET {"synapse", "mas"},
   provided : SUBSET (CredentialKeys \ {"SYNAPSE_EXTRA"})]
-------------------------------------------------------------------------------
\* A component that is enabled and has no database of its own.
UsesChartDatabase(v, component) == v[component] /\ component \notin v.databases

PostgresEnabled(v) ==
  /\ v.postgres
  /\ \E component \in {"synapse", "mas"} : UsesChartDatabase(v, component)

\* Without the chart's PostgreSQL a component needs one of its own.
Renders(v) ==
  v.postgres \/ \A component \in {"synapse", "mas"} :
                  ~ UsesChartDatabase(v, component)

Requested(condition, key, type, args) ==
  IF condition THEN << [key |-> key, type |-> type, args |-> args] >> ELSE << >>

PostgresSecrets(v) ==
  LET missing(key) == PostgresEnabled(v) /\ key \notin v.provided IN
     Requested(UsesChartDatabase(v, "synapse") /\ missing("POSTGRES_SYNAPSE_PASSWORD"),
               "POSTGRES_SYNAPSE_PASSWORD", "rand32", << >>)
  \o Requested(UsesChartDatabase(v, "mas")
                 /\ missing("POSTGRES_MATRIX_AUTHENTICATION_SERVICE_PASSWORD"),
               "POSTGRES_MATRIX_AUTHENTICATION_SERVICE_PASSWORD", "rand32", << >>)
  \o Requested(missing("POSTGRES_ADMIN_PASSWORD"),
               "POSTGRES_ADMIN_PASSWORD", "rand32", << >>)

GeneratedSecrets(v) ==
  LET missing(key) == key \notin v.provided
      askWith(enabled, key, type, args) ==
        Requested(enabled /\ missing(key), key, type, args)
      ask(enabled, key, type) == askWith(enabled, key, type, << >>)
  IN PostgresSecrets(v)
  \o ask(v.rtc, "ELEMENT_CALL_LIVEKIT_SECRET", "rand32")
  \o Requested(v.synapse, "SYNAPSE_EXTRA", "extra", << >>)
  \o ask(v.synapse, "SYNAPSE_MACAROON", "rand32")
  \o ask(v.synapse, "SYNAPSE_REGISTRATION_SHARED_SECRET", "rand32")
  \o ask(v.synapse, "SYNAPSE_SIGNING_KEY", "signingkey")
  \o ask(v.mas /\ v.synapse, "MAS_SYNAPSE_SHARED_SECRET", "rand32")
  \o ask(v.mas, "MAS_ENCRYPTION_SECRET", "hex32")
  \o askWith(v.mas, "MAS_RSA_PRIVATE_KEY", "rsa", << "4096", "der" >>)
  \o ask(v.mas, "MAS_ECDSA_PRIME256V1_PRIVATE_KEY", "ecdsaprime256v1")
  \o askWith(v.hookshot, "HOOKSHOT_REGISTRATION", "registration",
             << "hookshot-registration.yaml" >>)
  \o askWith(v.hookshot, "HOOKSHOT_RSA_PASSKEY", "rsa", << "4096", "pem" >>)

RequestedKeys(v) ==
  {GeneratedSecrets(v)[i].key : i \in DOMAIN GeneratedSecrets(v)}

RequestedTypes(v) ==
  {GeneratedSecrets(v)[i].type : i \in DOMAIN GeneratedSecrets(v)}
-------------------------------------------------------------------------------
When(condition, keys) == IF condition THEN keys ELSE {}

\* Synapse also names the secret that it shares with Matrix Authentication
\* Service, once that handles authentication; it is one of MasRefers.
SynapseRefers(v) ==
  When(v.synapse,
       {"SYNAPSE_EXTRA", "SYNAPSE_MACAROON", "SYNAPSE_REGISTRATION_SHARED_SECRET",
        "SYNAPSE_SIGNING_KEY"}
       \cup When("synapse" \notin v.databases, {"POSTGRES_SYNAPSE_PASSWORD"})
       \cup When(v.hookshot, {"HOOKSHOT_REGISTRATION"}))

MasRefers(v) ==
  When(v.mas,
       {"MAS_ENCRYPTION_SECRET", "MAS_RSA_PRIVATE_KEY",
        "MAS_ECDSA_PRIME256V1_PRIVATE_KEY"}
       \cup When("mas" \notin v.databases,
                 {"POSTGRES_MATRIX_AUTHENTICATION_SERVICE_PASSWORD"})
       \cup When(v.synapse, {"MAS_SYNAPSE_SHARED_SECRET"}))

\* The keys that the manifests read from <release>-generated.  The password
\* of a component with a database of its own, which configure-dbs.sh reads
\* all the same when the other component has none, is not among them.
References(v) ==
  (SynapseRefers(v) \cup MasRefers(v)
   \cup When(PostgresEnabled(v), {"POSTGRES_ADMIN_PASSWORD"})
   \cup When(v.rtc, {"ELEMENT_CALL_LIVEKIT_SECRET"})
   \cup When(v.hookshot, {"HOOKSHOT_REGISTRATION", "HOOKSHOT_RSA_PASSKEY"}))
  \ v.provided
===============================================================================
