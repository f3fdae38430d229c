--------------------------- MODULE CredentialsProof ---------------------------
(***************************************************************************)
(* Facts about the templates, for all values of a release: the list of     *)
(* the init-secrets hook Job as a set of requests, what it lacks of what   *)
(* the manifests refer to (nothing), and of which types it asks for.       *)
(***************************************************************************)
EXTENDS Credentials, SequenceTheorems, TLAPS

\* The requests that occur in the list.
Arguments == {<< >>, << "4096", "der" >>, << "4096", "pem" >>,
              << "hookshot-registration.yaml" >>}
Types == {"rand32", "extra", "signingkey", "hex32", "rsa", "ecdsaprime256v1",
          "registration"}

\* The generators that need arguments get them.
Fits(type, args) ==
  /\ type = "rsa" => args \in {<< "4096", "der" >>, << "4096", "pem" >>}
  /\ type = "registration" => args = << "hookshot-registration.yaml" >>

Requests == {r \in [key : CredentialKeys, type : Types, args : Arguments] :
               Fits(r.type, r.args)}

AskedIf(condition, key, type, args) ==
  When(condition, {[key |-> key, type |-> type, args |-> args]})

\* The list as a set.
PostgresAsked(v) ==
  LET missing(key) == PostgresEnabled(v) /\ key \notin v.provided IN
       AskedIf(UsesChartDatabase(v, "synapse") /\ missing("POSTGRES_SYNAPSE_PASSWORD"),
               "POSTGRES_SYNAPSE_PASSWORD", "rand32", << >>)
  \cup AskedIf(UsesChartDatabase(v, "mas")
                 /\ missing("POSTGRES_MATRIX_AUTHENTICATION_SERVICE_PASSWORD"),
               "POSTGRES_MATRIX_AUTHENTICATION_SERVICE_PASSWORD", "rand32", << >>)
  \cup AskedIf(missing("POSTGRES_ADMIN_PASSWORD"),
               "POSTGRES_ADMIN_PASSWORD", "rand32", << >>)

OthersAsked(v) ==
  LET asked(enabled, key, type, args) ==
        AskedIf(enabled /\ key \notin v.provided, key, type, args)
  IN   asked(v.rtc, "ELEMENT_CALL_LIVEKIT_SECRET", "rand32", << >>)
  \cup AskedIf(v.synapse, "SYNAPSE_EXTRA", "extra", << >>)
  \cup asked(v.synapse, "SYNAPSE_MACAROON", "rand32", << >>)
  \cup asked(v.synapse, "SYNAPSE_REGISTRATION_SHARED_SECRET", "rand32", << >>)
  \cup asked(v.synapse, "SYNAPSE_SIGNING_KEY", "signingkey", << >>)
  \cup asked(v.mas /\ v.synapse, "MAS_SYNAPSE_SHARED_SECRET", "rand32", << >>)
  \cup asked(v.mas, "MAS_ENCRYPTION_SECRET", "hex32", << >>)
  \cup asked(v.mas, "MAS_RSA_PRIVATE_KEY", "rsa", << "4096", "der" >>)
  \cup asked(v.mas, "MAS_ECDSA_PRIME256V1_PRIVATE_KEY", "ecdsaprime256v1", << >>)
  \cup asked(v.hookshot, "HOOKSHOT_REGISTRATION", "registration",
             << "hookshot-registration.yaml" >>)
  \cup asked(v.hookshot, "HOOKSHOT_RSA_PASSKEY", "rsa", << "4096", "pem" >>)

Asked(v) == PostgresAsked(v) \cup OthersAsked(v)

-------------------------------------------------------------------------------
(***************************************************************************)
(* The list, piece by piece.                                               *)
(***************************************************************************)

\* A piece of the list holds its request if its condition does.
LEMMA RequestedIsAsked ==
  ASSUME NEW condition, NEW key \in CredentialKeys, NEW type \in Types,
         NEW args \in Arguments, Fits(type, args)
  PROVE  /\ Requested(condition, key, type, args) \in Seq(Requests)
         /\ Range(Requested(condition, key, type, args))
              = AskedIf(condition, key, type, args)
<1> DEFINE r == [key |-> key, type |-> type, args |-> args]
<1>1. r \in Requests
  BY DEF Requests
<1> HIDE DEF r
<1>2. << r >> \in Seq(Requests) /\ << >> \in Seq(Requests)
  BY <1>1
<1>3. Range(<< r >>) = {r} /\ Range(<< >>) = {}
  BY DEF Range
<1>4. /\ Requested(condition, key, type, args) = IF condition THEN << r >> ELSE << >>
      /\ AskedIf(condition, key, type, args) = IF condition THEN {r} ELSE {}
  BY DEF Requested, AskedIf, When, r
<1> QED
  BY <1>2, <1>3, <1>4

\* The next piece adds its request to those before.
LEMMA AppendedIsAsked ==
  ASSUME NEW list \in Seq(Requests),
         NEW condition, NEW key \in CredentialKeys, NEW type \in Types,
         NEW args \in Arguments, Fits(type, args)
  PROVE  LET longer == list \o Requested(condition, key, type, args) IN
         /\ longer \in Seq(Requests)
         /\ Range(longer) = Range(list) \cup AskedIf(condition, key, type, args)
BY RequestedIsAsked, RangeConcatenation

LEMMA RequestParts ==
  /\ << >> \in Arguments /\ << "4096", "der" >> \in Arguments
  /\ << "4096", "pem" >> \in Arguments
  /\ << "hookshot-registration.yaml" >> \in Arguments
  /\ "rand32" \in Types /\ "extra" \in Types /\ "signingkey" \in Types
  /\ "hex32" \in Types /\ "rsa" \in Types /\ "ecdsaprime256v1" \in Types
  /\ "registration" \in Types
  /\ Fits("rand32", << >>) /\ Fits("extra", << >>) /\ Fits("signingkey", << >>)
  /\ Fits("hex32", << >>) /\ Fits("ecdsaprime256v1", << >>)
  /\ Fits("rsa", << "4096", "der" >>) /\ Fits("rsa", << "4096", "pem" >>)
  /\ Fits("registration", << "hookshot-registration.yaml" >>)
BY DEF Arguments, Types, Fits

LEMMA KeyNames ==
  /\ "POSTGRES_SYNAPSE_PASSWORD" \in CredentialKeys
  /\ "POSTGRES_MATRIX_AUTHENTICATION_SERVICE_PASSWORD" \in CredentialKeys
  /\ "POSTGRES_ADMIN_PASSWORD" \in CredentialKeys
  /\ "ELEMENT_CALL_LIVEKIT_SECRET" \in CredentialKeys
  /\ "SYNAPSE_EXTRA" \in CredentialKeys
  /\ "SYNAPSE_MACAROON" \in CredentialKeys
  /\ "SYNAPSE_REGISTRATION_SHARED_SECRET" \in CredentialKeys
  /\ "SYNAPSE_SIGNING_KEY" \in CredentialKeys
  /\ "MAS_SYNAPSE_SHARED_SECRET" \in CredentialKeys
  /\ "MAS_ENCRYPTION_SECRET" \in CredentialKeys
  /\ "MAS_RSA_PRIVATE_KEY" \in CredentialKeys
  /\ "MAS_ECDSA_PRIME256V1_PRIVATE_KEY" \in CredentialKeys
  /\ "HOOKSHOT_REGISTRATION" \in CredentialKeys
  /\ "HOOKSHOT_RSA_PASSKEY" \in CredentialKeys
BY DEF CredentialKeys

LEMMA PostgresListIsAsked ==
  ASSUME NEW v
  PROVE  /\ PostgresSecrets(v) \in Seq(Requests)
         /\ Range(PostgresSecrets(v)) = PostgresAsked(v)
<1> DEFINE missing(key) == PostgresEnabled(v) /\ key \notin v.provided
           c1 == UsesChartDatabase(v, "synapse") /\ missing("POSTGRES_SYNAPSE_PASSWORD")
           c2 == UsesChartDatabase(v, "mas")
                   /\ missing("POSTGRES_MATRIX_AUTHENTICATION_SERVICE_PASSWORD")
           c3 == missing("POSTGRES_ADMIN_PASSWORD")
           l1 == Requested(c1, "POSTGRES_SYNAPSE_PASSWORD", "rand32", << >>)
           l2 == l1 \o Requested(c2, "POSTGRES_MATRIX_AUTHENTICATION_SERVICE_PASSWORD",
                                 "rand32", << >>)
           l3 == l2 \o Requested(c3, "POSTGRES_ADMIN_PASSWORD", "rand32", << >>)
<1>1. PostgresSecrets(v) = l3
  BY DEF PostgresSecrets
<1>2. PostgresAsked(v) =
        AskedIf(c1, "POSTGRES_SYNAPSE_PASSWORD", "rand32", << >>)
        \cup AskedIf(c2, "POSTGRES_MATRIX_AUTHENTICATION_SERVICE_PASSWORD",
                     "rand32", << >>)
        \cup AskedIf(c3, "POSTGRES_ADMIN_PASSWORD", "rand32", << >>)
  BY DEF PostgresAsked
<1> HIDE DEF c1, c2, c3
<1>3. /\ l1 \in Seq(Requests)
      /\ Range(l1) = AskedIf(c1, "POSTGRES_SYNAPSE_PASSWORD", "rand32", << >>)
  BY KeyNames, RequestParts, RequestedIsAsked
<1> HIDE DEF l1
<1>4. /\ l2 \in Seq(Requests)
      /\ Range(l2) = Range(l1)
           \cup AskedIf(c2, "POSTGRES_MATRIX_AUTHENTICATION_SERVICE_PASSWORD",
                        "rand32", << >>)
  BY KeyNames, <1>3, RequestParts, AppendedIsAsked
<1> HIDE DEF l2
<1>5. /\ l3 \in Seq(Requests)
      /\ Range(l3) = Range(l2)
           \cup AskedIf(c3, "POSTGRES_ADMIN_PASSWORD", "rand32", << >>)
  BY KeyNames, <1>4, RequestParts, AppendedIsAsked
<1> QED
  BY <1>1, <1>2, <1>3, <1>4, <1>5

\* The list that the templates make is the set of what is asked for.
LEMMA ListIsAsked ==
  ASSUME NEW v
  PROVE  /\ GeneratedSecrets(v) \in Seq(Requests)
         /\ Range(GeneratedSecrets(v)) = Asked(v)
<1> DEFINE missing(key) == key \notin v.provided
           l0  == PostgresSecrets(v)
           c1  == v.rtc /\ missing("ELEMENT_CALL_LIVEKIT_SECRET")
           c2  == v.synapse
           c3  == v.synapse /\ missing("SYNAPSE_MACAROON")
           c4  == v.synapse /\ missing("SYNAPSE_REGISTRATION_SHARED_SECRET")
           c5  == v.synapse /\ missing("SYNAPSE_SIGNING_KEY")
           c6  == (v.mas /\ v.synapse) /\ missing("MAS_SYNAPSE_SHARED_SECRET")
           c7  == v.mas /\ missing("MAS_ENCRYPTION_SECRET")
           c8  == v.mas /\ missing("MAS_RSA_PRIVATE_KEY")
           c9  == v.mas /\ missing("MAS_ECDSA_PRIME256V1_PRIVATE_KEY")
           c10 == v.hookshot /\ missing("HOOKSHOT_REGISTRATION")
           c11 == v.hookshot /\ missing("HOOKSHOT_RSA_PASSKEY")
           l1  == l0 \o Requested(c1, "ELEMENT_CALL_LIVEKIT_SECRET",
                                    "rand32", << >>)
           l2  == l1 \o Requested(c2, "SYNAPSE_EXTRA", "extra", << >>)
           l3  == l2 \o Requested(c3, "SYNAPSE_MACAROON", "rand32", << >>)
           l4  == l3 \o Requested(c4, "SYNAPSE_REGISTRATION_SHARED_SECRET",
                                    "rand32", << >>)
           l5  == l4 \o Requested(c5, "SYNAPSE_SIGNING_KEY", "signingkey", << >>)
           l6  == l5 \o Requested(c6, "MAS_SYNAPSE_SHARED_SECRET", "rand32", << >>)
           l7  == l6 \o Requested(c7, "MAS_ENCRYPTION_SECRET", "hex32", << >>)
           l8  == l7 \o Requested(c8, "MAS_RSA_PRIVATE_KEY",
                                    "rsa", << "4096", "der" >>)
           l9  == l8 \o Requested(c9, "MAS_ECDSA_PRIME256V1_PRIVATE_KEY",
                                    "ecdsaprime256v1", << >>)
           l10 == l9 \o Requested(c10, "HOOKSHOT_REGISTRATION",
                                    "registration", << "hookshot-registration.yaml" >>)
           l11 == l10 \o Requested(c11, "HOOKSHOT_RSA_PASSKEY",
                                    "rsa", << "4096", "pem" >>)
<1>1. GeneratedSecrets(v) = l11
  BY DEF GeneratedSecrets
<1>2. OthersAsked(v) =
        AskedIf(c1, "ELEMENT_CALL_LIVEKIT_SECRET", "rand32", << >>)
        \cup AskedIf(c2, "SYNAPSE_EXTRA", "extra", << >>)
        \cup AskedIf(c3, "SYNAPSE_MACAROON", "rand32", << >>)
        \cup AskedIf(c4, "SYNAPSE_REGISTRATION_SHARED_SECRET", "rand32", << >>)
        \cup AskedIf(c5, "SYNAPSE_SIGNING_KEY", "signingkey", << >>)
        \cup AskedIf(c6, "MAS_SYNAPSE_SHARED_SECRET", "rand32", << >>)
        \cup AskedIf(c7, "MAS_ENCRYPTION_SECRET", "hex32", << >>)
        \cup AskedIf(c8, "MAS_RSA_PRIVATE_KEY", "rsa", << "4096", "der" >>)
        \cup AskedIf(c9, "MAS_ECDSA_PRIME256V1_PRIVATE_KEY",
                     "ecdsaprime256v1", << >>)
        \cup AskedIf(c10, "HOOKSHOT_REGISTRATION",
                     "registration", << "hookshot-registration.yaml" >>)
        \cup AskedIf(c11, "HOOKSHOT_RSA_PASSKEY", "rsa", << "4096", "pem" >>)
  BY DEF OthersAsked
<1> HIDE DEF c1, c2, c3, c4, c5, c6, c7, c8, c9, c10, c11
<1>3. l0 \in Seq(Requests) /\ Range(l0) = PostgresAsked(v)
  BY PostgresListIsAsked
<1> HIDE DEF l0
<1>4. /\ l1 \in Seq(Requests)
      /\ Range(l1) = Range(l0)
           \cup AskedIf(c1, "ELEMENT_CALL_LIVEKIT_SECRET", "rand32", << >>)
  BY KeyNames, <1>3, RequestParts, AppendedIsAsked
<1> HIDE DEF l1
<1>5. /\ l2 \in Seq(Requests)
      /\ Range(l2) = Range(l1)
           \cup AskedIf(c2, "SYNAPSE_EXTRA", "extra", << >>)
  BY KeyNames, <1>4, RequestParts, AppendedIsAsked
<1> HIDE DEF l2
<1>6. /\ l3 \in Seq(Requests)
      /\ Range(l3) = Range(l2)
           \cup AskedIf(c3, "SYNAPSE_MACAROON", "rand32", << >>)
  BY KeyNames, <1>5, RequestParts, AppendedIsAsked
<1> HIDE DEF l3
<1>7. /\ l4 \in Seq(Requests)
      /\ Range(l4) = Range(l3)
           \cup AskedIf(c4, "SYNAPSE_REGISTRATION_SHARED_SECRET", "rand32", << >>)
  BY KeyNames, <1>6, RequestParts, AppendedIsAsked
<1> HIDE DEF l4
<1>8. /\ l5 \in Seq(Requests)
      /\ Range(l5) = Range(l4)
           \cup AskedIf(c5, "SYNAPSE_SIGNING_KEY", "signingkey", << >>)
  BY KeyNames, <1>7, RequestParts, AppendedIsAsked
<1> HIDE DEF l5
<1>9. /\ l6 \in Seq(Requests)
      /\ Range(l6) = Range(l5)
           \cup AskedIf(c6, "MAS_SYNAPSE_SHARED_SECRET", "rand32", << >>)
  BY KeyNames, <1>8, RequestParts, AppendedIsAsked
<1> HIDE DEF l6
<1>10. /\ l7 \in Seq(Requests)
      /\ Range(l7) = Range(l6)
           \cup AskedIf(c7, "MAS_ENCRYPTION_SECRET", "hex32", << >>)
  BY KeyNames, <1>9, RequestParts, AppendedIsAsked
<1> HIDE DEF l7
<1>11. /\ l8 \in Seq(Requests)
      /\ Range(l8) = Range(l7)
           \cup AskedIf(c8, "MAS_RSA_PRIVATE_KEY", "rsa", << "4096", "der" >>)
  BY KeyNames, <1>10, RequestParts, AppendedIsAsked
<1> HIDE DEF l8
<1>12. /\ l9 \in Seq(Requests)
      /\ Range(l9) = Range(l8)
           \cup AskedIf(c9, "MAS_ECDSA_PRIME256V1_PRIVATE_KEY",
                     "ecdsaprime256v1", << >>)
  BY KeyNames, <1>11, RequestParts, AppendedIsAsked
<1> HIDE DEF l9
<1>13. /\ l10 \in Seq(Requests)
      /\ Range(l10) = Range(l9)
           \cup AskedIf(c10, "HOOKSHOT_REGISTRATION",
                     "registration", << "hookshot-registration.yaml" >>)
  BY KeyNames, <1>12, RequestParts, AppendedIsAsked
<1> HIDE DEF l10
<1>14. /\ l11 \in Seq(Requests)
      /\ Range(l11) = Range(l10)
           \cup AskedIf(c11, "HOOKSHOT_RSA_PASSKEY", "rsa", << "4096", "pem" >>)
  BY KeyNames, <1>13, RequestParts, AppendedIsAsked
<1> HIDE DEF l11
<1> QED
  BY <1>1, <1>2, <1>3, <1>4, <1>5, <1>6, <1>7, <1>8, <1>9, <1>10, <1>11, <1>12,
     <1>13, <1>14 DEF Asked

-------------------------------------------------------------------------------
(***************************************************************************)
(* What is asked for.                                                      *)
(***************************************************************************)
KeysOf(requests)  == {r.key : r \in requests}
TypesOf(requests) == {r.type : r \in requests}

\* x is there under a condition.
Only(condition, x) == When(condition, {x})

LEMMA KeysAndTypesAsked ==
  ASSUME NEW v
  PROVE  /\ RequestedKeys(v) = KeysOf(Asked(v))
         /\ RequestedTypes(v) = TypesOf(Asked(v))
<1>1. Asked(v) = {GeneratedSecrets(v)[i] : i \in DOMAIN GeneratedSecrets(v)}
  BY ListIsAsked DEF Range
<1> QED
  BY <1>1 DEF RequestedKeys, RequestedTypes, KeysOf, TypesOf

LEMMA UnionOfRequests ==
  ASSUME NEW a, NEW b
  PROVE  /\ KeysOf(a \cup b) = KeysOf(a) \cup KeysOf(b)
         /\ TypesOf(a \cup b) = TypesOf(a) \cup TypesOf(b)
BY DEF KeysOf, TypesOf

LEMMA OneRequest ==
  ASSUME NEW condition, NEW key \in CredentialKeys, NEW type \in Types,
         NEW args \in Arguments, Fits(type, args)
  PROVE  /\ KeysOf(AskedIf(condition, key, type, args)) = Only(condition, key)
         /\ TypesOf(AskedIf(condition, key, type, args)) = Only(condition, type)
<1> DEFINE r == [key |-> key, type |-> type, args |-> args]
<1>1. r.key = key /\ r.type = type
  OBVIOUS
<1>2. AskedIf(condition, key, type, args) = Only(condition, r)
  BY DEF AskedIf, Only
<1> HIDE DEF r
<1>3. CASE condition
  <2>1. AskedIf(condition, key, type, args) = {r}
    BY <1>2, <1>3 DEF When, Only
  <2>2. KeysOf({r}) = {r.key} /\ TypesOf({r}) = {r.type}
    BY Zenon DEF KeysOf, TypesOf
  <2> QED
    BY <1>1, <1>3, <2>1, <2>2 DEF When, Only
<1>4. CASE ~ condition
  BY <1>2, <1>4 DEF When, Only, KeysOf, TypesOf
<1> QED
  BY <1>3, <1>4

LEMMA KeysOfPostgres ==
  ASSUME NEW v
  PROVE  LET missing(key) == PostgresEnabled(v) /\ key \notin v.provided IN
         /\ KeysOf(PostgresAsked(v)) =
                 Only(UsesChartDatabase(v, "synapse")
                        /\ missing("POSTGRES_SYNAPSE_PASSWORD"),
                      "POSTGRES_SYNAPSE_PASSWORD")
            \cup Only(UsesChartDatabase(v, "mas")
                        /\ missing("POSTGRES_MATRIX_AUTHENTICATION_SERVICE_PASSWORD"),
                      "POSTGRES_MATRIX_AUTHENTICATION_SERVICE_PASSWORD")
            \cup Only(missing("POSTGRES_ADMIN_PASSWORD"), "POSTGRES_ADMIN_PASSWORD")
         /\ TypesOf(PostgresAsked(v)) \subseteq {"rand32"}
<1> DEFINE missing(key) == PostgresEnabled(v) /\ key \notin v.provided
           c1 == UsesChartDatabase(v, "synapse") /\ missing("POSTGRES_SYNAPSE_PASSWORD")
           c2 == UsesChartDatabase(v, "mas")
                   /\ missing("POSTGRES_MATRIX_AUTHENTICATION_SERVICE_PASSWORD")
           c3 == missing("POSTGRES_ADMIN_PASSWORD")
           a1 == AskedIf(c1, "POSTGRES_SYNAPSE_PASSWORD", "rand32", << >>)
           a2 == AskedIf(c2, "POSTGRES_MATRIX_AUTHENTICATION_SERVICE_PASSWORD",
                         "rand32", << >>)
           a3 == AskedIf(c3, "POSTGRES_ADMIN_PASSWORD", "rand32", << >>)
<1>0. PostgresAsked(v) = a1 \cup a2 \cup a3
  BY DEF PostgresAsked
<1> HIDE DEF c1, c2, c3
<1>1. /\ KeysOf(a1) = Only(c1, "POSTGRES_SYNAPSE_PASSWORD")
      /\ TypesOf(a1) = Only(c1, "rand32")
  BY KeyNames, RequestParts, OneRequest
<1>2. /\ KeysOf(a2) = Only(c2, "POSTGRES_MATRIX_AUTHENTICATION_SERVICE_PASSWORD")
      /\ TypesOf(a2) = Only(c2, "rand32")
  BY KeyNames, RequestParts, OneRequest
<1>3. /\ KeysOf(a3) = Only(c3, "POSTGRES_ADMIN_PASSWORD")
      /\ TypesOf(a3) = Only(c3, "rand32")
  BY KeyNames, RequestParts, OneRequest
<1> HIDE DEF a1, a2, a3
<1>4. /\ KeysOf(PostgresAsked(v)) = KeysOf(a1) \cup KeysOf(a2) \cup KeysOf(a3)
      /\ TypesOf(PostgresAsked(v)) = TypesOf(a1) \cup TypesOf(a2) \cup TypesOf(a3)
  BY <1>0 DEF KeysOf, TypesOf
<1>5. KeysOf(PostgresAsked(v)) =
        Only(c1, "POSTGRES_SYNAPSE_PASSWORD")
        \cup Only(c2, "POSTGRES_MATRIX_AUTHENTICATION_SERVICE_PASSWORD")
        \cup Only(c3, "POSTGRES_ADMIN_PASSWORD")
  BY <1>1, <1>2, <1>3, <1>4
<1>6. TypesOf(PostgresAsked(v)) \subseteq {"rand32"}
  BY <1>1, <1>2, <1>3, <1>4 DEF Only, When
<1> QED
  BY <1>5, <1>6, Zenon DEF c1, c2, c3

LEMMA KeysOfOthers ==
  ASSUME NEW v
  PROVE  LET asked(enabled, key) == Only(enabled /\ key \notin v.provided, key) IN
         /\ KeysOf(OthersAsked(v)) =
                 asked(v.rtc, "ELEMENT_CALL_LIVEKIT_SECRET")
            \cup Only(v.synapse, "SYNAPSE_EXTRA")
            \cup asked(v.synapse, "SYNAPSE_MACAROON")
            \cup asked(v.synapse, "SYNAPSE_REGISTRATION_SHARED_SECRET")
            \cup asked(v.synapse, "SYNAPSE_SIGNING_KEY")
            \cup asked(v.mas /\ v.synapse, "MAS_SYNAPSE_SHARED_SECRET")
            \cup asked(v.mas, "MAS_ENCRYPTION_SECRET")
            \cup asked(v.mas, "MAS_RSA_PRIVATE_KEY")
            \cup asked(v.mas, "MAS_ECDSA_PRIME256V1_PRIVATE_KEY")
            \cup asked(v.hookshot, "HOOKSHOT_REGISTRATION")
            \cup asked(v.hookshot, "HOOKSHOT_RSA_PASSKEY")
         /\ "extra" \in TypesOf(OthersAsked(v)) <=> v.synapse
<1> DEFINE missing(key) == key \notin v.provided
           c1  == v.rtc /\ missing("ELEMENT_CALL_LIVEKIT_SECRET")
           c2  == v.synapse
           c3  == v.synapse /\ missing("SYNAPSE_MACAROON")
           c4  == v.synapse /\ missing("SYNAPSE_REGISTRATION_SHARED_SECRET")
           c5  == v.synapse /\ missing("SYNAPSE_SIGNING_KEY")
           c6  == (v.mas /\ v.synapse) /\ missing("MAS_SYNAPSE_SHARED_SECRET")
           c7  == v.mas /\ missing("MAS_ENCRYPTION_SECRET")
           c8  == v.mas /\ missing("MAS_RSA_PRIVATE_KEY")
           c9  == v.mas /\ missing("MAS_ECDSA_PRIME256V1_PRIVATE_KEY")
           c10 == v.hookshot /\ missing("HOOKSHOT_REGISTRATION")
           c11 == v.hookshot /\ missing("HOOKSHOT_RSA_PASSKEY")
           a1  == AskedIf(c1, "ELEMENT_CALL_LIVEKIT_SECRET", "rand32", << >>)
           a2  == AskedIf(c2, "SYNAPSE_EXTRA", "extra", << >>)
           a3  == AskedIf(c3, "SYNAPSE_MACAROON", "rand32", << >>)
           a4  == AskedIf(c4, "SYNAPSE_REGISTRATION_SHARED_SECRET", "rand32", << >>)
           a5  == AskedIf(c5, "SYNAPSE_SIGNING_KEY", "signingkey", << >>)
           a6  == AskedIf(c6, "MAS_SYNAPSE_SHARED_SECRET", "rand32", << >>)
           a7  == AskedIf(c7, "MAS_ENCRYPTION_SECRET", "hex32", << >>)
           a8  == AskedIf(c8, "MAS_RSA_PRIVATE_KEY", "rsa", << "4096", "der" >>)
           a9  == AskedIf(c9, "MAS_ECDSA_PRIME256V1_PRIVATE_KEY", "ecdsaprime256v1",
                          << >>)
           a10 == AskedIf(c10, "HOOKSHOT_REGISTRATION", "registration",
                          << "hookshot-registration.yaml" >>)
           a11 == AskedIf(c11, "HOOKSHOT_RSA_PASSKEY", "rsa", << "4096", "pem" >>)
<1>0. OthersAsked(v) =
          a1 \cup a2 \cup a3 \cup a4 \cup a5 \cup a6
          \cup a7 \cup a8 \cup a9 \cup a10 \cup a11
  BY DEF OthersAsked
<1> HIDE DEF c1, c2, c3, c4, c5, c6, c7, c8, c9, c10, c11
<1>1. /\ KeysOf(a1) = Only(c1, "ELEMENT_CALL_LIVEKIT_SECRET")
      /\ TypesOf(a1) = Only(c1, "rand32")
  BY KeyNames, RequestParts, OneRequest
<1>2. KeysOf(a2) = Only(c2, "SYNAPSE_EXTRA") /\ TypesOf(a2) = Only(c2, "extra")
  BY KeyNames, RequestParts, OneRequest
<1>3. /\ KeysOf(a3) = Only(c3, "SYNAPSE_MACAROON")
      /\ TypesOf(a3) = Only(c3, "rand32")
  BY KeyNames, RequestParts, OneRequest
<1>4. /\ KeysOf(a4) = Only(c4, "SYNAPSE_REGISTRATION_SHARED_SECRET")
      /\ TypesOf(a4) = Only(c4, "rand32")
  BY KeyNames, RequestParts, OneRequest
<1>5. /\ KeysOf(a5) = Only(c5, "SYNAPSE_SIGNING_KEY")
      /\ TypesOf(a5) = Only(c5, "signingkey")
  BY KeyNames, RequestParts, OneRequest
<1>6. /\ KeysOf(a6) = Only(c6, "MAS_SYNAPSE_SHARED_SECRET")
      /\ TypesOf(a6) = Only(c6, "rand32")
  BY KeyNames, RequestParts, OneRequest
<1>7. /\ KeysOf(a7) = Only(c7, "MAS_ENCRYPTION_SECRET")
      /\ TypesOf(a7) = Only(c7, "hex32")
  BY KeyNames, RequestParts, OneRequest
<1>8. /\ KeysOf(a8) = Only(c8, "MAS_RSA_PRIVATE_KEY")
      /\ TypesOf(a8) = Only(c8, "rsa")
  BY KeyNames, RequestParts, OneRequest
<1>9. /\ KeysOf(a9) = Only(c9, "MAS_ECDSA_PRIME256V1_PRIVATE_KEY")
      /\ TypesOf(a9) = Only(c9, "ecdsaprime256v1")
  BY KeyNames, RequestParts, OneRequest
<1>10. /\ KeysOf(a10) = Only(c10, "HOOKSHOT_REGISTRATION")
      /\ TypesOf(a10) = Only(c10, "registration")
  BY KeyNames, RequestParts, OneRequest
<1>11. /\ KeysOf(a11) = Only(c11, "HOOKSHOT_RSA_PASSKEY")
      /\ TypesOf(a11) = Only(c11, "rsa")
  BY KeyNames, RequestParts, OneRequest
<1> HIDE DEF a1, a2, a3, a4, a5, a6, a7, a8, a9, a10, a11
<1>12. KeysOf(OthersAsked(v)) =
          KeysOf(a1) \cup KeysOf(a2) \cup KeysOf(a3) \cup KeysOf(a4)
          \cup KeysOf(a5) \cup KeysOf(a6)
          \cup KeysOf(a7) \cup KeysOf(a8) \cup KeysOf(a9) \cup KeysOf(a10)
          \cup KeysOf(a11)
  BY <1>0 DEF KeysOf
<1>13. TypesOf(OthersAsked(v)) =
          TypesOf(a1) \cup TypesOf(a2) \cup TypesOf(a3) \cup TypesOf(a4)
          \cup TypesOf(a5) \cup TypesOf(a6)
          \cup TypesOf(a7) \cup TypesOf(a8) \cup TypesOf(a9) \cup TypesOf(a10)
          \cup TypesOf(a11)
  BY <1>0 DEF TypesOf
<1>14. KeysOf(OthersAsked(v)) =
          Only(c1, "ELEMENT_CALL_LIVEKIT_SECRET")
          \cup Only(c2, "SYNAPSE_EXTRA")
          \cup Only(c3, "SYNAPSE_MACAROON")
          \cup Only(c4, "SYNAPSE_REGISTRATION_SHARED_SECRET")
          \cup Only(c5, "SYNAPSE_SIGNING_KEY")
          \cup Only(c6, "MAS_SYNAPSE_SHARED_SECRET")
          \cup Only(c7, "MAS_ENCRYPTION_SECRET")
          \cup Only(c8, "MAS_RSA_PRIVATE_KEY")
          \cup Only(c9, "MAS_ECDSA_PRIME256V1_PRIVATE_KEY")
          \cup Only(c10, "HOOKSHOT_REGISTRATION")
          \cup Only(c11, "HOOKSHOT_RSA_PASSKEY")
  BY <1>1, <1>2, <1>3, <1>4, <1>5, <1>6, <1>7, <1>8, <1>9, <1>10, <1>11, <1>12
<1>15. "extra" \in TypesOf(OthersAsked(v)) <=> c2
  BY <1>1, <1>2, <1>3, <1>4, <1>5, <1>6, <1>7, <1>8, <1>9, <1>10, <1>11, <1>13
     DEF Only, When
<1> QED
  BY <1>14, <1>15, Zenon DEF c1, c2, c3, c4, c5, c6, c7, c8, c9, c10, c11

\* What the manifests read from <release>-generated is what the hook is asked
\* for, and nothing else: the templates of the components and _helpers.tpl of
\* init-secrets agree for all values that render.
THEOREM ReferencesAreRequested ==
  ASSUME NEW v, Renders(v)
  PROVE  /\ References(v) \subseteq RequestedKeys(v)
         /\ "SYNAPSE_EXTRA" \notin v.provided => RequestedKeys(v) \subseteq References(v)
<1> SUFFICES ASSUME NEW key
             PROVE  /\ key \in References(v) => key \in RequestedKeys(v)
                    /\ "SYNAPSE_EXTRA" \notin v.provided /\ key \in RequestedKeys(v) =>
                         key \in References(v)
  OBVIOUS
<1>1. ASSUME NEW component \in {"synapse", "mas"},
             v[component], component \notin v.databases
      PROVE  UsesChartDatabase(v, component) /\ PostgresEnabled(v)
  BY <1>1 DEF Renders, UsesChartDatabase, PostgresEnabled
<1>2. RequestedKeys(v) = KeysOf(PostgresAsked(v)) \cup KeysOf(OthersAsked(v))
  BY KeysAndTypesAsked, UnionOfRequests DEF Asked
<1>3. v["synapse"] = v.synapse /\ v["mas"] = v.mas
  OBVIOUS
<1> QED
  BY <1>1, <1>2, <1>3, KeysOfPostgres, KeysOfOthers
     DEF References, SynapseRefers, MasRefers, Only, When, UsesChartDatabase

\* Of the types that the list asks for only one is not known to matrix-tools,
\* and the list has it exactly with Synapse.
THEOREM TypesOfTheList ==
  ASSUME NEW v
  PROVE  /\ RequestedTypes(v) \subseteq Types
         /\ "extra" \in RequestedTypes(v) <=> v.synapse
<1>1. RequestedTypes(v) \subseteq Types
  <2>1. Asked(v) \subseteq Requests
    BY ListIsAsked, RangeOfSeq
  <2> QED
    BY <2>1, KeysAndTypesAsked DEF Requests, TypesOf
<1>2. TypesOf(Asked(v)) = TypesOf(PostgresAsked(v)) \cup TypesOf(OthersAsked(v))
  BY UnionOfRequests DEF Asked
<1> QED
  BY <1>1, <1>2, KeysAndTypesAsked, KeysOfPostgres, KeysOfOthers

\* A request of the list has the arguments that its generator needs.
THEOREM ArgumentsOfTheList ==
  ASSUME NEW v, NEW i \in DOMAIN GeneratedSecrets(v)
  PROVE  LET r == GeneratedSecrets(v)[i] IN
         /\ r.key \in RequestedKeys(v) /\ r.type \in RequestedTypes(v)
         /\ Fits(r.type, r.args)
<1>1. GeneratedSecrets(v)[i] \in Requests
  BY ListIsAsked
<1> QED
  BY <1>1 DEF Requests, RequestedKeys, RequestedTypes
===============================================================================
