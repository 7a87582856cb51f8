----------------------------- MODULE KafkaOptions -----------------------------
(***************************************************************************)
(* The reader options of a topic's stream: the defaults of the source      *)
(* (sources/kafka.py, sources/autoloader.py), what the authentication      *)
(* provider adds (auth/providers.py) and what the cluster, source and      *)
(* topic specs set.  The value of an option is the level that sets it.     *)
(***************************************************************************)
KafkaType == {"kafka_msk", "kafka_cloudera", "kafka_generic"}

\* A level's options
SetBy(level, names) == [name \in names |-> level]

\* dict.update
Update(options, others) ==
    [name \in DOMAIN options \cup DOMAIN others |->
        IF name \in DOMAIN others THEN others[name] ELSE options[name]]

-----------------------------------------------------------------------------
(* Authentication: auth.options is a record of the options given *)

RequiredOptions(type) ==
    CASE type = "ssl" -> {"truststore_location"}
      [] type = "mtls" -> {"truststore_location", "keystore_location",
                           "keystore_password"}
      [] type = "sasl_ssl" -> {"username", "password"}
      [] type = "kerberos" -> {"principal", "keytab_location"}
      [] OTHER -> {}

\* BaseAuthProvider.__init__
OptionsMissing(auth) == RequiredOptions(auth.type) \ DOMAIN auth.options

\* upper(), for the spellings a spec may have
Upper(mechanism) ==
    CASE mechanism = "plain" -> "PLAIN"
      [] mechanism = "scram-sha-256" -> "SCRAM-SHA-256"
      [] mechanism = "scram-sha-512" -> "SCRAM-SHA-512"
      [] OTHER -> mechanism

\* _JAAS_MODULES
MechanismUnknown(auth) ==
    /\ auth.type = "sasl_ssl"
    /\ "mechanism" \in DOMAIN auth.options
    /\ Upper(auth.options.mechanism)
           \notin {"SCRAM-SHA-512", "SCRAM-SHA-256", "PLAIN"}

\* The problems of an authentication spec that only its provider knows
AuthProblems(auth) ==
    IF OptionsMissing(auth) # {} THEN {"auth_required"}
    ELSE IF MechanismUnknown(auth) THEN {"sasl_mechanism"}
    ELSE {}

\* Options passed on when they are given
PassedOn(auth) ==
    LET given(name, option) == IF name \in DOMAIN auth.options THEN {option} ELSE {}
    IN  CASE auth.type = "ssl" ->
                given("truststore_password", "kafka.ssl.truststore.password")
          [] auth.type = "mtls" ->
                given("truststore_password", "kafka.ssl.truststore.password")
                \cup given("key_password", "kafka.ssl.key.password")
          [] auth.type \in {"sasl_ssl", "kerberos"} ->
                given("truststore_location", "kafka.ssl.truststore.location")
          [] OTHER -> {}

\* kafka_options() of the provider
AuthOptionNames(auth) ==
    {"kafka.security.protocol"} \cup PassedOn(auth) \cup
    (IF auth.type \in {"ssl", "mtls"}
     THEN {"kafka.ssl.truststore.location", "kafka.ssl.truststore.type"} ELSE {}) \cup
    (IF auth.type = "mtls"
     THEN {"kafka.ssl.keystore.location", "kafka.ssl.keystore.password",
           "kafka.ssl.keystore.type"} ELSE {}) \cup
    (IF auth.type \in {"sasl_ssl", "msk_iam", "kerberos"}
     THEN {"kafka.sasl.mechanism", "kafka.sasl.jaas.config"} ELSE {}) \cup
    (IF auth.type = "msk_iam"
     THEN {"kafka.sasl.client.callback.handler.class"} ELSE {}) \cup
    (IF auth.type = "kerberos"
     THEN {"kafka.sasl.kerberos.service.name"} ELSE {})

-----------------------------------------------------------------------------
(* The reader: source is [type, auth, cluster, options, topic], the last    *)
(* three the names of the options that each level sets.                     *)

ProviderDefaults(type) ==
    IF type = "autoloader" THEN {"cloudFiles.format", "cloudFiles.inferColumnTypes"}
    ELSE {"startingOffsets", "failOnDataLoss", "maxOffsetsPerTrigger"} \cup
         CASE type = "kafka_msk" -> {"kafka.reconnect.backoff.ms",
                                     "kafka.reconnect.backoff.max.ms"}
           [] type = "kafka_cloudera" -> {"kafka.sasl.kerberos.service.name"}
           [] OTHER -> {}

\* Set last, whatever the specs say
Fixed == {"kafka.bootstrap.servers", "subscribe"}

\* Variant: the topic's options before the source's.
TopicFirst(options, source, t) ==
    Update(Update(options, SetBy("topic", source.topic[t])),
           SetBy("source", source.options))

\* What the specs set is last: the source's options, then the topic's.
SpecsLast(options, source, t) ==
    Update(Update(options, SetBy("source", source.options)),
           SetBy("topic", source.topic[t]))

\* reader_options() of Kafka, the options of read() of the auto loader
ReaderOptions(source, t) ==
    LET default == SetBy("default", ProviderDefaults(source.type))
        auth == Update(default, SetBy("auth", AuthOptionNames(source.auth)))
        cluster == Update(auth, SetBy("cluster", source.cluster))
    IN  IF source.type \in KafkaType
        THEN Update(SpecsLast(cluster, source, t), SetBy("fixed", Fixed))
        ELSE SpecsLast(default, source, t)
=============================================================================
