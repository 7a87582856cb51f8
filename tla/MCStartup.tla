------------------------------ MODULE MCStartup -------------------------------
(***************************************************************************)
(* A plain MSK cluster, clusters of every authentication type with the     *)
(* options of all, some or none given, and one option that any levels set. *)
(***************************************************************************)
EXTENDS Startup

Source(type, auth, cluster, options, first) ==
    [type |-> type, auth |-> auth, cluster |-> cluster, options |-> options,
     topic |-> [t \in Topics |-> IF t = 1 THEN first ELSE {}]]

Auth(type, options) == [type |-> type, options |-> options]
Password == [username |-> "u", password |-> "p"]

Auths ==
    {Auth(type, <<>>) : type \in {"none", "msk_iam", "sasl_ssl"}} \cup
    {Auth("ssl", [truststore_location |-> "t", truststore_password |-> "p"]),
     Auth("mtls", [truststore_location |-> "t"]),
     Auth("mtls", [truststore_location |-> "t", keystore_location |-> "k",
                   keystore_password |-> "p", key_password |-> "p"]),
     Auth("kerberos", [principal |-> "p"]),
     Auth("kerberos", [principal |-> "p", keytab_location |-> "k"])} \cup
    {Auth("sasl_ssl", Update(Password, [mechanism |-> m])) :
        m \in {"plain", "SCRAM-SHA-256", "OAUTHBEARER"}}

\* An option of the fixed ones, of the defaults, of a provider's, of the defaults
\* and a provider's, and one that nobody else knows
Options == {"subscribe", "startingOffsets", "kafka.security.protocol",
            "kafka.sasl.kerberos.service.name", "minPartitions"}

MCPlainSource == Source("kafka_msk", Auth("msk_iam", <<>>), {}, {}, {})
MCSourceInputs ==
    UNION {{Source(type, auth, cluster, options, first) :
                type \in KafkaType \cup {"autoloader"}, auth \in Auths,
                cluster \in {{}, {option}}, options \in {{}, {option}},
                first \in {{}, {option}}} : option \in Options}
=============================================================================
