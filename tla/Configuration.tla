---------------------------- MODULE Configuration ----------------------------
(***************************************************************************)
(* load_configuration_from_environment(): which environments give a        *)
(* configuration, and which.  Of a value the model keeps its kind, or the  *)
(* word it is, and the number if it is one.                                *)
(***************************************************************************)
EXTENDS Integers

CONSTANT kMaxInt          \* the largest int of the build (milliseconds, below)

ASSUME IntAssumption == kMaxInt \in Nat /\ kMaxInt >= 10000

Word(w) == [text |-> w, number |-> 0]
Number(n) == [text |-> "number", number |-> n]
unset == Word("unset")    \* absent or empty: the two are treated alike
blank == Word("blank")    \* white space only

kMaxPort == 65535

Variables ==
  {"HTTP_ADDRESS", "HTTP_PORT", "HTTP_THREADS", "LOG_LEVEL", "METRICS_ENABLED",
   "COUCHBASE_CONNECTION_STRING", "COUCHBASE_USERNAME", "COUCHBASE_PASSWORD",
   "COUCHBASE_BUCKET", "COUCHBASE_SCOPE", "IDEMPOTENCY_RETENTION",
   "REDIS_ENABLED", "REDIS_URI", "REDIS_CONNECT_TIMEOUT",
   "REDIS_COMMAND_TIMEOUT", "REDIS_RESOURCE_TTL", "KAFKA_ENABLED",
   "KAFKA_BROKERS", "KAFKA_TOPIC", "KAFKA_CLIENT_ID", "KAFKA_ACK_TIMEOUT",
   "KAFKA_DELIVERY_TIMEOUT", "OUTBOX_BATCH_SIZE", "OUTBOX_POLL_INTERVAL"}

Environment == [Variables -> [text : STRING, number : Nat]]

Flags == {"METRICS_ENABLED", "REDIS_ENABLED", "KAFKA_ENABLED"}

Required ==
  {"COUCHBASE_CONNECTION_STRING", "COUCHBASE_USERNAME", "COUCHBASE_PASSWORD",
   "COUCHBASE_BUCKET", "COUCHBASE_SCOPE"}

Positive ==
  {"HTTP_THREADS", "IDEMPOTENCY_RETENTION", "REDIS_CONNECT_TIMEOUT",
   "REDIS_COMMAND_TIMEOUT", "REDIS_RESOURCE_TTL", "KAFKA_ACK_TIMEOUT",
   "KAFKA_DELIVERY_TIMEOUT", "OUTBOX_BATCH_SIZE", "OUTBOX_POLL_INTERVAL"}

Default ==
  [HTTP_ADDRESS |-> Word("host"), HTTP_PORT |-> Number(8080),
   HTTP_THREADS |-> Number(1), LOG_LEVEL |-> Word("info"),
   METRICS_ENABLED |-> Word("true"), IDEMPOTENCY_RETENTION |-> Number(86400),
   REDIS_ENABLED |-> Word("false"), REDIS_URI |-> Word("tcp"),
   REDIS_CONNECT_TIMEOUT |-> Number(100), REDIS_COMMAND_TIMEOUT |-> Number(100),
   REDIS_RESOURCE_TTL |-> Number(300), KAFKA_ENABLED |-> Word("false"),
   KAFKA_BROKERS |-> Word("host"), KAFKA_TOPIC |-> Word("topic"),
   KAFKA_CLIENT_ID |-> Word("client"), KAFKA_ACK_TIMEOUT |-> Number(5000),
   KAFKA_DELIVERY_TIMEOUT |-> Number(10000), OUTBOX_BATCH_SIZE |-> Number(100),
   OUTBOX_POLL_INTERVAL |-> Number(1000)]

\* environment_or_default(); the Couchbase variables have no default.
Value(env, v) ==
  IF env[v] = unset /\ v \notin Required THEN Default[v] ELSE env[v]

ParsesAsFlag(value) == value \in {Word("true"), Word("false"), Number(1), Number(0)}
Enabled(env, v) == Value(env, v) \in {Word("true"), Number(1)}

\* from_chars() must consume the whole value and find a number in range.
ParsesAsPositive(value) == value.text = "number" /\ value.number > 0

ParsesAsPort(value) == ParsesAsPositive(value) /\ value.number <= kMaxPort

LogLevels == {"trace", "debug", "info", "warn", "warning", "error", "critical"}

RequiredAreSet(env) == \A v \in Required : env[v] # unset

\* Mutant: the two Kafka timeouts are not compared.
KafkaSettingsUnordered(env) ==
  /\ Value(env, "KAFKA_CLIENT_ID") # blank
  /\ Enabled(env, "KAFKA_ENABLED") =>
       Value(env, "KAFKA_BROKERS") # blank /\ Value(env, "KAFKA_TOPIC") # blank

KafkaSettingsAgree(env) ==
  /\ Value(env, "KAFKA_CLIENT_ID") # blank
  /\ Enabled(env, "KAFKA_ENABLED") =>
       Value(env, "KAFKA_BROKERS") # blank /\ Value(env, "KAFKA_TOPIC") # blank
  /\ Value(env, "KAFKA_ACK_TIMEOUT").number
       <= Value(env, "KAFKA_DELIVERY_TIMEOUT").number

HttpSettingsParse(env) ==
  Value(env, "HTTP_ADDRESS") # blank /\ ParsesAsPort(Value(env, "HTTP_PORT"))

\* The URI is looked at even when Redis is disabled.
RedisSettingsParse(env) == Value(env, "REDIS_URI") = Word("tcp")

\* No ConfigurationError is thrown.
Loads(env) ==
  /\ \A v \in Flags : ParsesAsFlag(Value(env, v))
  /\ \A v \in Positive : ParsesAsPositive(Value(env, v))
  /\ KafkaSettingsAgree(env)
  /\ HttpSettingsParse(env)
  /\ Value(env, "LOG_LEVEL").text \in LogLevels
  /\ RequiredAreSet(env)
  /\ RedisSettingsParse(env)

\* What the rest of the process is given, as far as it decides anything.
Loaded(env) ==
  [kafka |-> Enabled(env, "KAFKA_ENABLED"),
   redis |-> Enabled(env, "REDIS_ENABLED"),
   acknowledgement_timeout |-> Value(env, "KAFKA_ACK_TIMEOUT").number,
   delivery_timeout |-> Value(env, "KAFKA_DELIVERY_TIMEOUT").number,
   batch_size |-> Value(env, "OUTBOX_BATCH_SIZE").number,
   poll_interval |-> Value(env, "OUTBOX_POLL_INTERVAL").number]

=============================================================================
