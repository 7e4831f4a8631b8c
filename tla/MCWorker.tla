------------------------------ MODULE MCWorker ------------------------------
(* An instance of RelayWorker for TLC: two processes, two events of which   *)
(* one cannot be read, and environments on both sides of what is accepted.  *)
EXTENDS RelayWorker

MCEvents == 1 .. 2
MCReservation == [e \in MCEvents |-> e]

\* Couchbase is configured and nothing else.
Plain == [v \in Variables |-> IF v \in Required THEN Word("given") ELSE unset]

\* Kafka is added, with the longest timeouts an int can hold.
WithKafka ==
  [Plain EXCEPT
     !["KAFKA_ENABLED"] = Word("true"),
     !["KAFKA_ACK_TIMEOUT"] = Number(kMaxInt),
     !["KAFKA_DELIVERY_TIMEOUT"] = Number(kMaxInt)]

MCEnvironments ==
  {Plain, WithKafka,
   [WithKafka EXCEPT !["KAFKA_ACK_TIMEOUT"] = Number(kMaxInt + 1)],
   [WithKafka EXCEPT !["KAFKA_DELIVERY_TIMEOUT"] = Number(kMaxInt + 1)],
   [WithKafka EXCEPT !["OUTBOX_BATCH_SIZE"] = Number(0)],
   [WithKafka EXCEPT !["COUCHBASE_PASSWORD"] = unset],
   [Plain EXCEPT !["HTTP_PORT"] = Number(70000)]}

=============================================================================
