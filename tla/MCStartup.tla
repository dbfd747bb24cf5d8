------------------------------- MODULE MCStartup -------------------------------
(***************************************************************************)
(* An instance of Startup for TLC: the environments of                     *)
(* deploy/local/docker-compose.yml and edits that go wrong in every way    *)
(* that validate, the logger, the database and the broker tell apart.      *)
(***************************************************************************)
EXTENDS Startup, TLC

BaseURLs == {"http://localhost:8000", "https://sh.example.com"}

Databases == {<<"postgres", "urlshortener">>, <<"postgres", "analytics">>}

Compose ==
    LET postgres == [DB_HOST |-> "postgres", DB_USER |-> "appuser",
                     LOG_FORMAT |-> "console"]
    IN (Redirect :> ([DB_NAME |-> "urlshortener", CLICK_MODE |-> "async"] @@ postgres))
       @@ (Analytics :> ([DB_NAME |-> "analytics"] @@ postgres))
       @@ (Shortener :> ([DB_NAME |-> "urlshortener"] @@ postgres))

Edits ==
    {\* The routing key, on one side or on both, and the queue.
     (Redirect :> [RABBITMQ_ROUTING_KEY |-> "click"]),
     (Redirect :> [RABBITMQ_ROUTING_KEY |-> "click"])
        @@ (Analytics :> [RABBITMQ_ROUTING_KEY |-> "click",
                          RABBITMQ_QUEUE |-> "clicks"]),
     \* Refused by validate.
     (Redirect :> [CLICK_BUFFER_SIZE |-> -1]),
     \* Refused by the logger; and a mode that is accepted and does nothing.
     (Redirect :> [CLICK_MODE |-> "sync"]) @@ (Shortener :> [LOG_LEVEL |-> "verbose"]),
     \* Accepted, and a panic when the consumer starts; refused by validate, and a
     \* database there is not.
     (Analytics :> [BATCH_SIZE |-> -1]) @@ (Shortener :> [DB_MIN_CONNS |-> 20]),
     (Analytics :> [FLUSH_INTERVAL |-> 0]) @@ (Shortener :> [DB_NAME |-> "links"]),
     \* Ignored without a word, for a number that fits no int among others; and one
     \* database for both.
     (Analytics :> [FLUSH_INTERVAL |-> Junk, DB_MAX_CONNS |-> Junk,
                    BATCH_SIZE |-> MaxInt + 1, DB_NAME |-> "urlshortener"]),
     \* A Job that migrates, and a pod that never connects.
     (Shortener :> [DB_CONNECT_TIMEOUT |-> 0])}
================================================================================
