----------------------------- MODULE Configuration -----------------------------
(***************************************************************************)
(* How each service turns its environment variables into a configuration   *)
(* (internal/config/config.go) and a logger (pkg/logger/logger.go): every  *)
(* key has a default, text that does not parse falls back to it without a  *)
(* word, and validate refuses some of what is left.                        *)
(*                                                                         *)
(* An environment is a function of the variables that are set, a           *)
(* configuration one of all of a service's variables.  The ones whose      *)
(* value decides how a service starts or works with the others are kept;   *)
(* the HTTP time-outs, connection lifetimes, the listen address, the       *)
(* broker's URL, the prefetch limit (a constant of ClickConsumer), the     *)
(* password and the build data are left out.  Durations are whole seconds, *)
(* and one that time.ParseDuration finds too long is Junk.                 *)
(* LOG_LEVEL and LOG_FORMAT stand for their lower case, which is what the  *)
(* code compares.                                                          *)
(***************************************************************************)
EXTENDS Integers

CONSTANTS
    MaxInt,       \* the largest int: 2^63 - 1 as the services are built
    Junk,         \* text that does not parse as the number or duration it should be
    AbsoluteURL,  \* the URLs that have a scheme and a host
    Reachable     \* the databases <<host, name>> there are

ASSUME ConfigurationAssumption ==
    /\ Junk \notin Int
    /\ MaxInt \in Nat /\ MaxInt >= 65535

Redirect == "redirect-service"
Analytics == "analytics-service"
Shortener == "urlshortener-service"
Service == {Redirect, Analytics, Shortener}

\* Function f, and g where f has no value.
Over(f, g) ==
    [k \in DOMAIN f \cup DOMAIN g |-> IF k \in DOMAIN f THEN f[k] ELSE g[k]]

\* What strconv.Atoi and a ParseInt of 32 bits accept.
GoInt == {i \in Int : -MaxInt - 1 <= i /\ i <= MaxInt}
Int32 == {i \in Int : -2147483647 - 1 <= i /\ i <= 2147483647}

--------------------------------------------------------------------------------
(* The defaults.                                                           *)

CommonDefaults ==
    [SERVER_PORT |-> 8000, ADMIN_PORT |-> 9090,
     SHUTDOWN_READINESS_DRAIN |-> 5, SHUTDOWN_TIMEOUT |-> 15,
     DB_HOST |-> "", DB_PORT |-> 5432, DB_USER |-> "", DB_NAME |-> "",
     DB_SSLMODE |-> "disable", DB_MAX_CONNS |-> 10, DB_MIN_CONNS |-> 2,
     DB_CONNECT_TIMEOUT |-> 5, LOG_LEVEL |-> "info", LOG_FORMAT |-> "json"]

RedirectDefaults ==
    Over([CLICK_MODE |-> "off", CLICK_BUFFER_SIZE |-> 4096,
          RABBITMQ_EXCHANGE |-> "clicks", RABBITMQ_ROUTING_KEY |-> "click.recorded"],
         CommonDefaults)

\* A default that one of two services changed.
AnalyticsDefaultsRenamed ==
    Over([RABBITMQ_EXCHANGE |-> "clicks", RABBITMQ_ROUTING_KEY |-> "click.created",
          RABBITMQ_QUEUE |-> "clicks.analytics", BATCH_SIZE |-> 500,
          FLUSH_INTERVAL |-> 1], CommonDefaults)

AnalyticsDefaults ==
    Over([RABBITMQ_EXCHANGE |-> "clicks", RABBITMQ_ROUTING_KEY |-> "click.recorded",
          RABBITMQ_QUEUE |-> "clicks.analytics", BATCH_SIZE |-> 500,
          FLUSH_INTERVAL |-> 1], CommonDefaults)

ShortenerDefaults ==
    Over([SHORT_BASE_URL |-> "http://localhost:8000"], CommonDefaults)

Defaults ==
    [s \in Service |-> CASE s = Redirect -> RedirectDefaults
                         [] s = Analytics -> AnalyticsDefaults
                         [] s = Shortener -> ShortenerDefaults]

--------------------------------------------------------------------------------
(* Reading a variable.                                                     *)

\* os.LookupEnv; a variable set to "" counts as one that is not set.
IsSet(env, k) == k \in DOMAIN env

GetEnvString(env, k, fallback) == IF IsSet(env, k) THEN env[k] ELSE fallback

GetEnvInt(env, k, fallback) ==
    IF IsSet(env, k) /\ env[k] \in GoInt THEN env[k] ELSE fallback

GetEnvInt32(env, k, fallback) ==
    IF IsSet(env, k) /\ env[k] \in Int32 THEN env[k] ELSE fallback

GetEnvDuration(env, k, fallback) ==
    IF IsSet(env, k) /\ env[k] \in Int THEN env[k] ELSE fallback

Int32Keys == {"DB_MAX_CONNS", "DB_MIN_CONNS"}
IntKeys == {"SERVER_PORT", "ADMIN_PORT", "DB_PORT", "CLICK_BUFFER_SIZE", "BATCH_SIZE"}
DurationKeys == {"SHUTDOWN_READINESS_DRAIN", "SHUTDOWN_TIMEOUT", "DB_CONNECT_TIMEOUT",
                 "FLUSH_INTERVAL"}

\* The configuration service s loads, before validate.
Load(s, env) ==
    LET fallback == Defaults[s] IN
    [k \in DOMAIN fallback |->
        CASE k \in Int32Keys -> GetEnvInt32(env, k, fallback[k])
          [] k \in IntKeys -> GetEnvInt(env, k, fallback[k])
          [] k \in DurationKeys -> GetEnvDuration(env, k, fallback[k])
          [] OTHER -> GetEnvString(env, k, fallback[k])]

--------------------------------------------------------------------------------
(* validate.                                                               *)

IsPort(p) == 1 <= p /\ p <= 65535

CommonValid(c) ==
    /\ IsPort(c["SERVER_PORT"])
    /\ IsPort(c["ADMIN_PORT"])
    /\ c["ADMIN_PORT"] # c["SERVER_PORT"]
    /\ c["DB_HOST"] # "" /\ c["DB_USER"] # "" /\ c["DB_NAME"] # ""
    /\ IsPort(c["DB_PORT"])
    /\ c["DB_SSLMODE"] \in {"disable", "allow", "prefer", "require", "verify-ca",
                         "verify-full"}
    /\ c["DB_MAX_CONNS"] >= 1
    /\ c["DB_MIN_CONNS"] >= 0
    /\ c["DB_MIN_CONNS"] <= c["DB_MAX_CONNS"]
    /\ c["LOG_FORMAT"] \in {"json", "console"}

\* Forgetting the bound on the buffer.
RedirectValidUnbounded(c) ==
    CommonValid(c) /\ c["CLICK_MODE"] \in {"off", "async", "sync"}

RedirectValid(c) ==
    /\ CommonValid(c)
    /\ c["CLICK_MODE"] \in {"off", "async", "sync"}
    /\ c["CLICK_BUFFER_SIZE"] >= 1

\* BATCH_SIZE and FLUSH_INTERVAL are not looked at.
AnalyticsValid(c) == CommonValid(c)

ShortenerValid(c) == CommonValid(c) /\ c["SHORT_BASE_URL"] \in AbsoluteURL

Valid(s, c) ==
    CASE s = Redirect -> RedirectValid(c)
      [] s = Analytics -> AnalyticsValid(c)
      [] s = Shortener -> ShortenerValid(c)

\* logger.Init: the names zapcore.ParseLevel knows.
LoggerInit(c) ==
    c["LOG_LEVEL"] \in {"debug", "info", "warn", "error", "dpanic", "panic", "fatal"}

--------------------------------------------------------------------------------
(* What the rest of the program makes of a configuration.                  *)

\* The database of the connection string.
Database(c) == <<c["DB_HOST"], c["DB_NAME"]>>

\* One table for the versions of both schemas, which is golang-migrate's default.
MigrationsTableShared(s) == "schema_migrations"

\* The table in which golang-migrate keeps the version of a service's schema.
MigrationsTable(s) ==
    CASE s = Analytics -> "schema_migrations_analytics_service"
      [] s = Shortener -> "schema_migrations_urlshortener_service"

Reaches(c) == Database(c) \in Reachable

\* Connect: the pool must answer a ping before DB_CONNECT_TIMEOUT.
Connects(c) == Reaches(c) /\ c["DB_CONNECT_TIMEOUT"] > 0

\* GetFields: what a pod writes to its log when it starts.
CommonFields == {"SERVER_PORT", "SHUTDOWN_READINESS_DRAIN", "SHUTDOWN_TIMEOUT",
                 "DB_HOST", "DB_PORT", "DB_NAME", "DB_USER", "DB_SSLMODE",
                 "DB_MAX_CONNS", "DB_MIN_CONNS", "DB_CONNECT_TIMEOUT", "LOG_LEVEL",
                 "LOG_FORMAT"}
RedirectFields == CommonFields
AnalyticsFields == CommonFields
ShortenerFields == CommonFields \cup {"SHORT_BASE_URL"}

GetFields(s, c) ==
    LET fields == CASE s = Redirect -> RedirectFields
                    [] s = Analytics -> AnalyticsFields
                    [] s = Shortener -> ShortenerFields
    IN  [k \in fields |-> c[k]]
================================================================================
