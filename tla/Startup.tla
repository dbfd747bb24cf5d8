-------------------------------- MODULE Startup --------------------------------
(***************************************************************************)
(* From environments to a running system: operators edit the ConfigMaps    *)
(* and Secrets, Jobs migrate the databases (cmd/migrate), and one pod of   *)
(* each service loads its configuration, connects and starts (cmd/api).    *)
(* Nothing in deploy/k8s orders a Job before the pods that need its        *)
(* tables, and a running pod keeps what it loaded.                         *)
(*                                                                         *)
(* A start that fails (validate, an unknown log level, no database, a      *)
(* panic) exits; the container is started again with the environment of    *)
(* that time.  Such a step changes nothing here, so it is not an action.   *)
(*                                                                         *)
(* The consumer and the publisher share one broker.  What is kept of it is *)
(* its bindings; clicks themselves are in ClickPipeline.                   *)
(***************************************************************************)
EXTENDS Configuration, FiniteSets

CONSTANTS
    Nothing,         \* what a pod that is not up has loaded
    BaseEnvironment, \* the environment of each service at first
    Edit,            \* what operators may set: services to variables to text
    LivenessPath,    \* of the livenessProbe in the manifests
    BackoffLimit,    \* of the migrate Jobs: failed attempts that are retried
    MaxEdits,        \* bound: edits of the environments
    MaxReruns,       \* bound: Jobs applied again
    MaxFaults        \* bound: pods, Jobs and brokers that stop

Migrator == {Analytics, Shortener}

ASSUME StartupAssumption ==
    /\ \A s \in Service : Nothing # BaseEnvironment[s]
    /\ DOMAIN BaseEnvironment = Service
    /\ \A s \in Service : DOMAIN BaseEnvironment[s] \subseteq DOMAIN Defaults[s]
    /\ \A e \in Edit : \A s \in DOMAIN e \cap Service :
          DOMAIN e[s] \subseteq DOMAIN Defaults[s]
    /\ BackoffLimit \in Nat /\ MaxEdits \in Nat /\ MaxReruns \in Nat
    /\ MaxFaults \in Nat

VARIABLES
    environment,  \* ConfigMap and Secret of each service
    loaded,       \* the environment each pod has loaded, or Nothing: it is not up
    consuming,    \* the analytics pod has a session on the broker
    bindings,     \* of the broker: <<exchange, routing key, queue>>
    instance,     \* number of brokers that were replaced by an empty one
    job,          \* each Job: "idle", "sql", "clear", "succeeded" or "failed"
    target,       \* the database a Job that is not idle has loaded
    retries,      \* failed attempts of each Job
    version,      \* <<database, migrations table>> to "dirty" or "clean"
    tables,       \* <<database, service>>: the tables there are
    edits,
    reruns,
    faults

pods == <<loaded, consuming>>
broker == <<bindings, instance>>
jobs == <<job, target, retries>>
databases == <<version, tables>>
bounds == <<edits, reruns, faults>>
vars == <<environment, pods, broker, jobs, databases, bounds>>

Up(s) == loaded[s] # Nothing

\* The configuration of a pod that is up.
Config(s) == Load(s, loaded[s])

\* Load and Init of the logger succeed, and Connect does.
Accepted(s, c) == Valid(s, c) /\ LoggerInit(c)
Starts(s, c) == Accepted(s, c) /\ Connects(c)

\* An attempt of cmd/migrate gets as far as migrate.Up; it goes by its connection
\* string alone and never looks at DB_CONNECT_TIMEOUT.
Migrates(s, c) == Accepted(s, c) /\ Reaches(c)

TypeOK ==
    /\ DOMAIN environment = Service
    /\ \A s \in Service : DOMAIN environment[s] \subseteq DOMAIN Defaults[s]
    /\ DOMAIN loaded = Service
    /\ \A s \in Service : Up(s) => DOMAIN loaded[s] \subseteq DOMAIN Defaults[s]
    /\ consuming \in BOOLEAN
    /\ consuming => Up(Analytics)
    /\ instance \in Nat
    /\ job \in [Migrator -> {"idle", "sql", "clear", "succeeded", "failed"}]
    /\ DOMAIN target = Migrator
    /\ retries \in [Migrator -> Nat]
    /\ \A v \in DOMAIN version : version[v] \in {"dirty", "clean"}
    /\ edits \in Nat
    /\ reruns \in Nat
    /\ faults \in Nat

Init ==
    /\ environment = BaseEnvironment
    /\ loaded = [s \in Service |-> Nothing]
    /\ consuming = FALSE
    /\ bindings = {}
    /\ instance = 0
    /\ job = [j \in Migrator |-> "idle"]
    /\ target = [j \in Migrator |-> Nothing]
    /\ retries = [j \in Migrator |-> 0]
    /\ version = <<>>
    /\ tables = {}
    /\ edits = 0
    /\ reruns = 0
    /\ faults = 0

--------------------------------------------------------------------------------
(* Slips the definitions below could have been written with; the           *)
(* properties at the end tell each of them from the code.                  *)

\* A dirty version taken for one that needs no change.
RefusedDirtySwallowed(v) == FALSE

\* A session nobody ends with its pod.
SessionLingers == UNCHANGED <<consuming, bindings>>

\* A queue that goes with the session that declared it.
SessionEndsAutoDelete ==
    /\ consuming' = FALSE
    /\ bindings' = IF consuming THEN {} ELSE bindings

--------------------------------------------------------------------------------
(* Operators.                                                              *)

EditEnvironment ==
    /\ edits < MaxEdits
    /\ \E e \in Edit :
          environment' = [s \in Service |->
              IF s \in DOMAIN e THEN Over(e[s], environment[s]) ELSE environment[s]]
    /\ edits' = edits + 1
    /\ UNCHANGED <<pods, broker, jobs, databases, reruns, faults>>

\* A Job that has ended is deleted and applied once more.
ApplyJobAgain(j) ==
    /\ reruns < MaxReruns
    /\ job[j] \in {"succeeded", "failed"}
    /\ job' = [job EXCEPT ![j] = "idle"]
    /\ retries' = [retries EXCEPT ![j] = 0]
    /\ reruns' = reruns + 1
    /\ UNCHANGED <<environment, pods, broker, target, databases, edits, faults>>

--------------------------------------------------------------------------------
(* The migrate Jobs.                                                       *)

AttemptFails(j) ==
    /\ job' = [job EXCEPT ![j] = IF retries[j] < BackoffLimit THEN "idle" ELSE "failed"]
    /\ retries' = [retries EXCEPT ![j] = @ + 1]

\* migrate.Up on a version that an earlier attempt left dirty.
RefusedDirty(v) == v \in DOMAIN version /\ version[v] = "dirty"

\* The configuration and the database's version decide: a dirty version is an
\* error, the latest one is migrate.ErrNoChange and thus success, and no version
\* is set to 1 and dirty before the SQL runs.  The advisory lock of golang-migrate
\* keeps out a Job on the same database and table.
BeginMigration(j) ==
    LET c == Load(j, environment[j])
        v == <<Database(c), MigrationsTable(j)>>
    IN
    /\ job[j] = "idle"
    /\ \A o \in Migrator \ {j} :
          job[o] \in {"sql", "clear"} => <<target[o], MigrationsTable(o)>> # v
    /\ target' = [target EXCEPT ![j] = Database(c)]
    /\ \/ /\ ~Migrates(j, c) \/ RefusedDirty(v)
          /\ AttemptFails(j)
          /\ UNCHANGED version
       \/ /\ Migrates(j, c) /\ ~RefusedDirty(v) /\ v \in DOMAIN version
          /\ job' = [job EXCEPT ![j] = "succeeded"]
          /\ UNCHANGED <<retries, version>>
       \/ /\ Migrates(j, c) /\ v \notin DOMAIN version
          /\ version' = Over([w \in {v} |-> "dirty"], version)
          /\ job' = [job EXCEPT ![j] = "sql"]
          /\ UNCHANGED retries
    /\ UNCHANGED <<environment, pods, broker, tables, bounds>>

\* sql/000001: CREATE TABLE IF NOT EXISTS.
RunSQL(j) ==
    /\ job[j] = "sql"
    /\ tables' = tables \cup {<<target[j], j>>}
    /\ job' = [job EXCEPT ![j] = "clear"]
    /\ UNCHANGED <<environment, pods, broker, target, retries, version, bounds>>

ClearDirty(j) ==
    /\ job[j] = "clear"
    /\ version' = [version EXCEPT ![<<target[j], MigrationsTable(j)>>] = "clean"]
    /\ job' = [job EXCEPT ![j] = "succeeded"]
    /\ UNCHANGED <<environment, pods, broker, target, retries, tables, bounds>>

\* A Job is killed, or its SQL fails: the version stays dirty.
JobStops(j) ==
    /\ faults < MaxFaults
    /\ job[j] \in {"sql", "clear"}
    /\ AttemptFails(j)
    /\ faults' = faults + 1
    /\ UNCHANGED <<environment, pods, broker, target, databases, edits, reruns>>

--------------------------------------------------------------------------------
(* The pods.                                                               *)

\* make(chan, n) panics on a negative n.
BufferUsable(c) == c["CLICK_MODE"] = "async" => c["CLICK_BUFFER_SIZE"] >= 0

StartRedirect ==
    LET c == Load(Redirect, environment[Redirect]) IN
    /\ ~Up(Redirect)
    /\ Starts(Redirect, c)
    /\ BufferUsable(c)
    /\ loaded' = [loaded EXCEPT ![Redirect] = environment[Redirect]]
    /\ UNCHANGED <<environment, consuming, broker, jobs, databases, bounds>>

StartAnalytics ==
    /\ ~Up(Analytics)
    /\ Starts(Analytics, Load(Analytics, environment[Analytics]))
    /\ loaded' = [loaded EXCEPT ![Analytics] = environment[Analytics]]
    /\ UNCHANGED <<environment, consuming, broker, jobs, databases, bounds>>

StartShortener ==
    /\ ~Up(Shortener)
    /\ Starts(Shortener, Load(Shortener, environment[Shortener]))
    /\ loaded' = [loaded EXCEPT ![Shortener] = environment[Shortener]]
    /\ UNCHANGED <<environment, consuming, broker, jobs, databases, bounds>>

Binding(c) == <<c["RABBITMQ_EXCHANGE"], c["RABBITMQ_ROUTING_KEY"], c["RABBITMQ_QUEUE"]>>

\* make([]T, 0, n) and time.NewTicker(d) panic; by then the pod was serving.
LoopUsable(c) == c["BATCH_SIZE"] >= 0 /\ c["FLUSH_INTERVAL"] > 0

\* A session of the consumer: declare, then loop.
Consume ==
    LET c == Config(Analytics) IN
    /\ Up(Analytics) /\ ~consuming
    /\ bindings' = bindings \cup {Binding(c)}
    /\ \/ LoopUsable(c) /\ consuming' = TRUE /\ UNCHANGED loaded
       \/ /\ ~LoopUsable(c)
          /\ loaded' = [loaded EXCEPT ![Analytics] = Nothing]
          /\ UNCHANGED consuming
    /\ UNCHANGED <<environment, instance, jobs, databases, bounds>>

\* declare asks for a queue and an exchange that are durable and not deleted with
\* their last consumer.
SessionEnds == consuming' = FALSE /\ UNCHANGED bindings

\* SetupAdminRouter: what the admin server has an answer to; 404 to all else.
AdminRoutes == {"/livez", "/readyz", "/metrics"}
LivenessAnswers == LivenessPath \in AdminRoutes

\* A pod is killed, or stopped to be replaced; the kubelet kills one whose liveness
\* probe has no answer, again and again.
PodStops(s) ==
    /\ LivenessAnswers => faults < MaxFaults
    /\ Up(s)
    /\ loaded' = [loaded EXCEPT ![s] = Nothing]
    /\ IF s = Analytics THEN SessionEnds ELSE UNCHANGED <<consuming, bindings>>
    /\ faults' = IF faults < MaxFaults THEN faults + 1 ELSE faults
    /\ UNCHANGED <<environment, instance, jobs, databases, edits, reruns>>

\* The connection breaks or the broker restarts on its data.
BrokerRestarts ==
    /\ faults < MaxFaults
    /\ SessionEnds
    /\ faults' = faults + 1
    /\ UNCHANGED <<environment, loaded, instance, jobs, databases, edits, reruns>>

\* deploy/ gives RabbitMQ no volume: a new container starts empty.
BrokerReplaced ==
    /\ faults < MaxFaults
    /\ consuming' = FALSE
    /\ bindings' = {}
    /\ instance' = instance + 1
    /\ faults' = faults + 1
    /\ UNCHANGED <<environment, loaded, jobs, databases, edits, reruns>>

--------------------------------------------------------------------------------
JobStep(j) == BeginMigration(j) \/ RunSQL(j) \/ ClearDirty(j)

Next ==
    \/ EditEnvironment
    \/ \E j \in Migrator : ApplyJobAgain(j) \/ JobStep(j) \/ JobStops(j)
    \/ StartRedirect \/ StartAnalytics \/ StartShortener
    \/ Consume
    \/ \E s \in Service : PodStops(s)
    \/ BrokerRestarts \/ BrokerReplaced

Spec == Init /\ [][Next]_vars

\* Kubernetes starts a container that exited again, and retries a Job; the
\* consumer redials for ever.
Fairness ==
    /\ WF_vars(StartRedirect) /\ WF_vars(StartAnalytics) /\ WF_vars(StartShortener)
    /\ WF_vars(Consume)
    /\ \A j \in Migrator : WF_vars(JobStep(j))

FairSpec == Spec /\ Fairness

--------------------------------------------------------------------------------
(* Properties.                                                             *)

\* A Job that reported success left its service's tables in the database it was
\* pointed at, however often it was killed, applied again or pointed elsewhere, and
\* also when both services share a database.
SuccessMeansSchema ==
    \A j \in Migrator : job[j] = "succeeded" => <<target[j], j>> \in tables

\* Neither pod was started with the variable, or both with the same text.
SameText(k) ==
    IF IsSet(loaded[Redirect], k) /\ IsSet(loaded[Analytics], k)
      THEN loaded[Redirect][k] = loaded[Analytics][k]
      ELSE ~IsSet(loaded[Redirect], k) /\ ~IsSet(loaded[Analytics], k)

\* The consumer has a session and the publisher is on: if exchange and routing key were
\* left alone for both pods, or set alike, the publisher's clicks go to the queue the
\* consumer reads.
WiredTogether ==
    Up(Redirect) /\ consuming =>
        LET r == Config(Redirect)
            a == Config(Analytics)
        IN  /\ r["CLICK_MODE"] = "async"
            /\ SameText("RABBITMQ_EXCHANGE")
            /\ SameText("RABBITMQ_ROUTING_KEY")
            => <<r["RABBITMQ_EXCHANGE"], r["RABBITMQ_ROUTING_KEY"], a["RABBITMQ_QUEUE"]>>
                   \in bindings

\* The clicks of the redirect pod are kept in some queue.
Routed ==
    /\ Up(Redirect)
    /\ LET r == Config(Redirect) IN
       \E b \in bindings : b[1] = r["RABBITMQ_EXCHANGE"] /\ b[2] = r["RABBITMQ_ROUTING_KEY"]

\* Once they are, they stay so for as long as that pod and the broker's data live:
\* through the end of the consumer's session and pod, and a consumer that comes back
\* with another queue or key.
RoutedStaysRouted ==
    [][Routed /\ loaded'[Redirect] = loaded[Redirect] /\ instance' = instance
          => Routed']_vars

\* What the environments now say is accepted, there are the databases, the consumer's
\* loop can run, and the redirect-service looks where the urlshortener-service writes.
Sound ==
    LET c == [s \in Service |-> Load(s, environment[s])] IN
    /\ \A s \in Service : Starts(s, c[s])
    /\ LoopUsable(c[Analytics])
    /\ Database(c[Redirect]) = Database(c[Shortener])

Serving ==
    /\ \A s \in Service : Up(s)
    /\ consuming

\* Each service finds its tables where its environment says.
SchemaThere ==
    LET DB(s) == Database(Load(s, environment[s])) IN
    /\ <<DB(Redirect), Shortener>> \in tables
    /\ <<DB(Shortener), Shortener>> \in tables
    /\ <<DB(Analytics), Analytics>> \in tables

\* With environments that stay sound every pod is up for good at some time, whatever
\* was wrong before and whatever came down; if nothing was ever wrong, over tables
\* that exist.
ServesInTheEnd ==
    <>[]Sound => <>[](Serving /\ (edits + faults = 0 => SchemaThere))

\* A pod that is up goes down by a fault or its own panic, never by its liveness probe:
\* deploy/k8s/docker/06-shorten-service.yaml says of that probe "Never touches the
\* database: a shared dependency going slow would otherwise restart every pod in the
\* fleet at once", and then names a path that no router has.
ProbeSpares ==
    [][\A s \in Service :
          Up(s) /\ loaded'[s] = Nothing =>
              \/ faults' > faults
              \/ s = Analytics /\ ~LoopUsable(Config(s))]_vars

\* Two configurations that a pod logs alike are alike: the log of a pod that is up
\* tells what it runs with from what its environment says by now.  The comment above
\* the log line of each main says so ("can be traced back to its exact
\* configuration"); GetFields leaves out most of the settings.
Traceable ==
    \A s \in Service :
        LET now == Load(s, environment[s]) IN
        Up(s) /\ GetFields(s, Config(s)) = GetFields(s, now) => Config(s) = now
================================================================================
