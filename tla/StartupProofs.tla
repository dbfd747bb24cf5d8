----------------------------- MODULE StartupProofs -----------------------------
(***************************************************************************)
(* Proofs about Startup: whatever the environments, the edits and the      *)
(* databases, a Job that reports success has done its work, and a          *)
(* publisher and a consumer that were set alike meet in one queue.         *)
(***************************************************************************)
EXTENDS Startup, TLAPS

USE DEF Redirect, Analytics, Shortener

\* The defaults that the services share, and the variables they read.
LEMMA SharedDefaults ==
    /\ \A k \in {"RABBITMQ_EXCHANGE", "RABBITMQ_ROUTING_KEY"} :
          /\ k \in DOMAIN Defaults[Redirect] \cap DOMAIN Defaults[Analytics]
          /\ Defaults[Redirect][k] = Defaults[Analytics][k]
    /\ "RABBITMQ_QUEUE" \in DOMAIN Defaults[Analytics]
<1>1. Defaults[Redirect] = RedirectDefaults /\ Defaults[Analytics] = AnalyticsDefaults
  BY DEF Defaults, Service
<1>2. \A k \in {"RABBITMQ_EXCHANGE", "RABBITMQ_ROUTING_KEY"} :
          /\ k \in DOMAIN RedirectDefaults \cap DOMAIN AnalyticsDefaults
          /\ RedirectDefaults[k] = AnalyticsDefaults[k]
  <2>1. RedirectDefaults["RABBITMQ_EXCHANGE"] = "clicks"
        /\ "RABBITMQ_EXCHANGE" \in DOMAIN RedirectDefaults
    BY DEF RedirectDefaults, Over
  <2>2. RedirectDefaults["RABBITMQ_ROUTING_KEY"] = "click.recorded"
        /\ "RABBITMQ_ROUTING_KEY" \in DOMAIN RedirectDefaults
    BY DEF RedirectDefaults, Over
  <2>3. AnalyticsDefaults["RABBITMQ_EXCHANGE"] = "clicks"
        /\ "RABBITMQ_EXCHANGE" \in DOMAIN AnalyticsDefaults
    BY DEF AnalyticsDefaults, Over
  <2>4. AnalyticsDefaults["RABBITMQ_ROUTING_KEY"] = "click.recorded"
        /\ "RABBITMQ_ROUTING_KEY" \in DOMAIN AnalyticsDefaults
    BY DEF AnalyticsDefaults, Over
  <2>5. QED
    BY <2>1, <2>2, <2>3, <2>4
<1>3. "RABBITMQ_QUEUE" \in DOMAIN AnalyticsDefaults
  BY DEF AnalyticsDefaults, CommonDefaults, Over
<1>4. QED
  BY <1>1, <1>2, <1>3

\* Two services that share a default and were given the same text load the same.
LEMMA SameTextLoadsAlike ==
    ASSUME NEW k \in {"RABBITMQ_EXCHANGE", "RABBITMQ_ROUTING_KEY"}, SameText(k)
    PROVE  Config(Redirect)[k] = Config(Analytics)[k]
BY SharedDefaults DEF Config, Load, SameText, GetEnvString, IsSet, Int32Keys, IntKeys,
   DurationKeys

\* The versions of the two services are kept apart.
LEMMA OwnTable ==
    \A i, j \in Migrator : MigrationsTable(i) = MigrationsTable(j) => i = j
BY DEF Migrator, MigrationsTable

--------------------------------------------------------------------------------
(* The inductive invariant.                                                *)

\* A table is there before the version is clean, and the version is clean before the
\* Job succeeds.
SchemaInv ==
    /\ \A j \in Migrator : job[j] \in {"clear", "succeeded"} =>
          <<target[j], j>> \in tables
    /\ \A j \in Migrator : \A db :
          LET v == <<db, MigrationsTable(j)>> IN
          v \in DOMAIN version /\ version[v] = "clean" => <<db, j>> \in tables

\* A session of the consumer is bound where its pod's configuration says.
BindingInv == consuming => Binding(Config(Analytics)) \in bindings

IInv == TypeOK /\ SchemaInv /\ BindingInv

LEMMA InitOK == Init => IInv
<1> SUFFICES ASSUME Init PROVE IInv
  OBVIOUS
<1> USE StartupAssumption DEF Init
<1>1. TypeOK
  <2>1. DOMAIN environment = Service
        /\ \A s \in Service : DOMAIN environment[s] \subseteq DOMAIN Defaults[s]
    OBVIOUS
  <2>2. DOMAIN loaded = Service /\ \A s \in Service : ~Up(s)
    BY DEF Up
  <2>3. /\ consuming \in BOOLEAN /\ ~consuming
        /\ instance \in Nat /\ edits \in Nat /\ reruns \in Nat /\ faults \in Nat
    OBVIOUS
  <2>4. /\ job \in [Migrator -> {"idle", "sql", "clear", "succeeded", "failed"}]
        /\ DOMAIN target = Migrator
        /\ retries \in [Migrator -> Nat]
    OBVIOUS
  <2>5. \A v \in DOMAIN version : version[v] \in {"dirty", "clean"}
    OBVIOUS
  <2>6. QED
    BY <2>1, <2>2, <2>3, <2>4, <2>5 DEF TypeOK
<1>2. SchemaInv /\ BindingInv
  BY DEF SchemaInv, BindingInv, Migrator
<1>3. QED
  BY <1>1, <1>2 DEF IInv

\* What no step on the Jobs and no step on the pods can disturb.
EnvironmentOK ==
    /\ DOMAIN environment = Service
    /\ \A s \in Service : DOMAIN environment[s] \subseteq DOMAIN Defaults[s]

PodsOK ==
    /\ DOMAIN loaded = Service
    /\ \A s \in Service : Up(s) => DOMAIN loaded[s] \subseteq DOMAIN Defaults[s]
    /\ consuming \in BOOLEAN
    /\ consuming => Up(Analytics)
    /\ instance \in Nat

JobsOK ==
    /\ job \in [Migrator -> {"idle", "sql", "clear", "succeeded", "failed"}]
    /\ DOMAIN target = Migrator
    /\ retries \in [Migrator -> Nat]
    /\ \A v \in DOMAIN version : version[v] \in {"dirty", "clean"}

BoundsOK == edits \in Nat /\ reruns \in Nat /\ faults \in Nat

LEMMA TypeParts ==
    /\ TypeOK <=> EnvironmentOK /\ PodsOK /\ JobsOK /\ BoundsOK
    /\ TypeOK' <=> EnvironmentOK' /\ PodsOK' /\ JobsOK' /\ BoundsOK'
BY DEF TypeOK, EnvironmentOK, PodsOK, JobsOK, BoundsOK

LEMMA Unchanged ==
    /\ EnvironmentOK /\ UNCHANGED environment => EnvironmentOK'
    /\ PodsOK /\ UNCHANGED <<pods, instance>> => PodsOK'
    /\ JobsOK /\ UNCHANGED <<jobs, version>> => JobsOK'
    /\ BoundsOK /\ UNCHANGED bounds => BoundsOK'
    /\ SchemaInv /\ UNCHANGED <<jobs, databases>> => SchemaInv'
    /\ BindingInv /\ UNCHANGED <<pods, bindings>> => BindingInv'
<1>1. EnvironmentOK /\ UNCHANGED environment => EnvironmentOK'
  BY DEF EnvironmentOK
<1>2. PodsOK /\ UNCHANGED <<pods, instance>> => PodsOK'
  BY DEF PodsOK, pods, Up
<1>3. JobsOK /\ UNCHANGED <<jobs, version>> => JobsOK'
  BY DEF JobsOK, jobs
<1>4. BoundsOK /\ UNCHANGED bounds => BoundsOK'
  BY DEF BoundsOK, bounds
<1>5. SchemaInv /\ UNCHANGED <<jobs, databases>> => SchemaInv'
  BY DEF SchemaInv, jobs, databases
<1>6. BindingInv /\ UNCHANGED <<pods, bindings>> => BindingInv'
  BY DEF BindingInv, pods, Config
<1>7. QED
  BY <1>1, <1>2, <1>3, <1>4, <1>5, <1>6

\* The end of a session or a pod leaves the pods in order.
LEMMA PodDown ==
    ASSUME PodsOK, NEW s \in Service, loaded' = [loaded EXCEPT ![s] = Nothing],
           instance' = instance,
           \/ consuming' = FALSE
           \/ s # Analytics /\ consuming' = consuming
           \/ s = Analytics /\ ~consuming /\ consuming' = consuming
    PROVE  PodsOK'
<1>1. \A t \in Service : Up(t)' => t # s /\ Up(t) /\ loaded'[t] = loaded[t]
  BY DEF PodsOK, Up
<1>2. consuming' => Up(Analytics)'
  BY DEF PodsOK, Up, Service
<1>3. QED
  BY <1>1, <1>2 DEF PodsOK

LEMMA PodUp ==
    ASSUME EnvironmentOK, PodsOK, NEW s \in Service, ~Up(s),
           loaded' = [loaded EXCEPT ![s] = environment[s]],
           consuming' = consuming, instance' = instance
    PROVE  PodsOK'
<1>1. \A t \in Service \ {s} : loaded'[t] = loaded[t] /\ (Up(t)' <=> Up(t))
  BY DEF PodsOK, Up
<1>2. loaded'[s] = environment[s]
  BY DEF PodsOK
<1>3. consuming' => Up(Analytics)'
  BY <1>1 DEF PodsOK, Service
<1>4. QED
  BY <1>1, <1>2, <1>3 DEF PodsOK, EnvironmentOK, Up

--------------------------------------------------------------------------------
(* The steps.                                                              *)

LEMMA EditOK == IInv /\ EditEnvironment => IInv'
<1> SUFFICES ASSUME IInv, EditEnvironment PROVE IInv'
  OBVIOUS
<1>1. EnvironmentOK'
  <2> PICK e \in Edit :
         environment' = [s \in Service |->
             IF s \in DOMAIN e THEN Over(e[s], environment[s]) ELSE environment[s]]
    BY DEF EditEnvironment
  <2> SUFFICES ASSUME NEW s \in Service
               PROVE  DOMAIN environment'[s] \subseteq DOMAIN Defaults[s]
    BY DEF EnvironmentOK
  <2>1. DOMAIN environment[s] \subseteq DOMAIN Defaults[s]
    BY TypeParts DEF IInv, EnvironmentOK
  <2>2. CASE s \in DOMAIN e
    <3>1. DOMAIN e[s] \subseteq DOMAIN Defaults[s]
      BY <2>2, StartupAssumption
    <3>2. environment'[s] = Over(e[s], environment[s])
      BY <2>2
    <3>3. DOMAIN environment'[s] = DOMAIN e[s] \cup DOMAIN environment[s]
      BY <3>2 DEF Over
    <3>4. QED
      BY <2>1, <3>1, <3>3
  <2>3. CASE s \notin DOMAIN e
    BY <2>1, <2>3
  <2>4. QED
    BY <2>2, <2>3
<1>2. BoundsOK'
  BY TypeParts DEF EditEnvironment, IInv, BoundsOK
<1>3. QED
  BY <1>1, <1>2, TypeParts, Unchanged
     DEF EditEnvironment, IInv, broker, jobs, databases

\* A failed attempt leaves the Job idle or failed: nothing is claimed for it.
LEMMA FailedAttempt ==
    ASSUME JobsOK, NEW j \in Migrator, AttemptFails(j)
    PROVE  /\ job' \in [Migrator -> {"idle", "sql", "clear", "succeeded", "failed"}]
           /\ retries' \in [Migrator -> Nat]
           /\ \A i \in Migrator : job'[i] \in {"clear", "succeeded"} =>
                 i # j /\ job[i] = job'[i]
BY DEF JobsOK, AttemptFails

LEMMA RerunOK == ASSUME IInv, NEW j \in Migrator, ApplyJobAgain(j) PROVE IInv'
<1>1. JobsOK'
  BY TypeParts DEF IInv, JobsOK, ApplyJobAgain, databases
<1>2. SchemaInv'
  BY TypeParts DEF IInv, SchemaInv, JobsOK, ApplyJobAgain, databases
<1>3. BoundsOK'
  BY TypeParts DEF IInv, BoundsOK, ApplyJobAgain
<1>4. QED
  BY <1>1, <1>2, <1>3, TypeParts, Unchanged DEF ApplyJobAgain, IInv, broker, pods

LEMMA BeginOK == ASSUME IInv, NEW j \in Migrator, BeginMigration(j) PROVE IInv'
<1> DEFINE c == Load(j, environment[j])
           v == <<Database(c), MigrationsTable(j)>>
<1>1. EnvironmentOK' /\ PodsOK' /\ BoundsOK' /\ BindingInv'
  BY TypeParts, Unchanged DEF BeginMigration, IInv, broker, pods
<1> SUFFICES JobsOK' /\ SchemaInv'
  BY <1>1, TypeParts DEF IInv
<1> JobsOK /\ SchemaInv
  BY TypeParts DEF IInv
<1>2. job[j] = "idle" /\ tables' = tables
      /\ target' = [target EXCEPT ![j] = Database(c)]
  BY DEF BeginMigration
<1>3. CASE AttemptFails(j) /\ UNCHANGED version
  BY <1>2, <1>3, FailedAttempt DEF JobsOK, SchemaInv
<1>4. CASE /\ v \in DOMAIN version /\ ~RefusedDirty(v)
           /\ job' = [job EXCEPT ![j] = "succeeded"]
           /\ UNCHANGED <<retries, version>>
  <2>1. <<Database(c), j>> \in tables
    BY <1>4 DEF RefusedDirty, JobsOK, SchemaInv
  <2>2. QED
    BY <1>2, <1>4, <2>1 DEF JobsOK, SchemaInv
<1>5. CASE /\ v \notin DOMAIN version
           /\ version' = Over([w \in {v} |-> "dirty"], version)
           /\ job' = [job EXCEPT ![j] = "sql"]
           /\ UNCHANGED retries
  <2>1. \A w \in DOMAIN version' :
          \/ w = v /\ version'[w] = "dirty"
          \/ w \in DOMAIN version /\ version'[w] = version[w]
    BY <1>5 DEF Over
  <2>2. JobsOK'
    BY <1>2, <1>5, <2>1 DEF JobsOK
  <2>3. SchemaInv'
    BY <1>2, <1>5, <2>1 DEF JobsOK, SchemaInv
  <2>4. QED
    BY <2>2, <2>3
<1>6. QED
  BY <1>3, <1>4, <1>5 DEF BeginMigration

LEMMA RunSQLOK == ASSUME IInv, NEW j \in Migrator, RunSQL(j) PROVE IInv'
<1>1. JobsOK'
  BY TypeParts DEF IInv, JobsOK, RunSQL
<1>2. SchemaInv'
  BY TypeParts DEF IInv, SchemaInv, JobsOK, RunSQL
<1>3. QED
  BY <1>1, <1>2, TypeParts, Unchanged DEF RunSQL, IInv, broker, pods

LEMMA ClearDirtyOK == ASSUME IInv, NEW j \in Migrator, ClearDirty(j) PROVE IInv'
<1> DEFINE v == <<target[j], MigrationsTable(j)>>
<1> JobsOK /\ SchemaInv
  BY TypeParts DEF IInv
<1>1. /\ job[j] = "clear"
      /\ version' = [version EXCEPT ![v] = "clean"]
      /\ job' = [job EXCEPT ![j] = "succeeded"]
      /\ UNCHANGED <<target, retries, tables>>
  BY DEF ClearDirty
<1>2. JobsOK'
  BY <1>1 DEF JobsOK
<1>3. <<target[j], j>> \in tables
  BY <1>1 DEF SchemaInv
<1>4. SchemaInv'
  <2>1. \A i \in Migrator : job'[i] \in {"clear", "succeeded"} =>
          <<target'[i], i>> \in tables'
    BY <1>1, <1>3 DEF SchemaInv, JobsOK
  <2>2. ASSUME NEW i \in Migrator, NEW db,
               <<db, MigrationsTable(i)>> \in DOMAIN version',
               version'[<<db, MigrationsTable(i)>>] = "clean"
        PROVE  <<db, i>> \in tables'
    <3>1. CASE <<db, MigrationsTable(i)>> = v
      BY <1>1, <1>3, <3>1, OwnTable
    <3>2. CASE <<db, MigrationsTable(i)>> # v
      BY <1>1, <2>2, <3>2 DEF SchemaInv
    <3>3. QED
      BY <3>1, <3>2
  <2>3. QED
    BY <2>1, <2>2 DEF SchemaInv
<1>5. QED
  BY <1>2, <1>4, TypeParts, Unchanged DEF ClearDirty, IInv, broker, pods

LEMMA JobStopsOK == ASSUME IInv, NEW j \in Migrator, JobStops(j) PROVE IInv'
<1> JobsOK /\ SchemaInv
  BY TypeParts DEF IInv
<1>1. JobsOK' /\ SchemaInv'
  BY FailedAttempt DEF JobStops, JobsOK, SchemaInv, databases
<1>2. BoundsOK'
  BY TypeParts DEF IInv, BoundsOK, JobStops
<1>3. QED
  BY <1>1, <1>2, TypeParts, Unchanged DEF JobStops, IInv, broker, pods

\* A pod that was down comes up: no session of the consumer is disturbed.
LEMMA StartOK ==
    ASSUME IInv, NEW s \in Service, ~Up(s),
           loaded' = [loaded EXCEPT ![s] = environment[s]],
           UNCHANGED <<environment, consuming, broker, jobs, databases, bounds>>
    PROVE  IInv'
<1> EnvironmentOK /\ PodsOK /\ BindingInv
  BY TypeParts DEF IInv
<1>1. PodsOK'
  BY PodUp DEF broker
<1>2. BindingInv'
  <2>1. consuming => s # Analytics
    BY DEF PodsOK
  <2>2. s # Analytics => loaded'[Analytics] = loaded[Analytics]
    BY DEF PodsOK, Service
  <2>3. QED
    BY <2>1, <2>2 DEF BindingInv, Config, broker
<1>3. QED
  BY <1>1, <1>2, TypeParts, Unchanged DEF IInv, databases

LEMMA ConsumeOK == IInv /\ Consume => IInv'
<1> SUFFICES ASSUME IInv, Consume PROVE IInv'
  OBVIOUS
<1> PodsOK
  BY TypeParts DEF IInv
<1>1. Up(Analytics) /\ ~consuming /\ instance' = instance
      /\ bindings' = bindings \cup {Binding(Config(Analytics))}
  BY DEF Consume
<1>2. CASE consuming' = TRUE /\ UNCHANGED loaded
  <2>1. PodsOK'
    BY <1>1, <1>2 DEF PodsOK, Up
  <2>2. BindingInv'
    BY <1>1, <1>2 DEF BindingInv, Config
  <2>3. QED
    BY <2>1, <2>2, TypeParts, Unchanged DEF Consume, IInv, databases
<1>3. CASE loaded' = [loaded EXCEPT ![Analytics] = Nothing] /\ UNCHANGED consuming
  <2>1. PodsOK'
    BY <1>1, <1>3, PodDown DEF Service
  <2>2. BindingInv'
    BY <1>1, <1>3 DEF BindingInv
  <2>3. QED
    BY <2>1, <2>2, TypeParts, Unchanged DEF Consume, IInv, databases
<1>4. QED
  BY <1>2, <1>3 DEF Consume

LEMMA PodStopsOK == ASSUME IInv, NEW s \in Service, PodStops(s) PROVE IInv'
<1> PodsOK /\ BoundsOK /\ BindingInv
  BY TypeParts DEF IInv
<1>1. \/ consuming' = FALSE
      \/ s # Analytics /\ consuming' = consuming /\ bindings' = bindings
  BY DEF PodStops, SessionEnds
<1>2. PodsOK'
  BY <1>1, PodDown DEF PodStops
<1>3. BindingInv'
  <2>1. s # Analytics => loaded'[Analytics] = loaded[Analytics]
    BY DEF PodStops, PodsOK, Service
  <2>2. CASE consuming' = FALSE
    BY <2>2 DEF BindingInv
  <2>3. CASE s # Analytics /\ consuming' = consuming /\ bindings' = bindings
    <3>1. Config(Analytics)' = Config(Analytics)
      BY <2>1, <2>3 DEF Config
    <3>2. QED
      BY <2>3, <3>1 DEF BindingInv
  <2>4. QED
    BY <1>1, <2>2, <2>3
<1>4. BoundsOK'
  BY StartupAssumption DEF PodStops, BoundsOK
<1>5. QED
  BY <1>2, <1>3, <1>4, TypeParts, Unchanged DEF PodStops, IInv, databases

LEMMA BrokerOK == IInv /\ (BrokerRestarts \/ BrokerReplaced) => IInv'
<1> SUFFICES ASSUME IInv, BrokerRestarts \/ BrokerReplaced PROVE IInv'
  OBVIOUS
<1> PodsOK /\ BoundsOK
  BY TypeParts DEF IInv
<1>1. consuming' = FALSE /\ loaded' = loaded /\ instance' \in Nat
  BY DEF BrokerRestarts, BrokerReplaced, SessionEnds, PodsOK
<1>2. PodsOK' /\ BindingInv'
  BY <1>1 DEF PodsOK, BindingInv, Up
<1>3. BoundsOK'
  BY DEF BrokerRestarts, BrokerReplaced, BoundsOK
<1>4. QED
  BY <1>2, <1>3, TypeParts, Unchanged DEF BrokerRestarts, BrokerReplaced, IInv,
        databases

LEMMA StepOK == IInv /\ [Next]_vars => IInv'
<1> SUFFICES ASSUME IInv, [Next]_vars PROVE IInv'
  OBVIOUS
<1>1. CASE EditEnvironment
  BY <1>1, EditOK
<1>2. CASE \E j \in Migrator : ApplyJobAgain(j) \/ JobStep(j) \/ JobStops(j)
  BY <1>2, RerunOK, BeginOK, RunSQLOK, ClearDirtyOK, JobStopsOK DEF JobStep
<1>3. CASE StartRedirect
  BY <1>3, StartOK DEF StartRedirect, Service
<1>4. CASE StartAnalytics
  BY <1>4, StartOK DEF StartAnalytics, Service
<1>5. CASE StartShortener
  BY <1>5, StartOK DEF StartShortener, Service
<1>6. CASE Consume
  BY <1>6, ConsumeOK
<1>7. CASE \E s \in Service : PodStops(s)
  BY <1>7, PodStopsOK
<1>8. CASE BrokerRestarts \/ BrokerReplaced
  BY <1>8, BrokerOK
<1>9. CASE UNCHANGED vars
  BY <1>9, TypeParts, Unchanged DEF IInv, vars, pods, broker, databases
<1>10. QED
  BY <1>1, <1>2, <1>3, <1>4, <1>5, <1>6, <1>7, <1>8, <1>9 DEF Next

--------------------------------------------------------------------------------
(* The theorems.                                                           *)

THEOREM Invariance == Spec => []IInv
<1>1. QED
  BY InitOK, StepOK, PTL DEF Spec

\* Environments, pods, Jobs and versions keep their shape, and only a pod that is up
\* has a session.
THEOREM TypesStartup == Spec => []TypeOK
<1>1. IInv => TypeOK
  BY DEF IInv
<1>2. QED
  BY <1>1, Invariance, PTL

\* A Job that reports success did its work: for any databases, any edits, and any
\* number of killed and repeated attempts.
THEOREM SuccessIsTrue == Spec => []SuccessMeansSchema
<1>1. IInv => SuccessMeansSchema
  BY DEF IInv, SchemaInv, SuccessMeansSchema
<1>2. QED
  BY <1>1, Invariance, PTL

\* Publisher and consumer that were set alike are wired together.
THEOREM SetAlikeMeansWired == Spec => []WiredTogether
<1>1. IInv => WiredTogether
  BY SameTextLoadsAlike DEF IInv, BindingInv, Binding, WiredTogether
<1>2. QED
  BY <1>1, Invariance, PTL

\* Nothing but a new broker takes clicks out of the queue they were routed to.
THEOREM RoutesAreDurable == Spec => RoutedStaysRouted
<1>1. ASSUME [Next]_vars, Routed, loaded'[Redirect] = loaded[Redirect],
             instance' = instance, TypeOK
      PROVE  Routed'
  <2>1. bindings \subseteq bindings'
    <3>1. CASE EditEnvironment
      BY <3>1 DEF EditEnvironment, broker
    <3>2. CASE \E j \in Migrator : ApplyJobAgain(j) \/ JobStep(j) \/ JobStops(j)
      BY <3>2 DEF ApplyJobAgain, JobStep, BeginMigration, RunSQL, ClearDirty, JobStops,
                  broker
    <3>3. CASE StartRedirect \/ StartAnalytics \/ StartShortener
      BY <3>3 DEF StartRedirect, StartAnalytics, StartShortener, broker
    <3>4. CASE Consume
      BY <3>4 DEF Consume
    <3>5. CASE \E s \in Service : PodStops(s)
      BY <3>5 DEF PodStops, SessionEnds
    <3>6. CASE BrokerRestarts
      BY <3>6 DEF BrokerRestarts, SessionEnds
    <3>7. CASE BrokerReplaced
      BY <1>1, <3>7 DEF BrokerReplaced, TypeOK
    <3>8. CASE UNCHANGED vars
      BY <3>8 DEF vars, broker
    <3>9. QED
      BY <1>1, <3>1, <3>2, <3>3, <3>4, <3>5, <3>6, <3>7, <3>8 DEF Next
  <2>2. QED
    BY <1>1, <2>1 DEF Routed, Up, Config
<1>2. TypeOK /\ [Next]_vars =>
        [Routed /\ loaded'[Redirect] = loaded[Redirect] /\ instance' = instance
            => Routed']_vars
  BY <1>1
<1>3. QED
  BY <1>2, TypesStartup, PTL DEF Spec, RoutedStaysRouted

--------------------------------------------------------------------------------
(* What runs, and what the other modules assume of it.                     *)

\* What a step can do to a pod: nothing, start it with what its environment says by
\* now and its checks let pass, or end it.
LEMMA PodSteps ==
    ASSUME TypeOK, [Next]_vars, NEW s \in Service
    PROVE  \/ loaded'[s] = loaded[s]
           \/ /\ ~Up(s) /\ loaded'[s] = environment[s]
              /\ Starts(s, Load(s, environment[s]))
              /\ s = Redirect => BufferUsable(Load(s, environment[s]))
           \/ /\ loaded'[s] = Nothing
              /\ \/ faults' > faults
                 \/ ~LivenessAnswers
                 \/ s = Analytics /\ ~LoopUsable(Config(s))
<1>0. DOMAIN loaded = Service /\ faults \in Nat
  BY DEF TypeOK
<1>1. CASE StartRedirect
  BY <1>0, <1>1 DEF StartRedirect, Service
<1>2. CASE StartAnalytics
  BY <1>0, <1>2 DEF StartAnalytics, Service
<1>3. CASE StartShortener
  BY <1>0, <1>3 DEF StartShortener, Service
<1>4. CASE Consume
  BY <1>0, <1>4 DEF Consume
<1>5. ASSUME NEW t \in Service, PodStops(t)
      PROVE  \/ loaded'[s] = loaded[s]
             \/ loaded'[s] = Nothing /\ (faults' > faults \/ ~LivenessAnswers)
  <2>1. loaded' = [loaded EXCEPT ![t] = Nothing]
    BY <1>5 DEF PodStops
  <2>2. LivenessAnswers => faults' > faults
    BY <1>0, <1>5 DEF PodStops
  <2>3. QED
    BY <1>0, <2>1, <2>2
<1>6. CASE \/ EditEnvironment \/ BrokerRestarts \/ BrokerReplaced \/ UNCHANGED vars
           \/ \E j \in Migrator : ApplyJobAgain(j) \/ JobStep(j) \/ JobStops(j)
  BY <1>6 DEF EditEnvironment, BrokerRestarts, BrokerReplaced, ApplyJobAgain, JobStep,
              BeginMigration, RunSQL, ClearDirty, JobStops, vars, pods
<1>7. QED
  BY <1>1, <1>2, <1>3, <1>4, <1>5, <1>6 DEF Next

\* Every pod that is up was let through by validate, the logger and Connect, and a
\* consumer with a session did not panic on its batch or its ticker.
Checked ==
    /\ \A s \in Service : Up(s) => Starts(s, Config(s))
    /\ Up(Redirect) => BufferUsable(Config(Redirect))
    /\ consuming => LoopUsable(Config(Analytics))

LEMMA CheckedStep ==
    ASSUME TypeOK, Checked, [Next]_vars
    PROVE  Checked'
<1>1. ASSUME NEW s \in Service, Up(s)'
      PROVE  /\ Starts(s, Config(s)')
             /\ s = Redirect => BufferUsable(Config(s)')
  <2>1. CASE loaded'[s] = loaded[s]
    <3>1. Up(s) /\ Config(s)' = Config(s)
      BY <1>1, <2>1 DEF Up, Config
    <3>2. QED
      BY <3>1 DEF Checked
  <2>2. CASE /\ loaded'[s] = environment[s]
             /\ Starts(s, Load(s, environment[s]))
             /\ s = Redirect => BufferUsable(Load(s, environment[s]))
    <3>1. Config(s)' = Load(s, environment[s])
      BY <2>2 DEF Config
    <3>2. QED
      BY <2>2, <3>1
  <2>3. loaded'[s] # Nothing
    BY <1>1 DEF Up
  <2>4. QED
    BY <2>1, <2>2, <2>3, PodSteps
<1>2. ASSUME consuming'
      PROVE  LoopUsable(Config(Analytics)')
  <2>1. CASE consuming
    <3>1. Up(Analytics) /\ loaded'[Analytics] = loaded[Analytics]
      <4>1. Up(Analytics)
        BY <2>1 DEF TypeOK
      <4>2. ~\E s \in Service : PodStops(s) /\ s = Analytics
        BY <1>2 DEF PodStops, SessionEnds
      <4>3. ~Consume
        BY <2>1 DEF Consume
      <4>4. DOMAIN loaded = Service /\ Analytics \in Service
        BY DEF TypeOK, Service
      <4>5. CASE StartRedirect \/ StartAnalytics \/ StartShortener
        BY <4>1, <4>4, <4>5 DEF StartRedirect, StartAnalytics, StartShortener
      <4>6. ASSUME NEW s \in Service, PodStops(s)
            PROVE  loaded'[Analytics] = loaded[Analytics]
        BY <4>2, <4>4, <4>6 DEF PodStops
      <4>7. CASE \/ EditEnvironment \/ BrokerRestarts \/ BrokerReplaced \/ UNCHANGED vars
                 \/ \E j \in Migrator : ApplyJobAgain(j) \/ JobStep(j) \/ JobStops(j)
        BY <4>1, <4>7 DEF EditEnvironment, BrokerRestarts, BrokerReplaced, ApplyJobAgain,
                    JobStep, BeginMigration, RunSQL, ClearDirty, JobStops, vars, pods
      <4>8. loaded'[Analytics] = loaded[Analytics]
        BY <4>3, <4>5, <4>6, <4>7 DEF Next
      <4>9. QED
        BY <4>1, <4>8
    <3>2. QED
      BY <2>1, <3>1 DEF Checked, Config
  <2>2. CASE ~consuming
    <3>1. Consume
      BY <1>2, <2>2 DEF Next, EditEnvironment, BrokerRestarts, BrokerReplaced,
         ApplyJobAgain, JobStep, BeginMigration, RunSQL, ClearDirty, JobStops,
         StartRedirect, StartAnalytics, StartShortener, PodStops, SessionEnds, vars, pods
    <3>2. LoopUsable(Config(Analytics)) /\ UNCHANGED loaded
      BY <1>2, <2>2, <3>1 DEF Consume
    <3>3. QED
      BY <3>2 DEF Config
  <2>3. QED
    BY <2>1, <2>2
<1>3. QED
  BY <1>1, <1>2 DEF Checked, Service

\* The numbers the services read are numbers, whatever the environment says.
LEMMA NumbersLoad ==
    \A env :
        /\ Load(Redirect, env)["CLICK_BUFFER_SIZE"] \in Int
        /\ Load(Analytics, env)["BATCH_SIZE"] \in Int
        /\ Load(Analytics, env)["FLUSH_INTERVAL"] \in Int
        /\ \A s \in Service : Load(s, env)["DB_MAX_CONNS"] \in Int32
<1>1. "CLICK_BUFFER_SIZE" \in DOMAIN RedirectDefaults
      /\ RedirectDefaults["CLICK_BUFFER_SIZE"] = 4096
  BY DEF RedirectDefaults, Over
<1>2. /\ "BATCH_SIZE" \in DOMAIN AnalyticsDefaults
      /\ AnalyticsDefaults["BATCH_SIZE"] = 500
      /\ "FLUSH_INTERVAL" \in DOMAIN AnalyticsDefaults
      /\ AnalyticsDefaults["FLUSH_INTERVAL"] = 1
  BY DEF AnalyticsDefaults, Over
<1>3. "DB_MAX_CONNS" \in DOMAIN CommonDefaults /\ CommonDefaults["DB_MAX_CONNS"] = 10
  BY DEF CommonDefaults
<1>4. \A f : "DB_MAX_CONNS" \notin DOMAIN f =>
          /\ "DB_MAX_CONNS" \in DOMAIN Over(f, CommonDefaults)
          /\ Over(f, CommonDefaults)["DB_MAX_CONNS"] = 10
  BY <1>3 DEF Over
<1>5. /\ Defaults[Redirect] = RedirectDefaults
      /\ Defaults[Analytics] = AnalyticsDefaults
      /\ Defaults[Shortener] = ShortenerDefaults
  BY Zenon DEF Defaults, Service, Redirect, Analytics, Shortener
<1>6. \A s \in Service :
          "DB_MAX_CONNS" \in DOMAIN Defaults[s] /\ Defaults[s]["DB_MAX_CONNS"] = 10
  BY <1>4, <1>5 DEF Service, RedirectDefaults, AnalyticsDefaults, ShortenerDefaults
<1>7. ASSUME NEW env, NEW s, NEW k \in DOMAIN Defaults[s]
      PROVE  /\ k \in Int32Keys =>
                  Load(s, env)[k] = GetEnvInt32(env, k, Defaults[s][k])
             /\ k \notin Int32Keys /\ k \in IntKeys =>
                  Load(s, env)[k] = GetEnvInt(env, k, Defaults[s][k])
             /\ k \notin Int32Keys /\ k \notin IntKeys /\ k \in DurationKeys =>
                  Load(s, env)[k] = GetEnvDuration(env, k, Defaults[s][k])
  <2>1. Load(s, env)[k] =
          CASE k \in Int32Keys -> GetEnvInt32(env, k, Defaults[s][k])
            [] k \in IntKeys -> GetEnvInt(env, k, Defaults[s][k])
            [] k \in DurationKeys -> GetEnvDuration(env, k, Defaults[s][k])
            [] OTHER -> GetEnvString(env, k, Defaults[s][k])
    BY Zenon DEF Load
  <2>2. Int32Keys \cap IntKeys = {} /\ (Int32Keys \cup IntKeys) \cap DurationKeys = {}
    BY SMT DEF Int32Keys, IntKeys, DurationKeys
  <2>3. ASSUME k \in Int32Keys
        PROVE  Load(s, env)[k] = GetEnvInt32(env, k, Defaults[s][k])
    BY Zenon, <2>1, <2>2, <2>3
  <2>4. ASSUME k \notin Int32Keys, k \in IntKeys
        PROVE  Load(s, env)[k] = GetEnvInt(env, k, Defaults[s][k])
    BY Zenon, <2>1, <2>2, <2>4
  <2>5. ASSUME k \notin Int32Keys, k \notin IntKeys, k \in DurationKeys
        PROVE  Load(s, env)[k] = GetEnvDuration(env, k, Defaults[s][k])
    BY Zenon, <2>1, <2>5
  <2>6. QED
    BY <2>3, <2>4, <2>5
<1>8. ASSUME NEW env
      PROVE  /\ Load(Redirect, env)["CLICK_BUFFER_SIZE"] \in Int
             /\ Load(Analytics, env)["BATCH_SIZE"] \in Int
             /\ Load(Analytics, env)["FLUSH_INTERVAL"] \in Int
  <2>1. /\ "CLICK_BUFFER_SIZE" \in IntKeys \ Int32Keys
        /\ "BATCH_SIZE" \in IntKeys \ Int32Keys
        /\ "FLUSH_INTERVAL" \in (DurationKeys \ IntKeys) \ Int32Keys
    BY SMT DEF Int32Keys, IntKeys, DurationKeys
  <2>2. \A k : /\ GetEnvInt(env, k, 4096) \in Int
               /\ GetEnvInt(env, k, 500) \in Int
               /\ GetEnvDuration(env, k, 1) \in Int
    BY ConfigurationAssumption, SMT DEF GetEnvInt, GetEnvDuration, GoInt
  <2>3. QED
    BY <1>1, <1>2, <1>5, <1>7, <2>1, <2>2
<1>9. ASSUME NEW env, NEW s \in Service
      PROVE  Load(s, env)["DB_MAX_CONNS"] \in Int32
  <2>1. "DB_MAX_CONNS" \in Int32Keys
    BY DEF Int32Keys
  <2>2. \A k : GetEnvInt32(env, k, 10) \in Int32
    BY SMT DEF GetEnvInt32, Int32
  <2>3. QED
    BY <1>6, <1>7, <2>1, <2>2
<1>10. QED
  BY <1>8, <1>9

\* Whatever the environments say and however they are edited, a pod that is up has a
\* pool of at least one connection, a publisher that is on a buffer of at least one
\* click, and a consumer with a session a batch size that is no negative number and a
\* ticker that ticks: what ServingAssumption, LifecycleAssumption, PublisherAssumption
\* and ConsumerAssumption take for granted.  The first two validate sees to; the rest
\* a panic.
THEOREM RunningPodsAreUsable ==
    Spec => [](/\ \A s \in Service :
                     Up(s) => Config(s)["DB_MAX_CONNS"] \in Nat \ {0}
               /\ Up(Redirect) => Config(Redirect)["CLICK_BUFFER_SIZE"] \in Nat \ {0}
               /\ consuming => /\ Config(Analytics)["BATCH_SIZE"] \in Nat
                               /\ Config(Analytics)["FLUSH_INTERVAL"] \in Nat \ {0})
<1> DEFINE Usable ==
       /\ \A s \in Service : Up(s) => Config(s)["DB_MAX_CONNS"] \in Nat \ {0}
       /\ Up(Redirect) => Config(Redirect)["CLICK_BUFFER_SIZE"] \in Nat \ {0}
       /\ consuming => /\ Config(Analytics)["BATCH_SIZE"] \in Nat
                       /\ Config(Analytics)["FLUSH_INTERVAL"] \in Nat \ {0}
<1>1. Init => Checked
  BY DEF Init, Checked, Up, Service
<1>2. TypeOK /\ Checked /\ [Next]_vars => Checked'
  BY CheckedStep
<1>3. ASSUME Checked PROVE Usable
  <2>1. ASSUME NEW s \in Service, Up(s)
        PROVE  Config(s)["DB_MAX_CONNS"] \in Nat \ {0}
    <3>1. CommonValid(Config(s))
      BY <1>3, <2>1 DEF Checked, Starts, Accepted, Valid, Service, RedirectValid,
                        AnalyticsValid, ShortenerValid
    <3>2. Config(s)["DB_MAX_CONNS"] >= 1
      BY <3>1, Zenon DEF CommonValid
    <3>3. Config(s)["DB_MAX_CONNS"] \in Int32
      BY NumbersLoad DEF Config
    <3>4. QED
      BY <3>2, <3>3, SMT DEF Int32
  <2>2. ASSUME Up(Redirect)
        PROVE  Config(Redirect)["CLICK_BUFFER_SIZE"] \in Nat \ {0}
    <3>1. RedirectValid(Config(Redirect))
      BY <1>3, <2>2 DEF Checked, Starts, Accepted, Valid, Service
    <3>2. QED
      BY <3>1, NumbersLoad DEF RedirectValid, Config
  <2>3. ASSUME consuming
        PROVE  /\ Config(Analytics)["BATCH_SIZE"] \in Nat
               /\ Config(Analytics)["FLUSH_INTERVAL"] \in Nat \ {0}
    BY <1>3, <2>3, NumbersLoad DEF Checked, LoopUsable, Config
  <2>4. QED
    BY <2>1, <2>2, <2>3
<1> HIDE DEF Usable
<1>4. Spec => []Usable
  BY <1>1, <1>2, <1>3, TypesStartup, PTL DEF Spec
<1>5. QED
  BY <1>4 DEF Usable
================================================================================
