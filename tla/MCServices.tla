----------------------------- MODULE MCServices -----------------------------
(* One job with two ticks, two log lines, or a probe of two contributors: a  *)
(* start meets one of these and little of the others.  The files are one of  *)
(* each thing that a file may mean.                                          *)
EXTENDS Services, JsonMerge, SequencesExt

CONSTANTS x1, x2

Number(n) == Leaf("number", n)
Text(t) == Leaf("text", t)

Local == [host |-> "127.0.0.1", port |-> 8080]

Toml(extra, environments) ==
    LET definition == [name |-> "api", env |-> None, server |-> Local,
                       environments |-> environments, extra |-> extra]
    IN  [found |-> TRUE, extension |-> "toml", toml |-> definition, yaml |-> None]

Unset ==
    [gasket_env |-> None, host |-> None, port |-> None, database_url |-> "mysql",
     db_backend |-> None, max_connections |-> None, otlp |-> None]

InEnv(name) == [Unset EXCEPT !.gasket_env = name, !.otlp = "collector"]

Postgres == Object([url |-> Text("postgres"), max_connections |-> Number(10)])

SinkSection(shards, ring, timeout) ==
    Object([enabled |-> Leaf("bool", TRUE), shards |-> Number(shards),
            ring_capacity |-> Number(ring), drain_batch |-> Number(2),
            shutdown_timeout_secs |-> timeout])

Larger ==
    Object([database |-> Object([max_connections |-> Number(50)]),
            server |-> Object([port |-> Number(8443)])])

Base == [database |-> Postgres, sharded_sink |-> SinkSection(2, 1, Number(5))]
Queued == [database |-> Postgres, sharded_sink |-> SinkSection(0, 2, Leaf("null", None))]

Started(file, env, order) ==
    [file |-> file, env |-> env, configures |-> <<>>, order |-> order,
     lines |-> {x1}, probed |-> FALSE, ticks |-> 2]

Logging(start) == [start EXCEPT !.lines = {x1, x2}, !.ticks = 1]
Probed(start) == [start EXCEPT !.probed = TRUE, !.ticks = 1]

DatabaseFirst == <<"database", "scheduler">>
SchedulerFirst == <<"scheduler", "database">>

Missing == [found |-> FALSE, extension |-> "toml", toml |-> None, yaml |-> None]

Serving ==
    {Started(Toml(Base, [production |-> Larger]), InEnv("prod"), DatabaseFirst),
     Started(Toml(Queued, [prod |-> Larger]), InEnv("production"), DatabaseFirst),
     Started(Missing, Unset, SchedulerFirst)}

MCScenarios ==
    Serving \cup {Logging(start) : start \in Serving} \cup {Probed(start) : start \in Serving}
    \cup
    {Started(Toml(Base, "prod" :> Object([database |-> Text("none")])), InEnv("prod"), SchedulerFirst),
     Started(Toml(Base, "dev-private" :> Object([sharded_sink |-> Object([shards |-> Text("two")])])),
             InEnv("devprivate"), DatabaseFirst),
     Started(Toml(Base, [staging |-> Text("none")]), InEnv("stage"), DatabaseFirst),
     Started([Missing EXCEPT !.found = TRUE, !.extension = "yml"], [Unset EXCEPT !.db_backend = "oracle"],
             DatabaseFirst),
     [Started([Toml([database |-> Object([url |-> Text("sqlite")])], NoFields) EXCEPT
                !.extension = "conf"], [Unset EXCEPT !.otlp = ""], SchedulerFirst)
      EXCEPT !.configures = <<[key |-> "database", value |-> Object([backend |-> Text("mysql")])],
                            [key |-> "sharded_sink", value |-> SinkSection(1, 0, Number(1))]>>],
     Started(Toml([database |-> Object([url |-> Text("sqlite"),
                                        pool |-> Object([min |-> Number(1), max |-> Number(2)])])],
                  [test |-> Object([database |-> Object([pool |-> Object([max |-> Number(9)])]),
                                    cache |-> Object(NoFields)])]), InEnv("test"), DatabaseFirst)}

(* The values of the files, with what is in them.                           *)
Within(v) == {v} \cup Range(FieldsOf(v))

MCJson ==
    LET definitions == {Definition(s.file, s.env) : s \in MCScenarios}
        sections == UNION {Range(d.extra) \cup Range(d.environments) : d \in definitions}
        inner == UNION {Within(v) : v \in sections}
    IN  UNION {Within(v) : v \in UNION {Within(w) : w \in inner}}

MCSettings == {SinkFor(s) : s \in MCScenarios} \ {None}
=============================================================================
