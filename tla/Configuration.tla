---------------------------- MODULE Configuration ----------------------------
(***************************************************************************)
(* config.rs: from the file of an application and its environment to the    *)
(* AppConfig that the plugins read their sections from; and what            *)
(* db/config.rs and sharded.rs make of their sections.                      *)
(*                                                                         *)
(* A JSON value is a kind and a content: the fields of an object, or what a *)
(* leaf of one of the LeafKinds holds.  A file is what each parser makes of *)
(* it, None for an error.                                                   *)
(*                                                                         *)
(* deep_merge_json is a constant operator, of which this module assumes     *)
(* what one call of it does (MergeAssumption); module JsonMerge defines it. *)
(***************************************************************************)
EXTENDS Options, Naturals, Sequences

CONSTANTS
    Json,               \* the values that files have
    DeepMerge(_, _)     \* deep_merge_json

LeafKinds == {"bool", "number", "text", "null"}
Object(fields) == <<"object", fields>>
Leaf(kind, content) == <<kind, content>>

Kind(v) == v[1]
Content(v) == v[2]

IsObject(v) == v # None /\ Kind(v) = "object"
IsLeaf(v) == v # None /\ Kind(v) \in LeafKinds

NoFields == [name \in {} |-> None]

FieldsOf(v) == IF IsObject(v) THEN Content(v) ELSE NoFields

-----------------------------------------------------------------------------
EnvironmentNames == {"local", "dev-private", "development", "test", "staging", "production"}

Spellings(env) ==
    {env} \cup (CASE env = "dev-private" -> {"devprivate"}
                  [] env = "development" -> {"dev"}
                  [] env = "production" -> {"prod"}
                  [] OTHER -> {})

Environment(text) ==
    IF \E env \in EnvironmentNames : text \in Spellings(env)
    THEN CHOOSE env \in EnvironmentNames : text \in Spellings(env) ELSE None

-----------------------------------------------------------------------------
(* A variable that is missing, or does not parse, leaves the default.       *)
Or(value, default) == IF value = None THEN default ELSE value

DefaultServer(vars_of_env) ==
    [host |-> Or(vars_of_env.host, "0.0.0.0"), port |-> Or(vars_of_env.port, 8443)]

DefaultDefinition(vars_of_env) ==
    [name |-> "rusty-gasket-app", env |-> None, server |-> DefaultServer(vars_of_env),
     environments |-> NoFields, extra |-> NoFields]

ParseWithExtension(file) ==
    CASE file.extension = "toml" -> file.toml
      [] file.extension \in {"yaml", "yml"} -> file.yaml
      [] OTHER -> Or(file.toml, file.yaml)

(* from_file(..).unwrap_or_default() of the examples and the template: a    *)
(* file that does not parse counts as one that is missing.                  *)
Definition(file, vars_of_env) ==
    LET parsed == IF file.found THEN ParseWithExtension(file) ELSE None
    IN  Or(parsed, DefaultDefinition(vars_of_env))

(* One call of deep_merge_json, which calls itself as Merge.                *)
Merged(base, overlay, Merge(_, _)) ==
    IF IsObject(base) /\ IsObject(overlay)
    THEN Object([name \in DOMAIN Content(base) \cup DOMAIN Content(overlay) |->
            IF name \notin DOMAIN Content(overlay) THEN Content(base)[name]
            ELSE IF name \notin DOMAIN Content(base) THEN Content(overlay)[name]
            ELSE Merge(Content(base)[name], Content(overlay)[name])])
    ELSE overlay

ASSUME JsonAssumption ==
    \A v \in Json :
        /\ IsObject(v) \/ IsLeaf(v)
        /\ IsObject(v) => \A name \in DOMAIN Content(v) : Content(v)[name] \in Json

ASSUME MergeAssumption ==
    \A base, overlay \in Json :
        DeepMerge(base, overlay) = Merged(base, overlay, DeepMerge) /\ DeepMerge(base, overlay) # None

EnvText(definition, vars_of_env) == Or(vars_of_env.gasket_env, Or(definition.env, "local"))

(* The overrides under the name as it was spelled, or else under the        *)
(* environment's own name; under another spelling of it they are not found. *)
Overrides(definition, text) ==
    LET found == {text, Environment(text)} \cap DOMAIN definition.environments
    IN  IF text \in found THEN definition.environments[text]
        ELSE IF found # {} THEN definition.environments[Environment(text)] ELSE None

(* Mutant: a section of the overrides replaces the base's.                  *)
ResolveShallow(definition, vars_of_env) ==
    LET text == EnvText(definition, vars_of_env)
        overrides == Overrides(definition, text)
    IN  IF Environment(text) = None THEN None
        ELSE [name |-> definition.name, env |-> Environment(text), server |-> definition.server,
              sections |-> IF ~IsObject(overrides) THEN definition.extra
                           ELSE [key \in DOMAIN definition.extra \cup DOMAIN Content(overrides) |->
                                   IF key \in DOMAIN Content(overrides) THEN Content(overrides)[key]
                                   ELSE definition.extra[key]]]

(* resolve(): only sections are overridden; what an override says of `name` *)
(* or `server` becomes a section of that name.  None for an error.          *)
Resolve(definition, vars_of_env) ==
    LET text == EnvText(definition, vars_of_env)
        overrides == Overrides(definition, text)
        sections == definition.extra
    IN  IF Environment(text) = None THEN None
        ELSE [name |-> definition.name, env |-> Environment(text), server |-> definition.server,
              sections |->
                IF ~IsObject(overrides) THEN sections
                ELSE [key \in DOMAIN sections \cup DOMAIN Content(overrides) |->
                        IF key \notin DOMAIN Content(overrides) THEN sections[key]
                        ELSE IF key \notin DOMAIN sections THEN Content(overrides)[key]
                        ELSE DeepMerge(sections[key], Content(overrides)[key])]]

-----------------------------------------------------------------------------
HasSection(config, key) == key \in DOMAIN config.sections

Section(config, key) == IF HasSection(config, key) THEN config.sections[key] ELSE None

(* set_section, as a plugin's configure uses it.                            *)
SetSection(config, setting) ==
    [config EXCEPT !.sections =
        [key \in DOMAIN @ \cup {setting.key} |->
            IF key = setting.key THEN setting.value ELSE @[key]]]

(* Deserializing a section into a struct of typed fields with defaults;     *)
(* fields it does not know are skipped, None for an error.                  *)
Deserialize(section, kinds, defaults) ==
    IF ~IsObject(section) THEN None
    ELSE LET given == DOMAIN Content(section) \cap DOMAIN kinds
         IN  IF \E f \in given : Kind(Content(section)[f]) \notin kinds[f] THEN None
             ELSE [f \in DOMAIN kinds |->
                    IF f \in given THEN Content(Content(section)[f]) ELSE defaults[f]]

SectionOrDefault(config, key, kinds, defaults) ==
    IF HasSection(config, key) THEN Deserialize(Section(config, key), kinds, defaults)
    ELSE defaults

-----------------------------------------------------------------------------
(* ShardedSinkConfig                                                        *)

SinkKinds ==
    [enabled |-> {"bool"}, shards |-> {"number"}, ring_capacity |-> {"number"},
     drain_batch |-> {"number"}, shutdown_timeout_secs |-> {"number", "null"}]

DefaultSink ==
    [enabled |-> FALSE, shards |-> 1, ring_capacity |-> 8192, drain_batch |-> 256,
     shutdown_timeout_secs |-> 5]

SinkOf(config) == SectionOrDefault(config, "sharded_sink", SinkKinds, DefaultSink)

-----------------------------------------------------------------------------
(* DatabaseConfig; a URL is its scheme in lower case.                       *)

DatabaseKinds ==
    [url |-> {"text"}, backend |-> {"text"}, max_connections |-> {"number"},
     acquire_timeout_secs |-> {"number"}]

DefaultDatabase ==
    [url |-> None, backend |-> "auto", max_connections |-> 32, acquire_timeout_secs |-> 5]

Backends == {"auto", "postgres", "mysql"}

(* A section needs a url and one of three backends.                         *)
DatabaseOfSection(section) ==
    LET db == Deserialize(section, DatabaseKinds, DefaultDatabase)
    IN  IF db = None THEN None
        ELSE IF db.url = None \/ db.backend \notin Backends THEN None ELSE db

(* from_env knows one more name, and takes no notice of a bad number.       *)
DatabaseFromEnv(vars_of_env) ==
    LET backend == IF vars_of_env.db_backend = "postgresql" THEN "postgres"
                   ELSE Or(vars_of_env.db_backend, "auto")
    IN  IF vars_of_env.database_url = None \/ backend \notin Backends THEN None
        ELSE [url |-> vars_of_env.database_url, backend |-> backend,
              max_connections |-> Or(vars_of_env.max_connections, 32),
              acquire_timeout_secs |-> 5]

ResolveBackend(db) ==
    CASE db.backend # "auto" -> db.backend
      [] db.backend = "auto" /\ db.url \in {"postgres", "postgresql"} -> "postgres"
      [] db.backend = "auto" /\ db.url = "mysql" -> "mysql"
      [] OTHER -> None

(* What DatabasePlugin::prepare connects with, or None for an error.        *)
DatabaseOf(config, vars_of_env) ==
    LET db == IF HasSection(config, "database")
              THEN DatabaseOfSection(Section(config, "database"))
              ELSE DatabaseFromEnv(vars_of_env)
    IN  IF db = None THEN None ELSE IF ResolveBackend(db) = None THEN None ELSE db

=============================================================================
