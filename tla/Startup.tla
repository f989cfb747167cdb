------------------------------- MODULE Startup -------------------------------
(***************************************************************************)
(* boot.New (boot/app.go): from a configuration file to an App.  The file  *)
(* is loaded and overridden by environment variables (boot/config.go), the *)
(* transport policy is checked, the remote layers are fetched and merged   *)
(* (boot/remote.go), the result is validated, and the telemetry provider,  *)
(* the databases, Redis and the registry client are opened, each of which  *)
(* may fail and then has to give back what was opened before it.           *)
(*                                                                         *)
(* A configuration is abstracted to what the code tells apart: the mode,   *)
(* the transport policy, per transport whether it is used and encrypted,   *)
(* and, for the database DSNs and all other secrets, where they come from. *)
(* inRange stands for all checks of Validate that concern a single value.  *)
(***************************************************************************)
EXTENDS Naturals, FiniteSets

CONSTANTS
    Databases,      \* names under "database" in the file
    Files,          \* configurations a file may contain
    Envs,           \* environments the process may run in
    Layers          \* contents a remote key may have

VARIABLES
    step,           \* where New is
    file,           \* what the file contains
    env,            \* environment variables
    cfg,            \* New's cfg
    localCfg,       \* New's localCfg: cfg before the remote layers
    layers,         \* remote layers fetched so far
    opened,         \* resources that are open
    contacts,       \* history: the servers contacted, and whether over TLS
    refusal         \* history: why New failed

newVars == <<step, file, env, cfg, localCfg, layers, contacts, refusal>>
startupVars == <<newVars, opened>>

Transports == {"off", "plain", "tls"}
Configs ==
    [release : BOOLEAN, requireTLS : BOOLEAN, inRange : BOOLEAN,
     redis : Transports, grpc : Transports, registry : Transports,
     register : BOOLEAN, configKey : BOOLEAN,
     dsn : {"unused", "missing", "file", "env", "remote"},
     secret : {"missing", "file", "env", "remote"}]
Environments == [requireTLS : {"unset", "true", "false"}, dsn : BOOLEAN, secret : BOOLEAN]

\* A remote layer is missing, cannot be parsed, or sets some fields.
Missing == [exists |-> FALSE, parses |-> TRUE, fields |-> <<>>]
Unparsable == [exists |-> TRUE, parses |-> FALSE, fields |-> <<>>]
Sets(fields) == [exists |-> TRUE, parses |-> TRUE, fields |-> fields]

Steps == {"load", "policy", "fetchService", "fetchNode", "merge", "secrets", "validate",
          "server", "telemetry", "databases", "redis", "registry", "app", "running", "error"}
Resources == Databases \cup {"telemetry", "redis", "registry"}
Contacts == [to : {"config", "redis", "registry"}, tls : BOOLEAN]

\* A file holds its secrets itself, or none.
ASSUME InputsAssumption ==
    /\ Files \subseteq {c \in Configs : {c.dsn, c.secret} \cap {"env", "remote"} = {}}
    /\ Envs \subseteq Environments

StartupTypeOK ==
    /\ step \in Steps
    /\ file \in Files /\ env \in Envs
    /\ cfg \in Configs /\ localCfg \in Configs
    /\ layers \in [{"service", "node"} -> Layers \cup {Missing}]
    /\ opened \subseteq Resources
    /\ contacts \subseteq Contacts
    /\ refusal \in {"none", "inlineSecret", "other"}

NewInit ==
    /\ step = "load"
    /\ file \in Files /\ env \in Envs
    /\ cfg = file /\ localCfg = file
    /\ layers = [k \in {"service", "node"} |-> Missing]
    /\ opened = {}
    /\ contacts = {}
    /\ refusal = "none"

\* New returns an error.
Refuse(why) ==
    /\ step' = "error"
    /\ refusal' = why
    /\ UNCHANGED <<file, env, cfg, localCfg, layers, opened>>

Proceed(to) == step' = to /\ UNCHANGED refusal

Contact(server, transport) ==
    contacts' = contacts \cup {[to |-> server, tls |-> transport = "tls"]}

-----------------------------------------------------------------------------
(* Checks of a configuration.                                              *)

HasInlineSecret(c) ==
    c.release /\ (c.dsn \notin {"unused", "missing"} \/ c.secret # "missing")

\* Mutant: registry.configKey alone does not count as use of the registry.
TransportsAllowedByEnable(c) ==
    c.requireTLS => /\ c.redis # "plain" /\ c.grpc # "plain"
                    /\ c.register => c.registry # "plain"

\* validateTLSRequirements
TransportsAllowed(c) ==
    c.requireTLS => /\ c.redis # "plain" /\ c.grpc # "plain"
                    /\ c.register \/ c.configKey => c.registry # "plain"

\* Config.Validate
Valid(c) ==
    /\ c.inRange
    /\ c.dsn # "missing"
    /\ c.register => c.registry # "off"
    /\ TransportsAllowed(c)

applyEnvOverrides(c) ==
    [c EXCEPT !.dsn = IF env.dsn /\ @ # "unused" THEN "env" ELSE @,
              !.secret = IF env.secret THEN "env" ELSE @,
              !.requireTLS = IF env.requireTLS = "unset" THEN @ ELSE env.requireTLS = "true"]

UsesRemote(c) == c.configKey /\ c.registry # "off"

-----------------------------------------------------------------------------
(* The configuration.                                                      *)

\* LoadBaseConfig: read and parse, refuse inline secrets, apply overrides;
\* New keeps a copy as the base of later reloads.
LoadFile ==
    /\ step = "load"
    /\ \/ Refuse("other")
       \/ HasInlineSecret(file) /\ Refuse("inlineSecret")
       \/ /\ ~HasInlineSecret(file)
          /\ cfg' = applyEnvOverrides(file)
          /\ localCfg' = cfg'
          /\ Proceed("policy")
          /\ UNCHANGED <<file, env, layers, opened>>
    /\ UNCHANGED contacts

\* The local transport policy, before anything is contacted.
CheckPolicy ==
    /\ step = "policy"
    /\ \/ ~TransportsAllowed(cfg) /\ Refuse("other")
       \/ /\ TransportsAllowed(cfg)
          /\ Proceed(IF UsesRemote(cfg) THEN "fetchService" ELSE "secrets")
          /\ UNCHANGED <<file, env, cfg, localCfg, layers, opened>>
    /\ UNCHANGED contacts

\* fetchRemoteByKey for one layer, over a connection of its own.
Fetch(layer, contents, here, next) ==
    /\ step = here
    /\ Contact("config", cfg.registry)
    /\ \/ Refuse("other")
       \/ \E l \in contents :
             /\ layers' = [layers EXCEPT ![layer] = l]
             /\ Proceed(next)
             /\ UNCHANGED <<file, env, cfg, localCfg, opened>>

\* The service layer must exist, a node layer need not.
FetchService == Fetch("service", Layers \ {Missing}, "fetchService", "fetchNode")
FetchNode == Fetch("node", Layers \cup {Missing}, "fetchNode", "merge")

\* mergeLayer refuses what cannot be parsed and what holds a secret.
Mergeable(l) == l.parses /\ {"dsn", "secret"} \cap DOMAIN l.fields = {}

Overlay(l, c) ==
    [x \in DOMAIN c |-> IF x \in DOMAIN l.fields THEN l.fields[x] ELSE c[x]]

\* A layer that parses is a part of a configuration.
ASSUME LayersAssumption ==
    \A l \in Layers \cup {Missing}, c \in Configs : l.parses => Overlay(l, c) \in Configs

\* mergeConfigLayers: local, then service, then node.  Then the environment
\* again.
MergeLayers ==
    /\ step = "merge"
    /\ LET svc == layers["service"]
           node == layers["node"]
       IN  \/ ~(Mergeable(svc) /\ Mergeable(node)) /\ Refuse("other")
           \/ /\ Mergeable(svc) /\ Mergeable(node)
              /\ cfg' = applyEnvOverrides(Overlay(node, Overlay(svc, cfg)))
              /\ Proceed("secrets")
              /\ UNCHANGED <<file, env, localCfg, layers, opened>>
    /\ UNCHANGED contacts

\* validateInlineSecrets once more, on the configuration with its overrides.
CheckSecrets ==
    /\ step = "secrets"
    /\ \/ HasInlineSecret(cfg) /\ Refuse("inlineSecret")
       \/ /\ ~HasInlineSecret(cfg)
          /\ Proceed("validate")
          /\ UNCHANGED <<file, env, cfg, localCfg, layers, opened>>
    /\ UNCHANGED contacts

CheckConfig ==
    /\ step = "validate"
    /\ \/ ~Valid(cfg) /\ Refuse("other")
       \/ /\ Valid(cfg)
          /\ Proceed("server")
          /\ UNCHANGED <<file, env, cfg, localCfg, layers, opened>>
    /\ UNCHANGED contacts

-----------------------------------------------------------------------------
(* The resources.                                                          *)

\* Opens r, if it is configured, and goes on; or fails, closes what its error
\* path names, and New returns the error.
Acquire(here, r, configured, closing, next) ==
    /\ step = here
    /\ \/ /\ configured
          /\ step' = "error" /\ refusal' = "other"
          /\ opened' = opened \ closing
       \/ /\ opened' = IF configured THEN opened \cup {r} ELSE opened
          /\ Proceed(next)
    /\ UNCHANGED <<file, env, cfg, localCfg, layers>>

\* The certificate of the gRPC server and the trusted proxies: nothing is
\* open yet that would have to be closed.
PrepareServer ==
    /\ step = "server"
    /\ \/ Refuse("other")
       \/ Proceed("telemetry") /\ UNCHANGED <<file, env, cfg, localCfg, layers, opened>>
    /\ UNCHANGED contacts

InitTelemetry ==
    /\ Acquire("telemetry", "telemetry", TRUE, {}, "databases")
    /\ UNCHANGED contacts

\* OpenAllDBs visits the map in any order.
OpenDatabase(d) ==
    /\ cfg.dsn # "unused" /\ d \notin opened
    /\ Acquire("databases", d, TRUE, Databases \cup {"telemetry"}, "databases")
    /\ UNCHANGED contacts

DatabasesOpen ==
    /\ step = "databases"
    /\ cfg.dsn = "unused" \/ Databases \subseteq opened
    /\ Proceed("redis")
    /\ UNCHANGED <<file, env, cfg, localCfg, layers, opened, contacts>>

OpenRedis ==
    /\ Acquire("redis", "redis", cfg.redis # "off", Databases \cup {"telemetry"}, "registry")
    /\ IF cfg.redis # "off" THEN Contact("redis", cfg.redis) ELSE UNCHANGED contacts

\* Mutant: the rollback forgets Redis.
NewRegistryKeepsRedis ==
    /\ Acquire("registry", "registry", cfg.register, Databases \cup {"telemetry"}, "app")
    /\ IF cfg.register THEN Contact("registry", cfg.registry) ELSE UNCHANGED contacts

\* The last step: New returns the App.
NewRegistry ==
    /\ Acquire("registry", "registry", cfg.register,
               Databases \cup {"redis", "telemetry"}, "app")
    /\ IF cfg.register THEN Contact("registry", cfg.registry) ELSE UNCHANGED contacts

NewStep ==
    \/ LoadFile \/ CheckPolicy \/ FetchService \/ FetchNode \/ MergeLayers
    \/ CheckSecrets \/ CheckConfig \/ PrepareServer \/ InitTelemetry
    \/ (\E d \in Databases : OpenDatabase(d)) \/ DatabasesOpen \/ OpenRedis \/ NewRegistry

-----------------------------------------------------------------------------
\* When New fails, nothing it opened stays open.
FailedNewLeaksNothing == step = "error" => opened = {}

\* requireTLS is enforced before a byte is sent: the remote configuration is
\* fetched over TLS if the local policy asks for it, and Redis and the registry
\* are contacted over TLS if the final one does.
PolicyFirst ==
    \A c \in contacts : ~c.tls =>
        IF c.to = "config" THEN ~localCfg.requireTLS ELSE ~cfg.requireTLS

\* Environment variables override the file and every remote layer, and secrets
\* never come from a remote layer; in release mode they come from nowhere but
\* the environment.
EnvironmentWins ==
    step = "app" =>
        /\ env.requireTLS # "unset" => cfg.requireTLS = (env.requireTLS = "true")
        /\ env.dsn => cfg.dsn \in {"env", "unused"}
        /\ env.secret => cfg.secret = "env"
        /\ "remote" \notin {cfg.dsn, cfg.secret}
        /\ cfg.release => "file" \notin {cfg.dsn, cfg.secret}

\* README: release mode refuses secrets written in the YAML file, and has them
\* injected by environment variables.  Hence New refuses a configuration for
\* its secrets only if the file contains one.
RefusesOnlyInlineSecrets ==
    refusal = "inlineSecret" => "file" \in {file.dsn, file.secret}
=============================================================================
