---------------------------- MODULE MCLifecycle ----------------------------
EXTENDS Lifecycle

\* Every dependency graph of the run, and every one of three components that name
\* up to two others.
Names == 1..4
ASSUME OrderAssumption ==
    /\ OrdersAreRight
    /\ \A deps \in [1..3 -> {<<>>} \cup {<<a>> : a \in Names} \cup {<<a, b>> : a, b \in Names}] :
          OrderIsRight(3, deps)

\* Configurations that differ in the policy, the transports and the secrets.
Plain ==
    [release |-> FALSE, requireTLS |-> FALSE, inRange |-> TRUE,
     redis |-> "plain", grpc |-> "off", registry |-> "plain",
     register |-> TRUE, configKey |-> TRUE, dsn |-> "file", secret |-> "missing"]
Encrypted == [Plain EXCEPT !.requireTLS = TRUE, !.redis = "tls", !.grpc = "tls", !.registry = "tls"]
MCFiles ==
    {Plain, Encrypted,
     [Encrypted EXCEPT !.registry = "plain", !.register = FALSE, !.inRange = FALSE],
     [Encrypted EXCEPT !.release = TRUE, !.dsn = "missing"],
     [Plain EXCEPT !.release = TRUE, !.dsn = "file"],
     [Plain EXCEPT !.release = TRUE, !.dsn = "unused", !.registry = "off", !.register = FALSE]}
MCEnvs == [requireTLS : {"unset", "true", "false"}, dsn : BOOLEAN, secret : BOOLEAN]
MCLayers ==
    {Missing, Unparsable} \cup
    {Sets([x \in {"requireTLS"} |-> b]) : b \in BOOLEAN} \cup
    {Sets([x \in {"redis"} |-> t]) : t \in {"plain", "tls"}} \cup
    {Sets([x \in {"secret"} |-> "remote"]), Sets([x \in {"inRange"} |-> FALSE])}
=============================================================================
