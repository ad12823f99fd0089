------------------------------ MODULE ComposeGate ------------------------------
(***************************************************************************)
(* .github/validate_compose.py: deploy/compose.yml before a deployment.    *)
(*                                                                         *)
(* A file is what the script finds out about it:                           *)
(*   readable, parses, removedPlugin (of pyproject.toml), mappings (the    *)
(*   key sequences of all its mapping nodes), services (names), bot (the   *)
(*   service: a function from its keys to values), network (the top-level  *)
(*   default: NULL or [name, external]), name (the top-level one, or NULL).*)
(* A value is what the checks tell apart: the set of marks that occur in   *)
(* it, empty if its type is none a mark can occur in; `cap_drop` is a      *)
(* sequence; `environment` is a sequence of keys, with NULL for an entry   *)
(* without one; `networks` is the aliases on the default network.  NULL is *)
(* an `environment` or `ports` that is no list, and a network not given.   *)
(***************************************************************************)
EXTENDS ExitCodes

CONSTANTS
    EXPECTED_ENV,            \* twelve names of variables
    FORBIDDEN_ENV,
    REQUIRED_SERVICE_KEYS    \* fourteen keys

\* check_duplicates
HasDuplicates(file) ==
    \E keys \in file.mappings : \E i, j \in DOMAIN keys : i # j /\ keys[i] = keys[j]

Keys(env) == {env[i] : i \in DOMAIN env}

\* The early returns of main before the service is looked at, ...
Malformed(file) ==
    \/ file.removedPlugin
    \/ ~file.readable
    \/ ~file.parses
    \/ HasDuplicates(file)
    \/ "bot" \notin file.services
    \/ ~(REQUIRED_SERVICE_KEYS \subseteq DOMAIN file.bot)

\* ... those about the environment and the certificate pin, ...
EnvironmentRefused(bot) ==
    LET env == bot["environment"] IN
        \/ env = NULL
        \/ NULL \in Keys(env)
        \/ \E i, j \in DOMAIN env : i # j /\ env[i] = env[j]
        \/ ~(EXPECTED_ENV \subseteq Keys(env))

Pinned(bot) ==
    \/ FORBIDDEN_ENV \cap Keys(bot["environment"]) # {}
    \/ "certificate" \in bot["volumes"]

\* ... and those about the networks.
NetworkMissing(file) == file.bot["networks"] = NULL \/ file.network = NULL

\* checks.  Ports may be empty: all() of nothing holds.
Check(label, ok) == [label |-> label, ok |-> ok]

\* Lines 174, 182 and 190 list again what was refused above them.
RepeatedChecks(svc) ==
    {Check("environment covers", EXPECTED_ENV \subseteq Keys(svc["environment"])),
     Check("environment without pin", FORBIDDEN_ENV \cap Keys(svc["environment"]) = {}),
     Check("no certificate mount", "certificate" \notin svc["volumes"])}

Checks(file, bot) ==
    LET svc == file.bot IN
        {Check("user", svc["user"] = "1001:1001"),
         Check("cap_drop", svc["cap_drop"] = <<"ALL">>),
         Check("security_opt", "no-new-privileges" \in svc["security_opt"]),
         Check("tmpfs", "/tmp" \in svc["tmpfs"]),
         Check("image names the tag", "required tag" \in svc["image"]),
         Check("image has no fallback", "fallback tag" \notin svc["image"]),
         Check("image without quotes", "quote" \notin svc["image"]),
         Check("extra_hosts", "host-gateway" \in svc["extra_hosts"]),
         Check("ports", svc["ports"] # NULL /\ svc["ports"] \subseteq {"loopback"}),
         Check("healthcheck", /\ {"redis", "6379"} \subseteq svc["healthcheck"]
                              /\ "127.0.0.1:6380" \notin svc["healthcheck"]),
         Check("aliases", svc["networks"] # {}),
         Check("network name", bot # NULL => file.network.name = bot),
         Check("network external", file.network.external),
         Check("name", file.name # NULL)}
        \cup RepeatedChecks(svc)

FailedChecks(file, bot) == {c \in Checks(file, bot) : ~c.ok}

\* main.  `bot` is the network the --bot argument asks for, NULL without one.
ComposeExit(arguments, file, bot) ==
    IF arguments = 0 THEN EXIT_CANNOT_VERIFY
    ELSE IF Malformed(file) THEN EXIT_FAIL
    ELSE IF EnvironmentRefused(file.bot) \/ Pinned(file.bot) THEN EXIT_FAIL
    ELSE IF NetworkMissing(file) THEN EXIT_FAIL
    ELSE IF FailedChecks(file, bot) # {} THEN EXIT_FAIL
    ELSE EXIT_OK
===============================================================================
