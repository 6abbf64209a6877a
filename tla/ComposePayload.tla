--------------------------- MODULE ComposePayload ---------------------------
(***************************************************************************)
(* The Compose payload of an app, which is all the ownership there is: the *)
(* store writes it in one go and believes nothing of an app that it cannot *)
(* read back from it.  A payload is the document itself; that middleware   *)
(* may return it as an object or as text, and labels, environment and      *)
(* lists in either of their YAML forms, makes no difference once it is     *)
(* parsed, and a form that does not parse is one unreadable payload.       *)
(* Beside its services a document may have other keys (networks, volumes). *)
(***************************************************************************)
EXTENDS OwnedName

CONSTANTS None

\* Keys of the runner service with one allowed value each.
Key == {"image", "user", "restart", "entrypoint", "cap_drop", "security_opt",
        "cpus", "mem_limit", "tmpfs"}
RequiredLabel == {"managed", "schema", "controller-id", "pool-id", "profile"}
AllowedLabel == RequiredLabel \cup {"callback-host-gateway"}
BootstrapEnv == {"GARM_CALLBACK_URL", "GARM_METADATA_URL",
                 "GARM_INSTANCE_TOKEN"}
ToolEnv == {"GARM_RUNNER_DOWNLOAD_URL", "GARM_RUNNER_FILENAME",
            "GARM_RUNNER_SHA256"}
requiredEnvironment == BootstrapEnv \cup ToolEnv

\* A URL is its scheme and the host it names, or missing; "https-port" has a
\* host part that is a port and no name, "https-nohost" has none.
Url == {"https-dns", "https-other", "https-ip", "https-port", "https-nohost",
        "http", ""}
Text == {"", " ", "token"}
Blank == {"", " "}
IsBlank(text) == text \in Blank

requireHTTPS(url) ==
    url \in {"https-dns", "https-other", "https-ip", "https-port"}

\* The DNS host both URLs name, or None.
callbackHostGatewayEntry(callback, metadata) ==
    IF callback = metadata /\ callback \in {"https-dns", "https-other"}
    THEN callback ELSE None

----------------------------------------------------------------------------
\* Writing: composeConfig on the specification Manager.Create fixes, then
\* applyCallbackHostGateway.  Identities are sequences of characters.
composeConfig(spec) ==
    [readable |-> TRUE, toplevel |-> {}, services |-> 1,
     key |-> [k \in Key |-> "fixed"],
     labels |-> [l \in RequiredLabel |->
                   CASE l = "controller-id" -> spec.controllerID
                     [] l = "pool-id" -> spec.poolID
                     [] OTHER -> <<"fixed">>],
     environment |-> [e \in requiredEnvironment |->
                        CASE e = "GARM_CALLBACK_URL" -> spec.callback
                          [] e = "GARM_METADATA_URL" -> spec.metadata
                          [] e = "GARM_INSTANCE_TOKEN" -> spec.token
                          [] OTHER -> "fixed"],
     extra_hosts |-> None]

WithLabel(payload, l, value) ==
    [payload EXCEPT !.labels =
        [x \in DOMAIN @ \cup {l} |-> IF x = l THEN value ELSE @[x]]]

\* mutant: the label is forgotten.
applyCallbackHostGatewayUnlabelled(payload, entry) ==
    [payload EXCEPT !.extra_hosts = entry]

applyCallbackHostGateway(payload, entry) ==
    [WithLabel(payload, "callback-host-gateway", <<"true">>)
        EXCEPT !.extra_hosts = entry]

\* What CreateApp hands to app.create; None if it refuses.
Payload(spec, enabled) ==
    LET entry == callbackHostGatewayEntry(spec.callback, spec.metadata)
    IN  IF ~enabled THEN composeConfig(spec)
        ELSE IF entry = None THEN None
        ELSE applyCallbackHostGateway(composeConfig(spec), entry)

----------------------------------------------------------------------------
\* Reading.
Label(payload, l) ==
    IF l \in DOMAIN payload.labels THEN payload.labels[l] ELSE <<>>

\* mutant: the number of variables is not compared.
EnvironmentHasFixed(environment) ==
    /\ requiredEnvironment \subseteq DOMAIN environment
    /\ \A e \in BootstrapEnv : ~IsBlank(environment[e])
    /\ \A e \in ToolEnv : environment[e] = "fixed"

EnvironmentFixed(environment) ==
    /\ DOMAIN environment = requiredEnvironment
    /\ \A e \in BootstrapEnv : ~IsBlank(environment[e])
    /\ \A e \in ToolEnv : environment[e] = "fixed"

validateFixedRunnerService(payload) ==
    /\ DOMAIN payload.key = Key
    /\ \A k \in Key : payload.key[k] = "fixed"
    /\ DOMAIN payload.labels \subseteq AllowedLabel
    /\ "callback-host-gateway" \in DOMAIN payload.labels =>
          payload.labels["callback-host-gateway"] = <<"true">>
    /\ (payload.extra_hosts # None)
          <=> ("callback-host-gateway" \in DOMAIN payload.labels)
    /\ EnvironmentFixed(payload.environment)

\* What Apps calls the profile of an app.  Of the document only the services
\* are looked at.
decodeApp(payload) ==
    LET owned == {"controller-id", "pool-id"}
    IN  IF ~payload.readable THEN "malformed"
        ELSE IF Label(payload, "managed") # <<"fixed">> THEN "unmanaged"
        ELSE IF /\ payload.services = 1
                /\ Label(payload, "schema") = <<"fixed">>
                /\ \A l \in owned : TrimSpace(Label(payload, l)) # <<>>
                /\ TrimSpace(Label(payload, "profile")) = <<"fixed">>
                /\ validateFixedRunnerService(payload)
        THEN "fixed" ELSE "drift"

\* The specification decodeApp answers; it has no bootstrap token.
Decoded(payload) ==
    [controllerID |-> TrimSpace(Label(payload, "controller-id")),
     poolID |-> TrimSpace(Label(payload, "pool-id")),
     callback |-> payload.environment["GARM_CALLBACK_URL"],
     metadata |-> payload.environment["GARM_METADATA_URL"]]

validateCallbackHostGatewayAppConfig(payload, expected) ==
    LET entry == callbackHostGatewayEntry(
                    payload.environment["GARM_CALLBACK_URL"],
                    payload.environment["GARM_METADATA_URL"])
    IN  IF expected
        THEN /\ Label(payload, "callback-host-gateway") = <<"true">>
             /\ entry # None /\ payload.extra_hosts = entry
        ELSE /\ "callback-host-gateway" \notin DOMAIN payload.labels
             /\ payload.extra_hosts = None

\* GetApp takes the app for one of the provider's.
Accepts(payload, expected) ==
    /\ decodeApp(payload) = "fixed"
    /\ validateCallbackHostGatewayAppConfig(payload, expected)

\* Manager.Create's verification of what GetApp has answered.
verifyOwnership(payload, expected, controllerID, poolID) ==
    /\ Accepts(payload, expected)
    /\ Decoded(payload).controllerID = controllerID
    /\ poolID # <<>> => Decoded(payload).poolID = poolID
=============================================================================
