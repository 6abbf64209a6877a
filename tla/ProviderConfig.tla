--------------------------- MODULE ProviderConfig ---------------------------
(***************************************************************************)
(* What a provider process accepts before it talks to TrueNAS: the         *)
(* configuration file, the pool GARM asks it to validate, and the          *)
(* bootstrap parameters of a Create, at the front end and once more in     *)
(* provider.Manager.  Pure functions on documents whose values are the     *)
(* ones that the code tells apart; an absent field reads as its zero value.*)
(***************************************************************************)
EXTENDS ComposePayload

CONSTANTS TargetVersion     \* the exact TrueNAS versions of the matrix

\* What is tried as a port, at the limits of what validateConfig lets through.
PortTried == {-1, 0, 65535, 65536}

\* form: the file cannot be read or parsed, or has a field nobody knows.
trueNASConfig ==
    [host : {"", " ", "nas"}, username : {"", "garm"},
     backend : {"", "apps", " APPS ", "container", "vm", "magic"},
     port : PortTried, insecure_skip_verify : BOOLEAN,
     callback_host_gateway : BOOLEAN]
config == [form : {"json", "unreadable", "unknown-field"},
           mode : {"", "mock", "truenas"}, state_file : {"", " ", "state"},
           truenas : trueNASConfig \cup {None}]

Port == 0..65535

loadConfig(cfg) == cfg.form = "json"

normalizeTrueNASBackend(backend) ==
    IF backend \in {"", "apps", " APPS "} THEN "apps" ELSE backend

\* mutant: the truenas section is looked at only if there is one.
validateConfigIfPresent(cfg) ==
    \/ /\ cfg.mode = "mock"
       /\ ~IsBlank(cfg.state_file) /\ cfg.truenas = None
    \/ /\ cfg.mode = "truenas" /\ IsBlank(cfg.state_file)
       /\ cfg.truenas # None =>
             /\ ~IsBlank(cfg.truenas.host) /\ ~IsBlank(cfg.truenas.username)
             /\ cfg.truenas.port \in Port
             /\ ~cfg.truenas.insecure_skip_verify
             /\ normalizeTrueNASBackend(cfg.truenas.backend) = "apps"

validateConfig(cfg) ==
    \/ /\ cfg.mode = "mock"
       /\ ~IsBlank(cfg.state_file)
       /\ cfg.truenas = None
    \/ /\ cfg.mode = "truenas"
       /\ IsBlank(cfg.state_file)
       /\ cfg.truenas # None
       /\ ~IsBlank(cfg.truenas.host) /\ ~IsBlank(cfg.truenas.username)
       /\ cfg.truenas.port \in Port
       /\ ~cfg.truenas.insecure_skip_verify
       /\ normalizeTrueNASBackend(cfg.truenas.backend) = "apps"

\* What externalProvider.manager makes of a configuration and of the API
\* key in the environment: the store behind the manager and its gateway
\* policy.  It goes by the mode alone, and follows cfg.truenas without asking
\* whether it is there.
manager(cfg, apiKey) ==
    LET backend(s, policy) == [store |-> s, gateway |-> policy]
    IN  CASE cfg.mode = "mock" -> backend("mock", FALSE)
          [] cfg.mode = "truenas" /\ cfg.truenas = None ->
                backend("panic", FALSE)
          [] cfg.mode = "truenas" /\ cfg.truenas # None ->
                backend(IF IsBlank(apiKey) THEN "none" ELSE "truenas",
                        cfg.truenas.callback_host_gateway)
          [] OTHER -> backend("unsupported", FALSE)

\* truenasstore.Connect, as far as it looks at the configuration.
Connect(cfg) == ~IsBlank(cfg.truenas.host) /\ ~IsBlank(cfg.truenas.username)

\* The embedded matrix, and what it says of one backend and version.
TargetStatus ==
    [backend \in {"apps", "container", "vm"} |->
        [v \in TargetVersion |->
            CASE backend = "apps" -> "PASS"
              [] backend = "vm" /\ v = "25.04.1" -> "NOT_ADMITTED"
              [] OTHER -> "OPEN"]]
ResolveRuntimeBackend(backend, version) ==
    IF /\ backend \in DOMAIN TargetStatus
       /\ version \in DOMAIN TargetStatus[backend]
    THEN TargetStatus[backend][version] ELSE "unknown"
RuntimeCellOperationallyAdmitted(status) == status = "PASS"

----------------------------------------------------------------------------
\* Pools.  An image or flavor is blank, the fixed one, or another one.
Choice == {"", " ", "fixed", "other"}
ExtraSpecs == {"", "null", "{}", "template", "blank-template", "other",
               "not-an-object"}
pool == [image : Choice, flavor : Choice, extraspecs : ExtraSpecs]

validateEmptyExtraSpecs(specs) == specs \in {"", "null", "{}"}
validateCreateExtraSpecs(specs) ==
    validateEmptyExtraSpecs(specs) \/ specs = "template"

\* mutant: the flavor of a pool is not validated.
ValidatePoolInfoAnyFlavor(cfg, p) ==
    /\ cfg # None /\ loadConfig(cfg) /\ validateConfig(cfg)
    /\ ~IsBlank(p.image) => p.image = "fixed"
    /\ validateEmptyExtraSpecs(p.extraspecs)

\* cfg: the file GARM names, None for no name.
ValidatePoolInfo(cfg, p) ==
    /\ cfg # None /\ loadConfig(cfg) /\ validateConfig(cfg)
    /\ ~IsBlank(p.image) => p.image = "fixed"
    /\ ~IsBlank(p.flavor) => p.flavor = "fixed"
    /\ validateEmptyExtraSpecs(p.extraspecs)

----------------------------------------------------------------------------
\* Bootstrap parameters.  What may be wrong with an advertised runner tool:
\* it is for another platform, needs a token, has another file name, another
\* URL, or no checksum.
Tool == {"elsewhere", "token", "filename", "url", "checksum", "official"}

\* The first Linux/x64 tool is the one that counts.
validateRunnerToolContract(tools) ==
    \E i \in DOMAIN tools :
        /\ tools[i] = "official"
        /\ \A j \in 1..(i - 1) : tools[j] = "elsewhere"

validateBootstrapContract(b) ==
    /\ b.os = "linux" /\ b.arch = "amd64"
    /\ b.flavor = "fixed" /\ b.image = "fixed"
    /\ validateRunnerToolContract(b.tools)
    /\ b.jit
    /\ TrimSpace(b.name) # <<>> /\ TrimSpace(b.poolID) # <<>>
    /\ ~IsBlank(b.token)
    /\ \A url \in {b.repo, b.callback, b.metadata} : requireHTTPS(url)
    /\ b.unsupported = {}
    /\ validateCreateExtraSpecs(b.extraspecs)

\* provider.NewManager and Manager.Create check again what they were given.
NewManager(controllerID) ==
    TrimSpace(controllerID) # <<>> /\ sanitize(controllerID) # <<>>

\* mutant: provider.Manager insists on one spelling of the architecture.
validateBootstrapX64(b) ==
    /\ TrimSpace(b.name) # <<>> /\ sanitize(b.name) # <<>>
    /\ TrimSpace(b.poolID) # <<>>
    /\ b.os = "linux" /\ b.arch = "x64" /\ b.flavor = "fixed"
    /\ ~IsBlank(b.callback) /\ ~IsBlank(b.metadata) /\ ~IsBlank(b.token)

validateBootstrap(b) ==
    /\ TrimSpace(b.name) # <<>> /\ sanitize(b.name) # <<>>
    /\ TrimSpace(b.poolID) # <<>>
    /\ b.os = "linux" /\ b.arch \in {"amd64", "x64", "x86_64"}
    /\ b.flavor = "fixed"
    /\ ~IsBlank(b.callback) /\ ~IsBlank(b.metadata) /\ ~IsBlank(b.token)
=============================================================================
