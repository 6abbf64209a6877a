----------------------------- MODULE CreatePath -----------------------------
(***************************************************************************)
(* One Create, from the configuration file to the app that is read back,   *)
(* and what later edits of the app's payload do to it: the checks of       *)
(* ProviderConfig, the names of OwnedName and the payload of               *)
(* ComposePayload, one after the other.  Apps takes for granted what this  *)
(* module checks: its OwnedName table and its profiles.                    *)
(***************************************************************************)
EXTENDS ProviderConfig

CONSTANTS
    Character, ControllerLen, RunnerLen,   \* bounds: the identities tried
    RunnerCharacter,
    MaxEdits                               \* bound: edits of one payload

VARIABLES
    stage,      \* how far the command has come, or what refused it
    cfg,        \* the configuration file it loaded
    backend,    \* what manager() makes of it
    valid,      \* the pool GARM had validated before
    by,         \* the controller the process acts for
    boot,       \* the bootstrap parameters
    app,        \* the app on the host: name and payload
    edits

vars == <<stage, cfg, backend, valid, by, boot, app, edits>>

Strings(chars, n) == UNION {[1..k -> chars] : k \in 0..n}
ControllerID == Strings(Character, ControllerLen)
RunnerName == Strings(RunnerCharacter, RunnerLen)
OnePool == <<"a">>
PoolID == {<<>>, <<" ">>, <<" ", "a">>}

\* The parameters GARM derives from a pool, all of them in order.
WellFormed(p, name) ==
    [os |-> "linux", arch |-> "amd64", flavor |-> p.flavor, image |-> p.image,
     tools |-> <<"elsewhere", "official">>, jit |-> TRUE, name |-> name,
     poolID |-> OnePool, repo |-> "https-other", callback |-> "https-dns",
     metadata |-> "https-dns", token |-> "token", unsupported |-> {},
     extraspecs |-> p.extraspecs]

\* The same with something else in one place; both URLs may differ.
Variants(b) ==
    {[b EXCEPT !.os = "windows"], [b EXCEPT !.jit = FALSE],
     [b EXCEPT !.flavor = "other"], [b EXCEPT !.image = "other"]}
    \cup {[b EXCEPT !.arch = a] : a \in {"arm64", "x64"}}
    \cup {[b EXCEPT !.tools = t] : t \in {<<>>} \cup [1..2 -> Tool]}
    \cup {[b EXCEPT !.poolID = id] : id \in PoolID}
    \cup {[b EXCEPT !.repo = u] : u \in Url}
    \cup {[b EXCEPT !.callback = u[1], !.metadata = u[2]] :
               u \in Url \X Url}
    \cup {[b EXCEPT !.token = t] : t \in Text}
    \cup {[b EXCEPT !.unsupported = {x}] :
             x \in {"ssh-keys", "ca-bundle", "proxy", "user-data"}}
    \cup {[b EXCEPT !.extraspecs = e] : e \in ExtraSpecs}

\* Bound: every identity is tried with one pool, and with every pool one
\* identity and what may be wrong with its bootstrap.
FixedPool == [image |-> "fixed", flavor |-> "fixed", extraspecs |-> ""]
Requests(p) ==
    {<<<<"a">>, b>> : b \in Variants(WellFormed(p, <<"a">>))}
    \cup IF p = FixedPool
         THEN ControllerID \X {WellFormed(p, n) : n \in RunnerName} ELSE {}

AppSpec(controllerID, b) ==
    [controllerID |-> controllerID, poolID |-> b.poolID,
     callback |-> b.callback, metadata |-> b.metadata, token |-> b.token]

\* None is neither a URL nor a payload that CreateApp writes.
Letter == Character \cup {" ", "a", "fixed", "true"}
Written == [readable : BOOLEAN, toplevel : {{}}, services : Nat, key : [Key -> {"fixed"}],
            labels : [RequiredLabel -> Seq(Letter)]
                         \cup [AllowedLabel -> Seq(Letter)],
            environment : [requiredEnvironment -> Url \cup Text \cup {"fixed"}],
            extra_hosts : Url \cup {None}]
ASSUME NoneAssumption == None \notin Url /\ None \notin Written
ASSUME BoundsAssumption ==
    /\ {ControllerLen, RunnerLen, MaxEdits} \subseteq Nat
    \* The identity tried with every pool is one of those tried.
    /\ <<"a">> \in ControllerID /\ <<"a">> \in RunnerName
----------------------------------------------------------------------------
\* newExternalProvider, and the store that manager() will build from it.
Load(c, apiKey) ==
    /\ stage = "start"
    /\ cfg' = c
    /\ IF loadConfig(c) /\ validateConfig(c)
       THEN stage' = "loaded" /\ backend' = manager(c, apiKey)
       ELSE stage' = "refused" /\ UNCHANGED backend
    /\ UNCHANGED <<valid, by, boot, app, edits>>

\* ValidatePoolInfo, called with a configuration file of its own.
ValidatePool(c, p) ==
    /\ stage = "loaded"
    /\ valid' = p
    /\ stage' = IF ValidatePoolInfo(c, p) THEN "pooled" ELSE "refused"
    /\ cfg' = None      \* a Create looks at nothing but the backend
    /\ UNCHANGED <<backend, by, boot, app, edits>>

\* The check that refuses a Create, in the order the code makes them.  The
\* process of the Create looks at the controller first and then loads the file
\* that Load has accepted.  The last check comes after app.create, when the
\* app is read back; the mock store gives back what it was given.
Refusal(controllerID, b) ==
    LET payload == Payload(AppSpec(controllerID, b), backend.gateway)
    IN  IF TrimSpace(controllerID) = <<>> THEN "front end"
        ELSE IF ~validateBootstrapContract(b) THEN "contract"
        ELSE IF backend.store = "none" THEN "key"
        ELSE IF ~NewManager(controllerID) THEN "controller"
        ELSE IF ~validateBootstrap(b) THEN "manager"
        ELSE IF backend.store # "truenas" THEN "none"
        ELSE IF payload = None THEN "gateway"
        ELSE IF verifyOwnership(payload, backend.gateway, controllerID, b.poolID)
        THEN "none" ELSE "readback"

\* CreateInstance on a host that has no such app yet.
CreateInstance(controllerID, b) ==
    LET refusal == Refusal(controllerID, b)
    IN  /\ stage = "pooled"
        /\ by' = controllerID /\ boot' = b
        /\ stage' = IF refusal = "none" THEN "created" ELSE refusal
        /\ app' = IF refusal \notin {"none", "readback"} THEN None
                  ELSE [name |-> ownedName(controllerID, b.name),
                        payload |-> IF backend.store = "mock" THEN None
                                    ELSE Payload(AppSpec(controllerID, b),
                                                 backend.gateway)]
        /\ UNCHANGED <<cfg, backend, valid, edits>>

\* An app is there, whether the read-back has refused it or not.
Made == stage \in {"created", "readback"}

\* Somebody edits one thing in the payload.
Without(f, x) == [y \in DOMAIN f \ {x} |-> f[y]]
With(f, x, v) == [y \in DOMAIN f \cup {x} |-> IF y = x THEN v ELSE f[y]]

\* An entry of a map is removed, changed or added.
Edits(f, names, unknown, values) ==
    {Without(f, x) : x \in names}
    \cup UNION {{With(f, x, v) : v \in values} : x \in names \cup {unknown}}

LabelEdit == {<<>>, <<"true">>, <<"b">>, <<" ", "fixed">>}
VariableEdit == {"", "https-dns", "https-other", "edited"}
Edited(p) ==
    {[p EXCEPT !.readable = FALSE], [p EXCEPT !.services = 2],
     [p EXCEPT !.toplevel = {"networks"}]}
    \cup {[p EXCEPT !.key = f] : f \in Edits(p.key, Key, "volumes", {"edited"})}
    \cup {[p EXCEPT !.labels = f] :
             f \in Edits(p.labels, AllowedLabel, "unexpected", LabelEdit)}
    \cup {[p EXCEPT !.environment = f] :
             f \in Edits(p.environment, requiredEnvironment, "UNEXPECTED",
                         VariableEdit)}
    \cup {[p EXCEPT !.extra_hosts = h] :
             h \in {None, "https-dns", "https-other"}}

EditPayload ==
    /\ Made /\ app.payload # None
    /\ edits < MaxEdits
    /\ by = <<"a">> /\ boot.name = <<"a">>    \* bound: whose app is edited
    /\ valid = FixedPool
    /\ \E p \in Edited(app.payload) : app' = [app EXCEPT !.payload = p]
    /\ edits' = edits + 1
    /\ UNCHANGED <<stage, cfg, backend, valid, by, boot>>

Init == /\ stage = "start" /\ cfg = None /\ backend = None /\ valid = None
        /\ by = None /\ boot = None /\ app = None /\ edits = 0

\* The guards come first so that TLC enumerates nothing in vain.
Next == \/ stage = "start" /\ \E c \in config, apiKey \in Text :
              Load(c, apiKey)
        \/ stage = "loaded" /\ \E c \in {cfg, None}, p \in pool :
              ValidatePool(c, p)
        \/ stage = "pooled" /\ \E x \in Requests(valid) :
              CreateInstance(x[1], x[2])
        \/ EditPayload

Spec == Init /\ [][Next]_vars
----------------------------------------------------------------------------
\* A configuration that is let through can be acted on: manager() finds the
\* section it follows, Connect has nothing against it, and every version the
\* provider targets has its backend operationally admitted, although the
\* matrix, validateConfig and manager() know nothing of each other.
AcceptedConfigWorks ==
    stage = "loaded" =>
        /\ backend.store \in {"mock", "none", "truenas"}
        /\ cfg.mode = "truenas" =>
              /\ Connect(cfg)
              /\ \A v \in TargetVersion :
                    RuntimeCellOperationallyAdmitted(
                        ResolveRuntimeBackend(
                            normalizeTrueNASBackend(cfg.truenas.backend), v))

\* A Create that the front end's contract has let through is not refused
\* further in, but for what only the inner layers know: the API key, the
\* gateway policy, which needs one DNS host, identities without a letter or
\* digit, and blanks around a controller or a pool, which the labels do not
\* bring back.
ContractIsEnough ==
    /\ stage = "manager" => sanitize(boot.name) = <<>>
    /\ stage = "gateway" => /\ backend.gateway
                            /\ \/ boot.callback # boot.metadata
                               \/ boot.callback \in {"https-ip", "https-port"}
    /\ stage = "readback" => \/ TrimSpace(by) # by
                             \/ TrimSpace(boot.poolID) # boot.poolID

\* GARM's pools: what ValidatePoolInfo has accepted, with image and flavor
\* spelled out, no Create is refused for.
ValidatedPoolIsServed ==
    /\ stage = "contract"
    /\ boot = WellFormed(valid, boot.name)
    /\ TrimSpace(boot.name) # <<>>
    => IsBlank(valid.image) \/ IsBlank(valid.flavor)

\* Two names are the same only for what sanitize makes of the runner names of
\* one controller, or for controllers that have different lengths or agree in
\* their first ControllerMax characters; no controller ID of GARM's, a UUID,
\* differs in length.  Cutting names off (provider.go:300) never adds to that,
\* as long as no two digests, of which the names keep four bytes, are alike.
AppName == [c \in ControllerID |-> [r \in RunnerName |-> ownedName(c, r)]]
GuestName ==
    [c \in ControllerID |-> [r \in RunnerName |-> ownedGuestName(c, r)]]
NamesApart ==
    Made /\ backend.store = "mock" =>
        LET appName == AppName[by][boot.name]
            guestName == GuestName[by][boot.name]
            Apart(name, Part(_), Table) ==
                \A d \in ControllerID :
                    /\ d # by /\ Part(d) # Part(by)
                       /\ Len(sanitize(d)) = Len(sanitize(by)) =>
                          \A s \in RunnerName : Table[d][s] # name
        IN  /\ Apart(appName, ControllerPart, AppName)
            /\ Apart(guestName, sanitize, GuestName)
            /\ \A s \in RunnerName :
                  (AppName[by][s] = appName \/ GuestName[by][s] = guestName)
                     => sanitize(s) = sanitize(boot.name)

\* What any identity creates fits TrueNAS and passes the filter of the
\* listing: nothing it has made is out of its sight.
FindsItsOwn ==
    Made =>
       /\ Length(app.name) <= NameMax
       /\ Last(app.name.text) # "-" \/ app.name.digest # <<>>
       /\ plausibleManagedAppName(app.name)

\* What Create has written is read back under the same policy, and as the
\* identity's and the pool's without the blanks around them.  The writing and
\* the reading half of the store share no code.
ReadsItsOwn ==
    Made /\ edits = 0 /\ app.payload # None =>
       /\ Accepts(app.payload, backend.gateway)
       /\ Decoded(app.payload).controllerID = TrimSpace(by)
       /\ Decoded(app.payload).poolID = TrimSpace(boot.poolID)

\* The owner and the bootstrap that a payload shows, its token among them.
Shown(payload) ==
    LET d == Decoded(payload)
    IN  [controllerID |-> d.controllerID, poolID |-> d.poolID,
         callback |-> d.callback, metadata |-> d.metadata,
         token |-> payload.environment["GARM_INSTANCE_TOKEN"]]

\* Whatever was edited: an app the store accepts, under either policy, has one
\* service, and it is just what CreateApp writes for the owner and the
\* bootstrap it shows, but for blanks around its labels.  Keys of the document
\* beside the services are not compared with anything (store.go:427).
AcceptedServiceIsFixed ==
    Made /\ app.payload # None =>
        \A policy \in BOOLEAN :
            Accepts(app.payload, policy) =>
                [app.payload EXCEPT
                    !.toplevel = {},
                    !.labels = [l \in DOMAIN @ |-> TrimSpace(@[l])]]
                  = Payload(Shown(app.payload), policy)
=============================================================================
