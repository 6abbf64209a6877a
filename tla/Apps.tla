-------------------------------- MODULE Apps --------------------------------
(***************************************************************************)
(* The qualified Apps backend: provider.Manager over truenasstore.Store    *)
(* over the middleware's app.* calls.  GARM starts one provider process    *)
(* per command; processes of one or several GARM controllers run at the    *)
(* same time and share nothing but the middleware.  A step of a process is *)
(* ONE middleware call together with all the local code up to the next     *)
(* call, because another process, the container runtime or an operator can *)
(* act between two calls and nowhere else.                                 *)
(*                                                                         *)
(* External (not under src/, modelled from how the code uses it): the      *)
(* middleware's app table, the container runtime that moves an app through *)
(* its states, the operator, and GARM as the source of commands.           *)
(***************************************************************************)
EXTENDS Integers, FiniteSetsExt

CONSTANTS
    Proc,           \* slots for provider processes running at the same time
    Controller,     \* GARM controller identities
    Pool,           \* GARM pool identities
    AnyPool,        \* the empty pool argument, which matches every pool; as
                    \* an app's pool, one that GARM never names
    Padded,         \* controller and pool identities with blanks around them
    Runner,         \* runner names GARM asks for
    Name,           \* app names, numbers in the order sort.Slice puts them
    OwnedName,      \* provider.ownedName: <<controller, runner>> -> app name
    TenantName,     \* names under which other users of the host keep apps
    Plausible,      \* the names plausibleManagedAppName accepts
    CallbackHostGateway,  \* the provider configuration's gateway policy
    RawState,       \* the app states the middleware may report
    MaxCalls,       \* bound: commands GARM issues in a behaviour
    Commands,       \* the commands GARM uses
    Overlap,        \* may mutating commands of one controller overlap?
    HostEvents,     \* what else happens on the host
    None, NoController, NoRequest

Inactive == {"STOPPED", "CRASHED"}

\* No name is derived by two controllers, tenants keep away from derived
\* names, and every derived name passes plausibleManagedAppName.
ASSUME NamesAssumption ==
    /\ Name \subseteq Nat
    /\ Plausible \subseteq Name
    /\ OwnedName \in [Controller \X Runner -> Plausible]
    /\ \A x, y \in Controller \X Runner :
          OwnedName[x] = OwnedName[y] => x[1] = y[1]
    /\ TenantName \subseteq Name \ {OwnedName[x] : x \in Controller \X Runner}

ASSUME ConfigAssumption ==
    /\ CallbackHostGateway \in [Controller -> BOOLEAN]
    /\ {"DEPLOYING", "STOPPED"} \subseteq RawState
    /\ RawState \subseteq Inactive \cup
          {"DEPLOYING", "STARTING", "RUNNING", "STOPPING", "UNKNOWN"}
    /\ MaxCalls \in Nat
    /\ Overlap \in BOOLEAN
    /\ HostEvents \subseteq {"start", "edit", "delete", "install", "policy"}
    /\ AnyPool \notin Pool /\ NoController \notin Controller
    /\ Padded \subseteq Controller \cup Pool

VARIABLES
    apps,    \* the middleware's app table
    calls,   \* commands issued so far, the identity of the newest one
    pc,      \* the middleware call each process makes next
    req,     \* the command each process serves
    todo,    \* names a list or a removal still has to visit
    out,     \* what ListApps has decoded so far
    reply,   \* the answer a process last gave GARM
    stable   \* history: apps present, untouched, since the command started

vars == <<apps, calls, pc, req, todo, out, reply, stable>>

\* What an app's Compose payload is to decodeApp: the fixed profile with its
\* labels, that profile altered, unreadable, without the managed label, or
\* with a controller label that is no controller's of GARM.
Profile == {"fixed", "drift", "malformed", "unmanaged", "foreign"}

\* controller and pool as CreateApp wrote them: who made the app, and its
\* pool label.  An edit changes the pool; no edit changes who made the app.
App == [made : Nat, controller : Controller \cup {NoController},
        pool : Pool \cup {AnyPool}, profile : Profile, gateway : BOOLEAN,
        state : RawState]

Op == {"Create", "Get", "List", "Delete", "Start", "Stop", "RemoveAll"}
Mutating == {"Create", "Delete", "RemoveAll"}

\* dns: the callback and metadata URLs name one DNS host, which the gateway
\* policy needs.
Request == [op : Op, controller : Controller, name : Name \cup {None},
            pool : Pool \cup {AnyPool}, dns : BOOLEAN, id : Nat]

State == {"DEPLOYING", "RUNNING", "STOPPING", "STOPPED", "CRASHED"}
Listing == [name : Name, controller : Controller \cup {NoController},
            pool : Pool \cup {AnyPool}, state : State]

\* None is none of the things it marks the absence of: an app, and the
\* workload and the job that AppsPromise sees.
ASSUME NoneAssumption ==
    /\ None \notin App
    /\ None \notin [owner : Controller \cup {NoController}, finished : BOOLEAN]
    /\ None \notin [op : Op, controller : Controller, name : Name \cup {None}]

ErrClass == {"ok", "ErrNotFound", "ErrForeign", "ErrActive", "ErrUnsupported",
             "ErrUnsafeOperation", "ErrManagedDrift", "error"}
Code == {"ok", "NotFound", "Unauthorized", "BadRequest", "Unprocessable",
         "error"}
PC == {"idle", "get", "create", "confirm", "delete", "list", "fetch",
       "remove", "start"}

NameOwner(c) == {OwnedName[<<c, r>>] : r \in Runner}
Present == {n \in Name : apps[n] # None}
-----------------------------------------------------------------------------
(* Local code: no middleware call happens inside these.                    *)

\* mutant: an unknown state counts as stopped.
mapStateOptimistic(raw) ==
    CASE raw = "STARTING" -> "DEPLOYING"
      [] raw \in State    -> raw
      [] OTHER            -> "STOPPED"

\* mapState: a state the provider does not know counts as deploying.
mapState(raw) ==
    CASE raw = "STARTING" -> "DEPLOYING"
      [] raw \in State    -> raw
      [] OTHER            -> "DEPLOYING"

isActive(state) == state \in {"DEPLOYING", "RUNNING", "STOPPING"}

\* decodeApp and the gateway check that follows it, as an error class.
decodeApp(app, c) ==
    CASE app.profile = "malformed" -> "error"
      [] app.profile = "unmanaged" -> "ErrForeign"
      [] app.profile = "drift"     -> "ErrManagedDrift"
      [] app.profile \in {"fixed", "foreign"}
            /\ app.gateway # CallbackHostGateway[c] -> "error"
      [] OTHER                     -> "ok"

\* The controller and the pool that the labels name: written as they are,
\* trimmed when they are read, so that blanks make them nobody's.
Owner(app) == IF \/ app.profile \in {"unmanaged", "foreign"}
                 \/ app.controller \in Padded
              THEN NoController ELSE app.controller
PoolOf(app) == IF app.pool \in Padded THEN AnyPool ELSE app.pool

\* Store.GetApp.
GetApp(n, c) == IF apps[n] = None THEN "ErrNotFound" ELSE decodeApp(apps[n], c)

\* mutant: the pool is compared, the controller is not.
verifyOwnershipByPool(app, c, pool) ==
    IF pool # AnyPool /\ PoolOf(app) # pool THEN "ErrForeign" ELSE "ok"

verifyOwnership(app, c, pool) ==
    CASE Owner(app) # c -> "ErrForeign"
      [] pool # AnyPool /\ PoolOf(app) # pool -> "ErrForeign"
      [] OTHER -> "ok"

\* GetApp and then verifyOwnership, the prefix of Create, Get, Delete, Stop.
GetOwned(n, c, pool) ==
    IF GetApp(n, c) # "ok" THEN GetApp(n, c)
    ELSE verifyOwnership(apps[n], c, pool)

\* mutant: the provider's own error goes to GARM.
normalizeProviderErrorRaw(err) == err
\* mutant: every error is a bad request.
normalizeProviderErrorTyped(err) ==
    IF err = "ok" THEN "ok" ELSE "BadRequest"

\* normalizeProviderError: what GARM is told.
normalizeProviderError(err) ==
    CASE err = "ok"          -> "ok"
      [] err = "ErrNotFound" -> "NotFound"
      [] err = "ErrForeign"  -> "Unauthorized"
      [] err \in {"ErrUnsupported", "ErrUnsafeOperation"} -> "BadRequest"
      [] err = "ErrActive"   -> "Unprocessable"
      [] OTHER               -> "error"

\* The process answers GARM and exits.
Return(p, err, names) ==
    /\ pc' = [pc EXCEPT ![p] = "idle"]
    /\ req' = [req EXCEPT ![p] = NoRequest]
    /\ todo' = [todo EXCEPT ![p] = {}]
    /\ out' = [out EXCEPT ![p] = {}]
    /\ reply' = [reply EXCEPT ![p] = [code  |-> normalizeProviderError(err),
                                      names |-> names]]

Goto(p, next) == /\ pc' = [pc EXCEPT ![p] = next]
                 /\ UNCHANGED <<req, todo, out, reply>>

\* A change of the app table breaks the stability of the names it touches;
\* a process that has answered follows no app any more.
Touch(N) ==
    stable' = [q \in Proc |-> IF pc'[q] = "idle" THEN {} ELSE stable[q] \ N]
-----------------------------------------------------------------------------
(* GARM issues commands.                                                   *)

\* Without Overlap GARM is the capacity-one deployment: it runs at most one
\* mutating command of a controller at a time.
Admissible(c, op) ==
    Overlap \/ op \notin Mutating
            \/ \A q \in Proc : pc[q] # "idle" =>
                  ~(req[q].controller = c /\ req[q].op \in Mutating)

\* The deployment docs/architecture.md plans for: no overlap, and nobody
\* starts a finished app again.
CapacityOne == ~Overlap /\ "start" \notin HostEvents

FirstCall(op) == CASE op \in {"Create", "Get", "Delete", "Stop"} -> "get"
                   [] op \in {"List", "RemoveAll"} -> "list"
                   [] OTHER -> "start"

Invoke(p, r) ==
    /\ pc[p] = "idle"
    /\ calls < MaxCalls
    /\ r.op \in Commands
    /\ Admissible(r.controller, r.op)
    /\ r.id = calls + 1
    /\ calls' = calls + 1
    /\ pc' = [pc EXCEPT ![p] = FirstCall(r.op)]
    /\ req' = [req EXCEPT ![p] = r]
    /\ stable' = [stable EXCEPT ![p] = Present]
    /\ UNCHANGED <<apps, todo, out, reply>>

\* CreateInstance of a bootstrap that validateBootstrapContract or
\* validateBootstrap refuses: no middleware call is made.
InvokeInvalidCreate(p) ==
    /\ pc[p] = "idle"
    /\ "Create" \in Commands
    /\ calls < MaxCalls
    /\ calls' = calls + 1
    /\ Return(p, "ErrUnsupported", {})
    /\ Touch({})
    /\ UNCHANGED apps

\* Create addresses the name derived from the runner; the other commands
\* address whatever provider identity GARM holds.
Garm(p) ==
    \/ \E c \in Controller, r \in Runner, pool \in Pool :
       \E dns \in {TRUE, ~CallbackHostGateway[c]} :
          Invoke(p, [op |-> "Create", controller |-> c, pool |-> pool,
                     name |-> OwnedName[<<c, r>>], dns |-> dns,
                     id |-> calls + 1])
    \/ \E c \in Controller, n \in Name, op \in {"Get", "Delete", "Start", "Stop"} :
          Invoke(p, [op |-> op, controller |-> c, pool |-> AnyPool,
                     name |-> n, dns |-> TRUE, id |-> calls + 1])
    \/ \E c \in Controller, pool \in Pool \cup {AnyPool} :
          Invoke(p, [op |-> "List", controller |-> c, pool |-> pool,
                     name |-> None, dns |-> TRUE, id |-> calls + 1])
    \/ \E c \in Controller :
          Invoke(p, [op |-> "RemoveAll", controller |-> c, pool |-> AnyPool,
                     name |-> None, dns |-> TRUE, id |-> calls + 1])
    \/ InvokeInvalidCreate(p)
-----------------------------------------------------------------------------
(* The provider process, one middleware call per action.                   *)

\* Manager.Create, first call: adopt what is already there, or go on.
CreateLooksUp(p) ==
    LET r == req[p]
        err == GetOwned(r.name, r.controller, r.pool)
    IN  /\ pc[p] = "get" /\ r.op = "Create"
        /\ IF err = "ErrNotFound" THEN Goto(p, "create")
           ELSE Return(p, err, IF err = "ok" THEN {r.name} ELSE {})
        /\ Touch({})
        /\ UNCHANGED <<apps, calls>>

NewApp(r) ==
    [made |-> r.id, controller |-> r.controller, pool |-> r.pool,
     profile |-> "fixed", gateway |-> CallbackHostGateway[r.controller],
     state |-> "DEPLOYING"]

GatewayRefuses(r) == CallbackHostGateway[r.controller] /\ ~r.dns

\* Store.CreateApp: the gateway policy is applied to the payload before
\* app.create is called; app.create refuses a name in use; the reply to a
\* call that took effect may be lost.
CreateApp(p) ==
    LET r == req[p]
    IN  /\ pc[p] = "create"
        /\ \/ /\ GatewayRefuses(r)
              /\ Return(p, "ErrUnsupported", {})
              /\ Touch({})
              /\ UNCHANGED apps
           \/ /\ ~GatewayRefuses(r)
              /\ apps[r.name] # None
              /\ Return(p, "error", {})
              /\ Touch({})
              /\ UNCHANGED apps
           \/ /\ ~GatewayRefuses(r)
              /\ apps[r.name] = None
              /\ apps' = [apps EXCEPT ![r.name] = NewApp(r)]
              /\ Goto(p, "confirm") \/ Return(p, "error", {})
              /\ Touch({r.name})
        /\ UNCHANGED calls

\* mutant: the app just made is not read back.
CreateConfirmsBlindly(p) ==
    /\ pc[p] = "confirm"
    /\ Return(p, "ok", {req[p].name})
    /\ Touch({})
    /\ UNCHANGED <<apps, calls>>
\* The GetApp that ends Store.CreateApp, and Manager.Create's verification.
CreateConfirms(p) ==
    LET r == req[p]
        err == GetOwned(r.name, r.controller, r.pool)
    IN  /\ pc[p] = "confirm"
        /\ Return(p, err, IF err = "ok" THEN {r.name} ELSE {})
        /\ Touch({})
        /\ UNCHANGED <<apps, calls>>

Get(p) ==
    LET r == req[p]
        err == GetOwned(r.name, r.controller, AnyPool)
    IN  /\ pc[p] = "get" /\ r.op = "Get"
        /\ Return(p, err, IF err = "ok" THEN {r.name} ELSE {})
        /\ Touch({})
        /\ UNCHANGED <<apps, calls>>

\* Manager.Stop never stops anything: it only confirms a stopped app.
Stop(p) ==
    LET r == req[p]
        err == GetOwned(r.name, r.controller, AnyPool)
    IN  /\ pc[p] = "get" /\ r.op = "Stop"
        /\ Return(p, CASE err # "ok" -> err
                       [] err = "ok" /\ mapState(apps[r.name].state) = "STOPPED"
                             -> "ok"
                       [] OTHER -> "ErrUnsafeOperation", {})
        /\ Touch({})
        /\ UNCHANGED <<apps, calls>>

Start(p) ==
    /\ pc[p] = "start"
    /\ Return(p, "ErrUnsafeOperation", {})
    /\ Touch({})
    /\ UNCHANGED <<apps, calls>>

\* Manager.Delete up to DeleteApp.
DeleteChecks(p) ==
    LET r == req[p]
        err == GetOwned(r.name, r.controller, AnyPool)
    IN  /\ pc[p] = "get" /\ r.op = "Delete"
        /\ CASE err = "ErrNotFound" -> Return(p, "ok", {})
             [] err \notin {"ok", "ErrNotFound"} -> Return(p, err, {})
             [] OTHER -> IF isActive(mapState(apps[r.name].state))
                         THEN Return(p, "ErrActive", {})
                         ELSE Goto(p, "delete")
        /\ Touch({})
        /\ UNCHANGED <<apps, calls>>

\* Store.DeleteApp: app.delete is given the name and nothing else, and
\* fails if there is no such app.
Destroy(n) == /\ apps' = [apps EXCEPT ![n] = None]
              /\ Touch({n})

\* Manager.Delete's DeleteApp; the reply may be lost.
DeleteApp(p) ==
    LET n == req[p].name
    IN  /\ pc[p] = "delete"
        /\ \/ /\ apps[n] # None
              /\ Return(p, "ok", {})
           \/ Return(p, "error", {})
        /\ Destroy(n)
        /\ UNCHANGED calls

\* What Manager.List returns and what Manager.RemoveAll deletes of a listing.
\* mutant: the empty pool is compared like any other.
SelectedExactPool(r, L) ==
    {a.name : a \in {b \in L : b.controller = r.controller /\ r.pool = b.pool}}
Selected(r, L) == {a.name : a \in {b \in L : /\ b.controller = r.controller
                                             /\ r.pool \in {AnyPool, b.pool}}}
Victims(r, L) == {a.name : a \in {b \in L : /\ b.controller = r.controller
                                            /\ ~isActive(b.state)}}
\* mutant: the skipped apps are not reported.
ActiveErrForgotten(r, L) == "ok"
ActiveErr(r, L) ==
    IF \E a \in L : a.controller = r.controller /\ isActive(a.state)
    THEN "ErrActive" ELSE "ok"

\* Manager.List and Manager.RemoveAll once ListApps has returned L.
Listed(p, r, L) ==
    CASE r.op = "List" -> Return(p, "ok", Selected(r, L))
      [] r.op = "RemoveAll" /\ Victims(r, L) = {} ->
            Return(p, ActiveErr(r, L), {})
      [] OTHER -> /\ pc' = [pc EXCEPT ![p] = "remove"]
                  /\ todo' = [todo EXCEPT ![p] = Victims(r, L)]
                  /\ out' = [out EXCEPT ![p] = L]
                  /\ UNCHANGED <<req, reply>>

\* Store.ListApps, first call: the summaries, sorted and filtered by name.
ListApps(p) ==
    /\ pc[p] = "list"
    /\ IF Present \cap Plausible = {} THEN Listed(p, req[p], {})
       ELSE /\ pc' = [pc EXCEPT ![p] = "fetch"]
            /\ todo' = [todo EXCEPT ![p] = Present \cap Plausible]
            /\ UNCHANGED <<req, out, reply>>
    /\ Touch({})
    /\ UNCHANGED <<apps, calls>>

decoded(n) == [name |-> n, controller |-> Owner(apps[n]),
               pool |-> PoolOf(apps[n]), state |-> mapState(apps[n].state)]

\* mutant: the loop does not advance.
RemainingSame(T) == T
Remaining(T) == T \ {Min(T)}

\* Store.ListApps, one GetAppWithConfig per plausible name in sorted order:
\* a vanished or unmanaged app is skipped, any other trouble, with whoever's
\* app, fails the whole list.
FetchApp(p) ==
    LET n == Min(todo[p])
        err == GetApp(n, req[p].controller)
        L == out[p] \cup (IF err = "ok" THEN {decoded(n)} ELSE {})
        T == Remaining(todo[p])
    IN  /\ pc[p] = "fetch"
        /\ CASE err \in {"error", "ErrManagedDrift"} -> Return(p, err, {})
             [] err \notin {"error", "ErrManagedDrift"} /\ T = {} ->
                   Listed(p, req[p], L)
             [] OTHER -> /\ out' = [out EXCEPT ![p] = L]
                         /\ todo' = [todo EXCEPT ![p] = T]
                         /\ UNCHANGED <<pc, req, reply>>
        /\ Touch({})
        /\ UNCHANGED <<apps, calls>>

\* Manager.RemoveAll: one DeleteApp per victim of the listing, by name.  An
\* app that is gone meanwhile, or a lost reply, ends the sweep: DeleteApp
\* never answers ErrNotFound, which RemoveAll would have ignored.
RemoveApp(p) ==
    LET n == Min(todo[p])
        T == Remaining(todo[p])
    IN  /\ pc[p] = "remove"
        /\ \/ /\ apps[n] # None
              /\ IF T = {} THEN Return(p, ActiveErr(req[p], out[p]), {})
                 ELSE /\ todo' = [todo EXCEPT ![p] = T]
                      /\ UNCHANGED <<pc, req, out, reply>>
           \/ Return(p, "error", {})
        /\ Destroy(n)
        /\ UNCHANGED calls

\* Connecting or the next middleware call fails without effect, or the
\* process is killed before it: every caller returns the error at once.
FailCall(p) ==
    /\ pc[p] # "idle"
    /\ Return(p, "error", {})
    /\ Touch({})
    /\ UNCHANGED <<apps, calls>>

Provider(p) == \/ CreateLooksUp(p) \/ CreateApp(p) \/ CreateConfirms(p)
               \/ Get(p) \/ Stop(p) \/ Start(p)
               \/ DeleteChecks(p) \/ DeleteApp(p)
               \/ ListApps(p) \/ FetchApp(p) \/ RemoveApp(p)
-----------------------------------------------------------------------------
(* The host around the provider (external).                                *)

\* The container runtime changes an app's state.  restart is "no", so an app
\* that is no longer active starts again only by an operator's hand.
StateChanges(n) ==
    /\ apps[n] # None
    /\ "start" \in HostEvents \/ apps[n].state \notin Inactive
    /\ \E s \in RawState \ {apps[n].state} :
          apps' = [apps EXCEPT ![n].state = s]
    /\ UNCHANGED <<calls, pc, req, todo, out, reply, stable>>

\* An operator edits a managed app's payload: alters it, takes the managed
\* label away, or relabels the app to another pool or to a controller that is
\* none of GARM's.  Nobody hands an app to another controller of GARM.
OperatorEdits(n) ==
    /\ "edit" \in HostEvents
    /\ apps[n] # None
    /\ apps[n].profile = "fixed"
    /\ \/ \E f \in Profile \ {"fixed"} :
             apps' = [apps EXCEPT ![n].profile = f]
       \/ \E pool \in (Pool \cup {AnyPool}) \ {apps[n].pool} :
             apps' = [apps EXCEPT ![n].pool = pool]
    /\ UNCHANGED <<calls, pc, req, todo, out, reply>>
    /\ Touch({n})

OperatorDeletes(n) ==
    /\ "delete" \in HostEvents
    /\ apps[n] # None
    /\ apps' = [apps EXCEPT ![n] = None]
    /\ UNCHANGED <<calls, pc, req, todo, out, reply>>
    /\ Touch({n})

\* Another user of the host installs an app that is none of GARM's.
TenantApp == [made |-> 0, controller |-> NoController, pool |-> AnyPool,
              profile |-> "unmanaged", gateway |-> FALSE, state |-> "DEPLOYING"]
TenantCreates(n) ==
    /\ "install" \in HostEvents
    /\ n \in TenantName
    /\ apps[n] = None
    /\ apps' = [apps EXCEPT ![n] = TenantApp]
    /\ UNCHANGED <<calls, pc, req, todo, out, reply>>
    /\ Touch({n})

Host == \E n \in Name : \/ StateChanges(n) \/ OperatorEdits(n)
                        \/ OperatorDeletes(n) \/ TenantCreates(n)
-----------------------------------------------------------------------------
\* The host may already hold apps: runners this provider made earlier, each
\* under a name its controller derives, and unmanaged apps under any name.
\* The gateway policy may have been another one ("policy") at that time.
EarlierApps(n) ==
    {TenantApp, [TenantApp EXCEPT !.state = "STOPPED"]} \cup
    {a \in [made : {0}, controller : Controller, pool : Pool,
            profile : {"fixed"}, gateway : BOOLEAN,
            state : {"DEPLOYING", "STOPPED"}] :
        /\ n \in NameOwner(a.controller)
        /\ "policy" \in HostEvents \/ a.gateway = CallbackHostGateway[a.controller]}

Init ==
    /\ apps \in [Name -> UNION {EarlierApps(n) : n \in Name} \cup {None}]
    /\ \A n \in Name : apps[n] \in EarlierApps(n) \cup {None}
    /\ calls = 0
    /\ pc = [p \in Proc |-> "idle"]
    /\ req = [p \in Proc |-> NoRequest]
    /\ todo = [p \in Proc |-> {}]
    /\ out = [p \in Proc |-> {}]
    /\ reply = [p \in Proc |-> [code |-> "ok", names |-> {}]]
    /\ stable = [p \in Proc |-> {}]

Next == (\E p \in Proc : Garm(p) \/ Provider(p) \/ FailCall(p)) \/ Host

Spec == Init /\ [][Next]_vars

\* Every middleware call is answered in the end: CallAndWait and the
\* WebSocket client return.  Failures and GARM's commands are not fair.
FairSpec == Spec /\ \A p \in Proc : WF_vars(Provider(p))
-----------------------------------------------------------------------------
(* Properties.                                                             *)

Types ==
    /\ apps \in [Name -> App \cup {None}]
    /\ calls \in Nat
    /\ pc \in [Proc -> PC]
    /\ req \in [Proc -> Request \cup {NoRequest}]
    /\ todo \in [Proc -> SUBSET Name]
    /\ out \in [Proc -> SUBSET Listing]
    /\ reply \in [Proc -> [code : Code, names : SUBSET Name]]
    /\ stable \in [Proc -> SUBSET Name]

Dispatched(p) ==
    /\ pc[p] # "idle" => req[p] \in Request
    /\ pc[p] \in {"create", "confirm"} =>
          /\ req[p].op = "Create"
          /\ req[p].name \in NameOwner(req[p].controller)
    /\ pc[p] = "delete" => req[p].op = "Delete"
    /\ pc[p] = "remove" => req[p].op = "RemoveAll"
    /\ pc[p] \in {"list", "fetch"} => req[p].op \in {"List", "RemoveAll"}
    /\ pc[p] # "idle" /\ req[p].op = "Create" =>
          req[p].name \in NameOwner(req[p].controller)
    /\ pc[p] \in {"get", "create", "confirm", "delete"} => req[p].name \in Name
    /\ pc[p] \in {"fetch", "remove"} => todo[p] # {}

\* Every variable has its type, and a process's next call agrees with the
\* command it serves: the dispatch in garm_provider.go and the control flow of
\* Manager never reach a call with another command's arguments.
TypeOK == Types /\ \A p \in Proc : Dispatched(p)

-----------------------------------------------------------------------------
(* The detailed specification implements AppsPromise.                      *)

WorkloadOf(n) ==
    IF apps[n] = None THEN None
    ELSE [owner |-> apps[n].controller, finished |-> apps[n].state \in Inactive]
JobOf(p) ==
    IF pc[p] = "idle" THEN None
    ELSE [op |-> req[p].op, controller |-> req[p].controller, name |-> req[p].name]

Promise == INSTANCE AppsPromise
    WITH workload <- [n \in Name |-> WorkloadOf(n)],
         job <- [p \in Proc |-> JobOf(p)],
         answer <- [p \in Proc |-> reply[p].code = "ok"],
         FinishedOnly <- CapacityOne,
         Restartable <- "start" \in HostEvents,
         Removable <- "delete" \in HostEvents

\* Whatever middleware calls a command is made of, and whoever acts between
\* them, GARM and the host see single steps of AppsPromise: an app is made,
\* retired and attested as if at once, and "ok" is never said in vain.
KeepsPromise == Promise!Spec
-----------------------------------------------------------------------------
\* Process p's app.delete removes app n in this step.
Destroys(p, n) == /\ pc[p] \in {"delete", "remove"}
                  /\ <<pc[p], todo[p]>>' # <<pc[p], todo[p]>>
                  /\ apps[n] # None /\ apps'[n] = None

\* Process p answers GARM in this step.
Answers(p) == pc[p] # "idle" /\ pc'[p] = "idle"

\* Manager.Delete and Manager.RemoveAll check ownership on one call and
\* delete by name on a later one; still no interleaving with other
\* controllers, retries or tenants makes a process of one controller remove an
\* app that this controller does not own.
ForeignNeverDestroyed ==
    [][\A p \in Proc, n \in Name :
          Destroys(p, n) => apps[n].controller = req[p].controller]_vars

\* "Active ... workloads are never destructively removed"
\* (docs/architecture.md:31): an app that app.delete removes is, at that
\* moment, in a state that is known to be finished.  It rests on the stale
\* state Delete and RemoveAll read one or many calls earlier.
ActiveNeverDestroyed ==
    [][\A p \in Proc, n \in Name :
          Destroys(p, n) => apps[n].state \in Inactive]_vars

\* When Delete or RemoveAll answers ok, no app it was asked to retire, whose
\* labels name its controller and that stood untouched since the command began
\* is left: the early returns, the skipped active apps and the lost replies
\* never hide a runner.
RetirementComplete ==
    [][\A p \in Proc : Answers(p) /\ reply'[p].code = "ok" =>
          /\ req[p].op = "Delete" /\ req[p].name \in stable[p] =>
                apps'[req[p].name] = None
          /\ req[p].op = "RemoveAll" =>
                \A n \in stable[p] :
                   apps'[n] # None => Owner(apps'[n]) # req[p].controller]_vars

\* When List answers ok, it names every app of its controller and pool that
\* stood untouched while it fetched one app after the other, and nothing that
\* belongs to another controller.
ListComplete ==
    [][\A p \in Proc :
          Answers(p) /\ req[p].op = "List" /\ reply'[p].code = "ok" =>
          \A n \in stable[p] :
             (n \in reply'[p].names) <=>
                /\ Owner(apps[n]) = req[p].controller
                /\ req[p].pool \in {AnyPool, PoolOf(apps[n])}]_vars

\* A Create that GARM sees refused with a typed error, not a transport
\* failure, has left no app that reads as its own: the policy checks come
\* before app.create, and once the app is there the read-back gives a typed
\* answer only when the app is gone or its labels, edited or written with
\* blanks around them, name another owner.
RefusedCreateOwnsNothing ==
    [][\A p \in Proc :
          /\ Answers(p) /\ req[p].op = "Create"
          /\ reply'[p].code \notin {"ok", "error"}
          => \A n \in Name :
                apps'[n] # None /\ apps'[n].made = req[p].id =>
                   /\ reply'[p].code = "Unauthorized"
                   /\ \/ Owner(apps'[n]) # req[p].controller
                      \/ PoolOf(apps'[n]) # req[p].pool]_vars

\* A command whose middleware calls are answered is itself answered: the
\* loops of ListApps and RemoveAll end whatever the host does meanwhile.
EveryCallReturns == \A p \in Proc : pc[p] # "idle" ~> pc[p] = "idle"
=============================================================================
