-------------------------- MODULE ContainerBackend --------------------------
(***************************************************************************)
(* The container-v1 backend, containerbackend.Manager over its Client      *)
(* interface: a container is created stopped with a bootstrap init and a   *)
(* token file, started once, and its persisted init scrubbed while it runs;*)
(* a Create that fails on the way tries to take its container away again.  *)
(* One middleware call per action, as in Apps.                             *)
(*                                                                         *)
(* External (the Client interface, no implementation under src/): the      *)
(* container table, the token file, the running init wrapper, the operator,*)
(* GARM.  Container ids are not reused, names are unique, and nobody but a *)
(* Create starts a container or rewrites its description.  Pools are left  *)
(* out; SystemVersion and ResolveImage refuse (FailCall) or change nothing.*)
(***************************************************************************)
EXTENDS Integers

CONSTANTS
    Proc,        \* slots for provider processes running at the same time
    Controller,  \* GARM controller identities
    Runner,      \* runner names; <<controller, runner>> is the container name
    MaxCalls,    \* bound: commands GARM issues in a behaviour
    Commands,    \* the commands GARM uses
    HostEvents,  \* what an operator does: "edit", "delete"
    None, NoController, NoRequest

ASSUME ContainerConfigAssumption ==
    /\ MaxCalls \in Nat
    /\ NoController \notin Controller
    /\ Commands \subseteq {"Create", "Get", "List", "Stop", "Delete", "RemoveAll"}
    /\ HostEvents \subseteq {"edit", "delete"}

VARIABLES
    cts,   \* container id -> container or None
    calls, \* commands issued so far, the identity of the newest one
    pc,    \* the middleware call each process makes next
    req,   \* the command each process serves
    cur,   \* the container a process works on, 0 for none
    todo,  \* containers a RemoveAll still has to visit
    err,   \* the error a RemoveAll or a failed Create will end with
    reply  \* the answer a process last gave GARM

vars == <<cts, calls, pc, req, cur, todo, err, reply>>

\* Id 1 is a container that was there before; call n creates container n + 1.
Id == 1 .. MaxCalls + 1
CTName == Controller \X Runner

\* controller: what a description of this provider names; profile: it names
\* the schema and the profile that Create writes, too;
\* fixed: autostart, idmap, capabilities, dataset and image are as created;
\* steady: Init and InitEnv are the final ones, not the bootstrap ones; token:
\* the token file is in the root file system; wrapper: the init wrapper runs
\* and has not removed the token yet; started: it has run (history).
Container ==
    [name : CTName, controller : Controller \cup {NoController},
     state : {"RUNNING", "STOPPED", "PAUSED"}, profile : BOOLEAN,
     fixed : BOOLEAN, steady : BOOLEAN, token : BOOLEAN, wrapper : BOOLEAN, started : BOOLEAN]

Op == {"Create", "Get", "List", "Stop", "Delete", "RemoveAll"}
Request == [op : Op, controller : Controller, name : CTName, ct : Id, id : Nat]

\* None is none of the things it marks the absence of: a container, and the
\* workload and the job that GuestPromise sees.
ASSUME NoneAssumption ==
    /\ None \notin Container
    /\ None \notin [name : CTName, owner : Controller \cup {NoController},
                    phase : {"made", "active", "finished"}]
    /\ None \notin [op : Op, controller : Controller, name : CTName,
                    id : Id \cup {0}, seen : BOOLEAN]

ErrClass == {"ok", "ErrNotFound", "ErrForeign", "ErrActive", "ErrUnsupported",
             "ErrUnsafeOperation", "ErrManagedDrift", "error"}

\* The calls of a Create that has its container: a failure is cleaned up.
Bootstrapping == {"stage", "readback", "start", "scrub", "confirm", "token"}
\* The calls of cleanupFailedCreate.
Cleaning == {"cleanup", "halt", "halted", "remove"}
PC == {"idle", "lookup", "create", "find", "destroy", "absent", "stop",
       "stopped", "list", "sweep"} \cup Bootstrapping \cup Cleaning
-----------------------------------------------------------------------------
(* Local code.                                                             *)

Exists(i) == cts[i] # None
Owned(i, c) == Exists(i) /\ cts[i].controller = c

verifyBaseRuntime(ct) ==
    IF ct.fixed /\ ct.state \in {"RUNNING", "STOPPED"} THEN "ok"
    ELSE "ErrManagedDrift"

\* The check behind every command: the bootstrap init has been scrubbed, too.
verifySteadyRuntime(ct) ==
    IF ct.steady THEN verifyBaseRuntime(ct) ELSE "ErrManagedDrift"

ownerRuntimeOnly(ct, c) == verifySteadyRuntime(ct)  \* mutant: no identity check
owner(ct, c) ==
    IF ct.controller = c /\ ct.profile THEN verifySteadyRuntime(ct)
    ELSE "ErrForeign"

\* findOwned, and Get's own copy of it.
findOwned(i, c) == IF Exists(i) THEN owner(cts[i], c) ELSE "ErrNotFound"

Return(p, e) ==
    /\ pc' = [pc EXCEPT ![p] = "idle"]
    /\ req' = [req EXCEPT ![p] = NoRequest]
    /\ cur' = [cur EXCEPT ![p] = 0]
    /\ todo' = [todo EXCEPT ![p] = {}]
    /\ err' = [err EXCEPT ![p] = "ok"]
    /\ reply' = [reply EXCEPT ![p] = e]

Goto(p, next, i) == /\ pc' = [pc EXCEPT ![p] = next]
                    /\ cur' = [cur EXCEPT ![p] = i]
                    /\ UNCHANGED <<req, todo, err, reply>>

\* Create gives up with e, after cleanupFailedCreate.
GiveUp(p, e) == /\ pc' = [pc EXCEPT ![p] = "cleanup"]
                /\ err' = [err EXCEPT ![p] = e]
                /\ UNCHANGED <<req, cur, todo, reply>>

\* A call that took effect: its reply arrives, or is lost.
Effect(p, next, i) == Goto(p, next, i) \/ Return(p, "error")
BootstrapEffect(p, next) ==
    Goto(p, next, cur[p]) \/ GiveUp(p, "error") \/ Return(p, "error")

Retirable(ct) == ct.state = "STOPPED"

\* RemoveAll goes on with the containers left; e remembers active ones.
SweepOn(p, T, e) ==
    IF T = {} THEN Return(p, e)
    ELSE /\ pc' = [pc EXCEPT ![p] = "sweep"]
         /\ todo' = [todo EXCEPT ![p] = T]
         /\ err' = [err EXCEPT ![p] = e]
         /\ UNCHANGED <<req, cur, reply>>
-----------------------------------------------------------------------------
(* GARM issues commands, in any overlap.                                   *)

Invoke(p) ==
    /\ pc[p] = "idle"
    /\ calls < MaxCalls
    /\ \E c \in Controller, op \in Commands, r \in Runner, i \in Id :
          /\ op \in {"Create", "List", "RemoveAll"} => i = 1  \* no container named
          /\ op # "Create" => r = CHOOSE x \in Runner : TRUE  \* no runner named
          /\ i <= calls + 1
          /\ req' = [req EXCEPT ![p] = [op |-> op, controller |-> c,
                                        name |-> <<c, r>>, ct |-> i,
                                        id |-> calls + 1]]
          /\ pc' = [pc EXCEPT ![p] = CASE op = "Create" -> "lookup"
                                       [] op \in {"List", "RemoveAll"} -> "list"
                                       [] OTHER -> "find"]
    /\ calls' = calls + 1
    /\ UNCHANGED <<cts, cur, todo, err, reply>>

\* Create of a bootstrap that validateBootstrap refuses, and Start, which
\* always refuses: no middleware call is made.
InvokeRefused(p) ==
    /\ pc[p] = "idle"
    /\ calls < MaxCalls
    /\ calls' = calls + 1
    /\ \/ "Create" \in Commands /\ Return(p, "ErrUnsupported")
       \/ Return(p, "ErrUnsafeOperation")
    /\ UNCHANGED cts
-----------------------------------------------------------------------------
(* Create.                                                                 *)

\* GetByName: adopt the container of that name, or go on.
CreateLooksUp(p) ==
    LET r == req[p]
    IN  /\ pc[p] = "lookup"
        /\ \/ /\ \A i \in Id : Exists(i) => cts[i].name # r.name
              /\ Goto(p, "create", 0)
           \/ \E i \in Id : /\ Exists(i) /\ cts[i].name = r.name
                            /\ Return(p, owner(cts[i], r.controller))
        /\ UNCHANGED <<cts, calls>>

Created(r) == [name |-> r.name, controller |-> r.controller,
               state |-> "STOPPED", profile |-> TRUE, fixed |-> TRUE,
               steady |-> FALSE, token |-> FALSE, wrapper |-> FALSE,
               started |-> FALSE]

\* mutant: a lost reply is cleaned up too, with the id 0 of a failed call.
CreateContainerCleansUp(p) ==
    LET r == req[p]
    IN  /\ pc[p] = "create"
        /\ \A i \in Id : Exists(i) => cts[i].name # r.name
        /\ cts' = [cts EXCEPT ![r.id + 1] = Created(r)]
        /\ Goto(p, "stage", r.id + 1) \/ GiveUp(p, "error")
        /\ UNCHANGED calls

\* container.create refuses a name in use (FailCall).  A lost reply leaves
\* Create without the id, and it cleans nothing up.
CreateContainer(p) ==
    LET r == req[p]
    IN  /\ pc[p] = "create"
        /\ \A i \in Id : Exists(i) => cts[i].name # r.name
        /\ cts' = [cts EXCEPT ![r.id + 1] = Created(r)]
        /\ Effect(p, "stage", r.id + 1)
        /\ UNCHANGED calls

\* The files of a bootstrap are addressed by a path made of the container's
\* name, not by its id.
AtPath(n) == {i \in Id : Exists(i) /\ cts[i].name = n}
TokenAt(n) == \E i \in AtPath(n) : cts[i].token

\* stageBootstrapFiles: the scripts come first and hold no secret, so the
\* PutFile of the token stands for all three.
StageToken(p) ==
    /\ pc[p] = "stage"
    /\ \E i \in AtPath(req[p].name) : cts' = [cts EXCEPT ![i].token = TRUE]
    /\ BootstrapEffect(p, "readback")
    /\ UNCHANGED calls

\* mutant: the desired state is scrubbed before the container is started.
StagedReadBackScrubs(p) ==
    /\ pc[p] = "readback"
    /\ IF TokenAt(req[p].name) THEN Goto(p, "scrub", cur[p])
       ELSE GiveUp(p, "ErrNotFound")
    /\ UNCHANGED <<cts, calls>>

\* StatFile of what was staged.
StagedReadBack(p) ==
    /\ pc[p] = "readback"
    /\ IF TokenAt(req[p].name) THEN Goto(p, "start", cur[p])
       ELSE GiveUp(p, "ErrNotFound")
    /\ UNCHANGED <<cts, calls>>

StartContainer(p) ==
    /\ pc[p] = "start"
    /\ Exists(cur[p]) /\ cts[cur[p]].state = "STOPPED"
    /\ cts' = [cts EXCEPT ![cur[p]].state = "RUNNING",
                          ![cur[p]].wrapper = ~cts[cur[p]].steady,
                          ![cur[p]].started = TRUE]
    /\ BootstrapEffect(p, "scrub")
    /\ UNCHANGED calls

\* container.update of Init and InitEnv: it may be answered and not be done,
\* which the read-back is for.
ScrubInit(p) ==
    /\ pc[p] = "scrub"
    /\ Exists(cur[p])
    /\ \/ cts' = [cts EXCEPT ![cur[p]].steady = TRUE]
       \/ UNCHANGED cts
    /\ BootstrapEffect(p, "confirm")
    /\ UNCHANGED calls

\* mutant: the read-back asks for the owner alone, not for the final init.
CreateConfirmsOwner(p) ==
    LET i == cur[p]
    IN  /\ pc[p] = "confirm"
        /\ CASE ~Owned(i, req[p].controller) -> GiveUp(p, "ErrForeign")
             [] Owned(i, req[p].controller) /\ cts[i].state # "RUNNING" ->
                   GiveUp(p, "ErrManagedDrift")
             [] OTHER -> Goto(p, "token", i)
        /\ UNCHANGED <<cts, calls>>

\* The read-back of the container.
CreateConfirms(p) ==
    LET i == cur[p]
        e == findOwned(i, req[p].controller)
    IN  /\ pc[p] = "confirm"
        /\ CASE e # "ok" -> GiveUp(p, e)
             [] e = "ok" /\ cts[i].state # "RUNNING" -> GiveUp(p, "ErrManagedDrift")
             [] OTHER -> Goto(p, "token", i)
        /\ UNCHANGED <<cts, calls>>

\* StatFile of the token file must answer ErrNotFound.
TokenGone(p) ==
    /\ pc[p] = "token"
    /\ IF TokenAt(req[p].name) THEN GiveUp(p, "ErrManagedDrift")
       ELSE Return(p, "ok")
    /\ UNCHANGED <<cts, calls>>

\* A call of the bootstrap fails without effect, and Create gives up.
BootstrapFails(p) ==
    /\ pc[p] \in Bootstrapping
    /\ GiveUp(p, "error")
    /\ UNCHANGED <<cts, calls>>
-----------------------------------------------------------------------------
(* cleanupFailedCreate: addressed by id, its own errors are dropped.       *)

CleanupLooks(p) ==
    /\ pc[p] = "cleanup"
    /\ CASE ~Exists(cur[p]) -> Return(p, err[p])
         [] Exists(cur[p]) /\ cts[cur[p]].state = "RUNNING" ->
               Goto(p, "halt", cur[p])
         [] OTHER -> Goto(p, "halted", cur[p])
    /\ UNCHANGED <<cts, calls>>

\* The forced stop; the reply may be lost.
CleanupStops(p) ==
    /\ pc[p] = "halt"
    /\ Exists(cur[p])
    /\ cts' = [cts EXCEPT ![cur[p]].state = "STOPPED", ![cur[p]].wrapper = FALSE]
    /\ Goto(p, "halted", cur[p]) \/ Return(p, err[p])
    /\ UNCHANGED calls

CleanupLooksAgain(p) ==
    /\ pc[p] = "halted"
    /\ IF Exists(cur[p]) /\ Retirable(cts[cur[p]]) THEN Goto(p, "remove", cur[p])
       ELSE Return(p, err[p])
    /\ UNCHANGED <<cts, calls>>

\* mutant: the clean-up's own result takes the place of Create's error.
CleanupShadowsError(p) ==
    /\ pc[p] = "remove"
    /\ cts' = [cts EXCEPT ![cur[p]] = None]
    /\ Return(p, "ok")
    /\ UNCHANGED calls

CleanupDeletes(p) ==
    /\ pc[p] = "remove"
    /\ cts' = [cts EXCEPT ![cur[p]] = None]
    /\ Return(p, err[p])
    /\ UNCHANGED calls

\* A call of the clean-up fails: Create ends with the error it had.
CleanupFails(p) ==
    /\ pc[p] \in Cleaning
    /\ Return(p, err[p])
    /\ UNCHANGED <<cts, calls>>
-----------------------------------------------------------------------------
(* The commands that address a container by its provider id.               *)

\* The findOwned that opens Get, Stop and Delete, with the local code up to
\* the next call.  A container that is not there is fine for Delete, also when
\* RemoveAll has called it.
Find(p) ==
    LET r == req[p]
        i == IF r.op = "RemoveAll" THEN cur[p] ELSE r.ct
        e == findOwned(i, r.controller)
        deleting == r.op \in {"Delete", "RemoveAll"}
    IN  /\ pc[p] = "find"
        /\ \/ /\ e = "ErrNotFound" /\ deleting
              /\ SweepOn(p, todo[p], err[p])
           \/ /\ e # "ok" /\ ~(e = "ErrNotFound" /\ deleting)
              /\ Return(p, e)
           \/ /\ e = "ok" /\ r.op = "Get"
              /\ Return(p, "ok")
           \/ /\ e = "ok" /\ r.op = "Stop"
              /\ IF cts[i].state = "STOPPED" THEN Return(p, "ok")
                 ELSE Goto(p, "stop", i)
           \/ /\ e = "ok" /\ deleting
              /\ IF Retirable(cts[i]) THEN Goto(p, "destroy", i)
                 ELSE Return(p, "ErrActive")
        /\ UNCHANGED <<cts, calls>>

\* container.delete takes the id alone.
DeleteContainer(p) ==
    /\ pc[p] = "destroy"
    /\ cts' = [cts EXCEPT ![cur[p]] = None]
    /\ Effect(p, "absent", cur[p])
    /\ UNCHANGED calls

\* The Get that ends Delete; RemoveAll goes on with the next container.
DeleteVerifies(p) ==
    /\ pc[p] = "absent"
    /\ IF Exists(cur[p]) THEN Return(p, "ErrManagedDrift")
       ELSE SweepOn(p, todo[p], err[p])
    /\ UNCHANGED <<cts, calls>>

\* The graceful stop may not be obeyed.
StopContainer(p) ==
    /\ pc[p] = "stop"
    /\ Exists(cur[p])
    /\ \/ cts' = [cts EXCEPT ![cur[p]].state = "STOPPED", ![cur[p]].wrapper = FALSE]
       \/ UNCHANGED cts
    /\ Effect(p, "stopped", cur[p])
    /\ UNCHANGED calls

StopVerifies(p) ==
    /\ pc[p] = "stopped"
    /\ Return(p, CASE ~Exists(cur[p]) -> "ErrNotFound"
                   [] Exists(cur[p]) /\ cts[cur[p]].state # "STOPPED"
                         -> "ErrManagedDrift"
                   [] OTHER -> "ok")
    /\ UNCHANGED <<cts, calls>>

\* Manager.List goes by the controller alone, and leaves the profile to the
\* owner check of whoever acts on the container; one own container that is not
\* steady fails it.
ListContainers(p) ==
    LET r == req[p]
        own == {i \in Id : Owned(i, r.controller)}
    IN  /\ pc[p] = "list"
        /\ IF \E i \in own : verifySteadyRuntime(cts[i]) # "ok"
           THEN Return(p, "ErrManagedDrift")
           ELSE SweepOn(p, IF r.op = "RemoveAll" THEN own ELSE {}, "ok")
        /\ UNCHANGED <<cts, calls>>

\* RemoveAll's own findOwned, before it calls Delete for the container.
Sweep(p) ==
    /\ pc[p] = "sweep"
    /\ \E i \in todo[p] :
          LET e == findOwned(i, req[p].controller)
          IN  CASE e # "ok" -> Return(p, e)
                [] e = "ok" /\ ~Retirable(cts[i]) ->
                      SweepOn(p, todo[p] \ {i}, "ErrActive")
                [] OTHER -> /\ pc' = [pc EXCEPT ![p] = "find"]
                            /\ cur' = [cur EXCEPT ![p] = i]
                            /\ todo' = [todo EXCEPT ![p] = @ \ {i}]
                            /\ UNCHANGED <<req, err, reply>>
    /\ UNCHANGED <<cts, calls>>

\* The process is killed before its next call, or a call that nothing cleans
\* up after fails without effect.  Create finds another version, or no exact
\* image.
FailCall(p) ==
    /\ pc[p] # "idle"
    /\ \/ Return(p, "error")
       \/ pc[p] \in {"lookup", "create"} /\ Return(p, "ErrManagedDrift")
    /\ UNCHANGED <<cts, calls>>

Provider(p) == \/ CreateLooksUp(p) \/ CreateContainer(p) \/ StageToken(p)
               \/ StagedReadBack(p) \/ StartContainer(p) \/ ScrubInit(p)
               \/ CreateConfirms(p) \/ TokenGone(p) \/ BootstrapFails(p)
               \/ CleanupLooks(p) \/ CleanupStops(p) \/ CleanupLooksAgain(p)
               \/ CleanupDeletes(p) \/ CleanupFails(p)
               \/ Find(p) \/ DeleteContainer(p) \/ DeleteVerifies(p)
               \/ StopContainer(p) \/ StopVerifies(p) \/ ListContainers(p)
               \/ Sweep(p) \/ FailCall(p)
-----------------------------------------------------------------------------
(* The container and the operator.                                         *)

\* containerInitWrapper reads the token into its environment and removes the
\* file before it becomes /sbin/init.
InitWrapper(i) ==
    /\ Exists(i) /\ cts[i].wrapper
    /\ cts' = [cts EXCEPT ![i].token = FALSE, ![i].wrapper = FALSE]
    /\ UNCHANGED <<calls, pc, req, cur, todo, err, reply>>

\* The job ends or the container dies at any point (external); a state the
\* provider does not know may come and go.
ContainerRuns(i) ==
    /\ Exists(i) /\ cts[i].state # "STOPPED"
    /\ \/ cts' = [cts EXCEPT ![i].state = "STOPPED", ![i].wrapper = FALSE]
       \/ \E s \in {"RUNNING", "PAUSED"} : cts' = [cts EXCEPT ![i].state = s]
    /\ UNCHANGED <<calls, pc, req, cur, todo, err, reply>>

OperatorActs(i) ==
    /\ Exists(i)
    /\ \/ /\ "edit" \in HostEvents
          /\ cts' = [cts EXCEPT ![i].fixed = FALSE]
       \/ /\ "delete" \in HostEvents
          /\ cts' = [cts EXCEPT ![i] = None]
    /\ UNCHANGED <<calls, pc, req, cur, todo, err, reply>>
-----------------------------------------------------------------------------
\* Container 1 may be an earlier runner, or somebody else's, under any name: of
\* no controller, or of the controller but another schema or profile.  What is
\* somebody else's has stopped (a bound): so it could be removed by mistake.
Earlier ==
    LET Runners(ct) == ct.profile /\ ct.controller # NoController
    IN  {ct \in Container :
            /\ ct.fixed /\ ct.steady /\ ct.started /\ ~ct.token /\ ~ct.wrapper
            /\ ct.profile \/ ct.controller # NoController
            /\ ct.controller \in {NoController, ct.name[1]}
            /\ Runners(ct) \/ ct.state = "STOPPED"}

Init == /\ cts \in [Id -> Earlier \cup {None}]
        /\ \A i \in Id \ {1} : cts[i] = None
        /\ calls = 0
        /\ pc = [p \in Proc |-> "idle"]
        /\ req = [p \in Proc |-> NoRequest]
        /\ cur = [p \in Proc |-> 0]
        /\ todo = [p \in Proc |-> {}]
        /\ err = [p \in Proc |-> "ok"]
        /\ reply = [p \in Proc |-> "ok"]

Next == \/ \E p \in Proc : Invoke(p) \/ InvokeRefused(p) \/ Provider(p)
        \/ \E i \in Id : InitWrapper(i) \/ ContainerRuns(i) \/ OperatorActs(i)

Spec == Init /\ [][Next]_vars
-----------------------------------------------------------------------------
(* Properties.                                                             *)

Types ==
    /\ cts \in [Id -> Container \cup {None}]
    /\ calls \in Nat
    /\ pc \in [Proc -> PC]
    /\ req \in [Proc -> Request \cup {NoRequest}]
    /\ cur \in [Proc -> Id \cup {0}]
    /\ todo \in [Proc -> SUBSET Id]
    /\ err \in [Proc -> ErrClass]
    /\ reply \in [Proc -> ErrClass]

\* A process that bootstraps, cleans up, stops or deletes has the id of a
\* container to do it to, and its command is one that may.
Dispatched(p) ==
    /\ pc[p] # "idle" => req[p] \in Request
    /\ pc[p] \in Bootstrapping \cup Cleaning =>
          req[p].op = "Create" /\ cur[p] \in Id
    /\ pc[p] \in {"destroy", "absent"} =>
          req[p].op \in {"Delete", "RemoveAll"} /\ cur[p] \in Id
    /\ pc[p] \in {"stop", "stopped"} => req[p].op = "Stop" /\ cur[p] \in Id

\* Every variable has its type, and no call is reached without the container
\* and the command it is for.
TypeOK == Types /\ \A p \in Proc : Dispatched(p)

-----------------------------------------------------------------------------
(* The detailed specification implements GuestPromise.                     *)

WorkloadOf(ct) ==
    IF ct = None THEN None
    ELSE [name |-> ct.name, owner |-> ct.controller,
          phase |-> IF ct.state # "STOPPED" THEN "active"
                    ELSE IF ct.started THEN "finished" ELSE "made"]

\* With "confirm" Create has seen its container run; its last check is of the
\* token file.
JobOf(p) ==
    IF pc[p] = "idle" THEN None
    ELSE [op |-> req[p].op, controller |-> req[p].controller,
          name |-> req[p].name, seen |-> pc[p] = "token",
          id |-> CASE req[p].op # "Create" -> req[p].ct
                   [] req[p].op = "Create"
                      /\ pc[p] \in Bootstrapping \cup Cleaning -> cur[p]
                   [] OTHER -> 0]

Promise == INSTANCE GuestPromise
    WITH Name <- CTName,
         workload <- [i \in Id |-> WorkloadOf(cts[i])],
         job <- [p \in Proc |-> JobOf(p)],
         answer <- [p \in Proc |-> reply[p] = "ok"],
         FinishedOnly <- TRUE,
         Restartable <- FALSE,
         Removable <- "delete" \in HostEvents

\* Whatever calls a command is made of, and whoever acts between them, GARM
\* and the host see single steps of GuestPromise, in any overlap: scrubbing is
\* how it is kept.
KeepsPromise == Promise!Spec
-----------------------------------------------------------------------------
\* The calls that stop, rewrite or delete a container.
Harmful == {"destroy", "stop", "halt", "remove", "scrub"}

\* A process about to stop, rewrite or delete a container works on one of its
\* own controller or on one that has vanished: findOwned ran calls earlier,
\* and cleanupFailedCreate does not check the owner at all.
OnlyOwnContainersTargeted ==
    \A p \in Proc : pc[p] \in Harmful /\ Exists(cur[p]) =>
       cts[cur[p]].controller = req[p].controller

\* Delete, RemoveAll and the clean-up take a container away only while it is
\* stopped, also when they overlap with the Create that is about to start it:
\* what Create has not scrubbed yet, findOwned refuses.
ActiveNeverDeleted ==
    [][\A p \in Proc, i \in Id :
          /\ pc[p] \in {"destroy", "remove"} /\ pc'[p] # pc[p] /\ cur[p] = i
          /\ Exists(i) /\ cts'[i] = None
          => cts[i].state = "STOPPED"]_vars

\* "Start the container exactly once ... remove the token from persisted
\* initenv" (docs/container-v1-26-beta3.md:101-103) in that order: a container
\* with its final init, the only one that is adopted, listed or retired, has
\* been started.
SteadyWasStarted == \A i \in Id : Exists(i) /\ cts[i].steady => cts[i].started

\* "Independently read back the container and prove the token is absent; fail
\* closed if scrub/read-back cannot be proven"
\* (docs/container-v1-26-beta3.md:104-105): when Create answers ok after a
\* bootstrap of its own, neither the bootstrap init nor the token file is
\* left, although container.update and the init wrapper run on their own time.
CompletedCreateScrubbed ==
    [][\A p \in Proc :
          pc[p] = "token" /\ pc'[p] = "idle" /\ reply'[p] = "ok"
          /\ Exists(cur[p])
          => cts[cur[p]].steady /\ ~cts[cur[p]].token]_vars

\* The same of every Create that answers ok, the adopting one included.
CreatedHasNoToken ==
    [][\A p \in Proc :
          pc[p] # "idle" /\ pc'[p] = "idle" /\ req[p].op = "Create"
          /\ reply'[p] = "ok" =>
          \A i \in Id : Exists(i) /\ cts[i].name = req[p].name => ~cts[i].token]_vars
=============================================================================
