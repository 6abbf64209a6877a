----------------------------- MODULE VMBackend ------------------------------
(***************************************************************************)
(* The vm-v1 backend, vmbackend.Manager over its Client interface: a VM is *)
(* cloned from a template, given a NoCloud seed, started once, and retired *)
(* stopped, seed first.  One middleware call per action, as in Apps.       *)
(*                                                                         *)
(* External (the Client interface, no implementation under src/): the VM   *)
(* and seed tables, the guest, the operator, GARM.  VM ids are not reused, *)
(* names are unique.  The read-only calls SystemVersion and ResolveTemplate*)
(* either refuse (FailCall) or change nothing, and have no step.           *)
(***************************************************************************)
EXTENDS Integers

CONSTANTS
    Proc,        \* slots for provider processes running at the same time
    Controller,  \* GARM controller identities
    Runner,      \* runner names; <<controller, runner>> is the VM name
    MaxCalls,    \* bound: commands GARM issues in a behaviour
    Commands,    \* the commands GARM uses
    Overlap,     \* may mutating commands of one controller overlap?
    HostEvents,  \* what an operator does: "start", "edit", "delete"
    None, NoController, NoRequest

ASSUME VMConfigAssumption ==
    /\ MaxCalls \in Nat
    /\ Overlap \in BOOLEAN
    /\ NoController \notin Controller
    /\ Commands \subseteq {"Create", "ReconcileBootstrap", "Get", "List", "Stop",
                           "Delete", "RemoveAll"}
    /\ HostEvents \subseteq {"start", "edit", "delete"}

VARIABLES
    vms,    \* VM id -> VM or None
    seeds,  \* the VM ids for which a seed dataset exists
    calls,  \* commands issued so far, the identity of the newest one
    pc,     \* the middleware call each process makes next
    req,    \* the command each process serves
    cur,    \* the VM a process works on, 0 for none
    todo,   \* VMs a RemoveAll still has to visit
    active, \* RemoveAll has skipped an active VM
    reply   \* the answer a process last gave GARM

vars == <<vms, seeds, calls, pc, req, cur, todo, active, reply>>

\* Id 1 is a VM that was there before; call n clones VM n + 1.
Id == 1 .. MaxCalls + 1
VMName == Controller \X Runner

\* controller: what a description of this provider names; profile: it names
\* the schema and the profile that Create writes, too; fixed: autostart, CPU,
\* memory and template are as created; seed: SeedRef is set; consumed: the
\* guest has emitted its consumption marker; started: the VM has run (history).
VM == [name : VMName, controller : Controller \cup {NoController},
       state : {"RUNNING", "STOPPED", "PAUSED"}, profile : BOOLEAN,
       fixed : BOOLEAN, seed : BOOLEAN, consumed : BOOLEAN, started : BOOLEAN]

Op == {"Create", "ReconcileBootstrap", "Get", "List", "Stop", "Delete", "RemoveAll"}
Mutating == {"Create", "ReconcileBootstrap", "Stop", "Delete", "RemoveAll"}
Request == [op : Op, controller : Controller, name : VMName, vm : Id, id : Nat]

\* None is none of the things it marks the absence of: a VM, and the workload
\* and the job that GuestPromise sees.
ASSUME NoneAssumption ==
    /\ None \notin VM
    /\ None \notin [name : VMName, owner : Controller \cup {NoController},
                    phase : {"made", "active", "finished"}]
    /\ None \notin [op : Op, controller : Controller, name : VMName,
                    id : Id \cup {0}, seen : BOOLEAN]

ErrClass == {"ok", "ErrNotFound", "ErrForeign", "ErrActive", "ErrUnsupported",
             "ErrUnsafeOperation", "ErrManagedDrift", "error"}
PC == {"idle", "lookup", "clone", "stage", "attach", "start", "confirm", "find",
       "consumed", "detach", "unstage", "cleaned", "destroy", "absent",
       "stop", "stopped", "list", "sweep"}
-----------------------------------------------------------------------------
(* Local code.                                                             *)

Exists(i) == vms[i] # None
Owned(i, c) == Exists(i) /\ vms[i].controller = c

verifyRuntime(vm) ==
    IF vm.fixed /\ vm.state \in {"RUNNING", "STOPPED"} THEN "ok"
    ELSE "ErrManagedDrift"

ownerRuntimeOnly(vm, c) == verifyRuntime(vm)  \* mutant: runtime but not owner
owner(vm, c) ==
    IF vm.controller = c /\ vm.profile THEN verifyRuntime(vm) ELSE "ErrForeign"

\* findOwned lists all VMs and checks the one with the provider id.
findOwned(i, c) == IF Exists(i) THEN owner(vms[i], c) ELSE "ErrNotFound"

Return(p, err) ==
    /\ pc' = [pc EXCEPT ![p] = "idle"]
    /\ req' = [req EXCEPT ![p] = NoRequest]
    /\ cur' = [cur EXCEPT ![p] = 0]
    /\ todo' = [todo EXCEPT ![p] = {}]
    /\ active' = [active EXCEPT ![p] = FALSE]
    /\ reply' = [reply EXCEPT ![p] = err]

Goto(p, next, i) == /\ pc' = [pc EXCEPT ![p] = next]
                    /\ cur' = [cur EXCEPT ![p] = i]
                    /\ UNCHANGED <<req, todo, active, reply>>

\* A call that took effect: its reply arrives, or is lost and the command
\* fails.
Effect(p, next, i) == Goto(p, next, i) \/ Return(p, "error")

\* What Delete and RemoveAll take away: the state test on either path.
RetirableAny(vm) == TRUE  \* mutant: the test is dropped
Retirable(vm) == vm.state = "STOPPED"

\* RemoveAll goes on with the VMs left; it remembers the active ones.
SweepOn(p, T, act) ==
    IF T = {} THEN Return(p, IF act THEN "ErrActive" ELSE "ok")
    ELSE /\ pc' = [pc EXCEPT ![p] = "sweep"]
         /\ todo' = [todo EXCEPT ![p] = T]
         /\ active' = [active EXCEPT ![p] = act]
         /\ UNCHANGED <<req, cur, reply>>
-----------------------------------------------------------------------------
(* GARM issues commands.                                                   *)

Admissible(c, op) ==
    Overlap \/ op \notin Mutating
            \/ \A q \in Proc : pc[q] # "idle" =>
                  ~(req[q].controller = c /\ req[q].op \in Mutating)

Invoke(p) ==
    \E c \in Controller, op \in Commands, r \in Runner, i \in Id :
       /\ pc[p] = "idle"
       /\ calls < MaxCalls
       /\ Admissible(c, op)
       /\ op \in {"Create", "List", "RemoveAll"} => i = 1  \* no VM named
       /\ op # "Create" => r = CHOOSE x \in Runner : TRUE  \* no runner named
       /\ i <= calls + 1
       /\ calls' = calls + 1
       /\ req' = [req EXCEPT ![p] = [op |-> op, controller |-> c,
                                     name |-> <<c, r>>, vm |-> i,
                                     id |-> calls + 1]]
       /\ pc' = [pc EXCEPT ![p] = CASE op = "Create" -> "lookup"
                                    [] op \in {"List", "RemoveAll"} -> "list"
                                    [] OTHER -> "find"]
       /\ UNCHANGED <<vms, seeds, cur, todo, active, reply>>

\* Create of a bootstrap that validateBootstrap refuses, and Start, which
\* always refuses: no middleware call is made.
InvokeRefused(p) ==
    /\ pc[p] = "idle"
    /\ calls < MaxCalls
    /\ calls' = calls + 1
    /\ \/ "Create" \in Commands /\ Return(p, "ErrUnsupported")
       \/ Return(p, "ErrUnsafeOperation")
    /\ UNCHANGED <<vms, seeds>>
-----------------------------------------------------------------------------
(* Create.                                                                 *)

\* mutant: an adopted VM that is not running is started.
CreateLooksUpResumes(p) ==
    LET r == req[p]
    IN  /\ pc[p] = "lookup"
        /\ \/ /\ \A i \in Id : Exists(i) => vms[i].name # r.name
              /\ Goto(p, "clone", 0)
           \/ \E i \in Id :
                 /\ Exists(i) /\ vms[i].name = r.name
                 /\ IF owner(vms[i], r.controller) = "ok" /\ vms[i].state = "STOPPED"
                    THEN Goto(p, "start", i)
                    ELSE Return(p, owner(vms[i], r.controller))
        /\ UNCHANGED <<vms, seeds, calls>>

\* GetByName: adopt the VM of that name, in whatever of the two steady states
\* it is, or go on.
CreateLooksUp(p) ==
    LET r == req[p]
    IN  /\ pc[p] = "lookup"
        /\ \/ /\ \A i \in Id : Exists(i) => vms[i].name # r.name
              /\ Goto(p, "clone", 0)
           \/ \E i \in Id : /\ Exists(i) /\ vms[i].name = r.name
                            /\ Return(p, owner(vms[i], r.controller))
        /\ UNCHANGED <<vms, seeds, calls>>

Cloned(r) == [name |-> r.name, controller |-> r.controller,
              state |-> "STOPPED", profile |-> TRUE, fixed |-> TRUE,
              seed |-> FALSE, consumed |-> FALSE, started |-> FALSE]

\* mutant: a failed clone is not noticed, its id 0 is used.
CloneIgnoresError(p) ==
    LET r == req[p]
    IN  /\ pc[p] = "clone"
        /\ \A i \in Id : Exists(i) => vms[i].name # r.name
        /\ vms' = [vms EXCEPT ![r.id + 1] = Cloned(r)]
        /\ Goto(p, "stage", r.id + 1) \/ Goto(p, "stage", 0)
        /\ UNCHANGED <<seeds, calls>>

\* mutant: the clone is started before the seed is staged and attached.
CloneStartsAtOnce(p) ==
    LET r == req[p]
    IN  /\ pc[p] = "clone"
        /\ \A i \in Id : Exists(i) => vms[i].name # r.name
        /\ vms' = [vms EXCEPT ![r.id + 1] = Cloned(r)]
        /\ Effect(p, "start", r.id + 1)
        /\ UNCHANGED <<seeds, calls>>

\* vm.clone refuses a name in use (FailCall).
Clone(p) ==
    LET r == req[p]
    IN  /\ pc[p] = "clone"
        /\ \A i \in Id : Exists(i) => vms[i].name # r.name
        /\ vms' = [vms EXCEPT ![r.id + 1] = Cloned(r)]
        /\ Effect(p, "stage", r.id + 1)
        /\ UNCHANGED <<seeds, calls>>

StageSeed(p) ==
    /\ pc[p] = "stage"
    /\ Exists(cur[p])
    /\ seeds' = seeds \cup {cur[p]}
    /\ Effect(p, "attach", cur[p])
    /\ UNCHANGED <<vms, calls>>

AttachSeed(p) ==
    /\ pc[p] = "attach"
    /\ Exists(cur[p]) /\ cur[p] \in seeds
    /\ vms' = [vms EXCEPT ![cur[p]].seed = TRUE]
    /\ Effect(p, "start", cur[p])
    /\ UNCHANGED <<seeds, calls>>

StartVM(p) ==
    /\ pc[p] = "start"
    /\ Exists(cur[p])
    /\ vms' = [vms EXCEPT ![cur[p]].state = "RUNNING", ![cur[p]].started = TRUE]
    /\ Effect(p, "confirm", cur[p])
    /\ UNCHANGED <<seeds, calls>>

\* The read-back that ends Create.
CreateConfirms(p) ==
    LET i == cur[p]
        err == findOwned(i, req[p].controller)
    IN  /\ pc[p] = "confirm"
        /\ Return(p, CASE err # "ok" -> err
                       [] err = "ok" /\ (vms[i].state # "RUNNING" \/ ~vms[i].seed)
                             -> "ErrManagedDrift"
                       [] OTHER -> "ok")
        /\ UNCHANGED <<vms, seeds, calls>>
-----------------------------------------------------------------------------
(* The commands that address a VM by its provider id.                      *)

\* The findOwned that opens Get, Stop, ReconcileBootstrap and Delete, with the
\* local code up to the next call.  A VM that is not there is fine for Delete,
\* also when RemoveAll has called it.
Find(p) ==
    LET r == req[p]
        i == IF r.op = "RemoveAll" THEN cur[p] ELSE r.vm
        err == findOwned(i, r.controller)
        stopped == vms[i].state = "STOPPED"
        deleting == r.op \in {"Delete", "RemoveAll"}
    IN  /\ pc[p] = "find"
        /\ \/ /\ err = "ErrNotFound" /\ deleting
              /\ SweepOn(p, todo[p], active[p])
           \/ /\ err # "ok" /\ ~(err = "ErrNotFound" /\ deleting)
              /\ Return(p, err)
           \/ /\ err = "ok" /\ r.op = "Get"
              /\ Return(p, "ok")
           \/ /\ err = "ok" /\ r.op = "Stop"
              /\ IF stopped THEN Return(p, "ok") ELSE Goto(p, "stop", i)
           \/ /\ err = "ok" /\ r.op = "ReconcileBootstrap"
              /\ CASE ~vms[i].seed -> Return(p, "ok")
                   [] vms[i].seed /\ ~stopped -> Return(p, "ErrUnsafeOperation")
                   [] OTHER -> Goto(p, "consumed", i)
           \/ /\ err = "ok" /\ deleting
              /\ IF ~Retirable(vms[i]) THEN Return(p, "ErrActive")
                 ELSE Goto(p, IF vms[i].seed THEN "detach" ELSE "destroy", i)
        /\ UNCHANGED <<vms, seeds, calls>>

BootstrapConsumed(p) ==
    /\ pc[p] = "consumed"
    /\ IF Exists(cur[p]) /\ vms[cur[p]].consumed THEN Goto(p, "detach", cur[p])
       ELSE Return(p, "ErrUnsafeOperation")
    /\ UNCHANGED <<vms, seeds, calls>>

\* vm.device.delete refuses an active VM (FailCall).
DetachSeed(p) ==
    /\ pc[p] = "detach"
    /\ Exists(cur[p]) /\ vms[cur[p]].seed
    /\ vms[cur[p]].state = "STOPPED"
    /\ vms' = [vms EXCEPT ![cur[p]].seed = FALSE]
    /\ Effect(p, "unstage", cur[p])
    /\ UNCHANGED <<seeds, calls>>

DeleteSeed(p) ==
    /\ pc[p] = "unstage"
    /\ seeds' = seeds \ {cur[p]}
    /\ Effect(p, IF req[p].op = "ReconcileBootstrap" THEN "cleaned" ELSE "destroy",
              cur[p])
    /\ UNCHANGED <<vms, calls>>

\* The read-back that ends ReconcileBootstrap.
ReconcileVerifies(p) ==
    /\ pc[p] = "cleaned"
    /\ Return(p, CASE ~Exists(cur[p]) -> "ErrNotFound"
                   [] Exists(cur[p]) /\ vms[cur[p]].seed -> "ErrManagedDrift"
                   [] OTHER -> "ok")
    /\ UNCHANGED <<vms, seeds, calls>>

\* vm.delete takes the id alone, and powers a running VM off.
DeleteVM(p) ==
    /\ pc[p] = "destroy"
    /\ vms' = [vms EXCEPT ![cur[p]] = None]
    /\ Effect(p, "absent", cur[p])
    /\ UNCHANGED <<seeds, calls>>

\* The Get that ends Delete; RemoveAll goes on with the next VM.
DeleteVerifies(p) ==
    /\ pc[p] = "absent"
    /\ IF Exists(cur[p]) THEN Return(p, "ErrManagedDrift")
       ELSE SweepOn(p, todo[p], active[p])
    /\ UNCHANGED <<vms, seeds, calls>>

\* The guest may not obey a graceful stop.
StopVM(p) ==
    /\ pc[p] = "stop"
    /\ Exists(cur[p])
    /\ \/ vms' = [vms EXCEPT ![cur[p]].state = "STOPPED"]
       \/ UNCHANGED vms
    /\ Effect(p, "stopped", cur[p])
    /\ UNCHANGED <<seeds, calls>>

\* mutant: Stop goes by the answer of vm.stop and does not read back.
StopTrusts(p) ==
    /\ pc[p] = "stopped"
    /\ Return(p, "ok")
    /\ UNCHANGED <<vms, seeds, calls>>

StopVerifies(p) ==
    /\ pc[p] = "stopped"
    /\ Return(p, CASE ~Exists(cur[p]) -> "ErrNotFound"
                   [] Exists(cur[p]) /\ vms[cur[p]].state # "STOPPED"
                         -> "ErrManagedDrift"
                   [] OTHER -> "ok")
    /\ UNCHANGED <<vms, seeds, calls>>

\* Manager.List goes by the controller alone, and leaves the profile to the
\* owner check of whoever acts on the VM; only an own VM in trouble fails it.
ListVMs(p) ==
    LET r == req[p]
        own == {i \in Id : Owned(i, r.controller)}
    IN  /\ pc[p] = "list"
        /\ IF \E i \in own : verifyRuntime(vms[i]) # "ok"
           THEN Return(p, "ErrManagedDrift")
           ELSE SweepOn(p, IF r.op = "RemoveAll" THEN own ELSE {}, FALSE)
        /\ UNCHANGED <<vms, seeds, calls>>

\* RemoveAll's own findOwned, before it calls Delete for the VM.
Sweep(p) ==
    /\ pc[p] = "sweep"
    /\ \E i \in todo[p] :
          LET err == findOwned(i, req[p].controller)
          IN  CASE err # "ok" -> Return(p, err)
                [] err = "ok" /\ ~Retirable(vms[i]) ->
                      SweepOn(p, todo[p] \ {i}, TRUE)
                [] OTHER -> /\ pc' = [pc EXCEPT ![p] = "find"]
                            /\ cur' = [cur EXCEPT ![p] = i]
                            /\ todo' = [todo EXCEPT ![p] = @ \ {i}]
                            /\ UNCHANGED <<req, active, reply>>
    /\ UNCHANGED <<vms, seeds, calls>>

\* A middleware call fails without effect, or the process is killed before
\* it: every caller returns at once and cleans nothing up.  Create finds
\* another version, or a template that is not as certified.
FailCall(p) ==
    /\ pc[p] # "idle"
    /\ \/ Return(p, "error")
       \/ pc[p] \in {"lookup", "clone"} /\ Return(p, "ErrManagedDrift")
    /\ UNCHANGED <<vms, seeds, calls>>

Provider(p) == \/ CreateLooksUp(p) \/ Clone(p) \/ StageSeed(p) \/ AttachSeed(p)
               \/ StartVM(p) \/ CreateConfirms(p) \/ Find(p)
               \/ BootstrapConsumed(p) \/ DetachSeed(p) \/ DeleteSeed(p)
               \/ ReconcileVerifies(p) \/ DeleteVM(p) \/ DeleteVerifies(p)
               \/ StopVM(p) \/ StopVerifies(p) \/ ListVMs(p) \/ Sweep(p)
               \/ FailCall(p)
-----------------------------------------------------------------------------
(* The guest and the operator (external).                                  *)

\* The launcher deletes its environment file and emits the marker; the job
\* ends and the guest powers off; a VM may be suspended.
GuestRuns(i) ==
    /\ Exists(i) /\ vms[i].state # "STOPPED"
    /\ \/ vms' = [vms EXCEPT ![i].consumed = TRUE]
       \/ \E s \in {"RUNNING", "STOPPED", "PAUSED"} :
             vms' = [vms EXCEPT ![i].state = s]
    /\ UNCHANGED <<seeds, calls, pc, req, cur, todo, active, reply>>

OperatorActs(i) ==
    /\ Exists(i)
    /\ \/ /\ "start" \in HostEvents
          /\ vms' = [vms EXCEPT ![i].state = "RUNNING", ![i].started = TRUE]
       \/ /\ "edit" \in HostEvents
          /\ \/ vms' = [vms EXCEPT ![i].fixed = FALSE]
             \/ vms' = [vms EXCEPT ![i].profile = FALSE]
       \/ /\ "delete" \in HostEvents
          /\ vms' = [vms EXCEPT ![i] = None]
    /\ UNCHANGED <<seeds, calls, pc, req, cur, todo, active, reply>>
-----------------------------------------------------------------------------
\* VM 1 may be somebody else's, under any name, or an earlier runner.
Earlier ==
    {vm \in VM : /\ vm.profile /\ vm.fixed /\ vm.started
                 /\ ~vm.seed /\ ~vm.consumed
                 /\ vm.controller # NoController => vm.controller = vm.name[1]}

Init == /\ vms \in [Id -> Earlier \cup {None}]
        /\ \A i \in Id \ {1} : vms[i] = None
        /\ seeds = {}
        /\ calls = 0
        /\ pc = [p \in Proc |-> "idle"]
        /\ req = [p \in Proc |-> NoRequest]
        /\ cur = [p \in Proc |-> 0]
        /\ todo = [p \in Proc |-> {}]
        /\ active = [p \in Proc |-> FALSE]
        /\ reply = [p \in Proc |-> "ok"]

Next == \/ \E p \in Proc : Invoke(p) \/ InvokeRefused(p) \/ Provider(p)
        \/ \E i \in Id : GuestRuns(i) \/ OperatorActs(i)

Spec == Init /\ [][Next]_vars
-----------------------------------------------------------------------------
(* Properties.                                                             *)

Types ==
    /\ vms \in [Id -> VM \cup {None}]
    /\ seeds \subseteq Id
    /\ calls \in Nat
    /\ pc \in [Proc -> PC]
    /\ req \in [Proc -> Request \cup {NoRequest}]
    /\ cur \in [Proc -> Id \cup {0}]
    /\ todo \in [Proc -> SUBSET Id]
    /\ active \in [Proc -> BOOLEAN]
    /\ reply \in [Proc -> ErrClass]

\* A process that builds up, strips, stops or deletes a VM has its id, and its
\* command is one that may.
Dispatched(p) ==
    /\ pc[p] # "idle" => req[p] \in Request
    /\ pc[p] \in {"stage", "attach", "start", "confirm"} =>
          req[p].op = "Create" /\ cur[p] \in Id
    /\ pc[p] \in {"consumed", "cleaned"} =>
          req[p].op = "ReconcileBootstrap" /\ cur[p] \in Id
    /\ pc[p] \in {"detach", "unstage"} =>
          req[p].op \in {"ReconcileBootstrap", "Delete", "RemoveAll"}
          /\ cur[p] \in Id
    /\ pc[p] \in {"destroy", "absent"} =>
          req[p].op \in {"Delete", "RemoveAll"} /\ cur[p] \in Id
    /\ pc[p] \in {"stop", "stopped"} => req[p].op = "Stop" /\ cur[p] \in Id

\* Every variable has its type, and no call is reached without the VM and the
\* command it is for.
TypeOK == Types /\ \A p \in Proc : Dispatched(p)

-----------------------------------------------------------------------------
(* The detailed specification implements GuestPromise.                     *)

WorkloadOf(vm) ==
    IF vm = None THEN None
    ELSE [name |-> vm.name, owner |-> vm.controller,
          phase |-> IF vm.state # "STOPPED" THEN "active"
                    ELSE IF vm.started THEN "finished" ELSE "made"]

\* The calls of a Create that has its VM.
Building == {"stage", "attach", "start", "confirm"}
JobOf(p) ==
    IF pc[p] = "idle" THEN None
    ELSE [op |-> req[p].op, controller |-> req[p].controller,
          name |-> req[p].name, seen |-> FALSE,
          id |-> CASE req[p].op # "Create" -> req[p].vm
                   [] req[p].op = "Create" /\ pc[p] \in Building -> cur[p]
                   [] OTHER -> 0]

\* GARM keeps the mutating commands of a controller apart, and the operator
\* starts no VM.
Alone == ~Overlap /\ "start" \notin HostEvents

Promise == INSTANCE GuestPromise
    WITH Name <- VMName,
         workload <- [i \in Id |-> WorkloadOf(vms[i])],
         job <- [p \in Proc |-> JobOf(p)],
         answer <- [p \in Proc |-> reply[p] = "ok"],
         FinishedOnly <- Alone,
         Restartable <- "start" \in HostEvents,
         Removable <- "delete" \in HostEvents

\* Whatever calls a command is made of, and whoever acts between them, GARM
\* and the host see single steps of GuestPromise: seeds and read-backs are how
\* it is kept.
KeepsPromise == Promise!Spec
-----------------------------------------------------------------------------
\* The calls that stop, strip or delete a VM.
Harmful == {"detach", "unstage", "destroy", "stop"}

\* A process about to stop a VM, take its seed away or delete it works on a VM
\* of its own controller or on one that has vanished: findOwned ran calls
\* earlier, and RemoveAll repeats it per VM, in Delete and before it.
OnlyOwnVMsTargeted ==
    \A p \in Proc : pc[p] \in Harmful /\ Exists(cur[p]) =>
       vms[cur[p]].controller = req[p].controller

\* "A stopped/retired one-job VM is never restarted" and "start exactly once"
\* (docs/vm-v1-classic.md): Create starts a VM that has never run, with its
\* seed attached and staged, whatever other commands did since it was cloned.
StartsFreshWithSeed ==
    [][\A p \in Proc, i \in Id :
          /\ pc[p] = "start" /\ cur[p] = i /\ Exists(i) /\ vms'[i] # None
          /\ vms[i].state = "STOPPED" /\ vms'[i].state = "RUNNING"
          => ~vms[i].started /\ vms[i].seed /\ i \in seeds]_vars

\* The seed is retained while the VM is active (docs/three-runtime-backends.md,
\* VM bootstrap storage contract, step 5): a VM this provider cloned and that
\* is not stopped still has its seed, attached and staged.
SeedOutlivesRun ==
    \A i \in Id \ {1} : Exists(i) /\ vms[i].state # "STOPPED" =>
       vms[i].seed /\ i \in seeds

\* Delete and RemoveAll take a VM away only while it is stopped, although they
\* looked two to four middleware calls earlier.
ActiveNeverDeleted ==
    [][\A p \in Proc :
          pc[p] = "destroy" /\ pc'[p] # "destroy" /\ vms' # vms =>
          vms[cur[p]].state = "STOPPED"]_vars

\* "Start exactly once and prove guest/runner readiness"
\* (docs/vm-v1-classic.md, lifecycle step 6): when Create answers ok, the VM of
\* that name has been started.
CreatedWasStarted ==
    [][\A p \in Proc :
          pc[p] # "idle" /\ pc'[p] = "idle" /\ req[p].op = "Create"
          /\ reply'[p] = "ok" =>
          \A i \in Id : Exists(i) /\ vms[i].name = req[p].name => vms[i].started]_vars

\* "Zero provider-owned ... bootstrap residue" (docs/vm-v1-classic.md,
\* lifecycle step 9): when Delete answers ok, no seed dataset of that VM is
\* left.
DeletedLeavesNoSeed ==
    [][\A p \in Proc :
          pc[p] # "idle" /\ pc'[p] = "idle" /\ req[p].op = "Delete"
          /\ reply'[p] = "ok" => req[p].vm \notin seeds']_vars
=============================================================================
