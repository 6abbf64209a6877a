---------------------------- MODULE GuestPromise ----------------------------
(***************************************************************************)
(* What the vm-v1 and the container-v1 backend promise GARM: AppsPromise   *)
(* for workloads that have an id of their own, are made stopped and are    *)
(* started once.  A workload is started only by the Create that made it,   *)
(* and stopped and removed only for the controller that owns it; "ok"      *)
(* promises that the command's aim held when it was said or, for a Create  *)
(* with checks to follow, when the workload was last looked at.            *)
(***************************************************************************)
CONSTANTS
    Proc, Controller, Name, Id,
    FinishedOnly,   \* what is active is never removed
    Restartable,    \* an operator may start a workload
    Removable,      \* an operator may remove a workload
    None, NoController

VARIABLES
    workload,   \* by id: None, or its name, its owner and how far it is
    job,        \* the command each process serves, or None
    answer      \* whether the last answer of each process was "ok"

vars == <<answer, job, workload>>

Op == {"Create", "ReconcileBootstrap", "Get", "List", "Stop", "Delete", "RemoveAll"}
Phase == {"made", "active", "finished"}
Workload == [name : Name, owner : Controller \cup {NoController}, phase : Phase]

\* id: the workload a command is for; of a Create the one it has made, or 0.
\* seen: a Create has seen the workload it has made active.
Job == [op : Op, controller : Controller, name : Name, id : Id \cup {0},
        seen : BOOLEAN]

Owned(j, i) == /\ i \in Id
               /\ workload[i] # None /\ workload[i].owner = j.controller

\* The aim of a command, as far as one look at the table can tell: a Create
\* that has made its workload answers for that one alone, others adopt.
Achieved(j) ==
    /\ j.op = "Create" =>
          \E i \in Id : /\ Owned(j, i) /\ workload[i].name = j.name
                        /\ j.id # 0 => i = j.id /\ workload[i].phase = "active"
    /\ j.op \in {"ReconcileBootstrap", "Get", "Stop"} => Owned(j, j.id)
    /\ j.op = "Stop" => workload[j.id].phase # "active"
    /\ j.op = "Delete" => workload[j.id] = None

Begin(p) == /\ job[p] = None /\ job'[p] \in Job
            /\ job'[p].op = "Create" => job'[p].id = 0
            /\ ~job'[p].seen
            /\ job' = [job EXCEPT ![p] = job'[p]]
            /\ UNCHANGED <<answer, workload>>

\* A command that is refused before anything is looked at.
Refuse(p) == /\ job[p] = None
             /\ answer' = [answer EXCEPT ![p] = FALSE]
             /\ UNCHANGED <<job, workload>>

Serves(p, ops) == job[p] # None /\ job[p].op \in ops
Continue == UNCHANGED <<job, answer>>
End(p, ok) == /\ job' = [job EXCEPT ![p] = None]
              /\ answer' = [answer EXCEPT ![p] = ok]

Answer(p) ==
    LET j == job[p]
    IN  /\ Serves(p, Op)
        /\ \E ok \in BOOLEAN : End(p, ok) /\ (ok => j.seen \/ Achieved(j))
        /\ UNCHANGED workload

\* Create makes a workload of its own under a name that is free ...
Create(p) ==
    LET j == job[p]
    IN  /\ Serves(p, {"Create"}) /\ j.id = 0
        /\ \A i \in Id : workload[i] # None => workload[i].name # j.name
        /\ \E i \in Id :
              /\ workload[i] = None
              /\ workload' = [workload EXCEPT ![i] =
                    [name |-> j.name, owner |-> j.controller, phase |-> "made"]]
              /\ \/ /\ job' = [job EXCEPT ![p] = [j EXCEPT !.id = i]]
                    /\ UNCHANGED answer
                 \/ End(p, FALSE)

\* ... starts it, once, ...
Start(p) ==
    LET j == job[p]
    IN  /\ Serves(p, {"Create"}) /\ Owned(j, j.id)
        /\ workload[j.id].phase = "made" \/ Restartable
        /\ workload' = [workload EXCEPT ![j.id].phase = "active"]
        /\ Continue \/ End(p, FALSE)

\* ... and sees it active, which a later check may take back.
Attest(p) ==
    LET j == job[p]
    IN  /\ Serves(p, {"Create"}) /\ j.id # 0
        /\ \E seen \in BOOLEAN :
              /\ seen => Achieved(j)
              /\ job' = [job EXCEPT ![p] = [j EXCEPT !.seen = seen]]
        /\ UNCHANGED <<answer, workload>>

\* Stop ends what is active, and so does a Create that gives up.
Halt(p) ==
    LET j == job[p]
    IN  /\ Serves(p, {"Create", "Stop"}) /\ Owned(j, j.id)
        /\ workload[j.id].phase = "active"
        /\ workload' = [workload EXCEPT ![j.id].phase = "finished"]
        /\ Continue \/ End(p, FALSE)

\* Delete and RemoveAll remove workloads of their own, and a Create that gives
\* up the one it has made: it never says "ok" then.
Retire(p) ==
    LET j == job[p]
    IN  /\ Serves(p, {"Create", "Delete", "RemoveAll"})
        /\ \E i \in Id :
              /\ j.op # "RemoveAll" => i = j.id
              /\ Owned(j, i)
              /\ FinishedOnly => workload[i].phase # "active"
              /\ workload' = [workload EXCEPT ![i] = None]
        /\ (j.op # "Create" /\ Continue) \/ End(p, FALSE)

\* What else happens to workloads is none of the provider's doing.
Host(i) ==
    /\ Continue
    /\ workload[i] # None
    /\ \/ /\ workload[i].phase = "active"
          /\ workload' = [workload EXCEPT ![i].phase = "finished"]
       \/ /\ Restartable
          /\ workload' = [workload EXCEPT ![i].phase = "active"]
       \/ /\ Removable
          /\ workload' = [workload EXCEPT ![i] = None]

Init == /\ workload \in [Id -> Workload \cup {None}]
        /\ job = [p \in Proc |-> None]
        /\ answer \in [Proc -> BOOLEAN]

\* Most of the calls that a command is made of change nothing of this.
Next == \/ UNCHANGED vars
        \/ \E i \in Id : Host(i)
        \/ \E p \in Proc : Begin(p) \/ Refuse(p) \/ Answer(p)
        \/ \E p \in Proc : \/ Create(p) \/ Start(p) \/ Attest(p)
                           \/ Halt(p) \/ Retire(p)

Spec == Init /\ [][Next]_vars
=============================================================================
