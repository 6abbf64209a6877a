---------------------------- MODULE AppsPromise ----------------------------
(***************************************************************************)
(* What the Apps backend promises GARM, without a word about middleware    *)
(* calls, payloads, pools or lost replies: there is a table of workloads,  *)
(* and a command changes or attests it in single steps.  An error promises *)
(* nothing; "ok" promises that the command's aim held when it was said,    *)
(* and a workload is only ever removed by the controller that owns it, at  *)
(* capacity one only after it has finished.                                *)
(***************************************************************************)
CONSTANTS
    Proc, Controller, Name,
    FinishedOnly,   \* retirement waits for the runner to finish
    Restartable,    \* an operator may start a finished workload again
    Removable,      \* an operator may remove a workload
    None, NoController

VARIABLES
    workload,   \* by name: None, or who owns it and whether it has finished
    job,        \* the command each process serves, or None
    answer      \* whether the last answer of each process was "ok"

vars == <<workload, job, answer>>

Op == {"Create", "Get", "List", "Delete", "Start", "Stop", "RemoveAll"}
Workload == [owner : Controller \cup {NoController}, finished : BOOLEAN]
Job == [op : Op, controller : Controller, name : Name \cup {None}]

Owned(j, n) == workload[n] # None /\ workload[n].owner = j.controller

\* The aim of a command, as far as one look at the table can tell.
Achieved(j) ==
    /\ j.op \in {"Create", "Get", "Stop"} => Owned(j, j.name)
    /\ j.op = "Stop" => workload[j.name].finished
    /\ j.op = "Delete" => workload[j.name] = None
    /\ j.op # "Start"

Begin(p) == /\ job[p] = None /\ job'[p] \in Job
            /\ UNCHANGED <<workload, answer>>
            /\ job' = [job EXCEPT ![p] = job'[p]]

\* A command that is refused before anything is looked at.
Refuse(p) == /\ job[p] = None
             /\ UNCHANGED <<workload, job>>
             /\ answer' = [answer EXCEPT ![p] = FALSE]

End(p, ok) == /\ job' = [job EXCEPT ![p] = None]
              /\ answer' = [answer EXCEPT ![p] = ok]
Continue == UNCHANGED <<job, answer>>

Answer(p) == /\ job[p] # None
             /\ UNCHANGED workload
             /\ \E ok \in BOOLEAN : (ok => Achieved(job[p])) /\ End(p, ok)

\* Create puts a workload of its own where there was none.
Create(p) ==
    LET j == job[p]
    IN  /\ j # None /\ j.op = "Create"
        /\ workload[j.name] = None
        /\ workload' = [workload EXCEPT ![j.name] =
                          [owner |-> j.controller, finished |-> FALSE]]
        /\ Continue \/ End(p, FALSE)

\* Delete and RemoveAll retire workloads of their own, and say so or not.
Retire(p, n) ==
    LET j == job[p]
    IN  /\ j # None
        /\ j.op = "RemoveAll" \/ (j.op = "Delete" /\ j.name = n)
        /\ Owned(j, n)
        /\ FinishedOnly => workload[n].finished
        /\ workload' = [workload EXCEPT ![n] = None]
        /\ Continue \/ \E ok \in BOOLEAN : End(p, ok)

\* What else happens to workloads is none of the provider's doing.
Host(n) ==
    /\ Continue
    /\ \/ /\ workload[n] # None
          /\ \E f \in BOOLEAN :
                /\ f = FALSE /\ workload[n].finished => Restartable
                /\ workload' = [workload EXCEPT ![n].finished = f]
       \/ /\ workload[n] # None /\ Removable
          /\ workload' = [workload EXCEPT ![n] = None]
       \/ /\ workload[n] = None
          /\ workload' = [workload EXCEPT ![n] =
                            [owner |-> NoController, finished |-> FALSE]]

Init == /\ workload \in [Name -> Workload \cup {None}]
        /\ job = [p \in Proc |-> None]
        /\ answer \in [Proc -> BOOLEAN]

Next == \/ \E n \in Name : Host(n)
        \/ \E p \in Proc : Begin(p) \/ Refuse(p) \/ Answer(p) \/ Create(p)
        \/ \E p \in Proc, n \in Name : Retire(p, n)

Spec == Init /\ [][Next]_vars
=============================================================================
