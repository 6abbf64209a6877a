------------------------ MODULE AppsRefinementProofs ------------------------
(* Apps implements AppsPromise, for every number of processes,             *)
(* controllers, runners and names, proved with TLAPS: each step of a       *)
(* provider process or of the host is one step of AppsPromise or none.     *)
EXTENDS AppsAnswersProofs

\* What AppsPromise sees of the state.
workload == [n \in Name |-> WorkloadOf(n)]
job == [p \in Proc |-> JobOf(p)]
answer == [p \in Proc |-> reply[p].code = "ok"]

\* What the steps rely on.
Sound == TypeOK /\ Ownership /\ (CapacityOne => Activity)

LEMMA SoundHolds == Spec => []Sound
  <1>1. Init => Activity
    BY DEF Init, Activity, Exclusion, DoneTargets
  <1>2. Init => Sound
    BY <1>1, InitType, OwnershipInit DEF Sound
  <1>3. Sound /\ [Next]_vars => Sound'
    BY TypeStep, OwnershipStep, ActivityStep DEF Sound, CapacityOne
  <1> QED
    BY <1>2, <1>3, PTL DEF Spec

LEMMA WorkloadType ==
  ASSUME TypeOK, NEW n \in Name
  PROVE  /\ WorkloadOf(n) \in Promise!Workload \cup {None}
         /\ WorkloadOf(n) = None <=> apps[n] = None
         /\ apps[n] # None => /\ WorkloadOf(n).owner = apps[n].controller
                              /\ WorkloadOf(n).finished = (apps[n].state \in Inactive)
  <1>1. CASE apps[n] = None
    BY <1>1 DEF WorkloadOf
  <1>2. CASE apps[n] # None
    <2>1. apps[n] \in App
      BY <1>2 DEF TypeOK, Types
    <2>2. WorkloadOf(n) = [owner |-> apps[n].controller,
                           finished |-> apps[n].state \in Inactive]
      BY <1>2 DEF WorkloadOf
    <2>3. (apps[n].state \in Inactive) \in BOOLEAN
      OBVIOUS
    <2>4. WorkloadOf(n) \in [owner : Controller \cup {NoController},
                             finished : BOOLEAN]
      BY <2>1, <2>2, <2>3 DEF App
    <2>5. WorkloadOf(n) # None
      BY <2>4, NoneAssumption
    <2> QED
      BY <1>2, <2>2, <2>4, <2>5 DEF Promise!Workload
  <1> QED
    BY <1>1, <1>2

LEMMA JobType ==
  ASSUME TypeOK, NEW p \in Proc, pc[p] # "idle"
  PROVE  /\ JobOf(p) \in Promise!Job /\ JobOf(p) # None
         /\ JobOf(p).op = req[p].op /\ JobOf(p).name = req[p].name
         /\ JobOf(p).controller = req[p].controller
  <1>1. req[p] \in Request
    BY DEF TypeOK, Dispatched
  <1>2. JobOf(p) = [op |-> req[p].op, controller |-> req[p].controller,
                    name |-> req[p].name]
    BY DEF JobOf
  <1>3. JobOf(p) \in [op : Op, controller : Controller, name : Name \cup {None}]
    BY <1>1, <1>2 DEF Request
  <1>4. JobOf(p) # None
    BY <1>3, NoneAssumption
  <1>5. JobOf(p) \in Promise!Job
    BY <1>3 DEF Promise!Job, Promise!Op, Op
  <1> QED
    BY <1>2, <1>4, <1>5

LEMMA SameTable ==
  ASSUME UNCHANGED apps PROVE workload' = workload
  BY DEF workload, WorkloadOf

\* A process that answers, in the words of AppsPromise.
LEMMA ReturnEnds ==
  ASSUME TypeOK, NEW p \in Proc, NEW err, NEW names, Return(p, err, names)
  PROVE  /\ job' = [job EXCEPT ![p] = None]
         /\ answer' = [answer EXCEPT ![p] = (err = "ok")]
  <1>1. /\ pc'[p] = "idle"
        /\ reply'[p].code = "ok" <=> err = "ok"
    BY ReturnReply
  <1>2. ASSUME NEW q \in Proc, q # p
        PROVE  pc'[q] = pc[q] /\ req'[q] = req[q] /\ reply'[q] = reply[q]
    BY <1>2 DEF Return, TypeOK, Types
  <1>3. ASSUME NEW q \in Proc
        PROVE  JobOf(q)' = IF q = p THEN None ELSE JobOf(q)
    BY <1>1, <1>2 DEF JobOf
  <1>4. job' = [job EXCEPT ![p] = None]
    BY <1>3 DEF job
  <1>5. ASSUME NEW q \in Proc
        PROVE  (reply'[q].code = "ok") =
                  IF q = p THEN err = "ok" ELSE reply[q].code = "ok"
    BY <1>1, <1>2
  <1>6. answer' = [answer EXCEPT ![p] = (err = "ok")]
    BY <1>5 DEF answer
  <1> QED
    BY <1>4, <1>6

\* A process that goes on.
LEMMA GoesOn ==
  ASSUME TypeOK, NEW p \in Proc, pc[p] # "idle", pc'[p] # "idle",
         \A q \in Proc : q # p => pc'[q] = pc[q],
         UNCHANGED <<req, reply>>
  PROVE  job' = job /\ answer' = answer
  <1>1. \A q \in Proc : JobOf(q)' = JobOf(q)
    BY DEF JobOf
  <1> QED
    BY <1>1 DEF job, answer
-----------------------------------------------------------------------------
(* The steps of AppsPromise, each with what makes a step of Apps one.      *)

LEMMA IsBegin ==
  ASSUME TypeOK, NEW p \in Proc, NEW cmd, Invoke(p, cmd), TypeOK'
  PROVE  Promise!Begin(p)
  <1>1. /\ pc[p] = "idle" /\ pc'[p] # "idle"
        /\ \A q \in Proc : q # p => pc'[q] = pc[q] /\ req'[q] = req[q]
        /\ UNCHANGED <<apps, reply>>
    BY DEF Invoke, FirstCall, TypeOK, Types
  <1>2. JobOf(p) = None
    BY <1>1 DEF JobOf
  <1>3. JobOf(p)' \in Promise!Job
    <2>1. req'[p] \in Request
      BY <1>1 DEF TypeOK, Dispatched
    <2>2. JobOf(p)' = [op |-> req'[p].op, controller |-> req'[p].controller,
                       name |-> req'[p].name]
      BY <1>1 DEF JobOf
    <2> QED
      BY <2>1, <2>2 DEF Promise!Job, Promise!Op, Op, Request
  <1>4. \A q \in Proc : q # p => JobOf(q)' = JobOf(q)
    BY <1>1 DEF JobOf
  <1>5. workload' = workload /\ answer' = answer
    BY <1>1, SameTable DEF answer
  <1>6. job[p] = None /\ job'[p] \in Promise!Job
    BY <1>2, <1>3 DEF job
  <1>7. job' = [job EXCEPT ![p] = job'[p]]
    BY <1>4 DEF job
  <1> QED
    BY <1>5, <1>6, <1>7 DEF Promise!Begin, workload, job, answer

LEMMA IsRefuse ==
  ASSUME TypeOK, NEW p \in Proc, InvokeInvalidCreate(p)
  PROVE  Promise!Refuse(p)
  <1>1. pc[p] = "idle" /\ Return(p, "ErrUnsupported", {}) /\ UNCHANGED apps
    BY DEF InvokeInvalidCreate
  <1>2. job[p] = None
    BY <1>1 DEF job, JobOf
  <1>3. job' = [job EXCEPT ![p] = None]
    BY <1>1, ReturnEnds
  <1>4. job' = job
    BY <1>2, <1>3 DEF job
  <1>5. answer' = [answer EXCEPT ![p] = ("ErrUnsupported" = "ok")]
    BY <1>1, ReturnEnds
  <1>6. answer' = [answer EXCEPT ![p] = FALSE]
    BY <1>5
  <1>7. workload' = workload
    BY <1>1, SameTable
  <1> QED
    BY <1>2, <1>4, <1>6, <1>7 DEF Promise!Refuse, workload, job, answer

LEMMA IsAnswer ==
  ASSUME TypeOK, NEW p \in Proc, pc[p] # "idle", UNCHANGED apps,
         NEW err, NEW names, Return(p, err, names),
         err = "ok" => Promise!Achieved(JobOf(p))
  PROVE  Promise!Answer(p)
  <1>1. job[p] = JobOf(p) /\ job[p] # None
    BY JobType DEF job
  <1>2. workload' = workload
    BY SameTable
  <1>3. /\ job' = [job EXCEPT ![p] = None]
        /\ answer' = [answer EXCEPT ![p] = (err = "ok")]
    BY ReturnEnds
  <1>4. (err = "ok") \in BOOLEAN
    OBVIOUS
  <1>5. \E ok \in BOOLEAN : /\ ok => Promise!Achieved(job[p])
                            /\ job' = [job EXCEPT ![p] = None]
                            /\ answer' = [answer EXCEPT ![p] = ok]
    BY <1>1, <1>3, <1>4
  <1> QED
    BY <1>1, <1>2, <1>5 DEF Promise!Answer, Promise!End, workload, job, answer

LEMMA IsCreate ==
  ASSUME TypeOK, NEW p \in Proc, pc[p] = "create", apps[req[p].name] = None,
         apps' = [apps EXCEPT ![req[p].name] = NewApp(req[p])],
         Goto(p, "confirm") \/ Return(p, "error", {}), TypeOK'
  PROVE  Promise!Create(p)
  <1> DEFINE j == JobOf(p)
  <1>0. PICK n \in Name : n = req[p].name
    BY DEF TypeOK, Dispatched
  <1>1. /\ job[p] = j /\ j # None /\ j.op = "Create"
        /\ j.name = n /\ j.controller = req[p].controller
        /\ req[p] \in Request
    BY <1>0, JobType DEF job, TypeOK, Dispatched
  <1>2. workload[n] = None
    BY <1>0 DEF workload, WorkloadOf
  <1>3. WorkloadOf(n)' = [owner |-> req[p].controller, finished |-> FALSE]
    <2>1. NewApp(req[p]) \in App
      BY <1>1, NewAppType
    <2>2. apps'[n] = NewApp(req[p]) /\ apps'[n] # None
      BY <1>0, <2>1, NoneAssumption DEF TypeOK, Types
    <2>3. /\ apps'[n].controller = req[p].controller
          /\ apps'[n].state \notin Inactive
      BY <2>2 DEF NewApp, Inactive
    <2>4. WorkloadOf(n)' = [owner |-> apps'[n].controller,
                            finished |-> apps'[n].state \in Inactive]
      BY <2>2 DEF WorkloadOf
    <2>5. (apps'[n].state \in Inactive) = FALSE
      BY <2>3
    <2> QED
      BY <2>3, <2>4, <2>5
  <1>4. \A m \in Name : m # n => WorkloadOf(m)' = WorkloadOf(m)
    BY <1>0 DEF WorkloadOf, TypeOK, Types
  <1>5. workload' = [workload EXCEPT ![n] = [owner |-> req[p].controller,
                                             finished |-> FALSE]]
    BY <1>3, <1>4 DEF workload
  <1>6. \/ job' = job /\ answer' = answer
        \/ job' = [job EXCEPT ![p] = None] /\ answer' = [answer EXCEPT ![p] = FALSE]
    <2>1. CASE Goto(p, "confirm")
      <3>1. /\ pc'[p] # "idle" /\ \A q \in Proc : q # p => pc'[q] = pc[q]
            /\ UNCHANGED <<req, reply>>
        BY <2>1 DEF Goto, TypeOK, Types
      <3> QED
        BY <3>1, GoesOn
    <2>2. CASE Return(p, "error", {})
      <3>1. /\ job' = [job EXCEPT ![p] = None]
            /\ answer' = [answer EXCEPT ![p] = ("error" = "ok")]
        BY <2>2, ReturnEnds
      <3> QED
        BY <3>1
    <2> QED
      BY <2>1, <2>2
  <1> HIDE DEF j
  <1> QED
    BY <1>1, <1>2, <1>5, <1>6
       DEF Promise!Create, Promise!Continue, Promise!End, workload, job, answer

LEMMA IsRetire ==
  ASSUME TypeOK, NEW p \in Proc, pc[p] # "idle", NEW n \in Name,
         apps[n] # None, apps' = [apps EXCEPT ![n] = None],
         req[p].op = "RemoveAll" \/ (req[p].op = "Delete" /\ req[p].name = n),
         apps[n].controller = req[p].controller,
         CapacityOne => apps[n].state \in Inactive,
         \/ job' = job /\ answer' = answer
         \/ \E ok \in BOOLEAN : /\ job' = [job EXCEPT ![p] = None]
                                /\ answer' = [answer EXCEPT ![p] = ok]
  PROVE  Promise!Retire(p, n)
  <1> DEFINE j == JobOf(p)
  <1>1. /\ job[p] = j /\ j # None
        /\ j.op = "RemoveAll" \/ (j.op = "Delete" /\ j.name = n)
        /\ j.controller = req[p].controller
    BY JobType DEF job
  <1>2. /\ workload[n] # None /\ workload[n].owner = j.controller
        /\ CapacityOne => workload[n].finished
    BY <1>1, WorkloadType DEF workload
  <1>3. \A m \in Name : WorkloadOf(m)' = IF m = n THEN None ELSE WorkloadOf(m)
    BY DEF WorkloadOf, TypeOK, Types
  <1>4. workload' = [workload EXCEPT ![n] = None]
    BY <1>3 DEF workload
  <1> HIDE DEF j
  <1> QED
    BY <1>1, <1>2, <1>4 DEF Promise!Retire, Promise!Owned, Promise!Continue,
       Promise!End, workload, job, answer
LEMMA IsHost ==
  ASSUME TypeOK, NEW n \in Name,
         StateChanges(n) \/ OperatorDeletes(n) \/ TenantCreates(n), TypeOK'
  PROVE  Promise!Host(n)
  <1>0. job' = job /\ answer' = answer
    BY DEF StateChanges, OperatorDeletes, TenantCreates, job, JobOf, answer
  <1>a. apps \in [Name -> App \cup {None}]
    BY DEF TypeOK, Types
  <1>b. ASSUME NEW v, WorkloadOf(n)' = v,
               \A m \in Name : m # n => apps'[m] = apps[m]
        PROVE  workload' = [workload EXCEPT ![n] = v]
    <2>1. \A m \in Name : m # n => WorkloadOf(m)' = WorkloadOf(m)
      BY <1>b DEF WorkloadOf
    <2> QED
      BY <1>b, <2>1 DEF workload
  <1>1. CASE StateChanges(n)
    <2>1. PICK s \in RawState : apps' = [apps EXCEPT ![n].state = s]
      BY <1>1 DEF StateChanges
    <2>2. /\ apps[n] # None /\ apps[n] \in App
          /\ "start" \in HostEvents \/ apps[n].state \notin Inactive
      BY <1>1, <1>a DEF StateChanges
    <2>3. apps'[n] = [apps[n] EXCEPT !.state = s]
      BY <1>a, <2>1
    <2>4. apps'[n] \in App /\ apps'[n] # None
      BY <2>2, <2>3, NoneAssumption DEF App
    <2>5. PICK f \in BOOLEAN : f <=> s \in Inactive
      OBVIOUS
    <2>6. (apps'[n].state \in Inactive) = f
      BY <2>2, <2>3, <2>5 DEF App
    <2>7. WorkloadOf(n)' = [owner |-> apps[n].controller, finished |-> f]
      <3>1. WorkloadOf(n)' = [owner |-> apps'[n].controller,
                              finished |-> apps'[n].state \in Inactive]
        BY <2>4 DEF WorkloadOf
      <3>2. apps'[n].controller = apps[n].controller
        BY <2>2, <2>3 DEF App
      <3> QED
        BY <2>6, <3>1, <3>2
    <2>8. WorkloadOf(n) = [owner |-> apps[n].controller,
                           finished |-> apps[n].state \in Inactive]
      BY <2>2 DEF WorkloadOf
    <2>9. [WorkloadOf(n) EXCEPT !.finished = f]
             = [owner |-> apps[n].controller, finished |-> f]
      BY <2>8
    <2>10. workload' = [workload EXCEPT ![n].finished = f]
      <3>1. workload' = [workload EXCEPT ![n] = [WorkloadOf(n) EXCEPT !.finished = f]]
        BY <1>a, <1>b, <2>1, <2>7, <2>9
      <3>2. workload[n] = WorkloadOf(n)
        BY DEF workload
      <3> QED
        BY <3>1, <3>2
    <2>11. f = FALSE /\ workload[n].finished => "start" \in HostEvents
      BY <2>2, WorkloadType DEF workload
    <2>12. workload[n] # None
      BY <2>2, WorkloadType DEF workload
    <2> QED
      BY <1>0, <2>10, <2>11, <2>12
         DEF Promise!Host, Promise!Continue, workload, job, answer
  <1>2. CASE OperatorDeletes(n)
    <2>1. /\ apps[n] # None /\ "delete" \in HostEvents
          /\ apps' = [apps EXCEPT ![n] = None]
      BY <1>2 DEF OperatorDeletes
    <2>2. WorkloadOf(n)' = None
      BY <1>a, <2>1 DEF WorkloadOf
    <2>3. workload' = [workload EXCEPT ![n] = None]
      BY <1>a, <1>b, <2>1, <2>2
    <2>4. workload[n] # None
      BY <2>1, WorkloadType DEF workload
    <2> QED
      BY <1>0, <2>1, <2>3, <2>4
         DEF Promise!Host, Promise!Continue, workload, job, answer
  <1>3. CASE TenantCreates(n)
    <2>1. apps[n] = None /\ apps' = [apps EXCEPT ![n] = TenantApp]
      BY <1>3 DEF TenantCreates
    <2>2. apps'[n] = TenantApp /\ TenantApp # None
      <3>1. TenantApp \in App
        BY ConfigAssumption DEF TenantApp, App, Profile
      <3> QED
        BY <1>a, <2>1, <3>1, NoneAssumption
    <2>3. WorkloadOf(n)' = [owner |-> NoController, finished |-> FALSE]
      <3>1. WorkloadOf(n)' = [owner |-> apps'[n].controller,
                              finished |-> apps'[n].state \in Inactive]
        BY <2>2 DEF WorkloadOf
      <3>2. apps'[n].controller = NoController
            /\ (apps'[n].state \in Inactive) = FALSE
        BY <2>2 DEF TenantApp, Inactive
      <3> QED
        BY <3>1, <3>2
    <2>4. workload' = [workload EXCEPT ![n] = [owner |-> NoController,
                                               finished |-> FALSE]]
      BY <1>a, <1>b, <2>1, <2>3
    <2>5. workload[n] = None
      BY <2>1 DEF workload, WorkloadOf
    <2> QED
      BY <1>0, <2>4, <2>5
         DEF Promise!Host, Promise!Continue, workload, job, answer
  <1> QED
    BY <1>1, <1>2, <1>3
LEMMA EditUnseen ==
  ASSUME TypeOK, NEW n \in Name, OperatorEdits(n)
  PROVE  workload' = workload /\ job' = job /\ answer' = answer
  <1>1. job' = job /\ answer' = answer
    BY DEF OperatorEdits, job, JobOf, answer
  <1>2. apps \in [Name -> App \cup {None}]
    BY DEF TypeOK, Types
  <1>3. PICK f \in Profile, pool \in Pool \cup {AnyPool} :
           \/ apps' = [apps EXCEPT ![n].profile = f]
           \/ apps' = [apps EXCEPT ![n].pool = pool]
    BY DEF OperatorEdits, Profile
  <1>4. apps[n] # None /\ apps[n] \in App
    BY <1>2 DEF OperatorEdits
  <1>5. \/ apps'[n] = [apps[n] EXCEPT !.profile = f]
        \/ apps'[n] = [apps[n] EXCEPT !.pool = pool]
    BY <1>2, <1>3
  <1>6. apps'[n] \in App /\ apps'[n] # None
    BY <1>4, <1>5, NoneAssumption DEF App
  <1>7. apps'[n].controller = apps[n].controller /\ apps'[n].state = apps[n].state
    BY <1>4, <1>5 DEF App
  <1>8. \A m \in Name : m # n => apps'[m] = apps[m]
    BY <1>2, <1>3
  <1>9. \A m \in Name : WorkloadOf(m)' = WorkloadOf(m)
    BY <1>4, <1>6, <1>7, <1>8 DEF WorkloadOf
  <1> QED
    BY <1>1, <1>9 DEF workload
-----------------------------------------------------------------------------
(* The steps of a provider process.                                        *)

\* One step of a process as AppsPromise may see it.
Promised(p) == \/ Promise!Answer(p) \/ Promise!Create(p)
               \/ \E n \in Name : Promise!Retire(p, n)
               \/ workload' = workload /\ job' = job /\ answer' = answer

\* An app that is there and the process's own achieves what a command of one
\* app is for, once Stop has also seen it stopped.
LEMMA OwnAchieves ==
  ASSUME TypeOK, NEW p \in Proc, pc[p] # "idle",
         req[p].op \in {"Create", "Get", "Stop"}, req[p].name \in Name,
         NEW pool \in Pool \cup {AnyPool},
         GetOwned(req[p].name, req[p].controller, pool) = "ok",
         req[p].op = "Stop" =>
            mapState(apps[req[p].name].state) = "STOPPED"
  PROVE  Promise!Achieved(JobOf(p))
  <1> DEFINE n == req[p].name
             j == JobOf(p)
  <1>1. j.op = req[p].op /\ j.name = n /\ j.controller = req[p].controller
    BY JobType
  <1>2. req[p].controller \in Controller
    BY DEF TypeOK, Dispatched, Request
  <1>3. apps[n] # None /\ apps[n].controller = req[p].controller
    BY <1>2, GetOwnedOk
  <1>4. workload[n] # None /\ workload[n].owner = req[p].controller
        /\ workload[n].finished = (apps[n].state \in Inactive)
    BY <1>3, WorkloadType DEF workload
  <1>5. req[p].op = "Stop" => workload[n].finished
    <2>1. apps[n].state \in RawState
      BY <1>3 DEF TypeOK, Types, App
    <2>2. req[p].op = "Stop" => ~isActive(mapState(apps[n].state))
      BY DEF isActive
    <2>3. req[p].op = "Stop" => apps[n].state \in Inactive
      BY <2>1, <2>2, MapStateType
    <2> QED
      BY <1>4, <2>3
  <1> HIDE DEF n, j
  <1> QED
    BY <1>1, <1>4, <1>5 DEF Promise!Achieved, Promise!Owned, workload, n, j

\* A list or sweep promises no more than that it answers.
LEMMA ListedPromised ==
  ASSUME TypeOK, NEW p \in Proc, NEW L, pc[p] \in {"list", "fetch"},
         UNCHANGED apps, Listed(p, req[p], L)
  PROVE  Promised(p)
  <1>1. CASE \E err, names : Return(p, err, names)
    <2>1. JobOf(p).op \in {"List", "RemoveAll"}
      BY JobType DEF TypeOK, Dispatched
    <2>2. Promise!Achieved(JobOf(p))
      BY <2>1 DEF Promise!Achieved
    <2> QED
      BY <1>1, <2>2, IsAnswer DEF Promised
  <1>2. CASE ~\E err, names : Return(p, err, names)
    <2>1. pc' = [pc EXCEPT ![p] = "remove"] /\ UNCHANGED <<req, reply>>
      BY <1>2 DEF Listed
    <2>2. pc'[p] # "idle" /\ \A q \in Proc : q # p => pc'[q] = pc[q]
      BY <2>1 DEF TypeOK, Types
    <2> QED
      BY <2>1, <2>2, GoesOn, SameTable DEF Promised
  <1> QED
    BY <1>1, <1>2

LEMMA ProviderPromised ==
  ASSUME Sound, NEW p \in Proc, Provider(p) \/ FailCall(p), TypeOK'
  PROVE  Promised(p)
  <1> DEFINE r == req[p]
  <1>0. TypeOK /\ OwnTargets(p) /\ (CapacityOne => DoneTargets(p))
    BY DEF Sound, Ownership, Activity
  <1>a. pc[p] # "idle"
    BY DEF Provider, FailCall, CreateLooksUp, CreateApp, CreateConfirms, Get,
       Stop, Start, DeleteChecks, DeleteApp, ListApps, FetchApp, RemoveApp
  <1>b. /\ r \in Request /\ r.controller \in Controller
        /\ r.pool \in Pool \cup {AnyPool}
    BY <1>0, <1>a DEF TypeOK, Dispatched, Request
  <1>c. ASSUME NEW err, NEW names, Return(p, err, names), err # "ok",
               UNCHANGED apps
        PROVE  Promised(p)
    BY <1>0, <1>a, <1>c, IsAnswer DEF Promised
  <1>d. ASSUME NEW next \in {"create", "confirm", "delete"}, Goto(p, next),
               UNCHANGED apps
        PROVE  Promised(p)
    <2>1. /\ pc'[p] # "idle" /\ \A q \in Proc : q # p => pc'[q] = pc[q]
          /\ UNCHANGED <<req, reply>>
      BY <1>0, <1>d DEF Goto, TypeOK, Types
    <2> QED
      BY <1>0, <1>a, <1>d, <2>1, GoesOn, SameTable DEF Promised
  <1>1. CASE CreateLooksUp(p) \/ CreateConfirms(p)
    <2> DEFINE err == GetOwned(r.name, r.controller, r.pool)
    <2>1. r.op = "Create" /\ r.name \in Name /\ UNCHANGED apps
      BY <1>0, <1>1 DEF CreateLooksUp, CreateConfirms, TypeOK, Dispatched
    <2>2. CASE Goto(p, "create")
      BY <1>d, <2>1, <2>2
    <2>3. CASE \E names : Return(p, err, names)
      <3>1. err = "ok" => Promise!Achieved(JobOf(p))
        BY <1>0, <1>a, <1>b, <2>1, OwnAchieves
      <3> HIDE DEF err
      <3> QED
        BY <1>0, <1>a, <2>1, <2>3, <3>1, IsAnswer DEF Promised
    <2> QED
      BY <1>1, <2>2, <2>3 DEF CreateLooksUp, CreateConfirms
  <1>2. CASE CreateApp(p)
    <2>1. \/ UNCHANGED apps /\ \E err : err # "ok" /\ Return(p, err, {})
          \/ /\ pc[p] = "create" /\ apps[r.name] = None
             /\ apps' = [apps EXCEPT ![r.name] = NewApp(r)]
             /\ Goto(p, "confirm") \/ Return(p, "error", {})
      BY <1>2 DEF CreateApp
    <2> QED
      BY <1>0, <1>c, <2>1, IsCreate DEF Promised
  <1>3. CASE Get(p)
    <2> DEFINE err == GetOwned(r.name, r.controller, AnyPool)
    <2>1. r.op = "Get" /\ r.name \in Name /\ UNCHANGED apps
          /\ \E names : Return(p, err, names)
      BY <1>0, <1>3 DEF Get, TypeOK, Dispatched
    <2>2. err = "ok" => Promise!Achieved(JobOf(p))
      BY <1>0, <1>a, <1>b, <2>1, OwnAchieves
    <2> HIDE DEF err
    <2> QED
      BY <1>0, <1>a, <2>1, <2>2, IsAnswer DEF Promised
  <1>4. CASE Stop(p)
    <2> DEFINE err == GetOwned(r.name, r.controller, AnyPool)
               ans == CASE err # "ok" -> err
                        [] err = "ok" /\ mapState(apps[r.name].state) = "STOPPED"
                              -> "ok"
                        [] OTHER -> "ErrUnsafeOperation"
    <2>1. r.op = "Stop" /\ r.name \in Name /\ UNCHANGED apps
          /\ Return(p, ans, {})
      BY <1>0, <1>4 DEF Stop, TypeOK, Dispatched
    <2>2. ans = "ok" => err = "ok" /\ mapState(apps[r.name].state) = "STOPPED"
      <3> HIDE DEF err
      <3> QED
        OBVIOUS
    <2>3. ans = "ok" => Promise!Achieved(JobOf(p))
      <3>1. ASSUME err = "ok", mapState(apps[r.name].state) = "STOPPED"
            PROVE  Promise!Achieved(JobOf(p))
        BY <1>0, <1>a, <1>b, <2>1, <3>1, OwnAchieves
      <3> HIDE DEF err, ans
      <3> QED
        BY <2>2, <3>1
    <2> HIDE DEF ans
    <2> QED
      BY <1>0, <1>a, <2>1, <2>3, IsAnswer DEF Promised
  <1>5. CASE Start(p) \/ FailCall(p)
    <2>1. UNCHANGED apps /\ \E err : err # "ok" /\ Return(p, err, {})
      BY <1>5 DEF Start, FailCall
    <2> QED
      BY <1>c, <2>1
  <1>6. CASE DeleteChecks(p)
    <2> DEFINE err == GetOwned(r.name, r.controller, AnyPool)
    <2>1. r.op = "Delete" /\ r.name \in Name /\ UNCHANGED apps
      BY <1>0, <1>6 DEF DeleteChecks, TypeOK, Dispatched
    <2>2. \/ err = "ErrNotFound" /\ Return(p, "ok", {})
          \/ \E e : e # "ok" /\ Return(p, e, {})
          \/ Goto(p, "delete")
      BY <1>6 DEF DeleteChecks
    <2>3. ASSUME err = "ErrNotFound", Return(p, "ok", {}) PROVE Promised(p)
      <3>1. apps[r.name] = None
        BY <2>3 DEF GetOwned, GetApp, decodeApp, verifyOwnership
      <3>2. workload[r.name] = None
        BY <2>1, <3>1 DEF workload, WorkloadOf
      <3>3. JobOf(p).op = "Delete" /\ JobOf(p).name = r.name
        BY <1>0, <1>a, <2>1, JobType
      <3>4. Promise!Achieved(JobOf(p))
        BY <3>2, <3>3 DEF Promise!Achieved, workload
      <3> QED
        BY <1>0, <1>a, <2>1, <2>3, <3>4, IsAnswer DEF Promised
    <2> QED
      <3> HIDE DEF err
      <3> QED
        BY <1>c, <1>d, <2>1, <2>2, <2>3
  <1>7. CASE DeleteApp(p) \/ RemoveApp(p)
    <2> DEFINE m == IF pc[p] = "delete" THEN r.name ELSE Min(todo[p])
    <2>1. /\ apps' = [apps EXCEPT ![m] = None] /\ m \in Name
          /\ OwnedTarget(p, m) /\ (CapacityOne => Finished(m))
          /\ r.op = "RemoveAll" \/ (r.op = "Delete" /\ r.name = m)
      <3>1. CASE DeleteApp(p)
        BY <1>0, <3>1 DEF DeleteApp, Destroy, OwnTargets, DoneTargets, TypeOK,
           Dispatched
      <3>2. CASE RemoveApp(p)
        <4>1. /\ pc[p] = "remove" /\ r.op = "RemoveAll"
              /\ todo[p] # {} /\ todo[p] \in SUBSET Name
          BY <1>0, <3>2 DEF RemoveApp, TypeOK, Types, Dispatched
        <4>2. Min(todo[p]) \in todo[p]
          BY <4>1, MinIn, NamesAssumption
        <4> QED
          BY <1>0, <3>2, <4>1, <4>2 DEF RemoveApp, Destroy, OwnTargets, DoneTargets
      <3> QED
        BY <1>7, <3>1, <3>2
    <2>2. \/ apps[m] # None /\ UNCHANGED <<pc, req, out, reply>>
          \/ apps[m] # None /\ \E err : Return(p, err, {})
          \/ Return(p, "error", {})
      BY <1>7 DEF DeleteApp, RemoveApp
    <2>3. CASE apps[m] = None
      <3>1. UNCHANGED apps
        BY <1>0, <2>1, <2>3 DEF TypeOK, Types
      <3> QED
        BY <1>c, <2>2, <2>3, <3>1
    <2>4. CASE apps[m] # None
      <3>1. \/ job' = job /\ answer' = answer
            \/ \E ok \in BOOLEAN : /\ job' = [job EXCEPT ![p] = None]
                                   /\ answer' = [answer EXCEPT ![p] = ok]
        <4>1. CASE UNCHANGED <<pc, req, out, reply>>
          BY <1>0, <1>a, <4>1, GoesOn
        <4>2. ASSUME NEW err, Return(p, err, {})
              PROVE  \E ok \in BOOLEAN : /\ job' = [job EXCEPT ![p] = None]
                                         /\ answer' = [answer EXCEPT ![p] = ok]
          <5>1. (err = "ok") \in BOOLEAN
            OBVIOUS
          <5> QED
            BY <1>0, <4>2, <5>1, ReturnEnds
        <4> QED
          BY <2>2, <4>1, <4>2
      <3>2. /\ apps[m].controller = r.controller
            /\ CapacityOne => apps[m].state \in Inactive
        BY <2>1, <2>4 DEF OwnedTarget, Finished
      <3> HIDE DEF m
      <3>3. Promise!Retire(p, m)
        BY <1>0, <1>a, <2>1, <2>4, <3>1, <3>2, IsRetire
      <3> QED
        BY <2>1, <3>3 DEF Promised
    <2> QED
      BY <2>3, <2>4
  <1>8. CASE ListApps(p)
    <2>1. pc[p] = "list" /\ UNCHANGED apps
      BY <1>8 DEF ListApps
    <2>2. CASE Present \cap Plausible = {}
      BY <1>0, <1>8, <2>1, <2>2, ListedPromised DEF ListApps
    <2>3. CASE Present \cap Plausible # {}
      <3>1. pc' = [pc EXCEPT ![p] = "fetch"] /\ UNCHANGED <<req, reply>>
        BY <1>8, <2>3 DEF ListApps
      <3>2. pc'[p] # "idle" /\ \A q \in Proc : q # p => pc'[q] = pc[q]
        BY <1>0, <3>1 DEF TypeOK, Types
      <3> QED
        BY <1>0, <1>a, <2>1, <3>1, <3>2, GoesOn, SameTable DEF Promised
    <2> QED
      BY <2>2, <2>3
  <1>9. CASE FetchApp(p)
    <2>1. pc[p] = "fetch" /\ UNCHANGED apps
      BY <1>9 DEF FetchApp
    <2>2. \/ \E err : err # "ok" /\ Return(p, err, {})
          \/ \E L : Listed(p, r, L)
          \/ UNCHANGED <<pc, req, reply>>
      BY <1>9 DEF FetchApp
    <2>3. ASSUME UNCHANGED <<pc, req, reply>> PROVE Promised(p)
      BY <1>0, <1>a, <2>1, <2>3, GoesOn, SameTable DEF Promised
    <2> QED
      BY <1>0, <1>c, <2>1, <2>2, <2>3, ListedPromised
  <1> QED
    BY <1>1, <1>2, <1>3, <1>4, <1>5, <1>6, <1>7, <1>8, <1>9 DEF Provider
-----------------------------------------------------------------------------
LEMMA PromiseInit == Init => Promise!Init
  <1> SUFFICES ASSUME Init PROVE Promise!Init
    OBVIOUS
  <1>1. TypeOK
    BY InitType
  <1>2. \A n \in Name : WorkloadOf(n) \in Promise!Workload \cup {None}
    BY <1>1, WorkloadType
  <1>3. \A p \in Proc : JobOf(p) = None
    BY DEF Init, JobOf
  <1>4. workload \in [Name -> Promise!Workload \cup {None}]
    BY <1>2 DEF workload
  <1>5. job = [p \in Proc |-> None]
    BY <1>3 DEF job
  <1>6. answer \in [Proc -> BOOLEAN]
    BY DEF answer
  <1> QED
    BY <1>4, <1>5, <1>6 DEF Promise!Init, workload, job, answer

LEMMA PromiseStep ==
  Sound /\ [Next]_vars => [Promise!Next]_(Promise!vars)
  <1> SUFFICES ASSUME Sound, [Next]_vars PROVE [Promise!Next]_(Promise!vars)
    OBVIOUS
  <1>0. TypeOK /\ TypeOK'
    BY TypeStep DEF Sound
  <1>a. ASSUME workload' = workload, job' = job, answer' = answer
        PROVE  UNCHANGED Promise!vars
    BY <1>a DEF Promise!vars, workload, job, answer
  <1>1. CASE UNCHANGED vars
    BY <1>1, <1>a DEF vars, workload, WorkloadOf, job, JobOf, answer
  <1>2. ASSUME NEW p \in Proc, Garm(p) PROVE Promise!Next
    <2>1. CASE InvokeInvalidCreate(p)
      BY <1>0, <2>1, IsRefuse DEF Promise!Next
    <2>2. ASSUME NEW cmd, Invoke(p, cmd) PROVE Promise!Next
      BY <1>0, <2>2, IsBegin DEF Promise!Next
    <2> QED
      BY <1>2, <2>1, <2>2, GarmInvokes
  <1>3. ASSUME NEW p \in Proc, Provider(p) \/ FailCall(p)
        PROVE  Promise!Next \/ UNCHANGED Promise!vars
    BY <1>0, <1>3, <1>a, ProviderPromised DEF Promised, Promise!Next
  <1>4. ASSUME NEW n \in Name, OperatorEdits(n) PROVE UNCHANGED Promise!vars
    BY <1>0, <1>4, <1>a, EditUnseen
  <1>5. ASSUME NEW n \in Name,
               StateChanges(n) \/ OperatorDeletes(n) \/ TenantCreates(n)
        PROVE  Promise!Next
    BY <1>0, <1>5, IsHost DEF Promise!Next
  <1> QED
    BY <1>1, <1>2, <1>3, <1>4, <1>5 DEF Next, Host

\* Whatever middleware calls a command is made of, whoever acts between them
\* and however many processes, controllers and names there are, GARM and the
\* host see the single steps of AppsPromise: an app is made, retired and
\* attested as if at once, and "ok" is never said in vain.
THEOREM Implements == Spec => KeepsPromise
  BY PromiseInit, PromiseStep, SoundHolds, PTL
     DEF Spec, KeepsPromise, Promise!Spec
=============================================================================
