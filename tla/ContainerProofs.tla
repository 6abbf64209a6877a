--------------------------- MODULE ContainerProofs ---------------------------
(* What holds of ContainerBackend for every number of processes,           *)
(* controllers and commands, proved with TLAPS.                            *)
EXTENDS ContainerBackend, TLAPS

\* What process p knows of the command it serves, next to Dispatched(p).
Local(p) ==
    /\ Dispatched(p)
    /\ cur[p] <= calls + 1
    /\ pc[p] # "idle" => req[p].id \in 1..calls
    /\ pc[p] \in {"lookup", "create"} => req[p].op = "Create"
    /\ pc[p] = "find" => /\ req[p].op \in {"Get", "Stop", "Delete", "RemoveAll"}
                         /\ req[p].op = "RemoveAll" => cur[p] \in Id
    /\ pc[p] = "sweep" => req[p].op \in {"Delete", "RemoveAll"}
    /\ pc[p] \in Bootstrapping \cup Cleaning => cur[p] = req[p].id + 1

\* The container a Create is about to make is nobody's yet.
Unmade(p) ==
    pc[p] \in {"lookup", "create"} =>
       /\ ~Exists(req[p].id + 1)
       /\ \A q \in Proc : cur[q] # req[p].id + 1

\* Process p is at one of these calls, and the container it is for exists.
At(p, calling) == pc[p] \in calling /\ Exists(cur[p])

\* The container a process changes is its controller's own.
Mine(p) ==
    At(p, Harmful \cup Bootstrapping \cup Cleaning) =>
       cts[cur[p]].controller = req[p].controller

\* How far the container is, at each call: not scrubbed before it was started,
\* scrubbed once that was read back; stopped when it is about to be deleted.
Progress(p) ==
    /\ At(p, {"stage", "readback", "start"}) => ~cts[cur[p]].steady
    /\ At(p, {"scrub", "confirm", "token"}) => cts[cur[p]].started
    /\ At(p, {"token", "destroy"}) => cts[cur[p]].steady
    /\ At(p, {"destroy", "remove"}) => cts[cur[p]].state = "STOPPED"

\* Commands are numbered apart, and no container is ahead of its command.
Numbered ==
    /\ calls <= MaxCalls
    /\ \A i \in Id : i > calls + 1 => ~Exists(i)
    /\ \A p, q \in Proc :
          pc[p] # "idle" /\ pc[q] # "idle" /\ p # q => req[p].id # req[q].id

IInv == /\ Types /\ Numbered /\ SteadyWasStarted
        /\ \A p \in Proc : Local(p) /\ Unmade(p) /\ Mine(p) /\ Progress(p)
-----------------------------------------------------------------------------
(* Steps of a process in general.                                          *)

\* What one step of process p can make of container i: nothing that the others
\* rely on changes but for what p's own next call is for.
Kept(i) == /\ Exists(i)
           /\ cts'[i].controller = cts[i].controller
           /\ cts[i].started => cts'[i].started
           /\ cts[i].steady => cts'[i].steady
ChangedBy(p, i) ==
    \/ cts'[i] = None
    \/ /\ pc[p] = "create" /\ i = req[p].id + 1
       /\ cts'[i] = Created(req[p])
    \/ /\ Kept(i)
       /\ cts'[i].steady => cts[i].steady \/ (pc[p] = "scrub" /\ i = cur[p])
       /\ cts[i].state = "STOPPED" =>
             cts'[i].state = "STOPPED" \/ (pc[p] = "start" /\ i = cur[p])

LocalTypes ==
    /\ pc \in [Proc -> PC]
    /\ req \in [Proc -> Request \cup {NoRequest}]
    /\ cur \in [Proc -> Id \cup {0}]
    /\ todo \in [Proc -> SUBSET Id]
    /\ err \in [Proc -> ErrClass]
    /\ reply \in [Proc -> ErrClass]

\* A step that concerns p alone and takes up only a container that exists or
\* that p makes.
LocalStep(p) ==
    /\ LocalTypes'
    /\ \A q \in Proc \ {p} :
          pc'[q] = pc[q] /\ req'[q] = req[q] /\ cur'[q] = cur[q]
    /\ pc'[p] = "idle" \/ req'[p] = req[p]
    /\ \/ cur'[p] \in {0, cur[p]}
       \/ cur'[p] \in Id /\ Exists(cur'[p])
       \/ pc[p] = "create" /\ cur'[p] = req[p].id + 1

LEMMA ReturnStep ==
  ASSUME IInv, NEW p \in Proc, NEW e \in ErrClass, Return(p, e), calls' = calls
  PROVE  /\ LocalStep(p)
         /\ pc'[p] = "idle" /\ reply'[p] = e
         /\ Local(p)' /\ Unmade(p)' /\ Mine(p)' /\ Progress(p)'
  <1>1. LocalTypes'
    BY DEF IInv, Types, LocalTypes, Return, PC, ErrClass
  <1>2. pc'[p] = "idle" /\ cur'[p] = 0 /\ reply'[p] = e
    BY DEF IInv, Types, Return
  <1>3. \A q \in Proc \ {p} :
           pc'[q] = pc[q] /\ req'[q] = req[q] /\ cur'[q] = cur[q]
    BY DEF IInv, Types, Return
  <1>4. Local(p)'
    BY <1>2 DEF IInv, Types, Local, Dispatched, Bootstrapping, Cleaning
  <1>5. Unmade(p)' /\ Mine(p)' /\ Progress(p)'
    BY <1>2 DEF Unmade, Mine, Progress, At, Harmful, Bootstrapping, Cleaning
  <1> QED
    BY <1>1, <1>2, <1>3, <1>4, <1>5 DEF LocalStep

\* From one call to the next, with the same command.
LEMMA GotoStep ==
  ASSUME IInv, NEW p \in Proc, NEW next \in PC, NEW i \in Id \cup {0},
         Goto(p, next, i),
         \/ i \in {0, cur[p]}
         \/ i \in Id /\ Exists(i)
         \/ pc[p] = "create" /\ i = req[p].id + 1
  PROVE  /\ LocalStep(p)
         /\ pc'[p] = next /\ cur'[p] = i /\ UNCHANGED <<req, err>>
  BY DEF IInv, Types, LocalTypes, Goto, LocalStep

LEMMA GiveUpStep ==
  ASSUME IInv, NEW p \in Proc, NEW e \in ErrClass, GiveUp(p, e)
  PROVE  /\ LocalStep(p)
         /\ pc'[p] = "cleanup" /\ cur'[p] = cur[p] /\ UNCHANGED req
  BY DEF IInv, Types, LocalTypes, GiveUp, LocalStep, PC, Cleaning

\* The others keep what they know.
LEMMA OthersKeep ==
  ASSUME IInv, NEW p \in Proc, NEW q \in Proc \ {p}, LocalStep(p), calls' = calls,
         pc[p] # "idle", \A i \in Id : ChangedBy(p, i)
  PROVE  Local(q)' /\ Unmade(q)' /\ Mine(q)' /\ Progress(q)'
  <1>1. pc'[q] = pc[q] /\ req'[q] = req[q] /\ cur'[q] = cur[q]
    BY DEF LocalStep
  <1>2. Local(q) /\ Unmade(q) /\ Mine(q) /\ Progress(q)
    BY DEF IInv
  <1>3. Local(p) /\ Unmade(p) /\ Mine(p) /\ Progress(p)
    BY DEF IInv
  <1>t. /\ req \in [Proc -> Request \cup {NoRequest}] /\ cur \in [Proc -> Id \cup {0}]
        /\ calls \in Nat /\ calls <= MaxCalls
    BY DEF IInv, Types, Numbered
  <1>4. Local(q)'
    BY <1>1, <1>2 DEF Local, Dispatched
  <1>5. pc[q] # "idle" => req[q].id # req[p].id
    BY DEF IInv, Numbered
  <1>6. ASSUME pc[q] # "idle" PROVE req[q].id + 1 \in Id
    BY <1>2, <1>6, <1>t, ContainerConfigAssumption DEF Local, Id
  <1>7. ASSUME pc[q] \in {"lookup", "create"}
        PROVE  /\ cts'[req[q].id + 1] = None
               /\ \A r \in Proc : cur'[r] # req[q].id + 1
    <2>1. /\ ~Exists(req[q].id + 1) /\ \A r \in Proc : cur[r] # req[q].id + 1
          /\ req[q].id + 1 \in Id /\ req[q].id \in Nat
      BY <1>2, <1>6, <1>7 DEF Local, Unmade
    <2>2. req[p].id + 1 # req[q].id + 1
      BY <1>2, <1>3, <1>5, <1>7 DEF Local
    <2>a. ChangedBy(p, req[q].id + 1)
      BY <2>1
    <2>3. cts'[req[q].id + 1] = None
      BY <2>a, <2>1, <2>2 DEF ChangedBy, Kept
    <2>4. cur'[p] # req[q].id + 1
      BY <2>1, <2>2 DEF LocalStep
    <2>5. \A r \in Proc \ {p} : cur'[r] # req[q].id + 1
      BY <2>1 DEF LocalStep
    <2> QED
      BY <2>3, <2>4, <2>5
  <1>8. Unmade(q)'
    BY <1>1, <1>7 DEF Unmade, Exists
  <1>9. ASSUME cur[q] \in Id, cts'[cur[q]] # None
        PROVE  /\ Kept(cur[q])
               /\ cts'[cur[q]].steady =>
                     \/ cts[cur[q]].steady
                     \/ pc[p] = "scrub" /\ cur[q] = cur[p]
               /\ cts[cur[q]].state = "STOPPED" =>
                     \/ cts'[cur[q]].state = "STOPPED"
                     \/ pc[p] = "start" /\ cur[q] = cur[p]
    <2>1. ~(pc[p] = "create" /\ cur[q] = req[p].id + 1)
      BY <1>3 DEF Unmade
    <2>2. ChangedBy(p, cur[q])
      BY <1>9
    <2> QED
      BY <1>9, <2>1, <2>2 DEF ChangedBy
  <1>10. pc[q] \in Harmful \cup Bootstrapping \cup Cleaning => cur[q] \in Id
    BY <1>2 DEF Local, Dispatched, Harmful, Bootstrapping, Cleaning
  <1>11. Mine(q)'
    BY <1>1, <1>2, <1>9, <1>10 DEF Mine, At, Exists, Kept
  <1>12. ASSUME pc[p] \in Bootstrapping, pc[q] \in Bootstrapping \cup Cleaning
         PROVE  cur[p] # cur[q]
    BY <1>2, <1>3, <1>5, <1>12, <1>t DEF Local, Bootstrapping, Cleaning
  <1>13. Progress(q)'
    <2>1. CASE At(q, {"stage", "readback", "start"})'
      BY <1>1, <1>2, <1>9, <1>10, <1>12, <2>1
         DEF Progress, At, Exists, Kept, Bootstrapping
    <2>2. CASE At(q, {"scrub", "confirm", "token"})'
      BY <1>1, <1>2, <1>9, <1>10, <2>2 DEF Progress, At, Exists, Kept,
         Bootstrapping
    <2>3. CASE At(q, {"destroy"})'
      <3>1. pc[p] = "start" => cur[q] # cur[p]
        BY <1>1, <1>2, <1>3, <1>9, <1>10, <2>3 DEF Progress, At, Exists, Kept,
           Harmful
      <3> QED
        BY <1>1, <1>2, <1>9, <1>10, <2>3, <3>1 DEF Progress, At, Exists, Kept,
           Harmful
    <2>4. CASE At(q, {"remove"})'
      BY <1>1, <1>2, <1>9, <1>10, <1>12, <2>4
         DEF Progress, At, Exists, Kept, Harmful, Bootstrapping, Cleaning
    <2> QED
      BY <2>1, <2>2, <2>3, <2>4 DEF Progress, At
  <1> QED
    BY <1>4, <1>8, <1>11, <1>13

\* A step of p keeps the invariant if it does what p may do and leaves p with
\* what it must know at its next call.
LEMMA StepKeeps ==
  ASSUME IInv, NEW p \in Proc, LocalStep(p), calls' = calls, pc[p] # "idle",
         cts' \in [Id -> Container \cup {None}],
         \A i \in Id : ChangedBy(p, i),
         Local(p)', Unmade(p)', Mine(p)', Progress(p)'
  PROVE  IInv'
  <1>1. Types'
    BY DEF IInv, Types, LocalStep, LocalTypes
  <1>2. \A q \in Proc : Local(q)' /\ Unmade(q)' /\ Mine(q)' /\ Progress(q)'
    BY OthersKeep
  <1>3. Local(p) /\ Progress(p) /\ SteadyWasStarted
    BY DEF IInv
  <1>4. Numbered'
    <2>1. ASSUME NEW i \in Id, i > calls + 1 PROVE cts'[i] = None
      <3>1. ~Exists(i) /\ i # req[p].id + 1
        BY <1>3, <2>1 DEF IInv, Types, Numbered, Local
      <3> QED
        BY <3>1 DEF ChangedBy, Kept
    <2>2. ASSUME NEW q \in Proc, NEW r \in Proc, q # r,
                 pc'[q] # "idle", pc'[r] # "idle"
          PROVE  req'[q].id # req'[r].id
      BY <2>2 DEF IInv, Numbered, LocalStep
    <2> QED
      BY <2>1, <2>2 DEF IInv, Numbered, Exists
  <1>5. SteadyWasStarted'
    <2>1. ASSUME NEW i \in Id, cts'[i] # None, cts'[i].steady PROVE cts'[i].started
      <3>1. ChangedBy(p, i)
        OBVIOUS
      <3>2. CASE cts'[i] = Created(req[p])
        BY <2>1, <3>2 DEF Created
      <3>3. CASE Kept(i) /\ cts[i].steady
        BY <1>3, <3>3 DEF Kept, SteadyWasStarted
      <3>4. CASE Kept(i) /\ pc[p] = "scrub" /\ i = cur[p]
        BY <1>3, <3>4 DEF Kept, Progress, At
      <3> QED
        BY <2>1, <3>1, <3>2, <3>3, <3>4 DEF ChangedBy
    <2> QED
      BY <2>1 DEF SteadyWasStarted, Exists
  <1> QED
    BY <1>1, <1>2, <1>4, <1>5 DEF IInv

\* What a step does to the container table, in the three shapes it has.
TableStep(p) == /\ calls' = calls
                /\ cts' \in [Id -> Container \cup {None}]
                /\ \A i \in Id : ChangedBy(p, i)

LEMMA LookStep ==
  ASSUME IInv, NEW p \in Proc, UNCHANGED <<cts, calls>> PROVE TableStep(p)
  BY DEF IInv, Types, TableStep, ChangedBy, Kept, Exists

LEMMA DeleteStep ==
  ASSUME IInv, NEW p \in Proc, NEW i \in Id, cts' = [cts EXCEPT ![i] = None],
         UNCHANGED calls
  PROVE  TableStep(p)
  BY DEF IInv, Types, TableStep, ChangedBy, Kept, Exists

LEMMA UpdateStep ==
  ASSUME IInv, NEW p \in Proc, NEW i \in Id, Exists(i), NEW ct \in Container,
         cts' = [cts EXCEPT ![i] = ct], UNCHANGED calls,
         ct.controller = cts[i].controller,
         cts[i].started => ct.started,
         cts[i].steady => ct.steady,
         ct.steady => cts[i].steady \/ (pc[p] = "scrub" /\ i = cur[p]),
         cts[i].state = "STOPPED" =>
            ct.state = "STOPPED" \/ (pc[p] = "start" /\ i = cur[p])
  PROVE  TableStep(p)
  <1>1. cts' \in [Id -> Container \cup {None}] /\ cts'[i] = ct
    BY DEF IInv, Types
  <1>2. ChangedBy(p, i)
    BY <1>1 DEF ChangedBy, Kept
  <1>3. \A j \in Id \ {i} : ChangedBy(p, j)
    BY DEF IInv, Types, ChangedBy, Kept, Exists
  <1> QED
    BY <1>1, <1>2, <1>3 DEF TableStep

\* A process may answer at any call, whatever that call has done.
LEMMA ReturnKeeps ==
  ASSUME IInv, NEW p \in Proc, NEW e \in ErrClass, Return(p, e), pc[p] # "idle",
         TableStep(p)
  PROVE  IInv'
  BY ReturnStep, StepKeeps DEF TableStep

\* A Create may give up at any call of the bootstrap.
LEMMA GiveUpKeeps ==
  ASSUME IInv, NEW p \in Proc, NEW e \in ErrClass, GiveUp(p, e),
         pc[p] \in Bootstrapping, TableStep(p)
  PROVE  IInv'
  <1>1. LocalStep(p) /\ pc'[p] = "cleanup" /\ cur'[p] = cur[p] /\ UNCHANGED req
    BY GiveUpStep
  <1>2. Local(p) /\ Mine(p) /\ cur[p] \in Id
    BY DEF IInv, Local, Dispatched
  <1>3. Local(p)'
    BY <1>1, <1>2 DEF TableStep, Local, Dispatched, Bootstrapping, Cleaning
  <1>4. Unmade(p)' /\ Progress(p)'
    BY <1>1 DEF Unmade, Progress, At
  <1>5. Mine(p)'
    <2>1. ASSUME cts'[cur[p]] # None PROVE cts'[cur[p]].controller = req[p].controller
      <3>1. ChangedBy(p, cur[p]) /\ pc[p] # "create"
        BY <1>2 DEF TableStep, Bootstrapping
      <3> QED
        BY <1>2, <2>1, <3>1 DEF ChangedBy, Kept, Mine, At
    <2> QED
      BY <1>1, <2>1 DEF Mine, At, Exists
  <1>6. pc[p] # "idle"
    BY DEF Bootstrapping
  <1> QED
    BY <1>1, <1>3, <1>4, <1>5, <1>6, StepKeeps DEF TableStep

\* The bootstrap and its clean-up go on with the same container.
LEMMA AdvanceKeeps ==
  ASSUME IInv, NEW p \in Proc, NEW next \in Bootstrapping \cup Cleaning,
         pc[p] \in Bootstrapping \cup Cleaning,
         Goto(p, next, cur[p]), TableStep(p), Progress(p)'
  PROVE  IInv'
  <1>1. Local(p) /\ Mine(p) /\ cur[p] \in Id
    BY DEF IInv, Local, Dispatched
  <1>2. /\ LocalStep(p) /\ pc'[p] = next /\ cur'[p] = cur[p] /\ UNCHANGED req
    BY <1>1, GotoStep DEF PC
  <1>3. Local(p)'
    BY <1>1, <1>2 DEF TableStep, Local, Dispatched, Bootstrapping, Cleaning
  <1>4. Unmade(p)'
    BY <1>2 DEF Unmade, Bootstrapping, Cleaning
  <1>5. Mine(p)'
    <2>1. ASSUME cts'[cur[p]] # None PROVE cts'[cur[p]].controller = req[p].controller
      <3>1. ChangedBy(p, cur[p]) /\ pc[p] # "create"
        BY <1>1 DEF TableStep, Bootstrapping, Cleaning
      <3> QED
        BY <1>1, <2>1, <3>1 DEF ChangedBy, Kept, Mine, At
    <2> QED
      BY <1>2, <2>1 DEF Mine, At, Exists
  <1>6. pc[p] # "idle"
    BY DEF Bootstrapping, Cleaning
  <1> QED
    BY <1>2, <1>3, <1>4, <1>5, <1>6, StepKeeps DEF TableStep

LEMMA OwnerClass ==
  ASSUME NEW ct, NEW c
  PROVE  /\ owner(ct, c) \in ErrClass
         /\ owner(ct, c) = "ok" => ct.controller = c /\ ct.steady
  BY DEF owner, verifySteadyRuntime, verifyBaseRuntime, ErrClass

LEMMA FindOwnedClass ==
  ASSUME NEW i, NEW c
  PROVE  /\ findOwned(i, c) \in ErrClass
         /\ findOwned(i, c) = "ok" =>
               Exists(i) /\ cts[i].controller = c /\ cts[i].steady
  BY OwnerClass DEF findOwned, ErrClass
-----------------------------------------------------------------------------
(* Create.                                                                 *)

LEMMA CreateKeeps ==
  ASSUME IInv, NEW p \in Proc, CreateLooksUp(p) \/ CreateContainer(p)
  PROVE  IInv'
  <1> DEFINE r == req[p]
  <1>1. /\ Local(p) /\ Unmade(p) /\ pc[p] \in {"lookup", "create"}
        /\ r \in Request /\ r.id \in 1..calls /\ r.op = "Create"
        /\ r.id + 1 \in Id /\ r.id \in Nat /\ ~Exists(r.id + 1)
    BY ContainerConfigAssumption
       DEF IInv, Types, Numbered, Local, Dispatched, Unmade, Id, Request,
           CreateLooksUp, CreateContainer
  <1>2. CASE CreateLooksUp(p)
    <2>1. TableStep(p) /\ calls' = calls
      BY <1>2, LookStep DEF CreateLooksUp
    <2>2. CASE \E i \in Id : Return(p, owner(cts[i], r.controller))
      BY <1>1, <2>1, <2>2, OwnerClass, ReturnKeeps
    <2>3. CASE Goto(p, "create", 0)
      <3>1. LocalStep(p) /\ pc'[p] = "create" /\ cur'[p] = 0 /\ UNCHANGED req
        BY <2>3, GotoStep DEF PC
      <3>2. Local(p)'
        BY <1>1, <2>1, <3>1
           DEF IInv, Types, Local, Dispatched, Bootstrapping, Cleaning
      <3>3. Unmade(p)'
        <4>1. \A q \in Proc : cur'[q] # r.id + 1
          BY <1>1, <3>1 DEF Unmade, LocalStep
        <4>2. cts'[r.id + 1] = None
          BY <1>1, <1>2 DEF CreateLooksUp, Exists
        <4> QED
          BY <3>1, <4>1, <4>2 DEF Unmade, Exists
      <3>4. Mine(p)' /\ Progress(p)'
        BY <3>1 DEF Mine, Progress, At, Harmful, Bootstrapping, Cleaning
      <3> QED
        BY <1>1, <2>1, <3>1, <3>2, <3>3, <3>4, StepKeeps DEF TableStep
    <2> QED
      BY <1>2, <2>2, <2>3 DEF CreateLooksUp
  <1>3. CASE CreateContainer(p)
    <2>1. /\ cts' = [cts EXCEPT ![r.id + 1] = Created(r)] /\ calls' = calls
          /\ pc[p] = "create"
      BY <1>3 DEF CreateContainer
    <2>2. Created(r) \in Container
      BY <1>1 DEF Created, Container, Request
    <2>3. TableStep(p) /\ cts'[r.id + 1] = Created(r)
      BY <1>1, <2>1, <2>2 DEF IInv, Types, TableStep, ChangedBy, Kept, Exists
    <2>4. CASE Return(p, "error")
      BY <1>1, <2>3, <2>4, ReturnKeeps DEF ErrClass
    <2>5. CASE Goto(p, "stage", r.id + 1)
      <3>1. LocalStep(p) /\ pc'[p] = "stage" /\ cur'[p] = r.id + 1 /\ UNCHANGED req
        BY <1>1, <2>1, <2>5, GotoStep DEF PC, Bootstrapping
      <3>2. Local(p)'
        BY <1>1, <2>1, <3>1
           DEF IInv, Types, Local, Dispatched, Bootstrapping, Cleaning
      <3>3. Unmade(p)' /\ Mine(p)' /\ Progress(p)'
        BY <2>3, <3>1 DEF Unmade, Mine, Progress, At, Created
      <3> QED
        BY <1>1, <2>3, <3>1, <3>2, <3>3, StepKeeps DEF TableStep
    <2> QED
      BY <1>3, <2>4, <2>5 DEF CreateContainer, Effect
  <1> QED
    BY <1>2, <1>3

\* The calls that turn a stopped container into a scrubbed, running one.
LEMMA BootstrapKeeps ==
  ASSUME IInv, NEW p \in Proc,
         \/ StageToken(p) \/ StagedReadBack(p) \/ StartContainer(p)
         \/ ScrubInit(p) \/ CreateConfirms(p) \/ TokenGone(p)
         \/ BootstrapFails(p)
  PROVE  IInv'
  <1> DEFINE i == cur[p]
  <1>1. /\ pc[p] \in Bootstrapping /\ pc[p] # "idle"
        /\ i \in Id /\ Progress(p)
        /\ "error" \in ErrClass /\ "ok" \in ErrClass
        /\ "ErrNotFound" \in ErrClass /\ "ErrManagedDrift" \in ErrClass
    BY DEF IInv, Local, Dispatched, StageToken, StagedReadBack, StartContainer,
           ScrubInit, CreateConfirms, TokenGone, BootstrapFails, Bootstrapping,
           ErrClass
  <1>2. ASSUME TableStep(p), NEW next \in Bootstrapping,
               BootstrapEffect(p, next),
               Goto(p, next, i) => Progress(p)'
        PROVE  IInv'
    BY <1>1, <1>2, AdvanceKeeps, GiveUpKeeps, ReturnKeeps DEF BootstrapEffect
  <1>3. Exists(i) => cts[i] \in Container
    BY <1>1 DEF IInv, Types, Exists
  <1>4. ASSUME NEW next \in PC, Goto(p, next, i)
        PROVE  pc'[p] = next /\ cur'[p] = i
    BY <1>4 DEF IInv, Types, Goto
  <1>5. CASE StageToken(p)
    <2>1. pc[p] = "stage" /\ BootstrapEffect(p, "readback") /\ calls' = calls
      BY <1>5 DEF StageToken
    <2>2. PICK k \in Id : Exists(k) /\ cts' = [cts EXCEPT ![k].token = TRUE]
      BY <1>5 DEF StageToken, AtPath
    <2> DEFINE ct == [cts[k] EXCEPT !.token = TRUE]
    <2>3. cts' = [cts EXCEPT ![k] = ct] /\ cts[k] \in Container
      BY <2>2 DEF IInv, Types, Exists
    <2>4. /\ ct \in Container /\ ct.controller = cts[k].controller
          /\ ct.started = cts[k].started /\ ct.steady = cts[k].steady
          /\ ct.state = cts[k].state
      BY <2>3 DEF Container
    <2>5. TableStep(p)
      <3> HIDE DEF ct
      <3> QED
        BY <2>1, <2>2, <2>3, <2>4, UpdateStep
    <2>6. cts'[i] # None => Exists(i) /\ cts'[i].steady = cts[i].steady
      <3> HIDE DEF ct
      <3> QED
        BY <1>1, <2>2, <2>3, <2>4 DEF IInv, Types, Exists
    <2>7. Goto(p, "readback", i) => Progress(p)'
      BY <1>1, <1>4, <2>1, <2>6 DEF PC, Bootstrapping, Progress, At, Exists
    <2> QED
      BY <1>2, <2>1, <2>5, <2>7 DEF Bootstrapping
  <1>6. CASE StagedReadBack(p)
    <2>1. TableStep(p) /\ UNCHANGED cts /\ pc[p] = "readback"
      BY <1>6, LookStep DEF StagedReadBack
    <2>2. CASE GiveUp(p, "ErrNotFound")
      BY <1>1, <2>1, <2>2, GiveUpKeeps
    <2>3. CASE Goto(p, "start", i)
      <3>1. Progress(p)'
        BY <1>1, <1>4, <2>1, <2>3 DEF PC, Bootstrapping, Progress, At, Exists
      <3> QED
        BY <1>1, <2>1, <2>3, <3>1, AdvanceKeeps DEF Bootstrapping
    <2> QED
      BY <1>6, <2>2, <2>3 DEF StagedReadBack
  <1>7. CASE StartContainer(p)
    <2> DEFINE ct == [cts[i] EXCEPT !.state = "RUNNING",
                                    !.wrapper = ~cts[i].steady, !.started = TRUE]
    <2>1. /\ pc[p] = "start" /\ Exists(i) /\ cts' = [cts EXCEPT ![i] = ct]
          /\ BootstrapEffect(p, "scrub") /\ calls' = calls
      BY <1>3, <1>7 DEF StartContainer, Container
    <2>2. /\ ct \in Container /\ ct.controller = cts[i].controller
          /\ ct.started = TRUE /\ ct.steady = cts[i].steady
      BY <1>3, <2>1 DEF Container
    <2>3. TableStep(p) /\ cts'[i] = ct
      <3> HIDE DEF ct
      <3> QED
        BY <1>1, <2>1, <2>2, UpdateStep DEF IInv, Types
    <2>4. Goto(p, "scrub", i) => Progress(p)'
      <3>1. cts'[i].started
        BY <2>2, <2>3
      <3> HIDE DEF ct
      <3> QED
        BY <1>4, <3>1 DEF PC, Bootstrapping, Progress, At
    <2> QED
      BY <1>2, <2>1, <2>3, <2>4 DEF Bootstrapping
  <1>8. CASE ScrubInit(p)
    <2>1. pc[p] = "scrub" /\ Exists(i) /\ BootstrapEffect(p, "confirm")
          /\ calls' = calls
      BY <1>8 DEF ScrubInit
    <2>2. cts[i].started
      BY <1>1, <2>1 DEF Progress, At
    <2>3. TableStep(p) /\ (Exists(i) => cts'[i].started)
      <3>1. CASE UNCHANGED cts
        BY <2>1, <2>2, <3>1, LookStep
      <3>2. CASE cts' = [cts EXCEPT ![i].steady = TRUE]
        <4> DEFINE ct == [cts[i] EXCEPT !.steady = TRUE]
        <4>1. /\ ct \in Container /\ ct.controller = cts[i].controller
              /\ ct.started = cts[i].started /\ ct.steady = TRUE
              /\ ct.state = cts[i].state /\ cts' = [cts EXCEPT ![i] = ct]
          BY <1>3, <2>1, <3>2 DEF Container
        <4> HIDE DEF ct
        <4> QED
          BY <1>1, <2>1, <2>2, <4>1, UpdateStep DEF IInv, Types
      <3> QED
        BY <1>8, <3>1, <3>2 DEF ScrubInit
    <2>4. Goto(p, "confirm", i) => Progress(p)'
      BY <1>4, <2>1, <2>3 DEF PC, Bootstrapping, Progress, At
    <2> QED
      BY <1>2, <2>1, <2>3, <2>4 DEF Bootstrapping
  <1>9. CASE CreateConfirms(p)
    <2> DEFINE e == findOwned(i, req[p].controller)
    <2>1. TableStep(p) /\ UNCHANGED cts /\ pc[p] = "confirm"
      BY <1>9, LookStep DEF CreateConfirms
    <2>2. e \in ErrClass /\ (e = "ok" => cts[i].steady)
      BY FindOwnedClass
    <2>3. CASE e # "ok" /\ GiveUp(p, e)
      BY <1>1, <2>1, <2>2, <2>3, GiveUpKeeps
    <2>4. CASE GiveUp(p, "ErrManagedDrift")
      BY <1>1, <2>1, <2>4, GiveUpKeeps
    <2>5. CASE e = "ok" /\ Goto(p, "token", i)
      <3>1. Progress(p)'
        BY <1>1, <1>4, <2>1, <2>2, <2>5
           DEF PC, Bootstrapping, Progress, At, Exists
      <3> QED
        BY <1>1, <2>1, <2>5, <3>1, AdvanceKeeps DEF Bootstrapping
    <2>6. \/ e # "ok" /\ GiveUp(p, e)
          \/ GiveUp(p, "ErrManagedDrift")
          \/ e = "ok" /\ Goto(p, "token", i)
      BY <1>9 DEF CreateConfirms
    <2> QED
      BY <2>3, <2>4, <2>5, <2>6
  <1>10. CASE TokenGone(p)
    BY <1>1, <1>10, LookStep, GiveUpKeeps, ReturnKeeps DEF TokenGone
  <1>11. CASE BootstrapFails(p)
    BY <1>1, <1>11, LookStep, GiveUpKeeps DEF BootstrapFails
  <1> QED
    BY <1>5, <1>6, <1>7, <1>8, <1>9, <1>10, <1>11

\* cleanupFailedCreate deletes the container of its own Create only, and only
\* once it has seen it stopped.
LEMMA CleanupKeeps ==
  ASSUME IInv, NEW p \in Proc,
         \/ CleanupLooks(p) \/ CleanupStops(p) \/ CleanupLooksAgain(p)
         \/ CleanupDeletes(p) \/ CleanupFails(p)
  PROVE  IInv'
  <1> DEFINE i == cur[p]
  <1>1. /\ pc[p] \in Cleaning /\ pc[p] # "idle"
        /\ i \in Id /\ err[p] \in ErrClass /\ Progress(p)
    BY DEF IInv, Types, Local, Dispatched, Cleaning, CleanupLooks,
       CleanupStops,
           CleanupLooksAgain, CleanupDeletes, CleanupFails
  <1>2. ASSUME NEW next \in PC, Goto(p, next, i)
        PROVE  pc'[p] = next /\ cur'[p] = i
    BY <1>2 DEF IInv, Types, Goto
  <1>3. CASE CleanupLooks(p)
    <2>1. TableStep(p)
      BY <1>3, LookStep DEF CleanupLooks
    <2>2. CASE Return(p, err[p])
      BY <1>1, <2>1, <2>2, ReturnKeeps
    <2>3. ASSUME NEW next \in {"halt", "halted"}, Goto(p, next, i) PROVE IInv'
      <3>1. Progress(p)'
        BY <1>2, <2>3 DEF PC, Cleaning, Progress, At
      <3> QED
        BY <1>1, <2>1, <2>3, <3>1, AdvanceKeeps DEF Cleaning
    <2> QED
      BY <1>3, <2>2, <2>3 DEF CleanupLooks
  <1>4. CASE CleanupStops(p)
    <2> DEFINE ct == [cts[i] EXCEPT !.state = "STOPPED", !.wrapper = FALSE]
    <2>1. /\ Exists(i) /\ calls' = calls
          /\ Goto(p, "halted", i) \/ Return(p, err[p])
      BY <1>4 DEF CleanupStops
    <2>a. cts[i] \in Container
      BY <1>1, <2>1 DEF IInv, Types, Exists
    <2>2. /\ cts' = [cts EXCEPT ![i] = ct]
          /\ ct \in Container /\ ct.controller = cts[i].controller
          /\ ct.started = cts[i].started /\ ct.steady = cts[i].steady
          /\ ct.state = "STOPPED"
      BY <1>4, <2>a DEF CleanupStops, Container
    <2>3. TableStep(p)
      <3> HIDE DEF ct
      <3> QED
        BY <1>1, <2>1, <2>2, UpdateStep
    <2>4. CASE Return(p, err[p])
      BY <1>1, <2>3, <2>4, ReturnKeeps
    <2>5. CASE Goto(p, "halted", i)
      <3>1. Progress(p)'
        BY <1>2, <2>5 DEF PC, Cleaning, Progress, At
      <3> QED
        BY <1>1, <2>3, <2>5, <3>1, AdvanceKeeps DEF Cleaning
    <2> QED
      BY <2>1, <2>4, <2>5
  <1>5. CASE CleanupLooksAgain(p)
    <2>1. TableStep(p) /\ UNCHANGED cts
      BY <1>5, LookStep DEF CleanupLooksAgain
    <2>2. CASE Return(p, err[p])
      BY <1>1, <2>1, <2>2, ReturnKeeps
    <2>3. CASE Retirable(cts[i]) /\ Goto(p, "remove", i)
      <3>1. Progress(p)'
        BY <1>2, <2>1, <2>3 DEF PC, Cleaning, Progress, At, Retirable
      <3> QED
        BY <1>1, <2>1, <2>3, <3>1, AdvanceKeeps DEF Cleaning
    <2> QED
      BY <1>5, <2>2, <2>3 DEF CleanupLooksAgain
  <1>6. CASE CleanupDeletes(p)
    BY <1>1, <1>6, DeleteStep, ReturnKeeps DEF CleanupDeletes
  <1>7. CASE CleanupFails(p)
    BY <1>1, <1>7, LookStep, ReturnKeeps DEF CleanupFails
  <1> QED
    BY <1>3, <1>4, <1>5, <1>6, <1>7
-----------------------------------------------------------------------------
(* The commands that address a container by its id.                        *)

LEMMA SweepKeeps ==
  ASSUME IInv, NEW p \in Proc, NEW T \in SUBSET Id, NEW e \in ErrClass,
         SweepOn(p, T, e), pc[p] # "idle", TableStep(p),
         T # {} => req[p].op \in {"Delete", "RemoveAll"}
  PROVE  IInv'
  <1>1. CASE T = {}
    BY <1>1, ReturnKeeps DEF SweepOn
  <1>2. CASE T # {}
    <2>1. /\ LocalStep(p) /\ pc'[p] = "sweep" /\ UNCHANGED <<req, cur>>
      BY <1>2 DEF SweepOn, IInv, Types, LocalTypes, LocalStep, PC
    <2>2. Local(p)'
      BY <1>2, <2>1 DEF TableStep, IInv, Local, Dispatched, Bootstrapping,
         Cleaning
    <2>3. Unmade(p)' /\ Mine(p)' /\ Progress(p)'
      BY <2>1 DEF Unmade, Mine, Progress, At, Harmful, Bootstrapping, Cleaning
    <2> QED
      BY <2>1, <2>2, <2>3, StepKeeps DEF TableStep
  <1> QED
    BY <1>1, <1>2

\* On to a call for container i, which is the process's own or gone.
LEMMA TargetKeeps ==
  ASSUME IInv, NEW p \in Proc, NEW i \in Id,
         NEW next \in {"destroy", "absent", "stop", "stopped"},
         Goto(p, next, i), TableStep(p), pc[p] # "idle", i = cur[p] \/ Exists(i),
         req[p].op \in (IF next \in {"stop", "stopped"} THEN {"Stop"}
                       ELSE {"Delete", "RemoveAll"}),
         next \in {"destroy", "stop"} /\ cts'[i] # None =>
            cts'[i].controller = req[p].controller,
         next = "destroy" /\ cts'[i] # None =>
            cts'[i].steady /\ cts'[i].state = "STOPPED"
  PROVE  IInv'
  <1>1. LocalStep(p) /\ pc'[p] = next /\ cur'[p] = i /\ UNCHANGED req
    BY GotoStep DEF PC
  <1>2. i <= calls + 1
    BY DEF IInv, Numbered, Local, Types, Id
  <1>3. Local(p)'
    BY <1>1, <1>2
       DEF TableStep, IInv, Local, Dispatched, Bootstrapping, Cleaning
  <1>4. Unmade(p)'
    BY <1>1 DEF Unmade
  <1>5. Mine(p)' /\ Progress(p)'
    BY <1>1 DEF Mine, Progress, At, Exists, Harmful, Bootstrapping, Cleaning
  <1> QED
    BY <1>1, <1>3, <1>4, <1>5, StepKeeps DEF TableStep

LEMMA FindKeeps == ASSUME IInv, NEW p \in Proc, Find(p) PROVE IInv'
  <1> DEFINE r == req[p]
             i == IF r.op = "RemoveAll" THEN cur[p] ELSE r.ct
             e == findOwned(i, r.controller)
  <1>1. pc[p] = "find" /\ pc[p] # "idle" /\ i \in Id
        /\ todo[p] \in SUBSET Id /\ err[p] \in ErrClass
        /\ "ok" \in ErrClass /\ "ErrActive" \in ErrClass
    BY DEF Find, IInv, Types, Local, Dispatched, Request, ErrClass
  <1>2. TableStep(p) /\ UNCHANGED cts
    BY LookStep DEF Find
  <1>3. /\ e \in ErrClass
        /\ e = "ok" => /\ Exists(i) /\ cts[i].steady
                       /\ cts[i].controller = r.controller
    BY FindOwnedClass
  <1>4. \/ r.op \in {"Delete", "RemoveAll"} /\ SweepOn(p, todo[p], err[p])
        \/ Return(p, e) \/ Return(p, "ok") \/ Return(p, "ErrActive")
        \/ e = "ok" /\ r.op = "Stop" /\ Goto(p, "stop", i)
        \/ /\ e = "ok" /\ r.op \in {"Delete", "RemoveAll"}
           /\ Retirable(cts[i]) /\ Goto(p, "destroy", i)
    BY DEF Find
  <1> HIDE DEF i, e
  <1>5. CASE r.op \in {"Delete", "RemoveAll"} /\ SweepOn(p, todo[p], err[p])
    BY <1>1, <1>2, <1>5, SweepKeeps
  <1>6. CASE Return(p, e) \/ Return(p, "ok") \/ Return(p, "ErrActive")
    BY <1>1, <1>2, <1>3, <1>6, ReturnKeeps
  <1>7. CASE e = "ok" /\ r.op = "Stop" /\ Goto(p, "stop", i)
    BY <1>1, <1>2, <1>3, <1>7, TargetKeeps
  <1>8. CASE /\ e = "ok" /\ r.op \in {"Delete", "RemoveAll"}
             /\ Retirable(cts[i]) /\ Goto(p, "destroy", i)
    BY <1>1, <1>2, <1>3, <1>8, TargetKeeps DEF Retirable
  <1> QED
    BY <1>4, <1>5, <1>6, <1>7, <1>8

LEMMA RetireKeeps ==
  ASSUME IInv, NEW p \in Proc, DeleteContainer(p) \/ DeleteVerifies(p)
  PROVE  IInv'
  <1>1. /\ cur[p] \in Id /\ pc[p] # "idle"
        /\ req[p].op \in {"Delete", "RemoveAll"}
        /\ todo[p] \in SUBSET Id /\ err[p] \in ErrClass
        /\ "error" \in ErrClass /\ "ErrManagedDrift" \in ErrClass
    BY DEF IInv, Types, Local, Dispatched, DeleteContainer, DeleteVerifies,
           ErrClass
  <1>2. CASE DeleteContainer(p)
    <2>1. TableStep(p)
      BY <1>1, <1>2, DeleteStep DEF DeleteContainer
    <2> QED
      BY <1>1, <1>2, <2>1, TargetKeeps, ReturnKeeps DEF DeleteContainer, Effect
  <1>3. CASE DeleteVerifies(p)
    BY <1>1, <1>3, LookStep, SweepKeeps, ReturnKeeps DEF DeleteVerifies
  <1> QED
    BY <1>2, <1>3

LEMMA StopKeeps ==
  ASSUME IInv, NEW p \in Proc, StopContainer(p) \/ StopVerifies(p)
  PROVE  IInv'
  <1> DEFINE i == cur[p]
  <1>1. /\ i \in Id /\ pc[p] # "idle" /\ req[p].op = "Stop"
        /\ {"error", "ok", "ErrNotFound", "ErrManagedDrift"} \subseteq ErrClass
    BY DEF IInv, Local, Dispatched, StopContainer, StopVerifies, ErrClass
  <1>2. CASE StopContainer(p)
    <2>1. Exists(i) /\ calls' = calls /\ Effect(p, "stopped", i)
      BY <1>2 DEF StopContainer
    <2>2. TableStep(p)
      <3>1. CASE UNCHANGED cts
        BY <2>1, <3>1, LookStep
      <3>2. CASE cts' = [cts EXCEPT ![i].state = "STOPPED", ![i].wrapper = FALSE]
        <4> DEFINE ct == [cts[i] EXCEPT !.state = "STOPPED", !.wrapper = FALSE]
        <4>1. cts[i] \in Container
          BY <1>1, <2>1 DEF IInv, Types, Exists
        <4>2. /\ cts' = [cts EXCEPT ![i] = ct]
              /\ ct \in Container /\ ct.controller = cts[i].controller
              /\ ct.started = cts[i].started /\ ct.steady = cts[i].steady
              /\ ct.state = "STOPPED"
          BY <3>2, <4>1 DEF Container
        <4> HIDE DEF ct
        <4> QED
          BY <1>1, <2>1, <4>2, UpdateStep
      <3> QED
        BY <1>2, <3>1, <3>2 DEF StopContainer
    <2> QED
      BY <1>1, <2>1, <2>2, TargetKeeps, ReturnKeeps DEF Effect
  <1>3. CASE StopVerifies(p)
    <2>1. TableStep(p) /\ \E e \in ErrClass : Return(p, e)
      BY <1>1, <1>3, LookStep DEF StopVerifies
    <2> QED
      BY <1>1, <2>1, ReturnKeeps
  <1> QED
    BY <1>2, <1>3

LEMMA ListKeeps ==
  ASSUME IInv, NEW p \in Proc, ListContainers(p) \/ Sweep(p) \/ FailCall(p)
  PROVE  IInv'
  <1>1. /\ pc[p] # "idle" /\ TableStep(p) /\ UNCHANGED cts
        /\ todo[p] \in SUBSET Id
        /\ {"error", "ok", "ErrActive", "ErrManagedDrift"} \subseteq ErrClass
    BY LookStep DEF IInv, Types, ListContainers, Sweep, FailCall, ErrClass
  <1>2. CASE ListContainers(p)
    <2> DEFINE own == {i \in Id : Owned(i, req[p].controller)}
               T == IF req[p].op = "RemoveAll" THEN own ELSE {}
    <2>1. T \in SUBSET Id /\ (T # {} => req[p].op = "RemoveAll")
      OBVIOUS
    <2>2. Return(p, "ErrManagedDrift") \/ SweepOn(p, T, "ok")
      BY <1>2 DEF ListContainers
    <2> HIDE DEF T
    <2> QED
      BY <1>1, <2>1, <2>2, SweepKeeps, ReturnKeeps
  <1>3. CASE Sweep(p)
    <2>1. PICK i \in todo[p] :
             LET e == findOwned(i, req[p].controller)
             IN  CASE e # "ok" -> Return(p, e)
                   [] e = "ok" /\ ~Retirable(cts[i]) ->
                         SweepOn(p, todo[p] \ {i}, "ErrActive")
                   [] OTHER -> /\ pc' = [pc EXCEPT ![p] = "find"]
                               /\ cur' = [cur EXCEPT ![p] = i]
                               /\ todo' = [todo EXCEPT ![p] = @ \ {i}]
                               /\ UNCHANGED <<req, err, reply>>
      BY <1>3 DEF Sweep
    <2> DEFINE e == findOwned(i, req[p].controller)
    <2>2. i \in Id /\ e \in ErrClass /\ (e = "ok" => Exists(i))
          /\ todo[p] \ {i} \in SUBSET Id
      BY <1>1, FindOwnedClass
    <2>3. \/ Return(p, e)
          \/ SweepOn(p, todo[p] \ {i}, "ErrActive")
          \/ /\ e = "ok" /\ pc' = [pc EXCEPT ![p] = "find"]
             /\ cur' = [cur EXCEPT ![p] = i]
             /\ todo' = [todo EXCEPT ![p] = @ \ {i}]
             /\ UNCHANGED <<req, err, reply>>
      BY <2>1, Zenon
    <2>a. req[p].op \in {"Delete", "RemoveAll"}
      BY <1>3 DEF Sweep, IInv, Local
    <2> HIDE DEF e
    <2>4. CASE Return(p, e)
      BY <1>1, <2>2, <2>4, ReturnKeeps
    <2>5. CASE SweepOn(p, todo[p] \ {i}, "ErrActive")
      BY <1>1, <2>2, <2>5, <2>a, SweepKeeps
    <2>6. CASE /\ e = "ok" /\ pc' = [pc EXCEPT ![p] = "find"]
               /\ cur' = [cur EXCEPT ![p] = i]
               /\ todo' = [todo EXCEPT ![p] = @ \ {i}]
               /\ UNCHANGED <<req, err, reply>>
      <3>1. /\ LocalStep(p) /\ pc'[p] = "find" /\ cur'[p] = i /\ UNCHANGED req
        BY <2>2, <2>6 DEF IInv, Types, LocalTypes, LocalStep, PC
      <3>2. pc[p] = "sweep" /\ req[p] \in Request
            /\ req[p].op \in {"Delete", "RemoveAll"}
        BY <1>3 DEF Sweep, IInv, Local, Dispatched
      <3>3. i <= calls + 1
        BY <2>2, <2>6 DEF IInv, Types, Numbered, Id
      <3>4. Local(p)'
        BY <1>1, <2>2, <3>1, <3>2, <3>3
           DEF TableStep, IInv, Local, Dispatched, Bootstrapping, Cleaning
      <3>5. Unmade(p)' /\ Mine(p)' /\ Progress(p)'
        BY <3>1 DEF Unmade, Mine, Progress, At, Harmful, Bootstrapping,
           Cleaning
      <3> QED
        BY <1>1, <3>1, <3>4, <3>5, StepKeeps DEF TableStep
    <2> QED
      BY <2>3, <2>4, <2>5, <2>6
  <1>4. CASE FailCall(p)
    BY <1>1, <1>4, ReturnKeeps DEF FailCall
  <1> QED
    BY <1>2, <1>3, <1>4
-----------------------------------------------------------------------------
(* GARM, the host, and the theorems.                                       *)

\* What a process knows stays true when another command is issued.
LEMMA LocalGrows ==
  ASSUME IInv, NEW q \in Proc, calls' = calls + 1,
         pc'[q] = pc[q], req'[q] = req[q], cur'[q] = cur[q]
  PROVE  Local(q)'
  <1>1. Local(q) /\ calls \in Nat /\ cur[q] \in Int
    BY DEF IInv, Types, Id
  <1>2. Dispatched(q)'
    BY <1>1 DEF Local, Dispatched
  <1>3. cur'[q] <= calls' + 1
    BY <1>1 DEF Local
  <1>4. pc'[q] # "idle" => req'[q].id \in 1..calls'
    BY <1>1 DEF Local
  <1> QED
    BY <1>1, <1>2, <1>3, <1>4 DEF Local

\* A new command gets a number that no container and no process has.
LEMMA InvokeKeeps ==
  ASSUME IInv, NEW p \in Proc, Invoke(p) PROVE IInv'
  <1>1. PICK c \in Controller, op \in Commands, r \in Runner, i \in Id :
           /\ pc[p] = "idle" /\ calls < MaxCalls
           /\ calls' = calls + 1
           /\ req' = [req EXCEPT ![p] = [op |-> op, controller |-> c,
                                         name |-> <<c, r>>, ct |-> i,
                                         id |-> calls + 1]]
           /\ pc' = [pc EXCEPT ![p] = CASE op = "Create" -> "lookup"
                                        [] op \in {"List", "RemoveAll"} -> "list"
                                        [] OTHER -> "find"]
           /\ UNCHANGED <<cts, cur, todo, err, reply>>
    BY DEF Invoke
  <1> DEFINE new == [op |-> op, controller |-> c, name |-> <<c, r>>, ct |-> i,
                     id |-> calls + 1]
  <1>2. /\ calls \in Nat /\ MaxCalls \in Nat
        /\ cts \in [Id -> Container \cup {None}]
        /\ cur \in [Proc -> Id \cup {0}] /\ req \in [Proc -> Request \cup {NoRequest}]
        /\ pc \in [Proc -> PC]
    BY ContainerConfigAssumption DEF IInv, Types
  <1>3. new \in Request /\ op \in Op
    BY <1>2, ContainerConfigAssumption DEF Request, Op, CTName
  <1>4. /\ req'[p] = new /\ pc'[p] \in {"lookup", "list", "find"}
        /\ pc'[p] = "lookup" <=> op = "Create"
        /\ pc'[p] = "find" => op \in {"Get", "Stop", "Delete"}
        /\ \A q \in Proc \ {p} : pc'[q] = pc[q] /\ req'[q] = req[q]
    BY <1>1, <1>2, <1>3 DEF Op
  <1>5. new.id = calls + 1 /\ new.op = op
    OBVIOUS
  <1> HIDE DEF new
  <1>6. Types'
    BY <1>1, <1>2, <1>3, <1>4 DEF IInv, Types, PC, new
  <1>7. Numbered'
    <2>1. ASSUME NEW q \in Proc, pc[q] # "idle" PROVE req[q].id \in 1..calls
      BY <2>1 DEF IInv, Local
    <2>2. calls' <= MaxCalls
      BY <1>1, <1>2
    <2>3. ASSUME NEW j \in Id, j > calls' + 1 PROVE ~Exists(j)'
      BY <1>1, <1>2, <2>3 DEF IInv, Numbered, Id, Exists
    <2>4. ASSUME NEW q \in Proc, NEW s \in Proc, q # s,
                 pc'[q] # "idle", pc'[s] # "idle"
          PROVE  req'[q].id # req'[s].id
      BY <1>2, <1>4, <1>5, <2>1, <2>4 DEF IInv, Numbered
    <2> QED
      BY <2>2, <2>3, <2>4 DEF Numbered
  <1>8. SteadyWasStarted'
    BY <1>1 DEF IInv, SteadyWasStarted, Exists
  <1>9. ASSUME NEW q \in Proc PROVE Mine(q)' /\ Progress(q)'
    BY <1>1, <1>4 DEF IInv, Mine, Progress, At, Exists, Harmful, Bootstrapping,
       Cleaning
  <1>10. ASSUME NEW q \in Proc PROVE Local(q)' /\ Unmade(q)'
    <2>1. Local(q) /\ Unmade(q)
      BY DEF IInv
    <2>2. CASE q # p
      <3>1. pc'[q] = pc[q] /\ req'[q] = req[q] /\ UNCHANGED <<cts, cur>>
        BY <1>1, <1>4, <2>2
      <3>2. Local(q)'
        BY <1>1, <3>1, LocalGrows
      <3>3. Unmade(q)'
        BY <2>1, <3>1 DEF Unmade, Exists
      <3> QED
        BY <3>2, <3>3
    <2>3. CASE q = p
      <3>1. Local(p)'
        <4>1. /\ req'[p] \in Request /\ req'[p].id = calls + 1
              /\ req'[p].op = op
          BY <1>3, <1>4, <1>5
        <4>2. req'[p].id \in 1..calls'
          BY <1>1, <1>2, <4>1
        <4>3. cur[p] \in Int /\ cur[p] <= calls + 1 /\ cur'[p] = cur[p]
          BY <1>1, <1>2, <2>1, <2>3 DEF Local, Id
        <4>4. cur'[p] <= calls' + 1
          BY <1>1, <1>2, <4>3
        <4>5. Dispatched(p)'
          BY <1>4, <4>1 DEF Dispatched, Bootstrapping, Cleaning
        <4> QED
          BY <1>4, <4>1, <4>2, <4>4, <4>5 DEF Local, Bootstrapping, Cleaning
      <3>2. \A s \in Proc : cur'[s] # calls + 2
        BY <1>1, <1>2 DEF IInv, Local, Id
      <3>3. cts'[calls + 2] = None
        <4>1. calls + 2 \in Id /\ calls + 2 > calls + 1
          BY <1>1, <1>2 DEF Id
        <4> QED
          BY <1>1, <4>1 DEF IInv, Numbered, Exists
      <3>4. new.id + 1 = calls + 2
        BY <1>2, <1>5
      <3>5. Unmade(p)'
        BY <1>4, <3>2, <3>3, <3>4 DEF Unmade, Exists
      <3> QED
        BY <2>3, <3>1, <3>5
    <2> QED
      BY <2>2, <2>3
  <1> QED
    BY <1>6, <1>7, <1>8, <1>9, <1>10 DEF IInv

LEMMA InvokeRefusedKeeps ==
  ASSUME IInv, NEW p \in Proc, InvokeRefused(p) PROVE IInv'
  <1>1. PICK e \in ErrClass : Return(p, e)
    BY DEF InvokeRefused, ErrClass
  <1>2. /\ pc[p] = "idle" /\ calls < MaxCalls /\ calls' = calls + 1
        /\ UNCHANGED cts
    BY DEF InvokeRefused
  <1>3. /\ calls \in Nat /\ MaxCalls \in Nat
        /\ cur \in [Proc -> Id \cup {0}]
    BY ContainerConfigAssumption DEF IInv, Types
  <1>4. /\ pc'[p] = "idle" /\ cur'[p] = 0
        /\ \A q \in Proc \ {p} :
              pc'[q] = pc[q] /\ req'[q] = req[q] /\ cur'[q] = cur[q]
    BY <1>1 DEF IInv, Types, Return
  <1>5. Types'
    BY <1>1, <1>2, <1>3 DEF IInv, Types, Return, PC, ErrClass
  <1>6. Numbered' /\ SteadyWasStarted'
    BY <1>2, <1>3, <1>4
       DEF IInv, Numbered, SteadyWasStarted, Exists, Id
  <1>7. ASSUME NEW q \in Proc PROVE Local(q)' /\ Unmade(q)' /\ Mine(q)' /\ Progress(q)'
    <2>1. Local(q) /\ Unmade(q) /\ Mine(q) /\ Progress(q)
      BY DEF IInv
    <2>2. CASE q = p
      BY <1>2, <1>3, <1>4, <2>2
         DEF Local, Dispatched, Unmade, Mine, Progress, At, Harmful,
             Bootstrapping, Cleaning
    <2>3. CASE q # p
      <3>1. pc'[q] = pc[q] /\ req'[q] = req[q] /\ cur'[q] = cur[q]
        BY <1>4, <2>3
      <3>2. Local(q)'
        BY <1>2, <3>1, LocalGrows
      <3>3. Unmade(q)'
        <4>1. ASSUME pc[q] \in {"lookup", "create"}
              PROVE  \A s \in Proc : cur'[s] # req[q].id + 1
          BY <1>3, <1>4, <2>1, <4>1 DEF Unmade, Local
        <4> QED
          BY <1>2, <2>1, <3>1, <4>1 DEF Unmade, Exists
      <3>4. Mine(q)' /\ Progress(q)'
        BY <1>2, <2>1, <3>1 DEF Mine, Progress, At, Exists
      <3> QED
        BY <3>2, <3>3, <3>4
    <2> QED
      BY <2>2, <2>3
  <1> QED
    BY <1>5, <1>6, <1>7 DEF IInv

\* The containers live on their own, but none is started or scrubbed.
LEMMA HostKeeps ==
  ASSUME IInv, NEW i \in Id, InitWrapper(i) \/ ContainerRuns(i) \/ OperatorActs(i)
  PROVE  IInv'
  <1>1. UNCHANGED <<calls, pc, req, cur, todo, err, reply>> /\ Exists(i)
    BY DEF InitWrapper, ContainerRuns, OperatorActs
  <1>2. cts \in [Id -> Container \cup {None}] /\ cts[i] \in Container
    BY <1>1 DEF IInv, Types, Exists
  <1> DEFINE Becomes(ct) ==
                /\ cts' = [cts EXCEPT ![i] = ct]
                /\ \/ ct = None
                   \/ /\ ct.controller = cts[i].controller
                      /\ ct.started = cts[i].started /\ ct.steady = cts[i].steady
                      /\ cts[i].state = "STOPPED" => ct.state = "STOPPED"
  <1>3. \E ct \in Container \cup {None} : Becomes(ct)
    <2>1. CASE InitWrapper(i)
      <3> DEFINE ct == [cts[i] EXCEPT !.token = FALSE, !.wrapper = FALSE]
      <3>1. /\ cts' = [cts EXCEPT ![i] = ct] /\ ct \in Container
            /\ ct.controller = cts[i].controller /\ ct.started = cts[i].started
            /\ ct.steady = cts[i].steady /\ ct.state = cts[i].state
        BY <1>2, <2>1 DEF InitWrapper, Container
      <3> HIDE DEF ct
      <3> QED
        BY <3>1
    <2>2. CASE cts' = [cts EXCEPT ![i].state = "STOPPED", ![i].wrapper = FALSE]
      <3> DEFINE ct == [cts[i] EXCEPT !.state = "STOPPED", !.wrapper = FALSE]
      <3>1. /\ cts' = [cts EXCEPT ![i] = ct] /\ ct \in Container
            /\ ct.controller = cts[i].controller /\ ct.started = cts[i].started
            /\ ct.steady = cts[i].steady /\ ct.state = "STOPPED"
        BY <1>2, <2>2 DEF Container
      <3> HIDE DEF ct
      <3> QED
        BY <3>1
    <2>3. ASSUME NEW s \in {"RUNNING", "PAUSED"}, cts[i].state # "STOPPED",
                 cts' = [cts EXCEPT ![i].state = s]
          PROVE  \E ct \in Container \cup {None} : Becomes(ct)
      <3> DEFINE ct == [cts[i] EXCEPT !.state = s]
      <3>1. /\ cts' = [cts EXCEPT ![i] = ct] /\ ct \in Container
            /\ ct.controller = cts[i].controller /\ ct.started = cts[i].started
            /\ ct.steady = cts[i].steady
        BY <1>2, <2>3 DEF Container
      <3> HIDE DEF ct
      <3> QED
        BY <2>3, <3>1
    <2>4. CASE cts' = [cts EXCEPT ![i].fixed = FALSE]
      <3> DEFINE ct == [cts[i] EXCEPT !.fixed = FALSE]
      <3>1. /\ cts' = [cts EXCEPT ![i] = ct] /\ ct \in Container
            /\ ct.controller = cts[i].controller /\ ct.started = cts[i].started
            /\ ct.steady = cts[i].steady /\ ct.state = cts[i].state
        BY <1>2, <2>4 DEF Container
      <3> HIDE DEF ct
      <3> QED
        BY <3>1
    <2>5. CASE cts' = [cts EXCEPT ![i] = None]
      BY <2>5
    <2> QED
      BY <2>1, <2>2, <2>3, <2>4, <2>5 DEF InitWrapper, ContainerRuns,
         OperatorActs
  <1>4. Types'
    BY <1>1, <1>2, <1>3 DEF IInv, Types
  <1>5. ASSUME NEW j \in Id, cts'[j] # None
        PROVE  /\ Exists(j) /\ cts'[j].controller = cts[j].controller
               /\ cts'[j].started = cts[j].started
               /\ cts'[j].steady = cts[j].steady
               /\ cts[j].state = "STOPPED" => cts'[j].state = "STOPPED"
    BY <1>1, <1>2, <1>3, <1>5 DEF Exists
  <1>6. Numbered' /\ SteadyWasStarted'
    BY <1>1, <1>5 DEF IInv, Numbered, SteadyWasStarted, Exists
  <1>7. ASSUME NEW q \in Proc PROVE Local(q)' /\ Unmade(q)' /\ Mine(q)' /\ Progress(q)'
    <2>1. Local(q) /\ Unmade(q) /\ Mine(q) /\ Progress(q)
      BY DEF IInv
    <2>2. pc[q] \in {"lookup", "create"} => req[q].id + 1 \in Id
      BY <2>1, ContainerConfigAssumption DEF IInv, Types, Local, Numbered, Id
    <2>3. pc[q] \in Harmful \cup Bootstrapping \cup Cleaning => cur[q] \in Id
      BY <2>1 DEF Local, Dispatched, Harmful, Bootstrapping, Cleaning
    <2>4. Local(q)' /\ Unmade(q)'
      BY <1>1, <1>5, <2>1, <2>2 DEF Local, Dispatched, Unmade, Exists
    <2>5. Mine(q)'
      BY <1>1, <1>5, <2>1, <2>3 DEF Mine, At, Exists
    <2>6. Progress(q)'
      BY <1>1, <1>5, <2>1, <2>3
         DEF Progress, At, Exists, Harmful, Bootstrapping, Cleaning
    <2> QED
      BY <2>4, <2>5, <2>6
  <1> QED
    BY <1>4, <1>6, <1>7, <1>1 DEF IInv

LEMMA InitInv == Init => IInv
  <1> SUFFICES ASSUME Init PROVE IInv
    OBVIOUS
  <1>1. 1 \in Id
    BY ContainerConfigAssumption DEF Id
  <1>2. \A i \in Id : Exists(i) => cts[i] \in Earlier
    BY DEF Init, Exists
  <1>3. Types
    BY <1>2, ContainerConfigAssumption DEF Init, Types, Earlier, PC, ErrClass
  <1>4. Numbered /\ SteadyWasStarted
    BY <1>2, ContainerConfigAssumption
       DEF Init, Numbered, SteadyWasStarted, Earlier, Exists, Id
  <1>5. ASSUME NEW p \in Proc PROVE Local(p) /\ Unmade(p) /\ Mine(p) /\ Progress(p)
    <2>1. pc[p] = "idle" /\ cur[p] = 0 /\ calls = 0
      BY DEF Init
    <2>2. Local(p)
      BY <2>1 DEF Local, Dispatched, Bootstrapping, Cleaning
    <2>3. Unmade(p) /\ Mine(p) /\ Progress(p)
      BY <2>1 DEF Unmade, Mine, Progress, At, Harmful, Bootstrapping, Cleaning
    <2> QED
      BY <2>2, <2>3
  <1> QED
    BY <1>3, <1>4, <1>5 DEF IInv

LEMMA ProviderKeeps == ASSUME IInv, NEW p \in Proc, Provider(p) PROVE IInv'
  BY CreateKeeps, BootstrapKeeps, CleanupKeeps, FindKeeps, RetireKeeps,
     StopKeeps, ListKeeps DEF Provider

\* The invariant behind the theorems.
LEMMA Invariance == Spec => []IInv
  <1>1. ASSUME IInv, [Next]_vars PROVE IInv'
    <2>1. CASE UNCHANGED vars
      BY <1>1, <2>1
         DEF vars, IInv, Types, Numbered, SteadyWasStarted, Local, Dispatched,
             Unmade, Mine, Progress, At, Exists
    <2> QED
      BY <1>1, <2>1, ProviderKeeps, InvokeKeeps, InvokeRefusedKeeps, HostKeeps
         DEF Next
  <1> QED
    BY <1>1, InitInv, PTL DEF Spec

LEMMA TypesFollow == IInv => TypeOK
  BY DEF IInv, TypeOK, Local

\* Every variable keeps its type, and no call of a command is reached without
\* the container that the command is for.
THEOREM TypeCorrect == Spec => []TypeOK
  BY Invariance, TypesFollow, PTL

\* However commands, controllers and the host interleave, nothing is stopped,
\* rewritten or deleted but for the controller whose container it is: the
\* check of findOwned holds until the call it was made for, and the clean-up of
\* a failed Create, which makes no check, has a container that it made.
THEOREM TargetsOnlyOwn == Spec => []OnlyOwnContainersTargeted
  <1>1. IInv => OnlyOwnContainersTargeted
    BY DEF IInv, Mine, At, OnlyOwnContainersTargeted
  <1> QED
    BY <1>1, Invariance, PTL

\* No container has its final init before it was started: one that a killed
\* Create leaves behind is adopted, listed and retired only if it has run.
THEOREM ScrubsAfterStart == Spec => []SteadyWasStarted
  <1>1. IInv => SteadyWasStarted
    BY DEF IInv
  <1> QED
    BY <1>1, Invariance, PTL

\* A process at a call goes on by a step of its own only.
LEMMA Steps ==
  ASSUME IInv, [Next]_vars, NEW p \in Proc, pc'[p] # pc[p], pc[p] # "idle"
  PROVE  Provider(p)
  <1>1. CASE UNCHANGED vars
    BY <1>1 DEF vars
  <1>2. ASSUME NEW q \in Proc, Invoke(q) \/ InvokeRefused(q) PROVE FALSE
    <2>1. pc[q] = "idle" /\ \A s \in Proc \ {q} : pc'[s] = pc[s]
      BY <1>2 DEF Invoke, InvokeRefused, Return, IInv, Types
    <2> QED
      BY <2>1
  <1>3. ASSUME NEW q \in Proc, Provider(q), q # p PROVE FALSE
    BY <1>3 DEF Provider, CreateLooksUp, CreateContainer, StageToken,
       StagedReadBack, StartContainer, ScrubInit, CreateConfirms, TokenGone,
       BootstrapFails, CleanupLooks, CleanupStops, CleanupLooksAgain,
       CleanupDeletes, CleanupFails, Find, DeleteContainer, DeleteVerifies,
       StopContainer, StopVerifies, ListContainers, Sweep, FailCall,
       BootstrapEffect, Effect, SweepOn, Goto, GiveUp, Return, IInv, Types
  <1>4. ASSUME NEW i \in Id, InitWrapper(i) \/ ContainerRuns(i) \/ OperatorActs(i)
        PROVE  FALSE
    BY <1>4 DEF InitWrapper, ContainerRuns, OperatorActs
  <1> QED
    BY <1>1, <1>2, <1>3, <1>4 DEF Next

\* Delete, RemoveAll and the clean-up take away only what is stopped, although
\* they look calls before they delete and a Create may be about to start it.
THEOREM DeletesOnlyStopped == Spec => ActiveNeverDeleted
  <1> DEFINE Act ==
         \A p \in Proc, i \in Id :
            /\ pc[p] \in {"destroy", "remove"} /\ pc'[p] # pc[p] /\ cur[p] = i
            /\ Exists(i) /\ cts'[i] = None
            => cts[i].state = "STOPPED"
  <1>1. IInv => Act
    BY DEF IInv, Progress, At
  <1>2. Spec => [][Act]_vars
    BY <1>1, Invariance, PTL DEF Spec
  <1> QED
    BY <1>2 DEF ActiveNeverDeleted
-----------------------------------------------------------------------------
(* ContainerBackend implements GuestPromise: what its steps rely on,       *)
(* beyond IInv.                                                            *)

\* What runs has been started.
Ran == \A i \in Id : Exists(i) /\ cts[i].state # "STOPPED" => cts[i].started

\* The container in hand is the one the command names, or the one it has made,
\* under the name it was to have; it is new until its Create starts it, and a
\* Create that cleans up has an error to end with.
Tracked(p) ==
    /\ todo[p] # {} => pc[p] # "idle" /\ req[p].op = "RemoveAll"
    /\ pc[p] = "sweep" => req[p].op = "RemoveAll"
    /\ pc[p] = "list" => req[p].op \in {"List", "RemoveAll"}
    /\ pc[p] \in {"destroy", "absent", "stop", "stopped"} =>
          req[p].op = "RemoveAll" \/ cur[p] = req[p].ct
    /\ At(p, {"stopped"}) => cts[cur[p]].controller = req[p].controller
    /\ At(p, Bootstrapping \cup Cleaning) => cts[cur[p]].name = req[p].name
    /\ At(p, {"stage", "readback", "start"}) => ~cts[cur[p]].started
    /\ pc[p] \in Cleaning => err[p] # "ok"

Traced == IInv /\ Ran /\ \A p \in Proc : Tracked(p)

\* A step of p does this to the containers that the others have in hand.
LEMMA TableEffect ==
  ASSUME IInv, NEW p \in Proc, Provider(p), NEW i \in Id, cts'[i] # None
  PROVE  \/ /\ pc[p] = "create" /\ i = req[p].id + 1 /\ cts'[i] = Created(req[p])
         \/ /\ Exists(i)
            /\ cts'[i].name = cts[i].name
            /\ cts'[i].controller = cts[i].controller
            /\ cts[i].started => cts'[i].started
            /\ \/ /\ cts'[i].started = cts[i].started
                  /\ cts'[i].state # "STOPPED" => cts[i].state # "STOPPED"
               \/ pc[p] = "start" /\ i = cur[p] /\ cts'[i].started
  <1> DEFINE k == cur[p]
  <1>1. cts \in [Id -> Container \cup {None}] /\ (Exists(i) => cts[i] \in Container)
    BY DEF IInv, Types, Exists
  <1>2. Local(p)
    BY DEF IInv
  <1>3. CASE UNCHANGED cts
    BY <1>3 DEF Exists
  <1>4. CASE /\ pc[p] = "create"
             /\ cts' = [cts EXCEPT ![req[p].id + 1] = Created(req[p])]
    BY <1>1, <1>4 DEF Exists
  <1>5. CASE \/ Exists(k) /\ cts' = [cts EXCEPT ![k].steady = TRUE]
             \/ \E j \in Id : Exists(j) /\ cts' = [cts EXCEPT ![j].token = TRUE]
    BY <1>1, <1>5 DEF Exists, Container
  <1>6. CASE /\ pc[p] = "start" /\ Exists(k)
             /\ cts' = [cts EXCEPT ![k].state = "RUNNING",
                                   ![k].wrapper = ~cts[k].steady,
                                   ![k].started = TRUE]
    BY <1>1, <1>6 DEF Exists, Container
  <1>7. CASE /\ Exists(k)
             /\ cts' = [cts EXCEPT ![k].state = "STOPPED", ![k].wrapper = FALSE]
    BY <1>1, <1>7 DEF Exists, Container
  <1>8. CASE cts' = [cts EXCEPT ![k] = None]
    BY <1>1, <1>8 DEF Exists
  <1>9. \/ UNCHANGED cts
        \/ /\ pc[p] = "create"
           /\ cts' = [cts EXCEPT ![req[p].id + 1] = Created(req[p])]
        \/ Exists(k) /\ cts' = [cts EXCEPT ![k].steady = TRUE]
        \/ \E j \in Id : Exists(j) /\ cts' = [cts EXCEPT ![j].token = TRUE]
        \/ /\ pc[p] = "start" /\ Exists(k)
           /\ cts' = [cts EXCEPT ![k].state = "RUNNING",
                                 ![k].wrapper = ~cts[k].steady,
                                 ![k].started = TRUE]
        \/ /\ Exists(k)
           /\ cts' = [cts EXCEPT ![k].state = "STOPPED", ![k].wrapper = FALSE]
        \/ cts' = [cts EXCEPT ![k] = None]
    BY DEF Provider, CreateLooksUp, CreateContainer, StageToken, AtPath,
       StagedReadBack, StartContainer, ScrubInit, CreateConfirms, TokenGone,
       BootstrapFails, CleanupLooks, CleanupStops, CleanupLooksAgain,
       CleanupDeletes, CleanupFails, Find, DeleteContainer, DeleteVerifies,
       StopContainer, StopVerifies, ListContainers, Sweep, FailCall
  <1> QED
    BY <1>3, <1>4, <1>5, <1>6, <1>7, <1>8, <1>9

LEMMA OthersTracked ==
  ASSUME Traced, NEW p \in Proc, Provider(p), NEW q \in Proc \ {p}
  PROVE  Tracked(q)'
  <1>1. /\ pc'[q] = pc[q] /\ req'[q] = req[q] /\ cur'[q] = cur[q]
        /\ todo'[q] = todo[q] /\ err'[q] = err[q]
    BY DEF Provider, CreateLooksUp, CreateContainer, StageToken,
       StagedReadBack, StartContainer, ScrubInit, CreateConfirms, TokenGone,
       BootstrapFails, CleanupLooks, CleanupStops, CleanupLooksAgain,
       CleanupDeletes, CleanupFails, Find, DeleteContainer, DeleteVerifies,
       StopContainer, StopVerifies, ListContainers, Sweep, FailCall,
       BootstrapEffect, Effect, SweepOn, Goto, GiveUp, Return, Traced, IInv, Types
  <1>2. /\ Tracked(q) /\ Local(q) /\ Local(p) /\ Unmade(p)
        /\ pc[p] # "idle" /\ pc[q] # "idle" => req[p].id # req[q].id
        /\ req[p].id \in Int \/ pc[p] = "idle"
    BY DEF Traced, IInv, Numbered, Local
  <1>3. pc[q] \in Bootstrapping \cup Cleaning \cup {"stopped"} => cur[q] \in Id
    BY <1>2 DEF Local, Dispatched
  <1>4. ASSUME cur[q] \in Id, cts'[cur[q]] # None
        PROVE  /\ Exists(cur[q])
               /\ cts'[cur[q]].name = cts[cur[q]].name
               /\ cts'[cur[q]].controller = cts[cur[q]].controller
               /\ \/ cts'[cur[q]].started = cts[cur[q]].started
                  \/ pc[p] = "start" /\ cur[q] = cur[p]
    <2>1. ~(pc[p] = "create" /\ cur[q] = req[p].id + 1)
      BY <1>2 DEF Unmade
    <2> QED
      BY <1>4, <2>1, TableEffect DEF Traced
  <1>5. pc[p] = "start" /\ pc[q] \in Bootstrapping => cur[q] # cur[p]
    BY <1>2 DEF Local, Bootstrapping
  <1>6. At(q, {"stopped"})' => cts'[cur[q]].controller = req[q].controller
    BY <1>1, <1>2, <1>3, <1>4 DEF Tracked, At, Exists
  <1>7. At(q, Bootstrapping \cup Cleaning)' => cts'[cur[q]].name = req[q].name
    BY <1>1, <1>2, <1>3, <1>4 DEF Tracked, At, Exists
  <1>8. At(q, {"stage", "readback", "start"})' => ~cts'[cur[q]].started
    BY <1>1, <1>2, <1>3, <1>4, <1>5 DEF Tracked, At, Exists, Bootstrapping
  <1> QED
    BY <1>1, <1>2, <1>6, <1>7, <1>8 DEF Tracked

LEMMA ReturnTracked ==
  ASSUME IInv, NEW p \in Proc, NEW e, Return(p, e)
  PROVE  Tracked(p)'
  BY DEF IInv, Types, Return, Tracked, At, Bootstrapping, Cleaning

LEMMA SweepTracked ==
  ASSUME IInv, NEW p \in Proc, NEW T, NEW e, SweepOn(p, T, e),
         T # {} => req[p].op = "RemoveAll"
  PROVE  Tracked(p)'
  <1>1. CASE T = {}
    BY <1>1, ReturnTracked DEF SweepOn
  <1>2. CASE T # {}
    BY <1>2 DEF IInv, Types, SweepOn, Tracked, At, Bootstrapping, Cleaning
  <1> QED
    BY <1>1, <1>2

LEMMA GotoTracked ==
  ASSUME IInv, NEW p \in Proc, NEW next, NEW i \in Id \cup {0}, Goto(p, next, i),
         pc[p] # "idle", Tracked(p), next \notin {"idle", "list", "sweep"},
         next \in {"destroy", "absent", "stop", "stopped"} =>
            req[p].op = "RemoveAll" \/ i = req[p].ct,
         next = "stopped" /\ cts'[i] # None =>
            cts'[i].controller = req[p].controller,
         next \in Bootstrapping \cup Cleaning /\ cts'[i] # None =>
            cts'[i].name = req[p].name,
         next \in {"stage", "readback", "start"} /\ cts'[i] # None =>
            ~cts'[i].started,
         next \in Cleaning => pc[p] \in Cleaning
  PROVE  Tracked(p)'
  <1>1. /\ pc'[p] = next /\ cur'[p] = i /\ req'[p] = req[p]
        /\ todo'[p] = todo[p] /\ err'[p] = err[p]
    BY DEF IInv, Types, Goto
  <1> QED
    BY <1>1 DEF Tracked, At, Exists

LEMMA GiveUpTracked ==
  ASSUME IInv, NEW p \in Proc, NEW e, e # "ok", GiveUp(p, e), pc[p] # "idle",
         Tracked(p), cts'[cur[p]] # None => cts'[cur[p]].name = req[p].name
  PROVE  Tracked(p)'
  <1>1. /\ pc'[p] = "cleanup" /\ cur'[p] = cur[p] /\ req'[p] = req[p]
        /\ todo'[p] = todo[p] /\ err'[p] = e
    BY DEF IInv, Types, GiveUp
  <1> QED
    BY <1>1 DEF Tracked, At, Exists, Bootstrapping, Cleaning

\* What a container has kept once a step of the process it is in the hands of
\* is over.
LEMMA HandEffect ==
  ASSUME IInv, NEW p \in Proc, Provider(p), pc[p] # "create", cur[p] \in Id,
         cts'[cur[p]] # None
  PROVE  /\ Exists(cur[p])
         /\ cts'[cur[p]].name = cts[cur[p]].name
         /\ cts'[cur[p]].controller = cts[cur[p]].controller
         /\ pc[p] # "start" => cts'[cur[p]].started = cts[cur[p]].started
  BY TableEffect

LEMMA OwnTracked ==
  ASSUME Traced, NEW p \in Proc, Provider(p)
  PROVE  Tracked(p)'
  <1> DEFINE k == cur[p]
  <1>1. IInv /\ Tracked(p) /\ Local(p) /\ Mine(p)
    BY DEF Traced, IInv
  <1>2. k \in Id \cup {0} /\ cts \in [Id -> Container \cup {None}]
    BY <1>1 DEF IInv, Types
  <1>3. ASSUME NEW e, Return(p, e) PROVE Tracked(p)'
    BY <1>1, <1>3, ReturnTracked
  <1>4. CASE CreateLooksUp(p)
    <2>1. Goto(p, "create", 0) \/ \E e : Return(p, e)
      BY <1>4 DEF CreateLooksUp
    <2>2. ASSUME Goto(p, "create", 0) PROVE Tracked(p)'
      BY <1>1, <1>4, <2>2, GotoTracked DEF CreateLooksUp, Bootstrapping, Cleaning
    <2> QED
      BY <1>3, <2>1, <2>2
  <1>5. CASE CreateContainer(p)
    <2>1. /\ pc[p] = "create"
          /\ cts' = [cts EXCEPT ![req[p].id + 1] = Created(req[p])]
          /\ Goto(p, "stage", req[p].id + 1) \/ Return(p, "error")
      BY <1>5 DEF CreateContainer, Effect
    <2>2. req[p].id + 1 \in Id
      BY <1>1, <2>1, ContainerConfigAssumption DEF Local, IInv, Types, Numbered, Id
    <2>3. cts'[req[p].id + 1] = Created(req[p])
      BY <1>2, <2>1, <2>2
    <2>4. /\ cts'[req[p].id + 1].name = req[p].name
          /\ ~cts'[req[p].id + 1].started
      BY <2>3 DEF Created
    <2>5. ASSUME Goto(p, "stage", req[p].id + 1) PROVE Tracked(p)'
      BY <1>1, <2>1, <2>2, <2>4, <2>5, GotoTracked DEF Bootstrapping, Cleaning
    <2> QED
      BY <1>3, <2>1, <2>5
  <1>6. ASSUME pc[p] \in Bootstrapping \cup Cleaning
        PROVE  /\ k \in Id /\ pc[p] \notin {"create", "idle"}
               /\ cts'[k] # None =>
                     /\ cts'[k].name = req[p].name
                     /\ pc[p] \in {"stage", "readback"} => ~cts'[k].started
    <2>1. k \in Id /\ pc[p] \notin {"create", "idle"}
      BY <1>1, <1>6 DEF Local, Dispatched, Bootstrapping, Cleaning
    <2> QED
      BY <1>1, <1>6, <2>1, HandEffect DEF Tracked, At
  <1>7. CASE \/ StageToken(p) \/ StagedReadBack(p) \/ StartContainer(p)
             \/ ScrubInit(p) \/ CreateConfirms(p) \/ TokenGone(p)
             \/ BootstrapFails(p)
    <2>1. /\ pc[p] \in Bootstrapping
          /\ \/ pc[p] = "stage" /\ Goto(p, "readback", k)
             \/ pc[p] = "readback" /\ Goto(p, "start", k)
             \/ \E next \in {"scrub", "confirm", "token"} : Goto(p, next, k)
             \/ \E e : e # "ok" /\ GiveUp(p, e)
             \/ \E e : Return(p, e)
      BY <1>7 DEF StageToken, StagedReadBack, StartContainer, ScrubInit,
         CreateConfirms, TokenGone, BootstrapFails, BootstrapEffect, Bootstrapping
    <2>2. ASSUME NEW next \in {"readback", "start", "scrub", "confirm", "token"},
                 Goto(p, next, k),
                 next \in {"readback", "start"} => pc[p] \in {"stage", "readback"}
          PROVE  Tracked(p)'
      BY <1>1, <1>6, <2>1, <2>2, GotoTracked DEF Bootstrapping, Cleaning
    <2>3. ASSUME NEW e, e # "ok", GiveUp(p, e) PROVE Tracked(p)'
      BY <1>1, <1>6, <2>1, <2>3, GiveUpTracked
    <2> QED
      BY <1>3, <2>1, <2>2, <2>3
  <1>8. CASE \/ CleanupLooks(p) \/ CleanupStops(p) \/ CleanupLooksAgain(p)
             \/ CleanupDeletes(p) \/ CleanupFails(p)
    <2>1. /\ pc[p] \in Cleaning
          /\ \/ \E next \in {"halt", "halted", "remove"} : Goto(p, next, k)
             \/ \E e : Return(p, e)
      BY <1>8 DEF CleanupLooks, CleanupStops, CleanupLooksAgain,
         CleanupDeletes, CleanupFails, Cleaning
    <2>2. ASSUME NEW next \in {"halt", "halted", "remove"}, Goto(p, next, k)
          PROVE  Tracked(p)'
      BY <1>1, <1>6, <2>1, <2>2, GotoTracked DEF Cleaning
    <2> QED
      BY <1>3, <2>1, <2>2
  <1>9. CASE Find(p)
    <2> DEFINE i == IF req[p].op = "RemoveAll" THEN k ELSE req[p].ct
               e == findOwned(i, req[p].controller)
    <2>1. /\ i \in Id /\ (req[p].op = "RemoveAll" \/ i = req[p].ct)
          /\ pc[p] = "find"
      BY <1>1, <1>9 DEF Find, Local, Dispatched, Request
    <2>2. \/ SweepOn(p, todo[p], err[p])
          \/ \E x : Return(p, x)
          \/ \E next \in {"stop", "destroy"} : Goto(p, next, i)
      BY <1>9 DEF Find
    <2> HIDE DEF i, e
    <2>3. ASSUME NEW next \in {"stop", "destroy"}, Goto(p, next, i)
          PROVE  Tracked(p)'
      BY <1>1, <2>1, <2>3, GotoTracked DEF Bootstrapping, Cleaning
    <2> QED
      BY <1>1, <1>3, <2>2, <2>3, SweepTracked DEF Tracked
  <1>10. CASE DeleteContainer(p) \/ StopContainer(p)
    <2>1. /\ pc[p] \in {"destroy", "stop"} /\ k \in Id
          /\ \/ \E e : Return(p, e)
             \/ \E next \in {"absent", "stopped"} : Goto(p, next, k)
      BY <1>1, <1>10 DEF DeleteContainer, StopContainer, Effect, Local, Dispatched
    <2>2. req[p].op = "RemoveAll" \/ k = req[p].ct
      BY <1>1, <2>1 DEF Tracked
    <2>3. cts'[k] # None => cts'[k].controller = req[p].controller
      BY <1>1, <2>1, HandEffect DEF Mine, At, Harmful
    <2>4. ASSUME NEW next \in {"absent", "stopped"}, Goto(p, next, k)
          PROVE  Tracked(p)'
      BY <1>1, <2>1, <2>2, <2>3, <2>4, GotoTracked DEF Bootstrapping, Cleaning
    <2> QED
      BY <1>3, <2>1, <2>4
  <1>11. CASE DeleteVerifies(p)
    <2>1. SweepOn(p, todo[p], err[p]) \/ \E e : Return(p, e)
      BY <1>11 DEF DeleteVerifies
    <2> QED
      BY <1>1, <1>3, <2>1, SweepTracked DEF Tracked
  <1>12. CASE ListContainers(p)
    <2>1. \/ \E e : Return(p, e)
          \/ \E T : /\ SweepOn(p, T, "ok")
                    /\ T # {} => req[p].op = "RemoveAll"
      BY <1>12 DEF ListContainers
    <2> QED
      BY <1>1, <1>3, <2>1, SweepTracked
  <1>13. CASE Sweep(p)
    <2>1. req[p].op = "RemoveAll" /\ pc[p] = "sweep"
      BY <1>1, <1>13 DEF Sweep, Tracked
    <2>2. PICK i \in todo[p] :
             \/ \E e : Return(p, e)
             \/ SweepOn(p, todo[p] \ {i}, "ErrActive")
             \/ UNCHANGED req /\ pc' = [pc EXCEPT ![p] = "find"]
      BY <1>13 DEF Sweep
    <2>3. CASE UNCHANGED req /\ pc' = [pc EXCEPT ![p] = "find"]
      BY <1>1, <2>1, <2>3 DEF IInv, Types, Tracked, At, Bootstrapping, Cleaning
    <2> QED
      BY <1>1, <1>3, <2>1, <2>2, <2>3, SweepTracked
  <1>14. CASE StopVerifies(p) \/ FailCall(p)
    BY <1>3, <1>14 DEF StopVerifies, FailCall
  <1> QED
    BY <1>4, <1>5, <1>7, <1>8, <1>9, <1>10, <1>11, <1>12, <1>13, <1>14
       DEF Provider

LEMMA ProviderTraced ==
  ASSUME Traced, NEW p \in Proc, Provider(p) PROVE Traced'
  <1>1. IInv'
    BY ProviderKeeps DEF Traced
  <1>2. ASSUME NEW i \in Id, cts'[i] # None, cts'[i].state # "STOPPED"
        PROVE  cts'[i].started
    <2>1. cts'[i] # Created(req[p])
      BY <1>2 DEF Created
    <2> QED
      BY <1>2, <2>1, TableEffect DEF Traced, Ran
  <1>3. Ran'
    BY <1>2 DEF Ran, Exists
  <1>4. \A q \in Proc : Tracked(q)'
    BY OwnTracked, OthersTracked
  <1> QED
    BY <1>1, <1>3, <1>4 DEF Traced

LEMMA InvokeTraced ==
  ASSUME Traced, NEW p \in Proc, Invoke(p) \/ InvokeRefused(p) PROVE Traced'
  <1>1. IInv'
    BY InvokeKeeps, InvokeRefusedKeeps DEF Traced
  <1>2. UNCHANGED cts
    BY DEF Invoke, InvokeRefused
  <1>3. Ran'
    BY <1>2 DEF Traced, Ran, Exists
  <1>4. ASSUME NEW q \in Proc, q # p PROVE Tracked(q)'
    <2>1. /\ pc'[q] = pc[q] /\ req'[q] = req[q] /\ cur'[q] = cur[q]
          /\ todo'[q] = todo[q] /\ err'[q] = err[q] /\ Tracked(q)
      BY <1>4 DEF Invoke, InvokeRefused, Return, Traced, IInv, Types
    <2> QED
      BY <1>2, <2>1 DEF Tracked, At, Exists
  <1>5. ASSUME InvokeRefused(p) PROVE Tracked(p)'
    <2>1. PICK e \in ErrClass : Return(p, e)
      BY <1>5 DEF InvokeRefused, ErrClass
    <2> QED
      BY <2>1, ReturnTracked DEF Traced
  <1>6. ASSUME Invoke(p) PROVE Tracked(p)'
    <2>1. /\ pc[p] = "idle" /\ todo' = todo
          /\ \/ pc'[p] \in {"lookup", "find"}
             \/ pc'[p] = "list" /\ req'[p].op \in {"List", "RemoveAll"}
      BY <1>6 DEF Invoke, Traced, IInv, Types
    <2>2. todo'[p] = {}
      BY <2>1 DEF Traced, Tracked
    <2>3. pc'[p] \notin Bootstrapping \cup Cleaning
                       \cup {"destroy", "absent", "stop", "stopped", "sweep"}
      BY <2>1 DEF Bootstrapping, Cleaning
    <2>4. pc'[p] = "list" => req'[p].op \in {"List", "RemoveAll"}
      BY <2>1
    <2> QED
      BY <2>2, <2>3, <2>4 DEF Tracked, At, Bootstrapping
  <1> QED
    BY <1>1, <1>3, <1>4, <1>5, <1>6 DEF Traced

\* What the host leaves of a container, and when it runs.
LEMMA HostEffect ==
  ASSUME IInv, NEW i \in Id, InitWrapper(i) \/ ContainerRuns(i) \/ OperatorActs(i),
         NEW j \in Id, cts'[j] # None
  PROVE  /\ Exists(j)
         /\ cts'[j].name = cts[j].name /\ cts'[j].controller = cts[j].controller
         /\ cts'[j].started = cts[j].started
         /\ cts'[j].state # "STOPPED" => cts[j].state # "STOPPED"
  <1>1. cts \in [Id -> Container \cup {None}] /\ cts[i] \in Container /\ Exists(i)
    BY DEF IInv, Types, Exists, InitWrapper, ContainerRuns, OperatorActs
  <1>2. CASE j # i
    BY <1>1, <1>2 DEF InitWrapper, ContainerRuns, OperatorActs, Exists
  <1>3. CASE j = i
    <2>1. CASE cts' = [cts EXCEPT ![i].token = FALSE, ![i].wrapper = FALSE]
      BY <1>1, <1>3, <2>1 DEF Container
    <2>2. CASE cts' = [cts EXCEPT ![i].state = "STOPPED", ![i].wrapper = FALSE]
      BY <1>1, <1>3, <2>2 DEF Container
    <2>3. ASSUME NEW s \in {"RUNNING", "PAUSED"}, cts[i].state # "STOPPED",
                 cts' = [cts EXCEPT ![i].state = s]
          PROVE  /\ cts'[i].started = cts[i].started
                 /\ cts'[i].name = cts[i].name
                 /\ cts'[i].controller = cts[i].controller
      BY <1>1, <2>3 DEF Container
    <2>4. CASE cts' = [cts EXCEPT ![i].fixed = FALSE]
      BY <1>1, <1>3, <2>4 DEF Container
    <2>5. CASE cts' = [cts EXCEPT ![i] = None]
      BY <1>1, <1>3, <2>5
    <2> QED
      BY <1>1, <1>3, <2>1, <2>2, <2>3, <2>4, <2>5
         DEF InitWrapper, ContainerRuns, OperatorActs
  <1> QED
    BY <1>2, <1>3

LEMMA HostTraced ==
  ASSUME Traced, NEW i \in Id, InitWrapper(i) \/ ContainerRuns(i) \/ OperatorActs(i)
  PROVE  Traced'
  <1>1. IInv'
    BY HostKeeps DEF Traced
  <1>2. Ran'
    BY HostEffect DEF Traced, Ran, Exists
  <1>3. ASSUME NEW q \in Proc PROVE Tracked(q)'
    <2>1. UNCHANGED <<pc, req, cur, todo, err>> /\ Tracked(q)
      BY DEF InitWrapper, ContainerRuns, OperatorActs, Traced
    <2>2. pc[q] \in Bootstrapping \cup Cleaning \cup {"stopped"} => cur[q] \in Id
      BY DEF Traced, IInv, Local, Dispatched
    <2> QED
      BY <2>1, <2>2, HostEffect DEF Traced, Tracked, At, Exists, Bootstrapping
  <1> QED
    BY <1>1, <1>2, <1>3 DEF Traced

LEMMA TracedHolds == Spec => []Traced
  <1>1. Init => Traced
    BY InitInv
       DEF Init, Traced, Ran, Earlier, Exists, Tracked, At, Bootstrapping, Cleaning
  <1>2. ASSUME Traced, [Next]_vars PROVE Traced'
    <2>1. CASE UNCHANGED vars
      <3>1. IInv'
        BY <1>2, <2>1 DEF Traced, vars, IInv, Types, Numbered, SteadyWasStarted,
           Local, Dispatched, Unmade, Mine, Progress, At, Exists
      <3> QED
        BY <1>2, <2>1, <3>1 DEF vars, Traced, Ran, Tracked, At, Exists
    <2> QED
      BY <1>2, <2>1, ProviderTraced, InvokeTraced, HostTraced DEF Next
  <1> QED
    BY <1>1, <1>2, PTL DEF Spec

\* A Create that ends its bootstrap with ok leaves neither the bootstrap init
\* nor the token file, whatever was lost, killed or done by others meanwhile.
THEOREM CompletesScrubbed == Spec => CompletedCreateScrubbed
  <1> DEFINE Act == \A p \in Proc :
                       pc[p] = "token" /\ pc'[p] = "idle" /\ reply'[p] = "ok"
                       /\ Exists(cur[p])
                       => cts[cur[p]].steady /\ ~cts[cur[p]].token
  <1>1. ASSUME Traced, [Next]_vars PROVE Act
    <2>1. SUFFICES ASSUME NEW p \in Proc, pc[p] = "token", pc'[p] = "idle",
                          reply'[p] = "ok", Exists(cur[p])
                   PROVE  cts[cur[p]].steady /\ ~cts[cur[p]].token
      OBVIOUS
    <2>2. IInv /\ cts[cur[p]].steady /\ cur[p] \in AtPath(req[p].name)
      BY <1>1, <2>1 DEF Traced, Tracked, IInv, Local, Dispatched, Progress, At,
                        AtPath, Bootstrapping
    <2>3. Provider(p)
      BY <1>1, <2>1, <2>2, Steps
    <2>4. TokenGone(p) \/ BootstrapFails(p) \/ FailCall(p)
      BY <2>1, <2>3 DEF Provider, CreateLooksUp, CreateContainer, StageToken,
         StagedReadBack, StartContainer, ScrubInit, CreateConfirms,
         CleanupLooks, CleanupStops, CleanupLooksAgain, CleanupDeletes,
         CleanupFails, Cleaning, Find, DeleteContainer, DeleteVerifies,
         StopContainer, StopVerifies, ListContainers, Sweep
    <2>5. ~FailCall(p)
      BY <1>1, <2>1, <2>2 DEF FailCall, Return, IInv, Types
    <2>6. ~BootstrapFails(p)
      BY <1>1, <2>1, <2>2 DEF BootstrapFails, GiveUp, IInv, Types
    <2>7. TokenGone(p)
      BY <2>4, <2>5, <2>6
    <2>8. ~GiveUp(p, "ErrManagedDrift")
      BY <1>1, <2>1, <2>2 DEF GiveUp, IInv, Types
    <2> QED
      BY <2>1, <2>2, <2>7, <2>8 DEF TokenGone, TokenAt
  <1>2. Spec => [][Act]_vars
    BY <1>1, TracedHolds, PTL DEF Spec
  <1> QED
    BY <1>2 DEF CompletedCreateScrubbed
-----------------------------------------------------------------------------
(* The view of GuestPromise.                                               *)

workload == [i \in Id |-> WorkloadOf(cts[i])]
job == [p \in Proc |-> JobOf(p)]
answer == [p \in Proc |-> reply[p] = "ok"]

\* The calls of a Create that has its container.
Holding == Bootstrapping \cup Cleaning

\* The container that a command is for, in the words of Job.
JobId(p) == CASE req[p].op # "Create" -> req[p].ct
              [] req[p].op = "Create" /\ pc[p] \in Holding -> cur[p]
              [] OTHER -> 0

LEMMA WorkloadType ==
  ASSUME NEW ct \in Container
  PROVE  /\ WorkloadOf(ct) \in Promise!Workload /\ WorkloadOf(ct) # None
         /\ WorkloadOf(ct).name = ct.name
         /\ WorkloadOf(ct).owner = ct.controller
         /\ WorkloadOf(ct).phase \in {"made", "active", "finished"}
         /\ WorkloadOf(ct).phase = "active" <=> ct.state # "STOPPED"
         /\ WorkloadOf(ct).phase = "finished" <=> ct.state = "STOPPED" /\ ct.started
  <1> DEFINE f == IF ct.state # "STOPPED" THEN "active"
                  ELSE IF ct.started THEN "finished" ELSE "made"
  <1>1. f \in {"made", "active", "finished"}
    OBVIOUS
  <1>2. /\ f = "active" <=> ct.state # "STOPPED"
        /\ f = "finished" <=> ct.state = "STOPPED" /\ ct.started
    OBVIOUS
  <1>3. WorkloadOf(ct) = [name |-> ct.name, owner |-> ct.controller, phase |-> f]
    BY NoneAssumption DEF WorkloadOf
  <1> HIDE DEF f
  <1>4. WorkloadOf(ct) \in [name : CTName, owner : Controller \cup {NoController},
                            phase : {"made", "active", "finished"}]
    BY <1>1, <1>3 DEF Container
  <1>5. WorkloadOf(ct) # None
    BY <1>4, NoneAssumption
  <1> QED
    BY <1>1, <1>2, <1>3, <1>4, <1>5 DEF Promise!Workload, Promise!Phase

LEMMA WorkloadAt ==
  ASSUME IInv, NEW i \in Id
  PROVE  /\ workload[i] = None <=> ~Exists(i)
         /\ Exists(i) =>
              /\ cts[i] \in Container
              /\ workload[i].name = cts[i].name
              /\ workload[i].owner = cts[i].controller
              /\ workload[i].phase = "active" <=> cts[i].state # "STOPPED"
              /\ workload[i].phase = "made" <=> cts[i].state = "STOPPED" /\ ~cts[i].started
  <1>1. workload[i] = WorkloadOf(cts[i])
    BY DEF workload
  <1>2. CASE ~Exists(i)
    BY <1>1, <1>2 DEF WorkloadOf, Exists
  <1>3. CASE Exists(i)
    <2>1. cts[i] \in Container
      BY <1>3 DEF IInv, Types, Exists
    <2> QED
      BY <1>1, <1>3, <2>1, WorkloadType
  <1> QED
    BY <1>2, <1>3

LEMMA JobType ==
  ASSUME IInv, NEW p \in Proc, pc[p] # "idle"
  PROVE  /\ JobOf(p) \in Promise!Job /\ JobOf(p) # None
         /\ JobOf(p).op = req[p].op /\ JobOf(p).controller = req[p].controller
         /\ JobOf(p).name = req[p].name /\ JobOf(p).id = JobId(p)
         /\ JobOf(p).seen = (pc[p] = "token")
  <1>1. req[p] \in Request /\ cur[p] \in Id \cup {0}
    BY DEF IInv, Types, Local, Dispatched
  <1>2. JobOf(p) = [op |-> req[p].op, controller |-> req[p].controller,
                    name |-> req[p].name, seen |-> pc[p] = "token",
                    id |-> JobId(p)]
    BY DEF JobOf, JobId, Holding
  <1>3. JobId(p) \in Id \cup {0} /\ (pc[p] = "token") \in BOOLEAN
    BY <1>1 DEF JobId, Request
  <1>4. JobOf(p) \in [op : Op, controller : Controller, name : CTName,
                      id : Id \cup {0}, seen : BOOLEAN]
    BY <1>1, <1>2, <1>3 DEF Request
  <1>5. JobOf(p) # None
    BY <1>4, NoneAssumption
  <1>6. JobOf(p) \in Promise!Job
    BY <1>4 DEF Promise!Job, Promise!Op, Op
  <1> QED
    BY <1>2, <1>5, <1>6

LEMMA SameTable ==
  ASSUME UNCHANGED cts PROVE workload' = workload
  BY DEF workload

LEMMA Row ==
  ASSUME IInv, NEW i \in Id, NEW v, cts' = [cts EXCEPT ![i] = v]
  PROVE  workload' = [workload EXCEPT ![i] = WorkloadOf(v)]
  BY DEF IInv, Types, workload

\* A container that is still the same one may have gone into another phase.
LEMMA PhaseRow ==
  ASSUME IInv, NEW i \in Id, Exists(i), NEW ct \in Container,
         cts' = [cts EXCEPT ![i] = ct],
         ct.name = cts[i].name, ct.controller = cts[i].controller
  PROVE  /\ workload' = [workload EXCEPT ![i].phase = WorkloadOf(ct).phase]
         /\ WorkloadOf(ct).phase = WorkloadOf(cts[i]).phase =>
               workload' = workload
  <1>1. cts[i] \in Container
    BY DEF IInv, Types, Exists
  <1> DEFINE w == WorkloadOf(cts[i])
             v == WorkloadOf(ct)
  <1>2. /\ w \in Promise!Workload /\ v \in Promise!Workload
        /\ v.name = w.name /\ v.owner = w.owner
    BY <1>1, WorkloadType
  <1>3. workload[i] = w /\ workload' = [workload EXCEPT ![i] = v]
    BY Row DEF workload
  <1> HIDE DEF w, v
  <1>4. v = [w EXCEPT !.phase = v.phase]
    BY <1>2 DEF Promise!Workload
  <1>5. v.phase = w.phase => v = w
    BY <1>2 DEF Promise!Workload
  <1>6. workload' = [workload EXCEPT ![i].phase = v.phase]
    BY <1>3, <1>4
  <1>7. v.phase = w.phase => workload' = workload
    BY <1>3, <1>5 DEF workload
  <1> QED
    BY <1>6, <1>7 DEF v, w

\* A process that answers, and one that goes on, in the words of GuestPromise.
LEMMA ReturnEnds ==
  ASSUME IInv, NEW p \in Proc, NEW e, Return(p, e)
  PROVE  /\ job' = [job EXCEPT ![p] = None]
         /\ answer' = [answer EXCEPT ![p] = (e = "ok")]
  <1>1. pc'[p] = "idle" /\ reply'[p] = e
    BY DEF IInv, Types, Return
  <1>2. ASSUME NEW q \in Proc, q # p
        PROVE  /\ pc'[q] = pc[q] /\ req'[q] = req[q] /\ cur'[q] = cur[q]
               /\ reply'[q] = reply[q]
    BY <1>2 DEF IInv, Types, Return
  <1>3. ASSUME NEW q \in Proc
        PROVE  JobOf(q)' = IF q = p THEN None ELSE JobOf(q)
    BY <1>1, <1>2 DEF JobOf, Holding
  <1>4. ASSUME NEW q \in Proc
        PROVE  (reply'[q] = "ok") = IF q = p THEN e = "ok" ELSE reply[q] = "ok"
    BY <1>1, <1>2
  <1> QED
    BY <1>3, <1>4 DEF job, answer

LEMMA GoesOn ==
  ASSUME IInv, NEW p \in Proc, pc[p] # "idle", pc'[p] # "idle",
         \A q \in Proc \ {p} : pc'[q] = pc[q] /\ cur'[q] = cur[q],
         UNCHANGED <<req, reply>>, JobId(p)' = JobId(p),
         pc[p] # "token", pc'[p] # "token"
  PROVE  job' = job /\ answer' = answer
  <1>1. \A q \in Proc \ {p} : JobOf(q)' = JobOf(q)
    BY DEF JobOf, Holding
  <1>2. JobOf(p)' = JobOf(p)
    BY DEF JobOf, JobId, Holding
  <1> QED
    BY <1>1, <1>2 DEF job, answer

LEMMA GotoGoesOn ==
  ASSUME IInv, NEW p \in Proc, pc[p] # "idle", NEW next, next # "idle", NEW i,
         Goto(p, next, i), next # "token", pc[p] # "token",
         req[p].op = "Create" =>
            /\ next \in Holding <=> pc[p] \in Holding
            /\ pc[p] \in Holding => i = cur[p]
  PROVE  job' = job /\ answer' = answer
  <1>1. /\ pc'[p] = next /\ cur'[p] = i /\ UNCHANGED <<req, reply>>
        /\ \A q \in Proc \ {p} : pc'[q] = pc[q] /\ cur'[q] = cur[q]
    BY DEF IInv, Types, Goto
  <1>2. JobId(p)' = JobId(p)
    BY <1>1 DEF JobId
  <1> QED
    BY <1>1, <1>2, GoesOn

\* What "ok" promises, told of containers.
Accomplished(p) ==
    LET r == req[p]
    IN  /\ r.op = "Create" =>
              \E i \in Id : /\ Exists(i) /\ cts[i].controller = r.controller
                            /\ cts[i].name = r.name
                            /\ pc[p] \in Holding =>
                                  i = cur[p] /\ cts[i].state # "STOPPED"
        /\ r.op \in {"ReconcileBootstrap", "Get", "Stop"} =>
              Exists(r.ct) /\ cts[r.ct].controller = r.controller
        /\ r.op = "Stop" => cts[r.ct].state = "STOPPED"
        /\ r.op = "Delete" => ~Exists(r.ct)

LEMMA Achieves ==
  ASSUME IInv, NEW p \in Proc, pc[p] # "idle", Accomplished(p)
  PROVE  Promise!Achieved(JobOf(p))
  <1> DEFINE j == JobOf(p)
             r == req[p]
  <1>1. /\ j.op = r.op /\ j.controller = r.controller /\ j.name = r.name
        /\ j.id = JobId(p)
    BY JobType
  <1>2. r \in Request /\ r.ct \in Id
    BY DEF IInv, Local, Dispatched, Request
  <1> HIDE DEF j, r
  <1>3. ASSUME j.op = "Create"
        PROVE  \E i \in Id : /\ Promise!Owned(j, i) /\ workload[i].name = j.name
                             /\ j.id # 0 =>
                                  i = j.id /\ workload[i].phase = "active"
    <2>1. PICK i \in Id : /\ Exists(i) /\ cts[i].controller = r.controller
                          /\ cts[i].name = r.name
                          /\ pc[p] \in Holding =>
                                i = cur[p] /\ cts[i].state # "STOPPED"
      BY <1>1, <1>3 DEF Accomplished, r
    <2>2. j.id # 0 => pc[p] \in Holding /\ j.id = cur[p]
      BY <1>1, <1>3 DEF JobId, r
    <2>3. /\ workload[i] # None /\ workload[i].owner = j.controller
          /\ workload[i].name = j.name
          /\ j.id # 0 => i = j.id /\ workload[i].phase = "active"
      BY <1>1, <2>1, <2>2, WorkloadAt
    <2>4. Promise!Owned(j, i)
      BY <2>3 DEF Promise!Owned, workload
    <2> QED
      BY <2>3, <2>4
  <1>4. j.op # "Create" => j.id = r.ct
    BY <1>1 DEF JobId, r
  <1>5. ASSUME j.op \in {"ReconcileBootstrap", "Get", "Stop"}
        PROVE  /\ Promise!Owned(j, j.id)
               /\ j.op = "Stop" => workload[j.id].phase # "active"
    <2>1. /\ Exists(r.ct) /\ cts[r.ct].controller = r.controller
          /\ j.op = "Stop" => cts[r.ct].state = "STOPPED"
      BY <1>1, <1>5 DEF Accomplished, r
    <2>2. /\ workload[r.ct] # None /\ workload[r.ct].owner = j.controller
          /\ j.op = "Stop" => workload[r.ct].phase # "active"
      BY <1>1, <1>2, <2>1, WorkloadAt
    <2> QED
      BY <1>2, <1>4, <1>5, <2>2 DEF Promise!Owned, workload
  <1>6. j.op = "Delete" => workload[j.id] = None
    BY <1>1, <1>2, <1>4, WorkloadAt DEF Accomplished, r
  <1> QED
    BY <1>3, <1>5, <1>6 DEF Promise!Achieved, workload, j

LEMMA IsAnswer ==
  ASSUME IInv, NEW p \in Proc, pc[p] # "idle", workload' = workload,
         NEW e, Return(p, e), e = "ok" => pc[p] = "token" \/ Accomplished(p)
  PROVE  Promise!Answer(p)
  <1>1. /\ job[p] = JobOf(p) /\ job[p] # None /\ job[p].op = req[p].op
        /\ req[p].op \in Op
    BY JobType DEF job, IInv, Local, Dispatched, Request
  <1>2. /\ job' = [job EXCEPT ![p] = None]
        /\ answer' = [answer EXCEPT ![p] = (e = "ok")]
    BY ReturnEnds
  <1>3. (e = "ok") \in BOOLEAN
    OBVIOUS
  <1>4. e = "ok" => job[p].seen \/ Promise!Achieved(job[p])
    BY <1>1, JobType, Achieves
  <1>5. \E ok \in BOOLEAN : /\ job' = [job EXCEPT ![p] = None]
                            /\ answer' = [answer EXCEPT ![p] = ok]
                            /\ ok => job[p].seen \/ Promise!Achieved(job[p])
    BY <1>2, <1>3, <1>4
  <1> QED
    BY <1>1, <1>5 DEF Promise!Answer, Promise!End, Promise!Serves, Promise!Op,
       Op, workload, job, answer

LEMMA IsBegin ==
  ASSUME IInv, NEW p \in Proc, Invoke(p), IInv'
  PROVE  Promise!Begin(p)
  <1>1. /\ pc[p] = "idle" /\ pc'[p] # "idle" /\ pc'[p] \notin Holding
        /\ \A q \in Proc \ {p} : pc'[q] = pc[q] /\ req'[q] = req[q]
        /\ UNCHANGED <<cts, cur, reply>>
    BY DEF Invoke, IInv, Types, Holding, Bootstrapping, Cleaning
  <1>2. job[p] = None
    BY <1>1 DEF job, JobOf
  <1>3. req'[p] \in Request /\ cur'[p] \in Id \cup {0}
    BY <1>1 DEF IInv, Types, Local, Dispatched
  <1>4. JobOf(p)' = [op |-> req'[p].op, controller |-> req'[p].controller,
                     name |-> req'[p].name, seen |-> FALSE, id |-> JobId(p)']
    <2>1. (pc'[p] = "token") = FALSE
      BY <1>1 DEF Holding, Bootstrapping
    <2> QED
      BY <1>1, <2>1 DEF JobOf, JobId, Holding
  <1>5. /\ JobId(p)' \in Id \cup {0}
        /\ req'[p].op = "Create" => JobId(p)' = 0
    BY <1>1, <1>3 DEF JobId, Request
  <1>6. JobOf(p)' \in [op : Op, controller : Controller, name : CTName,
                       id : Id \cup {0}, seen : BOOLEAN]
    BY <1>3, <1>4, <1>5 DEF Request
  <1>7. /\ job'[p] \in Promise!Job /\ ~job'[p].seen
        /\ job'[p].op = "Create" => job'[p].id = 0
    <2>1. job'[p] = JobOf(p)'
      BY DEF job
    <2>2. JobOf(p)' \in Promise!Job
      BY <1>6 DEF Promise!Job, Promise!Op, Op
    <2>3. /\ ~(JobOf(p)').seen /\ (JobOf(p)').op = req'[p].op
          /\ (JobOf(p)').id = JobId(p)'
      BY <1>4
    <2> QED
      BY <1>5, <2>1, <2>2, <2>3
  <1>8. \A q \in Proc \ {p} : JobOf(q)' = JobOf(q)
    BY <1>1 DEF JobOf, Holding
  <1>9. job' = [job EXCEPT ![p] = job'[p]]
    BY <1>8 DEF job
  <1>10. workload' = workload /\ answer' = answer
    BY <1>1, SameTable DEF answer
  <1> QED
    BY <1>2, <1>7, <1>9, <1>10 DEF Promise!Begin, workload, job, answer

LEMMA IsRefuse ==
  ASSUME IInv, NEW p \in Proc, InvokeRefused(p)
  PROVE  Promise!Refuse(p)
  <1>1. pc[p] = "idle" /\ UNCHANGED cts
    BY DEF InvokeRefused
  <1>2. PICK e \in {"ErrUnsupported", "ErrUnsafeOperation"} : Return(p, e)
    BY DEF InvokeRefused
  <1>3. job[p] = None
    BY <1>1 DEF job, JobOf
  <1>4. job' = [job EXCEPT ![p] = None] /\ answer' = [answer EXCEPT ![p] = (e = "ok")]
    BY <1>2, ReturnEnds
  <1>5. job' = job
    BY <1>3, <1>4 DEF job
  <1>6. answer' = [answer EXCEPT ![p] = FALSE]
    BY <1>4
  <1>7. workload' = workload
    BY <1>1, SameTable
  <1> QED
    BY <1>3, <1>5, <1>6, <1>7 DEF Promise!Refuse, workload, job, answer

\* A command goes on after a step, or its answer is lost.
Onward(p) == \/ job' = job /\ answer' = answer
             \/ job' = [job EXCEPT ![p] = None] /\ answer' = [answer EXCEPT ![p] = FALSE]

LEMMA ReturnOnward ==
  ASSUME IInv, NEW p \in Proc, Return(p, "error")
  PROVE  job' = [job EXCEPT ![p] = None] /\ answer' = [answer EXCEPT ![p] = FALSE]
  <1>1. /\ job' = [job EXCEPT ![p] = None]
        /\ answer' = [answer EXCEPT ![p] = ("error" = "ok")]
    BY ReturnEnds
  <1> QED
    BY <1>1

LEMMA EffectOnward ==
  ASSUME IInv, NEW p \in Proc, pc[p] # "idle", NEW next, next # "idle",
         Effect(p, next, cur[p]), next # "token", pc[p] # "token",
         req[p].op = "Create" => (next \in Holding <=> pc[p] \in Holding)
  PROVE  Onward(p)
  <1>1. CASE Goto(p, next, cur[p])
    BY <1>1, GotoGoesOn DEF Onward
  <1>2. CASE Return(p, "error")
    BY <1>2, ReturnOnward DEF Onward
  <1> QED
    BY <1>1, <1>2 DEF Effect

-----------------------------------------------------------------------------
\* A Create that gives up before it has seen its container run.
LEMMA GiveUpGoesOn ==
  ASSUME IInv, NEW p \in Proc, pc[p] \in Holding, pc[p] # "token", NEW e,
         GiveUp(p, e)
  PROVE  job' = job /\ answer' = answer
  <1>1. /\ pc'[p] = "cleanup" /\ UNCHANGED <<req, cur, reply>>
        /\ \A q \in Proc \ {p} : pc'[q] = pc[q]
    BY DEF IInv, Types, GiveUp
  <1>2. JobId(p)' = JobId(p)
    BY <1>1 DEF JobId, Holding, Cleaning
  <1>3. pc[p] # "idle"
    BY DEF Holding, Bootstrapping, Cleaning
  <1> QED
    BY <1>1, <1>2, <1>3, GoesOn

LEMMA BootstrapOnward ==
  ASSUME IInv, NEW p \in Proc, pc[p] \in Holding, pc[p] # "token",
         NEW next \in Holding, next # "token", BootstrapEffect(p, next)
  PROVE  Onward(p)
  <1>1. pc[p] # "idle" /\ next # "idle"
    BY DEF Holding, Bootstrapping, Cleaning
  <1>2. CASE Effect(p, next, cur[p])
    BY <1>1, <1>2, EffectOnward
  <1>3. CASE GiveUp(p, "error")
    BY <1>3, GiveUpGoesOn DEF Onward
  <1> QED
    BY <1>2, <1>3 DEF BootstrapEffect, Effect

\* A Create that looks at its container, or looks again, in hand all along.
LEMMA Attests ==
  ASSUME IInv, NEW p \in Proc, pc[p] \in Holding, pc'[p] \in Holding,
         req[p].op = "Create", UNCHANGED <<req, cur, reply>>,
         \A q \in Proc \ {p} : pc'[q] = pc[q],
         NEW s \in BOOLEAN, s = (pc'[p] = "token")
  PROVE  /\ job' = [job EXCEPT ![p] = [JobOf(p) EXCEPT !.seen = s]]
         /\ answer' = answer
  <1> DEFINE j == JobOf(p)
             r == req[p]
             k == cur[p]
  <1>1. PICK f \in BOOLEAN : f = (pc[p] = "token")
    OBVIOUS
  <1>2. pc[p] # "idle" /\ pc'[p] # "idle"
    BY DEF Holding, Bootstrapping, Cleaning
  <1>3. j = [op |-> r.op, controller |-> r.controller, name |-> r.name,
             seen |-> f, id |-> k]
    BY <1>1, <1>2 DEF JobOf, Holding
  <1>4. JobOf(p)' = [op |-> r.op, controller |-> r.controller,
                     name |-> r.name, seen |-> s, id |-> k]
    BY <1>2 DEF JobOf, Holding
  <1>5. JobOf(p)' = [j EXCEPT !.seen = s]
    <2> HIDE DEF r, k, j
    <2> QED
      BY <1>3, <1>4
  <1>6. \A q \in Proc \ {p} : JobOf(q)' = JobOf(q)
    BY DEF JobOf
  <1> HIDE DEF j
  <1>7. job' = [job EXCEPT ![p] = [j EXCEPT !.seen = s]]
    BY <1>5, <1>6 DEF job
  <1> QED
    BY <1>7 DEF answer, j
-----------------------------------------------------------------------------
(* The steps that change a container, or what a Create has seen of it.     *)

LEMMA IsCreate ==
  ASSUME IInv, NEW p \in Proc, CreateContainer(p), IInv'
  PROVE  Promise!Create(p)
  <1> DEFINE j == JobOf(p)
             r == req[p]
             i == r.id + 1
             w == [name |-> r.name, owner |-> r.controller, phase |-> "made"]
  <1>1. /\ pc[p] = "create" /\ r.op = "Create" /\ r \in Request
        /\ cts' = [cts EXCEPT ![i] = Created(r)] /\ cts[i] = None
        /\ \A k \in Id : Exists(k) => cts[k].name # r.name
        /\ Goto(p, "stage", i) \/ Return(p, "error")
    BY DEF CreateContainer, Effect, IInv, Local, Dispatched, Unmade, Exists
  <1>2. i \in Id /\ i # 0
    BY <1>1, ContainerConfigAssumption DEF IInv, Local, Types, Numbered, Id
  <1>3. /\ job[p] = j /\ j # None /\ j.op = "Create" /\ j.name = r.name
        /\ j.controller = r.controller /\ j.id = 0
    BY <1>1, JobType DEF job, JobId, Holding, Bootstrapping, Cleaning
  <1>4. WorkloadOf(Created(r)) = w
    <2>1. Created(r) \in Container
      BY <1>1 DEF Created, Container, Request
    <2>2. Created(r) # None
      BY <2>1, NoneAssumption
    <2> QED
      BY <2>2 DEF WorkloadOf, Created
  <1>5. workload' = [workload EXCEPT ![i] = w]
    <2> HIDE DEF i, r, w
    <2> QED
      BY <1>1, <1>2, <1>4, Row
  <1>6. workload[i] = None
    BY <1>1, <1>2 DEF workload, WorkloadOf
  <1>7. \A k \in Id : workload[k] # None => workload[k].name # r.name
    BY <1>1, WorkloadAt
  <1>8. \/ job' = [job EXCEPT ![p] = [j EXCEPT !.id = i]] /\ answer' = answer
        \/ job' = [job EXCEPT ![p] = None] /\ answer' = [answer EXCEPT ![p] = FALSE]
    <2>1. CASE Return(p, "error")
      BY <2>1, ReturnOnward
    <2>2. CASE Goto(p, "stage", i)
      <3>1. /\ pc'[p] = "stage" /\ cur'[p] = i /\ UNCHANGED <<req, reply>>
            /\ \A q \in Proc \ {p} : pc'[q] = pc[q] /\ cur'[q] = cur[q]
        BY <2>2 DEF Goto, IInv, Types
      <3>2. PICK f \in BOOLEAN : f = FALSE
        OBVIOUS
      <3>3. JobOf(p)' = [op |-> r.op, controller |-> r.controller,
                         name |-> r.name, seen |-> f, id |-> i]
        BY <1>1, <3>1, <3>2 DEF JobOf, Bootstrapping, Cleaning
      <3>4. j = [op |-> r.op, controller |-> r.controller,
                 name |-> r.name, seen |-> f, id |-> 0]
        BY <1>1, <3>2 DEF JobOf, Bootstrapping, Cleaning
      <3>5. JobOf(p)' = [j EXCEPT !.id = i]
        <4> HIDE DEF i, r
        <4> QED
          BY <3>3, <3>4
      <3>6. \A q \in Proc \ {p} : JobOf(q)' = JobOf(q)
        BY <3>1 DEF JobOf
      <3> HIDE DEF j, i
      <3>7. job' = [job EXCEPT ![p] = [j EXCEPT !.id = i]]
        BY <3>5, <3>6 DEF job
      <3> QED
        BY <3>1, <3>7 DEF answer
    <2> QED
      BY <1>1, <2>1, <2>2
  <1> HIDE DEF j, i, r
  <1> QED
    BY <1>2, <1>3, <1>5, <1>6, <1>7, <1>8
       DEF Promise!Create, Promise!Serves, Promise!End, workload, job, answer

LEMMA IsStart ==
  ASSUME Traced, NEW p \in Proc, StartContainer(p)
  PROVE  Promise!Start(p)
  <1> DEFINE j == JobOf(p)
             k == cur[p]
             b == ~cts[k].steady
             ct == [cts[k] EXCEPT !.state = "RUNNING", !.wrapper = b,
                                  !.started = TRUE]
  <1>0. IInv /\ Local(p) /\ Mine(p) /\ Tracked(p)
    BY DEF Traced, IInv
  <1>1. /\ pc[p] = "start" /\ k \in Id /\ Exists(k) /\ req[p].op = "Create"
        /\ cts[k].controller = req[p].controller
        /\ cts[k].state = "STOPPED" /\ ~cts[k].started
        /\ cts' = [cts EXCEPT ![k].state = "RUNNING", ![k].wrapper = b,
                              ![k].started = TRUE]
        /\ BootstrapEffect(p, "scrub")
    BY <1>0 DEF StartContainer, Local, Dispatched, Mine, Tracked, At, Bootstrapping
  <1>2. b \in BOOLEAN
    OBVIOUS
  <1> HIDE DEF b
  <1>3. /\ cts' = [cts EXCEPT ![k] = ct] /\ ct \in Container /\ ct.name = cts[k].name
        /\ ct.controller = cts[k].controller /\ ct.state # "STOPPED"
    BY <1>0, <1>1, <1>2 DEF IInv, Types, Exists, Container
  <1>4. /\ job[p] = j /\ j # None /\ j.op = "Create"
        /\ j.controller = req[p].controller /\ j.id = k
    BY <1>0, <1>1, JobType DEF job, JobId, Holding, Bootstrapping
  <1>5. /\ workload[k] # None /\ workload[k].owner = j.controller
        /\ workload[k].phase = "made"
    BY <1>0, <1>1, <1>4, WorkloadAt
  <1> HIDE DEF ct
  <1>6. workload' = [workload EXCEPT ![k].phase = "active"]
    <2>1. WorkloadOf(ct).phase = "active"
      BY <1>3, WorkloadType
    <2>2. workload' = [workload EXCEPT ![k].phase = WorkloadOf(ct).phase]
      <3> HIDE DEF k
      <3> QED
        BY <1>0, <1>1, <1>3, PhaseRow
    <2> QED
      BY <2>1, <2>2
  <1>7. Onward(p)
    BY <1>0, <1>1, BootstrapOnward DEF Holding, Bootstrapping
  <1> HIDE DEF j, k
  <1> QED
    BY <1>1, <1>4, <1>5, <1>6, <1>7 DEF Onward, Promise!Start,
       Promise!Serves, Promise!Owned, Promise!Continue, Promise!End, workload,
       job, answer

\* Stop and the clean-up of a Create, which are obeyed.
LEMMA IsHalt ==
  ASSUME Traced, NEW p \in Proc, StopContainer(p) \/ CleanupStops(p),
         cts[cur[p]].state # "STOPPED",
         cts' = [cts EXCEPT ![cur[p]].state = "STOPPED", ![cur[p]].wrapper = FALSE]
  PROVE  Promise!Halt(p)
  <1> DEFINE j == JobOf(p)
             k == cur[p]
             ct == [cts[k] EXCEPT !.state = "STOPPED", !.wrapper = FALSE]
  <1>0. IInv /\ Local(p) /\ Mine(p) /\ Tracked(p) /\ Ran
    BY DEF Traced, IInv
  <1>1. /\ pc[p] \in {"stop", "halt"} /\ k \in Id /\ Exists(k)
        /\ pc[p] = "stop" => req[p].op = "Stop" /\ k = req[p].ct
        /\ pc[p] = "halt" => req[p].op = "Create"
    BY <1>0 DEF StopContainer, CleanupStops, Local, Dispatched, Tracked, Cleaning
  <1>2. cts[k].controller = req[p].controller /\ cts[k].started
    BY <1>0, <1>1 DEF Mine, At, Harmful, Ran
  <1>3. /\ cts' = [cts EXCEPT ![k] = ct] /\ ct \in Container /\ ct.name = cts[k].name
        /\ ct.controller = cts[k].controller /\ ct.state = "STOPPED" /\ ct.started
    BY <1>0, <1>1, <1>2 DEF IInv, Types, Exists, Container
  <1>4. /\ job[p] = j /\ j # None /\ j.op \in {"Create", "Stop"}
        /\ j.controller = req[p].controller /\ j.id = k
    BY <1>0, <1>1, JobType DEF job, JobId, Holding, Cleaning
  <1>5. /\ workload[k] # None /\ workload[k].owner = j.controller
        /\ workload[k].phase = "active"
    BY <1>0, <1>1, <1>2, <1>4, WorkloadAt
  <1> HIDE DEF ct
  <1>6. workload' = [workload EXCEPT ![k].phase = "finished"]
    <2>1. WorkloadOf(ct).phase = "finished"
      BY <1>3, WorkloadType
    <2>2. workload' = [workload EXCEPT ![k].phase = WorkloadOf(ct).phase]
      <3> HIDE DEF k
      <3> QED
        BY <1>0, <1>1, <1>3, PhaseRow
    <2> QED
      BY <2>1, <2>2
  <1>7. Onward(p)
    <2>1. CASE StopContainer(p)
      BY <1>0, <1>1, <2>1, EffectOnward DEF StopContainer
    <2>2. CASE CleanupStops(p)
      <3>1. pc[p] = "halt" /\ err[p] # "ok"
        BY <1>0, <2>2 DEF CleanupStops, Tracked, Cleaning
      <3>2. CASE Goto(p, "halted", k)
        BY <1>0, <3>1, <3>2, GotoGoesOn DEF Onward, Holding, Cleaning
      <3>3. CASE Return(p, err[p])
        <4>1. /\ job' = [job EXCEPT ![p] = None]
              /\ answer' = [answer EXCEPT ![p] = (err[p] = "ok")]
          BY <1>0, <3>3, ReturnEnds
        <4> QED
          BY <3>1, <4>1 DEF Onward
      <3> QED
        BY <2>2, <3>2, <3>3 DEF CleanupStops
    <2> QED
      BY <2>1, <2>2
  <1> HIDE DEF j, k
  <1> QED
    BY <1>1, <1>4, <1>5, <1>6, <1>7 DEF Onward, Promise!Halt,
       Promise!Serves, Promise!Owned, Promise!Continue, Promise!End, workload,
       job, answer

LEMMA IsRetire ==
  ASSUME Traced, NEW p \in Proc, DeleteContainer(p) \/ CleanupDeletes(p),
         Exists(cur[p])
  PROVE  Promise!Retire(p)
  <1> DEFINE j == JobOf(p)
             k == cur[p]
  <1>0. IInv /\ Local(p) /\ Mine(p) /\ Progress(p) /\ Tracked(p)
    BY DEF Traced, IInv
  <1>1. /\ pc[p] \in {"destroy", "remove"} /\ k \in Id
        /\ pc[p] = "destroy" => req[p].op \in {"Delete", "RemoveAll"}
        /\ pc[p] = "remove" => req[p].op = "Create"
        /\ pc[p] = "destroy" => req[p].op = "RemoveAll" \/ k = req[p].ct
        /\ cts' = [cts EXCEPT ![k] = None]
    BY <1>0 DEF DeleteContainer, CleanupDeletes, Local, Dispatched, Tracked,
       Cleaning
  <1>2. /\ cts[k].controller = req[p].controller
        /\ cts[k].state = "STOPPED"
    BY <1>0, <1>1 DEF Mine, Progress, At, Harmful
  <1>3. /\ job[p] = j /\ j # None /\ j.op = req[p].op
        /\ j.controller = req[p].controller
        /\ j.op # "RemoveAll" => k = j.id
    BY <1>0, <1>1, JobType DEF job, JobId, Holding, Cleaning
  <1>4. /\ workload[k] # None /\ workload[k].owner = j.controller
        /\ workload[k].phase # "active"
    BY <1>0, <1>1, <1>2, <1>3, WorkloadAt
  <1>5. workload' = [workload EXCEPT ![k] = None]
    <2>1. WorkloadOf(None) = None
      BY DEF WorkloadOf
    <2>2. workload' = [workload EXCEPT ![k] = WorkloadOf(None)]
      <3> HIDE DEF k
      <3> QED
        BY <1>0, <1>1, Row
    <2> QED
      BY <2>1, <2>2
  <1>6. \/ job' = [job EXCEPT ![p] = None] /\ answer' = [answer EXCEPT ![p] = FALSE]
        \/ j.op # "Create" /\ job' = job /\ answer' = answer
    <2>1. CASE DeleteContainer(p)
      <3>1. Onward(p)
        BY <1>0, <1>1, <2>1, EffectOnward DEF DeleteContainer
      <3> QED
        BY <1>1, <1>3, <2>1, <3>1 DEF Onward, DeleteContainer
    <2>2. CASE CleanupDeletes(p)
      <3>1. err[p] # "ok" /\ Return(p, err[p])
        BY <1>0, <2>2 DEF CleanupDeletes, Tracked, Cleaning
      <3>2. /\ job' = [job EXCEPT ![p] = None]
            /\ answer' = [answer EXCEPT ![p] = (err[p] = "ok")]
        BY <1>0, <3>1, ReturnEnds
      <3> QED
        BY <3>1, <3>2
    <2> QED
      BY <2>1, <2>2
  <1>7. j.op \in {"Create", "Delete", "RemoveAll"}
    BY <1>1, <1>3
  <1> HIDE DEF j, k
  <1> QED
    BY <1>1, <1>3, <1>4, <1>5, <1>6, <1>7 DEF Promise!Retire,
       Promise!Serves, Promise!Owned, Promise!Continue, Promise!End, workload,
       job, answer

\* The read-back finds the container running, or a later check takes it back.
LEMMA IsAttest ==
  ASSUME Traced, NEW p \in Proc, UNCHANGED cts,
         \/ CreateConfirms(p) /\ Goto(p, "token", cur[p])
         \/ pc[p] = "token" /\ \E e : GiveUp(p, e)
  PROVE  Promise!Attest(p)
  <1> DEFINE j == JobOf(p)
             k == cur[p]
  <1>0. IInv /\ Local(p) /\ Tracked(p)
    BY DEF Traced, IInv
  <1>1. pc[p] \in {"confirm", "token"} /\ req[p].op = "Create" /\ k \in Id
    BY <1>0 DEF CreateConfirms, Local, Dispatched, Bootstrapping
  <1>2. pc[p] \in Holding /\ pc[p] # "idle"
    BY <1>1 DEF Holding, Bootstrapping
  <1>3. /\ job[p] = j /\ j # None /\ j.op = "Create" /\ j.id = k /\ k # 0
    BY <1>0, <1>1, <1>2, JobType DEF job, JobId, Id
  <1>4. \E s \in BOOLEAN :
           /\ s => Promise!Achieved(j)
           /\ job' = [job EXCEPT ![p] = [j EXCEPT !.seen = s]]
           /\ answer' = answer
    <2>1. CASE CreateConfirms(p) /\ Goto(p, "token", k)
      <3>1. /\ pc'[p] = "token" /\ UNCHANGED <<req, reply>>
            /\ cur' = cur /\ \A q \in Proc \ {p} : pc'[q] = pc[q]
        BY <1>0, <2>1 DEF Goto, IInv, Types
      <3>2. PICK s \in BOOLEAN : s = (pc'[p] = "token")
        OBVIOUS
      <3>3. /\ findOwned(k, req[p].controller) = "ok"
            /\ cts[k].state = "RUNNING"
        <4> DEFINE e == findOwned(k, req[p].controller)
        <4>1. pc[p] = "confirm"
          BY <2>1 DEF CreateConfirms
        <4>2. ASSUME NEW x, GiveUp(p, x) PROVE FALSE
          BY <1>0, <3>1, <4>2 DEF GiveUp, IInv, Types
        <4>3. CASE e # "ok" /\ GiveUp(p, e)
          BY <4>2, <4>3
        <4>4. CASE e = "ok" /\ cts[k].state # "RUNNING" /\ GiveUp(p, "ErrManagedDrift")
          BY <4>2, <4>4
        <4>5. \/ e # "ok" /\ GiveUp(p, e)
              \/ e = "ok" /\ cts[k].state # "RUNNING" /\ GiveUp(p, "ErrManagedDrift")
              \/ e = "ok" /\ cts[k].state = "RUNNING"
          <5> HIDE DEF e
          <5> QED
            BY <2>1 DEF CreateConfirms, e
        <4> QED
          BY <4>3, <4>4, <4>5
      <3>4. Exists(k) /\ cts[k].controller = req[p].controller
        BY <3>3, FindOwnedClass
      <3>5. cts[k].name = req[p].name
        BY <1>0, <1>1, <3>4 DEF Tracked, At, Bootstrapping
      <3>6. Accomplished(p)
        BY <1>1, <3>3, <3>4, <3>5 DEF Accomplished
      <3>7. Promise!Achieved(j)
        BY <1>0, <1>2, <3>6, Achieves
      <3>8. pc'[p] \in Holding
        BY <3>1 DEF Holding, Bootstrapping
      <3> HIDE DEF j
      <3>9. /\ job' = [job EXCEPT ![p] = [j EXCEPT !.seen = s]]
            /\ answer' = answer
        BY <1>0, <1>1, <1>2, <3>1, <3>2, <3>8, Attests DEF j
      <3> QED
        BY <3>7, <3>9
    <2>2. ASSUME NEW e, GiveUp(p, e)
          PROVE  \E s \in BOOLEAN :
                    /\ s => Promise!Achieved(j)
                    /\ job' = [job EXCEPT ![p] = [j EXCEPT !.seen = s]]
                    /\ answer' = answer
      <3>1. /\ pc'[p] = "cleanup" /\ UNCHANGED <<req, cur, reply>>
            /\ \A q \in Proc \ {p} : pc'[q] = pc[q]
        BY <1>0, <2>2 DEF GiveUp, IInv, Types
      <3>2. PICK s \in BOOLEAN : s = (pc'[p] = "token")
        OBVIOUS
      <3>3. pc'[p] \in Holding
        BY <3>1 DEF Holding, Cleaning
      <3> HIDE DEF j
      <3>4. /\ job' = [job EXCEPT ![p] = [j EXCEPT !.seen = s]]
            /\ answer' = answer
        BY <1>0, <1>1, <1>2, <3>1, <3>2, <3>3, Attests DEF j
      <3> QED
        BY <3>1, <3>2, <3>4
    <2> QED
      BY <2>1, <2>2
  <1>5. workload' = workload
    BY SameTable
  <1> HIDE DEF j, k
  <1> QED
    BY <1>3, <1>4, <1>5 DEF Promise!Attest, Promise!Serves, workload, job, answer
-----------------------------------------------------------------------------
LEMMA HostUnseen ==
  ASSUME IInv, NEW i \in Id, InitWrapper(i) \/ ContainerRuns(i) \/ OperatorActs(i)
  PROVE  job' = job /\ answer' = answer
  BY DEF InitWrapper, ContainerRuns, OperatorActs, job, JobOf, answer

\* What the containers and the operator do, as GuestPromise sees it.
LEMMA IsHost ==
  ASSUME Traced, NEW i \in Id, InitWrapper(i) \/ ContainerRuns(i) \/ OperatorActs(i)
  PROVE  \/ Promise!Host(i)
         \/ workload' = workload /\ job' = job /\ answer' = answer
  <1>0. /\ IInv /\ Ran /\ Exists(i) /\ cts[i] \in Container
        /\ cts \in [Id -> Container \cup {None}]
    BY DEF Traced, IInv, Types, Exists, InitWrapper, ContainerRuns, OperatorActs
  <1>1. job' = job /\ answer' = answer
    BY <1>0, HostUnseen
  <1>2. workload[i] # None
    BY <1>0, WorkloadAt
  <1>3. ASSUME NEW ct \in Container, cts' = [cts EXCEPT ![i] = ct],
               ct.name = cts[i].name, ct.controller = cts[i].controller,
               ct.started = cts[i].started,
               ct.state = cts[i].state \/ cts[i].state # "STOPPED"
        PROVE  \/ Promise!Host(i)
               \/ workload' = workload /\ job' = job /\ answer' = answer
    <2> DEFINE f == WorkloadOf(ct).phase
               w == WorkloadOf(cts[i]).phase
    <2>1. workload' = [workload EXCEPT ![i].phase = f] /\ (f = w => workload' = workload)
      BY <1>0, <1>3, PhaseRow
    <2>2. /\ f \in {"made", "active", "finished"}
          /\ f = "active" <=> ct.state # "STOPPED"
          /\ f = "finished" <=> ct.state = "STOPPED" /\ ct.started
      BY <1>3, WorkloadType
    <2>3. /\ w \in {"made", "active", "finished"}
          /\ w = "active" <=> cts[i].state # "STOPPED"
          /\ w = "finished" <=> cts[i].state = "STOPPED" /\ cts[i].started
      BY <1>0, WorkloadType
    <2>4. workload[i].phase = w
      BY DEF workload
    <2> HIDE DEF f, w
    <2>5. f = w \/ (w = "active" /\ f = "finished")
      BY <1>0, <1>3, <2>2, <2>3 DEF Ran
    <2> QED
      BY <1>1, <1>2, <2>1, <2>4, <2>5
         DEF Promise!Host, Promise!Continue, workload, job, answer
  <1>f. PICK b \in BOOLEAN : b = FALSE
    OBVIOUS
  <1>4. CASE InitWrapper(i)
    <2> DEFINE ct == [cts[i] EXCEPT !.token = b, !.wrapper = b]
    <2>1. cts' = [cts EXCEPT ![i].token = b, ![i].wrapper = b]
      BY <1>4, <1>f DEF InitWrapper
    <2>2. /\ cts' = [cts EXCEPT ![i] = ct] /\ ct \in Container
          /\ ct.name = cts[i].name /\ ct.controller = cts[i].controller
          /\ ct.started = cts[i].started /\ ct.state = cts[i].state
      BY <1>0, <2>1 DEF Container
    <2> HIDE DEF ct
    <2> QED
      BY <1>3, <2>2
  <1>5. ASSUME NEW s \in {"RUNNING", "STOPPED", "PAUSED"},
               NEW t \in BOOLEAN, cts[i].state # "STOPPED",
               cts' = [cts EXCEPT ![i].state = s, ![i].wrapper = t]
        PROVE  \/ Promise!Host(i)
               \/ workload' = workload /\ job' = job /\ answer' = answer
    <2> DEFINE ct == [cts[i] EXCEPT !.state = s, !.wrapper = t]
    <2>1. /\ cts' = [cts EXCEPT ![i] = ct] /\ ct \in Container
          /\ ct.name = cts[i].name /\ ct.controller = cts[i].controller
          /\ ct.started = cts[i].started
      BY <1>0, <1>5 DEF Container
    <2> HIDE DEF ct
    <2> QED
      BY <1>3, <1>5, <2>1
  <1>6. CASE ContainerRuns(i)
    <2>1. cts[i].state # "STOPPED" /\ cts[i].wrapper \in BOOLEAN
      BY <1>0, <1>6 DEF ContainerRuns, Container
    <2>2. CASE cts' = [cts EXCEPT ![i].state = "STOPPED", ![i].wrapper = FALSE]
      BY <1>5, <2>1, <2>2
    <2>3. ASSUME NEW s \in {"RUNNING", "PAUSED"}, cts' = [cts EXCEPT ![i].state = s]
          PROVE  \/ Promise!Host(i)
                 \/ workload' = workload /\ job' = job /\ answer' = answer
      <3>1. cts' = [cts EXCEPT ![i].state = s, ![i].wrapper = cts[i].wrapper]
        BY <1>0, <2>3 DEF Container
      <3> QED
        BY <1>5, <2>1, <3>1
    <2> QED
      BY <1>6, <2>2, <2>3 DEF ContainerRuns
  <1>7. CASE cts' = [cts EXCEPT ![i].fixed = FALSE]
    <2> DEFINE ct == [cts[i] EXCEPT !.fixed = b]
    <2>1. /\ cts' = [cts EXCEPT ![i] = ct] /\ ct \in Container
          /\ ct.name = cts[i].name /\ ct.controller = cts[i].controller
          /\ ct.started = cts[i].started /\ ct.state = cts[i].state
      BY <1>0, <1>7, <1>f DEF Container
    <2> HIDE DEF ct
    <2> QED
      BY <1>3, <2>1
  <1>8. CASE "delete" \in HostEvents /\ cts' = [cts EXCEPT ![i] = None]
    <2>1. WorkloadOf(None) = None
      BY DEF WorkloadOf
    <2>2. workload' = [workload EXCEPT ![i] = None]
      BY <1>0, <1>8, <2>1, Row
    <2> QED
      BY <1>1, <1>2, <1>8, <2>2
         DEF Promise!Host, Promise!Continue, workload, job, answer
  <1> QED
    BY <1>4, <1>6, <1>7, <1>8 DEF OperatorActs
-----------------------------------------------------------------------------
(* The steps of a provider process.                                        *)

\* One step of a process as GuestPromise may see it.
Promised(p) == \/ Promise!Answer(p) \/ Promise!Create(p) \/ Promise!Start(p)
               \/ Promise!Attest(p) \/ Promise!Halt(p) \/ Promise!Retire(p)
               \/ workload' = workload /\ job' = job /\ answer' = answer

\* SweepOn says "ok" to a Delete whose container is gone.
LEMMA SweepPromised ==
  ASSUME IInv, NEW p \in Proc, pc[p] # "idle", NEW T, NEW e,
         SweepOn(p, T, e), UNCHANGED cts, pc[p] # "token",
         req[p].op \in {"List", "Delete", "RemoveAll"},
         req[p].op = "Delete" => ~Exists(req[p].ct)
  PROVE  Promised(p)
  <1>0. workload' = workload
    BY SameTable
  <1>1. CASE T = {}
    <2>1. Accomplished(p)
      BY DEF Accomplished
    <2> QED
      BY <1>0, <1>1, <2>1, IsAnswer DEF Promised, SweepOn
  <1>2. CASE T # {}
    <2>1. /\ pc'[p] = "sweep" /\ UNCHANGED <<req, cur, reply>>
          /\ \A q \in Proc \ {p} : pc'[q] = pc[q] /\ cur'[q] = cur[q]
      BY <1>2 DEF SweepOn, IInv, Types
    <2>2. JobId(p)' = JobId(p)
      BY <2>1 DEF JobId
    <2> QED
      BY <1>0, <2>1, <2>2, GoesOn DEF Promised
  <1> QED
    BY <1>1, <1>2

\* A container that is told to stop when it has stopped is the same to
\* GuestPromise.
LEMMA StoppedAgain ==
  ASSUME IInv, NEW i \in Id, Exists(i), cts[i].state = "STOPPED",
         cts' = [cts EXCEPT ![i].state = "STOPPED", ![i].wrapper = FALSE]
  PROVE  workload' = workload
  <1>1. cts \in [Id -> Container \cup {None}] /\ cts[i] \in Container
    BY DEF IInv, Types, Exists
  <1>2. PICK b \in BOOLEAN : b = FALSE
    OBVIOUS
  <1> DEFINE ct == [cts[i] EXCEPT !.state = "STOPPED", !.wrapper = b]
  <1>3. /\ cts' = [cts EXCEPT ![i] = ct] /\ ct \in Container
        /\ ct.name = cts[i].name /\ ct.controller = cts[i].controller
        /\ ct.state = cts[i].state /\ ct.started = cts[i].started
    BY <1>1, <1>2 DEF Container
  <1> HIDE DEF ct
  <1>4. WorkloadOf(ct).phase = WorkloadOf(cts[i]).phase
    <2>1. ct # None /\ cts[i] # None
      BY <1>1, <1>3, NoneAssumption
    <2> QED
      BY <1>3, <2>1 DEF WorkloadOf
  <1> QED
    BY <1>3, <1>4, PhaseRow

\* A step of a Create that has its container and only looks, or writes what
\* GuestPromise does not see.
LEMMA HoldingPromised ==
  ASSUME Traced, NEW p \in Proc, pc[p] \in Holding, workload' = workload,
         \/ /\ pc[p] # "token"
            /\ \/ \E next \in Holding \ {"token"} : BootstrapEffect(p, next)
               \/ \E next \in Holding \ {"token"} : Goto(p, next, cur[p])
               \/ \E e : GiveUp(p, e)
         \/ \E e : e # "ok" /\ Return(p, e)
  PROVE  Promised(p)
  <1>0. IInv
    BY DEF Traced
  <1>1. pc[p] # "idle"
    BY DEF Holding, Bootstrapping, Cleaning
  <1>2. ASSUME NEW e, e # "ok", Return(p, e) PROVE Promised(p)
    BY <1>0, <1>1, <1>2, IsAnswer DEF Promised
  <1>3. ASSUME NEW e, GiveUp(p, e), pc[p] # "token" PROVE Promised(p)
    BY <1>0, <1>3, GiveUpGoesOn DEF Promised
  <1>4. ASSUME NEW next \in Holding \ {"token"}, Goto(p, next, cur[p]),
               pc[p] # "token"
        PROVE  Promised(p)
    <2>1. next # "idle"
      BY DEF Holding, Bootstrapping, Cleaning
    <2> QED
      BY <1>0, <1>1, <1>4, <2>1, GotoGoesOn DEF Promised
  <1> QED
    BY <1>2, <1>3, <1>4 DEF BootstrapEffect
-----------------------------------------------------------------------------
\* The steps of a Create that has its container.
LEMMA BootstrapPromised ==
  ASSUME Traced, NEW p \in Proc,
         \/ StageToken(p) \/ StagedReadBack(p) \/ StartContainer(p)
         \/ ScrubInit(p) \/ CreateConfirms(p) \/ TokenGone(p)
         \/ BootstrapFails(p)
  PROVE  Promised(p)
  <1> DEFINE k == cur[p]
  <1>0. IInv /\ Local(p) /\ cts \in [Id -> Container \cup {None}]
    BY DEF Traced, IInv, Types
  <1>1. pc[p] \in Bootstrapping
    BY DEF StageToken, StagedReadBack, StartContainer, ScrubInit,
       CreateConfirms, TokenGone, BootstrapFails, Bootstrapping
  <1>2. pc[p] \in Holding /\ k \in Id
    BY <1>0, <1>1 DEF Holding, Local, Dispatched
  <1>3. {"readback", "start", "scrub", "confirm"} \subseteq Holding \ {"token"}
    BY DEF Holding, Bootstrapping
  <1>4. CASE StageToken(p) \/ ScrubInit(p)
    <2>1. /\ pc[p] # "token"
          /\ \E next \in {"readback", "confirm"} : BootstrapEffect(p, next)
      BY <1>4 DEF StageToken, ScrubInit
    <2>2. PICK b \in BOOLEAN : b = TRUE
      OBVIOUS
    <2>3. CASE UNCHANGED cts
      BY <1>2, <1>3, <2>1, <2>3, SameTable, HoldingPromised
    <2>4. ASSUME NEW j \in Id, Exists(j), NEW ct \in Container,
                 cts' = [cts EXCEPT ![j] = ct],
                 ct.name = cts[j].name, ct.controller = cts[j].controller,
                 ct.state = cts[j].state, ct.started = cts[j].started
          PROVE  Promised(p)
      <3>1. WorkloadOf(ct).phase = WorkloadOf(cts[j]).phase
        <4>1. ct # None /\ cts[j] # None
          BY <2>4, NoneAssumption DEF Exists
        <4> QED
          BY <2>4, <4>1 DEF WorkloadOf
      <3>2. workload' = workload
        BY <1>0, <2>4, <3>1, PhaseRow
      <3> QED
        BY <1>2, <1>3, <2>1, <3>2, HoldingPromised
    <2>5. ASSUME NEW j \in Id, Exists(j), cts' = [cts EXCEPT ![j].token = TRUE]
          PROVE  Promised(p)
      <3> DEFINE ct == [cts[j] EXCEPT !.token = b]
      <3>1. /\ cts' = [cts EXCEPT ![j] = ct] /\ ct \in Container
            /\ ct.name = cts[j].name /\ ct.controller = cts[j].controller
            /\ ct.state = cts[j].state /\ ct.started = cts[j].started
        BY <1>0, <2>2, <2>5 DEF Container, Exists
      <3> HIDE DEF ct
      <3> QED
        BY <2>4, <2>5, <3>1
    <2>6. CASE Exists(k) /\ cts' = [cts EXCEPT ![k].steady = TRUE]
      <3> DEFINE ct == [cts[k] EXCEPT !.steady = b]
      <3>1. /\ cts' = [cts EXCEPT ![k] = ct] /\ ct \in Container
            /\ ct.name = cts[k].name /\ ct.controller = cts[k].controller
            /\ ct.state = cts[k].state /\ ct.started = cts[k].started
        BY <1>0, <1>2, <2>2, <2>6 DEF Container, Exists
      <3> HIDE DEF ct
      <3> QED
        BY <1>2, <2>4, <2>6, <3>1
    <2> QED
      BY <1>4, <2>3, <2>5, <2>6 DEF StageToken, ScrubInit, AtPath
  <1>5. CASE StagedReadBack(p)
    <2>1. /\ UNCHANGED cts /\ pc[p] # "token"
          /\ Goto(p, "start", k) \/ GiveUp(p, "ErrNotFound")
      BY <1>5 DEF StagedReadBack
    <2> QED
      BY <1>2, <1>3, <2>1, SameTable, HoldingPromised
  <1>6. CASE StartContainer(p)
    BY <1>6, IsStart DEF Promised
  <1>7. CASE CreateConfirms(p)
    <2>1. /\ UNCHANGED cts /\ pc[p] # "token"
          /\ Goto(p, "token", k) \/ \E e : GiveUp(p, e)
      BY <1>7 DEF CreateConfirms
    <2>2. CASE Goto(p, "token", k)
      BY <1>7, <2>1, <2>2, IsAttest DEF Promised
    <2> QED
      BY <1>2, <2>1, <2>2, SameTable, HoldingPromised
  <1>8. CASE TokenGone(p)
    <2>1. /\ UNCHANGED cts /\ pc[p] = "token"
          /\ Return(p, "ok") \/ GiveUp(p, "ErrManagedDrift")
      BY <1>8 DEF TokenGone
    <2>2. CASE Return(p, "ok")
      BY <1>0, <2>1, <2>2, SameTable, IsAnswer DEF Promised
    <2> QED
      BY <2>1, <2>2, IsAttest DEF Promised
  <1>9. CASE BootstrapFails(p)
    <2>1. UNCHANGED cts /\ GiveUp(p, "error")
      BY <1>9 DEF BootstrapFails
    <2>2. CASE pc[p] = "token"
      BY <2>1, <2>2, IsAttest DEF Promised
    <2> QED
      BY <1>2, <2>1, <2>2, SameTable, HoldingPromised
  <1> QED
    BY <1>4, <1>5, <1>6, <1>7, <1>8, <1>9

LEMMA CleanupPromised ==
  ASSUME Traced, NEW p \in Proc,
         \/ CleanupLooks(p) \/ CleanupStops(p) \/ CleanupLooksAgain(p)
         \/ CleanupDeletes(p) \/ CleanupFails(p)
  PROVE  Promised(p)
  <1> DEFINE k == cur[p]
  <1>0. /\ IInv /\ Local(p) /\ Tracked(p)
        /\ cts \in [Id -> Container \cup {None}]
    BY DEF Traced, IInv, Types
  <1>1. pc[p] \in Cleaning
    BY DEF CleanupLooks, CleanupStops, CleanupLooksAgain, CleanupDeletes,
       CleanupFails, Cleaning
  <1>2. /\ pc[p] \in Holding /\ pc[p] # "token" /\ k \in Id /\ err[p] # "ok"
    BY <1>0, <1>1 DEF Holding, Cleaning, Local, Dispatched, Tracked
  <1>3. {"halt", "halted", "remove"} \subseteq Holding \ {"token"}
    BY DEF Holding, Cleaning
  <1>4. ASSUME UNCHANGED cts,
               \/ \E next \in {"halt", "halted", "remove"} : Goto(p, next, k)
               \/ Return(p, err[p])
        PROVE  Promised(p)
    BY <1>2, <1>3, <1>4, SameTable, HoldingPromised
  <1>5. CASE CleanupLooks(p) \/ CleanupLooksAgain(p) \/ CleanupFails(p)
    BY <1>4, <1>5 DEF CleanupLooks, CleanupLooksAgain, CleanupFails
  <1>6. CASE CleanupStops(p)
    <2>1. /\ Exists(k) /\ cts[k] \in Container
          /\ cts' = [cts EXCEPT ![k].state = "STOPPED", ![k].wrapper = FALSE]
          /\ Goto(p, "halted", k) \/ Return(p, err[p])
      BY <1>0, <1>2, <1>6 DEF CleanupStops, Exists
    <2>2. CASE cts[k].state # "STOPPED"
      BY <1>6, <2>1, <2>2, IsHalt DEF Promised
    <2>3. CASE cts[k].state = "STOPPED"
      <3>1. workload' = workload
        BY <1>0, <1>2, <2>1, <2>3, StoppedAgain
      <3> QED
        BY <1>2, <1>3, <2>1, <3>1, HoldingPromised
    <2> QED
      BY <2>2, <2>3
  <1>7. CASE CleanupDeletes(p)
    <2>1. CASE Exists(k)
      BY <1>7, <2>1, IsRetire DEF Promised
    <2>2. CASE ~Exists(k)
      <3>1. UNCHANGED cts /\ Return(p, err[p])
        BY <1>0, <1>7, <2>2 DEF CleanupDeletes, Exists
      <3> QED
        BY <1>4, <3>1
    <2> QED
      BY <2>1, <2>2
  <1> QED
    BY <1>5, <1>6, <1>7

LEMMA ProviderPromised ==
  ASSUME Traced, NEW p \in Proc, Provider(p), IInv' PROVE Promised(p)
  <1> DEFINE r == req[p]
             k == cur[p]
  <1>0. /\ IInv /\ Local(p) /\ Mine(p) /\ Tracked(p)
        /\ cts \in [Id -> Container \cup {None}]
    BY DEF Traced, IInv, Types
  <1>a. pc[p] # "idle"
    BY DEF Provider, CreateLooksUp, CreateContainer, StageToken,
       StagedReadBack, StartContainer, ScrubInit, CreateConfirms, TokenGone,
       BootstrapFails, CleanupLooks, CleanupStops, CleanupLooksAgain,
       CleanupDeletes, CleanupFails, Find, DeleteContainer, DeleteVerifies,
       StopContainer, StopVerifies, ListContainers, Sweep, FailCall,
       Bootstrapping, Cleaning
  <1>b. r \in Request /\ r.ct \in Id
    BY <1>0, <1>a DEF Local, Dispatched, Request
  <1>c. ASSUME NEW e, Return(p, e), e = "ok" => Accomplished(p), UNCHANGED cts
        PROVE  Promised(p)
    BY <1>0, <1>a, <1>c, SameTable, IsAnswer DEF Promised
  <1>d. ASSUME NEW next, Effect(p, next, k), next \notin {"idle", "token"},
               pc[p] # "token", r.op # "Create", workload' = workload
        PROVE  Promised(p)
    <2>1. CASE Goto(p, next, k)
      BY <1>0, <1>a, <1>d, <2>1, GotoGoesOn DEF Promised
    <2>2. CASE Return(p, "error")
      BY <1>0, <1>a, <1>d, <2>2, IsAnswer DEF Promised
    <2> QED
      BY <1>d, <2>1, <2>2 DEF Effect
  <1>1. CASE CreateLooksUp(p)
    <2>1. pc[p] = "lookup" /\ r.op = "Create" /\ UNCHANGED cts
      BY <1>0, <1>1 DEF CreateLooksUp, Local
    <2>2. pc[p] \notin Holding /\ "create" \notin Holding
      BY <2>1 DEF Holding, Bootstrapping, Cleaning
    <2>3. CASE Goto(p, "create", 0)
      BY <1>0, <2>1, <2>2, <2>3, GotoGoesOn, SameTable DEF Promised
    <2>4. ASSUME NEW i \in Id, Exists(i), cts[i].name = r.name,
                 Return(p, owner(cts[i], r.controller))
          PROVE  Promised(p)
      <3>1. PICK e : e = owner(cts[i], r.controller)
        OBVIOUS
      <3>2. e = "ok" => cts[i].controller = r.controller
        BY <3>1, OwnerClass
      <3>3. e = "ok" => Accomplished(p)
        BY <2>1, <2>2, <2>4, <3>2 DEF Accomplished
      <3> QED
        BY <1>c, <2>1, <2>4, <3>1, <3>3
    <2> QED
      BY <1>1, <2>3, <2>4 DEF CreateLooksUp
  <1>2. CASE CreateContainer(p)
    BY <1>0, <1>2, IsCreate DEF Promised
  <1>3. CASE Find(p)
    <2> DEFINE i == IF r.op = "RemoveAll" THEN k ELSE r.ct
               e == findOwned(i, r.controller)
    <2>1. /\ r.op \notin {"Create", "List"} /\ UNCHANGED cts /\ pc[p] = "find"
          /\ r.op # "RemoveAll" => i = r.ct
          /\ i \in Id /\ r.op \in Op
      BY <1>0, <1>3, <1>b DEF Find, Local, Request
    <2>2. /\ e = "ErrNotFound" => ~Exists(i)
          /\ e = "ok" => Exists(i) /\ cts[i].controller = r.controller
      BY FindOwnedClass DEF findOwned, owner, verifySteadyRuntime,
         verifyBaseRuntime
    <2> HIDE DEF e, i
    <2>3. ASSUME NEW next \in {"stop", "destroy"}, Goto(p, next, i)
          PROVE  Promised(p)
      BY <1>0, <1>a, <2>1, <2>3, GotoGoesOn, SameTable DEF Promised
    <2>4. CASE /\ e = "ErrNotFound" /\ r.op \in {"Delete", "RemoveAll"}
               /\ SweepOn(p, todo[p], err[p])
      BY <1>0, <1>a, <2>1, <2>2, <2>4, SweepPromised
    <2>5. ASSUME NEW x, x # "ok", Return(p, x) PROVE Promised(p)
      BY <1>c, <2>1, <2>5
    <2>6. ASSUME e = "ok", Return(p, "ok"),
                 r.op = "Get" \/ (r.op = "Stop" /\ cts[i].state = "STOPPED")
          PROVE  Promised(p)
      <3>1. Accomplished(p)
        BY <2>1, <2>2, <2>6 DEF Accomplished
      <3> QED
        BY <1>c, <2>1, <2>6, <3>1
    <2> QED
      BY <1>3, <2>3, <2>4, <2>5, <2>6 DEF Find, e, i
  <1>4. CASE DeleteContainer(p)
    <2>1. CASE Exists(k)
      BY <1>4, <2>1, IsRetire DEF Promised
    <2>2. CASE ~Exists(k)
      <3>1. /\ UNCHANGED cts /\ Effect(p, "absent", k) /\ r.op # "Create"
            /\ pc[p] # "token"
        BY <1>0, <1>4, <2>2 DEF DeleteContainer, Exists, Local, Dispatched
      <3> QED
        BY <1>d, <3>1, SameTable
    <2> QED
      BY <2>1, <2>2
  <1>5. CASE DeleteVerifies(p)
    <2>1. /\ r.op \in {"Delete", "RemoveAll"} /\ UNCHANGED cts
          /\ pc[p] # "token" /\ (r.op = "Delete" => k = r.ct)
          /\ \/ Return(p, "ErrManagedDrift")
             \/ ~Exists(k) /\ SweepOn(p, todo[p], err[p])
      BY <1>0, <1>5 DEF DeleteVerifies, Local, Dispatched, Tracked
    <2> QED
      BY <1>0, <1>a, <1>c, <2>1, SweepPromised
  <1>6. CASE StopContainer(p)
    <2>1. /\ pc[p] # "token" /\ Exists(k) /\ k \in Id /\ r.op = "Stop"
          /\ Effect(p, "stopped", k)
          /\ \/ cts' = [cts EXCEPT ![k].state = "STOPPED", ![k].wrapper = FALSE]
             \/ UNCHANGED cts
      BY <1>0, <1>6 DEF StopContainer, Local, Dispatched
    <2>2. CASE UNCHANGED cts
      BY <1>d, <2>1, <2>2, SameTable
    <2>3. CASE cts' = [cts EXCEPT ![k].state = "STOPPED", ![k].wrapper = FALSE]
      <3>1. CASE cts[k].state # "STOPPED"
        BY <1>6, <2>3, <3>1, IsHalt DEF Promised
      <3>2. CASE cts[k].state = "STOPPED"
        <4>1. workload' = workload
          BY <1>0, <2>1, <2>3, <3>2, StoppedAgain
        <4> QED
          BY <1>d, <2>1, <4>1
      <3> QED
        BY <3>1, <3>2
    <2> QED
      BY <2>1, <2>2, <2>3
  <1>7. CASE StopVerifies(p)
    <2>1. /\ UNCHANGED cts /\ r.op = "Stop" /\ k = r.ct
          /\ Exists(k) => cts[k].controller = r.controller
      BY <1>0, <1>7 DEF StopVerifies, Local, Dispatched, Tracked, At
    <2>2. PICK e : /\ Return(p, e)
                   /\ e = "ok" => Exists(k) /\ cts[k].state = "STOPPED"
      BY <1>7 DEF StopVerifies
    <2>3. e = "ok" => Accomplished(p)
      BY <2>1, <2>2 DEF Accomplished
    <2> QED
      BY <1>c, <2>1, <2>2, <2>3
  <1>8. CASE ListContainers(p)
    <2>1. /\ r.op \in {"List", "RemoveAll"} /\ UNCHANGED cts /\ pc[p] # "token"
          /\ Return(p, "ErrManagedDrift") \/ \E T : SweepOn(p, T, "ok")
      BY <1>0, <1>8 DEF ListContainers, Tracked
    <2> QED
      BY <1>0, <1>a, <1>c, <2>1, SweepPromised
  <1>9. CASE Sweep(p)
    <2>1. r.op = "RemoveAll" /\ UNCHANGED cts /\ pc[p] # "token"
      BY <1>0, <1>9 DEF Sweep, Tracked
    <2>2. Accomplished(p)
      BY <2>1 DEF Accomplished
    <2>3. PICK i \in todo[p] :
             \/ \E e : Return(p, e)
             \/ SweepOn(p, todo[p] \ {i}, "ErrActive")
             \/ /\ pc' = [pc EXCEPT ![p] = "find"]
                /\ cur' = [cur EXCEPT ![p] = i]
                /\ UNCHANGED <<req, reply>>
      BY <1>9 DEF Sweep
    <2>4. CASE /\ pc' = [pc EXCEPT ![p] = "find"]
               /\ cur' = [cur EXCEPT ![p] = i]
               /\ UNCHANGED <<req, reply>>
      <3>1. /\ pc'[p] = "find"
            /\ \A q \in Proc \ {p} : pc'[q] = pc[q] /\ cur'[q] = cur[q]
        BY <1>0, <2>4 DEF IInv, Types
      <3>2. JobId(p)' = JobId(p)
        BY <2>1, <2>4 DEF JobId
      <3> QED
        BY <1>0, <1>a, <2>1, <2>4, <3>1, <3>2, GoesOn, SameTable DEF Promised
    <2> QED
      BY <1>0, <1>a, <1>c, <2>1, <2>2, <2>3, <2>4, SweepPromised
  <1>10. CASE FailCall(p)
    BY <1>10, <1>c DEF FailCall
  <1> QED
    BY <1>1, <1>2, <1>3, <1>4, <1>5, <1>6, <1>7, <1>8, <1>9, <1>10,
       BootstrapPromised, CleanupPromised DEF Provider
-----------------------------------------------------------------------------
LEMMA PromiseInit == Init => Promise!Init
  <1> SUFFICES ASSUME Init PROVE Promise!Init
    OBVIOUS
  <1>1. IInv
    BY InitInv
  <1>2. \A i \in Id : WorkloadOf(cts[i]) \in Promise!Workload \cup {None}
    BY <1>1, WorkloadType DEF IInv, Types, WorkloadOf
  <1>3. \A p \in Proc : JobOf(p) = None
    BY DEF Init, JobOf
  <1>4. workload \in [Id -> Promise!Workload \cup {None}]
    BY <1>2 DEF workload
  <1>5. job = [p \in Proc |-> None]
    BY <1>3 DEF job
  <1>6. answer \in [Proc -> BOOLEAN]
    BY DEF answer
  <1> QED
    BY <1>4, <1>5, <1>6 DEF Promise!Init, workload, job, answer

LEMMA PromiseStep ==
  Traced /\ [Next]_vars => [Promise!Next]_(Promise!vars)
  <1> SUFFICES ASSUME Traced, [Next]_vars PROVE [Promise!Next]_(Promise!vars)
    OBVIOUS
  <1>0. IInv
    BY DEF Traced
  <1>a. ASSUME workload' = workload, job' = job, answer' = answer
        PROVE  UNCHANGED Promise!vars
    BY <1>a DEF Promise!vars, workload, job, answer
  <1>1. CASE UNCHANGED vars
    BY <1>1, <1>a DEF vars, workload, job, JobOf, answer
  <1>2. ASSUME NEW p \in Proc, Invoke(p) PROVE Promise!Next
    BY <1>0, <1>2, InvokeKeeps, IsBegin DEF Promise!Next
  <1>3. ASSUME NEW p \in Proc, InvokeRefused(p) PROVE Promise!Next
    BY <1>0, <1>3, IsRefuse DEF Promise!Next
  <1>4. ASSUME NEW p \in Proc, Provider(p)
        PROVE  Promise!Next \/ UNCHANGED Promise!vars
    BY <1>0, <1>4, <1>a, ProviderKeeps, ProviderPromised DEF Promised, Promise!Next
  <1>5. ASSUME NEW i \in Id, InitWrapper(i) \/ ContainerRuns(i) \/ OperatorActs(i)
        PROVE  Promise!Next \/ UNCHANGED Promise!vars
    BY <1>5, <1>a, IsHost DEF Promise!Next
  <1> QED
    BY <1>1, <1>2, <1>3, <1>4, <1>5 DEF Next

\* However many processes, controllers and containers there are, and whichever
\* call is lost, killed or overtaken: GARM and the host see the single steps of
\* GuestPromise.  A container is made, started once, stopped and taken away as
\* if at once, only for its own controller; a Create that gives up removes its
\* container only when it is stopped and never says "ok".
THEOREM Implements == Spec => KeepsPromise
  BY PromiseInit, PromiseStep, TracedHolds, PTL
     DEF Spec, KeepsPromise, Promise!Spec
=============================================================================
