------------------------------ MODULE VMProofs ------------------------------
(* What holds of VMBackend for every number of processes, controllers and  *)
(* commands, proved with TLAPS.                                            *)
EXTENDS VMBackend, TLAPS

\* The calls that are made for a VM of the controller's, and for a stopped one.
Working == Harmful \cup Building \cup {"consumed"}
Retiring == {"consumed", "detach", "unstage", "destroy"}

\* What process p knows of the command it serves, next to Dispatched(p).
Local(p) ==
    /\ Dispatched(p)
    /\ cur[p] <= calls + 1
    /\ pc[p] # "idle" => req[p].id \in 1..calls
    /\ pc[p] \in {"lookup", "clone"} => req[p].op = "Create"
    /\ pc[p] = "find" => /\ req[p].op \in Op \ {"Create", "List"}
                         /\ req[p].op = "RemoveAll" => cur[p] \in Id
    /\ pc[p] = "sweep" => req[p].op \in {"Delete", "RemoveAll"}
    /\ pc[p] \in Building => cur[p] = req[p].id + 1

\* The VM a Create is about to clone is nobody's yet.
Unmade(p) ==
    pc[p] \in {"lookup", "clone"} =>
       /\ ~Exists(req[p].id + 1)
       /\ \A q \in Proc : cur[q] # req[p].id + 1

\* Process p is at one of these calls, and the VM it is for exists.
At(p, calling) == pc[p] \in calling /\ Exists(cur[p])

\* The VM a process changes is its controller's own.
Mine(p) ==
    At(p, Working) => vms[cur[p]].controller = req[p].controller

\* Without overlap: until it is started, a clone is new, and has its seed when
\* that is attached; whatever is taken apart is stopped all the way.
Steady(p) ==
    Alone =>
       /\ At(p, {"stage", "attach", "start"}) =>
             vms[cur[p]].state = "STOPPED" /\ ~vms[cur[p]].started
       /\ At(p, {"attach", "start"}) => cur[p] \in seeds
       /\ At(p, {"start"}) => vms[cur[p]].seed
       /\ At(p, Retiring) => vms[cur[p]].state = "STOPPED"

\* Commands are numbered apart, and no VM is ahead of its command.
Numbered ==
    /\ calls <= MaxCalls
    /\ \A i \in Id : i > calls + 1 => ~Exists(i)
    /\ \A p, q \in Proc :
          pc[p] # "idle" /\ pc[q] # "idle" /\ p # q => req[p].id # req[q].id

\* A controller's mutating commands do not overlap.
Changes(p) == pc[p] # "idle" /\ req[p].op \in Mutating
OneMutator ==
    Alone => \A p, q \in Proc :
                Changes(p) /\ Changes(q) /\ req[p].controller = req[q].controller
                => p = q

IInv == /\ Types /\ Numbered /\ OneMutator /\ (Alone => SeedOutlivesRun)
        /\ \A p \in Proc : Local(p) /\ Unmade(p) /\ Mine(p) /\ Steady(p)
-----------------------------------------------------------------------------
(* Steps of a process in general.                                          *)

\* What one step of process p can make of VM i and its seed: nothing that the
\* others rely on changes but for what p's own next call is for.
Kept(p, i) ==
    /\ Exists(i)
    /\ vms'[i].controller = vms[i].controller
    /\ vms[i].state = "STOPPED" =>
          vms'[i].state = "STOPPED" \/ (pc[p] = "start" /\ i = cur[p])
    /\ vms'[i].started => vms[i].started \/ (pc[p] = "start" /\ i = cur[p])
    /\ vms[i].seed => vms'[i].seed \/ (pc[p] = "detach" /\ i = cur[p])
ChangedBy(p, i) ==
    /\ \/ vms'[i] = None
       \/ /\ pc[p] = "clone" /\ i = req[p].id + 1
          /\ vms'[i] = Cloned(req[p])
       \/ Kept(p, i)
    /\ i \in seeds => i \in seeds' \/ (pc[p] = "unstage" /\ i = cur[p])

LocalTypes ==
    /\ pc \in [Proc -> PC]
    /\ req \in [Proc -> Request \cup {NoRequest}]
    /\ cur \in [Proc -> Id \cup {0}]
    /\ todo \in [Proc -> SUBSET Id]
    /\ active \in [Proc -> BOOLEAN]
    /\ reply \in [Proc -> ErrClass]

\* A step that concerns p alone and takes up only a VM that exists or that p
\* clones.
LocalStep(p) ==
    /\ LocalTypes'
    /\ \A q \in Proc \ {p} :
          pc'[q] = pc[q] /\ req'[q] = req[q] /\ cur'[q] = cur[q]
    /\ pc'[p] = "idle" \/ req'[p] = req[p]
    /\ \/ cur'[p] \in {0, cur[p]}
       \/ cur'[p] \in Id /\ Exists(cur'[p])
       \/ pc[p] = "clone" /\ cur'[p] = req[p].id + 1

LEMMA ReturnStep ==
  ASSUME IInv, NEW p \in Proc, NEW e \in ErrClass, Return(p, e), calls' = calls
  PROVE  /\ LocalStep(p)
         /\ pc'[p] = "idle" /\ reply'[p] = e
         /\ Local(p)' /\ Unmade(p)' /\ Mine(p)' /\ Steady(p)'
  <1>1. LocalTypes'
    BY DEF IInv, Types, LocalTypes, Return, PC, ErrClass
  <1>2. pc'[p] = "idle" /\ cur'[p] = 0 /\ reply'[p] = e
    BY DEF IInv, Types, Return
  <1>3. \A q \in Proc \ {p} :
           pc'[q] = pc[q] /\ req'[q] = req[q] /\ cur'[q] = cur[q]
    BY DEF IInv, Types, Return
  <1>4. Local(p)'
    BY <1>2 DEF IInv, Types, Local, Dispatched, Building
  <1>5. Unmade(p)' /\ Mine(p)' /\ Steady(p)'
    BY <1>2 DEF Unmade, Mine, Steady, At, Working, Retiring, Harmful, Building
  <1> QED
    BY <1>1, <1>2, <1>3, <1>4, <1>5 DEF LocalStep

\* From one call to the next, with the same command.
LEMMA GotoStep ==
  ASSUME IInv, NEW p \in Proc, NEW next \in PC, NEW i \in Id \cup {0},
         Goto(p, next, i),
         \/ i \in {0, cur[p]}
         \/ i \in Id /\ Exists(i)
         \/ pc[p] = "clone" /\ i = req[p].id + 1
  PROVE  /\ LocalStep(p)
         /\ pc'[p] = next /\ cur'[p] = i /\ UNCHANGED req
  BY DEF IInv, Types, LocalTypes, Goto, LocalStep

\* A process that works on a VM of its controller's has it to itself.
LEMMA Exclusive ==
  ASSUME IInv, Alone, NEW p \in Proc, NEW q \in Proc, p # q,
         cur[p] = cur[q], Exists(cur[p]),
         pc[p] \in Working, pc[q] \in Working
  PROVE  FALSE
  <1>1. Changes(p) /\ Changes(q)
    BY DEF IInv, Local, Dispatched, Changes, Mutating, Working, Harmful,
       Building
  <1>2. req[p].controller = req[q].controller
    BY DEF IInv, Mine, At
  <1> QED
    BY <1>1, <1>2 DEF IInv, OneMutator

\* The others keep what they know.
LEMMA OthersKeep ==
  ASSUME IInv, NEW p \in Proc, NEW q \in Proc \ {p}, LocalStep(p),
         calls' = calls, pc[p] # "idle", \A i \in Id : ChangedBy(p, i)
  PROVE  Local(q)' /\ Unmade(q)' /\ Mine(q)' /\ Steady(q)'
  <1>1. pc'[q] = pc[q] /\ req'[q] = req[q] /\ cur'[q] = cur[q]
    BY DEF LocalStep
  <1>2. Local(q) /\ Unmade(q) /\ Mine(q) /\ Steady(q)
    BY DEF IInv
  <1>3. Local(p) /\ Unmade(p) /\ Mine(p) /\ Steady(p)
    BY DEF IInv
  <1>t. /\ req \in [Proc -> Request \cup {NoRequest}]
        /\ cur \in [Proc -> Id \cup {0}] /\ calls \in Nat /\ calls <= MaxCalls
    BY DEF IInv, Types, Numbered
  <1>4. Local(q)'
    BY <1>1, <1>2 DEF Local, Dispatched
  <1>5. pc[q] # "idle" => req[q].id # req[p].id
    BY DEF IInv, Numbered
  <1>6. ASSUME pc[q] # "idle" PROVE req[q].id + 1 \in Id
    BY <1>2, <1>6, <1>t, VMConfigAssumption DEF Local, Id
  <1>7. ASSUME pc[q] \in {"lookup", "clone"}
        PROVE  /\ vms'[req[q].id + 1] = None
               /\ \A r \in Proc : cur'[r] # req[q].id + 1
    <2>1. /\ ~Exists(req[q].id + 1) /\ \A r \in Proc : cur[r] # req[q].id + 1
          /\ req[q].id + 1 \in Id /\ req[q].id \in Nat
      BY <1>2, <1>6, <1>7 DEF Local, Unmade
    <2>2. req[p].id + 1 # req[q].id + 1
      BY <1>2, <1>3, <1>5, <1>7 DEF Local
    <2>a. ChangedBy(p, req[q].id + 1)
      BY <2>1
    <2>3. vms'[req[q].id + 1] = None
      BY <2>a, <2>1, <2>2 DEF ChangedBy, Kept
    <2>4. cur'[p] # req[q].id + 1
      BY <2>1, <2>2 DEF LocalStep
    <2>5. \A r \in Proc \ {p} : cur'[r] # req[q].id + 1
      BY <2>1 DEF LocalStep
    <2> QED
      BY <2>3, <2>4, <2>5
  <1>8. Unmade(q)'
    BY <1>1, <1>7 DEF Unmade, Exists
  <1>9. ASSUME cur[q] \in Id, vms'[cur[q]] # None
        PROVE  /\ Kept(p, cur[q])
               /\ cur[q] \in seeds =>
                     cur[q] \in seeds' \/ (pc[p] = "unstage" /\ cur[q] = cur[p])
    <2>1. ~(pc[p] = "clone" /\ cur[q] = req[p].id + 1)
      BY <1>3 DEF Unmade
    <2>2. ChangedBy(p, cur[q])
      BY <1>9
    <2> QED
      BY <1>9, <2>1, <2>2 DEF ChangedBy
  <1>10. pc[q] \in Working => cur[q] \in Id
    BY <1>2 DEF Local, Dispatched, Working, Harmful, Building
  <1>11. Mine(q)'
    BY <1>1, <1>2, <1>9, <1>10 DEF Mine, At, Exists, Kept
  <1>12. Steady(q)'
    <2>1. SUFFICES ASSUME Alone, pc[q] \in Working,
                          vms'[cur[q]] # None
                   PROVE  /\ vms[cur[q]].state = "STOPPED" =>
                                vms'[cur[q]].state = "STOPPED"
                          /\ vms'[cur[q]].started => vms[cur[q]].started
                          /\ vms[cur[q]].seed => vms'[cur[q]].seed
                          /\ cur[q] \in seeds => cur[q] \in seeds'
                          /\ Exists(cur[q])
      BY <1>1, <1>2 DEF Steady, At, Exists, Alone, Working, Retiring, Harmful,
         Building
    <2>2. /\ Kept(p, cur[q]) /\ Exists(cur[q])
          /\ cur[q] \in seeds =>
                cur[q] \in seeds' \/ (pc[p] = "unstage" /\ cur[q] = cur[p])
      BY <1>9, <1>10, <2>1 DEF Kept
    <2>3. pc[p] \in {"start", "detach", "unstage"} => cur[q] # cur[p]
      BY <2>1, <2>2, Exclusive DEF Working, Harmful, Building
    <2> QED
      BY <2>2, <2>3 DEF Kept
  <1> QED
    BY <1>4, <1>8, <1>11, <1>12

\* A step of p keeps the invariant if it does what p may do and leaves p with
\* what it must know at its next call.
LEMMA StepKeeps ==
  ASSUME IInv, NEW p \in Proc, LocalStep(p), calls' = calls, pc[p] # "idle",
         vms' \in [Id -> VM \cup {None}], seeds' \subseteq Id,
         \A i \in Id : ChangedBy(p, i),
         Local(p)', Unmade(p)', Mine(p)', Steady(p)'
  PROVE  IInv'
  <1>1. Types'
    BY DEF IInv, Types, LocalStep, LocalTypes
  <1>2. \A q \in Proc : Local(q)' /\ Unmade(q)' /\ Mine(q)' /\ Steady(q)'
    BY OthersKeep
  <1>3. Local(p) /\ Steady(p)
    BY DEF IInv
  <1>4. Numbered'
    <2>1. ASSUME NEW i \in Id, i > calls + 1 PROVE vms'[i] = None
      <3>1. ~Exists(i) /\ i # req[p].id + 1
        BY <1>3, <2>1 DEF IInv, Types, Numbered, Local
      <3> QED
        BY <3>1 DEF ChangedBy, Kept
    <2>2. ASSUME NEW q \in Proc, NEW r \in Proc, q # r,
                 pc'[q] # "idle", pc'[r] # "idle"
          PROVE  req'[q].id # req'[r].id
      BY <2>2 DEF IInv, Numbered, LocalStep
    <2> QED
      BY <2>1, <2>2 DEF IInv, Numbered, Exists
  <1>5. OneMutator'
    <2>1. ASSUME NEW q \in Proc, Changes(q)'
          PROVE  Changes(q) /\ req'[q] = req[q]
      BY <2>1 DEF Changes, LocalStep
    <2> QED
      BY <2>1 DEF IInv, OneMutator, Alone
  <1>6. Alone => SeedOutlivesRun'
    <2>1. SUFFICES ASSUME Alone, NEW i \in Id \ {1}, vms'[i] # None,
                          vms'[i].state # "STOPPED"
                   PROVE  vms'[i].seed /\ i \in seeds'
      BY DEF SeedOutlivesRun, Exists
    <2>2. ChangedBy(p, i)
      OBVIOUS
    <2>3. Kept(p, i)
      BY <2>1, <2>2 DEF ChangedBy, Cloned
    <2>4. CASE vms[i].state = "STOPPED"
      <3>1. pc[p] = "start" /\ i = cur[p]
        BY <2>1, <2>3, <2>4 DEF Kept
      <3>2. vms[i].seed /\ i \in seeds
        BY <1>3, <2>1, <2>3, <3>1 DEF Kept, Steady, At, Retiring
      <3> QED
        BY <2>2, <2>3, <3>1, <3>2 DEF Kept, ChangedBy
    <2>5. CASE vms[i].state # "STOPPED"
      <3>1. vms[i].seed /\ i \in seeds
        BY <2>1, <2>3, <2>5 DEF IInv, SeedOutlivesRun, Kept
      <3>2. ~(pc[p] \in {"detach", "unstage"} /\ i = cur[p])
        BY <1>3, <2>1, <2>3, <2>5 DEF Kept, Steady, At, Retiring
      <3> QED
        BY <2>2, <2>3, <3>1, <3>2 DEF Kept, ChangedBy
    <2> QED
      BY <2>4, <2>5
  <1> QED
    BY <1>1, <1>2, <1>4, <1>5, <1>6 DEF IInv, Alone

\* What a step does to the tables, in the shapes it has.
TableStep(p) == /\ calls' = calls
                /\ vms' \in [Id -> VM \cup {None}] /\ seeds' \subseteq Id
                /\ \A i \in Id : ChangedBy(p, i)

LEMMA LookStep ==
  ASSUME IInv, NEW p \in Proc, UNCHANGED <<vms, seeds, calls>>
  PROVE  TableStep(p)
  BY DEF IInv, Types, TableStep, ChangedBy, Kept, Exists

LEMMA DeleteStep ==
  ASSUME IInv, NEW p \in Proc, NEW i \in Id, vms' = [vms EXCEPT ![i] = None],
         UNCHANGED <<seeds, calls>>
  PROVE  TableStep(p)
  BY DEF IInv, Types, TableStep, ChangedBy, Kept, Exists

LEMMA UpdateStep ==
  ASSUME IInv, NEW p \in Proc, NEW i \in Id, Exists(i), NEW vm \in VM,
         vms' = [vms EXCEPT ![i] = vm], UNCHANGED <<seeds, calls>>,
         vm.controller = vms[i].controller,
         vms[i].state = "STOPPED" =>
            vm.state = "STOPPED" \/ (pc[p] = "start" /\ i = cur[p]),
         vm.started => vms[i].started \/ (pc[p] = "start" /\ i = cur[p]),
         vms[i].seed => vm.seed \/ (pc[p] = "detach" /\ i = cur[p])
  PROVE  TableStep(p) /\ vms'[i] = vm
  <1>1. vms' \in [Id -> VM \cup {None}] /\ vms'[i] = vm /\ seeds' \subseteq Id
    BY DEF IInv, Types
  <1>2. ChangedBy(p, i)
    BY <1>1 DEF ChangedBy, Kept
  <1>3. \A j \in Id \ {i} : ChangedBy(p, j)
    BY DEF IInv, Types, ChangedBy, Kept, Exists
  <1> QED
    BY <1>1, <1>2, <1>3 DEF TableStep

\* A process may answer at any call, whatever that call has done.
LEMMA ReturnKeeps ==
  ASSUME IInv, NEW p \in Proc, NEW e \in ErrClass, Return(p, e), pc[p] # "idle",
         TableStep(p)
  PROVE  IInv'
  BY ReturnStep, StepKeeps DEF TableStep

\* A command goes on with the VM it has, or takes up one that exists.
LEMMA AdvanceKeeps ==
  ASSUME IInv, NEW p \in Proc, NEW i \in Id, i = cur[p] \/ Exists(i),
         NEW next \in PC, Goto(p, next, i), pc[p] # "idle", TableStep(p),
         next \notin {"idle", "lookup", "clone", "find", "sweep"},
         Dispatched(p)',
         next \in Building => i = req[p].id + 1,
         next \in Working /\ vms'[i] # None =>
            vms'[i].controller = req[p].controller,
         Steady(p)'
  PROVE  IInv'
  <1>1. LocalStep(p) /\ pc'[p] = next /\ cur'[p] = i /\ UNCHANGED req
    BY GotoStep
  <1>2. i <= calls + 1
    BY DEF IInv, Numbered, Local, Types, Id
  <1>3. Local(p)'
    BY <1>1, <1>2 DEF TableStep, IInv, Local
  <1>4. Unmade(p)'
    BY <1>1 DEF Unmade
  <1>5. Mine(p)'
    BY <1>1 DEF Mine, At, Exists
  <1> QED
    BY <1>1, <1>3, <1>4, <1>5, StepKeeps DEF TableStep

\* The VM a process works on is still its controller's after a step of it.
LEMMA StaysMine ==
  ASSUME IInv, NEW p \in Proc, TableStep(p), cur[p] \in Id, pc[p] # "clone",
         Exists(cur[p]) => vms[cur[p]].controller = req[p].controller,
         vms'[cur[p]] # None
  PROVE  Exists(cur[p]) /\ vms'[cur[p]].controller = req[p].controller
  <1>1. ChangedBy(p, cur[p])
    BY DEF TableStep
  <1> QED
    BY <1>1 DEF ChangedBy, Kept

LEMMA OwnerClass ==
  ASSUME NEW vm, NEW c
  PROVE  /\ owner(vm, c) \in ErrClass
         /\ owner(vm, c) = "ok" => vm.controller = c
  BY DEF owner, verifyRuntime, ErrClass

LEMMA FindOwnedClass ==
  ASSUME NEW i, NEW c
  PROVE  /\ findOwned(i, c) \in ErrClass
         /\ findOwned(i, c) = "ok" => Exists(i) /\ vms[i].controller = c
  BY OwnerClass DEF findOwned, ErrClass
-----------------------------------------------------------------------------
(* Create.                                                                 *)

LEMMA GotoNext ==
  ASSUME IInv, NEW p \in Proc, NEW next, NEW i, Goto(p, next, i)
  PROVE  pc'[p] = next /\ cur'[p] = i /\ req'[p] = req[p]
  BY DEF IInv, Types, Goto

LEMMA CreateKeeps ==
  ASSUME IInv, NEW p \in Proc, CreateLooksUp(p) \/ Clone(p)
  PROVE  IInv'
  <1> DEFINE r == req[p]
  <1>1. /\ Local(p) /\ Unmade(p) /\ pc[p] \in {"lookup", "clone"}
        /\ r \in Request /\ r.id \in 1..calls /\ r.op = "Create"
        /\ r.id + 1 \in Id /\ r.id \in Nat /\ ~Exists(r.id + 1)
    BY VMConfigAssumption
       DEF IInv, Types, Numbered, Local, Dispatched, Unmade, Id, Request,
           CreateLooksUp, Clone
  <1>2. CASE CreateLooksUp(p)
    <2>1. TableStep(p) /\ calls' = calls
      BY <1>2, LookStep DEF CreateLooksUp
    <2>2. CASE \E i \in Id : Return(p, owner(vms[i], r.controller))
      BY <1>1, <2>1, <2>2, OwnerClass, ReturnKeeps
    <2>3. CASE Goto(p, "clone", 0)
      <3>1. LocalStep(p) /\ pc'[p] = "clone" /\ cur'[p] = 0 /\ UNCHANGED req
        BY <2>3, GotoStep DEF PC
      <3>2. Local(p)'
        BY <1>1, <2>1, <3>1 DEF IInv, Types, Local, Dispatched, Building
      <3>3. Unmade(p)'
        <4>1. \A q \in Proc : cur'[q] # r.id + 1
          BY <1>1, <3>1 DEF Unmade, LocalStep
        <4>2. vms'[r.id + 1] = None
          BY <1>1, <1>2 DEF CreateLooksUp, Exists
        <4> QED
          BY <3>1, <4>1, <4>2 DEF Unmade, Exists
      <3>4. Mine(p)' /\ Steady(p)'
        BY <3>1 DEF Mine, Steady, At, Working, Retiring, Harmful, Building
      <3> QED
        BY <1>1, <2>1, <3>1, <3>2, <3>3, <3>4, StepKeeps DEF TableStep
    <2> QED
      BY <1>2, <2>2, <2>3 DEF CreateLooksUp
  <1>3. CASE Clone(p)
    <2>1. /\ vms' = [vms EXCEPT ![r.id + 1] = Cloned(r)] /\ calls' = calls
          /\ seeds' = seeds /\ pc[p] = "clone"
      BY <1>3 DEF Clone
    <2>2. Cloned(r) \in VM
      BY <1>1 DEF Cloned, VM, Request
    <2>3. TableStep(p) /\ vms'[r.id + 1] = Cloned(r)
      BY <1>1, <2>1, <2>2 DEF IInv, Types, TableStep, ChangedBy, Kept, Exists
    <2>4. CASE Return(p, "error")
      BY <1>1, <2>3, <2>4, ReturnKeeps DEF ErrClass
    <2>5. CASE Goto(p, "stage", r.id + 1)
      <3>1. LocalStep(p) /\ pc'[p] = "stage" /\ cur'[p] = r.id + 1 /\ UNCHANGED req
        BY <1>1, <2>1, <2>5, GotoStep DEF PC
      <3>2. Local(p)'
        BY <1>1, <2>1, <3>1 DEF IInv, Types, Local, Dispatched, Building
      <3>3. Unmade(p)' /\ Mine(p)' /\ Steady(p)'
        BY <2>3, <3>1 DEF Unmade, Mine, Steady, At, Retiring, Cloned
      <3> QED
        BY <1>1, <2>3, <3>1, <3>2, <3>3, StepKeeps DEF TableStep
    <2> QED
      BY <1>3, <2>4, <2>5 DEF Clone, Effect
  <1> QED
    BY <1>2, <1>3

\* The calls that turn a clone into a running VM with its seed.
LEMMA BuildKeeps ==
  ASSUME IInv, NEW p \in Proc,
         StageSeed(p) \/ AttachSeed(p) \/ StartVM(p) \/ CreateConfirms(p)
  PROVE  IInv'
  <1> DEFINE i == cur[p]
  <1>1. /\ pc[p] \in Building /\ pc[p] # "idle"
        /\ i \in Id /\ i = req[p].id + 1 /\ req[p] \in Request
        /\ req[p].op = "Create" /\ Steady(p) /\ "error" \in ErrClass
    BY DEF IInv, Local, Dispatched, StageSeed, AttachSeed, StartVM,
           CreateConfirms, Building, ErrClass
  <1>2. ASSUME TableStep(p), NEW next \in {"attach", "start", "confirm"},
               Effect(p, next, i), Goto(p, next, i) => Steady(p)'
        PROVE  IInv'
    <2>1. CASE Return(p, "error")
      BY <1>1, <1>2, <2>1, ReturnKeeps
    <2>2. CASE Goto(p, next, i)
      <3>1. pc'[p] = next /\ cur'[p] = i /\ req'[p] = req[p]
        BY <2>2, GotoNext
      <3>2. Dispatched(p)'
        BY <1>1, <3>1 DEF Dispatched
      <3>3. vms'[i] # None => vms'[i].controller = req[p].controller
        BY <1>1, <1>2, StaysMine DEF IInv, Mine, At, Working, Building
      <3> QED
        BY <1>1, <1>2, <2>2, <3>2, <3>3, AdvanceKeeps DEF PC
    <2> QED
      BY <1>2, <2>1, <2>2 DEF Effect
  <1>3. Exists(i) => vms[i] \in VM
    BY <1>1 DEF IInv, Types, Exists
  <1>4. CASE StageSeed(p)
    <2>1. /\ pc[p] = "stage" /\ Exists(i) /\ UNCHANGED <<vms, calls>>
          /\ seeds' = seeds \cup {i} /\ Effect(p, "attach", i)
      BY <1>4 DEF StageSeed
    <2>2. TableStep(p)
      BY <1>1, <2>1 DEF IInv, Types, TableStep, ChangedBy, Kept, Exists
    <2>3. Goto(p, "attach", i) => Steady(p)'
      BY <1>1, <2>1, GotoNext DEF Steady, At, Retiring, Exists, Alone
    <2> QED
      BY <1>2, <2>1, <2>2, <2>3
  <1>5. CASE AttachSeed(p)
    <2> DEFINE vm == [vms[i] EXCEPT !.seed = TRUE]
    <2>1. /\ pc[p] = "attach" /\ Exists(i) /\ UNCHANGED <<seeds, calls>>
          /\ vms' = [vms EXCEPT ![i] = vm] /\ Effect(p, "start", i)
          /\ i \in seeds
      BY <1>5 DEF AttachSeed
    <2>2. /\ vm \in VM /\ vm.controller = vms[i].controller /\ vm.seed = TRUE
          /\ vm.started = vms[i].started /\ vm.state = vms[i].state
      BY <1>3, <2>1 DEF VM
    <2> HIDE DEF vm
    <2>3. TableStep(p) /\ vms'[i] = vm
      BY <1>1, <2>1, <2>2, UpdateStep DEF IInv, Types
    <2>4. Goto(p, "start", i) => Steady(p)'
      BY <1>1, <2>1, <2>2, <2>3, GotoNext DEF Steady, At, Retiring, Alone
    <2> QED
      BY <1>2, <2>1, <2>3, <2>4
  <1>6. CASE StartVM(p)
    <2> DEFINE vm == [vms[i] EXCEPT !.state = "RUNNING", !.started = TRUE]
    <2>1. /\ pc[p] = "start" /\ Exists(i) /\ UNCHANGED <<seeds, calls>>
          /\ vms' = [vms EXCEPT ![i] = vm] /\ Effect(p, "confirm", i)
      BY <1>3, <1>6 DEF StartVM, VM
    <2>2. /\ vm \in VM /\ vm.controller = vms[i].controller
          /\ vm.seed = vms[i].seed
      BY <1>3, <2>1 DEF VM
    <2> HIDE DEF vm
    <2>3. TableStep(p)
      BY <1>1, <2>1, <2>2, UpdateStep
    <2>4. Goto(p, "confirm", i) => Steady(p)'
      BY <1>1, GotoNext DEF Steady, At, Retiring
    <2> QED
      BY <1>2, <2>1, <2>3, <2>4
  <1>7. CASE CreateConfirms(p)
    <2>1. \E e \in ErrClass : Return(p, e)
      BY <1>7, FindOwnedClass DEF CreateConfirms, ErrClass
    <2> QED
      BY <1>1, <1>7, <2>1, LookStep, ReturnKeeps DEF CreateConfirms
  <1> QED
    BY <1>4, <1>5, <1>6, <1>7
-----------------------------------------------------------------------------
(* The commands that address a VM by its id.                               *)

LEMMA SweepKeeps ==
  ASSUME IInv, NEW p \in Proc, NEW T \in SUBSET Id, NEW act \in BOOLEAN,
         SweepOn(p, T, act), pc[p] # "idle", TableStep(p),
         T # {} => req[p].op \in {"Delete", "RemoveAll"}
  PROVE  IInv'
  <1>1. CASE T = {}
    <2>1. \E e \in ErrClass : Return(p, e)
      BY <1>1 DEF SweepOn, ErrClass
    <2> QED
      BY <2>1, ReturnKeeps
  <1>2. CASE T # {}
    <2>1. /\ LocalStep(p) /\ pc'[p] = "sweep" /\ UNCHANGED <<req, cur>>
      BY <1>2 DEF SweepOn, IInv, Types, LocalTypes, LocalStep, PC
    <2>2. Local(p)'
      BY <1>2, <2>1 DEF TableStep, IInv, Local, Dispatched, Building
    <2>3. Unmade(p)' /\ Mine(p)' /\ Steady(p)'
      BY <2>1 DEF Unmade, Mine, Steady, At, Working, Retiring, Harmful,
         Building
    <2> QED
      BY <2>1, <2>2, <2>3, StepKeeps DEF TableStep
  <1> QED
    BY <1>1, <1>2

LEMMA FindKeeps == ASSUME IInv, NEW p \in Proc, Find(p) PROVE IInv'
  <1> DEFINE r == req[p]
             i == IF r.op = "RemoveAll" THEN cur[p] ELSE r.vm
             e == findOwned(i, r.controller)
  <1>1. pc[p] = "find" /\ pc[p] # "idle" /\ i \in Id /\ r \in Request
        /\ todo[p] \in SUBSET Id /\ active[p] \in BOOLEAN
        /\ {"ok", "ErrActive", "ErrUnsafeOperation"} \subseteq ErrClass
    BY DEF Find, IInv, Types, Local, Dispatched, Request, ErrClass
  <1>2. TableStep(p) /\ UNCHANGED vms
    BY LookStep DEF Find
  <1>3. /\ e \in ErrClass
        /\ e = "ok" => Exists(i) /\ vms[i].controller = r.controller
    BY FindOwnedClass
  <1>4. \/ r.op \in {"Delete", "RemoveAll"} /\ SweepOn(p, todo[p], active[p])
        \/ \E x \in {e, "ok", "ErrActive", "ErrUnsafeOperation"} : Return(p, x)
        \/ e = "ok" /\ r.op = "Stop" /\ Goto(p, "stop", i)
        \/ /\ e = "ok" /\ r.op = "ReconcileBootstrap"
           /\ vms[i].state = "STOPPED" /\ Goto(p, "consumed", i)
        \/ /\ e = "ok" /\ r.op \in {"Delete", "RemoveAll"}
           /\ Retirable(vms[i])
           /\ Goto(p, IF vms[i].seed THEN "detach" ELSE "destroy", i)
    BY DEF Find
  <1> HIDE DEF i, e
  <1>5. CASE r.op \in {"Delete", "RemoveAll"} /\ SweepOn(p, todo[p], active[p])
    BY <1>1, <1>2, <1>5, SweepKeeps
  <1>6. CASE \E x \in {e, "ok", "ErrActive", "ErrUnsafeOperation"} : Return(p, x)
    BY <1>1, <1>2, <1>3, <1>6, ReturnKeeps
  <1>7. ASSUME NEW next \in {"stop", "consumed", "detach", "destroy"},
               e = "ok", Goto(p, next, i),
               next = "stop" => r.op = "Stop",
               next = "consumed" => r.op = "ReconcileBootstrap",
               next \in {"detach", "destroy"} => r.op \in {"Delete", "RemoveAll"},
               next # "stop" => vms[i].state = "STOPPED"
        PROVE  IInv'
    <2>1. pc'[p] = next /\ cur'[p] = i /\ req'[p] = req[p]
      BY <1>7, GotoNext
    <2>2. Dispatched(p)'
      BY <1>1, <1>7, <2>1 DEF Dispatched
    <2>3. Steady(p)'
      BY <1>2, <1>7, <2>1 DEF Steady, At, Retiring
    <2> QED
      BY <1>1, <1>2, <1>3, <1>7, <2>2, <2>3, AdvanceKeeps DEF PC, Building,
         Exists
  <1>8. CASE e = "ok" /\ r.op = "Stop" /\ Goto(p, "stop", i)
    BY <1>7, <1>8
  <1>9. CASE /\ e = "ok" /\ r.op = "ReconcileBootstrap"
             /\ vms[i].state = "STOPPED" /\ Goto(p, "consumed", i)
    BY <1>7, <1>9
  <1>10. CASE /\ e = "ok" /\ r.op \in {"Delete", "RemoveAll"}
              /\ Retirable(vms[i])
              /\ Goto(p, IF vms[i].seed THEN "detach" ELSE "destroy", i)
    BY <1>7, <1>10 DEF Retirable
  <1> QED
    BY <1>4, <1>5, <1>6, <1>8, <1>9, <1>10

LEMMA RetireKeeps ==
  ASSUME IInv, NEW p \in Proc,
         \/ BootstrapConsumed(p) \/ DetachSeed(p) \/ DeleteSeed(p)
         \/ ReconcileVerifies(p) \/ DeleteVM(p) \/ DeleteVerifies(p)
  PROVE  IInv'
  <1> DEFINE i == cur[p]
  <1>1. /\ pc[p] \in Retiring \cup {"cleaned", "absent"} /\ pc[p] # "idle"
        /\ i \in Id /\ req[p] \in Request /\ Steady(p) /\ Dispatched(p)
        /\ todo[p] \in SUBSET Id /\ active[p] \in BOOLEAN
        /\ {"error", "ErrUnsafeOperation", "ErrManagedDrift"} \subseteq ErrClass
    BY DEF IInv, Types, Local, Dispatched, BootstrapConsumed, DetachSeed,
           DeleteSeed, ReconcileVerifies, DeleteVM, DeleteVerifies, Retiring,
           ErrClass
  <1>2. ASSUME TableStep(p), pc[p] \in Retiring,
               NEW next \in {"detach", "unstage", "cleaned", "destroy", "absent"},
               Goto(p, next, i),
               IF next \in {"destroy", "absent"}
                  THEN req[p].op \in {"Delete", "RemoveAll"}
                  ELSE next = "cleaned" => req[p].op = "ReconcileBootstrap",
               Alone /\ vms'[i] # None =>
                  next = "absent" \/ vms'[i].state = "STOPPED"
        PROVE  IInv'
    <2>1. pc'[p] = next /\ cur'[p] = i /\ req'[p] = req[p]
      BY <1>2, GotoNext
    <2>2. Dispatched(p)'
      BY <1>1, <1>2, <2>1 DEF Dispatched, Retiring
    <2>3. vms'[i] # None => vms'[i].controller = req[p].controller
      BY <1>1, <1>2, StaysMine
         DEF IInv, Mine, At, Working, Harmful, Building, Retiring
    <2>4. Steady(p)'
      BY <1>2, <2>1 DEF Steady, At, Exists, Retiring, Alone
    <2> QED
      BY <1>1, <1>2, <2>2, <2>3, <2>4, AdvanceKeeps DEF PC, Building
  <1>3. CASE BootstrapConsumed(p)
    <2>1. TableStep(p) /\ UNCHANGED vms /\ pc[p] = "consumed"
      BY <1>3, LookStep DEF BootstrapConsumed
    <2>2. CASE Return(p, "ErrUnsafeOperation")
      BY <1>1, <2>1, <2>2, ReturnKeeps
    <2>3. CASE Goto(p, "detach", i)
      BY <1>1, <1>2, <2>1, <2>3 DEF Steady, At, Exists, Retiring
    <2> QED
      BY <1>3, <2>2, <2>3 DEF BootstrapConsumed
  <1>4. CASE DetachSeed(p)
    <2> DEFINE vm == [vms[i] EXCEPT !.seed = FALSE]
    <2>1. /\ pc[p] = "detach" /\ Exists(i) /\ UNCHANGED <<seeds, calls>>
          /\ vms' = [vms EXCEPT ![i] = vm] /\ Effect(p, "unstage", i)
          /\ vms[i].state = "STOPPED" /\ vms[i] \in VM
      BY <1>1, <1>4 DEF DetachSeed, IInv, Types, Exists
    <2>2. /\ vm \in VM /\ vm.controller = vms[i].controller
          /\ vm.started = vms[i].started /\ vm.state = vms[i].state
      BY <2>1 DEF VM
    <2> HIDE DEF vm
    <2>3. TableStep(p) /\ vms'[i] = vm
      BY <1>1, <2>1, <2>2, UpdateStep DEF IInv, Types
    <2>4. CASE Return(p, "error")
      BY <1>1, <2>3, <2>4, ReturnKeeps
    <2>5. CASE Goto(p, "unstage", i)
      BY <1>2, <2>1, <2>2, <2>3, <2>5 DEF Retiring
    <2> QED
      BY <2>1, <2>4, <2>5 DEF Effect
  <1>5. CASE DeleteSeed(p)
    <2> DEFINE next == IF req[p].op = "ReconcileBootstrap" THEN "cleaned"
                       ELSE "destroy"
    <2>1. /\ pc[p] = "unstage" /\ UNCHANGED <<vms, calls>>
          /\ seeds' = seeds \ {i} /\ Effect(p, next, i)
      BY <1>5 DEF DeleteSeed
    <2>2. TableStep(p)
      BY <1>1, <2>1 DEF IInv, Types, TableStep, ChangedBy, Kept, Exists
    <2>3. CASE Return(p, "error")
      BY <1>1, <2>2, <2>3, ReturnKeeps
    <2>4. CASE Goto(p, next, i)
      <3>1. /\ next = "cleaned" => req[p].op = "ReconcileBootstrap"
            /\ next = "destroy" => req[p].op \in {"Delete", "RemoveAll"}
            /\ next \in {"cleaned", "destroy"}
        BY <1>1, <2>1 DEF Dispatched
      <3>2. Alone /\ vms'[i] # None => vms'[i].state = "STOPPED"
        BY <1>1, <2>1 DEF Steady, At, Exists, Retiring
      <3> HIDE DEF next
      <3> QED
        BY <1>2, <2>1, <2>2, <2>4, <3>1, <3>2 DEF Retiring
    <2> QED
      BY <2>1, <2>3, <2>4 DEF Effect
  <1>6. CASE ReconcileVerifies(p)
    <2>1. \E e \in ErrClass : Return(p, e)
      BY <1>6 DEF ReconcileVerifies, ErrClass
    <2> QED
      BY <1>1, <1>6, <2>1, LookStep, ReturnKeeps DEF ReconcileVerifies
  <1>7. CASE DeleteVM(p)
    <2>1. TableStep(p) /\ Effect(p, "absent", i) /\ pc[p] = "destroy"
      BY <1>1, <1>7, DeleteStep DEF DeleteVM
    <2> QED
      BY <1>1, <1>2, <2>1, ReturnKeeps DEF Effect, Retiring, Dispatched
  <1>8. CASE DeleteVerifies(p)
    <2>1. req[p].op \in {"Delete", "RemoveAll"}
      BY <1>1, <1>8 DEF DeleteVerifies, Dispatched
    <2> QED
      BY <1>1, <1>8, <2>1, LookStep, ReturnKeeps, SweepKeeps DEF DeleteVerifies
  <1> QED
    BY <1>3, <1>4, <1>5, <1>6, <1>7, <1>8

LEMMA StopKeeps ==
  ASSUME IInv, NEW p \in Proc, StopVM(p) \/ StopVerifies(p) PROVE IInv'
  <1> DEFINE i == cur[p]
  <1>1. /\ pc[p] \in {"stop", "stopped"} /\ i \in Id
        /\ req[p] \in Request /\ req[p].op = "Stop" /\ "error" \in ErrClass
    BY DEF IInv, Local, Dispatched, StopVM, StopVerifies, ErrClass
  <1>2. CASE StopVM(p)
    <2>1. Exists(i) /\ calls' = calls /\ seeds' = seeds /\ Effect(p, "stopped", i)
      BY <1>2 DEF StopVM
    <2>2. TableStep(p)
      <3>1. CASE UNCHANGED vms
        BY <2>1, <3>1, LookStep
      <3>2. CASE vms' = [vms EXCEPT ![i].state = "STOPPED"]
        <4> DEFINE vm == [vms[i] EXCEPT !.state = "STOPPED"]
        <4>1. vms[i] \in VM
          BY <1>1, <2>1 DEF IInv, Types, Exists
        <4>2. /\ vms' = [vms EXCEPT ![i] = vm]
              /\ vm \in VM /\ vm.controller = vms[i].controller
              /\ vm.started = vms[i].started /\ vm.seed = vms[i].seed
              /\ vm.state = "STOPPED"
          BY <3>2, <4>1 DEF VM
        <4> HIDE DEF vm
        <4> QED
          BY <1>1, <2>1, <4>2, UpdateStep DEF IInv, Types
      <3> QED
        BY <1>2, <3>1, <3>2 DEF StopVM
    <2>3. CASE Return(p, "error")
      BY <1>1, <2>2, <2>3, ReturnKeeps
    <2>4. CASE Goto(p, "stopped", i)
      <3>1. pc'[p] = "stopped" /\ cur'[p] = i /\ req'[p] = req[p]
        BY <2>4, GotoNext
      <3>2. Dispatched(p)' /\ Steady(p)'
        BY <1>1, <3>1 DEF Dispatched, Steady, At, Retiring
      <3> QED
        BY <1>1, <2>2, <2>4, <3>2, AdvanceKeeps DEF PC, Working, Harmful,
           Building
    <2> QED
      BY <2>1, <2>3, <2>4 DEF Effect
  <1>3. CASE StopVerifies(p)
    <2>1. TableStep(p) /\ \E e \in ErrClass : Return(p, e)
      BY <1>1, <1>3, LookStep DEF StopVerifies, ErrClass
    <2> QED
      BY <1>1, <2>1, ReturnKeeps
  <1> QED
    BY <1>2, <1>3

LEMMA ListKeeps ==
  ASSUME IInv, NEW p \in Proc, ListVMs(p) \/ Sweep(p) \/ FailCall(p)
  PROVE  IInv'
  <1>1. /\ pc[p] # "idle" /\ TableStep(p) /\ UNCHANGED vms
        /\ todo[p] \in SUBSET Id
        /\ {"error", "ErrManagedDrift"} \subseteq ErrClass
    BY LookStep DEF IInv, Types, ListVMs, Sweep, FailCall, ErrClass
  <1>2. CASE ListVMs(p)
    <2> DEFINE own == {i \in Id : Owned(i, req[p].controller)}
               T == IF req[p].op = "RemoveAll" THEN own ELSE {}
    <2>1. T \in SUBSET Id /\ (T # {} => req[p].op = "RemoveAll")
      OBVIOUS
    <2>2. Return(p, "ErrManagedDrift") \/ SweepOn(p, T, FALSE)
      BY <1>2 DEF ListVMs
    <2> HIDE DEF T
    <2> QED
      BY <1>1, <2>1, <2>2, SweepKeeps, ReturnKeeps
  <1>3. CASE Sweep(p)
    <2>1. PICK i \in todo[p] :
             LET e == findOwned(i, req[p].controller)
             IN  CASE e # "ok" -> Return(p, e)
                   [] e = "ok" /\ ~Retirable(vms[i]) ->
                         SweepOn(p, todo[p] \ {i}, TRUE)
                   [] OTHER -> /\ pc' = [pc EXCEPT ![p] = "find"]
                               /\ cur' = [cur EXCEPT ![p] = i]
                               /\ todo' = [todo EXCEPT ![p] = @ \ {i}]
                               /\ UNCHANGED <<req, active, reply>>
      BY <1>3 DEF Sweep
    <2> DEFINE e == findOwned(i, req[p].controller)
    <2>2. i \in Id /\ e \in ErrClass /\ (e = "ok" => Exists(i))
          /\ todo[p] \ {i} \in SUBSET Id
      BY <1>1, FindOwnedClass
    <2>3. \/ Return(p, e)
          \/ SweepOn(p, todo[p] \ {i}, TRUE)
          \/ /\ e = "ok" /\ pc' = [pc EXCEPT ![p] = "find"]
             /\ cur' = [cur EXCEPT ![p] = i]
             /\ todo' = [todo EXCEPT ![p] = @ \ {i}]
             /\ UNCHANGED <<req, active, reply>>
      BY <2>1, Zenon
    <2>a. req[p].op \in {"Delete", "RemoveAll"}
      BY <1>3 DEF Sweep, IInv, Local
    <2> HIDE DEF e
    <2>4. CASE Return(p, e)
      BY <1>1, <2>2, <2>4, ReturnKeeps
    <2>5. CASE SweepOn(p, todo[p] \ {i}, TRUE)
      BY <1>1, <2>2, <2>5, <2>a, SweepKeeps
    <2>6. CASE /\ e = "ok" /\ pc' = [pc EXCEPT ![p] = "find"]
               /\ cur' = [cur EXCEPT ![p] = i]
               /\ todo' = [todo EXCEPT ![p] = @ \ {i}]
               /\ UNCHANGED <<req, active, reply>>
      <3>1. /\ LocalStep(p) /\ pc'[p] = "find" /\ cur'[p] = i /\ UNCHANGED req
        BY <2>2, <2>6 DEF IInv, Types, LocalTypes, LocalStep, PC
      <3>2. pc[p] = "sweep" /\ req[p] \in Request
        BY <1>3 DEF Sweep, IInv, Local, Dispatched
      <3>3. i <= calls + 1
        BY <2>2, <2>6 DEF IInv, Types, Numbered, Id
      <3>4. Local(p)'
        BY <1>1, <2>2, <2>a, <3>1, <3>2, <3>3
           DEF TableStep, IInv, Local, Dispatched, Building, Op
      <3>5. Unmade(p)' /\ Mine(p)' /\ Steady(p)'
        BY <3>1
           DEF Unmade, Mine, Steady, At, Working, Retiring, Harmful, Building
      <3> QED
        BY <1>1, <3>1, <3>4, <3>5, StepKeeps DEF TableStep
    <2> QED
      BY <2>3, <2>4, <2>5, <2>6
  <1>4. CASE FailCall(p)
    BY <1>1, <1>4, ReturnKeeps DEF FailCall
  <1> QED
    BY <1>2, <1>3, <1>4
-----------------------------------------------------------------------------
(* GARM, the host, and the theorems.                                       *)

\* What a process knows stays true when another command is issued.
LEMMA LocalGrows ==
  ASSUME IInv, NEW q \in Proc, calls' = calls + 1,
         pc'[q] = pc[q], req'[q] = req[q], cur'[q] = cur[q]
  PROVE  Local(q)'
  <1>1. Local(q) /\ calls \in Nat /\ cur[q] \in Int
    BY DEF IInv, Types, Id
  <1>2. Dispatched(q)'
    BY <1>1 DEF Local, Dispatched
  <1>3. cur'[q] <= calls' + 1
    BY <1>1 DEF Local
  <1>4. pc'[q] # "idle" => req'[q].id \in 1..calls'
    BY <1>1 DEF Local
  <1> QED
    BY <1>1, <1>2, <1>3, <1>4 DEF Local

\* A new command gets a number that no VM and no process has.
LEMMA InvokeKeeps ==
  ASSUME IInv, NEW p \in Proc, Invoke(p) PROVE IInv'
  <1>1. PICK c \in Controller, op \in Commands, r \in Runner, i \in Id :
           /\ pc[p] = "idle" /\ calls < MaxCalls /\ Admissible(c, op)
           /\ calls' = calls + 1
           /\ req' = [req EXCEPT ![p] = [op |-> op, controller |-> c,
                                         name |-> <<c, r>>, vm |-> i,
                                         id |-> calls + 1]]
           /\ pc' = [pc EXCEPT ![p] = CASE op = "Create" -> "lookup"
                                        [] op \in {"List", "RemoveAll"} -> "list"
                                        [] OTHER -> "find"]
           /\ UNCHANGED <<vms, seeds, cur, todo, active, reply>>
    BY DEF Invoke
  <1> DEFINE new == [op |-> op, controller |-> c, name |-> <<c, r>>, vm |-> i,
                     id |-> calls + 1]
  <1>2. /\ calls \in Nat /\ MaxCalls \in Nat
        /\ vms \in [Id -> VM \cup {None}]
        /\ cur \in [Proc -> Id \cup {0}]
        /\ req \in [Proc -> Request \cup {NoRequest}] /\ pc \in [Proc -> PC]
    BY VMConfigAssumption DEF IInv, Types
  <1>3. new \in Request /\ op \in Op
    BY <1>2, VMConfigAssumption DEF Request, Op, VMName
  <1>4. /\ req'[p] = new /\ pc'[p] \in {"lookup", "list", "find"}
        /\ pc'[p] = "lookup" <=> op = "Create"
        /\ pc'[p] = "find" =>
              op \in {"ReconcileBootstrap", "Get", "Stop", "Delete"}
        /\ \A q \in Proc \ {p} : pc'[q] = pc[q] /\ req'[q] = req[q]
    BY <1>1, <1>2, <1>3 DEF Op
  <1>5. new.id = calls + 1 /\ new.op = op /\ new.controller = c
    OBVIOUS
  <1> HIDE DEF new
  <1>6. Types'
    BY <1>1, <1>2, <1>3, <1>4 DEF IInv, Types, PC, new
  <1>7. Numbered'
    <2>1. ASSUME NEW q \in Proc, pc[q] # "idle" PROVE req[q].id \in 1..calls
      BY <2>1 DEF IInv, Local
    <2>2. calls' <= MaxCalls
      BY <1>1, <1>2
    <2>3. ASSUME NEW j \in Id, j > calls' + 1 PROVE ~Exists(j)'
      BY <1>1, <1>2, <2>3 DEF IInv, Numbered, Id, Exists
    <2>4. ASSUME NEW q \in Proc, NEW s \in Proc, q # s,
                 pc'[q] # "idle", pc'[s] # "idle"
          PROVE  req'[q].id # req'[s].id
      BY <1>2, <1>4, <1>5, <2>1, <2>4 DEF IInv, Numbered
    <2> QED
      BY <2>2, <2>3, <2>4 DEF Numbered
  <1>8. OneMutator'
    <2>1. ASSUME NEW q \in Proc, q # p, Changes(q)'
          PROVE  Changes(q) /\ req'[q] = req[q]
      BY <1>4, <2>1 DEF Changes
    <2>2. ASSUME Alone, NEW q \in Proc, Changes(q), Changes(p)'
          PROVE  req[q].controller # req'[p].controller
      BY <1>1, <1>4, <1>5, <2>2 DEF Changes, Admissible, Alone
    <2> QED
      BY <2>1, <2>2 DEF IInv, OneMutator, Alone
  <1>9. Alone => SeedOutlivesRun'
    BY <1>1 DEF IInv, SeedOutlivesRun, Exists
  <1>10. ASSUME NEW q \in Proc PROVE Mine(q)' /\ Steady(q)'
    BY <1>1, <1>4
       DEF IInv, Mine, Steady, Alone, At, Exists, Working, Retiring, Harmful,
           Building
  <1>11. ASSUME NEW q \in Proc PROVE Local(q)' /\ Unmade(q)'
    <2>1. Local(q) /\ Unmade(q)
      BY DEF IInv
    <2>2. CASE q # p
      <3>1. pc'[q] = pc[q] /\ req'[q] = req[q] /\ UNCHANGED <<vms, cur>>
        BY <1>1, <1>4, <2>2
      <3>2. Local(q)'
        BY <1>1, <3>1, LocalGrows
      <3>3. Unmade(q)'
        BY <2>1, <3>1 DEF Unmade, Exists
      <3> QED
        BY <3>2, <3>3
    <2>3. CASE q = p
      <3>1. Local(p)'
        <4>1. /\ req'[p] \in Request /\ req'[p].id = calls + 1
              /\ req'[p].op = op
          BY <1>3, <1>4, <1>5
        <4>2. req'[p].id \in 1..calls'
          BY <1>1, <1>2, <4>1
        <4>3. cur[p] \in Int /\ cur[p] <= calls + 1 /\ cur'[p] = cur[p]
          BY <1>1, <1>2, <2>1, <2>3 DEF Local, Id
        <4>4. cur'[p] <= calls' + 1
          BY <1>1, <1>2, <4>3
        <4>5. Dispatched(p)'
          BY <1>4, <4>1 DEF Dispatched
        <4> QED
          BY <1>4, <4>1, <4>2, <4>4, <4>5 DEF Local, Building, Op
      <3>2. \A s \in Proc : cur'[s] # calls + 2
        BY <1>1, <1>2 DEF IInv, Local, Id
      <3>3. vms'[calls + 2] = None
        <4>1. calls + 2 \in Id /\ calls + 2 > calls + 1
          BY <1>1, <1>2 DEF Id
        <4> QED
          BY <1>1, <4>1 DEF IInv, Numbered, Exists
      <3>4. new.id + 1 = calls + 2
        BY <1>2, <1>5
      <3>5. Unmade(p)'
        BY <1>4, <3>2, <3>3, <3>4 DEF Unmade, Exists
      <3> QED
        BY <2>3, <3>1, <3>5
    <2> QED
      BY <2>2, <2>3
  <1> QED
    BY <1>6, <1>7, <1>8, <1>9, <1>10, <1>11 DEF IInv, Alone

LEMMA InvokeRefusedKeeps ==
  ASSUME IInv, NEW p \in Proc, InvokeRefused(p) PROVE IInv'
  <1>1. PICK e \in ErrClass : Return(p, e)
    BY DEF InvokeRefused, ErrClass
  <1>2. /\ pc[p] = "idle" /\ calls < MaxCalls /\ calls' = calls + 1
        /\ UNCHANGED <<vms, seeds>>
    BY DEF InvokeRefused
  <1>3. /\ calls \in Nat /\ MaxCalls \in Nat
        /\ cur \in [Proc -> Id \cup {0}]
    BY VMConfigAssumption DEF IInv, Types
  <1>4. /\ pc'[p] = "idle" /\ cur'[p] = 0
        /\ \A q \in Proc \ {p} :
              pc'[q] = pc[q] /\ req'[q] = req[q] /\ cur'[q] = cur[q]
    BY <1>1 DEF IInv, Types, Return
  <1>5. Types'
    BY <1>1, <1>2, <1>3 DEF IInv, Types, Return, PC, ErrClass
  <1>6. Numbered' /\ OneMutator' /\ (Alone => SeedOutlivesRun')
    BY <1>2, <1>3, <1>4
       DEF IInv, Numbered, OneMutator, Changes, Alone, SeedOutlivesRun, Exists, Id
  <1>7. ASSUME NEW q \in Proc
        PROVE  Local(q)' /\ Unmade(q)' /\ Mine(q)' /\ Steady(q)'
    <2>1. Local(q) /\ Unmade(q) /\ Mine(q) /\ Steady(q)
      BY DEF IInv
    <2>2. CASE q = p
      BY <1>2, <1>3, <1>4, <2>2
         DEF Local, Dispatched, Unmade, Mine, Steady, At, Working, Retiring,
             Harmful, Building
    <2>3. CASE q # p
      <3>1. pc'[q] = pc[q] /\ req'[q] = req[q] /\ cur'[q] = cur[q]
        BY <1>4, <2>3
      <3>2. Local(q)'
        BY <1>2, <3>1, LocalGrows
      <3>3. Unmade(q)'
        <4>1. ASSUME pc[q] \in {"lookup", "clone"}
              PROVE  \A s \in Proc : cur'[s] # req[q].id + 1
          BY <1>3, <1>4, <2>1, <4>1 DEF Unmade, Local
        <4> QED
          BY <1>2, <2>1, <3>1, <4>1 DEF Unmade, Exists
      <3>4. Mine(q)' /\ Steady(q)'
        BY <1>2, <2>1, <3>1 DEF Mine, Steady, Alone, At, Exists
      <3> QED
        BY <3>2, <3>3, <3>4
    <2> QED
      BY <2>2, <2>3
  <1> QED
    BY <1>5, <1>6, <1>7 DEF IInv, Alone

\* The guests and the operator give no VM to another controller, and without
\* "start" they start none.
LEMMA HostKeeps ==
  ASSUME IInv, NEW i \in Id, GuestRuns(i) \/ OperatorActs(i)
  PROVE  IInv'
  <1>1. UNCHANGED <<seeds, calls, pc, req, cur, todo, active, reply>> /\ Exists(i)
    BY DEF GuestRuns, OperatorActs
  <1>2. vms \in [Id -> VM \cup {None}] /\ vms[i] \in VM
    BY <1>1 DEF IInv, Types, Exists
  <1> DEFINE Becomes(vm) ==
                /\ vms' = [vms EXCEPT ![i] = vm]
                /\ \/ vm = None
                   \/ /\ vm.controller = vms[i].controller
                      /\ vm.seed = vms[i].seed
                      /\ Alone => /\ vm.started = vms[i].started
                                  /\ vms[i].state = "STOPPED" => vm.state = "STOPPED"
  <1>3. \E vm \in VM \cup {None} : Becomes(vm)
    <2>1. CASE vms' = [vms EXCEPT ![i].consumed = TRUE]
      <3> DEFINE vm == [vms[i] EXCEPT !.consumed = TRUE]
      <3>1. /\ vms' = [vms EXCEPT ![i] = vm] /\ vm \in VM
            /\ vm.controller = vms[i].controller /\ vm.seed = vms[i].seed
            /\ vm.started = vms[i].started /\ vm.state = vms[i].state
        BY <1>2, <2>1 DEF VM
      <3> HIDE DEF vm
      <3> QED
        BY <3>1
    <2>2. ASSUME NEW s \in {"RUNNING", "STOPPED", "PAUSED"},
                 vms[i].state # "STOPPED", vms' = [vms EXCEPT ![i].state = s]
          PROVE  \E vm \in VM \cup {None} : Becomes(vm)
      <3> DEFINE vm == [vms[i] EXCEPT !.state = s]
      <3>1. /\ vms' = [vms EXCEPT ![i] = vm] /\ vm \in VM
            /\ vm.controller = vms[i].controller /\ vm.seed = vms[i].seed
            /\ vm.started = vms[i].started
        BY <1>2, <2>2 DEF VM
      <3> HIDE DEF vm
      <3> QED
        BY <2>2, <3>1
    <2>3. CASE /\ "start" \in HostEvents
               /\ vms' = [vms EXCEPT ![i].state = "RUNNING", ![i].started = TRUE]
      <3> DEFINE vm == [vms[i] EXCEPT !.state = "RUNNING", !.started = TRUE]
      <3>1. /\ vms' = [vms EXCEPT ![i] = vm] /\ vm \in VM
            /\ vm.controller = vms[i].controller /\ vm.seed = vms[i].seed
        BY <1>2, <2>3 DEF VM
      <3> HIDE DEF vm
      <3> QED
        BY <2>3, <3>1 DEF Alone
    <2>4. CASE vms' = [vms EXCEPT ![i].fixed = FALSE]
      <3> DEFINE vm == [vms[i] EXCEPT !.fixed = FALSE]
      <3>1. /\ vms' = [vms EXCEPT ![i] = vm] /\ vm \in VM
            /\ vm.controller = vms[i].controller /\ vm.seed = vms[i].seed
            /\ vm.started = vms[i].started /\ vm.state = vms[i].state
        BY <1>2, <2>4 DEF VM
      <3> HIDE DEF vm
      <3> QED
        BY <3>1
    <2>5. CASE vms' = [vms EXCEPT ![i].profile = FALSE]
      <3> DEFINE vm == [vms[i] EXCEPT !.profile = FALSE]
      <3>1. /\ vms' = [vms EXCEPT ![i] = vm] /\ vm \in VM
            /\ vm.controller = vms[i].controller /\ vm.seed = vms[i].seed
            /\ vm.started = vms[i].started /\ vm.state = vms[i].state
        BY <1>2, <2>5 DEF VM
      <3> HIDE DEF vm
      <3> QED
        BY <3>1
    <2>6. CASE vms' = [vms EXCEPT ![i] = None]
      BY <2>6
    <2> QED
      BY <2>1, <2>2, <2>3, <2>4, <2>5, <2>6 DEF GuestRuns, OperatorActs
  <1>4. Types'
    BY <1>1, <1>2, <1>3 DEF IInv, Types
  <1>5. ASSUME NEW j \in Id, vms'[j] # None
        PROVE  /\ Exists(j) /\ vms'[j].controller = vms[j].controller
               /\ vms'[j].seed = vms[j].seed
               /\ Alone => /\ vms'[j].started = vms[j].started
                           /\ vms[j].state = "STOPPED" => vms'[j].state = "STOPPED"
    BY <1>1, <1>2, <1>3, <1>5 DEF Exists
  <1>6. Numbered' /\ OneMutator'
    BY <1>1, <1>5 DEF IInv, Numbered, OneMutator, Changes, Alone, Exists
  <1>7. Alone => SeedOutlivesRun'
    BY <1>1, <1>5 DEF IInv, SeedOutlivesRun, Exists
  <1>8. ASSUME NEW q \in Proc
        PROVE  Local(q)' /\ Unmade(q)' /\ Mine(q)' /\ Steady(q)'
    <2>1. Local(q) /\ Unmade(q) /\ Mine(q) /\ Steady(q)
      BY DEF IInv
    <2>2. pc[q] \in {"lookup", "clone"} => req[q].id + 1 \in Id
      BY <2>1, VMConfigAssumption DEF IInv, Types, Local, Numbered, Id
    <2>3. pc[q] \in Working => cur[q] \in Id
      BY <2>1 DEF Local, Dispatched, Working, Harmful, Building
    <2>4. Local(q)'
      BY <1>1, <2>1 DEF Local, Dispatched
    <2>5. Unmade(q)'
      BY <1>1, <1>5, <2>1, <2>2 DEF Unmade, Exists
    <2>6. Mine(q)'
      BY <1>1, <1>5, <2>1, <2>3 DEF Mine, At, Exists
    <2>7. Steady(q)'
      BY <1>1, <1>5, <2>1, <2>3
         DEF Steady, Alone, At, Exists, Working, Retiring, Harmful, Building
    <2> QED
      BY <2>4, <2>5, <2>6, <2>7
  <1> QED
    BY <1>1, <1>4, <1>6, <1>7, <1>8 DEF IInv, Alone

LEMMA InitInv == Init => IInv
  <1> SUFFICES ASSUME Init PROVE IInv
    OBVIOUS
  <1>1. 1 \in Id
    BY VMConfigAssumption DEF Id
  <1>2. \A i \in Id : Exists(i) => vms[i] \in Earlier
    BY DEF Init, Exists
  <1>3. Types
    BY <1>2, VMConfigAssumption DEF Init, Types, Earlier, PC, ErrClass
  <1>4. Numbered /\ OneMutator /\ SeedOutlivesRun
    BY VMConfigAssumption
       DEF Init, Numbered, OneMutator, Changes, SeedOutlivesRun, Exists, Id
  <1>5. ASSUME NEW p \in Proc PROVE Local(p) /\ Unmade(p) /\ Mine(p) /\ Steady(p)
    <2>1. pc[p] = "idle" /\ cur[p] = 0 /\ calls = 0
      BY DEF Init
    <2>2. Local(p)
      BY <2>1 DEF Local, Dispatched, Building
    <2>3. Unmade(p) /\ Mine(p) /\ Steady(p)
      BY <2>1
         DEF Unmade, Mine, Steady, At, Working, Retiring, Harmful, Building
    <2> QED
      BY <2>2, <2>3
  <1> QED
    BY <1>3, <1>4, <1>5 DEF IInv

LEMMA ProviderKeeps == ASSUME IInv, NEW p \in Proc, Provider(p) PROVE IInv'
  BY CreateKeeps, BuildKeeps, FindKeeps, RetireKeeps, StopKeeps, ListKeeps
     DEF Provider

\* The invariant behind the theorems.
LEMMA Invariance == Spec => []IInv
  <1>1. ASSUME IInv, [Next]_vars PROVE IInv'
    <2>1. CASE UNCHANGED vars
      BY <1>1, <2>1
         DEF vars, IInv, Types, Numbered, OneMutator, Changes, SeedOutlivesRun,
             Local, Dispatched, Unmade, Mine, Steady, Alone, At, Exists
    <2> QED
      BY <1>1, <2>1, ProviderKeeps, InvokeKeeps, InvokeRefusedKeeps, HostKeeps
         DEF Next
  <1> QED
    BY <1>1, InitInv, PTL DEF Spec

\* Every variable keeps its type, and no call of a command is reached without
\* the VM that the command is for.
THEOREM TypeCorrect == Spec => []TypeOK
  <1>1. IInv => TypeOK
    BY DEF IInv, TypeOK, Local
  <1> QED
    BY <1>1, Invariance, PTL

\* However commands, controllers, guests and the operator interleave, nothing
\* is stopped, stripped or deleted but for the controller whose VM it is: the
\* check of findOwned holds until the call it was made for.
THEOREM TargetsOnlyOwn == Spec => []OnlyOwnVMsTargeted
  <1>1. IInv => OnlyOwnVMsTargeted
    BY DEF IInv, Mine, At, Working, OnlyOwnVMsTargeted
  <1> QED
    BY <1>1, Invariance, PTL

\* When a controller's mutating commands do not overlap and the operator starts
\* no VM, one that this provider cloned keeps its seed, attached and staged, for
\* as long as it is not stopped, whatever is killed and whatever answer is lost.
THEOREM KeepsSeed == Alone => (Spec => []SeedOutlivesRun)
  <1> SUFFICES ASSUME Alone PROVE Spec => []SeedOutlivesRun
    OBVIOUS
  <1>1. IInv => SeedOutlivesRun
    BY DEF IInv
  <1> QED
    BY <1>1, Invariance, PTL

\* Under the same hypothesis Create starts nothing but a VM that has never run
\* and that has its seed.
THEOREM StartsOnce == Alone => (Spec => StartsFreshWithSeed)
  <1> SUFFICES ASSUME Alone PROVE Spec => StartsFreshWithSeed
    OBVIOUS
  <1> DEFINE Act ==
         \A p \in Proc, i \in Id :
            /\ pc[p] = "start" /\ cur[p] = i /\ Exists(i) /\ vms'[i] # None
            /\ vms[i].state = "STOPPED" /\ vms'[i].state = "RUNNING"
            => ~vms[i].started /\ vms[i].seed /\ i \in seeds
  <1>1. IInv => Act
    BY DEF IInv, Steady, At
  <1>2. Spec => [][Act]_vars
    BY <1>1, Invariance, PTL DEF Spec
  <1> QED
    BY <1>2 DEF StartsFreshWithSeed

\* A process at a call goes on by a step of its own only.
LEMMA Steps ==
  ASSUME IInv, [Next]_vars, NEW p \in Proc, pc'[p] # pc[p], pc[p] # "idle"
  PROVE  Provider(p)
  <1>1. CASE UNCHANGED vars
    BY <1>1 DEF vars
  <1>2. ASSUME NEW q \in Proc, Invoke(q) \/ InvokeRefused(q) PROVE FALSE
    <2>1. pc[q] = "idle" /\ \A s \in Proc \ {q} : pc'[s] = pc[s]
      BY <1>2 DEF Invoke, InvokeRefused, Return, IInv, Types
    <2> QED
      BY <2>1
  <1>3. ASSUME NEW q \in Proc, Provider(q), q # p PROVE FALSE
    BY <1>3 DEF Provider, CreateLooksUp, Clone, StageSeed, AttachSeed, StartVM,
       CreateConfirms, Find, BootstrapConsumed, DetachSeed, DeleteSeed,
       ReconcileVerifies, DeleteVM, DeleteVerifies, StopVM, StopVerifies,
       ListVMs, Sweep, FailCall, Effect, SweepOn, Goto, Return, IInv, Types
  <1>4. ASSUME NEW i \in Id, GuestRuns(i) \/ OperatorActs(i) PROVE FALSE
    BY <1>4 DEF GuestRuns, OperatorActs
  <1> QED
    BY <1>1, <1>2, <1>3, <1>4 DEF Next

\* And Delete and RemoveAll take away only what is stopped, although vm.delete
\* powers off what runs and the state was read two to four calls before.
THEOREM DeletesOnlyStopped == Alone => (Spec => ActiveNeverDeleted)
  <1> SUFFICES ASSUME Alone PROVE Spec => ActiveNeverDeleted
    OBVIOUS
  <1> DEFINE Act == \A p \in Proc :
                       pc[p] = "destroy" /\ pc'[p] # "destroy" /\ vms' # vms =>
                       vms[cur[p]].state = "STOPPED"
  <1>1. ASSUME IInv, [Next]_vars PROVE Act
    <2>1. SUFFICES ASSUME NEW p \in Proc, pc[p] = "destroy",
                          pc'[p] # "destroy", vms' # vms
                   PROVE  vms[cur[p]].state = "STOPPED"
      OBVIOUS
    <2>2. Provider(p)
      BY <1>1, <2>1, Steps
    <2>3. DeleteVM(p) \/ FailCall(p)
      BY <2>1, <2>2 DEF Provider, CreateLooksUp, Clone, StageSeed, AttachSeed,
         StartVM, CreateConfirms, Find, BootstrapConsumed, DetachSeed,
         DeleteSeed, ReconcileVerifies, DeleteVerifies, StopVM, StopVerifies,
         ListVMs, Sweep
    <2>4. vms' = [vms EXCEPT ![cur[p]] = None]
      BY <2>1, <2>3 DEF DeleteVM, FailCall
    <2>5. Exists(cur[p])
      BY <1>1, <2>1, <2>4 DEF IInv, Types, Exists
    <2> QED
      BY <1>1, <2>1, <2>5 DEF IInv, Steady, At, Retiring
  <1>2. Spec => [][Act]_vars
    BY <1>1, Invariance, PTL DEF Spec
  <1> QED
    BY <1>2 DEF ActiveNeverDeleted
-----------------------------------------------------------------------------
(* VMBackend implements GuestPromise: what its steps rely on, beyond IInv. *)

\* What runs has been started.
Ran == \A i \in Id : Exists(i) /\ vms[i].state # "STOPPED" => vms[i].started

\* The VM in hand is the one the command names, or the one it has made, under
\* the name it was to have; while the operator starts none, it is new until its
\* Create starts it.
Tracked(p) ==
    /\ todo[p] # {} => pc[p] # "idle" /\ req[p].op = "RemoveAll"
    /\ pc[p] = "sweep" => req[p].op = "RemoveAll"
    /\ pc[p] = "list" => req[p].op \in {"List", "RemoveAll"}
    /\ pc[p] \in Harmful \cup {"consumed", "cleaned", "absent", "stopped"} =>
          req[p].op = "RemoveAll" \/ cur[p] = req[p].vm
    /\ At(p, {"cleaned", "stopped"}) => vms[cur[p]].controller = req[p].controller
    /\ At(p, Building) => vms[cur[p]].name = req[p].name
    /\ "start" \notin HostEvents /\ At(p, {"stage", "attach", "start"}) =>
          vms[cur[p]].state = "STOPPED" /\ ~vms[cur[p]].started

Traced == IInv /\ Ran /\ \A p \in Proc : Tracked(p)

\* A step of p does this to the VMs that the others have in hand.
LEMMA TableEffect ==
  ASSUME IInv, NEW p \in Proc, Provider(p), NEW i \in Id, vms'[i] # None
  PROVE  \/ /\ pc[p] = "clone" /\ i = req[p].id + 1 /\ vms'[i] = Cloned(req[p])
         \/ /\ Exists(i)
            /\ vms'[i].name = vms[i].name
            /\ vms'[i].controller = vms[i].controller
            /\ vms[i].started => vms'[i].started
            /\ \/ /\ vms'[i].started = vms[i].started
                  /\ vms'[i].state # "STOPPED" => vms[i].state # "STOPPED"
               \/ pc[p] = "start" /\ i = cur[p] /\ vms'[i].started
  <1> DEFINE k == cur[p]
  <1>1. vms \in [Id -> VM \cup {None}] /\ (Exists(i) => vms[i] \in VM)
    BY DEF IInv, Types, Exists
  <1>2. Local(p)
    BY DEF IInv
  <1>3. CASE UNCHANGED vms
    BY <1>3 DEF Exists
  <1>4. CASE pc[p] = "clone" /\ vms' = [vms EXCEPT ![req[p].id + 1] = Cloned(req[p])]
    BY <1>1, <1>4 DEF Exists
  <1>5. ASSUME NEW b \in BOOLEAN, Exists(k), vms' = [vms EXCEPT ![k].seed = b]
        PROVE  /\ Exists(i) /\ vms'[i].name = vms[i].name
               /\ vms'[i].controller = vms[i].controller
               /\ vms'[i].started = vms[i].started /\ vms'[i].state = vms[i].state
    BY <1>1, <1>5 DEF Exists, VM
  <1>6. CASE /\ pc[p] = "start" /\ Exists(k)
             /\ vms' = [vms EXCEPT ![k].state = "RUNNING", ![k].started = TRUE]
    BY <1>1, <1>6 DEF Exists, VM
  <1>7. CASE Exists(k) /\ vms' = [vms EXCEPT ![k].state = "STOPPED"]
    BY <1>1, <1>7 DEF Exists, VM
  <1>8. CASE vms' = [vms EXCEPT ![k] = None]
    BY <1>1, <1>8 DEF Exists
  <1>9. \/ UNCHANGED vms
        \/ pc[p] = "clone" /\ vms' = [vms EXCEPT ![req[p].id + 1] = Cloned(req[p])]
        \/ \E b \in BOOLEAN : Exists(k) /\ vms' = [vms EXCEPT ![k].seed = b]
        \/ /\ pc[p] = "start" /\ Exists(k)
           /\ vms' = [vms EXCEPT ![k].state = "RUNNING", ![k].started = TRUE]
        \/ Exists(k) /\ vms' = [vms EXCEPT ![k].state = "STOPPED"]
        \/ vms' = [vms EXCEPT ![k] = None]
    BY DEF Provider, CreateLooksUp, Clone, StageSeed, AttachSeed, StartVM,
       CreateConfirms, Find, BootstrapConsumed, DetachSeed, DeleteSeed,
       ReconcileVerifies, DeleteVM, DeleteVerifies, StopVM, StopVerifies,
       ListVMs, Sweep, FailCall
  <1> QED
    BY <1>3, <1>4, <1>5, <1>6, <1>7, <1>8, <1>9

LEMMA OthersTracked ==
  ASSUME Traced, NEW p \in Proc, Provider(p), NEW q \in Proc \ {p}
  PROVE  Tracked(q)'
  <1>1. /\ pc'[q] = pc[q] /\ req'[q] = req[q] /\ cur'[q] = cur[q]
        /\ todo'[q] = todo[q]
    BY DEF Provider, CreateLooksUp, Clone, StageSeed, AttachSeed, StartVM,
       CreateConfirms, Find, BootstrapConsumed, DetachSeed, DeleteSeed,
       ReconcileVerifies, DeleteVM, DeleteVerifies, StopVM, StopVerifies,
       ListVMs, Sweep, FailCall, Effect, SweepOn, Goto, Return, Traced, IInv, Types
  <1>2. /\ Tracked(q) /\ Local(q) /\ Local(p) /\ Unmade(p)
        /\ pc[p] # "idle" /\ pc[q] # "idle" => req[p].id # req[q].id
        /\ req[p].id \in Int \/ pc[p] = "idle"
    BY DEF Traced, IInv, Numbered, Local
  <1>3. pc[q] \in Building \cup {"cleaned", "stopped"} => cur[q] \in Id
    BY <1>2 DEF Local, Dispatched, Building
  <1>4. ASSUME cur[q] \in Id, vms'[cur[q]] # None
        PROVE  /\ Exists(cur[q])
               /\ vms'[cur[q]].name = vms[cur[q]].name
               /\ vms'[cur[q]].controller = vms[cur[q]].controller
               /\ \/ /\ vms'[cur[q]].started = vms[cur[q]].started
                     /\ vms'[cur[q]].state # "STOPPED" =>
                           vms[cur[q]].state # "STOPPED"
                  \/ pc[p] = "start" /\ cur[q] = cur[p]
    <2>1. ~(pc[p] = "clone" /\ cur[q] = req[p].id + 1)
      BY <1>2 DEF Unmade
    <2> QED
      BY <1>4, <2>1, TableEffect DEF Traced
  <1>5. pc[p] = "start" /\ pc[q] \in Building => cur[q] # cur[p]
    BY <1>2 DEF Local, Building
  <1>6. At(q, {"cleaned", "stopped"})' =>
           vms'[cur[q]].controller = req[q].controller
    BY <1>1, <1>2, <1>3, <1>4 DEF Tracked, At, Exists
  <1>7. At(q, Building)' => vms'[cur[q]].name = req[q].name
    BY <1>1, <1>2, <1>3, <1>4 DEF Tracked, At, Exists
  <1>8. "start" \notin HostEvents /\ At(q, {"stage", "attach", "start"})' =>
           vms'[cur[q]].state = "STOPPED" /\ ~vms'[cur[q]].started
    BY <1>1, <1>2, <1>3, <1>4, <1>5 DEF Tracked, At, Exists, Building
  <1> QED
    BY <1>1, <1>2, <1>6, <1>7, <1>8 DEF Tracked

LEMMA ReturnTracked ==
  ASSUME IInv, NEW p \in Proc, NEW e, Return(p, e)
  PROVE  Tracked(p)'
  BY DEF IInv, Types, Return, Tracked, At, Harmful, Building

LEMMA SweepTracked ==
  ASSUME IInv, NEW p \in Proc, NEW T, NEW act, SweepOn(p, T, act),
         T # {} => req[p].op = "RemoveAll"
  PROVE  Tracked(p)'
  <1>1. CASE T = {}
    BY <1>1, ReturnTracked DEF SweepOn
  <1>2. CASE T # {}
    BY <1>2 DEF IInv, Types, SweepOn, Tracked, At, Harmful, Building
  <1> QED
    BY <1>1, <1>2

LEMMA GotoTracked ==
  ASSUME IInv, NEW p \in Proc, NEW next, NEW i \in Id \cup {0}, Goto(p, next, i),
         pc[p] # "idle", Tracked(p), next \notin {"idle", "list", "sweep"},
         next \in Harmful \cup {"consumed", "cleaned", "absent", "stopped"} =>
            req[p].op = "RemoveAll" \/ i = req[p].vm,
         next \in {"cleaned", "stopped"} /\ vms'[i] # None =>
            vms'[i].controller = req[p].controller,
         next \in Building /\ vms'[i] # None => vms'[i].name = req[p].name,
         "start" \notin HostEvents /\ next \in {"stage", "attach", "start"}
            /\ vms'[i] # None =>
               vms'[i].state = "STOPPED" /\ ~vms'[i].started
  PROVE  Tracked(p)'
  <1>1. pc'[p] = next /\ cur'[p] = i /\ req'[p] = req[p] /\ todo'[p] = todo[p]
    BY DEF IInv, Types, Goto
  <1> QED
    BY <1>1 DEF Tracked, At, Exists

\* What a VM has kept once a step of the process it is in the hands of is over.
LEMMA HandEffect ==
  ASSUME IInv, NEW p \in Proc, Provider(p), pc[p] # "clone", cur[p] \in Id,
         vms'[cur[p]] # None
  PROVE  /\ Exists(cur[p])
         /\ vms'[cur[p]].name = vms[cur[p]].name
         /\ vms'[cur[p]].controller = vms[cur[p]].controller
         /\ pc[p] # "start" =>
               /\ vms'[cur[p]].started = vms[cur[p]].started
               /\ vms[cur[p]].state = "STOPPED" => vms'[cur[p]].state = "STOPPED"
  BY TableEffect

LEMMA OwnTracked ==
  ASSUME Traced, NEW p \in Proc, Provider(p)
  PROVE  Tracked(p)'
  <1> DEFINE k == cur[p]
  <1>1. IInv /\ Tracked(p) /\ Local(p) /\ Mine(p)
    BY DEF Traced, IInv
  <1>2. k \in Id \cup {0} /\ vms \in [Id -> VM \cup {None}]
    BY <1>1 DEF IInv, Types
  <1>3. ASSUME NEW e, Return(p, e) PROVE Tracked(p)'
    BY <1>1, <1>3, ReturnTracked
  <1>4. CASE CreateLooksUp(p)
    <2>1. Goto(p, "clone", 0) \/ \E e : Return(p, e)
      BY <1>4 DEF CreateLooksUp
    <2>2. ASSUME Goto(p, "clone", 0) PROVE Tracked(p)'
      BY <1>1, <1>4, <2>2, GotoTracked DEF CreateLooksUp, Harmful, Building
    <2> QED
      BY <1>3, <2>1, <2>2
  <1>5. CASE Clone(p)
    <2>1. /\ pc[p] = "clone" /\ vms' = [vms EXCEPT ![req[p].id + 1] = Cloned(req[p])]
          /\ Goto(p, "stage", req[p].id + 1) \/ Return(p, "error")
      BY <1>5 DEF Clone, Effect
    <2>2. req[p].id + 1 \in Id
      BY <1>1, <2>1, VMConfigAssumption DEF Local, IInv, Types, Numbered, Id
    <2>3. vms'[req[p].id + 1] = Cloned(req[p])
      BY <1>2, <2>1, <2>2
    <2>4. /\ vms'[req[p].id + 1].name = req[p].name
          /\ vms'[req[p].id + 1].state = "STOPPED"
          /\ ~vms'[req[p].id + 1].started
      BY <2>3 DEF Cloned
    <2>5. ASSUME Goto(p, "stage", req[p].id + 1) PROVE Tracked(p)'
      BY <1>1, <2>1, <2>2, <2>4, <2>5, GotoTracked DEF Harmful, Building
    <2> QED
      BY <1>3, <2>1, <2>5
  <1>6. CASE StageSeed(p) \/ AttachSeed(p) \/ StartVM(p)
    <2>1. /\ pc[p] \in {"stage", "attach", "start"} /\ k \in Id
          /\ \/ pc[p] = "stage" /\ Goto(p, "attach", k)
             \/ pc[p] = "attach" /\ Goto(p, "start", k)
             \/ pc[p] = "start" /\ Goto(p, "confirm", k)
             \/ Return(p, "error")
      BY <1>1, <1>6
         DEF StageSeed, AttachSeed, StartVM, Effect, Local, Dispatched
    <2>2. ASSUME vms'[k] # None
          PROVE  /\ vms'[k].name = req[p].name
                 /\ "start" \notin HostEvents /\ pc[p] # "start" =>
                       vms'[k].state = "STOPPED" /\ ~vms'[k].started
      BY <1>1, <2>1, <2>2, HandEffect DEF Tracked, At, Building
    <2>3. ASSUME NEW next \in {"attach", "start", "confirm"}, Goto(p, next, k),
                 pc[p] = "start" => next = "confirm"
          PROVE  Tracked(p)'
      BY <1>1, <2>1, <2>2, <2>3, GotoTracked DEF Harmful, Building
    <2> QED
      BY <1>3, <2>1, <2>3
  <1>7. CASE Find(p)
    <2> DEFINE i == IF req[p].op = "RemoveAll" THEN k ELSE req[p].vm
               err == findOwned(i, req[p].controller)
    <2>1. /\ i \in Id /\ (req[p].op = "RemoveAll" \/ i = req[p].vm)
          /\ pc[p] = "find" /\ req[p].op \notin {"Create", "List"}
      BY <1>1, <1>7 DEF Find, Local, Dispatched, Request
    <2>2. \/ SweepOn(p, todo[p], active[p])
          \/ \E e : Return(p, e)
          \/ \E next \in {"stop", "consumed", "detach", "destroy"} : Goto(p, next, i)
      <3> HIDE DEF err
      <3>1. CASE vms[i].seed
        BY <1>7, <3>1 DEF Find, err
      <3>2. CASE ~vms[i].seed
        BY <1>7, <3>2 DEF Find, err
      <3> QED
        BY <3>1, <3>2
    <2> HIDE DEF i, err
    <2>3. ASSUME NEW next \in {"stop", "consumed", "detach", "destroy"},
                 Goto(p, next, i)
          PROVE  Tracked(p)'
      BY <1>1, <2>1, <2>3, GotoTracked DEF Harmful, Building
    <2> QED
      BY <1>1, <1>3, <2>2, <2>3, SweepTracked DEF Tracked
  <1>8. CASE BootstrapConsumed(p) \/ DetachSeed(p) \/ DeleteSeed(p)
             \/ DeleteVM(p) \/ StopVM(p)
    <2>1. /\ pc[p] \in {"consumed", "detach", "unstage", "destroy", "stop"}
          /\ k \in Id
          /\ \/ \E e : Return(p, e)
             \/ \E next \in {"detach", "unstage", "destroy", "absent"} : Goto(p, next, k)
             \/ \E next \in {"cleaned", "stopped"} : Goto(p, next, k)
      BY <1>1, <1>8 DEF BootstrapConsumed, DetachSeed, DeleteSeed, DeleteVM,
         StopVM, Effect, Local, Dispatched
    <2>2. req[p].op = "RemoveAll" \/ k = req[p].vm
      BY <1>1, <2>1 DEF Tracked, Harmful
    <2>3. vms'[k] # None => vms'[k].controller = req[p].controller
      BY <1>1, <2>1, HandEffect DEF Mine, At, Working, Harmful
    <2>4. ASSUME NEW next \in {"detach", "unstage", "destroy", "absent", "cleaned",
                               "stopped"},
                 Goto(p, next, k)
          PROVE  Tracked(p)'
      BY <1>1, <2>1, <2>2, <2>3, <2>4, GotoTracked DEF Harmful, Building
    <2> QED
      BY <1>3, <2>1, <2>4
  <1>9. CASE DeleteVerifies(p)
    <2>1. SweepOn(p, todo[p], active[p]) \/ \E e : Return(p, e)
      BY <1>9 DEF DeleteVerifies
    <2> QED
      BY <1>1, <1>3, <2>1, SweepTracked DEF Tracked
  <1>10. CASE ListVMs(p)
    <2>1. \/ \E e : Return(p, e)
          \/ \E T : /\ SweepOn(p, T, FALSE)
                    /\ T # {} => req[p].op = "RemoveAll"
      BY <1>10 DEF ListVMs
    <2> QED
      BY <1>1, <1>3, <2>1, SweepTracked
  <1>11. CASE Sweep(p)
    <2>1. req[p].op = "RemoveAll" /\ pc[p] = "sweep"
      BY <1>1, <1>11 DEF Sweep, Tracked
    <2>2. PICK i \in todo[p] :
             \/ \E e : Return(p, e)
             \/ SweepOn(p, todo[p] \ {i}, TRUE)
             \/ /\ pc' = [pc EXCEPT ![p] = "find"]
                /\ cur' = [cur EXCEPT ![p] = i]
                /\ todo' = [todo EXCEPT ![p] = @ \ {i}]
                /\ UNCHANGED req
      BY <1>11 DEF Sweep
    <2>3. CASE UNCHANGED req /\ pc' = [pc EXCEPT ![p] = "find"]
      BY <1>1, <2>1, <2>3 DEF IInv, Types, Tracked, At, Harmful, Building
    <2> QED
      BY <1>1, <1>3, <2>1, <2>2, <2>3, SweepTracked
  <1>12. CASE CreateConfirms(p) \/ ReconcileVerifies(p) \/ StopVerifies(p)
              \/ FailCall(p)
    BY <1>3, <1>12 DEF CreateConfirms, ReconcileVerifies, StopVerifies, FailCall
  <1> QED
    BY <1>4, <1>5, <1>6, <1>7, <1>8, <1>9, <1>10, <1>11, <1>12 DEF Provider

LEMMA ProviderTraced ==
  ASSUME Traced, NEW p \in Proc, Provider(p) PROVE Traced'
  <1>1. IInv'
    BY ProviderKeeps DEF Traced
  <1>2. ASSUME NEW i \in Id, vms'[i] # None, vms'[i].state # "STOPPED"
        PROVE  vms'[i].started
    <2>1. vms'[i] # Cloned(req[p])
      BY <1>2 DEF Cloned
    <2> QED
      BY <1>2, <2>1, TableEffect DEF Traced, Ran
  <1>3. Ran'
    BY <1>2 DEF Ran, Exists
  <1>4. \A q \in Proc : Tracked(q)'
    BY OwnTracked, OthersTracked
  <1> QED
    BY <1>1, <1>3, <1>4 DEF Traced

LEMMA InvokeTraced ==
  ASSUME Traced, NEW p \in Proc, Invoke(p) \/ InvokeRefused(p) PROVE Traced'
  <1>1. IInv'
    BY InvokeKeeps, InvokeRefusedKeeps DEF Traced
  <1>2. UNCHANGED vms
    BY DEF Invoke, InvokeRefused
  <1>3. Ran'
    BY <1>2 DEF Traced, Ran, Exists
  <1>4. ASSUME NEW q \in Proc, q # p PROVE Tracked(q)'
    <2>1. /\ pc'[q] = pc[q] /\ req'[q] = req[q] /\ cur'[q] = cur[q]
          /\ todo'[q] = todo[q] /\ Tracked(q)
      BY <1>4 DEF Invoke, InvokeRefused, Return, Traced, IInv, Types
    <2> QED
      BY <1>2, <2>1 DEF Tracked, At, Exists
  <1>5. ASSUME InvokeRefused(p) PROVE Tracked(p)'
    <2>1. PICK e \in ErrClass : Return(p, e)
      BY <1>5 DEF InvokeRefused, ErrClass
    <2> QED
      BY <2>1, ReturnTracked DEF Traced
  <1>6. ASSUME Invoke(p) PROVE Tracked(p)'
    <2>1. /\ pc[p] = "idle" /\ todo' = todo
          /\ \/ pc'[p] \in {"lookup", "find"}
             \/ pc'[p] = "list" /\ req'[p].op \in {"List", "RemoveAll"}
      BY <1>6 DEF Invoke, Traced, IInv, Types
    <2>2. todo'[p] = {}
      BY <2>1 DEF Traced, Tracked
    <2>3. pc'[p] \notin Harmful \cup Building
                       \cup {"consumed", "cleaned", "absent", "stopped", "sweep"}
      BY <2>1 DEF Harmful, Building
    <2>4. pc'[p] = "list" => req'[p].op \in {"List", "RemoveAll"}
      BY <2>1
    <2> QED
      BY <2>2, <2>3, <2>4 DEF Tracked, At, Building, Harmful
  <1> QED
    BY <1>1, <1>3, <1>4, <1>5, <1>6 DEF Traced

\* What guests and the operator leave of a VM, and when it runs.
LEMMA HostEffect ==
  ASSUME IInv, NEW i \in Id, GuestRuns(i) \/ OperatorActs(i), NEW j \in Id,
         vms'[j] # None
  PROVE  /\ Exists(j)
         /\ vms'[j].name = vms[j].name /\ vms'[j].controller = vms[j].controller
         /\ \/ /\ vms'[j].started = vms[j].started
               /\ vms'[j].state # "STOPPED" => vms[j].state # "STOPPED"
            \/ "start" \in HostEvents /\ vms'[j].started
  <1>1. vms \in [Id -> VM \cup {None}] /\ vms[i] \in VM
    BY DEF IInv, Types, Exists, GuestRuns, OperatorActs
  <1>2. CASE j # i
    BY <1>1, <1>2 DEF GuestRuns, OperatorActs, Exists
  <1>3. CASE j = i
    <2>1. Exists(i)
      BY DEF GuestRuns, OperatorActs
    <2>2. CASE vms' = [vms EXCEPT ![i].consumed = TRUE]
      BY <1>1, <1>3, <2>1, <2>2 DEF VM
    <2>3. ASSUME NEW s \in {"RUNNING", "STOPPED", "PAUSED"},
                 vms[i].state # "STOPPED", vms' = [vms EXCEPT ![i].state = s]
          PROVE  /\ vms'[i].started = vms[i].started
                 /\ vms'[i].name = vms[i].name
                 /\ vms'[i].controller = vms[i].controller
      BY <1>1, <2>3 DEF VM
    <2>4. CASE /\ "start" \in HostEvents
               /\ vms' = [vms EXCEPT ![i].state = "RUNNING", ![i].started = TRUE]
      BY <1>1, <1>3, <2>1, <2>4 DEF VM
    <2>5. CASE vms' = [vms EXCEPT ![i].fixed = FALSE]
      BY <1>1, <1>3, <2>1, <2>5 DEF VM
    <2>6. CASE vms' = [vms EXCEPT ![i].profile = FALSE]
      BY <1>1, <1>3, <2>1, <2>6 DEF VM
    <2>7. CASE vms' = [vms EXCEPT ![i] = None]
      BY <1>1, <1>3, <2>7
    <2> QED
      BY <1>3, <2>1, <2>2, <2>3, <2>4, <2>5, <2>6, <2>7 DEF GuestRuns, OperatorActs
  <1> QED
    BY <1>2, <1>3

LEMMA HostTraced ==
  ASSUME Traced, NEW i \in Id, GuestRuns(i) \/ OperatorActs(i) PROVE Traced'
  <1>1. IInv'
    BY HostKeeps DEF Traced
  <1>2. Ran'
    BY HostEffect DEF Traced, Ran, Exists
  <1>3. ASSUME NEW q \in Proc PROVE Tracked(q)'
    <2>1. UNCHANGED <<pc, req, cur, todo>> /\ Tracked(q)
      BY DEF GuestRuns, OperatorActs, Traced
    <2>2. pc[q] \in Building \cup {"cleaned", "stopped"} => cur[q] \in Id
      BY DEF Traced, IInv, Local, Dispatched, Building
    <2> QED
      BY <2>1, <2>2, HostEffect DEF Traced, Tracked, At, Exists, Building
  <1> QED
    BY <1>1, <1>2, <1>3 DEF Traced

LEMMA TracedHolds == Spec => []Traced
  <1>1. Init => Traced
    BY InitInv
       DEF Init, Traced, Ran, Earlier, Exists, Tracked, At, Harmful, Building
  <1>2. ASSUME Traced, [Next]_vars PROVE Traced'
    <2>1. CASE UNCHANGED vars
      <3>1. IInv'
        BY <1>2, <2>1 DEF Traced, vars, IInv, Types, Numbered, OneMutator,
           Changes, SeedOutlivesRun, Local, Dispatched, Unmade, Mine, Steady,
           Alone, At, Exists
      <3> QED
        BY <1>2, <2>1, <3>1 DEF vars, Traced, Ran, Tracked, At, Exists
    <2> QED
      BY <1>2, <2>1, ProviderTraced, InvokeTraced, HostTraced DEF Next
  <1> QED
    BY <1>1, <1>2, PTL DEF Spec
-----------------------------------------------------------------------------
(* The view of GuestPromise.                                               *)

workload == [i \in Id |-> WorkloadOf(vms[i])]
job == [p \in Proc |-> JobOf(p)]
answer == [p \in Proc |-> reply[p] = "ok"]

\* The VM that a command is for, in the words of Job.
JobId(p) == CASE req[p].op # "Create" -> req[p].vm
              [] req[p].op = "Create" /\ pc[p] \in Building -> cur[p]
              [] OTHER -> 0

LEMMA WorkloadType ==
  ASSUME NEW vm \in VM
  PROVE  /\ WorkloadOf(vm) \in Promise!Workload /\ WorkloadOf(vm) # None
         /\ WorkloadOf(vm).name = vm.name
         /\ WorkloadOf(vm).owner = vm.controller
         /\ WorkloadOf(vm).phase \in {"made", "active", "finished"}
         /\ WorkloadOf(vm).phase = "active" <=> vm.state # "STOPPED"
         /\ WorkloadOf(vm).phase = "finished" <=> vm.state = "STOPPED" /\ vm.started
  <1> DEFINE f == IF vm.state # "STOPPED" THEN "active"
                  ELSE IF vm.started THEN "finished" ELSE "made"
  <1>1. f \in {"made", "active", "finished"}
    OBVIOUS
  <1>2. /\ f = "active" <=> vm.state # "STOPPED"
        /\ f = "finished" <=> vm.state = "STOPPED" /\ vm.started
    OBVIOUS
  <1>3. WorkloadOf(vm) = [name |-> vm.name, owner |-> vm.controller, phase |-> f]
    BY NoneAssumption DEF WorkloadOf
  <1> HIDE DEF f
  <1>4. WorkloadOf(vm) \in [name : VMName, owner : Controller \cup {NoController},
                            phase : {"made", "active", "finished"}]
    BY <1>1, <1>3 DEF VM
  <1>5. WorkloadOf(vm) # None
    BY <1>4, NoneAssumption
  <1> QED
    BY <1>1, <1>2, <1>3, <1>4, <1>5 DEF Promise!Workload, Promise!Phase

LEMMA WorkloadAt ==
  ASSUME IInv, NEW i \in Id
  PROVE  /\ workload[i] = None <=> ~Exists(i)
         /\ Exists(i) =>
              /\ vms[i] \in VM
              /\ workload[i].name = vms[i].name
              /\ workload[i].owner = vms[i].controller
              /\ workload[i].phase = "active" <=> vms[i].state # "STOPPED"
              /\ workload[i].phase = "made" <=> vms[i].state = "STOPPED" /\ ~vms[i].started
  <1>1. workload[i] = WorkloadOf(vms[i])
    BY DEF workload
  <1>2. CASE ~Exists(i)
    BY <1>1, <1>2 DEF WorkloadOf, Exists
  <1>3. CASE Exists(i)
    <2>1. vms[i] \in VM
      BY <1>3 DEF IInv, Types, Exists
    <2> QED
      BY <1>1, <1>3, <2>1, WorkloadType
  <1> QED
    BY <1>2, <1>3

LEMMA JobType ==
  ASSUME IInv, NEW p \in Proc, pc[p] # "idle"
  PROVE  /\ JobOf(p) \in Promise!Job /\ JobOf(p) # None
         /\ JobOf(p).op = req[p].op /\ JobOf(p).controller = req[p].controller
         /\ JobOf(p).name = req[p].name /\ JobOf(p).id = JobId(p)
         /\ ~JobOf(p).seen
  <1>1. req[p] \in Request /\ cur[p] \in Id \cup {0}
    BY DEF IInv, Types, Local, Dispatched
  <1>2. JobOf(p) = [op |-> req[p].op, controller |-> req[p].controller,
                    name |-> req[p].name, seen |-> FALSE, id |-> JobId(p)]
    BY DEF JobOf, JobId
  <1>3. JobId(p) \in Id \cup {0}
    BY <1>1 DEF JobId, Request
  <1>4. JobOf(p) \in [op : Op, controller : Controller, name : VMName,
                      id : Id \cup {0}, seen : BOOLEAN]
    BY <1>1, <1>2, <1>3 DEF Request
  <1>5. JobOf(p) # None
    BY <1>4, NoneAssumption
  <1>6. JobOf(p) \in Promise!Job
    BY <1>4 DEF Promise!Job, Promise!Op, Op
  <1> QED
    BY <1>2, <1>5, <1>6

LEMMA SameTable ==
  ASSUME UNCHANGED vms PROVE workload' = workload
  BY DEF workload

LEMMA Row ==
  ASSUME IInv, NEW i \in Id, NEW v, vms' = [vms EXCEPT ![i] = v]
  PROVE  workload' = [workload EXCEPT ![i] = WorkloadOf(v)]
  BY DEF IInv, Types, workload

\* A VM that is still the same one may have gone into another phase.
LEMMA PhaseRow ==
  ASSUME IInv, NEW i \in Id, Exists(i), NEW vm \in VM,
         vms' = [vms EXCEPT ![i] = vm],
         vm.name = vms[i].name, vm.controller = vms[i].controller
  PROVE  /\ workload' = [workload EXCEPT ![i].phase = WorkloadOf(vm).phase]
         /\ WorkloadOf(vm).phase = WorkloadOf(vms[i]).phase =>
               workload' = workload
  <1>1. vms[i] \in VM
    BY DEF IInv, Types, Exists
  <1> DEFINE w == WorkloadOf(vms[i])
             v == WorkloadOf(vm)
  <1>2. /\ w \in Promise!Workload /\ v \in Promise!Workload
        /\ v.name = w.name /\ v.owner = w.owner
    BY <1>1, WorkloadType
  <1>3. workload[i] = w /\ workload' = [workload EXCEPT ![i] = v]
    BY Row DEF workload
  <1> HIDE DEF w, v
  <1>4. v = [w EXCEPT !.phase = v.phase]
    BY <1>2 DEF Promise!Workload
  <1>5. v.phase = w.phase => v = w
    BY <1>2 DEF Promise!Workload
  <1>6. workload' = [workload EXCEPT ![i].phase = v.phase]
    BY <1>3, <1>4
  <1>7. v.phase = w.phase => workload' = workload
    BY <1>3, <1>5 DEF workload
  <1> QED
    BY <1>6, <1>7 DEF v, w

\* A process that answers, and one that goes on, in the words of GuestPromise.
LEMMA ReturnEnds ==
  ASSUME IInv, NEW p \in Proc, NEW e, Return(p, e)
  PROVE  /\ job' = [job EXCEPT ![p] = None]
         /\ answer' = [answer EXCEPT ![p] = (e = "ok")]
  <1>1. pc'[p] = "idle" /\ reply'[p] = e
    BY DEF IInv, Types, Return
  <1>2. ASSUME NEW q \in Proc, q # p
        PROVE  /\ pc'[q] = pc[q] /\ req'[q] = req[q] /\ cur'[q] = cur[q]
               /\ reply'[q] = reply[q]
    BY <1>2 DEF IInv, Types, Return
  <1>3. ASSUME NEW q \in Proc
        PROVE  JobOf(q)' = IF q = p THEN None ELSE JobOf(q)
    BY <1>1, <1>2 DEF JobOf
  <1>4. ASSUME NEW q \in Proc
        PROVE  (reply'[q] = "ok") = IF q = p THEN e = "ok" ELSE reply[q] = "ok"
    BY <1>1, <1>2
  <1> QED
    BY <1>3, <1>4 DEF job, answer

LEMMA GoesOn ==
  ASSUME IInv, NEW p \in Proc, pc[p] # "idle", pc'[p] # "idle",
         \A q \in Proc \ {p} : pc'[q] = pc[q] /\ cur'[q] = cur[q],
         UNCHANGED <<req, reply>>, JobId(p)' = JobId(p)
  PROVE  job' = job /\ answer' = answer
  <1>1. \A q \in Proc \ {p} : JobOf(q)' = JobOf(q)
    BY DEF JobOf
  <1>2. JobOf(p)' = JobOf(p)
    BY DEF JobOf, JobId
  <1> QED
    BY <1>1, <1>2 DEF job, answer

LEMMA GotoGoesOn ==
  ASSUME IInv, NEW p \in Proc, pc[p] # "idle", NEW next, next # "idle", NEW i,
         Goto(p, next, i),
         req[p].op = "Create" =>
            /\ next \in Building <=> pc[p] \in Building
            /\ pc[p] \in Building => i = cur[p]
  PROVE  job' = job /\ answer' = answer
  <1>1. /\ pc'[p] = next /\ cur'[p] = i /\ UNCHANGED <<req, reply>>
        /\ \A q \in Proc \ {p} : pc'[q] = pc[q] /\ cur'[q] = cur[q]
    BY DEF IInv, Types, Goto
  <1>2. JobId(p)' = JobId(p)
    BY <1>1 DEF JobId
  <1> QED
    BY <1>1, <1>2, GoesOn

\* What "ok" promises, told of VMs.
Accomplished(p) ==
    LET r == req[p]
    IN  /\ r.op = "Create" =>
              \E i \in Id : /\ Exists(i) /\ vms[i].controller = r.controller
                            /\ vms[i].name = r.name
                            /\ pc[p] \in Building =>
                                  i = cur[p] /\ vms[i].state # "STOPPED"
        /\ r.op \in {"ReconcileBootstrap", "Get", "Stop"} =>
              Exists(r.vm) /\ vms[r.vm].controller = r.controller
        /\ r.op = "Stop" => vms[r.vm].state = "STOPPED"
        /\ r.op = "Delete" => ~Exists(r.vm)

LEMMA Achieves ==
  ASSUME IInv, NEW p \in Proc, pc[p] # "idle", Accomplished(p)
  PROVE  Promise!Achieved(JobOf(p))
  <1> DEFINE j == JobOf(p)
             r == req[p]
  <1>1. /\ j.op = r.op /\ j.controller = r.controller /\ j.name = r.name
        /\ j.id = JobId(p)
    BY JobType
  <1>2. r \in Request /\ r.vm \in Id
    BY DEF IInv, Local, Dispatched, Request
  <1> HIDE DEF j, r
  <1>3. ASSUME j.op = "Create"
        PROVE  \E i \in Id : /\ Promise!Owned(j, i) /\ workload[i].name = j.name
                             /\ j.id # 0 =>
                                  i = j.id /\ workload[i].phase = "active"
    <2>1. PICK i \in Id : /\ Exists(i) /\ vms[i].controller = r.controller
                          /\ vms[i].name = r.name
                          /\ pc[p] \in Building =>
                                i = cur[p] /\ vms[i].state # "STOPPED"
      BY <1>1, <1>3 DEF Accomplished, r
    <2>2. j.id # 0 => pc[p] \in Building /\ j.id = cur[p]
      BY <1>1, <1>3 DEF JobId, r
    <2>3. /\ workload[i] # None /\ workload[i].owner = j.controller
          /\ workload[i].name = j.name
          /\ j.id # 0 => i = j.id /\ workload[i].phase = "active"
      BY <1>1, <2>1, <2>2, WorkloadAt
    <2>4. Promise!Owned(j, i)
      BY <2>3 DEF Promise!Owned, workload
    <2> QED
      BY <2>3, <2>4
  <1>4. j.op # "Create" => j.id = r.vm
    BY <1>1 DEF JobId, r
  <1>5. ASSUME j.op \in {"ReconcileBootstrap", "Get", "Stop"}
        PROVE  /\ Promise!Owned(j, j.id)
               /\ j.op = "Stop" => workload[j.id].phase # "active"
    <2>1. /\ Exists(r.vm) /\ vms[r.vm].controller = r.controller
          /\ j.op = "Stop" => vms[r.vm].state = "STOPPED"
      BY <1>1, <1>5 DEF Accomplished, r
    <2>2. /\ workload[r.vm] # None /\ workload[r.vm].owner = j.controller
          /\ j.op = "Stop" => workload[r.vm].phase # "active"
      BY <1>1, <1>2, <2>1, WorkloadAt
    <2> QED
      BY <1>2, <1>4, <1>5, <2>2 DEF Promise!Owned, workload
  <1>6. j.op = "Delete" => workload[j.id] = None
    BY <1>1, <1>2, <1>4, WorkloadAt DEF Accomplished, r
  <1> QED
    BY <1>3, <1>5, <1>6 DEF Promise!Achieved, workload, j

LEMMA IsAnswer ==
  ASSUME IInv, NEW p \in Proc, pc[p] # "idle", workload' = workload,
         NEW e, Return(p, e), e = "ok" => Accomplished(p)
  PROVE  Promise!Answer(p)
  <1>1. /\ job[p] = JobOf(p) /\ job[p] # None /\ job[p].op = req[p].op
        /\ req[p].op \in Op
    BY JobType DEF job, IInv, Local, Dispatched, Request
  <1>2. /\ job' = [job EXCEPT ![p] = None]
        /\ answer' = [answer EXCEPT ![p] = (e = "ok")]
    BY ReturnEnds
  <1>3. (e = "ok") \in BOOLEAN
    OBVIOUS
  <1>4. e = "ok" => Promise!Achieved(job[p])
    BY <1>1, Achieves
  <1>5. \E ok \in BOOLEAN : /\ job' = [job EXCEPT ![p] = None]
                            /\ answer' = [answer EXCEPT ![p] = ok]
                            /\ ok => job[p].seen \/ Promise!Achieved(job[p])
    BY <1>2, <1>3, <1>4
  <1> QED
    BY <1>1, <1>5 DEF Promise!Answer, Promise!End, Promise!Serves, Promise!Op,
       Op, workload, job, answer

LEMMA IsBegin ==
  ASSUME IInv, NEW p \in Proc, Invoke(p), IInv'
  PROVE  Promise!Begin(p)
  <1>1. /\ pc[p] = "idle" /\ pc'[p] # "idle" /\ pc'[p] \notin Building
        /\ \A q \in Proc \ {p} : pc'[q] = pc[q] /\ req'[q] = req[q]
        /\ UNCHANGED <<vms, cur, reply>>
    BY DEF Invoke, IInv, Types, Building
  <1>2. job[p] = None
    BY <1>1 DEF job, JobOf
  <1>3. req'[p] \in Request /\ cur'[p] \in Id \cup {0}
    BY <1>1 DEF IInv, Types, Local, Dispatched
  <1>4. JobOf(p)' = [op |-> req'[p].op, controller |-> req'[p].controller,
                     name |-> req'[p].name, seen |-> FALSE, id |-> JobId(p)']
    BY <1>1 DEF JobOf, JobId
  <1>5. /\ JobId(p)' \in Id \cup {0}
        /\ req'[p].op = "Create" => JobId(p)' = 0
    BY <1>1, <1>3 DEF JobId, Request
  <1>6. JobOf(p)' \in [op : Op, controller : Controller, name : VMName,
                       id : Id \cup {0}, seen : BOOLEAN]
    BY <1>3, <1>4, <1>5 DEF Request
  <1>7. /\ job'[p] \in Promise!Job /\ ~job'[p].seen
        /\ job'[p].op = "Create" => job'[p].id = 0
    <2>1. job'[p] = JobOf(p)'
      BY DEF job
    <2>2. JobOf(p)' \in Promise!Job
      BY <1>6 DEF Promise!Job, Promise!Op, Op
    <2>3. /\ ~(JobOf(p)').seen /\ (JobOf(p)').op = req'[p].op
          /\ (JobOf(p)').id = JobId(p)'
      BY <1>4
    <2> QED
      BY <1>5, <2>1, <2>2, <2>3
  <1>8. \A q \in Proc \ {p} : JobOf(q)' = JobOf(q)
    BY <1>1 DEF JobOf
  <1>9. job' = [job EXCEPT ![p] = job'[p]]
    BY <1>8 DEF job
  <1>10. workload' = workload /\ answer' = answer
    BY <1>1, SameTable DEF answer
  <1> QED
    BY <1>2, <1>7, <1>9, <1>10 DEF Promise!Begin, workload, job, answer

LEMMA IsRefuse ==
  ASSUME IInv, NEW p \in Proc, InvokeRefused(p)
  PROVE  Promise!Refuse(p)
  <1>1. pc[p] = "idle" /\ UNCHANGED vms
    BY DEF InvokeRefused
  <1>2. PICK e \in {"ErrUnsupported", "ErrUnsafeOperation"} : Return(p, e)
    BY DEF InvokeRefused
  <1>3. job[p] = None
    BY <1>1 DEF job, JobOf
  <1>4. job' = [job EXCEPT ![p] = None] /\ answer' = [answer EXCEPT ![p] = (e = "ok")]
    BY <1>2, ReturnEnds
  <1>5. job' = job
    BY <1>3, <1>4 DEF job
  <1>6. answer' = [answer EXCEPT ![p] = FALSE]
    BY <1>4
  <1>7. workload' = workload
    BY <1>1, SameTable
  <1> QED
    BY <1>3, <1>5, <1>6, <1>7 DEF Promise!Refuse, workload, job, answer

\* A command goes on after a step, or its answer is lost.
Onward(p) == \/ job' = job /\ answer' = answer
             \/ job' = [job EXCEPT ![p] = None] /\ answer' = [answer EXCEPT ![p] = FALSE]

LEMMA ReturnOnward ==
  ASSUME IInv, NEW p \in Proc, Return(p, "error")
  PROVE  job' = [job EXCEPT ![p] = None] /\ answer' = [answer EXCEPT ![p] = FALSE]
  <1>1. /\ job' = [job EXCEPT ![p] = None]
        /\ answer' = [answer EXCEPT ![p] = ("error" = "ok")]
    BY ReturnEnds
  <1> QED
    BY <1>1

LEMMA EffectOnward ==
  ASSUME IInv, NEW p \in Proc, pc[p] # "idle", NEW next, next # "idle",
         Effect(p, next, cur[p]),
         req[p].op = "Create" => (next \in Building <=> pc[p] \in Building)
  PROVE  Onward(p)
  <1>1. CASE Goto(p, next, cur[p])
    BY <1>1, GotoGoesOn DEF Onward
  <1>2. CASE Return(p, "error")
    BY <1>2, ReturnOnward DEF Onward
  <1> QED
    BY <1>1, <1>2 DEF Effect

LEMMA IsCreate ==
  ASSUME IInv, NEW p \in Proc, Clone(p), IInv'
  PROVE  Promise!Create(p)
  <1> DEFINE j == JobOf(p)
             r == req[p]
             i == r.id + 1
             w == [name |-> r.name, owner |-> r.controller, phase |-> "made"]
  <1>1. /\ pc[p] = "clone" /\ r.op = "Create" /\ r \in Request
        /\ vms' = [vms EXCEPT ![i] = Cloned(r)] /\ vms[i] = None
        /\ \A k \in Id : Exists(k) => vms[k].name # r.name
        /\ Goto(p, "stage", i) \/ Return(p, "error")
    BY DEF Clone, Effect, IInv, Local, Dispatched, Unmade, Exists
  <1>2. i \in Id /\ i # 0
    BY <1>1, VMConfigAssumption DEF IInv, Local, Types, Numbered, Id
  <1>3. /\ job[p] = j /\ j # None /\ j.op = "Create" /\ j.name = r.name
        /\ j.controller = r.controller /\ j.id = 0
    BY <1>1, JobType DEF job, JobId, Building
  <1>4. WorkloadOf(Cloned(r)) = w
    <2>1. Cloned(r) \in VM
      BY <1>1 DEF Cloned, VM, Request
    <2>2. Cloned(r) # None
      BY <2>1, NoneAssumption
    <2> QED
      BY <2>2 DEF WorkloadOf, Cloned
  <1>5. workload' = [workload EXCEPT ![i] = w]
    <2> HIDE DEF i, r, w
    <2> QED
      BY <1>1, <1>2, <1>4, Row
  <1>6. workload[i] = None
    BY <1>1, <1>2 DEF workload, WorkloadOf
  <1>7. \A k \in Id : workload[k] # None => workload[k].name # r.name
    BY <1>1, WorkloadAt
  <1>8. \/ job' = [job EXCEPT ![p] = [j EXCEPT !.id = i]] /\ answer' = answer
        \/ job' = [job EXCEPT ![p] = None] /\ answer' = [answer EXCEPT ![p] = FALSE]
    <2>1. CASE Return(p, "error")
      BY <2>1, ReturnOnward
    <2>2. CASE Goto(p, "stage", i)
      <3>1. /\ pc'[p] = "stage" /\ cur'[p] = i /\ UNCHANGED <<req, reply>>
            /\ \A q \in Proc \ {p} : pc'[q] = pc[q] /\ cur'[q] = cur[q]
        BY <2>2 DEF Goto, IInv, Types
      <3>f. PICK f \in BOOLEAN : f = FALSE
        OBVIOUS
      <3>2. JobOf(p)' = [op |-> r.op, controller |-> r.controller,
                         name |-> r.name, seen |-> f, id |-> i]
        BY <1>1, <3>1, <3>f DEF JobOf, Building
      <3>3. j = [op |-> r.op, controller |-> r.controller,
                 name |-> r.name, seen |-> f, id |-> 0]
        BY <1>1, <3>f DEF JobOf, Building
      <3>4. JobOf(p)' = [j EXCEPT !.id = i]
        <4> HIDE DEF i, r
        <4> QED
          BY <3>2, <3>3
      <3>5. \A q \in Proc \ {p} : JobOf(q)' = JobOf(q)
        BY <3>1 DEF JobOf
      <3> HIDE DEF j, i
      <3>6. job' = [job EXCEPT ![p] = [j EXCEPT !.id = i]]
        BY <3>4, <3>5 DEF job
      <3> QED
        BY <3>1, <3>6 DEF answer
    <2> QED
      BY <1>1, <2>1, <2>2
  <1> HIDE DEF j, i, r
  <1> QED
    BY <1>2, <1>3, <1>5, <1>6, <1>7, <1>8
       DEF Promise!Create, Promise!Serves, Promise!End, workload, job, answer

LEMMA IsStart ==
  ASSUME Traced, NEW p \in Proc, StartVM(p)
  PROVE  Promise!Start(p)
  <1> DEFINE j == JobOf(p)
             k == cur[p]
             vm == [vms[k] EXCEPT !.state = "RUNNING", !.started = TRUE]
  <1>0. IInv /\ Local(p) /\ Mine(p) /\ Tracked(p)
    BY DEF Traced, IInv
  <1>1. /\ pc[p] = "start" /\ k \in Id /\ Exists(k) /\ req[p].op = "Create"
        /\ vms[k].controller = req[p].controller
        /\ vms' = [vms EXCEPT ![k].state = "RUNNING", ![k].started = TRUE]
        /\ Effect(p, "confirm", k)
    BY <1>0 DEF StartVM, Local, Dispatched, Mine, At, Working, Building
  <1>2. /\ vms' = [vms EXCEPT ![k] = vm] /\ vm \in VM /\ vm.name = vms[k].name
        /\ vm.controller = vms[k].controller /\ vm.state # "STOPPED"
    BY <1>0, <1>1 DEF IInv, Types, Exists, VM
  <1>3. /\ job[p] = j /\ j # None /\ j.op = "Create"
        /\ j.controller = req[p].controller /\ j.id = k
    BY <1>0, <1>1, JobType DEF job, JobId, Building
  <1>4. "start" \in HostEvents \/ workload[k].phase = "made"
    BY <1>0, <1>1, WorkloadAt DEF Tracked, At
  <1>5. workload[k] # None /\ workload[k].owner = j.controller
    BY <1>0, <1>1, <1>3, WorkloadAt
  <1> HIDE DEF vm
  <1>6. workload' = [workload EXCEPT ![k].phase = "active"]
    <2>1. WorkloadOf(vm).phase = "active"
      BY <1>2, WorkloadType
    <2>2. workload' = [workload EXCEPT ![k].phase = WorkloadOf(vm).phase]
      <3> HIDE DEF k
      <3> QED
        BY <1>0, <1>1, <1>2, PhaseRow
    <2> QED
      BY <2>1, <2>2
  <1>7. Onward(p)
    BY <1>0, <1>1, EffectOnward DEF Building
  <1> HIDE DEF j, k
  <1> QED
    BY <1>1, <1>3, <1>4, <1>5, <1>6, <1>7 DEF Onward, Promise!Start,
       Promise!Serves, Promise!Owned, Promise!Continue, Promise!End, workload,
       job, answer

LEMMA IsHalt ==
  ASSUME Traced, NEW p \in Proc, StopVM(p), Exists(cur[p]),
         vms[cur[p]].state # "STOPPED",
         vms' = [vms EXCEPT ![cur[p]].state = "STOPPED"]
  PROVE  Promise!Halt(p)
  <1> DEFINE j == JobOf(p)
             k == cur[p]
             vm == [vms[k] EXCEPT !.state = "STOPPED"]
  <1>0. IInv /\ Local(p) /\ Mine(p) /\ Tracked(p) /\ Ran
    BY DEF Traced, IInv
  <1>1. /\ pc[p] = "stop" /\ k \in Id /\ Exists(k) /\ req[p].op = "Stop"
        /\ vms[k].controller = req[p].controller /\ k = req[p].vm
        /\ vms[k].started /\ Effect(p, "stopped", k)
    BY <1>0 DEF StopVM, Local, Dispatched, Mine, At, Working, Harmful, Tracked, Ran
  <1>2. /\ vms' = [vms EXCEPT ![k] = vm] /\ vm \in VM /\ vm.name = vms[k].name
        /\ vm.controller = vms[k].controller /\ vm.state = "STOPPED" /\ vm.started
    BY <1>0, <1>1 DEF IInv, Types, Exists, VM
  <1>3. /\ job[p] = j /\ j # None /\ j.op = "Stop"
        /\ j.controller = req[p].controller /\ j.id = k
    BY <1>0, <1>1, JobType DEF job, JobId
  <1>4. /\ workload[k] # None /\ workload[k].owner = j.controller
        /\ workload[k].phase = "active"
    BY <1>0, <1>1, <1>3, WorkloadAt
  <1> HIDE DEF vm
  <1>5. workload' = [workload EXCEPT ![k].phase = "finished"]
    <2>1. WorkloadOf(vm).phase = "finished"
      BY <1>2, WorkloadType
    <2>2. workload' = [workload EXCEPT ![k].phase = WorkloadOf(vm).phase]
      <3> HIDE DEF k
      <3> QED
        BY <1>0, <1>1, <1>2, PhaseRow
    <2> QED
      BY <2>1, <2>2
  <1>6. Onward(p)
    BY <1>0, <1>1, EffectOnward
  <1> HIDE DEF j, k
  <1> QED
    BY <1>1, <1>3, <1>4, <1>5, <1>6 DEF Onward, Promise!Halt,
       Promise!Serves, Promise!Owned, Promise!Continue, Promise!End, workload,
       job, answer

LEMMA IsRetire ==
  ASSUME Traced, NEW p \in Proc, DeleteVM(p), Exists(cur[p])
  PROVE  Promise!Retire(p)
  <1> DEFINE j == JobOf(p)
             k == cur[p]
  <1>0. IInv /\ Local(p) /\ Mine(p) /\ Steady(p) /\ Tracked(p)
    BY DEF Traced, IInv
  <1>1. /\ pc[p] = "destroy" /\ k \in Id /\ req[p].op \in {"Delete", "RemoveAll"}
        /\ vms[k].controller = req[p].controller
        /\ req[p].op # "RemoveAll" => k = req[p].vm
        /\ Alone => vms[k].state = "STOPPED"
        /\ vms' = [vms EXCEPT ![k] = None] /\ Effect(p, "absent", k)
    BY <1>0 DEF DeleteVM, Local, Dispatched, Mine, Steady, At, Working, Retiring,
       Harmful, Tracked
  <1>2. /\ job[p] = j /\ j # None /\ j.op = req[p].op
        /\ j.controller = req[p].controller
        /\ j.op # "RemoveAll" => k = j.id
    BY <1>0, <1>1, JobType DEF job, JobId
  <1>3. /\ workload[k] # None /\ workload[k].owner = j.controller
        /\ Alone => workload[k].phase # "active"
    BY <1>0, <1>1, <1>2, WorkloadAt
  <1>4. workload' = [workload EXCEPT ![k] = None]
    <2>1. WorkloadOf(None) = None
      BY DEF WorkloadOf
    <2>2. workload' = [workload EXCEPT ![k] = WorkloadOf(None)]
      <3> HIDE DEF k
      <3> QED
        BY <1>0, <1>1, Row
    <2> QED
      BY <2>1, <2>2
  <1>5. Onward(p)
    BY <1>0, <1>1, EffectOnward
  <1> HIDE DEF j, k
  <1> QED
    BY <1>1, <1>2, <1>3, <1>4, <1>5 DEF Onward, Promise!Retire,
       Promise!Serves, Promise!Owned, Promise!Continue, Promise!End, workload,
       job, answer

LEMMA HostUnseen ==
  ASSUME IInv, NEW i \in Id, GuestRuns(i) \/ OperatorActs(i)
  PROVE  job' = job /\ answer' = answer
  BY DEF GuestRuns, OperatorActs, job, JobOf, answer

\* What the guests and the operator do, as GuestPromise sees it.
LEMMA IsHost ==
  ASSUME Traced, NEW i \in Id, GuestRuns(i) \/ OperatorActs(i)
  PROVE  \/ Promise!Host(i)
         \/ workload' = workload /\ job' = job /\ answer' = answer
  <1>0. IInv /\ Ran /\ Exists(i) /\ vms[i] \in VM /\ vms \in [Id -> VM \cup {None}]
    BY DEF Traced, IInv, Types, Exists, GuestRuns, OperatorActs
  <1>1. job' = job /\ answer' = answer
    BY <1>0, HostUnseen
  <1>2. workload[i] # None
    BY <1>0, WorkloadAt
  <1>3. ASSUME NEW vm \in VM, vms' = [vms EXCEPT ![i] = vm],
               vm.name = vms[i].name, vm.controller = vms[i].controller,
               \/ vm.started = vms[i].started /\ vm.state = vms[i].state
               \/ vms[i].state # "STOPPED" /\ vm.started
               \/ "start" \in HostEvents /\ vm.state # "STOPPED"
        PROVE  \/ Promise!Host(i)
               \/ workload' = workload /\ job' = job /\ answer' = answer
    <2> DEFINE f == WorkloadOf(vm).phase
               w == WorkloadOf(vms[i]).phase
    <2>1. workload' = [workload EXCEPT ![i].phase = f] /\ (f = w => workload' = workload)
      BY <1>0, <1>3, PhaseRow
    <2>2. /\ f \in {"made", "active", "finished"}
          /\ f = "active" <=> vm.state # "STOPPED"
          /\ f = "finished" <=> vm.state = "STOPPED" /\ vm.started
      BY <1>3, WorkloadType
    <2>3. /\ w \in {"made", "active", "finished"}
          /\ w = "active" <=> vms[i].state # "STOPPED"
          /\ w = "finished" <=> vms[i].state = "STOPPED" /\ vms[i].started
      BY <1>0, WorkloadType
    <2>4. workload[i].phase = w
      BY DEF workload
    <2> HIDE DEF f, w
    <2>5. \/ f = w
          \/ w = "active" /\ f = "finished"
          \/ "start" \in HostEvents /\ f = "active"
      BY <1>3, <2>2, <2>3
    <2> QED
      BY <1>1, <1>2, <2>1, <2>4, <2>5
         DEF Promise!Host, Promise!Continue, workload, job, answer
  <1>4. CASE vms' = [vms EXCEPT ![i].consumed = TRUE]
    <2> DEFINE vm == [vms[i] EXCEPT !.consumed = TRUE]
    <2>1. /\ vms' = [vms EXCEPT ![i] = vm] /\ vm \in VM
          /\ vm.name = vms[i].name /\ vm.controller = vms[i].controller
          /\ vm.started = vms[i].started /\ vm.state = vms[i].state
      BY <1>0, <1>4 DEF VM
    <2> HIDE DEF vm
    <2> QED
      BY <1>3, <2>1
  <1>5. ASSUME NEW s \in {"RUNNING", "STOPPED", "PAUSED"},
               vms[i].state # "STOPPED", vms' = [vms EXCEPT ![i].state = s]
        PROVE  \/ Promise!Host(i)
               \/ workload' = workload /\ job' = job /\ answer' = answer
    <2> DEFINE vm == [vms[i] EXCEPT !.state = s]
    <2>1. /\ vms' = [vms EXCEPT ![i] = vm] /\ vm \in VM
          /\ vm.name = vms[i].name /\ vm.controller = vms[i].controller
          /\ vm.started
      BY <1>0, <1>5 DEF VM, Ran
    <2> HIDE DEF vm
    <2> QED
      BY <1>3, <1>5, <2>1
  <1>6. CASE /\ "start" \in HostEvents
             /\ vms' = [vms EXCEPT ![i].state = "RUNNING", ![i].started = TRUE]
    <2> DEFINE vm == [vms[i] EXCEPT !.state = "RUNNING", !.started = TRUE]
    <2>1. /\ vms' = [vms EXCEPT ![i] = vm] /\ vm \in VM
          /\ vm.name = vms[i].name /\ vm.controller = vms[i].controller
          /\ vm.state # "STOPPED"
      BY <1>0, <1>6 DEF VM
    <2> HIDE DEF vm
    <2> QED
      BY <1>3, <1>6, <2>1
  <1>7. CASE vms' = [vms EXCEPT ![i].fixed = FALSE]
    <2> DEFINE vm == [vms[i] EXCEPT !.fixed = FALSE]
    <2>1. /\ vms' = [vms EXCEPT ![i] = vm] /\ vm \in VM
          /\ vm.name = vms[i].name /\ vm.controller = vms[i].controller
          /\ vm.started = vms[i].started /\ vm.state = vms[i].state
      BY <1>0, <1>7 DEF VM
    <2> HIDE DEF vm
    <2> QED
      BY <1>3, <2>1
  <1>8. CASE vms' = [vms EXCEPT ![i].profile = FALSE]
    <2> DEFINE vm == [vms[i] EXCEPT !.profile = FALSE]
    <2>1. /\ vms' = [vms EXCEPT ![i] = vm] /\ vm \in VM
          /\ vm.name = vms[i].name /\ vm.controller = vms[i].controller
          /\ vm.started = vms[i].started /\ vm.state = vms[i].state
      BY <1>0, <1>8 DEF VM
    <2> HIDE DEF vm
    <2> QED
      BY <1>3, <2>1
  <1>9. CASE "delete" \in HostEvents /\ vms' = [vms EXCEPT ![i] = None]
    <2>1. WorkloadOf(None) = None
      BY DEF WorkloadOf
    <2>2. workload' = [workload EXCEPT ![i] = None]
      BY <1>0, <1>9, <2>1, Row
    <2> QED
      BY <1>1, <1>2, <1>9, <2>2
         DEF Promise!Host, Promise!Continue, workload, job, answer
  <1> QED
    BY <1>4, <1>5, <1>6, <1>7, <1>8, <1>9 DEF GuestRuns, OperatorActs
-----------------------------------------------------------------------------
(* The steps of a provider process.                                        *)

\* One step of a process as GuestPromise may see it.
Promised(p) == \/ Promise!Answer(p) \/ Promise!Create(p) \/ Promise!Start(p)
               \/ Promise!Halt(p) \/ Promise!Retire(p)
               \/ workload' = workload /\ job' = job /\ answer' = answer

\* SweepOn says "ok" to a Delete whose VM is gone.
LEMMA SweepPromised ==
  ASSUME IInv, NEW p \in Proc, pc[p] # "idle", NEW T, NEW act,
         SweepOn(p, T, act), UNCHANGED vms,
         req[p].op \in {"List", "Delete", "RemoveAll"},
         req[p].op = "Delete" => ~Exists(req[p].vm)
  PROVE  Promised(p)
  <1>0. workload' = workload
    BY SameTable
  <1>1. CASE T = {}
    <2>1. Accomplished(p)
      BY DEF Accomplished
    <2>2. PICK e : Return(p, e)
      BY <1>1 DEF SweepOn
    <2> QED
      BY <1>0, <2>1, <2>2, IsAnswer DEF Promised
  <1>2. CASE T # {}
    <2>1. /\ pc'[p] = "sweep" /\ UNCHANGED <<req, cur, reply>>
          /\ \A q \in Proc \ {p} : pc'[q] = pc[q] /\ cur'[q] = cur[q]
      BY <1>2 DEF SweepOn, IInv, Types
    <2>2. JobId(p)' = JobId(p)
      BY <2>1 DEF JobId
    <2> QED
      BY <1>0, <2>1, <2>2, GoesOn DEF Promised
  <1> QED
    BY <1>1, <1>2

LEMMA ProviderPromised ==
  ASSUME Traced, NEW p \in Proc, Provider(p), IInv' PROVE Promised(p)
  <1> DEFINE r == req[p]
             k == cur[p]
  <1>0. /\ IInv /\ Local(p) /\ Mine(p) /\ Tracked(p)
        /\ vms \in [Id -> VM \cup {None}]
    BY DEF Traced, IInv, Types
  <1>a. pc[p] # "idle"
    BY DEF Provider, CreateLooksUp, Clone, StageSeed, AttachSeed, StartVM,
       CreateConfirms, Find, BootstrapConsumed, DetachSeed, DeleteSeed,
       ReconcileVerifies, DeleteVM, DeleteVerifies, StopVM, StopVerifies,
       ListVMs, Sweep, FailCall
  <1>b. r \in Request /\ r.vm \in Id
    BY <1>0, <1>a DEF Local, Dispatched, Request
  <1>c. ASSUME NEW e, Return(p, e), e = "ok" => Accomplished(p), UNCHANGED vms
        PROVE  Promised(p)
    BY <1>0, <1>a, <1>c, SameTable, IsAnswer DEF Promised
  <1>d. ASSUME NEW next, Effect(p, next, k), next # "idle",
               r.op = "Create" => (next \in Building <=> pc[p] \in Building),
               workload' = workload
        PROVE  Promised(p)
    <2>1. CASE Goto(p, next, k)
      BY <1>0, <1>a, <1>d, <2>1, GotoGoesOn DEF Promised
    <2>2. CASE Return(p, "error")
      BY <1>0, <1>a, <1>d, <2>2, IsAnswer DEF Promised
    <2> QED
      BY <1>d, <2>1, <2>2 DEF Effect
  <1>1. CASE CreateLooksUp(p)
    <2>1. pc[p] = "lookup" /\ r.op = "Create" /\ UNCHANGED vms
      BY <1>0, <1>1 DEF CreateLooksUp, Local
    <2>2. CASE Goto(p, "clone", 0)
      BY <1>0, <2>1, <2>2, GotoGoesOn, SameTable DEF Promised, Building
    <2>3. ASSUME NEW i \in Id, Exists(i), vms[i].name = r.name,
                 Return(p, owner(vms[i], r.controller))
          PROVE  Promised(p)
      <3>1. PICK e : e = owner(vms[i], r.controller)
        OBVIOUS
      <3>2. e = "ok" => vms[i].controller = r.controller
        BY <3>1, OwnerClass
      <3>3. e = "ok" => Accomplished(p)
        BY <2>1, <2>3, <3>2 DEF Accomplished, Building
      <3> QED
        BY <1>c, <2>1, <2>3, <3>1, <3>3
    <2> QED
      BY <1>1, <2>2, <2>3 DEF CreateLooksUp
  <1>2. CASE Clone(p)
    BY <1>0, <1>2, IsCreate DEF Promised
  <1>3. CASE StageSeed(p) \/ DeleteSeed(p) \/ BootstrapConsumed(p)
    <2>1. /\ UNCHANGED vms
          /\ \/ \E next \in {"attach", "cleaned", "destroy", "detach"} :
                   /\ Effect(p, next, k)
                   /\ r.op = "Create" => (next \in Building <=> pc[p] \in Building)
             \/ Return(p, "ErrUnsafeOperation")
      BY <1>0, <1>3 DEF StageSeed, DeleteSeed, BootstrapConsumed, Effect, Local,
         Dispatched, Building
    <2> QED
      BY <1>c, <1>d, <2>1, SameTable
  <1>4. CASE AttachSeed(p) \/ DetachSeed(p)
    <2>1. PICK b \in BOOLEAN : vms' = [vms EXCEPT ![k].seed = b]
      BY <1>4 DEF AttachSeed, DetachSeed
    <2>2. k \in Id /\ Exists(k) /\ vms[k] \in VM
      BY <1>0, <1>4 DEF AttachSeed, DetachSeed, Local, Dispatched, Exists
    <2> DEFINE vm == [vms[k] EXCEPT !.seed = b]
    <2>3. /\ vms' = [vms EXCEPT ![k] = vm] /\ vm \in VM
          /\ vm.name = vms[k].name /\ vm.controller = vms[k].controller
          /\ vm.state = vms[k].state /\ vm.started = vms[k].started
      BY <1>0, <2>1, <2>2 DEF VM
    <2>4. WorkloadOf(vm).phase = WorkloadOf(vms[k]).phase
      <3> HIDE DEF vm
      <3>1. vm # None /\ vms[k] # None
        BY <2>2, <2>3, NoneAssumption
      <3> QED
        BY <2>3, <3>1 DEF WorkloadOf
    <2>5. workload' = workload
      <3> HIDE DEF vm, k
      <3> QED
        BY <1>0, <2>2, <2>3, <2>4, PhaseRow
    <2>6. \E next \in {"start", "unstage"} :
             /\ Effect(p, next, k)
             /\ r.op = "Create" => (next \in Building <=> pc[p] \in Building)
      BY <1>0, <1>4 DEF AttachSeed, DetachSeed, Local, Dispatched, Building
    <2> QED
      BY <1>d, <2>5, <2>6
  <1>5. CASE StartVM(p)
    BY <1>5, IsStart DEF Promised
  <1>6. CASE CreateConfirms(p)
    <2> DEFINE err == findOwned(k, r.controller)
               ans == CASE err # "ok" -> err
                        [] err = "ok" /\ (vms[k].state # "RUNNING" \/ ~vms[k].seed)
                              -> "ErrManagedDrift"
                        [] OTHER -> "ok"
    <2>1. /\ pc[p] = "confirm" /\ r.op = "Create" /\ k \in Id /\ UNCHANGED vms
          /\ Return(p, ans)
      BY <1>0, <1>6 DEF CreateConfirms, Local, Dispatched
    <2>2. ans = "ok" => err = "ok" /\ vms[k].state = "RUNNING"
      <3> HIDE DEF err
      <3> QED
        OBVIOUS
    <2>3. ans = "ok" => Exists(k) /\ vms[k].controller = r.controller
      BY <2>2, FindOwnedClass
    <2> HIDE DEF ans, err
    <2>4. ans = "ok" => Accomplished(p)
      BY <1>0, <2>1, <2>2, <2>3 DEF Accomplished, Tracked, At, Building
    <2> QED
      BY <1>c, <2>1, <2>4
  <1>7. CASE Find(p)
    <2> DEFINE i == IF r.op = "RemoveAll" THEN k ELSE r.vm
               err == findOwned(i, r.controller)
    <2>1. /\ r.op \notin {"Create", "List"} /\ UNCHANGED vms /\ pc[p] = "find"
          /\ r.op # "RemoveAll" => i = r.vm
          /\ i \in Id /\ r.op \in Op
      BY <1>0, <1>7, <1>b DEF Find, Local, Request
    <2>2. /\ err = "ErrNotFound" => ~Exists(i)
          /\ err = "ok" => Exists(i) /\ vms[i].controller = r.controller
      BY FindOwnedClass DEF findOwned, owner, verifyRuntime
    <2> HIDE DEF err, i
    <2>3. ASSUME NEW next \in {"stop", "consumed", "detach", "destroy"},
                 Goto(p, next, i)
          PROVE  Promised(p)
      BY <1>0, <1>a, <2>1, <2>3, GotoGoesOn, SameTable DEF Promised
    <2>4. CASE /\ err = "ErrNotFound" /\ r.op \in {"Delete", "RemoveAll"}
               /\ SweepOn(p, todo[p], active[p])
      BY <1>0, <1>a, <2>1, <2>2, <2>4, SweepPromised
    <2>5. ASSUME NEW e, e # "ok", Return(p, e) PROVE Promised(p)
      BY <1>c, <2>1, <2>5
    <2>6. ASSUME err = "ok", Return(p, "ok"),
                 \/ r.op \in {"Get", "ReconcileBootstrap"}
                 \/ r.op = "Stop" /\ vms[i].state = "STOPPED"
          PROVE  Promised(p)
      <3>1. Accomplished(p)
        BY <2>1, <2>2, <2>6 DEF Accomplished
      <3> QED
        BY <1>c, <2>1, <2>6, <3>1
    <2>7. CASE vms[i].seed
      BY <1>7, <2>3, <2>4, <2>5, <2>6, <2>7 DEF Find, err, i
    <2>8. CASE ~vms[i].seed
      BY <1>7, <2>3, <2>4, <2>5, <2>6, <2>8 DEF Find, err, i
    <2> QED
      BY <2>7, <2>8
  <1>8. CASE ReconcileVerifies(p) \/ StopVerifies(p)
    <2>1. /\ pc[p] \in {"cleaned", "stopped"} /\ UNCHANGED vms
          /\ r.op \in {"ReconcileBootstrap", "Stop"} /\ k = r.vm
          /\ Exists(k) => vms[k].controller = r.controller
      BY <1>0, <1>8 DEF ReconcileVerifies, StopVerifies, Local, Dispatched,
         Tracked, At
    <2>2. \E e : /\ Return(p, e)
                 /\ e = "ok" => /\ Exists(k)
                                /\ r.op = "Stop" => vms[k].state = "STOPPED"
      <3>1. CASE ReconcileVerifies(p)
        BY <1>0, <3>1 DEF ReconcileVerifies, Local, Dispatched
      <3>2. CASE StopVerifies(p)
        BY <3>2 DEF StopVerifies
      <3> QED
        BY <1>8, <3>1, <3>2
    <2>3. PICK e : /\ Return(p, e)
                   /\ e = "ok" => /\ Exists(k)
                                  /\ r.op = "Stop" => vms[k].state = "STOPPED"
      BY <2>2
    <2>4. e = "ok" => Accomplished(p)
      BY <2>1, <2>3 DEF Accomplished
    <2> QED
      BY <1>c, <2>1, <2>3, <2>4
  <1>9. CASE DeleteVM(p)
    <2>1. CASE Exists(k)
      BY <1>9, <2>1, IsRetire DEF Promised
    <2>2. CASE ~Exists(k)
      <3>1. UNCHANGED vms /\ Effect(p, "absent", k) /\ r.op # "Create"
        BY <1>0, <1>9, <2>2 DEF DeleteVM, Exists, Local, Dispatched
      <3> QED
        BY <1>d, <3>1, SameTable
    <2> QED
      BY <2>1, <2>2
  <1>10. CASE DeleteVerifies(p)
    <2>1. /\ r.op \in {"Delete", "RemoveAll"} /\ UNCHANGED vms
          /\ r.op = "Delete" => k = r.vm
          /\ \/ Return(p, "ErrManagedDrift")
             \/ ~Exists(k) /\ SweepOn(p, todo[p], active[p])
      BY <1>0, <1>10 DEF DeleteVerifies, Local, Dispatched, Tracked
    <2> QED
      BY <1>0, <1>a, <1>c, <2>1, SweepPromised
  <1>11. CASE StopVM(p)
    <2>1. /\ Exists(k) /\ k \in Id /\ r.op = "Stop" /\ Effect(p, "stopped", k)
          /\ vms' = [vms EXCEPT ![k].state = "STOPPED"] \/ UNCHANGED vms
      BY <1>0, <1>11 DEF StopVM, Local, Dispatched
    <2>2. CASE vms' = [vms EXCEPT ![k].state = "STOPPED"] /\ vms[k].state # "STOPPED"
      BY <1>11, <2>1, <2>2, IsHalt DEF Promised
    <2>3. CASE UNCHANGED vms
      BY <1>d, <2>1, <2>3, SameTable
    <2>4. CASE vms' = [vms EXCEPT ![k].state = "STOPPED"] /\ vms[k].state = "STOPPED"
      <3>1. [vms[k] EXCEPT !.state = "STOPPED"] = vms[k]
        BY <1>0, <2>1, <2>4 DEF VM, Exists
      <3>2. UNCHANGED vms
        BY <1>0, <2>1, <2>4, <3>1
      <3> QED
        BY <2>3, <3>2
    <2> QED
      BY <2>1, <2>2, <2>3, <2>4
  <1>12. CASE ListVMs(p)
    <2>1. /\ r.op \in {"List", "RemoveAll"} /\ UNCHANGED vms
          /\ Return(p, "ErrManagedDrift") \/ \E T : SweepOn(p, T, FALSE)
      BY <1>0, <1>12 DEF ListVMs, Tracked
    <2> QED
      BY <1>0, <1>a, <1>c, <2>1, SweepPromised
  <1>13. CASE Sweep(p)
    <2>1. r.op = "RemoveAll" /\ UNCHANGED vms
      BY <1>0, <1>13 DEF Sweep, Tracked
    <2>2. Accomplished(p)
      BY <2>1 DEF Accomplished
    <2>3. PICK i \in todo[p] :
             \/ \E e : Return(p, e)
             \/ SweepOn(p, todo[p] \ {i}, TRUE)
             \/ /\ pc' = [pc EXCEPT ![p] = "find"]
                /\ cur' = [cur EXCEPT ![p] = i]
                /\ UNCHANGED <<req, reply>>
      BY <1>13 DEF Sweep
    <2>4. CASE /\ pc' = [pc EXCEPT ![p] = "find"]
               /\ cur' = [cur EXCEPT ![p] = i]
               /\ UNCHANGED <<req, reply>>
      <3>1. /\ pc'[p] = "find"
            /\ \A q \in Proc \ {p} : pc'[q] = pc[q] /\ cur'[q] = cur[q]
        BY <1>0, <2>4 DEF IInv, Types
      <3>2. JobId(p)' = JobId(p)
        BY <2>1, <2>4 DEF JobId
      <3> QED
        BY <1>0, <1>a, <2>1, <2>4, <3>1, <3>2, GoesOn, SameTable DEF Promised
    <2> QED
      BY <1>0, <1>a, <1>c, <2>1, <2>2, <2>3, <2>4, SweepPromised
  <1>14. CASE FailCall(p)
    BY <1>14, <1>c DEF FailCall
  <1> QED
    BY <1>1, <1>2, <1>3, <1>4, <1>5, <1>6, <1>7, <1>8, <1>9, <1>10, <1>11,
       <1>12, <1>13, <1>14 DEF Provider
-----------------------------------------------------------------------------
LEMMA PromiseInit == Init => Promise!Init
  <1> SUFFICES ASSUME Init PROVE Promise!Init
    OBVIOUS
  <1>1. IInv
    BY InitInv
  <1>2. \A i \in Id : WorkloadOf(vms[i]) \in Promise!Workload \cup {None}
    BY <1>1, WorkloadType DEF IInv, Types, WorkloadOf
  <1>3. \A p \in Proc : JobOf(p) = None
    BY DEF Init, JobOf
  <1>4. workload \in [Id -> Promise!Workload \cup {None}]
    BY <1>2 DEF workload
  <1>5. job = [p \in Proc |-> None]
    BY <1>3 DEF job
  <1>6. answer \in [Proc -> BOOLEAN]
    BY DEF answer
  <1> QED
    BY <1>4, <1>5, <1>6 DEF Promise!Init, workload, job, answer

LEMMA PromiseStep ==
  Traced /\ [Next]_vars => [Promise!Next]_(Promise!vars)
  <1> SUFFICES ASSUME Traced, [Next]_vars PROVE [Promise!Next]_(Promise!vars)
    OBVIOUS
  <1>0. IInv
    BY DEF Traced
  <1>a. ASSUME workload' = workload, job' = job, answer' = answer
        PROVE  UNCHANGED Promise!vars
    BY <1>a DEF Promise!vars, workload, job, answer
  <1>1. CASE UNCHANGED vars
    BY <1>1, <1>a DEF vars, workload, job, JobOf, answer
  <1>2. ASSUME NEW p \in Proc, Invoke(p) PROVE Promise!Next
    BY <1>0, <1>2, InvokeKeeps, IsBegin DEF Promise!Next
  <1>3. ASSUME NEW p \in Proc, InvokeRefused(p) PROVE Promise!Next
    BY <1>0, <1>3, IsRefuse DEF Promise!Next
  <1>4. ASSUME NEW p \in Proc, Provider(p)
        PROVE  Promise!Next \/ UNCHANGED Promise!vars
    BY <1>0, <1>4, <1>a, ProviderKeeps, ProviderPromised DEF Promised, Promise!Next
  <1>5. ASSUME NEW i \in Id, GuestRuns(i) \/ OperatorActs(i)
        PROVE  Promise!Next \/ UNCHANGED Promise!vars
    BY <1>5, <1>a, IsHost DEF Promise!Next
  <1> QED
    BY <1>1, <1>2, <1>3, <1>4, <1>5 DEF Next

\* However many processes, controllers and VMs there are, and whichever call is
\* lost, killed or overtaken: GARM and the host see the single steps of
\* GuestPromise.  A VM is made, started once, stopped and taken away as if at
\* once, only for its own controller, and "ok" is never said in vain.
THEOREM Implements == Spec => KeepsPromise
  BY PromiseInit, PromiseStep, TracedHolds, PTL
     DEF Spec, KeepsPromise, Promise!Spec
=============================================================================
