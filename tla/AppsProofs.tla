----------------------------- MODULE AppsProofs -----------------------------
(* What holds of Apps for every number of processes, controllers, runners  *)
(* and names, proved with TLAPS.                                           *)
EXTENDS Apps, WellFoundedInduction, TLAPS

\* The first name of a sorted listing is one of its names.
LEMMA MinIn == ASSUME NEW S \in SUBSET Nat, S # {} PROVE Min(S) \in S
  <1> DEFINE Less == {ss \in Nat \X Nat : ss[1] < ss[2]}
  <1>1. IsWellFoundedOn(Less, Nat)
    BY NatLessThanWellFounded DEF OpToRel
  <1>2. PICK x \in S : \A y \in S : ~(<<y, x>> \in Less)
    <2> HIDE DEF Less
    <2> QED
      BY <1>1, WFMin
  <1>3. ASSUME NEW y \in S PROVE x <= y
    <2>1. <<y, x>> \notin Less
      BY <1>2
    <2>2. ~(y < x)
      BY <2>1, x \in Nat, y \in Nat
    <2> QED
      BY <2>2, x \in Nat, y \in Nat
  <1> QED
    BY <1>3 DEF Min

\* mapState answers one of the provider's five states, and an active one
\* unless the app is known to have finished.
LEMMA MapStateType ==
  ASSUME NEW raw \in RawState
  PROVE  /\ mapState(raw) \in State
         /\ raw \notin Inactive => isActive(mapState(raw))
  BY ConfigAssumption DEF mapState, State, isActive, Inactive

\* The labels name who made the app or nobody, and a pool or none of GARM's.
LEMMA OwnerMade ==
  ASSUME NEW app, NEW c \in Controller, Owner(app) = c
  PROVE  app.controller = c
  BY ConfigAssumption DEF Owner

LEMMA DecodedType ==
  ASSUME NEW n \in Name, apps[n] \in App
  PROVE  decoded(n) \in Listing
  <1>1. Owner(apps[n]) \in Controller \cup {NoController}
    BY DEF Owner, App
  <1>2. PoolOf(apps[n]) \in Pool \cup {AnyPool}
    BY DEF PoolOf, App
  <1>3. mapState(apps[n].state) \in State
    BY MapStateType DEF App
  <1> QED
    BY <1>1, <1>2, <1>3 DEF decoded, Listing

\* GetOwned answers an error class, and "ok" only for an app of c.
LEMMA GetOwnedOk ==
  ASSUME NEW n \in Name, NEW c \in Controller, NEW pool \in Pool \cup {AnyPool}
  PROVE  /\ GetOwned(n, c, pool) \in ErrClass
         /\ GetOwned(n, c, pool) = "ok" =>
               apps[n] # None /\ apps[n].controller = c
  BY OwnerMade DEF GetOwned, GetApp, decodeApp, verifyOwnership, ErrClass

LEMMA GetAppClass ==
  ASSUME NEW n \in Name, NEW c \in Controller
  PROVE  /\ GetApp(n, c) \in ErrClass
         /\ GetApp(n, c) = "ok" => apps[n] # None
  BY DEF GetApp, decodeApp, ErrClass

\* normalizeProviderError is total on the provider's errors.
LEMMA NormalizeType ==
  ASSUME NEW err \in ErrClass PROVE normalizeProviderError(err) \in Code
  BY DEF normalizeProviderError, ErrClass, Code

-----------------------------------------------------------------------------
\* A process that answers leaves well-typed variables behind.
LEMMA ReturnType ==
  ASSUME TypeOK, NEW p \in Proc, NEW err \in ErrClass,
         NEW names \in SUBSET Name, Return(p, err, names)
  PROVE  /\ pc' \in [Proc -> PC]
         /\ req' \in [Proc -> Request \cup {NoRequest}]
         /\ todo' \in [Proc -> SUBSET Name]
         /\ out' \in [Proc -> SUBSET Listing]
         /\ reply' \in [Proc -> [code : Code, names : SUBSET Name]]
         /\ \A q \in Proc : Dispatched(q)'
  <1> USE DEF TypeOK, Types, Return
  <1>1. normalizeProviderError(err) \in Code
    BY NormalizeType
  <1>2. /\ pc' \in [Proc -> PC]
        /\ req' \in [Proc -> Request \cup {NoRequest}]
        /\ todo' \in [Proc -> SUBSET Name]
        /\ out' \in [Proc -> SUBSET Listing]
    BY DEF PC
  <1>3. reply' \in [Proc -> [code : Code, names : SUBSET Name]]
    BY <1>1
  <1>4. ASSUME NEW q \in Proc PROVE Dispatched(q)'
    BY DEF Dispatched
  <1> QED
    BY <1>2, <1>3, <1>4

LEMMA GotoType ==
  ASSUME TypeOK, NEW p \in Proc, NEW next \in {"create", "confirm", "delete"},
         Goto(p, next), req[p] \in Request, req[p].name \in Name,
         next = "delete" => req[p].op = "Delete",
         next \in {"create", "confirm"} =>
            /\ req[p].op = "Create"
            /\ req[p].name \in NameOwner(req[p].controller)
  PROVE  /\ pc' \in [Proc -> PC]
         /\ req' \in [Proc -> Request \cup {NoRequest}]
         /\ todo' \in [Proc -> SUBSET Name]
         /\ out' \in [Proc -> SUBSET Listing]
         /\ reply' \in [Proc -> [code : Code, names : SUBSET Name]]
         /\ \A q \in Proc : Dispatched(q)'
  <1> USE DEF TypeOK, Types, Goto
  <1>1. pc' \in [Proc -> PC]
    BY DEF PC
  <1>2. ASSUME NEW q \in Proc PROVE Dispatched(q)'
    BY DEF Dispatched, NameOwner
  <1> QED
    BY <1>1, <1>2

LEMMA TouchType ==
  ASSUME TypeOK, NEW N, Touch(N)
  PROVE  stable' \in [Proc -> SUBSET Name]
  BY DEF TypeOK, Types, Touch

LEMMA ListedType ==
  ASSUME TypeOK, NEW p \in Proc, NEW L \in SUBSET Listing,
         pc[p] \in {"list", "fetch"}, Listed(p, req[p], L)
  PROVE  /\ pc' \in [Proc -> PC]
         /\ req' \in [Proc -> Request \cup {NoRequest}]
         /\ todo' \in [Proc -> SUBSET Name]
         /\ out' \in [Proc -> SUBSET Listing]
         /\ reply' \in [Proc -> [code : Code, names : SUBSET Name]]
         /\ \A q \in Proc : Dispatched(q)'
  <1>1. req[p] \in Request /\ req[p].op \in {"List", "RemoveAll"}
    BY DEF TypeOK, Types, Dispatched
  <1>2. CASE req[p].op = "List"
    <2>1. Return(p, "ok", Selected(req[p], L))
      BY <1>2 DEF Listed
    <2>2. Selected(req[p], L) \in SUBSET Name
      BY DEF Selected, Listing
    <2> QED
      BY <2>1, <2>2, ReturnType DEF ErrClass
  <1>3. CASE req[p].op = "RemoveAll" /\ Victims(req[p], L) = {}
    <2>1. Return(p, ActiveErr(req[p], L), {})
      BY <1>3 DEF Listed
    <2>2. ActiveErr(req[p], L) \in ErrClass
      BY DEF ActiveErr, ErrClass
    <2> QED
      BY <2>1, <2>2, ReturnType
  <1>4. CASE req[p].op = "RemoveAll" /\ Victims(req[p], L) # {}
    <2>1. /\ pc' = [pc EXCEPT ![p] = "remove"]
          /\ todo' = [todo EXCEPT ![p] = Victims(req[p], L)]
          /\ out' = [out EXCEPT ![p] = L]
          /\ UNCHANGED <<req, reply>>
      BY <1>4 DEF Listed
    <2>2. Victims(req[p], L) \in SUBSET Name
      BY DEF Victims, Listing
    <2>3. ASSUME NEW q \in Proc PROVE Dispatched(q)'
      BY <1>1, <1>4, <2>1 DEF TypeOK, Types, Dispatched, NameOwner
    <2>4. pc' \in [Proc -> PC]
      BY <2>1 DEF TypeOK, Types, PC
    <2> QED
      BY <2>1, <2>2, <2>3, <2>4 DEF TypeOK, Types
  <1> QED
    BY <1>1, <1>2, <1>3, <1>4

LEMMA NewAppType ==
  ASSUME TypeOK, NEW r \in Request
  PROVE  NewApp(r) \in App
  BY ConfigAssumption DEF NewApp, App, Request, Profile

LEMMA InvokeType ==
  ASSUME TypeOK, NEW p \in Proc, NEW r \in Request, Invoke(p, r),
         r.op \in {"Create", "Get", "Delete", "Stop", "Start"} => r.name \in Name,
         r.op = "Create" => r.name \in NameOwner(r.controller)
  PROVE  TypeOK'
  <1> USE DEF TypeOK, Types, Invoke
  <1>1. FirstCall(r.op) \in {"get", "list", "start"}
    BY DEF FirstCall
  <1>2. pc' \in [Proc -> PC]
    BY <1>1 DEF PC
  <1>3. ASSUME NEW q \in Proc PROVE Dispatched(q)'
    <2>1. CASE q # p
      BY <2>1 DEF Dispatched, NameOwner
    <2>2. CASE q = p
      BY <2>2 DEF Dispatched, NameOwner, FirstCall, Request, Op
    <2> QED
      BY <2>1, <2>2
  <1>4. stable' \in [Proc -> SUBSET Name]
    BY DEF Present
  <1> QED
    BY <1>2, <1>3, <1>4

LEMMA OwnedNameType ==
  ASSUME NEW c \in Controller, NEW r \in Runner
  PROVE  OwnedName[<<c, r>>] \in Name /\ OwnedName[<<c, r>>] \in NameOwner(c)
  BY NamesAssumption DEF NameOwner

LEMMA GarmType == ASSUME TypeOK, NEW p \in Proc, Garm(p) PROVE TypeOK'
  <1>0. calls + 1 \in Nat
    BY DEF TypeOK, Types
  <1>1. ASSUME NEW c \in Controller, NEW r \in Runner, NEW pool \in Pool,
               NEW dns \in BOOLEAN,
               Invoke(p, [op |-> "Create", controller |-> c, pool |-> pool,
                          name |-> OwnedName[<<c, r>>], dns |-> dns,
                          id |-> calls + 1])
        PROVE  TypeOK'
    <2> DEFINE cmd == [op |-> "Create", controller |-> c, pool |-> pool,
                       name |-> OwnedName[<<c, r>>], dns |-> dns,
                       id |-> calls + 1]
    <2>1. cmd \in Request /\ cmd.name \in Name /\ cmd.name \in NameOwner(cmd.controller)
      BY <1>0, OwnedNameType DEF Request, Op
    <2>2. Invoke(p, cmd)
      BY <1>1
    <2> HIDE DEF cmd
    <2> QED
      BY <2>1, <2>2, InvokeType
  <1>2. ASSUME NEW c \in Controller, NEW n \in Name,
               NEW op \in {"Get", "Delete", "Start", "Stop"},
               Invoke(p, [op |-> op, controller |-> c, pool |-> AnyPool,
                          name |-> n, dns |-> TRUE, id |-> calls + 1])
        PROVE  TypeOK'
    <2> DEFINE cmd == [op |-> op, controller |-> c, pool |-> AnyPool,
                       name |-> n, dns |-> TRUE, id |-> calls + 1]
    <2>1. cmd \in Request /\ cmd.name \in Name /\ cmd.op # "Create"
      BY <1>0 DEF Request, Op
    <2>2. Invoke(p, cmd)
      BY <1>2
    <2> HIDE DEF cmd
    <2> QED
      BY <2>1, <2>2, InvokeType
  <1>3. ASSUME NEW c \in Controller, NEW pool \in Pool \cup {AnyPool},
               NEW op \in {"List", "RemoveAll"},
               Invoke(p, [op |-> op, controller |-> c, pool |-> pool,
                          name |-> None, dns |-> TRUE, id |-> calls + 1])
        PROVE  TypeOK'
    <2> DEFINE cmd == [op |-> op, controller |-> c, pool |-> pool,
                       name |-> None, dns |-> TRUE, id |-> calls + 1]
    <2>1. cmd \in Request /\ cmd.op \in {"List", "RemoveAll"}
      BY <1>0 DEF Request, Op
    <2>2. Invoke(p, cmd)
      BY <1>3
    <2> HIDE DEF cmd
    <2> QED
      BY <2>1, <2>2, InvokeType
  <1>4. ASSUME InvokeInvalidCreate(p) PROVE TypeOK'
    <2>1. Return(p, "ErrUnsupported", {}) /\ Touch({}) /\ UNCHANGED apps
          /\ calls' = calls + 1
      BY <1>4 DEF InvokeInvalidCreate
    <2>2. "ErrUnsupported" \in ErrClass /\ {} \in SUBSET Name
      BY DEF ErrClass
    <2> QED
      BY <1>0, <2>1, <2>2, ReturnType, TouchType DEF TypeOK, Types
  <1> QED
    <2>1. \A c \in Controller : {TRUE, ~CallbackHostGateway[c]} \subseteq BOOLEAN
      BY ConfigAssumption
    <2> QED
      BY <1>1, <1>2, <1>3, <1>4, <2>1 DEF Garm

\* The invariant under the steps of a process.
LEMMA ProviderType ==
  ASSUME TypeOK, NEW p \in Proc, Provider(p) \/ FailCall(p)
  PROVE  TypeOK'
  <1> DEFINE LocalOK == /\ pc' \in [Proc -> PC]
                        /\ req' \in [Proc -> Request \cup {NoRequest}]
                        /\ todo' \in [Proc -> SUBSET Name]
                        /\ out' \in [Proc -> SUBSET Listing]
                        /\ reply' \in [Proc -> [code : Code, names : SUBSET Name]]
                        /\ \A q \in Proc : Dispatched(q)'
             r == req[p]
             AppsOK == apps' \in [Name -> App \cup {None}]
  <1>a. "error" \in ErrClass /\ "ok" \in ErrClass /\ "ErrActive" \in ErrClass
        /\ "ErrUnsupported" \in ErrClass /\ "ErrUnsafeOperation" \in ErrClass
    BY DEF ErrClass
  <1>b. pc[p] = "get" => r \in Request /\ r.name \in Name /\ r.controller \in Controller
    BY DEF TypeOK, Types, Dispatched, Request
  <1>c. ASSUME LocalOK, AppsOK, UNCHANGED calls, NEW N, Touch(N) PROVE TypeOK'
    BY <1>c, TouchType DEF TypeOK, Types
  <1>d. apps \in [Name -> App \cup {None}]
    BY DEF TypeOK, Types
  <1>1. CASE CreateLooksUp(p)
    <2>1. LocalOK
      <3> DEFINE err == GetOwned(r.name, r.controller, r.pool)
      <3>1. err \in ErrClass /\ pc[p] = "get" /\ r.op = "Create"
        BY <1>1, <1>b, GetOwnedOk DEF CreateLooksUp, Request
      <3>2. CASE err = "ErrNotFound"
        <4>1. Goto(p, "create")
          BY <1>1, <3>2 DEF CreateLooksUp
        <4>2. r.name \in NameOwner(r.controller)
          BY <3>1 DEF TypeOK, Dispatched
        <4> QED
          BY <1>b, <3>1, <4>1, <4>2, GotoType
      <3>3. CASE err # "ErrNotFound"
        <4>1. Return(p, err, IF err = "ok" THEN {r.name} ELSE {})
          BY <1>1, <3>3 DEF CreateLooksUp
        <4>2. (IF err = "ok" THEN {r.name} ELSE {}) \in SUBSET Name
          BY <1>b, <3>1
        <4> HIDE DEF err
        <4> QED
          BY <3>1, <4>1, <4>2, ReturnType
      <3> QED
        BY <3>2, <3>3
    <2> QED
      BY <1>1, <1>c, <1>d, <2>1 DEF CreateLooksUp
  <1>2. CASE CreateApp(p)
    <2>1. /\ r \in Request /\ r.op = "Create" /\ r.name \in Name
          /\ r.name \in NameOwner(r.controller)
      BY <1>2 DEF CreateApp, TypeOK, Types, Dispatched
    <2>2. NewApp(r) \in App
      BY <2>1, NewAppType
    <2>3. AppsOK
      BY <1>2, <1>d, <2>2 DEF CreateApp
    <2>4. LocalOK
      BY <1>2, <1>a, <2>1, GotoType, ReturnType DEF CreateApp
    <2> QED
      BY <1>2, <1>c, <2>3, <2>4 DEF CreateApp
  <1>3. CASE CreateConfirms(p)
    <2> DEFINE err == GetOwned(r.name, r.controller, r.pool)
    <2>1. r \in Request /\ r.name \in Name
      BY <1>3 DEF CreateConfirms, TypeOK, Types, Dispatched
    <2>2. err \in ErrClass
      BY <2>1, GetOwnedOk DEF Request
    <2>3. Return(p, err, IF err = "ok" THEN {r.name} ELSE {})
      BY <1>3 DEF CreateConfirms
    <2>4. (IF err = "ok" THEN {r.name} ELSE {}) \in SUBSET Name
      BY <2>1
    <2>5. LocalOK
      <3> HIDE DEF err
      <3> QED
        BY <2>2, <2>3, <2>4, ReturnType
    <2> QED
      BY <1>3, <1>c, <1>d, <2>5 DEF CreateConfirms
  <1>4. CASE Get(p)
    <2> DEFINE err == GetOwned(r.name, r.controller, AnyPool)
    <2>1. err \in ErrClass /\ r.name \in Name
      BY <1>4, <1>b, GetOwnedOk DEF Get
    <2>3. Return(p, err, IF err = "ok" THEN {r.name} ELSE {})
      BY <1>4 DEF Get
    <2>4. (IF err = "ok" THEN {r.name} ELSE {}) \in SUBSET Name
      BY <2>1
    <2>5. LocalOK
      <3> HIDE DEF err
      <3> QED
        BY <2>1, <2>3, <2>4, ReturnType
    <2> QED
      BY <1>4, <1>c, <1>d, <2>5 DEF Get
  <1>5. CASE Stop(p)
    <2> DEFINE err == GetOwned(r.name, r.controller, AnyPool)
               ans == CASE err # "ok" -> err
                        [] err = "ok" /\ mapState(apps[r.name].state) = "STOPPED"
                              -> "ok"
                        [] OTHER -> "ErrUnsafeOperation"
    <2>1. err \in ErrClass
      BY <1>5, <1>b, GetOwnedOk DEF Stop
    <2>2. ans \in ErrClass
      <3> HIDE DEF err
      <3> QED
        BY <1>a, <2>1
    <2>3. Return(p, ans, {})
      BY <1>5 DEF Stop
    <2>4. LocalOK
      <3> HIDE DEF ans
      <3> QED
        BY <2>2, <2>3, ReturnType
    <2> QED
      BY <1>5, <1>c, <1>d, <2>4 DEF Stop
  <1>6. CASE Start(p)
    <2>1. LocalOK
      BY <1>6, <1>a, ReturnType DEF Start
    <2> QED
      BY <1>6, <1>c, <1>d, <2>1 DEF Start
  <1>7. CASE DeleteChecks(p)
    <2> DEFINE err == GetOwned(r.name, r.controller, AnyPool)
    <2>1. err \in ErrClass
      BY <1>7, <1>b, GetOwnedOk DEF DeleteChecks
    <2>2. \/ \E e \in ErrClass : Return(p, e, {})
          \/ Goto(p, "delete")
      <3> HIDE DEF err
      <3>1. CASE err = "ErrNotFound" /\ Return(p, "ok", {})
        BY <1>a, <3>1
      <3>2. CASE err \notin {"ok", "ErrNotFound"} /\ Return(p, err, {})
        BY <2>1, <3>2
      <3>3. CASE err = "ok" /\ (Return(p, "ErrActive", {}) \/ Goto(p, "delete"))
        BY <1>a, <3>3
      <3>4. \/ err = "ErrNotFound" /\ Return(p, "ok", {})
            \/ err \notin {"ok", "ErrNotFound"} /\ Return(p, err, {})
            \/ err = "ok" /\ (Return(p, "ErrActive", {}) \/ Goto(p, "delete"))
        BY <1>7 DEF DeleteChecks, err
      <3> QED
        BY <3>1, <3>2, <3>3, <3>4
    <2>3. LocalOK
      <3>1. r \in Request /\ r.name \in Name /\ r.op = "Delete"
        BY <1>7, <1>b DEF DeleteChecks
      <3> QED
        BY <2>2, <3>1, ReturnType, GotoType
    <2> QED
      BY <1>7, <1>c, <1>d, <2>3 DEF DeleteChecks
  <1>8. CASE DeleteApp(p)
    <2>1. LocalOK
      BY <1>8, <1>a, ReturnType DEF DeleteApp
    <2>2. AppsOK /\ Touch({r.name}) /\ UNCHANGED calls
      BY <1>8, <1>d DEF DeleteApp, Destroy
    <2> QED
      BY <1>c, <2>1, <2>2
  <1>9. CASE ListApps(p)
    <2>1. LocalOK
      <3>1. CASE Present \cap Plausible = {}
        <4> DEFINE L == {}
        <4>1. Listed(p, req[p], L) /\ pc[p] \in {"list", "fetch"}
          BY <1>9, <3>1 DEF ListApps
        <4>2. L \in SUBSET Listing
          OBVIOUS
        <4> HIDE DEF L
        <4> QED
          BY <4>1, <4>2, ListedType
      <3>2. CASE Present \cap Plausible # {}
        <4>1. /\ pc' = [pc EXCEPT ![p] = "fetch"] /\ pc[p] = "list"
              /\ todo' = [todo EXCEPT ![p] = Present \cap Plausible]
              /\ UNCHANGED <<req, out, reply>>
          BY <1>9, <3>2 DEF ListApps
        <4>2. Present \cap Plausible \in SUBSET Name
          BY DEF Present
        <4>3. ASSUME NEW q \in Proc PROVE Dispatched(q)'
          BY <3>2, <4>1 DEF TypeOK, Types, Dispatched, NameOwner
        <4>4. pc' \in [Proc -> PC]
          BY <4>1 DEF TypeOK, Types, PC
        <4> QED
          BY <4>1, <4>2, <4>3, <4>4 DEF TypeOK, Types
      <3> QED
        BY <3>1, <3>2
    <2> QED
      BY <1>9, <1>c, <1>d, <2>1 DEF ListApps
  <1>10. CASE FetchApp(p)
    <2> DEFINE n == Min(todo[p])
               err == GetApp(n, req[p].controller)
               L == out[p] \cup (IF err = "ok" THEN {decoded(n)} ELSE {})
               T == Remaining(todo[p])
    <2>1. /\ pc[p] = "fetch" /\ todo[p] # {} /\ todo[p] \in SUBSET Name
          /\ req[p] \in Request
      BY <1>10 DEF FetchApp, TypeOK, Types, Dispatched
    <2>2. n \in Name
      BY <2>1, MinIn, NamesAssumption
    <2>3. err \in ErrClass /\ (err = "ok" => apps[n] # None)
      BY <2>1, <2>2, GetAppClass DEF Request
    <2>4. L \in SUBSET Listing
      <3>1. err = "ok" => apps[n] \in App
        BY <1>d, <2>2, <2>3
      <3>2. err = "ok" => decoded(n) \in Listing
        BY <2>2, <3>1, DecodedType
      <3> QED
        BY <3>2 DEF TypeOK, Types
    <2>5. T \in SUBSET Name
      BY <2>1 DEF Remaining
    <2>6. \/ Return(p, err, {})
          \/ Listed(p, req[p], L)
          \/ /\ T # {}
             /\ out' = [out EXCEPT ![p] = L]
             /\ todo' = [todo EXCEPT ![p] = T]
             /\ UNCHANGED <<pc, req, reply>>
      BY <1>10 DEF FetchApp
    <2>7. LocalOK
      <3> HIDE DEF n, err, L, T
      <3>1. CASE Return(p, err, {})
        BY <2>3, <3>1, ReturnType
      <3>2. CASE Listed(p, req[p], L)
        BY <2>1, <2>4, <3>2, ListedType
      <3>3. CASE /\ T # {}
                 /\ out' = [out EXCEPT ![p] = L]
                 /\ todo' = [todo EXCEPT ![p] = T]
                 /\ UNCHANGED <<pc, req, reply>>
        <4>1. ASSUME NEW q \in Proc PROVE Dispatched(q)'
          BY <3>3 DEF TypeOK, Types, Dispatched, NameOwner
        <4> QED
          BY <2>4, <2>5, <3>3, <4>1 DEF TypeOK, Types
      <3> QED
        BY <2>6, <3>1, <3>2, <3>3
    <2> QED
      BY <1>10, <1>c, <1>d, <2>7 DEF FetchApp
  <1>11. CASE RemoveApp(p)
    <2> DEFINE T == Remaining(todo[p])
               err == ActiveErr(req[p], out[p])
    <2>1. T \in SUBSET Name /\ err \in ErrClass
      BY <1>a DEF Remaining, TypeOK, Types, ActiveErr
    <2>2. \/ Return(p, err, {})
          \/ Return(p, "error", {})
          \/ /\ T # {}
             /\ todo' = [todo EXCEPT ![p] = T]
             /\ UNCHANGED <<pc, req, out, reply>>
      BY <1>11 DEF RemoveApp
    <2>3. LocalOK
      <3> HIDE DEF T, err
      <3>1. CASE /\ T # {}
                 /\ todo' = [todo EXCEPT ![p] = T]
                 /\ UNCHANGED <<pc, req, out, reply>>
        <4>1. ASSUME NEW q \in Proc PROVE Dispatched(q)'
          BY <3>1 DEF TypeOK, Types, Dispatched, NameOwner
        <4> QED
          BY <2>1, <3>1, <4>1 DEF TypeOK, Types
      <3> QED
        BY <1>a, <2>1, <2>2, <3>1, ReturnType
    <2>4. AppsOK /\ UNCHANGED calls /\ Touch({Min(todo[p])})
      BY <1>11, <1>d DEF RemoveApp, Destroy
    <2> QED
      BY <1>c, <2>3, <2>4
  <1>12. CASE FailCall(p)
    <2>1. LocalOK
      BY <1>12, <1>a, ReturnType DEF FailCall
    <2> QED
      BY <1>12, <1>c, <1>d, <2>1 DEF FailCall
  <1> QED
    BY <1>1, <1>2, <1>3, <1>4, <1>5, <1>6, <1>7, <1>8, <1>9, <1>10, <1>11,
       <1>12 DEF Provider

\* The invariant under the steps of the host.
LEMMA HostType ==
  ASSUME TypeOK, NEW n \in Name,
         \/ StateChanges(n) \/ OperatorEdits(n)
         \/ OperatorDeletes(n) \/ TenantCreates(n)
  PROVE  TypeOK'
  <1>1. UNCHANGED <<calls, pc, req, todo, out, reply>>
    BY DEF StateChanges, OperatorEdits, OperatorDeletes, TenantCreates
  <1>2. apps \in [Name -> App \cup {None}]
    BY DEF TypeOK, Types
  <1>3. apps' \in [Name -> App \cup {None}]
    <2>1. ASSUME StateChanges(n) PROVE apps' \in [Name -> App \cup {None}]
      <3>1. PICK s \in RawState : apps' = [apps EXCEPT ![n].state = s]
        BY <2>1 DEF StateChanges
      <3>2. [apps[n] EXCEPT !.state = s] \in App
        BY <1>2, <2>1 DEF StateChanges, App
      <3> QED
        BY <1>2, <3>1, <3>2
    <2>2. ASSUME OperatorEdits(n) PROVE apps' \in [Name -> App \cup {None}]
      <3>1. PICK f \in Profile, pool \in Pool \cup {AnyPool} :
               \/ apps' = [apps EXCEPT ![n].profile = f]
               \/ apps' = [apps EXCEPT ![n].pool = pool]
        BY <2>2 DEF OperatorEdits, Profile
      <3>2. /\ [apps[n] EXCEPT !.profile = f] \in App
            /\ [apps[n] EXCEPT !.pool = pool] \in App
        BY <1>2, <2>2 DEF OperatorEdits, App
      <3> QED
        BY <1>2, <3>1, <3>2
    <2>3. ASSUME OperatorDeletes(n) PROVE apps' \in [Name -> App \cup {None}]
      BY <1>2, <2>3 DEF OperatorDeletes
    <2>4. ASSUME TenantCreates(n) PROVE apps' \in [Name -> App \cup {None}]
      <3>1. TenantApp \in App
        BY ConfigAssumption DEF TenantApp, App, Profile
      <3> QED
        BY <1>2, <2>4, <3>1 DEF TenantCreates
    <2> QED
      BY <2>1, <2>2, <2>3, <2>4
  <1>4. stable' \in [Proc -> SUBSET Name]
    <2>1. stable' = stable \/ Touch({n})
      BY DEF StateChanges, OperatorEdits, OperatorDeletes, TenantCreates
    <2> QED
      BY <2>1, TouchType DEF TypeOK, Types
  <1> QED
    BY <1>1, <1>3, <1>4 DEF TypeOK, Types, Dispatched, NameOwner

LEMMA InitType == Init => TypeOK
  <1> SUFFICES ASSUME Init PROVE TypeOK
    OBVIOUS
  <1>1. ASSUME NEW n \in Name, NEW a \in EarlierApps(n) PROVE a \in App
    <2>1. TenantApp \in App /\ [TenantApp EXCEPT !.state = "STOPPED"] \in App
      BY ConfigAssumption DEF TenantApp, App, Profile
    <2>2. [made : {0}, controller : Controller, pool : Pool,
           profile : {"fixed"}, gateway : BOOLEAN,
           state : {"DEPLOYING", "STOPPED"}] \subseteq App
      BY ConfigAssumption DEF App, Profile
    <2> QED
      BY <1>1, <2>1, <2>2 DEF EarlierApps
  <1>2. apps \in [Name -> App \cup {None}]
    BY <1>1 DEF Init
  <1>3. Types
    BY <1>2 DEF Init, Types, PC, Code
  <1>4. ASSUME NEW p \in Proc PROVE Dispatched(p)
    BY DEF Init, Dispatched
  <1> QED
    BY <1>3, <1>4 DEF TypeOK

LEMMA TypeStep == TypeOK /\ [Next]_vars => TypeOK'
  <1> SUFFICES ASSUME TypeOK, [Next]_vars PROVE TypeOK'
    OBVIOUS
  <1>1. CASE UNCHANGED vars
    BY <1>1 DEF vars, TypeOK, Types, Dispatched, NameOwner
  <1>2. ASSUME NEW p \in Proc, Garm(p) PROVE TypeOK'
    BY <1>2, GarmType
  <1>3. ASSUME NEW p \in Proc, Provider(p) \/ FailCall(p) PROVE TypeOK'
    BY <1>3, ProviderType
  <1>4. CASE Host
    BY <1>4, HostType DEF Host
  <1> QED
    BY <1>1, <1>2, <1>3, <1>4 DEF Next

\* For any number of processes, controllers, runners and names, the variables
\* keep their types and a process only makes calls its command prescribes.
THEOREM TypeCorrect == Spec => []TypeOK
  BY InitType, TypeStep, PTL DEF Spec
-----------------------------------------------------------------------------
(* Ownership.  A name that Delete or RemoveAll is about to pass to         *)
(* app.delete is derived by the process's own controller, so whatever app  *)
(* takes that name between the check and the deletion is this              *)
(* controller's too.                                                       *)

OwnedTarget(p, n) ==
    /\ n \in NameOwner(req[p].controller)
    /\ apps[n] # None => apps[n].controller = req[p].controller

Placed == \A n \in Name : apps[n] # None =>
             \/ apps[n].controller = NoController
             \/ n \in NameOwner(apps[n].controller)

OwnTargets(p) ==
    /\ pc[p] \notin {"fetch", "remove"} => out[p] = {}
    /\ pc[p] = "delete" => OwnedTarget(p, req[p].name)
    /\ pc[p] = "remove" => \A n \in todo[p] : OwnedTarget(p, n)
    /\ pc[p] = "fetch" => \A a \in out[p] :
          a.controller = req[p].controller => OwnedTarget(p, a.name)

Ownership == Placed /\ \A p \in Proc : OwnTargets(p)

\* What a step may do to an app: change it in place, create it for the
\* process that is at its app.create, or install a tenant's.
AppChange(n) ==
    apps'[n] # None =>
      \/ /\ apps[n] # None
         /\ apps'[n].controller = apps[n].controller
         /\ "start" \notin HostEvents /\ apps[n].state \in Inactive
               => apps'[n].state \in Inactive
      \/ \E q \in Proc : /\ pc[q] = "create"
                         /\ n = req[q].name
                         /\ apps'[n] = NewApp(req[q])
      \/ n \in TenantName /\ apps'[n] = TenantApp

LEMMA GarmInvokes ==
  ASSUME NEW p \in Proc, Garm(p)
  PROVE  InvokeInvalidCreate(p) \/ \E r : Invoke(p, r)
  BY DEF Garm

LEMMA InvalidIsGarm ==
  ASSUME NEW p \in Proc, InvokeInvalidCreate(p) PROVE Garm(p)
  BY DEF Garm

LEMMA AppChanges ==
  ASSUME TypeOK, [Next]_vars, NEW n \in Name
  PROVE  AppChange(n)
  <1>0. apps \in [Name -> App \cup {None}]
    BY DEF TypeOK, Types
  <1>1. CASE UNCHANGED apps
    BY <1>1 DEF AppChange
  <1>2. ASSUME NEW p \in Proc, CreateApp(p) PROVE AppChange(n)
    BY <1>0, <1>1, <1>2 DEF CreateApp, AppChange
  <1>3. ASSUME NEW p \in Proc, DeleteApp(p) \/ RemoveApp(p) PROVE AppChange(n)
    BY <1>0, <1>3 DEF DeleteApp, RemoveApp, Destroy, AppChange
  <1>4. ASSUME NEW m \in Name, StateChanges(m) PROVE AppChange(n)
    <2>1. PICK s \in RawState : apps' = [apps EXCEPT ![m].state = s]
      BY <1>4 DEF StateChanges
    <2>2. CASE n # m
      BY <1>0, <2>1, <2>2 DEF AppChange
    <2>3. CASE n = m
      <3>1. apps[n] # None /\ apps[n] \in App
            /\ apps'[n] = [apps[n] EXCEPT !.state = s]
        BY <1>0, <1>4, <2>1, <2>3 DEF StateChanges
      <3>2. apps'[n].controller = apps[n].controller
        BY <3>1 DEF App
      <3>3. "start" \notin HostEvents => apps[n].state \notin Inactive
        BY <1>4, <2>3 DEF StateChanges
      <3> QED
        BY <3>1, <3>2, <3>3 DEF AppChange
    <2> QED
      BY <2>2, <2>3
  <1>5. ASSUME NEW m \in Name, OperatorEdits(m) PROVE AppChange(n)
    <2>1. PICK f \in Profile, pool \in Pool \cup {AnyPool} :
             \/ apps' = [apps EXCEPT ![m].profile = f]
             \/ apps' = [apps EXCEPT ![m].pool = pool]
      BY <1>5 DEF OperatorEdits, Profile
    <2>2. CASE n # m
      BY <1>0, <2>1, <2>2 DEF AppChange
    <2>3. CASE n = m
      <3>1. apps[n] # None /\ apps[n] \in App
            /\ \/ apps'[n] = [apps[n] EXCEPT !.profile = f]
               \/ apps'[n] = [apps[n] EXCEPT !.pool = pool]
        BY <1>0, <1>5, <2>1, <2>3 DEF OperatorEdits
      <3>2. apps'[n].controller = apps[n].controller
            /\ apps'[n].state = apps[n].state
        BY <3>1 DEF App
      <3> QED
        BY <3>1, <3>2 DEF AppChange
    <2> QED
      BY <2>2, <2>3
  <1>6. ASSUME NEW m \in Name, OperatorDeletes(m) PROVE AppChange(n)
    BY <1>0, <1>6 DEF OperatorDeletes, AppChange
  <1>7. ASSUME NEW m \in Name, TenantCreates(m) PROVE AppChange(n)
    BY <1>0, <1>7 DEF TenantCreates, AppChange
  <1>8. ASSUME NEW p \in Proc, Garm(p) PROVE UNCHANGED apps
    <2>1. CASE \E r : Invoke(p, r)
      BY <2>1 DEF Invoke
    <2>2. CASE InvokeInvalidCreate(p)
      BY <2>2 DEF InvokeInvalidCreate
    <2> QED
      BY <1>8, <2>1, <2>2, GarmInvokes
  <1>9. ASSUME NEW p \in Proc, Provider(p) \/ FailCall(p) PROVE AppChange(n)
    <2>1. CASE CreateApp(p) \/ DeleteApp(p) \/ RemoveApp(p)
      BY <1>2, <1>3, <2>1
    <2>2. CASE ~(CreateApp(p) \/ DeleteApp(p) \/ RemoveApp(p))
      <3>1. UNCHANGED apps
        BY <1>9, <2>2 DEF Provider, CreateLooksUp, CreateConfirms, Get, Stop,
           Start, DeleteChecks, ListApps, FetchApp, FailCall
      <3> QED
        BY <1>1, <3>1
    <2> QED
      BY <2>1, <2>2
  <1>10. CASE UNCHANGED vars
    BY <1>1, <1>10 DEF vars
  <1> QED
    BY <1>1, <1>4, <1>5, <1>6, <1>7, <1>8, <1>9, <1>10 DEF Next, Host

\* A name has one owner.
LEMMA OneOwner ==
  ASSUME NEW c \in Controller, NEW d \in Controller, NEW n \in Name,
         n \in NameOwner(c)
  PROVE  /\ n \in NameOwner(d) => c = d
         /\ n \notin TenantName
  <1>1. PICK r \in Runner : n = OwnedName[<<c, r>>]
    BY DEF NameOwner
  <1>2. ASSUME n \in NameOwner(d) PROVE c = d
    <2>1. PICK t \in Runner : n = OwnedName[<<d, t>>]
      BY <1>2 DEF NameOwner
    <2> DEFINE x == <<c, r>>
               y == <<d, t>>
    <2>2. /\ x \in Controller \X Runner /\ y \in Controller \X Runner
          /\ OwnedName[x] = OwnedName[y]
      BY <1>1, <2>1
    <2>3. x[1] = y[1]
      <3> HIDE DEF x, y
      <3> QED
        BY <2>2, NamesAssumption
    <2> QED
      BY <2>3
  <1>3. n \notin TenantName
    BY <1>1, NamesAssumption
  <1> QED
    BY <1>2, <1>3

\* A target stays one as long as the process keeps its command.
LEMMA TargetStays ==
  ASSUME TypeOK, [Next]_vars, NEW p \in Proc, NEW n \in Name,
         req[p] \in Request, req'[p] = req[p], OwnedTarget(p, n)
  PROVE  OwnedTarget(p, n)'
  <1> DEFINE c == req[p].controller
  <1>1. c \in Controller /\ n \in NameOwner(c)
    BY DEF OwnedTarget, Request
  <1>2. n \in NameOwner(c)'
    BY <1>1 DEF NameOwner
  <1>3. ASSUME apps'[n] # None PROVE apps'[n].controller = c
    <2>1. CASE apps[n] # None /\ apps'[n].controller = apps[n].controller
      BY <2>1 DEF OwnedTarget
    <2>2. ASSUME NEW q \in Proc, pc[q] = "create", n = req[q].name,
                 apps'[n] = NewApp(req[q])
          PROVE  apps'[n].controller = c
      <3>1. req[q].controller \in Controller
            /\ n \in NameOwner(req[q].controller)
        BY <2>2 DEF TypeOK, Types, Dispatched, Request
      <3>2. req[q].controller = c
        BY <1>1, <3>1, OneOwner
      <3> QED
        BY <2>2, <3>2 DEF NewApp
    <2>3. n \notin TenantName
      BY <1>1, OneOwner
    <2> QED
      BY <1>3, <2>1, <2>2, <2>3, AppChanges DEF AppChange
  <1> QED
    BY <1>2, <1>3 DEF OwnedTarget

LEMMA PlacedStays == ASSUME TypeOK, [Next]_vars, Placed PROVE Placed'
  <1>1. ASSUME NEW n \in Name, apps'[n] # None
        PROVE  \/ apps'[n].controller = NoController
               \/ n \in NameOwner(apps'[n].controller)
    <2>1. CASE apps[n] # None /\ apps'[n].controller = apps[n].controller
      BY <2>1 DEF Placed
    <2>2. ASSUME NEW q \in Proc, pc[q] = "create", n = req[q].name,
                 apps'[n] = NewApp(req[q])
          PROVE  n \in NameOwner(apps'[n].controller)
      <3>1. n \in NameOwner(req[q].controller)
        BY <2>2 DEF TypeOK, Dispatched
      <3>2. apps'[n].controller = req[q].controller
        BY <2>2 DEF NewApp
      <3> QED
        BY <3>1, <3>2
    <2>3. CASE n \in TenantName /\ apps'[n] = TenantApp
      BY <2>3 DEF TenantApp
    <2> QED
      BY <1>1, <2>1, <2>2, <2>3, AppChanges DEF AppChange
  <1> QED
    BY <1>1 DEF Placed, NameOwner

\* A process that does not move keeps its targets.
LEMMA BystanderKeeps ==
  ASSUME TypeOK, [Next]_vars, NEW q \in Proc, OwnTargets(q),
         pc'[q] = pc[q], req'[q] = req[q], todo'[q] = todo[q], out'[q] = out[q]
  PROVE  OwnTargets(q)'
  <1>1. CASE pc[q] = "delete"
    BY <1>1, TargetStays DEF OwnTargets, TypeOK, Types, Dispatched
  <1>2. CASE pc[q] = "remove"
    <2>1. todo[q] \in SUBSET Name /\ req[q] \in Request
      BY <1>2 DEF TypeOK, Types, Dispatched
    <2> QED
      BY <1>2, <2>1, TargetStays DEF OwnTargets
  <1>3. CASE pc[q] = "fetch"
    <2>1. req[q] \in Request /\ \A a \in out[q] : a.name \in Name
      BY <1>3 DEF TypeOK, Types, Dispatched, Listing
    <2> QED
      BY <1>3, <2>1, TargetStays DEF OwnTargets
  <1>4. CASE pc[q] \notin {"delete", "remove", "fetch"}
    BY <1>4 DEF OwnTargets
  <1> QED
    BY <1>1, <1>2, <1>3, <1>4

\* A process that answers has no target left.
LEMMA ReturnTargets ==
  ASSUME TypeOK, NEW p \in Proc, NEW err, NEW names, Return(p, err, names)
  PROVE  OwnTargets(p)'
  <1>1. pc'[p] = "idle" /\ out'[p] = {}
    BY DEF Return, TypeOK, Types
  <1> QED
    BY <1>1 DEF OwnTargets

LEMMA ListedTargets ==
  ASSUME TypeOK, [Next]_vars, NEW p \in Proc, NEW L \in SUBSET Listing,
         pc[p] \in {"list", "fetch"}, Listed(p, req[p], L),
         \A a \in L : a.controller = req[p].controller => OwnedTarget(p, a.name)
  PROVE  OwnTargets(p)'
  <1>1. CASE \E err, names : Return(p, err, names)
    BY <1>1, ReturnTargets
  <1>2. CASE /\ pc' = [pc EXCEPT ![p] = "remove"]
             /\ todo' = [todo EXCEPT ![p] = Victims(req[p], L)]
             /\ UNCHANGED <<req, reply>>
    <2>1. pc'[p] = "remove" /\ todo'[p] = Victims(req[p], L) /\ req'[p] = req[p]
      BY <1>2 DEF TypeOK, Types
    <2>2. ASSUME NEW n \in Victims(req[p], L)
          PROVE  n \in Name /\ OwnedTarget(p, n)
      BY <2>2 DEF Victims, Listing
    <2>3. req[p] \in Request
      BY DEF TypeOK, Dispatched
    <2>4. \A n \in todo'[p] : OwnedTarget(p, n)'
      BY <2>1, <2>2, <2>3, TargetStays
    <2> QED
      BY <2>1, <2>4 DEF OwnTargets
  <1>3. req[p].op \in {"List", "RemoveAll"}
    BY DEF TypeOK, Dispatched
  <1> QED
    BY <1>1, <1>2, <1>3 DEF Listed

\* The process that moves.
LEMMA MoverTargets ==
  ASSUME TypeOK, [Next]_vars, Ownership, NEW p \in Proc,
         Garm(p) \/ Provider(p) \/ FailCall(p)
  PROVE  OwnTargets(p)'
  <1> DEFINE r == req[p]
  <1>0. OwnTargets(p)
    BY DEF Ownership
  <1>1. CASE \E err, names : Return(p, err, names)
    BY <1>1, ReturnTargets
  <1>3. ASSUME NEW cmd, Invoke(p, cmd) PROVE OwnTargets(p)'
    <2>1. pc'[p] \in {"get", "list", "start"} /\ out'[p] = {}
      BY <1>0, <1>3 DEF Invoke, FirstCall, OwnTargets, TypeOK, Types
    <2> QED
      BY <2>1 DEF OwnTargets
  <1>4. CASE CreateLooksUp(p) \/ CreateApp(p)
    <2>1. pc[p] \in {"get", "create"}
      BY <1>4 DEF CreateLooksUp, CreateApp
    <2>2. \/ Goto(p, "create") \/ Goto(p, "confirm")
          \/ \E err, names : Return(p, err, names)
      BY <1>4 DEF CreateLooksUp, CreateApp
    <2> QED
      BY <1>0, <1>1, <2>1, <2>2 DEF Goto, OwnTargets, TypeOK, Types
  <1>5. CASE CreateConfirms(p) \/ Get(p) \/ Stop(p) \/ Start(p) \/ FailCall(p)
             \/ DeleteApp(p) \/ InvokeInvalidCreate(p)
    <2>1. \E err, names : Return(p, err, names)
      BY <1>5 DEF CreateConfirms, Get, Stop, Start, FailCall, DeleteApp,
         InvokeInvalidCreate
    <2> QED
      BY <1>1, <2>1
  <1>6. CASE DeleteChecks(p)
    <2>1. r \in Request /\ r.name \in Name /\ pc[p] = "get"
      BY <1>6 DEF DeleteChecks, TypeOK, Dispatched
    <2>2. \/ \E err, names : Return(p, err, names)
          \/ GetOwned(r.name, r.controller, AnyPool) = "ok" /\ Goto(p, "delete")
      BY <1>6 DEF DeleteChecks
    <2>3. ASSUME GetOwned(r.name, r.controller, AnyPool) = "ok", Goto(p, "delete")
          PROVE  OwnTargets(p)'
      <3>1. apps[r.name] # None /\ apps[r.name].controller = r.controller
            /\ r.controller \in Controller
        BY <2>1, <2>3, GetOwnedOk DEF Request
      <3>2. OwnedTarget(p, r.name)
        BY <2>1, <3>1, ConfigAssumption DEF Ownership, Placed, OwnedTarget
      <3>3. pc'[p] = "delete" /\ req'[p] = r /\ out'[p] = {}
        BY <1>0, <2>1, <2>3 DEF Goto, OwnTargets, TypeOK, Types
      <3>4. OwnedTarget(p, r.name)'
        BY <2>1, <3>2, <3>3, TargetStays
      <3>5. OwnedTarget(p, req[p].name)'
        BY <3>3, <3>4 DEF OwnedTarget
      <3> QED
        BY <3>3, <3>5 DEF OwnTargets
    <2> QED
      BY <1>1, <2>2, <2>3
  <1>7. CASE ListApps(p)
    <2>1. CASE Present \cap Plausible = {}
      <3> DEFINE L == {}
      <3>1. Listed(p, req[p], L) /\ pc[p] \in {"list", "fetch"}
        BY <1>7, <2>1 DEF ListApps
      <3>2. L \in SUBSET Listing
        OBVIOUS
      <3>3. \A a \in L : a.controller = req[p].controller => OwnedTarget(p, a.name)
        OBVIOUS
      <3> HIDE DEF L
      <3> QED
        BY <3>1, <3>2, <3>3, ListedTargets
    <2>2. CASE Present \cap Plausible # {}
      BY <1>0, <1>7, <2>2 DEF ListApps, OwnTargets, TypeOK, Types
    <2> QED
      BY <2>1, <2>2
  <1>8. CASE FetchApp(p)
    <2> DEFINE n == Min(todo[p])
               err == GetApp(n, r.controller)
               L == out[p] \cup (IF err = "ok" THEN {decoded(n)} ELSE {})
    <2>1. /\ pc[p] = "fetch" /\ todo[p] # {} /\ todo[p] \in SUBSET Name
          /\ r \in Request /\ r.controller \in Controller
      BY <1>8 DEF FetchApp, TypeOK, Types, Dispatched, Request
    <2>2. n \in Name
      BY <2>1, MinIn, NamesAssumption
    <2>3. err = "ok" => apps[n] # None /\ apps[n] \in App
      BY <2>1, <2>2, GetAppClass DEF TypeOK, Types
    <2>4. err = "ok" => decoded(n) \in Listing
      BY <2>2, <2>3, DecodedType
    <2>5. L \in SUBSET Listing
      BY <2>4 DEF TypeOK, Types
    <2>6. ASSUME NEW a \in L, a.controller = r.controller
          PROVE  OwnedTarget(p, a.name)
      <3>1. CASE a \in out[p]
        BY <1>0, <2>1, <2>6, <3>1 DEF OwnTargets
      <3>2. CASE err = "ok" /\ a = decoded(n)
        <4>1. a.name = n /\ apps[n].controller = r.controller
          BY <2>1, <2>6, <3>2, OwnerMade DEF decoded
        <4>2. n \in NameOwner(r.controller)
          BY <2>1, <2>2, <2>3, <3>2, <4>1, ConfigAssumption DEF Ownership, Placed
        <4> QED
          BY <4>1, <4>2 DEF OwnedTarget
      <3> QED
        BY <2>6, <3>1, <3>2
    <2>7. \/ \E e, names : Return(p, e, names)
          \/ Listed(p, r, L)
          \/ out' = [out EXCEPT ![p] = L] /\ UNCHANGED <<pc, req>>
      BY <1>8 DEF FetchApp
    <2>8. ASSUME out' = [out EXCEPT ![p] = L], UNCHANGED <<pc, req>>
          PROVE  OwnTargets(p)'
      <3>1. pc'[p] = "fetch" /\ out'[p] = L /\ req'[p] = r
        BY <2>1, <2>8 DEF TypeOK, Types
      <3>2. ASSUME NEW a \in L, a.controller = r.controller
            PROVE  OwnedTarget(p, a.name)'
        <4>1. a.name \in Name /\ OwnedTarget(p, a.name)
          BY <2>5, <2>6, <3>2 DEF Listing
        <4> HIDE DEF L
        <4> DEFINE m == a.name
        <4>2. OwnedTarget(p, m)'
          BY <2>1, <3>1, <4>1, TargetStays
        <4> QED
          BY <4>2 DEF OwnedTarget
      <3> QED
        BY <3>1, <3>2 DEF OwnTargets
    <2> QED
      <3> HIDE DEF L
      <3> QED
        BY <1>1, <2>1, <2>5, <2>6, <2>7, <2>8, ListedTargets
  <1>9. CASE RemoveApp(p)
    <2>1. pc[p] = "remove" /\ r \in Request /\ todo[p] \in SUBSET Name
      BY <1>9 DEF RemoveApp, TypeOK, Types, Dispatched
    <2>2. \/ \E e, names : Return(p, e, names)
          \/ /\ todo' = [todo EXCEPT ![p] = Remaining(todo[p])]
             /\ UNCHANGED <<pc, req, out, reply>>
      BY <1>9 DEF RemoveApp
    <2>3. ASSUME todo' = [todo EXCEPT ![p] = Remaining(todo[p])],
                 UNCHANGED <<pc, req, out, reply>>
          PROVE  OwnTargets(p)'
      <3>1. /\ pc'[p] = "remove" /\ todo'[p] \subseteq todo[p]
            /\ req'[p] = r
        BY <2>1, <2>3 DEF Remaining, TypeOK, Types
      <3>2. \A n \in todo'[p] : OwnedTarget(p, n)'
        BY <1>0, <2>1, <3>1, TargetStays DEF OwnTargets
      <3> QED
        BY <3>1, <3>2 DEF OwnTargets
    <2> QED
      BY <1>1, <2>2, <2>3
  <1> QED
    BY <1>3, <1>4, <1>5, <1>6, <1>7, <1>8, <1>9, GarmInvokes DEF Provider

\* A step of one process leaves the local state of the others alone.
Still(q) == /\ pc'[q] = pc[q] /\ req'[q] = req[q]
            /\ todo'[q] = todo[q] /\ out'[q] = out[q]

LEMMA OthersStill ==
  ASSUME TypeOK, NEW p \in Proc, NEW q \in Proc, q # p,
         Garm(p) \/ Provider(p) \/ FailCall(p)
  PROVE  Still(q)
  <1> USE DEF TypeOK, Types
  <1>1. ASSUME NEW err, NEW names, Return(p, err, names) PROVE Still(q)
    BY <1>1 DEF Return, Still
  <1>2. ASSUME NEW next, Goto(p, next) PROVE Still(q)
    BY <1>2 DEF Goto, Still
  <1>3. ASSUME NEW L, Listed(p, req[p], L) PROVE Still(q)
    <2>1. CASE \E err, names : Return(p, err, names)
      BY <1>1, <2>1
    <2>2. CASE ~\E err, names : Return(p, err, names)
      <3>1. /\ pc' = [pc EXCEPT ![p] = "remove"]
            /\ \E V : todo' = [todo EXCEPT ![p] = V]
            /\ out' = [out EXCEPT ![p] = L]
            /\ UNCHANGED <<req, reply>>
        BY <1>3, <2>2 DEF Listed
      <3> QED
        BY <3>1 DEF Still
    <2> QED
      BY <2>1, <2>2
  <1>4. ASSUME NEW cmd, Invoke(p, cmd) PROVE Still(q)
    BY <1>4 DEF Invoke, Still
  <1>5. CASE CreateLooksUp(p) \/ CreateApp(p) \/ DeleteChecks(p)
    <2>1. \/ \E err, names : Return(p, err, names)
          \/ \E next : Goto(p, next)
      BY <1>5 DEF CreateLooksUp, CreateApp, DeleteChecks
    <2> QED
      BY <1>1, <1>2, <2>1
  <1>6. CASE CreateConfirms(p) \/ Get(p) \/ Stop(p) \/ Start(p) \/ FailCall(p)
             \/ DeleteApp(p) \/ InvokeInvalidCreate(p)
    <2>1. \E err, names : Return(p, err, names)
      BY <1>6 DEF CreateConfirms, Get, Stop, Start, FailCall, DeleteApp,
         InvokeInvalidCreate
    <2> QED
      BY <1>1, <2>1
  <1>7. CASE ListApps(p)
    <2>1. \/ \E L : Listed(p, req[p], L)
          \/ /\ pc' = [pc EXCEPT ![p] = "fetch"]
             /\ todo' = [todo EXCEPT ![p] = Present \cap Plausible]
             /\ UNCHANGED <<req, out, reply>>
      BY <1>7 DEF ListApps
    <2> QED
      BY <1>3, <2>1 DEF Still
  <1>8. CASE FetchApp(p)
    <2>1. \/ \E err, names : Return(p, err, names)
          \/ \E L : Listed(p, req[p], L)
          \/ /\ \E L : out' = [out EXCEPT ![p] = L]
             /\ \E T : todo' = [todo EXCEPT ![p] = T]
             /\ UNCHANGED <<pc, req, reply>>
      BY <1>8 DEF FetchApp
    <2> QED
      BY <1>1, <1>3, <2>1 DEF Still
  <1>9. CASE RemoveApp(p)
    <2>1. \/ \E err, names : Return(p, err, names)
          \/ /\ \E T : todo' = [todo EXCEPT ![p] = T]
             /\ UNCHANGED <<pc, req, out, reply>>
      BY <1>9 DEF RemoveApp
    <2> QED
      BY <1>1, <2>1 DEF Still
  <1> QED
    BY <1>4, <1>5, <1>6, <1>7, <1>8, <1>9, GarmInvokes DEF Provider

LEMMA HostStill ==
  ASSUME NEW q \in Proc, Host \/ UNCHANGED vars
  PROVE  Still(q)
  BY DEF Host, StateChanges, OperatorEdits, OperatorDeletes, TenantCreates,
     vars, Still

LEMMA OwnershipStep == TypeOK /\ Ownership /\ [Next]_vars => Ownership'
  <1> SUFFICES ASSUME TypeOK, Ownership, [Next]_vars PROVE Ownership'
    OBVIOUS
  <1>1. Placed'
    BY PlacedStays DEF Ownership
  <1>2. ASSUME NEW q \in Proc PROVE OwnTargets(q)'
    <2>1. CASE Still(q)
      BY <2>1, BystanderKeeps DEF Still, Ownership
    <2>2. CASE Garm(q) \/ Provider(q) \/ FailCall(q)
      BY <2>2, MoverTargets
    <2>3. ASSUME NEW p \in Proc, p # q, Garm(p) \/ Provider(p) \/ FailCall(p)
          PROVE  Still(q)
      BY <2>3, OthersStill
    <2> QED
      BY <2>1, <2>2, <2>3, HostStill DEF Next
  <1> QED
    BY <1>1, <1>2 DEF Ownership

LEMMA OwnershipInit == Init => Ownership
  <1> SUFFICES ASSUME Init PROVE Ownership
    OBVIOUS
  <1>1. ASSUME NEW n \in Name, apps[n] # None
        PROVE  \/ apps[n].controller = NoController
               \/ n \in NameOwner(apps[n].controller)
    <2>1. apps[n] \in EarlierApps(n)
      BY <1>1 DEF Init
    <2>2. CASE apps[n] \in {TenantApp, [TenantApp EXCEPT !.state = "STOPPED"]}
      BY <2>2 DEF TenantApp
    <2>3. CASE apps[n] \notin {TenantApp, [TenantApp EXCEPT !.state = "STOPPED"]}
      BY <2>1, <2>3 DEF EarlierApps
    <2> QED
      BY <2>2, <2>3
  <1>2. ASSUME NEW p \in Proc PROVE OwnTargets(p)
    BY DEF Init, OwnTargets
  <1> QED
    BY <1>1, <1>2 DEF Ownership, Placed

\* An app.delete of a process removes the app at one of its targets.
LEMMA DestroysTarget ==
  ASSUME TypeOK, [Next]_vars, NEW p \in Proc, NEW n \in Name, Destroys(p, n)
  PROVE  \/ pc[p] = "delete" /\ n = req[p].name
         \/ pc[p] = "remove" /\ n \in todo[p]
  <1>1. ~Still(p)
    BY DEF Destroys, Still, TypeOK, Types
  <1>2. Garm(p) \/ Provider(p) \/ FailCall(p)
    BY <1>1, HostStill, OthersStill DEF Next
  <1>3. CASE DeleteApp(p)
    BY <1>3 DEF DeleteApp, Destroy, Destroys, TypeOK, Types
  <1>4. CASE RemoveApp(p)
    <2>1. todo[p] # {} /\ todo[p] \in SUBSET Nat /\ pc[p] = "remove"
      BY <1>4, NamesAssumption DEF RemoveApp, TypeOK, Types, Dispatched
    <2>2. n = Min(todo[p])
      BY <1>4 DEF RemoveApp, Destroy, Destroys, TypeOK, Types
    <2> QED
      BY <2>1, <2>2, MinIn
  <1>5. CASE ~(DeleteApp(p) \/ RemoveApp(p))
    <2>1. pc[p] \in {"delete", "remove"} /\ apps' # apps
      BY DEF Destroys
    <2>2. FailCall(p) \/ Garm(p)
      BY <1>2, <1>5, <2>1 DEF Provider, CreateLooksUp, CreateApp,
         CreateConfirms, Get, Stop, Start, DeleteChecks, ListApps, FetchApp
    <2>3. pc[p] # "idle"
      BY <2>1
    <2>4. FailCall(p)
      BY <2>2, <2>3, GarmInvokes DEF Invoke, InvokeInvalidCreate
    <2> QED
      BY <2>1, <2>4 DEF FailCall
  <1> QED
    BY <1>3, <1>4, <1>5

\* Whatever the interleaving of any number of processes, controllers,
\* operators and tenants, Delete and RemoveAll remove only apps of the
\* controller they serve, although they check and delete in separate calls.
THEOREM ForeignSafe == Spec => ForeignNeverDestroyed
  <1>1. ASSUME TypeOK, Ownership, [Next]_vars,
               NEW p \in Proc, NEW n \in Name, Destroys(p, n)
        PROVE  apps[n].controller = req[p].controller
    <2>1. OwnedTarget(p, n)
      BY <1>1, DestroysTarget DEF Ownership, OwnTargets
    <2> QED
      BY <1>1, <2>1 DEF OwnedTarget, Destroys
  <1>2. TypeOK /\ Ownership /\ [Next]_vars =>
           [\A p \in Proc, n \in Name :
               Destroys(p, n) => apps[n].controller = req[p].controller]_vars
    BY <1>1
  <1>3. Spec => [](TypeOK /\ Ownership)
    BY InitType, TypeStep, OwnershipInit, OwnershipStep, PTL DEF Spec
  <1> QED
    BY <1>2, <1>3, PTL DEF Spec, ForeignNeverDestroyed
-----------------------------------------------------------------------------
(* Activity.  At capacity one (mutating commands of a controller never     *)
(* overlap) and with nobody restarting finished apps, what Delete and      *)
(* RemoveAll saw finished is still finished, or gone, when app.delete is   *)
(* called: only the controller itself could put a new app under the name,  *)
(* and its Create would have to overlap the removal.                       *)

Exclusion ==
    \A p, q \in Proc :
       /\ p # q /\ pc[p] # "idle" /\ pc[q] # "idle"
       /\ req[p].op \in Mutating /\ req[q].op \in Mutating
       => req[p].controller # req[q].controller

Finished(n) == apps[n] # None => apps[n].state \in Inactive

FinishedAfter(n) == apps'[n] # None => apps'[n].state \in Inactive

DoneTargets(p) ==
    /\ pc[p] = "delete" => Finished(req[p].name)
    /\ pc[p] = "remove" => \A n \in todo[p] : Finished(n)
    /\ pc[p] = "fetch" /\ req[p].op = "RemoveAll" => \A a \in out[p] :
          a.controller = req[p].controller /\ ~isActive(a.state)
             => Finished(a.name)

Activity == Exclusion /\ \A p \in Proc : DoneTargets(p)

LEMMA FinishedStays ==
  ASSUME TypeOK, Exclusion, CapacityOne, [Next]_vars,
         NEW p \in Proc, NEW n \in Name, Finished(n), OwnedTarget(p, n),
         pc[p] \notin {"idle", "create"}, req[p].op \in Mutating
  PROVE  FinishedAfter(n)
  <1> SUFFICES ASSUME apps'[n] # None PROVE apps'[n].state \in Inactive
    BY DEF FinishedAfter
  <1>0. req[p] \in Request /\ req[p].controller \in Controller
        /\ n \in NameOwner(req[p].controller)
    BY DEF TypeOK, Dispatched, Request, OwnedTarget
  <1>1. CASE apps[n] # None /\ (apps[n].state \in Inactive => apps'[n].state \in Inactive)
    BY <1>1 DEF Finished
  <1>2. ASSUME NEW q \in Proc, pc[q] = "create", n = req[q].name PROVE FALSE
    <2>1. /\ req[q] \in Request /\ req[q].controller \in Controller
          /\ req[q].op = "Create" /\ n \in NameOwner(req[q].controller)
      BY <1>2 DEF TypeOK, Dispatched, Request
    <2>2. req[q].controller = req[p].controller
      BY <1>0, <2>1, OneOwner
    <2> QED
      BY <1>2, <2>1, <2>2 DEF Exclusion, Mutating
  <1>3. n \notin TenantName
    BY <1>0, OneOwner
  <1> QED
    BY <1>1, <1>2, <1>3, AppChanges DEF AppChange, CapacityOne

\* A process that goes on keeps its command.
LEMMA CommandStays ==
  ASSUME TypeOK, NEW p \in Proc,
         Provider(p) \/ FailCall(p) \/ InvokeInvalidCreate(p)
  PROVE  pc'[p] = "idle" \/ (pc[p] # "idle" /\ req'[p] = req[p])
  <1>1. CASE \E err, names : Return(p, err, names)
    BY <1>1 DEF Return, TypeOK, Types
  <1>2. ASSUME NEW L, Listed(p, req[p], L), pc[p] # "idle"
        PROVE  pc'[p] = "idle" \/ req'[p] = req[p]
    BY <1>1, <1>2 DEF Listed
  <1>3. CASE CreateLooksUp(p) \/ CreateApp(p) \/ DeleteChecks(p)
    <2>1. pc[p] # "idle" /\ (\/ \E err, names : Return(p, err, names)
                             \/ \E next : Goto(p, next))
      BY <1>3 DEF CreateLooksUp, CreateApp, DeleteChecks
    <2> QED
      BY <1>1, <2>1 DEF Goto
  <1>4. CASE CreateConfirms(p) \/ Get(p) \/ Stop(p) \/ Start(p) \/ FailCall(p)
             \/ DeleteApp(p) \/ InvokeInvalidCreate(p)
    <2>1. \E err, names : Return(p, err, names)
      BY <1>4 DEF CreateConfirms, Get, Stop, Start, FailCall, DeleteApp,
         InvokeInvalidCreate
    <2> QED
      BY <1>1, <2>1
  <1>5. CASE ListApps(p)
    <2>1. pc[p] # "idle" /\ ((\E L : Listed(p, req[p], L)) \/ UNCHANGED req)
      BY <1>5 DEF ListApps
    <2> QED
      BY <1>2, <2>1
  <1>6. CASE FetchApp(p)
    <2>1. pc[p] # "idle" /\ (\/ \E err, names : Return(p, err, names)
                             \/ \E L : Listed(p, req[p], L)
                             \/ UNCHANGED req)
      BY <1>6 DEF FetchApp
    <2> QED
      BY <1>1, <1>2, <2>1
  <1>7. CASE RemoveApp(p)
    <2>1. pc[p] # "idle" /\ (\/ \E err, names : Return(p, err, names)
                             \/ UNCHANGED req)
      BY <1>7 DEF RemoveApp
    <2> QED
      BY <1>1, <2>1
  <1> QED
    BY <1>3, <1>4, <1>5, <1>6, <1>7 DEF Provider

LEMMA ExclusionStep ==
  ASSUME TypeOK, Exclusion, CapacityOne, [Next]_vars PROVE Exclusion'
  <1>1. ASSUME NEW p \in Proc, NEW cmd, Invoke(p, cmd) PROVE Exclusion'
    <2>1. ASSUME NEW q \in Proc, q # p, pc[q] # "idle",
                 cmd.op \in Mutating, req[q].op \in Mutating
          PROVE  req[q].controller # cmd.controller
      BY <1>1, <2>1 DEF Invoke, Admissible, CapacityOne
    <2>2. /\ pc' = [pc EXCEPT ![p] = FirstCall(cmd.op)]
          /\ req' = [req EXCEPT ![p] = cmd]
      BY <1>1 DEF Invoke
    <2> QED
      BY <2>1, <2>2 DEF Exclusion, TypeOK, Types
  <1>2. ASSUME \A q \in Proc : \/ pc'[q] = "idle"
                               \/ pc[q] # "idle" /\ req'[q] = req[q]
        PROVE  Exclusion'
    BY <1>2 DEF Exclusion
  <1>3. ASSUME NEW p \in Proc, Provider(p) \/ FailCall(p) \/ InvokeInvalidCreate(p)
        PROVE  pc'[p] = "idle" \/ (pc[p] # "idle" /\ req'[p] = req[p])
    BY <1>3, CommandStays
  <1>4. ASSUME NEW p \in Proc, Provider(p) \/ FailCall(p) \/ InvokeInvalidCreate(p)
        PROVE  Exclusion'
    <2>1. \A q \in Proc : q # p => Still(q)
      BY <1>4, OthersStill, InvalidIsGarm
    <2> QED
      BY <1>2, <1>3, <1>4, <2>1 DEF Still
  <1>5. CASE Host \/ UNCHANGED vars
    BY <1>2, <1>5, HostStill DEF Still
  <1> QED
    BY <1>1, <1>4, <1>5, GarmInvokes DEF Next

LEMMA DoneBystander ==
  ASSUME TypeOK, Ownership, Activity, CapacityOne, [Next]_vars,
         NEW q \in Proc, Still(q)
  PROVE  DoneTargets(q)'
  <1> USE DEF Activity, Still
  <1>0. OwnTargets(q) /\ DoneTargets(q)
    BY DEF Ownership
  <1>1. CASE pc[q] = "delete"
    <2> DEFINE n == req[q].name
    <2>1. n \in Name /\ Finished(n) /\ OwnedTarget(q, n) /\ req[q].op \in Mutating
      BY <1>0, <1>1 DEF TypeOK, Dispatched, OwnTargets, DoneTargets, Mutating
    <2>2. FinishedAfter(n)
      BY <1>1, <2>1, FinishedStays
    <2> QED
      BY <1>1, <2>2 DEF DoneTargets, Finished, FinishedAfter
  <1>2. CASE pc[q] = "remove"
    <2>1. req[q].op \in Mutating /\ todo[q] \in SUBSET Name
      BY <1>2 DEF TypeOK, Types, Dispatched, Mutating
    <2>2. ASSUME NEW n \in todo[q] PROVE FinishedAfter(n)
      BY <1>0, <1>2, <2>1, FinishedStays DEF OwnTargets, DoneTargets
    <2> QED
      BY <1>2, <2>2 DEF DoneTargets, Finished, FinishedAfter
  <1>3. CASE pc[q] = "fetch" /\ req[q].op = "RemoveAll"
    <2>1. req[q].op \in Mutating /\ out[q] \in SUBSET Listing
      BY <1>3 DEF TypeOK, Types, Mutating
    <2>2. ASSUME NEW a \in out[q], a.controller = req[q].controller,
                 ~isActive(a.state)
          PROVE  FinishedAfter(a.name)
      <3>1. a.name \in Name /\ OwnedTarget(q, a.name) /\ Finished(a.name)
        BY <1>0, <1>3, <2>1, <2>2 DEF OwnTargets, DoneTargets, Listing
      <3> QED
        BY <1>3, <2>1, <3>1, FinishedStays
    <2> QED
      BY <1>3, <2>2 DEF DoneTargets, Finished, FinishedAfter
  <1> QED
    BY <1>1, <1>2, <1>3 DEF DoneTargets

LEMMA ReturnDone ==
  ASSUME TypeOK, NEW p \in Proc, NEW err, NEW names, Return(p, err, names)
  PROVE  DoneTargets(p)'
  <1>1. pc'[p] = "idle"
    BY DEF Return, TypeOK, Types
  <1> QED
    BY <1>1 DEF DoneTargets

LEMMA ListedDone ==
  ASSUME TypeOK, NEW p \in Proc, NEW L \in SUBSET Listing,
         pc[p] \in {"list", "fetch"}, Listed(p, req[p], L), UNCHANGED apps,
         req[p].op = "RemoveAll" => \A a \in L :
            a.controller = req[p].controller /\ ~isActive(a.state)
               => Finished(a.name)
  PROVE  DoneTargets(p)'
  <1>1. CASE \E err, names : Return(p, err, names)
    BY <1>1, ReturnDone
  <1>2. CASE /\ req[p].op = "RemoveAll"
             /\ pc' = [pc EXCEPT ![p] = "remove"]
             /\ todo' = [todo EXCEPT ![p] = Victims(req[p], L)]
    <2>1. pc'[p] = "remove" /\ todo'[p] = Victims(req[p], L)
      BY <1>2 DEF TypeOK, Types
    <2>2. ASSUME NEW n \in Victims(req[p], L) PROVE Finished(n)
      BY <1>2, <2>2 DEF Victims
    <2> QED
      BY <2>1, <2>2 DEF DoneTargets, Finished
  <1>3. req[p].op \in {"List", "RemoveAll"}
    BY DEF TypeOK, Dispatched
  <1> QED
    BY <1>1, <1>2, <1>3 DEF Listed

LEMMA MoverDone ==
  ASSUME TypeOK, Ownership, Activity, CapacityOne, [Next]_vars,
         NEW p \in Proc, Garm(p) \/ Provider(p) \/ FailCall(p)
  PROVE  DoneTargets(p)'
  <1> DEFINE r == req[p]
  <1>0. OwnTargets(p) /\ DoneTargets(p)
    BY DEF Ownership, Activity
  <1>1. CASE \E err, names : Return(p, err, names)
    BY <1>1, ReturnDone
  <1>3. ASSUME NEW cmd, Invoke(p, cmd) PROVE DoneTargets(p)'
    <2>1. pc'[p] \in {"get", "list", "start"}
      BY <1>3 DEF Invoke, FirstCall, TypeOK, Types
    <2> QED
      BY <2>1 DEF DoneTargets
  <1>4. CASE CreateLooksUp(p) \/ CreateApp(p)
    <2>1. \/ Goto(p, "create") \/ Goto(p, "confirm")
          \/ \E err, names : Return(p, err, names)
      BY <1>4 DEF CreateLooksUp, CreateApp
    <2> QED
      BY <1>1, <2>1 DEF Goto, DoneTargets, TypeOK, Types
  <1>5. CASE CreateConfirms(p) \/ Get(p) \/ Stop(p) \/ Start(p) \/ FailCall(p)
             \/ DeleteApp(p) \/ InvokeInvalidCreate(p)
    <2>1. \E err, names : Return(p, err, names)
      BY <1>5 DEF CreateConfirms, Get, Stop, Start, FailCall, DeleteApp,
         InvokeInvalidCreate
    <2> QED
      BY <1>1, <2>1
  <1>6. CASE DeleteChecks(p)
    <2>1. r \in Request /\ r.name \in Name /\ UNCHANGED apps
          /\ r.controller \in Controller
      BY <1>6 DEF DeleteChecks, TypeOK, Dispatched, Request
    <2>2. \/ \E err, names : Return(p, err, names)
          \/ /\ GetOwned(r.name, r.controller, AnyPool) = "ok"
             /\ ~isActive(mapState(apps[r.name].state))
             /\ Goto(p, "delete")
      BY <1>6 DEF DeleteChecks
    <2>3. ASSUME GetOwned(r.name, r.controller, AnyPool) = "ok",
                 ~isActive(mapState(apps[r.name].state)), Goto(p, "delete")
          PROVE  DoneTargets(p)'
      <3>1. apps[r.name] # None
        BY <2>1, <2>3, GetOwnedOk
      <3>2. apps[r.name].state \in RawState
        BY <2>1, <3>1 DEF TypeOK, Types, App
      <3>3. apps[r.name].state \in Inactive
        BY <2>3, <3>2, MapStateType
      <3>4. pc'[p] = "delete" /\ req'[p] = r
        BY <2>3 DEF Goto, TypeOK, Types
      <3> QED
        BY <2>1, <3>3, <3>4 DEF DoneTargets, Finished
    <2> QED
      BY <1>1, <2>2, <2>3
  <1>7. CASE ListApps(p)
    <2>1. CASE Present \cap Plausible = {}
      <3> DEFINE L == {}
      <3>1. Listed(p, req[p], L) /\ pc[p] \in {"list", "fetch"} /\ UNCHANGED apps
        BY <1>7, <2>1 DEF ListApps
      <3>2. L \in SUBSET Listing
        OBVIOUS
      <3>3. \A a \in L : Finished(a.name)
        OBVIOUS
      <3> HIDE DEF L
      <3> QED
        BY <3>1, <3>2, <3>3, ListedDone
    <2>2. CASE Present \cap Plausible # {}
      <3>1. pc'[p] = "fetch" /\ out'[p] = {}
        BY <1>0, <1>7, <2>2 DEF ListApps, OwnTargets, TypeOK, Types
      <3> QED
        BY <3>1 DEF DoneTargets
    <2> QED
      BY <2>1, <2>2
  <1>8. CASE FetchApp(p)
    <2> DEFINE n == Min(todo[p])
               err == GetApp(n, r.controller)
               L == out[p] \cup (IF err = "ok" THEN {decoded(n)} ELSE {})
    <2>1. /\ pc[p] = "fetch" /\ todo[p] # {} /\ todo[p] \in SUBSET Name
          /\ r \in Request /\ r.controller \in Controller /\ UNCHANGED apps
      BY <1>8 DEF FetchApp, TypeOK, Types, Dispatched, Request
    <2>2. n \in Name
      BY <2>1, MinIn, NamesAssumption
    <2>3. err = "ok" => apps[n] # None /\ apps[n] \in App
      BY <2>1, <2>2, GetAppClass DEF TypeOK, Types
    <2>4. err = "ok" => decoded(n) \in Listing
      BY <2>2, <2>3, DecodedType
    <2>5. L \in SUBSET Listing
      BY <2>4 DEF TypeOK, Types
    <2>6. ASSUME NEW a \in L, r.op = "RemoveAll",
                 a.controller = r.controller, ~isActive(a.state)
          PROVE  Finished(a.name)
      <3>1. CASE a \in out[p]
        BY <1>0, <2>1, <2>6, <3>1 DEF DoneTargets
      <3>2. CASE err = "ok" /\ a = decoded(n)
        <4>1. a.name = n /\ a.state = mapState(apps[n].state)
          BY <3>2 DEF decoded
        <4>2. apps[n].state \in RawState
          BY <2>3, <3>2 DEF App
        <4>3. apps[n].state \in Inactive
          BY <2>6, <4>1, <4>2, MapStateType
        <4> QED
          BY <4>1, <4>3 DEF Finished
      <3> QED
        BY <2>6, <3>1, <3>2
    <2>7. \/ \E e, names : Return(p, e, names)
          \/ Listed(p, r, L)
          \/ out' = [out EXCEPT ![p] = L] /\ UNCHANGED <<pc, req>>
      BY <1>8 DEF FetchApp
    <2>8. ASSUME out' = [out EXCEPT ![p] = L], UNCHANGED <<pc, req>>
          PROVE  DoneTargets(p)'
      <3>1. pc'[p] = "fetch" /\ out'[p] = L /\ req'[p] = r
        BY <2>1, <2>8 DEF TypeOK, Types
      <3> HIDE DEF L
      <3> QED
        BY <2>1, <2>6, <3>1 DEF DoneTargets, Finished
    <2> QED
      <3> HIDE DEF L
      <3> QED
        BY <1>1, <2>1, <2>5, <2>6, <2>7, <2>8, ListedDone
  <1>9. CASE RemoveApp(p)
    <2>1. /\ pc[p] = "remove" /\ r.op \in Mutating /\ todo[p] \in SUBSET Name
      BY <1>9 DEF RemoveApp, TypeOK, Types, Dispatched, Mutating
    <2>2. \/ \E e, names : Return(p, e, names)
          \/ /\ todo' = [todo EXCEPT ![p] = Remaining(todo[p])]
             /\ UNCHANGED <<pc, req, out, reply>>
      BY <1>9 DEF RemoveApp
    <2>3. ASSUME todo' = [todo EXCEPT ![p] = Remaining(todo[p])],
                 UNCHANGED <<pc, req, out, reply>>
          PROVE  DoneTargets(p)'
      <3>1. /\ pc'[p] = "remove" /\ todo'[p] \subseteq todo[p]
        BY <2>1, <2>3 DEF Remaining, TypeOK, Types
      <3>2. ASSUME NEW n \in todo'[p] PROVE FinishedAfter(n)
        <4>1. Finished(n) /\ OwnedTarget(p, n) /\ n \in Name
          BY <1>0, <2>1, <3>1 DEF OwnTargets, DoneTargets
        <4> QED
          BY <2>1, <4>1, FinishedStays DEF Activity
      <3> QED
        BY <3>1, <3>2 DEF DoneTargets, Finished, FinishedAfter
    <2> QED
      BY <1>1, <2>2, <2>3
  <1> QED
    BY <1>3, <1>4, <1>5, <1>6, <1>7, <1>8, <1>9, GarmInvokes DEF Provider

LEMMA ActivityStep ==
  CapacityOne /\ TypeOK /\ Ownership /\ Activity /\ [Next]_vars => Activity'
  <1> SUFFICES ASSUME CapacityOne, TypeOK, Ownership, Activity, [Next]_vars
               PROVE  Activity'
    OBVIOUS
  <1>1. Exclusion'
    BY ExclusionStep DEF Activity
  <1>2. ASSUME NEW q \in Proc PROVE DoneTargets(q)'
    <2>1. CASE Still(q)
      BY <2>1, DoneBystander
    <2>2. CASE Garm(q) \/ Provider(q) \/ FailCall(q)
      BY <2>2, MoverDone
    <2>3. ASSUME NEW p \in Proc, p # q, Garm(p) \/ Provider(p) \/ FailCall(p)
          PROVE  Still(q)
      BY <2>3, OthersStill
    <2> QED
      BY <2>1, <2>2, <2>3, HostStill DEF Next
  <1> QED
    BY <1>1, <1>2 DEF Activity

\* At capacity one and unless somebody restarts a finished app, app.delete
\* only ever removes apps that have finished: the state Delete and RemoveAll
\* read some calls ago is still good when they use it.
THEOREM ActiveSafe == CapacityOne => (Spec => ActiveNeverDestroyed)
  <1> SUFFICES ASSUME CapacityOne PROVE Spec => ActiveNeverDestroyed
    OBVIOUS
  <1>1. ASSUME TypeOK, Activity, [Next]_vars,
               NEW p \in Proc, NEW n \in Name, Destroys(p, n)
        PROVE  apps[n].state \in Inactive
    <2>1. Finished(n)
      BY <1>1, DestroysTarget DEF Activity, DoneTargets
    <2> QED
      BY <1>1, <2>1 DEF Finished, Destroys
  <1>2. TypeOK /\ Activity /\ [Next]_vars =>
           [\A p \in Proc, n \in Name :
               Destroys(p, n) => apps[n].state \in Inactive]_vars
    BY <1>1
  <1>3. TypeOK /\ Ownership /\ Activity /\ [Next]_vars => Activity'
    BY ActivityStep
  <1>4. Init => Activity
    BY DEF Init, Activity, Exclusion, DoneTargets
  <1>5. Spec => [](TypeOK /\ Ownership /\ Activity)
    BY <1>3, <1>4, InitType, TypeStep, OwnershipInit, OwnershipStep, PTL DEF Spec
  <1> QED
    BY <1>2, <1>5, PTL DEF Spec, ActiveNeverDestroyed
=============================================================================
