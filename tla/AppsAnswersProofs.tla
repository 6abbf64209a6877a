-------------------------- MODULE AppsAnswersProofs --------------------------
(* What an answer of Apps says about the apps, for every number of         *)
(* processes, controllers, runners and names, proved with TLAPS: what      *)
(* stood still while a command went through the app table call by call has *)
(* been seen, and a refused Create has made nothing that reads as its own. *)
EXTENDS AppsProofs

\* Commands are numbered apart, and an app carries the number of the Create
\* that made it.
Numbered ==
    /\ \A n \in Name : apps[n] # None => apps[n].made <= calls
    /\ \A p \in Proc : pc[p] # "idle" => req[p].id \in 1..calls
    /\ \A p, q \in Proc :
          pc[p] # "idle" /\ pc[q] # "idle" /\ p # q => req[p].id # req[q].id

\* The app a Create has made, if any, and before app.create there is none.
OwnMade(p, n) == pc[p] = "confirm" /\ n = req[p].name
Marked(p) ==
    pc[p] # "idle" /\ req[p].op = "Create" =>
       \A n \in Name :
          apps[n] # None /\ apps[n].made = req[p].id => OwnMade(p, n)

\* What ListApps has decoded of app n is still so, and an own app that it has
\* not decoded is still ahead.
Seen(p, n) ==
    /\ \A a \in out[p] : a.name = n => /\ a.controller = Owner(apps[n])
                                       /\ a.pool = PoolOf(apps[n])
    /\ Owner(apps[n]) = req[p].controller =>
          n \in todo[p] \/ \E a \in out[p] : a.name = n

\* An own app is still to be removed, or counted as an active one.
Counted(p, n) ==
    Owner(apps[n]) = req[p].controller =>
       \/ n \in todo[p]
       \/ \E a \in out[p] : /\ a.name = n /\ isActive(a.state)
                            /\ a.controller = req[p].controller

\* What process p knows of the apps that no one has touched since it began.
Gathered(p) ==
    pc[p] # "idle" =>
       \A n \in stable[p] : /\ apps[n] # None
                            /\ pc[p] = "fetch" => Seen(p, n)
                            /\ pc[p] = "remove" => Counted(p, n)

History == /\ Numbered
           /\ \A p \in Proc : Marked(p) /\ Gathered(p)
-----------------------------------------------------------------------------
(* What one step does to the apps and to what is known of them.            *)

\* App n stays, whatever becomes of its state and payload, and its labels
\* still name the same owner and pool.
AppStays(n) == /\ apps[n] # None /\ apps'[n] # None
               /\ apps'[n].made = apps[n].made
AppKept(n) == /\ apps[n] # None /\ apps'[n] # None
              /\ Owner(apps'[n]) = Owner(apps[n])
              /\ PoolOf(apps'[n]) = PoolOf(apps[n])

MadeBy(q, n) == /\ CreateApp(q) /\ n = req[q].name
                /\ apps'[n] = NewApp(req[q])

LEMMA StateKeeps ==
  ASSUME TypeOK, NEW n \in Name, NEW m \in Name, apps[n] # None,
         StateChanges(m)
  PROVE  AppKept(n) /\ AppStays(n)
  <1>0. apps \in [Name -> App \cup {None}]
    BY DEF TypeOK, Types
  <1>a. apps[n] \in App
    BY <1>0
  <1>1. CASE n # m
    <2>1. apps'[n] = apps[n]
      BY <1>0, <1>1 DEF StateChanges
    <2> QED
      BY <2>1 DEF AppKept, AppStays
  <1>2. CASE n = m
    <2>1. PICK s \in RawState : apps' = [apps EXCEPT ![m].state = s]
      BY DEF StateChanges
    <2>2. apps'[n] = [apps[n] EXCEPT !.state = s]
      BY <1>0, <1>2, <2>1
    <2>3. [apps[n] EXCEPT !.state = s] \in App
      BY <1>a DEF App
    <2>4. /\ apps'[n].made = apps[n].made
          /\ apps'[n].controller = apps[n].controller
          /\ apps'[n].pool = apps[n].pool
          /\ apps'[n].profile = apps[n].profile
      BY <1>a, <2>2 DEF App
    <2> QED
      BY <2>2, <2>3, <2>4, NoneAssumption DEF AppKept, AppStays, Owner, PoolOf
  <1> QED
    BY <1>1, <1>2

LEMMA EditStays ==
  ASSUME TypeOK, NEW n \in Name, NEW m \in Name, apps[n] # None,
         OperatorEdits(m)
  PROVE  AppStays(n) /\ (n # m => apps'[n] = apps[n])
  <1>0. apps \in [Name -> App \cup {None}]
    BY DEF TypeOK, Types
  <1>a. apps[n] \in App
    BY <1>0
  <1>1. CASE n # m
    <2>1. apps'[n] = apps[n]
      BY <1>0, <1>1 DEF OperatorEdits
    <2> QED
      BY <1>1, <2>1 DEF AppStays
  <1>2. CASE n = m
    <2>1. PICK f \in Profile, pool \in Pool \cup {AnyPool} :
             apps'[n] \in {[apps[n] EXCEPT !.profile = f],
                           [apps[n] EXCEPT !.pool = pool]}
      BY <1>0, <1>2 DEF OperatorEdits, Profile
    <2>2. apps'[n] \in App /\ apps'[n].made = apps[n].made
      BY <1>a, <2>1 DEF App
    <2> QED
      BY <1>2, <2>2, NoneAssumption DEF AppStays
  <1> QED
    BY <1>1, <1>2

\* Where an app of the next state comes from.
LEMMA AppOrigin ==
  ASSUME TypeOK, [Next]_vars, NEW n \in Name, apps'[n] # None
  PROVE  \/ AppStays(n)
         \/ \E q \in Proc : MadeBy(q, n)
         \/ apps'[n] = TenantApp
  <1>0. apps \in [Name -> App \cup {None}]
    BY DEF TypeOK, Types
  <1>1. CASE apps'[n] = apps[n]
    BY <1>1 DEF AppStays
  <1>2. ASSUME NEW p \in Proc, CreateApp(p)
        PROVE  apps'[n] = apps[n] \/ MadeBy(p, n)
    BY <1>0, <1>2 DEF CreateApp, MadeBy
  <1>3. ASSUME NEW p \in Proc, DeleteApp(p) \/ RemoveApp(p)
        PROVE  apps'[n] = apps[n]
    BY <1>0, <1>3 DEF DeleteApp, RemoveApp, Destroy
  <1>4. ASSUME NEW m \in Name, OperatorDeletes(m) PROVE apps'[n] = apps[n]
    BY <1>0, <1>4 DEF OperatorDeletes
  <1>5. ASSUME NEW m \in Name, TenantCreates(m)
        PROVE  apps'[n] = apps[n] \/ apps'[n] = TenantApp
    BY <1>0, <1>5 DEF TenantCreates
  <1>6. ASSUME NEW m \in Name, StateChanges(m) \/ OperatorEdits(m)
        PROVE  AppStays(n)
    <2>1. apps'[n] = None <=> apps[n] = None
      BY <1>0, <1>6, NoneAssumption DEF StateChanges, OperatorEdits
    <2> QED
      BY <1>6, <2>1, StateKeeps, EditStays
  <1>7. ASSUME NEW p \in Proc, Garm(p) PROVE apps'[n] = apps[n]
    BY <1>7, GarmInvokes DEF Invoke, InvokeInvalidCreate
  <1>8. ASSUME NEW p \in Proc, Provider(p) \/ FailCall(p)
        PROVE  apps'[n] = apps[n] \/ MadeBy(p, n)
    <2>1. CASE CreateApp(p) \/ DeleteApp(p) \/ RemoveApp(p)
      BY <1>2, <1>3, <2>1
    <2>2. CASE ~(CreateApp(p) \/ DeleteApp(p) \/ RemoveApp(p))
      BY <1>8, <2>2 DEF Provider, CreateLooksUp, CreateConfirms, Get, Stop,
         Start, DeleteChecks, ListApps, FetchApp, FailCall
    <2> QED
      BY <2>1, <2>2
  <1>9. CASE UNCHANGED vars
    BY <1>1, <1>9 DEF vars
  <1> QED
    BY <1>1, <1>4, <1>5, <1>6, <1>7, <1>8, <1>9 DEF Next, Host

LEMMA TouchKeeps ==
  ASSUME TypeOK, NEW q \in Proc, NEW n \in Name, NEW N, Touch(N),
         n \in stable'[q], apps[n] # None,
         apps'[n] = apps[n] \/ n \in N
  PROVE  n \in stable[q] /\ AppKept(n)
  <1>1. n \in stable[q] /\ n \notin N
    BY DEF Touch
  <1> QED
    BY <1>1 DEF AppKept

\* An app that still counts as untouched did so before and has been kept.
LEMMA StableKept ==
  ASSUME TypeOK, [Next]_vars, NEW q \in Proc, NEW n \in Name,
         pc[q] # "idle", n \in stable'[q],
         n \in stable[q] => apps[n] # None
  PROVE  n \in stable[q] /\ AppKept(n)
  <1>0. /\ apps \in [Name -> App \cup {None}] /\ stable \in [Proc -> SUBSET Name]
        /\ todo \in [Proc -> SUBSET Name]
    BY DEF TypeOK, Types
  <1>a. ASSUME NEW N, Touch(N), apps'[n] = apps[n] \/ n \in N
        PROVE  n \in stable[q] /\ AppKept(n)
    <2>1. n \in stable[q]
      BY <1>a DEF Touch
    <2> QED
      BY <1>a, <2>1, TouchKeeps
  <1>1. CASE UNCHANGED apps /\ stable'[q] = stable[q]
    BY <1>1 DEF AppKept
  <1>2. ASSUME NEW p \in Proc, CreateApp(p) PROVE n \in stable[q] /\ AppKept(n)
    <2>1. \/ Touch({}) /\ UNCHANGED apps
          \/ Touch({req[p].name}) /\ \E a : apps' = [apps EXCEPT ![req[p].name] = a]
      BY <1>2 DEF CreateApp
    <2> QED
      BY <1>0, <1>a, <2>1
  <1>3. ASSUME NEW p \in Proc, DeleteApp(p) \/ RemoveApp(p)
        PROVE  n \in stable[q] /\ AppKept(n)
    <2>1. PICK m : Destroy(m)
      BY <1>3 DEF DeleteApp, RemoveApp
    <2> QED
      BY <1>0, <1>a, <2>1 DEF Destroy
  <1>4. ASSUME NEW m \in Name, StateChanges(m)
        PROVE  n \in stable[q] /\ AppKept(n)
    <2>1. n \in stable[q]
      BY <1>4 DEF StateChanges
    <2> QED
      BY <1>4, <2>1, StateKeeps
  <1>5. ASSUME NEW m \in Name, OperatorEdits(m)
        PROVE  n \in stable[q] /\ AppKept(n)
    <2>1. Touch({m})
      BY <1>5 DEF OperatorEdits
    <2>2. n \in stable[q] /\ n # m
      BY <2>1 DEF Touch
    <2>3. apps'[n] = apps[n]
      BY <1>5, <2>2, EditStays
    <2> QED
      BY <1>a, <2>1, <2>3
  <1>6. ASSUME NEW m \in Name, OperatorDeletes(m) \/ TenantCreates(m)
        PROVE  n \in stable[q] /\ AppKept(n)
    <2>1. Touch({m}) /\ \E a : apps' = [apps EXCEPT ![m] = a]
      BY <1>6 DEF OperatorDeletes, TenantCreates
    <2> QED
      BY <1>0, <1>a, <2>1
  <1>7. ASSUME NEW p \in Proc, Garm(p) PROVE n \in stable[q] /\ AppKept(n)
    <2>1. CASE InvokeInvalidCreate(p)
      BY <1>a, <2>1 DEF InvokeInvalidCreate
    <2>2. ASSUME NEW cmd, Invoke(p, cmd)
          PROVE  UNCHANGED apps /\ stable'[q] = stable[q]
      BY <1>0, <2>2 DEF Invoke
    <2> QED
      BY <1>1, <1>7, <2>1, <2>2, GarmInvokes
  <1>8. ASSUME NEW p \in Proc, Provider(p) \/ FailCall(p)
        PROVE  n \in stable[q] /\ AppKept(n)
    <2>1. CASE CreateApp(p) \/ DeleteApp(p) \/ RemoveApp(p)
      BY <1>2, <1>3, <2>1
    <2>2. CASE ~(CreateApp(p) \/ DeleteApp(p) \/ RemoveApp(p))
      <3>1. UNCHANGED apps /\ Touch({})
        BY <1>8, <2>2 DEF Provider, CreateLooksUp, CreateConfirms, Get, Stop,
           Start, DeleteChecks, ListApps, FetchApp, FailCall
      <3> QED
        BY <1>a, <3>1
    <2> QED
      BY <2>1, <2>2
  <1>9. CASE UNCHANGED vars
    BY <1>1, <1>9 DEF vars
  <1> QED
    BY <1>4, <1>5, <1>6, <1>7, <1>8, <1>9 DEF Next, Host

\* A process with a command moves by its own next call, or the call fails.
LEMMA MovesItself ==
  ASSUME TypeOK, [Next]_vars, NEW p \in Proc, pc[p] # "idle"
  PROVE  Still(p) \/ Provider(p) \/ FailCall(p)
  <1>1. ASSUME Garm(p) PROVE FALSE
    BY <1>1, GarmInvokes DEF Invoke, InvokeInvalidCreate
  <1> QED
    BY <1>1, HostStill, OthersStill DEF Next

LEMMA ReturnReply ==
  ASSUME TypeOK, NEW p \in Proc, NEW err, NEW names, Return(p, err, names)
  PROVE  /\ pc'[p] = "idle"
         /\ reply'[p].code = normalizeProviderError(err)
         /\ reply'[p].names = names
         /\ reply'[p].code = "ok" <=> err = "ok"
  <1>1. pc'[p] = "idle" /\ reply'[p].code = normalizeProviderError(err)
        /\ reply'[p].names = names
    BY DEF Return, TypeOK, Types
  <1>2. normalizeProviderError(err) = "ok" <=> err = "ok"
    BY DEF normalizeProviderError
  <1> QED
    BY <1>1, <1>2
-----------------------------------------------------------------------------
(* The numbers of the commands and the marks they leave on the apps.       *)

\* The commands of a step: one begins, under the next number, or every
\* process that has a command has had it before.
LEMMA CommandOrigin ==
  ASSUME TypeOK, [Next]_vars
  PROVE  /\ calls' = calls \/ calls' = calls + 1
         /\ \/ \E p \in Proc : \E cmd : Invoke(p, cmd)
            \/ \A q \in Proc : \/ pc'[q] = "idle"
                               \/ pc[q] # "idle" /\ req'[q] = req[q]
  <1> DEFINE Kept(q) == pc'[q] = "idle" \/ (pc[q] # "idle" /\ req'[q] = req[q])
  <1>1. CASE Host \/ UNCHANGED vars
    <2>1. UNCHANGED calls
      BY <1>1 DEF Host, StateChanges, OperatorEdits, OperatorDeletes,
         TenantCreates, vars
    <2>2. \A q \in Proc : Kept(q)
      BY <1>1, HostStill DEF Still, TypeOK
    <2> QED
      BY <2>1, <2>2
  <1>2. ASSUME NEW p \in Proc, NEW cmd, Invoke(p, cmd)
        PROVE  calls' = calls + 1
    BY <1>2 DEF Invoke
  <1>3. ASSUME NEW p \in Proc,
               Provider(p) \/ FailCall(p) \/ InvokeInvalidCreate(p)
        PROVE  /\ calls' = calls \/ calls' = calls + 1
               /\ \A q \in Proc : Kept(q)
    <2>1. ASSUME NEW q \in Proc, q # p PROVE Kept(q)
      <3>1. Still(q)
        BY <1>3, <2>1, OthersStill, InvalidIsGarm
      <3>2. pc'[q] = "idle" \/ pc[q] # "idle"
        BY <3>1 DEF Still
      <3> QED
        BY <3>1, <3>2 DEF Still
    <2>2. Kept(p)
      BY <1>3, CommandStays
    <2>3. calls' = calls \/ calls' = calls + 1
      BY <1>3 DEF Provider, CreateLooksUp, CreateApp, CreateConfirms, Get,
         Stop, Start, DeleteChecks, DeleteApp, ListApps, FetchApp, RemoveApp,
         FailCall, InvokeInvalidCreate
    <2> QED
      BY <2>1, <2>2, <2>3
  <1> QED
    BY <1>1, <1>2, <1>3, GarmInvokes DEF Next

LEMMA NumberedStep ==
  ASSUME TypeOK, Numbered, [Next]_vars PROVE Numbered'
  <1>0. calls \in Nat /\ calls' \in Nat /\ calls <= calls'
    BY CommandOrigin DEF TypeOK, Types
  <1>1. ASSUME NEW n \in Name, apps'[n] # None PROVE apps'[n].made <= calls'
    <2>1. CASE AppStays(n)
      <3>1. apps[n].made <= calls /\ apps[n].made \in Nat
        BY <2>1 DEF AppStays, Numbered, TypeOK, Types, App
      <3> QED
        BY <1>0, <2>1, <3>1 DEF AppStays
    <2>2. ASSUME NEW q \in Proc, MadeBy(q, n) PROVE apps'[n].made <= calls'
      <3>1. pc[q] # "idle" /\ apps'[n].made = req[q].id
        BY <2>2 DEF MadeBy, CreateApp, NewApp
      <3>2. req[q].id \in 1..calls
        BY <3>1 DEF Numbered
      <3> QED
        BY <1>0, <3>1, <3>2
    <2>3. CASE apps'[n] = TenantApp
      BY <1>0, <2>3 DEF TenantApp
    <2> QED
      BY <1>1, <2>1, <2>2, <2>3, AppOrigin
  <1>2. ASSUME \A q \in Proc : \/ pc'[q] = "idle"
                               \/ pc[q] # "idle" /\ req'[q] = req[q]
        PROVE  /\ \A p \in Proc : pc'[p] # "idle" => req'[p].id \in 1..calls'
               /\ \A p, q \in Proc :
                    pc'[p] # "idle" /\ pc'[q] # "idle" /\ p # q
                    => req'[p].id # req'[q].id
    <2>1. ASSUME NEW p \in Proc, pc'[p] # "idle"
          PROVE  req'[p].id \in 1..calls'
      <3>1. req[p].id \in 1..calls /\ req'[p] = req[p]
        BY <1>2, <2>1 DEF Numbered
      <3> QED
        BY <1>0, <3>1
    <2> QED
      BY <1>2, <2>1 DEF Numbered
  <1>3. ASSUME NEW p \in Proc, NEW cmd, Invoke(p, cmd)
        PROVE  /\ \A q \in Proc : pc'[q] # "idle" => req'[q].id \in 1..calls'
               /\ \A q, s \in Proc :
                    pc'[q] # "idle" /\ pc'[s] # "idle" /\ q # s
                    => req'[q].id # req'[s].id
    <2>1. /\ req' = [req EXCEPT ![p] = cmd]
          /\ pc' = [pc EXCEPT ![p] = FirstCall(cmd.op)]
          /\ cmd.id = calls + 1 /\ calls' = calls + 1
      BY <1>3 DEF Invoke
    <2>2. ASSUME NEW q \in Proc, pc'[q] # "idle", q # p
          PROVE  req'[q] = req[q] /\ req[q].id \in 1..calls /\ pc[q] # "idle"
      BY <2>1, <2>2 DEF Numbered, TypeOK, Types
    <2>3. req'[p].id = calls + 1
      BY <2>1 DEF TypeOK, Types
    <2>4. \A q \in Proc : pc'[q] # "idle" => req'[q].id \in 1..calls'
      BY <1>0, <2>1, <2>2, <2>3
    <2>5. ASSUME NEW q \in Proc, NEW s \in Proc,
                 pc'[q] # "idle", pc'[s] # "idle", q # s
          PROVE  req'[q].id # req'[s].id
      <3>1. CASE q = p
        BY <1>0, <2>2, <2>3, <2>5, <3>1
      <3>2. CASE s = p
        BY <1>0, <2>2, <2>3, <2>5, <3>2
      <3>3. CASE q # p /\ s # p
        BY <2>2, <2>5, <3>3 DEF Numbered
      <3> QED
        BY <3>1, <3>2, <3>3
    <2> QED
      BY <2>4, <2>5
  <1> QED
    BY <1>1, <1>2, <1>3, CommandOrigin DEF Numbered

\* After its app.create a Create only confirms.
LEMMA ConfirmEnds ==
  ASSUME TypeOK, [Next]_vars, NEW p \in Proc, pc[p] = "confirm"
  PROVE  /\ Still(p) \/ CreateConfirms(p) \/ FailCall(p)
         /\ pc'[p] \in {"confirm", "idle"}
  <1>1. Still(p) \/ CreateConfirms(p) \/ FailCall(p)
    BY MovesItself DEF Provider, CreateLooksUp, CreateApp, Get, Stop, Start,
       DeleteChecks, DeleteApp, ListApps, FetchApp, RemoveApp
  <1>2. CreateConfirms(p) \/ FailCall(p) => pc'[p] = "idle"
    BY ReturnReply DEF CreateConfirms, FailCall
  <1> QED
    BY <1>1, <1>2 DEF Still

LEMMA MarkedStep ==
  ASSUME TypeOK, Numbered, [Next]_vars, NEW p \in Proc, Marked(p)
  PROVE  Marked(p)'
  <1> SUFFICES ASSUME pc'[p] # "idle", req'[p].op = "Create",
                      NEW n \in Name, apps'[n] # None,
                      apps'[n].made = req'[p].id
               PROVE  OwnMade(p, n)'
    BY DEF Marked
  <1>0. calls \in Nat
    BY DEF TypeOK, Types
  <1>1. ASSUME NEW s \in Proc, NEW cmd, Invoke(s, cmd), s = p PROVE FALSE
    <2>1. UNCHANGED apps /\ req'[p].id = calls + 1
      BY <1>1 DEF Invoke, TypeOK, Types
    <2>2. apps[n].made <= calls
      BY <2>1 DEF Numbered
    <2> QED
      BY <1>0, <2>1, <2>2
  <1>2. pc[p] # "idle" /\ req'[p] = req[p]
    <2>1. ASSUME NEW s \in Proc, NEW cmd, Invoke(s, cmd)
          PROVE  pc[p] # "idle" /\ req'[p] = req[p]
      <3>1. s # p
        BY <1>1, <2>1
      <3> QED
        BY <2>1, <3>1 DEF Invoke, TypeOK, Types
    <2> QED
      BY <2>1, CommandOrigin
  <1>3. req[p].id \in 1..calls
    BY <1>2 DEF Numbered
  <1>4. CASE AppStays(n)
    <2>1. OwnMade(p, n)
      BY <1>2, <1>4 DEF Marked, AppStays
    <2>2. pc'[p] = "confirm"
      BY <2>1, ConfirmEnds DEF OwnMade
    <2> QED
      BY <1>2, <1>4, <2>1, <2>2 DEF OwnMade, AppStays
  <1>5. ASSUME NEW q \in Proc, MadeBy(q, n) PROVE OwnMade(p, n)'
    <2>1. pc[q] = "create" /\ apps'[n].made = req[q].id /\ n = req[q].name
      BY <1>5 DEF MadeBy, CreateApp, NewApp
    <2>2. q = p
      BY <1>2, <2>1 DEF Numbered
    <2>3. pc'[p] = "confirm"
      <3>1. Goto(p, "confirm") \/ \E err, names : Return(p, err, names)
        BY <1>5, <2>2 DEF MadeBy, CreateApp
      <3> QED
        BY <3>1, ReturnReply DEF Goto, TypeOK, Types
    <2> QED
      BY <1>2, <1>5, <2>1, <2>2, <2>3 DEF OwnMade, MadeBy
  <1>6. CASE apps'[n] = TenantApp
    BY <1>2, <1>3, <1>6 DEF TenantApp
  <1> QED
    BY <1>4, <1>5, <1>6, AppOrigin
-----------------------------------------------------------------------------
(* What a process has gathered about the apps no one has touched.          *)

\* A controller's apps pass the filter on names.
LEMMA OwnIsPlausible ==
  ASSUME Placed, NEW n \in Name, NEW c \in Controller,
         apps[n] # None, Owner(apps[n]) = c
  PROVE  n \in Plausible
  <1>1. n \in NameOwner(c)
    BY ConfigAssumption DEF Placed, Owner
  <1>2. PICK r \in Runner : n = OwnedName[<<c, r>>]
    BY <1>1 DEF NameOwner
  <1> QED
    BY <1>2, NamesAssumption

\* An app that can be fetched is decoded unless it is foreign.
LEMMA FetchedApp ==
  ASSUME TypeOK, NEW n \in Name, NEW c \in Controller,
         apps[n] # None, GetApp(n, c) \notin {"error", "ErrManagedDrift"}
  PROVE  GetApp(n, c) = "ok" \/ Owner(apps[n]) # c
  <1>1. GetApp(n, c) = "ok" \/ apps[n].profile = "unmanaged"
    BY DEF GetApp, decodeApp
  <1> QED
    BY <1>1, ConfigAssumption DEF Owner

\* The listing after one more app has been fetched, and what is known then.
Gain(p) ==
    out[p] \cup (IF GetApp(Min(todo[p]), req[p].controller) = "ok"
                 THEN {decoded(Min(todo[p]))} ELSE {})
SeenMore(p, n) ==
    /\ \A a \in Gain(p) : a.name = n => /\ a.controller = Owner(apps[n])
                                       /\ a.pool = PoolOf(apps[n])
    /\ Owner(apps[n]) = req[p].controller =>
          n \in Remaining(todo[p]) \/ \E a \in Gain(p) : a.name = n

LEMMA FetchedMore ==
  ASSUME TypeOK, NEW p \in Proc, Gathered(p), pc[p] = "fetch",
         GetApp(Min(todo[p]), req[p].controller)
            \notin {"error", "ErrManagedDrift"},
         NEW n \in stable[p]
  PROVE  SeenMore(p, n)
  <1> DEFINE m == Min(todo[p])
             c == req[p].controller
  <1>1. /\ todo[p] # {} /\ todo[p] \in SUBSET Name /\ c \in Controller
        /\ n \in Name /\ apps[n] # None /\ Seen(p, n)
    BY DEF TypeOK, Types, Dispatched, Request, Gathered
  <1>2. m \in Name
    BY <1>1, MinIn, NamesAssumption
  <1>3. ASSUME NEW a \in Gain(p), a.name = n
        PROVE  a.controller = Owner(apps[n]) /\ a.pool = PoolOf(apps[n])
    <2>1. CASE a \in out[p]
      BY <1>1, <1>3, <2>1 DEF Seen
    <2>2. CASE a = decoded(m)
      BY <1>3, <2>2 DEF decoded
    <2> QED
      BY <1>3, <2>1, <2>2 DEF Gain
  <1>4. ASSUME Owner(apps[n]) = c
        PROVE  n \in Remaining(todo[p]) \/ \E a \in Gain(p) : a.name = n
    <2>1. CASE n = m
      <3>1. GetApp(m, c) = "ok"
        BY <1>1, <1>4, <2>1, FetchedApp
      <3>2. decoded(m) \in Gain(p) /\ decoded(m).name = n
        BY <2>1, <3>1 DEF decoded, Gain
      <3> QED
        BY <3>2
    <2>2. CASE n # m
      BY <1>1, <1>4, <2>2 DEF Seen, Remaining, Gain
    <2> QED
      BY <2>1, <2>2
  <1> QED
    BY <1>3, <1>4 DEF SeenMore

\* A full listing that goes into a removal.
LEMMA ListedGathered ==
  ASSUME TypeOK, [Next]_vars, NEW p \in Proc, NEW L, Gathered(p),
         pc[p] \in {"list", "fetch"}, Listed(p, req[p], L),
         \A n \in stable[p] : Owner(apps[n]) = req[p].controller =>
            \E a \in L : a.name = n /\ a.controller = req[p].controller
  PROVE  Gathered(p)'
  <1>1. CASE pc'[p] = "idle"
    BY <1>1 DEF Gathered
  <1>2. CASE pc'[p] # "idle"
    <2>1. /\ pc' = [pc EXCEPT ![p] = "remove"]
          /\ todo' = [todo EXCEPT ![p] = Victims(req[p], L)]
          /\ out' = [out EXCEPT ![p] = L]
          /\ UNCHANGED req
      <3>1. ~\E err, names : Return(p, err, names)
        BY <1>2, ReturnReply
      <3> QED
        BY <3>1 DEF Listed
    <2>2. /\ pc'[p] = "remove" /\ todo'[p] = Victims(req[p], L)
          /\ out'[p] = L /\ req'[p] = req[p]
      BY <2>1 DEF TypeOK, Types
    <2>3. stable'[p] \in SUBSET Name
      BY TypeStep DEF TypeOK, Types
    <2>4. ASSUME NEW n \in stable'[p] PROVE AppKept(n) /\ Counted(p, n)'
      <3>1. n \in Name
        BY <2>3
      <3>2. n \in stable[p] => apps[n] # None
        BY DEF Gathered
      <3>3. n \in stable[p] /\ AppKept(n)
        BY <2>4, <3>1, <3>2, StableKept
      <3>4. ASSUME Owner(apps'[n]) = req'[p].controller
            PROVE  \/ n \in todo'[p]
                   \/ \E a \in out'[p] : /\ a.name = n /\ isActive(a.state)
                                         /\ a.controller = req'[p].controller
        <4>1. PICK a \in L : a.name = n /\ a.controller = req[p].controller
          BY <2>2, <3>3, <3>4 DEF AppKept
        <4>2. CASE isActive(a.state)
          BY <2>2, <4>1, <4>2
        <4>3. CASE ~isActive(a.state)
          BY <2>2, <4>1, <4>3 DEF Victims
        <4> QED
          BY <4>2, <4>3
      <3> QED
        BY <3>3, <3>4 DEF Counted
    <2> QED
      BY <2>2, <2>4 DEF Gathered, AppKept
  <1> QED
    BY <1>1, <1>2
LEMMA StillThere ==
  ASSUME TypeOK, [Next]_vars, NEW p \in Proc, Gathered(p), pc[p] # "idle",
         NEW n \in stable'[p]
  PROVE  n \in Name /\ n \in stable[p] /\ AppKept(n)
  <1>1. n \in Name
    BY TypeStep DEF TypeOK, Types
  <1>2. n \in stable[p] => apps[n] # None
    BY DEF Gathered
  <1> QED
    BY <1>1, <1>2, StableKept

LEMMA GatheredBystander ==
  ASSUME TypeOK, [Next]_vars, NEW q \in Proc, Gathered(q), Still(q)
  PROVE  Gathered(q)'
  <1>1. CASE pc[q] = "idle"
    BY <1>1 DEF Gathered, Still
  <1>2. CASE pc[q] # "idle"
    <2>1. ASSUME NEW n \in stable'[q]
          PROVE  /\ apps'[n] # None
                 /\ pc'[q] = "fetch" => Seen(q, n)'
                 /\ pc'[q] = "remove" => Counted(q, n)'
      <3>1. n \in stable[q] /\ AppKept(n)
        BY <1>2, <2>1, StillThere
      <3>2. /\ pc[q] = "fetch" => Seen(q, n)
            /\ pc[q] = "remove" => Counted(q, n)
        BY <1>2, <3>1 DEF Gathered
      <3>3. pc'[q] = "fetch" => Seen(q, n)'
        BY <3>1, <3>2 DEF Seen, AppKept, Still
      <3>4. pc'[q] = "remove" => Counted(q, n)'
        BY <3>1, <3>2 DEF Counted, AppKept, Still
      <3> QED
        BY <3>1, <3>3, <3>4 DEF AppKept
    <2> QED
      BY <2>1 DEF Gathered
  <1> QED
    BY <1>1, <1>2

LEMMA GatheredMover ==
  ASSUME TypeOK, Ownership, [Next]_vars, NEW p \in Proc, Gathered(p),
         Garm(p) \/ Provider(p) \/ FailCall(p)
  PROVE  Gathered(p)'
  <1> DEFINE r == req[p]
  <1>1. CASE \E err, names : Return(p, err, names)
    BY <1>1, ReturnReply DEF Gathered
  <1>2. ASSUME pc[p] # "idle", pc'[p] \notin {"fetch", "remove"}
        PROVE  Gathered(p)'
    BY <1>2, StillThere DEF Gathered, AppKept
  <1>3. ASSUME NEW cmd, Invoke(p, cmd) PROVE Gathered(p)'
    <2>1. /\ pc'[p] \in {"get", "list", "start"} /\ stable'[p] = Present
          /\ apps' = apps
      BY <1>3 DEF Invoke, FirstCall, TypeOK, Types
    <2> QED
      BY <2>1 DEF Gathered, Present
  <1>4. CASE CreateLooksUp(p) \/ CreateApp(p) \/ DeleteChecks(p)
    <2>1. /\ pc[p] # "idle"
          /\ \/ \E next \in {"create", "confirm", "delete"} : Goto(p, next)
             \/ \E err, names : Return(p, err, names)
      BY <1>4 DEF CreateLooksUp, CreateApp, DeleteChecks
    <2>2. ASSUME NEW next \in {"create", "confirm", "delete"}, Goto(p, next)
          PROVE  pc'[p] \notin {"fetch", "remove"}
      BY <2>2 DEF Goto, TypeOK, Types
    <2> QED
      BY <1>1, <1>2, <2>1, <2>2
  <1>5. CASE CreateConfirms(p) \/ Get(p) \/ Stop(p) \/ Start(p) \/ FailCall(p)
             \/ DeleteApp(p) \/ InvokeInvalidCreate(p)
    <2>1. \E err, names : Return(p, err, names)
      BY <1>5 DEF CreateConfirms, Get, Stop, Start, FailCall, DeleteApp,
         InvokeInvalidCreate
    <2> QED
      BY <1>1, <2>1
  <1>6. CASE ListApps(p)
    <2>1. /\ pc[p] = "list" /\ out[p] = {}
          /\ req[p] \in Request /\ req[p].controller \in Controller
      BY <1>6 DEF ListApps, TypeOK, Dispatched, Ownership, OwnTargets, Request
    <2>2. ASSUME NEW n \in stable[p], n \in Name, apps[n] # None,
                 Owner(apps[n]) = req[p].controller
          PROVE  n \in Present \cap Plausible
      BY <2>1, <2>2, OwnIsPlausible DEF Ownership, Present
    <2>3. CASE Present \cap Plausible = {}
      <3>1. Listed(p, req[p], {})
        BY <1>6, <2>3 DEF ListApps
      <3>2. stable[p] \in SUBSET Name
        BY DEF TypeOK, Types
      <3>3. \A n \in stable[p] : Owner(apps[n]) # req[p].controller
        BY <2>1, <2>2, <2>3, <3>2 DEF Gathered
      <3> QED
        BY <2>1, <3>1, <3>3, ListedGathered
    <2>4. CASE Present \cap Plausible # {}
      <3>1. /\ pc'[p] = "fetch" /\ todo'[p] = Present \cap Plausible
            /\ req'[p] = req[p] /\ out'[p] = {}
        BY <1>6, <2>1, <2>4 DEF ListApps, TypeOK, Types
      <3>2. ASSUME NEW n \in stable'[p] PROVE apps'[n] # None /\ Seen(p, n)'
        <4>1. n \in Name /\ n \in stable[p] /\ AppKept(n)
          BY <2>1, <3>2, StillThere
        <4> QED
          BY <2>2, <3>1, <4>1 DEF AppKept, Seen
      <3> QED
        BY <3>1, <3>2 DEF Gathered
    <2> QED
      BY <2>3, <2>4
  <1>7. CASE FetchApp(p)
    <2> DEFINE err == GetApp(Min(todo[p]), r.controller)
               T == Remaining(todo[p])
    <2>1. pc[p] = "fetch"
      BY <1>7 DEF FetchApp
    <2>2. CASE err \in {"error", "ErrManagedDrift"}
      <3>1. Return(p, err, {})
        BY <1>7, <2>2 DEF FetchApp
      <3> QED
        BY <1>1, <3>1
    <2>3. CASE err \notin {"error", "ErrManagedDrift"} /\ T = {}
      <3>1. Listed(p, req[p], Gain(p))
        BY <1>7, <2>3 DEF FetchApp, Gain
      <3>2. ASSUME NEW n \in stable[p], Owner(apps[n]) = req[p].controller
            PROVE  \E a \in Gain(p) : a.name = n /\ a.controller = req[p].controller
        <4>1. SeenMore(p, n)
          BY <2>1, <2>3, <3>2, FetchedMore
        <4> QED
          BY <2>3, <3>2, <4>1 DEF SeenMore
      <3> QED
        BY <2>1, <3>1, <3>2, ListedGathered
    <2>4. CASE err \notin {"error", "ErrManagedDrift"} /\ T # {}
      <3>1. /\ pc'[p] = "fetch" /\ req'[p] = req[p]
            /\ out'[p] = Gain(p) /\ todo'[p] = T
        BY <1>7, <2>1, <2>4 DEF FetchApp, Gain, TypeOK, Types
      <3>2. ASSUME NEW n \in stable'[p] PROVE apps'[n] # None /\ Seen(p, n)'
        <4>1. n \in stable[p] /\ AppKept(n)
          BY <2>1, <3>2, StillThere
        <4>2. SeenMore(p, n)
          BY <2>1, <2>4, <4>1, FetchedMore
        <4> QED
          BY <3>1, <4>1, <4>2 DEF AppKept, Seen, SeenMore
      <3> QED
        BY <3>1, <3>2 DEF Gathered
    <2> QED
      BY <2>2, <2>3, <2>4
  <1>8. CASE RemoveApp(p)
    <2> DEFINE m == Min(todo[p])
    <2>1. /\ pc[p] = "remove" /\ Touch({m})
          /\ \/ \E err, names : Return(p, err, names)
             \/ /\ todo' = [todo EXCEPT ![p] = Remaining(todo[p])]
                /\ UNCHANGED <<pc, req, out, reply>>
      BY <1>8 DEF RemoveApp, Destroy
    <2>2. ASSUME todo' = [todo EXCEPT ![p] = Remaining(todo[p])],
                 UNCHANGED <<pc, req, out, reply>>
          PROVE  Gathered(p)'
      <3>1. todo'[p] = todo[p] \ {m} /\ pc'[p] = "remove"
        BY <2>1, <2>2 DEF Remaining, TypeOK, Types
      <3>2. ASSUME NEW n \in stable'[p] PROVE apps'[n] # None /\ Counted(p, n)'
        <4>1. n \in stable[p] /\ AppKept(n)
          BY <2>1, <3>2, StillThere
        <4>2. n # m
          BY <2>1, <3>2 DEF Touch
        <4>3. Counted(p, n)
          BY <2>1, <4>1 DEF Gathered
        <4> QED
          BY <2>2, <3>1, <4>1, <4>2, <4>3 DEF AppKept, Counted
      <3> QED
        BY <3>1, <3>2 DEF Gathered
    <2> QED
      BY <1>1, <2>1, <2>2
  <1> QED
    BY <1>3, <1>4, <1>5, <1>6, <1>7, <1>8, GarmInvokes DEF Provider
LEMMA HistoryInit == Init => History
  <1> SUFFICES ASSUME Init PROVE History
    OBVIOUS
  <1>1. ASSUME NEW n \in Name, apps[n] # None
        PROVE  apps[n].made = 0
    <2>1. apps[n] \in EarlierApps(n)
      BY <1>1 DEF Init
    <2> QED
      BY <2>1 DEF EarlierApps, TenantApp
  <1>2. Numbered
    BY <1>1 DEF Init, Numbered
  <1> QED
    BY <1>2 DEF Init, History, Marked, Gathered

LEMMA HistoryStep ==
  TypeOK /\ Ownership /\ History /\ [Next]_vars => History'
  <1> SUFFICES ASSUME TypeOK, Ownership, History, [Next]_vars PROVE History'
    OBVIOUS
  <1>1. Numbered'
    BY NumberedStep DEF History
  <1>2. ASSUME NEW q \in Proc PROVE Marked(q)' /\ Gathered(q)'
    <2>1. Marked(q)'
      BY MarkedStep DEF History
    <2>2. CASE Still(q)
      BY <2>1, <2>2, GatheredBystander DEF History
    <2>3. CASE Garm(q) \/ Provider(q) \/ FailCall(q)
      BY <2>1, <2>3, GatheredMover DEF History
    <2>4. ASSUME NEW p \in Proc, p # q, Garm(p) \/ Provider(p) \/ FailCall(p)
          PROVE  Still(q)
      BY <2>4, OthersStill
    <2> QED
      BY <2>1, <2>2, <2>3, <2>4, HostStill DEF Next
  <1> QED
    BY <1>1, <1>2 DEF History

\* The inductive invariant behind the theorems about answers.
LEMMA HistoryHolds == Spec => [](TypeOK /\ Ownership /\ History)
  BY InitType, TypeStep, OwnershipInit, OwnershipStep, HistoryInit,
     HistoryStep, PTL DEF Spec
-----------------------------------------------------------------------------
(* The answers.                                                            *)

\* The step in which a process answers.
LEMMA Answering ==
  ASSUME TypeOK, [Next]_vars, NEW p \in Proc, Answers(p)
  PROVE  Provider(p) \/ FailCall(p)
  <1>1. ~Still(p)
    BY DEF Answers, Still
  <1> QED
    BY <1>1, MovesItself DEF Answers

LEMMA FailCallReply ==
  ASSUME TypeOK, NEW p \in Proc, FailCall(p) PROVE reply'[p].code = "error"
  BY ReturnReply DEF FailCall, normalizeProviderError

\* What a refused Create has made does not read as its own: the only call
\* that makes an app is followed by the read-back, whose refusals GARM takes
\* for a failure unless the app is gone or its labels name another owner.
THEOREM RefusalOwnsNothing == Spec => RefusedCreateOwnsNothing
  <1> DEFINE Disowned(p, n) ==
               /\ reply'[p].code = "Unauthorized"
               /\ \/ Owner(apps'[n]) # req[p].controller
                  \/ PoolOf(apps'[n]) # req[p].pool
             Act ==
        \A p \in Proc :
          /\ Answers(p) /\ req[p].op = "Create"
          /\ reply'[p].code \notin {"ok", "error"}
          => \A n \in Name :
                apps'[n] # None /\ apps'[n].made = req[p].id => Disowned(p, n)
  <1>1. ASSUME TypeOK, History, [Next]_vars, NEW p \in Proc,
               Answers(p), req[p].op = "Create",
               reply'[p].code \notin {"ok", "error"},
               NEW n \in Name, apps'[n] # None, apps'[n].made = req[p].id
        PROVE  Disowned(p, n)
    <2> DEFINE r == req[p]
               err == GetOwned(r.name, r.controller, r.pool)
    <2>1. CreateLooksUp(p) \/ CreateApp(p) \/ CreateConfirms(p) \/ Start(p)
      <3>1. pc[p] \notin {"delete", "list", "fetch", "remove"}
        BY <1>1 DEF TypeOK, Dispatched
      <3> QED
        BY <1>1, <3>1, Answering, FailCallReply DEF Provider, Get, Stop,
           DeleteChecks, DeleteApp, ListApps, FetchApp, RemoveApp
    <2>2. UNCHANGED apps
      <3>1. Return(p, "error", {}) => reply'[p].code = "error"
        BY <1>1, ReturnReply DEF normalizeProviderError
      <3>2. ~Goto(p, "confirm")
        BY <1>1 DEF Goto, Answers, TypeOK, Types
      <3> QED
        BY <1>1, <2>1, <3>1, <3>2 DEF CreateLooksUp, CreateApp, CreateConfirms,
           Start
    <2>3. OwnMade(p, n)
      BY <1>1, <2>2 DEF History, Marked, Answers
    <2>4. CreateConfirms(p)
      BY <2>1, <2>3 DEF CreateLooksUp, CreateApp, Start, OwnMade
    <2>5. reply'[p].code = normalizeProviderError(err)
      BY <1>1, <2>4, ReturnReply DEF CreateConfirms
    <2>6. err \in {"ok", "error", "ErrManagedDrift", "ErrForeign"}
      BY <1>1, <2>2, <2>3 DEF OwnMade, GetOwned, GetApp, decodeApp,
         verifyOwnership
    <2>7. err = "ErrForeign" /\ reply'[p].code = "Unauthorized"
      BY <1>1, <2>5, <2>6 DEF normalizeProviderError
    <2>8. CASE apps[n].profile = "unmanaged"
      <3>1. Owner(apps[n]) = NoController /\ r.controller \in Controller
        BY <1>1, <2>8 DEF Owner, Answers, TypeOK, Dispatched, Request
      <3> QED
        BY <2>2, <2>7, <3>1, ConfigAssumption
    <2>9. CASE apps[n].profile # "unmanaged"
      <3>1. verifyOwnership(apps[n], r.controller, r.pool) = "ErrForeign"
        BY <2>2, <2>3, <2>7, <2>9 DEF OwnMade, GetOwned, GetApp, decodeApp
      <3> QED
        BY <2>2, <2>7, <3>1 DEF verifyOwnership
    <2> QED
      BY <2>8, <2>9
  <1>2. TypeOK /\ History /\ [Next]_vars => Act
    BY <1>1
  <1>3. Spec => [][Act]_vars
    BY <1>2, HistoryHolds, PTL DEF Spec
  <1> QED
    BY <1>3 DEF RefusedCreateOwnsNothing

\* Listing L has the controller and pool of app n, and misses no own app.
Complete(p, n, L) ==
    /\ \A a \in L : a.name = n => /\ a.controller = Owner(apps[n])
                                  /\ a.pool = PoolOf(apps[n])
    /\ Owner(apps[n]) = req[p].controller => \E a \in L : a.name = n

LEMMA FullListing ==
  ASSUME TypeOK, Ownership, History, [Next]_vars, NEW p \in Proc,
         Answers(p), reply'[p].code = "ok", pc[p] \in {"list", "fetch"}
  PROVE  /\ UNCHANGED apps
         /\ \E L : /\ Listed(p, req[p], L)
                   /\ \A n \in stable[p] : Complete(p, n, L)
  <1>1. ListApps(p) \/ FetchApp(p)
    BY Answering, FailCallReply DEF Provider, CreateLooksUp, CreateApp,
       CreateConfirms, Get, Stop, Start, DeleteChecks, DeleteApp, RemoveApp
  <1>2. UNCHANGED apps
    BY <1>1 DEF ListApps, FetchApp
  <1>3. ASSUME NEW n \in stable[p] PROVE n \in Name /\ apps[n] # None
    BY <1>3 DEF TypeOK, Types, History, Gathered, Answers
  <1>4. CASE ListApps(p)
    <2>1. pc[p] = "list" /\ Present \cap Plausible = {}
      <3>1. pc' # [pc EXCEPT ![p] = "fetch"]
        BY DEF Answers, TypeOK, Types
      <3> QED
        BY <1>4, <3>1 DEF ListApps
    <2>2. Listed(p, req[p], {})
      BY <1>4, <2>1 DEF ListApps
    <2>3. req[p].controller \in Controller
      BY <2>1 DEF TypeOK, Dispatched, Request
    <2>4. ASSUME NEW n \in stable[p] PROVE Owner(apps[n]) # req[p].controller
      <3>1. n \in Name /\ apps[n] # None /\ n \notin Plausible
        BY <1>3, <2>1 DEF Present
      <3> QED
        BY <2>3, <3>1, OwnIsPlausible DEF Ownership
    <2>5. \A n \in stable[p] : Complete(p, n, {})
      BY <2>4 DEF Complete
    <2> QED
      BY <1>2, <2>2, <2>5
  <1>5. CASE FetchApp(p)
    <2> DEFINE err == GetApp(Min(todo[p]), req[p].controller)
    <2>1. err \notin {"error", "ErrManagedDrift"}
      <3>1. err \in {"error", "ErrManagedDrift"} => Return(p, err, {})
        BY <1>5 DEF FetchApp
      <3> QED
        BY <3>1, ReturnReply
    <2>2. Remaining(todo[p]) = {} /\ Listed(p, req[p], Gain(p))
      <3>1. pc' # pc
        BY DEF Answers
      <3> QED
        BY <1>5, <2>1, <3>1 DEF FetchApp, Gain
    <2>3. ASSUME NEW n \in stable[p] PROVE Complete(p, n, Gain(p))
      <3>1. SeenMore(p, n)
        BY <1>5, <2>1, FetchedMore DEF History, FetchApp
      <3> QED
        BY <2>2, <3>1 DEF SeenMore, Complete
    <2> QED
      BY <1>2, <2>2, <2>3
  <1> QED
    BY <1>1, <1>4, <1>5

\* A List that says ok has listed its controller's untouched apps, and
\* nothing else of what stood still.
THEOREM ListTellsAll == Spec => ListComplete
  <1> DEFINE Act ==
        \A p \in Proc :
          Answers(p) /\ req[p].op = "List" /\ reply'[p].code = "ok" =>
          \A n \in stable[p] :
             (n \in reply'[p].names) <=>
                /\ Owner(apps[n]) = req[p].controller
                /\ req[p].pool \in {AnyPool, PoolOf(apps[n])}
  <1>1. ASSUME TypeOK, Ownership, History, [Next]_vars, NEW p \in Proc,
               Answers(p), req[p].op = "List", reply'[p].code = "ok",
               NEW n \in stable[p]
        PROVE  (n \in reply'[p].names) <=>
                  /\ Owner(apps[n]) = req[p].controller
                  /\ req[p].pool \in {AnyPool, PoolOf(apps[n])}
    <2>1. pc[p] \in {"list", "fetch"}
      <3>1. pc[p] \notin {"idle", "create", "confirm", "delete", "remove"}
        BY <1>1 DEF TypeOK, Dispatched, Answers
      <3>2. ~Start(p)
        BY <1>1, ReturnReply DEF Start
      <3> QED
        BY <1>1, <3>1, <3>2, Answering, FailCallReply DEF Provider,
           CreateLooksUp, CreateApp, CreateConfirms, Get, Stop, DeleteChecks,
           DeleteApp, ListApps, FetchApp, RemoveApp
    <2>2. PICK L : /\ Listed(p, req[p], L)
                   /\ \A m \in stable[p] : Complete(p, m, L)
      BY <1>1, <2>1, FullListing
    <2>3. Complete(p, n, L)
      BY <2>2
    <2>4. Return(p, "ok", Selected(req[p], L))
      BY <1>1, <2>2 DEF Listed
    <2>5. reply'[p].names = Selected(req[p], L)
      BY <1>1, <2>4, ReturnReply
    <2>6. ASSUME n \in Selected(req[p], L)
          PROVE  /\ Owner(apps[n]) = req[p].controller
                 /\ req[p].pool \in {AnyPool, PoolOf(apps[n])}
      <3>1. PICK a \in L : /\ a.name = n /\ a.controller = req[p].controller
                           /\ req[p].pool \in {AnyPool, a.pool}
        BY <2>6 DEF Selected
      <3> QED
        BY <2>3, <3>1 DEF Complete
    <2>7. ASSUME Owner(apps[n]) = req[p].controller,
                 req[p].pool \in {AnyPool, PoolOf(apps[n])}
          PROVE  n \in Selected(req[p], L)
      <3>1. PICK a \in L : a.name = n
        BY <2>3, <2>7 DEF Complete
      <3>2. a.controller = req[p].controller /\ req[p].pool \in {AnyPool, a.pool}
        BY <2>3, <2>7, <3>1 DEF Complete
      <3> QED
        BY <3>1, <3>2 DEF Selected
    <2> QED
      BY <2>5, <2>6, <2>7
  <1>2. TypeOK /\ Ownership /\ History /\ [Next]_vars => Act
    BY <1>1
  <1>3. Spec => [][Act]_vars
    BY <1>2, HistoryHolds, PTL DEF Spec
  <1> QED
    BY <1>3 DEF ListComplete
\* The answer to Delete: an app the check did not find, or app.delete.
LEMMA DeleteAnswer ==
  ASSUME TypeOK, History, [Next]_vars, NEW p \in Proc,
         Answers(p), req[p].op = "Delete", reply'[p].code = "ok",
         req[p].name \in stable[p]
  PROVE  apps'[req[p].name] = None
  <1> DEFINE r == req[p]
             err == GetOwned(r.name, r.controller, AnyPool)
  <1>1. r.name \in Name /\ apps[r.name] # None
    BY DEF TypeOK, Types, History, Gathered, Answers
  <1>2. DeleteChecks(p) \/ DeleteApp(p)
    <2>1. pc[p] \notin {"create", "confirm", "list", "fetch", "remove"}
      BY DEF TypeOK, Dispatched
    <2>2. ~Start(p)
      BY ReturnReply DEF Start
    <2> QED
      BY <2>1, <2>2, Answering, FailCallReply DEF Provider, CreateLooksUp,
         CreateApp, CreateConfirms, Get, Stop, ListApps, FetchApp, RemoveApp
  <1>3. ~DeleteChecks(p)
    <2>1. err # "ErrNotFound"
      BY <1>1 DEF GetOwned, GetApp, decodeApp, verifyOwnership
    <2>2. ~Return(p, "ErrActive", {}) /\ ~Goto(p, "delete")
      BY ReturnReply DEF Goto, Answers, TypeOK, Types
    <2>3. err = "ok" \/ ~Return(p, err, {})
      BY ReturnReply
    <2> QED
      BY <2>1, <2>2, <2>3 DEF DeleteChecks
  <1>4. DeleteApp(p)
    BY <1>2, <1>3
  <1> QED
    BY <1>1, <1>4 DEF DeleteApp, Destroy, TypeOK, Types

\* The answer to RemoveAll: an app of its controller that stood still was
\* either active, and the answer is then not ok, or a victim.
LEMMA RemoveAllAnswer ==
  ASSUME TypeOK, Ownership, History, [Next]_vars, NEW p \in Proc,
         Answers(p), req[p].op = "RemoveAll", reply'[p].code = "ok",
         NEW n \in stable[p], apps'[n] # None
  PROVE  Owner(apps'[n]) # req[p].controller
  <1>1. n \in Name /\ apps[n] # None
    BY DEF TypeOK, Types, History, Gathered, Answers
  <1>2. ASSUME NEW L, Return(p, ActiveErr(req[p], L), {}),
               NEW a \in L, a.controller = req[p].controller
        PROVE  ~isActive(a.state)
    <2>1. ActiveErr(req[p], L) = "ok"
      BY <1>2, ReturnReply
    <2> QED
      BY <1>2, <2>1 DEF ActiveErr
  <1>3. CASE pc[p] \in {"list", "fetch"}
    <2>1. PICK L : /\ Listed(p, req[p], L)
                   /\ \A m \in stable[p] : Complete(p, m, L)
      BY <1>3, FullListing
    <2>2. UNCHANGED apps
      BY <1>3, FullListing
    <2>3. Victims(req[p], L) = {} /\ Return(p, ActiveErr(req[p], L), {})
      <3>1. pc' # [pc EXCEPT ![p] = "remove"]
        BY DEF Answers, TypeOK, Types
      <3> QED
        BY <2>1, <3>1 DEF Listed
    <2>4. ASSUME Owner(apps[n]) = req[p].controller PROVE FALSE
      <3>1. PICK a \in L : a.name = n
        BY <2>1, <2>4 DEF Complete
      <3>2. a.controller = req[p].controller
        BY <2>1, <2>4, <3>1 DEF Complete
      <3>3. ~isActive(a.state)
        BY <1>2, <2>3, <3>2
      <3>4. a.name \in Victims(req[p], L)
        BY <3>2, <3>3 DEF Victims
      <3> QED
        BY <2>3, <3>4
    <2> QED
      BY <2>2, <2>4
  <1>4. CASE RemoveApp(p)
    <2> DEFINE m == Min(todo[p])
    <2>1. /\ pc[p] = "remove" /\ apps' = [apps EXCEPT ![m] = None]
          /\ Remaining(todo[p]) = {}
          /\ Return(p, ActiveErr(req[p], out[p]), {})
      <3>1. ~Return(p, "error", {})
        BY ReturnReply
      <3>2. pc' # pc
        BY DEF Answers
      <3> QED
        BY <1>4, <3>1, <3>2 DEF RemoveApp, Destroy
    <2>2. n # m /\ apps'[n] = apps[n]
      BY <1>1, <2>1 DEF TypeOK, Types
    <2>3. n \notin todo[p]
      BY <2>1, <2>2 DEF Remaining
    <2>4. Counted(p, n)
      BY <2>1 DEF History, Gathered
    <2>5. ASSUME Owner(apps[n]) = req[p].controller PROVE FALSE
      <3>1. PICK a \in out[p] : /\ a.name = n /\ isActive(a.state)
                                /\ a.controller = req[p].controller
        BY <2>3, <2>4, <2>5 DEF Counted
      <3> QED
        BY <1>2, <2>1, <3>1
    <2> QED
      BY <2>2, <2>5
  <1>5. pc[p] \in {"list", "fetch"} \/ RemoveApp(p)
    <2>1. pc[p] \notin {"create", "confirm", "delete"}
      BY DEF TypeOK, Dispatched
    <2>2. ~Start(p)
      BY ReturnReply DEF Start
    <2> QED
      BY <2>1, <2>2, Answering, FailCallReply DEF Provider, CreateLooksUp,
         CreateApp, CreateConfirms, Get, Stop, DeleteChecks, DeleteApp,
         ListApps, FetchApp
  <1> QED
    BY <1>3, <1>4, <1>5

\* A Delete or RemoveAll that says ok has left none of the apps it was asked
\* to retire, as far as they stood still.
THEOREM RetiresAll == Spec => RetirementComplete
  <1> DEFINE Act ==
        \A p \in Proc : Answers(p) /\ reply'[p].code = "ok" =>
          /\ req[p].op = "Delete" /\ req[p].name \in stable[p] =>
                apps'[req[p].name] = None
          /\ req[p].op = "RemoveAll" =>
                \A n \in stable[p] :
                   apps'[n] # None => Owner(apps'[n]) # req[p].controller
  <1>1. TypeOK /\ Ownership /\ History /\ [Next]_vars => Act
    BY DeleteAnswer, RemoveAllAnswer
  <1>2. Spec => [][Act]_vars
    BY <1>1, HistoryHolds, PTL DEF Spec
  <1> QED
    BY <1>2 DEF RetirementComplete
=============================================================================
