--------------------------- MODULE MockStoreProofs ---------------------------
(* What holds of the mock store for every number of processes, apps and    *)
(* operations, proved with TLAPS.                                          *)
EXTENDS MockStore, FiniteSetTheorems, TLAPS

Writing(p) == pc[p] \in {"write", "rename"}

\* A process that is busy serves an operation, and one with the temporary
\* file open has an inode that was made.
Busy ==
    \A p \in Proc : /\ pc[p] # "idle" => req[p] \in Operation
                    /\ Writing(p) => /\ fd[p] \in Inode
                                     /\ data[fd[p]].kind # "unused"

\* There is an inode left for every process that may have to make one.
Made == {i \in Inode : data[i].kind # "unused"}
Openers == {p \in Proc : pc[p] \in {"load", "open"}}
Supply == /\ IsFiniteSet(Openers)
          /\ Cardinality(Made) + Cardinality(Openers) <= calls

\* As long as no two processes had the temporary file open at once, the one
\* that has it open has the file that bears the temporary name.
OneWriter ==
    ~torn => \A p \in Proc : Writing(p) =>
                /\ \A q \in Proc : Writing(q) => q = p
                /\ temp = fd[p]
                /\ data[fd[p]].kind =
                      IF pc[p] = "write" THEN "empty" ELSE "table"

\* As long as no process loaded while another was about to save, the one that
\* saves has loaded what is in the file, and nobody tears the file.
OneSaver ==
    ~raced =>
       /\ ~torn
       /\ \A p \in Proc : Saving(p) =>
             /\ \A q \in Proc : Saving(q) => q = p
             /\ loaded[p] = ledger
             /\ pc[p] = "rename" => data[fd[p]].table = Change(req[p], ledger)

IInv == /\ TypeOK /\ Busy /\ Supply /\ OneWriter /\ OneSaver
        /\ FileWhole /\ NoLostUpdate
-----------------------------------------------------------------------------
LEMMA NoAppsType == NoApps \in Table
  BY DEF NoApps, Table

LEMMA ChangeType ==
  ASSUME NEW r \in Operation, NEW t \in Table PROVE Change(r, t) \in Table
  BY MockAssumption DEF Change, Operation, Table

LEMMA LoadedType == ASSUME TypeOK PROVE Loaded \in Table
  BY NoAppsType DEF TypeOK, Loaded, Contents, Odd

LEMMA MadeFinite ==
  /\ IsFiniteSet(Inode) /\ Cardinality(Inode) = MaxCalls
  /\ Made \subseteq Inode /\ IsFiniteSet(Made) /\ Cardinality(Made) \in Nat
  <1>1. IsFiniteSet(Inode) /\ Cardinality(Inode) = MaxCalls
    BY MockAssumption, FS_Interval DEF Inode
  <1>2. Made \subseteq Inode
    BY DEF Made
  <1> QED
    BY <1>1, <1>2, FS_Subset, FS_CardinalityType

\* The inode an opening process takes: the named one, or one not made yet.
Opened == IF temp = None THEN Fresh ELSE temp

\* Inodes do not run out (Supply): each operation makes one at most.
LEMMA OpenedType ==
  ASSUME TypeOK, Supply, NEW p \in Proc, pc[p] = "open"
  PROVE  /\ Opened \in Inode /\ Opened # None
         /\ Opened # path
         /\ temp = None => data[Opened].kind = "unused"
  <1>1. CASE temp # None
    BY <1>1 DEF TypeOK, Opened
  <1>2. CASE temp = None
    <2>1. Cardinality(Inode) = MaxCalls /\ Cardinality(Made) \in Nat
      BY MadeFinite
    <2>3. Cardinality(Openers) \in Nat /\ Cardinality(Openers) # 0
      BY FS_CardinalityType, FS_EmptySet DEF Supply, Openers
    <2>2. calls \in 0..MaxCalls
      BY DEF TypeOK
    <2>4. Made # Inode
      BY <2>1, <2>2, <2>3, MockAssumption DEF Supply
    <2>5. \E i \in Inode : data[i].kind = "unused"
      BY <2>4 DEF Made
    <2>6. Fresh \in Inode /\ data[Fresh].kind = "unused"
      BY <2>5 DEF Fresh
    <2>7. Fresh # None
      BY <2>6, MockAssumption DEF Inode
    <2>8. Fresh # path
      BY <2>6, <2>7 DEF TypeOK
    <2> QED
      BY <1>2, <2>6, <2>7, <2>8 DEF Opened
  <1> QED
    BY <1>1, <1>2

\* Supply lasts through every step that makes at most one inode for a process
\* that is done with opening, or none at all.
LEMMA SupplyKept ==
  ASSUME TypeOK, Supply, calls' = calls, Openers' \subseteq Openers,
         \/ Made' \subseteq Made
         \/ \E i, p : Made' \subseteq Made \cup {i} /\ p \in Openers \ Openers'
  PROVE  Supply'
  <1>0. IsFiniteSet(Inode) /\ Made \subseteq Inode /\ Made' \subseteq Inode
    BY MockAssumption, FS_Interval DEF Inode, Made
  <1>1. IsFiniteSet(Made) /\ IsFiniteSet(Openers) /\ IsFiniteSet(Openers')
        /\ IsFiniteSet(Made')
    BY <1>0, FS_Subset DEF Supply
  <1>2. Cardinality(Openers') <= Cardinality(Openers)
    BY <1>1, FS_Subset
  <1>3. /\ Cardinality(Made) \in Nat /\ Cardinality(Openers) \in Nat
        /\ Cardinality(Made') \in Nat /\ Cardinality(Openers') \in Nat
        /\ calls \in Nat
    BY <1>1, FS_CardinalityType DEF TypeOK
  <1>4. CASE Made' \subseteq Made
    <2>1. Cardinality(Made') <= Cardinality(Made)
      BY <1>1, <1>4, FS_Subset
    <2> QED
      BY <1>1, <1>2, <1>3, <2>1 DEF Supply
  <1>5. ASSUME NEW i, NEW p \in Openers \ Openers',
               Made' \subseteq Made \cup {i}
        PROVE  Supply'
    <2>1. /\ IsFiniteSet(Made \cup {i})
          /\ Cardinality(Made \cup {i}) =
                IF i \in Made THEN Cardinality(Made) ELSE Cardinality(Made) + 1
      BY <1>1, FS_AddElement
    <2>2. Cardinality(Made') <= Cardinality(Made \cup {i})
      BY <1>5, <2>1, FS_Subset
    <2>3. Cardinality(Openers \ {p}) = Cardinality(Openers) - 1
          /\ IsFiniteSet(Openers \ {p})
      BY <1>1, <1>5, FS_RemoveElement
    <2>4. Cardinality(Openers') <= Cardinality(Openers \ {p})
      BY <1>5, <2>3, FS_Subset
    <2>5. Cardinality(Made \cup {i}) \in Nat
      BY <2>1, FS_CardinalityType
    <2> QED
      BY <1>1, <1>3, <2>1, <2>2, <2>3, <2>4, <2>5 DEF Supply
  <1> QED
    BY <1>4, <1>5
-----------------------------------------------------------------------------
LEMMA BeginStep == ASSUME IInv, NEW p \in Proc, Begin(p) PROVE IInv'
  <1> USE DEF IInv
  <1>1. TypeOK'
    BY MockAssumption DEF TypeOK, Begin
  <1>2. Busy'
    BY DEF TypeOK, Busy, Writing, Begin
  <1>3. Supply'
    <2>1. Openers' = Openers \cup {p} /\ p \notin Openers
      BY DEF Openers, Begin, TypeOK
    <2>2. IsFiniteSet(Openers')
          /\ Cardinality(Openers') = Cardinality(Openers) + 1
      BY <2>1, FS_AddElement DEF Supply
    <2>3. Made' = Made /\ calls' = calls + 1
      BY DEF Made, Begin
    <2>4. Cardinality(Made) \in Nat /\ Cardinality(Openers) \in Nat
      BY MadeFinite, FS_CardinalityType DEF Supply
    <2>5. calls \in Nat
      BY DEF TypeOK
    <2> QED
      BY <2>2, <2>3, <2>4, <2>5 DEF Supply
  <1>4. OneWriter'
    BY DEF TypeOK, OneWriter, Writing, Begin
  <1>5. OneSaver'
    BY DEF TypeOK, OneSaver, Saving, Begin
  <1>6. FileWhole' /\ NoLostUpdate'
    BY DEF FileWhole, NoLostUpdate, Loaded, Contents, Begin
  <1> QED
    BY <1>1, <1>2, <1>3, <1>4, <1>5, <1>6

\* A process that answers gives up what it had, and disturbs nobody.
LEMMA ReturnKeeps ==
  ASSUME TypeOK, Busy, NEW p \in Proc, pc[p] # "idle",
         NEW a \in Reply, Return(p, a)
  PROVE  /\ pc' \in [Proc -> {"idle", "load", "open", "write", "rename"}]
         /\ req' \in [Proc -> Operation \cup {Idle}]
         /\ fd' \in [Proc -> Inode \cup {None}]
         /\ loaded' \in [Proc -> Table]
         /\ reply' \in [Proc -> Reply]
         /\ Openers' \subseteq Openers
         /\ pc'[p] = "idle"
         /\ \A q \in Proc \ {p} : /\ pc'[q] = pc[q] /\ req'[q] = req[q]
                                   /\ fd'[q] = fd[q] /\ loaded'[q] = loaded[q]
  BY NoAppsType DEF TypeOK, Return, Openers

LEMMA LoadStep == ASSUME IInv, NEW p \in Proc, Load(p) PROVE IInv'
  <1> USE DEF IInv
  <1>1. /\ req[p] \in Operation /\ Loaded \in Table
        /\ UNCHANGED <<path, temp, data, calls, ledger, torn>>
    BY LoadedType DEF Load, Busy
  <1>2. CASE \E a \in Reply : Return(p, a) /\ UNCHANGED raced
    <2>1. PICK a \in Reply : Return(p, a) /\ UNCHANGED raced
      BY <1>2
    <2>2. pc[p] = "load"
      BY DEF Load
    <2>3. TypeOK'
      BY <1>1, <2>1, <2>2, ReturnKeeps DEF TypeOK
    <2>4. Busy' /\ OneWriter' /\ OneSaver'
      BY <1>1, <2>1, <2>2, ReturnKeeps
         DEF Busy, OneWriter, OneSaver, Writing, Saving
    <2>5. Supply'
      BY <1>1, <2>1, <2>2, ReturnKeeps, SupplyKept DEF Made
    <2>6. FileWhole' /\ NoLostUpdate'
      BY <1>1, <2>1 DEF FileWhole, NoLostUpdate, Loaded, Contents
    <2> QED
      BY <2>3, <2>4, <2>5, <2>6
  <1>3. CASE /\ Goto(p, "open") /\ UNCHANGED fd
             /\ loaded' = [loaded EXCEPT ![p] = Loaded]
             /\ raced' = (raced \/ \E q \in Proc \ {p} : Saving(q))
    <2>1. /\ pc[p] = "load" /\ pc' = [pc EXCEPT ![p] = "open"]
          /\ UNCHANGED <<req, reply>>
      BY <1>3 DEF Load, Goto
    <2>2. TypeOK'
      <3>1. raced' \in BOOLEAN
        BY <1>3
      <3> QED
        BY <1>1, <1>3, <2>1, <3>1 DEF TypeOK
    <2>3. Busy' /\ OneWriter'
      BY <1>1, <1>3, <2>1 DEF TypeOK, Busy, OneWriter, Writing
    <2>4. Supply'
      <3>1. Openers' \subseteq Openers /\ Made' = Made
        BY <1>1, <2>1 DEF TypeOK, Openers, Made
      <3> QED
        BY <1>1, <3>1, SupplyKept
    <2>5. OneSaver'
      <3>1. ASSUME ~raced'
            PROVE  ~raced /\ \A q \in Proc \ {p} : ~Saving(q)
        BY <1>3, <3>1
      <3>2. ASSUME ~raced', NEW q \in Proc, Saving(q)' PROVE q = p
        BY <2>1, <3>1, <3>2 DEF Saving, TypeOK
      <3>3. ASSUME ~raced' PROVE loaded'[p] = ledger' /\ pc'[p] # "rename"
        BY <1>1, <1>3, <2>1, <3>1, <3>3 DEF TypeOK, NoLostUpdate
      <3>4. ASSUME ~raced' PROVE ~torn'
        BY <1>1, <3>1, <3>4 DEF OneSaver
      <3> QED
        BY <3>2, <3>3, <3>4 DEF OneSaver
    <2>6. FileWhole' /\ NoLostUpdate'
      <3>1. raced => raced'
        BY <1>3
      <3> QED
        BY <1>1, <3>1 DEF FileWhole, NoLostUpdate, Loaded, Contents
    <2> QED
      BY <2>2, <2>3, <2>4, <2>5, <2>6
  <1> QED
    <2>1. Answer(req[p], Loaded) \in Reply /\ "error" \in Reply
      BY DEF Answer, Reply
    <2> QED
      BY <1>2, <1>3, <2>1 DEF Load

LEMMA OpenTempStep == ASSUME IInv, NEW p \in Proc, OpenTemp(p) PROVE IInv'
  <1> USE DEF IInv
  <1> DEFINE i == Opened
  <1>1. /\ pc[p] = "open" /\ pc' = [pc EXCEPT ![p] = "write"]
        /\ temp' = i /\ fd' = [fd EXCEPT ![p] = i]
        /\ data' = [data EXCEPT ![i] = Odd("empty")]
        /\ torn' = (torn \/ \E q \in Proc \ {p} :
                              pc[q] \in {"write", "rename"})
        /\ UNCHANGED <<path, req, reply, loaded, calls, ledger, raced>>
    BY DEF OpenTemp, Opened, Goto
  <1>2. /\ i \in Inode /\ i # None /\ i # path
        /\ temp = None => data[i].kind = "unused"
    BY <1>1, OpenedType
  <1> HIDE DEF i
  <1>3. /\ data \in [Inode -> [kind : {"unused", "empty", "mixed", "table"},
                               table : Table]]
        /\ data'[i].kind = "empty"
        /\ \A j \in Inode \ {i} : data'[j] = data[j]
    BY <1>1, <1>2 DEF TypeOK, Odd
  <1>4. TypeOK'
    <2>1. data' \in [Inode -> [kind : {"unused", "empty", "mixed", "table"},
                               table : Table]]
      BY <1>1, <1>3, NoAppsType DEF Odd
    <2>2. torn' \in BOOLEAN
      BY <1>1
    <2>3. \A j \in {path', temp'} \ {None} : data'[j].kind # "unused"
      BY <1>1, <1>2, <1>3 DEF TypeOK
    <2> QED
      BY <1>1, <1>2, <2>1, <2>2, <2>3 DEF TypeOK
  <1>5. Busy'
    BY <1>1, <1>2, <1>3 DEF TypeOK, Busy, Writing
  <1>6. Supply'
    <2>1. Openers' \subseteq Openers /\ p \in Openers \ Openers'
      BY <1>1 DEF TypeOK, Openers
    <2>2. Made' \subseteq Made \cup {i}
      BY <1>3 DEF Made
    <2> QED
      BY <1>1, <2>1, <2>2, SupplyKept
  <1>7. OneWriter'
    <2>1. ASSUME ~torn'
          PROVE  /\ ~torn
                 /\ \A q \in Proc \ {p} : pc[q] \notin {"write", "rename"}
      BY <1>1, <2>1
    <2>2. ASSUME ~torn', NEW q \in Proc, Writing(q)' PROVE q = p
      BY <1>1, <2>1, <2>2 DEF TypeOK, Writing
    <2>3. temp' = fd'[p] /\ pc'[p] = "write" /\ data'[fd'[p]].kind = "empty"
      BY <1>1, <1>3 DEF TypeOK
    <2> QED
      BY <2>2, <2>3 DEF OneWriter
  <1>8. Loaded' = Loaded /\ Contents' = Contents
    BY <1>1, <1>2, <1>3 DEF TypeOK, Loaded, Contents
  <1>9. OneSaver'
    <2>1. ASSUME ~raced' PROVE \A q \in Proc \ {p} : ~Saving(q)
      BY <1>1, <2>1 DEF OneSaver, Saving
    <2>2. ASSUME ~raced' PROVE ~torn'
      BY <1>1, <2>1, <2>2 DEF OneSaver, Saving
    <2>3. ASSUME ~raced', NEW q \in Proc, Saving(q)' PROVE q = p
      BY <1>1, <2>1, <2>3 DEF TypeOK, Saving
    <2>4. ASSUME ~raced' PROVE loaded'[p] = ledger' /\ pc'[p] # "rename"
      BY <1>1, <2>4 DEF TypeOK, OneSaver, Saving
    <2> QED
      BY <2>2, <2>3, <2>4 DEF OneSaver
  <1>10. FileWhole' /\ NoLostUpdate'
    <2>1. torn => torn'
      BY <1>1
    <2>2. path = None \/ data'[path] = data[path]
      BY <1>2, <1>3 DEF TypeOK
    <2> QED
      BY <1>1, <1>8, <2>1, <2>2 DEF FileWhole, NoLostUpdate
  <1> QED
    BY <1>4, <1>5, <1>6, <1>7, <1>9, <1>10

\* Bytes written to the file a process has open change no other file, and not
\* the state file as long as only one process has the temporary file open.
LEMMA WrittenApart ==
  ASSUME TypeOK, Busy, OneWriter, NEW p \in Proc, Writing(p),
         NEW bytes, data' = [data EXCEPT ![fd[p]] = bytes], UNCHANGED path
  PROVE  /\ \A j \in Inode \ {fd[p]} : data'[j] = data[j]
         /\ data'[fd[p]] = bytes
         /\ ~torn => fd[p] # path /\ Contents' = Contents
  <1>1. /\ \A j \in Inode \ {fd[p]} : data'[j] = data[j]
        /\ data'[fd[p]] = bytes
    BY DEF TypeOK, Busy
  <1>2. ASSUME ~torn PROVE fd[p] # path
    BY <1>2, MockAssumption DEF TypeOK, Busy, OneWriter, Inode
  <1>3. ASSUME ~torn PROVE Contents' = Contents
    BY <1>1, <1>2, <1>3 DEF TypeOK, Contents
  <1> QED
    BY <1>1, <1>2, <1>3

LEMMA WriteTempStep == ASSUME IInv, NEW p \in Proc, WriteTemp(p) PROVE IInv'
  <1> USE DEF IInv
  <1>1. PICK bytes \in {Whole(Change(req[p], loaded[p]))} \cup
                 (IF data[fd[p]].kind = "empty" THEN {} ELSE {Odd("mixed")}) :
           data' = [data EXCEPT ![fd[p]] = bytes]
    BY DEF WriteTemp
  <1>2. /\ pc[p] = "write" /\ pc' = [pc EXCEPT ![p] = "rename"]
        /\ UNCHANGED <<path, temp, req, reply, fd, loaded, calls, ledger,
                       raced, torn>>
    BY DEF WriteTemp, Goto
  <1>3. /\ bytes \in [kind : {"mixed", "table"}, table : Table]
        /\ data[fd[p]].kind = "empty" =>
              bytes = Whole(Change(req[p], loaded[p]))
    <2>1. Change(req[p], loaded[p]) \in Table
      BY <1>2, ChangeType DEF TypeOK, Busy
    <2> QED
      BY <2>1, NoAppsType DEF Whole, Odd
  <1>4. Writing(p) /\ fd[p] \in Inode /\ data[fd[p]].kind # "unused"
    BY <1>2 DEF Writing, Busy
  <1>5. /\ \A j \in Inode \ {fd[p]} : data'[j] = data[j]
        /\ data'[fd[p]] = bytes
        /\ ~torn => fd[p] # path /\ Contents' = Contents
    BY <1>1, <1>2, <1>4, WrittenApart
  <1>6. TypeOK'
    <2>1. data' \in [Inode -> [kind : {"unused", "empty", "mixed", "table"},
                               table : Table]]
      BY <1>1, <1>3, <1>4 DEF TypeOK
    <2>2. \A j \in Inode : data[j].kind # "unused" => data'[j].kind # "unused"
      BY <1>3, <1>5
    <2> QED
      BY <1>2, <2>1, <2>2 DEF TypeOK
  <1>7. Busy'
    BY <1>2, <1>3, <1>4, <1>5 DEF TypeOK, Busy, Writing
  <1>8. Supply'
    <2>1. Openers' \subseteq Openers /\ Made' \subseteq Made
      BY <1>2, <1>4, <1>5 DEF TypeOK, Openers, Made
    <2> QED
      BY <1>2, <2>1, SupplyKept
  <1>9. OneWriter'
    <2>1. ASSUME ~torn PROVE data'[fd[p]].kind = "table"
      BY <1>2, <1>3, <1>4, <1>5, <2>1 DEF OneWriter, Whole
    <2>2. ASSUME ~torn', NEW q \in Proc, Writing(q)' PROVE q = p
      BY <1>2, <1>4, <2>2 DEF TypeOK, OneWriter, Writing
    <2>3. ASSUME ~torn PROVE temp' = fd'[p] /\ pc'[p] = "rename"
      BY <1>2, <1>4, <2>3 DEF TypeOK, OneWriter
    <2> QED
      BY <1>2, <2>1, <2>2, <2>3 DEF OneWriter
  <1>10. OneSaver'
    <2>1. ASSUME ~raced
          PROVE  /\ ~torn /\ loaded[p] = ledger
                 /\ \A q \in Proc : Saving(q) => q = p
      BY <1>2, <2>1 DEF OneSaver, Saving
    <2>2. ASSUME ~raced PROVE data'[fd[p]].table = Change(req[p], ledger)
      BY <1>2, <1>3, <1>4, <1>5, <2>1, <2>2 DEF OneWriter, Whole
    <2>3. ASSUME ~raced, NEW q \in Proc, Saving(q)' PROVE q = p
      BY <1>2, <2>1, <2>3 DEF TypeOK, Saving
    <2> QED
      BY <1>2, <2>1, <2>2, <2>3 DEF OneSaver
  <1>11. FileWhole' /\ NoLostUpdate'
    <2>1. ASSUME ~torn PROVE path = None \/ data'[path].kind = "table"
      BY <1>5, <2>1 DEF TypeOK, FileWhole
    <2>2. ASSUME ~raced PROVE Loaded' = ledger'
      BY <1>2, <1>5, <2>2 DEF OneSaver, NoLostUpdate, Loaded
    <2> QED
      BY <1>2, <2>1, <2>2 DEF FileWhole, NoLostUpdate
  <1> QED
    BY <1>6, <1>7, <1>8, <1>9, <1>10, <1>11

LEMMA RenameStep == ASSUME IInv, NEW p \in Proc, Rename(p) PROVE IInv'
  <1> USE DEF IInv
  <1>0. "ok" \in Reply /\ "error" \in Reply
    BY DEF Reply
  <1>1. pc[p] = "rename" /\ UNCHANGED <<data, calls, raced, torn>>
    BY DEF Rename
  <1>2. CASE temp = None
    <2>1. Return(p, "error") /\ UNCHANGED <<path, temp, ledger>>
      BY <1>2 DEF Rename
    <2>2. TypeOK'
      BY <1>0, <1>1, <2>1, ReturnKeeps DEF TypeOK
    <2>3. Busy' /\ OneWriter' /\ OneSaver'
      BY <1>0, <1>1, <2>1, ReturnKeeps
         DEF Busy, OneWriter, OneSaver, Writing, Saving
    <2>4. Supply'
      BY <1>0, <1>1, <2>1, ReturnKeeps, SupplyKept DEF Made
    <2>5. FileWhole' /\ NoLostUpdate'
      BY <1>1, <2>1 DEF FileWhole, NoLostUpdate, Loaded, Contents
    <2> QED
      BY <2>2, <2>3, <2>4, <2>5
  <1>3. CASE temp # None
    <2>1. /\ path' = temp /\ temp' = None /\ temp \in Inode
          /\ ledger' = Change(req[p], ledger)
          /\ Return(p, "ok")
      BY <1>3 DEF Rename, TypeOK
    <2>2. TypeOK'
      <3>1. ledger' \in Table
        BY <1>1, <2>1, ChangeType DEF TypeOK, Busy
      <3> QED
        BY <1>0, <1>1, <1>3, <2>1, <3>1, ReturnKeeps DEF TypeOK
    <2>3. Busy'
      BY <1>0, <1>1, <2>1, ReturnKeeps DEF Busy, Writing
    <2>4. Supply'
      BY <1>0, <1>1, <2>1, ReturnKeeps, SupplyKept DEF Made
    <2>5. Writing(p) /\ Saving(p)
      BY <1>1 DEF Writing, Saving
    <2>6. OneWriter'
      BY <1>0, <1>1, <2>1, <2>5, ReturnKeeps DEF OneWriter, Writing
    <2>7. OneSaver'
      BY <1>0, <1>1, <2>1, <2>5, ReturnKeeps DEF OneSaver, Saving
    <2>8. ASSUME ~torn PROVE data[temp].kind = "table" /\ temp = fd[p]
      BY <1>1, <2>5, <2>8 DEF OneWriter
    <2>9. ASSUME ~raced PROVE Loaded' = ledger'
      <3>1. data[temp].table = Change(req[p], ledger)
        BY <1>1, <2>5, <2>8, <2>9 DEF OneSaver
      <3> QED
        BY <1>1, <1>3, <2>1, <3>1 DEF Loaded, Contents
    <2> QED
      BY <1>1, <2>1, <2>2, <2>3, <2>4, <2>6, <2>7, <2>8, <2>9
         DEF FileWhole, NoLostUpdate
  <1> QED
    BY <1>2, <1>3

LEMMA FailStep == ASSUME IInv, NEW p \in Proc, Fail(p) PROVE IInv'
  <1> USE DEF IInv
  <1>0. "error" \in Reply
    BY DEF Reply
  <1>1. /\ pc[p] # "idle" /\ Return(p, "error")
        /\ UNCHANGED <<path, temp, calls, ledger, raced, torn>>
    BY DEF Fail
  <1>2. CASE UNCHANGED data
    <2>1. TypeOK'
      BY <1>0, <1>1, <1>2, ReturnKeeps DEF TypeOK
    <2>2. Busy' /\ OneWriter' /\ OneSaver'
      BY <1>0, <1>1, <1>2, ReturnKeeps
         DEF Busy, OneWriter, OneSaver, Writing, Saving
    <2>3. Supply'
      BY <1>0, <1>1, <1>2, ReturnKeeps, SupplyKept DEF Made
    <2>4. FileWhole' /\ NoLostUpdate'
      BY <1>1, <1>2 DEF FileWhole, NoLostUpdate, Loaded, Contents
    <2> QED
      BY <2>1, <2>2, <2>3, <2>4
  <1>3. CASE pc[p] = "write" /\ data' = [data EXCEPT ![fd[p]] = Odd("mixed")]
    <2>1. Writing(p) /\ fd[p] \in Inode /\ data[fd[p]].kind # "unused"
      BY <1>3 DEF Writing, Busy
    <2>2. /\ \A j \in Inode \ {fd[p]} : data'[j] = data[j]
          /\ data'[fd[p]] = Odd("mixed")
          /\ ~torn => fd[p] # path /\ Contents' = Contents
      BY <1>1, <1>3, <2>1, WrittenApart
    <2>3. /\ data' \in [Inode -> [kind : {"unused", "empty", "mixed", "table"},
                                 table : Table]]
          /\ \A j \in Inode :
                data[j].kind # "unused" => data'[j].kind # "unused"
      BY <1>3, <2>2, NoAppsType DEF TypeOK, Odd
    <2>4. TypeOK'
      BY <1>0, <1>1, <2>3, ReturnKeeps DEF TypeOK
    <2>5. Busy'
      BY <1>0, <1>1, <2>3, ReturnKeeps DEF Busy, Writing
    <2>6. Supply'
      <3>1. Made' \subseteq Made
        BY <2>1, <2>2 DEF Made
      <3> QED
        BY <1>0, <1>1, <3>1, ReturnKeeps, SupplyKept
    <2>7. OneWriter'
      BY <1>0, <1>1, <2>1, ReturnKeeps DEF OneWriter, Writing
    <2>8. OneSaver'
      BY <1>0, <1>1, <2>1, ReturnKeeps DEF OneSaver, Writing, Saving
    <2>9. FileWhole' /\ NoLostUpdate'
      <3>1. ASSUME ~torn PROVE path = None \/ data'[path].kind = "table"
        BY <2>2, <3>1 DEF TypeOK, FileWhole
      <3>2. ASSUME ~raced PROVE Loaded' = ledger'
        BY <1>1, <2>2, <3>2 DEF OneSaver, NoLostUpdate, Loaded
      <3> QED
        BY <1>1, <3>1, <3>2 DEF FileWhole, NoLostUpdate
    <2> QED
      BY <2>4, <2>5, <2>6, <2>7, <2>8, <2>9
  <1> QED
    BY <1>2, <1>3 DEF Fail
-----------------------------------------------------------------------------
LEMMA InitInv == Init => IInv
  <1> SUFFICES ASSUME Init PROVE IInv
    OBVIOUS
  <1>1. TypeOK
    <2>1. raced \in BOOLEAN /\ torn \in BOOLEAN
      BY DEF Init
    <2>2. data \in [Inode -> [kind : {"unused", "empty", "mixed", "table"},
                              table : Table]]
      BY NoAppsType DEF Init, Odd
    <2> QED
      BY <2>1, <2>2, NoAppsType, MockAssumption DEF Init, TypeOK, Reply
  <1>2. Busy /\ OneWriter /\ OneSaver
    BY DEF Init, Busy, OneWriter, OneSaver, Writing, Saving
  <1>3. Supply
    <2>1. Made = {} /\ Openers = {} /\ calls = 0
      BY DEF Init, Made, Openers, Odd
    <2> QED
      BY <2>1, FS_EmptySet DEF Supply
  <1>4. FileWhole /\ NoLostUpdate
    BY DEF Init, FileWhole, NoLostUpdate, Loaded, Contents, Odd
  <1> QED
    BY <1>1, <1>2, <1>3, <1>4 DEF IInv

\* The invariant behind the theorems.
LEMMA Invariance == Spec => []IInv
  <1>1. ASSUME IInv, [Next]_vars PROVE IInv'
    <2>1. ASSUME NEW p \in Proc,
                 \/ Begin(p) \/ Load(p) \/ OpenTemp(p) \/ WriteTemp(p)
                 \/ Rename(p) \/ Fail(p)
          PROVE  IInv'
      BY <1>1, <2>1, BeginStep, LoadStep, OpenTempStep, WriteTempStep,
         RenameStep, FailStep
    <2>2. CASE UNCHANGED vars
      BY <1>1, <2>2
         DEF vars, IInv, TypeOK, Busy, Writing, Supply, Made, Openers,
         OneWriter, OneSaver, Saving, FileWhole, NoLostUpdate, Loaded, Contents
    <2> QED
      BY <1>1, <2>1, <2>2 DEF Next
  <1> QED
    BY <1>1, InitInv, PTL DEF Spec

\* Every variable has its type, a process that saves has its file open, and
\* the state file and the temporary file are two (TypeOK).
THEOREM TypeCorrect == Spec => []TypeOK
  <1>1. IInv => TypeOK
    BY DEF IInv
  <1> QED
    BY <1>1, Invariance, PTL

\* Kills and failing writes never harm the state file, unless two processes
\* had the temporary file open at once: os.Rename is what puts it in place.
THEOREM FileStaysWhole == Spec => []FileWhole
  <1>1. IInv => FileWhole
    BY DEF IInv
  <1> QED
    BY <1>1, Invariance, PTL

\* The file holds every saved change and nothing else, unless one process has
\* loaded it while another was about to save.
THEOREM LosesNoUpdate == Spec => []NoLostUpdate
  <1>1. IInv => NoLostUpdate
    BY DEF IInv
  <1> QED
    BY <1>1, Invariance, PTL
=============================================================================
