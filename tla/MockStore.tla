----------------------------- MODULE MockStore -----------------------------
(***************************************************************************)
(* The mock backend's state file.  Store holds a mutex, but every provider *)
(* process has a Store of its own, so the mutex orders nothing: processes  *)
(* meet in the file system.  Each step is one file-system call; a process  *)
(* may be killed between two of them.                                      *)
(*                                                                         *)
(* External: the file system.  An open file is an inode that keeps its     *)
(* contents when its name is given to another.                             *)
(***************************************************************************)
EXTENDS Naturals, FiniteSets

CONSTANTS
    Proc,      \* slots for provider processes
    Name,      \* app names
    State,     \* the provider's app states
    MaxCalls,  \* bound: operations in a behaviour
    None

ASSUME MockAssumption ==
    /\ "RUNNING" \in State
    /\ None \notin State /\ None \notin Nat
    /\ MaxCalls \in Nat

VARIABLES
    path, temp,   \* the inodes named s.path and s.path + ".tmp", or None
    data,         \* contents of the inodes
    pc, req, fd, loaded, reply,   \* of each process
    calls,
    ledger,       \* history: the table if each saved change were made to it
    raced, torn   \* history: two processes were between load and rename, or
                  \* between opening and renaming the temporary file

vars == <<path, temp, data, pc, req, fd, loaded, reply, calls, ledger, raced, torn>>

Inode == 1..MaxCalls
Table == [Name -> State \cup {None}]
NoApps == [n \in Name |-> None]
Operation == [op : {"CreateApp", "GetApp", "ListApps", "DeleteApp", "SetState"},
              name : Name, state : State]
Idle == [op |-> "none"]
Reply == {"ok", "ErrNotFound", "error"}
-----------------------------------------------------------------------------
\* load: a file that is missing or empty holds no apps, and one that is not
\* a JSON table is an error.
Whole(t) == [kind |-> "table", table |-> t]
Odd(kind) == [kind |-> kind, table |-> NoApps]
Contents == IF path = None THEN Odd("empty") ELSE data[path]
Loaded == Contents.table

\* What an operation makes of the table it has loaded.
Change(r, t) ==
    CASE r.op = "CreateApp" /\ t[r.name] = None -> [t EXCEPT ![r.name] = "RUNNING"]
      [] r.op = "DeleteApp" -> [t EXCEPT ![r.name] = None]
      [] r.op = "SetState" /\ t[r.name] # None -> [t EXCEPT ![r.name] = r.state]
      [] OTHER -> t

\* The operation saves, even if SetState leaves the state as it was.
Saves(r, t) == \/ r.op = "CreateApp" /\ t[r.name] = None
               \/ r.op \in {"DeleteApp", "SetState"} /\ t[r.name] # None

Answer(r, t) ==
    IF r.op \in {"GetApp", "SetState"} /\ t[r.name] = None THEN "ErrNotFound"
    ELSE "ok"

Return(p, answer) ==
    /\ pc' = [pc EXCEPT ![p] = "idle"]
    /\ req' = [req EXCEPT ![p] = Idle]
    /\ fd' = [fd EXCEPT ![p] = None]
    /\ loaded' = [loaded EXCEPT ![p] = NoApps]
    /\ reply' = [reply EXCEPT ![p] = answer]

Goto(p, next) == pc' = [pc EXCEPT ![p] = next] /\ UNCHANGED <<req, reply>>

Begin(p) ==
    /\ pc[p] = "idle" /\ calls < MaxCalls
    /\ calls' = calls + 1
    /\ \E r \in Operation : req' = [req EXCEPT ![p] = r]
    /\ pc' = [pc EXCEPT ![p] = "load"]
    /\ UNCHANGED <<path, temp, data, fd, loaded, reply, ledger, raced, torn>>

Saving(p) == pc[p] \in {"open", "write", "rename"}

Load(p) ==
    /\ pc[p] = "load"
    /\ IF Contents.kind = "mixed" THEN Return(p, "error") /\ UNCHANGED raced
       ELSE IF ~Saves(req[p], Loaded)
       THEN Return(p, Answer(req[p], Loaded)) /\ UNCHANGED raced
       ELSE /\ Goto(p, "open")
            /\ loaded' = [loaded EXCEPT ![p] = Loaded]
            /\ raced' = (raced \/ \E q \in Proc \ {p} : Saving(q))
            /\ UNCHANGED fd
    /\ UNCHANGED <<path, temp, data, calls, ledger, torn>>

Fresh == CHOOSE i \in Inode : data[i].kind = "unused"

\* mutant: the state file itself is opened for writing.
OpenInPlace(p) ==
    LET i == IF path = None THEN Fresh ELSE path
    IN  /\ pc[p] = "open"
        /\ path' = i /\ temp' = i
        /\ fd' = [fd EXCEPT ![p] = i]
        /\ data' = [data EXCEPT ![i] = Odd("empty")]
        /\ torn' = (torn \/ \E q \in Proc \ {p} : pc[q] \in {"write", "rename"})
        /\ Goto(p, "write")
        /\ UNCHANGED <<loaded, calls, ledger, raced>>
\* os.WriteFile opens the temporary file, creating or truncating it.
OpenTemp(p) ==
    LET i == IF temp = None THEN Fresh ELSE temp
    IN  /\ pc[p] = "open"
        /\ temp' = i
        /\ fd' = [fd EXCEPT ![p] = i]
        /\ data' = [data EXCEPT ![i] = Odd("empty")]
        /\ torn' = (torn \/ \E q \in Proc \ {p} : pc[q] \in {"write", "rename"})
        /\ Goto(p, "write")
        /\ UNCHANGED <<path, loaded, calls, ledger, raced>>

\* ... and writes the table to it, over what another process has written
\* there since, of which a longer tail remains.
WriteTemp(p) ==
    /\ pc[p] = "write"
    /\ \E bytes \in {Whole(Change(req[p], loaded[p]))} \cup
             (IF data[fd[p]].kind = "empty" THEN {} ELSE {Odd("mixed")}) :
             data' = [data EXCEPT ![fd[p]] = bytes]
    /\ Goto(p, "rename")
    /\ UNCHANGED <<path, temp, fd, loaded, calls, ledger, raced, torn>>

\* mutant: the temporary file keeps its name.
RenameCopies(p) ==
    /\ pc[p] = "rename"
    /\ path' = temp /\ ledger' = Change(req[p], ledger)
    /\ Return(p, "ok")
    /\ UNCHANGED <<temp, data, calls, raced, torn>>
\* os.Rename, of whatever bears the temporary name by now.
Rename(p) ==
    /\ pc[p] = "rename"
    /\ IF temp = None
       THEN Return(p, "error") /\ UNCHANGED <<path, temp, ledger>>
       ELSE /\ path' = temp /\ temp' = None
            /\ ledger' = Change(req[p], ledger)
            /\ Return(p, "ok")
    /\ UNCHANGED <<data, calls, raced, torn>>

\* mutant: a file that cannot be read is taken for an empty one.
FailButLoad(p) ==
    /\ pc[p] # "idle"
    /\ IF pc[p] = "load" /\ Saves(req[p], NoApps)
       THEN Goto(p, "open") /\ UNCHANGED <<fd, loaded>>
       ELSE Return(p, "error")
    /\ UNCHANGED <<path, temp, data, calls, ledger, raced, torn>>
\* A file-system call fails, or the process is killed before it.  A write
\* that fails may have written a part.
Fail(p) ==
    /\ pc[p] # "idle"
    /\ Return(p, "error")
    /\ \/ UNCHANGED data
       \/ pc[p] = "write" /\ data' = [data EXCEPT ![fd[p]] = Odd("mixed")]
    /\ UNCHANGED <<path, temp, calls, ledger, raced, torn>>

Init ==
    /\ path = None /\ temp = None
    /\ data = [i \in Inode |-> Odd("unused")]
    /\ pc = [p \in Proc |-> "idle"] /\ req = [p \in Proc |-> Idle]
    /\ fd = [p \in Proc |-> None] /\ loaded = [p \in Proc |-> NoApps]
    /\ reply = [p \in Proc |-> "ok"]
    /\ calls = 0 /\ ledger = NoApps /\ raced = FALSE /\ torn = FALSE

Next == \E p \in Proc : \/ Begin(p) \/ Load(p) \/ OpenTemp(p) \/ WriteTemp(p)
                        \/ Rename(p) \/ Fail(p)

Spec == Init /\ [][Next]_vars
-----------------------------------------------------------------------------
\* Every variable has its type; a process that saves has the file it needs
\* open, the two names never stand for one file, and no named file is unmade.
TypeOK ==
    /\ {path, temp} \subseteq Inode \cup {None}
    /\ data \in [Inode -> [kind : {"unused", "empty", "mixed", "table"},
                           table : Table]]
    /\ pc \in [Proc -> {"idle", "load", "open", "write", "rename"}]
    /\ req \in [Proc -> Operation \cup {Idle}]
    /\ fd \in [Proc -> Inode \cup {None}]
    /\ loaded \in [Proc -> Table]
    /\ reply \in [Proc -> Reply]
    /\ calls \in 0..MaxCalls
    /\ ledger \in Table /\ raced \in BOOLEAN /\ torn \in BOOLEAN
    /\ \A p \in Proc : pc[p] \in {"write", "rename"} => fd[p] # None
    /\ path = None \/ path # temp
    /\ \A i \in {path, temp} \ {None} : data[i].kind # "unused"

\* A process killed at any call, or a failing write, never harms the state
\* file: it is absent or a whole table, unless two processes have had the
\* temporary file open at once.
FileWhole == torn \/ path = None \/ data[path].kind = "table"

\* Every change that was saved, acknowledged or not, is in the file and
\* nothing else is, unless a process has loaded the file while another was
\* about to save: then one of the two changes is lost.
NoLostUpdate == raced \/ Loaded = ledger
=============================================================================
