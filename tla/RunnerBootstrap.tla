-------------------------- MODULE RunnerBootstrap --------------------------
(***************************************************************************)
(* The bootstrap script that turns a fresh workload into one GitHub        *)
(* runner: the entry point of an app, and in a container or a VM a child   *)
(* of init.  A step is one foreground command of the shell with the        *)
(* assignments and tests that follow it, because the shell takes a trapped *)
(* signal between two commands, after the one that was running.  The       *)
(* delays between two attempts change nothing and are left out.            *)
(*                                                                         *)
(* External: the network, GARM's callback and metadata service, the        *)
(* release server, the runner process, and whoever sends signals.          *)
(***************************************************************************)
EXTENDS Naturals

CONSTANTS
    MaxAttempts,   \* MAX_ATTEMPTS
    Documents      \* credential documents fetched before the start: three

ASSUME BootstrapAssumption ==
    /\ MaxAttempts \in Nat \ {0}
    /\ Documents \in Nat \ {0}

VARIABLES
    pidOne,    \* the script is the workload's init (Apps): all ends with it
    image,     \* the image-resident tree is complete, of the version, unused
    release,   \* what the checksummed archive holds
    pc,        \* the next command
    attempt,   \* of post_json, fetch_metadata or download_runner
    tree,      \* what RUNNER_HOME holds
    archive,   \* RUNNER_ARCHIVE and its .tmp
    docs,      \* documents in JIT_DIR, under their names
    stuck,     \* documents that mv has left under their .tmp names
    tmp,       \* the .tmp document that is being fetched
    links,     \* RUNNER_HOME links to the documents
    runner,    \* the run.sh process
    known,     \* runner_pid is set
    told,      \* what GARM has accepted of this instance
    late,      \* posts given up by curl that may still reach GARM
    why        \* history: what befell the script and its runner

inputs == <<pidOne, image, release>>
files == <<tree, archive, docs, stuck, tmp, links>>
vars == <<inputs, pc, attempt, files, runner, known, told, late, why>>

Status == {"installing", "failed", "info", "idle"}
Release == {"whole", "noRunner", "noNode"}
Post == {"installing", "fetching", "failed", "info", "idle"}
PC == Post \cup {"match", "download", "verify", "extract", "check", "fetch",
                 "keep", "link", "start", "note", "ready", "serve", "reap",
                 "exit", "ended", "killed"}
Over == {"ended", "killed"}
-----------------------------------------------------------------------------
(* Control flow.                                                           *)

\* GARM accepts the instance token until the runner is idle
\* (docs/architecture.md:88); curl --fail takes a refusal for a failure.
TokenAccepted == "idle" \notin told

Goto(next) == pc' = next /\ attempt' = 1

\* kill -TERM "$runner_pid" and wait: the caller exits once the runner has.
TerminateRunner == Goto("reap")

\* mutant: the attempts are not counted.
AgainForever(Otherwise) == UNCHANGED <<pc, attempt>>
\* Another attempt, or what the caller does when there were MAX_ATTEMPTS.
Again(Otherwise) ==
    IF attempt < MaxAttempts THEN attempt' = attempt + 1 /\ pc' = pc
    ELSE Otherwise

\* mutant: one attempt too many.
RetryOnceMore(s, Otherwise) ==
    IF attempt <= MaxAttempts THEN attempt' = attempt + 1 /\ pc' = s
    ELSE Otherwise
\* Command s of a loop's body failed: back to the command that begins it.
Retry(s, Otherwise) ==
    IF attempt < MaxAttempts THEN attempt' = attempt + 1 /\ pc' = s
    ELSE Otherwise

\* mutant: the failure is not posted.
FailSilently == Goto("exit")
\* post_status failed ... || true; exit
Fail == Goto("failed")
-----------------------------------------------------------------------------
(* The script.                                                             *)

\* mutant: a home whose links were left by an earlier run is taken as it is.
PrestagedRunnerResumes ==
    /\ pc = "match"
    /\ tree' = IF image THEN "image" ELSE IF links THEN tree ELSE "none"
    /\ Goto(IF links THEN "start" ELSE "installing")
    /\ UNCHANGED <<inputs, archive, docs, stuck, tmp, links, runner, known,
                   told, late, why>>
\* prestaged_runner_matches decides between the two sources of the runner.
PrestagedRunnerMatches ==
    /\ pc = "match"
    /\ tree' = IF image THEN "image" ELSE "none"
    /\ Goto("installing")
    /\ UNCHANGED <<inputs, archive, docs, stuck, tmp, links, runner, known,
                   told, late, why>>

StatusOf(post) == IF post = "fetching" THEN "installing" ELSE post

\* What follows a post that was answered, and one that never was.
Answered == Goto(CASE pc = "installing" -> IF tree = "image" THEN "check"
                                           ELSE "download"
                   [] pc = "fetching"   -> "fetch"
                   [] pc = "failed"     -> "exit"
                   [] pc = "info"       -> "idle"
                   [] pc = "idle"       -> "serve")
\* mutant: a runner GARM never heard of is left running.
UnansweredExits == Goto("exit")
Unanswered == IF pc \in {"info", "idle"} THEN TerminateRunner ELSE Goto("exit")

\* post_json: the post arrives and is answered, or curl gives up although it
\* has arrived or may still arrive.
PostJson ==
    /\ pc \in Post
    /\ \/ /\ TokenAccepted
          /\ told' = told \cup {StatusOf(pc)}
          /\ Answered
          /\ UNCHANGED <<late, why>>
       \/ /\ Again(Unanswered)
          /\ why' = IF pc' = pc THEN why ELSE why \cup {"post"}
          /\ late' \in {late, late \cup {StatusOf(pc)}}
          /\ UNCHANGED told
    /\ UNCHANGED <<inputs, files, runner, known>>

\* download_runner: curl leaves nothing, a part, other bytes or the archive.
DownloadRunner ==
    /\ pc = "download"
    /\ archive' \in {"none", "other", "whole"}
    /\ pc' = "verify"
    /\ UNCHANGED <<inputs, attempt, tree, docs, stuck, tmp, links, runner,
                   known, told, late, why>>

\* sha256sum -c and mv, or rm and another attempt.  set -e is off in a function
\* whose result is tested: a mv that fails leaves the .tmp and goes unnoticed.
VerifyArchive ==
    /\ pc = "verify"
    /\ IF archive = "whole"
       THEN archive' \in {"kept", "whole"} /\ Goto("extract")
       ELSE archive' = "none" /\ Retry("download", Fail)
    /\ UNCHANGED <<inputs, tree, docs, stuck, tmp, links, runner, known, told,
                   late, why>>

\* rm -rf of RUNNER_HOME, tar, rm of the archive.
ExtractRunner ==
    /\ pc = "extract"
    /\ links' = FALSE
    /\ \/ /\ archive = "kept" /\ archive' = "none"
          /\ tree' = "release" /\ Goto("check")
       \/ tree' = "partial" /\ archive' = archive /\ Fail
    /\ UNCHANGED <<inputs, docs, stuck, tmp, runner, known, told, late, why>>

Complete == tree = "image" \/ (tree = "release" /\ release = "whole")

\* mutant: node24 is not looked for.
CheckRunSh ==
    /\ pc = "check"
    /\ IF Complete \/ release = "noNode" THEN Goto("fetching") ELSE Fail
    /\ UNCHANGED <<inputs, files, runner, known, told, late, why>>
\* run.sh, Runner.Listener and node24 are there and executable.
CheckRunner ==
    /\ pc = "check"
    /\ IF Complete THEN Goto("fetching") ELSE Fail
    /\ UNCHANGED <<inputs, files, runner, known, told, late, why>>

\* fetch_metadata of the next document: curl into the .tmp file.
FetchMetadata ==
    /\ pc = "fetch"
    /\ tmp' \in {"none", "part"} \cup (IF TokenAccepted THEN {"whole"} ELSE {})
    /\ pc' = "keep"
    /\ UNCHANGED <<inputs, attempt, tree, archive, docs, stuck, links, runner,
                   known, told, late, why>>

Kept == docs + stuck
\* Only a document that curl has delivered whole is moved into place, and if mv
\* fails the script goes on without it (as in VerifyArchive).
KeepDocument ==
    /\ pc = "keep"
    /\ tmp' = "none"
    /\ IF tmp = "whole"
       THEN /\ \/ docs' = docs + 1 /\ stuck' = stuck
               \/ docs' = docs /\ stuck' = stuck + 1
            /\ Goto(IF Kept + 1 = Documents THEN "link" ELSE "fetch")
       ELSE docs' = docs /\ stuck' = stuck /\ Retry("fetch", Fail)
    /\ UNCHANGED <<inputs, tree, archive, links, runner, known, told, late, why>>

LinkDocuments ==
    /\ pc = "link"
    /\ links' = TRUE
    /\ Goto("start")
    /\ UNCHANGED <<inputs, tree, archive, docs, stuck, tmp, runner, known, told,
                   late, why>>

\* set -e: mkdir, rm, cd or ln fails and ends the script without a post.
LocalCommandFails ==
    /\ pc \in {"check", "extract", "fetching", "link"}
    /\ Goto("exit")
    /\ why' = why \cup {"local"}
    /\ UNCHANGED <<inputs, files, runner, known, told, late>>

\* ./run.sh & and, one command later, runner_pid=$!
StartRunner ==
    /\ pc = "start"
    /\ runner' = "running"
    /\ Goto("note")
    /\ UNCHANGED <<inputs, files, known, told, late, why>>

NotePid ==
    /\ pc = "note"
    /\ known' = TRUE
    /\ Goto("ready")
    /\ UNCHANGED <<inputs, files, runner, told, late, why>>

\* mutant: idle is posted although the runner is gone.
ReadyAnyway ==
    /\ pc = "ready"
    /\ Goto("info")
    /\ UNCHANGED <<inputs, files, runner, known, told, late, why>>
\* sleep and kill -0.
Ready ==
    /\ pc = "ready"
    /\ IF runner = "running" THEN Goto("info") ELSE Fail
    /\ UNCHANGED <<inputs, files, runner, known, told, late, why>>

\* The last wait: the runner's job is done.
Serve ==
    /\ pc = "serve" /\ runner = "ended"
    /\ known' = FALSE
    /\ Goto("exit")
    /\ UNCHANGED <<inputs, files, runner, told, late, why>>

\* The wait of terminate_runner and of the exits 30 and 31.
Reap ==
    /\ pc = "reap" /\ runner = "ended"
    /\ Goto("exit")
    /\ UNCHANGED <<inputs, files, runner, known, told, late, why>>
\* The end of a workload's init ends its runner as well.
EndsWithInit == runner' = IF pidOne /\ runner = "running" THEN "ended" ELSE runner

\* mutant: the .tmp document is forgotten.
CleanupButTmp ==
    /\ pc = "exit"
    /\ docs' = 0 /\ links' = FALSE /\ archive' = "none"
    /\ Goto("ended")
    /\ EndsWithInit
    /\ UNCHANGED <<inputs, tree, stuck, tmp, known, told, late, why>>
\* cleanup_credentials, the EXIT trap.
CleanupCredentials ==
    /\ pc = "exit"
    /\ docs' = 0 /\ stuck' = 0 /\ tmp' = "none" /\ links' = FALSE
    /\ archive' = "none"
    /\ Goto("ended")
    /\ EndsWithInit
    /\ UNCHANGED <<inputs, tree, known, told, late, why>>

Script == \/ PrestagedRunnerMatches \/ PostJson
          \/ DownloadRunner \/ VerifyArchive \/ ExtractRunner \/ CheckRunner
          \/ FetchMetadata \/ KeepDocument \/ LinkDocuments
          \/ StartRunner \/ NotePid \/ Ready
          \/ Serve \/ Reap \/ CleanupCredentials

\* INT, TERM or HUP reaches the shell: terminate_runner, at the next command
\* boundary or at once if the shell is waiting for the runner.
Signal ==
    /\ pc \notin Over
    /\ IF known THEN TerminateRunner ELSE Goto("exit")
    /\ why' = why \cup {"signal"} \cup (IF pc = "note" THEN {"fork"} ELSE {})
    /\ UNCHANGED <<inputs, files, runner, known, told, late>>

\* With an app's init goes the memory file system that holds JIT_DIR.
MemoryGoes == IF pidOne THEN docs' = 0 /\ stuck' = 0 /\ tmp' = "none"
              ELSE UNCHANGED <<docs, stuck, tmp>>

\* The signal comes when the shell has disarmed the EXIT trap to run it:
\* terminate_runner exits before cleanup_credentials has done its rm.  What
\* runner there is has ended, or is not known.
SignalInTrap ==
    /\ pc = "exit"
    /\ Goto("ended")
    /\ why' = why \cup {"signal", "trap"}
    /\ MemoryGoes
    /\ EndsWithInit
    /\ UNCHANGED <<inputs, tree, archive, links, known, told, late>>

\* KILL: no trap runs.
Kill ==
    /\ pc \notin Over
    /\ Goto("killed")
    /\ MemoryGoes
    /\ EndsWithInit
    /\ UNCHANGED <<inputs, tree, archive, links, known, told, late, why>>
-----------------------------------------------------------------------------
(* Outside the script.                                                     *)

RunnerEnds ==
    /\ runner = "running"
    /\ runner' = "ended"
    /\ why' = IF pc \in {"note", "ready"} THEN why \cup {"early"} ELSE why
    /\ UNCHANGED <<inputs, pc, attempt, files, known, told, late>>

\* A post the script no longer waits for reaches GARM.
LatePost ==
    /\ TokenAccepted
    /\ \E s \in late : told' = told \cup {s} /\ late' = late \ {s}
    /\ UNCHANGED <<inputs, pc, attempt, files, runner, known, why>>

\* An operator starts a finished app once more: its init is this script, the
\* memory file system is empty, what RUNNER_HOME holds is still there.  (In a
\* container or a VM nothing starts the script a second time.)
Restart ==
    /\ pidOne /\ pc \in Over /\ "restart" \notin why
    /\ why' = (why \ {"trap"}) \cup {"restart"}
               \cup (IF "idle" \in told THEN {"spent"} ELSE {})
    /\ Goto("match")
    /\ image' = (image /\ ~links)
    /\ links' = (links /\ tree = "release")
    /\ docs' = 0 /\ stuck' = 0 /\ tmp' = "none"
    /\ runner' = "none" /\ known' = FALSE
    /\ UNCHANGED <<pidOne, release, tree, archive, told, late>>

Init ==
    /\ pidOne \in BOOLEAN
    /\ image \in BOOLEAN
    /\ release \in Release
    /\ pc = "match" /\ attempt = 1
    /\ tree = "none" /\ archive = "none"
    /\ docs = 0 /\ stuck = 0 /\ tmp = "none" /\ links = FALSE
    /\ runner = "none" /\ known = FALSE
    /\ told = {} /\ late = {} /\ why = {}

Next == \/ Script \/ LocalCommandFails \/ Signal \/ SignalInTrap \/ Kill
        \/ RunnerEnds \/ LatePost \/ Restart

Spec == Init /\ [][Next]_vars

\* Every command ends (curl has --max-time), and a runner that was sent TERM
\* ends.  Signals are not fair, nor is the arrival of a job.
FairSpec == Spec /\ WF_vars(Script) /\ WF_vars(pc = "reap" /\ RunnerEnds)
-----------------------------------------------------------------------------
(* Properties.                                                             *)

Types ==
    /\ pidOne \in BOOLEAN /\ image \in BOOLEAN /\ release \in Release
    /\ pc \in PC /\ attempt \in 1..MaxAttempts
    /\ tree \in {"none", "partial", "image", "release"}
    /\ archive \in {"none", "other", "whole", "kept"}
    /\ docs \in 0..Documents /\ stuck \in 0..Documents
    /\ tmp \in {"none", "part", "whole"}
    /\ links \in BOOLEAN
    /\ runner \in {"none", "running", "ended"} /\ known \in BOOLEAN
    /\ told \subseteq Status /\ late \subseteq Status
    /\ why \subseteq {"post", "local", "signal", "fork", "trap", "early",
                "restart", "spent"}

\* Every variable has its type; half-made files exist only at the commands
\* that may leave them, and runner_pid names a runner that was started.
TypeOK ==
    /\ Types
    /\ archive = "other" =>
          pc \in {"verify", "exit"} \cup Over \/ "restart" \in why
    /\ tmp # "none" => pc \in {"keep", "exit"} \cup Over
    /\ known => runner # "none"

\* The runner starts from the image's own tree of the exact version or from
\* an archive that passed its checksum, complete with Node 24, and keeps all
\* its credential documents as long as the script lives, however many attempts
\* it took to get them (docs/architecture.md:27); but one that mv has not moved
\* is still under its .tmp name, which the script does not notice.
StartedFromVerifiedTree ==
    runner = "running" /\ pc # "ended" =>
       Complete /\ Kept = Documents /\ links

\* However the script ends, short of KILL and of a signal that strikes while it
\* runs its EXIT trap, it leaves no credential document, no link to one and no
\* archive, whole or in part, at whatever command a signal or a failure has
\* struck.
NothingLeftBehind ==
    pc = "ended" /\ "trap" \notin why =>
       Kept = 0 /\ tmp = "none" /\ ~links /\ archive = "none"

\* The script does not end before its runner, unless a signal struck between
\* the fork and the assignment of runner_pid, when terminate_runner does not
\* know the runner yet, and the script is not the workload's init.
NoOrphan == pc = "ended" /\ runner = "running" => "fork" \in why /\ ~pidOne

\* A script that ends without a runner at work has told GARM so, unless a
\* signal, a post that was never answered or a local command ended it: no
\* other exit is silent.
FailureReported ==
    pc = "ended" /\ told \cap {"failed", "idle"} = {} =>
       why \cap {"signal", "post", "local"} # {}

\* GARM takes a runner for idle only if it outlived the ready delay and its
\* system information has arrived, and never next to a failure, although
\* posts are repeated and may arrive after curl has given them up (in the
\* workload's first run: a later one may inherit the late posts of the first).
IdleTruthful ==
    "idle" \in told /\ "restart" \notin why =>
       "info" \in told /\ "failed" \notin told /\ "early" \notin why

\* When GARM has had a runner from this workload, no other is started in it,
\* even if an operator starts the app again: the token is refused, and that
\* ends the script before anything is fetched or run.
NoSecondRunner == "spent" \in why => runner = "none"

\* Once signals cease the script ends, or serves a runner that runs: every
\* loop of attempts is bounded and no wait is for a runner that goes on.
ScriptSettles ==
    <>[][~Signal]_vars =>
       []<>(pc \in Over \/ (pc = "serve" /\ runner = "running"))
=============================================================================
