------------------------ MODULE RunnerBootstrapProofs ------------------------
(* What holds of the bootstrap script for every number of attempts and of  *)
(* credential documents, proved with TLAPS.                                *)
EXTENDS RunnerBootstrap, TLAPS

\* The commands up to the start of the runner, and those after it.
Preparing == {"match", "installing", "download", "verify", "extract", "check",
              "fetching", "fetch", "keep", "link", "start"}
Started == {"note", "ready", "info", "idle", "serve"}

\* What the disk holds at each command of the preparation, and a runner that
\* runs stands on all of it.
Staged ==
    /\ pc \in Preparing \ {"fetch", "keep", "link", "start"} => Kept = 0
    /\ pc \in {"fetch", "keep"} => Kept < Documents
    /\ pc \in {"link", "start"} => Kept = Documents
    /\ pc = "start" => links
    /\ pc \in {"fetching", "fetch", "keep", "link", "start"} => Complete
    /\ runner = "running" /\ pc # "ended" =>
          Complete /\ Kept = Documents /\ links

\* Half-made files date from before the start of a runner.
Leftover ==
    /\ archive = "other" =>
          (pc \in {"verify", "exit"} \cup Over /\ ~known) \/ "restart" \in why
    /\ tmp # "none" => pc \in {"keep", "exit"} \cup Over /\ ~known
    /\ known => runner # "none"

\* There is a runner from its start on, and the script has noted its process
\* id, except between the fork and the assignment.
Supervised ==
    /\ runner # "none" => pc \notin Preparing
    /\ pc \in Started => runner # "none"
    /\ pc \in (Started \ {"note"}) \cup {"reap"} => known
    /\ pc = "failed" => runner # "running"
    /\ pc = "exit" /\ runner = "running" => "fork" \in why

\* A script on its way out has a reason that GARM or the history knows.
Excuse == \/ told \cap {"failed", "idle"} # {}
          \/ why \cap {"signal", "post", "local"} # {}
Explained == pc \in {"serve", "reap", "exit", "ended"} => Excuse

\* What GARM has heard, or may still hear, in the workload's first run.
Heard == told \cup late
FirstRun ==
    "restart" \notin why =>
       /\ "idle" \in Heard =>
             pc \in {"idle", "serve", "reap", "exit"} \cup Over
       /\ "failed" \in Heard => pc \in {"failed", "reap", "exit"} \cup Over
       /\ "early" \in why =>
             pc \in {"note", "ready", "failed", "reap", "exit"} \cup Over
       /\ "early" \in why => runner # "running"
       /\ pc \in {"idle", "serve"} \/ "idle" \in Heard => "info" \in told
       /\ ~({"idle", "failed"} \subseteq Heard)
       /\ ~("idle" \in Heard /\ "early" \in why)

\* A restart after the runner was idle gets no further than its first post.
Spent ==
    "spent" \in why =>
       /\ "restart" \in why /\ "idle" \in told
       /\ runner = "none"
       /\ pc \in {"match", "installing", "exit"} \cup Over

IInv == /\ Types /\ Leftover /\ Staged /\ Supervised
        /\ Explained /\ FirstRun /\ Spent
        /\ NothingLeftBehind /\ NoOrphan
-----------------------------------------------------------------------------
\* Every command keeps the types; docs stays in 0..Documents because the
\* documents are fetched one after the other (Staged).
LEMMA TypesStep ==
  ASSUME Types, Staged, Supervised, [Next]_vars PROVE Types'
  <1> USE BootstrapAssumption DEF Types, Staged, Kept, PC, Post
  <1>1. CASE PrestagedRunnerMatches
    BY <1>1 DEF PrestagedRunnerMatches, Goto, inputs
  <1>2. CASE PostJson
    BY <1>2 DEF PostJson, Answered, Unanswered, Again, TerminateRunner, Goto,
       StatusOf, Post, files, inputs, Status
  <1>3. CASE DownloadRunner
    BY <1>3 DEF DownloadRunner, inputs
  <1>4. CASE VerifyArchive
    BY <1>4 DEF VerifyArchive, Retry, Fail, Goto, inputs
  <1>5. CASE ExtractRunner
    <2>1. links' \in BOOLEAN
      BY <1>5 DEF ExtractRunner
    <2> QED
      BY <1>5, <2>1 DEF ExtractRunner, Fail, Goto, inputs
  <1>6. CASE CheckRunner
    BY <1>6 DEF CheckRunner, Fail, Goto, files, inputs
  <1>7. CASE FetchMetadata
    BY <1>7 DEF FetchMetadata, inputs
  <1>8. CASE KeepDocument
    BY <1>8 DEF KeepDocument, Retry, Fail, Goto, inputs
  <1>9. CASE LinkDocuments
    BY <1>9 DEF LinkDocuments, Goto, inputs
  <1>10. CASE StartRunner
    BY <1>10 DEF StartRunner, Goto, files, inputs
  <1>11. CASE NotePid
    BY <1>11 DEF NotePid, Goto, files, inputs
  <1>12. CASE Ready
    BY <1>12 DEF Ready, Fail, Goto, files, inputs
  <1>13. CASE Serve
    <2>1. known' \in BOOLEAN
      BY <1>13 DEF Serve
    <2> QED
      BY <1>13, <2>1 DEF Serve, Goto, files, inputs
  <1>14. CASE Reap
    BY <1>14 DEF Reap, Goto, files, inputs
  <1>15. CASE CleanupCredentials
    <2>1. links' \in BOOLEAN
      BY <1>15 DEF CleanupCredentials
    <2> QED
      BY <1>15, <2>1 DEF CleanupCredentials, Goto, EndsWithInit, inputs
  <1>16. CASE LocalCommandFails
    BY <1>16 DEF LocalCommandFails, Goto, files, inputs
  <1>17. CASE Signal
    BY <1>17 DEF Signal, TerminateRunner, Goto, files, Over, inputs
  <1>18. CASE Kill
    BY <1>18 DEF Kill, Goto, MemoryGoes, EndsWithInit, Over, inputs
  <1>19. CASE RunnerEnds
    BY <1>19 DEF RunnerEnds, files, inputs
  <1>20. CASE LatePost
    BY <1>20 DEF LatePost, files, inputs, Status
  <1>21. CASE Restart
    <2>1. links' \in BOOLEAN /\ known' \in BOOLEAN /\ image' \in BOOLEAN
      BY <1>21 DEF Restart
    <2> QED
      BY <1>21, <2>1 DEF Restart, Goto, inputs
  <1>22. CASE SignalInTrap
    BY <1>22 DEF SignalInTrap, Goto, MemoryGoes, EndsWithInit, Over, inputs
  <1>23. CASE UNCHANGED vars
    BY <1>23 DEF vars, inputs, files
  <1> QED
    BY <1>1, <1>2, <1>3, <1>4, <1>5, <1>6, <1>7, <1>8, <1>9, <1>10, <1>11,
       <1>12, <1>13, <1>14, <1>15, <1>16, <1>17, <1>18, <1>19, <1>20, <1>21,
       <1>22, <1>23 DEF Next, Script

\* A half-made file goes with its own command or with the clean-up.
LEMMA LeftoverStep ==
  ASSUME Leftover, Types, Supervised, [Next]_vars PROVE Leftover'
  <1> USE DEF Types, Leftover, Supervised, Preparing, Started, Over
  <1>1. CASE PrestagedRunnerMatches
    BY <1>1 DEF PrestagedRunnerMatches, Goto, inputs
  <1>2. CASE PostJson
    BY <1>2 DEF PostJson, Answered, Unanswered, Again, TerminateRunner, Goto,
       StatusOf, Post, files, inputs
  <1>3. CASE DownloadRunner
    BY <1>3 DEF DownloadRunner, inputs
  <1>4. CASE VerifyArchive
    BY <1>4 DEF VerifyArchive, Retry, Fail, Goto, inputs
  <1>5. CASE ExtractRunner
    BY <1>5 DEF ExtractRunner, Fail, Goto, inputs
  <1>6. CASE CheckRunner
    BY <1>6 DEF CheckRunner, Fail, Goto, files, inputs
  <1>7. CASE FetchMetadata
    BY <1>7 DEF FetchMetadata, inputs
  <1>8. CASE KeepDocument
    BY <1>8 DEF KeepDocument, Retry, Fail, Goto, inputs
  <1>9. CASE LinkDocuments
    BY <1>9 DEF LinkDocuments, Goto, inputs
  <1>10. CASE StartRunner
    BY <1>10 DEF StartRunner, Goto, files, inputs
  <1>11. CASE NotePid
    BY <1>11 DEF NotePid, Goto, files, inputs
  <1>12. CASE Ready
    BY <1>12 DEF Ready, Fail, Goto, files, inputs
  <1>13. CASE Serve
    BY <1>13 DEF Serve, Goto, files, inputs
  <1>14. CASE Reap
    BY <1>14 DEF Reap, Goto, files, inputs
  <1>15. CASE CleanupCredentials
    BY <1>15 DEF CleanupCredentials, Goto, EndsWithInit, inputs
  <1>16. CASE LocalCommandFails
    BY <1>16 DEF LocalCommandFails, Goto, files, inputs
  <1>17. CASE Signal
    <2>1. pc' = "reap" \/ pc' = "exit"
      BY <1>17 DEF Signal, TerminateRunner, Goto
    <2>2. pc' = "reap" <=> known
      BY <1>17 DEF Signal, TerminateRunner, Goto
    <2>3. UNCHANGED <<archive, tmp, known, runner>>
      BY <1>17 DEF Signal, files
    <2> QED
      BY <1>17, <2>1, <2>2, <2>3 DEF Signal, Over, PC, Post
  <1>18. CASE Kill
    BY <1>18 DEF Kill, Goto, MemoryGoes, EndsWithInit, Over, inputs
  <1>19. CASE RunnerEnds
    BY <1>19 DEF RunnerEnds, files, inputs
  <1>20. CASE LatePost
    BY <1>20 DEF LatePost, files, inputs
  <1>21. CASE Restart
    BY <1>21 DEF Restart, Goto, Over, inputs
  <1>22. CASE SignalInTrap
    BY <1>22 DEF SignalInTrap, Goto, MemoryGoes, EndsWithInit, Over, inputs
  <1>23. CASE UNCHANGED vars
    BY <1>23 DEF vars, inputs, files
  <1> QED
    BY <1>1, <1>2, <1>3, <1>4, <1>5, <1>6, <1>7, <1>8, <1>9, <1>10, <1>11,
       <1>12, <1>13, <1>14, <1>15, <1>16, <1>17, <1>18, <1>19, <1>20, <1>21,
       <1>22, <1>23 DEF Next, Script

\* A command leaves on disk what the next one counts on.
LEMMA StagedStep ==
  ASSUME Types, Staged, Supervised, [Next]_vars PROVE Staged'
  <1> USE BootstrapAssumption DEF Types, Staged, Kept, Preparing, Complete
  <1>1. CASE PrestagedRunnerMatches
    BY <1>1 DEF PrestagedRunnerMatches, Goto, inputs, Supervised, Started
  <1>2. CASE PostJson
    BY <1>2 DEF PostJson, Answered, Unanswered, Again, TerminateRunner, Goto,
       StatusOf, Post, files, inputs, Supervised, Started
  <1>3. CASE DownloadRunner
    BY <1>3 DEF DownloadRunner, inputs
  <1>4. CASE VerifyArchive
    BY <1>4 DEF VerifyArchive, Retry, Fail, Goto, inputs
  <1>5. CASE ExtractRunner
    BY <1>5 DEF ExtractRunner, Fail, Goto, inputs, Supervised, Started
  <1>6. CASE CheckRunner
    BY <1>6 DEF CheckRunner, Fail, Goto, files, inputs
  <1>7. CASE FetchMetadata
    BY <1>7 DEF FetchMetadata, inputs
  <1>8. CASE KeepDocument
    BY <1>8 DEF KeepDocument, Retry, Fail, Goto, inputs, Supervised, Started
  <1>9. CASE LinkDocuments
    BY <1>9 DEF LinkDocuments, Goto, inputs
  <1>10. CASE StartRunner
    BY <1>10 DEF StartRunner, Goto, files, inputs
  <1>11. CASE NotePid
    BY <1>11 DEF NotePid, Goto, files, inputs
  <1>12. CASE Ready
    BY <1>12 DEF Ready, Fail, Goto, files, inputs
  <1>13. CASE Serve
    BY <1>13 DEF Serve, Goto, files, inputs, Supervised, Started
  <1>14. CASE Reap
    BY <1>14 DEF Reap, Goto, files, inputs, Supervised, Started
  <1>15. CASE CleanupCredentials
    BY <1>15 DEF CleanupCredentials, Goto, EndsWithInit, inputs, Supervised,
       Started
  <1>16. CASE LocalCommandFails
    BY <1>16 DEF LocalCommandFails, Goto, files, inputs
  <1>17. CASE Signal
    BY <1>17 DEF Signal, TerminateRunner, Goto, files, Over, inputs,
       Supervised, Started
  <1>18. CASE Kill
    BY <1>18 DEF Kill, Goto, MemoryGoes, EndsWithInit, Over, inputs, Supervised, Started
  <1>19. CASE RunnerEnds
    BY <1>19 DEF RunnerEnds, files, inputs
  <1>20. CASE LatePost
    BY <1>20 DEF LatePost, files, inputs
  <1>21. CASE Restart
    BY <1>21 DEF Restart, Goto, Over, inputs, Supervised, Started
  <1>22. CASE SignalInTrap
    BY <1>22 DEF SignalInTrap, Goto, MemoryGoes, EndsWithInit, Over, inputs
  <1>23. CASE UNCHANGED vars
    BY <1>23 DEF vars, inputs, files
  <1> QED
    BY <1>1, <1>2, <1>3, <1>4, <1>5, <1>6, <1>7, <1>8, <1>9, <1>10, <1>11,
       <1>12, <1>13, <1>14, <1>15, <1>16, <1>17, <1>18, <1>19, <1>20, <1>21,
       <1>22, <1>23 DEF Next, Script

\* Who starts the runner, notes it, and waits for it before the exit.
LEMMA SupervisedStep ==
  ASSUME Types, Leftover, Supervised, [Next]_vars PROVE Supervised'
  <1> USE DEF Types, Leftover, Supervised, Preparing, Started
  <1>1. CASE PrestagedRunnerMatches
    BY <1>1 DEF PrestagedRunnerMatches, Goto, inputs
  <1>2. CASE PostJson
    BY <1>2 DEF PostJson, Answered, Unanswered, Again, TerminateRunner, Goto,
       StatusOf, Post, files, inputs
  <1>3. CASE DownloadRunner
    BY <1>3 DEF DownloadRunner, inputs
  <1>4. CASE VerifyArchive
    BY <1>4 DEF VerifyArchive, Retry, Fail, Goto, inputs
  <1>5. CASE ExtractRunner
    BY <1>5 DEF ExtractRunner, Fail, Goto, inputs
  <1>6. CASE CheckRunner
    BY <1>6 DEF CheckRunner, Fail, Goto, files, inputs
  <1>7. CASE FetchMetadata
    BY <1>7 DEF FetchMetadata, inputs
  <1>8. CASE KeepDocument
    BY <1>8 DEF KeepDocument, Retry, Fail, Goto, inputs
  <1>9. CASE LinkDocuments
    BY <1>9 DEF LinkDocuments, Goto, inputs
  <1>10. CASE StartRunner
    BY <1>10 DEF StartRunner, Goto, files, inputs
  <1>11. CASE NotePid
    BY <1>11 DEF NotePid, Goto, files, inputs
  <1>12. CASE Ready
    BY <1>12 DEF Ready, Fail, Goto, files, inputs
  <1>13. CASE Serve
    BY <1>13 DEF Serve, Goto, files, inputs
  <1>14. CASE Reap
    BY <1>14 DEF Reap, Goto, files, inputs
  <1>15. CASE CleanupCredentials
    BY <1>15 DEF CleanupCredentials, Goto, EndsWithInit, inputs
  <1>16. CASE LocalCommandFails
    BY <1>16 DEF LocalCommandFails, Goto, files, inputs
  <1>17. CASE Signal
    <2>1. pc' = "reap" \/ pc' = "exit"
      BY <1>17 DEF Signal, TerminateRunner, Goto
    <2>2. pc' = "reap" <=> known
      BY <1>17 DEF Signal, TerminateRunner, Goto
    <2>3. UNCHANGED <<archive, tmp, known, runner>>
      BY <1>17 DEF Signal, files
    <2> QED
      BY <1>17, <2>1, <2>2, <2>3 DEF Signal, Over, PC, Post
  <1>18. CASE Kill
    BY <1>18 DEF Kill, Goto, MemoryGoes, EndsWithInit, Over, inputs
  <1>19. CASE RunnerEnds
    BY <1>19 DEF RunnerEnds, files, inputs
  <1>20. CASE LatePost
    BY <1>20 DEF LatePost, files, inputs
  <1>21. CASE Restart
    BY <1>21 DEF Restart, Goto, Over, inputs
  <1>22. CASE SignalInTrap
    BY <1>22 DEF SignalInTrap, Goto, MemoryGoes, EndsWithInit, Over, inputs
  <1>23. CASE UNCHANGED vars
    BY <1>23 DEF vars, inputs, files
  <1> QED
    BY <1>1, <1>2, <1>3, <1>4, <1>5, <1>6, <1>7, <1>8, <1>9, <1>10, <1>11,
       <1>12, <1>13, <1>14, <1>15, <1>16, <1>17, <1>18, <1>19, <1>20, <1>21,
       <1>22, <1>23 DEF Next, Script

\* Every way to the exit has told GARM, or leaves its reason in the history.
LEMMA ExplainedStep ==
  ASSUME Types, Explained, Supervised, FirstRun, [Next]_vars PROVE Explained'
  <1> USE DEF Types, Explained, Excuse
  <1>1. CASE PrestagedRunnerMatches
    BY <1>1 DEF PrestagedRunnerMatches, Goto, inputs
  <1>2. CASE PostJson
    BY <1>2 DEF PostJson, Answered, Unanswered, Again, TerminateRunner, Goto,
       StatusOf, Post, files, inputs
  <1>3. CASE DownloadRunner
    BY <1>3 DEF DownloadRunner, inputs
  <1>4. CASE VerifyArchive
    BY <1>4 DEF VerifyArchive, Retry, Fail, Goto, inputs
  <1>5. CASE ExtractRunner
    BY <1>5 DEF ExtractRunner, Fail, Goto, inputs
  <1>6. CASE CheckRunner
    BY <1>6 DEF CheckRunner, Fail, Goto, files, inputs
  <1>7. CASE FetchMetadata
    BY <1>7 DEF FetchMetadata, inputs
  <1>8. CASE KeepDocument
    BY <1>8 DEF KeepDocument, Retry, Fail, Goto, inputs
  <1>9. CASE LinkDocuments
    BY <1>9 DEF LinkDocuments, Goto, inputs
  <1>10. CASE StartRunner
    BY <1>10 DEF StartRunner, Goto, files, inputs
  <1>11. CASE NotePid
    BY <1>11 DEF NotePid, Goto, files, inputs
  <1>12. CASE Ready
    BY <1>12 DEF Ready, Fail, Goto, files, inputs
  <1>13. CASE Serve
    BY <1>13 DEF Serve, Goto, files, inputs
  <1>14. CASE Reap
    BY <1>14 DEF Reap, Goto, files, inputs
  <1>15. CASE CleanupCredentials
    BY <1>15 DEF CleanupCredentials, Goto, EndsWithInit, inputs
  <1>16. CASE LocalCommandFails
    BY <1>16 DEF LocalCommandFails, Goto, files, inputs
  <1>17. CASE Signal
    BY <1>17 DEF Signal, TerminateRunner, Goto, files, Over, inputs
  <1>18. CASE Kill
    BY <1>18 DEF Kill, Goto, MemoryGoes, EndsWithInit, Over, inputs
  <1>19. CASE RunnerEnds
    BY <1>19 DEF RunnerEnds, files, inputs
  <1>20. CASE LatePost
    BY <1>20 DEF LatePost, files, inputs
  <1>21. CASE Restart
    BY <1>21 DEF Restart, Goto, Over, inputs
  <1>22. CASE SignalInTrap
    BY <1>22 DEF SignalInTrap, Goto, MemoryGoes, EndsWithInit, Over, inputs
  <1>23. CASE UNCHANGED vars
    BY <1>23 DEF vars, inputs, files
  <1> QED
    BY <1>1, <1>2, <1>3, <1>4, <1>5, <1>6, <1>7, <1>8, <1>9, <1>10, <1>11,
       <1>12, <1>13, <1>14, <1>15, <1>16, <1>17, <1>18, <1>19, <1>20, <1>21,
       <1>22, <1>23 DEF Next, Script

\* idle and failed exclude each other, posts that may still arrive included.
LEMMA FirstRunStep ==
  ASSUME Types, FirstRun, Supervised, [Next]_vars PROVE FirstRun'
  <1> USE DEF FirstRun, Heard, Over
  <1>1. CASE PrestagedRunnerMatches
    BY <1>1 DEF PrestagedRunnerMatches, Goto, inputs
  <1>2. CASE PostJson
    BY <1>2 DEF PostJson, Answered, Unanswered, Again, TerminateRunner, Goto,
       StatusOf, Post, files, inputs
  <1>3. CASE DownloadRunner
    BY <1>3 DEF DownloadRunner, inputs
  <1>4. CASE VerifyArchive
    BY <1>4 DEF VerifyArchive, Retry, Fail, Goto, inputs
  <1>5. CASE ExtractRunner
    BY <1>5 DEF ExtractRunner, Fail, Goto, inputs
  <1>6. CASE CheckRunner
    BY <1>6 DEF CheckRunner, Fail, Goto, files, inputs
  <1>7. CASE FetchMetadata
    BY <1>7 DEF FetchMetadata, inputs
  <1>8. CASE KeepDocument
    BY <1>8 DEF KeepDocument, Retry, Fail, Goto, inputs
  <1>9. CASE LinkDocuments
    BY <1>9 DEF LinkDocuments, Goto, inputs
  <1>10. CASE StartRunner
    BY <1>10 DEF StartRunner, Goto, files, inputs, Supervised, Preparing
  <1>11. CASE NotePid
    BY <1>11 DEF NotePid, Goto, files, inputs
  <1>12. CASE Ready
    BY <1>12 DEF Ready, Fail, Goto, files, inputs
  <1>13. CASE Serve
    BY <1>13 DEF Serve, Goto, files, inputs
  <1>14. CASE Reap
    BY <1>14 DEF Reap, Goto, files, inputs
  <1>15. CASE CleanupCredentials
    BY <1>15 DEF CleanupCredentials, Goto, EndsWithInit, inputs
  <1>16. CASE LocalCommandFails
    BY <1>16 DEF LocalCommandFails, Goto, files, inputs
  <1>17. CASE Signal
    BY <1>17 DEF Signal, TerminateRunner, Goto, files, Over, inputs
  <1>18. CASE Kill
    BY <1>18 DEF Kill, Goto, MemoryGoes, EndsWithInit, Over, inputs
  <1>19. CASE RunnerEnds
    BY <1>19 DEF RunnerEnds, files, inputs, Supervised, Preparing
  <1>20. CASE LatePost
    BY <1>20 DEF LatePost, files, inputs
  <1>21. CASE Restart
    BY <1>21 DEF Restart, Goto, Over, inputs
  <1>22. CASE SignalInTrap
    BY <1>22 DEF SignalInTrap, Goto, MemoryGoes, EndsWithInit, Over, inputs
  <1>23. CASE UNCHANGED vars
    BY <1>23 DEF vars, inputs, files
  <1> QED
    BY <1>1, <1>2, <1>3, <1>4, <1>5, <1>6, <1>7, <1>8, <1>9, <1>10, <1>11,
       <1>12, <1>13, <1>14, <1>15, <1>16, <1>17, <1>18, <1>19, <1>20, <1>21,
       <1>22, <1>23 DEF Next, Script

\* With the token spent, the first post fails, and with it the script.
LEMMA SpentStep ==
  ASSUME Types, Leftover, Spent, Supervised, [Next]_vars PROVE Spent'
  <1> USE DEF Spent, Leftover, Over
  <1>1. CASE PrestagedRunnerMatches
    BY <1>1 DEF PrestagedRunnerMatches, Goto, inputs
  <1>2. CASE PostJson
    BY <1>2 DEF PostJson, Answered, Unanswered, Again, TerminateRunner, Goto,
       StatusOf, Post, files, inputs, TokenAccepted
  <1>3. CASE DownloadRunner
    BY <1>3 DEF DownloadRunner, inputs
  <1>4. CASE VerifyArchive
    BY <1>4 DEF VerifyArchive, Retry, Fail, Goto, inputs
  <1>5. CASE ExtractRunner
    BY <1>5 DEF ExtractRunner, Fail, Goto, inputs
  <1>6. CASE CheckRunner
    BY <1>6 DEF CheckRunner, Fail, Goto, files, inputs
  <1>7. CASE FetchMetadata
    BY <1>7 DEF FetchMetadata, inputs
  <1>8. CASE KeepDocument
    BY <1>8 DEF KeepDocument, Retry, Fail, Goto, inputs
  <1>9. CASE LinkDocuments
    BY <1>9 DEF LinkDocuments, Goto, inputs
  <1>10. CASE StartRunner
    BY <1>10 DEF StartRunner, Goto, files, inputs
  <1>11. CASE NotePid
    BY <1>11 DEF NotePid, Goto, files, inputs
  <1>12. CASE Ready
    BY <1>12 DEF Ready, Fail, Goto, files, inputs
  <1>13. CASE Serve
    BY <1>13 DEF Serve, Goto, files, inputs
  <1>14. CASE Reap
    BY <1>14 DEF Reap, Goto, files, inputs
  <1>15. CASE CleanupCredentials
    BY <1>15 DEF CleanupCredentials, Goto, EndsWithInit, inputs
  <1>16. CASE LocalCommandFails
    BY <1>16 DEF LocalCommandFails, Goto, files, inputs
  <1>17. CASE Signal
    BY <1>17 DEF Signal, TerminateRunner, Goto, files, Over, inputs
  <1>18. CASE Kill
    BY <1>18 DEF Kill, Goto, MemoryGoes, EndsWithInit, Over, inputs
  <1>19. CASE RunnerEnds
    BY <1>19 DEF RunnerEnds, files, inputs
  <1>20. CASE LatePost
    BY <1>20 DEF LatePost, files, inputs, TokenAccepted
  <1>21. CASE Restart
    BY <1>21 DEF Restart, Goto, Over, inputs, Types
  <1>22. CASE SignalInTrap
    BY <1>22 DEF SignalInTrap, Goto, MemoryGoes, EndsWithInit, Over, inputs
  <1>23. CASE UNCHANGED vars
    BY <1>23 DEF vars, inputs, files
  <1> QED
    BY <1>1, <1>2, <1>3, <1>4, <1>5, <1>6, <1>7, <1>8, <1>9, <1>10, <1>11,
       <1>12, <1>13, <1>14, <1>15, <1>16, <1>17, <1>18, <1>19, <1>20, <1>21,
       <1>22, <1>23 DEF Next, Script

\* The exit trap removes what there is, and ends with the runner or before it.
LEMMA OutcomeStep ==
  ASSUME Types, Supervised, NothingLeftBehind, NoOrphan, [Next]_vars
  PROVE  (NothingLeftBehind /\ NoOrphan)'
  <1> USE DEF Types, NothingLeftBehind, NoOrphan, Supervised, Kept
  <1>1. CASE PrestagedRunnerMatches
    BY <1>1 DEF PrestagedRunnerMatches, Goto, inputs
  <1>2. CASE PostJson
    BY <1>2 DEF PostJson, Answered, Unanswered, Again, TerminateRunner, Goto,
       StatusOf, Post, files, inputs
  <1>3. CASE DownloadRunner
    BY <1>3 DEF DownloadRunner, inputs
  <1>4. CASE VerifyArchive
    BY <1>4 DEF VerifyArchive, Retry, Fail, Goto, inputs
  <1>5. CASE ExtractRunner
    BY <1>5 DEF ExtractRunner, Fail, Goto, inputs
  <1>6. CASE CheckRunner
    BY <1>6 DEF CheckRunner, Fail, Goto, files, inputs
  <1>7. CASE FetchMetadata
    BY <1>7 DEF FetchMetadata, inputs
  <1>8. CASE KeepDocument
    BY <1>8 DEF KeepDocument, Retry, Fail, Goto, inputs
  <1>9. CASE LinkDocuments
    BY <1>9 DEF LinkDocuments, Goto, inputs
  <1>10. CASE StartRunner
    BY <1>10 DEF StartRunner, Goto, files, inputs
  <1>11. CASE NotePid
    BY <1>11 DEF NotePid, Goto, files, inputs
  <1>12. CASE Ready
    BY <1>12 DEF Ready, Fail, Goto, files, inputs
  <1>13. CASE Serve
    BY <1>13 DEF Serve, Goto, files, inputs
  <1>14. CASE Reap
    BY <1>14 DEF Reap, Goto, files, inputs
  <1>15. CASE CleanupCredentials
    BY <1>15 DEF CleanupCredentials, Goto, EndsWithInit, inputs
  <1>16. CASE LocalCommandFails
    BY <1>16 DEF LocalCommandFails, Goto, files, inputs
  <1>17. CASE Signal
    BY <1>17 DEF Signal, TerminateRunner, Goto, files, Over, inputs
  <1>18. CASE Kill
    BY <1>18 DEF Kill, Goto, MemoryGoes, EndsWithInit, Over, inputs
  <1>19. CASE RunnerEnds
    BY <1>19 DEF RunnerEnds, files, inputs
  <1>20. CASE LatePost
    BY <1>20 DEF LatePost, files, inputs
  <1>21. CASE Restart
    BY <1>21 DEF Restart, Goto, Over, inputs
  <1>22. CASE SignalInTrap
    BY <1>22 DEF SignalInTrap, Goto, MemoryGoes, EndsWithInit, Over, inputs
  <1>23. CASE UNCHANGED vars
    BY <1>23 DEF vars, inputs, files
  <1> QED
    BY <1>1, <1>2, <1>3, <1>4, <1>5, <1>6, <1>7, <1>8, <1>9, <1>10, <1>11,
       <1>12, <1>13, <1>14, <1>15, <1>16, <1>17, <1>18, <1>19, <1>20, <1>21,
       <1>22, <1>23 DEF Next, Script
-----------------------------------------------------------------------------
LEMMA InitInv == Init => IInv
  <1> SUFFICES ASSUME Init PROVE IInv
    OBVIOUS
  <1>1. Types
    <2>1. links \in BOOLEAN /\ known \in BOOLEAN
      BY DEF Init
    <2> QED
      BY <2>1, BootstrapAssumption DEF Init, Types, PC, Post
  <1>2. Leftover /\ Staged /\ Supervised
    BY DEF Init, Leftover, Staged, Kept, Supervised, Preparing, Started
  <1>3. Explained /\ FirstRun /\ Spent /\ NothingLeftBehind /\ NoOrphan
    BY DEF Init, Explained, FirstRun, Heard, Spent, NothingLeftBehind, NoOrphan
  <1> QED
    BY <1>1, <1>2, <1>3 DEF IInv

\* The invariant behind the theorems, of every run of the script.
LEMMA Invariance == Spec => []IInv
  <1>1. IInv /\ [Next]_vars => IInv'
    BY TypesStep, LeftoverStep, StagedStep, SupervisedStep, ExplainedStep,
       FirstRunStep, SpentStep, OutcomeStep DEF IInv
  <1> QED
    BY <1>1, InitInv, PTL DEF Spec

\* Every variable has its type, and half-made files exist only at the commands
\* that may leave them (TypeOK).
THEOREM TypeCorrect == Spec => []TypeOK
  <1>1. IInv => TypeOK
    BY DEF IInv, Leftover, TypeOK
  <1> QED
    BY <1>1, Invariance, PTL

\* The runner runs only from a tree that was verified, with all its credential
\* documents fetched and, where mv has done its work, in place, however often a
\* command was repeated.
THEOREM RunsFromVerifiedTree == Spec => []StartedFromVerifiedTree
  <1>1. IInv => StartedFromVerifiedTree
    BY DEF IInv, Staged, StartedFromVerifiedTree
  <1> QED
    BY <1>1, Invariance, PTL

\* A script that ends, short of KILL and of a signal in its EXIT trap, leaves
\* no credential and no archive.
THEOREM LeavesNothingBehind == Spec => []NothingLeftBehind
  <1>1. IInv => NothingLeftBehind
    BY DEF IInv
  <1> QED
    BY <1>1, Invariance, PTL

\* The script ends before its runner only after a signal between the fork and
\* the assignment of runner_pid, and only as a child of init.
THEOREM LeavesNoOrphan == Spec => []NoOrphan
  <1>1. IInv => NoOrphan
    BY DEF IInv
  <1> QED
    BY <1>1, Invariance, PTL

\* A script that ends in silence was ended by a signal, by a post that was
\* never answered or by a local command: no other exit is silent.
THEOREM ReportsFailure == Spec => []FailureReported
  <1>1. IInv => FailureReported
    BY DEF IInv, Explained, Excuse, FailureReported
  <1> QED
    BY <1>1, Invariance, PTL

\* GARM never holds a runner for idle that failed or that ended before it was
\* ready, although posts are repeated and arrive late.
THEOREM IdleIsTrue == Spec => []IdleTruthful
  <1>1. IInv => IdleTruthful
    BY DEF IInv, FirstRun, Heard, IdleTruthful
  <1> QED
    BY <1>1, Invariance, PTL

\* An app that an operator starts again after GARM had a runner from it starts
\* none.
THEOREM StartsNoSecondRunner == Spec => []NoSecondRunner
  <1>1. IInv => NoSecondRunner
    BY DEF IInv, Spent, NoSecondRunner
  <1> QED
    BY <1>1, Invariance, PTL
=============================================================================
