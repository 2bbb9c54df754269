------------------------------ MODULE AppSession ------------------------------
(***************************************************************************)
(* What the desktop application leaves on disk between two runs: the       *)
(* session marker and the crash report (src-tauri session_marker.rs), and  *)
(* the deployment-session file, which commands read, change and write back *)
(* without a lock (commands deployment_session.rs).                        *)
(***************************************************************************)
EXTENDS Naturals, FiniteSets

CONSTANTS
  Pids,         \* processes of the application, numbered in the order they start
  FileCommands, \* commands on the deployment-session file in flight at a time
  Projects      \* project ids

ASSUME AppSessionAssumption ==
  Pids \subseteq Nat \ {0} /\ (\A p \in Pids : 1..p \subseteq Pids) /\ "none" \notin Projects

VARIABLES
  process,  \* per pid: "off", "on", and how it ended: "closed", "killed", "panicked"
  marker,   \* pid in .session.marker, 0: no file
  crash,    \* pid whose panic hook wrote .session.crash, 0: no file
  verdicts, \* what init reported to a process: "none", "panicked", "killed"
  doc,      \* deployment-session.json: a document, NoFile or Torn
  edit,     \* commands on it: idle, or about to write the document they made
  saved,    \* history: projects saved by a command that returned Ok, not removed since
  disturbed \* history: commands overlapped, or a process ended with one in flight

appVars == <<process, marker, crash, verdicts, doc, edit, saved, disturbed>>

Document(a, s) == [kind |-> "document", active |-> a, sessions |-> s]
NoFile == [Document("none", {}) EXCEPT !.kind = "absent"]
Torn == [Document("none", {}) EXCEPT !.kind = "torn"]
Free == [at |-> "idle", next |-> NoFile, op |-> "none", project |-> "none"]
Running == {p \in Pids : process[p] = "on"}
Previous(p) == {q \in Pids : q < p /\ \A r \in Pids : r < p => r <= q}

-----------------------------------------------------------------------------
(* Session marker.                                                         *)

\* detect_anomaly: the crash report counts before the marker of another pid.
DetectAnomaly(p) ==
  IF crash # 0 THEN "panicked" ELSE IF marker \notin {0, p} THEN "killed" ELSE "none"

\* Mutant: no marker is written when there was an anomaly.
StartUnmarked(p) ==
  /\ process[p] = "off" /\ Running = {} /\ \A q \in Previous(p) : process[q] # "off"
  /\ process' = [process EXCEPT ![p] = "on"] /\ verdicts' = [verdicts EXCEPT ![p] = DetectAnomaly(p)]
  /\ crash' = 0 /\ marker' = IF DetectAnomaly(p) = "none" THEN p ELSE 0
  /\ UNCHANGED <<doc, edit, saved, disturbed>>

\* init: the evidence is removed, the own marker is written.
Start(p) ==
  /\ process[p] = "off" /\ Running = {} /\ \A q \in Previous(p) : process[q] # "off"
  /\ process' = [process EXCEPT ![p] = "on"] /\ verdicts' = [verdicts EXCEPT ![p] = DetectAnomaly(p)]
  /\ crash' = 0 /\ marker' = p
  /\ UNCHANGED <<doc, edit, saved, disturbed>>

\* The panic hook runs for a panic that guarded_execute or tokio catches, too.
PanicHook(p) ==
  /\ p \in Running /\ crash' = p
  /\ UNCHANGED <<process, marker, verdicts, doc, edit, saved, disturbed>>

\* CloseRequested, restart_app: the marker goes, the crash report stays.
CleanShutdown(p) ==
  /\ p \in Running /\ process' = [process EXCEPT ![p] = "closed"]
  /\ marker' = 0 /\ edit' = [c \in FileCommands |-> Free]
  /\ disturbed' = (disturbed \/ \E c \in FileCommands : edit[c] # Free)
  /\ UNCHANGED <<crash, verdicts, doc, saved>>

\* A panic of the main thread, or a kill.
Die(p, how) ==
  /\ p \in Running /\ process' = [process EXCEPT ![p] = how]
  /\ crash' = IF how = "panicked" THEN p ELSE crash
  /\ edit' = [c \in FileCommands |-> Free]
  /\ disturbed' = (disturbed \/ \E c \in FileCommands : edit[c] # Free)
  /\ UNCHANGED <<marker, verdicts, doc, saved>>

-----------------------------------------------------------------------------
(* Deployment-session file.                                                *)

\* The active project is one of the sessions; an empty document has no file.
\* (One session per project is kept, the newest: a set of projects here.)
Normalize(d) ==
  IF d.sessions = {} THEN NoFile
  ELSE Document(IF d.active \in d.sessions THEN d.active ELSE "none", d.sessions)

\* save_deployment_session_file, with or without a new active project.
Saved(d, j, a) == Document(IF a = "keep" THEN d.active ELSE a, d.sessions \cup {j})

\* set_deployment_session_active_project_file
Activated(d, a) == Document(a, d.sessions)

\* remove_deployment_session_file
Removed(d, j) == Document(IF d.active = j THEN "none" ELSE d.active, d.sessions \ {j})

Edits(d) ==
  {[op |-> "save", project |-> j, next |-> Saved(d, j, a)] : j \in Projects, a \in Projects \cup {"keep", "none"}}
    \cup {[op |-> "activate", project |-> "none", next |-> Activated(d, a)] : a \in Projects \cup {"none"}}
    \cup {[op |-> "remove", project |-> j, next |-> Removed(d, j)] : j \in Projects}

\* A command reads the file; it fails when the text cannot be parsed.
ReadState(c) ==
  /\ Running # {} /\ edit[c] = Free /\ doc # Torn
  /\ \E e \in Edits(doc) :
       edit' = [edit EXCEPT ![c] = [at |-> "truncate", next |-> Normalize(e.next), op |-> e.op, project |-> e.project]]
  /\ disturbed' = (disturbed \/ \E b \in FileCommands : edit[b] # Free)
  /\ UNCHANGED <<process, marker, crash, verdicts, doc, saved>>

\* fs::write opens and truncates, ...
Truncate(c) ==
  /\ edit[c].at = "truncate" /\ edit[c].next # NoFile
  /\ doc' = Torn /\ edit' = [edit EXCEPT ![c].at = "fill"]
  /\ UNCHANGED <<process, marker, crash, verdicts, saved, disturbed>>

\* ... then writes; or the file is removed.
Fill(c) ==
  /\ edit[c].at = IF edit[c].next = NoFile THEN "truncate" ELSE "fill"
  /\ saved' = CASE edit[c].op = "save" -> saved \cup {edit[c].project}
                [] edit[c].op = "remove" -> saved \ {edit[c].project}
                [] OTHER -> saved
  /\ doc' = edit[c].next /\ edit' = [edit EXCEPT ![c] = Free]
  /\ UNCHANGED <<process, marker, crash, verdicts, disturbed>>

\* clear_deployment_session_file does not read what it removes.
ClearFile ==
  /\ Running # {} /\ doc' = NoFile /\ saved' = {}
  /\ disturbed' = (disturbed \/ \E b \in FileCommands : edit[b] # Free)
  /\ UNCHANGED <<process, marker, crash, verdicts, edit>>

-----------------------------------------------------------------------------
AppInit ==
  /\ process = [p \in Pids |-> "off"] /\ marker = 0 /\ crash = 0 /\ verdicts = [p \in Pids |-> "none"]
  /\ doc = NoFile /\ saved = {} /\ edit = [c \in FileCommands |-> Free] /\ disturbed = FALSE

AppNext ==
  \/ \E p \in Pids : Start(p) \/ PanicHook(p) \/ CleanShutdown(p) \/ \E how \in {"killed", "panicked"} : Die(p, how)
  \/ \E c \in FileCommands : ReadState(c) \/ Truncate(c) \/ Fill(c)
  \/ ClearFile

AppSpec == AppInit /\ [][AppNext]_appVars

-----------------------------------------------------------------------------
\* A run that did not end by closing the window is reported to the next one,
\* also when the run before it ended badly (session_marker.rs:48-66).
AnomalyIsReported ==
  \A p \in Pids : process[p] # "off" =>
    \A q \in Previous(p) : process[q] \in {"killed", "panicked"} => verdicts[p] # "none"

\* "The last session crashed by a panic" (session_marker.rs:19).
PanicReportMeansCrash ==
  \A p \in Pids : verdicts[p] = "panicked" => \A q \in Previous(p) : process[q] = "panicked"

\* A readable file names an active project that it has a session of, in
\* whatever order commands interleave and wherever a run ends
\* (deployment_session.rs:34-51).
DocumentNormal == doc.kind = "document" => doc.active \in doc.sessions \cup {"none"} /\ doc.sessions # {}

\* What was saved is in the file, across restarts, until it is removed or
\* cleared, as long as commands do not overlap and none is cut short
\* (deployment_session.rs:168-244).  (Overlapping commands lose updates.)
SavedSessionsSurvive == ~disturbed /\ doc # Torn => doc.sessions = saved

\* What the application leaves on disk is read back by the next run.
SessionFilesSound ==
  /\ AnomalyIsReported
  /\ DocumentNormal
  /\ SavedSessionsSurvive
=============================================================================
