---------------------------- MODULE AssetLibrary ----------------------------
(***************************************************************************)
(* The asset library of the desktop shell (src-tauri/src/asset_files/,     *)
(* commands/devices/, commands/capabilities.rs, commands/connections.rs)   *)
(* and the confirmation of the copilot's writes (commands/copilot.rs).     *)
(*                                                                         *)
(* One asset of a kind, in the project's workspace and in the default one: *)
(* its latest file, its numbered version files, and for a device the list  *)
(* of snapshots and the file of sources.  A command is a plan, one file    *)
(* operation per stage, each of which may fail; commands of several        *)
(* editors interleave between the stages, as nothing locks an asset.  Of   *)
(* the other assets of the kind the one matters whose name this one's      *)
(* begins with, as 'pump' for 'pump.valve': its deletion takes the version *)
(* files of this one.                                                      *)
(*                                                                         *)
(* Bounds: MaxCommands commands, MaxFaults failures and restarts, ages up  *)
(* to Lifetime + 1; MaxSnapshots stands for the 20 of the code.            *)
(***************************************************************************)
EXTENDS Naturals, Sequences, FiniteSets
SeqExt == INSTANCE SequencesExt

CONSTANTS
  Editors,        \* what issues commands: windows, the copilot's tool loop
  Tokens,         \* confirmation tokens
  Project, Home,  \* the workspace of the open project, and the default one
  Kinds,          \* subset of {"device", "capability", "connection"}
  Signals,        \* signals and alarms a device description may hold
  Links,          \* connections a device may be bound to
  Asset, Others,  \* the id of the asset, and those of others
  Drafts,         \* the texts an editor may save, a sequence
  ForeignVersion, \* the greatest version of an asset of Others, or 1
  Spoilt,         \* a text that does not parse as what it should be
  Missing, NoLink, Rejected, NoCall,
  MaxSnapshots, Lifetime, MaxCommands, MaxFaults

ASSUME AssetAssumption ==
  /\ Kinds \subseteq {"device", "capability", "connection"}
  /\ MaxSnapshots \in Nat \ {0}
  /\ Asset \notin Others

VARIABLES
  kind,     \* kind of the asset
  disk,     \* workspace -> the files of the asset
  job,      \* editor -> the command it is executing
  token,    \* token -> the write it stands for
  commands, faults,   \* how many there have been
  tangled,  \* workspaces where two commands have overlapped
  stripped  \* workspaces where versions went and the asset need not have: a
            \* deletion stopped half-way, or was of another asset

assetVars == <<kind, disk, job, token, commands, faults, tangled, stripped>>

Workspaces == {Project, Home}
Empty == [latest |-> Missing, versions |-> <<>>, snaps |-> Missing, sources |-> FALSE]
Idle == [op |-> "none", plan |-> <<>>, ws |-> Project, text |-> Missing,
         version |-> 0, target |-> 0, listed |-> <<>>]
Fresh == [status |-> "new", call |-> NoCall, ws |-> Project, age |-> 0,
          ran |-> <<>>, cancelled |-> FALSE]

Busy(w) == {e \in Editors : job[e].plan # <<>> /\ job[e].ws = w}
Stage(e) == IF job[e].plan = <<>> THEN "none" ELSE Head(job[e].plan)
Here(e) == disk[job[e].ws]

(***************************************************************************)
(* Version files.  The next number is one more than the greatest number a  *)
(* file has; there is no counter anywhere.                                 *)
(***************************************************************************)
Greatest(versions) == CHOOSE v \in DOMAIN versions : \A u \in DOMAIN versions : u <= v
NextVersion(versions) == IF DOMAIN versions = {} THEN 1 ELSE Greatest(versions) + 1
With(versions, n, text) ==
  [v \in DOMAIN versions \cup {n} |-> IF v = n THEN text ELSE versions[v]]

\* What opening a device shows: the latest text under the greatest number of
\* the asset that the text says it is of.
Detail(w) ==
  [version |-> IF disk[w].latest.id # Asset THEN ForeignVersion
               ELSE IF DOMAIN disk[w].versions = {} THEN 1 ELSE Greatest(disk[w].versions),
   text    |-> disk[w].latest]

(***************************************************************************)
(* The snapshot list: newest first, one entry per version, at most         *)
(* MaxSnapshots.  A list that cannot be read counts as empty.              *)
(***************************************************************************)
ReadSnapshots(snaps) == IF snaps \in {Missing, Spoilt} THEN <<>> ELSE snaps

\* The entries of a list other than n.
OtherThan(snaps, n) ==
  LET kept[i \in 0..Len(snaps)] ==
        IF i = 0 THEN <<>> ELSE IF snaps[i] = n THEN kept[i - 1] ELSE Append(kept[i - 1], snaps[i])
  IN  kept[Len(snaps)]

Appended(snaps, n) ==
  LET all == <<n>> \o OtherThan(snaps, n)
  IN  SubSeq(all, 1, IF Len(all) < MaxSnapshots THEN Len(all) ELSE MaxSnapshots)

Dropped(snaps, n) == OtherThan(snaps, n)

(***************************************************************************)
(* What a command makes of the latest text.                                *)
(***************************************************************************)
\* A JSON pointer that leads nowhere, or a value of another type, is refused.
Patched(c, i, value) ==
  IF i >= Len(c.signals) \/ value = Spoilt THEN Rejected
  ELSE [c EXCEPT !.signals[i + 1] = value]

\* The pointer may lead to the id: nothing compares it with the file's.
Renamed(c, id) == IF id = Spoilt THEN Rejected ELSE [c EXCEPT !.id = id]

Bound(c, link, typed) == [c EXCEPT !.link = IF typed = 1 THEN link ELSE NoLink]

Without(s, i) == SeqExt!RemoveAt(s, i + 1)

Edited(c, call) ==
  CASE call.op = "addSignal" ->
         IF call.item = Spoilt THEN Rejected ELSE [c EXCEPT !.signals = Append(@, call.item)]
    [] call.op = "removeSignal" ->
         IF call.index >= Len(c.signals) THEN Rejected
         ELSE [c EXCEPT !.signals = Without(@, call.index)]
    [] call.op = "addAlarm" ->
         IF call.item = Spoilt THEN Rejected ELSE [c EXCEPT !.alarms = Append(@, call.item)]
    [] call.op = "removeAlarm" ->
         IF call.index >= Len(c.alarms) THEN Rejected
         ELSE [c EXCEPT !.alarms = Without(@, call.index)]
    [] call.op = "patch" -> Patched(c, call.index, call.item)
    [] call.op = "patchId" -> Renamed(c, call.item)
    [] call.op = "bind"  -> Bound(c, call.item, call.index)

\* A saved text is parsed, and its id and its type compared with the command's.
SavedText(index) ==
  IF Drafts[index] = Spoilt THEN Rejected
  ELSE IF Drafts[index].id # Asset THEN Rejected ELSE Drafts[index]

LoadSpec(latest, call) ==
  IF latest \in {Missing, Spoilt} THEN Rejected ELSE Edited(latest, call)

\* A snapshot copies the file as it is, whether it parses or not.
Changed(latest, call) ==
  CASE call.op = "save" -> SavedText(call.index)
    [] call.op \in {"snapshot", "rollback"} -> IF latest = Missing THEN Rejected ELSE latest
    [] call.op \in {"delete", "deletePrefix", "dropSnapshot", "sources"} -> Missing
    [] OTHER -> LoadSpec(latest, call)

(***************************************************************************)
(* The plans: which files a command touches, in which order.               *)
(***************************************************************************)
Mirror == <<"latest", "version">>
Note == <<"list", "append">>

SaveDevice == <<"number">> \o Mirror \o Note
SaveCapability == <<"number">> \o Mirror
SaveConnection == <<"number">> \o Mirror
SaveEdit == SaveDevice
BindPlan == <<"latest">>
SnapshotPlan == SaveDevice

\* Mutant: a rollback takes no protection snapshot first.
RollbackUnprotected == <<"load">> \o SaveDevice \o SaveDevice
RollbackPlan == SaveDevice \o <<"load">> \o SaveDevice
DropPlan == <<"list", "drop">>
SourcesPlan == <<"sources">>

\* The deletion of the asset whose name this one's begins with: of the files of
\* this one it touches the versions.
DeletePrefixPlan == <<"dir", "rmVersions">>

DeletePlan(k) ==
  <<"rmLatest", "dir", "rmVersions">>
    \o (IF k = "connection" THEN <<>> ELSE <<"rmSources">>)
    \o (IF k = "device" THEN <<"rmSnaps">> ELSE <<>>)

Plan(op) ==
  CASE op = "save" -> (CASE kind = "device" -> SaveDevice
                         [] kind = "capability" -> SaveCapability
                         [] kind = "connection" -> SaveConnection)
    [] op = "delete" -> DeletePlan(kind)
    [] op = "deletePrefix" -> DeletePrefixPlan
    [] op = "bind" -> BindPlan
    [] op = "snapshot" -> SnapshotPlan
    [] op = "rollback" -> RollbackPlan
    [] op = "dropSnapshot" -> DropPlan
    [] op = "sources" -> SourcesPlan
    [] OTHER -> SaveEdit

Call(op, item, index) == [op |-> op, item |-> item, index |-> index]

\* The writes of the copilot's tools (WRITE_TOOLS) ...
CapabilityTools == {Call("save", Spoilt, i) : i \in DOMAIN Drafts}
SaveTools ==
  CapabilityTools \cup (IF kind = "device" THEN {Call("delete", Spoilt, 0)} ELSE {})
EditTools ==
  {Call("addSignal", s, 0) : s \in Signals \cup {Spoilt}}
    \cup {Call("removeSignal", Spoilt, i) : i \in 0..1}
    \cup {Call("patch", s, 0) : s \in Signals \cup {Spoilt}}
    \cup {Call("patchId", id, 0) : id \in Others \cup {Asset}}
    \cup {Call("bind", l, typed) : l \in Links, typed \in 0..1}
Writes == CASE kind = "device" -> SaveTools \cup EditTools
            [] kind = "capability" -> SaveTools
            [] kind = "connection" -> {}

\* ... and the commands of a window.
WindowCommands ==
  Writes \cup CapabilityTools \cup {Call("delete", Spoilt, 0), Call("deletePrefix", Spoilt, 0)}
    \cup (IF kind = "connection" THEN {} ELSE {Call("sources", Spoilt, 0)})
    \cup (IF kind # "device" THEN {}
          ELSE {Call("addAlarm", s, 0) : s \in Signals} \cup {Call("removeAlarm", Spoilt, 0)}
                 \cup {Call("snapshot", Spoilt, 0)}
                 \cup {Call(op, Spoilt, v) : op \in {"rollback", "dropSnapshot"}, v \in 1..2})

AssetInit ==
  /\ kind \in Kinds
  /\ disk = [w \in Workspaces |->
               IF w = Project
               THEN [Empty EXCEPT !.latest = Drafts[1], !.versions = <<Drafts[1]>>,
                                  !.snaps = IF kind = "device" THEN <<1>> ELSE Missing]
               ELSE Empty]
  /\ job = [e \in Editors |-> Idle]
  /\ token = [t \in Tokens |-> Fresh]
  /\ commands = 0 /\ faults = 0 /\ tangled = {} /\ stripped = {}

(***************************************************************************)
(* A command begins: it reads the latest file and refuses what it must.    *)
(***************************************************************************)
Started(e, call, w) ==
  [Idle EXCEPT !.op = call.op, !.plan = Plan(call.op), !.ws = w,
               !.text = Changed(disk[w].latest, call), !.target = call.index]

BeginCommand(e, call, w) ==
  /\ job[e].plan = <<>> /\ commands < MaxCommands
  /\ Changed(disk[w].latest, call) # Rejected
  /\ job' = [job EXCEPT ![e] = Started(e, call, w)]
  /\ commands' = commands + 1
  /\ tangled' = IF Busy(w) = {} THEN tangled ELSE tangled \cup {w}
  /\ stripped' = IF call.op = "deletePrefix" THEN stripped \cup {w} ELSE stripped
  /\ UNCHANGED <<kind, disk, faults>>

\* A command of a window; a tool call whose arguments say confirmed runs
\* the same way (copilot.rs:155).
Command(e, call) == BeginCommand(e, call, Project) /\ UNCHANGED token

(***************************************************************************)
(* The stages.  A command that fails at one returns there.                 *)
(***************************************************************************)
Step(e, stage) ==
  /\ Stage(e) = stage
  /\ UNCHANGED <<kind, token, commands, faults, tangled, stripped>>

Advance(e, now) ==
  job' = [job EXCEPT ![e] = IF Len(now.plan) = 1 THEN Idle
                            ELSE [now EXCEPT !.plan = Tail(@)]]
Store(e, files) == disk' = [disk EXCEPT ![job[e].ws] = files]

Number(e) ==
  /\ Step(e, "number")
  /\ Advance(e, [job[e] EXCEPT !.version = NextVersion(Here(e).versions)])
  /\ UNCHANGED disk

WriteLatest(e) ==
  /\ Step(e, "latest")
  /\ Store(e, [Here(e) EXCEPT !.latest = job[e].text])
  /\ Advance(e, job[e])

WriteVersion(e) ==
  /\ Step(e, "version")
  /\ Store(e, [Here(e) EXCEPT !.versions = With(@, job[e].version, job[e].text)])
  /\ Advance(e, job[e])

\* Dropping an entry of a list that is not there ends well at once.
ReadList(e) ==
  /\ Step(e, "list")
  /\ IF job[e].op = "dropSnapshot" /\ Here(e).snaps = Missing
     THEN job' = [job EXCEPT ![e] = Idle]
     ELSE Advance(e, [job[e] EXCEPT !.listed = ReadSnapshots(Here(e).snaps)])
  /\ UNCHANGED disk

AppendSnapshot(e) ==
  /\ Step(e, "append")
  /\ Store(e, [Here(e) EXCEPT !.snaps = Appended(job[e].listed, job[e].version)])
  /\ Advance(e, job[e])

DropSnapshot(e) ==
  /\ Step(e, "drop")
  /\ Store(e, [Here(e) EXCEPT !.snaps = Dropped(job[e].listed, job[e].target)])
  /\ Advance(e, job[e])

\* The target of a rollback; when it is gone only the protection stays.
LoadTarget(e) ==
  /\ Step(e, "load")
  /\ IF job[e].target \in DOMAIN Here(e).versions
     THEN Advance(e, [job[e] EXCEPT !.text = Here(e).versions[job[e].target]])
     ELSE job' = [job EXCEPT ![e] = Idle]
  /\ UNCHANGED disk

WriteSources(e) ==
  /\ Step(e, "sources")
  /\ Store(e, [Here(e) EXCEPT !.sources = TRUE])
  /\ Advance(e, job[e])

RemoveLatest(e) ==
  /\ Step(e, "rmLatest")
  /\ Store(e, [Here(e) EXCEPT !.latest = Missing])
  /\ Advance(e, job[e])

OpenVersions(e) ==
  /\ Step(e, "dir")
  /\ Advance(e, [job[e] EXCEPT !.listed = SeqExt!SetToSeq(DOMAIN Here(e).versions)])
  /\ UNCHANGED disk

\* One file after the other, in any order: those there were when the
\* directory was opened; one that is gone meanwhile is no error.  Whatever
\* begins with the name and '.v' goes, also when it is another asset's.
RemoveVersions(e) ==
  /\ Step(e, "rmVersions")
  /\ IF job[e].listed = <<>>
     THEN Advance(e, job[e]) /\ UNCHANGED disk
     ELSE \E i \in DOMAIN job[e].listed :
            /\ job' = [job EXCEPT ![e].listed = SeqExt!RemoveAt(@, i)]
            /\ Store(e, [Here(e) EXCEPT !.versions =
                 [u \in DOMAIN @ \ {job[e].listed[i]} |-> @[u]]])

RemoveSources(e) ==
  /\ Step(e, "rmSources")
  /\ Store(e, [Here(e) EXCEPT !.sources = FALSE])
  /\ Advance(e, job[e])

RemoveSnapshots(e) ==
  /\ Step(e, "rmSnaps")
  /\ Store(e, [Here(e) EXCEPT !.snaps = Missing])
  /\ Advance(e, job[e])

(***************************************************************************)
(* A failing stage leaves the file it was to write as it was, or cut short *)
(* (fs::write truncates first); a restart of the shell forgets the         *)
(* commands and the tokens.                                                *)
(***************************************************************************)
Spoiled(e) ==
  CASE Stage(e) = "latest" -> [Here(e) EXCEPT !.latest = Spoilt]
    [] Stage(e) = "version" -> [Here(e) EXCEPT !.versions = With(@, job[e].version, Spoilt)]
    [] Stage(e) \in {"append", "drop"} -> [Here(e) EXCEPT !.snaps = Spoilt]
    [] OTHER -> Here(e)

Deleting == {w \in Workspaces : \E e \in Busy(w) : job[e].op = "delete"}

FailStage(e) ==
  /\ job[e].plan # <<>> /\ faults < MaxFaults
  /\ \E files \in {Here(e), Spoiled(e)} : Store(e, files)
  /\ stripped' = IF job[e].op = "delete" THEN stripped \cup {job[e].ws} ELSE stripped
  /\ job' = [job EXCEPT ![e] = Idle]
  /\ faults' = faults + 1
  /\ UNCHANGED <<kind, token, commands, tangled>>

Restart ==
  /\ faults < MaxFaults /\ faults' = faults + 1
  /\ job' = [e \in Editors |-> Idle]
  /\ stripped' = stripped \cup Deleting
  /\ token' = [t \in Tokens |-> [token[t] EXCEPT
                 !.status = IF @ = "held" THEN "gone" ELSE @]]
  /\ UNCHANGED <<kind, disk, commands, tangled>>

(***************************************************************************)
(* The copilot's writes: a first call stores the write under a token and   *)
(* shows a summary, the user confirms or cancels.                          *)
(***************************************************************************)
\* A text that does not parse is refused here already; a signal is not read.
Summarised(call) == call.op = "save" => Drafts[call.index] # Spoilt

Ask(t, call) ==
  /\ token[t].status = "new" /\ commands < MaxCommands
  /\ Summarised(call)
  /\ token' = [token EXCEPT ![t].status = "held", ![t].call = call, ![t].ws = Project]
  /\ UNCHANGED <<kind, disk, job, commands, faults, tangled, stripped>>

AgeToken(t) ==
  /\ token[t].status = "held" /\ token[t].age <= Lifetime
  /\ token' = [token EXCEPT ![t].age = @ + 1]
  /\ UNCHANGED <<kind, disk, job, commands, faults, tangled, stripped>>

\* Mutant: a confirmed token stays in the store.
ConfirmKeeps(t, e) ==
  LET call == token[t].call
  IN  /\ token[t].status = "held"
      /\ token[t].age <= Lifetime /\ BeginCommand(e, call, Home)
      /\ token' = [token EXCEPT ![t].ran = Append(@, Home)]

\* The token is taken out of the map whatever comes of it.  The command has
\* no workspace argument: the write goes to the default workspace.
Confirm(t, e) ==
  LET call == token[t].call
      w    == Home
      gone == [token[t] EXCEPT !.status = "gone"]
  IN  /\ token[t].status = "held"
      /\ \/ /\ token[t].age <= Lifetime /\ BeginCommand(e, call, w)
            /\ token' = [token EXCEPT ![t] = [gone EXCEPT !.ran = Append(@, w)]]
         \/ /\ token[t].age > Lifetime \/ Changed(disk[w].latest, call) = Rejected
            /\ token' = [token EXCEPT ![t] = gone]
            /\ UNCHANGED <<kind, disk, job, commands, faults, tangled, stripped>>

CancelToken(t) ==
  /\ token[t].status = "held"
  /\ token' = [token EXCEPT ![t].status = "gone", ![t].cancelled = TRUE]
  /\ UNCHANGED <<kind, disk, job, commands, faults, tangled, stripped>>

JobStep(e) ==
  \/ Number(e) \/ WriteLatest(e) \/ WriteVersion(e)
  \/ ReadList(e) \/ AppendSnapshot(e) \/ DropSnapshot(e)
  \/ LoadTarget(e) \/ WriteSources(e)
  \/ RemoveLatest(e) \/ OpenVersions(e) \/ RemoveVersions(e)
  \/ RemoveSources(e) \/ RemoveSnapshots(e)

AssetNext ==
  \/ \E e \in Editors : JobStep(e) \/ FailStage(e)
  \/ \E e \in Editors : \E call \in WindowCommands : Command(e, call)
  \/ Restart
  \/ \E t \in Tokens : \/ \E call \in Writes : Ask(t, call)
                       \/ \E e \in Editors : Confirm(t, e)
                       \/ AgeToken(t) \/ CancelToken(t)

AssetSpec == AssetInit /\ [][AssetNext]_assetVars

-----------------------------------------------------------------------------
\* A version file is never written again: unless two commands overlapped on
\* the asset, a number that has a file keeps its text until it is deleted,
\* also after a deletion that stopped half-way (next_asset_version).
VersionsStay ==
  \A w \in Workspaces \ tangled :
    \A v \in DOMAIN disk[w].versions \cap DOMAIN disk'[w].versions :
      disk'[w].versions[v] = disk[w].versions[v]
HistoryKept == [][VersionsStay]_assetVars

\* When a rollback replaces the latest text by the one of its target, the
\* text that is replaced is in a version file, whatever has failed before
\* (rollback_device_snapshot: the protection comes first).
ReplacedTextHasVersion ==
  \A e \in Editors :
    LET w == job[e].ws IN
    (/\ job[e].op = "rollback" /\ "load" \notin {job[e].plan[i] : i \in DOMAIN job[e].plan}
     /\ w \notin tangled /\ disk'[w].latest # disk[w].latest)
      => \E v \in DOMAIN disk[w].versions : disk[w].versions[v] = disk[w].latest
RollbackKeepsWork == [][ReplacedTextHasVersion]_assetVars

\* What the list of snapshots offers can be rolled back to: its entries are
\* distinct and at most MaxSnapshots, and unless commands overlapped, a deletion
\* is under way or stopped half-way, or was of the asset whose name this one's
\* begins with, they are newest first and have their file.
SnapshotsHaveFiles ==
  \A w \in Workspaces :
    LET list == ReadSnapshots(disk[w].snaps) IN
    /\ Len(list) <= MaxSnapshots
    /\ \A i, j \in DOMAIN list : i < j => list[i] # list[j]
    /\ w \notin tangled \cup stripped \cup Deleting =>
         /\ \A i \in DOMAIN list : list[i] \in DOMAIN disk[w].versions
         /\ \A i, j \in DOMAIN list : i < j => list[i] > list[j]

\* Once every command has ended well, the text a device is shown with is the
\* text of the version it is shown under; only the binding, which gets no
\* version (bind_device_connection), may differ.  This is so while the text
\* carries the asset's id, which a patch may change (patch_device_field), and
\* also when it has got it back by another patch or a rollback.
DetailIsItsVersion ==
  \A w \in Workspaces \ (tangled \cup stripped) :
    (faults = 0 /\ Busy(w) = {} /\ disk[w].latest # Missing /\ disk[w].latest.id = Asset)
      => LET d == Detail(w) IN
         /\ d.version \in DOMAIN disk[w].versions
         /\ [d.text EXCEPT !.link = NoLink]
              = [disk[w].versions[d.version] EXCEPT !.link = NoLink]

\* However often a token is confirmed, by whichever windows, its write runs
\* at most once, and never when it was cancelled or is past its lifetime
\* (copilot_confirm_action, copilot_cancel_action).
TokensSpentOnce ==
  \A t \in Tokens :
    /\ Len(token[t].ran) <= 1
    /\ token[t].ran # <<>> => ~token[t].cancelled /\ token[t].age <= Lifetime

\* A write the user confirms is the write that was asked for, in the
\* workspace it was asked for (copilot.rs:94-98).
ConfirmedWritesWhereAsked ==
  \A t \in Tokens : \A i \in DOMAIN token[t].ran : token[t].ran[i] = token[t].ws

\* What the lists of the asset library promise can be opened, and a confirmation
\* counts once.
AssetsSound ==
  /\ SnapshotsHaveFiles
  /\ DetailIsItsVersion
  /\ TokensSpentOnce

\* What an editor wrote is not lost by a later command on the asset.
WorkKept ==
  /\ HistoryKept
  /\ RollbackKeepsWork
=============================================================================
