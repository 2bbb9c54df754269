------------------------------ MODULE MCDesktop ------------------------------
(***************************************************************************)
(* The commands and files of the desktop shell (src-tauri), the library of *)
(* device assets, and the compiler of workflow specifications with the     *)
(* machine it starts, side by side: each behaviour picks one part of Parts *)
(* and runs it alone.                                                      *)
(***************************************************************************)
EXTENDS DesktopDeploy, AppSession, DslCompiler, AssetLibrary

CONSTANTS Parts, level, other, text, s1, s2

VARIABLES part,
          menu    \* the commands the editors of an asset use in this behaviour

\* "session": the file of the sessions over two runs of the application;
\* "marker": the marker and the crash report alone over three.
MCParts == {"deploy", "session", "marker", "dsl", "assets"}

-----------------------------------------------------------------------------
\* DslCompiler: three or four states, one of them with a name that collides
\* after it is sanitised.
IdleState == <<"idle">>
Dash  == <<"a", "-", "b">>
Under == <<"a", "_", "b">>
Stop  == <<"done">>
MCNameOrder == <<Dash, Under, Stop, IdleState>>

Cap(c, arg) == [kind |-> "capability", target |-> c, arg |-> arg]
Log == [kind |-> "action", target |-> <<"log">>, arg |-> 0]
MCCapabilities ==
  LET C(device, range, readable) ==
        [device |-> device, range |-> range, readable |-> readable, unit |-> range # << >>,
         register |-> IF readable THEN 7 ELSE 0, dangerous |-> device = "d9"]
  IN  (<<"c">> :> C("d1", <<0, 3>>, TRUE)) @@ (<<"c", "_", "exit">> :> C("d1", << >>, TRUE))
      @@ (<<"blind">> :> C("d1", << >>, FALSE)) @@ (<<"lost">> :> C("d9", << >>, TRUE))

Rule(from, to, when, priority, action) ==
  [from |-> from, to |-> to, when |-> when, priority |-> priority, action |-> action]
Spec(states, rules) ==
  [devices |-> {"d1"}, states |-> states, entry |-> [q \in states |-> << >>],
   exit |-> [q \in states |-> << >>], transitions |-> rules, timeout |-> {},
   variables |-> (level :> 2) @@ (other :> 9)]

\* Every graph of up to three transitions over three states.
Three == {IdleState, Dash, Stop}
Arrows ==
  {a \in {Rule(f, t, w, -1, NoAction) : f \in Three, t \in Three, w \in {"true", "guard"}} : a.from # a.to}
    \cup {Rule(<<"*">>, Dash, "guard", 1, NoAction)}
GraphSpecs ==
  {Spec(Three, r) : r \in {<< >>} \cup {<<a>> : a \in Arrows} \cup {<<a, b>> : a, b \in Arrows}
                          \cup {<<a, b, c>> : a \in {x \in Arrows : x.from = IdleState}, b, c \in Arrows}}

\* Every combination of entry, exit and transition actions that may conflict.
Two == {IdleState, Dash, Under}
Lists ==
  {<< >>} \cup {<<a>> : a \in {Cap(<<"c">>, 3), Cap(<<"c">>, 5), Cap(<<"c">>, level), Cap(<<"c">>, other),
                               Cap(<<"c", "_", "exit">>, text), Cap(<<"blind">>, 0), Cap(<<"lost">>, 0),
                               Cap(<<"none">>, 0), Log}}
RulesWith(act, priority, guard) ==
  <<Rule(IdleState, Dash, guard, -1, act), Rule(Dash, IdleState, "guard", -1, NoAction),
    Rule(<<"*">>, Under, "other", priority, NoAction)>>
ActionSpecs ==
  {[Spec(Two, RulesWith(act, priority, guard)) EXCEPT !.entry[Dash] = en, !.exit[Under] = ex, !.exit[IdleState] = xi] :
     act \in {NoAction, Cap(<<"c">>, 1), Cap(<<"c">>, 5)}, priority \in {-1, 2}, guard \in {"guard", "bare"},
     en \in Lists,
     ex \in {<< >>, <<Cap(<<"c">>, 1)>>, <<Cap(<<"c">>, 0), Cap(<<"c", "_", "exit">>, level)>>},
     xi \in {<< >>, <<Cap(<<"c", "_", "exit">>, 0)>>}}

OddSpecs ==
  LET pair == Spec({Dash, Under}, <<Rule(Dash, Under, "guard", -1, NoAction)>>)
  IN  {[Spec(Two, <<Rule(IdleState, Dash, "true", -1, NoAction)>>) EXCEPT !.timeout = {IdleState}], pair,
       [pair EXCEPT !.entry[Dash] = <<Cap(<<"c">>, 1)>>, !.entry[Under] = <<Cap(<<"c">>, 2)>>],
       Spec({}, << >>), [Spec(Two, << >>) EXCEPT !.devices = {"d9"}]}
MCSpecs == GraphSpecs \cup ActionSpecs \cup OddSpecs

\* One specification: a cycle of unconditional transitions that a transition
\* with a condition enters in its middle.
Chord ==
  {Spec(Three, <<Rule(IdleState, Dash, "guard", -1, NoAction), Rule(IdleState, Stop, "true", -1, NoAction),
                 Rule(Stop, Dash, "true", -1, NoAction), Rule(Dash, IdleState, "true", -1, NoAction)>>)}

MCMessages == [{"guard", "other"} -> {"true", "false"}] \cup {[guard |-> "error", other |-> "true"]}
MCForeign == {Dash, <<"typo">>}

-----------------------------------------------------------------------------
\* AssetLibrary: texts with one signal, with two, and one that does not parse;
\* the commands that are used together.
MCDrafts ==
  LET Yaml(signals) == [id |-> Asset, signals |-> signals, alarms |-> << >>, link |-> NoLink]
  IN  <<Yaml(<<s1>>), Yaml(<<s2, s1>>), Spoilt>>
FileMenu == {"save", "rollback", "delete", "dropSnapshot"}
Menus ==
  {FileMenu, {"save", "addSignal", "removeSignal", "patch", "bind", "snapshot"},
   {"delete", "addAlarm", "removeAlarm", "bind", "sources", "snapshot"},
   {"patchId", "rollback", "deletePrefix"}}

\* Bounds of the part: the menu, two kinds of calls wait for a confirmation, and
\* after two commands overlapped no further one begins.
OnTheMenu ==
  /\ \A e \in Editors : job'[e].op \in menu \cup {"none"}
  /\ \A t \in Tokens : token'[t].call # NoCall => token'[t].call.op \in {"save", "removeSignal"}
  /\ \A t \in Tokens : token'[t].status # "new" => "addSignal" \in menu
  /\ tangled' # {} => commands' <= 2

-----------------------------------------------------------------------------
shellVars == <<part, menu, deskVars, appVars, dslVars, assetVars>>

MCInit ==
  /\ part \in Parts
  /\ part # "dsl" => spec = Spec(Three, << >>)
  /\ menu \in IF part = "assets" THEN Menus ELSE {FileMenu}
  /\ DeskInit /\ AppInit /\ CompilerInit /\ AssetInit
  /\ IF part = "assets" THEN kind # "device" => menu = FileMenu ELSE kind = "device"

MCNext ==
  \/ /\ part = "deploy" /\ DeskNext
     /\ UNCHANGED <<part, menu, appVars, dslVars, assetVars>>
  \/ /\ part \in {"session", "marker"} /\ AppNext
     /\ IF part = "session" THEN process'[3] = "off" ELSE UNCHANGED <<doc, edit, saved>>
     /\ UNCHANGED <<part, menu, deskVars, dslVars, assetVars>>
  \/ /\ part = "dsl" /\ CompilerNext
     /\ UNCHANGED <<part, menu, deskVars, appVars, assetVars>>
  \/ /\ part = "assets" /\ AssetNext /\ OnTheMenu
     /\ UNCHANGED <<part, menu, deskVars, appVars, dslVars>>

MCSpec == MCInit /\ [][MCNext]_shellVars
=============================================================================
