----------------------------- MODULE Workbench ------------------------------
(***************************************************************************)
(* What the one thread of the window does besides what the other modules   *)
(* model: editing and saving a text with macros, the tabs with the         *)
(* recovery store, and the workspace.  They are commands and timers of one *)
(* message loop and share no state but the active document, which each     *)
(* reads as it finds it, so a behaviour is that of one part at a time.     *)
(***************************************************************************)
EXTENDS MacroRecorder, Tabs, WorkspaceCatalog

VARIABLE part  \* the part that moves

workbenchVars == <<part, macroVars, tabsVars, catalogVars>>

(* Where the text does not move, one of the documents is enough.           *)
Init ==
  /\ part \in {"text", "tabs", "workspace"}
  /\ MacroInit /\ TabsInit /\ CatalogInit
  /\ part # "text" =>
       [text |-> editor.text, settings |-> settings] = CHOOSE document \in Documents : TRUE

MoveText      == part = "text" /\ MacroNext /\ UNCHANGED <<part, tabsVars, catalogVars>>
MoveTabs      == part = "tabs" /\ TabsNext /\ UNCHANGED <<part, macroVars, catalogVars>>
MoveWorkspace == part = "workspace" /\ CatalogNext /\ UNCHANGED <<part, macroVars, tabsVars>>

Next == MoveText \/ MoveTabs \/ MoveWorkspace

Spec == Init /\ [][Next]_workbenchVars

(* The types of the three parts.                                           *)
TypeOK == MacroTypeOK /\ TabsTypeOK /\ CatalogTypeOK

(* main.cpp:4012: a launch gives back the saved macros and the workspace's *)
(* lists, if their files were written.                                     *)
LaunchRestores == MacrosReturn /\ RestartKeepsCatalog
=============================================================================
