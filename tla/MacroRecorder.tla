--------------------------- MODULE MacroRecorder ----------------------------
(***************************************************************************)
(* Editing one document: typing with what the editor adds to it, the text  *)
(* commands, a macro that records both and plays them again, and what a    *)
(* save does to the text before it writes it (main.cpp, macro.cpp,         *)
(* scintilla_support.cpp).                                                 *)
(*                                                                         *)
(* A document's text is a sequence of characters (the text commands count  *)
(* one beyond U+FFFF as two), a recorded text one of UTF-16 units.         *)
(* Indentation is in spaces.  A write of the document's file succeeds or   *)
(* fails here; what is in it is the subject of DocumentSync.  An action of *)
(* the kind delete_backward is never recorded, so none is ever played.     *)
(***************************************************************************)
EXTENDS TextCommands

CONSTANTS Keys,         \* characters that are typed, but for Enter
          Commands,     \* commands of the menu that are used
          Documents,    \* documents as they were opened: records of a text and
                        \* of the settings trim, newline and eol for its saving
          Names,        \* names of macros
          TabWidth, SplitColumn,
          MacroLimit,   \* 100: more are not loaded
          ActionLimit,  \* 10,000: a longer macro is not loaded
          MaxLength,    \* bound: length of the text
          MaxMoves,     \* bound: steps, but for those of the saved macros
          MaxMacros     \* bound: saved macros

Orders == [kSortAscending |-> "ascending", kSortDescending |-> "descending",
           kUniqueLines   |-> "ascending", kReverseLines   |-> "reverse"]
Cases  == [kTitleCase |-> "title", kSentenceCase |-> "sentence"]
Plain  == {"kRemoveBlankLines", "kTrimTrailing", "kJoinLines", "kSplitLines",
           "kTabsToSpaces", "kSpacesToTabs", "kJsonEscape", "kJsonUnescape",
           "kUrlEncode", "kUrlDecode", "kCrlf", "kLf", "kSelectAll"}

LastCharacter == 1114111
Leads  == 55296 .. 56319  \* units that are the halves of a pair
Trails == 56320 .. 57343

ASSUME KeysAssumption ==
  \A c \in Keys :
    c \in Nat \ {0, CR, LF} /\ c <= LastCharacter /\ c \notin Leads \cup Trails
ASSUME CommandsAssumption == Commands \subseteq DOMAIN Orders \cup DOMAIN Cases \cup Plain
ASSUME DocumentsAssumption ==
  Documents \subseteq [text : Seq(Nat),
                      settings : [trim : BOOLEAN, newline : BOOLEAN,
                                  eol : {"none", "crlf", "lf", "cr"}]]
ASSUME EditingAssumption ==
  TabWidth \in Nat /\ SplitColumn \in Nat /\ MaxMoves \in Nat

VARIABLES
  editor,    \* text, selection and line ending of the document
  settings,  \* how it is saved
  recording, \* the recorder is on ...
  actions,   \* ... and has recorded these
  lastMacro, \* the macro that was recorded last
  macros,    \* saved_macros_
  macroFile, \* the macros in the file
  stored,    \* history: the last write of that file succeeded
  begin,     \* history: the editor when the recording began
  exact,     \* history: since then it was only changed by what is recorded
  saves,     \* history: 1 and 2, the document was saved and not changed since
  moves      \* how many of these steps there were

recorder == <<recording, actions, begin, exact>>
library  == <<lastMacro, macros, macroFile, stored>>
macroVars == <<editor, settings, recorder, library, saves, moves>>

MacroInit ==
  /\ \E document \in Documents :
       /\ settings = document.settings
       /\ editor = [text |-> document.text, from |-> 0, to |-> 0,
                    ending |-> IF settings.eol # "none" THEN settings.eol
                               ELSE DetectLineEnding(document.text)]
  /\ recording = FALSE /\ actions = <<>> /\ begin = editor /\ exact = FALSE
  /\ lastMacro = <<>> /\ macros = <<>> /\ macroFile = <<>> /\ stored = TRUE
  /\ saves = 0 /\ moves = 0

-----------------------------------------------------------------------------
(* What changes the editor.                                                *)

Least(a, b) == IF a < b THEN a ELSE b

(* The text between two positions, and the editor with it replaced.        *)
Between(d, from, to) == SubSeq(d.text, from + 1, to)
Replaced(d, from, to, s) ==
  SubSeq(d.text, 1, from) \o s \o SubSeq(d.text, to + 1, Len(d.text))

CaretAt(d, position) == [d EXCEPT !.from = position, !.to = position]

InsertText(d, s) ==
  CaretAt([d EXCEPT !.text = Replaced(d, d.from, d.to, s)], d.from + Len(s))

(* A new text, with the selection where it was.                            *)
ReplaceDocumentText(d, t) ==
  [d EXCEPT !.text = t, !.from = Least(@, Len(t)), !.to = Least(@, Len(t))]

SetLineEnding(d, ending) ==
  IF d.ending = ending THEN d
  ELSE [ReplaceDocumentText(d, NormalizeLineEndings(d.text, ending))
          EXCEPT !.ending = ending]

(* A text that cannot be decoded stays as it is.                           *)
IfDecoded(decoded, s) == IF decoded = None THEN s ELSE decoded

(* The commands that transform a text.                                     *)
TransformOf(command, s) ==
  CASE command \in DOMAIN Orders      ->
         SortLines(s, Orders[command], command = "kUniqueLines", FALSE)
    [] command = "kRemoveBlankLines" -> RemoveBlankLines(s, TRUE)
    [] command = "kTrimTrailing"     -> TrimTrailingWhitespace(s)
    [] command = "kJoinLines"        -> JoinLines(s, <<SPACE>>)
    [] command = "kSplitLines"       -> SplitLines(s, SplitColumn)
    [] command = "kTabsToSpaces"     -> TabsToSpaces(s, TabWidth)
    [] command = "kSpacesToTabs"     -> SpacesToTabs(s, TabWidth)
    [] command \in DOMAIN Cases       -> ConvertCase(s, Cases[command])
    [] command = "kJsonEscape"       -> EscapeJsonString(s)
    [] command = "kJsonUnescape"     -> IfDecoded(UnescapeJsonString(s), s)
    [] command = "kUrlEncode"        -> UrlEncode(s)
    [] command = "kUrlDecode"        -> IfDecoded(UrlDecode(s), s)

TransformSelectionOrDocument(d, command) ==
  LET from == IF d.from = d.to THEN 0 ELSE d.from
      to   == IF d.from = d.to THEN Len(d.text) ELSE d.to
      replacement == TransformOf(command, Between(d, from, to))
  IN  [d EXCEPT !.text = Replaced(d, from, to, replacement),
                !.from = from, !.to = from + Len(replacement)]

Effect(command, d) ==
  CASE command = "kCrlf" -> SetLineEnding(d, "crlf")
    [] command = "kLf"   -> SetLineEnding(d, "lf")
    [] command = "kSelectAll" -> [d EXCEPT !.from = 0, !.to = Len(d.text)]
    [] OTHER -> TransformSelectionOrDocument(d, command)

-----------------------------------------------------------------------------
(* What the editor adds to a typed character: HandleCharacterAdded.        *)

Openers == [c \in {40, 91, 123, 34, 39} |->
              CASE c = 40 -> 41 [] c = 91 -> 93 [] c = 123 -> 125 [] OTHER -> c]
Closers == {41, 93, 125, 34, 39}

LineStart(t, position) ==
  LET before == {i \in Breaks(t) : Behind(t, i) - 1 <= position}
  IN  IF before = {} THEN 0
      ELSE Behind(t, CHOOSE i \in before : \A j \in before : j <= i) - 1

LineEnd(t, position) ==
  LET after == {i \in Breaks(t) : i > position}
  IN  IF after = {} THEN Len(t) ELSE (CHOOSE i \in after : \A j \in after : i <= j) - 1

(* The blanks a line begins with end here.                                 *)
IndentEnd(t, start) ==
  LET solid == {i \in start .. LineEnd(t, start) - 1 : t[i + 1] \notin Blank}
  IN  IF solid = {} THEN LineEnd(t, start)
      ELSE CHOOSE i \in solid : \A j \in solid : i <= j

Indentation(t, start) == Len(TabsToSpaces(SubSeq(t, start + 1, IndentEnd(t, start)), TabWidth))

SetIndentation(d, start, columns) ==
  IF Indentation(d.text, start) = columns THEN d
  ELSE [d EXCEPT !.text = Replaced(d, start, IndentEnd(d.text, start),
                                   [i \in 1 .. columns |-> SPACE])]

IndentNewLine(d) ==
  LET t        == d.text
      start    == LineStart(t, d.to)
      lineEnd  == IF start > 1 /\ IsPair(t, start - 1) THEN start - 2 ELSE start - 1
      previous == LineStart(t, lineEnd)
      columns  == Indentation(t, previous)
                    + IF lineEnd > 0 /\ t[lineEnd] = 123 THEN TabWidth ELSE 0
      indented == SetIndentation(d, start, columns)
  IN  IF start = 0 THEN d ELSE CaretAt(indented, IndentEnd(indented.text, start))

OutdentBrace(d) ==
  LET start    == LineStart(d.text, d.to)
      columns  == Indentation(d.text, start)
      outdent  == SetIndentation(d, start, IF columns > TabWidth THEN columns - TabWidth ELSE 0)
  IN  IF \A i \in start + 1 .. d.to - 1 : d.text[i] \in Blank
      THEN CaretAt(outdent, LineEnd(outdent.text, start)) ELSE d

HandleCharacterAdded(d, c) ==
  CASE c \in {CR, LF} -> IndentNewLine(d)
    [] c \in Closers /\ d.to < Len(d.text) /\ d.text[d.to + 1] = c ->
         [d EXCEPT !.text = Replaced(d, d.to - 1, d.to, <<>>)]
    [] c = 125 /\ ~(d.to < Len(d.text) /\ d.text[d.to + 1] = c) -> OutdentBrace(d)
    [] c \in DOMAIN Openers /\ ~(c \in Closers /\ d.to < Len(d.text) /\ d.text[d.to + 1] = c) ->
         [d EXCEPT !.text = Replaced(d, d.to, d.to, <<Openers[c]>>)]
    [] OTHER -> d

-----------------------------------------------------------------------------
(* Recording.                                                              *)

CommandAction(command) == [kind |-> "command", command |-> command, text |-> <<>>]
TextAction(s)          == [kind |-> "insert_text", command |-> "none", text |-> s]

RecordCommand(command) ==
  actions' = IF recording THEN Append(actions, CommandAction(command)) ELSE actions

(* Mutant: the text is joined to the last recorded text.                   *)
RecordTextAtLastText(s) ==
  LET texts == {i \in DOMAIN actions : actions[i].kind = "insert_text"}
      i     == CHOOSE i \in texts : \A j \in texts : j <= i
  IN  actions' = IF ~recording THEN actions
                 ELSE IF texts # {} THEN [actions EXCEPT ![i].text = @ \o s]
                 ELSE Append(actions, TextAction(s))

RecordText(s) ==
  LET n == Len(actions)
  IN  actions' = IF ~recording THEN actions
                 ELSE IF n > 0 /\ actions[n].kind = "insert_text"
                 THEN [actions EXCEPT ![n].text = @ \o s]
                 ELSE Append(actions, TextAction(s))

Step == moves < MaxMoves /\ moves' = moves + 1

(* The editor becomes d, which is what playing what is recorded makes of it *)
(* or is not.                                                              *)
Edited(d, isPlayed) ==
  /\ editor' = d
  /\ Len(editor'.text) <= MaxLength
  /\ exact' = (exact /\ isPlayed)
  /\ saves' = IF editor'.text = editor.text /\ editor'.ending = editor.ending THEN saves
              ELSE 0

Narrow(c) == c % 65536  \* static_cast<wchar_t>

(* A character is inserted, one unit of it is recorded, and it is followed up. *)
Type(c) ==
  LET typed == InsertText(editor, <<c>>)
  IN  /\ Step
      /\ Edited(HandleCharacterAdded(typed, c), editor' = typed /\ Narrow(c) = c)
      /\ RecordText(<<Narrow(c)>>)
      /\ UNCHANGED <<settings, recording, begin, library>>

(* Enter: the line end is inserted, then both its characters are announced. *)
Enter ==
  LET typed == InsertText(editor, <<CR, LF>>)
  IN  /\ Step
      /\ Edited(HandleCharacterAdded(HandleCharacterAdded(typed, CR), LF), editor' = typed)
      /\ RecordText(<<CR, LF>>)
      /\ UNCHANGED <<settings, recording, begin, library>>

(* A command from the menu or from its keys passes OnCommand, which records *)
(* it; one from the command palette does not.                              *)
RunCommand(command) ==
  /\ Step
  /\ \E isFromPalette \in BOOLEAN :
       /\ Edited(Effect(command, editor), isFromPalette => editor' = editor)
       /\ IF isFromPalette THEN UNCHANGED actions ELSE RecordCommand(command)
  /\ UNCHANGED <<settings, recording, begin, library>>

(* Keys that are no characters: the caret, and deleting backward.          *)
MoveCaret(position) ==
  /\ Step
  /\ Edited(CaretAt(editor, position), editor' = editor)
  /\ UNCHANGED <<settings, recording, actions, begin, library>>

DeleteBackward ==
  LET from == IF editor.from < editor.to THEN editor.from ELSE editor.from - 1
  IN  /\ Step /\ editor.to > 0
      /\ Edited(CaretAt([editor EXCEPT !.text = Replaced(editor, from, editor.to, <<>>)], from),
                editor' = editor)
      /\ UNCHANGED <<settings, recording, actions, begin, library>>

StartMacroRecording ==
  /\ Step
  /\ recording' = TRUE /\ actions' = <<>>
  /\ begin' = editor /\ exact' = TRUE
  /\ UNCHANGED <<editor, settings, library, saves>>

StopMacroRecording ==
  /\ recording
  /\ recording' = FALSE /\ lastMacro' = actions
  /\ begin' = editor /\ exact' = FALSE
  /\ UNCHANGED <<editor, settings, actions, macros, macroFile, stored, saves, moves>>

-----------------------------------------------------------------------------
(* Playing.                                                                *)

(* Every half of a pair has its other half.                                *)
IsPaired(units) ==
  \A i \in DOMAIN units :
    /\ units[i] \in Leads  => i < Len(units) /\ units[i + 1] \in Trails
    /\ units[i] \in Trails => i > 1 /\ units[i - 1] \in Leads

(* The characters of such units.                                           *)
Decoded(units) ==
  FlattenSeq([i \in DOMAIN units |->
    IF units[i] \in Leads THEN <<>>
    ELSE IF units[i] \in Trails
    THEN <<65536 + (units[i - 1] - 55296) * 1024 + (units[i] - 56320)>>
    ELSE <<units[i]>>])

(* A text that is not UTF-16 is not inserted.                              *)
InsertUnits(d, units) == IF IsPaired(units) THEN InsertText(d, Decoded(units)) ELSE d

Perform(d, action) == IF action.kind = "command" THEN Effect(action.command, d)
                      ELSE InsertUnits(d, action.text)

Played(d, macro) ==
  LET played[n \in 0 .. Len(macro)] ==
        IF n = 0 THEN d ELSE Perform(played[n - 1], macro[n])
  IN  played[Len(macro)]

(* The macro that was recorded last, or a saved one from the manager.      *)
Playable == {lastMacro} \cup {macros[i].actions : i \in DOMAIN macros}

PlayMacro ==
  /\ Step
  /\ \E macro \in Playable \ {<<>>} : Edited(Played(editor, macro), editor' = editor)
  /\ UNCHANGED <<settings, recording, actions, begin, library>>

(* In the file, a text that is not UTF-16 is empty.                        *)
Serialized(all) ==
  [i \in DOMAIN all |-> [all[i] EXCEPT !.actions =
     [k \in DOMAIN all[i].actions |->
        [all[i].actions[k] EXCEPT !.text = IF IsPaired(@) THEN @ ELSE <<>>]]]]

(* SaveMacrosAtomic: all or nothing.  It checks none of the limits.        *)
WriteMacros(all) ==
  \/ macroFile' = Serialized(all) /\ stored' = TRUE
  \/ UNCHANGED macroFile /\ stored' = FALSE

SaveLastMacro(name) ==
  LET same == {i \in DOMAIN macros : macros[i].name = name}
  IN  /\ lastMacro # <<>>
      /\ macros' = IF same = {} THEN Append(macros, [name |-> name, actions |-> lastMacro])
                   ELSE [i \in DOMAIN macros |->
                           IF i \in same THEN [macros[i] EXCEPT !.actions = lastMacro]
                           ELSE macros[i]]
      /\ Len(macros') <= MaxMacros
      /\ WriteMacros(macros')
      /\ UNCHANGED <<editor, settings, recorder, lastMacro, saves, moves>>

DeleteMacro ==
  /\ \E i \in DOMAIN macros : macros' = RemoveAt(macros, i)
  /\ WriteMacros(macros')
  /\ UNCHANGED <<editor, settings, recorder, lastMacro, saves, moves>>

IsLoadable(all) ==
  /\ Len(all) <= MacroLimit
  /\ \A i \in DOMAIN all : Len(all[i].actions) <= ActionLimit

(* The next launch: a file that is refused leaves no macros.               *)
MacroRelaunch ==
  /\ recording' = FALSE /\ actions' = <<>> /\ exact' = FALSE /\ lastMacro' = <<>>
  /\ macros' = IF IsLoadable(macroFile) THEN macroFile ELSE <<>>
  /\ stored' = IsLoadable(macroFile)
  /\ UNCHANGED <<editor, settings, begin, macroFile, saves, moves>>

-----------------------------------------------------------------------------
(* Saving the document.                                                    *)

(* Mutant: the line endings are set before the lines are trimmed.          *)
PreparedInWrongOrder(t, ending) ==
  LET ended == IF settings.eol # "none" THEN NormalizeLineEndings(t, settings.eol) ELSE t
      trimmed == IF settings.trim THEN TrimTrailingWhitespace(ended) ELSE ended
  IN  IF settings.newline THEN EnsureFinalNewline(trimmed, Delimiter(ending)) ELSE trimmed

Prepared(t, ending) ==
  LET trimmed == IF settings.trim THEN TrimTrailingWhitespace(t) ELSE t
      ended   == IF settings.eol # "none" THEN NormalizeLineEndings(trimmed, settings.eol)
                 ELSE trimmed
  IN  IF settings.newline THEN EnsureFinalNewline(ended, Delimiter(ending)) ELSE ended

(* The text is replaced before the file is written, which may fail.        *)
SaveDocument ==
  LET t == Prepared(editor.text, editor.ending)
      d == IF t = editor.text THEN editor ELSE ReplaceDocumentText(editor, t)
  IN  /\ Step
      /\ \/ /\ editor' = [d EXCEPT !.ending = DetectLineEnding(t)]
            /\ saves' = Least(saves + 1, 2)
         \/ /\ editor' = d
            /\ saves' = IF d = editor THEN saves ELSE 0
      /\ Len(t) <= MaxLength
      /\ exact' = (exact /\ editor' = editor)
      /\ UNCHANGED <<settings, recording, actions, begin, library>>

-----------------------------------------------------------------------------
MacroNext ==
  \/ \E c \in Keys : Type(c)
  \/ Enter
  \/ \E command \in Commands : RunCommand(command)
  \/ \E position \in 0 .. Len(editor.text) : MoveCaret(position)
  \/ DeleteBackward
  \/ StartMacroRecording \/ StopMacroRecording
  \/ PlayMacro
  \/ \E name \in Names : SaveLastMacro(name)
  \/ DeleteMacro \/ MacroRelaunch \/ SaveDocument

Actions == [kind : {"command"}, command : Commands, text : {<<>>}]
             \cup [kind : {"insert_text"}, command : {"none"}, text : Seq(Nat)]
Macros  == Seq([name : Names, actions : Seq(Actions)])

(* Types; a document's selection lies in its text.                         *)
MacroTypeOK ==
  /\ editor \in [text : Seq(Nat), from : Nat, to : Nat, ending : {"crlf", "lf", "cr"}]
  /\ editor.from <= editor.to /\ editor.to <= Len(editor.text)
  /\ settings \in {document.settings : document \in Documents}
  /\ recording \in BOOLEAN /\ actions \in Seq(Actions) /\ exact \in BOOLEAN
  /\ lastMacro \in Seq(Actions) /\ macros \in Macros /\ macroFile \in Macros
  /\ stored \in BOOLEAN /\ saves \in 0 .. 2 /\ moves \in 0 .. MaxMoves

(* main.cpp:657, 2520, macro.cpp:48: as long as nothing but typed          *)
(* characters up to U+FFFF and commands of the menu changed the document,  *)
(* playing what is recorded so far, from where the recording began, gives  *)
(* the document as it is, its selection and its line ending included.      *)
ReplayRepeatsTyping == (recording /\ exact) => Played(begin, actions) = editor

(* One kind of line end, the configured one, and none that trimming rewrites. *)
HasOneEnding(t) ==
  \E ending \in {"crlf", "lf", "cr"} :
    /\ NormalizeLineEndings(t, ending) = t
    /\ settings.eol \in {ending, "none"}
    /\ (ending = "cr" /\ settings.trim) => settings.eol = "cr"

(* main.cpp:1406: a second save of an unchanged document changes nothing,  *)
(* if the first left one kind of line end; a third changes nothing at all. *)
(* Such a text keeps the promises of the settings.                         *)
SaveSettles ==
  (saves = 2 \/ (saves = 1 /\ HasOneEnding(editor.text))) =>
    /\ Prepared(editor.text, editor.ending) = editor.text
    /\ settings.eol # "none" => NormalizeLineEndings(editor.text, settings.eol) = editor.text

AreTexts(all) ==
  \A i \in DOMAIN all : \A k \in DOMAIN all[i].actions : IsPaired(all[i].actions[k].text)

(* main.cpp:2573, macro.cpp:84: at the next launch the saved macros are    *)
(* there again, in their order, if their file was written and keeps the    *)
(* limits, and if what they insert are texts.                              *)
MacrosReturn ==
  [][(MacroRelaunch /\ stored /\ IsLoadable(macros) /\ AreTexts(macros)) =>
       macros' = macros]_macroVars
=============================================================================
