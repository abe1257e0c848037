---------------------------- MODULE EditorConfig ----------------------------
(***************************************************************************)
(* The settings that .editorconfig files give for a file                   *)
(* (editor_config.cpp).  A configuration is the sequence of its lines, in  *)
(* lower case and without blanks around.  A path is a sequence of names,   *)
(* its configurations are those of its directories, the nearest first; a   *)
(* directory that has none has an empty one.                               *)
(***************************************************************************)
EXTENDS TextCommands

Section(pattern)  == [kind |-> "section", pattern |-> pattern]
Pair(key, value)  == [kind |-> "pair", key |-> key, value |-> value]

STAR     == 42
SLASH    == 47
QUESTION == 63

-----------------------------------------------------------------------------
(* Patterns.  The last star is tried again with one character more; it     *)
(* takes any character, a separator too.                                   *)

GlobMatch(pattern, text) ==
  LET n == Len(pattern)
      isHere(s) == s.p <= n /\ pattern[s.p] \in {QUESTION, text[s.t]}
      isStar(s) == s.p <= n /\ pattern[s.p] = STAR
      m == Len(text)
      run[s \in [p : 1 .. n + 1, t : 1 .. m + 1, star : 0 .. n, retry : 0 .. m + 1]] ==
        CASE s.t > m -> \A i \in s.p .. n : pattern[i] = STAR
          [] s.t <= m /\ isHere(s) -> run[[s EXCEPT !.p = @ + 1, !.t = @ + 1]]
          [] s.t <= m /\ ~isHere(s) /\ isStar(s) ->
               run[[p |-> s.p + 1, t |-> s.t, star |-> s.p, retry |-> s.t]]
          [] s.t <= m /\ ~isHere(s) /\ ~isStar(s) /\ s.star > 0 ->
               run[[p |-> s.star + 1, t |-> s.retry + 1, star |-> s.star, retry |-> s.retry + 1]]
          [] OTHER -> FALSE
  IN  run[[p |-> 1, t |-> 1, star |-> 0, retry |-> 0]]

-----------------------------------------------------------------------------
(* Settings.                                                               *)

Unset == "unset"

NoSettings ==
  [useTabs |-> Unset, indentSize |-> Unset, lineEnding |-> Unset, encoding |-> Unset,
   trim |-> Unset, newline |-> Unset]

Charsets == [utf8 |-> "utf8", utf8bom |-> "utf8_bom", utf16le |-> "utf16_le",
             utf16be |-> "utf16_be"]
Sizes    == {"1", "2", "3", "4", "5", "6", "7", "8", "9", "10", "11", "12", "13", "14",
             "15", "16"}
Flag(isSet) == IF isSet THEN "true" ELSE "false"

(* A value that is not known leaves what was there, and so does unset.     *)
Apply(settings, key, value) ==
  CASE value = Unset -> settings
    [] value # Unset /\ key = "indent_style" ->
         [settings EXCEPT !.useTabs = Flag(value = "tab")]
    [] key = "indent_size" /\ value \in Sizes -> [settings EXCEPT !.indentSize = value]
    [] key = "end_of_line" /\ value \in {"lf", "crlf", "cr"} ->
         [settings EXCEPT !.lineEnding = value]
    [] key = "charset" /\ value \in DOMAIN Charsets ->
         [settings EXCEPT !.encoding = Charsets[value]]
    [] value # Unset /\ key = "trim_trailing_whitespace" ->
         [settings EXCEPT !.trim = Flag(value = "true")]
    [] value # Unset /\ key = "insert_final_newline" ->
         [settings EXCEPT !.newline = Flag(value = "true")]
    [] OTHER -> settings

(* Wherever the line is, in a section too.                                 *)
IsRoot(config) == Contains(config, Pair("root", "true"))

MaxDepth == 64

(* The configurations that count: up to the nearest root, in at most so    *)
(* many directories.                                                       *)
Found(configs) ==
  LET isLast(k) == IsRoot(configs[k]) \/ k = MaxDepth \/ k = Len(configs)
      last == CHOOSE k \in DOMAIN configs : isLast(k) /\ \A j \in 1 .. k - 1 : ~isLast(j)
  IN  IF configs = <<>> THEN <<>> ELSE SubSeq(configs, 1, last)

(* One configuration is read.  A pattern without a slash is for the name,  *)
(* others are for the path below the directory.                            *)
Configured(settings, config, name, relative) ==
  LET step(r, line) ==
        CASE line.kind = "section" ->
               [r EXCEPT !.isActive =
                  GlobMatch(line.pattern, IF Contains(line.pattern, SLASH) THEN relative ELSE name)]
          [] line.kind = "pair" /\ r.isActive ->
               [r EXCEPT !.settings = Apply(@, line.key, line.value)]
          [] OTHER -> r
  IN  FoldLeft(step, [settings |-> settings, isActive |-> FALSE], config).settings

(* The farthest is read first.                                             *)
ResolveEditorConfig(path, configs) ==
  LET found == Found(configs)
      below(k) == Joined(SubSeq(path, Len(path) - k + 1, Len(path)), <<SLASH>>)
      step(settings, k) == Configured(settings, found[k], Last(path), below(k))
  IN  FoldLeft(step, NoSettings, Reverse([k \in DOMAIN found |-> k]))
=============================================================================
