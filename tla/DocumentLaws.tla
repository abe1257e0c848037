---------------------------- MODULE DocumentLaws ----------------------------
(***************************************************************************)
(* What comparing texts, reading and writing encodings, .editorconfig and  *)
(* the language registry promise, evaluated over small inputs.             *)
(***************************************************************************)
EXTENDS TextLaws, Comparison, EncodingAnalysis, EditorConfig, LanguageRegistry

-----------------------------------------------------------------------------
(* Comparison.                                                             *)

IgnoringEnds == [ignoreCase |-> FALSE, ignoreWhitespace |-> FALSE, ignoreLineEndings |-> TRUE]
Strictly     == [IgnoringEnds EXCEPT !.ignoreLineEndings = FALSE]
Loosely      == [IgnoringEnds EXCEPT !.ignoreCase = TRUE, !.ignoreWhitespace = TRUE]

LeftTexts  == TextsOver({97, SPACE, CR, LF}, 3)
RightTexts == TextsOver({97, 65, CR, LF}, 2)
Terminated(n) == {FlattenSeq([i \in DOMAIN letters |-> <<letters[i], LF>>]) :
                    letters \in UNION {[1 .. k -> {97, 98}] : k \in 1 .. n}}

(* Every line of both sides occurs, in its order.                          *)
ASSUME NoLineIsLost ==
  \A left \in LeftTexts, right \in RightTexts, options \in {Strictly, Loosely} :
    LET lines   == CompareText(left, right, options)
        isLeft(line)  == line.kind # "inserted"
        isRight(line) == line.kind # "deleted"
        ofLeft  == SelectSeq(lines, isLeft)
        ofRight == SelectSeq(lines, isRight)
    IN  /\ Len(ofLeft) = Len(Lines(left)) /\ \A k \in DOMAIN ofLeft : ofLeft[k].left = k
        /\ Len(ofRight) = Len(Lines(right)) /\ \A k \in DOMAIN ofRight : ofRight[k].right = k

(* Nothing differs exactly if the lines are the same, up to what is        *)
(* ignored; with the line ends, exactly if the texts are.                  *)
ASSUME IdenticalIsTheSame ==
  \A left \in LeftTexts, right \in RightTexts :
    /\ (Changes(left, right, Strictly) = <<>>) = (left = right)
    /\ (Changes(left, right, Loosely) = <<>>)
         = (KeysFor(Lines(left), Loosely) = KeysFor(Lines(right), Loosely))

(* As many lines are the same as in a longest common subsequence, at most: *)
(* two lines that changed places have none.                                *)
ASSUME EqualLines ==
  /\ \A left, right \in Terminated(3) :
       LET keys(t) == KeysFor(Lines(t), IgnoringEnds)
           common  == {s \in TextsOver({<<97>>, <<98>>}, 3) :
                         \A side \in {keys(left), keys(right)} :
                           \E at \in [DOMAIN s -> DOMAIN side] :
                             /\ \A i \in DOMAIN s : side[at[i]] = s[i]
                             /\ \A i, j \in DOMAIN s : i < j => at[i] < at[j]}
           longest == Lcs(keys(left), keys(right))[<<1, 1>>]
           all     == CompareText(left, right, IgnoringEnds)
       IN  /\ \A s \in common : Len(s) <= longest
           /\ \E s \in common : Len(s) = longest
           /\ Len(all) - Len(Changes(left, right, IgnoringEnds)) <= longest
  /\ Len(Changes(<<97, LF, 98>>, <<98, LF, 97>>, IgnoringEnds)) = 2

(* The marked part of a modified line is all that differs in it.           *)
ASSUME SpansAreAll ==
  \A left, right \in TextsOver({97, 98}, 4) :
    LET spans == ChangedSpans(left, right)
        part(t, span) == SubSeq(t, span.start + 1, span.start + span.length)
    IN  SubSeq(left, 1, spans.left.start) \o part(right, spans.right)
          \o SubSeq(left, spans.left.start + spans.left.length + 1, Len(left)) = right

(* Copying any difference, in either direction, leaves fewer of them, if   *)
(* all lines end and the ends are ignored.  Behind a last line without an  *)
(* end the copied line is joined to it, and a line's end is never copied.  *)
ASSUME CopyingHelps ==
  /\ \A left, right \in Terminated(3) :
       LET changes == Changes(left, right, IgnoringEnds)
       IN  \A k \in DOMAIN changes, isToLeft \in BOOLEAN :
             LET sides == CopyDifference(left, right, changes[k], isToLeft)
             IN  Len(Changes(sides[1], sides[2], IgnoringEnds)) < Len(changes)
  /\ LET line == Changes(<<97>>, <<97, LF, 98>>, IgnoringEnds)[1]
     IN  CopyDifference(<<97>>, <<97, LF, 98>>, line, TRUE)[1] = <<97, 98, CR, LF>>
  /\ LET line == Changes(<<97, LF>>, <<97, CR>>, Strictly)[1]
     IN  CopyDifference(<<97, LF>>, <<97, CR>>, line, TRUE)[1] = <<97, LF>>

-----------------------------------------------------------------------------
(* Encodings.                                                              *)

Bytes3 == TextsOver({0, 65, 128, 159, 160, 191, 194, 224, 237, 239, 187, 254, 255}, 3)
Bytes4 == {<<lead>> \o rest : lead \in {193, 194, 223, 240, 241, 244, 245},
                              rest \in TextsOver({127, 128, 143, 144, 191, 192}, 3)}

(* A character of UTF-8 is the shortest form of a number up to 10FFFF that *)
(* is not half of a surrogate pair.                                        *)
ASSUME CharactersAreShortest ==
  \A bytes \in (Bytes3 \ {<<>>}) \cup Bytes4 :
    LET n == LengthFrom(bytes[1])
        c == CodePoint(bytes)
    IN  n = Len(bytes) =>
          (IsCharacterAt(bytes, 1)
             = ( /\ \A i \in 2 .. n : IsContinuation(bytes[i])
                 /\ c <= 1114111 /\ c \notin 55296 .. 57343 /\ Utf8Of(c) = bytes))

(* What is opened as text and saved unchanged is the same file.            *)
ASSUME UnchangedIsSaved ==
  \A bytes \in Bytes3 \cup Bytes4 :
    LET encoding == AnalyzeEncoding(bytes).encoding
        text     == DecodeBytes(bytes, encoding)
    IN  text # None => EncodeText(text, encoding) = bytes

(* Valid files are those that can be opened, and binary ones; what is not  *)
(* valid is refused.                                                       *)
ASSUME ValidIsReadable ==
  \A bytes \in Bytes3 \cup Bytes4 :
    LET analysis == AnalyzeEncoding(bytes)
    IN  (DecodeBytes(bytes, analysis.encoding) # None)
          = (analysis.valid /\ analysis.encoding # "binary")

(* A window that ends within a character is read up to there: leaving out  *)
(* at most three bytes makes it well-formed.                               *)
ASSUME WindowsCanBeRead ==
  \A characters \in TextsOver({Utf8Of(65), Utf8Of(128), Utf8Of(2048), Utf8Of(65599)}, 3) :
    LET bytes == FlattenSeq(characters)
    IN  \A n \in DOMAIN bytes :
          \E trim \in 0 .. 3 :
            LET text == DecodeUtf8(SubSeq(bytes, 1, n - trim))
            IN  trim <= n /\ text # None /\ IsPrefix(text, DecodeUtf8(bytes))

(* The line ends in the report are those that the status bar counts.       *)
ASSUME EndsAreCounted ==
  \A text \in TextsOver({CR, LF, 97, 8203}, 4) :
    LET eol == AnalyzeText(text)
    IN  /\ eol.crlf + eol.lf + eol.cr + 1 = CountLines(text)
        /\ Mixed(eol) = (\A ending \in {"crlf", "lf", "cr"} :
                           NormalizeLineEndings(text, ending) # text)

-----------------------------------------------------------------------------
(* Settings of .editorconfig.                                              *)

(* A star stands for any characters, a question mark for one.              *)
ASSUME GlobsAreRight ==
  \A pattern \in TextsOver({97, 98, STAR, QUESTION}, 4), text \in TextsOver({97, 98}, 3) :
    LET matches[p \in 0 .. Len(pattern), t \in 0 .. Len(text)] ==
          CASE p = 0 -> t = 0
            [] p > 0 /\ pattern[p] = STAR -> \E k \in 0 .. t : matches[p - 1, k]
            [] OTHER -> t > 0 /\ pattern[p] \in {QUESTION, text[t]} /\ matches[p - 1, t - 1]
    IN  GlobMatch(pattern, text) = matches[Len(pattern), Len(text)]

Configs == TextsOver({Section(<<STAR>>), Section(<<98, SLASH, STAR>>), Pair("root", "true"),
                      Pair("charset", "utf8"), Pair("charset", "utf8bom"),
                      Pair("charset", Unset)}, 3)

(* The nearest configuration wins, and none counts beyond a root.          *)
ASSUME NearestWins ==
  \A near \in Configs, far \in {<<Section(<<98, SLASH, STAR>>), Pair("charset", "utf16le")>>} :
    LET path     == << <<98>>, <<97>> >>
        alone    == ResolveEditorConfig(path, <<near>>).encoding
        farther  == ResolveEditorConfig(path, << <<>>, far>>).encoding
        resolved == ResolveEditorConfig(path, <<near, far>>).encoding
    IN  resolved = IF alone # Unset THEN alone ELSE IF IsRoot(near) THEN Unset ELSE farther

(* The configured charset replaces what the bytes say, and such a file is  *)
(* not what it was when it is saved unchanged: one that has no mark loses  *)
(* three bytes to utf-8-bom, and to utf-16be one with the other mark is    *)
(* taken for other characters.  Only its own charset, or utf-8 for a file  *)
(* of UTF-8 with a mark, keeps a file for certain.                         *)
ASSUME CharsetReplaces ==
  /\ \A bytes \in Bytes3 \cup Bytes4 :
       LET encoding == AnalyzeEncoding(bytes).encoding
           text     == DecodeBytes(bytes, "utf8")
       IN  encoding \in {"utf8", "utf8_bom"} /\ text # None => EncodeText(text, "utf8") = bytes
  /\ DecodeBytes(<<65, 66, 67, 68>>, "utf8_bom") = <<68>>
  /\ EncodeText(DecodeBytes(LittleMark \o <<65, 0>>, "utf16_be"), "utf16_be")
       = BigMark \o <<65, 0>>

-----------------------------------------------------------------------------
(* Languages.                                                              *)

Language(id, extensions) == [id |-> id, extensions |-> extensions, filenames |-> {}]
Entries ==
  [isDefinition : {TRUE}, isValid : BOOLEAN, module : {0, 2}, hasQuery : BOOLEAN,
   language : {Language("new", {"e1"}), Language("other", {"e2", "e3"}),
               Language("cpp", {"e1"})}]
    \cup {[isDefinition |-> FALSE, isValid |-> TRUE, module |-> 0, hasQuery |-> TRUE,
           language |-> Language("new", {"e1"})]}
Directories == TextsOver(Entries, 3)

(* No two languages have the same id; the limits are kept; every entry     *)
(* that was visited is a language, was refused with an error, or is not a  *)
(* definition.  A directory with as many definitions as there may be is    *)
(* reported to exceed that.                                                *)
ASSUME RegistryIsSound ==
  \A entries \in Directories :
    LET r      == LoadDirectory(entries)
        isFull == r.loaded = MaxDefinitions
        isCut  == r.visited = MaxEntries /\ Len(entries) > MaxEntries
        others == {i \in 1 .. r.visited : ~entries[i].isDefinition}
    IN  /\ \A i, j \in DOMAIN r.languages : r.languages[i].id = r.languages[j].id => i = j
        /\ r.bytes <= ModuleBudget /\ r.loaded <= MaxDefinitions /\ r.visited <= MaxEntries
        /\ Len(r.languages) = Len(Builtins) + r.loaded
        /\ r.loaded + Len(r.errors) + Cardinality(others)
             = r.visited + IF isFull \/ isCut THEN 1 ELSE 0

(* A definition takes no file from the languages before it.                *)
ASSUME DetectionIsStable ==
  \A entries \in Directories, extension \in {"e1", "e2", "e3", ".cpp", ".txt"} :
    LET before == Detect(Builtins, "", extension)
    IN  \/ before = Detect(LoadDirectory(entries).languages, "", extension)
        \/ \A i \in DOMAIN Builtins : extension \notin Builtins[i].extensions
=============================================================================
