------------------------------ MODULE TextLaws ------------------------------
(***************************************************************************)
(* What the text commands promise, evaluated over all short texts.         *)
(***************************************************************************)
EXTENDS TextCommands

TextsOver(characters, length) == UNION {[1 .. n -> characters] : n \in 0 .. length}

Characters == {CR, LF, SPACE, TAB, 97, 66}
Texts4 == TextsOver(Characters, 4)
Texts3 == TextsOver(Characters, 3)
Bytes  == TextsOver({0, 1, 37, 43, 97, 255}, 4)

(* The number of lines in the status bar is that of the text's lines, one  *)
(* more if the text ends with a line end.                                  *)
ASSUME LinesAreCounted ==
  \A t \in Texts4 : LET lines == ParseLines(t)
                    IN  CountLines(t) = Len(lines.values) + IF lines.terminated THEN 1 ELSE 0

(* Words are what blanks and line ends leave between them.                 *)
ASSUME StatisticsAgree ==
  \A t \in Texts4 :
    LET counted == CalculateStatistics(t)
        begins  == {i \in DOMAIN t : IsSpace(t[i]) # IsSpace((<<SPACE>> \o t)[i])}
        spaces  == counted.characters - counted.withoutWhitespace
    IN  /\ counted.nonBlankLines <= counted.words /\ counted.nonBlankLines <= counted.lines
        /\ Cardinality(begins) \in {2 * counted.words - 1, 2 * counted.words}
        /\ spaces = 0 => counted.words = IF t = <<>> THEN 0 ELSE 1
        /\ counted.nonBlankLines = CalculateStatistics(RemoveBlankLines(t, TRUE)).nonBlankLines

(* Taking a text apart and composing it again only makes its line ends     *)
(* alike.                                                                  *)
ASSUME ComposeNormalizes ==
  \A t \in Texts4 : Compose(ParseLines(t))
                      = NormalizeLineEndings(t, IF HasPair(t) THEN "crlf" ELSE "lf")

(* Sorting sorts, and keeps every line.                                    *)
ASSUME SortSorts ==
  \A t \in Texts4 :
    LET before == ParseLines(t).values
        after  == Sorted(before, before, "ascending")
    IN  /\ \A i \in 1 .. Len(after) - 1 : ~Less(after[i + 1], after[i])
        /\ \A v \in ToSet(before) : Cardinality({i \in DOMAIN after : after[i] = v})
                                      = Cardinality({i \in DOMAIN before : before[i] = v})

(* What is trimmed, joined or in title case stays as it is.                *)
ASSUME CommandsSettle ==
  /\ \A t \in Texts4 : LET u == TrimTrailingWhitespace(t) IN TrimTrailingWhitespace(u) = u
  /\ \A t \in Texts3 : LET u == JoinLines(t, <<SPACE>>) IN JoinLines(u, <<SPACE>>) = u
  /\ \A t \in Texts4 : LET u == ConvertCase(t, "title") IN ConvertCase(u, "title") = u

(* No line of a split text is longer than the column.                      *)
ASSUME SplitIsNarrow ==
  \A t \in Texts3, column \in 1 .. 2 :
    \A line \in ToSet(ParseLines(SplitLines(t, column)).values) : Len(line) <= column

(* Tabs for spaces leave every character in its column, in a text that has *)
(* no tabs yet: one that is there is counted as a single column.           *)
ASSUME TabsKeepColumns ==
  /\ \A t \in Texts4, width \in 1 .. 3 :
       ~Contains(t, TAB) => TabsToSpaces(SpacesToTabs(t, width), width) = t
  /\ TabsToSpaces(SpacesToTabs(<<TAB, SPACE, SPACE>>, 3), 3)
       # TabsToSpaces(<<TAB, SPACE, SPACE>>, 3)

(* What is encoded is decoded again, except for the escape of a control    *)
(* character, which is not read.                                           *)
ASSUME CodesRoundTrip ==
  /\ \A t \in Bytes : /\ Base64Decode(Base64Encode(t)) = t
                      /\ UrlDecode(UrlEncode(t)) = t
  /\ \A t \in TextsOver({34, 92, LF, 97, 8, 110}, 4) :
       UnescapeJsonString(EscapeJsonString(t)) = t
  /\ UnescapeJsonString(EscapeJsonString(<<1>>)) = None
=============================================================================
