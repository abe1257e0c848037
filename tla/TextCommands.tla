---------------------------- MODULE TextCommands ----------------------------
(***************************************************************************)
(* The text commands of editing.cpp and the line endings of text.cpp as    *)
(* functions of a text, a sequence of code units.  A line ends at CR LF,   *)
(* at a lone CR or at a lone LF.                                           *)
(*                                                                         *)
(* Letters are those of ASCII; the 64 digits of Base64 are the numbers     *)
(* 0 .. 63 and its padding is Pad.                                         *)
(***************************************************************************)
EXTENDS Integers, Sequences, FiniteSets, SequencesExt

TAB == 9
LF == 10
CR == 13
SPACE == 32

None == <<-1>>  \* std::nullopt

IsUpper(c) == c \in 65 .. 90
IsLower(c) == c \in 97 .. 122
IsAlpha(c) == IsUpper(c) \/ IsLower(c)
IsDigit(c) == c \in 48 .. 57
IsSpace(c) == c \in {TAB, LF, 11, 12, CR, SPACE}
IsPunct(c) == c \in 33 .. 126 /\ ~IsAlpha(c) /\ ~IsDigit(c)
Upper(c)   == IF IsLower(c) THEN c - 32 ELSE c
Lower(c)   == IF IsUpper(c) THEN c + 32 ELSE c
Blank      == {SPACE, TAB}

-----------------------------------------------------------------------------
(* Lines.                                                                  *)

(* Where a line ends: a CR, or an LF that is not the second half of one.   *)
Breaks(t) == {i \in DOMAIN t : \/ t[i] = CR
                               \/ t[i] = LF /\ ~(i > 1 /\ t[i - 1] = CR)}

IsPair(t, i) == t[i] = CR /\ i < Len(t) /\ t[i + 1] = LF

HasPair(t) == \E i \in DOMAIN t : IsPair(t, i)

(* The first position behind the line end at i.                            *)
Behind(t, i) == IF IsPair(t, i) THEN i + 2 ELSE i + 1

(* Position of the n-th line end.                                          *)
NthBreak(t, n) ==
  CHOOSE i \in Breaks(t) : Cardinality({j \in Breaks(t) : j <= i}) = n

CountLines(t) == Cardinality(Breaks(t)) + 1

Ending(t) == IF HasPair(t) THEN <<CR, LF>> ELSE <<LF>>

ParseLines(t) ==
  LET n      == Cardinality(Breaks(t))
      ends   == [k \in 1 .. n |-> NthBreak(t, k)]
      starts == [k \in 1 .. n + 1 |-> IF k = 1 THEN 1 ELSE Behind(t, ends[k - 1])]
      open   == t = <<>> \/ starts[n + 1] <= Len(t)
  IN  [values     |-> [k \in 1 .. IF open THEN n + 1 ELSE n |->
                         SubSeq(t, starts[k], IF k <= n THEN ends[k] - 1 ELSE Len(t))],
       ending     |-> Ending(t),
       terminated |-> ~open]

Joined(values, separator) ==
  FlattenSeq([k \in DOMAIN values |-> IF k = 1 THEN values[1] ELSE separator \o values[k]])

Compose(lines) ==
  Joined(lines.values, lines.ending)
    \o IF lines.terminated /\ lines.values # <<>> THEN lines.ending ELSE <<>>

WithValues(lines, values) == [lines EXCEPT !.values = values]

Fold(line) == [i \in DOMAIN line |-> Lower(line[i])]

(* The order of std::wstring.                                              *)
Less(a, b) ==
  \/ \E n \in 1 .. Len(a) : n <= Len(b) /\ SubSeq(a, 1, n - 1) = SubSeq(b, 1, n - 1)
                                        /\ a[n] < b[n]
  \/ Len(a) < Len(b) /\ a = SubSeq(b, 1, Len(a))

(* A stable sort of values by their keys puts one behind those before it.  *)
Sorted(values, keys, order) ==
  LET isBefore(i, j) == IF order = "ascending" THEN Less(keys[i], keys[j])
                                               ELSE Less(keys[j], keys[i])
      rank == [i \in DOMAIN values |->
                 Cardinality({j \in DOMAIN values :
                                isBefore(j, i) \/ (j <= i /\ ~isBefore(i, j))})]
  IN  [k \in DOMAIN values |-> values[CHOOSE i \in DOMAIN values : rank[i] = k]]

(* The values at some positions.                                           *)
Kept(values, positions) ==
  [k \in 1 .. Cardinality(positions) |->
     values[CHOOSE i \in positions : Cardinality({j \in positions : j <= i}) = k]]

KeysOf(values, ignoreCase) ==
  IF ignoreCase THEN [k \in DOMAIN values |-> Fold(values[k])] ELSE values

SortLines(t, order, unique, ignoreCase) ==
  LET lines  == ParseLines(t)
      values == lines.values
      sorted == IF order = "reverse" THEN Reverse(values)
                ELSE Sorted(values, KeysOf(values, ignoreCase), order)
      keys   == KeysOf(sorted, ignoreCase)
      firsts == {k \in DOMAIN sorted : k = 1 \/ keys[k] # keys[k - 1]}
  IN  Compose(WithValues(lines, IF unique THEN Kept(sorted, firsts) ELSE sorted))

RemoveBlankLines(t, whitespaceOnly) ==
  LET lines == ParseLines(t)
      isText(line) == /\ line # <<>>
                      /\ whitespaceOnly => \E j \in DOMAIN line : ~IsSpace(line[j])
      values == Kept(lines.values, {k \in DOMAIN lines.values : isText(lines.values[k])})
  IN  Compose([lines EXCEPT !.values = values,
                            !.terminated = @ /\ values # <<>>])

(* A line from its first to its last character that is not blank.          *)
Solid(line) == {i \in DOMAIN line : line[i] \notin Blank}
LastSolid(line)  == IF Solid(line) = {} THEN 0
                    ELSE CHOOSE i \in Solid(line) : \A j \in Solid(line) : j <= i
FirstSolid(line) == IF Solid(line) = {} THEN Len(line) + 1
                    ELSE CHOOSE i \in Solid(line) : \A j \in Solid(line) : i <= j

TrimTrailingWhitespace(t) ==
  LET lines == ParseLines(t)
  IN  Compose(WithValues(lines, [k \in DOMAIN lines.values |->
                SubSeq(lines.values[k], 1, LastSolid(lines.values[k]))]))

JoinLines(t, separator) ==
  LET values == ParseLines(t).values
      solid  == Kept(values, {k \in DOMAIN values : Solid(values[k]) # {}})
  IN  Joined([k \in DOMAIN solid |->
                SubSeq(solid[k], FirstSolid(solid[k]), LastSolid(solid[k]))], separator)

(* One line wrapped: it is cut at the last space at or before the column,  *)
(* and the rest loses its leading blanks.                                  *)
Wrapped(line, column) ==
  LET cut(s)  == LET spaces == {i \in 1 .. column : s[i + 1] = SPACE}
                 IN  IF spaces = {} THEN column
                     ELSE CHOOSE i \in spaces : \A j \in spaces : j <= i
      rest(s) == LET r == SubSeq(s, cut(s) + 1, Len(s))
                 IN  SubSeq(r, FirstSolid(r), Len(r))
      left[n \in 0 .. Len(line)] == IF n = 0 THEN line
                                    ELSE LET s == left[n - 1]
                                         IN  IF Len(s) > column THEN rest(s) ELSE s
      n == CHOOSE n \in 0 .. Len(line) : /\ Len(left[n]) <= column
                                         /\ \A k \in 0 .. n - 1 : Len(left[k]) > column
  IN  [k \in 1 .. n + 1 |-> IF k <= n THEN SubSeq(left[k - 1], 1, cut(left[k - 1]))
                                      ELSE left[n]]

SplitLines(t, column) ==
  LET lines == ParseLines(t)
  IN  IF column = 0 THEN t
      ELSE Compose(WithValues(lines, FlattenSeq([k \in DOMAIN lines.values |->
                                                   Wrapped(lines.values[k], column)])))

-----------------------------------------------------------------------------
(* Characters.                                                             *)

(* The column behind each character; a tab moves to the next stop.          *)
Column(t, width) ==
  LET column[i \in 0 .. Len(t)] ==
        IF i = 0 \/ t[i] \in {CR, LF} THEN 0
        ELSE column[i - 1] + IF t[i] = TAB THEN width - (column[i - 1] % width) ELSE 1
  IN  column

Spaces(n) == [i \in 1 .. n |-> SPACE]

TabsToSpaces(t, width) ==
  LET column == Column(t, width)
  IN  IF width = 0 THEN t
      ELSE FlattenSeq([i \in DOMAIN t |->
             IF t[i] = TAB THEN Spaces(column[i] - column[i - 1]) ELSE <<t[i]>>])

(* Spaces up to a stop become a tab, but for a single one.  A tab that is  *)
(* there counts as one column.                                             *)
SpacesToTabs(t, width) ==
  LET lineEnds == {0} \cup {i \in DOMAIN t : t[i] \in {CR, LF}}
      column(i) == i - (CHOOSE j \in lineEnds : j <= i /\ \A k \in lineEnds : k <= i => k <= j)
      isStop(i) == column(i) % width = 0
      isSpaces(i, j) == \A k \in i .. j : t[k] = SPACE
      reachesStop(i) == \E j \in i .. Len(t) : isSpaces(i, j) /\ isStop(j)
      isLonger(i) == i > 1 /\ t[i - 1] = SPACE /\ ~isStop(i - 1)
  IN  IF width = 0 THEN t
      ELSE FlattenSeq([i \in DOMAIN t |->
             CASE ~(t[i] = SPACE /\ reachesStop(i)) -> <<t[i]>>
               [] t[i] = SPACE /\ reachesStop(i) /\ ~isStop(i) -> <<>>
               [] t[i] = SPACE /\ isStop(i) -> <<IF isLonger(i) THEN TAB ELSE SPACE>>])

(* A word begins behind a space or a mark, a sentence behind . ! or ?       *)
ConvertCase(t, letterCase) ==
  LET isWord(i) == i = 1 \/ IsSpace(t[i - 1]) \/ IsPunct(t[i - 1])
      isSentence(i) == \A j \in 1 .. i - 1 : IsAlpha(t[j]) =>
                         \E k \in j + 1 .. i - 1 : t[k] \in {46, 33, 63}
      isUpper(i) == \/ letterCase = "upper"
                    \/ letterCase = "title" /\ isWord(i)
                    \/ letterCase = "sentence" /\ isSentence(i)
  IN  [i \in DOMAIN t |-> IF isUpper(i) THEN Upper(t[i]) ELSE Lower(t[i])]

-----------------------------------------------------------------------------
(* Codes.                                                                  *)

HexDigit(n) == IF n < 10 THEN 48 + n ELSE 55 + n
HexValue(c) == CASE IsDigit(c) -> c - 48
                 [] c \in 97 .. 102 -> c - 87
                 [] c \in 65 .. 70 -> c - 55
                 [] OTHER -> 16

(* What follows the backslash for a character that has a short escape.     *)
ShortEscapes == [c \in {92, 34, 8, 12, LF, CR, TAB} |->
  CASE c = 8 -> 98 [] c = 12 -> 102 [] c = LF -> 110 [] c = CR -> 114
    [] c = TAB -> 116 [] OTHER -> c]

EscapeJsonString(t) ==
  FlattenSeq([i \in DOMAIN t |->
    IF t[i] \in DOMAIN ShortEscapes THEN <<92, ShortEscapes[t[i]]>>
    ELSE IF t[i] < 32 THEN <<92, 117, 48, 48, HexDigit(t[i] \div 16), HexDigit(t[i] % 16)>>
    ELSE <<t[i]>>])

(* A backslash opens an escape unless it is the second half of one.  The    *)
(* escape with four hexadecimal digits is not read.                        *)
UnescapeJsonString(t) ==
  LET opens[i \in DOMAIN t] == t[i] = 92 /\ ~(i > 1 /\ opens[i - 1])
      meanings(c) == {m \in DOMAIN ShortEscapes : ShortEscapes[m] = c}
                       \cup {m \in {47} : m = c}
      isRead(i) == i < Len(t) /\ meanings(t[i + 1]) # {}
  IN  IF \E i \in DOMAIN t : opens[i] /\ ~isRead(i) THEN None
      ELSE FlattenSeq([i \in DOMAIN t |->
             IF opens[i] THEN <<>>
             ELSE IF i > 1 /\ opens[i - 1] THEN <<CHOOSE m \in meanings(t[i]) : TRUE>>
             ELSE <<t[i]>>])

Pad == 64

Base64Encode(bytes) ==
  LET n == Len(bytes)
      at(i) == IF i <= n THEN bytes[i] ELSE 0
      quad(i) == << at(i) \div 4, (at(i) % 4) * 16 + at(i + 1) \div 16,
                    IF i + 1 <= n THEN (at(i + 1) % 16) * 4 + at(i + 2) \div 64 ELSE Pad,
                    IF i + 2 <= n THEN at(i + 2) % 64 ELSE Pad >>
  IN  FlattenSeq([k \in 1 .. (n + 2) \div 3 |-> quad(3 * k - 2)])

Base64Decode(t) ==
  LET groups == Len(t) \div 4
      quad(k) == SubSeq(t, 4 * k - 3, 4 * k)
      pads(k) == Cardinality({j \in 1 .. 4 : quad(k)[j] = Pad})
      isValid(k) == /\ \A j \in 1 .. 4 : quad(k)[j] \in 0 .. Pad
                    /\ \A j \in 1 .. 3 : quad(k)[j] = Pad => quad(k)[j + 1] = Pad
                    /\ pads(k) <= 2 /\ (pads(k) > 0 => k = groups)
      digit(k, j) == quad(k)[j] % Pad
      bytes(k) == << digit(k, 1) * 4 + digit(k, 2) \div 16,
                     (digit(k, 2) % 16) * 16 + digit(k, 3) \div 4,
                     (digit(k, 3) % 4) * 64 + digit(k, 4) >>
  IN  IF Len(t) % 4 # 0 \/ \E k \in 1 .. groups : ~isValid(k) THEN None
      ELSE FlattenSeq([k \in 1 .. groups |-> SubSeq(bytes(k), 1, 3 - pads(k))])

UrlEncode(bytes) ==
  FlattenSeq([i \in DOMAIN bytes |->
    IF IsAlpha(bytes[i]) \/ IsDigit(bytes[i]) \/ bytes[i] \in {45, 95, 46, 126}
    THEN <<bytes[i]>>
    ELSE <<37, HexDigit(bytes[i] \div 16), HexDigit(bytes[i] % 16)>>])

(* A percent sign and two digits are a code unit.  A percent sign inside of *)
(* a code is not a digit, so no code is accepted around it.                *)
UrlDecode(t) ==
  LET opens(i)  == i > 0 /\ t[i] = 37
      isCode(i) == i + 2 <= Len(t) /\ HexValue(t[i + 1]) < 16 /\ HexValue(t[i + 2]) < 16
  IN  IF \E i \in DOMAIN t : opens(i) /\ ~isCode(i) THEN None
      ELSE FlattenSeq([i \in DOMAIN t |->
             IF opens(i) THEN <<HexValue(t[i + 1]) * 16 + HexValue(t[i + 2])>>
             ELSE IF opens(i - 1) \/ opens(i - 2) THEN <<>>
             ELSE <<IF t[i] = 43 THEN SPACE ELSE t[i]>>])

(* Decimal digits of the members of an arithmetic sequence, here below 100. *)
GenerateSequence(start, count, step, separator) ==
  LET digits(n) == IF n < 10 THEN <<48 + n>> ELSE <<48 + n \div 10, 48 + (n % 10)>>
  IN  Joined([k \in 1 .. count |-> digits(start + (k - 1) * step)], separator)

-----------------------------------------------------------------------------
(* Saving.                                                                 *)

Delimiter(ending) == CASE ending = "crlf" -> <<CR, LF>>
                       [] ending = "lf" -> <<LF>>
                       [] ending = "cr" -> <<CR>>

DetectLineEnding(t) == CASE HasPair(t) -> "crlf"
                         [] ~HasPair(t) /\ Contains(t, LF) -> "lf"
                         [] ~Contains(t, LF) /\ Contains(t, CR) -> "cr"
                         [] OTHER -> "crlf"

NormalizeLineEndings(t, ending) ==
  FlattenSeq([i \in DOMAIN t |-> IF i \in Breaks(t) THEN Delimiter(ending)
                                 ELSE IF t[i] = LF THEN <<>> ELSE <<t[i]>>])

EnsureFinalNewline(t, newline) ==
  IF t = <<>> \/ t[Len(t)] \in {CR, LF} THEN t ELSE t \o newline

-----------------------------------------------------------------------------
(* The statistics of a document; its bytes are those of EncodingAnalysis.  *)

CalculateStatistics(t) ==
  LET solid      == {i \in DOMAIN t : ~IsSpace(t[i])}
      isBlank(n) == \A i \in solid : Cardinality({j \in Breaks(t) : j < i}) # n
  IN  [characters        |-> Len(t),
       withoutWhitespace |-> Cardinality(solid),
       words             |-> Cardinality({i \in solid : i - 1 \notin solid}),
       lines             |-> CountLines(t),
       nonBlankLines     |-> Cardinality({n \in 0 .. Cardinality(Breaks(t)) : ~isBlank(n)})]
=============================================================================
