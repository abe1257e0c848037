-------------------------- MODULE EncodingAnalysis --------------------------
(***************************************************************************)
(* What the bytes of a file are taken for, and what they become in the     *)
(* editor and in a file again (encoding_analysis.cpp).  A text is a        *)
(* sequence of UTF-16 code units.                                          *)
(*                                                                         *)
(* The conversions of Windows are external: the one of UTF-8 refuses what  *)
(* is not well-formed, and the code page here has one character for every  *)
(* byte, the one of the same number.                                       *)
(***************************************************************************)
EXTENDS TextCommands

IsContinuation(byte) == byte \in 128 .. 191

LengthFrom(lead) ==
  CASE lead < 128 -> 1
    [] lead \in 194 .. 223 -> 2
    [] lead \in 224 .. 239 -> 3
    [] lead \in 240 .. 244 -> 4
    [] OTHER -> 0

(* A character begins at position i.                                       *)
IsCharacterAt(bytes, i) ==
  LET lead == bytes[i]
      n    == LengthFrom(lead)
  IN  /\ n > 0 /\ i + n - 1 <= Len(bytes)
      /\ \A k \in i + 1 .. i + n - 1 : IsContinuation(bytes[k])
      /\ lead = 224 => bytes[i + 1] >= 160
      /\ lead = 237 => bytes[i + 1] < 160
      /\ lead = 240 => bytes[i + 1] >= 144
      /\ lead = 244 => bytes[i + 1] < 144

(* Offsets from 0 of the bytes that no character begins at or goes on with. *)
InvalidUtf8(bytes) ==
  LET from[i \in 1 .. Len(bytes) + 1] ==
        CASE i > Len(bytes)          -> {}
          [] i <= Len(bytes) /\ IsCharacterAt(bytes, i) -> from[i + LengthFrom(bytes[i])]
          [] OTHER                   -> {i - 1} \cup from[i + 1]
  IN  from[1]

-----------------------------------------------------------------------------
(* MultiByteToWideChar and WideCharToMultiByte for UTF-8.                  *)

(* The number of the character whose bytes are these.                      *)
CodePoint(bytes) ==
  LET mark == CASE Len(bytes) = 1 -> 0 [] Len(bytes) = 2 -> 192
                [] Len(bytes) = 3 -> 224 [] OTHER -> 240
      add(n, byte) == n * 64 + byte - 128
  IN  FoldLeft(add, bytes[1] - mark, Tail(bytes))

Units(c) == IF c < 65536 THEN <<c>>
            ELSE <<55296 + ((c - 65536) \div 1024), 56320 + ((c - 65536) % 1024)>>

Utf8Of(c) ==
  LET tail(n) == 128 + ((c \div n) % 64)
  IN  CASE c < 128             -> <<c>>
        [] c \in 128 .. 2047   -> <<192 + (c \div 64), tail(1)>>
        [] c \in 2048 .. 65535 -> <<224 + (c \div 4096), tail(64), tail(1)>>
        [] OTHER               -> <<240 + (c \div 262144), tail(4096), tail(64), tail(1)>>

DecodeUtf8(bytes) ==
  LET from[i \in 1 .. Len(bytes) + 1] ==
        IF i > Len(bytes) THEN <<>>
        ELSE LET n == LengthFrom(bytes[i])
             IN  Units(CodePoint(SubSeq(bytes, i, i + n - 1))) \o from[i + n]
  IN  IF InvalidUtf8(bytes) # {} THEN None ELSE from[1]

IsHigh(unit) == unit \in 55296 .. 56319
IsLow(unit)  == unit \in 56320 .. 57343

EncodeUtf8(text) ==
  LET isPair(i) == IsHigh(text[i]) /\ i < Len(text) /\ IsLow(text[i + 1])
      isTail(i) == i > 1 /\ IsLow(text[i]) /\ IsHigh(text[i - 1])
      bytes(i)  == CASE isTail(i) -> <<>>
                     [] isPair(i) -> Utf8Of(65536 + (text[i] - 55296) * 1024
                                              + text[i + 1] - 56320)
                     [] OTHER -> Utf8Of(text[i])
  IN  IF \E i \in DOMAIN text : (IsHigh(text[i]) /\ ~isPair(i)) \/ (IsLow(text[i]) /\ ~isTail(i))
      THEN None ELSE FlattenSeq([i \in DOMAIN text |-> bytes(i)])

-----------------------------------------------------------------------------
(* Bytes to text and back.                                                 *)

Utf8Mark  == <<239, 187, 191>>
LittleMark == <<255, 254>>
BigMark    == <<254, 255>>

From(bytes, i) == SubSeq(bytes, i, Len(bytes))

Decode16(bytes, encoding) ==
  [k \in 1 .. Len(bytes) \div 2 |->
     IF encoding = "utf16_le" THEN bytes[2 * k - 1] + 256 * bytes[2 * k]
     ELSE 256 * bytes[2 * k - 1] + bytes[2 * k]]

(* Only the marks of UTF-16 are looked at: in UTF-8 with a mark the first  *)
(* three bytes are passed over whatever they are.                          *)
DecodeBytes(bytes, encoding) ==
  LET isMarked == IsPrefix(LittleMark, bytes) \/ IsPrefix(BigMark, bytes)
      rest     == IF isMarked THEN From(bytes, 3) ELSE bytes
  IN  CASE encoding = "utf8"     -> DecodeUtf8(bytes)
        [] encoding = "utf8_bom" -> DecodeUtf8(IF Len(bytes) >= 3 THEN From(bytes, 4) ELSE bytes)
        [] encoding \in {"utf16_le", "utf16_be"} ->
             IF Len(rest) % 2 = 0 THEN Decode16(rest, encoding) ELSE None
        [] encoding = "ansi"     -> bytes
        [] encoding = "binary"   -> None

EncodeText(text, encoding) ==
  LET high(k) == text[k] \div 256
      low(k)  == text[k] % 256
  IN  CASE encoding = "utf8"     -> EncodeUtf8(text)
        [] encoding = "utf8_bom" ->
             IF EncodeUtf8(text) = None THEN None ELSE Utf8Mark \o EncodeUtf8(text)
        [] encoding = "utf16_le" ->
             LittleMark \o FlattenSeq([k \in DOMAIN text |-> <<low(k), high(k)>>])
        [] encoding = "utf16_be" ->
             BigMark \o FlattenSeq([k \in DOMAIN text |-> <<high(k), low(k)>>])
        [] encoding = "ansi"     ->
             IF \A k \in DOMAIN text : text[k] < 256 THEN text ELSE None
        [] encoding = "binary"   -> None

-----------------------------------------------------------------------------
(* The analysis.                                                           *)

Risky == 8234 .. 8238 \cup 8294 .. 8297 \cup {8203, 8204, 8205, 8288, 65279}

(* How often each line end occurs, and where characters are that cannot be *)
(* seen.                                                                   *)
AnalyzeText(text) ==
  LET ends(s) == Cardinality({i \in Breaks(text) : SubSeq(text, i, Behind(text, i) - 1) = s})
  IN  [crlf |-> ends(<<CR, LF>>), lf |-> ends(<<LF>>), cr |-> ends(<<CR>>),
       risks |-> {i \in DOMAIN text : text[i] \in Risky}]

Mixed(eol) == Cardinality({kind \in {"crlf", "lf", "cr"} : eol[kind] # 0}) > 1

(* Bytes without a mark are UTF-8 if they can be, and then text if there   *)
(* is no NUL among them.                                                   *)
Recognized(bytes) ==
  LET hasNul   == Contains(bytes, 0)
      oddByte  == IF Len(bytes) % 2 = 0 THEN {} ELSE {Len(bytes) - 1}
      is(kind, hasMark, invalid) ==
        [encoding |-> kind, hasMark |-> hasMark, invalid |-> invalid,
         valid |-> invalid = {} \/ kind = "ansi"]
  IN  CASE IsPrefix(Utf8Mark, bytes) ->
             is("utf8_bom", TRUE, {3 + offset : offset \in InvalidUtf8(From(bytes, 4))})
        [] IsPrefix(LittleMark, bytes) -> is("utf16_le", TRUE, oddByte)
        [] IsPrefix(BigMark, bytes)    -> is("utf16_be", TRUE, oddByte)
        [] OTHER ->
             LET invalid == InvalidUtf8(bytes)
             IN  is(CASE hasNul -> "binary" [] ~hasNul /\ invalid # {} -> "ansi" [] OTHER -> "utf8",
                    FALSE, invalid)

(* What cannot be read has no line ends and no risks.                      *)
AnalyzeEncoding(bytes) ==
  LET recognized == Recognized(bytes)
      text       == DecodeBytes(bytes, recognized.encoding)
  IN  recognized @@ AnalyzeText(IF text = None THEN <<>> ELSE text)
=============================================================================
