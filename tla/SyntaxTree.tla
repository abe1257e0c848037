----------------------------- MODULE SyntaxTree -----------------------------
(***************************************************************************)
(* What the program needs of a syntax tree: which part of which text it    *)
(* stands for, in bytes and in rows.  A tree is a sequence with one leaf   *)
(* for every byte; a leaf knows the byte it was parsed from and its row    *)
(* and column.  An edit tells the tree what the editor did; the next parse *)
(* keeps every leaf the edit left and reads the others anew, so a wrong    *)
(* edit shows up as a leaf that is not of the text.                        *)
(*                                                                         *)
(* A line ends with a line feed.  A lone carriage return, which Scintilla  *)
(* takes for the end of a line and tree-sitter does not, is left out: rows *)
(* would differ, and the program uses the bytes only.                      *)
(***************************************************************************)
EXTENDS Naturals, Sequences, FiniteSets, FiniteSetsExt

CONSTANTS Chars,     \* the bytes of a text
          LineFeed,  \* the one that ends a line
          Unread     \* the byte of a leaf that the next parse has to read

ASSUME CharsAssumption == LineFeed \in Chars /\ Unread \notin Chars

NoTree == <<[char |-> Unread, row |-> 1, column |-> 1]>>  \* the null pointer

LineEnds(s) == {i \in DOMAIN s : s[i] = LineFeed}

(* Row and column that are reached from a position by reading s.           *)
Advanced(row, column, s) ==
  [row    |-> row + Cardinality(LineEnds(s)),
   column |-> IF LineEnds(s) = {} THEN column + Len(s)
              ELSE Len(s) - Max(LineEnds(s))]

(* Row and column of offset i of text s.                                   *)
PointAt(s, i) == Advanced(0, 0, SubSeq(s, 1, i))

(* The text after a notification: segment inserted at an offset, or erased *)
(* there.                                                                  *)
Inserted(s, at, segment) == SubSeq(s, 1, at) \o segment \o SubSeq(s, at + 1, Len(s))
Deleted(s, at, length)   == SubSeq(s, 1, at) \o SubSeq(s, at + length + 1, Len(s))

(* The edit UpdateSyntaxTree makes of a notification.  The line and the    *)
(* column of the start are asked of the editor, which has changed already. *)
EditOf(insertion, at, segment, after) ==
  LET start == PointAt(after, at)
      end   == Advanced(start.row, start.column, segment)
      short == [byte |-> at, row |-> start.row, column |-> start.column]
      long  == [byte |-> at + Len(segment), row |-> end.row, column |-> end.column]
  IN  IF insertion THEN [start |-> at, old |-> short, new |-> long]
                   ELSE [start |-> at, old |-> long, new |-> short]

(* The edit of a first parse: no field is set.                             *)
NoEdit == LET zero == [byte |-> 0, row |-> 0, column |-> 0]
          IN  [start |-> 0, old |-> zero, new |-> zero]

IsIncremental(edit) == edit.old.byte # 0 \/ edit.new.byte # 0

(* The library's part.                                                     *)
Leaf(s, i) == [char   |-> s[i], row |-> PointAt(s, i - 1).row,
               column |-> PointAt(s, i - 1).column]

UnreadLeaf == [char |-> Unread, row |-> 0, column |-> 0]

TreeOf(s) == [i \in 1 .. Len(s) |-> Leaf(s, i)]

Moved(leaf, edit) ==
  IF leaf = UnreadLeaf THEN leaf
  ELSE IF leaf.row > edit.old.row
  THEN [leaf EXCEPT !.row = (@ + edit.new.row) - edit.old.row]
  ELSE [leaf EXCEPT !.row = edit.new.row,
                    !.column = (@ + edit.new.column) - edit.old.column]

(* ts_tree_edit                                                            *)
TreeEdit(tree, edit) ==
  LET rest == SubSeq(tree, edit.old.byte + 1, Len(tree))
  IN  SubSeq(tree, 1, edit.start)
        \o [i \in 1 .. edit.new.byte - edit.start |-> UnreadLeaf]
        \o [i \in DOMAIN rest |-> Moved(rest[i], edit)]

(* ts_parser_parse_string with an old tree.                                *)
Reparsed(tree, s) ==
  [i \in 1 .. Len(s) |-> IF i \in DOMAIN tree /\ tree[i] # UnreadLeaf
                         THEN tree[i] ELSE Leaf(s, i)]

(* Every leaf is the text's own, in its place, or yet to be read.          *)
Fits(tree, s) == /\ tree # NoTree
                 /\ Len(tree) = Len(s)
                 /\ \A i \in 1 .. Len(s) : tree[i] \in {UnreadLeaf, Leaf(s, i)}
=============================================================================
