------------------------------- MODULE LargeFile -------------------------------
(***************************************************************************)
(* A file of the large-file mode (main.cpp): the piece table over the      *)
(* mapped file, the window of it that the editor shows, the edits that are *)
(* recorded in the table, moving and searching, the streaming save, follow *)
(* mode, and other programs that write the file.                           *)
(*                                                                         *)
(* A character is one byte, the UTF-8 byte-order mark is one byte, too,    *)
(* and a window is Window bytes long.  A file's version stands for its     *)
(* write time: no two contents have the same.  Other programs replace the  *)
(* file or append to it, so a mapping that is open keeps its bytes.        *)
(***************************************************************************)
EXTENDS LargeFileBuffer

CONSTANTS Bytes,        \* the characters of a file
          Bom,          \* the byte-order mark
          Files,        \* the contents other programs give the file
          Window,       \* mapped_window_size
          Chunk,        \* kIoChunk
          MaxWrites,    \* bound: times another program writes it
          MaxCommands   \* bound: commands the user gives

ASSUME FilesAssumption == /\ Bom \notin Bytes /\ Gap \notin Bytes \cup {Bom}
                          /\ Files \subseteq Seq(Bytes \cup {Bom})
ASSUME BoundsAssumption == /\ Window \in Nat \ {0} /\ Chunk \in Nat \ {0}
                           /\ MaxWrites \in Nat /\ MaxCommands \in Nat

VARIABLES
  disk,      \* the file at the document's path
  versions,  \* contents it was given so far
  writes,    \* those that another program gave it
  buffer,    \* large_buffer, the piece table
  source,    \* its source_: the handle, and what the handle reads
  known,     \* its source_disk_size_ and source_last_write_
  origin,    \* not in the code: the version whose text the table's pieces give
  editor,    \* Scintilla: the text, its undo history and save point
  doc,       \* the rest of the EditorDocument, and its metadata
  ui,        \* where the UI thread is
  noted,     \* the handler's local file state, view or temporary file
  commands   \* commands given so far

file == <<disk, versions, writes>>
table == <<buffer, source, known, origin>>
vars == <<file, table, editor, doc, ui, noted, commands>>

Gone    == [version |-> 0, bytes |-> <<>>]
Unknown == 0   \* file_time_type::min after an error
Never   == -1  \* the save point cannot be reached any more

(* CaptureFileState.                                                       *)
State(f) == [version |-> f.version, size |-> Len(f.bytes)]

ClosedSource == [open |-> FALSE, bytes |-> <<>>, version |-> 0]
Mapped(f)    == [open |-> TRUE, bytes |-> f.bytes, version |-> f.version]

(* via: how the text in the editor came there.                             *)
ClosedDoc == [open |-> FALSE, titled |-> FALSE, bom |-> FALSE, dirty |-> FALSE,
              readOnly |-> FALSE, flagged |-> FALSE, follow |-> FALSE,
              fileState |-> State(Gone), offset |-> 0, decoded |-> 0,
              via |-> "open"]

(* The file as State, the bytes and the place of the handler in progress;  *)
(* of a save, once the file is renamed: the document's own file before it, *)
(* the version that was written, and whether the table was Sound.          *)
Nothing == [state |-> State(Gone), bytes |-> <<>>, same |-> TRUE,
            own |-> Gone, version |-> 0, sound |-> FALSE]

Init == /\ disk \in [version : {1}, bytes : Files]
        /\ versions = 1 /\ writes = 0
        /\ buffer = Opened(0) /\ source = ClosedSource
        /\ known = Unknown /\ origin = 0
        /\ editor = [text |-> <<>>, past |-> <<>>, saved |-> 0]
        /\ doc = ClosedDoc /\ ui = "idle" /\ noted = Nothing /\ commands = 0

Ready == ui = "idle" /\ doc.open

Command == /\ Ready
           /\ commands < MaxCommands
           /\ commands' = commands + 1

Moves(place) == ui' = place /\ UNCHANGED commands

-----------------------------------------------------------------------------
(* Other programs.                                                         *)

NewVersion(bytes) == /\ versions' = versions + 1
                     /\ disk' = [version |-> versions', bytes |-> bytes]

ExternalWrite == /\ \/ \E bytes \in Files : NewVersion(bytes)
                    \/ \E byte \in Bytes : disk # Gone /\ NewVersion(Append(disk.bytes, byte))
                 /\ writes < MaxWrites
                 /\ writes' = writes + 1
                 /\ UNCHANGED <<table, editor, doc, ui, noted, commands>>

ExternalDelete == /\ disk # Gone
                  /\ disk' = Gone
                  /\ UNCHANGED <<versions, writes, table, editor, doc, ui, noted, commands>>

-----------------------------------------------------------------------------
(* The editor's text and the piece table.                                  *)

(* A change of the editor's text: SC_MOD_DELETETEXT, SC_MOD_INSERTTEXT.    *)
Change(at, removed, added, load) ==
  [at |-> at, removed |-> removed, added |-> added, load |-> load]

Reversed(c) == [c EXCEPT !.removed = c.added, !.added = c.removed]

Splice(text, at, n, added) ==
  SubSeq(text, 1, at) \o added \o SubSeq(text, at + n + 1, Len(text))

Changed(text, c) == Splice(text, c.at, Len(c.removed), c.added)

AtSavePoint(e) == e.saved = Len(e.past)

Do(c) == [text |-> Changed(editor.text, c), past |-> Append(editor.past, c),
          saved |-> IF editor.saved > Len(editor.past) THEN Never ELSE editor.saved]

Undone == [editor EXCEPT !.text = Changed(@, Reversed(Last(editor.past))),
                         !.past = Front(@)]

(* A mutant: the position in the window is taken for the one in the file.  *)
MutantLogical(c) == c.at

(* UpdateLargeBuffer: where a change is in the file.                       *)
Logical(c) == doc.decoded + c.at

CanRecordErase(c) == \/ c.removed = <<>>
                     \/ CanErase(buffer, Logical(c), Len(c.removed))

Erased(c) == IF CanRecordErase(c) THEN Erase(buffer, Logical(c), Len(c.removed)) ELSE buffer

CanRecord(c) == /\ CanRecordErase(c)
                /\ c.added # <<>> => CanInsert(Erased(c), Logical(c))

Recorded(c) == IF c.added # <<>> /\ CanInsert(Erased(c), Logical(c))
               THEN Insert(Erased(c), Logical(c), c.added) ELSE Erased(c)

(* OnNotify: the save point is left, the change recorded - or the editor   *)
(* made read-only - and at the end of an undo the save point reached.      *)
Modify(c, e, via) ==
  /\ editor' = e
  /\ buffer' = Recorded(c)
  /\ doc' = [doc EXCEPT !.dirty = ~AtSavePoint(e), !.via = via,
                        !.readOnly = @ \/ ~CanRecord(c)]
  /\ UNCHANGED <<source, known, origin>>

(* A key, or a paste.                                                      *)
Edit == /\ Command /\ ~doc.readOnly
        /\ \E at \in 0 .. Len(editor.text) :
             \/ \E byte \in Bytes :
                  LET c == Change(at, <<>>, <<byte>>, FALSE)
                  IN  Modify(c, Do(c), doc.via)
             \/ /\ at < Len(editor.text)
                /\ LET c == Change(at, <<editor.text[at + 1]>>, <<>>, FALSE)
                   IN  Modify(c, Do(c), doc.via)
        /\ UNCHANGED <<file, ui, noted>>

(* The history holds the texts that were set as well as the edits.         *)
Undo == /\ Command /\ ~doc.readOnly
        /\ editor.past # <<>>
        /\ LET c == Last(editor.past)
           IN  Modify(Reversed(c), Undone, IF c.load THEN "undo" ELSE doc.via)
        /\ UNCHANGED <<file, ui, noted>>

-----------------------------------------------------------------------------
(* OpenPath: two mappings of the file, the table's stamp, the document.    *)

Decode(bytes, bom) == IF bom /\ bytes # <<>> THEN Tail(bytes) ELSE bytes

HasBom(bytes) == bytes # <<>> /\ bytes[1] = Bom

(* ClassifyFileSize: a large file is larger than a window.                 *)
IsLarge(f) == Len(f.bytes) > Window

OpenView == /\ ui = "idle" /\ ~doc.open /\ IsLarge(disk)
            /\ noted' = [Nothing EXCEPT !.bytes = disk.bytes]
            /\ Moves("openMap")
            /\ UNCHANGED <<file, table, editor, doc>>

Map(failed, mapped) ==
  \/ /\ disk # Gone
     /\ source' = Mapped(disk) /\ origin' = disk.version
     /\ buffer' = Opened(Len(disk.bytes))
     /\ Moves(mapped)
     /\ UNCHANGED known
  \/ /\ source' = ClosedSource /\ buffer' = Opened(0)
     /\ Moves(failed)
     /\ UNCHANGED <<known, origin>>

Stamp(failed, stamped) ==
  \/ /\ disk # Gone
     /\ known' = disk.version
     /\ Moves(stamped)
     /\ UNCHANGED <<source, buffer, origin>>
  \/ /\ source' = ClosedSource /\ buffer' = Opened(0)
     /\ Moves(failed)
     /\ UNCHANGED <<known, origin>>

OpenMap == /\ ui = "openMap"
           /\ Map("idle", "openStamp")
           /\ UNCHANGED <<file, editor, doc, noted>>

OpenStamp == /\ ui = "openStamp"
             /\ Stamp("idle", "openAdd")
             /\ UNCHANGED <<file, editor, doc, noted>>

(* The first window comes from the view, and its place from the default of *)
(* mapped_decoded_offset.                                                  *)
OpenAdd ==
  /\ ui = "openAdd"
  /\ LET bom == HasBom(noted.bytes)
         first == SubSeq(noted.bytes, 1, Least(Window, Len(noted.bytes)))
     IN  /\ editor' = [text |-> Decode(first, bom), past |-> <<>>, saved |-> 0]
         /\ doc' = [ClosedDoc EXCEPT !.open = TRUE, !.titled = TRUE, !.bom = bom,
                                     !.fileState = State(disk)]
  /\ noted' = Nothing
  /\ Moves("idle")
  /\ UNCHANGED <<file, table>>

-----------------------------------------------------------------------------
(* The window: LoadLargeFileWindow, MoveLargeFileWindow, FindNext.         *)

SourceBytes == IF source.open THEN source.bytes ELSE <<>>

WindowBytes(offset) == Read(buffer, SourceBytes, offset, Window)

CanLoad(offset) == /\ source.open
                   /\ WindowBytes(offset) # <<>>

(* ReadTextWindow leaves the byte-order mark out of the first window.      *)
AfterBom(offset) == doc.bom /\ offset = 0

DecodedOffset(offset) == IF AfterBom(offset) THEN 1 ELSE offset

(* loading_large_window keeps the table out of it.  An unmodified table    *)
(* puts the save point here.                                               *)
Load(offset, d) ==
  LET c == Change(0, editor.text, Decode(WindowBytes(offset), AfterBom(offset)), TRUE)
  IN  /\ editor' = IF buffer.modified THEN Do(c)
                   ELSE [Do(c) EXCEPT !.saved = Len(editor.past) + 1]
      /\ doc' = [d EXCEPT !.offset = offset, !.decoded = DecodedOffset(offset),
                          !.via = "window", !.dirty = buffer.modified /\ (@ \/ AtSavePoint(editor))]

Show(offset) == /\ Command
                /\ CanLoad(offset)
                /\ Load(offset, doc)
                /\ UNCHANGED <<file, table, ui, noted>>

MoveForward == LET offset == Least(buffer.size, doc.offset + Window)
               IN  offset # doc.offset /\ Show(offset)

MoveBack == LET offset == IF doc.offset > Window THEN doc.offset - Window ELSE 0
            IN  offset # doc.offset /\ Show(offset)

(* From the selection to the end, then from the beginning, a match that    *)
(* the window does not have.                                               *)
Found(needle, from) ==
  LET ahead == Find(buffer, SourceBytes, needle, from, buffer.size, Chunk)
  IN  IF ahead # NotFound THEN ahead
      ELSE Find(buffer, SourceBytes, needle, 0, from, Chunk)

FindNext ==
  /\ Ready
  /\ \E byte \in Bytes, position \in 0 .. Len(editor.text) :
       LET at == Found(<<byte>>, doc.decoded + position)
           lead == Window \div 4
       IN  /\ Occurs(<<byte>>, editor.text) = {}
           /\ at # NotFound
           /\ Show(IF at > lead THEN at - lead ELSE 0)

Follow == /\ Command
          /\ doc' = [doc EXCEPT !.follow = ~@]
          /\ UNCHANGED <<file, table, editor, ui, noted>>

-----------------------------------------------------------------------------
(* SaveLargeDocument and LargeFileBuffer::SaveAs.  The path is the         *)
(* document's or another; the other file becomes the document's.           *)

Save == /\ Command /\ ~doc.readOnly
        /\ \E same \in BOOLEAN :
             /\ same => doc.titled /\ State(disk) = doc.fileState
             /\ noted' = [Nothing EXCEPT !.same = same]
        /\ ui' = "stream"
        /\ UNCHANGED <<file, table, editor, doc>>

(* The pieces are written to the temporary file.                           *)
Stream == /\ ui = "stream" /\ source.open
          /\ Readable(Text(buffer, source.bytes))
          /\ noted' = [noted EXCEPT !.bytes = Text(buffer, source.bytes)]
          /\ Moves("compare")
          /\ UNCHANGED <<file, table, editor, doc>>

(* The source's path has the size and the write time it was opened with.   *)
Compare == /\ ui = "compare"
           /\ disk # Gone /\ disk.version = known
           /\ Moves("move")
           /\ UNCHANGED <<file, table, editor, doc, noted>>

(* No source, a read or write error, or a changed source.                  *)
SaveFails == /\ ui \in {"stream", "compare"}
             /\ Moves("idle")
             /\ UNCHANGED <<file, table, editor, doc, noted>>

(* The table reads the file its pieces were made for.                      *)
Sound == source.open /\ source.version = origin

MoveFails == /\ ui = "move"
             /\ \/ source' = ClosedSource
                \/ disk # Gone /\ source' = Mapped(disk)
             /\ Moves("idle")
             /\ UNCHANGED <<file, buffer, known, origin, editor, doc, noted>>

(* The source is closed, and the temporary file renamed into place.  From  *)
(* here to the end of the save, disk is the file that was saved to.        *)
Rename == /\ ui = "move"
          /\ NewVersion(noted.bytes)
          /\ source' = ClosedSource
          /\ noted' = [noted EXCEPT !.own = disk, !.version = versions', !.sound = Sound]
          /\ Moves("reopen")
          /\ UNCHANGED <<writes, buffer, known, origin, editor, doc>>

(* The source is opened by its path, whatever file is there now.           *)
Reopen == /\ ui = "reopen"
          /\ disk # Gone
          /\ source' = Mapped(disk)
          /\ Moves("restamp")
          /\ UNCHANGED <<file, buffer, known, origin, editor, doc, noted>>

(* The size that a later save compares is the table's, the write time that *)
(* of the path: no file has both if the one there has another size.        *)
Written(f) == IF Len(f.bytes) = buffer.size THEN f.version ELSE Unknown

(* A mutant: the pieces still refer to the source that was replaced.       *)
MutantRestamp == /\ ui = "restamp"
                 /\ disk # Gone
                 /\ known' = Written(disk)
                 /\ origin' = IF noted.sound THEN noted.version ELSE origin
                 /\ noted' = [Nothing EXCEPT !.same = noted.same]
                 /\ Moves("saved")
                 /\ UNCHANGED <<file, buffer, source, editor, doc>>

Restamp == /\ ui = "restamp"
           /\ disk # Gone
           /\ known' = Written(disk)
           /\ buffer' = Opened(buffer.size)
           /\ origin' = IF noted.sound THEN noted.version ELSE origin
           /\ noted' = [Nothing EXCEPT !.same = noted.same]
           /\ Moves("saved")
           /\ UNCHANGED <<file, source, editor, doc>>

(* The save fails after the rename: the document keeps its own file, and   *)
(* the table the pieces for the old source.                                *)
Return == /\ disk' = IF noted.same THEN disk ELSE noted.own
          /\ noted' = Nothing
          /\ Moves("idle")
          /\ UNCHANGED <<versions, writes, buffer, origin, editor, doc>>

ReopenFails == /\ ui = "reopen"
               /\ Return
               /\ UNCHANGED <<source, known>>

(* What is mapped of another path is no version of the document's file.    *)
RestampFails == /\ ui = "restamp"
                /\ Return
                /\ source' = IF noted.same THEN source ELSE [source EXCEPT !.version = Unknown]
                /\ known' = Unknown

SaveFinish == /\ ui = "saved"
              /\ doc' = [doc EXCEPT !.fileState = State(disk), !.flagged = FALSE,
                                    !.dirty = FALSE, !.titled = TRUE]
              /\ editor' = [editor EXCEPT !.saved = Len(editor.past)]
              /\ Moves("idle")
              /\ UNCHANGED <<file, table, noted>>

(* The view cannot be mapped again.  A bound: at another path it can, as   *)
(* the model has one file, and the document would keep the old one.        *)
ViewFails == /\ ui = "saved" /\ noted.same
             /\ Moves("idle")
             /\ UNCHANGED <<file, table, editor, doc, noted>>

-----------------------------------------------------------------------------
(* CheckExternalChanges.                                                   *)

Differs == /\ doc.titled /\ ~doc.flagged
           /\ State(disk) # doc.fileState

Follows == /\ doc.follow /\ ~doc.dirty
           /\ disk # Gone /\ Len(disk.bytes) >= doc.fileState.size

Timer == /\ Ready /\ Differs
         /\ noted' = [Nothing EXCEPT !.state = State(disk)]
         /\ IF Follows THEN source' = ClosedSource /\ buffer' = Opened(0)
                       ELSE UNCHANGED <<source, buffer>>
         /\ Moves(IF Follows THEN "followMap" ELSE "changed")
         /\ UNCHANGED <<file, known, origin, editor, doc>>

FollowMap == /\ ui = "followMap"
             /\ Map("followFailed", "followStamp")
             /\ UNCHANGED <<file, editor, doc, noted>>

FollowStamp == /\ ui = "followStamp"
               /\ Stamp("followFailed", "followLoad")
               /\ UNCHANGED <<file, editor, doc, noted>>

TailOffset == IF noted.state.size > Window THEN noted.state.size - Window ELSE 0

(* A mutant: the state is captured after the reload, not before it.        *)
MutantFollowLoad == /\ ui = "followLoad"
                    /\ CanLoad(TailOffset)
                    /\ Load(TailOffset, [doc EXCEPT !.fileState = State(disk)])
                    /\ Moves("idle")
                    /\ UNCHANGED <<file, table, noted>>

FollowLoad == /\ ui = "followLoad"
              /\ CanLoad(TailOffset)
              /\ Load(TailOffset, [doc EXCEPT !.fileState = noted.state])
              /\ Moves("idle")
              /\ UNCHANGED <<file, table, noted>>

(* The table, the view or the window cannot be opened; the editor keeps    *)
(* the window of the table that was closed.                                *)
FollowFails == /\ ui \in {"followFailed", "followLoad"}
               /\ doc' = [doc EXCEPT !.follow = FALSE, !.via = "stale"]
               /\ Moves("changed")
               /\ UNCHANGED <<file, table, editor, noted>>

Missing == noted.state = State(Gone)

Keep == /\ ui = "changed"
        /\ Missing
        /\ doc' = [doc EXCEPT !.titled = FALSE, !.dirty = TRUE, !.flagged = FALSE,
                              !.fileState = noted.state]
        /\ Moves("idle")
        /\ UNCHANGED <<file, table, editor, noted>>

(* No for a deleted file; Yes or Cancel for a conflict.                    *)
Block == /\ ui = "changed"
         /\ Missing \/ doc.dirty
         /\ doc' = [doc EXCEPT !.flagged = TRUE]
         /\ Moves("idle")
         /\ UNCHANGED <<file, table, editor, noted>>

(* A clean document, or No for a conflict: the whole file is put in the    *)
(* editor, and recorded in the table like a paste.                         *)
Reload ==
  /\ ui = "changed"
  /\ ~Missing /\ disk # Gone /\ ~doc.readOnly
  /\ LET all == Decode(disk.bytes, HasBom(disk.bytes))
         try == Change(0, editor.text, all, TRUE)
         c   == IF CanRecordErase(try) THEN try ELSE [try EXCEPT !.added = <<>>]
     IN  /\ editor' = [Do(c) EXCEPT !.saved = Len(editor.past) + 1]
         /\ buffer' = Recorded(c)
         /\ doc' = [doc EXCEPT !.dirty = FALSE, !.via = "reload", !.flagged = FALSE,
                               !.fileState = noted.state,
                               !.readOnly = ~CanRecord(c)]
  /\ Moves("idle")
  /\ UNCHANGED <<file, source, known, origin, noted>>

ReloadFails == /\ ui = "changed"
               /\ ~Missing
               /\ Moves("idle")
               /\ UNCHANGED <<file, table, editor, doc, noted>>

-----------------------------------------------------------------------------
External == ExternalWrite \/ ExternalDelete
Open     == OpenView \/ OpenMap \/ OpenStamp \/ OpenAdd
Commands == Edit \/ Undo \/ MoveForward \/ MoveBack \/ FindNext \/ Follow \/ Save
Saving   == Stream \/ Compare \/ SaveFails \/ MoveFails \/ Rename \/ Reopen \/ Restamp
              \/ ReopenFails \/ RestampFails \/ SaveFinish \/ ViewFails
Monitor  == FollowMap \/ FollowStamp \/ FollowLoad \/ FollowFails \/ Keep \/ Block
              \/ Reload \/ ReloadFails

Next == External \/ Open \/ Commands \/ Saving \/ Timer \/ Monitor

Spec == Init /\ [][Next]_vars

-----------------------------------------------------------------------------
Places == {"idle", "openMap", "openStamp", "openAdd", "stream", "compare",
           "move", "reopen", "restamp", "saved", "followMap", "followStamp", "followLoad",
           "followFailed", "changed"}

InStorage(piece) ==
  /\ piece.length > 0
  /\ piece.storage = "added" => piece.offset + piece.length <= Len(buffer.added)

(* Every variable stays in the set of values the code can give it; the     *)
(* table's pieces are not empty, lie in their storage, add up to its size, *)
(* and no two neighbours could be one.                                     *)
TypeOK ==
  /\ writes \in 0 .. MaxWrites /\ versions \in 1 .. 1 + writes + commands
  /\ {disk.version, known, origin} \subseteq 0 .. versions
  /\ ui \in Places /\ commands \in 0 .. MaxCommands
  /\ editor.saved \in Nat \cup {Never}
  /\ Length(buffer.pieces) = buffer.size
  /\ \A i \in DOMAIN buffer.pieces :
       /\ InStorage(buffer.pieces[i])
       /\ i > 1 => ~Joins(buffer.pieces[i - 1], buffer.pieces[i])

Full == Text(buffer, source.bytes)

Pairs == {<<x, y>> : x, y \in Bytes}

(* On every table the edits, moves and saves lead to, another insertion,   *)
(* deletion or search does what it would do on the plain text, wherever    *)
(* pieces and chunks end (SplitAt, Insert, Erase, Normalize, Find).        *)
TableIsText ==
  Ready /\ Sound =>
    LET full == Full
    IN  \A at \in 0 .. buffer.size :
          /\ \A pair \in Pairs :
               /\ Text(Insert(buffer, at, pair), source.bytes) = Splice(full, at, 0, pair)
               /\ LET hits == {k \in Occurs(pair, full) : k >= at}
                  IN  Find(buffer, source.bytes, pair, at, buffer.size, Chunk)
                        = IF hits = {} THEN NotFound ELSE First(hits)
          /\ \A n \in 0 .. buffer.size - at :
               Text(Erase(buffer, at, n), source.bytes) = Splice(full, at, n, <<>>)

Shown == SubSeq(Full, doc.decoded + 1, doc.decoded + Len(editor.text))

(* A window that was loaded shows the text at its place, however it was    *)
(* edited, saved, followed and moved since: the editor and the table do    *)
(* not part (UpdateLargeBuffer, LoadLargeFileWindow, SaveAs).              *)
LoadedWindowIsMapped ==
  Ready /\ Sound /\ doc.via = "window" => editor.text = Shown

(* "UTF-8 BOM large window maps editor byte zero after the BOM": what the  *)
(* editor shows is the text at the place edits are recorded at.            *)
WindowIsMapped == Ready /\ Sound => editor.text = Shown

(* What a save puts in place is the edited text: a table that lost its     *)
(* source, by a rename or a reopening that failed, is never saved.  And    *)
(* the table that a save which succeeds leaves gives the text it wrote, if *)
(* it reads the file it wrote - which it does unless another program       *)
(* replaced that file before it was opened again.  The first holds for a   *)
(* table whose write time is that of the file it maps (SaveAs).            *)
SavedIsText ==
  [][/\ ui = "move" /\ ui' = "reopen" /\ known = origin
          => Sound /\ disk'.bytes = Full
     /\ ui = "restamp" /\ ui' = "saved"
          => /\ Sound' => Full' = noted.bytes
             /\ noted.sound /\ disk.version = noted.version => Sound']_vars

(* "Large-file save cancelled because the disk file changed": the          *)
(* comparison lets a save go on only if the path has the file that the     *)
(* table was made from.                                                    *)
SaveChecksItsSource ==
  [][ui = "compare" /\ ui' = "move" => disk.version = origin]_vars

(* Follow mode never takes growth for seen that it does not show: unless   *)
(* the file is already another one again, which the timer will see, the    *)
(* window reaches the end of the file (CheckExternalChanges).              *)
FollowMissesNoGrowth ==
  [][ui = "followLoad" /\ ui' = "idle" /\ State(disk) = doc'.fileState
       => /\ doc'.decoded + Len(editor'.text) = Len(disk.bytes)
          /\ editor'.text = SubSeq(disk.bytes, doc'.decoded + 1, Len(disk.bytes))]_vars
=============================================================================
