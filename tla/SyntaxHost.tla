----------------------------- MODULE SyntaxHost -----------------------------
(***************************************************************************)
(* Syntax colouring of one document: main.cpp keeps a tree in step with    *)
(* the editor, in this process for the bundled grammars                    *)
(* (tree_sitter_document.cpp), in a child process for a WebAssembly        *)
(* grammar (wasm_syntax_client.cpp, wasm_language_host.cpp).               *)
(*                                                                         *)
(* The client and the host talk through two pipes, each of which holds one *)
(* part of a message.  The host may be slow without bound, write to its    *)
(* error stream, which is merged into the answers, or die at any moment.   *)
(* The UI thread waits for it inside a call, so the text does not change   *)
(* while a call is in progress.                                            *)
(*                                                                         *)
(* Left out: a failed allocation before an exchange begins, and which part *)
(* of the text is visible: the spans of the whole text are asked for.      *)
(***************************************************************************)
EXTENDS SyntaxTree, Integers

CONSTANTS MaxBytes,  \* 8 MiB: no longer text is parsed
          MaxLength, \* bound: length of a text
          MaxEdits,  \* bound: edits of the user
          MaxOpens   \* bound: times a language is chosen

ASSUME BoundsAssumption == /\ MaxBytes \in Nat /\ MaxLength \in Nat
                           /\ MaxEdits \in Nat /\ MaxOpens \in Nat

VARIABLES
  text,      \* the editor's text
  shown,     \* the spans applied last, as the tree they come from
  listed,    \* the symbols listed last: tree, and text their names are cut from
  syntax,    \* "native": syntax_tree is set, "wasm": wasm_syntax is, "none"
  tree,      \* the tree of a bundled grammar
  ui,        \* where the UI thread is
  call,      \* the exchange it is in: command, edit, and the answer's status
  goal,      \* the grammar InitializeSyntaxTree is about to set up, or "nothing"
  launched,  \* the client has a process
  ready,     \* the client's ready flag
  input,     \* its end of the request pipe is open
  host,      \* the child process
  requests,  \* the pipe to the host
  answers,   \* the pipe from the host
  edits, opens

document == <<text, shown, listed, syntax, tree>>
client   == <<launched, ready, input>>
pipes    == <<requests, answers>>
bounds   == <<edits, opens>>
vars     == <<document, ui, call, goal, client, host, pipes, bounds>>

Commands == {"configure", "parse", "highlights", "symbols"}
Grammars == {"none", "native", "wasm"}

HasPayload(command) == command \in {"configure", "parse", "highlights"}

Plain == <<>>  \* no spans: everything in the default style

Header(command) == [unit |-> "header", command |-> command]
Payload(s, e)   == [unit |-> "payload", text |-> s, edit |-> e]
Answer(ok, more) == [unit |-> "answer", ok |-> ok, more |-> more]
Result(t, s)    == [unit |-> "result", tree |-> t, source |-> s]
Noise           == [unit |-> "noise"]

(* A process that was just started, and what is left of one.               *)
FreshHost == [alive |-> TRUE, at |-> "header", command |-> "quit",
              payload |-> Payload(<<>>, NoEdit), configured |-> FALSE,
              tree |-> NoTree, source |-> <<>>, reply |-> Answer(FALSE, FALSE)]

Init == /\ text = <<>> /\ shown = Plain /\ listed = Result(Plain, <<>>)
        /\ syntax = "none" /\ tree = NoTree
        /\ ui = "idle" /\ goal = "nothing"
        /\ call = [command |-> "configure", edit |-> NoEdit, ok |-> FALSE]
        /\ launched = FALSE /\ ready = FALSE /\ input = FALSE
        /\ host = [FreshHost EXCEPT !.alive = FALSE]
        /\ requests = <<>> /\ answers = <<>>
        /\ edits = 0 /\ opens = 0

-----------------------------------------------------------------------------
(* The exchange of one request and its answer: Transact.                   *)

Exchanging == ui \in {"header", "payload", "answer", "result"}

Ask(command, edit) ==
  /\ ui' = "header"
  /\ call' = [command |-> command, edit |-> edit, ok |-> FALSE]

(* State::Stop of a client that has a process: "quit" is only sent by one  *)
(* that is ready.                                                          *)
Stop(isReady) == /\ ui' = IF isReady THEN "quit" ELSE "wait"
                 /\ input' = isReady
                 /\ ready' = isReady
                 /\ syntax' = "none"

(* StyleVisibleSyntax with a client: an empty range is not asked for.      *)
Style == IF text # <<>> THEN Ask("highlights", NoEdit)
                        ELSE ui' = "idle" /\ UNCHANGED call

(* What the callers do with the outcome of Transact: Start, InitializeSyntaxTree *)
(* and UpdateSyntaxTree, Highlights, Symbols.                              *)
Configured(ok, isReady) ==
  /\ call.command = "configure"
  /\ \/ ok /\ ready' = TRUE /\ Ask("parse", NoEdit) /\ UNCHANGED <<input, syntax>>
     \/ ~ok /\ Stop(FALSE) /\ UNCHANGED call
  /\ UNCHANGED <<shown, listed>>

Parsed(ok, isReady) ==
  /\ call.command = "parse"
  /\ \/ ok /\ syntax' = "wasm" /\ Style /\ ready' = isReady /\ UNCHANGED input
     \/ ~ok /\ Stop(isReady) /\ UNCHANGED call
  /\ UNCHANGED <<shown, listed>>

Highlighted(ok, isReady, result) ==
  /\ call.command = "highlights"
  /\ ui' = "idle" /\ ready' = isReady
  /\ shown' = IF ok THEN result.tree ELSE Plain
  /\ UNCHANGED <<call, input, syntax, listed>>

Listed(ok, isReady, result) ==
  /\ call.command = "symbols"
  /\ ui' = "idle" /\ ready' = isReady
  /\ listed' = IF ok THEN result ELSE listed
  /\ UNCHANGED <<call, input, syntax, shown>>

Conclude(ok, isReady, result) ==
  /\ \/ Configured(ok, isReady) \/ Parsed(ok, isReady)
     \/ Highlighted(ok, isReady, result) \/ Listed(ok, isReady, result)
  /\ UNCHANGED <<text, tree, goal, launched, bounds>>

(* WriteAll of the request's header and of its payload.                    *)
SendHeader ==
  /\ ui = "header" /\ host.alive /\ requests = <<>>
  /\ requests' = <<Header(call.command)>>
  /\ ui' = IF HasPayload(call.command) THEN "payload" ELSE "answer"
  /\ UNCHANGED <<document, call, goal, client, host, answers, bounds>>

SendPayload ==
  /\ ui = "payload" /\ host.alive /\ requests = <<>>
  /\ requests' = <<Payload(IF call.command = "parse" THEN text ELSE <<>>, call.edit)>>
  /\ ui' = "answer"
  /\ UNCHANGED <<document, call, goal, client, host, answers, bounds>>

(* ReadExact of the answer's header and of its result.                     *)
ReadAnswer ==
  /\ ui = "answer" /\ answers # <<>> /\ Head(answers).unit = "answer"
  /\ answers' = Tail(answers)
  /\ \/ /\ Head(answers).more
        /\ ui' = "result" /\ call' = [call EXCEPT !.ok = Head(answers).ok]
        /\ UNCHANGED <<document, goal, client, bounds>>
     \/ /\ ~Head(answers).more
        /\ Conclude(Head(answers).ok, ready, Result(Plain, <<>>))
  /\ UNCHANGED <<host, requests>>

ReadResult ==
  /\ ui = "result" /\ answers # <<>> /\ Head(answers).unit = "result"
  /\ answers' = Tail(answers)
  /\ Conclude(call.ok, ready, Head(answers))
  /\ UNCHANGED <<host, requests>>

(* Mutant: a time-out that leaves the host and the pipes to the next call. *)
GiveUpAndGoOn ==
  /\ Exchanging
  /\ Conclude(FALSE, ready, Result(Plain, <<>>))
  /\ UNCHANGED <<host, pipes>>

(* Mutant: reads and writes without a deadline.                            *)
GiveUpOnBrokenPipe ==
  /\ Exchanging /\ ~host.alive
  /\ Conclude(FALSE, FALSE, Result(Plain, <<>>))
  /\ UNCHANGED <<host, pipes>>

(* The deadline is over, a pipe is broken, an exception was thrown, or the *)
(* answer does not begin with a header.                                    *)
GiveUp ==
  /\ Exchanging
  /\ host' = [host EXCEPT !.alive = FALSE]
  /\ Conclude(FALSE, FALSE, Result(Plain, <<>>))
  /\ UNCHANGED pipes

(* State::Stop: the host is asked to quit, its input is closed, it is      *)
(* waited for, and ended when it does not go.                              *)
SendQuit ==
  /\ ui = "quit" /\ host.alive /\ requests = <<>>
  /\ requests' = <<Header("quit")>>
  /\ ui' = "wait" /\ ready' = FALSE /\ input' = FALSE
  /\ UNCHANGED <<document, call, goal, launched, host, answers, bounds>>

(* Mutant: ready is reset only when the host took the request.             *)
QuitUnsentStillReady ==
  /\ ui = "quit"
  /\ ui' = "wait" /\ input' = FALSE
  /\ UNCHANGED <<document, call, goal, launched, ready, host, pipes, bounds>>

QuitUnsent ==
  /\ ui = "quit"
  /\ ui' = "wait" /\ ready' = FALSE /\ input' = FALSE
  /\ UNCHANGED <<document, call, goal, launched, host, pipes, bounds>>

(* Mutant: a host that does not go is left alone.                          *)
ReapWithoutEnd ==
  /\ ui = "wait"
  /\ launched' = FALSE
  /\ ui' = IF goal = "nothing" THEN "idle" ELSE "open"
  /\ UNCHANGED <<document, call, goal, ready, input, host, pipes, bounds>>

Reap ==
  /\ ui = "wait"
  /\ host' = [host EXCEPT !.alive = FALSE]
  /\ launched' = FALSE
  /\ ui' = IF goal = "nothing" THEN "idle" ELSE "open"
  /\ UNCHANGED <<document, call, goal, ready, input, pipes, bounds>>

-----------------------------------------------------------------------------
(* The window.                                                             *)

(* InitializeSyntaxTree drops what there was ...                           *)
Choose(grammar) ==
  /\ ui = "idle" /\ opens < MaxOpens
  /\ goal' = grammar /\ opens' = opens + 1
  /\ tree' = NoTree
  /\ IF launched THEN Stop(ready)
     ELSE ui' = "open" /\ syntax' = "none" /\ UNCHANGED <<ready, input>>
  /\ UNCHANGED <<text, shown, listed, call, launched, host, pipes, edits>>

(* ... and leaves it at that: a mapped file, a long text, no grammar, a    *)
(* grammar that cannot be configured, a first parse that fails, a host that *)
(* cannot be started.                                                      *)
OpenNothing ==
  /\ ui = "open"
  /\ ui' = "idle" /\ goal' = "nothing"
  /\ UNCHANGED <<document, call, client, host, pipes, bounds>>

OpenNative ==
  /\ ui = "open" /\ goal = "native" /\ Len(text) <= MaxBytes
  /\ syntax' = "native" /\ tree' = TreeOf(text)
  /\ shown' = IF text = <<>> THEN shown ELSE TreeOf(text)
  /\ ui' = "idle" /\ goal' = "nothing"
  /\ UNCHANGED <<text, listed, call, client, host, pipes, bounds>>

OpenHost ==
  /\ ui = "open" /\ goal = "wasm" /\ Len(text) <= MaxBytes
  /\ launched' = TRUE /\ input' = TRUE
  /\ host' = FreshHost /\ requests' = <<>> /\ answers' = <<>>
  /\ Ask("configure", NoEdit)
  /\ goal' = "nothing"
  /\ UNCHANGED <<document, ready, bounds>>

(* UpdateSyntaxTree for a bundled grammar: a parse that fails leaves the   *)
(* edited tree.                                                            *)
ReparseNative(edit, after) ==
  /\ syntax = "native"
  /\ \/ /\ tree' = Reparsed(TreeEdit(tree, edit), after)
        /\ shown' = IF after = <<>> THEN shown ELSE tree'
     \/ /\ tree' = TreeEdit(tree, edit)
        /\ UNCHANGED shown
  /\ UNCHANGED <<syntax, ui, call, client>>

(* UpdateSyntaxTree for a client: one that is not ready, or a text that is *)
(* too long, costs the document its client.                                *)
ReparseHosted(edit, after) ==
  /\ syntax = "wasm"
  /\ IF ready /\ Len(after) <= MaxBytes
     THEN Ask("parse", edit) /\ UNCHANGED <<ready, input, syntax>>
     ELSE Stop(ready) /\ UNCHANGED call
  /\ UNCHANGED <<tree, shown, launched>>

(* A modification of the text and its notification.                        *)
Modify(edit, after) ==
  /\ ui = "idle" /\ edits < MaxEdits
  /\ edits' = edits + 1 /\ text' = after
  /\ \/ ReparseNative(edit, after)
     \/ ReparseHosted(edit, after)
     \/ syntax = "none" /\ UNCHANGED <<shown, syntax, tree, ui, call, client>>
  /\ UNCHANGED <<listed, goal, host, pipes, opens>>

Insert(at, segment) ==
  LET after == Inserted(text, at, segment)
  IN  /\ Len(after) <= MaxLength
      /\ Modify(EditOf(TRUE, at, segment, after), after)

Delete(at, length) ==
  LET after == Deleted(text, at, length)
  IN  Modify(EditOf(FALSE, at, SubSeq(text, at + 1, at + length), after), after)

(* SCN_UPDATEUI: StyleVisibleSyntax.  A client that is not ready returns   *)
(* no spans.                                                               *)
Redraw ==
  /\ ui = "idle" /\ text # <<>> /\ syntax # "none"
  /\ IF syntax = "wasm" /\ ready THEN Style /\ UNCHANGED shown
     ELSE /\ shown' = IF syntax = "native" THEN tree ELSE Plain
          /\ UNCHANGED <<ui, call>>
  /\ UNCHANGED <<text, listed, syntax, tree, goal, client, host, pipes, bounds>>

(* The list of symbols and completion.                                     *)
ListSymbols ==
  /\ ui = "idle" /\ syntax # "none"
  /\ \/ syntax = "wasm" /\ ready /\ Ask("symbols", NoEdit) /\ UNCHANGED listed
     \/ /\ syntax = "native" /\ listed' = Result(tree, text)
        /\ UNCHANGED <<ui, call>>
  /\ UNCHANGED <<text, shown, syntax, tree, goal, client, host, pipes, bounds>>

-----------------------------------------------------------------------------
(* The host.                                                               *)

HostReads ==
  /\ host.alive /\ host.at = "header" /\ requests # <<>>
  /\ requests' = Tail(requests)
  /\ LET command == Head(requests).command
     IN  host' = IF command = "quit" THEN [host EXCEPT !.alive = FALSE]
                 ELSE [host EXCEPT !.command = command,
                                   !.at = IF HasPayload(command) THEN "payload" ELSE "work"]
  /\ UNCHANGED <<document, ui, call, goal, client, answers, bounds>>

HostReadsPayload ==
  /\ host.alive /\ host.at = "payload" /\ requests # <<>>
  /\ requests' = Tail(requests)
  /\ host' = [host EXCEPT !.payload = Head(requests), !.at = "work"]
  /\ UNCHANGED <<document, ui, call, goal, client, answers, bounds>>

(* A read fails once the client has closed its end.                        *)
HostSeesEnd ==
  /\ host.alive /\ host.at \in {"header", "payload"}
  /\ requests = <<>> /\ ~input
  /\ host' = [host EXCEPT !.alive = FALSE]
  /\ UNCHANGED <<document, ui, call, goal, client, pipes, bounds>>

(* Configure begins with Reset; a query that is refused leaves a parser.   *)
Configure(reply) ==
  \E parser \in BOOLEAN :
    /\ reply.ok => parser
    /\ ~reply.more
    /\ host' = [host EXCEPT !.configured = parser, !.tree = NoTree, !.source = <<>>,
                            !.reply = reply, !.at = "reply"]

(* Mutant: the old tree is not told of the edit.                           *)
ParseWithoutEdit(reply) ==
  LET source == host.payload.text
      next   == IF IsIncremental(host.payload.edit) /\ host.tree # NoTree
                THEN Reparsed(host.tree, source) ELSE TreeOf(source)
  IN  /\ ~reply.more
      /\ reply.ok => host.configured
      /\ host' = IF host.configured
                 THEN [host EXCEPT !.source = source, !.reply = reply, !.at = "reply",
                                   !.tree = IF reply.ok THEN next ELSE @]
                 ELSE [host EXCEPT !.reply = reply, !.at = "reply"]

(* Parse edits the tree it has, even when it then fails.                   *)
Parse(reply) ==
  LET edit   == host.payload.edit
      source == host.payload.text
      edited == IF IsIncremental(edit) /\ host.tree # NoTree
                THEN TreeEdit(host.tree, edit) ELSE host.tree
      next   == IF IsIncremental(edit) /\ host.tree # NoTree
                THEN Reparsed(edited, source) ELSE TreeOf(source)
  IN  /\ ~reply.more
      /\ reply.ok => host.configured
      /\ host' = IF host.configured
                 THEN [host EXCEPT !.source = source, !.reply = reply, !.at = "reply",
                                   !.tree = IF reply.ok THEN next ELSE edited]
                 ELSE [host EXCEPT !.reply = reply, !.at = "reply"]

(* HighlightPayload, SymbolPayload: nothing without a tree.                *)
Query(reply) ==
  /\ reply.ok
  /\ reply.more => host.tree # NoTree
  /\ host' = [host EXCEPT !.reply = reply, !.at = "reply"]

HostWorks ==
  /\ host.alive /\ host.at = "work"
  /\ \E ok, more \in BOOLEAN :
       \/ host.command = "configure" /\ Configure(Answer(ok, more))
       \/ host.command = "parse" /\ Parse(Answer(ok, more))
       \/ host.command \in {"highlights", "symbols"} /\ Query(Answer(ok, more))
  /\ UNCHANGED <<document, ui, call, goal, client, pipes, bounds>>

HostAnswers ==
  /\ host.alive /\ host.at = "reply" /\ answers = <<>>
  /\ answers' = <<host.reply>>
  /\ host' = [host EXCEPT !.at = IF host.reply.more THEN "result" ELSE "header"]
  /\ UNCHANGED <<document, ui, call, goal, client, requests, bounds>>

HostSendsResult ==
  /\ host.alive /\ host.at = "result" /\ answers = <<>>
  /\ answers' = <<Result(host.tree, host.source)>>
  /\ host' = [host EXCEPT !.at = "header"]
  /\ UNCHANGED <<document, ui, call, goal, client, requests, bounds>>

(* The library writes to the error stream, which is the answer pipe.       *)
HostComplains ==
  /\ host.alive /\ host.at = "work" /\ answers = <<>>
  /\ answers' = <<Noise>>
  /\ UNCHANGED <<document, ui, call, goal, client, host, requests, bounds>>

(* A trap, the memory limit, an exit with an error.                        *)
HostDies ==
  /\ host.alive
  /\ host' = [host EXCEPT !.alive = FALSE]
  /\ UNCHANGED <<document, ui, call, goal, client, pipes, bounds>>

-----------------------------------------------------------------------------
Segments == UNION {[1 .. n -> Chars] : n \in 1 .. MaxLength}

User == \/ \E g \in Grammars : Choose(g)
        \/ \E at \in 0 .. Len(text), s \in Segments : Insert(at, s)
        \/ \E at \in 0 .. Len(text) - 1 :
             \E length \in 1 .. Len(text) - at : Delete(at, length)
        \/ Redraw
        \/ ListSymbols

UiStep == \/ SendHeader \/ SendPayload \/ ReadAnswer \/ ReadResult \/ GiveUp
          \/ SendQuit \/ QuitUnsent \/ Reap
          \/ OpenNothing \/ OpenNative \/ OpenHost

HostStep == \/ HostReads \/ HostReadsPayload \/ HostSeesEnd \/ HostWorks
            \/ HostAnswers \/ HostSendsResult \/ HostComplains \/ HostDies

Next == User \/ UiStep \/ HostStep

(* The UI thread runs, and its deadlines pass.  Nothing is assumed of the  *)
(* host.                                                                   *)
Spec == Init /\ [][Next]_vars /\ WF_vars(UiStep)

-----------------------------------------------------------------------------
Leaves == [char : Chars \cup {Unread}, row : Int, column : Int]
Trees  == Seq(Leaves)
Points == [byte : Nat, row : Nat, column : Nat]
Edits  == [start : Nat, old : Points, new : Points]
Replies  == [unit : {"answer"}, ok : BOOLEAN, more : BOOLEAN]
Results  == [unit : {"result"}, tree : Trees, source : Seq(Chars)]
Payloads == [unit : {"payload"}, text : Seq(Chars), edit : Edits]
Headers  == [unit : {"header"}, command : Commands \cup {"quit"}]
Hosts  == [alive : BOOLEAN, at : {"header", "payload", "work", "reply", "result"},
           command : Commands \cup {"quit"}, payload : Payloads,
           configured : BOOLEAN, tree : Trees, source : Seq(Chars), reply : Replies]

(* Types; a ready client has a process, and a document's client has one.   *)
TypeOK ==
  /\ text \in Seq(Chars) /\ shown \in Trees /\ listed \in Results
  /\ syntax \in Grammars /\ tree \in Trees
  /\ ui \in {"idle", "open", "header", "payload", "answer", "result", "quit", "wait"}
  /\ call \in [command : Commands, edit : Edits, ok : BOOLEAN]
  /\ goal \in Grammars \cup {"nothing"}
  /\ launched \in BOOLEAN /\ ready \in BOOLEAN /\ input \in BOOLEAN
  /\ host \in Hosts
  /\ requests \in Seq(Headers \cup Payloads)
  /\ answers \in Seq(Replies \cup Results \cup {Noise})
  /\ ready \/ syntax = "wasm" => launched
  /\ edits \in 0 .. MaxEdits /\ opens \in 0 .. MaxOpens

(* wasm_syntax_client.cpp:67: when the client may begin an exchange, the   *)
(* conversation is at rest: the pipes are empty and the host, if it lives, *)
(* waits for a header.  So no late or partial answer is taken for the      *)
(* answer to the next request.                                             *)
AtRestBetweenExchanges ==
  ready /\ ui \in {"idle", "header", "quit"} =>
    /\ requests = <<>> /\ answers = <<>>
    /\ host.alive => host.at = "header"

(* wasm_syntax_client.cpp:44, docs/custom-languages.md:44: a host that     *)
(* failed or is not needed any more does not live on beside the editor.    *)
NoHostLeftBehind ==
  ui \in {"idle", "open"} /\ host.alive => launched /\ ready

(* main.cpp:1745, main.cpp:1672: the spans applied and the symbols listed  *)
(* come from a tree that is the tree of the editor's text, whatever edits, *)
(* failed parses and changes of the language came before.                  *)
AnswersAreOfText ==
  [][/\ shown' # shown => shown' = Plain \/ Fits(shown', text')
     /\ listed' # listed => \/ listed' = Result(Plain, <<>>)
                            \/ Fits(listed'.tree, text') /\ listed'.source = text']_vars

(* wasm_syntax_client.cpp:53: the UI thread comes back from every call,    *)
(* whatever the host does.                                                 *)
EditorAnswers == ui # "idle" ~> ui = "idle"
=============================================================================
