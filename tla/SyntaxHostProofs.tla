--------------------------- MODULE SyntaxHostProofs ---------------------------
(***************************************************************************)
(* Proofs about the client and the host of a WebAssembly grammar, and the  *)
(* trees of both kinds of grammar, for every alphabet and every bound:     *)
(* between two exchanges the conversation is at rest, no host lives on     *)
(* that the client has given up, and what is shown or listed is of the     *)
(* editor's text.                                                          *)
(*                                                                         *)
(* The first two follow from where the two processes and the pipes can be  *)
(* in every phase of an exchange.  The third needs what the edit of a      *)
(* notification does to a tree of the text before it (rows, columns,       *)
(* trees), and then which text the trees are of in every phase (data).     *)
(***************************************************************************)
EXTENDS SyntaxHost, DataLemmas, FiniteSetTheorems, SequenceTheorems, TLAPS

(* The fields of the two records that steps update in part.                *)
HostFields == {"alive", "at", "command", "payload", "configured", "tree", "source", "reply"}
CallFields == {"command", "edit", "ok"}

FieldsOK == DOMAIN host = HostFields /\ DOMAIN call = CallFields

AtRest == requests = <<>> /\ answers = <<>> /\ host.at = "header"

(* One part of a message is in a pipe.                                     *)
Holds(pipe) == \E message : pipe = <<message>>

(* The request: its header and its payload on their way to the host.       *)
HeaderSent == requests = <<Header(call.command)>> /\ answers = <<>> /\ host.at = "header"
HeaderRead == requests = <<>> /\ answers = <<>> /\ host.at = "payload"
PayloadSent == Holds(requests) /\ answers = <<>> /\ host.at = "payload"

(* The answer: the host's work, disturbed or not, and what it has sent.    *)
Working == /\ requests = <<>> /\ host.at \in {"work", "reply"}
           /\ answers \in {<<>>, <<Noise>>}
Answered == /\ requests = <<>> /\ answers = <<host.reply>>
            /\ \/ host.at = "result" /\ host.reply.more
               \/ host.at = "header" /\ ~host.reply.more
ResultDue  == requests = <<>> /\ answers = <<>> /\ host.at = "result"
ResultSent == requests = <<>> /\ Holds(answers) /\ host.at = "header"

(* Where an exchange can be, in each phase of the client.                  *)
Conversation ==
  /\ ui = "header" => AtRest
  /\ ui = "payload" => HasPayload(call.command) /\ (HeaderSent \/ HeaderRead)
  /\ ui = "answer" => \/ ~HasPayload(call.command) /\ HeaderSent
                      \/ PayloadSent \/ Working \/ Answered
  /\ ui = "result" => ResultDue \/ ResultSent

(* The client's flags: only the exchange that makes it ready begins before *)
(* it is.                                                                  *)
Flags ==
  /\ ui \in {"idle", "open", "header", "payload", "answer", "result", "quit", "wait"}
  /\ call.command \in Commands
  /\ ready => launched
  /\ ready \in BOOLEAN
  /\ Exchanging => launched /\ (ready <=> call.command # "configure")
  /\ ui = "idle" => (host.alive => ready) /\ (ready => AtRest)
  /\ ui = "open" => ~host.alive /\ ~ready
  /\ ui = "quit" => ready /\ AtRest
  /\ ui = "wait" => ~ready
  /\ ~launched => ~host.alive

IInv == FieldsOK /\ Conversation /\ Flags

LEMMA OnePart ==
  ASSUME NEW m
  PROVE  Head(<<m>>) = m /\ Tail(<<m>>) = <<>> /\ <<m>> # <<>>
  OBVIOUS

(* A process that was just started waits for a header.                     *)
LEMMA FreshFields ==
  DOMAIN FreshHost = HostFields /\ FreshHost.at = "header"
  BY DEF FreshHost, HostFields

LEMMA InitIInv == Init => IInv
<1> SUFFICES ASSUME Init PROVE IInv
  OBVIOUS
<1>1. DOMAIN host = DOMAIN FreshHost /\ host.at = FreshHost.at /\ ~host.alive
  <2> DEFINE fresh == FreshHost
  <2>1. host = [fresh EXCEPT !.alive = FALSE] /\ "alive" \in DOMAIN fresh
           /\ "at" \in DOMAIN fresh
    BY FreshFields DEF Init, HostFields
  <2> HIDE DEF fresh
  <2>2. DOMAIN host = DOMAIN fresh /\ host.at = fresh.at /\ ~host.alive
    BY <2>1
  <2> QED
    BY <2>2 DEF fresh
<1>2. FieldsOK
  BY <1>1, FreshFields DEF Init, FieldsOK, CallFields
<1>3. Conversation /\ Flags
  BY <1>1, FreshFields DEF Init, Conversation, Flags, AtRest, Exchanging, Commands
<1> QED
  BY <1>2, <1>3 DEF IInv

(* An exchange begins at rest, with a client that is ready or about to be. *)
LEMMA AskFromRest ==
  ASSUME NEW command \in Commands, NEW edit, Ask(command, edit),
         DOMAIN host' = HostFields, AtRest', launched', ready' \in BOOLEAN,
         ready' <=> command # "configure"
  PROVE  IInv'
<1>1. ui' = "header" /\ DOMAIN call' = CallFields /\ call'.command = command
  BY DEF Ask, CallFields
<1> QED
  BY <1>1 DEF IInv, FieldsOK, Conversation, Flags, Exchanging

(* Where an exchange ends with the conversation at rest, its caller goes   *)
(* on with the next one, or closes a client that is still ready.           *)
LEMMA ConcludeAtRest ==
  ASSUME IInv, NEW ok, NEW result, Exchanging, Conclude(ok, ready, result),
         requests' = <<>>, answers' = <<>>, host.at = "header", UNCHANGED host
  PROVE  IInv'
<1>1. AtRest' /\ UNCHANGED launched /\ launched /\ DOMAIN host' = HostFields
  BY DEF AtRest, Conclude, IInv, FieldsOK, Flags
<1>2. ASSUME ui' = "idle" /\ UNCHANGED call /\ ready' /\ ready' \in BOOLEAN PROVE IInv'
  BY <1>1, <1>2 DEF IInv, FieldsOK, Conversation, Flags, Exchanging
<1>3. ASSUME ui' = "quit" /\ UNCHANGED call /\ ready' /\ ready' \in BOOLEAN PROVE IInv'
  BY <1>1, <1>3 DEF IInv, FieldsOK, Conversation, Flags, Exchanging
<1>4. ASSUME ui' = "wait" /\ UNCHANGED call /\ ready' = FALSE PROVE IInv'
  BY <1>1, <1>4 DEF IInv, FieldsOK, Conversation, Flags, Exchanging
<1>5. ready \in BOOLEAN /\ (ready <=> call.command # "configure")
  BY DEF IInv, Flags
<1>6. CASE Configured(ok, ready)
  BY <1>1, <1>4, <1>6, AskFromRest DEF Configured, Stop, Commands
<1>7. CASE Parsed(ok, ready)
  BY <1>1, <1>2, <1>3, <1>5, <1>7, AskFromRest DEF Parsed, Stop, Style, Commands
<1>8. CASE Highlighted(ok, ready, result)
  BY <1>2, <1>5, <1>8 DEF Highlighted
<1>9. CASE Listed(ok, ready, result)
  BY <1>2, <1>5, <1>9 DEF Listed
<1> QED
  BY <1>6, <1>7, <1>8, <1>9 DEF Conclude

(* Where it is given up, the client is not ready and the host has ended.   *)
LEMMA ConcludeGivenUp ==
  ASSUME IInv, NEW result, Exchanging, Conclude(FALSE, FALSE, result),
         host' = [host EXCEPT !.alive = FALSE]
  PROVE  IInv'
<1>1. ready' = FALSE /\ ui' \in {"idle", "wait"} /\ UNCHANGED <<call, launched>>
  BY DEF Conclude, Configured, Parsed, Highlighted, Listed, Stop
<1>2. DOMAIN host' = DOMAIN host /\ ~host'.alive
  BY DEF IInv, FieldsOK
<1> QED
  BY <1>1, <1>2 DEF IInv, FieldsOK, Conversation, Flags, Exchanging

(* The client's part of an exchange.                                       *)
LEMMA SendStep == IInv /\ (SendHeader \/ SendPayload) => IInv'
<1> USE DEF IInv, FieldsOK, Conversation, Flags, Exchanging, client
<1>1. ASSUME IInv, SendHeader PROVE IInv'
  BY <1>1 DEF SendHeader, AtRest, HeaderSent
<1>2. ASSUME IInv, SendPayload PROVE IInv'
  <2>1. HeaderRead
    BY <1>2, OnePart DEF SendPayload, HeaderSent
  <2>2. PayloadSent'
    BY <1>2, <2>1 DEF SendPayload, HeaderRead, PayloadSent, Holds
  <2> QED
    BY <1>2, <2>2 DEF SendPayload
<1> QED
  BY <1>1, <1>2

(* What the client reads is the answer to its request.                     *)
LEMMA AnswerRead ==
  ASSUME IInv, ReadAnswer
  PROVE  /\ Answered /\ Head(answers) = host.reply /\ UNCHANGED host
         /\ answers' = <<>> /\ requests' = <<>>
<1>1. answers # <<>> /\ answers # <<Noise>>
  BY OnePart DEF ReadAnswer, Noise
<1>2. Answered
  BY <1>1 DEF IInv, Conversation, ReadAnswer, HeaderSent, PayloadSent, Working
<1> QED
  BY <1>2, OnePart DEF Answered, ReadAnswer

LEMMA ReadAnswerStep == IInv /\ ReadAnswer => IInv'
<1> SUFFICES ASSUME IInv, ReadAnswer PROVE IInv'
  OBVIOUS
<1>1. Answered
  BY AnswerRead
<1>2. Head(answers) = host.reply /\ answers' = <<>> /\ requests' = <<>> /\ UNCHANGED host
  BY AnswerRead
<1>3. CASE Head(answers).more
  <2>1. ui = "answer" /\ ui' = "result" /\ UNCHANGED <<launched, ready>>
    BY <1>3 DEF ReadAnswer, client, Conclude, Configured, Parsed, Highlighted, Listed
  <2>2. DOMAIN call' = DOMAIN call /\ call'.command = call.command
    BY <1>3 DEF ReadAnswer, IInv, FieldsOK, CallFields
  <2>3. ResultDue'
    BY <1>1, <1>2, <1>3 DEF Answered, ResultDue
  <2> QED
    BY <1>2, <2>1, <2>2, <2>3 DEF IInv, FieldsOK, Conversation, Flags, Exchanging
<1>4. CASE ~Head(answers).more
  <2>1. host.at = "header" /\ Exchanging
    BY <1>1, <1>2, <1>4 DEF Answered, Exchanging, ReadAnswer
  <2>2. Conclude(Head(answers).ok, ready, Result(Plain, <<>>))
    BY <1>4 DEF ReadAnswer
  <2> QED
    BY <1>2, <2>1, <2>2, ConcludeAtRest
<1> QED
  BY <1>3, <1>4

LEMMA ResultRead ==
  ASSUME IInv, ReadResult
  PROVE  ResultSent /\ answers' = <<>> /\ requests' = <<>> /\ UNCHANGED host
<1>1. ResultSent
  BY DEF IInv, Conversation, ReadResult, ResultDue
<1> QED
  BY <1>1, OnePart DEF ResultSent, Holds, ReadResult

LEMMA ReadResultStep == IInv /\ ReadResult => IInv'
<1> SUFFICES ASSUME IInv, ReadResult PROVE IInv'
  OBVIOUS
<1>2. answers' = <<>> /\ requests' = <<>> /\ UNCHANGED host /\ host.at = "header"
  BY ResultRead DEF ResultSent
<1>3. Exchanging /\ Conclude(call.ok, ready, Head(answers))
  BY DEF ReadResult, Exchanging
<1> QED
  BY <1>2, <1>3, ConcludeAtRest

LEMMA GiveUpStep == IInv /\ GiveUp => IInv'
  BY ConcludeGivenUp DEF GiveUp

(* Closing a client and opening the next one.                              *)
LEMMA CloseStep == IInv /\ (SendQuit \/ QuitUnsent \/ Reap) => IInv'
<1> USE DEF IInv, FieldsOK, Conversation, Flags, Exchanging
<1>1. ASSUME IInv, SendQuit \/ QuitUnsent PROVE IInv'
  BY <1>1 DEF SendQuit, QuitUnsent
<1>2. ASSUME IInv, Reap PROVE IInv'
  <2>1. DOMAIN host' = DOMAIN host /\ ~host'.alive
    BY <1>2 DEF Reap
  <2> QED
    BY <1>2, <2>1 DEF Reap
<1> QED
  BY <1>1, <1>2

LEMMA OpenStep == IInv /\ (OpenNothing \/ OpenNative \/ OpenHost) => IInv'
<1>1. ASSUME IInv, OpenNothing \/ OpenNative PROVE IInv'
  BY <1>1 DEF OpenNothing, OpenNative, IInv, FieldsOK, Conversation, Flags, Exchanging, client,
     document
<1>2. ASSUME IInv, OpenHost PROVE IInv'
  <2>1. DOMAIN host' = HostFields /\ AtRest' /\ launched'
    BY <1>2, FreshFields DEF OpenHost, AtRest
  <2>2. Ask("configure", NoEdit) /\ ready' = FALSE
    BY <1>2 DEF OpenHost, IInv, Flags
  <2>3. "configure" \in Commands
    BY DEF Commands
  <2> QED
    BY <2>1, <2>2, <2>3, AskFromRest
<1> QED
  BY <1>1, <1>2

(* The user's commands begin from rest.                                    *)
LEMMA UserStep == IInv /\ User => IInv'
<1> SUFFICES ASSUME IInv, User PROVE IInv'
  OBVIOUS
<1>1. ui = "idle" /\ UNCHANGED <<launched, host, pipes>>
  BY DEF User, Choose, Insert, Delete, Modify, Redraw, ListSymbols, ReparseNative, ReparseHosted,
     client, pipes
<1>2. DOMAIN host' = HostFields /\ (ready => launched' /\ AtRest')
  BY <1>1 DEF IInv, FieldsOK, Flags, AtRest, pipes
<1>3. ASSUME NEW command \in Commands \ {"configure"}, NEW edit, Ask(command, edit),
             ready, UNCHANGED ready
      PROVE  IInv'
  BY <1>2, <1>3, AskFromRest DEF IInv, Flags
<1>4. ASSUME Stop(ready), UNCHANGED call PROVE IInv'
  BY <1>1, <1>2, <1>4 DEF IInv, FieldsOK, Conversation, Flags, Exchanging, Stop
<1>5. ASSUME UNCHANGED <<ui, call, ready>> PROVE IInv'
  BY <1>1, <1>2, <1>5 DEF IInv, FieldsOK, Conversation, Flags, Exchanging
<1>6. CASE \E g \in Grammars : Choose(g)
  <2>1. CASE launched
    BY <1>4, <1>6, <2>1 DEF Choose
  <2>2. CASE ~launched
    BY <1>1, <1>2, <1>6, <2>2 DEF Choose, IInv, FieldsOK, Conversation, Flags, Exchanging
  <2> QED
    BY <2>1, <2>2
<1>7. ASSUME NEW edit, NEW after, Modify(edit, after) PROVE IInv'
  <2>1. CASE ReparseNative(edit, after)
    BY <1>5, <2>1 DEF ReparseNative, client
  <2>2. CASE ReparseHosted(edit, after)
    BY <1>3, <1>4, <2>2 DEF ReparseHosted, Commands
  <2>3. CASE syntax = "none" /\ UNCHANGED <<shown, syntax, tree, ui, call, client>>
    BY <1>5, <2>3 DEF client
  <2> QED
    BY <1>7, <2>1, <2>2, <2>3 DEF Modify
<1>8. CASE \E at \in 0 .. Len(text), segment \in Segments : Insert(at, segment)
  BY <1>7, <1>8 DEF Insert
<1>9. CASE \E at \in 0 .. Len(text) - 1 : \E length \in 1 .. Len(text) - at : Delete(at, length)
  BY <1>7, <1>9 DEF Delete
<1>10. CASE Redraw
  BY <1>3, <1>5, <1>10 DEF Redraw, Style, Commands, client
<1>11. CASE ListSymbols
  BY <1>3, <1>5, <1>11 DEF ListSymbols, Commands, client
<1> QED
  BY <1>6, <1>8, <1>9, <1>10, <1>11 DEF User

(* A host that ends leaves the conversation where it is.                   *)
LEMMA DeadStep ==
  ASSUME IInv, host' = [host EXCEPT !.alive = FALSE],
         UNCHANGED <<ui, call, launched, ready, requests, answers>>
  PROVE  IInv'
<1>1. DOMAIN host' = HostFields /\ ~host'.alive /\ host'.at = host.at
      /\ host'.reply = host.reply
  BY DEF IInv, FieldsOK, HostFields
<1>2. Conversation' /\ (AtRest => AtRest')
  BY <1>1 DEF IInv, Conversation, AtRest, HeaderSent, HeaderRead, PayloadSent, Working, Answered,
     ResultDue, ResultSent, Holds
<1> QED
  BY <1>1, <1>2 DEF IInv, FieldsOK, Flags, Exchanging

(* What the host takes from the request pipe: what the exchange has put    *)
(* there, or, after it, the request to quit.                               *)
LEMMA HostReadStep == IInv /\ (HostReads \/ HostReadsPayload \/ HostSeesEnd) => IInv'
<1> USE DEF IInv, FieldsOK, Flags, Exchanging
<1>1. ASSUME IInv, HostReads PROVE IInv'
  <2>1. UNCHANGED <<ui, call, launched, ready>> /\ DOMAIN host' = HostFields
        /\ (host'.alive => host.alive) /\ requests # <<>> /\ host.at = "header"
        /\ UNCHANGED answers
    BY <1>1 DEF HostReads, client, HostFields
  <2>2. ASSUME HeaderSent PROVE /\ requests' = <<>>
                                /\ host'.at = IF HasPayload(call.command) THEN "payload"
                                              ELSE "work"
    <3>1. Head(requests) = Header(call.command) /\ requests' = <<>>
      BY <1>1, <2>2, OnePart DEF HeaderSent, HostReads
    <3>2. Head(requests).command = call.command /\ call.command # "quit"
      BY <1>1, <3>1 DEF Header, Commands
    <3> QED
      BY <1>1, <3>1, <3>2 DEF HostReads, HostFields
  <2>3. CASE ui = "payload" \/ ui = "answer"
    <3>1. HeaderSent
      BY <1>1, <2>1, <2>3 DEF Conversation, HeaderRead, PayloadSent, Working, Answered
    <3>2. ui = "payload" => HeaderRead'
      BY <1>1, <2>1, <2>2, <3>1 DEF Conversation, HeaderRead, HeaderSent
    <3>3. ui = "answer" => ~HasPayload(call.command)
      BY <1>1, <2>1, <3>1 DEF Conversation, PayloadSent, Working, Answered, HeaderSent
    <3>4. ui = "answer" => Working'
      BY <2>1, <2>2, <3>1, <3>3 DEF Working, HeaderSent
    <3> QED
      BY <1>1, <2>1, <2>3, <3>2, <3>4 DEF Conversation
  <2>4. CASE ~(ui = "payload" \/ ui = "answer")
    BY <1>1, <2>1, <2>4 DEF Conversation, AtRest, ResultDue, ResultSent
  <2> QED
    BY <2>3, <2>4
<1>2. ASSUME IInv, HostReadsPayload PROVE IInv'
  <2>1. UNCHANGED <<ui, call, launched, ready, answers>> /\ DOMAIN host' = HostFields
        /\ host'.at = "work" /\ host'.alive = host.alive /\ requests # <<>>
        /\ requests' = Tail(requests) /\ host.at = "payload"
    BY <1>2 DEF HostReadsPayload, client, HostFields
  <2>2. ui = "answer" => PayloadSent
    BY <1>2, <2>1 DEF Conversation, HeaderSent, Working, Answered
  <2>3. ui = "answer" => Working'
    BY <2>1, <2>2, OnePart DEF PayloadSent, Holds, Working
  <2> QED
    BY <1>2, <2>1, <2>3 DEF Conversation, AtRest, HeaderSent, HeaderRead, ResultDue, ResultSent
<1>3. ASSUME IInv, HostSeesEnd PROVE IInv'
  BY <1>3, DeadStep DEF HostSeesEnd, client, pipes
<1> QED
  BY <1>1, <1>2, <1>3

(* The host at work, and what it puts into the answer pipe.                *)
LEMMA HostWorkStep == IInv /\ HostWorks => IInv'
<1> SUFFICES ASSUME IInv, HostWorks PROVE IInv'
  OBVIOUS
<1>1. UNCHANGED <<ui, call, launched, ready, requests, answers>> /\ host.at = "work"
  BY DEF HostWorks, client, pipes
<1>2. DOMAIN host' = HostFields /\ host'.alive = host.alive /\ host'.at = "reply"
  <2>1. ASSUME NEW reply, Configure(reply)
        PROVE  DOMAIN host' = HostFields /\ host'.alive = host.alive /\ host'.at = "reply"
    BY <2>1 DEF Configure, IInv, FieldsOK, HostFields
  <2>2. ASSUME NEW reply, Parse(reply)
        PROVE  DOMAIN host' = HostFields /\ host'.alive = host.alive /\ host'.at = "reply"
    <3>1. \/ host' = [host EXCEPT !.reply = reply, !.at = "reply"]
          \/ \E source, t : host' = [host EXCEPT !.source = source, !.reply = reply,
                                                 !.at = "reply", !.tree = t]
      BY <2>2 DEF Parse
    <3> QED
      BY <3>1 DEF IInv, FieldsOK, HostFields
  <2>3. ASSUME NEW reply, Query(reply)
        PROVE  DOMAIN host' = HostFields /\ host'.alive = host.alive /\ host'.at = "reply"
    BY <2>3 DEF Query, IInv, FieldsOK, HostFields
  <2> QED
    BY <2>1, <2>2, <2>3 DEF HostWorks
<1>3. ui = "answer" => Working'
  BY <1>1, <1>2 DEF IInv, Conversation, HeaderSent, PayloadSent, Working, Answered
<1> QED
  BY <1>1, <1>2, <1>3 DEF IInv, FieldsOK, Conversation, Flags, Exchanging, AtRest, HeaderSent,
     HeaderRead, ResultDue, ResultSent

LEMMA HostAnswerStep ==
  IInv /\ (HostAnswers \/ HostSendsResult \/ HostComplains \/ HostDies) => IInv'
<1> USE DEF IInv, FieldsOK, Flags, Exchanging, client
<1>1. ASSUME IInv, HostAnswers PROVE IInv'
  <2>1. UNCHANGED <<ui, call, launched, ready, requests>> /\ DOMAIN host' = HostFields
        /\ host'.alive = host.alive /\ host.at = "reply" /\ answers' = <<host.reply>>
        /\ host'.reply = host.reply
        /\ host'.at = IF host.reply.more THEN "result" ELSE "header"
    BY <1>1 DEF HostAnswers, HostFields
  <2>2. ui = "answer" => Answered'
    BY <1>1, <2>1 DEF Conversation, HeaderSent, PayloadSent, Working, Answered
  <2> QED
    BY <1>1, <2>1, <2>2 DEF Conversation, AtRest, HeaderSent, HeaderRead, ResultDue, ResultSent
<1>2. ASSUME IInv, HostSendsResult PROVE IInv'
  <2>1. UNCHANGED <<ui, call, launched, ready, requests>> /\ DOMAIN host' = HostFields
        /\ host'.alive = host.alive /\ host.at = "result" /\ answers = <<>>
        /\ Holds(answers') /\ host'.at = "header"
    BY <1>2 DEF HostSendsResult, HostFields, Holds
  <2>2. ui # "answer"
    BY <1>2, <2>1, OnePart DEF Conversation, HeaderSent, PayloadSent, Working, Answered
  <2>3. ui = "result" => ResultSent'
    BY <1>2, <2>1 DEF Conversation, ResultDue, ResultSent, Holds
  <2> QED
    BY <1>2, <2>1, <2>2, <2>3 DEF Conversation, AtRest, HeaderSent, HeaderRead
<1>3. ASSUME IInv, HostComplains PROVE IInv'
  <2>1. UNCHANGED <<ui, call, launched, ready, requests, host>> /\ host.at = "work"
        /\ answers' = <<Noise>>
    BY <1>3 DEF HostComplains
  <2>2. ui = "answer" => Working'
    BY <1>3, <2>1 DEF Conversation, HeaderSent, PayloadSent, Working, Answered
  <2> QED
    BY <1>3, <2>1, <2>2 DEF Conversation, AtRest, HeaderSent, HeaderRead, ResultDue, ResultSent
<1>4. ASSUME IInv, HostDies PROVE IInv'
  BY <1>4, DeadStep DEF HostDies, pipes
<1> QED
  BY <1>1, <1>2, <1>3, <1>4

LEMMA StepIInv == IInv /\ [Next]_vars => IInv'
<1>1. IInv /\ UNCHANGED vars => IInv'
  BY DEF vars, client, pipes, IInv, FieldsOK, Conversation, Flags, Exchanging, AtRest, HeaderSent,
     HeaderRead, PayloadSent, Working, Answered, ResultDue, ResultSent, Holds
<1> QED
  BY <1>1, SendStep, ReadAnswerStep, ReadResultStep, GiveUpStep, CloseStep, OpenStep, UserStep,
     HostReadStep, HostWorkStep, HostAnswerStep DEF Next, UiStep, HostStep

LEMMA Invariance == Spec => []IInv
  BY InitIInv, StepIInv, PTL DEF Spec

(* wasm_syntax_client.cpp:67: no late or partial answer is taken for the   *)
(* answer to the next request, whatever the host does and whenever the     *)
(* deadline passes.                                                        *)
THEOREM RestBetweenExchanges == Spec => []AtRestBetweenExchanges
<1>1. IInv => AtRestBetweenExchanges
  BY DEF IInv, Conversation, Flags, AtRest, AtRestBetweenExchanges
<1> QED
  BY <1>1, Invariance, PTL

(* wasm_syntax_client.cpp:44: a host that the client has given up or does  *)
(* not need any more has ended when the UI thread goes on.                 *)
THEOREM NoStrayHost == Spec => []NoHostLeftBehind
<1>1. IInv => NoHostLeftBehind
  BY DEF IInv, Flags, NoHostLeftBehind
<1> QED
  BY <1>1, Invariance, PTL

-----------------------------------------------------------------------------
(* Rows, columns and trees (tree_sitter_document.cpp, UpdateSyntaxTree).   *)

LEMMA MaxIsGreatest ==
  ASSUME NEW n \in Nat, NEW S \in SUBSET (1 .. n), S # {}
  PROVE  Max(S) \in S /\ \A y \in S : Max(S) >= y
<1>1. \E x \in S : \A y \in S : x >= y
  BY Greatest
<1> QED
  BY <1>1 DEF Max

(* As many numbers as before when all of them move up.                     *)
LEMMA Shifted ==
  ASSUME NEW S \in SUBSET Nat, IsFiniteSet(S), NEW k \in Nat
  PROVE  /\ IsFiniteSet({k + x : x \in S})
         /\ Cardinality({k + x : x \in S}) = Cardinality(S)
<1> DEFINE T == {k + x : x \in S}
           f == [x \in S |-> k + x]
<1>1. f \in Bijection(S, T)
  BY DEF Bijection, Injection, Surjection, IsInjective
<1>2. ExistsBijection(S, T)
  BY <1>1 DEF ExistsBijection
<1> QED
  BY <1>2, FS_Bijection

LEMMA LineEndsFinite ==
  ASSUME NEW s \in Seq(Chars)
  PROVE  /\ Len(s) \in Nat /\ LineEnds(s) \in SUBSET (1 .. Len(s))
         /\ IsFiniteSet(LineEnds(s)) /\ Cardinality(LineEnds(s)) \in Nat
         /\ Cardinality(LineEnds(s)) = 0 <=> LineEnds(s) = {}
         /\ LineEnds(s) # {} => /\ Max(LineEnds(s)) \in LineEnds(s)
                                /\ \A y \in LineEnds(s) : Max(LineEnds(s)) >= y
<1>1. Len(s) \in Nat /\ LineEnds(s) \in SUBSET (1 .. Len(s))
  BY DEF LineEnds
<1>2. IsFiniteSet(LineEnds(s))
  <2>1. IsFiniteSet(1 .. Len(s))
    BY <1>1, FS_Interval
  <2> QED
    BY <1>1, <2>1, FS_Subset
<1> QED
  BY <1>1, <1>2, FS_CardinalityType, FS_EmptySet, MaxIsGreatest

(* Rows and columns are numbers.                                           *)
LEMMA AdvancedType ==
  ASSUME NEW row \in Nat, NEW column \in Nat, NEW s \in Seq(Chars)
  PROVE  Advanced(row, column, s) \in [row : Nat, column : Nat]
BY LineEndsFinite DEF Advanced

LEMMA LineEndsOfConcat ==
  ASSUME NEW u \in Seq(Chars), NEW v \in Seq(Chars)
  PROVE  /\ LineEnds(u \o v) = LineEnds(u) \cup {Len(u) + i : i \in LineEnds(v)}
         /\ Cardinality(LineEnds(u \o v)) = Cardinality(LineEnds(u)) + Cardinality(LineEnds(v))
<1> DEFINE V == {Len(u) + i : i \in LineEnds(v)}
<1>1. /\ u \o v \in Seq(Chars) /\ Len(u \o v) = Len(u) + Len(v)
      /\ \A i \in 1 .. Len(u) + Len(v) :
           (u \o v)[i] = IF i <= Len(u) THEN u[i] ELSE v[i - Len(u)]
  BY ConcatProperties
<1>2. Len(u) \in Nat /\ Len(v) \in Nat
  OBVIOUS
<1>3. LineEnds(u \o v) = LineEnds(u) \cup V
  <2>1. ASSUME NEW i \in LineEnds(u \o v) PROVE i \in LineEnds(u) \cup V
    <3>1. i \in 1 .. Len(u) + Len(v) /\ (u \o v)[i] = LineFeed
      BY <1>1 DEF LineEnds
    <3>2. CASE i <= Len(u)
      BY <1>1, <1>2, <3>1, <3>2 DEF LineEnds
    <3>3. CASE ~(i <= Len(u))
      <4>1. i - Len(u) \in LineEnds(v)
        BY <1>1, <1>2, <3>1, <3>3 DEF LineEnds
      <4>2. i = Len(u) + (i - Len(u))
        BY <1>2, <3>1
      <4> QED
        BY <4>1, <4>2
    <3> QED
      BY <3>2, <3>3
  <2>2. ASSUME NEW i \in LineEnds(u) PROVE i \in LineEnds(u \o v)
    BY <1>1, <1>2 DEF LineEnds
  <2>3. ASSUME NEW i \in LineEnds(v) PROVE Len(u) + i \in LineEnds(u \o v)
    <3>1. i \in 1 .. Len(v) /\ v[i] = LineFeed
      BY DEF LineEnds
    <3>2. Len(u) + i \in 1 .. Len(u) + Len(v) /\ ~(Len(u) + i <= Len(u))
          /\ (Len(u) + i) - Len(u) = i
      BY <1>2, <3>1
    <3> QED
      BY <1>1, <3>1, <3>2 DEF LineEnds
  <2> QED
    BY <2>1, <2>2, <2>3
<1>4. /\ IsFiniteSet(V) /\ Cardinality(V) = Cardinality(LineEnds(v))
  <2>1. LineEnds(v) \in SUBSET Nat
    BY LineEndsFinite
  <2> QED
    BY <1>2, <2>1, LineEndsFinite, Shifted
<1>5. LineEnds(u) \cap V = {}
  BY <1>2, LineEndsFinite
<1>6. Cardinality(LineEnds(u) \cup V) = Cardinality(LineEnds(u)) + Cardinality(V)
  <2> DEFINE U == LineEnds(u)
  <2>1. IsFiniteSet(U) /\ Cardinality(U) \in Nat /\ Cardinality(V) \in Nat
    BY <1>4, LineEndsFinite
  <2>2. Cardinality(U \cap V) = 0
    BY <1>5, FS_EmptySet
  <2> HIDE DEF U, V
  <2>3. Cardinality(U \cup V) = Cardinality(U) + Cardinality(V) - Cardinality(U \cap V)
    BY <1>4, <2>1, FS_Union
  <2>4. Cardinality(U \cup V) = Cardinality(U) + Cardinality(V)
    BY <2>1, <2>2, <2>3
  <2> QED
    BY <2>4 DEF U
<1> QED
  BY <1>3, <1>4, <1>6

(* Reading two texts one after the other.                                  *)
LEMMA AdvancedConcat ==
  ASSUME NEW row \in Nat, NEW column \in Nat, NEW u \in Seq(Chars), NEW v \in Seq(Chars)
  PROVE  Advanced(row, column, u \o v)
           = Advanced(Advanced(row, column, u).row, Advanced(row, column, u).column, v)
<1> DEFINE A == Advanced(row, column, u)
<1>1. /\ Len(u) \in Nat /\ Len(v) \in Nat /\ Len(u \o v) = Len(u) + Len(v)
      /\ u \o v \in Seq(Chars)
  BY ConcatProperties
<1>2. Cardinality(LineEnds(u)) \in Nat /\ Cardinality(LineEnds(v)) \in Nat
  BY LineEndsFinite
<1>3. A.row = row + Cardinality(LineEnds(u))
      /\ A.column = IF LineEnds(u) = {} THEN column + Len(u) ELSE Len(u) - Max(LineEnds(u))
  BY DEF Advanced
<1>4. row + Cardinality(LineEnds(u \o v)) = A.row + Cardinality(LineEnds(v))
  BY <1>2, <1>3, LineEndsOfConcat
<1>5. CASE LineEnds(v) = {}
  <2>1. LineEnds(u \o v) = LineEnds(u)
    <3> DEFINE V == {Len(u) + i : i \in LineEnds(v)}
    <3>1. V = {}
      BY <1>5
    <3>2. LineEnds(u \o v) = LineEnds(u) \cup V
      BY LineEndsOfConcat
    <3> HIDE DEF V
    <3> QED
      BY <3>1, <3>2
  <2>2. LineEnds(u) # {} => Max(LineEnds(u)) \in Nat
    BY LineEndsFinite
  <2> QED
    BY <1>1, <1>3, <1>4, <1>5, <2>1, <2>2 DEF Advanced
<1>6. CASE LineEnds(v) # {}
  <2>1. LineEnds(u \o v) # {}
    <3>1. PICK i \in LineEnds(v) : TRUE
      BY <1>6
    <3>2. Len(u) + i \in LineEnds(u \o v)
      BY <3>1, LineEndsOfConcat
    <3> QED
      BY <3>2
  <2>2. Max(LineEnds(v)) \in Nat
    BY <1>6, LineEndsFinite
  <2>3. Max(LineEnds(u \o v)) = Len(u) + Max(LineEnds(v))
    <3> DEFINE m == Max(LineEnds(u \o v))
               k == Max(LineEnds(v))
    <3>1. m \in LineEnds(u \o v) /\ \A y \in LineEnds(u \o v) : m >= y
      BY <1>1, <2>1, LineEndsFinite
    <3>2. m \in Nat
      <4>1. LineEnds(u \o v) \in SUBSET (1 .. Len(u \o v))
        BY <1>1, LineEndsFinite
      <4>2. LineEnds(u \o v) \in SUBSET Nat
        BY <1>1, <4>1
      <4> QED
        BY <3>1, <4>2
    <3>3. k \in LineEnds(v) /\ \A y \in LineEnds(v) : k >= y
      BY <1>6, LineEndsFinite
    <3>4. k \in Nat /\ k >= 1
      BY <3>3, LineEndsFinite
    <3>5. Len(u) + k \in LineEnds(u \o v)
      BY <3>3, LineEndsOfConcat
    <3>6. m >= Len(u) + k
      BY <3>1, <3>5
    <3>7. m \in LineEnds(u) => m <= Len(u)
      BY LineEndsFinite
    <3>8. m \notin LineEnds(u)
      <4> HIDE DEF m, k
      <4> QED
        BY <1>1, <3>2, <3>4, <3>6, <3>7
    <3>9. PICK i \in LineEnds(v) : m = Len(u) + i
      BY <3>1, <3>8, LineEndsOfConcat
    <3>10. k >= i /\ i \in Nat
      BY <3>3, LineEndsFinite
    <3> HIDE DEF m, k
    <3>11. m = Len(u) + k
      BY <1>1, <3>2, <3>4, <3>6, <3>9, <3>10
    <3> QED
      BY <3>11 DEF m, k
  <2> QED
    BY <1>1, <1>4, <1>6, <2>1, <2>2, <2>3 DEF Advanced
<1> QED
  BY <1>5, <1>6

-----------------------------------------------------------------------------
(* Beginnings of a text.                                                   *)
LEMMA Beginning ==
  ASSUME NEW a \in Seq(Chars), NEW b \in Seq(Chars), NEW n \in 0 .. Len(b)
  PROVE  SubSeq(a \o b, 1, Len(a) + n) = a \o SubSeq(b, 1, n)
<1>1. /\ Len(a) \in Nat /\ Len(b) \in Nat /\ n \in Nat
      /\ a \o b \in Seq(Chars) /\ Len(a \o b) = Len(a) + Len(b)
      /\ \A i \in 1 .. Len(a) + Len(b) :
           (a \o b)[i] = IF i <= Len(a) THEN a[i] ELSE b[i - Len(a)]
  BY ConcatProperties
<1> DEFINE l == SubSeq(a \o b, 1, Len(a) + n)
           c == SubSeq(b, 1, n)
           r == a \o c
<1>2. c \in Seq(Chars) /\ Len(c) = n /\ \A i \in 1 .. n : c[i] = b[i]
  BY <1>1
<1>3. /\ r \in Seq(Chars) /\ Len(r) = Len(a) + n
      /\ \A i \in 1 .. Len(a) + n : r[i] = IF i <= Len(a) THEN a[i] ELSE c[i - Len(a)]
  <2> HIDE DEF c
  <2>1. /\ r \in Seq(Chars) /\ Len(r) = Len(a) + Len(c)
        /\ \A i \in 1 .. Len(a) + Len(c) : r[i] = IF i <= Len(a) THEN a[i] ELSE c[i - Len(a)]
    BY <1>2, ConcatProperties
  <2> QED
    BY <1>2, <2>1
<1>4. l \in Seq(Chars) /\ Len(l) = Len(a) + n /\ \A i \in 1 .. Len(a) + n : l[i] = (a \o b)[i]
  BY <1>1
<1>5. ASSUME NEW i \in 1 .. Len(a) + n PROVE l[i] = r[i]
  <2>1. i \in 1 .. Len(a) + Len(b)
    BY <1>1
  <2>2. l[i] = IF i <= Len(a) THEN a[i] ELSE b[i - Len(a)]
    BY <1>1, <1>4, <2>1
  <2>3. ~(i <= Len(a)) => i - Len(a) \in 1 .. n
    BY <1>1
  <2> HIDE DEF l, r, c
  <2> QED
    BY <1>2, <1>3, <2>2, <2>3
<1> HIDE DEF l, r, c
<1>6. l = r
  BY <1>3, <1>4, <1>5, SeqEqual
<1> QED
  BY <1>6 DEF l, r, c

LEMMA Shorter ==
  ASSUME NEW a \in Seq(Chars), NEW b \in Seq(Chars), NEW n \in 0 .. Len(a)
  PROVE  SubSeq(a \o b, 1, n) = SubSeq(a, 1, n)
<1>1. CASE n = 0
  BY <1>1, SubSeqEmpty
<1>2. CASE n # 0
  <2>1. 1 \in 1 .. Len(a) /\ n \in 1 .. Len(a)
    BY <1>2
  <2> QED
    BY <2>1, SubSeqOfConcat1
<1> QED
  BY <1>1, <1>2

LEMMA PointType ==
  ASSUME NEW s \in Seq(Chars), NEW i \in 0 .. Len(s)
  PROVE  PointAt(s, i) \in [row : Nat, column : Nat]
<1>1. SubSeq(s, 1, i) \in Seq(Chars)
  OBVIOUS
<1> QED
  BY <1>1, AdvancedType DEF PointAt

LEMMA LeafType ==
  ASSUME NEW s \in Seq(Chars), NEW i \in 1 .. Len(s)
  PROVE  /\ Leaf(s, i) \in Leaves /\ UnreadLeaf \in Leaves
         /\ Leaf(s, i).char \in Chars /\ Leaf(s, i) # UnreadLeaf
<1>1. s[i] \in Chars /\ i - 1 \in 0 .. Len(s)
  OBVIOUS
<1>2. PointAt(s, i - 1) \in [row : Nat, column : Nat]
  BY <1>1, PointType
<1> QED
  BY <1>1, <1>2, CharsAssumption DEF Leaf, Leaves, UnreadLeaf

(* The leaves of a text are not those of no tree.                          *)
LEMMA LeavesFit ==
  ASSUME NEW s \in Seq(Chars), NEW t, Len(t) = Len(s),
         \A i \in 1 .. Len(s) : t[i] \in {UnreadLeaf, Leaf(s, i)}
  PROVE  Fits(t, s)
<1>1. ASSUME t = NoTree PROVE FALSE
  <2>1. Len(t) = 1 /\ t[1] = [char |-> Unread, row |-> 1, column |-> 1]
    BY <1>1 DEF NoTree
  <2>2. 1 \in 1 .. Len(s)
    BY <2>1
  <2>3. t[1] = UnreadLeaf \/ t[1].char \in Chars
    BY <2>2, LeafType
  <2> QED
    BY <2>1, <2>3, CharsAssumption DEF UnreadLeaf
<1> QED
  BY <1>1 DEF Fits

(* What a parse returns.                                                   *)
LEMMA TreeOfFits ==
  ASSUME NEW s \in Seq(Chars)
  PROVE  TreeOf(s) \in Trees /\ Fits(TreeOf(s), s)
<1>1. TreeOf(s) \in [1 .. Len(s) -> Leaves] /\ Len(s) \in Nat
  BY LeafType DEF TreeOf
<1>2. TreeOf(s) \in Trees /\ Len(TreeOf(s)) = Len(s)
  BY <1>1 DEF Trees
<1>3. \A i \in 1 .. Len(s) : TreeOf(s)[i] = Leaf(s, i)
  BY DEF TreeOf
<1> QED
  BY <1>2, <1>3, LeavesFit

LEMMA ReparsedFits ==
  ASSUME NEW s \in Seq(Chars), NEW t \in Trees, Fits(t, s)
  PROVE  Reparsed(t, s) \in Trees /\ Fits(Reparsed(t, s), s)
<1> DEFINE r == Reparsed(t, s)
<1>1. Len(s) \in Nat
  OBVIOUS
<1>2. ASSUME NEW i \in 1 .. Len(s) PROVE r[i] \in {UnreadLeaf, Leaf(s, i)}
  <2>1. r[i] = IF i \in DOMAIN t /\ t[i] # UnreadLeaf THEN t[i] ELSE Leaf(s, i)
    BY DEF Reparsed
  <2> QED
    BY <2>1 DEF Fits
<1>3. DOMAIN r = 1 .. Len(s) /\ r = [i \in 1 .. Len(s) |-> r[i]]
  BY DEF Reparsed
<1> HIDE DEF r
<1>4. r \in [1 .. Len(s) -> Leaves]
  BY <1>2, <1>3, LeafType
<1>5. r \in Trees /\ Len(r) = Len(s)
  BY <1>1, <1>4 DEF Trees
<1> QED
  BY <1>2, <1>5, LeavesFit DEF r

(* A leaf behind an edit moves with the text.                              *)
LEMMA MovedLeaf ==
  ASSUME NEW a \in Seq(Chars), NEW b \in Seq(Chars), NEW q \in Seq(Chars),
         NEW j \in 1 .. Len(q), NEW edit,
         edit.old.row = Advanced(0, 0, a).row, edit.old.column = Advanced(0, 0, a).column,
         edit.new.row = Advanced(0, 0, b).row, edit.new.column = Advanced(0, 0, b).column
  PROVE  Moved(Leaf(a \o q, Len(a) + j), edit) = Leaf(b \o q, Len(b) + j)
<1> DEFINE v == SubSeq(q, 1, j - 1)
           A == Advanced(0, 0, a)
           B == Advanced(0, 0, b)
           la == Leaf(a \o q, Len(a) + j)
           lb == Leaf(b \o q, Len(b) + j)
<1>1. v \in Seq(Chars) /\ j - 1 \in 0 .. Len(q)
  OBVIOUS
<1>2. A \in [row : Nat, column : Nat] /\ B \in [row : Nat, column : Nat]
  BY AdvancedType
<1>3. ASSUME NEW c \in Seq(Chars)
      PROVE  Leaf(c \o q, Len(c) + j)
               = [char |-> q[j],
                  row |-> Advanced(Advanced(0, 0, c).row, Advanced(0, 0, c).column, v).row,
                  column |-> Advanced(Advanced(0, 0, c).row, Advanced(0, 0, c).column, v).column]
  <2>1. (Len(c) + j) - 1 = Len(c) + (j - 1)
    OBVIOUS
  <2>2. PointAt(c \o q, (Len(c) + j) - 1) = Advanced(0, 0, c \o v)
    <3>1. SubSeq(c \o q, 1, Len(c) + (j - 1)) = c \o v
      BY <1>1, Beginning
    <3> HIDE DEF v
    <3> QED
      BY <2>1, <3>1 DEF PointAt
  <2>3. Advanced(0, 0, c \o v)
          = Advanced(Advanced(0, 0, c).row, Advanced(0, 0, c).column, v)
    <3> HIDE DEF v
    <3>1. 0 \in Nat
      OBVIOUS
    <3> QED
      BY <1>1, <3>1, AdvancedConcat
  <2>4. (c \o q)[Len(c) + j] = q[j]
    <3>1. Len(c) \in Nat /\ Len(q) \in Nat /\ j \in Nat
      OBVIOUS
    <3>2. /\ Len(c) + j \in 1 .. Len(c) + Len(q) /\ ~(Len(c) + j <= Len(c))
          /\ (Len(c) + j) - Len(c) = j
      BY <3>1
    <3> QED
      BY <3>2, ConcatProperties
  <2> QED
    BY <2>2, <2>3, <2>4 DEF Leaf
<1>4. /\ la = [char |-> q[j], row |-> Advanced(A.row, A.column, v).row,
               column |-> Advanced(A.row, A.column, v).column]
      /\ lb = [char |-> q[j], row |-> Advanced(B.row, B.column, v).row,
               column |-> Advanced(B.row, B.column, v).column]
  BY <1>3
<1>5. la # UnreadLeaf
  <2>1. q[j] \in Chars
    OBVIOUS
  <2> QED
    BY <1>4, <2>1, CharsAssumption DEF UnreadLeaf
<1> DEFINE n == Cardinality(LineEnds(v))
<1>6. n \in Nat /\ (n = 0 <=> LineEnds(v) = {}) /\ Len(v) \in Nat
  BY <1>1, LineEndsFinite
<1>7. /\ la.char = q[j] /\ la.row = A.row + n
      /\ la.column = IF LineEnds(v) = {} THEN A.column + Len(v) ELSE Len(v) - Max(LineEnds(v))
  BY <1>4 DEF Advanced
<1>8. lb = [char |-> q[j], row |-> B.row + n,
            column |-> IF LineEnds(v) = {} THEN B.column + Len(v)
                       ELSE Len(v) - Max(LineEnds(v))]
  BY <1>4 DEF Advanced
<1>9. DOMAIN la = {"char", "row", "column"}
  BY <1>4
<1> HIDE DEF A, B, la, lb, n, v
<1>10. CASE LineEnds(v) = {}
  <2>1. n = 0 /\ ~(la.row > edit.old.row)
    BY <1>2, <1>6, <1>7, <1>10 DEF A
  <2>2. Moved(la, edit) = [la EXCEPT !.row = edit.new.row,
                                     !.column = (@ + edit.new.column) - edit.old.column]
    BY <1>5, <2>1 DEF Moved
  <2>3. (la.column + edit.new.column) - edit.old.column = B.column + Len(v)
    BY <1>2, <1>6, <1>7, <1>10 DEF A, B
  <2>4. edit.new.row = B.row + n
    BY <1>2, <2>1 DEF B
  <2> QED
    BY <1>7, <1>8, <1>9, <1>10, <2>2, <2>3, <2>4 DEF la, lb
<1>11. CASE LineEnds(v) # {}
  <2>1. la.row > edit.old.row
    BY <1>2, <1>6, <1>7, <1>11 DEF A
  <2>2. Moved(la, edit) = [la EXCEPT !.row = (@ + edit.new.row) - edit.old.row]
    BY <1>5, <2>1 DEF Moved
  <2>3. (la.row + edit.new.row) - edit.old.row = B.row + n
    BY <1>2, <1>6, <1>7 DEF A, B
  <2> QED
    BY <1>7, <1>8, <1>9, <1>11, <2>2, <2>3 DEF la, lb
<1> QED
  BY <1>10, <1>11

LEMMA LeafAtBeginning ==
  ASSUME NEW p \in Seq(Chars), NEW c \in Seq(Chars), NEW q \in Seq(Chars),
         NEW i \in 1 .. Len(p)
  PROVE  Leaf((p \o c) \o q, i) = Leaf(p, i)
<1> DEFINE a == p \o c
<1>1. /\ a \in Seq(Chars) /\ Len(a) = Len(p) + Len(c) /\ Len(p) \in Nat /\ Len(c) \in Nat
      /\ i - 1 \in 0 .. Len(p) /\ a[i] = p[i] /\ Len(q) \in Nat
  BY ConcatProperties
<1>2. SubSeq(a, 1, i - 1) = SubSeq(p, 1, i - 1)
  BY <1>1, Shorter
<1> HIDE DEF a
<1>3. i - 1 \in 0 .. Len(a) /\ i \in 1 .. Len(a) + Len(q) /\ i <= Len(a)
  BY <1>1
<1>4. SubSeq(a \o q, 1, i - 1) = SubSeq(a, 1, i - 1)
  BY <1>1, <1>3, Shorter
<1>5. (a \o q)[i] = a[i]
  BY <1>1, <1>3, ConcatProperties
<1>6. Leaf(a \o q, i) = Leaf(p, i)
  BY <1>1, <1>2, <1>4, <1>5 DEF Leaf, PointAt
<1> QED
  BY <1>6 DEF a

(* An edited tree is of the edited text: p \o u \o q has become p \o w \o q. *)
LEMMA TreeEditFits ==
  ASSUME NEW p \in Seq(Chars), NEW u \in Seq(Chars), NEW w \in Seq(Chars),
         NEW q \in Seq(Chars), NEW t \in Trees, Fits(t, (p \o u) \o q), NEW edit,
         edit.start = Len(p),
         edit.old.byte = Len(p) + Len(u), edit.new.byte = Len(p) + Len(w),
         edit.old.row = Advanced(0, 0, p \o u).row,
         edit.old.column = Advanced(0, 0, p \o u).column,
         edit.new.row = Advanced(0, 0, p \o w).row,
         edit.new.column = Advanced(0, 0, p \o w).column
  PROVE  TreeEdit(t, edit) \in Trees /\ Fits(TreeEdit(t, edit), (p \o w) \o q)
<1> DEFINE a == p \o u
           b == p \o w
           s == a \o q
           after == b \o q
           rest == SubSeq(t, edit.old.byte + 1, Len(t))
           A == SubSeq(t, 1, edit.start)
           B == [i \in 1 .. edit.new.byte - edit.start |-> UnreadLeaf]
           C == [i \in DOMAIN rest |-> Moved(rest[i], edit)]
           r == TreeEdit(t, edit)
<1>1. /\ Len(p) \in Nat /\ Len(u) \in Nat /\ Len(w) \in Nat /\ Len(q) \in Nat
      /\ a \in Seq(Chars) /\ Len(a) = Len(p) + Len(u)
      /\ b \in Seq(Chars) /\ Len(b) = Len(p) + Len(w)
  BY ConcatProperties
<1>2. s \in Seq(Chars) /\ Len(s) = Len(a) + Len(q)
      /\ after \in Seq(Chars) /\ Len(after) = Len(b) + Len(q)
  <2> HIDE DEF a, b
  <2> QED
    BY <1>1, ConcatProperties
<1>3. Len(t) = Len(s) /\ t \in Seq(Leaves)
      /\ \A i \in 1 .. Len(s) : t[i] \in {UnreadLeaf, Leaf(s, i)}
  BY DEF Fits, Trees
<1>4. UnreadLeaf \in Leaves
  BY DEF UnreadLeaf, Leaves
<1>r. /\ edit.old.row = Advanced(0, 0, a).row /\ edit.old.column = Advanced(0, 0, a).column
      /\ edit.new.row = Advanced(0, 0, b).row /\ edit.new.column = Advanced(0, 0, b).column
  OBVIOUS
<1>j. ASSUME NEW X \in Seq(Leaves), NEW Y \in Seq(Leaves)
      PROVE  /\ X \o Y \in Seq(Leaves) /\ Len(X \o Y) = Len(X) + Len(Y)
             /\ \A i \in 1 .. Len(X) + Len(Y) :
                  (X \o Y)[i] = IF i <= Len(X) THEN X[i] ELSE Y[i - Len(X)]
  BY ConcatProperties
<1> HIDE DEF a, b, s, after, r
<1>5. A \in Seq(Leaves) /\ Len(A) = Len(p) /\ \A i \in 1 .. Len(p) : A[i] = t[i]
  BY <1>1, <1>2, <1>3
<1>6. B \in Seq(Leaves) /\ Len(B) = Len(w) /\ \A i \in 1 .. Len(w) : B[i] = UnreadLeaf
  <2>1. edit.new.byte - edit.start = Len(w)
    BY <1>1
  <2> QED
    BY <1>1, <1>4, <2>1
<1>7. Len(rest) = Len(q) /\ DOMAIN rest = 1 .. Len(q)
      /\ \A j \in 1 .. Len(q) : rest[j] = t[Len(a) + j]
  <2>1. edit.old.byte + 1 = Len(a) + 1 /\ Len(t) = Len(a) + Len(q) /\ Len(a) \in Nat
    BY <1>1, <1>2, <1>3
  <2>2. Len(a) + 1 \in Int /\ Len(t) \in Int
    BY <1>1, <2>1
  <2> QED
    BY <1>1, <1>3, <2>1, <2>2
<1>8. ASSUME NEW j \in 1 .. Len(q) PROVE C[j] \in {UnreadLeaf, Leaf(after, Len(b) + j)}
  <2>1. C[j] = Moved(t[Len(a) + j], edit)
    BY <1>7
  <2>2. t[Len(a) + j] \in {UnreadLeaf, Leaf(s, Len(a) + j)}
    BY <1>1, <1>2, <1>3
  <2>3. Moved(UnreadLeaf, edit) = UnreadLeaf
    BY DEF Moved
  <2>4. Moved(Leaf(s, Len(a) + j), edit) = Leaf(after, Len(b) + j)
    <3>1. a \in Seq(Chars) /\ b \in Seq(Chars)
      BY <1>1
    <3>2. Moved(Leaf(a \o q, Len(a) + j), edit) = Leaf(b \o q, Len(b) + j)
      <4>1. ASSUME NEW x \in Seq(Chars), NEW y \in Seq(Chars),
                   edit.old.row = Advanced(0, 0, x).row,
                   edit.old.column = Advanced(0, 0, x).column,
                   edit.new.row = Advanced(0, 0, y).row,
                   edit.new.column = Advanced(0, 0, y).column
            PROVE  Moved(Leaf(x \o q, Len(x) + j), edit) = Leaf(y \o q, Len(y) + j)
        BY <4>1, MovedLeaf
      <4> QED
        BY <1>r, <3>1, <4>1
    <3> QED
      BY <3>2 DEF s, after
  <2> HIDE DEF C
  <2> QED
    BY <2>1, <2>2, <2>3, <2>4
<1>9. C \in Seq(Leaves) /\ Len(C) = Len(q)
  <2>1. ASSUME NEW j \in 1 .. Len(q) PROVE C[j] \in Leaves
    <3>1. Len(b) + j \in 1 .. Len(after)
      BY <1>1, <1>2
    <3>2. Leaf(after, Len(b) + j) \in Leaves
      BY <1>2, <3>1, LeafType
    <3> HIDE DEF C
    <3> QED
      BY <1>4, <1>8, <3>2
  <2>2. C = [j \in 1 .. Len(q) |-> C[j]]
    BY <1>7
  <2> HIDE DEF C
  <2>3. C \in [1 .. Len(q) -> Leaves]
    BY <2>1, <2>2
  <2>4. C \in Seq(Leaves)
    BY <1>1, <2>3, SeqDef
  <2>5. DOMAIN C = 1 .. Len(q) /\ DOMAIN C = 1 .. Len(C) /\ Len(C) \in Nat
    BY <2>3, <2>4, LenProperties
  <2> QED
    BY <1>1, <2>4, <2>5
<1>10. r = (A \o B) \o C
  BY DEF TreeEdit, r
<1> DEFINE D == A \o B
<1> HIDE DEF A, B, C, rest
<1>11. D \in Seq(Leaves) /\ Len(D) = Len(b)
       /\ \A i \in 1 .. Len(b) : D[i] = IF i <= Len(p) THEN A[i] ELSE B[i - Len(p)]
  <2>1. /\ D \in Seq(Leaves) /\ Len(D) = Len(A) + Len(B)
        /\ \A i \in 1 .. Len(A) + Len(B) : D[i] = IF i <= Len(A) THEN A[i] ELSE B[i - Len(A)]
    <3>1. A \in Seq(Leaves) /\ B \in Seq(Leaves)
      BY <1>5, <1>6
    <3> QED
      BY <1>j, <3>1
  <2> HIDE DEF D
  <2> QED
    BY <1>1, <1>5, <1>6, <2>1
<1> HIDE DEF D
<1>12. r \in Seq(Leaves) /\ Len(r) = Len(after)
       /\ \A i \in 1 .. Len(after) : r[i] = IF i <= Len(b) THEN D[i] ELSE C[i - Len(b)]
  <2>1. r = D \o C
    BY <1>10 DEF D
  <2>2. /\ r \in Seq(Leaves) /\ Len(r) = Len(D) + Len(C)
        /\ \A i \in 1 .. Len(D) + Len(C) : r[i] = IF i <= Len(D) THEN D[i] ELSE C[i - Len(D)]
    <3>1. D \in Seq(Leaves) /\ C \in Seq(Leaves)
      BY <1>9, <1>11
    <3> QED
      BY <1>j, <2>1, <3>1
  <2> QED
    BY <1>2, <1>9, <1>11, <2>2
<1>13. ASSUME NEW i \in 1 .. Len(after) PROVE r[i] \in {UnreadLeaf, Leaf(after, i)}
  <2>1. CASE i <= Len(p)
    <3>1. i \in 1 .. Len(p) /\ i \in 1 .. Len(b) /\ i \in 1 .. Len(s)
      BY <1>1, <1>2, <2>1
    <3>2. r[i] = t[i]
      BY <1>5, <1>11, <1>12, <3>1
    <3>3. Leaf(after, i) = Leaf(s, i)
      <4>1. ASSUME NEW c \in Seq(Chars)
            PROVE  Leaf((p \o c) \o q, i) = Leaf(p, i)
        BY <3>1, LeafAtBeginning
      <4> QED
        BY <4>1 DEF s, after, a, b
    <3> QED
      BY <1>3, <3>1, <3>2, <3>3
  <2>2. CASE ~(i <= Len(p)) /\ i <= Len(b)
    <3>1. i - Len(p) \in 1 .. Len(w) /\ i \in 1 .. Len(b)
      BY <1>1, <2>2
    <3> QED
      BY <1>6, <1>11, <1>12, <2>2, <3>1
  <2>3. CASE ~(i <= Len(b))
    <3>1. i - Len(b) \in 1 .. Len(q) /\ Len(b) + (i - Len(b)) = i
      BY <1>1, <1>2, <2>3
    <3> QED
      BY <1>8, <1>12, <2>3, <3>1
  <2> QED
    BY <2>1, <2>2, <2>3
<1>14. Fits(r, after)
  BY <1>2, <1>12, <1>13, LeavesFit
<1> QED
  BY <1>12, <1>14 DEF r, after, b, Trees

(* The edit that is made of a notification fits the text and the change.   *)
Accounts(edit, before, after) ==
  /\ edit \in Edits /\ IsIncremental(edit)
  /\ \A t \in Trees : Fits(t, before) => /\ TreeEdit(t, edit) \in Trees
                                         /\ Fits(TreeEdit(t, edit), after)

LEMMA EditAccounts ==
  ASSUME NEW p \in Seq(Chars), NEW u \in Seq(Chars), NEW q \in Seq(Chars), u # <<>>
  PROVE  /\ Accounts(EditOf(TRUE, Len(p), u, (p \o u) \o q), p \o q, (p \o u) \o q)
         /\ Accounts(EditOf(FALSE, Len(p), u, p \o q), (p \o u) \o q, p \o q)
<1> DEFINE P == Advanced(0, 0, p)
           E == Advanced(0, 0, p \o u)
           short == [byte |-> Len(p), row |-> P.row, column |-> P.column]
           long == [byte |-> Len(p) + Len(u), row |-> E.row, column |-> E.column]
           ins == EditOf(TRUE, Len(p), u, (p \o u) \o q)
           del == EditOf(FALSE, Len(p), u, p \o q)
<1>1. /\ Len(p) \in Nat /\ Len(u) \in Nat /\ Len(u) # 0 /\ 0 \in Nat
      /\ p \o u \in Seq(Chars) /\ Len(p \o u) = Len(p) + Len(u)
      /\ Len(p) \in 0 .. Len(p) /\ Len(p) \in 0 .. Len(p \o u) /\ <<>> \in Seq(Chars)
  BY ConcatProperties, EmptySeq
<1>2. SubSeq(p \o q, 1, Len(p)) = p
  BY <1>1, Shorter, SubSeqFull
<1>3. SubSeq((p \o u) \o q, 1, Len(p)) = p
  <2>1. SubSeq((p \o u) \o q, 1, Len(p)) = SubSeq(p \o u, 1, Len(p))
    BY <1>1, Shorter
  <2>2. SubSeq(p \o u, 1, Len(p)) = p
    BY <1>1, Shorter, SubSeqFull
  <2> QED
    BY <2>1, <2>2
<1>4. PointAt(p \o q, Len(p)) = P /\ PointAt((p \o u) \o q, Len(p)) = P
  BY <1>2, <1>3 DEF PointAt
<1>5. E = Advanced(P.row, P.column, u)
  BY <1>1, AdvancedConcat
<1>6. P \in [row : Nat, column : Nat] /\ E \in [row : Nat, column : Nat]
  BY <1>1, AdvancedType
<1>7. /\ ins = [start |-> Len(p), old |-> short, new |-> long]
      /\ del = [start |-> Len(p), old |-> long, new |-> short]
  BY <1>4, <1>5 DEF EditOf
<1>8. (p \o <<>>) \o q = p \o q /\ p \o <<>> = p /\ Len(<<>>) = 0
  BY ConcatEmptySeq
<1>p. P = Advanced(0, 0, p \o <<>>) /\ E = Advanced(0, 0, p \o u)
  BY <1>8
<1> HIDE DEF P, E
<1>9. ins \in Edits /\ del \in Edits /\ IsIncremental(ins) /\ IsIncremental(del)
  <2>1. short \in Points /\ long \in Points /\ long.byte # 0
    BY <1>1, <1>6 DEF Points
  <2> HIDE DEF short, long, ins, del
  <2>2. ins.new = long /\ del.old = long
    BY <1>7
  <2> QED
    BY <1>1, <1>7, <2>1, <2>2 DEF Edits, IsIncremental
<1>10. /\ ins.start = Len(p) /\ ins.old.byte = Len(p) + Len(<<>>)
       /\ ins.new.byte = Len(p) + Len(u)
       /\ ins.old.row = Advanced(0, 0, p \o <<>>).row
       /\ ins.old.column = Advanced(0, 0, p \o <<>>).column
       /\ ins.new.row = Advanced(0, 0, p \o u).row
       /\ ins.new.column = Advanced(0, 0, p \o u).column
  <2> HIDE DEF ins, del
  <2> QED
    BY <1>1, <1>7, <1>8, <1>p
<1>11. /\ del.start = Len(p) /\ del.old.byte = Len(p) + Len(u)
       /\ del.new.byte = Len(p) + Len(<<>>)
       /\ del.new.row = Advanced(0, 0, p \o <<>>).row
       /\ del.new.column = Advanced(0, 0, p \o <<>>).column
       /\ del.old.row = Advanced(0, 0, p \o u).row
       /\ del.old.column = Advanced(0, 0, p \o u).column
  <2> HIDE DEF ins, del
  <2> QED
    BY <1>1, <1>7, <1>8, <1>p
<1> HIDE DEF ins, del
<1>12. ASSUME NEW t \in Trees, Fits(t, p \o q)
       PROVE  TreeEdit(t, ins) \in Trees /\ Fits(TreeEdit(t, ins), (p \o u) \o q)
  <2>1. Fits(t, (p \o <<>>) \o q)
    BY <1>8, <1>12
  <2> QED
    BY <1>1, <1>10, <2>1, TreeEditFits
<1>13. ASSUME NEW t \in Trees, Fits(t, (p \o u) \o q)
       PROVE  TreeEdit(t, del) \in Trees /\ Fits(TreeEdit(t, del), p \o q)
  <2>1. TreeEdit(t, del) \in Trees /\ Fits(TreeEdit(t, del), (p \o <<>>) \o q)
    BY <1>1, <1>11, <1>13, TreeEditFits
  <2> QED
    BY <1>8, <2>1
<1>14. Accounts(ins, p \o q, (p \o u) \o q)
  BY <1>9, <1>12 DEF Accounts
<1>15. Accounts(del, (p \o u) \o q, p \o q)
  BY <1>9, <1>13 DEF Accounts
<1> QED
  BY <1>14, <1>15 DEF ins, del

LEMMA InsertAccounts ==
  ASSUME NEW s \in Seq(Chars), NEW at \in 0 .. Len(s), NEW segment \in Seq(Chars),
         segment # <<>>
  PROVE  /\ Inserted(s, at, segment) \in Seq(Chars)
         /\ Accounts(EditOf(TRUE, at, segment, Inserted(s, at, segment)), s,
                     Inserted(s, at, segment))
<1> DEFINE p == SubSeq(s, 1, at)
           q == SubSeq(s, at + 1, Len(s))
<1>1. p \in Seq(Chars) /\ q \in Seq(Chars) /\ Len(p) = at
  OBVIOUS
<1>2. p \o q = s
  <2>1. 1 \in 1 .. Len(s) + 1 /\ at \in (1 - 1) .. Len(s) /\ Len(s) \in at .. Len(s)
    OBVIOUS
  <2> QED
    BY <2>1, ConcatAdjacentSubSeq, SubSeqFull
<1>3. Inserted(s, at, segment) = (p \o segment) \o q
  BY DEF Inserted
<1> HIDE DEF p, q
<1>4. p \o segment \in Seq(Chars)
  BY <1>1, ConcatProperties
<1>5. (p \o segment) \o q \in Seq(Chars)
  BY <1>1, <1>4, ConcatProperties
<1> QED
  BY <1>1, <1>2, <1>3, <1>5, EditAccounts

LEMMA DeleteAccounts ==
  ASSUME NEW s \in Seq(Chars), NEW at \in 0 .. Len(s) - 1, NEW length \in 1 .. Len(s) - at
  PROVE  /\ Deleted(s, at, length) \in Seq(Chars)
         /\ Accounts(EditOf(FALSE, at, SubSeq(s, at + 1, at + length), Deleted(s, at, length)), s,
                     Deleted(s, at, length))
<1> DEFINE p == SubSeq(s, 1, at)
           u == SubSeq(s, at + 1, at + length)
           q == SubSeq(s, at + length + 1, Len(s))
<1>0. Len(s) \in Nat /\ at + length \in Nat /\ at + length <= Len(s)
  OBVIOUS
<1>1. p \in Seq(Chars) /\ u \in Seq(Chars) /\ q \in Seq(Chars) /\ Len(p) = at /\ Len(u) = length
  BY <1>0
<1>2. p \o u = SubSeq(s, 1, at + length)
  <2>1. /\ 1 \in 1 .. Len(s) + 1 /\ at \in (1 - 1) .. Len(s)
        /\ at + length \in at .. Len(s)
    BY <1>0
  <2> QED
    BY <2>1, ConcatAdjacentSubSeq
<1>3. (p \o u) \o q = s
  <2>1. /\ 1 \in 1 .. Len(s) + 1 /\ at + length \in (1 - 1) .. Len(s)
        /\ Len(s) \in at + length .. Len(s)
    BY <1>0
  <2>2. SubSeq(s, 1, at + length) \o q = SubSeq(s, 1, Len(s))
    BY <2>1, ConcatAdjacentSubSeq
  <2> QED
    BY <1>2, <2>2, SubSeqFull
<1>4. Deleted(s, at, length) = p \o q
  BY DEF Deleted
<1>5. u # <<>>
  BY <1>1
<1>6. EditOf(FALSE, at, SubSeq(s, at + 1, at + length), Deleted(s, at, length))
        = EditOf(FALSE, Len(p), u, p \o q)
  BY <1>1, <1>4
<1> HIDE DEF p, u, q
<1>7. p \o q \in Seq(Chars)
  BY <1>1, ConcatProperties
<1>8. Accounts(EditOf(FALSE, Len(p), u, p \o q), (p \o u) \o q, p \o q)
  BY <1>1, <1>5, EditAccounts
<1> QED
  BY <1>3, <1>4, <1>6, <1>7, <1>8

-----------------------------------------------------------------------------
(* The data of an exchange: types, what the two pipes carry, and which     *)
(* text the trees are of.                                                  *)

(* The payload of the request that is asked.                               *)
Sent == Payload(IF call.command = "parse" THEN text ELSE <<>>, call.edit)

(* The exchange is before the host's work, or after it.                    *)
Asking == \/ ui \in {"header", "payload"}
          \/ ui = "answer" /\ (requests # <<>> \/ host.at = "work")
Replied == \/ ui = "result"
           \/ ui = "answer" /\ ~Asking

Queries == {"highlights", "symbols"}

(* What is on its way is of this exchange.                                 *)
InStep ==
  /\ ui = "answer" /\ requests # <<>> /\ host.at = "payload" => requests = <<Sent>>
  /\ ui \in {"payload", "answer"} /\ host.at \in {"payload", "work"}
       => host.command = call.command
  /\ ui = "answer" /\ host.at = "work" /\ HasPayload(call.command) => host.payload = Sent
  /\ ui = "result" /\ answers # <<>> => answers = <<Result(host.tree, host.source)>>
  /\ ui = "wait" /\ host.alive => host.at = "header" /\ requests \in {<<>>, <<Header("quit")>>}

(* The host has no tree, or that of the editor's text; or one that the     *)
(* edit it is about to be sent makes that of the text.                     *)
Whole == host.tree # NoTree => Fits(host.tree, text) /\ host.source = text
Editable == \/ host.tree = NoTree
            \/ ~IsIncremental(call.edit)
            \/ /\ TreeEdit(host.tree, call.edit) \in Trees
               /\ Fits(TreeEdit(host.tree, call.edit), text)

TreeInv ==
  /\ Exchanging /\ call.command = "configure" => host.tree = NoTree
  /\ Exchanging /\ call.command \in Queries => Whole /\ syntax = "wasm"
  /\ Asking /\ call.command = "parse" => Editable
  /\ Replied /\ call.command = "parse" /\ host.reply.ok
       => Fits(host.tree, text) /\ host.source = text
  /\ Replied /\ (ui = "answer" => host.reply.more)
       => call.command \in Queries /\ host.tree # NoTree
  /\ ui = "idle" /\ ready => Whole /\ syntax = "wasm"
  /\ ui \in {"quit", "wait", "open"} => syntax = "none"
  /\ syntax = "native" => Fits(tree, text)

DInv == TypeOK /\ InStep /\ TreeInv

(* What a step may show and list.                                          *)
OfText ==
  /\ shown' # shown => shown' = Plain \/ Fits(shown', text')
  /\ listed' # listed => \/ listed' = Result(Plain, <<>>)
                         \/ Fits(listed'.tree, text') /\ listed'.source = text'

LEMMA PartTypes ==
  /\ NoEdit \in Edits /\ NoTree \in Trees /\ Plain \in Trees
  /\ Result(Plain, <<>>) \in Results /\ Payload(<<>>, NoEdit) \in Payloads
  /\ \A command \in Commands \cup {"quit"} : Header(command) \in Headers
  /\ \A s \in Seq(Chars), e \in Edits : Payload(s, e) \in Payloads
  /\ \A t \in Trees, s \in Seq(Chars) : Result(t, s) \in Results
  /\ \A ok, more \in BOOLEAN : Answer(ok, more) \in Replies
<1>1. NoEdit \in Edits
  BY DEF NoEdit, Edits, Points
<1>2. Plain \in Trees
  BY EmptySeq DEF Plain, Trees
<1>3. NoTree \in Trees
  <2>1. [char |-> Unread, row |-> 1, column |-> 1] \in Leaves
    BY DEF Leaves
  <2> QED
    BY <2>1 DEF NoTree, Trees
<1>4. <<>> \in Seq(Chars)
  BY EmptySeq
<1>5. \A s \in Seq(Chars), e \in Edits : Payload(s, e) \in Payloads
  BY DEF Payload, Payloads
<1>6. \A t \in Trees, s \in Seq(Chars) : Result(t, s) \in Results
  BY DEF Result, Results
<1>7. \A command \in Commands \cup {"quit"} : Header(command) \in Headers
  BY DEF Header, Headers
<1>8. \A ok, more \in BOOLEAN : Answer(ok, more) \in Replies
  BY DEF Answer, Replies
<1> QED
  BY <1>1, <1>2, <1>3, <1>4, <1>5, <1>6, <1>7, <1>8

LEMMA FreshType == FreshHost \in Hosts /\ FreshHost.tree = NoTree
<1>1. Answer(FALSE, FALSE) \in Replies /\ <<>> \in Seq(Chars)
  BY PartTypes, EmptySeq
<1> QED
  BY <1>1, PartTypes DEF FreshHost, Hosts

LEMMA InitDInv == Init => DInv
<1> SUFFICES ASSUME Init PROVE DInv
  OBVIOUS
<1>1. host \in Hosts
  BY FreshType DEF Init, Hosts
<1>2. <<>> \in Seq(Chars) /\ <<>> \in Seq(Headers \cup Payloads)
      /\ <<>> \in Seq(Replies \cup Results \cup {Noise})
  BY EmptySeq
<1>3. call \in [command : Commands, edit : Edits, ok : BOOLEAN]
  BY PartTypes DEF Init, Commands
<1>4. launched \in BOOLEAN /\ ready \in BOOLEAN /\ input \in BOOLEAN
  BY Zenon DEF Init
<1>6. /\ text \in Seq(Chars) /\ shown \in Trees /\ listed \in Results /\ tree \in Trees
      /\ requests \in Seq(Headers \cup Payloads)
      /\ answers \in Seq(Replies \cup Results \cup {Noise})
  BY <1>2, PartTypes, Zenon DEF Init
<1>7. /\ syntax \in Grammars /\ syntax # "wasm" /\ ~ready /\ goal = "nothing" /\ ui = "idle"
      /\ edits \in 0 .. MaxEdits /\ opens \in 0 .. MaxOpens
  BY BoundsAssumption DEF Init, Grammars
<1>8. TypeOK
  BY <1>1, <1>3, <1>4, <1>6, <1>7 DEF TypeOK
<1>5. InStep /\ TreeInv
  BY DEF Init, InStep, TreeInv, Exchanging, Asking, Replied
<1> QED
  BY <1>5, <1>8 DEF DInv

(* The client's part of an exchange.                                       *)
LEMMA SendData ==
  ASSUME IInv, DInv, SendHeader \/ SendPayload
  PROVE  DInv' /\ OfText
<1> USE DEF DInv
<1>0. call.command \in Commands /\ call.edit \in Edits /\ text \in Seq(Chars)
      /\ <<>> \in Seq(Chars)
  BY EmptySeq DEF TypeOK
<1>1. OfText
  BY DEF OfText, SendHeader, SendPayload, document
<1>2. CASE SendHeader
  <2> USE <1>2 DEF SendHeader, document, client, bounds
  <2>1. AtRest /\ requests' = <<Header(call.command)>> /\ requests' # <<>>
    BY DEF IInv, Conversation
  <2>2. requests' \in Seq(Headers \cup Payloads)
    BY <1>0, <2>1, PartTypes
  <2>3. TypeOK'
    BY <2>2 DEF TypeOK
  <2>4. InStep'
    BY <2>1 DEF InStep, AtRest
  <2>5. TreeInv'
    BY <2>1 DEF TreeInv, Exchanging, Asking, Replied, Whole, Editable
  <2> QED
    BY <1>1, <2>3, <2>4, <2>5
<1>3. CASE SendPayload
  <2> USE <1>3 DEF SendPayload, document, client, bounds
  <2>1. HeaderRead /\ requests' = <<Sent>> /\ requests' # <<>>
    BY OnePart DEF IInv, Conversation, HeaderSent, Sent
  <2>2. Sent \in Payloads
    BY <1>0, PartTypes DEF Sent
  <2>3. requests' \in Seq(Headers \cup Payloads)
    BY <2>1, <2>2
  <2>4. TypeOK'
    BY <2>3 DEF TypeOK
  <2>5. InStep'
    BY <2>1 DEF InStep, HeaderRead, Sent
  <2>6. TreeInv'
    BY <2>1 DEF TreeInv, Exchanging, Asking, Replied, Whole, Editable
  <2> QED
    BY <1>1, <2>4, <2>5, <2>6
<1> QED
  BY <1>2, <1>3

(* Where an exchange ends: the caller goes on with the next one, is at     *)
(* rest, or closes its client.                                             *)
LEMMA ConcludeData ==
  ASSUME IInv, DInv, Exchanging, NEW ok \in BOOLEAN, NEW isReady \in BOOLEAN,
         NEW result \in Results, Conclude(ok, isReady, result),
         ok => \/ result = Result(Plain, <<>>)
               \/ Fits(result.tree, text) /\ result.source = text,
         ok /\ call.command = "parse" => Fits(host.tree, text) /\ host.source = text,
         isReady => ready,
         host' \in Hosts, host'.tree = host.tree, host'.source = host.source,
         host'.alive => host'.at = "header" /\ requests' = <<>>,
         requests' \in Seq(Headers \cup Payloads),
         answers' \in Seq(Replies \cup Results \cup {Noise})
  PROVE  DInv' /\ OfText
<1> USE DEF DInv
<1>0. UNCHANGED <<text, tree, goal, launched, edits, opens>> /\ launched
  BY DEF Conclude, IInv, Flags, bounds
<1>1. /\ call.command \in Commands /\ call \in [command : Commands, edit : Edits, ok : BOOLEAN]
      /\ result.tree \in Trees /\ shown \in Trees /\ listed \in Results
      /\ syntax \in Grammars
  BY DEF TypeOK, Results
<1>2. ASSUME NEW command \in Commands, Ask(command, NoEdit)
      PROVE  /\ call' \in [command : Commands, edit : Edits, ok : BOOLEAN]
             /\ call'.command = command /\ call'.edit = NoEdit /\ ui' = "header"
  BY <1>2, PartTypes DEF Ask
<1>3. ~IsIncremental(NoEdit)
  BY DEF NoEdit, IsIncremental
<1>4. Whole => Whole'
  BY <1>0 DEF Whole
<1>5. CASE Configured(ok, isReady)
  <2> USE <1>5 DEF Configured
  <2>1. OfText
    BY DEF OfText
  <2>2. CASE ok
    <3>1. /\ Ask("parse", NoEdit) /\ ready' = TRUE /\ UNCHANGED <<input, syntax, shown, listed>>
      BY <2>2 DEF Stop
    <3>2. "parse" \in Commands
      BY DEF Commands
    <3>3. TypeOK'
      BY <1>0, <1>2, <3>1, <3>2 DEF TypeOK
    <3>4. InStep'
      BY <1>2, <3>1, <3>2 DEF InStep
    <3>5. TreeInv'
      BY <1>0, <1>2, <1>3, <3>1, <3>2 DEF TreeInv, Exchanging, Replied, Editable, Queries
    <3> QED
      BY <2>1, <3>3, <3>4, <3>5
  <2>3. CASE ~ok
    <3>1. /\ ui' = "wait" /\ ready' = FALSE /\ input' = FALSE /\ syntax' = "none"
          /\ UNCHANGED <<call, shown, listed>>
      BY <2>3 DEF Stop, Ask
    <3>2. TypeOK'
      BY <1>0, <3>1 DEF TypeOK, Grammars
    <3>3. InStep' /\ TreeInv'
      BY <3>1 DEF InStep, TreeInv, Exchanging, Asking, Replied
    <3> QED
      BY <2>1, <3>2, <3>3
  <2> QED
    BY <2>2, <2>3
<1>6. CASE Parsed(ok, isReady)
  <2> USE <1>6 DEF Parsed
  <2>1. OfText
    BY DEF OfText
  <2>2. CASE ok
    <3>1. /\ syntax' = "wasm" /\ Style /\ ready' = isReady
          /\ UNCHANGED <<input, shown, listed>> /\ Whole
      BY <2>2 DEF Stop, Whole
    <3>2. "highlights" \in Commands
      BY DEF Commands
    <3>3. CASE text # <<>>
      <4>1. Ask("highlights", NoEdit)
        BY <3>1, <3>3 DEF Style
      <4>2. TypeOK'
        BY <1>0, <1>2, <3>1, <3>2, <4>1 DEF TypeOK, Grammars
      <4>3. InStep'
        BY <1>2, <3>2, <4>1 DEF InStep
      <4>4. TreeInv'
        BY <1>0, <1>2, <1>4, <3>1, <3>2, <4>1 DEF TreeInv, Exchanging, Replied
      <4> QED
        BY <2>1, <4>2, <4>3, <4>4
    <3>4. CASE text = <<>>
      <4>1. ui' = "idle" /\ UNCHANGED call
        BY <3>1, <3>4 DEF Style
      <4>2. TypeOK'
        BY <1>0, <3>1, <4>1 DEF TypeOK, Grammars
      <4>3. InStep' /\ TreeInv'
        BY <1>0, <1>4, <3>1, <4>1 DEF InStep, TreeInv, Exchanging, Asking, Replied
      <4> QED
        BY <2>1, <4>2, <4>3
    <3> QED
      BY <3>3, <3>4
  <2>3. CASE ~ok
    <3>1. /\ ui' \in {"quit", "wait"} /\ ready' = isReady /\ input' = isReady
          /\ syntax' = "none" /\ UNCHANGED <<call, shown, listed>>
      BY <2>3 DEF Stop, Style
    <3>2. TypeOK'
      BY <1>0, <3>1 DEF TypeOK, Grammars
    <3>3. InStep' /\ TreeInv'
      BY <3>1 DEF InStep, TreeInv, Exchanging, Asking, Replied
    <3> QED
      BY <2>1, <3>2, <3>3
  <2> QED
    BY <2>2, <2>3
<1>7. CASE Highlighted(ok, isReady, result) \/ Listed(ok, isReady, result)
  <2>1. /\ ui' = "idle" /\ ready' = isReady /\ UNCHANGED <<call, input, syntax>>
        /\ call.command \in Queries
    BY <1>7 DEF Highlighted, Listed, Queries
  <2>2. /\ UNCHANGED shown \/ shown' = Plain \/ (ok /\ shown' = result.tree)
        /\ UNCHANGED listed \/ (ok /\ listed' = result)
    BY <1>7 DEF Highlighted, Listed
  <2>3. shown' \in Trees /\ listed' \in Results
    BY <1>1, <2>2, PartTypes
  <2>4. TypeOK'
    BY <1>0, <2>1, <2>3 DEF TypeOK
  <2>5. Whole /\ syntax = "wasm"
    BY <2>1 DEF TreeInv
  <2>6. InStep' /\ TreeInv'
    BY <1>0, <1>4, <2>1, <2>5 DEF InStep, TreeInv, Exchanging, Asking, Replied
  <2>7. Result(Plain, <<>>).tree = Plain
    BY DEF Result
  <2>8. OfText
    BY <1>0, <2>2, <2>7 DEF OfText
  <2> QED
    BY <2>4, <2>6, <2>8
<1> QED
  BY <1>5, <1>6, <1>7 DEF Conclude

LEMMA ReadAnswerData ==
  ASSUME IInv, DInv, ReadAnswer
  PROVE  DInv' /\ OfText
<1> USE DEF DInv
<1>1. /\ Answered /\ Head(answers) = host.reply /\ UNCHANGED host
      /\ answers' = <<>> /\ requests' = <<>> /\ ui = "answer"
  BY AnswerRead DEF ReadAnswer
<1>2. Exchanging /\ Replied /\ host.reply \in Replies /\ host \in Hosts
      /\ host.reply.ok \in BOOLEAN /\ ready \in BOOLEAN
  BY <1>1 DEF Exchanging, Answered, Replied, Asking, TypeOK, Hosts, Replies
<1>3. /\ answers' \in Seq(Replies \cup Results \cup {Noise})
      /\ requests' \in Seq(Headers \cup Payloads)
  BY <1>1, EmptySeq
<1>4. CASE host.reply.more
  <2>1. /\ ui' = "result" /\ call' = [call EXCEPT !.ok = host.reply.ok]
        /\ UNCHANGED <<document, goal, client, bounds>>
    BY <1>1, <1>4 DEF ReadAnswer
  <2>2. /\ call' \in [command : Commands, edit : Edits, ok : BOOLEAN]
        /\ call'.command = call.command
    BY <1>2, <2>1 DEF TypeOK
  <2>3. TypeOK'
    BY <1>1, <1>3, <2>1, <2>2 DEF TypeOK, document, client, bounds
  <2>4. InStep'
    BY <1>1, <2>1 DEF InStep
  <2>5. TreeInv'
    BY <1>1, <1>2, <1>4, <2>1, <2>2
    DEF TreeInv, Exchanging, Asking, Replied, Whole, document, client
  <2>6. OfText
    BY <2>1 DEF OfText, document
  <2> QED
    BY <2>3, <2>4, <2>5, <2>6
<1>5. CASE ~host.reply.more
  <2>1. Conclude(host.reply.ok, ready, Result(Plain, <<>>))
    BY <1>1, <1>5 DEF ReadAnswer
  <2>2. host.reply.ok /\ call.command = "parse" => Fits(host.tree, text) /\ host.source = text
    BY <1>2 DEF TreeInv
  <2>3. host'.alive => host'.at = "header" /\ requests' = <<>>
    BY <1>1, <1>5 DEF Answered
  <2>4. Result(Plain, <<>>) \in Results
    BY PartTypes
  <2> QED
    BY <1>1, <1>2, <1>3, <2>1, <2>2, <2>3, <2>4, ConcludeData
<1> QED
  BY <1>4, <1>5

LEMMA ReadResultData ==
  ASSUME IInv, DInv, ReadResult
  PROVE  DInv' /\ OfText
<1> USE DEF DInv
<1>1. /\ ResultSent /\ UNCHANGED host /\ answers' = <<>> /\ requests' = <<>>
      /\ ui = "result" /\ answers # <<>>
  BY ResultRead DEF ReadResult
<1>2. Exchanging /\ Replied /\ host \in Hosts /\ call.ok \in BOOLEAN /\ ready \in BOOLEAN
  BY <1>1 DEF Exchanging, Replied, TypeOK
<1>3. Head(answers) = Result(host.tree, host.source)
  BY <1>1, OnePart DEF InStep
<1>4. call.command \in Queries /\ Fits(host.tree, text) /\ host.source = text
  BY <1>1, <1>2 DEF TreeInv, Whole
<1>5. /\ Head(answers) \in Results
      /\ Head(answers).tree = host.tree /\ Head(answers).source = host.source
  <2>1. host.tree \in Trees /\ host.source \in Seq(Chars)
    BY <1>2 DEF Hosts
  <2> QED
    BY <1>3, <2>1, PartTypes DEF Result
<1>6. Conclude(call.ok, ready, Head(answers)) /\ call.command # "parse"
  BY <1>4 DEF ReadResult, Queries
<1>7. /\ answers' \in Seq(Replies \cup Results \cup {Noise})
      /\ requests' \in Seq(Headers \cup Payloads)
  BY <1>1, EmptySeq
<1>8. host'.at = "header"
  BY <1>1 DEF ResultSent
<1> QED
  BY <1>1, <1>2, <1>4, <1>5, <1>6, <1>7, <1>8, ConcludeData

(* What a host that ends keeps.                                            *)
LEMMA Ended ==
  ASSUME host \in Hosts, host' = [host EXCEPT !.alive = FALSE]
  PROVE  /\ host' \in Hosts /\ ~host'.alive
         /\ UNCHANGED <<host.at, host.command, host.payload, host.configured,
                        host.tree, host.source, host.reply>>
  BY DEF Hosts

LEMMA GiveUpData ==
  ASSUME IInv, DInv, GiveUp
  PROVE  DInv' /\ OfText
<1> USE DEF DInv
<1>1. /\ host \in Hosts /\ requests \in Seq(Headers \cup Payloads)
      /\ answers \in Seq(Replies \cup Results \cup {Noise})
  BY DEF TypeOK
<1>2. host' \in Hosts /\ ~host'.alive /\ UNCHANGED <<host.tree, host.source>>
  BY <1>1, Ended DEF GiveUp
<1>3. Exchanging /\ Conclude(FALSE, FALSE, Result(Plain, <<>>)) /\ UNCHANGED pipes
  BY DEF GiveUp
<1>4. FALSE \in BOOLEAN /\ Result(Plain, <<>>) \in Results
  BY PartTypes
<1> QED
  BY <1>1, <1>2, <1>3, <1>4, ConcludeData DEF pipes

LEMMA CloseData ==
  ASSUME IInv, DInv, SendQuit \/ QuitUnsent \/ Reap
  PROVE  DInv' /\ OfText
<1> USE DEF DInv
<1>1. OfText
  BY DEF OfText, SendQuit, QuitUnsent, Reap, document
<1>2. CASE SendQuit \/ QuitUnsent
  <2>1. /\ ui = "quit" /\ ui' = "wait" /\ ready' = FALSE /\ input' = FALSE
        /\ UNCHANGED <<document, call, goal, launched, host, answers, bounds>>
        /\ requests' \in {<<>>, <<Header("quit")>>}
        /\ host.at = "header"
    BY <1>2 DEF SendQuit, QuitUnsent, IInv, Flags, AtRest, pipes
  <2>2. requests' \in Seq(Headers \cup Payloads)
    <3>1. Header("quit") \in Headers \cup Payloads
      BY PartTypes
    <3>2. <<Header("quit")>> \in Seq(Headers \cup Payloads)
      BY <3>1
    <3>3. <<>> \in Seq(Headers \cup Payloads)
      BY EmptySeq
    <3> QED
      BY <2>1, <3>2, <3>3
  <2>3. TypeOK'
    BY <2>1, <2>2 DEF TypeOK, document, bounds
  <2>4. InStep'
    BY <2>1 DEF InStep
  <2>5. TreeInv'
    BY <2>1 DEF TreeInv, Exchanging, Asking, Replied, document
  <2> QED
    BY <1>1, <2>3, <2>4, <2>5
<1>3. CASE Reap
  <2>1. /\ ui = "wait" /\ ui' \in {"idle", "open"} /\ launched' = FALSE /\ ~ready
        /\ UNCHANGED <<document, call, goal, ready, input, pipes, bounds>>
        /\ syntax = "none"
    BY <1>3 DEF Reap, IInv, Flags, TreeInv
  <2>2. host' \in Hosts /\ ~host'.alive
    BY <1>3, Ended DEF Reap, TypeOK
  <2>3. TypeOK'
    BY <2>1, <2>2 DEF TypeOK, document, pipes, bounds
  <2>4. InStep'
    BY <2>1 DEF InStep
  <2>5. TreeInv'
    BY <2>1 DEF TreeInv, Exchanging, Asking, Replied, document
  <2> QED
    BY <1>1, <2>3, <2>4, <2>5
<1> QED
  BY <1>2, <1>3

LEMMA OpenData ==
  ASSUME IInv, DInv, OpenNothing \/ OpenNative \/ OpenHost
  PROVE  DInv' /\ OfText
<1> USE DEF DInv
<1>1. ui = "open" /\ ~ready /\ syntax = "none"
  BY DEF OpenNothing, OpenNative, OpenHost, IInv, Flags, TreeInv
<1>2. CASE OpenNothing
  <2>1. /\ ui' = "idle" /\ goal' = "nothing"
        /\ UNCHANGED <<document, call, client, host, pipes, bounds>>
    BY <1>2 DEF OpenNothing
  <2>2. TypeOK'
    BY <2>1 DEF TypeOK, document, client, pipes, bounds
  <2>3. InStep' /\ TreeInv' /\ OfText
    BY <1>1, <2>1 DEF InStep, TreeInv, Exchanging, Asking, Replied, OfText, document, client
  <2> QED
    BY <2>2, <2>3
<1>3. CASE OpenNative
  <2>1. /\ ui' = "idle" /\ goal' = "nothing" /\ syntax' = "native" /\ tree' = TreeOf(text)
        /\ UNCHANGED shown \/ shown' = TreeOf(text)
        /\ UNCHANGED <<text, listed, call, client, host, pipes, bounds>>
    BY <1>3 DEF OpenNative
  <2>2. TreeOf(text) \in Trees /\ Fits(TreeOf(text), text)
    BY TreeOfFits DEF TypeOK
  <2>3. TypeOK'
    <3>1. shown' \in Trees /\ tree' \in Trees
      BY <2>1, <2>2 DEF TypeOK
    <3> QED
      BY <1>1, <2>1, <3>1 DEF TypeOK, Grammars, client, pipes, bounds
  <2>4. InStep' /\ TreeInv' /\ OfText
    BY <1>1, <2>1, <2>2 DEF InStep, TreeInv, Exchanging, Asking, Replied, OfText, client
  <2> QED
    BY <2>3, <2>4
<1>4. CASE OpenHost
  <2>1. /\ launched' = TRUE /\ input' = TRUE
        /\ host' = FreshHost /\ requests' = <<>> /\ answers' = <<>>
        /\ ui' = "header" /\ goal' = "nothing"
        /\ call' = [command |-> "configure", edit |-> NoEdit, ok |-> FALSE]
        /\ UNCHANGED <<document, ready, bounds>>
    BY <1>4 DEF OpenHost, Ask
  <2>2. host' \in Hosts /\ host'.tree = NoTree
    BY <2>1, FreshType
  <2>3. /\ call' \in [command : Commands, edit : Edits, ok : BOOLEAN]
        /\ call'.command = "configure"
    BY <2>1, PartTypes DEF Commands
  <2>4. /\ answers' \in Seq(Replies \cup Results \cup {Noise})
        /\ requests' \in Seq(Headers \cup Payloads)
    BY <2>1, EmptySeq
  <2>5. TypeOK'
    BY <2>1, <2>2, <2>3, <2>4 DEF TypeOK, document, bounds
  <2>6. InStep'
    BY <2>1 DEF InStep
  <2>7. TreeInv' /\ OfText
    BY <1>1, <2>1, <2>2, <2>3
    DEF TreeInv, Exchanging, Asking, Replied, Queries, OfText, document
  <2> QED
    BY <2>5, <2>6, <2>7
<1> QED
  BY <1>2, <1>3, <1>4

(* A change of the text, of which the edit gives an account.               *)
LEMMA ModifyData ==
  ASSUME IInv, DInv, NEW edit, NEW after \in Seq(Chars), Accounts(edit, text, after),
         Modify(edit, after)
  PROVE  DInv' /\ OfText
<1> USE DEF DInv
<1>1. /\ ui = "idle" /\ edits' \in 0 .. MaxEdits /\ text' = after
      /\ UNCHANGED <<listed, goal, host, pipes, opens>>
  BY BoundsAssumption DEF Modify, TypeOK
<1>2. /\ edit \in Edits
      /\ \A t \in Trees : Fits(t, text) => /\ TreeEdit(t, edit) \in Trees
                                           /\ Fits(TreeEdit(t, edit), after)
  BY DEF Accounts
<1>3. tree \in Trees /\ shown \in Trees /\ host.tree \in Trees
  BY DEF TypeOK, Hosts
<1>4. CASE ReparseNative(edit, after)
  <2>1. /\ syntax = "native" /\ UNCHANGED <<syntax, ui, call, client>>
        /\ \/ /\ tree' = Reparsed(TreeEdit(tree, edit), after)
              /\ UNCHANGED shown \/ shown' = tree'
           \/ tree' = TreeEdit(tree, edit) /\ UNCHANGED shown
    BY <1>4 DEF ReparseNative
  <2>2. TreeEdit(tree, edit) \in Trees /\ Fits(TreeEdit(tree, edit), after)
    BY <1>2, <1>3, <2>1 DEF TreeInv
  <2>3. /\ Reparsed(TreeEdit(tree, edit), after) \in Trees
        /\ Fits(Reparsed(TreeEdit(tree, edit), after), after)
    BY <2>2, ReparsedFits
  <2>4. tree' \in Trees /\ Fits(tree', text') /\ shown' \in Trees
        /\ (shown' # shown => shown' = tree')
    BY <1>1, <1>3, <2>1, <2>2, <2>3
  <2>5. TypeOK'
    BY <1>1, <2>1, <2>4 DEF TypeOK, client, pipes
  <2>6. InStep' /\ TreeInv' /\ OfText
    BY <1>1, <2>1, <2>4 DEF InStep, TreeInv, Exchanging, Asking, Replied, OfText, client
  <2> QED
    BY <2>5, <2>6
<1>5. CASE ReparseHosted(edit, after)
  <2>1. syntax = "wasm" /\ UNCHANGED <<tree, shown, launched>>
    BY <1>5 DEF ReparseHosted
  <2>2. OfText
    BY <1>1, <2>1 DEF OfText
  <2>3. CASE ready /\ Len(after) <= MaxBytes
    <3>1. /\ ui' = "header" /\ call' = [command |-> "parse", edit |-> edit, ok |-> FALSE]
          /\ UNCHANGED <<ready, input, syntax>>
      BY <1>5, <2>3 DEF ReparseHosted, Ask
    <3>2. /\ call' \in [command : Commands, edit : Edits, ok : BOOLEAN]
          /\ call'.command = "parse" /\ call'.edit = edit
      BY <1>2, <3>1 DEF Commands
    <3>3. TypeOK'
      BY <1>1, <2>1, <3>1, <3>2 DEF TypeOK, pipes
    <3>4. InStep'
      BY <3>1 DEF InStep
    <3>5. Editable'
      BY <1>1, <1>2, <1>3, <2>3, <3>2 DEF TreeInv, Whole, Editable
    <3>6. TreeInv'
      BY <2>1, <3>1, <3>2, <3>5 DEF TreeInv, Exchanging, Replied, Queries
    <3> QED
      BY <2>2, <3>3, <3>4, <3>6
  <2>4. CASE ~(ready /\ Len(after) <= MaxBytes)
    <3>1. /\ ui' \in {"quit", "wait"} /\ (ui' = "wait" => ~ready) /\ ready' = ready
          /\ input' = ready /\ syntax' = "none" /\ UNCHANGED call
      BY <1>5, <2>4 DEF ReparseHosted, Stop
    <3>2. TypeOK'
      BY <1>1, <2>1, <3>1 DEF TypeOK, pipes, Grammars
    <3>3. InStep'
      BY <1>1, <3>1 DEF InStep, IInv, Flags
    <3>4. TreeInv'
      BY <3>1 DEF TreeInv, Exchanging, Asking, Replied
    <3> QED
      BY <2>2, <3>2, <3>3, <3>4
  <2> QED
    BY <2>3, <2>4
<1>6. CASE syntax = "none" /\ UNCHANGED <<shown, syntax, tree, ui, call, client>>
  <2>1. TypeOK'
    BY <1>1, <1>6 DEF TypeOK, client, pipes
  <2>2. InStep' /\ TreeInv' /\ OfText
    BY <1>1, <1>6 DEF InStep, TreeInv, Exchanging, Asking, Replied, OfText, client
  <2> QED
    BY <2>1, <2>2
<1> QED
  BY <1>4, <1>5, <1>6 DEF Modify

LEMMA UserData ==
  ASSUME IInv, DInv, User
  PROVE  DInv' /\ OfText
<1> USE DEF DInv
<1>1. text \in Seq(Chars) /\ tree \in Trees
  BY DEF TypeOK
<1>2. CASE \E g \in Grammars : Choose(g)
  <2>1. PICK g \in Grammars : Choose(g)
    BY <1>2
  <2>2. /\ ui = "idle" /\ goal' = g /\ opens' \in 0 .. MaxOpens /\ tree' = NoTree
        /\ UNCHANGED <<text, shown, listed, call, launched, host, pipes, edits>>
    BY <2>1, BoundsAssumption DEF Choose, TypeOK
  <2>3. /\ ui' \in {"quit", "wait", "open"} /\ (ui' = "wait" => ~ready) /\ ready' = ready
        /\ input' \in {ready, input} /\ syntax' = "none"
    BY <2>1 DEF Choose, Stop
  <2>4. ready => launched
    BY DEF IInv, Flags
  <2>5. NoTree \in Trees
    BY PartTypes
  <2>6. TypeOK'
    BY <2>2, <2>3, <2>4, <2>5 DEF TypeOK, pipes, Grammars
  <2>7. InStep'
    BY <2>2, <2>3 DEF InStep, IInv, Flags
  <2>8. TreeInv' /\ OfText
    BY <2>2, <2>3 DEF TreeInv, Exchanging, Asking, Replied, OfText
  <2> QED
    BY <2>6, <2>7, <2>8
<1>3. CASE \E at \in 0 .. Len(text), s \in Segments : Insert(at, s)
  <2>1. PICK at \in 0 .. Len(text), s \in Segments : Insert(at, s)
    BY <1>3
  <2>2. s \in Seq(Chars) /\ s # <<>>
    <3>1. PICK n \in 1 .. MaxLength : s \in [1 .. n -> Chars]
      BY DEF Segments
    <3>2. n \in Nat /\ n >= 1
      BY BoundsAssumption
    <3>3. s \in Seq(Chars) /\ DOMAIN s = 1 .. n /\ 1 \in DOMAIN s
      BY <3>1, <3>2, SeqDef
    <3> QED
      BY <3>3
  <2>3. Modify(EditOf(TRUE, at, s, Inserted(text, at, s)), Inserted(text, at, s))
    BY <2>1 DEF Insert
  <2> QED
    BY <1>1, <2>2, <2>3, InsertAccounts, ModifyData
<1>4. CASE \E at \in 0 .. Len(text) - 1 : \E length \in 1 .. Len(text) - at : Delete(at, length)
  <2>1. PICK at \in 0 .. Len(text) - 1 : \E length \in 1 .. Len(text) - at : Delete(at, length)
    BY <1>4
  <2>2. PICK length \in 1 .. Len(text) - at : Delete(at, length)
    BY <2>1
  <2>3. Modify(EditOf(FALSE, at, SubSeq(text, at + 1, at + length), Deleted(text, at, length)),
               Deleted(text, at, length))
    BY <2>2 DEF Delete
  <2> QED
    BY <1>1, <2>3, DeleteAccounts, ModifyData
<1>5. ASSUME NEW command \in Commands \ {"configure", "parse"}, Ask(command, NoEdit), ui = "idle",
             syntax = "wasm", ready, UNCHANGED <<document, goal, client, host, pipes, bounds>>
      PROVE  DInv' /\ OfText
  <2>1. /\ call' \in [command : Commands, edit : Edits, ok : BOOLEAN]
        /\ call'.command \in Queries /\ ui' = "header"
    BY <1>5, PartTypes DEF Ask, Commands, Queries
  <2>2. TypeOK'
    BY <1>5, <2>1 DEF TypeOK, document, client, pipes, bounds
  <2>3. InStep' /\ OfText
    BY <1>5, <2>1 DEF InStep, OfText, document
  <2>4. Whole'
    BY <1>5 DEF TreeInv, Whole, document
  <2>5. TreeInv'
    BY <1>5, <2>1, <2>4 DEF TreeInv, Exchanging, Replied, Queries, document, client
  <2> QED
    BY <2>2, <2>3, <2>5
<1>6. CASE Redraw
  <2>1. CASE syntax = "wasm" /\ ready
    <3>1. Ask("highlights", NoEdit) /\ UNCHANGED shown
      BY <1>6, <2>1 DEF Redraw, Style
    <3> QED
      BY <1>5, <1>6, <2>1, <3>1 DEF Redraw, Commands, document
  <2>2. CASE ~(syntax = "wasm" /\ ready)
    <3>1. /\ ui = "idle" /\ shown' = IF syntax = "native" THEN tree ELSE Plain
          /\ UNCHANGED <<ui, call, text, listed, syntax, tree, goal, client, host, pipes, bounds>>
      BY <1>6, <2>2 DEF Redraw
    <3>2. shown' \in Trees
      BY <1>1, <3>1, PartTypes
    <3>3. TypeOK'
      BY <3>1, <3>2 DEF TypeOK, client, pipes, bounds
    <3>4. InStep'
      BY <3>1 DEF InStep
    <3>5. TreeInv'
      BY <3>1 DEF TreeInv, Exchanging, Asking, Replied, Whole, client
    <3>6. OfText
      BY <3>1 DEF TreeInv, OfText
    <3> QED
      BY <3>3, <3>4, <3>5, <3>6
  <2> QED
    BY <2>1, <2>2
<1>7. CASE ListSymbols
  <2>1. CASE syntax = "wasm" /\ ready /\ Ask("symbols", NoEdit) /\ UNCHANGED listed
    BY <1>5, <1>7, <2>1 DEF ListSymbols, Commands, document
  <2>2. CASE syntax = "native" /\ listed' = Result(tree, text) /\ UNCHANGED <<ui, call>>
    <3>1. /\ ui = "idle"
          /\ UNCHANGED <<text, shown, syntax, tree, goal, client, host, pipes, bounds>>
      BY <1>7 DEF ListSymbols
    <3>2. listed' \in Results /\ listed'.tree = tree /\ listed'.source = text
      BY <1>1, <2>2, PartTypes DEF Result
    <3>3. TypeOK'
      BY <2>2, <3>1, <3>2 DEF TypeOK, client, pipes, bounds
    <3>4. InStep' /\ OfText
      BY <2>2, <3>1, <3>2 DEF InStep, TreeInv, OfText
    <3>5. TreeInv'
      BY <2>2, <3>1 DEF TreeInv, Exchanging, Asking, Replied, Whole, client
    <3> QED
      BY <3>3, <3>4, <3>5
  <2> QED
    BY <1>7, <2>1, <2>2 DEF ListSymbols
<1> QED
  BY <1>2, <1>3, <1>4, <1>6, <1>7 DEF User

-----------------------------------------------------------------------------
(* The host: what it does, it does for the exchange in progress.           *)

LEMMA Occupied ==
  ASSUME IInv, InStep, host.alive
  PROVE  /\ host.at = "header" /\ requests # <<>>
              => \/ ui \in {"payload", "answer"} /\ HeaderSent
                 \/ ui = "wait" /\ requests = <<Header("quit")>>
         /\ host.at = "payload" /\ requests # <<>> => ui = "answer" /\ PayloadSent
         /\ host.at \in {"work", "reply"} => ui = "answer" /\ Working
         /\ host.at = "result" /\ answers = <<>> => ui = "result"
<1>1. ui \in {"payload", "answer", "result"}
      \/ (AtRest /\ ui # "wait") \/ (ui = "wait" /\ host.at = "header")
  BY DEF IInv, Flags, Conversation, InStep
<1>2. ui = "wait" => host.at = "header" /\ requests \in {<<>>, <<Header("quit")>>}
  BY DEF InStep
<1>3. answers = <<host.reply>> => answers # <<>>
  BY OnePart
<1> QED
  BY <1>1, <1>2, <1>3 DEF IInv, Conversation, AtRest, HeaderSent, HeaderRead, PayloadSent, Working,
     Answered, ResultDue, ResultSent

LEMMA EndData ==
  ASSUME IInv, DInv, host' = [host EXCEPT !.alive = FALSE],
         UNCHANGED <<document, ui, call, goal, client, answers, bounds>>,
         UNCHANGED requests \/ (requests' = <<>> /\ ui = "wait")
  PROVE  DInv' /\ OfText
<1> USE DEF DInv
<1>1. /\ host' \in Hosts /\ ~host'.alive
      /\ UNCHANGED <<host.at, host.command, host.payload, host.configured,
                     host.tree, host.source, host.reply>>
  BY Ended DEF TypeOK
<1>2. requests' \in Seq(Headers \cup Payloads)
  BY EmptySeq DEF TypeOK
<1>3. TypeOK'
  BY <1>1, <1>2 DEF TypeOK, document, client, bounds
<1>4. InStep'
  BY <1>1 DEF InStep, Sent, document
<1>5. TreeInv' /\ OfText
  BY <1>1 DEF TreeInv, Exchanging, Asking, Replied, Whole, Editable, OfText, document, client
<1> QED
  BY <1>3, <1>4, <1>5

LEMMA HostReadData ==
  ASSUME IInv, DInv, HostReads \/ HostReadsPayload \/ HostSeesEnd
  PROVE  DInv' /\ OfText
<1> USE DEF DInv
<1>1. host \in Hosts /\ call.command \in Commands
  BY DEF TypeOK
<1>2. CASE HostReads
  <2>1. /\ host.alive /\ host.at = "header" /\ requests # <<>>
        /\ UNCHANGED <<document, ui, call, goal, client, answers, bounds>>
    BY <1>2 DEF HostReads
  <2>2. CASE ui = "wait" /\ requests = <<Header("quit")>>
    <3>1. Head(requests) = Header("quit") /\ requests' = <<>>
      BY <1>2, <2>2, OnePart DEF HostReads
    <3>2. Head(requests).command = "quit"
      BY <3>1 DEF Header
    <3>3. host' = [host EXCEPT !.alive = FALSE]
      BY <1>2, <3>2 DEF HostReads
    <3> QED
      BY <2>1, <2>2, <3>1, <3>3, EndData
  <2>3. CASE ui \in {"payload", "answer"} /\ HeaderSent
    <3>1. Head(requests) = Header(call.command) /\ requests' = <<>>
      BY <1>2, <2>3, OnePart DEF HeaderSent, HostReads
    <3>2. Head(requests).command = call.command /\ call.command # "quit"
      BY <1>1, <3>1 DEF Header, Commands
    <3>3. host' = [host EXCEPT !.command = call.command,
                               !.at = IF HasPayload(call.command) THEN "payload" ELSE "work"]
      BY <1>2, <3>2 DEF HostReads
    <3>4. /\ host' \in Hosts /\ host'.command = call.command
          /\ host'.at = IF HasPayload(call.command) THEN "payload" ELSE "work"
          /\ host'.tree = host.tree /\ host'.source = host.source /\ host'.alive
          /\ host'.reply = host.reply
      BY <1>1, <2>1, <3>3 DEF Hosts
    <3>5. TypeOK'
      BY <2>1, <3>1, <3>4, EmptySeq DEF TypeOK, document, client, bounds
    <3>6. InStep'
      BY <2>1, <2>3, <3>1, <3>4 DEF InStep
    <3>7. ui = "answer" => ~HasPayload(call.command)
      BY <2>3 DEF IInv, Conversation, PayloadSent, Working, Answered, HeaderSent
    <3>8. TreeInv' /\ OfText
      BY <2>1, <2>3, <3>1, <3>4, <3>7
      DEF TreeInv, Exchanging, Asking, Replied, Whole, Editable, OfText, document, client
    <3> QED
      BY <3>5, <3>6, <3>8
  <2> QED
    BY <2>1, <2>2, <2>3, Occupied
<1>3. CASE HostReadsPayload
  <2>1. /\ host.alive /\ host.at = "payload" /\ requests # <<>> /\ requests' = Tail(requests)
        /\ host' = [host EXCEPT !.payload = Head(requests), !.at = "work"]
        /\ UNCHANGED <<document, ui, call, goal, client, answers, bounds>>
    BY <1>3 DEF HostReadsPayload
  <2>2. ui = "answer"
    BY <2>1, Occupied
  <2>3. requests = <<Sent>> /\ host.command = call.command
    BY <2>1, <2>2 DEF InStep
  <2>4. requests' = <<>> /\ Head(requests) = Sent
    BY <2>1, <2>3, OnePart
  <2>5. Sent \in Payloads
    BY PartTypes, EmptySeq DEF Sent, TypeOK
  <2>6. /\ host' \in Hosts /\ host'.command = call.command /\ host'.at = "work"
        /\ host'.payload = Sent /\ host'.tree = host.tree /\ host'.source = host.source
        /\ host'.alive /\ host'.reply = host.reply
    BY <1>1, <2>1, <2>3, <2>4, <2>5 DEF Hosts
  <2>7. TypeOK'
    BY <2>1, <2>4, <2>6, EmptySeq DEF TypeOK, document, client, bounds
  <2>8. InStep'
    BY <2>1, <2>2, <2>4, <2>6 DEF InStep, Sent, document
  <2>9. TreeInv' /\ OfText
    BY <2>1, <2>2, <2>4, <2>6
    DEF TreeInv, Exchanging, Asking, Replied, Whole, Editable, OfText, document, client
  <2> QED
    BY <2>7, <2>8, <2>9
<1>4. CASE HostSeesEnd
  BY <1>4, EndData DEF HostSeesEnd, pipes
<1> QED
  BY <1>2, <1>3, <1>4

(* What the work on a request leaves, and what the answer to it says.      *)
LEMMA WorkData ==
  ASSUME IInv, DInv, HostWorks
  PROVE  DInv' /\ OfText
<1> USE DEF DInv
<1>1. /\ host.alive /\ host.at = "work"
      /\ UNCHANGED <<document, ui, call, goal, client, requests, answers, bounds>>
  BY DEF HostWorks, pipes
<1>2. /\ ui = "answer" /\ requests = <<>> /\ host.command = call.command
      /\ (HasPayload(call.command) => host.payload = Sent)
  BY <1>1, Occupied DEF InStep, Working
<1>3. /\ host \in Hosts /\ call.command \in Commands /\ text \in Seq(Chars)
      /\ call.edit \in Edits /\ host.tree \in Trees
  BY DEF TypeOK, Hosts
<1>4. ASSUME host' \in Hosts, host'.alive, host'.at = "reply",
             call.command = "configure" => host'.tree = NoTree,
             call.command \in Queries => UNCHANGED <<host.tree, host.source>>,
             call.command = "parse" /\ host'.reply.ok
               => Fits(host'.tree, text) /\ host'.source = text,
             host'.reply.more => call.command \in Queries /\ host'.tree # NoTree
      PROVE  DInv' /\ OfText
  <2>1. TypeOK'
    BY <1>1, <1>4 DEF TypeOK, document, client, bounds
  <2>2. InStep'
    BY <1>1, <1>2, <1>4 DEF InStep
  <2>3. TreeInv' /\ OfText
    BY <1>1, <1>2, <1>4
    DEF TreeInv, Exchanging, Asking, Replied, Whole, OfText, document, client
  <2> QED
    BY <2>1, <2>2, <2>3
<1>5. ASSUME NEW reply \in Replies, host.command = "configure", Configure(reply)
      PROVE  DInv' /\ OfText
  <2>1. PICK parser \in BOOLEAN :
          host' = [host EXCEPT !.configured = parser, !.tree = NoTree, !.source = <<>>,
                               !.reply = reply, !.at = "reply"]
    BY <1>5 DEF Configure
  <2>2. ~reply.more /\ <<>> \in Seq(Chars) /\ NoTree \in Trees
    BY <1>5, PartTypes, EmptySeq DEF Configure
  <2>3. /\ host' \in Hosts /\ host'.alive /\ host'.at = "reply" /\ host'.tree = NoTree
        /\ host'.reply = reply
    BY <1>1, <1>3, <2>1, <2>2 DEF Hosts
  <2> QED
    BY <1>2, <1>4, <1>5, <2>2, <2>3 DEF Queries
<1>6. ASSUME NEW reply \in Replies, host.command = "parse", Parse(reply)
      PROVE  DInv' /\ OfText
  <2> DEFINE incremental == IsIncremental(call.edit) /\ host.tree # NoTree
             edited == IF incremental THEN TreeEdit(host.tree, call.edit) ELSE host.tree
             next   == IF incremental THEN Reparsed(edited, text) ELSE TreeOf(text)
  <2>1. call.command = "parse" /\ host.payload.text = text /\ host.payload.edit = call.edit
    BY <1>2, <1>6 DEF HasPayload, Sent, Payload
  <2>2. /\ ~reply.more /\ (reply.ok => host.configured)
        /\ host' = IF host.configured
                   THEN [host EXCEPT !.source = text, !.reply = reply, !.at = "reply",
                                     !.tree = IF reply.ok THEN next ELSE edited]
                   ELSE [host EXCEPT !.reply = reply, !.at = "reply"]
    BY <1>6, <2>1 DEF Parse
  <2>3. Asking /\ Editable
    BY <1>1, <1>2, <2>1 DEF TreeInv, Asking
  <2>4. /\ edited \in Trees
        /\ incremental => Fits(edited, text)
    BY <1>3, <2>3 DEF Editable
  <2> HIDE DEF incremental, edited
  <2>5. next \in Trees /\ Fits(next, text)
    BY <1>3, <2>4, TreeOfFits, ReparsedFits
  <2> HIDE DEF next
  <2>6. /\ host' \in Hosts /\ host'.alive /\ host'.at = "reply" /\ host'.reply = reply
        /\ reply.ok => host'.tree = next /\ host'.source = text
    <3>1. CASE host.configured
      BY <1>1, <1>3, <2>2, <2>4, <2>5, <3>1 DEF Hosts
    <3>2. CASE ~host.configured
      BY <1>1, <1>3, <2>2, <3>2 DEF Hosts
    <3> QED
      BY <3>1, <3>2
  <2> QED
    BY <1>4, <2>1, <2>2, <2>5, <2>6 DEF Queries
<1>7. ASSUME NEW reply \in Replies, host.command \in {"highlights", "symbols"}, Query(reply)
      PROVE  DInv' /\ OfText
  <2>1. /\ host' \in Hosts /\ host'.alive /\ host'.at = "reply" /\ host'.reply = reply
        /\ host'.tree = host.tree /\ host'.source = host.source
        /\ (reply.more => host.tree # NoTree)
    BY <1>1, <1>3, <1>7 DEF Query, Hosts
  <2> QED
    BY <1>2, <1>4, <1>7, <2>1 DEF Queries
<1> QED
  BY <1>5, <1>6, <1>7, PartTypes DEF HostWorks

LEMMA HostAnswerData ==
  ASSUME IInv, DInv, HostAnswers \/ HostSendsResult \/ HostComplains \/ HostDies
  PROVE  DInv' /\ OfText
<1> USE DEF DInv
<1>1. host \in Hosts
  BY DEF TypeOK
<1>2. CASE HostAnswers
  <2>1. /\ host.alive /\ host.at = "reply" /\ answers' = <<host.reply>>
        /\ host' = [host EXCEPT !.at = IF host.reply.more THEN "result" ELSE "header"]
        /\ UNCHANGED <<document, ui, call, goal, client, requests, bounds>>
    BY <1>2 DEF HostAnswers
  <2>2. ui = "answer" /\ requests = <<>>
    BY <2>1, Occupied DEF Working
  <2>3. /\ host' \in Hosts /\ host'.alive /\ host'.at \in {"result", "header"}
        /\ UNCHANGED <<host.tree, host.source, host.reply>> /\ host.reply \in Replies
    BY <1>1, <2>1 DEF Hosts
  <2>4. answers' \in Seq(Replies \cup Results \cup {Noise})
    BY <2>1, <2>3
  <2>5. TypeOK'
    BY <2>1, <2>3, <2>4 DEF TypeOK, document, client, bounds
  <2>6. InStep'
    BY <2>1, <2>2, <2>3 DEF InStep
  <2>7. TreeInv' /\ OfText
    BY <2>1, <2>2, <2>3
    DEF TreeInv, Exchanging, Asking, Replied, Whole, OfText, document, client
  <2> QED
    BY <2>5, <2>6, <2>7
<1>3. CASE HostSendsResult
  <2>1. /\ host.alive /\ host.at = "result" /\ answers = <<>>
        /\ answers' = <<Result(host.tree, host.source)>>
        /\ host' = [host EXCEPT !.at = "header"]
        /\ UNCHANGED <<document, ui, call, goal, client, requests, bounds>>
    BY <1>3 DEF HostSendsResult
  <2>2. ui = "result"
    BY <2>1, Occupied
  <2>3. /\ host' \in Hosts /\ host'.at = "header"
        /\ UNCHANGED <<host.alive, host.tree, host.source, host.reply>>
        /\ host.tree \in Trees /\ host.source \in Seq(Chars)
    BY <1>1, <2>1 DEF Hosts
  <2>4. answers' \in Seq(Replies \cup Results \cup {Noise})
    <3>1. Result(host.tree, host.source) \in Results
      BY <2>3, PartTypes
    <3> QED
      BY <2>1, <3>1
  <2>5. TypeOK'
    BY <2>1, <2>3, <2>4 DEF TypeOK, document, client, bounds
  <2>6. InStep'
    BY <2>1, <2>2, <2>3 DEF InStep
  <2>7. TreeInv' /\ OfText
    BY <2>1, <2>2, <2>3
    DEF TreeInv, Exchanging, Asking, Replied, Whole, OfText, document, client
  <2> QED
    BY <2>5, <2>6, <2>7
<1>4. CASE HostComplains
  <2>1. /\ host.alive /\ host.at = "work" /\ answers' = <<Noise>>
        /\ UNCHANGED <<document, ui, call, goal, client, host, requests, bounds>>
    BY <1>4 DEF HostComplains
  <2>2. ui = "answer"
    BY <2>1, Occupied
  <2>3. answers' \in Seq(Replies \cup Results \cup {Noise})
    BY <2>1
  <2>4. TypeOK'
    BY <2>1, <2>3 DEF TypeOK, document, client, bounds
  <2>5. InStep'
    BY <2>1, <2>2 DEF InStep, Sent, document
  <2>6. TreeInv' /\ OfText
    BY <2>1, <2>2
    DEF TreeInv, Exchanging, Asking, Replied, Whole, Editable, OfText, document, client
  <2> QED
    BY <2>4, <2>5, <2>6
<1>5. CASE HostDies
  BY <1>5, EndData DEF HostDies, pipes
<1> QED
  BY <1>2, <1>3, <1>4, <1>5

LEMMA StepDInv == IInv /\ DInv /\ [Next]_vars => DInv' /\ OfText
<1>1. IInv /\ DInv /\ UNCHANGED vars => DInv' /\ OfText
  BY DEF vars, document, client, pipes, bounds, DInv, TypeOK, InStep, TreeInv, Exchanging, Asking,
     Replied, Whole, Editable, Sent, OfText
<1> QED
  BY <1>1, SendData, ReadAnswerData, ReadResultData, GiveUpData, CloseData, OpenData, UserData,
     HostReadData, WorkData, HostAnswerData DEF Next, UiStep, HostStep

LEMMA DataInvariance == Spec => []DInv
<1>1. Init => IInv /\ DInv
  BY InitIInv, InitDInv
<1>2. (IInv /\ DInv) /\ [Next]_vars => (IInv /\ DInv)'
  BY StepIInv, StepDInv
<1> QED
  BY <1>1, <1>2, PTL DEF Spec

(* SyntaxHost.tla's variables keep their types; a client that is ready, or *)
(* that colours the document, has a process (wasm_syntax_client.cpp:36).   *)
THEOREM TypeCorrect == Spec => []TypeOK
<1>1. DInv => TypeOK
  BY DEF DInv
<1> QED
  BY <1>1, DataInvariance, PTL

(* main.cpp:1745, main.cpp:1672: what a step shows or lists is taken from  *)
(* a tree of the text the editor then holds, whatever edits, failed parses *)
(* and changes of the language came before, for every alphabet.            *)
THEOREM SpansAreOfText == Spec => AnswersAreOfText
<1>1. IInv /\ DInv /\ [Next]_vars
        => [/\ shown' # shown => shown' = Plain \/ Fits(shown', text')
            /\ listed' # listed => \/ listed' = Result(Plain, <<>>)
                                   \/ Fits(listed'.tree, text') /\ listed'.source = text']_vars
  BY StepDInv DEF OfText
<1> QED
  BY <1>1, Invariance, DataInvariance, PTL DEF Spec, AnswersAreOfText
=============================================================================
