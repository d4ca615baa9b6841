----------------------------- MODULE ChatStream -----------------------------
(***************************************************************************)
(* The chat overlay (internal/app/chat.go): a question is answered in two  *)
(* stages, each a stream of tokens from the language model, and /model may *)
(* pull a model meanwhile (the puller is shared with the extraction).      *)
(*                                                                         *)
(* One event loop handles the messages; commands run beside it and post    *)
(* one message each. No message names its question or its stream, so what *)
(* a command posts late is taken for what the loop is doing by then.       *)
(*                                                                         *)
(* ChatStream of the client never returns an error itself (errors come     *)
(* through the channel): the branches for that are not modelled.           *)
(***************************************************************************)
EXTENDS Naturals, FiniteSets, SequencesExt

CONSTANTS
    Models,         \* names the user may give to /model
    ExtractionModel,
    MaxAsks,        \* BOUND: questions
    MaxTokens,      \* BOUND: content chunks of a stream, progress lines of a pull
    MaxPulls        \* BOUND: switches and checks of a model

ASSUME ChatAssumption ==
    MaxAsks \in Nat /\ MaxTokens \in Nat /\ MaxPulls \in Nat

VARIABLES
    chat,           \* chatState: the flags, the channels, the cancel function
    messages,       \* chatState.Messages
    streams,        \* the streams opened so far, as their producers see them
    waits,          \* waits[s]: commands reading stream s
    running,        \* the other commands
    inbox,          \* chunks posted to the event loop, in no order
    pull, pulls,    \* m.pull, and the pulls opened so far
    model,          \* the model of the chat client
    asked,          \* questions asked so far: they are numbered
    interrupted,    \* HISTORY: the questions cancelled by the user
    chosen          \* HISTORY: names given to /model, or that it could be mixed with

fetch == <<pull, pulls, model, chosen>>
vars  == <<chat, messages, streams, waits, running, inbox, pull, pulls, model,
           asked, interrupted, chosen>>

None == 0           \* no stream, no pull: a nil channel or function

Notices == {"generating", "falling back", "interrupted", "notice"}

Says(role, q) == [role |-> role, of |-> q, sql |-> {}, text |-> {}]
IsNotice(m)   == m.role \in Notices

WithoutLastNotice(ms) ==
    LET i == SelectLastInSeq(ms, IsNotice)
    IN  IF i = 0 THEN ms ELSE RemoveAt(ms, i)

EndsIn(ms, role) == ms # <<>> /\ Last(ms).role = role
Trimmed(ms, role) == IF EndsIn(ms, role) THEN Front(ms) ELSE ms

\* replaceAssistantWithError, after the notice it follows is removed
Failed(ms) ==
    Append(Trimmed(WithoutLastNotice(ms), "assistant"), Says("error", 0))

\* A token goes to the last message if that is an answer, else it is lost.
WithToken(ms, field, q) ==
    IF EndsIn(ms, "assistant")
    THEN [ms EXCEPT ![Len(ms)][field] = @ \cup {q}]
    ELSE ms

-----------------------------------------------------------------------------
(* Streams: a goroutine forwards chunks until a last one, an error, or the *)
(* end of its context - then it closes the channel without a word.         *)

Opened(q, stage) ==
    Append(streams, [of |-> q, stage |-> stage, left |-> MaxTokens,
                     open |-> TRUE, ctx |-> "live"])

NewStream == Len(streams) + 1

Cancels(ss, s) ==
    IF s # None /\ ss[s].open THEN [ss EXCEPT ![s].ctx = "cancelled"] ELSE ss

\* MUTANT: the handler does not ask for the next chunk.
NotWaiting(ws, s) == ws

Waiting(ws, s) == IF s = None THEN ws ELSE [ws EXCEPT ![s] = @ + 1]

\* A waiting command gets the next chunk and posts it.
ReadChunk(s, kind) ==
    /\ waits[s] > 0 /\ streams[s].open
    /\ kind = "text" => streams[s].left > 0
    /\ waits' = [waits EXCEPT ![s] = @ - 1]
    /\ streams' = [streams EXCEPT ![s].open = (kind = "text"),
                                  ![s].left = IF kind = "text" THEN @ - 1 ELSE 0]
    /\ inbox' = inbox \cup {[s |-> s, kind |-> kind, n |-> streams[s].left]}
    /\ UNCHANGED <<chat, messages, running, asked, interrupted, fetch>>

\* The channel is closed, the stream being over, cancelled, or out of time: the
\* command posts nil and the loop of reads ends.
ReadClosed(s) ==
    /\ waits[s] > 0
    /\ waits' = [waits EXCEPT ![s] = @ - 1]
    /\ streams' = [streams EXCEPT ![s].open = FALSE, ![s].left = 0,
                      ![s].ctx = IF streams[s].open /\ @ = "live" THEN "expired" ELSE @]
    /\ UNCHANGED <<chat, messages, running, inbox, asked, interrupted, fetch>>

-----------------------------------------------------------------------------
(* A question.                                                             *)

MaySend == ~chat.streaming

Ask ==
    /\ chat.visible /\ MaySend /\ asked < MaxAsks
    /\ asked' = asked + 1
    /\ chat' = [chat EXCEPT !.streaming = TRUE]
    /\ messages' = Trimmed(messages, "interrupted")
                   \o <<Says("user", asked'), Says("generating", 0), Says("assistant", asked')>>
    /\ running' = running \cup {[cmd |-> "start", of |-> asked', s |-> None]}
    /\ UNCHANGED <<streams, waits, inbox, interrupted, fetch>>

\* handleSQLStreamStarted: the stream is opened by the command, and the loop
\* learns only now what would cancel it.
StartSQLStream(c) ==
    /\ c \in running /\ c.cmd = "start"
    /\ running' = running \ {c}
    /\ streams' = Opened(c.of, "sql")
    /\ waits' = Append(waits, 1)
    /\ chat' = [chat EXCEPT !.cancel = NewStream, !.sqlCh = NewStream, !.current = c.of]
    /\ UNCHANGED <<messages, inbox, asked, interrupted, fetch>>

\* What the chunk's handler leaves of the conversation when it gives up.
GivesUp(ss, ms) ==
    /\ chat' = [chat EXCEPT !.streaming = FALSE, !.cancel = None, !.sqlCh = ss]
    /\ streams' = Cancels(streams, chat.cancel)
    /\ messages' = Failed(ms)
    /\ UNCHANGED <<waits, running>>

SQLText(c, ms) ==
    /\ c.kind = "text"
    /\ messages' = ms
    /\ waits' = Waiting(waits, chat.sqlCh)
    /\ UNCHANGED <<chat, streams, running>>

\* The query is complete: the last message says what it is, and it is run.
SQLDone(c, ms) ==
    /\ c.kind = "done"
    /\ \/ GivesUp(None, ms)                               \* no SQL in it
       \/ /\ EndsIn(ms, "assistant")
          /\ chat' = [chat EXCEPT !.sqlCh = None]
          /\ messages' = WithoutLastNotice(ms)
          /\ running' = running \cup {[cmd |-> "query", of |-> chat.current, s |-> c.s]}
          /\ UNCHANGED <<streams, waits>>

HandleSQLChunk(c) ==
    /\ c \in inbox /\ streams[c.s].stage = "sql"
    /\ inbox' = inbox \ {c}
    /\ LET ms == WithToken(messages, "sql", streams[c.s].of)
       IN  \/ /\ ~chat.streaming
              /\ UNCHANGED <<chat, messages, streams, waits, running>>
           \/ /\ chat.streaming
              /\ \/ c.kind = "error" /\ GivesUp(chat.sqlCh, messages)
                 \/ SQLText(c, ms)
                 \/ SQLDone(c, ms)
    /\ UNCHANGED <<asked, interrupted, fetch>>

\* MUTANT: the cancel function stays that of the first stage.
KeepsCancel(q, ms) ==
    /\ streams' = Append(streams, Last(Opened(q, "answer")))
    /\ waits' = Append(waits, 1)
    /\ chat' = [chat EXCEPT !.ch = NewStream]
    /\ messages' = ms

\* The second stage has its own stream and takes over the cancel function.
SecondStage(q, ms) ==
    /\ streams' = Append(Cancels(streams, chat.cancel), Last(Opened(q, "answer")))
    /\ waits' = Append(waits, 1)
    /\ chat' = [chat EXCEPT !.ch = NewStream, !.cancel = NewStream]
    /\ messages' = ms

\* handleSQLResult: the rows are summarised, or all data is sent instead.
HandleSQLResult(c) ==
    /\ c \in running /\ c.cmd = "query"
    /\ running' = running \ {c}
    /\ \/ SecondStage(c.of, WithoutLastNotice(messages))
       \/ SecondStage(c.of, WithoutLastNotice(messages)
                            \o <<Says("falling back", 0), Says("assistant", c.of)>>)
    /\ UNCHANGED <<inbox, asked, interrupted, fetch>>

HandleChatChunk(c) ==
    /\ c \in inbox /\ streams[c.s].stage = "answer"
    /\ inbox' = inbox \ {c}
    /\ LET ms == WithToken(messages, "text", streams[c.s].of)
       IN  \/ /\ ~chat.streaming
              /\ UNCHANGED <<chat, messages, waits>>
           \/ /\ chat.streaming /\ c.kind = "text"
              /\ messages' = ms
              /\ waits' = Waiting(waits, chat.ch)
              /\ UNCHANGED chat
           \/ /\ chat.streaming /\ c.kind # "text"
              /\ chat' = [chat EXCEPT !.streaming = FALSE, !.cancel = None]
              /\ messages' = IF c.kind = "done" THEN ms
                             ELSE Append(messages, Says("error", 0))
              /\ UNCHANGED waits
    /\ UNCHANGED <<streams, running, asked, interrupted, fetch>>

-----------------------------------------------------------------------------
(* Pulling a model.                                                        *)

NoPull == [active |-> FALSE, fromChat |-> FALSE, cancel |-> None]
Pulling == {c \in running : c.cmd \in {"check", "pull"}}

\* cmdSwitchModel: the check is not yet a pull, so another one may start.
SwitchModel(name) ==
    /\ chat.visible /\ Len(pulls) < MaxPulls
    /\ pulls' = Append(pulls, [model |-> name, left |-> MaxTokens, open |-> ~pull.active])
    /\ IF pull.active
       THEN /\ messages' = Append(messages, Says("error", 0))
            /\ UNCHANGED <<pull, running, chosen>>
       ELSE /\ pull' = [pull EXCEPT !.fromChat = TRUE]
            /\ running' = running \cup {[cmd |-> "check", of |-> Len(pulls) + 1, s |-> None]}
            /\ chosen' = chosen \cup {name} \cup {pulls[c.of].model : c \in Pulling}
            /\ UNCHANGED messages
    /\ UNCHANGED <<chat, streams, waits, inbox, model, asked, interrupted>>

\* checkExtractionModelCmd, for a document that waits for its model
CheckExtractionModel ==
    /\ ~pull.active /\ Len(pulls) < MaxPulls
    /\ pulls' = Append(pulls, [model |-> ExtractionModel, left |-> MaxTokens, open |-> TRUE])
    /\ running' = running \cup {[cmd |-> "check", of |-> Len(pulls) + 1, s |-> None]}
    /\ chosen' = IF pull.fromChat THEN chosen \cup {ExtractionModel} ELSE chosen
    /\ UNCHANGED <<chat, messages, streams, waits, inbox, pull, model, asked, interrupted>>

\* handlePullProgress, its three cases
PullFailed ==
    /\ pull' = NoPull
    /\ messages' = IF pull.fromChat THEN Append(messages, Says("error", 0)) ELSE messages
    /\ UNCHANGED model

PullDone(name) ==
    /\ pull' = NoPull
    /\ model' = IF pull.fromChat THEN name ELSE model
    /\ messages' = IF pull.fromChat THEN Append(messages, Says("notice", 0)) ELSE messages

PullGoesOn(p) ==
    /\ pull' = [pull EXCEPT !.active = TRUE, !.cancel = p]
    /\ UNCHANGED <<model, messages>>

\* The model is there, or cannot be found, or its pull begins.
CheckModel(c) ==
    /\ c \in running /\ c.cmd = "check"
    /\ \/ /\ PullFailed \/ PullDone(pulls[c.of].model)
          /\ running' = running \ {c}
          /\ pulls' = [pulls EXCEPT ![c.of].open = FALSE]
       \/ /\ PullGoesOn(c.of)
          /\ running' = (running \ {c}) \cup {[c EXCEPT !.cmd = "pull"]}
          /\ UNCHANGED pulls
    /\ UNCHANGED <<chat, streams, waits, inbox, asked, interrupted, chosen>>

\* A line of the response; the body may have been closed by a cancel.
ReadPull(c) ==
    /\ c \in running /\ c.cmd = "pull"
    /\ \/ /\ PullFailed \/ PullDone(pulls[c.of].model)
          /\ running' = running \ {c}
          /\ pulls' = [pulls EXCEPT ![c.of].open = FALSE]
       \/ /\ pulls[c.of].left > 0
          /\ PullGoesOn(c.of)
          /\ pulls' = [pulls EXCEPT ![c.of].left = @ - 1]
          /\ UNCHANGED running
    /\ UNCHANGED <<chat, streams, waits, inbox, asked, interrupted, chosen>>

-----------------------------------------------------------------------------
(* Cancelling, hiding, showing.                                            *)

Interrupts(ms) ==
    Append(Trimmed(WithoutLastNotice(ms), "assistant"), Says("interrupted", 0))

\* cancelChatOperations, called while the overlay still has its visibility
CancelChatOperations(visibleAfter) ==
    LET stopped == IF chat.streaming /\ chat.visible THEN Interrupts(messages) ELSE messages
    IN  /\ chat' = IF chat.streaming
                   THEN [chat EXCEPT !.streaming = FALSE, !.sqlCh = None, !.ch = None,
                                     !.cancel = None, !.visible = visibleAfter]
                   ELSE [chat EXCEPT !.visible = visibleAfter]
        /\ streams' = IF chat.streaming THEN Cancels(streams, chat.cancel) ELSE streams
        /\ interrupted' = IF chat.streaming THEN interrupted \cup {asked} ELSE interrupted
        /\ messages' = IF pull.active /\ pull.fromChat /\ chat.visible
                       THEN Append(stopped, Says("notice", 0)) ELSE stopped
        /\ pull' = IF pull.active THEN NoPull ELSE pull
        /\ pulls' = IF pull.active /\ pull.cancel # None
                    THEN [pulls EXCEPT ![pull.cancel].open = FALSE] ELSE pulls
        /\ UNCHANGED <<waits, running, inbox, model, asked, chosen>>

Cancel   == (chat.streaming \/ pull.active) /\ CancelChatOperations(chat.visible)
HideChat == chat.visible /\ CancelChatOperations(FALSE)
OpenChat ==
    /\ ~chat.visible
    /\ chat' = [chat EXCEPT !.visible = TRUE]
    /\ UNCHANGED <<messages, streams, waits, running, inbox, asked, interrupted, fetch>>

-----------------------------------------------------------------------------
Init ==
    /\ chat = [visible |-> TRUE, streaming |-> FALSE, sqlCh |-> None, ch |-> None,
               cancel |-> None, current |-> 0]
    /\ messages = <<>> /\ streams = <<>> /\ waits = <<>>
    /\ running = {} /\ inbox = {}
    /\ pull = NoPull /\ pulls = <<>>
    /\ model = "first" /\ chosen = {"first"}
    /\ asked = 0 /\ interrupted = {}

Answers ==
    \/ \E s \in DOMAIN streams :
          ReadClosed(s) \/ \E kind \in {"text", "done", "error"} : ReadChunk(s, kind)
    \/ \E c \in inbox : HandleSQLChunk(c) \/ HandleChatChunk(c)
    \/ \E c \in running :
          StartSQLStream(c) \/ HandleSQLResult(c) \/ CheckModel(c) \/ ReadPull(c)

Next ==
    \/ Ask \/ Cancel \/ HideChat \/ OpenChat
    \/ \E name \in Models : SwitchModel(name)
    \/ CheckExtractionModel
    \/ Answers

Spec == Init /\ [][Next]_vars

-----------------------------------------------------------------------------

\* A question at or after one the user interrupted
Disturbed(q) == \E k \in interrupted : k <= q

\* What an answer shows, its query and its text, was generated for the question
\* it answers - unless one of the two, or one asked before, was interrupted: a
\* late chunk of that one has the next stream read twice at a time, so that a
\* chunk of it may stay behind and reach a third answer.
OwnTokens ==
    \A i \in DOMAIN messages : \A q \in messages[i].sql \cup messages[i].text :
        q = messages[i].of \/ Disturbed(q) \/ Disturbed(messages[i].of)

\* A stream that still produces is the one that ctrl+c would stop: as long as
\* nothing was interrupted before, none runs on unseen until its timeout.
NoOrphans ==
    \A s \in DOMAIN streams :
        streams[s].open /\ streams[s].ctx = "live" /\ waits[s] > 0
        => chat.cancel = s \/ interrupted # {}

\* The chat's model changes only to one that was named in /model, or to the
\* extraction's when the check of that overlapped with such a change.
ModelChosen == model \in chosen

\* The three together: what the chat started stays its own, from question to answer.
OwnAffairs == OwnTokens /\ NoOrphans /\ ModelChosen

\* A question is answered, refused or interrupted: the input is free again,
\* unless a stream went silent at its timeout.
QuestionEnds ==
    chat.streaming ~> (~chat.streaming \/ \E s \in DOMAIN streams : streams[s].ctx = "expired")
=============================================================================
