----------------------------- MODULE Extraction -----------------------------
(***************************************************************************)
(* The extraction pipeline of a document (internal/app/extraction.go): OCR *)
(* and a ping of the model side by side, then the model's operations,      *)
(* staged in a shadow database (internal/extract/shadow.go) and written    *)
(* only when the user accepts. One extraction is in the foreground, others *)
(* run in the background; each message carries the ID of its extraction,   *)
(* but not of the model run it belongs to.                                 *)
(*                                                                         *)
(* A command that delivers one message is one step: it runs and the event  *)
(* loop handles what it posts. A run of the model is what llmExtractCmd    *)
(* starts: its timeout context, its stream, the commands reading it.       *)
(***************************************************************************)
EXTENDS Naturals, FiniteSets, SequencesExt

CONSTANTS
    Saved,          \* documents of the database; the others are yet to be created
    None,           \* no document
    New,            \* stands for a document that is created when accepted
    Plans,          \* steps an extraction has: subsets of {"ocr", "llm"}, not empty
    MaxExtractions, \* BOUND
    MaxRuns         \* BOUND: runs of the model

ASSUME ExtractionAssumption ==
    /\ {New, None} \cap Saved = {} /\ New # None
    /\ \A plan \in Plans : plan \subseteq {"ocr", "llm"} /\ plan # {}
    /\ MaxExtractions \in Nat /\ MaxRuns \in Nat

VARIABLES
    exs,            \* extractionLogState, numbered by ID
    front, shown,   \* m.ex.extraction (0: nil) and its Visible
    back,           \* m.ex.bgExtractions
    runs,           \* the runs of the model
    running,        \* commands that read no stream: OCR, ping
    ready, queued,  \* extractionReady, pendingExtractionDocID
    alive,          \* saved documents that are not soft-deleted
    stored          \* HISTORY: stored[e]: documents that accepting e has created, and
                    \* how often its other operations have been written

display == <<front, shown, back>>
store   == <<alive, stored>>
vars    == <<exs, front, shown, back, runs, running, ready, queued, alive, stored>>

Statuses == {"pending", "running", "done", "failed", "skipped"}
Answer   == {"none", "document", "rows", "both"}   \* what the operations write

Listed(e)  == e = front \/ e \in ToSet(back)      \* findExtraction
Settled(s) == s \in {"done", "failed"}

-----------------------------------------------------------------------------
(* Runs of the model.                                                      *)

\* llmExtractCmd, for an extraction whose context may be cancelled already
NewRun(e, ctx) == [ex |-> e, ctx |-> ctx, at |-> "asked", left |-> 1, readers |-> 0]

\* cancelLLMTimeout
CancelRun(rs, r) ==
    IF r # 0 /\ rs[r].ctx = "live" THEN [rs EXCEPT ![r].ctx = "cancelled"] ELSE rs

\* MUTANT: the extraction is dropped, its context is not cancelled.
CancelNone(rs, es) == rs

\* CancelFn: every run below the extraction's context
CancelAll(rs, es) ==
    [r \in DOMAIN rs |->
        IF rs[r].ex \in es /\ rs[r].ctx = "live" THEN [rs[r] EXCEPT !.ctx = "cancelled"] ELSE rs[r]]

\* Within the bound, leaving room for the runs that follow an OCR
MayRun == Len(runs) + Cardinality({c \in running : c.cmd = "ocr"}) < MaxRuns

\* The extraction after its model step began with run r
Running(x, r) == [x EXCEPT !.llm = "running", !.cancelFn = r]

-----------------------------------------------------------------------------
(* Opening.                                                                *)

Opened(d, plan) ==
    [doc |-> d, ocr |-> IF "ocr" \in plan THEN "running" ELSE "done",
     llm |-> IF plan = {"llm"} THEN "running" ELSE "pending",
     hasLLM |-> "llm" \in plan, done |-> FALSE, ctx |-> "live",
     cancelFn |-> IF plan = {"llm"} THEN Len(runs) + 1 ELSE 0,
     llmCh |-> 0, accum |-> {}, ops |-> "none", staged |-> FALSE,
     late |-> FALSE]            \* HISTORY: a result came after the pipeline moved on

\* startExtractionOverlay; what was in the foreground goes to the background
Start(d, plan) ==
    LET e == Len(exs) + 1
    IN  /\ Len(exs) < MaxExtractions
        /\ "llm" \in plan => MayRun
        /\ exs' = Append(exs, Opened(d, plan))
        /\ stored' = Append(stored, [docs |-> 0, commits |-> 0])
        /\ runs' = IF plan = {"llm"} THEN Append(runs, NewRun(e, "live")) ELSE runs
        /\ running' = running
             \cup (IF "ocr" \in plan THEN {[cmd |-> "ocr", ex |-> e]} ELSE {})
             \cup (IF plan = {"ocr", "llm"} THEN {[cmd |-> "ping", ex |-> e]} ELSE {})
        /\ back' = IF front = 0 THEN back ELSE Append(back, front)
        /\ front' = e /\ shown' = TRUE

\* A new document's form is saved, or a saved document extracted again. The
\* keys for that reach the tables only past the overlay.
Extract(d, plan) ==
    /\ ~shown
    /\ d \in alive \cup {New}
    /\ Start(d, plan)
    /\ UNCHANGED <<ready, queued, alive>>

\* afterDocumentSave while the model is not there yet
QueueDocument(d) ==
    /\ ~shown /\ ~ready /\ d \in alive
    /\ queued' = d
    /\ UNCHANGED <<exs, display, runs, running, ready, store>>

-----------------------------------------------------------------------------
(* OCR and ping.                                                           *)

CanStartLLM(x) == x.hasLLM /\ x.llm # "skipped"

\* handleExtractionProgress with the last message of the channel: its text or
\* its error; then maybeStartLLMStep.
OCRResult(c) ==
    /\ c \in running /\ c.cmd = "ocr"
    /\ running' = running \ {c}
    /\ LET x == exs[c.ex]
       IN  IF ~Listed(c.ex) THEN UNCHANGED <<exs, runs>>
           ELSE \E status \in {"done", "failed"} :
                IF CanStartLLM(x)
                THEN /\ runs' = Append(runs, NewRun(c.ex, x.ctx))
                     /\ exs' = [exs EXCEPT ![c.ex] =
                            [Running(x, Len(runs) + 1) EXCEPT !.ocr = status, !.late = @ \/ x.ocr # "running"]]
                ELSE /\ exs' = [exs EXCEPT ![c.ex].ocr = status, ![c.ex].done = TRUE]
                     /\ UNCHANGED runs
    /\ UNCHANGED <<display, ready, queued, store>>

\* handleExtractionLLMPing
PingResult(c) ==
    /\ c \in running /\ c.cmd = "ping"
    /\ running' = running \ {c}
    /\ \/ UNCHANGED exs
       \/ /\ Listed(c.ex)
          /\ exs' = [exs EXCEPT ![c.ex].llm = "skipped",
                                ![c.ex].done = @ \/ Settled(exs[c.ex].ocr),
                                ![c.ex].late = @ \/ exs[c.ex].llm # "pending"]
    /\ UNCHANGED <<display, runs, ready, queued, store>>

-----------------------------------------------------------------------------
(* The model's answer.                                                     *)

\* ExtractStream, and handleExtractionLLMStarted
StreamStarts(r) ==
    /\ runs[r].at = "asked"
    /\ runs' = [runs EXCEPT ![r].at = "open", ![r].readers = IF Listed(runs[r].ex) THEN 1 ELSE 0]
    /\ exs' = IF Listed(runs[r].ex) THEN [exs EXCEPT ![runs[r].ex].llmCh = r] ELSE exs
    /\ UNCHANGED <<display, running, ready, queued, store>>

\* What the stream has for a reader. A channel that is closed says "done" too.
Delivers(r, kind) ==
    /\ runs[r].readers > 0
    /\ \/ kind = "text"   /\ runs[r].at = "open" /\ runs[r].left > 0
       \/ kind = "error"  /\ runs[r].at = "open"
       \/ kind = "done"   /\ runs[r].at = "open"
       \/ kind = "closed"

Taken(r, kind) ==
    [runs EXCEPT ![r].readers = @ - 1,
                 ![r].left = 0,
                 ![r].at = IF kind = "text" THEN @ ELSE "over"]

\* MUTANT: when the answer cannot be used, the pipeline is not marked as over.
NeverOver(x) ==
    {[x EXCEPT !.llm = "failed", !.cancelFn = 0]}
    \cup {[x EXCEPT !.done = TRUE, !.llm = "done", !.cancelFn = 0, !.ops = ops, !.staged = TRUE] :
            ops \in IF x.accum = {} THEN {} ELSE Answer}

\* The operations are parsed, validated and staged, or one of these fails.
Answered(x) ==
    {[x EXCEPT !.done = TRUE, !.llm = "failed", !.cancelFn = 0]}
    \cup {[x EXCEPT !.done = TRUE, !.llm = "done", !.cancelFn = 0, !.ops = ops, !.staged = TRUE] :
            ops \in IF x.accum = {} THEN {} ELSE Answer}

\* MUTANT: messages are taken to be for the extraction on the screen.
OwnerIsFront(r) == IF front = 0 THEN runs[r].ex ELSE front

\* handleExtractionLLMChunk; findExtraction goes by the ID of the message
Owner(r) == runs[r].ex

ReadLLM(r, kind) ==
    /\ Delivers(r, kind)
    /\ LET e == Owner(r)
           x == [exs[e] EXCEPT !.accum = IF kind \in {"text", "done"} THEN @ \cup {r} ELSE @]
       IN  \/ /\ ~Listed(e)
              /\ runs' = Taken(r, kind)
              /\ UNCHANGED exs
           \/ /\ Listed(e) /\ kind = "error"
              /\ runs' = CancelRun(Taken(r, kind), x.cancelFn)
              /\ exs' = [exs EXCEPT ![e] = [x EXCEPT !.llm = "failed", !.done = TRUE, !.cancelFn = 0]]
           \/ /\ Listed(e) /\ kind \in {"done", "closed"} /\ x.llm = "running"
              /\ runs' = CancelRun(Taken(r, kind), x.cancelFn)
              /\ \E y \in Answered(x) : exs' = [exs EXCEPT ![e] = y]
           \/ /\ Listed(e) /\ kind # "error" /\ (kind = "text" \/ x.llm # "running")
              /\ runs' = [Taken(r, kind) EXCEPT ![x.llmCh].readers = @ + 1]
              /\ exs' = [exs EXCEPT ![e] = x]
    /\ UNCHANGED <<display, running, ready, queued, store>>

-----------------------------------------------------------------------------
(* Keys.                                                                   *)

\* The state of an extraction that is dropped goes with it.
Over(x) ==
    [x EXCEPT !.ocr = "done", !.llm = "done", !.done = TRUE, !.ctx = "cancelled", !.cancelFn = 0,
              !.llmCh = 0, !.accum = {}, !.ops = "none", !.staged = FALSE]
Dropped(es) == [e \in DOMAIN exs |-> IF e \in es THEN Over(exs[e]) ELSE exs[e]]

\* cancelExtraction, by ESC on the overlay
CancelExtraction ==
    /\ shown
    /\ runs' = CancelAll(runs, {front})
    /\ exs' = Dropped({front})
    /\ front' = 0 /\ shown' = FALSE
    /\ UNCHANGED <<back, running, ready, queued, store>>

\* interruptExtraction, by ctrl+c while the pipeline runs
Interrupted(x) ==
    [x EXCEPT !.ctx = "cancelled", !.cancelFn = 0, !.done = TRUE,
              !.ocr = IF @ = "running" THEN "failed" ELSE @,
              !.llm = IF @ = "running" THEN "failed" ELSE @]

Interrupt ==
    /\ shown /\ ~exs[front].done
    /\ runs' = CancelAll(runs, {front})
    /\ exs' = [exs EXCEPT ![front] = Interrupted(@)]
    /\ UNCHANGED <<display, running, ready, queued, store>>

\* cancelAllExtractions, by ctrl+c otherwise
CancelEverything ==
    /\ front # 0 \/ back # <<>>
    /\ ~(shown /\ ~exs[front].done)
    /\ runs' = CancelAll(runs, {front} \cup ToSet(back))
    /\ exs' = Dropped({front} \cup ToSet(back))
    /\ front' = 0 /\ shown' = FALSE /\ back' = <<>>
    /\ UNCHANGED <<running, ready, queued, store>>

Background ==
    /\ shown /\ ~exs[front].done
    /\ back' = Append(back, front)
    /\ front' = 0 /\ shown' = FALSE
    /\ UNCHANGED <<exs, runs, running, ready, queued, store>>

\* foregroundExtraction: the latest of the background
Foreground ==
    /\ ~shown /\ back # <<>>
    /\ LET others == IF front = 0 THEN back ELSE Append(back, front)
       IN  back' = RemoveAt(others, Len(back))
    /\ front' = Last(back) /\ shown' = TRUE
    /\ UNCHANGED <<exs, runs, running, ready, queued, store>>

\* dismissActiveOverlay, by a click beside the overlay
ClickAway ==
    /\ shown
    /\ shown' = FALSE
    /\ UNCHANGED <<exs, front, back, runs, running, ready, queued, store>>

\* rerunLLMExtraction: another model, or another form of the text
RerunOf(x) ==
    [Running(x, Len(runs) + 1) EXCEPT !.ctx = "live", !.accum = {}, !.ops = "none",
                                      !.staged = FALSE, !.done = FALSE]

CanRerun == front # 0 /\ exs[front].done /\ exs[front].hasLLM /\ MayRun

Rerun ==
    /\ CanRerun
    /\ runs' = Append(CancelRun(runs, exs[front].cancelFn), NewRun(front, "live"))
    /\ exs' = [exs EXCEPT ![front] = RerunOf(@)]

RerunByKey ==
    /\ shown /\ Rerun
    /\ UNCHANGED <<display, running, ready, queued, store>>

\* handlePullProgress, when the extraction's model has been pulled: what waited
\* for it starts, or what is shown runs again.
ModelReady ==
    /\ ~ready /\ ready' = TRUE
    /\ queued' = None
    /\ UNCHANGED alive
    /\ \/ queued \in alive /\ Start(queued, {"llm"})
       \/ queued \notin alive /\ Rerun /\ UNCHANGED <<display, running, stored>>
       \/ queued \notin alive /\ ~CanRerun /\ UNCHANGED <<exs, display, runs, running, stored>>

-----------------------------------------------------------------------------
(* Accepting.                                                              *)

\* MUTANT: after a commit the overlay and what was staged stay.
CommitsAndStays(x, e, made) ==
    /\ x.staged
    /\ stored' = [stored EXCEPT ![e].commits = @ + 1, ![e].docs = @ + made]
    /\ UNCHANGED <<exs, front, shown>>

\* Documents the operations create, of those they say something about
Staged(x) == IF x.ops \in {"document", "both"} THEN {0, 1} ELSE {0}

\* commitShadowOperations: all in one transaction; the shadow database is
\* closed either way. What it holds of documents is written with the rest,
\* also when the operations it is handed have been cleared of them.
Commits(x, e, made) ==
    /\ x.staged
    /\ \/ /\ \E n \in Staged(x) :
                stored' = [stored EXCEPT ![e].commits = @ + 1, ![e].docs = @ + made + n]
          /\ exs' = Dropped({e})
          /\ front' = 0 /\ shown' = FALSE
       \/ /\ stored' = [stored EXCEPT ![e].docs = @ + made]
          /\ exs' = [exs EXCEPT ![e].staged = FALSE]
          /\ UNCHANGED <<front, shown>>

NothingStaged(x, e, made) ==
    /\ ~x.staged
    /\ stored' = [stored EXCEPT ![e].docs = @ + made]
    /\ UNCHANGED <<exs, front, shown>>

\* acceptDeferredExtraction: creates the document, then what else was found.
\* A second creation of the same document fails on its ID.
AcceptNew ==
    LET x == exs[front]
    IN  /\ x.doc = New /\ stored[front].docs = 0
        /\ IF x.ops \in {"none", "document"}
           THEN /\ stored' = [stored EXCEPT ![front].docs = 1]
                /\ front' = 0 /\ shown' = FALSE
                /\ exs' = Dropped({front})
           ELSE Commits(x, front, 1) \/ NothingStaged(x, front, 1)
        /\ UNCHANGED alive

\* acceptExistingExtraction: the document is restored first if it was deleted
AcceptSaved ==
    LET x == exs[front]
    IN  /\ x.doc # New
        /\ alive' = alive \cup {x.doc}
        /\ IF x.ops = "none"
           THEN front' = 0 /\ shown' = FALSE /\ exs' = Dropped({front}) /\ UNCHANGED stored
           ELSE Commits(x, front, 0) \/ NothingStaged(x, front, 0)

Accept ==
    /\ shown /\ exs[front].done
    /\ AcceptNew \/ AcceptSaved
    /\ UNCHANGED <<back, runs, running, ready, queued>>

DeleteDocument(d) ==
    /\ d \in alive /\ ~shown
    /\ alive' = alive \ {d}
    /\ UNCHANGED <<exs, display, runs, running, ready, queued, stored>>

-----------------------------------------------------------------------------
Init ==
    /\ exs = <<>> /\ front = 0 /\ shown = FALSE /\ back = <<>>
    /\ runs = <<>> /\ running = {}
    /\ ready = FALSE /\ queued = None
    /\ alive = Saved /\ stored = <<>>

Kinds == {"text", "error", "done", "closed"}

Next ==
    \/ \E d \in Saved \cup {New}, plan \in Plans : Extract(d, plan)
    \/ \E d \in Saved : QueueDocument(d) \/ DeleteDocument(d)
    \/ \E c \in running : OCRResult(c) \/ PingResult(c)
    \/ \E r \in DOMAIN runs : StreamStarts(r) \/ \E kind \in Kinds : ReadLLM(r, kind)
    \/ CancelExtraction \/ Interrupt \/ CancelEverything
    \/ Background \/ Foreground \/ ClickAway
    \/ RerunByKey \/ ModelReady \/ Accept

\* Commands run beside one another, and each one posts its message.
Fairness ==
    /\ \A e \in 1..MaxExtractions :
          /\ WF_vars(OCRResult([cmd |-> "ocr", ex |-> e]))
          /\ WF_vars(PingResult([cmd |-> "ping", ex |-> e]))
    /\ \A r \in 1..MaxRuns :
          WF_vars(r \in DOMAIN runs /\ (StreamStarts(r) \/ \E kind \in Kinds : ReadLLM(r, kind)))

Spec == Init /\ [][Next]_vars /\ Fairness

-----------------------------------------------------------------------------

\* However extractions are switched between foreground and background, what the
\* model said of one document never enters the operations of another.
Unmixed ==
    \A e \in DOMAIN exs : \A r \in exs[e].accum : runs[r].ex = e

\* What has written its operations is neither on the screen nor in the
\* background any more.
WrittenThenGone ==
    \A e \in DOMAIN stored :
        stored[e].commits <= 1 /\ (stored[e].commits = 1 => ~Listed(e))

\* A new document is created when its extraction is accepted for the first
\* time: once, or twice in that one step if what was staged for it is written
\* as well, which needs rows of other tables beside it (extraction.go:901-911).
\* For a saved document a row is only created by its one commit.
CreatesOf(e) ==
    \/ stored'[e].docs = stored[e].docs
    \/ /\ exs[e].doc = New /\ stored[e].docs = 0
       /\ \/ stored'[e].docs = 1
          \/ /\ stored'[e].docs = 2
             /\ exs[e].ops = "both" /\ stored'[e].commits = stored[e].commits + 1
    \/ /\ exs[e].doc # New
       /\ stored'[e].docs = stored[e].docs + 1 /\ stored'[e].commits = stored[e].commits + 1

\* The operations of an extraction are written at most once and it is gone
\* with that, whatever is accepted again after a failed commit, run again, put
\* in the background or interrupted; and no accept creates a document again
\* that an earlier one has created. That one accept may write a new document
\* twice is what CreatesOf allows.
CommitOnce == [][WrittenThenGone' /\ \A e \in DOMAIN stored : CreatesOf(e)]_vars

\* No request to the model goes on for an extraction that is over or gone,
\* unless a result came after the pipeline had moved on.
NoRunaway ==
    \A r \in DOMAIN runs :
        runs[r].ctx = "live" /\ runs[r].at # "over"
        => \/ Listed(runs[r].ex) /\ ~exs[runs[r].ex].done
           \/ exs[runs[r].ex].late

\* An extraction comes to its end, so that it can be accepted: done, or gone.
ExtractionEnds ==
    \A e \in 1..MaxExtractions :
        (e \in DOMAIN exs /\ Listed(e)) ~> (e \in DOMAIN exs /\ (~Listed(e) \/ exs[e].done))
=============================================================================
