------------------------------ MODULE PageOcr -------------------------------
(***************************************************************************)
(* OCR of one document with progress (internal/extract/ocr_progress.go,    *)
(* ocr.go): a goroutine per page pipes pdftocairo into tesseract, as many  *)
(* at a time as there are processors; a loop turns the signals of both     *)
(* stages into frames on a buffered channel, and the last message carries  *)
(* the text. The interface reads one message at a time and may stop        *)
(* reading at any moment. What the pages say is left out.                  *)
(***************************************************************************)
EXTENDS Naturals, FiniteSets, Sequences

CONSTANTS
    Tools,         \* programs found in the path: OCRTools
    PDFPages,      \* numbers of pages a PDF may have
    PageCap,       \* MaxPages; 0: no limit
    Workers,       \* runtime.NumCPU()
    Room           \* capacity of the channel of messages

ASSUME PagesAssumption ==
    PDFPages \subseteq Nat /\ PageCap \in Nat /\ Workers \in Nat \ {0} /\ Room \in Nat \ {0}

VARIABLES
    mime,          \* "pdf" or "image"
    at,            \* where the goroutine of ExtractWithProgress is
    files,         \* its temporary directory exists
    live,          \* its context is not cancelled
    page,          \* where the goroutine of each page is
    result,        \* ocrResults
    rasterDone, pageDone,    \* signals in the two channels
    cairo, tess,             \* Count of the two stages
    out,           \* what is about to be sent
    ch,            \* the messages sent and not read
    reader,        \* the chain of waitForExtractProgress commands
    heard          \* HISTORY: the last message but the final one

loopVars == <<at, files, out>>
pageVars == <<page, result, rasterDone, pageDone>>
pagesVars == <<mime, loopVars, live, pageVars, cairo, tess, ch, reader, heard>>

Total == Len(page)

Nothing        == [done |-> FALSE, ok |-> TRUE, cairo |-> 0, tess |-> 0, text |-> {}]
Frame(c, t)    == [Nothing EXCEPT !.cairo = c, !.tess = t]
Failure        == [Nothing EXCEPT !.done = TRUE, !.ok = FALSE]
Text(pages, n) == [done |-> TRUE, ok |-> TRUE, cairo |-> n, tess |-> n, text |-> pages]

-----------------------------------------------------------------------------
(* The goroutines of the pages.                                            *)

AtWork == {p \in DOMAIN page : page[p] \in {"rasterizing", "recognizing"}}

\* A signal is sent, or dropped when the context is cancelled.
Signal(n) == {n + 1} \cup (IF live THEN {} ELSE {n})

\* A page gets one of the workers; one of its two programs may not start.
StartPage(p) ==
    /\ p \in DOMAIN page /\ page[p] = "waiting"
    /\ Cardinality(AtWork) < Workers
    /\ \/ page' = [page EXCEPT ![p] = "rasterizing"] /\ UNCHANGED <<result, pageDone>>
       \/ /\ page' = [page EXCEPT ![p] = "over"]
          /\ result' = [result EXCEPT ![p] = "unstarted"]
          /\ pageDone' \in Signal(pageDone)
    /\ UNCHANGED <<mime, loopVars, live, rasterDone, cairo, tess, ch, reader, heard>>

\* It is cancelled before it has got one, and signals nothing.
SkipPage(p) ==
    /\ p \in DOMAIN page /\ page[p] = "waiting" /\ ~live
    /\ page' = [page EXCEPT ![p] = "over"]
    /\ result' = [result EXCEPT ![p] = "failed"]
    /\ UNCHANGED <<mime, loopVars, live, rasterDone, pageDone, cairo, tess, ch, reader, heard>>

\* pdftocairo ends, well or not.
Rasterize(p) ==
    /\ p \in DOMAIN page /\ page[p] = "rasterizing"
    /\ page' = [page EXCEPT ![p] = "recognizing"]
    /\ rasterDone' \in Signal(rasterDone)
    /\ UNCHANGED <<mime, loopVars, live, result, pageDone, cairo, tess, ch, reader, heard>>

\* tesseract ends, or one of the two has failed.
Recognize(p) ==
    /\ p \in DOMAIN page /\ page[p] = "recognizing" /\ mime = "pdf"
    /\ page' = [page EXCEPT ![p] = "over"]
    /\ \E r \in {"text", "failed"} : result' = [result EXCEPT ![p] = r]
    /\ pageDone' \in Signal(pageDone)
    /\ UNCHANGED <<mime, loopVars, live, rasterDone, cairo, tess, ch, reader, heard>>

\* ocrImageFile: nobody waits for signals of an image.
RecognizeImage ==
    /\ mime = "image" /\ page = <<"recognizing">>
    /\ page' = <<"over">>
    /\ \E r \in {"text", "failed"} : result' = <<r>>
    /\ UNCHANGED <<mime, loopVars, live, rasterDone, pageDone, cairo, tess, ch, reader, heard>>

PageStep(p) == StartPage(p) \/ SkipPage(p) \/ Rasterize(p) \/ Recognize(p)

PagesOver == \A p \in DOMAIN page : page[p] = "over"

-----------------------------------------------------------------------------
(* The goroutine of ExtractWithProgress.                                   *)

Final(m) == at' = "final" /\ out' = m

PDFOCRAvailable   == {"tesseract", "pdftocairo", "pdfinfo"} \subseteq Tools
ImageOCRAvailable == "tesseract" \in Tools

NeedsOCR(m) == \/ m = "pdf" /\ PDFOCRAvailable
               \/ m = "image" /\ ImageOCRAvailable

\* The document is opened for OCR, its reader waits.
ExtractWithProgress ==
    /\ at = "idle"
    /\ \E m \in {"pdf", "image"} : NeedsOCR(m) /\ mime' = m
    /\ at' = "begin" /\ reader' = "waiting"
    /\ UNCHANGED <<files, out, live, pageVars, cairo, tess, ch, heard>>

\* The pages that are read of n
Capped(n) == IF PageCap > 0 /\ n > PageCap THEN PageCap ELSE n

Announcing(n) ==
    /\ page' = [p \in 1..n |-> "unborn"]
    /\ result' = [p \in 1..n |-> "failed"]
    /\ at' = "announcing" /\ out' = Nothing /\ files' = TRUE

\* The file cannot be written, or pdfinfo fails.
FailsAtOnce == Final(Failure) /\ files' \in BOOLEAN /\ UNCHANGED <<page, result>>

\* The file is written and its pages are counted, which may find none.
BeginPDF ==
    /\ at = "begin" /\ mime = "pdf"
    /\ \/ FailsAtOnce
       \/ 0 \in PDFPages /\ Final(Text({}, 0)) /\ files' = TRUE /\ UNCHANGED <<page, result>>
       \/ \E n \in PDFPages \ {0} : Announcing(Capped(n))
    /\ UNCHANGED <<mime, live, rasterDone, pageDone, cairo, tess, ch, reader, heard>>

\* An image is one page.
BeginImage ==
    /\ at = "begin" /\ mime = "image"
    /\ FailsAtOnce \/ Announcing(1)
    /\ UNCHANGED <<mime, live, rasterDone, pageDone, cairo, tess, ch, reader, heard>>

\* A frame is sent once there is room, or given up when cancelled.
Sends(sent, given) ==
    \/ Len(ch) < Room /\ ch' = Append(ch, out) /\ sent
    \/ ~live /\ UNCHANGED ch /\ given

\* The first frame; then the pages start, an image without pdftocairo.
Announce ==
    /\ at = "announcing"
    /\ Sends(/\ at' = IF mime = "image" THEN "joining" ELSE "selecting"
             /\ page' = [p \in DOMAIN page |-> IF mime = "image" THEN "recognizing" ELSE "waiting"]
             /\ UNCHANGED out,
             Final(Failure) /\ UNCHANGED page)
    /\ UNCHANGED <<mime, files, live, result, rasterDone, pageDone, cairo, tess, reader, heard>>

\* MUTANT: a page is complete when it has been rasterized.
CountsRasters == cairo

\* What ocrProgressLoop counts up to total
Completed == tess

\* One round of ocrProgressLoop's select
Select ==
    /\ at = "selecting" /\ Completed < Total
    /\ \/ /\ rasterDone > 0 /\ rasterDone' = rasterDone - 1 /\ cairo' = cairo + 1
          /\ at' = "forwarding" /\ out' = Frame(cairo + 1, tess)
          /\ UNCHANGED <<pageDone, tess>>
       \/ /\ pageDone > 0 /\ pageDone' = pageDone - 1 /\ tess' = tess + 1
          /\ at' = "forwarding" /\ out' = Frame(cairo, tess + 1)
          /\ UNCHANGED <<rasterDone, cairo>>
       \/ /\ ~live /\ at' = "stopping"
          /\ UNCHANGED <<out, rasterDone, pageDone, cairo, tess>>
    /\ UNCHANGED <<mime, files, live, page, result, ch, reader, heard>>

Forward ==
    /\ at = "forwarding"
    /\ Sends(at' = "selecting", at' = "stopping")
    /\ UNCHANGED <<mime, files, out, live, pageVars, cairo, tess, reader, heard>>

\* drainBuffered
Drained == rasterDone

\* All pages are complete: catchUpRasterProgress.
CatchUp ==
    /\ at = "selecting" /\ Completed >= Total
    /\ cairo' = cairo + Drained /\ rasterDone' = rasterDone - Drained
    /\ IF Drained = 0 THEN at' = "joining" /\ UNCHANGED out
       ELSE at' = "catching up" /\ out' = Frame(cairo + Drained, tess)
    /\ UNCHANGED <<mime, files, live, page, result, pageDone, tess, ch, reader, heard>>

SendCaughtUp ==
    /\ at = "catching up"
    /\ Sends(at' = "joining", at' = "joining")
    /\ UNCHANGED <<mime, files, out, live, pageVars, cairo, tess, reader, heard>>

\* MUTANT: a cancelled run returns while its pages go on.
NotJoined == at = "stopping" \/ PagesOver

\* <-done, or tesseract has ended
Joined == PagesOver

\* collectOCRResults: the pages with text, which keep their order; the failed
\* ones are skipped
Collected == {p \in DOMAIN page : result[p] = "text"}

Join ==
    /\ at \in {"joining", "stopping"} /\ mime = "pdf" /\ Joined
    /\ Final(IF at = "stopping" THEN Failure ELSE Text(Collected, Total))
    /\ UNCHANGED <<mime, files, live, pageVars, cairo, tess, ch, reader, heard>>

JoinImage ==
    /\ at = "joining" /\ mime = "image" /\ PagesOver
    /\ Final(IF result[1] = "failed" THEN Failure ELSE Text(Collected, 0))
    /\ UNCHANGED <<mime, files, live, pageVars, cairo, tess, ch, reader, heard>>

\* The last message waits for room, cancelled or not; then the directory goes
\* and the channel is closed.
Finish ==
    /\ at = "final" /\ Len(ch) < Room
    /\ ch' = Append(ch, out)
    /\ at' = "closed" /\ files' = FALSE
    /\ UNCHANGED <<mime, out, live, pageVars, cairo, tess, reader, heard>>

LoopStep ==
    BeginPDF \/ BeginImage \/ Announce \/ Select \/ Forward \/ CatchUp \/ SendCaughtUp \/ Join \/ JoinImage \/ Finish

-----------------------------------------------------------------------------
(* The interface.                                                          *)

\* handleExtractionProgress asks for the next message after each but the last;
\* the answer to the pending command of a dropped extraction is thrown away.
Read ==
    /\ reader \in {"waiting", "leaving"} /\ ch # <<>>
    /\ ch' = Tail(ch)
    /\ reader' = CASE reader = "leaving" -> "gone" [] Head(ch).done -> "answered" [] OTHER -> "waiting"
    /\ heard' = IF Head(ch).done THEN heard ELSE Head(ch)
    /\ UNCHANGED <<mime, loopVars, live, pageVars, cairo, tess>>

\* interruptExtraction goes on listening, cancelExtraction does not.
CancelOcr ==
    /\ reader = "waiting" /\ live
    /\ live' = FALSE /\ reader' \in {"waiting", "leaving"}
    /\ UNCHANGED <<mime, loopVars, pageVars, cairo, tess, ch, heard>>

PagesInit ==
    /\ mime = "pdf" /\ at = "idle" /\ files = FALSE /\ live = TRUE
    /\ page = <<>> /\ result = <<>> /\ rasterDone = 0 /\ pageDone = 0
    /\ cairo = 0 /\ tess = 0 /\ out = Nothing /\ ch = <<>>
    /\ reader = "none" /\ heard = Nothing

PagesNext ==
    \/ ExtractWithProgress \/ LoopStep \/ RecognizeImage \/ Read \/ CancelOcr
    \/ \E p \in DOMAIN page : PageStep(p)

\* Goroutines are scheduled, programs that run end, and the event loop turns.
PagesFairness ==
    /\ WF_pagesVars(LoopStep) /\ WF_pagesVars(Read) /\ WF_pagesVars(RecognizeImage)
    /\ \A n \in PDFPages : \A p \in 1..n : WF_pagesVars(p \in DOMAIN page /\ PageStep(p))

PagesSpec == PagesInit /\ [][PagesNext]_pagesVars /\ PagesFairness

-----------------------------------------------------------------------------
\* The directory with the PDF is there as long as a program reads it, whenever
\* the run is cancelled: "The caller is responsible for waiting on the producer
\* goroutine" (ocr_progress.go, ocrProgressLoop).
FilesOutliveTools ==
    AtWork # {} => files

\* "This prevents the last progress frame from showing cairo < tess": once the
\* text is there, the last frame the user saw had every page rasterized, unless
\* a program did not start.
LastFrameWhole ==
    /\ reader = "answered" /\ out.ok /\ live /\ mime = "pdf"
    /\ \A p \in DOMAIN page : result[p] # "unstarted"
    => heard.cairo = Total

\* Both: what a run leaves behind, and what it told before.
RunWhole == FilesOutliveTools /\ LastFrameWhole

\* OCR always comes to an answer, whichever programs fail to start and whatever
\* is cancelled: counting rasterized pages "would deadlock the loop".
OcrAnswers ==
    at = "begin" ~> reader \in {"answered", "gone"}
=============================================================================
