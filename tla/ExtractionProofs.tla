-------------------------- MODULE ExtractionProofs --------------------------
(***************************************************************************)
(* Proofs about Extraction: for any number of extractions and of runs of   *)
(* the model, what is said of one document stays with it, nothing is       *)
(* written twice, and no request is left running.  Proofs about PageOcr,   *)
(* the OCR an extraction starts with, are at the end.                      *)
(*                                                                         *)
(* PipelineInv is inductive.  A run that is alive is the one its           *)
(* extraction could cancel (RunsFit): a first run only starts when the OCR *)
(* is over, and another one only when the pipeline is.  An extraction is   *)
(* in the foreground or once in the background (OnePlace), so that after   *)
(* it has written it is nowhere (WrittenGone).                             *)
(***************************************************************************)
EXTENDS Extraction, PageOcr, SequenceTheorems, FiniteSetTheorems, TLAPS

Extracted ==
    [doc : Saved \cup {New}, ocr : Statuses, llm : Statuses, hasLLM : BOOLEAN,
     done : BOOLEAN, ctx : {"live", "cancelled"}, cancelFn : Nat, llmCh : Nat,
     accum : SUBSET Nat, ops : Answer, staged : BOOLEAN, late : BOOLEAN]

Run == [ex : Nat, ctx : {"live", "cancelled"}, at : {"asked", "open", "over"},
        left : Nat, readers : Nat]

Row == [docs : Nat, commits : Nat]

TypeOK ==
    /\ exs \in Seq(Extracted)
    /\ front \in {0} \cup DOMAIN exs
    /\ shown \in BOOLEAN /\ (shown => front # 0)
    /\ back \in Seq(DOMAIN exs)
    /\ runs \in Seq(Run)
    /\ \A r \in DOMAIN runs : runs[r].ex \in DOMAIN exs
    /\ running \subseteq [cmd : {"ocr", "ping"}, ex : DOMAIN exs]
    /\ ready \in BOOLEAN /\ queued \in Saved \cup {None}
    /\ alive \subseteq Saved
    /\ stored \in Seq(Row)
    /\ Len(stored) = Len(exs)

\* The model has only said to an extraction what one of its runs was asked.
OwnRuns == \A e \in DOMAIN exs : \A r \in exs[e].accum :
    r \in DOMAIN runs /\ runs[r].ex = e

\* Until the OCR is over the pipeline is not, and no run has been made.
EarlyOpen == \A e \in DOMAIN exs :
    ~exs[e].late /\ exs[e].ocr = "running" => ~exs[e].done

Alive(run) == run.ctx = "live" /\ run.at # "over"

RunFits(r, run, x, listed) ==
    ~x.late =>
        /\ x.ocr # "running" /\ x.llm \notin {"pending", "skipped"} /\ x.hasLLM
        /\ Alive(run) => listed /\ ~x.done /\ x.llm = "running" /\ x.cancelFn = r

RunsFit == \A r \in DOMAIN runs, e \in DOMAIN exs :
    runs[r].ex = e => RunFits(r, runs[r], exs[e], Listed(e))

OnePlace ==
    /\ front \notin ToSet(back)
    /\ \A i, j \in DOMAIN back : i # j => back[i] # back[j]

WrittenGone == \A e \in DOMAIN stored :
    /\ stored[e].commits \in {0, 1}
    /\ stored[e].commits = 1 => ~Listed(e)

PipelineInv == TypeOK /\ OwnRuns /\ EarlyOpen /\ RunsFit /\ OnePlace /\ WrittenGone

-----------------------------------------------------------------------------
LEMMA SeqDomain ==
    ASSUME NEW S, NEW s \in Seq(S)
    PROVE  DOMAIN s = 1..Len(s) /\ Len(s) \in Nat
OBVIOUS

LEMMA Longer ==
    ASSUME NEW S, NEW s \in Seq(S), NEW x \in S
    PROVE  /\ Append(s, x) \in Seq(S) /\ Len(Append(s, x)) = Len(s) + 1
           /\ DOMAIN Append(s, x) = 1..(Len(s) + 1)
           /\ \A i \in 1..(Len(s) + 1) : Append(s, x)[i] = IF i <= Len(s) THEN s[i] ELSE x
OBVIOUS

-----------------------------------------------------------------------------
(* Runs of the model: what a step may do to those there are. *)

\* ts has the runs of rs, and none that is alive was not before.
Quieter(rs, ts) ==
    /\ ts \in Seq(Run) /\ Len(ts) = Len(rs) /\ DOMAIN ts = DOMAIN rs
    /\ \A r \in DOMAIN rs : ts[r].ex = rs[r].ex /\ (Alive(ts[r]) => Alive(rs[r]))

LEMMA RunChanged ==
    ASSUME NEW rs \in Seq(Run), NEW r \in DOMAIN rs, NEW run \in Run,
           run.ex = rs[r].ex, Alive(run) => Alive(rs[r])
    PROVE  /\ Quieter(rs, [rs EXCEPT ![r] = run])
           /\ [rs EXCEPT ![r] = run][r] = run
           /\ \A i \in DOMAIN rs : i # r => [rs EXCEPT ![r] = run][i] = rs[i]
<1>1. DOMAIN rs = 1..Len(rs) /\ Len(rs) \in Nat
  OBVIOUS
<1> DEFINE ts == [rs EXCEPT ![r] = run]
<1>2. ts \in Seq(Run) /\ Len(ts) = Len(rs) /\ DOMAIN ts = DOMAIN rs
  BY <1>1, ExceptSeq
<1> QED BY <1>1, <1>2 DEF Quieter

LEMMA QuieterSame ==
    ASSUME NEW rs \in Seq(Run)
    PROVE  Quieter(rs, rs)
BY DEF Quieter

LEMMA QuieterTwice ==
    ASSUME NEW rs, NEW ts, NEW us, Quieter(rs, ts), Quieter(ts, us)
    PROVE  Quieter(rs, us)
BY DEF Quieter

LEMMA CancelRunQuiet ==
    ASSUME NEW rs \in Seq(Run), NEW r
    PROVE  /\ Quieter(rs, CancelRun(rs, r))
           /\ r \in DOMAIN rs => ~Alive(CancelRun(rs, r)[r])
<1>1. CASE r \in DOMAIN rs /\ r # 0 /\ rs[r].ctx = "live"
  <2>1. rs[r] \in Run
    BY <1>1
  <2> DEFINE run == [rs[r] EXCEPT !.ctx = "cancelled"]
  <2>2. run \in Run /\ run.ex = rs[r].ex /\ run.ctx = "cancelled"
    BY <2>1 DEF Run
  <2>3. CancelRun(rs, r) = [rs EXCEPT ![r] = run]
    BY <1>1 DEF CancelRun
  <2>4. ~Alive(run)
    BY <2>2 DEF Alive
  <2> HIDE DEF run
  <2>5. Quieter(rs, [rs EXCEPT ![r] = run]) /\ [rs EXCEPT ![r] = run][r] = run
    BY <1>1, <2>2, <2>4, RunChanged
  <2> QED BY <2>3, <2>4, <2>5
<1>2. CASE r \notin DOMAIN rs
  <2>1. CancelRun(rs, r) = rs
    BY <1>2 DEF CancelRun
  <2> QED BY <1>2, <2>1, QuieterSame
<1>3. CASE r = 0 \/ rs[r].ctx # "live"
  <2>1. CancelRun(rs, r) = rs
    BY <1>3 DEF CancelRun
  <2>2. r \in DOMAIN rs => r # 0
    <3>1. DOMAIN rs = 1..Len(rs)
      OBVIOUS
    <3> QED BY <3>1
  <2> QED BY <1>3, <2>1, <2>2, QuieterSame DEF Alive
<1> QED BY <1>1, <1>2, <1>3

LEMMA CancelAllQuiet ==
    ASSUME NEW rs \in Seq(Run), NEW es
    PROVE  /\ Quieter(rs, CancelAll(rs, es))
           /\ \A r \in DOMAIN rs : rs[r].ex \in es => ~Alive(CancelAll(rs, es)[r])
<1> DEFINE ts == CancelAll(rs, es)
<1>1. Len(rs) \in Nat /\ DOMAIN rs = 1..Len(rs) /\ \A r \in DOMAIN rs : rs[r] \in Run
  OBVIOUS
<1>2. DOMAIN ts = DOMAIN rs
  BY DEF CancelAll
<1>3. ASSUME NEW r \in DOMAIN rs
      PROVE  /\ ts[r] \in Run /\ ts[r].ex = rs[r].ex /\ (Alive(ts[r]) => Alive(rs[r]))
             /\ rs[r].ex \in es => ~Alive(ts[r])
  <2>1. rs[r] \in Run
    BY <1>1
  <2>2. CASE rs[r].ex \in es /\ rs[r].ctx = "live"
    <3>1. ts[r] = [rs[r] EXCEPT !.ctx = "cancelled"]
      BY <2>2 DEF CancelAll
    <3> QED BY <2>1, <3>1 DEF Run, Alive
  <2>3. CASE ~(rs[r].ex \in es /\ rs[r].ctx = "live")
    <3>1. ts[r] = rs[r]
      BY <2>3 DEF CancelAll
    <3> QED BY <2>1, <2>3, <3>1 DEF Alive
  <2> QED BY <2>2, <2>3
<1> HIDE DEF ts
<1>4. ts \in [1..Len(rs) -> Run]
  <2>1. ts = [r \in 1..Len(rs) |-> ts[r]]
    BY <1>1, <1>2 DEF ts, CancelAll
  <2> QED BY <1>1, <1>3, <2>1
<1>5. ts \in Seq(Run) /\ Len(ts) = Len(rs)
  BY <1>1, <1>4
<1> QED BY <1>2, <1>3, <1>5 DEF Quieter, ts

LEMMA TakenQuiet ==
    ASSUME TypeOK, NEW r \in DOMAIN runs, NEW kind, Delivers(r, kind)
    PROVE  /\ Quieter(runs, Taken(r, kind))
           /\ kind # "text" => ~Alive(Taken(r, kind)[r])
<1>1. runs \in Seq(Run) /\ runs[r] \in Run /\ runs[r].readers > 0
  BY DEF TypeOK, Delivers
<1> DEFINE stage == IF kind = "text" THEN runs[r].at ELSE "over"
           run == [[[runs[r] EXCEPT !.readers = @ - 1] EXCEPT !.left = 0] EXCEPT !.at = stage]
<1>5. runs[r].readers - 1 \in Nat /\ stage \in {"asked", "open", "over"}
  BY <1>1 DEF Run
<1>2. /\ run \in Run /\ run.ex = runs[r].ex /\ run.ctx = runs[r].ctx /\ run.at = stage
  <2> HIDE DEF stage
  <2> QED BY <1>1, <1>5 DEF Run
<1>3. Taken(r, kind) = [runs EXCEPT ![r] = run]
  BY <1>1 DEF Taken
<1> HIDE DEF run
<1>4. (Alive(run) => Alive(runs[r])) /\ (kind # "text" => ~Alive(run))
  BY <1>2 DEF Alive
<1> HIDE DEF stage
<1> QED BY <1>1, <1>2, <1>3, <1>4, RunChanged

\* One more reader, of any run.
LEMMA ReaderQuiet ==
    ASSUME NEW rs \in Seq(Run), NEW r
    PROVE  Quieter(rs, [rs EXCEPT ![r].readers = @ + 1])
<1>1. CASE r \in DOMAIN rs
  <2>1. rs[r] \in Run
    BY <1>1
  <2> DEFINE run == [rs[r] EXCEPT !.readers = @ + 1]
  <2>2. run \in Run /\ run.ex = rs[r].ex /\ run.ctx = rs[r].ctx /\ run.at = rs[r].at
    <3>1. rs[r].readers + 1 \in Nat
      BY <2>1 DEF Run
    <3> QED BY <2>1, <3>1 DEF Run
  <2>3. [rs EXCEPT ![r].readers = @ + 1] = [rs EXCEPT ![r] = run]
    OBVIOUS
  <2>4. Alive(run) => Alive(rs[r])
    BY <2>2 DEF Alive
  <2> HIDE DEF run
  <2> QED BY <1>1, <2>2, <2>3, <2>4, RunChanged
<1>2. CASE r \notin DOMAIN rs
  <2>1. [rs EXCEPT ![r].readers = @ + 1] = rs
    BY <1>2
  <2> QED BY <2>1, QuieterSame
<1> QED BY <1>1, <1>2

-----------------------------------------------------------------------------
(* Steps by what they do to the extractions and the runs. *)

\* Extractions and runs after a step.
Pipelines == 
    /\ exs \in Seq(Extracted) /\ runs \in Seq(Run)
    /\ \A r \in DOMAIN runs : runs[r].ex \in DOMAIN exs
    /\ OwnRuns /\ EarlyOpen /\ RunsFit

\* The runs and perhaps a new one.
Began(ts, e) == 
    \/ runs' = ts
    \/ \E ctx \in {"live", "cancelled"} : runs' = Append(ts, NewRun(e, ctx))

LEMMA RunsAfter ==
    ASSUME PipelineInv, NEW e, NEW ts, Quieter(runs, ts), Began(ts, e), e \in Nat
    PROVE  /\ runs' \in Seq(Run)
           /\ Len(runs) \in Nat /\ DOMAIN runs = 1..Len(runs)
           /\ \A r \in DOMAIN runs : /\ r \in DOMAIN runs' /\ runs'[r] = ts[r]
                                     /\ runs'[r].ex = runs[r].ex
                                     /\ Alive(runs'[r]) => Alive(runs[r])
           /\ \A r \in DOMAIN runs' \ DOMAIN runs : r = Len(runs) + 1 /\ runs'[r].ex = e
           /\ runs' = ts => DOMAIN runs' = DOMAIN runs
<1>1. /\ ts \in Seq(Run) /\ Len(ts) = Len(runs) /\ DOMAIN ts = DOMAIN runs
      /\ \A r \in DOMAIN runs : ts[r].ex = runs[r].ex /\ (Alive(ts[r]) => Alive(runs[r]))
  BY DEF Quieter
<1>2. Len(runs) \in Nat /\ DOMAIN runs = 1..Len(runs)
  BY DEF PipelineInv, TypeOK
<1>3. CASE runs' = ts
  BY <1>1, <1>2, <1>3
<1>4. ASSUME NEW ctx \in {"live", "cancelled"}, runs' = Append(ts, NewRun(e, ctx))
      PROVE  /\ runs' \in Seq(Run)
             /\ DOMAIN runs' = 1..(Len(runs) + 1)
             /\ \A r \in DOMAIN runs : runs'[r] = ts[r]
             /\ runs'[Len(runs) + 1] = NewRun(e, ctx)
  <2> DEFINE run == NewRun(e, ctx)
  <2>1. run \in Run
    BY DEF NewRun, Run
  <2> HIDE DEF run
  <2>2. Append(ts, run) \in Seq(Run) /\ DOMAIN Append(ts, run) = 1..(Len(runs) + 1)
        /\ \A r \in 1..(Len(runs) + 1) :
                Append(ts, run)[r] = IF r <= Len(runs) THEN ts[r] ELSE run
    BY <1>1, <1>2, <2>1
  <2>3. Len(runs) + 1 \in 1..(Len(runs) + 1) /\ ~(Len(runs) + 1 <= Len(runs))
    BY <1>2
  <2>4. \A r \in DOMAIN runs : r \in 1..(Len(runs) + 1) /\ r <= Len(runs)
    BY <1>2
  <2> QED BY <1>4, <2>2, <2>3, <2>4 DEF run
<1>5. ASSUME NEW ctx \in {"live", "cancelled"}, runs' = Append(ts, NewRun(e, ctx))
      PROVE  /\ runs' \in Seq(Run)
             /\ \A r \in DOMAIN runs : /\ r \in DOMAIN runs' /\ runs'[r] = ts[r]
                                       /\ runs'[r].ex = runs[r].ex
                                       /\ Alive(runs'[r]) => Alive(runs[r])
             /\ \A r \in DOMAIN runs' \ DOMAIN runs : r = Len(runs) + 1 /\ runs'[r].ex = e
             /\ runs' # ts
  <2>1. /\ runs' \in Seq(Run)
        /\ DOMAIN runs' = 1..(Len(runs) + 1)
        /\ \A r \in DOMAIN runs : runs'[r] = ts[r]
        /\ runs'[Len(runs) + 1] = NewRun(e, ctx)
    BY <1>4, <1>5
  <2>2. \A r \in DOMAIN runs' \ DOMAIN runs : r = Len(runs) + 1
    BY <1>2, <2>1
  <2>3. NewRun(e, ctx).ex = e
    BY DEF NewRun
  <2>4. Len(runs) + 1 \in DOMAIN runs' /\ Len(runs) + 1 \notin DOMAIN ts
    BY <1>1, <1>2, <2>1
  <2>5. \A r \in DOMAIN runs : r \in DOMAIN runs'
    BY <1>2, <2>1
  <2> QED BY <1>1, <2>1, <2>2, <2>3, <2>4, <2>5
<1> QED BY <1>2, <1>3, <1>5, <1>1 DEF Began

\* One extraction changes, to y; a run may begin for it.
LEMMA PipeStep ==
    ASSUME PipelineInv, NEW e \in DOMAIN exs, NEW y \in Extracted,
           exs' = [exs EXCEPT ![e] = y],
           NEW ts, Quieter(runs, ts), Began(ts, e),
           \A i \in DOMAIN exs : Listed(i) => Listed(i)',
           \A r \in y.accum : r \in DOMAIN runs /\ runs[r].ex = e,
           ~y.late /\ y.ocr = "running" => ~y.done,
           \A r \in DOMAIN runs' : runs'[r].ex = e => RunFits(r, runs'[r], y, Listed(e)')
    PROVE  Pipelines' /\ Len(exs') = Len(exs) /\ DOMAIN exs' = DOMAIN exs
<1>1. exs \in Seq(Extracted) /\ DOMAIN exs = 1..Len(exs) /\ Len(exs) \in Nat /\ e \in Nat
  BY DEF PipelineInv, TypeOK
<1>2. exs' \in Seq(Extracted) /\ Len(exs') = Len(exs) /\ DOMAIN exs' = DOMAIN exs
  BY <1>1, ExceptSeq
<1>3. exs'[e] = y /\ \A i \in DOMAIN exs : i # e => exs'[i] = exs[i]
  BY <1>1
<1>4. /\ runs' \in Seq(Run)
      /\ \A r \in DOMAIN runs : /\ r \in DOMAIN runs' /\ runs'[r].ex = runs[r].ex
                                /\ Alive(runs'[r]) => Alive(runs[r])
      /\ \A r \in DOMAIN runs' \ DOMAIN runs : runs'[r].ex = e
  BY <1>1, RunsAfter
<1>5. \A r \in DOMAIN runs' : runs'[r].ex \in DOMAIN exs'
  <2>1. \A r \in DOMAIN runs : runs[r].ex \in DOMAIN exs
    BY DEF PipelineInv, TypeOK
  <2> QED BY <1>2, <1>4, <2>1
<1>6. OwnRuns'
  <2> SUFFICES ASSUME NEW i \in DOMAIN exs', NEW r \in exs'[i].accum
               PROVE  r \in DOMAIN runs' /\ runs'[r].ex = i
    BY DEF OwnRuns
  <2>1. CASE i = e
    BY <1>3, <1>4, <2>1
  <2>2. CASE i # e
    <3>1. r \in DOMAIN runs /\ runs[r].ex = i
      BY <1>2, <1>3, <2>2 DEF PipelineInv, OwnRuns
    <3> QED BY <1>4, <3>1
  <2> QED BY <2>1, <2>2
<1>7. EarlyOpen'
  BY <1>2, <1>3 DEF PipelineInv, EarlyOpen
<1>8. RunsFit'
  <2> SUFFICES ASSUME NEW r \in DOMAIN runs', NEW i \in DOMAIN exs', runs'[r].ex = i
               PROVE  RunFits(r, runs'[r], exs'[i], Listed(i)')
    BY DEF RunsFit
  <2>1. CASE i = e
    BY <1>3, <2>1
  <2>2. CASE i # e
    <3>1. r \in DOMAIN runs /\ runs[r].ex = i /\ (Alive(runs'[r]) => Alive(runs[r]))
      BY <1>4, <2>2
    <3>2. RunFits(r, runs[r], exs[i], Listed(i))
      BY <1>2, <3>1 DEF PipelineInv, RunsFit
    <3>3. exs'[i] = exs[i] /\ (Listed(i) => Listed(i)')
      BY <1>2, <1>3, <2>2
    <3> QED BY <3>1, <3>2, <3>3 DEF RunFits
  <2> QED BY <2>1, <2>2
<1> QED BY <1>2, <1>4, <1>5, <1>6, <1>7, <1>8 DEF Pipelines

LEMMA OverType ==
    ASSUME NEW x \in Extracted
    PROVE  /\ Over(x) \in Extracted
           /\ Over(x).accum = {} /\ Over(x).done /\ Over(x).ocr = "done" /\ Over(x).llm = "done"
           /\ Over(x).late = x.late /\ Over(x).hasLLM = x.hasLLM
BY DEF Over, Extracted, Statuses, Answer

\* Extractions are dropped, with no run of theirs alive.
LEMMA DropStep ==
    ASSUME PipelineInv, NEW es, exs' = Dropped(es), Quieter(runs, runs'),
           \A i \in DOMAIN exs \ es : Listed(i) => Listed(i)',
           \A r \in DOMAIN runs : runs[r].ex \in es =>
                exs[runs[r].ex].late \/ ~Alive(runs'[r])
    PROVE  Pipelines' /\ Len(exs') = Len(exs) /\ DOMAIN exs' = DOMAIN exs
<1>1. /\ exs \in Seq(Extracted) /\ DOMAIN exs = 1..Len(exs) /\ Len(exs) \in Nat
      /\ \A i \in DOMAIN exs : exs[i] \in Extracted
  BY DEF PipelineInv, TypeOK
<1>2. \A i \in DOMAIN exs : exs'[i] = IF i \in es THEN Over(exs[i]) ELSE exs[i]
  BY DEF Dropped
<1>3. exs' \in Seq(Extracted) /\ Len(exs') = Len(exs) /\ DOMAIN exs' = DOMAIN exs
  <2>1. \A i \in DOMAIN exs : exs'[i] \in Extracted
    BY <1>1, <1>2, OverType
  <2>2. exs' = [i \in 1..Len(exs) |-> exs'[i]]
    BY <1>1, <1>2 DEF Dropped
  <2>3. exs' \in [1..Len(exs) -> Extracted]
    BY <1>1, <2>1, <2>2
  <2> QED BY <1>1, <2>3
<1>4. /\ runs' \in Seq(Run) /\ DOMAIN runs' = DOMAIN runs
      /\ \A r \in DOMAIN runs : runs'[r].ex = runs[r].ex /\ (Alive(runs'[r]) => Alive(runs[r]))
  BY DEF Quieter
<1>5. \A r \in DOMAIN runs : runs[r].ex \in DOMAIN exs
  BY DEF PipelineInv, TypeOK
<1>6. OwnRuns'
  <2> SUFFICES ASSUME NEW i \in DOMAIN exs', NEW r \in exs'[i].accum
               PROVE  r \in DOMAIN runs' /\ runs'[r].ex = i
    BY DEF OwnRuns
  <2>1. i \notin es
    BY <1>1, <1>2, <1>3, OverType
  <2>2. r \in DOMAIN runs /\ runs[r].ex = i
    BY <1>2, <1>3, <2>1 DEF PipelineInv, OwnRuns
  <2> QED BY <1>4, <2>2
<1>7. EarlyOpen'
  <2> SUFFICES ASSUME NEW i \in DOMAIN exs', ~exs'[i].late, exs'[i].ocr = "running"
               PROVE  ~exs'[i].done
    BY DEF EarlyOpen
  <2>1. i \notin es
    BY <1>1, <1>2, <1>3, OverType
  <2> QED BY <1>2, <1>3, <2>1 DEF PipelineInv, EarlyOpen
<1>8. RunsFit'
  <2> SUFFICES ASSUME NEW r \in DOMAIN runs', NEW i \in DOMAIN exs', runs'[r].ex = i
               PROVE  RunFits(r, runs'[r], exs'[i], Listed(i)')
    BY DEF RunsFit
  <2>1. /\ r \in DOMAIN runs /\ runs[r].ex = i /\ i \in DOMAIN exs
        /\ (Alive(runs'[r]) => Alive(runs[r]))
    BY <1>3, <1>4
  <2>2. RunFits(r, runs[r], exs[i], Listed(i))
    BY <2>1 DEF PipelineInv, RunsFit
  <2>3. CASE i \notin es
    BY <1>2, <2>1, <2>2, <2>3 DEF RunFits
  <2>4. CASE i \in es
    <3>1. /\ exs'[i].late = exs[i].late /\ exs'[i].hasLLM = exs[i].hasLLM
          /\ exs'[i].ocr = "done" /\ exs'[i].llm = "done"
      BY <1>1, <1>2, <2>1, <2>4, OverType
    <3>2. exs[i].late \/ ~Alive(runs'[r])
      BY <2>1, <2>4
    <3> QED BY <2>2, <3>1, <3>2 DEF RunFits
  <2> QED BY <2>3, <2>4
<1> QED BY <1>3, <1>4, <1>5, <1>6, <1>7, <1>8 DEF Pipelines

\* A new extraction, and its run when its text is known.
LEMMA StartStep ==
    ASSUME PipelineInv,
           NEW d \in Saved \cup {New}, NEW plan \in SUBSET {"ocr", "llm"}, Start(d, plan),
           NEW e, e = Len(exs) + 1
    PROVE  /\ Pipelines'
           /\ Len(exs') = Len(exs) + 1 /\ DOMAIN exs' = 1..(Len(exs) + 1)
           /\ front' = Len(exs) + 1 /\ shown' = TRUE
           /\ back' = IF front = 0 THEN back ELSE Append(back, front)
           /\ running' \subseteq [cmd : {"ocr", "ping"}, ex : DOMAIN exs']
<1> DEFINE x == Opened(d, plan)
<1>1. /\ exs \in Seq(Extracted) /\ DOMAIN exs = 1..Len(exs) /\ Len(exs) \in Nat
      /\ front \in {0} \cup DOMAIN exs /\ back \in Seq(DOMAIN exs)
      /\ running \subseteq [cmd : {"ocr", "ping"}, ex : DOMAIN exs]
  BY DEF PipelineInv, TypeOK
<1>2. e \in Nat /\ e \notin DOMAIN exs /\ e # 0
  BY <1>1
<1>3. plan \subseteq {"ocr", "llm"} /\ Len(runs) \in Nat
  BY DEF PipelineInv, TypeOK
<1>4. /\ x \in Extracted
      /\ x.accum = {} /\ ~x.done /\ ~x.late
      /\ plan = {"llm"} =>
            x.ocr # "running" /\ x.llm = "running" /\ x.hasLLM /\ x.cancelFn = Len(runs) + 1
  <2>1. (IF "ocr" \in plan THEN "running" ELSE "done") \in Statuses
    BY DEF Statuses
  <2>2. (IF plan = {"llm"} THEN "running" ELSE "pending") \in Statuses
    BY DEF Statuses
  <2>3. (IF plan = {"llm"} THEN Len(runs) + 1 ELSE 0) \in Nat
    BY <1>3
  <2>4. ("llm" \in plan) \in BOOLEAN /\ "none" \in Answer
    BY DEF Answer
  <2>5. x \in Extracted
    BY <2>1, <2>2, <2>3, <2>4 DEF Opened, Extracted
  <2>6. x.accum = {} /\ ~x.done /\ ~x.late
    BY DEF Opened
  <2>7. plan = {"llm"} =>
            x.ocr # "running" /\ x.llm = "running" /\ x.hasLLM /\ x.cancelFn = Len(runs) + 1
    <3> SUFFICES ASSUME plan = {"llm"}
                 PROVE  x.ocr = "done" /\ x.llm = "running" /\ x.hasLLM
                        /\ x.cancelFn = Len(runs) + 1
      OBVIOUS
    <3>1. "ocr" \notin plan /\ "llm" \in plan
      OBVIOUS
    <3>2. x.ocr = IF "ocr" \in plan THEN "running" ELSE "done"
      BY DEF Opened
    <3>3. x.llm = IF plan = {"llm"} THEN "running" ELSE "pending"
      BY DEF Opened
    <3>4. x.hasLLM = ("llm" \in plan)
      BY DEF Opened
    <3>5. x.cancelFn = IF plan = {"llm"} THEN Len(runs) + 1 ELSE 0
      BY DEF Opened
    <3> HIDE DEF x
    <3> QED BY <3>1, <3>2, <3>3, <3>4, <3>5
  <2> QED BY <2>5, <2>6, <2>7
<1>5. exs' = Append(exs, x)
  BY DEF Start
<1>6. /\ front' = e /\ shown' = TRUE
      /\ back' = IF front = 0 THEN back ELSE Append(back, front)
  BY DEF Start
<1>7. \A i \in DOMAIN exs : Listed(i) => Listed(i)'
  <2>1. CASE front = 0
    BY <1>1, <1>6, <2>1 DEF Listed
  <2>2. CASE front # 0
    <3>1. front \in DOMAIN exs
      BY <1>1, <2>2
    <3>2. /\ DOMAIN back = 1..Len(back) /\ Len(back) \in Nat
          /\ DOMAIN Append(back, front) = 1..(Len(back) + 1)
          /\ \A k \in 1..(Len(back) + 1) :
                Append(back, front)[k] = IF k <= Len(back) THEN back[k] ELSE front
      <4>1. back \in Seq(DOMAIN exs)
        BY <1>1
      <4> QED BY <3>1, <4>1, SeqDomain, Longer
    <3>3. front \in ToSet(back')
      <4>1. Len(back) + 1 \in DOMAIN back' /\ back'[Len(back) + 1] = front
        BY <1>6, <2>2, <3>2
      <4> QED BY <4>1 DEF ToSet
    <3>4. ToSet(back) \subseteq ToSet(back')
      <4>1. \A k \in DOMAIN back : k \in DOMAIN back' /\ back'[k] = back[k]
        BY <1>6, <2>2, <3>2
      <4> QED BY <4>1 DEF ToSet
    <3> QED BY <3>3, <3>4 DEF Listed
  <2> QED BY <2>1, <2>2
<1> HIDE DEF x
<1>8. /\ exs' \in Seq(Extracted) /\ Len(exs') = e /\ DOMAIN exs' = 1..e
      /\ exs'[e] = x /\ \A i \in DOMAIN exs : exs'[i] = exs[i]
  BY <1>1, <1>4, <1>5
<1>9. \A i \in DOMAIN exs' : i = e \/ i \in DOMAIN exs
  BY <1>1, <1>8
<1>10. Began(runs, e)
  BY DEF Began, Start
<1>11. Quieter(runs, runs)
  BY QuieterSame DEF PipelineInv, TypeOK
<1>12. /\ runs' \in Seq(Run)
       /\ \A r \in DOMAIN runs : /\ r \in DOMAIN runs' /\ runs'[r] = runs[r]
       /\ \A r \in DOMAIN runs' \ DOMAIN runs : r = Len(runs) + 1 /\ runs'[r].ex = e
       /\ runs' = runs => DOMAIN runs' = DOMAIN runs
  BY <1>2, <1>10, <1>11, RunsAfter
<1>13. \A r \in DOMAIN runs : runs[r].ex \in DOMAIN exs
  BY DEF PipelineInv, TypeOK
<1>14. \A r \in DOMAIN runs' : runs'[r].ex \in DOMAIN exs'
  BY <1>1, <1>2, <1>8, <1>12, <1>13
<1>15. OwnRuns'
  BY <1>4, <1>8, <1>9, <1>12 DEF PipelineInv, OwnRuns
<1>16. EarlyOpen'
  BY <1>4, <1>8, <1>9 DEF PipelineInv, EarlyOpen
<1>17. RunsFit'
  <2> SUFFICES ASSUME NEW r \in DOMAIN runs', NEW i \in DOMAIN exs', runs'[r].ex = i
               PROVE  RunFits(r, runs'[r], exs'[i], Listed(i)')
    BY DEF RunsFit
  <2>1. CASE r \in DOMAIN runs
    <3>1. runs'[r] = runs[r] /\ runs[r].ex = i /\ i \in DOMAIN exs
      BY <1>12, <1>13, <2>1
    <3>2. RunFits(r, runs[r], exs[i], Listed(i))
      BY <2>1, <3>1 DEF PipelineInv, RunsFit
    <3> QED BY <1>7, <1>8, <3>1, <3>2 DEF RunFits
  <2>2. CASE r \notin DOMAIN runs
    <3>1. r = Len(runs) + 1 /\ i = e /\ runs' # runs
      BY <1>12, <2>2
    <3>2. plan = {"llm"}
      BY <3>1 DEF Start
    <3>3. Listed(e)'
      BY <1>6 DEF Listed
    <3> QED BY <1>4, <1>8, <3>1, <3>2, <3>3 DEF RunFits
  <2> QED BY <2>1, <2>2
<1>18. running' \subseteq [cmd : {"ocr", "ping"}, ex : DOMAIN exs']
  <2>1. e \in DOMAIN exs' /\ DOMAIN exs \subseteq DOMAIN exs'
    BY <1>1, <1>8
  <2> QED BY <1>1, <2>1 DEF Start
<1> QED BY <1>6, <1>8, <1>12, <1>14, <1>15, <1>16, <1>17, <1>18 DEF Pipelines

\* No extraction changes, and no run comes alive.
LEMMA QuietStep ==
    ASSUME PipelineInv, exs' = exs, Quieter(runs, runs'),
           \A i \in DOMAIN exs : Listed(i) => Listed(i)'
    PROVE  Pipelines' /\ Len(exs') = Len(exs) /\ DOMAIN exs' = DOMAIN exs
<1>1. exs \in Seq(Extracted) /\ exs = [i \in DOMAIN exs |-> exs[i]]
  BY DEF PipelineInv, TypeOK
<1>2. exs' = Dropped({})
  BY <1>1 DEF Dropped
<1> QED BY <1>2, DropStep

\* What PipelineInv says of one extraction and of a run of it.
LEMMA OneOf ==
    ASSUME PipelineInv, NEW e \in DOMAIN exs
    PROVE  /\ exs[e] \in Extracted
           /\ \A r \in exs[e].accum : r \in DOMAIN runs /\ runs[r].ex = e
           /\ ~exs[e].late /\ exs[e].ocr = "running" => ~exs[e].done
           /\ \A r \in DOMAIN runs : runs[r].ex = e => RunFits(r, runs[r], exs[e], Listed(e))
<1>1. exs[e] \in Extracted
  BY DEF PipelineInv, TypeOK
<1>2. \A r \in exs[e].accum : r \in DOMAIN runs /\ runs[r].ex = e
  BY DEF PipelineInv, OwnRuns
<1>3. ~exs[e].late /\ exs[e].ocr = "running" => ~exs[e].done
  BY DEF PipelineInv, EarlyOpen
<1>4. \A r \in DOMAIN runs : runs[r].ex = e => RunFits(r, runs[r], exs[e], Listed(e))
  BY DEF PipelineInv, RunsFit
<1> QED BY <1>1, <1>2, <1>3, <1>4

\* The last of the OCR's messages.
LEMMA OCRKeeps ==
    ASSUME PipelineInv, NEW c \in running, OCRResult(c)
    PROVE  Pipelines' /\ Len(exs') = Len(exs) /\ DOMAIN exs' = DOMAIN exs
<1>1. PICK e \in DOMAIN exs : e = c.ex
  BY DEF PipelineInv, TypeOK
<1>2. UNCHANGED display
  BY DEF OCRResult
<1>3. \A i \in DOMAIN exs : Listed(i) => Listed(i)'
  BY <1>2 DEF Listed, display
<1>4. runs \in Seq(Run) /\ e \in Nat /\ Len(runs) \in Nat
  BY DEF PipelineInv, TypeOK
<1>5. Quieter(runs, runs)
  BY <1>4, QuieterSame
<1>6. CASE ~Listed(e)
  <2>1. UNCHANGED <<exs, runs>>
    BY <1>1, <1>6 DEF OCRResult
  <2> QED BY <1>3, <1>5, <2>1, QuietStep
<1>7. CASE Listed(e)
  <2> DEFINE x == exs[e]
  <2>1. /\ x \in Extracted
        /\ \A r \in x.accum : r \in DOMAIN runs /\ runs[r].ex = e
        /\ ~x.late /\ x.ocr = "running" => ~x.done
        /\ \A r \in DOMAIN runs : runs[r].ex = e => RunFits(r, runs[r], x, Listed(e))
    BY OneOf
  <2>2. PICK status \in {"done", "failed"} :
            IF CanStartLLM(x)
            THEN /\ runs' = Append(runs, NewRun(e, x.ctx))
                 /\ exs' = [exs EXCEPT ![e] =
                        [Running(x, Len(runs) + 1) EXCEPT !.ocr = status, !.late = @ \/ x.ocr # "running"]]
            ELSE /\ exs' = [exs EXCEPT ![e].ocr = status, ![e].done = TRUE]
                 /\ UNCHANGED runs
    BY <1>1, <1>7 DEF OCRResult
  <2>3. CASE CanStartLLM(x)
    <3> DEFINE y == [Running(x, Len(runs) + 1) EXCEPT !.ocr = status, !.late = @ \/ x.ocr # "running"]
    <3>1. y = [x EXCEPT !.llm = "running", !.cancelFn = Len(runs) + 1,
                        !.ocr = status, !.late = @ \/ x.ocr # "running"]
      BY <2>1 DEF Running, Extracted
    <3>2. /\ y \in Extracted /\ y.accum = x.accum /\ y.ocr = status /\ y.llm = "running"
          /\ y.cancelFn = Len(runs) + 1 /\ y.done = x.done /\ y.hasLLM = x.hasLLM
          /\ y.late = (x.late \/ x.ocr # "running")
      <4>1. status \in Statuses /\ "running" \in Statuses /\ Len(runs) + 1 \in Nat
            /\ (x.late \/ x.ocr # "running") \in BOOLEAN
        BY <1>4 DEF Statuses
      <4> HIDE DEF x
      <4> QED BY <2>1, <3>1, <4>1 DEF Extracted
    <3>3. exs' = [exs EXCEPT ![e] = y]
      BY <2>2, <2>3
    <3>4. x.hasLLM /\ x.ctx \in {"live", "cancelled"}
      BY <2>1, <2>3 DEF CanStartLLM, Extracted
    <3>5. Began(runs, e)
      BY <2>2, <2>3, <3>4 DEF Began
    <3> HIDE DEF y, x
    <3>6. ASSUME NEW r \in DOMAIN runs', runs'[r].ex = e
          PROVE  RunFits(r, runs'[r], y, Listed(e)')
      <4>1. SUFFICES ASSUME ~y.late
                     PROVE  RunFits(r, runs'[r], y, Listed(e)')
        BY DEF RunFits
      <4>2. ~x.late /\ x.ocr = "running" /\ ~x.done
        BY <2>1, <3>2, <4>1
      <4>3. r \notin DOMAIN runs
        <5>1. SUFFICES ASSUME r \in DOMAIN runs
                       PROVE  FALSE
          OBVIOUS
        <5>2. runs[r].ex = e
          BY <1>4, <1>5, <3>5, <3>6, <5>1, RunsAfter
        <5> QED BY <2>1, <4>2, <5>1, <5>2 DEF RunFits
      <4>4. r = Len(runs) + 1
        BY <1>4, <1>5, <3>5, <4>3, RunsAfter
      <4>5. Listed(e)'
        BY <1>3, <1>7
      <4>6. y.ocr # "running" /\ y.llm \notin {"pending", "skipped"} /\ y.hasLLM
            /\ ~y.done /\ y.cancelFn = r /\ y.llm = "running"
        BY <3>2, <3>4, <4>2, <4>4
      <4> QED BY <4>5, <4>6 DEF RunFits
    <3>7. \A r \in y.accum : r \in DOMAIN runs /\ runs[r].ex = e
      BY <2>1, <3>2
    <3>8. ~y.late /\ y.ocr = "running" => ~y.done
      BY <3>2
    <3> QED BY <1>3, <1>5, <3>2, <3>3, <3>5, <3>6, <3>7, <3>8, PipeStep
  <2>4. CASE ~CanStartLLM(x)
    <3> DEFINE y == [x EXCEPT !.ocr = status, !.done = TRUE]
    <3>1. /\ y \in Extracted /\ y.accum = x.accum /\ y.ocr = status /\ y.llm = x.llm
          /\ y.hasLLM = x.hasLLM /\ y.late = x.late
      <4>1. status \in Statuses
        BY DEF Statuses
      <4> HIDE DEF x
      <4> QED BY <2>1, <4>1 DEF Extracted
    <3>2. exs' = [exs EXCEPT ![e] = y] /\ runs' = runs
      BY <2>2, <2>4
    <3>3. Began(runs, e)
      BY <3>2 DEF Began
    <3>4. ~x.hasLLM \/ x.llm = "skipped"
      BY <2>4 DEF CanStartLLM
    <3> HIDE DEF y, x
    <3>5. ASSUME NEW r \in DOMAIN runs', runs'[r].ex = e
          PROVE  RunFits(r, runs'[r], y, Listed(e)')
      BY <2>1, <3>1, <3>2, <3>4, <3>5 DEF RunFits
    <3>6. \A r \in y.accum : r \in DOMAIN runs /\ runs[r].ex = e
      BY <2>1, <3>1
    <3>7. ~y.late /\ y.ocr = "running" => ~y.done
      BY <3>1
    <3> QED BY <1>3, <1>5, <3>1, <3>2, <3>3, <3>5, <3>6, <3>7, PipeStep
  <2> QED BY <2>3, <2>4
<1> QED BY <1>6, <1>7

\* The answer of the ping.
LEMMA PingKeeps ==
    ASSUME PipelineInv, NEW c \in running, PingResult(c)
    PROVE  Pipelines' /\ Len(exs') = Len(exs) /\ DOMAIN exs' = DOMAIN exs
<1>1. PICK e \in DOMAIN exs : e = c.ex
  BY DEF PipelineInv, TypeOK
<1>2. UNCHANGED display /\ runs' = runs
  BY DEF PingResult
<1>3. \A i \in DOMAIN exs : Listed(i) => Listed(i)'
  BY <1>2 DEF Listed, display
<1>4. Quieter(runs, runs) /\ Began(runs, e)
  BY <1>2, QuieterSame DEF PipelineInv, TypeOK, Began
<1>5. CASE UNCHANGED exs
  BY <1>2, <1>3, <1>4, <1>5, QuietStep
<1>6. CASE exs' = [exs EXCEPT ![e].llm = "skipped",
                              ![e].done = @ \/ Settled(exs[e].ocr),
                              ![e].late = @ \/ exs[e].llm # "pending"]
  <2> DEFINE x == exs[e]
             y == [x EXCEPT !.llm = "skipped", !.done = @ \/ Settled(x.ocr),
                            !.late = @ \/ x.llm # "pending"]
  <2>1. /\ x \in Extracted
        /\ \A r \in x.accum : r \in DOMAIN runs /\ runs[r].ex = e
        /\ ~x.late /\ x.ocr = "running" => ~x.done
        /\ \A r \in DOMAIN runs : runs[r].ex = e => RunFits(r, runs[r], x, Listed(e))
    BY OneOf
  <2>2. exs' = [exs EXCEPT ![e] = y]
    BY <1>6
  <2>3. /\ y \in Extracted /\ y.accum = x.accum /\ y.ocr = x.ocr
        /\ y.done = (x.done \/ Settled(x.ocr)) /\ y.late = (x.late \/ x.llm # "pending")
    <3>1. "skipped" \in Statuses /\ (x.done \/ Settled(x.ocr)) \in BOOLEAN
          /\ (x.late \/ x.llm # "pending") \in BOOLEAN
      BY DEF Statuses
    <3> HIDE DEF x
    <3> QED BY <2>1, <3>1 DEF Extracted
  <2> HIDE DEF x, y
  <2>4. \A r \in DOMAIN runs : runs[r].ex = e => RunFits(r, runs[r], y, Listed(e)')
    BY <2>1, <2>3 DEF RunFits
  <2>5. ~y.late /\ y.ocr = "running" => ~y.done
    BY <2>1, <2>3 DEF Settled
  <2>6. \A r \in y.accum : r \in DOMAIN runs /\ runs[r].ex = e
    BY <2>1, <2>3
  <2> QED BY <1>2, <1>3, <1>4, <2>2, <2>3, <2>4, <2>5, <2>6, PipeStep
<1> QED BY <1>1, <1>5, <1>6 DEF PingResult

\* The model begins to answer.
LEMMA StreamKeeps ==
    ASSUME PipelineInv, NEW r \in DOMAIN runs, StreamStarts(r)
    PROVE  Pipelines' /\ Len(exs') = Len(exs) /\ DOMAIN exs' = DOMAIN exs
<1>1. PICK e \in DOMAIN exs : e = runs[r].ex
  BY DEF PipelineInv, TypeOK
<1>2. UNCHANGED display /\ runs[r].at = "asked"
  BY DEF StreamStarts
<1>3. \A i \in DOMAIN exs : Listed(i) => Listed(i)'
  BY <1>2 DEF Listed, display
<1>4. runs \in Seq(Run) /\ runs[r] \in Run /\ r \in Nat
  BY DEF PipelineInv, TypeOK
<1>5. Quieter(runs, runs')
  <2> DEFINE n == IF Listed(e) THEN 1 ELSE 0
             run == [runs[r] EXCEPT !.at = "open", !.readers = n]
  <2>1. runs' = [runs EXCEPT ![r] = run]
    BY <1>1 DEF StreamStarts
  <2>2. run \in Run /\ run.ex = runs[r].ex /\ run.ctx = runs[r].ctx
    <3>1. n \in Nat
      OBVIOUS
    <3> HIDE DEF n
    <3> QED BY <1>4, <3>1 DEF Run
  <2>3. Alive(run) => Alive(runs[r])
    BY <1>2, <2>2 DEF Alive
  <2> HIDE DEF run
  <2> QED BY <1>4, <2>1, <2>2, <2>3, RunChanged
<1>6. CASE ~Listed(e)
  <2>1. exs' = exs
    BY <1>1, <1>6 DEF StreamStarts
  <2> QED BY <1>3, <1>5, <2>1, QuietStep
<1>7. CASE Listed(e)
  <2> DEFINE x == exs[e]
             y == [x EXCEPT !.llmCh = r]
  <2>1. /\ x \in Extracted
        /\ \A q \in x.accum : q \in DOMAIN runs /\ runs[q].ex = e
        /\ ~x.late /\ x.ocr = "running" => ~x.done
        /\ \A q \in DOMAIN runs : runs[q].ex = e => RunFits(q, runs[q], x, Listed(e))
    BY OneOf
  <2>2. exs' = [exs EXCEPT ![e] = y]
    BY <1>1, <1>7 DEF StreamStarts
  <2>3. /\ y \in Extracted /\ y.accum = x.accum /\ y.ocr = x.ocr /\ y.llm = x.llm
        /\ y.done = x.done /\ y.late = x.late /\ y.hasLLM = x.hasLLM /\ y.cancelFn = x.cancelFn
    <3> HIDE DEF x
    <3> QED BY <1>4, <2>1 DEF Extracted
  <2> HIDE DEF x, y
  <2>4. Began(runs', e)
    BY DEF Began
  <2>5. \A q \in DOMAIN runs' : runs'[q].ex = e => RunFits(q, runs'[q], y, Listed(e)')
    BY <1>3, <1>5, <2>1, <2>3 DEF Quieter, RunFits
  <2>6. ~y.late /\ y.ocr = "running" => ~y.done
    BY <2>1, <2>3
  <2>7. \A q \in y.accum : q \in DOMAIN runs /\ runs[q].ex = e
    BY <2>1, <2>3
  <2> QED BY <1>3, <1>5, <2>2, <2>3, <2>4, <2>5, <2>6, <2>7, PipeStep
<1> QED BY <1>6, <1>7

\* The extraction x once it is over as y, its run stopped.
Ended(x, y) ==
    /\ y \in Extracted
    /\ y.done /\ y.llm \in {"done", "failed"} /\ y.hasLLM = x.hasLLM
    /\ y.late = x.late /\ y.accum \subseteq x.accum
    /\ x.ocr # "running" => y.ocr # "running"

LEMMA EndStep ==
    ASSUME PipelineInv, NEW r \in DOMAIN runs, NEW e \in DOMAIN exs, e = runs[r].ex,
           NEW y, Ended([exs[e] EXCEPT !.accum = @ \cup {r}], y),
           NEW ts, Quieter(runs, ts),
           runs' = CancelRun(ts, exs[e].cancelFn), exs' = [exs EXCEPT ![e] = y],
           UNCHANGED display
    PROVE  Pipelines' /\ Len(exs') = Len(exs) /\ DOMAIN exs' = DOMAIN exs
<1> DEFINE x == exs[e]
<1>1. \A i \in DOMAIN exs : Listed(i) => Listed(i)'
  BY DEF Listed, display
<1>2. /\ x \in Extracted
      /\ \A q \in x.accum : q \in DOMAIN runs /\ runs[q].ex = e
      /\ \A q \in DOMAIN runs : runs[q].ex = e => RunFits(q, runs[q], x, Listed(e))
  BY OneOf
<1> HIDE DEF x
<1>3. /\ y \in Extracted /\ y.done /\ y.llm \in {"done", "failed"} /\ y.hasLLM = x.hasLLM
      /\ y.late = x.late /\ y.accum \subseteq x.accum \cup {r}
      /\ x.ocr # "running" => y.ocr # "running"
  BY <1>2 DEF Ended, x, Extracted
<1>4. ts \in Seq(Run) /\ DOMAIN ts = DOMAIN runs
  BY DEF Quieter
<1>5. Quieter(ts, runs') /\ (x.cancelFn \in DOMAIN ts => ~Alive(runs'[x.cancelFn]))
  BY <1>4, CancelRunQuiet DEF x
<1>6. Quieter(runs, runs')
  BY <1>5, QuieterTwice
<1>7. Began(runs', e)
  BY DEF Began
<1>8. ASSUME NEW q \in DOMAIN runs', runs'[q].ex = e
      PROVE  RunFits(q, runs'[q], y, Listed(e)')
  <2>1. /\ q \in DOMAIN runs /\ runs[q].ex = e /\ (Alive(runs'[q]) => Alive(runs[q]))
        /\ q \in DOMAIN ts
    BY <1>4, <1>6, <1>8 DEF Quieter
  <2>2. RunFits(q, runs[q], x, Listed(e))
    BY <1>2, <2>1
  <2>3. ~x.late => ~Alive(runs'[q])
    BY <1>5, <2>1, <2>2 DEF RunFits
  <2> QED BY <1>3, <2>2, <2>3 DEF RunFits
<1>9. ~y.late /\ y.ocr = "running" => ~y.done
  <2>1. RunFits(r, runs[r], x, Listed(e))
    BY <1>2
  <2> QED BY <1>3, <2>1 DEF RunFits
<1>10. \A q \in y.accum : q \in DOMAIN runs /\ runs[q].ex = e
  BY <1>2, <1>3
<1> QED BY <1>1, <1>3, <1>6, <1>7, <1>8, <1>9, <1>10, PipeStep

\* A chunk, an error or the end of the model's answer.
LEMMA ReadKeeps ==
    ASSUME PipelineInv, NEW r \in DOMAIN runs, NEW kind \in Kinds, ReadLLM(r, kind)
    PROVE  Pipelines' /\ Len(exs') = Len(exs) /\ DOMAIN exs' = DOMAIN exs
<1>1. PICK e \in DOMAIN exs : e = runs[r].ex
  BY DEF PipelineInv, TypeOK
<1>2. UNCHANGED display /\ Delivers(r, kind)
  BY DEF ReadLLM
<1>3. \A i \in DOMAIN exs : Listed(i) => Listed(i)'
  BY <1>2 DEF Listed, display
<1>4. runs \in Seq(Run) /\ r \in Nat /\ TypeOK
  BY DEF PipelineInv, TypeOK
<1>5. PICK ts : ts = Taken(r, kind)
  OBVIOUS
<1>6. Quieter(runs, ts)
  BY <1>2, <1>4, <1>5, TakenQuiet
<1>7. /\ exs[e] \in Extracted
      /\ \A q \in exs[e].accum : q \in DOMAIN runs /\ runs[q].ex = e
      /\ ~exs[e].late /\ exs[e].ocr = "running" => ~exs[e].done
      /\ \A q \in DOMAIN runs : runs[q].ex = e => RunFits(q, runs[q], exs[e], Listed(e))
  BY OneOf
<1> DEFINE x == [exs[e] EXCEPT !.accum = IF kind \in {"text", "done"} THEN @ \cup {r} ELSE @]
           z == [exs[e] EXCEPT !.accum = @ \cup {r}]
<1>8. /\ x \in Extracted /\ x.ocr = exs[e].ocr /\ x.llm = exs[e].llm
      /\ x.done = exs[e].done /\ x.late = exs[e].late /\ x.hasLLM = exs[e].hasLLM
      /\ x.cancelFn = exs[e].cancelFn /\ x.accum \subseteq exs[e].accum \cup {r}
  <2> DEFINE a == IF kind \in {"text", "done"} THEN exs[e].accum \cup {r} ELSE exs[e].accum
  <2>1. a \in SUBSET Nat /\ a \subseteq exs[e].accum \cup {r}
    BY <1>4, <1>7 DEF Extracted
  <2>2. x = [exs[e] EXCEPT !.accum = a]
    OBVIOUS
  <2> HIDE DEF a
  <2> QED BY <1>7, <2>1, <2>2 DEF Extracted
<1>9. z.ocr = exs[e].ocr /\ z.late = exs[e].late /\ z.hasLLM = exs[e].hasLLM
      /\ z.accum = exs[e].accum \cup {r}
  BY <1>7 DEF Extracted
<1>10. \/ /\ ~Listed(e)
          /\ runs' = ts
          /\ UNCHANGED exs
       \/ /\ Listed(e) /\ kind = "error"
          /\ runs' = CancelRun(ts, x.cancelFn)
          /\ exs' = [exs EXCEPT ![e] = [x EXCEPT !.llm = "failed", !.done = TRUE, !.cancelFn = 0]]
       \/ /\ Listed(e) /\ kind \in {"done", "closed"} /\ x.llm = "running"
          /\ runs' = CancelRun(ts, x.cancelFn)
          /\ \E y \in Answered(x) : exs' = [exs EXCEPT ![e] = y]
       \/ /\ Listed(e) /\ kind # "error" /\ (kind = "text" \/ x.llm # "running")
          /\ runs' = [ts EXCEPT ![x.llmCh].readers = @ + 1]
          /\ exs' = [exs EXCEPT ![e] = x]
  BY <1>1, <1>5 DEF ReadLLM, Owner
<1> HIDE DEF x, z
<1>11. CASE runs' = ts /\ UNCHANGED exs
  BY <1>3, <1>6, <1>11, QuietStep
<1>12. ASSUME NEW y, Ended(x, y), exs' = [exs EXCEPT ![e] = y], runs' = CancelRun(ts, x.cancelFn)
       PROVE  Pipelines' /\ Len(exs') = Len(exs) /\ DOMAIN exs' = DOMAIN exs
  <2>1. Ended(z, y)
    BY <1>8, <1>9, <1>12 DEF Ended
  <2>2. runs' = CancelRun(ts, exs[e].cancelFn)
    BY <1>8, <1>12
  <2> QED BY <1>1, <1>2, <1>6, <1>12, <2>1, <2>2, EndStep DEF z
<1>13. CASE /\ kind = "error"
            /\ runs' = CancelRun(ts, x.cancelFn)
            /\ exs' = [exs EXCEPT ![e] = [x EXCEPT !.llm = "failed", !.done = TRUE, !.cancelFn = 0]]
  <2>1. Ended(x, [x EXCEPT !.llm = "failed", !.done = TRUE, !.cancelFn = 0])
    BY <1>8 DEF Ended, Extracted, Statuses
  <2> QED BY <1>12, <1>13, <2>1
<1>14. CASE /\ runs' = CancelRun(ts, x.cancelFn)
            /\ \E y \in Answered(x) : exs' = [exs EXCEPT ![e] = y]
  <2>1. PICK y \in Answered(x) : exs' = [exs EXCEPT ![e] = y]
    BY <1>14
  <2>2. CASE y = [x EXCEPT !.done = TRUE, !.llm = "failed", !.cancelFn = 0]
    <3>1. Ended(x, y)
      BY <1>8, <2>2 DEF Ended, Extracted, Statuses
    <3> QED BY <1>12, <1>14, <2>1, <3>1
  <2>3. ASSUME NEW ops \in Answer,
               y = [x EXCEPT !.done = TRUE, !.llm = "done", !.cancelFn = 0, !.ops = ops, !.staged = TRUE]
        PROVE  Pipelines' /\ Len(exs') = Len(exs) /\ DOMAIN exs' = DOMAIN exs
    <3>1. Ended(x, y)
      BY <1>8, <2>3 DEF Ended, Extracted, Statuses
    <3> QED BY <1>12, <1>14, <2>1, <3>1
  <2> QED BY <2>1, <2>2, <2>3 DEF Answered
<1>15. CASE /\ Listed(e)
            /\ runs' = [ts EXCEPT ![x.llmCh].readers = @ + 1]
            /\ exs' = [exs EXCEPT ![e] = x]
  <2>1. Quieter(ts, runs')
    BY <1>6, <1>15, ReaderQuiet DEF Quieter
  <2>2. Quieter(runs, runs') /\ Began(runs', e)
    BY <1>6, <2>1, QuieterTwice DEF Began
  <2>3. \A q \in DOMAIN runs' : runs'[q].ex = e => RunFits(q, runs'[q], x, Listed(e)')
    BY <1>3, <1>7, <1>8, <2>2 DEF Quieter, RunFits
  <2>4. ~x.late /\ x.ocr = "running" => ~x.done
    BY <1>7, <1>8
  <2>5. \A q \in x.accum : q \in DOMAIN runs /\ runs[q].ex = e
    BY <1>1, <1>7, <1>8
  <2>6. PICK y \in Extracted : y = x
    BY <1>8
  <2>7. PICK us : us = runs'
    OBVIOUS
  <2>8. Quieter(runs, us) /\ Began(us, e) /\ exs' = [exs EXCEPT ![e] = y]
    BY <1>15, <2>2, <2>6, <2>7
  <2> QED BY <1>3, <2>3, <2>4, <2>5, <2>6, <2>8, PipeStep
<1> QED BY <1>10, <1>11, <1>13, <1>14, <1>15

\* The pipeline is interrupted.
LEMMA InterruptKeeps ==
    ASSUME PipelineInv, Interrupt
    PROVE  Pipelines' /\ Len(exs') = Len(exs) /\ DOMAIN exs' = DOMAIN exs
<1>1. PICK e \in DOMAIN exs : e = front
  BY DEF PipelineInv, TypeOK, Interrupt
<1>2. UNCHANGED display
  BY DEF Interrupt
<1>3. \A i \in DOMAIN exs : Listed(i) => Listed(i)'
  BY <1>2 DEF Listed, display
<1> DEFINE x == exs[e]
           y == Interrupted(x)
<1>4. /\ x \in Extracted
      /\ \A q \in x.accum : q \in DOMAIN runs /\ runs[q].ex = e
      /\ \A q \in DOMAIN runs : runs[q].ex = e => RunFits(q, runs[q], x, Listed(e))
  BY OneOf
<1>5. exs' = [exs EXCEPT ![e] = y] /\ runs' = CancelAll(runs, {e})
  BY <1>1 DEF Interrupt
<1>6. /\ y \in Extracted /\ y.accum = x.accum /\ y.late = x.late /\ y.hasLLM = x.hasLLM
      /\ y.ocr = (IF x.ocr = "running" THEN "failed" ELSE x.ocr)
      /\ y.llm = (IF x.llm = "running" THEN "failed" ELSE x.llm)
  <2> HIDE DEF x
  <2> QED BY <1>4 DEF Interrupted, Extracted, Statuses
<1> HIDE DEF x, y
<1>7. /\ Quieter(runs, runs')
      /\ \A q \in DOMAIN runs : runs[q].ex = e => ~Alive(runs'[q])
  BY <1>5, CancelAllQuiet DEF PipelineInv, TypeOK
<1>8. Began(runs', e)
  BY DEF Began
<1>9. \A q \in DOMAIN runs' : runs'[q].ex = e => RunFits(q, runs'[q], y, Listed(e)')
  BY <1>4, <1>6, <1>7 DEF Quieter, RunFits
<1>10. ~y.late /\ y.ocr = "running" => ~y.done
  BY <1>6
<1>11. \A q \in y.accum : q \in DOMAIN runs /\ runs[q].ex = e
  BY <1>4, <1>6
<1> QED BY <1>3, <1>5, <1>6, <1>7, <1>8, <1>9, <1>10, <1>11, PipeStep

\* The model is asked again.
LEMMA RerunKeeps ==
    ASSUME PipelineInv, Rerun, UNCHANGED display
    PROVE  Pipelines' /\ Len(exs') = Len(exs) /\ DOMAIN exs' = DOMAIN exs
<1>1. PICK e \in DOMAIN exs : e = front
  BY DEF PipelineInv, TypeOK, Rerun, CanRerun
<1>2. \A i \in DOMAIN exs : Listed(i) => Listed(i)'
  BY DEF Listed, display
<1>3. Listed(e) /\ Len(runs) \in Nat /\ runs \in Seq(Run) /\ e \in Nat
  BY <1>1 DEF Listed, PipelineInv, TypeOK
<1> DEFINE x == exs[e]
           y == RerunOf(x)
<1>4. /\ x \in Extracted
      /\ \A q \in x.accum : q \in DOMAIN runs /\ runs[q].ex = e
      /\ ~x.late /\ x.ocr = "running" => ~x.done
      /\ \A q \in DOMAIN runs : runs[q].ex = e => RunFits(q, runs[q], x, Listed(e))
  BY OneOf
<1>5. x.done /\ x.hasLLM
  BY <1>1 DEF Rerun, CanRerun
<1>6. PICK ts : ts = CancelRun(runs, x.cancelFn)
  OBVIOUS
<1>7. exs' = [exs EXCEPT ![e] = y] /\ runs' = Append(ts, NewRun(e, "live"))
  BY <1>1, <1>6 DEF Rerun
<1>8. y = [x EXCEPT !.llm = "running", !.cancelFn = Len(runs) + 1, !.ctx = "live",
                    !.accum = {}, !.ops = "none", !.staged = FALSE, !.done = FALSE]
  BY <1>4 DEF RerunOf, Running, Extracted
<1>9. /\ y \in Extracted /\ y.accum = {} /\ y.late = x.late /\ y.hasLLM = x.hasLLM
      /\ y.ocr = x.ocr /\ y.llm = "running" /\ ~y.done /\ y.cancelFn = Len(runs) + 1
  <2>1. Len(runs) + 1 \in Nat
    BY <1>3
  <2> HIDE DEF x, y
  <2> QED BY <1>4, <1>8, <2>1 DEF Extracted, Statuses, Answer
<1> HIDE DEF x, y
<1>10. Quieter(runs, ts)
  BY <1>3, <1>6, CancelRunQuiet
<1>11. Began(ts, e)
  BY <1>7 DEF Began
<1>12. ASSUME NEW q \in DOMAIN runs', runs'[q].ex = e
       PROVE  RunFits(q, runs'[q], y, Listed(e)')
  <2>1. CASE q \in DOMAIN runs
    <3>1. runs[q].ex = e /\ (Alive(runs'[q]) => Alive(runs[q]))
      BY <1>3, <1>10, <1>11, <1>12, <2>1, RunsAfter
    <3>2. RunFits(q, runs[q], x, Listed(e))
      BY <1>4, <2>1, <3>1
    <3> QED BY <1>5, <1>9, <3>1, <3>2 DEF RunFits
  <2>2. CASE q \notin DOMAIN runs
    <3>1. q = Len(runs) + 1
      BY <1>3, <1>10, <1>11, <1>12, <2>2, RunsAfter
    <3>2. ~x.late => x.ocr # "running"
      BY <1>4, <1>5
    <3> QED BY <1>2, <1>3, <1>5, <1>9, <3>1, <3>2 DEF RunFits
  <2> QED BY <2>1, <2>2
<1>13. ~y.late /\ y.ocr = "running" => ~y.done
  BY <1>9
<1>14. \A q \in y.accum : q \in DOMAIN runs /\ runs[q].ex = e
  BY <1>9
<1> QED BY <1>2, <1>3, <1>7, <1>9, <1>10, <1>11, <1>12, <1>13, <1>14, PipeStep

-----------------------------------------------------------------------------
(* Where the extractions are, and what they have written. *)

LEMMA MovedKeeps ==
    ASSUME PipelineInv, Pipelines', Len(exs') = Len(exs), DOMAIN exs' = DOMAIN exs,
           front' \in {0} \cup DOMAIN exs, shown' \in BOOLEAN, shown' => front' # 0,
           back' \in Seq(DOMAIN exs), OnePlace', WrittenGone',
           stored' \in Seq(Row), Len(stored') = Len(stored),
           running' \subseteq running, ready' \in BOOLEAN,
           queued' \in Saved \cup {None}, alive' \subseteq Saved
    PROVE  PipelineInv'
<1>1. TypeOK'
  <2>1. running' \subseteq [cmd : {"ocr", "ping"}, ex : DOMAIN exs']
    BY DEF PipelineInv, TypeOK
  <2>2. Len(stored') = Len(exs')
    BY DEF PipelineInv, TypeOK
  <2> QED BY <2>1, <2>2 DEF TypeOK, Pipelines
<1> QED BY <1>1 DEF PipelineInv, Pipelines

\* A step that moves no extraction and writes none of the operations.
LEMMA StayedKeeps ==
    ASSUME PipelineInv, Pipelines', Len(exs') = Len(exs), DOMAIN exs' = DOMAIN exs,
           front' = front, back' = back, shown' \in BOOLEAN, shown' => front # 0,
           \/ stored' = stored
           \/ /\ stored' \in Seq(Row)
              /\ Len(stored') = Len(stored) /\ DOMAIN stored' = DOMAIN stored
              /\ \A e \in DOMAIN stored : stored'[e].commits = stored[e].commits,
           running' \subseteq running, ready' \in BOOLEAN,
           queued' \in Saved \cup {None}, alive' \subseteq Saved
    PROVE  PipelineInv'
<1>1. OnePlace'
  BY DEF PipelineInv, OnePlace
<1>2. \A e \in DOMAIN stored : Listed(e)' = Listed(e)
  BY DEF Listed
<1>3. DOMAIN stored' = DOMAIN stored
      /\ \A e \in DOMAIN stored : stored'[e].commits = stored[e].commits
  OBVIOUS
<1>4. WrittenGone'
  BY <1>2, <1>3 DEF PipelineInv, WrittenGone
<1>5. stored' \in Seq(Row) /\ Len(stored') = Len(stored)
  BY DEF PipelineInv, TypeOK
<1> QED BY <1>1, <1>4, <1>5, MovedKeeps DEF PipelineInv, TypeOK

\* The extractions es are dropped, of which those that stay are not; with what
\* the one in the foreground has written, if it is dropped.
LEMMA GoneKeeps ==
    ASSUME PipelineInv, NEW es, exs' = Dropped(es), Quieter(runs, runs'),
           front' = 0, shown' = FALSE, front \in es,
           \/ back' = back
           \/ back' = <<>> /\ ToSet(back) \subseteq es,
           \A r \in DOMAIN runs : runs[r].ex \in es =>
                exs[runs[r].ex].late \/ ~Alive(runs'[r]),
           stored' \in Seq(Row), Len(stored') = Len(stored),
           \A e \in DOMAIN stored :
                \/ stored'[e].commits = stored[e].commits
                \/ e = front /\ stored'[e].commits = stored[e].commits + 1,
           running' \subseteq running, ready' \in BOOLEAN,
           queued' \in Saved \cup {None}, alive' \subseteq Saved
    PROVE  PipelineInv'
<1>1. /\ back \in Seq(DOMAIN exs)
      /\ DOMAIN exs = 1..Len(exs) /\ Len(exs) \in Nat
      /\ DOMAIN stored = DOMAIN exs
      /\ front \notin ToSet(back)
      /\ \A i, j \in DOMAIN back : i # j => back[i] # back[j]
  BY DEF PipelineInv, TypeOK, OnePlace
<1>2. \A i \in DOMAIN exs \ es : Listed(i) => Listed(i)'
  BY DEF Listed
<1>3. Pipelines' /\ Len(exs') = Len(exs) /\ DOMAIN exs' = DOMAIN exs
  BY <1>2, DropStep
<1>4. ToSet(back) \subseteq DOMAIN exs
  BY <1>1 DEF ToSet
<1>5. ToSet(back') \subseteq ToSet(back)
  BY DEF ToSet
<1>6. back' \in Seq(DOMAIN exs)
  <2>1. <<>> \in Seq(DOMAIN exs)
    OBVIOUS
  <2> QED BY <1>1, <2>1
<1>7. OnePlace'
  <2>1. 0 \notin ToSet(back')
    BY <1>1, <1>4, <1>5
  <2>2. \A i, j \in DOMAIN back' : i # j => back'[i] # back'[j]
    BY <1>1
  <2> QED BY <2>1, <2>2 DEF OnePlace
<1>8. WrittenGone'
  <2> SUFFICES ASSUME NEW e \in DOMAIN stored'
               PROVE  /\ stored'[e].commits \in {0, 1}
                      /\ stored'[e].commits = 1 => ~Listed(e)'
    BY DEF WrittenGone
  <2>1. e \in DOMAIN stored /\ e # 0
    <3>1. DOMAIN stored' = 1..Len(stored') /\ DOMAIN stored = 1..Len(stored)
      BY SeqDomain DEF PipelineInv, TypeOK
    <3>2. Len(stored) \in Nat
      BY SeqDomain DEF PipelineInv, TypeOK
    <3> QED BY <3>1, <3>2
  <2>2. Listed(e)' => Listed(e) /\ e # front
    BY <1>1, <1>5, <2>1 DEF Listed
  <2>3. stored[e].commits \in {0, 1} /\ (stored[e].commits = 1 => ~Listed(e))
    BY <2>1 DEF PipelineInv, WrittenGone
  <2>4. CASE stored'[e].commits = stored[e].commits
    BY <2>2, <2>3, <2>4
  <2>5. CASE e = front /\ stored'[e].commits = stored[e].commits + 1
    <3>1. Listed(e)
      BY <2>5 DEF Listed
    <3> QED BY <2>2, <2>3, <2>5, <3>1
  <2> QED BY <2>1, <2>4, <2>5
<1> QED BY <1>1, <1>3, <1>6, <1>7, <1>8, MovedKeeps

\* The same extractions, listed elsewhere.
LEMMA ShiftedKeeps ==
    ASSUME PipelineInv, exs' = exs, runs' = runs, stored' = stored,
           running' = running, ready' = ready, queued' = queued, alive' = alive,
           front' \in {0} \cup DOMAIN exs, shown' \in BOOLEAN, shown' => front' # 0,
           back' \in Seq(DOMAIN exs), OnePlace',
           \A i \in DOMAIN exs : Listed(i)' <=> Listed(i)
    PROVE  PipelineInv'
<1>1. Quieter(runs, runs')
  BY QuieterSame DEF PipelineInv, TypeOK
<1>2. Pipelines' /\ Len(exs') = Len(exs) /\ DOMAIN exs' = DOMAIN exs
  BY <1>1, QuietStep
<1>3. DOMAIN stored = DOMAIN exs
  BY DEF PipelineInv, TypeOK
<1>4. WrittenGone'
  BY <1>3 DEF PipelineInv, WrittenGone
<1> QED BY <1>2, <1>4, MovedKeeps DEF PipelineInv, TypeOK

LEMMA Appended ==
    ASSUME NEW S, NEW s \in Seq(S), NEW x \in S
    PROVE  /\ Append(s, x) \in Seq(S) /\ ToSet(Append(s, x)) = ToSet(s) \cup {x}
           /\ x \notin ToSet(s) /\ (\A i, j \in DOMAIN s : i # j => s[i] # s[j]) =>
                \A i, j \in DOMAIN Append(s, x) :
                    i # j => Append(s, x)[i] # Append(s, x)[j]
<1> DEFINE t == Append(s, x)
<1>1. /\ t \in Seq(S) /\ Len(s) \in Nat /\ DOMAIN s = 1..Len(s) /\ DOMAIN t = 1..(Len(s) + 1)
      /\ \A k \in 1..(Len(s) + 1) : t[k] = IF k <= Len(s) THEN s[k] ELSE x
  OBVIOUS
<1> HIDE DEF t
<1>2. \A k \in DOMAIN t : (k \in DOMAIN s /\ t[k] = s[k]) \/ (k = Len(s) + 1 /\ t[k] = x)
  BY <1>1
<1>3. \A k \in DOMAIN s : k \in DOMAIN t /\ t[k] = s[k]
  BY <1>1
<1>4. Len(s) + 1 \in DOMAIN t /\ t[Len(s) + 1] = x
  BY <1>1
<1>5. ToSet(t) = ToSet(s) \cup {x}
  BY <1>2, <1>3, <1>4 DEF ToSet
<1>6. ASSUME x \notin ToSet(s), \A i, j \in DOMAIN s : i # j => s[i] # s[j]
      PROVE  \A i, j \in DOMAIN t : i # j => t[i] # t[j]
  <2>1. \A i \in DOMAIN s : s[i] # x
    BY <1>6 DEF ToSet
  <2> QED BY <1>2, <1>6, <2>1
<1> QED BY <1>1, <1>5, <1>6 DEF t

LEMMA Removed ==
    ASSUME NEW S, NEW s \in Seq(S), NEW n \in 1..Len(s)
    PROVE  /\ RemoveAt(s, n) \in Seq(S) /\ Len(RemoveAt(s, n)) = Len(s) - 1
           /\ \A i \in 1..(Len(s) - 1) : RemoveAt(s, n)[i] = IF i < n THEN s[i] ELSE s[i + 1]
<1> DEFINE a == SubSeq(s, 1, n - 1)
           b == SubSeq(s, n + 1, Len(s))
<1>1. Len(s) \in Nat /\ n \in Nat /\ n >= 1 /\ n <= Len(s)
  OBVIOUS
<1>2. a \in Seq(S) /\ Len(a) = n - 1 /\ \A i \in 1..(n - 1) : a[i] = s[i]
  BY <1>1, SubSeqProperties
<1>3. b \in Seq(S) /\ Len(b) = Len(s) - n /\ \A i \in 1..(Len(s) - n) : b[i] = s[n + i]
  BY <1>1, SubSeqProperties
<1>4. RemoveAt(s, n) = a \o b
  BY DEF RemoveAt
<1> HIDE DEF a, b
<1>5. /\ a \o b \in Seq(S) /\ Len(a \o b) = Len(a) + Len(b)
      /\ \A i \in 1..(Len(a) + Len(b)) :
            (a \o b)[i] = IF i <= Len(a) THEN a[i] ELSE b[i - Len(a)]
  BY <1>2, <1>3, ConcatProperties
<1>6. ASSUME NEW i \in 1..(Len(s) - 1)
      PROVE  (a \o b)[i] = IF i < n THEN s[i] ELSE s[i + 1]
  <2>1. CASE i < n
    BY <1>1, <1>2, <1>3, <1>5, <1>6, <2>1
  <2>2. CASE ~(i < n)
    <3>1. i - (n - 1) \in 1..(Len(s) - n) /\ n + (i - (n - 1)) = i + 1
      BY <1>1, <1>6, <2>2
    <3>2. (a \o b)[i] = b[i - (n - 1)]
      BY <1>1, <1>2, <1>3, <1>5, <1>6, <2>2
    <3> QED BY <1>3, <2>2, <3>1, <3>2
  <2> QED BY <2>1, <2>2
<1>7. Len(a \o b) = Len(s) - 1
  BY <1>1, <1>2, <1>3, <1>5
<1> QED BY <1>4, <1>5, <1>6, <1>7

\* The foreground is left for another window.
LEMMA BackgroundKeeps ==
    ASSUME PipelineInv, Background
    PROVE  PipelineInv'
<1>1. /\ front \in DOMAIN exs /\ back \in Seq(DOMAIN exs)
      /\ DOMAIN exs = 1..Len(exs) /\ Len(exs) \in Nat
      /\ front \notin ToSet(back) /\ \A i, j \in DOMAIN back : i # j => back[i] # back[j]
  BY DEF PipelineInv, TypeOK, OnePlace, Background
<1>2. back' = Append(back, front) /\ front' = 0 /\ shown' = FALSE
  BY DEF Background
<1>3. /\ back' \in Seq(DOMAIN exs) /\ ToSet(back') = ToSet(back) \cup {front}
      /\ \A i, j \in DOMAIN back' : i # j => back'[i] # back'[j]
  BY <1>1, <1>2, Appended
<1>4. 0 \notin ToSet(back')
  <2>1. ToSet(back') \subseteq DOMAIN exs
    BY <1>3 DEF ToSet
  <2> QED BY <1>1, <2>1
<1>5. OnePlace'
  BY <1>2, <1>3, <1>4 DEF OnePlace
<1>6. \A i \in DOMAIN exs : Listed(i)' <=> Listed(i)
  BY <1>1, <1>2, <1>3 DEF Listed
<1> QED BY <1>2, <1>3, <1>5, <1>6, ShiftedKeeps DEF Background, store

\* The latest in the background is brought back.
LEMMA ForegroundKeeps ==
    ASSUME PipelineInv, Foreground
    PROVE  PipelineInv'
<1> DEFINE n == Len(back)
<1>1. /\ front \in {0} \cup DOMAIN exs /\ back \in Seq(DOMAIN exs)
      /\ DOMAIN exs = 1..Len(exs) /\ Len(exs) \in Nat
      /\ front \notin ToSet(back) /\ \A i, j \in DOMAIN back : i # j => back[i] # back[j]
  BY DEF PipelineInv, TypeOK, OnePlace
<1>2. n \in Nat \ {0} /\ DOMAIN back = 1..n
  BY <1>1 DEF Foreground
<1>3. PICK others : /\ others = IF front = 0 THEN back ELSE Append(back, front)
                    /\ back' = RemoveAt(others, n)
  BY DEF Foreground
<1>4. front' = back[n] /\ shown' = TRUE
  BY DEF Foreground, Last
<1>5. /\ others \in Seq(DOMAIN exs) /\ Len(others) = IF front = 0 THEN n ELSE n + 1
      /\ \A i \in 1..n : others[i] = back[i]
      /\ front # 0 => others[n + 1] = front
  <2>1. CASE front = 0
    BY <1>1, <1>3, <2>1
  <2>2. CASE front # 0
    <3>1. front \in DOMAIN exs
      BY <1>1, <2>2
    <3>2. /\ Append(back, front) \in Seq(DOMAIN exs) /\ Len(Append(back, front)) = n + 1
          /\ \A i \in 1..(n + 1) :
                Append(back, front)[i] = IF i <= n THEN back[i] ELSE front
      BY <1>1, <3>1
    <3>3. n + 1 \in 1..(n + 1) /\ ~(n + 1 <= n) /\ \A i \in 1..n : i \in 1..(n + 1) /\ i <= n
      BY <1>2
    <3> QED BY <1>3, <2>2, <3>2, <3>3
  <2> QED BY <2>1, <2>2
<1>8. /\ back' \in Seq(DOMAIN exs) /\ Len(back') = Len(others) - 1
      /\ \A i \in 1..(Len(others) - 1) : back'[i] = IF i < n THEN others[i] ELSE others[i + 1]
  <2>1. n \in 1..Len(others)
    BY <1>2, <1>5
  <2> HIDE DEF n
  <2> QED BY <1>3, <1>5, <2>1, Removed
<1>9. DOMAIN back' = 1..Len(back')
  BY <1>8
<1> HIDE DEF n
<1>10. \A i \in DOMAIN back' : \/ i \in 1..n /\ i # n /\ back'[i] = back[i]
                               \/ i = n /\ front # 0 /\ back'[i] = front
  BY <1>2, <1>5, <1>8, <1>9
<1>11. \A i \in 1..n : i # n => i \in DOMAIN back' /\ back'[i] = back[i]
  BY <1>2, <1>5, <1>8, <1>9
<1>12. front # 0 => n \in DOMAIN back' /\ back'[n] = front
  BY <1>2, <1>5, <1>8, <1>9
<1>13. \A i \in 1..n : back[i] # front /\ back[i] \in DOMAIN exs
  BY <1>1, <1>2 DEF ToSet
<1>14. OnePlace'
  <2>1. \A i \in DOMAIN back' : back'[i] # back[n]
    BY <1>1, <1>2, <1>10, <1>13
  <2>2. \A i, j \in DOMAIN back' : i # j => back'[i] # back'[j]
    BY <1>1, <1>2, <1>10, <1>13
  <2> QED BY <1>4, <2>1, <2>2 DEF OnePlace, ToSet
<1>15. ASSUME NEW i \in DOMAIN exs
       PROVE  Listed(i)' <=> Listed(i)
  <2>1. i # 0 /\ n \in 1..n
    BY <1>1, <1>2
  <2>2. ASSUME Listed(i)' PROVE Listed(i)
    <3>1. CASE i = back[n]
      BY <1>2, <2>1, <3>1 DEF Listed, ToSet
    <3>2. CASE \E k \in DOMAIN back' : i = back'[k]
      BY <1>2, <1>10, <3>2 DEF Listed, ToSet
    <3> QED BY <1>4, <2>2, <3>1, <3>2 DEF Listed, ToSet
  <2>3. ASSUME Listed(i) PROVE Listed(i)'
    <3>1. CASE i = front
      BY <1>12, <2>1, <3>1 DEF Listed, ToSet
    <3>2. CASE \E k \in DOMAIN back : i = back[k]
      BY <1>2, <1>4, <1>11, <3>2 DEF Listed, ToSet
    <3> QED BY <2>3, <3>1, <3>2 DEF Listed, ToSet
  <2> QED BY <2>2, <2>3
<1>16. front' \in DOMAIN exs /\ front' # 0
  BY <1>1, <1>2, <1>4, <1>13
<1> QED BY <1>4, <1>8, <1>14, <1>15, <1>16, ShiftedKeeps DEF Foreground, store

\* A new extraction is in the foreground, and has written nothing.
LEMMA StartKeeps ==
    ASSUME PipelineInv,
           NEW d \in Saved \cup {New}, NEW plan \in SUBSET {"ocr", "llm"}, Start(d, plan),
           ready' \in BOOLEAN, queued' \in Saved \cup {None}, alive' = alive
    PROVE  PipelineInv'
<1>1. PICK e : e = Len(exs) + 1
  OBVIOUS
<1>2. /\ Pipelines'
      /\ Len(exs') = Len(exs) + 1 /\ DOMAIN exs' = 1..(Len(exs) + 1)
      /\ front' = Len(exs) + 1 /\ shown' = TRUE
      /\ back' = IF front = 0 THEN back ELSE Append(back, front)
      /\ running' \subseteq [cmd : {"ocr", "ping"}, ex : DOMAIN exs']
  BY <1>1, StartStep
<1>3. /\ DOMAIN exs = 1..Len(exs) /\ Len(exs) \in Nat
      /\ stored \in Seq(Row)
      /\ Len(stored) = Len(exs) /\ DOMAIN stored = DOMAIN exs
      /\ front \in {0} \cup DOMAIN exs /\ back \in Seq(DOMAIN exs)
      /\ front \notin ToSet(back) /\ \A i, j \in DOMAIN back : i # j => back[i] # back[j]
      /\ alive \subseteq Saved
  BY SeqDomain DEF PipelineInv, TypeOK, OnePlace
<1>4. e \in DOMAIN exs' /\ DOMAIN exs' = DOMAIN exs \cup {e} /\ e \notin DOMAIN exs /\ e # 0
  BY <1>1, <1>2, <1>3
<1>5. /\ back' \in Seq(DOMAIN exs)
      /\ ToSet(back') = ToSet(back) \cup (IF front = 0 THEN {} ELSE {front})
      /\ \A i, j \in DOMAIN back' : i # j => back'[i] # back'[j]
  <2>1. CASE front = 0
    BY <1>2, <1>3, <2>1
  <2>2. CASE front # 0
    <3>1. front \in DOMAIN exs /\ back' = Append(back, front)
      BY <1>2, <1>3, <2>2
    <3>2. back \in Seq(DOMAIN exs) /\ front \notin ToSet(back)
          /\ \A i, j \in DOMAIN back : i # j => back[i] # back[j]
      BY <1>3
    <3>3. /\ back' \in Seq(DOMAIN exs) /\ ToSet(back') = ToSet(back) \cup {front}
          /\ \A i, j \in DOMAIN back' : i # j => back'[i] # back'[j]
      BY <3>1, <3>2, Appended
    <3> QED BY <2>2, <3>3
  <2> QED BY <2>1, <2>2
<1>6. back' \in Seq(DOMAIN exs')
  <2>1. DOMAIN exs \subseteq DOMAIN exs'
    BY <1>4
  <2> QED BY <1>5, <2>1
<1>7. ToSet(back') \subseteq DOMAIN exs
  BY <1>5 DEF ToSet
<1>8. OnePlace'
  BY <1>1, <1>2, <1>4, <1>5, <1>7 DEF OnePlace
<1> DEFINE row == [docs |-> 0, commits |-> 0]
<1>9. /\ stored' \in Seq(Row) /\ Len(stored') = Len(stored) + 1
      /\ DOMAIN stored' = 1..(Len(stored) + 1)
      /\ \A i \in 1..(Len(stored) + 1) :
            stored'[i] = IF i <= Len(stored) THEN stored[i] ELSE row
  <2>1. row \in Row /\ stored' = Append(stored, row)
    BY DEF Start, Row
  <2> HIDE DEF row
  <2>2. /\ Append(stored, row) \in Seq(Row) /\ Len(Append(stored, row)) = Len(stored) + 1
        /\ DOMAIN Append(stored, row) = 1..(Len(stored) + 1)
        /\ \A i \in 1..(Len(stored) + 1) :
              Append(stored, row)[i] = IF i <= Len(stored) THEN stored[i] ELSE row
    <3>1. stored \in Seq(Row) /\ row \in Row
      BY <1>3, <2>1
    <3> QED BY <3>1, Longer
  <2> QED BY <2>1, <2>2
<1>10. WrittenGone'
  <2> SUFFICES ASSUME NEW i \in DOMAIN stored'
               PROVE  /\ stored'[i].commits \in {0, 1}
                      /\ stored'[i].commits = 1 => ~Listed(i)'
    BY DEF WrittenGone
  <2>1. CASE i = e
    <3>1. i \in 1..(Len(stored) + 1) /\ ~(i <= Len(stored))
      BY <1>1, <1>3, <2>1
    <3>2. stored'[i] = row
      BY <1>9, <3>1
    <3> QED BY <3>2
  <2>2. CASE i # e
    <3>1. i \in DOMAIN stored /\ i \in DOMAIN exs /\ stored'[i] = stored[i] /\ i # 0
      BY <1>1, <1>3, <1>9, <2>2
    <3>2. Listed(i)' => Listed(i)
      BY <1>1, <1>2, <1>5, <2>2 DEF Listed
    <3> QED BY <3>1, <3>2 DEF PipelineInv, WrittenGone
  <2> QED BY <2>1, <2>2
<1>11. TypeOK'
  <2>1. Len(stored') = Len(exs')
    BY <1>2, <1>3, <1>9
  <2>2. exs' \in Seq(Extracted) /\ runs' \in Seq(Run) /\ \A r \in DOMAIN runs' : runs'[r].ex \in DOMAIN exs'
    BY <1>2 DEF Pipelines
  <2>3. front' \in DOMAIN exs' /\ front' # 0
    BY <1>1, <1>2, <1>4
  <2> QED BY <1>2, <1>3, <1>6, <1>9, <2>1, <2>2, <2>3 DEF TypeOK
<1> QED BY <1>2, <1>8, <1>10, <1>11 DEF PipelineInv, Pipelines

\* The extractions are cancelled, one or all.
LEMMA CancelKeeps ==
    ASSUME PipelineInv, CancelExtraction \/ CancelEverything
    PROVE  PipelineInv'
<1>1. PICK es : /\ es = {front} \/ es = {front} \cup ToSet(back)
                /\ exs' = Dropped(es) /\ runs' = CancelAll(runs, es)
                /\ front' = 0 /\ shown' = FALSE
                /\ back' = back \/ (back' = <<>> /\ ToSet(back) \subseteq es)
                /\ UNCHANGED <<running, ready, queued, store>>
  <2>1. CASE CancelExtraction
    BY <2>1 DEF CancelExtraction
  <2>2. CASE CancelEverything
    BY <2>2 DEF CancelEverything
  <2> QED BY <2>1, <2>2
<1>2. /\ Quieter(runs, runs')
      /\ \A r \in DOMAIN runs : runs[r].ex \in es => ~Alive(runs'[r])
  BY <1>1, CancelAllQuiet DEF PipelineInv, TypeOK
<1>3. front \in es
  BY <1>1
<1>4. running' = running /\ ready' = ready /\ queued' = queued /\ alive' = alive /\ stored' = stored
  BY <1>1 DEF store
<1> QED BY <1>1, <1>2, <1>3, <1>4, GoneKeeps DEF PipelineInv, TypeOK

-----------------------------------------------------------------------------
(* Accepting. *)

\* What accepting adds to the row of e.
LEMMA Wrote ==
    ASSUME NEW st \in Seq(Row), NEW e \in DOMAIN st, NEW row \in Row
    PROVE  /\ [st EXCEPT ![e] = row] \in Seq(Row)
           /\ Len([st EXCEPT ![e] = row]) = Len(st)
           /\ DOMAIN [st EXCEPT ![e] = row] = DOMAIN st
           /\ [st EXCEPT ![e] = row][e] = row
           /\ \A i \in DOMAIN st : i # e => [st EXCEPT ![e] = row][i] = st[i]
<1>1. e \in 1..Len(st)
  BY SeqDomain
<1> QED BY <1>1, ExceptSeq

\* A commit of the foreground's operations, or its failure.
LEMMA CommitsKeeps ==
    ASSUME PipelineInv, shown, exs[front].done, NEW made \in Nat, alive' \subseteq Saved,
           Commits(exs[front], front, made) \/ NothingStaged(exs[front], front, made),
           UNCHANGED <<back, runs, running, ready, queued>>
    PROVE  PipelineInv'
<1>1. PICK e \in DOMAIN exs : e = front
  BY DEF PipelineInv, TypeOK
<1>2. /\ stored \in Seq(Row) /\ DOMAIN stored = DOMAIN exs
      /\ runs \in Seq(Run) /\ Quieter(runs, runs')
  BY SeqDomain, QuieterSame DEF PipelineInv, TypeOK
<1>3. stored[e] \in Row /\ stored[e].docs \in Nat /\ stored[e].commits \in Nat
  <2>1. stored[e] \in Row
    BY <1>2
  <2> QED BY <2>1 DEF Row
<1>4. /\ exs[e] \in Extracted
      /\ \A r \in exs[e].accum : r \in DOMAIN runs /\ runs[r].ex = e
      /\ ~exs[e].late /\ exs[e].ocr = "running" => ~exs[e].done
      /\ \A r \in DOMAIN runs : runs[r].ex = e => RunFits(r, runs[r], exs[e], Listed(e))
  BY OneOf
<1>5. ASSUME NEW n \in Nat, stored' = [stored EXCEPT ![e].docs = n]
      PROVE  /\ stored' \in Seq(Row)
             /\ Len(stored') = Len(stored) /\ DOMAIN stored' = DOMAIN stored
             /\ \A i \in DOMAIN stored : stored'[i].commits = stored[i].commits
  <2> DEFINE row == [stored[e] EXCEPT !.docs = n]
  <2>1. row \in Row /\ row.commits = stored[e].commits
    BY <1>3 DEF Row
  <2>2. stored' = [stored EXCEPT ![e] = row]
    BY <1>5
  <2> HIDE DEF row
  <2> QED BY <1>2, <2>1, <2>2, Wrote
<1>6. ASSUME NEW k \in Nat,
             /\ stored' = [stored EXCEPT ![e].commits = @ + 1, ![e].docs = @ + made + k]
             /\ exs' = Dropped({e}) /\ front' = 0 /\ shown' = FALSE
      PROVE  PipelineInv'
  <2> DEFINE n == stored[e].docs + made + k
             row == [[stored[e] EXCEPT !.commits = @ + 1] EXCEPT !.docs = n]
  <2>1. n \in Nat /\ stored[e].commits + 1 \in Nat
    BY <1>3
  <2>2. stored' = [stored EXCEPT ![e] = row]
    <3>1. stored' = [stored EXCEPT ![e].commits = stored[e].commits + 1, ![e].docs = n]
      BY <1>2, <1>3, <1>6 DEF Row
    <3> HIDE DEF n
    <3>2. [stored EXCEPT ![e].commits = stored[e].commits + 1, ![e].docs = n]
                = [stored EXCEPT ![e] = row]
      BY <1>1, <1>2
    <3> QED BY <3>1, <3>2
  <2>6. row \in Row /\ row.commits = stored[e].commits + 1
    <3> HIDE DEF n
    <3> QED BY <1>3, <2>1 DEF Row
  <2> HIDE DEF n, row
  <2>3. /\ stored' \in Seq(Row) /\ Len(stored') = Len(stored)
        /\ \A i \in DOMAIN stored :
              \/ stored'[i].commits = stored[i].commits
              \/ i = front /\ stored'[i].commits = stored[i].commits + 1
    BY <1>1, <1>2, <2>2, <2>6, Wrote
  <2>4. ASSUME NEW r \in DOMAIN runs, runs[r].ex \in {e}
        PROVE  exs[runs[r].ex].late \/ ~Alive(runs'[r])
    BY <1>1, <1>4, <2>4 DEF RunFits
  <2>5. PICK es : es = {e}
    OBVIOUS
  <2> QED BY <1>1, <1>2, <1>6, <2>3, <2>4, <2>5, GoneKeeps DEF PipelineInv, TypeOK
<1>7. ASSUME NEW n \in Nat, stored' = [stored EXCEPT ![e].docs = n],
             exs' = [exs EXCEPT ![e].staged = FALSE], front' = front, shown' = shown
      PROVE  PipelineInv'
  <2> DEFINE y == [exs[e] EXCEPT !.staged = FALSE]
  <2>1. /\ y \in Extracted /\ y.accum = exs[e].accum /\ y.ocr = exs[e].ocr
        /\ y.llm = exs[e].llm /\ y.done = exs[e].done /\ y.late = exs[e].late
        /\ y.hasLLM = exs[e].hasLLM /\ y.cancelFn = exs[e].cancelFn
    BY <1>4 DEF Extracted
  <2>2. exs' = [exs EXCEPT ![e] = y]
    BY <1>7
  <2> HIDE DEF y
  <2>3. \A i \in DOMAIN exs : Listed(i) => Listed(i)'
    BY <1>7 DEF Listed
  <2>4. Began(runs, e)
    BY DEF Began
  <2>5. \A r \in DOMAIN runs' : runs'[r].ex = e => RunFits(r, runs'[r], y, Listed(e)')
    BY <1>4, <2>1, <2>3 DEF RunFits
  <2>6. \A r \in y.accum : r \in DOMAIN runs /\ runs[r].ex = e
    BY <1>4, <2>1
  <2>7. ~y.late /\ y.ocr = "running" => ~y.done
    BY <1>4, <2>1
  <2>8. Quieter(runs, runs)
    BY <1>2, QuieterSame
  <2>9. Pipelines' /\ Len(exs') = Len(exs) /\ DOMAIN exs' = DOMAIN exs
    BY <2>1, <2>2, <2>3, <2>4, <2>5, <2>6, <2>7, <2>8, PipeStep
  <2> QED BY <1>5, <1>7, <2>9, StayedKeeps DEF PipelineInv, TypeOK
<1>8. ASSUME NEW n \in Nat, stored' = [stored EXCEPT ![e].docs = n],
             exs' = exs, front' = front, shown' = shown
      PROVE  PipelineInv'
  <2>1. \A i \in DOMAIN exs : Listed(i) => Listed(i)'
    BY <1>8 DEF Listed
  <2>2. Pipelines' /\ Len(exs') = Len(exs) /\ DOMAIN exs' = DOMAIN exs
    BY <1>2, <1>8, <2>1, QuietStep
  <2> QED BY <1>5, <1>8, <2>2, StayedKeeps DEF PipelineInv, TypeOK
<1>9. stored[e].docs + made \in Nat
  BY <1>3
<1>10. Staged(exs[e]) \subseteq Nat
  BY DEF Staged
<1>11. CASE NothingStaged(exs[front], front, made)
  BY <1>1, <1>8, <1>9, <1>11 DEF NothingStaged
<1>12. CASE Commits(exs[front], front, made)
  BY <1>1, <1>6, <1>7, <1>9, <1>10, <1>12 DEF Commits
<1> QED BY <1>11, <1>12

\* The user accepts what is in the foreground.
LEMMA AcceptKeeps ==
    ASSUME PipelineInv, Accept
    PROVE  PipelineInv'
<1>1. PICK e \in DOMAIN exs : e = front
  BY DEF PipelineInv, TypeOK, Accept
<1>2. /\ shown /\ exs[front].done
      /\ back' = back /\ runs' = runs /\ running' = running /\ ready' = ready /\ queued' = queued
  BY DEF Accept
<1>3. /\ stored \in Seq(Row) /\ DOMAIN stored = DOMAIN exs
      /\ runs \in Seq(Run) /\ Quieter(runs, runs')
  BY <1>2, SeqDomain, QuieterSame DEF PipelineInv, TypeOK
<1>4. /\ exs[e] \in Extracted
      /\ \A r \in DOMAIN runs : runs[r].ex = e => RunFits(r, runs[r], exs[e], Listed(e))
  BY OneOf
<1>5. ASSUME exs' = Dropped({front}), front' = 0, shown' = FALSE, alive' \subseteq Saved,
             stored' = stored \/ stored' = [stored EXCEPT ![front].docs = 1]
      PROVE  PipelineInv'
  <2>1. /\ stored' \in Seq(Row) /\ Len(stored') = Len(stored)
        /\ \A i \in DOMAIN stored : stored'[i].commits = stored[i].commits
    <3>1. CASE stored' = stored
      BY <1>3, <3>1
    <3>2. CASE stored' = [stored EXCEPT ![front].docs = 1]
      <4> DEFINE row == [stored[e] EXCEPT !.docs = 1]
      <4>1. stored[e] \in Row
        BY <1>3
      <4>2. row \in Row /\ row.commits = stored[e].commits
        BY <4>1 DEF Row
      <4>3. stored' = [stored EXCEPT ![e] = row]
        BY <1>1, <3>2
      <4> HIDE DEF row
      <4> QED BY <1>3, <4>2, <4>3, Wrote
    <3> QED BY <1>5, <3>1, <3>2
  <2>2. ASSUME NEW r \in DOMAIN runs, runs[r].ex \in {e}
        PROVE  exs[runs[r].ex].late \/ ~Alive(runs'[r])
    BY <1>1, <1>2, <1>4, <2>2 DEF RunFits
  <2>3. PICK es : es = {e}
    OBVIOUS
  <2>4. \A i \in DOMAIN stored :
              \/ stored'[i].commits = stored[i].commits
              \/ i = front /\ stored'[i].commits = stored[i].commits + 1
    BY <2>1
  <2>5. \A r \in DOMAIN runs : runs[r].ex \in es => exs[runs[r].ex].late \/ ~Alive(runs'[r])
    BY <2>2, <2>3
  <2>6. running' \subseteq running /\ ready' \in BOOLEAN /\ queued' \in Saved \cup {None}
    BY <1>2 DEF PipelineInv, TypeOK
  <2>7. exs' = Dropped(es) /\ front \in es
    BY <1>1, <1>5, <2>3
  <2> QED BY <1>2, <1>3, <1>5, <2>1, <2>4, <2>5, <2>6, <2>7, GoneKeeps
<1>6. CASE AcceptNew
  <2>1. alive' \subseteq Saved
    BY <1>6 DEF AcceptNew, PipelineInv, TypeOK
  <2>2. \/ exs' = Dropped({front}) /\ front' = 0 /\ shown' = FALSE
           /\ stored' = [stored EXCEPT ![front].docs = 1]
        \/ Commits(exs[front], front, 1) \/ NothingStaged(exs[front], front, 1)
    BY <1>6 DEF AcceptNew
  <2>3. 1 \in Nat
    OBVIOUS
  <2> QED BY <1>2, <1>5, <2>1, <2>2, <2>3, CommitsKeeps
<1>7. CASE AcceptSaved
  <2>1. alive' \subseteq Saved
    <3>1. exs[e].doc \in Saved
      BY <1>1, <1>4, <1>7 DEF AcceptSaved, Extracted
    <3> QED BY <1>1, <1>7, <3>1 DEF AcceptSaved, PipelineInv, TypeOK
  <2>2. \/ exs' = Dropped({front}) /\ front' = 0 /\ shown' = FALSE /\ stored' = stored
        \/ Commits(exs[front], front, 0) \/ NothingStaged(exs[front], front, 0)
    BY <1>7 DEF AcceptSaved
  <2>3. 0 \in Nat
    OBVIOUS
  <2> QED BY <1>2, <1>5, <2>1, <2>2, <2>3, CommitsKeeps
<1> QED BY <1>6, <1>7 DEF Accept

\* The model has been pulled.
LEMMA ReadyKeeps ==
    ASSUME PipelineInv, ModelReady
    PROVE  PipelineInv'
<1>1. /\ ready' \in BOOLEAN /\ queued' \in Saved \cup {None} /\ alive' = alive
      /\ alive \subseteq Saved /\ runs \in Seq(Run)
  BY DEF ModelReady, PipelineInv, TypeOK
<1>2. CASE queued \in alive /\ Start(queued, {"llm"})
  <2>1. queued \in Saved \cup {New} /\ {"llm"} \in SUBSET {"ocr", "llm"}
    BY <1>1, <1>2
  <2>2. PICK d \in Saved \cup {New}, plan \in SUBSET {"ocr", "llm"} : d = queued /\ plan = {"llm"}
    BY <2>1
  <2> QED BY <1>1, <1>2, <2>2, StartKeeps
<1>3. CASE Rerun /\ UNCHANGED <<display, running, stored>>
  <2>1. Pipelines' /\ Len(exs') = Len(exs) /\ DOMAIN exs' = DOMAIN exs
    BY <1>3, RerunKeeps
  <2>2. front' = front /\ back' = back /\ shown' = shown /\ stored' = stored /\ running' = running
    BY <1>3 DEF display
  <2> QED BY <1>1, <2>1, <2>2, StayedKeeps DEF PipelineInv, TypeOK
<1>4. CASE UNCHANGED <<exs, display, runs, running, stored>>
  <2>1. Quieter(runs, runs')
    BY <1>1, <1>4, QuieterSame
  <2>2. /\ front' = front /\ back' = back /\ shown' = shown /\ exs' = exs
        /\ stored' = stored /\ running' = running
    BY <1>4 DEF display
  <2>3. \A i \in DOMAIN exs : Listed(i) => Listed(i)'
    BY <2>2 DEF Listed
  <2>4. Pipelines' /\ Len(exs') = Len(exs) /\ DOMAIN exs' = DOMAIN exs
    BY <2>1, <2>2, <2>3, QuietStep
  <2> QED BY <1>1, <2>2, <2>4, StayedKeeps DEF PipelineInv, TypeOK
<1> QED BY <1>2, <1>3, <1>4 DEF ModelReady

-----------------------------------------------------------------------------
(* The theorems. *)

LEMMA InitPipeline == Init => PipelineInv
<1> SUFFICES ASSUME Init
             PROVE  PipelineInv
  OBVIOUS
<1>1. /\ exs = <<>> /\ front = 0 /\ shown = FALSE /\ back = <<>> /\ runs = <<>> /\ running = {}
      /\ ready = FALSE /\ queued = None /\ alive = Saved /\ stored = <<>>
  BY DEF Init
<1>2. TypeOK
  <2>1. \A S : <<>> \in Seq(S)
    OBVIOUS
  <2>2. DOMAIN <<>> = {}
    OBVIOUS
  <2> QED BY <1>1, <2>1, <2>2 DEF TypeOK
<1>3. OwnRuns /\ EarlyOpen /\ RunsFit /\ WrittenGone
  BY <1>1 DEF OwnRuns, EarlyOpen, RunsFit, WrittenGone
<1>4. OnePlace
  BY <1>1 DEF OnePlace, ToSet
<1> QED BY <1>2, <1>3, <1>4 DEF PipelineInv

\* A step that leaves the display and what is written as they are.
LEMMA PlainStep ==
    ASSUME PipelineInv, UNCHANGED <<display, ready, queued, store>>, running' \subseteq running,
           Pipelines' /\ Len(exs') = Len(exs) /\ DOMAIN exs' = DOMAIN exs
    PROVE  PipelineInv'
<1>1. /\ front' = front /\ back' = back /\ shown' = shown /\ stored' = stored
      /\ ready' = ready /\ queued' = queued /\ alive' = alive
  BY DEF display, store
<1> QED BY <1>1, StayedKeeps DEF PipelineInv, TypeOK

LEMMA PipelineStep ==
    ASSUME ExtractionAssumption, PipelineInv, [Next]_vars
    PROVE  PipelineInv'
<1>1. TypeOK /\ runs \in Seq(Run) /\ Quieter(runs, runs)
  BY QuieterSame DEF PipelineInv, TypeOK
<1>2. CASE UNCHANGED <<exs, front, back, runs, running, stored>>
            /\ shown' \in BOOLEAN /\ (shown' => front # 0) /\ ready' \in BOOLEAN
            /\ queued' \in Saved \cup {None} /\ alive' \subseteq Saved
  <2>1. \A i \in DOMAIN exs : Listed(i) => Listed(i)'
    BY <1>2 DEF Listed
  <2>2. Pipelines' /\ Len(exs') = Len(exs) /\ DOMAIN exs' = DOMAIN exs
    BY <1>1, <1>2, <2>1, QuietStep
  <2> QED BY <1>2, <2>2, StayedKeeps
<1>3. ASSUME NEW d \in Saved \cup {New}, NEW plan \in Plans, Extract(d, plan)
      PROVE  PipelineInv'
  <2>1. plan \in SUBSET {"ocr", "llm"}
    BY DEF ExtractionAssumption
  <2>2. Start(d, plan) /\ ready' \in BOOLEAN /\ queued' \in Saved \cup {None} /\ alive' = alive
    BY <1>1, <1>3 DEF Extract, TypeOK
  <2> QED BY <2>1, <2>2, StartKeeps
<1>4. ASSUME NEW d \in Saved, QueueDocument(d) \/ DeleteDocument(d)
      PROVE  PipelineInv'
  BY <1>1, <1>2, <1>4 DEF QueueDocument, DeleteDocument, display, store, TypeOK
<1>5. ASSUME NEW c \in running, OCRResult(c)
      PROVE  PipelineInv'
  <2>1. UNCHANGED <<display, ready, queued, store>> /\ running' \subseteq running
    BY <1>5 DEF OCRResult
  <2> QED BY <1>5, <2>1, OCRKeeps, PlainStep
<1>6. ASSUME NEW c \in running, PingResult(c)
      PROVE  PipelineInv'
  <2>1. UNCHANGED <<display, ready, queued, store>> /\ running' \subseteq running
    BY <1>6 DEF PingResult
  <2> QED BY <1>6, <2>1, PingKeeps, PlainStep
<1>7. ASSUME NEW r \in DOMAIN runs, StreamStarts(r)
      PROVE  PipelineInv'
  <2>1. UNCHANGED <<display, ready, queued, store>> /\ running' \subseteq running
    BY <1>7 DEF StreamStarts
  <2> QED BY <1>7, <2>1, StreamKeeps, PlainStep
<1>8. ASSUME NEW r \in DOMAIN runs, NEW kind \in Kinds, ReadLLM(r, kind)
      PROVE  PipelineInv'
  <2>1. UNCHANGED <<display, ready, queued, store>> /\ running' \subseteq running
    BY <1>8 DEF ReadLLM
  <2> QED BY <1>8, <2>1, ReadKeeps, PlainStep
<1>9. CASE Interrupt
  <2>1. UNCHANGED <<display, ready, queued, store>> /\ running' \subseteq running
    BY <1>9 DEF Interrupt
  <2> QED BY <1>9, <2>1, InterruptKeeps, PlainStep
<1>10. CASE RerunByKey
  <2>1. UNCHANGED <<display, ready, queued, store>> /\ running' \subseteq running
        /\ Rerun /\ UNCHANGED display
    BY <1>10 DEF RerunByKey
  <2> QED BY <2>1, RerunKeeps, PlainStep
<1>11. CASE ClickAway
  BY <1>1, <1>2, <1>11 DEF ClickAway, store, TypeOK
<1>12. CASE UNCHANGED vars
  BY <1>1, <1>2, <1>12 DEF vars, TypeOK
<1> QED BY <1>3, <1>4, <1>5, <1>6, <1>7, <1>8, <1>9, <1>10, <1>11, <1>12,
           CancelKeeps, BackgroundKeeps, ForegroundKeeps, ReadyKeeps, AcceptKeeps DEF Next

THEOREM PipelineHolds == ASSUME ExtractionAssumption PROVE Spec => []PipelineInv
<1>1. Init => PipelineInv
  BY InitPipeline
<1>2. PipelineInv /\ [Next]_vars => PipelineInv'
  BY PipelineStep
<1> QED BY <1>1, <1>2, PTL DEF Spec

\* Every variable of the pipeline keeps its type: a message only ever names an
\* extraction and a run that there is.
THEOREM ExtractionTypeCorrect == Spec => []TypeOK
<1>1. PipelineInv => TypeOK
  BY DEF PipelineInv
<1> QED BY <1>1, PipelineHolds, ExtractionAssumption, PTL

\* What the model said of one document never enters another's operations
\* (handleExtractionLLMChunk finds the extraction by the message's ID).
THEOREM NothingMixed == Spec => []Unmixed
<1>1. PipelineInv => Unmixed
  BY DEF PipelineInv, OwnRuns, Unmixed
<1> QED BY <1>1, PipelineHolds, ExtractionAssumption, PTL

\* One more document, or two, only as CreatesOf has it.
LEMMA CreatesAsTold ==
    ASSUME PipelineInv, [Next]_vars, NEW e \in DOMAIN stored
    PROVE  CreatesOf(e)
<1>1. /\ stored \in Seq(Row) /\ DOMAIN stored = DOMAIN exs /\ 0 \notin DOMAIN stored
      /\ e \in 1..Len(stored) /\ Len(stored) \in Nat
  BY SeqDomain DEF PipelineInv, TypeOK
<1>2. /\ stored[e].docs \in Nat /\ stored[e].commits \in Nat
      /\ stored[e] = [docs |-> stored[e].docs, commits |-> stored[e].commits]
  <2>1. stored[e] \in Row
    BY <1>1
  <2> QED BY <2>1 DEF Row
<1>3. CASE stored' = stored
  BY <1>3 DEF CreatesOf
<1>4. ASSUME NEW d, NEW plan, Start(d, plan)
      PROVE  CreatesOf(e)
  <2> DEFINE row == [docs |-> 0, commits |-> 0]
  <2>1. row \in Row /\ stored' = Append(stored, row)
    BY <1>4 DEF Start, Row
  <2> HIDE DEF row
  <2>2. stored'[e] = stored[e]
    BY <1>1, <2>1, Longer
  <2> QED BY <2>2 DEF CreatesOf
<1>5. CASE Accept
  <2>1. CASE e # front
    <3>1. \/ stored' = stored
          \/ \E n : stored' = [stored EXCEPT ![front].docs = n]
          \/ \E m, n : stored' = [stored EXCEPT ![front].commits = m, ![front].docs = n]
      BY <1>5 DEF Accept, AcceptNew, AcceptSaved, Commits, NothingStaged
    <3>2. stored'[e] = stored[e]
      BY <1>1, <2>1, <3>1
    <3> QED BY <3>2 DEF CreatesOf
  <2>2. CASE e = front
    <3>1. ASSUME NEW n \in Nat, stored' = [stored EXCEPT ![front].docs = n]
          PROVE  stored'[e].docs = n
      BY <1>1, <1>2, <2>2, <3>1
    <3>2. ASSUME NEW n \in Nat, NEW m \in Nat,
                 stored' = [stored EXCEPT ![front].commits = m, ![front].docs = n]
          PROVE  stored'[e].docs = n /\ stored'[e].commits = m
      BY <1>1, <1>2, <2>2, <3>2
    <3>3. CASE AcceptNew
      <4>1. exs[e].doc = New /\ stored[e].docs = 0
        BY <2>2, <3>3 DEF AcceptNew
      <4>2. \/ stored' = [stored EXCEPT ![front].docs = 1]
            \/ exs[e].ops \notin {"none", "document"}
                 /\ \E k \in Staged(exs[e]) :
                        stored' = [stored EXCEPT ![front].commits = stored[e].commits + 1,
                                                 ![front].docs = 0 + 1 + k]
        <5>1. ASSUME exs[e].ops \notin {"none", "document"},
                     Commits(exs[front], front, 1) \/ NothingStaged(exs[front], front, 1)
              PROVE  \/ stored' = [stored EXCEPT ![front].docs = 0 + 1]
                     \/ \E k \in Staged(exs[e]) :
                            stored' = [stored EXCEPT ![front].commits = stored[e].commits + 1,
                                                     ![front].docs = 0 + 1 + k]
          BY <1>1, <1>2, <2>2, <4>1, <5>1 DEF Commits, NothingStaged
        <5>2. 0 + 1 = 1
          OBVIOUS
        <5> QED BY <2>2, <3>3, <5>1, <5>2 DEF AcceptNew
      <4>3. CASE stored' = [stored EXCEPT ![front].docs = 1]
        <5>1. stored'[e].docs = 1
          BY <3>1, <4>3
        <5> QED BY <4>1, <5>1 DEF CreatesOf
      <4>4. ASSUME exs[e].ops \notin {"none", "document"}, NEW k \in Staged(exs[e]),
                   stored' = [stored EXCEPT ![front].commits = stored[e].commits + 1,
                                            ![front].docs = 0 + 1 + k]
            PROVE  CreatesOf(e)
        <5>1. k = 0 \/ (k = 1 /\ exs[e].ops = "both")
          BY <4>4 DEF Staged
        <5>2. 0 + 1 + k \in Nat /\ stored[e].commits + 1 \in Nat
          BY <1>2, <5>1
        <5>3. stored'[e].docs = 0 + 1 + k /\ stored'[e].commits = stored[e].commits + 1
          BY <3>2, <4>4, <5>2
        <5> QED BY <4>1, <5>1, <5>3 DEF CreatesOf
      <4> QED BY <4>2, <4>3, <4>4
    <3>4. CASE AcceptSaved
      <4>1. exs[e].doc # New
        BY <2>2, <3>4 DEF AcceptSaved
      <4>2. \/ stored' = stored
            \/ stored' = [stored EXCEPT ![front].docs = stored[e].docs]
            \/ \E k \in Staged(exs[e]) :
                    stored' = [stored EXCEPT ![front].commits = stored[e].commits + 1,
                                             ![front].docs = stored[e].docs + k]
        <5>1. ASSUME Commits(exs[front], front, 0) \/ NothingStaged(exs[front], front, 0)
              PROVE  \/ stored' = [stored EXCEPT ![front].docs = stored[e].docs + 0]
                     \/ \E k \in Staged(exs[e]) :
                            stored' = [stored EXCEPT ![front].commits = stored[e].commits + 1,
                                                     ![front].docs = stored[e].docs + 0 + k]
          BY <1>1, <1>2, <2>2, <5>1 DEF Commits, NothingStaged
        <5>2. stored[e].docs + 0 = stored[e].docs
          BY <1>2
        <5> QED BY <2>2, <3>4, <5>1, <5>2 DEF AcceptSaved
      <4>3. CASE stored' = [stored EXCEPT ![front].docs = stored[e].docs]
        <5>1. stored'[e].docs = stored[e].docs
          BY <1>2, <3>1, <4>3
        <5> QED BY <5>1 DEF CreatesOf
      <4>4. ASSUME NEW k \in Staged(exs[e]),
                   stored' = [stored EXCEPT ![front].commits = stored[e].commits + 1,
                                            ![front].docs = stored[e].docs + k]
            PROVE  CreatesOf(e)
        <5>1. k = 0 \/ k = 1
          BY <4>4 DEF Staged
        <5>2. stored[e].docs + k \in Nat /\ stored[e].commits + 1 \in Nat
          BY <1>2, <5>1
        <5>3. stored'[e].docs = stored[e].docs + k /\ stored'[e].commits = stored[e].commits + 1
          BY <3>2, <4>4, <5>2
        <5> QED BY <1>2, <4>1, <5>1, <5>3 DEF CreatesOf
      <4> QED BY <1>3, <4>2, <4>3, <4>4
    <3> QED BY <1>5, <3>3, <3>4 DEF Accept
  <2> QED BY <2>1, <2>2
<1>6. CASE ModelReady
  BY <1>3, <1>4, <1>6 DEF ModelReady
<1>7. ASSUME NEW d \in Saved \cup {New}, NEW plan \in Plans, Extract(d, plan)
      PROVE  CreatesOf(e)
  BY <1>4, <1>7 DEF Extract
<1>8. CASE UNCHANGED vars
  BY <1>3, <1>8 DEF vars
<1>9. ASSUME NEW d \in Saved, QueueDocument(d) \/ DeleteDocument(d)
      PROVE  CreatesOf(e)
  BY <1>3, <1>9 DEF QueueDocument, DeleteDocument, store
<1>10. ASSUME NEW c \in running, OCRResult(c) \/ PingResult(c)
       PROVE  CreatesOf(e)
  BY <1>3, <1>10 DEF OCRResult, PingResult, store
<1>11. ASSUME NEW r \in DOMAIN runs, NEW kind \in Kinds, StreamStarts(r) \/ ReadLLM(r, kind)
       PROVE  CreatesOf(e)
  BY <1>3, <1>11 DEF StreamStarts, ReadLLM, store
<1>12. CASE CancelExtraction \/ Interrupt \/ CancelEverything \/ Background \/ Foreground
             \/ ClickAway \/ RerunByKey
  BY <1>3, <1>12 DEF CancelExtraction, Interrupt, CancelEverything, Background, Foreground,
                     ClickAway, RerunByKey, store
<1>13. "text" \in Kinds
  BY DEF Kinds
<1> QED BY <1>5, <1>6, <1>7, <1>8, <1>9, <1>10, <1>11, <1>12, <1>13 DEF Next

\* The operations of an extraction are written once at most, and it is gone
\* then, however often it is accepted, run again or interrupted
\* (acceptExtraction drops what it wrote); its document is created by one
\* accept, a new one twice there only if rows of other tables are staged
\* with it (acceptDeferredExtraction, commitInner).
THEOREM WrittenOnce == Spec => CommitOnce
<1>1. PipelineInv' => WrittenThenGone'
  BY DEF PipelineInv, WrittenGone, WrittenThenGone
<1>2. PipelineInv /\ [Next]_vars => \A e \in DOMAIN stored : CreatesOf(e)
  BY CreatesAsTold
<1>3. Spec => []PipelineInv
  BY PipelineHolds, ExtractionAssumption
<1>4. PipelineInv /\ PipelineInv' /\ [Next]_vars
        => [WrittenThenGone' /\ \A e \in DOMAIN stored : CreatesOf(e)]_vars
  BY <1>1, <1>2
<1> QED BY <1>3, <1>4, PTL DEF CommitOnce, Spec

\* A request that goes on belongs to an extraction that is listed and not over,
\* unless a result came late (cancelExtraction, interruptExtraction, the end
\* of the answer and a rerun each cancel the request they know).
THEOREM NoneRunsAway == Spec => []NoRunaway
<1>1. ASSUME PipelineInv
      PROVE  NoRunaway
  <2> SUFFICES ASSUME NEW r \in DOMAIN runs, runs[r].ctx = "live", runs[r].at # "over",
                      ~exs[runs[r].ex].late
               PROVE  Listed(runs[r].ex) /\ ~exs[runs[r].ex].done
    BY DEF NoRunaway
  <2>1. PICK e \in DOMAIN exs : e = runs[r].ex
    BY <1>1 DEF PipelineInv, TypeOK
  <2>2. RunFits(r, runs[r], exs[e], Listed(e))
    BY <1>1, <2>1 DEF PipelineInv, RunsFit
  <2> QED BY <2>1, <2>2 DEF RunFits, Alive
<1> QED BY <1>1, PipelineHolds, ExtractionAssumption, PTL

-----------------------------------------------------------------------------
(***************************************************************************)
(* Proofs about PageOcr, for documents of any number of pages, any number  *)
(* of workers and any room in the channel: the file outlives the programs  *)
(* that read it, and the last frame shows what was done.                   *)
(*                                                                         *)
(* OcrInv is inductive.  What the loop has counted and what still lies in  *)
(* the two channels of signals is the number of pages that are over, and   *)
(* of pages that are rasterized (Counted), as long as nothing is cancelled *)
(* and signals are not dropped; and what was sent last is what the loop    *)
(* counted last (Told).                                                    *)
(***************************************************************************)

PageStates == {"unborn", "waiting", "rasterizing", "recognizing", "over"}
Results    == {"failed", "text", "unstarted"}

Message == [done : BOOLEAN, ok : BOOLEAN, cairo : Nat, tess : Nat, text : SUBSET Nat]

PagesTypeOK ==
    /\ mime \in {"pdf", "image"}
    /\ at \in {"idle", "begin", "announcing", "selecting", "forwarding", "catching up",
               "joining", "stopping", "final", "closed"}
    /\ files \in BOOLEAN /\ live \in BOOLEAN
    /\ page \in Seq(PageStates)
    /\ result \in Seq(Results) /\ Len(result) = Len(page)
    /\ rasterDone \in Nat /\ pageDone \in Nat /\ cairo \in Nat /\ tess \in Nat
    /\ out \in Message /\ ch \in Seq(Message) /\ heard \in Message
    /\ reader \in {"none", "waiting", "leaving", "answered", "gone"}

\* Where the loop is while pages may run
InCharge == {"selecting", "forwarding", "catching up", "joining", "stopping"}

\* Pages run between the first frame and the join, over a file that is there.
Born ==
    /\ at \in {"idle", "begin"} => page = <<>>
    /\ at = "announcing" => files /\ \A p \in DOMAIN page : page[p] = "unborn"
    /\ at \in InCharge => files
    /\ at \in {"final", "closed"} => \A p \in DOMAIN page : page[p] \in {"unborn", "over"}
    /\ \A p \in DOMAIN page : page[p] # "over" => result[p] = "failed"

\* Only the last message says that it is the last.
Queue ==
    /\ \A i \in DOMAIN ch : ch[i].done <=> (at = "closed" /\ i = Len(ch))
    /\ at \in {"announcing", "forwarding", "catching up"} => ~out.done
    /\ at \in {"final", "closed"} => out.done
    /\ reader = "answered" => at = "closed" /\ ch = <<>>

OverCount       == {p \in DOMAIN page : page[p] = "over"}
Rasterized == {p \in DOMAIN page :
                 page[p] \in {"recognizing", "over"} /\ result[p] # "unstarted"}

\* A PDF whose reading nobody has cancelled
Undisturbed == live /\ (at = "idle" \/ mime = "pdf")

\* No signal of a page is lost.
Counted ==
    Undisturbed =>
        /\ tess + pageDone = Cardinality(OverCount)
        /\ cairo + rasterDone = Cardinality(Rasterized)

\* The frame that was sent last
Sent ==
    IF at # "closed" THEN IF ch = <<>> THEN heard ELSE ch[Len(ch)]
    ELSE IF Len(ch) < 2 THEN heard ELSE ch[Len(ch) - 1]

AllStarted == \A p \in DOMAIN page : result[p] # "unstarted"

\* What was sent is what was counted, and in the end that is every page.
Told ==
    Undisturbed =>
        /\ at \in {"idle", "begin", "announcing"} => ch = <<>> /\ heard = Nothing /\ cairo = 0
        /\ at = "announcing" => out.cairo = 0
        /\ at \in {"selecting", "joining"} => Sent.cairo = cairo
        /\ at \in {"forwarding", "catching up"} => out.cairo = cairo
        /\ at \in {"catching up", "joining"} => PagesOver /\ (AllStarted => cairo = Total)
        /\ at # "stopping"
        /\ at \in {"final", "closed"} /\ out.ok /\ AllStarted => Sent.cairo = Total

OcrInv == PagesTypeOK /\ Born /\ Queue /\ Counted /\ Told

-----------------------------------------------------------------------------
(* Counting pages. *)

LEMMA Finite ==
    ASSUME PagesTypeOK
    PROVE  /\ DOMAIN page = 1..Total /\ Total \in Nat /\ DOMAIN result = DOMAIN page
           /\ IsFiniteSet(DOMAIN page) /\ Cardinality(DOMAIN page) = Total
           /\ IsFiniteSet(OverCount) /\ IsFiniteSet(Rasterized)
<1>1. DOMAIN page = 1..Total /\ Total \in Nat /\ DOMAIN result = DOMAIN page
  <2>1. /\ page \in Seq(PageStates) /\ result \in Seq(Results) /\ Len(result) = Len(page)
    BY DEF PagesTypeOK
  <2>2. DOMAIN page = 1..Len(page) /\ Len(page) \in Nat /\ DOMAIN result = 1..Len(result)
    BY <2>1
  <2> QED BY <2>1, <2>2 DEF Total
<1>2. IsFiniteSet(1..Total) /\ Cardinality(1..Total) = Total
  BY <1>1, FS_Interval
<1>3. OverCount \subseteq 1..Total /\ Rasterized \subseteq 1..Total
  BY <1>1 DEF OverCount, Rasterized
<1>4. IsFiniteSet(OverCount) /\ IsFiniteSet(Rasterized)
  BY <1>2, <1>3, FS_Subset
<1> QED BY <1>1, <1>2, <1>4

LEMMA OneMore ==
    ASSUME NEW S, IsFiniteSet(S), NEW p, p \notin S, NEW T, T = S \cup {p}
    PROVE  Cardinality(T) = Cardinality(S) + 1
BY FS_AddElement

\* A page in another state, or with another result
LEMMA Turned ==
    ASSUME NEW S, NEW s \in Seq(S), NEW p \in DOMAIN s, NEW x \in S
    PROVE  LET new == [s EXCEPT ![p] = x]
           IN  /\ new \in Seq(S) /\ Len(new) = Len(s) /\ DOMAIN new = DOMAIN s
               /\ new[p] = x /\ \A q \in DOMAIN s : q # p => new[q] = s[q]
<1>1. DOMAIN s = 1..Len(s)
  OBVIOUS
<1>2. /\ [s EXCEPT ![p] = x] \in Seq(S) /\ Len([s EXCEPT ![p] = x]) = Len(s)
  BY <1>1, ExceptSeq
<1> QED BY <1>1, <1>2

-----------------------------------------------------------------------------
LEMMA OcrInit == PagesInit => OcrInv
<1> SUFFICES ASSUME PagesInit PROVE OcrInv
  OBVIOUS
<1>1. Nothing \in Message /\ Nothing.cairo = 0
  BY DEF Nothing, Message
<1>2. PagesTypeOK
  <2>1. <<>> \in Seq(PageStates) /\ <<>> \in Seq(Results) /\ <<>> \in Seq(Message)
    OBVIOUS
  <2> QED BY <1>1, <2>1 DEF PagesInit, PagesTypeOK
<1>3. Born /\ Queue
  BY DEF PagesInit, Born, Queue, InCharge
<1>4. OverCount = {} /\ Rasterized = {}
  BY DEF PagesInit, OverCount, Rasterized
<1>5. Counted
  BY <1>4, FS_EmptySet DEF PagesInit, Counted
<1>6. Told
  BY DEF PagesInit, Told
<1> QED BY <1>2, <1>3, <1>5, <1>6 DEF OcrInv

\* Page p comes into state st, with result r; no signal is lost unless the run
\* is disturbed, and the rest stays.
Moves(p, st, r) ==
    /\ page[p] \notin {"unborn", "over"}
    /\ page' = [page EXCEPT ![p] = st] /\ result' = [result EXCEPT ![p] = r]
    /\ st # "over" => r = "failed"
    /\ rasterDone' \in Nat /\ pageDone' \in Nat
    /\ Undisturbed =>
         /\ pageDone' = IF st = "over" THEN pageDone + 1 ELSE pageDone
         /\ rasterDone' = IF /\ st \in {"recognizing", "over"} /\ r # "unstarted"
                             /\ page[p] # "recognizing"
                          THEN rasterDone + 1 ELSE rasterDone
         /\ st = "rasterizing" \/ r = "unstarted" => page[p] = "waiting"
    /\ UNCHANGED <<mime, loopVars, live, cairo, tess, ch, reader, heard>>

LEMMA PageKeeps ==
    ASSUME OcrInv, NEW p \in DOMAIN page, NEW r \in Results,
           NEW st \in {"rasterizing", "recognizing", "over"}, Moves(p, st, r)
    PROVE  OcrInv'
<1>0. PagesTypeOK /\ Born /\ Queue /\ Counted /\ Told
  BY DEF OcrInv
<1>1. UNCHANGED <<mime, at, files, out, live, cairo, tess, ch, reader, heard>>
  BY DEF Moves, loopVars
<1>2. /\ page \in Seq(PageStates)
      /\ result \in Seq(Results) /\ Len(result) = Len(page)
      /\ DOMAIN page = DOMAIN result /\ p \in DOMAIN result
      /\ DOMAIN page = 1..Total /\ Total \in Nat
  BY <1>0, Finite DEF PagesTypeOK
<1>3. /\ page' \in Seq(PageStates)
      /\ Len(page') = Len(page) /\ DOMAIN page' = DOMAIN page
      /\ page'[p] = st /\ \A q \in DOMAIN page : q # p => page'[q] = page[q]
  <2> DEFINE new == [page EXCEPT ![p] = st]
  <2>1. /\ new \in Seq(PageStates)
        /\ Len(new) = Len(page) /\ DOMAIN new = DOMAIN page
        /\ new[p] = st /\ \A q \in DOMAIN page : q # p => new[q] = page[q]
    <3> st \in PageStates
      BY DEF PageStates
    <3> QED BY <1>2, Turned
  <2> QED BY <2>1 DEF Moves
<1>4. /\ result' \in Seq(Results)
      /\ Len(result') = Len(result) /\ DOMAIN result' = DOMAIN result
      /\ result'[p] = r /\ \A q \in DOMAIN result : q # p => result'[q] = result[q]
  <2> DEFINE new == [result EXCEPT ![p] = r]
  <2>1. /\ new \in Seq(Results)
        /\ Len(new) = Len(result) /\ DOMAIN new = DOMAIN result
        /\ new[p] = r /\ \A q \in DOMAIN result : q # p => new[q] = result[q]
    BY <1>2, Turned
  <2> QED BY <2>1 DEF Moves
<1>5. PagesTypeOK'
  <2>1. rasterDone' \in Nat /\ pageDone' \in Nat
    BY DEF Moves
  <2> QED BY <1>0, <1>1, <1>3, <1>4, <2>1 DEF PagesTypeOK
<1>6. at \notin {"idle", "begin", "announcing", "final", "closed"}
  BY <1>0 DEF Born, Moves
<1>7. Born'
  <2>1. \A q \in DOMAIN page' : page'[q] # "over" => result'[q] = "failed"
    BY <1>0, <1>2, <1>3, <1>4 DEF Born, Moves
  <2>2. at' \in InCharge => files'
    BY <1>0, <1>1 DEF Born
  <2> QED BY <1>1, <1>6, <2>1, <2>2 DEF Born
<1>8. Queue'
  BY <1>0, <1>1 DEF Queue
<1>9. Undisturbed' <=> Undisturbed
  BY <1>1 DEF Undisturbed
<1>10. result[p] = "failed"
  BY <1>0 DEF Born, Moves
<1>11. Counted'
  <2> SUFFICES ASSUME Undisturbed PROVE Counted'
    BY <1>9 DEF Counted
  <2>1. tess + pageDone = Cardinality(OverCount) /\ cairo + rasterDone = Cardinality(Rasterized)
    BY <1>0 DEF Counted
  <2>2. IsFiniteSet(OverCount) /\ IsFiniteSet(Rasterized)
    BY <1>0, Finite
  <2>3. tess' + pageDone' = Cardinality(OverCount')
    <3>0. tess \in Nat /\ pageDone \in Nat /\ Cardinality(OverCount) \in Nat
      BY <1>0, <2>2, FS_CardinalityType DEF PagesTypeOK
    <3>1. CASE st = "over"
      <4>1. OverCount' = OverCount \cup {p} /\ p \notin OverCount
        BY <1>3, <3>1 DEF OverCount, Moves
      <4>2. Cardinality(OverCount') = Cardinality(OverCount) + 1
        BY <2>2, <4>1, OneMore
      <4>3. tess' = tess /\ pageDone' = pageDone + 1
        BY <1>1, <3>1 DEF Moves
      <4> QED BY <2>1, <3>0, <4>2, <4>3
    <3>2. CASE st # "over"
      <4>1. OverCount' = OverCount
        BY <1>3, <3>2 DEF OverCount, Moves
      <4> QED BY <1>1, <2>1, <3>2, <4>1 DEF Moves
    <3> QED BY <3>1, <3>2
  <2>4. cairo' + rasterDone' = Cardinality(Rasterized')
    <3>0. cairo \in Nat /\ rasterDone \in Nat /\ Cardinality(Rasterized) \in Nat
      BY <1>0, <2>2, FS_CardinalityType DEF PagesTypeOK
    <3>1. CASE /\ st \in {"recognizing", "over"} /\ r # "unstarted" /\ page[p] # "recognizing"
      <4>1. Rasterized' = Rasterized \cup {p} /\ p \notin Rasterized
        BY <1>2, <1>3, <1>4, <1>10, <3>1 DEF Rasterized, Moves
      <4>2. Cardinality(Rasterized') = Cardinality(Rasterized) + 1
        BY <2>2, <4>1, OneMore
      <4>3. cairo' = cairo /\ rasterDone' = rasterDone + 1
        BY <1>1, <3>1 DEF Moves
      <4> QED BY <2>1, <3>0, <4>2, <4>3
    <3>2. CASE ~(st \in {"recognizing", "over"} /\ r # "unstarted" /\ page[p] # "recognizing")
      <4>1. Rasterized' = Rasterized
        <5>1. p \in Rasterized' <=> p \in Rasterized
          BY <1>2, <1>3, <1>4, <1>10, <3>2 DEF Rasterized, Moves
        <5>2. \A q \in DOMAIN page : q # p => (q \in Rasterized' <=> q \in Rasterized)
          BY <1>2, <1>3, <1>4 DEF Rasterized
        <5>3. Rasterized \subseteq DOMAIN page /\ Rasterized' \subseteq DOMAIN page
          BY <1>3 DEF Rasterized
        <5>4. \A q : q \in Rasterized' <=> q \in Rasterized
          BY <5>1, <5>2, <5>3
        <5> QED BY <5>4
      <4> QED BY <1>1, <2>1, <3>2, <4>1 DEF Moves
    <3> QED BY <3>1, <3>2
  <2> QED BY <2>3, <2>4 DEF Counted
<1>12. Told'
  <2> SUFFICES ASSUME Undisturbed PROVE Told'
    BY <1>9 DEF Told
  <2>1. ~PagesOver
    BY DEF PagesOver, Moves
  <2>2. at \in {"selecting", "forwarding"}
    BY <1>0, <1>6, <2>1 DEF PagesTypeOK, Told
  <2>3. Sent' = Sent
    BY <1>1 DEF Sent
  <2> QED BY <1>0, <1>1, <2>2, <2>3 DEF Told
<1> QED BY <1>5, <1>7, <1>8, <1>11, <1>12 DEF OcrInv

LEMMA PageStepKeeps ==
    ASSUME OcrInv, NEW p \in DOMAIN page, PageStep(p)
    PROVE  OcrInv'
<1>0. PagesTypeOK /\ Born
  BY DEF OcrInv
<1>1. /\ rasterDone \in Nat /\ pageDone \in Nat
      /\ \A n \in Nat : \A m \in Signal(n) : m \in Nat /\ (live => m = n + 1)
  <2>1. rasterDone \in Nat /\ pageDone \in Nat
    BY <1>0 DEF PagesTypeOK
  <2>2. ASSUME NEW n \in Nat, NEW m \in Signal(n)
        PROVE  m \in Nat /\ (live => m = n + 1)
    <3>1. CASE live
      BY <3>1 DEF Signal
    <3>2. CASE ~live
      BY <3>2 DEF Signal
    <3> QED BY <3>1, <3>2
  <2> QED BY <2>1, <2>2
<1>2. DOMAIN result = DOMAIN page
  BY <1>0, Finite
<1>3. page[p] # "over" => result[p] = "failed" /\ result = [result EXCEPT ![p] = "failed"]
  <2>1. page[p] # "over" => result[p] = "failed"
    BY <1>0 DEF Born
  <2>2. result \in Seq(Results)
    BY <1>0 DEF PagesTypeOK
  <2>3. result = [q \in DOMAIN result |-> result[q]]
    BY <2>2
  <2>4. result = [result EXCEPT ![p] = result[p]]
    BY <2>3
  <2> QED BY <2>1, <2>4
<1>4. CASE StartPage(p)
  <2>1. page[p] = "waiting"
    BY <1>4 DEF StartPage
  <2>2. CASE page' = [page EXCEPT ![p] = "rasterizing"] /\ UNCHANGED <<result, pageDone>>
    <3>1. Moves(p, "rasterizing", "failed")
      BY <1>1, <1>3, <1>4, <2>1, <2>2 DEF Moves, StartPage
    <3> QED BY <3>1, PageKeeps DEF Results
  <2>3. CASE /\ page' = [page EXCEPT ![p] = "over"]
             /\ result' = [result EXCEPT ![p] = "unstarted"]
             /\ pageDone' \in Signal(pageDone)
    <3>1. pageDone' \in Nat /\ (Undisturbed => pageDone' = pageDone + 1)
      BY <1>1, <2>3 DEF Undisturbed
    <3>2. Moves(p, "over", "unstarted")
      BY <1>1, <1>4, <2>1, <2>3, <3>1 DEF Moves, StartPage
    <3> QED BY <3>2, PageKeeps DEF Results
  <2> QED BY <1>4, <2>2, <2>3 DEF StartPage
<1>5. CASE SkipPage(p)
  <2>1. page[p] = "waiting" /\ ~Undisturbed
    BY <1>5 DEF SkipPage, Undisturbed
  <2>2. Moves(p, "over", "failed")
    BY <1>1, <1>5, <2>1 DEF Moves, SkipPage
  <2> QED BY <2>2, PageKeeps DEF Results
<1>6. CASE Rasterize(p)
  <2>1. rasterDone' \in Nat /\ (Undisturbed => rasterDone' = rasterDone + 1)
    BY <1>1, <1>6 DEF Undisturbed, Rasterize
  <2>2. Moves(p, "recognizing", "failed")
    BY <1>1, <1>3, <1>6, <2>1 DEF Moves, Rasterize
  <2> QED BY <2>2, PageKeeps DEF Results
<1>7. CASE Recognize(p)
  <2>1. pageDone' \in Nat /\ (Undisturbed => pageDone' = pageDone + 1)
    BY <1>1, <1>7 DEF Undisturbed, Recognize
  <2>2. PICK r \in {"text", "failed"} : result' = [result EXCEPT ![p] = r]
    BY <1>7 DEF Recognize
  <2>3. Moves(p, "over", r)
    BY <1>1, <1>7, <2>1, <2>2 DEF Moves, Recognize
  <2> QED BY <2>3, PageKeeps DEF Results
<1> QED BY <1>4, <1>5, <1>6, <1>7 DEF PageStep

LEMMA RecognizeImageKeeps == OcrInv /\ RecognizeImage => OcrInv'
<1> SUFFICES ASSUME OcrInv, RecognizeImage PROVE OcrInv'
  OBVIOUS
<1>0. PagesTypeOK /\ Born /\ Queue
  BY DEF OcrInv
<1>1. UNCHANGED <<mime, at, files, out, live, rasterDone, pageDone, cairo, tess, ch, reader, heard>>
  BY DEF RecognizeImage, loopVars
<1>2. mime = "image" /\ page = <<"recognizing">> /\ page' = <<"over">>
  BY DEF RecognizeImage
<1>3. PICK r \in {"text", "failed"} : result' = <<r>>
  BY DEF RecognizeImage
<1>4. at \notin {"idle", "begin", "announcing", "final", "closed"}
  BY <1>0, <1>2 DEF Born
<1>5. PagesTypeOK'
  <2>1. <<"over">> \in Seq(PageStates) /\ <<r>> \in Seq(Results) /\ Len(<<r>>) = Len(<<"over">>)
    BY DEF PageStates, Results
  <2> QED BY <1>0, <1>1, <1>2, <1>3, <2>1 DEF PagesTypeOK
<1>6. Born'
  BY <1>0, <1>1, <1>2, <1>3, <1>4 DEF Born
<1>7. Queue'
  BY <1>0, <1>1 DEF Queue
<1>8. ~Undisturbed'
  BY <1>1, <1>2, <1>4 DEF Undisturbed
<1> QED BY <1>5, <1>6, <1>7, <1>8 DEF OcrInv, Counted, Told

-----------------------------------------------------------------------------
(* The loop. *)

LEMMA ExtractWithProgressKeeps == OcrInv /\ ExtractWithProgress => OcrInv'
<1> SUFFICES ASSUME OcrInv, ExtractWithProgress PROVE OcrInv'
  OBVIOUS
<1>0. PagesTypeOK /\ Born /\ Queue /\ Counted /\ Told
  BY DEF OcrInv
<1>1. UNCHANGED <<files, out, live, page, result, rasterDone, pageDone, cairo, tess, ch, heard>>
  BY DEF ExtractWithProgress, pageVars
<1>2. at = "idle" /\ at' = "begin" /\ reader' = "waiting" /\ mime' \in {"pdf", "image"}
  BY DEF ExtractWithProgress
<1>3. PagesTypeOK'
  BY <1>0, <1>1, <1>2 DEF PagesTypeOK
<1>4. Born'
  BY <1>0, <1>1, <1>2 DEF Born, InCharge
<1>5. Queue'
  BY <1>0, <1>1, <1>2 DEF Queue
<1>6. Undisturbed' => Undisturbed
  BY <1>1, <1>2 DEF Undisturbed
<1>7. OverCount' = OverCount /\ Rasterized' = Rasterized
  BY <1>1 DEF OverCount, Rasterized
<1>8. Counted'
  BY <1>0, <1>1, <1>6, <1>7 DEF Counted
<1>9. Told'
  BY <1>0, <1>1, <1>2, <1>6 DEF Told
<1> QED BY <1>3, <1>4, <1>5, <1>8, <1>9 DEF OcrInv

LEMMA Messages ==
    /\ Nothing \in Message /\ Nothing.cairo = 0 /\ ~Nothing.done
    /\ Failure \in Message /\ Failure.done /\ ~Failure.ok
    /\ \A c, t \in Nat : Frame(c, t) \in Message /\ Frame(c, t).cairo = c /\ ~Frame(c, t).done
    /\ \A n \in Nat : \A S \in SUBSET Nat : Text(S, n) \in Message /\ Text(S, n).done
BY DEF Nothing, Failure, Frame, Text, Message

\* The pages of a new document
LEMMA Fresh ==
    ASSUME NEW n \in Nat, NEW S, NEW x \in S
    PROVE  /\ [p \in 1..n |-> x] \in Seq(S) /\ Len([p \in 1..n |-> x]) = n
           /\ DOMAIN [p \in 1..n |-> x] = 1..n
OBVIOUS

\* The run is over before a page was born.
LEMMA FinalKeeps ==
    ASSUME OcrInv, at = "begin", at' = "final", out' \in Message, out'.done,
           out'.ok => out'.cairo = 0, files' \in BOOLEAN,
           UNCHANGED <<mime, live, page, result, rasterDone, pageDone, cairo, tess, ch, reader, heard>>
    PROVE  OcrInv'
<1>0. PagesTypeOK /\ Born /\ Queue /\ Counted /\ Told
  BY DEF OcrInv
<1>1. page = <<>>
  BY <1>0 DEF Born
<1>2. PagesTypeOK'
  BY <1>0 DEF PagesTypeOK
<1>3. Born'
  BY <1>0, <1>1 DEF Born, InCharge
<1>4. Queue'
  BY <1>0 DEF Queue
<1>5. Undisturbed' <=> Undisturbed
  BY DEF Undisturbed
<1>6. OverCount' = OverCount /\ Rasterized' = Rasterized
  BY DEF OverCount, Rasterized
<1>7. Counted'
  BY <1>0, <1>5, <1>6 DEF Counted
<1>8. Told'
  <2> SUFFICES ASSUME Undisturbed PROVE Told'
    BY <1>5 DEF Told
  <2>1. ch = <<>> /\ heard = Nothing
    BY <1>0 DEF Told
  <2>2. Sent' = Nothing /\ Total' = 0
    BY <1>1, <2>1 DEF Sent, Total
  <2> QED BY <2>2, Messages DEF Told
<1> QED BY <1>2, <1>3, <1>4, <1>7, <1>8 DEF OcrInv

LEMMA FailsKeeps ==
    ASSUME OcrInv, at = "begin", FailsAtOnce,
           UNCHANGED <<mime, live, rasterDone, pageDone, cairo, tess, ch, reader, heard>>
    PROVE  OcrInv'
<1>1. at' = "final" /\ out' = Failure /\ files' \in BOOLEAN /\ UNCHANGED <<page, result>>
  BY DEF FailsAtOnce, Final
<1> QED BY <1>1, FinalKeeps, Messages

LEMMA AnnouncingKeeps ==
    ASSUME OcrInv, at = "begin", NEW n \in Nat, Announcing(n),
           UNCHANGED <<mime, live, rasterDone, pageDone, cairo, tess, ch, reader, heard>>
    PROVE  OcrInv'
<1>0. PagesTypeOK /\ Born /\ Queue /\ Counted /\ Told
  BY DEF OcrInv
<1>1. page = <<>>
  BY <1>0 DEF Born
<1>2. at' = "announcing" /\ out' = Nothing /\ files' = TRUE
  BY DEF Announcing
<1>3. /\ page' \in Seq(PageStates) /\ DOMAIN page' = 1..n /\ Len(page') = n
      /\ \A p \in DOMAIN page' : page'[p] = "unborn"
  BY Fresh DEF Announcing, PageStates
<1>4. /\ result' \in Seq(Results) /\ DOMAIN result' = 1..n /\ Len(result') = n
      /\ \A p \in DOMAIN result' : result'[p] = "failed"
  BY Fresh DEF Announcing, Results
<1>5. PagesTypeOK'
  BY <1>0, <1>2, <1>3, <1>4, Messages DEF PagesTypeOK
<1>6. Born'
  BY <1>2, <1>3, <1>4 DEF Born, InCharge
<1>7. Queue'
  BY <1>0, <1>2, Messages DEF Queue
<1>8. Undisturbed' <=> Undisturbed
  BY <1>2 DEF Undisturbed
<1>9. OverCount = {} /\ Rasterized = {} /\ OverCount' = {} /\ Rasterized' = {}
  BY <1>1, <1>3 DEF OverCount, Rasterized
<1>10. Counted'
  BY <1>0, <1>8, <1>9 DEF Counted
<1>11. Told'
  BY <1>0, <1>2, <1>8, Messages DEF Told
<1> QED BY <1>5, <1>6, <1>7, <1>10, <1>11 DEF OcrInv

LEMMA BeginKeeps == OcrInv /\ (BeginPDF \/ BeginImage) => OcrInv'
<1>1. ASSUME OcrInv, BeginPDF PROVE OcrInv'
  <2>1. at = "begin" /\ UNCHANGED <<mime, live, rasterDone, pageDone, cairo, tess, ch, reader, heard>>
    BY <1>1 DEF BeginPDF
  <2>2. CASE FailsAtOnce
    BY <1>1, <2>1, <2>2, FailsKeeps
  <2>3. CASE Final(Text({}, 0)) /\ files' = TRUE /\ UNCHANGED <<page, result>>
    <3>1. Text({}, 0) \in Message /\ Text({}, 0).done /\ Text({}, 0).cairo = 0
      BY DEF Text, Message
    <3>2. at' = "final" /\ out' = Text({}, 0)
      BY <2>3 DEF Final
    <3> QED BY <1>1, <2>1, <2>3, <3>1, <3>2, FinalKeeps
  <2>4. ASSUME NEW n \in PDFPages \ {0}, Announcing(Capped(n)) PROVE OcrInv'
    <3>1. Capped(n) \in Nat
      BY PagesAssumption DEF Capped
    <3> QED BY <1>1, <2>1, <2>4, <3>1, AnnouncingKeeps
  <2> QED BY <1>1, <2>2, <2>3, <2>4 DEF BeginPDF
<1>2. ASSUME OcrInv, BeginImage PROVE OcrInv'
  <2>1. at = "begin" /\ UNCHANGED <<mime, live, rasterDone, pageDone, cairo, tess, ch, reader, heard>>
    BY <1>2 DEF BeginImage
  <2>2. CASE FailsAtOnce
    BY <1>2, <2>1, <2>2, FailsKeeps
  <2>3. CASE Announcing(1)
    BY <1>2, <2>1, <2>3, AnnouncingKeeps
  <2> QED BY <1>2, <2>2, <2>3 DEF BeginImage
<1> QED BY <1>1, <1>2

\* The last message of a queue that has grown
LEMMA PageAppended ==
    ASSUME NEW S, NEW s \in Seq(S), NEW x \in S
    PROVE  /\ Append(s, x) \in Seq(S) /\ Len(Append(s, x)) = Len(s) + 1 /\ Len(s) \in Nat
           /\ DOMAIN Append(s, x) = 1..(Len(s) + 1) /\ DOMAIN s = 1..Len(s)
           /\ Append(s, x)[Len(s) + 1] = x /\ Append(s, x) # <<>>
           /\ \A i \in 1..Len(s) : Append(s, x)[i] = s[i]
OBVIOUS

\* What is sent while the loop is not at its end
LEMMA SentKeeps ==
    ASSUME PagesTypeOK, Queue, ch' = Append(ch, out), ~out.done, at \notin {"final", "closed"},
           at' \notin {"final", "closed"}, UNCHANGED reader
    PROVE  /\ ch' \in Seq(Message) /\ ch' # <<>> /\ Sent' = out
           /\ \A i \in DOMAIN ch' : ~ch'[i].done
           /\ reader' # "answered"
<1>1. ch \in Seq(Message) /\ out \in Message
  BY DEF PagesTypeOK
<1>2. /\ ch' \in Seq(Message) /\ Len(ch') = Len(ch) + 1 /\ Len(ch) \in Nat
      /\ DOMAIN ch' = 1..(Len(ch) + 1) /\ DOMAIN ch = 1..Len(ch)
      /\ ch'[Len(ch) + 1] = out /\ ch' # <<>>
      /\ \A i \in 1..Len(ch) : ch'[i] = ch[i]
  BY <1>1, PageAppended
<1>3. Sent' = out
  BY <1>2 DEF Sent
<1>4. ASSUME NEW i \in DOMAIN ch' PROVE ~ch'[i].done
  <2>1. CASE i = Len(ch) + 1
    BY <1>2, <2>1
  <2>2. CASE i # Len(ch) + 1
    <3>1. i \in 1..Len(ch)
      BY <1>2, <2>2
    <3> QED BY <1>2, <3>1 DEF Queue
  <2> QED BY <2>1, <2>2
<1> QED BY <1>2, <1>3, <1>4 DEF Queue

LEMMA AnnounceKeeps == OcrInv /\ Announce => OcrInv'
<1> SUFFICES ASSUME OcrInv, Announce PROVE OcrInv'
  OBVIOUS
<1>0. PagesTypeOK /\ Born /\ Queue /\ Counted /\ Told
  BY DEF OcrInv
<1>1. /\ at = "announcing" /\ ~out.done
      /\ UNCHANGED <<mime, files, live, result, rasterDone, pageDone, cairo, tess, reader, heard>>
  BY <1>0 DEF Announce, Queue
<1>2. /\ \A p \in DOMAIN page : page[p] = "unborn" /\ result[p] = "failed"
      /\ files
  BY <1>0, <1>1 DEF Born
<1>3. CASE ~live /\ UNCHANGED ch /\ Final(Failure) /\ UNCHANGED page
  <2>1. at' = "final" /\ out' = Failure
    BY <1>3 DEF Final
  <2>2. PagesTypeOK'
    BY <1>0, <1>1, <1>3, <2>1, Messages DEF PagesTypeOK
  <2>3. Born'
    BY <1>0, <1>1, <1>2, <1>3, <2>1 DEF Born, InCharge
  <2>4. Queue'
    BY <1>0, <1>1, <1>3, <2>1, Messages DEF Queue
  <2>5. ~Undisturbed'
    BY <1>1, <1>3 DEF Undisturbed
  <2> QED BY <2>2, <2>3, <2>4, <2>5 DEF OcrInv, Counted, Told
<1>4. CASE /\ ch' = Append(ch, out) /\ UNCHANGED out
           /\ at' = IF mime = "image" THEN "joining" ELSE "selecting"
           /\ page' = [p \in DOMAIN page |-> IF mime = "image" THEN "recognizing" ELSE "waiting"]
  <2>1. at' \in {"joining", "selecting"} /\ (mime # "image" => at' = "selecting")
    BY <1>4
  <2>2. /\ ch' \in Seq(Message) /\ Sent' = out
        /\ \A i \in DOMAIN ch' : ~ch'[i].done
        /\ reader' # "answered"
    BY <1>0, <1>1, <1>4, <2>1, SentKeeps
  <2>3. /\ page' \in Seq(PageStates) /\ Len(page') = Len(page) /\ DOMAIN page' = DOMAIN page
        /\ \A p \in DOMAIN page' : page'[p] \in {"recognizing", "waiting"}
        /\ mime = "pdf" => \A p \in DOMAIN page' : page'[p] = "waiting"
    <3>1. PICK x \in {"recognizing", "waiting"} : x = IF mime = "image" THEN "recognizing" ELSE "waiting"
      OBVIOUS
    <3>2. page' = [p \in 1..Total |-> x] /\ Total \in Nat /\ DOMAIN page = 1..Total
      BY <1>0, <1>4, <3>1, Finite
    <3>3. x \in PageStates
      BY DEF PageStates
    <3>4. page' \in Seq(PageStates) /\ Len(page') = Total /\ DOMAIN page' = 1..Total
      BY <3>2, <3>3, Fresh
    <3> QED BY <3>1, <3>2, <3>4 DEF Total
  <2>4. PagesTypeOK'
    BY <1>0, <1>1, <1>4, <2>1, <2>2, <2>3 DEF PagesTypeOK
  <2>5. Born'
    BY <1>1, <1>2, <2>1, <2>3 DEF Born, InCharge
  <2>6. Queue'
    BY <1>1, <2>1, <2>2 DEF Queue
  <2>7. Undisturbed' => Undisturbed /\ mime = "pdf"
    BY <1>1, <2>1 DEF Undisturbed
  <2>8. Counted'
    <3> SUFFICES ASSUME Undisturbed, mime = "pdf" PROVE Counted'
      BY <2>7 DEF Counted
    <3>1. OverCount = {} /\ Rasterized = {} /\ OverCount' = {} /\ Rasterized' = {}
      BY <1>2, <2>3 DEF OverCount, Rasterized
    <3> QED BY <1>0, <1>1, <3>1 DEF Counted
  <2>9. Told'
    <3> SUFFICES ASSUME Undisturbed, mime = "pdf" PROVE Told'
      BY <2>7 DEF Told
    <3>1. at' = "selecting" /\ cairo = 0 /\ out.cairo = 0
      BY <1>0, <1>1, <2>1 DEF Told
    <3> QED BY <1>1, <2>2, <3>1 DEF Told
  <2> QED BY <2>4, <2>5, <2>6, <2>8, <2>9 DEF OcrInv
<1> QED BY <1>3, <1>4 DEF Announce, Sends

\* A step of the loop that leaves the pages and the sent messages alone
LoopMoves ==
    /\ at \in {"selecting", "forwarding", "catching up"}
    /\ at' \in {"selecting", "forwarding", "catching up", "joining", "stopping"}
    /\ out' \in Message /\ (at' \in {"forwarding", "catching up"} => ~out'.done)
    /\ rasterDone' \in Nat /\ pageDone' \in Nat /\ cairo' \in Nat /\ tess' \in Nat
    /\ Undisturbed => tess' + pageDone' = tess + pageDone /\ cairo' + rasterDone' = cairo + rasterDone
    /\ UNCHANGED <<mime, files, live, page, result, reader, heard>>

LEMMA LoopKeeps ==
    ASSUME OcrInv, LoopMoves, \/ UNCHANGED ch
                              \/ ch' = Append(ch, out) /\ ~out.done
    PROVE  PagesTypeOK' /\ Born' /\ Queue' /\ Counted'
<1>0. PagesTypeOK /\ Born /\ Queue /\ Counted
  BY DEF OcrInv
<1>1. UNCHANGED <<mime, files, live, page, result, reader, heard>>
  BY DEF LoopMoves
<1>2. /\ at \notin {"final", "closed", "idle", "begin", "announcing"}
      /\ at' \notin {"final", "closed", "idle", "begin", "announcing"}
      /\ at \in InCharge /\ at' \in InCharge
  BY DEF LoopMoves, InCharge
<1>3. ch' \in Seq(Message) /\ (\A i \in DOMAIN ch' : ~ch'[i].done) /\ reader # "answered"
  <2>1. CASE UNCHANGED ch
    BY <1>0, <1>2, <2>1 DEF PagesTypeOK, Queue
  <2>2. CASE ch' = Append(ch, out) /\ ~out.done
    BY <1>0, <1>1, <1>2, <2>2, SentKeeps
  <2> QED BY <2>1, <2>2
<1>4. PagesTypeOK'
  <2>1. /\ at' \in {"selecting", "forwarding", "catching up", "joining", "stopping"}
        /\ out' \in Message
        /\ rasterDone' \in Nat /\ pageDone' \in Nat /\ cairo' \in Nat /\ tess' \in Nat
    BY DEF LoopMoves
  <2> QED BY <1>0, <1>1, <1>3, <2>1 DEF PagesTypeOK
<1>5. Born'
  BY <1>0, <1>1, <1>2 DEF Born
<1>6. Queue'
  <2>1. at' \in {"forwarding", "catching up"} => ~out'.done
    BY DEF LoopMoves
  <2> QED BY <1>1, <1>2, <1>3, <2>1 DEF Queue
<1>7. Counted'
  <2>1. Undisturbed' <=> Undisturbed
    BY <1>1, <1>2 DEF Undisturbed
  <2>2. OverCount' = OverCount /\ Rasterized' = Rasterized
    BY <1>1 DEF OverCount, Rasterized
  <2> QED BY <1>0, <2>1, <2>2 DEF Counted, LoopMoves
<1> QED BY <1>4, <1>5, <1>6, <1>7

LEMMA SelectKeeps == OcrInv /\ Select => OcrInv'
<1> SUFFICES ASSUME OcrInv, Select PROVE OcrInv'
  OBVIOUS
<1>0. PagesTypeOK /\ Told
  BY DEF OcrInv
<1>1. at = "selecting" /\ UNCHANGED <<mime, files, live, page, result, ch, reader, heard>>
  BY DEF Select
<1>2. /\ rasterDone \in Nat /\ pageDone \in Nat /\ cairo \in Nat /\ tess \in Nat
      /\ out \in Message
  BY <1>0 DEF PagesTypeOK
<1>3. /\ LoopMoves /\ at' \in {"forwarding", "stopping"}
      /\ at' = "forwarding" => out'.cairo = cairo'
      /\ at' = "stopping" => ~live
  <2>1. CASE /\ rasterDone > 0 /\ rasterDone' = rasterDone - 1 /\ cairo' = cairo + 1
             /\ at' = "forwarding" /\ out' = Frame(cairo + 1, tess)
             /\ UNCHANGED <<pageDone, tess>>
    <3>1. cairo + 1 \in Nat /\ rasterDone - 1 \in Nat
      BY <1>2, <2>1
    <3>2. out' \in Message /\ ~out'.done /\ out'.cairo = cairo + 1
      BY <1>2, <2>1, <3>1, Messages
    <3> QED BY <1>1, <1>2, <2>1, <3>1, <3>2 DEF LoopMoves
  <2>2. CASE /\ pageDone > 0 /\ pageDone' = pageDone - 1 /\ tess' = tess + 1
             /\ at' = "forwarding" /\ out' = Frame(cairo, tess + 1)
             /\ UNCHANGED <<rasterDone, cairo>>
    <3>1. tess + 1 \in Nat /\ pageDone - 1 \in Nat
      BY <1>2, <2>2
    <3>2. out' \in Message /\ ~out'.done /\ out'.cairo = cairo
      BY <1>2, <2>2, <3>1, Messages
    <3> QED BY <1>1, <1>2, <2>2, <3>1, <3>2 DEF LoopMoves
  <2>3. CASE /\ ~live /\ at' = "stopping"
             /\ UNCHANGED <<out, rasterDone, pageDone, cairo, tess>>
    BY <1>1, <1>2, <2>3 DEF LoopMoves
  <2> QED BY <2>1, <2>2, <2>3 DEF Select
<1>4. PagesTypeOK' /\ Born' /\ Queue' /\ Counted'
  BY <1>1, <1>3, LoopKeeps
<1>5. Told'
  <2> SUFFICES ASSUME Undisturbed' PROVE Told'
    BY DEF Told
  <2>1. at' = "forwarding"
    BY <1>1, <1>3 DEF Undisturbed
  <2> QED BY <1>3, <2>1 DEF Told
<1> QED BY <1>4, <1>5 DEF OcrInv

LEMMA ForwardKeeps == OcrInv /\ (Forward \/ SendCaughtUp) => OcrInv'
<1> SUFFICES ASSUME OcrInv, Forward \/ SendCaughtUp PROVE OcrInv'
  OBVIOUS
<1>0. PagesTypeOK /\ Queue /\ Told
  BY DEF OcrInv
<1>1. /\ at \in {"forwarding", "catching up"} /\ ~out.done /\ at' \in {"selecting", "joining", "stopping"}
      /\ UNCHANGED <<mime, files, out, live, page, result, rasterDone, pageDone, cairo, tess, reader, heard>>
  BY <1>0 DEF Forward, SendCaughtUp, Sends, pageVars, Queue
<1>2. LoopMoves
  BY <1>0, <1>1 DEF LoopMoves, PagesTypeOK
<1>3. \/ ch' = Append(ch, out) /\ ~out.done
      \/ UNCHANGED ch /\ ~live
  BY <1>1 DEF Forward, SendCaughtUp, Sends
<1>4. PagesTypeOK' /\ Born' /\ Queue' /\ Counted'
  BY <1>2, <1>3, LoopKeeps
<1>5. Told'
  <2> SUFFICES ASSUME Undisturbed' PROVE Told'
    BY DEF Told
  <2>1. Undisturbed /\ live
    BY <1>1 DEF Undisturbed
  <2>2. ch' = Append(ch, out)
    BY <1>3, <2>1
  <2>3. Sent' = out
    BY <1>0, <1>1, <2>2, SentKeeps
  <2>4. /\ at' = IF at = "forwarding" THEN "selecting" ELSE "joining"
    BY <2>1 DEF Forward, SendCaughtUp, Sends
  <2>5. Sent'.cairo = cairo'
    BY <1>0, <1>1, <2>1, <2>3 DEF Told
  <2>6. at' = "joining" => PagesOver /\ (AllStarted => cairo = Total)
    BY <1>0, <1>1, <2>1, <2>4 DEF Told
  <2>7. (PagesOver' <=> PagesOver) /\ (AllStarted' <=> AllStarted) /\ Total' = Total
    BY <1>1 DEF PagesOver, AllStarted, Total
  <2> QED BY <1>1, <2>4, <2>5, <2>6, <2>7 DEF Told
<1> QED BY <1>4, <1>5 DEF OcrInv

\* As many completed as there are pages: they are all over, and rasterized if
\* they were all started.
LEMMA AllCounted ==
    ASSUME PagesTypeOK, Counted, Undisturbed, tess >= Total
    PROVE  PagesOver /\ (AllStarted => cairo + rasterDone = Total)
<1>1. /\ DOMAIN page = 1..Total /\ Total \in Nat
      /\ IsFiniteSet(DOMAIN page) /\ Cardinality(DOMAIN page) = Total
  BY Finite
<1>2. OverCount \in SUBSET DOMAIN page
  BY DEF OverCount
<1>3. /\ Cardinality(OverCount) <= Total /\ Cardinality(OverCount) \in Nat
      /\ (Cardinality(OverCount) = Total => OverCount = DOMAIN page)
  BY <1>1, <1>2, FS_Subset, FS_CardinalityType
<1>4. tess + pageDone = Cardinality(OverCount) /\ cairo + rasterDone = Cardinality(Rasterized)
  BY DEF Counted
<1>5. tess \in Nat /\ pageDone \in Nat
  BY DEF PagesTypeOK
<1>6. Cardinality(OverCount) = Total
  BY <1>1, <1>3, <1>4, <1>5
<1>7. OverCount = DOMAIN page
  BY <1>3, <1>6
<1>8. AllStarted => Rasterized = DOMAIN page
  BY <1>7 DEF OverCount, Rasterized, AllStarted
<1> QED BY <1>1, <1>4, <1>7, <1>8 DEF OverCount, PagesOver

LEMMA CatchUpKeeps == OcrInv /\ CatchUp => OcrInv'
<1> SUFFICES ASSUME OcrInv, CatchUp PROVE OcrInv'
  OBVIOUS
<1>0. PagesTypeOK /\ Counted /\ Told
  BY DEF OcrInv
<1>1. /\ at = "selecting" /\ tess >= Total
      /\ UNCHANGED <<mime, files, live, page, result, pageDone, tess, ch, reader, heard>>
      /\ cairo' = cairo + rasterDone /\ rasterDone' = rasterDone - rasterDone
  BY DEF CatchUp, Completed, Drained
<1>2. /\ rasterDone \in Nat /\ pageDone \in Nat /\ cairo \in Nat /\ tess \in Nat
      /\ out \in Message
  BY <1>0 DEF PagesTypeOK
<1>3. cairo' \in Nat /\ rasterDone' = 0
  BY <1>1, <1>2
<1>4. \/ rasterDone = 0 /\ at' = "joining" /\ UNCHANGED out
      \/ at' = "catching up" /\ out' \in Message /\ ~out'.done /\ out'.cairo = cairo'
  <2>1. CASE rasterDone = 0
    BY <2>1 DEF CatchUp, Drained
  <2>2. CASE rasterDone # 0
    <3>1. cairo + rasterDone \in Nat
      BY <1>2
    <3>2. at' = "catching up" /\ out' = Frame(cairo + rasterDone, tess)
      BY <2>2 DEF CatchUp, Drained
    <3> QED BY <1>1, <1>2, <3>1, <3>2, Messages
  <2> QED BY <2>1, <2>2
<1>5. LoopMoves
  <2>1. cairo' + rasterDone' = cairo + rasterDone /\ tess' + pageDone' = tess + pageDone
    BY <1>1, <1>2
  <2>2. at' \in {"catching up", "joining"} /\ out' \in Message /\ (at' = "catching up" => ~out'.done)
    BY <1>2, <1>4
  <2>3. /\ rasterDone' \in Nat /\ pageDone' \in Nat /\ tess' \in Nat
        /\ UNCHANGED <<mime, files, live, page, result, reader, heard>>
    BY <1>1, <1>2, <1>3
  <2>4. at = "selecting"
    BY <1>1
  <2> QED BY <1>3, <2>1, <2>2, <2>3, <2>4 DEF LoopMoves
<1>6. PagesTypeOK' /\ Born' /\ Queue' /\ Counted'
  BY <1>1, <1>5, LoopKeeps
<1>7. Told'
  <2> SUFFICES ASSUME Undisturbed' PROVE Told'
    BY DEF Told
  <2>1. Undisturbed
    BY <1>1, <1>4 DEF Undisturbed
  <2>2. PagesOver /\ (AllStarted => cairo' = Total)
    BY <1>0, <1>1, <2>1, AllCounted
  <2>3. (PagesOver' <=> PagesOver) /\ (AllStarted' <=> AllStarted) /\ Total' = Total
    BY <1>1 DEF PagesOver, AllStarted, Total
  <2>4. Sent' = Sent /\ Sent.cairo = cairo
    <3>1. at # "closed" /\ at' # "closed"
      BY <1>1, <1>4
    <3> QED BY <1>0, <1>1, <2>1, <3>1 DEF Sent, Told
  <2>5. at' = "joining" => Sent'.cairo = cairo'
    BY <1>1, <1>2, <1>4, <2>4
  <2> QED BY <1>4, <2>2, <2>3, <2>5 DEF Told
<1> QED BY <1>6, <1>7 DEF OcrInv

\* The goroutine has waited for its pages, and has its last message.
LEMMA EndKeeps ==
    ASSUME OcrInv, at \in {"joining", "stopping"}, PagesOver, at' = "final",
           out' \in Message, out'.done,
           (out'.ok /\ mime = "pdf") => at = "joining",
           UNCHANGED <<mime, files, live, page, result, rasterDone, pageDone, cairo, tess, ch, reader, heard>>
    PROVE  OcrInv'
<1>0. PagesTypeOK /\ Born /\ Queue /\ Counted /\ Told
  BY DEF OcrInv
<1>1. PagesTypeOK'
  BY <1>0 DEF PagesTypeOK
<1>2. Born'
  BY <1>0 DEF Born, InCharge, PagesOver
<1>3. Queue'
  BY <1>0 DEF Queue
<1>4. Undisturbed' => Undisturbed /\ mime = "pdf"
  BY DEF Undisturbed
<1>5. OverCount' = OverCount /\ Rasterized' = Rasterized
  BY DEF OverCount, Rasterized
<1>6. Counted'
  BY <1>0, <1>4, <1>5 DEF Counted
<1>7. Told'
  <2> SUFFICES ASSUME Undisturbed, mime = "pdf" PROVE Told'
    BY <1>4 DEF Told
  <2>1. Sent' = Sent /\ (AllStarted' <=> AllStarted) /\ Total' = Total
    BY DEF Sent, AllStarted, Total
  <2>2. at = "joining"
    BY <1>0 DEF Told
  <2>3. Sent.cairo = cairo /\ (AllStarted => cairo = Total)
    BY <1>0, <2>2 DEF Told
  <2> QED BY <2>1, <2>3 DEF Told
<1> QED BY <1>1, <1>2, <1>3, <1>6, <1>7 DEF OcrInv

LEMMA JoinKeeps == OcrInv /\ (Join \/ JoinImage) => OcrInv'
<1>0. ASSUME PagesTypeOK
      PROVE  /\ Text(Collected, Total) \in Message /\ Text(Collected, Total).done
             /\ Text(Collected, 0) \in Message /\ Text(Collected, 0).done
  <2>1. Collected \in SUBSET Nat /\ Total \in Nat
    BY <1>0, Finite DEF Collected
  <2> QED BY <2>1, Messages
<1>1. ASSUME OcrInv, Join PROVE OcrInv'
  <2>0. PagesTypeOK
    BY <1>1 DEF OcrInv
  <2>1. /\ at \in {"joining", "stopping"} /\ PagesOver /\ at' = "final"
        /\ UNCHANGED <<mime, files, live, page, result, rasterDone, pageDone, cairo, tess, ch, reader, heard>>
    BY <1>1 DEF Join, Joined, Final, pageVars
  <2>2. CASE at = "stopping"
    <3>1. out' = Failure
      BY <1>1, <2>2 DEF Join, Final
    <3> QED BY <1>1, <2>1, <3>1, EndKeeps, Messages
  <2>3. CASE at = "joining"
    <3>1. out' = Text(Collected, Total)
      BY <1>1, <2>3 DEF Join, Final
    <3> QED BY <1>0, <1>1, <2>0, <2>1, <2>3, <3>1, EndKeeps
  <2> QED BY <2>1, <2>2, <2>3
<1>2. ASSUME OcrInv, JoinImage PROVE OcrInv'
  <2>0. PagesTypeOK
    BY <1>2 DEF OcrInv
  <2>1. /\ at = "joining" /\ PagesOver /\ at' = "final"
        /\ UNCHANGED <<mime, files, live, page, result, rasterDone, pageDone, cairo, tess, ch, reader, heard>>
    BY <1>2 DEF JoinImage, Final, pageVars
  <2>2. out' = Failure \/ out' = Text(Collected, 0)
    BY <1>2 DEF JoinImage, Final
  <2>3. out' \in Message /\ out'.done
    BY <1>0, <2>0, <2>2, Messages
  <2> QED BY <1>2, <2>1, <2>3, EndKeeps
<1> QED BY <1>1, <1>2

LEMMA FinishKeeps == OcrInv /\ Finish => OcrInv'
<1> SUFFICES ASSUME OcrInv, Finish PROVE OcrInv'
  OBVIOUS
<1>0. PagesTypeOK /\ Born /\ Queue /\ Counted /\ Told
  BY DEF OcrInv
<1>1. /\ at = "final" /\ at' = "closed" /\ files' = FALSE /\ ch' = Append(ch, out)
      /\ UNCHANGED <<mime, out, live, page, result, rasterDone, pageDone, cairo, tess, reader, heard>>
  BY DEF Finish, pageVars
<1>2. ch \in Seq(Message) /\ out \in Message /\ out.done
  BY <1>0, <1>1 DEF PagesTypeOK, Queue
<1>3. /\ ch' \in Seq(Message) /\ Len(ch') = Len(ch) + 1 /\ Len(ch) \in Nat
      /\ DOMAIN ch' = 1..(Len(ch) + 1) /\ DOMAIN ch = 1..Len(ch)
      /\ ch'[Len(ch) + 1] = out
      /\ \A i \in 1..Len(ch) : ch'[i] = ch[i]
  BY <1>1, <1>2, PageAppended
<1>4. PagesTypeOK'
  BY <1>0, <1>1, <1>3 DEF PagesTypeOK
<1>5. Born'
  BY <1>0, <1>1 DEF Born, InCharge
<1>6. Queue'
  <2>1. ASSUME NEW i \in DOMAIN ch' PROVE ch'[i].done <=> i = Len(ch')
    <3>1. CASE i = Len(ch) + 1
      BY <1>2, <1>3, <3>1
    <3>2. CASE i # Len(ch) + 1
      <4>1. i \in DOMAIN ch
        BY <1>3, <3>2
      <4>2. ~ch[i].done
        BY <1>0, <1>1, <4>1 DEF Queue
      <4> QED BY <1>3, <3>2, <4>1, <4>2
    <3> QED BY <3>1, <3>2
  <2>2. reader # "answered"
    BY <1>0, <1>1 DEF Queue
  <2> QED BY <1>1, <1>2, <2>1, <2>2 DEF Queue
<1>7. Undisturbed' <=> Undisturbed
  BY <1>1 DEF Undisturbed
<1>8. OverCount' = OverCount /\ Rasterized' = Rasterized
  BY <1>1 DEF OverCount, Rasterized
<1>9. Counted'
  BY <1>0, <1>1, <1>7, <1>8 DEF Counted
<1>10. Told'
  <2>1. Sent' = Sent
    <3>1. CASE ch = <<>>
      <4>1. Len(ch') < 2
        BY <1>3, <3>1
      <4> QED BY <1>1, <3>1, <4>1 DEF Sent
    <3>2. CASE ch # <<>>
      <4>1. Len(ch) >= 1
        BY <1>2, <3>2
      <4>2. ~(Len(ch') < 2) /\ Len(ch') - 1 = Len(ch) /\ Len(ch) \in 1..Len(ch)
        BY <1>3, <4>1
      <4> QED BY <1>1, <1>3, <3>2, <4>2 DEF Sent
    <3> QED BY <3>1, <3>2
  <2>2. (AllStarted' <=> AllStarted) /\ Total' = Total
    BY <1>1 DEF AllStarted, Total
  <2> QED BY <1>0, <1>1, <1>7, <2>1, <2>2 DEF Told
<1> QED BY <1>4, <1>5, <1>6, <1>9, <1>10 DEF OcrInv

-----------------------------------------------------------------------------
(* The interface. *)

LEMMA ReadSignalKeeps == OcrInv /\ Read => OcrInv'
<1> SUFFICES ASSUME OcrInv, Read PROVE OcrInv'
  OBVIOUS
<1>0. PagesTypeOK /\ Born /\ Queue /\ Counted /\ Told
  BY DEF OcrInv
<1>1. UNCHANGED <<mime, at, files, out, live, page, result, rasterDone, pageDone, cairo, tess>>
  BY DEF Read, loopVars, pageVars
<1>2. /\ reader \in {"waiting", "leaving"} /\ ch # <<>> /\ ch' = Tail(ch)
      /\ ch \in Seq(Message) /\ heard \in Message
  BY <1>0 DEF Read, PagesTypeOK
<1>3. /\ ch' \in Seq(Message) /\ Len(ch') = Len(ch) - 1 /\ Len(ch) \in Nat /\ Len(ch) >= 1
      /\ DOMAIN ch' = 1..(Len(ch) - 1) /\ DOMAIN ch = 1..Len(ch)
      /\ \A i \in 1..(Len(ch) - 1) : ch'[i] = ch[i + 1]
      /\ Head(ch) = ch[1] /\ ch[1] \in Message
  BY <1>2
<1>4. reader' \in {"waiting", "answered", "gone"} /\ (reader' = "answered" => ch[1].done)
  BY <1>2, <1>3 DEF Read
<1>5. heard' = IF ch[1].done THEN heard ELSE ch[1]
  BY <1>3 DEF Read
<1>6. ch[1].done <=> (at = "closed" /\ Len(ch) = 1)
  <2>1. 1 \in DOMAIN ch
    BY <1>3
  <2>2. ch[1].done <=> (at = "closed" /\ 1 = Len(ch))
    BY <1>0, <2>1 DEF Queue
  <2> QED BY <2>2
<1>7. PagesTypeOK'
  <2>1. heard' \in Message
    BY <1>2, <1>3, <1>5
  <2> QED BY <1>0, <1>1, <1>3, <1>4, <2>1 DEF PagesTypeOK
<1>8. Born'
  BY <1>0, <1>1 DEF Born
<1>9. Queue'
  <2>1. ASSUME NEW i \in DOMAIN ch' PROVE ch'[i].done <=> (at = "closed" /\ i = Len(ch'))
    <3>1. i + 1 \in DOMAIN ch /\ ch'[i] = ch[i + 1] /\ (i + 1 = Len(ch) <=> i = Len(ch'))
      BY <1>3
    <3> QED BY <1>0, <3>1 DEF Queue
  <2>2. reader' = "answered" => at = "closed" /\ ch' = <<>>
    <3> SUFFICES ASSUME reader' = "answered" PROVE at = "closed" /\ ch' = <<>>
      OBVIOUS
    <3>1. at = "closed" /\ Len(ch) = 1
      BY <1>4, <1>6
    <3> QED BY <1>3, <3>1
  <2> QED BY <1>0, <1>1, <2>1, <2>2 DEF Queue
<1>10. Undisturbed' <=> Undisturbed
  BY <1>1 DEF Undisturbed
<1>11. OverCount' = OverCount /\ Rasterized' = Rasterized
  BY <1>1 DEF OverCount, Rasterized
<1>12. Counted'
  BY <1>0, <1>1, <1>10, <1>11 DEF Counted
<1>13. Sent' = Sent
  <2>1. CASE at # "closed"
    <3>1. Sent = ch[Len(ch)] /\ heard' = ch[1]
      BY <1>2, <1>5, <1>6, <2>1 DEF Sent
    <3>2. CASE Len(ch) = 1
      BY <1>1, <1>3, <2>1, <3>1, <3>2 DEF Sent
    <3>3. CASE Len(ch) # 1
      <4>1. ch' # <<>> /\ ch'[Len(ch')] = ch[Len(ch)]
        BY <1>3, <3>3
      <4> QED BY <1>1, <2>1, <3>1, <4>1 DEF Sent
    <3> QED BY <3>2, <3>3
  <2>2. CASE at = "closed"
    <3>1. CASE Len(ch) = 1
      BY <1>1, <1>3, <1>5, <1>6, <2>2, <3>1 DEF Sent
    <3>2. CASE Len(ch) = 2
      BY <1>1, <1>3, <1>5, <1>6, <2>2, <3>2 DEF Sent
    <3>3. CASE Len(ch) > 2
      <4>1. Len(ch') >= 2 /\ ch'[Len(ch') - 1] = ch[Len(ch) - 1]
        BY <1>3, <3>3
      <4> QED BY <1>1, <1>3, <2>2, <3>3, <4>1 DEF Sent
    <3> QED BY <1>3, <3>1, <3>2, <3>3
  <2> QED BY <2>1, <2>2
<1>14. Told'
  <2> SUFFICES ASSUME Undisturbed PROVE Told'
    BY <1>10 DEF Told
  <2>1. at \notin {"idle", "begin", "announcing"}
    BY <1>0, <1>2 DEF Told
  <2>2. (PagesOver' <=> PagesOver) /\ (AllStarted' <=> AllStarted) /\ Total' = Total
    BY <1>1 DEF PagesOver, AllStarted, Total
  <2> QED BY <1>0, <1>1, <1>13, <2>1, <2>2 DEF Told
<1> QED BY <1>7, <1>8, <1>9, <1>12, <1>14 DEF OcrInv

LEMMA CancelOcrKeeps == OcrInv /\ CancelOcr => OcrInv'
<1> SUFFICES ASSUME OcrInv, CancelOcr PROVE OcrInv'
  OBVIOUS
<1>0. PagesTypeOK /\ Born /\ Queue
  BY DEF OcrInv
<1>1. /\ UNCHANGED <<mime, at, files, out, page, result, rasterDone, pageDone, cairo, tess, ch, heard>>
      /\ live' = FALSE /\ reader' \in {"waiting", "leaving"}
  BY DEF CancelOcr, loopVars, pageVars
<1>2. PagesTypeOK' /\ Born' /\ Queue'
  BY <1>0, <1>1 DEF PagesTypeOK, Born, Queue
<1>3. ~Undisturbed'
  BY <1>1 DEF Undisturbed
<1> QED BY <1>2, <1>3 DEF OcrInv, Counted, Told

LEMMA StandsStill == OcrInv /\ UNCHANGED pagesVars => OcrInv'
<1> SUFFICES ASSUME OcrInv, UNCHANGED pagesVars PROVE OcrInv'
  OBVIOUS
<1>1. UNCHANGED <<mime, at, files, out, live, page, result, rasterDone, pageDone, cairo, tess, ch, reader, heard>>
  BY DEF pagesVars, loopVars, pageVars
<1>2. PagesTypeOK' /\ Born' /\ Queue'
  BY <1>1 DEF OcrInv, PagesTypeOK, Born, Queue
<1>3. Counted'
  BY <1>1 DEF OcrInv, Counted, Undisturbed, OverCount, Rasterized
<1>4. Told'
  BY <1>1 DEF OcrInv, Told, Undisturbed, Sent, AllStarted, PagesOver, Total
<1> QED BY <1>2, <1>3, <1>4 DEF OcrInv

LEMMA PagesKeep == OcrInv /\ [PagesNext]_pagesVars => OcrInv'
<1> SUFFICES ASSUME OcrInv, [PagesNext]_pagesVars PROVE OcrInv'
  OBVIOUS
<1>1. CASE ExtractWithProgress
  BY <1>1, ExtractWithProgressKeeps
<1>2. CASE LoopStep
  BY <1>2, BeginKeeps, AnnounceKeeps, SelectKeeps, ForwardKeeps, CatchUpKeeps, JoinKeeps, FinishKeeps
     DEF LoopStep
<1>3. CASE RecognizeImage
  BY <1>3, RecognizeImageKeeps
<1>4. CASE Read
  BY <1>4, ReadSignalKeeps
<1>5. CASE CancelOcr
  BY <1>5, CancelOcrKeeps
<1>6. CASE \E p \in DOMAIN page : PageStep(p)
  BY <1>6, PageStepKeeps
<1>7. CASE UNCHANGED pagesVars
  BY <1>7, StandsStill
<1> QED BY <1>1, <1>2, <1>3, <1>4, <1>5, <1>6, <1>7 DEF PagesNext

-----------------------------------------------------------------------------
\* Every variable keeps its type, whatever the document and the room.
THEOREM OcrTypeCorrect == PagesSpec => []PagesTypeOK
<1>1. OcrInv => PagesTypeOK
  BY DEF OcrInv
<1> QED BY <1>1, OcrInit, PagesKeep, PTL DEF PagesSpec

\* The file of a run outlives every program that reads it, and whoever has the
\* text of a PDF last saw a frame with all its pages rasterized: however the
\* signals of the two stages overtake each other, whichever page fails, and
\* whenever a slow reader holds up the loop (ocrProgressLoop,
\* catchUpRasterProgress).
THEOREM RunsAreWhole == PagesSpec => []RunWhole
<1>1. OcrInv => RunWhole
  <2> SUFFICES ASSUME OcrInv PROVE RunWhole
    OBVIOUS
  <2>0. PagesTypeOK /\ Born /\ Queue /\ Told
    BY DEF OcrInv
  <2>1. FilesOutliveTools
    <3> SUFFICES ASSUME NEW p \in AtWork PROVE files
      BY DEF FilesOutliveTools
    <3>1. p \in DOMAIN page /\ page[p] \in {"rasterizing", "recognizing"}
      BY DEF AtWork
    <3>2. at \in {"idle", "begin", "announcing", "final", "closed"} \cup InCharge
      BY <2>0 DEF PagesTypeOK, InCharge
    <3>3. at \notin {"idle", "begin", "announcing", "final", "closed"}
      BY <2>0, <3>1 DEF Born
    <3> QED BY <2>0, <3>2, <3>3 DEF Born
  <2>2. LastFrameWhole
    <3> SUFFICES ASSUME reader = "answered", out.ok, live, mime = "pdf", AllStarted
                 PROVE  heard.cairo = Total
      BY DEF LastFrameWhole, AllStarted
    <3>1. at = "closed" /\ ch = <<>> /\ Undisturbed
      BY <2>0 DEF Queue, Undisturbed
    <3>2. Sent = heard
      BY <3>1 DEF Sent
    <3> QED BY <2>0, <3>1, <3>2 DEF Told
  <2> QED BY <2>1, <2>2 DEF RunWhole
<1> QED BY <1>1, OcrInit, PagesKeep, PTL DEF PagesSpec
=============================================================================
