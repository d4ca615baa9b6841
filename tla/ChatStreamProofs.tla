-------------------------- MODULE ChatStreamProofs --------------------------
(***************************************************************************)
(* Proofs about ChatStream, for any number of questions, tokens and pulls: *)
(* what the chat starts stays its own. Then proofs about SearchIndex, whose*)
(* answers the chat adds to its prompt; the two share no variable.         *)
(*                                                                         *)
(* ChatInv is inductive. Until something is interrupted, one thing at most *)
(* is under way for the question asked last (a command, a read or a chunk),*)
(* and the chat could cancel it (Calm). Afterwards whatever is under way   *)
(* is for the interrupted question or a later one (Stirred), because an    *)
(* interruption leaves the chat no channel of an earlier one.              *)
(***************************************************************************)
EXTENDS ChatStream, SearchIndex, SequenceTheorems, FiniteSetTheorems, WellFoundedInduction, TLAPS

Message == [role : Notices \cup {"user", "assistant", "error"}, of : Nat,
            sql : SUBSET Nat, text : SUBSET Nat]
Stream  == [of : Nat, stage : {"sql", "answer"}, left : Nat, open : BOOLEAN,
            ctx : {"live", "cancelled", "expired"}]
Chunk   == [s : Nat, kind : {"text", "done", "error"}, n : Nat]
Command == [cmd : {"start", "query", "check", "pull"}, of : Nat, s : Nat]
Chat    == [visible : BOOLEAN, streaming : BOOLEAN, sqlCh : Nat, ch : Nat,
            cancel : Nat, current : Nat]
Names   == Models \cup {ExtractionModel, "first"}
Pull    == [model : Names, left : Nat, open : BOOLEAN]

ChatOK ==
    /\ chat \in Chat
    /\ chat.cancel \in 0..Len(streams)
    /\ chat.sqlCh # None => chat.sqlCh \in DOMAIN streams /\ streams[chat.sqlCh].stage = "sql"
    /\ chat.ch # None => chat.ch \in DOMAIN streams /\ streams[chat.ch].stage = "answer"

StreamsOK ==
    /\ streams \in Seq(Stream)
    /\ waits \in Seq(Nat) /\ Len(waits) = Len(streams)
    /\ inbox \subseteq Chunk
    /\ \A c \in inbox : c.s \in DOMAIN streams

PullsOK ==
    /\ pull \in [active : BOOLEAN, fromChat : BOOLEAN, cancel : Nat]
    /\ pulls \in Seq(Pull)
    /\ pull.cancel \in 0..Len(pulls)
    /\ \A c \in Pulling : c.of \in DOMAIN pulls
    /\ model \in Names /\ chosen \subseteq Names

TypeOK ==
    /\ ChatOK /\ StreamsOK /\ PullsOK
    /\ messages \in Seq(Message)
    /\ running \subseteq Command
    /\ asked \in Nat /\ interrupted \subseteq 0..asked

\* The commands of a question
Steps == {c \in running : c.cmd \in {"start", "query"}}

\* The last answer is the one to question q.
AnswersLast(ms, q) ==
    \A i \in DOMAIN ms :
        ms[i].role = "assistant" /\ (\A j \in DOMAIN ms : j > i => ms[j].role # "assistant")
        => ms[i].of = q

\* Stream s is the one the chat reads now, and would cancel.
Current(s) ==
    /\ chat.streaming /\ chat.cancel = s
    /\ streams[s].of = asked /\ chat.current = asked
    /\ streams[s].stage = "sql" => chat.sqlCh = s
    /\ streams[s].stage = "answer" => chat.ch = s

Calm ==
    interrupted = {} =>
        /\ chat.streaming => AnswersLast(messages, asked)
        /\ \A s \in DOMAIN waits : waits[s] > 0 =>
              waits[s] = 1 /\ Current(s) /\ inbox = {} /\ Steps = {}
                /\ \A t \in DOMAIN waits : waits[t] > 0 => t = s
        /\ \A c \in inbox : Current(c.s) /\ Steps = {} /\ inbox = {c}
        /\ \A c \in Steps :
              /\ chat.streaming /\ c.of = asked /\ Steps = {c}
              /\ c.cmd = "query" => chat.current = asked

\* Stream s is for the interrupted question or a later one.
Late(s) ==
    Disturbed(streams[s].of) /\ (streams[s].stage = "sql" => Disturbed(chat.current))

Stirred ==
    interrupted # {} =>
        /\ \A s \in DOMAIN waits : waits[s] > 0 => Late(s)
        /\ \A c \in inbox : Late(c.s)
        /\ \A c \in Steps : Disturbed(c.of)
        /\ chat.sqlCh # None => Late(chat.sqlCh)
        /\ chat.ch # None => Late(chat.ch)

\* A switch under way may make any model that is being checked the chat's.
Named == pull.fromChat => \A c \in Pulling : pulls[c.of].model \in chosen

ChatInv == TypeOK /\ Calm /\ Stirred /\ Named /\ OwnTokens /\ ModelChosen

-----------------------------------------------------------------------------
(* Conversations. *)

\* Every message of new is one of old, or shows no token.
From(old, new) ==
    \A j \in DOMAIN new :
        \/ \E i \in DOMAIN old : new[j] = old[i]
        \/ new[j].sql = {} /\ new[j].text = {}

Own(ms) ==
    \A i \in DOMAIN ms : \A q \in ms[i].sql \cup ms[i].text :
        q = ms[i].of \/ Disturbed(q) \/ Disturbed(ms[i].of)

LEMMA HighestIndex ==
    ASSUME NEW n \in Nat, NEW I \in SUBSET (1..n), I # {}
    PROVE  Max(I) \in I
<1> DEFINE Later == [f \in I |-> {h \in I : h > f}]
           T == {Later[g] : g \in I}
           R == StrictSubsetOrdering(I)
<1>1. IsFiniteSet(I)
  <2>1. IsFiniteSet(1..n)
    BY FS_Interval
  <2> QED BY <2>1, FS_Subset
<1>2. IsWellFoundedOn(R, SUBSET I)
  BY <1>1, FS_StrictSubsetOrderingWellFounded, FS_FiniteSubsetsOfFinite
<1>3. \A u, w \in SUBSET I : u \subseteq w /\ u # w => <<u, w>> \in R
  BY DEF StrictSubsetOrdering
<1>4. \A g \in I : Later[g] \in SUBSET I /\ \A h \in I : (h \in Later[g]) <=> (h > g)
  OBVIOUS
<1>0. \A g \in I : g \in Nat
  OBVIOUS
<1> HIDE DEF R, Later
<1>9. T \subseteq SUBSET I /\ T # {}
  BY <1>4
<1>5. PICK w \in T : \A u \in T : ~(<<u, w>> \in R)
  BY <1>2, <1>9, WFMin
<1>6. PICK i \in I : w = Later[i]
  BY <1>5
<1>7. ASSUME NEW j \in I, j > i PROVE FALSE
  <2>1. Later[j] \subseteq Later[i] /\ j \in Later[i] /\ j \notin Later[j]
    <3>4. j \in Nat /\ i \in Nat
      BY <1>0
    <3>1. j \in Later[i] /\ j \notin Later[j]
      BY <1>4, <1>7, <3>4
    <3>2. \A h \in I : h \in Later[j] => h \in Later[i]
      BY <1>4, <1>7, <3>4
    <3>3. Later[j] \in SUBSET I
      BY <1>4
    <3> QED BY <3>1, <3>2, <3>3
  <2>2. Later[j] \in T
    OBVIOUS
  <2>3. Later[j] \in SUBSET I /\ Later[i] \in SUBSET I /\ Later[j] # Later[i]
    BY <1>4, <2>1
  <2>4. <<Later[j], Later[i]>> \in R
    BY <1>3, <2>1, <2>3
  <2> QED BY <1>5, <1>6, <2>2, <2>4
<1>8. \A j \in I : i >= j
  BY <1>7
<1> QED BY <1>8 DEF Max

LEMMA Removed ==
    ASSUME NEW S, NEW s \in Seq(S), NEW k \in 1..Len(s)
    PROVE  /\ RemoveAt(s, k) \in Seq(S) /\ Len(RemoveAt(s, k)) = Len(s) - 1
           /\ \A j \in 1..(Len(s) - 1) :
                 RemoveAt(s, k)[j] = IF j < k THEN s[j] ELSE s[j + 1]
<1> DEFINE a == SubSeq(s, 1, k - 1)
           b == SubSeq(s, k + 1, Len(s))
<1>1. Len(s) \in Nat
  OBVIOUS
<1>2. a \in Seq(S) /\ Len(a) = k - 1 /\ \A j \in 1..(k - 1) : a[j] = s[j]
  BY <1>1, SubSeqProperties
<1>3. b \in Seq(S) /\ Len(b) = Len(s) - k /\ \A j \in 1..(Len(s) - k) : b[j] = s[j + k]
  <2>1. \A i \in (k + 1)..Len(s) : s[i] \in S
    BY <1>1
  <2>2. /\ b \in Seq(S)
        /\ Len(b) = IF k + 1 <= Len(s) THEN Len(s) - (k + 1) + 1 ELSE 0
        /\ \A i \in 1..(Len(s) - (k + 1) + 1) : b[i] = s[(k + 1) + i - 1]
    <3>1. k + 1 \in Int /\ Len(s) \in Int
      BY <1>1
    <3> QED BY <2>1, <3>1, SubSeqProperties
  <2> HIDE DEF b
  <2> QED BY <1>1, <2>2
<1> HIDE DEF a, b
<1>4. /\ a \o b \in Seq(S) /\ Len(a \o b) = Len(a) + Len(b)
      /\ \A j \in 1..(Len(a) + Len(b)) :
            (a \o b)[j] = IF j <= Len(a) THEN a[j] ELSE b[j - Len(a)]
  BY <1>2, <1>3, ConcatProperties
<1>5. \A j \in 1..(Len(s) - 1) : (a \o b)[j] = IF j < k THEN s[j] ELSE s[j + 1]
  BY <1>1, <1>2, <1>3, <1>4
<1>6. Len(a \o b) = Len(s) - 1
  BY <1>1, <1>2, <1>3, <1>4
<1> QED BY <1>4, <1>5, <1>6 DEF RemoveAt, a, b

\* What a notice leaves when it goes
LEMMA NoticeGone ==
    ASSUME NEW ms \in Seq(Message)
    PROVE  /\ WithoutLastNotice(ms) \in Seq(Message)
           /\ From(ms, WithoutLastNotice(ms))
           /\ \A q : AnswersLast(ms, q) => AnswersLast(WithoutLastNotice(ms), q)
<1> DEFINE I == {i \in 1..Len(ms) : IsNotice(ms[i])}
           k == SelectLastInSeq(ms, IsNotice)
           new == RemoveAt(ms, k)
<1>1. Len(ms) \in Nat /\ DOMAIN ms = 1..Len(ms)
  OBVIOUS
<1>2. CASE I = {}
  <2>1. k = 0
    BY <1>2 DEF SelectLastInSeq
  <2>2. WithoutLastNotice(ms) = ms
    BY <2>1 DEF WithoutLastNotice
  <2> QED BY <2>2 DEF From
<1>3. CASE I # {}
  <2>1. k = Max(I)
    BY <1>3 DEF SelectLastInSeq
  <2>2. k \in 1..Len(ms) /\ IsNotice(ms[k])
    BY <1>1, <1>3, <2>1, HighestIndex
  <2>3. WithoutLastNotice(ms) = new
    BY <2>2 DEF WithoutLastNotice
  <2> HIDE DEF k
  <2>4. new \in Seq(Message) /\ Len(new) = Len(ms) - 1
        /\ \A j \in 1..(Len(ms) - 1) : new[j] = IF j < k THEN ms[j] ELSE ms[j + 1]
    BY <1>1, <2>2, Removed
  <2>5. DOMAIN new = 1..(Len(ms) - 1)
    BY <2>4
  <2> HIDE DEF new
  <2>6. From(ms, new)
    BY <1>1, <2>4, <2>5 DEF From
  <2>7. ASSUME NEW q, AnswersLast(ms, q) PROVE AnswersLast(new, q)
    <3> SUFFICES ASSUME NEW i \in DOMAIN new, new[i].role = "assistant",
                        \A j \in DOMAIN new : j > i => new[j].role # "assistant"
                 PROVE  new[i].of = q
      BY DEF AnswersLast
    <3> DEFINE at == IF i < k THEN i ELSE i + 1
    <3>1. at \in DOMAIN ms /\ new[i] = ms[at]
      BY <1>1, <2>4, <2>5
    <3>2. ASSUME NEW j \in DOMAIN ms, j > at PROVE ms[j].role # "assistant"
      <4>1. CASE j = k
        BY <2>2, <4>1 DEF IsNotice, Notices
      <4>2. CASE j < k
        BY <1>1, <2>2, <2>4, <2>5, <3>2, <4>2
      <4>3. CASE j > k
        <5>1. j - 1 \in DOMAIN new /\ j - 1 > i /\ new[j - 1] = ms[j]
          BY <1>1, <2>2, <2>4, <2>5, <3>2, <4>3
        <5> QED BY <5>1
      <4> QED BY <1>1, <2>2, <4>1, <4>2, <4>3
    <3> QED BY <3>1, <3>2, <2>7 DEF AnswersLast
  <2> QED BY <2>3, <2>4, <2>6, <2>7
<1> QED BY <1>2, <1>3

LEMMA Shortened ==
    ASSUME NEW S, NEW s \in Seq(S), s # <<>>
    PROVE  /\ Front(s) \in Seq(S) /\ Len(Front(s)) = Len(s) - 1
           /\ \A j \in 1..(Len(s) - 1) : Front(s)[j] = s[j]
<1> DEFINE f == SubSeq(s, 1, Len(s) - 1)
<1>1. Len(s) \in Nat /\ Len(s) > 0 /\ \A i \in 1..(Len(s) - 1) : s[i] \in S
  OBVIOUS
<1>2. 1 \in Int /\ Len(s) - 1 \in Int
  BY <1>1
<1>3. /\ f \in Seq(S)
      /\ Len(f) = IF 1 <= Len(s) - 1 THEN (Len(s) - 1) - 1 + 1 ELSE 0
      /\ \A i \in 1..((Len(s) - 1) - 1 + 1) : f[i] = s[1 + i - 1]
  BY <1>1, <1>2, SubSeqProperties
<1>4. Front(s) = f
  BY DEF Front
<1> HIDE DEF f
<1> QED BY <1>1, <1>3, <1>4

LEMMA Trims ==
    ASSUME NEW ms \in Seq(Message), NEW role
    PROVE  Trimmed(ms, role) \in Seq(Message) /\ From(ms, Trimmed(ms, role))
<1>1. CASE EndsIn(ms, role)
  <2>1. Trimmed(ms, role) = Front(ms) /\ ms # <<>>
    BY <1>1 DEF Trimmed, EndsIn
  <2>2. /\ Front(ms) \in Seq(Message) /\ Len(Front(ms)) = Len(ms) - 1
        /\ \A j \in 1..(Len(ms) - 1) : Front(ms)[j] = ms[j]
    BY <2>1, Shortened
  <2>3. Len(ms) \in Nat
    OBVIOUS
  <2> QED BY <2>1, <2>2, <2>3 DEF From
<1>2. CASE ~EndsIn(ms, role)
  <2>1. Trimmed(ms, role) = ms
    BY <1>2 DEF Trimmed
  <2> QED BY <2>1 DEF From
<1> QED BY <1>1, <1>2

LEMMA Says1 ==
    ASSUME NEW role, NEW q
    PROVE  /\ Says(role, q).role = role /\ Says(role, q).of = q
           /\ Says(role, q).sql = {} /\ Says(role, q).text = {}
           /\ role \in Notices \cup {"user", "assistant", "error"} /\ q \in Nat
              => Says(role, q) \in Message
BY DEF Says, Message

\* A message appended: a notice, an error, or an answer to come
LEMMA Appended ==
    ASSUME NEW ms \in Seq(Message), NEW m \in Message, m.sql = {}, m.text = {}
    PROVE  /\ Append(ms, m) \in Seq(Message) /\ From(ms, Append(ms, m))
           /\ \A q : AnswersLast(ms, q) /\ m.role # "assistant" => AnswersLast(Append(ms, m), q)
           /\ m.role = "assistant" => AnswersLast(Append(ms, m), m.of)
<1> DEFINE new == Append(ms, m)
           n == Len(ms)
<1>1. /\ new \in Seq(Message) /\ n \in Nat /\ DOMAIN ms = 1..n /\ DOMAIN new = 1..(n + 1)
      /\ new[n + 1] = m /\ \A j \in 1..n : new[j] = ms[j]
  OBVIOUS
<1> HIDE DEF new, n
<1>2. From(ms, new)
  BY <1>1 DEF From
<1>3. ASSUME NEW q, AnswersLast(ms, q), m.role # "assistant" PROVE AnswersLast(new, q)
  BY <1>1, <1>3 DEF AnswersLast
<1>4. ASSUME m.role = "assistant" PROVE AnswersLast(new, m.of)
  BY <1>1, <1>4 DEF AnswersLast
<1> QED BY <1>1, <1>2, <1>3, <1>4 DEF new

LEMMA FromFrom ==
    ASSUME NEW a \in Seq(Message), NEW b \in Seq(Message), NEW c \in Seq(Message),
           From(a, b), From(b, c)
    PROVE  From(a, c)
BY DEF From

\* A token enters the last message if that is an answer.
LEMMA Tokened ==
    ASSUME NEW ms \in Seq(Message), NEW field \in {"sql", "text"}, NEW q \in Nat
    PROVE  /\ WithToken(ms, field, q) \in Seq(Message)
           /\ \A p : AnswersLast(ms, p) => AnswersLast(WithToken(ms, field, q), p)
           /\ Own(ms) /\ (AnswersLast(ms, q) \/ Disturbed(q)) => Own(WithToken(ms, field, q))
<1> DEFINE n == Len(ms)
           new == WithToken(ms, field, q)
<1>1. CASE ~EndsIn(ms, "assistant")
  BY <1>1 DEF WithToken
<1>2. CASE EndsIn(ms, "assistant")
  <2>1. new = [ms EXCEPT ![n][field] = @ \cup {q}] /\ n \in Nat /\ ms # <<>>
        /\ DOMAIN ms = 1..n /\ ms[n].role = "assistant"
    BY <1>2 DEF WithToken, EndsIn, Last
  <2>2. n \in 1..n /\ ms[n] \in Message
    BY <2>1
  <2>3. /\ new[n] \in Message /\ new[n].role = ms[n].role /\ new[n].of = ms[n].of
        /\ new[n].sql \subseteq ms[n].sql \cup {q} /\ new[n].text \subseteq ms[n].text \cup {q}
    BY <2>1, <2>2 DEF Message
  <2>4. /\ new \in Seq(Message) /\ DOMAIN new = 1..n
        /\ \A j \in 1..n : j # n => new[j] = ms[j]
    <3>1. new = [ms EXCEPT ![n] = new[n]]
      BY <2>1, <2>2
    <3> HIDE DEF new
    <3>2. new \in Seq(Message) /\ Len(new) = n
      BY <2>2, <2>3, <3>1, ExceptSeq
    <3> QED BY <2>1, <3>1, <3>2
  <2> HIDE DEF new, n
  <2>5. \A j \in 1..n : new[j].role = ms[j].role /\ new[j].of = ms[j].of
    BY <2>3, <2>4
  <2>6. \A p : AnswersLast(ms, p) => AnswersLast(new, p)
    BY <2>1, <2>4, <2>5 DEF AnswersLast
  <2>7. ASSUME Own(ms), AnswersLast(ms, q) \/ Disturbed(q) PROVE Own(new)
    <3>1. q = ms[n].of \/ Disturbed(q)
      BY <2>1, <2>2, <2>7 DEF AnswersLast
    <3>2. ASSUME NEW i \in 1..n, NEW p \in new[i].sql \cup new[i].text
          PROVE  p = new[i].of \/ Disturbed(p) \/ Disturbed(new[i].of)
      <4>1. CASE i = n
        BY <2>1, <2>3, <2>7, <3>1, <3>2, <4>1 DEF Own
      <4>2. CASE i # n
        BY <2>1, <2>4, <2>7, <3>2, <4>2 DEF Own
      <4> QED BY <4>1, <4>2
    <3> QED BY <2>4, <3>2 DEF Own
  <2> QED BY <2>4, <2>6, <2>7 DEF new
<1> QED BY <1>1, <1>2

LEMMA Fails ==
    ASSUME NEW ms \in Seq(Message)
    PROVE  Failed(ms) \in Seq(Message) /\ From(ms, Failed(ms))
<1> DEFINE a == WithoutLastNotice(ms)
           b == Trimmed(a, "assistant")
           m == Says("error", 0)
<1>1. a \in Seq(Message) /\ From(ms, a)
  BY NoticeGone
<1>2. b \in Seq(Message) /\ From(a, b)
  BY <1>1, Trims
<1>3. m \in Message /\ m.sql = {} /\ m.text = {}
  BY Says1
<1> HIDE DEF a, b, m
<1>4. Append(b, m) \in Seq(Message) /\ From(b, Append(b, m))
  BY <1>2, <1>3, Appended
<1>5. From(ms, Append(b, m))
  BY <1>1, <1>2, <1>4, FromFrom
<1> QED BY <1>4, <1>5 DEF Failed, a, b, m

LEMMA Stops ==
    ASSUME NEW ms \in Seq(Message)
    PROVE  Interrupts(ms) \in Seq(Message) /\ From(ms, Interrupts(ms))
<1> DEFINE a == WithoutLastNotice(ms)
           b == Trimmed(a, "assistant")
           m == Says("interrupted", 0)
<1>1. a \in Seq(Message) /\ From(ms, a)
  BY NoticeGone
<1>2. b \in Seq(Message) /\ From(a, b)
  BY <1>1, Trims
<1>3. m \in Message /\ m.sql = {} /\ m.text = {}
  BY Says1 DEF Notices
<1> HIDE DEF a, b, m
<1>4. Append(b, m) \in Seq(Message) /\ From(b, Append(b, m))
  BY <1>2, <1>3, Appended
<1>5. From(ms, Append(b, m))
  BY <1>1, <1>2, <1>4, FromFrom
<1> QED BY <1>4, <1>5 DEF Interrupts, a, b, m

LEMMA FromSelf ==
    ASSUME NEW ms
    PROVE  From(ms, ms)
BY DEF From

\* Tokens that are the message's own stay so wherever it moves.
LEMMA OwnStays ==
    ASSUME OwnTokens, From(messages, messages'), interrupted \subseteq interrupted'
    PROVE  OwnTokens'
<1>1. \A q : Disturbed(q) => Disturbed(q)'
  BY DEF Disturbed
<1> QED BY <1>1 DEF OwnTokens, From

-----------------------------------------------------------------------------
(* Streams. *)

\* The streams of b are those of a, in another condition.
SameStreams(a, b) ==
    /\ b \in Seq(Stream) /\ Len(b) = Len(a)
    /\ \A s \in DOMAIN a : b[s].of = a[s].of /\ b[s].stage = a[s].stage

LEMMA Cancelling ==
    ASSUME NEW ss \in Seq(Stream), NEW s \in 0..Len(ss)
    PROVE  SameStreams(ss, Cancels(ss, s))
<1>1. CASE s # None /\ ss[s].open
  <2> DEFINE st == [ss[s] EXCEPT !.ctx = "cancelled"]
  <2>1. Len(ss) \in Nat /\ s \in 1..Len(ss) /\ ss[s] \in Stream /\ DOMAIN ss = 1..Len(ss)
    BY <1>1 DEF None
  <2>2. st \in Stream /\ st.of = ss[s].of /\ st.stage = ss[s].stage
    BY <2>1 DEF Stream
  <2>3. Cancels(ss, s) = [ss EXCEPT ![s] = st]
    BY <1>1, <2>1 DEF Cancels
  <2> HIDE DEF st
  <2>4. /\ [ss EXCEPT ![s] = st] \in Seq(Stream)
        /\ Len([ss EXCEPT ![s] = st]) = Len(ss)
        /\ \A j \in 1..Len(ss) : [ss EXCEPT ![s] = st][j] = IF j = s THEN st ELSE ss[j]
    BY <2>1, <2>2, ExceptSeq
  <2> QED BY <2>1, <2>2, <2>3, <2>4 DEF SameStreams
<1>2. CASE ~(s # None /\ ss[s].open)
  <2>1. Cancels(ss, s) = ss
    BY <1>2 DEF Cancels
  <2> QED BY <2>1 DEF SameStreams
<1> QED BY <1>1, <1>2

LEMMA Opening ==
    ASSUME NEW ss \in Seq(Stream), NEW q \in Nat, NEW stage \in {"sql", "answer"}
    PROVE  LET new == Append(ss, [of |-> q, stage |-> stage, left |-> MaxTokens,
                                  open |-> TRUE, ctx |-> "live"])
           IN  /\ new \in Seq(Stream) /\ Len(new) = Len(ss) + 1
               /\ DOMAIN new = 1..(Len(ss) + 1)
               /\ \A s \in 1..Len(ss) : new[s] = ss[s]
               /\ new[Len(ss) + 1].of = q /\ new[Len(ss) + 1].stage = stage
<1> DEFINE st == [of |-> q, stage |-> stage, left |-> MaxTokens, open |-> TRUE, ctx |-> "live"]
<1>1. st \in Stream /\ st.of = q /\ st.stage = stage
  BY ChatAssumption DEF Stream
<1> HIDE DEF st
<1>2. /\ Append(ss, st) \in Seq(Stream) /\ Len(Append(ss, st)) = Len(ss) + 1
      /\ DOMAIN Append(ss, st) = 1..(Len(ss) + 1)
      /\ \A s \in 1..Len(ss) : Append(ss, st)[s] = ss[s]
      /\ Append(ss, st)[Len(ss) + 1] = st
  BY <1>1
<1> QED BY <1>1, <1>2 DEF st

-----------------------------------------------------------------------------
(* The steps. *)

LEMMA ChatInit == Init => ChatInv
<1> SUFFICES ASSUME Init PROVE ChatInv
  OBVIOUS
<1>1. TypeOK
  BY DEF Init, TypeOK, ChatOK, StreamsOK, PullsOK, Chat, Pulling, NoPull, None, Names
<1>2. Steps = {} /\ Pulling = {}
  BY DEF Init, Steps, Pulling
<1>3. Calm /\ Stirred
  BY <1>2 DEF Init, Calm, Stirred
<1>4. Named /\ OwnTokens /\ ModelChosen
  BY <1>2 DEF Init, Named, OwnTokens, ModelChosen
<1> QED BY <1>1, <1>3, <1>4 DEF ChatInv

\* What changes neither streams nor questions leaves all that is under way.
LEMMA BesideKeeps ==
    ASSUME ChatInv, UNCHANGED <<streams, waits, inbox, asked, interrupted>>,
           chat' \in Chat,
           chat'.streaming = chat.streaming /\ chat'.sqlCh = chat.sqlCh /\ chat'.ch = chat.ch,
           chat'.cancel = chat.cancel /\ chat'.current = chat.current,
           Steps' = Steps,
           messages' \in Seq(Message), From(messages, messages'),
           AnswersLast(messages, asked) => AnswersLast(messages', asked)
    PROVE  /\ ChatOK' /\ StreamsOK' /\ messages' \in Seq(Message)
           /\ asked' \in Nat /\ (interrupted \subseteq 0..asked)'
           /\ Calm' /\ Stirred' /\ OwnTokens'
<1>1. ChatOK' /\ StreamsOK' /\ messages' \in Seq(Message)
      /\ asked' \in Nat /\ (interrupted \subseteq 0..asked)'
  BY DEF ChatInv, TypeOK, ChatOK, StreamsOK
<1>2. \A q : Disturbed(q)' <=> Disturbed(q)
  BY DEF Disturbed
<1>3. \A s : (Current(s)' <=> Current(s)) /\ (Late(s)' <=> Late(s))
  BY <1>2 DEF Current, Late
<1>4. Calm'
  BY <1>3 DEF ChatInv, Calm
<1>5. Stirred'
  BY <1>2, <1>3 DEF ChatInv, Stirred
<1>6. OwnTokens'
  BY OwnStays DEF ChatInv
<1> QED BY <1>1, <1>4, <1>5, <1>6

\* What a pull has to do with is kept when nothing of it changes.
LEMMA PullsKept ==
    ASSUME PullsOK, Named, ModelChosen, UNCHANGED fetch, Pulling' = Pulling
    PROVE  PullsOK' /\ Named' /\ ModelChosen'
BY DEF PullsOK, Named, ModelChosen, fetch

\* Streams in another condition are still those of their questions.
LEMMA SameQuestions ==
    ASSUME TypeOK, SameStreams(streams, streams'), UNCHANGED <<asked, interrupted>>,
           chat'.streaming = chat.streaming /\ chat'.sqlCh = chat.sqlCh /\ chat'.ch = chat.ch,
           chat'.cancel = chat.cancel /\ chat'.current = chat.current
    PROVE  \A s \in DOMAIN streams : (Current(s)' <=> Current(s)) /\ (Late(s)' <=> Late(s))
<1>1. \A q : Disturbed(q)' <=> Disturbed(q)
  BY DEF Disturbed
<1> QED BY <1>1 DEF SameStreams, Current, Late

LEMMA ChatKept ==
    ASSUME ChatOK, StreamsOK, SameStreams(streams, streams'), UNCHANGED chat
    PROVE  ChatOK'
<1>1. /\ streams \in Seq(Stream) /\ streams' \in Seq(Stream) /\ Len(streams') = Len(streams)
      /\ \A s \in DOMAIN streams : streams'[s].stage = streams[s].stage
  BY DEF StreamsOK, SameStreams
<1>2. DOMAIN streams' = DOMAIN streams
  BY <1>1
<1> QED BY <1>1, <1>2 DEF ChatOK

LEMMA OpenChatKeeps ==
    ASSUME ChatInv, OpenChat
    PROVE  ChatInv'
<1>1. chat' \in Chat /\ chat'.streaming = chat.streaming /\ chat'.sqlCh = chat.sqlCh
      /\ chat'.ch = chat.ch /\ chat'.cancel = chat.cancel /\ chat'.current = chat.current
  BY DEF OpenChat, ChatInv, TypeOK, ChatOK, Chat
<1>2. Steps' = Steps /\ Pulling' = Pulling /\ (running \subseteq Command)'
  BY DEF OpenChat, Steps, Pulling, ChatInv, TypeOK
<1>3. messages' = messages /\ messages' \in Seq(Message)
  BY DEF OpenChat, ChatInv, TypeOK
<1>4. ChatOK' /\ StreamsOK' /\ messages' \in Seq(Message) /\ asked' \in Nat
      /\ (interrupted \subseteq 0..asked)' /\ Calm' /\ Stirred' /\ OwnTokens'
  BY <1>1, <1>2, <1>3, FromSelf, BesideKeeps DEF OpenChat
<1>5. PullsOK' /\ Named' /\ ModelChosen'
  BY <1>2, PullsKept DEF OpenChat, ChatInv, TypeOK
<1> QED BY <1>2, <1>4, <1>5 DEF ChatInv, TypeOK

-----------------------------------------------------------------------------
(* Pulling a model. *)

\* What a handler says of a pull is a notice or an error, or nothing.
LEMMA Remark ==
    ASSUME TypeOK, NEW role \in {"error", "notice"},
           messages' = Append(messages, Says(role, 0)) \/ messages' = messages
    PROVE  /\ messages' \in Seq(Message) /\ From(messages, messages')
           /\ AnswersLast(messages, asked) => AnswersLast(messages', asked)
<1>1. CASE messages' = messages
  BY <1>1, FromSelf DEF TypeOK
<1>2. CASE messages' = Append(messages, Says(role, 0))
  <2> DEFINE m == Says(role, 0)
  <2>1. m \in Message /\ m.sql = {} /\ m.text = {} /\ m.role # "assistant"
    BY Says1 DEF Notices
  <2> HIDE DEF m
  <2>2. messages \in Seq(Message)
    BY DEF TypeOK
  <2>3. Append(messages, m) \in Seq(Message) /\ From(messages, Append(messages, m))
        /\ (AnswersLast(messages, asked) => AnswersLast(Append(messages, m), asked))
    BY <2>1, <2>2, Appended
  <2> QED BY <1>2, <2>3 DEF m
<1> QED BY <1>1, <1>2

\* A step of a pull touches neither streams nor questions.
LEMMA PullingKeeps ==
    ASSUME ChatInv, UNCHANGED <<chat, streams, waits, inbox, asked, interrupted>>,
           Steps' = Steps, (running \subseteq Command)',
           PullsOK', Named', ModelChosen',
           NEW role \in {"error", "notice"},
           messages' = Append(messages, Says(role, 0)) \/ messages' = messages
    PROVE  ChatInv'
<1>1. chat' \in Chat /\ TypeOK
  BY DEF ChatInv, TypeOK, ChatOK
<1>2. messages' \in Seq(Message) /\ From(messages, messages')
      /\ (AnswersLast(messages, asked) => AnswersLast(messages', asked))
  BY <1>1, Remark
<1>3. ChatOK' /\ StreamsOK' /\ asked' \in Nat /\ (interrupted \subseteq 0..asked)'
      /\ Calm' /\ Stirred' /\ OwnTokens'
  BY <1>1, <1>2, BesideKeeps
<1> QED BY <1>2, <1>3 DEF ChatInv, TypeOK

LEMMA PulledModel ==
    ASSUME PullsOK
    PROVE  \A d \in Pulling : /\ d.of \in DOMAIN pulls /\ pulls[d.of] \in Pull
                              /\ pulls[d.of].model \in Names
<1>1. \A d \in Pulling : d.of \in DOMAIN pulls /\ pulls[d.of] \in Pull
  BY DEF PullsOK
<1>2. \A p \in Pull : p.model \in Names
  BY DEF Pull
<1> QED BY <1>1, <1>2

LEMMA Closed ==
    ASSUME NEW ps \in Seq(Pull), NEW i \in 1..Len(ps)
    PROVE  LET new == [ps EXCEPT ![i].open = FALSE]
           IN  /\ new \in Seq(Pull) /\ Len(new) = Len(ps) /\ DOMAIN new = DOMAIN ps
               /\ \A j \in DOMAIN ps : new[j].model = ps[j].model
<1> DEFINE p   == [ps[i] EXCEPT !.open = FALSE]
           new == [ps EXCEPT ![i].open = FALSE]
<1>1. ps[i] \in Pull /\ DOMAIN ps = 1..Len(ps)
  OBVIOUS
<1>2. p \in Pull /\ p.model = ps[i].model
  BY <1>1 DEF Pull
<1>3. new = [ps EXCEPT ![i] = p]
  OBVIOUS
<1> HIDE DEF p, new
<1>4. /\ [ps EXCEPT ![i] = p] \in Seq(Pull) /\ Len([ps EXCEPT ![i] = p]) = Len(ps)
      /\ \A j \in 1..Len(ps) : [ps EXCEPT ![i] = p][j] = IF j = i THEN p ELSE ps[j]
  BY <1>2, ExceptSeq
<1> QED BY <1>1, <1>2, <1>3, <1>4 DEF new

LEMMA GoesOn ==
    ASSUME PullsOK, NEW i \in DOMAIN pulls, PullGoesOn(i)
    PROVE  /\ pull' \in [active : BOOLEAN, fromChat : BOOLEAN, cancel : Nat]
           /\ pull'.cancel = i /\ pull'.fromChat = pull.fromChat
           /\ UNCHANGED <<model, messages>>
<1>1. i \in Nat
  BY DEF PullsOK
<1>2. pull \in [active : BOOLEAN, fromChat : BOOLEAN, cancel : Nat]
  BY DEF PullsOK
<1>3. pull' = [pull EXCEPT !.active = TRUE, !.cancel = i] /\ UNCHANGED <<model, messages>>
  BY DEF PullGoesOn
<1> QED BY <1>1, <1>2, <1>3

\* A pull begins: its number is new.
LEMMA Begun ==
    ASSUME TypeOK, NEW p \in Pull
    PROVE  LET new == Append(pulls, p)
               c   == [cmd |-> "check", of |-> Len(pulls) + 1, s |-> None]
           IN  /\ new \in Seq(Pull) /\ Len(new) = Len(pulls) + 1
               /\ DOMAIN pulls = 1..Len(pulls) /\ DOMAIN new = 1..(Len(pulls) + 1)
               /\ \A i \in DOMAIN pulls : new[i] = pulls[i]
               /\ new[Len(pulls) + 1] = p
               /\ c \in Command /\ c.cmd = "check" /\ c.of = Len(pulls) + 1
<1>1. pulls \in Seq(Pull)
  BY DEF TypeOK, PullsOK
<1> QED BY <1>1 DEF Command, None

LEMMA SwitchKeeps ==
    ASSUME ChatInv, NEW name \in Models, SwitchModel(name)
    PROVE  ChatInv'
<1> DEFINE p   == [model |-> name, left |-> MaxTokens, open |-> ~pull.active]
           c   == [cmd |-> "check", of |-> Len(pulls) + 1, s |-> None]
<1>0. TypeOK /\ PullsOK /\ ModelChosen
  BY DEF ChatInv, TypeOK
<1>1. p \in Pull /\ p.model = name
  BY <1>0, ChatAssumption DEF PullsOK, Pull, Names
<1>2. pulls' = Append(pulls, p) /\ UNCHANGED <<chat, streams, waits, inbox, model, asked, interrupted>>
  BY DEF SwitchModel
<1>3. /\ pulls' \in Seq(Pull) /\ Len(pulls') = Len(pulls) + 1 /\ Len(pulls) \in Nat
      /\ DOMAIN pulls = 1..Len(pulls) /\ DOMAIN pulls' = 1..(Len(pulls) + 1)
      /\ \A i \in DOMAIN pulls : pulls'[i] = pulls[i]
      /\ pulls'[Len(pulls) + 1] = p
      /\ c \in Command /\ c.cmd = "check" /\ c.of = Len(pulls) + 1
  <2>1. Len(pulls) \in Nat
    BY <1>0 DEF PullsOK
  <2> HIDE DEF p
  <2> QED BY <1>0, <1>1, <1>2, <2>1, Begun
<1>4. CASE pull.active
  <2>1. messages' = Append(messages, Says("error", 0)) /\ UNCHANGED <<pull, running, chosen>>
    BY <1>4 DEF SwitchModel
  <2>2. Steps' = Steps /\ Pulling' = Pulling /\ (running \subseteq Command)'
    BY <1>0, <2>1 DEF Steps, Pulling, TypeOK
  <2>3. PullsOK'
    BY <1>0, <1>2, <1>3, <2>1, <2>2 DEF PullsOK
  <2>4. Named' /\ ModelChosen'
    BY <1>2, <1>3, <2>1, <2>2 DEF ChatInv, TypeOK, PullsOK, Named, ModelChosen
  <2> QED BY <1>2, <2>1, <2>2, <2>3, <2>4, PullingKeeps
<1>5. CASE ~pull.active
  <2>1. /\ pull' = [pull EXCEPT !.fromChat = TRUE]
        /\ running' = running \cup {c}
        /\ chosen' = chosen \cup {name} \cup {pulls[d.of].model : d \in Pulling}
        /\ UNCHANGED messages
    BY <1>5 DEF SwitchModel
  <2> HIDE DEF c
  <2>2. Steps' = Steps /\ Pulling' = Pulling \cup {c} /\ (running \subseteq Command)'
    BY <1>0, <1>3, <2>1 DEF Steps, Pulling, TypeOK
  <2>3. \A d \in Pulling : d.of \in DOMAIN pulls /\ pulls[d.of].model \in Names
    BY <1>0, PulledModel
  <2>4. chosen' \subseteq Names
    BY <1>0, <2>1, <2>3 DEF PullsOK, Names
  <2>5. /\ pull' \in [active : BOOLEAN, fromChat : BOOLEAN, cancel : Nat]
        /\ pull'.cancel = pull.cancel
    BY <1>0, <2>1 DEF PullsOK
  <2>6. \A d \in Pulling' : d.of \in DOMAIN pulls'
    BY <1>3, <2>2, <2>3
  <2>7. PullsOK'
    BY <1>0, <1>2, <1>3, <2>4, <2>5, <2>6 DEF PullsOK
  <2>8. \A d \in Pulling' : pulls'[d.of].model \in chosen'
    <3>1. ASSUME NEW d \in Pulling PROVE pulls'[d.of].model \in chosen'
      BY <1>3, <2>1, <2>3
    <3>2. pulls'[c.of].model \in chosen'
      BY <1>1, <1>3, <2>1
    <3> QED BY <2>2, <3>1, <3>2
  <2>9. Named' /\ ModelChosen'
    BY <1>0, <1>2, <2>1, <2>8 DEF Named, ModelChosen
  <2> QED BY <1>2, <2>1, <2>2, <2>7, <2>9, PullingKeeps
<1> QED BY <1>4, <1>5

LEMMA CheckExtractionKeeps ==
    ASSUME ChatInv, CheckExtractionModel
    PROVE  ChatInv'
<1> DEFINE p   == [model |-> ExtractionModel, left |-> MaxTokens, open |-> TRUE]
           c   == [cmd |-> "check", of |-> Len(pulls) + 1, s |-> None]
<1>0. TypeOK /\ PullsOK /\ ModelChosen /\ Named
  BY DEF ChatInv, TypeOK
<1>1. p \in Pull /\ p.model = ExtractionModel
  BY ChatAssumption DEF Pull, Names
<1>2. /\ pulls' = Append(pulls, p) /\ running' = running \cup {c}
      /\ chosen' = IF pull.fromChat THEN chosen \cup {ExtractionModel} ELSE chosen
      /\ UNCHANGED <<chat, messages, streams, waits, inbox, pull, model, asked, interrupted>>
  BY DEF CheckExtractionModel
<1>3. /\ pulls' \in Seq(Pull) /\ Len(pulls') = Len(pulls) + 1 /\ Len(pulls) \in Nat
      /\ DOMAIN pulls = 1..Len(pulls) /\ DOMAIN pulls' = 1..(Len(pulls) + 1)
      /\ \A i \in DOMAIN pulls : pulls'[i] = pulls[i]
      /\ pulls'[Len(pulls) + 1] = p
      /\ c \in Command /\ c.cmd = "check" /\ c.of = Len(pulls) + 1
  <2>1. Len(pulls) \in Nat
    BY <1>0 DEF PullsOK
  <2> HIDE DEF p
  <2> QED BY <1>0, <1>1, <1>2, <2>1, Begun
<1> HIDE DEF c, p
<1>4. Steps' = Steps /\ Pulling' = Pulling \cup {c} /\ (running \subseteq Command)'
  BY <1>0, <1>2, <1>3 DEF Steps, Pulling, TypeOK
<1>5. \A d \in Pulling : d.of \in DOMAIN pulls
  BY <1>0 DEF PullsOK
<1>6. \A d \in Pulling' : d.of \in DOMAIN pulls'
  BY <1>3, <1>4, <1>5
<1>7. chosen' \subseteq Names /\ chosen \subseteq chosen'
  BY <1>0, <1>2 DEF PullsOK, Names
<1>8. PullsOK'
  BY <1>0, <1>2, <1>3, <1>6, <1>7 DEF PullsOK
<1>9. ASSUME pull.fromChat, NEW d \in Pulling' PROVE pulls'[d.of].model \in chosen'
  <2>1. CASE d \in Pulling
    BY <1>0, <1>3, <1>5, <1>7, <1>9, <2>1 DEF Named
  <2>2. CASE d = c
    BY <1>1, <1>2, <1>3, <1>9, <2>2
  <2> QED BY <1>4, <1>9, <2>1, <2>2
<1>10. Named' /\ ModelChosen'
  BY <1>0, <1>2, <1>7, <1>9 DEF Named, ModelChosen
<1> QED BY <1>2, <1>4, <1>8, <1>10, PullingKeeps

\* The pull is over, or the check finds that there is none to make.
LEMMA PullEnds ==
    ASSUME ChatInv, NEW c \in Pulling, PullFailed \/ PullDone(pulls[c.of].model),
           running' = running \ {c},
           pulls' = [pulls EXCEPT ![c.of].open = FALSE],
           UNCHANGED <<chat, streams, waits, inbox, asked, interrupted, chosen>>
    PROVE  ChatInv'
<1>0. TypeOK /\ PullsOK /\ ModelChosen /\ Named
  BY DEF ChatInv, TypeOK
<1>1. c.of \in DOMAIN pulls /\ pulls[c.of] \in Pull /\ pulls[c.of].model \in Names
  BY <1>0, PulledModel
<1>2. Steps' = Steps /\ Pulling' = Pulling \ {c} /\ (running \subseteq Command)'
  BY <1>0 DEF Steps, Pulling, TypeOK
<1>3. pulls' \in Seq(Pull) /\ Len(pulls') = Len(pulls)
  <2>1. pulls \in Seq(Pull) /\ c.of \in 1..Len(pulls)
    BY <1>0, <1>1 DEF PullsOK
  <2> QED BY <2>1, Closed
<1>4. pull' = NoPull /\ (model' = model \/ (pull.fromChat /\ model' = pulls[c.of].model))
  BY DEF PullFailed, PullDone
<1>5. model' \in Names /\ model' \in chosen
  BY <1>0, <1>1, <1>4 DEF PullsOK, Named, ModelChosen
<1>6. PullsOK'
  <2>1. \A d \in Pulling' : d.of \in DOMAIN pulls'
    BY <1>0, <1>2, <1>3 DEF PullsOK
  <2>2. pull' \in [active : BOOLEAN, fromChat : BOOLEAN, cancel : Nat] /\ pull'.cancel = 0
    BY <1>4 DEF NoPull, None
  <2> QED BY <1>0, <1>3, <1>5, <2>1, <2>2 DEF PullsOK
<1>7. Named' /\ ModelChosen'
  BY <1>4, <1>5 DEF Named, ModelChosen, NoPull
<1>8. PICK role \in {"error", "notice"} :
        messages' = Append(messages, Says(role, 0)) \/ messages' = messages
  BY DEF PullFailed, PullDone
<1> QED BY <1>2, <1>6, <1>7, <1>8, PullingKeeps

LEMMA CheckModelKeeps ==
    ASSUME ChatInv, NEW c, CheckModel(c)
    PROVE  ChatInv'
<1>0. TypeOK /\ PullsOK /\ ModelChosen /\ Named /\ c \in Pulling /\ c \in running
  BY DEF ChatInv, TypeOK, CheckModel, Pulling
<1>1. UNCHANGED <<chat, streams, waits, inbox, asked, interrupted, chosen>>
  BY DEF CheckModel
<1>2. CASE /\ PullFailed \/ PullDone(pulls[c.of].model)
           /\ running' = running \ {c}
           /\ pulls' = [pulls EXCEPT ![c.of].open = FALSE]
  BY <1>0, <1>1, <1>2, PullEnds
<1>3. CASE /\ PullGoesOn(c.of)
           /\ running' = (running \ {c}) \cup {[c EXCEPT !.cmd = "pull"]}
           /\ UNCHANGED pulls
  <2> DEFINE d == [c EXCEPT !.cmd = "pull"]
  <2>1. c \in Command /\ c.of \in DOMAIN pulls /\ c.of \in 0..Len(pulls)
    BY <1>0 DEF TypeOK, PullsOK
  <2>2. d \in Command /\ d.cmd = "pull" /\ d.of = c.of
    BY <2>1 DEF Command
  <2>3. running' = (running \ {c}) \cup {d}
    BY <1>3
  <2> HIDE DEF d
  <2>4. Steps' = Steps /\ Pulling' = (Pulling \ {c}) \cup {d} /\ (running \subseteq Command)'
    BY <1>0, <2>2, <2>3 DEF Steps, Pulling, TypeOK
  <2>5. /\ pull' \in [active : BOOLEAN, fromChat : BOOLEAN, cancel : Nat]
        /\ pull'.cancel = c.of /\ pull'.fromChat = pull.fromChat
        /\ UNCHANGED <<model, messages>>
    BY <1>0, <1>3, <2>1, GoesOn
  <2>6. PullsOK'
    BY <1>0, <1>1, <1>3, <2>1, <2>2, <2>4, <2>5 DEF PullsOK
  <2>7. Named' /\ ModelChosen'
    BY <1>0, <1>1, <1>3, <2>2, <2>4, <2>5 DEF Named, ModelChosen
  <2> QED BY <1>1, <2>4, <2>5, <2>6, <2>7, PullingKeeps
<1> QED BY <1>2, <1>3 DEF CheckModel

LEMMA ReadPullKeeps ==
    ASSUME ChatInv, NEW c, ReadPull(c)
    PROVE  ChatInv'
<1>0. TypeOK /\ PullsOK /\ ModelChosen /\ Named /\ c \in Pulling
  BY DEF ChatInv, TypeOK, ReadPull, Pulling
<1>1. UNCHANGED <<chat, streams, waits, inbox, asked, interrupted, chosen>>
  BY DEF ReadPull
<1>2. CASE /\ PullFailed \/ PullDone(pulls[c.of].model)
           /\ running' = running \ {c}
           /\ pulls' = [pulls EXCEPT ![c.of].open = FALSE]
  BY <1>0, <1>1, <1>2, PullEnds
<1>3. CASE /\ pulls[c.of].left > 0
           /\ PullGoesOn(c.of)
           /\ pulls' = [pulls EXCEPT ![c.of].left = @ - 1]
           /\ UNCHANGED running
  <2>1. c.of \in DOMAIN pulls /\ c.of \in 1..Len(pulls) /\ pulls[c.of] \in Pull
        /\ DOMAIN pulls = 1..Len(pulls)
    BY <1>0 DEF PullsOK
  <2> DEFINE p == [pulls[c.of] EXCEPT !.left = @ - 1]
  <2>2. p \in Pull /\ p.model = pulls[c.of].model /\ pulls' = [pulls EXCEPT ![c.of] = p]
    BY <1>3, <2>1 DEF Pull
  <2> HIDE DEF p
  <2>3. /\ pulls' \in Seq(Pull) /\ Len(pulls') = Len(pulls)
        /\ \A i \in 1..Len(pulls) : pulls'[i] = IF i = c.of THEN p ELSE pulls[i]
    BY <1>0, <2>1, <2>2, ExceptSeq DEF PullsOK
  <2>4. \A i \in DOMAIN pulls : i \in DOMAIN pulls' /\ pulls'[i].model = pulls[i].model
    BY <2>1, <2>2, <2>3
  <2>5. /\ pull' \in [active : BOOLEAN, fromChat : BOOLEAN, cancel : Nat]
        /\ pull'.cancel = c.of /\ pull'.fromChat = pull.fromChat
        /\ UNCHANGED <<model, messages>>
    BY <1>0, <1>3, <2>1, GoesOn
  <2>6. Steps' = Steps /\ Pulling' = Pulling /\ (running \subseteq Command)'
    BY <1>0, <1>3 DEF Steps, Pulling, TypeOK
  <2>7. PullsOK'
    BY <1>0, <1>1, <2>1, <2>3, <2>4, <2>5, <2>6 DEF PullsOK
  <2>8. Named' /\ ModelChosen'
    BY <1>0, <1>1, <2>4, <2>5, <2>6 DEF Named, ModelChosen, PullsOK
  <2> QED BY <1>1, <2>5, <2>6, <2>7, <2>8, PullingKeeps
<1> QED BY <1>2, <1>3 DEF ReadPull

-----------------------------------------------------------------------------
(* Reading a stream, and asking. *)

LEMMA ReadChunkKeeps ==
    ASSUME ChatInv, NEW s \in DOMAIN streams, NEW kind \in {"text", "done", "error"},
           ReadChunk(s, kind)
    PROVE  ChatInv'
<1> DEFINE c == [s |-> s, kind |-> kind, n |-> streams[s].left]
           st == [streams[s] EXCEPT !.open = (kind = "text"),
                                    !.left = IF kind = "text" THEN @ - 1 ELSE 0]
<1>0. TypeOK /\ ChatOK /\ StreamsOK /\ PullsOK /\ Named /\ ModelChosen /\ OwnTokens /\ Calm /\ Stirred
  BY DEF ChatInv, TypeOK
<1>1. /\ waits[s] > 0 /\ waits' = [waits EXCEPT ![s] = @ - 1]
      /\ inbox' = inbox \cup {c}
      /\ kind = "text" => streams[s].left > 0
      /\ UNCHANGED <<chat, messages, running, asked, interrupted>> /\ UNCHANGED fetch
  BY DEF ReadChunk
<1>2. /\ streams \in Seq(Stream) /\ waits \in Seq(Nat) /\ Len(waits) = Len(streams)
      /\ DOMAIN streams = 1..Len(streams) /\ DOMAIN waits = DOMAIN streams
      /\ streams[s] \in Stream /\ waits[s] \in Nat /\ s \in Nat
  BY <1>0 DEF StreamsOK
<1>3. st \in Stream /\ st.of = streams[s].of /\ st.stage = streams[s].stage /\ c \in Chunk /\ c.s = s
  <2>1. c \in Chunk /\ c.s = s
    BY <1>2 DEF Stream, Chunk
  <2>2. CASE kind = "text"
    <3>1. st = [streams[s] EXCEPT !.open = TRUE, !.left = streams[s].left - 1]
      BY <2>2
    <3>2. streams[s].left - 1 \in Nat
      BY <1>1, <1>2, <2>2 DEF Stream
    <3> HIDE DEF st
    <3> QED BY <1>2, <2>1, <3>1, <3>2 DEF Stream
  <2>3. CASE kind # "text"
    <3>1. st = [streams[s] EXCEPT !.open = FALSE, !.left = 0]
      BY <2>3
    <3> HIDE DEF st
    <3> QED BY <1>2, <2>1, <3>1 DEF Stream
  <2> QED BY <2>2, <2>3
<1>4. streams' = [streams EXCEPT ![s] = st]
  BY <1>2 DEF ReadChunk
<1> HIDE DEF st, c
<1>5. /\ streams' \in Seq(Stream) /\ Len(streams') = Len(streams)
      /\ \A j \in 1..Len(streams) : streams'[j] = IF j = s THEN st ELSE streams[j]
  BY <1>2, <1>3, <1>4, ExceptSeq
<1>6. SameStreams(streams, streams')
  BY <1>2, <1>3, <1>5 DEF SameStreams
<1>7. /\ waits' \in Seq(Nat) /\ Len(waits') = Len(waits) /\ DOMAIN waits' = DOMAIN waits
      /\ \A j \in DOMAIN waits : waits'[j] = IF j = s THEN waits[s] - 1 ELSE waits[j]
  <2>1. waits[s] - 1 \in Nat
    BY <1>1, <1>2
  <2> QED BY <1>1, <1>2, <2>1, ExceptSeq
<1>8. \A t \in DOMAIN streams : (Current(t)' <=> Current(t)) /\ (Late(t)' <=> Late(t))
  BY <1>0, <1>1, <1>6, SameQuestions
<1>9. TypeOK'
  <2>1. StreamsOK'
    BY <1>0, <1>1, <1>2, <1>3, <1>5, <1>7 DEF StreamsOK
  <2>2. ChatOK'
    BY <1>0, <1>1, <1>6, ChatKept
  <2>3. PullsOK'
    BY <1>0, <1>1, PullsKept DEF Pulling
  <2> QED BY <1>0, <1>1, <2>1, <2>2, <2>3 DEF TypeOK
<1>10. Calm'
  <2> SUFFICES ASSUME interrupted = {} PROVE Calm'
    BY <1>1 DEF Calm
  <2>1. waits[s] = 1 /\ Current(s) /\ inbox = {} /\ Steps = {}
        /\ \A t \in DOMAIN waits : waits[t] > 0 => t = s
    BY <1>0, <1>1, <1>2 DEF Calm
  <2>2. \A t \in DOMAIN waits' : ~(waits'[t] > 0)
    BY <1>7, <2>1
  <2>3. inbox' = {c} /\ Steps' = {} /\ Current(s)'
    BY <1>1, <1>8, <2>1 DEF Steps
  <2>4. chat'.streaming => AnswersLast(messages', asked')
    BY <1>0, <1>1 DEF Calm
  <2> QED BY <1>3, <2>2, <2>3, <2>4 DEF Calm
<1>11. Stirred'
  <2> SUFFICES ASSUME interrupted # {} PROVE Stirred'
    BY <1>1 DEF Stirred
  <2>1. Late(s)
    BY <1>0, <1>1, <1>2 DEF Stirred
  <2>2. \A t \in DOMAIN waits' : waits'[t] > 0 => Late(t)'
    BY <1>0, <1>2, <1>7, <1>8, <2>1 DEF Stirred
  <2>3. \A d \in inbox' : Late(d.s)'
    BY <1>0, <1>1, <1>3, <1>8, <2>1 DEF Stirred, StreamsOK
  <2>4. (\A d \in Steps : Disturbed(d.of))'
    BY <1>0, <1>1 DEF Stirred, Steps, Disturbed
  <2>5. (chat.sqlCh # None => Late(chat.sqlCh))' /\ (chat.ch # None => Late(chat.ch))'
    BY <1>0, <1>1, <1>8 DEF Stirred, TypeOK, ChatOK
  <2> QED BY <2>2, <2>3, <2>4, <2>5 DEF Stirred
<1>12. OwnTokens'
  BY <1>0, <1>1, FromSelf, OwnStays
<1>13. Named' /\ ModelChosen'
  BY <1>0, <1>1, PullsKept DEF Pulling
<1> QED BY <1>9, <1>10, <1>11, <1>12, <1>13 DEF ChatInv

LEMMA ReadClosedKeeps ==
    ASSUME ChatInv, NEW s \in DOMAIN streams, ReadClosed(s)
    PROVE  ChatInv'
<1> DEFINE st == [streams[s] EXCEPT !.open = FALSE, !.left = 0,
                     !.ctx = IF streams[s].open /\ @ = "live" THEN "expired" ELSE @]
<1>0. TypeOK /\ ChatOK /\ StreamsOK /\ PullsOK /\ Named /\ ModelChosen /\ OwnTokens /\ Calm /\ Stirred
  BY DEF ChatInv, TypeOK
<1>1. /\ waits[s] > 0 /\ waits' = [waits EXCEPT ![s] = @ - 1]
      /\ UNCHANGED <<chat, messages, running, inbox, asked, interrupted>> /\ UNCHANGED fetch
  BY DEF ReadClosed
<1>2. /\ streams \in Seq(Stream) /\ waits \in Seq(Nat) /\ Len(waits) = Len(streams)
      /\ DOMAIN streams = 1..Len(streams) /\ DOMAIN waits = DOMAIN streams
      /\ streams[s] \in Stream /\ waits[s] \in Nat /\ s \in Nat
  BY <1>0 DEF StreamsOK
<1>3. st \in Stream /\ st.of = streams[s].of /\ st.stage = streams[s].stage
  BY <1>1, <1>2 DEF Stream
<1>4. streams' = [streams EXCEPT ![s] = st]
  BY <1>2 DEF ReadClosed
<1> HIDE DEF st
<1>5. /\ streams' \in Seq(Stream) /\ Len(streams') = Len(streams)
      /\ \A j \in 1..Len(streams) : streams'[j] = IF j = s THEN st ELSE streams[j]
  BY <1>2, <1>3, <1>4, ExceptSeq
<1>6. SameStreams(streams, streams')
  BY <1>2, <1>3, <1>5 DEF SameStreams
<1>7. /\ waits' \in Seq(Nat) /\ Len(waits') = Len(waits) /\ DOMAIN waits' = DOMAIN waits
      /\ \A j \in DOMAIN waits : waits'[j] = IF j = s THEN waits[s] - 1 ELSE waits[j]
  <2>1. waits[s] - 1 \in Nat
    BY <1>1, <1>2
  <2> QED BY <1>1, <1>2, <2>1, ExceptSeq
<1>8. \A t \in DOMAIN streams : (Current(t)' <=> Current(t)) /\ (Late(t)' <=> Late(t))
  BY <1>0, <1>1, <1>6, SameQuestions
<1>9. TypeOK'
  <2>1. StreamsOK'
    BY <1>0, <1>1, <1>2, <1>5, <1>7 DEF StreamsOK
  <2>2. ChatOK'
    BY <1>0, <1>1, <1>6, ChatKept
  <2>3. PullsOK'
    BY <1>0, <1>1, PullsKept DEF Pulling
  <2> QED BY <1>0, <1>1, <2>1, <2>2, <2>3 DEF TypeOK
<1>10. Calm'
  <2> SUFFICES ASSUME interrupted = {} PROVE Calm'
    BY <1>1 DEF Calm
  <2>1. waits[s] = 1 /\ Current(s) /\ inbox = {} /\ Steps = {}
        /\ \A t \in DOMAIN waits : waits[t] > 0 => t = s
    BY <1>0, <1>1, <1>2 DEF Calm
  <2>2. \A t \in DOMAIN waits' : ~(waits'[t] > 0)
    BY <1>7, <2>1
  <2>3. inbox' = {} /\ Steps' = {}
    BY <1>1, <2>1 DEF Steps
  <2>4. chat'.streaming => AnswersLast(messages', asked')
    BY <1>0, <1>1 DEF Calm
  <2> QED BY <2>2, <2>3, <2>4 DEF Calm
<1>11. Stirred'
  <2> SUFFICES ASSUME interrupted # {} PROVE Stirred'
    BY <1>1 DEF Stirred
  <2>2. \A t \in DOMAIN waits' : waits'[t] > 0 => Late(t)'
    BY <1>0, <1>1, <1>2, <1>7, <1>8 DEF Stirred
  <2>3. \A d \in inbox' : Late(d.s)'
    BY <1>0, <1>1, <1>8 DEF Stirred, StreamsOK
  <2>4. (\A d \in Steps : Disturbed(d.of))'
    BY <1>0, <1>1 DEF Stirred, Steps, Disturbed
  <2>5. (chat.sqlCh # None => Late(chat.sqlCh))' /\ (chat.ch # None => Late(chat.ch))'
    BY <1>0, <1>1, <1>8 DEF Stirred, TypeOK, ChatOK
  <2> QED BY <2>2, <2>3, <2>4, <2>5 DEF Stirred
<1>12. OwnTokens'
  BY <1>0, <1>1, FromSelf, OwnStays
<1>13. Named' /\ ModelChosen'
  BY <1>0, <1>1, PullsKept DEF Pulling
<1> QED BY <1>9, <1>10, <1>11, <1>12, <1>13 DEF ChatInv

LEMMA ThreeMore ==
    ASSUME NEW ms \in Seq(Message), NEW a \in Message, NEW b \in Message, NEW c \in Message
    PROVE  ms \o <<a, b, c>> = Append(Append(Append(ms, a), b), c)
OBVIOUS

LEMMA TwoMore ==
    ASSUME NEW ms \in Seq(Message), NEW a \in Message, NEW b \in Message
    PROVE  ms \o <<a, b>> = Append(Append(ms, a), b)
OBVIOUS

\* A question asked shows where its answer will be.
LEMMA Asked ==
    ASSUME NEW ms \in Seq(Message), NEW q \in Nat
    PROVE  LET new == Trimmed(ms, "interrupted")
                        \o <<Says("user", q), Says("generating", 0), Says("assistant", q)>>
           IN  new \in Seq(Message) /\ From(ms, new) /\ AnswersLast(new, q)
<1> DEFINE t == Trimmed(ms, "interrupted")
           a == Says("user", q)
           b == Says("generating", 0)
           c == Says("assistant", q)
<1>1. t \in Seq(Message) /\ From(ms, t)
  BY Trims
<1>2. /\ a \in Message /\ a.sql = {} /\ a.text = {}
      /\ b \in Message /\ b.sql = {} /\ b.text = {}
      /\ c \in Message /\ c.sql = {} /\ c.text = {} /\ c.role = "assistant" /\ c.of = q
  BY Says1 DEF Notices
<1> HIDE DEF t, a, b, c
<1> DEFINE ta == Append(t, a)
           tb == Append(ta, b)
           tc == Append(tb, c)
<1>3. t \o <<a, b, c>> = tc
  BY <1>1, <1>2, ThreeMore
<1>4. ta \in Seq(Message) /\ From(t, ta)
  BY <1>1, <1>2, Appended
<1> HIDE DEF ta
<1>5. tb \in Seq(Message) /\ From(ta, tb)
  BY <1>2, <1>4, Appended
<1> HIDE DEF tb
<1>6. tc \in Seq(Message) /\ From(tb, tc) /\ AnswersLast(tc, q)
  BY <1>2, <1>5, Appended
<1> HIDE DEF tc
<1>7. From(ms, tc)
  BY <1>1, <1>4, <1>5, <1>6, FromFrom
<1> QED BY <1>3, <1>6, <1>7 DEF t, a, b, c

LEMMA AskKeeps ==
    ASSUME ChatInv, Ask
    PROVE  ChatInv'
<1> DEFINE c == [cmd |-> "start", of |-> asked', s |-> None]
<1>0. TypeOK /\ ChatOK /\ StreamsOK /\ PullsOK /\ Named /\ ModelChosen /\ OwnTokens /\ Calm /\ Stirred
  BY DEF ChatInv, TypeOK
<1>1. /\ ~chat.streaming /\ asked' = asked + 1 /\ asked \in Nat /\ asked' \in Nat
      /\ chat' = [chat EXCEPT !.streaming = TRUE]
      /\ messages' = Trimmed(messages, "interrupted")
            \o <<Says("user", asked'), Says("generating", 0), Says("assistant", asked')>>
      /\ running' = running \cup {c}
      /\ UNCHANGED <<streams, waits, inbox, interrupted>> /\ UNCHANGED fetch
  BY <1>0 DEF Ask, MaySend, TypeOK
<1>2. c \in Command /\ c.cmd = "start" /\ c.of = asked'
  BY <1>1 DEF Command, None
<1>3. /\ chat' \in Chat /\ chat'.streaming /\ chat'.sqlCh = chat.sqlCh /\ chat'.ch = chat.ch
      /\ chat'.cancel = chat.cancel /\ chat'.current = chat.current
  BY <1>0, <1>1 DEF TypeOK, ChatOK, Chat
<1> HIDE DEF c
<1>4. Steps' = Steps \cup {c} /\ Pulling' = Pulling /\ (running \subseteq Command)'
  BY <1>0, <1>1, <1>2 DEF Steps, Pulling, TypeOK
<1>5. messages' \in Seq(Message) /\ From(messages, messages') /\ AnswersLast(messages', asked')
  BY <1>0, <1>1, Asked DEF TypeOK
<1>6. TypeOK'
  <2>1. ChatOK' /\ StreamsOK'
    BY <1>0, <1>1, <1>3 DEF TypeOK, ChatOK, StreamsOK
  <2>2. PullsOK'
    BY <1>0, <1>1, <1>4, PullsKept
  <2>3. interrupted' \subseteq 0..asked'
    BY <1>0, <1>1 DEF TypeOK
  <2> QED BY <1>1, <1>4, <1>5, <2>1, <2>2, <2>3 DEF TypeOK
<1>7. \A q : Disturbed(q)' <=> Disturbed(q)
  BY <1>1 DEF Disturbed
<1>8. \A s : Late(s)' <=> Late(s)
  BY <1>1, <1>3, <1>7 DEF Late
<1>9. Calm'
  <2> SUFFICES ASSUME interrupted = {} PROVE Calm'
    BY <1>1 DEF Calm
  <2>1. (\A s \in DOMAIN waits : ~(waits[s] > 0)) /\ inbox = {} /\ Steps = {}
    BY <1>0, <1>1 DEF Calm, Current
  <2> QED BY <1>1, <1>2, <1>3, <1>4, <1>5, <2>1 DEF Calm
<1>10. Stirred'
  <2> SUFFICES ASSUME interrupted # {} PROVE Stirred'
    BY <1>1 DEF Stirred
  <2>1. Disturbed(asked')
    BY <1>0, <1>1 DEF TypeOK, Disturbed
  <2> QED BY <1>0, <1>1, <1>2, <1>3, <1>4, <1>7, <1>8, <2>1 DEF Stirred
<1>11. OwnTokens'
  BY <1>0, <1>1, <1>5, OwnStays
<1>12. Named' /\ ModelChosen'
  BY <1>0, <1>1, <1>4, PullsKept
<1> QED BY <1>6, <1>9, <1>10, <1>11, <1>12 DEF ChatInv

-----------------------------------------------------------------------------
(* Opening the stream of a stage. *)

\* A command of a question opens a stream for it, and the chat could cancel it.
LEMMA OpenedKeeps ==
    ASSUME ChatInv, NEW c \in Steps, NEW stage \in {"sql", "answer"},
           NEW ss \in Seq(Stream), SameStreams(streams, ss),
           streams' = Append(ss, [of |-> c.of, stage |-> stage, left |-> MaxTokens,
                                  open |-> TRUE, ctx |-> "live"]),
           waits' = Append(waits, 1), running' = running \ {c},
           chat' \in Chat, chat'.streaming = chat.streaming, chat'.cancel = NewStream,
           stage = "sql" => /\ chat'.sqlCh = NewStream /\ chat'.ch = chat.ch
                            /\ chat'.current = c.of,
           stage = "answer" => /\ chat'.ch = NewStream /\ chat'.sqlCh = chat.sqlCh
                               /\ chat'.current = chat.current /\ c.cmd = "query",
           messages' \in Seq(Message), From(messages, messages'),
           c.of = asked /\ AnswersLast(messages, asked) => AnswersLast(messages', asked),
           UNCHANGED <<inbox, asked, interrupted>>, UNCHANGED fetch
    PROVE  ChatInv'
<1>0. TypeOK /\ ChatOK /\ StreamsOK /\ PullsOK /\ Named /\ ModelChosen /\ OwnTokens /\ Calm /\ Stirred
  BY DEF ChatInv, TypeOK
<1>a. PICK n \in Nat : n = Len(streams)
  BY <1>0 DEF StreamsOK
<1>1. /\ n \in Nat /\ DOMAIN streams = 1..n /\ waits \in Seq(Nat) /\ Len(waits) = n
      /\ DOMAIN waits = 1..n /\ NewStream = n + 1 /\ c \in Command /\ c.of \in Nat /\ c \in running
      /\ Len(ss) = n
  BY <1>0, <1>a DEF StreamsOK, NewStream, Steps, TypeOK, Command, SameStreams
<1>2. /\ streams' \in Seq(Stream) /\ Len(streams') = n + 1 /\ DOMAIN streams' = 1..(n + 1)
      /\ \A s \in 1..n : streams'[s] = ss[s]
      /\ streams'[n + 1].of = c.of /\ streams'[n + 1].stage = stage
  <2> DEFINE new == Append(ss, [of |-> c.of, stage |-> stage, left |-> MaxTokens,
                                open |-> TRUE, ctx |-> "live"])
  <2>1. /\ new \in Seq(Stream) /\ Len(new) = Len(ss) + 1
        /\ DOMAIN new = 1..(Len(ss) + 1)
        /\ \A s \in 1..Len(ss) : new[s] = ss[s]
        /\ new[Len(ss) + 1].of = c.of /\ new[Len(ss) + 1].stage = stage
    BY <1>1, Opening
  <2>2. streams' = new
    OBVIOUS
  <2> HIDE DEF new
  <2> QED BY <1>1, <2>1, <2>2
<1>3. \A s \in 1..n : streams'[s].of = streams[s].of /\ streams'[s].stage = streams[s].stage
  BY <1>1, <1>2 DEF SameStreams
<1>4. /\ waits' \in Seq(Nat) /\ Len(waits') = n + 1 /\ DOMAIN waits' = 1..(n + 1)
      /\ waits'[n + 1] = 1 /\ \A s \in 1..n : waits'[s] = waits[s]
  BY <1>1
<1>5. Steps' = Steps \ {c} /\ Pulling' = Pulling /\ (running \subseteq Command)'
  BY <1>0, <1>1 DEF Steps, Pulling, TypeOK
<1>6. TypeOK'
  <2>1. StreamsOK'
    BY <1>0, <1>1, <1>2, <1>4 DEF StreamsOK
  <2>2. chat'.cancel \in 0..(n + 1)
    BY <1>1
  <2>3. (chat.sqlCh # None => chat.sqlCh \in DOMAIN streams /\ streams[chat.sqlCh].stage = "sql")'
    BY <1>0, <1>1, <1>2, <1>3 DEF ChatOK
  <2>4. (chat.ch # None => chat.ch \in DOMAIN streams /\ streams[chat.ch].stage = "answer")'
    BY <1>0, <1>1, <1>2, <1>3 DEF ChatOK
  <2>5. ChatOK'
    BY <1>2, <2>2, <2>3, <2>4 DEF ChatOK
  <2>6. PullsOK'
    BY <1>0, <1>5, PullsKept
  <2> QED BY <1>0, <1>5, <2>1, <2>5, <2>6 DEF TypeOK
<1>7. \A q : Disturbed(q)' <=> Disturbed(q)
  BY DEF Disturbed
<1>8. Calm'
  <2> SUFFICES ASSUME interrupted = {} PROVE Calm'
    BY DEF Calm
  <2>1. /\ chat.streaming /\ c.of = asked /\ Steps = {c} /\ AnswersLast(messages, asked)
        /\ c.cmd = "query" => chat.current = asked
    BY <1>0 DEF Calm
  <2>2. inbox = {}
    BY <1>0, <2>1 DEF Calm
  <2>3. \A s \in 1..n : ~(waits[s] > 0)
    BY <1>0, <1>1, <2>1 DEF Calm
  <2>4. Current(n + 1)'
    BY <1>1, <1>2, <2>1 DEF Current
  <2>5. Steps' = {} /\ inbox' = {}
    BY <1>5, <2>1, <2>2
  <2>6. \A s \in DOMAIN waits' : waits'[s] > 0 => s = n + 1
    BY <1>1, <1>4, <2>3
  <2> QED BY <1>4, <2>1, <2>4, <2>5, <2>6 DEF Calm
<1>9. Stirred'
  <2> SUFFICES ASSUME interrupted # {} PROVE Stirred'
    BY DEF Stirred
  <2>1. Disturbed(c.of)
    BY <1>0 DEF Stirred
  <2>2. Late(n + 1)'
    BY <1>2, <1>7, <2>1 DEF Late
  <2>3. \A s \in 1..n : Late(s) => Late(s)'
    BY <1>3, <1>7, <2>1 DEF Late
  <2>4. \A s \in DOMAIN waits' : waits'[s] > 0 => Late(s)'
    BY <1>0, <1>1, <1>4, <2>2, <2>3 DEF Stirred
  <2>5. \A d \in inbox' : Late(d.s)'
    BY <1>0, <1>1, <2>3 DEF Stirred, StreamsOK
  <2>6. (\A d \in Steps : Disturbed(d.of))'
    BY <1>0, <1>5, <1>7 DEF Stirred
  <2>7. (chat.sqlCh # None => Late(chat.sqlCh))'
    BY <1>0, <1>1, <2>2, <2>3 DEF Stirred, ChatOK
  <2>8. (chat.ch # None => Late(chat.ch))'
    BY <1>0, <1>1, <2>2, <2>3 DEF Stirred, ChatOK
  <2> QED BY <2>4, <2>5, <2>6, <2>7, <2>8 DEF Stirred
<1>10. OwnTokens'
  BY <1>0, OwnStays
<1>11. Named' /\ ModelChosen'
  BY <1>0, <1>5, PullsKept
<1> QED BY <1>6, <1>8, <1>9, <1>10, <1>11 DEF ChatInv

LEMMA StartKeeps ==
    ASSUME ChatInv, NEW c, StartSQLStream(c)
    PROVE  ChatInv'
<1>1. c \in Steps /\ TypeOK /\ ChatOK /\ StreamsOK
  BY DEF StartSQLStream, Steps, ChatInv, TypeOK
<1>2. /\ running' = running \ {c} /\ streams' = Opened(c.of, "sql") /\ waits' = Append(waits, 1)
      /\ chat' = [chat EXCEPT !.cancel = NewStream, !.sqlCh = NewStream, !.current = c.of]
      /\ UNCHANGED <<messages, inbox, asked, interrupted>> /\ UNCHANGED fetch
  BY DEF StartSQLStream
<1>3. NewStream \in Nat /\ c.of \in Nat /\ chat \in Chat
  BY <1>1 DEF NewStream, StreamsOK, ChatOK, TypeOK, Steps, Command
<1>4. /\ chat' \in Chat /\ chat'.streaming = chat.streaming /\ chat'.cancel = NewStream
      /\ chat'.sqlCh = NewStream /\ chat'.ch = chat.ch /\ chat'.current = c.of
  BY <1>2, <1>3 DEF Chat
<1>5. messages' \in Seq(Message) /\ From(messages, messages') /\ messages' = messages
  BY <1>1, <1>2, FromSelf DEF TypeOK
<1>6. streams \in Seq(Stream) /\ SameStreams(streams, streams)
  BY <1>1 DEF StreamsOK, SameStreams
<1>7. streams' = Append(streams, [of |-> c.of, stage |-> "sql", left |-> MaxTokens,
                                  open |-> TRUE, ctx |-> "live"])
  BY <1>2 DEF Opened
<1> QED BY <1>1, <1>2, <1>4, <1>5, <1>6, <1>7, OpenedKeeps

LEMMA SecondStageKeeps ==
    ASSUME ChatInv, NEW c \in Steps, c.cmd = "query", running' = running \ {c},
           NEW ms \in Seq(Message), From(messages, ms),
           c.of = asked /\ AnswersLast(messages, asked) => AnswersLast(ms, asked),
           SecondStage(c.of, ms), UNCHANGED <<inbox, asked, interrupted>>, UNCHANGED fetch
    PROVE  ChatInv'
<1> DEFINE st == [of |-> c.of, stage |-> "answer", left |-> MaxTokens,
                  open |-> TRUE, ctx |-> "live"]
           ss == Cancels(streams, chat.cancel)
<1>1. TypeOK /\ ChatOK /\ StreamsOK
  BY DEF ChatInv, TypeOK
<1>2. /\ streams' = Append(ss, Last(Opened(c.of, "answer"))) /\ waits' = Append(waits, 1)
      /\ chat' = [chat EXCEPT !.ch = NewStream, !.cancel = NewStream] /\ messages' = ms
  BY DEF SecondStage
<1>3. streams \in Seq(Stream) /\ NewStream \in Nat /\ chat \in Chat /\ c.of \in Nat
      /\ chat.cancel \in 0..Len(streams)
  BY <1>1 DEF StreamsOK, ChatOK, NewStream, TypeOK, Steps, Command
<1>4. Last(Opened(c.of, "answer")) = st
  <2>1. st \in Stream
    BY <1>3, ChatAssumption DEF Stream
  <2>2. Opened(c.of, "answer") = Append(streams, st)
    BY DEF Opened
  <2> HIDE DEF st
  <2>3. Last(Append(streams, st)) = st
    BY <1>3, <2>1 DEF Last
  <2> QED BY <2>2, <2>3
<1>5. SameStreams(streams, ss) /\ ss \in Seq(Stream)
  BY <1>3, Cancelling DEF SameStreams
<1>6. /\ chat' \in Chat /\ chat'.streaming = chat.streaming /\ chat'.cancel = NewStream
      /\ chat'.ch = NewStream /\ chat'.sqlCh = chat.sqlCh /\ chat'.current = chat.current
  BY <1>2, <1>3 DEF Chat
<1>7. streams' = Append(ss, st)
  BY <1>2, <1>4
<1> HIDE DEF ss
<1> QED BY <1>2, <1>5, <1>6, <1>7, OpenedKeeps

LEMMA SQLResultKeeps ==
    ASSUME ChatInv, NEW c, HandleSQLResult(c)
    PROVE  ChatInv'
<1> DEFINE a == WithoutLastNotice(messages)
           f == Says("falling back", 0)
           m == Says("assistant", c.of)
<1>1. c \in Steps /\ c.cmd = "query" /\ running' = running \ {c} /\ c.of \in Nat
      /\ UNCHANGED <<inbox, asked, interrupted>> /\ UNCHANGED fetch
  BY DEF HandleSQLResult, Steps, ChatInv, TypeOK, Command
<1>2. messages \in Seq(Message)
  BY DEF ChatInv, TypeOK
<1>3. a \in Seq(Message) /\ From(messages, a)
      /\ (AnswersLast(messages, asked) => AnswersLast(a, asked))
  BY <1>2, NoticeGone
<1>4. SecondStage(c.of, a) \/ SecondStage(c.of, a \o <<f, m>>)
  BY DEF HandleSQLResult
<1>5. /\ f \in Message /\ f.sql = {} /\ f.text = {}
      /\ m \in Message /\ m.sql = {} /\ m.text = {} /\ m.role = "assistant" /\ m.of = c.of
  <2>1. f \in Message /\ f.sql = {} /\ f.text = {}
    BY Says1 DEF Notices
  <2>2. m \in Message /\ m.sql = {} /\ m.text = {} /\ m.role = "assistant" /\ m.of = c.of
    BY <1>1, Says1
  <2> QED BY <2>1, <2>2
<1> HIDE DEF a, f, m
<1>6. CASE SecondStage(c.of, a)
  BY <1>1, <1>3, <1>6, SecondStageKeeps
<1>7. CASE SecondStage(c.of, a \o <<f, m>>)
  <2> DEFINE af == Append(a, f)
             am == Append(af, m)
  <2>1. a \o <<f, m>> = am
    BY <1>3, <1>5, TwoMore
  <2>2. af \in Seq(Message) /\ From(a, af)
    BY <1>3, <1>5, Appended
  <2> HIDE DEF af
  <2>3. am \in Seq(Message) /\ From(af, am) /\ AnswersLast(am, c.of)
    BY <1>5, <2>2, Appended
  <2> HIDE DEF am
  <2>4. From(messages, am)
    BY <1>2, <1>3, <2>2, <2>3, FromFrom
  <2> QED BY <1>1, <1>7, <2>1, <2>3, <2>4, SecondStageKeeps
<1> QED BY <1>4, <1>6, <1>7

-----------------------------------------------------------------------------
(* Handling a chunk. *)

LEMMA FromOwn ==
    ASSUME NEW a, NEW b, Own(a), From(a, b)
    PROVE  Own(b)
BY DEF Own, From

LEMMA OwnNext ==
    ASSUME Own(messages'), UNCHANGED interrupted
    PROVE  OwnTokens'
BY DEF Own, OwnTokens, Disturbed

\* Until something is interrupted, a chunk is all that is under way.
LEMMA OnlyThis ==
    ASSUME ChatInv, NEW c \in inbox, interrupted = {}
    PROVE  /\ inbox = {c} /\ Steps = {} /\ Current(c.s)
           /\ \A s \in DOMAIN waits : ~(waits[s] > 0)
BY DEF ChatInv, Calm

\* A token that is taken is its question's own, or of a disturbed one.
LEMMA TokenOwn ==
    ASSUME ChatInv, NEW c \in inbox, NEW field \in {"sql", "text"}, chat.streaming
    PROVE  LET ms == WithToken(messages, field, streams[c.s].of)
           IN  /\ ms \in Seq(Message) /\ Own(ms)
               /\ AnswersLast(messages, asked) => AnswersLast(ms, asked)
<1> DEFINE q == streams[c.s].of
<1>1. messages \in Seq(Message) /\ Own(messages)
  BY DEF ChatInv, TypeOK, OwnTokens, Own
<1>2. q \in Nat
  <2>1. c.s \in DOMAIN streams /\ streams \in Seq(Stream)
    BY DEF ChatInv, TypeOK, StreamsOK
  <2>2. streams[c.s] \in Stream
    BY <2>1
  <2> QED BY <2>2 DEF Stream
<1>3. AnswersLast(messages, q) \/ Disturbed(q)
  <2>1. CASE interrupted = {}
    <3>1. Current(c.s)
      BY <2>1, OnlyThis
    <3>2. AnswersLast(messages, asked)
      BY <2>1 DEF ChatInv, Calm
    <3> QED BY <3>1, <3>2 DEF Current
  <2>2. CASE interrupted # {}
    BY <2>2 DEF ChatInv, Stirred, Late
  <2> QED BY <2>1, <2>2
<1> HIDE DEF q
<1>4. /\ WithToken(messages, field, q) \in Seq(Message)
      /\ AnswersLast(messages, asked) => AnswersLast(WithToken(messages, field, q), asked)
      /\ Own(WithToken(messages, field, q))
  BY <1>1, <1>2, <1>3, Tokened
<1> QED BY <1>4 DEF q

\* The question is over, or was before: nothing more is under way for it,
\* but what was left behind by an interrupted one.
LEMMA OverKeeps ==
    ASSUME ChatInv, NEW c \in inbox, inbox' = inbox \ {c},
           chat' \in Chat, ~chat'.streaming, chat'.cancel \in {chat.cancel, None},
           chat'.sqlCh \in {chat.sqlCh, None}, chat'.ch = chat.ch, chat'.current = chat.current,
           SameStreams(streams, streams'),
           messages' \in Seq(Message), OwnTokens',
           UNCHANGED <<waits, running, asked, interrupted>>, UNCHANGED fetch
    PROVE  ChatInv'
<1>0. TypeOK /\ ChatOK /\ StreamsOK /\ PullsOK /\ Named /\ ModelChosen /\ Calm /\ Stirred
  BY DEF ChatInv, TypeOK
<1>1. /\ streams \in Seq(Stream) /\ streams' \in Seq(Stream) /\ Len(streams') = Len(streams)
      /\ \A s \in DOMAIN streams : /\ streams'[s].stage = streams[s].stage
                                   /\ streams'[s].of = streams[s].of
  BY <1>0 DEF StreamsOK, SameStreams
<1>2. DOMAIN streams' = DOMAIN streams /\ DOMAIN waits = DOMAIN streams /\ Len(streams) \in Nat
  BY <1>0, <1>1 DEF StreamsOK
<1>3. Steps' = Steps /\ Pulling' = Pulling
  BY DEF Steps, Pulling
<1>4. TypeOK'
  <2>1. ChatOK'
    BY <1>0, <1>1, <1>2 DEF ChatOK, None
  <2>2. StreamsOK'
    BY <1>0, <1>1, <1>2 DEF StreamsOK
  <2>3. PullsOK'
    BY <1>0, <1>3, PullsKept
  <2> QED BY <1>0, <2>1, <2>2, <2>3 DEF TypeOK
<1>5. Calm'
  <2> SUFFICES ASSUME interrupted = {} PROVE Calm'
    BY DEF Calm
  <2>1. inbox' = {} /\ Steps' = {} /\ \A s \in DOMAIN waits' : ~(waits'[s] > 0)
    BY <1>3, OnlyThis
  <2> QED BY <2>1 DEF Calm
<1>6. \A q : Disturbed(q)' <=> Disturbed(q)
  BY DEF Disturbed
<1>7. \A s \in DOMAIN streams : Late(s) => Late(s)'
  BY <1>1, <1>6 DEF Late
<1>8. Stirred'
  <2> SUFFICES ASSUME interrupted # {} PROVE Stirred'
    BY DEF Stirred
  <2>1. \A s \in DOMAIN waits' : waits'[s] > 0 => Late(s)'
    BY <1>0, <1>2, <1>7 DEF Stirred
  <2>2. \A d \in inbox' : Late(d.s)'
    BY <1>0, <1>7 DEF Stirred, StreamsOK
  <2>3. (\A d \in Steps : Disturbed(d.of))'
    BY <1>0, <1>3, <1>6 DEF Stirred
  <2>4. (chat.sqlCh # None => Late(chat.sqlCh))'
    BY <1>0, <1>7 DEF Stirred, ChatOK
  <2>5. (chat.ch # None => Late(chat.ch))'
    BY <1>0, <1>7 DEF Stirred, ChatOK
  <2> QED BY <2>1, <2>2, <2>3, <2>4, <2>5 DEF Stirred
<1>9. Named' /\ ModelChosen'
  BY <1>0, <1>3, PullsKept
<1> QED BY <1>4, <1>5, <1>8, <1>9 DEF ChatInv

\* In new, one more command than in ws waits for stream t, if there is one.
OneMore(ws, t, new) ==
    /\ new \in Seq(Nat) /\ Len(new) = Len(ws) /\ DOMAIN new = DOMAIN ws
    /\ \A s \in DOMAIN ws : new[s] = IF t # None /\ s = t THEN ws[s] + 1 ELSE ws[s]

LEMMA Waits ==
    ASSUME NEW ws \in Seq(Nat), NEW t, t = None \/ t \in DOMAIN ws
    PROVE  OneMore(ws, t, Waiting(ws, t))
<1> DEFINE new == Waiting(ws, t)
<1>1. CASE t = None
  BY <1>1 DEF Waiting, OneMore
<1>2. CASE t # None
  <2> DEFINE w == ws[t] + 1
  <2>1. t \in 1..Len(ws) /\ w \in Nat /\ DOMAIN ws = 1..Len(ws)
    BY <1>2
  <2>2. new = [ws EXCEPT ![t] = w]
    BY <1>2 DEF Waiting
  <2> HIDE DEF w, new
  <2>3. /\ [ws EXCEPT ![t] = w] \in Seq(Nat) /\ Len([ws EXCEPT ![t] = w]) = Len(ws)
        /\ \A j \in 1..Len(ws) : [ws EXCEPT ![t] = w][j] = IF j = t THEN w ELSE ws[j]
    BY <2>1, ExceptSeq
  <2>4. \A j \in 1..Len(ws) : new[j] = IF j = t THEN w ELSE ws[j]
    BY <2>2, <2>3
  <2>5. new \in Seq(Nat) /\ Len(new) = Len(ws) /\ DOMAIN new = DOMAIN ws
    BY <2>1, <2>2, <2>3
  <2>6. OneMore(ws, t, new)
    BY <1>2, <2>1, <2>4, <2>5 DEF w, OneMore
  <2> QED BY <2>6 DEF new
<1> QED BY <1>1, <1>2

\* The next chunk is asked for, of the stream the chat reads now.
LEMMA NextKeeps ==
    ASSUME ChatInv, NEW c \in inbox, inbox' = inbox \ {c}, chat.streaming,
           NEW t, t = IF streams[c.s].stage = "sql" THEN chat.sqlCh ELSE chat.ch,
           waits' = Waiting(waits, t),
           messages' \in Seq(Message), OwnTokens',
           AnswersLast(messages, asked) => AnswersLast(messages', asked),
           UNCHANGED <<chat, streams, running, asked, interrupted>>, UNCHANGED fetch
    PROVE  ChatInv'
<1>0. TypeOK /\ ChatOK /\ StreamsOK /\ PullsOK /\ Named /\ ModelChosen /\ Calm /\ Stirred
  BY DEF ChatInv, TypeOK
<1>1. /\ streams \in Seq(Stream) /\ waits \in Seq(Nat) /\ Len(waits) = Len(streams)
      /\ DOMAIN waits = DOMAIN streams /\ DOMAIN streams = 1..Len(streams)
  BY <1>0 DEF StreamsOK
<1>2. t = None \/ t \in DOMAIN waits
  BY <1>0, <1>1 DEF ChatOK
<1>3. /\ waits' \in Seq(Nat) /\ Len(waits') = Len(waits) /\ DOMAIN waits' = DOMAIN waits
      /\ \A s \in DOMAIN waits : waits'[s] = IF t # None /\ s = t THEN waits[s] + 1 ELSE waits[s]
  <2>1. waits \in Seq(Nat)
    BY <1>1
  <2>2. OneMore(waits, t, waits')
    BY <1>2, <2>1, Waits
  <2> QED BY <2>2 DEF OneMore
<1>4. Steps' = Steps /\ Pulling' = Pulling
  BY DEF Steps, Pulling
<1>5. TypeOK'
  <2>1. ChatOK' /\ StreamsOK'
    BY <1>0, <1>1, <1>3 DEF ChatOK, StreamsOK
  <2>2. PullsOK'
    BY <1>0, <1>4, PullsKept
  <2> QED BY <1>0, <2>1, <2>2 DEF TypeOK
<1>6. \A q : Disturbed(q)' <=> Disturbed(q)
  BY DEF Disturbed
<1>7. \A s : (Current(s)' <=> Current(s)) /\ (Late(s)' <=> Late(s))
  BY <1>6 DEF Current, Late
<1>8. Calm'
  <2> SUFFICES ASSUME interrupted = {} PROVE Calm'
    BY DEF Calm
  <2>1. inbox = {c} /\ Steps = {} /\ Current(c.s) /\ \A s \in DOMAIN waits : ~(waits[s] > 0)
    BY OnlyThis
  <2>2. inbox' = {} /\ Steps' = {} /\ AnswersLast(messages', asked)
    BY <1>0, <1>4, <2>1 DEF Calm
  <2>3. c.s \in DOMAIN streams /\ streams[c.s].stage \in {"sql", "answer"}
    <3>1. c.s \in DOMAIN streams /\ streams[c.s] \in Stream
      BY <1>0, <1>1 DEF StreamsOK
    <3> QED BY <3>1 DEF Stream
  <2>4. t = c.s
    BY <2>1, <2>3 DEF Current
  <2>5. \A s \in DOMAIN waits : waits[s] \in Nat
    BY <1>1
  <2>6. \A s \in DOMAIN waits' : waits'[s] > 0 => s = t /\ waits'[s] = 1
    BY <1>3, <2>1, <2>5
  <2> QED BY <1>7, <2>1, <2>2, <2>4, <2>6 DEF Calm
<1>9. Stirred'
  <2> SUFFICES ASSUME interrupted # {} PROVE Stirred'
    BY DEF Stirred
  <2>1. t # None => Late(t)
    BY <1>0 DEF Stirred
  <2>2. \A s \in DOMAIN waits' : waits'[s] > 0 => Late(s)'
    BY <1>0, <1>3, <1>7, <2>1 DEF Stirred
  <2> QED BY <1>0, <1>4, <1>6, <1>7, <2>2 DEF Stirred
<1>10. Named' /\ ModelChosen'
  BY <1>0, <1>4, PullsKept
<1> QED BY <1>5, <1>8, <1>9, <1>10 DEF ChatInv

\* The query is complete and is run, beside the event loop.
LEMMA QueryKeeps ==
    ASSUME ChatInv, NEW c \in inbox, inbox' = inbox \ {c}, chat.streaming,
           streams[c.s].stage = "sql",
           chat' = [chat EXCEPT !.sqlCh = None],
           NEW ms \in Seq(Message), Own(ms),
           AnswersLast(messages, asked) => AnswersLast(ms, asked),
           messages' = WithoutLastNotice(ms),
           running' = running \cup {[cmd |-> "query", of |-> chat.current, s |-> c.s]},
           UNCHANGED <<streams, waits, asked, interrupted>>, UNCHANGED fetch
    PROVE  ChatInv'
<1> DEFINE k == [cmd |-> "query", of |-> chat.current, s |-> c.s]
<1>0. TypeOK /\ ChatOK /\ StreamsOK /\ PullsOK /\ Named /\ ModelChosen /\ OwnTokens /\ Calm /\ Stirred
      /\ chat \in Chat /\ c \in Chunk
  BY DEF ChatInv, TypeOK, ChatOK, StreamsOK
<1>1. k \in Command /\ k.cmd = "query" /\ k.of = chat.current
  BY <1>0 DEF Command, Chat, Chunk
<1>2. /\ chat' \in Chat /\ chat'.streaming /\ chat'.sqlCh = None /\ chat'.ch = chat.ch
      /\ chat'.cancel = chat.cancel /\ chat'.current = chat.current
  BY <1>0 DEF Chat, None
<1>3. messages' \in Seq(Message) /\ Own(messages')
      /\ (AnswersLast(messages, asked) => AnswersLast(messages', asked))
  BY NoticeGone, FromOwn
<1> HIDE DEF k
<1>4. Steps' = Steps \cup {k} /\ Pulling' = Pulling /\ (running \subseteq Command)'
  <2>1. running' = running \cup {k}
    BY DEF k
  <2> QED BY <1>0, <1>1, <2>1 DEF Steps, Pulling, TypeOK
<1>5. TypeOK'
  <2>1. ChatOK'
    BY <1>0, <1>2 DEF ChatOK
  <2>2. StreamsOK'
    BY <1>0 DEF StreamsOK
  <2>3. PullsOK'
    BY <1>0, <1>4, PullsKept
  <2> QED BY <1>0, <1>3, <1>4, <2>1, <2>2, <2>3 DEF TypeOK
<1>6. \A q : Disturbed(q)' <=> Disturbed(q)
  BY DEF Disturbed
<1>7. \A s : Late(s)' <=> Late(s)
  BY <1>2, <1>6 DEF Late
<1>8. Calm'
  <2> SUFFICES ASSUME interrupted = {} PROVE Calm'
    BY DEF Calm
  <2>1. inbox = {c} /\ Steps = {} /\ Current(c.s) /\ \A s \in DOMAIN waits : ~(waits[s] > 0)
    BY OnlyThis
  <2>2. inbox' = {} /\ Steps' = {k} /\ AnswersLast(messages', asked) /\ k.of = asked
        /\ chat'.current = asked
    BY <1>0, <1>1, <1>2, <1>3, <1>4, <2>1 DEF Calm, Current
  <2> QED BY <1>2, <2>1, <2>2 DEF Calm
<1>9. Stirred'
  <2> SUFFICES ASSUME interrupted # {} PROVE Stirred'
    BY DEF Stirred
  <2>1. Disturbed(k.of)
    BY <1>0, <1>1 DEF Stirred, Late
  <2> QED BY <1>0, <1>2, <1>4, <1>6, <1>7, <2>1 DEF Stirred
<1>10. OwnTokens'
  BY <1>3, OwnNext
<1>11. Named' /\ ModelChosen'
  BY <1>0, <1>4, PullsKept
<1> QED BY <1>5, <1>8, <1>9, <1>10, <1>11 DEF ChatInv

\* The handler gives up: an error stands where the answer would have been.
LEMMA GivesUpKeeps ==
    ASSUME ChatInv, NEW c \in inbox, inbox' = inbox \ {c},
           NEW ss \in {chat.sqlCh, None}, NEW ms \in Seq(Message), Own(ms),
           GivesUp(ss, ms), UNCHANGED <<asked, interrupted>>, UNCHANGED fetch
    PROVE  ChatInv'
<1>1. TypeOK /\ ChatOK /\ StreamsOK /\ chat \in Chat /\ streams \in Seq(Stream)
      /\ chat.cancel \in 0..Len(streams)
  BY DEF ChatInv, TypeOK, ChatOK, StreamsOK
<1>2. /\ chat' = [chat EXCEPT !.streaming = FALSE, !.cancel = None, !.sqlCh = ss]
      /\ streams' = Cancels(streams, chat.cancel) /\ messages' = Failed(ms)
      /\ UNCHANGED <<waits, running>>
  BY DEF GivesUp
<1>3. ss \in Nat
  BY <1>1 DEF Chat, None
<1>4. /\ chat' \in Chat /\ ~chat'.streaming /\ chat'.cancel = None /\ chat'.sqlCh = ss
      /\ chat'.ch = chat.ch /\ chat'.current = chat.current
  BY <1>1, <1>2, <1>3 DEF Chat, None
<1>5. SameStreams(streams, streams')
  BY <1>1, <1>2, Cancelling
<1>6. messages' \in Seq(Message) /\ Own(messages')
  BY <1>2, Fails, FromOwn
<1>7. OwnTokens'
  BY <1>6, OwnNext
<1> QED BY <1>2, <1>4, <1>5, <1>6, <1>7, OverKeeps

LEMMA SQLChunkKeeps ==
    ASSUME ChatInv, NEW c \in inbox, HandleSQLChunk(c)
    PROVE  ChatInv'
<1> DEFINE ms == WithToken(messages, "sql", streams[c.s].of)
<1>1. /\ streams[c.s].stage = "sql" /\ inbox' = inbox \ {c}
      /\ UNCHANGED <<asked, interrupted>> /\ UNCHANGED fetch
  BY DEF HandleSQLChunk
<1>2. TypeOK /\ chat \in Chat /\ messages \in Seq(Message) /\ Own(messages) /\ OwnTokens
  BY DEF ChatInv, TypeOK, ChatOK, Own, OwnTokens
<1>3. CASE ~chat.streaming /\ UNCHANGED <<chat, messages, streams, waits, running>>
  <2>1. SameStreams(streams, streams')
    BY <1>2, <1>3 DEF TypeOK, StreamsOK, SameStreams
  <2>2. OwnTokens'
    BY <1>1, <1>2, <1>3, OwnNext
  <2> QED BY <1>1, <1>2, <1>3, <2>1, <2>2, OverKeeps
<1>4. CASE chat.streaming /\ GivesUp(chat.sqlCh, messages)
  BY <1>1, <1>2, <1>4, GivesUpKeeps
<1>5. ASSUME chat.streaming
      PROVE  /\ ms \in Seq(Message) /\ Own(ms)
             /\ AnswersLast(messages, asked) => AnswersLast(ms, asked)
  BY <1>5, TokenOwn
<1>6. CASE chat.streaming /\ SQLText(c, ms)
  <2>1. messages' = ms /\ waits' = Waiting(waits, chat.sqlCh) /\ UNCHANGED <<chat, streams, running>>
    BY <1>6 DEF SQLText
  <2> HIDE DEF ms
  <2>2. OwnTokens'
    BY <1>1, <1>5, <1>6, <2>1, OwnNext
  <2> QED BY <1>1, <1>5, <1>6, <2>1, <2>2, NextKeeps
<1>7. CASE chat.streaming /\ GivesUp(None, ms)
  <2> HIDE DEF ms
  <2> QED BY <1>1, <1>5, <1>7, GivesUpKeeps
<1>8. CASE /\ chat.streaming
           /\ chat' = [chat EXCEPT !.sqlCh = None]
           /\ messages' = WithoutLastNotice(ms)
           /\ running' = running \cup {[cmd |-> "query", of |-> chat.current, s |-> c.s]}
           /\ UNCHANGED <<streams, waits>>
  <2> HIDE DEF ms
  <2> QED BY <1>1, <1>5, <1>8, QueryKeeps
<1>9. \/ ~chat.streaming /\ UNCHANGED <<chat, messages, streams, waits, running>>
      \/ /\ chat.streaming
         /\ GivesUp(chat.sqlCh, messages) \/ SQLText(c, ms) \/ SQLDone(c, ms)
  BY DEF HandleSQLChunk
<1> HIDE DEF ms
<1>10. SQLDone(c, ms) =>
          \/ GivesUp(None, ms)
          \/ /\ chat' = [chat EXCEPT !.sqlCh = None]
             /\ messages' = WithoutLastNotice(ms)
             /\ running' = running \cup {[cmd |-> "query", of |-> chat.current, s |-> c.s]}
             /\ UNCHANGED <<streams, waits>>
  BY DEF SQLDone
<1> QED BY <1>3, <1>4, <1>6, <1>7, <1>8, <1>9, <1>10

LEMMA ChatChunkKeeps ==
    ASSUME ChatInv, NEW c \in inbox, HandleChatChunk(c)
    PROVE  ChatInv'
<1> DEFINE ms == WithToken(messages, "text", streams[c.s].of)
           m  == Says("error", 0)
<1>1. /\ streams[c.s].stage = "answer" /\ inbox' = inbox \ {c}
      /\ UNCHANGED <<streams, running, asked, interrupted>> /\ UNCHANGED fetch
  BY DEF HandleChatChunk
<1>2. TypeOK /\ chat \in Chat /\ messages \in Seq(Message) /\ Own(messages) /\ OwnTokens
  BY DEF ChatInv, TypeOK, ChatOK, Own, OwnTokens
<1>3. SameStreams(streams, streams')
  BY <1>1, <1>2 DEF TypeOK, StreamsOK, SameStreams
<1>4. CASE ~chat.streaming /\ UNCHANGED <<chat, messages, waits>>
  <2>1. OwnTokens'
    BY <1>1, <1>2, <1>4, OwnNext
  <2> QED BY <1>1, <1>2, <1>3, <1>4, <2>1, OverKeeps
<1>5. ASSUME chat.streaming
      PROVE  /\ ms \in Seq(Message) /\ Own(ms)
             /\ AnswersLast(messages, asked) => AnswersLast(ms, asked)
  BY <1>5, TokenOwn
<1>6. CASE chat.streaming /\ messages' = ms /\ waits' = Waiting(waits, chat.ch) /\ UNCHANGED chat
  <2> HIDE DEF ms
  <2>1. OwnTokens'
    BY <1>1, <1>5, <1>6, OwnNext
  <2> QED BY <1>1, <1>5, <1>6, <2>1, NextKeeps
<1>7. CASE /\ chat.streaming
           /\ chat' = [chat EXCEPT !.streaming = FALSE, !.cancel = None]
           /\ messages' = ms \/ messages' = Append(messages, m)
           /\ UNCHANGED waits
  <2>1. /\ chat' \in Chat /\ ~chat'.streaming /\ chat'.cancel = None /\ chat'.sqlCh = chat.sqlCh
        /\ chat'.ch = chat.ch /\ chat'.current = chat.current
    BY <1>2, <1>7 DEF Chat, None
  <2>2. m \in Message /\ m.sql = {} /\ m.text = {}
    BY Says1
  <2> HIDE DEF ms, m
  <2>3. messages' \in Seq(Message) /\ Own(messages')
    <3>1. Append(messages, m) \in Seq(Message) /\ From(messages, Append(messages, m))
      BY <1>2, <2>2, Appended
    <3>2. Own(Append(messages, m))
      BY <1>2, <3>1, FromOwn
    <3> QED BY <1>5, <1>7, <3>1, <3>2
  <2>4. OwnTokens'
    BY <1>1, <2>3, OwnNext
  <2> QED BY <1>1, <1>3, <1>7, <2>1, <2>3, <2>4, OverKeeps
<1> QED BY <1>4, <1>6, <1>7 DEF HandleChatChunk

-----------------------------------------------------------------------------
(* Cancelling. *)

LEMMA CancelsPull ==
    ASSUME PullsOK, Named, ModelChosen,
           pull' = IF pull.active THEN NoPull ELSE pull,
           pulls' = IF pull.active /\ pull.cancel # None
                    THEN [pulls EXCEPT ![pull.cancel].open = FALSE] ELSE pulls,
           UNCHANGED <<running, model, chosen>>
    PROVE  PullsOK' /\ Named' /\ ModelChosen'
<1>1. /\ pulls \in Seq(Pull) /\ DOMAIN pulls = 1..Len(pulls) /\ Len(pulls) \in Nat
      /\ pull.cancel \in 0..Len(pulls) /\ Pulling' = Pulling
      /\ pull \in [active : BOOLEAN, fromChat : BOOLEAN, cancel : Nat]
  BY DEF PullsOK, Pulling
<1>2. /\ pulls' \in Seq(Pull) /\ Len(pulls') = Len(pulls) /\ DOMAIN pulls' = DOMAIN pulls
      /\ \A i \in DOMAIN pulls : pulls'[i].model = pulls[i].model
  <2>1. CASE pull.active /\ pull.cancel # None
    <3>1. pull.cancel \in 1..Len(pulls)
      BY <1>1, <2>1 DEF None
    <3> DEFINE new == [pulls EXCEPT ![pull.cancel].open = FALSE]
    <3>2. /\ new \in Seq(Pull) /\ Len(new) = Len(pulls) /\ DOMAIN new = DOMAIN pulls
          /\ \A i \in DOMAIN pulls : new[i].model = pulls[i].model
      BY <1>1, <3>1, Closed
    <3>3. pulls' = new
      BY <2>1
    <3> HIDE DEF new
    <3> QED BY <3>2, <3>3
  <2>2. CASE ~(pull.active /\ pull.cancel # None)
    BY <1>1, <2>2
  <2> QED BY <2>1, <2>2
<1>3. /\ pull' \in [active : BOOLEAN, fromChat : BOOLEAN, cancel : Nat]
      /\ pull'.cancel \in 0..Len(pulls) /\ (pull'.fromChat => pull.fromChat)
  BY <1>1 DEF NoPull, None
<1>4. PullsOK'
  BY <1>1, <1>2, <1>3 DEF PullsOK
<1> QED BY <1>1, <1>2, <1>3, <1>4 DEF Named, ModelChosen, PullsOK

\* Whatever is cancelled, and whether the overlay is shown or not
LEMMA CancelKeeps ==
    ASSUME ChatInv, NEW visibleAfter \in BOOLEAN, CancelChatOperations(visibleAfter)
    PROVE  ChatInv'
<1> DEFINE stopped == IF chat.streaming /\ chat.visible THEN Interrupts(messages) ELSE messages
           m == Says("notice", 0)
<1>0. /\ TypeOK /\ ChatOK /\ StreamsOK /\ PullsOK /\ Named /\ ModelChosen
      /\ OwnTokens /\ Calm /\ Stirred /\ chat \in Chat
  BY DEF ChatInv, TypeOK, ChatOK
<1>1. /\ chat' = IF chat.streaming
                 THEN [chat EXCEPT !.streaming = FALSE, !.sqlCh = None, !.ch = None,
                                   !.cancel = None, !.visible = visibleAfter]
                 ELSE [chat EXCEPT !.visible = visibleAfter]
      /\ streams' = IF chat.streaming THEN Cancels(streams, chat.cancel) ELSE streams
      /\ interrupted' = IF chat.streaming THEN interrupted \cup {asked} ELSE interrupted
      /\ messages' = stopped \/ messages' = Append(stopped, m)
      /\ UNCHANGED <<waits, running, inbox, model, asked, chosen>>
  BY DEF CancelChatOperations
<1>2. PullsOK' /\ Named' /\ ModelChosen'
  <2>1. /\ pull' = IF pull.active THEN NoPull ELSE pull
        /\ pulls' = IF pull.active /\ pull.cancel # None
                    THEN [pulls EXCEPT ![pull.cancel].open = FALSE] ELSE pulls
    BY DEF CancelChatOperations
  <2> QED BY <1>0, <1>1, <2>1, CancelsPull
<1>3. Steps' = Steps
  BY <1>1 DEF Steps
<1>4. /\ streams \in Seq(Stream) /\ SameStreams(streams, streams') /\ streams' \in Seq(Stream)
      /\ Len(streams') = Len(streams) /\ DOMAIN streams' = DOMAIN streams
      /\ DOMAIN waits = DOMAIN streams /\ Len(streams) \in Nat
  <2>1. streams \in Seq(Stream) /\ chat.cancel \in 0..Len(streams)
        /\ DOMAIN waits = DOMAIN streams
    BY <1>0 DEF StreamsOK, ChatOK
  <2>2. SameStreams(streams, streams')
    BY <1>1, <2>1, Cancelling DEF SameStreams
  <2> QED BY <2>1, <2>2 DEF SameStreams
<1>5. \A s \in DOMAIN streams : streams'[s].of = streams[s].of /\ streams'[s].stage = streams[s].stage
  BY <1>4 DEF SameStreams
<1>6. messages' \in Seq(Message) /\ From(messages, messages')
  <2>1. messages \in Seq(Message) /\ m \in Message /\ m.sql = {} /\ m.text = {}
    BY <1>0, Says1 DEF TypeOK, Notices
  <2>2. stopped \in Seq(Message) /\ From(messages, stopped)
    BY <2>1, Stops, FromSelf
  <2> HIDE DEF stopped, m
  <2>3. Append(stopped, m) \in Seq(Message) /\ From(stopped, Append(stopped, m))
    BY <2>1, <2>2, Appended
  <2>4. From(messages, Append(stopped, m))
    BY <2>1, <2>2, <2>3, FromFrom
  <2> QED BY <1>1, <2>2, <2>3, <2>4
<1> HIDE DEF stopped, m
<1>7. /\ chat' \in Chat /\ chat'.current = chat.current
      /\ ~chat'.streaming
      /\ chat'.cancel \in {chat.cancel, None}
      /\ chat.streaming => chat'.sqlCh = None /\ chat'.ch = None
      /\ ~chat.streaming => chat'.sqlCh = chat.sqlCh /\ chat'.ch = chat.ch
  <2>1. CASE chat.streaming
    BY <1>0, <1>1, <2>1 DEF Chat, None
  <2>2. CASE ~chat.streaming
    BY <1>0, <1>1, <2>2 DEF Chat
  <2> QED BY <2>1, <2>2
<1>8. TypeOK'
  <2>1. chat'.cancel \in 0..Len(streams')
    BY <1>0, <1>4, <1>7 DEF ChatOK, None
  <2>2. (chat.sqlCh # None => chat.sqlCh \in DOMAIN streams /\ streams[chat.sqlCh].stage = "sql")'
    BY <1>0, <1>4, <1>5, <1>7 DEF ChatOK
  <2>3. (chat.ch # None => chat.ch \in DOMAIN streams /\ streams[chat.ch].stage = "answer")'
    BY <1>0, <1>4, <1>5, <1>7 DEF ChatOK
  <2>4. ChatOK'
    BY <1>7, <2>1, <2>2, <2>3 DEF ChatOK
  <2>5. StreamsOK'
    BY <1>0, <1>1, <1>4 DEF StreamsOK
  <2>6. interrupted' \subseteq 0..asked'
    BY <1>0, <1>1 DEF TypeOK
  <2> QED BY <1>0, <1>1, <1>2, <1>6, <2>4, <2>5, <2>6 DEF TypeOK
<1>9. Calm'
  <2> SUFFICES ASSUME interrupted' = {} PROVE Calm'
    BY DEF Calm
  <2>1. interrupted = {} /\ ~chat.streaming
    BY <1>1
  <2>2. Steps = {} /\ inbox = {} /\ \A s \in DOMAIN waits : ~(waits[s] > 0)
    BY <1>0, <2>1 DEF Calm, Current
  <2> QED BY <1>1, <1>3, <1>7, <2>2 DEF Calm
<1>10. \A q : Disturbed(q) => Disturbed(q)'
  BY <1>1 DEF Disturbed
<1>11. \A s \in DOMAIN streams : Late(s) => Late(s)'
  BY <1>5, <1>7, <1>10 DEF Late
<1>12. Stirred'
  <2> SUFFICES ASSUME interrupted' # {} PROVE Stirred'
    BY DEF Stirred
  <2>1. CASE interrupted # {}
    <3>1. \A s \in DOMAIN waits' : waits'[s] > 0 => Late(s)'
      BY <1>0, <1>1, <1>4, <1>11, <2>1 DEF Stirred
    <3>2. \A d \in inbox' : Late(d.s)'
      BY <1>0, <1>1, <1>11, <2>1 DEF Stirred, StreamsOK
    <3>3. (\A d \in Steps : Disturbed(d.of))'
      BY <1>0, <1>3, <1>10, <2>1 DEF Stirred
    <3>4. (chat.sqlCh # None => Late(chat.sqlCh))'
      BY <1>0, <1>7, <1>11, <2>1 DEF Stirred, ChatOK
    <3>5. (chat.ch # None => Late(chat.ch))'
      BY <1>0, <1>7, <1>11, <2>1 DEF Stirred, ChatOK
    <3> QED BY <3>1, <3>2, <3>3, <3>4, <3>5 DEF Stirred
  <2>2. CASE interrupted = {}
    <3>1. chat.streaming
      BY <1>1, <2>2
    <3>2. Disturbed(asked)'
      BY <1>0, <1>1, <3>1 DEF TypeOK, Disturbed
    <3>3. \A s \in DOMAIN streams : Current(s) => Late(s)'
      BY <1>1, <1>5, <1>7, <3>2 DEF Current, Late
    <3>4. \A s \in DOMAIN waits' : waits'[s] > 0 => Late(s)'
      BY <1>0, <1>1, <1>4, <2>2, <3>3 DEF Calm
    <3>5. \A d \in inbox' : Late(d.s)'
      BY <1>0, <1>1, <2>2, <3>3 DEF Calm, StreamsOK
    <3>6. (\A d \in Steps : Disturbed(d.of))'
      BY <1>0, <1>1, <1>3, <2>2, <3>2 DEF Calm
    <3>7. chat'.sqlCh = None /\ chat'.ch = None
      BY <1>7, <3>1
    <3> QED BY <3>4, <3>5, <3>6, <3>7 DEF Stirred
  <2> QED BY <2>1, <2>2
<1>13. OwnTokens'
  BY <1>0, <1>1, <1>6, OwnStays
<1> QED BY <1>2, <1>8, <1>9, <1>12, <1>13 DEF ChatInv

-----------------------------------------------------------------------------
(* The specification. *)

LEMMA ChatNext ==
    ASSUME ChatInv, [Next]_vars
    PROVE  ChatInv'
<1>1. CASE Ask
  BY <1>1, AskKeeps
<1>2. CASE Cancel \/ HideChat
  <2>1. chat.visible \in BOOLEAN
    BY DEF ChatInv, TypeOK, ChatOK, Chat
  <2> QED BY <1>2, <2>1, CancelKeeps DEF Cancel, HideChat
<1>3. CASE OpenChat
  BY <1>3, OpenChatKeeps
<1>4. CASE \E name \in Models : SwitchModel(name)
  BY <1>4, SwitchKeeps
<1>5. CASE CheckExtractionModel
  BY <1>5, CheckExtractionKeeps
<1>6. CASE Answers
  <2>1. ASSUME NEW s \in DOMAIN streams, ReadClosed(s) PROVE ChatInv'
    BY <2>1, ReadClosedKeeps
  <2>2. ASSUME NEW s \in DOMAIN streams, NEW kind \in {"text", "done", "error"}, ReadChunk(s, kind)
        PROVE  ChatInv'
    BY <2>2, ReadChunkKeeps
  <2>3. ASSUME NEW c \in inbox, HandleSQLChunk(c) \/ HandleChatChunk(c) PROVE ChatInv'
    BY <2>3, SQLChunkKeeps, ChatChunkKeeps
  <2>4. ASSUME NEW c \in running,
               StartSQLStream(c) \/ HandleSQLResult(c) \/ CheckModel(c) \/ ReadPull(c)
        PROVE  ChatInv'
    BY <2>4, StartKeeps, SQLResultKeeps, CheckModelKeeps, ReadPullKeeps
  <2> QED BY <1>6, <2>1, <2>2, <2>3, <2>4 DEF Answers
<1>7. CASE UNCHANGED vars
  <2>1. /\ UNCHANGED <<chat, messages, streams, waits, running, inbox>>
        /\ UNCHANGED <<asked, interrupted>> /\ UNCHANGED fetch
    BY <1>7 DEF vars, fetch
  <2>2. Steps' = Steps /\ Pulling' = Pulling
    BY <2>1 DEF Steps, Pulling
  <2>3. PullsOK' /\ Named' /\ ModelChosen' /\ (running \subseteq Command)'
    BY <2>1, <2>2, PullsKept DEF ChatInv, TypeOK
  <2> QED BY <2>1, <2>2, <2>3, PullingKeeps
<1> QED BY <1>1, <1>2, <1>3, <1>4, <1>5, <1>6, <1>7 DEF Next

LEMMA ChatAlways == Spec => []ChatInv
BY ChatInit, ChatNext, PTL DEF Spec

\* The conversation, the streams and the pulls stay well-formed: every channel
\* the chat holds, and every chunk on its way, is of a stream that was opened,
\* of the stage it is read as.
THEOREM ChatTypeCorrect == Spec => []TypeOK
<1>1. ChatInv => TypeOK
  BY DEF ChatInv
<1> QED BY <1>1, ChatAlways, PTL

\* Whatever is asked, cancelled, hidden, pulled and switched, in any order and
\* however often: an answer shows no other question's tokens unless something
\* up to it was interrupted, no stream runs on that the chat could not cancel,
\* and the chat's model is one that was chosen.
THEOREM AffairsStayOwn == Spec => []OwnAffairs
<1>1. ChatInv => OwnAffairs
  <2> SUFFICES ASSUME ChatInv PROVE OwnAffairs
    OBVIOUS
  <2>1. OwnTokens /\ ModelChosen /\ Calm /\ StreamsOK
    BY DEF ChatInv, TypeOK
  <2>2. DOMAIN waits = DOMAIN streams
    BY <2>1 DEF StreamsOK
  <2>3. NoOrphans
    BY <2>1, <2>2 DEF NoOrphans, Calm, Current
  <2> QED BY <2>1, <2>3 DEF OwnAffairs
<1> QED BY <1>1, ChatAlways, PTL

-----------------------------------------------------------------------------
(***************************************************************************)
(* Proofs about SearchIndex, for any tables, rows, texts and questions and *)
(* for any number of writes and openings: the entities' index follows the  *)
(* tables, a document is found by the text it has, and a question is       *)
(* answered with a row of every kind.                                      *)
(*                                                                         *)
(* While no process opens the database the first needs all triggers to be  *)
(* there; SetUpFollows says what of the index and of the triggers is there *)
(* after each statement of a set-up that no write overlaps, so that all is *)
(* when it is done.                                                        *)
(***************************************************************************)


-----------------------------------------------------------------------------
(***************************************************************************)
(* The best matches.                                                       *)
(***************************************************************************)

\* Of some rows one is matched best, and one worst.
LEMMA LeastScore ==
    ASSUME NEW S \in SUBSET Rows, S # {}
    PROVE  /\ \E r \in S : \A x \in S : Score[r] <= Score[x]
           /\ \E r \in S : \A x \in S : Score[x] <= Score[r]
<1> DEFINE Below(r) == {x \in S : Score[x] < Score[r]}
           Above(r) == {x \in S : Score[x] > Score[r]}
           R == StrictSubsetOrdering(S)
<1>1. IsFiniteSet(S)
  BY SearchAssumption, FS_Subset
<1>2. \A r \in S : Score[r] \in Nat
  BY SearchAssumption
<1>3. IsWellFoundedOn(R, SUBSET S)
  BY <1>1, FS_StrictSubsetOrderingWellFounded, FS_FiniteSubsetsOfFinite
<1>4. \A u, w \in SUBSET S : u \subseteq w /\ u # w => <<u, w>> \in R
  BY DEF StrictSubsetOrdering
<1> HIDE DEF R
<1>5. \E r \in S : \A x \in S : Score[r] <= Score[x]
  <2> DEFINE T == {Below(r) : r \in S}
  <2>1. T \subseteq SUBSET S /\ T # {}
    OBVIOUS
  <2>2. PICK w \in T : \A u \in T : ~(<<u, w>> \in R)
    BY <1>3, <2>1, WFMin
  <2>3. PICK r \in S : w = Below(r)
    BY <2>2
  <2>4. \A x \in S : Score[r] <= Score[x]
    <3> SUFFICES ASSUME NEW x \in S, Score[x] < Score[r]
                 PROVE  FALSE
      BY <1>2
    <3>1. Below(x) \subseteq Below(r) /\ x \in Below(r) /\ x \notin Below(x)
      BY <1>2
    <3>2. Below(x) \in T /\ Below(x) \in SUBSET S /\ Below(r) \in SUBSET S
      OBVIOUS
    <3> QED
      <4> HIDE DEF Below, T
      <4> QED BY <1>4, <2>2, <2>3, <3>1, <3>2
  <2> QED BY <2>4
<1>6. \E r \in S : \A x \in S : Score[x] <= Score[r]
  <2> DEFINE T == {Above(r) : r \in S}
  <2>1. T \subseteq SUBSET S /\ T # {}
    OBVIOUS
  <2>2. PICK w \in T : \A u \in T : ~(<<u, w>> \in R)
    BY <1>3, <2>1, WFMin
  <2>3. PICK r \in S : w = Above(r)
    BY <2>2
  <2>4. \A x \in S : Score[x] <= Score[r]
    <3> SUFFICES ASSUME NEW x \in S, Score[x] > Score[r]
                 PROVE  FALSE
      BY <1>2
    <3>1. Above(x) \subseteq Above(r) /\ x \in Above(r) /\ x \notin Above(x)
      BY <1>2
    <3>2. Above(x) \in T /\ Above(x) \in SUBSET S /\ Above(r) \in SUBSET S
      OBVIOUS
    <3> QED
      <4> HIDE DEF Above, T
      <4> QED BY <1>4, <2>2, <2>3, <3>1, <3>2
  <2> QED BY <2>4
<1> QED BY <1>5, <1>6

LEMMA PlaceType ==
    ASSUME NEW S \in SUBSET Rows, NEW r \in Rows
    PROVE  PlaceIn(r, S) \in Nat /\ PlaceIn(r, S) <= Cardinality(S) /\ PlaceInKind(r, S) \in Nat
<1>1. \A A \in SUBSET Rows : PlaceIn(r, A) \in Nat /\ PlaceIn(r, A) <= Cardinality(A)
  <2> TAKE A \in SUBSET Rows
  <2>1. IsFiniteSet(A)
    BY SearchAssumption, FS_Subset
  <2>2. {x \in A : Score[x] <= Score[r]} \in SUBSET A
    OBVIOUS
  <2>3. /\ IsFiniteSet({x \in A : Score[x] <= Score[r]})
        /\ Cardinality({x \in A : Score[x] <= Score[r]}) <= Cardinality(A)
    BY <2>1, <2>2, FS_Subset
  <2> QED BY <2>3, FS_CardinalityType DEF PlaceIn
<1> QED BY <1>1 DEF PlaceInKind

LEMMA BestAtMost ==
    ASSUME NEW S \in SUBSET Rows, NEW n \in Nat
    PROVE  /\ BestOf(S, n) \in SUBSET S
           /\ Cardinality(BestOf(S, n)) \in Nat /\ Cardinality(BestOf(S, n)) <= n
           /\ Cardinality(S) <= n => BestOf(S, n) = S
<1>1. BestOf(S, n) \in SUBSET S
  BY DEF BestOf
<1>2. IsFiniteSet(S) /\ IsFiniteSet(BestOf(S, n))
  BY <1>1, SearchAssumption, FS_Subset
<1>3. Cardinality(BestOf(S, n)) \in Nat /\ Cardinality(S) \in Nat
  BY <1>2, FS_CardinalityType
<1>4. Cardinality(BestOf(S, n)) <= n
  <2>1. CASE BestOf(S, n) = {}
    BY <2>1, FS_EmptySet
  <2>2. CASE BestOf(S, n) # {}
    <3>1. PICK r \in BestOf(S, n) : \A x \in BestOf(S, n) : Score[x] <= Score[r]
      BY <1>1, <2>2, LeastScore
    <3> DEFINE A == {x \in S : Score[x] <= Score[r]}
    <3>2. BestOf(S, n) \in SUBSET A
      BY <1>1, <3>1
    <3>3. IsFiniteSet(A)
      BY <1>2, FS_Subset
    <3>4. Cardinality(BestOf(S, n)) <= Cardinality(A) /\ Cardinality(A) \in Nat
      BY <3>2, <3>3, FS_Subset, FS_CardinalityType
    <3>5. Cardinality(A) <= n
      BY <3>1 DEF BestOf, PlaceIn
    <3> QED
      <4> HIDE DEF A
      <4> QED BY <1>3, <3>4, <3>5
  <2> QED BY <2>1, <2>2
<1>5. ASSUME Cardinality(S) <= n PROVE BestOf(S, n) = S
  <2>1. \A r \in S : PlaceIn(r, S) <= n
    BY <1>3, <1>5, PlaceType
  <2> QED BY <2>1 DEF BestOf
<1> QED BY <1>1, <1>3, <1>4, <1>5

\* Each kind of rows has one that is matched best of its kind.
LEMMA FirstOfKind ==
    ASSUME NEW S \in SUBSET Rows
    PROVE  LET first == {r \in S : PlaceInKind(r, S) = 1}
               kinds == {KindOf[r] : r \in S}
           IN  /\ \A r \in S : \E f \in first : KindOf[f] = KindOf[r]
               /\ Cardinality(first) \in Nat /\ Cardinality(first) <= Cardinality(kinds)
<1> DEFINE first == {r \in S : PlaceInKind(r, S) = 1}
           kinds == {KindOf[r] : r \in S}
           Same(r) == {x \in S : KindOf[x] = KindOf[r]}
           Better(r) == {x \in Same(r) : Score[x] <= Score[r]}
<1>1. \A r \in S : Score[r] \in Nat
  BY SearchAssumption
<1>2. \A a, b \in S : Score[a] = Score[b] => a = b
  BY SearchAssumption DEF IsInjective
<1>3. \A r \in S : IsFiniteSet(Better(r)) /\ PlaceInKind(r, S) = Cardinality(Better(r))
  <2>1. IsFiniteSet(S)
    BY SearchAssumption, FS_Subset
  <2> TAKE r \in S
  <2>2. Better(r) \in SUBSET S
    OBVIOUS
  <2> QED BY <2>1, <2>2, FS_Subset DEF PlaceInKind, PlaceIn
<1>4. \A r \in S : \E f \in first : KindOf[f] = KindOf[r]
  <2> TAKE r \in S
  <2>1. Same(r) \in SUBSET Rows /\ Same(r) # {}
    OBVIOUS
  <2>2. PICK f \in Same(r) : \A x \in Same(r) : Score[f] <= Score[x]
    BY <2>1, LeastScore
  <2>3. f \in S /\ KindOf[f] = KindOf[r] /\ Same(f) = Same(r)
    OBVIOUS
  <2>4. Better(f) = {f}
    BY <1>1, <1>2, <2>2, <2>3
  <2>5. PlaceInKind(f, S) = 1
    <3> HIDE DEF Better
    <3> QED BY <1>3, <2>3, <2>4, FS_Singleton
  <2> QED BY <2>3, <2>5
<1>5. \A a, b \in first : KindOf[a] = KindOf[b] => a = b
  <2>1. ASSUME NEW a \in first, NEW b \in first, KindOf[a] = KindOf[b], Score[a] <= Score[b]
        PROVE  a = b
    <3>1. a \in Better(b) /\ b \in Better(b)
      BY <1>1, <2>1
    <3>2. IsFiniteSet(Better(b)) /\ Cardinality(Better(b)) = 1
      BY <1>3
    <3>3. PICK x : Better(b) = {x}
      <4> HIDE DEF Better
      <4> QED BY <3>2, FS_Singleton
    <3> QED
      <4> HIDE DEF Better
      <4> QED BY <3>1, <3>3
  <2> QED BY <1>1, <2>1
<1>6. IsFiniteSet(first) /\ IsFiniteSet(kinds)
  <2>1. IsFiniteSet(S)
    BY SearchAssumption, FS_Subset
  <2> DEFINE g == [r \in S |-> KindOf[r]]
  <2>2. g \in Surjection(S, kinds)
    BY DEF Surjection
  <2> QED
    <3>1. first \in SUBSET S
      OBVIOUS
    <3> HIDE DEF g, kinds, first
    <3> QED BY <2>1, <2>2, <3>1, FS_Surjection, FS_Subset
<1>7. Cardinality(first) <= Cardinality(kinds)
  <2> DEFINE g == [r \in first |-> KindOf[r]]
  <2>1. g \in Injection(first, kinds)
    <3>1. g \in [first -> kinds]
      OBVIOUS
    <3>2. \A a, b \in DOMAIN g : g[a] = g[b] => a = b
      BY <1>5
    <3> QED
      <4> HIDE DEF g
      <4> QED BY <3>1, <3>2 DEF Injection, IsInjective
  <2> QED
    <3> HIDE DEF g, kinds, first
    <3> QED BY <1>6, <2>1, FS_Injection
<1>8. Cardinality(first) \in Nat
  BY <1>6, FS_CardinalityType
<1> QED BY <1>4, <1>7, <1>8

\* The best matches of some rows are at most Total, and of every kind if there
\* is room for one of each.
LEMMA MatchesOfAllKinds ==
    ASSUME NEW S \in SUBSET Rows
    PROVE  /\ BestMatches(S) \in SUBSET S
           /\ IsFiniteSet(BestMatches(S)) /\ Cardinality(BestMatches(S)) <= Total
           /\ Cardinality({KindOf[r] : r \in S}) <= Total =>
                  \A r \in S : \E f \in BestMatches(S) : KindOf[f] = KindOf[r]
<1> DEFINE tier1 == {r \in S : PlaceInKind(r, S) = 1}
           some  == {r \in S : PlaceInKind(r, S) \in 2..PerKind}
           room2 == Less(Total, Cardinality(tier1))
           tier2 == BestOf(some, room2)
           rest  == {r \in S : PlaceInKind(r, S) > PerKind}
           room3 == Less(Total, Cardinality(tier1) + Cardinality(tier2))
           tier3 == BestOf(rest, room3)
           all   == tier1 \cup tier2 \cup tier3
<1>1. BestMatches(S) = BestOf(all, Total)
  BY DEF BestMatches
<1>2. Total \in Nat /\ IsFiniteSet(Rows)
  BY SearchAssumption
<1>3. \A n \in Nat : Less(Total, n) \in Nat /\ (n <= Total => n + Less(Total, n) = Total)
  BY <1>2 DEF Less
<1>4. tier1 \in SUBSET S /\ Cardinality(tier1) \in Nat
  BY FirstOfKind
<1>5. some \in SUBSET Rows /\ rest \in SUBSET Rows /\ some \in SUBSET S /\ rest \in SUBSET S
  OBVIOUS
<1> HIDE DEF tier1, some, rest
<1>6. room2 \in Nat
  BY <1>3, <1>4
<1> HIDE DEF room2
<1>7. /\ tier2 \in SUBSET some /\ Cardinality(tier2) \in Nat /\ Cardinality(tier2) <= room2
  BY <1>5, <1>6, BestAtMost
<1> HIDE DEF tier2
<1>8. Cardinality(tier1) + Cardinality(tier2) \in Nat
  BY <1>4, <1>7
<1>9. room3 \in Nat
  BY <1>3, <1>8
<1> HIDE DEF room3
<1>10. tier3 \in SUBSET rest /\ Cardinality(tier3) \in Nat /\ Cardinality(tier3) <= room3
  BY <1>5, <1>9, BestAtMost
<1> HIDE DEF tier3
<1>11. all \in SUBSET S /\ all \in SUBSET Rows
  BY <1>4, <1>5, <1>7, <1>10
<1>12. IsFiniteSet(tier1) /\ IsFiniteSet(tier2) /\ IsFiniteSet(tier3) /\ IsFiniteSet(all)
  BY <1>2, <1>11, FS_Subset
<1>13. ASSUME Cardinality({KindOf[r] : r \in S}) <= Total, NEW r \in S
       PROVE  \E f \in BestMatches(S) : KindOf[f] = KindOf[r]
  <2>1. Cardinality(tier1) <= Total /\ \E f \in tier1 : KindOf[f] = KindOf[r]
    <3>1. /\ \E f \in tier1 : KindOf[f] = KindOf[r]
          /\ Cardinality(tier1) <= Cardinality({KindOf[x] : x \in S})
      BY FirstOfKind DEF tier1
    <3>2. IsFiniteSet({KindOf[x] : x \in S})
      <4> DEFINE kinds == {KindOf[x] : x \in S}
                 g == [x \in S |-> KindOf[x]]
      <4>1. g \in Surjection(S, kinds)
        BY DEF Surjection
      <4>2. IsFiniteSet(S)
        BY <1>2, FS_Subset
      <4> HIDE DEF g
      <4> QED BY <4>1, <4>2, FS_Surjection
    <3>3. Cardinality({KindOf[x] : x \in S}) \in Nat
      BY <3>2, FS_CardinalityType
    <3> QED BY <1>2, <1>4, <1>13, <3>1, <3>3
  <2>2. Cardinality(tier1) + Cardinality(tier2) <= Total
    BY <1>2, <1>3, <1>4, <1>6, <1>7, <2>1 DEF room2
  <2>3. Cardinality(tier1) + Cardinality(tier2) + Cardinality(tier3) <= Total
    <3>1. Cardinality(tier1) + Cardinality(tier2) + room3 = Total
      BY <1>3, <1>8, <2>2 DEF room3
    <3> QED BY <1>2, <1>4, <1>7, <1>9, <1>10, <3>1
  <2>4. Cardinality(all) <= Total
    <3>1. \A A, B : IsFiniteSet(A) /\ IsFiniteSet(B) =>
              /\ IsFiniteSet(A \cup B)
              /\ Cardinality(A \cup B) \in Nat
              /\ Cardinality(A \cup B) <= Cardinality(A) + Cardinality(B)
      <4> SUFFICES ASSUME NEW A, NEW B, IsFiniteSet(A), IsFiniteSet(B)
                   PROVE  /\ IsFiniteSet(A \cup B)
                          /\ Cardinality(A \cup B) \in Nat
                          /\ Cardinality(A \cup B) <= Cardinality(A) + Cardinality(B)
        OBVIOUS
      <4>1. IsFiniteSet(A \cap B) /\ IsFiniteSet(A \cup B)
        <5>1. A \cap B \in SUBSET A
          OBVIOUS
        <5> QED BY <5>1, FS_Subset, FS_Union
      <4>2. /\ Cardinality(A) \in Nat /\ Cardinality(B) \in Nat
            /\ Cardinality(A \cap B) \in Nat /\ Cardinality(A \cup B) \in Nat
        BY <4>1, FS_CardinalityType
      <4>3. Cardinality(A \cup B) = Cardinality(A) + Cardinality(B) - Cardinality(A \cap B)
        BY FS_Union
      <4> QED BY <4>1, <4>2, <4>3
    <3>2. /\ IsFiniteSet(tier1 \cup tier2) /\ Cardinality(tier1 \cup tier2) \in Nat
          /\ Cardinality(tier1 \cup tier2) <= Cardinality(tier1) + Cardinality(tier2)
      BY <1>12, <3>1
    <3>3. Cardinality(all) \in Nat /\ Cardinality(all) <= Cardinality(tier1 \cup tier2) + Cardinality(tier3)
      BY <1>12, <3>1, <3>2
    <3> QED
      <4> HIDE DEF all
      <4> QED BY <1>2, <1>4, <1>7, <1>10, <2>3, <3>2, <3>3
  <2>5. BestOf(all, Total) = all
    <3> HIDE DEF all
    <3> QED BY <1>2, <1>11, <2>4, BestAtMost
  <2> QED BY <1>1, <2>1, <2>5
<1>14. BestOf(all, Total) \in SUBSET all /\ Cardinality(BestOf(all, Total)) <= Total
  <2> HIDE DEF all
  <2> QED BY <1>2, <1>11, BestAtMost
<1>15. IsFiniteSet(BestOf(all, Total))
  <2> HIDE DEF all
  <2> QED BY <1>12, <1>14, FS_Subset
<1> QED BY <1>1, <1>11, <1>13, <1>14, <1>15

-----------------------------------------------------------------------------
(***************************************************************************)
(* The statements of a set-up, by their places.                            *)
(***************************************************************************)
TableCount  == Len(EntityTables)
ParentCount == Len(Parents)
StmtNames == {"drop triggers", "create triggers", "rebuild", "drop table", "create table",
              "populate", "drop cascade", "create cascade"}
Stmts == [name : StmtNames, kind : Kinds \cup {"none"}]

LEMMA Counts ==
    /\ TableCount \in Nat /\ ParentCount \in Nat
    /\ \A i \in 1..TableCount : EntityTables[i] \in STRING /\ EntityTables[i] # "document"
                                /\ EntityTables[i] \in ToSet(EntityTables)
    /\ \A i, j \in 1..TableCount : EntityTables[i] = EntityTables[j] => i = j
    /\ \A i \in 1..ParentCount : Parents[i] \in STRING /\ Parents[i] # "document"
                                 /\ Parents[i] \in ToSet(EntityTables)
    /\ \A i, j \in 1..ParentCount : Parents[i] = Parents[j] => i = j
<1>1. /\ EntityTables \in Seq(STRING) /\ IsInjective(EntityTables)
      /\ "document" \notin ToSet(EntityTables)
      /\ Parents \in Seq(ToSet(EntityTables)) /\ IsInjective(Parents)
  BY SearchAssumption
<1>2. /\ DOMAIN EntityTables = 1..TableCount /\ DOMAIN Parents = 1..ParentCount
      /\ TableCount \in Nat /\ ParentCount \in Nat
  BY <1>1 DEF TableCount, ParentCount
<1>3. \A i \in 1..TableCount : EntityTables[i] \in STRING /\ EntityTables[i] \in ToSet(EntityTables)
  BY <1>1, <1>2 DEF ToSet, TableCount
<1>4. \A i \in 1..ParentCount : Parents[i] \in ToSet(EntityTables)
  BY <1>1 DEF ParentCount
<1>5. \A k \in ToSet(EntityTables) : k \in STRING
  BY <1>2, <1>3 DEF ToSet
<1> QED BY <1>1, <1>2, <1>3, <1>4, <1>5 DEF IsInjective

LEMMA ByTables ==
    ASSUME NEW name \in StmtNames
    PROVE  /\ PerTable(name) \in Seq(Stmts) /\ Len(PerTable(name)) = TableCount
           /\ \A i \in 1..TableCount : PerTable(name)[i] = Stmt(name, EntityTables[i])
<1>1. \A i \in 1..TableCount : Stmt(name, EntityTables[i]) \in Stmts
  BY Counts DEF Stmt, Stmts, Kinds
<1>2. PerTable(name) = [i \in 1..TableCount |-> Stmt(name, EntityTables[i])]
  BY DEF PerTable, TableCount
<1> HIDE DEF Stmts
<1> QED BY <1>1, <1>2, Counts

LEMMA ByPairs ==
    ASSUME NEW drop \in StmtNames, NEW create \in StmtNames, NEW tables \in Seq(ToSet(EntityTables))
    PROVE  /\ Pairs(drop, create, tables) \in Seq(Stmts)
           /\ Len(Pairs(drop, create, tables)) = 2 * Len(tables)
           /\ \A i \in 1..Len(tables) :
                  /\ Pairs(drop, create, tables)[2 * i - 1] = Stmt(drop, tables[i])
                  /\ Pairs(drop, create, tables)[2 * i] = Stmt(create, tables[i])
<1> DEFINE n == Len(tables)
           Form(m) == Stmt(IF m % 2 = 1 THEN drop ELSE create, tables[(m + 1) \div 2])
<1>1. n \in Nat
  OBVIOUS
<1>2. Pairs(drop, create, tables) = [m \in 1..(2 * n) |-> Form(m)]
  BY DEF Pairs
<1>3. \A m \in 1..(2 * n) : (m + 1) \div 2 \in 1..n
  <2> HIDE DEF n
  <2> QED BY <1>1
<1>4. \A m \in 1..(2 * n) : Form(m) \in Stmts
  <2> TAKE m \in 1..(2 * n)
  <2>1. tables[(m + 1) \div 2] \in ToSet(EntityTables)
    BY <1>3
  <2> QED BY <2>1 DEF Stmt, Stmts, Kinds
<1>5. \A i \in 1..n : /\ 2 * i - 1 \in 1..(2 * n) /\ 2 * i \in 1..(2 * n)
                      /\ (2 * i - 1) % 2 = 1 /\ (2 * i) % 2 = 0
                      /\ ((2 * i - 1) + 1) \div 2 = i /\ (2 * i + 1) \div 2 = i
  <2> HIDE DEF n
  <2> TAKE i \in 1..n
  <2>1. i \in Nat /\ i >= 1 /\ i <= n
    BY <1>1
  <2> QED BY <1>1, <2>1
<1>6. \A i \in 1..n : Form(2 * i - 1) = Stmt(drop, tables[i]) /\ Form(2 * i) = Stmt(create, tables[i])
  <2> TAKE i \in 1..n
  <2> DEFINE p == 2 * i - 1
             q == 2 * i
  <2>1. p % 2 = 1 /\ (p + 1) \div 2 = i /\ q % 2 = 0 /\ (q + 1) \div 2 = i
    BY <1>5
  <2> HIDE DEF p, q
  <2>2. Form(p) = Stmt(drop, tables[i]) /\ Form(q) = Stmt(create, tables[i])
    BY <2>1 DEF Stmt
  <2> QED
    <3> HIDE DEF Form
    <3> QED BY <2>2 DEF p, q
<1> DEFINE m2 == 2 * n
<1>7. m2 \in Nat
  BY <1>1
<1> HIDE DEF Form, Stmts
<1>8. Pairs(drop, create, tables) \in Seq(Stmts) /\ Len(Pairs(drop, create, tables)) = m2
  <2>1. Pairs(drop, create, tables) = [m \in 1..m2 |-> Form(m)] /\ \A m \in 1..m2 : Form(m) \in Stmts
    BY <1>2, <1>4
  <2> HIDE DEF m2
  <2> QED BY <1>7, <2>1
<1>9. \A i \in 1..n : /\ Pairs(drop, create, tables)[2 * i - 1] = Form(2 * i - 1)
                      /\ Pairs(drop, create, tables)[2 * i] = Form(2 * i)
  <2> HIDE DEF n
  <2> QED BY <1>2, <1>5
<1> QED BY <1>6, <1>8, <1>9

LEMMA Joined ==
    ASSUME NEW S, NEW s \in Seq(S), NEW t \in Seq(S)
    PROVE  /\ s \o t \in Seq(S) /\ Len(s \o t) = Len(s) + Len(t)
           /\ \A i \in 1..Len(s) : (s \o t)[i] = s[i]
           /\ \A i \in 1..Len(t) : (s \o t)[Len(s) + i] = t[i]
<1> DEFINE m == Len(s)
           n == Len(t)
<1>1. m \in Nat /\ n \in Nat
  OBVIOUS
<1>2. /\ s \o t \in Seq(S) /\ Len(s \o t) = m + n
      /\ \A i \in 1..(m + n) : (s \o t)[i] = IF i <= m THEN s[i] ELSE t[i - m]
  BY ConcatProperties
<1> HIDE DEF m, n
<1>3. \A i \in 1..m : i \in 1..(m + n) /\ i <= m
  BY <1>1
<1>4. \A i \in 1..n : m + i \in 1..(m + n) /\ ~(m + i <= m) /\ (m + i) - m = i
  BY <1>1
<1>5. /\ \A i \in 1..m : (s \o t)[i] = s[i]
      /\ \A i \in 1..n : (s \o t)[m + i] = t[i]
  BY <1>2, <1>3, <1>4
<1> QED BY <1>2, <1>5 DEF m, n

LEMMA JoinedStmts ==
    \A s, t \in Seq(Stmts) :
        /\ s \o t \in Seq(Stmts) /\ Len(s \o t) = Len(s) + Len(t)
        /\ \A i \in 1..Len(s) : (s \o t)[i] = s[i]
        /\ \A i \in 1..Len(t) : (s \o t)[Len(s) + i] = t[i]
<1> TAKE s, t \in Seq(Stmts)
<1> QED BY Joined

LEMMA SetUpIs ==
    /\ SetUp \in Seq(Stmts) /\ Idle = 5 + 3 * TableCount + 2 * ParentCount
    /\ SetUp[1] = Stmt("drop triggers", "document") /\ SetUp[2] = Stmt("create triggers", "document")
    /\ SetUp[3] = Stmt("rebuild", "document")
    /\ SetUp[4] = Stmt("drop table", "none") /\ SetUp[5] = Stmt("create table", "none")
    /\ \A i \in 1..TableCount :
           /\ SetUp[5 + i] = Stmt("populate", EntityTables[i])
           /\ SetUp[5 + TableCount + 2 * i - 1] = Stmt("drop triggers", EntityTables[i])
           /\ SetUp[5 + TableCount + 2 * i] = Stmt("create triggers", EntityTables[i])
    /\ \A i \in 1..ParentCount :
           /\ SetUp[5 + 3 * TableCount + 2 * i - 1] = Stmt("drop cascade", Parents[i])
           /\ SetUp[5 + 3 * TableCount + 2 * i] = Stmt("create cascade", Parents[i])
<1> DEFINE a == << Stmt("drop triggers", "document"), Stmt("create triggers", "document"), Stmt("rebuild", "document") >>
           b == EmptyTable
           c == PerTable("populate")
           d == Pairs("drop triggers", "create triggers", EntityTables)
           e == Pairs("drop cascade", "create cascade", Parents)
           T == TableCount
           P == ParentCount
<1>1. /\ a \in Seq(Stmts) /\ Len(a) = 3 /\ b \in Seq(Stmts) /\ Len(b) = 2
  <2>1. \A name \in StmtNames, kind \in {"document", "none"} : Stmt(name, kind) \in Stmts
    BY DEF Stmt, Stmts, Kinds
  <2>2. {"drop triggers", "create triggers", "rebuild", "drop table", "create table"} \subseteq StmtNames
    BY DEF StmtNames
  <2>3. \A x, y, z \in Stmts : /\ <<x, y, z>> \in Seq(Stmts) /\ Len(<<x, y, z>>) = 3
                              /\ <<x, y>> \in Seq(Stmts) /\ Len(<<x, y>>) = 2
    <3> HIDE DEF Stmts
    <3> QED OBVIOUS
  <2> HIDE DEF Stmts
  <2>4. /\ Stmt("drop triggers", "document") \in Stmts /\ Stmt("create triggers", "document") \in Stmts
        /\ Stmt("rebuild", "document") \in Stmts
        /\ Stmt("drop table", "none") \in Stmts /\ Stmt("create table", "none") \in Stmts
    BY <2>1, <2>2
  <2> QED BY <2>3, <2>4 DEF EmptyTable
<1>2. /\ a[1] = Stmt("drop triggers", "document") /\ a[2] = Stmt("create triggers", "document")
      /\ a[3] = Stmt("rebuild", "document")
      /\ b[1] = Stmt("drop table", "none") /\ b[2] = Stmt("create table", "none")
  BY DEF EmptyTable
<1>3. /\ c \in Seq(Stmts) /\ Len(c) = T
      /\ \A i \in 1..T : c[i] = Stmt("populate", EntityTables[i])
  <2>1. "populate" \in StmtNames
    BY DEF StmtNames
  <2> QED BY <2>1, ByTables
<1>4. /\ EntityTables \in Seq(ToSet(EntityTables)) /\ Parents \in Seq(ToSet(EntityTables))
      /\ T \in Nat /\ P \in Nat
  <2>1. EntityTables \in Seq(STRING) /\ Parents \in Seq(ToSet(EntityTables))
    BY SearchAssumption
  <2>2. \A i \in 1..Len(EntityTables) : EntityTables[i] \in ToSet(EntityTables)
    BY Counts DEF TableCount
  <2> QED BY <2>1, <2>2, Counts
<1>5. /\ d \in Seq(Stmts) /\ Len(d) = 2 * T
      /\ \A i \in 1..T : /\ d[2 * i - 1] = Stmt("drop triggers", EntityTables[i])
                         /\ d[2 * i] = Stmt("create triggers", EntityTables[i])
  <2>1. "drop triggers" \in StmtNames /\ "create triggers" \in StmtNames
    BY DEF StmtNames
  <2> HIDE DEF d
  <2> QED BY <1>4, <2>1, ByPairs DEF TableCount, d
<1>6. /\ e \in Seq(Stmts) /\ Len(e) = 2 * P
      /\ \A i \in 1..P : /\ e[2 * i - 1] = Stmt("drop cascade", Parents[i])
                         /\ e[2 * i] = Stmt("create cascade", Parents[i])
  <2>1. "drop cascade" \in StmtNames /\ "create cascade" \in StmtNames
    BY DEF StmtNames
  <2> QED BY <1>4, <2>1, ByPairs DEF ParentCount
<1>7. SetUp = (((a \o b) \o c) \o d) \o e
  BY DEF SetUp
<1> HIDE DEF a, b, c, d, e, T, P, Stmts
<1>8. /\ a \o b \in Seq(Stmts) /\ Len(a \o b) = 5
      /\ \A i \in 1..3 : (a \o b)[i] = a[i]
      /\ \A i \in 1..2 : (a \o b)[3 + i] = b[i]
  <2>1. /\ a \o b \in Seq(Stmts) /\ Len(a \o b) = Len(a) + Len(b)
        /\ \A i \in 1..Len(a) : (a \o b)[i] = a[i]
        /\ \A i \in 1..Len(b) : (a \o b)[Len(a) + i] = b[i]
    BY <1>1, JoinedStmts
  <2> QED BY <1>1, <2>1
<1> DEFINE ab == a \o b
<1> HIDE DEF ab
<1>9. /\ ab \o c \in Seq(Stmts) /\ Len(ab \o c) = 5 + T
      /\ \A i \in 1..5 : (ab \o c)[i] = ab[i]
      /\ \A i \in 1..T : (ab \o c)[5 + i] = c[i]
  <2>1. ab \in Seq(Stmts) /\ Len(ab) = 5
    BY <1>8 DEF ab
  <2>2. /\ ab \o c \in Seq(Stmts) /\ Len(ab \o c) = Len(ab) + Len(c)
        /\ \A i \in 1..Len(ab) : (ab \o c)[i] = ab[i]
        /\ \A i \in 1..Len(c) : (ab \o c)[Len(ab) + i] = c[i]
    BY <1>3, <2>1, JoinedStmts
  <2> QED BY <1>3, <1>4, <2>1, <2>2
<1> DEFINE abc == ab \o c
<1> HIDE DEF abc
<1>10. /\ abc \o d \in Seq(Stmts) /\ Len(abc \o d) = 5 + T + 2 * T
       /\ \A i \in 1..(5 + T) : (abc \o d)[i] = abc[i]
       /\ \A i \in 1..(2 * T) : (abc \o d)[5 + T + i] = d[i]
  <2>1. abc \in Seq(Stmts) /\ Len(abc) = 5 + T
    BY <1>9 DEF abc
  <2>2. /\ abc \o d \in Seq(Stmts) /\ Len(abc \o d) = Len(abc) + Len(d)
        /\ \A i \in 1..Len(abc) : (abc \o d)[i] = abc[i]
        /\ \A i \in 1..Len(d) : (abc \o d)[Len(abc) + i] = d[i]
    BY <1>5, <2>1, JoinedStmts
  <2> QED BY <1>4, <1>5, <2>1, <2>2
<1> DEFINE abcd == abc \o d
<1> HIDE DEF abcd
<1>11. /\ abcd \o e \in Seq(Stmts) /\ Len(abcd \o e) = 5 + 3 * T + 2 * P
       /\ \A i \in 1..(5 + 3 * T) : (abcd \o e)[i] = abcd[i]
       /\ \A i \in 1..(2 * P) : (abcd \o e)[5 + 3 * T + i] = e[i]
  <2>1. abcd \in Seq(Stmts) /\ Len(abcd) = 5 + 3 * T
    BY <1>4, <1>10 DEF abcd
  <2>2. /\ abcd \o e \in Seq(Stmts) /\ Len(abcd \o e) = Len(abcd) + Len(e)
        /\ \A i \in 1..Len(abcd) : (abcd \o e)[i] = abcd[i]
        /\ \A i \in 1..Len(e) : (abcd \o e)[Len(abcd) + i] = e[i]
    BY <1>6, <2>1, JoinedStmts
  <2> QED BY <1>4, <1>6, <2>1, <2>2
<1>12. SetUp = abcd \o e
  BY <1>7 DEF abcd, abc, ab
<1>13. \A i \in 1..5 : SetUp[i] = ab[i]
  <2> TAKE i \in 1..5
  <2>1. i \in 1..(5 + T) /\ i \in 1..(5 + 3 * T)
    BY <1>4
  <2> QED BY <1>9, <1>10, <1>11, <1>12, <2>1 DEF abc, abcd
<1>14. \A i \in 1..T : SetUp[5 + i] = c[i]
  <2> TAKE i \in 1..T
  <2>1. 5 + i \in 1..(5 + T) /\ 5 + i \in 1..(5 + 3 * T)
    BY <1>4
  <2> QED BY <1>9, <1>10, <1>11, <1>12, <2>1 DEF abc, abcd
<1>15. \A i \in 1..(2 * T) : SetUp[5 + T + i] = d[i]
  <2> TAKE i \in 1..(2 * T)
  <2>1. 5 + T + i \in 1..(5 + 3 * T)
    BY <1>4
  <2> QED BY <1>10, <1>11, <1>12, <2>1 DEF abcd
<1>16. \A i \in 1..(2 * P) : SetUp[5 + 3 * T + i] = e[i]
  BY <1>11, <1>12
<1>17. \A i \in 1..T : /\ 5 + T + 2 * i - 1 = 5 + T + (2 * i - 1)
                       /\ 2 * i - 1 \in 1..(2 * T) /\ 2 * i \in 1..(2 * T)
  BY <1>4
<1>18. \A i \in 1..P : /\ 5 + 3 * T + 2 * i - 1 = 5 + 3 * T + (2 * i - 1)
                       /\ 2 * i - 1 \in 1..(2 * P) /\ 2 * i \in 1..(2 * P)
  BY <1>4
<1>19. /\ SetUp[1] = Stmt("drop triggers", "document") /\ SetUp[2] = Stmt("create triggers", "document")
       /\ SetUp[3] = Stmt("rebuild", "document")
       /\ SetUp[4] = Stmt("drop table", "none") /\ SetUp[5] = Stmt("create table", "none")
  <2>1. /\ SetUp[1] = a[1] /\ SetUp[2] = a[2] /\ SetUp[3] = a[3]
        /\ SetUp[4] = b[1] /\ SetUp[5] = b[2]
    <3>1. ab[3 + 1] = b[1] /\ ab[3 + 2] = b[2] /\ ab[1] = a[1] /\ ab[2] = a[2] /\ ab[3] = a[3]
      BY <1>8 DEF ab
    <3> QED BY <1>13, <3>1
  <2> QED BY <1>2, <2>1
<1>20. \A i \in 1..T :
           /\ SetUp[5 + i] = Stmt("populate", EntityTables[i])
           /\ SetUp[5 + T + 2 * i - 1] = Stmt("drop triggers", EntityTables[i])
           /\ SetUp[5 + T + 2 * i] = Stmt("create triggers", EntityTables[i])
  BY <1>3, <1>5, <1>14, <1>15, <1>17
<1>21. \A i \in 1..P :
           /\ SetUp[5 + 3 * T + 2 * i - 1] = Stmt("drop cascade", Parents[i])
           /\ SetUp[5 + 3 * T + 2 * i] = Stmt("create cascade", Parents[i])
  BY <1>6, <1>16, <1>18
<1>22. SetUp \in Seq(Stmts) /\ Idle = 5 + 3 * T + 2 * P
  BY <1>11, <1>12 DEF Idle
<1> QED BY <1>19, <1>20, <1>21, <1>22 DEF T, P

LEMMA IdleIs == Idle \in Nat /\ Idle >= 5 /\ 0 \in 0..Idle
<1> DEFINE T == TableCount
           P == ParentCount
<1>1. Idle = 5 + 3 * T + 2 * P /\ T \in Nat /\ P \in Nat
  BY SetUpIs, Counts
<1> HIDE DEF T, P
<1> QED BY <1>1

\* Each place of a set-up is one of these.
LEMMA Places ==
    ASSUME NEW n \in 1..Idle
    PROVE  \/ n \in 1..5
           \/ \E i \in 1..TableCount : n = 5 + i
           \/ \E i \in 1..TableCount : n = 5 + TableCount + 2 * i - 1 \/ n = 5 + TableCount + 2 * i
           \/ \E i \in 1..ParentCount : n = 5 + 3 * TableCount + 2 * i - 1 \/ n = 5 + 3 * TableCount + 2 * i
<1> DEFINE T == TableCount
           P == ParentCount
<1>1. T \in Nat /\ P \in Nat /\ n \in Nat /\ n >= 1 /\ n <= 5 + 3 * T + 2 * P
  <2>1. Idle = 5 + 3 * T + 2 * P /\ T \in Nat /\ P \in Nat
    BY Counts, SetUpIs
  <2> HIDE DEF T, P
  <2> QED BY <2>1
<1> HIDE DEF T, P
<1>2. CASE n <= 5 + T
  <2>1. n \in 1..5 \/ n - 5 \in 1..T
    BY <1>1, <1>2
  <2>2. n = 5 + (n - 5)
    BY <1>1
  <2> QED BY <2>1, <2>2 DEF T
<1>3. CASE n > 5 + T /\ n <= 5 + 3 * T
  <2> DEFINE i == (n - (5 + T) + 1) \div 2
  <2>1. i \in 1..T /\ (n = 5 + T + 2 * i - 1 \/ n = 5 + T + 2 * i)
    BY <1>1, <1>3
  <2> HIDE DEF i
  <2> QED BY <2>1 DEF T
<1>4. CASE n > 5 + 3 * T
  <2> DEFINE i == (n - (5 + 3 * T) + 1) \div 2
  <2>1. i \in 1..P /\ (n = 5 + 3 * T + 2 * i - 1 \/ n = 5 + 3 * T + 2 * i)
    BY <1>1, <1>4
  <2> HIDE DEF i
  <2> QED BY <2>1 DEF P, T
<1> QED BY <1>1, <1>2, <1>3, <1>4

-----------------------------------------------------------------------------
(***************************************************************************)
(* The state.                                                              *)
(***************************************************************************)
RowStates == [status : {"absent", "live", "deleted"}, text : Texts]

SearchTypeOK ==
    /\ rows \in [Rows -> RowStates]
    /\ IsABag(entities) /\ \A e \in DOMAIN entities : e.id \in Indexed
    /\ postings \in [Documents -> SUBSET Texts]
    /\ schema \in [table : BOOLEAN, triggers : SUBSET Kinds, cascades : SUBSET ToSet(Parents)]
    /\ opener \in 0..Idle
    /\ raced \in BOOLEAN /\ revised \subseteq Documents
    /\ writes \in Nat /\ opens \in Nat

\* The entries of some rows.
EntrySet(S, rs) == {Entry(r, rs) : r \in S \cap Indexed \cap Live(rs)}

LEMMA EntryBag ==
    ASSUME NEW S, NEW rs
    PROVE  /\ EntriesOf(S, rs) = [e \in EntrySet(S, rs) |-> 1]
           /\ IsABag(EntriesOf(S, rs)) /\ \A e \in DOMAIN EntriesOf(S, rs) : e.id \in Indexed
<1>1. EntriesOf(S, rs) = [e \in EntrySet(S, rs) |-> 1]
  BY DEF EntriesOf, EntrySet, SetToBag
<1>2. \A e \in EntrySet(S, rs) : e.id \in Indexed
  BY DEF EntrySet, Entry
<1> QED BY <1>1, <1>2 DEF IsABag

\* The entries of other rows come beside those that are there.
LEMMA EntriesJoin ==
    ASSUME NEW A, NEW B, NEW rs, A \cap B = {}
    PROVE  EntriesOf(A, rs) (+) EntriesOf(B, rs) = EntriesOf(A \cup B, rs)
<1>1. EntrySet(A, rs) \cap EntrySet(B, rs) = {}
  BY DEF EntrySet, Entry
<1>2. EntrySet(A \cup B, rs) = EntrySet(A, rs) \cup EntrySet(B, rs)
  BY DEF EntrySet
<1> DEFINE a == EntriesOf(A, rs)
           b == EntriesOf(B, rs)
<1>3. a (+) b = [e \in DOMAIN a \cup DOMAIN b |->
          (IF e \in DOMAIN a THEN a[e] ELSE 0) + (IF e \in DOMAIN b THEN b[e] ELSE 0)]
  BY DEF (+)
<1>4. a = [e \in EntrySet(A, rs) |-> 1] /\ b = [e \in EntrySet(B, rs) |-> 1]
  BY EntryBag
<1> HIDE DEF a, b
<1>5. \A e \in DOMAIN a \cup DOMAIN b :
          (IF e \in DOMAIN a THEN a[e] ELSE 0) + (IF e \in DOMAIN b THEN b[e] ELSE 0) = 1
  BY <1>1, <1>4
<1>6. DOMAIN a \cup DOMAIN b = EntrySet(A \cup B, rs)
  BY <1>2, <1>4
<1>7. a (+) b = [e \in EntrySet(A \cup B, rs) |-> 1]
  BY <1>3, <1>5, <1>6
<1> QED BY <1>7, EntryBag DEF a, b

\* Entries of two states of the rows that agree on some rows and on all that
\* their entries are made of.
LEMMA EntriesAgree ==
    ASSUME NEW S, NEW rs, NEW rt,
           \A x \in S \cap Rows : rs[x] = rt[x] /\ \A p \in ParentsOf[x] : rs[p] = rt[p]
    PROVE  EntriesOf(S, rs) = EntriesOf(S, rt)
<1>1. \A x \in Rows : ParentsOf[x] \subseteq Rows
  BY SearchAssumption
<1>2. \A x \in S \cap Rows : x \in Live(rs) <=> x \in Live(rt)
  BY DEF Live
<1>3. \A x \in S \cap Rows : Entry(x, rs) = Entry(x, rt)
  <2> TAKE x \in S \cap Rows
  <2>1. \A p \in ParentsOf[x] : (p \in Live(rs) <=> p \in Live(rt)) /\ rs[p] = rt[p]
    BY <1>1 DEF Live
  <2>2. [p \in ParentsOf[x] |-> IF p \in Live(rs) THEN rs[p].text ELSE 0]
          = [p \in ParentsOf[x] |-> IF p \in Live(rt) THEN rt[p].text ELSE 0]
    BY <2>1
  <2> QED BY <2>2 DEF Entry
<1>4. S \cap Indexed \cap Live(rs) = S \cap Indexed \cap Live(rt)
  BY <1>2 DEF Live
<1>5. EntrySet(S, rs) = EntrySet(S, rt)
  BY <1>3, <1>4 DEF EntrySet, Live
<1> QED BY <1>5, EntryBag

LEMMA WithoutEntries ==
    ASSUME NEW A, NEW S, NEW rs
    PROVE  Without(EntriesOf(A, rs), S) = EntriesOf(A \ S, rs)
<1>1. {x \in EntrySet(A, rs) : x.id \notin S} = EntrySet(A \ S, rs)
  BY DEF EntrySet, Entry
<1> DEFINE b == EntriesOf(A, rs)
<1>2. b = [e \in EntrySet(A, rs) |-> 1]
  BY EntryBag
<1> HIDE DEF b
<1>3. Without(b, S) = [e \in EntrySet(A \ S, rs) |-> 1]
  BY <1>1, <1>2 DEF Without
<1> QED BY <1>3, EntryBag DEF b

LEMMA BagTypes ==
    /\ IsABag(EmptyBag) /\ \A e \in DOMAIN EmptyBag : e.id \in Indexed
    /\ \A b, c : IsABag(b) /\ IsABag(c) => IsABag(b (+) c) /\ DOMAIN (b (+) c) = DOMAIN b \cup DOMAIN c
    /\ \A b, S : IsABag(b) => IsABag(Without(b, S)) /\ DOMAIN Without(b, S) \subseteq DOMAIN b
<1>1. IsABag(EmptyBag) /\ \A e \in DOMAIN EmptyBag : e.id \in Indexed
  BY DEF IsABag, EmptyBag, SetToBag
<1>2. ASSUME NEW b, NEW c, IsABag(b), IsABag(c)
      PROVE  IsABag(b (+) c) /\ DOMAIN (b (+) c) = DOMAIN b \cup DOMAIN c
  <2>1. /\ b \in [DOMAIN b -> {n \in Nat : n > 0}]
        /\ c \in [DOMAIN c -> {n \in Nat : n > 0}]
    BY <1>2 DEF IsABag
  <2>2. \A e \in DOMAIN b \cup DOMAIN c :
            (IF e \in DOMAIN b THEN b[e] ELSE 0) + (IF e \in DOMAIN c THEN c[e] ELSE 0)
                \in {n \in Nat : n > 0}
    BY <2>1
  <2>3. b (+) c = [e \in DOMAIN b \cup DOMAIN c |->
            (IF e \in DOMAIN b THEN b[e] ELSE 0) + (IF e \in DOMAIN c THEN c[e] ELSE 0)]
    BY DEF (+)
  <2> QED BY <2>2, <2>3 DEF IsABag
<1>3. ASSUME NEW b, NEW S, IsABag(b)
      PROVE  IsABag(Without(b, S)) /\ DOMAIN Without(b, S) \subseteq DOMAIN b
  BY <1>3 DEF IsABag, Without
<1> QED BY <1>1, <1>2, <1>3

-----------------------------------------------------------------------------
(***************************************************************************)
(* What steps do.                                                          *)
(***************************************************************************)

\* The writes change the rows S and leave rs. A document is never deleted for
\* good, and its text does not change with its deletion or return.
Writes(S, rs) ==
    /\ Write(S, rs)
    /\ S \subseteq Rows /\ rs \in [Rows -> RowStates]
    /\ \A x \in Rows \ S : rs[x] = rows[x]
    /\ \A d \in S \cap Documents :
           /\ rs[d].status # "absent"
           /\ rows[d].status \in {"absent", rs[d].status} \/ rs[d].text = rows[d].text

LEMMA WriteActions ==
    ASSUME SearchTypeOK, NEW r \in Rows,
           Insert(r) \/ Update(r) \/ SoftDelete(r) \/ Restore(r) \/ Purge(r)
    PROVE  \E S, rs : Writes(S, rs)
<1>1. /\ rows \in [Rows -> RowStates] /\ rows[r] \in RowStates
      /\ rows[r].status \in {"absent", "live", "deleted"} /\ rows[r].text \in Texts
  BY DEF SearchTypeOK, RowStates
<1>2. \A t : [rows[r] EXCEPT !.text = t] = [status |-> rows[r].status, text |-> t]
  BY <1>1 DEF RowStates
<1>3. \A s : [rows[r] EXCEPT !.status = s] = [status |-> s, text |-> rows[r].text]
  BY <1>1 DEF RowStates
<1>4. ASSUME NEW t \in Texts, NEW s \in {"live", "deleted"}, NEW rs,
             rs = [rows EXCEPT ![r] = [status |-> s, text |-> t]],
             Write({r}, rs),
             rows[r].status \in {"absent", s} \/ t = rows[r].text
      PROVE  Writes({r}, rs)
  <2>1. [status |-> s, text |-> t] \in RowStates
    BY DEF RowStates
  <2>2. rs \in [Rows -> RowStates] /\ rs[r] = [status |-> s, text |-> t]
    BY <1>1, <1>4, <2>1
  <2>3. \A x \in Rows \ {r} : rs[x] = rows[x]
    BY <1>1, <1>4
  <2>4. rs[r].status = s /\ rs[r].text = t
    BY <2>2
  <2> QED BY <1>4, <2>2, <2>3, <2>4 DEF Writes
<1>5. CASE Insert(r)
  <2>1. rows[r].status = "absent"
    BY <1>5 DEF Insert
  <2>2. PICK t \in Texts : Write({r}, [rows EXCEPT ![r] = [status |-> "live", text |-> t]])
    BY <1>5 DEF Insert
  <2> QED BY <1>4, <2>1, <2>2
<1>6. CASE Update(r)
  <2>1. rows[r].status \in {"live", "deleted"}
    BY <1>6 DEF Update
  <2>2. PICK t \in Texts : Write({r}, [rows EXCEPT ![r].text = t])
    BY <1>6 DEF Update
  <2>3. [rows EXCEPT ![r].text = t] = [rows EXCEPT ![r] = [status |-> rows[r].status, text |-> t]]
    BY <1>1, <1>2
  <2> QED BY <1>4, <2>1, <2>2, <2>3
<1>7. CASE SoftDelete(r)
  <2>1. Write({r}, [rows EXCEPT ![r].status = "deleted"])
    BY <1>7 DEF SoftDelete
  <2>2. [rows EXCEPT ![r].status = "deleted"]
          = [rows EXCEPT ![r] = [status |-> "deleted", text |-> rows[r].text]]
    BY <1>1, <1>3
  <2> QED BY <1>1, <1>4, <2>1, <2>2
<1>8. CASE Restore(r)
  <2>1. Write({r}, [rows EXCEPT ![r].status = "live"])
    BY <1>8 DEF Restore
  <2>2. [rows EXCEPT ![r].status = "live"]
          = [rows EXCEPT ![r] = [status |-> "live", text |-> rows[r].text]]
    BY <1>1, <1>3
  <2> QED BY <1>1, <1>4, <2>1, <2>2
<1>9. CASE Purge(r)
  <2> DEFINE gone == {r} \cup Children(r)
             rs == [x \in Rows |-> IF x \in gone THEN [rows[x] EXCEPT !.status = "absent"] ELSE rows[x]]
  <2>1. KindOf[r] = "maintenance" /\ Write(gone, rs)
    BY <1>9 DEF Purge
  <2>2. gone \subseteq Rows
    BY DEF Children
  <2>3. rs \in [Rows -> RowStates]
    <3>1. \A x \in Rows : rows[x] \in RowStates /\ [rows[x] EXCEPT !.status = "absent"] \in RowStates
      BY <1>1 DEF RowStates
    <3> HIDE DEF gone
    <3> QED BY <3>1
  <2>4. \A x \in Rows \ gone : rs[x] = rows[x]
    OBVIOUS
  <2>5. gone \cap Documents = {}
    <3>1. r \notin Documents
      BY <2>1 DEF Documents
    <3>2. \A c \in Children(r) : c \notin Documents
      BY SearchAssumption DEF Children, Documents
    <3> QED BY <3>1, <3>2
  <2> QED
    <3> HIDE DEF gone, rs
    <3> QED BY <2>1, <2>2, <2>3, <2>4, <2>5 DEF Writes
<1> QED BY <1>5, <1>6, <1>7, <1>8, <1>9

\* The tables and triggers after a statement, and what it makes of the indexes.
LEMMA Statements ==
    ASSUME SearchTypeOK, NEW name, NEW k, RunStatement(Stmt(name, k))
    PROVE  /\ name = "drop table" => schema' = [schema EXCEPT !.table = FALSE] /\ entities' = EmptyBag
           /\ name = "create table" => schema' = [schema EXCEPT !.table = TRUE]
           /\ name = "drop triggers" => schema' = [schema EXCEPT !.triggers = schema.triggers \ {k}]
           /\ name = "create triggers" => schema' = [schema EXCEPT !.triggers = schema.triggers \cup {k}]
           /\ name = "drop cascade" => schema' = [schema EXCEPT !.cascades = schema.cascades \ {k}]
           /\ name = "create cascade" => schema' = [schema EXCEPT !.cascades = schema.cascades \cup {k}]
           /\ name = "populate" => schema' = schema /\ entities' = entities (+) EntriesOf(OfKind(k), rows)
           /\ name = "rebuild" => schema' = schema
           /\ name \notin {"drop table", "populate"} => entities' = entities
<1> DEFINE s == Stmt(name, k)
<1>1. s.name = name /\ s.kind = k
  BY DEF Stmt
<1> HIDE DEF s
<1>2. /\ schema' = CASE s.name = "drop table"      -> [schema EXCEPT !.table = FALSE]
                   [] s.name = "create table"    -> [schema EXCEPT !.table = TRUE]
                   [] s.name = "drop triggers"   -> [schema EXCEPT !.triggers = @ \ {s.kind}]
                   [] s.name = "create triggers" -> [schema EXCEPT !.triggers = @ \cup {s.kind}]
                   [] s.name = "drop cascade"    -> [schema EXCEPT !.cascades = @ \ {s.kind}]
                   [] s.name = "create cascade"  -> [schema EXCEPT !.cascades = @ \cup {s.kind}]
                   [] OTHER                      -> schema
      /\ entities' = CASE s.name = "drop table" -> EmptyBag
                     [] s.name = "populate"   -> entities (+) EntriesOf(OfKind(s.kind), rows)
                     [] OTHER                 -> entities
  BY DEF RunStatement, s
<1>3. name = "drop table" => schema' = [schema EXCEPT !.table = FALSE] /\ entities' = EmptyBag
  BY <1>1, <1>2
<1>4. name = "create table" => schema' = [schema EXCEPT !.table = TRUE]
  BY <1>1, <1>2
<1>5. name = "drop triggers" => schema' = [schema EXCEPT !.triggers = schema.triggers \ {k}]
  BY <1>1, <1>2
<1>6. name = "create triggers" => schema' = [schema EXCEPT !.triggers = schema.triggers \cup {k}]
  BY <1>1, <1>2
<1>7. name = "drop cascade" => schema' = [schema EXCEPT !.cascades = schema.cascades \ {k}]
  BY <1>1, <1>2
<1>8. name = "create cascade" => schema' = [schema EXCEPT !.cascades = schema.cascades \cup {k}]
  BY <1>1, <1>2
<1>9. name = "populate" => schema' = schema /\ entities' = entities (+) EntriesOf(OfKind(k), rows)
  BY <1>1, <1>2
<1>10. name = "rebuild" => schema' = schema
  BY <1>1, <1>2
<1>11. name \notin {"drop table", "populate"} => entities' = entities
  BY <1>1, <1>2
<1> QED BY <1>3, <1>4, <1>5, <1>6, <1>7, <1>8, <1>9, <1>10, <1>11

LEMMA OtherStatements ==
    ASSUME SearchTypeOK, NEW k
    PROVE  /\ RunStatement(Stmt("create table", k)) =>
                  schema' = [schema EXCEPT !.table = TRUE] /\ entities' = entities
           /\ RunStatement(Stmt("drop triggers", k)) =>
                  schema' = [schema EXCEPT !.triggers = schema.triggers \ {k}] /\ entities' = entities
           /\ RunStatement(Stmt("create triggers", k)) =>
                  schema' = [schema EXCEPT !.triggers = schema.triggers \cup {k}] /\ entities' = entities
           /\ RunStatement(Stmt("drop cascade", k)) =>
                  schema' = [schema EXCEPT !.cascades = schema.cascades \ {k}] /\ entities' = entities
           /\ RunStatement(Stmt("create cascade", k)) =>
                  schema' = [schema EXCEPT !.cascades = schema.cascades \cup {k}] /\ entities' = entities
<1>1. ASSUME RunStatement(Stmt("create table", k))
      PROVE  schema' = [schema EXCEPT !.table = TRUE] /\ entities' = entities
  <2> DEFINE name == "create table"
  <2>1. name = "create table" /\ name \notin {"drop table", "populate"} /\ RunStatement(Stmt(name, k))
    BY <1>1
  <2> HIDE DEF name
  <2> QED BY <2>1, Statements
<1>2. ASSUME RunStatement(Stmt("drop triggers", k))
      PROVE  schema' = [schema EXCEPT !.triggers = schema.triggers \ {k}] /\ entities' = entities
  <2> DEFINE name == "drop triggers"
  <2>1. name = "drop triggers" /\ name \notin {"drop table", "populate"} /\ RunStatement(Stmt(name, k))
    BY <1>2
  <2> HIDE DEF name
  <2> QED BY <2>1, Statements
<1>3. ASSUME RunStatement(Stmt("create triggers", k))
      PROVE  schema' = [schema EXCEPT !.triggers = schema.triggers \cup {k}] /\ entities' = entities
  <2> DEFINE name == "create triggers"
  <2>1. name = "create triggers" /\ name \notin {"drop table", "populate"} /\ RunStatement(Stmt(name, k))
    BY <1>3
  <2> HIDE DEF name
  <2> QED BY <2>1, Statements
<1>4. ASSUME RunStatement(Stmt("drop cascade", k))
      PROVE  schema' = [schema EXCEPT !.cascades = schema.cascades \ {k}] /\ entities' = entities
  <2> DEFINE name == "drop cascade"
  <2>1. name = "drop cascade" /\ name \notin {"drop table", "populate"} /\ RunStatement(Stmt(name, k))
    BY <1>4
  <2> HIDE DEF name
  <2> QED BY <2>1, Statements
<1>5. ASSUME RunStatement(Stmt("create cascade", k))
      PROVE  schema' = [schema EXCEPT !.cascades = schema.cascades \cup {k}] /\ entities' = entities
  <2> DEFINE name == "create cascade"
  <2>1. name = "create cascade" /\ name \notin {"drop table", "populate"} /\ RunStatement(Stmt(name, k))
    BY <1>5
  <2> HIDE DEF name
  <2> QED BY <2>1, Statements
<1> QED BY <1>1, <1>2, <1>3, <1>4, <1>5

\* What a statement makes of the documents' index.
LEMMA StatementPostings ==
    ASSUME NEW name, NEW k, RunStatement(Stmt(name, k))
    PROVE  IF name = "rebuild"
           THEN /\ postings' = [d \in Documents |-> IF rows[d].status = "absent" THEN {} ELSE {rows[d].text}]
                /\ revised' = {}
           ELSE postings' = postings /\ revised' = revised
BY DEF RunStatement, Stmt

\* The statements and the kinds they are for.
LEMMA PlaceKinds ==
    ASSUME NEW n \in 1..Idle
    PROVE  \E name, k :
               /\ SetUp[n] = Stmt(name, k) /\ name \in StmtNames
               /\ name \in {"drop triggers", "create triggers", "populate"} => k \in Kinds
               /\ name \in {"drop cascade", "create cascade"} => k \in ToSet(Parents)
               /\ name = "rebuild" => n = 3
<1> DEFINE Good(name, k) ==
               /\ name \in StmtNames
               /\ name \in {"drop triggers", "create triggers", "populate"} => k \in Kinds
               /\ name \in {"drop cascade", "create cascade"} => k \in ToSet(Parents)
<1>1. \A i \in 1..TableCount : EntityTables[i] \in Kinds
  BY Counts DEF Kinds
<1>2. \A i \in 1..ParentCount : Parents[i] \in ToSet(Parents)
  <2>1. Parents \in Seq(ToSet(EntityTables))
    BY SearchAssumption
  <2> QED BY <2>1 DEF ToSet, ParentCount
<1>3. \A k \in Kinds : Good("drop triggers", k) /\ Good("create triggers", k) /\ Good("populate", k)
  BY DEF StmtNames
<1>4. \A k \in ToSet(Parents) : Good("drop cascade", k) /\ Good("create cascade", k)
  BY DEF StmtNames
<1>5. Good("rebuild", "document") /\ Good("drop table", "none") /\ Good("create table", "none")
  BY DEF StmtNames
<1>6. "document" \in Kinds
  BY DEF Kinds
<1>7. TableCount \in Nat /\ ParentCount \in Nat
  BY Counts
<1> HIDE DEF Good
<1>8. CASE n \in 1..5
  <2>1. n = 1 \/ n = 2 \/ n = 3 \/ n = 4 \/ n = 5
    BY <1>8
  <2>2. Good("drop triggers", "document") /\ Good("create triggers", "document")
    BY <1>3, <1>6
  <2>3. /\ n = 1 => SetUp[n] = Stmt("drop triggers", "document")
        /\ n = 2 => SetUp[n] = Stmt("create triggers", "document")
        /\ n = 3 => SetUp[n] = Stmt("rebuild", "document")
        /\ n = 4 => SetUp[n] = Stmt("drop table", "none")
        /\ n = 5 => SetUp[n] = Stmt("create table", "none")
    BY SetUpIs
  <2>4. \E name, k : SetUp[n] = Stmt(name, k) /\ Good(name, k) /\ (name = "rebuild" => n = 3)
    <3>1. CASE n = 1
      <4>1. SetUp[n] = Stmt("drop triggers", "document") /\ Good("drop triggers", "document") /\ ("drop triggers" = "rebuild" => n = 3)
        BY <1>5, <2>2, <2>3, <3>1
      <4> QED BY <4>1
    <3>2. CASE n = 2
      <4>1. SetUp[n] = Stmt("create triggers", "document") /\ Good("create triggers", "document") /\ ("create triggers" = "rebuild" => n = 3)
        BY <1>5, <2>2, <2>3, <3>2
      <4> QED BY <4>1
    <3>3. CASE n = 3
      <4>1. SetUp[n] = Stmt("rebuild", "document") /\ Good("rebuild", "document") /\ ("rebuild" = "rebuild" => n = 3)
        BY <1>5, <2>2, <2>3, <3>3
      <4> QED BY <4>1
    <3>4. CASE n = 4
      <4>1. SetUp[n] = Stmt("drop table", "none") /\ Good("drop table", "none") /\ ("drop table" = "rebuild" => n = 3)
        BY <1>5, <2>2, <2>3, <3>4
      <4> QED BY <4>1
    <3>5. CASE n = 5
      <4>1. SetUp[n] = Stmt("create table", "none") /\ Good("create table", "none") /\ ("create table" = "rebuild" => n = 3)
        BY <1>5, <2>2, <2>3, <3>5
      <4> QED BY <4>1
    <3> QED BY <2>1, <3>1, <3>2, <3>3, <3>4, <3>5
  <2> QED BY <2>4 DEF Good
<1>9. ASSUME NEW i \in 1..TableCount,
             n = 5 + i \/ n = 5 + TableCount + 2 * i - 1 \/ n = 5 + TableCount + 2 * i
      PROVE  \E name, k : SetUp[n] = Stmt(name, k) /\ Good(name, k) /\ name # "rebuild" /\ n # 3
  <2>1. \/ SetUp[n] = Stmt("populate", EntityTables[i])
        \/ SetUp[n] = Stmt("drop triggers", EntityTables[i])
        \/ SetUp[n] = Stmt("create triggers", EntityTables[i])
    BY <1>9, SetUpIs
  <2>2. n # 3
    BY <1>7, <1>9
  <2>3. /\ Good("drop triggers", EntityTables[i]) /\ Good("create triggers", EntityTables[i])
        /\ Good("populate", EntityTables[i])
    BY <1>1, <1>3
  <2> QED BY <2>1, <2>2, <2>3
<1>10. ASSUME NEW i \in 1..ParentCount,
              n = 5 + 3 * TableCount + 2 * i - 1 \/ n = 5 + 3 * TableCount + 2 * i
       PROVE  \E name, k : SetUp[n] = Stmt(name, k) /\ Good(name, k) /\ name # "rebuild" /\ n # 3
  <2>1. SetUp[n] = Stmt("drop cascade", Parents[i]) \/ SetUp[n] = Stmt("create cascade", Parents[i])
    BY <1>10, SetUpIs
  <2>2. n # 3
    BY <1>7, <1>10
  <2>3. Good("drop cascade", Parents[i]) /\ Good("create cascade", Parents[i])
    BY <1>2, <1>4
  <2> QED BY <2>1, <2>2, <2>3
<1>11. CASE n \notin 1..5
  <2>1. \E name, k : SetUp[n] = Stmt(name, k) /\ Good(name, k) /\ name # "rebuild" /\ n # 3
    BY <1>9, <1>10, <1>11, Places
  <2> QED BY <2>1 DEF Good
<1> QED BY <1>8, <1>11

LEMMA SearchTypeInit == SearchInit => SearchTypeOK
<1> SUFFICES ASSUME SearchInit PROVE SearchTypeOK
  OBVIOUS
<1>1. rows \in [Rows -> RowStates]
  <2>1. (CHOOSE t \in Texts : TRUE) \in Texts
    BY SearchAssumption
  <2>2. \A r \in Rows : [status |-> IF r \in Unborn THEN "absent" ELSE "live", text |-> CHOOSE t \in Texts : TRUE]
                            \in RowStates
    BY <2>1 DEF RowStates
  <2> QED BY <2>2 DEF SearchInit
<1>2. IsABag(entities) /\ \A e \in DOMAIN entities : e.id \in Indexed
  BY EntryBag DEF SearchInit
<1>3. postings \in [Documents -> SUBSET Texts]
  <2>1. \A d \in Documents : rows[d].text \in Texts
    BY <1>1 DEF RowStates, Documents
  <2> QED BY <2>1 DEF SearchInit
<1>4. schema \in [table : BOOLEAN, triggers : SUBSET Kinds, cascades : SUBSET ToSet(Parents)]
  BY DEF SearchInit
<1>5. opener \in 0..Idle
  BY IdleIs DEF SearchInit
<1> QED BY <1>1, <1>2, <1>3, <1>4, <1>5 DEF SearchTypeOK, SearchInit

LEMMA SearchTypeWrite ==
    ASSUME SearchTypeOK, NEW S, NEW rs, Writes(S, rs)
    PROVE  SearchTypeOK'
<1>1. /\ rows' = rs /\ rs \in [Rows -> RowStates] /\ schema' = schema /\ opener' = opener
      /\ opens' = opens /\ writes' = writes + 1
      /\ entities' = EntitiesAfter(S, rs) /\ postings' = PostingsAfter(S, rs)
      /\ revised' \subseteq revised \cup Documents
  BY DEF Writes, Write
<1>2. raced' \in BOOLEAN
  <2>1. raced' = (raced \/ opener # Idle)
    BY DEF Writes, Write
  <2> QED BY <2>1
<1>3. IsABag(entities') /\ \A e \in DOMAIN entities' : e.id \in Indexed
  <2> DEFINE kept == Without(entities, Rewritten(S))
             new == EntriesOf(Rewritten(S), rs)
  <2>1. IsABag(kept) /\ DOMAIN kept \subseteq DOMAIN entities
    BY BagTypes DEF SearchTypeOK
  <2>2. IsABag(new) /\ \A e \in DOMAIN new : e.id \in Indexed
    BY EntryBag
  <2>3. entities' = kept (+) new
    BY <1>1 DEF EntitiesAfter
  <2> HIDE DEF kept, new
  <2>4. IsABag(entities') /\ DOMAIN entities' = DOMAIN kept \cup DOMAIN new
    BY <2>1, <2>2, <2>3, BagTypes
  <2> QED BY <2>1, <2>2, <2>4 DEF SearchTypeOK
<1>4. postings' \in [Documents -> SUBSET Texts]
  <2>1. \A d \in Documents : rs[d].text \in Texts /\ postings[d] \subseteq Texts
    BY <1>1 DEF RowStates, Documents, SearchTypeOK
  <2>2. \A d \in Documents :
            (IF d \notin S \/ "document" \notin schema.triggers THEN postings[d]
             ELSE (postings[d] \ IF d \in Live(rows) THEN {rows[d].text} ELSE {})
                  \cup IF d \in Live(rs) THEN {rs[d].text} ELSE {}) \in SUBSET Texts
    BY <2>1
  <2> QED BY <1>1, <2>2 DEF PostingsAfter
<1>5. writes' \in Nat
  BY <1>1 DEF SearchTypeOK
<1> QED BY <1>1, <1>2, <1>3, <1>4, <1>5 DEF SearchTypeOK

LEMMA SearchTypeSetUp ==
    ASSUME SearchTypeOK, SetUpStep
    PROVE  SearchTypeOK'
<1>1. /\ rows' = rows /\ writes' = writes /\ opens' = opens /\ opener' = opener + 1
      /\ opener \in 0..Idle /\ opener < Idle /\ Idle \in Nat /\ RunStatement(SetUp[opener + 1])
  <2>1. Idle \in Nat
    BY IdleIs
  <2> QED BY <2>1 DEF SetUpStep, SearchTypeOK, Idle
<1>2. raced' \in BOOLEAN
  <2>1. raced' = (raced /\ opener + 1 # 1)
    BY DEF SetUpStep
  <2> QED BY <2>1
<1>3. opener + 1 \in 1..Idle /\ opener' \in 0..Idle
  BY <1>1
<1>4. PICK name, k :
               /\ SetUp[opener + 1] = Stmt(name, k) /\ name \in StmtNames
               /\ name \in {"drop triggers", "create triggers", "populate"} => k \in Kinds
               /\ name \in {"drop cascade", "create cascade"} => k \in ToSet(Parents)
  BY <1>3, PlaceKinds
<1>5. RunStatement(Stmt(name, k))
  BY <1>1, <1>4
<1>6. schema' \in [table : BOOLEAN, triggers : SUBSET Kinds, cascades : SUBSET ToSet(Parents)]
  <2>1. schema \in [table : BOOLEAN, triggers : SUBSET Kinds, cascades : SUBSET ToSet(Parents)]
    BY DEF SearchTypeOK
  <2>2. \/ schema' = schema
        \/ schema' = [schema EXCEPT !.table = FALSE]
        \/ schema' = [schema EXCEPT !.table = TRUE]
        \/ schema' = [schema EXCEPT !.triggers = schema.triggers \ {k}]
        \/ schema' = [schema EXCEPT !.triggers = schema.triggers \cup {k}] /\ k \in Kinds
        \/ schema' = [schema EXCEPT !.cascades = schema.cascades \ {k}]
        \/ schema' = [schema EXCEPT !.cascades = schema.cascades \cup {k}] /\ k \in ToSet(Parents)
    BY <1>4, <1>5, Statements DEF StmtNames
  <2> QED BY <2>1, <2>2
<1>7. IsABag(entities') /\ \A e \in DOMAIN entities' : e.id \in Indexed
  <2>1. \/ entities' = entities \/ entities' = EmptyBag
        \/ entities' = entities (+) EntriesOf(OfKind(k), rows)
    BY <1>5, Statements
  <2>2. IsABag(entities) /\ \A e \in DOMAIN entities : e.id \in Indexed
    BY DEF SearchTypeOK
  <2> DEFINE new == EntriesOf(OfKind(k), rows)
  <2>3. IsABag(new) /\ \A e \in DOMAIN new : e.id \in Indexed
    BY EntryBag
  <2> HIDE DEF new
  <2>4. IsABag(entities (+) new) /\ DOMAIN (entities (+) new) = DOMAIN entities \cup DOMAIN new
    BY <2>2, <2>3, BagTypes
  <2>5. CASE entities' = entities (+) new
    BY <2>2, <2>3, <2>4, <2>5
  <2> QED BY <2>1, <2>2, <2>5, BagTypes DEF new
<1>8. postings' \in [Documents -> SUBSET Texts] /\ revised' \subseteq Documents
  <2>1. \A d \in Documents : rows[d].text \in Texts
    BY DEF RowStates, Documents, SearchTypeOK
  <2>2. [d \in Documents |-> IF rows[d].status = "absent" THEN {} ELSE {rows[d].text}]
            \in [Documents -> SUBSET Texts]
    BY <2>1
  <2> QED BY <1>5, <2>2, StatementPostings DEF SearchTypeOK
<1> QED BY <1>1, <1>2, <1>3, <1>6, <1>7, <1>8 DEF SearchTypeOK

LEMMA SearchTypeStep == SearchTypeOK /\ [SearchNext]_searchVars => SearchTypeOK'
<1> SUFFICES ASSUME SearchTypeOK, [SearchNext]_searchVars PROVE SearchTypeOK'
  OBVIOUS
<1>1. CASE \E r \in Rows : Insert(r) \/ Update(r) \/ SoftDelete(r) \/ Restore(r) \/ Purge(r)
  BY <1>1, WriteActions, SearchTypeWrite
<1>2. CASE Open
  <2>1. Idle \in Nat
    BY IdleIs
  <2> QED BY <1>2, <2>1 DEF Open, SearchTypeOK, indexes
<1>3. CASE SetUpStep
  BY <1>3, SearchTypeSetUp
<1>4. CASE Stop
  <2>1. Idle \in Nat
    BY IdleIs
  <2> QED BY <1>4, <2>1 DEF Stop, SearchTypeOK, indexes
<1>5. CASE Question
  BY <1>5 DEF Question, SearchTypeOK, indexes
<1>6. CASE UNCHANGED searchVars
  BY <1>6 DEF searchVars, SearchTypeOK, indexes
<1> QED BY <1>1, <1>2, <1>3, <1>4, <1>5, <1>6 DEF SearchNext

-----------------------------------------------------------------------------
(***************************************************************************)
(* FollowsTables.                                                          *)
(***************************************************************************)

\* What n statements of a set-up have copied.
Populated(n) == {r \in Rows : \E i \in 1..TableCount : i <= n - 5 /\ KindOf[r] = EntityTables[i]}

\* Since a set-up started no write overlapped: what its statements have left.
SetUpFollows ==
    ~raced =>
        /\ opener = 4 => entities = EmptyBag
        /\ opener >= 5 => schema.table /\ entities = EntriesOf(Populated(opener), rows)
        /\ opener >= 2 => "document" \in schema.triggers
        /\ \A i \in 1..TableCount :
               opener >= 5 + TableCount + 2 * i => EntityTables[i] \in schema.triggers
        /\ \A i \in 1..ParentCount :
               opener >= 5 + 3 * TableCount + 2 * i => Parents[i] \in schema.cascades

\* The index, and everything that keeps it.
AllThere ==
    /\ schema.table /\ entities = EntriesOf(Rows, rows)
    /\ Kinds \subseteq schema.triggers /\ ToSet(Parents) \subseteq schema.cascades

LEMMA PopulatedAll ==
    ASSUME NEW n \in Nat, n >= 5 + TableCount, NEW rs
    PROVE  EntriesOf(Populated(n), rs) = EntriesOf(Rows, rs)
<1>1. TableCount \in Nat
  BY Counts
<1>2. \A r \in Indexed : KindOf[r] \in ToSet(EntityTables)
  BY SearchAssumption DEF Indexed, Documents, Kinds
<1>3. \A k \in ToSet(EntityTables) : \E i \in 1..TableCount : k = EntityTables[i]
  <2>1. EntityTables \in Seq(STRING)
    BY SearchAssumption
  <2> QED BY <2>1 DEF ToSet, TableCount
<1>4. \A i \in 1..TableCount : i <= n - 5
  BY <1>1
<1>5. Populated(n) \cap Indexed = Rows \cap Indexed
  BY <1>2, <1>3, <1>4 DEF Populated, Indexed
<1>6. EntrySet(Populated(n), rs) = EntrySet(Rows, rs)
  BY <1>5 DEF EntrySet
<1> QED BY <1>6, EntryBag

LEMMA SetUpDone ==
    ASSUME SearchTypeOK, opener = Idle, ~raced
    PROVE  SetUpFollows <=> AllThere
<1> DEFINE T == TableCount
           P == ParentCount
<1>1. opener = 5 + 3 * T + 2 * P /\ T \in Nat /\ P \in Nat
  BY SetUpIs, Counts
<1>2. /\ opener >= 5 + TableCount /\ opener >= 5 /\ opener \in Nat /\ opener # 4 /\ opener >= 2
      /\ \A i \in 1..TableCount : opener >= 5 + TableCount + 2 * i
      /\ \A i \in 1..ParentCount : opener >= 5 + 3 * TableCount + 2 * i
  <2>1. /\ opener >= 5 + T /\ opener >= 5 /\ opener \in Nat /\ opener # 4 /\ opener >= 2
        /\ \A i \in 1..T : opener >= 5 + T + 2 * i
        /\ \A i \in 1..P : opener >= 5 + 3 * T + 2 * i
    <3> HIDE DEF T, P
    <3> QED BY <1>1
  <2> QED BY <2>1
<1>3. EntriesOf(Populated(opener), rows) = EntriesOf(Rows, rows)
  BY <1>2, PopulatedAll
<1>4. Kinds \subseteq schema.triggers
        <=> "document" \in schema.triggers /\ \A i \in 1..TableCount : EntityTables[i] \in schema.triggers
  <2>1. EntityTables \in Seq(STRING)
    BY SearchAssumption
  <2> QED BY <2>1 DEF Kinds, ToSet, TableCount
<1>5. ToSet(Parents) \subseteq schema.cascades <=> \A i \in 1..ParentCount : Parents[i] \in schema.cascades
  <2>1. Parents \in Seq(ToSet(EntityTables))
    BY SearchAssumption
  <2> QED BY <2>1 DEF ToSet, ParentCount
<1> QED BY <1>2, <1>3, <1>4, <1>5 DEF SetUpFollows, AllThere

\* With all triggers, a write rewrites the entry of every row that it touches
\* or whose entry is made of one that it touches.
LEMMA WriteFollows ==
    ASSUME SearchTypeOK, AllThere, NEW S, NEW rs, Writes(S, rs)
    PROVE  AllThere'
<1> DEFINE R == Rewritten(S)
<1>1. /\ schema' = schema /\ rows' = rs /\ S \subseteq Rows
      /\ entities' = Without(entities, R) (+) EntriesOf(R, rs)
      /\ \A x \in Rows \ S : rs[x] = rows[x]
  BY DEF Writes, Write, EntitiesAfter
<1>2. S \subseteq R /\ R \subseteq Rows
  <2>1. \A r \in S : KindOf[r] \in schema.triggers
    BY <1>1, SearchAssumption DEF AllThere
  <2> QED BY <1>1, <2>1 DEF Rewritten, Children
<1>3. \A c \in Rows \ R : ParentsOf[c] \cap S = {}
  <2> SUFFICES ASSUME NEW c \in Rows, NEW p \in ParentsOf[c], p \in S
               PROVE  c \in R
    OBVIOUS
  <2>1. KindOf[p] \in schema.cascades
    BY SearchAssumption DEF AllThere
  <2>2. c \in Children(p)
    BY DEF Children
  <2> QED BY <2>1, <2>2 DEF Rewritten
<1> HIDE DEF R
<1>4. Without(entities, R) = EntriesOf(Rows \ R, rows)
  BY WithoutEntries DEF AllThere
<1>5. EntriesOf(Rows \ R, rs) = EntriesOf(Rows \ R, rows)
  <2>1. \A x \in (Rows \ R) \cap Rows : rs[x] = rows[x] /\ \A p \in ParentsOf[x] : rs[p] = rows[p]
    BY <1>1, <1>2, <1>3, SearchAssumption
  <2> QED BY <2>1, EntriesAgree
<1>6. entities' = EntriesOf((Rows \ R) \cup R, rs)
  <2>1. (Rows \ R) \cap R = {}
    OBVIOUS
  <2>2. EntriesOf(Rows \ R, rs) (+) EntriesOf(R, rs) = EntriesOf((Rows \ R) \cup R, rs)
    BY <2>1, EntriesJoin
  <2> QED BY <1>1, <1>4, <1>5, <2>2
<1>7. (Rows \ R) \cup R = Rows
  BY <1>2
<1>8. entities' = EntriesOf(Rows, rows')
  BY <1>1, <1>6, <1>7
<1> QED BY <1>1, <1>8 DEF AllThere

\* A statement does its share, and spoils none of the earlier ones'.
LEMMA SetUpStepFollows ==
    ASSUME SearchTypeOK, SetUpFollows, SetUpStep
    PROVE  SetUpFollows'
<1> SUFFICES ASSUME ~raced' PROVE SetUpFollows'
  BY DEF SetUpFollows
<1> DEFINE T == TableCount
           P == ParentCount
           n == opener + 1
<1>1. /\ rows' = rows /\ opener' = n /\ RunStatement(SetUp[n])
      /\ raced \/ n # 1 => ~raced \/ n = 1
  BY DEF SetUpStep
<1>2. n = 1 \/ ~raced
  BY DEF SetUpStep
<1>3. T \in Nat /\ P \in Nat /\ opener \in Nat /\ opener < Idle /\ Idle \in Nat
      /\ opener + 1 \in 1..Idle /\ Idle = 5 + 3 * T + 2 * P
  <2>1. T \in Nat /\ P \in Nat /\ opener \in 0..Idle /\ opener < Idle /\ Idle \in Nat
    BY Counts, IdleIs DEF SetUpStep, SearchTypeOK, Idle
  <2>2. Idle = 5 + 3 * T + 2 * P
    BY SetUpIs
  <2> HIDE DEF T, P
  <2> QED BY <2>1, <2>2
<1>4. /\ schema \in [table : BOOLEAN, triggers : SUBSET Kinds, cascades : SUBSET ToSet(Parents)]
  BY DEF SearchTypeOK
<1>5. /\ \A i \in 1..T : EntityTables[i] # "document"
      /\ \A i, j \in 1..T : EntityTables[i] = EntityTables[j] => i = j
      /\ \A i, j \in 1..P : Parents[i] = Parents[j] => i = j
  BY Counts
<1> DEFINE Before ==
            /\ opener = 4 => entities = EmptyBag
            /\ opener >= 5 => schema.table /\ entities = EntriesOf(Populated(opener), rows)
            /\ opener >= 2 => "document" \in schema.triggers
            /\ \A i \in 1..T : opener >= 5 + T + 2 * i => EntityTables[i] \in schema.triggers
            /\ \A i \in 1..P : opener >= 5 + 3 * T + 2 * i => Parents[i] \in schema.cascades
           After ==
            /\ n = 4 => entities' = EmptyBag
            /\ n >= 5 => schema'.table /\ entities' = EntriesOf(Populated(n), rows)
            /\ n >= 2 => "document" \in schema'.triggers
            /\ \A i \in 1..T : n >= 5 + T + 2 * i => EntityTables[i] \in schema'.triggers
            /\ \A i \in 1..P : n >= 5 + 3 * T + 2 * i => Parents[i] \in schema'.cascades
<1>6. n # 1 => Before
  BY <1>2 DEF SetUpFollows
<1>7. After => SetUpFollows'
  BY <1>1 DEF SetUpFollows, Populated
<1> HIDE DEF T, P
<1>8. CASE n = 1
  <2>1. After
    BY <1>3, <1>8
  <2> QED BY <1>7, <2>1
<1>9. CASE n \in 2..5
  <2>1. opener < 5 + T /\ ~(n = 1)
    BY <1>3, <1>9
  <2>2. /\ \A i \in 1..T : ~(n >= 5 + T + 2 * i)
        /\ \A i \in 1..P : ~(n >= 5 + 3 * T + 2 * i)
    BY <1>3, <1>9
  <2>3. n = 2 \/ n = 3 \/ n = 4 \/ n = 5
    BY <1>3, <1>9
  <2>4. CASE n = 2
    <3>1. SetUp[n] = Stmt("create triggers", "document")
      BY <2>4, SetUpIs
    <3>2. schema' = [schema EXCEPT !.triggers = schema.triggers \cup {"document"}]
      BY <1>1, <3>1, OtherStatements
    <3>3. "document" \in schema'.triggers
      BY <1>4, <3>2
    <3>4. After
      BY <1>3, <2>2, <2>4, <3>3
    <3> QED BY <1>7, <3>4
  <2>5. CASE n = 3
    <3>1. SetUp[n] = Stmt("rebuild", "document")
      BY <2>5, SetUpIs
    <3>2. schema' = schema
      BY <1>1, <3>1, Statements
    <3>3. "document" \in schema.triggers
      BY <1>3, <1>6, <2>5
    <3>4. After
      BY <1>3, <2>2, <2>5, <3>2, <3>3
    <3> QED BY <1>7, <3>4
  <2>6. CASE n = 4
    <3>1. SetUp[n] = Stmt("drop table", "none")
      BY <2>6, SetUpIs
    <3>2. schema' = [schema EXCEPT !.table = FALSE] /\ entities' = EmptyBag
      BY <1>1, <3>1, Statements
    <3>3. "document" \in schema.triggers /\ schema'.triggers = schema.triggers
      BY <1>3, <1>4, <1>6, <2>6, <3>2
    <3>4. After
      BY <1>3, <2>2, <2>6, <3>2, <3>3
    <3> QED BY <1>7, <3>4
  <2>7. CASE n = 5
    <3>1. SetUp[n] = Stmt("create table", "none")
      BY <2>7, SetUpIs
    <3>2. schema' = [schema EXCEPT !.table = TRUE] /\ entities' = entities
      BY <1>1, <3>1, OtherStatements
    <3>3. "document" \in schema.triggers /\ schema'.triggers = schema.triggers /\ schema'.table
      BY <1>3, <1>4, <1>6, <2>7, <3>2
    <3>4. entities = EmptyBag
      BY <1>3, <1>6, <2>7
    <3>5. Populated(n) = {}
      BY <1>3, <2>7 DEF Populated, T
    <3>6. EntriesOf(Populated(n), rows) = EmptyBag
      BY <3>5 DEF EntriesOf, EmptyBag
    <3>7. After
      BY <1>3, <2>2, <2>7, <3>2, <3>3, <3>4, <3>6
    <3> QED BY <1>7, <3>7
  <2> QED BY <2>3, <2>4, <2>5, <2>6, <2>7
<1>10. CASE n \notin 1..5
  <2>1. n > 5 /\ opener >= 5 /\ n # 1
    BY <1>3, <1>10
  <2>2. /\ schema.table /\ entities = EntriesOf(Populated(opener), rows)
        /\ "document" \in schema.triggers
    BY <1>3, <1>6, <2>1
  <2>3. /\ \A i \in 1..T : opener >= 5 + T + 2 * i => EntityTables[i] \in schema.triggers
        /\ \A i \in 1..P : opener >= 5 + 3 * T + 2 * i => Parents[i] \in schema.cascades
    BY <1>6, <2>1
  <2>4. ASSUME NEW j \in 1..T, n = 5 + j PROVE After
    <3>1. SetUp[n] = Stmt("populate", EntityTables[j])
      BY <2>4, SetUpIs DEF T
    <3>2. schema' = schema /\ entities' = entities (+) EntriesOf(OfKind(EntityTables[j]), rows)
      BY <1>1, <3>1, Statements
    <3>3. Populated(opener) \cap OfKind(EntityTables[j]) = {}
      <4>1. \A i \in 1..T : i <= opener - 5 => i # j
        BY <1>3, <2>4
      <4> QED BY <1>5, <4>1 DEF Populated, OfKind, T
    <3>4. Populated(opener) \cup OfKind(EntityTables[j]) = Populated(n)
      <4>1. \A i \in 1..T : i <= n - 5 <=> i <= opener - 5 \/ i = j
        BY <1>3, <2>4
      <4> HIDE DEF n
      <4> QED BY <4>1 DEF Populated, OfKind, T
    <3>5. entities' = EntriesOf(Populated(n), rows)
      <4>1. EntriesOf(Populated(opener), rows) (+) EntriesOf(OfKind(EntityTables[j]), rows)
              = EntriesOf(Populated(opener) \cup OfKind(EntityTables[j]), rows)
        BY <3>3, EntriesJoin
      <4> QED BY <2>2, <3>2, <3>4, <4>1
    <3>6. /\ \A i \in 1..T : ~(n >= 5 + T + 2 * i)
          /\ \A i \in 1..P : ~(n >= 5 + 3 * T + 2 * i)
      BY <1>3, <2>4
    <3> QED BY <1>3, <2>1, <2>2, <3>2, <3>5, <3>6
  <2>5. ASSUME n > 5 + T, entities' = entities, schema'.table = schema.table,
               "document" \in schema'.triggers,
               \A i \in 1..T : n >= 5 + T + 2 * i => EntityTables[i] \in schema'.triggers,
               \A i \in 1..P : n >= 5 + 3 * T + 2 * i => Parents[i] \in schema'.cascades
        PROVE  After
    <3>1. opener >= 5 + TableCount /\ n >= 5 + TableCount /\ n \in Nat
      <4>1. opener >= 5 + T /\ n >= 5 + T /\ n \in Nat
        BY <1>3, <2>5
      <4> QED BY <4>1 DEF T
    <3>2. EntriesOf(Populated(opener), rows) = EntriesOf(Rows, rows)
      BY <1>3, <3>1, PopulatedAll
    <3>3. EntriesOf(Populated(n), rows) = EntriesOf(Rows, rows)
      BY <3>1, PopulatedAll
    <3> QED
      <4> HIDE DEF n
      <4> QED BY <2>1, <2>2, <2>5, <3>2, <3>3
  <2>6. ASSUME NEW j \in 1..T, n = 5 + T + 2 * j - 1 \/ n = 5 + T + 2 * j PROVE After
    <3>1. CASE n = 5 + T + 2 * j - 1
      <4>1. SetUp[n] = Stmt("drop triggers", EntityTables[j])
        BY <3>1, SetUpIs DEF T
      <4>2. schema' = [schema EXCEPT !.triggers = schema.triggers \ {EntityTables[j]}] /\ entities' = entities
        BY <1>1, <4>1, OtherStatements
      <4>3. /\ schema'.table = schema.table /\ schema'.triggers = schema.triggers \ {EntityTables[j]}
        BY <1>4, <4>2
      <4>4. /\ \A i \in 1..T : n >= 5 + T + 2 * i => opener >= 5 + T + 2 * i /\ i # j
            /\ \A i \in 1..P : ~(n >= 5 + 3 * T + 2 * i)
            /\ n > 5 + T
        BY <1>3, <3>1
      <4>5. \A i \in 1..T : n >= 5 + T + 2 * i => EntityTables[i] \in schema'.triggers
        BY <1>5, <2>3, <4>3, <4>4
      <4>6. "document" \in schema'.triggers
        BY <1>5, <2>2, <4>3
      <4> QED
        <5> HIDE DEF After, n
        <5> QED BY <2>5, <4>2, <4>3, <4>4, <4>5, <4>6
    <3>2. CASE n = 5 + T + 2 * j
      <4>1. SetUp[n] = Stmt("create triggers", EntityTables[j])
        BY <3>2, SetUpIs DEF T
      <4>2. schema' = [schema EXCEPT !.triggers = schema.triggers \cup {EntityTables[j]}] /\ entities' = entities
        BY <1>1, <4>1, OtherStatements
      <4>3. /\ schema'.table = schema.table /\ schema'.triggers = schema.triggers \cup {EntityTables[j]}
        BY <1>4, <4>2
      <4>4. /\ \A i \in 1..T : n >= 5 + T + 2 * i => opener >= 5 + T + 2 * i \/ i = j
            /\ \A i \in 1..P : ~(n >= 5 + 3 * T + 2 * i)
            /\ n > 5 + T
        BY <1>3, <3>2
      <4>5. \A i \in 1..T : n >= 5 + T + 2 * i => EntityTables[i] \in schema'.triggers
        BY <2>3, <4>3, <4>4
      <4>6. "document" \in schema'.triggers
        BY <2>2, <4>3
      <4> QED
        <5> HIDE DEF After, n
        <5> QED BY <2>5, <4>2, <4>3, <4>4, <4>5, <4>6
    <3> QED BY <2>6, <3>1, <3>2
  <2>7. ASSUME NEW j \in 1..P, n = 5 + 3 * T + 2 * j - 1 \/ n = 5 + 3 * T + 2 * j PROVE After
    <3>1. /\ \A i \in 1..T : n >= 5 + T + 2 * i => opener >= 5 + T + 2 * i
          /\ n > 5 + T
      BY <1>3, <2>7
    <3>2. CASE n = 5 + 3 * T + 2 * j - 1
      <4>1. SetUp[n] = Stmt("drop cascade", Parents[j])
        BY <3>2, SetUpIs DEF T, P
      <4>2. schema' = [schema EXCEPT !.cascades = schema.cascades \ {Parents[j]}] /\ entities' = entities
        BY <1>1, <4>1, OtherStatements
      <4>3. /\ schema'.table = schema.table /\ schema'.triggers = schema.triggers
            /\ schema'.cascades = schema.cascades \ {Parents[j]}
        BY <1>4, <4>2
      <4>4. \A i \in 1..P : n >= 5 + 3 * T + 2 * i => opener >= 5 + 3 * T + 2 * i /\ i # j
        BY <1>3, <3>2
      <4>5. \A i \in 1..P : n >= 5 + 3 * T + 2 * i => Parents[i] \in schema'.cascades
        BY <1>5, <2>3, <4>3, <4>4
      <4> QED
        <5> HIDE DEF After, n
        <5> QED BY <2>2, <2>3, <2>5, <3>1, <4>2, <4>3, <4>5
    <3>3. CASE n = 5 + 3 * T + 2 * j
      <4>1. SetUp[n] = Stmt("create cascade", Parents[j])
        BY <3>3, SetUpIs DEF T, P
      <4>2. schema' = [schema EXCEPT !.cascades = schema.cascades \cup {Parents[j]}] /\ entities' = entities
        BY <1>1, <4>1, OtherStatements
      <4>3. /\ schema'.table = schema.table /\ schema'.triggers = schema.triggers
            /\ schema'.cascades = schema.cascades \cup {Parents[j]}
        BY <1>4, <4>2
      <4>4. \A i \in 1..P : n >= 5 + 3 * T + 2 * i => opener >= 5 + 3 * T + 2 * i \/ i = j
        BY <1>3, <3>3
      <4>5. \A i \in 1..P : n >= 5 + 3 * T + 2 * i => Parents[i] \in schema'.cascades
        BY <2>3, <4>3, <4>4
      <4> QED
        <5> HIDE DEF After, n
        <5> QED BY <2>2, <2>3, <2>5, <3>1, <4>2, <4>3, <4>5
    <3> QED BY <2>7, <3>2, <3>3
  <2>8. \/ \E i \in 1..T : n = 5 + i
        \/ \E i \in 1..T : n = 5 + T + 2 * i - 1 \/ n = 5 + T + 2 * i
        \/ \E i \in 1..P : n = 5 + 3 * T + 2 * i - 1 \/ n = 5 + 3 * T + 2 * i
    BY <1>3, <1>10, Places DEF T, P
  <2>9. After
    <3> HIDE DEF After, n
    <3> QED BY <2>4, <2>6, <2>7, <2>8
  <2> QED BY <1>7, <2>9
<1>11. n \in 1..5 => n = 1 \/ n \in 2..5
  BY <1>3
<1> QED BY <1>8, <1>9, <1>10, <1>11

LEMMA FollowsInit == SearchInit => SetUpFollows
<1> SUFFICES ASSUME SearchInit PROVE SetUpFollows
  OBVIOUS
<1>1. SearchTypeOK /\ opener = Idle /\ ~raced
  BY SearchTypeInit DEF SearchInit
<1>2. AllThere
  BY DEF SearchInit, AllThere
<1> QED BY <1>1, <1>2, SetUpDone

LEMMA FollowsStep == SearchTypeOK /\ SetUpFollows /\ [SearchNext]_searchVars => SetUpFollows'
<1> SUFFICES ASSUME SearchTypeOK, SetUpFollows, [SearchNext]_searchVars PROVE SetUpFollows'
  OBVIOUS
<1>1. ASSUME NEW S, NEW rs, Writes(S, rs) PROVE SetUpFollows'
  <2> SUFFICES ASSUME ~raced' PROVE SetUpFollows'
    BY DEF SetUpFollows
  <2>1. ~raced /\ opener = Idle /\ opener' = opener
    <3>1. raced' = (raced \/ opener # Idle) /\ opener' = opener
      BY <1>1 DEF Writes, Write
    <3> QED BY <3>1
  <2>2. AllThere
    BY <2>1, SetUpDone
  <2>3. AllThere'
    BY <1>1, <2>2, WriteFollows
  <2>4. SearchTypeOK'
    BY SearchTypeStep
  <2>5. (opener = Idle /\ ~raced)'
    BY <2>1 DEF Idle, SetUp, EmptyTable, PerTable, Pairs, Stmt
  <2>6. SearchTypeOK' /\ (opener = Idle)' /\ ~raced' => (SetUpFollows <=> AllThere)'
    BY SetUpDone, PTL
  <2> QED BY <2>3, <2>4, <2>5, <2>6
<1>2. CASE \E r \in Rows : Insert(r) \/ Update(r) \/ SoftDelete(r) \/ Restore(r) \/ Purge(r)
  BY <1>1, <1>2, WriteActions
<1>3. CASE Open
  <2>1. opener' = 0 /\ raced' = raced
    BY <1>3 DEF Open
  <2>2. TableCount \in Nat /\ ParentCount \in Nat
    BY Counts
  <2>3. /\ ~(0 >= 5) /\ 0 # 4 /\ ~(0 >= 2)
        /\ \A i \in 1..TableCount : ~(0 >= 5 + TableCount + 2 * i)
        /\ \A i \in 1..ParentCount : ~(0 >= 5 + 3 * TableCount + 2 * i)
    BY <2>2
  <2> QED BY <2>1, <2>3 DEF SetUpFollows
<1>4. CASE SetUpStep
  BY <1>4, SetUpStepFollows
<1>5. CASE Stop
  BY <1>5 DEF Stop, SetUpFollows
<1>6. CASE Question \/ UNCHANGED searchVars
  <2>1. UNCHANGED <<rows, entities, schema, opener, raced>>
    BY <1>6 DEF Question, searchVars, indexes
  <2> QED BY <2>1 DEF SetUpFollows, Populated
<1> QED BY <1>2, <1>3, <1>4, <1>5, <1>6 DEF SearchNext

-----------------------------------------------------------------------------
(***************************************************************************)
(* FoundByItsText.                                                         *)
(***************************************************************************)

\* What a document is found by: nothing before it is created, its text while it
\* is not deleted, and nothing else unless it was changed while it was deleted.
PostingsFollow ==
    ~raced /\ opener \in {0} \cup 3..Idle =>
        \A d \in Documents :
            /\ rows[d].status = "absent" => postings[d] = {}
            /\ rows[d].status = "live" => rows[d].text \in postings[d]
            /\ d \notin revised => postings[d] \subseteq {rows[d].text}

LEMMA PostingsInit == SearchInit => PostingsFollow
<1> SUFFICES ASSUME SearchInit, NEW d \in Documents
             PROVE  /\ rows[d].status = "absent" => postings[d] = {}
                    /\ rows[d].status = "live" => rows[d].text \in postings[d]
                    /\ d \notin revised => postings[d] \subseteq {rows[d].text}
  BY DEF PostingsFollow
<1>1. d \in Rows /\ rows[d].status = IF d \in Unborn THEN "absent" ELSE "live"
  BY DEF SearchInit, Documents
<1>2. postings[d] = IF d \in Unborn THEN {} ELSE {rows[d].text}
  BY DEF SearchInit
<1> QED BY <1>1, <1>2

LEMMA PostingsWrite ==
    ASSUME SearchTypeOK, SetUpFollows, PostingsFollow, NEW S, NEW rs, Writes(S, rs)
    PROVE  PostingsFollow'
<1>1. /\ rows' = rs /\ opener' = opener /\ raced' = (raced \/ opener # Idle)
      /\ postings' = PostingsAfter(S, rs)
      /\ revised' = revised \cup {d \in S \cap Documents :
                        rows[d].status = "deleted" /\ rs[d].text # rows[d].text}
  BY DEF Writes, Write
<1> SUFFICES ASSUME ~raced', NEW d \in Documents
             PROVE  /\ rs[d].status = "absent" => postings'[d] = {}
                    /\ rs[d].status = "live" => rs[d].text \in postings'[d]
                    /\ d \notin revised' => postings'[d] \subseteq {rs[d].text}
  BY <1>1 DEF PostingsFollow
<1>2. ~raced /\ opener = Idle
  BY <1>1
<1>3. "document" \in schema.triggers
  <2>1. AllThere
    BY <1>2, SetUpDone
  <2> QED BY <2>1 DEF AllThere, Kinds
<1>4. /\ rows[d].status = "absent" => postings[d] = {}
      /\ rows[d].status = "live" => rows[d].text \in postings[d]
      /\ d \notin revised => postings[d] \subseteq {rows[d].text}
  <2>1. opener \in {0} \cup 3..Idle
    BY <1>2, IdleIs
  <2> QED BY <1>2, <2>1 DEF PostingsFollow
<1>5. d \in Rows /\ rows[d].status \in {"absent", "live", "deleted"} /\ rs[d].status \in {"absent", "live", "deleted"}
  BY DEF Documents, SearchTypeOK, Writes, RowStates
<1>6. CASE d \notin S
  <2>1. rs[d] = rows[d] /\ postings'[d] = postings[d]
    BY <1>1, <1>5, <1>6 DEF Writes, PostingsAfter
  <2> QED BY <1>1, <1>4, <2>1
<1>7. CASE d \in S
  <2>1. postings'[d] = (postings[d] \ IF rows[d].status = "live" THEN {rows[d].text} ELSE {})
                           \cup IF rs[d].status = "live" THEN {rs[d].text} ELSE {}
    BY <1>1, <1>3, <1>5, <1>7 DEF PostingsAfter, Live
  <2>2. /\ rs[d].status # "absent"
        /\ rows[d].status \in {"absent", rs[d].status} \/ rs[d].text = rows[d].text
    BY <1>7 DEF Writes
  <2>3. rs[d].status = "live" => rs[d].text \in postings'[d]
    BY <2>1
  <2>4. ASSUME d \notin revised' PROVE postings'[d] \subseteq {rs[d].text}
    <3>1. d \notin revised /\ (rows[d].status = "deleted" => rs[d].text = rows[d].text)
      BY <1>1, <1>7, <2>4
    <3>2. postings[d] \subseteq {rows[d].text}
      BY <1>4, <3>1
    <3>3. CASE rows[d].status = "live"
      BY <2>1, <3>2, <3>3
    <3>4. CASE rows[d].status = "absent"
      BY <1>4, <2>1, <3>4
    <3>5. CASE rows[d].status = "deleted"
      BY <2>1, <3>1, <3>2, <3>5
    <3> QED BY <1>5, <3>3, <3>4, <3>5
  <2> QED BY <2>2, <2>3, <2>4
<1> QED BY <1>6, <1>7

LEMMA PostingsSetUp ==
    ASSUME SearchTypeOK, PostingsFollow, SetUpStep
    PROVE  PostingsFollow'
<1> SUFFICES ASSUME ~raced', opener' \in {0} \cup 3..Idle'
             PROVE  (\A d \in Documents :
                        /\ rows[d].status = "absent" => postings[d] = {}
                        /\ rows[d].status = "live" => rows[d].text \in postings[d]
                        /\ d \notin revised => postings[d] \subseteq {rows[d].text})'
  BY DEF PostingsFollow
<1>1. /\ opener \in Nat /\ opener < Idle /\ Idle \in Nat /\ opener' = opener + 1 /\ rows' = rows
      /\ RunStatement(SetUp[opener + 1])
  <2>1. opener \in 0..Idle /\ Idle \in Nat
    BY IdleIs DEF SearchTypeOK
  <2> QED BY <2>1 DEF SetUpStep, Idle
<1>2. opener + 1 \in 1..Idle /\ opener + 1 >= 3
  BY <1>1
<1>3. ~raced
  <2>1. ~raced \/ opener + 1 = 1
    BY DEF SetUpStep
  <2> QED BY <1>2, <2>1
<1>4. \A d \in Documents : rows[d].status \in {"absent", "live", "deleted"}
  BY DEF SearchTypeOK, Documents, RowStates
<1>5. CASE opener + 1 = 3
  <2>1. RunStatement(Stmt("rebuild", "document"))
    BY <1>1, <1>5, SetUpIs
  <2>2. postings' = [d \in Documents |-> IF rows[d].status = "absent" THEN {} ELSE {rows[d].text}]
    BY <2>1, StatementPostings
  <2> QED BY <1>1, <2>2
<1>6. CASE opener + 1 # 3
  <2>1. PICK name, k : SetUp[opener + 1] = Stmt(name, k) /\ name # "rebuild"
    BY <1>2, <1>6, PlaceKinds
  <2>2. postings' = postings /\ revised' = revised
    <3>1. RunStatement(Stmt(name, k))
      BY <1>1, <2>1
    <3> QED BY <2>1, <3>1, StatementPostings
  <2>3. opener \in {0} \cup 3..Idle
    BY <1>1, <1>2, <1>6
  <2> QED BY <1>1, <1>3, <2>2, <2>3 DEF PostingsFollow
<1> QED BY <1>5, <1>6

LEMMA PostingsStep ==
    SearchTypeOK /\ SetUpFollows /\ PostingsFollow /\ [SearchNext]_searchVars => PostingsFollow'
<1> SUFFICES ASSUME SearchTypeOK, SetUpFollows, PostingsFollow, [SearchNext]_searchVars
             PROVE  PostingsFollow'
  OBVIOUS
<1>1. CASE \E r \in Rows : Insert(r) \/ Update(r) \/ SoftDelete(r) \/ Restore(r) \/ Purge(r)
  BY <1>1, WriteActions, PostingsWrite
<1>2. CASE Open
  <2>1. opener \in {0} \cup 3..Idle /\ UNCHANGED <<rows, postings, raced, revised>>
    BY <1>2, IdleIs DEF Open, indexes
  <2> QED BY <2>1 DEF PostingsFollow
<1>3. CASE SetUpStep
  BY <1>3, PostingsSetUp
<1>4. CASE Stop
  BY <1>4 DEF Stop, PostingsFollow
<1>5. CASE Question \/ UNCHANGED searchVars
  <2>1. UNCHANGED <<rows, postings, opener, raced, revised>>
    BY <1>5 DEF Question, searchVars, indexes
  <2> QED BY <2>1 DEF PostingsFollow, Idle, SetUp, EmptyTable, PerTable, Pairs, Stmt
<1> QED BY <1>1, <1>2, <1>3, <1>4, <1>5 DEF SearchNext

-----------------------------------------------------------------------------
(***************************************************************************)
(* KindsAnswered.                                                          *)
(***************************************************************************)

\* An answer is of the rows as they are. While the index follows them all that
\* matched is still there.
Answered ==
    answer = NoAnswer \/ /\ answer.hits \subseteq Rows
                         /\ answer.found = BestMatches(answer.hits) \cap Live(rows)
                         /\ opener = Idle /\ ~raced => answer.hits \subseteq Live(rows)

LEMMA AnsweredStep == SearchTypeOK /\ SetUpFollows /\ Answered /\ [SearchNext]_searchVars => Answered'
<1> SUFFICES ASSUME SearchTypeOK, SetUpFollows, Answered, [SearchNext]_searchVars PROVE Answered'
  OBVIOUS
<1>1. CASE answer' = NoAnswer
  BY <1>1 DEF Answered, NoAnswer
<1>2. CASE \E r \in Rows : Insert(r) \/ Update(r) \/ SoftDelete(r) \/ Restore(r) \/ Purge(r)
  <2>1. answer' = NoAnswer
    BY <1>2, WriteActions DEF Writes, Write
  <2> QED BY <1>1, <2>1
<1>3. CASE Open \/ SetUpStep \/ Stop
  <2>1. answer' = NoAnswer
    BY <1>3 DEF Open, SetUpStep, Stop
  <2> QED BY <1>1, <2>1
<1>4. CASE Question
  <2>1. UNCHANGED <<rows, opener, raced>>
    BY <1>4 DEF Question
  <2>2. PICK q \in Questions :
            answer' = [hits  |-> q \cap {e.id : e \in DOMAIN entities},
                       found |-> BestMatches(q \cap {e.id : e \in DOMAIN entities}) \cap Live(rows)]
    BY <1>4 DEF Question
  <2> DEFINE hits == q \cap {e.id : e \in DOMAIN entities}
  <2>3. hits \subseteq Rows
    BY SearchAssumption
  <2>4. ASSUME opener = Idle, ~raced PROVE hits \subseteq Live(rows)
    <3>1. entities = [e \in EntrySet(Rows, rows) |-> 1]
      BY <2>4, SetUpDone, EntryBag DEF AllThere
    <3>2. \A e \in DOMAIN entities : e.id \in Live(rows)
      BY <3>1 DEF EntrySet, Entry
    <3> QED BY <3>2
  <2>5. answer'.hits = hits /\ answer'.found = BestMatches(hits) \cap Live(rows)
    BY <2>2
  <2> HIDE DEF hits
  <2>6. /\ answer'.hits \subseteq Rows
        /\ answer'.found = BestMatches(answer'.hits) \cap Live(rows)
        /\ opener = Idle /\ ~raced => answer'.hits \subseteq Live(rows)
    BY <2>3, <2>4, <2>5
  <2> QED BY <2>1, <2>6 DEF Answered, Live, Idle, SetUp, EmptyTable, PerTable, Pairs, Stmt
<1>5. CASE UNCHANGED searchVars
  <2>1. UNCHANGED <<rows, opener, raced, answer>>
    BY <1>5 DEF searchVars
  <2> QED BY <2>1 DEF Answered, Live, Idle, SetUp, EmptyTable, PerTable, Pairs, Stmt
<1> QED BY <1>2, <1>3, <1>4, <1>5 DEF SearchNext

LEMMA AnswersHold == Answered => KindsAnswered
<1> SUFFICES ASSUME Answered PROVE KindsAnswered
  OBVIOUS
<1> DEFINE kinds(S) == {KindOf[r] : r \in S}
<1>1. CASE answer = NoAnswer
  <2>1. answer.hits = {} /\ answer.found = {}
    BY <1>1 DEF NoAnswer
  <2>2. Cardinality(answer.found) <= Total
    BY <2>1, FS_EmptySet, SearchAssumption
  <2> QED BY <2>1, <2>2 DEF KindsAnswered
<1>2. CASE answer # NoAnswer
  <2> DEFINE hits == answer.hits
             best == BestMatches(hits)
  <2>1. /\ hits \in SUBSET Rows /\ answer.found = best \cap Live(rows)
        /\ opener = Idle /\ ~raced => hits \subseteq Live(rows)
    BY <1>2 DEF Answered
  <2>2. /\ best \in SUBSET hits /\ IsFiniteSet(best) /\ Cardinality(best) <= Total
        /\ Cardinality(kinds(hits)) <= Total =>
               \A r \in hits : \E f \in best : KindOf[f] = KindOf[r]
    BY <2>1, MatchesOfAllKinds
  <2>3. Cardinality(answer.found) <= Total
    <3>1. answer.found \in SUBSET best
      BY <2>1
    <3> HIDE DEF best
    <3>2. Cardinality(answer.found) <= Cardinality(best) /\ IsFiniteSet(answer.found)
      BY <2>2, <3>1, FS_Subset
    <3>3. Cardinality(answer.found) \in Nat /\ Cardinality(best) \in Nat /\ Total \in Nat
      BY <2>2, <3>2, FS_CardinalityType, SearchAssumption
    <3> QED BY <2>2, <3>2, <3>3
  <2>4. ASSUME Cardinality(kinds(hits)) <= Total, opener = Idle, ~raced
        PROVE  kinds(answer.found) = kinds(hits)
    <3>1. answer.found = best
      BY <2>1, <2>2, <2>4
    <3>2. \A r \in hits : \E f \in best : KindOf[f] = KindOf[r]
      BY <2>2, <2>4
    <3>3. best \subseteq hits
      BY <2>2
    <3> HIDE DEF best, hits
    <3> QED BY <3>1, <3>2, <3>3
  <2> QED BY <2>3, <2>4 DEF KindsAnswered
<1> QED BY <1>1, <1>2

-----------------------------------------------------------------------------
SearchInv == SearchTypeOK /\ SetUpFollows /\ PostingsFollow /\ Answered

LEMMA SearchHolds == SearchInit /\ [][SearchNext]_searchVars => []SearchInv
<1>1. SearchInit => SearchInv
  BY SearchTypeInit, FollowsInit, PostingsInit DEF SearchInv, Answered, SearchInit
<1>2. SearchInv /\ [SearchNext]_searchVars => SearchInv'
  BY SearchTypeStep, FollowsStep, PostingsStep, AnsweredStep DEF SearchInv
<1> QED BY <1>1, <1>2, PTL

\* Rows, both indexes, the triggers and the set-up under way stay in their types:
\* entities_fts is a bag of entries of rows of its tables.
THEOREM SearchTypeCorrect == SearchInit /\ [][SearchNext]_searchVars => []SearchTypeOK
<1>1. SearchInv => SearchTypeOK
  BY DEF SearchInv
<1> QED BY <1>1, SearchHolds, PTL

\* However many writes and openings there are, and of whatever tables: after an
\* opening that no write overlapped, entities_fts is what copying all tables anew
\* would make of it, for as long as no other opening is cut short or overlapped.
THEOREM EntitiesFollow == SearchInit /\ [][SearchNext]_searchVars => []FollowsTables
<1>1. SearchInv => FollowsTables
  <2> SUFFICES ASSUME SearchInv, opener = Idle, ~raced
               PROVE  entities = EntriesOf(Rows, rows)
    BY DEF FollowsTables
  <2>1. AllThere
    BY SetUpDone DEF SearchInv
  <2> QED BY <2>1 DEF AllThere
<1> QED BY <1>1, SearchHolds, PTL

\* A document that is not deleted is found by the text it has and by no other,
\* whatever was written, deleted, restored and set up again before, unless it was
\* changed while it was deleted.
THEOREM DocumentsFound == SearchInit /\ [][SearchNext]_searchVars => []FoundByItsText
<1>1. SearchInv => FoundByItsText
  <2> SUFFICES ASSUME SearchInv, opener \in {0} \cup 3..Len(SetUp), ~raced,
                      NEW d \in Live(rows) \cap Documents
               PROVE  /\ d \in FoundBy(rows[d].text)
                      /\ d \in revised \/ \A t \in Texts \ {rows[d].text} : d \notin FoundBy(t)
    BY DEF FoundByItsText
  <2>1. /\ rows[d].status = "live"
        /\ rows[d].status = "live" => rows[d].text \in postings[d]
        /\ d \notin revised => postings[d] \subseteq {rows[d].text}
    BY DEF SearchInv, PostingsFollow, Live, Idle
  <2> QED BY <2>1 DEF FoundBy
<1> QED BY <1>1, SearchHolds, PTL

\* However large the tables are and however well their rows match: an answer has
\* no more rows than it has room for, and one of each kind of rows that match, if
\* it has room for one of each.
THEOREM AllKindsAnswered == SearchInit /\ [][SearchNext]_searchVars => []KindsAnswered
<1>1. SearchInv => KindsAnswered
  BY AnswersHold DEF SearchInv
<1> QED BY <1>1, SearchHolds, PTL
=============================================================================
