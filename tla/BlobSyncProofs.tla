--------------------------- MODULE BlobSyncProofs ---------------------------
(***************************************************************************)
(* Proofs about BlobSync: what uploads and downloads leave on the devices  *)
(* and on the relay, for any number of devices, documents, files and sizes *)
(* and for every quota.                                                    *)
(*                                                                         *)
(* BlobInv is inductive.  A document whose file was never replaced has one *)
(* file in all that mentions it (OneFile): the rows, the operations and    *)
(* what the cycles have queued.  It starts so because a document that no   *)
(* device has is mentioned nowhere (RowsMade), and a deletion or restore   *)
(* finds its row because a put precedes it (PutFirst).  What a cycle has   *)
(* in its hand is the file at the head of its queue (HandHolds).           *)
(***************************************************************************)
EXTENDS BlobSync, TLAPS, FiniteSetTheorems

Phases == {"idle", "pull", "push", "head", "load", "put", "get", "save"}

Op == [kind : {"put"}, doc : Docs, file : Files, by : Devices]
      \cup [kind : {"delete", "restore"}, doc : Docs, file : {None}, by : Devices]

TypeOK ==
    /\ row \in [Devices -> [Docs -> Document \cup {None}]]
    /\ unsynced \in [Devices -> Seq(Op)]
    /\ seen \in [Devices -> Nat]
    /\ pc \in [Devices -> Phases]
    /\ queue \in [Devices -> Seq(Op)]
    /\ hand \in [Devices -> Files \cup {None}]
    /\ log \in Seq(Op)
    /\ blobs \in [Files -> Files \cup {None}]
    /\ status \in Statuses
    /\ edits \in Nat /\ events \in Nat /\ faults \in Nat
    /\ unsent \subseteq Files
    /\ replaced \subseteq Docs

\* A device pushes its own operations.
OwnOps == \A d \in Devices : \A i \in DOMAIN unsynced[d] : unsynced[d][i].by = d

\* What is loaded, sent or saved is the file at the head of the queue, and only
\* files are fetched.
HandHolds == \A d \in Devices :
    /\ pc[d] = "load" => queue[d] # <<>> /\ HasFile(Head(queue[d]))
    /\ pc[d] \in {"put", "save"} =>
        /\ queue[d] # <<>>
        /\ hand[d] # None
        /\ hand[d] = Head(queue[d]).file
    /\ pc[d] \in {"get", "save"} => \A i \in DOMAIN queue[d] : HasFile(queue[d][i])

\* The first operation on a document is the one that makes it, so that no
\* deletion or restore is applied to a row that is not there.
PutIn(s, x, n) == \E j \in 1..n : s[j].kind = "put" /\ s[j].doc = x

PutFirst ==
    /\ \A i \in DOMAIN log : PutIn(log, log[i].doc, i)
    /\ \A d \in Devices : \A i \in DOMAIN unsynced[d] :
        \/ PutIn(log, unsynced[d][i].doc, Len(log))
        \/ PutIn(unsynced[d], unsynced[d][i].doc, i)
    /\ \A d \in Devices, x \in Docs : row[d][x] # None =>
        \/ PutIn(log, x, Len(log))
        \/ PutIn(unsynced[d], x, Len(unsynced[d]))

\* A device has a row for what it has pulled, logged, pushed or queued.
RowsMade == \A d \in Devices :
    /\ seen[d] <= Len(log)
    /\ \A i \in DOMAIN log : i <= seen[d] \/ log[i].by = d => row[d][log[i].doc] # None
    /\ \A i \in DOMAIN unsynced[d] : row[d][unsynced[d][i].doc] # None
    /\ \A i \in DOMAIN queue[d] : row[d][queue[d][i].doc] # None

\* Every operation of s on x that names a file names f.
Names(s, x, f) == \A i \in DOMAIN s : s[i].doc = x => s[i].file \in {f, None}

FileOf(x, f) ==
    /\ Names(log, x, f)
    /\ \A d \in Devices :
        /\ Names(unsynced[d], x, f)
        /\ Names(queue[d], x, f)
        /\ row[d][x] # None => row[d][x].ref = f /\ row[d][x].bytes \in {None, f}

OneFile == \A x \in Docs \ replaced : \E f \in Files \cup {None} : FileOf(x, f)

BlobInv ==
    /\ TypeOK /\ OwnOps /\ HandHolds
    /\ PutFirst /\ RowsMade /\ OneFile
    /\ QuotaHeld /\ NoneForgotten

-----------------------------------------------------------------------------
(* Sequences: what is appended, concatenated and dropped. *)

LEMMA TailOf ==
    ASSUME NEW S, NEW s \in Seq(S), s # <<>>
    PROVE  /\ Head(s) \in S /\ Tail(s) \in Seq(S)
           /\ \E i \in DOMAIN s : s[i] = Head(s)
           /\ \A i \in DOMAIN Tail(s) : \E j \in DOMAIN s : Tail(s)[i] = s[j]
           /\ \A j \in DOMAIN s : \/ s[j] = Head(s)
                                  \/ \E i \in DOMAIN Tail(s) : Tail(s)[i] = s[j]
<1>1. /\ Len(s) \in Nat /\ Len(s) > 0 /\ DOMAIN s = 1..Len(s) /\ Head(s) = s[1]
      /\ Head(s) \in S /\ Tail(s) \in Seq(S)
      /\ DOMAIN Tail(s) = 1..(Len(s) - 1)
      /\ \A i \in 1..(Len(s) - 1) : Tail(s)[i] = s[i + 1]
  OBVIOUS
<1>2. ASSUME NEW i \in DOMAIN Tail(s) PROVE \E j \in DOMAIN s : Tail(s)[i] = s[j]
  <2>1. i + 1 \in DOMAIN s /\ Tail(s)[i] = s[i + 1]
    BY <1>1
  <2> QED BY <2>1
<1>3. ASSUME NEW j \in DOMAIN s, j # 1
      PROVE  \E i \in DOMAIN Tail(s) : Tail(s)[i] = s[j]
  <2>1. j - 1 \in DOMAIN Tail(s) /\ Tail(s)[j - 1] = s[j]
    BY <1>1, <1>3
  <2> QED BY <2>1
<1>4. \E i \in DOMAIN s : s[i] = Head(s)
  BY <1>1
<1> QED BY <1>1, <1>2, <1>3, <1>4

LEMMA ConcatOf ==
    ASSUME NEW S, NEW s \in Seq(S), NEW t \in Seq(S)
    PROVE  /\ s \o t \in Seq(S)
           /\ \A i \in DOMAIN (s \o t) :
                \/ i \in DOMAIN s /\ (s \o t)[i] = s[i]
                \/ \E j \in DOMAIN t : (s \o t)[i] = t[j]
<1>1. /\ Len(s) \in Nat /\ Len(t) \in Nat
      /\ DOMAIN s = 1..Len(s) /\ DOMAIN t = 1..Len(t)
      /\ s \o t \in Seq(S) /\ DOMAIN (s \o t) = 1..(Len(s) + Len(t))
      /\ \A i \in 1..(Len(s) + Len(t)) :
            (s \o t)[i] = IF i <= Len(s) THEN s[i] ELSE t[i - Len(s)]
  OBVIOUS
<1>2. ASSUME NEW i \in DOMAIN (s \o t), ~(i \in DOMAIN s)
      PROVE  \E j \in DOMAIN t : (s \o t)[i] = t[j]
  <2>1. i - Len(s) \in DOMAIN t /\ (s \o t)[i] = t[i - Len(s)]
    BY <1>1, <1>2
  <2> QED BY <2>1
<1>3. ASSUME NEW i \in DOMAIN (s \o t), i \in DOMAIN s
      PROVE  (s \o t)[i] = s[i]
  BY <1>1, <1>3
<1> QED BY <1>1, <1>2, <1>3

LEMMA AppendOf ==
    ASSUME NEW S, NEW s \in Seq(S), NEW e \in S
    PROVE  /\ Append(s, e) \in Seq(S)
           /\ \A i \in DOMAIN Append(s, e) :
                \/ i \in DOMAIN s /\ Append(s, e)[i] = s[i]
                \/ Append(s, e)[i] = e
<1>1. /\ Len(s) \in Nat /\ DOMAIN s = 1..Len(s)
      /\ Append(s, e) \in Seq(S) /\ DOMAIN Append(s, e) = 1..(Len(s) + 1)
      /\ \A i \in 1..(Len(s) + 1) :
            Append(s, e)[i] = IF i <= Len(s) THEN s[i] ELSE e
  OBVIOUS
<1> QED BY <1>1

-----------------------------------------------------------------------------
(* The bytes stored. *)

LEMMA BytesOf ==
    ASSUME BlobSyncAssumption, NEW f \in Files
    PROVE  IsFiniteSet(Bytes(f)) /\ Cardinality(Bytes(f)) = Size[f]
<1>1. Size[f] \in Nat
  BY DEF BlobSyncAssumption
<1>2. IsFiniteSet({f}) /\ Cardinality({f}) = 1
  BY FS_Singleton
<1>3. IsFiniteSet(1..Size[f]) /\ Cardinality(1..Size[f]) = Size[f]
  BY <1>1, FS_Interval
<1> DEFINE I == 1..Size[f]
<1>4. /\ IsFiniteSet({f} \X I)
      /\ Cardinality({f} \X I) = Cardinality({f}) * Cardinality(I)
  <2> HIDE DEF I
  <2>1. IsFiniteSet(I)
    BY <1>3 DEF I
  <2> QED BY <1>2, <2>1, FS_Product
<1>5. 1 * Size[f] = Size[f]
  BY <1>1
<1> QED BY <1>2, <1>3, <1>4, <1>5 DEF Bytes

LEMMA StoredFinite ==
    ASSUME BlobSyncAssumption, NEW S \in SUBSET Files
    PROVE  LET B == UNION {Bytes(f) : f \in S} IN IsFiniteSet(B) /\ Cardinality(B) \in Nat
<1> DEFINE T == {Bytes(f) : f \in S}
           h == [g \in S |-> Bytes(g)]
<1>1. IsFiniteSet(S)
  BY FS_Subset DEF BlobSyncAssumption
<1>2. h \in Surjection(S, T)
  BY DEF Surjection
<1>3. IsFiniteSet(T)
  <2> HIDE DEF T, h
  <2> QED BY <1>1, <1>2, FS_Surjection
<1>4. \A B \in T : IsFiniteSet(B)
  BY BytesOf
<1>5. IsFiniteSet(UNION T)
  <2> HIDE DEF T
  <2> QED BY <1>3, <1>4, FS_UNION
<1> QED BY <1>5, FS_CardinalityType

\* What the relay stores it keeps, so that what has no room never has.
LEMMA StoredGrows ==
    ASSUME BlobSyncAssumption, \A g \in Files : blobs[g] # None => blobs'[g] # None
    PROVE  /\ Used \in Nat /\ Used' \in Nat /\ Used <= Used'
           /\ \A f \in Files : ~Fits(f) => ~Fits(f)'
<1>1. Stored \subseteq Stored'
  BY DEF Stored
<1>2. IsFiniteSet(Stored) /\ Used \in Nat
  BY StoredFinite DEF Stored, Used
<1>3. IsFiniteSet(Stored') /\ Used' \in Nat
  BY StoredFinite DEF Stored, Used
<1>4. Used <= Used'
  BY <1>1, <1>3, FS_Subset DEF Used
<1>5. Quota \in Nat /\ \A f \in Files : Size[f] \in Nat
  BY DEF BlobSyncAssumption
<1> QED BY <1>2, <1>3, <1>4, <1>5 DEF Fits

-----------------------------------------------------------------------------
(* Types. *)

LEMMA InitTypeOK == BlobSyncAssumption /\ Init => TypeOK
<1> SUFFICES ASSUME BlobSyncAssumption, Init PROVE TypeOK
  OBVIOUS
<1>1. <<>> \in Seq(Op)
  OBVIOUS
<1> QED BY <1>1 DEF Init, TypeOK, Phases, Statuses

\* An operation of a document that is logged.
LEMMA LogsType ==
    ASSUME BlobSyncAssumption, TypeOK,
           NEW d \in Devices, NEW x \in Docs, NEW kind, NEW file,
           Logs(d, x, kind, file),
           \/ kind = "put" /\ file \in Files
           \/ kind \in {"delete", "restore"} /\ file = None
    PROVE  /\ unsynced' \in [Devices -> Seq(Op)]
           /\ edits' \in Nat
           /\ \A e \in Devices \ {d} : unsynced'[e] = unsynced[e]
           /\ \A i \in DOMAIN unsynced'[d] :
                \/ i \in DOMAIN unsynced[d] /\ unsynced'[d][i] = unsynced[d][i]
                \/ unsynced'[d][i] = [kind |-> kind, doc |-> x, file |-> file, by |-> d]
           /\ row' \in [Devices -> [Docs -> Document \cup {None}]] /\ replaced' \subseteq Docs
                => TypeOK'
<1> DEFINE op == [kind |-> kind, doc |-> x, file |-> file, by |-> d]
<1>1. op \in Op
  BY DEF Op
<1>2. unsynced \in [Devices -> Seq(Op)] /\ edits \in Nat
  BY DEF TypeOK
<1>3. unsynced[d] \in Seq(Op)
  BY <1>2
<1>4. /\ unsynced' = [unsynced EXCEPT ![d] = Append(unsynced[d], op)]
      /\ edits' = edits + 1
  BY DEF Logs
<1> HIDE DEF op
<1>5. /\ Append(unsynced[d], op) \in Seq(Op)
      /\ \A i \in DOMAIN Append(unsynced[d], op) :
            \/ i \in DOMAIN unsynced[d] /\ Append(unsynced[d], op)[i] = unsynced[d][i]
            \/ Append(unsynced[d], op)[i] = op
  BY <1>1, <1>3, AppendOf
<1>6. unsynced'[d] = Append(unsynced[d], op)
  BY <1>2, <1>4
<1>7. unsynced' \in [Devices -> Seq(Op)] /\ edits' \in Nat
  BY <1>2, <1>4, <1>5
<1>8. \A e \in Devices \ {d} : unsynced'[e] = unsynced[e]
  BY <1>2, <1>4
<1>9. ASSUME row' \in [Devices -> [Docs -> Document \cup {None}]], replaced' \subseteq Docs
      PROVE  TypeOK'
  BY <1>7, <1>9 DEF TypeOK, Logs, cycle, relay
<1> QED BY <1>5, <1>6, <1>7, <1>8, <1>9 DEF op

LEMMA UserType ==
    ASSUME BlobSyncAssumption, TypeOK, NEW d \in Devices, UserStep(d)
    PROVE  TypeOK'
<1> PICK x \in Docs :
        \/ \E f \in Files : CreateDocument(d, x, f) \/ ReplaceFile(d, x, f)
        \/ EditDocument(d, x) \/ DeleteDocument(d, x) \/ RestoreDocument(d, x)
  BY DEF UserStep
<1>1. row \in [Devices -> [Docs -> Document \cup {None}]] /\ None \notin Files /\ None \notin Document
  BY DEF TypeOK, BlobSyncAssumption
<1>2. CASE \E f \in Files : CreateDocument(d, x, f)
  <2> PICK f \in Files : CreateDocument(d, x, f)
    BY <1>2
  <2>1. [ref |-> f, bytes |-> f, gone |-> FALSE] \in Document
    BY DEF Document
  <2>2. row' \in [Devices -> [Docs -> Document \cup {None}]]
    BY <1>1, <2>1 DEF CreateDocument
  <2>3. Logs(d, x, "put", f)
    BY DEF CreateDocument
  <2>6. replaced' \subseteq Docs
    BY DEF TypeOK, CreateDocument
  <2> QED BY <2>2, <2>3, <2>6, LogsType
<1>3. CASE \E f \in Files : ReplaceFile(d, x, f)
  <2> PICK f \in Files : ReplaceFile(d, x, f)
    BY <1>3
  <2>1. row[d][x] \in Document
    BY <1>1 DEF ReplaceFile, Alive
  <2>2. [[row[d][x] EXCEPT !.ref = f] EXCEPT !.bytes = f] \in Document
    BY <2>1 DEF Document
  <2>3. row' = [row EXCEPT ![d] = [@ EXCEPT ![x] = [[row[d][x] EXCEPT !.ref = f] EXCEPT !.bytes = f]]]
    BY <1>1 DEF ReplaceFile
  <2>4. row' \in [Devices -> [Docs -> Document \cup {None}]]
    BY <1>1, <2>2, <2>3
  <2>5. Logs(d, x, "put", f)
    BY DEF ReplaceFile
  <2>6. replaced' \subseteq Docs
    BY DEF TypeOK, ReplaceFile
  <2> QED BY <2>4, <2>5, <2>6, LogsType
<1>4. CASE EditDocument(d, x)
  <2>1. row[d][x] \in Document
    BY <1>1, <1>4 DEF EditDocument
  <2>2. BlobRef(d, x) \in Files
    BY <2>1 DEF Document, BlobRef
  <2>3. Logs(d, x, "put", BlobRef(d, x))
    BY <1>4 DEF EditDocument
  <2>6. row' = row /\ replaced' \subseteq Docs
    BY <1>4 DEF TypeOK, EditDocument
  <2> QED BY <1>1,  <2>2, <2>3, <2>6, LogsType
<1>5. CASE DeleteDocument(d, x)
  <2>1. row[d][x] \in Document
    BY <1>1, <1>5 DEF DeleteDocument, Alive
  <2>2. [row[d][x] EXCEPT !.gone = TRUE] \in Document
    BY <2>1 DEF Document
  <2>3. row' \in [Devices -> [Docs -> Document \cup {None}]]
    BY <1>1, <1>5, <2>2 DEF DeleteDocument
  <2>4. Logs(d, x, "delete", None)
    BY <1>5 DEF DeleteDocument
  <2>6. replaced' \subseteq Docs
    BY <1>5 DEF TypeOK, DeleteDocument
  <2> QED BY <1>1,  <2>3, <2>4, <2>6, LogsType
<1>6. CASE RestoreDocument(d, x)
  <2>1. row[d][x] \in Document
    BY <1>1, <1>6 DEF RestoreDocument
  <2>2. [row[d][x] EXCEPT !.gone = FALSE] \in Document
    BY <2>1 DEF Document
  <2>3. row' \in [Devices -> [Docs -> Document \cup {None}]]
    BY <1>1, <1>6, <2>2 DEF RestoreDocument
  <2>4. Logs(d, x, "restore", None)
    BY <1>6 DEF RestoreDocument
  <2>6. replaced' \subseteq Docs
    BY <1>6 DEF TypeOK, RestoreDocument
  <2> QED BY <1>1,  <2>3, <2>4, <2>6, LogsType
<1> QED BY <1>2, <1>3, <1>4, <1>5, <1>6

\* A queue whose head is dropped.
LEMMA NextType ==
    ASSUME TypeOK, NEW d \in Devices, queue[d] # <<>>
    PROVE  /\ Head(queue[d]) \in Op /\ Tail(queue[d]) \in Seq(Op)
           /\ \E i \in DOMAIN queue[d] : queue[d][i] = Head(queue[d])
           /\ \A i \in DOMAIN Tail(queue[d]) : \E j \in DOMAIN queue[d] :
                Tail(queue[d])[i] = queue[d][j]
           /\ \A j \in DOMAIN queue[d] :
                \/ queue[d][j] = Head(queue[d])
                \/ \E i \in DOMAIN Tail(queue[d]) : Tail(queue[d])[i] = queue[d][j]
           /\ NextInQueue(d) => /\ queue' \in [Devices -> Seq(Op)]
                                /\ queue'[d] = Tail(queue[d])
                                /\ \A e \in Devices \ {d} : queue'[e] = queue[e]
<1>1. queue \in [Devices -> Seq(Op)] /\ queue[d] \in Seq(Op)
  BY DEF TypeOK
<1>2. /\ Head(queue[d]) \in Op /\ Tail(queue[d]) \in Seq(Op)
      /\ \E i \in DOMAIN queue[d] : queue[d][i] = Head(queue[d])
      /\ \A i \in DOMAIN Tail(queue[d]) : \E j \in DOMAIN queue[d] :
            Tail(queue[d])[i] = queue[d][j]
      /\ \A j \in DOMAIN queue[d] :
            \/ queue[d][j] = Head(queue[d])
            \/ \E i \in DOMAIN Tail(queue[d]) : Tail(queue[d])[i] = queue[d][j]
  BY <1>1, TailOf
<1> QED BY <1>1, <1>2 DEF NextInQueue

LEMMA PhaseType ==
    ASSUME TypeOK, NEW d \in Devices, NEW phase \in Phases, Goes(d, phase)
    PROVE  /\ pc' \in [Devices -> Phases]
           /\ pc'[d] = phase
           /\ \A e \in Devices \ {d} : pc'[e] = pc[e]
BY DEF TypeOK, Goes

LEMMA DropsType ==
    ASSUME TypeOK, NEW d \in Devices, Drops(d)
    PROVE  /\ hand' \in [Devices -> Files \cup {None}]
           /\ \A e \in Devices \ {d} : hand'[e] = hand[e]
BY DEF TypeOK, Drops

\* What applying a remote operation does to the row of its document.
LEMMA AppliedType ==
    ASSUME BlobSyncAssumption, NEW op \in Op, NEW old \in Document \cup {None},
           op.kind = "put" \/ old # None
    PROVE  /\ Applied(old, op) \in Document
           /\ Applied(old, op).ref = IF op.kind = "put" THEN op.file ELSE old.ref
           /\ Applied(old, op).bytes = IF old = None THEN None ELSE old.bytes
<1>1. None \notin Document /\ None \notin Files
  BY DEF BlobSyncAssumption
<1>2. op.kind \in {"put", "delete", "restore"} /\ (op.kind = "put" => op.file \in Files)
  BY DEF Op
<1>3. CASE op.kind = "put" /\ old = None
  <2>1. Applied(old, op) = [ref |-> op.file, bytes |-> None, gone |-> FALSE]
    BY <1>3 DEF Applied
  <2> QED BY <1>1, <1>2, <1>3, <2>1 DEF Document
<1>4. CASE op.kind = "put" /\ old # None
  <2>1. Applied(old, op) = [old EXCEPT !.ref = op.file]
    BY <1>4 DEF Applied
  <2> QED BY <1>1, <1>2, <1>4, <2>1 DEF Document
<1>5. CASE op.kind = "delete" /\ old # None
  <2>1. Applied(old, op) = [old EXCEPT !.gone = TRUE]
    BY <1>5 DEF Applied
  <2> QED BY <1>1, <1>2, <1>5, <2>1 DEF Document
<1>6. CASE op.kind = "restore" /\ old # None
  <2>1. Applied(old, op) = [old EXCEPT !.gone = FALSE]
    BY <1>6 DEF Applied
  <2> QED BY <1>1, <1>2, <1>6, <2>1 DEF Document
<1> QED BY <1>2, <1>3, <1>4, <1>5, <1>6

\* A pulled operation finds its row, unless it makes it.
LEMMA PulledRow ==
    ASSUME BlobSyncAssumption, TypeOK, PutFirst, RowsMade, NEW d \in Devices, ApplyNext(d),
           NEW op, op = log[seen[d] + 1]
    PROVE  /\ seen[d] + 1 \in DOMAIN log /\ op \in Op
           /\ row' \in [Devices -> [Docs -> Document \cup {None}]]
           /\ row'[d][op.doc] # None
           /\ \A e \in Devices, x \in Docs :
                (e # d \/ x # op.doc) => row'[e][x] = row[e][x]
           /\ \/ row'[d][op.doc] = row[d][op.doc]
              \/ /\ row'[d][op.doc].ref =
                        IF op.kind = "put" THEN op.file ELSE row[d][op.doc].ref
                 /\ row'[d][op.doc].bytes =
                        IF row[d][op.doc] = None THEN None ELSE row[d][op.doc].bytes
                 /\ op.kind = "put" \/ row[d][op.doc] # None
<1>1. /\ log \in Seq(Op) /\ seen[d] \in Nat /\ seen[d] < Len(log)
      /\ row \in [Devices -> [Docs -> Document \cup {None}]]
      /\ None \notin Document
  BY DEF TypeOK, ApplyNext, BlobSyncAssumption
<1>2. Len(log) \in Nat /\ DOMAIN log = 1..Len(log)
  BY <1>1
<1>3. seen[d] + 1 \in DOMAIN log
  BY <1>1, <1>2
<1>4. op \in Op
  BY <1>1, <1>3
<1>5. op.doc \in Docs
  BY <1>4 DEF Op
<1> DEFINE old == row[d][op.doc]
<1>6. old \in Document \cup {None}
  BY <1>1, <1>5
<1>7. op.kind = "put" \/ old # None
  <2>1. PICK j \in 1..(seen[d] + 1) : log[j].kind = "put" /\ log[j].doc = op.doc
    BY <1>3 DEF PutFirst, PutIn
  <2>2. CASE j = seen[d] + 1
    BY <2>1, <2>2
  <2>3. CASE j # seen[d] + 1
    <3>1. j \in DOMAIN log /\ j <= seen[d]
      BY <1>1, <1>2, <2>1, <2>3
    <3> QED BY <2>1, <3>1 DEF RowsMade
  <2> QED BY <2>2, <2>3
<1>8. CASE row' = [row EXCEPT ![d][op.doc] = Applied(@, op)]
  <2>1. /\ Applied(old, op) \in Document
        /\ Applied(old, op).ref = IF op.kind = "put" THEN op.file ELSE old.ref
        /\ Applied(old, op).bytes = IF old = None THEN None ELSE old.bytes
    <3> HIDE DEF old
    <3> QED BY <1>4, <1>6, <1>7, AppliedType
  <2>2. row'[d][op.doc] = Applied(old, op)
    BY <1>1, <1>5, <1>8
  <2>3. /\ row' \in [Devices -> [Docs -> Document \cup {None}]]
        /\ \A e \in Devices, x \in Docs :
                (e # d \/ x # op.doc) => row'[e][x] = row[e][x]
    <3>1. row' = [row EXCEPT ![d] = [row[d] EXCEPT ![op.doc] = Applied(old, op)]]
      BY <1>1, <1>5, <1>8
    <3> HIDE DEF old
    <3> QED BY <1>1, <1>5, <2>1, <3>1
  <2> QED BY <1>1, <1>3, <1>4, <1>7, <2>1, <2>2, <2>3
<1>9. CASE row' = row /\ (op.by = d \/ Contested(d, op.doc))
  <2>1. old # None
    <3>1. CASE op.by = d
      BY <1>3, <3>1 DEF RowsMade
    <3>2. CASE Contested(d, op.doc)
      BY <3>2 DEF RowsMade, Contested
    <3> QED BY <1>9, <3>1, <3>2
  <2> QED BY <1>1, <1>3, <1>4, <1>9, <2>1
<1> QED BY <1>8, <1>9 DEF ApplyNext

\* The documents to fetch, each with the file its row names.
LEMMA PendingQueue ==
    ASSUME BlobSyncAssumption, TypeOK, NEW d \in Devices, ListPending(d)
    PROVE  /\ queue' \in [Devices -> Seq(Op)]
           /\ \A e \in Devices \ {d} : queue'[e] = queue[e]
           /\ \A i \in DOMAIN queue'[d] :
                /\ row[d][queue'[d][i].doc] # None
                /\ queue'[d][i].file = row[d][queue'[d][i].doc].ref
                /\ HasFile(queue'[d][i])
<1>1. /\ row \in [Devices -> [Docs -> Document \cup {None}]]
      /\ queue \in [Devices -> Seq(Op)]
      /\ IsFiniteSet(Docs)
  BY DEF TypeOK, BlobSyncAssumption
<1>2. Unfetched(d) \in SUBSET Docs
  BY DEF Unfetched
<1>3. Cardinality(Unfetched(d)) \in Nat
  <2>1. IsFiniteSet(Unfetched(d))
    BY <1>1, <1>2, FS_Subset
  <2> QED BY <2>1, FS_CardinalityType
<1> DEFINE n == Cardinality(Unfetched(d))
<1>4. PICK s \in [1..n -> Unfetched(d)] :
        queue' = [queue EXCEPT ![d] = [i \in DOMAIN s |->
            [kind |-> "put", doc |-> s[i], file |-> row[d][s[i]].ref, by |-> d]]]
  BY DEF ListPending
<1> DEFINE q == [i \in 1..n |->
                    [kind |-> "put", doc |-> s[i], file |-> row[d][s[i]].ref, by |-> d]]
<1>5. queue' = [queue EXCEPT ![d] = q]
  BY <1>4
<1>6. ASSUME NEW i \in 1..n
      PROVE  /\ s[i] \in Docs /\ row[d][s[i]] # None
             /\ q[i] \in Op /\ q[i].doc = s[i] /\ q[i].file = row[d][s[i]].ref
             /\ HasFile(q[i])
  <2>1. s[i] \in Docs /\ row[d][s[i]] # None
    BY <1>4, <1>6 DEF Unfetched, Alive
  <2>2. row[d][s[i]] \in Document
    BY <1>1, <2>1
  <2>3. q[i] = [kind |-> "put", doc |-> s[i], file |-> row[d][s[i]].ref, by |-> d]
    BY <1>6
  <2> QED BY <2>1, <2>2, <2>3 DEF Op, Document, HasFile, BlobSyncAssumption
<1>7. q \in Seq(Op) /\ DOMAIN q = 1..n
  <2>1. n \in Nat
    BY <1>3
  <2>2. q \in [1..n -> Op]
    BY <1>6
  <2> HIDE DEF q, n
  <2> QED BY <2>1, <2>2
<1>8. queue'[d] = q
  BY <1>1, <1>5
<1> HIDE DEF q
<1> QED BY <1>1, <1>5, <1>6, <1>7, <1>8

LEMMA CycleType ==
    ASSUME BlobSyncAssumption, TypeOK, HandHolds, PutFirst, RowsMade,
           NEW d \in Devices, CycleStep(d) \/ UploadFails(d) \/ DownloadFails(d) \/ Stops(d)
    PROVE  TypeOK'
<1> USE DEF relay, cycle, bounds
<1>1. CASE StartCycle(d) \/ PullDone(d) \/ Refused(d) \/ CycleDone(d)
  <2>1. \E phase \in Phases : Goes(d, phase)
    BY <1>1 DEF StartCycle, PullDone, Refused, CycleDone, Phases
  <2>2. pc' \in [Devices -> Phases]
    BY <2>1, PhaseType
  <2> QED BY <1>1, <2>2 DEF TypeOK, StartCycle, PullDone, Refused, CycleDone
<1>2. CASE ApplyNext(d)
  <2>1. row' \in [Devices -> [Docs -> Document \cup {None}]]
    BY <1>2, PulledRow
  <2>2. seen' \in [Devices -> Nat]
    BY <1>2 DEF TypeOK, ApplyNext
  <2> QED BY <1>2, <2>1, <2>2 DEF TypeOK, ApplyNext
<1>3. CASE Push(d)
  <2>1. log \in Seq(Op) /\ unsynced[d] \in Seq(Op) /\ unsynced \in [Devices -> Seq(Op)]
    BY DEF TypeOK
  <2>2. log' \in Seq(Op)
    BY <1>3, <2>1, ConcatOf DEF Push
  <2>3. queue' \in [Devices -> Seq(Op)] /\ unsynced' \in [Devices -> Seq(Op)]
    BY <1>3, <2>1 DEF TypeOK, Push
  <2>4. pc' \in [Devices -> Phases]
    BY <1>3, PhaseType DEF Push, Phases
  <2> QED BY <1>3, <2>2, <2>3, <2>4 DEF TypeOK, Push
<1>4. CASE HeadBlob(d)
  <2>1. queue' \in [Devices -> Seq(Op)]
    BY <1>4, NextType DEF HeadBlob, TypeOK
  <2>2. pc' \in [Devices -> Phases]
    BY <1>4, PhaseType DEF HeadBlob, TypeOK, Phases
  <2> QED BY <1>4, <2>1, <2>2 DEF TypeOK, HeadBlob
<1>5. CASE LoadDocument(d)
  <2>1. queue[d] # <<>> /\ HasFile(Head(queue[d]))
    BY <1>5 DEF HandHolds, LoadDocument
  <2>2. queue' \in [Devices -> Seq(Op)]
    BY <1>5, <2>1, NextType DEF LoadDocument, TypeOK
  <2>3. pc' \in [Devices -> Phases]
    BY <1>5, PhaseType DEF LoadDocument, Phases
  <2>4. Head(queue[d]) \in Op
    BY <2>1, NextType
  <2>5. Head(queue[d]).file \in Files /\ Head(queue[d]).doc \in Docs
    BY <2>1, <2>4 DEF Op, HasFile
  <2>6. unsent' \subseteq Files
    BY <1>5, <2>5 DEF LoadDocument, TypeOK
  <2>7. hand' \in [Devices -> Files \cup {None}]
    <3>1. Alive(d, Head(queue[d]).doc) =>
            row[d][Head(queue[d]).doc].bytes \in Files \cup {None}
      BY <2>5 DEF TypeOK, Alive, Document
    <3> QED BY <1>5, <3>1 DEF LoadDocument, TypeOK
  <2> QED BY <1>5, <2>2, <2>3, <2>6, <2>7 DEF TypeOK, LoadDocument
<1>6. CASE PutBlob(d)
  <2>1. queue[d] # <<>>
    BY <1>6 DEF HandHolds, PutBlob
  <2>2. queue' \in [Devices -> Seq(Op)]
    BY <1>6, <2>1, NextType DEF PutBlob
  <2>3. pc' \in [Devices -> Phases] /\ hand' \in [Devices -> Files \cup {None}]
    BY <1>6, PhaseType, DropsType DEF PutBlob, Phases
  <2>4. blobs' \in [Files -> Files \cup {None}]
    BY <1>6 DEF PutBlob, TypeOK
  <2> QED BY <1>6, <2>2, <2>3, <2>4 DEF TypeOK, PutBlob
<1>7. CASE ListPending(d)
  <2>1. queue' \in [Devices -> Seq(Op)]
    BY <1>7, PendingQueue
  <2>2. pc' \in [Devices -> Phases]
    BY <1>7, PhaseType DEF ListPending, Phases
  <2> QED BY <1>7, <2>1, <2>2 DEF TypeOK, ListPending
<1>8. CASE GetBlob(d)
  <2>1. queue' \in [Devices -> Seq(Op)]
    BY <1>8, NextType DEF GetBlob, TypeOK
  <2>2. pc' \in [Devices -> Phases]
    BY <1>8, PhaseType DEF GetBlob, TypeOK, Phases
  <2>3. queue[d] # <<>> /\ HasFile(Head(queue[d]))
    BY <1>8, NextType DEF GetBlob, HandHolds
  <2>4. Head(queue[d]).file \in Files
    BY <2>3, NextType DEF Op, HasFile
  <2>5. hand' \in [Devices -> Files \cup {None}]
    BY <1>8, <2>4 DEF GetBlob, TypeOK
  <2> QED BY <1>8, <2>1, <2>2, <2>5 DEF TypeOK, GetBlob
<1>9. CASE SaveBlob(d)
  <2>1. /\ queue[d] # <<>> /\ hand[d] # None /\ hand[d] \in Files
        /\ row \in [Devices -> [Docs -> Document \cup {None}]]
    BY <1>9 DEF HandHolds, SaveBlob, TypeOK
  <2>2. queue' \in [Devices -> Seq(Op)]
    BY <1>9, <2>1, NextType DEF SaveBlob
  <2>3. pc' \in [Devices -> Phases] /\ hand' \in [Devices -> Files \cup {None}]
    BY <1>9, PhaseType, DropsType DEF SaveBlob, Phases
  <2>4. row' \in [Devices -> [Docs -> Document \cup {None}]]
    <3> DEFINE x == SavedRow(d)
    <3>1. x \in Docs
      BY <2>1, NextType DEF SavedRow, Op
    <3>2. CASE Alive(d, x)
      <4>1. row[d][x] \in Document
        BY <2>1, <3>1, <3>2 DEF Alive
      <4>2. [row[d][x] EXCEPT !.bytes = hand[d]] \in Document
        BY <2>1, <4>1 DEF Document
      <4>3. row' = [row EXCEPT ![d] = [row[d] EXCEPT ![x] = [row[d][x] EXCEPT !.bytes = hand[d]]]]
        BY <1>9, <2>1, <3>2 DEF SaveBlob
      <4> HIDE DEF x
      <4> QED BY <2>1, <3>1, <4>2, <4>3
    <3>3. CASE ~Alive(d, x)
      BY <1>9, <2>1, <3>3 DEF SaveBlob
    <3> QED BY <3>2, <3>3
  <2> QED BY <1>9, <2>2, <2>3, <2>4 DEF TypeOK, SaveBlob
<1>10. CASE UploadFails(d)
  <2>1. queue[d] # <<>> /\ Head(queue[d]).file # None
    BY <1>10 DEF HandHolds, UploadFails, HasFile
  <2>2. Head(queue[d]) \in Op
    BY <2>1, NextType
  <2>3. queue' \in [Devices -> Seq(Op)]
    BY <1>10, <2>1, NextType DEF UploadFails, SkipBlob
  <2>4. pc' \in [Devices -> Phases] /\ hand' \in [Devices -> Files \cup {None}]
    BY <1>10, PhaseType, DropsType DEF UploadFails, SkipBlob, Phases
  <2>5. unsent' \subseteq Files
    BY <1>10, <2>1, <2>2 DEF UploadFails, Op, TypeOK
  <2>6. faults' \in Nat
    BY <1>10 DEF UploadFails, Fault, TypeOK
  <2> QED BY <1>10, <2>3, <2>4, <2>5, <2>6 DEF TypeOK, UploadFails
<1>11. CASE DownloadFails(d)
  <2>1. queue' \in [Devices -> Seq(Op)]
    BY <1>11, NextType DEF DownloadFails
  <2> QED BY <1>11, <2>1 DEF TypeOK, DownloadFails, Fault
<1>12. CASE Stops(d)
  <2>1. Uploading(d) \subseteq Files
    <3>1. queue[d] \in Seq(Op)
      BY DEF TypeOK
    <3>2. \A i \in DOMAIN queue[d] : queue[d][i] \in Op
      BY <3>1
    <3> QED BY <3>2 DEF Uploading, Op
  <2>2. pc' \in [Devices -> Phases] /\ hand' \in [Devices -> Files \cup {None}]
    BY <1>12, PhaseType, DropsType DEF Stops, Phases
  <2>3. queue' \in [Devices -> Seq(Op)]
    BY <1>12 DEF Stops, EndsPhase, TypeOK
  <2> QED BY <1>12, <2>1, <2>2, <2>3 DEF TypeOK, Stops, Fault
<1> QED BY <1>1, <1>2, <1>3, <1>4, <1>5, <1>6, <1>7, <1>8, <1>9, <1>10, <1>11, <1>12
        DEF CycleStep

LEMMA TypeStep == BlobSyncAssumption /\ BlobInv /\ [Next]_vars => TypeOK'
<1> SUFFICES ASSUME BlobSyncAssumption, BlobInv, [Next]_vars PROVE TypeOK'
  OBVIOUS
<1> USE DEF BlobInv
<1>1. CASE \E d \in Devices : UserStep(d)
  BY <1>1, UserType
<1>2. CASE \E d \in Devices : CycleStep(d) \/ UploadFails(d) \/ DownloadFails(d) \/ Stops(d)
  BY <1>2, CycleType
<1>3. CASE \E s \in Statuses \ {"unset"} : StripeWebhook(s)
  BY <1>3 DEF StripeWebhook, TypeOK, cycle, relay
<1>4. CASE UNCHANGED vars
  BY <1>4 DEF vars, TypeOK, cycle, relay, bounds
<1> QED BY <1>1, <1>2, <1>3, <1>4 DEF Next

-----------------------------------------------------------------------------
(* What a device has logged, and what it holds. *)

\* Who changes the operations: the user, one at a time, and a push.
LEMMA OpsChange ==
    ASSUME BlobSyncAssumption, BlobInv, [Next]_vars
    PROVE  \/ unsynced' = unsynced /\ log' = log
           \/ \E d \in Devices : UserStep(d)
           \/ \E d \in Devices : Push(d)
<1> USE DEF relay, cycle, bounds
<1>1. ASSUME NEW d \in Devices, CycleStep(d), ~Push(d)
      PROVE  unsynced' = unsynced /\ log' = log
  BY <1>1 DEF CycleStep, StartCycle, ApplyNext, PullDone, Refused, HeadBlob, LoadDocument, PutBlob,
     ListPending, GetBlob, SaveBlob, CycleDone, UploadFails
<1>2. ASSUME NEW d \in Devices, UploadFails(d) \/ DownloadFails(d) \/ Stops(d)
      PROVE  unsynced' = unsynced /\ log' = log
  BY <1>2 DEF UploadFails, DownloadFails, Stops
<1>3. ASSUME NEW s, StripeWebhook(s)
      PROVE  unsynced' = unsynced /\ log' = log
  BY <1>3 DEF StripeWebhook
<1>4. CASE UNCHANGED vars
  BY <1>4 DEF vars
<1> QED BY <1>1, <1>2, <1>3, <1>4 DEF Next

\* A step of the user: one operation on one document that is in its row then.
LEMMA UserLogs ==
    ASSUME BlobSyncAssumption, TypeOK, NEW d \in Devices, UserStep(d)
    PROVE  \E x \in Docs, op \in Op :
            /\ op.doc = x /\ op.by = d
            /\ unsynced' \in [Devices -> Seq(Op)]
            /\ \A e \in Devices \ {d} : unsynced'[e] = unsynced[e]
            /\ unsynced'[d] = Append(unsynced[d], op)
            /\ \A i \in DOMAIN unsynced'[d] :
                \/ i \in DOMAIN unsynced[d] /\ unsynced'[d][i] = unsynced[d][i]
                \/ unsynced'[d][i] = op
            /\ UNCHANGED <<seen, pc, queue, hand, log, blobs, unsent>>
            /\ \A e \in Devices, y \in Docs : (e # d \/ y # x) => row'[e][y] = row[e][y]
            /\ row'[d][x] # None
            /\ \/ /\ \A e \in Devices : row[e][x] = None
                  /\ replaced' = replaced
                  /\ op.kind = "put"
                  /\ row'[d][x].ref = op.file /\ row'[d][x].bytes = op.file
               \/ /\ row[d][x] # None
                  /\ replaced' = replaced \cup {x}
               \/ /\ row[d][x] # None
                  /\ replaced' = replaced
                  /\ op.file \in {row[d][x].ref, None}
                  /\ row'[d][x].ref = row[d][x].ref
                  /\ row'[d][x].bytes = row[d][x].bytes
<1> PICK x \in Docs :
        \/ \E f \in Files : CreateDocument(d, x, f) \/ ReplaceFile(d, x, f)
        \/ EditDocument(d, x) \/ DeleteDocument(d, x) \/ RestoreDocument(d, x)
  BY DEF UserStep
<1>1. row \in [Devices -> [Docs -> Document \cup {None}]] /\ None \notin Files /\ None \notin Document
      /\ unsynced \in [Devices -> Seq(Op)]
  BY DEF TypeOK, BlobSyncAssumption
<1>2. PICK kind, file :
        /\ \/ kind = "put" /\ file \in Files
           \/ kind \in {"delete", "restore"} /\ file = None
        /\ Logs(d, x, kind, file)
        /\ \A e \in Devices, y \in Docs : (e # d \/ y # x) => row'[e][y] = row[e][y]
        /\ row'[d][x] # None
        /\ \/ /\ \A e \in Devices : row[e][x] = None
              /\ replaced' = replaced
              /\ kind = "put"
              /\ row'[d][x].ref = file /\ row'[d][x].bytes = file
           \/ /\ row[d][x] # None
              /\ replaced' = replaced \cup {x}
           \/ /\ row[d][x] # None
              /\ replaced' = replaced
              /\ file \in {row[d][x].ref, None}
              /\ row'[d][x].ref = row[d][x].ref
              /\ row'[d][x].bytes = row[d][x].bytes
  <2>1. CASE \E f \in Files : CreateDocument(d, x, f)
    <3> PICK f \in Files : CreateDocument(d, x, f)
      BY <2>1
    <3>1. [ref |-> f, bytes |-> f, gone |-> FALSE] \in Document
      BY DEF Document
    <3>2. row'[d][x] = [ref |-> f, bytes |-> f, gone |-> FALSE]
      BY <1>1 DEF CreateDocument
    <3>3. \A e \in Devices, y \in Docs : (e # d \/ y # x) => row'[e][y] = row[e][y]
      BY <1>1 DEF CreateDocument
    <3> QED BY <1>1, <3>1, <3>2, <3>3 DEF CreateDocument
  <2>2. CASE \E f \in Files : ReplaceFile(d, x, f)
    <3> PICK f \in Files : ReplaceFile(d, x, f)
      BY <2>2
    <3>1. row[d][x] \in Document
      BY <1>1 DEF ReplaceFile, Alive
    <3> DEFINE new == [[row[d][x] EXCEPT !.ref = f] EXCEPT !.bytes = f]
    <3>2. new \in Document
      BY <3>1 DEF Document
    <3>3. row' = [row EXCEPT ![d] = [row[d] EXCEPT ![x] = new]]
      BY <1>1 DEF ReplaceFile
    <3>4. row'[d][x] # None /\ \A e \in Devices, y \in Docs : (e # d \/ y # x) => row'[e][y] = row[e][y]
      <4> HIDE DEF new
      <4> QED BY <1>1, <3>2, <3>3
    <3> QED BY <1>1, <3>1, <3>4 DEF ReplaceFile
  <2>3. CASE EditDocument(d, x)
    <3>1. row[d][x] \in Document
      BY <1>1, <2>3 DEF EditDocument
    <3>2. BlobRef(d, x) \in Files
      BY <3>1 DEF BlobRef, Document
    <3> QED BY <1>1, <2>3, <3>1, <3>2 DEF EditDocument, BlobRef
  <2>4. CASE DeleteDocument(d, x) \/ RestoreDocument(d, x)
    <3>1. row[d][x] \in Document
      BY <1>1, <2>4 DEF DeleteDocument, RestoreDocument, Alive
    <3>2. PICK g \in BOOLEAN : row' = [row EXCEPT ![d][x].gone = g]
      BY <2>4 DEF DeleteDocument, RestoreDocument
    <3> DEFINE new == [row[d][x] EXCEPT !.gone = g]
    <3>3. new \in Document /\ new.ref = row[d][x].ref /\ new.bytes = row[d][x].bytes
      BY <3>1 DEF Document
    <3>4. row' = [row EXCEPT ![d] = [row[d] EXCEPT ![x] = new]]
      BY <1>1, <3>2
    <3>5. row'[d][x] = new /\ \A e \in Devices, y \in Docs : (e # d \/ y # x) => row'[e][y] = row[e][y]
      <4> HIDE DEF new
      <4> QED BY <1>1, <3>4
    <3>6. row'[d][x] # None /\ row'[d][x].ref = row[d][x].ref /\ row'[d][x].bytes = row[d][x].bytes
      BY <1>1, <3>3, <3>5
    <3>7. PICK kind \in {"delete", "restore"} : Logs(d, x, kind, None)
      BY <2>4 DEF DeleteDocument, RestoreDocument
    <3> QED BY <1>1, <2>4, <3>1, <3>5, <3>6, <3>7 DEF DeleteDocument, RestoreDocument
  <2> QED BY <2>1, <2>2, <2>3, <2>4
<1> DEFINE op == [kind |-> kind, doc |-> x, file |-> file, by |-> d]
<1>3. op \in Op /\ op.doc = x /\ op.by = d /\ op.kind = kind /\ op.file = file
  BY <1>2 DEF Op
<1>4. unsynced'[d] = Append(unsynced[d], op)
  BY <1>1, <1>2 DEF Logs
<1>5. /\ unsynced' \in [Devices -> Seq(Op)]
      /\ \A e \in Devices \ {d} : unsynced'[e] = unsynced[e]
      /\ \A i \in DOMAIN unsynced'[d] :
            \/ i \in DOMAIN unsynced[d] /\ unsynced'[d][i] = unsynced[d][i]
            \/ unsynced'[d][i] = op
  BY <1>2, LogsType
<1>6. UNCHANGED <<seen, pc, queue, hand, log, blobs, unsent>>
  BY <1>2 DEF Logs, cycle, relay
<1> HIDE DEF op
<1> QED BY <1>2, <1>3, <1>4, <1>5, <1>6

\* SaveBlob writes the data column of the row and nothing else.
LEMMA SavedData ==
    ASSUME BlobSyncAssumption, TypeOK, HandHolds, NEW d \in Devices, SaveBlob(d)
    PROVE  LET x == Head(queue[d]).doc IN
           /\ x \in Docs /\ queue[d] # <<>>
           /\ \A e \in Devices, y \in Docs : (e # d \/ y # x) => row'[e][y] = row[e][y]
           /\ row[d][x] = None => row'[d][x] = None
           /\ row[d][x] # None =>
                /\ row'[d][x] # None
                /\ row'[d][x].ref = row[d][x].ref
                /\ row'[d][x].bytes \in {row[d][x].bytes, Head(queue[d]).file}
<1>1. /\ queue[d] # <<>> /\ hand[d] # None /\ hand[d] \in Files
      /\ hand[d] = Head(queue[d]).file
      /\ row \in [Devices -> [Docs -> Document \cup {None}]]
      /\ None \notin Document
  BY DEF HandHolds, SaveBlob, TypeOK, BlobSyncAssumption
<1> DEFINE x == Head(queue[d]).doc
<1>2. x \in Docs
  BY <1>1, NextType DEF Op
<1>3. CASE Alive(d, x)
  <2>1. row[d][x] \in Document
    BY <1>1, <1>2, <1>3 DEF Alive
  <2> DEFINE new == [row[d][x] EXCEPT !.bytes = hand[d]]
  <2>2. new \in Document /\ new.ref = row[d][x].ref /\ new.bytes = hand[d]
    BY <1>1, <2>1 DEF Document
  <2>3. row' = [row EXCEPT ![d] = [row[d] EXCEPT ![x] = new]]
    BY <1>1, <1>3 DEF SaveBlob, SavedRow
  <2>4. row'[d][x] = new /\ \A e \in Devices, y \in Docs : (e # d \/ y # x) => row'[e][y] = row[e][y]
    <3> HIDE DEF new, x
    <3> QED BY <1>1, <1>2, <2>2, <2>3
  <2> HIDE DEF new
  <2> QED BY <1>1, <1>2, <2>1, <2>2, <2>4
<1>4. CASE ~Alive(d, x)
  <2>1. row' = row
    BY <1>4 DEF SaveBlob, SavedRow
  <2> QED BY <1>1, <1>2, <2>1
<1> QED BY <1>3, <1>4

\* Who changes the rows.
LEMMA RowsChange ==
    ASSUME BlobSyncAssumption, BlobInv, [Next]_vars
    PROVE  \/ row' = row
           \/ \E d \in Devices : UserStep(d) \/ ApplyNext(d) \/ SaveBlob(d)
<1> USE DEF relay, cycle, bounds
<1>1. ASSUME NEW d \in Devices, CycleStep(d), ~ApplyNext(d), ~SaveBlob(d)
      PROVE  row' = row
  BY <1>1 DEF CycleStep, StartCycle, Push, PullDone, Refused, HeadBlob, LoadDocument, PutBlob,
     ListPending, GetBlob, CycleDone, UploadFails
<1>2. ASSUME NEW d \in Devices, UploadFails(d) \/ DownloadFails(d) \/ Stops(d)
      PROVE  row' = row
  BY <1>2 DEF UploadFails, DownloadFails, Stops
<1>3. ASSUME NEW s, StripeWebhook(s)
      PROVE  row' = row
  BY <1>3 DEF StripeWebhook
<1>4. CASE UNCHANGED vars
  BY <1>4 DEF vars
<1> QED BY <1>1, <1>2, <1>3, <1>4 DEF Next

\* A row is never taken out of a database.
LEMMA RowsStay ==
    ASSUME BlobSyncAssumption, BlobInv, [Next]_vars
    PROVE  \A e \in Devices, x \in Docs : row[e][x] # None => row'[e][x] # None
<1> USE DEF BlobInv
<1>1. ASSUME NEW d \in Devices, UserStep(d)
      PROVE  \A e \in Devices, x \in Docs : row[e][x] # None => row'[e][x] # None
  BY <1>1, UserLogs
<1>2. ASSUME NEW d \in Devices, ApplyNext(d)
      PROVE  \A e \in Devices, x \in Docs : row[e][x] # None => row'[e][x] # None
  BY <1>2, PulledRow
<1>3. ASSUME NEW d \in Devices, SaveBlob(d)
      PROVE  \A e \in Devices, x \in Docs : row[e][x] # None => row'[e][x] # None
  BY <1>3, SavedData
<1> QED BY <1>1, <1>2, <1>3, RowsChange

\* A push moves all the device's operations to the relay's log and its queue.
LEMMA Pushed ==
    ASSUME TypeOK, NEW d \in Devices, Push(d)
    PROVE  /\ pc[d] = "push" /\ pc' = [pc EXCEPT ![d] = "head"]
           /\ log' = log \o unsynced[d] /\ log' \in Seq(Op)
           /\ Len(log) \in Nat /\ Len(unsynced[d]) \in Nat
           /\ Len(log') = Len(log) + Len(unsynced[d])
           /\ DOMAIN log' = 1..Len(log') /\ DOMAIN log = 1..Len(log)
           /\ DOMAIN unsynced[d] = 1..Len(unsynced[d])
           /\ \A i \in DOMAIN log : log'[i] = log[i]
           /\ \A i \in DOMAIN unsynced[d] : log'[Len(log) + i] = unsynced[d][i]
           /\ \A i \in DOMAIN log' : \/ i \in DOMAIN log
                                     \/ \E j \in DOMAIN unsynced[d] : i = Len(log) + j
           /\ unsynced'[d] = <<>> /\ queue'[d] = unsynced[d]
           /\ \A e \in Devices \ {d} : unsynced'[e] = unsynced[e] /\ queue'[e] = queue[e]
           /\ UNCHANGED <<row, seen, hand, blobs, replaced, unsent>>
<1>1. log \in Seq(Op) /\ unsynced[d] \in Seq(Op)
      /\ unsynced \in [Devices -> Seq(Op)] /\ queue \in [Devices -> Seq(Op)]
  BY DEF TypeOK
<1>2. log' = log \o unsynced[d]
  BY DEF Push
<1>3. /\ Len(log) \in Nat /\ Len(unsynced[d]) \in Nat
      /\ Len(log') = Len(log) + Len(unsynced[d])
      /\ log' \in Seq(Op)
      /\ DOMAIN log' = 1..Len(log') /\ DOMAIN log = 1..Len(log)
      /\ DOMAIN unsynced[d] = 1..Len(unsynced[d])
      /\ \A i \in 1..Len(log') :
            log'[i] = IF i <= Len(log) THEN log[i] ELSE unsynced[d][i - Len(log)]
  BY <1>1, <1>2
<1>4. \A i \in DOMAIN log : log'[i] = log[i]
  BY <1>3
<1>5. \A i \in DOMAIN unsynced[d] : log'[Len(log) + i] = unsynced[d][i]
  BY <1>3
<1>6. ASSUME NEW i \in DOMAIN log', i \notin DOMAIN log
      PROVE  \E j \in DOMAIN unsynced[d] : i = Len(log) + j
  <2>1. i - Len(log) \in DOMAIN unsynced[d] /\ i = Len(log) + (i - Len(log))
    BY <1>3, <1>6
  <2> QED BY <2>1
<1> QED BY <1>1, <1>2, <1>3, <1>4, <1>5, <1>6 DEF Push, Goes

LEMMA OwnOpsStep == BlobSyncAssumption /\ BlobInv /\ [Next]_vars => OwnOps'
<1> SUFFICES ASSUME BlobSyncAssumption, BlobInv, [Next]_vars,
                    NEW e \in Devices, NEW i \in DOMAIN unsynced'[e]
             PROVE  unsynced'[e][i].by = e
  BY DEF OwnOps
<1> USE DEF BlobInv, OwnOps
<1>1. CASE unsynced' = unsynced
  BY <1>1
<1>2. ASSUME NEW d \in Devices, UserStep(d) PROVE unsynced'[e][i].by = e
  <2> PICK op \in Op :
        /\ op.by = d
        /\ \A c \in Devices \ {d} : unsynced'[c] = unsynced[c]
        /\ \A k \in DOMAIN unsynced'[d] :
            \/ k \in DOMAIN unsynced[d] /\ unsynced'[d][k] = unsynced[d][k]
            \/ unsynced'[d][k] = op
    BY <1>2, UserLogs
  <2>1. CASE e = d
    BY <2>1
  <2>2. CASE e # d
    BY <2>2
  <2> QED BY <2>1, <2>2
<1>3. ASSUME NEW d \in Devices, Push(d) PROVE unsynced'[e][i].by = e
  <2>1. unsynced'[d] = <<>> /\ \A c \in Devices \ {d} : unsynced'[c] = unsynced[c]
    BY <1>3, Pushed
  <2>2. e # d
    BY <2>1
  <2> QED BY <2>1, <2>2
<1> QED BY <1>1, <1>2, <1>3, OpsChange

LEMMA PutFirstUser ==
    ASSUME BlobSyncAssumption, BlobInv, NEW d \in Devices, UserStep(d)
    PROVE  PutFirst'
<1> USE DEF BlobInv
<1> PICK x \in Docs, op \in Op :
        /\ op.doc = x
        /\ \A e \in Devices \ {d} : unsynced'[e] = unsynced[e]
        /\ unsynced'[d] = Append(unsynced[d], op)
        /\ log' = log
        /\ \A e \in Devices, y \in Docs : (e # d \/ y # x) => row'[e][y] = row[e][y]
        /\ op.kind = "put" \/ row[d][x] # None
  <2>1. PICK x \in Docs, op \in Op :
            /\ op.doc = x
            /\ \A e \in Devices \ {d} : unsynced'[e] = unsynced[e]
            /\ unsynced'[d] = Append(unsynced[d], op)
            /\ UNCHANGED <<seen, pc, queue, hand, log, blobs, unsent>>
            /\ \A e \in Devices, y \in Docs : (e # d \/ y # x) => row'[e][y] = row[e][y]
            /\ op.kind = "put" \/ row[d][x] # None
    BY UserLogs
  <2> QED BY <2>1
<1> DEFINE s == unsynced[d]
           t == unsynced'[d]
           n == Len(unsynced[d])
<1>1. /\ n \in Nat /\ DOMAIN s = 1..n /\ DOMAIN t = 1..(n + 1) /\ Len(t) = n + 1
      /\ \A i \in 1..n : t[i] = s[i]
      /\ t[n + 1] = op
  <2>1. s \in Seq(Op)
    BY DEF TypeOK
  <2> QED BY <2>1
<1>2. ASSUME NEW y \in Docs, PutIn(s, y, n) PROVE PutIn(t, y, n + 1)
  <2> PICK j \in 1..n : s[j].kind = "put" /\ s[j].doc = y
    BY <1>2 DEF PutIn
  <2>1. j \in 1..(n + 1) /\ t[j] = s[j]
    BY <1>1
  <2> HIDE DEF s, t, n
  <2> QED BY <2>1 DEF PutIn
<1>3. PutIn(log, x, Len(log)) \/ PutIn(t, x, n + 1)
  <2>1. CASE op.kind = "put"
    <3>1. n + 1 \in 1..(n + 1)
      BY <1>1
    <3> HIDE DEF s, t, n
    <3> QED BY <1>1, <2>1, <3>1 DEF PutIn
  <2>2. CASE row[d][x] # None
    BY <1>2, <2>2 DEF PutFirst
  <2> QED BY <2>1, <2>2
<1>4. \A i \in DOMAIN log' : PutIn(log', log'[i].doc, i)
  BY DEF PutFirst
<1>5. ASSUME NEW e \in Devices, NEW i \in DOMAIN unsynced'[e]
      PROVE  \/ PutIn(log', unsynced'[e][i].doc, Len(log'))
             \/ PutIn(unsynced'[e], unsynced'[e][i].doc, i)
  <2>1. CASE e # d
    BY <1>5, <2>1 DEF PutFirst
  <2>2. CASE e = d /\ i = n + 1
    BY <1>1, <1>3, <2>2
  <2>3. CASE e = d /\ i # n + 1
    <3>1. i \in 1..n /\ t[i] = s[i]
      BY <1>1, <1>5, <2>3
    <3>2. PutIn(log, s[i].doc, Len(log)) \/ PutIn(s, s[i].doc, i)
      BY <1>1, <3>1 DEF PutFirst
    <3>3. PutIn(s, s[i].doc, i) => PutIn(t, s[i].doc, i)
      BY <1>1, <3>1 DEF PutIn
    <3> QED BY <2>3, <3>1, <3>2, <3>3
  <2> QED BY <2>1, <2>2, <2>3
<1>6. ASSUME NEW e \in Devices, NEW y \in Docs, row'[e][y] # None
      PROVE  \/ PutIn(log', y, Len(log'))
             \/ PutIn(unsynced'[e], y, Len(unsynced'[e]))
  <2>1. CASE e = d /\ y = x
    BY <1>1, <1>3, <2>1
  <2>2. CASE e = d /\ y # x
    <3>1. row[d][y] # None
      BY <1>6, <2>2
    <3>2. PutIn(log, y, Len(log)) \/ PutIn(s, y, n)
      BY <3>1 DEF PutFirst
    <3>3. PutIn(log, y, Len(log)) \/ PutIn(t, y, n + 1)
      BY <1>2, <3>2
    <3> QED BY <1>1, <2>2, <3>3
  <2>3. CASE e # d
    BY <1>6, <2>3 DEF PutFirst
  <2> QED BY <2>1, <2>2, <2>3
<1> QED BY <1>4, <1>5, <1>6 DEF PutFirst

LEMMA PutFirstPush ==
    ASSUME BlobSyncAssumption, BlobInv, NEW d \in Devices, Push(d)
    PROVE  PutFirst'
<1> USE DEF BlobInv
<1>1. /\ Len(log) \in Nat /\ Len(unsynced[d]) \in Nat
      /\ Len(log') = Len(log) + Len(unsynced[d])
      /\ DOMAIN log' = 1..Len(log') /\ DOMAIN log = 1..Len(log)
      /\ DOMAIN unsynced[d] = 1..Len(unsynced[d])
      /\ \A i \in DOMAIN log : log'[i] = log[i]
      /\ \A i \in DOMAIN unsynced[d] : log'[Len(log) + i] = unsynced[d][i]
      /\ \A i \in DOMAIN log' : \/ i \in DOMAIN log
                                \/ \E j \in DOMAIN unsynced[d] : i = Len(log) + j
      /\ unsynced'[d] = <<>> /\ row' = row
      /\ \A e \in Devices \ {d} : unsynced'[e] = unsynced[e]
  BY Pushed
<1>2. ASSUME NEW x, NEW n \in 1..Len(log), NEW m \in n..Len(log'), PutIn(log, x, n)
      PROVE  PutIn(log', x, m)
  BY <1>1, <1>2 DEF PutIn
<1>3. ASSUME NEW x, NEW n \in DOMAIN unsynced[d], NEW m \in (Len(log) + n)..Len(log'),
             PutIn(unsynced[d], x, n)
      PROVE  PutIn(log', x, m)
  <2> PICK j \in 1..n : unsynced[d][j].kind = "put" /\ unsynced[d][j].doc = x
    BY <1>3 DEF PutIn
  <2>1. j \in DOMAIN unsynced[d] /\ Len(log) + j \in 1..m
    BY <1>1
  <2>2. log'[Len(log) + j] = unsynced[d][j]
    BY <1>1, <2>1
  <2> QED BY <2>1, <2>2 DEF PutIn
<1>4. ASSUME NEW x, PutIn(log, x, Len(log)) PROVE \A m \in Len(log)..Len(log') : PutIn(log', x, m)
  <2>1. Len(log) \in 1..Len(log)
    BY <1>1, <1>4 DEF PutIn
  <2> QED BY <1>2, <1>4, <2>1
<1>5. ASSUME NEW i \in DOMAIN log' PROVE PutIn(log', log'[i].doc, i)
  <2>1. CASE i \in DOMAIN log
    <3>1. PutIn(log, log[i].doc, i) /\ log'[i] = log[i] /\ i \in 1..Len(log) /\ i \in i..Len(log')
      BY <1>1, <2>1 DEF PutFirst
    <3> QED BY <1>2, <3>1
  <2>2. ASSUME NEW j \in DOMAIN unsynced[d], i = Len(log) + j PROVE PutIn(log', log'[i].doc, i)
    <3>1. log'[i] = unsynced[d][j]
      BY <1>1, <2>2
    <3>2. i \in Len(log)..Len(log') /\ i \in (Len(log) + j)..Len(log')
      BY <1>1, <2>2
    <3>3. \/ PutIn(log, unsynced[d][j].doc, Len(log))
          \/ PutIn(unsynced[d], unsynced[d][j].doc, j)
      BY DEF PutFirst
    <3> QED BY <1>3, <1>4, <3>1, <3>2, <3>3
  <2> QED BY <1>1, <2>1, <2>2
<1>6. Len(log') \in Len(log)..Len(log')
  BY <1>1
<1>7. ASSUME NEW e \in Devices, NEW i \in DOMAIN unsynced'[e]
      PROVE  \/ PutIn(log', unsynced'[e][i].doc, Len(log'))
             \/ PutIn(unsynced'[e], unsynced'[e][i].doc, i)
  <2>1. e # d
    BY <1>1, <1>7
  <2> QED BY <1>1, <1>4, <1>6, <1>7, <2>1 DEF PutFirst
<1>8. ASSUME NEW e \in Devices, NEW y \in Docs, row'[e][y] # None
      PROVE  \/ PutIn(log', y, Len(log'))
             \/ PutIn(unsynced'[e], y, Len(unsynced'[e]))
  <2>1. PutIn(log, y, Len(log)) \/ PutIn(unsynced[e], y, Len(unsynced[e]))
    BY <1>1, <1>8 DEF PutFirst
  <2>2. CASE PutIn(log, y, Len(log))
    BY <1>4, <1>6, <2>2
  <2>3. CASE e # d
    BY <1>1, <2>1, <2>2, <2>3
  <2>4. CASE e = d /\ PutIn(unsynced[d], y, Len(unsynced[d]))
    <3>1. Len(unsynced[d]) \in DOMAIN unsynced[d]
      BY <1>1, <2>4 DEF PutIn
    <3>2. Len(log') \in (Len(log) + Len(unsynced[d]))..Len(log')
      BY <1>1
    <3> QED BY <1>3, <2>4, <3>1, <3>2
  <2> QED BY <2>1, <2>2, <2>3, <2>4
<1> QED BY <1>5, <1>7, <1>8 DEF PutFirst

LEMMA PutFirstStep == BlobSyncAssumption /\ BlobInv /\ [Next]_vars => PutFirst'
<1> SUFFICES ASSUME BlobSyncAssumption, BlobInv, [Next]_vars PROVE PutFirst'
  OBVIOUS
<1> USE DEF BlobInv
<1>1. CASE unsynced' = unsynced /\ log' = log
  <2>1. ASSUME NEW e \in Devices, NEW x \in Docs, row'[e][x] # None, row[e][x] = None
        PROVE  PutIn(log, x, Len(log))
    <3>1. ApplyNext(e) /\ log[seen[e] + 1].doc = x
      <4>1. ASSUME NEW d \in Devices, UserStep(d) PROVE FALSE
        <5> PICK op \in Op : unsynced'[d] = Append(unsynced[d], op)
          BY <4>1, UserLogs
        <5>1. unsynced[d] \in Seq(Op)
          BY DEF TypeOK
        <5>2. Len(Append(unsynced[d], op)) = Len(unsynced[d]) + 1 /\ Len(unsynced[d]) \in Nat
          BY <5>1
        <5> QED BY <1>1, <5>2
      <4>2. ASSUME NEW d \in Devices, SaveBlob(d) PROVE FALSE
        BY <2>1, <4>2, SavedData
      <4>3. ASSUME NEW d \in Devices, ApplyNext(d)
            PROVE  d = e /\ log[seen[e] + 1].doc = x
        BY <2>1, <4>3, PulledRow
      <4> QED BY <2>1, <4>1, <4>2, <4>3, RowsChange
    <3>2. seen[e] + 1 \in DOMAIN log
      BY <3>1, PulledRow
    <3>3. PutIn(log, x, seen[e] + 1)
      BY <3>1, <3>2 DEF PutFirst
    <3>4. log \in Seq(Op) /\ Len(log) \in Nat /\ DOMAIN log = 1..Len(log)
      BY DEF TypeOK
    <3>5. 1..(seen[e] + 1) \subseteq 1..Len(log)
      BY <3>2, <3>4
    <3> QED BY <3>3, <3>5 DEF PutIn
  <2> QED BY <1>1, <2>1 DEF PutFirst
<1>2. CASE \E d \in Devices : UserStep(d)
  BY <1>2, PutFirstUser
<1>3. CASE \E d \in Devices : Push(d)
  BY <1>3, PutFirstPush
<1> QED BY <1>1, <1>2, <1>3, OpsChange

\* What a step may put into a queue.
LEMMA QueueChange ==
    ASSUME BlobSyncAssumption, BlobInv, [Next]_vars,
           NEW e \in Devices, NEW i \in DOMAIN queue'[e]
    PROVE  \/ \E j \in DOMAIN queue[e] : queue'[e][i] = queue[e][j]
           \/ Push(e) /\ i \in DOMAIN unsynced[e] /\ queue'[e][i] = unsynced[e][i]
           \/ ListPending(e)
<1> USE DEF BlobInv, relay, cycle, bounds
<1>1. CASE queue' = queue
  BY <1>1
<1>2. ASSUME NEW d \in Devices, queue[d] # <<>>, NextInQueue(d)
      PROVE  \E j \in DOMAIN queue[e] : queue'[e][i] = queue[e][j]
  <2>1. CASE e = d
    <3>1. /\ queue'[d] = Tail(queue[d])
          /\ \A k \in DOMAIN Tail(queue[d]) : \E j \in DOMAIN queue[d] :
                Tail(queue[d])[k] = queue[d][j]
      BY <1>2, NextType
    <3> QED BY <2>1, <3>1
  <2>2. CASE e # d
    <3>1. queue'[e] = queue[e]
      BY <1>2, <2>2, NextType
    <3> QED BY <3>1
  <2> QED BY <2>1, <2>2
<1>3. ASSUME NEW d \in Devices, CycleStep(d), ~Push(d), ~ListPending(d)
      PROVE  queue' = queue \/ (queue[d] # <<>> /\ NextInQueue(d))
  <2>1. CASE StartCycle(d) \/ ApplyNext(d) \/ PullDone(d) \/ Refused(d) \/ CycleDone(d)
    BY <2>1 DEF StartCycle, ApplyNext, PullDone, Refused, CycleDone
  <2>2. CASE HeadBlob(d) \/ GetBlob(d)
    BY <2>2 DEF HeadBlob, GetBlob
  <2>3. CASE LoadDocument(d) \/ PutBlob(d) \/ SaveBlob(d)
    <3>1. queue[d] # <<>>
      BY <2>3 DEF LoadDocument, PutBlob, SaveBlob, HandHolds
    <3> QED BY <2>3, <3>1 DEF LoadDocument, PutBlob, SaveBlob
  <2>4. CASE UploadFails(d)
    BY <2>4 DEF UploadFails, SkipBlob, HandHolds
  <2> QED BY <1>3, <2>1, <2>2, <2>3, <2>4 DEF CycleStep
<1>4. ASSUME NEW d \in Devices, UploadFails(d) \/ DownloadFails(d)
      PROVE  queue[d] # <<>> /\ NextInQueue(d)
  BY <1>4 DEF UploadFails, DownloadFails, SkipBlob, HandHolds
<1>5. ASSUME NEW d \in Devices, Stops(d) \/ Push(d) \/ ListPending(d), e # d
      PROVE  queue'[e] = queue[e]
  BY <1>5 DEF Stops, Push, ListPending, EndsPhase, TypeOK
<1>6. ASSUME Stops(e) PROVE FALSE
  <2>1. queue'[e] = <<>>
    BY <1>6 DEF Stops, EndsPhase, TypeOK
  <2> QED BY <2>1
<1>7. ASSUME Push(e) PROVE i \in DOMAIN unsynced[e] /\ queue'[e][i] = unsynced[e][i]
  BY <1>7, Pushed
<1>8. ASSUME NEW d \in Devices, UserStep(d) PROVE queue' = queue
  BY <1>8, UserLogs
<1>9. ASSUME NEW s, StripeWebhook(s) PROVE queue' = queue
  BY <1>9 DEF StripeWebhook
<1>10. CASE UNCHANGED vars
  BY <1>1, <1>10 DEF vars
<1>11. ASSUME NEW d \in Devices, Stops(d) \/ Push(d) \/ ListPending(d)
       PROVE  \/ \E j \in DOMAIN queue[e] : queue'[e][i] = queue[e][j]
              \/ Push(e) /\ i \in DOMAIN unsynced[e] /\ queue'[e][i] = unsynced[e][i]
              \/ ListPending(e)
  BY <1>5, <1>6, <1>7, <1>11
<1> QED BY <1>1, <1>2, <1>3, <1>4, <1>8, <1>9, <1>10, <1>11 DEF Next

\* A cycle's step leaves the cycles of the other devices alone.
LEMMA OthersCycles ==
    ASSUME TypeOK, HandHolds,
           NEW d \in Devices, CycleStep(d) \/ UploadFails(d) \/ DownloadFails(d) \/ Stops(d),
           NEW e \in Devices, e # d
    PROVE  pc'[e] = pc[e] /\ queue'[e] = queue[e] /\ hand'[e] = hand[e]
<1> USE DEF cycle, TypeOK, Goes, Drops, NextInQueue, EndsPhase
<1>1. CASE StartCycle(d) \/ ApplyNext(d) \/ PullDone(d) \/ Push(d) \/ Refused(d) \/ CycleDone(d)
  BY <1>1 DEF StartCycle, ApplyNext, PullDone, Push, Refused, CycleDone
<1>2. CASE HeadBlob(d) \/ LoadDocument(d) \/ PutBlob(d)
  BY <1>2 DEF HeadBlob, LoadDocument, PutBlob
<1>3. CASE ListPending(d) \/ GetBlob(d) \/ SaveBlob(d)
  BY <1>3 DEF ListPending, GetBlob, SaveBlob
<1>4. CASE UploadFails(d) \/ DownloadFails(d) \/ Stops(d)
  BY <1>4 DEF UploadFails, DownloadFails, Stops, SkipBlob
<1> QED BY <1>1, <1>2, <1>3, <1>4 DEF CycleStep

LEMMA HandHoldsStep == BlobSyncAssumption /\ BlobInv /\ [Next]_vars => HandHolds'
<1> DEFINE H(p, q, h) ==
        /\ p = "load" => q # <<>> /\ HasFile(Head(q))
        /\ p \in {"put", "save"} => q # <<>> /\ h # None /\ h = Head(q).file
        /\ p \in {"get", "save"} => \A i \in DOMAIN q : HasFile(q[i])
<1> SUFFICES ASSUME BlobSyncAssumption, BlobInv, [Next]_vars, NEW e \in Devices
             PROVE  H(pc'[e], queue'[e], hand'[e])
  BY DEF HandHolds, HasFile
<1> USE DEF BlobInv
<1>1. H(pc[e], queue[e], hand[e])
  BY DEF HandHolds
<1>2. CASE pc'[e] = pc[e] /\ queue'[e] = queue[e] /\ hand'[e] = hand[e]
  BY <1>1, <1>2
<1>3. ASSUME StartCycle(e) \/ ApplyNext(e) \/ PullDone(e) \/ Push(e) \/ Refused(e) \/ CycleDone(e)
      PROVE  H(pc'[e], queue'[e], hand'[e])
  <2>1. pc'[e] \in {"idle", "pull", "push", "head"}
    BY <1>3 DEF StartCycle, ApplyNext, PullDone, Push, Refused, CycleDone, Goes, TypeOK, cycle
  <2> QED BY <2>1
<1>4. ASSUME HeadBlob(e) PROVE H(pc'[e], queue'[e], hand'[e])
  BY <1>4 DEF HeadBlob, Goes, TypeOK
<1>5. ASSUME LoadDocument(e) PROVE H(pc'[e], queue'[e], hand'[e])
  <2>1. queue[e] # <<>> /\ HasFile(Head(queue[e])) /\ pc[e] = "load"
    BY <1>1, <1>5 DEF LoadDocument
  <2>2. \/ pc'[e] = "head"
        \/ /\ pc'[e] = "put" /\ queue'[e] = queue[e]
           /\ hand'[e] = Head(queue[e]).file
    BY <1>5 DEF LoadDocument, HashMatches, Goes, TypeOK
  <2> QED BY <2>1, <2>2 DEF HasFile
<1>6. ASSUME PutBlob(e) \/ UploadFails(e) \/ Stops(e) PROVE H(pc'[e], queue'[e], hand'[e])
  <2>1. pc'[e] \in {"idle", "head"}
    BY <1>6 DEF PutBlob, UploadFails, Stops, SkipBlob, Goes, TypeOK
  <2> QED BY <2>1
<1>7. ASSUME ListPending(e) PROVE H(pc'[e], queue'[e], hand'[e])
  <2>1. pc'[e] = "get"
    BY <1>7 DEF ListPending, Goes, TypeOK
  <2> QED BY <1>7, <2>1, PendingQueue
<1>8. ASSUME NextInQueue(e), queue[e] # <<>>, pc[e] \in {"get", "save"}, pc'[e] = "get"
      PROVE  H(pc'[e], queue'[e], hand'[e])
  <2>1. /\ queue'[e] = Tail(queue[e])
        /\ \A k \in DOMAIN Tail(queue[e]) : \E j \in DOMAIN queue[e] :
                Tail(queue[e])[k] = queue[e][j]
    BY <1>8, NextType
  <2>2. \A j \in DOMAIN queue[e] : HasFile(queue[e][j])
    BY <1>1, <1>8
  <2>3. ASSUME NEW k \in DOMAIN queue'[e] PROVE HasFile(queue'[e][k])
    BY <2>1, <2>2, <2>3
  <2> QED BY <1>8, <2>3
<1>9. ASSUME GetBlob(e) PROVE H(pc'[e], queue'[e], hand'[e])
  <2>1. CASE NextInQueue(e) /\ UNCHANGED <<pc, hand>>
    BY <1>8, <1>9, <2>1 DEF GetBlob
  <2>2. CASE ~NextInQueue(e) \/ ~UNCHANGED <<pc, hand>>
    <3>1. /\ queue[e] # <<>> /\ pc[e] = "get" /\ pc'[e] = "save" /\ queue'[e] = queue[e]
          /\ hand'[e] = Head(queue[e]).file
      BY <1>9, <2>2 DEF GetBlob, HashMatches, Goes, TypeOK
    <3>2. \A i \in DOMAIN queue[e] : HasFile(queue[e][i])
      BY <1>1, <3>1
    <3>3. HasFile(Head(queue[e]))
      BY <3>1, <3>2, NextType
    <3> QED BY <3>1, <3>2, <3>3 DEF HasFile
  <2> QED BY <2>1, <2>2
<1>10. ASSUME SaveBlob(e) PROVE H(pc'[e], queue'[e], hand'[e])
  <2>1. queue[e] # <<>> /\ pc[e] = "save" /\ pc'[e] = "get" /\ NextInQueue(e)
    BY <1>1, <1>10 DEF SaveBlob, Goes, TypeOK
  <2> QED BY <1>8, <2>1
<1>11. ASSUME DownloadFails(e) PROVE H(pc'[e], queue'[e], hand'[e])
  BY <1>8, <1>11 DEF DownloadFails
<1>12. ASSUME NEW d \in Devices, UserStep(d)
       PROVE  pc'[e] = pc[e] /\ queue'[e] = queue[e] /\ hand'[e] = hand[e]
  BY <1>12, UserLogs
<1>13. ASSUME NEW s, StripeWebhook(s)
       PROVE  pc'[e] = pc[e] /\ queue'[e] = queue[e] /\ hand'[e] = hand[e]
  BY <1>13 DEF StripeWebhook, cycle
<1>14. CASE UNCHANGED vars
  BY <1>2, <1>14 DEF vars, cycle
<1>15. ASSUME CycleStep(e) PROVE H(pc'[e], queue'[e], hand'[e])
  <2> HIDE DEF H
  <2> QED BY <1>15, <1>3, <1>4, <1>5, <1>6, <1>7, <1>9, <1>10 DEF CycleStep
<1>16. ASSUME NEW d \in Devices, CycleStep(d) \/ UploadFails(d) \/ DownloadFails(d) \/ Stops(d)
       PROVE  H(pc'[e], queue'[e], hand'[e])
  <2>1. CASE d = e
    <3> HIDE DEF H
    <3> QED BY <1>6, <1>11, <1>15, <1>16, <2>1
  <2>2. CASE d # e
    BY <1>2, <1>16, <2>2, OthersCycles
  <2> QED BY <2>1, <2>2
<1> HIDE DEF H
<1> QED BY <1>2, <1>12, <1>13, <1>14, <1>16 DEF Next

LEMMA RowsMadeStep == BlobSyncAssumption /\ BlobInv /\ [Next]_vars => RowsMade'
<1> SUFFICES ASSUME BlobSyncAssumption, BlobInv, [Next]_vars, NEW e \in Devices
             PROVE  /\ seen'[e] <= Len(log')
                    /\ \A i \in DOMAIN log' :
                        i <= seen'[e] \/ log'[i].by = e => row'[e][log'[i].doc] # None
                    /\ \A i \in DOMAIN unsynced'[e] : row'[e][unsynced'[e][i].doc] # None
                    /\ \A i \in DOMAIN queue'[e] : row'[e][queue'[e][i].doc] # None
  BY DEF RowsMade
<1> USE DEF BlobInv
<1>1. /\ log \in Seq(Op) /\ Len(log) \in Nat /\ DOMAIN log = 1..Len(log)
      /\ seen \in [Devices -> Nat] /\ seen[e] \in Nat /\ seen[e] <= Len(log)
      /\ unsynced[e] \in Seq(Op) /\ queue[e] \in Seq(Op)
  BY DEF TypeOK, RowsMade
<1>2. \A x \in Docs : row[e][x] # None => row'[e][x] # None
  BY RowsStay
<1>3. /\ \A i \in DOMAIN log : log[i].doc \in Docs
      /\ \A i \in DOMAIN unsynced[e] : unsynced[e][i].doc \in Docs
      /\ \A i \in DOMAIN queue[e] : queue[e][i].doc \in Docs
  BY <1>1 DEF Op
<1>4. \A i \in DOMAIN queue'[e] : row'[e][queue'[e][i].doc] # None
  <2> SUFFICES ASSUME NEW i \in DOMAIN queue'[e] PROVE row'[e][queue'[e][i].doc] # None
    OBVIOUS
  <2>1. CASE \E j \in DOMAIN queue[e] : queue'[e][i] = queue[e][j]
    BY <1>2, <1>3, <2>1 DEF RowsMade
  <2>2. CASE Push(e) /\ i \in DOMAIN unsynced[e] /\ queue'[e][i] = unsynced[e][i]
    BY <1>2, <1>3, <2>2 DEF RowsMade
  <2>3. CASE ListPending(e)
    <3>1. row' = row
      BY <2>3 DEF ListPending
    <3> QED BY <2>3, <3>1, PendingQueue
  <2> QED BY <2>1, <2>2, <2>3, QueueChange
<1>5. ASSUME ApplyNext(e)
      PROVE  /\ seen'[e] = seen[e] + 1 /\ seen[e] + 1 <= Len(log)
             /\ row'[e][log[seen[e] + 1].doc] # None
             /\ unsynced' = unsynced /\ log' = log
  <2>1. row'[e][log[seen[e] + 1].doc] # None
    BY <1>5, PulledRow
  <2>2. seen'[e] = seen[e] + 1 /\ seen[e] + 1 <= Len(log) /\ unsynced' = unsynced /\ log' = log
    BY <1>1, <1>5 DEF ApplyNext, relay
  <2> QED BY <2>1, <2>2
<1>6. ~ApplyNext(e) => seen'[e] = seen[e]
  <2> USE DEF cycle, relay
  <2>1. ASSUME NEW d \in Devices, CycleStep(d), ~ApplyNext(d) PROVE seen' = seen
    BY <2>1 DEF CycleStep, StartCycle, Push, PullDone, Refused, HeadBlob, LoadDocument, PutBlob,
       ListPending, GetBlob, SaveBlob, CycleDone, UploadFails
  <2>2. ASSUME NEW d \in Devices, ApplyNext(d), d # e PROVE seen'[e] = seen[e]
    BY <1>1, <2>2 DEF ApplyNext
  <2>3. ASSUME NEW d \in Devices, UploadFails(d) \/ DownloadFails(d) \/ Stops(d) PROVE seen' = seen
    BY <2>3 DEF UploadFails, DownloadFails, Stops
  <2>4. ASSUME NEW d \in Devices, UserStep(d) PROVE seen' = seen
    BY <2>4, UserLogs
  <2>5. ASSUME NEW s, StripeWebhook(s) PROVE seen' = seen
    BY <2>5 DEF StripeWebhook
  <2>6. CASE UNCHANGED vars
    BY <2>6 DEF vars
  <2> QED BY <2>1, <2>2, <2>3, <2>4, <2>5, <2>6 DEF Next
<1>7. CASE unsynced' = unsynced /\ log' = log
  <2>1. seen'[e] <= Len(log)
    BY <1>1, <1>5, <1>6
  <2>2. ASSUME NEW i \in DOMAIN log, i <= seen'[e] \/ log[i].by = e
        PROVE  row'[e][log[i].doc] # None
    <3>1. CASE i <= seen[e] \/ log[i].by = e
      BY <1>2, <1>3, <3>1 DEF RowsMade
    <3>2. CASE i = seen[e] + 1 /\ ApplyNext(e)
      BY <1>5, <3>2
    <3> QED BY <1>1, <1>5, <1>6, <2>2, <3>1, <3>2
  <2> QED BY <1>2, <1>3, <1>4, <1>7, <2>1, <2>2 DEF RowsMade
<1>8. ASSUME NEW d \in Devices, UserStep(d)
      PROVE  /\ seen'[e] <= Len(log')
             /\ \A i \in DOMAIN log' :
                    i <= seen'[e] \/ log'[i].by = e => row'[e][log'[i].doc] # None
             /\ \A i \in DOMAIN unsynced'[e] : row'[e][unsynced'[e][i].doc] # None
  <2> PICK x \in Docs, op \in Op :
        /\ op.doc = x
        /\ \A c \in Devices \ {d} : unsynced'[c] = unsynced[c]
        /\ \A k \in DOMAIN unsynced'[d] :
            \/ k \in DOMAIN unsynced[d] /\ unsynced'[d][k] = unsynced[d][k]
            \/ unsynced'[d][k] = op
        /\ UNCHANGED <<seen, log>>
        /\ row'[d][x] # None
    BY <1>8, UserLogs
  <2>1. seen'[e] <= Len(log')
    BY <1>1
  <2>2. \A i \in DOMAIN log' : i <= seen'[e] \/ log'[i].by = e => row'[e][log'[i].doc] # None
    BY <1>2, <1>3 DEF RowsMade
  <2>3. \A i \in DOMAIN unsynced[e] : row'[e][unsynced[e][i].doc] # None
    BY <1>2, <1>3 DEF RowsMade
  <2>4. ASSUME NEW i \in DOMAIN unsynced'[e] PROVE row'[e][unsynced'[e][i].doc] # None
    <3>1. CASE e = d
      BY <2>3, <3>1
    <3>2. CASE e # d
      BY <2>3, <3>2
    <3> QED BY <3>1, <3>2
  <2> QED BY <2>1, <2>2, <2>4
<1>9. ASSUME NEW d \in Devices, Push(d)
      PROVE  /\ seen'[e] <= Len(log')
             /\ \A i \in DOMAIN log' :
                    i <= seen'[e] \/ log'[i].by = e => row'[e][log'[i].doc] # None
             /\ \A i \in DOMAIN unsynced'[e] : row'[e][unsynced'[e][i].doc] # None
  <2>1. /\ Len(log) \in Nat /\ Len(unsynced[d]) \in Nat
        /\ Len(log') = Len(log) + Len(unsynced[d])
        /\ DOMAIN log' = 1..Len(log')
        /\ DOMAIN unsynced[d] = 1..Len(unsynced[d])
        /\ \A i \in DOMAIN log : log'[i] = log[i]
        /\ \A i \in DOMAIN unsynced[d] : log'[Len(log) + i] = unsynced[d][i]
        /\ \A i \in DOMAIN log' : \/ i \in DOMAIN log
                                  \/ \E j \in DOMAIN unsynced[d] : i = Len(log) + j
        /\ unsynced'[d] = <<>>
        /\ \A c \in Devices \ {d} : unsynced'[c] = unsynced[c]
        /\ row' = row /\ seen' = seen
    BY <1>9, Pushed
  <2>2. ASSUME NEW i \in DOMAIN log', i <= seen'[e] \/ log'[i].by = e
        PROVE  row'[e][log'[i].doc] # None
    <3>1. CASE i \in DOMAIN log
      BY <2>1, <2>2, <3>1 DEF RowsMade
    <3>2. ASSUME NEW j \in DOMAIN unsynced[d], i = Len(log) + j
          PROVE  row'[e][log'[i].doc] # None
      <4>1. log'[i] = unsynced[d][j] /\ unsynced[d][j].by = d
        BY <2>1, <3>2 DEF OwnOps
      <4>2. ~(i <= seen'[e])
        BY <1>1, <2>1, <3>2
      <4>3. e = d
        BY <2>2, <4>1, <4>2
      <4> QED BY <2>1, <4>1, <4>3 DEF RowsMade
    <3> QED BY <2>1, <3>1, <3>2
  <2>3. seen'[e] <= Len(log')
    BY <1>1, <2>1
  <2>4. \A i \in DOMAIN unsynced'[e] : row'[e][unsynced'[e][i].doc] # None
    BY <2>1 DEF RowsMade
  <2> QED BY <2>2, <2>3, <2>4
<1> QED BY <1>4, <1>7, <1>8, <1>9, OpsChange

-----------------------------------------------------------------------------
(* One file per document. *)

\* The operations and queues after a step that is not the user's.
LEMMA NamesKept ==
    ASSUME BlobSyncAssumption, BlobInv, [Next]_vars, \A d \in Devices : ~UserStep(d),
           NEW x \in Docs, NEW f \in Files \cup {None}, FileOf(x, f)
    PROVE  /\ Names(log', x, f)
           /\ \A e \in Devices : Names(unsynced'[e], x, f) /\ Names(queue'[e], x, f)
<1> USE DEF BlobInv
<1>1. /\ Names(log, x, f)
      /\ \A e \in Devices : Names(unsynced[e], x, f) /\ Names(queue[e], x, f)
  BY DEF FileOf
<1>2. Names(log', x, f) /\ \A e \in Devices : Names(unsynced'[e], x, f)
  <2>1. CASE unsynced' = unsynced /\ log' = log
    BY <1>1, <2>1
  <2>2. ASSUME NEW d \in Devices, Push(d)
        PROVE  Names(log', x, f) /\ \A e \in Devices : Names(unsynced'[e], x, f)
    <3>1. /\ \A i \in DOMAIN log : log'[i] = log[i]
          /\ \A i \in DOMAIN unsynced[d] : log'[Len(log) + i] = unsynced[d][i]
          /\ \A i \in DOMAIN log' : \/ i \in DOMAIN log
                                    \/ \E j \in DOMAIN unsynced[d] : i = Len(log) + j
          /\ unsynced'[d] = <<>>
          /\ \A e \in Devices \ {d} : unsynced'[e] = unsynced[e]
      BY <2>2, Pushed
    <3>2. Names(log', x, f)
      BY <1>1, <3>1 DEF Names
    <3>3. ASSUME NEW e \in Devices PROVE Names(unsynced'[e], x, f)
      <4>1. CASE e = d
        BY <3>1, <4>1 DEF Names
      <4>2. CASE e # d
        BY <1>1, <3>1, <4>2
      <4> QED BY <4>1, <4>2
    <3> QED BY <3>2, <3>3
  <2> QED BY <2>1, <2>2, OpsChange
<1>3. ASSUME NEW e \in Devices, NEW i \in DOMAIN queue'[e], queue'[e][i].doc = x
      PROVE  queue'[e][i].file \in {f, None}
  <2>1. CASE \E j \in DOMAIN queue[e] : queue'[e][i] = queue[e][j]
    BY <1>1, <1>3, <2>1 DEF Names
  <2>2. CASE Push(e) /\ i \in DOMAIN unsynced[e] /\ queue'[e][i] = unsynced[e][i]
    BY <1>1, <1>3, <2>2 DEF Names
  <2>3. CASE ListPending(e)
    <3>1. row[e][x] # None /\ queue'[e][i].file = row[e][x].ref
      BY <1>3, <2>3, PendingQueue
    <3> QED BY <3>1 DEF FileOf
  <2> QED BY <2>1, <2>2, <2>3, QueueChange
<1> QED BY <1>2, <1>3 DEF Names

\* The rows after such a step.
LEMMA RowFileKept ==
    ASSUME BlobSyncAssumption, BlobInv, [Next]_vars, \A d \in Devices : ~UserStep(d),
           NEW x \in Docs, NEW f \in Files \cup {None}, FileOf(x, f),
           NEW e \in Devices, row'[e][x] # None
    PROVE  row'[e][x].ref = f /\ row'[e][x].bytes \in {None, f}
<1> USE DEF BlobInv
<1>1. row[e][x] # None => row[e][x].ref = f /\ row[e][x].bytes \in {None, f}
  BY DEF FileOf
<1>2. CASE row'[e][x] = row[e][x]
  BY <1>1, <1>2
<1>3. ASSUME NEW d \in Devices, ApplyNext(d), row'[e][x] # row[e][x]
      PROVE  row'[e][x].ref = f /\ row'[e][x].bytes \in {None, f}
  <2> DEFINE op == log[seen[d] + 1]
  <2>1. /\ seen[d] + 1 \in DOMAIN log /\ op \in Op
        /\ d = e /\ x = op.doc
        /\ row'[d][op.doc].ref = IF op.kind = "put" THEN op.file ELSE row[d][op.doc].ref
        /\ row'[d][op.doc].bytes = IF row[d][op.doc] = None THEN None ELSE row[d][op.doc].bytes
        /\ op.kind = "put" \/ row[d][op.doc] # None
    BY <1>3, PulledRow
  <2>2. op.file \in {f, None}
    BY <2>1 DEF FileOf, Names
  <2>3. op.kind = "put" => op.file = f
    BY <2>1, <2>2 DEF Op, BlobSyncAssumption
  <2> HIDE DEF op
  <2> QED BY <1>1, <2>1, <2>3
<1>4. ASSUME NEW d \in Devices, SaveBlob(d), row'[e][x] # row[e][x]
      PROVE  row'[e][x].ref = f /\ row'[e][x].bytes \in {None, f}
  <2>1. /\ queue[d] # <<>> /\ d = e /\ x = Head(queue[d]).doc
        /\ row[d][x] # None
        /\ row'[d][x].ref = row[d][x].ref
        /\ row'[d][x].bytes \in {row[d][x].bytes, Head(queue[d]).file}
    BY <1>3, <1>4, SavedData
  <2>2. PICK i \in DOMAIN queue[d] : queue[d][i] = Head(queue[d])
    BY <2>1, NextType
  <2>3. Head(queue[d]).file \in {f, None}
    BY <2>1, <2>2 DEF FileOf, Names
  <2> QED BY <1>1, <2>1, <2>3
<1> QED BY <1>2, <1>3, <1>4, RowsChange

LEMMA OneFileUser ==
    ASSUME BlobSyncAssumption, BlobInv, NEW d \in Devices, UserStep(d),
           NEW x \in Docs \ replaced'
    PROVE  \E f \in Files \cup {None} : FileOf(x, f)'
<1> USE DEF BlobInv
<1> PICK y \in Docs, op \in Op :
        /\ op.doc = y /\ op.by = d
        /\ \A e \in Devices \ {d} : unsynced'[e] = unsynced[e]
        /\ \A i \in DOMAIN unsynced'[d] :
            \/ i \in DOMAIN unsynced[d] /\ unsynced'[d][i] = unsynced[d][i]
            \/ unsynced'[d][i] = op
        /\ UNCHANGED <<queue, log>>
        /\ \A e \in Devices, z \in Docs : (e # d \/ z # y) => row'[e][z] = row[e][z]
        /\ row'[d][y] # None
        /\ \/ /\ \A e \in Devices : row[e][y] = None
              /\ replaced' = replaced
              /\ op.kind = "put"
              /\ row'[d][y].ref = op.file /\ row'[d][y].bytes = op.file
           \/ /\ row[d][y] # None
              /\ replaced' = replaced \cup {y}
           \/ /\ row[d][y] # None
              /\ replaced' = replaced
              /\ op.file \in {row[d][y].ref, None}
              /\ row'[d][y].ref = row[d][y].ref
              /\ row'[d][y].bytes = row[d][y].bytes
  BY UserLogs
<1>1. x \in Docs \ replaced
  OBVIOUS
<1> PICK f \in Files \cup {None} : FileOf(x, f)
  BY <1>1 DEF OneFile
<1>2. ASSUME NEW g \in Files \cup {None}, Names(log, x, g),
             \A e \in Devices : Names(unsynced[e], x, g) /\ Names(queue[e], x, g),
             x = y => op.file \in {g, None},
             \A e \in Devices :
                row'[e][x] # None => row'[e][x].ref = g /\ row'[e][x].bytes \in {None, g}
      PROVE  FileOf(x, g)'
  <2>1. ASSUME NEW e \in Devices PROVE Names(unsynced'[e], x, g)
    <3>1. CASE e = d
      BY <1>2, <3>1 DEF Names
    <3>2. CASE e # d
      BY <1>2, <3>2 DEF Names
    <3> QED BY <3>1, <3>2
  <2> QED BY <1>2, <2>1 DEF FileOf
<1>3. CASE x # y
  BY <1>2, <1>3 DEF FileOf
<1>4. CASE x = y /\ \A e \in Devices : row[e][y] = None
  <2>1. op.kind = "put" /\ row'[d][y].ref = op.file /\ row'[d][y].bytes = op.file
    BY <1>4
  <2>2. op.file \in Files
    BY <2>1 DEF Op
  <2>3. ASSUME NEW i \in DOMAIN log, log[i].doc = x PROVE FALSE
    <3>1. log[i].by \in Devices
      <4>1. log \in Seq(Op)
        BY DEF TypeOK
      <4> QED BY <4>1 DEF Op
    <3> QED BY <1>4, <2>3, <3>1 DEF RowsMade
  <2>4. \A e \in Devices : /\ \A i \in DOMAIN unsynced[e] : unsynced[e][i].doc # x
                           /\ \A i \in DOMAIN queue[e] : queue[e][i].doc # x
    BY <1>4 DEF RowsMade
  <2>5. Names(log, x, op.file) /\
        \A e \in Devices : Names(unsynced[e], x, op.file) /\ Names(queue[e], x, op.file)
    BY <2>3, <2>4 DEF Names
  <2>6. \A e \in Devices :
            row'[e][x] # None => row'[e][x].ref = op.file /\ row'[e][x].bytes \in {None, op.file}
    BY <1>4, <2>1
  <2> QED BY <1>2, <2>2, <2>5, <2>6
<1>5. CASE x = y /\ row[d][y] # None
  <2>1. /\ op.file \in {row[d][y].ref, None}
        /\ row'[d][y].ref = row[d][y].ref
        /\ row'[d][y].bytes = row[d][y].bytes
    BY <1>5
  <2>2. row[d][x].ref = f /\ row[d][x].bytes \in {None, f}
    BY <1>5 DEF FileOf
  <2> QED BY <1>2, <1>5, <2>1, <2>2 DEF FileOf
<1> QED BY <1>3, <1>4, <1>5

LEMMA OneFileStep == BlobSyncAssumption /\ BlobInv /\ [Next]_vars => OneFile'
<1> SUFFICES ASSUME BlobSyncAssumption, BlobInv, [Next]_vars, NEW x \in Docs \ replaced'
             PROVE  \E f \in Files \cup {None} : FileOf(x, f)'
  BY DEF OneFile
<1>1. CASE \E d \in Devices : UserStep(d)
  BY <1>1, OneFileUser
<1>2. CASE \A d \in Devices : ~UserStep(d)
  <2>1. replaced' = replaced
    <3> USE DEF cycle, relay, bounds
    <3>1. ASSUME NEW d \in Devices, CycleStep(d) PROVE replaced' = replaced
      BY <3>1 DEF CycleStep, StartCycle, ApplyNext, Push, PullDone, Refused, HeadBlob,
         LoadDocument, PutBlob, ListPending, GetBlob, SaveBlob, CycleDone, UploadFails
    <3>2. ASSUME NEW d \in Devices, UploadFails(d) \/ DownloadFails(d) \/ Stops(d)
          PROVE  replaced' = replaced
      BY <3>2 DEF UploadFails, DownloadFails, Stops
    <3>3. ASSUME NEW s, StripeWebhook(s) PROVE replaced' = replaced
      BY <3>3 DEF StripeWebhook
    <3>4. CASE UNCHANGED vars
      BY <3>4 DEF vars
    <3> QED BY <1>2, <3>1, <3>2, <3>3, <3>4 DEF Next
  <2> PICK f \in Files \cup {None} : FileOf(x, f)
    BY <2>1 DEF BlobInv, OneFile
  <2>2. x \in Docs
    OBVIOUS
  <2>3. /\ Names(log', x, f)
        /\ \A e \in Devices : Names(unsynced'[e], x, f) /\ Names(queue'[e], x, f)
    BY <1>2, <2>2, NamesKept
  <2>4. \A e \in Devices :
            row'[e][x] # None => row'[e][x].ref = f /\ row'[e][x].bytes \in {None, f}
    BY <1>2, <2>2, RowFileKept
  <2>5. FileOf(x, f)'
    BY <2>3, <2>4 DEF FileOf, Names
  <2> QED BY <2>5
<1> QED BY <1>1, <1>2

-----------------------------------------------------------------------------
(* The relay's store. *)

LEMMA PutStores ==
    ASSUME BlobSyncAssumption, BlobInv, NEW d \in Devices, PutBlob(d),
           NEW f, f = Head(queue[d]).file
    PROVE  /\ f \in Files /\ queue[d] # <<>>
           /\ \A g \in Files \ {f} : blobs'[g] = blobs[g]
           /\ blobs'[f] = IF blobs[f] = None /\ Fits(f) THEN f ELSE blobs[f]
<1> USE DEF BlobInv
<1>1. /\ queue[d] # <<>> /\ hand[d] # None /\ hand[d] = f
      /\ hand[d] \in Files \cup {None} /\ blobs \in [Files -> Files \cup {None}]
  BY DEF PutBlob, HandHolds, TypeOK
<1>2. f \in Files
  BY <1>1
<1>3. blobs' = IF blobs[f] = None /\ Fits(f) THEN [blobs EXCEPT ![f] = hand[d]] ELSE blobs
  BY DEF PutBlob
<1> QED BY <1>1, <1>2, <1>3

LEMMA BlobsChange ==
    ASSUME BlobSyncAssumption, BlobInv, [Next]_vars
    PROVE  blobs' = blobs \/ \E d \in Devices : PutBlob(d)
<1> USE DEF cycle, relay, bounds
<1>1. ASSUME NEW d \in Devices, CycleStep(d), ~PutBlob(d) PROVE blobs' = blobs
  BY <1>1 DEF CycleStep, StartCycle, ApplyNext, Push, PullDone, Refused, HeadBlob,
     LoadDocument, ListPending, GetBlob, SaveBlob, CycleDone, UploadFails
<1>2. ASSUME NEW d \in Devices, UploadFails(d) \/ DownloadFails(d) \/ Stops(d)
      PROVE  blobs' = blobs
  BY <1>2 DEF UploadFails, DownloadFails, Stops
<1>3. ASSUME NEW s, StripeWebhook(s) PROVE blobs' = blobs
  BY <1>3 DEF StripeWebhook
<1>4. ASSUME NEW d \in Devices, UserStep(d) PROVE blobs' = blobs
  BY <1>4, UserLogs DEF BlobInv
<1>5. CASE UNCHANGED vars
  BY <1>5 DEF vars
<1> QED BY <1>1, <1>2, <1>3, <1>4, <1>5 DEF Next

LEMMA BlobsStay ==
    ASSUME BlobSyncAssumption, BlobInv, [Next]_vars
    PROVE  \A g \in Files : blobs[g] # None => blobs'[g] # None
<1> SUFFICES ASSUME NEW g \in Files, blobs[g] # None PROVE blobs'[g] # None
  OBVIOUS
<1>1. ASSUME NEW d \in Devices, PutBlob(d) PROVE blobs'[g] # None
  BY <1>1, PutStores
<1> QED BY <1>1, BlobsChange

LEMMA QuotaStep == BlobSyncAssumption /\ BlobInv /\ [Next]_vars => QuotaHeld'
<1> SUFFICES ASSUME BlobSyncAssumption, BlobInv, [Next]_vars, Quota > 0
             PROVE  Used' <= Quota
  BY DEF QuotaHeld
<1>1. Quota \in Nat /\ Used <= Quota /\ Used \in Nat /\ Used' \in Nat
  BY BlobsStay, StoredGrows DEF BlobInv, QuotaHeld, BlobSyncAssumption
<1>2. CASE blobs' = blobs
  BY <1>1, <1>2 DEF Used, Stored
<1>3. ASSUME NEW d \in Devices, PutBlob(d) PROVE Used' <= Quota
  <2> DEFINE f == Head(queue[d]).file
  <2>1. /\ f \in Files
        /\ \A g \in Files \ {f} : blobs'[g] = blobs[g]
        /\ blobs'[f] = IF blobs[f] = None /\ Fits(f) THEN f ELSE blobs[f]
    BY <1>3, PutStores
  <2> HIDE DEF f
  <2>2. CASE blobs[f] = None /\ Fits(f)
    <3>1. Used + Size[f] <= Quota
      BY <2>2 DEF Fits
    <3>2. Stored' \subseteq Stored \cup Bytes(f)
      BY <2>1 DEF Stored
    <3>3. IsFiniteSet(Stored)
      BY StoredFinite DEF Stored
    <3>4. IsFiniteSet(Bytes(f)) /\ Cardinality(Bytes(f)) = Size[f] /\ Size[f] \in Nat
      BY <2>1, BytesOf DEF BlobSyncAssumption
    <3>5. /\ IsFiniteSet(Stored \cup Bytes(f))
          /\ Cardinality(Stored \cup Bytes(f)) =
                Cardinality(Stored) + Cardinality(Bytes(f)) - Cardinality(Stored \cap Bytes(f))
      BY <3>3, <3>4, FS_Union
    <3>6. Cardinality(Stored \cap Bytes(f)) \in Nat /\ Cardinality(Stored \cup Bytes(f)) \in Nat
      BY <3>3, <3>5, FS_Intersection, FS_CardinalityType
    <3>7. Cardinality(Stored') <= Cardinality(Stored \cup Bytes(f))
      BY <3>2, <3>5, FS_Subset
    <3> QED BY <1>1, <3>1, <3>4, <3>5, <3>6, <3>7 DEF Used
  <2>3. CASE ~(blobs[f] = None /\ Fits(f))
    <3>1. \A g \in Files : blobs'[g] = blobs[g]
      BY <2>1, <2>3
    <3>2. Stored' = Stored
      BY <3>1 DEF Stored
    <3> QED BY <1>1, <3>2 DEF Used
  <2> QED BY <2>2, <2>3
<1> QED BY <1>2, <1>3, BlobsChange

\* What a cycle was to upload it still is, or has stored, or has given up, or
\* there was no room for it.
LEMMA UploadingStep ==
    ASSUME BlobSyncAssumption, BlobInv, [Next]_vars,
           NEW e \in Devices, NEW f \in Files, f \in Uploading(e)
    PROVE  f \in Uploading(e)' \/ f \in unsent' \/ blobs'[f] # None \/ ~Fits(f)'
<1> USE DEF BlobInv
<1>1. /\ pc[e] \in {"head", "load", "put"} /\ f # None
      /\ \E i \in DOMAIN queue[e] : queue[e][i].file = f
  BY DEF Uploading
<1>2. pc \in [Devices -> Phases] /\ queue \in [Devices -> Seq(Op)]
  BY DEF TypeOK
<1>3. ASSUME pc'[e] \in {"head", "load", "put"}, queue'[e] = queue[e]
      PROVE  f \in Uploading(e)'
  BY <1>1, <1>3 DEF Uploading
<1>4. ASSUME pc'[e] \in {"head", "load", "put"}, queue[e] # <<>>, NextInQueue(e),
             f # Head(queue[e]).file
      PROVE  f \in Uploading(e)'
  <2> PICK j \in DOMAIN queue[e] : queue[e][j].file = f
    BY <1>1
  <2>1. /\ queue'[e] = Tail(queue[e])
        /\ \A k \in DOMAIN queue[e] :
                \/ queue[e][k] = Head(queue[e])
                \/ \E i \in DOMAIN Tail(queue[e]) : Tail(queue[e])[i] = queue[e][k]
    BY <1>4, NextType
  <2>2. PICK i \in DOMAIN Tail(queue[e]) : Tail(queue[e])[i] = queue[e][j]
    BY <1>4, <2>1
  <2> QED BY <1>1, <1>4, <2>1, <2>2 DEF Uploading
<1>5. CASE pc'[e] = pc[e] /\ queue'[e] = queue[e]
  BY <1>1, <1>3, <1>5
<1>6. ASSUME HeadBlob(e) PROVE f \in Uploading(e)' \/ blobs'[f] # None
  <2>1. CASE /\ HasFile(Head(queue[e])) => Subscribed /\ blobs[Head(queue[e]).file] # None
             /\ NextInQueue(e)
             /\ UNCHANGED pc
    <3>1. queue[e] # <<>> /\ pc'[e] = "head" /\ blobs' = blobs
      BY <1>6, <2>1 DEF HeadBlob, relay
    <3> QED BY <1>1, <1>4, <2>1, <3>1 DEF HasFile
  <2>2. CASE Goes(e, "load") /\ UNCHANGED queue
    BY <1>2, <1>3, <2>2 DEF Goes
  <2> QED BY <1>6, <2>1, <2>2 DEF HeadBlob
<1>7. ASSUME LoadDocument(e) PROVE f \in Uploading(e)' \/ f \in unsent'
  <2>1. queue[e] # <<>>
    BY <1>7 DEF LoadDocument, HandHolds
  <2>2. CASE Goes(e, "put") /\ UNCHANGED queue
    BY <1>2, <1>3, <2>2 DEF Goes
  <2>3. CASE /\ NextInQueue(e) /\ Goes(e, "head")
             /\ unsent' = unsent \cup {Head(queue[e]).file}
    BY <1>2, <1>4, <2>1, <2>3 DEF Goes
  <2> QED BY <1>7, <2>2, <2>3 DEF LoadDocument
<1>8. ASSUME PutBlob(e) PROVE f \in Uploading(e)' \/ blobs'[f] # None \/ ~Fits(f)'
  <2>1. /\ Head(queue[e]).file \in Files /\ queue[e] # <<>>
        /\ \A g \in Files \ {Head(queue[e]).file} : blobs'[g] = blobs[g]
        /\ blobs'[Head(queue[e]).file] =
                IF blobs[Head(queue[e]).file] = None /\ Fits(Head(queue[e]).file)
                THEN Head(queue[e]).file ELSE blobs[Head(queue[e]).file]
    BY <1>8, PutStores
  <2>2. CASE f = Head(queue[e]).file
    <3>1. ~Fits(f) => ~Fits(f)'
      BY BlobsStay, StoredGrows
    <3> QED BY <1>1, <2>1, <2>2, <3>1
  <2>3. CASE f # Head(queue[e]).file
    <3>1. NextInQueue(e) /\ pc'[e] = "head"
      BY <1>2, <1>8 DEF PutBlob, Goes
    <3> QED BY <1>4, <2>1, <2>3, <3>1
  <2> QED BY <2>2, <2>3
<1>9. ASSUME UploadFails(e) PROVE f \in Uploading(e)' \/ f \in unsent'
  <2>1. queue[e] # <<>> /\ NextInQueue(e) /\ pc'[e] = "head"
        /\ unsent' = unsent \cup {Head(queue[e]).file}
    BY <1>2, <1>9 DEF UploadFails, SkipBlob, Goes, HandHolds
  <2> QED BY <1>4, <2>1
<1>10. ASSUME Stops(e) PROVE f \in unsent'
  BY <1>10 DEF Stops
<1>11. ASSUME ListPending(e) PROVE FALSE
  <2>1. queue[e] = <<>>
    BY <1>11 DEF ListPending
  <2> QED BY <1>1, <2>1
<1>12. ASSUME \/ StartCycle(e) \/ ApplyNext(e) \/ PullDone(e) \/ Push(e) \/ Refused(e)
              \/ GetBlob(e) \/ SaveBlob(e) \/ CycleDone(e) \/ DownloadFails(e)
       PROVE  FALSE
  BY <1>1, <1>12 DEF StartCycle, ApplyNext, PullDone, Push, Refused,
     GetBlob, SaveBlob, CycleDone, DownloadFails
<1>13. ASSUME CycleStep(e) \/ UploadFails(e) \/ DownloadFails(e) \/ Stops(e)
       PROVE  f \in Uploading(e)' \/ f \in unsent' \/ blobs'[f] # None \/ ~Fits(f)'
  BY <1>6, <1>7, <1>8, <1>9, <1>10, <1>11, <1>12, <1>13 DEF CycleStep
<1>14. ASSUME NEW d \in Devices, d # e,
              CycleStep(d) \/ UploadFails(d) \/ DownloadFails(d) \/ Stops(d)
       PROVE  pc'[e] = pc[e] /\ queue'[e] = queue[e]
  BY <1>14, OthersCycles
<1>15. ASSUME NEW d \in Devices, UserStep(d) PROVE pc'[e] = pc[e] /\ queue'[e] = queue[e]
  BY <1>15, UserLogs
<1>16. ASSUME NEW s, StripeWebhook(s) PROVE pc'[e] = pc[e] /\ queue'[e] = queue[e]
  BY <1>16 DEF StripeWebhook, cycle
<1>17. CASE UNCHANGED vars
  BY <1>5, <1>17 DEF vars, cycle
<1> QED BY <1>5, <1>13, <1>14, <1>15, <1>16, <1>17 DEF Next

LEMMA NoneForgottenStep == BlobSyncAssumption /\ BlobInv /\ [Next]_vars => NoneForgotten'
<1> SUFFICES ASSUME BlobSyncAssumption, BlobInv, [Next]_vars, NEW i \in DOMAIN log',
                    NEW f, NEW e, f = log'[i].file, e = log'[i].by
             PROVE  \/ f \in {None} \cup unsent' \/ blobs'[f] # None
                    \/ f \in Uploading(e)' \/ ~Fits(f)'
  BY DEF NoneForgotten, Uploading, Fits
<1> USE DEF BlobInv
<1>1. unsent \subseteq unsent'
  <2> USE DEF cycle, relay, bounds
  <2>1. ASSUME NEW d \in Devices, CycleStep(d) PROVE unsent \subseteq unsent'
    BY <2>1 DEF CycleStep, StartCycle, ApplyNext, Push, PullDone, Refused, HeadBlob,
       LoadDocument, PutBlob, ListPending, GetBlob, SaveBlob, CycleDone, UploadFails
  <2>2. ASSUME NEW d \in Devices, UploadFails(d) \/ DownloadFails(d) \/ Stops(d)
        PROVE  unsent \subseteq unsent'
    BY <2>2 DEF UploadFails, DownloadFails, Stops
  <2>3. ASSUME NEW s, StripeWebhook(s) PROVE unsent \subseteq unsent'
    BY <2>3 DEF StripeWebhook
  <2>4. ASSUME NEW d \in Devices, UserStep(d) PROVE unsent \subseteq unsent'
    BY <2>4, UserLogs
  <2>5. CASE UNCHANGED vars
    BY <2>5 DEF vars
  <2> QED BY <2>1, <2>2, <2>3, <2>4, <2>5 DEF Next
<1>2. log \in Seq(Op) /\ \A j \in DOMAIN log : log[j] \in Op
  BY DEF TypeOK
<1>3. CASE i \in DOMAIN log /\ log'[i] = log[i]
  <2>1. f = log[i].file /\ e = log[i].by /\ e \in Devices /\ f \in Files \cup {None}
    BY <1>2, <1>3 DEF Op
  <2>2. \/ f \in {None} \cup unsent \/ blobs[f] # None
        \/ f \in Uploading(e) \/ ~Fits(f)
    BY <1>3, <2>1 DEF NoneForgotten
  <2>3. CASE f = None
    BY <2>3
  <2>4. CASE f \in Files
    <3>1. blobs[f] # None => blobs'[f] # None
      BY <2>4, BlobsStay
    <3>2. ~Fits(f) => ~Fits(f)'
      BY <2>4, BlobsStay, StoredGrows
    <3>3. f \in Uploading(e) =>
            f \in Uploading(e)' \/ f \in unsent' \/ blobs'[f] # None \/ ~Fits(f)'
      BY <2>1, <2>4, UploadingStep
    <3> QED BY <1>1, <2>2, <3>1, <3>2, <3>3
  <2> QED BY <2>1, <2>3, <2>4
<1>4. ASSUME NEW d \in Devices, Push(d), NEW j \in DOMAIN unsynced[d], log'[i] = unsynced[d][j]
      PROVE  f = None \/ f \in Uploading(e)'
  <2>1. pc'[d] = "head" /\ queue'[d] = unsynced[d]
    BY <1>4, Pushed DEF TypeOK
  <2>2. e = d
    BY <1>4 DEF OwnOps
  <2> QED BY <1>4, <2>1, <2>2 DEF Uploading
<1>5. ASSUME NEW d \in Devices, Push(d)
      PROVE  \/ i \in DOMAIN log /\ log'[i] = log[i]
             \/ \E j \in DOMAIN unsynced[d] : log'[i] = unsynced[d][j]
  BY <1>5, Pushed
<1>6. ASSUME NEW d \in Devices, UserStep(d) PROVE log' = log
  BY <1>6, UserLogs
<1> QED BY <1>3, <1>4, <1>5, <1>6, OpsChange

-----------------------------------------------------------------------------
LEMMA InitBlobInv == BlobSyncAssumption /\ Init => BlobInv
<1> SUFFICES ASSUME BlobSyncAssumption, Init PROVE BlobInv
  OBVIOUS
<1>1. TypeOK
  BY InitTypeOK
<1>2. OwnOps /\ HandHolds /\ PutFirst /\ RowsMade
  BY DEF Init, OwnOps, HandHolds, PutFirst, RowsMade, PutIn
<1>3. OneFile
  <2> SUFFICES ASSUME NEW x \in Docs \ replaced PROVE \E f \in Files \cup {None} : FileOf(x, f)
    BY DEF OneFile
  <2> QED BY DEF Init, FileOf, Names
<1>4. QuotaHeld
  <2>1. Stored = {}
    BY DEF Init, Stored
  <2> QED BY <2>1, FS_EmptySet DEF QuotaHeld, Used, BlobSyncAssumption
<1>5. NoneForgotten
  BY DEF Init, NoneForgotten
<1> QED BY <1>1, <1>2, <1>3, <1>4, <1>5 DEF BlobInv

\* What uploads and downloads leave behind (engine.go, pgstore.go, store_document.go):
\* the quota holds however many devices upload, a document that was never given
\* another file has its own or none, and no file is forgotten.
THEOREM FilesStaySafe == Spec => []FilesSafe
<1>1. Init => BlobInv
  BY InitBlobInv, BlobSyncAssumption
<1>2. BlobInv /\ [Next]_vars => BlobInv'
  BY BlobSyncAssumption, TypeStep, OwnOpsStep, HandHoldsStep, PutFirstStep, RowsMadeStep,
     OneFileStep, QuotaStep, NoneForgottenStep DEF BlobInv
<1>3. BlobInv => FilesSafe
  <2> SUFFICES ASSUME BlobInv PROVE FilesMatch
    BY DEF FilesSafe, BlobInv
  <2> SUFFICES ASSUME NEW d \in Devices, NEW x \in Docs \ replaced, row[d][x] # None
               PROVE  row[d][x].bytes \in {None, row[d][x].ref}
    BY DEF FilesMatch
  <2> PICK f \in Files \cup {None} : FileOf(x, f)
    BY DEF BlobInv, OneFile
  <2> QED BY DEF FileOf
<1> QED BY <1>1, <1>2, <1>3, PTL DEF Spec

\* Every value stays in its type, in particular a document is never deleted or
\* restored on a device that does not have it.
THEOREM BlobTypeCorrect == Spec => []TypeOK
<1>1. Init => BlobInv
  BY InitBlobInv, BlobSyncAssumption
<1>2. BlobInv /\ [Next]_vars => BlobInv'
  BY BlobSyncAssumption, TypeStep, OwnOpsStep, HandHoldsStep, PutFirstStep, RowsMadeStep,
     OneFileStep, QuotaStep, NoneForgottenStep DEF BlobInv
<1>3. BlobInv => TypeOK
  BY DEF BlobInv
<1> QED BY <1>1, <1>2, <1>3, PTL DEF Spec

=============================================================================
