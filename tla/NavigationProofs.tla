--------------------------- MODULE NavigationProofs ---------------------------
(***************************************************************************)
(* Theorems about the tables, what is laid over them, which columns are    *)
(* drawn and which rows are shown (Navigation, Overlays, Viewport, Tables),*)
(* for any rows, tabs, columns, trees, profiles and terminals.             *)
(***************************************************************************)
EXTENDS Navigation, Overlays, Viewport, Tables, FiniteSetTheorems, SequenceTheorems, WellFoundedInduction, TLAPS

(***************************************************************************)
(* Induction, over sets of numbers.                                        *)
(***************************************************************************)

LEMMA MinNat ==
    ASSUME NEW T, T \subseteq Nat, T # {}
    PROVE  \E x \in T : \A y \in T : x <= y
<1>1. PICK t \in T : t \in Nat
  OBVIOUS
<1> DEFINE D == 0..t
           Q == {0..x : x \in T \cap D}
           R == StrictSubsetOrdering(D)
<1>2. IsFiniteSet(D)
  BY <1>1, FS_Interval
<1>3. IsWellFoundedOn(R, SUBSET D)
  BY <1>2, FS_StrictSubsetOrderingWellFounded, FS_FiniteSubsetsOfFinite
<1>4. \A u, w \in SUBSET D : u \subseteq w /\ u # w => <<u, w>> \in R
  BY DEF StrictSubsetOrdering
<1> HIDE DEF R
<1>5. Q \subseteq SUBSET D /\ Q # {}
  <2>1. t \in T \cap D
    BY <1>1
  <2>2. \A x \in T \cap D : 0..x \subseteq D
    BY <1>1
  <2> QED BY <2>1, <2>2
<1>6. \E q \in Q : \A p \in Q : ~ (<<p, q>> \in R)
  <2> HIDE DEF Q, D
  <2> QED BY <1>3, <1>5, WFMin
<1>7. PICK x \in T \cap D : \A p \in Q : ~ (<<p, 0..x>> \in R)
  BY <1>6
<1>8. ASSUME NEW y \in T, y < x PROVE FALSE
  <2>1. y \in T \cap D /\ x \in Nat /\ y \in Nat
    BY <1>8, <1>1, <1>7
  <2>2. 0..y \subseteq 0..x /\ x \in 0..x /\ x \notin 0..y
    BY <1>8, <2>1
  <2>3. 0..y \in Q /\ 0..x \in Q
    BY <2>1, <1>7
  <2>4. 0..y \in SUBSET D /\ 0..x \in SUBSET D
    BY <2>3, <1>5
  <2> QED
    <3> HIDE DEF Q, D
    <3> QED BY <1>4, <1>7, <2>2, <2>3, <2>4
<1>9. \A y \in T : x \in Nat /\ y \in Nat
  BY <1>7
<1> QED BY <1>7, <1>8, <1>9

\* What holds of 0, and of the number after any it holds of, holds of all.
LEMMA Inductively ==
    ASSUME NEW T, 0 \in T, \A n \in Nat : n \in T => n + 1 \in T
    PROVE  Nat \subseteq T
<1> SUFFICES ASSUME ~ (Nat \subseteq T) PROVE FALSE
  OBVIOUS
<1>1. PICK x \in Nat \ T : \A y \in Nat \ T : x <= y
  BY MinNat, Nat \ T \subseteq Nat, Nat \ T # {}
<1>2. x # 0 /\ x - 1 \in Nat
  BY <1>1
<1>3. x - 1 \in T
  BY <1>1, <1>2
<1> QED BY <1>1, <1>2, <1>3

\* The least of some numbers
LEMMA MinOf ==
    ASSUME NEW T, T \subseteq Nat, T # {}
    PROVE  Min(T) \in T /\ \A y \in T : Min(T) <= y
BY MinNat DEF Min

LEMMA MinIs ==
    ASSUME NEW T, T \subseteq Nat, NEW x \in T, \A y \in T : x <= y
    PROVE  Min(T) = x
<1>1. Min(T) \in T /\ Min(T) <= x
  BY MinOf
<1>2. x <= Min(T) /\ x \in Nat /\ Min(T) \in Nat
  BY <1>1
<1> QED BY <1>1, <1>2

(***************************************************************************)
(* Only: the function it is defined by, and what it leaves.                *)
(***************************************************************************)

Keeps(s, S, n, F) ==
    F = [i \in 0..n |-> IF i = 0 THEN <<>> ELSE IF s[i] \in S THEN Append(F[i - 1], s[i]) ELSE F[i - 1]]

LEMMA KeepsExists ==
    ASSUME NEW s, NEW S, NEW n \in Nat
    PROVE  \E F : Keeps(s, S, n, F)
<1> DEFINE T == {m \in Nat : \E F : Keeps(s, S, m, F)}
<1>1. 0 \in T
  <2> DEFINE F == [i \in 0..0 |-> <<>>]
  <2>1. F = [i \in 0..0 |-> F[i]] /\ F[0] = <<>> /\ \A i \in 0..0 : i = 0
    OBVIOUS
  <2> HIDE DEF F
  <2>2. F = [i \in 0..0 |-> IF i = 0 THEN <<>> ELSE IF s[i] \in S THEN Append(F[i - 1], s[i]) ELSE F[i - 1]]
    BY <2>1
  <2> QED BY <2>2 DEF Keeps
<1>2. ASSUME NEW m \in Nat, m \in T PROVE m + 1 \in T
  <2>1. PICK F : Keeps(s, S, m, F)
    BY <1>2
  <2>2. \A i \in 0..m : F[i] = IF i = 0 THEN <<>> ELSE IF s[i] \in S THEN Append(F[i - 1], s[i]) ELSE F[i - 1]
    BY <2>1 DEF Keeps
  <2> DEFINE next == IF s[m + 1] \in S THEN Append(F[m], s[m + 1]) ELSE F[m]
             G == [i \in 0..(m + 1) |-> IF i = m + 1 THEN next ELSE F[i]]
  <2>3. G = [i \in 0..(m + 1) |-> G[i]] /\ G[m + 1] = next /\ \A i \in 0..m : G[i] = F[i]
    OBVIOUS
  <2>4. \A i \in 0..(m + 1) : i = m + 1 \/ i \in 0..m
    OBVIOUS
  <2> HIDE DEF G
  <2>5. ASSUME NEW i \in 0..(m + 1)
        PROVE  G[i] = IF i = 0 THEN <<>> ELSE IF s[i] \in S THEN Append(G[i - 1], s[i]) ELSE G[i - 1]
    <3>1. CASE i = m + 1
      <4>1. i - 1 = m /\ m \in 0..m /\ i # 0
        BY <3>1
      <4> QED BY <3>1, <4>1, <2>3
    <3>2. CASE i \in 0..m
      <4>1. i = 0 \/ i - 1 \in 0..m
        BY <3>2
      <4> HIDE DEF next
      <4> QED BY <2>2, <2>3, <4>1, <3>2
    <3> QED BY <3>1, <3>2, <2>4
  <2>6. G = [i \in 0..(m + 1) |-> IF i = 0 THEN <<>> ELSE IF s[i] \in S THEN Append(G[i - 1], s[i]) ELSE G[i - 1]]
    BY <2>3, <2>5
  <2>7. Keeps(s, S, m + 1, G)
    BY <2>6 DEF Keeps
  <2> QED BY <2>7
<1>3. Nat \subseteq T
  BY <1>1, <1>2, Inductively
<1> QED BY <1>3

LEMMA OnlyKeeps ==
    ASSUME NEW s, NEW S, Len(s) \in Nat
    PROVE  \E F : Keeps(s, S, Len(s), F) /\ Only(s, S) = F[Len(s)]
<1> DEFINE F == CHOOSE F : Keeps(s, S, Len(s), F)
<1>1. Keeps(s, S, Len(s), F)
  BY KeepsExists
<1>2. Only(s, S) = F[Len(s)]
  BY DEF Only, Keeps
<1> QED BY <1>1, <1>2

\* Only leaves a sequence of the entries in S, and leaves all of them.
LEMMA OnlyIs ==
    ASSUME NEW X, NEW s \in Seq(X), NEW S
    PROVE  /\ Only(s, S) \in Seq(X)
           /\ \A i \in DOMAIN Only(s, S) : Only(s, S)[i] \in S /\ \E j \in DOMAIN s : s[j] = Only(s, S)[i]
           /\ \A j \in DOMAIN s : s[j] \in S => \E i \in DOMAIN Only(s, S) : Only(s, S)[i] = s[j]
<1>1. Len(s) \in Nat /\ DOMAIN s = 1..Len(s) /\ \A i \in 1..Len(s) : s[i] \in X
  OBVIOUS
<1>2. PICK F : Keeps(s, S, Len(s), F) /\ Only(s, S) = F[Len(s)]
  BY <1>1, OnlyKeeps
<1>3. \A i \in 0..Len(s) : F[i] = IF i = 0 THEN <<>> ELSE IF s[i] \in S THEN Append(F[i - 1], s[i]) ELSE F[i - 1]
  BY <1>1, <1>2 DEF Keeps
<1> DEFINE Left(n, q) == /\ q \in Seq(X)
                         /\ \A i \in DOMAIN q : q[i] \in S /\ \E j \in 1..n : s[j] = q[i]
                         /\ \A j \in 1..n : s[j] \in S => \E i \in DOMAIN q : q[i] = s[j]
           T == {n \in Nat : n <= Len(s) => Left(n, F[n])}
<1>4. 0 \in T
  <2>1. F[0] = <<>>
    BY <1>1, <1>3
  <2>2. Left(0, <<>>)
    OBVIOUS
  <2> QED BY <2>1, <2>2
<1>5. ASSUME NEW n \in Nat, n \in T PROVE n + 1 \in T
  <2> SUFFICES ASSUME n + 1 <= Len(s) PROVE Left(n + 1, F[n + 1])
    OBVIOUS
  <2>1. Left(n, F[n]) /\ n + 1 \in 0..Len(s) /\ n + 1 \in 1..Len(s) /\ s[n + 1] \in X /\ (n + 1) - 1 = n /\ n + 1 # 0
    BY <1>5, <1>1
  <2>2. F[n + 1] = IF s[n + 1] \in S THEN Append(F[n], s[n + 1]) ELSE F[n]
    BY <2>1, <1>3
  <2>3. \A j \in 1..(n + 1) : j = n + 1 \/ j \in 1..n
    OBVIOUS
  <2>4. \A j \in 1..n : j \in 1..(n + 1)
    OBVIOUS
  <2>5. CASE s[n + 1] \notin S
    BY <2>1, <2>2, <2>3, <2>4, <2>5
  <2>6. CASE s[n + 1] \in S
    <3> DEFINE q == F[n]
               p == Append(q, s[n + 1])
    <3>1. q \in Seq(X) /\ F[n + 1] = p
      BY <2>1, <2>2, <2>6
    <3>2. /\ p \in Seq(X) /\ DOMAIN p = 1..(Len(q) + 1) /\ DOMAIN q = 1..Len(q) /\ Len(q) \in Nat
          /\ p[Len(q) + 1] = s[n + 1] /\ \A i \in 1..Len(q) : p[i] = q[i]
      <4> HIDE DEF q
      <4> QED BY <3>1, <2>1
    <3>3. \A i \in DOMAIN p : i = Len(q) + 1 \/ i \in DOMAIN q
      <4> HIDE DEF p, q
      <4> QED BY <3>2
    <3>4. \A i \in DOMAIN q : i \in DOMAIN p /\ q[i] \in S /\ (\E j \in 1..n : s[j] = q[i])
      <4>1. \A i \in DOMAIN q : q[i] \in S /\ (\E j \in 1..n : s[j] = q[i])
        BY <2>1
      <4> HIDE DEF p, q
      <4> QED BY <3>2, <4>1
    <3>5. \A j \in 1..n : s[j] \in S => \E i \in DOMAIN q : q[i] = s[j]
      BY <2>1
    <3>6. Len(q) + 1 \in DOMAIN p /\ n + 1 \in 1..(n + 1)
      <4> HIDE DEF p, q
      <4> QED BY <3>2
    <3> HIDE DEF p, q
    <3>7. \A i \in DOMAIN p : p[i] \in S /\ \E j \in 1..(n + 1) : s[j] = p[i]
      BY <3>2, <3>3, <3>4, <3>6, <2>4, <2>6
    <3>8. \A j \in 1..(n + 1) : s[j] \in S => \E i \in DOMAIN p : p[i] = s[j]
      BY <3>2, <3>4, <3>5, <3>6, <2>3
    <3> QED BY <3>1, <3>2, <3>7, <3>8
  <2> QED BY <2>5, <2>6
<1>6. Nat \subseteq T
  <2> HIDE DEF T
  <2> QED BY <1>4, <1>5, Inductively
<1>7. Left(Len(s), F[Len(s)])
  BY <1>1, <1>6
<1> QED BY <1>1, <1>2, <1>7

-----------------------------------------------------------------------------
(***************************************************************************)
(* Overlays: who is on top.                                                *)
(***************************************************************************)

Fields == Nat \X Nat
Edits  == [at : Fields, for : Fields, clicked : BOOLEAN]

\* The state of the overlays stays well-formed.
OverlayTypeOK ==
    /\ open \subseteq ToSet(Dispatched) /\ keys \in {"normal", "edit", "form"}
    /\ house \in Edits /\ saved \in Edits
    /\ finder \in [matches : Seq(ToSet(Columns)), cur : Nat] /\ column \in ToSet(Columns)
    /\ tree \in [expanded : SUBSET ToSet(TreeNodes), cur : Nat, tab : Nat]
    /\ found \in [n : Nat, cur : Nat]

\* The overlays that no other is laid over but by a click past the chat
Alone == {"help", "extraction", "search", "finder", "ops", "note", "calendar", "house"}

\* No two of those are open, the inline input has at most the house profile
\* beside it, and the dashboard is there in normal mode only.
Stacked ==
    /\ \A o, p \in open \cap Alone : o = p
    /\ "dash" \in open => "inline" \notin open /\ keys = "normal"
    /\ "inline" \in open => keys = "edit" /\ open \subseteq {"inline", "house"}

\* Where the cursors are while their lists are on the screen
CursorsPlaced ==
    /\ "house" \in open => house.at[1] \in DOMAIN SectionLen
    /\ "finder" \in open => finder.cur # 0
    /\ "search" \in open => found.cur # 0
    /\ house.for # NoField /\ ~house.clicked => house.for = house.at

OverlayInv == OverlayTypeOK /\ Stacked /\ CursorsPlaced /\ CursorsInRange /\ TypedField

Overlaid == Alone \cup {"chat", "inline", "dash"}

LEMMA Lists ==
    /\ ToSet(Dispatched) = Overlaid
    /\ DOMAIN Dispatched = 1..11 /\ DOMAIN Drawn = 1..10 /\ DOMAIN Dismissed = 1..10
    /\ "none" \notin Overlaid
BY DEF ToSet, Dispatched, Drawn, Dismissed, Overlaid, Alone

\* The first overlay of a list that is open is on top.
LEMMA TopIs ==
    ASSUME NEW list, NEW n \in Nat, DOMAIN list = 1..n,
           NEW i \in 1..n, list[i] \in open, \A j \in 1..n : list[j] \in open => i <= j
    PROVE  TopOf(list) = list[i]
<1> DEFINE up == {j \in DOMAIN list : list[j] \in open}
<1>1. up \subseteq Nat /\ i \in up /\ \A j \in up : i <= j
  OBVIOUS
<1>2. Min(up) = i
  BY <1>1, MinIs
<1>3. up # {}
  BY <1>1
<1> QED
  <2> HIDE DEF up
  <2>1. TopOf(list) = IF up = {} THEN "none" ELSE list[Min(up)]
    BY DEF TopOf, up
  <2> QED BY <2>1, <1>2, <1>3

LEMMA TopIsOpen ==
    ASSUME NEW list, NEW n \in Nat, DOMAIN list = 1..n
    PROVE  TopOf(list) = "none" \/ TopOf(list) \in open
<1> DEFINE up == {j \in DOMAIN list : list[j] \in open}
<1>1. up \subseteq Nat
  OBVIOUS
<1>2. CASE up # {}
  <2>1. Min(up) \in up
    <3> HIDE DEF up
    <3> QED BY <1>1, <1>2, MinOf
  <2>2. list[Min(up)] \in open
    BY <2>1
  <2> QED BY <1>2, <2>2 DEF TopOf
<1>3. CASE up = {}
  BY <1>3 DEF TopOf
<1> QED BY <1>2, <1>3

\* The overlay that a key reaches is open.
LEMMA KeyIsOpen ==
    ASSUME NEW o \in Overlaid, KeyTo(o)
    PROVE  o \in open
BY TopIsOpen, Lists DEF KeyTo

\* Of the overlays that are open without the chat, every list has the same on top.
LEMMA SameTop ==
    ASSUME OverlayTypeOK, Stacked
    PROVE  KeysGoToTop
<1> SUFFICES ASSUME open \ {"inline"} # {}, "chat" \notin open
             PROVE  TopOf(Drawn) = TopOf(Dispatched) /\ TopOf(Drawn) = TopOf(Dismissed)
  BY DEF KeysGoToTop
<1>1. open \subseteq Overlaid
  BY Lists DEF OverlayTypeOK
<1>2. CASE open \cap Alone = {}
  <2>1. open = {"dash"}
    BY <1>1, <1>2 DEF Overlaid, Stacked
  <2>2. Drawn[10] = "dash" /\ \A j \in 1..10 : Drawn[j] \in open => 10 <= j
    BY <2>1 DEF Drawn
  <2>3. Dispatched[11] = "dash" /\ \A j \in 1..11 : Dispatched[j] \in open => 11 <= j
    BY <2>1 DEF Dispatched
  <2>4. Dismissed[10] = "dash" /\ \A j \in 1..10 : Dismissed[j] \in open => 10 <= j
    BY <2>1 DEF Dismissed
  <2>5. TopOf(Drawn) = "dash"
    <3>1. Drawn[10] \in open /\ 10 \in Nat /\ 10 \in 1..10 /\ DOMAIN Drawn = 1..10
      BY <2>1, <2>2, Lists
    <3> QED BY <3>1, <2>2, TopIs
  <2>6. TopOf(Dispatched) = "dash"
    <3>1. Dispatched[11] \in open /\ 11 \in Nat /\ 11 \in 1..11 /\ DOMAIN Dispatched = 1..11
      BY <2>1, <2>3, Lists
    <3> QED BY <3>1, <2>3, TopIs
  <2>7. TopOf(Dismissed) = "dash"
    <3>1. Dismissed[10] \in open /\ 10 \in Nat /\ 10 \in 1..10 /\ DOMAIN Dismissed = 1..10
      BY <2>1, <2>4, Lists
    <3> QED BY <3>1, <2>4, TopIs
  <2> QED BY <2>5, <2>6, <2>7
<1>3. ASSUME NEW o \in open \cap Alone
      PROVE  TopOf(Drawn) = o /\ TopOf(Dispatched) = o /\ TopOf(Dismissed) = o
  <2>1. open \subseteq {o, "inline", "dash"}
    BY <1>1, <1>3 DEF Overlaid, Stacked
  <2>2. \E i \in 1..10 : Drawn[i] = o /\ \A j \in 1..10 : Drawn[j] \in open => i <= j
    <3>1. \E i \in 2..9 \cup {1} : Drawn[i] = o
      BY <1>3 DEF Drawn, Alone
    <3>2. PICK i \in 1..9 : Drawn[i] = o
      BY <3>1
    <3>3. \A j \in 1..10 : Drawn[j] \in {o, "inline", "dash"} => i <= j
      BY <3>2, <1>3 DEF Drawn, Alone
    <3> QED BY <3>2, <3>3, <2>1
  <2>3. \E i \in 1..11 : Dispatched[i] = o /\ \A j \in 1..11 : Dispatched[j] \in open => i <= j
    <3>1. PICK i \in 1..9 : Dispatched[i] = o
      BY <1>3 DEF Dispatched, Alone
    <3>3. \A j \in 1..11 : Dispatched[j] \in {o, "inline", "dash"} => i <= j
      BY <3>1, <1>3 DEF Dispatched, Alone
    <3> QED BY <3>1, <3>3, <2>1
  <2>4. \E i \in 1..10 : Dismissed[i] = o /\ \A j \in 1..10 : Dismissed[j] \in open => i <= j
    <3>1. PICK i \in 1..9 : Dismissed[i] = o
      BY <1>3 DEF Dismissed, Alone
    <3>3. \A j \in 1..10 : Dismissed[j] \in {o, "inline", "dash"} => i <= j
      BY <3>1, <1>3 DEF Dismissed, Alone
    <3> QED BY <3>1, <3>3, <2>1
  <2>5. TopOf(Drawn) = o
    <3>1. PICK i \in 1..10 : Drawn[i] = o /\ \A j \in 1..10 : Drawn[j] \in open => i <= j
      BY <2>2
    <3>2. Drawn[i] \in open /\ 10 \in Nat /\ DOMAIN Drawn = 1..10
      BY <3>1, Lists
    <3> QED BY <3>1, <3>2, TopIs
  <2>6. TopOf(Dispatched) = o
    <3>1. PICK i \in 1..11 : Dispatched[i] = o /\ \A j \in 1..11 : Dispatched[j] \in open => i <= j
      BY <2>3
    <3>2. Dispatched[i] \in open /\ 11 \in Nat /\ DOMAIN Dispatched = 1..11
      BY <3>1, Lists
    <3> QED BY <3>1, <3>2, TopIs
  <2>7. TopOf(Dismissed) = o
    <3>1. PICK i \in 1..10 : Dismissed[i] = o /\ \A j \in 1..10 : Dismissed[j] \in open => i <= j
      BY <2>4
    <3>2. Dismissed[i] \in open /\ 10 \in Nat /\ DOMAIN Dismissed = 1..10
      BY <3>1, Lists
    <3> QED BY <3>1, <3>2, TopIs
  <2> QED BY <2>5, <2>6, <2>7
<1> QED BY <1>2, <1>3

\* While something is laid over the table, a click beside it closes something.
LEMMA DismissedIsOpen ==
    ASSUME OverlayTypeOK, Active
    PROVE  TopOf(Dismissed) \in open
<1>1. PICK o \in open : o \in Overlaid \ {"chat", "inline"}
  BY Lists DEF OverlayTypeOK, Active
<1>2. \E i \in 1..10 : Dismissed[i] = o
  BY <1>1 DEF Dismissed, Overlaid, Alone
<1> DEFINE up == {j \in DOMAIN Dismissed : Dismissed[j] \in open}
<1>3. up \subseteq Nat /\ up # {}
  BY <1>1, <1>2, Lists
<1>4. Min(up) \in up
  <2> HIDE DEF up
  <2> QED BY <1>3, MinOf
<1>5. Dismissed[Min(up)] \in open
  BY <1>4
<1> QED BY <1>3, <1>5 DEF TopOf

-----------------------------------------------------------------------------
(***************************************************************************)
(* Overlays: the cursors.                                                  *)
(***************************************************************************)

Nodes == ToSet(TreeNodes)

\* The operations that are visible: the root always is, and with each its parent.
LEMMA NodesVisible ==
    ASSUME NEW X
    PROVE  /\ VisibleNodes(X) \in Seq(Nodes)
           /\ Len(VisibleNodes(X)) \in Nat \ {0}
           /\ \A i \in DOMAIN VisibleNodes(X) :
                  /\ VisibleNodes(X)[i] \in Nodes /\ ParentOf[VisibleNodes(X)[i]] \in Nodes \cup {0}
                  /\ ParentOf[VisibleNodes(X)[i]] # 0 =>
                         \E j \in DOMAIN VisibleNodes(X) : VisibleNodes(X)[j] = ParentOf[VisibleNodes(X)[i]]
<1> DEFINE S == {n \in Nodes : \A V \in SUBSET Nodes : Walk(V, X) => n \in V}
           v == VisibleNodes(X)
<1>1. v = Only(TreeNodes, S) /\ TreeNodes \in Seq(Nodes)
  BY OverlaysAssumption DEF VisibleNodes, Nodes
<1>2. /\ v \in Seq(Nodes)
      /\ \A i \in DOMAIN v : v[i] \in S
      /\ \A j \in DOMAIN TreeNodes : TreeNodes[j] \in S => \E i \in DOMAIN v : v[i] = TreeNodes[j]
  <2> HIDE DEF S, v
  <2> QED BY <1>1, OnlyIs
<1>3. \A n \in Nodes : (\E j \in DOMAIN TreeNodes : TreeNodes[j] = n) /\ ParentOf[n] \in Nodes \cup {0}
  BY OverlaysAssumption DEF Nodes, ToSet
<1>4. \E n \in S : TRUE
  <2>1. PICK n \in Nodes : ParentOf[n] = 0
    BY OverlaysAssumption DEF Range, Nodes
  <2>2. n \in S
    BY <2>1 DEF Walk, Nodes
  <2> QED BY <2>2
<1>5. ASSUME NEW n \in S, ParentOf[n] # 0 PROVE ParentOf[n] \in S
  <2>1. n \in Nodes /\ ParentOf[n] \in Nodes
    BY <1>3, <1>5
  <2> SUFFICES ASSUME NEW V \in SUBSET Nodes, Walk(V, X), ParentOf[n] \notin V PROVE FALSE
    BY <2>1
  <2>2. Walk(V \ {n}, X)
    BY <2>1, <1>5 DEF Walk, Nodes
  <2>3. n \in V \ {n}
    BY <2>2
  <2> QED BY <2>3
<1>6. Len(v) \in Nat \ {0}
  <2>1. PICK n \in S : TRUE
    BY <1>4
  <2>2. \E i \in DOMAIN v : v[i] = n
    BY <2>1, <1>2, <1>3
  <2> HIDE DEF v
  <2> QED BY <1>2, <2>2
<1>7. ASSUME NEW i \in DOMAIN v
      PROVE  /\ v[i] \in Nodes /\ ParentOf[v[i]] \in Nodes \cup {0}
             /\ ParentOf[v[i]] # 0 => \E j \in DOMAIN v : v[j] = ParentOf[v[i]]
  <2>1. v[i] \in S /\ v[i] \in Nodes
    BY <1>2, <1>7
  <2>2. ParentOf[v[i]] # 0 => ParentOf[v[i]] \in S
    BY <2>1, <1>5
  <2> HIDE DEF v
  <2>3. \A n \in S : \E j \in DOMAIN v : v[j] = n
    BY <1>2, <1>3
  <2> HIDE DEF S
  <2> QED BY <2>1, <2>2, <2>3, <1>3
<1> QED BY <1>2, <1>6, <1>7

LEMMA InSections ==
    /\ DOMAIN SectionLen = 1..Len(SectionLen) /\ Len(SectionLen) \in Nat /\ Len(SectionLen) > 1
    /\ \A s \in 1..Len(SectionLen) : SectionLen[s] \in Nat /\ SectionLen[s] > 0
BY OverlaysAssumption

\* A house field the cursor may be on
Placed(f) == f[1] \in DOMAIN SectionLen /\ f[2] \in 1..SectionLen[f[1]]

LEMMA PlacedIs ==
    ASSUME NEW s \in 1..Len(SectionLen), NEW r \in 1..SectionLen[s]
    PROVE  <<s, r>> \in Fields /\ Placed(<<s, r>>) /\ <<s, r>> # NoField
BY InSections DEF Fields, Placed, NoField

LEMMA Edited ==
    ASSUME NEW h \in Edits
    PROVE  /\ h.at \in Fields /\ h.for \in Fields /\ h.clicked \in BOOLEAN
           /\ h.at[1] \in Nat /\ h.at[2] \in Nat
BY DEF Edits, Fields

\* A cursor that is kept within a list is on an entry of it.
LEMMA WithinIs ==
    ASSUME NEW c \in Nat, NEW n \in Nat
    PROVE  /\ Within(c, n) \in Nat
           /\ c # 0 => Within(c, n) # 0 /\ (n = 0 \/ Within(c, n) \in 1..n)
BY DEF Within

LEMMA MatchesAreLists ==
    /\ ColumnsFound \subseteq Seq(ToSet(Columns))
    /\ Columns \in Seq(ToSet(Columns)) /\ Columns[1] \in ToSet(Columns)
<1>1. \A n \in Nat : [1..n -> ToSet(Columns)] \subseteq Seq(ToSet(Columns))
  OBVIOUS
<1>2. ColumnsFound \subseteq Seq(ToSet(Columns))
  BY <1>1, OverlaysAssumption DEF ColumnsFound
<1>3. Columns \in Seq(ToSet(Columns)) /\ Columns # <<>>
  BY OverlaysAssumption
<1>4. Columns[1] \in ToSet(Columns)
  BY <1>3
<1> QED BY <1>2, <1>3, <1>4

LEMMA FilteredIs ==
    ASSUME NEW f, f \in [matches : Seq(ToSet(Columns)), cur : Nat],
           NEW m \in Seq(ToSet(Columns))
    PROVE  LET g == Filtered(f, m)
           IN  /\ g \in [matches : Seq(ToSet(Columns)), cur : Nat]
               /\ f.cur # 0 => g.cur # 0 /\ (g.matches = <<>> \/ g.cur \in DOMAIN g.matches)
<1>1. Len(m) \in Nat /\ DOMAIN m = 1..Len(m) /\ (Len(m) = 0 => m = <<>>) /\ f.cur \in Nat
  OBVIOUS
<1>2. /\ Within(f.cur, Len(m)) \in Nat
      /\ f.cur # 0 => Within(f.cur, Len(m)) # 0 /\ (Len(m) = 0 \/ Within(f.cur, Len(m)) \in 1..Len(m))
  BY <1>1, WithinIs
<1> QED BY <1>1, <1>2 DEF Filtered

\* What an overlay that opens finds
LEMMA Opened ==
    ASSUME OverlayInv, NEW o \in Overlaid, Opens(o), o \notin open, keys' \in {"normal", "edit", "form"}
    PROVE  OverlayTypeOK' /\ CursorsPlaced' /\ CursorsInRange' /\ TypedField'
<1>1. OverlayTypeOK /\ CursorsPlaced /\ CursorsInRange /\ TypedField
  BY DEF OverlayInv
<1>2. open' = open \cup {o} /\ saved' = saved /\ column' = column
  BY DEF Opens
<1>3. /\ house' \in Edits
      /\ "house" \in open' => house'.at[1] \in DOMAIN SectionLen /\ house'.at[2] \in 1..SectionLen[house'.at[1]]
      /\ house'.for # NoField /\ ~house'.clicked => house'.for = house'.at
  <2>1. CASE o = "house"
    <3>1. house' = [at |-> <<2, 1>>, for |-> NoField, clicked |-> FALSE]
      BY <2>1 DEF Opens, NoHouse
    <3>2. <<2, 1>> \in Fields /\ NoField \in Fields /\ 2 \in DOMAIN SectionLen /\ 1 \in 1..SectionLen[2]
      BY InSections DEF Fields, NoField
    <3> QED BY <3>1, <3>2 DEF Edits
  <2>2. CASE o # "house"
    <3>1. house' = house /\ ("house" \in open' => "house" \in open)
      BY <1>2, <2>2 DEF Opens
    <3> QED BY <3>1, <1>1 DEF OverlayTypeOK, CursorsPlaced, CursorsInRange
  <2> QED BY <2>1, <2>2
<1>4. /\ finder' \in [matches : Seq(ToSet(Columns)), cur : Nat]
      /\ "finder" \in open' => finder'.cur # 0 /\ (finder'.matches = <<>> \/ finder'.cur \in DOMAIN finder'.matches)
  <2>1. CASE o = "finder"
    <3> DEFINE f == [matches |-> <<>>, cur |-> 1]
    <3>1. finder' = Filtered(f, Columns)
      BY <2>1 DEF Opens, NoFinder
    <3>2. f \in [matches : Seq(ToSet(Columns)), cur : Nat] /\ f.cur # 0
      OBVIOUS
    <3> HIDE DEF f
    <3> QED BY <3>1, <3>2, FilteredIs, MatchesAreLists
  <2>2. CASE o # "finder"
    <3>1. finder' = finder /\ ("finder" \in open' => "finder" \in open)
      BY <1>2, <2>2 DEF Opens
    <3> QED BY <3>1, <1>1 DEF OverlayTypeOK, CursorsPlaced, CursorsInRange
  <2> QED BY <2>1, <2>2
<1>5. /\ tree' \in [expanded : SUBSET Nodes, cur : Nat, tab : Nat]
      /\ "ops" \in open' => tree'.cur \in DOMAIN VisibleNodes(tree'.expanded) /\ (Groups = 0 \/ tree'.tab \in 1..Groups)
  <2>1. CASE o = "ops"
    <3>1. tree' = [expanded |-> {n \in Nodes : Expandable(n)}, cur |-> 1, tab |-> 1]
      BY <2>1 DEF Opens, Grown, Nodes
    <3>2. 1 \in DOMAIN VisibleNodes(tree'.expanded)
      BY NodesVisible
    <3> QED BY <3>1, <3>2, OverlaysAssumption
  <2>2. CASE o # "ops"
    <3>1. tree' = tree /\ ("ops" \in open' => "ops" \in open)
      BY <1>2, <2>2 DEF Opens
    <3> QED BY <3>1, <1>1 DEF OverlayTypeOK, CursorsInRange, Nodes
  <2> QED BY <2>1, <2>2
<1>6. /\ found' \in [n : Nat, cur : Nat]
      /\ "search" \in open' => found'.cur # 0 /\ (found'.n = 0 \/ found'.cur \in 1..found'.n)
  <2>1. CASE o = "search"
    BY <2>1 DEF Opens, NoResults
  <2>2. CASE o # "search"
    <3>1. found' = found /\ ("search" \in open' => "search" \in open)
      BY <1>2, <2>2 DEF Opens
    <3> QED BY <3>1, <1>1 DEF OverlayTypeOK, CursorsPlaced, CursorsInRange
  <2> QED BY <2>1, <2>2
<1>7. open' \subseteq ToSet(Dispatched) /\ saved' \in Edits /\ column' \in ToSet(Columns)
  BY <1>1, <1>2, Lists DEF OverlayTypeOK
<1> QED BY <1>1, <1>2, <1>3, <1>4, <1>5, <1>6, <1>7 DEF OverlayTypeOK, CursorsPlaced, CursorsInRange, TypedField, Nodes

\* What an overlay that closes leaves
LEMMA Closed ==
    ASSUME OverlayInv, NEW o \in open, Closes(o), UNCHANGED <<keys, saved>>, column' \in ToSet(Columns)
    PROVE  OverlayTypeOK' /\ Stacked' /\ CursorsPlaced' /\ CursorsInRange' /\ TypedField'
<1>1. OverlayTypeOK /\ Stacked /\ CursorsPlaced /\ CursorsInRange /\ TypedField
  BY DEF OverlayInv
<1>2. /\ open' = open \ {o} /\ saved' = saved /\ keys' = keys
      /\ house' = IF o = "house" THEN NoHouse ELSE house
      /\ finder' = IF o = "finder" THEN NoFinder ELSE finder
      /\ tree' = IF o = "ops" THEN NoTree ELSE tree
      /\ found' = IF o = "search" THEN NoResults ELSE found
  BY DEF Closes
<1>3. /\ NoHouse \in Edits /\ NoHouse.for = NoField
      /\ NoFinder \in [matches : Seq(ToSet(Columns)), cur : Nat]
      /\ NoTree \in [expanded : SUBSET Nodes, cur : Nat, tab : Nat]
      /\ NoResults \in [n : Nat, cur : Nat]
  BY DEF NoHouse, NoFinder, NoTree, NoResults, Edits, Fields, NoField
<1>4. OverlayTypeOK'
  BY <1>1, <1>2, <1>3 DEF OverlayTypeOK, Nodes
<1>5. Stacked'
  BY <1>1, <1>2 DEF Stacked
<1>6. CursorsPlaced'
  BY <1>1, <1>2, <1>3 DEF CursorsPlaced
<1>7. CursorsInRange'
  BY <1>1, <1>2 DEF CursorsInRange
<1>8. TypedField'
  BY <1>1, <1>2 DEF TypedField
<1> QED BY <1>4, <1>5, <1>6, <1>7, <1>8

LEMMA OpensStacked ==
    ASSUME OverlayInv, NEW o \in Overlaid, OpenByKey(o) \/ OpenByClick(o)
    PROVE  OverlayInv'
<1>1. OverlayTypeOK /\ Stacked /\ open \subseteq Overlaid
  BY Lists DEF OverlayInv, OverlayTypeOK
<1>2. Opens(o) /\ o \notin open /\ keys' = keys /\ open' = open \cup {o}
  BY DEF OpenByKey, OpenByClick, Opens
<1>3. OverlayTypeOK' /\ CursorsPlaced' /\ CursorsInRange' /\ TypedField'
  BY <1>1, <1>2, Opened DEF OverlayTypeOK
<1>4. Stacked'
  <2>1. CASE OpenByKey(o)
    <3>1. \/ open \subseteq {"dash"} /\ o \in {"help", "extraction", "chat", "search"}
          \/ open \subseteq {"dash"} /\ o \in {"calendar", "inline"} /\ keys = "edit"
          \/ open = {} /\ o \in {"house", "finder", "note", "ops"}
          \/ open = {} /\ o = "dash" /\ keys = "normal"
      BY <2>1 DEF OpenByKey, NoOverlay, Uncovered
    <3> QED BY <3>1, <1>1, <1>2 DEF Stacked, Alone
  <2>2. CASE OpenByClick(o)
    <3>1. open \ {"chat", "inline"} = {}
      BY <2>2 DEF OpenByClick, BelowClicked, Active
    <3>2. open \subseteq {"chat", "inline"}
      BY <3>1
    <3>3. o = "house" \/ ("inline" \notin open /\ o \in {"help", "search", "chat", "note", "ops"})
      BY <2>2 DEF OpenByClick
    <3> QED BY <3>2, <3>3, <1>1, <1>2 DEF Stacked, Alone
  <2> QED BY <2>1, <2>2
<1> QED BY <1>3, <1>4 DEF OverlayInv

LEMMA ModesStacked ==
    ASSUME OverlayInv, (\E m \in {"normal", "edit", "form"} : ChangeMode(m)) \/ LeaveForm
    PROVE  OverlayInv'
<1>1. OverlayTypeOK /\ Stacked /\ CursorsPlaced /\ CursorsInRange /\ TypedField
  BY DEF OverlayInv
<1>2. CASE UNCHANGED <<open, house, saved, finder, column, tree, found>>
  <2>1. keys' \in {"normal", "edit", "form"}
    BY DEF ChangeMode, LeaveForm
  <2>2. OverlayTypeOK'
    BY <1>1, <1>2, <2>1 DEF OverlayTypeOK
  <2>3. CursorsPlaced' /\ CursorsInRange' /\ TypedField'
    BY <1>1, <1>2 DEF CursorsPlaced, CursorsInRange, TypedField
  <2>4. Stacked'
    <3>1. CASE LeaveForm
      BY <3>1, <1>1, <1>2 DEF LeaveForm, Stacked
    <3>2. ASSUME NEW m \in {"normal", "edit", "form"}, ChangeMode(m) PROVE Stacked'
      <4>1. /\ keys' # keys /\ "inline" \notin open
            /\ "dash" \notin open \/ (keys # "form" /\ m # "edit" /\ m # "form" /\ keys' = m)
        BY <3>2, <1>1 DEF ChangeMode, NoOverlay, Uncovered, BelowClicked, Active, Stacked
      <4> QED BY <4>1, <1>1, <1>2 DEF Stacked
    <3> QED BY <3>1, <3>2
  <2> QED BY <2>2, <2>3, <2>4 DEF OverlayInv
<1>3. CASE Opens("extraction") /\ LeaveForm
  <2>1. "extraction" \notin open /\ open \subseteq {"dash"} /\ keys = "form" /\ keys' \in {"normal", "edit", "form"}
    BY <1>3 DEF LeaveForm
  <2>2. OverlayTypeOK' /\ CursorsPlaced' /\ CursorsInRange' /\ TypedField'
    BY <1>3, <2>1, Opened DEF Overlaid, Alone
  <2>3. Stacked'
    <3>1. open' = open \cup {"extraction"} /\ "dash" \notin open
      BY <1>1, <1>3, <2>1 DEF Opens, Stacked
    <3> QED BY <2>1, <3>1 DEF Stacked, Alone
  <2> QED BY <2>2, <2>3 DEF OverlayInv
<1> QED BY <1>2, <1>3 DEF ChangeMode, LeaveForm

LEMMA ClosesStacked ==
    ASSUME OverlayInv,
           (\E o \in Overlaid : CloseByKey(o)) \/ DismissActive \/ FinderJump \/ SearchGoes
    PROVE  OverlayInv'
<1>1. OverlayTypeOK /\ CursorsInRange /\ column \in ToSet(Columns)
  BY DEF OverlayInv, OverlayTypeOK
<1>2. ASSUME NEW o \in Overlaid, CloseByKey(o) PROVE OverlayInv'
  <2>1. o \in open
    BY <1>2, KeyIsOpen DEF CloseByKey
  <2> QED BY <1>1, <1>2, <2>1, Closed DEF CloseByKey, OverlayInv
<1>3. CASE DismissActive
  <2>1. TopOf(Dismissed) \in open
    BY <1>1, <1>3, DismissedIsOpen DEF DismissActive
  <2> QED BY <1>1, <1>3, <2>1, Closed DEF DismissActive, OverlayInv
<1>4. CASE FinderJump
  <2>1. "finder" \in open
    BY <1>4, KeyIsOpen DEF FinderJump, Overlaid, Alone
  <2>2. column' \in ToSet(Columns)
    <3>1. CASE finder.matches = <<>>
      BY <1>1, <1>4, <3>1 DEF FinderJump
    <3>2. CASE finder.matches # <<>>
      <4>1. finder.matches \in Seq(ToSet(Columns)) /\ finder.cur \in DOMAIN finder.matches
        BY <1>1, <2>1, <3>2 DEF OverlayTypeOK, CursorsInRange
      <4>2. column' = finder.matches[finder.cur]
        BY <1>4, <3>2 DEF FinderJump
      <4> QED BY <4>1, <4>2
    <3> QED BY <3>1, <3>2
  <2> QED BY <1>4, <2>1, <2>2, Closed DEF FinderJump, OverlayInv
<1>5. CASE SearchGoes
  BY <1>1, <1>5, Closed DEF SearchGoes, OverlayInv
<1> QED BY <1>2, <1>3, <1>4, <1>5

LEMMA StackKept ==
    ASSUME Stacked, UNCHANGED <<open, keys>>
    PROVE  Stacked'
BY DEF Stacked

LEMMA HouseMoved ==
    ASSUME OverlayInv, HouseMove \/ HouseEdit \/ HouseSubmit \/ (\E s \in DOMAIN SectionLen, r \in Nat \ {0} : HouseClick(s, r))
    PROVE  OverlayInv'
<1>1. OverlayTypeOK /\ Stacked /\ CursorsPlaced /\ CursorsInRange /\ TypedField
  BY DEF OverlayInv
<1>2. "house" \in open /\ UNCHANGED <<open, keys, finder, column, tree, found>>
  BY KeyIsOpen DEF HouseMove, HouseEdit, HouseSubmit, HouseClick, Overlaid, Alone
<1>3. house \in Edits /\ house.at[1] \in 1..Len(SectionLen) /\ house.at[2] \in 1..SectionLen[house.at[1]]
  BY <1>1, <1>2, InSections DEF OverlayTypeOK, CursorsPlaced, CursorsInRange
<1>4. saved' \in Edits /\ TypedField'
  <2>1. CASE HouseSubmit
    <3>1. saved' = house /\ house.for # NoField
      BY <2>1 DEF HouseSubmit
    <3> QED BY <3>1, <1>1, <1>3 DEF CursorsPlaced, TypedField
  <2>2. CASE saved' = saved
    BY <2>2, <1>1 DEF OverlayTypeOK, TypedField
  <2> QED BY <2>1, <2>2 DEF HouseMove, HouseEdit, HouseClick
<1>5. /\ house' \in Edits /\ Placed(house'.at)
      /\ house'.for # NoField /\ ~house'.clicked => house'.for = house'.at
  <2>1. CASE HouseMove
    <3> DEFINE s == house.at[1]
               r == house.at[2]
    <3>1. s \in 1..Len(SectionLen) /\ r \in 1..SectionLen[s] /\ house.for = NoField
      BY <2>1, <1>3 DEF HouseMove, Browsing
    <3>2. \E t \in 1..Len(SectionLen) : \E q \in 1..SectionLen[t] : house' = HouseAt(t, q)
      <4>1. /\ 1 \in 1..Len(SectionLen) /\ 2 \in 1..Len(SectionLen)
            /\ \A t \in 1..Len(SectionLen) : SectionLen[t] \in Nat /\ 1 \in 1..SectionLen[t]
        BY InSections
      <4>2. \/ house' = HouseAt(2, 1) \/ house' = HouseAt(1, 1)
            \/ r < SectionLen[s] /\ house' = HouseAt(s, r + 1)
            \/ r > 1 /\ house' = HouseAt(s, r - 1)
            \/ s < Len(SectionLen) /\ house' = HouseAt(s + 1, IF r > SectionLen[s + 1] THEN SectionLen[s + 1] ELSE r)
            \/ s > 1 /\ house' = HouseAt(s - 1, IF r > SectionLen[s - 1] THEN SectionLen[s - 1] ELSE r)
        BY <2>1 DEF HouseMove
      <4>3. s \in Nat /\ r \in Nat /\ Len(SectionLen) \in Nat /\ SectionLen[s] \in Nat
        BY <3>1, InSections
      <4>4. r < SectionLen[s] => r + 1 \in 1..SectionLen[s]
        BY <4>3
      <4>5. r > 1 => r - 1 \in 1..SectionLen[s]
        BY <4>3, <3>1
      <4>6. ASSUME NEW t \in 1..Len(SectionLen)
            PROVE  (IF r > SectionLen[t] THEN SectionLen[t] ELSE r) \in 1..SectionLen[t]
        BY <4>1, <4>3, <3>1
      <4>7. (s < Len(SectionLen) => s + 1 \in 1..Len(SectionLen)) /\ (s > 1 => s - 1 \in 1..Len(SectionLen))
        BY <3>1, <4>3
      <4> HIDE DEF s, r
      <4> QED BY <3>1, <4>1, <4>2, <4>4, <4>5, <4>6, <4>7
    <3>6. PICK t \in 1..Len(SectionLen) : \E q \in 1..SectionLen[t] : house' = [house EXCEPT !.at = <<t, q>>]
      BY <3>2 DEF HouseAt
    <3>3. PICK q \in 1..SectionLen[t] : house' = [house EXCEPT !.at = <<t, q>>]
      BY <3>6
    <3>4. <<t, q>> \in Fields /\ Placed(<<t, q>>)
      BY PlacedIs
    <3>5. house'.at = <<t, q>> /\ house'.for = NoField /\ house' \in Edits
      BY <3>1, <3>3, <3>4, <1>3 DEF Edits
    <3> QED BY <3>4, <3>5
  <2>2. CASE HouseEdit
    <3>1. house' = [house EXCEPT !.for = IF Browsing THEN house.at ELSE NoField, !.clicked = FALSE]
      BY <2>2 DEF HouseEdit
    <3>2. Placed(house.at) /\ NoField \in Fields
      BY <1>3, InSections DEF Placed, NoField, Fields
    <3> QED BY <3>1, <3>2, <1>3 DEF Edits
  <2>3. CASE HouseSubmit
    <3>1. house' = [house EXCEPT !.for = NoField, !.clicked = FALSE]
      BY <2>3 DEF HouseSubmit
    <3>2. Placed(house.at) /\ NoField \in Fields
      BY <1>3, InSections DEF Placed, NoField, Fields
    <3> QED BY <3>1, <3>2, <1>3 DEF Edits
  <2>4. ASSUME NEW s \in DOMAIN SectionLen, NEW r \in Nat \ {0}, HouseClick(s, r)
        PROVE  /\ house' \in Edits /\ Placed(house'.at)
               /\ house'.for # NoField /\ ~house'.clicked => house'.for = house'.at
    <3>1. house' = [[house EXCEPT !.at = <<s, r>>] EXCEPT !.clicked = (house.for # NoField)] /\ r <= SectionLen[s]
      BY <2>4 DEF HouseClick, HouseAt
    <3>2. s \in 1..Len(SectionLen) /\ r \in 1..SectionLen[s]
      BY <3>1, InSections
    <3>3. <<s, r>> \in Fields /\ Placed(<<s, r>>)
      BY <3>2, PlacedIs
    <3>4. house' \in Edits /\ house'.at = <<s, r>> /\ house'.for = house.for /\ house'.clicked = (house.for # NoField)
      BY <3>1, <3>3, <1>3 DEF Edits
    <3> QED BY <3>3, <3>4
  <2> HIDE DEF HouseMove, HouseEdit, HouseSubmit
  <2> QED BY <2>1, <2>2, <2>3, <2>4
<1>6. OverlayTypeOK'
  BY <1>1, <1>2, <1>4, <1>5 DEF OverlayTypeOK
<1>7. CursorsPlaced' /\ CursorsInRange'
  BY <1>1, <1>2, <1>5 DEF CursorsPlaced, CursorsInRange, Placed
<1>8. Stacked'
  BY <1>1, <1>2, StackKept
<1> QED BY <1>4, <1>6, <1>7, <1>8 DEF OverlayInv

LEMMA FinderMoved ==
    ASSUME OverlayInv, (\E f \in ColumnsFound : FinderTypes(f)) \/ (\E i \in DOMAIN Columns : FinderMove(i))
    PROVE  OverlayInv'
<1>1. OverlayTypeOK /\ Stacked /\ CursorsPlaced /\ CursorsInRange /\ TypedField
  BY DEF OverlayInv
<1>2. "finder" \in open /\ UNCHANGED <<open, keys, house, saved, column, tree, found>>
  BY KeyIsOpen DEF FinderTypes, FinderMove, Overlaid, Alone
<1>3. finder \in [matches : Seq(ToSet(Columns)), cur : Nat] /\ finder.cur # 0
  BY <1>1, <1>2 DEF OverlayTypeOK, CursorsPlaced
<1>4. /\ finder' \in [matches : Seq(ToSet(Columns)), cur : Nat] /\ finder'.cur # 0
      /\ finder'.matches = <<>> \/ finder'.cur \in DOMAIN finder'.matches
  <2>1. ASSUME NEW f \in ColumnsFound, FinderTypes(f)
        PROVE  /\ finder' \in [matches : Seq(ToSet(Columns)), cur : Nat] /\ finder'.cur # 0
               /\ finder'.matches = <<>> \/ finder'.cur \in DOMAIN finder'.matches
    <3>1. finder' = Filtered(finder, f) /\ f \in Seq(ToSet(Columns))
      BY <2>1, MatchesAreLists DEF FinderTypes
    <3> QED BY <3>1, <1>3, FilteredIs
  <2>2. ASSUME NEW i \in DOMAIN Columns, FinderMove(i)
        PROVE  /\ finder' \in [matches : Seq(ToSet(Columns)), cur : Nat] /\ finder'.cur # 0
               /\ finder'.matches = <<>> \/ finder'.cur \in DOMAIN finder'.matches
    <3>1. finder' = [finder EXCEPT !.cur = i] /\ i \in 1..Len(finder.matches)
      BY <2>2 DEF FinderMove
    <3>2. i \in Nat /\ i # 0 /\ i \in DOMAIN finder.matches
      BY <3>1, <1>3
    <3> QED BY <3>1, <3>2, <1>3
  <2> QED BY <2>1, <2>2
<1>5. OverlayTypeOK'
  BY <1>1, <1>2, <1>4 DEF OverlayTypeOK
<1>6. CursorsPlaced' /\ CursorsInRange' /\ TypedField'
  BY <1>1, <1>2, <1>4 DEF CursorsPlaced, CursorsInRange, TypedField
<1>7. Stacked'
  BY <1>1, <1>2, StackKept
<1> QED BY <1>5, <1>6, <1>7 DEF OverlayInv

\* A cursor that is kept within the operations that are visible then
LEMMA TreeIsAt ==
    ASSUME tree \in [expanded : SUBSET Nodes, cur : Nat, tab : Nat],
           NEW X \in SUBSET Nodes, NEW c \in Nat \ {0},
           tree' = [tree EXCEPT !.expanded = X, !.cur = Within(c, Len(VisibleNodes(X)))]
    PROVE  /\ tree' \in [expanded : SUBSET Nodes, cur : Nat, tab : Nat]
           /\ tree'.cur \in DOMAIN VisibleNodes(tree'.expanded) /\ tree'.tab = tree.tab
<1> DEFINE n == Len(VisibleNodes(X))
<1>1. n \in Nat \ {0} /\ DOMAIN VisibleNodes(X) = 1..n
  BY NodesVisible
<1>2. Within(c, n) \in Nat /\ Within(c, n) \in 1..n
  <2> HIDE DEF n
  <2> QED BY <1>1, WithinIs
<1>3. tree' = [tree EXCEPT !.expanded = X, !.cur = Within(c, n)]
  OBVIOUS
<1> HIDE DEF n
<1> QED BY <1>1, <1>2, <1>3

TreeHolds ==
    /\ tree \in [expanded : SUBSET Nodes, cur : Nat, tab : Nat]
    /\ tree.cur \in DOMAIN VisibleNodes(tree.expanded) /\ (Groups = 0 \/ tree.tab \in 1..Groups)

LEMMA TreeMoved ==
    ASSUME OverlayInv, TreeKey \/ (\E i \in DOMAIN TreeNodes : TreeClick(i))
    PROVE  OverlayInv'
<1>1. OverlayTypeOK /\ Stacked /\ CursorsPlaced /\ CursorsInRange /\ TypedField
  BY DEF OverlayInv
<1>2. "ops" \in open /\ UNCHANGED <<open, keys, house, saved, finder, column, found>>
  BY KeyIsOpen DEF TreeKey, TreeClick, Overlaid, Alone
<1>3. /\ tree \in [expanded : SUBSET Nodes, cur : Nat, tab : Nat]
      /\ tree.cur \in DOMAIN VisibleNodes(tree.expanded) /\ (Groups = 0 \/ tree.tab \in 1..Groups)
  BY <1>1, <1>2 DEF OverlayTypeOK, CursorsInRange, Nodes
<1> DEFINE nodes == VisibleNodes(tree.expanded)
<1>4. /\ nodes \in Seq(Nodes) /\ Len(nodes) \in Nat \ {0} /\ DOMAIN nodes = 1..Len(nodes)
      /\ \A i \in DOMAIN nodes :
             /\ nodes[i] \in Nodes /\ ParentOf[nodes[i]] \in Nodes \cup {0}
             /\ ParentOf[nodes[i]] # 0 => \E j \in DOMAIN nodes : nodes[j] = ParentOf[nodes[i]]
  BY NodesVisible
<1> HIDE DEF nodes
<1>5. \A S \in SUBSET Nodes : \A n \in Nodes : Flip(S, n) \in SUBSET Nodes
  BY DEF Flip
<1>6. ASSUME NEW X \in SUBSET Nodes, NEW c \in Nat \ {0},
             tree' = [tree EXCEPT !.expanded = X, !.cur = Within(c, Len(VisibleNodes(X)))]
      PROVE  TreeHolds'
  BY <1>3, <1>6, TreeIsAt DEF TreeHolds
<1>7. ASSUME TreeKey PROVE TreeHolds'
  <2> DEFINE n == nodes[tree.cur]
  <2>1. tree.cur \in 1..Len(nodes) /\ tree.cur \in Nat \ {0} /\ n \in Nodes /\ tree.expanded \in SUBSET Nodes
    BY <1>3, <1>4 DEF nodes
  <2>2. ASSUME NEW i \in {1, tree.cur + 1, Len(nodes)} \cup ({tree.cur - 1} \ {0}), TreeAt(tree.expanded, i) PROVE TreeHolds'
    <3>2. i = 1 \/ i = tree.cur + 1 \/ i = Len(nodes) \/ (i = tree.cur - 1 /\ i # 0)
      OBVIOUS
    <3>3. tree.cur \in Nat \ {0} /\ Len(nodes) \in Nat \ {0}
      BY <2>1, <1>4
    <3>1. i \in Nat \ {0}
      BY <3>2, <3>3
    <3> QED BY <3>1, <2>1, <2>2, <1>6 DEF TreeAt
  <2>3. ASSUME TreeAt(Flip(tree.expanded, n), tree.cur) PROVE TreeHolds'
    <3> HIDE DEF n
    <3>1. Flip(tree.expanded, n) \in SUBSET Nodes
      BY <2>1, <1>5
    <3> QED BY <3>1, <2>1, <2>3, <1>6 DEF TreeAt
  <2>4. ASSUME TreeAt(tree.expanded \ {n}, tree.cur) PROVE TreeHolds'
    <3> HIDE DEF n
    <3> QED BY <2>1, <2>4, <1>6 DEF TreeAt
  <2>5. ASSUME ParentOf[n] # 0, TreeAt(tree.expanded \ {ParentOf[n]}, SelectInSeq(nodes, LAMBDA x : x = ParentOf[n]))
        PROVE  TreeHolds'
    <3> DEFINE I == {i \in 1..Len(nodes) : nodes[i] = ParentOf[n]}
    <3>1. I # {} /\ I \subseteq Nat
      BY <1>4, <2>1, <2>5
    <3>2. Min(I) \in I
      <4> HIDE DEF I
      <4> QED BY <3>1, MinOf
    <3>3. Min(I) \in Nat \ {0}
      BY <3>2
    <3>4. TreeAt(tree.expanded \ {ParentOf[n]}, Min(I))
      BY <2>5, <3>1 DEF SelectInSeq
    <3> HIDE DEF n, I
    <3> QED BY <3>3, <3>4, <2>1, <1>6 DEF TreeAt
  <2>6. ASSUME NEW t \in {tree.tab - 1, tree.tab + 1}, t \in 1..Groups, tree' = [tree EXCEPT !.tab = t] PROVE TreeHolds'
    <3>1. t \in Nat /\ Groups \in Nat
      BY <2>6, OverlaysAssumption
    <3> QED BY <3>1, <2>6, <1>3 DEF TreeHolds
  <2> QED BY <1>7, <2>2, <2>3, <2>4, <2>5, <2>6 DEF TreeKey, nodes
<1>8. ASSUME NEW i \in DOMAIN TreeNodes, TreeClick(i) PROVE TreeHolds'
  <2>1. /\ i \in DOMAIN nodes
        /\ TreeAt(IF Expandable(nodes[i]) THEN Flip(tree.expanded, nodes[i]) ELSE tree.expanded, i)
    BY <1>8 DEF TreeClick, nodes
  <2>2. i \in Nat \ {0} /\ nodes[i] \in Nodes /\ tree.expanded \in SUBSET Nodes
    BY <2>1, <1>3, <1>4
  <2>3. Flip(tree.expanded, nodes[i]) \in SUBSET Nodes
    BY <2>2, <1>5
  <2> QED BY <2>1, <2>2, <2>3, <1>6 DEF TreeAt
<1>9. TreeHolds'
  BY <1>7, <1>8
<1>10. OverlayTypeOK'
  BY <1>1, <1>2, <1>9 DEF OverlayTypeOK, Nodes, TreeHolds
<1>11. CursorsPlaced' /\ CursorsInRange' /\ TypedField'
  BY <1>1, <1>2, <1>9 DEF CursorsPlaced, CursorsInRange, TypedField, TreeHolds
<1>12. Stacked'
  BY <1>1, <1>2, StackKept
<1> QED BY <1>10, <1>11, <1>12 DEF OverlayInv

LEMMA SearchMoved ==
    ASSUME OverlayInv, \E n \in 0..MaxFound : SearchTypes(n) \/ SearchMove(n)
    PROVE  OverlayInv'
<1>1. OverlayTypeOK /\ Stacked /\ CursorsPlaced /\ CursorsInRange /\ TypedField
  BY DEF OverlayInv
<1>2. "search" \in open /\ UNCHANGED <<open, keys, house, saved, finder, column, tree>>
  BY KeyIsOpen DEF SearchTypes, SearchMove, Overlaid, Alone
<1>3. found \in [n : Nat, cur : Nat] /\ found.cur # 0
  BY <1>1, <1>2 DEF OverlayTypeOK, CursorsPlaced
<1>4. found' \in [n : Nat, cur : Nat] /\ found'.cur # 0 /\ (found'.n = 0 \/ found'.cur \in 1..found'.n)
  <2>1. ASSUME NEW n \in 0..MaxFound, SearchTypes(n)
        PROVE  found' \in [n : Nat, cur : Nat] /\ found'.cur # 0 /\ (found'.n = 0 \/ found'.cur \in 1..found'.n)
    <3>1. found' = [n |-> n, cur |-> Within(found.cur, n)] /\ n \in Nat /\ found.cur \in Nat
      BY <2>1, <1>3, OverlaysAssumption DEF SearchTypes
    <3>2. Within(found.cur, n) \in Nat /\ Within(found.cur, n) # 0 /\ (n = 0 \/ Within(found.cur, n) \in 1..n)
      BY <3>1, <1>3, WithinIs
    <3> QED BY <3>1, <3>2
  <2>2. ASSUME NEW i \in 0..MaxFound, SearchMove(i)
        PROVE  found' \in [n : Nat, cur : Nat] /\ found'.cur # 0 /\ (found'.n = 0 \/ found'.cur \in 1..found'.n)
    <3>1. found' = [found EXCEPT !.cur = i] /\ i \in 1..found.n
      BY <2>2 DEF SearchMove
    <3>2. i \in Nat /\ i # 0
      BY <3>1, <1>3
    <3> QED BY <3>1, <3>2, <1>3
  <2> QED BY <2>1, <2>2
<1>5. OverlayTypeOK'
  BY <1>1, <1>2, <1>4 DEF OverlayTypeOK
<1>6. CursorsPlaced' /\ CursorsInRange' /\ TypedField'
  BY <1>1, <1>2, <1>4 DEF CursorsPlaced, CursorsInRange, TypedField
<1>7. Stacked'
  BY <1>1, <1>2, StackKept
<1> QED BY <1>5, <1>6, <1>7 DEF OverlayInv

LEMMA OverlaysStart == OverlayInit => OverlayInv
<1> SUFFICES ASSUME OverlayInit PROVE OverlayInv
  OBVIOUS
<1>1. /\ open \in {{}, {"dash"}} /\ keys = "normal"
      /\ house = NoHouse /\ finder = NoFinder /\ tree = NoTree /\ found = NoResults
      /\ saved = NoHouse /\ column = Columns[1]
  BY DEF OverlayInit
<1>2. /\ NoHouse \in Edits /\ NoHouse.for = NoField /\ NoHouse.at = NoField
      /\ NoFinder \in [matches : Seq(ToSet(Columns)), cur : Nat]
      /\ NoTree \in [expanded : SUBSET Nodes, cur : Nat, tab : Nat]
      /\ NoResults \in [n : Nat, cur : Nat]
  BY DEF NoHouse, NoFinder, NoTree, NoResults, Edits, Fields, NoField
<1>3. OverlayTypeOK
  BY <1>1, <1>2, Lists, MatchesAreLists DEF OverlayTypeOK, Nodes, Overlaid
<1>4. Stacked
  BY <1>1 DEF Stacked, Alone
<1>5. CursorsPlaced /\ CursorsInRange /\ TypedField
  BY <1>1, <1>2 DEF CursorsPlaced, CursorsInRange, TypedField
<1> QED BY <1>3, <1>4, <1>5 DEF OverlayInv

LEMMA OverlaysStep == OverlayInv /\ [OverlayNext]_overlayVars => OverlayInv'
<1> SUFFICES ASSUME OverlayInv, [OverlayNext]_overlayVars PROVE OverlayInv'
  OBVIOUS
<1>1. CASE UNCHANGED overlayVars
  BY <1>1 DEF overlayVars, OverlayInv, OverlayTypeOK, Stacked, CursorsPlaced, CursorsInRange, TypedField
<1>2. CASE OverlayNext
  <2>1. ASSUME NEW o \in ToSet(Dispatched), OpenByKey(o) \/ OpenByClick(o) \/ CloseByKey(o) PROVE OverlayInv'
    BY <2>1, Lists, OpensStacked, ClosesStacked
  <2>2. ASSUME NEW m \in {"normal", "edit", "form"}, ChangeMode(m) PROVE OverlayInv'
    BY <2>2, ModesStacked
  <2>3. CASE LeaveForm
    BY <2>3, ModesStacked
  <2>4. CASE DismissActive \/ FinderJump \/ SearchGoes
    BY <2>4, ClosesStacked
  <2>5. CASE HouseMove \/ HouseEdit \/ HouseSubmit
    BY <2>5, HouseMoved
  <2>6. ASSUME NEW s \in DOMAIN SectionLen, NEW r \in 1..Max(ToSet(SectionLen)), HouseClick(s, r) PROVE OverlayInv'
    <3>1. r \in Nat \ {0}
      <4>1. r \in Int /\ r >= 1
        OBVIOUS
      <4> QED BY <4>1
    <3> QED BY <2>6, <3>1, HouseMoved
  <2>7. ASSUME NEW f \in ColumnsFound, FinderTypes(f) PROVE OverlayInv'
    BY <2>7, FinderMoved
  <2>8. ASSUME NEW i \in DOMAIN Columns, FinderMove(i) PROVE OverlayInv'
    BY <2>8, FinderMoved
  <2>9. CASE TreeKey
    BY <2>9, TreeMoved
  <2>10. ASSUME NEW i \in DOMAIN TreeNodes, TreeClick(i) PROVE OverlayInv'
    BY <2>10, TreeMoved
  <2>11. ASSUME NEW n \in 0..MaxFound, SearchTypes(n) \/ SearchMove(n) PROVE OverlayInv'
    BY <2>11, SearchMoved
  <2> QED BY <1>2, <2>1, <2>2, <2>3, <2>4, <2>5, <2>6, <2>7, <2>8, <2>9, <2>10, <2>11 DEF OverlayNext
<1> QED BY <1>1, <1>2

THEOREM OverlayTypeCorrect == OverlayInit /\ [][OverlayNext]_overlayVars => []OverlayTypeOK
<1>1. OverlayInv => OverlayTypeOK
  BY DEF OverlayInv
<1> QED BY <1>1, OverlaysStart, OverlaysStep, PTL

\* However keys and clicks open, close and move in them: without the chat, the
\* overlay on top takes the keys and the clicks beside it, every cursor is on an
\* entry, and what is typed in the house profile is saved where it was meant.
THEOREM KeysReach == OverlayInit /\ [][OverlayNext]_overlayVars => []KeysLand
<1>1. OverlayInv => KeysLand
  BY SameTop DEF OverlayInv, KeysLand
<1> QED BY <1>1, OverlaysStart, OverlaysStep, PTL

-----------------------------------------------------------------------------
(***************************************************************************)
(* Navigation: the routes of the drilldowns.                               *)
(***************************************************************************)

Defs == {DetailRoutes[i].def : i \in 1..12}

\* The views there are: tabs, and the drilldowns of the routes
OfTab(v)    == v.tab \in Kinds \ {"servicelog"} /\ v.of = "none" /\ v.shows = v.tab
OfDetail(v) == Def(v.tab, v.of, v.shows) \in Defs

Fits(v, drill, i) ==
    /\ DetailRoutes[i].col = drill /\ v.tab \in DetailRoutes[i].in
    /\ DetailRoutes[i].form = "any" \/ DetailRoutes[i].form = v.shows

LEMMA FirstRoute ==
    ASSUME NEW v, NEW drill
    PROVE  \/ RouteOf(v, drill) = NoDef /\ \A i \in 1..12 : ~Fits(v, drill, i)
           \/ \E i \in 1..12 : /\ RouteOf(v, drill) = DetailRoutes[i].def /\ Fits(v, drill, i)
                               /\ \A j \in 1..12 : Fits(v, drill, j) => i <= j
<1> DEFINE fitting == {i \in 1..12 : Fits(v, drill, i)}
<1>1. DOMAIN DetailRoutes = 1..12
  BY DEF DetailRoutes
<1>2. RouteOf(v, drill) = IF fitting = {} THEN NoDef ELSE DetailRoutes[Min(fitting)].def
  BY <1>1 DEF RouteOf, Fits, FormFits
<1>3. fitting # {} => Min(fitting) \in fitting /\ \A j \in fitting : Min(fitting) <= j
  <2>1. fitting \subseteq Nat
    OBVIOUS
  <2> HIDE DEF fitting
  <2> QED BY <2>1, MinOf
<1>4. CASE fitting = {}
  BY <1>2, <1>4
<1>5. CASE fitting # {}
  <2>1. Min(fitting) \in fitting /\ \A j \in fitting : Min(fitting) <= j
    BY <1>3, <1>5
  <2> QED BY <1>2, <1>5, <2>1
<1> QED BY <1>4, <1>5

LEMMA RouteList ==
    /\ DetailRoutes[1] = Route({"maintenance", "appliance"}, "Log", "any", Def("maintenance", "maintenance", "servicelog"))
    /\ DetailRoutes[2] = Route({"appliance"}, "Maint", "any", Def("appliance", "appliance", "maintenance"))
    /\ DetailRoutes[3] = Route({"vendor"}, "Quotes", "any", Def("vendor", "vendor", "quote"))
    /\ DetailRoutes[4] = Route({"vendor"}, "Jobs", "any", Def("vendor", "vendor", "servicelog"))
    /\ DetailRoutes[5] = Route({"project"}, "Quotes", "any", Def("project", "project", "quote"))
    /\ DetailRoutes[6] = Route({"maintenance", "appliance"}, "Docs", "servicelog", Def("maintenance", "servicelog", "document"))
    /\ DetailRoutes[7] = Route({"maintenance", "appliance"}, "Docs", "maintenance", Def("maintenance", "maintenance", "document"))
    /\ DetailRoutes[8] = Route({"quote", "vendor", "project"}, "Docs", "quote", Def("quote", "quote", "document"))
    /\ DetailRoutes[9] = Route({"project"}, "Docs", "any", Def("project", "project", "document"))
    /\ DetailRoutes[10] = Route({"incident"}, "Docs", "any", Def("incident", "incident", "document"))
    /\ DetailRoutes[11] = Route({"appliance"}, "Docs", "any", Def("appliance", "appliance", "document"))
    /\ DetailRoutes[12] = Route({"vendor"}, "Docs", "any", Def("vendor", "vendor", "document"))
BY DEF DetailRoutes

\* Which drilldowns there are
LEMMA DefsAre ==
    ASSUME NEW v, OfDetail(v)
    PROVE  \/ v.tab = "maintenance" /\ v.of = "maintenance" /\ v.shows = "servicelog"
           \/ v.tab = "appliance" /\ v.of = "appliance" /\ v.shows = "maintenance"
           \/ v.tab = "vendor" /\ v.of = "vendor" /\ v.shows = "quote"
           \/ v.tab = "vendor" /\ v.of = "vendor" /\ v.shows = "servicelog"
           \/ v.tab = "project" /\ v.of = "project" /\ v.shows = "quote"
           \/ v.shows = "document" /\ v.tab \in Kinds \ {"servicelog", "document"} /\ v.of \in {v.tab, "servicelog"} /\ (v.of = "servicelog" => v.tab = "maintenance")
<1>1. PICK i \in 1..12 : Def(v.tab, v.of, v.shows) = DetailRoutes[i].def
  BY DEF OfDetail, Defs
<1>2. i \in {1, 2, 3, 4, 5, 6, 7, 8, 9, 10, 11, 12}
  OBVIOUS
<1> DEFINE d == DetailRoutes[i].def
<1>3. d.tab = v.tab /\ d.of = v.of /\ d.shows = v.shows
  BY <1>1 DEF Def
<1>4. CASE i \in {1, 2, 3, 4, 5}
  BY <1>3, <1>4, RouteList DEF Def, Route
<1>5. CASE i \in {6, 7, 8, 9, 10, 11, 12}
  BY <1>3, <1>5, RouteList DEF Def, Route, Kinds
<1> QED BY <1>2, <1>4, <1>5

\* Every drilldown column of a view opens a list for rows of its kind.
LEMMA RoutesFit ==
    ASSUME NEW v, OfTab(v) \/ OfDetail(v), NEW drill \in DrillColumns(v)
    PROVE  RouteOf(v, drill).of = v.shows
<1> DEFINE t == v.tab
           s == v.shows
<1>1. \/ t = s /\ v.of = "none" /\ t \in Kinds \ {"servicelog"}
      \/ t = "maintenance" /\ v.of = "maintenance" /\ s = "servicelog"
      \/ t = "appliance" /\ s = "maintenance"
      \/ t = "vendor" /\ s = "quote"
      \/ t = "vendor" /\ v.of = "vendor" /\ s = "servicelog"
      \/ t = "project" /\ s = "quote"
      \/ s = "document"
  BY DefsAre DEF OfTab
<1>2. \/ t = "project" /\ s = "project" /\ drill = "Quotes" /\ Fits(v, drill, 5)
      \/ t = "project" /\ s = "project" /\ drill = "Docs" /\ Fits(v, drill, 9)
      \/ t \in {"maintenance", "appliance"} /\ s = "maintenance" /\ drill = "Log" /\ Fits(v, drill, 1)
      \/ t \in {"maintenance", "appliance"} /\ s = "maintenance" /\ drill = "Docs" /\ Fits(v, drill, 7)
      \/ t = "appliance" /\ s = "appliance" /\ drill = "Maint" /\ Fits(v, drill, 2)
      \/ t = "appliance" /\ s = "appliance" /\ drill = "Docs" /\ Fits(v, drill, 11)
      \/ t = "vendor" /\ s = "vendor" /\ drill = "Quotes" /\ Fits(v, drill, 3)
      \/ t = "vendor" /\ s = "vendor" /\ drill = "Jobs" /\ Fits(v, drill, 4)
      \/ t = "vendor" /\ s = "vendor" /\ drill = "Docs" /\ Fits(v, drill, 12)
      \/ t = "maintenance" /\ s = "servicelog" /\ drill = "Docs" /\ Fits(v, drill, 6)
      \/ t \in {"quote", "vendor", "project"} /\ s = "quote" /\ drill = "Docs" /\ Fits(v, drill, 8)
      \/ t = "incident" /\ s = "incident" /\ drill = "Docs" /\ Fits(v, drill, 10)
  BY <1>1, RouteList DEF DrillColumns, Fits, Route, Kinds
<1>3. PICK i \in 1..12 : /\ RouteOf(v, drill) = DetailRoutes[i].def /\ Fits(v, drill, i)
                         /\ \A j \in 1..12 : Fits(v, drill, j) => i <= j
  BY <1>2, FirstRoute
<1>4. i \in {1, 2, 3, 4, 5, 6, 7, 8, 9, 10, 11, 12} /\ DetailRoutes[i].def.of = s
  BY <1>2, <1>3, RouteList DEF Fits, Route, Def
<1> QED BY <1>3, <1>4

-----------------------------------------------------------------------------
(***************************************************************************)
(* Navigation: views, their lists and their cursors.                       *)
(***************************************************************************)

Ids      == Rows \cup {None}
Names    == Kinds \cup {"none"}
Entries  == [id : Rows, deleted : BOOLEAN]
Views    == [tab : Names, of : Names, shows : Names, parent : Ids, from : Names,
             list : Seq(Entries), rows : Seq(Entries), hides : SUBSET Rows, cur : Nat, show : BOOLEAN, chosen : BOOLEAN, unread : BOOLEAN]
Statuses == [Rows -> {"unborn", "live", "deleted", "gone"}]

\* The list of a view holds rows of its kind that belong to its parent.
Belong(v) ==
    \A i \in DOMAIN v.list :
        /\ KindOf[v.list[i].id] = v.shows
        /\ v.parent # None => <<v.list[i].id, v.parent>> \in Refers

\* It draws all that its pins let through of what it loaded.
DrawsAll(v) == v.rows = Passing(v.list, v.hides)

ViewOK(v) == v \in Views /\ v.cur \in 0..Len(v.rows) /\ Belong(v) /\ DrawsAll(v)

\* The same view, of whatever it lists
Same(v, w) ==
    /\ v.tab = w.tab /\ v.of = w.of /\ v.shows = w.shows
    /\ v.parent = w.parent /\ v.from = w.from

\* A list of the store's rows, all of them in it
Complete(o) == o \in Seq(Rows) /\ \A r \in Rows : \E i \in DOMAIN o : o[i] = r

LEMMA ViewIs ==
    ASSUME NEW v \in Views
    PROVE  /\ v.tab \in Names /\ v.of \in Names /\ v.shows \in Names /\ v.parent \in Ids /\ v.from \in Names
           /\ v.list \in Seq(Entries) /\ v.rows \in Seq(Entries) /\ v.hides \in SUBSET Rows
           /\ v.cur \in Nat /\ v.show \in BOOLEAN /\ v.chosen \in BOOLEAN /\ v.unread \in BOOLEAN
           /\ Len(v.rows) \in Nat /\ DOMAIN v.rows = 1..Len(v.rows)
           /\ \A i \in 1..Len(v.rows) : v.rows[i] \in Entries /\ v.rows[i].id \in Rows
<1>1. /\ v.tab \in Names /\ v.of \in Names /\ v.shows \in Names /\ v.parent \in Ids /\ v.from \in Names
      /\ v.list \in Seq(Entries) /\ v.rows \in Seq(Entries) /\ v.hides \in SUBSET Rows
      /\ v.cur \in Nat /\ v.show \in BOOLEAN /\ v.chosen \in BOOLEAN /\ v.unread \in BOOLEAN
  BY DEF Views
<1>2. \A e \in Entries : e.id \in Rows
  BY DEF Entries
<1>3. Len(v.rows) \in Nat /\ DOMAIN v.rows = 1..Len(v.rows) /\ \A i \in 1..Len(v.rows) : v.rows[i] \in Entries
  BY <1>1
<1> QED BY <1>1, <1>2, <1>3

\* Of the rows loaded, the pins let through those that they do not hide.
LEMMA PassingIs ==
    ASSUME NEW q \in Seq(Entries), NEW hid
    PROVE  /\ Passing(q, hid) \in Seq(Entries)
           /\ \A i \in DOMAIN Passing(q, hid) : \E j \in DOMAIN q : q[j] = Passing(q, hid)[i]
           /\ \A j \in DOMAIN q : q[j].id \notin hid =>
                 \E i \in DOMAIN Passing(q, hid) : Passing(q, hid)[i] = q[j]
<1> DEFINE S == [id : Rows \ hid, deleted : BOOLEAN]
<1>1. Passing(q, hid) = Only(q, S)
  BY DEF Passing
<1>2. ASSUME NEW j \in DOMAIN q, q[j].id \notin hid PROVE q[j] \in S
  <2>1. q[j] \in Entries
    OBVIOUS
  <2> QED BY <2>1, <1>2 DEF Entries
<1> HIDE DEF S
<1>3. /\ Only(q, S) \in Seq(Entries)
      /\ \A i \in DOMAIN Only(q, S) : \E j \in DOMAIN q : q[j] = Only(q, S)[i]
      /\ \A j \in DOMAIN q : q[j] \in S => \E i \in DOMAIN Only(q, S) : Only(q, S)[i] = q[j]
  BY OnlyIs
<1> QED BY <1>1, <1>2, <1>3

\* What is listed depends on the kind of a view, its parent and whether it
\* shows what is deleted.
LEMMA ListDepends ==
    ASSUME NEW v, NEW w, v.shows = w.shows, v.parent = w.parent, v.show = w.show, NEW s, NEW o
    PROVE  ListOf(v, s, o) = ListOf(w, s, o)
<1>1. Listed(v, s) = Listed(w, s)
  BY DEF Listed
<1> QED BY <1>1 DEF ListOf

LEMMA ListIs ==
    ASSUME NEW v, NEW s, NEW o \in Seq(Rows)
    PROVE  /\ ListOf(v, s, o) \in Seq(Entries)
           /\ \A i \in DOMAIN ListOf(v, s, o) : ListOf(v, s, o)[i].id \in Listed(v, s)
           /\ Complete(o) => \A r \in Listed(v, s) : \E i \in DOMAIN ListOf(v, s, o) : ListOf(v, s, o)[i].id = r
<1> DEFINE q == Only(o, Listed(v, s))
           l == ListOf(v, s, o)
<1>1. /\ q \in Seq(Rows)
      /\ \A i \in DOMAIN q : q[i] \in Listed(v, s)
      /\ \A j \in DOMAIN o : o[j] \in Listed(v, s) => \E i \in DOMAIN q : q[i] = o[j]
  BY OnlyIs
<1>2. Len(q) \in Nat /\ DOMAIN q = 1..Len(q) /\ \A i \in 1..Len(q) : q[i] \in Rows
  <2> HIDE DEF q
  <2> QED BY <1>1
<1>3. l = [i \in DOMAIN q |-> [id |-> q[i], deleted |-> s[q[i]] = "deleted"]]
  BY DEF ListOf
<1>4. DOMAIN l = 1..Len(q) /\ \A i \in 1..Len(q) : l[i] = [id |-> q[i], deleted |-> (s[q[i]] = "deleted")]
  <2> HIDE DEF l, q
  <2> QED BY <1>2, <1>3
<1> HIDE DEF q, l
<1>5. ASSUME NEW i \in 1..Len(q) PROVE l[i] \in Entries /\ l[i].id = q[i]
  <2>1. CASE s[q[i]] = "deleted"
    <3>1. l[i] = [id |-> q[i], deleted |-> TRUE]
      BY <2>1, <1>4
    <3> QED BY <3>1, <1>2 DEF Entries
  <2>2. CASE s[q[i]] # "deleted"
    <3>1. l[i] = [id |-> q[i], deleted |-> FALSE]
      BY <2>2, <1>4
    <3> QED BY <3>1, <1>2 DEF Entries
  <2> QED BY <2>1, <2>2
<1>6. l = [i \in 1..Len(q) |-> l[i]]
  BY <1>2, <1>3, <1>4
<1>7. l \in Seq(Entries)
  BY <1>2, <1>5, <1>6
<1>8. \A i \in DOMAIN l : l[i].id \in Listed(v, s)
  BY <1>1, <1>2, <1>4, <1>5
<1>9. ASSUME Complete(o), NEW r \in Listed(v, s) PROVE \E i \in DOMAIN l : l[i].id = r
  <2>1. r \in Rows
    BY DEF Listed
  <2>2. PICK j \in DOMAIN o : o[j] = r
    BY <2>1, <1>9 DEF Complete
  <2>3. PICK i \in DOMAIN q : q[i] = r
    BY <2>2, <1>1
  <2> QED BY <2>3, <1>2, <1>4, <1>5
<1> QED
  <2>1. Complete(o) => \A r \in Listed(v, s) : \E i \in DOMAIN l : l[i].id = r
    BY <1>9
  <2> QED BY <1>7, <1>8, <2>1 DEF l

LEMMA ClampIs ==
    ASSUME NEW c \in Nat, NEW n \in Nat
    PROVE  Clamp(c, n) \in Nat /\ Clamp(c, n) \in 0..n
BY DEF Clamp

\* What a view draws belongs to it as what it lists.
LEMMA RowsBelong ==
    ASSUME NEW v, ViewOK(v), NEW i \in DOMAIN v.rows
    PROVE  KindOf[v.rows[i].id] = v.shows /\ (v.parent # None => <<v.rows[i].id, v.parent>> \in Refers)
<1>1. v.list \in Seq(Entries) /\ v.rows = Passing(v.list, v.hides)
  BY ViewIs DEF ViewOK, DrawsAll
<1>2. PICK j \in DOMAIN v.list : v.list[j] = v.rows[i]
  BY <1>1, PassingIs
<1> QED BY <1>2 DEF ViewOK, Belong

\* A view that is drawn again, with other rows loaded or others kept off
LEMMA RedrawnIs ==
    ASSUME NEW v \in Views, Belong(v)
    PROVE  LET w == Redrawn(v)
           IN  /\ ViewOK(w) /\ Same(w, v) /\ w.show = v.show /\ w.chosen = v.chosen /\ w.unread = v.unread
               /\ w.list = v.list /\ w.hides = v.hides
<1> DEFINE q == Passing(v.list, v.hides)
           c == Clamp(v.cur, Len(q))
           w == Redrawn(v)
<1>1. v.list \in Seq(Entries) /\ v.cur \in Nat
  BY ViewIs
<1>2. q \in Seq(Entries)
  BY <1>1, PassingIs
<1>3. w = [v EXCEPT !.rows = q, !.cur = c]
  BY DEF Redrawn
<1>4. c \in Nat /\ c \in 0..Len(q)
  <2> HIDE DEF q
  <2>1. Len(q) \in Nat
    BY <1>2
  <2> QED BY <1>1, <2>1, ClampIs
<1> HIDE DEF q, c, w
<1>5. /\ w \in Views /\ w.list = v.list /\ w.rows = q /\ w.hides = v.hides /\ w.cur = c /\ w.unread = v.unread
      /\ w.tab = v.tab /\ w.of = v.of /\ w.shows = v.shows /\ w.parent = v.parent /\ w.from = v.from
      /\ w.show = v.show /\ w.chosen = v.chosen
  BY <1>2, <1>3, <1>4 DEF Views
<1>6. Belong(w)
  BY <1>5 DEF Belong
<1>7. DrawsAll(w)
  BY <1>5 DEF DrawsAll, q
<1> QED
  <2>1. ViewOK(w) /\ Same(w, v)
    BY <1>4, <1>5, <1>6, <1>7 DEF ViewOK, Same
  <2> QED BY <2>1, <1>5 DEF w

\* A view that is loaded again lists what the store holds, and draws what its
\* pins let through.
IsLoaded(w, v, s, o) ==
    /\ ViewOK(w) /\ Same(w, v) /\ w.show = v.show /\ w.chosen = v.chosen /\ w.unread = FALSE
    /\ w.list = ListOf(v, s, o) /\ w.list = ListOf(w, s, o) /\ w.hides = v.hides
    /\ Complete(o) => \A r \in Listed(v, s) : r \notin v.hides => \E i \in DOMAIN w.rows : w.rows[i].id = r

LEMMA ReloadedIs ==
    ASSUME NEW v \in Views, NEW s, NEW o \in Seq(Rows)
    PROVE  IsLoaded(Reloaded(v, s, o), v, s, o)
<1> DEFINE l == ListOf(v, s, o)
           no == FALSE
           u == [v EXCEPT !.list = l, !.unread = no]
           w == Reloaded(v, s, o)
<1>1. /\ l \in Seq(Entries)
      /\ \A i \in DOMAIN l : l[i].id \in Listed(v, s)
      /\ Complete(o) => \A r \in Listed(v, s) : \E i \in DOMAIN l : l[i].id = r
  BY ListIs
<1>2. w = Redrawn(u) /\ no \in BOOLEAN
  BY DEF Reloaded
<1>3. u = [v EXCEPT !.list = l, !.unread = no]
  OBVIOUS
<1>4. no = FALSE
  OBVIOUS
<1> HIDE DEF l, w, u, no
<1>5. /\ u \in Views /\ u.list = l /\ u.unread = no /\ u.hides = v.hides
      /\ u.tab = v.tab /\ u.of = v.of /\ u.shows = v.shows /\ u.parent = v.parent /\ u.from = v.from
      /\ u.show = v.show /\ u.chosen = v.chosen
  BY <1>1, <1>2, <1>3 DEF Views
<1>6. Belong(u)
  <2>1. \A i \in DOMAIN l : KindOf[l[i].id] = v.shows /\ (v.parent # None => <<l[i].id, v.parent>> \in Refers)
    BY <1>1 DEF Listed, RefersIn
  <2> QED BY <2>1, <1>5 DEF Belong
<1>7. /\ ViewOK(w) /\ Same(w, u) /\ w.show = u.show /\ w.chosen = u.chosen /\ w.unread = u.unread
      /\ w.list = u.list /\ w.hides = u.hides
  BY <1>2, <1>5, <1>6, RedrawnIs
<1>8. /\ ViewOK(w) /\ Same(w, v) /\ w.show = v.show /\ w.chosen = v.chosen /\ w.unread = no
      /\ w.list = l /\ w.hides = v.hides
  BY <1>5, <1>7 DEF Same
<1>9. w.list = ListOf(w, s, o)
  BY <1>8, ListDepends DEF l, Same
<1>10. w.rows = Passing(l, v.hides)
  BY <1>8 DEF ViewOK, DrawsAll
<1>11. ASSUME Complete(o), NEW r \in Listed(v, s), r \notin v.hides PROVE \E i \in DOMAIN w.rows : w.rows[i].id = r
  <2>1. PICK j \in DOMAIN l : l[j].id = r
    BY <1>1, <1>11
  <2>2. PICK i \in DOMAIN Passing(l, v.hides) : Passing(l, v.hides)[i] = l[j]
    <3>1. l \in Seq(Entries) /\ l[j].id \notin v.hides
      BY <2>1, <1>1, <1>11
    <3>2. \A k \in DOMAIN l : l[k].id \notin v.hides =>
             \E i \in DOMAIN Passing(l, v.hides) : Passing(l, v.hides)[i] = l[k]
      BY <3>1, PassingIs
    <3> QED BY <3>1, <3>2
  <2> QED BY <2>1, <2>2, <1>10
<1> QED
  <2>1. Complete(o) => \A r \in Listed(v, s) : r \notin v.hides => \E i \in DOMAIN w.rows : w.rows[i].id = r
    BY <1>11
  <2>2. w.unread = FALSE
    BY <1>4, <1>8
  <2>3. IsLoaded(w, v, s, o)
    BY <2>1, <2>2, <1>8, <1>9 DEF l, IsLoaded
  <2> QED BY <2>3 DEF w

\* A row that is selected is the one meant, if it is drawn.
LEMMA SelectIs ==
    ASSUME NEW v, ViewOK(v), NEW id
    PROVE  LET w == SelectRow(v, id)
           IN  /\ ViewOK(w) /\ Same(w, v) /\ w.show = v.show /\ w.unread = v.unread
               /\ w.list = v.list /\ w.rows = v.rows /\ w.hides = v.hides
               /\ (\E i \in DOMAIN v.rows : v.rows[i].id = id) => w.cur \in DOMAIN v.rows /\ v.rows[w.cur].id = id
<1> DEFINE hits == {i \in DOMAIN v.rows : v.rows[i].id = id}
           w == SelectRow(v, id)
<1>1. v \in Views /\ v.cur \in 0..Len(v.rows) /\ Belong(v) /\ DrawsAll(v) /\ DOMAIN v.rows = 1..Len(v.rows) /\ Len(v.rows) \in Nat
  BY ViewIs DEF ViewOK
<1>2. CASE hits = {}
  <2>1. w = v
    BY <1>2 DEF SelectRow
  <2>2. ~ \E i \in DOMAIN v.rows : v.rows[i].id = id
    BY <1>2
  <2> QED BY <2>1, <2>2, <1>1 DEF ViewOK, Same, w
<1>3. CASE hits # {}
  <2> DEFINE c == CHOOSE i \in hits : TRUE
  <2>1. c \in hits
    BY <1>3
  <2>2. c \in 1..Len(v.rows) /\ v.rows[c].id = id /\ c \in Nat
    BY <2>1, <1>1
  <2>3. w = [v EXCEPT !.cur = c]
    BY <1>3 DEF SelectRow
  <2> HIDE DEF c, w
  <2>4. /\ w \in Views /\ w.list = v.list /\ w.rows = v.rows /\ w.hides = v.hides /\ w.cur = c /\ w.unread = v.unread /\ w.show = v.show
        /\ w.tab = v.tab /\ w.of = v.of /\ w.shows = v.shows /\ w.parent = v.parent /\ w.from = v.from
    BY <2>2, <2>3, <1>1 DEF Views
  <2>5. ViewOK(w) /\ Same(w, v)
    BY <2>2, <2>4, <1>1 DEF ViewOK, Same, Belong, DrawsAll
  <2> QED BY <2>2, <2>4, <2>5, <1>1 DEF w
<1> QED BY <1>2, <1>3

-----------------------------------------------------------------------------
(***************************************************************************)
(* Navigation: the tabs and the stack of drilldowns over them.             *)
(***************************************************************************)

TabFits(k, v)  == ViewOK(v) /\ v.tab = k /\ v.of = "none" /\ v.shows = k /\ v.parent = None
DetailFits(v)  == ViewOK(v) /\ OfDetail(v) /\ v.parent \in Rows /\ KindOf[v.parent] = v.of

\* Each drilldown is of a row of the list below it, down to a tab.
Stack(a, ts, ds) ==
    /\ a \in ToSet(Tabs)
    /\ ts \in [ToSet(Tabs) -> Views] /\ \A k \in ToSet(Tabs) : TabFits(k, ts[k])
    /\ ds \in Seq(Views) /\ \A j \in 1..Len(ds) : DetailFits(ds[j])
    /\ ds # <<>> => ds[1].from = a /\ ds[1].of = a
    /\ \A j \in 2..Len(ds) : ds[j].of = ds[j - 1].shows /\ <<ds[j].parent, ds[j - 1].parent>> \in Refers

Top(a, ts, ds) == IF ds # <<>> THEN Last(ds) ELSE ts[a]

LEMMA EffectiveIsTop == Effective = Top(active, tabs, details)
BY DEF Effective, Top

LEMMA TabsAre ==
    /\ ToSet(Tabs) \subseteq Kinds \ {"servicelog"}
    /\ "document" \in ToSet(Tabs) /\ ToSet(Sections) \subseteq ToSet(Tabs)
    /\ \A r \in Rows : KindOf[r] \in Kinds
    /\ None \notin Rows
<1>1. Tabs \in Seq(Kinds \ {"servicelog"}) /\ Sections \in Seq(ToSet(Tabs))
  BY NavigationAssumption
<1>2. ToSet(Tabs) \subseteq Kinds \ {"servicelog"}
  BY <1>1 DEF ToSet
<1>3. ToSet(Sections) \subseteq ToSet(Tabs)
  <2> DEFINE T == ToSet(Tabs)
  <2>1. Sections \in Seq(T)
    BY <1>1
  <2> HIDE DEF T
  <2>2. \A i \in DOMAIN Sections : Sections[i] \in T
    BY <2>1
  <2>3. ToSet(Sections) \subseteq T
    BY <2>2 DEF ToSet
  <2> QED BY <2>3 DEF T
<1> QED BY <1>2, <1>3, NavigationAssumption

\* e is ds but for n, where it is v.
Put(e, ds, n, v) == e = [ds EXCEPT ![n] = v]

LEMMA LastIs ==
    ASSUME NEW ds \in Seq(Views), ds # <<>>
    PROVE  /\ Len(ds) \in Nat /\ Len(ds) > 0 /\ Len(ds) \in 1..Len(ds) /\ 1 \in 1..Len(ds) /\ DOMAIN ds = 1..Len(ds)
           /\ Last(ds) = ds[Len(ds)]
<1>1. Len(ds) \in Nat /\ Len(ds) > 0 /\ DOMAIN ds = 1..Len(ds)
  BY EmptySeq
<1> QED BY <1>1 DEF Last

LEMMA TopIsView ==
    ASSUME NEW a, NEW ts, NEW ds, Stack(a, ts, ds)
    PROVE  LET v == Top(a, ts, ds)
           IN  /\ ViewOK(v) /\ v \in Views /\ (OfTab(v) \/ OfDetail(v))
               /\ ds # <<>> => v = ds[Len(ds)] /\ DetailFits(v)
               /\ ds = <<>> => v = ts[a] /\ TabFits(a, v)
<1>1. CASE ds # <<>>
  <2>1. Last(ds) = ds[Len(ds)] /\ DetailFits(ds[Len(ds)])
    BY <1>1, LastIs DEF Stack
  <2> QED BY <1>1, <2>1 DEF Top, DetailFits, ViewOK
<1>2. CASE ds = <<>>
  <2>1. TabFits(a, ts[a]) /\ a \in Kinds \ {"servicelog"}
    BY TabsAre DEF Stack
  <2> QED BY <1>2, <2>1 DEF Top, TabFits, OfTab, ViewOK
<1> QED BY <1>1, <1>2

LEMMA SameFits ==
    ASSUME NEW v, NEW w, Same(w, v), ViewOK(w)
    PROVE  /\ \A k : TabFits(k, v) => TabFits(k, w)
           /\ DetailFits(v) => DetailFits(w)
BY DEF Same, TabFits, DetailFits, OfDetail

\* The view on top is replaced by the same, loaded or moved in.
LEMMA StackPutDetail ==
    ASSUME NEW a, NEW ts, NEW ds, Stack(a, ts, ds), ds # <<>>,
           NEW v, ViewOK(v), Same(v, Top(a, ts, ds)),
           NEW e, Put(e, ds, Len(ds), v)
    PROVE  /\ Stack(a, ts, e) /\ Top(a, ts, e) = v /\ Len(e) = Len(ds) /\ e # <<>>
           /\ \A j \in 1..Len(ds) : e[j].parent = ds[j].parent
<1> DEFINE n == Len(ds)
<1>0. v \in Views /\ e = [ds EXCEPT ![n] = v]
  BY DEF ViewOK, Put
<1>1. ds \in Seq(Views) /\ n \in Nat /\ n > 0 /\ DOMAIN ds = 1..n /\ n \in 1..n /\ 1 \in 1..n /\ Last(ds) = ds[n]
  BY LastIs DEF Stack
<1> HIDE DEF n
<1>2. e \in Seq(Views) /\ Len(e) = n /\ e[n] = v /\ e # <<>> /\ \A j \in 1..n : j # n => e[j] = ds[j]
  BY <1>1, <1>0
<1>3. Last(e) = v
  BY <1>2 DEF Last
<1>4. \A j \in 1..n : Same(e[j], ds[j]) /\ DetailFits(e[j])
  <2>1. Same(v, ds[n]) /\ DetailFits(ds[n])
    BY TopIsView DEF n
  <2>2. DetailFits(v)
    BY <2>1, SameFits
  <2>3. \A j \in 1..n : DetailFits(ds[j])
    BY DEF Stack, n
  <2>4. \A j \in 1..n : Same(ds[j], ds[j])
    BY DEF Same
  <2> QED BY <1>2, <2>1, <2>2, <2>3, <2>4
<1>5. \A j \in 1..n : e[j].parent = ds[j].parent /\ e[j].of = ds[j].of /\ e[j].shows = ds[j].shows /\ e[j].from = ds[j].from
  BY <1>4 DEF Same
<1>6. e[1].from = a /\ e[1].of = a
  BY <1>1, <1>5 DEF Stack
<1>7. \A j \in 2..n : e[j].of = e[j - 1].shows /\ <<e[j].parent, e[j - 1].parent>> \in Refers
  <2>1. \A j \in 2..n : j \in 1..n /\ j - 1 \in 1..n
    BY <1>1
  <2>2. \A j \in 2..n : ds[j].of = ds[j - 1].shows /\ <<ds[j].parent, ds[j - 1].parent>> \in Refers
    BY DEF Stack, n
  <2> QED BY <2>1, <2>2, <1>5
<1>8. Stack(a, ts, e)
  BY <1>2, <1>4, <1>6, <1>7 DEF Stack
<1>9. Top(a, ts, e) = v
  BY <1>2, <1>3 DEF Top
<1> QED BY <1>2, <1>5, <1>8, <1>9 DEF n

LEMMA StackPutTab ==
    ASSUME NEW a, NEW ts, NEW ds, Stack(a, ts, ds), ds = <<>>,
           NEW v, ViewOK(v), Same(v, Top(a, ts, ds)),
           NEW t, Put(t, ts, a, v)
    PROVE  Stack(a, t, ds) /\ Top(a, t, ds) = v
<1>1. v \in Views
  BY DEF ViewOK
<1>2. a \in ToSet(Tabs) /\ ts \in [ToSet(Tabs) -> Views] /\ TabFits(a, v)
  <2>1. TabFits(a, ts[a]) /\ Same(v, ts[a])
    BY TopIsView
  <2> QED BY <2>1, SameFits DEF Stack
<1>3. t \in [ToSet(Tabs) -> Views] /\ t[a] = v /\ \A k \in ToSet(Tabs) : k # a => t[k] = ts[k]
  BY <1>1, <1>2 DEF Put
<1>4. \A k \in ToSet(Tabs) : TabFits(k, t[k])
  BY <1>2, <1>3 DEF Stack
<1>5. Stack(a, t, ds)
  BY <1>3, <1>4 DEF Stack
<1>6. Top(a, t, ds) = v
  BY <1>3 DEF Top
<1> QED BY <1>5, <1>6

\* A drilldown of a row of the list on the screen
LEMMA StackPush ==
    ASSUME NEW a, NEW ts, NEW ds, Stack(a, ts, ds),
           NEW v, DetailFits(v), v.from = a, v.of = Top(a, ts, ds).shows,
           ds # <<>> => <<v.parent, Top(a, ts, ds).parent>> \in Refers
    PROVE  LET e == Append(ds, v)
           IN  /\ Stack(a, ts, e) /\ Top(a, ts, e) = v /\ Len(e) = Len(ds) + 1 /\ e[Len(ds) + 1] = v
               /\ \A j \in 1..Len(ds) : e[j] = ds[j]
<1> DEFINE n == Len(ds)
           e == Append(ds, v)
<1>1. ds \in Seq(Views) /\ v \in Views /\ n \in Nat
  BY DEF Stack, DetailFits, ViewOK
<1> HIDE DEF n
<1>10. e \in Seq(Views) /\ Len(e) = n + 1 /\ e[n + 1] = v /\ \A j \in 1..n : e[j] = ds[j]
  BY <1>1 DEF n
<1> HIDE DEF e
<1>2. e \in Seq(Views) /\ Len(e) = n + 1 /\ e[n + 1] = v /\ e # <<>> /\ \A j \in 1..n : e[j] = ds[j]
  BY <1>1, <1>10
<1>3. Last(e) = v
  BY <1>2 DEF Last
<1>4. \A j \in 1..(n + 1) : j = n + 1 \/ j \in 1..n
  BY <1>1
<1>5. \A j \in 1..(n + 1) : DetailFits(e[j])
  <2>1. \A j \in 1..n : DetailFits(ds[j])
    BY DEF Stack, n
  <2> QED BY <2>1, <1>2, <1>4
<1>6. e[1].from = a /\ e[1].of = a
  <2>1. CASE ds = <<>>
    <3>1. n = 0 /\ Top(a, ts, ds) = ts[a] /\ TabFits(a, ts[a])
      BY <2>1, TopIsView DEF n
    <3>2. e[1] = v
      BY <3>1, <1>2
    <3> QED BY <3>1, <3>2 DEF TabFits
  <2>2. CASE ds # <<>>
    <3>1. 1 \in 1..n /\ ds[1].from = a /\ ds[1].of = a
      BY <2>2, <1>1, LastIs DEF Stack, n
    <3> QED BY <3>1, <1>2
  <2> QED BY <2>1, <2>2
<1>7. \A j \in 2..(n + 1) : e[j].of = e[j - 1].shows /\ <<e[j].parent, e[j - 1].parent>> \in Refers
  <2> SUFFICES ASSUME NEW j \in 2..(n + 1)
               PROVE  e[j].of = e[j - 1].shows /\ <<e[j].parent, e[j - 1].parent>> \in Refers
    OBVIOUS
  <2>1. CASE j = n + 1
    <3>1. n \in 1..n /\ j - 1 = n /\ e[j - 1] = ds[n] /\ e[j] = v
      BY <2>1, <1>1, <1>2
    <3>2. ds # <<>>
      BY <3>1, <1>1 DEF n
    <3>3. Top(a, ts, ds) = ds[n]
      BY <3>2, TopIsView DEF n
    <3> QED BY <3>1, <3>2, <3>3
  <2>2. CASE j # n + 1
    <3>1. j \in 2..n /\ j \in 1..n /\ j - 1 \in 1..n
      BY <2>2, <1>1
    <3>2. ds[j].of = ds[j - 1].shows /\ <<ds[j].parent, ds[j - 1].parent>> \in Refers
      BY <3>1 DEF Stack, n
    <3> QED BY <3>1, <3>2, <1>2
  <2> QED BY <2>1, <2>2
<1>8. Stack(a, ts, e)
  BY <1>2, <1>5, <1>6, <1>7 DEF Stack
<1>9. Top(a, ts, e) = v
  BY <1>2, <1>3 DEF Top
<1> QED BY <1>2, <1>8, <1>9 DEF e, n

\* The drilldown on top is taken off, and the one below it put again.
LEMMA StackPop ==
    ASSUME NEW a, NEW ts, NEW ds, Stack(a, ts, ds), Len(ds) > 1,
           NEW v, ViewOK(v), Same(v, ds[Len(ds) - 1]),
           NEW e, Put(e, Front(ds), Len(ds) - 1, v)
    PROVE  /\ Stack(a, ts, e) /\ Top(a, ts, e) = v /\ Len(e) = Len(ds) - 1
           /\ \A j \in 1..Len(e) : e[j].parent = ds[j].parent
<1> DEFINE n == Len(ds)
           f == Front(ds)
           m == n - 1
<1>1. ds \in Seq(Views) /\ n \in Nat /\ m \in Nat /\ m > 0 /\ m < n
  BY DEF Stack
<1>2. f \in Seq(Views) /\ Len(f) = m /\ \A j \in 1..m : f[j] = ds[j]
  BY <1>1 DEF Front
<1> HIDE DEF f, n
<1>3. m \in 1..m /\ 1 \in 1..m /\ f # <<>> /\ \A j \in 1..m : j \in 1..n
  BY <1>1, <1>2
<1>4. Stack(a, ts, f)
  <2>1. \A j \in 1..m : DetailFits(f[j])
    BY <1>2, <1>3 DEF Stack, n
  <2>2. f[1].from = a /\ f[1].of = a
    <3>1. ds # <<>>
      BY <1>1 DEF n
    <3> QED BY <3>1, <1>2, <1>3 DEF Stack
  <2>3. \A j \in 2..m : f[j].of = f[j - 1].shows /\ <<f[j].parent, f[j - 1].parent>> \in Refers
    <3>1. \A j \in 2..m : j \in 1..m /\ j - 1 \in 1..m /\ j \in 2..n
      BY <1>1
    <3>2. \A j \in 2..n : ds[j].of = ds[j - 1].shows /\ <<ds[j].parent, ds[j - 1].parent>> \in Refers
      BY DEF Stack, n
    <3> QED BY <3>1, <3>2, <1>2
  <2>4. a \in ToSet(Tabs) /\ ts \in [ToSet(Tabs) -> Views] /\ \A k \in ToSet(Tabs) : TabFits(k, ts[k])
    BY DEF Stack
  <2>5. f \in Seq(Views) /\ \A j \in 1..Len(f) : DetailFits(f[j])
    BY <1>2, <2>1
  <2>6. \A j \in 2..Len(f) : f[j].of = f[j - 1].shows /\ <<f[j].parent, f[j - 1].parent>> \in Refers
    BY <1>2, <2>3
  <2> QED BY <2>2, <2>4, <2>5, <2>6 DEF Stack
<1>5. Top(a, ts, f) = f[m] /\ f[m] = ds[m]
  BY <1>2, <1>3, <1>4, TopIsView
<1>6. Same(v, Top(a, ts, f))
  BY <1>5 DEF n
<1>7. Put(e, f, Len(f), v)
  BY <1>2 DEF f, n
<1>8. Stack(a, ts, e) /\ Top(a, ts, e) = v /\ Len(e) = Len(f) /\ \A j \in 1..Len(f) : e[j].parent = f[j].parent
  <2> HIDE DEF m
  <2> QED BY <1>3, <1>4, <1>6, <1>7, StackPutDetail
<1>9. \A j \in 1..Len(e) : e[j].parent = ds[j].parent
  BY <1>2, <1>8
<1> QED BY <1>2, <1>8, <1>9 DEF n

\* The stack without its drilldowns, over any tabs
LEMMA StackBottom ==
    ASSUME NEW a, NEW ts, NEW ds, Stack(a, ts, ds), NEW k \in ToSet(Tabs),
           NEW us \in [ToSet(Tabs) -> Views], \A x \in ToSet(Tabs) : TabFits(x, us[x])
    PROVE  Stack(k, us, <<>>) /\ Top(k, us, <<>>) = us[k]
BY DEF Stack, Top

-----------------------------------------------------------------------------
(***************************************************************************)
(* Navigation: the dashboard.                                              *)
(***************************************************************************)

Joins(q, n, F) == F = [i \in 1..n |-> IF i = 1 THEN q[i] ELSE F[i - 1] \o q[i]]

LEMMA JoinsExists ==
    ASSUME NEW q, NEW n \in Nat
    PROVE  \E F : Joins(q, n, F)
<1> DEFINE T == {m \in Nat : \E F : Joins(q, m, F)}
<1>1. 0 \in T
  <2> DEFINE F == [i \in 1..0 |-> <<>>]
  <2>1. F = [i \in 1..0 |-> F[i]] /\ \A i \in 1..0 : FALSE
    OBVIOUS
  <2> HIDE DEF F
  <2>2. F = [i \in 1..0 |-> IF i = 1 THEN q[i] ELSE F[i - 1] \o q[i]]
    BY <2>1
  <2> QED BY <2>2 DEF Joins
<1>2. ASSUME NEW m \in Nat, m \in T PROVE m + 1 \in T
  <2>1. PICK F : Joins(q, m, F)
    BY <1>2
  <2>2. \A i \in 1..m : F[i] = IF i = 1 THEN q[i] ELSE F[i - 1] \o q[i]
    BY <2>1 DEF Joins
  <2> DEFINE last == IF m = 0 THEN q[m + 1] ELSE F[m] \o q[m + 1]
             G == [i \in 1..(m + 1) |-> IF i = m + 1 THEN last ELSE F[i]]
  <2>3. G = [i \in 1..(m + 1) |-> G[i]] /\ G[m + 1] = last /\ \A i \in 1..m : G[i] = F[i]
    <3>1. m + 1 \in 1..(m + 1) /\ \A i \in 1..m : i \in 1..(m + 1) /\ i # m + 1
      OBVIOUS
    <3> HIDE DEF last
    <3> QED BY <3>1
  <2> HIDE DEF G
  <2>4. ASSUME NEW i \in 1..(m + 1)
        PROVE  G[i] = IF i = 1 THEN q[i] ELSE G[i - 1] \o q[i]
    <3>1. CASE i = m + 1
      <4>1. i - 1 = m /\ (i = 1 <=> m = 0) /\ (m # 0 => m \in 1..m)
        BY <3>1
      <4> QED BY <3>1, <4>1, <2>3
    <3>2. CASE i # m + 1
      <4>1. i \in 1..m /\ (i # 1 => i - 1 \in 1..m)
        BY <3>2
      <4> HIDE DEF last
      <4> QED BY <2>2, <2>3, <4>1
    <3> QED BY <3>1, <3>2
  <2>5. G = [i \in 1..(m + 1) |-> IF i = 1 THEN q[i] ELSE G[i - 1] \o q[i]]
    BY <2>3, <2>4
  <2>6. Joins(q, m + 1, G)
    BY <2>5 DEF Joins
  <2> QED BY <2>6
<1>3. Nat \subseteq T
  BY <1>1, <1>2, Inductively
<1> QED BY <1>3

LEMMA FlattenIs ==
    ASSUME NEW X, NEW q \in Seq(Seq(X))
    PROVE  FlattenSeq(q) \in Seq(X)
<1>1. Len(q) \in Nat /\ \A i \in 1..Len(q) : q[i] \in Seq(X)
  <2> DEFINE Y == Seq(X)
  <2>1. q \in Seq(Y)
    OBVIOUS
  <2> HIDE DEF Y
  <2>2. Len(q) \in Nat /\ \A i \in 1..Len(q) : q[i] \in Y
    BY <2>1
  <2> QED BY <2>2 DEF Y
<1>2. CASE Len(q) = 0
  <2>1. FlattenSeq(q) = q /\ q = <<>>
    BY <1>2 DEF FlattenSeq
  <2> QED BY <2>1
<1>3. CASE Len(q) # 0
  <2> DEFINE F == CHOOSE F : Joins(q, Len(q), F)
  <2>1. Joins(q, Len(q), F)
    BY <1>1, JoinsExists
  <2>2. FlattenSeq(q) = F[Len(q)]
    BY <1>3 DEF FlattenSeq, Joins
  <2>3. \A i \in 1..Len(q) : F[i] = IF i = 1 THEN q[i] ELSE F[i - 1] \o q[i]
    <3> HIDE DEF F
    <3> QED BY <2>1 DEF Joins
  <2> HIDE DEF F
  <2> DEFINE T == {n \in Nat : n \in 1..Len(q) => F[n] \in Seq(X)}
  <2>4. 0 \in T
    OBVIOUS
  <2>5. ASSUME NEW n \in Nat, n \in T PROVE n + 1 \in T
    <3> SUFFICES ASSUME n + 1 \in 1..Len(q) PROVE F[n + 1] \in Seq(X)
      OBVIOUS
    <3>1. CASE n = 0
      <4>1. F[1] = q[1] /\ 1 \in 1..Len(q)
        BY <3>1, <2>3
      <4> QED BY <4>1, <3>1, <1>1
    <3>2. CASE n # 0
      <4>1. n \in 1..Len(q) /\ n + 1 # 1 /\ (n + 1) - 1 = n
        BY <3>2, <1>1
      <4>2. F[n + 1] = F[n] \o q[n + 1]
        BY <4>1, <2>3
      <4>3. F[n] \in Seq(X) /\ q[n + 1] \in Seq(X)
        BY <4>1, <2>5, <1>1
      <4> QED BY <4>2, <4>3, ConcatProperties
    <3> QED BY <3>1, <3>2
  <2>6. Nat \subseteq T
    <3> HIDE DEF T
    <3> QED BY <2>4, <2>5, Inductively
  <2>7. Len(q) \in T /\ Len(q) \in 1..Len(q)
    BY <2>6, <1>1, <1>3
  <2> QED BY <2>2, <2>7
<1> QED BY <1>2, <1>3

\* An entry of the dashboard is a header, or a row of the section's kind.
DashEntries ==
    {e \in [section : ToSet(Sections), id : Ids] : e.id # None => e.id \in Rows /\ KindOf[e.id] = e.section}

Entry(k, id) == [section |-> k, id |-> id]

Part(data, opened, k) ==
    LET of == Only(data, {r \in Rows : KindOf[r] = k})
    IN  IF of = <<>> THEN <<>>
        ELSE IF k \notin opened THEN <<Entry(k, None)>>
        ELSE <<Entry(k, None)>> \o [i \in DOMAIN of |-> Entry(k, of[i])]

LEMMA NavParts ==
    ASSUME NEW data, NEW opened
    PROVE  NavOf(data, opened) = FlattenSeq([i \in DOMAIN Sections |-> Part(data, opened, Sections[i])])
BY DEF NavOf, Part, Entry

LEMMA PartIs ==
    ASSUME NEW data \in Seq(Rows), NEW opened, NEW k \in ToSet(Sections)
    PROVE  Part(data, opened, k) \in Seq(DashEntries)
<1> DEFINE S == {r \in Rows : KindOf[r] = k}
           of == Only(data, S)
           head == <<Entry(k, None)>>
           rest_ == [i \in DOMAIN of |-> Entry(k, of[i])]
<1>1. of \in Seq(Rows) /\ \A i \in DOMAIN of : of[i] \in S
  <2> HIDE DEF S
  <2> QED BY OnlyIs
<1>2. Len(of) \in Nat /\ DOMAIN of = 1..Len(of) /\ \A i \in 1..Len(of) : of[i] \in Rows /\ KindOf[of[i]] = k
  <2>1. \A i \in DOMAIN of : of[i] \in Rows /\ KindOf[of[i]] = k
    BY <1>1
  <2> HIDE DEF of
  <2> QED BY <1>1, <2>1
<1>3. Entry(k, None) \in DashEntries
  BY DEF Entry, DashEntries, Ids
<1>4. \A i \in 1..Len(of) : Entry(k, of[i]) \in DashEntries
  <2> HIDE DEF of
  <2> QED BY <1>2 DEF Entry, DashEntries, Ids
<1>5. head \in Seq(DashEntries)
  BY <1>3
<1>6. rest_ \in Seq(DashEntries)
  <2> HIDE DEF of
  <2> QED BY <1>2, <1>4
<1>7. head \o rest_ \in Seq(DashEntries)
  <2> HIDE DEF head, rest_
  <2> QED BY <1>5, <1>6, ConcatProperties
<1>8. <<>> \in Seq(DashEntries)
  OBVIOUS
<1>9. Part(data, opened, k) \in {<<>>, head, head \o rest_}
  BY DEF Part
<1> HIDE DEF head, rest_
<1> QED BY <1>5, <1>7, <1>8, <1>9

LEMMA NavIs ==
    ASSUME NEW data \in Seq(Rows), NEW opened
    PROVE  NavOf(data, opened) \in Seq(DashEntries)
<1> DEFINE q == [i \in DOMAIN Sections |-> Part(data, opened, Sections[i])]
           Y == Seq(DashEntries)
<1>1. \A i \in DOMAIN Sections : Part(data, opened, Sections[i]) \in Y
  BY PartIs DEF ToSet
<1>2. Len(Sections) \in Nat /\ DOMAIN Sections = 1..Len(Sections)
  BY NavigationAssumption
<1>3. q \in Seq(Y)
  <2> HIDE DEF Y
  <2> QED BY <1>1, <1>2
<1>4. q \in Seq(Seq(DashEntries))
  BY <1>3
<1> HIDE DEF q
<1>5. FlattenSeq(q) \in Seq(DashEntries)
  BY <1>4, FlattenIs
<1> QED BY <1>5, NavParts DEF q

Dashes == [on : BOOLEAN, data : Seq(Rows), nav : Seq(DashEntries), cur : Nat, open : SUBSET ToSet(Sections)]

\* The dashboard's cursor is on an entry, if there is one.
DashOK(d) == d \in Dashes /\ d.cur \in 0..Len(d.nav) /\ (d.nav # <<>> => d.cur \in DOMAIN d.nav)

LEMMA IndexedIs ==
    ASSUME NEW d, d.on \in BOOLEAN, d.data \in Seq(Rows), d.cur \in Nat, d.open \in SUBSET ToSet(Sections),
           d = [on |-> d.on, data |-> d.data, nav |-> d.nav, cur |-> d.cur, open |-> d.open]
    PROVE  DashOK(Indexed(d))
<1> DEFINE nav == NavOf(d.data, d.open)
           c == Clamp(d.cur, Len(nav))
           e == Indexed(d)
<1>1. nav \in Seq(DashEntries)
  BY NavIs
<1>2. e = [d EXCEPT !.nav = nav, !.cur = c]
  BY DEF Indexed
<1> HIDE DEF nav
<1>3. Len(nav) \in Nat /\ DOMAIN nav = 1..Len(nav) /\ (nav # <<>> => Len(nav) # 0)
  BY <1>1
<1>4. c \in Nat /\ c \in 0..Len(nav) /\ (nav # <<>> => c \in 1..Len(nav))
  BY <1>3 DEF Clamp
<1> HIDE DEF c
<1>5. e = [on |-> d.on, data |-> d.data, nav |-> nav, cur |-> c, open |-> d.open]
  BY <1>2
<1> HIDE DEF e
<1> QED
  <2>1. e \in Dashes /\ e.nav = nav /\ e.cur = c
    BY <1>1, <1>4, <1>5 DEF Dashes
  <2> QED BY <1>3, <1>4, <2>1 DEF DashOK, e

LEMMA DashRowsAre ==
    ASSUME NEW s, NEW o \in Seq(Rows)
    PROVE  DashRows(s, o) \in Seq(Rows)
<1> DEFINE S == {r \in Rows : s[r] = "live" /\ KindOf[r] \in ToSet(Sections)}
<1>1. Only(o, S) \in Seq(Rows)
  <2> HIDE DEF S
  <2> QED BY OnlyIs
<1> QED BY <1>1 DEF DashRows

LEMMA DashOffIs == DashOK(DashOff)
BY DEF DashOff, DashOK, Dashes

LEMMA LoadDashIs ==
    ASSUME NEW on \in BOOLEAN, NEW data, NEW nav, NEW cur \in Nat, NEW op \in SUBSET ToSet(Sections),
           NEW s, NEW o \in Seq(Rows),
           NEW d, d = [on |-> on, data |-> data, nav |-> nav, cur |-> cur, open |-> op]
    PROVE  DashOK(LoadDash(d, s, o))
<1> DEFINE loaded == DashRows(s, o)
           e == [d EXCEPT !.data = loaded]
<1>1. loaded \in Seq(Rows)
  BY DashRowsAre
<1>2. LoadDash(d, s, o) = Indexed(e)
  BY DEF LoadDash
<1> HIDE DEF loaded
<1>3. e = [on |-> on, data |-> loaded, nav |-> nav, cur |-> cur, open |-> op]
  OBVIOUS
<1> HIDE DEF e
<1>4. DashOK(Indexed(e))
  BY <1>1, <1>3, IndexedIs
<1> QED BY <1>2, <1>4

-----------------------------------------------------------------------------
(***************************************************************************)
(* Navigation: the order of the store's rows.                              *)
(***************************************************************************)

LEMMA FirstOrder == Complete(SetToSeq(Rows))
<1> DEFINE n == Cardinality(Rows)
           o == SetToSeq(Rows)
<1>1. IsFiniteSet(Rows) /\ n \in Nat
  BY NavigationAssumption, FS_CardinalityType
<1>2. ExistsBijection(1..n, Rows)
  BY <1>1, FS_CardinalityType
<1>3. \E f \in [1..n -> Rows] : IsInjective(f)
  <2>1. PICK f : f \in Bijection(1..n, Rows)
    BY <1>2 DEF ExistsBijection
  <2>2. f \in [1..n -> Rows] /\ \A a, b \in 1..n : f[a] = f[b] => a = b
    BY <2>1 DEF Bijection, Injection, IsInjective
  <2> QED BY <2>2 DEF IsInjective
<1>4. o \in [1..n -> Rows] /\ IsInjective(o)
  BY <1>3 DEF SetToSeq
<1> HIDE DEF o
<1>5. o \in Injection(1..n, Rows)
  BY <1>4 DEF Injection
<1>6. IsFiniteSet(1..n) /\ Cardinality(1..n) = n
  <2> HIDE DEF n
  <2> QED BY <1>1, FS_Interval
<1>7. o \in Surjection(1..n, Rows)
  BY <1>1, <1>5, <1>6, FS_Injection
<1>8. \A r \in Rows : \E i \in 1..n : o[i] = r
  BY <1>7 DEF Surjection
<1>9. o \in Seq(Rows) /\ DOMAIN o = 1..n
  <2> HIDE DEF n
  <2> QED BY <1>1, <1>4
<1> QED BY <1>8, <1>9 DEF Complete, o

\* Rows that are moved to the front are all still there.
LEMMA ToFrontIs ==
    ASSUME NEW o, Complete(o), NEW xs
    PROVE  Complete(ToFront(o, xs))
<1> DEFINE p == Only(o, xs)
           q == Only(o, Rows \ xs)
           t == ToFront(o, xs)
<1>0. o \in Seq(Rows)
  BY DEF Complete
<1>1. o \in Seq(Rows) /\ Len(o) \in Nat /\ DOMAIN o = 1..Len(o) /\ \A r \in Rows : \E i \in DOMAIN o : o[i] = r
  BY DEF Complete
<1>2. p \in Seq(Rows) /\ \A j \in DOMAIN o : o[j] \in xs => \E i \in DOMAIN p : p[i] = o[j]
  BY <1>0, OnlyIs
<1>3. q \in Seq(Rows) /\ \A j \in DOMAIN o : o[j] \in Rows \ xs => \E i \in DOMAIN q : q[i] = o[j]
  <2> DEFINE ys == Rows \ xs
  <2> HIDE DEF ys
  <2>1. Only(o, ys) \in Seq(Rows) /\ \A j \in DOMAIN o : o[j] \in ys => \E i \in DOMAIN Only(o, ys) : Only(o, ys)[i] = o[j]
    BY <1>0, OnlyIs
  <2> QED BY <2>1 DEF ys
<1>4. t = p \o q
  BY DEF ToFront
<1> HIDE DEF p, q, t
<1>5. /\ Len(p) \in Nat /\ Len(q) \in Nat /\ DOMAIN p = 1..Len(p) /\ DOMAIN q = 1..Len(q)
      /\ t \in Seq(Rows) /\ Len(t) = Len(p) + Len(q) /\ DOMAIN t = 1..(Len(p) + Len(q))
  BY <1>2, <1>3, <1>4, ConcatProperties
<1>6. /\ \A i \in 1..Len(p) : t[i] = p[i]
      /\ \A i \in 1..Len(q) : t[Len(p) + i] = q[i]
  BY <1>2, <1>3, <1>4, <1>5
<1>7. \A i \in 1..Len(p) : i \in DOMAIN t
  BY <1>5
<1>8. \A i \in 1..Len(q) : Len(p) + i \in DOMAIN t
  BY <1>5
<1>9. ASSUME NEW r \in Rows PROVE \E i \in DOMAIN t : t[i] = r
  <2>1. PICK j \in DOMAIN o : o[j] = r
    BY <1>1
  <2>2. CASE r \in xs
    <3>1. PICK i \in DOMAIN p : p[i] = r
      BY <2>1, <2>2, <1>2
    <3> QED BY <3>1, <1>5, <1>6, <1>7
  <2>3. CASE r \notin xs
    <3>1. PICK i \in DOMAIN q : q[i] = r
      BY <2>1, <2>3, <1>3
    <3>2. Len(p) + i \in DOMAIN t /\ t[Len(p) + i] = r
      BY <3>1, <1>5, <1>6, <1>8
    <3> QED BY <3>2
  <2> QED BY <2>2, <2>3
<1> QED BY <1>5, <1>9 DEF Complete, t

LEMMA ServicedIs ==
    ASSUME NEW s, NEW o, Complete(o), NEW r
    PROVE  Complete(Serviced(s, o, r))
BY ToFrontIs DEF Serviced

-----------------------------------------------------------------------------
(***************************************************************************)
(* Navigation: what is on the screen.                                      *)
(***************************************************************************)

Fresh(v, s, o) == ~v.unread => v.list = ListOf(v, s, o)

UnderIt(v) == IF v.cur = 0 THEN None ELSE v.rows[v.cur].id

Landed(v, g, s) == g # None /\ s[g] = "live" /\ ~v.unread /\ g \notin v.hides => UnderIt(v) = g

\* The parents of the drilldowns are there.
ParentsThere(ds, s) == \A j \in 1..Len(ds) : s[ds[j].parent] # "gone"

ScreenOK(a, ts, ds, s, o, g) ==
    /\ Stack(a, ts, ds) /\ ParentsThere(ds, s)
    /\ Fresh(Top(a, ts, ds), s, o) /\ Landed(Top(a, ts, ds), g, s)

LEMMA FreshSame ==
    ASSUME NEW v, NEW w, NEW s, NEW o, Fresh(v, s, o), Same(w, v),
           w.show = v.show, w.list = v.list, w.unread = v.unread
    PROVE  Fresh(w, s, o)
<1>1. ListOf(w, s, o) = ListOf(v, s, o)
  BY ListDepends DEF Same
<1> QED BY <1>1 DEF Fresh

LEMMA SameTrans ==
    ASSUME NEW u, NEW v, NEW w, Same(w, v), Same(v, u)
    PROVE  Same(w, u)
BY DEF Same

LEMMA NoGoal == \A v, s : Landed(v, None, s)
BY DEF Landed

\* What SetEffective does
PutTop(a, ts, ds, v, us, es) ==
    /\ ds # <<>> => Put(es, ds, Len(ds), v) /\ us = ts
    /\ ds = <<>> => Put(us, ts, a, v) /\ es = ds

\* The view on top is put again, over other rows maybe.
LEMMA PutScreen ==
    ASSUME NEW a, NEW ts, NEW ds, Stack(a, ts, ds),
           NEW v, ViewOK(v), Same(v, Top(a, ts, ds)), NEW us, NEW es, PutTop(a, ts, ds, v, us, es),
           NEW s, NEW o, NEW g, Fresh(v, s, o), Landed(v, g, s), ParentsThere(ds, s)
    PROVE  /\ ScreenOK(a, us, es, s, o, g) /\ Top(a, us, es) = v
           /\ es = <<>> <=> ds = <<>>
<1>1. CASE ds # <<>>
  <2>1. Put(es, ds, Len(ds), v) /\ us = ts
    BY <1>1 DEF PutTop
  <2>2. /\ Stack(a, ts, es) /\ Top(a, ts, es) = v /\ Len(es) = Len(ds) /\ es # <<>>
        /\ \A j \in 1..Len(ds) : es[j].parent = ds[j].parent
    BY <1>1, <2>1, StackPutDetail
  <2>3. ParentsThere(es, s)
    BY <2>2 DEF ParentsThere
  <2> QED BY <1>1, <2>1, <2>2, <2>3 DEF ScreenOK
<1>2. CASE ds = <<>>
  <2>1. Put(us, ts, a, v) /\ es = ds
    BY <1>2 DEF PutTop
  <2>2. Stack(a, us, ds) /\ Top(a, us, ds) = v
    BY <1>2, <2>1, StackPutTab
  <2> QED BY <1>2, <2>1, <2>2 DEF ScreenOK
<1> QED BY <1>1, <1>2

\* A tab is put for another of the same, and the rest left alone.
LEMMA TabPut ==
    ASSUME NEW ts \in [ToSet(Tabs) -> Views], \A x \in ToSet(Tabs) : TabFits(x, ts[x]),
           NEW k \in ToSet(Tabs), NEW v, ViewOK(v), Same(v, ts[k]), NEW us, Put(us, ts, k, v)
    PROVE  us \in [ToSet(Tabs) -> Views] /\ (\A x \in ToSet(Tabs) : TabFits(x, us[x])) /\ us[k] = v
<1>1. v \in Views
  BY DEF ViewOK
<1>2. us \in [ToSet(Tabs) -> Views] /\ us[k] = v /\ \A x \in ToSet(Tabs) : x # k => us[x] = ts[x]
  BY <1>1 DEF Put
<1>3. TabFits(k, v)
  BY SameFits
<1> QED BY <1>2, <1>3

LEMMA BottomScreen ==
    ASSUME NEW a, NEW ts, NEW ds, Stack(a, ts, ds), NEW k \in ToSet(Tabs),
           NEW us \in [ToSet(Tabs) -> Views], \A x \in ToSet(Tabs) : TabFits(x, us[x]),
           NEW s, NEW o, NEW g, Fresh(us[k], s, o), Landed(us[k], g, s)
    PROVE  ScreenOK(k, us, <<>>, s, o, g) /\ Top(k, us, <<>>) = us[k]
<1>1. Stack(k, us, <<>>) /\ Top(k, us, <<>>) = us[k]
  BY StackBottom
<1>2. ParentsThere(<<>>, s)
  BY DEF ParentsThere
<1> QED BY <1>1, <1>2 DEF ScreenOK

\* A view that is loaded and then has a row selected shows what the store
\* holds, and the cursor is on the row if it is alive, of this list and not kept off.
LEMMA LandIs ==
    ASSUME NEW v \in Views, NEW s, NEW o, Complete(o), NEW id \in Rows, NEW w, w = SelectRow(Reloaded(v, s, o), id)
    PROVE  /\ ViewOK(w) /\ Same(w, v) /\ w.unread = FALSE /\ Fresh(w, s, o)
           /\ KindOf[id] = v.shows /\ (v.parent # None => v.parent \in Rows /\ <<id, v.parent>> \in Refers /\ s[v.parent] # "gone")
              => Landed(w, id, s)
<1> DEFINE u == Reloaded(v, s, o)
<1>1. o \in Seq(Rows)
  BY DEF Complete
<1>2. /\ ViewOK(u) /\ Same(u, v) /\ u.unread = FALSE /\ u.list = ListOf(u, s, o) /\ u.hides = v.hides
      /\ \A r \in Listed(v, s) : r \notin v.hides => \E i \in DOMAIN u.rows : u.rows[i].id = r
  <2>1. IsLoaded(u, v, s, o)
    BY <1>1, ReloadedIs
  <2> HIDE DEF u
  <2> QED BY <2>1 DEF IsLoaded
<1> HIDE DEF u
<1>3. w = SelectRow(u, id)
  BY DEF u
<1>4. /\ ViewOK(w) /\ Same(w, u) /\ w.show = u.show /\ w.unread = u.unread
      /\ w.list = u.list /\ w.rows = u.rows /\ w.hides = u.hides
      /\ (\E i \in DOMAIN u.rows : u.rows[i].id = id) => w.cur \in DOMAIN u.rows /\ u.rows[w.cur].id = id
  BY <1>2, <1>3, SelectIs
<1>5. Fresh(u, s, o)
  BY <1>2 DEF Fresh
<1>6. Fresh(w, s, o)
  BY <1>4, <1>5, FreshSame
<1>7. ASSUME KindOf[id] = v.shows, s[id] = "live", id \notin w.hides,
             v.parent # None => v.parent \in Rows /\ <<id, v.parent>> \in Refers /\ s[v.parent] # "gone"
      PROVE  UnderIt(w) = id
  <2>1. id \in Listed(v, s)
    BY <1>7 DEF Listed, RefersIn
  <2>2. w.cur \in DOMAIN u.rows /\ u.rows[w.cur].id = id
    BY <2>1, <1>2, <1>4, <1>7
  <2>3. DOMAIN u.rows = 1..Len(u.rows) /\ Len(u.rows) \in Nat
    BY <1>2, ViewIs DEF ViewOK
  <2>4. w.cur # 0
    BY <2>2, <2>3
  <2> QED BY <2>2, <2>4, <1>4 DEF UnderIt
<1>8. Same(w, v)
  BY <1>2, <1>4, SameTrans
<1> QED BY <1>2, <1>4, <1>6, <1>7, <1>8 DEF Landed

\* Whatever is under the cursor belongs to the view.
LEMMA UnderItIs ==
    ASSUME NEW v, ViewOK(v)
    PROVE  /\ UnderIt(v) \in Ids
           /\ UnderIt(v) # None => /\ UnderIt(v) \in Rows /\ KindOf[UnderIt(v)] = v.shows
                                   /\ v.parent # None => <<UnderIt(v), v.parent>> \in Refers
           /\ v.cur # 0 => UnderIt(v) # None /\ v.cur \in DOMAIN v.rows /\ v.rows[v.cur] \in Entries
<1>1. /\ v.cur \in 0..Len(v.rows) /\ DOMAIN v.rows = 1..Len(v.rows) /\ Len(v.rows) \in Nat
      /\ \A i \in 1..Len(v.rows) : v.rows[i] \in Entries /\ v.rows[i].id \in Rows
  BY ViewIs DEF ViewOK
<1>2. CASE v.cur = 0
  BY <1>2 DEF UnderIt, Ids
<1>3. CASE v.cur # 0
  <2>1. v.cur \in 1..Len(v.rows)
    BY <1>1, <1>3
  <2>2. UnderIt(v) = v.rows[v.cur].id /\ UnderIt(v) \in Rows
    BY <1>1, <1>3, <2>1 DEF UnderIt
  <2>3. KindOf[UnderIt(v)] = v.shows /\ (v.parent # None => <<UnderIt(v), v.parent>> \in Refers)
    BY <1>1, <2>1, <2>2, RowsBelong
  <2> QED BY <2>1, <2>2, <2>3, <1>1, TabsAre DEF Ids
<1> QED BY <1>2, <1>3

LEMMA DefIs ==
    ASSUME NEW d \in Defs
    PROVE  d = Def(d.tab, d.of, d.shows) /\ d.tab \in Names /\ d.of \in Kinds /\ d.shows \in Names
<1>1. PICK i \in 1..12 : d = DetailRoutes[i].def
  BY DEF Defs
<1>2. i \in {1, 2, 3, 4, 5, 6, 7, 8, 9, 10, 11, 12}
  OBVIOUS
<1>3. CASE i \in {1, 2, 3, 4, 5, 6}
  BY <1>1, <1>3, RouteList DEF Def, Route, Kinds, Names
<1>4. CASE i \in {7, 8, 9, 10, 11, 12}
  BY <1>1, <1>4, RouteList DEF Def, Route, Kinds, Names
<1> QED BY <1>2, <1>3, <1>4

\* A view that is made is empty until it is loaded.
LEMMA MadeIs ==
    ASSUME NEW def, def.tab \in Names, def.of \in Names, def.shows \in Names, NEW parent \in Ids, NEW from \in Names
    PROVE  LET v == View(def, parent, from)
           IN  /\ v \in Views /\ v.tab = def.tab /\ v.of = def.of /\ v.shows = def.shows
               /\ v.parent = parent /\ v.from = from
<1> DEFINE none == <<>>
<1>1. none \in Seq(Entries)
  OBVIOUS
<1> HIDE DEF none
<1>2. View(def, parent, from) =
        [tab |-> def.tab, of |-> def.of, shows |-> def.shows, parent |-> parent, from |-> from,
         list |-> none, rows |-> none, hides |-> {}, cur |-> 0, show |-> FALSE, chosen |-> FALSE, unread |-> FALSE]
  BY DEF View, none
<1> QED BY <1>1, <1>2 DEF Views

-----------------------------------------------------------------------------
(***************************************************************************)
(* Navigation: the invariant. A question about an item or an incident is   *)
(* only asked in a tab: so no drilldown loses its parent for good. The     *)
(* document search is only over documents.                                 *)
(***************************************************************************)

Forms == [id : Ids, kind : Names, inline : BOOLEAN]

QuestionFits(p, ds) == p # None /\ KindOf[p] \in {"maintenance", "incident"} => ds = <<>>
SearchFits(on, v)   == on => v.shows = "document"

Seen(a, ts, ds, s, o, g, p, on) ==
    ScreenOK(a, ts, ds, s, o, g) /\ QuestionFits(p, ds) /\ SearchFits(on, Top(a, ts, ds))

RestOK ==
    /\ mode \in {"normal", "edit"} /\ form \in Forms /\ prompt \in Ids
    /\ DashOK(dash) /\ searching \in BOOLEAN /\ goal \in Ids /\ changes \in 0..MaxChanges

NavInv ==
    /\ status \in Statuses /\ Complete(order)
    /\ Seen(active, tabs, details, status, order, goal, prompt, searching)
    /\ RestOK

\* What the invariant says of the view on the screen and of the row under its cursor
LEMMA OnScreen ==
    ASSUME NavInv
    PROVE  /\ Effective = Top(active, tabs, details) /\ ViewOK(Effective) /\ Effective \in Views
           /\ Stack(active, tabs, details) /\ ParentsThere(details, status) /\ order \in Seq(Rows)
           /\ Fresh(Effective, status, order)
           /\ Selected.id = UnderIt(Effective) /\ Selected.id \in Ids
           /\ Selected.id # None => /\ Selected.id \in Rows /\ KindOf[Selected.id] = Effective.shows
                                    /\ Effective.parent # None => <<Selected.id, Effective.parent>> \in Refers
           /\ Selected.deleted => Selected.id # None
           /\ Selected.deleted \in BOOLEAN
<1>1. /\ Stack(active, tabs, details) /\ ParentsThere(details, status) /\ order \in Seq(Rows)
      /\ Fresh(Top(active, tabs, details), status, order)
  BY DEF NavInv, Seen, ScreenOK, Complete
<1>2. Effective = Top(active, tabs, details) /\ ViewOK(Effective) /\ Effective \in Views
  BY <1>1, EffectiveIsTop, TopIsView
<1>3. CASE Effective.cur = 0
  <2>1. Selected = [id |-> None, deleted |-> FALSE] /\ UnderIt(Effective) = None
    BY <1>3 DEF Selected, UnderIt
  <2>2. Selected.id = None /\ Selected.deleted = FALSE
    BY <2>1
  <2> QED BY <1>1, <1>2, <2>1, <2>2 DEF Ids
<1>4. CASE Effective.cur # 0
  <2>1. Selected = Effective.rows[Effective.cur] /\ Selected.id = UnderIt(Effective)
    BY <1>4 DEF Selected, UnderIt
  <2>2. /\ UnderIt(Effective) \in Ids /\ UnderIt(Effective) # None
        /\ UnderIt(Effective) \in Rows /\ KindOf[UnderIt(Effective)] = Effective.shows
        /\ Effective.parent # None => <<UnderIt(Effective), Effective.parent>> \in Refers
        /\ Selected \in Entries
    BY <1>2, <1>4, <2>1, UnderItIs
  <2>3. Selected.deleted \in BOOLEAN
    BY <2>2 DEF Entries
  <2> QED BY <1>1, <1>2, <2>1, <2>2, <2>3
<1> QED BY <1>3, <1>4

LEMMA PutSeen ==
    ASSUME NEW a, NEW ts, NEW ds, Stack(a, ts, ds),
           NEW v, ViewOK(v), Same(v, Top(a, ts, ds)), NEW us, NEW es, PutTop(a, ts, ds, v, us, es),
           NEW s, NEW o, NEW g, Fresh(v, s, o), Landed(v, g, s), ParentsThere(ds, s),
           NEW p, QuestionFits(p, ds), NEW on, SearchFits(on, Top(a, ts, ds))
    PROVE  Seen(a, us, es, s, o, g, p, on)
<1>2. ScreenOK(a, us, es, s, o, g) /\ Top(a, us, es) = v /\ (es = <<>> <=> ds = <<>>)
  BY PutScreen
<1>3. QuestionFits(p, es)
  BY <1>2 DEF QuestionFits
<1>4. SearchFits(on, v)
  BY DEF SearchFits, Same
<1> QED BY <1>2, <1>3, <1>4 DEF Seen

\* A view that stays as it was
LEMMA StaySeen ==
    ASSUME NavInv, NEW p, QuestionFits(p, details), NEW on, SearchFits(on, Effective)
    PROVE  Seen(active, tabs, details, status, order, None, p, on)
BY EffectiveIsTop, NoGoal DEF NavInv, Seen, ScreenOK

\* Only the cursor moves.
At(v, i) == [v EXCEPT !.cur = i]

LEMMA AtIs ==
    ASSUME NEW v, ViewOK(v), NEW i \in DOMAIN v.rows
    PROVE  /\ ViewOK(At(v, i)) /\ Same(At(v, i), v)
           /\ At(v, i).show = v.show /\ At(v, i).list = v.list /\ At(v, i).unread = v.unread
<1> DEFINE w == At(v, i)
<1>1. v \in Views /\ Belong(v) /\ DrawsAll(v) /\ DOMAIN v.rows = 1..Len(v.rows) /\ Len(v.rows) \in Nat
  BY ViewIs DEF ViewOK
<1>2. i \in Nat /\ i \in 0..Len(v.rows)
  BY <1>1
<1>3. /\ w \in Views /\ w.list = v.list /\ w.rows = v.rows /\ w.hides = v.hides /\ w.cur = i /\ w.unread = v.unread /\ w.show = v.show
      /\ w.tab = v.tab /\ w.of = v.of /\ w.shows = v.shows /\ w.parent = v.parent /\ w.from = v.from
  BY <1>1, <1>2 DEF At, Views
<1> HIDE DEF w
<1>4. ViewOK(w) /\ Same(w, v)
  BY <1>1, <1>2, <1>3 DEF ViewOK, Same, Belong, DrawsAll
<1> QED BY <1>3, <1>4 DEF w

LEMMA MoveStep ==
    ASSUME NavInv, NEW i, MoveTo(i)
    PROVE  NavInv'
<1> DEFINE v == At(Effective, i)
<1>1. /\ i \in DOMAIN Effective.rows /\ goal' = None
      /\ UNCHANGED <<status, order, changes, mode, form, prompt, dash, searching, active>>
      /\ PutTop(active, tabs, details, v, tabs', details')
  BY DEF MoveTo, SetEffective, PutTop, Put, At, Stay, store, rest
<1>2. ViewOK(v) /\ Same(v, Effective) /\ v.show = Effective.show /\ v.list = Effective.list /\ v.unread = Effective.unread
  BY <1>1, OnScreen, AtIs
<1> HIDE DEF v
<1>3. Fresh(v, status, order)
  BY <1>2, OnScreen, FreshSame
<1>4. Same(v, Top(active, tabs, details)) /\ Landed(v, None, status)
  BY <1>2, OnScreen, NoGoal
<1>5. QuestionFits(prompt, details) /\ SearchFits(searching, Top(active, tabs, details))
  BY DEF NavInv, Seen
<1>6. Seen(active, tabs', details', status, order, None, prompt, searching)
  BY <1>1, <1>2, <1>3, <1>4, <1>5, OnScreen, PutSeen
<1>7. RestOK'
  BY <1>1 DEF NavInv, RestOK, Ids
<1> QED BY <1>1, <1>6, <1>7 DEF NavInv

LEMMA SwitchStep ==
    ASSUME NavInv, NEW k \in ToSet(Tabs), SwitchToTab(k)
    PROVE  NavInv'
<1> DEFINE v == Shown(tabs[k])
<1>1. /\ active' = k /\ details = <<>> /\ details' = <<>> /\ goal' = None /\ ~searching
      /\ UNCHANGED <<status, order, changes, mode, form, prompt, searching>>
      /\ Put(tabs', tabs, k, v) /\ dash' = DashOff
  BY DEF SwitchToTab, Stay, store, Keys, Put
<1>2. tabs \in [ToSet(Tabs) -> Views] /\ (\A x \in ToSet(Tabs) : TabFits(x, tabs[x])) /\ tabs[k] \in Views
  BY OnScreen DEF Stack
<1>3. ViewOK(v) /\ Same(v, tabs[k]) /\ Fresh(v, status, order)
  <2>1. IsLoaded(v, tabs[k], status, order)
    BY <1>2, OnScreen, ReloadedIs DEF Shown
  <2> HIDE DEF v
  <2> QED BY <2>1 DEF IsLoaded, Fresh
<1> HIDE DEF v
<1>4. tabs' \in [ToSet(Tabs) -> Views] /\ (\A x \in ToSet(Tabs) : TabFits(x, tabs'[x])) /\ tabs'[k] = v
  BY <1>1, <1>2, <1>3, TabPut
<1>5. Landed(tabs'[k], None, status) /\ Fresh(tabs'[k], status, order)
  BY <1>3, <1>4, NoGoal
<1>6. ScreenOK(k, tabs', <<>>, status, order, None)
  BY <1>4, <1>5, OnScreen, BottomScreen
<1>7. Seen(k, tabs', <<>>, status, order, None, prompt, searching)
  BY <1>1, <1>6 DEF Seen, QuestionFits, SearchFits
<1>8. RestOK'
  BY <1>1, DashOffIs DEF NavInv, RestOK, Ids
<1> QED BY <1>1, <1>7, <1>8 DEF NavInv

LEMMA OpenStep ==
    ASSUME NavInv, NEW drill, OpenDetail(drill)
    PROVE  NavInv'
<1> DEFINE def == RouteOf(Effective, drill)
           id == Selected.id
           u == View(def, id, active)
           v == Shown(u)
<1>1. /\ id # None /\ def # NoDef /\ KindOf[id] = def.of /\ status[id] = "live"
      /\ details' = Append(details, v) /\ goal' = None /\ ~searching /\ prompt = None
      /\ UNCHANGED <<status, order, changes, active, tabs, mode, form, prompt, dash, searching>>
  BY DEF OpenDetail, Stay, store, rest, TableKeys, Keys
<1>2. id \in Rows /\ KindOf[id] = Effective.shows /\ (Effective.parent # None => <<id, Effective.parent>> \in Refers)
  BY <1>1, OnScreen
<1>3. def \in Defs
  BY <1>1, FirstRoute DEF Defs
<1>4. def = Def(def.tab, def.of, def.shows) /\ def.tab \in Names /\ def.of \in Kinds /\ def.of \in Names /\ def.shows \in Names
  BY <1>3, DefIs DEF Names
<1>5. active \in Names
  BY OnScreen, TabsAre DEF Stack, Names
<1> HIDE DEF def, id
<1>6. /\ u \in Views /\ u.tab = def.tab /\ u.of = def.of /\ u.shows = def.shows
      /\ u.parent = id /\ u.from = active
  BY <1>2, <1>4, <1>5, MadeIs DEF Ids
<1> HIDE DEF u
<1>7. ViewOK(v) /\ Same(v, u) /\ Fresh(v, status, order)
  <2>1. IsLoaded(v, u, status, order)
    BY <1>6, OnScreen, ReloadedIs DEF Shown
  <2> HIDE DEF v
  <2> QED BY <2>1 DEF IsLoaded, Fresh
<1> HIDE DEF v
<1>8. /\ v.tab = def.tab /\ v.of = def.of /\ v.shows = def.shows /\ v.parent = id /\ v.from = active
  BY <1>6, <1>7 DEF Same
<1>9. DetailFits(v)
  <2>1. OfDetail(v)
    BY <1>3, <1>4, <1>8 DEF OfDetail
  <2> QED BY <2>1, <1>1, <1>2, <1>7, <1>8 DEF DetailFits, id
<1>10. v.of = Top(active, tabs, details).shows
  BY <1>1, <1>2, <1>8, OnScreen DEF id
<1>11. ASSUME details # <<>> PROVE <<v.parent, Top(active, tabs, details).parent>> \in Refers
  <2>1. DetailFits(Top(active, tabs, details))
    BY <1>11, OnScreen, TopIsView
  <2>2. Effective.parent # None
    BY <2>1, OnScreen, TabsAre DEF DetailFits
  <2> QED BY <2>2, <1>2, <1>8, OnScreen
<1> DEFINE e == Append(details, v)
<1>12. /\ Stack(active, tabs, e) /\ Top(active, tabs, e) = v /\ Len(e) = Len(details) + 1 /\ e[Len(details) + 1] = v
       /\ \A j \in 1..Len(details) : e[j] = details[j]
  BY <1>8, <1>9, <1>10, <1>11, OnScreen, StackPush
<1>13. details' = e
  BY <1>1
<1> HIDE DEF e
<1>14. ParentsThere(e, status)
  <2>1. \A j \in 1..Len(details) : status[details[j].parent] # "gone"
    BY OnScreen DEF ParentsThere
  <2>2. status[v.parent] # "gone"
    BY <1>1, <1>8 DEF id
  <2>3. Len(details) \in Nat
    BY OnScreen DEF Stack
  <2>4. \A j \in 1..(Len(details) + 1) : j = Len(details) + 1 \/ j \in 1..Len(details)
    BY <2>3
  <2> QED BY <1>12, <2>1, <2>2, <2>4 DEF ParentsThere
<1>15. ScreenOK(active, tabs, e, status, order, None)
  BY <1>7, <1>12, <1>14, NoGoal DEF ScreenOK
<1>16. Seen(active, tabs, e, status, order, None, prompt, searching)
  BY <1>1, <1>15 DEF Seen, QuestionFits, SearchFits
<1>17. RestOK'
  BY <1>1 DEF NavInv, RestOK, Ids
<1> QED BY <1>1, <1>13, <1>16, <1>17 DEF NavInv

-----------------------------------------------------------------------------
(***************************************************************************)
(* Navigation: leaving the drilldowns.                                     *)
(***************************************************************************)

LEMMA TabsBelowAre ==
    ASSUME NavInv
    PROVE  /\ TabsBelow \in [ToSet(Tabs) -> Views] /\ \A x \in ToSet(Tabs) : TabFits(x, TabsBelow[x])
           /\ details # <<>> => /\ Fresh(TabsBelow[active], status, order)
                                /\ Landed(TabsBelow[active], details[1].parent, status)
<1>1. tabs \in [ToSet(Tabs) -> Views] /\ (\A x \in ToSet(Tabs) : TabFits(x, tabs[x])) /\ active \in ToSet(Tabs)
  BY OnScreen DEF Stack
<1>2. CASE details = <<>>
  BY <1>1, <1>2 DEF TabsBelow
<1>3. CASE details # <<>>
  <2> DEFINE id == details[1].parent
             v == LoadedThenSelected(tabs[active], id)
  <2>1. details[1].from = active /\ details[1].of = active /\ DetailFits(details[1])
    BY <1>3, OnScreen, LastIs DEF Stack
  <2>2. Put(TabsBelow, tabs, active, v)
    BY <1>3, <2>1 DEF TabsBelow, Put
  <2>3. id \in Rows /\ KindOf[id] = active /\ TabFits(active, tabs[active])
    BY <1>1, <2>1 DEF DetailFits
  <2>4. v = SelectRow(Reloaded(tabs[active], status, order), id)
    BY DEF LoadedThenSelected, Shown
  <2>5. tabs[active] \in Views /\ tabs[active].shows = active /\ tabs[active].parent = None /\ Complete(order)
    BY <1>1, <2>3 DEF TabFits, NavInv
  <2> HIDE DEF v, id
  <2>6. ViewOK(v) /\ Same(v, tabs[active]) /\ Fresh(v, status, order) /\ Landed(v, id, status)
    BY <2>3, <2>4, <2>5, LandIs
  <2>7. TabsBelow \in [ToSet(Tabs) -> Views] /\ (\A x \in ToSet(Tabs) : TabFits(x, TabsBelow[x])) /\ TabsBelow[active] = v
    BY <1>1, <2>2, <2>6, TabPut
  <2> QED BY <2>6, <2>7 DEF id
<1> QED BY <1>2, <1>3

LEMMA CloseStep ==
    ASSUME NavInv, CloseDetail
    PROVE  NavInv'
<1> DEFINE n == Len(details)
           id == Last(details).parent
<1>1. /\ details # <<>> /\ goal' = id /\ ~searching
      /\ UNCHANGED <<status, order, changes, mode, form, prompt, dash, searching>>
  BY DEF CloseDetail, store, rest, Keys, Clicks
<1>2. n \in Nat /\ n > 0 /\ n \in 1..n /\ id = details[n].parent /\ DetailFits(details[n]) /\ id \in Rows
  <2>1. n \in Nat /\ n > 0 /\ n \in 1..n /\ id = details[n].parent
    BY <1>1, OnScreen, LastIs DEF Stack
  <2> QED BY <2>1, OnScreen DEF Stack, DetailFits
<1>3. RestOK'
  BY <1>1, <1>2 DEF NavInv, RestOK, Ids
<1>4. CASE n = 1
  <2>1. details' = <<>> /\ active' = details[1].from /\ tabs' = TabsBelow
    BY <1>1, <1>2, <1>4, OnScreen, LastIs DEF CloseDetail, Stack
  <2>2. details[1].from = active /\ id = details[1].parent /\ active \in ToSet(Tabs)
    BY <1>1, <1>2, <1>4, OnScreen DEF Stack
  <2>3. /\ TabsBelow \in [ToSet(Tabs) -> Views] /\ \A x \in ToSet(Tabs) : TabFits(x, TabsBelow[x])
        /\ Fresh(TabsBelow[active], status, order) /\ Landed(TabsBelow[active], id, status)
    BY <1>1, <2>2, TabsBelowAre
  <2>4. ScreenOK(active, TabsBelow, <<>>, status, order, id)
    BY <2>2, <2>3, OnScreen, BottomScreen
  <2>5. Seen(active, TabsBelow, <<>>, status, order, id, prompt, searching)
    BY <1>1, <2>4 DEF Seen, QuestionFits, SearchFits
  <2> QED BY <1>1, <1>3, <2>1, <2>2, <2>5 DEF NavInv
<1>5. CASE n # 1
  <2> DEFINE m == n - 1
             v == LoadedThenSelected(details[m], id)
  <2>1. n > 1 /\ m \in Nat /\ m \in 1..n /\ n \in 2..n
    <3>1. n \in Nat /\ n > 0
      BY <1>2
    <3> HIDE DEF n
    <3> QED BY <3>1, <1>5
  <2>2. UNCHANGED <<active, tabs>> /\ Put(details', Front(details), n - 1, v)
    BY <1>1, <1>2, <2>1 DEF CloseDetail, Put
  <2>3. /\ DetailFits(details[m]) /\ details[n].of = details[m].shows /\ <<details[n].parent, details[m].parent>> \in Refers
        /\ status[details[m].parent] # "gone"
    BY <2>1, OnScreen DEF Stack, ParentsThere
  <2>4. v = SelectRow(Reloaded(details[m], status, order), id)
    BY DEF LoadedThenSelected, Shown
  <2>5. details[m] \in Views /\ KindOf[id] = details[m].shows /\ details[m].parent \in Rows
        /\ <<id, details[m].parent>> \in Refers /\ Complete(order)
    BY <1>2, <2>3 DEF DetailFits, ViewOK, NavInv
  <2> HIDE DEF v, id
  <2>6. ViewOK(v) /\ Same(v, details[m]) /\ Fresh(v, status, order) /\ Landed(v, id, status)
    BY <1>2, <2>3, <2>4, <2>5, LandIs
  <2>7. /\ Stack(active, tabs, details') /\ Top(active, tabs, details') = v /\ Len(details') = n - 1
        /\ \A j \in 1..Len(details') : details'[j].parent = details[j].parent
    BY <2>1, <2>2, <2>6, OnScreen, StackPop
  <2>8. ParentsThere(details', status)
    <3>1. \A j \in 1..(n - 1) : j \in 1..n
      BY <1>2
    <3> QED BY <2>7, <3>1, OnScreen DEF ParentsThere
  <2>9. ScreenOK(active, tabs, details', status, order, id)
    BY <2>6, <2>7, <2>8 DEF ScreenOK
  <2>10. QuestionFits(prompt, details')
    <3>1. QuestionFits(prompt, details)
      BY DEF NavInv, Seen
    <3> QED BY <3>1, <1>1 DEF QuestionFits
  <2>11. Seen(active, tabs, details', status, order, id, prompt, searching)
    BY <1>1, <2>9, <2>10 DEF Seen, SearchFits
  <2> QED BY <1>1, <1>3, <2>2, <2>11 DEF NavInv
<1> QED BY <1>4, <1>5

\* A jump lands on the row, in the tab of its kind.
LEMMA JumpIs ==
    ASSUME NavInv, NEW k \in ToSet(Tabs), NEW id \in Rows, KindOf[id] = k,
           NEW us, Put(us, TabsBelow, k, SelectRow(Shown(TabsBelow[k]), id))
    PROVE  ScreenOK(k, us, <<>>, status, order, id)
<1> DEFINE u == TabsBelow[k]
           v == SelectRow(Shown(u), id)
<1>1. TabsBelow \in [ToSet(Tabs) -> Views] /\ (\A x \in ToSet(Tabs) : TabFits(x, TabsBelow[x])) /\ Complete(order)
  BY TabsBelowAre DEF NavInv
<1>2. u \in Views /\ u.shows = k /\ u.parent = None
  BY <1>1 DEF TabFits
<1>3. v = SelectRow(Reloaded(u, status, order), id)
  BY DEF Shown
<1>4. Put(us, TabsBelow, k, v)
  OBVIOUS
<1> HIDE DEF v
<1>5. ViewOK(v) /\ Same(v, u) /\ Fresh(v, status, order) /\ Landed(v, id, status)
  <2> HIDE DEF u
  <2> QED BY <1>1, <1>2, <1>3, LandIs
<1>6. us \in [ToSet(Tabs) -> Views] /\ (\A x \in ToSet(Tabs) : TabFits(x, us[x])) /\ us[k] = v
  BY <1>1, <1>4, <1>5, TabPut
<1>7. Stack(active, tabs, details) /\ Fresh(us[k], status, order) /\ Landed(us[k], id, status)
  BY <1>5, <1>6, OnScreen
<1> QED BY <1>6, <1>7, BottomScreen

LEMMA LinkStep ==
    ASSUME NavInv, NEW id \in Rows, FollowLink(id)
    PROVE  NavInv'
<1> DEFINE k == KindOf[id]
<1>1. /\ k \in ToSet(Tabs) /\ details' = <<>> /\ active' = k /\ goal' = id /\ ~searching
      /\ Put(tabs', TabsBelow, k, SelectRow(Shown(TabsBelow[k]), id))
      /\ UNCHANGED <<status, order, changes, mode, form, prompt, dash, searching>>
  BY DEF FollowLink, JumpTo, Put, store, rest, Keys
<1>2. ScreenOK(k, tabs', <<>>, status, order, id)
  BY <1>1, JumpIs
<1>3. Seen(k, tabs', <<>>, status, order, id, prompt, searching)
  BY <1>1, <1>2 DEF Seen, QuestionFits, SearchFits
<1>4. RestOK'
  BY <1>1 DEF NavInv, RestOK, Ids
<1> QED BY <1>1, <1>3, <1>4 DEF NavInv

LEMMA DashJumpStep ==
    ASSUME NavInv, DashJump
    PROVE  NavInv'
<1>1. DashOK(dash)
  BY DEF NavInv, RestOK
<1>2. dash.nav # <<>> /\ dash.nav[dash.cur].id # None
  BY DEF DashJump
<1>3. dash.nav[dash.cur] \in DashEntries
  BY <1>1, <1>2 DEF DashOK, Dashes
<1>4. PICK e \in DashEntries : e = dash.nav[dash.cur]
  BY <1>3
<1> DEFINE k == e.section
           id == e.id
<1>5. id \in Rows /\ KindOf[id] = k /\ k \in ToSet(Tabs)
  BY <1>2, <1>4, TabsAre DEF DashEntries
<1>6. /\ details' = <<>> /\ active' = k /\ goal' = id /\ ~searching
      /\ Put(tabs', TabsBelow, k, SelectRow(Shown(TabsBelow[k]), id))
      /\ UNCHANGED <<status, order, changes, mode, form, prompt, searching>> /\ dash' = DashOff
  BY <1>4 DEF DashJump, JumpTo, Put, store, DashKeys, Keys
<1> HIDE DEF k, id
<1>7. ScreenOK(k, tabs', <<>>, status, order, id)
  BY <1>5, <1>6, JumpIs
<1>8. Seen(k, tabs', <<>>, status, order, id, prompt, searching)
  BY <1>6, <1>7 DEF Seen, QuestionFits, SearchFits
<1>9. RestOK'
  BY <1>5, <1>6, DashOffIs DEF NavInv, RestOK, Ids
<1> QED BY <1>6, <1>8, <1>9 DEF NavInv

\* A tab that the search goes to is not loaded.
Unread(v) == [v EXCEPT !.unread = TRUE]

LEMMA UnreadIs ==
    ASSUME NEW v, ViewOK(v)
    PROVE  ViewOK(Unread(v)) /\ Same(Unread(v), v) /\ Unread(v).unread = TRUE
<1> DEFINE w == Unread(v)
<1>1. v \in Views /\ Belong(v) /\ DrawsAll(v) /\ v.cur \in 0..Len(v.rows)
  BY DEF ViewOK
<1>2. /\ w \in Views /\ w.list = v.list /\ w.rows = v.rows /\ w.hides = v.hides /\ w.cur = v.cur /\ w.unread = TRUE
      /\ w.tab = v.tab /\ w.of = v.of /\ w.shows = v.shows /\ w.parent = v.parent /\ w.from = v.from
  BY <1>1 DEF Unread, Views
<1> HIDE DEF w
<1>3. ViewOK(w) /\ Same(w, v) /\ w.unread = TRUE
  BY <1>1, <1>2 DEF ViewOK, Same, Belong, DrawsAll
<1> QED BY <1>3 DEF w

LEMMA SearchStep ==
    ASSUME NavInv, NEW id \in Rows, SearchNavigate(id)
    PROVE  NavInv'
<1>1. /\ searching /\ KindOf[id] = "document" /\ status[id] = "live" /\ searching' = FALSE /\ goal' = id
      /\ UNCHANGED <<status, order, changes, mode, form, prompt, dash>>
  BY DEF SearchNavigate, store
<1>2. RestOK'
  BY <1>1 DEF NavInv, RestOK, Ids
<1>3. CASE details = <<>>
  <2> DEFINE v == SelectRow(Effective, id)
  <2>1. PutTop(active, tabs, details, v, tabs', details') /\ active' = active
    BY <1>3 DEF SearchNavigate, SetEffective, PutTop, Put
  <2>2. /\ ViewOK(v) /\ Same(v, Effective) /\ v.show = Effective.show /\ v.unread = Effective.unread
        /\ v.list = Effective.list /\ v.rows = Effective.rows /\ v.hides = Effective.hides
        /\ (\E i \in DOMAIN Effective.rows : Effective.rows[i].id = id)
             => v.cur \in DOMAIN Effective.rows /\ Effective.rows[v.cur].id = id
    BY OnScreen, SelectIs
  <2> HIDE DEF v
  <2>3. Fresh(v, status, order)
    BY <2>2, OnScreen, FreshSame
  <2>4. ASSUME ~v.unread, id \notin v.hides PROVE UnderIt(v) = id
    <3>1. Effective.list = ListOf(Effective, status, order) /\ Effective.shows = "document" /\ Effective.parent = None
      <4>1. TabFits(active, Effective)
        BY <1>3, OnScreen, TopIsView
      <4> QED BY <4>1, <2>2, <2>4, <1>1, OnScreen DEF Fresh, NavInv, Seen, SearchFits, TabFits
    <3>2. id \in Listed(Effective, status)
      BY <3>1, <1>1 DEF Listed
    <3>3. Complete(order) /\ order \in Seq(Rows)
      BY OnScreen DEF NavInv
    <3>4. \E i \in DOMAIN Effective.rows : Effective.rows[i].id = id
      <4>1. PICK j \in DOMAIN Effective.list : Effective.list[j].id = id
        BY <3>1, <3>2, <3>3, ListIs
      <4>2. Effective.list \in Seq(Entries) /\ Effective.rows = Passing(Effective.list, Effective.hides)
        BY OnScreen, ViewIs DEF ViewOK, DrawsAll
      <4>3. Effective.list[j].id \notin Effective.hides
        BY <4>1, <2>2, <2>4
      <4> QED BY <4>1, <4>2, <4>3, PassingIs
    <3>5. v.cur \in DOMAIN v.rows /\ v.rows[v.cur].id = id
      BY <3>4, <2>2
    <3>6. v.cur # 0
      BY <3>5, <2>2, ViewIs DEF ViewOK
    <3> QED BY <3>5, <3>6 DEF UnderIt
  <2>5. Landed(v, id, status)
    BY <2>4 DEF Landed
  <2>6. Same(v, Top(active, tabs, details)) /\ QuestionFits(prompt, details) /\ SearchFits(FALSE, Top(active, tabs, details))
    BY <2>2, OnScreen DEF NavInv, Seen, SearchFits
  <2>7. Seen(active, tabs', details', status, order, id, prompt, FALSE)
    BY <2>1, <2>2, <2>3, <2>5, <2>6, OnScreen, PutSeen
  <2> QED BY <1>1, <1>2, <2>1, <2>7 DEF NavInv
<1>4. CASE details # <<>>
  <2> DEFINE k == "document"
             u == SelectRow(TabsBelow[k], id)
             v == Unread(u)
  <2>1. details' = <<>> /\ active' = k /\ Put(tabs', TabsBelow, k, v)
    BY <1>4 DEF SearchNavigate, Put, Unread
  <2>2. TabsBelow \in [ToSet(Tabs) -> Views] /\ (\A x \in ToSet(Tabs) : TabFits(x, TabsBelow[x])) /\ k \in ToSet(Tabs)
    BY TabsBelowAre, TabsAre
  <2>3. ViewOK(u) /\ Same(u, TabsBelow[k])
    <3>1. ViewOK(TabsBelow[k])
      BY <2>2 DEF TabFits
    <3> HIDE DEF k
    <3> QED BY <3>1, SelectIs
  <2> HIDE DEF u, k
  <2>4. ViewOK(v) /\ Same(v, u) /\ v.unread = TRUE
    BY <2>3, UnreadIs
  <2> HIDE DEF v
  <2>5. Same(v, TabsBelow[k])
    BY <2>3, <2>4, SameTrans
  <2>6. tabs' \in [ToSet(Tabs) -> Views] /\ (\A x \in ToSet(Tabs) : TabFits(x, tabs'[x])) /\ tabs'[k] = v
    BY <2>1, <2>2, <2>4, <2>5, TabPut
  <2>7. Fresh(tabs'[k], status, order) /\ Landed(tabs'[k], id, status)
    BY <2>4, <2>6 DEF Fresh, Landed
  <2>8. ScreenOK(k, tabs', <<>>, status, order, id)
    BY <2>2, <2>6, <2>7, OnScreen, BottomScreen
  <2>9. Seen(k, tabs', <<>>, status, order, id, prompt, FALSE)
    BY <2>8 DEF Seen, QuestionFits, SearchFits
  <2> QED BY <1>1, <1>2, <2>1, <2>9 DEF NavInv
<1> QED BY <1>3, <1>4

-----------------------------------------------------------------------------
(***************************************************************************)
(* Navigation: changing rows.                                              *)
(***************************************************************************)

LEMMA ParentsKept ==
    ASSUME NavInv, NEW s, \A x \in Rows : s[x] = "gone" => status[x] = "gone"
    PROVE  ParentsThere(details, s)
<1>1. \A j \in 1..Len(details) : details[j].parent \in Rows /\ status[details[j].parent] # "gone"
  BY OnScreen DEF Stack, DetailFits, ParentsThere
<1> QED BY <1>1 DEF ParentsThere

LEMMA HidesIs ==
    ASSUME NEW v \in Views, NEW h \in SUBSET Rows, NEW w, w = [v EXCEPT !.hides = h]
    PROVE  /\ w \in Views /\ Same(w, v) /\ w.show = v.show /\ w.chosen = v.chosen /\ w.unread = v.unread
           /\ w.list = v.list /\ w.hides = h
<1>1. w \in Views
  BY DEF Views
<1>2. /\ Same(w, v) /\ w.show = v.show /\ w.chosen = v.chosen /\ w.unread = v.unread
      /\ w.list = v.list /\ w.hides = h
  BY DEF Views, Same
<1> QED BY <1>1, <1>2

LEMMA ChangesIs ==
    ASSUME NavInv, changes < MaxChanges, changes' = changes + 1
    PROVE  changes' \in 0..MaxChanges
BY NavigationAssumption DEF NavInv, RestOK

\* A filter changes what is drawn, not what is listed.
LEMMA FilterStep ==
    ASSUME NavInv, NEW h \in Filters, FilterRows(h)
    PROVE  NavInv'
<1> DEFINE u == [Effective EXCEPT !.hides = h]
           v == Redrawn(u)
<1>1. /\ UNCHANGED <<status, order, mode, form, prompt, dash, searching, active>> /\ goal' = None
      /\ changes < MaxChanges /\ changes' = changes + 1
      /\ PutTop(active, tabs, details, v, tabs', details')
  BY DEF FilterRows, SetEffective, PutTop, Put, Stay, rest
<1>2. h \in SUBSET Rows /\ Effective \in Views /\ Belong(Effective)
  BY OnScreen, NavigationAssumption DEF ViewOK
<1>3. u \in Views /\ Same(u, Effective) /\ u.show = Effective.show /\ u.unread = Effective.unread /\ u.list = Effective.list
  BY <1>2, HidesIs
<1> HIDE DEF u
<1>4. Belong(u)
  BY <1>2, <1>3 DEF Belong, Same
<1>5. ViewOK(v) /\ Same(v, u) /\ v.show = u.show /\ v.unread = u.unread /\ v.list = u.list
  BY <1>3, <1>4, RedrawnIs
<1> HIDE DEF v
<1>6. Same(v, Effective)
  BY <1>3, <1>5, SameTrans
<1>7. Fresh(v, status, order)
  BY <1>3, <1>5, <1>6, OnScreen, FreshSame
<1>8. Same(v, Top(active, tabs, details)) /\ Landed(v, None, status)
  BY <1>6, OnScreen, NoGoal
<1>9. QuestionFits(prompt, details) /\ SearchFits(searching, Top(active, tabs, details))
  BY DEF NavInv, Seen
<1>10. Seen(active, tabs', details', status, order, None, prompt, searching)
  BY <1>1, <1>5, <1>7, <1>8, <1>9, OnScreen, PutSeen
<1>11. RestOK'
  BY <1>1, ChangesIs DEF NavInv, RestOK, Ids
<1> QED BY <1>1, <1>10, <1>11 DEF NavInv

\* After a change the view on the screen is loaded, and may select a row.
LEMMA LoadSeen ==
    ASSUME NavInv, NEW v \in Views, Same(v, Effective), NEW s, NEW o, Complete(o), ParentsThere(details, s),
           NEW w, w = Reloaded(v, s, o) \/ \E r : w = SelectRow(Reloaded(v, s, o), r),
           NEW us, NEW es, PutTop(active, tabs, details, w, us, es), NEW p, QuestionFits(p, details)
    PROVE  Seen(active, us, es, s, o, None, p, searching)
<1> DEFINE u == Reloaded(v, s, o)
<1>1. IsLoaded(u, v, s, o)
  BY ReloadedIs DEF Complete
<1>2. w = u \/ \E r : w = SelectRow(u, r)
  OBVIOUS
<1> HIDE DEF u
<1>3. ViewOK(u) /\ Same(u, v) /\ Fresh(u, s, o)
  BY <1>1 DEF IsLoaded, Fresh
<1>4. ViewOK(w) /\ Same(w, u) /\ w.show = u.show /\ w.list = u.list /\ w.unread = u.unread
  <2>1. CASE w = u
    BY <2>1, <1>3 DEF Same
  <2>2. CASE w # u
    <3>1. PICK r : w = SelectRow(u, r)
      BY <1>2, <2>2
    <3> QED BY <3>1, <1>3, SelectIs
  <2> QED BY <2>1, <2>2
<1>5. Fresh(w, s, o)
  BY <1>3, <1>4, FreshSame
<1>6. Same(w, Effective)
  <2>1. Same(w, v)
    BY <1>3, <1>4, SameTrans
  <2> QED BY <2>1, SameTrans
<1>7. Same(w, Top(active, tabs, details)) /\ Landed(w, None, s) /\ SearchFits(searching, Top(active, tabs, details))
  BY <1>6, OnScreen, NoGoal DEF NavInv, Seen
<1> QED BY <1>4, <1>5, <1>7, OnScreen, PutSeen

LEMMA ShowsIs ==
    ASSUME NEW v \in Views, NEW b \in BOOLEAN, NEW w, w = [v EXCEPT !.show = b] \/ w = [v EXCEPT !.show = b, !.chosen = TRUE]
    PROVE  w \in Views /\ Same(w, v)
<1>1. w \in Views
  BY DEF Views
<1>2. Same(w, v)
  BY DEF Views, Same
<1> QED BY <1>1, <1>2

LEMMA DeleteStep ==
    ASSUME NavInv, ToggleDelete
    PROVE  NavInv'
<1> DEFINE r == Selected.id
           s == [status EXCEPT ![r] = IF Selected.deleted THEN "live" ELSE "deleted"]
           o == Serviced(s, order, r)
           b == Effective.show \/ (~Selected.deleted /\ ~Effective.chosen)
           v == [Effective EXCEPT !.show = b]
           w == Reloaded(v, s, o)
<1>1. /\ r # None /\ status' = s /\ order' = o /\ changes < MaxChanges /\ changes' = changes + 1 /\ goal' = None
      /\ active' = active /\ PutTop(active, tabs, details, w, tabs', details')
      /\ UNCHANGED <<mode, form, prompt, dash, searching>>
  BY DEF ToggleDelete, Changes, SetEffective, PutTop, Put, Stay, rest
<1>2. r \in Rows /\ status \in Statuses
  BY <1>1, OnScreen DEF NavInv
<1>3. s \in Statuses /\ \A x \in Rows : s[x] = "gone" => status[x] = "gone"
  BY <1>2 DEF Statuses
<1>4. Complete(o)
  BY ServicedIs DEF NavInv
<1>5. b \in BOOLEAN
  OBVIOUS
<1>6. v \in Views /\ Same(v, Effective)
  <2> HIDE DEF b
  <2> QED BY <1>5, OnScreen, ShowsIs
<1>7. ParentsThere(details, s)
  <2> HIDE DEF s
  <2> QED BY <1>3, ParentsKept
<1>8. QuestionFits(prompt, details)
  BY DEF NavInv, Seen
<1> HIDE DEF r, s, o, b, v
<1>9. Seen(active, tabs', details', s, o, None, prompt, searching)
  BY <1>1, <1>4, <1>6, <1>7, <1>8, LoadSeen
<1>10. RestOK'
  BY <1>1, ChangesIs DEF NavInv, RestOK, Ids
<1> QED BY <1>1, <1>3, <1>4, <1>9, <1>10 DEF NavInv

LEMMA ShowDeletedStep ==
    ASSUME NavInv, ToggleShowDeleted
    PROVE  NavInv'
<1> DEFINE b == ~Effective.show
           v == [Effective EXCEPT !.show = b, !.chosen = TRUE]
           w == Reloaded(v, status, order)
<1>1. /\ status' = status /\ order' = order /\ changes < MaxChanges /\ changes' = changes + 1 /\ goal' = None
      /\ active' = active /\ PutTop(active, tabs, details, w, tabs', details')
      /\ UNCHANGED <<mode, form, prompt, dash, searching>>
  BY DEF ToggleShowDeleted, Changes, SetEffective, PutTop, Put, Stay, rest, Shown
<1>2. b \in BOOLEAN
  OBVIOUS
<1>3. v \in Views /\ Same(v, Effective)
  <2> HIDE DEF b
  <2> QED BY <1>2, OnScreen, ShowsIs
<1>4. ParentsThere(details, status) /\ QuestionFits(prompt, details) /\ Complete(order)
  BY OnScreen DEF NavInv, Seen
<1> HIDE DEF b, v
<1>5. Seen(active, tabs', details', status, order, None, prompt, searching)
  BY <1>1, <1>3, <1>4, LoadSeen
<1>6. RestOK'
  BY <1>1, ChangesIs DEF NavInv, RestOK, Ids
<1> QED BY <1>1, <1>5, <1>6 DEF NavInv

\* Only the row that was asked about goes for good, with its logs.
LEMMA PurgedIs ==
    ASSUME NavInv, NEW r
    PROVE  /\ Purged(r) \in Statuses
           /\ \A x \in Rows : Purged(r)[x] = "gone" /\ status[x] # "gone" => x = r \/ <<x, r>> \in Refers
BY DEF NavInv, Statuses, Purged

LEMMA ConfirmStep ==
    ASSUME NavInv, ConfirmHardDelete
    PROVE  NavInv'
<1> DEFINE s == Purged(prompt)
           w == Reloaded(Effective, s, order)
<1>1. /\ prompt # None /\ prompt' = None /\ goal' = None /\ UNCHANGED <<mode, form, dash, searching>>
  BY DEF ConfirmHardDelete, Stay
<1>2. QuestionFits(prompt, details) /\ QuestionFits(None, details) /\ SearchFits(searching, Effective) /\ Complete(order)
  BY OnScreen DEF NavInv, Seen, QuestionFits
<1>3. CASE UNCHANGED <<store, views>>
  <2>1. UNCHANGED <<status, order, changes, active, tabs, details>>
    BY <1>3 DEF store, views
  <2>2. Seen(active, tabs, details, status, order, None, None, searching)
    BY <1>2, StaySeen
  <2>3. RestOK'
    BY <1>1, <2>1 DEF NavInv, RestOK, Ids
  <2> QED BY <1>1, <2>1, <2>2, <2>3 DEF NavInv
<1>4. CASE /\ KindOf[prompt] \in {"maintenance", "incident"}
           /\ Changes(s, order) /\ SetEffective(w)
  <2>1. details = <<>>
    BY <1>1, <1>2, <1>4 DEF QuestionFits
  <2>2. /\ status' = s /\ order' = order /\ changes < MaxChanges /\ changes' = changes + 1
        /\ active' = active /\ PutTop(active, tabs, details, w, tabs', details')
    BY <1>4 DEF Changes, SetEffective, PutTop, Put
  <2>3. s \in Statuses
    BY PurgedIs
  <2> HIDE DEF s
  <2>4. ParentsThere(details, s)
    BY <2>1 DEF ParentsThere
  <2>5. Effective \in Views /\ Same(Effective, Effective)
    BY OnScreen DEF Same
  <2>6. Seen(active, tabs', details', s, order, None, None, searching)
    BY <1>2, <2>2, <2>4, <2>5, LoadSeen
  <2>7. RestOK'
    BY <1>1, <2>2, ChangesIs DEF NavInv, RestOK, Ids
  <2> QED BY <1>1, <1>2, <2>2, <2>3, <2>6, <2>7 DEF NavInv
<1>5. \/ UNCHANGED <<store, views>>
      \/ /\ KindOf[prompt] \in {"maintenance", "incident"}
         /\ Changes(s, order) /\ SetEffective(w)
  BY DEF ConfirmHardDelete, Asked
<1> QED BY <1>3, <1>4, <1>5

LEMMA DashAgain ==
    ASSUME NEW d, DashOK(d), NEW s, NEW o, Complete(o)
    PROVE  DashOK(LoadDash(d, s, o))
<1>1. /\ d = [on |-> d.on, data |-> d.data, nav |-> d.nav, cur |-> d.cur, open |-> d.open]
      /\ d.on \in BOOLEAN /\ d.cur \in Nat /\ d.open \in SUBSET ToSet(Sections)
  BY DEF DashOK, Dashes
<1>2. o \in Seq(Rows)
  BY DEF Complete
<1> QED BY <1>1, <1>2, LoadDashIs

LEMMA SaveStep ==
    ASSUME NavInv, NEW r \in Rows, SaveForm(r)
    PROVE  NavInv'
<1>0. PICK h \in AfterWrite(Effective, r) :
        LET s == [status EXCEPT ![r] = "live"]
            o == Serviced(s, ToFront(order, {r}), r)
            v == Effectively(Reloaded([Effective EXCEPT !.hides = h], s, o))
        IN  /\ Changes(s, o)
            /\ SetEffective(IF form.inline THEN v ELSE SelectRow(v, r))
            /\ dash' = IF dash.on THEN LoadDash(dash, s, o) ELSE dash
  BY DEF SaveForm
<1> DEFINE s == [status EXCEPT ![r] = "live"]
           o == Serviced(s, ToFront(order, {r}), r)
           v == [Effective EXCEPT !.hides = h]
           w == IF form.inline THEN Reloaded(v, s, o) ELSE SelectRow(Reloaded(v, s, o), r)
<1>1. /\ status' = s /\ order' = o /\ changes < MaxChanges /\ changes' = changes + 1 /\ goal' = None
      /\ active' = active /\ PutTop(active, tabs, details, w, tabs', details')
      /\ UNCHANGED <<mode, prompt, searching>> /\ form' = NoForm
      /\ dash' \in {LoadDash(dash, s, o), dash}
  BY <1>0 DEF SaveForm, Effectively, Changes, SetEffective, PutTop, Put, Stay
<1>2. s \in Statuses /\ \A x \in Rows : s[x] = "gone" => status[x] = "gone"
  BY DEF NavInv, Statuses
<1>3. Complete(o)
  BY ToFrontIs, ServicedIs DEF NavInv
<1>4. ParentsThere(details, s)
  <2> HIDE DEF s
  <2> QED BY <1>2, ParentsKept
<1>5. QuestionFits(prompt, details) /\ v \in Views /\ Same(v, Effective) /\ DashOK(dash)
  <2>1. Effective \in Views /\ Effective.hides \in SUBSET Rows
    BY OnScreen, ViewIs
  <2>2. h \in SUBSET Rows
    BY <2>1, NavigationAssumption DEF AfterWrite
  <2>3. v \in Views /\ Same(v, Effective)
    BY <2>1, <2>2, HidesIs
  <2> QED BY <2>3 DEF NavInv, Seen, RestOK
<1> HIDE DEF s, o, v
<1>6. w = Reloaded(v, s, o) \/ \E x : w = SelectRow(Reloaded(v, s, o), x)
  OBVIOUS
<1> HIDE DEF w
<1>7. Seen(active, tabs', details', s, o, None, prompt, searching)
  BY <1>1, <1>3, <1>4, <1>5, <1>6, LoadSeen
<1>8. DashOK(dash')
  BY <1>1, <1>3, <1>5, DashAgain
<1>9. form' \in Forms
  BY <1>1 DEF NoForm, Forms, Ids, Names
<1>10. RestOK'
  BY <1>1, <1>8, <1>9, ChangesIs DEF NavInv, RestOK, Ids
<1> QED BY <1>1, <1>2, <1>3, <1>7, <1>10 DEF NavInv

-----------------------------------------------------------------------------
(***************************************************************************)
(* Navigation: what leaves the views and the store alone.                  *)
(***************************************************************************)

LEMMA StillStep ==
    ASSUME NavInv, UNCHANGED <<store, views>>, goal' = None,
           QuestionFits(prompt', details), SearchFits(searching', Effective),
           mode' \in {"normal", "edit"}, form' \in Forms, prompt' \in Ids, DashOK(dash'), searching' \in BOOLEAN
    PROVE  NavInv'
<1>1. UNCHANGED <<status, order, changes, active, tabs, details>>
  BY DEF store, views
<1>2. Seen(active, tabs, details, status, order, None, prompt', searching')
  BY StaySeen
<1>3. RestOK'
  BY <1>1 DEF NavInv, RestOK, Ids
<1> QED BY <1>1, <1>2, <1>3 DEF NavInv

\* What the invariant says of the rest
LEMMA RestIs ==
    ASSUME NavInv
    PROVE  /\ mode \in {"normal", "edit"} /\ form \in Forms /\ prompt \in Ids /\ DashOK(dash) /\ searching \in BOOLEAN
           /\ QuestionFits(prompt, details) /\ SearchFits(searching, Effective)
BY OnScreen DEF NavInv, RestOK, Seen

LEMMA NoFormIs == NoForm \in Forms
BY DEF NoForm, Forms, Ids, Names

\* The dashboard that is turned on
LEMMA DashOnIs ==
    ASSUME NEW op, NEW cur, NEW d, d = [DashOff EXCEPT !.on = TRUE, !.open = op, !.cur = cur]
    PROVE  d = [on |-> TRUE, data |-> <<>>, nav |-> <<>>, cur |-> cur, open |-> op]
<1> DEFINE e == <<>>
           off == FALSE
           yes == TRUE
           none == {}
           zero == 0
           was == DashOff
<1>1. was = [on |-> off, data |-> e, nav |-> e, cur |-> zero, open |-> none]
  BY DEF DashOff
<1>2. d = [was EXCEPT !.on = yes, !.open = op, !.cur = cur]
  OBVIOUS
<1> HIDE DEF e, off, yes, none, zero, was
<1>3. d = [on |-> yes, data |-> e, nav |-> e, cur |-> cur, open |-> op]
  BY <1>1, <1>2
<1> QED BY <1>3 DEF e, yes

LEMMA DashFirstIs ==
    ASSUME NEW op, NEW d, d = [DashOff EXCEPT !.on = TRUE, !.open = op]
    PROVE  d = [on |-> TRUE, data |-> <<>>, nav |-> <<>>, cur |-> 0, open |-> op]
<1> DEFINE e == <<>>
           off == FALSE
           yes == TRUE
           none == {}
           zero == 0
           was == DashOff
<1>1. was = [on |-> off, data |-> e, nav |-> e, cur |-> zero, open |-> none]
  BY DEF DashOff
<1>2. d = [was EXCEPT !.on = yes, !.open = op]
  OBVIOUS
<1> HIDE DEF e, off, yes, none, zero, was
<1>3. d = [on |-> yes, data |-> e, nav |-> e, cur |-> zero, open |-> op]
  BY <1>1, <1>2
<1> QED BY <1>3 DEF e, yes, zero

LEMMA ModeStep ==
    ASSUME NavInv, ToggleEdit \/ OpenSearch \/ CloseSearch \/ CancelForm
    PROVE  NavInv'
<1>1. CASE ToggleEdit
  <2>1. UNCHANGED <<store, views, form, prompt, dash, searching>> /\ goal' = None /\ mode' \in {"normal", "edit"}
    BY <1>1 DEF ToggleEdit, Stay
  <2> QED BY <2>1, RestIs, StillStep
<1>2. CASE OpenSearch
  <2>1. /\ UNCHANGED <<store, views, mode, form, prompt, dash>> /\ goal' = None
        /\ searching' = TRUE /\ Effective.shows = "document"
    BY <1>2 DEF OpenSearch, Stay
  <2>2. SearchFits(searching', Effective) /\ searching' \in BOOLEAN
    BY <2>1 DEF SearchFits
  <2> QED BY <2>1, <2>2, RestIs, StillStep
<1>3. CASE CloseSearch
  <2>1. UNCHANGED <<store, views, mode, form, prompt, dash>> /\ goal' = None /\ searching' = FALSE
    BY <1>3 DEF CloseSearch, Stay
  <2>2. SearchFits(searching', Effective) /\ searching' \in BOOLEAN
    BY <2>1 DEF SearchFits
  <2> QED BY <2>1, <2>2, RestIs, StillStep
<1>4. CASE CancelForm
  <2>1. UNCHANGED <<store, views, mode, prompt, dash, searching>> /\ goal' = None /\ form' = NoForm
    BY <1>4 DEF CancelForm, Stay
  <2> QED BY <2>1, NoFormIs, RestIs, StillStep
<1> QED BY <1>1, <1>2, <1>3, <1>4

\* A question that is asked in a drilldown is about a service log or a document.
LEMMA PromptStep ==
    ASSUME NavInv, PromptHardDelete
    PROVE  NavInv'
<1> DEFINE r == Selected.id
<1>1. /\ UNCHANGED <<store, views>> /\ goal' = None /\ UNCHANGED <<mode, form, dash, searching>>
      /\ prompt' = r /\ Effective.tab \in {"incident", "maintenance"} /\ Selected.deleted
  BY DEF PromptHardDelete, Stay
<1>2. r \in Ids /\ r # None /\ KindOf[r] = Effective.shows
  BY <1>1, OnScreen
<1> HIDE DEF r
<1>3. QuestionFits(r, details)
  <2> SUFFICES ASSUME KindOf[r] \in {"maintenance", "incident"}, details # <<>> PROVE FALSE
    BY DEF QuestionFits
  <2>1. OfDetail(Effective)
    BY OnScreen, TopIsView DEF DetailFits
  <2> QED BY <2>1, <1>1, <1>2, DefsAre
<1> QED BY <1>1, <1>2, <1>3, RestIs, StillStep

LEMMA FormStep ==
    ASSUME NavInv, NEW id \in Rows \cup {None}, NEW inline \in BOOLEAN, StartForm(id, inline)
    PROVE  NavInv'
<1>1. /\ UNCHANGED <<store, views>> /\ goal' = None /\ UNCHANGED <<mode, prompt, dash, searching>>
      /\ form' = [id |-> id, kind |-> Effective.shows, inline |-> inline]
  BY DEF StartForm, Stay
<1>2. form' \in Forms
  BY <1>1, OnScreen, ViewIs DEF Forms, Ids
<1> QED BY <1>1, <1>2, RestIs, StillStep

\* The dashboard's own keys
LEMMA DashStep ==
    ASSUME NavInv, ToggleDashboard \/ (\E i \in 1..Len(dash.nav) : DashMove(i))
                   \/ (\E ks \in SUBSET ToSet(Sections) : DashToggle(ks))
    PROVE  NavInv'
<1>1. UNCHANGED <<store, views>> /\ goal' = None /\ UNCHANGED <<mode, form, prompt, searching>>
  BY DEF ToggleDashboard, DashMove, DashToggle, Stay
<1>2. DashOK(dash) /\ order \in Seq(Rows)
  BY OnScreen, RestIs
<1>3. DashOK(dash')
  <2>1. CASE ToggleDashboard
    <3>1. CASE dash' = DashOff
      BY <3>1, DashOffIs
    <3>2. CASE TurnsOn
      <4>1. PICK op \in SUBSET ToSet(Sections), cur \in 1..(2 * Cardinality(Rows)) :
                dash' = LoadDash([DashOff EXCEPT !.on = TRUE, !.open = op, !.cur = cur], status, order)
        BY <3>2 DEF TurnsOn
      <4> DEFINE d == [DashOff EXCEPT !.on = TRUE, !.open = op, !.cur = cur]
      <4>2. d = [on |-> TRUE, data |-> <<>>, nav |-> <<>>, cur |-> cur, open |-> op]
        <5>1. d = [DashOff EXCEPT !.on = TRUE, !.open = op, !.cur = cur]
          OBVIOUS
        <5> HIDE DEF d
        <5> QED BY <5>1, DashOnIs
      <4>3. cur \in Nat
        OBVIOUS
      <4>4. dash' = LoadDash(d, status, order)
        BY <4>1
      <4> HIDE DEF d
      <4> QED BY <4>2, <4>3, <4>4, <1>2, LoadDashIs
    <3> QED BY <2>1, <3>1, <3>2 DEF ToggleDashboard
  <2>2. ASSUME NEW i \in 1..Len(dash.nav), DashMove(i) PROVE DashOK(dash')
    <3>1. dash' = [dash EXCEPT !.cur = i] /\ i \in DOMAIN dash.nav
      BY <2>2 DEF DashMove
    <3>2. Len(dash.nav) \in Nat /\ DOMAIN dash.nav = 1..Len(dash.nav)
      BY <1>2 DEF DashOK, Dashes
    <3>3. i \in Nat /\ i \in 0..Len(dash.nav)
      BY <3>1, <3>2
    <3>4. dash' \in Dashes /\ dash'.cur = i /\ dash'.nav = dash.nav
      BY <1>2, <3>1, <3>3 DEF DashOK, Dashes
    <3> QED BY <3>1, <3>3, <3>4 DEF DashOK
  <2>3. ASSUME NEW ks \in SUBSET ToSet(Sections), DashToggle(ks) PROVE DashOK(dash')
    <3> DEFINE op == (dash.open \ ks) \cup (ks \ dash.open)
               d == [dash EXCEPT !.open = op]
    <3>1. dash' = Indexed(d)
      BY <2>3 DEF DashToggle
    <3>2. dash.open \in SUBSET ToSet(Sections)
      BY <1>2 DEF DashOK, Dashes
    <3>3. op \in SUBSET ToSet(Sections)
      BY <3>2
    <3> HIDE DEF op
    <3>4. /\ dash = [on |-> dash.on, data |-> dash.data, nav |-> dash.nav, cur |-> dash.cur, open |-> dash.open]
          /\ dash.on \in BOOLEAN /\ dash.data \in Seq(Rows) /\ dash.cur \in Nat
      BY <1>2 DEF DashOK, Dashes
    <3>5. d = [on |-> dash.on, data |-> dash.data, nav |-> dash.nav, cur |-> dash.cur, open |-> op]
      BY <3>4
    <3>6. /\ d.on \in BOOLEAN /\ d.data \in Seq(Rows) /\ d.cur \in Nat /\ d.open \in SUBSET ToSet(Sections)
          /\ d = [on |-> d.on, data |-> d.data, nav |-> d.nav, cur |-> d.cur, open |-> d.open]
      BY <3>3, <3>4, <3>5
    <3> HIDE DEF d
    <3> QED BY <3>1, <3>6, IndexedIs
  <2> QED BY <2>1, <2>2, <2>3
<1> QED BY <1>1, <1>3, RestIs, StillStep

-----------------------------------------------------------------------------
(***************************************************************************)
(* Navigation: the theorems.                                               *)
(***************************************************************************)

LEMMA NavStart ==
    ASSUME Init
    PROVE  NavInv
<1>1. /\ status = [r \in Rows |-> IF r \in Unborn THEN "unborn" ELSE "live"] /\ order = SetToSeq(Rows)
      /\ active = Tabs[1] /\ details = <<>> /\ mode = "normal" /\ form = NoForm /\ prompt = None /\ searching = FALSE
      /\ tabs = [k \in ToSet(Tabs) |-> Reloaded(View(Def(k, "none", k), None, k), status, order)]
      /\ dash \in {DashOff, LoadDash([DashOff EXCEPT !.on = TRUE, !.open = {Sections[1]}], status, order)}
      /\ goal = None /\ changes = 0
  BY DEF Init
<1>2. status \in Statuses
  BY <1>1 DEF Statuses
<1>3. Complete(order) /\ order \in Seq(Rows)
  BY <1>1, FirstOrder DEF Complete
<1>4. active \in ToSet(Tabs) /\ ToSet(Tabs) \subseteq Kinds
  <2>1. Tabs \in Seq(Kinds \ {"servicelog"}) /\ "document" \in ToSet(Tabs)
    BY NavigationAssumption
  <2>2. PICK i \in DOMAIN Tabs : Tabs[i] = "document"
    BY <2>1 DEF ToSet
  <2>3. 1 \in DOMAIN Tabs
    BY <2>1, <2>2
  <2> QED BY <1>1, <2>3, TabsAre DEF ToSet
<1>5. ASSUME NEW k \in ToSet(Tabs) PROVE tabs[k] \in Views /\ TabFits(k, tabs[k]) /\ Fresh(tabs[k], status, order)
  <2> DEFINE d == Def(k, "none", k)
             u == View(d, None, k)
             v == Reloaded(u, status, order)
  <2>1. d.tab = k /\ d.of = "none" /\ d.shows = k /\ k \in Names /\ "none" \in Names
    BY <1>4 DEF Def, Names
  <2> HIDE DEF d
  <2>2. u \in Views /\ u.tab = k /\ u.of = "none" /\ u.shows = k /\ u.parent = None
    BY <2>1, MadeIs DEF Ids
  <2>3. tabs[k] = v
    BY <1>1 DEF d
  <2> HIDE DEF u
  <2>4. IsLoaded(v, u, status, order)
    BY <1>3, <2>2, ReloadedIs
  <2> HIDE DEF v
  <2>5. ViewOK(v) /\ Same(v, u) /\ Fresh(v, status, order) /\ v \in Views
    BY <2>4 DEF IsLoaded, Fresh, ViewOK
  <2> QED BY <2>2, <2>3, <2>5 DEF TabFits, Same
<1>6. tabs \in [ToSet(Tabs) -> Views]
  BY <1>1, <1>5
<1>7. Stack(active, tabs, <<>>) /\ Top(active, tabs, <<>>) = tabs[active] /\ ParentsThere(<<>>, status)
  BY <1>4, <1>5, <1>6 DEF Stack, Top, ParentsThere
<1>8. Seen(active, tabs, details, status, order, goal, prompt, searching)
  BY <1>1, <1>4, <1>5, <1>7, NoGoal DEF Seen, ScreenOK, QuestionFits, SearchFits
<1>9. DashOK(dash)
  <2>1. CASE dash = DashOff
    BY <2>1, DashOffIs
  <2>2. CASE dash # DashOff
    <3> DEFINE op == {Sections[1]}
               d == [DashOff EXCEPT !.on = TRUE, !.open = op]
    <3>1. Sections[1] \in ToSet(Sections)
      <4>1. 1 \in DOMAIN Sections
        BY NavigationAssumption
      <4> QED BY <4>1 DEF ToSet
    <3>2. op \in SUBSET ToSet(Sections)
      BY <3>1
    <3>3. dash = LoadDash(d, status, order)
      BY <1>1, <2>2
    <3> HIDE DEF op
    <3>4. d = [on |-> TRUE, data |-> <<>>, nav |-> <<>>, cur |-> 0, open |-> op]
      <4>1. d = [DashOff EXCEPT !.on = TRUE, !.open = op]
        OBVIOUS
      <4> HIDE DEF d
      <4> QED BY <4>1, DashFirstIs
    <3> HIDE DEF d
    <3> QED BY <1>3, <3>2, <3>3, <3>4, LoadDashIs
  <2> QED BY <2>1, <2>2
<1>10. form \in Forms /\ MaxChanges \in Nat
  BY <1>1, NoFormIs, NavigationAssumption
<1>11. /\ mode \in {"normal", "edit"} /\ prompt \in Ids /\ goal \in Ids
  BY <1>1 DEF Ids
<1>12. searching \in BOOLEAN
  BY <1>1
<1>13. changes \in 0..MaxChanges
  BY <1>1, <1>10
<1>14. RestOK
  BY <1>9, <1>10, <1>11, <1>12, <1>13 DEF RestOK
<1> QED BY <1>2, <1>3, <1>8, <1>14 DEF NavInv

LEMMA NavStep ==
    ASSUME NavInv, [Next]_vars
    PROVE  NavInv'
<1>1. CASE UNCHANGED vars
  <2>1. UNCHANGED <<status, order, active, tabs, details, mode, form, prompt, dash, searching, goal, changes>>
    BY <1>1 DEF vars, store, views, rest
  <2>2. Seen(active, tabs, details, status, order, goal, prompt, searching)'
    BY <2>1 DEF NavInv
  <2>3. RestOK'
    BY <2>1 DEF NavInv, RestOK
  <2> QED BY <2>1, <2>2, <2>3 DEF NavInv
<1>2. CASE \E i \in 1..Len(Effective.rows) : MoveTo(i)
  BY <1>2, MoveStep
<1>3. CASE \E k \in ToSet(Tabs) : SwitchToTab(k)
  BY <1>3, SwitchStep
<1>4. CASE \E drill \in {"Log", "Maint", "Quotes", "Jobs", "Docs"} : OpenDetail(drill)
  BY <1>4, OpenStep
<1>5. CASE \E id \in Rows : FollowLink(id) \/ SearchNavigate(id) \/ SaveForm(id)
  BY <1>5, LinkStep, SearchStep, SaveStep
<1>6. CASE \E id \in Rows \cup {None}, inline \in BOOLEAN : StartForm(id, inline)
  BY <1>6, FormStep
<1>7. CASE CloseDetail \/ DashJump
  BY <1>7, CloseStep, DashJumpStep
<1>8. CASE ToggleEdit \/ OpenSearch \/ CloseSearch \/ CancelForm
  BY <1>8, ModeStep
<1>9. CASE ToggleDelete \/ ToggleShowDeleted \/ PromptHardDelete \/ ConfirmHardDelete
  BY <1>9, DeleteStep, ShowDeletedStep, PromptStep, ConfirmStep
<1>10. CASE ToggleDashboard \/ (\E i \in 1..Len(dash.nav) : DashMove(i))
            \/ (\E ks \in SUBSET ToSet(Sections) : DashToggle(ks))
  BY <1>10, DashStep
<1>11. CASE \E h \in Filters : FilterRows(h)
  BY <1>11, FilterStep
<1> QED BY <1>1, <1>2, <1>3, <1>4, <1>5, <1>6, <1>7, <1>8, <1>9, <1>10, <1>11 DEF Next

LEMMA NavAlways == Init /\ [][Next]_vars => []NavInv
BY NavStart, NavStep, PTL

NavigationTypeOK ==
    /\ status \in Statuses /\ order \in Seq(Rows)
    /\ active \in ToSet(Tabs) /\ tabs \in [ToSet(Tabs) -> Views] /\ details \in Seq(Views)
    /\ mode \in {"normal", "edit"} /\ form \in Forms /\ prompt \in Ids
    /\ dash \in Dashes /\ searching \in BOOLEAN /\ goal \in Ids /\ changes \in 0..MaxChanges

\* The variables of Navigation have their types: no key, click or answer leaves
\* a view without a list, or a cursor beside its list.
THEOREM NavigationTypeCorrect == Init /\ [][Next]_vars => []NavigationTypeOK
<1>1. NavInv => NavigationTypeOK
  BY DEF NavInv, Seen, ScreenOK, Stack, RestOK, DashOK, Complete, NavigationTypeOK
<1> QED BY <1>1, NavAlways, PTL

\* Whatever was changed, pinned, opened, closed or followed, the view on the screen
\* lists what the store holds and draws what its pins let through; every drilldown column of it opens a list, and a list
\* that was opened holds rows of its parent.
THEOREM ViewsStayTrue == Init /\ [][Next]_vars => []ViewsTrue
<1>1. NavInv => ViewsTrue
  <2> SUFFICES ASSUME NavInv PROVE ViewsTrue
    OBVIOUS
  <2>1. ScreenFresh
    BY OnScreen DEF Fresh, ViewOK, DrawsAll, ScreenFresh
  <2>2. \A drill \in DrillColumns(Effective) : RouteOf(Effective, drill).of = Effective.shows
    BY OnScreen, TopIsView, RoutesFit
  <2>3. ASSUME NEW d \in ToSet(details), NEW i \in DOMAIN d.rows PROVE <<d.rows[i].id, d.parent>> \in Refers
    <3>1. PICK j \in 1..Len(details) : d = details[j]
      BY OnScreen DEF ToSet, Stack
    <3>2. DetailFits(d)
      BY <3>1, OnScreen DEF Stack
    <3> QED BY <3>2, RowsBelong, TabsAre DEF DetailFits
  <2> QED BY <2>1, <2>2, <2>3 DEF ViewsTrue, DrillsFit
<1> QED BY <1>1, NavAlways, PTL

\* Going back, following a link, and a jump from the dashboard or the document
\* search leave the cursor on the row that was meant, if it is alive and the pins
\* of the view it is in do not keep it off the screen.
THEOREM CursorsLand == Init /\ [][Next]_vars => []CursorLands
<1>1. NavInv => CursorLands
  <2> SUFFICES ASSUME NavInv PROVE CursorLands
    OBVIOUS
  <2>1. Landed(Effective, goal, status) /\ Selected.id = UnderIt(Effective)
    BY OnScreen DEF NavInv, Seen, ScreenOK
  <2> QED BY <2>1 DEF Landed, CursorLands
<1> QED BY <1>1, NavAlways, PTL

\* Only the row that the question was about is deleted for good, with its logs.
THEOREM OnlyTheAsked == Init /\ [][Next]_vars => DeletesAsked
<1> DEFINE Spares == \A r \in Rows : status'[r] = "gone" /\ status[r] # "gone" => r = prompt \/ <<r, prompt>> \in Refers
<1>1. NavInv /\ [Next]_vars => [Spares]_vars
  <2> SUFFICES ASSUME NavInv, Next PROVE Spares
    BY DEF vars
  <2>1. CASE status' = status
    BY <2>1
  <2>2. CASE ToggleDelete
    <3> DEFINE r == Selected.id
               to == IF Selected.deleted THEN "live" ELSE "deleted"
    <3>1. status' = [status EXCEPT ![r] = to] /\ to # "gone"
      BY <2>2 DEF ToggleDelete, Changes
    <3> HIDE DEF to
    <3> QED BY <3>1 DEF NavInv, Statuses
  <2>3. ASSUME NEW r \in Rows, SaveForm(r) PROVE Spares
    <3>1. status' = [status EXCEPT ![r] = "live"]
      BY <2>3 DEF SaveForm, Changes
    <3> QED BY <3>1 DEF NavInv, Statuses
  <2>4. CASE status' = Purged(prompt)
    BY <2>4, PurgedIs
  <2>5. \/ status' = status \/ ToggleDelete \/ (\E r \in Rows : SaveForm(r)) \/ status' = Purged(prompt)
    BY DEF Next, MoveTo, SwitchToTab, FilterRows, OpenDetail, FollowLink, SearchNavigate, StartForm, CloseDetail, OpenSearch, CloseSearch,
           ToggleEdit, ToggleShowDeleted, PromptHardDelete, ConfirmHardDelete, CancelForm, ToggleDashboard, DashJump,
           DashMove, DashToggle, Changes, Asked, store
  <2> QED BY <2>1, <2>2, <2>3, <2>4, <2>5
<1> QED BY <1>1, NavAlways, PTL DEF DeletesAsked

-----------------------------------------------------------------------------
(***************************************************************************)
(* Viewport: sums.                                                         *)
(***************************************************************************)

Sums(w, n, F) == F = [k \in 0..n |-> IF k = 0 THEN 0 ELSE F[k - 1] + w[k]]

LEMMA SumsExists ==
    ASSUME NEW w, NEW n \in Nat
    PROVE  \E F : Sums(w, n, F)
<1> DEFINE T == {m \in Nat : \E F : Sums(w, m, F)}
<1>1. 0 \in T
  <2> DEFINE F == [i \in 0..0 |-> 0]
  <2>1. F = [i \in 0..0 |-> F[i]] /\ F[0] = 0 /\ \A i \in 0..0 : i = 0
    OBVIOUS
  <2> HIDE DEF F
  <2>2. F = [i \in 0..0 |-> IF i = 0 THEN 0 ELSE F[i - 1] + w[i]]
    BY <2>1
  <2> QED BY <2>2 DEF Sums
<1>2. ASSUME NEW m \in Nat, m \in T PROVE m + 1 \in T
  <2>1. PICK F : Sums(w, m, F)
    BY <1>2
  <2>2. \A i \in 0..m : F[i] = IF i = 0 THEN 0 ELSE F[i - 1] + w[i]
    BY <2>1 DEF Sums
  <2> DEFINE next == F[m] + w[m + 1]
             G == [i \in 0..(m + 1) |-> IF i = m + 1 THEN next ELSE F[i]]
  <2>3. G = [i \in 0..(m + 1) |-> G[i]] /\ G[m + 1] = next /\ \A i \in 0..m : G[i] = F[i]
    <3> HIDE DEF next
    <3> QED OBVIOUS
  <2> HIDE DEF G
  <2>4. ASSUME NEW i \in 0..(m + 1)
        PROVE  G[i] = IF i = 0 THEN 0 ELSE G[i - 1] + w[i]
    <3>1. CASE i = m + 1
      <4>1. i - 1 = m /\ m \in 0..m /\ i # 0
        BY <3>1
      <4> QED BY <3>1, <4>1, <2>3
    <3>2. CASE i # m + 1
      <4>1. i \in 0..m /\ (i = 0 \/ i - 1 \in 0..m)
        BY <3>2
      <4> HIDE DEF next
      <4> QED BY <2>2, <2>3, <4>1
    <3> QED BY <3>1, <3>2
  <2>5. G = [i \in 0..(m + 1) |-> IF i = 0 THEN 0 ELSE G[i - 1] + w[i]]
    BY <2>3, <2>4
  <2>6. Sums(w, m + 1, G)
    BY <2>5 DEF Sums
  <2> QED BY <2>6
<1>3. Nat \subseteq T
  BY <1>1, <1>2, Inductively
<1> QED BY <1>3

LEMMA SumsAre ==
    ASSUME NEW w \in Seq(Int)
    PROVE  \E F \in [0..Len(w) -> Int] :
              F[0] = 0 /\ (\A k \in 1..Len(w) : F[k] = F[k - 1] + w[k]) /\ SumOf(w) = F[Len(w)]
<1> DEFINE F == CHOOSE F : Sums(w, Len(w), F)
<1>0. Len(w) \in Nat /\ \A k \in 1..Len(w) : w[k] \in Int
  OBVIOUS
<1>1. Sums(w, Len(w), F)
  BY <1>0, SumsExists
<1>2. SumOf(w) = F[Len(w)]
  BY DEF SumOf, Sums
<1> HIDE DEF F
<1>3. /\ \A k \in 0..Len(w) : F[k] = IF k = 0 THEN 0 ELSE F[k - 1] + w[k]
      /\ F = [k \in 0..Len(w) |-> F[k]]
  BY <1>1 DEF Sums
<1>4. F[0] = 0 /\ \A k \in 1..Len(w) : F[k] = F[k - 1] + w[k]
  BY <1>3, <1>0
<1> DEFINE T == {k \in Nat : k <= Len(w) => F[k] \in Int}
<1>5. 0 \in T
  BY <1>4
<1>6. ASSUME NEW n \in Nat, n \in T PROVE n + 1 \in T
  <2> SUFFICES ASSUME n + 1 <= Len(w) PROVE F[n + 1] \in Int
    OBVIOUS
  <2>1. n + 1 \in 1..Len(w) /\ (n + 1) - 1 = n /\ F[n] \in Int
    BY <1>0, <1>6
  <2> QED BY <2>1, <1>0, <1>4
<1>7. Nat \subseteq T
  <2> HIDE DEF T
  <2> QED BY <1>5, <1>6, Inductively
<1>8. \A k \in 0..Len(w) : F[k] \in Int
  BY <1>0, <1>7
<1> QED BY <1>2, <1>3, <1>4, <1>8

\* Whatever adds up like them are the sums.
LEMMA SumIs ==
    ASSUME NEW w \in Seq(Int), NEW G, G[0] = 0, \A k \in 1..Len(w) : G[k] = G[k - 1] + w[k]
    PROVE  SumOf(w) = G[Len(w)]
<1>1. PICK F \in [0..Len(w) -> Int] :
          F[0] = 0 /\ (\A k \in 1..Len(w) : F[k] = F[k - 1] + w[k]) /\ SumOf(w) = F[Len(w)]
  BY SumsAre
<1>2. Len(w) \in Nat
  OBVIOUS
<1> DEFINE T == {k \in Nat : k <= Len(w) => F[k] = G[k]}
<1>3. 0 \in T
  BY <1>1
<1>4. ASSUME NEW n \in Nat, n \in T PROVE n + 1 \in T
  <2> SUFFICES ASSUME n + 1 <= Len(w) PROVE F[n + 1] = G[n + 1]
    OBVIOUS
  <2>1. n + 1 \in 1..Len(w) /\ (n + 1) - 1 = n /\ F[n] = G[n]
    BY <1>2, <1>4
  <2> QED BY <2>1, <1>1
<1>5. Nat \subseteq T
  <2> HIDE DEF T
  <2> QED BY <1>3, <1>4, Inductively
<1> QED BY <1>1, <1>2, <1>5

LEMMA SumType ==
    ASSUME NEW w \in Seq(Int)
    PROVE  SumOf(w) \in Int
<1>1. PICK F \in [0..Len(w) -> Int] : SumOf(w) = F[Len(w)]
  BY SumsAre
<1>2. Len(w) \in 0..Len(w)
  OBVIOUS
<1> QED BY <1>1, <1>2

LEMMA SumMono ==
    ASSUME NEW u \in Seq(Int), NEW w \in Seq(Int), Len(u) = Len(w), \A k \in 1..Len(u) : u[k] <= w[k]
    PROVE  SumOf(u) <= SumOf(w)
<1>1. PICK F \in [0..Len(u) -> Int] :
          F[0] = 0 /\ (\A k \in 1..Len(u) : F[k] = F[k - 1] + u[k]) /\ SumOf(u) = F[Len(u)]
  BY SumsAre
<1>2. PICK G \in [0..Len(w) -> Int] :
          G[0] = 0 /\ (\A k \in 1..Len(w) : G[k] = G[k - 1] + w[k]) /\ SumOf(w) = G[Len(w)]
  BY SumsAre
<1>3. Len(u) \in Nat /\ \A k \in 1..Len(u) : u[k] \in Int /\ w[k] \in Int
  OBVIOUS
<1> DEFINE T == {k \in Nat : k <= Len(u) => F[k] <= G[k]}
<1>4. 0 \in T
  BY <1>1, <1>2
<1>5. ASSUME NEW n \in Nat, n \in T PROVE n + 1 \in T
  <2> SUFFICES ASSUME n + 1 <= Len(u) PROVE F[n + 1] <= G[n + 1]
    OBVIOUS
  <2>1. n + 1 \in 1..Len(u) /\ (n + 1) - 1 = n /\ F[n] <= G[n] /\ n \in 0..Len(u)
    BY <1>3, <1>5
  <2>2. F[n + 1] = F[n] + u[n + 1] /\ G[n + 1] = G[n] + w[n + 1] /\ F[n] \in Int /\ G[n] \in Int
    BY <2>1, <1>1, <1>2
  <2> QED BY <2>1, <2>2, <1>3
<1>6. Nat \subseteq T
  <2> HIDE DEF T
  <2> QED BY <1>4, <1>5, Inductively
<1> QED BY <1>1, <1>2, <1>3, <1>6

\* One entry changes by c.
LEMMA SumChanges ==
    ASSUME NEW u \in Seq(Int), NEW i \in 1..Len(u), NEW c \in Int
    PROVE  /\ [u EXCEPT ![i] = u[i] + c] \in Seq(Int) /\ Len([u EXCEPT ![i] = u[i] + c]) = Len(u)
           /\ SumOf([u EXCEPT ![i] = u[i] + c]) = SumOf(u) + c
<1> DEFINE w == [u EXCEPT ![i] = u[i] + c]
<1>0. Len(u) \in Nat /\ c \in Int /\ \A k \in 1..Len(u) : u[k] \in Int
  OBVIOUS
<1>1. w \in Seq(Int) /\ Len(w) = Len(u) /\ \A k \in 1..Len(u) : w[k] = IF k = i THEN u[i] + c ELSE u[k]
  BY <1>0
<1>2. PICK F \in [0..Len(u) -> Int] :
          F[0] = 0 /\ (\A k \in 1..Len(u) : F[k] = F[k - 1] + u[k]) /\ SumOf(u) = F[Len(u)]
  BY SumsAre
<1> DEFINE G == [k \in 0..Len(u) |-> F[k] + IF k < i THEN 0 ELSE c]
<1>3. \A k \in 0..Len(u) : G[k] = F[k] + IF k < i THEN 0 ELSE c
  OBVIOUS
<1> HIDE DEF G, w
<1>4. G[0] = 0
  BY <1>0, <1>2, <1>3
<1>5. ASSUME NEW k \in 1..Len(w) PROVE G[k] = G[k - 1] + w[k]
  <2>1. k \in 1..Len(u) /\ k \in 0..Len(u) /\ k - 1 \in 0..Len(u)
    BY <1>0, <1>1
  <2>2. c \in Int /\ F[k] \in Int /\ F[k - 1] \in Int /\ u[k] \in Int /\ F[k] = F[k - 1] + u[k]
    BY <2>1, <1>0, <1>2
  <2>3. CASE k < i
    <3>1. G[k] = F[k] + 0 /\ G[k - 1] = F[k - 1] + 0 /\ w[k] = u[k]
      BY <2>1, <2>3, <1>1, <1>3
    <3> QED BY <3>1, <2>2
  <2>4. CASE k = i
    <3>1. G[k] = F[k] + c /\ G[k - 1] = F[k - 1] + 0 /\ w[k] = u[k] + c
      BY <2>1, <2>4, <1>1, <1>3
    <3> QED BY <3>1, <2>2
  <2>5. CASE k > i
    <3>0. ~(k < i) /\ ~(k - 1 < i) /\ k # i
      BY <2>1, <2>5, <1>0
    <3>1. G[k] = F[k] + c /\ G[k - 1] = F[k - 1] + c /\ w[k] = u[k]
      BY <2>1, <3>0, <1>1, <1>3
    <3> QED BY <3>1, <2>2
  <2> QED BY <2>1, <2>3, <2>4, <2>5
<1>6. SumOf(w) = G[Len(w)]
  BY <1>1, <1>4, <1>5, SumIs
<1>7. G[Len(u)] = F[Len(u)] + c
  <2>1. Len(u) \in 0..Len(u) /\ ~(Len(u) < i)
    BY <1>0
  <2> QED BY <2>1, <1>3
<1>8. SumOf(w) = SumOf(u) + c
  BY <1>1, <1>2, <1>6, <1>7
<1> QED BY <1>1, <1>8 DEF w

LEMMA SumAppends ==
    ASSUME NEW u \in Seq(Int), NEW x \in Int
    PROVE  SumOf(Append(u, x)) = SumOf(u) + x
<1> DEFINE w == Append(u, x)
<1>0. Len(u) \in Nat
  OBVIOUS
<1>1. w \in Seq(Int) /\ Len(w) = Len(u) + 1 /\ w[Len(u) + 1] = x /\ \A k \in 1..Len(u) : w[k] = u[k]
  OBVIOUS
<1>2. PICK F \in [0..Len(u) -> Int] :
          F[0] = 0 /\ (\A k \in 1..Len(u) : F[k] = F[k - 1] + u[k]) /\ SumOf(u) = F[Len(u)]
  BY SumsAre
<1> DEFINE G == [k \in 0..(Len(u) + 1) |-> IF k = Len(u) + 1 THEN F[Len(u)] + x ELSE F[k]]
<1>3. \A k \in 0..(Len(u) + 1) : G[k] = IF k = Len(u) + 1 THEN F[Len(u)] + x ELSE F[k]
  OBVIOUS
<1> HIDE DEF G, w
<1>4. G[0] = 0 /\ G[Len(u) + 1] = F[Len(u)] + x
  BY <1>0, <1>2, <1>3
<1>5. ASSUME NEW k \in 1..Len(w) PROVE G[k] = G[k - 1] + w[k]
  <2>1. CASE k = Len(u) + 1
    <3>1. k - 1 = Len(u) /\ Len(u) \in 0..(Len(u) + 1) /\ Len(u) # Len(u) + 1
      BY <2>1, <1>0
    <3> QED BY <3>1, <2>1, <1>1, <1>3, <1>4
  <2>2. CASE k # Len(u) + 1
    <3>1. k \in 1..Len(u) /\ k \in 0..(Len(u) + 1) /\ k - 1 \in 0..(Len(u) + 1) /\ k - 1 # Len(u) + 1
      BY <2>2, <1>0, <1>1
    <3> QED BY <3>1, <2>2, <1>1, <1>2, <1>3
  <2> QED BY <2>1, <2>2
<1>6. SumOf(w) = G[Len(w)]
  BY <1>1, <1>4, <1>5, SumIs
<1> QED BY <1>1, <1>2, <1>4, <1>6 DEF w

LEMMA SumEmpty == SumOf(<<>>) = 0
<1>1. <<>> \in Seq(Int) /\ Len(<<>>) = 0
  OBVIOUS
<1>2. PICK F \in [0..Len(<<>>) -> Int] :
          F[0] = 0 /\ (\A k \in 1..Len(<<>>) : F[k] = F[k - 1] + <<>>[k]) /\ SumOf(<<>>) = F[Len(<<>>)]
  BY <1>1, SumsAre
<1> QED BY <1>1, <1>2

(***************************************************************************)
(* Viewport: widths, one step nearer to their targets at a time.           *)
(***************************************************************************)

Steps(w, t, n, F) == F = [k \in 0..n |-> IF k = 0 THEN [w |-> w, i |-> 0] ELSE Turn(F[k - 1], t)]

LEMMA StepsExists ==
    ASSUME NEW w, NEW t, NEW n \in Nat
    PROVE  \E F : Steps(w, t, n, F)
<1> DEFINE T == {m \in Nat : \E F : Steps(w, t, m, F)}
<1>1. 0 \in T
  <2> DEFINE F == [i \in 0..0 |-> [w |-> w, i |-> 0]]
  <2>1. F = [i \in 0..0 |-> F[i]] /\ F[0] = [w |-> w, i |-> 0] /\ \A i \in 0..0 : i = 0
    OBVIOUS
  <2> HIDE DEF F
  <2>2. F = [k \in 0..0 |-> IF k = 0 THEN [w |-> w, i |-> 0] ELSE Turn(F[k - 1], t)]
    BY <2>1
  <2> QED BY <2>2 DEF Steps
<1>2. ASSUME NEW m \in Nat, m \in T PROVE m + 1 \in T
  <2>1. PICK F : Steps(w, t, m, F)
    BY <1>2
  <2>2. \A i \in 0..m : F[i] = IF i = 0 THEN [w |-> w, i |-> 0] ELSE Turn(F[i - 1], t)
    BY <2>1 DEF Steps
  <2> DEFINE next == Turn(F[m], t)
             G == [i \in 0..(m + 1) |-> IF i = m + 1 THEN next ELSE F[i]]
  <2>3. G = [i \in 0..(m + 1) |-> G[i]] /\ G[m + 1] = next /\ \A i \in 0..m : G[i] = F[i]
    <3> HIDE DEF next
    <3> QED OBVIOUS
  <2> HIDE DEF G
  <2>4. ASSUME NEW i \in 0..(m + 1)
        PROVE  G[i] = IF i = 0 THEN [w |-> w, i |-> 0] ELSE Turn(G[i - 1], t)
    <3>1. CASE i = m + 1
      <4>1. i - 1 = m /\ m \in 0..m /\ i # 0
        BY <3>1
      <4> QED BY <3>1, <4>1, <2>3
    <3>2. CASE i # m + 1
      <4>1. i \in 0..m /\ (i = 0 \/ i - 1 \in 0..m)
        BY <3>2
      <4> HIDE DEF next
      <4> QED BY <2>2, <2>3, <4>1
    <3> QED BY <3>1, <3>2
  <2>5. G = [i \in 0..(m + 1) |-> IF i = 0 THEN [w |-> w, i |-> 0] ELSE Turn(G[i - 1], t)]
    BY <2>3, <2>4
  <2>6. Steps(w, t, m + 1, G)
    BY <2>5 DEF Steps
  <2> QED BY <2>6
<1>3. Nat \subseteq T
  BY <1>1, <1>2, Inductively
<1> QED BY <1>3

Turns(w, t, n, F) ==
    /\ Spread(w, t, n) = F[n].w /\ F[0] = [w |-> w, i |-> 0]
    /\ \A k \in Nat : k + 1 <= n => F[k + 1] = Turn(F[k], t)

LEMMA SpreadTurns ==
    ASSUME NEW w, NEW t, NEW n \in Nat
    PROVE  \E F : Turns(w, t, n, F)
<1> DEFINE F == CHOOSE F : Steps(w, t, n, F)
<1>1. Steps(w, t, n, F)
  BY StepsExists
<1>2. Spread(w, t, n) = F[n].w
  BY DEF Spread, Steps
<1> HIDE DEF F
<1>3. \A k \in 0..n : F[k] = IF k = 0 THEN [w |-> w, i |-> 0] ELSE Turn(F[k - 1], t)
  BY <1>1 DEF Steps
<1>4. ASSUME NEW k \in Nat, k + 1 <= n PROVE F[k + 1] = Turn(F[k], t)
  <2>1. k + 1 \in 0..n /\ (k + 1) - 1 = k /\ k + 1 # 0
    BY <1>4
  <2> QED BY <2>1, <1>3
<1>5. Turns(w, t, n, F)
  BY <1>2, <1>3, <1>4 DEF Turns
<1> QED BY <1>5

\* A turn leaves the widths, or takes one column one nearer to its target.
LEMMA TurnIs ==
    ASSUME NEW s, s.w \in Seq(Int), s.i \in Nat,
           NEW t, \A i \in 1..Len(s.w) : t[i] \in Int
    PROVE  \/ Turn(s, t) = s /\ \A i \in 1..Len(s.w) : s.w[i] = t[i]
           \/ \E i \in 1..Len(s.w), c \in {1, -1} :
                 /\ Turn(s, t).w = [s.w EXCEPT ![i] = s.w[i] + c] /\ Turn(s, t).i \in Nat
                 /\ s.w[i] # t[i] /\ (c = 1 <=> s.w[i] < t[i])
<1> DEFINE apart == {i \in DOMAIN s.w : s.w[i] # t[i]}
           i == After(apart, s.i)
<1>0. Len(s.w) \in Nat /\ DOMAIN s.w = 1..Len(s.w) /\ \A j \in 1..Len(s.w) : s.w[j] \in Int
  OBVIOUS
<1>1. CASE apart = {}
  <2>1. Turn(s, t) = s
    BY <1>1 DEF Turn
  <2>2. \A j \in 1..Len(s.w) : s.w[j] = t[j]
    BY <1>0, <1>1
  <2> QED BY <2>1, <2>2
<1>2. CASE apart # {}
  <2>1. i \in apart
    <3> DEFINE later == {j \in apart : j > s.i}
               S == IF later = {} THEN apart ELSE later
    <3>1. S \subseteq Nat /\ S # {} /\ S \subseteq apart
      BY <1>0, <1>2
    <3>2. i = Min(S)
      BY DEF After
    <3> HIDE DEF i, S
    <3>3. Min(S) \in S
      BY <3>1, MinOf
    <3> QED BY <3>1, <3>2, <3>3
  <2>2. Turn(s, t) = [w |-> [s.w EXCEPT ![i] = IF @ < t[i] THEN @ + 1 ELSE @ - 1], i |-> i]
    BY <1>2 DEF Turn
  <2> HIDE DEF i
  <2>3. i \in 1..Len(s.w) /\ i \in Nat /\ s.w[i] # t[i] /\ s.w[i] \in Int /\ t[i] \in Int
    <3>1. i \in 1..Len(s.w) /\ s.w[i] # t[i]
      BY <2>1, <1>0
    <3> QED BY <3>1, <1>0
  <2> HIDE DEF apart
  <2>4. Turn(s, t).w = [s.w EXCEPT ![i] = IF s.w[i] < t[i] THEN s.w[i] + 1 ELSE s.w[i] - 1] /\ Turn(s, t).i = i
    BY <2>2
  <2>5. CASE s.w[i] < t[i]
    <3>1. Turn(s, t).w = [s.w EXCEPT ![i] = s.w[i] + 1]
      BY <2>4, <2>5
    <3> QED BY <3>1, <2>3, <2>4, <2>5
  <2>6. CASE ~(s.w[i] < t[i])
    <3>1. Turn(s, t).w = [s.w EXCEPT ![i] = s.w[i] + (-1)]
      BY <2>3, <2>4, <2>6
    <3>2. -1 \in {1, -1} /\ -1 # 1
      OBVIOUS
    <3> QED BY <3>1, <3>2, <2>3, <2>4, <2>6
  <2> QED BY <2>5, <2>6
<1> QED BY <1>1, <1>2

\* Growing: nothing shrinks, nothing passes its target, and no more is given
\* than the amount.
LEMMA GrowsTo ==
    ASSUME NEW w \in Seq(Int), NEW t, NEW n \in Nat,
           \A i \in 1..Len(w) : t[i] \in Int /\ w[i] <= t[i]
    PROVE  LET v == Spread(w, t, n)
           IN  /\ v \in Seq(Int) /\ Len(v) = Len(w)
               /\ \A i \in 1..Len(w) : w[i] <= v[i] /\ v[i] <= t[i]
               /\ SumOf(v) <= SumOf(w) + n /\ SumOf(w) <= SumOf(v)
<1> PICK F : Turns(w, t, n, F)
  BY SpreadTurns
<1>1. /\ Spread(w, t, n) = F[n].w /\ F[0] = [w |-> w, i |-> 0]
      /\ \A k \in Nat : k + 1 <= n => F[k + 1] = Turn(F[k], t)
  BY DEF Turns
<1>0. Len(w) \in Nat /\ \A j \in 1..Len(w) : w[j] \in Int
  OBVIOUS
<1> DEFINE Wider(v, k) == /\ v \in Seq(Int) /\ Len(v) = Len(w)
                          /\ \A i \in 1..Len(w) : w[i] <= v[i] /\ v[i] <= t[i]
                          /\ SumOf(v) <= SumOf(w) + k /\ SumOf(w) <= SumOf(v)
           T == {k \in Nat : k <= n => F[k].i \in Nat /\ Wider(F[k].w, k)}
<1>2. SumOf(w) \in Int
  BY SumType
<1>3. 0 \in T
  <2>1. F[0].w = w /\ F[0].i = 0
    BY <1>1
  <2>2. Wider(w, 0)
    BY <1>0, <1>2
  <2> QED BY <2>1, <2>2
<1>4. ASSUME NEW k \in Nat, k \in T PROVE k + 1 \in T
  <2> HIDE DEF Wider
  <2> SUFFICES ASSUME k + 1 <= n PROVE F[k + 1].i \in Nat /\ Wider(F[k + 1].w, k + 1)
    OBVIOUS
  <2>1. F[k].i \in Nat /\ Wider(F[k].w, k)
    BY <1>4
  <2> USE DEF Wider
  <2>2. F[k + 1] = Turn(F[k], t)
    BY <1>1
  <2> DEFINE s == F[k]
             v == s.w
             x == F[k + 1].w
  <2> HIDE DEF s
  <2>3. v \in Seq(Int) /\ Len(v) = Len(w) /\ s.i \in Nat /\ \A i \in 1..Len(v) : t[i] \in Int
    BY <2>1 DEF s
  <2>4. \/ Turn(s, t) = s
        \/ \E i \in 1..Len(v), c \in {1, -1} :
              /\ Turn(s, t).w = [v EXCEPT ![i] = v[i] + c] /\ Turn(s, t).i \in Nat
              /\ v[i] # t[i] /\ (c = 1 <=> v[i] < t[i])
    BY <2>3, TurnIs
  <2>5. SumOf(v) \in Int
    BY <2>3, SumType
  <2>6. CASE Turn(s, t) = s
    <3>1. F[k + 1] = s
      BY <2>2, <2>6 DEF s
    <3>2. SumOf(v) <= SumOf(w) + (k + 1)
      BY <2>1, <2>5, <1>2 DEF s
    <3> QED BY <3>1, <3>2, <2>1 DEF s
  <2>7. ASSUME NEW i \in 1..Len(v), NEW c \in {1, -1},
               Turn(s, t).w = [v EXCEPT ![i] = v[i] + c], Turn(s, t).i \in Nat,
               v[i] # t[i], c = 1 <=> v[i] < t[i]
        PROVE  F[k + 1].i \in Nat /\ Wider(F[k + 1].w, k + 1)
    <3>1. F[k + 1].i \in Nat /\ x = [v EXCEPT ![i] = v[i] + c]
      BY <2>2, <2>7 DEF s
    <3>2. v[i] \in Int /\ t[i] \in Int /\ v[i] <= t[i] /\ w[i] <= v[i] /\ w[i] \in Int
      BY <2>1, <2>3, <1>0 DEF s
    <3>3. c = 1
      BY <3>2, <2>7
    <3> HIDE DEF x, v
    <3>4. x \in Seq(Int) /\ Len(x) = Len(v) /\ SumOf(x) = SumOf(v) + 1
      <4>1. v \in Seq(Int) /\ i \in 1..Len(v) /\ c \in Int
        BY <2>3
      <4>2. x \in Seq(Int) /\ Len(x) = Len(v) /\ SumOf(x) = SumOf(v) + c
        BY <4>1, <3>1, SumChanges
      <4> QED BY <4>2, <3>3
    <3>5. \A j \in 1..Len(w) : x[j] = IF j = i THEN v[j] + 1 ELSE v[j]
      BY <3>1, <3>3, <2>3
    <3>6. \A j \in 1..Len(w) : w[j] <= v[j] /\ v[j] <= t[j] /\ v[j] \in Int /\ w[j] \in Int /\ t[j] \in Int
      BY <2>1, <2>3, <1>0 DEF s, v
    <3>7. ASSUME NEW j \in 1..Len(w) PROVE w[j] <= x[j] /\ x[j] <= t[j]
      <4>1. v[i] + 1 <= t[i]
        BY <3>2, <3>3, <2>7
      <4> QED BY <4>1, <3>5, <3>6
    <3>8. SumOf(v) <= SumOf(w) + k /\ SumOf(w) <= SumOf(v)
      BY <2>1 DEF s, v
    <3>9. SumOf(x) <= SumOf(w) + (k + 1) /\ SumOf(w) <= SumOf(x)
      BY <3>4, <3>8, <2>5, <1>2
    <3>10. Wider(x, k + 1)
      BY <3>4, <3>7, <3>9, <2>3
    <3> QED BY <3>1, <3>10 DEF x
  <2> QED BY <2>4, <2>6, <2>7
<1>5. Nat \subseteq T
  <2> HIDE DEF T
  <2> QED BY <1>3, <1>4, Inductively
<1>6. Wider(F[n].w, n)
  BY <1>5
<1> QED BY <1>1, <1>6

\* Shrinking: the whole amount is taken, unless all are at their targets.
LEMMA ShrinksTo ==
    ASSUME NEW w \in Seq(Int), NEW t, NEW n \in Nat,
           \A i \in 1..Len(w) : t[i] \in Int /\ t[i] <= w[i]
    PROVE  LET v == Spread(w, t, n)
           IN  /\ v \in Seq(Int) /\ Len(v) = Len(w)
               /\ \A i \in 1..Len(w) : t[i] <= v[i]
               /\ SumOf(v) = SumOf(w) - n \/ \A i \in 1..Len(w) : v[i] = t[i]
<1> PICK F : Turns(w, t, n, F)
  BY SpreadTurns
<1>1. /\ Spread(w, t, n) = F[n].w /\ F[0] = [w |-> w, i |-> 0]
      /\ \A k \in Nat : k + 1 <= n => F[k + 1] = Turn(F[k], t)
  BY DEF Turns
<1>0. Len(w) \in Nat /\ \A j \in 1..Len(w) : w[j] \in Int
  OBVIOUS
<1> DEFINE Shrunk(v, k) == /\ v \in Seq(Int) /\ Len(v) = Len(w)
                           /\ \A i \in 1..Len(w) : t[i] <= v[i]
                           /\ SumOf(v) = SumOf(w) - k \/ \A i \in 1..Len(w) : v[i] = t[i]
           T == {k \in Nat : k <= n => F[k].i \in Nat /\ Shrunk(F[k].w, k)}
<1>2. SumOf(w) \in Int
  BY SumType
<1>3. 0 \in T
  <2>1. F[0].w = w /\ F[0].i = 0
    BY <1>1
  <2>2. Shrunk(w, 0)
    BY <1>0, <1>2
  <2> QED BY <2>1, <2>2
<1>4. ASSUME NEW k \in Nat, k \in T PROVE k + 1 \in T
  <2> HIDE DEF Shrunk
  <2> SUFFICES ASSUME k + 1 <= n PROVE F[k + 1].i \in Nat /\ Shrunk(F[k + 1].w, k + 1)
    OBVIOUS
  <2>1. F[k].i \in Nat /\ Shrunk(F[k].w, k)
    BY <1>4
  <2> USE DEF Shrunk
  <2>2. F[k + 1] = Turn(F[k], t)
    BY <1>1
  <2> DEFINE s == F[k]
             v == s.w
             x == F[k + 1].w
  <2> HIDE DEF s
  <2>3. v \in Seq(Int) /\ Len(v) = Len(w) /\ s.i \in Nat /\ \A i \in 1..Len(v) : t[i] \in Int
    BY <2>1 DEF s
  <2>4. \/ Turn(s, t) = s /\ \A i \in 1..Len(v) : v[i] = t[i]
        \/ \E i \in 1..Len(v), c \in {1, -1} :
              /\ Turn(s, t).w = [v EXCEPT ![i] = v[i] + c] /\ Turn(s, t).i \in Nat
              /\ v[i] # t[i] /\ (c = 1 <=> v[i] < t[i])
    BY <2>3, TurnIs
  <2>5. SumOf(v) \in Int
    BY <2>3, SumType
  <2>6. CASE Turn(s, t) = s /\ \A i \in 1..Len(v) : v[i] = t[i]
    <3>1. F[k + 1] = s
      BY <2>2, <2>6 DEF s
    <3> QED BY <3>1, <2>1, <2>3, <2>6 DEF s
  <2>7. ASSUME NEW i \in 1..Len(v), NEW c \in {1, -1},
               Turn(s, t).w = [v EXCEPT ![i] = v[i] + c], Turn(s, t).i \in Nat,
               v[i] # t[i], c = 1 <=> v[i] < t[i]
        PROVE  F[k + 1].i \in Nat /\ Shrunk(F[k + 1].w, k + 1)
    <3>1. F[k + 1].i \in Nat /\ x = [v EXCEPT ![i] = v[i] + c]
      BY <2>2, <2>7 DEF s
    <3>2. v[i] \in Int /\ t[i] \in Int /\ t[i] <= v[i] /\ i \in 1..Len(w)
      BY <2>1, <2>3, <1>0 DEF s
    <3>3. c = -1
      BY <3>2, <2>7
    <3> HIDE DEF x, v
    <3>4. x \in Seq(Int) /\ Len(x) = Len(v) /\ SumOf(x) = SumOf(v) + (-1)
      <4>1. v \in Seq(Int) /\ i \in 1..Len(v) /\ c \in Int
        BY <2>3
      <4>2. x \in Seq(Int) /\ Len(x) = Len(v) /\ SumOf(x) = SumOf(v) + c
        BY <4>1, <3>1, SumChanges
      <4> QED BY <4>2, <3>3
    <3>5. \A j \in 1..Len(w) : x[j] = IF j = i THEN v[j] + (-1) ELSE v[j]
      BY <3>1, <3>3, <2>3
    <3>6. \A j \in 1..Len(w) : t[j] <= v[j] /\ v[j] \in Int /\ t[j] \in Int
      BY <2>1, <2>3, <1>0 DEF s, v
    <3>7. ASSUME NEW j \in 1..Len(w) PROVE t[j] <= x[j]
      <4>1. t[i] <= v[i] + (-1)
        BY <3>2, <3>3, <2>7
      <4> QED BY <4>1, <3>5, <3>6
    <3>8. SumOf(v) = SumOf(w) - k
      BY <2>1, <3>2, <2>7 DEF s, v
    <3>9. SumOf(x) = SumOf(w) - (k + 1)
      BY <3>4, <3>8, <2>5, <1>2
    <3>10. Shrunk(x, k + 1)
      BY <3>4, <3>7, <3>9, <2>3
    <3> QED BY <3>1, <3>10 DEF x
  <2> QED BY <2>4, <2>6, <2>7
<1>5. Nat \subseteq T
  <2> HIDE DEF T
  <2> QED BY <1>3, <1>4, Inductively
<1>6. Shrunk(F[n].w, n)
  BY <1>5
<1> QED BY <1>1, <1>6

(***************************************************************************)
(* Viewport: the widths of columns.                                        *)
(***************************************************************************)

LEMMA SpecsAre ==
    ASSUME NEW c \in DOMAIN Specs
    PROVE  /\ Specs[c].min \in Nat /\ Specs[c].min >= 1 /\ Specs[c].max \in Nat /\ Specs[c].flex \in BOOLEAN
           /\ Specs[c].max = 0 \/ Specs[c].min <= Specs[c].max
<1> DEFINE R == [min : Nat \ {0}, max : Nat, flex : BOOLEAN]
<1>1. Specs \in Seq(R)
  BY ViewportAssumption
<1>2. Specs[c] \in R
  <2> HIDE DEF R
  <2> QED BY <1>1
<1>3. Specs[c].min \in Nat /\ Specs[c].min # 0 /\ Specs[c].max \in Nat /\ Specs[c].flex \in BOOLEAN
  BY <1>2
<1>4. Specs[c].max = 0 \/ Specs[c].min <= Specs[c].max
  BY ViewportAssumption
<1> QED BY <1>3, <1>4

\* Columns with their natural widths
Sized(cols, natural) ==
    /\ cols \in Seq(DOMAIN Specs) /\ natural \in Seq(Int) /\ Len(natural) = Len(cols)
    /\ \A i \in 1..Len(cols) : natural[i] >= Specs[cols[i]].min

LEMMA ColumnIs ==
    ASSUME NEW cols \in Seq(DOMAIN Specs), NEW i \in 1..Len(cols)
    PROVE  /\ Specs[cols[i]].min \in Nat /\ Specs[cols[i]].min >= 1 /\ Specs[cols[i]].max \in Nat
           /\ Specs[cols[i]].flex \in BOOLEAN
           /\ Specs[cols[i]].max = 0 \/ Specs[cols[i]].min <= Specs[cols[i]].max
<1>1. cols[i] \in DOMAIN Specs
  OBVIOUS
<1> QED BY <1>1, SpecsAre

\* How narrow they get
Low(cols, natural, i)  == Narrowest(cols, i, Capped(cols, i, natural[i]))
Lowest(cols, natural) == [i \in 1..Len(cols) |-> Low(cols, natural, i)]

LEMMA CappedIs ==
    ASSUME NEW cols, NEW natural, Sized(cols, natural), NEW i \in 1..Len(cols)
    PROVE  /\ Capped(cols, i, natural[i]) \in Int /\ natural[i] \in Int
           /\ Specs[cols[i]].min <= Capped(cols, i, natural[i]) /\ Capped(cols, i, natural[i]) <= natural[i]
           /\ Low(cols, natural, i) \in Int /\ Low(cols, natural, i) >= 1
           /\ Specs[cols[i]].min <= Low(cols, natural, i) /\ Low(cols, natural, i) <= Capped(cols, i, natural[i])
           /\ i \in FlexOrAll(cols) => Low(cols, natural, i) = Specs[cols[i]].min
           /\ i \notin FlexOrAll(cols) => Low(cols, natural, i) = Capped(cols, i, natural[i])
<1>1. natural[i] \in Int /\ natural[i] >= Specs[cols[i]].min /\ cols \in Seq(DOMAIN Specs)
  BY DEF Sized
<1>2. /\ Specs[cols[i]].min \in Nat /\ Specs[cols[i]].min >= 1 /\ Specs[cols[i]].max \in Nat
      /\ Specs[cols[i]].max = 0 \/ Specs[cols[i]].min <= Specs[cols[i]].max
  BY <1>1, ColumnIs
<1>3. /\ Capped(cols, i, natural[i]) \in Int
      /\ Specs[cols[i]].min <= Capped(cols, i, natural[i]) /\ Capped(cols, i, natural[i]) <= natural[i]
  BY <1>1, <1>2 DEF Capped
<1>4. Low(cols, natural, i) = IF i \in FlexOrAll(cols) THEN Specs[cols[i]].min ELSE Capped(cols, i, natural[i])
  BY DEF Low, Narrowest
<1> QED BY <1>1, <1>2, <1>3, <1>4

LEMMA LowestIs ==
    ASSUME NEW cols, NEW natural, Sized(cols, natural)
    PROVE  /\ Lowest(cols, natural) \in Seq(Int) /\ Len(Lowest(cols, natural)) = Len(cols)
           /\ \A i \in 1..Len(cols) : Lowest(cols, natural)[i] = Low(cols, natural, i)
<1>1. Len(cols) \in Nat /\ \A i \in 1..Len(cols) : Low(cols, natural, i) \in Int
  BY CappedIs DEF Sized
<1> QED BY <1>1 DEF Lowest

LEMMA GrowIs ==
    ASSUME NEW cols \in Seq(DOMAIN Specs), NEW w \in Seq(Int), Len(w) = Len(cols), NEW n \in Nat
    PROVE  LET v == Grow(w, cols, n)
           IN  /\ v \in Seq(Int) /\ Len(v) = Len(w)
               /\ \A i \in 1..Len(w) : w[i] <= v[i]
               /\ SumOf(v) <= SumOf(w) + n
<1> DEFINE t == [i \in DOMAIN w |-> Widest(cols, i, w[i], n)]
<1>1. DOMAIN w = 1..Len(w) /\ \A i \in 1..Len(w) : w[i] \in Int
  OBVIOUS
<1>2. ASSUME NEW i \in 1..Len(w) PROVE Widest(cols, i, w[i], n) \in Int /\ w[i] <= Widest(cols, i, w[i], n)
  <2>1. Specs[cols[i]].max \in Nat /\ w[i] \in Int
    BY <1>1, ColumnIs
  <2> QED BY <2>1 DEF Widest
<1>3. \A i \in 1..Len(w) : t[i] \in Int /\ w[i] <= t[i]
  BY <1>1, <1>2
<1>4. Grow(w, cols, n) = Spread(w, t, n)
  BY DEF Grow
<1> HIDE DEF t
<1> QED BY <1>3, <1>4, GrowsTo

\* Columns get no narrower than they may, and fill what there is at most, unless
\* they are as narrow as they may be.
LEMMA WidthsAre ==
    ASSUME NEW cols, NEW natural, Sized(cols, natural), NEW width \in Int
    PROVE  LET v == ColumnWidths(cols, natural, width)
           IN  /\ v \in Seq(Int) /\ Len(v) = Len(cols)
               /\ \A i \in 1..Len(cols) : Low(cols, natural, i) <= v[i]
               /\ SumOf(v) <= Available(cols, width) \/ \A i \in 1..Len(cols) : v[i] = Low(cols, natural, i)
<1> DEFINE available == Available(cols, width)
           capped    == [i \in DOMAIN cols |-> Capped(cols, i, natural[i])]
           v         == ColumnWidths(cols, natural, width)
<1>1. cols \in Seq(DOMAIN Specs) /\ natural \in Seq(Int) /\ Len(natural) = Len(cols) /\ Len(cols) \in Nat /\ DOMAIN cols = 1..Len(cols)
  BY DEF Sized
<1>2. \A i \in 1..Len(cols) : /\ Capped(cols, i, natural[i]) \in Int /\ natural[i] \in Int
                              /\ Capped(cols, i, natural[i]) <= natural[i] /\ Low(cols, natural, i) \in Int
                              /\ Low(cols, natural, i) <= Capped(cols, i, natural[i])
  BY CappedIs
<1>3. capped \in Seq(Int) /\ Len(capped) = Len(cols) /\ \A i \in 1..Len(cols) : capped[i] = Capped(cols, i, natural[i])
  BY <1>1, <1>2
<1>4. available \in Int
  BY <1>1, ViewportAssumption DEF Available
<1>5. v = IF SumOf(natural) <= available THEN Grow(natural, cols, available - SumOf(natural))
          ELSE IF SumOf(capped) <= available THEN Widen(capped, natural, cols, available - SumOf(capped))
          ELSE Shrink(capped, cols, SumOf(capped) - available)
  BY DEF ColumnWidths
<1>6. SumOf(natural) \in Int /\ SumOf(capped) \in Int
  BY <1>1, <1>3, SumType
<1> HIDE DEF available, capped, v
<1>7. CASE SumOf(natural) <= available
  <2> DEFINE n == available - SumOf(natural)
  <2>1. v = Grow(natural, cols, n) /\ n \in Nat
    BY <1>4, <1>5, <1>6, <1>7
  <2>2. n = available - SumOf(natural)
    OBVIOUS
  <2> HIDE DEF n
  <2>3. v \in Seq(Int) /\ Len(v) = Len(natural) /\ (\A i \in 1..Len(natural) : natural[i] <= v[i]) /\ SumOf(v) <= SumOf(natural) + n
    BY <2>1, <1>1, GrowIs
  <2>4. \A i \in 1..Len(cols) : Low(cols, natural, i) <= v[i]
    BY <2>3, <1>1, <1>2
  <2>5. SumOf(v) <= available
    BY <2>2, <2>3, <1>4, <1>6, SumType
  <2> QED BY <2>3, <2>4, <2>5, <1>1 DEF v, available
<1>8. CASE ~(SumOf(natural) <= available) /\ SumOf(capped) <= available
  <2> DEFINE n == available - SumOf(capped)
             wide == Spread(capped, natural, n)
             remainder == n - (SumOf(wide) - SumOf(capped))
  <2>1. v = Widen(capped, natural, cols, n) /\ n \in Nat
    BY <1>4, <1>5, <1>6, <1>8
  <2>2. n = available - SumOf(capped) /\ v = Grow(wide, cols, remainder)
    BY <2>1 DEF Widen
  <2> HIDE DEF n
  <2>3. \A i \in 1..Len(capped) : natural[i] \in Int /\ capped[i] <= natural[i]
    BY <1>2, <1>3
  <2>4. /\ wide \in Seq(Int) /\ Len(wide) = Len(capped) /\ \A i \in 1..Len(capped) : capped[i] <= wide[i]
        /\ SumOf(wide) <= SumOf(capped) + n /\ SumOf(capped) <= SumOf(wide)
    BY <2>1, <2>3, <1>3, GrowsTo
  <2> HIDE DEF wide
  <2>5. SumOf(wide) \in Int
    BY <2>4, SumType
  <2>6. remainder \in Nat /\ remainder = n - (SumOf(wide) - SumOf(capped))
    BY <2>1, <2>4, <2>5, <1>6
  <2> HIDE DEF remainder
  <2>7. v \in Seq(Int) /\ Len(v) = Len(wide) /\ (\A i \in 1..Len(wide) : wide[i] <= v[i]) /\ SumOf(v) <= SumOf(wide) + remainder
    BY <2>2, <2>4, <2>6, <1>1, <1>3, GrowIs
  <2>8. ASSUME NEW i \in 1..Len(cols) PROVE Low(cols, natural, i) <= v[i]
    <3>1. capped[i] <= wide[i] /\ wide[i] <= v[i] /\ capped[i] = Capped(cols, i, natural[i]) /\ wide[i] \in Int /\ v[i] \in Int
      BY <2>4, <2>7, <1>3
    <3> QED BY <3>1, <1>2
  <2>9. SumOf(v) <= available
    BY <2>1, <2>2, <2>5, <2>6, <2>7, <1>4, <1>6, SumType
  <2> QED BY <2>4, <2>7, <2>8, <2>9, <1>3 DEF v, available
<1>9. CASE ~(SumOf(natural) <= available) /\ ~(SumOf(capped) <= available)
  <2> DEFINE n == SumOf(capped) - available
             t == [i \in DOMAIN capped |-> Narrowest(cols, i, capped[i])]
  <2>1. v = Spread(capped, t, n) /\ n \in Nat
    BY <1>4, <1>5, <1>6, <1>9 DEF Shrink
  <2>2. n = SumOf(capped) - available
    OBVIOUS
  <2>3. \A i \in 1..Len(capped) : t[i] = Low(cols, natural, i)
    BY <1>3 DEF Low
  <2> HIDE DEF n, t
  <2>4. \A i \in 1..Len(capped) : t[i] \in Int /\ t[i] <= capped[i]
    BY <2>3, <1>2, <1>3
  <2>5. /\ v \in Seq(Int) /\ Len(v) = Len(capped) /\ \A i \in 1..Len(capped) : t[i] <= v[i]
        /\ SumOf(v) = SumOf(capped) - n \/ \A i \in 1..Len(capped) : v[i] = t[i]
    BY <2>1, <2>4, <1>3, ShrinksTo
  <2>6. SumOf(capped) - n = available
    BY <2>2, <1>4, <1>6
  <2>7. SumOf(v) <= available \/ \A i \in 1..Len(cols) : v[i] = Low(cols, natural, i)
    BY <2>3, <2>5, <2>6, <1>3, <1>4
  <2> QED BY <2>3, <2>5, <2>7, <1>3 DEF v, available
<1> QED BY <1>7, <1>8, <1>9

(***************************************************************************)
(* Viewport: the window.                                                   *)
(***************************************************************************)

LEMMA SliceIs ==
    ASSUME NEW X, NEW s \in Seq(X), NEW a \in 1..Len(s), NEW b \in a..Len(s)
    PROVE  /\ SubSeq(s, a, b) \in Seq(X) /\ Len(SubSeq(s, a, b)) = b - a + 1
           /\ \A k \in 1..(b - a + 1) : SubSeq(s, a, b)[k] = s[a + k - 1] /\ a + k - 1 \in 1..Len(s)
<1>1. Len(s) \in Nat /\ a \in Nat /\ b \in Nat /\ a <= b /\ b <= Len(s) /\ 1 <= a
  OBVIOUS
<1>2. SubSeq(s, a, b) = [k \in 1..(1 + b - a) |-> s[k + a - 1]]
  OBVIOUS
<1>3. 1 + b - a = b - a + 1 /\ b - a + 1 \in Nat /\ \A k \in 1..(b - a + 1) : k + a - 1 = a + k - 1 /\ a + k - 1 \in 1..Len(s)
  BY <1>1
<1>4. \A k \in 1..(b - a + 1) : s[a + k - 1] \in X
  BY <1>3
<1> QED BY <1>2, <1>3, <1>4

LEMMA WholeIs ==
    ASSUME NEW X, NEW s \in Seq(X)
    PROVE  SubSeq(s, 1, Len(s)) = s
OBVIOUS

LEMMA NeedsIs ==
    ASSUME NEW w \in Seq(Int), NEW a \in 1..Len(w), NEW b \in a..Len(w)
    PROVE  Needs(w, a, b) \in Int
<1>1. SubSeq(w, a, b) \in Seq(Int)
  BY SliceIs
<1>2. SumOf(SubSeq(w, a, b)) \in Int
  BY <1>1, SumType
<1> QED BY <1>2, ViewportAssumption DEF Needs

\* One column less needs no more.
LEMMA NeedsLess ==
    ASSUME NEW w \in Seq(Int), \A i \in 1..Len(w) : w[i] >= 0,
           NEW a \in 1..Len(w), NEW b \in a..Len(w), b > a
    PROVE  Needs(w, a, b - 1) <= Needs(w, a, b)
<1> DEFINE u == SubSeq(w, a, b - 1)
           v == SubSeq(w, a, b)
<1>1. a \in Nat /\ b \in Nat /\ b - 1 \in a..Len(w) /\ b \in 1..Len(w) /\ b - 1 - a + 1 = b - a /\ b - a \in Nat
  OBVIOUS
<1>2. u \in Seq(Int) /\ Len(u) = b - a /\ \A k \in 1..(b - a) : u[k] = w[a + k - 1]
  BY <1>1, SliceIs
<1>3. v \in Seq(Int) /\ Len(v) = b - a + 1 /\ \A k \in 1..(b - a + 1) : v[k] = w[a + k - 1]
  BY <1>1, SliceIs
<1> HIDE DEF u, v
<1>4. w[b] \in Int /\ w[b] >= 0
  BY <1>1
<1>5. Append(u, w[b]) \in Seq(Int) /\ Len(Append(u, w[b])) = b - a + 1
  BY <1>1, <1>2, <1>4
<1>6. ASSUME NEW k \in 1..(b - a + 1) PROVE Append(u, w[b])[k] = v[k]
  <2>1. CASE k = b - a + 1
    <3>1. a + k - 1 = b /\ k = Len(u) + 1
      BY <2>1, <1>1, <1>2
    <3>2. Append(u, w[b])[Len(u) + 1] = w[b]
      BY <1>2, <1>4, AppendProperties
    <3>3. v[k] = w[a + k - 1]
      BY <1>3
    <3> QED BY <3>1, <3>2, <3>3
  <2>2. CASE k # b - a + 1
    <3>1. k \in 1..(b - a)
      BY <2>2, <1>1
    <3> QED BY <3>1, <1>1, <1>2, <1>3, <1>4
  <2> QED BY <2>1, <2>2
<1>7. v = Append(u, w[b])
  BY <1>3, <1>5, <1>6, SeqEqual
<1>8. SumOf(v) = SumOf(u) + w[b] /\ SumOf(u) \in Int
  BY <1>2, <1>4, <1>7, SumAppends, SumType
<1>9. Needs(w, a, b) = SumOf(v) + Sep * (b - a) /\ Needs(w, a, b - 1) = SumOf(u) + Sep * ((b - 1) - a)
  BY DEF Needs, u, v
<1>10. Sep * (b - a) = Sep * ((b - 1) - a) + Sep /\ Sep \in Nat /\ Sep * ((b - 1) - a) \in Int
  BY <1>1, ViewportAssumption
<1> HIDE DEF u, v
<1> QED BY <1>4, <1>8, <1>9, <1>10

\* The greatest of some numbers up to a limit
LEMMA MaxNat ==
    ASSUME NEW T, NEW n \in Nat, T \subseteq 0..n, T # {}
    PROVE  \E x \in T : \A y \in T : y <= x
<1> DEFINE U == {n - y : y \in T}
<1>1. U \subseteq Nat /\ U # {}
  <2>1. ASSUME NEW y \in T PROVE n - y \in Nat
    <3>1. y \in 0..n
      OBVIOUS
    <3> QED BY <3>1
  <2> QED BY <2>1
<1>2. PICK u \in U : \A z \in U : u <= z
  BY <1>1, MinNat
<1>3. PICK x \in T : u = n - x
  BY <1>2
<1>4. ASSUME NEW y \in T PROVE y <= x
  <2>1. n - x <= n - y
    BY <1>2, <1>3
  <2>2. x \in 0..n /\ y \in 0..n
    OBVIOUS
  <2> QED BY <2>1, <2>2
<1> QED BY <1>4

\* The last column that fits: from the first on, and within the width if it is
\* not the only one
LEMMA EndIs ==
    ASSUME NEW w \in Seq(Int), \A i \in 1..Len(w) : w[i] >= 0, NEW a \in 1..Len(w), NEW width \in Int
    PROVE  LET e == End(w, a, width)
           IN  e \in a..Len(w) /\ (e > a => Needs(w, a, e) <= width)
<1> DEFINE budget == IF a > 1 THEN width - Arrow ELSE width
           fits   == {j \in a..Len(w) : j = a \/ Needs(w, a, j) <= budget}
           last   == CHOOSE j \in fits : \A k \in fits : k <= j
           e      == End(w, a, width)
<1>1. budget \in Int /\ budget <= width
  BY ViewportAssumption
<1>2. fits \subseteq 0..Len(w) /\ fits # {} /\ Len(w) \in Nat
  OBVIOUS
<1>3. last \in fits
  <2> HIDE DEF fits
  <2>1. \E j \in fits : \A k \in fits : k <= j
    BY <1>2, MaxNat
  <2> QED BY <2>1
<1>4. e = IF last < Len(w) /\ budget - Needs(w, a, last) < Arrow /\ last > a THEN last - 1 ELSE last
  BY DEF End
<1> HIDE DEF last, e
<1>5. last \in a..Len(w) /\ (last = a \/ Needs(w, a, last) <= budget)
  BY <1>3
<1> HIDE DEF fits, budget
<1>6. Needs(w, a, last) \in Int
  BY <1>5, NeedsIs
<1>7. CASE e = last
  BY <1>1, <1>5, <1>6, <1>7 DEF e
<1>8. CASE last > a /\ e = last - 1
  <2>1. e \in a..Len(w)
    BY <1>5, <1>8
  <2>2. Needs(w, a, last - 1) <= Needs(w, a, last)
    BY <1>5, <1>8, NeedsLess
  <2>3. Needs(w, a, e) \in Int
    BY <2>1, NeedsIs
  <2>4. last # a
    BY <1>5, <1>8
  <2>5. Needs(w, a, e) <= width
    BY <2>2, <2>3, <2>4, <1>1, <1>5, <1>6, <1>8
  <2> QED BY <2>1, <2>5 DEF e
<1> QED BY <1>4, <1>7, <1>8

\* The window holds the cursor, if there is one, and fits if it has two columns.
LEMMA RangeIs ==
    ASSUME NEW w \in Seq(Int), \A i \in 1..Len(w) : w[i] >= 0, NEW width \in Int,
           NEW first \in 1..Len(w), NEW point \in 0..Len(w), point # 0 => first <= point
    PROVE  LET g == ViewportRange(w, width, first, point)
           IN  /\ g.start \in 1..Len(w) /\ g.end \in g.start..Len(w)
               /\ point # 0 => g.start <= point /\ point <= g.end
               /\ g.end > g.start => Needs(w, g.start, g.end) <= width
<1> DEFINE g == ViewportRange(w, width, first, point)
<1>0. Len(w) \in Nat /\ first \in Nat /\ point \in Nat /\ 1 <= Len(w) /\ first <= Len(w) /\ point <= Len(w)
  OBVIOUS
<1>1. CASE Needs(w, 1, Len(w)) <= width
  <2>1. g.start = 1 /\ g.end = Len(w)
    BY <1>1 DEF ViewportRange
  <2> QED BY <2>1, <1>0, <1>1
<1>2. CASE ~(Needs(w, 1, Len(w)) <= width)
  <2> DEFINE holds == {i \in first..Len(w) : point <= End(w, i, width) \/ End(w, i, width) = Len(w)}
             start == CHOOSE i \in holds : \A j \in holds : i <= j
  <2>1. g.start = start /\ g.end = End(w, start, width)
    BY <1>2 DEF ViewportRange
  <2>2. \A i \in 1..Len(w) : End(w, i, width) \in i..Len(w)
    BY EndIs
  <2> DEFINE x == IF point # 0 THEN point ELSE first
  <2>3. x \in holds
    <3>1. x \in first..Len(w) /\ x \in 1..Len(w) /\ point <= x
      BY <1>0
    <3>2. End(w, x, width) \in x..Len(w)
      BY <3>1, <2>2
    <3> HIDE DEF x
    <3>3. point <= End(w, x, width)
      BY <3>1, <3>2, <1>0
    <3> QED BY <3>1, <3>3
  <2>4. holds \subseteq Nat
    BY <1>0
  <2>5. start \in holds /\ start <= x
    <3> HIDE DEF holds, x
    <3>1. \E i \in holds : \A j \in holds : i <= j
      BY <2>3, <2>4, MinNat
    <3>2. start \in holds /\ \A j \in holds : start <= j
      BY <3>1
    <3> QED BY <3>2, <2>3
  <2> HIDE DEF start
  <2>6. start \in 1..Len(w) /\ (point <= End(w, start, width) \/ End(w, start, width) = Len(w))
    BY <2>5, <1>0
  <2>7. End(w, start, width) \in start..Len(w) /\ (End(w, start, width) > start => Needs(w, start, End(w, start, width)) <= width)
    BY <2>6, EndIs
  <2>8. point # 0 => start <= point /\ point <= End(w, start, width)
    BY <2>5, <2>6, <1>0
  <2> QED BY <2>1, <2>6, <2>7, <2>8
<1> QED BY <1>1, <1>2

LEMMA SumOfOnes ==
    ASSUME NEW w \in Seq(Int), \A k \in 1..Len(w) : w[k] >= 1
    PROVE  SumOf(w) >= Len(w)
<1> DEFINE u == [k \in 1..Len(w) |-> 1]
           G == [k \in 0..Len(w) |-> k]
<1>0. Len(w) \in Nat
  OBVIOUS
<1>1. u \in Seq(Int) /\ Len(u) = Len(w) /\ \A k \in 1..Len(w) : u[k] = 1
  BY <1>0
<1>2. G[0] = 0 /\ G[Len(w)] = Len(w) /\ \A k \in 1..Len(w) : G[k] = G[k - 1] + 1
  BY <1>0
<1> HIDE DEF u, G
<1>3. SumOf(u) = Len(w)
  BY <1>1, <1>2, SumIs
<1>4. SumOf(u) <= SumOf(w)
  BY <1>1, SumMono
<1> QED BY <1>0, <1>3, <1>4, SumType

\* A window of columns that fits in the table's widths fits in its own.
LEMMA WindowFits ==
    ASSUME NEW cols, NEW natural, Sized(cols, natural), NEW width \in Int,
           NEW a \in 1..Len(cols), NEW b \in a..Len(cols), b > a,
           Needs(ColumnWidths(cols, natural, width), a, b) <= width
    PROVE  LET d == SubSeq(cols, a, b)
           IN  Needs(ColumnWidths(d, SubSeq(natural, a, b), width), 1, Len(d)) <= width
<1> DEFINE d == SubSeq(cols, a, b)
           nat == SubSeq(natural, a, b)
           w == ColumnWidths(cols, natural, width)
           v == ColumnWidths(d, nat, width)
           n == b - a + 1
           low == Lowest(d, nat)
<1>0. /\ cols \in Seq(DOMAIN Specs) /\ natural \in Seq(Int) /\ Len(natural) = Len(cols) /\ Len(cols) \in Nat
      /\ a \in Nat /\ b \in Nat /\ n \in Nat /\ n >= 2 /\ a \in 1..Len(natural) /\ b \in a..Len(natural)
  BY DEF Sized
<1>1. /\ d \in Seq(DOMAIN Specs) /\ Len(d) = n
      /\ \A k \in 1..n : d[k] = cols[a + k - 1] /\ a + k - 1 \in 1..Len(cols)
  BY <1>0, SliceIs
<1>2. /\ nat \in Seq(Int) /\ Len(nat) = n
      /\ \A k \in 1..n : nat[k] = natural[a + k - 1] /\ a + k - 1 \in 1..Len(cols)
  BY <1>0, SliceIs
<1>3. w \in Seq(Int) /\ Len(w) = Len(cols) /\ \A i \in 1..Len(cols) : Low(cols, natural, i) <= w[i]
  BY WidthsAre
<1> HIDE DEF d, nat, w
<1>4. Sized(d, nat)
  BY <1>1, <1>2 DEF Sized
<1>5. /\ v \in Seq(Int) /\ Len(v) = n
      /\ SumOf(v) <= Available(d, width) \/ \A k \in 1..n : v[k] = Low(d, nat, k)
  BY <1>1, <1>4, WidthsAre
<1>6. low \in Seq(Int) /\ Len(low) = n /\ \A k \in 1..n : low[k] = Low(d, nat, k)
  BY <1>1, <1>4, LowestIs
<1> HIDE DEF v, low
<1>7. ASSUME NEW k \in 1..n PROVE Low(d, nat, k) <= w[a + k - 1]
  <2> DEFINE i == a + k - 1
  <2>1. i \in 1..Len(cols) /\ d[k] = cols[i] /\ nat[k] = natural[i] /\ k \in 1..Len(d)
    BY <1>1, <1>2
  <2> HIDE DEF i
  <2>2. /\ Low(cols, natural, i) \in Int /\ Specs[cols[i]].min <= Low(cols, natural, i)
        /\ Low(cols, natural, i) <= Capped(cols, i, natural[i]) /\ Capped(cols, i, natural[i]) \in Int
        /\ i \notin FlexOrAll(cols) => Low(cols, natural, i) = Capped(cols, i, natural[i])
    BY <2>1, CappedIs
  <2>3. /\ Low(d, nat, k) \in Int
        /\ k \in FlexOrAll(d) => Low(d, nat, k) = Specs[d[k]].min
        /\ k \notin FlexOrAll(d) => Low(d, nat, k) = Capped(d, k, nat[k])
    BY <2>1, <1>4, CappedIs
  <2>4. Capped(d, k, nat[k]) = Capped(cols, i, natural[i])
    BY <2>1 DEF Capped
  <2>5. k \notin FlexOrAll(d) => i \notin FlexOrAll(cols)
    <3> SUFFICES ASSUME k \notin FlexOrAll(d) PROVE i \notin FlexOrAll(cols)
      OBVIOUS
    <3>1. DOMAIN d = 1..n /\ DOMAIN cols = 1..Len(cols)
      BY <1>0, <1>1
    <3>2. ~Specs[d[k]].flex /\ \E x \in 1..n : Specs[d[x]].flex
      BY <3>1 DEF FlexOrAll
    <3>3. PICK x \in 1..n : Specs[d[x]].flex
      BY <3>2
    <3>4. a + x - 1 \in DOMAIN cols /\ Specs[cols[a + x - 1]].flex
      BY <3>1, <3>3, <1>1
    <3> QED BY <2>1, <3>2, <3>4 DEF FlexOrAll
  <2>6. Low(d, nat, k) <= Low(cols, natural, i)
    BY <2>1, <2>2, <2>3, <2>4, <2>5
  <2>7. Low(cols, natural, i) <= w[i] /\ w[i] \in Int
    BY <2>1, <1>3
  <2>8. Low(d, nat, k) <= w[i]
    BY <2>2, <2>3, <2>6, <2>7
  <2> QED BY <2>8 DEF i
<1> DEFINE u == SubSeq(w, a, b)
           p == Sep * (b - a)
           room == width - p
<1>8. u \in Seq(Int) /\ Len(u) = n /\ \A k \in 1..n : u[k] = w[a + k - 1]
  <2>1. a \in 1..Len(w) /\ b \in a..Len(w)
    BY <1>3
  <2> QED BY <2>1, <1>3, SliceIs
<1>9. SumOf(u) + p <= width /\ p \in Int
  BY <1>0, ViewportAssumption DEF Needs, w
<1> HIDE DEF u
<1>10. SumOf(low) <= SumOf(u)
  BY <1>6, <1>7, <1>8, SumMono
<1>11. SumOf(low) >= n
  <2>1. \A k \in 1..n : Low(d, nat, k) >= 1
    BY <1>1, <1>4, CappedIs
  <2> QED BY <2>1, <1>6, SumOfOnes
<1>12. SumOf(u) \in Int /\ SumOf(low) \in Int /\ SumOf(v) \in Int
  BY <1>5, <1>6, <1>8, SumType
<1>13. p = Sep * (Len(d) - 1)
  BY <1>0, <1>1
<1> HIDE DEF p
<1>14. room \in Int /\ room >= n /\ SumOf(low) <= room
  BY <1>9, <1>10, <1>11, <1>12, <1>0
<1>15. Available(d, width) = room
  BY <1>1, <1>13, <1>14, <1>0 DEF Available
<1>16. SumOf(v) <= room
  <2>1. CASE SumOf(v) <= Available(d, width)
    BY <2>1, <1>15
  <2>2. CASE \A k \in 1..n : v[k] = Low(d, nat, k)
    <3>1. v = low
      BY <2>2, <1>5, <1>6, SeqEqual
    <3> QED BY <3>1, <1>14
  <2> QED BY <2>1, <2>2, <1>5
<1>17. SubSeq(v, 1, Len(d)) = v
  BY <1>1, <1>5, WholeIs
<1>18. Needs(v, 1, Len(d)) = SumOf(v) + p
  BY <1>13, <1>17 DEF Needs
<1>19. Needs(v, 1, Len(d)) <= width
  BY <1>9, <1>12, <1>16, <1>18
<1> QED BY <1>19 DEF d, nat, v


(***************************************************************************)
(* Viewport: the columns that are visible, and where the cursor is.        *)
(***************************************************************************)

\* Only repeats nothing that was not repeated.
LEMMA OnlyOnce ==
    ASSUME NEW X, NEW s \in Seq(X), NEW S, \A i, j \in 1..Len(s) : s[i] = s[j] => i = j
    PROVE  \A i, j \in 1..Len(Only(s, S)) : Only(s, S)[i] = Only(s, S)[j] => i = j
<1>1. Len(s) \in Nat /\ DOMAIN s = 1..Len(s) /\ \A i \in 1..Len(s) : s[i] \in X
  OBVIOUS
<1>2. PICK F : Keeps(s, S, Len(s), F) /\ Only(s, S) = F[Len(s)]
  BY <1>1, OnlyKeeps
<1>3. \A i \in 0..Len(s) : F[i] = IF i = 0 THEN <<>> ELSE IF s[i] \in S THEN Append(F[i - 1], s[i]) ELSE F[i - 1]
  BY <1>1, <1>2 DEF Keeps
<1> DEFINE Once(n, q) == /\ q \in Seq(X)
                         /\ \A i \in 1..Len(q) : \E j \in 1..n : s[j] = q[i]
                         /\ \A i, j \in 1..Len(q) : q[i] = q[j] => i = j
           T == {n \in Nat : n <= Len(s) => Once(n, F[n])}
<1>4. 0 \in T
  <2>1. F[0] = <<>>
    BY <1>1, <1>3
  <2>2. Once(0, <<>>)
    OBVIOUS
  <2> HIDE DEF Once
  <2> QED BY <2>1, <2>2
<1>5. ASSUME NEW n \in Nat, n \in T PROVE n + 1 \in T
  <2> SUFFICES ASSUME n + 1 <= Len(s) PROVE Once(n + 1, F[n + 1])
    OBVIOUS
  <2>1. Once(n, F[n]) /\ n + 1 \in 0..Len(s) /\ n + 1 \in 1..Len(s) /\ s[n + 1] \in X /\ (n + 1) - 1 = n /\ n + 1 # 0
    BY <1>5, <1>1
  <2>2. F[n + 1] = IF s[n + 1] \in S THEN Append(F[n], s[n + 1]) ELSE F[n]
    BY <2>1, <1>3
  <2>3. \A j \in 1..n : j \in 1..(n + 1) /\ j \in 1..Len(s) /\ j # n + 1
    BY <1>1
  <2>4. CASE s[n + 1] \notin S
    BY <2>1, <2>2, <2>3, <2>4
  <2>5. CASE s[n + 1] \in S
    <3> DEFINE q == F[n]
               x == s[n + 1]
               p == Append(q, x)
    <3>1. /\ q \in Seq(X) /\ F[n + 1] = p /\ x \in X
          /\ \A i \in 1..Len(q) : \E j \in 1..n : s[j] = q[i]
          /\ \A i, j \in 1..Len(q) : q[i] = q[j] => i = j
      BY <2>1, <2>2, <2>5
    <3>2. \A i \in 1..Len(q) : q[i] # x
      BY <3>1, <2>1, <2>3
    <3> HIDE DEF q
    <3>3. /\ p \in Seq(X) /\ Len(p) = Len(q) + 1 /\ Len(q) \in Nat
          /\ p[Len(q) + 1] = x /\ \A i \in 1..Len(q) : p[i] = q[i]
      <4> HIDE DEF x
      <4> QED BY <3>1
    <3>4. n + 1 \in 1..(n + 1) /\ s[n + 1] = x
      OBVIOUS
    <3> HIDE DEF p, x
    <3>5. \A i \in 1..Len(p) : i = Len(q) + 1 \/ i \in 1..Len(q)
      BY <3>3
    <3>6. ASSUME NEW i \in 1..Len(p) PROVE \E j \in 1..(n + 1) : s[j] = p[i]
      <4>1. CASE i = Len(q) + 1
        BY <4>1, <3>3, <3>4
      <4>2. CASE i \in 1..Len(q)
        <5>1. PICK j \in 1..n : s[j] = q[i]
          BY <4>2, <3>1
        <5> QED BY <4>2, <5>1, <3>3, <2>3
      <4> QED BY <4>1, <4>2, <3>5
    <3>7. ASSUME NEW i \in 1..Len(p), NEW j \in 1..Len(p), p[i] = p[j] PROVE i = j
      <4>1. CASE i = Len(q) + 1 /\ j = Len(q) + 1
        BY <4>1
      <4>2. CASE i = Len(q) + 1 /\ j \in 1..Len(q)
        BY <4>2, <3>2, <3>3, <3>7
      <4>3. CASE i \in 1..Len(q) /\ j = Len(q) + 1
        BY <4>3, <3>2, <3>3, <3>7
      <4>4. CASE i \in 1..Len(q) /\ j \in 1..Len(q)
        BY <4>4, <3>1, <3>3, <3>7
      <4> QED BY <4>1, <4>2, <4>3, <4>4, <3>5
    <3> QED BY <3>1, <3>3, <3>6, <3>7
  <2> QED BY <2>4, <2>5
<1>6. Nat \subseteq T
  <2> HIDE DEF T
  <2> QED BY <1>4, <1>5, Inductively
<1>7. Once(Len(s), F[Len(s)])
  <2> HIDE DEF Once
  <2> QED BY <1>1, <1>6
<1> QED BY <1>2, <1>7

\* The columns that are not put away, once each
LEMMA ColumnsAre ==
    ASSUME NEW h, h \subseteq DOMAIN Specs, h # DOMAIN Specs
    PROVE  LET cols == VisibleColumns(h)
           IN  /\ cols \in Seq(DOMAIN Specs) /\ Len(cols) \in Nat /\ Len(cols) >= 1
               /\ \A i \in 1..Len(cols) : cols[i] \in DOMAIN Specs \ h
               /\ \A c \in DOMAIN Specs \ h : \E i \in 1..Len(cols) : cols[i] = c
               /\ \A i, j \in 1..Len(cols) : cols[i] = cols[j] => i = j
<1> DEFINE s == [c \in DOMAIN Specs |-> c]
           X == DOMAIN Specs
           cols == VisibleColumns(h)
<1>1. X = 1..Len(Specs) /\ Len(Specs) \in Nat
  <2> DEFINE R == [min : Nat \ {0}, max : Nat, flex : BOOLEAN]
  <2>1. Specs \in Seq(R)
    BY ViewportAssumption
  <2> HIDE DEF R
  <2> QED BY <2>1
<1>2. s \in Seq(X) /\ DOMAIN s = X /\ Len(s) = Len(Specs) /\ \A c \in X : s[c] = c
  BY <1>1
<1>3. cols = Only(s, X \ h)
  BY DEF VisibleColumns
<1> HIDE DEF s, X, cols
<1>4. /\ cols \in Seq(X)
      /\ \A i \in DOMAIN cols : cols[i] \in X \ h
      /\ \A j \in X : j \in X \ h => \E i \in DOMAIN cols : cols[i] = j
  <2> DEFINE S == X \ h
  <2> HIDE DEF S
  <2>1. /\ Only(s, S) \in Seq(X)
        /\ \A i \in DOMAIN Only(s, S) : Only(s, S)[i] \in S /\ \E j \in DOMAIN s : s[j] = Only(s, S)[i]
        /\ \A j \in DOMAIN s : s[j] \in S => \E i \in DOMAIN Only(s, S) : Only(s, S)[i] = s[j]
    BY <1>2, OnlyIs
  <2>2. cols = Only(s, S)
    BY <1>3 DEF S
  <2>3. /\ cols \in Seq(X)
        /\ \A i \in DOMAIN cols : cols[i] \in S
        /\ \A j \in X : j \in S => \E i \in DOMAIN cols : cols[i] = j
    BY <2>1, <2>2, <1>2
  <2> QED BY <2>3 DEF S
<1>5. DOMAIN cols = 1..Len(cols) /\ Len(cols) \in Nat
  BY <1>4
<1>6. \A i, j \in 1..Len(cols) : cols[i] = cols[j] => i = j
  <2>1. \A i, j \in 1..Len(s) : s[i] = s[j] => i = j
    BY <1>1, <1>2
  <2> QED BY <2>1, <1>2, <1>3, OnlyOnce
<1>7. PICK c \in X : c \notin h
  BY DEF X
<1>8. PICK i \in 1..Len(cols) : cols[i] = c
  BY <1>4, <1>5, <1>7
<1>9. Len(cols) >= 1
  BY <1>5, <1>8
<1> QED BY <1>4, <1>5, <1>6, <1>9 DEF X, cols

LEMMA PlaceIs ==
    ASSUME NEW X, NEW cols \in Seq(X), NEW c
    PROVE  /\ Place(cols, c) \in 0..Len(cols)
           /\ Place(cols, c) # 0 => cols[Place(cols, c)] = c
           /\ (\E i \in 1..Len(cols) : cols[i] = c) => Place(cols, c) # 0
<1> DEFINE S == {j \in DOMAIN cols : cols[j] = c}
<1>1. DOMAIN cols = 1..Len(cols) /\ Len(cols) \in Nat
  OBVIOUS
<1>2. CASE S = {}
  <2>1. Place(cols, c) = 0
    BY <1>2 DEF Place
  <2> QED BY <2>1, <1>1, <1>2
<1>3. CASE S # {}
  <2>1. Place(cols, c) \in S
    BY <1>3 DEF Place
  <2> QED BY <2>1, <1>1
<1> QED BY <1>2, <1>3

LEMMA PicksAre ==
    ASSUME NEW cols \in Seq(DOMAIN Specs), NEW n \in {"all", "few"}
    PROVE  Sized(cols, Pick(WidthOf[n], cols))
<1> DEFINE natural == Pick(WidthOf[n], cols)
<1>1. DOMAIN cols = 1..Len(cols) /\ Len(cols) \in Nat /\ \A i \in 1..Len(cols) : cols[i] \in DOMAIN Specs
  OBVIOUS
<1>2. natural = [i \in 1..Len(cols) |-> WidthOf[n][cols[i]]]
  BY <1>1 DEF Pick
<1>3. \A c \in DOMAIN Specs : WidthOf[n][c] \in Int /\ WidthOf[n][c] >= Specs[c].min
  <2>1. WidthOf[n] \in [DOMAIN Specs -> Nat]
    BY ViewportAssumption
  <2>2. \A c \in DOMAIN Specs : WidthOf[n][c] >= Specs[c].min
    BY ViewportAssumption
  <2> QED BY <2>1, <2>2
<1>4. natural \in Seq(Int) /\ Len(natural) = Len(cols) /\ \A i \in 1..Len(cols) : natural[i] = WidthOf[n][cols[i]]
  BY <1>1, <1>2, <1>3
<1> HIDE DEF natural
<1>5. \A i \in 1..Len(cols) : natural[i] >= Specs[cols[i]].min
  BY <1>1, <1>3, <1>4
<1>6. Sized(cols, natural)
  BY <1>4, <1>5 DEF Sized
<1> QED BY <1>6 DEF natural

LEMMA TableWidthsAre ==
    ASSUME NEW cols, NEW natural, Sized(cols, natural), NEW width \in Int
    PROVE  LET w == ColumnWidths(cols, natural, width)
           IN  w \in Seq(Int) /\ Len(w) = Len(cols) /\ \A i \in 1..Len(w) : w[i] >= 0
<1> DEFINE w == ColumnWidths(cols, natural, width)
<1>1. w \in Seq(Int) /\ Len(w) = Len(cols) /\ \A i \in 1..Len(cols) : Low(cols, natural, i) <= w[i]
  BY WidthsAre
<1> HIDE DEF w
<1>2. \A i \in 1..Len(cols) : Low(cols, natural, i) \in Int /\ Low(cols, natural, i) >= 1
  BY CappedIs
<1>3. \A i \in 1..Len(cols) : w[i] \in Int /\ w[i] >= 0
  BY <1>1, <1>2
<1> QED BY <1>1, <1>3 DEF w

LEMMA Loads ==
    ASSUME NEW r \in {"all", "few", "kept"}
    PROVE  /\ \E n \in {"all", "few"} : LoadedWidths(r) = WidthOf[n]
           /\ \E n \in {"all", "few"} : KeptWidths(r) = WidthOf[n]
BY DEF LoadedWidths, KeptWidths

(***************************************************************************)
(* Viewport: what is drawn.                                                *)
(***************************************************************************)

\* The columns of a window: among them the cursor's, if it is visible, and
\* within the terminal unless there is one
LEMMA ComputedIs ==
    ASSUME NEW h, h \subseteq DOMAIN Specs, h # DOMAIN Specs, NEW c \in DOMAIN Specs,
           NEW r \in {"all", "few", "kept"}, NEW s, NEW width \in Int,
           NEW first \in 1..Len(VisibleColumns(h)),
           Place(VisibleColumns(h), c) # 0 => first <= Place(VisibleColumns(h), c)
    PROVE  LET d == Computed(h, c, r, s, width, first)
           IN  /\ c \notin h => d.cursor # 0 /\ d.cols[d.cursor] = c
               /\ Len(d.cols) > 1 => Needs(d.widths, 1, Len(d.cols)) <= width
               /\ Range(d.cols) \subseteq DOMAIN Specs
<1> DEFINE cols == VisibleColumns(h)
           natural == Pick(LoadedWidths(r), cols)
           w == ColumnWidths(cols, natural, width)
           i == Place(cols, c)
           g == ViewportRange(w, width, first, i)
           drawn == SubSeq(cols, g.start, g.end)
           nat == SubSeq(natural, g.start, g.end)
           d == Computed(h, c, r, s, width, first)
<1>1. d = [cols |-> drawn, cursor |-> Place(drawn, c), sorted |-> s, widths |-> ColumnWidths(drawn, nat, width)]
  BY DEF Computed, Window
<1>2. /\ cols \in Seq(DOMAIN Specs) /\ Len(cols) \in Nat /\ Len(cols) >= 1
      /\ \A x \in DOMAIN Specs \ h : \E k \in 1..Len(cols) : cols[k] = x
  BY ColumnsAre
<1>3. Sized(cols, natural)
  <2> HIDE DEF cols
  <2> QED BY <1>2, Loads, PicksAre
<1>4. i \in 0..Len(cols) /\ (i # 0 => cols[i] = c) /\ (c \notin h => i # 0)
  <2> HIDE DEF cols
  <2>1. /\ i \in 0..Len(cols) /\ (i # 0 => cols[i] = c)
        /\ (\E k \in 1..Len(cols) : cols[k] = c) => i # 0
    BY <1>2, PlaceIs
  <2> QED BY <2>1, <1>2
<1>5. first \in 1..Len(cols) /\ (i # 0 => first <= i)
  OBVIOUS
<1> HIDE DEF d, cols, natural, i
<1>6. w \in Seq(Int) /\ Len(w) = Len(cols) /\ \A k \in 1..Len(w) : w[k] >= 0
  BY <1>3, TableWidthsAre
<1>7. /\ g.start \in 1..Len(w) /\ g.end \in g.start..Len(w)
      /\ i # 0 => g.start <= i /\ i <= g.end
      /\ g.end > g.start => Needs(w, g.start, g.end) <= width
  <2> HIDE DEF w
  <2> QED BY <1>4, <1>5, <1>6, RangeIs
<1> DEFINE a == g.start
           b == g.end
<1>8. /\ a \in 1..Len(cols) /\ b \in a..Len(cols) /\ (i # 0 => a <= i /\ i <= b)
      /\ b > a => Needs(w, a, b) <= width
  BY <1>6, <1>7
<1>9. /\ drawn = SubSeq(cols, a, b) /\ nat = SubSeq(natural, a, b)
  OBVIOUS
<1> HIDE DEF a, b, g, drawn, nat
<1>10. /\ drawn \in Seq(DOMAIN Specs) /\ Len(drawn) = b - a + 1
       /\ \A k \in 1..(b - a + 1) : drawn[k] = cols[a + k - 1]
  BY <1>2, <1>8, <1>9, SliceIs
<1>11. /\ a \in Nat /\ b \in Nat /\ i \in Nat
  BY <1>2, <1>4, <1>8
<1>12. ASSUME c \notin h PROVE d.cursor # 0 /\ d.cols[d.cursor] = c
  <2>1. i # 0 /\ cols[i] = c /\ a <= i /\ i <= b
    BY <1>4, <1>8, <1>12
  <2>2. i - a + 1 \in 1..(b - a + 1) /\ a + (i - a + 1) - 1 = i
    BY <2>1, <1>11
  <2>3. drawn[i - a + 1] = c /\ i - a + 1 \in 1..Len(drawn)
    BY <2>1, <2>2, <1>10
  <2>4. \E k \in 1..Len(drawn) : drawn[k] = c
    BY <2>3
  <2>5. Place(drawn, c) # 0 /\ drawn[Place(drawn, c)] = c
    BY <2>4, <1>10, PlaceIs
  <2> QED BY <2>5, <1>1
<1>13. ASSUME Len(d.cols) > 1 PROVE Needs(d.widths, 1, Len(d.cols)) <= width
  <2>1. d.cols = drawn /\ d.widths = ColumnWidths(drawn, nat, width)
    BY <1>1
  <2>2. b > a
    BY <2>1, <1>10, <1>11, <1>13
  <2>3. Needs(ColumnWidths(cols, natural, width), a, b) <= width
    BY <2>2, <1>8 DEF w
  <2>4. Needs(ColumnWidths(drawn, nat, width), 1, Len(drawn)) <= width
    BY <2>2, <2>3, <1>3, <1>8, <1>9, WindowFits
  <2> QED BY <2>1, <2>4
<1>14. Range(d.cols) \subseteq DOMAIN Specs
  <2>1. d.cols = drawn
    BY <1>1
  <2> QED BY <2>1, <1>10 DEF Range
<1> QED BY <1>12, <1>13, <1>14 DEF d

\* The first column drawn is a visible one, and not beyond the cursor's.
LEMMA OffsetIs ==
    ASSUME NEW h, h \subseteq DOMAIN Specs, h # DOMAIN Specs, NEW c \in DOMAIN Specs,
           NEW r \in {"all", "few", "kept"}, NEW width \in Int, NEW first \in Nat, first >= 1
    PROVE  LET o == Offset(h, c, r, width, first)
           IN  /\ o \in 1..Len(VisibleColumns(h))
               /\ Place(VisibleColumns(h), c) # 0 => o <= Place(VisibleColumns(h), c)
<1> DEFINE cols == VisibleColumns(h)
           natural == Pick(KeptWidths(r), cols)
           w == ColumnWidths(cols, natural, width)
           i == Place(cols, c)
           f == EnsureCursorVisible(first, i, Len(cols))
           o == Offset(h, c, r, width, first)
<1>1. o = IF i = 0 THEN 1 ELSE ViewportRange(w, width, f, i).start
  BY DEF Offset
<1>2. cols \in Seq(DOMAIN Specs) /\ Len(cols) \in Nat /\ Len(cols) >= 1
  BY ColumnsAre
<1> HIDE DEF cols, o
<1>3. Sized(cols, natural)
  BY <1>2, Loads, PicksAre
<1>4. i \in 0..Len(cols)
  BY <1>2, PlaceIs
<1> HIDE DEF natural, i
<1>5. w \in Seq(Int) /\ Len(w) = Len(cols) /\ \A k \in 1..Len(w) : w[k] >= 0
  BY <1>3, TableWidthsAre
<1> HIDE DEF w
<1>6. CASE i = 0
  BY <1>1, <1>2, <1>6 DEF cols, o, i
<1>7. CASE i # 0
  <2>1. f \in 1..Len(cols) /\ f <= i
    BY <1>2, <1>4, <1>7 DEF EnsureCursorVisible
  <2> HIDE DEF f
  <2>2. /\ ViewportRange(w, width, f, i).start \in 1..Len(w)
        /\ ViewportRange(w, width, f, i).start <= i
    BY <2>1, <1>4, <1>5, <1>7, RangeIs
  <2>3. o \in 1..Len(cols) /\ o <= i
    BY <2>2, <1>1, <1>5, <1>7
  <2> QED BY <2>3 DEF cols, o, i
<1> QED BY <1>6, <1>7

\* The cursor goes to a visible column, or stays when there is none that way.
LEMMA StepIs ==
    ASSUME NEW c, NEW h, NEW right \in BOOLEAN
    PROVE  \/ Step(c, h, right) \in DOMAIN Specs \ h
           \/ /\ Step(c, h, right) = c
              /\ \A x \in DOMAIN Specs \ h : ~(IF right THEN x > c ELSE x < c)
<1> DEFINE d == {x \in DOMAIN Specs \ h : IF right THEN x > c ELSE x < c}
           n == Len(Specs)
<1>1. DOMAIN Specs = 1..n /\ n \in Nat
  <2> DEFINE R == [min : Nat \ {0}, max : Nat, flex : BOOLEAN]
  <2>1. Specs \in Seq(R)
    BY ViewportAssumption
  <2> HIDE DEF R
  <2> QED BY <2>1
<1>2. CASE d = {}
  <2>1. Step(c, h, right) = c
    BY <1>2 DEF Step
  <2> QED BY <2>1, <1>2
<1>3. CASE d # {}
  <2>1. Step(c, h, right) = CHOOSE x \in d : \A y \in d : IF right THEN x <= y ELSE x >= y
    BY <1>3 DEF Step
  <2>2. d \subseteq DOMAIN Specs \ h
    OBVIOUS
  <2> HIDE DEF d, n
  <2>3. d \subseteq 0..n /\ d \subseteq Nat
    BY <2>2, <1>1
  <2>4. \E x \in d : \A y \in d : x <= y
    BY <2>3, <1>3, MinNat
  <2>5. \E x \in d : \A y \in d : y <= x
    BY <2>3, <1>1, <1>3, MaxNat
  <2>6. \E x \in d : \A y \in d : IF right THEN x <= y ELSE x >= y
    <3>1. \A x, y \in d : y <= x => x >= y
      BY <2>3
    <3>2. CASE right
      BY <3>2, <2>4
    <3>3. CASE ~right
      BY <3>1, <3>3, <2>5
    <3> QED BY <3>2, <3>3
  <2> QED BY <2>1, <2>2, <2>6
<1> QED BY <1>2, <1>3

(***************************************************************************)
(* Viewport: the invariant.                                                *)
(***************************************************************************)

\* Some column is visible, and the first one drawn is a visible one and not
\* beyond the cursor's.
ViewKept ==
    /\ put \subseteq DOMAIN Specs /\ put # DOMAIN Specs /\ at \in DOMAIN Specs
    /\ rows \in {"all", "few", "kept"} /\ termWidth \in TermWidths
    /\ offset \in 1..Len(VisibleColumns(put))
    /\ Place(VisibleColumns(put), at) # 0 => offset <= Place(VisibleColumns(put), at)
    /\ CacheFresh

LEMMA SpecsNumbered == DOMAIN Specs = 1..Len(Specs) /\ Len(Specs) \in Nat /\ LastColumn \in DOMAIN Specs
<1> DEFINE R == [min : Nat \ {0}, max : Nat, flex : BOOLEAN]
<1>1. Specs \in Seq(R)
  BY ViewportAssumption
<1>2. DOMAIN Specs = 1..Len(Specs) /\ Len(Specs) \in Nat
  <2> HIDE DEF R
  <2> QED BY <1>1
<1> QED BY <1>2, ViewportAssumption

LEMMA WidthIs ==
    ASSUME NEW width \in TermWidths
    PROVE  width \in Int
<1>1. TermWidths \subseteq Nat
  BY ViewportAssumption
<1> QED BY <1>1

LEMMA DrawnIs ==
    ASSUME ViewKept
    PROVE  DrawnRight /\ Range(cachedVP.cols) \subseteq DOMAIN Specs
<1>1. termWidth \in Int
  BY WidthIs DEF ViewKept
<1>2. LET d == Computed(put, at, rows, sorted, termWidth, offset)
      IN  /\ at \notin put => d.cursor # 0 /\ d.cols[d.cursor] = at
          /\ Len(d.cols) > 1 => Needs(d.widths, 1, Len(d.cols)) <= termWidth
          /\ Range(d.cols) \subseteq DOMAIN Specs
  BY <1>1, ComputedIs DEF ViewKept
<1>3. cachedVP = Computed(put, at, rows, sorted, termWidth, offset)
  BY DEF ViewKept, CacheFresh
<1> QED BY <1>2, <1>3 DEF DrawnRight, CursorColumnDrawn, RowFits, CacheFresh

LEMMA ViewKeptInit ==
    ASSUME ViewportInit
    PROVE  ViewKept
<1>1. /\ put = {} /\ at = 1 /\ rows = "all" /\ sorted = FALSE /\ termWidth \in TermWidths /\ offset = 1
      /\ cachedVP = Computed({}, 1, "all", FALSE, termWidth, 1)
  BY DEF ViewportInit
<1>2. DOMAIN Specs # {} /\ 1 \in DOMAIN Specs
  BY SpecsNumbered
<1> DEFINE cols == VisibleColumns({})
<1>3. cols \in Seq(DOMAIN Specs) /\ Len(cols) \in Nat /\ Len(cols) >= 1
  BY <1>2, ColumnsAre
<1> HIDE DEF cols
<1>4. Place(cols, 1) \in 0..Len(cols)
  BY <1>3, PlaceIs
<1>5. 1 \in 1..Len(cols) /\ (Place(cols, 1) # 0 => 1 <= Place(cols, 1))
  BY <1>3, <1>4
<1>6. CacheFresh
  BY <1>1 DEF CacheFresh
<1> QED BY <1>1, <1>2, <1>5, <1>6 DEF ViewKept, cols

\* Where the screen is drawn again, and where only the columns are
LEMMA UpdateKeeps ==
    ASSUME ViewKept, UpdateViewport,
           put' \subseteq DOMAIN Specs, put' # DOMAIN Specs, at' \in DOMAIN Specs,
           rows' \in {"all", "few", "kept"}, termWidth' \in TermWidths
    PROVE  ViewKept'
<1>1. offset \in Nat /\ offset >= 1
  BY DEF ViewKept
<1>2. termWidth' \in Int
  BY WidthIs
<1> DEFINE o == Offset(put', at', rows', termWidth', offset)
<1>3. /\ o \in 1..Len(VisibleColumns(put'))
      /\ Place(VisibleColumns(put'), at') # 0 => o <= Place(VisibleColumns(put'), at')
  BY <1>1, <1>2, OffsetIs
<1>4. offset' = o /\ CacheFresh'
  BY DEF UpdateViewport, Draw, CacheFresh
<1> QED BY <1>3, <1>4 DEF ViewKept

LEMMA DrawKeeps ==
    ASSUME ViewKept, Draw, UNCHANGED <<put, at, rows, termWidth, offset>>
    PROVE  ViewKept'
<1>1. CacheFresh'
  BY DEF Draw, CacheFresh
<1> QED BY <1>1 DEF ViewKept

LEMMA ViewKeptNext ==
    ASSUME ViewKept, [ViewportNext]_viewportVars
    PROVE  ViewKept'
<1>1. /\ put \subseteq DOMAIN Specs /\ put # DOMAIN Specs /\ at \in DOMAIN Specs
      /\ rows \in {"all", "few", "kept"} /\ termWidth \in TermWidths
  BY DEF ViewKept
<1>2. PICK x \in DOMAIN Specs : x \notin put
  BY <1>1
<1>3. ASSUME NEW right \in BOOLEAN PROVE Step(at, put, right) \in DOMAIN Specs
  BY <1>1, StepIs
<1>4. Step(0, put, TRUE) \in DOMAIN Specs
  <2>1. x > 0
    BY SpecsNumbered
  <2> QED BY <2>1, <1>2, StepIs
<1>5. Step(Len(Specs) + 1, put, FALSE) \in DOMAIN Specs
  <2>1. x < Len(Specs) + 1
    BY SpecsNumbered
  <2> QED BY <2>1, <1>2, StepIs
<1>6. CASE MoveColumnCursor
  <2>1. at' \in DOMAIN Specs
    <3>1. /\ Step(at, put, TRUE) \in DOMAIN Specs /\ Step(at, put, FALSE) \in DOMAIN Specs
          /\ Range(cachedVP.cols) \subseteq DOMAIN Specs
      BY <1>3, DrawnIs
    <3> QED BY <3>1, <1>4, <1>5, <1>6 DEF MoveColumnCursor
  <2> QED BY <2>1, <1>1, <1>6, UpdateKeeps DEF MoveColumnCursor
<1>7. CASE HideCurrentColumn
  <2>1. at \notin put /\ Len(VisibleColumns(put)) > 1 /\ put' = put \cup {at} /\ UpdateViewport
        /\ rows' = rows /\ termWidth' = termWidth
    BY <1>7 DEF HideCurrentColumn
  <2>2. at' \in DOMAIN Specs
    <3>1. Step(at, put, TRUE) \in DOMAIN Specs /\ Step(at, put, FALSE) \in DOMAIN Specs
      BY <1>3
    <3> QED BY <3>1, <1>7 DEF HideCurrentColumn
  <2> DEFINE cols == VisibleColumns(put)
  <2>3. /\ \A i \in 1..Len(cols) : cols[i] \in DOMAIN Specs \ put
        /\ \A i, j \in 1..Len(cols) : cols[i] = cols[j] => i = j
        /\ Len(cols) \in Nat /\ Len(cols) > 1
    BY <2>1, <1>1, ColumnsAre
  <2> HIDE DEF cols
  <2>4. 1 \in 1..Len(cols) /\ 2 \in 1..Len(cols) /\ 1 # 2
    BY <2>3
  <2>5. cols[1] # cols[2] /\ cols[1] \in DOMAIN Specs \ put /\ cols[2] \in DOMAIN Specs \ put
    BY <2>3, <2>4
  <2>6. put' \subseteq DOMAIN Specs /\ put' # DOMAIN Specs
    BY <2>1, <2>5, <1>1
  <2> QED BY <2>1, <2>2, <2>6, <1>1, UpdateKeeps
<1>8. CASE ShowColumns
  BY <1>1, <1>8, UpdateKeeps DEF ShowColumns
<1>9. CASE ColumnFinderJump
  BY <1>1, <1>9, UpdateKeeps DEF ColumnFinderJump
<1>10. CASE CloseServiceLog
  <2>1. at' \in DOMAIN Specs
    BY <1>10, SpecsNumbered DEF CloseServiceLog
  <2> QED BY <2>1, <1>1, <1>10, UpdateKeeps DEF CloseServiceLog
<1>11. CASE RefreshTable
  BY <1>1, <1>11, UpdateKeeps DEF RefreshTable
<1>12. CASE SortColumns
  BY <1>12, DrawKeeps DEF SortColumns
<1>13. CASE WindowSize
  BY <1>1, <1>13, UpdateKeeps DEF WindowSize
<1>14. CASE OtherUpdate \/ UNCHANGED viewportVars
  BY <1>14 DEF OtherUpdate, Reuse, viewportVars, ViewKept, CacheFresh
<1> QED BY <1>6, <1>7, <1>8, <1>9, <1>10, <1>11, <1>12, <1>13, <1>14 DEF ViewportNext

\* Whatever is hidden, moved to, loaded or resized, what is drawn is current,
\* fits the terminal and has the cursor's column (table.go viewportRange,
\* columnWidths; model_tabs.go updateTabViewport).
THEOREM ColumnsDrawnRight ==
    ViewportInit /\ [][ViewportNext]_viewportVars => []DrawnRight
<1>1. ViewKept => DrawnRight
  BY DrawnIs
<1> QED BY <1>1, ViewKeptInit, ViewKeptNext, PTL

-----------------------------------------------------------------------------
(***************************************************************************)
(* Tables: sorting.                                                        *)
(***************************************************************************)

\* R orders S: whatever two are in S, one comes first.
Orders(R, S) ==
    /\ \A a \in S : <<a, a>> \notin R
    /\ \A a, b, c \in S : <<a, b>> \in R /\ <<b, c>> \in R => <<a, c>> \in R
    /\ \A a, b \in S : a = b \/ <<a, b>> \in R \/ <<b, a>> \in R

Firsts(R, S, a) == {b \in S : <<b, a>> \in R}
Rank(R, S, a) == Cardinality(Firsts(R, S, a))

LEMMA RankIs ==
    ASSUME NEW S, IsFiniteSet(S), NEW R, Orders(R, S), NEW a \in S
    PROVE  /\ Rank(R, S, a) \in Nat /\ Rank(R, S, a) < Cardinality(S)
           /\ \A b \in S : <<a, b>> \in R => Rank(R, S, a) < Rank(R, S, b)
<1>1. \A b \in S : Firsts(R, S, b) \in SUBSET S
  BY DEF Firsts
<1>2. \A b \in S : IsFiniteSet(Firsts(R, S, b)) /\ Rank(R, S, b) \in Nat
  BY <1>1, FS_Subset, FS_CardinalityType DEF Rank
<1>3. Cardinality(S) \in Nat /\ <<a, a>> \notin R
  BY FS_CardinalityType DEF Orders
<1>4. Rank(R, S, a) < Cardinality(S)
  <2>1. Firsts(R, S, a) # S
    BY <1>3 DEF Firsts
  <2>2. Rank(R, S, a) <= Cardinality(S) /\ Cardinality(S) # Rank(R, S, a)
    BY <2>1, <1>1, FS_Subset DEF Rank
  <2> QED BY <2>2, <1>2, <1>3
<1>5. ASSUME NEW b \in S, <<a, b>> \in R PROVE Rank(R, S, a) < Rank(R, S, b)
  <2>1. Firsts(R, S, a) \in SUBSET Firsts(R, S, b)
    BY <1>5 DEF Firsts, Orders
  <2>2. Firsts(R, S, a) # Firsts(R, S, b)
    BY <1>3, <1>5 DEF Firsts
  <2>3. Rank(R, S, a) <= Rank(R, S, b) /\ Rank(R, S, b) # Rank(R, S, a)
    BY <2>1, <2>2, <1>2, FS_Subset DEF Rank
  <2> QED BY <2>3, <1>2
<1> QED BY <1>2, <1>4, <1>5

LEMMA RanksDiffer ==
    ASSUME NEW S, IsFiniteSet(S), NEW R, Orders(R, S), NEW a \in S, NEW b \in S, Rank(R, S, a) <= Rank(R, S, b)
    PROVE  a = b \/ <<a, b>> \in R
<1>1. Rank(R, S, a) \in Nat /\ Rank(R, S, b) \in Nat
  BY RankIs
<1>2. <<b, a>> \in R => Rank(R, S, b) < Rank(R, S, a)
  BY RankIs
<1>3. a = b \/ <<a, b>> \in R \/ <<b, a>> \in R
  BY DEF Orders
<1> QED BY <1>1, <1>2, <1>3

Ranked(R, S, F) == F = [n \in 1..Cardinality(S) |-> CHOOSE a \in S : Rank(R, S, a) = n - 1]

\* What is listed by rank is all of S, each once, in order.
LEMMA RankedIs ==
    ASSUME NEW S, IsFiniteSet(S), NEW R, Orders(R, S), NEW F, Ranked(R, S, F)
    PROVE  /\ Cardinality(S) \in Nat /\ F \in [1..Cardinality(S) -> S]
           /\ \A a \in S : \E n \in 1..Cardinality(S) : F[n] = a
           /\ \A m, n \in 1..Cardinality(S) : m < n => <<F[m], F[n]>> \in R /\ F[m] # F[n]
<1> DEFINE n == Cardinality(S)
           f == [a \in S |-> Rank(R, S, a) + 1]
<1>1. n \in Nat
  BY FS_CardinalityType
<1>2. IsFiniteSet(1..n) /\ Cardinality(1..n) = n
  <2>1. IsFiniteSet(1..n) /\ Cardinality(1..n) = IF 1 > n THEN 0 ELSE n - 1 + 1
    BY <1>1, FS_Interval
  <2> HIDE DEF n
  <2> QED BY <2>1, <1>1
<1>3. \A a \in S : Rank(R, S, a) \in Nat /\ Rank(R, S, a) < n
  BY RankIs
<1>4. \A a, b \in S : Rank(R, S, a) = Rank(R, S, b) => a = b
  <2> SUFFICES ASSUME NEW a \in S, NEW b \in S, Rank(R, S, a) = Rank(R, S, b) PROVE a = b
    OBVIOUS
  <2>1. Rank(R, S, a) <= Rank(R, S, b) /\ Rank(R, S, b) <= Rank(R, S, a)
    BY <1>3
  <2>2. (a = b \/ <<a, b>> \in R) /\ (b = a \/ <<b, a>> \in R)
    BY <2>1, RanksDiffer
  <2> QED BY <2>2 DEF Orders
<1>5. f \in Injection(S, 1..n)
  <2>1. \A a \in S : Rank(R, S, a) + 1 \in 1..n
    <3> HIDE DEF n
    <3> QED BY <1>1, <1>3
  <2>2. f \in [S -> 1..n]
    BY <2>1
  <2>3. ASSUME NEW a \in S, NEW b \in S, f[a] = f[b] PROVE a = b
    <3>1. Rank(R, S, a) + 1 = Rank(R, S, b) + 1
      BY <2>3
    <3>2. Rank(R, S, a) = Rank(R, S, b)
      BY <3>1, <1>3
    <3> QED BY <3>2, <1>4
  <2> HIDE DEF f
  <2> QED BY <2>2, <2>3 DEF Injection, IsInjective
<1>6. f \in Surjection(S, 1..n)
  <2> HIDE DEF f
  <2> QED BY <1>2, <1>5, FS_Injection
<1>7. ASSUME NEW k \in 1..n PROVE F[k] \in S /\ Rank(R, S, F[k]) = k - 1
  <2>1. PICK a \in S : f[a] = k
    <3> HIDE DEF f
    <3> QED BY <1>6 DEF Surjection
  <2>2. Rank(R, S, a) = k - 1
    <3>1. Rank(R, S, a) + 1 = k
      BY <2>1
    <3> QED BY <3>1, <1>3
  <2>3. F[k] = CHOOSE b \in S : Rank(R, S, b) = k - 1
    BY DEF Ranked
  <2> QED BY <2>2, <2>3
<1>8. F \in [1..n -> S]
  BY <1>7 DEF Ranked
<1>9. ASSUME NEW a \in S PROVE \E k \in 1..n : F[k] = a
  <2> DEFINE k == Rank(R, S, a) + 1
  <2>1. k \in 1..n /\ k - 1 = Rank(R, S, a)
    <3> HIDE DEF n
    <3> QED BY <1>1, <1>3
  <2>2. F[k] \in S /\ Rank(R, S, F[k]) = Rank(R, S, a)
    BY <2>1, <1>7
  <2> QED BY <2>1, <2>2, <1>4
<1>10. ASSUME NEW k \in 1..n, NEW m \in 1..n, k < m PROVE <<F[k], F[m]>> \in R /\ F[k] # F[m]
  <2>1. Rank(R, S, F[k]) = k - 1 /\ Rank(R, S, F[m]) = m - 1 /\ F[k] \in S /\ F[m] \in S
    BY <1>7
  <2>2. Rank(R, S, F[k]) <= Rank(R, S, F[m]) /\ F[k] # F[m]
    BY <2>1, <1>10
  <2> QED BY <2>1, <2>2, RanksDiffer
<1> QED BY <1>1, <1>8, <1>9, <1>10

TableRows   == Range(Stored)
SortEntries == [col : Cols, desc : BOOLEAN]
Shape(s)    == s \in Seq(SortEntries)

LEMMA CellsAre ==
    ASSUME NEW r \in TableRows, NEW c \in Cols
    PROVE  Cells[r][c] \in Int \cup {Null}
<1>1. Cells \in [TableRows -> [Cols -> Int \cup {Null}]]
  BY TablesAssumption DEF TableRows
<1> QED BY <1>1

LEMMA PrecedesIs ==
    ASSUME NEW e \in SortEntries, NEW r \in TableRows, NEW q \in TableRows
    PROVE  /\ Precedes(r, q, e) => Cells[r][e.col] # Cells[q][e.col]
           /\ Cells[r][e.col] # Cells[q][e.col] => Precedes(r, q, e) \/ Precedes(q, r, e)
           /\ \A u \in TableRows : Precedes(r, q, e) /\ Precedes(q, u, e) => Precedes(r, u, e)
<1>1. e.col \in Cols /\ e.desc \in BOOLEAN
  BY DEF SortEntries
<1>2. \A u \in TableRows : Cells[u][e.col] \in Int \cup {Null}
  BY <1>1, CellsAre
<1>3. Precedes(r, q, e) => Cells[r][e.col] # Cells[q][e.col]
  BY DEF Precedes
<1>4. Cells[r][e.col] # Cells[q][e.col] => Precedes(r, q, e) \/ Precedes(q, r, e)
  BY <1>1, <1>2 DEF Precedes
<1>5. ASSUME NEW u \in TableRows, Precedes(r, q, e), Precedes(q, u, e) PROVE Precedes(r, u, e)
  <2> DEFINE a == Cells[r][e.col]
             b == Cells[q][e.col]
             c == Cells[u][e.col]
  <2>1. a \in Int \cup {Null} /\ b \in Int \cup {Null} /\ c \in Int \cup {Null}
    BY <1>2
  <2>2. a # b /\ a # Null /\ b # c /\ b # Null
    BY <1>5 DEF Precedes
  <2>3. IF e.desc THEN a > b ELSE a < b
    BY <1>5, <2>2 DEF Precedes
  <2>4. c # Null => IF e.desc THEN b > c ELSE b < c
    BY <1>5, <2>2 DEF Precedes
  <2> HIDE DEF a, b, c
  <2>5. a # c /\ (c # Null => IF e.desc THEN a > c ELSE a < c)
    BY <1>1, <2>1, <2>2, <2>3, <2>4
  <2> QED BY <2>2, <2>5 DEF Precedes, a, c
<1> QED BY <1>3, <1>4, <1>5

LEMMA TiebreakerIs ==
    ASSUME NEW s, Shape(s)
    PROVE  /\ Shape(WithPKTiebreaker(s)) /\ Len(WithPKTiebreaker(s)) \in Nat
           /\ \A i \in 1..Len(WithPKTiebreaker(s)) : WithPKTiebreaker(s)[i] \in SortEntries
           /\ \E i \in 1..Len(WithPKTiebreaker(s)) : WithPKTiebreaker(s)[i].col = 1
<1> DEFINE x == [col |-> 1, desc |-> FALSE]
           t == WithPKTiebreaker(s)
<1>1. x \in SortEntries /\ x.col = 1
  BY TablesAssumption DEF SortEntries, Cols
<1> HIDE DEF x
<1>2. s \in Seq(SortEntries) /\ Len(s) \in Nat
  BY DEF Shape
<1>3. CASE \E i \in 1..Len(s) : s[i].col = 1
  <2>1. t = s
    BY <1>3 DEF WithPKTiebreaker
  <2> HIDE DEF t
  <2> QED BY <2>1, <1>2, <1>3 DEF Shape, t
<1>4. CASE ~(\E i \in 1..Len(s) : s[i].col = 1)
  <2>1. t = Append(s, x)
    BY <1>4 DEF WithPKTiebreaker, x
  <2> HIDE DEF t
  <2>2. t \in Seq(SortEntries) /\ Len(t) = Len(s) + 1 /\ t[Len(s) + 1] = x
    BY <2>1, <1>1, <1>2
  <2>3. Len(s) + 1 \in 1..Len(t) /\ t[Len(s) + 1].col = 1
    BY <2>2, <1>1, <1>2
  <2> QED BY <2>2, <2>3 DEF Shape, t
<1> QED BY <1>3, <1>4

\* The cell of a row in the n-th column sorted by, and rows equal in the ones before
CellAt(r, t, n) == Cells[r][t[n].col]
Tied(r, q, t, n) == \A j \in 1..(n - 1) : CellAt(r, t, j) = CellAt(q, t, j)

LEMMA DifferSomewhere ==
    ASSUME NEW s, Shape(s), NEW r \in TableRows, NEW q \in TableRows, r # q
    PROVE  \E n \in 1..Len(WithPKTiebreaker(s)) :
               CellAt(r, WithPKTiebreaker(s), n) # CellAt(q, WithPKTiebreaker(s), n) /\ Tied(r, q, WithPKTiebreaker(s), n)
<1> DEFINE t == WithPKTiebreaker(s)
           T == {n \in 1..Len(t) : CellAt(r, t, n) # CellAt(q, t, n)}
<1>1. Len(t) \in Nat /\ \E i \in 1..Len(t) : t[i].col = 1
  BY TiebreakerIs
<1>2. Cells[r][1] # Cells[q][1]
  BY TablesAssumption DEF TableRows
<1> HIDE DEF t
<1>3. T # {} /\ T \subseteq Nat
  BY <1>1, <1>2 DEF CellAt
<1>4. PICK n \in T : \A m \in T : n <= m
  BY <1>3, MinNat
<1>5. n \in Nat /\ n \in 1..Len(t)
  BY <1>3, <1>4
<1>6. ASSUME NEW j \in 1..(n - 1) PROVE CellAt(r, t, j) = CellAt(q, t, j)
  <2>1. j \in 1..Len(t) /\ ~(n <= j)
    BY <1>1, <1>5
  <2>2. j \notin T
    BY <2>1, <1>4
  <2> QED BY <2>1, <2>2
<1>7. Tied(r, q, t, n)
  BY <1>6 DEF Tied
<1> QED BY <1>4, <1>5, <1>7 DEF t

LEMMA BeforeIs ==
    ASSUME NEW s, NEW r, NEW q
    PROVE  Before(r, q, s) <=> \E n \in 1..Len(WithPKTiebreaker(s)) :
               Precedes(r, q, WithPKTiebreaker(s)[n]) /\ Tied(r, q, WithPKTiebreaker(s), n)
BY DEF Before, Tied, CellAt

SortOrder(S, s) == {p \in S \X S : Before(p[1], p[2], s)}

LEMMA SortOrderIs ==
    ASSUME NEW s, Shape(s), NEW S, S \subseteq TableRows
    PROVE  Orders(SortOrder(S, s), S)
<1> DEFINE t == WithPKTiebreaker(s)
           R == SortOrder(S, s)
<1>1. Len(t) \in Nat /\ \A i \in 1..Len(t) : t[i] \in SortEntries
  BY TiebreakerIs
<1>2. \A a, b \in S : <<a, b>> \in R <=> Before(a, b, s)
  BY DEF SortOrder
<1>3. \A a, b \in S : Before(a, b, s) <=> \E n \in 1..Len(t) : Precedes(a, b, t[n]) /\ Tied(a, b, t, n)
  BY BeforeIs
<1>4. \A a, b \in S : a # b => \E n \in 1..Len(t) : CellAt(a, t, n) # CellAt(b, t, n) /\ Tied(a, b, t, n)
  BY DifferSomewhere
<1> HIDE DEF t, R
<1>5. ASSUME NEW a \in S PROVE <<a, a>> \notin R
  <2>1. ASSUME NEW n \in 1..Len(t) PROVE ~Precedes(a, a, t[n])
    BY <1>1, PrecedesIs
  <2> QED BY <2>1, <1>2, <1>3
<1>6. ASSUME NEW a \in S, NEW b \in S PROVE a = b \/ <<a, b>> \in R \/ <<b, a>> \in R
  <2> SUFFICES ASSUME a # b PROVE Before(a, b, s) \/ Before(b, a, s)
    BY <1>2
  <2>1. PICK n \in 1..Len(t) : CellAt(a, t, n) # CellAt(b, t, n) /\ Tied(a, b, t, n)
    BY <1>4
  <2>2. Tied(b, a, t, n)
    BY <2>1 DEF Tied
  <2>3. Precedes(a, b, t[n]) \/ Precedes(b, a, t[n])
    BY <2>1, <1>1, PrecedesIs DEF CellAt
  <2> QED BY <2>1, <2>2, <2>3, <1>3
<1>7. ASSUME NEW a \in S, NEW b \in S, NEW c \in S, Before(a, b, s), Before(b, c, s) PROVE Before(a, c, s)
  <2>1. PICK n \in 1..Len(t) : Precedes(a, b, t[n]) /\ Tied(a, b, t, n)
    BY <1>3, <1>7
  <2>2. PICK m \in 1..Len(t) : Precedes(b, c, t[m]) /\ Tied(b, c, t, m)
    BY <1>3, <1>7
  <2>3. CASE n = m
    <3>1. Precedes(a, c, t[n])
      BY <2>1, <2>2, <2>3, <1>1, PrecedesIs
    <3>2. Tied(a, c, t, n)
      BY <2>1, <2>2, <2>3 DEF Tied
    <3> QED BY <3>1, <3>2, <1>3
  <2>4. CASE n < m
    <3>1. n \in 1..(m - 1) /\ \A j \in 1..(n - 1) : j \in 1..(m - 1)
      BY <2>4
    <3>2. CellAt(b, t, n) = CellAt(c, t, n) /\ Tied(a, c, t, n)
      BY <3>1, <2>1, <2>2 DEF Tied
    <3>3. Precedes(a, c, t[n])
      BY <3>2, <2>1 DEF Precedes, CellAt
    <3> QED BY <3>2, <3>3, <1>3
  <2>5. CASE m < n
    <3>1. m \in 1..(n - 1) /\ \A j \in 1..(m - 1) : j \in 1..(n - 1)
      BY <2>5
    <3>2. CellAt(a, t, m) = CellAt(b, t, m) /\ Tied(a, c, t, m)
      BY <3>1, <2>1, <2>2 DEF Tied
    <3>3. Precedes(a, c, t[m])
      BY <3>2, <2>2 DEF Precedes, CellAt
    <3> QED BY <3>2, <3>3, <1>3
  <2> QED BY <2>3, <2>4, <2>5
<1> QED BY <1>2, <1>5, <1>6, <1>7 DEF Orders, R

\* Rows of a table, each once
Table(f) == f \in Seq(TableRows) /\ \A i, j \in 1..Len(f) : f[i] = f[j] => i = j

LEMMA TableIs ==
    ASSUME NEW f, Table(f)
    PROVE  /\ Len(f) \in Nat /\ DOMAIN f = 1..Len(f) /\ Range(f) = {f[i] : i \in 1..Len(f)}
           /\ Range(f) \subseteq TableRows /\ IsFiniteSet(Range(f)) /\ Cardinality(Range(f)) = Len(f)
<1>1. f \in Seq(TableRows) /\ Len(f) \in Nat /\ DOMAIN f = 1..Len(f) /\ \A i \in 1..Len(f) : f[i] \in TableRows
  BY DEF Table
<1>2. Range(f) = {f[i] : i \in 1..Len(f)}
  BY <1>1 DEF Range
<1>3. IsFiniteSet(1..Len(f)) /\ Cardinality(1..Len(f)) = Len(f)
  <2>1. IsFiniteSet(1..Len(f)) /\ Cardinality(1..Len(f)) = IF 1 > Len(f) THEN 0 ELSE Len(f) - 1 + 1
    BY <1>1, FS_Interval
  <2> QED BY <2>1, <1>1
<1> DEFINE g == [i \in 1..Len(f) |-> f[i]]
<1>4. g \in [1..Len(f) -> Range(f)] /\ (\A y \in Range(f) : \E i \in 1..Len(f) : g[i] = y)
  BY <1>2
<1>5. \A i, j \in 1..Len(f) : g[i] = g[j] => i = j
  BY DEF Table
<1> HIDE DEF g
<1>6. g \in Surjection(1..Len(f), Range(f)) /\ g \in Injection(1..Len(f), Range(f))
  BY <1>4, <1>5 DEF Surjection, Injection, IsInjective
<1>7. IsFiniteSet(Range(f)) /\ Cardinality(Range(f)) = Len(f)
  BY <1>3, <1>6, FS_Surjection
<1> QED BY <1>1, <1>2, <1>7

LEMMA SortedIs ==
    ASSUME NEW f, Table(f), NEW s, Shape(s)
    PROVE  /\ Table(Sorted(f, s)) /\ Len(Sorted(f, s)) = Len(f) /\ Range(Sorted(f, s)) = Range(f)
           /\ \A i \in 1..(Len(Sorted(f, s)) - 1) : Before(Sorted(f, s)[i], Sorted(f, s)[i + 1], s)
<1> DEFINE S == Range(f)
           R == SortOrder(S, s)
           F == Sorted(f, s)
           n == Cardinality(S)
<1>1. IsFiniteSet(S) /\ n = Len(f) /\ DOMAIN f = 1..Len(f) /\ S \subseteq TableRows /\ Len(f) \in Nat
  BY TableIs
<1>2. Orders(R, S)
  BY <1>1, SortOrderIs
<1>3. \A a, b \in S : <<a, b>> \in R <=> Before(a, b, s)
  BY DEF SortOrder
<1>4. \A a \in S : RowPlace(a, S, s) = Rank(R, S, a)
  <2>1. ASSUME NEW a \in S PROVE {q \in S : Before(q, a, s)} = Firsts(R, S, a)
    BY <1>3 DEF Firsts
  <2> QED BY <2>1 DEF RowPlace, Rank
<1>5. F = [k \in 1..n |-> CHOOSE a \in S : RowPlace(a, S, s) = k - 1]
  BY <1>1 DEF Sorted
<1> HIDE DEF F, R, S
<1>6. ASSUME NEW k \in 1..n PROVE (CHOOSE a \in S : RowPlace(a, S, s) = k - 1) = CHOOSE a \in S : Rank(R, S, a) = k - 1
  BY <1>4
<1>7. Ranked(R, S, F)
  BY <1>5, <1>6 DEF Ranked
<1>8. n \in Nat /\ F \in [1..n -> S] /\ \A a \in S : \E k \in 1..n : F[k] = a
  BY <1>1, <1>2, <1>7, RankedIs
<1>9. \A m, k \in 1..n : m < k => <<F[m], F[k]>> \in R /\ F[m] # F[k]
  BY <1>1, <1>2, <1>7, RankedIs
<1> HIDE DEF n
<1>10. F \in [1..n -> TableRows]
  BY <1>1, <1>8
<1>11. F \in Seq(TableRows) /\ Len(F) = n /\ DOMAIN F = 1..n
  BY <1>8, <1>10
<1>12. Table(F)
  <2>1. ASSUME NEW i \in 1..n, NEW j \in 1..n, F[i] = F[j] PROVE i = j
    <3>1. ~(i < j) /\ ~(j < i)
      BY <2>1, <1>9
    <3>2. i \in Int /\ j \in Int
      BY <1>8
    <3> QED BY <3>1, <3>2
  <2> QED BY <2>1, <1>11 DEF Table
<1>13. Range(F) = S
  BY <1>8, <1>11 DEF Range
<1>14. ASSUME NEW i \in 1..(n - 1) PROVE Before(F[i], F[i + 1], s)
  <2>1. i \in 1..n /\ i + 1 \in 1..n /\ i < i + 1
    BY <1>8
  <2>2. <<F[i], F[i + 1]>> \in R /\ F[i] \in S /\ F[i + 1] \in S
    BY <2>1, <1>8, <1>9
  <2> QED BY <2>2, <1>3
<1> QED BY <1>1, <1>11, <1>12, <1>13, <1>14 DEF F, S

\* What has been sorted otherwise before does not matter.
LEMMA SortedAgain ==
    ASSUME NEW f, Table(f), NEW g, Table(g), Range(f) = Range(g), NEW s
    PROVE  Sorted(f, s) = Sorted(g, s)
<1>1. DOMAIN f = DOMAIN g
  BY TableIs
<1> QED BY <1>1 DEF Sorted

-----------------------------------------------------------------------------
(***************************************************************************)
(* Tables: pins and filter.                                                *)
(***************************************************************************)

\* Pins of every column
Pinnings(p) == p = [c \in Cols |-> p[c]]

LetBy(f, p, i, m) == {r \in Range(f) : Matches(r, p, m) # i}

LEMMA KeptIs ==
    ASSUME NEW f, Table(f), NEW p, NEW a, NEW i, NEW m
    PROVE  /\ Table(Kept(f, p, a, i, m))
           /\ Range(Kept(f, p, a, i, m)) = IF HasPins(p) /\ a THEN LetBy(f, p, i, m) ELSE Range(f)
<1>1. CASE ~(HasPins(p) /\ a)
  <2>1. Kept(f, p, a, i, m) = f
    BY <1>1 DEF Kept
  <2> QED BY <2>1, <1>1
<1>2. CASE HasPins(p) /\ a
  <2> DEFINE S == LetBy(f, p, i, m)
             k == Only(f, S)
  <2>1. Kept(f, p, a, i, m) = k
    BY <1>2 DEF Kept, LetBy
  <2>2. f \in Seq(TableRows) /\ \A x, y \in 1..Len(f) : f[x] = f[y] => x = y
    BY DEF Table
  <2>3. S \subseteq Range(f) /\ Range(f) = {f[x] : x \in 1..Len(f)} /\ DOMAIN f = 1..Len(f)
    BY TableIs DEF LetBy
  <2> HIDE DEF S, k
  <2>4. k = Only(f, S)
    BY DEF k
  <2>5. k \in Seq(TableRows)
    BY <2>2, <2>4, OnlyIs
  <2>6. \A x \in DOMAIN k : k[x] \in S
    BY <2>2, <2>4, OnlyIs
  <2>7. \A y \in DOMAIN f : f[y] \in S => \E x \in DOMAIN k : k[x] = f[y]
    BY <2>2, <2>4, OnlyIs
  <2>8. \A x, y \in 1..Len(k) : k[x] = k[y] => x = y
    BY <2>2, <2>4, OnlyOnce
  <2>9. Table(k)
    BY <2>5, <2>8 DEF Table
  <2>10. Range(k) = S
    BY <2>3, <2>6, <2>7 DEF Range
  <2> QED BY <2>1, <2>9, <2>10, <1>2 DEF S
<1> QED BY <1>1, <1>2

\* What is shown of the rows loaded
Looks(f, p, a, i, m, s) == Sorted(Kept(f, p, a, i, m), s)

LEMMA LooksIs ==
    ASSUME NEW f, Table(f), NEW p, NEW a, NEW i, NEW m, NEW s, Shape(s)
    PROVE  LET l == Looks(f, p, a, i, m, s)
           IN  /\ Table(l) /\ Range(l) = IF HasPins(p) /\ a THEN LetBy(f, p, i, m) ELSE Range(f)
               /\ \A k \in 1..(Len(l) - 1) : Before(l[k], l[k + 1], s)
<1> DEFINE q == Kept(f, p, a, i, m)
<1>1. Table(q) /\ Range(q) = IF HasPins(p) /\ a THEN LetBy(f, p, i, m) ELSE Range(f)
  BY KeptIs
<1> HIDE DEF q
<1>2. /\ Table(Sorted(q, s)) /\ Range(Sorted(q, s)) = Range(q)
      /\ \A k \in 1..(Len(Sorted(q, s)) - 1) : Before(Sorted(q, s)[k], Sorted(q, s)[k + 1], s)
  BY <1>1, SortedIs
<1>3. Looks(f, p, a, i, m, s) = Sorted(q, s)
  BY DEF Looks, q
<1> QED BY <1>1, <1>2, <1>3

LEMMA PlainLooks ==
    ASSUME NEW f, NEW a, NEW b, NEW i, NEW j, NEW m, NEW n, NEW s
    PROVE  /\ Looks(f, NoPins, a, i, m, s) = Looks(f, NoPins, b, j, n, s)
           /\ Dimmed(f, NoPins, a, i, m) = {} /\ Dimmed(f, NoPins, b, j, n) = {}
BY DEF Looks, Kept, Dimmed, HasPins

\* The keys of a column's pins in the other mode
Other(p, c, m) == {Key(r, c, ~m) : r \in {q \in Range(full) : Key(q, c, m) \in p[c]}}

LEMMA TranslatedIs ==
    ASSUME NEW p, Pinnings(p), NEW m \in BOOLEAN
    PROVE  /\ Pinnings(Translated(p, ~m)) /\ (HasPins(Translated(p, ~m)) <=> HasPins(p))
           /\ \A c \in Cols : /\ Translated(p, ~m)[c] = IF Other(p, c, m) # {} THEN Other(p, c, m) ELSE p[c]
                              /\ Translated(p, ~m)[c] = {} <=> p[c] = {}
<1> DEFINE t == Translated(p, ~m)
<1>1. \A c \in Cols, q \in Range(full) : Key(q, c, ~~m) = Key(q, c, m)
  BY DEF Key
<1>2. \A c \in Cols : {q \in Range(full) : Key(q, c, ~~m) \in p[c]} = {q \in Range(full) : Key(q, c, m) \in p[c]}
  BY <1>1
<1>3. \A c \in Cols : {Key(r, c, ~m) : r \in {q \in Range(full) : Key(q, c, ~~m) \in p[c]}} = Other(p, c, m)
  BY <1>2 DEF Other
<1>4. t = [c \in Cols |-> LET new == {Key(r, c, ~m) : r \in {q \in Range(full) : Key(q, c, ~~m) \in p[c]}}
                          IN  IF new # {} THEN new ELSE p[c]]
  BY DEF Translated
<1> HIDE DEF t
<1>5. t = [c \in Cols |-> IF Other(p, c, m) # {} THEN Other(p, c, m) ELSE p[c]]
  BY <1>3, <1>4
<1>6. \A c \in Cols : t[c] = {} <=> p[c] = {}
  <2>1. \A c \in Cols : p[c] = {} => Other(p, c, m) = {}
    BY DEF Other
  <2> QED BY <2>1, <1>5
<1>7. Pinnings(t)
  BY <1>5 DEF Pinnings
<1>8. HasPins(t) <=> HasPins(p)
  <2>1. t = NoPins <=> \A c \in Cols : t[c] = {}
    BY <1>7 DEF Pinnings, NoPins
  <2>2. p = NoPins <=> \A c \in Cols : p[c] = {}
    BY DEF Pinnings, NoPins
  <2> QED BY <2>1, <2>2, <1>6 DEF HasPins
<1> QED BY <1>5, <1>6, <1>7, <1>8 DEF t

\* The pins of a column stand for the same rows, or for more, as magnitudes.
LEMMA TranslatedMatches ==
    ASSUME NEW p, Pinnings(p), NEW m \in BOOLEAN,
           \A c \in Cols : p[c] = {} \/ \E r \in Range(full) : Key(r, c, m) \in p[c]
    PROVE  /\ \A r \in Range(full) : Matches(r, p, m) => Matches(r, Translated(p, ~m), ~m)
           /\ m => \A r \in Range(full) : Matches(r, Translated(p, ~m), ~m) => Matches(r, p, m)
<1> DEFINE t == Translated(p, ~m)
<1>1. \A c \in Cols : t[c] = (IF Other(p, c, m) # {} THEN Other(p, c, m) ELSE p[c]) /\ (t[c] = {} <=> p[c] = {})
  BY TranslatedIs
<1> HIDE DEF t
<1>2. ASSUME NEW c \in Cols PROVE t[c] = Other(p, c, m)
  <2>1. p[c] # {} => Other(p, c, m) # {}
    BY DEF Other
  <2> QED BY <2>1, <1>1
<1>3. ASSUME NEW r \in Range(full), Matches(r, p, m) PROVE Matches(r, t, ~m)
  <2>1. ASSUME NEW c \in Cols, t[c] # {} PROVE Key(r, c, ~m) \in t[c]
    <3>1. Key(r, c, m) \in p[c]
      BY <2>1, <1>1, <1>3 DEF Matches
    <3> QED BY <3>1, <1>2 DEF Other
  <2> QED BY <2>1 DEF Matches
<1>4. ASSUME m, NEW r \in Range(full), Matches(r, t, ~m) PROVE Matches(r, p, m)
  <2>1. ASSUME NEW c \in Cols, p[c] # {} PROVE Key(r, c, m) \in p[c]
    <3>1. Key(r, c, ~m) \in Other(p, c, m)
      <4>1. Key(r, c, ~m) \in t[c]
        BY <2>1, <1>1, <1>4 DEF Matches
      <4> QED BY <4>1, <1>2
    <3>2. PICK q \in Range(full) : Key(q, c, m) \in p[c] /\ Key(r, c, ~m) = Key(q, c, ~m)
      BY <3>1 DEF Other
    <3>3. Key(r, c, ~m) = Cells[r][c] /\ Key(q, c, ~m) = Cells[q][c]
      BY <1>4 DEF Key
    <3>4. Key(r, c, m) = Key(q, c, m)
      BY <3>2, <3>3 DEF Key
    <3> QED BY <3>2, <3>4
  <2> QED BY <2>1 DEF Matches
<1> QED BY <1>3, <1>4 DEF t

-----------------------------------------------------------------------------
(***************************************************************************)
(* Tables: every step leaves the table as loading it anew would.           *)
(***************************************************************************)

Settings ==
    /\ Table(full) /\ Pinnings(pins) /\ Shape(sorts)
    /\ filtering \in BOOLEAN /\ inverted \in BOOLEAN /\ mag \in BOOLEAN
    /\ hidden \subseteq Cols /\ hidden # Cols /\ col \in Cols

Current ==
    /\ shown = Looks(full, pins, filtering, inverted, mag, sorts)
    /\ dim = Dimmed(full, pins, filtering, inverted, mag)

TablesInv == Settings /\ Table(shown) /\ (~stale => Current)

LEMMA NextVisibleIs ==
    ASSUME NEW c \in Int, NEW h \in SUBSET Cols
    PROVE  NextVisible(c, h) = c \/ NextVisible(c, h) \in Visible(h)
<1> DEFINE after == {d \in Visible(h) : d > c}
<1>1. after \subseteq Nat
  BY TablesAssumption DEF Visible, Cols
<1>2. CASE after = {}
  BY <1>2 DEF NextVisible
<1>3. CASE after # {}
  <2>1. \E d \in after : \A e \in after : d <= e
    <3> HIDE DEF after
    <3> QED BY <1>1, <1>3, MinNat
  <2>2. NextVisible(c, h) = CHOOSE d \in after : \A e \in after : d <= e
    BY <1>3 DEF NextVisible
  <2>3. NextVisible(c, h) \in after
    <3> HIDE DEF after
    <3> QED BY <2>1, <2>2
  <2> QED BY <2>3
<1> QED BY <1>2, <1>3

LEMMA PrevVisibleIs ==
    ASSUME NEW c \in Int, NEW h \in SUBSET Cols
    PROVE  PrevVisible(c, h) = c \/ PrevVisible(c, h) \in Visible(h)
<1> DEFINE before == {d \in Visible(h) : d < c}
<1>1. NumCols \in Nat /\ before \subseteq 0..NumCols /\ \A d, e \in before : d >= e <=> e <= d
  BY TablesAssumption DEF Visible, Cols
<1>2. CASE before = {}
  BY <1>2 DEF PrevVisible
<1>3. CASE before # {}
  <2>1. \E d \in before : \A e \in before : d >= e
    <3> HIDE DEF before
    <3>1. \E d \in before : \A e \in before : e <= d
      BY <1>1, <1>3, MaxNat
    <3> QED BY <3>1, <1>1
  <2>2. PrevVisible(c, h) = CHOOSE d \in before : \A e \in before : d >= e
    BY <1>3 DEF PrevVisible
  <2>3. PrevVisible(c, h) \in before
    <3> HIDE DEF before
    <3> QED BY <2>1, <2>2
  <2> QED BY <2>3
<1> QED BY <1>2, <1>3

LEMMA Moving ==
    ASSUME Settings, MoveColumn
    PROVE  col' \in Cols
<1>1. NumCols \in Nat /\ 0 \in Int /\ NumCols + 1 \in Int /\ col \in Int /\ col \in Cols
  BY TablesAssumption DEF Settings, Cols
<1>2. hidden \in SUBSET Cols /\ Visible(hidden) \subseteq Cols /\ Visible(hidden) # {}
  BY DEF Settings, Visible
<1>3. CASE col' \in {NextVisible(col, hidden), PrevVisible(col, hidden)}
  <2>1. NextVisible(col, hidden) \in Cols
    BY <1>1, <1>2, NextVisibleIs
  <2>2. PrevVisible(col, hidden) \in Cols
    BY <1>1, <1>2, PrevVisibleIs
  <2> QED BY <2>1, <2>2, <1>3
<1>4. CASE col' = NextVisible(0, hidden)
  <2>1. NextVisible(0, hidden) = 0 \/ NextVisible(0, hidden) \in Visible(hidden)
    BY <1>1, <1>2, NextVisibleIs
  <2>2. \A d \in Visible(hidden) : d > 0
    BY <1>2 DEF Cols
  <2>3. NextVisible(0, hidden) # 0
    <3> DEFINE after == {d \in Visible(hidden) : d > 0}
    <3>1. after # {} /\ after \subseteq Nat /\ \A d \in after : d # 0
      BY <1>1, <1>2, <2>2 DEF Cols
    <3>2. NextVisible(0, hidden) = CHOOSE d \in after : \A e \in after : d <= e
      BY <3>1 DEF NextVisible
    <3> HIDE DEF after
    <3>3. \E d \in after : \A e \in after : d <= e
      BY <3>1, MinNat
    <3> QED BY <3>1, <3>2, <3>3
  <2> QED BY <2>1, <2>3, <1>2, <1>4
<1>5. CASE col' = PrevVisible(NumCols + 1, hidden)
  <2> DEFINE n == NumCols + 1
             before == {d \in Visible(hidden) : d < n}
  <2>1. before # {} /\ before \subseteq 0..NumCols /\ (\A d, e \in before : d >= e <=> e <= d) /\ before \subseteq Cols
    BY <1>1, <1>2 DEF Cols
  <2>2. PrevVisible(n, hidden) = CHOOSE d \in before : \A e \in before : d >= e
    BY <2>1 DEF PrevVisible
  <2> HIDE DEF before
  <2>3. \E d \in before : \A e \in before : e <= d
    BY <1>1, <2>1, MaxNat
  <2>4. \E d \in before : \A e \in before : d >= e
    BY <2>1, <2>3
  <2>5. PrevVisible(n, hidden) \in before
    BY <2>2, <2>4
  <2> QED BY <2>1, <2>5, <1>5
<1> QED BY <1>3, <1>4, <1>5 DEF MoveColumn

LEMMA BesideIs ==
    ASSUME NEW c \in Cols, NEW h \in SUBSET Cols
    PROVE  Beside(c, h) \in Cols
<1>1. c \in Int /\ Visible(h) \subseteq Cols
  BY DEF Cols, Visible
<1> QED BY <1>1, NextVisibleIs, PrevVisibleIs DEF Beside

LEMMA CurrentKeeps ==
    ASSUME Settings, Current
    PROVE  Table(shown)
BY LooksIs DEF Settings, Current

\* A step that refreshes
LEMMA Refreshes ==
    ASSUME NEW f, NEW p, NEW a, NEW i, NEW s, Refresh(f, p, a, i, s)
    PROVE  shown' = Looks(f, p, a, i, mag, s) /\ dim' = Dimmed(f, p, a, i, mag)
BY DEF Refresh, FilterAndSort, Looks

LEMMA IsCurrent ==
    ASSUME Settings', shown' = Looks(full', pins', filtering', inverted', mag', sorts'),
           dim' = Dimmed(full', pins', filtering', inverted', mag')
    PROVE  TablesInv'
<1>1. Table(full') /\ Shape(sorts')
  BY DEF Settings
<1>2. Table(shown')
  BY <1>1, LooksIs
<1> QED BY <1>2 DEF TablesInv, Current

LEMMA Reloads ==
    ASSUME TablesInv, Reload
    PROVE  TablesInv'
<1>1. PICK S : full' = Only(Stored, S)
  BY DEF Reload
<1>2. Table(full')
  <2>1. Stored \in Seq(TableRows) /\ \A i, j \in 1..Len(Stored) : Stored[i] = Stored[j] => i = j
    BY TablesAssumption DEF TableRows, IsInjective
  <2>2. full' \in Seq(TableRows)
    BY <1>1, <2>1, OnlyIs
  <2>3. \A i, j \in 1..Len(full') : full'[i] = full'[j] => i = j
    BY <1>1, <2>1, OnlyOnce
  <2> QED BY <2>2, <2>3 DEF Table
<1>3. Settings'
  BY <1>2 DEF Reload, TablesInv, Settings, filter
<1>4. shown' = Looks(full', pins, filtering, inverted, mag, sorts) /\ dim' = Dimmed(full', pins, filtering, inverted, mag)
  BY Refreshes DEF Reload
<1>5. UNCHANGED <<pins, filtering, inverted, mag, sorts>>
  BY DEF Reload, filter
<1> QED BY <1>3, <1>4, <1>5, IsCurrent

\* A step that sets pins or filter and refreshes
LEMMA FilterKeeps ==
    ASSUME TablesInv, NEW p, Pinnings(p), NEW a \in BOOLEAN, NEW i \in BOOLEAN,
           SetFilter(p, a, i), Refresh(full, p, a, i, sorts)
    PROVE  TablesInv'
<1>1. pins' = p /\ filtering' = a /\ inverted' = i /\ UNCHANGED <<full, sorts, hidden, col, mag>>
  BY DEF SetFilter
<1>2. Settings'
  BY <1>1 DEF TablesInv, Settings
<1>3. shown' = Looks(full, p, a, i, mag, sorts) /\ dim' = Dimmed(full, p, a, i, mag)
  BY Refreshes
<1> QED BY <1>1, <1>2, <1>3, IsCurrent

\* A step that changes nothing shown, where there are no pins
LEMMA Unpinned ==
    ASSUME TablesInv, Settings', UNCHANGED <<shown, dim, full, sorts>>, stale' = stale, ~HasPins(pins), pins' = NoPins
    PROVE  TablesInv'
<1>1. pins = NoPins
  BY DEF HasPins
<1>2. ASSUME ~stale PROVE Current'
  <2>1. Current
    BY <1>2 DEF TablesInv
  <2>2. Looks(full, NoPins, filtering, inverted, mag, sorts) = Looks(full, NoPins, filtering', inverted', mag', sorts)
    BY PlainLooks
  <2>3. Dimmed(full, NoPins, filtering, inverted, mag) = {} /\ Dimmed(full, NoPins, filtering', inverted', mag') = {}
    BY PlainLooks
  <2>4. shown = Looks(full, NoPins, filtering, inverted, mag, sorts) /\ dim = Dimmed(full, NoPins, filtering, inverted, mag)
    BY <1>1, <2>1 DEF Current
  <2> QED BY <2>2, <2>3, <2>4 DEF Current
<1> QED BY <1>2 DEF TablesInv

LEMMA Activations ==
    ASSUME TablesInv, NEW a \in BOOLEAN, NEW i \in BOOLEAN, SetFilter(pins, a, i), Refreshed(a, i)
    PROVE  TablesInv'
<1>1. Pinnings(pins)
  BY DEF TablesInv, Settings
<1>2. CASE HasPins(pins)
  BY <1>1, <1>2, FilterKeeps DEF Refreshed
<1>3. CASE ~HasPins(pins)
  <2>1. Settings' /\ UNCHANGED <<full, sorts>> /\ pins' = NoPins
    BY <1>3 DEF SetFilter, TablesInv, Settings, HasPins
  <2>2. UNCHANGED <<shown, dim>> /\ stale' = stale
    BY <1>3 DEF Refreshed
  <2> QED BY <2>1, <2>2, <1>3, Unpinned
<1> QED BY <1>2, <1>3

LEMMA PinningsAre ==
    ASSUME NEW p, Pinnings(p), NEW c \in Cols, NEW S
    PROVE  Pinnings([p EXCEPT ![c] = S]) /\ Pinnings(NoPins)
BY DEF Pinnings, NoPins

LEMMA Pins ==
    ASSUME TablesInv, TogglePin
    PROVE  TablesInv'
<1> DEFINE key == Key(shown[cursor], col, mag)
           p == Toggled(pins, col, key)
<1>1. SetFilter(p, filtering, inverted) /\ Refresh(full, p, filtering, inverted, sorts)
  BY DEF TogglePin
<1>2. p = [pins EXCEPT ![col] = IF key \in pins[col] THEN pins[col] \ {key} ELSE pins[col] \cup {key}]
  BY DEF Toggled
<1>3. Pinnings(pins) /\ col \in Cols /\ filtering \in BOOLEAN /\ inverted \in BOOLEAN
  BY DEF TablesInv, Settings
<1> HIDE DEF p
<1>4. Pinnings(p)
  BY <1>2, <1>3, PinningsAre
<1> QED BY <1>1, <1>3, <1>4, FilterKeeps

LEMMA Clears ==
    ASSUME TablesInv, ClearPins
    PROVE  TablesInv'
<1>1. SetFilter(NoPins, FALSE, FALSE) /\ Refresh(full, NoPins, FALSE, FALSE, sorts)
  BY DEF ClearPins
<1>2. Pinnings(NoPins)
  BY DEF Pinnings, NoPins
<1> QED BY <1>1, <1>2, FilterKeeps

LEMMA Settles ==
    ASSUME TablesInv, ToggleSettled
    PROVE  TablesInv'
<1>1. Pinnings(pins) /\ Status \in Cols /\ filtering \in BOOLEAN /\ inverted \in BOOLEAN
  BY TablesAssumption DEF TablesInv, Settings
<1>2. CASE WithoutColumn(Status) /\ Refresh(full, pins', filtering', inverted', sorts)
  <2> DEFINE p == [pins EXCEPT ![Status] = {}]
             a == filtering /\ HasPins(p)
             i == inverted /\ HasPins(p)
  <2>1. SetFilter(p, a, i)
    BY <1>2 DEF WithoutColumn
  <2>2. Pinnings(p)
    BY <1>1, PinningsAre
  <2>3. a \in BOOLEAN /\ i \in BOOLEAN
    OBVIOUS
  <2> HIDE DEF p, a, i
  <2>4. pins' = p /\ filtering' = a /\ inverted' = i
    BY <2>1 DEF SetFilter
  <2>5. Refresh(full, p, a, i, sorts)
    BY <1>2, <2>4
  <2> QED BY <2>1, <2>2, <2>3, <2>5, FilterKeeps
<1>3. CASE LET p == [pins EXCEPT ![Status] = ActiveStatuses]
           IN  SetFilter(p, TRUE, inverted) /\ Refresh(full, p, TRUE, inverted, sorts)
  <2> DEFINE p == [pins EXCEPT ![Status] = ActiveStatuses]
  <2>1. SetFilter(p, TRUE, inverted) /\ Refresh(full, p, TRUE, inverted, sorts)
    BY <1>3
  <2>2. Pinnings(p)
    BY <1>1, PinningsAre
  <2> HIDE DEF p
  <2> QED BY <2>1, <2>2, <1>1, FilterKeeps
<1> QED BY <1>2, <1>3 DEF ToggleSettled

LEMMA Magnifies ==
    ASSUME TablesInv, ToggleMag
    PROVE  /\ TablesInv'
           /\ HasPins(pins) => shown' = Looks(full, pins', filtering, inverted, ~mag, sorts)
           /\ HasPins(pins) => dim' = Dimmed(full, pins', filtering, inverted, ~mag)
<1>1. /\ mag' = ~mag /\ pins' = Translated(pins, ~mag) /\ UNCHANGED <<full, filtering, inverted, sorts, hidden, col>>
      /\ Settings
  BY DEF ToggleMag, TablesInv
<1>2. Pinnings(pins) /\ mag \in BOOLEAN
  BY <1>1 DEF Settings
<1>3. Pinnings(pins') /\ (HasPins(pins') <=> HasPins(pins))
  BY <1>1, <1>2, TranslatedIs
<1>4. Settings'
  BY <1>1, <1>3 DEF Settings
<1>5. CASE HasPins(pins)
  <2>1. FilterAndSort(full, pins', filtering, inverted, sorts, ~mag)
    BY <1>5 DEF ToggleMag
  <2>2. /\ shown' = Looks(full, pins', filtering, inverted, ~mag, sorts)
        /\ dim' = Dimmed(full, pins', filtering, inverted, ~mag)
    BY <2>1 DEF FilterAndSort, Looks
  <2>3. /\ shown' = Looks(full', pins', filtering', inverted', mag', sorts')
        /\ dim' = Dimmed(full', pins', filtering', inverted', mag')
    BY <2>2, <1>1
  <2> QED BY <2>2, <2>3, <1>4, IsCurrent
<1>6. CASE ~HasPins(pins)
  <2>1. UNCHANGED <<shown, dim>> /\ stale' = stale
    BY <1>6 DEF ToggleMag
  <2>2. pins' = NoPins
    BY <1>3, <1>6 DEF HasPins
  <2> QED BY <2>1, <2>2, <1>1, <1>4, <1>6, Unpinned
<1> QED BY <1>5, <1>6

LEMMA Sorting ==
    ASSUME TablesInv, NEW s, Shape(s), ApplySorts(s)
    PROVE  TablesInv'
<1>1. /\ sorts' = s /\ shown' = Sorted(shown, s)
      /\ UNCHANGED <<full, dim, pins, filtering, inverted, hidden, col, mag>> /\ stale' = stale
  BY DEF ApplySorts, filter
<1>2. Table(shown) /\ Settings
  BY DEF TablesInv
<1>3. Table(shown') /\ Settings'
  <2>1. Table(Sorted(shown, s))
    BY <1>2, SortedIs
  <2> QED BY <2>1, <1>1, <1>2 DEF Settings
<1>4. ASSUME ~stale PROVE Current'
  <2> DEFINE k == Kept(full, pins, filtering, inverted, mag)
  <2>1. shown = Sorted(k, sorts) /\ dim = Dimmed(full, pins, filtering, inverted, mag)
    BY <1>4 DEF TablesInv, Current, Looks
  <2>2. Table(k)
    BY <1>2, KeptIs DEF Settings
  <2> HIDE DEF k
  <2>3. Range(shown) = Range(k)
    <3>1. Shape(sorts)
      BY <1>2 DEF Settings
    <3> QED BY <3>1, <2>1, <2>2, SortedIs
  <2>4. Sorted(shown, s) = Sorted(k, s)
    BY <2>2, <2>3, <1>2, SortedAgain
  <2>5. shown' = Looks(full, pins, filtering, inverted, mag, s)
    BY <2>4, <1>1 DEF Looks, k
  <2> QED BY <2>1, <2>5, <1>1 DEF Current
<1> QED BY <1>1, <1>3, <1>4 DEF TablesInv

LEMMA TogglesSort ==
    ASSUME TablesInv
    PROVE  Shape(ToggledSort) /\ Shape(<<>>)
<1> DEFINE slots == {i \in 1..Len(sorts) : sorts[i].col = col}
           i == CHOOSE x \in slots : TRUE
           e == [col |-> col, desc |-> FALSE]
<1>1. sorts \in Seq(SortEntries) /\ Len(sorts) \in Nat /\ e \in SortEntries
  BY DEF TablesInv, Settings, Shape, SortEntries
<1>2. CASE slots = {}
  <2>1. ToggledSort = Append(sorts, e)
    BY <1>2 DEF ToggledSort
  <2> HIDE DEF e
  <2> QED BY <2>1, <1>1 DEF Shape
<1>3. CASE slots # {}
  <2>1. i \in 1..Len(sorts)
    BY <1>3
  <2>2. ToggledSort = IF sorts[i].desc THEN RemoveAt(sorts, i) ELSE [sorts EXCEPT ![i].desc = TRUE]
    BY <1>3 DEF ToggledSort
  <2> HIDE DEF i
  <2>3. sorts[i] \in SortEntries
    BY <2>1, <1>1
  <2>4. [sorts EXCEPT ![i].desc = TRUE] \in Seq(SortEntries)
    <3>1. [sorts[i] EXCEPT !.desc = TRUE] \in SortEntries
      BY <2>3 DEF SortEntries
    <3>2. [sorts EXCEPT ![i] = [sorts[i] EXCEPT !.desc = TRUE]] \in Seq(SortEntries)
      BY <3>1, <2>1, <1>1
    <3> QED BY <3>2
  <2>5. RemoveAt(sorts, i) \in Seq(SortEntries)
    <3>1. SubSeq(sorts, 1, i - 1) \in Seq(SortEntries) /\ SubSeq(sorts, i + 1, Len(sorts)) \in Seq(SortEntries)
      BY <2>1, <1>1
    <3> QED BY <3>1, ConcatProperties DEF RemoveAt
  <2> QED BY <2>2, <2>4, <2>5 DEF Shape
<1> QED BY <1>2, <1>3 DEF Shape

LEMMA Hides ==
    ASSUME TablesInv, HideColumn
    PROVE  TablesInv'
<1> DEFINE p == [pins EXCEPT ![col] = {}]
<1>1. /\ Settings /\ pins' = p /\ filtering' = (filtering /\ HasPins(p)) /\ inverted' = (inverted /\ HasPins(p))
      /\ hidden' = hidden \cup {col} /\ col' = Beside(col, hidden') /\ UNCHANGED <<full, sorts, mag>>
  BY DEF HideColumn, TablesInv
<1>2. Pinnings(pins) /\ col \in Cols /\ Table(full)
  BY <1>1 DEF Settings
<1>3. Pinnings(p)
  BY <1>2, PinningsAre
<1>4. hidden' \in SUBSET Cols /\ hidden' # Cols
  <2>1. hidden' # Cols
    <3> SUFFICES ASSUME hidden' = Cols PROVE FALSE
      OBVIOUS
    <3>1. Visible(hidden) = {col}
      BY <1>1, <1>2 DEF Visible, HideColumn
    <3>2. Cardinality({col}) = 1
      BY FS_Singleton
    <3> QED BY <3>1, <3>2 DEF HideColumn
  <2> QED BY <2>1, <1>1 DEF Settings
<1>5. col' \in Cols
  BY <1>1, <1>2, <1>4, BesideIs
<1>6. Settings'
  <2>1. filtering' \in BOOLEAN /\ inverted' \in BOOLEAN
    BY <1>1
  <2> QED BY <2>1, <1>1, <1>3, <1>4, <1>5 DEF Settings
<1>7. CASE HasPins(p)
  <2>1. shown' = Kept(full, p, filtering, inverted, mag) /\ stale' = TRUE
    BY <1>7 DEF HideColumn
  <2>2. Table(shown')
    BY <2>1, <1>2, KeptIs
  <2> QED BY <2>1, <2>2, <1>6 DEF TablesInv
<1>8. CASE ~HasPins(p)
  <2>1. UNCHANGED <<shown, dim>> /\ stale' = (stale \/ HasPins(pins))
    BY <1>8 DEF HideColumn
  <2>2. CASE HasPins(pins)
    BY <2>1, <2>2, <1>6 DEF TablesInv
  <2>3. CASE ~HasPins(pins)
    <3>1. pins' = NoPins
      BY <1>1, <1>8 DEF HasPins
    <3>2. CASE stale
      BY <3>2, <2>1, <1>6 DEF TablesInv
    <3>3. CASE ~stale
      <4>1. ASSUME stale' PROVE FALSE
        BY <4>1, <3>3, <2>1, <2>3
      <4>2. Current
        BY <3>3 DEF TablesInv
      <4>3. pins = NoPins
        BY <2>3 DEF HasPins
      <4>4. /\ Looks(full, NoPins, filtering, inverted, mag, sorts) = Looks(full, NoPins, filtering', inverted', mag', sorts)
            /\ Dimmed(full, NoPins, filtering, inverted, mag) = {} /\ Dimmed(full, NoPins, filtering', inverted', mag') = {}
        BY PlainLooks
      <4>5. Current'
        BY <4>2, <4>3, <4>4, <3>1, <2>1, <1>1 DEF Current
      <4> QED BY <4>5, <2>1, <1>6 DEF TablesInv
    <3> QED BY <3>2, <3>3
  <2> QED BY <2>2, <2>3
<1> QED BY <1>7, <1>8

LEMMA TablesStart ==
    ASSUME TablesInit
    PROVE  TablesInv
<1>1. Table(full)
  <2>1. Stored \in Seq(TableRows) /\ \A i, j \in 1..Len(Stored) : Stored[i] = Stored[j] => i = j
    BY TablesAssumption DEF TableRows, IsInjective
  <2> QED BY <2>1 DEF Table, TablesInit
<1>2. Shape(sorts) /\ Pinnings(pins)
  BY DEF TablesInit, Shape, Pinnings, NoPins
<1>3. hidden = {} /\ 1 \in Cols /\ hidden # Cols
  <2>1. 1 \in Cols
    BY TablesAssumption DEF Cols
  <2> QED BY <2>1 DEF TablesInit
<1>4. Settings
  BY <1>1, <1>2, <1>3 DEF Settings, TablesInit
<1>5. Current
  <2>1. Kept(full, NoPins, FALSE, FALSE, FALSE) = full /\ Dimmed(full, NoPins, FALSE, FALSE, FALSE) = {}
    BY DEF Kept, Dimmed, HasPins
  <2>2. pins = NoPins /\ filtering = FALSE /\ inverted = FALSE /\ mag = FALSE /\ dim = {} /\ shown = Sorted(full, sorts)
    BY DEF TablesInit
  <2> QED BY <2>1, <2>2 DEF Current, Looks
<1> QED BY <1>4, <1>5, CurrentKeeps DEF TablesInv

\* A step that touches no row, pin or sort
LEMMA Steady ==
    ASSUME TablesInv, UNCHANGED <<full, shown, dim, filter, sorts, mag, stale>>,
           hidden' \subseteq Cols, hidden' # Cols, col' \in Cols
    PROVE  TablesInv'
<1>1. UNCHANGED <<full, shown, dim, pins, filtering, inverted, sorts, mag, stale>>
  BY DEF filter
<1>2. Settings' /\ Table(shown')
  BY <1>1 DEF TablesInv, Settings
<1>3. ASSUME ~stale PROVE Current'
  BY <1>1, <1>3 DEF TablesInv, Current
<1> QED BY <1>1, <1>2, <1>3 DEF TablesInv

LEMMA TablesStep ==
    ASSUME TablesInv, [TablesNext]_tableVars
    PROVE  TablesInv'
<1>1. CASE Reload
  BY <1>1, Reloads
<1>2. CASE TogglePin
  BY <1>2, Pins
<1>3. CASE ToggleFilter \/ InvertFilter
  <2>1. filtering \in BOOLEAN /\ inverted \in BOOLEAN
    BY DEF TablesInv, Settings
  <2>2. (~filtering) \in BOOLEAN /\ (~inverted) \in BOOLEAN
    OBVIOUS
  <2>3. CASE ToggleFilter
    <3>1. SetFilter(pins, ~filtering, inverted) /\ Refreshed(~filtering, inverted)
      BY <2>3 DEF ToggleFilter
    <3> QED BY <2>1, <2>2, <3>1, Activations
  <2>4. CASE InvertFilter
    <3>1. SetFilter(pins, filtering, ~inverted) /\ Refreshed(filtering, ~inverted)
      BY <2>4 DEF InvertFilter
    <3> QED BY <2>1, <2>2, <3>1, Activations
  <2> QED BY <1>3, <2>3, <2>4
<1>4. CASE ClearPins
  BY <1>4, Clears
<1>5. CASE ToggleSettled
  BY <1>5, Settles
<1>6. CASE ToggleMag
  BY <1>6, Magnifies
<1>7. CASE ToggleSort
  <2>1. Shape(ToggledSort) /\ ApplySorts(ToggledSort)
    BY <1>7, TogglesSort DEF ToggleSort
  <2> QED BY <2>1, Sorting
<1>8. CASE ClearSorts
  <2>1. Shape(<<>>) /\ ApplySorts(<<>>)
    BY <1>8, TogglesSort DEF ClearSorts
  <2> QED BY <2>1, Sorting
<1>9. /\ Settings /\ hidden \subseteq Cols /\ hidden # Cols /\ col \in Cols
  BY DEF TablesInv, Settings
<1>10. CASE MoveColumn
  <2>1. col' \in Cols
    BY <1>9, <1>10, Moving
  <2>2. UNCHANGED <<full, shown, dim, filter, sorts, hidden, mag, stale>>
    BY <1>10 DEF MoveColumn
  <2> QED BY <1>9, <2>1, <2>2, Steady
<1>11. CASE MoveRow
  <2>1. UNCHANGED <<full, shown, dim, filter, sorts, hidden, col, mag, stale>>
    BY <1>11 DEF MoveRow
  <2> QED BY <1>9, <2>1, Steady
<1>12. CASE HideColumn
  BY <1>12, Hides
<1>13. CASE ShowAllColumns
  <2>1. hidden' = {} /\ UNCHANGED <<full, shown, dim, filter, sorts, col, mag, stale>>
    BY <1>13 DEF ShowAllColumns
  <2> QED BY <1>9, <2>1, Steady
<1>14. CASE JumpToColumn
  <2>1. PICK c \in Cols : col' = c /\ hidden' = hidden \ {c}
    BY <1>14 DEF JumpToColumn
  <2>2. UNCHANGED <<full, shown, dim, filter, sorts, mag, stale>>
    BY <1>14 DEF JumpToColumn
  <2>3. hidden' \subseteq Cols /\ hidden' # Cols /\ col' \in Cols
    BY <1>9, <2>1
  <2> QED BY <2>2, <2>3, Steady
<1>15. CASE UNCHANGED tableVars
  <2>1. UNCHANGED <<full, shown, dim, filter, sorts, hidden, col, mag, stale>>
    BY <1>15 DEF tableVars
  <2> QED BY <1>9, <2>1, Steady
<1>16. TablesNext \/ UNCHANGED tableVars
  OBVIOUS
<1> QED BY <1>1, <1>2, <1>3, <1>4, <1>5, <1>6, <1>7, <1>8, <1>10, <1>11, <1>12, <1>13, <1>14, <1>15, <1>16 DEF TablesNext

LEMMA RowsMatch ==
    ASSUME TablesInv
    PROVE  ShownMatches
<1> DEFINE Through(r) == \A c \in Cols : pins[c] = {} \/ Key(r, c, mag) \in pins[c]
<1>1. SUFFICES ASSUME ~stale PROVE ShownMatches
  BY DEF ShownMatches
<1>2. \A r \in Range(full) : Through(r) <=> Matches(r, pins, mag)
  BY DEF Matches
<1>3. \A r \in Range(full) : Through(r) \in BOOLEAN /\ Matches(r, pins, mag) \in BOOLEAN
  BY DEF Matches
<1>4. Settings /\ Current
  BY <1>1 DEF TablesInv
<1> HIDE DEF Through
<1>5. /\ Range(shown) = IF HasPins(pins) /\ filtering THEN LetBy(full, pins, inverted, mag) ELSE Range(full)
      /\ \A i \in 1..(Len(shown) - 1) : Before(shown[i], shown[i + 1], sorts)
  <2>1. Table(full) /\ Shape(sorts) /\ shown = Looks(full, pins, filtering, inverted, mag, sorts)
    BY <1>4 DEF Settings, Current
  <2> QED BY <2>1, LooksIs
<1>6. \A r \in Range(full) : Through(r) # inverted <=> Matches(r, pins, mag) # inverted
  BY <1>2, <1>3
<1>7. Range(shown) = {r \in Range(full) : HasPins(pins) /\ filtering => Through(r) # inverted}
  <2>1. CASE HasPins(pins) /\ filtering
    BY <1>5, <1>6, <2>1 DEF LetBy
  <2>2. CASE ~(HasPins(pins) /\ filtering)
    BY <1>5, <2>2
  <2> QED BY <2>1, <2>2
<1>8. HasPins(pins) /\ ~filtering => \A r \in Range(full) : r \in dim <=> Through(r) = inverted
  BY <1>4, <1>6 DEF Current, Dimmed
<1> QED BY <1>5, <1>7, <1>8 DEF ShownMatches, Through

LEMMA MagKeeps ==
    ASSUME TablesInv, ToggleMag
    PROVE  MagKeepsRows
<1>1. SUFFICES ASSUME ~stale, ~inverted,
                      \A c \in Cols : pins[c] = {} \/ \E r \in Range(full) : Key(r, c, mag) \in pins[c]
               PROVE  /\ Range(shown) \subseteq Range(shown') /\ dim' \subseteq dim
                      /\ mag => shown' = shown /\ dim' = dim
  BY DEF MagKeepsRows
<1>2. CASE ~HasPins(pins)
  BY <1>2 DEF ToggleMag
<1>3. CASE HasPins(pins)
  <2> DEFINE p == Translated(pins, ~mag)
  <2>1. Settings /\ Current /\ pins' = p
    BY <1>1 DEF TablesInv, ToggleMag
  <2>2. Pinnings(pins) /\ mag \in BOOLEAN /\ inverted = FALSE /\ filtering \in BOOLEAN /\ Table(full) /\ Shape(sorts)
    BY <1>1, <2>1 DEF Settings
  <2>3. HasPins(p)
    BY <1>3, <2>2, TranslatedIs
  <2>4. /\ \A r \in Range(full) : Matches(r, pins, mag) => Matches(r, p, ~mag)
        /\ mag => \A r \in Range(full) : Matches(r, p, ~mag) => Matches(r, pins, mag)
    BY <1>1, <2>2, TranslatedMatches
  <2>5. \A r \in Range(full) : Matches(r, pins, mag) \in BOOLEAN /\ Matches(r, p, ~mag) \in BOOLEAN
    BY DEF Matches
  <2>6. /\ shown' = Looks(full, p, filtering, inverted, ~mag, sorts) /\ dim' = Dimmed(full, p, filtering, inverted, ~mag)
    BY <1>3, <2>1, <2>2, Magnifies
  <2>7. /\ shown = Looks(full, pins, filtering, inverted, mag, sorts) /\ dim = Dimmed(full, pins, filtering, inverted, mag)
    BY <2>1, <2>2 DEF Current
  <2> HIDE DEF p
  <2>8. LetBy(full, pins, inverted, mag) \subseteq LetBy(full, p, inverted, ~mag)
    BY <2>2, <2>4, <2>5 DEF LetBy
  <2>9. Range(shown) \subseteq Range(shown')
    <3>1. Range(shown) = IF filtering THEN LetBy(full, pins, inverted, mag) ELSE Range(full)
      <4> DEFINE l == Looks(full, pins, filtering, inverted, mag, sorts)
      <4>1. Range(l) = IF HasPins(pins) /\ filtering THEN LetBy(full, pins, inverted, mag) ELSE Range(full)
        BY <2>2, LooksIs
      <4> HIDE DEF l
      <4> QED BY <4>1, <1>3, <2>7 DEF l
    <3>2. Range(shown') = IF filtering THEN LetBy(full, p, inverted, ~mag) ELSE Range(full)
      <4> DEFINE l == Looks(full, p, filtering, inverted, ~mag, sorts)
      <4>1. Range(l) = IF HasPins(p) /\ filtering THEN LetBy(full, p, inverted, ~mag) ELSE Range(full)
        BY <2>2, LooksIs
      <4>2. shown' = l
        BY <2>6
      <4>3. Range(shown') = Range(l)
        BY <4>2
      <4> HIDE DEF l
      <4> QED BY <4>1, <4>3, <2>3
    <3> QED BY <2>8, <3>1, <3>2
  <2>10. dim' \subseteq dim
    BY <1>3, <2>2, <2>3, <2>4, <2>5, <2>6, <2>7 DEF Dimmed
  <2>11. ASSUME mag PROVE shown' = shown /\ dim' = dim
    <3>1. \A r \in Range(full) : Matches(r, pins, mag) = Matches(r, p, ~mag)
      BY <2>4, <2>5, <2>11
    <3>2. /\ {r \in Range(full) : Matches(r, pins, mag) # inverted} = {r \in Range(full) : Matches(r, p, ~mag) # inverted}
          /\ {r \in Range(full) : Matches(r, pins, mag) = inverted} = {r \in Range(full) : Matches(r, p, ~mag) = inverted}
      BY <3>1
    <3>3. Kept(full, pins, filtering, inverted, mag) = Kept(full, p, filtering, inverted, ~mag)
      BY <1>3, <2>3, <3>2 DEF Kept
    <3>4. Dimmed(full, pins, filtering, inverted, mag) = Dimmed(full, p, filtering, inverted, ~mag)
      BY <1>3, <2>3, <3>2 DEF Dimmed
    <3> QED BY <2>6, <2>7, <3>3, <3>4 DEF Looks
  <2> QED BY <2>9, <2>10, <2>11
<1> QED BY <1>2, <1>3

LEMMA MagOnly ==
    ASSUME TablesNext
    PROVE  ToggleMag \/ mag' = mag
<1>1. Reload \/ MoveColumn \/ MoveRow \/ HideColumn \/ ShowAllColumns \/ JumpToColumn => mag' = mag
  BY DEF Reload, MoveColumn, MoveRow, HideColumn, ShowAllColumns, JumpToColumn
<1>2. \A p, a, i : SetFilter(p, a, i) => mag' = mag
  BY DEF SetFilter
<1>3. TogglePin \/ ToggleFilter \/ InvertFilter \/ ClearPins \/ ToggleSettled => mag' = mag
  BY <1>2 DEF TogglePin, ToggleFilter, InvertFilter, ClearPins, ToggleSettled, WithoutColumn
<1>4. \A s : ApplySorts(s) => mag' = mag
  BY DEF ApplySorts
<1>5. ToggleSort \/ ClearSorts => mag' = mag
  BY <1>4 DEF ToggleSort, ClearSorts
<1> QED BY <1>1, <1>3, <1>5 DEF TablesNext

\* Whatever is loaded, pinned, filtered, sorted or hidden, in any order, the
\* table shows the loaded rows the pins let through, sorted, until a column
\* hidden with its pins leaves it stale; and magnitudes hide no row.
THEOREM RowsShownRight == TablesInit /\ [][TablesNext]_tableVars => ShowsWhatItShould
<1>1. TablesInit => TablesInv
  BY TablesStart
<1>2. TablesInv /\ [TablesNext]_tableVars => TablesInv'
  BY TablesStep
<1>3. TablesInv => ShownMatches
  BY RowsMatch
<1>4. TablesInv' => ShownMatches'
  BY <1>3, PTL
<1>5. TablesInv /\ TablesInv' /\ [TablesNext]_tableVars => [ShownMatches' /\ MagKeepsRows]_tableVars
  <2> SUFFICES ASSUME TablesInv, TablesInv', TablesNext PROVE ShownMatches' /\ MagKeepsRows
    OBVIOUS
  <2>1. ShownMatches'
    BY <1>4
  <2>2. MagKeepsRows
    <3>1. CASE ToggleMag
      BY <3>1, MagKeeps
    <3>2. CASE mag' = mag
      BY <3>2 DEF MagKeepsRows
    <3> QED BY <3>1, <3>2, MagOnly
  <2> QED BY <2>1, <2>2
<1> QED BY <1>1, <1>2, <1>4, <1>5, PTL DEF ShowsWhatItShould
=============================================================================
