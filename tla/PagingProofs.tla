---------------------------- MODULE PagingProofs ----------------------------
(***************************************************************************)
(* What a reader of Paging sees, for any number of rows and any page size. *)
(*                                                                         *)
(* Where the order of the query is total, the rows before a position form  *)
(* a chain of leading sets.  Rows that only leave can make a page start    *)
(* late and never early (Fronts), rows that only come can make it start    *)
(* early and never late (Behinds).                                          *)
(***************************************************************************)
EXTENDS Paging, FiniteSetTheorems, TLAPS

AheadOf(r) == {s \in Listed : Ahead(s, r)}

LEMMA Finite ==
    ASSUME NEW A \in SUBSET Rows
    PROVE  IsFiniteSet(A) /\ Cardinality(A) \in Nat
BY FS_Subset, FS_CardinalityType, PagingAssumption

LEMMA SubsetSize ==
    ASSUME NEW A \in SUBSET Rows, NEW B \in SUBSET A
    PROVE  /\ Cardinality(B) <= Cardinality(A)
           /\ Cardinality(A) = Cardinality(B) => A = B
BY Finite, FS_Subset

LEMMA UnionSize ==
    ASSUME NEW A \in SUBSET Rows, NEW B \in SUBSET Rows
    PROVE  /\ Cardinality(A \cup B) <= Cardinality(A) + Cardinality(B)
           /\ A \cap B = {} => Cardinality(A \cup B) = Cardinality(A) + Cardinality(B)
<1>1. IsFiniteSet(A) /\ IsFiniteSet(B) /\ Cardinality(A) \in Nat /\ Cardinality(B) \in Nat
  BY Finite
<1>2. /\ Cardinality(A \cup B) = Cardinality(A) + Cardinality(B) - Cardinality(A \cap B)
  BY <1>1, FS_Union
<1>3. Cardinality(A \cap B) \in Nat
  BY Finite
<1>4. A \cap B = {} => Cardinality(A \cap B) = 0
  BY FS_EmptySet
<1> QED
  BY <1>1, <1>2, <1>3, <1>4

LEMMA LimitIs == Limit \in Nat \ {0} /\ \A n \in Nat : n * Limit \in Nat /\ (n + 1) * Limit = n * Limit + Limit
BY PagingAssumption

LEMMA Order ==
    ASSUME TypeOK, Unambiguous
    PROVE  /\ \A r \in Listed : ~ Ahead(r, r)
           /\ \A r, s \in Listed : r # s => Ahead(r, s) \/ Ahead(s, r)
<1>1. \A r \in Listed : key[r] \in Nat /\ r \in Nat
  BY PagingAssumption DEF Listed, TypeOK
<1> QED
  BY <1>1 DEF Ahead, Unambiguous

(* Leading sets of one list are comparable. *)
LEMMA Comparable ==
    ASSUME TypeOK, Unambiguous, NEW S \in SUBSET Listed,
           NEW A, Leading(A, S), NEW B, Leading(B, S)
    PROVE  A \subseteq B \/ B \subseteq A
<1> SUFFICES ASSUME NEW a \in A \ B, NEW b \in B \ A PROVE FALSE
  OBVIOUS
<1>1. a \in Listed /\ b \in Listed /\ a # b /\ a \in S /\ b \in S
  BY DEF Leading
<1>2. Ahead(a, b) \/ Ahead(b, a)
  BY <1>1, Order
<1> QED
  BY <1>1, <1>2 DEF Leading

LEMMA BeforeTheRest ==
    ASSUME TypeOK, Unambiguous, NEW S \in SUBSET Listed, NEW A, Leading(A, S), NEW r \in S \ A
    PROVE  A \subseteq AheadOf(r)
<1> SUFFICES ASSUME NEW a \in A PROVE a \in AheadOf(r)
  OBVIOUS
<1>1. a \in Listed /\ r \in Listed /\ a # r /\ a \in S
  BY DEF Leading
<1>2. Ahead(a, r) \/ Ahead(r, a)
  BY <1>1, Order
<1> QED
  BY <1>1, <1>2 DEF Leading, AheadOf

(* A is what a statement with OFFSET and LIMIT passes over, W what it returns. *)
Passes(A, W, S, skip, take) ==
    /\ A \subseteq S /\ W \subseteq S \ A
    /\ Leading(A, S) /\ Leading(A \cup W, S)
    /\ Cardinality(A) <= skip
    /\ Cardinality(A) < skip => A = S
    /\ Cardinality(W) <= take
    /\ Cardinality(W) < take => A \cup W = S

LEMMA WindowIs ==
    ASSUME NEW S \in SUBSET Rows, NEW W, NEW skip \in Nat, NEW take \in Nat, IsWindow(W, S, skip, take)
    PROVE  \E A : Passes(A, W, S, skip, take)
<1>1. PICK A \in SUBSET S :
        /\ Leading(A, S)
        /\ Cardinality(A) = Smaller(skip, Cardinality(S))
        /\ W \subseteq S \ A
        /\ Leading(A \cup W, S)
        /\ Cardinality(W) = Smaller(take, Cardinality(S \ A))
  BY DEF IsWindow
<1>2. /\ Cardinality(S) \in Nat /\ Cardinality(S \ A) \in Nat
      /\ Cardinality(S) = Cardinality(A) => S = A
      /\ Cardinality(S \ A) = Cardinality(W) => S \ A = W
  <2>1. S \ A \in SUBSET Rows /\ W \in SUBSET (S \ A)
    BY <1>1
  <2> QED
    BY <2>1, Finite, SubsetSize
<1>3. Cardinality(A) <= skip /\ (Cardinality(A) < skip => A = S)
  BY <1>1, <1>2 DEF Smaller
<1>4. Cardinality(W) <= take /\ (Cardinality(W) < take => W = S \ A)
  BY <1>1, <1>2 DEF Smaller
<1> QED
  BY <1>1, <1>3, <1>4 DEF Passes

(* The rows an answer keeps of what came. *)
LEMMA AnswerIs ==
    ASSUME NEW S \in SUBSET Rows, NEW rows, IsWindow(rows, S, 0, Limit)
    PROVE  /\ rows \subseteq S /\ Leading(rows, S)
           /\ Cardinality(rows) <= Limit
           /\ rows # S => Cardinality(rows) = Limit
<1>1. PICK A : Passes(A, rows, S, 0, Limit)
  BY WindowIs, LimitIs
<1>2. A = {}
  BY <1>1, Finite, FS_EmptySet DEF Passes
<1>3. Cardinality(rows) \in Nat /\ A \cup rows = rows
  BY <1>1, <1>2, Finite DEF Passes
<1>4. Leading(rows, S) /\ rows \subseteq S
  BY <1>1, <1>2 DEF Passes, Leading
<1>5. Cardinality(rows) <= Limit /\ (Cardinality(rows) < Limit => rows = S)
  BY <1>1, <1>3 DEF Passes
<1> QED
  BY <1>3, <1>4, <1>5, LimitIs
-----------------------------------------------------------------------------
(* The invariant *)

Places ==
    /\ at = "idle" => ids = {}
    /\ at = "rows" => kind # "roles"
    /\ at = "count" => kind = "roles" /\ ids \subseteq Listed /\ Cardinality(ids) <= Limit
    /\ page = 0 => shown = {} /\ twice = FALSE
    /\ at # "idle" /\ page # 0 => more
    /\ due \subseteq Listed

(* What was shown and is still listed lies before the next page. *)
Fronts(A) ==
    /\ A \subseteq Listed /\ Leading(A, Listed)
    /\ Cardinality(A) <= page * Limit
    /\ shown \cap Listed \subseteq A
    /\ A \cap ids = {}
    /\ Leading(A \cup (ids \cap Listed), Listed)

Front == Unambiguous /\ ~ grown => ~ twice /\ \E A : Fronts(A)

(* Before a row that is due there are as many rows as were passed over, and *)
(* if it is not on the page that is read, that page is full and before it.  *)
Behinds(A, r) ==
    /\ A \subseteq AheadOf(r)
    /\ Cardinality(A) >= page * Limit
    /\ A \cap ids = {}
    /\ r \notin ids => /\ ids \subseteq AheadOf(r)
                       /\ at = "rows" => Cardinality(ids) >= Limit + 1
                       /\ at = "count" => Cardinality(ids) >= Limit

Behind ==
    Unambiguous /\ ~ shrunk =>
        /\ \A r \in due \ shown : \E A : Behinds(A, r)
        /\ at = "idle" /\ page # 0 /\ ~ more => due \subseteq shown

Inv == TypeOK /\ Places /\ Front /\ Behind

LEMMA SameTable ==
    ASSUME UNCHANGED table
    PROVE  /\ Listed' = Listed
           /\ Unambiguous' <=> Unambiguous
           /\ \A A : Leading(A, Listed)' <=> Leading(A, Listed)
           /\ \A r : AheadOf(r)' = AheadOf(r)
BY DEF table, Listed, Unambiguous, Leading, Ahead, AheadOf

-----------------------------------------------------------------------------
(* A statement that selects a page *)

LEMMA SelectFront ==
    ASSUME TypeOK, Places, Front, Opening, Unambiguous, ~ grown',
           NEW take \in Nat, NEW W, NEW A, Passes(A, W, Listed, Skip, take)
    PROVE  shown \cap Listed \subseteq A /\ ~ twice
<1>1. CASE page = 0
  BY <1>1 DEF Places
<1>2. CASE page # 0
  <2>1. grown' = grown
    BY <1>2 DEF Opening, history
  <2>2. ~ twice
    BY <2>1 DEF Front
  <2>3. PICK B : Fronts(B)
    BY <2>1 DEF Front
  <2>4. /\ A \in SUBSET Rows /\ B \in SUBSET Rows /\ Leading(A, Listed) /\ Leading(B, Listed)
        /\ Cardinality(B) <= Skip /\ Cardinality(A) <= Skip /\ Skip \in Nat
        /\ Cardinality(A) < Skip => A = Listed
        /\ B \subseteq Listed /\ shown \cap Listed \subseteq B
    BY <2>3, LimitIs DEF Fronts, Passes, Listed, Skip, TypeOK
  <2>5. Cardinality(A) \in Nat /\ Cardinality(B) \in Nat
    BY <2>4, Finite
  <2>6. CASE B \subseteq A
    BY <2>2, <2>4, <2>6
  <2>7. CASE A \subseteq B
    <3>1. Cardinality(A) <= Cardinality(B) /\ (Cardinality(B) = Cardinality(A) => B = A)
      BY <2>4, <2>7, SubsetSize
    <3>2. A = Listed \/ A = B
      BY <2>4, <2>5, <3>1
    <3> QED
      BY <2>2, <2>4, <3>2
  <2> QED
    BY <2>4, <2>6, <2>7, Comparable
<1> QED
  BY <1>1, <1>2

LEMMA SelectBehind ==
    ASSUME TypeOK, Places, Behind, Opening, Unambiguous, ~ shrunk',
           NEW take \in Nat, NEW W, NEW A, Passes(A, W, Listed, Skip, take),
           NEW r \in due' \ shown
    PROVE  /\ r \in Listed
           /\ A \subseteq AheadOf(r) /\ Cardinality(A) >= Skip
           /\ r \notin W => W \subseteq AheadOf(r) /\ Cardinality(W) >= take
<1>1. /\ A \in SUBSET Listed /\ A \in SUBSET Rows /\ W \in SUBSET Rows
      /\ A \cup W \in SUBSET Listed
      /\ Leading(A, Listed) /\ Leading(A \cup W, Listed)
      /\ Cardinality(A) <= Skip /\ Skip \in Nat
      /\ Cardinality(A) < Skip => A = Listed
      /\ Cardinality(W) < take => A \cup W = Listed
  BY LimitIs DEF Passes, Listed, Skip, TypeOK
<1>2. Cardinality(A) \in Nat /\ Cardinality(W) \in Nat
  BY <1>1, Finite
<1>3. r \in Listed /\ \E B : B \subseteq AheadOf(r) /\ Cardinality(B) >= Skip
  <2>1. CASE page = 0
    <3>1. Skip = 0 /\ r \in Listed
      BY <2>1, LimitIs DEF Skip, Opening
    <3>2. {} \subseteq AheadOf(r) /\ Cardinality({}) = 0
      BY FS_EmptySet
    <3> QED
      BY <3>1, <3>2
  <2>2. CASE page # 0
    BY <2>2 DEF Opening, history, Behind, Behinds, Places, Skip
  <2> QED
    BY <2>1, <2>2
<1>4. r \notin A
  <2> SUFFICES ASSUME r \in A PROVE FALSE
    OBVIOUS
  <2>1. PICK B : B \subseteq AheadOf(r) /\ Cardinality(B) >= Skip
    BY <1>3
  <2>2. AheadOf(r) \subseteq A \ {r}
    BY <1>1, <1>3, Order DEF AheadOf, Leading
  <2>3. Cardinality(B) <= Cardinality(A \ {r})
    <3>1. A \ {r} \in SUBSET Rows /\ B \in SUBSET (A \ {r})
      BY <1>1, <2>1, <2>2
    <3> QED
      BY <3>1, SubsetSize
  <2>4. Cardinality(A \ {r}) = Cardinality(A) - 1
    BY <1>1, Finite, FS_RemoveElement
  <2>5. Cardinality(B) \in Nat
    <3>1. B \in SUBSET Rows
      BY <1>1, <2>1, <2>2
    <3> QED
      BY <3>1, Finite
  <2> QED
    BY <1>1, <1>2, <2>1, <2>3, <2>4, <2>5
<1>5. A \subseteq AheadOf(r)
  BY <1>1, <1>3, <1>4, BeforeTheRest
<1>6. Cardinality(A) >= Skip
  BY <1>1, <1>2, <1>3, <1>4
<1>7. ASSUME r \notin W PROVE W \subseteq AheadOf(r) /\ Cardinality(W) >= take
  <2>1. A \cup W \subseteq AheadOf(r)
    <3>1. r \in Listed \ (A \cup W)
      BY <1>3, <1>4, <1>7
    <3> QED
      BY <1>1, <3>1, BeforeTheRest
  <2>2. ~ (Cardinality(W) < take)
    BY <1>1, <1>3, <1>4, <1>7
  <2> QED
    BY <1>2, <2>1, <2>2
<1> QED
  BY <1>3, <1>5, <1>6, <1>7

-----------------------------------------------------------------------------
(* An answer that shows a page *)

LEMMA ShowFront ==
    ASSUME TypeOK, NEW A \in SUBSET Listed, Leading(A, Listed), Cardinality(A) <= page * Limit,
           shown \cap Listed \subseteq A,
           NEW S \in SUBSET Listed, S \cap A = {}, Leading(A \cup S, Listed),
           NEW rows \in SUBSET S, Leading(rows, S), Cardinality(rows) <= Limit
    PROVE  /\ Leading(A \cup rows, Listed)
           /\ Cardinality(A \cup rows) <= (page + 1) * Limit
           /\ shown \cap rows = {}
<1>1. Leading(A \cup rows, Listed)
  BY DEF Leading
<1>2. A \in SUBSET Rows /\ rows \in SUBSET Rows /\ A \cup rows \in SUBSET Rows
  BY DEF Listed
<1>3. /\ Cardinality(A \cup rows) <= Cardinality(A) + Cardinality(rows)
      /\ Cardinality(A) \in Nat /\ Cardinality(rows) \in Nat /\ Cardinality(A \cup rows) \in Nat
  BY <1>2, UnionSize, Finite
<1>4. Cardinality(A \cup rows) <= (page + 1) * Limit
  <2>1. page * Limit \in Nat /\ (page + 1) * Limit = page * Limit + Limit /\ Limit \in Nat
    BY LimitIs DEF TypeOK
  <2> QED
    BY <1>3, <2>1
<1> QED
  BY <1>1, <1>4

LEMMA ShowBehind ==
    ASSUME TypeOK, Unambiguous, NEW r \in Listed, NEW A, A \subseteq AheadOf(r),
           Cardinality(A) >= page * Limit,
           NEW S \in SUBSET Listed, A \cap S = {}, r \notin S => S \subseteq AheadOf(r),
           NEW rows \in SUBSET S, Leading(rows, S), r \notin rows, Cardinality(rows) >= Limit
    PROVE  A \cup rows \subseteq AheadOf(r) /\ Cardinality(A \cup rows) >= (page + 1) * Limit
<1>1. rows \subseteq AheadOf(r)
  <2>1. CASE r \in S
    BY <2>1, BeforeTheRest
  <2>2. CASE r \notin S
    BY <2>2
  <2> QED
    BY <2>1, <2>2
<1>2. A \in SUBSET Rows /\ rows \in SUBSET Rows /\ A \cap rows = {}
  BY DEF Listed, AheadOf
<1>3. /\ Cardinality(A \cup rows) = Cardinality(A) + Cardinality(rows)
      /\ Cardinality(A) \in Nat /\ Cardinality(rows) \in Nat
  BY <1>2, UnionSize, Finite
<1>4. page * Limit \in Nat /\ (page + 1) * Limit = page * Limit + Limit /\ Limit \in Nat
  BY LimitIs DEF TypeOK
<1> QED
  BY <1>1, <1>3, <1>4
-----------------------------------------------------------------------------
(* The steps of a reading *)

LEMMA OpeningIs ==
    ASSUME TypeOK, Places, Opening
    PROVE  /\ due' \subseteq Listed /\ due' \subseteq Rows
           /\ grown' \in BOOLEAN /\ shrunk' \in BOOLEAN
BY DEF Opening, history, Places, TypeOK, Listed

LEMMA SelectKeeps ==
    ASSUME Inv, Wanted, NEW take \in Nat, NEW W \in SUBSET Listed, IsWindow(W, Listed, Skip, take),
           ids' = W, Opening, UNCHANGED <<table, page, shown, more, twice>>,
           \/ at' = "rows" /\ take = Limit + 1 /\ kind # "roles"
           \/ at' = "count" /\ take = Limit /\ kind = "roles"
    PROVE  Inv'
<1>1. TypeOK /\ Places /\ Front /\ Behind /\ Skip \in Nat /\ Limit \in Nat
  BY LimitIs DEF Inv, TypeOK, Skip
<1>2. /\ Listed \in SUBSET Rows
      /\ Listed' = Listed
      /\ Unambiguous' <=> Unambiguous
      /\ \A A : Leading(A, Listed)' <=> Leading(A, Listed)
      /\ \A r : AheadOf(r)' = AheadOf(r)
  BY SameTable DEF Listed
<1>3. PICK A : Passes(A, W, Listed, Skip, take)
  BY <1>1, <1>2, WindowIs
<1>4. TypeOK'
  BY <1>1, <1>2, OpeningIs DEF TypeOK, table
<1>5. Places'
  <2>1. due' \subseteq Listed' /\ (page' = 0 => shown' = {} /\ twice' = FALSE)
    BY <1>1, <1>2, OpeningIs DEF Places
  <2>2. at' # "idle" /\ (page' # 0 => more')
    BY DEF Wanted
  <2>3. kind' = kind /\ (at' = "count" => Cardinality(ids') <= Limit)
    BY <1>3 DEF Passes, table
  <2> QED
    BY <1>2, <2>1, <2>2, <2>3 DEF Places
<1>6. Front'
  <2> SUFFICES ASSUME Unambiguous', ~ grown' PROVE ~ twice' /\ \E B : Fronts(B)'
    BY DEF Front
  <2>1. shown \cap Listed \subseteq A /\ ~ twice
    BY <1>1, <1>2, <1>3, SelectFront
  <2>2. /\ A \subseteq Listed /\ Leading(A, Listed) /\ Leading(A \cup W, Listed)
        /\ Cardinality(A) <= page * Limit /\ A \cap W = {}
    BY <1>3 DEF Passes, Skip
  <2>3. ids' \cap Listed' = W
    BY <1>2
  <2>4. Leading(A \cup (ids \cap Listed), Listed)' <=> Leading(A \cup W, Listed)
    BY <1>2, <2>3 DEF Leading, Ahead, table
  <2>5. Fronts(A)'
    BY <1>2, <2>1, <2>2, <2>4 DEF Fronts
  <2> QED
    BY <2>1, <2>5
<1>7. Behind'
  <2> SUFFICES ASSUME Unambiguous', ~ shrunk', NEW r \in due' \ shown' PROVE \E B : Behinds(B, r)'
    <3>1. at' # "idle"
      OBVIOUS
    <3> QED
      BY <3>1 DEF Behind
  <2>1. /\ A \subseteq AheadOf(r) /\ Cardinality(A) >= Skip
        /\ r \notin W => W \subseteq AheadOf(r) /\ Cardinality(W) >= take
    BY <1>1, <1>2, <1>3, SelectBehind
  <2>2. A \cap W = {}
    BY <1>3 DEF Passes
  <2>3. Behinds(A, r)'
    BY <1>2, <2>1, <2>2 DEF Behinds, Skip
  <2> QED
    BY <2>3
<1> QED
  BY <1>4, <1>5, <1>6, <1>7 DEF Inv

(* What the rows of a page come from: the ids selected, or the one statement. *)
Shows(S, rows) ==
    /\ rows \subseteq S /\ Leading(rows, S) /\ Cardinality(rows) <= Limit
    /\ rows # S => Cardinality(rows) = Limit

LEMMA FrontShown ==
    ASSUME TypeOK, NEW A, A \subseteq Listed, Leading(A, Listed), Cardinality(A) <= page * Limit,
           shown \cap Listed \subseteq A, ~ twice,
           NEW S \in SUBSET Listed, S \cap A = {}, Leading(A \cup S, Listed),
           NEW rows, Shows(S, rows), Show(rows), ids' = {}, UNCHANGED table
    PROVE  Front'
<1>1. /\ Leading(A \cup rows, Listed)
      /\ Cardinality(A \cup rows) <= (page + 1) * Limit
      /\ shown \cap rows = {}
      /\ rows \subseteq Listed
  BY ShowFront DEF Shows
<1>2. ~ twice' /\ page' = page + 1 /\ shown' = shown \cup rows
  BY <1>1 DEF Show
<1>3. PICK B : B = A \cup rows
  OBVIOUS
<1>4. /\ Listed' = Listed
      /\ Leading(B, Listed)' <=> Leading(B, Listed)
  BY SameTable
<1>5. B \cup (ids' \cap Listed') = B
  BY <1>3
<1>6. Leading(B \cup (ids \cap Listed), Listed)'
  BY <1>1, <1>3, <1>4, <1>5 DEF Leading, Ahead, table
<1>7. Fronts(B)'
  BY <1>1, <1>2, <1>3, <1>4, <1>6 DEF Fronts
<1> QED
  BY <1>2, <1>7 DEF Front

LEMMA BehindShown ==
    ASSUME TypeOK, Unambiguous, NEW r \in Listed, NEW A, A \subseteq AheadOf(r),
           Cardinality(A) >= page * Limit,
           NEW S \in SUBSET Listed, A \cap S = {}, r \notin S => S \subseteq AheadOf(r),
           NEW rows, Shows(S, rows), r \notin rows, r \notin S => Cardinality(rows) >= Limit,
           Show(rows), at' = "idle", ids' = {}, UNCHANGED table
    PROVE  \E B : Behinds(B, r)'
<1>1. A \cup rows \subseteq AheadOf(r) /\ Cardinality(A \cup rows) >= (page + 1) * Limit
  <2>1. Cardinality(rows) >= Limit /\ rows \in SUBSET S /\ Leading(rows, S)
    BY LimitIs DEF Shows
  <2> QED
    BY <2>1, ShowBehind
<1>2. PICK B : B = A \cup rows
  OBVIOUS
<1>3. AheadOf(r)' = AheadOf(r) /\ page' = page + 1
  BY SameTable DEF Show
<1>4. Behinds(B, r)'
  BY <1>1, <1>2, <1>3 DEF Behinds
<1> QED
  BY <1>4
(* A page shown by ReadPage, ReadRows and ReadTotal. *)
LEMMA PageTyped ==
    ASSUME Inv, NEW S \in SUBSET Rows, NEW rows, rows \subseteq S, Show(rows), more' \in BOOLEAN,
           at' = "idle", ids' = {}, UNCHANGED table,
           due' \subseteq Listed, grown' \in BOOLEAN, shrunk' \in BOOLEAN
    PROVE  TypeOK' /\ Places'
<1>1. TypeOK
  BY DEF Inv
<1>2. Listed' = Listed /\ Listed \subseteq Rows
  BY SameTable DEF Listed
<1>3. page' \in Nat /\ page' # 0 /\ shown' \subseteq Rows /\ twice' \in BOOLEAN
  BY <1>1 DEF Show, TypeOK
<1>4. TypeOK'
  BY <1>1, <1>2, <1>3 DEF TypeOK, table
<1> QED
  BY <1>2, <1>3, <1>4 DEF Places

LEMMA AnswerShows ==
    ASSUME NEW S \in SUBSET Rows, Answer(S)
    PROVE  /\ \E rows : rows \subseteq S /\ Shows(S, rows) /\ Show(rows)
           /\ more' = (Cardinality(S) > Limit)
<1>1. PICK rows \in SUBSET S : IsWindow(rows, S, 0, Limit) /\ Show(rows)
  BY DEF Answer
<1>2. Shows(S, rows)
  BY <1>1, AnswerIs DEF Shows
<1> QED
  BY <1>1, <1>2 DEF Answer

(* If not all of S is shown there is more. *)
LEMMA MoreThanLimit ==
    ASSUME NEW S \in SUBSET Rows, NEW rows, Shows(S, rows), rows # S
    PROVE  Cardinality(S) > Limit
<1>1. /\ Cardinality(rows) <= Cardinality(S)
      /\ Cardinality(S) = Cardinality(rows) => S = rows
  BY SubsetSize DEF Shows
<1>2. Cardinality(S) \in Nat /\ Cardinality(rows) = Limit /\ Limit \in Nat
  BY Finite, LimitIs DEF Shows
<1> QED
  BY <1>1, <1>2

LEMMA ReadPageKeeps == ASSUME Inv, ReadPage PROVE Inv'
<1>1. TypeOK /\ Places /\ Front /\ Behind /\ Skip \in Nat /\ Limit \in Nat /\ Limit + 1 \in Nat
  BY LimitIs DEF Inv, TypeOK, Skip
<1>2. PICK S \in SUBSET Listed : IsWindow(S, Listed, Skip, Limit + 1) /\ Answer(S)
  BY DEF ReadPage
<1>3. /\ Opening /\ UNCHANGED <<table, at, ids>> /\ at = "idle" /\ ids = {}
      /\ Listed \in SUBSET Rows /\ S \in SUBSET Rows
  BY <1>1 DEF ReadPage, Wanted, Places, Listed
<1>4. PICK rows : rows \subseteq S /\ Shows(S, rows) /\ Show(rows)
  BY <1>2, <1>3, AnswerShows
<1>5. more' = (Cardinality(S) > Limit)
  BY <1>2, <1>3, AnswerShows
<1>6. PICK A : Passes(A, S, Listed, Skip, Limit + 1)
  BY <1>1, <1>2, <1>3, WindowIs
<1>7. /\ A \subseteq Listed /\ Leading(A, Listed) /\ Leading(A \cup S, Listed)
      /\ Cardinality(A) <= page * Limit /\ A \cap S = {}
  BY <1>6 DEF Passes, Skip
<1>8. TypeOK' /\ Places'
  BY <1>1, <1>3, <1>4, <1>5, OpeningIs, PageTyped
<1>9. Front'
  <2>1. CASE ~ (Unambiguous /\ ~ grown')
    BY <1>3, <2>1, SameTable DEF Front
  <2>2. CASE Unambiguous /\ ~ grown'
    <3>1. shown \cap Listed \subseteq A /\ ~ twice
      BY <1>1, <1>3, <1>6, <2>2, SelectFront
    <3> QED
      BY <1>1, <1>3, <1>4, <1>7, <3>1, FrontShown
  <2> QED
    BY <2>1, <2>2
<1>10. Behind'
  <2> SUFFICES ASSUME Unambiguous, ~ shrunk', NEW r \in due' \ shown'
      PROVE  (\E B : Behinds(B, r)') /\ more'
    BY <1>3, SameTable DEF Behind
  <2>1. r \notin shown /\ r \notin rows
    BY <1>4 DEF Show
  <2>2. /\ r \in Listed
        /\ A \subseteq AheadOf(r) /\ Cardinality(A) >= Skip
        /\ r \notin S => S \subseteq AheadOf(r) /\ Cardinality(S) >= Limit + 1
    BY <1>1, <1>3, <1>6, <2>1, SelectBehind
  <2>3. rows # S
    <3>1. CASE r \in S
      BY <2>1, <3>1
    <3>2. CASE r \notin S
      <4>1. Cardinality(S) >= Limit + 1 /\ Cardinality(rows) <= Limit /\ Cardinality(S) \in Nat
        BY <1>3, <1>4, <2>2, <3>2, Finite DEF Shows
      <4> QED
        BY <1>1, <4>1
    <3> QED
      BY <3>1, <3>2
  <2>4. more'
    BY <1>3, <1>4, <1>5, <2>3, MoreThanLimit
  <2>5. Cardinality(rows) >= Limit
    BY <1>1, <1>4, <2>3 DEF Shows
  <2> QED
    BY <1>1, <1>3, <1>4, <1>7, <2>1, <2>2, <2>4, <2>5, BehindShown DEF Skip
<1> QED
  BY <1>8, <1>9, <1>10 DEF Inv

LEMMA ReadRowsKeeps == ASSUME Inv, ReadRows PROVE Inv'
<1>1. TypeOK /\ Places /\ Front /\ Behind /\ Limit \in Nat
  BY LimitIs DEF Inv
<1>2. PICK S : S = ids \cap Listed
  OBVIOUS
<1>3. /\ at = "rows" /\ at' = "idle" /\ ids' = {} /\ UNCHANGED <<table, history>> /\ Answer(S)
      /\ S \in SUBSET Listed /\ S \in SUBSET Rows
  BY <1>2 DEF ReadRows, Listed
<1>4. PICK rows : rows \subseteq S /\ Shows(S, rows) /\ Show(rows)
  BY <1>3, AnswerShows
<1>5. more' = (Cardinality(S) > Limit)
  BY <1>3, AnswerShows
<1>6. due' = due /\ grown' = grown /\ shrunk' = shrunk /\ due \subseteq Listed
  BY <1>1, <1>3 DEF history, Places
<1>7. TypeOK' /\ Places'
  BY <1>1, <1>3, <1>4, <1>5, <1>6, PageTyped DEF TypeOK
<1>8. Front'
  <2>1. CASE ~ (Unambiguous /\ ~ grown)
    BY <1>3, <1>6, <2>1, SameTable DEF Front
  <2>2. CASE Unambiguous /\ ~ grown
    <3>1. PICK A : Fronts(A)
      BY <1>1, <2>2 DEF Front
    <3>2. /\ A \subseteq Listed /\ Leading(A, Listed) /\ Cardinality(A) <= page * Limit
          /\ shown \cap Listed \subseteq A /\ ~ twice /\ S \cap A = {}
          /\ Leading(A \cup S, Listed)
      BY <1>1, <1>2, <2>2, <3>1 DEF Fronts, Front
    <3> QED
      BY <1>1, <1>3, <1>4, <3>2, FrontShown
  <2> QED
    BY <2>1, <2>2
<1>9. Behind'
  <2> SUFFICES ASSUME Unambiguous, ~ shrunk, NEW r \in due \ shown'
      PROVE  (\E B : Behinds(B, r)') /\ more'
    BY <1>3, <1>6, SameTable DEF Behind
  <2>1. r \notin shown /\ r \notin rows /\ r \in Listed
    BY <1>4, <1>6 DEF Show
  <2>2. PICK A : Behinds(A, r)
    BY <1>1, <2>1 DEF Behind
  <2>3. /\ A \subseteq AheadOf(r) /\ Cardinality(A) >= page * Limit /\ A \cap S = {}
        /\ r \notin S => S = ids /\ S \subseteq AheadOf(r) /\ Cardinality(S) >= Limit + 1
    BY <1>2, <1>3, <2>1, <2>2 DEF Behinds, AheadOf
  <2>4. rows # S
    <3>1. CASE r \in S
      BY <2>1, <3>1
    <3>2. CASE r \notin S
      <4>1. Cardinality(S) >= Limit + 1 /\ Cardinality(rows) <= Limit /\ Cardinality(S) \in Nat
        BY <1>3, <1>4, <2>3, <3>2, Finite DEF Shows
      <4> QED
        BY <1>1, <4>1
    <3> QED
      BY <3>1, <3>2
  <2>5. more'
    BY <1>3, <1>4, <1>5, <2>4, MoreThanLimit
  <2>6. Cardinality(rows) >= Limit
    BY <1>1, <1>4, <2>4 DEF Shows
  <2> QED
    BY <1>1, <1>3, <1>4, <2>1, <2>3, <2>5, <2>6, BehindShown
<1> QED
  BY <1>7, <1>8, <1>9 DEF Inv

LEMMA ReadTotalKeeps == ASSUME Inv, ReadTotal PROVE Inv'
<1>1. TypeOK /\ Places /\ Front /\ Behind /\ Limit \in Nat
  BY LimitIs DEF Inv
<1>2. PICK S : S = ids
  OBVIOUS
<1>3. /\ at = "count" /\ at' = "idle" /\ ids' = {} /\ UNCHANGED <<table, history>> /\ Show(S)
      /\ S \in SUBSET Listed /\ S \in SUBSET Rows /\ Cardinality(S) <= Limit
      /\ more' = (Cardinality(Listed) > page' * Limit)
  BY <1>1, <1>2 DEF ReadTotal, Listed, Places
<1>4. Shows(S, S)
  BY <1>3 DEF Shows, Leading
<1>5. due' = due /\ grown' = grown /\ shrunk' = shrunk /\ due \subseteq Listed
  BY <1>1, <1>3 DEF history, Places
<1>6. TypeOK' /\ Places'
  BY <1>1, <1>3, <1>5, PageTyped DEF TypeOK
<1>7. Front'
  <2>1. CASE ~ (Unambiguous /\ ~ grown)
    BY <1>3, <1>5, <2>1, SameTable DEF Front
  <2>2. CASE Unambiguous /\ ~ grown
    <3>1. PICK A : Fronts(A)
      BY <1>1, <2>2 DEF Front
    <3>2. ids \cap Listed = S
      BY <1>2, <1>3
    <3>3. /\ A \subseteq Listed /\ Leading(A, Listed) /\ Cardinality(A) <= page * Limit
          /\ shown \cap Listed \subseteq A /\ ~ twice /\ S \cap A = {}
          /\ Leading(A \cup S, Listed)
      BY <1>1, <1>2, <2>2, <3>1, <3>2 DEF Fronts, Front
    <3> QED
      BY <1>1, <1>3, <1>4, <3>3, FrontShown
  <2> QED
    BY <2>1, <2>2
<1>8. Behind'
  <2> SUFFICES ASSUME Unambiguous, ~ shrunk, NEW r \in due \ shown'
      PROVE  (\E B : Behinds(B, r)') /\ more'
    BY <1>3, <1>5, SameTable DEF Behind
  <2>1. r \notin shown /\ r \notin S /\ r \in Listed
    BY <1>3, <1>5 DEF Show
  <2>2. PICK A : Behinds(A, r)
    BY <1>1, <2>1 DEF Behind
  <2>3. /\ A \subseteq AheadOf(r) /\ Cardinality(A) >= page * Limit /\ A \cap S = {}
        /\ S \subseteq AheadOf(r) /\ Cardinality(S) >= Limit
    BY <1>2, <1>3, <2>1, <2>2 DEF Behinds
  <2>4. A \cup S \subseteq AheadOf(r) /\ Cardinality(A \cup S) >= (page + 1) * Limit
    BY <1>1, <1>3, <1>4, <2>1, <2>3, ShowBehind DEF Shows
  <2>5. more'
    <3>1. A \cup S \subseteq Listed \ {r}
      BY <1>1, <2>1, <2>4, Order DEF AheadOf
    <3>2. Cardinality(A \cup S) <= Cardinality(Listed \ {r})
      <4>1. Listed \ {r} \in SUBSET Rows /\ A \cup S \in SUBSET (Listed \ {r})
        BY <3>1 DEF Listed
      <4> QED
        BY <4>1, SubsetSize
    <3>3. Cardinality(Listed \ {r}) = Cardinality(Listed) - 1
      BY <2>1, Finite, FS_RemoveElement DEF Listed
    <3>4. Cardinality(Listed) \in Nat /\ Cardinality(A \cup S) \in Nat
      <4>1. Listed \in SUBSET Rows /\ A \cup S \in SUBSET Rows
        BY <3>1 DEF Listed
      <4> QED
        BY <4>1, Finite
    <3>5. (page + 1) * Limit \in Nat /\ page' = page + 1
      BY <1>1, <1>3, LimitIs DEF Show, TypeOK
    <3>6. Cardinality(Listed) > page' * Limit
      BY <2>4, <3>2, <3>3, <3>4, <3>5
    <3> QED
      BY <1>3, <3>6, Zenon
  <2> QED
    BY <1>1, <1>3, <1>4, <2>1, <2>3, <2>5, BehindShown
<1> QED
  BY <1>6, <1>7, <1>8 DEF Inv
(* Before the first page nothing has been promised. *)
Closed == page = 0 /\ at = "idle" /\ ids = {} /\ shown = {} /\ twice = FALSE

LEMMA ClosedFronts == Closed => Front /\ Behind
<1> SUFFICES ASSUME Closed PROVE Front /\ Behind
  OBVIOUS
<1>1. Cardinality({}) = 0 /\ 0 * Limit = 0
  BY FS_EmptySet, LimitIs
<1>2. Fronts({})
  BY <1>1 DEF Closed, Fronts, Leading
<1>3. \A r : Behinds({}, r)
  BY <1>1 DEF Closed, Behinds
<1> QED
  BY <1>2, <1>3 DEF Closed, Front, Behind

LEMMA ClosedFrontsNext == Closed' => Front' /\ Behind'
BY ClosedFronts, PTL

LEMMA ReadFailsKeeps == ASSUME Inv, ReadFails PROVE Inv'
<1>1. TypeOK /\ Places /\ Front /\ Behind
  BY DEF Inv
<1>2. /\ at # "idle" /\ at' = "idle" /\ ids' = {}
      /\ UNCHANGED <<table, page, shown, more, twice, history>>
  BY DEF ReadFails
<1>3. TypeOK'
  BY <1>1, <1>2 DEF TypeOK, table, history
<1>4. /\ Listed' = Listed /\ (Unambiguous' <=> Unambiguous)
      /\ \A A : Leading(A, Listed)' <=> Leading(A, Listed)
      /\ \A r : AheadOf(r)' = AheadOf(r)
  BY <1>2, SameTable
<1>5. Places'
  BY <1>1, <1>2, <1>4 DEF Places, history
<1>6. Front'
  <2> SUFFICES ASSUME Unambiguous, ~ grown PROVE ~ twice /\ \E B : Fronts(B)'
    BY <1>2, <1>4 DEF Front, history
  <2>1. PICK A : Fronts(A)
    BY <1>1 DEF Front
  <2>2. A \cup (ids' \cap Listed') = A
    BY <1>2
  <2>3. Leading(A \cup (ids \cap Listed), Listed)'
    BY <1>2, <1>4, <2>1, <2>2 DEF Fronts, Leading, Ahead, table
  <2>4. Fronts(A)'
    BY <1>2, <1>4, <2>1, <2>3 DEF Fronts
  <2> QED
    BY <1>1, <2>4 DEF Front
<1>7. Behind'
  <2>1. page # 0 => more
    BY <1>1, <1>2 DEF Places
  <2> SUFFICES ASSUME Unambiguous, ~ shrunk, NEW r \in due \ shown PROVE \E B : Behinds(B, r)'
    BY <1>2, <1>4, <2>1 DEF Behind, history
  <2>2. PICK A : Behinds(A, r)
    BY <1>1 DEF Behind
  <2>3. Behinds(A, r)'
    BY <1>2, <1>4, <2>2 DEF Behinds
  <2> QED
    BY <2>3
<1> QED
  BY <1>3, <1>5, <1>6, <1>7 DEF Inv

LEMMA OpenKeeps == ASSUME Inv, Open PROVE Inv'
<1>1. TypeOK /\ Places
  BY DEF Inv
<1>2. TypeOK' /\ Places' /\ Closed'
  BY <1>1 DEF Open, TypeOK, Places, Closed, table, Listed
<1> QED
  BY <1>2, ClosedFrontsNext DEF Inv

-----------------------------------------------------------------------------
(* The steps that write *)

LEMMA WriteIs ==
    ASSUME Inv, NEW r \in Rows, Write(r)
    PROVE  /\ UNCHANGED <<kind, searching, reader>> /\ due' = due \ {r}
           /\ grown' \in BOOLEAN /\ shrunk' \in BOOLEAN
           /\ \E k \in Keys \cup {Out} :
                /\ key' = [key EXCEPT ![r] = k]
                /\ \/ /\ grown' = Opened
                      /\ Opened /\ ~ shrunk' =>
                            ~ shrunk /\ k # Out /\ (key[r] = Out \/ ~ (k < key[r]))
                   \/ /\ kind \notin {"roles"} /\ k = Out
                      /\ grown' = grown /\ shrunk' = Opened
           /\ kind = "roles" => key[r] = Out
<1>1. TypeOK
  BY DEF Inv
<1>2. Opened \in BOOLEAN
  BY DEF Opened
<1>3. CASE Insert(r)
  BY <1>1, <1>2, <1>3, PagingAssumption DEF Insert, Place, TypeOK
<1>4. CASE Delete(r)
  BY <1>1, <1>2, <1>4 DEF Delete, Place, TypeOK
<1>5. CASE Upsert(r) \/ Edit(r)
  <2>1. PICK k \in Keys \cup {Out} :
          /\ Place(r, k)
          /\ shrunk' = (shrunk \/ (Opened /\ (k = Out \/ k < key[r])))
    BY <1>5 DEF Upsert, Edit, Move
  <2>2. Opened /\ ~ shrunk' => ~ shrunk /\ k # Out /\ ~ (k < key[r])
    BY <2>1
  <2>3. /\ grown' = Opened /\ due' = due \ {r} /\ UNCHANGED <<kind, searching, reader>>
        /\ kind # "roles"
    BY <1>5 DEF Upsert, Edit, Move
  <2>4. shrunk' \in BOOLEAN
    BY <2>1
  <2> QED
    BY <1>2, <2>1, <2>2, <2>3, <2>4 DEF Place
<1> QED
  BY <1>3, <1>4, <1>5 DEF Write

LEMMA WriteKeeps == ASSUME Inv, NEW r \in Rows, Write(r) PROVE Inv'
<1>1. TypeOK /\ Places /\ Front /\ Behind
  BY DEF Inv
<1>2. /\ UNCHANGED <<kind, searching, reader>> /\ due' = due \ {r}
      /\ grown' \in BOOLEAN /\ shrunk' \in BOOLEAN
      /\ kind = "roles" => key[r] = Out
  BY WriteIs
<1>3. PICK k \in Keys \cup {Out} :
        /\ key' = [key EXCEPT ![r] = k]
        /\ \/ /\ grown' = Opened
              /\ Opened /\ ~ shrunk' => ~ shrunk /\ k # Out /\ (key[r] = Out \/ ~ (k < key[r]))
           \/ /\ kind \notin {"roles"} /\ k = Out
              /\ grown' = grown /\ shrunk' = Opened
  BY WriteIs
<1>4. /\ \A s \in Rows : key'[s] = IF s = r THEN k ELSE key[s]
      /\ key' \in [Rows -> Keys \cup {Out}]
  BY <1>1, <1>3 DEF TypeOK
<1>5. /\ at' = at /\ ids' = ids /\ page' = page /\ shown' = shown /\ more' = more /\ twice' = twice
      /\ kind' = kind /\ searching' = searching
  BY <1>2 DEF reader
<1>6. TypeOK'
  BY <1>1, <1>2, <1>4, <1>5 DEF TypeOK
<1>7. Listed' \ {r} = Listed \ {r} /\ Listed \subseteq Rows /\ Listed' \subseteq Rows
  BY <1>4 DEF Listed
<1>8. Places'
  <2>1. at = "count" => r \notin ids
    BY <1>1, <1>2 DEF Places, Listed
  <2> QED
    BY <1>1, <1>2, <1>5, <1>7, <2>1 DEF Places
<1>9. Unambiguous' => Unambiguous
  <2> SUFFICES ASSUME Unambiguous', kind = "roles", NEW x \in Listed, NEW y \in Listed, key[x] = key[y]
      PROVE  x = y
    BY <1>5 DEF Unambiguous
  <2>1. x # r /\ y # r
    BY <1>2 DEF Listed
  <2>2. x \in Listed' /\ y \in Listed' /\ key'[x] = key'[y]
    BY <1>4, <1>7, <2>1
  <2> QED
    BY <1>5, <2>2 DEF Unambiguous
<1>10. CASE ~ Opened
  <2>1. Closed'
    BY <1>1, <1>5, <1>10 DEF Opened, Closed, Places
  <2> QED
    BY <1>6, <1>8, <2>1, ClosedFrontsNext DEF Inv
<1>11. CASE Opened
  <2>1. Front'
    <3> SUFFICES ASSUME Unambiguous', ~ grown' PROVE ~ twice /\ \E B : Fronts(B)'
      BY <1>5 DEF Front
    <3>1. k = Out /\ grown' = grown /\ kind # "roles"
      BY <1>3, <1>11
    <3>2. ~ twice
      BY <1>1, <1>9, <3>1 DEF Front
    <3>3. PICK A : Fronts(A)
      BY <1>1, <1>9, <3>1 DEF Front
    <3>4. Listed' = Listed \ {r}
      BY <1>4, <3>1 DEF Listed
    <3>5. \A x, y \in Listed \ {r} : Ahead(x, y)' <=> Ahead(x, y)
      BY <1>4, <1>5, <1>7 DEF Ahead
    <3>6. PICK B : B = A \ {r}
      OBVIOUS
    <3>7. B \subseteq Listed' /\ Leading(B, Listed)'
      BY <3>3, <3>4, <3>5, <3>6 DEF Fronts, Leading
    <3>8. Cardinality(B) <= page' * Limit
      <4>1. A \in SUBSET Rows /\ B \in SUBSET A /\ B \in SUBSET Rows
        BY <1>7, <3>3, <3>6 DEF Fronts
      <4>2. Cardinality(B) <= Cardinality(A) /\ Cardinality(A) \in Nat /\ Cardinality(B) \in Nat
        BY <4>1, SubsetSize, Finite
      <4>3. page * Limit \in Nat
        BY <1>1, LimitIs DEF TypeOK
      <4> QED
        BY <1>5, <3>3, <4>2, <4>3 DEF Fronts
    <3>9. shown' \cap Listed' \subseteq B /\ B \cap ids' = {}
      BY <1>5, <3>3, <3>4, <3>6 DEF Fronts
    <3>10. Leading(B \cup (ids \cap Listed), Listed)'
      BY <1>5, <3>3, <3>4, <3>5, <3>6 DEF Fronts, Leading
    <3>11. Fronts(B)'
      BY <3>7, <3>8, <3>9, <3>10 DEF Fronts
    <3> QED
      BY <3>2, <3>11
  <2>2. Behind'
    <3> SUFFICES ASSUME Unambiguous', ~ shrunk'
        PROVE  /\ \A s \in due' \ shown' : \E B : Behinds(B, s)'
               /\ at' = "idle" /\ page' # 0 /\ ~ more' => due' \subseteq shown'
      BY DEF Behind
    <3>1. ~ shrunk /\ k # Out /\ (key[r] = Out \/ ~ (k < key[r]))
      BY <1>3, <1>11
    <3>2. at' = "idle" /\ page' # 0 /\ ~ more' => due' \subseteq shown'
      BY <1>1, <1>2, <1>5, <1>9, <3>1 DEF Behind
    <3>3. ASSUME NEW s \in due' \ shown' PROVE \E B : Behinds(B, s)'
      <4>1. s \in due \ shown /\ s # r /\ s \in Listed
        BY <1>1, <1>2, <1>5 DEF Places
      <4>2. PICK A : Behinds(A, s)
        BY <1>1, <1>9, <3>1, <4>1 DEF Behind
      <4>3. ASSUME NEW x \in AheadOf(s) PROVE x \in AheadOf(s)'
        <5>1. x \in Listed /\ Ahead(x, s)
          BY DEF AheadOf
        <5>2. CASE x # r
          BY <1>4, <1>5, <1>7, <4>1, <5>1, <5>2 DEF AheadOf, Ahead
        <5>3. CASE x = r
          <6>1. key[r] # Out /\ ~ (k < key[r]) /\ r \in Listed'
            BY <1>4, <3>1, <5>1, <5>3 DEF Listed
          <6>2. k \in Nat /\ key[r] \in Nat /\ key[s] \in Nat
            BY <1>1, <3>1, <4>1, <6>1, PagingAssumption DEF TypeOK, Listed
          <6>3. key'[r] = k /\ key'[s] = key[s]
            BY <1>4, <1>7, <4>1
          <6> QED
            BY <1>5, <5>1, <5>3, <6>1, <6>2, <6>3 DEF AheadOf, Ahead
        <5> QED
          BY <5>2, <5>3
      <4>4. Behinds(A, s)'
        BY <1>5, <4>2, <4>3 DEF Behinds
      <4> QED
        BY <4>4
    <3> QED
      BY <3>2, <3>3
  <2> QED
    BY <1>6, <1>8, <2>1, <2>2 DEF Inv
<1> QED
  BY <1>10, <1>11

-----------------------------------------------------------------------------
(* Every step *)

LEMMA InitInv == Init => Inv
<1> SUFFICES ASSUME Init PROVE Inv
  OBVIOUS
<1>1. TypeOK /\ Places /\ Closed
  BY DEF Init, TypeOK, Places, Closed, Listed
<1> QED
  BY <1>1, ClosedFronts DEF Inv

LEMMA ReadKeeps == ASSUME Inv, Read PROVE Inv'
<1>1. CASE ReadIds /\ kind # "roles"
  <2>1. PICK W \in SUBSET Listed : IsWindow(W, Listed, Skip, Limit + 1) /\ ids' = W
    BY <1>1 DEF ReadIds
  <2>2. Limit + 1 \in Nat
    BY LimitIs
  <2> QED
    BY <1>1, <2>1, <2>2, SelectKeeps DEF ReadIds
<1>2. CASE ReadCounted /\ kind = "roles"
  <2>1. PICK W \in SUBSET Listed : IsWindow(W, Listed, Skip, Limit) /\ ids' = W
    BY <1>2 DEF ReadCounted
  <2>2. Limit \in Nat
    BY LimitIs
  <2> QED
    BY <1>2, <2>1, <2>2, SelectKeeps DEF ReadCounted
<1> QED
  BY <1>1, <1>2, ReadRowsKeeps, ReadPageKeeps, ReadTotalKeeps, ReadFailsKeeps, OpenKeeps
  DEF Read, ConversationPage, MessagePage, LabelPage, ReplyPage, CategoryPage, MemberPage,
      ConnectedPage, RolePage, ReadTwice

LEMMA NextInv == Inv /\ [Next]_vars => Inv'
<1> SUFFICES ASSUME Inv, [Next]_vars PROVE Inv'
  OBVIOUS
<1>1. CASE Next
  BY <1>1, ReadKeeps, WriteKeeps DEF Next
<1>2. CASE UNCHANGED vars
  BY <1>2 DEF vars, table, reader, history, Inv, TypeOK, Places, Front, Behind, Fronts, Behinds,
     AheadOf, Leading, Listed, Ahead, Unambiguous
<1> QED
  BY <1>1, <1>2

LEMMA InvAlways == Spec => []Inv
BY InitInv, NextInv, PTL DEF Spec

(* Every variable keeps its type. *)
THEOREM PagingTypeCorrect == Spec => []TypeOK
<1>1. Inv => TypeOK
  BY DEF Inv
<1> QED
  BY <1>1, InvAlways, PTL

(* A row is shown on two pages of one reading only if a row came or moved   *)
(* to the front since its first page.                                       *)
THEOREM RowsAreShownOnce == Spec => []NothingTwice
<1>1. Inv => NothingTwice
  BY DEF Inv, Front, NothingTwice
<1> QED
  BY <1>1, InvAlways, PTL

(* A reading that reached its end has shown every row that was in the list  *)
(* at its beginning and stayed where it was, unless a row left or moved     *)
(* back meanwhile.                                                          *)
THEOREM RowsAreNotSkipped == Spec => []NothingSkipped
<1>1. Inv => NothingSkipped
  BY DEF Inv, Behind, NothingSkipped
<1> QED
  BY <1>1, InvAlways, PTL
=============================================================================
