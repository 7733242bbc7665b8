----------------------------- MODULE CopyProofs -----------------------------
(***************************************************************************)
(* What holds of Copy for any number of requests, pages and rows.          *)
(***************************************************************************)
EXTENDS Copy, FiniteSetTheorems, TLAPS

Steps(r) == Edits(r) \/ Copies(r) \/ Fail(r)

(* What a request's place in its code says of it and of what it has read. *)
Place(r) ==
    /\ pc[r] \in {"label", "existing", "saveLabel"} => job[r].op = "copyLabels"
    /\ pc[r] \in {"categories", "reply", "category", "saveCategory", "saveReply"} =>
          job[r].op = "copyReplies"
    /\ pc[r] = "categories" => job[r].replace
    /\ pc[r] = "tag" => job[r].op = "tag"
    /\ pc[r] \in {"existing", "saveLabel", "category", "saveCategory"} => hand[r].name \in Names
    /\ pc[r] \in {"category", "saveCategory", "saveReply"} => hand[r].content \in Contents
    /\ pc[r] = "saveReply" /\ hand[r].category # 0 => \E e \in cache[r] : e[1] = hand[r].category
    /\ cache[r] # {} => job[r].op = "copyReplies"

(* The ids of a table come from its counter, and none is given twice. *)
Keyed(T, n) ==
    /\ \A x \in T : x.id \in Nat /\ x.id # 0 /\ x.id <= n
    /\ \A x, y \in T : x.id = y.id => x = y

(* The page a row was written for is the page it stays on. *)
Own ==
    /\ \A c \in categories : c.id <= Last0 => \E d \in Categories0 : d.id = c.id /\ d.page = c.page
    /\ \A x \in replies : x.id <= Last0 => \E y \in Replies0 : y.id = x.id /\ y.page = x.page

(* What a copy takes for a category of its landing page is none of another. *)
Cached(r) ==
    \A e \in cache[r] : /\ e[2] # 0 /\ e[2] <= last
                        /\ \A c \in categories : c.id = e[2] => job[r].landing \in {NoPage, c.page}

(* A label that is shown and not stored was deleted, if its request was     *)
(* not refused.                                                             *)
Pushed ==
    \A t \in pushed \ tags :
        \/ t[2] \notin Ids(labels) /\ t[2] <= last
        \/ \E r \in Requests :
              /\ job[r].op = "tag" /\ t = <<job[r].conversation, job[r].label>>
              /\ pc[r] \in {"tag", "failed"}

Inv ==
    /\ TypeOK
    /\ job \in Mixes
    /\ Last0 <= last
    /\ Keyed(labels, last) /\ Keyed(categories, last) /\ Keyed(replies, last)
    /\ \A r \in Requests : Place(r) /\ Cached(r)
    /\ Own
    /\ CategoryIsOwnPage
    /\ Pushed

-----------------------------------------------------------------------------
(* Jobs and rows *)

LEMMA JobHas ==
    ASSUME TypeOK, NEW r \in Requests
    PROVE  /\ job[r].op \in {"copyLabels", "copyReplies"} =>
                 job[r].landing \in PageId /\ job[r].source \in Pages /\ job[r].replace \in BOOLEAN
           /\ job[r].op \in {"createLabel", "createCategory"} => job[r].page \in PageId /\ job[r].name \in Names
           /\ job[r].op = "updateLabel" => job[r].name \in Names /\ job[r].hidden \in BOOLEAN
           /\ job[r].op = "updateCategory" => job[r].name \in Names
           /\ job[r].op = "createReply" =>
                 job[r].page \in PageId /\ job[r].content \in Contents /\ job[r].category \in Nat
           /\ job[r].op = "updateReply" => job[r].content \in Contents /\ job[r].category \in Nat
           /\ job[r].op = "tag" => job[r].conversation \in Conversations /\ job[r].label \in Nat
<1>1. job[r] \in Job
  BY DEF TypeOK
<1> QED
  BY <1>1 DEF Job, PageId

LEMMA KeyedInsert ==
    ASSUME NEW T, NEW n \in Nat, Keyed(T, n), NEW x, x.id = n + 1
    PROVE  Keyed(T \cup {x}, n + 1)
BY DEF Keyed

LEMMA KeyedLess ==
    ASSUME NEW T, NEW n \in Nat, Keyed(T, n), NEW U, U \subseteq T
    PROVE  Keyed(U, n)
BY DEF Keyed

LEMMA KeyedMore ==
    ASSUME NEW T, NEW n \in Nat, NEW m \in Nat, Keyed(T, n), n <= m
    PROVE  Keyed(T, m)
BY DEF Keyed

(* One UPDATE of the row i, by a function of the row. *)
LEMMA KeyedUpdate ==
    ASSUME NEW T, NEW n \in Nat, Keyed(T, n), NEW i, NEW V,
           \A v \in V : \E x \in WithId(T, i) : v.id = x.id,
           \A v, w \in V : v = w
    PROVE  Keyed((T \ WithId(T, i)) \cup V, n)
<1>1. \A v \in V : v.id = i /\ v.id \in Nat /\ v.id # 0 /\ v.id <= n
  BY DEF Keyed, WithId
<1>2. \A x \in T \ WithId(T, i) : x.id # i
  BY DEF WithId
<1> QED
  BY <1>1, <1>2 DEF Keyed

(* A condition on a page selects its rows. *)
LEMMA ScopeOfPage ==
    ASSUME NEW T, NEW p, p # NoPage
    PROVE  /\ Scope(T, p) = OnPage(T, p)
           /\ \A n : Named(T, p, n) = {x \in OnPage(T, p) : x.name = n}
BY DEF Scope, OnPage, Named

LEMMA IdsHas == ASSUME NEW T, NEW i PROVE i \in Ids(T) <=> \E x \in T : x.id = i
BY DEF Ids
-----------------------------------------------------------------------------
(* What a step of r leaves alone *)

(* Another request, the job of each, and the counter. *)
LEMMA Frame ==
    ASSUME TypeOK, NEW r \in Requests, Steps(r)
    PROVE  /\ job' = job /\ (last' = last \/ last' = last + 1)
           /\ \A s \in Requests \ {r} : /\ pc'[s] = pc[s] /\ at'[s] = at[s]
                                        /\ hand'[s] = hand[s] /\ cache'[s] = cache[s]
<1> USE DEF TypeOK, Goto, Step, local, table, screens, history
<1>1. CASE CreateLabel(r) \/ UpdateLabel(r) \/ DeleteLabels(r)
  BY <1>1 DEF CreateLabel, UpdateLabel, DeleteLabels, Enter, Saved, Fails, InsertLabel, DropLabels
<1>2. CASE CreateCategory(r) \/ UpdateCategory(r) \/ DeleteCategories(r)
  BY <1>2 DEF CreateCategory, UpdateCategory, DeleteCategories, Enter, Saved, Fails,
     InsertCategory, DropCategories
<1>3. CASE CreateReply(r) \/ UpdateReply(r) \/ DeleteReplies(r) \/ TagPush(r) \/ TagStore(r)
  BY <1>3 DEF CreateReply, UpdateReply, DeleteReplies, TagPush, TagStore, Enter, Saved, Fails, InsertReply
<1>4. CASE CopyRefused(r) \/ CopyDone(r) \/ CopyLabels(r) \/ FindLabel(r) \/ FindExisting(r)
  BY <1>4 DEF CopyRefused, CopyDone, CopyLabels, FindLabel, FindExisting, Enter, Fails, DropLabels, NextKey
<1>5. CASE SaveLabel(r) \/ CopyReplies(r) \/ ClearCategories(r)
  BY <1>5 DEF SaveLabel, CopyReplies, ClearCategories, Enter, Fails, InsertLabel, DropCategories, NextKey
<1>6. CASE FindReply(r) \/ FindCategory(r) \/ SaveCategory(r) \/ SaveReply(r) \/ Fail(r)
  BY <1>6 DEF FindReply, FindCategory, SaveCategory, SaveReply, Fail, Fails, Remember, NextKey,
     InsertCategory, InsertReply
<1> QED
  BY <1>1, <1>2, <1>3, <1>4, <1>5, <1>6 DEF Steps, Edits, Copies
-----------------------------------------------------------------------------
(* What a step does to a table *)

LEMMA LabelsStep ==
    ASSUME Inv, NEW r \in Requests, Steps(r)
    PROVE  /\ labels' \subseteq Label
           /\ Keyed(labels', last')
           /\ \A i \in Ids(labels') : i \in Ids(labels) \/ i = last + 1
<1>1. /\ TypeOK /\ labels \subseteq Label /\ last \in Nat /\ Keyed(labels, last) /\ Place(r)
      /\ (last' = last \/ last' = last + 1)
      /\ \A x \in labels : x \in Label /\ x.id \in Nat /\ x.page \in PageId /\ x.name \in Names
  BY Frame DEF Inv, TypeOK, Label
<1>2. CASE labels' = labels
  BY <1>1, <1>2, KeyedMore
<1>3. ASSUME NEW S, labels' = labels \ S, last' = last
      PROVE  /\ labels' \subseteq Label /\ Keyed(labels', last')
             /\ \A i \in Ids(labels') : i \in Ids(labels)
  BY <1>1, <1>3, KeyedLess DEF Ids
<1>4. ASSUME NEW p \in PageId, NEW n \in Names, InsertLabel(p, n)
      PROVE  /\ labels' \subseteq Label /\ Keyed(labels', last')
             /\ \A i \in Ids(labels') : i \in Ids(labels) \/ i = last + 1
  <2> DEFINE x == [id |-> last + 1, page |-> p, name |-> n, hidden |-> FALSE]
  <2>1. labels' = labels \cup {x} /\ last' = last + 1
    BY <1>4 DEF InsertLabel
  <2>2. x \in Label /\ x.id = last + 1
    BY <1>1 DEF Label
  <2> HIDE DEF x
  <2> QED
    BY <1>1, <2>1, <2>2, KeyedInsert DEF Ids
<1>5. CASE UpdateLabel(r)
  <2>1. CASE UNCHANGED table
    BY <1>2, <2>1 DEF table
  <2>2. CASE ~ UNCHANGED table
    <3> DEFINE i == job[r].id
               new(x) == [x EXCEPT !.name = job[r].name, !.hidden = job[r].hidden]
               V == {new(x) : x \in WithId(labels, i)}
    <3>1. labels' = (labels \ WithId(labels, i)) \cup V /\ last' = last /\ job[r].op = "updateLabel"
      BY <1>5, <2>2 DEF UpdateLabel, Enter, Fails
    <3>2. job[r].name \in Names /\ job[r].hidden \in BOOLEAN
      BY <1>1, <3>1, JobHas
    <3>3. \A x \in Label : new(x) \in Label /\ new(x).id = x.id
      BY <3>2 DEF Label
    <3>4. \A v \in V : v \in Label /\ \E x \in WithId(labels, i) : v.id = x.id
      BY <1>1, <3>3 DEF WithId
    <3>5. \A v, w \in V : v = w
      BY <1>1 DEF WithId, Keyed
    <3> HIDE DEF i, new, V
    <3>6. Keyed(labels', last')
      BY <1>1, <3>1, <3>4, <3>5, KeyedUpdate
    <3>7. labels' \subseteq Label
      BY <1>1, <3>1, <3>4
    <3>8. \A k \in Ids(labels') : k \in Ids(labels)
      BY <3>1, <3>4 DEF Ids, WithId
    <3> QED
      BY <3>6, <3>7, <3>8
  <2> QED
    BY <2>1, <2>2
<1>6. CASE CreateLabel(r)
  BY <1>1, <1>2, <1>4, <1>6, JobHas DEF CreateLabel, Enter, Fails, table
<1>7. CASE DeleteLabels(r) \/ CopyLabels(r)
  BY <1>2, <1>3, <1>7 DEF DeleteLabels, CopyLabels, DropLabels, table
<1>8. CASE SaveLabel(r)
  <2>1. job[r].landing \in PageId /\ hand[r].name \in Names
    BY <1>1, <1>8, JobHas DEF SaveLabel, Place
  <2> QED
    BY <1>2, <1>4, <1>8, <2>1 DEF SaveLabel, Fails, table
<1>9. ASSUME ~ UpdateLabel(r), ~ CreateLabel(r), ~ DeleteLabels(r), ~ CopyLabels(r), ~ SaveLabel(r)
      PROVE  labels' = labels
  BY <1>9 DEF Steps, Edits, Copies, CreateCategory, UpdateCategory, DeleteCategories, CreateReply,
     UpdateReply, DeleteReplies, TagPush, TagStore, CopyRefused, CopyDone, FindLabel, FindExisting,
     CopyReplies, ClearCategories, FindReply, FindCategory, SaveCategory, SaveReply, Fail, Fails,
     InsertCategory, DropCategories, InsertReply, table
<1> QED
  BY <1>2, <1>5, <1>6, <1>7, <1>8, <1>9

(* A category was there before, on its page, or has the next id. *)
Heirs == \A c \in categories' : \/ \E d \in categories : d.id = c.id /\ d.page = c.page
                                \/ c.id = last + 1 /\ last' = last + 1

LEMMA CategoriesStep ==
    ASSUME Inv, NEW r \in Requests, Steps(r)
    PROVE  /\ categories' \subseteq Category
           /\ Keyed(categories', last')
           /\ Heirs
<1>1. /\ TypeOK /\ categories \subseteq Category /\ last \in Nat /\ Keyed(categories, last) /\ Place(r)
      /\ (last' = last \/ last' = last + 1)
      /\ \A x \in categories : x \in Category /\ x.id \in Nat /\ x.page \in PageId /\ x.name \in Names
  BY Frame DEF Inv, TypeOK, Category
<1>2. CASE categories' = categories
  BY <1>1, <1>2, KeyedMore DEF Heirs
<1>3. ASSUME NEW S, DropCategories(S)
      PROVE  categories' \subseteq Category /\ Keyed(categories', last') /\ Heirs
  <2>1. categories' = categories \ S /\ last' = last
    BY <1>3 DEF DropCategories
  <2> QED
    BY <1>1, <2>1, KeyedLess DEF Heirs
<1>4. ASSUME NEW p \in PageId, NEW n \in Names, InsertCategory(p, n)
      PROVE  categories' \subseteq Category /\ Keyed(categories', last') /\ Heirs
  <2> DEFINE x == [id |-> last + 1, page |-> p, name |-> n]
  <2>1. categories' = categories \cup {x} /\ last' = last + 1
    BY <1>4 DEF InsertCategory
  <2>2. x \in Category /\ x.id = last + 1
    BY <1>1 DEF Category
  <2> HIDE DEF x
  <2> QED
    BY <1>1, <2>1, <2>2, KeyedInsert DEF Heirs
<1>5. CASE UpdateCategory(r)
  <2>1. CASE UNCHANGED table
    BY <1>2, <2>1 DEF table
  <2>2. CASE ~ UNCHANGED table
    <3> DEFINE i == job[r].id
               new(x) == [x EXCEPT !.name = job[r].name]
               V == {new(x) : x \in WithId(categories, i)}
    <3>1. categories' = (categories \ WithId(categories, i)) \cup V /\ last' = last
          /\ job[r].op = "updateCategory"
      BY <1>5, <2>2 DEF UpdateCategory, Enter, Fails
    <3>2. job[r].name \in Names
      BY <1>1, <3>1, JobHas
    <3>3. \A x \in Category : new(x) \in Category /\ new(x).id = x.id /\ new(x).page = x.page
      BY <3>2 DEF Category
    <3>4. ASSUME NEW v \in V
          PROVE  v \in Category /\ \E x \in WithId(categories, i) : v.id = x.id /\ v.page = x.page
      <4>1. PICK x \in WithId(categories, i) : v = new(x)
        OBVIOUS
      <4>2. x \in Category
        BY <1>1 DEF WithId
      <4> HIDE DEF new
      <4> QED
        BY <3>3, <4>1, <4>2
    <3>5. \A v, w \in V : v = w
      BY <1>1 DEF WithId, Keyed
    <3> HIDE DEF i, new, V
    <3>6. Keyed(categories', last')
      <4>1. \A v \in V : \E x \in WithId(categories, i) : v.id = x.id
        BY <3>4
      <4> QED
        BY <1>1, <3>1, <3>5, <4>1, KeyedUpdate
    <3>7. categories' \subseteq Category
      BY <1>1, <3>1, <3>4
    <3>8. Heirs
      BY <3>1, <3>4 DEF Heirs, WithId
    <3> QED
      BY <3>6, <3>7, <3>8
  <2> QED
    BY <2>1, <2>2
<1>6. CASE CreateCategory(r)
  BY <1>1, <1>2, <1>4, <1>6, JobHas DEF CreateCategory, Enter, Fails, table
<1>7. CASE DeleteCategories(r) \/ ClearCategories(r)
  BY <1>3, <1>7 DEF DeleteCategories, ClearCategories
<1>8. CASE SaveCategory(r)
  <2>1. job[r].landing \in PageId /\ hand[r].name \in Names
    BY <1>1, <1>8, JobHas DEF SaveCategory, Place
  <2> QED
    BY <1>2, <1>4, <1>8, <2>1 DEF SaveCategory, Fails, table
<1>9. ASSUME ~ UpdateCategory(r), ~ CreateCategory(r), ~ DeleteCategories(r), ~ ClearCategories(r),
             ~ SaveCategory(r)
      PROVE  categories' = categories
  BY <1>9 DEF Steps, Edits, Copies, CreateLabel, UpdateLabel, DeleteLabels, CreateReply,
     UpdateReply, DeleteReplies, TagPush, TagStore, CopyRefused, CopyDone, CopyLabels, FindLabel,
     FindExisting, SaveLabel, CopyReplies, FindReply, FindCategory, SaveReply, Fail, Fails,
     InsertLabel, DropLabels, InsertReply, table
<1> QED
  BY <1>2, <1>5, <1>6, <1>7, <1>8, <1>9

(* A reply was there before, on its page, or has the next id. *)
Same(x, y) == x.id = y.id /\ x.page = y.page

(* What it is filed under it was filed under before, or has just been found. *)
Filed(x) ==
    \/ x.category = 0
    \/ /\ \E y \in replies : y.page = x.page /\ y.category = x.category
       /\ \/ categories' = categories
          \/ \A c \in categories : c.id = x.category =>
                \E d \in categories' : d.id = c.id /\ d.page = c.page
    \/ categories' = categories /\ \E c \in categories : c.id = x.category /\ x.page \in {NoPage, c.page}

RepliesOK ==
    /\ replies' \subseteq Reply
    /\ \A x \in replies' : /\ Filed(x)
                           /\ (\E y \in replies : Same(x, y)) \/ (x.id = last + 1 /\ last' = last + 1)

LEMMA RepliesInsert ==
    ASSUME Inv, NEW p \in PageId, NEW content \in Contents, NEW k \in Nat, InsertReply(p, content, k),
           k # 0 => \E c \in categories : c.id = k /\ p \in {NoPage, c.page}
    PROVE  RepliesOK
<1> DEFINE x == [id |-> last + 1, page |-> p, content |-> content, category |-> k]
<1>1. replies' = replies \cup {x} /\ last' = last + 1 /\ categories' = categories
      /\ last \in Nat /\ replies \subseteq Reply
  BY DEF InsertReply, Inv, TypeOK
<1>2. x \in Reply /\ x.id = last + 1 /\ x.page = p /\ x.category = k
  BY <1>1 DEF Reply
<1>3. \A y \in replies : Same(y, y) /\ Filed(y)
  BY <1>1 DEF Same, Filed
<1> HIDE DEF x
<1>4. Filed(x)
  BY <1>1, <1>2 DEF Filed
<1> QED
  BY <1>1, <1>2, <1>3, <1>4 DEF RepliesOK

LEMMA RepliesSame ==
    ASSUME Inv, replies' \subseteq replies, categories' = categories
    PROVE  RepliesOK
<1>1. \A x \in replies : Same(x, x) /\ Filed(x)
  BY DEF Same, Filed
<1> QED
  BY <1>1 DEF RepliesOK, Inv, TypeOK

LEMMA RepliesDrop ==
    ASSUME Inv, NEW S, DropCategories(S)
    PROVE  RepliesOK
<1>1. /\ replies \subseteq Reply /\ categories' = categories \ S
      /\ replies' = {IF x.category \in Ids(S) THEN [x EXCEPT !.category = 0] ELSE x : x \in replies}
  BY DEF DropCategories, Inv, TypeOK
<1> SUFFICES ASSUME NEW x \in replies'
    PROVE  x \in Reply /\ Filed(x) /\ \E y \in replies : Same(x, y)
  BY DEF RepliesOK
<1>2. PICK y \in replies : x = IF y.category \in Ids(S) THEN [y EXCEPT !.category = 0] ELSE y
  BY <1>1
<1>3. CASE y.category \in Ids(S)
  <2>1. x \in Reply /\ x.id = y.id /\ x.page = y.page /\ x.category = 0
    BY <1>1, <1>2, <1>3 DEF Reply
  <2> QED
    BY <2>1 DEF Filed, Same
<1>4. CASE y.category \notin Ids(S)
  <2>1. x = y
    BY <1>2, <1>4
  <2>2. \A c \in categories : c.id = x.category => c \in categories'
    BY <1>1, <1>4, <2>1 DEF Ids
  <2> QED
    BY <1>1, <2>1, <2>2 DEF Filed, Same
<1> QED
  BY <1>3, <1>4

(* A category the screens offered is not one of another page. *)
LEMMA OfferedIsOwn ==
    ASSUME Inv, NEW c \in categories, NEW p,
           c.id <= Last0, \A d \in Categories0 : d.id = c.id => p \in {NoPage, d.page}
    PROVE  p \in {NoPage, c.page}
BY DEF Inv, Own

LEMMA RepliesStep ==
    ASSUME Inv, NEW r \in Requests, Steps(r)
    PROVE  RepliesOK
<1>1. TypeOK /\ job \in Mixes /\ Place(r) /\ Cached(r)
  BY DEF Inv
<1>2. CASE CreateReply(r)
  <2>1. CASE UNCHANGED table
    BY <2>1, RepliesSame DEF table
  <2>2. CASE ~ UNCHANGED table
    <3>1. job[r].op = "createReply" /\ IsCategory(job[r].category)
          /\ InsertReply(job[r].page, job[r].content, job[r].category)
      BY <1>2, <2>2 DEF CreateReply, Enter, Fails
    <3>2. job[r].page \in PageId /\ job[r].content \in Contents /\ job[r].category \in Nat
      BY <1>1, <3>1, JobHas
    <3>3. ASSUME NEW c \in categories, c.id = job[r].category
          PROVE  job[r].page \in {NoPage, c.page}
      <4>1. job[r].category <= Last0 /\ \A d \in Categories0 :
                d.id = job[r].category => job[r].page \in {NoPage, d.page}
        BY <1>1, <3>1, CategoriesOffered
      <4> QED
        BY <3>3, <4>1, OfferedIsOwn
    <3>4. job[r].category # 0 => \E c \in categories :
             c.id = job[r].category /\ job[r].page \in {NoPage, c.page}
      BY <3>1, <3>3 DEF IsCategory, Ids
    <3> QED
      BY <3>1, <3>2, <3>4, RepliesInsert
  <2> QED
    BY <2>1, <2>2
<1>3. CASE UpdateReply(r)
  <2>1. CASE UNCHANGED table
    BY <2>1, RepliesSame DEF table
  <2>2. CASE ~ UNCHANGED table
    <3> DEFINE i == job[r].id
               k == job[r].category
               new(x) == [x EXCEPT !.content = job[r].content, !.category = job[r].category]
               V == {new(x) : x \in WithId(replies, i)}
    <3>1. /\ WithId(replies, i) = {} \/ IsCategory(k)
          /\ replies' = (replies \ WithId(replies, i)) \cup V
          /\ categories' = categories
      BY <1>3, <2>2 DEF UpdateReply, Enter, Fails
    <3>2. job[r].op = "updateReply"
      BY <1>3 DEF UpdateReply, Enter
    <3>3. job[r].content \in Contents /\ k \in Nat
      BY <1>1, <3>2, JobHas
    <3>4. /\ i <= Last0 /\ k <= Last0
          /\ \A x \in Replies0, c \in Categories0 : x.id = i /\ c.id = k => x.page \in {NoPage, c.page}
      BY <1>1, <3>2, CategoriesOffered
    <3>5. \A x \in Reply : /\ new(x) \in Reply /\ new(x).id = x.id /\ new(x).page = x.page
                            /\ new(x).category = k
      BY <3>3 DEF Reply
    <3>6. ASSUME NEW v \in V
          PROVE  v \in Reply /\ Filed(v) /\ \E y \in replies : Same(v, y)
      <4>1. PICK x \in WithId(replies, i) : v = new(x)
        OBVIOUS
      <4>2. x \in Reply /\ x \in replies /\ x.id = i
        BY <1>1 DEF WithId, TypeOK
      <4> HIDE DEF new
      <4>3. v \in Reply /\ v.id = x.id /\ v.page = x.page /\ v.category = k
        BY <3>5, <4>1, <4>2
      <4>4. PICK y \in Replies0 : y.id = i /\ y.page = x.page
        BY <3>4, <4>2 DEF Inv, Own
      <4>5. ASSUME NEW c \in categories, c.id = k PROVE x.page \in {NoPage, c.page}
        <5>1. \A d \in Categories0 : d.id = k => x.page \in {NoPage, d.page}
          BY <3>4, <4>4
        <5> QED
          BY <3>4, <4>5, <5>1, OfferedIsOwn
      <4>6. k = 0 \/ \E c \in categories : c.id = k
        BY <3>1, <4>1 DEF IsCategory, Ids
      <4>7. Filed(v)
        BY <3>1, <4>3, <4>5, <4>6 DEF Filed
      <4> QED
        BY <4>2, <4>3, <4>7 DEF Same
    <3> HIDE DEF i, k, new, V
    <3>7. \A x \in replies : x \in Reply /\ Same(x, x) /\ Filed(x)
      BY <1>1, <3>1 DEF Same, Filed, TypeOK
    <3> QED
      BY <3>1, <3>6, <3>7 DEF RepliesOK
  <2> QED
    BY <2>1, <2>2
<1>4. CASE SaveReply(r)
  <2>1. CASE UNCHANGED table
    BY <2>1, RepliesSame DEF table
  <2>2. CASE ~ UNCHANGED table
    <3> DEFINE k == NewCategory(r)
    <3>1. IsCategory(k) /\ InsertReply(job[r].landing, hand[r].content, k) /\ pc[r] = "saveReply"
      BY <1>4, <2>2 DEF SaveReply, Fails
    <3>2. job[r].op = "copyReplies" /\ job[r].landing \in PageId /\ hand[r].content \in Contents
      BY <1>1, <3>1, JobHas DEF Place
    <3>3. CASE hand[r].category = 0
      <4>1. k = 0
        BY <3>3 DEF NewCategory
      <4> QED
        BY <3>1, <3>2, <4>1, RepliesInsert
    <3>4. CASE hand[r].category # 0
      <4> DEFINE e == CHOOSE c \in cache[r] : c[1] = hand[r].category
      <4>1. \E c \in cache[r] : c[1] = hand[r].category
        BY <1>1, <3>1, <3>4 DEF Place
      <4>2. e \in cache[r] /\ k = e[2]
        BY <3>4, <4>1 DEF NewCategory
      <4> HIDE DEF e, k
      <4>3. k # 0 /\ k \in Nat /\ \A c \in categories : c.id = k => job[r].landing \in {NoPage, c.page}
        BY <1>1, <4>2 DEF Cached, TypeOK
      <4>4. \E c \in categories : c.id = k /\ job[r].landing \in {NoPage, c.page}
        BY <3>1, <4>3 DEF IsCategory, Ids
      <4> QED
        BY <3>1, <3>2, <4>3, <4>4, RepliesInsert
    <3> QED
      BY <3>3, <3>4
  <2> QED
    BY <2>1, <2>2
<1>5. CASE DeleteCategories(r) \/ ClearCategories(r)
  BY <1>5, RepliesDrop DEF DeleteCategories, ClearCategories
<1>6. CASE CreateCategory(r) \/ UpdateCategory(r) \/ SaveCategory(r)
  <2>1. replies' = replies /\ replies \subseteq Reply /\ categories \subseteq Category
    BY <1>1, <1>6 DEF CreateCategory, UpdateCategory, SaveCategory, Fails, InsertCategory, table, TypeOK
  <2>2. ASSUME NEW c \in categories PROVE \E d \in categories' : d.id = c.id /\ d.page = c.page
    <3>1. CASE c \in categories'
      BY <3>1
    <3>2. CASE c \notin categories'
      <4> DEFINE d == [c EXCEPT !.name = job[r].name]
      <4>1. d \in categories'
        BY <1>6, <3>2 DEF CreateCategory, UpdateCategory, SaveCategory, Fails, InsertCategory, table
      <4>2. d.id = c.id /\ d.page = c.page
        BY <2>1 DEF Category
      <4> HIDE DEF d
      <4> QED
        BY <4>1, <4>2
    <3> QED
      BY <3>1, <3>2
  <2>3. \A x \in replies : Same(x, x) /\ Filed(x)
    BY <2>2 DEF Same, Filed
  <2> QED
    BY <2>1, <2>3 DEF RepliesOK
<1>7. ASSUME ~ CreateReply(r), ~ UpdateReply(r), ~ SaveReply(r), ~ DeleteCategories(r),
             ~ ClearCategories(r), ~ CreateCategory(r), ~ UpdateCategory(r), ~ SaveCategory(r)
      PROVE  replies' \subseteq replies /\ categories' = categories
  BY <1>7 DEF Steps, Edits, Copies, CreateLabel, UpdateLabel, DeleteLabels, DeleteReplies, TagPush,
     TagStore, CopyRefused, CopyDone, CopyLabels, FindLabel, FindExisting, SaveLabel, CopyReplies,
     FindReply, FindCategory, Fail, Fails, InsertLabel, DropLabels, table
<1> QED
  BY <1>2, <1>3, <1>4, <1>5, <1>6, <1>7, RepliesSame

LEMMA RepliesKeyed ==
    ASSUME Inv, NEW r \in Requests, Steps(r)
    PROVE  Keyed(replies', last')
<1>1. /\ Keyed(replies, last) /\ last \in Nat /\ (last' = last \/ last' = last + 1)
      /\ replies \subseteq Reply
  BY Frame DEF Inv, TypeOK
<1>2. CASE replies' \subseteq replies
  BY <1>1, <1>2, KeyedLess, KeyedMore
<1>3. ASSUME NEW p, NEW content, NEW k, InsertReply(p, content, k)
      PROVE  Keyed(replies', last')
  <2> DEFINE x == [id |-> last + 1, page |-> p, content |-> content, category |-> k]
  <2>1. replies' = replies \cup {x} /\ last' = last + 1 /\ x.id = last + 1
    BY <1>3 DEF InsertReply
  <2> HIDE DEF x
  <2> QED
    BY <1>1, <2>1, KeyedInsert
<1>4. ASSUME NEW S, DropCategories(S) PROVE Keyed(replies', last')
  <2>1. /\ replies' = {IF x.category \in Ids(S) THEN [x EXCEPT !.category = 0] ELSE x : x \in replies}
        /\ last' = last
    BY <1>4 DEF DropCategories
  <2>2. \A y \in replies : [y EXCEPT !.category = 0].id = y.id
    BY <1>1 DEF Reply
  <2>3. ASSUME NEW x \in replies'
        PROVE  \E y \in replies :
                  /\ x = IF y.category \in Ids(S) THEN [y EXCEPT !.category = 0] ELSE y
                  /\ x.id = y.id
    BY <2>1, <2>2
  <2> QED
    BY <1>1, <2>1, <2>3 DEF Keyed
<1>5. CASE UpdateReply(r)
  <2>1. CASE UNCHANGED table
    BY <1>2, <2>1 DEF table
  <2>2. CASE ~ UNCHANGED table
    <3> DEFINE i == job[r].id
               new(x) == [x EXCEPT !.content = job[r].content, !.category = job[r].category]
               V == {new(x) : x \in WithId(replies, i)}
    <3>1. replies' = (replies \ WithId(replies, i)) \cup V /\ last' = last
      BY <1>5, <2>2 DEF UpdateReply, Fails
    <3>2. \A x \in Reply : new(x).id = x.id
      BY DEF Reply
    <3>3. \A v \in V : \E x \in WithId(replies, i) : v.id = x.id
      BY <1>1, <3>2 DEF WithId
    <3>4. \A v, w \in V : v = w
      BY <1>1 DEF WithId, Keyed
    <3> HIDE DEF i, new, V
    <3> QED
      BY <1>1, <3>1, <3>3, <3>4, KeyedUpdate
  <2> QED
    BY <2>1, <2>2
<1>6. CASE CreateReply(r)
  BY <1>2, <1>3, <1>6 DEF CreateReply, Fails, table
<1>7. CASE SaveReply(r)
  BY <1>2, <1>3, <1>7 DEF SaveReply, Fails, table
<1>8. CASE DeleteCategories(r) \/ ClearCategories(r)
  BY <1>4, <1>8 DEF DeleteCategories, ClearCategories
<1>9. ASSUME ~ CreateReply(r), ~ UpdateReply(r), ~ SaveReply(r), ~ DeleteCategories(r),
             ~ ClearCategories(r)
      PROVE  replies' \subseteq replies
  BY <1>9 DEF Steps, Edits, Copies, CreateLabel, UpdateLabel, DeleteLabels, DeleteReplies, TagPush,
     TagStore, CopyRefused, CopyDone, CopyLabels, FindLabel, FindExisting, SaveLabel, CopyReplies,
     FindReply, FindCategory, Fail, Fails, InsertLabel, DropLabels, table, CreateCategory,
     UpdateCategory, SaveCategory, InsertCategory
<1> QED
  BY <1>2, <1>5, <1>6, <1>7, <1>8, <1>9
-----------------------------------------------------------------------------
(* Every step *)

LEMMA RestTyped ==
    ASSUME Inv, NEW r \in Requests, Steps(r)
    PROVE  /\ tags' \subseteq Conversations \X Nat
           /\ pushed' \subseteq Conversations \X Nat
           /\ last' \in Nat
           /\ job' \in [Requests -> Job]
           /\ pc' \in [Requests -> Suspended \cup {"new", "done", "failed"}]
           /\ at' \in [Requests -> Nat \ {0}]
           /\ alone' \in Requests \cup {Nobody}
<1>1. TypeOK /\ job' = job /\ (last' = last \/ last' = last + 1)
  BY Frame DEF Inv
<1>2. last' \in Nat /\ job' \in [Requests -> Job]
  BY <1>1 DEF TypeOK
<1>3. CASE CreateLabel(r) \/ UpdateLabel(r) \/ DeleteLabels(r) \/ CreateCategory(r)
           \/ UpdateCategory(r) \/ DeleteCategories(r) \/ CreateReply(r) \/ UpdateReply(r) \/ DeleteReplies(r)
  <2>1. Saved(r) \/ Goto(r, "failed")
    BY <1>3 DEF CreateLabel, UpdateLabel, DeleteLabels, CreateCategory, UpdateCategory,
       DeleteCategories, CreateReply, UpdateReply, DeleteReplies, Fails
  <2>2. pushed' = pushed /\ tags' \subseteq tags
    BY <1>3 DEF CreateLabel, UpdateLabel, DeleteLabels, CreateCategory, UpdateCategory,
       DeleteCategories, CreateReply, UpdateReply, DeleteReplies, DropLabels, screens
  <2>3. at' = at /\ alone' \in {Nobody, r}
    BY <1>3 DEF CreateLabel, UpdateLabel, DeleteLabels, CreateCategory, UpdateCategory,
       DeleteCategories, CreateReply, UpdateReply, DeleteReplies, Enter, local
  <2> QED
    BY <1>1, <1>2, <2>1, <2>2, <2>3 DEF TypeOK, Saved, Goto
<1>4. CASE TagPush(r)
  <2>1. job[r].conversation \in Conversations /\ job[r].label \in Nat
    BY <1>1, <1>4, JobHas DEF TagPush, Enter
  <2> QED
    BY <1>1, <1>2, <1>4, <2>1 DEF TagPush, Enter, Goto, Suspended, TypeOK, local
<1>5. CASE TagStore(r)
  <2>1. job[r].op = "tag"
    BY <1>5 DEF TagStore, Inv, Place
  <2>2. job[r].conversation \in Conversations /\ job[r].label \in Nat
    BY <1>1, <2>1, JobHas
  <2> QED
    BY <1>1, <1>2, <1>5, <2>2 DEF TagStore, Saved, Goto, TypeOK, local, history
<1>6. CASE CopyRefused(r) \/ CopyDone(r) \/ CopyLabels(r) \/ CopyReplies(r) \/ ClearCategories(r) \/ Fail(r)
  <2>1. pc' \in [Requests -> Suspended \cup {"new", "done", "failed"}]
    BY <1>1, <1>6 DEF CopyRefused, CopyDone, CopyLabels, CopyReplies, ClearCategories, Fail, Fails,
       Step, Goto, Suspended, TypeOK
  <2>2. pushed' = pushed /\ tags' \subseteq tags
    BY <1>6 DEF CopyRefused, CopyDone, CopyLabels, CopyReplies, ClearCategories, Fail, DropLabels, screens
  <2>3. at' = at /\ alone' \in {Nobody, r, alone}
    BY <1>6 DEF CopyRefused, CopyDone, CopyLabels, CopyReplies, ClearCategories, Fail, Enter, local, history
  <2> QED
    BY <1>1, <1>2, <2>1, <2>2, <2>3 DEF TypeOK
<1>7. CASE FindLabel(r) \/ FindExisting(r) \/ SaveLabel(r) \/ FindReply(r) \/ FindCategory(r)
           \/ SaveCategory(r) \/ SaveReply(r)
  <2>1. pc' \in [Requests -> Suspended \cup {"new", "done", "failed"}]
    BY <1>1, <1>7 DEF FindLabel, FindExisting, SaveLabel, FindReply, FindCategory, SaveCategory,
       SaveReply, Fails, Goto, Suspended, TypeOK
  <2>2. at' \in [Requests -> Nat \ {0}]
    BY <1>1, <1>7 DEF FindLabel, FindExisting, SaveLabel, FindReply, FindCategory, SaveCategory,
       SaveReply, NextKey, TypeOK
  <2>3. UNCHANGED screens /\ alone' = alone
    BY <1>7 DEF FindLabel, FindExisting, SaveLabel, FindReply, FindCategory, SaveCategory,
       SaveReply, history, screens
  <2> QED
    BY <1>1, <1>2, <2>1, <2>2, <2>3 DEF TypeOK, screens
<1> QED
  BY <1>3, <1>4, <1>5, <1>6, <1>7 DEF Steps, Edits, Copies

(* What a step reads, and what it remembers. *)
LEMMA ReadStep ==
    ASSUME Inv, NEW r \in Requests, Steps(r)
    PROVE  /\ hand' \in [Requests -> Read]
           /\ cache' \in [Requests -> SUBSET (Nat \X Nat)]
           /\ Place(r)'
           /\ \A e \in cache'[r] : \/ e \in cache[r]
                                   \/ e[2] # 0 /\ e[2] <= last' /\
                                      \A c \in categories' : c.id = e[2] => job[r].landing \in {NoPage, c.page}
<1>1. /\ TypeOK /\ Place(r) /\ job' = job /\ last \in Nat
      /\ pc \in [Requests -> Suspended \cup {"new", "done", "failed"}]
      /\ hand \in [Requests -> Read] /\ cache \in [Requests -> SUBSET (Nat \X Nat)]
      /\ hand[r] \in Read /\ cache[r] \subseteq Nat \X Nat
  BY Frame DEF Inv, TypeOK
<1>2. CASE UNCHANGED <<hand, cache>> /\ pc'[r] \in {"done", "failed"}
  BY <1>1, <1>2 DEF Place
<1>3. CASE CreateLabel(r) \/ UpdateLabel(r) \/ DeleteLabels(r) \/ CreateCategory(r)
           \/ UpdateCategory(r) \/ DeleteCategories(r) \/ CreateReply(r) \/ UpdateReply(r) \/ DeleteReplies(r)
           \/ TagStore(r) \/ CopyRefused(r) \/ CopyDone(r) \/ Fail(r)
  <2>1. UNCHANGED <<hand, cache>>
    BY <1>3 DEF CreateLabel, UpdateLabel, DeleteLabels, CreateCategory, UpdateCategory,
       DeleteCategories, CreateReply, UpdateReply, DeleteReplies, TagStore, CopyRefused, CopyDone,
       Fail, Enter, local
  <2>2. Goto(r, "done") \/ Goto(r, "failed")
    BY <1>3 DEF CreateLabel, UpdateLabel, DeleteLabels, CreateCategory, UpdateCategory,
       DeleteCategories, CreateReply, UpdateReply, DeleteReplies, TagStore, CopyRefused, CopyDone,
       Fail, Saved, Fails
  <2> QED
    BY <1>1, <1>2, <2>1, <2>2 DEF Goto
<1>4. CASE TagPush(r) \/ CopyLabels(r) \/ CopyReplies(r) \/ ClearCategories(r)
  <2>1. /\ UNCHANGED <<hand, cache>>
        /\ \/ pc'[r] = "tag" /\ job[r].op = "tag"
           \/ pc'[r] = "label" /\ job[r].op = "copyLabels"
           \/ pc'[r] = "categories" /\ job[r].op = "copyReplies" /\ job[r].replace
           \/ pc'[r] = "reply" /\ job[r].op = "copyReplies"
    BY <1>1, <1>4 DEF TagPush, CopyLabels, CopyReplies, ClearCategories, Enter, Goto, Step, local, Place
  <2> QED
    BY <1>1, <2>1 DEF Place
<1>5. CASE FindLabel(r)
  <2>1. CASE UNCHANGED hand /\ Goto(r, "failed")
    BY <1>1, <1>2, <1>5, <2>1 DEF FindLabel, Goto
  <2>2. ASSUME NEW x \in labels, Goto(r, "existing"), hand' = [hand EXCEPT ![r] = [Nothing EXCEPT !.name = x.name]]
        PROVE  /\ hand' \in [Requests -> Read] /\ hand'[r].name \in Names /\ pc'[r] = "existing"
    BY <1>1, <2>2 DEF Goto, Nothing, Read, TypeOK, Label
  <2>3. cache' = cache /\ job[r].op = "copyLabels"
    BY <1>1, <1>5 DEF FindLabel, Place
  <2> QED
    BY <1>1, <1>5, <2>1, <2>2, <2>3 DEF FindLabel, Place, WithId
<1>6. CASE FindExisting(r) \/ SaveLabel(r)
  <2>1. UNCHANGED <<hand, cache>> /\ pc'[r] \in {"label", "saveLabel", "failed"}
        /\ job[r].op = "copyLabels" /\ hand[r].name \in Names
    BY <1>1, <1>6 DEF FindExisting, SaveLabel, Goto, Fails, Place
  <2> QED
    BY <1>1, <2>1 DEF Place
<1>7. CASE FindReply(r)
  <2>1. job[r].op = "copyReplies" /\ cache' = cache
    BY <1>1, <1>7 DEF FindReply, Place
  <2>2. CASE UNCHANGED <<pc, hand>>
    BY <1>1, <1>7, <2>1, <2>2 DEF FindReply, Place
  <2>3. ASSUME NEW x \in replies, NEW n \in Names \cup {NoText},
               {n} = IF x.category = 0 THEN {NoText}
                     ELSE {c.name : c \in WithId(categories, x.category)},
               hand' = [hand EXCEPT ![r] = [content |-> x.content, category |-> x.category, name |-> n]],
               Goto(r, IF x.category = 0 \/ \E c \in cache[r] : c[1] = x.category
                       THEN "saveReply" ELSE "category")
        PROVE  Place(r)' /\ hand' \in [Requests -> Read]
    <3>1. x.content \in Contents /\ x.category \in Nat
      BY <1>1 DEF TypeOK, Reply
    <3>2. hand' \in [Requests -> Read] /\ hand'[r].content = x.content /\ hand'[r].category = x.category
          /\ hand'[r].name = n
      BY <1>1, <2>3, <3>1 DEF Read
    <3>3. CASE x.category = 0 \/ \E c \in cache[r] : c[1] = x.category
      <4>1. pc'[r] = "saveReply"
        BY <1>1, <2>3, <3>3 DEF Goto
      <4> QED
        BY <1>1, <2>1, <3>1, <3>2, <3>3, <4>1 DEF Place
    <3>4. CASE ~ (x.category = 0 \/ \E c \in cache[r] : c[1] = x.category)
      <4>1. pc'[r] = "category"
        BY <1>1, <2>3, <3>4 DEF Goto
      <4>2. n \in {c.name : c \in WithId(categories, x.category)}
        BY <2>3, <3>4
      <4>3. n \in Names
        BY <1>1, <4>2 DEF TypeOK, Category, WithId
      <4> QED
        BY <1>1, <2>1, <3>1, <3>2, <4>1, <4>3 DEF Place
    <3> QED
      BY <3>3, <3>4
  <2>4. \/ UNCHANGED <<pc, hand>>
        \/ \E x \in replies, n \in Names \cup {NoText} :
             /\ {n} = IF x.category = 0 THEN {NoText}
                      ELSE {c.name : c \in WithId(categories, x.category)}
             /\ hand' = [hand EXCEPT ![r] = [content |-> x.content, category |-> x.category, name |-> n]]
             /\ Goto(r, IF x.category = 0 \/ \E c \in cache[r] : c[1] = x.category
                        THEN "saveReply" ELSE "category")
    BY <1>7 DEF FindReply, WithId
  <2>5. Place(r)' /\ hand' \in [Requests -> Read]
    BY <1>1, <2>2, <2>3, <2>4
  <2> QED
    BY <1>1, <2>1, <2>5
<1>8. ASSUME NEW k \in Nat, Remember(r, k), Goto(r, "saveReply"), hand' = hand,
             pc[r] \in {"category", "saveCategory"}, k # 0, k <= last',
             \A c \in categories' : c.id = k => job[r].landing \in {NoPage, c.page}
      PROVE  /\ hand' \in [Requests -> Read] /\ cache' \in [Requests -> SUBSET (Nat \X Nat)]
             /\ Place(r)'
             /\ \A e \in cache'[r] : \/ e \in cache[r]
                                     \/ e[2] # 0 /\ e[2] <= last' /\
                                        \A c \in categories' : c.id = e[2] => job[r].landing \in {NoPage, c.page}
  <2> DEFINE f == <<hand[r].category, k>>
  <2>1. hand[r].category \in Nat
    BY <1>1 DEF Read
  <2>2. cache'[r] = cache[r] \cup {f} /\ cache' \in [Requests -> SUBSET (Nat \X Nat)]
    BY <1>1, <1>8, <2>1 DEF Remember
  <2>3. f[1] = hand[r].category /\ f[2] = k
    OBVIOUS
  <2> HIDE DEF f
  <2>4. pc'[r] = "saveReply" /\ job[r].op = "copyReplies" /\ hand[r].content \in Contents
    BY <1>1, <1>8 DEF Goto, Place
  <2> QED
    BY <1>1, <1>8, <2>2, <2>3, <2>4 DEF Place
<1>9. CASE FindCategory(r)
  <2>1. CASE cache' = cache /\ Goto(r, "saveCategory")
    BY <1>1, <1>9, <2>1 DEF FindCategory, Goto, Place
  <2>2. ASSUME NEW x \in Named(categories, job[r].landing, hand[r].name),
               Goto(r, "saveReply"), Remember(r, x.id)
        PROVE  /\ x.id \in Nat /\ x.id # 0 /\ x.id <= last'
               /\ \A c \in categories' : c.id = x.id => job[r].landing \in {NoPage, c.page}
    <3>1. x \in categories /\ job[r].landing \in {NoPage, x.page} /\ x.id \in Nat /\ x.id # 0 /\ x.id <= last
          /\ \A c \in categories : c.id = x.id => c = x
      BY DEF Named, Scope, Inv, Keyed
    <3>2. categories' = categories /\ last' = last
      BY <1>9 DEF FindCategory, table
    <3> QED
      BY <3>1, <3>2
  <2>3. hand' = hand /\ pc[r] = "category"
    BY <1>9 DEF FindCategory
  <2> QED
    BY <1>8, <1>9, <2>1, <2>2, <2>3 DEF FindCategory
<1>10. CASE SaveCategory(r)
  <2>1. CASE Goto(r, "failed") /\ UNCHANGED cache
    BY <1>1, <1>2, <1>10, <2>1 DEF SaveCategory, Goto
  <2>2. CASE /\ Goto(r, "saveReply") /\ Remember(r, last + 1)
             /\ InsertCategory(job[r].landing, hand[r].name)
    <3> DEFINE x == [id |-> last + 1, page |-> job[r].landing, name |-> hand[r].name]
    <3>1. categories' = categories \cup {x} /\ last' = last + 1 /\ x.page = job[r].landing
      BY <2>2 DEF InsertCategory
    <3>2. \A c \in categories : c.id # last + 1
      BY <1>1 DEF Inv, Keyed
    <3> HIDE DEF x
    <3>3. \A c \in categories' : c.id = last + 1 => job[r].landing \in {NoPage, c.page}
      BY <3>1, <3>2
    <3>4. PICK k \in Nat : k = last + 1 /\ k # 0 /\ k <= last'
      BY <1>1, <3>1
    <3> QED
      BY <1>8, <1>10, <2>2, <3>3, <3>4 DEF SaveCategory
  <2> QED
    BY <1>10, <2>1, <2>2 DEF SaveCategory, Fails
<1>11. CASE SaveReply(r)
  <2>1. UNCHANGED <<hand, cache>> /\ pc'[r] \in {"reply", "failed"} /\ job[r].op = "copyReplies"
    BY <1>1, <1>11 DEF SaveReply, Goto, Fails, Place
  <2> QED
    BY <1>1, <2>1 DEF Place
<1> QED
  BY <1>3, <1>4, <1>5, <1>6, <1>7, <1>9, <1>10, <1>11 DEF Steps, Edits, Copies

LEMMA TagsStep ==
    ASSUME Inv, NEW r \in Requests, Steps(r)
    PROVE  \/ pushed' = pushed /\ tags' = tags
           \/ /\ pushed' = pushed /\ last' = last
              /\ \E S \in SUBSET labels : /\ labels' = labels \ S
                                           /\ tags' = {t \in tags : t[2] \notin Ids(S)}
           \/ /\ job[r].op = "tag" /\ pc'[r] = "tag" /\ tags' = tags
              /\ pushed' = pushed \cup {<<job[r].conversation, job[r].label>>}
           \/ /\ job[r].op = "tag" /\ pushed' = pushed
              /\ tags' = tags \cup {<<job[r].conversation, job[r].label>>}
<1>1. pc \in [Requests -> Suspended \cup {"new", "done", "failed"}] /\ Place(r)
  BY DEF Inv, TypeOK
<1>2. ASSUME NEW S \in SUBSET labels, DropLabels(S)
      PROVE  /\ pushed' = pushed /\ last' = last
             /\ labels' = labels \ S /\ tags' = {t \in tags : t[2] \notin Ids(S)}
  BY <1>2 DEF DropLabels
<1>3. CASE DeleteLabels(r)
  BY <1>2, <1>3 DEF DeleteLabels
<1>4. CASE CopyLabels(r)
  <2>1. Scope(labels, job[r].landing) \in SUBSET labels
    BY DEF Scope
  <2> QED
    BY <1>2, <1>4, <2>1 DEF CopyLabels, screens
<1>5. CASE TagPush(r)
  BY <1>1, <1>5 DEF TagPush, Enter, Goto
<1>6. CASE TagStore(r)
  BY <1>1, <1>6 DEF TagStore, Place
<1>7. ASSUME ~ DeleteLabels(r), ~ CopyLabels(r), ~ TagPush(r), ~ TagStore(r)
      PROVE  pushed' = pushed /\ tags' = tags
  BY <1>7 DEF Steps, Edits, Copies, CreateLabel, UpdateLabel, CreateCategory, UpdateCategory,
     DeleteCategories, CreateReply, UpdateReply, DeleteReplies, CopyRefused, CopyDone, FindLabel,
     FindExisting, SaveLabel, CopyReplies, ClearCategories, FindReply, FindCategory, SaveCategory,
     SaveReply, Fail, screens
<1> QED
  BY <1>3, <1>4, <1>5, <1>6, <1>7

(* A request that has failed is over; one about to label a conversation     *)
(* does so or fails.                                                        *)
LEMMA TagEnds ==
    ASSUME Inv, NEW r \in Requests, Steps(r), job[r].op = "tag", pc[r] \in {"tag", "failed"}
    PROVE  pc'[r] = "failed" \/ <<job[r].conversation, job[r].label>> \in tags'
<1>1. pc \in [Requests -> Suspended \cup {"new", "done", "failed"}]
  BY DEF Inv, TypeOK
<1>2. CASE TagStore(r) \/ Fail(r)
  BY <1>1, <1>2 DEF TagStore, Fail, Goto
<1>3. TagStore(r) \/ Fail(r)
  BY DEF Steps, Edits, Copies, CreateLabel, UpdateLabel, DeleteLabels, CreateCategory, UpdateCategory,
     DeleteCategories, CreateReply, UpdateReply, DeleteReplies, TagPush, CopyRefused, CopyDone,
     CopyLabels, FindLabel, FindExisting, SaveLabel, CopyReplies, ClearCategories, FindReply,
     FindCategory, SaveCategory, SaveReply, Enter, Step
<1> QED
  BY <1>2, <1>3

LEMMA PushedKept == ASSUME Inv, NEW r \in Requests, Steps(r) PROVE Pushed'
<1>1. /\ job' = job /\ last \in Nat /\ (last' = last \/ last' = last + 1)
      /\ \A s \in Requests \ {r} : pc'[s] = pc[s]
      /\ tags \subseteq Conversations \X Nat /\ pushed \subseteq Conversations \X Nat
  BY Frame DEF Inv, TypeOK
<1>2. \A i \in Ids(labels') : i \in Ids(labels) \/ i = last + 1
  BY LabelsStep
<1> SUFFICES ASSUME NEW t \in pushed' \ tags'
    PROVE  \/ t[2] \notin Ids(labels') /\ t[2] <= last'
           \/ \E s \in Requests :
                 /\ job[s].op = "tag" /\ t = <<job[s].conversation, job[s].label>>
                 /\ pc'[s] \in {"tag", "failed"}
  BY <1>1 DEF Pushed, Ids
<1>3. CASE t \in pushed \ tags
  <2>1. CASE t[2] \notin Ids(labels) /\ t[2] <= last
    <3>1. t[2] \in Nat
      BY <1>1, <1>3
    <3> QED
      BY <1>1, <1>2, <2>1, <3>1
  <2>2. ASSUME NEW s \in Requests, job[s].op = "tag", t = <<job[s].conversation, job[s].label>>,
               pc[s] \in {"tag", "failed"}
        PROVE  pc'[s] \in {"tag", "failed"}
    BY <1>1, <2>2, TagEnds
  <2> QED
    BY <1>3, <2>1, <2>2 DEF Inv, Pushed
<1>4. CASE t \in tags
  <2>1. PICK S \in SUBSET labels : labels' = labels \ S /\ last' = last /\ t[2] \in Ids(S)
    BY <1>4, TagsStep
  <2>2. PICK x \in labels : x \in S /\ x.id = t[2]
    BY <2>1 DEF Ids
  <2>3. x.id <= last /\ \A y \in labels : y.id = x.id => y = x
    BY DEF Inv, Keyed
  <2> QED
    BY <2>1, <2>2, <2>3 DEF Ids
<1>5. CASE t \notin pushed
  BY <1>5, TagsStep
<1> QED
  BY <1>3, <1>4, <1>5

LEMMA OwnKept == ASSUME Inv, NEW r \in Requests, Steps(r) PROVE Own' /\ CategoryIsOwnPage'
<1>1. Heirs /\ RepliesOK
  BY CategoriesStep, RepliesStep
<1>2. Own /\ CategoryIsOwnPage /\ Last0 \in Nat /\ last \in Nat /\ Last0 <= last
  BY CopyAssumption DEF Inv, TypeOK
<1>3. Own'
  BY <1>1, <1>2 DEF Own, Heirs, RepliesOK, Same
<1>4. ASSUME NEW x \in replies', x.category # 0
      PROVE  \E c \in categories' : c.id = x.category /\ x.page \in {NoPage, c.page}
  <2>1. Filed(x)
    BY <1>1 DEF RepliesOK
  <2>2. CASE categories' = categories
             /\ \E c \in categories : c.id = x.category /\ x.page \in {NoPage, c.page}
    BY <2>2
  <2>3. ASSUME NEW y \in replies, y.page = x.page, y.category = x.category
        PROVE  \E c \in categories : c.id = x.category /\ x.page \in {NoPage, c.page}
    BY <1>2, <1>4, <2>3 DEF CategoryIsOwnPage, WithId
  <2> QED
    BY <1>4, <2>1, <2>2, <2>3 DEF Filed
<1> QED
  BY <1>3, <1>4 DEF CategoryIsOwnPage, WithId

(* What another request remembers stays true. *)
LEMMA CachedKept ==
    ASSUME Inv, NEW r \in Requests, Steps(r), NEW s \in Requests
    PROVE  Cached(s)'
<1>1. Heirs /\ job' = job /\ last \in Nat /\ (last' = last \/ last' = last + 1)
  BY CategoriesStep, Frame DEF Inv, TypeOK
<1>2. ASSUME NEW e \in cache[s]
      PROVE  e[2] # 0 /\ e[2] <= last' /\ \A c \in categories' : c.id = e[2] => job[s].landing \in {NoPage, c.page}
  <2>1. e[2] # 0 /\ e[2] <= last /\ \A c \in categories : c.id = e[2] => job[s].landing \in {NoPage, c.page}
    BY DEF Inv, Cached
  <2>2. e[2] \in Nat
    BY DEF Inv, TypeOK
  <2> QED
    BY <1>1, <2>1, <2>2 DEF Heirs
<1>3. CASE s = r
  BY <1>1, <1>2, <1>3, ReadStep DEF Cached
<1>4. CASE s # r
  <2>1. cache'[s] = cache[s]
    BY <1>4, Frame DEF Inv
  <2> QED
    BY <1>1, <1>2, <2>1 DEF Cached
<1> QED
  BY <1>3, <1>4

LEMMA PlaceKept ==
    ASSUME Inv, NEW r \in Requests, Steps(r), NEW s \in Requests
    PROVE  Place(s)'
<1>1. CASE s = r
  BY <1>1, ReadStep
<1>2. CASE s # r
  <2>1. job' = job /\ pc'[s] = pc[s] /\ hand'[s] = hand[s] /\ cache'[s] = cache[s]
    BY <1>2, Frame DEF Inv
  <2> QED
    BY <2>1 DEF Inv, Place
<1> QED
  BY <1>1, <1>2

LEMMA InitInv == Init => Inv
<1> SUFFICES ASSUME Init PROVE Inv
  OBVIOUS
<1>1. /\ Labels0 \subseteq Label /\ Categories0 \subseteq Category /\ Replies0 \subseteq Reply
      /\ Last0 \in Nat /\ Mixes \subseteq [Requests -> Job]
      /\ \A x \in Labels0 \cup Categories0 \cup Replies0 : x.id \in 1 .. Last0
      /\ \A x, y \in Labels0 : x.id = y.id => x = y
      /\ \A x, y \in Categories0 : x.id = y.id => x = y
      /\ \A x, y \in Replies0 : x.id = y.id => x = y
  BY CopyAssumption
<1>2. TypeOK
  BY <1>1 DEF Init, TypeOK, Nothing, Read
<1>3. Keyed(labels, last) /\ Keyed(categories, last) /\ Keyed(replies, last)
  BY <1>1 DEF Init, Keyed
<1>4. \A r \in Requests : Place(r) /\ Cached(r)
  BY DEF Init, Place, Cached
<1>5. CategoryIsOwnPage
  BY CategoriesOffered DEF Init, CategoryIsOwnPage, WithId
<1> QED
  BY <1>1, <1>2, <1>3, <1>4, <1>5 DEF Init, Inv, Own, Pushed

LEMMA NextInv == Inv /\ [Next]_vars => Inv'
<1> SUFFICES ASSUME Inv, [Next]_vars PROVE Inv'
  OBVIOUS
<1>1. ASSUME NEW r \in Requests, Steps(r) PROVE Inv'
  <2>1. TypeOK'
    BY <1>1, RestTyped, ReadStep, LabelsStep, CategoriesStep, RepliesStep DEF TypeOK, RepliesOK
  <2>2. job' \in Mixes /\ Last0 <= last' /\ last \in Nat
    BY <1>1, Frame, CopyAssumption DEF Inv, TypeOK
  <2>3. Keyed(labels', last') /\ Keyed(categories', last')
    BY <1>1, LabelsStep, CategoriesStep
  <2>4. Keyed(replies', last')
    BY <1>1, RepliesKeyed
  <2>5. \A s \in Requests : Place(s)' /\ Cached(s)'
    BY <1>1, PlaceKept, CachedKept
  <2>6. Own' /\ CategoryIsOwnPage' /\ Pushed'
    BY <1>1, OwnKept, PushedKept
  <2> QED
    BY <2>1, <2>2, <2>3, <2>4, <2>5, <2>6 DEF Inv, Keyed
<1>2. CASE UNCHANGED vars
  BY <1>2 DEF vars, Inv, TypeOK, Place, Cached, Own, CategoryIsOwnPage, Pushed, Keyed, WithId, Ids
<1> QED
  BY <1>1, <1>2 DEF Next, Steps

LEMMA InvAlways == Spec => []Inv
BY InitInv, NextInv, PTL DEF Spec

-----------------------------------------------------------------------------
(* Every variable keeps its type, whichever requests overlap and fail. *)
THEOREM CopyTypeCorrect == Spec => []TypeOK
<1>1. Inv => TypeOK
  BY DEF Inv
<1> QED
  BY <1>1, InvAlways, PTL

(* The category of a reply exists and is one of the reply's own page, for   *)
(* any number of copies, edits and deletions that overlap.                  *)
THEOREM CategoriesAreOwn == Spec => []CategoryIsOwnPage
<1>1. Inv => CategoryIsOwnPage
  BY DEF Inv
<1> QED
  BY <1>1, InvAlways, PTL

(* A label on the screens that is not stored was deleted, or its request    *)
(* failed or is on its way.                                                 *)
THEOREM PushedLabelsAreStored == Spec => []PushedIsStored
<1>1. Inv => PushedIsStored
  BY DEF Inv, Pushed, PushedIsStored
<1> QED
  BY <1>1, InvAlways, PTL

-----------------------------------------------------------------------------
(* What a copy touches *)

Untouched(p) ==
    /\ OnPage(labels', p) = OnPage(labels, p)
    /\ OnPage(categories', p) = OnPage(categories, p)
    /\ OnPage(replies', p) = OnPage(replies, p)

Beside == labels \subseteq labels' /\ categories \subseteq categories' /\ replies \subseteq replies'

LEMMA InsertElsewhere ==
    ASSUME NEW T, NEW x, NEW p, x.page # p
    PROVE  OnPage(T \cup {x}, p) = OnPage(T, p)
BY DEF OnPage

(* Only the replies of the page, and those of none, lose their category     *)
(* with it: the others have none of another page.                           *)
LEMMA ClearElsewhere ==
    ASSUME Inv, NEW q, DropCategories(OnPage(categories, q)), NEW p, p # q, p # NoPage
    PROVE  Untouched(p)
<1> DEFINE S == OnPage(categories, q)
<1>1. /\ labels' = labels /\ categories' = categories \ S
      /\ replies' = {IF x.category \in Ids(S) THEN [x EXCEPT !.category = 0] ELSE x : x \in replies}
      /\ replies \subseteq Reply /\ categories \subseteq Category
  BY DEF DropCategories, Inv, TypeOK
<1>2. OnPage(categories', p) = OnPage(categories, p)
  BY <1>1 DEF OnPage
<1>3. ASSUME NEW x \in replies, x.page = p PROVE x.category \notin Ids(S)
  <2>1. \A c \in S : c \in categories /\ c.page = q /\ c.id # 0
    BY DEF OnPage, Inv, Keyed
  <2>2. x.category # 0 => \E c \in categories : c.id = x.category /\ c.page = p
    BY <1>3 DEF Inv, CategoryIsOwnPage, WithId
  <2>3. \A c, d \in categories : c.id = d.id => c = d
    BY DEF Inv, Keyed
  <2> HIDE DEF S
  <2> QED
    BY <2>1, <2>2, <2>3 DEF Ids
<1>4. \A x \in replies : [x EXCEPT !.category = 0].page = x.page
  BY <1>1 DEF Reply
<1> HIDE DEF S
<1>5. OnPage(replies', p) = OnPage(replies, p)
  <2>1. ASSUME NEW x \in replies', x.page = p PROVE x \in replies
    <3>1. PICK y \in replies : x = IF y.category \in Ids(S) THEN [y EXCEPT !.category = 0] ELSE y
      BY <1>1
    <3>2. y.page = p
      BY <1>4, <2>1, <3>1
    <3> QED
      BY <1>3, <3>1, <3>2
  <2>2. ASSUME NEW x \in replies, x.page = p PROVE x \in replies'
    BY <1>1, <1>3, <2>2
  <2> QED
    BY <2>1, <2>2 DEF OnPage
<1> QED
  BY <1>1, <1>2, <1>5 DEF Untouched

LEMMA TargetStep ==
    ASSUME Inv, NEW r \in Requests, Steps(r), IsCopy(r)
    PROVE  /\ \A p \in Pages : p # job[r].landing /\ ~ Boundless(r) => Untouched(p)
           /\ ~ job[r].replace => Beside
<1>1. Place(r)
  BY DEF Inv
<1>2. CASE UNCHANGED table
  BY <1>2 DEF table, Untouched, Beside
<1>3. ASSUME NEW n, InsertLabel(job[r].landing, n)
      PROVE  /\ \A p \in Pages : p # job[r].landing /\ ~ Boundless(r) => Untouched(p)
             /\ Beside
  BY <1>3, InsertElsewhere DEF InsertLabel, Untouched, Beside
<1>4. ASSUME NEW n, InsertCategory(job[r].landing, n)
      PROVE  /\ \A p \in Pages : p # job[r].landing /\ ~ Boundless(r) => Untouched(p)
             /\ Beside
  BY <1>4, InsertElsewhere DEF InsertCategory, Untouched, Beside
<1>5. ASSUME NEW n, NEW k, InsertReply(job[r].landing, n, k)
      PROVE  /\ \A p \in Pages : p # job[r].landing /\ ~ Boundless(r) => Untouched(p)
             /\ Beside
  BY <1>5, InsertElsewhere DEF InsertReply, Untouched, Beside
<1>6. CASE SaveLabel(r)
  BY <1>2, <1>3, <1>6 DEF SaveLabel, Fails
<1>7. CASE SaveCategory(r)
  BY <1>2, <1>4, <1>7 DEF SaveCategory, Fails
<1>8. CASE SaveReply(r)
  BY <1>2, <1>5, <1>8 DEF SaveReply, Fails
<1>9. CASE CopyLabels(r)
  <2>1. CASE job[r].replace /\ DropLabels(Scope(labels, job[r].landing))
    BY <2>1 DEF DropLabels, Scope, Boundless, OnPage, Untouched
  <2> QED
    BY <1>2, <1>9, <2>1 DEF CopyLabels
<1>10. CASE CopyReplies(r)
  <2>1. labels' = labels /\ categories' = categories
        /\ replies' = IF job[r].replace THEN replies \ Scope(replies, job[r].landing) ELSE replies
    BY <1>10 DEF CopyReplies
  <2> QED
    BY <2>1 DEF Scope, Boundless, OnPage, Untouched, Beside
<1>11. CASE ClearCategories(r)
  <2>1. job[r].replace /\ DropCategories(Scope(categories, job[r].landing))
    BY <1>1, <1>11 DEF ClearCategories, Step, Place
  <2>2. \A p \in Pages : p # NoPage
    BY CopyAssumption
  <2> QED
    BY <2>1, <2>2, ScopeOfPage, ClearElsewhere DEF Boundless
<1>12. ~ Edits(r)
  BY <1>1 DEF IsCopy, Edits, CreateLabel, UpdateLabel, DeleteLabels, CreateCategory, UpdateCategory,
     DeleteCategories, CreateReply, UpdateReply, DeleteReplies, TagPush, TagStore, Enter, Place
<1>13. ASSUME ~ SaveLabel(r), ~ SaveCategory(r), ~ SaveReply(r), ~ CopyLabels(r), ~ CopyReplies(r),
              ~ ClearCategories(r)
       PROVE  UNCHANGED table
  BY <1>12, <1>13 DEF Steps, Copies, CopyRefused, CopyDone, FindLabel, FindExisting, FindReply,
     FindCategory, Fail, Fails
<1> QED
  BY <1>2, <1>6, <1>7, <1>8, <1>9, <1>10, <1>11, <1>13

(* A copy changes no row of another page than its target, unless it is to   *)
(* replace the rows of no page in particular, and takes none off that page  *)
(* but to replace them.                                                     *)
THEOREM CopiesStayInTarget == Spec => CopyStaysInTarget
<1> DEFINE Stays ==
      \A r \in Requests : IsCopy(r) /\ (pc'[r] # pc[r] \/ at'[r] # at[r]) =>
          \A p \in Pages :
              /\ p # job[r].landing /\ ~ Boundless(r) =>
                    /\ OnPage(labels', p) = OnPage(labels, p)
                    /\ OnPage(categories', p) = OnPage(categories, p)
                    /\ OnPage(replies', p) = OnPage(replies, p)
              /\ ~ job[r].replace =>
                    labels \subseteq labels' /\ categories \subseteq categories' /\ replies \subseteq replies'
<1>1. Inv /\ [Next]_vars => [Stays]_vars
  <2> SUFFICES ASSUME Inv, NEW s \in Requests, Steps(s),
                      NEW r \in Requests, IsCopy(r), pc'[r] # pc[r] \/ at'[r] # at[r],
                      NEW p \in Pages
      PROVE  /\ p # job[r].landing /\ ~ Boundless(r) => Untouched(p)
             /\ ~ job[r].replace => Beside
    BY DEF Next, Steps, Untouched, Beside
  <2>1. r = s
    BY Frame DEF Inv
  <2> QED
    BY <2>1, TargetStep
<1> QED
  BY <1>1, InvAlways, PTL DEF Spec, CopyStaysInTarget

-----------------------------------------------------------------------------
(* A copy that no other request disturbs *)

Solo ==
    /\ \A r \in Requests : pc[r] = "new" => at[r] = 1 /\ cache[r] = {}
    /\ \A r \in Requests : alone = r =>
          pc[r] # "new" /\ \A s \in Requests \ {r} : pc[s] \notin Suspended

(* A request comes in, or one that is under way goes on. *)
LEMMA ComesOrGoesOn ==
    ASSUME Inv, NEW r \in Requests, Steps(r)
    PROVE  /\ pc'[r] # "new"
           /\ \/ /\ pc[r] = "new" /\ at' = at /\ hand' = hand /\ cache' = cache
                 /\ alone' = IF \E s \in Requests : pc[s] \in Suspended THEN Nobody ELSE r
                 /\ before' = IF alone' = r THEN Tables ELSE Tables0
              \/ pc[r] \in Suspended /\ alone' = alone /\ before' = before
<1>1. pc \in [Requests -> Suspended \cup {"new", "done", "failed"}]
  BY DEF Inv, TypeOK
<1>2. CASE CreateLabel(r) \/ UpdateLabel(r) \/ DeleteLabels(r) \/ CreateCategory(r)
           \/ UpdateCategory(r) \/ DeleteCategories(r)
  BY <1>1, <1>2 DEF CreateLabel, UpdateLabel, DeleteLabels, CreateCategory, UpdateCategory,
     DeleteCategories, Enter, Saved, Fails, Goto, local
<1>3. CASE CreateReply(r) \/ UpdateReply(r) \/ DeleteReplies(r) \/ TagPush(r) \/ CopyRefused(r)
           \/ CopyLabels(r) \/ CopyReplies(r)
  BY <1>1, <1>3 DEF CreateReply, UpdateReply, DeleteReplies, TagPush, CopyRefused, CopyLabels,
     CopyReplies, Enter, Saved, Fails, Goto, local
<1>4. CASE TagStore(r) \/ CopyDone(r) \/ FindLabel(r) \/ FindExisting(r) \/ SaveLabel(r)
           \/ ClearCategories(r) \/ Fail(r)
  BY <1>1, <1>4 DEF TagStore, CopyDone, FindLabel, FindExisting, SaveLabel, ClearCategories, Fail,
     Saved, Fails, Step, Goto, Suspended, history
<1>5. CASE FindReply(r) \/ FindCategory(r) \/ SaveCategory(r) \/ SaveReply(r)
  BY <1>1, <1>5 DEF FindReply, FindCategory, SaveCategory, SaveReply, Fails, Goto, Suspended, history
<1> QED
  BY <1>2, <1>3, <1>4, <1>5 DEF Steps, Edits, Copies

LEMMA SoloInit == Init => Solo
BY CopyAssumption DEF Init, Solo

(* Who is undisturbed after a step has taken it. *)
LEMMA OwnStep ==
    ASSUME Inv, Solo, NEW r \in Requests, Steps(r), NEW s \in Requests, alone' = s
    PROVE  s = r
<1>1. Nobody \notin Requests
  BY CopyAssumption
<1> QED
  BY <1>1, ComesOrGoesOn DEF Solo

LEMMA SoloNext == Inv /\ Solo /\ [Next]_vars => Solo'
<1> SUFFICES ASSUME Inv, Solo, [Next]_vars PROVE Solo'
  OBVIOUS
<1>1. ASSUME NEW r \in Requests, Steps(r) PROVE Solo'
  <2>1. \A s \in Requests \ {r} : pc'[s] = pc[s] /\ at'[s] = at[s] /\ cache'[s] = cache[s]
    BY <1>1, Frame DEF Inv
  <2>2. \A s \in Requests : pc'[s] = "new" => at'[s] = 1 /\ cache'[s] = {}
    BY <1>1, <2>1, ComesOrGoesOn DEF Solo
  <2>3. ASSUME NEW s \in Requests, alone' = s
        PROVE  pc'[s] # "new" /\ \A q \in Requests \ {s} : pc'[q] \notin Suspended
    <3>1. s = r /\ Nobody \notin Requests
      BY <1>1, <2>3, OwnStep, CopyAssumption
    <3> QED
      BY <1>1, <2>1, <2>3, <3>1, ComesOrGoesOn DEF Solo
  <2> QED
    BY <2>2, <2>3 DEF Solo
<1>2. CASE UNCHANGED vars
  BY <1>2 DEF vars, Solo
<1> QED
  BY <1>1, <1>2 DEF Next, Steps

(* The keys it has come past, after a step that goes to the next or not. *)
LEMMA PastStep ==
    ASSUME Inv, NEW r \in Requests, IsCopy(r)
    PROVE  /\ IsFiniteSet(Past(r)) /\ at[r] \notin Past(r)
           /\ at[r] = 1 => Past(r) = {}
           /\ job' = job /\ at' = at => Past(r)' = Past(r)
           /\ job' = job /\ MoreKeys(r) /\ NextKey(r) => Past(r)' = Past(r) \cup {at[r]}
<1> DEFINE n == Len(job[r].keys)
<1>1. at \in [Requests -> Nat \ {0}] /\ at[r] \in Nat \ {0} /\ job[r] \in Job
  BY DEF Inv, TypeOK
<1>2. DOMAIN job[r].keys = 1 .. n /\ n \in Nat
  BY <1>1 DEF Job, IsCopy
<1> HIDE DEF n
<1>3. job' = job /\ MoreKeys(r) /\ NextKey(r) => Past(r)' = Past(r) \cup {at[r]}
  BY <1>1, <1>2 DEF Past, MoreKeys, NextKey
<1>4. IsFiniteSet(Past(r))
  <2>1. Past(r) \in SUBSET (1 .. n) /\ IsFiniteSet(1 .. n)
    BY <1>2, FS_Interval DEF Past
  <2> QED
    BY <2>1, FS_Subset
<1> QED
  BY <1>1, <1>2, <1>3, <1>4 DEF Past
-----------------------------------------------------------------------------
(* An undisturbed copy of labels *)

Stands(r) == NamesOf(OnPage(labels, job[r].landing))
Chosen(r) == NamesOf(WithId(before.labels, Key(r)))
Copied(r) == NamesOf(Kept(r, before.labels))
                 \cup UNION {NamesOf(WithId(before.labels, job[r].keys[k])) : k \in Past(r)}

(* The rows there are were there before or are copies, under ids of their   *)
(* own; the name in hand is the one selected, or stands there already.      *)
LabelsInv(r) ==
    Undisturbed(r, "copyLabels") =>
        /\ Keyed(before.labels, last)
        /\ \A y \in labels : y \in before.labels \/ y.page = job[r].landing
        /\ \A x \in before.labels, y \in labels : x.id = y.id => x = y
        /\ Stands(r) = Copied(r)
        /\ pc[r] \in {"existing", "saveLabel"} =>
              /\ MoreKeys(r)
              /\ Chosen(r) \subseteq {hand[r].name}
              /\ hand[r].name \in Chosen(r) \cup Stands(r)

(* The step to the next key, whose name then stands there. *)
LEMMA NextLabel ==
    ASSUME Inv, NEW r \in Requests, IsCopy(r), job' = job, before' = before,
           MoreKeys(r), NextKey(r), Stands(r) = Copied(r),
           Stands(r)' = Stands(r) \cup Chosen(r)
    PROVE  Stands(r)' = Copied(r)'
<1>1. Past(r)' = Past(r) \cup {at[r]}
  BY PastStep
<1>2. Copied(r)' = Copied(r) \cup Chosen(r)
  BY <1>1 DEF Copied, Chosen, Kept, Key
<1> QED
  BY <1>2

LEMMA LabelsInvStep ==
    ASSUME Inv, Solo, NEW r \in Requests, Steps(r), LabelsInv(r)
    PROVE  LabelsInv(r)'
<1>1. job' = job /\ TypeOK /\ Place(r) /\ last \in Nat /\ Keyed(labels, last)
      /\ pc \in [Requests -> Suspended \cup {"new", "done", "failed"}]
      /\ hand \in [Requests -> Read]
  BY Frame DEF Inv, TypeOK
<1> SUFFICES ASSUME alone' = r, job[r].op = "copyLabels",
                    job[r].landing \notin {job[r].source, NoPage}
    PROVE  LabelsInv(r)'
  BY <1>1 DEF LabelsInv, Undisturbed
<1> USE DEF IsCopy
<1>2. CASE CopyLabels(r)
  <2>1. /\ before' = Tables /\ last' = last /\ at'[r] = 1 /\ pc'[r] = "label"
        /\ labels' = IF job[r].replace THEN labels \ OnPage(labels, job[r].landing) ELSE labels
    BY <1>1, <1>2, ComesOrGoesOn, ScopeOfPage DEF CopyLabels, Enter, DropLabels, table, local, Solo, Goto
  <2>2. at' = at /\ at[r] = 1
    BY <1>2, <2>1 DEF CopyLabels, Enter, local
  <2>3. before'.labels = labels
    BY <2>1 DEF Tables
  <2>4. Past(r)' = {}
    BY <1>1, <2>2, PastStep
  <2>5. Copied(r)' = NamesOf(IF job[r].replace THEN {} ELSE OnPage(labels, job[r].landing))
    BY <1>1, <2>3, <2>4 DEF Copied, Kept
  <2>6. OnPage(labels', job[r].landing) = IF job[r].replace THEN {} ELSE OnPage(labels, job[r].landing)
    BY <2>1 DEF OnPage
  <2>7. Stands(r)' = Copied(r)'
    BY <1>1, <2>5, <2>6 DEF Stands
  <2>8. \A x, y \in labels : x.id = y.id => x = y
    BY <1>1 DEF Keyed
  <2> QED
    BY <1>1, <2>1, <2>3, <2>7, <2>8 DEF LabelsInv
<1>3. CASE ~ CopyLabels(r)
  <2>1. /\ alone = r /\ before' = before
        /\ LabelsInv(r) /\ Undisturbed(r, "copyLabels")
    <3>1. pc[r] # "new"
      BY <1>1, <1>3 DEF Steps, Edits, Copies, CreateLabel, UpdateLabel, DeleteLabels, CreateCategory,
         UpdateCategory, DeleteCategories, CreateReply, UpdateReply, DeleteReplies, TagPush, TagStore,
         CopyRefused, CopyDone, FindLabel, FindExisting, SaveLabel, CopyReplies, ClearCategories,
         FindReply, FindCategory, SaveCategory, SaveReply, Fail, Enter, Step, Suspended, Refused, Boundless
    <3> QED
      BY <3>1, ComesOrGoesOn DEF Undisturbed
  <2>2. /\ Keyed(before.labels, last)
        /\ \A y \in labels : y \in before.labels \/ y.page = job[r].landing
        /\ \A x \in before.labels, y \in labels : x.id = y.id => x = y
        /\ Stands(r) = Copied(r)
        /\ pc[r] \in {"existing", "saveLabel"} =>
              /\ MoreKeys(r)
              /\ Chosen(r) \subseteq {hand[r].name}
              /\ hand[r].name \in Chosen(r) \cup Stands(r)
    BY <2>1 DEF LabelsInv
  <2>3. labels' = labels => Stands(r)' = Stands(r)
    BY <1>1 DEF Stands
  <2>4. at' = at => Copied(r)' = Copied(r) /\ Chosen(r)' = Chosen(r) /\ MoreKeys(r)' = MoreKeys(r)
    <3>1. at' = at => Past(r)' = Past(r)
      BY <1>1, PastStep
    <3> QED
      BY <1>1, <2>1, <3>1 DEF Copied, Chosen, MoreKeys, Key, Kept
  <2>5. CASE CopyDone(r) \/ Fail(r)
    <3>1. labels' = labels /\ last' = last /\ at' = at /\ pc'[r] \in {"done", "failed"}
      BY <1>1, <2>5 DEF CopyDone, Fail, table, local, Goto
    <3> QED
      BY <1>1, <2>1, <2>2, <2>3, <2>4, <3>1 DEF LabelsInv
  <2>6. CASE FindLabel(r)
    <3>1. labels' = labels /\ last' = last /\ at' = at /\ MoreKeys(r) /\ pc[r] = "label"
      BY <2>6 DEF FindLabel, table
    <3>2. CASE pc'[r] = "failed"
      BY <1>1, <2>1, <2>2, <2>3, <2>4, <3>1, <3>2 DEF LabelsInv
    <3>3. ASSUME NEW x \in WithId(labels, Key(r)),
                 hand' = [hand EXCEPT ![r] = [Nothing EXCEPT !.name = x.name]]
          PROVE  /\ Chosen(r) \subseteq {hand'[r].name}
                 /\ hand'[r].name \in Chosen(r) \cup Stands(r)
      <4>1. hand'[r].name = x.name
        BY <1>1, <3>3 DEF Nothing
      <4>2. x \in labels /\ x.id = Key(r)
        BY DEF WithId
      <4>3. \A y \in WithId(before.labels, Key(r)) : y = x
        BY <2>2, <4>2 DEF WithId
      <4>4. x \in WithId(before.labels, Key(r)) \/ x \in OnPage(labels, job[r].landing)
        BY <2>2, <4>2 DEF WithId, OnPage
      <4> QED
        BY <4>1, <4>3, <4>4 DEF Chosen, Stands, NamesOf
    <3>4. pc'[r] = "failed" \/ \E x \in WithId(labels, Key(r)) :
                                   hand' = [hand EXCEPT ![r] = [Nothing EXCEPT !.name = x.name]]
      BY <1>1, <2>6 DEF FindLabel, Goto
    <3>5. CASE /\ Chosen(r) \subseteq {hand'[r].name}
               /\ hand'[r].name \in Chosen(r) \cup Stands(r)
      BY <1>1, <2>1, <2>2, <2>3, <2>4, <3>1, <3>5 DEF LabelsInv
    <3> QED
      BY <3>2, <3>3, <3>4, <3>5
  <2>7. CASE FindExisting(r)
    <3>1. labels' = labels /\ last' = last /\ pc[r] = "existing" /\ hand' = hand
      BY <2>7 DEF FindExisting, table
    <3>2. CASE at' = at
      BY <1>1, <2>1, <2>2, <2>3, <2>4, <3>1, <3>2 DEF LabelsInv
    <3>3. CASE Named(labels, job[r].landing, hand[r].name) # {} /\ Goto(r, "label") /\ NextKey(r)
      <4>1. hand[r].name \in Stands(r)
        BY <3>3, ScopeOfPage DEF Stands, NamesOf
      <4>2. Stands(r)' = Stands(r) \cup Chosen(r)
        BY <2>2, <2>3, <3>1, <4>1
      <4>3. Stands(r)' = Copied(r)'
        BY <1>1, <2>1, <2>2, <3>1, <3>3, <4>2, NextLabel
      <4>4. pc'[r] = "label"
        BY <1>1, <3>3 DEF Goto
      <4> QED
        BY <1>1, <2>1, <2>2, <3>1, <4>3, <4>4 DEF LabelsInv
    <3> QED
      BY <2>7, <3>2, <3>3 DEF FindExisting
  <2>8. CASE SaveLabel(r)
    <3>1. CASE Fails(r) /\ UNCHANGED at
      <4>1. labels' = labels /\ last' = last /\ at' = at /\ pc'[r] = "failed"
        BY <1>1, <3>1 DEF Fails, Goto, table
      <4> QED
        BY <1>1, <2>1, <2>2, <2>3, <2>4, <4>1 DEF LabelsInv
    <3>2. CASE /\ Goto(r, "label") /\ NextKey(r)
               /\ InsertLabel(job[r].landing, hand[r].name)
      <4> DEFINE x == [id |-> last + 1, page |-> job[r].landing, name |-> hand[r].name, hidden |-> FALSE]
      <4>1. labels' = labels \cup {x} /\ last' = last + 1 /\ pc'[r] = "label"
        BY <1>1, <3>2 DEF InsertLabel, Goto
      <4>2. x.id = last + 1 /\ x.page = job[r].landing /\ x.name = hand[r].name
        OBVIOUS
      <4> HIDE DEF x
      <4>3. Keyed(before.labels, last') /\ \A y \in before.labels : y.id # last + 1
        BY <1>1, <2>2, <4>1, KeyedMore DEF Keyed
      <4>4. OnPage(labels', job[r].landing) = OnPage(labels, job[r].landing) \cup {x}
        BY <4>1, <4>2 DEF OnPage
      <4>5. Stands(r)' = Stands(r) \cup {hand[r].name}
        BY <1>1, <4>2, <4>4 DEF Stands, NamesOf
      <4>6. pc[r] = "saveLabel"
        BY <2>8 DEF SaveLabel
      <4>7. Stands(r)' = Stands(r) \cup Chosen(r)
        BY <2>2, <4>5, <4>6
      <4>8. Stands(r)' = Copied(r)'
        BY <1>1, <2>1, <2>2, <3>2, <4>6, <4>7, NextLabel
      <4>9. /\ \A y \in labels' : y \in before.labels \/ y.page = job[r].landing
            /\ \A z \in before.labels, y \in labels' : z.id = y.id => z = y
        BY <2>2, <4>1, <4>2, <4>3
      <4> QED
        BY <1>1, <2>1, <4>1, <4>3, <4>8, <4>9 DEF LabelsInv
    <3> QED
      BY <2>8, <3>1, <3>2 DEF SaveLabel
  <2> QED
    BY <1>1, <1>3, <2>1, <2>5, <2>6, <2>7, <2>8 DEF Steps, Edits, Copies, CreateLabel, UpdateLabel,
       DeleteLabels, CreateCategory, UpdateCategory, DeleteCategories, CreateReply, UpdateReply,
       DeleteReplies, TagPush, TagStore, CopyRefused, CopyReplies, ClearCategories, FindReply,
       FindCategory, SaveCategory, SaveReply, Enter, Step, Place, Refused, Boundless
<1> QED
  BY <1>2, <1>3

LEMMA LabelsInvInit == Init => \A r \in Requests : LabelsInv(r)
BY CopyAssumption DEF Init, LabelsInv, Undisturbed

LEMMA LabelsInvNext ==
    Inv /\ Solo /\ (\A r \in Requests : LabelsInv(r)) /\ [Next]_vars => (\A r \in Requests : LabelsInv(r))'
<1> SUFFICES ASSUME Inv, Solo, \A r \in Requests : LabelsInv(r), [Next]_vars, NEW s \in Requests
    PROVE  LabelsInv(s)'
  OBVIOUS
<1>1. ASSUME NEW r \in Requests, Steps(r) PROVE LabelsInv(s)'
  <2>1. CASE s = r
    BY <1>1, <2>1, LabelsInvStep
  <2>2. CASE s # r
    BY <1>1, <2>2, OwnStep DEF LabelsInv, Undisturbed
  <2> QED
    BY <2>1, <2>2
<1>2. CASE UNCHANGED vars
  BY <1>2 DEF vars, LabelsInv, Undisturbed, Stands, Copied, Chosen, Kept, Past, MoreKeys, Key
<1> QED
  BY <1>1, <1>2 DEF Next, Steps

(* An undisturbed copy of labels has put the selected names up to its key   *)
(* on the landing page, for any selection, tables and number of requests.   *)
LEMMA LabelsCopiedInOrder == Spec => []LabelsArePrefix
<1>1. (\A r \in Requests : LabelsInv(r)) => LabelsArePrefix
  BY DEF LabelsInv, LabelsArePrefix, Stands, Copied
<1>2. Spec => [](\A r \in Requests : LabelsInv(r))
  BY InitInv, NextInv, SoloInit, SoloNext, LabelsInvInit, LabelsInvNext, PTL DEF Spec
<1> QED
  BY <1>1, <1>2, PTL

-----------------------------------------------------------------------------
(* An undisturbed copy of replies *)

Gone(r, x)   == x.page = NoPage \/ (job[r].replace /\ x.page = job[r].landing)
NameUnder(t, k) == NamesOf(WithId(t.categories, k))
Here(r, v)   == Like(Tables, OnPage(replies, job[r].landing), v)
First(r, v)  == Like(before, Kept(r, before.replies), v)
Hits(r, v)   == {k \in Past(r) : Like(before, Selected(r, k), v) # {}}
Views        == Contents \X SUBSET Names

(* What was there, but for what is replaced or has no page, is there; what  *)
(* has come since has a later id than those that can be selected.           *)
Remain(r) ==
    /\ Keyed(before.replies, last) /\ Keyed(before.categories, last)
    /\ \A x \in before.replies : ~ Gone(r, x) /\ x.category # 0 =>
          \E c \in before.categories : c.id = x.category /\ c.page = x.page
    /\ \A x \in before.replies : x.id <= Last0 => \E y \in Replies0 : Same(x, y)
    /\ \A x \in before.replies : ~ Gone(r, x) => x \in replies
    /\ \A y \in replies : (y \in before.replies /\ ~ Gone(r, y)) \/ Last0 < y.id \/ y.page = NoPage
    /\ \A c \in before.categories : ~ Gone(r, c) => c \in categories

Clearing(r) ==
    pc[r] = "categories" => at[r] = 1 /\ cache[r] = {} /\ OnPage(replies, job[r].landing) = {}

(* A remembered category has the name of the one it stands for. *)
Recall(r) == \A e \in cache[r] : \E c \in categories : c.id = e[2] /\ {c.name} = NameUnder(before, e[1])

(* The reply in hand is the one selected, with the name of its category. *)
InHand(r) ==
    pc[r] \in {"category", "saveCategory", "saveReply"} =>
        /\ MoreKeys(r)
        /\ \E x \in Selected(r, at[r]) : x.content = hand[r].content /\ x.category = hand[r].category
        /\ NameUnder(before, hand[r].category) = IF hand[r].category = 0 THEN {} ELSE {hand[r].name}
        /\ pc[r] # "saveReply" => hand[r].category # 0

Counted(r, v) == Cardinality(Here(r, v)) = Cardinality(First(r, v)) + Cardinality(Hits(r, v))

Parts(r) ==
    Remain(r) /\ Clearing(r) /\ Recall(r) /\ InHand(r) /\ \A v \in Views : Counted(r, v)

RepliesInv(r) == Undisturbed(r, "copyReplies") => Parts(r)

(* A step of an undisturbed copy that began before. *)
Amid(r) ==
    /\ Inv /\ Undisturbed(r, "copyReplies") /\ Parts(r)
    /\ job' = job /\ before' = before

LEMMA KeyedFinite ==
    ASSUME NEW T, NEW n \in Nat, Keyed(T, n)
    PROVE  IsFiniteSet(T)
<1> DEFINE f == [x \in T |-> x.id]
<1>1. f \in Injection(T, 1 .. n)
  BY DEF Keyed, Injection, IsInjective
<1>2. IsFiniteSet(1 .. n)
  BY FS_Interval
<1> QED
  BY <1>1, <1>2, FS_Injection

LEMMA Counts ==
    ASSUME Inv, NEW r \in Requests, IsCopy(r), Remain(r), NEW v
    PROVE  /\ IsFiniteSet(Here(r, v)) /\ IsFiniteSet(First(r, v)) /\ IsFiniteSet(Hits(r, v))
           /\ Cardinality(Here(r, v)) \in Nat /\ Cardinality(First(r, v)) \in Nat
           /\ Cardinality(Hits(r, v)) \in Nat
<1>1. last \in Nat /\ Keyed(replies, last) /\ Keyed(before.replies, last)
  BY DEF Inv, TypeOK, Remain
<1>2. IsFiniteSet(replies) /\ IsFiniteSet(before.replies)
  BY <1>1, KeyedFinite
<1>3. Here(r, v) \in SUBSET replies /\ First(r, v) \in SUBSET before.replies
  BY DEF Here, First, Like, OnPage, Kept
<1>4. IsFiniteSet(Past(r)) /\ Hits(r, v) \in SUBSET Past(r)
  BY PastStep DEF Hits
<1>5. IsFiniteSet(Here(r, v)) /\ IsFiniteSet(First(r, v)) /\ IsFiniteSet(Hits(r, v))
  BY <1>2, <1>3, <1>4, FS_Subset
<1> QED
  BY <1>5, FS_CardinalityType

(* A category with the next id changes what no reply shows. *)
Grown == \/ categories' = categories
         \/ \E c : c.id = last + 1 /\ categories' = categories \cup {c}

LEMMA GrownSame ==
    ASSUME Inv, Grown, NEW k \in Nat, k <= last
    PROVE  WithId(categories', k) = WithId(categories, k)
<1>1. last \in Nat
  BY DEF Inv, TypeOK
<1> QED
  BY <1>1 DEF Grown, WithId

LEMMA ShownSame ==
    ASSUME Inv, Grown, NEW x \in replies
    PROVE  Shown(Tables', x) = Shown(Tables, x)
<1>1. x.category \in Nat /\ last \in Nat
  BY DEF Inv, TypeOK, Reply
<1>2. x.category <= last
  BY <1>1 DEF Inv, CategoryIsOwnPage, WithId, Keyed
<1>3. WithId(categories', x.category) = WithId(categories, x.category)
  BY <1>1, <1>2, GrownSame
<1> QED
  BY <1>3 DEF Shown, Tables

LEMMA HereSame ==
    ASSUME Inv, NEW r \in Requests, Grown, job' = job, replies' = replies, NEW v
    PROVE  Here(r, v)' = Here(r, v)
<1>1. \A x \in OnPage(replies, job[r].landing) : Shown(Tables', x) = Shown(Tables, x)
  BY ShownSame DEF OnPage
<1> QED
  BY <1>1 DEF Here, Like

LEMMA FirstSame ==
    ASSUME NEW r \in Requests, job' = job, before' = before, NEW v
    PROVE  First(r, v)' = First(r, v)
BY DEF First, Kept

(* The keys come past, with and without a next one. *)
LEMMA HitsSame ==
    ASSUME Inv, NEW r \in Requests, IsCopy(r), job' = job, before' = before, NEW v
    PROVE  /\ at' = at => Hits(r, v)' = Hits(r, v)
           /\ MoreKeys(r) /\ NextKey(r) =>
                 Hits(r, v)' = IF Like(before, Selected(r, at[r]), v) = {} THEN Hits(r, v)
                               ELSE Hits(r, v) \cup {at[r]}
<1>1. \A k : Selected(r, k)' = Selected(r, k)
  BY DEF Selected
<1>2. \A k : Like(before, Selected(r, k), v)' = Like(before, Selected(r, k), v)
  BY <1>1 DEF Like
<1>3. at' = at => Past(r)' = Past(r)
  BY PastStep
<1>4. MoreKeys(r) /\ NextKey(r) => Past(r)' = Past(r) \cup {at[r]}
  BY PastStep
<1>5. Hits(r, v)' = {k \in Past(r)' : Like(before, Selected(r, k), v) # {}}
  BY <1>2 DEF Hits
<1> QED
  BY <1>3, <1>4, <1>5 DEF Hits

(* Nothing is replaced or taken away once the categories are cleared. *)
LEMMA RemainGrows ==
    ASSUME NEW r \in Requests, Amid(r), last' \in Nat, last <= last',
           replies \subseteq replies', categories \subseteq categories',
           \A y \in replies' : y \in replies \/ Last0 < y.id
    PROVE  Remain(r)'
<1>1. last \in Nat /\ Keyed(before.replies, last') /\ Keyed(before.categories, last')
  BY KeyedMore DEF Amid, Parts, Remain, Inv, TypeOK
<1>2. \A x : Gone(r, x)' = Gone(r, x)
  BY DEF Gone, Amid
<1> QED
  BY <1>1, <1>2 DEF Amid, Parts, Remain

LEMMA RecallGrows ==
    ASSUME NEW r \in Requests, Amid(r), categories \subseteq categories', cache'[r] = cache[r]
    PROVE  Recall(r)'
BY DEF Amid, Parts, Recall, NameUnder

(* A step that leaves the replies and the key as they are. *)
LEMMA CountedSame ==
    ASSUME NEW r \in Requests, Amid(r), Grown, replies' = replies, at' = at, NEW v \in Views
    PROVE  Counted(r, v)'
<1>1. Inv /\ IsCopy(r) /\ job' = job /\ before' = before /\ Counted(r, v)
  BY DEF Amid, Undisturbed, IsCopy, Parts
<1>2. Here(r, v)' = Here(r, v) /\ First(r, v)' = First(r, v) /\ Hits(r, v)' = Hits(r, v)
  BY <1>1, HereSame, FirstSame, HitsSame
<1> QED
  BY <1>1, <1>2 DEF Counted

(* What a key selects is one reply at most. *)
LEMMA SelectedOne ==
    ASSUME NEW r \in Requests, Remain(r), NEW k
    PROVE  \A x, y \in Selected(r, k) : x = y
BY DEF Remain, Selected, WithId, Keyed

(* The names of a category that remains. *)
LEMMA NamesRemain ==
    ASSUME NEW r \in Requests, Inv, Remain(r), NEW x \in before.replies, ~ Gone(r, x)
    PROVE  NameUnder(before, x.category) = NamesOf(WithId(categories, x.category))
<1>1. /\ Keyed(categories, last) /\ Keyed(before.categories, last)
  BY DEF Inv, Remain
<1>2. CASE x.category = 0
  <2>1. WithId(before.categories, 0) = {} /\ WithId(categories, 0) = {}
    BY <1>1 DEF Keyed, WithId
  <2> QED
    BY <1>2, <2>1 DEF NameUnder
<1>3. CASE x.category # 0
  <2>1. PICK c \in before.categories : c.id = x.category /\ c.page = x.page
    BY <1>3 DEF Remain
  <2>2. c \in categories
    BY <2>1 DEF Remain, Gone
  <2>3. WithId(before.categories, x.category) = {c} /\ WithId(categories, x.category) = {c}
    BY <1>1, <2>1, <2>2 DEF Keyed, WithId
  <2> QED
    BY <2>3 DEF NameUnder
<1> QED
  BY <1>2, <1>3

LEMMA BeginReplies ==
    ASSUME Inv, Solo, NEW r \in Requests, CopyReplies(r), job' = job, alone' = r,
           job[r].landing # NoPage
    PROVE  Parts(r)'
<1> DEFINE L == job[r].landing
<1>1. /\ before' = Tables /\ last' = last /\ at' = at /\ cache' = cache /\ at[r] = 1 /\ cache[r] = {}
      /\ categories' = categories /\ job[r].op = "copyReplies" /\ job[r].replace \in BOOLEAN
      /\ replies' = IF job[r].replace THEN replies \ OnPage(replies, L) ELSE replies
      /\ pc'[r] = IF job[r].replace THEN "categories" ELSE "reply"
  <2>1. pc[r] = "new" /\ pc \in [Requests -> Suspended \cup {"new", "done", "failed"}]
        /\ job[r].op = "copyReplies" /\ TypeOK
    BY DEF CopyReplies, Enter, Inv, TypeOK
  <2>2. job[r].replace \in BOOLEAN
    BY <2>1, JobHas
  <2> QED
    BY <2>1, <2>2, ScopeOfPage DEF CopyReplies, Enter, local, Solo, Goto
<1>2. before'.replies = replies /\ before'.categories = categories
  BY <1>1 DEF Tables
<1>3. Keyed(replies, last) /\ Keyed(categories, last) /\ CategoryIsOwnPage /\ Last0 <= last
  BY DEF Inv
<1>4. Remain(r)'
  <2>1. \A x \in replies : x.page # NoPage /\ x.category # 0 =>
            \E c \in categories : c.id = x.category /\ c.page = x.page
    BY <1>3 DEF CategoryIsOwnPage, WithId
  <2>2. \A x : Gone(r, x)' <=> x.page = NoPage \/ (job[r].replace /\ x.page = L)
    BY DEF Gone
  <2>3. \A x : x \in replies' <=> x \in replies /\ ~ (job[r].replace /\ x.page = L)
    BY <1>1 DEF OnPage
  <2>4. \A x \in replies : x.id <= Last0 => \E y \in Replies0 : Same(x, y)
    BY DEF Inv, Own, Same
  <2> QED
    BY <1>1, <1>2, <1>3, <2>1, <2>2, <2>3, <2>4 DEF Remain
<1>5. OnPage(replies', L) = IF job[r].replace THEN {} ELSE OnPage(replies, L)
  BY <1>1 DEF OnPage
<1>6. Clearing(r)'
  BY <1>1, <1>5 DEF Clearing
<1>7. Recall(r)' /\ InHand(r)'
  BY <1>1 DEF Recall, InHand
<1>8. ASSUME NEW v \in Views PROVE Counted(r, v)'
  <2>1. Past(r)' = {}
    BY <1>1, PastStep DEF IsCopy
  <2>2. Hits(r, v)' = {}
    BY <2>1 DEF Hits
  <2>3. First(r, v)' = Like(Tables, OnPage(replies', L), v)
    BY <1>1, <1>2, <1>5 DEF First, Kept
  <2>4. Here(r, v)' = Like(Tables, OnPage(replies', L), v)
    BY <1>1 DEF Here, Like, Shown, Tables
  <2>5. Cardinality(Like(Tables, OnPage(replies', L), v)) \in Nat
    <3>1. last \in Nat
      BY DEF Inv, TypeOK
    <3>2. IsFiniteSet(replies)
      BY <1>3, <3>1, KeyedFinite
    <3>3. Like(Tables, OnPage(replies', L), v) \in SUBSET replies
      BY <1>5 DEF Like, OnPage
    <3> QED
      BY <3>2, <3>3, FS_Subset, FS_CardinalityType
  <2> QED
    BY <2>2, <2>3, <2>4, <2>5, FS_EmptySet DEF Counted
<1> QED
  BY <1>4, <1>6, <1>7, <1>8 DEF Parts

LEMMA ClearReplies ==
    ASSUME NEW r \in Requests, Amid(r), ClearCategories(r)
    PROVE  Parts(r)'
<1> DEFINE L == job[r].landing
<1>1. /\ Inv /\ TypeOK /\ Remain(r) /\ IsCopy(r) /\ job' = job /\ before' = before /\ L # NoPage
      /\ DropCategories(OnPage(categories, L)) /\ at' = at /\ cache' = cache /\ last' = last
      /\ categories' = categories \ OnPage(categories, L)
      /\ pc[r] = "categories" /\ pc'[r] = "reply"
  BY ScopeOfPage DEF Amid, Undisturbed, IsCopy, Parts, ClearCategories, Step, Goto, local,
     DropCategories, Inv, TypeOK
<1>2. job[r].replace /\ at[r] = 1 /\ cache[r] = {} /\ OnPage(replies, L) = {}
  BY <1>1 DEF Inv, Place, Amid, Parts, Clearing
<1>3. \A x : x.page # NoPage => (x \in replies' <=> x \in replies)
  <2>1. \A p : p # L /\ p # NoPage => OnPage(replies', p) = OnPage(replies, p)
    BY <1>1, ClearElsewhere DEF Untouched
  <2>2. \A x \in replies' : \E y \in replies : x.page = y.page
    <3>1. replies' = {IF x.category \in Ids(OnPage(categories, L)) THEN [x EXCEPT !.category = 0] ELSE x
                         : x \in replies}
      BY <1>1 DEF DropCategories
    <3>2. \A y \in replies : [y EXCEPT !.category = 0].page = y.page
      BY <1>1 DEF TypeOK, Reply
    <3> QED
      BY <3>1, <3>2
  <2>3. OnPage(replies', L) = {}
    BY <1>2, <2>2 DEF OnPage
  <2> QED
    BY <1>2, <2>1, <2>3 DEF OnPage
<1>4. Remain(r)'
  <2>1. \A c \in before.categories : ~ Gone(r, c) => c \in categories'
    BY <1>1, <1>2 DEF Remain, Gone, OnPage
  <2>2. \A x : Gone(r, x)' = Gone(r, x)
    BY <1>1 DEF Gone
  <2>3. \A x \in before.replies : ~ Gone(r, x) => x \in replies'
    BY <1>1, <1>3 DEF Remain, Gone
  <2>4. \A y \in replies' : (y \in before.replies /\ ~ Gone(r, y)) \/ Last0 < y.id \/ y.page = NoPage
    BY <1>1, <1>3 DEF Remain
  <2> QED
    BY <1>1, <2>1, <2>2, <2>3, <2>4 DEF Remain
<1>5. Clearing(r)' /\ Recall(r)' /\ InHand(r)'
  BY <1>1, <1>2 DEF Clearing, Recall, InHand
<1>6. ASSUME NEW v \in Views PROVE Counted(r, v)'
  <2>1. Here(r, v) = {} /\ Here(r, v)' = {}
    BY <1>1, <1>2, <1>3 DEF Here, Like, OnPage
  <2>2. First(r, v)' = First(r, v) /\ Hits(r, v)' = Hits(r, v)
    BY <1>1, FirstSame, HitsSame
  <2>3. Counted(r, v)
    BY DEF Amid, Parts
  <2> QED
    BY <2>1, <2>2, <2>3 DEF Counted
<1> QED
  BY <1>4, <1>5, <1>6 DEF Parts

LEMMA FoundReply ==
    ASSUME NEW r \in Requests, Amid(r), FindReply(r)
    PROVE  Parts(r)'
<1>1. /\ Inv /\ TypeOK /\ Remain(r) /\ IsCopy(r) /\ job' = job /\ before' = before
      /\ cache' = cache /\ UNCHANGED table /\ last \in Nat /\ MoreKeys(r) /\ pc[r] = "reply"
      /\ job \in Mixes /\ job[r].op = "copyReplies"
      /\ pc \in [Requests -> Suspended \cup {"new", "done", "failed"}] /\ hand \in [Requests -> Read]
  BY DEF Amid, Undisturbed, IsCopy, Parts, FindReply, Inv, TypeOK
<1>2. Remain(r)' /\ Recall(r)'
  BY <1>1, RemainGrows, RecallGrows DEF table
<1>3. pc'[r] \in {"reply", "saveReply", "category"}
  BY <1>1 DEF FindReply, Goto
<1>4. Clearing(r)'
  BY <1>3 DEF Clearing
<1>5. Key(r) <= Last0 /\ \A x \in Replies0 : x.id = Key(r) => x.page # NoPage
  BY <1>1, SelectionShown DEF Key, MoreKeys
<1>6. CASE WithId(replies, Key(r)) = {} /\ NextKey(r) /\ UNCHANGED <<pc, hand>>
  <2>1. Selected(r, at[r]) = {}
    BY <1>1, <1>5, <1>6 DEF Remain, Selected, WithId, Gone, Key, Same
  <2>2. InHand(r)'
    BY <1>1, <1>6 DEF InHand
  <2>3. ASSUME NEW v \in Views PROVE Counted(r, v)'
    <3>1. Like(before, Selected(r, at[r]), v) = {}
      BY <2>1 DEF Like
    <3>2. Hits(r, v)' = Hits(r, v)
      BY <1>1, <1>6, <3>1, HitsSame
    <3>3. Here(r, v)' = Here(r, v) /\ First(r, v)' = First(r, v)
      BY <1>1, HereSame, FirstSame DEF table, Grown
    <3>4. Counted(r, v)
      BY <2>3 DEF Amid, Parts
    <3> QED
      BY <3>2, <3>3, <3>4 DEF Counted
  <2> QED
    BY <1>2, <1>4, <2>2, <2>3 DEF Parts
<1>7. ASSUME NEW x \in WithId(replies, Key(r)), NEW n \in Names \cup {NoText},
             {n} = IF x.category = 0 THEN {NoText}
                   ELSE {c.name : c \in WithId(categories, x.category)},
             hand' = [hand EXCEPT ![r] = [content |-> x.content, category |-> x.category, name |-> n]],
             Goto(r, IF x.category = 0 \/ \E c \in cache[r] : c[1] = x.category
                     THEN "saveReply" ELSE "category"),
             at' = at
      PROVE  Parts(r)'
  <2>1. x \in replies /\ x.id = Key(r) /\ x.id \in Nat /\ Last0 \in Nat
    BY <1>1, CopyAssumption DEF WithId, TypeOK, Reply
  <2>2. x \in before.replies /\ ~ Gone(r, x)
    <3>1. x.page # NoPage
      BY <1>1, <1>5, <2>1 DEF Inv, Own
    <3> QED
      BY <1>1, <1>5, <2>1, <3>1 DEF Remain
  <2>3. x \in Selected(r, at[r])
    BY <2>1, <2>2 DEF Selected, WithId, Gone, Key
  <2>4. hand'[r].content = x.content /\ hand'[r].category = x.category /\ hand'[r].name = n
    BY <1>1, <1>7
  <2>5. NameUnder(before, x.category) = NamesOf(WithId(categories, x.category))
    BY <1>1, <2>2, NamesRemain
  <2>6. x.category = 0 => WithId(categories, x.category) = {}
    BY <1>1 DEF Inv, Keyed, WithId
  <2>7. NameUnder(before, x.category) = IF x.category = 0 THEN {} ELSE {n}
    BY <1>7, <2>5, <2>6 DEF NamesOf
  <2>8. pc'[r] # "saveReply" => x.category # 0
    BY <1>1, <1>7 DEF Goto
  <2>9. Selected(r, at[r])' = Selected(r, at[r]) /\ MoreKeys(r)'
    BY <1>1, <1>7 DEF Selected, MoreKeys
  <2>10. InHand(r)'
    BY <1>1, <2>3, <2>4, <2>7, <2>8, <2>9 DEF InHand, NameUnder
  <2>11. \A v \in Views : Counted(r, v)'
    BY <1>1, <1>7, CountedSame DEF table, Grown
  <2> QED
    BY <1>2, <1>4, <2>10, <2>11 DEF Parts
<1> QED
  BY <1>6, <1>7 DEF FindReply

LEMMA NamedCategory ==
    ASSUME NEW r \in Requests, Amid(r), FindCategory(r) \/ SaveCategory(r)
    PROVE  Parts(r)'
<1>1. /\ Inv /\ TypeOK /\ Remain(r) /\ Recall(r) /\ InHand(r) /\ job' = job /\ before' = before
      /\ at' = at /\ hand' = hand /\ replies' = replies /\ last \in Nat
      /\ pc[r] \in {"category", "saveCategory"}
      /\ pc \in [Requests -> Suspended \cup {"new", "done", "failed"}]
      /\ cache \in [Requests -> SUBSET (Nat \X Nat)]
  BY DEF Amid, Parts, FindCategory, SaveCategory, table, Fails, InsertCategory, Inv, TypeOK
<1>2. Grown /\ categories \subseteq categories' /\ last' \in {last, last + 1}
  <2>1. CASE UNCHANGED table
    BY <2>1 DEF Grown, table
  <2>2. CASE InsertCategory(job[r].landing, hand[r].name)
    <3> DEFINE c == [id |-> last + 1, page |-> job[r].landing, name |-> hand[r].name]
    <3>1. categories' = categories \cup {c} /\ last' = last + 1 /\ c.id = last + 1
      BY <2>2 DEF InsertCategory
    <3> HIDE DEF c
    <3> QED
      BY <3>1 DEF Grown
  <2> QED
    BY <2>1, <2>2 DEF FindCategory, SaveCategory, Fails
<1>3. Remain(r)'
  BY <1>1, <1>2, RemainGrows
<1>4. \A v \in Views : Counted(r, v)'
  BY <1>1, <1>2, CountedSame
<1>5. /\ MoreKeys(r)
      /\ \E x \in Selected(r, at[r]) : x.content = hand[r].content /\ x.category = hand[r].category
      /\ NameUnder(before, hand[r].category) = {hand[r].name}
      /\ hand[r].category # 0
  BY <1>1 DEF InHand
<1>6. InHand(r)'
  <2>1. Selected(r, at[r])' = Selected(r, at[r]) /\ MoreKeys(r)'
    BY <1>1, <1>5 DEF Selected, MoreKeys
  <2> QED
    BY <1>1, <1>5, <2>1 DEF InHand, NameUnder
<1>7. Clearing(r)'
  BY <1>1 DEF Clearing, FindCategory, SaveCategory, Goto, Fails
<1>8. CASE cache' = cache
  BY <1>2, <1>3, <1>4, <1>6, <1>7, <1>8, RecallGrows DEF Parts
<1>9. ASSUME NEW k, Remember(r, k), \E c \in categories' : c.id = k /\ c.name = hand[r].name
      PROVE  Parts(r)'
  <2> DEFINE f == <<hand[r].category, k>>
  <2>1. cache'[r] = cache[r] \cup {f} /\ f[1] = hand[r].category /\ f[2] = k
    BY <1>1, <1>9 DEF Remember
  <2> HIDE DEF f
  <2>2. \E c \in categories' : c.id = f[2] /\ {c.name} = NameUnder(before, f[1])
    BY <1>5, <1>9, <2>1
  <2>3. \A e \in cache[r] : \E c \in categories' : c.id = e[2] /\ {c.name} = NameUnder(before, e[1])
    BY <1>1, <1>2 DEF Recall
  <2>4. Recall(r)'
    BY <1>1, <2>1, <2>2, <2>3 DEF Recall, NameUnder
  <2> QED
    BY <1>3, <1>4, <1>6, <1>7, <2>4 DEF Parts
<1>10. CASE FindCategory(r)
  <2>1. categories' = categories
    BY <1>10 DEF FindCategory, table
  <2>2. cache' = cache \/ \E x \in Named(categories, job[r].landing, hand[r].name) : Remember(r, x.id)
    BY <1>10 DEF FindCategory
  <2> QED
    BY <1>8, <1>9, <2>1, <2>2 DEF Named, Scope
<1>11. CASE SaveCategory(r)
  <2>1. CASE Remember(r, last + 1) /\ InsertCategory(job[r].landing, hand[r].name)
    <3> DEFINE c == [id |-> last + 1, page |-> job[r].landing, name |-> hand[r].name]
    <3>1. c \in categories' /\ c.id = last + 1 /\ c.name = hand[r].name
      BY <2>1 DEF InsertCategory
    <3> HIDE DEF c
    <3> QED
      BY <1>9, <2>1, <3>1
  <2> QED
    BY <1>8, <1>11, <2>1 DEF SaveCategory
<1> QED
  BY <1>10, <1>11

(* A step that only moves the request on. *)
LEMMA MovedOn ==
    ASSUME NEW r \in Requests, Amid(r), UNCHANGED table, at' = at, cache' = cache, hand' = hand,
           pc'[r] \in {"done", "failed"}
    PROVE  Parts(r)'
<1>1. last' = last /\ last \in Nat /\ replies' = replies /\ categories' = categories
  BY DEF table, Amid, Inv, TypeOK
<1>2. Remain(r)' /\ Recall(r)'
  BY <1>1, RemainGrows, RecallGrows
<1>3. Clearing(r)' /\ InHand(r)'
  BY DEF Clearing, InHand
<1>4. \A v \in Views : Counted(r, v)'
  BY <1>1, CountedSame DEF Grown
<1> QED
  BY <1>2, <1>3, <1>4 DEF Parts

(* The category a reply is saved under has the name of the one it had. *)
LEMMA NewCategoryName ==
    ASSUME NEW r \in Requests, Amid(r), pc[r] = "saveReply"
    PROVE  NamesOf(WithId(categories, NewCategory(r))) = NameUnder(before, hand[r].category)
<1>1. /\ Keyed(categories, last) /\ Place(r) /\ Recall(r)
      /\ hand[r].category = 0 => NameUnder(before, hand[r].category) = {}
  BY DEF Amid, Inv, Parts, InHand
<1>2. CASE hand[r].category = 0
  <2>1. NewCategory(r) = 0 /\ WithId(categories, 0) = {}
    BY <1>1, <1>2 DEF NewCategory, Keyed, WithId
  <2> QED
    BY <1>1, <1>2, <2>1 DEF NamesOf
<1>3. CASE hand[r].category # 0
  <2> DEFINE e == CHOOSE c \in cache[r] : c[1] = hand[r].category
  <2>1. \E c \in cache[r] : c[1] = hand[r].category
    BY <1>1, <1>3 DEF Place
  <2>2. e \in cache[r] /\ e[1] = hand[r].category /\ NewCategory(r) = e[2]
    BY <1>3, <2>1 DEF NewCategory
  <2> HIDE DEF e
  <2>3. PICK c \in categories : c.id = e[2] /\ {c.name} = NameUnder(before, e[1])
    BY <1>1, <2>2 DEF Recall
  <2>4. WithId(categories, e[2]) = {c}
    BY <1>1, <2>3 DEF WithId, Keyed
  <2> QED
    BY <2>2, <2>3, <2>4 DEF NamesOf
<1> QED
  BY <1>2, <1>3

LEMMA SavedReply ==
    ASSUME NEW r \in Requests, Amid(r), pc[r] = "saveReply", Goto(r, "reply"), NextKey(r),
           InsertReply(job[r].landing, hand[r].content, NewCategory(r)),
           hand' = hand, cache' = cache
    PROVE  Parts(r)'
<1> DEFINE L == job[r].landing
           y == [id |-> last + 1, page |-> L, content |-> hand[r].content, category |-> NewCategory(r)]
<1>1. /\ Inv /\ TypeOK /\ Remain(r) /\ IsCopy(r) /\ job' = job /\ before' = before
      /\ MoreKeys(r) /\ last \in Nat /\ Last0 \in Nat /\ Last0 <= last
      /\ replies' = replies \cup {y} /\ last' = last + 1
      /\ labels' = labels /\ categories' = categories /\ pc'[r] = "reply"
  BY CopyAssumption DEF Amid, Undisturbed, IsCopy, Parts, InHand, InsertReply, Inv, TypeOK, Goto
<1>2. y.id = last + 1 /\ y.page = L /\ y.content = hand[r].content /\ y.category = NewCategory(r)
  OBVIOUS
<1> HIDE DEF y
<1>3. Remain(r)' /\ Recall(r)'
  BY <1>1, <1>2, RemainGrows, RecallGrows
<1>4. Clearing(r)' /\ InHand(r)'
  BY <1>1 DEF Clearing, InHand
<1>5. PICK x \in Selected(r, at[r]) : x.content = hand[r].content /\ x.category = hand[r].category
  BY DEF Amid, Parts, InHand
<1>6. Shown(Tables, y) = Shown(before, x)
  BY <1>2, <1>5, NewCategoryName DEF Shown, Tables, NameUnder
<1>7. Selected(r, at[r]) = {x}
  BY <1>1, <1>5, SelectedOne
<1>8. y \notin replies
  BY <1>1, <1>2 DEF Inv, Keyed
<1>9. ASSUME NEW v \in Views PROVE Counted(r, v)'
  <2>1. /\ IsFiniteSet(Here(r, v)) /\ IsFiniteSet(Hits(r, v))
        /\ Cardinality(Here(r, v)) \in Nat /\ Cardinality(First(r, v)) \in Nat
        /\ Cardinality(Hits(r, v)) \in Nat
        /\ Counted(r, v)
    BY <1>1, Counts DEF Amid, Parts
  <2>2. First(r, v)' = First(r, v)
    BY <1>1, FirstSame
  <2>3. Like(before, Selected(r, at[r]), v) = IF Shown(before, x) = v THEN {x} ELSE {}
    BY <1>7 DEF Like
  <2>4. Hits(r, v)' = IF Shown(before, x) = v THEN Hits(r, v) \cup {at[r]} ELSE Hits(r, v)
    BY <1>1, <2>3, HitsSame
  <2>5. at[r] \notin Hits(r, v)
    BY <1>1, PastStep DEF Hits
  <2>6. Tables'.categories = Tables.categories
    BY <1>1 DEF Tables
  <2>7. Here(r, v)' = IF Shown(before, x) = v THEN Here(r, v) \cup {y} ELSE Here(r, v)
    <3>1. \A z : Shown(Tables', z) = Shown(Tables, z)
      BY <2>6 DEF Shown
    <3>2. OnPage(replies', L) = OnPage(replies, L) \cup {y}
      BY <1>1, <1>2 DEF OnPage
    <3>3. Here(r, v)' = {z \in OnPage(replies', L) : Shown(Tables', z) = v}
      BY <1>1 DEF Here, Like
    <3>4. Here(r, v)' = {z \in OnPage(replies, L) \cup {y} : Shown(Tables, z) = v}
      BY <3>1, <3>2, <3>3
    <3> QED
      BY <1>6, <3>4 DEF Here, Like
  <2>8. y \notin Here(r, v)
    BY <1>8 DEF Here, Like, OnPage
  <2>9. CASE Shown(before, x) = v
    <3>1. Cardinality(Here(r, v)') = Cardinality(Here(r, v)) + 1
      BY <2>1, <2>7, <2>8, <2>9, FS_AddElement
    <3>2. Cardinality(Hits(r, v)') = Cardinality(Hits(r, v)) + 1
      BY <2>1, <2>4, <2>5, <2>9, FS_AddElement
    <3> QED
      BY <2>1, <2>2, <3>1, <3>2 DEF Counted
  <2>10. CASE Shown(before, x) # v
    BY <2>1, <2>2, <2>4, <2>7, <2>10 DEF Counted
  <2> QED
    BY <2>9, <2>10
<1> QED
  BY <1>3, <1>4, <1>9 DEF Parts

LEMMA RepliesInvStep ==
    ASSUME Inv, Solo, NEW r \in Requests, Steps(r), RepliesInv(r)
    PROVE  RepliesInv(r)'
<1>1. job' = job /\ Place(r) /\ pc \in [Requests -> Suspended \cup {"new", "done", "failed"}]
  BY Frame DEF Inv, TypeOK
<1> SUFFICES ASSUME alone' = r, job[r].op = "copyReplies",
                    job[r].landing \notin {job[r].source, NoPage}
    PROVE  Parts(r)'
  BY <1>1 DEF RepliesInv, Undisturbed
<1>2. CASE CopyReplies(r)
  BY <1>1, <1>2, BeginReplies
<1>3. CASE ~ CopyReplies(r)
  <2>1. CopyDone(r) \/ Fail(r) \/ ClearCategories(r) \/ FindReply(r) \/ FindCategory(r)
        \/ SaveCategory(r) \/ SaveReply(r)
    BY <1>1, <1>3 DEF Steps, Edits, Copies, CreateLabel, UpdateLabel, DeleteLabels, CreateCategory,
       UpdateCategory, DeleteCategories, CreateReply, UpdateReply, DeleteReplies, TagPush, TagStore,
       CopyRefused, CopyLabels, FindLabel, FindExisting, SaveLabel, Enter, Place, Refused, Boundless
  <2>2. pc[r] # "new"
    BY <2>1 DEF CopyDone, Fail, ClearCategories, FindReply, FindCategory, SaveCategory, SaveReply,
       Step, Suspended
  <2>3. Amid(r)
    <3>1. alone = r /\ before' = before
      BY <2>2, ComesOrGoesOn
    <3> QED
      BY <1>1, <3>1 DEF Amid, RepliesInv, Undisturbed
  <2>4. CASE CopyDone(r) \/ Fail(r)
    <3>1. UNCHANGED table /\ at' = at /\ cache' = cache /\ hand' = hand /\ pc'[r] \in {"done", "failed"}
      BY <1>1, <2>4 DEF CopyDone, Fail, Goto, local
    <3> QED
      BY <2>3, <3>1, MovedOn
  <2>5. CASE SaveReply(r)
    <3>1. hand' = hand /\ cache' = cache /\ pc[r] = "saveReply"
      BY <2>5 DEF SaveReply
    <3>2. CASE Fails(r) /\ UNCHANGED at
      <4>1. UNCHANGED table /\ pc'[r] = "failed"
        BY <1>1, <3>2 DEF Fails, Goto
      <4> QED
        BY <2>3, <3>1, <3>2, <4>1, MovedOn
    <3> QED
      BY <2>3, <2>5, <3>1, <3>2, SavedReply DEF SaveReply
  <2> QED
    BY <2>1, <2>3, <2>4, <2>5, ClearReplies, FoundReply, NamedCategory
<1> QED
  BY <1>2, <1>3

LEMMA RepliesInvInit == Init => \A r \in Requests : RepliesInv(r)
BY CopyAssumption DEF Init, RepliesInv, Undisturbed

LEMMA RepliesInvNext ==
    Inv /\ Solo /\ (\A r \in Requests : RepliesInv(r)) /\ [Next]_vars => (\A r \in Requests : RepliesInv(r))'
<1> SUFFICES ASSUME Inv, Solo, \A r \in Requests : RepliesInv(r), [Next]_vars, NEW s \in Requests
    PROVE  RepliesInv(s)'
  OBVIOUS
<1>1. ASSUME NEW r \in Requests, Steps(r) PROVE RepliesInv(s)'
  <2>1. CASE s = r
    BY <1>1, <2>1, RepliesInvStep
  <2>2. CASE s # r
    BY <1>1, <2>2, OwnStep DEF RepliesInv, Undisturbed
  <2> QED
    BY <2>1, <2>2
<1>2. CASE UNCHANGED vars
  <2>1. Undisturbed(s, "copyReplies")' = Undisturbed(s, "copyReplies")
    BY <1>2 DEF vars, Undisturbed
  <2>2. ASSUME Amid(s), NEW v \in Views PROVE Counted(s, v)'
    BY <1>2, <2>2, CountedSame DEF vars, Grown
  <2>3. ASSUME Amid(s) PROVE Remain(s)' /\ Clearing(s)' /\ Recall(s)' /\ InHand(s)'
    BY <1>2, <2>3 DEF Amid, Parts, vars, Remain, Gone, Clearing, Recall, NameUnder, InHand, MoreKeys,
       Selected
  <2>4. Undisturbed(s, "copyReplies") => Amid(s)
    BY <1>2 DEF Amid, RepliesInv, vars
  <2> QED
    BY <2>1, <2>2, <2>3, <2>4 DEF RepliesInv, Parts
<1> QED
  BY <1>1, <1>2 DEF Next, Steps

(* An undisturbed copy of replies has added one reply of the same content   *)
(* and category for each one selected up to its key, for any selection,     *)
(* tables and number of requests.                                           *)
LEMMA RepliesCopiedOnce == Spec => []RepliesArePrefix
<1>1. (\A r \in Requests : RepliesInv(r)) => RepliesArePrefix
  BY DEF RepliesInv, Parts, RepliesArePrefix, Counted, Here, First, Hits, Views
<1>2. Spec => [](\A r \in Requests : RepliesInv(r))
  BY InitInv, NextInv, SoloInit, SoloNext, RepliesInvInit, RepliesInvNext, PTL DEF Spec
<1> QED
  BY <1>1, <1>2, PTL

(* An undisturbed copy stops at any step with exactly what it has come to,  *)
(* of labels and of replies.                                                *)
THEOREM CopiesArePrefixes == Spec => []CopyIsPrefix
<1>1. LabelsArePrefix /\ RepliesArePrefix => CopyIsPrefix
  BY DEF CopyIsPrefix
<1> QED
  BY <1>1, LabelsCopiedInOrder, RepliesCopiedOnce, PTL
=============================================================================
