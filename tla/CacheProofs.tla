---------------------------- MODULE CacheProofs ----------------------------
(* What holds of the cached lists for any number of requests and writes. *)
EXTENDS CacheAside, TLAPS

LEMMA TypeStep ==
    ASSUME TypeOK, [Next]_vars
    PROVE  TypeOK'
<1> USE CacheAssumption DEF TypeOK, Goto, Labels, Suspended
<1>1. ASSUME NEW r \in Requests, Lookup(r) \/ LookupFails(r)
      PROVE  TypeOK'
  <2> PICK l \in Served :
             /\ list' = [list EXCEPT ![r] = l]
             /\ \E label \in {"query", "done"} : pc' = [pc EXCEPT ![r] = label]
             /\ UNCHANGED <<content, cache, edit, seen, writes>>
    BY <1>1 DEF Lookup, LookupFails
  <2>1. l \in Lists
    BY DEF Served, Lists, Edits, Edit, LabelCreate, LabelDelete, LabelUpdate,
           LabelUpdateUnnamed, LabelRestore, LabelDeleteAll, LabelCopy, ReplyCreate, ReplyUpdate,
           ReplyDelete, ReplyDeleteAll, ReplyCopy, CategoryCreate,
           CategoryDelete, CategoryUpdate, LoginFlags, PageConnect,
           PageRenewal, PageSync, PageSyncTelegram
  <2> QED
    BY <2>1
<1>2. ASSUME NEW r \in Requests, Query(r)
      PROVE  TypeOK'
  BY <1>2 DEF Query
<1>3. ASSUME NEW r \in Requests, Fill(r)
      PROVE  TypeOK'
  <2>1. [version |-> seen[r], late |-> seen[r] # content[list[r]]] \in Entry
    BY <1>3 DEF Fill, Entry
  <2> QED
    BY <1>3, <2>1 DEF Fill
<1>4. ASSUME NEW r \in Requests, Begin(r)
      PROVE  TypeOK'
  <2> PICK e \in Workload :
             /\ edit' = [edit EXCEPT ![r] = e]
             /\ \E label \in {"drop", "write"} : pc' = [pc EXCEPT ![r] = label]
             /\ UNCHANGED <<content, cache, list, seen, writes>>
    BY <1>4 DEF Begin
  <2> QED
    OBVIOUS
<1>5. ASSUME NEW r \in Requests, Write(r) \/ CommitUnheard(r)
      PROVE  TypeOK'
  <2>1. content' \in [Lists -> Nat] /\ writes' \in Nat
    BY <1>5 DEF Write, CommitUnheard, Change
  <2>2. /\ \E label \in {"drop", "done", "write", "undropped"} :
             pc' = [pc EXCEPT ![r] = label]
        /\ pc[r] = "write"
        /\ UNCHANGED <<cache, edit, list, seen>>
    BY <1>5 DEF Write, CommitUnheard, AfterWrite
  <2> QED
    BY <2>1, <2>2
<1>6. ASSUME NEW r \in Requests,
             \/ WriteNothing(r) \/ Refuse(r) \/ DropFails(r) \/ Crash(r)
      PROVE  TypeOK'
  <2>1. /\ \E label \in {"drop", "done", "write", "crashed", "undropped"} :
             /\ pc' = [pc EXCEPT ![r] = label]
             /\ label \in {"drop", "write"} => pc[r] \in {"drop", "write"}
        /\ UNCHANGED <<content, cache, edit, list, seen, writes>>
    BY <1>6 DEF WriteNothing, Refuse, DropFails, Crash, AfterWrite, AfterDrop
  <2> QED
    BY <2>1
<1>7. ASSUME NEW r \in Requests, Drop(r)
      PROVE  TypeOK'
  BY <1>7 DEF Drop, AfterDrop
<1>8. ASSUME NEW l \in Lists, Expire(l)
      PROVE  TypeOK'
  BY <1>8 DEF Expire
<1>9. CASE UNCHANGED vars
  BY <1>9 DEF vars
<1> QED
  BY <1>1, <1>2, <1>3, <1>4, <1>5, <1>6, <1>7, <1>8, <1>9 DEF Next

(* Every reachable state of the cached lists is well typed. *)
THEOREM TypeCorrect == Spec => []TypeOK
<1>1. Init => TypeOK
  BY DEF Init, TypeOK, Labels
<1> QED
  BY <1>1, TypeStep, PTL DEF Spec

-----------------------------------------------------------------------------
(* StaleIsDropped is inductive as it stands, given the types. *)

(* A step is one request's, or Redis's. *)
Moves(r) ==
    \/ Lookup(r) \/ LookupFails(r) \/ Query(r) \/ Fill(r)
    \/ Begin(r) \/ Write(r) \/ WriteNothing(r) \/ Refuse(r) \/ Drop(r)
    \/ DropFails(r) \/ CommitUnheard(r) \/ Crash(r)

LEMMA OthersStay ==
    ASSUME TypeOK, NEW r \in Requests, Moves(r), NEW s \in Requests \ {r}
    PROVE  pc'[s] = pc[s] /\ edit'[s] = edit[s]
<1> USE DEF TypeOK, Goto
<1>1. CASE Lookup(r) \/ LookupFails(r) \/ Query(r) \/ Fill(r)
  BY <1>1 DEF Lookup, LookupFails, Query, Fill
<1>2. CASE Begin(r) \/ Write(r) \/ WriteNothing(r) \/ Refuse(r) \/ Drop(r)
  BY <1>2 DEF Begin, Write, WriteNothing, Refuse, Drop, AfterWrite, AfterDrop
<1>3. CASE DropFails(r) \/ CommitUnheard(r) \/ Crash(r)
  BY <1>3 DEF DropFails, CommitUnheard, Crash
<1> QED
  BY <1>1, <1>2, <1>3 DEF Moves

(* Every edit writes a list whose key it would drop. *)
LEMMA DropsWhatItWrites ==
    ASSUME NEW e \in Edits
    PROVE  e.drops \in e.writes
BY DEF Edits, Edit, LabelCreate, LabelDelete, LabelUpdate,
       LabelUpdateUnnamed, LabelRestore, LabelDeleteAll, LabelCopy, ReplyCreate, ReplyUpdate,
       ReplyDelete, ReplyDeleteAll, ReplyCopy, CategoryCreate,
       CategoryDelete, CategoryUpdate, LoginFlags, PageConnect,
       PageRenewal, PageSync, PageSyncTelegram

(* How far an edit has come is never taken back. *)
LEMMA PastStays ==
    ASSUME TypeOK, NEW r \in Requests, Moves(r), Past(r)
    PROVE  Past(r)' /\ edit'[r] = edit[r] /\ (pc[r] = "undropped" => pc'[r] = "undropped")
<1> USE DEF TypeOK, Goto, Past
<1>1. CASE Lookup(r) \/ LookupFails(r) \/ Query(r) \/ Fill(r) \/ Begin(r)
  BY <1>1 DEF Lookup, LookupFails, Query, Fill, Begin
<1>2. CASE Write(r) \/ WriteNothing(r) \/ CommitUnheard(r) \/ Refuse(r)
  BY <1>2 DEF Write, WriteNothing, CommitUnheard, Refuse, AfterWrite
<1>3. CASE Drop(r)
  BY <1>3 DEF Drop, AfterDrop
<1>4. CASE DropFails(r)
  BY <1>4 DEF DropFails
<1>5. CASE Crash(r)
  BY <1>5 DEF Crash, Suspended
<1> QED
  BY <1>1, <1>2, <1>3, <1>4, <1>5 DEF Moves

(* An edit that is to drop a key drops it or breaks off. *)
LEMMA DropEnds ==
    ASSUME TypeOK, NEW r \in Requests, Moves(r),
           pc[r] = "drop", edit[r].order = "after", ~ Drop(r)
    PROVE  \/ pc'[r] = "undropped" /\ edit'[r] = edit[r]
           \/ edit[r].drops = "fanpage"
<1> USE DEF TypeOK, Goto
<1>1. DropFails(r) \/ Crash(r)
  BY DEF Moves, Lookup, LookupFails, Query, Fill, Begin, Write, WriteNothing,
         Refuse, CommitUnheard
<1> QED
  BY <1>1 DEF DropFails, Crash

(* No edit of a page drops its key after its write. *)
LEMMA PagesNeverDropped ==
    ASSUME NEW e \in Edits, e.order = "after"
    PROVE  e.drops # "fanpage"
BY DEF Edits, Edit, LabelCreate, LabelDelete, LabelUpdate,
       LabelUpdateUnnamed, LabelRestore, LabelDeleteAll, LabelCopy, ReplyCreate, ReplyUpdate,
       ReplyDelete, ReplyDeleteAll, ReplyCopy, CategoryCreate,
       CategoryDelete, CategoryUpdate, LoginFlags, PageConnect,
       PageRenewal, PageSync, PageSyncTelegram

Excused(l) == BeingDropped(l) \/ LeftBehind(l)

(* An excuse lasts until the key is dropped. *)
LEMMA ExcuseStays ==
    ASSUME TypeOK, NEW l \in Lists, Excused(l),
           NEW r \in Requests, Moves(r), ~ (Drop(r) /\ edit[r].drops = l)
    PROVE  Excused(l)'
<1>1. ASSUME NEW s \in Requests,
             pc[s] = "drop", edit[s].order = "after", edit[s].drops = l
      PROVE  Excused(l)'
  <2>1. CASE s # r
    BY <1>1, <2>1, OthersStay DEF Excused, BeingDropped
  <2>2. CASE s = r
    <3>1. edit[r] \in Workload /\ edit[r] \in Edits
      BY <1>1, <2>2, CacheAssumption DEF TypeOK
    <3>2. pc'[r] = "undropped" /\ edit'[r] = edit[r]
      BY <1>1, <2>2, <3>1, DropEnds, PagesNeverDropped
    <3>3. l \in edit[r].writes
      BY <1>1, <2>2, <3>1, DropsWhatItWrites
    <3> QED
      BY <3>1, <3>2, <3>3 DEF Excused, LeftBehind, Past
  <2> QED
    BY <2>1, <2>2
<1>2. ASSUME NEW s \in Requests, edit[s] \in Workload, l \in edit[s].writes,
             Covers(edit[s], l) => pc[s] = "undropped", Past(s)
      PROVE  Excused(l)'
  <2>1. CASE s # r
    <3>1. pc'[s] = pc[s] /\ edit'[s] = edit[s]
      BY <2>1, OthersStay
    <3>2. Past(s)'
      BY <1>2, <3>1 DEF Past
    <3> QED
      BY <1>2, <3>1, <3>2 DEF Excused, LeftBehind, Covers
  <2>2. CASE s = r
    <3>1. Past(r)' /\ edit'[r] = edit[r] /\ (pc[r] = "undropped" => pc'[r] = "undropped")
      BY <1>2, <2>2, PastStays
    <3> QED
      BY <1>2, <2>2, <3>1 DEF Excused, LeftBehind, Covers
  <2> QED
    BY <2>1, <2>2
<1> QED
  BY <1>1, <1>2 DEF Excused, BeingDropped, LeftBehind

(* A write leaves each list it changes to be dropped, or forgets it. *)
LEMMA WriteExcuses ==
    ASSUME TypeOK, NEW r \in Requests, Write(r) \/ CommitUnheard(r),
           NEW l \in edit[r].writes
    PROVE  Excused(l)'
<1> USE DEF TypeOK, Goto
<1>1. pc[r] = "write" /\ edit' = edit /\ edit[r] \in Workload
  BY DEF Write, CommitUnheard
<1>2. CASE pc'[r] = "undropped"
  BY <1>1, <1>2 DEF Excused, LeftBehind, Past
<1>3. CASE pc'[r] # "undropped"
  <2>1. Write(r) /\ AfterWrite(r)
    BY <1>3 DEF Write, CommitUnheard
  <2>2. CASE Covers(edit[r], l)
    <3>1. pc'[r] = "drop"
      BY <2>1, <2>2 DEF AfterWrite, Covers
    <3> QED
      BY <1>1, <2>2, <3>1 DEF Covers, Excused, BeingDropped
  <2>3. CASE ~ Covers(edit[r], l)
    <3>1. Past(r)'
      BY <1>1, <2>1 DEF AfterWrite, Past
    <3> QED
      BY <1>1, <2>3, <3>1 DEF Excused, LeftBehind, Covers
  <2> QED
    BY <2>2, <2>3
<1> QED
  BY <1>2, <1>3

LEMMA StaleStep ==
    ASSUME TypeOK, StaleIsDropped, [Next]_vars
    PROVE  StaleIsDropped'
<1> SUFFICES ASSUME NEW l \in Lists, Stale(l)', ~cache'[l].late
             PROVE  Excused(l)'
  BY DEF StaleIsDropped, Excused
<1>0. Stale(l) /\ ~cache[l].late => Excused(l)
  BY DEF StaleIsDropped, Excused
<1>1. ASSUME NEW r \in Requests, Moves(r),
             cache'[l] = cache[l], content'[l] = content[l],
             ~ (Drop(r) /\ edit[r].drops = l)
      PROVE  Excused(l)'
  BY <1>0, <1>1, ExcuseStays DEF Stale
<1>2. ASSUME NEW r \in Requests,
             \/ Lookup(r) \/ LookupFails(r) \/ Query(r) \/ Begin(r)
             \/ WriteNothing(r) \/ Refuse(r) \/ DropFails(r) \/ Crash(r)
      PROVE  Excused(l)'
  <2>1. UNCHANGED <<content, cache>>
    BY <1>2 DEF Lookup, LookupFails, Query, Begin, WriteNothing, Refuse, DropFails, Crash
  <2>2. CASE Drop(r) /\ edit[r].drops = l
    <3>1. cache'[l] = Absent
      BY <2>2 DEF Drop, TypeOK
    <3> QED
      BY <3>1 DEF Stale
  <2> QED
    BY <1>1, <1>2, <2>1, <2>2 DEF Moves
<1>3. ASSUME NEW r \in Requests, Fill(r)
      PROVE  Excused(l)'
  <2> USE DEF TypeOK
  <2>1. CASE l = list[r]
    <3>1. cache'[l] = [version |-> seen[r], late |-> seen[r] # content[l]]
      BY <1>3, <2>1 DEF Fill
    <3>2. cache'[l].version = seen[r] /\ cache'[l].late = (seen[r] # content[l])
      BY <3>1
    <3>3. content' = content
      BY <1>3 DEF Fill
    <3> QED
      BY <3>2, <3>3 DEF Stale
  <2>2. CASE l # list[r]
    <3>1. cache'[l] = cache[l] /\ content' = content /\ ~ Drop(r)
      BY <1>3, <2>2 DEF Fill, Drop
    <3> QED
      BY <1>1, <1>3, <3>1 DEF Moves
  <2> QED
    BY <2>1, <2>2
<1>4. ASSUME NEW r \in Requests, Write(r) \/ CommitUnheard(r)
      PROVE  Excused(l)'
  <2>1. CASE l \in edit[r].writes
    BY <1>4, <2>1, WriteExcuses
  <2>2. CASE l \notin edit[r].writes
    <3>1. content'[l] = content[l] /\ cache' = cache /\ ~ Drop(r)
      BY <1>4, <2>2 DEF Write, CommitUnheard, Change, TypeOK, Drop
    <3> QED
      BY <1>1, <1>4, <3>1 DEF Moves
  <2> QED
    BY <2>1, <2>2
<1>5. ASSUME NEW r \in Requests, Drop(r)
      PROVE  Excused(l)'
  <2>1. l # edit[r].drops /\ cache'[l] = cache[l] /\ content' = content
    BY <1>5 DEF Drop, Stale, TypeOK
  <2> QED
    BY <1>1, <1>5, <2>1 DEF Moves
<1>6. CASE UNCHANGED vars \/ \E k \in Lists : Expire(k)
  <2>1. cache'[l] = cache[l] /\ UNCHANGED <<content, pc, edit>>
    BY <1>6 DEF Expire, Stale, TypeOK, vars
  <2> QED
    BY <1>0, <2>1 DEF Stale, Excused, BeingDropped, LeftBehind, Past, Covers
<1> QED
  BY <1>2, <1>3, <1>4, <1>5, <1>6 DEF Next

(* Whatever overlaps, fails or dies, an entry that was current when it was  *)
(* stored is current, about to be dropped, or outdated by an edit that       *)
(* drops another key or none or broke off after its write: for any requests, *)
(* any workload and any number of writes.                                    *)
THEOREM EditsDropWhatTheyOutdate == Spec => []StaleIsDropped
<1>1. Init => StaleIsDropped
  BY DEF Init, StaleIsDropped, Stale
<1>2. TypeOK /\ StaleIsDropped /\ [Next]_vars => StaleIsDropped'
  BY StaleStep
<1> QED
  BY <1>1, <1>2, TypeCorrect, PTL DEF Spec
=============================================================================
