------------------------ MODULE DashboardDraftsProofs ------------------------
(***************************************************************************)
(* Theorems of DashboardDrafts, for every number of dashboards, edits,     *)
(* saves and faults: a save never covers a version its draft was not       *)
(* started from, a rename never leaves two records of one dashboard, and   *)
(* the layout solver keeps every list of widgets in the grid and without   *)
(* an overlap, and puts a moved widget where it is dropped.                *)
(*                                                                         *)
(* The argument is about references: the records that are stored, those of *)
(* the tab's list, and those a draft, a call or the handler started from.  *)
(* Two of them with one createdAt and one version have the same content,   *)
(* because a record is written with a version above that of every          *)
(* reference to its life of the dashboard.                                 *)
(*                                                                         *)
(* What the solver computes is a recursion over the rows and over the list *)
(* of widgets.  It is reasoned about with UpTo and Recursion, an induction *)
(* over the naturals that is stated of a set and needs no operator.        *)
(***************************************************************************)
EXTENDS DashboardDrafts, SequenceTheorems, FiniteSetTheorems, WellFoundedInduction, TLAPS

Refs ==
  {stored[n] : n \in Names} \cup {list[n] : n \in Names} \cup {draft.base}
  \cup {calls[i].input.base : i \in DOMAIN calls} \cup {handler.input.base}

\* Version 0 is that of what was never stored.
Live(r) == r.version >= 1

Rec(r) ==
  /\ DOMAIN r = {"version", "createdAt", "widgets"}
  /\ r.version \in Nat
  /\ r.createdAt \in Nat

StoredRec(r) == Rec(r) /\ (r # Absent => Live(r))

\* A draft or what is saved of it
From(d) ==
  /\ d.id \in Names \cup {NoId}
  /\ d.name \in Names
  /\ Rec(d.base)
  /\ d.id = NoId => d.base.version = 0

IsSeq(s) == s \in Seq({s[i] : i \in DOMAIN s})

Shape ==
  /\ DOMAIN stored = Names /\ \A n \in Names : StoredRec(stored[n])
  /\ DOMAIN list = Names /\ \A n \in Names : StoredRec(list[n])
  /\ selected \in Names \cup {NoId}
  /\ DOMAIN draft = {"id", "name", "base", "widgets", "open"} /\ From(draft)
  /\ IsSeq(calls) /\ \A i \in DOMAIN calls : From(calls[i].input)
  /\ DOMAIN handler = {"call", "pc", "input", "createdAt"}
  /\ From(handler.input)
  /\ handler.pc \in {"idle", "delete", "put"}

\* Calls are numbered in the order they wait in.
Numbered ==
  /\ mutations \in Nat
  /\ \A i \in DOMAIN calls : calls[i].call \in 1..mutations
  /\ \A i, j \in DOMAIN calls : i < j => calls[i].call < calls[j].call

\* What was created was created by a call before those that wait.
CreatedEarlier(r) ==
  /\ r.createdAt <= mutations
  /\ \A i \in DOMAIN calls : r.createdAt < calls[i].call

References ==
  /\ \A r \in Refs : Live(r) => CreatedEarlier(r)
  /\ \A r, q \in Refs :
       Live(r) /\ Live(q) /\ r.createdAt = q.createdAt /\ r.version = q.version =>
         r.widgets = q.widgets
  /\ \A r \in Refs, n \in Names :
       Live(r) /\ Present(n) /\ r.createdAt = stored[n].createdAt =>
         r.version <= stored[n].version

\* The save that is being handled writes a version above every reference.
Handling ==
  handler.pc # "idle" =>
    /\ handler.createdAt \in Nat
    /\ CreatedEarlier(handler)
    /\ \A r \in Refs : Live(r) /\ r.createdAt = handler.createdAt =>
                         r.version <= handler.input.base.version

HandledName ==
  /\ handler.pc = "delete" =>
       /\ handler.input.id \in Names
       /\ ~Present(handler.input.name)
       /\ \A n \in Names : Present(n) /\ stored[n].createdAt = handler.createdAt =>
                             n = handler.input.id
  /\ handler.pc = "put" =>
       /\ \A n \in Names : Present(n) /\ stored[n].createdAt = handler.createdAt =>
                             n = handler.input.name
       /\ Present(handler.input.name) =>
            stored[handler.input.name].version = handler.input.base.version

DraftsInv ==
  Shape /\ Numbered /\ References /\ Handling /\ HandledName /\ RenameMoves

-----------------------------------------------------------------------------
\* The queue of calls

\* A sequence over any set is one over its own elements.
LEMMA OwnElements ==
  ASSUME NEW S, NEW s \in Seq(S)
  PROVE  IsSeq(s)
<1> DEFINE T == {s[i] : i \in DOMAIN s}
<1>1. Len(s) \in Nat /\ DOMAIN s = 1..Len(s)
  OBVIOUS
<1>2. s = [i \in 1..Len(s) |-> s[i]]
  OBVIOUS
<1>3. s \in [1..Len(s) -> T]
  BY <1>1, <1>2
<1>4. s \in Seq(T)
  BY <1>1, <1>3, SeqDef
<1> QED BY <1>4 DEF IsSeq

\* A call at the end of a queue.
LEMMA Appended ==
  ASSUME NEW s, IsSeq(s), NEW e
  PROVE  /\ IsSeq(Append(s, e))
         /\ DOMAIN Append(s, e) = 1..(Len(s) + 1)
         /\ DOMAIN s = 1..Len(s)
         /\ Len(s) \in Nat
         /\ \A i \in DOMAIN s : Append(s, e)[i] = s[i]
         /\ Append(s, e)[Len(s) + 1] = e
<1> DEFINE S == {s[i] : i \in DOMAIN s}
           T == S \cup {e}
           t == Append(s, e)
<1>1. s \in Seq(S)
  BY DEF IsSeq
<1>2. s \in Seq(T)
  <2>1. \A i \in 1..Len(s) : s[i] \in T
    BY <1>1
  <2> QED BY <1>1, <2>1
<1>3. /\ t \in Seq(T) /\ Len(t) = Len(s) + 1 /\ Len(s) \in Nat
      /\ \A i \in 1..Len(s) : t[i] = s[i]
      /\ t[Len(s) + 1] = e
  BY <1>2
<1>4. DOMAIN t = 1..(Len(s) + 1) /\ DOMAIN s = 1..Len(s)
  BY <1>2, <1>3
<1>5. IsSeq(t)
  BY <1>3, OwnElements
<1> QED BY <1>3, <1>4, <1>5

\* The queue without its first call.
LEMMA Rest ==
  ASSUME NEW s, IsSeq(s), s # <<>>
  PROVE  /\ IsSeq(Tail(s))
         /\ 1 \in DOMAIN s
         /\ \A i \in DOMAIN Tail(s) :
              i \in Nat /\ i >= 1 /\ i + 1 \in DOMAIN s /\ Tail(s)[i] = s[i + 1]
<1> DEFINE S == {s[i] : i \in DOMAIN s}
           t == Tail(s)
<1>1. s \in Seq(S) /\ s # <<>>
  BY DEF IsSeq
<1>2. /\ t \in Seq(S) /\ Len(t) = Len(s) - 1 /\ Len(s) \in Nat /\ Len(s) >= 1
      /\ \A i \in 1..Len(t) : t[i] = s[i + 1]
  BY <1>1
<1>3. DOMAIN t = 1..Len(t) /\ DOMAIN s = 1..Len(s)
  BY <1>1, <1>2
<1>4. IsSeq(t)
  BY <1>2, OwnElements
<1>5. 1 \in DOMAIN s /\ \A i \in DOMAIN t : i \in Nat /\ i >= 1 /\ i + 1 \in DOMAIN s
  BY <1>2, <1>3
<1>6. \A i \in DOMAIN t : t[i] = s[i + 1]
  BY <1>2, <1>3
<1> HIDE DEF t
<1> QED BY <1>4, <1>5, <1>6 DEF t

-----------------------------------------------------------------------------
\* The invariant

\* A step that adds no reference, stores nothing and takes up no call, which all
\* but four of the steps are.
LEMMA NothingNew ==
  ASSUME DraftsInv, Shape', Numbered',
         \A r \in Refs' : Live(r) => r \in Refs,
         \A n \in Names : stored'[n] \in {stored[n], Absent},
         mutations' >= mutations,
         \A i \in DOMAIN calls' :
           \/ \E j \in DOMAIN calls : calls'[i].call = calls[j].call
           \/ calls'[i].call > mutations,
         handler' \in {handler, NoCall}
  PROVE  DraftsInv'
<1> USE DEF Live
<1>0. /\ Numbered /\ mutations \in Nat /\ mutations' \in Nat
      /\ \A i \in DOMAIN calls : calls[i].call \in Nat
      /\ \A i \in DOMAIN calls' : calls'[i].call \in Nat
  BY DEF DraftsInv, Numbered
<1>1. ASSUME NEW r, r.createdAt \in Nat, CreatedEarlier(r)
      PROVE  /\ r.createdAt <= mutations'
             /\ \A i \in DOMAIN calls' : r.createdAt < calls'[i].call
  BY <1>0, <1>1 DEF CreatedEarlier
<1>2. \A r \in Refs : Rec(r)
  BY DEF DraftsInv, Shape, Refs, From, StoredRec
<1>3. \A n \in Names :
        /\ stored'[n] # Absent => stored'[n] = stored[n] /\ Present(n)
        /\ stored[n] \in Refs /\ Rec(stored[n])
        /\ Present(n) => Live(stored[n])
  BY DEF Present, Refs, DraftsInv, Shape, StoredRec
<1>4. References'
  <2>1. ASSUME NEW r \in Refs', Live(r)
        PROVE  /\ r.createdAt <= mutations'
               /\ \A i \in DOMAIN calls' : r.createdAt < calls'[i].call
    <3>1. r \in Refs /\ r.createdAt \in Nat
      BY <1>2, <2>1 DEF Rec
    <3>2. CreatedEarlier(r)
      BY <2>1, <3>1 DEF DraftsInv, References
    <3> QED BY <1>1, <3>1, <3>2
  <2>2. ASSUME NEW r \in Refs', NEW q \in Refs', Live(r), Live(q),
               r.createdAt = q.createdAt, r.version = q.version
        PROVE  r.widgets = q.widgets
    BY <2>2 DEF DraftsInv, References
  <2>3. ASSUME NEW r \in Refs', NEW n \in Names, Live(r), stored'[n] # Absent,
               r.createdAt = stored'[n].createdAt
        PROVE  r.version <= stored'[n].version
    <3>1. stored'[n] = stored[n] /\ Present(n)
      BY <1>3, <2>3
    <3>2. r \in Refs
      BY <2>3
    <3> QED BY <2>3, <3>1, <3>2 DEF DraftsInv, References
  <2> QED BY <2>1, <2>2, <2>3 DEF References, CreatedEarlier, Present
<1>5. Handling'
  <2>1. CASE handler' = NoCall
    BY <2>1 DEF Handling, NoCall
  <2>2. CASE handler' = handler
    <3>1. SUFFICES ASSUME handler.pc # "idle" PROVE Handling'
      BY <2>2 DEF Handling
    <3>2. handler.createdAt \in Nat /\ CreatedEarlier(handler)
      BY <3>1 DEF DraftsInv, Handling
    <3>3. ASSUME NEW r \in Refs', Live(r), r.createdAt = handler.createdAt
          PROVE  r.version <= handler.input.base.version
      BY <3>1, <3>3 DEF DraftsInv, Handling
    <3> QED BY <1>1, <2>2, <3>2, <3>3 DEF Handling, CreatedEarlier
  <2> QED BY <2>1, <2>2
<1>6. HandledName'
  <2>1. CASE handler' = NoCall
    BY <2>1 DEF HandledName, NoCall
  <2>2. CASE handler' = handler
    <3>1. ASSUME handler.pc = "delete"
          PROVE  /\ handler.input.id \in Names
                 /\ stored'[handler.input.name] = Absent
                 /\ \A n \in Names : stored'[n] # Absent /\ stored'[n].createdAt = handler.createdAt =>
                                       n = handler.input.id
      BY <1>3, <2>2, <3>1 DEF DraftsInv, HandledName, Shape, From, Present
    <3>2. ASSUME handler.pc = "put"
          PROVE  /\ \A n \in Names : stored'[n] # Absent /\ stored'[n].createdAt = handler.createdAt =>
                                       n = handler.input.name
                 /\ stored'[handler.input.name] # Absent =>
                      stored'[handler.input.name].version = handler.input.base.version
      BY <1>3, <2>2, <3>2 DEF DraftsInv, HandledName, Shape, From, Present
    <3> QED BY <2>2, <3>1, <3>2 DEF HandledName, Present
  <2> QED BY <2>1, <2>2
<1>7. RenameMoves'
  BY <1>3 DEF DraftsInv, RenameMoves, Present
<1> QED BY <1>4, <1>5, <1>6, <1>7 DEF DraftsInv

LEMMA Initially == Init => DraftsInv
<1> SUFFICES ASSUME Init PROVE DraftsInv
  OBVIOUS
<1> USE DEF Absent, Closed, NoInput, NoCall
<1> DEFINE content == Compact([i \in DOMAIN FirstKinds |->
                              Widget(<<i, 0>>, FirstKinds[i], "default")], {})
<1>1. PICK first \in Names :
        stored = [n \in Names |-> IF n = first
                                  THEN [version |-> 1, createdAt |-> 0, widgets |-> content]
                                  ELSE Absent]
  BY DEF Init
<1> HIDE DEF content
<1>2. /\ list = stored /\ selected = NoId /\ draft = Closed
      /\ calls = <<>> /\ handler = NoCall /\ mutations = 0
  BY DEF Init
<1>3. \A n \in Names : /\ StoredRec(stored[n])
                       /\ Present(n) => n = first
                       /\ Live(stored[n]) => stored[n] = stored[first]
  BY <1>1 DEF StoredRec, Rec, Live, Present
<1>4. From(draft) /\ From(handler.input)
  BY <1>2, NamesAssumption DEF From, Rec
<1>5. IsSeq(calls) /\ DOMAIN calls = {}
  BY <1>2 DEF IsSeq
<1>6. Shape
  BY <1>1, <1>2, <1>3, <1>4, <1>5 DEF Shape
<1>7. \A r \in Refs : Live(r) => r = stored[first] /\ r.createdAt = 0
  BY <1>1, <1>2, <1>3, <1>5 DEF Refs, Live
<1>8. References
  BY <1>1, <1>2, <1>3, <1>5, <1>7 DEF References, CreatedEarlier
<1> QED
  BY <1>2, <1>3, <1>5, <1>6, <1>8
  DEF DraftsInv, Numbered, Handling, HandledName, RenameMoves

\* A step of the tab: the draft starts from what is a reference, or from nothing.
LEMMA TabKeeps ==
  ASSUME DraftsInv, UNCHANGED <<stored, calls, handler>>,
         list' \in {list, stored},
         selected' \in Names \cup {NoId},
         DOMAIN draft' = {"id", "name", "base", "widgets", "open"}, From(draft)',
         draft'.base \in Refs \/ draft'.base.version = 0,
         mutations' \in {mutations, mutations + 1}
  PROVE  DraftsInv'
<1>1. \A r \in Refs' : Live(r) => r \in Refs
  BY DEF Refs, Live
<1>2. Shape'
  BY DEF DraftsInv, Shape, IsSeq, From
<1>3. Numbered' /\ mutations' >= mutations
  BY DEF DraftsInv, Numbered
<1> QED BY <1>1, <1>2, <1>3, NothingNew

\* A step that removes records, calls or the call that is handled.
LEMMA RemovalKeeps ==
  ASSUME DraftsInv, UNCHANGED <<list, selected, draft, mutations>>,
         DOMAIN stored' = Names,
         \A n \in Names : stored'[n] \in {stored[n], Absent},
         calls' = calls \/ (calls # <<>> /\ calls' = Tail(calls)),
         handler' \in {handler, NoCall}
  PROVE  DraftsInv'
<1> USE DEF Absent, NoCall, NoInput
<1>0. IsSeq(calls)
  BY DEF DraftsInv, Shape
<1>1. /\ IsSeq(calls')
      /\ \A i \in DOMAIN calls' :
           \/ i \in DOMAIN calls /\ calls'[i] = calls[i]
           \/ /\ i \in Nat /\ i + 1 \in DOMAIN calls
              /\ calls' = Tail(calls) /\ calls'[i] = calls[i + 1]
  BY <1>0, Rest
<1>2. \A i \in DOMAIN calls' : \E j \in DOMAIN calls : calls'[i] = calls[j]
  BY <1>1
<1>3. \A r \in Refs' : Live(r) => r \in Refs
  BY <1>2 DEF Refs, Live
<1>4. Shape'
  <2>1. \A n \in Names : StoredRec(stored'[n])
    BY DEF DraftsInv, Shape, StoredRec, Rec
  <2>2. \A i \in DOMAIN calls' : From(calls'[i].input)
    BY <1>2 DEF DraftsInv, Shape
  <2>3. From(handler'.input) /\ handler'.pc \in {"idle", "delete", "put"}
        /\ DOMAIN handler' = {"call", "pc", "input", "createdAt"}
    BY NamesAssumption DEF DraftsInv, Shape, From, Rec
  <2> QED BY <1>1, <2>1, <2>2, <2>3 DEF DraftsInv, Shape, From, IsSeq
<1>5. Numbered'
  <2>1. CASE calls' = calls
    BY <2>1 DEF DraftsInv, Numbered
  <2>2. CASE calls # <<>> /\ calls' = Tail(calls)
    <3>1. \A i \in DOMAIN calls' : i \in Nat /\ i + 1 \in DOMAIN calls /\ calls'[i] = calls[i + 1]
      BY <1>0, <2>2, Rest
    <3>2. mutations' = mutations
      OBVIOUS
    <3>3. \A i \in DOMAIN calls' : calls'[i].call \in 1..mutations'
      BY <3>1, <3>2 DEF DraftsInv, Numbered
    <3>4. ASSUME NEW i \in DOMAIN calls', NEW j \in DOMAIN calls', i < j
          PROVE  calls'[i].call < calls'[j].call
      <4>1. i \in Nat /\ j \in Nat /\ i + 1 \in DOMAIN calls /\ j + 1 \in DOMAIN calls
            /\ i + 1 < j + 1 /\ calls'[i] = calls[i + 1] /\ calls'[j] = calls[j + 1]
        BY <3>1, <3>4
      <4>2. calls[i + 1].call < calls[j + 1].call
        BY <4>1 DEF DraftsInv, Numbered
      <4> QED BY <4>1, <4>2
    <3> QED BY <3>2, <3>3, <3>4 DEF DraftsInv, Numbered
  <2> QED BY <2>1, <2>2
<1>6. mutations' >= mutations
  BY DEF DraftsInv, Numbered
<1> QED BY <1>2, <1>3, <1>4, <1>5, <1>6, NothingNew

LEMMA SaveKeeps == DraftsInv /\ Save => DraftsInv'
<1> SUFFICES ASSUME DraftsInv, Save PROVE DraftsInv'
  OBVIOUS
<1> DEFINE new == [call |-> mutations + 1, input |-> SaveInput(draft)]
<1>1. /\ calls' = Append(calls, new) /\ mutations' = mutations + 1
      /\ UNCHANGED <<stored, list, selected, draft, handler>>
  BY DEF Save, tab
<1>2. /\ mutations \in Nat
      /\ \A i \in DOMAIN calls : calls[i].call \in 1..mutations
  BY DEF DraftsInv, Numbered
<1> HIDE DEF new
<1>3. /\ IsSeq(calls') /\ DOMAIN calls' = 1..(Len(calls) + 1)
      /\ DOMAIN calls = 1..Len(calls) /\ Len(calls) \in Nat
      /\ \A i \in DOMAIN calls : calls'[i] = calls[i]
      /\ calls'[Len(calls) + 1] = new
  BY <1>1, Appended DEF DraftsInv, Shape
<1>4. \A i \in DOMAIN calls' : i \in DOMAIN calls \/ calls'[i] = new
  BY <1>3
<1>5. new.input.base = draft.base /\ new.call = mutations + 1 /\ From(new.input)
  BY DEF new, SaveInput, DraftsInv, Shape, From
<1>6. \A r \in Refs' : Live(r) => r \in Refs
  BY <1>1, <1>3, <1>4, <1>5 DEF Refs
<1>7. Shape'
  BY <1>1, <1>3, <1>4, <1>5 DEF DraftsInv, Shape, IsSeq, From
<1>8. Numbered'
  <2>1. \A i \in DOMAIN calls' : calls'[i].call \in 1..mutations'
    BY <1>1, <1>2, <1>3, <1>4, <1>5
  <2>2. ASSUME NEW i \in DOMAIN calls', NEW j \in DOMAIN calls', i < j
        PROVE  calls'[i].call < calls'[j].call
    <3>1. i \in DOMAIN calls
      BY <1>3, <2>2
    <3>2. CASE j \in DOMAIN calls
      BY <1>3, <2>2, <3>1, <3>2 DEF DraftsInv, Numbered
    <3>3. CASE calls'[j] = new
      BY <1>2, <1>3, <1>5, <3>1, <3>3
    <3> QED BY <1>4, <3>2, <3>3
  <2> QED BY <1>1, <1>2, <2>1, <2>2 DEF Numbered
<1>9. \A i \in DOMAIN calls' :
        \/ \E j \in DOMAIN calls : calls'[i].call = calls[j].call
        \/ calls'[i].call > mutations
  BY <1>2, <1>3, <1>4, <1>5
<1> QED BY <1>1, <1>2, <1>6, <1>7, <1>8, <1>9, NothingNew

\* A save that is accepted has the version that is stored, or none.
LEMMA SaveReadsKeeps == DraftsInv /\ SaveReads => DraftsInv'
<1> SUFFICES ASSUME DraftsInv, SaveReads PROVE DraftsInv'
  OBVIOUS
<1> DEFINE input == calls[1].input
           accepted == /\ Valid(input)
                       /\ input.id # NoId => Current(input)
                       /\ SlugAvailable(input)
           new == [call |-> calls[1].call, input |-> input,
                   pc |-> IF input.id \in {NoId, input.name} THEN "put" ELSE "delete",
                   createdAt |-> IF input.id = NoId THEN calls[1].call
                                 ELSE stored[input.id].createdAt]
<1>1. /\ handler = NoCall /\ calls # <<>> /\ calls' = Tail(calls)
      /\ UNCHANGED <<stored, list, selected, draft, mutations>>
      /\ handler' = IF accepted THEN new ELSE handler
  BY DEF SaveReads, tab, counters
<1> HIDE DEF accepted, new
<1>2. CASE ~accepted
  BY <1>1, <1>2, RemovalKeeps DEF DraftsInv, Shape
<1>3. CASE accepted
  <2>1. /\ IsSeq(calls') /\ 1 \in DOMAIN calls
        /\ \A i \in DOMAIN calls' :
             i \in Nat /\ i >= 1 /\ i + 1 \in DOMAIN calls /\ calls'[i] = calls[i + 1]
    BY <1>1, Rest DEF DraftsInv, Shape
  <2>2. /\ From(input) /\ handler' = new
        /\ calls[1].call \in Nat /\ calls[1].call <= mutations /\ mutations \in Nat
        /\ \A i \in DOMAIN calls' : calls[1].call < calls'[i].call
    <3>1. From(input) /\ handler' = new
      BY <1>1, <1>3, <2>1 DEF DraftsInv, Shape
    <3>2. calls[1].call \in Nat /\ calls[1].call <= mutations /\ mutations \in Nat
      BY <2>1 DEF DraftsInv, Numbered
    <3>3. ASSUME NEW i \in DOMAIN calls' PROVE calls[1].call < calls'[i].call
      BY <2>1, <3>3 DEF DraftsInv, Numbered
    <3> QED BY <3>1, <3>2, <3>3
  <2>3. /\ new.call = calls[1].call /\ new.input = input
        /\ DOMAIN new = {"call", "pc", "input", "createdAt"}
        /\ new.pc = IF input.id \in {NoId, input.name} THEN "put" ELSE "delete"
        /\ new.createdAt = IF input.id = NoId THEN calls[1].call
                           ELSE stored[input.id].createdAt
    BY DEF new
  <2>4. /\ input.id = NoId => input.base.version = 0
        /\ input.id # NoId => /\ input.id \in Names /\ Present(input.id)
                             /\ input.base.version = stored[input.id].version
        /\ input.name # input.id => ~Present(input.name)
        /\ input.name \in Names
    BY <1>3, <2>2 DEF accepted, From, Current, SlugAvailable
  <2> HIDE DEF input
  <2>5. \A n \in Names : /\ stored[n] \in Refs /\ Rec(stored[n])
                         /\ Present(n) => Live(stored[n])
    BY DEF DraftsInv, Shape, StoredRec, Refs, Present
  <2>6. \A r \in Refs' : r \in Refs
    BY <1>1, <2>1, <2>2, <2>3 DEF Refs, input
  <2>7. \A r \in Refs : Rec(r)
    BY DEF DraftsInv, Shape, Refs, From, StoredRec
  <2>8. Shape'
    <3>1. \A i \in DOMAIN calls' : From(calls'[i].input)
      BY <2>1 DEF DraftsInv, Shape
    <3>2. /\ From(handler'.input) /\ handler'.pc \in {"idle", "delete", "put"}
          /\ DOMAIN handler' = {"call", "pc", "input", "createdAt"}
      BY <2>2, <2>3
    <3> QED BY <1>1, <2>1, <3>1, <3>2 DEF DraftsInv, Shape, From, IsSeq
  <2>9. Numbered'
    <3>1. \A i \in DOMAIN calls' : i \in Nat /\ i + 1 \in DOMAIN calls /\ calls'[i] = calls[i + 1]
      BY <2>1
    <3> QED BY <1>1, <3>1 DEF DraftsInv, Numbered
  <2>10. new.createdAt \in Nat /\ CreatedEarlier(handler)'
    <3>1. CASE input.id = NoId
      BY <1>1, <2>2, <2>3, <3>1 DEF CreatedEarlier
    <3>2. CASE input.id # NoId
      <4>1. /\ stored[input.id].createdAt \in Nat /\ CreatedEarlier(stored[input.id])
            /\ new.createdAt = stored[input.id].createdAt
        BY <2>3, <2>4, <2>5, <3>2 DEF Rec, DraftsInv, References
      <4> QED BY <1>1, <2>1, <2>2, <4>1 DEF CreatedEarlier
    <3> QED BY <3>1, <3>2
  <2>11. \A r \in Refs : Live(r) /\ r.createdAt = new.createdAt =>
                           r.version <= input.base.version
    <3>1. CASE input.id = NoId
      BY <2>1, <2>3, <2>7, <3>1 DEF DraftsInv, References, CreatedEarlier, Rec, input
    <3>2. CASE input.id # NoId
      BY <2>3, <2>4, <3>2 DEF DraftsInv, References
    <3> QED BY <3>1, <3>2
  <2>12. ASSUME NEW n \in Names, Present(n), stored[n].createdAt = new.createdAt
         PROVE  input.id # NoId /\ n = input.id
    <3>1. input.id # NoId
      BY <2>4, <2>5, <2>11, <2>12 DEF Live, Rec
    <3> QED BY <2>3, <2>4, <2>12, <3>1 DEF DraftsInv, RenameMoves
  <2>13. References'
    BY <1>1, <2>1, <2>6, <2>7 DEF DraftsInv, References, CreatedEarlier, Present, Rec
  <2>14. Handling'
    BY <2>2, <2>3, <2>6, <2>10, <2>11 DEF Handling
  <2>15. HandledName'
    <3>1. CASE input.id \in {NoId, input.name}
      BY <1>1, <2>2, <2>3, <2>4, <2>12, <3>1, NoIdAssumption DEF HandledName, Present
    <3>2. CASE input.id \notin {NoId, input.name}
      BY <1>1, <2>2, <2>3, <2>4, <2>12, <3>2 DEF HandledName, Present
    <3> QED BY <3>1, <3>2
  <2>16. RenameMoves'
    BY <1>1 DEF DraftsInv, RenameMoves, Present
  <2> QED BY <2>8, <2>9, <2>13, <2>14, <2>15, <2>16 DEF DraftsInv
<1> QED BY <1>2, <1>3

LEMMA SaveDeletesKeeps == DraftsInv /\ SaveDeletes => DraftsInv'
<1> SUFFICES ASSUME DraftsInv, SaveDeletes PROVE DraftsInv'
  OBVIOUS
<1>1. /\ handler.pc = "delete"
      /\ stored' = [stored EXCEPT ![handler.input.id] = Absent]
      /\ handler' = [handler EXCEPT !.pc = "put"]
      /\ UNCHANGED <<list, selected, draft, calls, mutations>>
  BY DEF SaveDeletes, tab, counters
<1>2. /\ handler'.pc = "put" /\ handler'.input = handler.input
      /\ handler'.createdAt = handler.createdAt
      /\ DOMAIN handler' = {"call", "pc", "input", "createdAt"}
  BY <1>1 DEF DraftsInv, Shape
<1>3. \A n \in Names : /\ stored[n] \in Refs
                       /\ n # handler.input.id => stored'[n] = stored[n]
                       /\ n = handler.input.id => stored'[n] = Absent
  BY <1>1 DEF Refs, DraftsInv, Shape
<1>4. \A r \in Refs' : Live(r) => r \in Refs
  BY <1>1, <1>2, <1>3 DEF Refs, Live, Absent
<1>5. Shape'
  <2>1. DOMAIN stored' = Names /\ \A n \in Names : StoredRec(stored'[n])
    BY <1>1, <1>3 DEF DraftsInv, Shape, StoredRec, Rec, Absent
  <2> QED BY <1>1, <1>2, <2>1 DEF DraftsInv, Shape, From, IsSeq
<1>6. Numbered'
  BY <1>1 DEF DraftsInv, Numbered
<1>7. References'
  <2>1. \A n \in Names : stored'[n] # Absent => stored'[n] = stored[n] /\ Present(n)
    BY <1>3 DEF Present
  <2> QED BY <1>1, <1>4, <2>1 DEF DraftsInv, References, CreatedEarlier, Present
<1>8. Handling'
  BY <1>1, <1>2, <1>4 DEF DraftsInv, Handling, CreatedEarlier
<1>9. HandledName'
  BY <1>1, <1>2, <1>3 DEF DraftsInv, HandledName, Present, Shape, From
<1>10. RenameMoves'
  BY <1>3 DEF DraftsInv, RenameMoves, Present
<1> QED BY <1>5, <1>6, <1>7, <1>8, <1>9, <1>10 DEF DraftsInv

\* A record that is written: its version is above that of every reference to the
\* same creation, and no other name holds that creation.
LEMMA WriteKeeps ==
  ASSUME DraftsInv, NEW n \in Names, NEW new, StoredRec(new), Live(new),
         stored' = [stored EXCEPT ![n] = new],
         CreatedEarlier(new),
         \A r \in Refs : Live(r) /\ r.createdAt = new.createdAt => r.version < new.version,
         \A m \in Names : Present(m) /\ stored[m].createdAt = new.createdAt => m = n,
         handler' = NoCall,
         UNCHANGED <<list, selected, draft, calls, mutations>>
  PROVE  DraftsInv'
<1>1. \A m \in Names : stored'[m] = IF m = n THEN new ELSE stored[m]
  BY DEF DraftsInv, Shape
<1>2. \A m \in Names : stored[m] \in Refs
  BY DEF Refs
<1>3. \A r \in Refs' : Live(r) => r \in Refs \/ r = new
  BY <1>1 DEF Refs, Live, NoCall, NoInput, Absent
<1>4. Rec(new) /\ \A r \in Refs : Rec(r)
  BY DEF DraftsInv, Shape, Refs, From, StoredRec
<1>5. Shape'
  <2>1. DOMAIN stored' = Names /\ \A m \in Names : StoredRec(stored'[m])
    BY <1>1 DEF DraftsInv, Shape
  <2>2. /\ DOMAIN handler' = {"call", "pc", "input", "createdAt"}
        /\ From(handler'.input) /\ handler'.pc = "idle"
    BY NamesAssumption DEF NoCall, NoInput, From, Rec, Absent
  <2> QED BY <2>1, <2>2 DEF DraftsInv, Shape, From, IsSeq
<1>6. Numbered'
  BY DEF DraftsInv, Numbered
<1>7. References'
  <2>1. \A r \in Refs' : Live(r) => CreatedEarlier(r)
    BY <1>3 DEF DraftsInv, References
  <2>2. ASSUME NEW r \in Refs', NEW q \in Refs', Live(r), Live(q),
               r.createdAt = q.createdAt, r.version = q.version
        PROVE  r.widgets = q.widgets
    BY <1>3, <1>4, <2>2 DEF DraftsInv, References, Rec
  <2>3. ASSUME NEW r \in Refs', NEW m \in Names, Live(r), stored'[m] # Absent,
               r.createdAt = stored'[m].createdAt
        PROVE  r.version <= stored'[m].version
    <3>1. CASE m = n
      BY <1>1, <1>3, <1>4, <2>3, <3>1 DEF Rec
    <3>2. CASE m # n
      <4>1. stored'[m] = stored[m] /\ Present(m) /\ r # new
        BY <1>1, <2>3, <3>2 DEF Present
      <4> QED BY <1>3, <2>3, <4>1 DEF DraftsInv, References
    <3> QED BY <3>1, <3>2
  <2> QED BY <2>1, <2>2, <2>3 DEF References, CreatedEarlier, Present
<1>8. Handling' /\ HandledName'
  BY DEF Handling, HandledName, NoCall
<1>9. RenameMoves'
  BY <1>1 DEF DraftsInv, RenameMoves, Present
<1> QED BY <1>5, <1>6, <1>7, <1>8, <1>9 DEF DraftsInv

LEMMA SavePutsKeeps == DraftsInv /\ SavePuts => DraftsInv'
<1> SUFFICES ASSUME DraftsInv, SavePuts PROVE DraftsInv'
  OBVIOUS
<1> DEFINE new == [version |-> handler.input.base.version + 1,
                   createdAt |-> handler.createdAt,
                   widgets |-> handler.input.widgets]
<1>1. /\ handler.pc = "put" /\ handler' = NoCall
      /\ stored' = [stored EXCEPT ![handler.input.name] = new]
      /\ UNCHANGED <<list, selected, draft, calls, mutations>>
  BY DEF SavePuts, tab, counters
<1>2. /\ handler.createdAt \in Nat /\ CreatedEarlier(handler)
      /\ handler.input.base.version \in Nat /\ handler.input.name \in Names
  BY <1>1 DEF DraftsInv, Handling, Shape, From, Rec
<1>3. StoredRec(new) /\ Live(new) /\ CreatedEarlier(new)
  BY <1>2 DEF StoredRec, Rec, Live, CreatedEarlier
<1>4. \A r \in Refs : Rec(r)
  BY DEF DraftsInv, Shape, Refs, From, StoredRec
<1>5. \A r \in Refs : Live(r) /\ r.createdAt = new.createdAt => r.version < new.version
  BY <1>1, <1>2, <1>4 DEF DraftsInv, Handling, Rec
<1>6. \A m \in Names : Present(m) /\ stored[m].createdAt = new.createdAt =>
                       m = handler.input.name
  BY <1>1 DEF DraftsInv, HandledName
<1> HIDE DEF new
<1> QED BY <1>1, <1>2, <1>3, <1>5, <1>6, WriteKeeps

LEMMA OtherSavesKeeps == \A n \in Names : DraftsInv /\ OtherSaves(n) => DraftsInv'
<1> SUFFICES ASSUME NEW n \in Names, DraftsInv, OtherSaves(n) PROVE DraftsInv'
  OBVIOUS
<1> DEFINE new == [version |-> stored[n].version + 1,
                   createdAt |-> stored[n].createdAt,
                   widgets |-> [i \in DOMAIN stored[n].widgets |->
                                  [stored[n].widgets[i] EXCEPT !.mark = "foreign"]]]
<1>1. /\ handler' = NoCall /\ Present(n)
      /\ stored' = [stored EXCEPT ![n] = new]
      /\ UNCHANGED <<list, selected, draft, calls, mutations>>
  BY DEF OtherSaves, tab, control
<1>2. Rec(stored[n]) /\ Live(stored[n]) /\ stored[n] \in Refs
  BY <1>1 DEF DraftsInv, Shape, StoredRec, Present, Refs
<1>3. /\ DOMAIN new = {"version", "createdAt", "widgets"}
      /\ new.version = stored[n].version + 1 /\ new.createdAt = stored[n].createdAt
  OBVIOUS
<1> HIDE DEF new
<1>4. StoredRec(new) /\ Live(new) /\ CreatedEarlier(new)
  BY <1>2, <1>3 DEF StoredRec, Rec, Live, CreatedEarlier, DraftsInv, References
<1>5. \A r \in Refs : Rec(r)
  BY DEF DraftsInv, Shape, Refs, From, StoredRec
<1>6. \A r \in Refs : Live(r) /\ r.createdAt = new.createdAt => r.version < new.version
  <2>1. ASSUME NEW r \in Refs, Live(r), r.createdAt = stored[n].createdAt
        PROVE  r.version <= stored[n].version
    BY <1>1, <2>1 DEF DraftsInv, References
  <2> QED BY <1>2, <1>3, <1>5, <2>1 DEF Rec
<1>7. \A m \in Names : Present(m) /\ stored[m].createdAt = new.createdAt => m = n
  BY <1>1, <1>3 DEF DraftsInv, RenameMoves
<1> QED BY <1>1, <1>3, <1>4, <1>6, <1>7, WriteKeeps

-----------------------------------------------------------------------------
\* The theorems

LEMMA NextKeeps == DraftsInv /\ [Next]_vars => DraftsInv'
<1> SUFFICES ASSUME DraftsInv, [Next]_vars PROVE DraftsInv'
  OBVIOUS
<1> USE DEF tab, control, counters, server
<1>1. /\ selected \in Names \cup {NoId} /\ From(draft) /\ draft.base \in Refs
      /\ DOMAIN draft = {"id", "name", "base", "widgets", "open"}
      /\ DOMAIN stored = Names
      /\ \A n \in Names : list[n] \in Refs /\ Rec(list[n])
  BY DEF DraftsInv, Shape, Refs, StoredRec
<1>2. From(Closed) /\ Closed.base.version = 0
      /\ DOMAIN Closed = {"id", "name", "base", "widgets", "open"}
  BY NamesAssumption DEF Closed, Absent, From, Rec
<1>3. ASSUME NEW widgets, Edit(widgets) PROVE DraftsInv'
  <2>1. /\ draft'.base = draft.base /\ From(draft)'
        /\ DOMAIN draft' = {"id", "name", "base", "widgets", "open"}
    BY <1>1, <1>3 DEF Edit, From
  <2> QED BY <1>1, <1>3, <2>1, TabKeeps DEF Edit
<1>4. CASE EditStep
  <2>1. ASSUME NEW n \in Names, Rename(n) PROVE DraftsInv'
    <3>1. /\ draft'.base = draft.base /\ From(draft)'
          /\ DOMAIN draft' = {"id", "name", "base", "widgets", "open"}
      BY <1>1, <2>1 DEF Rename, From
    <3> QED BY <1>1, <2>1, <3>1, TabKeeps DEF Rename
  <2> QED BY <1>3, <1>4, <2>1
       DEF EditStep, AddWidget, DuplicateWidget, RemoveWidget, UpdateWidget,
           MoveWidget, ResizeWidget
<1>5. ASSUME NEW n \in Names, OpenDashboard(n) PROVE DraftsInv'
  BY <1>1, <1>5, TabKeeps DEF OpenDashboard, From
<1>6. CASE CreateDashboard
  <2>1. /\ draft' = [id |-> NoId, name |-> NewName, base |-> Absent,
                     widgets |-> <<>>, open |-> TRUE]
    BY <1>6 DEF CreateDashboard, StartDraft, Absent
  <2>2. /\ From(draft)' /\ draft'.base.version = 0
        /\ DOMAIN draft' = {"id", "name", "base", "widgets", "open"}
    BY <2>1, NamesAssumption DEF From, Absent, Rec
  <2> QED BY <1>6, <2>2, TabKeeps DEF CreateDashboard
<1>7. CASE EnterEditMode
  <2>1. selected \in Names /\ Selected = list[selected] /\ selected # NoId
    BY <1>1, <1>7 DEF EnterEditMode, Selected
  <2>2. draft' = [id |-> selected, name |-> selected, base |-> list[selected],
                  widgets |-> list[selected].widgets, open |-> TRUE]
    BY <1>7, <2>1 DEF EnterEditMode, StartDraft
  <2>3. /\ From(draft)' /\ draft'.base \in Refs
        /\ DOMAIN draft' = {"id", "name", "base", "widgets", "open"}
    BY <1>1, <2>1, <2>2 DEF From
  <2> QED BY <1>1, <1>7, <2>3, TabKeeps DEF EnterEditMode
<1>8. CASE DuplicateDashboard
  <2>1. PICK copy \in Names :
          draft' = StartDraft(NoId, copy, [Absent EXCEPT !.widgets = Selected.widgets])
    BY <1>8 DEF DuplicateDashboard
  <2>2. /\ From(draft)' /\ draft'.base.version = 0
        /\ DOMAIN draft' = {"id", "name", "base", "widgets", "open"}
    BY <2>1 DEF StartDraft, Absent, From, Rec
  <2> QED BY <1>1, <1>8, <2>2, TabKeeps DEF DuplicateDashboard
<1>9. CASE DiscardChanges
  <2>1. From(draft)'
    BY <1>2, <1>9 DEF DiscardChanges, From
  <2> QED BY <1>1, <1>2, <1>9, <2>1, TabKeeps DEF DiscardChanges
<1>10. CASE SaveSucceeds
  <2>1. From(draft)'
    BY <1>2, <1>10 DEF SaveSucceeds, From
  <2> QED BY <1>1, <1>2, <1>10, <2>1, TabKeeps DEF SaveSucceeds
<1>11. CASE SaveFails
  <2>1. From(draft)'
    BY <1>1, <1>11 DEF SaveFails, From
  <2> QED BY <1>1, <1>11, <2>1, TabKeeps DEF SaveFails
<1>12. CASE DeleteSelected
  <2>1. From(draft)'
    BY <1>1, <1>12 DEF DeleteSelected, From
  <2> QED BY <1>1, <1>12, <2>1, TabKeeps DEF DeleteSelected
<1>13. CASE DeleteSucceeds
  <2>1. From(draft)'
    BY <1>2, <1>13 DEF DeleteSucceeds, From
  <2> QED BY <1>2, <1>13, <2>1, TabKeeps DEF DeleteSucceeds
<1>14. CASE Refetch
  <2>1. From(draft)'
    BY <1>1, <1>14 DEF Refetch, From
  <2> QED BY <1>1, <1>14, <2>1, TabKeeps DEF Refetch
<1>15. ASSUME NEW n \in Names, DeleteHandled(n) PROVE DraftsInv'
  <2>1. /\ UNCHANGED <<list, selected, draft, mutations>>
        /\ calls' = calls \/ (calls # <<>> /\ calls' = Tail(calls))
        /\ DOMAIN stored' = Names
        /\ \A m \in Names : stored'[m] \in {stored[m], Absent}
        /\ handler' \in {handler, NoCall}
    BY <1>1, <1>15 DEF DeleteHandled
  <2> QED BY <2>1, RemovalKeeps
<1>16. ASSUME NEW n \in Names, OtherDeletes(n) PROVE DraftsInv'
  <2>1. /\ UNCHANGED <<list, selected, draft, mutations>>
        /\ calls' = calls \/ (calls # <<>> /\ calls' = Tail(calls))
        /\ DOMAIN stored' = Names
        /\ \A m \in Names : stored'[m] \in {stored[m], Absent}
        /\ handler' \in {handler, NoCall}
    BY <1>1, <1>16 DEF OtherDeletes
  <2> QED BY <2>1, RemovalKeeps
<1>17. CASE SaveTimesOut
  <2>1. From(draft)'
    BY <1>1, <1>17 DEF SaveTimesOut, From
  <2> QED BY <1>1, <1>17, <2>1, TabKeeps DEF SaveTimesOut
<1>18. CASE SaveBreaks
  <2>1. /\ UNCHANGED <<list, selected, draft, mutations>>
        /\ calls' = calls \/ (calls # <<>> /\ calls' = Tail(calls))
        /\ DOMAIN stored' = Names
        /\ \A m \in Names : stored'[m] \in {stored[m], Absent}
        /\ handler' \in {handler, NoCall}
    BY <1>1, <1>18 DEF SaveBreaks
  <2> QED BY <2>1, RemovalKeeps
<1>19. CASE UNCHANGED vars
  <2>1. From(draft)'
    BY <1>1, <1>19 DEF vars, From
  <2> QED BY <1>1, <1>19, <2>1, TabKeeps DEF vars
<1> QED
  BY <1>4, <1>5, <1>6, <1>7, <1>8, <1>9, <1>10, <1>11, <1>12, <1>13, <1>14, <1>15,
     <1>16, <1>17, <1>18, <1>19, SaveKeeps, SaveReadsKeeps, SaveDeletesKeeps,
     SavePutsKeeps, OtherSavesKeeps
  DEF Next, TabStep

\* The invariant of references holds in every reachable state.
THEOREM InvariantHolds == Spec => []DraftsInv
<1> QED BY Initially, NextKeeps, PTL DEF Spec

\* No two names ever hold records of one creation: a rename moves a dashboard.
THEOREM RenameMovesAlways == Spec => []RenameMoves
<1>1. DraftsInv => RenameMoves
  BY DEF DraftsInv
<1> QED BY <1>1, InvariantHolds, PTL

\* Within one life of a dashboard a save replaces only the content its draft was
\* started from, whatever comes late, is refused, deleted or closed in between.
THEOREM NoLostUpdateAlways == Spec => NoLostUpdate
<1> DEFINE n == handler.input.name
           base == handler.input.base
           Kept == SavePuts /\ Present(n) /\ stored[n].createdAt = base.createdAt =>
                     stored[n].widgets = base.widgets
<1>1. DraftsInv => Kept
  <2> SUFFICES ASSUME DraftsInv, SavePuts, Present(n),
                      stored[n].createdAt = base.createdAt
               PROVE  stored[n].widgets = base.widgets
    OBVIOUS
  <2>1. handler.pc = "put" /\ n \in Names
    BY DEF SavePuts, DraftsInv, Shape, From
  <2>2. stored[n] \in Refs /\ base \in Refs /\ Live(stored[n])
    BY <2>1 DEF Refs, DraftsInv, Shape, StoredRec, Present
  <2>3. stored[n].version = base.version
    BY <2>1 DEF DraftsInv, HandledName
  <2> QED BY <2>2, <2>3 DEF DraftsInv, References, Live
<1>2. DraftsInv => [Kept]_vars
  BY <1>1
<1>3. [][Kept]_vars <=> NoLostUpdate
  BY DEF NoLostUpdate
<1> HIDE DEF Kept
<1> QED BY <1>2, <1>3, InvariantHolds, PTL
-----------------------------------------------------------------------------
\* The layout solver: what TLC checks with a few steps of a move holds for all
\* integers, however far a pointer is dragged.

\* Whatever the coordinates, a normalized layout lies in the grid, and its width
\* and height are at least its minimum ones.
THEOREM NormalizedInGrid ==
  ASSUME NEW layout \in Layouts
  PROVE  Normalize(layout) \in Layouts /\ InGrid(Normalize(layout))
<1> DEFINE minW == Clamp(layout.minW, 1, Columns)
           minH == Clamp(layout.minH, 1, MaxHeight)
           w == Clamp(layout.w, minW, Columns)
           h == Clamp(layout.h, minH, MaxHeight)
           x == Clamp(layout.x, 0, Columns - w)
           y == Larger(0, layout.y)
<1>1. /\ layout.x \in Int /\ layout.y \in Int /\ layout.w \in Int
      /\ layout.h \in Int /\ layout.minW \in Int /\ layout.minH \in Int
  BY DEF Layouts
<1>2. minW \in 1..12 /\ minH \in 1..12
  BY <1>1 DEF Columns, MaxHeight, Clamp, Smaller, Larger
<1> HIDE DEF minW, minH
<1>3. w \in minW..12 /\ h \in minH..12
  BY <1>1, <1>2 DEF Columns, MaxHeight, Clamp, Smaller, Larger
<1> HIDE DEF w, h
<1>4. x \in 0..(12 - w) /\ y \in Nat
  BY <1>1, <1>2, <1>3 DEF Columns, Clamp, Smaller, Larger
<1> HIDE DEF x, y
<1>5. Normalize(layout) = [x |-> x, y |-> y, w |-> w, h |-> h, minW |-> minW, minH |-> minH]
  BY DEF Normalize, x, y, w, h, minW, minH
<1> QED BY <1>2, <1>3, <1>4, <1>5 DEF Layouts, InGrid, Columns, MaxHeight

\* A layout in the grid is left as it is, so to normalize once more, as the solver
\* does at every comparison, changes nothing.
THEOREM NormalizedStays ==
  ASSUME NEW layout \in Layouts
  PROVE  /\ InGrid(layout) => Normalize(layout) = layout
         /\ Normalize(Normalize(layout)) = Normalize(layout)
<1>1. ASSUME NEW l \in Layouts, InGrid(l) PROVE Normalize(l) = l
  <2>1. /\ l.x \in Int /\ l.y \in Int /\ l.w \in Int
        /\ l.h \in Int /\ l.minW \in Int /\ l.minH \in Int
        /\ l = [x |-> l.x, y |-> l.y, w |-> l.w, h |-> l.h, minW |-> l.minW, minH |-> l.minH]
    BY DEF Layouts
  <2>2. /\ l.x >= 0 /\ l.y >= 0 /\ l.minW >= 1 /\ l.minW <= l.w
        /\ l.minH >= 1 /\ l.minH <= l.h /\ l.x + l.w <= 12 /\ l.h <= 12
    BY <1>1, <2>1 DEF InGrid, Columns, MaxHeight
  <2>3. Clamp(l.minW, 1, Columns) = l.minW /\ Clamp(l.minH, 1, MaxHeight) = l.minH
    BY <2>1, <2>2 DEF Columns, MaxHeight, Clamp, Smaller, Larger
  <2>4. Clamp(l.w, l.minW, Columns) = l.w /\ Clamp(l.h, l.minH, MaxHeight) = l.h
    BY <2>1, <2>2 DEF Columns, MaxHeight, Clamp, Smaller, Larger
  <2>5. Clamp(l.x, 0, Columns - l.w) = l.x /\ Larger(0, l.y) = l.y
    BY <2>1, <2>2 DEF Columns, Clamp, Smaller, Larger
  <2> QED BY <2>1, <2>3, <2>4, <2>5 DEF Normalize
<1> QED BY <1>1, NormalizedInGrid

\* The loop that settles a widget ends: a blocker pushes it down by at least a row,
\* and never blocks it again, however far others push it from there.
THEOREM BlockedOnce ==
  ASSUME NEW left \in Layouts, NEW right \in Layouts
  PROVE  /\ Overlap(left, right) <=> Overlap(right, left)
         /\ Overlap(left, right) => right.y + right.h > left.y
         /\ \A y \in Int : y >= right.y + right.h => ~Overlap([left EXCEPT !.y = y], right)
<1>1. Overlap(left, right) <=> Overlap(right, left)
  BY DEF Overlap, Layouts
<1>2. Overlap(left, right) => right.y + right.h > left.y
  BY DEF Overlap, Layouts
<1>3. ASSUME NEW y \in Int, y >= right.y + right.h
      PROVE  ~Overlap([left EXCEPT !.y = y], right)
  <2>1. [left EXCEPT !.y = y].y = y /\ right.y \in Int /\ right.h \in Int
    BY DEF Layouts
  <2> QED BY <1>3, <2>1 DEF Overlap
<1> QED BY <1>1, <1>2, <1>3

\* Every kind of widget starts inside the grid in every slot, so normalizing its
\* default layout moves it nowhere.
THEOREM DefaultsInGrid ==
  ASSUME NEW kind \in DOMAIN DefaultSize, NEW slot \in Int
  PROVE  DefaultLayout(kind, slot) \in Layouts /\ InGrid(DefaultLayout(kind, slot))
<1> DEFINE size == DefaultSize[kind]
           columnSlots == Larger(1, Columns \div size.w)
           slotIndex == Larger(0, slot - 1)
           layout == [x |-> (slotIndex % columnSlots) * size.w,
                      y |-> (slotIndex \div columnSlots) * size.h,
                      w |-> size.w, h |-> size.h, minW |-> size.minW, minH |-> size.minH]
<1>1. size.w \in {3, 4, 6, 8} /\ size.h \in Nat /\ size.minW \in Nat /\ size.minH \in Nat
  BY DEF DefaultSize, Size
<1>2. columnSlots \in {1, 2, 3, 4}
  BY <1>1 DEF Columns, Larger
<1>3. slotIndex \in Nat
  BY DEF Larger
<1> HIDE DEF size, columnSlots, slotIndex
<1>4. slotIndex % columnSlots \in Int /\ slotIndex \div columnSlots \in Int
  BY <1>2, <1>3
<1>5. (slotIndex % columnSlots) * size.w \in Int /\ (slotIndex \div columnSlots) * size.h \in Int
  BY <1>1, <1>4
<1>6. layout \in Layouts
  BY <1>1, <1>5 DEF Layouts
<1> HIDE DEF layout
<1>7. DefaultLayout(kind, slot) = Normalize(layout)
  BY DEF DefaultLayout, layout, size, columnSlots, slotIndex
<1> QED BY <1>6, <1>7, NormalizedInGrid

-----------------------------------------------------------------------------
\* Numbers: induction and recursion

\* Every nonempty set of naturals has a least element.
LEMMA Least ==
  ASSUME NEW S \in SUBSET Nat, S # {}
  PROVE  \E x \in S : \A y \in S : x <= y
<1> DEFINE R == OpToRel(<, Nat)
<1>1. IsWellFoundedOn(R, Nat)
  BY NatLessThanWellFounded
<1>2. \A x, y \in Nat : x < y => <<x, y>> \in R
  BY DEF OpToRel
<1> HIDE DEF R
<1>3. PICK x \in S : \A y \in S : ~(<<y, x>> \in R)
  BY <1>1, WFMin
<1>4. ASSUME NEW y \in S PROVE x <= y
  <2>1. x \in Nat /\ y \in Nat
    OBVIOUS
  <2>2. ~(y < x)
    BY <1>2, <1>3, <2>1
  <2> QED BY <2>1, <2>2
<1> QED BY <1>4

\* What holds of 0 and passes from each number to the next holds up to n.
LEMMA UpTo ==
  ASSUME NEW n \in Nat, NEW P, 0 \in P,
         \A i \in 1..n : i - 1 \in P => i \in P
  PROVE  \A i \in 0..n : i \in P
<1> SUFFICES ASSUME NEW j \in 0..n, j \notin P PROVE FALSE
  OBVIOUS
<1> DEFINE Bad == {i \in 0..n : i \notin P}
<1>1. Bad \in SUBSET Nat /\ Bad # {}
  OBVIOUS
<1> HIDE DEF Bad
<1>2. PICK i \in Bad : \A k \in Bad : i <= k
  BY <1>1, Least
<1>3. i \in 0..n /\ i \notin P
  BY DEF Bad
<1>4. i # 0 /\ i - 1 \in 0..n /\ i \in 1..n
  BY <1>3
<1>5. i - 1 \notin Bad
  BY <1>2, <1>4
<1> QED BY <1>3, <1>4, <1>5 DEF Bad

Recurses(n, S, first, next) ==
  n \in Nat /\ first \in S /\ next \in [(1..n) \X S -> S]

\* Over the numbers to n a function is defined by recursion.
LEMMA Recursion ==
  ASSUME NEW n, NEW S, NEW first, NEW next, Recurses(n, S, first, next)
  PROVE  \E f \in [0..n -> S] :
           f[0] = first /\ \A i \in 1..n : f[i] = next[<<i, f[i - 1]>>]
<1> USE DEF Recurses
<1> DEFINE Good(m) == \E f \in [0..m -> S] :
                        f[0] = first /\ \A i \in 1..m : f[i] = next[<<i, f[i - 1]>>]
           P == {m \in 0..n : Good(m)}
<1>1. 0 \in P
  <2> DEFINE f == [i \in 0..0 |-> first]
  <2>1. f \in [0..0 -> S] /\ f[0] = first /\ \A i \in 1..0 : FALSE
    OBVIOUS
  <2> HIDE DEF f
  <2>2. Good(0)
    BY <2>1
  <2> QED BY <2>2
<1>2. ASSUME NEW m \in 1..n, m - 1 \in P PROVE m \in P
  <2>1. PICK f \in [0..(m - 1) -> S] :
          f[0] = first /\ \A i \in 1..(m - 1) : f[i] = next[<<i, f[i - 1]>>]
    BY <1>2
  <2> DEFINE g == [i \in 0..m |-> IF i = m THEN next[<<m, f[m - 1]>>] ELSE f[i]]
  <2>2. next[<<m, f[m - 1]>>] \in S
    BY <2>1
  <2>3. g \in [0..m -> S]
    BY <2>1, <2>2
  <2>4. \A i \in 0..(m - 1) : g[i] = f[i]
    OBVIOUS
  <2>5. g[m] = next[<<m, g[m - 1]>>]
    <3>1. m - 1 \in 0..(m - 1) /\ m \in 0..m
      OBVIOUS
    <3>2. g[m - 1] = f[m - 1]
      BY <2>4, <3>1
    <3>3. g[m] = next[<<m, f[m - 1]>>]
      BY <3>1
    <3> QED BY <3>2, <3>3
  <2>6. g[0] = first
    BY <2>1, <2>4
  <2>7. ASSUME NEW i \in 1..m PROVE g[i] = next[<<i, g[i - 1]>>]
    <3>1. CASE i = m
      BY <3>1, <2>5
    <3>2. CASE i # m
      <4>1. i \in 1..(m - 1) /\ i \in 0..(m - 1) /\ i - 1 \in 0..(m - 1)
        BY <3>2
      <4>2. g[i] = f[i] /\ g[i - 1] = f[i - 1]
        BY <2>4, <4>1
      <4>3. f[i] = next[<<i, f[i - 1]>>]
        BY <2>1, <4>1
      <4> HIDE DEF g
      <4> QED BY <4>2, <4>3
    <3> QED BY <3>1, <3>2
  <2> HIDE DEF g
  <2> QED BY <2>3, <2>6, <2>7
<1> HIDE DEF P
<1>3. n \in P
  BY <1>1, <1>2, UpTo
<1> QED BY <1>3 DEF P

-----------------------------------------------------------------------------
\* Sorting and selecting

\* In a finite set in which each two elements are ordered, below[i] being what
\* comes no later than i, each rank is that of exactly one element.
LEMMA Ranked ==
  ASSUME NEW S, IsFiniteSet(S), NEW below \in [S -> SUBSET S],
         \A i \in S : i \in below[i],
         \A i, j \in S : i \in below[j] \/ j \in below[i],
         \A i, j \in S : i # j /\ i \in below[j] =>
                           below[i] \subseteq below[j] /\ j \notin below[i]
  PROVE  /\ Cardinality(S) \in Nat
         /\ \A i \in S : Cardinality(below[i]) \in 1..Cardinality(S)
         /\ \A i, j \in S : Cardinality(below[i]) < Cardinality(below[j])
                              <=> i \in below[j] /\ i # j
         /\ \A k \in 1..Cardinality(S) : \E i \in S : Cardinality(below[i]) = k
<1> DEFINE rank == [i \in S |-> Cardinality(below[i])]
           m == Cardinality(S)
<1>1. m \in Nat
  BY FS_CardinalityType
<1>2. \A i \in S : IsFiniteSet(below[i]) /\ Cardinality(below[i]) \in Nat
                   /\ Cardinality(below[i]) <= m
  BY FS_Subset, FS_CardinalityType
<1>3. \A i \in S : Cardinality(below[i]) # 0
  BY <1>2, FS_EmptySet
<1>4. \A i \in S : Cardinality(below[i]) \in 1..m
  BY <1>1, <1>2, <1>3
<1>5. ASSUME NEW i \in S, NEW j \in S, i # j, i \in below[j]
      PROVE  Cardinality(below[i]) < Cardinality(below[j])
  <2>1. below[i] \in SUBSET below[j] /\ below[i] # below[j]
    BY <1>5
  <2>2. /\ Cardinality(below[i]) <= Cardinality(below[j])
        /\ Cardinality(below[i]) # Cardinality(below[j])
    BY <1>2, <2>1, FS_Subset
  <2> QED BY <1>2, <2>2
<1>6. \A i, j \in S : Cardinality(below[i]) < Cardinality(below[j])
                        <=> i \in below[j] /\ i # j
  BY <1>2, <1>5
<1>7. \A i, j \in S : Cardinality(below[i]) = Cardinality(below[j]) => i = j
  BY <1>2, <1>5
<1>8. rank \in Injection(S, 1..m)
  BY <1>4, <1>7 DEF Injection, IsInjective
<1>9. IsFiniteSet(1..m) /\ Cardinality(1..m) = m
  BY <1>1, FS_Interval
<1>10. rank \in Surjection(S, 1..m)
  BY <1>8, <1>9, FS_Injection
<1>11. \A k \in 1..m : \E i \in S : rank[i] = k
  BY <1>10 DEF Surjection
<1> QED BY <1>1, <1>4, <1>6, <1>11

\* What is ordered by rank is in order, and nothing is left out.
LEMMA Arranged ==
  ASSUME NEW S, IsFiniteSet(S), NEW below \in [S -> SUBSET S],
         \A i \in S : i \in below[i],
         \A i, j \in S : i \in below[j] \/ j \in below[i],
         \A i, j \in S : i # j /\ i \in below[j] =>
                           below[i] \subseteq below[j] /\ j \notin below[i],
         NEW order,
         \A k \in 1..Cardinality(S) :
           order[k] = CHOOSE i \in S : Cardinality(below[i]) = k
  PROVE  /\ Cardinality(S) \in Nat
         /\ \A k \in 1..Cardinality(S) : order[k] \in S
         /\ \A k, l \in 1..Cardinality(S) :
              k < l => order[k] \in below[order[l]] /\ order[k] # order[l]
         /\ \A i \in S : \E k \in 1..Cardinality(S) : order[k] = i
<1>1. /\ Cardinality(S) \in Nat
      /\ \A i \in S : Cardinality(below[i]) \in 1..Cardinality(S)
      /\ \A i, j \in S : Cardinality(below[i]) < Cardinality(below[j])
                           <=> i \in below[j] /\ i # j
      /\ \A k \in 1..Cardinality(S) : \E i \in S : Cardinality(below[i]) = k
  BY Ranked
<1>2. \A k \in 1..Cardinality(S) : order[k] \in S /\ Cardinality(below[order[k]]) = k
  BY <1>1
<1>3. \A k, l \in 1..Cardinality(S) :
        k < l => order[k] \in below[order[l]] /\ order[k] # order[l]
  BY <1>1, <1>2
<1>4. ASSUME NEW i \in S PROVE \E k \in 1..Cardinality(S) : order[k] = i
  <2> DEFINE k == Cardinality(below[i])
  <2>1. k \in 1..Cardinality(S)
    BY <1>1
  <2>2. order[k] \in S /\ Cardinality(below[order[k]]) = k
    BY <1>2, <2>1
  <2>3. order[k] = i
    <3>1. ~(Cardinality(below[i]) < Cardinality(below[order[k]]))
          /\ ~(Cardinality(below[order[k]]) < Cardinality(below[i]))
      BY <2>1, <2>2
    <3> HIDE DEF k
    <3> QED BY <1>1, <2>2, <3>1
  <2> HIDE DEF k
  <2> QED BY <2>1, <2>3
<1> QED BY <1>1, <1>2, <1>3, <1>4

\* A sequence made of elements of another.
Picks(out, of, order) ==
  /\ \A k \in DOMAIN out : order[k] \in DOMAIN of /\ out[k] = of[order[k]]
  /\ \A k, l \in DOMAIN out : order[k] = order[l] => k = l

\* Without takes the widgets of other ids, all of them, in their order.
LEMMA WithoutPicks ==
  ASSUME NEW W, NEW ws \in Seq(W), NEW some
  PROVE  /\ Without(ws, some) \in Seq(W)
         /\ Len(Without(ws, some)) <= Len(ws)
         /\ \E order :
              /\ Picks(Without(ws, some), ws, order)
              /\ \A k \in DOMAIN Without(ws, some) : ws[order[k]].id \notin some
              /\ \A k, l \in DOMAIN Without(ws, some) : k < l => order[k] < order[l]
              /\ \A i \in DOMAIN ws : ws[i].id \notin some =>
                   \E k \in DOMAIN Without(ws, some) : order[k] = i
<1> DEFINE S == {i \in DOMAIN ws : ws[i].id \notin some}
           m == Cardinality(S)
           below == [i \in S |-> {j \in S : j <= i}]
           order == [n \in 1..m |-> CHOOSE i \in S : Cardinality({j \in S : j <= i}) = n]
           out == Without(ws, some)
<1>1. Len(ws) \in Nat /\ DOMAIN ws = 1..Len(ws) /\ \A i \in DOMAIN ws : ws[i] \in W
  OBVIOUS
<1>2. IsFiniteSet(DOMAIN ws) /\ Cardinality(DOMAIN ws) = Len(ws)
  BY <1>1, FS_Interval
<1>3. S \in SUBSET (DOMAIN ws) /\ IsFiniteSet(S) /\ m <= Len(ws)
  BY <1>2, FS_Subset
<1>4. \A k \in 1..m : order[k] = CHOOSE i \in S : Cardinality(below[i]) = k
  OBVIOUS
<1>5. S \subseteq Nat
  BY <1>1, <1>3
<1>6. /\ below \in [S -> SUBSET S]
      /\ \A i \in S : i \in below[i]
      /\ \A i, j \in S : i \in below[j] \/ j \in below[i]
      /\ \A i, j \in S : i # j /\ i \in below[j] =>
                           below[i] \subseteq below[j] /\ j \notin below[i]
  <2> HIDE DEF S
  <2>1. \A i, j \in S : j \in below[i] <=> j <= i
    OBVIOUS
  <2>2. below \in [S -> SUBSET S]
    OBVIOUS
  <2> HIDE DEF below
  <2>3. \A i \in S : i \in below[i]
    BY <1>5, <2>1
  <2>4. \A i, j \in S : i \in below[j] \/ j \in below[i]
    BY <1>5, <2>1
  <2>5. ASSUME NEW i \in S, NEW j \in S, i # j, i \in below[j]
        PROVE  below[i] \subseteq below[j] /\ j \notin below[i]
    <3>1. i \in Nat /\ j \in Nat /\ i < j
      BY <1>5, <2>1, <2>5
    <3>2. \A k \in below[i] : k \in S /\ k \in Nat /\ k <= i
      BY <1>5, <2>1, <2>2
    <3> QED BY <2>1, <3>1, <3>2
  <2> QED BY <2>2, <2>3, <2>4, <2>5
<1>7. out = [n \in 1..m |-> ws[order[n]]]
  BY DEF Without
<1>8. \A i, j \in S : i \in below[j] => i <= j
  OBVIOUS
<1> HIDE DEF order, below, out
<1>9. /\ m \in Nat
      /\ \A k \in 1..m : order[k] \in S
      /\ \A k, l \in 1..m : k < l => order[k] \in below[order[l]] /\ order[k] # order[l]
      /\ \A i \in S : \E k \in 1..m : order[k] = i
  <2>1. IsFiniteSet(S)
    BY <1>3
  <2> HIDE DEF S
  <2> QED BY <1>4, <1>6, <2>1, Arranged
<1> HIDE DEF m
<1>10. out \in Seq(W) /\ Len(out) = m /\ DOMAIN out = 1..m
  BY <1>1, <1>3, <1>7, <1>9
<1>11. \A k, l \in 1..m : k < l => order[k] < order[l]
  BY <1>5, <1>8, <1>9
<1>12. Picks(out, ws, order)
  <2>1. \A k, l \in 1..m : order[k] = order[l] => k = l
    <3> SUFFICES ASSUME NEW k \in 1..m, NEW l \in 1..m, k < l PROVE order[k] # order[l]
      OBVIOUS
    <3> QED BY <1>9
  <2>2. \A k \in 1..m : order[k] \in DOMAIN ws /\ out[k] = ws[order[k]]
    BY <1>7, <1>9
  <2> QED BY <1>10, <2>1, <2>2 DEF Picks
<1>13. \A k \in 1..m : ws[order[k]].id \notin some
  BY <1>9
<1>14. \A i \in DOMAIN ws : ws[i].id \notin some => \E k \in 1..m : order[k] = i
  BY <1>9
<1> QED BY <1>3, <1>10, <1>11, <1>12, <1>13, <1>14 DEF out

\* The order of two layouts on a page
Before(left, right) ==
  left.y < right.y \/ (left.y = right.y /\ left.x < right.x)

\* SortForSave arranges the widgets it gets by their place on the page.
LEMMA SortPicks ==
  ASSUME NEW W, NEW ws \in Seq(W),
         \A w \in W : w.layout.x \in Int /\ w.layout.y \in Int
  PROVE  /\ SortForSave(ws) \in Seq(W)
         /\ Len(SortForSave(ws)) = Len(ws)
         /\ \E order :
              /\ Picks(SortForSave(ws), ws, order)
              /\ \A i \in DOMAIN ws : \E k \in DOMAIN SortForSave(ws) : order[k] = i
              /\ \A k, l \in DOMAIN SortForSave(ws) : k < l =>
                   ~Before(ws[order[l]].layout, ws[order[k]].layout)
<1> DEFINE S == DOMAIN ws
           m == Len(ws)
           Early(i, j) ==
             LET left == ws[i].layout
                 right == ws[j].layout
             IN  \/ left.y < right.y
                 \/ left.y = right.y /\ left.x < right.x
                 \/ left.y = right.y /\ left.x = right.x /\ i <= j
           below == [i \in S |-> {j \in S : Early(j, i)}]
           order == [n \in S |-> CHOOSE i \in S : Cardinality({j \in S : Early(j, i)}) = n]
           out == SortForSave(ws)
<1>1. m \in Nat /\ DOMAIN ws = 1..m /\ \A i \in S : ws[i] \in W
  OBVIOUS
<1>2. IsFiniteSet(S) /\ Cardinality(S) = m
  BY <1>1, FS_Interval
<1>3. \A k \in 1..Cardinality(S) : order[k] = CHOOSE i \in S : Cardinality(below[i]) = k
  BY <1>1, <1>2
<1>4. \A i \in S : /\ ws[i].layout.x \in Int /\ ws[i].layout.y \in Int
                   /\ i \in Nat
  BY <1>1
<1>5. /\ below \in [S -> SUBSET S]
      /\ \A i \in S : i \in below[i]
      /\ \A i, j \in S : i \in below[j] \/ j \in below[i]
      /\ \A i, j \in S : i # j /\ i \in below[j] =>
                           below[i] \subseteq below[j] /\ j \notin below[i]
  <2> HIDE DEF S
  <2>1. \A i, j \in S : Early(i, j) \/ Early(j, i)
    BY <1>4
  <2>2. \A i, j \in S : i # j /\ Early(i, j) => ~Early(j, i)
    BY <1>4
  <2>3. \A i, j, k \in S : Early(k, i) /\ Early(i, j) => Early(k, j)
    BY <1>4
  <2>4. \A i \in S : Early(i, i)
    BY <2>1
  <2> HIDE DEF Early
  <2> QED BY <2>1, <2>2, <2>3, <2>4
<1>6. out = [n \in S |-> ws[order[n]]]
  BY DEF SortForSave
<1>7. \A i, j \in S : i \in below[j] => ~Before(ws[j].layout, ws[i].layout)
  BY <1>4 DEF Before
<1> HIDE DEF order, below, out
<1>8. /\ \A k \in 1..m : order[k] \in S
      /\ \A k, l \in 1..m : k < l => order[k] \in below[order[l]] /\ order[k] # order[l]
      /\ \A i \in S : \E k \in 1..m : order[k] = i
  <2> HIDE DEF S
  <2> QED BY <1>2, <1>3, <1>5, Arranged
<1>9. out \in Seq(W) /\ Len(out) = m /\ DOMAIN out = 1..m
  BY <1>1, <1>6, <1>8
<1>10. Picks(out, ws, order)
  <2>1. \A k, l \in 1..m : order[k] = order[l] => k = l
    <3> SUFFICES ASSUME NEW k \in 1..m, NEW l \in 1..m, k < l PROVE order[k] # order[l]
      OBVIOUS
    <3> QED BY <1>8
  <2>2. \A k \in 1..m : order[k] \in DOMAIN ws /\ out[k] = ws[order[k]]
    BY <1>1, <1>6, <1>8
  <2> QED BY <1>9, <2>1, <2>2 DEF Picks
<1>11. \A k, l \in 1..m : k < l => ~Before(ws[order[l]].layout, ws[order[k]].layout)
  BY <1>7, <1>8
<1> QED BY <1>8, <1>9, <1>10, <1>11 DEF out

-----------------------------------------------------------------------------
\* Settling

Climbs(Stop, next, bottom) ==
  /\ bottom \in Nat
  /\ Stop \in SUBSET Nat
  /\ next \in [Nat -> Nat]
  /\ \A y \in Nat \ Stop : y < next[y] /\ next[y] <= bottom
  /\ \A y \in Nat \ Stop : \A z \in y..(next[y] - 1) : z \notin Stop

\* A search that goes up, past nothing it could stop at, and never beyond the
\* bottom, is a function, and it ends in the first place from its start on.
LEMMA Search ==
  ASSUME NEW Stop, NEW next, NEW bottom, Climbs(Stop, next, bottom)
  PROVE  /\ \E f \in [Nat -> Nat] :
              \A y \in Nat : f[y] = IF y \in Stop THEN y ELSE f[next[y]]
         /\ \A f : (\A y \in Nat : f[y] = IF y \in Stop THEN y ELSE f[next[y]]) =>
              \A y \in Nat : /\ f[y] \in Stop /\ f[y] >= y
                             /\ \A z \in y..(f[y] - 1) : z \notin Stop
<1> USE DEF Climbs
<1>1. \E f \in [Nat -> Nat] :
        \A y \in Nat : f[y] = IF y \in Stop THEN y ELSE f[next[y]]
  <2> DEFINE Good(k, f) == \A y \in Nat : y >= bottom - k =>
                             f[y] = IF y \in Stop THEN y ELSE f[next[y]]
             P == {k \in 0..bottom : \E f \in [Nat -> Nat] : Good(k, f)}
  <2>1. 0 \in P
    <3> DEFINE f == [y \in Nat |-> y]
    <3>1. f \in [Nat -> Nat] /\ \A y \in Nat : f[y] = y
      OBVIOUS
    <3> HIDE DEF f
    <3>2. \A y \in Nat : y >= bottom - 0 => y \in Stop
      OBVIOUS
    <3>3. Good(0, f)
      BY <3>1, <3>2
    <3> HIDE DEF Good
    <3> QED BY <3>1, <3>3
  <2>2. ASSUME NEW k \in 1..bottom, k - 1 \in P PROVE k \in P
    <3>1. PICK f \in [Nat -> Nat] : Good(k - 1, f)
      BY <2>2
    <3> DEFINE row == bottom - k
               g == [y \in Nat |-> IF y = row /\ row \notin Stop THEN f[next[row]]
                                   ELSE IF y = row THEN row ELSE f[y]]
    <3>2. row \in Nat
      OBVIOUS
    <3>3. g \in [Nat -> Nat]
      BY <3>1, <3>2
    <3>4. g[row] = IF row \in Stop THEN row ELSE f[next[row]]
      BY <3>2
    <3>5. \A y \in Nat : y # row => g[y] = f[y]
      OBVIOUS
    <3> HIDE DEF g
    <3>6. ASSUME NEW y \in Nat, y >= bottom - k
          PROVE  g[y] = IF y \in Stop THEN y ELSE g[next[y]]
      <4>1. y \notin Stop => g[next[y]] = f[next[y]]
        BY <3>5, <3>6
      <4>2. CASE y = row
        BY <3>4, <4>1, <4>2
      <4>3. CASE y # row
        <5>1. y >= bottom - (k - 1)
          BY <3>6, <4>3
        <5>2. f[y] = IF y \in Stop THEN y ELSE f[next[y]]
          BY <3>1, <5>1
        <5> QED BY <3>5, <4>1, <4>3, <5>2
      <4> QED BY <4>2, <4>3
    <3>7. Good(k, g)
      BY <3>6
    <3> HIDE DEF Good
    <3> QED BY <3>3, <3>7
  <2> HIDE DEF P
  <2>3. bottom \in P
    <3>1. \A k \in 0..bottom : k \in P
      BY <2>1, <2>2, UpTo
    <3> QED BY <3>1
  <2>4. PICK f \in [Nat -> Nat] : Good(bottom, f)
    BY <2>3 DEF P
  <2>5. \A y \in Nat : f[y] = IF y \in Stop THEN y ELSE f[next[y]]
    BY <2>4
  <2> QED BY <2>5
<1>2. ASSUME NEW f, \A y \in Nat : f[y] = IF y \in Stop THEN y ELSE f[next[y]]
      PROVE  \A y \in Nat : /\ f[y] \in Stop /\ f[y] >= y
                            /\ \A z \in y..(f[y] - 1) : z \notin Stop
  <2> DEFINE Good(y) == /\ f[y] \in Stop /\ f[y] >= y
                        /\ \A z \in y..(f[y] - 1) : z \notin Stop
             P == {k \in 0..bottom : \A y \in Nat : y >= bottom - k => Good(y)}
  <2>0. \A y \in Nat : f[y] = IF y \in Stop THEN y ELSE f[next[y]]
    BY <1>2
  <2>1. \A y \in Stop : Good(y)
    BY <2>0
  <2>2. 0 \in P
    BY <2>1
  <2>3. ASSUME NEW k \in 1..bottom, k - 1 \in P PROVE k \in P
    <3>1. ASSUME NEW y \in Nat, y >= bottom - k PROVE Good(y)
      <4>1. CASE y \in Stop
        BY <2>1, <4>1
      <4>2. CASE y \notin Stop
        <5>1. next[y] \in Nat /\ next[y] > y /\ next[y] >= bottom - (k - 1)
          BY <3>1, <4>2
        <5>2. Good(next[y])
          BY <2>3, <5>1
        <5>3. f[y] = f[next[y]]
          BY <2>0, <4>2
        <5>4. f[y] \in Stop /\ f[y] \in Nat /\ f[y] >= y /\ f[y] >= next[y]
          <6>1. f[y] \in Stop /\ f[y] >= next[y]
            BY <5>2, <5>3
          <6>2. f[y] \in Nat /\ next[y] \in Nat
            BY <6>1
          <6> QED BY <5>1, <6>1, <6>2
        <5>5. ASSUME NEW z \in y..(f[y] - 1) PROVE z \notin Stop
          <6>1. CASE z < next[y]
            <7>1. z \in y..(next[y] - 1)
              BY <5>1, <5>4, <6>1
            <7> QED BY <4>2, <7>1
          <6>2. CASE z >= next[y]
            <7>1. z \in next[y]..(f[next[y]] - 1)
              BY <5>1, <5>3, <5>4, <6>2
            <7> QED BY <5>2, <7>1
          <6> QED BY <5>1, <5>4, <6>1, <6>2
        <5> QED BY <5>4, <5>5
      <4> QED BY <4>1, <4>2
    <3> HIDE DEF Good
    <3> QED BY <3>1
  <2> HIDE DEF P
  <2>4. bottom \in P
    <3>1. \A k \in 0..bottom : k \in P
      BY <2>2, <2>3, UpTo
    <3> QED BY <3>1
  <2> HIDE DEF Good
  <2>5. \A y \in Nat : Good(y)
    BY <2>4 DEF P
  <2> QED BY <2>5 DEF Good
<1> QED BY <1>1, <1>2

WidgetsOf(I) == [id: I, layout: Layouts, mark: {"default", "edited", "foreign"}]
GridWidgets(I) == {w \in WidgetsOf(I) : InGrid(w.layout)}

LEMMA GridWidget ==
  ASSUME NEW I, NEW w \in GridWidgets(I)
  PROVE  /\ w \in WidgetsOf(I) /\ InGrid(w.layout)
         /\ w.layout.x \in Nat /\ w.layout.y \in Nat
         /\ w.layout.w \in Nat \ {0} /\ w.layout.h \in Nat \ {0}
BY DEF GridWidgets, WidgetsOf, Layouts, InGrid

InRow(layout, y) == [layout EXCEPT !.y = y]
Lower(w, y) == [w EXCEPT !.layout.y = y]

\* A widget that moves down the page stays what it is otherwise.
LEMMA Lowered ==
  ASSUME NEW I, NEW w \in GridWidgets(I), NEW y \in Nat
  PROVE  /\ Lower(w, y) \in GridWidgets(I)
         /\ Lower(w, y).layout = InRow(w.layout, y)
         /\ Lower(w, y).id = w.id
         /\ InRow(w.layout, y).y = y
BY DEF GridWidgets, WidgetsOf, Layouts, InGrid, InRow, Lower

\* What a layout overlaps in another row
LEMMA OverlapAt ==
  ASSUME NEW l \in Layouts, NEW o, NEW z
  PROVE  Overlap(InRow(l, z), o) <=>
           /\ l.x < o.x + o.w /\ l.x + l.w > o.x
           /\ z < o.y + o.h /\ z + l.h > o.y
BY DEF Overlap, Layouts, InRow

\* The first row from the widget's own on where no placed widget overlaps it
FirstFree(w, placed, y) ==
  /\ y >= w.layout.y
  /\ \A i \in DOMAIN placed : ~Overlap(InRow(w.layout, y), placed[i].layout)
  /\ \A z \in w.layout.y..(y - 1) :
       \E i \in DOMAIN placed : Overlap(InRow(w.layout, z), placed[i].layout)

\* A widget settles in the first row from its own on where it fits.
LEMMA Settled ==
  ASSUME NEW I, NEW w \in GridWidgets(I), NEW placed \in Seq(GridWidgets(I))
  PROVE  \E y \in Nat : Settle(w, placed) = Lower(w, y) /\ FirstFree(w, placed, y)
<1> DEFINE blockers(y) == {i \in DOMAIN placed :
                             Overlap(InRow(w.layout, y), placed[i].layout)}
           below(i) == placed[i].layout.y + placed[i].layout.h
           Stop == {y \in Nat : blockers(y) = {}}
           next == [y \in Nat |-> IF blockers(y) = {} THEN y ELSE below(Min(blockers(y)))]
<1>1. Len(placed) \in Nat /\ DOMAIN placed = 1..Len(placed)
      /\ \A i \in DOMAIN placed : placed[i] \in GridWidgets(I)
  OBVIOUS
<1>2. \A i \in DOMAIN placed :
        /\ placed[i].layout.y \in Nat /\ placed[i].layout.h \in Nat \ {0}
        /\ below(i) \in Nat
  BY <1>1, GridWidget
<1>3. /\ w.layout \in Layouts /\ w.layout.h \in Nat \ {0}
      /\ w.layout.y \in Nat
  BY GridWidget DEF WidgetsOf
<1>4. PICK bottom \in Nat : \A i \in DOMAIN placed : below(i) <= bottom
  <2> DEFINE P == {n \in 0..Len(placed) : \E b \in Nat : \A i \in 1..n : below(i) <= b}
  <2>1. 0 \in P
    OBVIOUS
  <2>2. ASSUME NEW n \in 1..Len(placed), n - 1 \in P PROVE n \in P
    <3>1. PICK b \in Nat : \A i \in 1..(n - 1) : below(i) <= b
      BY <2>2
    <3>2. n \in DOMAIN placed /\ below(n) \in Nat
      BY <1>1, <1>2
    <3> HIDE DEF below
    <3>3. PICK c \in Nat : b <= c /\ below(n) <= c
      BY <3>2
    <3>4. \A i \in 1..n : below(i) <= c
      <4> SUFFICES ASSUME NEW i \in 1..n PROVE below(i) <= c
        OBVIOUS
      <4>1. CASE i = n
        BY <3>3, <4>1
      <4>2. CASE i # n
        <5>1. i \in 1..(n - 1) /\ i \in DOMAIN placed
          BY <1>1, <4>2
        <5> QED BY <1>2, <3>1, <3>3, <5>1
      <4> QED BY <4>1, <4>2
    <3> QED BY <3>4
  <2> HIDE DEF P
  <2>3. \A n \in 0..Len(placed) : n \in P
    BY <1>1, <2>1, <2>2, UpTo
  <2>4. Len(placed) \in P
    BY <1>1, <2>3
  <2> QED BY <1>1, <2>4 DEF P
<1>5. ASSUME NEW y \in Nat, NEW i \in blockers(y)
      PROVE  /\ i \in DOMAIN placed /\ y < below(i) /\ below(i) <= bottom
             /\ \A z \in y..(below(i) - 1) : i \in blockers(z)
  <2>1. i \in DOMAIN placed /\ Overlap(InRow(w.layout, y), placed[i].layout)
    OBVIOUS
  <2>2. y < below(i) /\ below(i) <= bottom
    BY <1>2, <1>3, <1>4, <2>1, OverlapAt
  <2>3. ASSUME NEW z \in y..(below(i) - 1)
        PROVE  Overlap(InRow(w.layout, z), placed[i].layout)
    <3>1. z \in Nat /\ z >= y /\ z < below(i)
      BY <1>2, <2>1
    <3> DEFINE l == w.layout
               o == placed[i].layout
    <3>2. /\ l \in Layouts /\ l.h \in Nat \ {0} /\ o.y \in Nat /\ o.h \in Nat
          /\ z < o.y + o.h
          /\ Overlap(InRow(l, y), o)
      BY <1>2, <1>3, <2>1, <3>1
    <3> HIDE DEF l, o
    <3>3. l.x < o.x + o.w /\ l.x + l.w > o.x /\ y + l.h > o.y
      BY <3>2, OverlapAt
    <3>4. z + l.h > o.y
      BY <3>1, <3>2, <3>3 DEF Layouts
    <3>5. Overlap(InRow(l, z), o)
      BY <3>2, <3>3, <3>4, OverlapAt
    <3> QED BY <3>5 DEF l, o
  <2> QED BY <2>1, <2>2, <2>3
<1>6. \A y \in Nat \ Stop : Min(blockers(y)) \in blockers(y)
  <2> SUFFICES ASSUME NEW y \in Nat \ Stop PROVE Min(blockers(y)) \in blockers(y)
    OBVIOUS
  <2> DEFINE B == blockers(y)
  <2>1. B \in SUBSET Nat /\ B # {}
    BY <1>1
  <2> HIDE DEF B
  <2>2. \E i \in B : \A j \in B : i <= j
    BY <2>1, Least
  <2>3. Min(B) \in B
    BY <2>2 DEF Min
  <2> QED BY <2>3 DEF B
<1>7. /\ Stop \in SUBSET Nat
      /\ next \in [Nat -> Nat]
      /\ \A y \in Nat \ Stop : y < next[y] /\ next[y] <= bottom
      /\ \A y \in Nat \ Stop : \A z \in y..(next[y] - 1) : z \notin Stop
  <2> HIDE DEF blockers, below
  <2>1. ASSUME NEW y \in Nat \ Stop
        PROVE  /\ next[y] \in Nat /\ y < next[y] /\ next[y] <= bottom
               /\ \A z \in y..(next[y] - 1) : z \notin Stop
    <3> DEFINE i == Min(blockers(y))
    <3>1. i \in blockers(y) /\ next[y] = below(i)
      BY <1>6
    <3> HIDE DEF i
    <3>2. /\ i \in DOMAIN placed /\ y < below(i) /\ below(i) <= bottom
          /\ \A z \in y..(below(i) - 1) : i \in blockers(z)
      BY <1>5, <3>1
    <3> HIDE DEF next
    <3> QED BY <1>2, <3>1, <3>2
  <2>2. \A y \in Stop : next[y] = y
    OBVIOUS
  <2>3. Stop \in SUBSET Nat
    OBVIOUS
  <2>4. \A y \in Nat : next[y] \in Nat
    BY <2>1, <2>2
  <2>5. next \in [Nat -> Nat]
    <3>1. next = [y \in Nat |-> next[y]]
      OBVIOUS
    <3> HIDE DEF next
    <3> QED BY <2>4, <3>1
  <2> QED BY <2>1, <2>3, <2>5
<1> HIDE DEF Stop, next
<1>12. Climbs(Stop, next, bottom)
  BY <1>7 DEF Climbs
<1>13. \E f \in [Nat -> Nat] :
         \A y \in Nat : f[y] = IF y \in Stop THEN y ELSE f[next[y]]
  BY <1>12, Search, SMTT(60)
<1>14. \A f : (\A y \in Nat : f[y] = IF y \in Stop THEN y ELSE f[next[y]]) =>
         \A y \in Nat : /\ f[y] \in Stop /\ f[y] >= y
                        /\ \A z \in y..(f[y] - 1) : z \notin Stop
  BY <1>12, Search
<1> USE DEF Stop, next
<1> DEFINE row == CHOOSE r : r = [y \in Nat |-> IF blockers(y) = {} THEN y
                                               ELSE r[below(Min(blockers(y)))]]
<1>8. Settle(w, placed) = Lower(w, row[w.layout.y])
  BY DEF Settle, Lower, InRow
<1>9. \A y \in Nat : row[y] = IF y \in Stop THEN y ELSE row[next[y]]
  <2>1. PICK f \in [Nat -> Nat] :
          \A y \in Nat : f[y] = IF y \in Stop THEN y ELSE f[next[y]]
    <3> HIDE DEF Stop, next
    <3> QED BY <1>13
  <2> HIDE DEF blockers, below
  <2>2. \A y \in Nat : f[y] = IF blockers(y) = {} THEN y ELSE f[below(Min(blockers(y)))]
    BY <2>1
  <2>3. f = [y \in Nat |-> IF blockers(y) = {} THEN y ELSE f[below(Min(blockers(y)))]]
    BY <2>1, <2>2
  <2>4. row = [y \in Nat |-> IF blockers(y) = {} THEN y ELSE row[below(Min(blockers(y)))]]
    BY <2>3
  <2> HIDE DEF row
  <2> QED BY <2>4
<1> DEFINE y == row[w.layout.y]
<1> HIDE DEF row
<1>10. y \in Stop /\ y >= w.layout.y /\ \A z \in w.layout.y..(y - 1) : z \notin Stop
  <2> HIDE DEF Stop, next
  <2> QED BY <1>3, <1>9, <1>14
<1> HIDE DEF y
<1>11. \A z \in w.layout.y..(y - 1) : z \in Nat
  BY <1>3
<1> QED BY <1>8, <1>10, <1>11 DEF y, FirstFree

\* The kth widget is where it settles below the widgets before it.
SettledAt(ws, out, k) ==
  \E y \in Nat :
    /\ out[k] = Lower(ws[k], y)
    /\ y >= ws[k].layout.y
    /\ \A j \in 1..(k - 1) : ~Overlap(InRow(ws[k].layout, y), out[j].layout)
    /\ \A z \in ws[k].layout.y..(y - 1) :
         \E j \in 1..(k - 1) : Overlap(InRow(ws[k].layout, z), out[j].layout)

\* What SettledAt says depends on the first k widgets only.
LEMMA SettledStays ==
  ASSUME NEW ws, NEW out, NEW more, NEW k \in Nat \ {0},
         \A j \in 1..k : more[j] = out[j], SettledAt(ws, out, k)
  PROVE  SettledAt(ws, more, k)
<1>1. more[k] = out[k] /\ \A j \in 1..(k - 1) : more[j] = out[j]
  OBVIOUS
<1> QED BY <1>1 DEF SettledAt

LEMMA Packed ==
  ASSUME NEW I, NEW ws \in Seq(GridWidgets(I))
  PROVE  /\ Pack(ws) \in Seq(GridWidgets(I))
         /\ Len(Pack(ws)) = Len(ws)
         /\ \A k \in 1..Len(ws) : SettledAt(ws, Pack(ws), k)
<1> DEFINE n == Len(ws)
           G == GridWidgets(I)
           S == Seq(G)
           next == [p \in (1..n) \X S |-> Append(p[2], Settle(ws[p[1]], p[2]))]
<1>1. n \in Nat /\ \A i \in 1..n : ws[i] \in G
  OBVIOUS
<1>2. ASSUME NEW i \in 1..n, NEW above \in S
      PROVE  /\ Append(above, Settle(ws[i], above)) \in S
             /\ \E y \in Nat : Settle(ws[i], above) = Lower(ws[i], y)
                                /\ FirstFree(ws[i], above, y)
  <2> DEFINE w == ws[i]
  <2>1. w \in G
    BY <1>1
  <2> HIDE DEF w
  <2>2. PICK y \in Nat : Settle(w, above) = Lower(w, y) /\ FirstFree(w, above, y)
    BY <2>1, Settled
  <2>3. Settle(w, above) \in G
    BY <2>1, <2>2, Lowered
  <2>4. Append(above, Settle(w, above)) \in S
    BY <2>3
  <2> QED BY <2>2, <2>4 DEF w
<1>3. next \in [(1..n) \X S -> S]
  BY <1>2
<1>4. PICK f \in [0..n -> S] :
        f[0] = <<>> /\ \A i \in 1..n : f[i] = next[<<i, f[i - 1]>>]
  <2>1. <<>> \in S
    OBVIOUS
  <2> HIDE DEF next, S, n
  <2>2. Recurses(n, S, <<>>, next)
    BY <1>1, <1>3, <2>1 DEF Recurses
  <2> QED BY <2>2, Recursion
<1> DEFINE placed == CHOOSE g : g = [i \in 0..n |->
                       IF i = 0 THEN <<>> ELSE Append(g[i - 1], Settle(ws[i], g[i - 1]))]
<1>5. Pack(ws) = placed[n]
  BY DEF Pack
<1>6. \A i \in 0..n : placed[i] = IF i = 0 THEN <<>>
                       ELSE Append(placed[i - 1], Settle(ws[i], placed[i - 1]))
  <2>1. \A i \in 1..n : f[i - 1] \in S
    BY <1>4
  <2>2. \A i \in 1..n : f[i] = Append(f[i - 1], Settle(ws[i], f[i - 1]))
    BY <1>4, <2>1
  <2>3. f = [i \in 0..n |-> IF i = 0 THEN <<>> ELSE Append(f[i - 1], Settle(ws[i], f[i - 1]))]
    BY <1>4, <2>2
  <2>4. placed = [i \in 0..n |->
                   IF i = 0 THEN <<>> ELSE Append(placed[i - 1], Settle(ws[i], placed[i - 1]))]
    BY <2>3
  <2> HIDE DEF placed
  <2> QED BY <2>4
<1> HIDE DEF placed, next
<1> DEFINE Good(i) == /\ placed[i] \in S /\ Len(placed[i]) = i
                      /\ \A k \in 1..i : SettledAt(ws, placed[i], k)
           P == {i \in 0..n : Good(i)}
<1>7. 0 \in P
  <2>1. placed[0] = <<>>
    BY <1>1, <1>6
  <2>2. placed[0] \in S /\ Len(placed[0]) = 0
    BY <2>1
  <2>3. Good(0)
    BY <2>2
  <2> HIDE DEF Good
  <2> QED BY <1>1, <2>3
<1>8. ASSUME NEW i \in 1..n, i - 1 \in P PROVE i \in P
  <2> DEFINE above == placed[i - 1]
             all == placed[i]
             w == ws[i]
  <2>1. above \in S /\ Len(above) = i - 1 /\ DOMAIN above = 1..(i - 1)
        /\ \A k \in 1..(i - 1) : SettledAt(ws, above, k)
    BY <1>8
  <2>2. all = Append(above, Settle(w, above)) /\ w \in G
    <3>1. i \in 0..n /\ i # 0
      OBVIOUS
    <3>2. w \in G
      BY <1>1
    <3> QED BY <1>6, <3>1, <3>2
  <2>3. PICK y \in Nat : Settle(w, above) = Lower(w, y) /\ FirstFree(w, above, y)
    <3> HIDE DEF above
    <3> QED BY <1>2, <2>1
  <2> HIDE DEF above, all, P, w
  <2>4. Lower(w, y) \in G
    BY <2>2, Lowered
  <2>5. /\ all \in S /\ Len(all) = i
        /\ \A j \in 1..(i - 1) : all[j] = above[j]
        /\ all[i] = Lower(w, y)
    BY <2>1, <2>2, <2>3, <2>4
  <2>7. SettledAt(ws, all, i)
    BY <2>1, <2>3, <2>5 DEF SettledAt, FirstFree, w
  <2>8. ASSUME NEW k \in 1..(i - 1) PROVE SettledAt(ws, all, k)
    <3>1. k \in Nat \ {0} /\ \A j \in 1..k : all[j] = above[j]
      BY <2>5
    <3> QED BY <2>1, <3>1, SettledStays
  <2>9. \A k \in 1..i : SettledAt(ws, all, k)
    BY <2>7, <2>8
  <2> QED BY <2>5, <2>9 DEF P, all
<1>9. n \in P
  <2> HIDE DEF P, n
  <2>1. \A i \in 0..n : i \in P
    BY <1>1, <1>7, <1>8, UpTo
  <2> QED BY <1>1, <2>1
<1> QED BY <1>5, <1>9

\* A layout that a widget gets is normalized, so the widget lies in the grid.
LEMMA PutInGrid ==
  ASSUME NEW I, NEW w \in WidgetsOf(I), NEW layout \in Layouts
  PROVE  WithLayout(w, layout) \in GridWidgets(I) /\ WithLayout(w, layout).id = w.id
         /\ WithLayout(w, layout).layout = Normalize(layout)
<1>1. Normalize(layout) \in Layouts /\ InGrid(Normalize(layout))
  BY NormalizedInGrid
<1> QED BY <1>1 DEF WithLayout, WidgetsOf, GridWidgets

\* FirstOf finds the first widget of an id.
LEMMA FirstFound ==
  ASSUME NEW W, NEW ws \in Seq(W), NEW some, NEW i \in DOMAIN ws, ws[i].id \in some
  PROVE  \E k \in DOMAIN ws : /\ FirstOf(ws, some) = ws[k] /\ ws[k].id \in some
                              /\ \A j \in DOMAIN ws : ws[j].id \in some => k <= j
<1> DEFINE B == {j \in DOMAIN ws : ws[j].id \in some}
<1>1. B \in SUBSET Nat /\ B # {}
  OBVIOUS
<1>2. FirstOf(ws, some) = ws[Min(B)]
  BY DEF FirstOf
<1> HIDE DEF B
<1>3. \E k \in B : \A j \in B : k <= j
  BY <1>1, Least
<1>4. Min(B) \in B /\ \A j \in B : Min(B) <= j
  BY <1>3 DEF Min
<1> QED BY <1>2, <1>4 DEF B

\* The widgets of the priority come first, and only one of them; the others keep
\* their order, and none of them is left out.
LEMMA OrderedPicks ==
  ASSUME NEW W, NEW ws \in Seq(W), NEW some
  PROVE  /\ Ordered(ws, some) \in Seq(W)
         /\ Len(Ordered(ws, some)) <= Len(ws)
         /\ \E order :
              /\ Picks(Ordered(ws, some), ws, order)
              /\ \A k, l \in DOMAIN Ordered(ws, some) : k < l =>
                   /\ ws[order[l]].id \notin some
                   /\ order[k] < order[l] \/ ws[order[k]].id \in some
              /\ \A i \in DOMAIN ws : ws[i].id \notin some =>
                   \E k \in DOMAIN Ordered(ws, some) : order[k] = i
              /\ \A i \in DOMAIN ws : ws[i].id \in some =>
                   \E k \in DOMAIN Ordered(ws, some) : ws[order[k]].id \in some
<1> DEFINE out == Ordered(ws, some)
<1>0. Len(ws) \in Nat /\ DOMAIN ws = 1..Len(ws)
  OBVIOUS
<1>1. CASE ~\E i \in DOMAIN ws : ws[i].id \in some
  <2>1. out = ws
    BY <1>1 DEF Ordered
  <2> DEFINE order == [k \in DOMAIN ws |-> k]
  <2>2. Picks(ws, ws, order) /\ \A k \in DOMAIN ws : order[k] = k
    BY DEF Picks
  <2>3. \A k, l \in DOMAIN ws : k < l => order[k] < order[l]
    BY <1>0, <2>2
  <2> HIDE DEF order
  <2> QED BY <1>0, <1>1, <2>1, <2>2, <2>3
<1>2. CASE \E i \in DOMAIN ws : ws[i].id \in some
  <2> DEFINE rest == Without(ws, some)
             first == FirstOf(ws, some)
  <2>1. PICK f \in DOMAIN ws : first = ws[f] /\ ws[f].id \in some
    BY <1>2, FirstFound
  <2>2. rest \in Seq(W)
    BY WithoutPicks
  <2>3. PICK nth :
          /\ Picks(rest, ws, nth)
          /\ \A k \in DOMAIN rest : ws[nth[k]].id \notin some
          /\ \A k, l \in DOMAIN rest : k < l => nth[k] < nth[l]
          /\ \A i \in DOMAIN ws : ws[i].id \notin some =>
               \E k \in DOMAIN rest : nth[k] = i
    BY WithoutPicks
  <2>4. out = <<first>> \o rest
    BY <1>2 DEF Ordered
  <2> HIDE DEF rest, first, out
  <2> DEFINE m == Len(rest)
  <2>5. m \in Nat /\ DOMAIN rest = 1..m
    BY <2>2
  <2>6. /\ out \in Seq(W) /\ Len(out) = m + 1 /\ DOMAIN out = 1..(m + 1)
        /\ out[1] = first /\ \A k \in 2..(m + 1) : out[k] = rest[k - 1]
    <3>1. first \in W /\ <<first>> \in Seq(W) /\ Len(<<first>>) = 1
      BY <2>1
    <3>2. out \in Seq(W) /\ Len(out) = m + 1
      BY <2>2, <2>4, <3>1
    <3>3. \A k \in 1..(m + 1) : out[k] = IF k <= 1 THEN <<first>>[k] ELSE rest[k - 1]
      BY <2>2, <2>4, <2>5, <3>1
    <3>4. <<first>>[1] = first /\ 1 \in 1..(m + 1)
      BY <2>5
    <3>5. \A k \in 2..(m + 1) : k \in 1..(m + 1) /\ ~(k <= 1)
      BY <2>5
    <3> QED BY <2>5, <3>2, <3>3, <3>4, <3>5
  <2> DEFINE order == [k \in 1..(m + 1) |-> IF k = 1 THEN f ELSE nth[k - 1]]
  <2> HIDE DEF m
  <2>7. /\ order[1] = f
        /\ \A k \in 2..(m + 1) : k - 1 \in DOMAIN rest /\ order[k] = nth[k - 1]
    BY <2>5
  <2>8. \A k \in DOMAIN out : k = 1 \/ k \in 2..(m + 1)
    BY <2>5, <2>6
  <2> HIDE DEF order
  <2>9. \A k \in 2..(m + 1) : /\ order[k] \in DOMAIN ws /\ out[k] = ws[order[k]]
                              /\ ws[order[k]].id \notin some
    BY <2>3, <2>6, <2>7 DEF Picks
  <2>10. Picks(out, ws, order)
    <3>1. \A k \in DOMAIN out : order[k] \in DOMAIN ws /\ out[k] = ws[order[k]]
      BY <2>1, <2>6, <2>7, <2>8, <2>9
    <3>2. ASSUME NEW k \in DOMAIN out, NEW l \in DOMAIN out, order[k] = order[l]
          PROVE  k = l
      <4>1. CASE k = 1 \/ l = 1
        BY <2>1, <2>7, <2>8, <2>9, <3>2, <4>1
      <4>2. CASE k # 1 /\ l # 1
        <5>1. k \in 2..(m + 1) /\ l \in 2..(m + 1)
          BY <2>8, <4>2
        <5>2. k - 1 = l - 1
          BY <2>3, <2>7, <3>2, <5>1 DEF Picks
        <5> QED BY <5>1, <5>2
      <4> QED BY <4>1, <4>2
    <3> QED BY <3>1, <3>2 DEF Picks
  <2>11. ASSUME NEW k \in DOMAIN out, NEW l \in DOMAIN out, k < l
         PROVE  /\ ws[order[l]].id \notin some
                /\ order[k] < order[l] \/ ws[order[k]].id \in some
    <3>1. l \in 2..(m + 1)
      BY <2>6, <2>8, <2>11
    <3>2. CASE k = 1
      BY <2>1, <2>7, <2>9, <3>1, <3>2
    <3>3. CASE k # 1
      <4>1. k \in 2..(m + 1) /\ k - 1 < l - 1
        BY <2>8, <2>11, <3>1, <3>3
      <4> QED BY <2>3, <2>7, <3>1, <4>1
    <3> QED BY <3>2, <3>3
  <2>12. ASSUME NEW i \in DOMAIN ws, ws[i].id \notin some
         PROVE  \E k \in DOMAIN out : order[k] = i
    <3>1. PICK k \in DOMAIN rest : nth[k] = i
      BY <2>3, <2>12
    <3>2. k + 1 \in 2..(m + 1) /\ k + 1 \in DOMAIN out /\ (k + 1) - 1 = k
      BY <2>5, <2>6
    <3>3. order[k + 1] = i
      BY <2>7, <3>1, <3>2
    <3> QED BY <3>2, <3>3
  <2>13. 1 \in DOMAIN out /\ ws[order[1]].id \in some
    BY <2>1, <2>5, <2>6, <2>7
  <2>14. Len(out) <= Len(ws)
    <3>1. Picks(rest, ws, nth) /\ order \in Injection(1..(m + 1), DOMAIN ws)
      <4>1. order \in [1..(m + 1) -> DOMAIN ws]
        BY <2>6, <2>10 DEF Picks, order
      <4> QED BY <2>3, <2>6, <2>10, <4>1 DEF Picks, Injection, IsInjective
    <3>2. IsFiniteSet(DOMAIN ws) /\ Cardinality(DOMAIN ws) = Len(ws)
          /\ Cardinality(1..(m + 1)) = m + 1
      <4>1. 1 \in Int /\ m + 1 \in Int /\ ~(1 > m + 1) /\ (m + 1) - 1 + 1 = m + 1
        BY <2>5
      <4>2. Cardinality(1..(m + 1)) = m + 1
        BY <4>1, FS_Interval
      <4> QED BY <1>0, <4>2, FS_Interval
    <3>3. m + 1 <= Len(ws)
      BY <3>1, <3>2, FS_Injection
    <3> QED BY <2>6, <3>3
  <2>15. out \in Seq(W)
    BY <2>6
  <2> QED BY <2>10, <2>11, <2>12, <2>13, <2>14, <2>15 DEF out
<1> QED BY <1>1, <1>2

Normalized(ws) == [i \in DOMAIN ws |-> WithLayout(ws[i], ws[i].layout)]

\* Compaction leaves widgets that lie in the grid and do not overlap.
LEMMA CompactValid ==
  ASSUME NEW I, NEW ws \in Seq(WidgetsOf(I)), NEW some
  PROVE  /\ Compact(ws, some) \in Seq(GridWidgets(I))
         /\ Len(Compact(ws, some)) <= Len(ws)
         /\ Apart(Compact(ws, some))
<1> DEFINE G == GridWidgets(I)
           normal == Normalized(ws)
           ordered == Ordered(normal, some)
           packed == Pack(ordered)
           out == SortForSave(packed)
<1>1. normal \in Seq(G) /\ Len(normal) = Len(ws)
  <2>1. \A i \in 1..Len(ws) : ws[i] \in WidgetsOf(I) /\ ws[i].layout \in Layouts
    <3>1. \A w \in WidgetsOf(I) : w.layout \in Layouts
      BY DEF WidgetsOf
    <3> QED BY <3>1
  <2>2. \A i \in 1..Len(ws) : WithLayout(ws[i], ws[i].layout) \in G
    BY <2>1, PutInGrid
  <2>3. Len(ws) \in Nat /\ DOMAIN ws = 1..Len(ws)
    OBVIOUS
  <2>4. normal = [i \in 1..Len(ws) |-> WithLayout(ws[i], ws[i].layout)]
    BY <2>3 DEF Normalized
  <2> HIDE DEF normal
  <2> QED BY <2>2, <2>3, <2>4
<1> HIDE DEF normal
<1>2. ordered \in Seq(G) /\ Len(ordered) <= Len(normal)
  BY <1>1, OrderedPicks
<1> HIDE DEF ordered
<1>3. packed \in Seq(G) /\ Len(packed) = Len(ordered)
      /\ \A k \in 1..Len(ordered) : SettledAt(ordered, packed, k)
  BY <1>2, Packed
<1> HIDE DEF packed
<1>4. \A w \in G : w.layout.x \in Int /\ w.layout.y \in Int
  BY GridWidget
<1>5. /\ out \in Seq(G) /\ Len(out) = Len(packed)
      /\ \E order : Picks(out, packed, order)
  BY <1>3, <1>4, SortPicks
<1> HIDE DEF out
<1>6. \A i, j \in DOMAIN packed : i # j => ~Overlap(packed[i].layout, packed[j].layout)
  <2> SUFFICES ASSUME NEW i \in DOMAIN packed, NEW j \in DOMAIN packed, i < j
               PROVE  ~Overlap(packed[j].layout, packed[i].layout)
    <3>1. \A i \in DOMAIN packed : i \in Nat /\ packed[i].layout \in Layouts
      BY <1>3 DEF GridWidgets, WidgetsOf
    <3> QED BY <3>1, BlockedOnce
  <2>1. j \in 1..Len(ordered) /\ i \in 1..(j - 1)
    BY <1>3
  <2>2. PICK y \in Nat : packed[j] = Lower(ordered[j], y)
                         /\ ~Overlap(InRow(ordered[j].layout, y), packed[i].layout)
    BY <1>3, <2>1 DEF SettledAt
  <2>3. ordered[j] \in G
    BY <1>2, <2>1
  <2> QED BY <2>2, <2>3, Lowered
<1>7. Apart(out)
  BY <1>5, <1>6 DEF Picks, Apart
<1>8. Compact(ws, some) = out
  BY DEF Compact, Normalized, out, packed, ordered, normal
<1>9. Len(out) <= Len(ws)
  BY <1>1, <1>2, <1>3, <1>5
<1> QED BY <1>5, <1>7, <1>8, <1>9

-----------------------------------------------------------------------------
\* What every list of widgets is like

\* After so many edits a list of widgets is no longer than what there was at first
\* and a widget for each edit, lies in the grid, and has no overlap.
IdsUpTo(n) == (1..(Len(FirstKinds) + n)) \X (0..n)
Sound(ws, n) ==
  /\ ws \in Seq(GridWidgets(IdsUpTo(n)))
  /\ Len(ws) <= Len(FirstKinds) + n
  /\ Apart(ws)

Contents ==
  /\ \A n \in Names : Sound(stored[n].widgets, edits) /\ Sound(list[n].widgets, edits)
  /\ Sound(draft.widgets, edits)
  /\ \A i \in DOMAIN calls : Sound(calls[i].input.widgets, edits)
  /\ Sound(handler.input.widgets, edits)

\* The saves that were sent and have written nothing yet
Waiting == Len(calls) + (IF handler.pc = "idle" THEN 0 ELSE 1)

\* A version is written by a save of the tab or of another user.
Bounded ==
  /\ edits \in Nat /\ mutations \in Nat /\ edits + mutations <= MaxWork
  /\ foreign \in 0..MaxForeign
  /\ saving \in 0..mutations /\ deleting \in BOOLEAN
  /\ answers \in [save: Names \cup {NoId, "error"}, delete: BOOLEAN]
  /\ deletes \subseteq Names
  /\ Waiting <= mutations
  /\ \A r \in Refs : r.version <= 1 + foreign + mutations - Waiting

LEMMA FirstLength == Len(FirstKinds) \in Nat /\ DOMAIN FirstKinds = 1..Len(FirstKinds)
BY KindsAssumption

LEMMA SoundLater ==
  ASSUME NEW m \in Nat, NEW n \in Nat, m <= n, NEW ws, Sound(ws, m)
  PROVE  Sound(ws, n)
<1>1. IdsUpTo(m) \subseteq IdsUpTo(n)
  BY FirstLength DEF IdsUpTo
<1>2. GridWidgets(IdsUpTo(m)) \subseteq GridWidgets(IdsUpTo(n))
  BY <1>1 DEF GridWidgets, WidgetsOf
<1>3. ws \in Seq(GridWidgets(IdsUpTo(n)))
  <2> DEFINE G == GridWidgets(IdsUpTo(m))
             H == GridWidgets(IdsUpTo(n))
  <2>1. ws \in Seq(G) /\ G \subseteq H
    BY <1>2 DEF Sound
  <2> HIDE DEF G, H
  <2>2. ws \in Seq(H)
    BY <2>1
  <2> QED BY <2>2 DEF H
<1> QED BY <1>3, FirstLength DEF Sound

LEMMA SoundEmpty == \A n \in Nat : Sound(<<>>, n)
BY FirstLength DEF Sound, Apart

\* What is compacted is sound if it is not too long and has known ids.
LEMMA CompactSound ==
  ASSUME NEW n \in Nat, NEW ws \in Seq(WidgetsOf(IdsUpTo(n))),
         Len(ws) <= Len(FirstKinds) + n, NEW some
  PROVE  Sound(Compact(ws, some), n)
<1>1. /\ Compact(ws, some) \in Seq(GridWidgets(IdsUpTo(n)))
      /\ Len(Compact(ws, some)) <= Len(ws)
      /\ Apart(Compact(ws, some))
  BY CompactValid
<1>2. Len(Compact(ws, some)) \in Nat /\ Len(ws) \in Nat
  BY <1>1
<1> QED BY <1>1, <1>2, FirstLength DEF Sound

LEMMA SortSound ==
  ASSUME NEW n \in Nat, NEW ws, Sound(ws, n)
  PROVE  Sound(SortForSave(ws), n)
<1> DEFINE G == GridWidgets(IdsUpTo(n))
           out == SortForSave(ws)
<1>1. ws \in Seq(G) /\ \A w \in G : w.layout.x \in Int /\ w.layout.y \in Int
  BY GridWidget DEF Sound
<1>2. /\ out \in Seq(G) /\ Len(out) = Len(ws)
      /\ \E order : Picks(out, ws, order)
  <2> HIDE DEF G
  <2> QED BY <1>1, SortPicks
<1> HIDE DEF out
<1>3. Apart(out)
  BY <1>2 DEF Sound, Apart, Picks
<1> QED BY <1>2, <1>3 DEF Sound, out

\* The widgets of a sound list
LEMMA SoundWidgets ==
  ASSUME NEW n \in Nat, NEW ws, Sound(ws, n)
  PROVE  /\ ws \in Seq(WidgetsOf(IdsUpTo(n)))
         /\ Len(ws) \in Nat /\ DOMAIN ws = 1..Len(ws)
         /\ \A i \in DOMAIN ws : ws[i] \in WidgetsOf(IdsUpTo(n))
<1> DEFINE G == GridWidgets(IdsUpTo(n))
           H == WidgetsOf(IdsUpTo(n))
<1>1. ws \in Seq(G) /\ G \subseteq H
  BY DEF Sound, GridWidgets
<1> HIDE DEF G, H
<1>2. ws \in Seq(H)
  BY <1>1
<1>3. \A i \in DOMAIN ws : ws[i] \in H
  BY <1>2
<1> QED BY <1>2, <1>3 DEF H

\* A widget of a kind, wherever it is put, has a layout of integers.
LEMMA WidgetTyped ==
  ASSUME NEW I, NEW id \in I, id[1] \in Int, NEW kind \in DOMAIN DefaultSize
  PROVE  Widget(id, kind, "default") \in WidgetsOf(I)
<1>1. DefaultLayout(kind, id[1]) \in Layouts
  BY DefaultsInGrid
<1> QED BY <1>1 DEF Widget, WidgetsOf

\* A widget or a layout in which fields are changed
LEMMA CopyTyped ==
  ASSUME NEW I, NEW w \in WidgetsOf(I), NEW id \in I, NEW y \in Int
  PROVE  [w EXCEPT !.id = id, !.layout.y = y] \in WidgetsOf(I)
BY DEF WidgetsOf, Layouts

LEMMA ShiftTyped ==
  ASSUME NEW layout \in Layouts, NEW dx \in Int, NEW dy \in Int, NEW dw \in Int, NEW dh \in Int
  PROVE  [layout EXCEPT !.x = @ + dx, !.y = @ + dy, !.w = @ + dw, !.h = @ + dh] \in Layouts
<1>1. /\ layout.x + dx \in Int /\ layout.y + dy \in Int
      /\ layout.w + dw \in Int /\ layout.h + dh \in Int
  BY DEF Layouts
<1> QED BY <1>1 DEF Layouts

-----------------------------------------------------------------------------
\* What an edit makes of the widgets of the draft

\* The draft is edited once more.
LEMMA EditSound ==
  ASSUME DraftsInv, Contents, Bounded, NEW ws, Edit(ws), Sound(ws, edits + 1)
  PROVE  Contents'
<1>1. /\ edits \in Nat /\ edits' = edits + 1 /\ edits <= edits'
      /\ draft' = [draft EXCEPT !.widgets = ws]
      /\ UNCHANGED <<stored, list, calls, handler>>
  BY DEF Edit, Bounded, control
<1>2. draft'.widgets = ws
  BY <1>1 DEF DraftsInv, Shape
<1>3. \A xs : Sound(xs, edits) => Sound(xs, edits')
  BY <1>1, SoundLater
<1>4. Sound(ws, edits')
  BY <1>1
<1> QED BY <1>1, <1>2, <1>3, <1>4 DEF Contents

LEMMA DraftTyped ==
  ASSUME Contents, Bounded
  PROVE  /\ Sound(draft.widgets, edits) /\ edits \in Nat /\ edits + 1 \in Nat
         /\ draft.widgets \in Seq(WidgetsOf(IdsUpTo(edits)))
         /\ draft.widgets \in Seq(WidgetsOf(IdsUpTo(edits + 1)))
         /\ Len(draft.widgets) \in Nat
         /\ Len(draft.widgets) <= Len(FirstKinds) + edits
<1>1. Sound(draft.widgets, edits) /\ edits \in Nat
  BY DEF Contents, Bounded
<1>2. Sound(draft.widgets, edits + 1)
  BY <1>1, SoundLater
<1> QED BY <1>1, <1>2, SoundWidgets DEF Sound

LEMMA AddSound ==
  ASSUME DraftsInv, Contents, Bounded, NEW kind \in Kinds, AddWidget(kind)
  PROVE  Contents'
<1> DEFINE ws == draft.widgets
           H == WidgetsOf(IdsUpTo(edits + 1))
           new == Widget(<<Len(ws) + 1, 0>>, kind, "default")
           more == Append(ws, new)
<1>1. ws \in Seq(H) /\ Len(ws) \in Nat /\ Len(ws) <= Len(FirstKinds) + edits /\ edits \in Nat
  BY DraftTyped
<1>2. <<Len(ws) + 1, 0>> \in IdsUpTo(edits + 1)
  BY <1>1, FirstLength DEF IdsUpTo
<1>3. kind \in DOMAIN DefaultSize
  BY KindsAssumption
<1>4. new \in H
  BY <1>1, <1>2, <1>3, WidgetTyped
<1>5. Edit(Compact(more, {}))
  BY DEF AddWidget
<1> HIDE DEF new, ws, H
<1>6. more \in Seq(H) /\ Len(more) <= Len(FirstKinds) + (edits + 1)
  BY <1>1, <1>4, FirstLength
<1> HIDE DEF more
<1>7. Sound(Compact(more, {}), edits + 1)
  BY <1>1, <1>6, CompactSound DEF H
<1> QED BY <1>5, <1>7, EditSound

\* The widget that an edit of an id starts from
LEMMA FirstTyped ==
  ASSUME Contents, Bounded, NEW id \in ids
  PROVE  /\ First(id) \in WidgetsOf(IdsUpTo(edits + 1))
         /\ First(id).id = id
         /\ id \in IdsUpTo(edits)
<1>1. PICK i \in DOMAIN draft.widgets : draft.widgets[i].id = id
  BY DEF ids
<1>2. draft.widgets \in Seq(WidgetsOf(IdsUpTo(edits + 1)))
      /\ draft.widgets \in Seq(WidgetsOf(IdsUpTo(edits)))
  BY DraftTyped
<1>3. PICK k \in DOMAIN draft.widgets : First(id) = draft.widgets[k] /\ draft.widgets[k].id = id
  <2> DEFINE ws == draft.widgets
             some == {id}
  <2>1. ws \in Seq(WidgetsOf(IdsUpTo(edits))) /\ i \in DOMAIN ws /\ ws[i].id \in some
    BY <1>1, <1>2
  <2> HIDE DEF ws, some
  <2>2. PICK k \in DOMAIN ws : FirstOf(ws, some) = ws[k] /\ ws[k].id \in some
    BY <2>1, FirstFound
  <2> QED BY <2>2 DEF ws, some, First
<1>4. draft.widgets[k] \in WidgetsOf(IdsUpTo(edits + 1))
      /\ draft.widgets[k] \in WidgetsOf(IdsUpTo(edits))
  BY <1>2, SMTT(30)
<1>5. \A w \in WidgetsOf(IdsUpTo(edits)) : w.id \in IdsUpTo(edits)
  BY DEF WidgetsOf
<1> QED BY <1>3, <1>4, <1>5

LEMMA DuplicateSound ==
  ASSUME DraftsInv, Contents, Bounded, NEW id \in ids, DuplicateWidget(id)
  PROVE  Contents'
<1> DEFINE ws == draft.widgets
           H == WidgetsOf(IdsUpTo(edits + 1))
           copy == [First(id) EXCEPT !.id = <<id[1], edits + 1>>,
                                     !.layout.y = @ + First(id).layout.h]
           more == Append(ws, copy)
<1>1. ws \in Seq(H) /\ Len(ws) \in Nat /\ Len(ws) <= Len(FirstKinds) + edits /\ edits \in Nat
  BY DraftTyped
<1>2. First(id) \in H /\ id \in IdsUpTo(edits)
  BY FirstTyped
<1>3. <<id[1], edits + 1>> \in IdsUpTo(edits + 1)
  BY <1>1, <1>2, FirstLength DEF IdsUpTo
<1>4. copy \in H
  <2> DEFINE w == First(id)
  <2>1. w \in H
    BY <1>2
  <2> HIDE DEF w
  <2>2. w.layout.y + w.layout.h \in Int
    BY <2>1 DEF WidgetsOf, Layouts
  <2>3. [w EXCEPT !.id = <<id[1], edits + 1>>, !.layout.y = w.layout.y + w.layout.h] \in H
    BY <1>3, <2>1, <2>2, CopyTyped
  <2> QED BY <2>3 DEF w
<1>5. Edit(Compact(more, {}))
  BY DEF DuplicateWidget
<1> HIDE DEF copy, ws, H
<1>6. more \in Seq(H) /\ Len(more) <= Len(FirstKinds) + (edits + 1)
  BY <1>1, <1>4, FirstLength
<1> HIDE DEF more
<1>7. Sound(Compact(more, {}), edits + 1)
  BY <1>1, <1>6, CompactSound DEF H
<1> QED BY <1>5, <1>7, EditSound

LEMMA RemoveSound ==
  ASSUME DraftsInv, Contents, Bounded, NEW id \in ids, RemoveWidget(id)
  PROVE  Contents'
<1> DEFINE H == WidgetsOf(IdsUpTo(edits + 1))
           less == Without(draft.widgets, {id})
<1>1. /\ draft.widgets \in Seq(H) /\ edits \in Nat /\ edits + 1 \in Nat
      /\ Len(draft.widgets) \in Nat /\ Len(draft.widgets) <= Len(FirstKinds) + edits
  BY DraftTyped
<1>2. less \in Seq(H) /\ Len(less) <= Len(draft.widgets)
  <2> HIDE DEF H
  <2> QED BY <1>1, WithoutPicks
<1>3. Len(less) <= Len(FirstKinds) + (edits + 1)
  BY <1>1, <1>2, FirstLength
<1>4. Edit(Compact(less, {}))
  BY DEF RemoveWidget
<1> HIDE DEF less
<1>5. Sound(Compact(less, {}), edits + 1)
  BY <1>1, <1>2, <1>3, CompactSound
<1> QED BY <1>4, <1>5, EditSound

\* A list of the same length, compacted
LEMMA SameLengthSound ==
  ASSUME DraftsInv, Contents, Bounded, NEW some,
         NEW ws \in [DOMAIN draft.widgets -> WidgetsOf(IdsUpTo(edits + 1))],
         Edit(Compact(ws, some))
  PROVE  Contents'
<1> DEFINE H == WidgetsOf(IdsUpTo(edits + 1))
           m == Len(draft.widgets)
<1>1. /\ draft.widgets \in Seq(H) /\ edits \in Nat /\ edits + 1 \in Nat
      /\ m \in Nat /\ m <= Len(FirstKinds) + edits
  BY DraftTyped
<1>2. DOMAIN draft.widgets = 1..m
  BY <1>1
<1>3. ws \in [1..m -> H]
  BY <1>2
<1> HIDE DEF H, m
<1>4. ws \in Seq(H) /\ Len(ws) = m
  BY <1>1, <1>3
<1>5. Len(ws) <= Len(FirstKinds) + (edits + 1)
  BY <1>1, <1>4, FirstLength
<1>6. Sound(Compact(ws, some), edits + 1)
  BY <1>1, <1>4, <1>5, CompactSound DEF H
<1> QED BY <1>6, EditSound

LEMMA UpdateSound ==
  ASSUME DraftsInv, Contents, Bounded, NEW id \in ids, UpdateWidget(id)
  PROVE  Contents'
<1> DEFINE H == WidgetsOf(IdsUpTo(edits + 1))
           ws == [i \in DOMAIN draft.widgets |->
                    IF draft.widgets[i].id = id THEN [First(id) EXCEPT !.mark = "edited"]
                    ELSE draft.widgets[i]]
<1>1. draft.widgets \in Seq(H)
  BY DraftTyped
<1>2. First(id) \in H
  BY FirstTyped
<1>3. [First(id) EXCEPT !.mark = "edited"] \in H
  BY <1>2 DEF WidgetsOf
<1> HIDE DEF H
<1>4. \A i \in DOMAIN draft.widgets : draft.widgets[i] \in H
  BY <1>1
<1>5. ws \in [DOMAIN draft.widgets -> H]
  BY <1>3, <1>4
<1>6. Edit(Compact(ws, {}))
  BY DEF UpdateWidget
<1> HIDE DEF ws
<1> QED BY <1>5, <1>6, SameLengthSound DEF H

\* A move and a resize
LEMMA ChangeSound ==
  ASSUME DraftsInv, Contents, Bounded, NEW id \in ids,
         NEW by \in [x: Int, y: Int, w: Int, h: Int],
         Edit(Change(draft.widgets, id, by))
  PROVE  Contents'
<1> DEFINE H == WidgetsOf(IdsUpTo(edits + 1))
           Changed(layout) == [layout EXCEPT !.x = @ + by.x, !.y = @ + by.y,
                                             !.w = @ + by.w, !.h = @ + by.h]
           ws == [i \in DOMAIN draft.widgets |->
                    IF draft.widgets[i].id = id
                    THEN WithLayout(draft.widgets[i], Changed(Normalize(draft.widgets[i].layout)))
                    ELSE draft.widgets[i]]
<1>1. draft.widgets \in Seq(H)
  BY DraftTyped
<1>2. \A i \in DOMAIN draft.widgets : draft.widgets[i] \in H
  <2> HIDE DEF H
  <2> QED BY <1>1
<1>3. ASSUME NEW layout \in Layouts PROVE Changed(layout) \in Layouts
  <2>1. by.x \in Int /\ by.y \in Int /\ by.w \in Int /\ by.h \in Int
    OBVIOUS
  <2> QED BY <2>1, ShiftTyped
<1>4. ASSUME NEW w \in H PROVE WithLayout(w, Changed(Normalize(w.layout))) \in H
  <2>1. w.layout \in Layouts
    BY DEF WidgetsOf
  <2>2. Normalize(w.layout) \in Layouts
    BY <2>1, NormalizedInGrid
  <2>3. Changed(Normalize(w.layout)) \in Layouts
    BY <1>3, <2>2
  <2> HIDE DEF Changed
  <2> QED BY <2>3, PutInGrid DEF GridWidgets
<1> HIDE DEF H, Changed
<1>5. ws \in [DOMAIN draft.widgets -> H]
  BY <1>2, <1>4
<1>6. \E i \in DOMAIN draft.widgets : draft.widgets[i].id = id
  BY DEF ids
<1>7. Change(draft.widgets, id, by) = Compact(ws, {id})
  BY <1>6 DEF Change, Changed
<1> HIDE DEF ws
<1>8. Edit(Compact(ws, {id}))
  BY <1>7
<1> QED BY <1>5, <1>8, SameLengthSound DEF H

LEMMA MoveSound ==
  ASSUME DraftsInv, Contents, Bounded, NEW id \in ids, NEW delta \in Deltas,
         MoveWidget(id, delta) \/ ResizeWidget(id, delta)
  PROVE  Contents'
<1>1. delta[1] \in Int /\ delta[2] \in Int
  BY DeltasAssumption
<1> DEFINE move == [x |-> delta[1], y |-> delta[2], w |-> 0, h |-> 0]
           resize == [x |-> 0, y |-> 0, w |-> delta[1], h |-> delta[2]]
<1>2. move \in [x: Int, y: Int, w: Int, h: Int] /\ resize \in [x: Int, y: Int, w: Int, h: Int]
  BY <1>1
<1>3. \/ Edit(Change(draft.widgets, id, move))
      \/ Edit(Change(draft.widgets, id, resize))
  BY DEF MoveWidget, ResizeWidget, Move, Resize
<1> HIDE DEF move, resize
<1> QED BY <1>2, <1>3, ChangeSound

-----------------------------------------------------------------------------
\* The lists that the steps pass on

\* A step that edits nothing leaves each list of widgets sound if it is one that
\* there was, or an empty one.
LEMMA PassedOn ==
  ASSUME Contents, Bounded, edits' = edits,
         \A n \in Names : Sound(stored'[n].widgets, edits) /\ Sound(list'[n].widgets, edits),
         Sound(draft'.widgets, edits),
         \A i \in DOMAIN calls' : Sound(calls'[i].input.widgets, edits),
         Sound(handler'.input.widgets, edits)
  PROVE  Contents'
BY DEF Contents

\* Somebody else's save marks the widgets and leaves them where they are.
LEMMA MarkedSound ==
  ASSUME NEW n \in Nat, NEW ws, Sound(ws, n)
  PROVE  Sound([i \in DOMAIN ws |-> [ws[i] EXCEPT !.mark = "foreign"]], n)
<1> DEFINE G == GridWidgets(IdsUpTo(n))
           out == [i \in DOMAIN ws |-> [ws[i] EXCEPT !.mark = "foreign"]]
<1>1. ws \in Seq(G) /\ Len(ws) \in Nat /\ DOMAIN ws = 1..Len(ws)
  BY DEF Sound
<1>2. ASSUME NEW w \in G
      PROVE  [w EXCEPT !.mark = "foreign"] \in G /\ [w EXCEPT !.mark = "foreign"].layout = w.layout
  BY DEF GridWidgets, WidgetsOf
<1> HIDE DEF G
<1>3. ASSUME NEW i \in DOMAIN ws PROVE out[i] \in G /\ out[i].layout = ws[i].layout
  <2>1. ws[i] \in G
    BY <1>1
  <2>2. out[i] = [ws[i] EXCEPT !.mark = "foreign"]
    OBVIOUS
  <2> HIDE DEF out
  <2> QED BY <1>2, <2>1, <2>2
<1>4. out = [i \in 1..Len(ws) |-> [ws[i] EXCEPT !.mark = "foreign"]]
  BY <1>1
<1>5. DOMAIN out = DOMAIN ws
  OBVIOUS
<1> HIDE DEF out
<1>6. out \in Seq(G) /\ Len(out) = Len(ws)
  BY <1>1, <1>3, <1>4
<1>7. Apart(out)
  BY <1>3, <1>5 DEF Sound, Apart
<1> QED BY <1>6, <1>7 DEF Sound, G, out

LEMMA ContentsKeep == DraftsInv /\ Contents /\ Bounded /\ [Next]_vars => Contents'
<1> SUFFICES ASSUME DraftsInv, Contents, Bounded, [Next]_vars PROVE Contents'
  OBVIOUS
<1> USE DEF tab, control, counters, server
<1>1. /\ \A n \in Names : Sound(stored[n].widgets, edits) /\ Sound(list[n].widgets, edits)
      /\ Sound(draft.widgets, edits)
      /\ \A i \in DOMAIN calls : Sound(calls[i].input.widgets, edits)
      /\ Sound(handler.input.widgets, edits)
  BY DEF Contents
<1>2. edits \in Nat /\ Sound(<<>>, edits)
  BY SoundEmpty DEF Bounded
<1>3. /\ Closed.widgets = <<>> /\ Absent.widgets = <<>> /\ NoCall.input.widgets = <<>>
  BY DEF Closed, Absent, NoCall, NoInput
<1>4. /\ DOMAIN draft = {"id", "name", "base", "widgets", "open"}
      /\ DOMAIN stored = Names /\ IsSeq(calls)
      /\ selected \in Names \cup {NoId} /\ From(handler.input)
  BY DEF DraftsInv, Shape
<1>5. Sound(Selected.widgets, edits)
  BY <1>1, <1>2, <1>3, <1>4 DEF Selected
<1>6. CASE EditStep
  <2>1. ASSUME NEW n \in Names, Rename(n) PROVE Contents'
    <3>0. edits' = edits + 1 /\ draft'.widgets = draft.widgets
          /\ UNCHANGED <<stored, list, calls, handler>>
      BY <1>4, <2>1 DEF Rename
    <3>1. edits' \in Nat /\ edits <= edits'
      BY <1>2, <3>0
    <3>2. \A ws : Sound(ws, edits) => Sound(ws, edits')
      BY <1>2, <3>1, SoundLater
    <3> QED BY <1>1, <3>0, <3>2 DEF Contents
  <2> QED BY <1>6, <2>1, AddSound, DuplicateSound, RemoveSound, UpdateSound, MoveSound
       DEF EditStep
<1>7. ASSUME NEW n \in Names, OpenDashboard(n) PROVE Contents'
  BY <1>1, <1>7, PassedOn DEF OpenDashboard
<1>8. CASE CreateDashboard
  <2>1. draft'.widgets = <<>>
    BY <1>3, <1>8 DEF CreateDashboard, StartDraft
  <2> QED BY <1>1, <1>2, <1>8, <2>1, PassedOn DEF CreateDashboard
<1>9. CASE EnterEditMode
  <2>1. draft'.widgets = Selected.widgets
    BY <1>9 DEF EnterEditMode, StartDraft
  <2> QED BY <1>1, <1>5, <1>9, <2>1, PassedOn DEF EnterEditMode
<1>10. CASE DuplicateDashboard
  <2>1. PICK copy :
          draft' = StartDraft(NoId, copy, [Absent EXCEPT !.widgets = Selected.widgets])
    BY <1>10 DEF DuplicateDashboard
  <2> DEFINE content == Selected.widgets
  <2> HIDE DEF content
  <2>2. draft' = StartDraft(NoId, copy, [Absent EXCEPT !.widgets = content])
    BY <2>1 DEF content
  <2>3. "widgets" \in DOMAIN Absent
    BY DEF Absent
  <2>4. [Absent EXCEPT !.widgets = content].widgets = content
    BY <2>3
  <2>5. draft'.widgets = content
    BY <2>2, <2>4 DEF StartDraft
  <2> QED BY <1>1, <1>5, <1>10, <2>5, PassedOn DEF DuplicateDashboard, content
<1>11. CASE DiscardChanges
  BY <1>1, <1>2, <1>3, <1>11, PassedOn DEF DiscardChanges
<1>12. CASE Save
  <2> DEFINE new == [call |-> mutations + 1, input |-> SaveInput(draft)]
  <2>1. calls' = Append(calls, new)
    BY <1>12 DEF Save
  <2>2. new.input.widgets = SortForSave(Compact(draft.widgets, {}))
    BY DEF SaveInput
  <2>3. Sound(new.input.widgets, edits)
    <3>1. /\ draft.widgets \in Seq(WidgetsOf(IdsUpTo(edits)))
          /\ Len(draft.widgets) <= Len(FirstKinds) + edits
      BY DraftTyped
    <3>2. Sound(Compact(draft.widgets, {}), edits)
      BY <1>2, <3>1, CompactSound
    <3> QED BY <1>2, <2>2, <3>2, SortSound
  <2> HIDE DEF new
  <2>4. \A i \in DOMAIN calls' : (i \in DOMAIN calls /\ calls'[i] = calls[i]) \/ calls'[i] = new
    <3>1. /\ DOMAIN calls' = 1..(Len(calls) + 1) /\ DOMAIN calls = 1..Len(calls)
          /\ Len(calls) \in Nat /\ \A i \in DOMAIN calls : calls'[i] = calls[i]
          /\ calls'[Len(calls) + 1] = new
      BY <1>4, <2>1, Appended
    <3> QED BY <3>1
  <2>5. \A i \in DOMAIN calls' : Sound(calls'[i].input.widgets, edits)
    BY <1>1, <2>3, <2>4
  <2> QED BY <1>1, <1>12, <2>5, PassedOn DEF Save
<1>13. CASE SaveSucceeds
  BY <1>1, <1>2, <1>3, <1>13, PassedOn DEF SaveSucceeds
<1>14. CASE SaveFails
  BY <1>1, <1>14, PassedOn DEF SaveFails
<1>15. CASE DeleteSelected
  BY <1>1, <1>15, PassedOn DEF DeleteSelected
<1>16. CASE DeleteSucceeds
  BY <1>1, <1>2, <1>3, <1>16, PassedOn DEF DeleteSucceeds
<1>17. CASE Refetch
  BY <1>1, <1>17, PassedOn DEF Refetch
<1>18. CASE SaveReads
  <2>1. calls # <<>> /\ calls' = Tail(calls)
        /\ UNCHANGED <<stored, list, selected, draft, edits>>
    BY <1>18 DEF SaveReads
  <2>2. /\ 1 \in DOMAIN calls
        /\ \A i \in DOMAIN calls' : i + 1 \in DOMAIN calls /\ calls'[i] = calls[i + 1]
    BY <1>4, <2>1, Rest
  <2>3. handler' = handler \/ handler'.input = calls[1].input
    BY <1>18 DEF SaveReads
  <2>4. Sound(handler'.input.widgets, edits)
    BY <1>1, <2>2, <2>3
  <2>5. \A i \in DOMAIN calls' : Sound(calls'[i].input.widgets, edits)
    BY <1>1, <2>2
  <2> QED BY <1>1, <2>1, <2>4, <2>5, PassedOn
<1>19. CASE SaveDeletes
  <2>1. \A n \in Names : stored'[n] \in {stored[n], Absent}
    BY <1>4, <1>19 DEF SaveDeletes
  <2>2. handler'.input = handler.input
    BY <1>19 DEF SaveDeletes, DraftsInv, Shape
  <2> QED BY <1>1, <1>2, <1>3, <1>19, <2>1, <2>2, PassedOn DEF SaveDeletes
<1>20. CASE SavePuts
  <2> DEFINE new == [version |-> handler.input.base.version + 1,
                     createdAt |-> handler.createdAt,
                     widgets |-> handler.input.widgets]
  <2>1. new.widgets = handler.input.widgets
    OBVIOUS
  <2>2. stored' = [stored EXCEPT ![handler.input.name] = new]
    BY <1>20 DEF SavePuts
  <2> HIDE DEF new
  <2>3. \A n \in Names : stored'[n] = stored[n] \/ stored'[n].widgets = handler.input.widgets
    BY <1>4, <2>1, <2>2
  <2> QED BY <1>1, <1>2, <1>3, <1>20, <2>3, PassedOn DEF SavePuts
<1>21. ASSUME NEW n \in Names, DeleteHandled(n) PROVE Contents'
  <2>1. \A m \in Names : stored'[m] \in {stored[m], Absent}
    BY <1>4, <1>21 DEF DeleteHandled
  <2> QED BY <1>1, <1>2, <1>3, <1>21, <2>1, PassedOn DEF DeleteHandled
<1>22. ASSUME NEW n \in Names, OtherSaves(n) PROVE Contents'
  <2> DEFINE marked == [i \in DOMAIN stored[n].widgets |->
                          [stored[n].widgets[i] EXCEPT !.mark = "foreign"]]
             new == [version |-> stored[n].version + 1,
                     createdAt |-> stored[n].createdAt, widgets |-> marked]
  <2>1. stored' = [stored EXCEPT ![n] = new]
    BY <1>22 DEF OtherSaves
  <2>2. Sound(marked, edits)
    BY <1>1, <1>2, MarkedSound
  <2> HIDE DEF marked
  <2>3. new.widgets = marked
    OBVIOUS
  <2> HIDE DEF new
  <2>4. \A m \in Names : stored'[m] = stored[m] \/ stored'[m].widgets = marked
    BY <1>4, <2>1, <2>3
  <2> QED BY <1>1, <1>22, <2>2, <2>4, PassedOn DEF OtherSaves
<1>23. ASSUME NEW n \in Names, OtherDeletes(n) PROVE Contents'
  <2>1. \A m \in Names : stored'[m] \in {stored[m], Absent}
    BY <1>4, <1>23 DEF OtherDeletes
  <2> QED BY <1>1, <1>2, <1>3, <1>23, <2>1, PassedOn DEF OtherDeletes
<1>24. CASE SaveTimesOut
  BY <1>1, <1>24, PassedOn DEF SaveTimesOut
<1>25. CASE SaveBreaks
  BY <1>1, <1>2, <1>3, <1>25, PassedOn DEF SaveBreaks
<1>26. CASE UNCHANGED vars
  BY <1>1, <1>26, PassedOn DEF vars
<1> QED
  BY <1>6, <1>7, <1>8, <1>9, <1>10, <1>11, <1>12, <1>13, <1>14, <1>15, <1>16, <1>17,
     <1>18, <1>19, <1>20, <1>21, <1>22, <1>23, <1>24, <1>25, <1>26
  DEF Next, TabStep

-----------------------------------------------------------------------------
\* How many versions there can be

LEMMA RefsTyped == DraftsInv => \A r \in Refs : r.version \in Nat
BY DEF DraftsInv, Shape, StoredRec, Rec, From, Refs

LEMMA WaitingTyped == DraftsInv => Waiting \in Nat /\ Len(calls) \in Nat
<1> SUFFICES ASSUME DraftsInv PROVE Waiting \in Nat /\ Len(calls) \in Nat
  OBVIOUS
<1>1. Len(calls) \in Nat
  BY DEF DraftsInv, Shape, IsSeq
<1> QED BY <1>1 DEF Waiting

\* A new version needs a save that no longer waits, or the interference of another.
LEMMA BoundedStep ==
  ASSUME DraftsInv, Bounded,
         edits' \in Nat, mutations' \in Nat, edits' + mutations' <= MaxWork,
         foreign' \in 0..MaxForeign, foreign <= foreign',
         saving' \in 0..mutations', deleting' \in BOOLEAN,
         answers' \in [save: Names \cup {NoId, "error"}, delete: BOOLEAN],
         deletes' \subseteq Names,
         Waiting' \in Nat, Waiting' <= mutations',
         mutations - Waiting <= mutations' - Waiting',
         \A r \in Refs' : \/ r \in Refs \/ r.version = 0
                          \/ r.version <= 1 + foreign' + mutations' - Waiting'
  PROVE  Bounded'
<1> DEFINE w == Waiting'
           u == mutations'
           f == foreign'
           most == 1 + foreign + mutations - Waiting
           more == 1 + f + u - w
<1>1. foreign \in Int /\ mutations \in Int /\ Waiting \in Int
  BY WaitingTyped, BoundsAssumption DEF Bounded
<1>2. /\ w \in Int /\ u \in Int /\ f \in Nat /\ w <= u /\ foreign <= f
      /\ mutations - Waiting <= u - w
  BY BoundsAssumption
<1>3. \A r \in Refs' : r \in Refs \/ r.version = 0 \/ r.version <= more
  OBVIOUS
<1>4. \A r \in Refs : r.version \in Nat /\ r.version <= most
  BY RefsTyped DEF Bounded
<1> HIDE DEF w, u, f
<1>5. most \in Int /\ more \in Int /\ most <= more /\ 0 <= more
  BY <1>1, <1>2
<1> HIDE DEF most, more
<1>6. \A r \in Refs' : r.version <= more
  BY <1>3, <1>4, <1>5
<1>7. \A r \in Refs' : r.version <= 1 + foreign' + mutations' - Waiting'
  BY <1>6 DEF more, w, u, f
<1> QED BY <1>7 DEF Bounded

\* A step that leaves the saves and the deletes alone
LEMMA BoundedRest ==
  ASSUME DraftsInv, Bounded,
         UNCHANGED <<saving, deleting, answers, calls, handler, deletes, mutations, foreign>>,
         edits' \in Nat, edits' + mutations <= MaxWork,
         \A r \in Refs' : r \in Refs \/ r.version = 0
  PROVE  Bounded'
<1>1. Waiting' = Waiting
  BY DEF Waiting
<1>2. /\ mutations \in Int /\ foreign \in Int /\ Waiting \in Nat /\ Waiting <= mutations
      /\ foreign <= foreign /\ mutations - Waiting <= mutations - Waiting
  BY WaitingTyped, BoundsAssumption DEF Bounded
<1>3. /\ mutations' \in Nat /\ edits' + mutations' <= MaxWork /\ foreign' \in 0..MaxForeign
      /\ saving' \in 0..mutations' /\ deleting' \in BOOLEAN
      /\ answers' \in [save: Names \cup {NoId, "error"}, delete: BOOLEAN]
      /\ deletes' \subseteq Names /\ foreign <= foreign'
  BY <1>2 DEF Bounded
<1>4. Waiting' \in Nat /\ Waiting' <= mutations' /\ mutations - Waiting <= mutations' - Waiting'
  BY <1>1, <1>2
<1> QED BY <1>3, <1>4, BoundedStep

LEMMA AnswerTyped ==
  ASSUME Bounded, NEW call, NEW answer \in Names \cup {NoId, "error"}, Answer(call, answer)
  PROVE  answers' \in [save: Names \cup {NoId, "error"}, delete: BOOLEAN]
BY DEF Bounded, Answer

LEMMA BoundedKeep == DraftsInv /\ Bounded /\ [Next]_vars => Bounded'
<1> SUFFICES ASSUME DraftsInv, Bounded, [Next]_vars PROVE Bounded'
  OBVIOUS
<1> USE DEF tab, control, counters, server
<1>1. /\ edits \in Nat /\ mutations \in Nat /\ edits + mutations <= MaxWork
      /\ foreign \in 0..MaxForeign /\ foreign \in Nat /\ MaxForeign \in Nat /\ MaxWork \in Nat
      /\ saving \in 0..mutations /\ deleting \in BOOLEAN
      /\ answers \in [save: Names \cup {NoId, "error"}, delete: BOOLEAN]
      /\ deletes \subseteq Names
      /\ Waiting \in Nat /\ Len(calls) \in Nat /\ Waiting <= mutations
  BY WaitingTyped, BoundsAssumption DEF Bounded
<1>2. Closed.base = Absent /\ Absent.version = 0 /\ NoCall.input.base = Absent /\ NoCall.pc = "idle"
  BY DEF Closed, Absent, NoCall, NoInput
<1>3. /\ DOMAIN draft = {"id", "name", "base", "widgets", "open"}
      /\ DOMAIN stored = Names /\ DOMAIN list = Names /\ IsSeq(calls)
      /\ selected \in Names \cup {NoId}
      /\ DOMAIN handler = {"call", "pc", "input", "createdAt"}
      /\ handler.input.name \in Names /\ handler.pc \in {"idle", "delete", "put"}
  BY DEF DraftsInv, Shape, From
<1>4. Selected \in Refs \/ Selected.version = 0
  BY <1>2, <1>3 DEF Selected, Refs
<1>5. Selected # Absent => selected \in Names
  BY <1>3 DEF Selected
<1>6. CASE EditStep
  <2>1. /\ CanWork /\ edits' = edits + 1 /\ draft'.base = draft.base
        /\ UNCHANGED <<stored, list, saving, deleting, answers, calls, handler, deletes,
                       mutations, foreign>>
    BY <1>3, <1>6
    DEF EditStep, AddWidget, DuplicateWidget, RemoveWidget, UpdateWidget, MoveWidget,
        ResizeWidget, Rename, Edit
  <2>2. Refs' = Refs
    BY <2>1 DEF Refs
  <2>3. edits' \in Nat /\ edits' + mutations <= MaxWork
    BY <1>1, <2>1 DEF CanWork
  <2> QED BY <2>1, <2>2, <2>3, BoundedRest
<1>7. ASSUME NEW n \in Names, OpenDashboard(n) PROVE Bounded'
  <2>1. Refs' = Refs
    BY <1>7 DEF OpenDashboard, Refs
  <2> QED BY <1>1, <1>7, <2>1, BoundedRest DEF OpenDashboard
<1>8. CASE CreateDashboard
  <2>1. draft'.base = Absent
    BY <1>8 DEF CreateDashboard, StartDraft
  <2>2. \A r \in Refs' : r \in Refs \/ r.version = 0
    BY <1>2, <1>8, <2>1 DEF CreateDashboard, Refs
  <2> QED BY <1>1, <1>8, <2>2, BoundedRest DEF CreateDashboard
<1>9. CASE EnterEditMode
  <2>1. draft'.base = Selected
    BY <1>9 DEF EnterEditMode, StartDraft
  <2>2. \A r \in Refs' : r \in Refs \/ r = Selected
    BY <1>9, <2>1 DEF EnterEditMode, Refs
  <2> QED BY <1>1, <1>4, <1>9, <2>2, BoundedRest DEF EnterEditMode
<1>10. CASE DuplicateDashboard
  <2>1. PICK copy :
          draft' = StartDraft(NoId, copy, [Absent EXCEPT !.widgets = Selected.widgets])
    BY <1>10 DEF DuplicateDashboard
  <2>2. draft'.base.version = 0
    BY <2>1 DEF StartDraft, Absent
  <2>3. \A r \in Refs' : r \in Refs \/ r.version = 0
    BY <1>10, <2>2 DEF DuplicateDashboard, Refs
  <2> QED BY <1>1, <1>10, <2>3, BoundedRest DEF DuplicateDashboard
<1>11. CASE DiscardChanges
  <2>1. \A r \in Refs' : r \in Refs \/ r.version = 0
    BY <1>2, <1>11 DEF DiscardChanges, Refs
  <2> QED BY <1>1, <1>11, <2>1, BoundedRest DEF DiscardChanges
<1>12. CASE Save
  <2> DEFINE new == [call |-> mutations + 1, input |-> SaveInput(draft)]
  <2>1. calls' = Append(calls, new) /\ new.input.base = draft.base
    BY <1>12 DEF Save, SaveInput
  <2> HIDE DEF new
  <2>2. /\ Len(calls') = Len(calls) + 1 /\ DOMAIN calls = 1..Len(calls)
        /\ \A i \in DOMAIN calls' : (i \in DOMAIN calls /\ calls'[i] = calls[i]) \/ calls'[i] = new
    <3>1. /\ DOMAIN calls' = 1..(Len(calls) + 1) /\ DOMAIN calls = 1..Len(calls)
          /\ \A i \in DOMAIN calls : calls'[i] = calls[i]
          /\ calls'[Len(calls) + 1] = new /\ IsSeq(calls')
      BY <1>3, <2>1, Appended
    <3>2. Len(calls') \in Nat /\ DOMAIN calls' = 1..Len(calls')
      BY <3>1 DEF IsSeq
    <3>3. Len(calls') = Len(calls) + 1
      BY <1>1, <3>1, <3>2
    <3> QED BY <1>1, <3>1, <3>3
  <2>3. \A r \in Refs' : r \in Refs
    BY <1>12, <2>1, <2>2 DEF Save, Refs
  <2>4. Waiting' = Waiting + 1
    BY <1>1, <1>12, <2>2 DEF Waiting, Save
  <2>5. mutations' = mutations + 1 /\ edits + mutations < MaxWork
        /\ saving' = mutations + 1 /\ UNCHANGED <<deleting, answers, deletes, edits, foreign>>
    BY <1>12 DEF Save, CanWork
  <2>6. /\ mutations' \in Nat /\ edits' + mutations' <= MaxWork /\ foreign <= foreign'
        /\ saving' \in 0..mutations' /\ Waiting' \in Nat /\ Waiting' <= mutations'
        /\ mutations - Waiting <= mutations' - Waiting'
    BY <1>1, <2>4, <2>5
  <2> QED BY <1>1, <2>3, <2>5, <2>6, BoundedStep
<1>13. CASE SaveSucceeds
  <2>1. \A r \in Refs' : r \in Refs \/ r.version = 0
    BY <1>2, <1>13 DEF SaveSucceeds, Refs
  <2>2. Waiting' = Waiting /\ UNCHANGED <<deleting, deletes, edits, mutations, foreign>>
        /\ saving' = 0 /\ answers' = [answers EXCEPT !.save = NoId]
    BY <1>13 DEF SaveSucceeds, Waiting
  <2>3. /\ saving' \in 0..mutations' /\ foreign <= foreign'
        /\ mutations - Waiting <= mutations' - Waiting'
        /\ answers' \in [save: Names \cup {NoId, "error"}, delete: BOOLEAN]
    BY <1>1, <2>2
  <2> QED BY <1>1, <2>1, <2>2, <2>3, BoundedStep
<1>14. CASE SaveFails
  <2>1. Refs' = Refs
    BY <1>14 DEF SaveFails, Refs
  <2>2. Waiting' = Waiting /\ UNCHANGED <<deleting, deletes, edits, mutations, foreign>>
        /\ saving' = 0 /\ answers' = [answers EXCEPT !.save = NoId]
    BY <1>14 DEF SaveFails, Waiting
  <2>3. /\ saving' \in 0..mutations' /\ foreign <= foreign'
        /\ mutations - Waiting <= mutations' - Waiting'
        /\ answers' \in [save: Names \cup {NoId, "error"}, delete: BOOLEAN]
    BY <1>1, <2>2
  <2> QED BY <1>1, <2>1, <2>2, <2>3, BoundedStep
<1>15. CASE DeleteSelected
  <2>1. Refs' = Refs
    BY <1>15 DEF DeleteSelected, Refs
  <2>2. /\ Waiting' = Waiting /\ UNCHANGED <<saving, answers, edits, foreign>>
        /\ mutations' = mutations + 1 /\ edits + mutations < MaxWork /\ deleting' = TRUE
        /\ deletes' = deletes \cup {selected} /\ selected \in Names
    BY <1>5, <1>15 DEF DeleteSelected, Waiting, CanWork
  <2>3. /\ saving' \in 0..mutations' /\ foreign <= foreign' /\ mutations' \in Nat
        /\ edits' + mutations' <= MaxWork /\ Waiting' <= mutations'
        /\ mutations - Waiting <= mutations' - Waiting' /\ deletes' \subseteq Names
    BY <1>1, <2>2
  <2> QED BY <1>1, <2>1, <2>2, <2>3, BoundedStep
<1>16. CASE DeleteSucceeds
  <2>1. \A r \in Refs' : r \in Refs \/ r.version = 0
    BY <1>2, <1>16 DEF DeleteSucceeds, Refs
  <2>2. Waiting' = Waiting /\ UNCHANGED <<saving, deletes, edits, mutations, foreign>>
        /\ deleting' = FALSE /\ answers' = [answers EXCEPT !.delete = FALSE]
    BY <1>16 DEF DeleteSucceeds, Waiting
  <2>3. /\ foreign <= foreign' /\ mutations - Waiting <= mutations' - Waiting'
        /\ answers' \in [save: Names \cup {NoId, "error"}, delete: BOOLEAN]
    <3>1. foreign <= foreign' /\ mutations - Waiting <= mutations' - Waiting'
      BY <1>1, <2>2
    <3>2. answers' \in [save: Names \cup {NoId, "error"}, delete: BOOLEAN]
      BY <1>1, <2>2
    <3> QED BY <3>1, <3>2
  <2> QED BY <1>1, <2>1, <2>2, <2>3, BoundedStep
<1>17. CASE Refetch
  <2>1. \A r \in Refs' : r \in Refs
    BY <1>17 DEF Refetch, Refs
  <2> QED BY <1>1, <1>17, <2>1, BoundedRest DEF Refetch
<1>18. CASE SaveReads
  <2>1. /\ calls # <<>> /\ calls' = Tail(calls) /\ handler = NoCall
        /\ UNCHANGED <<stored, list, draft, saving, deleting, deletes, edits, mutations, foreign>>
    BY <1>18 DEF SaveReads
  <2>2. /\ 1 \in DOMAIN calls
        /\ \A i \in DOMAIN calls' : i + 1 \in DOMAIN calls /\ calls'[i] = calls[i + 1]
    BY <1>3, <2>1, Rest
  <2>3. \/ handler' = handler
        \/ handler'.input = calls[1].input
    BY <1>18 DEF SaveReads
  <2>4. answers' = answers \/ Answer(calls[1].call, "error")
    BY <1>18 DEF SaveReads
  <2>5. \A r \in Refs' : r \in Refs
    BY <2>1, <2>2, <2>3 DEF Refs
  <2>6. Len(calls') = Len(calls) - 1 /\ Len(calls) >= 1
    BY <1>3, <2>1 DEF IsSeq
  <2>7. Waiting = Len(calls) /\ Waiting' \in {Len(calls'), Len(calls') + 1}
    <3>1. Waiting = Len(calls)
      BY <1>1, <1>2, <2>1 DEF Waiting
    <3>2. Waiting' = Len(calls') + (IF handler'.pc = "idle" THEN 0 ELSE 1)
      BY DEF Waiting
    <3>3. Len(calls') \in Nat
      BY <1>1, <2>6
    <3> QED BY <3>1, <3>2, <3>3
  <2>8. /\ Waiting' \in Nat /\ Waiting' <= mutations' /\ foreign <= foreign'
        /\ mutations - Waiting <= mutations' - Waiting'
    BY <1>1, <2>1, <2>6, <2>7
  <2>9. answers' \in [save: Names \cup {NoId, "error"}, delete: BOOLEAN]
    BY <1>1, <2>4, AnswerTyped
  <2> QED BY <1>1, <2>1, <2>5, <2>8, <2>9, BoundedStep
<1>19. CASE SaveDeletes
  <2>1. \A n \in Names : stored'[n] \in {stored[n], Absent}
    BY <1>3, <1>19 DEF SaveDeletes
  <2>2. handler'.input = handler.input /\ handler'.pc = "put" /\ handler.pc = "delete"
    BY <1>3, <1>19 DEF SaveDeletes
  <2>3. \A r \in Refs' : r \in Refs \/ r.version = 0
    BY <1>2, <1>19, <2>1, <2>2 DEF SaveDeletes, Refs
  <2>4. Waiting' = Waiting
    BY <1>19, <2>2 DEF SaveDeletes, Waiting
  <2>5. foreign <= foreign' /\ mutations - Waiting <= mutations' - Waiting'
    BY <1>1, <1>19, <2>4 DEF SaveDeletes
  <2> QED BY <1>1, <1>19, <2>3, <2>4, <2>5, BoundedStep DEF SaveDeletes
<1>20. CASE SavePuts
  <2> DEFINE new == [version |-> handler.input.base.version + 1,
                     createdAt |-> handler.createdAt,
                     widgets |-> handler.input.widgets]
  <2>1. new.version = handler.input.base.version + 1
    OBVIOUS
  <2>2. /\ stored' = [stored EXCEPT ![handler.input.name] = new]
        /\ handler.pc = "put" /\ handler' = NoCall /\ Answer(handler.call, handler.input.name)
        /\ UNCHANGED <<list, draft, saving, deleting, calls, deletes, edits, mutations, foreign>>
    BY <1>20 DEF SavePuts
  <2> HIDE DEF new
  <2>3. \A r \in Refs' : r \in Refs \/ r.version = 0 \/ r = new
    BY <1>2, <1>3, <2>2 DEF Refs
  <2>4. Waiting = Len(calls) + 1 /\ Waiting' = Len(calls)
    BY <1>2, <2>2 DEF Waiting
  <2>5. /\ handler.input.base.version \in Nat
        /\ handler.input.base.version <= 1 + foreign + mutations - Waiting
    <3>1. handler.input.base \in Refs
      BY DEF Refs
    <3> QED BY <3>1, RefsTyped DEF Bounded
  <2>6. new.version <= 1 + foreign' + mutations' - Waiting'
    BY <1>1, <2>1, <2>2, <2>4, <2>5
  <2>7. /\ Waiting' \in Nat /\ Waiting' <= mutations' /\ foreign <= foreign'
        /\ mutations - Waiting <= mutations' - Waiting'
    BY <1>1, <2>2, <2>4
  <2>8. answers' \in [save: Names \cup {NoId, "error"}, delete: BOOLEAN]
    BY <1>3, <2>2, AnswerTyped
  <2>9. \A r \in Refs' : r \in Refs \/ r.version = 0
                         \/ r.version <= 1 + foreign' + mutations' - Waiting'
    BY <2>3, <2>6
  <2> QED BY <1>1, <2>2, <2>7, <2>8, <2>9, BoundedStep
<1>21. ASSUME NEW n \in Names, DeleteHandled(n) PROVE Bounded'
  <2>1. \A m \in Names : stored'[m] \in {stored[m], Absent}
    BY <1>3, <1>21 DEF DeleteHandled
  <2>2. \A r \in Refs' : r \in Refs \/ r.version = 0
    BY <1>2, <1>21, <2>1 DEF DeleteHandled, Refs
  <2>3. Waiting' = Waiting /\ UNCHANGED <<saving, deleting, edits, mutations, foreign>>
        /\ deletes' \subseteq deletes /\ answers' = [answers EXCEPT !.delete = TRUE]
    BY <1>21 DEF DeleteHandled, Waiting
  <2>4. /\ foreign <= foreign' /\ mutations - Waiting <= mutations' - Waiting'
        /\ answers' \in [save: Names \cup {NoId, "error"}, delete: BOOLEAN]
    <3>1. foreign <= foreign' /\ mutations - Waiting <= mutations' - Waiting'
      BY <1>1, <2>3
    <3>2. answers' \in [save: Names \cup {NoId, "error"}, delete: BOOLEAN]
      BY <1>1, <2>3
    <3> QED BY <3>1, <3>2
  <2> QED BY <1>1, <2>2, <2>3, <2>4, BoundedStep
<1>22. ASSUME NEW n \in Names, OtherSaves(n) PROVE Bounded'
  <2> DEFINE new == [version |-> stored[n].version + 1,
                     createdAt |-> stored[n].createdAt,
                     widgets |-> [i \in DOMAIN stored[n].widgets |->
                                    [stored[n].widgets[i] EXCEPT !.mark = "foreign"]]]
  <2>1. new.version = stored[n].version + 1
    OBVIOUS
  <2>2. /\ stored' = [stored EXCEPT ![n] = new] /\ foreign' = foreign + 1 /\ foreign < MaxForeign
        /\ UNCHANGED <<list, draft, saving, deleting, answers, calls, handler, deletes,
                       edits, mutations>>
    BY <1>22 DEF OtherSaves, Interfere
  <2> HIDE DEF new
  <2>3. \A r \in Refs' : r \in Refs \/ r = new
    BY <1>3, <2>2 DEF Refs
  <2>4. Waiting' = Waiting
    BY <2>2 DEF Waiting
  <2>5. stored[n].version \in Nat /\ stored[n].version <= 1 + foreign + mutations - Waiting
    <3>1. stored[n] \in Refs
      BY DEF Refs
    <3> QED BY <3>1, RefsTyped DEF Bounded
  <2>6. new.version <= 1 + foreign' + mutations' - Waiting'
    BY <1>1, <2>1, <2>2, <2>4, <2>5
  <2>7. /\ foreign <= foreign' /\ mutations - Waiting <= mutations' - Waiting'
        /\ foreign' \in 0..MaxForeign
    BY <1>1, <2>2, <2>4
  <2>8. \A r \in Refs' : r \in Refs \/ r.version = 0
                         \/ r.version <= 1 + foreign' + mutations' - Waiting'
    BY <2>3, <2>6
  <2> QED BY <1>1, <2>2, <2>4, <2>7, <2>8, BoundedStep
<1>23. ASSUME NEW n \in Names, OtherDeletes(n) PROVE Bounded'
  <2>1. \A m \in Names : stored'[m] \in {stored[m], Absent}
    BY <1>3, <1>23 DEF OtherDeletes
  <2>2. \A r \in Refs' : r \in Refs \/ r.version = 0
    BY <1>2, <1>23, <2>1 DEF OtherDeletes, Refs
  <2>3. /\ Waiting' = Waiting /\ UNCHANGED <<saving, deleting, answers, deletes, edits, mutations>>
        /\ foreign' = foreign + 1 /\ foreign < MaxForeign
    BY <1>23 DEF OtherDeletes, Interfere, Waiting
  <2>4. /\ foreign <= foreign' /\ mutations - Waiting <= mutations' - Waiting'
        /\ foreign' \in 0..MaxForeign
    BY <1>1, <2>3
  <2> QED BY <1>1, <2>2, <2>3, <2>4, BoundedStep
<1>24. CASE SaveTimesOut
  <2>1. Refs' = Refs
    BY <1>24 DEF SaveTimesOut, Refs
  <2>2. /\ Waiting' = Waiting /\ UNCHANGED <<saving, deleting, deletes, edits, mutations>>
        /\ foreign' = foreign + 1 /\ foreign < MaxForeign
        /\ answers' = [answers EXCEPT !.save = "error"]
    BY <1>24 DEF SaveTimesOut, Interfere, Waiting
  <2>3. /\ foreign <= foreign' /\ mutations - Waiting <= mutations' - Waiting'
        /\ foreign' \in 0..MaxForeign
        /\ answers' \in [save: Names \cup {NoId, "error"}, delete: BOOLEAN]
    BY <1>1, <2>2
  <2> QED BY <1>1, <2>1, <2>2, <2>3, BoundedStep
<1>25. CASE SaveBreaks
  <2>1. /\ handler' = NoCall /\ Answer(handler.call, "error")
        /\ foreign' = foreign + 1 /\ foreign < MaxForeign
        /\ UNCHANGED <<stored, list, draft, saving, deleting, calls, deletes, edits, mutations>>
    BY <1>25 DEF SaveBreaks, Interfere
  <2>2. \A r \in Refs' : r \in Refs \/ r.version = 0
    BY <1>2, <2>1 DEF Refs
  <2>3. Waiting' = Len(calls) /\ Waiting' <= Waiting
    BY <1>1, <1>2, <2>1 DEF Waiting
  <2>4. /\ foreign <= foreign' /\ mutations - Waiting <= mutations' - Waiting'
        /\ foreign' \in 0..MaxForeign /\ Waiting' \in Nat /\ Waiting' <= mutations'
    BY <1>1, <2>1, <2>3
  <2>5. answers' \in [save: Names \cup {NoId, "error"}, delete: BOOLEAN]
    BY <2>1, AnswerTyped
  <2> QED BY <1>1, <2>1, <2>2, <2>4, <2>5, BoundedStep
<1>26. CASE UNCHANGED vars
  <2>1. Refs' = Refs
    BY <1>26 DEF vars, Refs
  <2> QED BY <1>1, <1>26, <2>1, BoundedRest DEF vars
<1> QED
  BY <1>6, <1>7, <1>8, <1>9, <1>10, <1>11, <1>12, <1>13, <1>14, <1>15, <1>16, <1>17,
     <1>18, <1>19, <1>20, <1>21, <1>22, <1>23, <1>24, <1>25, <1>26
  DEF Next, TabStep

-----------------------------------------------------------------------------
\* The theorems

LEMMA ContentsFirst == Init => Contents /\ Bounded
<1> SUFFICES ASSUME Init PROVE Contents /\ Bounded
  OBVIOUS
<1> DEFINE first == [i \in DOMAIN FirstKinds |-> Widget(<<i, 0>>, FirstKinds[i], "default")]
           content == Compact(first, {})
           I == IdsUpTo(0)
<1>1. first \in Seq(WidgetsOf(I)) /\ Len(first) = Len(FirstKinds)
  <2>1. ASSUME NEW i \in 1..Len(FirstKinds)
        PROVE  Widget(<<i, 0>>, FirstKinds[i], "default") \in WidgetsOf(I)
    <3> DEFINE id == <<i, 0>>
               kind == FirstKinds[i]
    <3>1. id \in I /\ id[1] = i /\ i \in Int
      BY FirstLength DEF IdsUpTo
    <3>2. kind \in DOMAIN DefaultSize
      BY KindsAssumption
    <3> HIDE DEF id, kind, I
    <3>3. Widget(id, kind, "default") \in WidgetsOf(I)
      BY <3>1, <3>2, WidgetTyped
    <3> QED BY <3>3 DEF id, kind
  <2>2. first = [i \in 1..Len(FirstKinds) |-> Widget(<<i, 0>>, FirstKinds[i], "default")]
    BY FirstLength
  <2> HIDE DEF first, I
  <2> QED BY <2>1, <2>2, FirstLength
<1> HIDE DEF first
<1>2. Sound(content, 0) /\ Sound(<<>>, 0)
  BY <1>1, FirstLength, CompactSound, SoundEmpty
<1> HIDE DEF content
<1>3. PICK one \in Names :
        stored = [n \in Names |-> IF n = one
                                  THEN [version |-> 1, createdAt |-> 0, widgets |-> content]
                                  ELSE Absent]
  BY DEF Init, content, first
<1>4. /\ list = stored /\ draft = Closed /\ calls = <<>> /\ handler = NoCall
      /\ saving = 0 /\ deleting = FALSE /\ answers = [save |-> NoId, delete |-> FALSE]
      /\ deletes = {} /\ edits = 0 /\ mutations = 0 /\ foreign = 0
  BY DEF Init
<1>5. \A n \in Names : stored[n].version \in {0, 1} /\ stored[n].widgets \in {content, <<>>}
  BY <1>3 DEF Absent
<1>6. DOMAIN calls = {} /\ Len(calls) = 0
  BY <1>4
<1>7. Contents
  BY <1>2, <1>4, <1>5, <1>6 DEF Contents, Closed, NoCall, NoInput
<1>8. Waiting = 0
  BY <1>4, <1>6 DEF Waiting, NoCall
<1>9. \A r \in Refs : r.version \in {0, 1}
  BY <1>4, <1>5, <1>6 DEF Refs, Closed, NoCall, NoInput, Absent
<1>10. \A r \in Refs : r.version <= 1 + foreign + mutations - Waiting
  BY <1>4, <1>8, <1>9
<1>11. Bounded
  <2>1. /\ edits \in Nat /\ mutations \in Nat /\ edits + mutations <= MaxWork
        /\ foreign \in 0..MaxForeign /\ saving \in 0..mutations /\ Waiting <= mutations
    BY <1>4, <1>8, BoundsAssumption
  <2>2. /\ deleting \in BOOLEAN /\ deletes \subseteq Names
        /\ answers \in [save: Names \cup {NoId, "error"}, delete: BOOLEAN]
    BY <1>4
  <2> QED BY <1>10, <2>1, <2>2 DEF Bounded
<1> QED BY <1>7, <1>11

\* The contents of every list of widgets are sound, whatever is edited and saved.
THEOREM ContentsHold == Spec => [](DraftsInv /\ Contents /\ Bounded)
<1>1. Init => DraftsInv /\ Contents /\ Bounded
  BY Initially, ContentsFirst
<1>2. DraftsInv /\ Contents /\ Bounded /\ [Next]_vars => (DraftsInv /\ Contents /\ Bounded)'
  BY NextKeeps, ContentsKeep, BoundedKeep
<1> QED BY <1>1, <1>2, PTL DEF Spec

LEMMA SoundLayout ==
  ASSUME NEW n \in Nat, NEW ws, Sound(ws, n)
  PROVE  ValidLayout(ws)
<1> DEFINE G == GridWidgets(IdsUpTo(n))
<1>1. ws \in Seq(G) /\ \A w \in G : InGrid(w.layout)
  BY DEF Sound, GridWidgets
<1> HIDE DEF G
<1>2. \A i \in DOMAIN ws : InGrid(ws[i].layout)
  BY <1>1
<1> QED BY <1>2 DEF Sound, Apart, ValidLayout

\* Whatever the edits of the draft reducer and the saves of others, the widgets of
\* the draft and of every stored dashboard lie in the grid and do not overlap: what
\* compactDashboardLayout returns is valid for every list of widgets, two of one id
\* and layouts outside the grid included, and only compacted lists are ever stored.
THEOREM LayoutValidAlways == Spec => []LayoutValid
<1>1. Contents /\ Bounded => LayoutValid
  BY SoundLayout DEF Contents, Bounded, LayoutValid
<1> QED BY <1>1, ContentsHold, PTL

LEMMA SoundTyped ==
  ASSUME NEW n \in 0..MaxWork, NEW ws, Sound(ws, n)
  PROVE  ws \in Seq(Widgets)
<1>1. n \in Nat /\ MaxWork \in Nat /\ n <= MaxWork
  BY BoundsAssumption
<1>2. Sound(ws, MaxWork)
  BY <1>1, SoundLater
<1>3. ws \in Seq(WidgetsOf(IdsUpTo(MaxWork)))
  BY <1>1, <1>2, SoundWidgets
<1> QED BY <1>3 DEF Widgets, WidgetsOf, IdsUpTo, Ids

\* Every variable keeps its type and its bound: the version of a record counts the
\* saves that were handled and the interference of others, and the ids of widgets
\* the edits.
THEOREM TypeOKAlways == Spec => []TypeOK
<1>1. DraftsInv /\ Contents /\ Bounded => TypeOK
  <2> SUFFICES ASSUME DraftsInv, Contents, Bounded PROVE TypeOK
    OBVIOUS
  <2>1. /\ edits \in Nat /\ mutations \in Nat /\ edits + mutations <= MaxWork
        /\ foreign \in 0..MaxForeign /\ MaxWork \in Nat /\ MaxForeign \in Nat
        /\ Waiting \in Nat /\ Waiting <= mutations /\ Len(calls) \in Nat
    BY WaitingTyped, BoundsAssumption DEF Bounded
  <2>2. edits \in 0..MaxWork /\ mutations \in 0..(MaxWork - edits) /\ mutations <= MaxWork
    BY <2>1
  <2>3. \A r \in Refs : r.version \in Versions
    <3> SUFFICES ASSUME NEW r \in Refs PROVE r.version \in Versions
      OBVIOUS
    <3>1. r.version \in Nat /\ r.version <= 1 + foreign + mutations - Waiting
      BY RefsTyped DEF Bounded
    <3>2. r.version <= 1 + MaxWork + MaxForeign
      BY <2>1, <2>2, <3>1
    <3> QED BY <2>1, <3>1, <3>2 DEF Versions
  <2>4. \A n \in Names : /\ stored[n].version \in Versions /\ list[n].version \in Versions
                         /\ stored[n].widgets \in Seq(Widgets)
                         /\ list[n].widgets \in Seq(Widgets)
    BY <2>2, <2>3, SoundTyped DEF Contents, Refs
  <2>5. draft.base.version \in Versions /\ draft.widgets \in Seq(Widgets)
    BY <2>2, <2>3, SoundTyped DEF Contents, Refs
  <2>6. Len(calls) <= mutations
    BY <2>1 DEF Waiting
  <2>7. /\ selected \in Names \cup {NoId} /\ draft.id \in Names \cup {NoId}
        /\ draft.name \in Names /\ handler.pc \in {"idle", "delete", "put"}
    BY DEF DraftsInv, Shape, From
  <2>8. /\ saving \in 0..mutations /\ deleting \in BOOLEAN /\ deletes \subseteq Names
        /\ answers.save \in Names \cup {NoId, "error"} /\ answers.delete \in BOOLEAN
    BY DEF Bounded
  <2> QED BY <2>1, <2>2, <2>4, <2>5, <2>6, <2>7, <2>8 DEF TypeOK
<1> QED BY <1>1, ContentsHold, PTL

-----------------------------------------------------------------------------
\* What a move leaves

\* In a list that has an id once, FirstOf finds the widget of the id.
LEMMA OnlyOne ==
  ASSUME NEW W, NEW ws \in Seq(W), UniqueIds(ws), NEW i \in DOMAIN ws
  PROVE  FirstOf(ws, {ws[i].id}) = ws[i] /\ LayoutOf(ws, ws[i].id) = ws[i].layout
<1> DEFINE some == {ws[i].id}
<1>1. ws[i].id \in some
  OBVIOUS
<1> HIDE DEF some
<1>2. PICK k \in DOMAIN ws : FirstOf(ws, some) = ws[k] /\ ws[k].id \in some
  BY <1>1, FirstFound
<1>3. k = i
  BY <1>2 DEF some, UniqueIds
<1> QED BY <1>2, <1>3 DEF some, LayoutOf

\* Nothing of a list with distinct ids is lost, and where each widget is after the compaction that places
\* widget m first: settled below what was placed before it, in the list's order.
Settles(ws, out, m) ==
  /\ Len(out) = Len(ws)
  /\ \A i \in DOMAIN ws : \E k \in DOMAIN out : out[k].id = ws[i].id
  /\ \A i \in DOMAIN ws : \E y \in Nat :
       LET Blocks(j, z) ==
             (j < i \/ j = m) /\ Overlap(InRow(ws[i].layout, z), LayoutOf(out, ws[j].id))
       IN  /\ LayoutOf(out, ws[i].id) = InRow(ws[i].layout, y)
           /\ y >= ws[i].layout.y
           /\ i = m => y = ws[i].layout.y
           /\ i # m => /\ \A j \in DOMAIN ws : ~Blocks(j, y)
                       /\ \A z \in ws[i].layout.y..(y - 1) : \E j \in DOMAIN ws : Blocks(j, z)

LEMMA SettlesAll ==
  ASSUME NEW ws, NEW out, NEW m, Settles(ws, out, m)
  PROVE  /\ Len(out) = Len(ws)
         /\ \A i \in DOMAIN ws : \E k \in DOMAIN out : out[k].id = ws[i].id
BY DEF Settles

LEMMA SameInterval ==
  ASSUME NEW a \in Nat, NEW b \in Nat, 1..a = 1..b
  PROVE  a = b
<1>1. \A i \in Int : 1 <= i /\ i <= a <=> 1 <= i /\ i <= b
  <2>1. \A i \in Int : i \in 1..a <=> 1 <= i /\ i <= a
    OBVIOUS
  <2>2. \A i \in Int : i \in 1..b <=> 1 <= i /\ i <= b
    OBVIOUS
  <2> QED BY <2>1, <2>2, Zenon
<1>2. a <= b
  BY <1>1
<1>3. b <= a
  BY <1>1
<1> QED BY <1>2, <1>3

LEMMA SameLength ==
  ASSUME NEW W, NEW s \in Seq(W), NEW t \in Seq(W), DOMAIN s = DOMAIN t
  PROVE  Len(s) = Len(t)
<1>1. DOMAIN s = 1..Len(s) /\ DOMAIN t = 1..Len(t) /\ Len(s) \in Nat /\ Len(t) \in Nat
  OBVIOUS
<1>2. 1..Len(s) = 1..Len(t)
  BY <1>1, Zenon
<1> QED BY <1>1, <1>2, SameInterval, Zenon

\* The list is placed in the order "order", widget m first.
Ranks(ws, order, m) ==
  /\ DOMAIN ws = 1..Len(ws)
  /\ \A k \in DOMAIN ws : order[k] \in DOMAIN ws
  /\ \A k, l \in DOMAIN ws : order[k] = order[l] => k = l
  /\ \A i \in DOMAIN ws : \E k \in DOMAIN ws : order[k] = i
  /\ \A k, l \in DOMAIN ws : k < l =>
       order[l] # m /\ (order[k] < order[l] \/ order[k] = m)

LEMMA OrderedRanks ==
  ASSUME NEW W, NEW ws \in Seq(W), UniqueIds(ws), NEW m \in DOMAIN ws
  PROVE  LET ordered == Ordered(ws, {ws[m].id})
         IN  /\ ordered \in Seq(W) /\ Len(ordered) = Len(ws)
             /\ \E order : /\ Ranks(ws, order, m)
                           /\ \A k \in DOMAIN ws : ordered[k] = ws[order[k]]
<1> DEFINE some == {ws[m].id}
           ordered == Ordered(ws, some)
<1>1. ws[m].id \in some /\ \A i \in DOMAIN ws : ws[i].id \in some => i = m
  BY DEF UniqueIds
<1> HIDE DEF some
<1>2. ordered \in Seq(W) /\ Len(ordered) <= Len(ws)
  BY OrderedPicks
<1>3. PICK order :
        /\ Picks(ordered, ws, order)
        /\ \A k, l \in DOMAIN ordered : k < l =>
             ws[order[l]].id \notin some /\ (order[k] < order[l] \/ ws[order[k]].id \in some)
        /\ \A i \in DOMAIN ws : ws[i].id \notin some => \E k \in DOMAIN ordered : order[k] = i
        /\ \A i \in DOMAIN ws : ws[i].id \in some =>
             \E k \in DOMAIN ordered : ws[order[k]].id \in some
  BY OrderedPicks
<1> HIDE DEF ordered
<1>4. /\ DOMAIN ws = 1..Len(ws) /\ Len(ws) \in Nat
      /\ DOMAIN ordered = 1..Len(ordered) /\ Len(ordered) \in Nat
  BY <1>2
<1>5. /\ \A k \in DOMAIN ordered : order[k] \in DOMAIN ws /\ ordered[k] = ws[order[k]]
      /\ \A k, l \in DOMAIN ordered : order[k] = order[l] => k = l
  BY <1>3 DEF Picks
<1>6. \A i \in DOMAIN ws : \E k \in DOMAIN ordered : order[k] = i
  BY <1>1, <1>3, <1>5
<1>7. Len(ordered) = Len(ws)
  <2> DEFINE back == [i \in DOMAIN ws |-> CHOOSE k \in DOMAIN ordered : order[k] = i]
  <2>1. \A i \in DOMAIN ws : back[i] \in DOMAIN ordered /\ order[back[i]] = i
    BY <1>6
  <2>2. back \in [DOMAIN ws -> DOMAIN ordered]
    BY <2>1
  <2> HIDE DEF back
  <2>3. back \in Injection(DOMAIN ws, DOMAIN ordered)
    BY <2>1, <2>2 DEF Injection, IsInjective
  <2>4. /\ IsFiniteSet(DOMAIN ordered) /\ Cardinality(DOMAIN ordered) = Len(ordered)
        /\ Cardinality(DOMAIN ws) = Len(ws)
    <3>1. ASSUME NEW n \in Nat PROVE IsFiniteSet(1..n) /\ Cardinality(1..n) = n
      BY FS_Interval
    <3> QED BY <1>4, <3>1
  <2> DEFINE S == DOMAIN ws
             T == DOMAIN ordered
  <2>5. back \in Injection(S, T) /\ IsFiniteSet(T)
    BY <2>3, <2>4
  <2> HIDE DEF S, T
  <2>6. Cardinality(S) <= Cardinality(T)
    BY <2>5, FS_Injection
  <2>7. Len(ws) <= Len(ordered)
    BY <2>4, <2>6 DEF S, T
  <2> DEFINE a == Len(ordered)
             b == Len(ws)
  <2>8. a \in Nat /\ b \in Nat /\ a <= b /\ b <= a
    BY <1>2, <1>4, <2>7
  <2> HIDE DEF a, b
  <2>9. a = b
    BY <2>8
  <2> QED BY <2>9 DEF a, b
<1>8. DOMAIN ordered = DOMAIN ws
  BY <1>4, <1>7
<1>9. Ranks(ws, order, m)
  BY <1>1, <1>3, <1>4, <1>5, <1>6, <1>8 DEF Ranks
<1> QED BY <1>2, <1>5, <1>7, <1>8, <1>9 DEF ordered, some

\* Compaction settles each widget below those that are placed before it.
LEMMA PackSettles ==
  ASSUME NEW I, NEW ws \in Seq(GridWidgets(I)), UniqueIds(ws), NEW m \in DOMAIN ws
  PROVE  Settles(ws, SortForSave(Pack(Ordered(ws, {ws[m].id}))), m)
<1> DEFINE G == GridWidgets(I)
           ordered == Ordered(ws, {ws[m].id})
           packed == Pack(ordered)
           out == SortForSave(packed)
           n == Len(ws)
<1>1. n \in Nat /\ DOMAIN ws = 1..n /\ \A i \in DOMAIN ws : ws[i] \in G
  BY DEF GridWidgets
<1>2. ordered \in Seq(G) /\ Len(ordered) = n
  BY OrderedRanks
<1>3. PICK order : Ranks(ws, order, m) /\ \A k \in DOMAIN ws : ordered[k] = ws[order[k]]
  BY OrderedRanks
<1> HIDE DEF ordered
<1>12. /\ \A k \in 1..n : order[k] \in DOMAIN ws
       /\ \A k, l \in 1..n : order[k] = order[l] => k = l
       /\ \A i \in DOMAIN ws : \E k \in 1..n : order[k] = i
       /\ \A k, l \in 1..n : k < l => order[l] # m /\ (order[k] < order[l] \/ order[k] = m)
  BY <1>1, <1>3 DEF Ranks
<1>4. /\ packed \in Seq(G) /\ Len(packed) = n
      /\ \A k \in 1..n : SettledAt(ordered, packed, k)
  BY <1>2, Packed
<1> HIDE DEF packed
<1>5. /\ out \in Seq(G) /\ Len(out) = n
      /\ \E sorted : /\ Picks(out, packed, sorted)
                     /\ \A i \in DOMAIN packed : \E k \in DOMAIN out : sorted[k] = i
  <2>1. \A w \in G : w.layout.x \in Int /\ w.layout.y \in Int
    BY GridWidget
  <2> HIDE DEF G
  <2> QED BY <1>4, <2>1, SortPicks
<1>6. PICK sorted : /\ Picks(out, packed, sorted)
                    /\ \A i \in DOMAIN packed : \E k \in DOMAIN out : sorted[k] = i
  BY <1>5
<1> HIDE DEF out, G, n
<1>7. DOMAIN packed = 1..n
  BY <1>4
<1>8. ASSUME NEW k \in 1..n
      PROVE  /\ packed[k].id = ws[order[k]].id
             /\ \E y \in Nat :
                  /\ packed[k].layout = InRow(ws[order[k]].layout, y)
                  /\ y >= ws[order[k]].layout.y
                  /\ \A l \in 1..(k - 1) :
                       ~Overlap(InRow(ws[order[k]].layout, y), packed[l].layout)
                  /\ \A z \in ws[order[k]].layout.y..(y - 1) : \E l \in 1..(k - 1) :
                       Overlap(InRow(ws[order[k]].layout, z), packed[l].layout)
  <2> DEFINE w == ws[order[k]]
  <2>1. ordered[k] = w /\ w \in GridWidgets(I)
    BY <1>1, <1>3 DEF G, Ranks
  <2> HIDE DEF w
  <2>2. PICK y \in Nat :
          /\ packed[k] = Lower(w, y)
          /\ y >= w.layout.y
          /\ \A l \in 1..(k - 1) : ~Overlap(InRow(w.layout, y), packed[l].layout)
          /\ \A z \in w.layout.y..(y - 1) : \E l \in 1..(k - 1) :
               Overlap(InRow(w.layout, z), packed[l].layout)
    BY <1>4, <2>1 DEF SettledAt
  <2>3. packed[k].layout = InRow(w.layout, y) /\ packed[k].id = w.id
    <3>1. Lower(w, y).layout = InRow(w.layout, y) /\ Lower(w, y).id = w.id
      BY <2>1, Lowered
    <3> QED BY <2>2, <3>1
  <2> QED BY <2>2, <2>3 DEF w
<1>9. UniqueIds(out)
  <2> SUFFICES ASSUME NEW p \in DOMAIN out, NEW q \in DOMAIN out, out[p].id = out[q].id
               PROVE  p = q
    BY DEF UniqueIds
  <2>1. /\ sorted[p] \in 1..n /\ sorted[q] \in 1..n
        /\ out[p] = packed[sorted[p]] /\ out[q] = packed[sorted[q]]
    BY <1>6, <1>7 DEF Picks
  <2>2. ws[order[sorted[p]]].id = ws[order[sorted[q]]].id
    BY <1>8, <2>1
  <2>3. order[sorted[p]] = order[sorted[q]]
    BY <1>12, <2>1, <2>2 DEF UniqueIds
  <2>4. sorted[p] = sorted[q]
    BY <1>12, <2>1, <2>3
  <2> QED BY <1>6, <2>4 DEF Picks
<1>10. ASSUME NEW k \in 1..n
       PROVE  LayoutOf(out, ws[order[k]].id) = packed[k].layout
  <2>1. PICK p \in DOMAIN out : out[p] = packed[k]
    BY <1>6, <1>7 DEF Picks
  <2>2. LayoutOf(out, out[p].id) = out[p].layout
    BY <1>5, <1>9, OnlyOne
  <2> QED BY <1>8, <2>1, <2>2
<1>11. ASSUME NEW i \in DOMAIN ws
       PROVE  \E y \in Nat :
                LET Blocks(j, z) == /\ j < i \/ j = m
                                    /\ Overlap(InRow(ws[i].layout, z), LayoutOf(out, ws[j].id))
                IN  /\ LayoutOf(out, ws[i].id) = InRow(ws[i].layout, y)
                    /\ y >= ws[i].layout.y
                    /\ i = m => y = ws[i].layout.y
                    /\ i # m => /\ \A j \in DOMAIN ws : ~Blocks(j, y)
                                /\ \A z \in ws[i].layout.y..(y - 1) :
                                     \E j \in DOMAIN ws : Blocks(j, z)
  <2>1. PICK k \in 1..n : order[k] = i
    BY <1>12
  <2>2. PICK y \in Nat :
          /\ packed[k].layout = InRow(ws[i].layout, y)
          /\ y >= ws[i].layout.y
          /\ \A l \in 1..(k - 1) : ~Overlap(InRow(ws[i].layout, y), packed[l].layout)
          /\ \A z \in ws[i].layout.y..(y - 1) : \E l \in 1..(k - 1) :
               Overlap(InRow(ws[i].layout, z), packed[l].layout)
    BY <1>8, <2>1
  <2>3. LayoutOf(out, ws[i].id) = InRow(ws[i].layout, y)
    BY <1>10, <2>1, <2>2
  <2>4. ws[i].layout.y \in Nat /\ k \in Nat /\ k >= 1 /\ i \in Nat /\ m \in 1..n
    BY <1>1, <2>1, GridWidget DEF G
  <2>5. ASSUME i = m PROVE y = ws[i].layout.y
    <3>1. k = 1
      <4> SUFFICES ASSUME k # 1 PROVE FALSE
        OBVIOUS
      <4>1. 1 \in 1..n /\ 1 < k
        BY <1>1, <2>4
      <4> QED BY <1>12, <2>1, <2>4, <2>5, <4>1
    <3>2. 1..(k - 1) = {}
      BY <3>1
    <3>3. ws[i].layout.y..(y - 1) = {}
      BY <2>2, <3>2
    <3> QED BY <2>2, <2>4, <3>3
  <2>6. ASSUME i # m, NEW j \in DOMAIN ws, j < i \/ j = m
        PROVE  ~Overlap(InRow(ws[i].layout, y), LayoutOf(out, ws[j].id))
    <3>1. PICK l \in 1..n : order[l] = j
      BY <1>12
    <3>2. j \in Nat /\ j # i
      BY <1>1, <2>4, <2>6
    <3>3. ~(k < l)
      <4> SUFFICES ASSUME k < l PROVE FALSE
        OBVIOUS
      <4>1. order[l] # m /\ (order[k] < order[l] \/ order[k] = m)
        BY <1>12, <2>1, <3>1
      <4> QED BY <2>1, <2>4, <2>6, <3>1, <3>2, <4>1
    <3>4. l \in 1..(k - 1)
      BY <2>1, <2>4, <3>1, <3>2, <3>3
    <3> QED BY <1>10, <2>2, <3>1, <3>4
  <2>7. ASSUME i # m, NEW z \in ws[i].layout.y..(y - 1)
        PROVE  \E j \in DOMAIN ws :
                 /\ j < i \/ j = m
                 /\ Overlap(InRow(ws[i].layout, z), LayoutOf(out, ws[j].id))
    <3>1. PICK l \in 1..(k - 1) : Overlap(InRow(ws[i].layout, z), packed[l].layout)
      BY <2>2, <2>7
    <3>2. l \in 1..n /\ l < k
      BY <2>1, <2>4, <1>1, <3>1
    <3>3. order[l] \in DOMAIN ws /\ (order[l] < order[k] \/ order[l] = m)
      BY <1>12, <2>1, <3>2
    <3> QED BY <1>10, <2>1, <3>1, <3>2, <3>3
  <2> QED BY <2>2, <2>3, <2>5, <2>6, <2>7
<1>13. ASSUME NEW i \in DOMAIN ws PROVE \E p \in DOMAIN out : out[p].id = ws[i].id
  <2>1. PICK k \in 1..n : order[k] = i
    BY <1>12
  <2>2. PICK p \in DOMAIN out : sorted[p] = k
    BY <1>6, <1>7, <2>1
  <2> QED BY <1>6, <1>8, <2>1, <2>2 DEF Picks
<1> QED BY <1>5, <1>11, <1>13 DEF Settles, out, packed, ordered, n

\* A widget of the grid is left as it is by a normalization.
LEMMA NormalWidget ==
  ASSUME NEW I, NEW w \in GridWidgets(I)
  PROVE  WithLayout(w, w.layout) = w
<1>1. w.layout \in Layouts /\ InGrid(w.layout)
  BY DEF GridWidgets, WidgetsOf
<1>2. Normalize(w.layout) = w.layout
  BY <1>1, NormalizedStays
<1> QED BY <1>2 DEF WithLayout, GridWidgets, WidgetsOf

\* The list a move compacts: the moved widget's layout changes, no other widget.
Dropped(ws, m, layout) == [i \in DOMAIN ws |-> IF i = m THEN WithLayout(ws[m], layout) ELSE ws[i]]

Shifted(layout, delta) == [layout EXCEPT !.x = @ + delta[1], !.y = @ + delta[2]]
Moves(I, ws, m, delta) ==
  /\ ws \in Seq(GridWidgets(I)) /\ UniqueIds(ws) /\ m \in DOMAIN ws
  /\ delta[1] \in Int /\ delta[2] \in Int

Moved(I, ws, m, delta) ==
  LET layout == Shifted(ws[m].layout, delta)
      moved == Dropped(ws, m, layout)
  IN  /\ Move(ws, ws[m].id, delta) = SortForSave(Pack(Ordered(moved, {ws[m].id})))
      /\ moved \in Seq(GridWidgets(I)) /\ DOMAIN moved = DOMAIN ws
      /\ \A i \in DOMAIN ws : moved[i].id = ws[i].id /\ (i # m => moved[i] = ws[i])
      /\ moved[m].layout = Normalize(layout)

LEMMA MoveCompacts ==
  ASSUME NEW I, NEW ws, NEW m, NEW delta, Moves(I, ws, m, delta)
  PROVE  Moved(I, ws, m, delta)
<1> DEFINE G == GridWidgets(I)
           id == ws[m].id
           old == ws[m].layout
           layout == Shifted(old, delta)
           moved == Dropped(ws, m, layout)
           Changed(l) == [l EXCEPT !.x = @ + delta[1], !.y = @ + delta[2],
                                   !.w = @ + 0, !.h = @ + 0]
           changed == [i \in DOMAIN ws |->
                         IF ws[i].id = id
                         THEN WithLayout(ws[i], Changed(Normalize(ws[i].layout)))
                         ELSE ws[i]]
<1>0. /\ ws \in Seq(G) /\ UniqueIds(ws) /\ m \in DOMAIN ws
      /\ delta[1] \in Int /\ delta[2] \in Int
  BY DEF Moves
<1>1. /\ DOMAIN ws = 1..Len(ws) /\ Len(ws) \in Nat /\ m \in DOMAIN ws
      /\ \A i \in DOMAIN ws : ws[i] \in G /\ (ws[i].id = id <=> i = m)
  <2> HIDE DEF G
  <2>1. \A i \in DOMAIN ws : ws[i] \in G
    BY <1>0
  <2> QED BY <1>0, <2>1 DEF UniqueIds
<1>2. old \in Layouts /\ InGrid(old)
  BY <1>1 DEF GridWidgets, WidgetsOf
<1>3. layout \in Layouts /\ Changed(Normalize(old)) = layout
  <2>1. Normalize(old) = old
    BY <1>2, NormalizedStays
  <2>2. old.x + delta[1] \in Int /\ old.y + delta[2] \in Int /\ old.w + 0 = old.w /\ old.h + 0 = old.h
    BY <1>0, <1>2 DEF Layouts
  <2>3. layout \in Layouts
    BY <1>2, <2>2 DEF Layouts, Shifted
  <2>4. Changed(old) = layout
    BY <1>2, <2>2 DEF Layouts, Shifted
  <2> HIDE DEF Changed
  <2> QED BY <2>1, <2>3, <2>4
<1> HIDE DEF layout, old
<1>4. ws[m] \in WidgetsOf(I)
  BY <1>1 DEF GridWidgets
<1>5. /\ WithLayout(ws[m], layout) \in G /\ WithLayout(ws[m], layout).id = id
      /\ WithLayout(ws[m], layout).layout = Normalize(layout)
  BY <1>3, <1>4, PutInGrid
<1> HIDE DEF G
<1>6. changed = moved
  <2>1. \A i \in DOMAIN ws : ws[i].id = id =>
          WithLayout(ws[i], Changed(Normalize(ws[i].layout))) = WithLayout(ws[m], layout)
    BY <1>1, <1>3 DEF old
  <2> HIDE DEF Changed, id
  <2> QED BY <1>1, <2>1 DEF Dropped
<1>7. \A i \in DOMAIN ws : /\ moved[i] \in G /\ moved[i].id = ws[i].id
                           /\ i # m => moved[i] = ws[i]
  BY <1>1, <1>5 DEF Dropped
<1>8. DOMAIN moved = DOMAIN ws /\ moved[m].layout = Normalize(layout)
  BY <1>1, <1>5 DEF Dropped
<1>9. moved \in Seq(G)
  <2>1. moved = [i \in 1..Len(ws) |-> moved[i]]
    BY <1>1 DEF Dropped
  <2> HIDE DEF moved
  <2> QED BY <1>1, <1>7, <2>1
<1>10. Normalized(moved) = moved
  <2>1. \A i \in DOMAIN ws : WithLayout(moved[i], moved[i].layout) = moved[i]
    BY <1>7, NormalWidget DEF G
  <2>2. moved = [i \in DOMAIN ws |-> moved[i]]
    BY DEF Dropped
  <2> HIDE DEF moved
  <2> QED BY <1>8, <2>1, <2>2 DEF Normalized
<1>11. Move(ws, id, delta) = Compact(changed, {id})
  <2>1. \E i \in DOMAIN ws : ws[i].id = id
    BY <1>1
  <2> HIDE DEF id
  <2> QED BY <2>1 DEF Move, Change
<1>12. Compact(moved, {id}) = SortForSave(Pack(Ordered(Normalized(moved), {id})))
  BY DEF Compact, Normalized
<1> HIDE DEF moved, changed
<1>13. Move(ws, id, delta) = SortForSave(Pack(Ordered(moved, {id})))
  BY <1>6, <1>10, <1>11, <1>12
<1> QED BY <1>7, <1>8, <1>9, <1>13 DEF Moved, G, moved, layout, old

\* A move of the user loses no widget, puts the moved one where it is dropped, inside the
\* grid, and lets every other widget sink no further than it must: moveDashboardWidget places
\* the priority widget first and compactDashboardLayout the others in their order, each
\* in the first rows from its own on that are free, for every list of widgets with
\* distinct ids and for every distance.
THEOREM MoveSettlesAlways == Spec => MoveSettles
<1> DEFINE Free(before, after, id, i, y) ==
             \A j \in DOMAIN before :
               before[j].id = id \/ (j < i /\ before[i].id # id) =>
                 ~Overlap([before[i].layout EXCEPT !.y = y], LayoutOf(after, before[j].id))
           Placed(before, after, id, delta) ==
             /\ Len(after) = Len(before)
             /\ \A i \in DOMAIN before : \E k \in DOMAIN after : after[k].id = before[i].id
             /\ LayoutOf(after, id) =
                Normalize([LayoutOf(before, id) EXCEPT !.x = @ + delta[1], !.y = @ + delta[2]])
             /\ \A i \in DOMAIN before :
                  before[i].id # id =>
                    LET y == LayoutOf(after, before[i].id).y
                    IN  /\ LayoutOf(after, before[i].id) = [before[i].layout EXCEPT !.y = y]
                        /\ y >= before[i].layout.y
                        /\ Free(before, after, id, i, y)
                        /\ \A above \in before[i].layout.y..(y - 1) :
                             ~Free(before, after, id, i, above)
           Step == \A id \in ids, delta \in Deltas :
                     MoveWidget(id, delta) /\ UniqueIds(draft.widgets) =>
                       Placed(draft.widgets, draft'.widgets, id, delta)
<1>1. ASSUME NEW I, NEW ws, NEW m, NEW delta, Moves(I, ws, m, delta)
      PROVE  Placed(ws, Move(ws, ws[m].id, delta), ws[m].id, delta)
  <2> DEFINE G == GridWidgets(I)
             id == ws[m].id
             layout == Shifted(ws[m].layout, delta)
             moved == Dropped(ws, m, layout)
             after == Move(ws, id, delta)
  <2>0. ws \in Seq(G) /\ UniqueIds(ws) /\ m \in DOMAIN ws
    BY <1>1 DEF Moves
  <2>1. /\ after = SortForSave(Pack(Ordered(moved, {id})))
        /\ moved \in Seq(G) /\ DOMAIN moved = DOMAIN ws
        /\ \A i \in DOMAIN ws : moved[i].id = ws[i].id /\ (i # m => moved[i] = ws[i])
        /\ moved[m].layout = Normalize(layout)
    <3>1. Moved(I, ws, m, delta)
      BY <1>1, MoveCompacts
    <3> QED BY <3>1 DEF Moved
  <2> HIDE DEF moved, after
  <2>2. UniqueIds(moved) /\ moved[m].id = id /\ m \in DOMAIN moved
    BY <2>0, <2>1 DEF UniqueIds
  <2>3. Settles(moved, after, m)
    BY <2>1, <2>2, PackSettles
  <2>4. LayoutOf(ws, id) = ws[m].layout
    <3> HIDE DEF G
    <3> QED BY <2>0, OnlyOne
  <2>5. LayoutOf(after, id) = Normalize(layout)
    <3>1. PICK y \in Nat : /\ LayoutOf(after, moved[m].id) = InRow(moved[m].layout, y)
                           /\ y = moved[m].layout.y
      BY <2>2, <2>3 DEF Settles
    <3>2. moved[m] \in G
      BY <2>1, <2>2
    <3>3. InRow(moved[m].layout, moved[m].layout.y) = moved[m].layout
      BY <3>2 DEF GridWidgets, WidgetsOf, Layouts, InRow
    <3> QED BY <2>1, <2>2, <3>1, <3>3
  <2>6. ASSUME NEW i \in DOMAIN ws, ws[i].id # id
        PROVE  LET y == LayoutOf(after, ws[i].id).y
               IN  /\ LayoutOf(after, ws[i].id) = [ws[i].layout EXCEPT !.y = y]
                   /\ y >= ws[i].layout.y
                   /\ Free(ws, after, id, i, y)
                   /\ \A above \in ws[i].layout.y..(y - 1) : ~Free(ws, after, id, i, above)
    <3>1. i # m /\ moved[i] = ws[i]
      BY <2>1, <2>6
    <3>2. PICK y \in Nat :
            /\ LayoutOf(after, ws[i].id) = InRow(ws[i].layout, y)
            /\ y >= ws[i].layout.y
            /\ \A j \in DOMAIN ws :
                 ~((j < i \/ j = m) /\ Overlap(InRow(ws[i].layout, y), LayoutOf(after, moved[j].id)))
            /\ \A z \in ws[i].layout.y..(y - 1) : \E j \in DOMAIN ws :
                 (j < i \/ j = m) /\ Overlap(InRow(ws[i].layout, z), LayoutOf(after, moved[j].id))
      <4> DEFINE w == ws[i]
                 D == DOMAIN ws
      <4>1. moved[i] = w /\ DOMAIN moved = D /\ i \in D
        BY <2>1, <3>1
      <4> HIDE DEF w, D
      <4>2. PICK y \in Nat :
              LET Blocks(j, z) == (j < i \/ j = m) /\ Overlap(InRow(w.layout, z), LayoutOf(after, moved[j].id))
              IN  /\ LayoutOf(after, w.id) = InRow(w.layout, y)
                  /\ y >= w.layout.y
                  /\ i # m => /\ \A j \in D : ~Blocks(j, y)
                              /\ \A z \in w.layout.y..(y - 1) : \E j \in D : Blocks(j, z)
        BY <2>3, <4>1 DEF Settles
      <4> QED BY <3>1, <4>2 DEF w, D
    <3>3. InRow(ws[i].layout, y).y = y
      <4>1. ws[i] \in GridWidgets(I)
        <5> HIDE DEF G
        <5>1. ws[i] \in G
          BY <2>0
        <5> QED BY <5>1 DEF G
      <4> QED BY <4>1, Lowered
    <3>4. \A j \in DOMAIN ws : /\ moved[j].id = ws[j].id
                               /\ ws[j].id = id <=> j = m
      BY <2>0, <2>1 DEF UniqueIds
    <3>5. \A z : Free(ws, after, id, i, z) <=>
                   \A j \in DOMAIN ws : (j < i \/ j = m) =>
                     ~Overlap(InRow(ws[i].layout, z), LayoutOf(after, moved[j].id))
      BY <2>6, <3>4 DEF InRow
    <3>6. Free(ws, after, id, i, y)
      BY <3>2, <3>5
    <3>7. \A z \in ws[i].layout.y..(y - 1) : ~Free(ws, after, id, i, z)
      BY <3>2, <3>5
    <3>8. LayoutOf(after, ws[i].id).y = y
      BY <3>2, <3>3
    <3> HIDE DEF Free
    <3> QED BY <3>2, <3>6, <3>7, <3>8 DEF InRow
  <2>7. Len(after) = Len(ws) /\ \A i \in DOMAIN ws : \E k \in DOMAIN after : after[k].id = ws[i].id
    <3> HIDE DEF G
    <3>1. Len(moved) = Len(ws)
      BY <2>0, <2>1, SameLength
    <3>2. Len(after) = Len(moved) /\ \A i \in DOMAIN moved : \E k \in DOMAIN after : after[k].id = moved[i].id
      BY <2>3, SettlesAll
    <3> HIDE DEF id, layout, Placed, Free, Step
    <3>3. DOMAIN moved = DOMAIN ws /\ \A i \in DOMAIN ws : moved[i].id = ws[i].id
      BY <2>1
    <3> QED BY <3>1, <3>2, <3>3
  <2> HIDE DEF Free
  <2> QED BY <2>4, <2>5, <2>6, <2>7 DEF after, Shifted
<1>2. DraftsInv /\ Contents /\ Bounded /\ [Next]_vars => [Step]_vars
  <2> HIDE DEF Placed
  <2> SUFFICES ASSUME DraftsInv, Contents, Bounded, NEW id \in ids, NEW delta \in Deltas,
                      MoveWidget(id, delta), UniqueIds(draft.widgets)
               PROVE  Placed(draft.widgets, draft'.widgets, id, delta)
    OBVIOUS
  <2>1. draft.widgets \in Seq(GridWidgets(IdsUpTo(edits)))
    BY DEF Contents, Sound
  <2>2. PICK m \in DOMAIN draft.widgets : draft.widgets[m].id = id
    BY DEF ids
  <2>3. delta[1] \in Int /\ delta[2] \in Int
    BY DeltasAssumption
  <2>4. draft'.widgets = Move(draft.widgets, id, delta)
    BY DEF MoveWidget, Edit, DraftsInv, Shape
  <2>5. Moves(IdsUpTo(edits), draft.widgets, m, delta)
    BY <2>1, <2>2, <2>3 DEF Moves
  <2> QED BY <1>1, <2>2, <2>4, <2>5
<1> QED BY <1>2, ContentsHold, PTL DEF Spec, MoveSettles
=============================================================================
