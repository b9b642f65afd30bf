--------------------------- MODULE DocumentsProofs ---------------------------
(***************************************************************************)
(* Proofs about Documents, for every set of files, every capacity of the    *)
(* histories and all bounds.                                                *)
(***************************************************************************)
EXTENDS Documents, SequenceFacts

-----------------------------------------------------------------------------
(* The desk: tabs with numbers of their own, one of them on screen or none *)

Tab == [id : Nat, document : Document]

Desks == [tabs : Seq(Tab), active : Nat, live : Document, nextId : Nat]

Orderly(k) ==
  /\ k \in Desks
  /\ k.active <= Len(k.tabs) /\ k.nextId # 0
  /\ \A i \in DOMAIN k.tabs : k.tabs[i].id \in 1 .. k.nextId - 1
  /\ \A i, j \in DOMAIN k.tabs : k.tabs[i].id = k.tabs[j].id => i = j

\* The tabs `new` has of `k` hold the same documents.
Matches(new, k) ==
  \A j \in DOMAIN new.tabs : \E i \in DOMAIN k.tabs :
    new.tabs[j].id = k.tabs[i].id /\ Held(new, j) = Held(k, i)

\* What the places of an orderly desk hold.
LEMMA Places ==
  ASSUME NEW k, Orderly(k)
  PROVE  /\ Len(k.tabs) \in Nat /\ DOMAIN k.tabs = 1 .. Len(k.tabs)
         /\ k.tabs \in Seq(Tab) /\ k.live \in Document /\ k.nextId \in Nat /\ k.active \in Nat
         /\ \A i \in DOMAIN k.tabs :
              /\ k.tabs[i] \in Tab /\ Held(k, i) \in Document
              /\ k.tabs[i].id \in Ids(k) /\ At(k, k.tabs[i].id) = i
              /\ Tabbed(k)[k.tabs[i].id] = Held(k, i)
         /\ DOMAIN Tabbed(k) = Ids(k) /\ Ids(k) \subseteq 1 .. k.nextId - 1
         /\ \A id \in Ids(k) : /\ At(k, id) \in DOMAIN k.tabs /\ k.tabs[At(k, id)].id = id
                               /\ Tabbed(k)[id] = Held(k, At(k, id))
<1>1. /\ Len(k.tabs) \in Nat /\ DOMAIN k.tabs = 1 .. Len(k.tabs)
      /\ k.tabs \in Seq(Tab) /\ k.live \in Document /\ k.nextId \in Nat /\ k.active \in Nat
      /\ \A i \in DOMAIN k.tabs : k.tabs[i] \in Tab
  <2>1. k.tabs \in Seq(Tab) /\ k.live \in Document /\ k.nextId \in Nat /\ k.active \in Nat
    BY DEF Orderly, Desks
  <2> QED
    BY <2>1, LenProperties, ElementOfSeq
<1>2. \A i \in DOMAIN k.tabs : Held(k, i) \in Document
  BY <1>1 DEF Held, Tab
<1>3. \A id \in Ids(k) : At(k, id) \in DOMAIN k.tabs /\ k.tabs[At(k, id)].id = id
  BY DEF Ids, At
<1>4. \A i \in DOMAIN k.tabs : k.tabs[i].id \in Ids(k)
  BY DEF Ids
<1>5. \A i \in DOMAIN k.tabs : At(k, k.tabs[i].id) = i
  BY <1>3, <1>4 DEF Orderly
<1>6. DOMAIN Tabbed(k) = Ids(k) /\ \A id \in Ids(k) : Tabbed(k)[id] = Held(k, At(k, id))
  BY DEF Tabbed
<1>7. Ids(k) \subseteq 1 .. k.nextId - 1
  BY DEF Ids, Orderly
<1> QED
  BY <1>1, <1>2, <1>3, <1>4, <1>5, <1>6, <1>7

\* Tabs that match are the same tabs.
LEMMA MatchingTabs ==
  ASSUME NEW k, NEW new, Orderly(k), Orderly(new), Matches(new, k)
  PROVE  Ids(new) \subseteq Ids(k) /\ \A id \in Ids(new) : Tabbed(new)[id] = Tabbed(k)[id]
<1>1. SUFFICES ASSUME NEW id \in Ids(new) PROVE id \in Ids(k) /\ Tabbed(new)[id] = Tabbed(k)[id]
  OBVIOUS
<1>2. PICK j \in DOMAIN new.tabs : new.tabs[j].id = id
  BY DEF Ids
<1>3. PICK i \in DOMAIN k.tabs : new.tabs[j].id = k.tabs[i].id /\ Held(new, j) = Held(k, i)
  BY DEF Matches
<1> QED
  BY <1>2, <1>3, Places

\* A tab that matches holds the document it held.
LEMMA SameTabs ==
  ASSUME NEW k, NEW new, Orderly(k), Orderly(new), Matches(new, k), Matches(k, new)
  PROVE  Ids(new) = Ids(k) /\ Tabbed(new) = Tabbed(k)
<1>1. Ids(new) = Ids(k)
  BY MatchingTabs
<1>2. \A id \in Ids(k) : Tabbed(new)[id] = Tabbed(k)[id]
  BY <1>1, MatchingTabs
<1> QED
  BY <1>1, <1>2 DEF Tabbed

\* New documents, and those of files, are documents.
LEMMA BlankTypes ==
  /\ NewHistory \in Histories /\ Blank \in Document /\ Blank.path = NoPath
  /\ \A path \in Paths \cup {NoPath}, scene \in Nat : document(path, scene) \in Document
  /\ \A d \in Document : stateId(d.history) \in Nat
<1>1. <<>> \in Seq(Entries)
  OBVIOUS
<1>2. NewHistory \in Histories
  BY <1>1 DEF NewHistory, Histories
<1>3. \A path \in Paths \cup {NoPath}, scene \in Nat : document(path, scene) \in Document
  BY <1>2 DEF document, Document
<1>4. \A h \in Histories : stateId(h) \in Nat
  <2>1. TAKE h \in Histories
  <2>2. CASE h.done = <<>>
    BY <2>2 DEF stateId, Histories
  <2>3. CASE h.done # <<>>
    <3>1. Last(h.done) \in Entries
      BY <2>3, FrontAndLast DEF Histories
    <3> QED
      BY <2>3, <3>1 DEF stateId, Entries
  <2> QED
    BY <2>2, <2>3
<1> QED
  BY <1>2, <1>3, <1>4 DEF Blank, FirstScene, Document, document

\* A desk without a project is orderly.
LEMMA ClosedIsOrderly == Orderly(Closed) /\ Ids(Closed) = {} /\ Closed.active = NoTab
<1>1. <<>> \in Seq(Tab) /\ Len(<<>>) = 0 /\ DOMAIN <<>> = {}
  OBVIOUS
<1>2. Closed \in Desks
  BY <1>1, BlankTypes DEF Closed, Desks, NoTab
<1> QED
  BY <1>1, <1>2 DEF Orderly, Closed, Ids, NoTab

\* The document on screen changes, and no other.
LEMMA LiveChanges ==
  ASSUME NEW k, Orderly(k), NEW d \in Document, NEW new, new = [k EXCEPT !.live = d]
  PROVE  /\ Orderly(new) /\ Ids(new) = Ids(k) /\ new.active = k.active /\ new.nextId = k.nextId
         /\ new.tabs = k.tabs /\ new.live = d
         /\ \A i \in DOMAIN k.tabs : Held(new, i) = IF i = k.active THEN d ELSE Held(k, i)
         /\ \A id \in Ids(k) : Tabbed(new)[id] = IF At(k, id) = k.active THEN d ELSE Tabbed(k)[id]
<1>1. /\ new.active = k.active /\ new.nextId = k.nextId /\ new.tabs = k.tabs /\ new.live = d
      /\ new \in Desks
  BY DEF Orderly, Desks
<1>2. Orderly(new)
  BY <1>1 DEF Orderly
<1>3. Ids(new) = Ids(k)
  BY <1>1 DEF Ids
<1>4. \A i \in DOMAIN k.tabs : Held(new, i) = IF i = k.active THEN d ELSE Held(k, i)
  BY <1>1 DEF Held
<1>5. \A id \in Ids(k) : Tabbed(new)[id] = IF At(k, id) = k.active THEN d ELSE Tabbed(k)[id]
  <2>1. TAKE id \in Ids(k)
  <2>2. At(k, id) = At(new, id)
    BY <1>1 DEF At
  <2>3. At(k, id) \in DOMAIN k.tabs /\ Tabbed(k)[id] = Held(k, At(k, id))
    BY Places
  <2>4. Tabbed(new)[id] = Held(new, At(new, id))
    BY <1>2, <1>3, Places
  <2> QED
    BY <1>4, <2>2, <2>3, <2>4
<1> QED
  BY <1>1, <1>2, <1>3, <1>4, <1>5

\* A tab is added after the others, with a number of its own.
LEMMA AddsTab ==
  ASSUME NEW k, Orderly(k), NEW d \in Document, NEW new, new = Add(k, d)
  PROVE  /\ Orderly(new) /\ new.active = k.active /\ new.nextId = k.nextId + 1
         /\ Len(new.tabs) = Len(k.tabs) + 1 /\ DOMAIN new.tabs = 1 .. Len(k.tabs) + 1
         /\ \A i \in DOMAIN k.tabs : new.tabs[i] = k.tabs[i] /\ Held(new, i) = Held(k, i)
         /\ new.tabs[Len(k.tabs) + 1].id = k.nextId /\ Held(new, Len(k.tabs) + 1) = d
<1> DEFINE tab == [id |-> k.nextId, document |-> d]
<1>1. k.tabs \in Seq(Tab) /\ tab \in Tab /\ Len(k.tabs) \in Nat /\ DOMAIN k.tabs = 1 .. Len(k.tabs)
  BY Places DEF Tab
<1>2. /\ new.active = k.active /\ new.nextId = k.nextId + 1 /\ new.live = k.live
      /\ new.tabs = Append(k.tabs, tab)
      /\ new = [tabs |-> Append(k.tabs, tab), active |-> k.active, live |-> k.live, nextId |-> k.nextId + 1]
  BY DEF Add, Orderly, Desks
<1> HIDE DEF tab
<1>3. /\ new.tabs \in Seq(Tab) /\ Len(new.tabs) = Len(k.tabs) + 1
      /\ DOMAIN new.tabs = 1 .. Len(k.tabs) + 1
      /\ \A i \in DOMAIN k.tabs : new.tabs[i] = k.tabs[i]
      /\ new.tabs[Len(k.tabs) + 1] = tab
  BY <1>1, <1>2, AppendProperties, LenProperties
<1>4. new \in Desks
  BY <1>2, <1>3, Places DEF Desks
<1>5. tab.id = k.nextId /\ tab.document = d
  BY DEF tab
<1>6. /\ \A i \in DOMAIN new.tabs : new.tabs[i].id \in 1 .. new.nextId - 1
      /\ \A i, j \in DOMAIN new.tabs : new.tabs[i].id = new.tabs[j].id => i = j
      /\ new.active <= Len(new.tabs) /\ new.nextId # 0
  <2>1. k.nextId \in Nat /\ k.active \in Nat
    BY Places
  <2>2. \A i \in DOMAIN k.tabs : new.tabs[i].id \in 1 .. k.nextId - 1
    BY <1>3 DEF Orderly
  <2>3. \A i \in DOMAIN new.tabs : i \in DOMAIN k.tabs \/ i = Len(k.tabs) + 1
    BY <1>1, <1>3
  <2>4. \A i \in DOMAIN new.tabs : new.tabs[i].id \in 1 .. new.nextId - 1
    BY <1>2, <1>3, <1>5, <2>1, <2>2, <2>3 DEF Orderly
  <2>5. \A i, j \in DOMAIN new.tabs : new.tabs[i].id = new.tabs[j].id => i = j
    <3>1. TAKE i, j \in DOMAIN new.tabs
    <3>2. \A x \in DOMAIN k.tabs : new.tabs[x].id # new.tabs[Len(k.tabs) + 1].id
      BY <1>3, <1>5, <2>1, <2>2
    <3>3. i \in DOMAIN k.tabs /\ j \in DOMAIN k.tabs => (new.tabs[i].id = new.tabs[j].id => i = j)
      BY <1>3 DEF Orderly
    <3> QED
      BY <2>3, <3>2, <3>3
  <2> QED
    BY <1>1, <1>2, <1>3, <2>1, <2>4, <2>5 DEF Orderly
<1>7. \A i \in DOMAIN k.tabs : Held(new, i) = Held(k, i)
  BY <1>2, <1>3 DEF Held
<1>8. Held(new, Len(k.tabs) + 1) = d
  BY <1>1, <1>2, <1>3, <1>5, Places DEF Held, Orderly
<1> QED
  BY <1>2, <1>3, <1>4, <1>5, <1>6, <1>7, <1>8 DEF Orderly

\* Every tab keeps its document when another comes to the screen.
LEMMA ActivatesTab ==
  ASSUME NEW k, Orderly(k), NEW i \in DOMAIN k.tabs, NEW new, new = activate(k, i)
  PROVE  /\ Orderly(new) /\ new.active = i /\ new.nextId = k.nextId
         /\ Len(new.tabs) = Len(k.tabs) /\ DOMAIN new.tabs = DOMAIN k.tabs
         /\ \A j \in DOMAIN k.tabs : new.tabs[j].id = k.tabs[j].id /\ Held(new, j) = Held(k, j)
         /\ Ids(new) = Ids(k) /\ Tabbed(new) = Tabbed(k)
<1>1. CASE i = k.active
  BY <1>1 DEF activate
<1>2. CASE i # k.active
  <2> DEFINE back == IF k.active = NoTab THEN k.tabs ELSE [k.tabs EXCEPT ![k.active].document = k.live]
             left == IF k.active = NoTab THEN k.live ELSE k.tabs[k.active].document
             tabs == [back EXCEPT ![i].document = left]
  <2>1. /\ k.tabs \in Seq(Tab) /\ k.live \in Document /\ Len(k.tabs) \in Nat
        /\ DOMAIN k.tabs = 1 .. Len(k.tabs) /\ k.active \in 0 .. Len(k.tabs)
        /\ \A j \in DOMAIN k.tabs : k.tabs[j] \in Tab /\ Held(k, j) \in Document
    BY Places DEF Orderly
  <2>2. /\ back \in Seq(Tab) /\ Len(back) = Len(k.tabs)
        /\ \A j \in DOMAIN k.tabs : /\ back[j].id = k.tabs[j].id
                                    /\ back[j].document = Held(k, j)
    <3>1. CASE k.active = NoTab
      BY <2>1, <3>1 DEF Held, NoTab
    <3>2. CASE k.active # NoTab
      <4>1. k.active \in 1 .. Len(k.tabs)
        BY <2>1, <3>2 DEF NoTab
      <4>2. back = [k.tabs EXCEPT ![k.active] = [k.tabs[k.active] EXCEPT !.document = k.live]]
        BY <2>1, <3>2, <4>1
      <4>3. [k.tabs[k.active] EXCEPT !.document = k.live] \in Tab
        BY <2>1, <4>1 DEF Tab
      <4>4. back \in Seq(Tab) /\ Len(back) = Len(k.tabs)
        BY <2>1, <4>1, <4>2, <4>3, ExceptSeq
      <4>5. \A j \in DOMAIN k.tabs : back[j].id = k.tabs[j].id /\ back[j].document = Held(k, j)
        BY <2>1, <4>1, <4>2 DEF Held, Tab
      <4> QED
        BY <4>4, <4>5
    <3> QED
      BY <3>1, <3>2
  <2>3. left \in Document
    BY <2>1 DEF Tab, NoTab
  <2> HIDE DEF back, left
  <2>4. /\ tabs \in Seq(Tab) /\ Len(tabs) = Len(k.tabs) /\ DOMAIN tabs = DOMAIN k.tabs
        /\ \A j \in DOMAIN k.tabs : /\ tabs[j].id = k.tabs[j].id
                                    /\ j # i => tabs[j].document = Held(k, j)
    <3>1. i \in 1 .. Len(back) /\ back[i] \in Tab /\ DOMAIN back = DOMAIN k.tabs
      BY <2>1, <2>2, LenProperties, ElementOfSeq
    <3>2. tabs = [back EXCEPT ![i] = [back[i] EXCEPT !.document = left]]
      BY <3>1
    <3>3. [back[i] EXCEPT !.document = left] \in Tab
      BY <2>3, <3>1 DEF Tab
    <3>4. tabs \in Seq(Tab) /\ Len(tabs) = Len(back)
      BY <2>2, <3>1, <3>2, <3>3, ExceptSeq
    <3>5. \A j \in DOMAIN k.tabs : tabs[j].id = k.tabs[j].id /\ (j # i => tabs[j].document = Held(k, j))
      BY <2>2, <3>1, <3>2 DEF Tab
    <3> QED
      BY <2>1, <2>2, <3>4, <3>5, LenProperties
  <2>5. /\ new.active = i /\ new.nextId = k.nextId /\ new.live = k.tabs[i].document /\ new.tabs = tabs
        /\ new = [tabs |-> tabs, active |-> i, live |-> k.tabs[i].document, nextId |-> k.nextId]
    <3>1. new = [k EXCEPT !.active = i, !.live = k.tabs[i].document, !.tabs = tabs]
      BY <1>2 DEF activate, back, left
    <3> HIDE DEF tabs
    <3> QED
      BY <3>1 DEF Orderly, Desks
  <2> HIDE DEF tabs
  <2>6. Held(k, i) = k.tabs[i].document /\ k.tabs[i].document \in Document
    BY <1>2, <2>1 DEF Held, Tab
  <2>7. \A j \in DOMAIN k.tabs : Held(new, j) = Held(k, j)
    BY <2>4, <2>5, <2>6 DEF Held
  <2>8. Orderly(new)
    <3>1. new \in Desks
      BY <2>1, <2>4, <2>5, <2>6, Places DEF Desks
    <3> QED
      BY <2>1, <2>4, <2>5, <3>1 DEF Orderly
  <2>9. Ids(new) = Ids(k) /\ Tabbed(new) = Tabbed(k)
    BY <2>4, <2>5, <2>7, <2>8, SameTabs DEF Matches
  <2> QED
    BY <2>4, <2>5, <2>7, <2>8, <2>9
<1> QED
  BY <1>1, <1>2

\* What the operations of a history give.
LEMMA HistoryTypes ==
  ASSUME NEW h \in Histories
  PROVE  /\ clear(h) \in Histories
         /\ \A from, to \in Nat : recordApplied(h, from, to) \in Histories
         /\ canUndo(h) => undo(h) \in Histories /\ Last(h.done) \in Entries
         /\ canRedo(h) => redo(h) \in Histories /\ Last(h.undone) \in Entries
<1>1. /\ h.done \in Seq(Entries) /\ h.undone \in Seq(Entries) /\ h.baseState \in Nat /\ h.lastState \in Nat
      /\ h = [done |-> h.done, undone |-> h.undone, baseState |-> h.baseState, lastState |-> h.lastState]
  BY DEF Histories
<1>2. <<>> \in Seq(Entries)
  OBVIOUS
<1>3. clear(h) \in Histories
  <2>1. \A a, b \in Seq(Entries) : \A m, n \in Nat :
          [h EXCEPT !.done = a, !.undone = b, !.lastState = m, !.baseState = n] \in Histories
    BY DEF Histories
  <2>2. h.lastState + 1 \in Nat
    BY <1>1
  <2> QED
    BY <1>2, <2>1, <2>2 DEF clear
<1>4. ASSUME NEW from \in Nat, NEW to \in Nat PROVE recordApplied(h, from, to) \in Histories
  <2> DEFINE entry == [from |-> from, to |-> to, state |-> h.lastState + 1]
             done == Append(h.done, entry)
  <2>1. entry \in Entries
    BY <1>1 DEF Entries
  <2> HIDE DEF entry
  <2>2. done \in Seq(Entries) /\ done # <<>>
    BY <1>1, <2>1, AppendProperties
  <2> HIDE DEF done
  <2>3. Head(done) \in Entries /\ Tail(done) \in Seq(Entries)
    BY <2>2, HeadTailProperties
  <2> DEFINE kept == IF Len(done) > Capacity THEN Tail(done) ELSE done
             base == IF Len(done) > Capacity THEN Head(done).state ELSE h.baseState
  <2>4. recordApplied(h, from, to) =
          [h EXCEPT !.undone = <<>>, !.lastState = h.lastState + 1, !.done = kept, !.baseState = base]
    BY DEF recordApplied, done, entry
  <2>5. kept \in Seq(Entries) /\ base \in Nat /\ h.lastState + 1 \in Nat
    BY <1>1, <2>2, <2>3 DEF Entries
  <2> HIDE DEF kept, base
  <2>6. \A a, b \in Seq(Entries) : \A m, n \in Nat :
          [h EXCEPT !.undone = b, !.lastState = m, !.done = a, !.baseState = n] \in Histories
    BY DEF Histories
  <2> QED
    <3> DEFINE top == h.lastState + 1
    <3>1. top \in Nat
      BY <2>5
    <3> HIDE DEF top
    <3>2. [h EXCEPT !.undone = <<>>, !.lastState = top, !.done = kept, !.baseState = base] \in Histories
      BY <1>2, <2>5, <2>6, <3>1
    <3> QED
      BY <2>4, <3>2 DEF top
<1>5. canUndo(h) => undo(h) \in Histories /\ Last(h.done) \in Entries
  <2>1. SUFFICES ASSUME h.done # <<>> PROVE undo(h) \in Histories /\ Last(h.done) \in Entries
    BY DEF canUndo
  <2>2. Front(h.done) \in Seq(Entries) /\ Last(h.done) \in Entries
    BY <1>1, <2>1, FrontAndLast
  <2>3. Append(h.undone, Last(h.done)) \in Seq(Entries)
    BY <1>1, <2>2, AppendProperties
  <2> QED
    BY <1>1, <2>2, <2>3 DEF undo, Histories
<1>6. canRedo(h) => redo(h) \in Histories /\ Last(h.undone) \in Entries
  <2>1. SUFFICES ASSUME h.undone # <<>> PROVE redo(h) \in Histories /\ Last(h.undone) \in Entries
    BY DEF canRedo
  <2>2. Front(h.undone) \in Seq(Entries) /\ Last(h.undone) \in Entries
    BY <1>1, <2>1, FrontAndLast
  <2>3. Append(h.done, Last(h.undone)) \in Seq(Entries)
    BY <1>1, <2>2, AppendProperties
  <2> QED
    BY <1>1, <2>2, <2>3 DEF redo, Histories
<1> QED
  BY <1>3, <1>4, <1>5, <1>6

\* Cleared tabs leave their numbers used.
LEMMA ClearsTabs ==
  ASSUME NEW k, Orderly(k), NEW new, new = clearTabs(k)
  PROVE  /\ Orderly(new) /\ new.active = NoTab /\ new.nextId = k.nextId /\ new.tabs = <<>>
         /\ Len(new.tabs) = 0 /\ DOMAIN new.tabs = {} /\ Ids(new) = {}
<1>1. clear(k.live.history) \in Histories
  BY HistoryTypes, Places DEF Document
<1>2. stateId(clear(k.live.history)) \in Nat
  <2>1. [Blank EXCEPT !.history = clear(k.live.history)] \in Document
    BY <1>1, BlankTypes DEF Document
  <2>2. [Blank EXCEPT !.history = clear(k.live.history)].history = clear(k.live.history)
    BY BlankTypes DEF Document
  <2> QED
    BY <2>1, <2>2, BlankTypes
<1>3. [Blank EXCEPT !.history = clear(k.live.history), !.savedState = stateId(clear(k.live.history))] \in Document
  BY <1>1, <1>2, BlankTypes DEF Document
<1>4. <<>> \in Seq(Tab) /\ Len(<<>>) = 0 /\ DOMAIN <<>> = {}
  OBVIOUS
<1>5. new \in Desks /\ new.active = NoTab /\ new.nextId = k.nextId /\ new.tabs = <<>>
  BY <1>3, <1>4 DEF clearTabs, Orderly, Desks, NoTab
<1>6. Orderly(new)
  BY <1>4, <1>5 DEF Orderly, NoTab
<1> QED
  BY <1>4, <1>5, <1>6 DEF Ids

\* What a place without a tab makes of the others.
Beyond(j, i) == IF j < i THEN j ELSE j + 1

\* The other tabs keep their documents when one closes, and another comes to the screen.
LEMMA ClosesTab ==
  ASSUME NEW k, Orderly(k), k.active # NoTab, NEW i \in DOMAIN k.tabs, NEW new, new = close(k, i)
  PROVE  /\ Orderly(new) /\ new.nextId = k.nextId
         /\ new.tabs # <<>> => new.active \in DOMAIN new.tabs
         /\ new.tabs = <<>> => new.active = NoTab
         /\ Ids(new) = Ids(k) \ {k.tabs[i].id}
         /\ \A id \in Ids(new) : Tabbed(new)[id] = Tabbed(k)[id]
<1> DEFINE n == Len(k.tabs)
<1>1. /\ k.tabs \in Seq(Tab) /\ k.live \in Document /\ n \in Nat
      /\ DOMAIN k.tabs = 1 .. n /\ k.active \in 1 .. n /\ k.nextId \in Nat /\ k.nextId # 0
      /\ \A j \in DOMAIN k.tabs : k.tabs[j] \in Tab /\ k.tabs[j].id \in 1 .. k.nextId - 1
      /\ \A j, l \in DOMAIN k.tabs : k.tabs[j].id = k.tabs[l].id => j = l
  BY Places DEF Orderly, NoTab
<1>2. CASE i = k.active /\ n = 1
  <2>1. new = clearTabs(k)
    BY <1>2 DEF close
  <2>2. Ids(k) = {k.tabs[i].id}
    BY <1>1, <1>2 DEF Ids
  <2> QED
    BY <2>1, <2>2, ClearsTabs
<1>3. CASE i # k.active \/ n # 1
  <2> DEFINE neighbor == IF i < n THEN i + 1 ELSE i - 1
             others == IF i # k.active THEN k.tabs ELSE [k.tabs EXCEPT ![neighbor].document = Blank]
  <2>1. i \in 1 .. n /\ n > 1 /\ neighbor \in 1 .. n /\ neighbor # i
    <3>1. i \in 1 .. n /\ n > 1
      <4>1. CASE i # k.active
        BY <1>1, <4>1
      <4>2. CASE n # 1
        <5>1. n \in Nat /\ i \in 1 .. n
          BY <1>1
        <5> HIDE DEF n
        <5> QED
          BY <4>2, <5>1
      <4> QED
        BY <1>3, <4>1, <4>2
    <3> QED
      BY <1>1, <3>1
  <2>2. /\ others \in Seq(Tab) /\ Len(others) = n
        /\ \A j \in 1 .. n : /\ others[j].id = k.tabs[j].id
                             /\ i # k.active \/ j # neighbor => others[j].document = k.tabs[j].document
    <3>1. CASE i # k.active
      BY <1>1, <3>1
    <3>2. CASE i = k.active
      <4> HIDE DEF neighbor
      <4>1. others = [k.tabs EXCEPT ![neighbor] = [k.tabs[neighbor] EXCEPT !.document = Blank]]
        BY <1>1, <2>1, <3>2
      <4>2. [k.tabs[neighbor] EXCEPT !.document = Blank] \in Tab
        BY <1>1, <2>1, BlankTypes DEF Tab
      <4>3. others \in Seq(Tab) /\ Len(others) = n
        BY <1>1, <2>1, <4>1, <4>2, ExceptSeq
      <4>4. \A j \in 1 .. n : others[j].id = k.tabs[j].id /\ (j # neighbor => others[j].document = k.tabs[j].document)
        BY <1>1, <2>1, <4>1 DEF Tab
      <4> QED
        BY <3>2, <4>3, <4>4
    <3> QED
      BY <3>1, <3>2
  <2> DEFINE live == IF i # k.active THEN k.live ELSE k.tabs[neighbor].document
             active == IF i # k.active THEN IF k.active > i THEN k.active - 1 ELSE k.active
                       ELSE IF neighbor > i THEN neighbor - 1 ELSE neighbor
  <2>3. new = [tabs |-> RemoveAt(others, i), active |-> active, live |-> live, nextId |-> k.nextId]
    <3>1. CASE i # k.active
      BY <3>1 DEF close, Orderly, Desks
    <3>2. CASE i = k.active
      BY <1>3, <3>2 DEF close, Orderly, Desks
    <3> QED
      BY <3>1, <3>2
  <2>4. live \in Document
    BY <1>1, <2>1 DEF Tab
  <2>5. /\ active \in 1 .. n - 1
        /\ \A j \in 1 .. n - 1 : j = active <=> Beyond(j, i) = IF i # k.active THEN k.active ELSE neighbor
    BY <1>1, <2>1 DEF Beyond
  <2> HIDE DEF others, live, active, neighbor
  <2>6. /\ new.tabs \in Seq(Tab) /\ Len(new.tabs) = n - 1 /\ DOMAIN new.tabs = 1 .. n - 1
        /\ \A j \in 1 .. n - 1 : new.tabs[j] = others[Beyond(j, i)]
        /\ new.active = active /\ new.live = live /\ new.nextId = k.nextId
    <3>1. new.tabs = RemoveAt(others, i) /\ new.active = active /\ new.live = live /\ new.nextId = k.nextId
      BY <2>3
    <3>2. /\ RemoveAt(others, i) \in Seq(Tab) /\ Len(RemoveAt(others, i)) = n - 1
          /\ \A j \in 1 .. n - 1 : RemoveAt(others, i)[j] = IF j < i THEN others[j] ELSE others[j + 1]
      BY <2>1, <2>2, RemoveAtIs
    <3>3. \A j \in 1 .. n - 1 : RemoveAt(others, i)[j] = others[Beyond(j, i)]
      BY <3>2 DEF Beyond
    <3>4. DOMAIN new.tabs = 1 .. n - 1
      BY <3>1, <3>2, LenProperties
    <3> QED
      BY <3>1, <3>2, <3>3, <3>4
  <2>7. \A j \in 1 .. n - 1 : Beyond(j, i) \in 1 .. n /\ Beyond(j, i) # i
    BY <1>1, <2>1 DEF Beyond
  <2>8. \A j, l \in 1 .. n - 1 : Beyond(j, i) = Beyond(l, i) => j = l
    BY <1>1, <2>1 DEF Beyond
  <2>9. \A j \in 1 .. n - 1 : new.tabs[j].id = k.tabs[Beyond(j, i)].id
    BY <2>2, <2>6, <2>7
  <2>10. Orderly(new)
    <3>1. new \in Desks
      BY <1>1, <2>3, <2>4, <2>5, <2>6 DEF Desks
    <3>2. \A j \in DOMAIN new.tabs : new.tabs[j].id \in 1 .. new.nextId - 1
      BY <1>1, <2>6, <2>7, <2>9
    <3>3. \A j, l \in DOMAIN new.tabs : new.tabs[j].id = new.tabs[l].id => j = l
      <4>1. SUFFICES ASSUME NEW j \in 1 .. n - 1, NEW l \in 1 .. n - 1, new.tabs[j].id = new.tabs[l].id PROVE j = l
        BY <2>6
      <4>2. k.tabs[Beyond(j, i)].id = k.tabs[Beyond(l, i)].id
        BY <2>9, <4>1
      <4>3. Beyond(j, i) = Beyond(l, i)
        BY <1>1, <2>7, <4>2
      <4> QED
        BY <2>8, <4>3
    <3> QED
      BY <1>1, <2>5, <2>6, <3>1, <3>2, <3>3 DEF Orderly
  <2>11. \A j \in 1 .. n - 1 : Held(new, j) = Held(k, Beyond(j, i))
    <3>1. TAKE j \in 1 .. n - 1
    <3>2. CASE i # k.active
      BY <1>1, <2>2, <2>5, <2>6, <2>7, <3>2 DEF Held, live
    <3>3. CASE i = k.active
      BY <1>1, <2>1, <2>2, <2>5, <2>6, <2>7, <3>3 DEF Held, live
    <3> QED
      BY <3>2, <3>3
  <2>12. Matches(new, k)
    <3>1. SUFFICES ASSUME NEW j \in 1 .. n - 1
                   PROVE  \E l \in DOMAIN k.tabs : new.tabs[j].id = k.tabs[l].id /\ Held(new, j) = Held(k, l)
      BY <2>6 DEF Matches
    <3>2. Beyond(j, i) \in DOMAIN k.tabs
      BY <1>1, <2>7
    <3> QED
      BY <2>9, <2>11, <3>2
  <2>13. Ids(new) = Ids(k) \ {k.tabs[i].id}
    <3>1. \A j \in 1 .. n - 1 : new.tabs[j].id \in Ids(k) \ {k.tabs[i].id}
      <4>1. TAKE j \in 1 .. n - 1
      <4>2. Beyond(j, i) \in DOMAIN k.tabs /\ Beyond(j, i) # i
        BY <1>1, <2>7
      <4>3. k.tabs[Beyond(j, i)].id # k.tabs[i].id
        BY <1>1, <4>2
      <4> QED
        BY <2>9, <4>2, <4>3 DEF Ids
    <3>2. ASSUME NEW l \in 1 .. n, l # i PROVE k.tabs[l].id \in Ids(new)
      <4>1. \E j \in 1 .. n - 1 : Beyond(j, i) = l
        <5>1. CASE l < i
          BY <1>1, <2>1, <5>1 DEF Beyond
        <5>2. CASE ~(l < i)
          <6>1. l - 1 \in 1 .. n - 1 /\ ~(l - 1 < i) /\ l - 1 + 1 = l
            BY <1>1, <2>1, <3>2, <5>2
          <6> QED
            BY <6>1 DEF Beyond
        <5> QED
          BY <5>1, <5>2
      <4> QED
        BY <2>6, <2>9, <4>1 DEF Ids
    <3>3. \A id \in Ids(new) : id \in Ids(k) \ {k.tabs[i].id}
      BY <2>6, <3>1 DEF Ids
    <3>4. \A id \in Ids(k) \ {k.tabs[i].id} : id \in Ids(new)
      <4>1. TAKE id \in Ids(k) \ {k.tabs[i].id}
      <4>2. PICK l \in DOMAIN k.tabs : k.tabs[l].id = id
        BY DEF Ids
      <4> QED
        BY <1>1, <3>2, <4>2
    <3> QED
      BY <3>3, <3>4
  <2>14. new.tabs # <<>> /\ new.active \in DOMAIN new.tabs
    BY <1>1, <2>1, <2>5, <2>6
  <2> QED
    BY <2>6, <2>10, <2>12, <2>13, <2>14, MatchingTabs
<1> QED
  BY <1>1, <1>2, <1>3

\* Which place was that of the tab at the place j, once the one at `from` is moved to `to`.
MovedFrom(j, from, to) == IF j < to THEN Beyond(j, from) ELSE IF j = to THEN from ELSE Beyond(j - 1, from)

\* A tab that is moved gives a permutation of the places.
LEMMA MovedPlaces ==
  ASSUME NEW n \in Nat, NEW from \in 1 .. n, NEW to \in 1 .. n
  PROVE  /\ \A j \in 1 .. n : MovedFrom(j, from, to) \in 1 .. n
         /\ \A j, l \in 1 .. n : MovedFrom(j, from, to) = MovedFrom(l, from, to) => j = l
         /\ \A l \in 1 .. n : \E j \in 1 .. n : MovedFrom(j, from, to) = l
<1>1. \A j \in 1 .. n : MovedFrom(j, from, to) \in 1 .. n
  BY DEF MovedFrom, Beyond
<1>2. \A j, l \in 1 .. n : MovedFrom(j, from, to) = MovedFrom(l, from, to) => j = l
  BY DEF MovedFrom, Beyond
<1>3. ASSUME NEW l \in 1 .. n PROVE \E j \in 1 .. n : MovedFrom(j, from, to) = l
  <2> DEFINE short == IF l < from THEN l ELSE l - 1
             j == IF l = from THEN to ELSE IF short < to THEN short ELSE short + 1
  <2>1. j \in 1 .. n
    OBVIOUS
  <2>2. MovedFrom(j, from, to) = l
    BY DEF MovedFrom, Beyond
  <2> HIDE DEF j
  <2> QED
    BY <2>1, <2>2
<1> QED
  BY <1>1, <1>2, <1>3

Moved(s, from, to) == InsertAt(RemoveAt(s, from), to, s[from])

IsMoved(t, s, n, from, to) == \A j \in 1 .. n : t[j] = s[MovedFrom(j, from, to)]

\* RemoveAt and InsertAt move an element.
LEMMA MovedIs ==
  ASSUME NEW S, NEW s \in Seq(S), NEW n \in Nat, n = Len(s), NEW from \in 1 .. n, NEW to \in 1 .. n
  PROVE  /\ Moved(s, from, to) \in Seq(S) /\ Len(Moved(s, from, to)) = n
         /\ DOMAIN Moved(s, from, to) = 1 .. n
         /\ IsMoved(Moved(s, from, to), s, n, from, to)
<1> DEFINE rest == RemoveAt(s, from)
           e == s[from]
           t == InsertAt(rest, to, e)
<1>1. rest \in Seq(S) /\ Len(rest) = n - 1 /\ e \in S
  BY RemoveAtIs, ElementOfSeq
<1>2. \A j \in 1 .. n - 1 : /\ j < from => rest[j] = s[j]
                            /\ ~(j < from) => rest[j] = s[j + 1]
  BY RemoveAtIs
<1>3. \A j \in 1 .. n - 1 : rest[j] = s[Beyond(j, from)]
  BY <1>2 DEF Beyond
<1> HIDE DEF rest, e
<1>4. rest \in Seq(S) /\ e \in S /\ n = Len(rest) + 1
  BY <1>1
<1>5. t \in Seq(S) /\ Len(t) = n
  BY <1>4, InsertAtIs
<1>6. ASSUME NEW j \in 1 .. n
      PROVE  /\ j < to => t[j] = rest[j]
             /\ j = to => t[j] = e
             /\ j > to => t[j] = rest[j - 1]
  BY <1>4, InsertAtIs
<1> HIDE DEF t
<1>7. DOMAIN t = 1 .. n
  BY <1>5, LenProperties
<1>8. ASSUME NEW j \in 1 .. n PROVE t[j] = s[MovedFrom(j, from, to)]
  <2>1. CASE j < to
    <3>1. MovedFrom(j, from, to) = Beyond(j, from) /\ j \in 1 .. n - 1
      BY <2>1 DEF MovedFrom
    <3> QED
      BY <1>3, <1>6, <2>1, <3>1
  <2>2. CASE j = to
    BY <1>6, <2>2 DEF MovedFrom, e
  <2>3. CASE j > to
    <3>1. MovedFrom(j, from, to) = Beyond(j - 1, from) /\ j - 1 \in 1 .. n - 1
      BY <2>3 DEF MovedFrom
    <3> QED
      BY <1>3, <1>6, <2>3, <3>1
  <2> QED
    BY <2>1, <2>2, <2>3
<1> QED
  BY <1>5, <1>7, <1>8 DEF Moved, IsMoved, t, rest, e

\* Tabs that change places keep their documents, and the one on screen stays there.
LEMMA MovesTab ==
  ASSUME NEW k, Orderly(k), NEW from \in DOMAIN k.tabs, NEW to \in DOMAIN k.tabs,
         k.active # NoTab, NEW new, new = move(k, from, to)
  PROVE  /\ Orderly(new) /\ new.nextId = k.nextId /\ new.active \in DOMAIN new.tabs
         /\ new.tabs[new.active].id = k.tabs[k.active].id
         /\ Ids(new) = Ids(k) /\ Tabbed(new) = Tabbed(k)
<1> DEFINE n == Len(k.tabs)
           tabs == InsertAt(RemoveAt(k.tabs, from), to, k.tabs[from])
           moved == [k EXCEPT !.tabs = tabs]
           active == At(moved, k.tabs[k.active].id)
<1>1. /\ k.tabs \in Seq(Tab) /\ k.live \in Document /\ n \in Nat
      /\ DOMAIN k.tabs = 1 .. n /\ k.active \in 1 .. n /\ k.nextId \in Nat /\ k.nextId # 0
      /\ \A j \in DOMAIN k.tabs : k.tabs[j] \in Tab /\ k.tabs[j].id \in 1 .. k.nextId - 1
      /\ \A j, l \in DOMAIN k.tabs : k.tabs[j].id = k.tabs[l].id => j = l
      /\ from \in 1 .. n /\ to \in 1 .. n /\ n = Len(k.tabs)
  BY Places DEF Orderly, NoTab
<1> HIDE DEF n
<1>12. /\ \A j \in 1 .. n : MovedFrom(j, from, to) \in 1 .. n
       /\ \A j, l \in 1 .. n : MovedFrom(j, from, to) = MovedFrom(l, from, to) => j = l
       /\ \A l \in 1 .. n : \E j \in 1 .. n : MovedFrom(j, from, to) = l
  <2>1. n \in Nat /\ from \in 1 .. n /\ to \in 1 .. n
    BY <1>1
  <2> QED
    BY <2>1, MovedPlaces
<1>3. /\ tabs \in Seq(Tab) /\ Len(tabs) = n /\ DOMAIN tabs = 1 .. n
      /\ \A j \in 1 .. n : tabs[j] = k.tabs[MovedFrom(j, from, to)]
  <2> DEFINE s == k.tabs
  <2>1. s \in Seq(Tab) /\ n \in Nat /\ n = Len(s) /\ from \in 1 .. n /\ to \in 1 .. n
    BY <1>1
  <2> HIDE DEF s
  <2>2. /\ Moved(s, from, to) \in Seq(Tab) /\ Len(Moved(s, from, to)) = n
        /\ DOMAIN Moved(s, from, to) = 1 .. n
        /\ IsMoved(Moved(s, from, to), s, n, from, to)
    BY <2>1, MovedIs
  <2>3. tabs = Moved(s, from, to)
    BY DEF Moved, s
  <2> HIDE DEF tabs
  <2> QED
    BY <2>2, <2>3 DEF s, IsMoved
<1> HIDE DEF tabs
<1>4. moved.tabs = tabs
  BY DEF Orderly, Desks
<1>5. new = [tabs |-> tabs, active |-> active, live |-> k.live, nextId |-> k.nextId]
  BY <1>1 DEF move, tabs, Orderly, Desks, NoTab
<1> HIDE DEF moved
<1>6. active \in 1 .. n /\ MovedFrom(active, from, to) = k.active
  <2>1. \E j \in 1 .. n : tabs[j].id = k.tabs[k.active].id
    <3>1. PICK j \in 1 .. n : MovedFrom(j, from, to) = k.active
      BY <1>1, <1>12
    <3>2. tabs[j] = k.tabs[k.active]
      BY <1>3, <3>1
    <3> QED
      BY <3>2
  <2>2. active \in 1 .. n /\ tabs[active].id = k.tabs[k.active].id
    BY <1>3, <1>4, <2>1 DEF At
  <2> HIDE DEF active
  <2>3. tabs[active] = k.tabs[MovedFrom(active, from, to)] /\ MovedFrom(active, from, to) \in 1 .. n
    BY <1>3, <1>12, <2>2
  <2>4. k.tabs[MovedFrom(active, from, to)].id = k.tabs[k.active].id
    BY <2>2, <2>3
  <2> QED
    BY <1>1, <2>2, <2>3, <2>4
<1> HIDE DEF active
<1>7. /\ new.tabs = tabs /\ new.active = active /\ new.live = k.live /\ new.nextId = k.nextId
      /\ new \in Desks
  BY <1>1, <1>3, <1>5, <1>6 DEF Desks
<1>8. Orderly(new)
  <2>1. \A j \in 1 .. n : tabs[j].id \in 1 .. k.nextId - 1
    BY <1>1, <1>3, <1>12
  <2>2. ASSUME NEW j \in 1 .. n, NEW l \in 1 .. n, tabs[j].id = tabs[l].id PROVE j = l
    <3>1. k.tabs[MovedFrom(j, from, to)].id = k.tabs[MovedFrom(l, from, to)].id
      BY <1>3, <2>2
    <3>2. MovedFrom(j, from, to) = MovedFrom(l, from, to)
      <4>1. MovedFrom(j, from, to) \in DOMAIN k.tabs /\ MovedFrom(l, from, to) \in DOMAIN k.tabs
        BY <1>1, <1>12
      <4>2. \A x, y \in DOMAIN k.tabs : k.tabs[x].id = k.tabs[y].id => x = y
        BY <1>1
      <4> QED
        BY <3>1, <4>1, <4>2
    <3> QED
      BY <1>12, <3>2
  <2> QED
    BY <1>1, <1>3, <1>6, <1>7, <2>1, <2>2 DEF Orderly
<1>9. \A j \in 1 .. n : Held(new, j) = Held(k, MovedFrom(j, from, to))
  <2>1. TAKE j \in 1 .. n
  <2>2. j = active <=> MovedFrom(j, from, to) = k.active
    BY <1>1, <1>6, <1>12
  <2> QED
    BY <1>3, <1>7, <2>2 DEF Held
<1>10. Matches(new, k)
  <2>1. SUFFICES ASSUME NEW j \in 1 .. n
                 PROVE  \E l \in DOMAIN k.tabs : new.tabs[j].id = k.tabs[l].id /\ Held(new, j) = Held(k, l)
    BY <1>3, <1>7 DEF Matches
  <2>2. MovedFrom(j, from, to) \in DOMAIN k.tabs /\ new.tabs[j].id = k.tabs[MovedFrom(j, from, to)].id
    BY <1>1, <1>3, <1>7, <1>12
  <2> QED
    BY <1>9, <2>2
<1>11. Matches(k, new)
  <2>1. SUFFICES ASSUME NEW l \in 1 .. n
                 PROVE  \E j \in DOMAIN new.tabs : k.tabs[l].id = new.tabs[j].id /\ Held(k, l) = Held(new, j)
    BY <1>1 DEF Matches
  <2>2. PICK j \in 1 .. n : MovedFrom(j, from, to) = l
    BY <1>1, <1>12
  <2> QED
    BY <1>3, <1>7, <1>9, <2>2
<1> QED
  BY <1>3, <1>6, <1>7, <1>8, <1>10, <1>11, SameTabs

\* What is saved keeps its scene and its history.
LEMMA SavesTabs ==
  ASSUME NEW k, Orderly(k), NEW is, NEW new, new = SaveTabs(k, is)
  PROVE  /\ Orderly(new) /\ new.active = k.active /\ new.nextId = k.nextId
         /\ Len(new.tabs) = Len(k.tabs) /\ DOMAIN new.tabs = DOMAIN k.tabs
         /\ Ids(new) = Ids(k)
         /\ \A i \in DOMAIN k.tabs :
              /\ new.tabs[i].id = k.tabs[i].id
              /\ Held(new, i) = IF i \in is THEN SaveTab(Held(k, i)) ELSE Held(k, i)
<1> DEFINE tabs == [i \in DOMAIN k.tabs |->
                      IF i \in is \ {k.active} THEN [k.tabs[i] EXCEPT !.document = SaveTab(@)] ELSE k.tabs[i]]
           live == IF k.active \in is THEN SaveTab(k.live) ELSE k.live
<1>1. /\ k.tabs \in Seq(Tab) /\ k.live \in Document /\ Len(k.tabs) \in Nat
      /\ DOMAIN k.tabs = 1 .. Len(k.tabs) /\ k.active \in Nat /\ k.nextId \in Nat
      /\ \A i \in DOMAIN k.tabs : k.tabs[i] \in Tab
  BY Places
<1>2. \A d \in Document : SaveTab(d) \in Document
  <2>1. TAKE d \in Document
  <2>2. stateId(d.history) \in Nat
    BY BlankTypes
  <2> QED
    BY <2>2 DEF SaveTab, Document
<1>3. live \in Document
  BY <1>1, <1>2
<1>4. \A i \in DOMAIN k.tabs : /\ tabs[i] \in Tab /\ tabs[i].id = k.tabs[i].id
                               /\ i \in is \ {k.active} => tabs[i].document = SaveTab(k.tabs[i].document)
                               /\ i \notin is \ {k.active} => tabs[i].document = k.tabs[i].document
  <2>1. TAKE i \in DOMAIN k.tabs
  <2>2. k.tabs[i] \in Tab /\ k.tabs[i].document \in Document
    BY <1>1 DEF Tab
  <2>3. SaveTab(k.tabs[i].document) \in Document
    BY <1>2, <2>2
  <2> QED
    BY <2>2, <2>3 DEF Tab
<1>5. tabs \in Seq(Tab) /\ Len(tabs) = Len(k.tabs) /\ DOMAIN tabs = DOMAIN k.tabs
  <2>1. tabs \in [1 .. Len(k.tabs) -> Tab]
    BY <1>1, <1>4
  <2> HIDE DEF tabs
  <2> QED
    BY <1>1, <2>1, FunctionIsSeq
<1>6. new = [tabs |-> tabs, active |-> k.active, live |-> live, nextId |-> k.nextId]
  BY DEF SaveTabs, Orderly, Desks
<1> HIDE DEF tabs, live
<1>7. /\ new.tabs = tabs /\ new.active = k.active /\ new.live = live /\ new.nextId = k.nextId
      /\ new \in Desks
  BY <1>1, <1>3, <1>5, <1>6 DEF Desks
<1>8. Orderly(new)
  BY <1>4, <1>5, <1>7 DEF Orderly
<1>9. Ids(new) = Ids(k)
  BY <1>4, <1>5, <1>7 DEF Ids
<1>10. \A i \in DOMAIN k.tabs : Held(new, i) = IF i \in is THEN SaveTab(Held(k, i)) ELSE Held(k, i)
  BY <1>4, <1>7 DEF Held, live
<1> QED
  BY <1>4, <1>5, <1>7, <1>8, <1>9, <1>10

-----------------------------------------------------------------------------
(* The desk as its tabs: what opening and closing make of them *)

\* The number of the tab on screen.
Shown(k) == IF k.active = NoTab THEN NoTab ELSE k.tabs[k.active].id

\* A desk with a tab on screen.
Laid(k) == Orderly(k) /\ k.active \in DOMAIN k.tabs

\* What a laid desk is, gathered for what follows.
LEMMA LaidFacts ==
  ASSUME NEW k, Laid(k)
  PROVE  /\ Orderly(k) /\ k.active # NoTab /\ k.active \in DOMAIN k.tabs
         /\ Shown(k) = k.tabs[k.active].id /\ Shown(k) \in Ids(k) /\ At(k, Shown(k)) = k.active
         /\ Tabbed(k)[Shown(k)] = k.live
         /\ k.nextId \notin Ids(k) /\ k.nextId \in Nat \ {0}
         /\ \A id \in Ids(k) : id \in Nat \ {0} /\ id < k.nextId
         /\ \A id \in Ids(k) : At(k, id) = k.active <=> id = Shown(k)
<1>1. Orderly(k) /\ k.active \in DOMAIN k.tabs /\ DOMAIN k.tabs = 1 .. Len(k.tabs) /\ k.nextId \in Nat \ {0}
  BY Places DEF Laid, Orderly
<1>2. k.active # NoTab /\ Shown(k) = k.tabs[k.active].id
  BY <1>1 DEF Shown, NoTab
<1>3. Shown(k) \in Ids(k) /\ At(k, Shown(k)) = k.active
  BY <1>1, <1>2, Places
<1>4. Tabbed(k)[Shown(k)] = k.live
  BY <1>1, <1>3, Places DEF Held
<1>5. \A id \in Ids(k) : id \in Nat \ {0} /\ id < k.nextId
  BY <1>1, Places
<1>6. k.nextId \notin Ids(k)
  BY <1>1, <1>5
<1>7. \A id \in Ids(k) : At(k, id) = k.active <=> id = Shown(k)
  BY <1>1, <1>2, <1>3, Places
<1> QED
  BY <1>1, <1>2, <1>3, <1>4, <1>5, <1>6, <1>7

\* A tab opens, and comes to the screen.
LEMMA OpensTab ==
  ASSUME NEW k, Orderly(k), NEW d \in Document, NEW new, new = addAndActivate(k, d)
  PROVE  /\ Laid(new) /\ new.nextId = k.nextId + 1 /\ Len(new.tabs) = Len(k.tabs) + 1
         /\ Ids(new) = Ids(k) \cup {k.nextId} /\ Shown(new) = k.nextId
         /\ \A id \in Ids(k) : Tabbed(new)[id] = Tabbed(k)[id]
         /\ Tabbed(new)[k.nextId] = d
         /\ \A i \in DOMAIN k.tabs : i \in DOMAIN new.tabs /\ new.tabs[i].id = k.tabs[i].id
<1> DEFINE added == Add(k, d)
           last == Len(k.tabs) + 1
<1>1. /\ Orderly(added) /\ added.nextId = k.nextId + 1 /\ Len(added.tabs) = last
      /\ DOMAIN added.tabs = 1 .. last
      /\ \A i \in DOMAIN k.tabs : added.tabs[i] = k.tabs[i] /\ Held(added, i) = Held(k, i)
      /\ added.tabs[last].id = k.nextId /\ Held(added, last) = d
  BY AddsTab
<1>2. Len(k.tabs) \in Nat /\ DOMAIN k.tabs = 1 .. Len(k.tabs)
  BY Places
<1>3. last \in DOMAIN added.tabs /\ \A i \in DOMAIN k.tabs : i \in DOMAIN added.tabs
  BY <1>1, <1>2
<1>4. \A i \in DOMAIN added.tabs : i \in DOMAIN k.tabs \/ i = last
  BY <1>1, <1>2
<1>5. new = activate(added, last)
  BY DEF addAndActivate
<1> HIDE DEF added, last
<1>6. /\ Orderly(new) /\ new.active = last /\ new.nextId = added.nextId
      /\ Len(new.tabs) = Len(added.tabs) /\ DOMAIN new.tabs = DOMAIN added.tabs
      /\ \A j \in DOMAIN added.tabs : new.tabs[j].id = added.tabs[j].id /\ Held(new, j) = Held(added, j)
      /\ Ids(new) = Ids(added) /\ Tabbed(new) = Tabbed(added)
  BY <1>1, <1>3, <1>5, ActivatesTab
<1>7. Laid(new)
  BY <1>3, <1>6 DEF Laid
<1>8. Ids(added) = Ids(k) \cup {k.nextId}
  BY <1>1, <1>3, <1>4 DEF Ids
<1>9. Shown(new) = k.nextId
  BY <1>1, <1>3, <1>6, <1>7, LaidFacts
<1>10. \A id \in Ids(k) : Tabbed(added)[id] = Tabbed(k)[id]
  <2>1. TAKE id \in Ids(k)
  <2>2. PICK i \in DOMAIN k.tabs : k.tabs[i].id = id
    BY DEF Ids
  <2>3. added.tabs[i].id = id /\ Held(added, i) = Held(k, i) /\ i \in DOMAIN added.tabs
    BY <1>1, <1>3, <2>2
  <2>4. Tabbed(added)[id] = Held(added, i)
    BY <1>1, <2>3, Places
  <2>5. Tabbed(k)[id] = Held(k, i)
    BY <2>2, Places
  <2> QED
    BY <2>3, <2>4, <2>5
<1>11. Tabbed(added)[k.nextId] = d
  BY <1>1, <1>3, Places
<1> QED
  BY <1>1, <1>3, <1>6, <1>7, <1>8, <1>9, <1>10, <1>11 DEF last

\* Tabs a desk has replaced: the first of them, which closes.
Gone(k, replaced) == IF replaced = {} THEN {} ELSE {k.tabs[CHOOSE i \in replaced : TRUE].id}

\* A tab opens in place of another.
LEMMA OpensInPlace ==
  ASSUME NEW k, Orderly(k), NEW d \in Document, NEW replaced \in SUBSET DOMAIN k.tabs,
         NEW new, new = OpenInPlace(k, d, replaced)
  PROVE  /\ Laid(new) /\ new.nextId = k.nextId + 1
         /\ Ids(new) = (Ids(k) \ Gone(k, replaced)) \cup {k.nextId}
         /\ \A id \in Ids(k) \ Gone(k, replaced) : Tabbed(new)[id] = Tabbed(k)[id]
         /\ Tabbed(new)[k.nextId] = d
<1> DEFINE opened == addAndActivate(k, d)
           i == CHOOSE i \in replaced : TRUE
<1>1. /\ Laid(opened) /\ opened.nextId = k.nextId + 1
      /\ Ids(opened) = Ids(k) \cup {k.nextId}
      /\ \A id \in Ids(k) : Tabbed(opened)[id] = Tabbed(k)[id]
      /\ Tabbed(opened)[k.nextId] = d
      /\ \A j \in DOMAIN k.tabs : j \in DOMAIN opened.tabs /\ opened.tabs[j].id = k.tabs[j].id
  BY OpensTab
<1>2. CASE replaced = {}
  BY <1>1, <1>2 DEF OpenInPlace, Gone
<1>3. CASE replaced # {}
  <2>1. i \in replaced /\ i \in DOMAIN k.tabs
    BY <1>3
  <2>2. new = close(opened, i) /\ Gone(k, replaced) = {k.tabs[i].id}
    BY <1>3 DEF OpenInPlace, Gone
  <2> HIDE DEF opened, i
  <2>3. opened.active # NoTab /\ Orderly(opened)
    BY <1>1, LaidFacts
  <2>4. i \in DOMAIN opened.tabs /\ opened.tabs[i].id = k.tabs[i].id
    BY <1>1, <2>1
  <2>5. /\ Orderly(new) /\ new.nextId = opened.nextId
        /\ new.tabs # <<>> => new.active \in DOMAIN new.tabs
        /\ Ids(new) = Ids(opened) \ {opened.tabs[i].id}
        /\ \A id \in Ids(new) : Tabbed(new)[id] = Tabbed(opened)[id]
    BY <2>2, <2>3, <2>4, ClosesTab
  <2>6. k.tabs[i].id # k.nextId
    BY <2>1, Places DEF Orderly
  <2>7. Ids(new) = (Ids(k) \ Gone(k, replaced)) \cup {k.nextId}
    BY <1>1, <2>2, <2>4, <2>5, <2>6
  <2>8. new.tabs # <<>>
    <3>1. k.nextId \in Ids(new)
      BY <2>7
    <3> QED
      BY <3>1 DEF Ids
  <2> QED
    BY <1>1, <2>2, <2>5, <2>7, <2>8 DEF Laid
<1> QED
  BY <1>2, <1>3

\* What CloseTabs does at a tab, and the desks it goes through.
CloseNext(l, k, ids, n) == IF k.tabs[n].id \in ids THEN close(l, At(l, k.tabs[n].id)) ELSE l

CloseDesks(left, k, ids, m) == [n \in 0 .. m |-> IF n = 0 THEN k ELSE CloseNext(left[n - 1], k, ids, n)]

\* The desks CloseTabs goes through exist.
LEMMA CloseDesksExist ==
  ASSUME NEW k, NEW ids, NEW n \in Nat
  PROVE  \E left : left = CloseDesks(left, k, ids, n)
<1> DEFINE F(m, left) == left = CloseDesks(left, k, ids, m)
           Bad == {m \in Nat : ~ \E left : F(m, left)}
<1>1. SUFFICES ASSUME Bad # {} PROVE FALSE
  OBVIOUS
<1>2. PICK m \in Bad : \A l \in Bad : m <= l
  <2>1. Bad \in SUBSET Nat
    OBVIOUS
  <2> HIDE DEF Bad
  <2> QED
    BY <1>1, <2>1, LeastNat
<1>3. m # 0
  <2>1. F(0, [i \in 0 .. 0 |-> k])
    BY DEF CloseDesks
  <2> QED
    BY <1>2, <2>1
<1>4. PICK left : F(m - 1, left)
  BY <1>2, <1>3
<1> DEFINE longer == [i \in 0 .. m |-> IF i = m THEN CloseNext(left[m - 1], k, ids, m) ELSE left[i]]
<1>5. F(m, longer)
  <2>1. m \in Nat \ {0} /\ \A i \in 0 .. m : i # m => i \in 0 .. m - 1
    BY <1>2, <1>3
  <2>2. \A i \in 0 .. m - 1 : longer[i] = left[i]
    BY <2>1
  <2>3. \A i \in 0 .. m - 1 : left[i] = IF i = 0 THEN k ELSE CloseNext(left[i - 1], k, ids, i)
    BY <1>4 DEF CloseDesks
  <2>4. \A i \in 0 .. m : longer[i] = IF i = 0 THEN k ELSE CloseNext(longer[i - 1], k, ids, i)
    <3>1. TAKE i \in 0 .. m
    <3>2. CASE i = m
      BY <2>1, <2>2, <3>2
    <3>3. CASE i # m
      BY <2>1, <2>2, <2>3, <3>3
    <3> QED
      BY <3>2, <3>3
  <2> HIDE DEF longer
  <2>5. longer = [i \in 0 .. m |-> longer[i]]
    BY DEF longer
  <2> QED
    BY <2>4, <2>5 DEF CloseDesks
<1> QED
  BY <1>2, <1>5

\* The tabs that are closed go, and the others keep their documents; a new scene opens when none is left.
LEMMA ClosesTabs ==
  ASSUME NEW k, Laid(k), NEW ids, NEW new, new = CloseTabs(k, ids)
  PROVE  /\ Laid(new) /\ new.nextId \in {k.nextId, k.nextId + 1}
         /\ Ids(k) \ ids \subseteq Ids(new) /\ Ids(new) \subseteq (Ids(k) \ ids) \cup {k.nextId}
         /\ \A id \in Ids(k) \ ids : Tabbed(new)[id] = Tabbed(k)[id]
         /\ k.nextId \in Ids(new) => Tabbed(new)[k.nextId] = Blank
<1> DEFINE N == Len(k.tabs)
           left == CHOOSE left : left = CloseDesks(left, k, ids, N)
           upTo(n) == {k.tabs[j].id : j \in 1 .. n} \cap ids
           Good(n) == /\ Orderly(left[n]) /\ left[n].nextId = k.nextId
                      /\ left[n].tabs # <<>> => left[n].active \in DOMAIN left[n].tabs
                      /\ Ids(left[n]) = Ids(k) \ upTo(n)
                      /\ \A id \in Ids(left[n]) : Tabbed(left[n])[id] = Tabbed(k)[id]
           Bad == {n \in 0 .. N : ~Good(n)}
<1>1. N \in Nat /\ DOMAIN k.tabs = 1 .. N /\ Orderly(k) /\ k.active \in 1 .. N
  BY Places DEF Laid
<1>2. left = CloseDesks(left, k, ids, N)
  BY <1>1, CloseDesksExist
<1>3. new = IF left[N].tabs = <<>> THEN addAndActivate(left[N], Blank) ELSE left[N]
  BY DEF CloseTabs, CloseDesks, CloseNext
<1> HIDE DEF left, Good
<1>4. \A n \in 0 .. N : left[n] = IF n = 0 THEN k ELSE CloseNext(left[n - 1], k, ids, n)
  <2> HIDE DEF Bad
  <2> QED
    BY <1>2 DEF CloseDesks
<1> HIDE DEF upTo
<1>5. Good(0)
  <2>1. left[0] = k
    BY <1>1, <1>4
  <2>2. upTo(0) = {}
    BY DEF upTo
  <2> QED
    BY <1>1, <2>1, <2>2 DEF Good
<1>6. ASSUME NEW n \in 1 .. N, Good(n - 1) PROVE Good(n)
  <2> DEFINE l == left[n - 1]
             id == k.tabs[n].id
  <2>1. left[n] = CloseNext(l, k, ids, n)
    BY <1>1, <1>4
  <2>2. /\ Orderly(l) /\ l.nextId = k.nextId
        /\ l.tabs # <<>> => l.active \in DOMAIN l.tabs
        /\ Ids(l) = Ids(k) \ upTo(n - 1)
        /\ \A x \in Ids(l) : Tabbed(l)[x] = Tabbed(k)[x]
    BY <1>6 DEF Good
  <2>3. upTo(n) = upTo(n - 1) \cup ({id} \cap ids)
    <3>1. 1 .. n = 1 .. n - 1 \cup {n}
      BY <1>1
    <3> QED
      BY <3>1 DEF upTo
  <2>4. n \in DOMAIN k.tabs /\ id \in Ids(k)
    BY <1>1 DEF Ids
  <2>5. id \notin upTo(n - 1)
    <3>1. \A j \in 1 .. n - 1 : j \in DOMAIN k.tabs /\ j # n
      BY <1>1
    <3>2. \A j \in 1 .. n - 1 : k.tabs[j].id # id
      BY <1>1, <2>4, <3>1 DEF Orderly
    <3> QED
      BY <3>2 DEF upTo
  <2> HIDE DEF l, id
  <2>6. CASE id \in ids
    <3>1. left[n] = close(l, At(l, id))
      BY <2>1, <2>6 DEF CloseNext, id
    <3>2. id \in Ids(l)
      BY <2>2, <2>4, <2>5
    <3>3. At(l, id) \in DOMAIN l.tabs /\ l.tabs[At(l, id)].id = id
      BY <2>2, <3>2, Places
    <3>4. l.tabs # <<>>
      BY <3>3
    <3>5. Laid(l)
      BY <2>2, <3>4 DEF Laid
    <3>6. l.active # NoTab
      BY <3>5, LaidFacts
    <3>7. /\ Orderly(left[n]) /\ left[n].nextId = l.nextId
          /\ left[n].tabs # <<>> => left[n].active \in DOMAIN left[n].tabs
          /\ Ids(left[n]) = Ids(l) \ {l.tabs[At(l, id)].id}
          /\ \A x \in Ids(left[n]) : Tabbed(left[n])[x] = Tabbed(l)[x]
      <4> DEFINE next == left[n]
      <4>1. next = close(l, At(l, id))
        BY <3>1
      <4> HIDE DEF next
      <4>2. /\ Orderly(next) /\ next.nextId = l.nextId
            /\ next.tabs # <<>> => next.active \in DOMAIN next.tabs
            /\ Ids(next) = Ids(l) \ {l.tabs[At(l, id)].id}
            /\ \A x \in Ids(next) : Tabbed(next)[x] = Tabbed(l)[x]
        BY <2>2, <3>3, <3>6, <4>1, ClosesTab
      <4> QED
        BY <4>2 DEF next
    <3>8. Ids(left[n]) = Ids(k) \ upTo(n)
      BY <2>2, <2>3, <2>6, <3>3, <3>7
    <3>9. Ids(left[n]) \subseteq Ids(l)
      BY <3>7
    <3> QED
      BY <2>2, <3>7, <3>8, <3>9 DEF Good
  <2>7. CASE id \notin ids
    <3>1. left[n] = l
      BY <2>1, <2>7 DEF CloseNext, id
    <3>2. upTo(n) = upTo(n - 1)
      BY <2>3, <2>7
    <3> QED
      BY <2>2, <3>1, <3>2 DEF Good
  <2> QED
    BY <2>6, <2>7
<1>7. Bad = {}
  <2>1. SUFFICES ASSUME Bad # {} PROVE FALSE
    OBVIOUS
  <2>2. PICK n \in Bad : \A m \in Bad : n <= m
    <3>1. Bad \in SUBSET Nat
      BY <1>1
    <3> HIDE DEF Bad
    <3> QED
      BY <2>1, <3>1, LeastNat
  <2>3. n # 0
    BY <1>5, <2>2
  <2>4. n \in 1 .. N /\ n - 1 \in 0 .. N /\ ~(n <= n - 1)
    BY <1>1, <2>2, <2>3
  <2>5. Good(n - 1)
    <3>1. n - 1 \notin Bad
      BY <2>2, <2>4
    <3> QED
      BY <2>4, <3>1
  <2> QED
    BY <1>6, <2>2, <2>4, <2>5
<1>8. Good(N)
  <2>1. N \in 0 .. N /\ N \notin Bad
    BY <1>1, <1>7
  <2> QED
    BY <2>1
<1> DEFINE kept == left[N]
<1>9. /\ Orderly(kept) /\ kept.nextId = k.nextId
      /\ kept.tabs # <<>> => kept.active \in DOMAIN kept.tabs
      /\ Ids(kept) = Ids(k) \ ids
      /\ \A id \in Ids(kept) : Tabbed(kept)[id] = Tabbed(k)[id]
      /\ new = IF kept.tabs = <<>> THEN addAndActivate(kept, Blank) ELSE kept
  <2>1. upTo(N) = Ids(k) \cap ids
    BY <1>1 DEF upTo, Ids
  <2> QED
    BY <1>3, <1>8, <2>1 DEF Good
<1> HIDE DEF kept, N
<1>10. k.nextId \notin Ids(kept)
  BY <1>9, LaidFacts
<1>11. CASE kept.tabs = <<>>
  <2>1. new = addAndActivate(kept, Blank) /\ Blank \in Document
    BY <1>9, <1>11, BlankTypes
  <2>2. /\ Laid(new) /\ new.nextId = kept.nextId + 1
        /\ Ids(new) = Ids(kept) \cup {kept.nextId}
        /\ \A id \in Ids(kept) : Tabbed(new)[id] = Tabbed(kept)[id]
        /\ Tabbed(new)[kept.nextId] = Blank
    BY <1>9, <2>1, OpensTab
  <2> QED
    BY <1>9, <2>2
<1>12. CASE kept.tabs # <<>>
  BY <1>9, <1>10, <1>12 DEF Laid
<1> QED
  BY <1>11, <1>12

-----------------------------------------------------------------------------
(* Desks that follow one another *)

\* The tabs of `new` are tabs of `k` with their documents, or new ones with documents of S.
Follows(new, k, S) ==
  /\ Laid(new) /\ new.nextId >= k.nextId
  /\ \A id \in Ids(new) : \/ id \in Ids(k) /\ Tabbed(new)[id] = Tabbed(k)[id]
                          \/ id \notin Ids(k) /\ id >= k.nextId /\ Tabbed(new)[id] \in S

\* No two tabs show one file.
PathsApart(k) ==
  \A a, b \in Ids(k) :
    Tabbed(k)[a].path = Tabbed(k)[b].path /\ Tabbed(k)[a].path # NoPath => a = b

\* A desk that follows one that follows another follows that one.
LEMMA FollowsTwice ==
  ASSUME NEW S, NEW a, NEW b, NEW c, Orderly(a), Follows(b, a, S), Follows(c, b, S)
  PROVE  Follows(c, a, S)
<1>1. /\ a.nextId \in Nat /\ b.nextId \in Nat /\ c.nextId \in Nat
      /\ b.nextId >= a.nextId /\ c.nextId >= b.nextId /\ Laid(c)
      /\ Ids(a) \subseteq 1 .. a.nextId - 1 /\ Ids(c) \subseteq 1 .. c.nextId - 1
  BY Places DEF Follows, Laid
<1>2. c.nextId >= a.nextId
  BY <1>1
<1>3. ASSUME NEW id \in Ids(c)
      PROVE  \/ id \in Ids(a) /\ Tabbed(c)[id] = Tabbed(a)[id]
             \/ id \notin Ids(a) /\ id >= a.nextId /\ Tabbed(c)[id] \in S
  <2>1. CASE id \in Ids(b) /\ Tabbed(c)[id] = Tabbed(b)[id]
    BY <2>1 DEF Follows
  <2>2. CASE id \notin Ids(b) /\ id >= b.nextId /\ Tabbed(c)[id] \in S
    <3>1. id \in Nat /\ id >= a.nextId
      BY <1>1, <2>2
    <3>2. id \notin Ids(a)
      BY <1>1, <3>1
    <3> QED
      BY <2>2, <3>1, <3>2
  <2> QED
    BY <2>1, <2>2 DEF Follows
<1> QED
  BY <1>1, <1>2, <1>3 DEF Follows

\* A tab that comes to the screen or is moved changes no document.
LEMMA TurningFollows ==
  ASSUME NEW k, Laid(k), NEW new, NEW S,
         \/ \E i \in DOMAIN k.tabs : new = activate(k, i)
         \/ \E from, to \in DOMAIN k.tabs : new = move(k, from, to)
  PROVE  Follows(new, k, S) /\ Ids(new) = Ids(k) /\ Tabbed(new) = Tabbed(k)
<1>1. Orderly(k) /\ k.active # NoTab /\ k.nextId \in Nat
  BY LaidFacts
<1>2. ASSUME Orderly(new), new.active \in DOMAIN new.tabs, new.nextId = k.nextId,
             Ids(new) = Ids(k), Tabbed(new) = Tabbed(k)
      PROVE  Follows(new, k, S)
  BY <1>1, <1>2 DEF Follows, Laid
<1>3. ASSUME NEW i \in DOMAIN k.tabs, new = activate(k, i)
      PROVE  Follows(new, k, S) /\ Ids(new) = Ids(k) /\ Tabbed(new) = Tabbed(k)
  BY <1>1, <1>2, <1>3, ActivatesTab
<1>4. ASSUME NEW from \in DOMAIN k.tabs, NEW to \in DOMAIN k.tabs, new = move(k, from, to)
      PROVE  Follows(new, k, S) /\ Ids(new) = Ids(k) /\ Tabbed(new) = Tabbed(k)
  BY <1>1, <1>2, <1>4, MovesTab
<1> QED
  BY <1>3, <1>4

\* A scene that is opened, beside the others or in the place of some, is the only new document.
LEMMA OpeningFollows ==
  ASSUME NEW k, Orderly(k), NEW d \in Document, NEW replaced \in SUBSET DOMAIN k.tabs, NEW new,
         \/ new = addAndActivate(k, d) /\ replaced = {}
         \/ new = OpenInPlace(k, d, replaced)
  PROVE  /\ Follows(new, k, {d}) /\ Ids(new) = (Ids(k) \ Gone(k, replaced)) \cup {k.nextId}
         /\ Tabbed(new)[k.nextId] = d
<1>1. new = OpenInPlace(k, d, replaced)
  BY DEF OpenInPlace
<1>2. /\ Laid(new) /\ new.nextId = k.nextId + 1
      /\ Ids(new) = (Ids(k) \ Gone(k, replaced)) \cup {k.nextId}
      /\ \A id \in Ids(k) \ Gone(k, replaced) : Tabbed(new)[id] = Tabbed(k)[id]
      /\ Tabbed(new)[k.nextId] = d
  BY <1>1, OpensInPlace
<1>3. k.nextId \in Nat /\ k.nextId \notin Ids(k)
  BY Places
<1> QED
  BY <1>2, <1>3 DEF Follows

\* Closing tabs makes no document but a new scene.
LEMMA ClosingFollows ==
  ASSUME NEW k, Laid(k), NEW ids, NEW new, new = CloseTabs(k, ids)
  PROVE  Follows(new, k, {Blank}) /\ Ids(k) \ ids \subseteq Ids(new)
<1>1. /\ Laid(new) /\ new.nextId \in {k.nextId, k.nextId + 1}
      /\ Ids(k) \ ids \subseteq Ids(new) /\ Ids(new) \subseteq (Ids(k) \ ids) \cup {k.nextId}
      /\ \A id \in Ids(k) \ ids : Tabbed(new)[id] = Tabbed(k)[id]
      /\ k.nextId \in Ids(new) => Tabbed(new)[k.nextId] = Blank
  BY ClosesTabs
<1>2. k.nextId \in Nat /\ k.nextId \notin Ids(k)
  BY LaidFacts
<1> QED
  BY <1>1, <1>2 DEF Follows

\* Files stay apart when the new documents show others, or take the place of those that showed them.
LEMMA StayApart ==
  ASSUME NEW k, Orderly(k), PathsApart(k), NEW new, NEW d, NEW S, Follows(new, k, S),
         \A id \in Ids(new) : id \notin Ids(k) => id = k.nextId /\ Tabbed(new)[id] = d,
         \A id \in Ids(new) \cap Ids(k) : Tabbed(k)[id].path = d.path => d.path = NoPath
  PROVE  PathsApart(new)
<1>1. \A id \in Ids(new) : id \in Ids(k) => Tabbed(new)[id] = Tabbed(k)[id]
  BY DEF Follows
<1>2. ASSUME NEW a \in Ids(new), NEW b \in Ids(new),
             Tabbed(new)[a].path = Tabbed(new)[b].path, Tabbed(new)[a].path # NoPath
      PROVE  a = b
  <2>1. CASE a \in Ids(k) /\ b \in Ids(k)
    BY <1>1, <1>2, <2>1 DEF PathsApart
  <2>2. CASE a \in Ids(k) /\ b \notin Ids(k)
    BY <1>1, <1>2, <2>2
  <2>3. CASE a \notin Ids(k) /\ b \in Ids(k)
    BY <1>1, <1>2, <2>3
  <2>4. CASE a \notin Ids(k) /\ b \notin Ids(k)
    BY <2>4
  <2> QED
    BY <2>1, <2>2, <2>3, <2>4
<1> QED
  BY <1>2 DEF PathsApart

\* With its files apart, a desk has one tab at most for a file, and it is the one replaced.
LEMMA FoundByPath ==
  ASSUME NEW k, Orderly(k), NEW path
  PROVE  /\ findByPath(k, path) \subseteq DOMAIN k.tabs /\ Untouched(k) \subseteq DOMAIN k.tabs
         /\ findByPath(k, path) = {} /\ path # NoPath => \A id \in Ids(k) : Tabbed(k)[id].path # path
         /\ PathsApart(k) /\ findByPath(k, path) # {}
              => \A id \in Ids(k) \ Gone(k, findByPath(k, path)) : Tabbed(k)[id].path # path
<1>1. findByPath(k, path) \subseteq DOMAIN k.tabs /\ Untouched(k) \subseteq DOMAIN k.tabs
  BY DEF findByPath, Untouched
<1>2. ASSUME path # NoPath, NEW id \in Ids(k), Tabbed(k)[id].path = path
      PROVE  At(k, id) \in findByPath(k, path)
  <2>1. At(k, id) \in DOMAIN k.tabs /\ Tabbed(k)[id] = Held(k, At(k, id))
    BY Places
  <2> QED
    BY <1>2, <2>1 DEF findByPath
<1>3. ASSUME PathsApart(k), findByPath(k, path) # {}, NEW id \in Ids(k), Tabbed(k)[id].path = path
      PROVE  id \in Gone(k, findByPath(k, path))
  <2> DEFINE i == CHOOSE i \in findByPath(k, path) : TRUE
  <2>1. i \in findByPath(k, path)
    BY <1>3
  <2>2. Gone(k, findByPath(k, path)) = {k.tabs[i].id}
    BY <1>3 DEF Gone
  <2> HIDE DEF i
  <2>3. i \in DOMAIN k.tabs /\ Held(k, i).path = path /\ path # NoPath
    BY <2>1 DEF findByPath
  <2>4. k.tabs[i].id \in Ids(k) /\ Tabbed(k)[k.tabs[i].id] = Held(k, i)
    BY <2>3, Places
  <2>5. k.tabs[i].id = id
    BY <1>3, <2>3, <2>4 DEF PathsApart
  <2> QED
    BY <2>2, <2>5
<1> QED
  BY <1>1, <1>2, <1>3

\* Opening a file in place of the tab it replaces keeps the files apart.
LEMMA OpeningStaysApart ==
  ASSUME NEW k, Orderly(k), PathsApart(k), NEW d \in Document, NEW replaced \in SUBSET DOMAIN k.tabs,
         NEW new, new = OpenInPlace(k, d, replaced),
         findByPath(k, d.path) = {} \/ replaced = findByPath(k, d.path)
  PROVE  PathsApart(new)
<1>1. /\ Follows(new, k, {d}) /\ Ids(new) = (Ids(k) \ Gone(k, replaced)) \cup {k.nextId}
      /\ Tabbed(new)[k.nextId] = d
  BY OpeningFollows
<1>2. \A id \in Ids(new) \cap Ids(k) : Tabbed(k)[id].path = d.path => d.path = NoPath
  <2>1. CASE findByPath(k, d.path) = {}
    BY <2>1, FoundByPath
  <2>2. CASE replaced = findByPath(k, d.path) /\ replaced # {}
    <3>1. \A id \in Ids(k) \ Gone(k, replaced) : Tabbed(k)[id].path # d.path
      BY <2>2, FoundByPath
    <3>2. k.nextId \notin Ids(k)
      BY Places
    <3> QED
      BY <1>1, <3>1, <3>2
  <2> QED
    BY <2>1, <2>2
<1>3. \A id \in Ids(new) : id \notin Ids(k) => id = k.nextId /\ Tabbed(new)[id] = d
  BY <1>1
<1> QED
  BY <1>1, <1>2, <1>3, StayApart

\* What a recovered scene opens as: with a history of its own, and never saved.
RecoveredAs == {d \in Document : d.history = NewHistory /\ d.savedState = NeverSaved}

\* A recovered scene is the only new document, and has the path of its file unless another tab has
\* it.
LEMMA RecoversScene ==
  ASSUME NEW k, Laid(k), NEW copy \in Names, folder.copies[copy.file] \in Nat,
         NEW new, new = openRecoveredScene(k, copy)
  PROVE  Follows(new, k, RecoveredAs) /\ (PathsApart(k) => PathsApart(new))
<1> DEFINE d == [document(copy.original, folder.copies[copy.file]) EXCEPT !.savedState = NeverSaved]
           open == findByPath(k, copy.original)
           replaced == IF open # {} THEN open ELSE Untouched(k)
<1>1. d \in RecoveredAs /\ d.path = copy.original
  <2>1. copy.original \in Paths \cup {NoPath}
    BY DEF Names
  <2>2. document(copy.original, folder.copies[copy.file]) \in Document
    BY <2>1, BlankTypes
  <2> QED
    BY <2>2 DEF document, Document, RecoveredAs
<1>2. new = OpenInPlace(k, d, replaced)
  BY DEF openRecoveredScene
<1>3. Orderly(k)
  BY LaidFacts
<1> HIDE DEF d
<1>4. replaced \in SUBSET DOMAIN k.tabs /\ d \in Document
  BY <1>1, <1>3, FoundByPath DEF RecoveredAs
<1>5. findByPath(k, d.path) = {} \/ replaced = findByPath(k, d.path)
  BY <1>1
<1> HIDE DEF replaced
<1>6. Follows(new, k, {d})
  BY <1>2, <1>3, <1>4, OpeningFollows
<1>7. Follows(new, k, RecoveredAs)
  BY <1>1, <1>6 DEF Follows
<1>8. PathsApart(k) => PathsApart(new)
  BY <1>2, <1>3, <1>4, <1>5, OpeningStaysApart
<1> QED
  BY <1>7, <1>8

RecoverDesks(opened, k, copies, m) ==
  [n \in 0 .. m |-> IF n = 0 THEN k ELSE openRecoveredScene(opened[n - 1], copies[n])]

\* The desks openRecoveredScenes goes through exist.
LEMMA RecoverDesksExist ==
  ASSUME NEW k, NEW copies, NEW n \in Nat
  PROVE  \E opened : opened = RecoverDesks(opened, k, copies, n)
<1> DEFINE F(m, opened) == opened = RecoverDesks(opened, k, copies, m)
           Bad == {m \in Nat : ~ \E opened : F(m, opened)}
<1>1. SUFFICES ASSUME Bad # {} PROVE FALSE
  OBVIOUS
<1>2. PICK m \in Bad : \A l \in Bad : m <= l
  <2>1. Bad \in SUBSET Nat
    OBVIOUS
  <2> HIDE DEF Bad
  <2> QED
    BY <1>1, <2>1, LeastNat
<1>3. m # 0
  <2>1. F(0, [i \in 0 .. 0 |-> k])
    BY DEF RecoverDesks
  <2> QED
    BY <1>2, <2>1
<1>4. PICK opened : F(m - 1, opened)
  BY <1>2, <1>3
<1> DEFINE longer == [i \in 0 .. m |-> IF i = m THEN openRecoveredScene(opened[m - 1], copies[m]) ELSE opened[i]]
<1>5. F(m, longer)
  <2>1. m \in Nat \ {0} /\ \A i \in 0 .. m : i # m => i \in 0 .. m - 1
    BY <1>2, <1>3
  <2>2. \A i \in 0 .. m - 1 : longer[i] = opened[i]
    BY <2>1
  <2>3. \A i \in 0 .. m - 1 : opened[i] = IF i = 0 THEN k ELSE openRecoveredScene(opened[i - 1], copies[i])
    BY <1>4 DEF RecoverDesks
  <2>4. \A i \in 0 .. m : longer[i] = IF i = 0 THEN k ELSE openRecoveredScene(longer[i - 1], copies[i])
    <3>1. TAKE i \in 0 .. m
    <3>2. CASE i = m
      BY <2>1, <2>2, <3>2
    <3>3. CASE i # m
      BY <2>1, <2>2, <2>3, <3>3
    <3> QED
      BY <3>2, <3>3
  <2> HIDE DEF longer
  <2>5. longer = [i \in 0 .. m |-> longer[i]]
    BY DEF longer
  <2> QED
    BY <2>4, <2>5 DEF RecoverDesks
<1> QED
  BY <1>2, <1>5

\* The scenes recovered open one after the other, and the files stay apart.
LEMMA RecoversScenes ==
  ASSUME NEW k, Laid(k), NEW copies \in Seq(Names),
         \A n \in DOMAIN copies : folder.copies[copies[n].file] \in Nat,
         NEW new, new = openRecoveredScenes(k, copies)
  PROVE  Follows(new, k, RecoveredAs) /\ (PathsApart(k) => PathsApart(new))
<1> DEFINE N == Len(copies)
           opened == CHOOSE opened : opened = RecoverDesks(opened, k, copies, N)
           Good(n) == Follows(opened[n], k, RecoveredAs) /\ (PathsApart(k) => PathsApart(opened[n]))
           Bad == {n \in 0 .. N : ~Good(n)}
<1>1. N \in Nat /\ DOMAIN copies = 1 .. N /\ \A n \in 1 .. N : copies[n] \in Names
  BY LenProperties, ElementOfSeq
<1>2. opened = RecoverDesks(opened, k, copies, N)
  BY <1>1, RecoverDesksExist
<1>3. new = opened[N]
  BY DEF openRecoveredScenes, RecoverDesks
<1> HIDE DEF opened, Good
<1>4. \A n \in 0 .. N : opened[n] = IF n = 0 THEN k ELSE openRecoveredScene(opened[n - 1], copies[n])
  <2> HIDE DEF Bad
  <2> QED
    BY <1>2 DEF RecoverDesks
<1>5. Good(0)
  <2>1. opened[0] = k
    BY <1>1, <1>4
  <2>2. k.nextId \in Nat
    BY LaidFacts
  <2> QED
    BY <2>1, <2>2 DEF Good, Follows
<1>6. ASSUME NEW n \in 1 .. N, Good(n - 1) PROVE Good(n)
  <2> DEFINE l == opened[n - 1]
             next == opened[n]
             copy == copies[n]
  <2>1. next = openRecoveredScene(l, copy) /\ copy \in Names /\ folder.copies[copy.file] \in Nat
    BY <1>1, <1>4
  <2>2. Follows(l, k, RecoveredAs) /\ (PathsApart(k) => PathsApart(l))
    BY <1>6 DEF Good
  <2> HIDE DEF l, next, copy
  <2>3. Laid(l)
    BY <2>2 DEF Follows
  <2>4. Follows(next, l, RecoveredAs) /\ (PathsApart(l) => PathsApart(next))
    BY <2>1, <2>3, RecoversScene
  <2>5. Follows(next, k, RecoveredAs)
    BY <2>2, <2>4, FollowsTwice DEF Laid
  <2> QED
    BY <2>2, <2>4, <2>5 DEF Good, next
<1>7. Bad = {}
  <2>1. SUFFICES ASSUME Bad # {} PROVE FALSE
    OBVIOUS
  <2>2. PICK n \in Bad : \A m \in Bad : n <= m
    <3>1. Bad \in SUBSET Nat
      BY <1>1
    <3> HIDE DEF Bad
    <3> QED
      BY <2>1, <3>1, LeastNat
  <2>3. n # 0
    BY <1>5, <2>2
  <2>4. n \in 1 .. N /\ n - 1 \in 0 .. N /\ ~(n <= n - 1)
    BY <1>1, <2>2, <2>3
  <2>5. Good(n - 1)
    <3>1. n - 1 \notin Bad
      BY <2>2, <2>4
    <3> QED
      BY <2>4, <3>1
  <2> QED
    BY <1>6, <2>2, <2>4, <2>5
<1>8. Good(N)
  <2>1. N \in 0 .. N /\ N \notin Bad
    BY <1>1, <1>7
  <2> QED
    BY <2>1
<1> QED
  BY <1>3, <1>8 DEF Good

\* The tabs a project opens with, in order.
LEMMA AddsAll ==
  ASSUME NEW k, Orderly(k), k.tabs = <<>>, NEW documents \in Seq(Document),
         NEW new, new = AddAll(k, documents)
  PROVE  /\ Orderly(new) /\ new.nextId >= k.nextId /\ DOMAIN new.tabs = DOMAIN documents
         /\ \A n \in DOMAIN documents : new.tabs[n].id = k.nextId + n - 1 /\ Held(new, n) = documents[n]
<1> DEFINE n == Len(documents)
           added == [j \in DOMAIN documents |-> [id |-> k.nextId + j - 1, document |-> documents[j]]]
<1>1. n \in Nat /\ DOMAIN documents = 1 .. n /\ \A j \in 1 .. n : documents[j] \in Document
  BY LenProperties, ElementOfSeq
<1>2. k.nextId \in Nat \ {0} /\ k.live \in Document /\ k.active = 0
  <2>1. Len(k.tabs) = 0
    OBVIOUS
  <2> QED
    BY <2>1, Places DEF Orderly
<1>3. \A j \in 1 .. n : added[j] \in Tab /\ added[j].id = k.nextId + j - 1 /\ added[j].document = documents[j]
  BY <1>1, <1>2 DEF Tab
<1>4. added \in Seq(Tab) /\ Len(added) = n
  <2>1. added \in [1 .. n -> Tab]
    BY <1>1, <1>3
  <2> HIDE DEF added, n
  <2> QED
    BY <1>1, <2>1, FunctionIsSeq
<1>5. new = [tabs |-> k.tabs \o added, active |-> k.active, live |-> k.live, nextId |-> k.nextId + n]
  BY DEF AddAll, Orderly, Desks
<1> HIDE DEF added
<1>6. k.tabs \o added = added
  BY <1>4
<1>7. /\ new.tabs = added /\ new.active = 0 /\ new.live = k.live /\ new.nextId = k.nextId + n
      /\ new \in Desks
  BY <1>1, <1>2, <1>4, <1>5, <1>6 DEF Desks
<1>8. DOMAIN added = 1 .. n
  BY <1>4, LenProperties
<1>9. Orderly(new)
  <2>1. \A j \in 1 .. n : new.tabs[j].id \in 1 .. new.nextId - 1
    BY <1>1, <1>2, <1>3, <1>7
  <2>2. \A j, l \in 1 .. n : new.tabs[j].id = new.tabs[l].id => j = l
    BY <1>1, <1>2, <1>3, <1>7
  <2>3. new.active <= Len(new.tabs) /\ new.nextId # 0
    BY <1>1, <1>2, <1>4, <1>7
  <2> QED
    BY <1>7, <1>8, <2>1, <2>2, <2>3 DEF Orderly
<1>10. \A j \in 1 .. n : Held(new, j) = documents[j]
  BY <1>1, <1>3, <1>7 DEF Held
<1> QED
  BY <1>1, <1>2, <1>3, <1>7, <1>8, <1>9, <1>10

-----------------------------------------------------------------------------
(* The numbers of a finite set, in order *)

UpTo(S, m) == {k \in S : k <= m}

\* The n-th number of a set is in it, and the n-th.
LEMMA NthIs ==
  ASSUME NEW S \in SUBSET Nat, IsFiniteSet(S), NEW n \in 1 .. Cardinality(S)
  PROVE  Nth(S, n) \in S /\ Cardinality(UpTo(S, Nth(S, n))) = n
<1> DEFINE Has(j) == \E m \in S : Cardinality(UpTo(S, m)) = j
           N == Cardinality(S)
           Bad == {j \in 1 .. N : ~Has(j)}
<1>1. N \in Nat /\ n \in 1 .. N
  BY FS_CardinalityType
<1>2. \A m : IsFiniteSet(UpTo(S, m)) /\ UpTo(S, m) \subseteq S
  BY FS_Subset DEF UpTo
<1>3. \A m : Cardinality(UpTo(S, m)) \in Nat
  BY <1>2, FS_CardinalityType
<1>4. Bad = {}
  <2>1. SUFFICES ASSUME Bad # {} PROVE FALSE
    OBVIOUS
  <2>2. PICK j \in Bad : \A l \in Bad : j <= l
    <3>1. Bad \in SUBSET Nat
      BY <1>1
    <3> HIDE DEF Bad
    <3> QED
      BY <2>1, <3>1, LeastNat
  <2>3. j \in 1 .. N /\ ~Has(j) /\ \A l \in 1 .. j - 1 : Has(l)
    <3>1. j \in 1 .. N /\ ~Has(j)
      BY <2>2
    <3>2. ASSUME NEW l \in 1 .. j - 1 PROVE Has(l)
      <4>1. l \in 1 .. N /\ ~(j <= l)
        BY <1>1, <3>1
      <4>2. l \notin Bad
        BY <2>2, <4>1
      <4> QED
        BY <4>1, <4>2
    <3> QED
      BY <3>1, <3>2
  <2> HIDE DEF Has, N, Bad
  <2>4. CASE j = 1
    <3>1. S # {}
      BY <1>1, <2>3, FS_EmptySet DEF N
    <3>2. PICK m \in S : \A l \in S : m <= l
      BY <3>1, LeastNat
    <3>3. UpTo(S, m) = {m}
      <4>1. ASSUME NEW l \in S PROVE l <= m <=> l = m
        <5>1. l \in Nat /\ m \in Nat /\ m <= l
          BY <3>2
        <5> QED
          BY <5>1
      <4> QED
        BY <4>1 DEF UpTo
    <3>4. Cardinality(UpTo(S, m)) = 1
      BY <3>3, FS_Singleton
    <3> QED
      BY <2>3, <2>4, <3>4 DEF Has
  <2>5. CASE j # 1
    <3>1. j - 1 \in 1 .. j - 1 /\ j - 1 + 1 = j /\ j - 1 < N
      BY <1>1, <2>3, <2>5
    <3>2. PICK m \in S : Cardinality(UpTo(S, m)) = j - 1
      BY <2>3, <3>1 DEF Has
    <3> DEFINE R == S \ UpTo(S, m)
    <3>3. R # {}
      <4>1. UpTo(S, m) # S
        BY <3>1, <3>2 DEF N
      <4> QED
        BY <1>2, <4>1
    <3>4. R \in SUBSET Nat
      OBVIOUS
    <3> HIDE DEF R
    <3>5. PICK q \in R : \A l \in R : q <= l
      BY <3>3, <3>4, LeastNat
    <3>6. q \in S /\ q \in Nat /\ m \in Nat /\ ~(q <= m)
      BY <3>5 DEF R, UpTo
    <3>7. UpTo(S, q) = UpTo(S, m) \cup {q}
      <4>1. ASSUME NEW l \in S, l <= q PROVE l <= m \/ l = q
        <5>1. l \in R => q <= l
          BY <3>5
        <5>2. l \notin R => l <= m
          BY DEF R, UpTo
        <5>3. l \in Nat
          OBVIOUS
        <5> QED
          BY <3>6, <4>1, <5>1, <5>2, <5>3
      <4>2. ASSUME NEW l \in S, l <= m PROVE l <= q
        <5>1. l \in Nat
          OBVIOUS
        <5> QED
          BY <3>6, <4>2, <5>1
      <4>3. q <= q
        BY <3>6
      <4> QED
        BY <3>6, <4>1, <4>2, <4>3 DEF UpTo
    <3>8. q \notin UpTo(S, m)
      BY <3>6 DEF UpTo
    <3>9. Cardinality(UpTo(S, q)) = j
      <4> DEFINE before == UpTo(S, m)
      <4>1. IsFiniteSet(before) /\ Cardinality(before) = j - 1 /\ q \notin before
        BY <1>2, <3>2, <3>8
      <4> HIDE DEF before
      <4>2. Cardinality(before \cup {q}) = Cardinality(before) + 1
        BY <4>1, FS_AddElement
      <4> QED
        BY <3>1, <3>7, <4>1, <4>2 DEF before
    <3> QED
      BY <2>3, <3>6, <3>9 DEF Has
  <2> QED
    BY <2>4, <2>5
<1>5. Has(n)
  <2>1. n \notin Bad
    BY <1>4
  <2> QED
    BY <1>1, <2>1
<1> QED
  BY <1>5 DEF Nth, UpTo

\* Every number of a set has its place.
LEMMA NthOf ==
  ASSUME NEW S \in SUBSET Nat, IsFiniteSet(S), NEW m \in S
  PROVE  /\ Cardinality(UpTo(S, m)) \in 1 .. Cardinality(S)
         /\ Nth(S, Cardinality(UpTo(S, m))) = m
<1> DEFINE n == Cardinality(UpTo(S, m))
<1>1. \A x : /\ IsFiniteSet(UpTo(S, x)) /\ UpTo(S, x) \subseteq S
             /\ Cardinality(UpTo(S, x)) \in Nat /\ Cardinality(UpTo(S, x)) <= Cardinality(S)
  BY FS_Subset, FS_CardinalityType DEF UpTo
<1>2. m \in UpTo(S, m)
  BY DEF UpTo
<1>3. n # 0 /\ n \in Nat /\ n <= Cardinality(S) /\ Cardinality(S) \in Nat
  BY <1>1, <1>2, FS_EmptySet, FS_CardinalityType
<1>4. n \in 1 .. Cardinality(S)
  BY <1>3
<1>5. Nth(S, n) \in S /\ Cardinality(UpTo(S, Nth(S, n))) = n
  BY <1>4, NthIs
<1>6. ASSUME NEW a \in S, NEW b \in S, a < b PROVE Cardinality(UpTo(S, a)) # Cardinality(UpTo(S, b))
  <2>1. UpTo(S, a) \subseteq UpTo(S, b)
    <3>1. ASSUME NEW l \in S, l <= a PROVE l <= b
      <4>1. l \in Nat /\ a \in Nat /\ b \in Nat
        OBVIOUS
      <4> QED
        BY <1>6, <3>1, <4>1
    <3> QED
      BY <3>1 DEF UpTo
  <2>2. b \in UpTo(S, b) /\ b \notin UpTo(S, a)
    BY <1>6 DEF UpTo
  <2> QED
    BY <1>1, <2>1, <2>2, FS_Subset
<1>7. Nth(S, n) = m
  <2> DEFINE x == Nth(S, n)
  <2>1. x \in S /\ x \in Nat /\ m \in Nat
    BY <1>5
  <2>2. ~(x < m) /\ ~(m < x)
    BY <1>5, <1>6, <2>1
  <2> HIDE DEF x
  <2>3. x = m
    BY <2>1, <2>2
  <2> QED
    BY <2>3 DEF x
<1> QED
  BY <1>4, <1>7

\* A new name is a number no other copy has, another one for each n.
LEMMA FreshIs ==
  ASSUME NEW used, IsFiniteSet(used), NEW n \in Nat \ {0}
  PROVE  /\ Fresh(used, n) \in Nat /\ Fresh(used, n) \notin used
         /\ Cardinality((1 .. Fresh(used, n)) \ used) = n
<1> DEFINE c == Cardinality(used)
           all == 1 .. c + n
           S == all \ used
<1>1. c \in Nat
  BY FS_CardinalityType
<1>2. IsFiniteSet(all) /\ Cardinality(all) = c + n /\ all \in SUBSET Nat
  <2>1. 1 \in Int /\ c + n \in Int /\ ~(1 > c + n) /\ c + n - 1 + 1 = c + n
    BY <1>1
  <2> QED
    BY <2>1, FS_Interval
<1>3. Fresh(used, n) = Nth(S, n)
  BY DEF Fresh
<1> HIDE DEF all
<1>4. IsFiniteSet(S) /\ Cardinality(S) = Cardinality(all) - Cardinality(all \cap used)
  BY <1>2, FS_Difference
<1>5. Cardinality(all \cap used) \in Nat /\ Cardinality(all \cap used) <= c
  <2>1. IsFiniteSet(all \cap used) /\ Cardinality(all \cap used) <= c
    BY FS_Intersection
  <2> QED
    BY <2>1, FS_CardinalityType
<1>6. n \in 1 .. Cardinality(S) /\ S \in SUBSET Nat
  <2> DEFINE taken == Cardinality(all \cap used)
             free == Cardinality(S)
  <2>1. S \in SUBSET Nat
    BY <1>2
  <2>2. taken \in Nat /\ taken <= c
    BY <1>5
  <2>4. free = Cardinality(all) - taken
    BY <1>4
  <2>5. Cardinality(all) = c + n
    BY <1>2
  <2> HIDE DEF taken, free, c, S
  <2>3. n \in 1 .. free
    BY <1>1, <2>2, <2>4, <2>5
  <2> QED
    BY <2>1, <2>3 DEF free
<1> HIDE DEF S
<1>7. Nth(S, n) \in S /\ Cardinality(UpTo(S, Nth(S, n))) = n
  BY <1>4, <1>6, NthIs
<1>8. UpTo(S, Nth(S, n)) = (1 .. Nth(S, n)) \ used
  <2>1. PICK x : x = Nth(S, n)
    OBVIOUS
  <2>2. x \in 1 .. c + n
    BY <1>7, <2>1 DEF S, all
  <2>3. c + n \in Nat
    BY <1>1
  <2>4. PICK top \in Nat : top = c + n
    BY <2>3
  <2>5. \A y : y \in 1 .. x <=> y \in 1 .. c + n /\ y <= x
    <3>1. x \in 1 .. top
      BY <2>2, <2>4
    <3>2. \A y : y \in 1 .. x <=> y \in 1 .. top /\ y <= x
      BY <3>1
    <3> QED
      BY <2>4, <3>2
  <2>6. UpTo(S, x) = (1 .. x) \ used
    BY <2>5 DEF UpTo, S, all
  <2> QED
    BY <2>1, <2>6
<1> QED
  BY <1>3, <1>6, <1>7, <1>8 DEF S

-----------------------------------------------------------------------------
(* The desk a project opens with *)

Filed == files \in [Paths -> Nat \cup {NoFile}]

\* What a scene opens as: as its file says, and with a history of its own.
OpenedAs ==
  {d \in Document : /\ d.history = NewHistory /\ d.savedState = 0
                    /\ d.path # NoPath => d.scene = files[d.path]}

\* What a project opens are documents of its files.
LEMMA OpenedTypes ==
  ASSUME Filed
  PROVE  /\ Blank \in OpenedAs
         /\ \A p \in Paths : files[p] # NoFile => document(p, files[p]) \in OpenedAs
<1>1. Blank \in OpenedAs
  BY BlankTypes DEF OpenedAs, Blank, document
<1>2. ASSUME NEW p \in Paths, files[p] # NoFile PROVE document(p, files[p]) \in OpenedAs
  <2>1. files[p] \in Nat
    BY <1>2 DEF Filed, NoFile
  <2>2. document(p, files[p]) \in Document
    BY <2>1, BlankTypes
  <2> QED
    BY <2>2 DEF OpenedAs, document
<1> QED
  BY <1>1, <1>2

\* The scenes of a project are laid out anew, each file once.
LEMMA LaysOut ==
  ASSUME Filed, NEW documents \in Seq(Document), NEW i \in DOMAIN documents,
         \A n \in DOMAIN documents : documents[n] \in OpenedAs,
         \A m, n \in DOMAIN documents :
           documents[m].path = documents[n].path /\ documents[m].path # NoPath => m = n,
         NEW new, new = activate(AddAll(clearTabs(Closed), documents), i)
  PROVE  Follows(new, Closed, OpenedAs) /\ PathsApart(new)
<1> DEFINE k == clearTabs(Closed)
           added == AddAll(k, documents)
<1>1. Orderly(k) /\ k.nextId = Closed.nextId /\ k.tabs = <<>>
  BY ClosedIsOrderly, ClearsTabs
<1>2. Closed.nextId = 1
  BY DEF Closed
<1> HIDE DEF k
<1>3. /\ Orderly(added) /\ added.nextId >= k.nextId /\ DOMAIN added.tabs = DOMAIN documents
      /\ \A n \in DOMAIN documents : added.tabs[n].id = k.nextId + n - 1 /\ Held(added, n) = documents[n]
  BY <1>1, AddsAll
<1>4. new = activate(added, i)
  BY DEF k
<1> HIDE DEF added
<1>5. /\ Orderly(new) /\ new.active = i /\ new.nextId = added.nextId
      /\ DOMAIN new.tabs = DOMAIN added.tabs
      /\ Ids(new) = Ids(added) /\ Tabbed(new) = Tabbed(added)
  BY <1>3, <1>4, ActivatesTab
<1>6. \A id \in Ids(new) : \E n \in DOMAIN documents : At(added, id) = n /\ Tabbed(new)[id] = documents[n]
  <2>1. TAKE id \in Ids(new)
  <2>2. At(added, id) \in DOMAIN documents /\ Tabbed(added)[id] = Held(added, At(added, id))
    BY <1>3, <1>5, Places
  <2> QED
    BY <1>3, <1>5, <2>2
<1>7. Follows(new, Closed, OpenedAs)
  <2>1. Laid(new)
    BY <1>3, <1>5 DEF Laid
  <2>2. \A id \in Ids(new) : id \notin Ids(Closed) /\ id >= 1 /\ Tabbed(new)[id] \in OpenedAs
    BY <1>6, <2>1, ClosedIsOrderly, LaidFacts
  <2> QED
    BY <1>1, <1>2, <1>3, <1>5, <2>1, <2>2 DEF Follows
<1>8. PathsApart(new)
  <2>1. SUFFICES ASSUME NEW a \in Ids(new), NEW b \in Ids(new),
                        Tabbed(new)[a].path = Tabbed(new)[b].path, Tabbed(new)[a].path # NoPath
                 PROVE  a = b
    BY DEF PathsApart
  <2>2. PICK m \in DOMAIN documents : At(added, a) = m /\ Tabbed(new)[a] = documents[m]
    BY <1>6
  <2>3. PICK n \in DOMAIN documents : At(added, b) = n /\ Tabbed(new)[b] = documents[n]
    BY <1>6
  <2>4. m = n
    BY <2>1, <2>2, <2>3
  <2>5. added.tabs[At(added, a)].id = a /\ added.tabs[At(added, b)].id = b
    BY <1>3, <1>5, Places
  <2> QED
    BY <2>2, <2>3, <2>4, <2>5
<1> QED
  BY <1>7, <1>8

\* So are those openProjectScenes finds.
LEMMA OpensScenes ==
  ASSUME Filed, openScenes
  PROVE  Follows(desk', Closed, OpenedAs) /\ PathsApart(desk')
<1> DEFINE Left == {p \in Paths : files[p] # NoFile}
<1>0. PICK left \in SUBSET Left : \E order \in SetToSeqs(left) :
        LET documents == IF left = {} THEN <<Blank>>
                         ELSE [n \in DOMAIN order |-> document(order[n], files[order[n]])]
        IN  \E i \in DOMAIN documents : desk' = activate(AddAll(clearTabs(Closed), documents), i)
  BY DEF openScenes
<1>1. PICK order \in SetToSeqs(left) :
        LET documents == IF left = {} THEN <<Blank>>
                         ELSE [n \in DOMAIN order |-> document(order[n], files[order[n]])]
        IN  \E i \in DOMAIN documents : desk' = activate(AddAll(clearTabs(Closed), documents), i)
  BY <1>0
<1>2. PICK documents : documents = IF left = {} THEN <<Blank>>
                                   ELSE [n \in DOMAIN order |-> document(order[n], files[order[n]])]
  OBVIOUS
<1>3. PICK i \in DOMAIN documents : desk' = activate(AddAll(clearTabs(Closed), documents), i)
  BY <1>1, <1>2
<1>4. /\ documents \in Seq(Document)
      /\ \A n \in DOMAIN documents : documents[n] \in OpenedAs
      /\ \A m, n \in DOMAIN documents :
           documents[m].path = documents[n].path /\ documents[m].path # NoPath => m = n
  <2>1. CASE left = {}
    <3>1. documents = <<Blank>> /\ Blank \in Document /\ Blank \in OpenedAs
      BY <1>2, <2>1, BlankTypes, OpenedTypes
    <3>2. DOMAIN documents = {1} /\ documents[1] = Blank /\ documents \in Seq(Document)
      BY <3>1
    <3> QED
      BY <3>1, <3>2
  <2>2. CASE left # {}
    <3> DEFINE N == Cardinality(left)
    <3>1. N \in Nat
      BY FS_Subset, FS_CardinalityType, DocumentsAssumption
    <3>2. order \in [1 .. N -> left] /\ \A m, n \in 1 .. N : m # n => order[m] # order[n]
      BY DEF SetToSeqs
    <3> HIDE DEF N
    <3>3. DOMAIN documents = 1 .. N /\ \A n \in 1 .. N : documents[n] = document(order[n], files[order[n]])
      BY <1>2, <2>2, <3>2
    <3>4. ASSUME NEW n \in 1 .. N PROVE documents[n] \in OpenedAs /\ documents[n].path = order[n]
      <4>1. order[n] \in Paths /\ files[order[n]] # NoFile
        BY <3>2
      <4> QED
        BY <3>3, <4>1, OpenedTypes DEF document
    <3>5. documents = [n \in 1 .. N |-> documents[n]]
      BY <1>2, <2>2, <3>2
    <3>6. documents \in [1 .. N -> Document]
      BY <3>4, <3>5 DEF OpenedAs
    <3>7. documents \in Seq(Document)
      BY <3>1, <3>6, FunctionIsSeq
    <3> QED
      BY <3>2, <3>3, <3>4, <3>7
  <2> QED
    BY <2>1, <2>2
<1>5. PICK new : new = activate(AddAll(clearTabs(Closed), documents), i)
  OBVIOUS
<1>6. Follows(new, Closed, OpenedAs) /\ PathsApart(new)
  BY <1>4, <1>5, LaysOut
<1> QED
  BY <1>3, <1>5, <1>6

-----------------------------------------------------------------------------
(* The copies a session keeps, and what it writes *)

Copies == [tab : Nat, file : Nat, original : Paths \cup {NoPath}, stamp : Nat]

Writes ==
  [op : {"copy"}, file : Nat, scene : Nat] \cup [op : {"remove"}, file : Nat]
    \cup [op : {"truncate", "removeAll", "setAside"}]
    \cup [op : {"index"}, names : {ns \in SUBSET Names : IsFiniteSet(ns)}]

KnownCopies == entries \subseteq Copies /\ IsFiniteSet(entries)

FolderFinite == FolderOk(folder) /\ IsFiniteSet(DOMAIN folder.copies) /\ IsFiniteSet(folder.index)

\* What the autosave keeps, and what the index names, is finite.
LEMMA FiniteNames ==
  ASSUME NEW es, es \subseteq Copies \/ es \subseteq Names, IsFiniteSet(es)
  PROVE  /\ Named(es) \subseteq Names /\ IsFiniteSet(Named(es))
         /\ {e.file : e \in es} \subseteq Nat /\ IsFiniteSet({e.file : e \in es})
<1> DEFINE f == [e \in es |-> [file |-> e.file, original |-> e.original]]
           g == [e \in es |-> e.file]
<1>1. f \in Surjection(es, Named(es))
  BY DEF Surjection, Named
<1>2. g \in Surjection(es, {e.file : e \in es})
  BY DEF Surjection
<1>3. Named(es) \subseteq Names /\ {e.file : e \in es} \subseteq Nat
  BY DEF Named, Names, Copies
<1> QED
  BY <1>1, <1>2, <1>3, FS_Surjection

\* The writes of the index are writes.
LEMMA IndexWritesTypes ==
  ASSUME NEW es, es \subseteq Copies, IsFiniteSet(es)
  PROVE  IndexWrites(es) \in Seq(Writes)
<1>1. CASE es = {}
  <2>1. [op |-> "removeAll"] \in Writes
    BY DEF Writes
  <2>2. IndexWrites(es) = <<[op |-> "removeAll"]>>
    BY <1>1 DEF IndexWrites
  <2> QED
    BY <2>1, <2>2
<1>2. CASE es # {}
  <2> DEFINE a == [op |-> "truncate"]
             b == [op |-> "index", names |-> Named(es)]
  <2>1. a \in Writes /\ b \in Writes
    BY FiniteNames DEF Writes
  <2>2. IndexWrites(es) = <<a, b>>
    BY <1>2 DEF IndexWrites
  <2> HIDE DEF a, b
  <2> QED
    BY <2>1, <2>2
<1> QED
  BY <1>1, <1>2

\* What syncCopies leaves to write, and keeps, has its type.
LEMMA SyncTypes ==
  ASSUME NEW k, Orderly(k), NEW known, known \subseteq Copies, IsFiniteSet(known),
         FolderFinite, NEW copy \in BOOLEAN, NEW before \in Seq(Writes),
         syncCopies(k, known, copy, before)
  PROVE  /\ entries' \subseteq Copies /\ IsFiniteSet(entries')
         /\ writes' \in Seq(Writes)
<1> DEFINE due == Due(k, known, copy)
           old(i) == {e \in known : e.tab = k.tabs[i].id}
           staying == {i \in DOMAIN k.tabs : isModified(k, i)} \ due
           used == {e.file : e \in known \cup folder.index} \cup DOMAIN folder.copies
           unnamed(i) == {j \in due : j <= i /\ old(j) = {}}
           name(i) == IF old(i) # {} THEN (CHOOSE e \in old(i) : TRUE).file
                      ELSE Fresh(used, Cardinality(unnamed(i)))
           entry(i) == [tab |-> k.tabs[i].id, file |-> name(i), original |-> Held(k, i).path,
                        stamp |-> stateId(Held(k, i).history)]
           stay(i) == {[e EXCEPT !.original = Held(k, i).path] : e \in old(i)}
           copied(failed) == due \ failed
           kept(failed) == {entry(i) : i \in copied(failed)} \cup (UNION {stay(i) : i \in staying})
                             \cup (UNION {old(i) : i \in failed})
           dropped(failed) == {e.file : e \in known} \ {e.file : e \in kept(failed)}
           copies(failed) == [n \in 1 .. Cardinality(copied(failed)) |->
                                LET i == Nth(copied(failed), n)
                                IN  [op |-> "copy", file |-> name(i), scene |-> Held(k, i).scene]]
           removals(failed) == [n \in 1 .. Cardinality(dropped(failed)) |->
                                  [op |-> "remove", file |-> Nth(dropped(failed), n)]]
           changed(failed) == \/ copied(failed) # {} \/ dropped(failed) # {}
                              \/ \E i \in staying : stay(i) # old(i)
<1>1. PICK failed \in SUBSET due :
        /\ entries' = kept(failed)
        /\ writes' = before \o copies(failed) \o removals(failed)
                       \o (IF changed(failed) THEN IndexWrites(kept(failed)) ELSE <<>>)
  BY DEF syncCopies
<1>2. /\ Len(k.tabs) \in Nat /\ DOMAIN k.tabs = 1 .. Len(k.tabs)
      /\ \A i \in DOMAIN k.tabs : k.tabs[i].id \in Nat /\ Held(k, i) \in Document
  BY Places DEF Tab
<1>3. IsFiniteSet(DOMAIN k.tabs)
  <2>1. \A n \in Nat : IsFiniteSet(1 .. n)
    BY FS_Interval
  <2>2. Len(k.tabs) \in Nat /\ DOMAIN k.tabs = 1 .. Len(k.tabs)
    BY <1>2
  <2> QED
    BY <2>1, <2>2
<1>4. due \subseteq DOMAIN k.tabs /\ staying \subseteq DOMAIN k.tabs
  BY DEF Due
<1>5. IsFiniteSet(due) /\ IsFiniteSet(staying) /\ IsFiniteSet(failed) /\ IsFiniteSet(copied(failed))
  BY <1>3, <1>4, FS_Subset
<1>6. due \subseteq Nat /\ copied(failed) \subseteq Nat
  BY <1>2, <1>4
<1>7. IsFiniteSet(used)
  <2>1. /\ IsFiniteSet({e.file : e \in known}) /\ IsFiniteSet({e.file : e \in folder.index})
        /\ IsFiniteSet(DOMAIN folder.copies)
    BY FiniteNames DEF FolderFinite, FolderOk
  <2>2. used = ({e.file : e \in known} \cup {e.file : e \in folder.index}) \cup DOMAIN folder.copies
    OBVIOUS
  <2> HIDE DEF used
  <2> QED
    BY <2>1, <2>2, FS_Union
<1> HIDE DEF due, used
<1>8. \A i \in due : name(i) \in Nat
  <2>1. TAKE i \in due
  <2>2. CASE old(i) # {}
    <3>1. (CHOOSE e \in old(i) : TRUE) \in known
      BY <2>2
    <3> QED
      BY <2>2, <3>1 DEF Copies
  <2>3. CASE old(i) = {}
    <3> DEFINE u == unnamed(i)
    <3>1. i \in u
      BY <1>6, <2>3
    <3>2. u \subseteq due
      OBVIOUS
    <3> HIDE DEF u
    <3>3. IsFiniteSet(u) /\ u # {}
      BY <1>5, <3>1, <3>2, FS_Subset
    <3>4. Cardinality(u) \in Nat \ {0}
      BY <3>3, FS_CardinalityType, FS_EmptySet
    <3>5. Fresh(used, Cardinality(u)) \in Nat
      BY <1>7, <3>4, FreshIs
    <3> QED
      BY <2>3, <3>5 DEF u
  <2> QED
    BY <2>2, <2>3
<1> HIDE DEF name
<1>9. \A i \in due : entry(i) \in Copies
  <2>1. TAKE i \in due
  <2>2. /\ k.tabs[i].id \in Nat /\ Held(k, i).path \in Paths \cup {NoPath}
        /\ stateId(Held(k, i).history) \in Nat
    BY <1>2, <1>4, BlankTypes DEF Document
  <2> QED
    BY <1>8, <2>2 DEF Copies
<1>10. \A i \in staying : stay(i) \subseteq Copies /\ IsFiniteSet(stay(i))
  <2>1. TAKE i \in staying
  <2>2. Held(k, i).path \in Paths \cup {NoPath}
    BY <1>2, <1>4 DEF Document
  <2>3. stay(i) \subseteq Copies
    BY <2>2 DEF Copies
  <2>4. IsFiniteSet(old(i))
    BY FS_Subset
  <2> DEFINE f == [e \in old(i) |-> [e EXCEPT !.original = Held(k, i).path]]
  <2>5. f \in Surjection(old(i), stay(i))
    BY DEF Surjection
  <2> QED
    BY <2>3, <2>4, <2>5, FS_Surjection
<1>11. \A i : old(i) \subseteq Copies /\ IsFiniteSet(old(i))
  BY FS_Subset
<1>12. kept(failed) \subseteq Copies
  <2> HIDE DEF entry, stay, old, staying
  <2> QED
    BY <1>9, <1>10, <1>11
<1>13. IsFiniteSet(kept(failed))
  <2> HIDE DEF entry, stay, old, staying
  <2>1. IsFiniteSet({entry(i) : i \in copied(failed)})
    <3> DEFINE f == [i \in copied(failed) |-> entry(i)]
    <3>1. f \in Surjection(copied(failed), {entry(i) : i \in copied(failed)})
      BY DEF Surjection
    <3> QED
      BY <1>5, <3>1, FS_Surjection
  <2>2. IsFiniteSet(UNION {stay(i) : i \in staying})
    <3> DEFINE f == [i \in staying |-> stay(i)]
    <3>1. f \in Surjection(staying, {stay(i) : i \in staying})
      BY DEF Surjection
    <3>2. IsFiniteSet({stay(i) : i \in staying})
      BY <1>5, <3>1, FS_Surjection
    <3> QED
      BY <1>10, <3>2, FS_UNION
  <2>3. IsFiniteSet(UNION {old(i) : i \in failed})
    <3> DEFINE f == [i \in failed |-> old(i)]
    <3>1. f \in Surjection(failed, {old(i) : i \in failed})
      BY DEF Surjection
    <3>2. IsFiniteSet({old(i) : i \in failed})
      BY <1>5, <3>1, FS_Surjection
    <3> QED
      BY <1>11, <3>2, FS_UNION
  <2> QED
    BY <2>1, <2>2, <2>3, FS_Union
<1> HIDE DEF kept
<1>14. copies(failed) \in Seq(Writes)
  <2> DEFINE c == Cardinality(copied(failed))
             s == copied(failed)
  <2>1. c \in Nat /\ s \in SUBSET Nat /\ IsFiniteSet(s) /\ s \subseteq due
    BY <1>5, <1>6, FS_CardinalityType
  <2>2. \A n \in 1 .. c : Nth(s, n) \in due
    <3> HIDE DEF s
    <3> QED
      BY <2>1, NthIs DEF s
  <2>3. \A n \in 1 .. c : copies(failed)[n] \in Writes
    <3>1. TAKE n \in 1 .. c
    <3> DEFINE i == Nth(s, n)
    <3>2. i \in due
      BY <2>2
    <3>3. copies(failed)[n] = [op |-> "copy", file |-> name(i), scene |-> Held(k, i).scene]
      OBVIOUS
    <3> HIDE DEF i
    <3>4. name(i) \in Nat /\ Held(k, i).scene \in Nat
      BY <1>2, <1>4, <1>8, <3>2 DEF Document
    <3> QED
      BY <3>3, <3>4 DEF Writes
  <2>4. copies(failed) \in [1 .. c -> Writes]
    BY <2>3
  <2> HIDE DEF c, copies
  <2> QED
    BY <2>1, <2>4, FunctionIsSeq
<1>15. removals(failed) \in Seq(Writes)
  <2> DEFINE s == dropped(failed)
             c == Cardinality(s)
  <2>1. IsFiniteSet(s) /\ s \in SUBSET Nat
    BY FiniteNames, FS_Subset
  <2> HIDE DEF s
  <2>2. c \in Nat
    BY <2>1, FS_CardinalityType
  <2>3. \A n \in 1 .. c : Nth(s, n) \in Nat
    BY <2>1, NthIs
  <2>4. removals(failed) = [n \in 1 .. c |-> [op |-> "remove", file |-> Nth(s, n)]]
    BY DEF s
  <2>5. \A n \in 1 .. c : [op |-> "remove", file |-> Nth(s, n)] \in Writes
    BY <2>3 DEF Writes
  <2>6. removals(failed) \in [1 .. c -> Writes]
    BY <2>4, <2>5
  <2> HIDE DEF c, removals
  <2> QED
    BY <2>2, <2>6, FunctionIsSeq
<1> HIDE DEF copies, removals, changed
<1>16. (IF changed(failed) THEN IndexWrites(kept(failed)) ELSE <<>>) \in Seq(Writes)
  <2>1. IndexWrites(kept(failed)) \in Seq(Writes)
    BY <1>12, <1>13, IndexWritesTypes
  <2>2. <<>> \in Seq(Writes)
    OBVIOUS
  <2> QED
    BY <2>1, <2>2
<1>17. writes' \in Seq(Writes)
  <2> DEFINE last == IF changed(failed) THEN IndexWrites(kept(failed)) ELSE <<>>
  <2>1. last \in Seq(Writes)
    BY <1>16
  <2>2. writes' = before \o copies(failed) \o removals(failed) \o last
    BY <1>1
  <2> HIDE DEF last
  <2> QED
    BY <1>14, <1>15, <2>1, <2>2, ConcatProperties
<1> QED
  BY <1>1, <1>12, <1>13, <1>17

-----------------------------------------------------------------------------
(* The invariant of the types *)

SessionTyped ==
  /\ phase \in {"closed", "waiting", "editing"}
  /\ pending.kind \in {"none", "close", "leave"} /\ asking \in BOOLEAN /\ naming \in BOOLEAN
  /\ lastScene \in Nat /\ unindexed \in BOOLEAN

DeskKept == IF phase = "editing" THEN Laid(desk) ELSE desk = Closed

FolderShaped == folder = [copies |-> folder.copies, index |-> folder.index]

CopiesTyped ==
  /\ KnownCopies /\ FolderFinite /\ FolderShaped /\ writes \in Seq(Writes)
  /\ recoverable \subseteq Names /\ IsFiniteSet(recoverable)

\* The copies of a crash are there as long as they wait for an answer, and nothing is written meanwhile.
CopiesWait ==
  /\ writes # <<>> => phase = "editing" /\ recoverable = {}
  /\ recoverable # {} => phase = "editing"
  /\ \A e \in recoverable : e \in folder.index /\ e.file \in DOMAIN folder.copies

TypeInvariant == SessionTyped /\ DeskKept /\ Filed /\ CopiesTyped /\ CopiesWait

-----------------------------------------------------------------------------
(* What the actions do to the desk *)

\* The document on screen is edited, and nothing else.
Edited(new, k) ==
  /\ Laid(k) /\ Laid(new) /\ Ids(new) = Ids(k) /\ Shown(new) = Shown(k) /\ new.nextId = k.nextId
  /\ \A id \in Ids(k) \ {Shown(k)} : Tabbed(new)[id] = Tabbed(k)[id]

\* Tabs open, close, are saved and come to the screen.
Turned(new, k) ==
  /\ Orderly(k) /\ Laid(new) /\ new.nextId >= k.nextId
  /\ \A id \in Ids(new) : \/ id \in Ids(k) /\ (Tabbed(new)[id] = Tabbed(k)[id] \/ SavedAs(Tabbed(new)[id], Tabbed(k)[id]))
                          \/ id \notin Ids(k) /\ id >= k.nextId /\ Tabbed(new)[id].history = NewHistory

\* What opens has a history of its own.
OpenNew(S) == \A d \in S : d.history = NewHistory

\* Documents that are opened, recovered or new begin with an empty history.
LEMMA SomeOpenNew == OpenNew(OpenedAs) /\ OpenNew(RecoveredAs) /\ OpenNew({Blank}) /\ OpenNew({})
BY DEF OpenNew, OpenedAs, RecoveredAs, Blank, document

\* A desk that follows another, with documents that begin, turns it.
LEMMA FollowingTurns ==
  ASSUME NEW k, Orderly(k), NEW S, OpenNew(S), NEW new, Follows(new, k, S)
  PROVE  Turned(new, k)
BY DEF Follows, Turned, OpenNew

\* A desk follows itself.
LEMMA FollowsItself ==
  ASSUME NEW k, Laid(k), NEW S
  PROVE  Follows(k, k, S)
BY LaidFacts DEF Follows

\* A change of the document on screen is of no other tab.
LEMMA LiveEdits ==
  ASSUME NEW k, Laid(k), NEW d \in Document, NEW new, new = [k EXCEPT !.live = d]
  PROVE  /\ Edited(new, k) /\ new.live = d /\ new.nextId = k.nextId /\ new.active = k.active
         /\ \A id \in Ids(k) : Tabbed(new)[id] = IF id = Shown(k) THEN d ELSE Tabbed(k)[id]
<1>1. Orderly(k) /\ k.active \in DOMAIN k.tabs
  BY LaidFacts
<1>2. /\ Orderly(new) /\ Ids(new) = Ids(k) /\ new.active = k.active /\ new.nextId = k.nextId
      /\ new.tabs = k.tabs /\ new.live = d
      /\ \A id \in Ids(k) : Tabbed(new)[id] = IF At(k, id) = k.active THEN d ELSE Tabbed(k)[id]
  BY <1>1, LiveChanges
<1>3. Laid(new) /\ Shown(new) = Shown(k)
  BY <1>1, <1>2 DEF Laid, Shown
<1>4. \A id \in Ids(k) : At(k, id) = k.active <=> id = Shown(k)
  BY LaidFacts
<1> QED
  BY <1>2, <1>3, <1>4 DEF Edited

\* Tabs are saved, each as the document it held.
LEMMA SavingTurns ==
  ASSUME NEW k, Laid(k), NEW is, NEW new, new = SaveTabs(k, is)
  PROVE  /\ Laid(new) /\ new.nextId = k.nextId /\ Ids(new) = Ids(k) /\ Shown(new) = Shown(k)
         /\ DOMAIN new.tabs = DOMAIN k.tabs /\ new.active = k.active
         /\ \A id \in Ids(k) :
              Tabbed(new)[id] = IF At(k, id) \in is THEN SaveTab(Tabbed(k)[id]) ELSE Tabbed(k)[id]
         /\ Turned(new, k)
<1>1. Orderly(k) /\ k.active \in DOMAIN k.tabs
  BY LaidFacts
<1>2. /\ Orderly(new) /\ new.active = k.active /\ new.nextId = k.nextId
      /\ DOMAIN new.tabs = DOMAIN k.tabs /\ Ids(new) = Ids(k)
      /\ \A i \in DOMAIN k.tabs : /\ new.tabs[i].id = k.tabs[i].id
                                  /\ Held(new, i) = IF i \in is THEN SaveTab(Held(k, i)) ELSE Held(k, i)
  BY <1>1, SavesTabs
<1>3. Laid(new) /\ Shown(new) = Shown(k)
  BY <1>1, <1>2 DEF Laid, Shown
<1>4. ASSUME NEW id \in Ids(k)
      PROVE  Tabbed(new)[id] = IF At(k, id) \in is THEN SaveTab(Tabbed(k)[id]) ELSE Tabbed(k)[id]
  <2> DEFINE i == At(k, id)
  <2>1. i \in DOMAIN k.tabs /\ k.tabs[i].id = id /\ Tabbed(k)[id] = Held(k, i)
    BY <1>1, Places
  <2>2. new.tabs[i].id = id /\ i \in DOMAIN new.tabs
    BY <1>2, <2>1
  <2>3. Tabbed(new)[id] = Held(new, i)
    BY <1>2, <2>2, Places
  <2> QED
    BY <1>2, <2>1, <2>3
<1>5. \A id \in Ids(k) : SavedAs(SaveTab(Tabbed(k)[id]), Tabbed(k)[id])
  <2>1. TAKE id \in Ids(k)
  <2>2. Tabbed(k)[id] \in Document
    BY <1>1, Places
  <2> QED
    BY <2>2 DEF SavedAs, SaveTab, Document
<1>6. Turned(new, k)
  <2>1. new.nextId >= k.nextId
    BY <1>2, LaidFacts
  <2> QED
    BY <1>1, <1>2, <1>3, <1>4, <1>5, <2>1 DEF Turned
<1> QED
  BY <1>2, <1>3, <1>4, <1>6

\* What follows a desk that was saved is a turn of it.
LEMMA TurnsTwice ==
  ASSUME NEW k, NEW saved, NEW new, NEW S, OpenNew(S), Laid(k), Turned(saved, k), Ids(saved) = Ids(k),
         saved.nextId = k.nextId, Follows(new, saved, S)
  PROVE  Turned(new, k)
<1>1. Orderly(k) /\ Laid(new) /\ new.nextId >= k.nextId
  BY LaidFacts DEF Follows
<1>2. ASSUME NEW id \in Ids(new)
      PROVE  \/ id \in Ids(k) /\ (Tabbed(new)[id] = Tabbed(k)[id] \/ SavedAs(Tabbed(new)[id], Tabbed(k)[id]))
             \/ id \notin Ids(k) /\ id >= k.nextId /\ Tabbed(new)[id].history = NewHistory
  <2>1. CASE id \in Ids(saved) /\ Tabbed(new)[id] = Tabbed(saved)[id]
    BY <2>1 DEF Turned
  <2>2. CASE id \notin Ids(saved) /\ id >= saved.nextId /\ Tabbed(new)[id].history = NewHistory
    BY <2>2
  <2> QED
    BY <2>1, <2>2 DEF Follows, OpenNew
<1> QED
  BY <1>1, <1>2 DEF Turned

\* An action that is asked for shows its question, or is carried out.
LEMMA RequestDoes ==
  ASSUME NEW k, Laid(k), NEW action, NEW open, requestAction(k, action, open)
  PROVE  \/ /\ UNCHANGED <<phase, entries, recoverable, folder>>
            /\ Follows(desk', k, {Blank}) /\ pending' \in {action, NoAction} /\ asking' \in {TRUE, open}
            /\ \/ desk' = k
               \/ action.kind # "leave" /\ affectedTabs(k, action) = {} /\ desk' = CloseTabs(k, action.tabs)
         \/ Leaves /\ action.kind = "leave" /\ affectedTabs(k, action) = {}
<1>1. Follows(k, k, {Blank})
  BY FollowsItself
<1>2. \A ids : Follows(CloseTabs(k, ids), k, {Blank})
  BY ClosingFollows
<1>3. CASE affectedTabs(k, action) # {}
  BY <1>1, <1>3 DEF requestAction
<1>4. CASE affectedTabs(k, action) = {} /\ action.kind = "leave"
  BY <1>4 DEF requestAction
<1>5. CASE affectedTabs(k, action) = {} /\ action.kind # "leave"
  BY <1>2, <1>5 DEF requestAction
<1> QED
  BY <1>3, <1>4, <1>5

\* What is named is the scene on screen, with another path.
NamedAs(k, p) == [k EXCEPT !.live.path = p]

\* What a step does to the desk.
DeskMoves ==
  \/ desk' = desk /\ phase' = phase
  \/ /\ Edited(desk', desk) /\ phase = "editing" /\ phase' = "editing"
     /\ Edit \/ Undo \/ Redo \/ \E p \in Paths : desk' = NamedAs(desk, p)
  \/ Turned(desk', desk) /\ phase' = "editing"
  \/ desk' = Closed /\ phase' \in {"closed", "waiting"}

\* A project that opens lays its tabs out anew.
LEMMA OpeningMoves ==
  ASSUME TypeInvariant, OpenProject \/ CodeReady
  PROVE  DeskMoves
<1>1. desk = Closed /\ Filed
  BY DEF TypeInvariant, DeskKept, OpenProject, CodeReady
<1>2. CASE openScenes
  <2>1. Follows(desk', Closed, OpenedAs) /\ Orderly(Closed)
    BY <1>1, <1>2, OpensScenes, ClosedIsOrderly
  <2>2. PICK new : new = desk'
    OBVIOUS
  <2>3. Turned(new, Closed)
    BY <2>1, <2>2, FollowingTurns, SomeOpenNew
  <2>4. phase' = "editing"
    BY <1>2 DEF openScenes
  <2> QED
    BY <1>1, <2>2, <2>3, <2>4 DEF DeskMoves
<1>3. CASE phase' = "waiting" /\ UNCHANGED desk
  BY <1>1, <1>3 DEF DeskMoves
<1> QED
  BY <1>2, <1>3 DEF OpenProject, CodeReady

\* The document an edit, an undo or a redo leaves on screen.
LEMMA EditingMoves ==
  ASSUME TypeInvariant, Edit \/ Undo \/ Redo
  PROVE  /\ DeskMoves /\ phase = "editing"
         /\ \E d \in Document :
              /\ desk' = [desk EXCEPT !.live = d]
              /\ d.path = desk.live.path /\ d.savedState = desk.live.savedState
              /\ \/ /\ Edit /\ d.scene = lastScene + 1
                    /\ d.history = recordApplied(desk.live.history, desk.live.scene, lastScene + 1)
                 \/ /\ Undo /\ canUndo(desk.live.history) /\ d.scene = Last(desk.live.history.done).from
                    /\ d.history = undo(desk.live.history)
                 \/ /\ Redo /\ canRedo(desk.live.history) /\ d.scene = Last(desk.live.history.undone).to
                    /\ d.history = redo(desk.live.history)
<1>1. phase = "editing" /\ phase' = "editing" /\ Laid(desk) /\ lastScene \in Nat
  BY DEF TypeInvariant, SessionTyped, DeskKept, Edit, Undo, Redo, AtWork, Idle, OnDesk
<1>2. desk \in Desks /\ desk.live \in Document
  BY <1>1 DEF Laid, Orderly, Desks
<1>3. desk.live.history \in Histories /\ desk.live.scene \in Nat
  BY <1>2 DEF Document
<1>4. ASSUME NEW d \in Document, desk' = [desk EXCEPT !.live = d] PROVE DeskMoves
  <2>1. PICK new : new = [desk EXCEPT !.live = d]
    OBVIOUS
  <2>2. Edited(new, desk)
    BY <1>1, <2>1, LiveEdits
  <2> QED
    BY <1>1, <1>4, <2>1, <2>2 DEF DeskMoves
<1>5. ASSUME NEW scene \in Nat, NEW history \in Histories
      PROVE  /\ [desk.live EXCEPT !.scene = scene, !.history = history] \in Document
             /\ [desk EXCEPT !.live.scene = scene, !.live.history = history]
                  = [desk EXCEPT !.live = [desk.live EXCEPT !.scene = scene, !.history = history]]
  BY <1>2 DEF Desks, Document
<1>6. ASSUME Edit
      PROVE  \E d \in Document :
               /\ desk' = [desk EXCEPT !.live = d]
               /\ d.path = desk.live.path /\ d.savedState = desk.live.savedState
               /\ d.scene = lastScene + 1
               /\ d.history = recordApplied(desk.live.history, desk.live.scene, lastScene + 1)
  <2> DEFINE history == recordApplied(desk.live.history, desk.live.scene, lastScene + 1)
             d == [desk.live EXCEPT !.scene = lastScene + 1, !.history = history]
  <2>1. history \in Histories /\ lastScene + 1 \in Nat
    <3>1. \A from, to \in Nat : recordApplied(desk.live.history, from, to) \in Histories
      BY <1>3, HistoryTypes
    <3>2. lastScene + 1 \in Nat
      BY <1>1
    <3> QED
      BY <1>3, <3>1, <3>2
  <2>2. desk' = [desk EXCEPT !.live.scene = lastScene + 1, !.live.history = history]
    BY <1>2, <1>6 DEF Edit, Desks, Document
  <2> HIDE DEF history
  <2>3. d \in Document /\ desk' = [desk EXCEPT !.live = d]
    BY <1>5, <2>1, <2>2
  <2>4. /\ d.path = desk.live.path /\ d.savedState = desk.live.savedState
        /\ d.scene = lastScene + 1 /\ d.history = history
    BY <1>2 DEF Document
  <2> HIDE DEF d
  <2> QED
    BY <2>3, <2>4 DEF history
<1>7. ASSUME Undo
      PROVE  \E d \in Document :
               /\ desk' = [desk EXCEPT !.live = d]
               /\ d.path = desk.live.path /\ d.savedState = desk.live.savedState
               /\ canUndo(desk.live.history) /\ d.scene = Last(desk.live.history.done).from
               /\ d.history = undo(desk.live.history)
  <2> DEFINE history == undo(desk.live.history)
             scene == Last(desk.live.history.done).from
             d == [desk.live EXCEPT !.scene = scene, !.history = history]
  <2>1. canUndo(desk.live.history)
    BY <1>7 DEF Undo
  <2>2. history \in Histories /\ scene \in Nat
    BY <1>3, <2>1, HistoryTypes DEF Entries
  <2>3. desk' = [desk EXCEPT !.live.scene = scene, !.live.history = history]
    BY <1>2, <1>7 DEF Undo, OnDesk, Desks, Document
  <2> HIDE DEF history, scene
  <2>4. d \in Document /\ desk' = [desk EXCEPT !.live = d]
    BY <1>5, <2>2, <2>3
  <2>5. /\ d.path = desk.live.path /\ d.savedState = desk.live.savedState
        /\ d.scene = scene /\ d.history = history
    BY <1>2 DEF Document
  <2> HIDE DEF d
  <2> QED
    BY <2>1, <2>4, <2>5 DEF history, scene
<1>8. ASSUME Redo
      PROVE  \E d \in Document :
               /\ desk' = [desk EXCEPT !.live = d]
               /\ d.path = desk.live.path /\ d.savedState = desk.live.savedState
               /\ canRedo(desk.live.history) /\ d.scene = Last(desk.live.history.undone).to
               /\ d.history = redo(desk.live.history)
  <2> DEFINE history == redo(desk.live.history)
             scene == Last(desk.live.history.undone).to
             d == [desk.live EXCEPT !.scene = scene, !.history = history]
  <2>1. canRedo(desk.live.history)
    BY <1>8 DEF Redo
  <2>2. history \in Histories /\ scene \in Nat
    BY <1>3, <2>1, HistoryTypes DEF Entries
  <2>3. desk' = [desk EXCEPT !.live.scene = scene, !.live.history = history]
    BY <1>2, <1>8 DEF Redo, OnDesk, Desks, Document
  <2> HIDE DEF history, scene
  <2>4. d \in Document /\ desk' = [desk EXCEPT !.live = d]
    BY <1>5, <2>2, <2>3
  <2>5. /\ d.path = desk.live.path /\ d.savedState = desk.live.savedState
        /\ d.scene = scene /\ d.history = history
    BY <1>2 DEF Document
  <2> HIDE DEF d
  <2> QED
    BY <2>1, <2>4, <2>5 DEF history, scene
<1>9. CASE Edit
  <2>1. PICK d \in Document :
               /\ desk' = [desk EXCEPT !.live = d]
               /\ d.path = desk.live.path /\ d.savedState = desk.live.savedState
               /\ d.scene = lastScene + 1
               /\ d.history = recordApplied(desk.live.history, desk.live.scene, lastScene + 1)
    BY <1>6, <1>9
  <2> QED
    BY <1>1, <1>4, <1>9, <2>1
<1>10. CASE Undo
  <2>1. PICK d \in Document :
               /\ desk' = [desk EXCEPT !.live = d]
               /\ d.path = desk.live.path /\ d.savedState = desk.live.savedState
               /\ canUndo(desk.live.history) /\ d.scene = Last(desk.live.history.done).from
               /\ d.history = undo(desk.live.history)
    BY <1>7, <1>10
  <2> QED
    BY <1>1, <1>4, <1>10, <2>1
<1>11. CASE Redo
  <2>1. PICK d \in Document :
               /\ desk' = [desk EXCEPT !.live = d]
               /\ d.path = desk.live.path /\ d.savedState = desk.live.savedState
               /\ canRedo(desk.live.history) /\ d.scene = Last(desk.live.history.undone).to
               /\ d.history = redo(desk.live.history)
    BY <1>8, <1>11
  <2> QED
    BY <1>1, <1>4, <1>11, <2>1
<1> QED
  BY <1>9, <1>10, <1>11

\* A tab comes to the screen, is moved or is opened.
LEMMA TabMoves ==
  ASSUME TypeInvariant, activateSceneTab \/ moveTab \/ newSceneTab \/ openSceneTab
  PROVE  /\ phase = "editing" /\ DeskMoves /\ Follows(desk', desk, OpenedAs)
         /\ PathsApart(desk) => PathsApart(desk')
<1>1. phase = "editing" /\ phase' = "editing" /\ Laid(desk) /\ Orderly(desk) /\ Filed
  BY LaidFacts DEF TypeInvariant, DeskKept, activateSceneTab, moveTab, newSceneTab, openSceneTab, AtWork, Idle, OnDesk
<1>2. PICK new : new = desk'
  OBVIOUS
<1>3. ASSUME \/ \E i \in DOMAIN desk.tabs : new = activate(desk, i)
             \/ \E from, to \in DOMAIN desk.tabs : new = move(desk, from, to)
      PROVE  Follows(new, desk, OpenedAs) /\ (PathsApart(desk) => PathsApart(new))
  BY <1>1, <1>3, TurningFollows DEF PathsApart
<1>4. ASSUME NEW d \in OpenedAs, NEW replaced \in SUBSET DOMAIN desk.tabs,
             \/ new = addAndActivate(desk, d) /\ replaced = {}
             \/ new = OpenInPlace(desk, d, replaced),
             findByPath(desk, d.path) = {}
      PROVE  Follows(new, desk, OpenedAs) /\ (PathsApart(desk) => PathsApart(new))
  <2>1. d \in Document
    BY DEF OpenedAs
  <2>2. Follows(new, desk, {d})
    BY <1>1, <1>4, <2>1, OpeningFollows
  <2>3. new = OpenInPlace(desk, d, replaced)
    BY <1>4 DEF OpenInPlace
  <2>4. PathsApart(desk) => PathsApart(new)
    BY <1>1, <1>4, <2>1, <2>3, OpeningStaysApart
  <2> QED
    BY <2>2, <2>4 DEF Follows
<1>5. Follows(new, desk, OpenedAs) /\ (PathsApart(desk) => PathsApart(new))
  <2>1. CASE activateSceneTab
    BY <1>2, <1>3, <2>1 DEF activateSceneTab, OnDesk
  <2>2. CASE moveTab
    BY <1>2, <1>3, <2>2 DEF moveTab, OnDesk
  <2>3. CASE newSceneTab
    <3>1. new = addAndActivate(desk, Blank) /\ Blank \in OpenedAs /\ findByPath(desk, Blank.path) = {}
      BY <1>1, <1>2, <2>3, OpenedTypes, BlankTypes DEF newSceneTab, OnDesk, findByPath
    <3> QED
      BY <1>4, <3>1
  <2>4. CASE openSceneTab
    <3>1. PICK p \in Paths :
            LET open == findByPath(desk, p)
            IN  \/ open # {} /\ OnDesk(activate(desk, Min(open)))
                \/ /\ open = {} /\ files[p] # NoFile /\ desk.nextId <= limits.tabs
                   /\ OnDesk(OpenInPlace(desk, document(p, files[p]), Untouched(desk)))
      BY <2>4 DEF openSceneTab
    <3>2. CASE findByPath(desk, p) # {} /\ OnDesk(activate(desk, Min(findByPath(desk, p))))
      <4>1. Min(findByPath(desk, p)) \in DOMAIN desk.tabs
        <5>1. findByPath(desk, p) \in SUBSET Nat
          BY <1>1, Places DEF findByPath
        <5>2. \E i \in findByPath(desk, p) : \A j \in findByPath(desk, p) : i <= j
          BY <3>2, <5>1, LeastNat
        <5>3. Min(findByPath(desk, p)) \in findByPath(desk, p)
          BY <5>2 DEF Min
        <5> QED
          BY <5>3 DEF findByPath
      <4> QED
        BY <1>2, <1>3, <3>2, <4>1 DEF OnDesk
    <3>3. CASE /\ findByPath(desk, p) = {} /\ files[p] # NoFile
               /\ OnDesk(OpenInPlace(desk, document(p, files[p]), Untouched(desk)))
      <4>1. document(p, files[p]) \in OpenedAs /\ document(p, files[p]).path = p
        BY <1>1, <3>3, OpenedTypes DEF document
      <4>2. Untouched(desk) \in SUBSET DOMAIN desk.tabs
        BY <1>1, FoundByPath
      <4> QED
        BY <1>2, <1>4, <3>3, <4>1, <4>2 DEF OnDesk
    <3> QED
      BY <3>1, <3>2, <3>3
  <2> QED
    BY <2>1, <2>2, <2>3, <2>4
<1>6. Turned(new, desk)
  BY <1>1, <1>5, FollowingTurns, SomeOpenNew
<1> QED
  BY <1>1, <1>2, <1>5, <1>6 DEF DeskMoves

\* An action asked for once the desk was saved.
LEMMA RequestMoves ==
  ASSUME TypeInvariant, phase = "editing", NEW saved, Turned(saved, desk), Ids(saved) = Ids(desk),
         saved.nextId = desk.nextId, NEW action, NEW open, requestAction(saved, action, open)
  PROVE  DeskMoves
<1>1. Laid(desk) /\ Laid(saved)
  BY DEF TypeInvariant, DeskKept, Turned
<1>2. CASE phase' = phase /\ Follows(desk', saved, {Blank})
  <2>1. PICK new : new = desk'
    OBVIOUS
  <2>2. Turned(new, desk)
    BY <1>1, <1>2, <2>1, TurnsTwice, SomeOpenNew
  <2> QED
    BY <1>2, <2>1, <2>2 DEF DeskMoves
<1>3. CASE Leaves
  BY <1>3 DEF Leaves, DeskMoves
<1> QED
  BY <1>1, <1>2, <1>3, RequestDoes

\* Of each tab its document, but the one on screen holds d.
Showing(new, k, d) ==
  \A id \in Ids(k) : Tabbed(new)[id] = IF id = Shown(k) THEN d ELSE Tabbed(k)[id]

\* The document on screen changes to d, which is then saved.
LEMMA SavesShown ==
  ASSUME NEW k, Laid(k), NEW d \in Document, SavedAs(SaveTab(d), k.live),
         NEW named, Edited(named, k), named.nextId = k.nextId, named.active = k.active, Showing(named, k, d),
         NEW is, is = {k.active}, NEW saved, saved = SaveTabs(named, is)
  PROVE  /\ Turned(saved, k) /\ Ids(saved) = Ids(k) /\ saved.nextId = k.nextId
         /\ Showing(saved, k, SaveTab(d))
<1>1. Laid(named) /\ Ids(named) = Ids(k) /\ Shown(named) = Shown(k)
  BY DEF Edited
<1>2. /\ Laid(saved) /\ saved.nextId = named.nextId /\ Ids(saved) = Ids(named)
      /\ \A id \in Ids(named) :
           Tabbed(saved)[id] = IF At(named, id) \in is THEN SaveTab(Tabbed(named)[id]) ELSE Tabbed(named)[id]
  BY <1>1, SavingTurns
<1>3. \A id \in Ids(named) : At(named, id) = named.active <=> id = Shown(named)
  BY <1>1, LaidFacts
<1>4. ASSUME NEW id \in Ids(k)
      PROVE  Tabbed(saved)[id] = IF id = Shown(k) THEN SaveTab(d) ELSE Tabbed(k)[id]
  <2>1. Tabbed(named)[id] = IF id = Shown(k) THEN d ELSE Tabbed(k)[id]
    BY DEF Showing
  <2>2. Tabbed(saved)[id] = IF At(named, id) \in is THEN SaveTab(Tabbed(named)[id]) ELSE Tabbed(named)[id]
    BY <1>1, <1>2
  <2>3. At(named, id) \in is <=> id = Shown(k)
    BY <1>1, <1>3
  <2> QED
    BY <2>1, <2>2, <2>3
<1>5. Tabbed(k)[Shown(k)] = k.live /\ Orderly(k)
  BY LaidFacts
<1>6. ASSUME NEW id \in Ids(k)
      PROVE  Tabbed(saved)[id] = Tabbed(k)[id] \/ SavedAs(Tabbed(saved)[id], Tabbed(k)[id])
  BY <1>4, <1>5
<1>7. Turned(saved, k)
  <2>1. saved.nextId >= k.nextId
    BY <1>2, LaidFacts
  <2> QED
    BY <1>1, <1>2, <1>5, <1>6, <2>1 DEF Turned
<1> QED
  BY <1>1, <1>2, <1>4, <1>7 DEF Showing

\* The scene on screen, with another path.
NamedScene(k, p) == [k.live EXCEPT !.path = p]

\* The scene on screen is given the path p, and saved there.
LEMMA NamesScene ==
  ASSUME NEW k, Laid(k), NEW p \in Paths, NEW is, is = {k.active}
  PROVE  /\ Edited(NamedAs(k, p), k) /\ NamedAs(k, p).nextId = k.nextId /\ NamedScene(k, p) \in Document
         /\ NamedAs(k, p).live = NamedScene(k, p)
         /\ Showing(NamedAs(k, p), k, NamedScene(k, p))
         /\ Turned(SaveTabs(NamedAs(k, p), is), k) /\ Ids(SaveTabs(NamedAs(k, p), is)) = Ids(k)
         /\ SaveTabs(NamedAs(k, p), is).nextId = k.nextId
         /\ Showing(SaveTabs(NamedAs(k, p), is), k, SaveTab(NamedScene(k, p)))
<1> DEFINE d == NamedScene(k, p)
           named == NamedAs(k, p)
<1>1. k \in Desks /\ k.live \in Document /\ Orderly(k)
  BY LaidFacts DEF Laid, Orderly, Desks
<1>2. d \in Document /\ named = [k EXCEPT !.live = d]
  BY <1>1 DEF Desks, Document, NamedScene, NamedAs
<1>3. SavedAs(SaveTab(d), k.live)
  BY <1>1 DEF SavedAs, SaveTab, Document, NamedScene
<1> HIDE DEF d, named
<1>4. /\ Edited(named, k) /\ named.live = d /\ named.nextId = k.nextId /\ named.active = k.active
      /\ \A id \in Ids(k) : Tabbed(named)[id] = IF id = Shown(k) THEN d ELSE Tabbed(k)[id]
  BY <1>2, LiveEdits
<1>5. Showing(named, k, d)
  BY <1>4 DEF Showing
<1> DEFINE saved == SaveTabs(named, is)
<1> HIDE DEF saved
<1>6. saved = SaveTabs(named, is)
  BY DEF saved
<1>7. /\ Turned(saved, k) /\ Ids(saved) = Ids(k) /\ saved.nextId = k.nextId
      /\ Showing(saved, k, SaveTab(d))
  <2>1. d \in Document
    BY <1>2
  <2>2. Edited(named, k) /\ named.nextId = k.nextId /\ named.active = k.active
    BY <1>4
  <2> QED
    BY <1>3, <1>5, <1>6, <2>1, <2>2, SavesShown
<1> QED
  BY <1>2, <1>4, <1>5, <1>7 DEF d, named, saved

\* Saving changes what tabs have saved, and what they are named.
LEMMA SavingMoves ==
  ASSUME TypeInvariant, saveScene \/ saveAllScenes \/ SaveAsAnswered
  PROVE  DeskMoves
<1>1. phase = "editing" /\ Laid(desk)
  BY DEF TypeInvariant, DeskKept, saveScene, saveAllScenes, SaveAsAnswered, AtWork, Idle
<1>2. ASSUME NEW is, desk' = SaveTabs(desk, is), phase' = phase PROVE DeskMoves
  <2>1. PICK new : new = SaveTabs(desk, is)
    OBVIOUS
  <2>2. Turned(new, desk)
    BY <1>1, <2>1, SavingTurns
  <2> QED
    BY <1>1, <1>2, <2>1, <2>2 DEF DeskMoves
<1>3. CASE saveScene
  <2>1. phase' = phase
    BY <1>3 DEF saveScene
  <2>2. CASE desk.live.path = NoPath
    BY <1>3, <2>1, <2>2 DEF saveScene, DeskMoves
  <2>3. CASE desk.live.path # NoPath
    BY <1>2, <1>3, <2>1, <2>3 DEF saveScene
  <2> QED
    BY <2>2, <2>3
<1>4. CASE saveAllScenes
  <2>1. phase' = phase
    BY <1>4 DEF saveAllScenes
  <2>2. \E is : desk' = SaveTabs(desk, is)
    BY <1>4 DEF saveAllScenes
  <2> QED
    BY <1>2, <2>1, <2>2
<1>5. CASE SaveAsAnswered
  <2>1. CASE UNCHANGED <<phase, desk>>
    BY <2>1 DEF DeskMoves
  <2>2. CASE ~UNCHANGED <<phase, desk>>
    <3>1. PICK p \in Paths, refused \in BOOLEAN :
            LET named == [desk EXCEPT !.live.path = p]
                saved == SaveTabs(named, {desk.active})
            IN  IF refused \/ pending = NoAction
                THEN /\ desk' = IF refused THEN named ELSE saved
                     /\ UNCHANGED <<phase, pending, asking, entries, recoverable, folder>>
                ELSE requestAction(saved, pending, asking)
      BY <1>5, <2>2 DEF SaveAsAnswered
    <3> DEFINE named == NamedAs(desk, p)
               saved == SaveTabs(named, {desk.active})
    <3>2. named = [desk EXCEPT !.live.path = p]
      BY DEF NamedAs
    <3>3. saved = SaveTabs([desk EXCEPT !.live.path = p], {desk.active})
      BY <3>2
    <3>4. /\ Edited(named, desk)
          /\ Turned(saved, desk) /\ Ids(saved) = Ids(desk) /\ saved.nextId = desk.nextId
      BY <1>1, NamesScene
    <3>5. named = NamedAs(desk, p)
      OBVIOUS
    <3> HIDE DEF named, saved
    <3>6. CASE refused \/ pending = NoAction
      <4>1. desk' = named \/ desk' = saved
        BY <3>1, <3>2, <3>3, <3>6
      <4>2. phase' = phase
        BY <3>1, <3>6
      <4> QED
        BY <1>1, <3>4, <3>5, <4>1, <4>2 DEF DeskMoves
    <3>7. CASE requestAction(saved, pending, asking)
      BY <1>1, <3>4, <3>7, RequestMoves
    <3> QED
      BY <3>1, <3>2, <3>3, <3>6, <3>7
  <2> QED
    BY <2>1, <2>2
<1> QED
  BY <1>3, <1>4, <1>5

\* Closing and leaving end tabs, after saving some or not.
LEMMA ClosingMoves ==
  ASSUME TypeInvariant, RequestClose \/ RequestLeave \/ AnswerSave \/ AnswerDiscard
  PROVE  DeskMoves
<1>1. ASSUME phase = "editing", NEW action, NEW open, requestAction(desk, action, open) PROVE DeskMoves
  <2>1. Laid(desk)
    BY <1>1 DEF TypeInvariant, DeskKept
  <2>2. Turned(desk, desk)
    BY <2>1, FollowsItself, FollowingTurns, SomeOpenNew, LaidFacts
  <2> QED
    BY <1>1, <2>2, RequestMoves
<1>2. CASE RequestClose
  <2>1. phase = "editing" /\ \E action, open : requestAction(desk, action, open)
    BY <1>2 DEF RequestClose, AtWork, Idle
  <2> QED
    BY <1>1, <2>1
<1>3. CASE RequestLeave
  <2>1. requestAction(desk, Leaving, asking) /\ (phase = "editing" \/ phase = "waiting")
    BY <1>3 DEF RequestLeave
  <2>2. CASE phase = "editing"
    BY <1>1, <2>1, <2>2
  <2>3. CASE phase = "waiting"
    <3>1. desk = Closed
      BY <2>3 DEF TypeInvariant, DeskKept
    <3>2. affectedTabs(desk, Leaving) = {}
      BY <3>1, ClosedIsOrderly DEF affectedTabs, Closed
    <3>3. Leaves
      BY <2>1, <3>2 DEF requestAction, Leaving
    <3> QED
      BY <3>3 DEF Leaves, DeskMoves
  <2> QED
    BY <2>1, <2>2, <2>3
<1>4. CASE AnswerDiscard
  <2>1. phase = "editing" /\ Laid(desk)
    BY <1>4 DEF AnswerDiscard, Idle, TypeInvariant, DeskKept
  <2>2. CASE Leaves
    BY <2>2 DEF Leaves, DeskMoves
  <2>3. CASE desk' = CloseTabs(desk, pending.tabs) /\ phase' = phase
    <3>1. PICK new : new = CloseTabs(desk, pending.tabs)
      OBVIOUS
    <3>2. Turned(new, desk)
      BY <2>1, <3>1, ClosingFollows, FollowingTurns, SomeOpenNew, LaidFacts
    <3> QED
      BY <2>1, <2>3, <3>1, <3>2 DEF DeskMoves
  <2> QED
    BY <1>4, <2>2, <2>3 DEF AnswerDiscard
<1>5. CASE AnswerSave
  <2> DEFINE affected == affectedTabs(desk, pending)
             unnamed == {i \in affected : Held(desk, i).path = NoPath}
  <2>1. phase = "editing" /\ Laid(desk)
    BY <1>5 DEF AnswerSave, Idle, TypeInvariant, DeskKept
  <2>2. PICK failed \in {{}} \cup {{i} : i \in affected \ unnamed} :
          LET stops == unnamed \cup failed
              saved == {i \in affected : \A stop \in stops : i < stop}
              k == SaveTabs(desk, saved)
          IN  IF stops = {}
              THEN requestAction(k, pending, FALSE) /\ naming' = (naming /\ phase' = "editing")
              ELSE /\ asking' = FALSE
                   /\ desk' = IF Min(stops) \in unnamed THEN activate(k, Min(stops)) ELSE k
                   /\ naming' = (naming \/ Min(stops) \in unnamed)
                   /\ pending' = IF Min(stops) \in unnamed \cup {desk.active} THEN pending ELSE NoAction
                   /\ UNCHANGED <<phase, entries, recoverable, folder>>
    BY <1>5 DEF AnswerSave
  <2>3. PICK stops : stops = unnamed \cup failed
    OBVIOUS
  <2>4. PICK saved : saved = {i \in affected : \A stop \in stops : i < stop}
    OBVIOUS
  <2>5. PICK k : k = SaveTabs(desk, saved)
    OBVIOUS
  <2>6. \/ stops = {} /\ requestAction(k, pending, FALSE)
        \/ /\ desk' = IF Min(stops) \in unnamed THEN activate(k, Min(stops)) ELSE k
           /\ phase' = phase
    <3> HIDE DEF unnamed, affected
    <3> QED
      BY <2>2, <2>3, <2>4, <2>5
  <2>7. /\ Laid(k) /\ Turned(k, desk) /\ Ids(k) = Ids(desk) /\ k.nextId = desk.nextId
        /\ DOMAIN k.tabs = DOMAIN desk.tabs
    BY <2>1, <2>5, SavingTurns
  <2>8. unnamed \subseteq DOMAIN desk.tabs
    BY DEF affectedTabs
  <2> HIDE DEF unnamed, affected
  <2>9. CASE requestAction(k, pending, FALSE)
    BY <2>1, <2>7, <2>9, RequestMoves
  <2>10. CASE /\ desk' = IF Min(stops) \in unnamed THEN activate(k, Min(stops)) ELSE k
              /\ phase' = phase
    <3>1. CASE Min(stops) \in unnamed
      <4>1. PICK new : new = activate(k, Min(stops))
        OBVIOUS
      <4>2. Follows(new, k, {})
        BY <2>7, <2>8, <3>1, <4>1, TurningFollows
      <4>3. Turned(new, desk)
        BY <2>1, <2>7, <4>2, TurnsTwice, SomeOpenNew
      <4> QED
        BY <2>1, <2>10, <3>1, <4>1, <4>3 DEF DeskMoves
    <3>2. CASE Min(stops) \notin unnamed
      BY <2>1, <2>7, <2>10, <3>2 DEF DeskMoves
    <3> QED
      BY <3>1, <3>2
  <2> QED
    BY <2>6, <2>9, <2>10
<1> QED
  BY <1>2, <1>3, <1>4, <1>5

\* The copies of a crash open, in some order.
LEMMA RecoveringMoves ==
  ASSUME TypeInvariant, recoverAutosave
  PROVE  /\ phase = "editing" /\ DeskMoves /\ Follows(desk', desk, RecoveredAs)
         /\ PathsApart(desk) => PathsApart(desk')
<1>1. phase = "editing" /\ phase' = "editing" /\ Laid(desk) /\ Orderly(desk)
  BY LaidFacts DEF TypeInvariant, DeskKept, recoverAutosave
<1>2. PICK new : new = desk'
  OBVIOUS
<1>3. PICK order \in SetToSeqs(recoverable) : desk' = openRecoveredScenes(desk, order)
  BY DEF recoverAutosave
<1>4. /\ recoverable \subseteq Names /\ IsFiniteSet(recoverable)
      /\ \A e \in recoverable : e.file \in DOMAIN folder.copies
  BY DEF TypeInvariant, CopiesTyped, CopiesWait
<1>5. order \in Seq(Names) /\ \A n \in DOMAIN order : order[n] \in recoverable
  <2>1. Cardinality(recoverable) \in Nat
    BY <1>4, FS_CardinalityType
  <2>2. order \in [1 .. Cardinality(recoverable) -> recoverable]
    BY <1>3 DEF SetToSeqs
  <2>3. order \in [1 .. Cardinality(recoverable) -> Names]
    BY <1>4, <2>2
  <2> QED
    BY <2>1, <2>2, <2>3, FunctionIsSeq
<1>6. \A n \in DOMAIN order : folder.copies[order[n].file] \in Nat
  BY <1>4, <1>5 DEF TypeInvariant, CopiesTyped, FolderFinite, FolderOk
<1>7. Follows(new, desk, RecoveredAs) /\ (PathsApart(desk) => PathsApart(new))
  BY <1>1, <1>2, <1>3, <1>5, <1>6, RecoversScenes
<1>8. Turned(new, desk)
  BY <1>1, <1>7, FollowingTurns, SomeOpenNew
<1> QED
  BY <1>1, <1>2, <1>7, <1>8 DEF DeskMoves

\* Every step keeps the desk, edits the document on screen, turns tabs or empties the desk.
LEMMA StepMoves ==
  ASSUME TypeInvariant, [Next]_vars
  PROVE  DeskMoves
<1>1. CASE UNCHANGED vars
  BY <1>1 DEF vars, DeskMoves
<1>2. CASE showSaveSceneDialog \/ AnswerCancel \/ updateAutosave \/ discardAutosave \/ Write
  BY <1>2 DEF showSaveSceneDialog, AnswerCancel, updateAutosave, discardAutosave, Write, editor, DeskMoves
<1>3. CASE Crash
  BY <1>3 DEF Crash, DeskMoves
<1>4. CASE OpenProject \/ CodeReady
  BY <1>4, OpeningMoves
<1>5. CASE Edit \/ Undo \/ Redo
  BY <1>5, EditingMoves
<1>6. CASE activateSceneTab \/ moveTab \/ newSceneTab \/ openSceneTab
  BY <1>6, TabMoves
<1>7. CASE saveScene \/ saveAllScenes \/ SaveAsAnswered
  BY <1>7, SavingMoves
<1>8. CASE RequestClose \/ RequestLeave \/ AnswerSave \/ AnswerDiscard
  BY <1>8, ClosingMoves
<1>9. CASE recoverAutosave
  BY <1>9, RecoveringMoves
<1> QED
  BY <1>1, <1>2, <1>3, <1>4, <1>5, <1>6, <1>7, <1>8, <1>9 DEF Next

\* Every step leaves an orderly desk.
LEMMA DeskStaysKept ==
  ASSUME TypeInvariant, [Next]_vars
  PROVE  DeskKept'
<1>1. PICK new : new = desk'
  OBVIOUS
<1>2. DeskMoves
  BY StepMoves
<1>3. CASE Edited(new, desk) /\ phase' = "editing"
  BY <1>1, <1>3 DEF DeskKept, Edited
<1>4. CASE Turned(new, desk) /\ phase' = "editing"
  BY <1>1, <1>4 DEF DeskKept, Turned
<1>5. CASE desk' = Closed /\ phase' \in {"closed", "waiting"}
  BY <1>5 DEF DeskKept
<1>6. CASE desk' = desk /\ phase' = phase
  BY <1>6 DEF DeskKept, TypeInvariant
<1> QED
  BY <1>1, <1>2, <1>3, <1>4, <1>5, <1>6 DEF DeskMoves

-----------------------------------------------------------------------------
(* What a step writes: the files, the folder of the copies *)

\* The scene a path is written with last, of some tabs that are saved, is the scene of one of them.
LEMMA FilesAre ==
  ASSUME NEW k, Orderly(k), NEW is \in SUBSET DOMAIN k.tabs, NEW p \in Paths
  PROVE  \/ (\A i \in is : Held(k, i).path # p) /\ FilesWith(k, is)[p] = files[p]
         \/ \E i \in is : Held(k, i).path = p /\ FilesWith(k, is)[p] = Held(k, i).scene
<1> DEFINE here == {i \in is : Held(k, i).path = p}
           last == CHOOSE i \in here : \A j \in here : j <= i
<1>1. FilesWith(k, is)[p] = IF here = {} THEN files[p] ELSE Held(k, last).scene
  BY DEF FilesWith
<1>2. DOMAIN k.tabs = 1 .. Len(k.tabs) /\ Len(k.tabs) \in Nat
  BY Places
<1>3. ASSUME here # {} PROVE last \in here
  <2> DEFINE after == {Len(k.tabs) - i : i \in here}
  <2>1. here \subseteq 1 .. Len(k.tabs)
    BY <1>2
  <2>2. after \in SUBSET Nat /\ after # {}
    BY <1>2, <1>3, <2>1
  <2>3. PICK n \in after : \A m \in after : n <= m
    BY <2>2, LeastNat
  <2>4. PICK i \in here : n = Len(k.tabs) - i
    BY <2>3
  <2>5. ASSUME NEW j \in here PROVE j <= i
    <3>1. Len(k.tabs) - j \in after
      OBVIOUS
    <3>2. Len(k.tabs) - i <= Len(k.tabs) - j
      BY <2>3, <2>4, <3>1
    <3> QED
      BY <1>2, <2>1, <3>2
  <2> QED
    BY <2>5
<1> HIDE DEF last
<1> QED
  BY <1>1, <1>3

\* Files that are written hold scenes.
LEMMA FilesTypes ==
  ASSUME NEW k, Orderly(k), Filed, NEW is \in SUBSET DOMAIN k.tabs
  PROVE  FilesWith(k, is) \in [Paths -> Nat \cup {NoFile}]
<1>1. ASSUME NEW p \in Paths PROVE FilesWith(k, is)[p] \in Nat \cup {NoFile}
  <2>1. files[p] \in Nat \cup {NoFile}
    BY DEF Filed
  <2>2. \A i \in is : Held(k, i) \in Document
    BY Places
  <2>3. \A i \in is : Held(k, i).scene \in Nat
    BY <2>2 DEF Document
  <2> QED
    BY <2>1, <2>3, FilesAre
<1>2. FilesWith(k, is) = [p \in Paths |-> FilesWith(k, is)[p]]
  BY DEF FilesWith
<1> QED
  BY <1>1, <1>2

\* Every step leaves the files of the project files.
LEMMA FilesStayFiled ==
  ASSUME TypeInvariant, [Next]_vars
  PROVE  Filed'
<1>1. CASE UNCHANGED files
  BY <1>1 DEF TypeInvariant, Filed
<1>2. ASSUME phase = "editing", NEW is \in SUBSET DOMAIN desk.tabs, files' = FilesWith(desk, is) PROVE Filed'
  <2>1. Orderly(desk) /\ Filed
    BY <1>2, LaidFacts DEF TypeInvariant, DeskKept
  <2>2. FilesWith(desk, is) \in [Paths -> Nat \cup {NoFile}]
    BY <2>1, FilesTypes
  <2> QED
    BY <1>2, <2>2 DEF Filed
<1>3. ASSUME phase = "editing", NEW p \in Paths \cup {NoPath}, files' = [files EXCEPT ![p] = desk.live.scene] PROVE Filed'
  <2>1. desk.live \in Document
    BY <1>3, LaidFacts, Places DEF TypeInvariant, DeskKept
  <2>2. desk.live.scene \in Nat
    BY <2>1 DEF Document
  <2> QED
    BY <1>3, <2>2 DEF Filed, TypeInvariant
<1>4. CASE saveScene
  <2>1. phase = "editing" /\ desk.live \in Document
    BY <1>4, LaidFacts, Places DEF saveScene, AtWork, Idle, TypeInvariant, DeskKept
  <2>2. desk.live.path \in Paths \cup {NoPath}
    BY <2>1 DEF Document
  <2> QED
    BY <1>1, <1>3, <1>4, <2>1, <2>2 DEF saveScene
<1>5. CASE saveAllScenes
  <2>1. phase = "editing" /\ \E is \in SUBSET DOMAIN desk.tabs : files' = FilesWith(desk, is)
    BY <1>5 DEF saveAllScenes, AtWork, Idle
  <2> QED
    BY <1>2, <2>1
<1>6. CASE SaveAsAnswered
  <2>1. phase = "editing" /\ (files' = files \/ \E p \in Paths : files' = [files EXCEPT ![p] = desk.live.scene])
    BY <1>6 DEF SaveAsAnswered, Idle
  <2> QED
    BY <1>1, <1>3, <2>1
<1>7. CASE AnswerSave
  <2>1. phase = "editing" /\ \E is \in SUBSET DOMAIN desk.tabs : files' = FilesWith(desk, is)
    BY <1>7 DEF AnswerSave, Idle, affectedTabs
  <2> QED
    BY <1>2, <2>1
<1>8. CASE ~(saveScene \/ saveAllScenes \/ SaveAsAnswered \/ AnswerSave)
  <2>1. UNCHANGED files
    BY <1>8 DEF Next, vars, OpenProject, CodeReady, openScenes, Edit, Undo, Redo, activateSceneTab, moveTab,
                newSceneTab, openSceneTab, OnDesk, showSaveSceneDialog, RequestClose, RequestLeave,
                AnswerDiscard, AnswerCancel, updateAutosave, recoverAutosave, discardAutosave, Write, Crash, disk
  <2> QED
    BY <1>1, <2>1
<1> QED
  BY <1>4, <1>5, <1>6, <1>7, <1>8

\* An action that is asked for keeps the types of the session, and its copies or closes it.
LEMMA RequestTypes ==
  ASSUME SessionTyped, NEW k, NEW action, action.kind \in {"none", "close", "leave"}, NEW open \in BOOLEAN,
         requestAction(k, action, open)
  PROVE  /\ phase' \in {"closed", "waiting", "editing"} /\ pending'.kind \in {"none", "close", "leave"}
         /\ asking' \in BOOLEAN
         /\ Leaves \/ UNCHANGED <<phase, entries, recoverable, folder>>
<1>1. CASE affectedTabs(k, action) # {}
  BY <1>1 DEF requestAction, SessionTyped
<1>2. CASE affectedTabs(k, action) = {} /\ action.kind = "leave"
  <2>1. Leaves
    BY <1>2 DEF requestAction
  <2>2. phase' = "closed" /\ pending' = NoAction /\ asking' = FALSE
    BY <2>1 DEF Leaves
  <2>3. NoAction.kind = "none"
    BY DEF NoAction
  <2> QED
    BY <2>1, <2>2, <2>3
<1>3. CASE affectedTabs(k, action) = {} /\ action.kind # "leave"
  BY <1>3 DEF requestAction, SessionTyped, NoAction
<1> QED
  BY <1>1, <1>2, <1>3

\* What an answer that asks for an action does next to the desk.
LEMMA AsksAgain ==
  ASSUME SessionTyped
  PROVE  /\ SaveAsAnswered =>
              \/ pending' \in {pending, NoAction} /\ UNCHANGED <<phase, asking, entries, recoverable, folder>>
              \/ \E k : requestAction(k, pending, asking)
         /\ RequestClose => \E ids : requestAction(desk, [kind |-> "close", tabs |-> ids], FALSE)
         /\ AnswerSave =>
              \/ /\ asking' = FALSE /\ pending' \in {pending, NoAction}
                 /\ UNCHANGED <<phase, entries, recoverable, folder>>
              \/ \E k : requestAction(k, pending, FALSE)
<1>1. SaveAsAnswered =>
              \/ pending' \in {pending, NoAction} /\ UNCHANGED <<phase, asking, entries, recoverable, folder>>
              \/ \E k : requestAction(k, pending, asking)
  BY DEF SaveAsAnswered
<1>2. RequestClose => \E ids : requestAction(desk, [kind |-> "close", tabs |-> ids], FALSE)
  BY DEF RequestClose
<1>3. ASSUME AnswerSave
      PROVE  \/ /\ asking' = FALSE /\ pending' \in {pending, NoAction}
                /\ UNCHANGED <<phase, entries, recoverable, folder>>
             \/ \E k : requestAction(k, pending, FALSE)
  BY <1>3 DEF AnswerSave
<1> QED
  BY <1>1, <1>2, <1>3

\* Only a write changes whether the last write of the index failed.
LEMMA IndexStays ==
  ASSUME [Next]_vars, ~Write
  PROVE  unindexed' = unindexed
<1>1. CASE OpenProject \/ CodeReady \/ Edit \/ Undo \/ Redo \/ activateSceneTab \/ moveTab
  BY <1>1 DEF bounds, OpenProject, CodeReady, openScenes, Edit, Undo, Redo, activateSceneTab, moveTab, OnDesk
<1>2. CASE newSceneTab \/ openSceneTab
  BY <1>2 DEF bounds, newSceneTab, openSceneTab, OnDesk
<1>3. CASE saveScene \/ saveAllScenes \/ showSaveSceneDialog \/ SaveAsAnswered \/ RequestClose \/ RequestLeave
  BY <1>3 DEF bounds, saveScene, saveAllScenes, showSaveSceneDialog, SaveAsAnswered, RequestClose, RequestLeave
<1>4. CASE AnswerSave \/ AnswerDiscard \/ AnswerCancel \/ updateAutosave \/ recoverAutosave \/ discardAutosave
  BY <1>4 DEF bounds, AnswerSave, AnswerDiscard, AnswerCancel, updateAutosave, recoverAutosave, discardAutosave
<1>5. CASE Crash
  BY <1>5 DEF Crash
<1>6. CASE UNCHANGED vars
  BY <1>6 DEF vars
<1> QED
  BY <1>1, <1>2, <1>3, <1>4, <1>5, <1>6 DEF Next

\* Every step leaves the session of the editor its type.
LEMMA SessionStaysTyped ==
  ASSUME TypeInvariant, [Next]_vars
  PROVE  SessionTyped'
<1>1. SessionTyped /\ NoAction.kind = "none" /\ Leaving.kind = "leave"
  BY DEF TypeInvariant, NoAction, Leaving
<1>2. lastScene' \in Nat
  <2>1. CASE Edit
    BY <1>1, <2>1 DEF SessionTyped, Edit
  <2>2. CASE ~Edit
    <3>1. lastScene' = lastScene
      BY <2>2 DEF Next, vars, bounds, OpenProject, CodeReady, openScenes, Undo, Redo, activateSceneTab,
                  moveTab, newSceneTab, openSceneTab, OnDesk, saveScene, saveAllScenes, showSaveSceneDialog,
                  SaveAsAnswered, RequestClose, RequestLeave, AnswerSave, AnswerDiscard, AnswerCancel,
                  updateAutosave, recoverAutosave, discardAutosave, Write, Crash
    <3> QED
      BY <1>1, <3>1 DEF SessionTyped
  <2> QED
    BY <2>1, <2>2
<1>3. naming' \in BOOLEAN
  <2>1. CASE saveAllScenes
    BY <1>1, <2>1 DEF SessionTyped, saveAllScenes
  <2>2. CASE AnswerSave
    <3>1. naming' \in BOOLEAN
      BY <2>2 DEF AnswerSave
    <3> QED
      BY <3>1
  <2>3. CASE RequestLeave \/ AnswerDiscard
    BY <2>3 DEF RequestLeave, AnswerDiscard
  <2>4. CASE saveScene \/ showSaveSceneDialog \/ SaveAsAnswered \/ Crash
    BY <1>1, <2>4 DEF SessionTyped, saveScene, showSaveSceneDialog, SaveAsAnswered, Crash
  <2>5. CASE ~(saveAllScenes \/ AnswerSave \/ RequestLeave \/ AnswerDiscard \/ saveScene \/ showSaveSceneDialog
               \/ SaveAsAnswered \/ Crash)
    <3>1. naming' = naming
      BY <2>5 DEF Next, vars, editor, OpenProject, CodeReady, openScenes, Edit, Undo, Redo, activateSceneTab, moveTab,
                  newSceneTab, openSceneTab, OnDesk, RequestClose, AnswerCancel, updateAutosave,
                  recoverAutosave, discardAutosave, Write
    <3> QED
      BY <1>1, <3>1 DEF SessionTyped
  <2> QED
    BY <2>1, <2>2, <2>3, <2>4, <2>5
<1>4. /\ phase' \in {"closed", "waiting", "editing"} /\ pending'.kind \in {"none", "close", "leave"}
      /\ asking' \in BOOLEAN
  <2>1. pending.kind \in {"none", "close", "leave"} /\ asking \in BOOLEAN /\ phase \in {"closed", "waiting", "editing"}
    BY <1>1 DEF SessionTyped
  <2>2. CASE SaveAsAnswered
    <3>1. CASE pending' \in {pending, NoAction} /\ UNCHANGED <<phase, asking>>
      BY <1>1, <2>1, <3>1
    <3>2. CASE \E k : requestAction(k, pending, asking)
      BY <1>1, <2>1, <3>2, RequestTypes
    <3> QED
      BY <1>1, <2>2, <3>1, <3>2, AsksAgain
  <2>3. CASE RequestClose
    <3>1. PICK ids : requestAction(desk, [kind |-> "close", tabs |-> ids], FALSE)
      BY <1>1, <2>3, AsksAgain
    <3>2. PICK action : action = [kind |-> "close", tabs |-> ids]
      OBVIOUS
    <3>3. PICK open \in BOOLEAN : open = FALSE
      OBVIOUS
    <3>4. action.kind \in {"none", "close", "leave"} /\ requestAction(desk, action, open)
      BY <3>1, <3>2, <3>3
    <3> QED
      BY <1>1, <3>4, RequestTypes
  <2>4. CASE AnswerSave
    <3>1. CASE asking' = FALSE /\ pending' \in {pending, NoAction} /\ UNCHANGED phase
      BY <1>1, <2>1, <3>1
    <3>2. CASE \E k : requestAction(k, pending, FALSE)
      <4>1. PICK open \in BOOLEAN : open = FALSE
        OBVIOUS
      <4>2. PICK k : requestAction(k, pending, open)
        BY <3>2, <4>1
      <4> QED
        BY <1>1, <2>1, <4>2, RequestTypes
    <3> QED
      BY <1>1, <2>4, <3>1, <3>2, AsksAgain
  <2>5. CASE RequestLeave
    <3>1. requestAction(desk, Leaving, asking)
      BY <2>5 DEF RequestLeave
    <3> QED
      BY <1>1, <2>1, <3>1, RequestTypes
  <2>6. CASE AnswerDiscard
    BY <1>1, <2>1, <2>6 DEF AnswerDiscard, Leaves
  <2>7. CASE AnswerCancel \/ Crash \/ OpenProject \/ CodeReady
    BY <1>1, <2>1, <2>7 DEF AnswerCancel, Crash, OpenProject, CodeReady, openScenes
  <2>8. CASE ~(SaveAsAnswered \/ RequestClose \/ AnswerSave \/ RequestLeave \/ AnswerDiscard \/ AnswerCancel
               \/ Crash \/ OpenProject \/ CodeReady)
    <3>1. UNCHANGED <<phase, pending, asking>>
      BY <2>8 DEF Next, vars, editor, Edit, Undo, Redo, activateSceneTab, moveTab, newSceneTab, openSceneTab, OnDesk,
                  saveScene, saveAllScenes, showSaveSceneDialog, updateAutosave, recoverAutosave,
                  discardAutosave, Write
    <3> QED
      BY <2>1, <3>1
  <2> QED
    BY <2>2, <2>3, <2>4, <2>5, <2>6, <2>7, <2>8
<1>5. unindexed' \in BOOLEAN
  <2>1. CASE Write
    BY <2>1 DEF Write, WriteDone, IndexFails
  <2> QED
    BY <1>1, <2>1, IndexStays DEF SessionTyped
<1> QED
  BY <1>2, <1>3, <1>4, <1>5 DEF SessionTyped

\* A write leaves the folder what it is: copies and an index, both finite.
LEMMA WriteTypes ==
  ASSUME CopiesTyped, Write
  PROVE  FolderFinite' /\ FolderShaped' /\ writes' \in Seq(Writes)
<1> DEFINE next == Head(writes)
<1>1. next \in Writes /\ writes' \in Seq(Writes)
  <2>1. writes # <<>> /\ writes' \in {Tail(writes), <<>>} /\ writes \in Seq(Writes)
    BY DEF Write, WriteDone, IndexFails, CopiesTyped
  <2>2. next \in Writes /\ Tail(writes) \in Seq(Writes)
    BY <2>1, ToSetTail
  <2>3. <<>> \in Seq(Writes)
    OBVIOUS
  <2> HIDE DEF next
  <2> QED
    BY <2>1, <2>2, <2>3
<1>2. /\ folder = [copies |-> folder.copies, index |-> folder.index]
      /\ DOMAIN folder.copies \subseteq Nat /\ \A n \in DOMAIN folder.copies : folder.copies[n] \in Nat
      /\ folder.index \subseteq Names /\ IsFiniteSet(DOMAIN folder.copies) /\ IsFiniteSet(folder.index)
  BY DEF CopiesTyped, FolderShaped, FolderFinite, FolderOk
<1>3. CASE IndexFails
  <2>1. \/ folder' = folder
        \/ next.op = "index" /\ \E names \in SUBSET next.names : folder' = [folder EXCEPT !.index = names]
    BY <1>3 DEF IndexFails
  <2>2. CASE folder' = folder
    BY <1>1, <1>2, <2>2 DEF FolderFinite, FolderShaped, FolderOk
  <2>3. ASSUME next.op = "index", NEW index \in SUBSET next.names, folder' = [folder EXCEPT !.index = index]
        PROVE  FolderFinite' /\ FolderShaped'
    <3>0. folder' = [copies |-> folder.copies, index |-> index]
      BY <1>2, <2>3
    <3>1. next.names \subseteq Names /\ IsFiniteSet(next.names)
      BY <1>1, <2>3 DEF Writes
    <3>2. index \subseteq Names /\ IsFiniteSet(index)
      BY <2>3, <3>1, FS_Subset
    <3> QED
      BY <1>2, <3>0, <3>2 DEF FolderFinite, FolderShaped, FolderOk
  <2> QED
    BY <1>1, <2>1, <2>2, <2>3
<1> SUFFICES ASSUME WriteDone PROVE FolderFinite' /\ FolderShaped'
  BY <1>1, <1>3 DEF Write
<1>13. folder' =
        CASE next.op = "copy" -> [folder EXCEPT !.copies = Put(@, next.file, next.scene)]
          [] next.op = "remove" -> [folder EXCEPT !.copies = Restrict(@, DOMAIN @ \ {next.file})]
          [] next.op = "truncate" -> [folder EXCEPT !.index = {}]
          [] next.op = "index" -> [folder EXCEPT !.index = next.names]
          [] next.op \in {"removeAll", "setAside"} -> NoFolder
  BY DEF WriteDone
<1> HIDE DEF next
<1>4. ASSUME NEW copies, NEW index, folder' = [copies |-> copies, index |-> index],
             DOMAIN copies \subseteq Nat, \A n \in DOMAIN copies : copies[n] \in Nat, IsFiniteSet(DOMAIN copies),
             index \subseteq Names, IsFiniteSet(index)
      PROVE  FolderFinite' /\ FolderShaped'
  BY <1>4 DEF FolderFinite, FolderShaped, FolderOk
<1>5. IsFiniteSet({})
  BY FS_EmptySet
<1>6. CASE next.op = "copy"
  <2>1. next.file \in Nat /\ next.scene \in Nat
    BY <1>1, <1>6 DEF Writes
  <2> DEFINE copies == Put(folder.copies, next.file, next.scene)
  <2>2. DOMAIN copies = {next.file} \cup DOMAIN folder.copies
    BY DEF Put
  <2>3. \A n \in DOMAIN copies : copies[n] = IF n = next.file THEN next.scene ELSE folder.copies[n]
    BY DEF Put
  <2>4. folder' = [copies |-> copies, index |-> folder.index]
    BY <1>2, <1>13, <1>6
  <2>5. IsFiniteSet({next.file} \cup DOMAIN folder.copies)
    BY <1>2, FS_Singleton, FS_Union
  <2> HIDE DEF copies
  <2>6. DOMAIN copies \subseteq Nat /\ IsFiniteSet(DOMAIN copies) /\ \A n \in DOMAIN copies : copies[n] \in Nat
    BY <1>2, <2>1, <2>2, <2>3, <2>5
  <2> QED
    BY <1>1, <1>2, <1>4, <2>4, <2>6
<1>7. CASE next.op = "remove"
  <2> DEFINE copies == Restrict(folder.copies, DOMAIN folder.copies \ {next.file})
  <2>1. DOMAIN copies = DOMAIN folder.copies \ {next.file} /\ \A n \in DOMAIN copies : copies[n] = folder.copies[n]
    BY DEF Restrict
  <2>2. folder' = [copies |-> copies, index |-> folder.index]
    BY <1>2, <1>13, <1>7
  <2>3. IsFiniteSet(DOMAIN folder.copies \ {next.file})
    BY <1>2, FS_Subset
  <2> HIDE DEF copies
  <2> QED
    BY <1>1, <1>2, <1>4, <2>1, <2>2, <2>3
<1>8. CASE next.op = "truncate"
  <2>1. folder' = [copies |-> folder.copies, index |-> {}]
    BY <1>2, <1>13, <1>8
  <2> QED
    BY <1>1, <1>2, <1>4, <1>5, <2>1
<1>9. CASE next.op = "index"
  <2>1. next.names \subseteq Names /\ IsFiniteSet(next.names)
    BY <1>1, <1>9 DEF Writes
  <2>2. folder' = [copies |-> folder.copies, index |-> next.names]
    BY <1>2, <1>13, <1>9
  <2> QED
    BY <1>1, <1>2, <1>4, <2>1, <2>2
<1>10. CASE next.op \in {"removeAll", "setAside"}
  <2>1. PICK copies : copies = [f \in {} |-> f]
    OBVIOUS
  <2>2. folder' = [copies |-> copies, index |-> {}]
    BY <1>13, <1>10, <2>1 DEF NoFolder
  <2>3. DOMAIN copies = {}
    BY <2>1
  <2> QED
    BY <1>1, <1>4, <1>5, <2>2, <2>3
<1>11. next.op \in {"copy", "remove", "truncate", "index", "removeAll", "setAside"}
  BY <1>1 DEF Writes
<1> QED
  BY <1>1, <1>6, <1>7, <1>8, <1>9, <1>10, <1>11

\* What a step does to the copies, where it is not about them.
CopiesStay ==
  /\ UNCHANGED <<entries, recoverable, folder, writes>>
  /\ phase' = phase \/ (phase = "closed" /\ phase' = "waiting" /\ writes = <<>> /\ recoverable = {})

\* What the steps do to the copies of unsaved work is one of few things.
LEMMA CopiesMoves ==
  ASSUME TypeInvariant, [Next]_vars
  PROVE  \/ CopiesStay
         \/ Leaves /\ writes = <<>> /\ writes' = <<>>
         \/ openScenes /\ writes = <<>>
         \/ updateAutosave \/ recoverAutosave \/ discardAutosave \/ Write \/ Crash
<1>1. SessionTyped /\ CopiesWait
  BY DEF TypeInvariant
<1>2. CASE OpenProject \/ CodeReady
  <2>1. writes = <<>> /\ recoverable = {}
    BY <1>1, <1>2 DEF CopiesWait, OpenProject, CodeReady
  <2> QED
    BY <1>2, <2>1 DEF OpenProject, CodeReady, disk, CopiesStay
<1>3. CASE RequestLeave
  <2>1. requestAction(desk, Leaving, asking) /\ writes = <<>> /\ writes' = <<>>
    BY <1>3 DEF RequestLeave
  <2>2. asking \in BOOLEAN /\ Leaving.kind \in {"none", "close", "leave"}
    BY <1>1 DEF SessionTyped, Leaving
  <2>3. Leaves \/ UNCHANGED <<phase, entries, recoverable, folder>>
    BY <1>1, <2>1, <2>2, RequestTypes
  <2> QED
    BY <2>1, <2>3 DEF CopiesStay
<1>4. ASSUME NEW k, NEW action, action.kind \in {"none", "close", "leave"}, NEW open \in BOOLEAN,
             requestAction(k, action, open), writes = <<>>, writes' = <<>>
      PROVE  CopiesStay \/ Leaves
  <2>1. Leaves \/ UNCHANGED <<phase, entries, recoverable, folder>>
    BY <1>1, <1>4, RequestTypes
  <2> QED
    BY <1>4, <2>1 DEF CopiesStay
<1>5. CASE RequestClose
  <2>1. PICK ids : requestAction(desk, [kind |-> "close", tabs |-> ids], FALSE)
    BY <1>1, <1>5, AsksAgain
  <2>2. PICK action : action = [kind |-> "close", tabs |-> ids]
    OBVIOUS
  <2>3. PICK open \in BOOLEAN : open = FALSE
    OBVIOUS
  <2>4. action.kind \in {"none", "close", "leave"} /\ requestAction(desk, action, open)
    BY <2>1, <2>2, <2>3
  <2>5. writes = <<>> /\ writes' = <<>>
    BY <1>5 DEF RequestClose, AtWork, Idle
  <2> QED
    BY <1>4, <2>4, <2>5
<1>6. CASE SaveAsAnswered
  <2>1. writes = <<>> /\ writes' = <<>>
    BY <1>6 DEF SaveAsAnswered, Idle
  <2>2. pending.kind \in {"none", "close", "leave"} /\ asking \in BOOLEAN
    BY <1>1 DEF SessionTyped
  <2>3. CASE UNCHANGED <<phase, entries, recoverable, folder>>
    BY <2>1, <2>3 DEF CopiesStay
  <2>4. CASE \E k : requestAction(k, pending, asking)
    BY <1>4, <2>1, <2>2, <2>4
  <2> QED
    BY <1>1, <1>6, <2>1, <2>3, <2>4, AsksAgain
<1>7. CASE AnswerSave
  <2>1. writes = <<>> /\ writes' = <<>>
    BY <1>7 DEF AnswerSave, Idle
  <2>2. pending.kind \in {"none", "close", "leave"}
    BY <1>1 DEF SessionTyped
  <2>3. CASE UNCHANGED <<phase, entries, recoverable, folder>>
    BY <2>1, <2>3 DEF CopiesStay
  <2>4. CASE \E k : requestAction(k, pending, FALSE)
    <3>1. PICK open \in BOOLEAN : open = FALSE
      OBVIOUS
    <3>2. PICK k : requestAction(k, pending, open)
      BY <2>4, <3>1
    <3> QED
      BY <1>4, <2>1, <2>2, <3>2
  <2> QED
    BY <1>1, <1>7, <2>1, <2>3, <2>4, AsksAgain
<1>8. CASE AnswerDiscard
  BY <1>8 DEF AnswerDiscard, Idle, CopiesStay
<1>9. CASE saveScene \/ saveAllScenes \/ showSaveSceneDialog \/ AnswerCancel
  BY <1>9 DEF saveScene, saveAllScenes, showSaveSceneDialog, AnswerCancel, disk, CopiesStay
<1>10. CASE Edit \/ Undo \/ Redo \/ activateSceneTab \/ moveTab \/ newSceneTab \/ openSceneTab
  BY <1>10 DEF Edit, Undo, Redo, activateSceneTab, moveTab, newSceneTab, openSceneTab, OnDesk, disk, CopiesStay
<1>11. CASE UNCHANGED vars
  BY <1>11 DEF vars, CopiesStay
<1> QED
  BY <1>2, <1>3, <1>5, <1>6, <1>7, <1>8, <1>9, <1>10, <1>11 DEF Next

\* Every step leaves the autosave its type, and writes nothing while copies wait for an answer.
LEMMA CopiesStayTyped ==
  ASSUME TypeInvariant, [Next]_vars
  PROVE  CopiesTyped' /\ CopiesWait'
<1>1. CopiesTyped /\ CopiesWait /\ IsFiniteSet({})
  BY FS_EmptySet DEF TypeInvariant
<1>2. CASE CopiesStay
  BY <1>1, <1>2 DEF CopiesStay, CopiesTyped, CopiesWait, KnownCopies, FolderFinite, FolderShaped, FolderOk
<1>3. ASSUME entries' \subseteq Copies, IsFiniteSet(entries'), writes' \in Seq(Writes),
             recoverable' \subseteq Names, IsFiniteSet(recoverable'), UNCHANGED folder
      PROVE  CopiesTyped'
  BY <1>1, <1>3 DEF CopiesTyped, KnownCopies, FolderFinite, FolderShaped, FolderOk
<1>4. <<>> \in Seq(Writes)
  OBVIOUS
<1>5. CASE (Leaves /\ writes' = <<>>) \/ Crash
  <2>1. entries' = {} /\ recoverable' = {} /\ writes' = <<>> /\ folder' \in {folder, NoFolder}
    BY <1>5 DEF Leaves, Crash, disk
  <2>2. CASE folder' = folder
    BY <1>1, <1>3, <1>4, <2>1, <2>2 DEF CopiesWait
  <2>3. CASE folder' = NoFolder
    <3>1. PICK copies : copies = [f \in {} |-> f]
      OBVIOUS
    <3>2. folder' = [copies |-> copies, index |-> {}] /\ DOMAIN copies = {}
      BY <2>3, <3>1 DEF NoFolder
    <3>3. FolderFinite' /\ FolderShaped'
      BY <1>1, <3>2 DEF FolderFinite, FolderShaped, FolderOk
    <3> QED
      BY <1>1, <1>4, <2>1, <3>3 DEF CopiesTyped, KnownCopies, CopiesWait
  <2> QED
    BY <2>1, <2>2, <2>3
<1>6. CASE openScenes /\ writes = <<>>
  <2>1. recoverable' = Found /\ UNCHANGED <<entries, writes, folder>> /\ phase' = "editing"
    BY <1>6 DEF openScenes, disk
  <2>2. Found \subseteq Names /\ IsFiniteSet(Found)
    <3>1. Found \subseteq folder.index
      BY DEF Found
    <3> QED
      BY <1>1, <3>1, FS_Subset DEF CopiesTyped, FolderFinite, FolderOk
  <2>3. CopiesTyped'
    BY <1>1, <1>3, <2>1, <2>2 DEF CopiesTyped, KnownCopies
  <2>4. CopiesWait'
    BY <1>6, <2>1 DEF CopiesWait, Found
  <2> QED
    BY <2>3, <2>4
<1>7. CASE Write
  <2>1. FolderFinite' /\ FolderShaped' /\ writes' \in Seq(Writes)
    BY <1>1, <1>7, WriteTypes
  <2>2. UNCHANGED <<phase, entries, recoverable>> /\ writes # <<>>
    BY <1>7 DEF Write, editor
  <2>3. phase = "editing" /\ recoverable = {}
    BY <1>1, <2>2 DEF CopiesWait
  <2> QED
    BY <1>1, <2>1, <2>2, <2>3 DEF CopiesTyped, KnownCopies, CopiesWait
<1>8. CASE discardAutosave
  <2>1. [op |-> "setAside"] \in Writes
    BY DEF Writes
  <2>2. UNCHANGED <<phase, entries, folder>> /\ recoverable' = {} /\ phase = "editing" /\ writes' \in Seq(Writes)
    BY <1>8, <2>1 DEF discardAutosave, disk
  <2> QED
    BY <1>1, <1>3, <2>2 DEF CopiesTyped, KnownCopies, CopiesWait
<1>9. ASSUME NEW k, Orderly(k), NEW known, known \subseteq Copies, IsFiniteSet(known), NEW copy \in BOOLEAN,
             NEW before \in Seq(Writes), syncCopies(k, known, copy, before),
             phase' = "editing", recoverable' = {}, UNCHANGED folder
      PROVE  CopiesTyped' /\ CopiesWait'
  <2>1. FolderFinite
    BY <1>1 DEF CopiesTyped
  <2>2. entries' \subseteq Copies /\ IsFiniteSet(entries') /\ writes' \in Seq(Writes)
    BY <1>9, <2>1, SyncTypes
  <2> QED
    BY <1>1, <1>3, <1>9, <2>2 DEF CopiesWait
<1>10. CASE updateAutosave
  <2>1. PICK copy \in BOOLEAN : syncCopies(desk, entries, copy, <<>>)
    BY <1>10 DEF updateAutosave
  <2>2. phase' = "editing" /\ phase = "editing" /\ recoverable' = {} /\ UNCHANGED folder
    BY <1>10 DEF updateAutosave, Idle, disk
  <2>3. Orderly(desk)
    BY <2>2, LaidFacts DEF TypeInvariant, DeskKept
  <2>4. entries \subseteq Copies /\ IsFiniteSet(entries)
    BY <1>1 DEF CopiesTyped, KnownCopies
  <2> QED
    BY <1>4, <1>9, <2>1, <2>2, <2>3, <2>4
<1>11. CASE recoverAutosave
  <2>1. PICK k : desk' = k /\ syncCopies(k, {}, TRUE, <<[op |-> "setAside"]>>)
    BY <1>11 DEF recoverAutosave
  <2>2. phase' = "editing" /\ recoverable' = {} /\ UNCHANGED folder
    BY <1>11 DEF recoverAutosave, disk
  <2>3. Orderly(k)
    <3>1. Follows(desk', desk, RecoveredAs)
      BY <1>11, RecoveringMoves
    <3>2. Follows(k, desk, RecoveredAs)
      BY <2>1, <3>1
    <3> QED
      BY <3>2, LaidFacts DEF Follows
  <2>4. [op |-> "setAside"] \in Writes
    BY DEF Writes
  <2>5. <<[op |-> "setAside"]>> \in Seq(Writes)
    BY <2>4
  <2>6. PICK before : before = <<[op |-> "setAside"]>>
    OBVIOUS
  <2> DEFINE copy == TRUE
  <2>7. copy \in BOOLEAN
    OBVIOUS
  <2>8. PICK known : known = {}
    OBVIOUS
  <2>9. syncCopies(k, known, copy, before)
    BY <2>1, <2>6, <2>8
  <2> HIDE DEF copy
  <2>10. before \in Seq(Writes) /\ known \subseteq Copies /\ IsFiniteSet(known)
    BY <1>1, <2>5, <2>6, <2>8
  <2> QED
    BY <1>9, <2>2, <2>3, <2>7, <2>9, <2>10
<1> QED
  BY <1>2, <1>5, <1>6, <1>7, <1>8, <1>10, <1>11, CopiesMoves

-----------------------------------------------------------------------------
(* The types *)

\* The invariant of types holds at first.
LEMMA TypesStart ==
  ASSUME Init
  PROVE  TypeInvariant
<1>1. SessionTyped /\ DeskKept /\ Filed
  <2>1. SessionTyped
    BY DEF Init, SessionTyped, NoAction, FirstScene
  <2>2. DeskKept
    BY DEF Init, DeskKept
  <2>3. Filed
    BY DEF Init, Filed, FirstScene
  <2> QED
    BY <2>1, <2>2, <2>3
<1>2. CopiesTyped /\ CopiesWait
  <2>1. IsFiniteSet({})
    BY FS_EmptySet
  <2>2. PICK copies : copies = [f \in {} |-> f]
    OBVIOUS
  <2>3. folder = [copies |-> copies, index |-> {}] /\ DOMAIN copies = {}
    BY <2>2 DEF Init, NoFolder
  <2>4. FolderFinite /\ FolderShaped
    BY <2>1, <2>3 DEF FolderFinite, FolderShaped, FolderOk
  <2>5. entries = {} /\ recoverable = {} /\ writes = <<>> /\ writes \in Seq(Writes)
    BY DEF Init
  <2> QED
    BY <2>1, <2>4, <2>5 DEF CopiesTyped, KnownCopies, CopiesWait
<1> QED
  BY <1>1, <1>2 DEF TypeInvariant

\* Every step keeps it.
LEMMA TypesStay ==
  ASSUME TypeInvariant, [Next]_vars
  PROVE  TypeInvariant'
BY SessionStaysTyped, DeskStaysKept, FilesStayFiled, CopiesStayTyped DEF TypeInvariant

\* It says what TypeOK does.
LEMMA TypesHold ==
  ASSUME TypeInvariant
  PROVE  TypeOK
<1>1. Orderly(desk) /\ (phase = "editing" => desk.active \in DOMAIN desk.tabs) /\ (phase # "editing" => desk = Closed)
  BY ClosedIsOrderly, LaidFacts DEF TypeInvariant, DeskKept
<1>2. \A i \in DOMAIN desk.tabs : desk.tabs[i].id < desk.nextId /\ desk.tabs[i].document \in Document
  <2>1. TAKE i \in DOMAIN desk.tabs
  <2>2. desk.tabs[i] \in Tab /\ desk.nextId \in Nat
    BY <1>1, Places
  <2>3. desk.tabs[i].id \in 1 .. desk.nextId - 1
    BY <1>1 DEF Orderly
  <2> QED
    BY <2>2, <2>3 DEF Tab
<1>3. desk.live \in Document /\ desk.nextId \in Nat
  BY <1>1, Places
<1>4. \A i, j \in DOMAIN desk.tabs : desk.tabs[i].id = desk.tabs[j].id => i = j
  BY <1>1 DEF Orderly
<1>5. /\ phase \in {"closed", "waiting", "editing"}
      /\ pending.kind \in {"none", "close", "leave"} /\ asking \in BOOLEAN /\ naming \in BOOLEAN
      /\ unindexed \in BOOLEAN
  BY DEF TypeInvariant, SessionTyped
<1>6. entries \subseteq Copies /\ recoverable \subseteq Names /\ FolderOk(folder)
  BY DEF TypeInvariant, CopiesTyped, KnownCopies, FolderFinite
<1>7. files \in [Paths -> Nat \cup {NoFile}]
  BY DEF TypeInvariant, Filed
<1> QED
  BY <1>1, <1>2, <1>3, <1>4, <1>5, <1>6, <1>7 DEF TypeOK, Copies

\* The desk stays in order whatever opens, closes, moves, is saved or recovered: no two tabs have one
\* number, and the tab on screen is one of them (SceneTabs.cpp, EditorSession.cpp); what the autosave
\* keeps and writes keeps its type (Autosave.cpp).
THEOREM TypesAlways == Spec => []TypeInvariant
<1>1. Init => TypeInvariant
  BY TypesStart
<1>2. TypeInvariant /\ [Next]_vars => TypeInvariant'
  BY TypesStay
<1> QED
  BY <1>1, <1>2, PTL DEF Spec

\* Every variable keeps its type, for every set of files, every capacity of the histories and all bounds.
THEOREM TypeCorrect == Spec => []TypeOK
<1>1. TypeInvariant => TypeOK
  BY TypesHold
<1> QED
  BY <1>1, TypesAlways, PTL

-----------------------------------------------------------------------------
(* The tabs do what OpenDocuments says *)

\* An editor without a project is a desk of OpenDocuments with nothing on it.
LEMMA NothingShown == Tabbed(Closed) = OD!Nothing /\ Shown(Closed) = NoTab
<1>1. Ids(Closed) = {} /\ Closed.active = NoTab
  BY ClosedIsOrderly
<1> QED
  BY <1>1 DEF Tabbed, OD!Nothing, Shown

\* Every step is one of OpenDocuments, or leaves its variables alone.
LEMMA StepsArePromised ==
  ASSUME TypeInvariant, [Next]_vars
  PROVE  [OD!Next]_(OD!vars)
<1>1. DeskMoves
  BY StepMoves
<1>2. PICK new : new = desk'
  OBVIOUS
<1>3. Tabbed(desk)' = Tabbed(new) /\ Shown(desk)' = Shown(new)
  BY <1>2 DEF Tabbed, Shown, Ids, Held, At
<1>4. CASE desk' = desk
  BY <1>4 DEF OD!vars, Tabbed, Ids, Held, At
<1>5. CASE Edited(new, desk)
  <2>1. DOMAIN Tabbed(new) = DOMAIN Tabbed(desk) /\ DOMAIN Tabbed(desk) = Ids(desk)
    BY <1>5, LaidFacts, Places DEF Edited
  <2>2. Shown(new) = Shown(desk) /\ Shown(desk) # NoTab
    BY <1>5, LaidFacts DEF Edited, NoTab
  <2>3. \A id \in Ids(desk) \ {Shown(desk)} : Tabbed(new)[id] = Tabbed(desk)[id]
    BY <1>5 DEF Edited
  <2>4. OD!Edit
    BY <1>3, <2>1, <2>2, <2>3 DEF OD!Edit, Shown
  <2> QED
    BY <2>4 DEF OD!Next
<1>6. CASE Turned(new, desk)
  <2>1. /\ Orderly(desk) /\ Laid(new) /\ DOMAIN Tabbed(new) = Ids(new) /\ DOMAIN Tabbed(desk) = Ids(desk)
        /\ Shown(new) \in Ids(new)
    BY <1>6, LaidFacts, Places DEF Turned
  <2>2. \A id \in Ids(desk) \cap Ids(new) :
          Tabbed(new)[id] = Tabbed(desk)[id] \/ SavedAs(Tabbed(new)[id], Tabbed(desk)[id])
    <3>1. TAKE id \in Ids(desk) \cap Ids(new)
    <3> QED
      BY <1>6 DEF Turned
  <2>3. \A id \in Ids(new) \ Ids(desk) : \A known \in Ids(desk) : known < id
    <3>1. TAKE id \in Ids(new) \ Ids(desk)
    <3>2. TAKE known \in Ids(desk)
    <3>3. id >= desk.nextId /\ known \in 1 .. desk.nextId - 1 /\ desk.nextId \in Nat
      BY <1>6, <2>1, Places DEF Turned
    <3>4. id \in Nat
      BY <2>1, LaidFacts
    <3> QED
      BY <3>3, <3>4
  <2>4. OD!Turn
    BY <1>3, <2>1, <2>2, <2>3 DEF OD!Turn, Shown
  <2> QED
    BY <2>4 DEF OD!Next
<1>7. CASE desk' = Closed
  <2>1. Tabbed(new) = OD!Nothing /\ Shown(new) = NoTab
    BY <1>2, <1>7, NothingShown
  <2>2. OD!Leave
    BY <1>3, <2>1 DEF OD!Leave, Shown
  <2> QED
    BY <2>2 DEF OD!Next
<1> QED
  BY <1>1, <1>2, <1>4, <1>5, <1>6, <1>7 DEF DeskMoves

\* The tabs keep what OpenDocuments promises, although the documents change places at each switch
\* (SceneTabs::activate, close and move): a tab keeps its own document, and only the document on
\* screen is edited.
THEOREM KeepsThePromise == Spec => TabsAsPromised
<1>1. Init => OD!Init
  <2> SUFFICES ASSUME Init PROVE OD!Init
    OBVIOUS
  <2>1. desk = Closed
    BY DEF Init
  <2> QED
    BY <2>1, NothingShown DEF OD!Init, Shown
<1>2. TypeInvariant /\ [Next]_vars => [OD!Next]_(OD!vars)
  BY StepsArePromised
<1> QED
  BY <1>1, <1>2, TypesAlways, PTL DEF Spec, TabsAsPromised, OD!Spec

-----------------------------------------------------------------------------
(* The identifier of a state stands for a scene *)

\* The states an entry goes between: the one before it on the stack, and its own.
Before(h, i) == IF i = 1 THEN h.baseState ELSE h.done[i - 1].state

Under(h, i) == IF i = Len(h.undone) THEN stateId(h) ELSE h.undone[i + 1].state

\* Each state of a history stands for one scene, the present one among them.
StandsFor(L, h, scene) ==
  /\ L \in [Nat -> Nat] /\ L[stateId(h)] = scene /\ h.baseState <= h.lastState
  /\ \A i \in 1 .. Len(h.done) : /\ h.done[i].state <= h.lastState
                                 /\ L[h.done[i].state] = h.done[i].to /\ L[Before(h, i)] = h.done[i].from
  /\ \A i \in 1 .. Len(h.undone) : /\ h.undone[i].state <= h.lastState
                                   /\ L[h.undone[i].state] = h.undone[i].to /\ L[Under(h, i)] = h.undone[i].from

\* The parts of a history, gathered for what follows.
LEMMA HistoryParts ==
  ASSUME NEW h \in Histories
  PROVE  /\ h.done \in Seq(Entries) /\ h.undone \in Seq(Entries) /\ h.baseState \in Nat /\ h.lastState \in Nat
         /\ Len(h.done) \in Nat /\ Len(h.undone) \in Nat
         /\ \A i \in 1 .. Len(h.done) : h.done[i] \in Entries
         /\ \A i \in 1 .. Len(h.undone) : h.undone[i] \in Entries
         /\ h.done = <<>> <=> Len(h.done) = 0
         /\ h.undone = <<>> <=> Len(h.undone) = 0
         /\ stateId(h) = IF Len(h.done) = 0 THEN h.baseState ELSE h.done[Len(h.done)].state
         /\ stateId(h) \in Nat
<1>1. h.done \in Seq(Entries) /\ h.undone \in Seq(Entries) /\ h.baseState \in Nat /\ h.lastState \in Nat
  BY DEF Histories
<1>2. Len(h.done) \in Nat /\ \A i \in 1 .. Len(h.done) : h.done[i] \in Entries
  BY <1>1, LenProperties, ElementOfSeq
<1>3. Len(h.undone) \in Nat /\ \A i \in 1 .. Len(h.undone) : h.undone[i] \in Entries
  BY <1>1, LenProperties, ElementOfSeq
<1>4. (h.done = <<>> <=> Len(h.done) = 0) /\ (h.undone = <<>> <=> Len(h.undone) = 0)
  BY <1>1, EmptySeq
<1>5. h.done # <<>> => Last(h.done) = h.done[Len(h.done)]
  BY <1>1, FrontAndLast
<1>6. stateId(h) = IF Len(h.done) = 0 THEN h.baseState ELSE h.done[Len(h.done)].state
  BY <1>4, <1>5 DEF stateId
<1>7. Len(h.done) # 0 => h.done[Len(h.done)] \in Entries
  BY <1>2
<1>8. stateId(h) \in Nat
  BY <1>1, <1>6, <1>7 DEF Entries
<1> QED
  BY <1>1, <1>2, <1>3, <1>4, <1>6, <1>8

\* No state has a number above the last one.
LEMMA StatesAreOld ==
  ASSUME NEW h \in Histories, NEW L, NEW scene, StandsFor(L, h, scene)
  PROVE  /\ stateId(h) <= h.lastState
         /\ \A i \in 1 .. Len(h.done) : Before(h, i) \in Nat /\ Before(h, i) <= h.lastState
<1>1. /\ h.baseState <= h.lastState
      /\ \A i \in 1 .. Len(h.done) : h.done[i].state <= h.lastState
  BY DEF StandsFor
<1>2. /\ Len(h.done) \in Nat /\ h.baseState \in Nat
      /\ \A i \in 1 .. Len(h.done) : h.done[i].state \in Nat
  BY HistoryParts DEF Entries
<1>3. stateId(h) = IF Len(h.done) = 0 THEN h.baseState ELSE h.done[Len(h.done)].state
  BY HistoryParts
<1>4. ASSUME NEW i \in 1 .. Len(h.done) PROVE Before(h, i) \in Nat /\ Before(h, i) <= h.lastState
  <2>1. CASE i = 1
    BY <1>1, <1>2, <2>1 DEF Before
  <2>2. CASE i # 1
    <3>1. i - 1 \in 1 .. Len(h.done)
      BY <1>2, <2>2
    <3> QED
      BY <1>1, <1>2, <2>2, <3>1 DEF Before
  <2> QED
    BY <2>1, <2>2
<1> QED
  BY <1>1, <1>2, <1>3, <1>4

\* In a new history every state stands for the scene it was opened with.
LEMMA NewStandsFor ==
  ASSUME NEW scene \in Nat
  PROVE  StandsFor([n \in Nat |-> scene], NewHistory, scene)
<1>1. NewHistory \in Histories /\ Len(NewHistory.done) = 0 /\ Len(NewHistory.undone) = 0
  BY BlankTypes DEF NewHistory
<1>2. stateId(NewHistory) = 0 /\ NewHistory.baseState <= NewHistory.lastState
  BY DEF stateId, NewHistory
<1>3. 1 .. Len(NewHistory.done) = {} /\ 1 .. Len(NewHistory.undone) = {}
  BY <1>1
<1> QED
  BY <1>2, <1>3 DEF StandsFor

Standing(L, state, scene) == [L EXCEPT ![state] = scene]

\* A command recorded makes a state of its own, for the scene it leads to.
LEMMA RecordStandsFor ==
  ASSUME NEW h \in Histories, NEW L, NEW from \in Nat, StandsFor(L, h, from), NEW to \in Nat,
         NEW new, new = recordApplied(h, from, to), NEW M, M = Standing(L, h.lastState + 1, to)
  PROVE  StandsFor(M, new, to) /\ new.lastState = h.lastState + 1
<1> DEFINE n == Len(h.done)
           entry == [from |-> from, to |-> to, state |-> h.lastState + 1]
           a == Append(h.done, entry)
<1>1. /\ h.done \in Seq(Entries) /\ n \in Nat /\ h.baseState \in Nat /\ h.lastState \in Nat
      /\ \A i \in 1 .. n : h.done[i] \in Entries
  BY HistoryParts
<1>2. entry \in Entries /\ entry.from = from /\ entry.to = to /\ entry.state = h.lastState + 1
  BY <1>1 DEF Entries
<1> HIDE DEF entry
<1>3. /\ a \in Seq(Entries) /\ a # <<>> /\ Len(a) = n + 1
      /\ \A i \in 1 .. n : a[i] = h.done[i]
      /\ a[n + 1] = entry
  BY <1>1, <1>2, AppendProperties
<1> DEFINE over == n + 1 > Capacity
           kept == IF over THEN Tail(a) ELSE a
           base == IF over THEN Head(a).state ELSE h.baseState
<1>4. new = [h EXCEPT !.undone = <<>>, !.lastState = h.lastState + 1, !.done = kept, !.baseState = base]
  BY <1>3 DEF recordApplied, entry
<1> HIDE DEF a
<1>5. /\ new.undone = <<>> /\ new.lastState = h.lastState + 1 /\ new.done = kept /\ new.baseState = base
      /\ new \in Histories
  <2>1. new \in Histories
    BY HistoryTypes
  <2>2. h = [done |-> h.done, undone |-> h.undone, baseState |-> h.baseState, lastState |-> h.lastState]
    BY DEF Histories
  <2> HIDE DEF kept, base
  <2> QED
    BY <1>4, <2>1, <2>2
<1>6. over => n >= 1
  BY <1>1, CapacityAssumption
<1>7. L \in [Nat -> Nat] /\ M \in [Nat -> Nat] /\ M[h.lastState + 1] = to
      /\ \A s \in Nat : s <= h.lastState => M[s] = L[s]
  <2> DEFINE top == h.lastState + 1
  <2>1. L \in [Nat -> Nat] /\ top \in Nat
    <3>1. L \in [Nat -> Nat]
      BY DEF StandsFor
    <3>2. top \in Nat
      BY <1>1
    <3> QED
      BY <3>1, <3>2
  <2>2. M = [L EXCEPT ![top] = to]
    BY DEF Standing
  <2>3. \A s \in Nat : s <= h.lastState => s # top
    BY <1>1
  <2> HIDE DEF top
  <2>4. M \in [Nat -> Nat] /\ M[top] = to /\ \A s \in Nat : s # top => M[s] = L[s]
    BY <2>1, <2>2
  <2> QED
    BY <2>1, <2>3, <2>4 DEF top
<1>8. \A i \in 1 .. n : /\ h.done[i].state \in Nat /\ h.done[i].state <= h.lastState
                        /\ Before(h, i) \in Nat /\ Before(h, i) <= h.lastState
                        /\ L[h.done[i].state] = h.done[i].to /\ L[Before(h, i)] = h.done[i].from
  BY <1>1, StatesAreOld DEF StandsFor, Entries
<1>9. stateId(h) \in Nat /\ stateId(h) <= h.lastState /\ L[stateId(h)] = from
      /\ stateId(h) = IF n = 0 THEN h.baseState ELSE h.done[n].state
  BY HistoryParts, StatesAreOld DEF StandsFor
\* The line of the states: entry i leads from LineAt(i) to the state of a[i].
<1> DEFINE LineAt(i) == IF i = 1 THEN h.baseState ELSE a[i - 1].state
<1>10. ASSUME NEW i \in 1 .. n + 1
       PROVE  /\ a[i].state \in Nat /\ a[i].state <= h.lastState + 1
              /\ M[a[i].state] = a[i].to /\ M[LineAt(i)] = a[i].from
  <2>1. CASE i = n + 1
    <3>1. LineAt(i) = stateId(h)
      <4>1. CASE n = 0
        BY <1>9, <2>1, <4>1
      <4>2. CASE n # 0
        <5>1. n \in 1 .. n /\ i # 1 /\ i - 1 = n
          BY <1>1, <2>1, <4>2
        <5> QED
          BY <1>3, <1>9, <4>2, <5>1
      <4> QED
        BY <4>1, <4>2
    <3>2. a[i] = entry
      BY <1>3, <2>1
    <3>3. M[LineAt(i)] = from
      <4> HIDE DEF LineAt
      <4> QED
        BY <1>7, <1>9, <3>1
    <3>4. M[entry.state] = entry.to /\ entry.state \in Nat /\ entry.state <= h.lastState + 1
      <4>1. entry.state = h.lastState + 1 /\ entry.to = to
        BY <1>2
      <4>2. h.lastState + 1 \in Nat /\ h.lastState + 1 <= h.lastState + 1
        BY <1>1
      <4>3. M[h.lastState + 1] = to
        BY <1>7
      <4> QED
        BY <4>1, <4>2, <4>3
    <3> HIDE DEF LineAt
    <3> QED
      BY <1>2, <3>2, <3>3, <3>4
  <2>2. CASE i \in 1 .. n
    <3>1. a[i] = h.done[i]
      BY <1>3, <2>2
    <3>2. LineAt(i) = Before(h, i)
      <4>1. CASE i = 1
        BY <4>1 DEF Before
      <4>2. CASE i # 1
        <5>1. i - 1 \in 1 .. n
          BY <1>1, <2>2, <4>2
        <5> QED
          BY <1>3, <4>2, <5>1 DEF Before
      <4> QED
        BY <4>1, <4>2
    <3>3. /\ h.done[i].state \in Nat /\ h.done[i].state <= h.lastState
          /\ Before(h, i) \in Nat /\ Before(h, i) <= h.lastState
          /\ L[h.done[i].state] = h.done[i].to /\ L[Before(h, i)] = h.done[i].from
      BY <1>8, <2>2
    <3> HIDE DEF LineAt
    <3>4. M[LineAt(i)] = h.done[i].from /\ M[h.done[i].state] = h.done[i].to
      BY <1>7, <3>2, <3>3
    <3>5. h.done[i].state <= h.lastState + 1
      BY <1>1, <3>3
    <3> QED
      BY <3>1, <3>3, <3>4, <3>5
  <2> QED
    BY <1>1, <2>1, <2>2
<1>11. /\ \A i \in 1 .. Len(kept) : /\ kept[i].state <= h.lastState + 1
                                    /\ M[kept[i].state] = kept[i].to /\ M[Before(new, i)] = kept[i].from
       /\ base <= h.lastState + 1 /\ Len(kept) \in Nat \ {0} /\ kept[Len(kept)] = entry
  <2>1. CASE ~over
    <3>1. kept = a /\ base = h.baseState /\ Len(kept) = n + 1
      BY <1>3, <2>1
    <3>2. \A i \in 1 .. n + 1 : Before(new, i) = LineAt(i)
      BY <1>5, <3>1 DEF Before
    <3>3. base <= h.lastState + 1
      <4>1. h.baseState <= h.lastState
        BY DEF StandsFor
      <4> HIDE DEF base
      <4> QED
        BY <1>1, <3>1, <4>1
    <3> HIDE DEF LineAt, kept, base, over
    <3> QED
      BY <1>1, <1>3, <1>10, <3>1, <3>2, <3>3
  <2>2. CASE over
    <3>1. kept = Tail(a) /\ base = Head(a).state
      BY <2>2
    <3>2. Len(Tail(a)) = Len(a) - 1 /\ Head(a) = a[1] /\ \A i \in 1 .. Len(Tail(a)) : Tail(a)[i] = a[i + 1]
      BY <1>3, HeadTailProperties
    <3>3. Len(kept) = n /\ base = a[1].state /\ \A i \in 1 .. n : kept[i] = a[i + 1]
      BY <1>1, <1>3, <3>1, <3>2
    <3> HIDE DEF kept, base, over
    <3>4. ASSUME NEW i \in 1 .. n
          PROVE  kept[i].state <= h.lastState + 1 /\ M[kept[i].state] = kept[i].to /\ M[Before(new, i)] = kept[i].from
      <4>1. i + 1 \in 1 .. n + 1 /\ i + 1 # 1 /\ i + 1 - 1 = i
        BY <1>1
      <4>2. LineAt(i + 1) = a[i].state
        BY <4>1
      <4>3. Before(new, i) = a[i].state
        <5>1. CASE i = 1
          BY <1>5, <3>3, <5>1 DEF Before
        <5>2. CASE i # 1
          <6>1. i - 1 \in 1 .. n /\ i - 1 + 1 = i
            BY <1>1, <5>2
          <6> QED
            BY <1>5, <3>3, <5>2, <6>1 DEF Before
        <5> QED
          BY <5>1, <5>2
      <4>4. /\ a[i + 1].state <= h.lastState + 1
            /\ M[a[i + 1].state] = a[i + 1].to /\ M[LineAt(i + 1)] = a[i + 1].from
        BY <1>10, <4>1
      <4> QED
        BY <3>3, <4>2, <4>3, <4>4
    <3>5. 1 \in 1 .. n + 1 /\ n \in 1 .. n
      BY <1>1, <1>6, <2>2
    <3>6. base <= h.lastState + 1
      BY <1>10, <3>3, <3>5
    <3> QED
      BY <1>1, <1>3, <3>3, <3>4, <3>5, <3>6
  <2> QED
    BY <2>1, <2>2
<1>12. stateId(new) = h.lastState + 1
  <2> HIDE DEF kept, base
  <2>1. stateId(new) = IF Len(new.done) = 0 THEN new.baseState ELSE new.done[Len(new.done)].state
    BY <1>5, HistoryParts
  <2> QED
    BY <1>2, <1>5, <1>11, <2>1
<1>13. 1 .. Len(new.undone) = {}
  BY <1>5
<1> HIDE DEF kept, base
<1> QED
  BY <1>5, <1>7, <1>11, <1>12, <1>13 DEF StandsFor

\* What is recorded on any history stands for what the one before it did, and for the scene it leads to.
LEMMA RecordsState ==
  ASSUME NEW h \in Histories, NEW L, NEW from \in Nat, StandsFor(L, h, from), NEW to \in Nat
  PROVE  \E M : /\ StandsFor(M, recordApplied(h, from, to), to)
                /\ recordApplied(h, from, to).lastState = h.lastState + 1
                /\ \A s \in Nat : s <= h.lastState => M[s] = L[s]
<1> DEFINE new == recordApplied(h, from, to)
           M == Standing(L, h.lastState + 1, to)
<1>1. new = recordApplied(h, from, to) /\ M = Standing(L, h.lastState + 1, to)
  OBVIOUS
<1>2. h.lastState \in Nat /\ L \in [Nat -> Nat]
  BY HistoryParts DEF StandsFor
<1>3. \A s \in Nat : s <= h.lastState => M[s] = L[s]
  BY <1>2 DEF Standing
<1> HIDE DEF new, M
<1>4. StandsFor(M, new, to) /\ new.lastState = h.lastState + 1
  BY <1>1, RecordStandsFor
<1> QED
  BY <1>3, <1>4 DEF new

\* A command undone leads back to the scene the state before it stands for.
LEMMA UndoStandsFor ==
  ASSUME NEW h \in Histories, NEW L, NEW scene, StandsFor(L, h, scene), canUndo(h), NEW new, new = undo(h)
  PROVE  StandsFor(L, new, Last(h.done).from) /\ new.lastState = h.lastState
<1> DEFINE n == Len(h.done)
           m == Len(h.undone)
           e == h.done[n]
           a == Front(h.done)
           b == Append(h.undone, e)
<1>1. /\ h.done \in Seq(Entries) /\ h.undone \in Seq(Entries) /\ n \in Nat \ {0} /\ m \in Nat /\ h.done # <<>>
  BY HistoryParts DEF canUndo
<1>2. e \in Entries /\ n \in 1 .. n
  BY <1>1, HistoryParts
<1>3. Last(h.done) = e /\ Len(a) = n - 1 /\ \A i \in 1 .. n - 1 : a[i] = h.done[i]
  BY <1>1, FrontAndLast
<1>4. Len(b) = m + 1 /\ b[m + 1] = e /\ \A i \in 1 .. m : b[i] = h.undone[i]
  BY <1>1, <1>2, AppendProperties
<1>5. /\ new.done = a /\ new.undone = b /\ new.baseState = h.baseState /\ new.lastState = h.lastState
      /\ new \in Histories
  <2>1. new \in Histories
    BY HistoryTypes
  <2>2. h = [done |-> h.done, undone |-> h.undone, baseState |-> h.baseState, lastState |-> h.lastState]
    BY DEF Histories
  <2>3. new = [h EXCEPT !.done = a, !.undone = b]
    BY <1>3 DEF undo
  <2> HIDE DEF a, b
  <2> QED
    BY <2>1, <2>2, <2>3
<1> HIDE DEF a, b
<1>6. L \in [Nat -> Nat] /\ h.baseState <= h.lastState
  BY DEF StandsFor
<1>7. \A i \in 1 .. n : /\ h.done[i].state <= h.lastState
                        /\ L[h.done[i].state] = h.done[i].to /\ L[Before(h, i)] = h.done[i].from
  BY DEF StandsFor
<1>8. \A i \in 1 .. m : /\ h.undone[i].state <= h.lastState
                        /\ L[h.undone[i].state] = h.undone[i].to /\ L[Under(h, i)] = h.undone[i].from
  BY DEF StandsFor
<1>9. stateId(h) = e.state
  BY <1>1, HistoryParts
<1>10. stateId(new) = Before(h, n)
  <2>1. stateId(new) = IF n - 1 = 0 THEN h.baseState ELSE a[n - 1].state
    BY <1>3, <1>5, HistoryParts
  <2>2. CASE n = 1
    BY <2>1, <2>2 DEF Before
  <2>3. CASE n # 1
    <3> HIDE DEF n
    <3>1. n - 1 \in 1 .. n - 1
      BY <1>1, <2>3
    <3> QED
      BY <1>1, <1>3, <2>1, <2>3, <3>1 DEF Before
  <2> QED
    BY <2>2, <2>3
<1>11. L[stateId(new)] = e.from
  BY <1>2, <1>7, <1>10
<1>12. ASSUME NEW i \in 1 .. n - 1
       PROVE  a[i].state <= h.lastState /\ L[a[i].state] = a[i].to /\ L[Before(new, i)] = a[i].from
  <2>1. a[i] = h.done[i] /\ i \in 1 .. n
    BY <1>1, <1>3
  <2>2. Before(new, i) = Before(h, i)
    <3>1. CASE i = 1
      BY <1>5, <3>1 DEF Before
    <3>2. CASE i # 1
      <4>1. i - 1 \in 1 .. n - 1
        BY <1>1, <3>2
      <4> QED
        BY <1>3, <1>5, <3>2, <4>1 DEF Before
    <3> QED
      BY <3>1, <3>2
  <2> QED
    BY <1>7, <2>1, <2>2
<1>13. ASSUME NEW i \in 1 .. m + 1
       PROVE  b[i].state <= h.lastState /\ L[b[i].state] = b[i].to /\ L[Under(new, i)] = b[i].from
  <2>1. CASE i = m + 1
    <3>1. Under(new, i) = stateId(new)
      BY <1>4, <1>5, <2>1 DEF Under
    <3> QED
      BY <1>2, <1>4, <1>7, <1>11, <2>1, <3>1
  <2>2. CASE i \in 1 .. m
    <3>1. b[i] = h.undone[i] /\ i # m + 1 /\ i + 1 \in 1 .. m + 1
      BY <1>1, <1>4, <2>2
    <3>2. Under(new, i) = b[i + 1].state
      BY <1>4, <1>5, <3>1 DEF Under
    <3>3. b[i + 1].state = Under(h, i)
      <4>1. CASE i = m
        BY <1>4, <1>9, <4>1 DEF Under
      <4>2. CASE i # m
        <5>1. i + 1 \in 1 .. m
          BY <1>1, <2>2, <4>2
        <5> QED
          BY <1>4, <4>2, <5>1 DEF Under
      <4> QED
        BY <4>1, <4>2
    <3> QED
      BY <1>8, <2>2, <3>1, <3>2, <3>3
  <2> QED
    BY <1>1, <2>1, <2>2
<1> HIDE DEF n, m, e
<1> QED
  BY <1>3, <1>4, <1>5, <1>6, <1>11, <1>12, <1>13 DEF StandsFor

\* A command redone leads to the scene its state stands for.
LEMMA RedoStandsFor ==
  ASSUME NEW h \in Histories, NEW L, NEW scene, StandsFor(L, h, scene), canRedo(h), NEW new, new = redo(h)
  PROVE  StandsFor(L, new, Last(h.undone).to) /\ new.lastState = h.lastState
<1> DEFINE n == Len(h.done)
           m == Len(h.undone)
           e == h.undone[m]
           a == Append(h.done, e)
           b == Front(h.undone)
<1>1. /\ h.done \in Seq(Entries) /\ h.undone \in Seq(Entries) /\ n \in Nat /\ m \in Nat \ {0} /\ h.undone # <<>>
  BY HistoryParts DEF canRedo
<1>2. e \in Entries /\ m \in 1 .. m
  BY <1>1, HistoryParts
<1>3. Last(h.undone) = e /\ Len(b) = m - 1 /\ \A i \in 1 .. m - 1 : b[i] = h.undone[i]
  BY <1>1, FrontAndLast
<1>4. Len(a) = n + 1 /\ a[n + 1] = e /\ \A i \in 1 .. n : a[i] = h.done[i]
  BY <1>1, <1>2, AppendProperties
<1>5. /\ new.done = a /\ new.undone = b /\ new.baseState = h.baseState /\ new.lastState = h.lastState
      /\ new \in Histories
  <2>1. new \in Histories
    BY HistoryTypes
  <2>2. h = [done |-> h.done, undone |-> h.undone, baseState |-> h.baseState, lastState |-> h.lastState]
    BY DEF Histories
  <2>3. new = [h EXCEPT !.undone = b, !.done = a]
    BY <1>3 DEF redo
  <2> HIDE DEF a, b
  <2> QED
    BY <2>1, <2>2, <2>3
<1> HIDE DEF a, b
<1>6. L \in [Nat -> Nat] /\ h.baseState <= h.lastState
  BY DEF StandsFor
<1>7. \A i \in 1 .. n : /\ h.done[i].state <= h.lastState
                        /\ L[h.done[i].state] = h.done[i].to /\ L[Before(h, i)] = h.done[i].from
  BY DEF StandsFor
<1>8. \A i \in 1 .. m : /\ h.undone[i].state <= h.lastState
                        /\ L[h.undone[i].state] = h.undone[i].to /\ L[Under(h, i)] = h.undone[i].from
  BY DEF StandsFor
<1>9. stateId(h) = IF n = 0 THEN h.baseState ELSE h.done[n].state
  BY HistoryParts
<1>10. stateId(new) = e.state
  BY <1>1, <1>4, <1>5, HistoryParts
<1>11. L[stateId(new)] = e.to
  BY <1>2, <1>8, <1>10
<1>12. ASSUME NEW i \in 1 .. n + 1
       PROVE  a[i].state <= h.lastState /\ L[a[i].state] = a[i].to /\ L[Before(new, i)] = a[i].from
  <2>1. CASE i = n + 1
    <3>1. Before(new, i) = stateId(h)
      <4>1. CASE n = 0
        BY <1>5, <1>9, <2>1, <4>1 DEF Before
      <4>2. CASE n # 0
        <5>1. n \in 1 .. n /\ i # 1 /\ i - 1 = n
          BY <1>1, <2>1, <4>2
        <5> QED
          BY <1>4, <1>5, <1>9, <4>2, <5>1 DEF Before
      <4> QED
        BY <4>1, <4>2
    <3>2. Under(h, m) = stateId(h)
      BY DEF Under
    <3> QED
      BY <1>2, <1>4, <1>8, <2>1, <3>1, <3>2
  <2>2. CASE i \in 1 .. n
    <3>1. a[i] = h.done[i]
      BY <1>4, <2>2
    <3>2. Before(new, i) = Before(h, i)
      <4>1. CASE i = 1
        BY <1>5, <4>1 DEF Before
      <4>2. CASE i # 1
        <5>1. i - 1 \in 1 .. n
          BY <1>1, <2>2, <4>2
        <5> QED
          BY <1>4, <1>5, <4>2, <5>1 DEF Before
      <4> QED
        BY <4>1, <4>2
    <3> QED
      BY <1>7, <2>2, <3>1, <3>2
  <2> QED
    BY <1>1, <2>1, <2>2
<1>13. ASSUME NEW i \in 1 .. m - 1
       PROVE  b[i].state <= h.lastState /\ L[b[i].state] = b[i].to /\ L[Under(new, i)] = b[i].from
  <2>1. b[i] = h.undone[i] /\ i \in 1 .. m /\ i # m
    BY <1>1, <1>3
  <2>2. Under(new, i) = h.undone[i + 1].state
    <3>1. CASE i = m - 1
      <4>1. Under(new, i) = stateId(new) /\ i + 1 = m
        BY <1>1, <1>3, <1>5, <3>1 DEF Under
      <4> QED
        BY <1>10, <4>1
    <3>2. CASE i # m - 1
      <4>1. i + 1 \in 1 .. m - 1
        BY <1>1, <3>2
      <4> QED
        BY <1>3, <1>5, <3>2, <4>1 DEF Under
    <3> QED
      BY <3>1, <3>2
  <2>3. Under(h, i) = h.undone[i + 1].state
    BY <2>1 DEF Under
  <2> QED
    BY <1>8, <2>1, <2>2, <2>3
<1> HIDE DEF n, m, e
<1> QED
  BY <1>3, <1>4, <1>5, <1>6, <1>11, <1>12, <1>13 DEF StandsFor

-----------------------------------------------------------------------------
(* The tabs without unsaved changes hold the scenes of their files *)

\* The saved state of a document stands for the scene of its file, which a recovered one is not saved in.
Kept(d, fs) ==
  \E L : /\ StandsFor(L, d.history, d.scene)
         /\ d.path # NoPath /\ d.savedState # NeverSaved
              => d.savedState <= d.history.lastState /\ L[d.savedState] = fs[d.path]

AllKept(k, fs) == \A id \in Ids(k) : Kept(Tabbed(k)[id], fs)

\* Documents that are opened, recovered or new are kept as the invariant says.
LEMMA OpenedAreKept ==
  ASSUME Filed
  PROVE  /\ \A d \in OpenedAs : Kept(d, files)
         /\ \A d \in RecoveredAs : \A fs : Kept(d, fs)
         /\ \A fs : Kept(Blank, fs)
<1>1. ASSUME NEW d \in Document, d.history = NewHistory, NEW fs,
             d.path # NoPath /\ d.savedState # NeverSaved => d.savedState = 0 /\ d.scene = fs[d.path]
      PROVE  Kept(d, fs)
  <2>1. d.scene \in Nat /\ NewHistory.lastState = 0
    BY DEF Document, NewHistory
  <2> DEFINE L == [n \in Nat |-> d.scene]
  <2>2. StandsFor(L, d.history, d.scene)
    BY <1>1, <2>1, NewStandsFor
  <2>3. L[0] = d.scene
    OBVIOUS
  <2> HIDE DEF L
  <2>4. d.path # NoPath /\ d.savedState # NeverSaved
              => d.savedState <= d.history.lastState /\ L[d.savedState] = fs[d.path]
    BY <1>1, <2>1, <2>3
  <2> QED
    BY <2>2, <2>4 DEF Kept
<1>2. \A d \in OpenedAs : Kept(d, files)
  BY <1>1 DEF OpenedAs
<1>3. \A d \in RecoveredAs : \A fs : Kept(d, fs)
  BY <1>1 DEF RecoveredAs
<1>4. \A fs : Kept(Blank, fs)
  BY <1>1, BlankTypes DEF Blank, document
<1> QED
  BY <1>2, <1>3, <1>4

\* A document stays kept when the file it shows does not change, and when it is saved in its file.
LEMMA SavedIsKept ==
  ASSUME NEW d \in Document, NEW fs, NEW new, Kept(d, fs)
  PROVE  /\ d.path = NoPath \/ new[d.path] = fs[d.path] => Kept(d, new)
         /\ d.path = NoPath \/ new[d.path] = d.scene => Kept(SaveTab(d), new)
<1>1. PICK L : /\ StandsFor(L, d.history, d.scene)
               /\ d.path # NoPath /\ d.savedState # NeverSaved
                    => d.savedState <= d.history.lastState /\ L[d.savedState] = fs[d.path]
  BY DEF Kept
<1>2. ASSUME d.path = NoPath \/ new[d.path] = fs[d.path] PROVE Kept(d, new)
  BY <1>1, <1>2 DEF Kept
<1>3. ASSUME d.path = NoPath \/ new[d.path] = d.scene PROVE Kept(SaveTab(d), new)
  <2> DEFINE s == SaveTab(d)
  <2>1. s.path = d.path /\ s.scene = d.scene /\ s.history = d.history /\ s.savedState = stateId(d.history)
    BY DEF SaveTab, Document
  <2>2. d.history \in Histories
    BY DEF Document
  <2>3. stateId(d.history) <= d.history.lastState
    BY <1>1, <2>2, StatesAreOld
  <2>4. L[stateId(d.history)] = d.scene
    BY <1>1 DEF StandsFor
  <2> HIDE DEF s
  <2>5. StandsFor(L, s.history, s.scene)
    BY <1>1, <2>1
  <2>6. s.path # NoPath => s.savedState <= s.history.lastState /\ L[s.savedState] = new[s.path]
    BY <1>3, <2>1, <2>3, <2>4
  <2>7. Kept(s, new)
    BY <2>5, <2>6 DEF Kept
  <2> QED
    BY <2>7 DEF s
<1> QED
  BY <1>2, <1>3

\* An edit, an undo and a redo keep a document.
LEMMA EditedIsKept ==
  ASSUME NEW d \in Document, NEW fs, Kept(d, fs), NEW new \in Document,
         new.path = d.path, new.savedState = d.savedState,
         \/ \E to \in Nat : new.scene = to /\ new.history = recordApplied(d.history, d.scene, to)
         \/ canUndo(d.history) /\ new.scene = Last(d.history.done).from /\ new.history = undo(d.history)
         \/ canRedo(d.history) /\ new.scene = Last(d.history.undone).to /\ new.history = redo(d.history)
  PROVE  Kept(new, fs)
<1>1. PICK L : /\ StandsFor(L, d.history, d.scene)
               /\ d.path # NoPath /\ d.savedState # NeverSaved
                    => d.savedState <= d.history.lastState /\ L[d.savedState] = fs[d.path]
  BY DEF Kept
<1>2. d.history \in Histories /\ d.scene \in Nat /\ d.savedState \in Nat \cup {NeverSaved}
  BY DEF Document
<1>3. ASSUME StandsFor(L, new.history, new.scene), new.history.lastState = d.history.lastState PROVE Kept(new, fs)
  BY <1>1, <1>3 DEF Kept
<1>4. CASE \E to \in Nat : new.scene = to /\ new.history = recordApplied(d.history, d.scene, to)
  <2>1. PICK to \in Nat : new.scene = to /\ new.history = recordApplied(d.history, d.scene, to)
    BY <1>4
  <2>2. PICK top \in Nat : top = d.history.lastState + 1
    BY <1>2, HistoryParts
  <2>3. StandsFor(L, d.history, d.scene)
    BY <1>1
  <2>4. PICK M : /\ StandsFor(M, new.history, to) /\ new.history.lastState = top
                 /\ \A s \in Nat : s <= d.history.lastState => M[s] = L[s]
    BY <1>2, <2>1, <2>2, <2>3, RecordsState
  <2>5. ASSUME d.path # NoPath, d.savedState # NeverSaved
        PROVE  d.savedState <= top /\ M[d.savedState] = fs[d.path]
    <3>1. d.savedState \in Nat /\ d.savedState <= d.history.lastState /\ L[d.savedState] = fs[d.path]
      BY <1>1, <1>2, <2>5
    <3>2. d.savedState <= top
      BY <1>2, <2>2, <3>1, HistoryParts
    <3> QED
      BY <2>4, <3>1, <3>2
  <2> QED
    BY <2>1, <2>4, <2>5 DEF Kept
<1>5. CASE canUndo(d.history) /\ new.scene = Last(d.history.done).from /\ new.history = undo(d.history)
  BY <1>1, <1>2, <1>3, <1>5, UndoStandsFor
<1>6. CASE canRedo(d.history) /\ new.scene = Last(d.history.undone).to /\ new.history = redo(d.history)
  BY <1>1, <1>2, <1>3, <1>6, RedoStandsFor
<1> QED
  BY <1>4, <1>5, <1>6

\* So are those of a desk that follows another, when the new ones are.
LEMMA FollowingKeeps ==
  ASSUME NEW k, NEW new, NEW S, Follows(new, k, S), NEW fs, AllKept(k, fs), \A d \in S : Kept(d, fs)
  PROVE  AllKept(new, fs)
BY DEF Follows, AllKept

\* A new scene has no file to share.
LEMMA BlankStaysApart ==
  ASSUME NEW k, NEW new, Follows(new, k, {Blank}), PathsApart(k)
  PROVE  PathsApart(new)
<1>1. SUFFICES ASSUME NEW a \in Ids(new), NEW b \in Ids(new),
                      Tabbed(new)[a].path = Tabbed(new)[b].path, Tabbed(new)[a].path # NoPath
               PROVE  a = b
  BY DEF PathsApart
<1>2. \A id \in Ids(new) : Tabbed(new)[id].path # NoPath => id \in Ids(k) /\ Tabbed(new)[id] = Tabbed(k)[id]
  BY BlankTypes DEF Follows
<1> QED
  BY <1>1, <1>2 DEF PathsApart

\* Tabs are saved in their files, no two in one.
LEMMA SavingKeeps ==
  ASSUME NEW k, Laid(k), PathsApart(k), AllKept(k, files), NEW is \in SUBSET DOMAIN k.tabs,
         NEW new, new = SaveTabs(k, is)
  PROVE  PathsApart(new) /\ AllKept(new, FilesWith(k, is))
<1> DEFINE fs == FilesWith(k, is)
<1>1. Orderly(k)
  BY LaidFacts
<1>2. /\ Ids(new) = Ids(k)
      /\ \A id \in Ids(k) : Tabbed(new)[id] = IF At(k, id) \in is THEN SaveTab(Tabbed(k)[id]) ELSE Tabbed(k)[id]
  BY SavingTurns
<1>3. \A id \in Ids(k) : Tabbed(k)[id] \in Document
  BY <1>1, Places
<1>4. \A id \in Ids(k) : Tabbed(new)[id].path = Tabbed(k)[id].path
  <2>1. TAKE id \in Ids(k)
  <2>2. SaveTab(Tabbed(k)[id]).path = Tabbed(k)[id].path
    BY <1>3 DEF SaveTab, Document
  <2> QED
    BY <1>2, <2>2
<1>5. PathsApart(new)
  BY <1>2, <1>4 DEF PathsApart
<1>6. ASSUME NEW id \in Ids(k) PROVE Kept(Tabbed(new)[id], fs)
  <2> DEFINE d == Tabbed(k)[id]
             i == At(k, id)
  <2>1. d \in Document /\ Kept(d, files) /\ i \in DOMAIN k.tabs /\ k.tabs[i].id = id /\ d = Held(k, i)
    BY <1>1, <1>3, Places DEF AllKept
  <2>2. ASSUME NEW j \in is, Held(k, j).path = d.path, d.path # NoPath PROVE j = i
    <3>1. k.tabs[j].id \in Ids(k) /\ At(k, k.tabs[j].id) = j /\ Tabbed(k)[k.tabs[j].id] = Held(k, j)
      BY <1>1, Places
    <3>2. k.tabs[j].id = id
      BY <2>2, <3>1 DEF PathsApart
    <3> QED
      BY <3>1, <3>2
  <2>3. ASSUME d.path # NoPath
        PROVE  \/ (\A j \in is : Held(k, j).path # d.path) /\ fs[d.path] = files[d.path]
               \/ \E j \in is : Held(k, j).path = d.path /\ fs[d.path] = Held(k, j).scene
    <3>1. d.path \in Paths
      BY <2>1, <2>3 DEF Document
    <3>2. PICK p \in Paths : p = d.path
      BY <3>1
    <3>3. \/ (\A j \in is : Held(k, j).path # p) /\ fs[p] = files[p]
          \/ \E j \in is : Held(k, j).path = p /\ fs[p] = Held(k, j).scene
      BY <1>1, FilesAre
    <3> QED
      BY <3>2, <3>3
  <2> HIDE DEF fs, d, i
  <2>4. CASE i \in is
    <3>1. d.path = NoPath \/ fs[d.path] = d.scene
      BY <2>1, <2>2, <2>3, <2>4
    <3>2. Kept(SaveTab(d), fs)
      BY <2>1, <3>1, SavedIsKept
    <3> QED
      BY <1>2, <2>4, <3>2 DEF d, i
  <2>5. CASE i \notin is
    <3>1. d.path = NoPath \/ fs[d.path] = files[d.path]
      BY <2>2, <2>3, <2>5
    <3>2. Kept(d, fs)
      BY <2>1, <3>1, SavedIsKept
    <3> QED
      BY <1>2, <2>5, <3>2 DEF d, i
  <2> QED
    BY <2>4, <2>5
<1> QED
  BY <1>2, <1>5, <1>6 DEF AllKept

\* The scene on screen is saved at the path p, which no other tab shows.
LEMMA NamingKeeps ==
  ASSUME NEW k, Laid(k), PathsApart(k), AllKept(k, files), Filed, NEW p \in Paths,
         NEW d \in Document, d.path = p, d.history = k.live.history, d.scene = k.live.scene,
         findByPath(k, p) \subseteq {k.active},
         NEW new, Laid(new), Ids(new) = Ids(k), Showing(new, k, SaveTab(d)),
         NEW fs, fs = [files EXCEPT ![p] = k.live.scene]
  PROVE  PathsApart(new) /\ AllKept(new, fs)
<1>1. /\ Orderly(k) /\ Shown(k) \in Ids(k) /\ Tabbed(k)[Shown(k)] = k.live
      /\ \A id \in Ids(k) : At(k, id) = k.active <=> id = Shown(k)
  BY LaidFacts
<1>2. /\ \A id \in Ids(k) : Tabbed(k)[id] \in Document /\ At(k, id) \in DOMAIN k.tabs /\ Tabbed(k)[id] = Held(k, At(k, id))
      /\ p # NoPath
  BY <1>1, Places, DocumentsAssumption
<1>3. \A id \in Ids(k) : id # Shown(k) => Tabbed(k)[id].path # p
  BY <1>1, <1>2 DEF findByPath
<1>4. Tabbed(new)[Shown(k)] = SaveTab(d) /\ \A id \in Ids(k) : id # Shown(k) => Tabbed(new)[id] = Tabbed(k)[id]
  BY <1>1 DEF Showing
<1>5. SaveTab(d).path = p
  BY DEF SaveTab, Document
<1>6. PathsApart(new)
  <2>1. SUFFICES ASSUME NEW a \in Ids(new), NEW b \in Ids(new),
                        Tabbed(new)[a].path = Tabbed(new)[b].path, Tabbed(new)[a].path # NoPath
                 PROVE  a = b
    BY DEF PathsApart
  <2>2. a \in Ids(k) /\ b \in Ids(k)
    OBVIOUS
  <2>3. CASE a = Shown(k) \/ b = Shown(k)
    BY <1>3, <1>4, <1>5, <2>1, <2>2, <2>3
  <2>4. CASE a # Shown(k) /\ b # Shown(k)
    BY <1>4, <2>1, <2>2, <2>4 DEF PathsApart
  <2> QED
    BY <2>3, <2>4
<1>7. fs[p] = k.live.scene /\ \A q \in Paths : q # p => fs[q] = files[q]
  BY DEF Filed
<1>8. Kept(SaveTab(d), fs)
  <2>1. PICK L : StandsFor(L, d.history, d.scene)
    BY <1>1 DEF AllKept, Kept
  <2>2. /\ SaveTab(d).scene = d.scene /\ SaveTab(d).history = d.history /\ SaveTab(d).savedState = stateId(d.history)
        /\ d.history \in Histories
    BY DEF SaveTab, Document
  <2>3. stateId(d.history) <= d.history.lastState
    BY <2>1, <2>2, StatesAreOld
  <2>4. L[stateId(d.history)] = fs[p]
    BY <1>7, <2>1 DEF StandsFor
  <2> QED
    BY <1>5, <2>1, <2>2, <2>3, <2>4 DEF Kept
<1>9. ASSUME NEW id \in Ids(k), id # Shown(k) PROVE Kept(Tabbed(k)[id], fs)
  <2>1. Kept(Tabbed(k)[id], files) /\ Tabbed(k)[id] \in Document /\ Tabbed(k)[id].path # p
    BY <1>2, <1>3, <1>9 DEF AllKept
  <2>2. Tabbed(k)[id].path = NoPath \/ fs[Tabbed(k)[id].path] = files[Tabbed(k)[id].path]
    BY <1>7, <2>1 DEF Document
  <2> QED
    BY <2>1, <2>2, SavedIsKept
<1> QED
  BY <1>1, <1>4, <1>6, <1>8, <1>9 DEF AllKept

\* No two tabs show one file, and each document is kept.
SavedInvariant == PathsApart(desk) /\ AllKept(desk, files)

\* The desk after an action that was asked for.
LEMMA RequestKeeps ==
  ASSUME Filed, NEW k, Laid(k), PathsApart(k), NEW fs, fs = files', AllKept(k, fs),
         NEW action, NEW open, requestAction(k, action, open)
  PROVE  SavedInvariant'
<1>1. PICK new : new = desk'
  OBVIOUS
<1>2. CASE Follows(desk', k, {Blank})
  <2>1. Follows(new, k, {Blank})
    BY <1>1, <1>2
  <2>2. \A d \in {Blank} : Kept(d, fs)
    BY OpenedAreKept
  <2>3. AllKept(new, fs)
    BY <2>1, <2>2, FollowingKeeps
  <2>4. PathsApart(new)
    BY <2>1, BlankStaysApart
  <2> QED
    BY <1>1, <2>3, <2>4 DEF SavedInvariant
<1>3. CASE Leaves
  <2>1. desk' = Closed /\ Ids(Closed) = {}
    BY <1>3, ClosedIsOrderly DEF Leaves
  <2>2. PathsApart(Closed) /\ AllKept(Closed, fs)
    BY <2>1 DEF PathsApart, AllKept
  <2> QED
    BY <2>1, <2>2 DEF SavedInvariant
<1> QED
  BY <1>2, <1>3, RequestDoes

\* An edit, an undo and a redo leave what the states stand for.
LEMMA EditingKeeps ==
  ASSUME TypeInvariant, SavedInvariant, Edit \/ Undo \/ Redo
  PROVE  SavedInvariant'
<1>1. PICK new : new = desk'
  OBVIOUS
<1>2. phase = "editing" /\ Laid(desk) /\ UNCHANGED files
  BY EditingMoves DEF TypeInvariant, DeskKept, Edit, Undo, Redo, OnDesk, disk
<1>3. PICK d \in Document :
        /\ desk' = [desk EXCEPT !.live = d]
        /\ d.path = desk.live.path /\ d.savedState = desk.live.savedState
        /\ \/ /\ Edit /\ d.scene = lastScene + 1
              /\ d.history = recordApplied(desk.live.history, desk.live.scene, lastScene + 1)
           \/ /\ Undo /\ canUndo(desk.live.history) /\ d.scene = Last(desk.live.history.done).from
              /\ d.history = undo(desk.live.history)
           \/ /\ Redo /\ canRedo(desk.live.history) /\ d.scene = Last(desk.live.history.undone).to
              /\ d.history = redo(desk.live.history)
  BY EditingMoves
<1>4. /\ Orderly(desk) /\ Shown(desk) \in Ids(desk) /\ Tabbed(desk)[Shown(desk)] = desk.live
      /\ desk.live \in Document
  BY <1>2, LaidFacts, Places
<1>5. new = [desk EXCEPT !.live = d]
  BY <1>1, <1>3
<1>6. /\ Ids(new) = Ids(desk)
      /\ \A id \in Ids(desk) : Tabbed(new)[id] = IF id = Shown(desk) THEN d ELSE Tabbed(desk)[id]
  BY <1>2, <1>5, LiveEdits DEF Edited
<1>7. Kept(desk.live, files)
  BY <1>4 DEF SavedInvariant, AllKept
<1>8. Kept(d, files)
  <2>1. lastScene + 1 \in Nat
    BY DEF TypeInvariant, SessionTyped
  <2>2. d.path = desk.live.path /\ d.savedState = desk.live.savedState
    BY <1>3
  <2>3. \/ \E to \in Nat : d.scene = to /\ d.history = recordApplied(desk.live.history, desk.live.scene, to)
        \/ canUndo(desk.live.history) /\ d.scene = Last(desk.live.history.done).from
             /\ d.history = undo(desk.live.history)
        \/ canRedo(desk.live.history) /\ d.scene = Last(desk.live.history.undone).to
             /\ d.history = redo(desk.live.history)
    BY <1>3, <2>1
  <2> QED
    BY <1>4, <1>7, <2>2, <2>3, EditedIsKept
<1>9. AllKept(new, files)
  BY <1>6, <1>8 DEF SavedInvariant, AllKept
<1>10. \A id \in Ids(desk) : Tabbed(new)[id].path = Tabbed(desk)[id].path
  BY <1>3, <1>4, <1>6
<1>11. PathsApart(new)
  BY <1>6, <1>10 DEF SavedInvariant, PathsApart
<1> QED
  BY <1>1, <1>2, <1>9, <1>11 DEF SavedInvariant

\* A saved scene stands for its file.
LEMMA SavingSceneKeeps ==
  ASSUME TypeInvariant, SavedInvariant, saveScene
  PROVE  SavedInvariant'
<1>1. /\ phase = "editing" /\ Laid(desk) /\ PathsApart(desk) /\ AllKept(desk, files) /\ Filed
  BY DEF saveScene, AtWork, Idle, TypeInvariant, DeskKept, SavedInvariant
<1>2. CASE desk.live.path = NoPath
  <2>1. desk' = desk /\ files' = files
    BY <1>2 DEF saveScene
  <2> QED
    BY <2>1 DEF SavedInvariant
<1>3. CASE desk.live.path # NoPath
  <2>1. /\ Orderly(desk) /\ desk.live \in Document /\ Tabbed(desk)[Shown(desk)] = desk.live
        /\ Shown(desk) \in Ids(desk) /\ At(desk, Shown(desk)) = desk.active
        /\ \A id \in Ids(desk) : At(desk, id) = desk.active <=> id = Shown(desk)
    BY <1>1, LaidFacts, Places
  <2>2. PICK p \in Paths : p = desk.live.path
    BY <1>3, <2>1 DEF Document
  <2>3. PICK new : new = SaveTabs(desk, {desk.active})
    OBVIOUS
  <2>4. PICK fs : fs = [files EXCEPT ![p] = desk.live.scene]
    OBVIOUS
  <2>5. desk' = new /\ files' = fs
    BY <1>3, <2>2, <2>3, <2>4 DEF saveScene
  <2>6. /\ Laid(new) /\ Ids(new) = Ids(desk)
        /\ \A id \in Ids(desk) :
             Tabbed(new)[id] = IF At(desk, id) \in {desk.active} THEN SaveTab(Tabbed(desk)[id]) ELSE Tabbed(desk)[id]
    BY <1>1, <2>3, SavingTurns
  <2>7. Showing(new, desk, SaveTab(desk.live))
    BY <2>1, <2>6 DEF Showing
  <2>8. findByPath(desk, p) \subseteq {desk.active}
    <3>1. SUFFICES ASSUME NEW i \in findByPath(desk, p) PROVE i = desk.active
      OBVIOUS
    <3>2. i \in DOMAIN desk.tabs /\ Held(desk, i).path = p /\ p # NoPath
      BY DEF findByPath
    <3>3. desk.tabs[i].id \in Ids(desk) /\ At(desk, desk.tabs[i].id) = i /\ Tabbed(desk)[desk.tabs[i].id] = Held(desk, i)
      BY <2>1, <3>2, Places
    <3>4. desk.tabs[i].id = Shown(desk)
      BY <1>1, <2>1, <2>2, <3>2, <3>3 DEF PathsApart
    <3> QED
      BY <2>1, <3>3, <3>4
  <2>9. PathsApart(new) /\ AllKept(new, fs)
    <3>1. PICK d \in Document : d = desk.live
      BY <2>1
    <3>2. /\ d.path = p /\ d.history = desk.live.history /\ d.scene = desk.live.scene
          /\ Showing(new, desk, SaveTab(d))
      BY <2>2, <2>7, <3>1
    <3>3. Laid(new) /\ Ids(new) = Ids(desk)
      BY <2>6
    <3> QED
      BY <1>1, <2>4, <2>8, <3>2, <3>3, NamingKeeps
  <2> QED
    BY <2>5, <2>9 DEF SavedInvariant
<1> QED
  BY <1>2, <1>3

\* Save As, to a file no other tab shows and that can be written.
LEMMA SavingAsKeeps ==
  ASSUME SaveAsMay = {}, TypeInvariant, SavedInvariant, SaveAsAnswered
  PROVE  SavedInvariant'
<1>1. /\ phase = "editing" /\ Laid(desk) /\ PathsApart(desk) /\ AllKept(desk, files) /\ Filed
  BY DEF SaveAsAnswered, Idle, TypeInvariant, DeskKept, SavedInvariant
<1>2. CASE UNCHANGED <<desk, files>>
  BY <1>2 DEF SavedInvariant
<1>3. CASE ~UNCHANGED <<desk, files>>
  <2>1. PICK p \in Paths :
          /\ findByPath(desk, p) \subseteq {desk.active}
          /\ LET named == [desk EXCEPT !.live.path = p]
                 saved == SaveTabs(named, {desk.active})
             IN  /\ files' = [files EXCEPT ![p] = desk.live.scene]
                 /\ desk' = saved \/ requestAction(saved, pending, asking)
    BY <1>3 DEF SaveAsAnswered
  <2>2. PICK saved : saved = SaveTabs(NamedAs(desk, p), {desk.active})
    OBVIOUS
  <2>3. PICK d : d = NamedScene(desk, p)
    OBVIOUS
  <2>4. PICK fs : fs = [files EXCEPT ![p] = desk.live.scene]
    OBVIOUS
  <2>5. files' = fs /\ (desk' = saved \/ requestAction(saved, pending, asking))
    BY <2>1, <2>2, <2>4 DEF NamedAs
  <2>6. /\ d \in Document /\ Turned(saved, desk) /\ Ids(saved) = Ids(desk)
        /\ Showing(saved, desk, SaveTab(d))
    BY <1>1, <2>2, <2>3, NamesScene
  <2>7. d.path = p /\ d.history = desk.live.history /\ d.scene = desk.live.scene
    <3>1. desk.live \in Document
      BY <1>1, LaidFacts, Places
    <3> QED
      BY <2>3, <3>1 DEF NamedScene, Document
  <2>8. Laid(saved)
    BY <2>6 DEF Turned
  <2>9. findByPath(desk, p) \subseteq {desk.active}
    BY <2>1
  <2>10. PathsApart(saved) /\ AllKept(saved, fs)
    BY <1>1, <2>4, <2>6, <2>7, <2>8, <2>9, NamingKeeps
  <2>11. CASE desk' = saved
    BY <2>5, <2>10, <2>11 DEF SavedInvariant
  <2>12. CASE requestAction(saved, pending, asking)
    BY <1>1, <2>5, <2>8, <2>10, <2>12, RequestKeeps
  <2> QED
    BY <2>5, <2>11, <2>12
<1> QED
  BY <1>2, <1>3

\* Closing, leaving and saving all leave what the states stand for.
LEMMA AnsweringKeeps ==
  ASSUME TypeInvariant, SavedInvariant, RequestClose \/ RequestLeave \/ AnswerDiscard \/ AnswerSave \/ saveAllScenes
  PROVE  SavedInvariant'
<1>1. ASSUME phase = "editing"
      PROVE  Laid(desk) /\ PathsApart(desk) /\ AllKept(desk, files) /\ Filed
  BY <1>1 DEF TypeInvariant, DeskKept, SavedInvariant
<1>2. CASE RequestClose
  <2>1. phase = "editing" /\ files' = files /\ \E action, open : requestAction(desk, action, open)
    BY <1>2 DEF RequestClose, AtWork, Idle
  <2> QED
    BY <1>1, <2>1, RequestKeeps
<1>3. CASE RequestLeave
  <2>1. requestAction(desk, Leaving, asking) /\ files' = files /\ phase \in {"editing", "waiting"}
    BY <1>3 DEF RequestLeave
  <2>2. CASE phase = "editing"
    BY <1>1, <2>1, <2>2, RequestKeeps
  <2>3. CASE phase = "waiting"
    <3>1. desk = Closed
      BY <2>3 DEF TypeInvariant, DeskKept
    <3>2. affectedTabs(desk, Leaving) = {}
      BY <3>1, ClosedIsOrderly DEF affectedTabs, Closed
    <3>3. desk' = Closed /\ Ids(Closed) = {}
      BY <2>1, <3>2, ClosedIsOrderly DEF requestAction, Leaving, Leaves
    <3>4. PathsApart(Closed) /\ \A fs : AllKept(Closed, fs)
      BY <3>3 DEF PathsApart, AllKept
    <3> QED
      BY <3>3, <3>4 DEF SavedInvariant
  <2> QED
    BY <2>1, <2>2, <2>3
<1>4. CASE AnswerDiscard
  <2>1. phase = "editing" /\ files' = files
    BY <1>4 DEF AnswerDiscard, Idle
  <2>2. CASE Leaves
    <3>1. desk' = Closed /\ Ids(Closed) = {}
      BY <2>2, ClosedIsOrderly DEF Leaves
    <3>2. PathsApart(Closed) /\ \A fs : AllKept(Closed, fs)
      BY <3>1 DEF PathsApart, AllKept
    <3> QED
      BY <3>1, <3>2 DEF SavedInvariant
  <2>3. CASE desk' = CloseTabs(desk, pending.tabs)
    <3>1. PICK new : new = CloseTabs(desk, pending.tabs)
      OBVIOUS
    <3>2. Follows(new, desk, {Blank})
      BY <1>1, <2>1, <3>1, ClosingFollows
    <3>3. PathsApart(new)
      BY <1>1, <2>1, <3>2, BlankStaysApart
    <3>4. \A d \in {Blank} : Kept(d, files)
      BY <1>1, <2>1, OpenedAreKept
    <3>5. AllKept(new, files)
      BY <1>1, <2>1, <3>2, <3>4, FollowingKeeps
    <3> QED
      BY <2>1, <2>3, <3>1, <3>3, <3>5 DEF SavedInvariant
  <2> QED
    BY <1>4, <2>2, <2>3 DEF AnswerDiscard
<1>5. ASSUME phase = "editing", NEW is \in SUBSET DOMAIN desk.tabs, files' = FilesWith(desk, is),
             NEW k, k = SaveTabs(desk, is)
      PROVE  Laid(k) /\ PathsApart(k) /\ AllKept(k, FilesWith(desk, is)) /\ DOMAIN k.tabs = DOMAIN desk.tabs
  <2>1. Laid(desk) /\ PathsApart(desk) /\ AllKept(desk, files)
    BY <1>1, <1>5
  <2>2. PathsApart(k) /\ AllKept(k, FilesWith(desk, is))
    BY <1>5, <2>1, SavingKeeps
  <2>3. Laid(k) /\ DOMAIN k.tabs = DOMAIN desk.tabs
    BY <1>5, <2>1, SavingTurns
  <2> QED
    BY <2>2, <2>3
<1>6. CASE saveAllScenes
  <2>1. phase = "editing"
    BY <1>6 DEF saveAllScenes, AtWork, Idle
  <2>2. PICK is \in SUBSET DOMAIN desk.tabs : desk' = SaveTabs(desk, is) /\ files' = FilesWith(desk, is)
    BY <1>6 DEF saveAllScenes
  <2>3. PICK k : k = SaveTabs(desk, is)
    OBVIOUS
  <2>4. PathsApart(k) /\ AllKept(k, FilesWith(desk, is))
    BY <1>5, <2>1, <2>2, <2>3
  <2>5. desk' = k /\ files' = FilesWith(desk, is)
    BY <2>2, <2>3
  <2>6. PICK fs : fs = FilesWith(desk, is)
    OBVIOUS
  <2>7. PathsApart(k) /\ AllKept(k, fs) /\ desk' = k /\ files' = fs
    BY <2>4, <2>5, <2>6
  <2> QED
    BY <2>7 DEF SavedInvariant
<1>7. CASE AnswerSave
  <2> DEFINE affected == affectedTabs(desk, pending)
             unnamed == {i \in affected : Held(desk, i).path = NoPath}
  <2>1. phase = "editing"
    BY <1>7 DEF AnswerSave, Idle
  <2>2. PICK failed \in {{}} \cup {{i} : i \in affected \ unnamed} :
          LET stops == unnamed \cup failed
              saved == {i \in affected : \A stop \in stops : i < stop}
              k == SaveTabs(desk, saved)
          IN  /\ files' = FilesWith(desk, saved)
              /\ \/ requestAction(k, pending, FALSE)
                 \/ desk' = IF Min(stops) \in unnamed THEN activate(k, Min(stops)) ELSE k
    BY <1>7 DEF AnswerSave
  <2>3. PICK stops : stops = unnamed \cup failed
    OBVIOUS
  <2>4. PICK saved : saved = {i \in affected : \A stop \in stops : i < stop}
    OBVIOUS
  <2>5. PICK k : k = SaveTabs(desk, saved)
    OBVIOUS
  <2>6. PICK fs : fs = FilesWith(desk, saved)
    OBVIOUS
  <2>7. affected \subseteq DOMAIN desk.tabs
    BY DEF affectedTabs
  <2>8. unnamed \subseteq DOMAIN desk.tabs /\ saved \in SUBSET DOMAIN desk.tabs
    BY <2>4, <2>7
  <2>9. /\ files' = fs
        /\ \/ requestAction(k, pending, FALSE)
           \/ desk' = IF Min(stops) \in unnamed THEN activate(k, Min(stops)) ELSE k
    <3> HIDE DEF unnamed, affected
    <3> QED
      BY <2>2, <2>3, <2>4, <2>5, <2>6
  <2> HIDE DEF unnamed, affected
  <2>10. Laid(k) /\ PathsApart(k) /\ AllKept(k, fs) /\ DOMAIN k.tabs = DOMAIN desk.tabs
    <3>1. files' = FilesWith(desk, saved)
      BY <2>6, <2>9
    <3>2. Laid(k) /\ PathsApart(k) /\ AllKept(k, FilesWith(desk, saved)) /\ DOMAIN k.tabs = DOMAIN desk.tabs
      BY <1>5, <2>1, <2>5, <2>8, <3>1
    <3> QED
      BY <2>6, <3>2
  <2>11. CASE requestAction(k, pending, FALSE)
    <3>1. PICK open \in BOOLEAN : open = FALSE
      OBVIOUS
    <3>2. requestAction(k, pending, open) /\ fs = files'
      BY <2>9, <2>11, <3>1
    <3>3. Laid(k) /\ PathsApart(k) /\ AllKept(k, fs)
      BY <2>10
    <3> QED
      BY <1>1, <2>1, <3>2, <3>3, RequestKeeps
  <2>12. CASE desk' = IF Min(stops) \in unnamed THEN activate(k, Min(stops)) ELSE k
    <3>1. CASE Min(stops) \in unnamed
      <4>1. PICK i \in DOMAIN k.tabs : i = Min(stops)
        BY <2>8, <2>10, <3>1
      <4>2. PICK new : new = activate(k, i)
        OBVIOUS
      <4>3. Ids(new) = Ids(k) /\ Tabbed(new) = Tabbed(k)
        BY <2>10, <4>2, TurningFollows
      <4>4. PathsApart(new) /\ AllKept(new, fs)
        BY <2>10, <4>3 DEF PathsApart, AllKept
      <4>5. desk' = new
        BY <2>12, <3>1, <4>1, <4>2
      <4> QED
        BY <2>9, <4>4, <4>5 DEF SavedInvariant
    <3>2. CASE Min(stops) \notin unnamed
      <4>1. desk' = k
        BY <2>12, <3>2
      <4> QED
        BY <2>9, <2>10, <4>1 DEF SavedInvariant
    <3> QED
      BY <3>1, <3>2
  <2> QED
    BY <2>9, <2>11, <2>12
<1> QED
  BY <1>2, <1>3, <1>4, <1>6, <1>7

\* Every step keeps the invariant of saved scenes, if Save As meets no surprise.
LEMMA SavedStays ==
  ASSUME SaveAsMay = {}, TypeInvariant, SavedInvariant, [Next]_vars
  PROVE  SavedInvariant'
<1>1. CASE UNCHANGED <<desk, files>>
  BY <1>1 DEF SavedInvariant
<1>2. Filed
  BY DEF TypeInvariant
<1>3. CASE openScenes /\ desk = Closed
  <2>1. Follows(desk', Closed, OpenedAs) /\ PathsApart(desk') /\ files' = files
    BY <1>2, <1>3, OpensScenes DEF openScenes, disk
  <2>2. PICK new : new = desk'
    OBVIOUS
  <2>3. AllKept(Closed, files)
    BY ClosedIsOrderly DEF AllKept
  <2>4. Follows(new, Closed, OpenedAs) /\ PathsApart(new)
    BY <2>1, <2>2
  <2>5. \A d \in OpenedAs : Kept(d, files)
    BY <1>2, OpenedAreKept
  <2>6. AllKept(new, files)
    BY <2>3, <2>4, <2>5, FollowingKeeps
  <2> QED
    BY <2>1, <2>2, <2>4, <2>6 DEF SavedInvariant
<1>4. CASE OpenProject \/ CodeReady
  <2>1. desk = Closed
    BY <1>4 DEF OpenProject, CodeReady, TypeInvariant, DeskKept
  <2> QED
    BY <1>1, <1>3, <1>4, <2>1 DEF OpenProject, CodeReady, disk
<1>5. CASE Crash
  <2>1. desk' = Closed /\ Ids(Closed) = {}
    BY <1>5, ClosedIsOrderly DEF Crash
  <2>2. PathsApart(Closed) /\ \A fs : AllKept(Closed, fs)
    BY <2>1 DEF PathsApart, AllKept
  <2> QED
    BY <2>1, <2>2 DEF SavedInvariant
<1>6. ASSUME NEW S, NEW new, new = desk', Follows(new, desk, S), PathsApart(new), \A d \in S : Kept(d, files),
             files' = files
      PROVE  SavedInvariant'
  <2>1. AllKept(desk, files)
    BY DEF SavedInvariant
  <2>2. AllKept(new, files)
    BY <1>6, <2>1, FollowingKeeps
  <2> QED
    BY <1>6, <2>2 DEF SavedInvariant
<1>7. CASE activateSceneTab \/ moveTab \/ newSceneTab \/ openSceneTab
  <2>1. Follows(desk', desk, OpenedAs) /\ (PathsApart(desk) => PathsApart(desk'))
    BY <1>7, TabMoves
  <2>2. PICK new : new = desk'
    OBVIOUS
  <2>3. Follows(new, desk, OpenedAs) /\ PathsApart(new)
    BY <2>1, <2>2 DEF SavedInvariant
  <2>4. \A d \in OpenedAs : Kept(d, files)
    BY <1>2, OpenedAreKept
  <2>5. files' = files
    BY <1>7 DEF activateSceneTab, moveTab, newSceneTab, openSceneTab, OnDesk, disk
  <2> QED
    BY <1>6, <2>2, <2>3, <2>4, <2>5
<1>8. CASE recoverAutosave
  <2>1. Follows(desk', desk, RecoveredAs) /\ (PathsApart(desk) => PathsApart(desk'))
    BY <1>8, RecoveringMoves
  <2>2. PICK new : new = desk'
    OBVIOUS
  <2>3. Follows(new, desk, RecoveredAs) /\ PathsApart(new)
    BY <2>1, <2>2 DEF SavedInvariant
  <2>4. \A d \in RecoveredAs : Kept(d, files)
    BY <1>2, OpenedAreKept
  <2>5. files' = files
    BY <1>8 DEF recoverAutosave, disk
  <2> QED
    BY <1>6, <2>2, <2>3, <2>4, <2>5
<1>9. CASE showSaveSceneDialog \/ AnswerCancel \/ updateAutosave \/ discardAutosave \/ Write \/ UNCHANGED vars
  BY <1>1, <1>9 DEF showSaveSceneDialog, AnswerCancel, updateAutosave, discardAutosave, Write, editor, disk, vars
<1>10. CASE Edit \/ Undo \/ Redo
  BY <1>10, EditingKeeps
<1>11. CASE saveScene
  BY <1>11, SavingSceneKeeps
<1>12. CASE SaveAsAnswered
  BY <1>12, SavingAsKeeps
<1>13. CASE RequestClose \/ RequestLeave \/ AnswerDiscard \/ AnswerSave \/ saveAllScenes
  BY <1>13, AnsweringKeeps
<1> QED
  BY <1>4, <1>5, <1>7, <1>8, <1>9, <1>10, <1>11, <1>12, <1>13 DEF Next

\* It says that an unmodified tab holds the scene of its file.
LEMMA SavedHolds ==
  ASSUME TypeInvariant, SavedInvariant
  PROVE  UnmodifiedIsSaved
<1>1. Orderly(desk)
  BY ClosedIsOrderly, LaidFacts DEF TypeInvariant, DeskKept
<1>2. ASSUME NEW i \in DOMAIN desk.tabs, Held(desk, i).path # NoPath, ~modified(Held(desk, i))
      PROVE  Held(desk, i).scene = files[Held(desk, i).path]
  <2>1. PICK d : d = Held(desk, i)
    OBVIOUS
  <2>2. d \in Document /\ Kept(d, files)
    BY <1>1, <2>1, Places DEF SavedInvariant, AllKept
  <2>3. PICK L : /\ StandsFor(L, d.history, d.scene)
                 /\ d.path # NoPath /\ d.savedState # NeverSaved
                      => d.savedState <= d.history.lastState /\ L[d.savedState] = files[d.path]
    BY <2>2 DEF Kept
  <2>4. d.savedState = stateId(d.history) /\ stateId(d.history) \in Nat
    BY <1>2, <2>1, <2>2, BlankTypes DEF modified
  <2>5. d.savedState # NeverSaved
    BY <2>4 DEF NeverSaved
  <2>6. L[stateId(d.history)] = d.scene
    BY <2>3 DEF StandsFor
  <2> QED
    BY <1>2, <2>1, <2>3, <2>4, <2>5, <2>6
<1> QED
  BY <1>2 DEF UnmodifiedIsSaved

\* A tab shown without unsaved changes holds the scene of its file, whatever was undone, redone,
\* forgotten by the history (CommandHistory.cpp), saved, closed or recovered, as long as Save As meets
\* neither the file of another tab nor one that cannot be written (EditorSession.cpp, saveScene).
THEOREM UnmodifiedAreSaved ==
  ASSUME SaveAsMay = {}
  PROVE  Spec => []UnmodifiedIsSaved
<1>1. Init => SavedInvariant
  <2> SUFFICES ASSUME Init PROVE SavedInvariant
    OBVIOUS
  <2>1. desk = Closed
    BY DEF Init
  <2> QED
    BY <2>1, ClosedIsOrderly DEF SavedInvariant, PathsApart, AllKept
<1>2. TypeInvariant /\ SavedInvariant /\ [Next]_vars => SavedInvariant'
  BY SavedStays
<1>3. TypeInvariant /\ SavedInvariant => UnmodifiedIsSaved
  BY SavedHolds
<1> QED
  BY <1>1, <1>2, <1>3, TypesAlways, PTL DEF Spec

-----------------------------------------------------------------------------
(* The copies of a crash that wait for an answer *)

\* No step but one of an editor that shows the copies touches what the user was not asked about.
LEMMA CopiesAreOwed ==
  ASSUME TypeInvariant, Next
  PROVE  \/ recoverable # {} /\ phase' = "editing"
         \/ QuitsUnasked
         \/ \A e \in Owed : /\ e \in folder'.index /\ e.file \in DOMAIN folder'.copies
                            /\ folder'.copies[e.file] = folder.copies[e.file]
<1>1. /\ phase # "editing" => writes = <<>> /\ recoverable = {}
      /\ \A e \in recoverable : e \in folder.index /\ e.file \in DOMAIN folder.copies
      /\ recoverable # {} => writes = <<>>
  BY DEF TypeInvariant, CopiesWait
<1>2. \A e \in Owed : e \in folder.index /\ e.file \in DOMAIN folder.copies
  BY <1>1 DEF Owed, Found
<1>3. CASE Owed = {}
  BY <1>3
<1>4. CASE recoverable # {} /\ phase' = "editing"
  BY <1>4
<1>5. ASSUME folder' = folder
      PROVE  \A e \in Owed : /\ e \in folder'.index /\ e.file \in DOMAIN folder'.copies
                             /\ folder'.copies[e.file] = folder.copies[e.file]
  BY <1>2, <1>5
<1>6. CASE phase # "editing"
  <2>1. OpenProject \/ CodeReady \/ Crash \/ RequestLeave
    BY <1>1, <1>6 DEF Next, Edit, Undo, Redo, activateSceneTab, moveTab, newSceneTab, openSceneTab, saveScene,
      saveAllScenes, showSaveSceneDialog, SaveAsAnswered, RequestClose, AnswerSave, AnswerDiscard,
      AnswerCancel, updateAutosave, recoverAutosave, discardAutosave, Write, AtWork, Idle
  <2>2. CASE OpenProject \/ CodeReady \/ Crash
    <3>1. folder' = folder
      BY <2>2 DEF OpenProject, CodeReady, openScenes, Crash, disk
    <3> QED
      BY <1>5, <3>1
  <2>3. CASE RequestLeave
    <3>1. phase = "waiting" /\ requestAction(desk, Leaving, asking) /\ crashes' = crashes
      BY <1>6, <2>3 DEF RequestLeave, bounds
    <3>2. CASE Leaves
      BY <3>1, <3>2 DEF Leaves, QuitsUnasked
    <3>3. CASE folder' = folder
      BY <1>5, <3>3
    <3> QED
      BY <3>1, <3>2, <3>3 DEF requestAction, Leaving
  <2> QED
    BY <2>1, <2>2, <2>3
<1>7. CASE phase = "editing" /\ recoverable # {} /\ phase' # "editing"
  <2>1. RequestLeave \/ Crash \/ recoverAutosave \/ discardAutosave
    BY <1>1, <1>7 DEF Next, OpenProject, CodeReady, Edit, Undo, Redo, activateSceneTab, moveTab, newSceneTab,
      openSceneTab, saveScene, saveAllScenes, showSaveSceneDialog, SaveAsAnswered, RequestClose, AnswerSave,
      AnswerDiscard, AnswerCancel, updateAutosave, Write, AtWork, Idle
  <2>2. CASE RequestLeave
    <3>1. requestAction(desk, Leaving, asking)
      BY <2>2 DEF RequestLeave
    <3>2. folder' = folder
      BY <1>7, <3>1 DEF requestAction, Leaves, Leaving
    <3> QED
      BY <1>5, <3>2
  <2>3. CASE Crash
    BY <1>5, <2>3 DEF Crash, disk
  <2>4. CASE recoverAutosave \/ discardAutosave
    BY <1>7, <2>4 DEF recoverAutosave, discardAutosave
  <2> QED
    BY <2>1, <2>2, <2>3, <2>4
<1> QED
  BY <1>3, <1>4, <1>6, <1>7 DEF Owed

\* The copies of a crash stay on the disk until the user recovers or discards them (Autosave.cpp,
\* EditorSession.cpp), unless the window is closed while the scenes wait for the game code.
THEOREM CopiesOutlast == Spec => UnansweredCopiesStay
<1> DEFINE Stay == \/ recoverable # {} /\ phase' = "editing"
                   \/ QuitsUnasked
                   \/ \A e \in Owed : /\ e \in folder'.index /\ e.file \in DOMAIN folder'.copies
                                      /\ folder'.copies[e.file] = folder.copies[e.file]
<1>1. TypeInvariant /\ [Next]_vars => [Stay]_vars
  BY CopiesAreOwed
<1>2. Spec => [][Stay]_vars
  <2> HIDE DEF Stay
  <2> QED
    BY <1>1, TypesAlways, PTL DEF Spec
<1> QED
  BY <1>2 DEF UnansweredCopiesStay

-----------------------------------------------------------------------------
(* The changes an action drops *)

\* As long as the copies of a crash wait for an answer nothing was edited.
Unedited ==
  /\ crashes \in Nat
  /\ recoverable # {} => \A id \in Ids(desk) : ~modified(Tabbed(desk)[id])

\* A document that was just opened is not modified.
LEMMA OpenedAreUnedited ==
  ASSUME NEW d \in OpenedAs
  PROVE  ~modified(d)
BY DEF OpenedAs, modified, stateId, NewHistory

\* No tab is modified while the copies of a crash wait for an answer.
LEMMA StaysUnedited ==
  ASSUME TypeInvariant, Unedited, [Next]_vars
  PROVE  Unedited'
<1>1. crashes' \in Nat
  <2>1. crashes \in Nat
    BY DEF Unedited
  <2>2. CASE OpenProject \/ CodeReady \/ Edit \/ Undo \/ Redo \/ activateSceneTab \/ moveTab
    BY <2>1, <2>2 DEF bounds, OpenProject, CodeReady, openScenes, Edit, Undo, Redo, activateSceneTab, moveTab, OnDesk
  <2>3. CASE newSceneTab \/ openSceneTab
    BY <2>1, <2>3 DEF bounds, newSceneTab, openSceneTab, OnDesk
  <2>4. CASE saveScene \/ saveAllScenes \/ showSaveSceneDialog \/ SaveAsAnswered \/ RequestClose \/ RequestLeave
    BY <2>1, <2>4 DEF bounds, saveScene, saveAllScenes, showSaveSceneDialog, SaveAsAnswered, RequestClose, RequestLeave
  <2>5. CASE AnswerSave \/ AnswerDiscard \/ AnswerCancel \/ updateAutosave \/ recoverAutosave \/ discardAutosave \/ Write
    BY <2>1, <2>5 DEF bounds, AnswerSave, AnswerDiscard, AnswerCancel, updateAutosave, recoverAutosave, discardAutosave, Write
  <2>6. CASE Crash
    BY <2>1, <2>6 DEF Crash
  <2>7. CASE UNCHANGED vars
    BY <2>1, <2>7 DEF vars
  <2> QED
    BY <2>2, <2>3, <2>4, <2>5, <2>6, <2>7 DEF Next
<1>2. ASSUME recoverable' # {} PROVE \A id \in Ids(desk') : ~modified(Tabbed(desk')[id])
  <2>1. PICK new : new = desk'
    OBVIOUS
  <2>2. CASE openScenes
    <3>1. Follows(new, Closed, OpenedAs) /\ Ids(Closed) = {}
      BY <2>1, <2>2, OpensScenes, ClosedIsOrderly DEF TypeInvariant
    <3>2. \A id \in Ids(new) : Tabbed(new)[id] \in OpenedAs
      BY <3>1 DEF Follows
    <3> QED
      BY <2>1, <3>2, OpenedAreUnedited
  <2>3. CASE ~openScenes /\ recoverable # {}
    <3>1. desk' = desk
      <4>1. CASE UNCHANGED vars
        BY <4>1 DEF vars
      <4>2. CASE Next
        <5>1. phase = "editing" /\ ~Idle
          BY <2>3 DEF TypeInvariant, CopiesWait, Idle
        <5>2. RequestLeave \/ Write
          BY <1>2, <2>3, <4>2, <5>1 DEF Next, OpenProject, CodeReady, Edit, Undo, Redo, activateSceneTab, moveTab, newSceneTab,
            openSceneTab, saveScene, saveAllScenes, showSaveSceneDialog, SaveAsAnswered, RequestClose, AnswerSave,
            AnswerDiscard, AnswerCancel, updateAutosave, recoverAutosave, discardAutosave, Crash, AtWork
        <5>3. CASE RequestLeave
          <6>1. requestAction(desk, Leaving, asking)
            BY <5>3 DEF RequestLeave
          <6> QED
            BY <1>2, <6>1 DEF requestAction, Leaves, Leaving
        <5>4. CASE Write
          BY <5>4 DEF Write, editor
        <5> QED
          BY <5>2, <5>3, <5>4
      <4> QED
        BY <4>1, <4>2
    <3> QED
      BY <2>3, <3>1 DEF Unedited
  <2>4. CASE ~openScenes /\ recoverable = {}
    <3>1. recoverable' = {}
      BY <2>4 DEF vars, Next, OpenProject, CodeReady, Edit, Undo, Redo, activateSceneTab, moveTab, newSceneTab,
        openSceneTab, OnDesk, saveScene, saveAllScenes, showSaveSceneDialog, SaveAsAnswered, RequestClose, RequestLeave,
        AnswerSave, AnswerDiscard, AnswerCancel, updateAutosave, recoverAutosave, discardAutosave, Write, Crash,
        requestAction, Leaves, editor
    <3> QED
      BY <1>2, <3>1
  <2> QED
    BY <2>2, <2>3, <2>4
<1> QED
  BY <1>1, <1>2 DEF Unedited

\* An action that is asked for drops no unsaved change of a tab it concerns, nor any other tab.
LEMMA RequestDrops ==
  ASSUME NEW k, Laid(k), NEW action, NEW open, requestAction(k, action, open), NEW id \in Ids(k)
  PROVE  id \in Ids(desk') \/ (Concerned(action, id) /\ ~modified(Tabbed(k)[id]))
<1>1. At(k, id) \in DOMAIN k.tabs /\ k.tabs[At(k, id)].id = id /\ Tabbed(k)[id] = Held(k, At(k, id))
  BY LaidFacts, Places
<1>2. ASSUME affectedTabs(k, action) = {}, Concerned(action, id) PROVE ~modified(Tabbed(k)[id])
  BY <1>1, <1>2 DEF affectedTabs, isModified
<1>3. CASE desk' = k
  BY <1>3
<1>4. CASE action.kind # "leave" /\ affectedTabs(k, action) = {} /\ desk' = CloseTabs(k, action.tabs)
  <2>1. PICK new : new = CloseTabs(k, action.tabs)
    OBVIOUS
  <2>2. Ids(k) \ action.tabs \subseteq Ids(new)
    BY <2>1, ClosingFollows
  <2> QED
    BY <1>2, <1>4, <2>1, <2>2 DEF Concerned
<1>5. CASE action.kind = "leave" /\ affectedTabs(k, action) = {}
  BY <1>2, <1>5 DEF Concerned
<1> QED
  BY <1>3, <1>4, <1>5, RequestDoes

\* What becomes of a modified scene: its tab stays open, it is in a file, or the question was about it.
Answered(id) ==
  \/ id \in Ids(desk')
  \/ \E p \in Paths : files'[p] = Tabbed(desk)[id].scene
  \/ asking /\ Concerned(pending, id)

\* Editing, and showing, moving and opening tabs.
LEMMA OpeningDropsNothing ==
  ASSUME TypeInvariant, NEW id \in Ids(desk), modified(Tabbed(desk)[id]),
         Edit \/ Undo \/ Redo \/ activateSceneTab \/ moveTab \/ newSceneTab \/ openSceneTab
  PROVE  id \in Ids(desk')
<1>1. phase = "editing" /\ Laid(desk) /\ Orderly(desk)
  BY LaidFacts DEF TypeInvariant, DeskKept, Edit, Undo, Redo, activateSceneTab, moveTab, newSceneTab, openSceneTab, AtWork, Idle
<1>2. PICK new : new = desk'
  OBVIOUS
<1>3. CASE Edit \/ Undo \/ Redo
  <2>1. PICK d \in Document : desk' = [desk EXCEPT !.live = d]
    BY <1>3, EditingMoves
  <2>2. Edited(new, desk)
    BY <1>1, <1>2, <2>1, LiveEdits
  <2> QED
    BY <1>2, <2>2 DEF Edited
<1>4. CASE activateSceneTab \/ moveTab
  <2>1. \/ \E i \in DOMAIN desk.tabs : new = activate(desk, i)
        \/ \E from, to \in DOMAIN desk.tabs : new = move(desk, from, to)
    BY <1>2, <1>4 DEF activateSceneTab, moveTab, OnDesk
  <2>2. Ids(new) = Ids(desk)
    BY <1>1, <2>1, TurningFollows
  <2> QED
    BY <1>2, <2>2
<1>5. ASSUME NEW d \in OpenedAs, NEW replaced \in {{}, Untouched(desk)}, new = OpenInPlace(desk, d, replaced)
      PROVE  id \in Ids(desk')
  <2>1. d \in Document /\ replaced \in SUBSET DOMAIN desk.tabs
    BY <1>1, FoundByPath DEF OpenedAs
  <2>2. Ids(new) = (Ids(desk) \ Gone(desk, replaced)) \cup {desk.nextId}
    BY <1>1, <1>5, <2>1, OpeningFollows
  <2>3. id \notin Gone(desk, replaced)
    <3>1. CASE replaced = {}
      BY <3>1 DEF Gone
    <3>2. CASE replaced # {}
      <4>1. PICK i : i = CHOOSE j \in replaced : TRUE
        OBVIOUS
      <4>2. i \in replaced /\ Gone(desk, replaced) = {desk.tabs[i].id}
        BY <3>2, <4>1 DEF Gone
      <4>3. i \in DOMAIN desk.tabs /\ ~modified(Held(desk, i))
        BY <4>2, <3>2 DEF Untouched, isModified
      <4>4. Tabbed(desk)[desk.tabs[i].id] = Held(desk, i)
        BY <1>1, <4>3, Places
      <4>5. id # desk.tabs[i].id
        BY <4>3, <4>4
      <4> QED
        BY <4>2, <4>5
    <3> QED
      BY <3>1, <3>2
  <2> QED
    BY <1>2, <2>2, <2>3
<1>6. CASE newSceneTab
  <2>1. new = OpenInPlace(desk, Blank, {}) /\ Blank \in OpenedAs
    BY <1>2, <1>6, OpenedTypes DEF TypeInvariant, newSceneTab, OnDesk, OpenInPlace
  <2> QED
    BY <1>5, <2>1
<1>7. CASE openSceneTab
  <2>1. PICK p \in Paths :
          LET open == findByPath(desk, p)
          IN  \/ open # {} /\ OnDesk(activate(desk, Min(open)))
              \/ /\ open = {} /\ files[p] # NoFile /\ desk.nextId <= limits.tabs
                 /\ OnDesk(OpenInPlace(desk, document(p, files[p]), Untouched(desk)))
    BY <1>7 DEF openSceneTab
  <2>2. CASE findByPath(desk, p) # {} /\ OnDesk(activate(desk, Min(findByPath(desk, p))))
    <3>1. Min(findByPath(desk, p)) \in findByPath(desk, p)
      <4>1. findByPath(desk, p) \in SUBSET Nat
        BY <1>1, Places DEF findByPath
      <4>2. \E i \in findByPath(desk, p) : \A j \in findByPath(desk, p) : i <= j
        BY <2>2, <4>1, LeastNat
      <4> QED
        BY <4>2 DEF Min
    <3>2. Min(findByPath(desk, p)) \in DOMAIN desk.tabs
      BY <3>1 DEF findByPath
    <3>3. \E i \in DOMAIN desk.tabs : new = activate(desk, i)
      BY <1>2, <2>2, <3>2 DEF OnDesk
    <3>4. Ids(new) = Ids(desk)
      BY <1>1, <3>3, TurningFollows
    <3> QED
      BY <1>2, <3>4
  <2>3. CASE files[p] # NoFile /\ OnDesk(OpenInPlace(desk, document(p, files[p]), Untouched(desk)))
    <3>1. document(p, files[p]) \in OpenedAs
      BY <2>3, OpenedTypes DEF TypeInvariant
    <3>2. new = OpenInPlace(desk, document(p, files[p]), Untouched(desk))
      BY <1>2, <2>3 DEF OnDesk
    <3> QED
      BY <1>5, <3>1, <3>2
  <2> QED
    BY <2>1, <2>2, <2>3
<1> QED
  BY <1>3, <1>4, <1>6, <1>7

\* Saving, where an action that waited for a name goes on: it drops no change but the one just saved.
LEMMA SavingDropsNothing ==
  ASSUME TypeInvariant, NEW id \in Ids(desk), modified(Tabbed(desk)[id]),
         saveScene \/ saveAllScenes \/ SaveAsAnswered
  PROVE  Answered(id)
<1>1. phase = "editing" /\ Laid(desk) /\ desk.active \in DOMAIN desk.tabs
  BY LaidFacts DEF TypeInvariant, DeskKept, saveScene, saveAllScenes, SaveAsAnswered, AtWork, Idle
<1>2. ASSUME NEW is, desk' = SaveTabs(desk, is) PROVE Answered(id)
  <2>1. PICK new : new = SaveTabs(desk, is)
    OBVIOUS
  <2>2. Ids(new) = Ids(desk)
    BY <1>1, <2>1, SavingTurns
  <2> QED
    BY <1>2, <2>1, <2>2 DEF Answered
<1>3. CASE saveScene \/ saveAllScenes
  <2>1. desk' = desk \/ \E is : desk' = SaveTabs(desk, is)
    BY <1>3 DEF saveScene, saveAllScenes
  <2> QED
    BY <1>2, <2>1 DEF Answered
<1>4. CASE SaveAsAnswered /\ desk' # desk
  <2>1. PICK p \in Paths, refused \in BOOLEAN :
          LET named == [desk EXCEPT !.live.path = p]
              saved == SaveTabs(named, {desk.active})
          IN  /\ files' = IF refused THEN files ELSE [files EXCEPT ![p] = desk.live.scene]
              /\ IF refused \/ pending = NoAction
                 THEN /\ desk' = IF refused THEN named ELSE saved
                      /\ UNCHANGED <<phase, pending, asking, entries, recoverable, folder>>
                 ELSE requestAction(saved, pending, asking)
    BY <1>4 DEF SaveAsAnswered
  <2> DEFINE named == NamedAs(desk, p)
             saved == SaveTabs(named, {desk.active})
  <2>2. named = [desk EXCEPT !.live.path = p]
    BY DEF NamedAs
  <2>3. saved = SaveTabs([desk EXCEPT !.live.path = p], {desk.active})
    BY <2>2
  <2>4. /\ Ids(named) = Ids(desk) /\ Turned(saved, desk) /\ Ids(saved) = Ids(desk)
        /\ Showing(saved, desk, SaveTab(NamedScene(desk, p)))
    BY <1>1, NamesScene DEF Edited
  <2> HIDE DEF named, saved
  <2>5. CASE refused \/ pending = NoAction
    BY <2>1, <2>2, <2>3, <2>4, <2>5 DEF Answered
  <2>6. CASE ~refused /\ requestAction(saved, pending, asking)
    <3>1. Laid(saved) /\ id \in Ids(saved)
      BY <2>4 DEF Turned
    <3>2. id \in Ids(desk') \/ ~modified(Tabbed(saved)[id])
      BY <2>6, <3>1, RequestDrops
    <3>3. CASE id \in Ids(desk')
      BY <3>3 DEF Answered
    <3>4. CASE ~modified(Tabbed(saved)[id])
      <4>1. Tabbed(saved)[id] = IF id = Shown(desk) THEN SaveTab(NamedScene(desk, p)) ELSE Tabbed(desk)[id]
        BY <2>4 DEF Showing
      <4>2. id = Shown(desk)
        BY <3>4, <4>1
      <4>3. Tabbed(desk)[id] = desk.live
        BY <1>1, <4>2, LaidFacts
      <4>4. files' = [files EXCEPT ![p] = desk.live.scene]
        BY <2>1, <2>6
      <4>5. files'[p] = Tabbed(desk)[id].scene
        BY <4>3, <4>4 DEF TypeInvariant, Filed
      <4> QED
        BY <4>5 DEF Answered
    <3> QED
      BY <3>2, <3>3, <3>4
  <2> QED
    BY <2>1, <2>3, <2>5, <2>6
<1>5. CASE desk' = desk
  BY <1>5 DEF Answered
<1> QED
  BY <1>3, <1>4, <1>5

\* Closing and quitting, with their questions.
LEMMA ClosingDropsNothing ==
  ASSUME TypeInvariant, NEW id \in Ids(desk), modified(Tabbed(desk)[id]),
         RequestClose \/ RequestLeave \/ AnswerSave \/ AnswerDiscard
  PROVE  Answered(id)
<1>1. Laid(desk) /\ phase = "editing"
  <2>1. desk # Closed
    BY ClosedIsOrderly
  <2> QED
    BY <2>1 DEF TypeInvariant, DeskKept
<1>2. ASSUME NEW action, NEW open, requestAction(desk, action, open) PROVE Answered(id)
  BY <1>1, <1>2, RequestDrops DEF Answered
<1>3. CASE RequestClose \/ RequestLeave
  BY <1>2, <1>3 DEF RequestClose, RequestLeave
<1>4. CASE asking /\ Concerned(pending, id)
  BY <1>4 DEF Answered
<1>5. CASE AnswerDiscard /\ ~Concerned(pending, id)
  <2>1. pending.kind # "leave" /\ id \notin pending.tabs
    BY <1>5 DEF Concerned
  <2>2. desk' = CloseTabs(desk, pending.tabs)
    BY <1>5, <2>1 DEF AnswerDiscard
  <2>3. PICK new : new = CloseTabs(desk, pending.tabs)
    OBVIOUS
  <2>4. Ids(desk) \ pending.tabs \subseteq Ids(new)
    BY <1>1, <2>3, ClosingFollows
  <2> QED
    BY <2>1, <2>2, <2>3, <2>4 DEF Answered
<1>6. CASE AnswerSave /\ ~Concerned(pending, id)
  <2> DEFINE affected == affectedTabs(desk, pending)
             unnamed == {i \in affected : Held(desk, i).path = NoPath}
  <2>1. PICK failed \in {{}} \cup {{i} : i \in affected \ unnamed} :
          LET stops == unnamed \cup failed
              saved == {i \in affected : \A stop \in stops : i < stop}
              k == SaveTabs(desk, saved)
          IN  IF stops = {}
              THEN requestAction(k, pending, FALSE) /\ naming' = (naming /\ phase' = "editing")
              ELSE /\ asking' = FALSE
                   /\ desk' = IF Min(stops) \in unnamed THEN activate(k, Min(stops)) ELSE k
                   /\ naming' = (naming \/ Min(stops) \in unnamed)
                   /\ pending' = IF Min(stops) \in unnamed \cup {desk.active} THEN pending ELSE NoAction
                   /\ UNCHANGED <<phase, entries, recoverable, folder>>
    BY <1>6 DEF AnswerSave
  <2>2. PICK stops : stops = unnamed \cup failed
    OBVIOUS
  <2>3. PICK saved : saved = {i \in affected : \A stop \in stops : i < stop}
    OBVIOUS
  <2>4. PICK k : k = SaveTabs(desk, saved)
    OBVIOUS
  <2>5. PICK none \in BOOLEAN : none = FALSE
    OBVIOUS
  <2>6. \/ requestAction(k, pending, none)
        \/ desk' = k
        \/ Min(stops) \in unnamed /\ desk' = activate(k, Min(stops))
    <3> HIDE DEF unnamed, affected
    <3> QED
      BY <2>1, <2>2, <2>3, <2>4, <2>5
  <2>7. Laid(k) /\ Ids(k) = Ids(desk) /\ DOMAIN k.tabs = DOMAIN desk.tabs
    BY <1>1, <2>4, SavingTurns
  <2>8. unnamed \subseteq DOMAIN desk.tabs
    BY DEF affectedTabs
  <2> HIDE DEF unnamed, affected
  <2>9. CASE requestAction(k, pending, none)
    <3>1. id \in Ids(k)
      BY <2>7
    <3> QED
      BY <1>6, <2>7, <2>9, <3>1, RequestDrops DEF Answered
  <2>10. CASE desk' = k
    BY <2>7, <2>10 DEF Answered
  <2>11. CASE Min(stops) \in unnamed /\ desk' = activate(k, Min(stops))
    <3>1. PICK new : new = activate(k, Min(stops))
      OBVIOUS
    <3>2. Ids(new) = Ids(k)
      BY <2>7, <2>8, <2>11, <3>1, TurningFollows
    <3> QED
      BY <2>7, <2>11, <3>1, <3>2 DEF Answered
  <2> QED
    BY <2>6, <2>9, <2>10, <2>11
<1>7. CASE (AnswerSave \/ AnswerDiscard) /\ Concerned(pending, id)
  BY <1>4, <1>7 DEF AnswerSave, AnswerDiscard
<1> QED
  BY <1>3, <1>5, <1>6, <1>7

\* A step after which a modified tab is gone is a crash, or the question was about it.
LEMMA NothingIsDropped ==
  ASSUME TypeInvariant, Unedited, Next, NEW id \in Ids(desk), modified(Tabbed(desk)[id])
  PROVE  crashes' > crashes \/ Answered(id)
<1>1. Laid(desk) /\ phase = "editing" /\ recoverable = {}
  <2>1. desk # Closed
    BY ClosedIsOrderly
  <2> QED
    BY <2>1 DEF TypeInvariant, DeskKept, Unedited
<1>2. CASE Crash
  BY <1>2 DEF Crash, Unedited
<1>3. CASE Edit \/ Undo \/ Redo \/ activateSceneTab \/ moveTab \/ newSceneTab \/ openSceneTab
  BY <1>3, OpeningDropsNothing DEF Answered
<1>4. CASE saveScene \/ saveAllScenes \/ SaveAsAnswered
  BY <1>4, SavingDropsNothing
<1>5. CASE RequestClose \/ RequestLeave \/ AnswerSave \/ AnswerDiscard
  BY <1>5, ClosingDropsNothing
<1>6. CASE showSaveSceneDialog \/ AnswerCancel \/ updateAutosave \/ Write
  BY <1>6 DEF showSaveSceneDialog, AnswerCancel, updateAutosave, Write, editor, Answered
<1>7. CASE OpenProject \/ CodeReady \/ recoverAutosave \/ discardAutosave
  BY <1>1, <1>7 DEF OpenProject, CodeReady, recoverAutosave, discardAutosave
<1> QED
  BY <1>2, <1>3, <1>4, <1>5, <1>6, <1>7 DEF Next

\* Unsaved changes go only with a crash or by the answer to a question about them (EditorSession.cpp,
\* requestAction and what carries it out), whatever Save As meets and whoever quits: any other step
\* leaves the scene open or writes it to a file.
THEOREM NothingIsDroppedUnasked == Spec => NothingDroppedUnasked
<1> DEFINE Asked == crashes' > crashes \/
                    \A i \in DOMAIN desk.tabs :
                     LET d == Held(desk, i)
                         id == desk.tabs[i].id
                     IN  isModified(desk, i) =>
                           \/ id \in Ids(desk')
                           \/ \E p \in Paths : files'[p] = d.scene
                           \/ asking /\ Concerned(pending, id)
<1>1. TypeInvariant /\ Unedited /\ Next => Asked
  <2>1. SUFFICES ASSUME TypeInvariant, Unedited, Next, ~(crashes' > crashes),
                        NEW i \in DOMAIN desk.tabs, isModified(desk, i)
                 PROVE  \/ desk.tabs[i].id \in Ids(desk')
                        \/ \E p \in Paths : files'[p] = Held(desk, i).scene
                        \/ asking /\ Concerned(pending, desk.tabs[i].id)
    OBVIOUS
  <2>2. Orderly(desk)
    BY <2>1, LaidFacts, ClosedIsOrderly DEF TypeInvariant, DeskKept
  <2>3. desk.tabs[i].id \in Ids(desk) /\ Tabbed(desk)[desk.tabs[i].id] = Held(desk, i)
    BY <2>1, <2>2, Places
  <2>4. modified(Tabbed(desk)[desk.tabs[i].id])
    BY <2>1, <2>3 DEF isModified
  <2> QED
    BY <2>1, <2>3, <2>4, NothingIsDropped DEF Answered
<1>2. TypeInvariant /\ Unedited /\ [Next]_vars => [Asked]_vars
  BY <1>1
<1>3. Init => Unedited
  BY DEF Init, Unedited
<1>4. TypeInvariant /\ Unedited /\ [Next]_vars => Unedited'
  BY StaysUnedited
<1>5. Spec => [][Asked]_vars
  <2> HIDE DEF Asked
  <2> QED
    BY <1>2, <1>3, <1>4, TypesAlways, PTL DEF Spec
<1> QED
  BY <1>5 DEF NothingDroppedUnasked

-----------------------------------------------------------------------------
(* The copies a session keeps are found again *)

\* The file f of the folder holds the scene, or will once the writes ws reached the disk.
Carries(ws, copies, f, scene) ==
  /\ \A w \in ToSet(ws) : w.op = "copy" /\ w.file = f => w.scene = scene
  /\ \/ \E w \in ToSet(ws) : w.op = "copy" /\ w.file = f
     \/ f \in DOMAIN copies /\ copies[f] = scene /\ \A w \in ToSet(ws) : w.op # "setAside"

\* A write that comes after another: what sets the folder aside is the first, and the index is emptied
\* after the copies and written last.
Follow(v, w) ==
  w.op # "setAside" /\ (v.op = "truncate" => w.op # "copy") /\ (v.op = "index" => w.op \notin {"copy", "truncate"})

Ordered(ws) == \A m, n \in DOMAIN ws : m < n => Follow(ws[m], ws[n])

\* What is to be written takes no copy of es away, and the index it writes names them.
Spares(ws, es) ==
  \A w \in ToSet(ws) : /\ w.op = "remove" => \A e \in es : e.file # w.file
                       /\ w.op = "removeAll" => es = {}
                       /\ w.op = "index" => w.names = Named(es)

\* The index names the copies es, or will, unless writing it failed.
Indexed(ws, index, es, failed) ==
  \/ failed
  \/ es = {}
  \/ \E w \in ToSet(ws) : w.op = "index"
  \/ Named(es) \subseteq index /\ \A w \in ToSet(ws) : w.op \notin {"truncate", "setAside"}

\* One copy for a tab, and one file for a copy.
OnePerTab(es) == \A e, f \in es : e.tab = f.tab \/ e.file = f.file => e = f

\* The states of a history stand for scenes, and the copies of the tab hold those of their states.
Traced(d, es, ws, copies) ==
  \E L : /\ StandsFor(L, d.history, d.scene)
         /\ \A e \in es : e.stamp <= d.history.lastState /\ Carries(ws, copies, e.file, L[e.stamp])

\* The copies of the tab id.
CopiesOf(es, id) == {e \in es : e.tab = id}

AllTraced(k, es, ws, copies) == \A id \in Ids(k) : Traced(Tabbed(k)[id], CopiesOf(es, id), ws, copies)

\* A copy the index names is there.
Honest(f, es) == \A x \in f.index, e \in es : x.file = e.file => e.file \in DOMAIN f.copies

Carried(es, ws, copies) == \A e \in es : \E scene : Carries(ws, copies, e.file, scene)

Accounted(es, ws, f, failed) ==
  /\ OnePerTab(es) /\ Ordered(ws) /\ Spares(ws, es) /\ Indexed(ws, f.index, es, failed)
  /\ Carried(es, ws, f.copies) /\ Honest(f, es)

\* What is left of ordered writes is ordered.
LEMMA TailIsOrdered ==
  ASSUME NEW ws \in Seq(Writes), ws # <<>>, Ordered(ws)
  PROVE  /\ Ordered(Tail(ws))
         /\ \A w \in ToSet(Tail(ws)) : Follow(Head(ws), w)
<1>1. /\ Tail(ws) \in Seq(Writes) /\ Len(Tail(ws)) = Len(ws) - 1 /\ Head(ws) = ws[1]
      /\ \A i \in 1 .. Len(Tail(ws)) : Tail(ws)[i] = ws[i + 1]
  BY HeadTailProperties
<1>2. /\ Len(ws) \in Nat \ {0} /\ DOMAIN ws = 1 .. Len(ws) /\ DOMAIN Tail(ws) = 1 .. Len(ws) - 1
  BY <1>1, EmptySeq, LenProperties
<1>3. \A n \in DOMAIN Tail(ws) : n + 1 \in DOMAIN ws /\ Tail(ws)[n] = ws[n + 1] /\ 1 < n + 1
  BY <1>1, <1>2
<1>4. Ordered(Tail(ws))
  <2>1. ASSUME NEW m \in DOMAIN Tail(ws), NEW n \in DOMAIN Tail(ws), m < n
        PROVE  Follow(Tail(ws)[m], Tail(ws)[n])
    <3>1. m + 1 < n + 1
      BY <1>2, <2>1
    <3> QED
      BY <1>3, <3>1 DEF Ordered
  <2> QED
    BY <2>1 DEF Ordered
<1>5. 1 \in DOMAIN ws
  BY <1>2
<1>6. \A n \in DOMAIN Tail(ws) : Follow(Head(ws), Tail(ws)[n])
  BY <1>1, <1>3, <1>5 DEF Ordered
<1>7. ToSet(Tail(ws)) = {Tail(ws)[n] : n \in DOMAIN Tail(ws)}
  BY DEF ToSet
<1> QED
  BY <1>4, <1>6, <1>7

\* Ordered writes after ordered ones are, if the index comes last.
LEMMA ConcatIsOrdered ==
  ASSUME NEW s \in Seq(Writes), NEW t \in Seq(Writes), Ordered(s), Ordered(t),
         \A w \in ToSet(t) : w.op # "setAside",
         (\A w \in ToSet(s) : w.op \notin {"truncate", "index"}) \/ (\A w \in ToSet(t) : w.op \notin {"copy", "truncate"})
  PROVE  Ordered(s \o t)
<1>1. PICK a \in Nat : a = Len(s)
  BY LenProperties
<1>2. PICK b \in Nat : b = Len(t)
  BY LenProperties
<1>3. PICK all \in Nat : all = a + b
  OBVIOUS
<1>4. PICK st : st = s \o t
  OBVIOUS
<1>5. /\ st \in Seq(Writes) /\ Len(st) = all
      /\ \A j \in 1 .. all : st[j] = IF j <= a THEN s[j] ELSE t[j - a]
  BY <1>1, <1>2, <1>3, <1>4, ConcatIs
<1>6. DOMAIN st = 1 .. all /\ DOMAIN s = 1 .. a /\ DOMAIN t = 1 .. b
  BY <1>1, <1>2, <1>5, LenProperties
<1>7. \A j \in 1 .. all : \/ j \in DOMAIN s /\ j <= a /\ st[j] = s[j]
                          \/ j - a \in DOMAIN t /\ j > a /\ st[j] = t[j - a]
  BY <1>3, <1>5, <1>6
<1>8. (\A j \in DOMAIN s : s[j] \in ToSet(s)) /\ (\A j \in DOMAIN t : t[j] \in ToSet(t))
  BY DEF ToSet
<1>9. ASSUME NEW m \in 1 .. all, NEW n \in 1 .. all, m < n
      PROVE  Follow(st[m], st[n])
  <2>1. CASE n \in DOMAIN s /\ n <= a /\ st[n] = s[n]
    <3>1. m \in DOMAIN s /\ st[m] = s[m]
      BY <1>3, <1>7, <1>9, <2>1
    <3> QED
      BY <1>9, <2>1, <3>1 DEF Ordered
  <2>2. CASE n - a \in DOMAIN t /\ n > a /\ st[n] = t[n - a]
    <3>1. CASE m \in DOMAIN s /\ m <= a /\ st[m] = s[m]
      BY <1>8, <2>2, <3>1 DEF Follow
    <3>2. CASE m - a \in DOMAIN t /\ m > a /\ st[m] = t[m - a]
      <4>1. m - a < n - a
        BY <1>9
      <4> QED
        BY <2>2, <3>2, <4>1 DEF Ordered
    <3> QED
      BY <1>7, <3>1, <3>2
  <2> QED
    BY <1>7, <2>1, <2>2
<1>10. Ordered(st)
  BY <1>6, <1>9 DEF Ordered
<1> QED
  BY <1>4, <1>10

\* One write reaches the disk, and those after it keep their promises.
LEMMA WriteCarries ==
  ASSUME NEW ws, NEW rest, NEW w, ToSet(ws) = {w} \cup ToSet(rest),
         \A v \in ToSet(rest) : v.op # "setAside",
         NEW copies, NEW new, NEW f, NEW scene, Carries(ws, copies, f, scene),
         w.op = "copy" /\ w.file = f => f \in DOMAIN new /\ new[f] = w.scene,
         ~(w.op = "copy" /\ w.file = f) /\ w.op # "setAside" /\ f \in DOMAIN copies
           => f \in DOMAIN new /\ new[f] = copies[f]
  PROVE  Carries(rest, new, f, scene)
<1>1. \A v \in ToSet(rest) : v.op = "copy" /\ v.file = f => v.scene = scene
  BY DEF Carries
<1>2. CASE \E v \in ToSet(rest) : v.op = "copy" /\ v.file = f
  BY <1>1, <1>2 DEF Carries
<1>3. CASE ~ \E v \in ToSet(rest) : v.op = "copy" /\ v.file = f
  <2>1. CASE w.op = "copy" /\ w.file = f
    <3>1. w.scene = scene
      BY <2>1 DEF Carries
    <3> QED
      BY <1>1, <2>1, <3>1 DEF Carries
  <2>2. CASE ~(w.op = "copy" /\ w.file = f)
    <3>1. f \in DOMAIN copies /\ copies[f] = scene /\ w.op # "setAside"
      BY <1>3, <2>2 DEF Carries
    <3> QED
      BY <1>1, <2>2, <3>1 DEF Carries
  <2> QED
    BY <2>1, <2>2
<1> QED
  BY <1>2, <1>3

\* What a write leaves in the folder: of each copy of es what it was, unless it is the one written.
WritesOne(w, f, new, es) ==
  /\ \A e \in es :
       /\ w.op = "copy" /\ w.file = e.file => e.file \in DOMAIN new.copies /\ new.copies[e.file] = w.scene
       /\ ~(w.op = "copy" /\ w.file = e.file) /\ w.op # "setAside" /\ e.file \in DOMAIN f.copies
            => e.file \in DOMAIN new.copies /\ new.copies[e.file] = f.copies[e.file]
  /\ new.index = CASE w.op \in {"copy", "remove"} -> f.index
                   [] w.op = "index" -> w.names
                   [] w.op \in {"truncate", "removeAll", "setAside"} -> {}

\* A write does the first of the writes, and takes no copy away that is kept.
LEMMA WriteDoes ==
  ASSUME CopiesTyped, writes # <<>>, WriteDone, Spares(writes, entries)
  PROVE  WritesOne(Head(writes), folder, folder', entries)
<1> DEFINE next == Head(writes)
<1>1. next \in Writes /\ next \in ToSet(writes)
  <2>1. writes # <<>> /\ writes \in Seq(Writes)
    BY DEF CopiesTyped
  <2> QED
    BY <2>1, ToSetTail
<1>2. folder = [copies |-> folder.copies, index |-> folder.index]
  BY DEF CopiesTyped, FolderShaped
<1>3. folder' =
        CASE next.op = "copy" -> [folder EXCEPT !.copies = Put(@, next.file, next.scene)]
          [] next.op = "remove" -> [folder EXCEPT !.copies = Restrict(@, DOMAIN @ \ {next.file})]
          [] next.op = "truncate" -> [folder EXCEPT !.index = {}]
          [] next.op = "index" -> [folder EXCEPT !.index = next.names]
          [] next.op \in {"removeAll", "setAside"} -> NoFolder
  BY DEF WriteDone
<1>4. /\ next.op = "remove" => \A e \in entries : e.file # next.file
      /\ next.op = "removeAll" => entries = {}
  BY <1>1 DEF Spares
<1> HIDE DEF next
<1>5. CASE next.op = "copy"
  <2> DEFINE copies == Put(folder.copies, next.file, next.scene)
  <2>1. DOMAIN copies = {next.file} \cup DOMAIN folder.copies
    BY DEF Put
  <2>2. \A n \in DOMAIN copies : copies[n] = IF n = next.file THEN next.scene ELSE folder.copies[n]
    BY DEF Put
  <2>3. folder' = [copies |-> copies, index |-> folder.index]
    BY <1>2, <1>3, <1>5
  <2> HIDE DEF copies
  <2>4. folder'.copies = copies /\ folder'.index = folder.index
    BY <2>3
  <2> QED
    BY <1>5, <2>1, <2>2, <2>4 DEF WritesOne, next
<1>6. CASE next.op = "remove"
  <2> DEFINE copies == Restrict(folder.copies, DOMAIN folder.copies \ {next.file})
  <2>1. DOMAIN copies = DOMAIN folder.copies \ {next.file} /\ \A n \in DOMAIN copies : copies[n] = folder.copies[n]
    BY DEF Restrict
  <2>2. folder' = [copies |-> copies, index |-> folder.index]
    BY <1>2, <1>3, <1>6
  <2> HIDE DEF copies
  <2>3. folder'.copies = copies /\ folder'.index = folder.index
    BY <2>2
  <2> QED
    BY <1>4, <1>6, <2>1, <2>3 DEF WritesOne, next
<1>7. CASE next.op \in {"truncate", "index"}
  <2>1. folder'.copies = folder.copies /\ folder'.index = IF next.op = "index" THEN next.names ELSE {}
    BY <1>2, <1>3, <1>7
  <2> QED
    BY <1>7, <2>1 DEF WritesOne, next
<1>8. CASE next.op \in {"removeAll", "setAside"}
  <2>1. folder'.index = {}
    BY <1>3, <1>8 DEF NoFolder
  <2> QED
    BY <1>4, <1>8, <2>1 DEF WritesOne, next
<1>9. next.op \in {"copy", "remove", "truncate", "index", "removeAll", "setAside"}
  BY <1>1 DEF Writes
<1> QED
  BY <1>5, <1>6, <1>7, <1>8, <1>9

\* After it the rest accounts for the copies as all did before.
LEMMA WriteAccounts ==
  ASSUME NEW ws \in Seq(Writes), ws # <<>>, NEW es, NEW f, NEW new, WritesOne(Head(ws), f, new, es),
         NEW failed, NEW fails, failed /\ Head(ws).op # "index" => fails, Accounted(es, ws, f, failed)
  PROVE  /\ Accounted(es, Tail(ws), new, fails)
         /\ \A e \in es : \A scene : Carries(ws, f.copies, e.file, scene) => Carries(Tail(ws), new.copies, e.file, scene)
<1> DEFINE w == Head(ws)
           rest == Tail(ws)
<1>1. w \in Writes /\ rest \in Seq(Writes) /\ ToSet(ws) = {w} \cup ToSet(rest)
  BY ToSetTail
<1>2. /\ Ordered(rest)
      /\ \A v \in ToSet(rest) : v.op # "setAside" /\ (w.op = "index" => v.op \notin {"copy", "truncate"})
  BY TailIsOrdered DEF Accounted, Follow
<1>3. WritesOne(w, f, new, es) /\ (failed /\ w.op # "index" => fails)
  OBVIOUS
<1> HIDE DEF w, rest
<1>4. ASSUME NEW e \in es, NEW scene, Carries(ws, f.copies, e.file, scene)
      PROVE  Carries(rest, new.copies, e.file, scene)
  <2> DEFINE file == e.file
             copies == f.copies
             now == new.copies
  <2>1. /\ w.op = "copy" /\ w.file = file => file \in DOMAIN now /\ now[file] = w.scene
        /\ ~(w.op = "copy" /\ w.file = file) /\ w.op # "setAside" /\ file \in DOMAIN copies
             => file \in DOMAIN now /\ now[file] = copies[file]
    BY <1>3 DEF WritesOne
  <2>2. Carries(ws, copies, file, scene)
    BY <1>4
  <2> HIDE DEF file, copies, now
  <2>3. Carries(rest, now, file, scene)
    BY <1>1, <1>2, <2>1, <2>2, WriteCarries
  <2> QED
    BY <2>3 DEF file, now
<1>5. Carried(es, rest, new.copies)
  BY <1>4 DEF Accounted, Carried
<1>6. OnePerTab(es) /\ Spares(rest, es)
  BY <1>1 DEF Accounted, Spares
<1>7. w.op \in {"copy", "remove", "truncate", "index", "removeAll", "setAside"}
  BY <1>1 DEF Writes
<1>8. Indexed(rest, new.index, es, fails)
  <2>1. CASE es = {}
    BY <2>1 DEF Indexed
  <2>2. CASE es # {} /\ w.op = "index"
    <3>1. new.index = Named(es)
      BY <1>1, <1>3, <2>2 DEF WritesOne, Accounted, Spares
    <3> QED
      BY <1>2, <2>2, <3>1 DEF Indexed
  <2>3. CASE es # {} /\ w.op # "index"
    <3>1. CASE \E v \in ToSet(ws) : v.op = "index"
      BY <1>1, <2>3, <3>1 DEF Indexed
    <3>2. CASE Named(es) \subseteq f.index /\ \A v \in ToSet(ws) : v.op \notin {"truncate", "setAside"}
      <4>1. w.op \in {"copy", "remove"}
        BY <1>1, <1>7, <2>3, <3>2 DEF Accounted, Spares
      <4>2. new.index = f.index
        BY <1>3, <4>1 DEF WritesOne
      <4> QED
        BY <1>1, <3>2, <4>2 DEF Indexed
    <3>3. CASE failed
      BY <1>3, <2>3, <3>3 DEF Indexed
    <3> QED
      BY <2>3, <3>1, <3>2, <3>3 DEF Accounted, Indexed
  <2> QED
    BY <2>1, <2>2, <2>3
<1>9. Honest(new, es)
  <2>1. SUFFICES ASSUME NEW x \in new.index, NEW e \in es, x.file = e.file PROVE e.file \in DOMAIN new.copies
    BY DEF Honest
  <2>2. CASE w.op \in {"copy", "remove"}
    <3>1. x \in f.index
      BY <1>3, <2>1, <2>2 DEF WritesOne
    <3>2. e.file \in DOMAIN f.copies
      BY <2>1, <3>1 DEF Accounted, Honest
    <3> QED
      BY <1>3, <2>2, <3>2 DEF WritesOne
  <2>3. CASE w.op = "index"
    <3>1. PICK scene : Carries(rest, new.copies, e.file, scene)
      BY <1>5 DEF Carried
    <3> QED
      BY <1>2, <2>3, <3>1 DEF Carries
  <2>4. CASE w.op \in {"truncate", "removeAll", "setAside"}
    BY <1>3, <2>1, <2>4 DEF WritesOne
  <2> QED
    BY <1>7, <2>2, <2>3, <2>4
<1> QED
  BY <1>2, <1>4, <1>5, <1>6, <1>8, <1>9 DEF Accounted, rest

\* A write of the index that fails is the last, and takes no copy away.
LEMMA FailureAccounts ==
  ASSUME NEW ws \in Seq(Writes), ws # <<>>, Head(ws).op \in {"truncate", "index"}, NEW es,
         NEW f, NEW new, new.copies = f.copies, NEW failed, Accounted(es, ws, f, failed)
  PROVE  /\ Accounted(es, <<>>, new, TRUE)
         /\ \A e \in es : \A scene : Carries(ws, f.copies, e.file, scene) => Carries(<<>>, new.copies, e.file, scene)
<1>1. ToSet(ws) = {Head(ws)} \cup ToSet(Tail(ws))
  BY ToSetTail
<1>2. \A w \in ToSet(ws) : w.op # "copy"
  BY <1>1, TailIsOrdered DEF Accounted, Follow
<1>3. ToSet(<<>>) = {} /\ Ordered(<<>>)
  <2>1. DOMAIN <<>> = {}
    OBVIOUS
  <2> QED
    BY <2>1 DEF ToSet, Ordered
<1>4. \A e \in es : \A scene : Carries(ws, f.copies, e.file, scene)
        => Carries(<<>>, f.copies, e.file, scene) /\ e.file \in DOMAIN f.copies
  BY <1>2, <1>3 DEF Carries
<1>5. Carried(es, <<>>, new.copies) /\ Honest(new, es)
  BY <1>4 DEF Accounted, Carried, Honest
<1>6. Accounted(es, <<>>, new, TRUE)
  BY <1>3, <1>5 DEF Accounted, Spares, Indexed
<1> QED
  BY <1>4, <1>6

\* Different places have different new names.
LEMMA FreshApart ==
  ASSUME NEW used, IsFiniteSet(used), NEW S \in SUBSET Nat, IsFiniteSet(S), NEW i \in S
  PROVE  /\ Fresh(used, Cardinality(UpTo(S, i))) \in Nat \ used
         /\ \A j \in S : Fresh(used, Cardinality(UpTo(S, i))) = Fresh(used, Cardinality(UpTo(S, j))) => i = j
<1>1. \A j \in S : /\ Cardinality(UpTo(S, j)) \in 1 .. Cardinality(S)
                   /\ Nth(S, Cardinality(UpTo(S, j))) = j
  BY NthOf
<1>2. Cardinality(S) \in Nat
  BY FS_CardinalityType
<1>3. \A j \in S : Cardinality(UpTo(S, j)) \in Nat \ {0}
  <2>1. PICK c \in Nat : c = Cardinality(S)
    BY <1>2
  <2>2. \A n \in 1 .. c : n \in Nat \ {0}
    BY <2>1
  <2> QED
    BY <1>1, <2>1, <2>2
<1>4. \A j \in S : LET n == Cardinality(UpTo(S, j))
                   IN  /\ Fresh(used, n) \in Nat \ used
                       /\ Cardinality((1 .. Fresh(used, n)) \ used) = n
  BY <1>3, FreshIs
<1>5. ASSUME NEW j \in S, Fresh(used, Cardinality(UpTo(S, i))) = Fresh(used, Cardinality(UpTo(S, j)))
      PROVE  i = j
  <2>1. Cardinality(UpTo(S, i)) = Cardinality(UpTo(S, j))
    BY <1>4, <1>5
  <2> QED
    BY <1>1, <2>1
<1> QED
  BY <1>4, <1>5

\* A tab that is copied keeps the file of its copy or has one of nobody's, and no two have the same.
FilesApart(k, known, C, name) ==
  /\ C \subseteq DOMAIN k.tabs
  /\ \A i \in C : \/ \E e \in known : e.tab = k.tabs[i].id /\ e.file = name[i]
                  \/ (\A e \in known : e.file # name[i]) /\ (\A x \in folder.index : x.file # name[i])
  /\ \A i, j \in C : name[i] = name[j] => i = j

\* What the session keeps: the copies that are made, and some of the others as they were.
Keeping(k, known, es, C, name) ==
  /\ \A e \in es :
       \/ \E i \in C : e.tab = k.tabs[i].id /\ e.file = name[i] /\ e.stamp = stateId(Held(k, i).history)
       \/ \E x \in known : \E i \in DOMAIN k.tabs \ C :
            x.tab = k.tabs[i].id /\ e.tab = x.tab /\ e.file = x.file /\ e.stamp = x.stamp
  /\ \A e, f \in es : e.tab = f.tab => e = f

\* What is written: the copies, without what is no longer kept, and the index if something changed.
Copying(k, known, before, es, ws, C, name) ==
  \E copies, removals, last \in Seq(Writes) :
    /\ ws = before \o copies \o removals \o last
    /\ \A w \in ToSet(copies) : \E i \in C : w.op = "copy" /\ w.file = name[i] /\ w.scene = Held(k, i).scene
    /\ \A i \in C : \E w \in ToSet(copies) : w.op = "copy" /\ w.file = name[i]
    /\ \A w \in ToSet(removals) : w.op = "remove" /\ \A e \in es : e.file # w.file
    /\ last = IndexWrites(es) \/ (last = <<>> /\ C = {} /\ es \subseteq known)

\* What syncCopies leaves: the copies it keeps, the names it makes up and the writes, in their
\* order.
LEMMA SyncIs ==
  ASSUME NEW k, Orderly(k), NEW known, known \subseteq Copies, IsFiniteSet(known), OnePerTab(known),
         FolderFinite, NEW copy \in BOOLEAN, NEW before \in Seq(Writes),
         syncCopies(k, known, copy, before)
  PROVE  \E C, name : /\ FilesApart(k, known, C, name)
                      /\ Keeping(k, known, entries', C, name)
                      /\ Copying(k, known, before, entries', writes', C, name)
<1> DEFINE due == Due(k, known, copy)
           old(i) == {e \in known : e.tab = k.tabs[i].id}
           staying == {i \in DOMAIN k.tabs : isModified(k, i)} \ due
           used == {e.file : e \in known \cup folder.index} \cup DOMAIN folder.copies
           unnamed(i) == {j \in due : j <= i /\ old(j) = {}}
           name(i) == IF old(i) # {} THEN (CHOOSE e \in old(i) : TRUE).file
                      ELSE Fresh(used, Cardinality(unnamed(i)))
           entry(i) == [tab |-> k.tabs[i].id, file |-> name(i), original |-> Held(k, i).path,
                        stamp |-> stateId(Held(k, i).history)]
           stay(i) == {[e EXCEPT !.original = Held(k, i).path] : e \in old(i)}
           copied(failed) == due \ failed
           kept(failed) == {entry(i) : i \in copied(failed)} \cup (UNION {stay(i) : i \in staying})
                             \cup (UNION {old(i) : i \in failed})
           dropped(failed) == {e.file : e \in known} \ {e.file : e \in kept(failed)}
           copies(failed) == [n \in 1 .. Cardinality(copied(failed)) |->
                                LET i == Nth(copied(failed), n)
                                IN  [op |-> "copy", file |-> name(i), scene |-> Held(k, i).scene]]
           removals(failed) == [n \in 1 .. Cardinality(dropped(failed)) |->
                                  [op |-> "remove", file |-> Nth(dropped(failed), n)]]
           changed(failed) == \/ copied(failed) # {} \/ dropped(failed) # {}
                              \/ \E i \in staying : stay(i) # old(i)
<1>1. PICK failed \in SUBSET due :
        /\ entries' = kept(failed)
        /\ writes' = before \o copies(failed) \o removals(failed)
                       \o (IF changed(failed) THEN IndexWrites(kept(failed)) ELSE <<>>)
  BY DEF syncCopies
<1>2. /\ Len(k.tabs) \in Nat /\ DOMAIN k.tabs = 1 .. Len(k.tabs)
      /\ \A i \in DOMAIN k.tabs : k.tabs[i].id \in Nat /\ Held(k, i) \in Document
  BY Places DEF Tab
<1>3. \A i, j \in DOMAIN k.tabs : k.tabs[i].id = k.tabs[j].id => i = j
  BY DEF Orderly
<1>4. due \subseteq DOMAIN k.tabs /\ staying \subseteq DOMAIN k.tabs
  BY DEF Due
<1>5. due \in SUBSET Nat /\ IsFiniteSet(due)
  <2>1. \A n \in Nat : IsFiniteSet(1 .. n)
    BY FS_Interval
  <2>2. IsFiniteSet(DOMAIN k.tabs) /\ DOMAIN k.tabs \in SUBSET Nat
    BY <1>2, <2>1
  <2> QED
    BY <1>4, <2>2, FS_Subset
<1>6. IsFiniteSet(used)
  <2>1. /\ IsFiniteSet({e.file : e \in known}) /\ IsFiniteSet({e.file : e \in folder.index})
        /\ IsFiniteSet(DOMAIN folder.copies)
    BY FiniteNames DEF FolderFinite, FolderOk
  <2>2. used = ({e.file : e \in known} \cup {e.file : e \in folder.index}) \cup DOMAIN folder.copies
    OBVIOUS
  <2> HIDE DEF used
  <2> QED
    BY <2>1, <2>2, FS_Union
<1>7. /\ \A e \in known : e.file \in used
      /\ \A x \in folder.index : x.file \in used
  OBVIOUS
<1> HIDE DEF due, used
<1>8. \A i \in due : \/ old(i) # {} /\ \E e \in old(i) : e.file = name(i)
                     \/ old(i) = {} /\ name(i) \in Nat \ used
  <2>1. TAKE i \in due
  <2>2. CASE old(i) # {}
    BY <2>2
  <2>3. CASE old(i) = {}
    <3> DEFINE S == {j \in due : old(j) = {}}
    <3>1. S \in SUBSET Nat /\ IsFiniteSet(S) /\ i \in S
      BY <1>5, <2>3, FS_Subset
    <3>2. unnamed(i) = UpTo(S, i)
      BY DEF UpTo
    <3>3. name(i) = Fresh(used, Cardinality(UpTo(S, i)))
      BY <2>3, <3>2
    <3> HIDE DEF S, name
    <3>4. Fresh(used, Cardinality(UpTo(S, i))) \in Nat \ used
      BY <1>6, <3>1, FreshApart
    <3> QED
      BY <2>3, <3>3, <3>4
  <2> QED
    BY <2>2, <2>3
<1>9. ASSUME NEW i \in due, NEW j \in due, name(i) = name(j) PROVE i = j
  <2>1. CASE old(i) # {} /\ old(j) # {}
    <3>1. PICK e \in old(i), f \in old(j) : e.file = name(i) /\ f.file = name(j)
      BY <1>8, <2>1
    <3>2. e = f
      <4>1. e \in known /\ f \in known /\ e.file = f.file
        BY <1>9, <3>1
      <4> QED
        BY <4>1 DEF OnePerTab
    <3>3. k.tabs[i].id = k.tabs[j].id
      BY <3>1, <3>2
    <3> QED
      BY <1>3, <1>4, <3>3
  <2>2. CASE old(i) = {} /\ old(j) = {}
    <3> DEFINE S == {l \in due : old(l) = {}}
    <3>1. S \in SUBSET Nat /\ IsFiniteSet(S) /\ i \in S /\ j \in S
      BY <1>5, <2>2, FS_Subset
    <3>2. unnamed(i) = UpTo(S, i) /\ unnamed(j) = UpTo(S, j)
      BY DEF UpTo
    <3>3. /\ name(i) = Fresh(used, Cardinality(UpTo(S, i)))
          /\ name(j) = Fresh(used, Cardinality(UpTo(S, j)))
      BY <2>2, <3>2
    <3>4. Fresh(used, Cardinality(UpTo(S, i))) = Fresh(used, Cardinality(UpTo(S, j)))
      BY <1>9, <3>3
    <3> HIDE DEF S
    <3> QED
      BY <1>6, <3>1, <3>4, FreshApart
  <2>3. CASE old(i) # {} /\ old(j) = {}
    <3>1. name(i) \in used /\ name(j) \notin used
      <4> HIDE DEF name
      <4> QED
        BY <1>7, <1>8, <2>3
    <3> QED
      BY <1>9, <3>1
  <2>4. CASE old(i) = {} /\ old(j) # {}
    <3>1. name(j) \in used /\ name(i) \notin used
      <4> HIDE DEF name
      <4> QED
        BY <1>7, <1>8, <2>4
    <3> QED
      BY <1>9, <3>1
  <2> QED
    BY <2>1, <2>2, <2>3, <2>4
<1> HIDE DEF name
<1> DEFINE C == copied(failed)
           named == [i \in C |-> name(i)]
<1>10. C \subseteq due /\ IsFiniteSet(C) /\ C \in SUBSET Nat /\ \A i \in C : named[i] = name(i)
  BY <1>5, FS_Subset
<1>11. FilesApart(k, known, C, named)
  <2>1. \A i \in C : \/ \E e \in known : e.tab = k.tabs[i].id /\ e.file = name(i)
                     \/ (\A e \in known : e.file # name(i)) /\ (\A x \in folder.index : x.file # name(i))
    BY <1>7, <1>8, <1>10
  <2> HIDE DEF C, named
  <2> QED
    BY <1>4, <1>9, <1>10, <2>1 DEF FilesApart
<1>12. /\ \A e \in kept(failed) :
            \/ \E i \in C : e = entry(i)
            \/ \E i \in staying : e \in stay(i)
            \/ \E i \in failed : e \in old(i)
  <2> HIDE DEF entry, stay, old, staying, C
  <2> QED
    BY DEF C
<1>13. \A i \in staying : i \in DOMAIN k.tabs \ C
  BY <1>4, <1>10
<1>14. \A i \in failed : i \in DOMAIN k.tabs \ C /\ i \notin staying
  BY <1>1, <1>4
<1>15. ASSUME NEW i \in DOMAIN k.tabs, NEW e \in stay(i)
       PROVE  \E x \in old(i) : /\ x.tab = k.tabs[i].id /\ e.tab = x.tab /\ e.file = x.file /\ e.stamp = x.stamp
                                /\ e = [x EXCEPT !.original = Held(k, i).path]
  <2>1. PICK x \in old(i) : e = [x EXCEPT !.original = Held(k, i).path]
    BY <1>15
  <2>2. x \in Copies
    BY <2>1
  <2>3. e.tab = x.tab /\ e.file = x.file /\ e.stamp = x.stamp
    BY <2>1, <2>2 DEF Copies
  <2> QED
    BY <2>1, <2>3
<1>16. \A i : \A x, y \in old(i) : x = y
  BY DEF OnePerTab
<1>17. \A i \in C : entry(i).tab = k.tabs[i].id /\ entry(i).file = name(i) /\ entry(i).stamp = stateId(Held(k, i).history)
  OBVIOUS
<1>18. \A i : \A x \in old(i) : x \in known /\ x.tab = k.tabs[i].id
  OBVIOUS
<1> HIDE DEF entry, stay, old, staying, C, named
<1>19. Keeping(k, known, kept(failed), C, named)
  <2> DEFINE From(e, i) == \/ i \in C /\ e = entry(i)
                           \/ i \in staying /\ e \in stay(i)
                           \/ i \in failed /\ e \in old(i)
  <2>1. \A e \in kept(failed) : \E i \in DOMAIN k.tabs : From(e, i) /\ e.tab = k.tabs[i].id
    <3>1. TAKE e \in kept(failed)
    <3>2. ASSUME NEW i \in C, e = entry(i) PROVE i \in DOMAIN k.tabs /\ e.tab = k.tabs[i].id
      BY <1>4, <1>10, <1>17, <3>2
    <3>3. ASSUME NEW i \in staying, e \in stay(i) PROVE i \in DOMAIN k.tabs /\ e.tab = k.tabs[i].id
      BY <1>13, <1>15, <3>3
    <3>4. ASSUME NEW i \in failed, e \in old(i) PROVE i \in DOMAIN k.tabs /\ e.tab = k.tabs[i].id
      BY <1>14, <1>18, <3>4
    <3> HIDE DEF kept
    <3> QED
      BY <1>12, <3>2, <3>3, <3>4
  <2>2. ASSUME NEW e \in kept(failed), NEW f \in kept(failed), e.tab = f.tab PROVE e = f
    <3>1. PICK i \in DOMAIN k.tabs : From(e, i) /\ e.tab = k.tabs[i].id
      BY <2>1
    <3>2. PICK j \in DOMAIN k.tabs : From(f, j) /\ f.tab = k.tabs[j].id
      BY <2>1
    <3>3. i = j
      BY <1>3, <2>2, <3>1, <3>2
    <3>4. CASE i \in C
      BY <1>13, <1>14, <3>1, <3>2, <3>3, <3>4
    <3>5. CASE i \in staying
      <4>1. e \in stay(i) /\ f \in stay(i)
        BY <1>13, <1>14, <3>1, <3>2, <3>3, <3>5
      <4>2. PICK x \in old(i) : e = [x EXCEPT !.original = Held(k, i).path]
        BY <1>15, <4>1
      <4>3. PICK y \in old(i) : f = [y EXCEPT !.original = Held(k, i).path]
        BY <1>15, <4>1
      <4>4. x = y
        BY <1>16
      <4> QED
        BY <4>2, <4>3, <4>4
    <3>6. CASE i \in failed
      BY <1>14, <1>16, <3>1, <3>2, <3>3, <3>6
    <3> QED
      BY <3>1, <3>4, <3>5, <3>6
  <2>3. ASSUME NEW e \in kept(failed)
        PROVE  \/ \E i \in C : e.tab = k.tabs[i].id /\ e.file = named[i] /\ e.stamp = stateId(Held(k, i).history)
               \/ \E x \in known : \E i \in DOMAIN k.tabs \ C :
                    x.tab = k.tabs[i].id /\ e.tab = x.tab /\ e.file = x.file /\ e.stamp = x.stamp
    <3>1. CASE \E i \in C : e = entry(i)
      BY <1>10, <1>17, <3>1
    <3>2. CASE \E i \in staying : e \in stay(i)
      BY <1>13, <1>15, <1>18, <3>2
    <3>3. CASE \E i \in failed : e \in old(i)
      BY <1>14, <1>18, <3>3
    <3> HIDE DEF kept
    <3> QED
      BY <1>12, <3>1, <3>2, <3>3
  <2> HIDE DEF kept
  <2> QED
    BY <2>2, <2>3 DEF Keeping
<1> HIDE DEF kept
<1>20. /\ copies(failed) \in Seq(Writes)
       /\ \A w \in ToSet(copies(failed)) : \E i \in C : w.op = "copy" /\ w.file = name(i) /\ w.scene = Held(k, i).scene
       /\ \A i \in C : \E w \in ToSet(copies(failed)) : w.op = "copy" /\ w.file = name(i)
  <2> DEFINE put(i) == [op |-> "copy", file |-> name(i), scene |-> Held(k, i).scene]
             c == Cardinality(C)
  <2>1. copies(failed) = [n \in 1 .. c |-> put(Nth(C, n))]
    BY DEF C
  <2>2. \A i \in C : put(i) \in Writes /\ put(i).op = "copy" /\ put(i).file = name(i) /\ put(i).scene = Held(k, i).scene
    <3>1. TAKE i \in C
    <3>2. Held(k, i).scene \in Nat
      BY <1>2, <1>4, <1>10 DEF Document
    <3>3. name(i) \in Nat
      <4>1. \A e \in known : e.file \in Nat
        BY DEF Copies
      <4> QED
        BY <1>8, <1>10, <1>18, <4>1
    <3> QED
      BY <3>2, <3>3 DEF Writes
  <2>3. c \in Nat
    BY <1>10, FS_CardinalityType
  <2>4. \A n \in 1 .. c : Nth(C, n) \in C
    BY <1>10, NthIs
  <2>5. \A i \in C : \E n \in 1 .. c : Nth(C, n) = i
    <3>1. TAKE i \in C
    <3>2. /\ Cardinality(UpTo(C, i)) \in 1 .. Cardinality(C)
          /\ Nth(C, Cardinality(UpTo(C, i))) = i
      BY <1>10, NthOf
    <3> QED
      BY <3>2
  <2> HIDE DEF put, c, copies
  <2>6. PICK s : s = copies(failed)
    OBVIOUS
  <2>7. s \in [1 .. c -> Writes] /\ \A n \in 1 .. c : s[n] = put(Nth(C, n))
    BY <2>1, <2>2, <2>4, <2>6
  <2>8. s \in Seq(Writes)
    BY <2>3, <2>7, FunctionIsSeq
  <2>9. ToSet(s) = {put(Nth(C, n)) : n \in 1 .. c}
    BY <2>7 DEF ToSet
  <2>10. \A w \in ToSet(s) : \E i \in C : w = put(i)
    BY <2>4, <2>9
  <2>11. \A i \in C : put(i) \in ToSet(s)
    BY <2>5, <2>9
  <2> QED
    BY <2>2, <2>6, <2>8, <2>10, <2>11
<1>21. /\ removals(failed) \in Seq(Writes)
       /\ \A w \in ToSet(removals(failed)) : w.op = "remove" /\ \A e \in kept(failed) : e.file # w.file
  <2> DEFINE s == dropped(failed)
             c == Cardinality(s)
  <2>1. IsFiniteSet(s) /\ s \in SUBSET Nat
    BY FiniteNames, FS_Subset
  <2>2. \A f \in s : \A e \in kept(failed) : e.file # f
    OBVIOUS
  <2> HIDE DEF s
  <2>3. c \in Nat
    BY <2>1, FS_CardinalityType
  <2>4. \A n \in 1 .. c : Nth(s, n) \in s
    BY <2>1, NthIs
  <2>5. removals(failed) = [n \in 1 .. c |-> [op |-> "remove", file |-> Nth(s, n)]]
    BY DEF s
  <2>6. \A n \in 1 .. c : [op |-> "remove", file |-> Nth(s, n)] \in Writes
    BY <2>1, <2>4 DEF Writes
  <2> HIDE DEF c, removals
  <2>7. PICK r : r = removals(failed)
    OBVIOUS
  <2>8. r \in [1 .. c -> Writes] /\ \A n \in 1 .. c : r[n].op = "remove" /\ r[n].file = Nth(s, n)
    BY <2>5, <2>6, <2>7
  <2>9. r \in Seq(Writes)
    BY <2>3, <2>8, FunctionIsSeq
  <2>10. ToSet(r) = {r[n] : n \in 1 .. c}
    BY <2>8 DEF ToSet
  <2> QED
    BY <2>2, <2>4, <2>7, <2>8, <2>9, <2>10
<1>22. ~changed(failed) => C = {} /\ kept(failed) \subseteq known
  <2>1. SUFFICES ASSUME ~changed(failed) PROVE C = {} /\ kept(failed) \subseteq known
    OBVIOUS
  <2>2. C = {}
    BY <2>1 DEF C
  <2>3. \A i \in staying : stay(i) = old(i)
    BY <2>1
  <2> QED
    BY <1>12, <1>18, <2>2, <2>3
<1> HIDE DEF copies, removals, changed
<1> DEFINE last == IF changed(failed) THEN IndexWrites(kept(failed)) ELSE <<>>
<1>23. /\ last \in Seq(Writes)
       /\ last = IndexWrites(kept(failed)) \/ (last = <<>> /\ C = {} /\ kept(failed) \subseteq known)
  <2>1. kept(failed) \subseteq Copies /\ IsFiniteSet(kept(failed))
    BY <1>1, SyncTypes
  <2>2. IndexWrites(kept(failed)) \in Seq(Writes)
    BY <2>1, IndexWritesTypes
  <2>3. <<>> \in Seq(Writes)
    OBVIOUS
  <2> QED
    BY <1>22, <2>2, <2>3
<1>24. writes' = before \o copies(failed) \o removals(failed) \o last
  BY <1>1
<1> HIDE DEF last
<1>25. Copying(k, known, before, kept(failed), writes', C, named)
  <2>1. /\ \A w \in ToSet(copies(failed)) : \E i \in C : w.op = "copy" /\ w.file = named[i] /\ w.scene = Held(k, i).scene
        /\ \A i \in C : \E w \in ToSet(copies(failed)) : w.op = "copy" /\ w.file = named[i]
    BY <1>10, <1>20
  <2>2. PICK a \in Seq(Writes) : a = copies(failed)
    BY <1>20
  <2>3. PICK b \in Seq(Writes) : b = removals(failed)
    BY <1>21
  <2>4. PICK es : es = kept(failed)
    OBVIOUS
  <2>5. \A w \in ToSet(b) : w.op = "remove" /\ \A e \in es : e.file # w.file
    BY <1>21, <2>3, <2>4
  <2>6. PICK c \in Seq(Writes) : c = last
    BY <1>23
  <2>7. c = IndexWrites(es) \/ (c = <<>> /\ C = {} /\ es \subseteq known)
    BY <1>23, <2>4, <2>6
  <2>8. writes' = before \o a \o b \o c
    BY <1>24, <2>2, <2>3, <2>6
  <2>9. Copying(k, known, before, es, writes', C, named)
    BY <2>1, <2>2, <2>5, <2>7, <2>8 DEF Copying
  <2> QED
    BY <2>4, <2>9
<1> QED
  BY <1>1, <1>11, <1>19, <1>25

\* The writes of the index empty and write it, or take the folder away when nothing is kept.
LEMMA IndexWritesIs ==
  ASSUME NEW es, es \subseteq Copies, IsFiniteSet(es), NEW last, last = IndexWrites(es)
  PROVE  /\ last \in Seq(Writes) /\ Ordered(last)
         /\ \A w \in ToSet(last) : w.op \in {"removeAll", "truncate", "index"}
         /\ \A w \in ToSet(last) : (w.op = "removeAll" => es = {}) /\ (w.op = "index" => w.names = Named(es))
         /\ es # {} => \E w \in ToSet(last) : w.op = "index"
<1>1. last \in Seq(Writes)
  BY IndexWritesTypes
<1>2. CASE es = {}
  <2>1. PICK a : a = [op |-> "removeAll"]
    OBVIOUS
  <2>2. last = <<a>> /\ a.op = "removeAll"
    BY <1>2, <2>1 DEF IndexWrites
  <2>3. ToSet(last) = {a} /\ DOMAIN last = {1}
    BY <2>2 DEF ToSet
  <2>4. Ordered(last)
    BY <2>3 DEF Ordered
  <2> QED
    BY <1>1, <1>2, <2>2, <2>3, <2>4
<1>3. CASE es # {}
  <2>1. PICK a, b : a = [op |-> "truncate"] /\ b = [op |-> "index", names |-> Named(es)]
    OBVIOUS
  <2>2. last = <<a, b>>
    BY <1>3, <2>1 DEF IndexWrites
  <2>3. a.op = "truncate" /\ b.op = "index" /\ b.names = Named(es)
    BY <2>1
  <2>4. ToSet(last) = {a, b} /\ DOMAIN last = {1, 2} /\ last[1] = a /\ last[2] = b
    BY <2>2 DEF ToSet
  <2>5. Ordered(last)
    BY <2>3, <2>4 DEF Ordered, Follow
  <2> QED
    BY <1>1, <1>3, <2>3, <2>4, <2>5
<1> QED
  BY <1>2, <1>3

\* The writes of a copying, one by one.
Copied(k, known, before, es, ws, C, name) ==
  /\ Ordered(ws) /\ Spares(ws, es)
  /\ \A w \in ToSet(ws) : w.op = "copy" => \E i \in C : w.file = name[i] /\ w.scene = Held(k, i).scene
  /\ \A i \in C : \E w \in ToSet(ws) : w.op = "copy" /\ w.file = name[i]
  /\ \A w \in ToSet(ws) : w.op = "setAside" => w \in ToSet(before)
  /\ \/ es = {} \/ \E w \in ToSet(ws) : w.op = "index"
     \/ es \subseteq known /\ \A w \in ToSet(ws) : w.op # "truncate"

\* The writes of syncCopies carry each scene to its copy.
LEMMA CopyingIs ==
  ASSUME NEW k, NEW known, NEW C, NEW name, NEW es, es \subseteq Copies, IsFiniteSet(es),
         NEW before \in Seq(Writes), Ordered(before), \A w \in ToSet(before) : w.op = "setAside",
         NEW ws, Copying(k, known, before, es, ws, C, name)
  PROVE  Copied(k, known, before, es, ws, C, name)
<1>1. PICK copies \in Seq(Writes), removals \in Seq(Writes), last \in Seq(Writes) :
        /\ ws = before \o copies \o removals \o last
        /\ \A w \in ToSet(copies) : \E i \in C : w.op = "copy" /\ w.file = name[i] /\ w.scene = Held(k, i).scene
        /\ \A i \in C : \E w \in ToSet(copies) : w.op = "copy" /\ w.file = name[i]
        /\ \A w \in ToSet(removals) : w.op = "remove" /\ \A e \in es : e.file # w.file
        /\ last = IndexWrites(es) \/ (last = <<>> /\ C = {} /\ es \subseteq known)
  BY DEF Copying
<1>2. /\ Ordered(last)
      /\ \A w \in ToSet(last) : w.op \in {"removeAll", "truncate", "index"}
      /\ \A w \in ToSet(last) : (w.op = "removeAll" => es = {}) /\ (w.op = "index" => w.names = Named(es))
      /\ \/ es = {} \/ \E w \in ToSet(last) : w.op = "index"
         \/ es \subseteq known /\ \A w \in ToSet(last) : w.op # "truncate"
  <2>1. CASE last = IndexWrites(es)
    BY <2>1, IndexWritesIs
  <2>2. CASE last = <<>> /\ C = {} /\ es \subseteq known
    <3>1. DOMAIN last = {} /\ ToSet(last) = {}
      BY <2>2 DEF ToSet
    <3> QED
      BY <2>2, <3>1 DEF Ordered
  <2> QED
    BY <1>1, <2>1, <2>2
<1>3. Ordered(copies) /\ Ordered(removals)
  <2>1. /\ \A n \in DOMAIN copies : copies[n].op = "copy"
        /\ \A n \in DOMAIN removals : removals[n].op = "remove"
    BY <1>1 DEF ToSet
  <2> QED
    BY <2>1 DEF Ordered, Follow
<1>4. PICK a : a = before \o copies
  OBVIOUS
<1>5. a \in Seq(Writes) /\ ToSet(a) = ToSet(before) \cup ToSet(copies) /\ Ordered(a)
  BY <1>1, <1>3, <1>4, ToSetConcat, ConcatIsOrdered
<1>6. PICK b : b = a \o removals
  OBVIOUS
<1>7. b \in Seq(Writes) /\ ToSet(b) = ToSet(a) \cup ToSet(removals) /\ Ordered(b)
  <2>1. \A w \in ToSet(removals) : w.op \notin {"copy", "truncate"} /\ w.op # "setAside"
    BY <1>1
  <2> QED
    BY <1>3, <1>5, <1>6, <2>1, ToSetConcat, ConcatIsOrdered
<1>8. \A w \in ToSet(b) : w.op \notin {"truncate", "index"}
  BY <1>1, <1>5, <1>7
<1>9. ws = b \o last
  BY <1>1, <1>4, <1>6
<1>10. ToSet(ws) = ToSet(b) \cup ToSet(last) /\ Ordered(ws)
  <2>1. (\A w \in ToSet(last) : w.op # "setAside") /\ Ordered(last) /\ last \in Seq(Writes)
    BY <1>2
  <2>2. Ordered(b \o last)
    BY <1>7, <1>8, <2>1, ConcatIsOrdered
  <2>3. ToSet(b \o last) = ToSet(b) \cup ToSet(last)
    BY <1>7, ToSetConcat
  <2> QED
    BY <1>9, <2>2, <2>3
<1>11. ToSet(ws) = ToSet(before) \cup ToSet(copies) \cup ToSet(removals) \cup ToSet(last)
  BY <1>5, <1>7, <1>10
<1>12. Spares(ws, es)
  BY <1>1, <1>2, <1>11 DEF Spares
<1>13. \A w \in ToSet(ws) : w.op = "copy" => \E i \in C : w.file = name[i] /\ w.scene = Held(k, i).scene
  BY <1>1, <1>2, <1>11
<1>14. \A i \in C : \E w \in ToSet(ws) : w.op = "copy" /\ w.file = name[i]
  BY <1>1, <1>11
<1>15. \A w \in ToSet(ws) : w.op = "setAside" => w \in ToSet(before)
  BY <1>1, <1>2, <1>11
<1>16. \/ es = {} \/ \E w \in ToSet(ws) : w.op = "index"
       \/ es \subseteq known /\ \A w \in ToSet(ws) : w.op # "truncate"
  <2>1. CASE es \subseteq known /\ \A w \in ToSet(last) : w.op # "truncate"
    BY <1>1, <1>11, <2>1
  <2> QED
    BY <1>2, <1>11, <2>1
<1> QED
  BY <1>10, <1>12, <1>13, <1>14, <1>15, <1>16 DEF Copied

\* What the copies hold, once those that are written now are.
LEMMA SyncCarries ==
  ASSUME NEW k, NEW known, NEW C, NEW name, NEW es, NEW before, NEW ws, OnePerTab(known), Orderly(k),
         FilesApart(k, known, C, name), Copied(k, known, before, es, ws, C, name), NEW copies
  PROVE  /\ \A i \in C : Carries(ws, copies, name[i], Held(k, i).scene)
         /\ \A x \in known, i \in DOMAIN k.tabs \ C : \A scene :
              x.tab = k.tabs[i].id /\ Carries(before, copies, x.file, scene) /\ (\A w \in ToSet(before) : w.op = "setAside")
                => Carries(ws, copies, x.file, scene)
<1>1. ASSUME NEW i \in C PROVE Carries(ws, copies, name[i], Held(k, i).scene)
  <2>1. \A w \in ToSet(ws) : w.op = "copy" /\ w.file = name[i] => w.scene = Held(k, i).scene
    <3>1. SUFFICES ASSUME NEW w \in ToSet(ws), w.op = "copy", w.file = name[i] PROVE w.scene = Held(k, i).scene
      OBVIOUS
    <3>2. PICK j \in C : w.file = name[j] /\ w.scene = Held(k, j).scene
      BY <3>1 DEF Copied
    <3>3. i = j
      BY <3>1, <3>2 DEF FilesApart
    <3> QED
      BY <3>2, <3>3
  <2>2. \E w \in ToSet(ws) : w.op = "copy" /\ w.file = name[i]
    BY DEF Copied
  <2> QED
    BY <2>1, <2>2 DEF Carries
<1>2. ASSUME NEW x \in known, NEW i \in DOMAIN k.tabs \ C, NEW scene, x.tab = k.tabs[i].id,
             Carries(before, copies, x.file, scene), \A w \in ToSet(before) : w.op = "setAside"
      PROVE  Carries(ws, copies, x.file, scene)
  <2>1. \A j \in C : name[j] # x.file
    <3>1. SUFFICES ASSUME NEW j \in C, name[j] = x.file PROVE FALSE
      OBVIOUS
    <3>2. PICK e \in known : e.tab = k.tabs[j].id /\ e.file = name[j]
      BY <3>1 DEF FilesApart
    <3>3. e = x
      BY <3>1, <3>2 DEF OnePerTab
    <3>4. j \in DOMAIN k.tabs /\ k.tabs[i].id = k.tabs[j].id
      BY <1>2, <3>2, <3>3 DEF FilesApart
    <3> QED
      BY <3>4 DEF Orderly
  <2>2. ~ \E w \in ToSet(before) : w.op = "copy" /\ w.file = x.file
    BY <1>2
  <2>3. x.file \in DOMAIN copies /\ copies[x.file] = scene /\ \A w \in ToSet(before) : w.op # "setAside"
    BY <1>2, <2>2 DEF Carries
  <2>4. \A w \in ToSet(ws) : ~(w.op = "copy" /\ w.file = x.file)
    BY <2>1 DEF Copied
  <2>5. \A w \in ToSet(ws) : w.op # "setAside"
    BY <2>3 DEF Copied
  <2> QED
    BY <2>3, <2>4, <2>5 DEF Carries
<1> QED
  BY <1>1, <1>2

\* The copies after one syncCopies are accounted for, as they were before it.
LEMMA SyncAccounts ==
  ASSUME NEW k, Orderly(k), NEW known, known \subseteq Copies, IsFiniteSet(known),
         FolderFinite, NEW copy \in BOOLEAN, NEW before \in Seq(Writes), \A w \in ToSet(before) : w.op = "setAside",
         syncCopies(k, known, copy, before), NEW failed,
         Accounted(known, before, folder, failed), AllTraced(k, known, before, folder.copies)
  PROVE  /\ Accounted(entries', writes', folder, failed) /\ AllTraced(k, entries', writes', folder.copies)
         /\ \A e \in entries' : e.tab \in Ids(k)
<1>1. PICK es, ws : es = entries' /\ ws = writes'
  OBVIOUS
<1>2. es \subseteq Copies /\ IsFiniteSet(es) /\ ws \in Seq(Writes)
  BY <1>1, SyncTypes
<1>3. OnePerTab(known) /\ Ordered(before)
  BY DEF Accounted
<1>4. PICK C, name : /\ FilesApart(k, known, C, name)
                     /\ Keeping(k, known, es, C, name)
                     /\ Copying(k, known, before, es, ws, C, name)
  BY <1>1, <1>3, SyncIs
<1>5. Copied(k, known, before, es, ws, C, name)
  BY <1>2, <1>3, <1>4, CopyingIs
<1>6. C \subseteq DOMAIN k.tabs
  BY <1>4 DEF FilesApart
<1>7. /\ \A i \in C : Carries(ws, folder.copies, name[i], Held(k, i).scene)
      /\ \A x \in known, i \in DOMAIN k.tabs \ C : \A scene :
           x.tab = k.tabs[i].id /\ Carries(before, folder.copies, x.file, scene)
             => Carries(ws, folder.copies, x.file, scene)
  BY <1>3, <1>4, <1>5, SyncCarries
<1> DEFINE Made(e, i) == e.tab = k.tabs[i].id /\ e.file = name[i] /\ e.stamp = stateId(Held(k, i).history)
           Stays(e, x, i) == x.tab = k.tabs[i].id /\ e.tab = x.tab /\ e.file = x.file /\ e.stamp = x.stamp
<1>8. \A e \in es : \/ \E i \in C : Made(e, i)
                    \/ \E x \in known : \E i \in DOMAIN k.tabs \ C : Stays(e, x, i)
  BY <1>4 DEF Keeping
<1>9. \A e \in es : e.tab \in Ids(k)
  BY <1>6, <1>8 DEF Ids
<1>10. \A e, f \in es : e.tab = f.tab => e = f
  BY <1>4 DEF Keeping
<1>11. OnePerTab(es)
  <2>1. SUFFICES ASSUME NEW e \in es, NEW f \in es, e.file = f.file PROVE e.tab = f.tab
    BY <1>10 DEF OnePerTab
  <2>2. ASSUME NEW a \in es, NEW b \in es, a.file = b.file, NEW i \in C, Made(a, i),
               NEW x \in known, NEW j \in DOMAIN k.tabs \ C, Stays(b, x, j)
        PROVE  FALSE
    <3>1. name[i] = x.file
      BY <2>2
    <3>2. PICK y \in known : y.tab = k.tabs[i].id /\ y.file = name[i]
      BY <1>4, <3>1 DEF FilesApart
    <3>3. x = y
      BY <1>3, <3>1, <3>2 DEF OnePerTab
    <3>4. k.tabs[i].id = k.tabs[j].id /\ i \in DOMAIN k.tabs
      BY <1>6, <2>2, <3>2, <3>3
    <3> QED
      BY <3>4 DEF Orderly
  <2>3. CASE (\E i \in C : Made(e, i)) /\ (\E i \in C : Made(f, i))
    <3>1. PICK i \in C, j \in C : Made(e, i) /\ Made(f, j)
      BY <2>3
    <3>2. i = j
      BY <1>4, <2>1, <3>1 DEF FilesApart
    <3> QED
      BY <3>1, <3>2
  <2>4. CASE (\E x \in known : \E i \in DOMAIN k.tabs \ C : Stays(e, x, i)) /\
             (\E x \in known : \E i \in DOMAIN k.tabs \ C : Stays(f, x, i))
    <3>1. PICK x \in known, y \in known : e.tab = x.tab /\ e.file = x.file /\ f.tab = y.tab /\ f.file = y.file
      BY <2>4
    <3>2. x = y
      BY <1>3, <2>1, <3>1 DEF OnePerTab
    <3> QED
      BY <3>1, <3>2
  <2> HIDE DEF Made, Stays
  <2> QED
    BY <1>8, <2>1, <2>2, <2>3, <2>4
<1>12. Carried(es, ws, folder.copies)
  <2>1. SUFFICES ASSUME NEW e \in es PROVE \E scene : Carries(ws, folder.copies, e.file, scene)
    BY DEF Carried
  <2>2. CASE \E i \in C : Made(e, i)
    BY <1>7, <2>2
  <2>3. CASE \E x \in known : \E i \in DOMAIN k.tabs \ C : Stays(e, x, i)
    <3>1. PICK x \in known, i \in DOMAIN k.tabs \ C : Stays(e, x, i)
      BY <2>3
    <3>2. PICK scene : Carries(before, folder.copies, x.file, scene)
      BY DEF Accounted, Carried
    <3> QED
      BY <1>7, <3>1, <3>2
  <2> QED
    BY <1>8, <2>2, <2>3
<1>13. Honest(folder, es)
  <2>1. SUFFICES ASSUME NEW x \in folder.index, NEW e \in es, x.file = e.file PROVE e.file \in DOMAIN folder.copies
    BY DEF Honest
  <2>2. \E y \in known : e.file = y.file
    <3>1. CASE \E i \in C : Made(e, i)
      BY <1>4, <2>1, <3>1 DEF FilesApart
    <3>2. CASE \E y \in known : \E i \in DOMAIN k.tabs \ C : Stays(e, y, i)
      BY <3>2
    <3> QED
      BY <1>8, <3>1, <3>2
  <2> QED
    BY <2>1, <2>2 DEF Accounted, Honest
<1>14. Indexed(ws, folder.index, es, failed)
  <2>1. CASE ~failed /\ es # {} /\ es \subseteq known /\ \A w \in ToSet(ws) : w.op # "truncate"
    <3>1. Named(known) \subseteq folder.index /\ \A w \in ToSet(before) : w.op \notin {"truncate", "setAside"}
      <4>1. ~ \E w \in ToSet(before) : w.op = "index"
        OBVIOUS
      <4> QED
        BY <2>1, <4>1 DEF Accounted, Indexed
    <3>2. Named(es) \subseteq folder.index
      BY <2>1, <3>1 DEF Named
    <3>3. \A w \in ToSet(ws) : w.op # "setAside"
      BY <1>5, <3>1 DEF Copied
    <3> QED
      BY <2>1, <3>2, <3>3 DEF Indexed
  <2> QED
    BY <1>5, <2>1 DEF Copied, Indexed
<1>15. Accounted(es, ws, folder, failed)
  BY <1>5, <1>11, <1>12, <1>13, <1>14 DEF Accounted, Copied
<1>16. ASSUME NEW id \in Ids(k) PROVE Traced(Tabbed(k)[id], CopiesOf(es, id), ws, folder.copies)
  <2>1. PICK i \in DOMAIN k.tabs : k.tabs[i].id = id
    BY DEF Ids
  <2>2. PICK d : d = Held(k, i)
    OBVIOUS
  <2>3. Tabbed(k)[id] = d /\ d.history \in Histories
    BY <2>1, <2>2, Places DEF Document
  <2>4. Traced(d, CopiesOf(known, id), before, folder.copies)
    BY <2>3 DEF AllTraced
  <2>5. PICK L : /\ StandsFor(L, d.history, d.scene)
                 /\ \A e \in CopiesOf(known, id) :
                      e.stamp <= d.history.lastState /\ Carries(before, folder.copies, e.file, L[e.stamp])
    BY <2>4 DEF Traced
  <2>6. L[stateId(d.history)] = d.scene /\ stateId(d.history) <= d.history.lastState
    BY <2>3, <2>5, StatesAreOld DEF StandsFor
  <2>7. ASSUME NEW e \in CopiesOf(es, id)
        PROVE  e.stamp <= d.history.lastState /\ Carries(ws, folder.copies, e.file, L[e.stamp])
    <3>1. e \in es /\ e.tab = id
      BY DEF CopiesOf
    <3>2. CASE \E j \in C : Made(e, j)
      <4>1. PICK j \in C : Made(e, j)
        BY <3>2
      <4>2. i = j
        BY <1>6, <2>1, <3>1, <4>1 DEF Orderly
      <4>3. e.stamp = stateId(d.history) /\ e.file = name[i] /\ i \in C
        BY <2>2, <4>1, <4>2
      <4> QED
        BY <1>7, <2>2, <2>6, <4>3
    <3>3. CASE \E x \in known : \E j \in DOMAIN k.tabs \ C : Stays(e, x, j)
      <4>1. PICK x \in known, j \in DOMAIN k.tabs \ C : Stays(e, x, j)
        BY <3>3
      <4>2. x \in CopiesOf(known, id)
        BY <3>1, <4>1 DEF CopiesOf
      <4>3. x.stamp <= d.history.lastState /\ Carries(before, folder.copies, x.file, L[x.stamp])
        BY <2>5, <4>2
      <4> QED
        BY <1>7, <4>1, <4>3
    <3> QED
      BY <1>8, <3>1, <3>2, <3>3
  <2>8. Traced(d, CopiesOf(es, id), ws, folder.copies)
    BY <2>5, <2>7 DEF Traced
  <2> QED
    BY <2>3, <2>8
<1>17. AllTraced(k, es, ws, folder.copies)
  BY <1>16 DEF AllTraced
<1> QED
  BY <1>1, <1>9, <1>15, <1>17

\* The copies of this session, what is to be written and the folder fit the scenes that are open.
CopiesKept ==
  /\ Accounted(entries, writes, folder, unindexed)
  /\ AllTraced(desk, entries, writes, folder.copies)
  /\ \A e \in entries : e.tab < desk.nextId
  /\ phase # "editing" \/ recoverable # {} => entries = {}

\* What holds of the copies of a scene when one document follows another.
Continues(new, d) ==
  \A L : StandsFor(L, d.history, d.scene) =>
    \E M : /\ StandsFor(M, new.history, new.scene)
           /\ \A s \in Nat : s <= d.history.lastState => s <= new.history.lastState /\ M[s] = L[s]

\* A document that goes on keeps its copies traced: its states stand for what they did.
LEMMA ContinuesTraced ==
  ASSUME NEW d, NEW new, Continues(new, d), NEW es, es \subseteq Copies, NEW ws, NEW copies, Traced(d, es, ws, copies)
  PROVE  Traced(new, es, ws, copies)
<1>1. PICK L : /\ StandsFor(L, d.history, d.scene)
               /\ \A e \in es : e.stamp <= d.history.lastState /\ Carries(ws, copies, e.file, L[e.stamp])
  BY DEF Traced
<1>2. PICK M : /\ StandsFor(M, new.history, new.scene)
               /\ \A s \in Nat : s <= d.history.lastState => s <= new.history.lastState /\ M[s] = L[s]
  BY <1>1 DEF Continues
<1>3. \A e \in es : e.stamp \in Nat
  BY DEF Copies
<1>4. \A e \in es : e.stamp <= new.history.lastState /\ Carries(ws, copies, e.file, M[e.stamp])
  BY <1>1, <1>2, <1>3
<1> QED
  BY <1>2, <1>4 DEF Traced

\* A document that is saved, named, edited, undone or redone continues as itself.
LEMMA SameContinues ==
  ASSUME NEW d, NEW new, new.history = d.history, new.scene = d.scene
  PROVE  Continues(new, d)
BY DEF Continues

\* An edit, an undo and a redo go on with a document.
LEMMA EditedContinues ==
  ASSUME NEW d \in Document, NEW new \in Document,
         \/ \E to \in Nat : new.scene = to /\ new.history = recordApplied(d.history, d.scene, to)
         \/ canUndo(d.history) /\ new.scene = Last(d.history.done).from /\ new.history = undo(d.history)
         \/ canRedo(d.history) /\ new.scene = Last(d.history.undone).to /\ new.history = redo(d.history)
  PROVE  Continues(new, d)
<1>1. SUFFICES ASSUME NEW L, StandsFor(L, d.history, d.scene)
               PROVE  \E M : /\ StandsFor(M, new.history, new.scene)
                             /\ \A s \in Nat : s <= d.history.lastState => s <= new.history.lastState /\ M[s] = L[s]
  BY DEF Continues
<1>2. d.history \in Histories /\ d.scene \in Nat
  BY DEF Document
<1>3. CASE \E to \in Nat : new.scene = to /\ new.history = recordApplied(d.history, d.scene, to)
  <2>1. PICK to \in Nat : new.scene = to /\ new.history = recordApplied(d.history, d.scene, to)
    BY <1>3
  <2>2. PICK top \in Nat : top = d.history.lastState
    BY <1>2, HistoryParts
  <2>3. PICK M : /\ StandsFor(M, new.history, to) /\ new.history.lastState = d.history.lastState + 1
                 /\ \A s \in Nat : s <= d.history.lastState => M[s] = L[s]
    BY <1>1, <1>2, <2>1, RecordsState
  <2>4. \A s \in Nat : s <= top => s <= top + 1
    OBVIOUS
  <2> QED
    BY <2>1, <2>2, <2>3, <2>4
<1>4. CASE canUndo(d.history) /\ new.scene = Last(d.history.done).from /\ new.history = undo(d.history)
  <2>1. StandsFor(L, new.history, new.scene) /\ new.history.lastState = d.history.lastState
    BY <1>1, <1>2, <1>4, UndoStandsFor
  <2> QED
    BY <2>1
<1>5. CASE canRedo(d.history) /\ new.scene = Last(d.history.undone).to /\ new.history = redo(d.history)
  <2>1. StandsFor(L, new.history, new.scene) /\ new.history.lastState = d.history.lastState
    BY <1>1, <1>2, <1>5, RedoStandsFor
  <2> QED
    BY <2>1
<1> QED
  BY <1>3, <1>4, <1>5

\* A scene that opens has no copy yet.
LEMMA NewTraced ==
  ASSUME NEW d \in Document, d.history = NewHistory, NEW ws, NEW copies
  PROVE  Traced(d, {}, ws, copies)
<1>1. StandsFor([n \in Nat |-> d.scene], NewHistory, d.scene)
  BY NewStandsFor DEF Document
<1> QED
  BY <1>1 DEF Traced

\* The desks of DeskMoves hold what continues the documents before, and new ones.
LEMMA TurningTraces ==
  ASSUME NEW k, NEW new, Turned(new, k), NEW es, es \subseteq Copies, \A e \in es : e.tab < k.nextId,
         NEW ws, NEW copies, AllTraced(k, es, ws, copies)
  PROVE  AllTraced(new, es, ws, copies) /\ \A e \in es : e.tab < new.nextId
<1>1. Orderly(k) /\ Orderly(new) /\ new.nextId >= k.nextId
  BY LaidFacts DEF Turned
<1>2. ASSUME NEW id \in Ids(new) PROVE Traced(Tabbed(new)[id], CopiesOf(es, id), ws, copies)
  <2>1. CopiesOf(es, id) \subseteq Copies
    BY DEF CopiesOf
  <2>2. CASE id \in Ids(k) /\ (Tabbed(new)[id] = Tabbed(k)[id] \/ SavedAs(Tabbed(new)[id], Tabbed(k)[id]))
    <3>1. PICK a, b : a = Tabbed(k)[id] /\ b = Tabbed(new)[id]
      OBVIOUS
    <3>2. a \in Document
      BY <1>1, <2>2, <3>1, Places
    <3>3. b = a \/ SavedAs(b, a)
      BY <2>2, <3>1
    <3>4. b.history = a.history /\ b.scene = a.scene
      BY <3>2, <3>3 DEF SavedAs, Document
    <3>5. Traced(a, CopiesOf(es, id), ws, copies)
      BY <2>2, <3>1 DEF AllTraced
    <3>6. Traced(b, CopiesOf(es, id), ws, copies)
      BY <2>1, <3>4, <3>5, SameContinues, ContinuesTraced
    <3> QED
      BY <3>1, <3>6
  <2>3. CASE id \notin Ids(k) /\ id >= k.nextId /\ Tabbed(new)[id].history = NewHistory
    <3>1. Tabbed(new)[id] \in Document /\ id \in Nat /\ k.nextId \in Nat
      <4>1. id \in 1 .. new.nextId - 1
        BY <1>1, Places
      <4> QED
        BY <1>1, <4>1, Places
    <3>2. CopiesOf(es, id) = {}
      <4>1. \A e \in es : e.tab \in Nat
        BY DEF Copies
      <4> QED
        BY <2>3, <3>1, <4>1 DEF CopiesOf
    <3> QED
      BY <2>3, <3>1, <3>2, NewTraced
  <2> QED
    BY <2>2, <2>3 DEF Turned
<1>3. \A e \in es : e.tab < new.nextId
  <2>1. \A e \in es : e.tab \in Nat
    BY DEF Copies
  <2>2. k.nextId \in Nat /\ new.nextId \in Nat
    BY <1>1, Places
  <2> QED
    BY <1>1, <2>1, <2>2
<1> QED
  BY <1>2, <1>3 DEF AllTraced

\* So they keep the copies of every tab traced.
LEMMA EditingTraces ==
  ASSUME NEW k, Laid(k), NEW d \in Document, Continues(d, k.live), NEW new, new = [k EXCEPT !.live = d],
         NEW es, es \subseteq Copies, NEW ws, NEW copies, AllTraced(k, es, ws, copies)
  PROVE  AllTraced(new, es, ws, copies) /\ new.nextId = k.nextId
<1>1. /\ Edited(new, k) /\ new.nextId = k.nextId
      /\ \A id \in Ids(k) : Tabbed(new)[id] = IF id = Shown(k) THEN d ELSE Tabbed(k)[id]
  BY LiveEdits
<1>2. Tabbed(k)[Shown(k)] = k.live
  BY LaidFacts
<1>3. ASSUME NEW id \in Ids(k) PROVE Traced(Tabbed(new)[id], CopiesOf(es, id), ws, copies)
  <2>1. CopiesOf(es, id) \subseteq Copies
    BY DEF CopiesOf
  <2>2. Traced(Tabbed(k)[id], CopiesOf(es, id), ws, copies)
    BY DEF AllTraced
  <2>3. CASE id = Shown(k)
    <3>1. Traced(k.live, CopiesOf(es, id), ws, copies)
      BY <1>2, <2>2, <2>3
    <3>2. Traced(d, CopiesOf(es, id), ws, copies)
      BY <2>1, <3>1, ContinuesTraced
    <3> QED
      BY <1>1, <2>3, <3>2
  <2>4. CASE id # Shown(k)
    BY <1>1, <2>2, <2>4
  <2> QED
    BY <2>3, <2>4
<1> QED
  BY <1>1, <1>3 DEF AllTraced, Edited

\* No copies: nothing to keep.
LEMMA NothingAccounted ==
  ASSUME NEW ws, Ordered(ws), \A w \in ToSet(ws) : w.op = "setAside", NEW f, NEW failed
  PROVE  Accounted({}, ws, f, failed)
BY DEF Accounted, OnePerTab, Spares, Indexed, Carried, Honest

\* No write, and that which sets copies aside, are ordered.
LEMMA FewOrdered ==
  /\ Ordered(<<>>) /\ ToSet(<<>>) = {}
  /\ Ordered(<<[op |-> "setAside"]>>) /\ \A w \in ToSet(<<[op |-> "setAside"]>>) : w.op = "setAside"
<1>1. DOMAIN <<>> = {} /\ DOMAIN <<[op |-> "setAside"]>> = {1}
  OBVIOUS
<1>2. PICK a : a = [op |-> "setAside"]
  OBVIOUS
<1>3. ToSet(<<a>>) = {a} /\ a.op = "setAside" /\ DOMAIN <<a>> = {1}
  BY <1>2 DEF ToSet
<1>4. Ordered(<<a>>)
  BY <1>3 DEF Ordered
<1> QED
  BY <1>1, <1>2, <1>3, <1>4 DEF Ordered, ToSet

\* At rest, the copies can be found.
LEMMA KeptAreFound ==
  ASSUME TypeInvariant, CopiesKept
  PROVE  CopiesAreFound
<1>1. \A e \in folder.index : e \in Named(entries) => e.file \in DOMAIN folder.copies
  BY DEF CopiesKept, Accounted, Honest, Named
<1>2. ASSUME Idle, ~unindexed PROVE Named(entries) \subseteq folder.index
  <2>1. ToSet(writes) = {}
    BY <1>2, FewOrdered DEF Idle
  <2>2. entries = {} => Named(entries) = {}
    BY DEF Named
  <2>3. PICK failed : failed = unindexed
    OBVIOUS
  <2>4. Indexed(writes, folder.index, entries, failed) /\ ~failed
    BY <1>2, <2>3 DEF CopiesKept, Accounted
  <2> QED
    BY <2>1, <2>2, <2>4 DEF Indexed
<1>3. ASSUME Idle, NEW i \in DOMAIN desk.tabs, NEW e \in entries,
             e.tab = desk.tabs[i].id, e.stamp = stateId(Held(desk, i).history)
      PROVE  e.file \in DOMAIN folder.copies /\ folder.copies[e.file] = Held(desk, i).scene
  <2>1. Orderly(desk)
    BY LaidFacts, ClosedIsOrderly DEF TypeInvariant, DeskKept
  <2>2. desk.tabs[i].id \in Ids(desk) /\ Tabbed(desk)[desk.tabs[i].id] = Held(desk, i)
    BY <2>1, Places
  <2>3. e \in CopiesOf(entries, desk.tabs[i].id)
    BY <1>3 DEF CopiesOf
  <2>4. PICK L : /\ StandsFor(L, Held(desk, i).history, Held(desk, i).scene)
                 /\ Carries(writes, folder.copies, e.file, L[e.stamp])
    BY <2>2, <2>3 DEF CopiesKept, AllTraced, Traced
  <2>5. L[e.stamp] = Held(desk, i).scene
    BY <1>3, <2>4 DEF StandsFor
  <2>6. ToSet(writes) = {}
    BY <1>3, FewOrdered DEF Idle
  <2> QED
    BY <2>4, <2>5, <2>6 DEF Carries
<1> QED
  BY <1>1, <1>2, <1>3 DEF CopiesAreFound

\* Without copies, only the scenes count.
LEMMA NothingTraced ==
  ASSUME NEW k, NEW ws, NEW copies, AllTraced(k, {}, ws, copies), NEW later, NEW after
  PROVE  AllTraced(k, {}, later, after)
<1>1. \A id : CopiesOf({}, id) = {}
  BY DEF CopiesOf
<1>2. \A d : Traced(d, {}, ws, copies) => Traced(d, {}, later, after)
  BY DEF Traced
<1> QED
  BY <1>1, <1>2 DEF AllTraced

\* An editor without tabs has no copies to trace.
LEMMA ClosedTraced ==
  ASSUME NEW es, NEW ws, NEW copies
  PROVE  AllTraced(Closed, es, ws, copies)
BY ClosedIsOrderly DEF AllTraced

\* A step of the desk alone.
LEMMA DeskStepKeeps ==
  ASSUME TypeInvariant, CopiesKept, [Next]_vars, UNCHANGED <<phase, entries, recoverable, writes, folder, unindexed>>
  PROVE  CopiesKept'
<1>1. DeskMoves
  BY StepMoves
<1>2. PICK new : new = desk'
  OBVIOUS
<1>3. entries \subseteq Copies
  BY DEF TypeInvariant, CopiesTyped, KnownCopies
<1>4. /\ Accounted(entries, writes, folder, unindexed) /\ \A e \in entries : e.tab < desk.nextId
      /\ AllTraced(desk, entries, writes, folder.copies)
      /\ phase # "editing" \/ recoverable # {} => entries = {}
  BY DEF CopiesKept
<1>5. SUFFICES AllTraced(new, entries, writes, folder.copies) /\ \A e \in entries : e.tab < new.nextId
  BY <1>2, <1>4 DEF CopiesKept
<1>6. CASE new = desk
  BY <1>4, <1>6
<1>7. CASE Turned(new, desk)
  BY <1>3, <1>4, <1>7, TurningTraces
<1>8. CASE new = Closed /\ phase # "editing"
  BY <1>4, <1>8, ClosedTraced
<1>9. ASSUME phase = "editing", NEW d \in Document, new = [desk EXCEPT !.live = d], Continues(d, desk.live)
      PROVE  AllTraced(new, entries, writes, folder.copies) /\ \A e \in entries : e.tab < new.nextId
  <2>1. Laid(desk)
    BY <1>9 DEF TypeInvariant, DeskKept
  <2> QED
    BY <1>3, <1>4, <1>9, <2>1, EditingTraces
<1>10. CASE Edit \/ Undo \/ Redo
  <2>1. lastScene \in Nat /\ phase = "editing" /\ desk.live \in Document
    <3>1. lastScene \in Nat /\ phase = "editing"
      BY <1>10, EditingMoves DEF TypeInvariant, SessionTyped
    <3>2. Laid(desk)
      BY <3>1 DEF TypeInvariant, DeskKept
    <3> QED
      BY <3>1, <3>2 DEF Laid, Orderly, Desks
  <2>2. PICK d \in Document :
              /\ desk' = [desk EXCEPT !.live = d]
              /\ \/ /\ d.scene = lastScene + 1
                    /\ d.history = recordApplied(desk.live.history, desk.live.scene, lastScene + 1)
                 \/ /\ canUndo(desk.live.history) /\ d.scene = Last(desk.live.history.done).from
                    /\ d.history = undo(desk.live.history)
                 \/ /\ canRedo(desk.live.history) /\ d.scene = Last(desk.live.history.undone).to
                    /\ d.history = redo(desk.live.history)
    BY <1>10, EditingMoves
  <2>3. PICK to \in Nat : to = lastScene + 1
    BY <2>1
  <2>4. PICK live : live = desk.live
    OBVIOUS
  <2>5. /\ live \in Document
        /\ \/ d.scene = to /\ d.history = recordApplied(live.history, live.scene, to)
           \/ canUndo(live.history) /\ d.scene = Last(live.history.done).from /\ d.history = undo(live.history)
           \/ canRedo(live.history) /\ d.scene = Last(live.history.undone).to /\ d.history = redo(live.history)
    BY <2>1, <2>2, <2>3, <2>4
  <2>6. Continues(d, live)
    BY <2>5, EditedContinues
  <2> QED
    BY <1>2, <1>9, <2>1, <2>2, <2>4, <2>6
<1>11. ASSUME phase = "editing", NEW p \in Paths, desk' = NamedAs(desk, p)
       PROVE  AllTraced(new, entries, writes, folder.copies) /\ \A e \in entries : e.tab < new.nextId
  <2> DEFINE d == NamedScene(desk, p)
  <2>1. desk \in Desks /\ desk.live \in Document
    BY <1>11 DEF TypeInvariant, DeskKept, Laid, Orderly, Desks
  <2>2. d \in Document /\ NamedAs(desk, p) = [desk EXCEPT !.live = d]
    BY <2>1 DEF Desks, Document, NamedScene, NamedAs
  <2>3. d.history = desk.live.history /\ d.scene = desk.live.scene
    BY <2>1 DEF Document, NamedScene
  <2> HIDE DEF d
  <2>4. Continues(d, desk.live)
    BY <2>3, SameContinues
  <2> QED
    BY <1>2, <1>9, <1>11, <2>2, <2>4
<1> QED
  BY <1>1, <1>2, <1>6, <1>7, <1>8, <1>10, <1>11 DEF DeskMoves

\* The editor leaves the project, or is gone.
LEMMA LeavingKeeps ==
  ASSUME desk' = Closed, entries' = {}, writes' = <<>>
  PROVE  CopiesKept'
<1>1. PICK f, ws : f = folder' /\ ws = writes'
  OBVIOUS
<1>2. Accounted({}, ws, f, unindexed')
  BY <1>1, FewOrdered, NothingAccounted
<1>3. AllTraced(Closed, {}, ws, f.copies)
  BY ClosedTraced
<1> QED
  BY <1>1, <1>2, <1>3 DEF CopiesKept

\* What the actions do that may leave the project.
LEMMA LeavesOrStays ==
  ASSUME SaveAsAnswered \/ RequestClose \/ RequestLeave \/ AnswerSave \/ AnswerDiscard
  PROVE  \/ Leaves /\ writes' = <<>>
         \/ UNCHANGED <<phase, entries, recoverable, writes, folder>>
<1>1. \A k, action, open : requestAction(k, action, open) => Leaves \/ UNCHANGED <<phase, entries, recoverable, folder>>
  BY DEF requestAction
<1>2. writes = <<>> /\ writes' = writes
  BY DEF SaveAsAnswered, RequestClose, RequestLeave, AnswerSave, AnswerDiscard, AtWork, Idle
<1>3. CASE SaveAsAnswered
  BY <1>1, <1>2, <1>3 DEF SaveAsAnswered
<1>4. CASE RequestClose \/ RequestLeave
  BY <1>1, <1>2, <1>4 DEF RequestClose, RequestLeave
<1>5. CASE AnswerSave
  <2> DEFINE affected == affectedTabs(desk, pending)
             unnamed == {i \in affected : Held(desk, i).path = NoPath}
             ends(stops) == UNCHANGED <<phase, entries, recoverable, folder>>
  <2>1. PICK failed \in {{}} \cup {{i} : i \in affected \ unnamed} :
           LET stops == unnamed \cup failed
               saved == {i \in affected : \A stop \in stops : i < stop}
               k == SaveTabs(desk, saved)
           IN  IF stops = {} THEN requestAction(k, pending, FALSE)
               ELSE UNCHANGED <<phase, entries, recoverable, folder>>
    BY <1>5 DEF AnswerSave
  <2> QED
    BY <1>1, <1>2, <2>1
<1>6. CASE AnswerDiscard
  BY <1>2, <1>6 DEF AnswerDiscard
<1> QED
  BY <1>3, <1>4, <1>5, <1>6

\* A project opens: this session has no copies yet.
LEMMA OpeningTraces ==
  ASSUME TypeInvariant, CopiesKept, OpenProject \/ CodeReady
  PROVE  CopiesKept'
<1>1. desk = Closed /\ Filed /\ entries = {} /\ writes = <<>>
  BY DEF TypeInvariant, DeskKept, CopiesWait, CopiesKept, OpenProject, CodeReady
<1>2. entries' = {} /\ writes' = <<>> /\ folder' = folder
  BY <1>1 DEF OpenProject, CodeReady, openScenes, disk
<1>3. PICK new, f, ws : new = desk' /\ f = folder' /\ ws = writes'
  OBVIOUS
<1>4. Accounted({}, ws, f, unindexed')
  BY <1>2, <1>3, FewOrdered, NothingAccounted
<1>5. AllTraced(new, {}, ws, f.copies)
  <2>1. CASE openScenes
    <3>1. Follows(new, Closed, OpenedAs) /\ Orderly(Closed)
      BY <1>1, <1>3, <2>1, OpensScenes, ClosedIsOrderly
    <3>2. Turned(new, Closed)
      BY <3>1, FollowingTurns, SomeOpenNew
    <3> QED
      BY <3>2, ClosedTraced, TurningTraces
  <2>2. CASE desk' = desk
    BY <1>1, <1>3, <2>2, ClosedTraced
  <2> QED
    BY <2>1, <2>2 DEF OpenProject, CodeReady
<1> QED
  BY <1>2, <1>3, <1>4, <1>5 DEF CopiesKept

\* The work is copied, or what is no longer modified loses its copy.
LEMMA CopyingKeeps ==
  ASSUME TypeInvariant, CopiesKept, updateAutosave
  PROVE  CopiesKept'
<1>1. /\ writes = <<>> /\ recoverable = {} /\ phase = "editing"
      /\ UNCHANGED <<phase, desk, recoverable, folder, unindexed>>
  BY DEF updateAutosave, Idle, disk, bounds
<1>2. PICK copy \in BOOLEAN : syncCopies(desk, entries, copy, <<>>)
  BY DEF updateAutosave
<1>3. Orderly(desk) /\ FolderFinite /\ entries \subseteq Copies /\ IsFiniteSet(entries)
  BY <1>1, LaidFacts DEF TypeInvariant, DeskKept, CopiesTyped, KnownCopies
<1>4. PICK before \in Seq(Writes) : before = writes
  BY DEF TypeInvariant, CopiesTyped
<1>5. /\ \A w \in ToSet(before) : w.op = "setAside"
      /\ syncCopies(desk, entries, copy, before)
  BY <1>1, <1>2, <1>4, FewOrdered
<1>6. Accounted(entries, before, folder, unindexed) /\ AllTraced(desk, entries, before, folder.copies)
  BY <1>4 DEF CopiesKept
<1>7. /\ Accounted(entries', writes', folder, unindexed) /\ AllTraced(desk, entries', writes', folder.copies)
      /\ \A e \in entries' : e.tab \in Ids(desk)
  BY <1>3, <1>5, <1>6, SyncAccounts
<1>8. \A e \in entries' : e.tab < desk.nextId
  <2>1. Ids(desk) \subseteq 1 .. desk.nextId - 1 /\ desk.nextId \in Nat
    BY <1>3, Places
  <2> QED
    BY <1>7, <2>1
<1> QED
  BY <1>1, <1>7, <1>8 DEF CopiesKept

\* The copies of a crash are opened and copied again.
LEMMA RecoveringKeeps ==
  ASSUME TypeInvariant, CopiesKept, recoverAutosave
  PROVE  CopiesKept'
<1>1. /\ phase = "editing" /\ recoverable # {} /\ writes = <<>> /\ phase' = phase /\ recoverable' = {}
      /\ folder' = folder /\ unindexed' = unindexed
  BY DEF recoverAutosave, disk, bounds
<1>2. PICK k : k = desk'
  OBVIOUS
<1>3. PICK before : before = <<[op |-> "setAside"]>>
  OBVIOUS
<1>4. syncCopies(k, {}, TRUE, before)
  BY <1>2, <1>3 DEF recoverAutosave
<1>5. PICK copy \in BOOLEAN : copy = TRUE
  OBVIOUS
<1>6. entries = {} /\ Accounted(entries, writes, folder, unindexed) /\ AllTraced(desk, entries, writes, folder.copies)
  BY <1>1 DEF CopiesKept
<1>7. Turned(k, desk)
  BY <1>2, RecoveringMoves, FollowingTurns, SomeOpenNew, LaidFacts DEF TypeInvariant, DeskKept
<1>8. AllTraced(k, {}, before, folder.copies)
  <2>1. AllTraced(k, {}, writes, folder.copies)
    BY <1>6, <1>7, TurningTraces
  <2> QED
    BY <2>1, NothingTraced
<1>9. before \in Seq(Writes) /\ Ordered(before) /\ \A w \in ToSet(before) : w.op = "setAside"
  <2>1. PICK a : a = [op |-> "setAside"]
    OBVIOUS
  <2>2. a \in Writes
    BY <2>1 DEF Writes
  <2>3. before \in Seq(Writes)
    BY <1>3, <2>1, <2>2
  <2> QED
    BY <1>3, <2>3, FewOrdered
<1>10. Accounted({}, before, folder, unindexed)
  BY <1>9, NothingAccounted
<1>11. Orderly(k) /\ FolderFinite
  BY <1>7, LaidFacts DEF Turned, TypeInvariant, CopiesTyped
<1>12. PICK known : known = {}
  OBVIOUS
<1>13. known \subseteq Copies /\ IsFiniteSet(known)
  BY <1>12, FS_EmptySet
<1>14. syncCopies(k, known, copy, before) /\ Accounted(known, before, folder, unindexed) /\ AllTraced(k, known, before, folder.copies)
  BY <1>4, <1>5, <1>8, <1>10, <1>12
<1>15. /\ Accounted(entries', writes', folder, unindexed) /\ AllTraced(k, entries', writes', folder.copies)
       /\ \A e \in entries' : e.tab \in Ids(k)
  BY <1>9, <1>11, <1>13, <1>14, SyncAccounts
<1>16. \A e \in entries' : e.tab < k.nextId
  <2>1. Ids(k) \subseteq 1 .. k.nextId - 1 /\ k.nextId \in Nat
    BY <1>11, Places
  <2> QED
    BY <1>15, <2>1
<1> QED
  BY <1>1, <1>2, <1>15, <1>16 DEF CopiesKept

\* The copies of a crash are set aside.
LEMMA DiscardingKeeps ==
  ASSUME CopiesKept, discardAutosave
  PROVE  CopiesKept'
<1>1. entries = {} /\ entries' = {} /\ writes' = <<[op |-> "setAside"]>> /\ UNCHANGED <<desk, folder>>
  BY DEF CopiesKept, discardAutosave, disk
<1>2. PICK ws : ws = writes'
  OBVIOUS
<1>3. Accounted({}, ws, folder, unindexed')
  BY <1>1, <1>2, FewOrdered, NothingAccounted
<1>4. AllTraced(desk, {}, ws, folder.copies)
  BY <1>1, NothingTraced DEF CopiesKept
<1> QED
  BY <1>1, <1>2, <1>3, <1>4 DEF CopiesKept

\* A write reaches the disk.
LEMMA WritingKeeps ==
  ASSUME TypeInvariant, CopiesKept, Write
  PROVE  CopiesKept'
<1>1. writes \in Seq(Writes) /\ writes # <<>> /\ CopiesTyped
  BY DEF TypeInvariant, CopiesTyped, Write
<1>2. UNCHANGED editor
  BY DEF Write
<1>3. PICK new, ws : new = folder' /\ ws = writes'
  OBVIOUS
<1>4. Accounted(entries, writes, folder, unindexed) /\ AllTraced(desk, entries, writes, folder.copies)
  BY DEF CopiesKept
<1> DEFINE Carrying == \A e \in entries : \A scene :
                         Carries(writes, folder.copies, e.file, scene) => Carries(ws, new.copies, e.file, scene)
<1>5. ASSUME WriteDone PROVE Accounted(entries, ws, new, unindexed') /\ Carrying
  <2>1. PICK failed, fails : failed = unindexed /\ fails = unindexed'
    OBVIOUS
  <2>2. ws = Tail(writes) /\ (failed /\ Head(writes).op # "index" => fails)
    BY <1>3, <1>5, <2>1 DEF WriteDone
  <2>3. WritesOne(Head(writes), folder, new, entries)
    BY <1>1, <1>3, <1>4, <1>5, WriteDoes DEF Accounted
  <2>4. Accounted(entries, writes, folder, failed)
    BY <1>4, <2>1
  <2>5. Accounted(entries, ws, new, fails) /\ Carrying
    BY <1>1, <2>2, <2>3, <2>4, WriteAccounts
  <2> QED
    BY <2>1, <2>5
<1>6. ASSUME IndexFails PROVE Accounted(entries, ws, new, unindexed') /\ Carrying
  <2>1. Head(writes).op \in {"truncate", "index"} /\ ws = <<>> /\ unindexed' = TRUE
    BY <1>3, <1>6 DEF IndexFails
  <2>2. new.copies = folder.copies
    <3>1. new = folder \/ \E names : new = [folder EXCEPT !.index = names]
      BY <1>3, <1>6 DEF IndexFails
    <3>2. \A names : [folder EXCEPT !.index = names].copies = folder.copies
      BY <1>1 DEF CopiesTyped, FolderShaped
    <3> QED
      BY <3>1, <3>2
  <2>3. PICK failed : failed = unindexed
    OBVIOUS
  <2>4. Accounted(entries, writes, folder, failed)
    BY <1>4, <2>3
  <2>5. Accounted(entries, ws, new, TRUE) /\ Carrying
    BY <1>1, <2>1, <2>2, <2>4, FailureAccounts
  <2> QED
    BY <2>1, <2>5
<1>7. Accounted(entries, ws, new, unindexed') /\ Carrying
  BY <1>5, <1>6 DEF Write
<1>8. AllTraced(desk, entries, ws, new.copies)
  <2>1. ASSUME NEW id \in Ids(desk) PROVE Traced(Tabbed(desk)[id], CopiesOf(entries, id), ws, new.copies)
    <3>1. Traced(Tabbed(desk)[id], CopiesOf(entries, id), writes, folder.copies)
      BY <1>4 DEF AllTraced
    <3>2. CopiesOf(entries, id) \subseteq entries
      BY DEF CopiesOf
    <3> QED
      BY <1>7, <3>1, <3>2 DEF Traced
  <2> QED
    BY <2>1 DEF AllTraced
<1> QED
  BY <1>2, <1>3, <1>7, <1>8 DEF CopiesKept, editor

\* Every step keeps the invariant of the copies.
LEMMA CopiesStayKept ==
  ASSUME TypeInvariant, CopiesKept, [Next]_vars
  PROVE  CopiesKept'
<1>0. CASE Write
  BY <1>0, WritingKeeps
<1> SUFFICES ASSUME ~Write, unindexed' = unindexed PROVE CopiesKept'
  BY <1>0, IndexStays
<1>1. CASE UNCHANGED vars
  BY <1>1, DeskStepKeeps DEF vars
<1>2. CASE Edit \/ Undo \/ Redo \/ activateSceneTab \/ moveTab \/ newSceneTab \/ openSceneTab
  <2>1. UNCHANGED <<phase, entries, recoverable, writes, folder>>
    BY <1>2 DEF Edit, Undo, Redo, activateSceneTab, moveTab, newSceneTab, openSceneTab, OnDesk, disk
  <2> QED
    BY <2>1, DeskStepKeeps
<1>3. CASE saveScene \/ saveAllScenes \/ showSaveSceneDialog \/ AnswerCancel
  <2>1. UNCHANGED <<phase, entries, recoverable, writes, folder>>
    BY <1>3 DEF saveScene, saveAllScenes, showSaveSceneDialog, AnswerCancel, disk
  <2> QED
    BY <2>1, DeskStepKeeps
<1>4. CASE SaveAsAnswered \/ RequestClose \/ RequestLeave \/ AnswerSave \/ AnswerDiscard
  <2>1. CASE Leaves /\ writes' = <<>>
    BY <2>1, LeavingKeeps DEF Leaves
  <2>2. CASE UNCHANGED <<phase, entries, recoverable, writes, folder>>
    BY <2>2, DeskStepKeeps
  <2> QED
    BY <1>4, <2>1, <2>2, LeavesOrStays
<1>5. CASE Crash
  BY <1>5, LeavingKeeps DEF Crash
<1>6. CASE OpenProject \/ CodeReady
  BY <1>6, OpeningTraces
<1>7. CASE updateAutosave
  BY <1>7, CopyingKeeps
<1>8. CASE recoverAutosave
  BY <1>8, RecoveringKeeps
<1>9. CASE discardAutosave
  BY <1>9, DiscardingKeeps
<1> QED
  BY <1>1, <1>2, <1>3, <1>4, <1>5, <1>6, <1>7, <1>8, <1>9 DEF Next

\* The copies the autosave keeps can be recovered (Autosave.cpp, syncCopies and writeIndex): the index names them all
\* at rest, unless the last write of it failed; a copy it names is there between any two writes, and the copy
\* of a scene nobody changed since holds that scene, whatever failed, for any set of files, capacity of the histories and number of crashes.
THEOREM CopiesCanBeFound == Spec => []CopiesAreFound
<1>1. Init => CopiesKept
  <2>1. SUFFICES ASSUME Init PROVE CopiesKept
    OBVIOUS
  <2>2. desk = Closed /\ entries = {} /\ writes = <<>>
    BY <2>1 DEF Init
  <2>3. Accounted({}, writes, folder, unindexed) /\ AllTraced(Closed, {}, writes, folder.copies)
    BY <2>2, FewOrdered, NothingAccounted, ClosedTraced
  <2> QED
    BY <2>2, <2>3 DEF CopiesKept
<1>2. TypeInvariant /\ CopiesKept /\ [Next]_vars => CopiesKept'
  BY CopiesStayKept
<1>3. TypeInvariant /\ CopiesKept => CopiesAreFound
  BY KeptAreFound
<1> QED
  BY <1>1, <1>2, <1>3, TypesAlways, PTL DEF Spec
=============================================================================
