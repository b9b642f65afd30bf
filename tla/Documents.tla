------------------------------ MODULE Documents ------------------------------
(***************************************************************************)
(* The scenes open in the editor and the copies it keeps of unsaved work:   *)
(* the tabs (tools/SceneTabs.cpp), each with its undo history; opening,     *)
(* saving and closing (tools/EditorSession.cpp) with the question about     *)
(* unsaved changes; the autosave (tools/Autosave.cpp); and the crash, after *)
(* which only the disk is left.                                             *)
(*                                                                         *)
(* The editor has one thread: a handler is one action.  What it writes to   *)
(* the autosave folder goes to the disk one write at a time, in the order   *)
(* of the code, with the handler not over until the last: writes holds what *)
(* is left, and a crash may come between two of them.                       *)
(***************************************************************************)
EXTENDS CommandHistory, Integers, FiniteSets

CONSTANTS
  Paths,        \* the scene files of the project
  NoPath,       \* the path of a scene that never was saved
  SaveAsMay,    \* what Save As may meet: "taken", the file of another tab; "refused", one it cannot write
  Limits        \* bounds: the sessions to consider, each with whether the work is copied
                \* (autosaveMinutes is not 0), whether writing the index may fail, how many edits
                \* are made, tabs opened in a session, and crashes

VARIABLES
  phase,        \* closed; waiting for the game code (scenesWaitForCode); or editing
  desk,         \* the tabs, the active one, and the document on screen (SceneTabs, ActiveDocument)
  pending,      \* the action that waits for an answer about unsaved changes (pendingAction)
  asking,       \* whether that question is on screen
  naming,       \* whether the dialog that names a scene is open (showSaveSceneDialog)
  entries,      \* the copies this session keeps (AutosaveState::entries)
  recoverable,  \* the copies a crash left, not answered for (AutosaveState::recoverable)
  writes,       \* what the handler under way has still to write to the autosave folder
  files,        \* of each path, the scene in its file
  folder,       \* .devex/autosave: the copies and what the index names
  unindexed,    \* whether the last write of the index failed
  lastScene,    \* the last scene made: an edit makes a new one
  crashes,
  limits

ASSUME DocumentsAssumption == IsFiniteSet(Paths) /\ NoPath \notin Paths

vars == <<phase, desk, pending, asking, naming, entries, recoverable, writes, files, folder, unindexed,
          lastScene, crashes, limits>>

editor == <<phase, desk, pending, asking, naming, entries, recoverable>>

disk == <<files, folder>>

bounds == <<unindexed, lastScene, crashes, limits>>

(***************************************************************************)
(* Documents                                                               *)
(***************************************************************************)

NoFile == -1

\* The saved state of a scene that was recovered, which no history reaches.
NeverSaved == -1

\* A scene as it is first: an empty one, or the one its file was written with.
FirstScene == 0

document(path, scene) == [path |-> path, scene |-> scene, history |-> NewHistory, savedState |-> 0]

Blank == document(NoPath, FirstScene)

SavedAs(new, old) == new = [old EXCEPT !.path = new.path, !.savedState = stateId(old.history)]

modified(d) == stateId(d.history) # d.savedState

(***************************************************************************)
(* The tabs                                                                *)
(***************************************************************************)

NoTab == 0

Closed == [tabs |-> <<>>, active |-> NoTab, live |-> Blank, nextId |-> 1]

\* The document of a tab: the active one's is on screen, and its tab holds a placeholder.
Held(k, i) == IF i = k.active THEN k.live ELSE k.tabs[i].document

Ids(k) == {k.tabs[i].id : i \in DOMAIN k.tabs}

At(k, id) == CHOOSE i \in DOMAIN k.tabs : k.tabs[i].id = id

\* Of each tab, its document.
Tabbed(k) == [id \in Ids(k) |-> Held(k, At(k, id))]

findByPath(k, path) == {i \in DOMAIN k.tabs : path # NoPath /\ Held(k, i).path = path}

isModified(k, i) == modified(Held(k, i))

Add(k, d) == [k EXCEPT !.tabs = Append(@, [id |-> k.nextId, document |-> d]), !.nextId = @ + 1]

AddAll(k, documents) ==
  [k EXCEPT !.tabs = @ \o [n \in DOMAIN documents |-> [id |-> k.nextId + n - 1, document |-> documents[n]]],
     !.nextId = @ + Len(documents)]

\* mutant: the document that leaves the screen is not put back in its tab
activate_Forgets(k, i) ==
  IF i = k.active THEN k
  ELSE [k EXCEPT !.active = i, !.live = k.tabs[i].document]

\* The two documents change places, the old one by way of the screen.
activate(k, i) ==
  IF i = k.active THEN k
  ELSE LET back == IF k.active = NoTab THEN k.tabs ELSE [k.tabs EXCEPT ![k.active].document = k.live]
           left == IF k.active = NoTab THEN k.live ELSE k.tabs[k.active].document
       IN  [k EXCEPT !.active = i, !.live = k.tabs[i].document,
              !.tabs = [back EXCEPT ![i].document = left]]

addAndActivate(k, d) == activate(Add(k, d), Len(k.tabs) + 1)

\* Every tab goes, and the document on screen is emptied.
clearTabs(k) ==
  LET h == clear(k.live.history)
  IN  [k EXCEPT !.tabs = <<>>, !.active = NoTab,
         !.live = [Blank EXCEPT !.history = h, !.savedState = stateId(h)]]

\* mutant: the tab before comes to the screen in place of the one after, which is the one shown active
close_WrongSide(k, i) ==
  LET neighbor == IF i < Len(k.tabs) THEN i + 1 ELSE i - 1
  IN  IF i # k.active
      THEN [k EXCEPT !.tabs = RemoveAt(@, i), !.active = IF @ > i THEN @ - 1 ELSE @]
      ELSE IF Len(k.tabs) = 1 THEN clearTabs(k)
      ELSE [k EXCEPT !.tabs = RemoveAt([@ EXCEPT ![neighbor].document = Blank], i),
              !.live = k.tabs[neighbor].document, !.active = i]

\* The tab after the closed one, or else the one before, comes to the screen.
close(k, i) ==
  LET neighbor == IF i < Len(k.tabs) THEN i + 1 ELSE i - 1
  IN  IF i # k.active
      THEN [k EXCEPT !.tabs = RemoveAt(@, i), !.active = IF @ > i THEN @ - 1 ELSE @]
      ELSE IF Len(k.tabs) = 1 THEN clearTabs(k)
      ELSE [k EXCEPT !.tabs = RemoveAt([@ EXCEPT ![neighbor].document = Blank], i),
              !.live = k.tabs[neighbor].document,
              !.active = IF neighbor > i THEN neighbor - 1 ELSE neighbor]

move(k, from, to) ==
  LET tabs == InsertAt(RemoveAt(k.tabs, from), to, k.tabs[from])
  IN  [k EXCEPT !.tabs = tabs, !.active = IF @ = NoTab THEN @ ELSE At([k EXCEPT !.tabs = tabs], k.tabs[@].id)]

\* A new scene nobody touched gives its place to the next one opened.
Untouched(k) == {i \in DOMAIN k.tabs : Len(k.tabs) = 1 /\ Held(k, i).path = NoPath /\ ~isModified(k, i)}

\* Opens a document in a tab of its own, and closes those it takes the place of.
OpenInPlace(k, d, replaced) ==
  LET opened == addAndActivate(k, d)
  IN  IF replaced = {} THEN opened ELSE close(opened, CHOOSE i \in replaced : TRUE)

\* A copy left by a crash opens as a modified scene, in place of the one of its file.
openRecoveredScene(k, copy) ==
  LET d == [document(copy.original, folder.copies[copy.file]) EXCEPT !.savedState = NeverSaved]
      open == findByPath(k, copy.original)
  IN  OpenInPlace(k, d, IF open # {} THEN open ELSE Untouched(k))

openRecoveredScenes(k, copies) ==
  LET opened[n \in 0 .. Len(copies)] ==
        IF n = 0 THEN k ELSE openRecoveredScene(opened[n - 1], copies[n])
  IN  opened[Len(copies)]

(***************************************************************************)
(* Saving and closing                                                      *)
(***************************************************************************)

NoAction == [kind |-> "none", tabs |-> {}]

Leaving == [kind |-> "leave", tabs |-> {}]

Concerned(action, id) == action.kind = "leave" \/ id \in action.tabs

\* mutant: only the tab on screen is asked about
affectedTabs_Shown(k, action) ==
  {i \in DOMAIN k.tabs : i = k.active /\ Concerned(action, k.tabs[i].id) /\ isModified(k, i)}

\* The tabs whose unsaved changes an action would drop.
affectedTabs(k, action) == {i \in DOMAIN k.tabs : Concerned(action, k.tabs[i].id) /\ isModified(k, i)}

\* The document of a tab, once it is saved in its file.
SaveTab(d) == [d EXCEPT !.savedState = stateId(d.history)]

SaveTabs(k, is) ==
  [k EXCEPT !.live = IF k.active \in is THEN SaveTab(@) ELSE @,
     !.tabs = [i \in DOMAIN k.tabs |->
                 IF i \in is \ {k.active} THEN [k.tabs[i] EXCEPT !.document = SaveTab(@)] ELSE k.tabs[i]]]

\* The files once some tabs are saved, in their order.
FilesWith(k, is) ==
  [p \in Paths |->
     LET here == {i \in is : Held(k, i).path = p}
     IN  IF here = {} THEN files[p] ELSE Held(k, CHOOSE i \in here : \A j \in here : j <= i).scene]

\* The tabs are closed in their order.
CloseTabs(k, ids) ==
  LET left[n \in 0 .. Len(k.tabs)] ==
        IF n = 0 THEN k
        ELSE IF k.tabs[n].id \in ids THEN close(left[n - 1], At(left[n - 1], k.tabs[n].id)) ELSE left[n - 1]
      kept == left[Len(k.tabs)]
  IN  IF kept.tabs = <<>> THEN addAndActivate(kept, Blank) ELSE kept

\* The copies with one written, anew or over what it was.
Put(copies, file, scene) == [f \in DOMAIN copies \cup {file} |-> IF f = file THEN scene ELSE copies[f]]

NoFolder == [copies |-> [f \in {} |-> f], index |-> {}]

\* mutant: the copies go whether they were answered for or not
Leaves_Always ==
  /\ phase' = "closed" /\ desk' = Closed /\ pending' = NoAction /\ asking' = FALSE
  /\ entries' = {} /\ recoverable' = {}
  /\ folder' = NoFolder

\* Quitting, and going to another project: the copies go, unless they still wait for an answer.
Leaves ==
  /\ phase' = "closed" /\ desk' = Closed /\ pending' = NoAction /\ asking' = FALSE
  /\ entries' = {} /\ recoverable' = {}
  /\ folder' = IF recoverable = {} THEN NoFolder ELSE folder

\* An action that would drop unsaved changes asks first; open: the question is already on screen.
requestAction(k, action, open) ==
  IF affectedTabs(k, action) # {}
  THEN /\ pending' = action /\ asking' = TRUE /\ desk' = k
       /\ UNCHANGED <<phase, entries, recoverable, folder>>
  ELSE IF action.kind = "leave" THEN Leaves
  ELSE /\ pending' = NoAction /\ asking' = open
       /\ desk' = CloseTabs(k, action.tabs)
       /\ UNCHANGED <<phase, entries, recoverable, folder>>

(***************************************************************************)
(* The copies of unsaved work                                              *)
(***************************************************************************)

\* What the folder offers to recover: the copies the index names, but those their file says as well.
Found ==
  {e \in folder.index : /\ e.file \in DOMAIN folder.copies
                        /\ e.original = NoPath \/ files[e.original] # folder.copies[e.file]}

Named(es) == {[file |-> e.file, original |-> e.original] : e \in es}

\* mutant: the index is written with the first copies only
IndexWrites_Once(es) ==
  IF es = {} THEN <<[op |-> "removeAll"]>>
  ELSE IF folder.index # {} THEN <<>>
  ELSE <<[op |-> "truncate"], [op |-> "index", names |-> Named(es)]>>

\* writeIndex: an index of nothing takes the folder with it; the file is emptied, then written.
\* Either may fail, which ends the handler: nothing else remembers it.
IndexWrites(es) ==
  IF es = {} THEN <<[op |-> "removeAll"]>>
  ELSE <<[op |-> "truncate"], [op |-> "index", names |-> Named(es)]>>

\* The modified tabs whose scene is not the one that was copied.
Due(k, known, copy) ==
  {i \in DOMAIN k.tabs :
     /\ copy /\ isModified(k, i)
     /\ \A e \in known : e.tab = k.tabs[i].id => e.stamp # stateId(Held(k, i).history)}

\* The n-th of some numbers, the least one first.
Nth(S, n) == CHOOSE m \in S : Cardinality({k \in S : k <= m}) = n

\* The name of the n-th new copy, which is the name of no other.
Fresh(used, n) == Nth((1 .. Cardinality(used) + n) \ used, n)

\* syncCopies over the tabs, with the entries known so far.  With copy, the scenes that changed are
\* copied, where writing may fail; every time, what is no longer modified loses its copy.
syncCopies(k, known, copy, before) ==
  LET due == Due(k, known, copy)
      old(i) == {e \in known : e.tab = k.tabs[i].id}
      staying == {i \in DOMAIN k.tabs : isModified(k, i)} \ due
      used == {e.file : e \in known \cup folder.index} \cup DOMAIN folder.copies
      unnamed(i) == {j \in due : j <= i /\ old(j) = {}}
      name(i) == IF old(i) # {} THEN (CHOOSE e \in old(i) : TRUE).file
                 ELSE Fresh(used, Cardinality(unnamed(i)))
      entry(i) == [tab |-> k.tabs[i].id, file |-> name(i), original |-> Held(k, i).path,
                   stamp |-> stateId(Held(k, i).history)]
      stay(i) == {[e EXCEPT !.original = Held(k, i).path] : e \in old(i)}
  IN  \E failed \in SUBSET due :
        LET copied == due \ failed
            kept == {entry(i) : i \in copied} \cup (UNION {stay(i) : i \in staying})
                      \cup (UNION {old(i) : i \in failed})
            dropped == {e.file : e \in known} \ {e.file : e \in kept}
            copies == [n \in 1 .. Cardinality(copied) |->
                         LET i == Nth(copied, n)
                         IN  [op |-> "copy", file |-> name(i), scene |-> Held(k, i).scene]]
            removals == [n \in 1 .. Cardinality(dropped) |-> [op |-> "remove", file |-> Nth(dropped, n)]]
            changed == \/ copied # {} \/ dropped # {}
                       \/ \E i \in staying : stay(i) # old(i)
        IN  /\ entries' = kept
            /\ writes' = before \o copies \o removals \o (IF changed THEN IndexWrites(kept) ELSE <<>>)

(***************************************************************************)
(* Actions                                                                 *)
(***************************************************************************)

Init ==
  /\ phase = "closed" /\ desk = Closed /\ pending = NoAction
  /\ asking = FALSE /\ naming = FALSE
  /\ entries = {} /\ recoverable = {} /\ writes = <<>>
  /\ files \in [Paths -> {NoFile, FirstScene}]
  /\ folder = NoFolder /\ unindexed = FALSE
  /\ lastScene = FirstScene /\ crashes = 0 /\ limits \in Limits

\* The scenes the project was left with open, or a new one, and the copies of a crash are looked for.
openScenes ==
  /\ \E left \in SUBSET {p \in Paths : files[p] # NoFile} : \E order \in SetToSeqs(left) :
       LET documents == IF left = {} THEN <<Blank>>
                        ELSE [n \in DOMAIN order |-> document(order[n], files[order[n]])]
       IN  \E i \in DOMAIN documents : desk' = activate(AddAll(clearTabs(Closed), documents), i)
  /\ phase' = "editing" /\ recoverable' = Found
  /\ UNCHANGED <<pending, asking, naming, entries, writes, disk, bounds>>

\* A project opens; its scenes wait for the game code when it is compiling.
OpenProject ==
  /\ phase = "closed"
  /\ \/ openScenes
     \/ /\ phase' = "waiting"
        /\ UNCHANGED <<desk, pending, asking, naming, entries, recoverable, writes, disk, bounds>>

\* The game code is compiled, or the user does not wait for it.
CodeReady == phase = "waiting" /\ openScenes

\* The dialogs about unsaved changes and about the copies of a crash are modal.
Idle == phase = "editing" /\ writes = <<>> /\ recoverable = {}

AtWork == Idle /\ ~asking

OnDesk(k) ==
  /\ desk' = k
  /\ UNCHANGED <<phase, pending, asking, naming, entries, recoverable, writes, disk, bounds>>

Edit ==
  /\ AtWork /\ lastScene < limits.edits
  /\ lastScene' = lastScene + 1
  /\ desk' = [desk EXCEPT !.live.scene = lastScene + 1,
                !.live.history = recordApplied(@, desk.live.scene, lastScene + 1)]
  /\ UNCHANGED <<phase, pending, asking, naming, entries, recoverable, writes, disk, unindexed, crashes, limits>>

Undo ==
  /\ AtWork /\ canUndo(desk.live.history)
  /\ OnDesk([desk EXCEPT !.live.scene = Last(desk.live.history.done).from, !.live.history = undo(@)])

Redo ==
  /\ AtWork /\ canRedo(desk.live.history)
  /\ OnDesk([desk EXCEPT !.live.scene = Last(desk.live.history.undone).to, !.live.history = redo(@)])

activateSceneTab == AtWork /\ \E i \in DOMAIN desk.tabs : OnDesk(activate(desk, i))

moveTab == AtWork /\ \E from, to \in DOMAIN desk.tabs : from # to /\ OnDesk(move(desk, from, to))

newSceneTab == AtWork /\ desk.nextId <= limits.tabs /\ OnDesk(addAndActivate(desk, Blank))

openSceneTab ==
  /\ AtWork
  /\ \E p \in Paths :
       LET open == findByPath(desk, p)
       IN  \/ open # {} /\ OnDesk(activate(desk, Min(open)))
           \/ /\ open = {} /\ files[p] # NoFile /\ desk.nextId <= limits.tabs
              /\ OnDesk(OpenInPlace(desk, document(p, files[p]), Untouched(desk)))

\* A scene without a file asks for one; writing a file may fail, and changes nothing then.
saveScene ==
  /\ AtWork
  /\ IF desk.live.path = NoPath
     THEN naming' = TRUE /\ UNCHANGED <<desk, files>>
     ELSE /\ files' = [files EXCEPT ![desk.live.path] = desk.live.scene]
          /\ desk' = SaveTabs(desk, {desk.active})
          /\ UNCHANGED naming
  /\ UNCHANGED <<phase, pending, asking, entries, recoverable, writes, folder, bounds>>

saveAllScenes ==
  /\ AtWork
  /\ \E failed \in SUBSET {i \in DOMAIN desk.tabs : isModified(desk, i)} :
       LET saved == {i \in DOMAIN desk.tabs : isModified(desk, i) /\ Held(desk, i).path # NoPath} \ failed
       IN  desk' = SaveTabs(desk, saved) /\ files' = FilesWith(desk, saved)
  /\ naming' = (naming \/ (desk.live.path = NoPath /\ modified(desk.live)))
  /\ UNCHANGED <<phase, pending, asking, entries, recoverable, writes, folder, bounds>>

\* Save Scene As asks for a file whether the scene has one or not.
showSaveSceneDialog ==
  /\ AtWork /\ naming' = TRUE
  /\ UNCHANGED <<phase, desk, pending, asking, entries, recoverable, writes, disk, bounds>>

\* The dialog that names a scene answers: the scene now on screen is saved there, and an action that
\* waited goes on.  Cancelled, the action is as well.
SaveAsAnswered ==
  /\ Idle /\ naming
  /\ naming' = FALSE
  /\ UNCHANGED <<writes, bounds>>
  /\ \/ /\ pending' = NoAction
        /\ UNCHANGED <<phase, desk, asking, entries, recoverable, files, folder>>
     \/ \E p \in Paths, refused \in {FALSE} \cup {TRUE : m \in SaveAsMay \cap {"refused"}} :
          /\ "taken" \in SaveAsMay \/ findByPath(desk, p) \subseteq {desk.active}
          /\ LET named == [desk EXCEPT !.live.path = p]
                 saved == SaveTabs(named, {desk.active})
             IN  /\ files' = IF refused THEN files ELSE [files EXCEPT ![p] = desk.live.scene]
                 /\ IF refused \/ pending = NoAction
                    THEN /\ desk' = IF refused THEN named ELSE saved
                         /\ UNCHANGED <<phase, pending, asking, entries, recoverable, folder>>
                    ELSE requestAction(saved, pending, asking)

\* Closing a tab, the others, those at its right or all of them asks when it would drop changes.
RequestClose ==
  /\ AtWork /\ desk.nextId <= limits.tabs
  /\ \E ids \in SUBSET Ids(desk) \ {{}} : requestAction(desk, [kind |-> "close", tabs |-> ids], FALSE)
  /\ UNCHANGED <<naming, writes, files, bounds>>

\* The window may be closed at any time, the questions and the wait for the game code included.
RequestLeave ==
  /\ phase \in {"editing", "waiting"} /\ writes = <<>>
  /\ requestAction(desk, Leaving, asking)
  /\ naming' = (naming /\ phase' = "editing")
  /\ UNCHANGED <<writes, files, bounds>>

\* Save: the tabs are saved in their order, up to a scene without a file, which comes to the screen
\* to be named, or to one that cannot be written.  When all are saved, the action is asked again.
AnswerSave ==
  /\ Idle /\ asking /\ pending # NoAction
  /\ LET affected == affectedTabs(desk, pending)
         unnamed == {i \in affected : Held(desk, i).path = NoPath}
     IN  \E failed \in {{}} \cup {{i} : i \in affected \ unnamed} :
           LET stops == unnamed \cup failed
               saved == {i \in affected : \A stop \in stops : i < stop}
               k == SaveTabs(desk, saved)
           IN  /\ files' = FilesWith(desk, saved)
               /\ IF stops = {}
                  THEN requestAction(k, pending, FALSE) /\ naming' = (naming /\ phase' = "editing")
                  ELSE /\ asking' = FALSE
                       /\ desk' = IF Min(stops) \in unnamed THEN activate(k, Min(stops)) ELSE k
                       /\ naming' = (naming \/ Min(stops) \in unnamed)
                       /\ pending' = IF Min(stops) \in unnamed \cup {desk.active} THEN pending ELSE NoAction
                       /\ UNCHANGED <<phase, entries, recoverable, folder>>
  /\ UNCHANGED <<writes, bounds>>

\* Don't Save: the action is carried out.
AnswerDiscard ==
  /\ Idle /\ asking /\ pending # NoAction
  /\ IF pending.kind = "leave" THEN Leaves
     ELSE /\ asking' = FALSE /\ pending' = NoAction
          /\ desk' = CloseTabs(desk, pending.tabs)
          /\ UNCHANGED <<phase, entries, recoverable, folder>>
  /\ naming' = (naming /\ phase' = "editing")
  /\ UNCHANGED <<writes, files, bounds>>

\* Cancel; and any answer once the action it was about is gone.
AnswerCancel ==
  /\ Idle /\ asking
  /\ asking' = FALSE /\ pending' = NoAction
  /\ UNCHANGED <<phase, desk, naming, entries, recoverable, writes, disk, bounds>>

\* Every few minutes the work is copied; in between, the copies nothing needs are swept away.
updateAutosave ==
  /\ Idle
  /\ \E copy \in BOOLEAN : (IF copy THEN limits.copying ELSE entries # {}) /\ syncCopies(desk, entries, copy, <<>>)
  /\ UNCHANGED <<phase, desk, pending, asking, naming, recoverable, disk, bounds>>

\* Recover: every copy opens as a modified scene, the folder is set aside (which is not
\* modelled further: nothing reads it), and the work is copied again.
recoverAutosave ==
  /\ phase = "editing" /\ writes = <<>> /\ recoverable # {}
  /\ \E order \in SetToSeqs(recoverable) :
       LET k == openRecoveredScenes(desk, order)
       IN  desk' = k /\ syncCopies(k, {}, TRUE, <<[op |-> "setAside"]>>)
  /\ recoverable' = {}
  /\ UNCHANGED <<phase, pending, asking, naming, disk, bounds>>

\* Discard: the folder is set aside.
discardAutosave ==
  /\ phase = "editing" /\ writes = <<>> /\ recoverable # {}
  /\ recoverable' = {}
  /\ writes' = <<[op |-> "setAside"]>>
  /\ UNCHANGED <<phase, desk, pending, asking, naming, entries, disk, bounds>>

\* The next write of the handler under way reaches the disk.
WriteDone ==
  /\ LET next == Head(writes)
     IN  /\ folder' =
              CASE next.op = "copy" -> [folder EXCEPT !.copies = Put(@, next.file, next.scene)]
                [] next.op = "remove" -> [folder EXCEPT !.copies = Restrict(@, DOMAIN @ \ {next.file})]
                [] next.op = "truncate" -> [folder EXCEPT !.index = {}]
                [] next.op = "index" -> [folder EXCEPT !.index = next.names]
                [] next.op \in {"removeAll", "setAside"} -> NoFolder
         /\ unindexed' = (unindexed /\ next.op # "index")
  /\ writes' = Tail(writes)

\* The index cannot be opened, and stays as it was, or is written in part; the editor goes on.
IndexFails ==
  /\ limits.failing
  /\ LET next == Head(writes)
     IN  \/ next.op = "truncate" /\ folder' = folder
         \/ next.op = "index" /\ \E names \in SUBSET next.names : folder' = [folder EXCEPT !.index = names]
  /\ writes' = <<>> /\ unindexed' = TRUE

Write ==
  /\ writes # <<>>
  /\ WriteDone \/ IndexFails
  /\ UNCHANGED <<editor, files, lastScene, crashes, limits>>

\* The editor crashes, and only the disk is left.
Crash ==
  /\ phase # "closed" /\ crashes < limits.crashes
  /\ crashes' = crashes + 1
  /\ phase' = "closed" /\ desk' = Closed /\ pending' = NoAction
  /\ asking' = FALSE /\ naming' = FALSE
  /\ entries' = {} /\ recoverable' = {} /\ writes' = <<>>
  /\ UNCHANGED <<disk, unindexed, lastScene, limits>>

Next ==
  \/ OpenProject \/ CodeReady
  \/ Edit \/ Undo \/ Redo
  \/ activateSceneTab \/ moveTab \/ newSceneTab \/ openSceneTab
  \/ saveScene \/ saveAllScenes \/ showSaveSceneDialog \/ SaveAsAnswered
  \/ RequestClose \/ RequestLeave \/ AnswerSave \/ AnswerDiscard \/ AnswerCancel
  \/ updateAutosave \/ recoverAutosave \/ discardAutosave
  \/ Write \/ Crash

Spec == Init /\ [][Next]_vars

(***************************************************************************)
(* Properties                                                              *)
(***************************************************************************)

Document == [path : Paths \cup {NoPath}, scene : Nat, history : Histories, savedState : Nat \cup {NeverSaved}]

Names == [file : Nat, original : Paths \cup {NoPath}]

FolderOk(f) == DOMAIN f.copies \subseteq Nat /\ (\A n \in DOMAIN f.copies : f.copies[n] \in Nat) /\ f.index \subseteq Names

\* Every variable keeps its type, no two tabs have one number, and an open project shows a tab.
TypeOK ==
  /\ phase \in {"closed", "waiting", "editing"}
  /\ desk.live \in Document /\ desk.nextId \in Nat
  /\ \A i \in DOMAIN desk.tabs : desk.tabs[i].id < desk.nextId /\ desk.tabs[i].document \in Document
  /\ \A i, j \in DOMAIN desk.tabs : desk.tabs[i].id = desk.tabs[j].id => i = j
  /\ IF phase = "editing" THEN desk.active \in DOMAIN desk.tabs ELSE desk = Closed
  /\ pending.kind \in {"none", "close", "leave"} /\ asking \in BOOLEAN /\ naming \in BOOLEAN
  /\ entries \subseteq [tab : Nat, file : Nat, original : Paths \cup {NoPath}, stamp : Nat]
  /\ recoverable \subseteq Names
  /\ files \in [Paths -> Nat \cup {NoFile}]
  /\ FolderOk(folder) /\ unindexed \in BOOLEAN

\* A tab shown without unsaved changes holds the scene of its file, whatever was undone, redone,
\* forgotten by the history, saved or shown since: the identifier of a state stands for the scene.
UnmodifiedIsSaved ==
  \A i \in DOMAIN desk.tabs :
    LET d == Held(desk, i)
    IN  d.path # NoPath /\ ~modified(d) => d.scene = files[d.path]

\* The autosave folder can be recovered from.  At rest, its index names every copy this session keeps,
\* except from a write of the index that failed until it is written again, which is when something
\* changes; and the copy of a scene nobody changed since is there and holds that scene.  Between two
\* writes, and whatever failed, a copy the session keeps and the index names is there.
CopiesAreFound ==
  /\ \A e \in folder.index : e \in Named(entries) => e.file \in DOMAIN folder.copies
  /\ Idle => /\ unindexed \/ Named(entries) \subseteq folder.index
             /\ \A i \in DOMAIN desk.tabs : \A e \in entries :
                  e.tab = desk.tabs[i].id /\ e.stamp = stateId(Held(desk, i).history)
                    => e.file \in DOMAIN folder.copies /\ folder.copies[e.file] = Held(desk, i).scene

\* The copies a crash left that still have to be answered for.
Owed == IF phase = "editing" THEN recoverable ELSE Found

\* The window is closed while the scenes wait for the game code, before the copies were looked for.
QuitsUnasked == phase = "waiting" /\ phase' = "closed" /\ crashes' = crashes

\* The copies of a crash stay on the disk, through openings, quits and other crashes, until the user
\* recovers or discards them, but for QuitsUnasked, where the code takes the copies it has not looked
\* for as answered for and removes them.
UnansweredCopiesStay ==
  [][ \/ recoverable # {} /\ phase' = "editing"
      \/ QuitsUnasked
      \/ \A e \in Owed : /\ e \in folder'.index /\ e.file \in DOMAIN folder'.copies
                         /\ folder'.copies[e.file] = folder.copies[e.file] ]_vars

\* Unsaved changes go only with a crash, or by an action the question on screen was about: a modified
\* scene is still open after any other step, or is in a file.
NothingDroppedUnasked ==
  [][ crashes' > crashes \/
      \A i \in DOMAIN desk.tabs :
        LET d == Held(desk, i)
            id == desk.tabs[i].id
        IN  isModified(desk, i) =>
              \/ id \in Ids(desk')
              \/ \E p \in Paths : files'[p] = d.scene
              \/ asking /\ Concerned(pending, id) ]_vars

OD == INSTANCE OpenDocuments WITH
        documents <- Tabbed(desk),
        shown <- IF desk.active = NoTab THEN NoTab ELSE desk.tabs[desk.active].id,
        NoTab <- NoTab,
        Saved <- SavedAs

\* The tabs keep what OpenDocuments promises: each keeps its own document, and only the one on screen
\* is edited, although the documents change places at each switch.
TabsAsPromised == OD!Spec
=============================================================================
