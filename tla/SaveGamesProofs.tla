--------------------------- MODULE SaveGamesProofs ---------------------------
(***************************************************************************)
(* Proofs about SaveGames, for every set of slots and every bound: its      *)
(* types, which save a slot reads whatever failed or crashed, when what it  *)
(* reads may change, and that the time played goes with the scene.          *)
(***************************************************************************)
EXTENDS SaveGames, SequenceTheorems, TLAPS

(***************************************************************************)
(* The inductive invariant                                                 *)
(***************************************************************************)

\* The file of a slot is the last save written to it.
FileIsLast == \A s \in Slots : file[s] # Missing => file[s].save = written[s].last

\* So is its backup, or it is the one before; and without a file, there is none.
BackupIsRecent ==
  \A s \in Slots : ~loose[s] /\ backup[s] # Missing =>
    file[s] # Missing /\ backup[s].save \in {written[s].last, written[s].before}

\* What a call under way has done so far.
CallIsOnItsWay ==
  /\ At("copy") => file[call.slot] # Missing
  /\ At("copying") => file[call.slot] # Missing /\ backup[call.slot].save = file[call.slot].save
  /\ At("write") /\ ~loose[call.slot] /\ backup[call.slot] # Missing =>
       backup[call.slot].save = written[call.slot].last
  /\ At("removeBackup") => file[call.slot] = Missing

SlotsInv == FileIsLast /\ BackupIsRecent /\ CallIsOnItsWay

(***************************************************************************)
(* Types                                                                   *)
(***************************************************************************)

\* A part of a save on the disk is a file.
LEMMA PartsAreFiles ==
  ASSUME NEW f \in Files, f # Missing, NEW part \in Parts(f)
  PROVE  part \in Files /\ part # Missing /\ part.save = f.save
BY DEF Files, Parts, Missing, Damaged, Saves, NoSave

\* A call under way is on a slot, and a call that saves is of a save.
LEMMA CallsHaveSlots ==
  ASSUME TypeOK, call # NoCall
  PROVE  call \in Calls /\ call.slot \in Slots
BY DEF TypeOK, Calls

\* A call that saves is of a save.
LEMMA SavesSave ==
  ASSUME TypeOK, call.step \in SaveSteps
  PROVE  call # NoCall /\ call.slot \in Slots /\ call.save \in Saves
<1>1. call # NoCall
  BY DEF NoCall, SaveSteps
<1>2. call.step \notin RemoveSteps
  BY DEF SaveSteps, RemoveSteps
<1>3. call \in [step : SaveSteps, slot : Slots, save : Saves, thumbnail : BOOLEAN]
  BY <1>1, <1>2 DEF TypeOK, Calls
<1> QED
  BY <1>1, <1>3

\* The next step of a call under way is one of the same call.
LEMMA NextStep ==
  ASSUME TypeOK, call # NoCall, NEW step,
         \/ call.step \in SaveSteps /\ step \in SaveSteps
         \/ call.step \in RemoveSteps /\ step \in RemoveSteps,
         Goes(step)
  PROVE  call' \in Calls /\ call'.slot = call.slot /\ call'.save = call.save
BY CallsHaveSlots DEF TypeOK, Calls, Goes, SaveSteps, RemoveSteps

\* What a slot reads is a file.
LEMMA ReadsAFile ==
  ASSUME TypeOK, NEW s \in Slots
  PROVE  /\ readSave(s) \in Files
         /\ parseSave(readSave(s)) => readSave(s).save \in Saves
BY DEF TypeOK, readSave, parseSave, Files, Missing, Damaged

\* Initially, every variable has its type.
LEMMA InitTypes == Init => TypeOK
<1> SUFFICES ASSUME Init PROVE TypeOK
  OBVIOUS
<1>1. Missing \in Files
  BY DEF Files
<1>2. NoSave \in Saves \cup {NoSave} /\ 0 \in 0..MaxSaves /\ 0 \in Nat
  BY LimitsAreBounds
<1>3. NoRestore \in [save : Saves \cup {NoSave}, scene : Scenes]
  BY DEF NoRestore, Scenes
<1>4. NoRequests \in Seq([slot : Slots, save : Saves])
  BY DEF NoRequests
<1>5. [s \in Slots |-> [last |-> NoSave, before |-> NoSave]]
        \in [Slots -> [last : Saves \cup {NoSave}, before : Saves \cup {NoSave}]]
  OBVIOUS
<1> QED
  BY <1>1, <1>2, <1>3, <1>4, <1>5 DEF Init, TypeOK

\* What a game that starts or is gone leaves has its types.
LEMMA FreshTypes ==
  ASSUME Fresh
  PROVE  /\ clock' \in Saves \cup {NoSave} /\ scene' \in Saves \cup {NoSave}
         /\ restore' \in [save : Saves \cup {NoSave}, scene : Scenes]
         /\ requests' \in Seq([slot : Slots, save : Saves])
         /\ unrestored' \in BOOLEAN
<1>1. NoRestore \in [save : Saves \cup {NoSave}, scene : Scenes]
  BY DEF NoRestore, Scenes
<1>2. NoRequests \in Seq([slot : Slots, save : Saves])
  BY DEF NoRequests
<1> QED
  BY <1>1, <1>2 DEF Fresh

\* Every step keeps the types.
LEMMA TypesKept ==
  ASSUME TypeOK, CallIsOnItsWay, [Next]_vars
  PROVE  TypeOK'
<1>1. ASSUME NEW s \in Slots, NEW keepsScene \in BOOLEAN, NEW thumbnail \in BOOLEAN, save(s, keepsScene, thumbnail)
      PROVE  TypeOK'
  <2>1. lastSave + 1 \in Saves /\ lastSave' \in 0..MaxSaves
    BY <1>1, LimitsAreBounds DEF TypeOK, save, Saves
  <2>2. call' \in Calls /\ withScene' \in SUBSET Saves
    BY <1>1, <2>1 DEF TypeOK, save, Calls, SaveSteps
  <2> QED
    BY <1>1, <2>1, <2>2 DEF TypeOK, save, disk, game, history
<1>2. CASE copyBegins
  <2>1. call # NoCall /\ call' \in Calls
    BY <1>2, NextStep DEF copyBegins, At, NoCall, SaveSteps
  <2>2. \A part \in Parts(file[call.slot]) : part \in Files
    BY <1>2, <2>1, CallsHaveSlots, PartsAreFiles DEF TypeOK, copyBegins, CallIsOnItsWay
  <2> QED
    BY <1>2, <2>1, <2>2 DEF TypeOK, copyBegins, game, bounds
<1>3. CASE copyEnds
  <2>1. call # NoCall /\ call' \in Calls /\ call.slot \in Slots
    BY <1>3, NextStep, CallsHaveSlots DEF copyEnds, At, NoCall, SaveSteps
  <2> QED
    BY <1>3, <2>1 DEF TypeOK, copyEnds, game, bounds, history
<1>4. CASE copyFails
  <2>1. call # NoCall /\ call' \in Calls /\ call.slot \in Slots
    BY <1>4, NextStep, CallsHaveSlots DEF copyFails, NoCall, SaveSteps
  <2>2. loose' \in [Slots -> BOOLEAN]
    BY <1>4, <2>1 DEF TypeOK, copyFails, At
  <2> QED
    BY <1>4, <2>1, <2>2 DEF TypeOK, copyFails, Fault, disk, game
<1>5. CASE writeEnds
  <2>0. call # NoCall /\ call.slot \in Slots /\ call.save \in Saves
    BY <1>5, SavesSave DEF writeEnds, At, SaveSteps
  <2>1. call' \in Calls
    BY <1>5, <2>0, NextStep DEF writeEnds, At, SaveSteps
  <2>2. Whole(call.save) \in Files
    BY <2>0 DEF Whole, Files
  <2> QED
    BY <1>5, <2>0, <2>1, <2>2 DEF TypeOK, writeEnds, Written, game, bounds
<1>6. CASE writeFails
  BY <1>6 DEF TypeOK, writeFails, Fault, Returns, disk, game, history
<1>7. CASE asksForPicture
  <2>1. call.slot \in Slots /\ call.save \in Saves
    BY <1>7, SavesSave DEF asksForPicture, At, SaveSteps
  <2>2. [slot |-> call.slot, save |-> call.save] \in [slot : Slots, save : Saves]
    BY <2>1
  <2>3. requests' \in Seq([slot : Slots, save : Saves])
    BY <1>7, <2>2 DEF TypeOK, asksForPicture
  <2> QED
    BY <1>7, <2>3 DEF TypeOK, asksForPicture, Returns, disk, bounds, history
<1>8. CASE picturelessSaveEnds
  BY <1>8 DEF TypeOK, picturelessSaveEnds, Returns, game, bounds, history
<1>9. CASE pictureStays
  BY <1>9 DEF TypeOK, pictureStays, Fault, Returns, disk, game, history
<1>10. ASSUME NEW s \in Slots, remove(s) PROVE TypeOK'
  <2>1. call' \in Calls
    BY <1>10 DEF remove, Calls, RemoveSteps
  <2> QED
    BY <1>10, <2>1 DEF TypeOK, remove, disk, game, bounds, history
<1>11. CASE removeFile
  <2>1. call # NoCall /\ call' \in Calls /\ call.slot \in Slots
    BY <1>11, NextStep, CallsHaveSlots DEF removeFile, At, NoCall, RemoveSteps
  <2>2. Missing \in Files
    BY DEF Files
  <2> QED
    BY <1>11, <2>1, <2>2 DEF TypeOK, removeFile, game, bounds
<1>12. CASE removeBackup
  <2>1. call # NoCall /\ call' \in Calls /\ call.slot \in Slots
    BY <1>12, NextStep, CallsHaveSlots DEF removeBackup, At, NoCall, RemoveSteps
  <2>2. Missing \in Files /\ NoSave \in Saves \cup {NoSave}
    BY DEF Files
  <2> QED
    BY <1>12, <2>1, <2>2 DEF TypeOK, removeBackup, game, bounds
<1>13. CASE removePicture
  BY <1>13 DEF TypeOK, removePicture, Returns, game, bounds, history
<1>14. CASE removeFails
  BY <1>14 DEF TypeOK, removeFails, Fault, Returns, disk, game, history
<1>15. ASSUME NEW s \in Slots, load(s) PROVE TypeOK'
  <2>1. readSave(s).save \in Saves
    BY <1>15, ReadsAFile DEF load
  <2>2. \A found \in SceneOf(readSave(s)) : found \in Scenes
    BY DEF SceneOf, Scenes
  <2> QED
    BY <1>15, <2>1, <2>2 DEF TypeOK, load, disk, bounds, history
<1>16. CASE updateGameData
  <2>1. captures' \in Seq([slot : Slots, save : Saves]) /\ requests' \in Seq([slot : Slots, save : Saves])
    BY <1>16 DEF TypeOK, updateGameData, RequestsCaptures, NoRequests
  <2>2. restore' \in [save : Saves \cup {NoSave}, scene : Scenes]
    BY <1>16 DEF updateGameData, NoRestore, Scenes
  <2> QED
    BY <1>16, <2>1, <2>2 DEF TypeOK, updateGameData, disk, bounds, history
<1>17. CASE restoreFails
  <2>1. captures' \in Seq([slot : Slots, save : Saves]) /\ requests' \in Seq([slot : Slots, save : Saves])
    BY <1>17 DEF TypeOK, restoreFails, RequestsCaptures, NoRequests
  <2>2. restore' \in [save : Saves \cup {NoSave}, scene : Scenes]
    BY <1>17 DEF restoreFails, NoRestore, Scenes
  <2> QED
    BY <1>17, <2>1, <2>2 DEF TypeOK, restoreFails, Fault, disk, bounds, history
<1>18. CASE writeThumbnails
  <2>1. Head(captures) \in [slot : Slots, save : Saves] /\ captures' \in Seq([slot : Slots, save : Saves])
    BY <1>18, HeadTailProperties DEF TypeOK, writeThumbnails, NoRequests
  <2> QED
    BY <1>18, <2>1 DEF TypeOK, writeThumbnails, game, bounds, history
<1>19. CASE thumbnailFails
  <2>1. captures' \in Seq([slot : Slots, save : Saves])
    BY <1>19 DEF TypeOK, thumbnailFails, NoRequests
  <2> QED
    BY <1>19, <2>1 DEF TypeOK, thumbnailFails, Fault, disk, game, history
<1>20. CASE createGameData
  BY <1>20, FreshTypes DEF TypeOK, createGameData, disk, bounds, history
<1>21. CASE destroyGameData
  BY <1>21, FreshTypes DEF TypeOK, destroyGameData, disk, bounds, history
<1>22. CASE crash
  <2>1. captures' \in Seq([slot : Slots, save : Saves])
    BY <1>22 DEF crash, NoRequests
  <2>2. /\ clock' \in Saves \cup {NoSave} /\ scene' \in Saves \cup {NoSave}
        /\ restore' \in [save : Saves \cup {NoSave}, scene : Scenes]
        /\ requests' \in Seq([slot : Slots, save : Saves])
        /\ unrestored' \in BOOLEAN
    BY <1>22, FreshTypes DEF crash
  <2>3. call' = NoCall /\ faults' \in Nat
    BY <1>22 DEF TypeOK, crash, Fault, Returns
  <2>5. playing' \in BOOLEAN
    BY <1>22 DEF crash
  <2>4. UNCHANGED <<disk, history, withScene, lastSave, limits>>
    BY <1>22 DEF crash, Fault
  <2> QED
    BY <2>1, <2>2, <2>3, <2>4, <2>5 DEF TypeOK, disk, history
<1>23. ASSUME NEW s \in Slots, damage(s) PROVE TypeOK'
  <2>1. file[s] # Missing
    BY <1>23 DEF damage, Missing
  <2>2. \A part \in Parts(file[s]) : part \in Files
    BY <2>1, PartsAreFiles DEF TypeOK
  <2> QED
    BY <1>23, <2>2 DEF TypeOK, damage, Fault, game, history
<1>24. CASE UNCHANGED vars
  BY <1>24 DEF TypeOK, vars, disk, game, history, bounds
<1> QED
  BY <1>1, <1>2, <1>3, <1>4, <1>5, <1>6, <1>7, <1>8, <1>9, <1>10, <1>11, <1>12, <1>13, <1>14, <1>15, <1>16,
     <1>17, <1>18, <1>19, <1>20, <1>21, <1>22, <1>23, <1>24 DEF Next

(***************************************************************************)
(* The invariant                                                           *)
(***************************************************************************)

\* A step that changes no save and begins no call keeps the invariant.
LEMMA OtherStepsKeepSlots ==
  ASSUME SlotsInv, UNCHANGED <<file, backup, written, loose>>, call' \in {call, NoCall}
  PROVE  SlotsInv'
<1>1. FileIsLast' /\ BackupIsRecent'
  BY DEF SlotsInv, FileIsLast, BackupIsRecent
<1>2. CallIsOnItsWay'
  BY DEF SlotsInv, CallIsOnItsWay, At, NoCall
<1> QED
  BY <1>1, <1>2 DEF SlotsInv

\* Every step keeps the invariant.
LEMMA SlotsKept ==
  ASSUME TypeOK, SlotsInv, [Next]_vars
  PROVE  SlotsInv'
<1>1. ASSUME NEW s \in Slots, NEW keepsScene \in BOOLEAN, NEW thumbnail \in BOOLEAN, save(s, keepsScene, thumbnail)
      PROVE  SlotsInv'
  <2>1. FileIsLast' /\ BackupIsRecent'
    BY <1>1 DEF SlotsInv, FileIsLast, BackupIsRecent, save, disk, history
  <2>2. CallIsOnItsWay'
    BY <1>1 DEF SlotsInv, BackupIsRecent, CallIsOnItsWay, At, save, disk, history
  <2> QED
    BY <2>1, <2>2 DEF SlotsInv
<1>2. CASE copyBegins
  <2>1. call.slot \in Slots /\ file[call.slot] # Missing /\ file[call.slot] \in Files
    BY <1>2, SavesSave DEF TypeOK, SlotsInv, CallIsOnItsWay, copyBegins, At, SaveSteps
  <2>2. call'.slot = call.slot /\ call'.step = "copying"
    BY <1>2, <2>1, CallsHaveSlots, SavesSave DEF copyBegins, At, Goes, SaveSteps, Calls, RemoveSteps
  <2>3. PICK part \in Parts(file[call.slot]) : backup' = [backup EXCEPT ![call.slot] = part]
    BY <1>2 DEF copyBegins
  <2>4. part # Missing /\ part.save = file[call.slot].save
    BY <2>1, PartsAreFiles
  <2>5. FileIsLast'
    BY <1>2 DEF SlotsInv, FileIsLast, copyBegins
  <2>6. BackupIsRecent'
    BY <1>2, <2>1, <2>3, <2>4 DEF TypeOK, SlotsInv, FileIsLast, BackupIsRecent, copyBegins
  <2>7. CallIsOnItsWay'
    BY <1>2, <2>1, <2>2, <2>3, <2>4 DEF TypeOK, CallIsOnItsWay, At, copyBegins
  <2> QED
    BY <2>5, <2>6, <2>7 DEF SlotsInv
<1>3. CASE copyEnds
  <2>1. call.slot \in Slots /\ file[call.slot] # Missing
    BY <1>3, SavesSave DEF SlotsInv, CallIsOnItsWay, copyEnds, At, SaveSteps
  <2>2. call'.slot = call.slot /\ call'.step = "write"
    BY <1>3, CallsHaveSlots, SavesSave DEF copyEnds, At, Goes, SaveSteps, Calls, RemoveSteps
  <2>3. FileIsLast' /\ BackupIsRecent'
    BY <1>3, <2>1 DEF TypeOK, SlotsInv, FileIsLast, BackupIsRecent, copyEnds, history
  <2>4. CallIsOnItsWay'
    BY <1>3, <2>1, <2>2 DEF TypeOK, SlotsInv, FileIsLast, CallIsOnItsWay, At, copyEnds, history
  <2> QED
    BY <2>3, <2>4 DEF SlotsInv
<1>4. CASE copyFails
  <2>1. call.slot \in Slots /\ file[call.slot] # Missing
    BY <1>4, SavesSave DEF SlotsInv, CallIsOnItsWay, copyFails, At, SaveSteps
  <2>2. call'.slot = call.slot /\ call'.step = "write"
    BY <1>4, CallsHaveSlots, SavesSave DEF copyFails, Goes, SaveSteps, Calls, RemoveSteps
  <2>3. \A s \in Slots : ~loose'[s] => ~loose[s] /\ ~(s = call.slot /\ At("copy"))
    BY <1>4, <2>1 DEF TypeOK, copyFails
  <2>4. FileIsLast' /\ BackupIsRecent'
    BY <1>4, <2>3 DEF SlotsInv, FileIsLast, BackupIsRecent, copyFails, disk
  <2>5. CallIsOnItsWay'
    BY <1>4, <2>1, <2>2, <2>3 DEF SlotsInv, FileIsLast, CallIsOnItsWay, At, copyFails, disk
  <2> QED
    BY <2>4, <2>5 DEF SlotsInv
<1>5. CASE writeEnds
  <2>1. call.slot \in Slots /\ call.save \in Saves
    BY <1>5, SavesSave DEF writeEnds, At, SaveSteps
  <2>2. call'.step = "picture"
    BY <1>5, CallsHaveSlots, SavesSave DEF writeEnds, At, Goes, SaveSteps, Calls, RemoveSteps
  <2>3. Whole(call.save) # Missing /\ Whole(call.save).save = call.save
    BY <2>1 DEF Whole, Missing
  <2>4. FileIsLast'
    BY <1>5, <2>1, <2>3 DEF TypeOK, SlotsInv, FileIsLast, writeEnds, Written
  <2>5. BackupIsRecent'
    BY <1>5, <2>1, <2>3 DEF TypeOK, SlotsInv, BackupIsRecent, CallIsOnItsWay, writeEnds, Written
  <2>6. CallIsOnItsWay'
    BY <2>2 DEF CallIsOnItsWay, At
  <2> QED
    BY <2>4, <2>5, <2>6 DEF SlotsInv
<1>6. ASSUME NEW s \in Slots, remove(s) PROVE SlotsInv'
  <2>1. FileIsLast' /\ BackupIsRecent'
    BY <1>6 DEF SlotsInv, FileIsLast, BackupIsRecent, remove, disk, history
  <2>2. CallIsOnItsWay'
    BY <1>6 DEF CallIsOnItsWay, At, remove
  <2> QED
    BY <2>1, <2>2 DEF SlotsInv
<1>7. CASE removeFile
  <2>0. call # NoCall
    BY <1>7 DEF removeFile, At, NoCall
  <2>1. call.slot \in Slots /\ call'.slot = call.slot /\ call'.step = "removeBackup"
    BY <1>7, <2>0, CallsHaveSlots DEF removeFile, Goes, Calls
  <2>2. FileIsLast' /\ BackupIsRecent'
    BY <1>7, <2>1 DEF TypeOK, SlotsInv, FileIsLast, BackupIsRecent, removeFile
  <2>3. CallIsOnItsWay'
    BY <1>7, <2>1 DEF TypeOK, CallIsOnItsWay, At, removeFile
  <2> QED
    BY <2>2, <2>3 DEF SlotsInv
<1>8. CASE removeBackup
  <2>0. call # NoCall
    BY <1>8 DEF removeBackup, At, NoCall
  <2>1. call.slot \in Slots /\ call'.step = "removePicture"
    BY <1>8, <2>0, CallsHaveSlots DEF removeBackup, Goes, Calls
  <2>2. FileIsLast' /\ BackupIsRecent'
    BY <1>8, <2>1 DEF TypeOK, SlotsInv, FileIsLast, BackupIsRecent, CallIsOnItsWay, removeBackup
  <2>3. CallIsOnItsWay'
    BY <2>1 DEF CallIsOnItsWay, At
  <2> QED
    BY <2>2, <2>3 DEF SlotsInv
<1>9. ASSUME NEW s \in Slots, damage(s) PROVE SlotsInv'
  <2>1. PICK part \in Parts(file[s]) : file' = [file EXCEPT ![s] = part]
    BY <1>9 DEF damage
  <2>2. file[s] # Missing /\ part # Missing /\ part.save = file[s].save
    BY <1>9, <2>1, PartsAreFiles DEF TypeOK, damage, Missing
  <2>3. FileIsLast' /\ BackupIsRecent'
    BY <1>9, <2>1, <2>2 DEF TypeOK, SlotsInv, FileIsLast, BackupIsRecent, damage, history
  <2>4. CallIsOnItsWay'
    BY <1>9 DEF CallIsOnItsWay, At, damage, Idle, NoCall
  <2> QED
    BY <2>3, <2>4 DEF SlotsInv
<1>10. CASE writeFails \/ asksForPicture \/ picturelessSaveEnds \/ pictureStays \/ removePicture \/ removeFails
  BY <1>10, OtherStepsKeepSlots
     DEF writeFails, asksForPicture, picturelessSaveEnds, pictureStays, removePicture, removeFails, Returns, disk, history
<1>11. CASE updateGameData \/ restoreFails \/ writeThumbnails \/ thumbnailFails
  BY <1>11, OtherStepsKeepSlots DEF updateGameData, restoreFails, writeThumbnails, thumbnailFails, disk, history
<1>12. CASE createGameData \/ destroyGameData \/ crash \/ UNCHANGED vars
  BY <1>12, OtherStepsKeepSlots DEF createGameData, destroyGameData, crash, Returns, vars, disk, history
<1>13. ASSUME NEW s \in Slots, load(s) PROVE SlotsInv'
  BY <1>13, OtherStepsKeepSlots DEF load, disk, history
<1> QED
  BY <1>1, <1>2, <1>3, <1>4, <1>5, <1>6, <1>7, <1>8, <1>9, <1>10, <1>11, <1>12, <1>13 DEF Next

\* The types and the invariant hold, whatever fails and wherever a crash is.
THEOREM SlotsInvariant == Spec => [](TypeOK /\ SlotsInv)
<1>1. Init => SlotsInv
  <2> SUFFICES ASSUME Init PROVE SlotsInv
    OBVIOUS
  <2>1. FileIsLast /\ BackupIsRecent
    BY DEF Init, FileIsLast, BackupIsRecent
  <2>2. CallIsOnItsWay
    BY DEF Init, CallIsOnItsWay, At, NoCall
  <2> QED
    BY <2>1, <2>2 DEF SlotsInv
<1>2. TypeOK /\ SlotsInv /\ [Next]_vars => TypeOK' /\ SlotsInv'
  BY TypesKept, SlotsKept DEF SlotsInv
<1> QED
  BY InitTypes, <1>1, <1>2, PTL DEF Spec

\* Every variable of the saves keeps its type.
THEOREM TypeCorrect == Spec => []TypeOK
  BY SlotsInvariant, PTL

(***************************************************************************)
(* What a slot reads                                                       *)
(***************************************************************************)

\* A slot that reads gives the last save written to it or the one before, never one that was removed,
\* unless its backup was left behind (readSave, and the order of the file operations in save and remove).
THEOREM RecentSaves == Spec => []ReadsARecentSave
<1>1. TypeOK /\ SlotsInv => ReadsARecentSave
  <2> SUFFICES ASSUME TypeOK, SlotsInv, NEW s \in Slots, ~loose[s], parseSave(readSave(s))
               PROVE  readSave(s).save \in {written[s].last, written[s].before}
    BY DEF ReadsARecentSave
  <2>1. ~parseSave(Missing)
    BY DEF parseSave, Missing
  <2>2. CASE readSave(s) = file[s]
    BY <2>1, <2>2 DEF SlotsInv, FileIsLast
  <2>3. CASE readSave(s) = backup[s]
    BY <2>1, <2>3 DEF SlotsInv, BackupIsRecent
  <2> QED
    BY <2>2, <2>3 DEF readSave
<1> QED
  BY <1>1, SlotsInvariant, PTL

\* What one step may change of what a slot reads.
SlotsStep ==
  \A s \in Slots : readSave(s)' # readSave(s) =>
    \/ call.slot = s /\ At("write") /\ readSave(s)' = Whole(call.save)
    \/ call.slot = s /\ At("removeFile") /\ readSave(s)' = Missing
    \/ file'[s] # file[s] /\ file[s].state = "whole" /\ file'[s] \in Parts(file[s])
    \/ call.slot = s /\ call.step \in {"copy", "copying"} /\ ~parseSave(file[s])

\* What a slot reads depends on its file and its backup.
LEMMA SameFilesReadTheSame ==
  ASSUME UNCHANGED <<file, backup>>, NEW s
  PROVE  readSave(s)' = readSave(s)
BY DEF readSave

\* It does not depend on the backup when the file parses, or is missing.
LEMMA BackupsAreSpare ==
  ASSUME TypeOK, TypeOK', NEW s \in Slots, file'[s] = file[s], parseSave(file[s]) \/ file[s] = Missing
  PROVE  readSave(s)' = readSave(s)
BY DEF readSave

\* Every step changes what a slot reads only as it may.
LEMMA StepsOfSlots ==
  ASSUME TypeOK, SlotsInv, TypeOK', [Next]_vars
  PROVE  SlotsStep
<1> SUFFICES ASSUME NEW s \in Slots, readSave(s)' # readSave(s)
             PROVE  \/ call.slot = s /\ At("write") /\ readSave(s)' = Whole(call.save)
                    \/ call.slot = s /\ At("removeFile") /\ readSave(s)' = Missing
                    \/ file'[s] # file[s] /\ file[s].state = "whole" /\ file'[s] \in Parts(file[s])
                    \/ call.slot = s /\ call.step \in {"copy", "copying"} /\ ~parseSave(file[s])
  BY DEF SlotsStep
<1>1. ~(file'[s] = file[s] /\ backup'[s] = backup[s])
  BY DEF readSave
<1>2. CASE copyBegins \/ copyEnds
  <2>1. file' = file /\ call.step \in {"copy", "copying"}
    BY <1>2 DEF copyBegins, copyEnds, At
  <2>2. call.slot = s
    BY <1>1, <1>2, <2>1 DEF TypeOK, copyBegins, copyEnds
  <2> QED
    BY <2>1, <2>2, BackupsAreSpare
<1>3. CASE writeEnds
  <2>1. call.slot = s /\ At("write")
    BY <1>1, <1>3 DEF TypeOK, writeEnds, Written
  <2>2. file'[s] = Whole(call.save)
    BY <1>3, <2>1 DEF TypeOK, writeEnds, Written
  <2>3. parseSave(Whole(call.save))
    BY DEF parseSave, Whole
  <2> QED
    BY <2>1, <2>2, <2>3 DEF readSave
<1>4. CASE removeFile
  <2>1. call.slot = s /\ At("removeFile") /\ file'[s] = Missing
    BY <1>1, <1>4 DEF TypeOK, removeFile
  <2> QED
    BY <2>1 DEF readSave
<1>5. CASE removeBackup
  <2>1. call.slot = s /\ file' = file /\ file[s] = Missing
    BY <1>1, <1>5 DEF TypeOK, SlotsInv, CallIsOnItsWay, removeBackup
  <2> QED
    BY <2>1, BackupsAreSpare
<1>6. ASSUME NEW d \in Slots, damage(d) PROVE file'[s] # file[s] /\ file[s].state = "whole" /\ file'[s] \in Parts(file[s])
  BY <1>1, <1>6 DEF TypeOK, damage
<1>7. CASE UNCHANGED <<file, backup>>
  BY <1>7, SameFilesReadTheSame
<1>8. ASSUME NEW d \in Slots, NEW keepsScene \in BOOLEAN, NEW thumbnail \in BOOLEAN,
             save(d, keepsScene, thumbnail) \/ remove(d) \/ load(d)
      PROVE  UNCHANGED <<file, backup>>
  BY <1>8 DEF save, remove, load, disk
<1>9. copyFails \/ writeFails \/ asksForPicture \/ picturelessSaveEnds \/ pictureStays \/ removePicture \/ removeFails
        => UNCHANGED <<file, backup>>
  BY DEF copyFails, writeFails, asksForPicture, picturelessSaveEnds, pictureStays, removePicture, removeFails, disk
<1>10. updateGameData \/ restoreFails \/ writeThumbnails \/ thumbnailFails \/ createGameData \/ destroyGameData \/ crash
         \/ UNCHANGED vars
         => UNCHANGED <<file, backup>>
  BY DEF updateGameData, restoreFails, writeThumbnails, thumbnailFails, createGameData, destroyGameData, crash, vars, disk
<1> QED
  BY <1>2, <1>3, <1>4, <1>5, <1>6, <1>7, <1>8, <1>9, <1>10 DEF Next

\* What a slot reads changes when a save is written, when it is removed, when its file is damaged, and when
\* a damaged file is copied over its backup; at no other step, failure or crash.
THEOREM SlotsChange == Spec => SlotsChangeWhenAsked
<1>1. TypeOK /\ SlotsInv /\ TypeOK' /\ [Next]_vars => [SlotsStep]_vars
  BY StepsOfSlots
<1> QED
  BY <1>1, SlotsInvariant, PTL DEF Spec, SlotsChangeWhenAsked, SlotsStep

(***************************************************************************)
(* The clock and the scene                                                 *)
(***************************************************************************)

\* The time played was set by the load whose scene is to be put in place.
ClockInv ==
  /\ restore # NoRestore => restore.save = clock
  /\ clock # scene => restore.save = clock \/ unrestored

\* A step that leaves the game alone, or starts or ends one, keeps the invariant.
LEMMA OtherStepsKeepClock ==
  ASSUME ClockInv, Fresh \/ UNCHANGED <<clock, scene, restore, unrestored>>
  PROVE  ClockInv'
BY DEF ClockInv, Fresh

\* The time played and the scene come from the same save, but between load and the end of the frame, or
\* when the scene could not be put back (load sets m_playTime, updateGameData replaces the scene).
THEOREM ClockAndScene == Spec => []ClockFollowsScene
<1>1. Init => ClockInv
  BY DEF Init, ClockInv
<1>2. ClockInv /\ [Next]_vars => ClockInv'
  <2> SUFFICES ASSUME ClockInv, [Next]_vars PROVE ClockInv'
    OBVIOUS
  <2>1. ASSUME NEW s \in Slots, load(s) PROVE ClockInv'
    BY <2>1 DEF ClockInv, load
  <2>2. CASE updateGameData
    BY <2>2 DEF ClockInv, updateGameData
  <2>3. CASE restoreFails
    BY <2>3 DEF ClockInv, restoreFails
  <2>4. CASE createGameData \/ destroyGameData \/ crash
    BY <2>4, OtherStepsKeepClock DEF createGameData, destroyGameData, crash
  <2>5. CASE writeThumbnails \/ thumbnailFails \/ UNCHANGED vars
    BY <2>5, OtherStepsKeepClock DEF writeThumbnails, thumbnailFails, game, vars
  <2>6. ASSUME NEW s \in Slots, damage(s) PROVE ClockInv'
    BY <2>6, OtherStepsKeepClock DEF damage, game
  <2>7. ASSUME NEW s \in Slots, NEW keepsScene \in BOOLEAN, NEW thumbnail \in BOOLEAN,
               save(s, keepsScene, thumbnail) \/ remove(s)
        PROVE  ClockInv'
    BY <2>7, OtherStepsKeepClock DEF save, remove, game
  <2>8. CASE copyBegins \/ copyEnds \/ copyFails \/ writeEnds \/ writeFails \/ asksForPicture
    BY <2>8, OtherStepsKeepClock DEF copyBegins, copyEnds, copyFails, writeEnds, writeFails, asksForPicture, game
  <2>9. CASE picturelessSaveEnds \/ pictureStays \/ removeFile \/ removeBackup \/ removePicture \/ removeFails
    BY <2>9, OtherStepsKeepClock
       DEF picturelessSaveEnds, pictureStays, removeFile, removeBackup, removePicture, removeFails, game
  <2> QED
    BY <2>1, <2>2, <2>3, <2>4, <2>5, <2>6, <2>7, <2>8, <2>9 DEF Next
<1>3. ClockInv => ClockFollowsScene
  BY DEF ClockInv, ClockFollowsScene
<1> QED
  BY <1>1, <1>2, <1>3, PTL DEF Spec
=============================================================================
