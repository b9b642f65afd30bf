------------------------------- MODULE SaveGames -------------------------------
(***************************************************************************)
(* The saves of a game (runtime/SaveGames.cpp): a slot holds a save, the    *)
(* one before it as a backup, and a picture that is drawn some frames       *)
(* later; loading one brings its scene back at the end of the frame.  The   *)
(* frame around them is in runtime/Application.cpp, the atomic write of a    *)
(* file in core/File.cpp.                                                   *)
(*                                                                         *)
(* The game has one thread, so a call is not interrupted, save by a crash:  *)
(* save and remove are one action per file they change, load is one.  Any   *)
(* operation on a file may fail.                                            *)
(***************************************************************************)
EXTENDS Integers, Sequences

CONSTANTS
  Slots,       \* the slots of the game
  NoSlot,      \* the slot of no call
  MaxSaves,    \* bound: how many saves may ever be begun
  Limits       \* bounds: the histories to consider, each with the slots the game saves in, how many
               \* saves are begun, and how many faults there are, of which kinds

ASSUME NoSlotIsNone == NoSlot \notin Slots

ASSUME LimitsAreBounds ==
  /\ MaxSaves \in Nat
  /\ Limits \subseteq [slots : SUBSET Slots, saves : 0..MaxSaves, faults : Nat,
                      kinds : SUBSET {"failure", "damage", "crash"}]

VARIABLES
  file, backup,  \* on the disk: of each slot, its save and the one kept beside it
  picture,       \* on the disk: of each slot, the save its picture was asked for, or NoSave
  call,          \* save or remove under way: the next file it changes
  playing,       \* whether a game plays: SaveGames lives with it
  clock,         \* m_playTime: the save the time played carries on from
  scene,         \* the save the scene that plays was restored from
  restore,       \* m_restore: the scene to put in place at the end of the frame
  requests,      \* m_thumbnailRequests
  captures,      \* m_thumbnailCaptures, and the pictures the renderer draws for them
  unrestored,    \* whether the last scene to restore could not be
  written,       \* history: of each slot, the last save written and the one before
  loose,         \* history: slots whose backup was left behind by a copy that failed or a removal cut short
  withScene,     \* the saves that kept their scene
  lastSave, faults,
  limits

disk == <<file, backup, picture>>
game == <<playing, clock, scene, restore, requests, unrestored>>
history == <<written, loose>>
bounds == <<withScene, lastSave, faults, limits>>

vars == <<disk, call, game, captures, history, bounds>>

(***************************************************************************)
(* Files                                                                   *)
(***************************************************************************)

NoSave == 0

Saves == 1..MaxSaves

\* What is left of a save: all of it, a start that reads as a save, or nothing that does.
Damaged == {"start", "nothing"}

Missing == [save |-> NoSave, state |-> "missing"]

Whole(n) == [save |-> n, state |-> "whole"]

Files == {Missing} \cup [save : Saves, state : {"whole"} \cup Damaged]

\* What a part of a file may be: never more than what there was of it.
Parts(f) == [save : {f.save}, state : IF f.state = "nothing" THEN {"nothing"} ELSE Damaged]

parseSave(f) == f.state \in {"whole", "start"}

\* The save of the slot, or the one it kept when the file is damaged.
readSave(s) == IF file[s] # Missing /\ ~parseSave(file[s]) /\ parseSave(backup[s]) THEN backup[s] ELSE file[s]

(***************************************************************************)
(* Calls                                                                   *)
(***************************************************************************)

\* save copies the save to its backup, writes the new one, and deals with the picture.
SaveSteps == {"copy", "copying", "write", "picture"}

\* remove takes the three files away in this order.
RemoveSteps == {"removeFile", "removeBackup", "removePicture"}

Calls ==
  [step : SaveSteps, slot : Slots, save : Saves, thumbnail : BOOLEAN]
    \cup [step : RemoveSteps, slot : Slots, save : {NoSave}, thumbnail : {FALSE}]

NoCall == [step |-> "none", slot |-> NoSlot, save |-> NoSave, thumbnail |-> FALSE]

Scenes == {"none", "whole", "damaged"}

NoRestore == [save |-> NoSave, scene |-> "none"]

NoRequests == <<>>

\* A game that starts, and one that is gone.
Fresh ==
  /\ clock' = NoSave
  /\ scene' = NoSave
  /\ restore' = NoRestore
  /\ requests' = NoRequests
  /\ unrestored' = FALSE

TypeOK ==
  /\ file \in [Slots -> Files]
  /\ backup \in [Slots -> Files]
  /\ picture \in [Slots -> Saves \cup {NoSave}]
  /\ call \in Calls \cup {NoCall}
  /\ playing \in BOOLEAN
  /\ clock \in Saves \cup {NoSave}
  /\ scene \in Saves \cup {NoSave}
  /\ restore \in [save : Saves \cup {NoSave}, scene : Scenes]
  /\ requests \in Seq([slot : Slots, save : Saves])
  /\ captures \in Seq([slot : Slots, save : Saves])
  /\ unrestored \in BOOLEAN
  /\ written \in [Slots -> [last : Saves \cup {NoSave}, before : Saves \cup {NoSave}]]
  /\ loose \in [Slots -> BOOLEAN]
  /\ withScene \in SUBSET Saves
  /\ lastSave \in 0..MaxSaves
  /\ faults \in Nat
  /\ limits \in Limits

At(step) == call.step = step

Goes(step) == call' = [call EXCEPT !.step = step]

Returns == call' = NoCall

Idle == call = NoCall

MayCall == playing /\ Idle

\* Something goes wrong: an operation on a file, a file on the disk, or the whole game.
Fault(kind) ==
  /\ kind \in limits.kinds
  /\ faults < limits.faults
  /\ faults' = faults + 1
  /\ UNCHANGED <<withScene, lastSave, limits>>

Init ==
  /\ file = [s \in Slots |-> Missing]
  /\ backup = [s \in Slots |-> Missing]
  /\ picture = [s \in Slots |-> NoSave]
  /\ call = NoCall
  /\ playing = TRUE
  /\ clock = NoSave
  /\ scene = NoSave
  /\ restore = NoRestore
  /\ requests = NoRequests
  /\ captures = NoRequests
  /\ unrestored = FALSE
  /\ written = [s \in Slots |-> [last |-> NoSave, before |-> NoSave]]
  /\ loose = [s \in Slots |-> FALSE]
  /\ withScene = {}
  /\ lastSave = 0
  /\ faults = 0
  /\ limits \in Limits

(***************************************************************************)
(* Saving                                                                  *)
(***************************************************************************)

\* The text of the save is made, with the scene if it is asked for; then the files follow.
save(s, keepsScene, thumbnail) ==
  /\ MayCall
  /\ s \in limits.slots /\ lastSave < limits.saves
  /\ lastSave' = lastSave + 1
  /\ withScene' = IF keepsScene THEN withScene \cup {lastSave + 1} ELSE withScene
  /\ call' = [step |-> IF file[s] # Missing THEN "copy" ELSE "write",
              slot |-> s, save |-> lastSave + 1, thumbnail |-> thumbnail]
  /\ UNCHANGED <<disk, game, captures, history, faults, limits>>

\* copy_file empties the backup first, and fills it.
copyBegins ==
  /\ At("copy")
  /\ Goes("copying")
  /\ \E part \in Parts(file[call.slot]) : backup' = [backup EXCEPT ![call.slot] = part]
  /\ loose' = [loose EXCEPT ![call.slot] = FALSE]
  /\ UNCHANGED <<file, picture, game, captures, written, bounds>>

copyEnds ==
  /\ At("copying")
  /\ Goes("write")
  /\ backup' = [backup EXCEPT ![call.slot] = file[call.slot]]
  /\ UNCHANGED <<file, picture, game, captures, history, bounds>>

\* The save goes on without its backup: the error is not looked at.
copyFails ==
  /\ call.step \in {"copy", "copying"}
  /\ Fault("failure")
  /\ Goes("write")
  /\ loose' = [loose EXCEPT ![call.slot] = @ \/ At("copy")]
  /\ UNCHANGED <<disk, game, captures, written>>

\* mutant: the file is written in place, as writeTextFile does
Written_InPlace ==
  \E f \in {Whole(call.save)} \cup Parts(Whole(call.save)) : file' = [file EXCEPT ![call.slot] = f]

\* writeFileAtomically: the new contents take the place of the old ones at once.
Written == file' = [file EXCEPT ![call.slot] = Whole(call.save)]

writeEnds ==
  /\ At("write")
  /\ Goes("picture")
  /\ Written
  /\ written' = [written EXCEPT ![call.slot] = [last |-> call.save, before |-> @.last]]
  /\ UNCHANGED <<backup, picture, game, captures, loose, bounds>>

writeFails ==
  /\ At("write")
  /\ Fault("failure")
  /\ Returns
  /\ UNCHANGED <<disk, game, captures, history>>

asksForPicture ==
  /\ At("picture")
  /\ call.thumbnail
  /\ Returns
  /\ requests' = Append(requests, [slot |-> call.slot, save |-> call.save])
  /\ UNCHANGED <<disk, playing, clock, scene, restore, unrestored, captures, history, bounds>>

\* Without one, the picture of an older save goes.
picturelessSaveEnds ==
  /\ At("picture")
  /\ ~call.thumbnail
  /\ Returns
  /\ picture' = [picture EXCEPT ![call.slot] = NoSave]
  /\ UNCHANGED <<file, backup, game, captures, history, bounds>>

\* It could not be removed: the error is not looked at.
pictureStays ==
  /\ At("picture")
  /\ ~call.thumbnail
  /\ Fault("failure")
  /\ Returns
  /\ UNCHANGED <<disk, game, captures, history>>

(***************************************************************************)
(* Removing                                                                *)
(***************************************************************************)

remove(s) ==
  /\ MayCall
  /\ call' = [step |-> "removeFile", slot |-> s, save |-> NoSave, thumbnail |-> FALSE]
  /\ UNCHANGED <<disk, game, captures, history, bounds>>

removeFile ==
  /\ At("removeFile")
  /\ Goes("removeBackup")
  /\ file' = [file EXCEPT ![call.slot] = Missing]
  /\ loose' = [loose EXCEPT ![call.slot] = TRUE]
  /\ UNCHANGED <<backup, picture, game, captures, written, bounds>>

\* mutant: the save it kept is forgotten
removeBackup_Keeps ==
  /\ At("removeBackup")
  /\ Goes("removePicture")
  /\ loose' = [loose EXCEPT ![call.slot] = FALSE]
  /\ written' = [written EXCEPT ![call.slot] = [last |-> NoSave, before |-> NoSave]]
  /\ UNCHANGED <<disk, game, captures, bounds>>

removeBackup ==
  /\ At("removeBackup")
  /\ Goes("removePicture")
  /\ backup' = [backup EXCEPT ![call.slot] = Missing]
  /\ loose' = [loose EXCEPT ![call.slot] = FALSE]
  /\ written' = [written EXCEPT ![call.slot] = [last |-> NoSave, before |-> NoSave]]
  /\ UNCHANGED <<file, picture, game, captures, bounds>>

removePicture ==
  /\ At("removePicture")
  /\ Returns
  /\ picture' = [picture EXCEPT ![call.slot] = NoSave]
  /\ UNCHANGED <<file, backup, game, captures, history, bounds>>

\* A file that cannot be removed ends the call.
removeFails ==
  /\ call.step \in RemoveSteps
  /\ Fault("failure")
  /\ Returns
  /\ UNCHANGED <<disk, game, captures, history>>

(***************************************************************************)
(* Loading, and the end of the frame                                       *)
(***************************************************************************)

\* The scene a file seems to hold: one that was cut short may hold a part of it, or none.
SceneOf(f) ==
  CASE f.save \notin withScene -> {"none"}
    [] f.state = "whole" -> {"whole"}
    [] OTHER -> {"none", "damaged"}

\* mutant: the time carries on from a save that has no scene to carry on from
load_AnyScene(s) ==
  /\ MayCall
  /\ parseSave(readSave(s))
  /\ \E found \in SceneOf(readSave(s)) :
       /\ clock' = readSave(s).save
       /\ restore' = IF found = "none" THEN restore ELSE [save |-> readSave(s).save, scene |-> found]
  /\ UNCHANGED <<disk, call, playing, scene, requests, unrestored, captures, history, bounds>>

\* load with restoreScene. Without it, or without a scene in the save, only the data is read.
load(s) ==
  /\ MayCall
  /\ parseSave(readSave(s))
  /\ \E found \in SceneOf(readSave(s)) \ {"none"} :
       /\ clock' = readSave(s).save
       /\ restore' = [save |-> readSave(s).save, scene |-> found]
  /\ UNCHANGED <<disk, call, playing, scene, requests, unrestored, captures, history, bounds>>

\* The pictures of the frame are asked of the renderer.
RequestsCaptures == captures' = captures \o requests /\ requests' = NoRequests

\* The end of the frame: the scene to restore, if there is one, takes the place of the one that plays.
updateGameData ==
  /\ MayCall
  /\ requests # NoRequests \/ restore # NoRestore
  /\ RequestsCaptures
  /\ restore' = NoRestore
  /\ IF restore = NoRestore THEN UNCHANGED <<scene, unrestored>>
     ELSE scene' = restore.save /\ unrestored' = FALSE
  /\ UNCHANGED <<disk, call, playing, clock, history, bounds>>

\* A scene that was damaged may not be readable, and the global scenes of another not start: the scene
\* that plays stays.
restoreFails ==
  /\ MayCall
  /\ restore # NoRestore
  /\ IF restore.scene = "damaged" THEN UNCHANGED bounds ELSE Fault("failure")
  /\ RequestsCaptures
  /\ restore' = NoRestore
  /\ unrestored' = TRUE
  /\ UNCHANGED <<disk, call, playing, clock, scene, history>>

\* A picture was drawn: it takes the place of the one there.
writeThumbnails ==
  /\ Idle
  /\ captures # NoRequests
  /\ captures' = Tail(captures)
  /\ picture' = [picture EXCEPT ![Head(captures).slot] = Head(captures).save]
  /\ UNCHANGED <<file, backup, call, game, history, bounds>>

thumbnailFails ==
  /\ Idle
  /\ captures # NoRequests
  /\ Fault("failure")
  /\ captures' = Tail(captures)
  /\ UNCHANGED <<disk, call, game, history>>

(***************************************************************************)
(* The game starts and stops; crashes; damages                             *)
(***************************************************************************)

createGameData ==
  /\ ~playing
  /\ playing' = TRUE
  /\ Fresh
  /\ UNCHANGED <<disk, call, captures, history, bounds>>

\* What was to happen at the end of the frame is dropped; the renderer goes on with its pictures.
destroyGameData ==
  /\ MayCall
  /\ playing' = FALSE
  /\ Fresh
  /\ UNCHANGED <<disk, call, captures, history, bounds>>

\* Only the disk is left.
crash ==
  /\ Fault("crash")
  /\ playing' = FALSE
  /\ Returns
  /\ Fresh
  /\ captures' = NoRequests
  /\ UNCHANGED <<disk, history>>

\* The file of a save is cut short or overwritten by something other than the game.
damage(s) ==
  /\ Idle
  /\ Fault("damage")
  /\ file[s].state = "whole"
  /\ \E part \in Parts(file[s]) : file' = [file EXCEPT ![s] = part]
  /\ UNCHANGED <<backup, picture, call, game, captures, history>>

Next ==
  \/ \E s \in Slots, keepsScene, thumbnail \in BOOLEAN : save(s, keepsScene, thumbnail)
  \/ copyBegins \/ copyEnds \/ copyFails
  \/ writeEnds \/ writeFails
  \/ asksForPicture \/ picturelessSaveEnds \/ pictureStays
  \/ \E s \in Slots : remove(s)
  \/ removeFile \/ removeBackup \/ removePicture \/ removeFails
  \/ \E s \in Slots : load(s)
  \/ updateGameData \/ restoreFails
  \/ writeThumbnails \/ thumbnailFails
  \/ createGameData \/ destroyGameData
  \/ crash
  \/ \E s \in Slots : damage(s)

Spec == Init /\ [][Next]_vars

(***************************************************************************)
(* Properties                                                              *)
(***************************************************************************)

\* What a slot reads changes when a save is written, and is then that save; when it is removed; or when
\* its file is damaged. No step in between, and no crash or failure at any of them, changes it, with one
\* exception: save copies what the file holds over the backup, damaged as it may be.
SlotsChangeWhenAsked ==
  [][\A s \in Slots : readSave(s)' # readSave(s) =>
       \/ call.slot = s /\ At("write") /\ readSave(s)' = Whole(call.save)
       \/ call.slot = s /\ At("removeFile") /\ readSave(s)' = Missing
       \/ file'[s] # file[s] /\ file[s].state = "whole" /\ file'[s] \in Parts(file[s])
       \/ call.slot = s /\ call.step \in {"copy", "copying"} /\ ~parseSave(file[s])]_vars

\* Whatever failed, and wherever a crash was, a slot that reads gives the last save written to it since
\* it was last removed, or the one before: never an older one, nor one the player removed. Not so after
\* a backup could not be replaced, or a removal ended before it.
ReadsARecentSave ==
  \A s \in Slots :
    ~loose[s] /\ parseSave(readSave(s)) => readSave(s).save \in {written[s].last, written[s].before}

\* The time played is that of the game whose scene plays: both come from the same save, but between load
\* and the end of the frame, or when the scene could not be put back.
ClockFollowsScene == playing /\ clock # scene => restore.save = clock \/ unrestored

=============================================================================
