---------------------------- MODULE OpenDocuments ----------------------------
(***************************************************************************)
(* What the tabs of the editor promise (docs/decisions.md, "Onglets de      *)
(* scènes"): each open scene has a tab with its own file, scene and undo    *)
(* history, one tab is shown, and only the shown document is edited.  How   *)
(* documents change places between the screen and the tabs is not said.     *)
(***************************************************************************)
EXTENDS Naturals

CONSTANTS
  NoTab,         \* what is shown while no project is open
  Saved(_, _)    \* whether a document is another one just saved

VARIABLES
  documents,  \* of each tab, its document
  shown       \* the tab on screen

vars == <<documents, shown>>

Nothing == [id \in {} |-> id]

Init == documents = Nothing /\ shown = NoTab

\* The shown document is edited, and nothing else.
Edit ==
  /\ shown # NoTab
  /\ DOMAIN documents' = DOMAIN documents
  /\ \A id \in DOMAIN documents \ {shown} : documents'[id] = documents[id]
  /\ UNCHANGED shown

\* Tabs open, close, save and come to the screen: the documents that stay are as they were, or saved.
Turn ==
  /\ \A id \in DOMAIN documents \cap DOMAIN documents' :
       documents'[id] = documents[id] \/ Saved(documents'[id], documents[id])
  /\ \A id \in DOMAIN documents' \ DOMAIN documents : \A known \in DOMAIN documents : known < id
  /\ shown' \in DOMAIN documents'

Leave == documents' = Nothing /\ shown' = NoTab

Next == Edit \/ Turn \/ Leave

Spec == Init /\ [][Next]_vars
=============================================================================
