------------------------------ MODULE GuiMenu -------------------------------
(***************************************************************************)
(* The menu task (menu.c) with all of its pages (menuData.c): one loop     *)
(* that takes an encoder event, then an announcement of the system task,   *)
(* then redraws the page if it changed. Pressing encoder 1 on an item with *)
(* a parameter enters an edit loop of its own, in which announcements wait.*)
(*                                                                         *)
(* Characters are positions of characterSet, 0 being the end of a string.  *)
(***************************************************************************)
EXTENDS Integers, Sequences, FiniteSetsExt

CONSTANTS
  NumChars,       \* CHARACTER_SET_NUM_CHARS
  NameLength,     \* MAX_PROJECT_NAME_LENGTH
  MaxNumFiles,    \* MAX_NUM_FILES
  FileLists,      \* lists of names the file component may hold
  LastUniqueID,   \* 200
  TempoMin, TempoMax, QuantItems,  \* limits of paramTempo, paramQuant
  Announcements   \* payloads of opcode 5: [note, velocity, duration, max]

ASSUME NameAssumption == NumChars \in Nat \ {0} /\ NameLength \in Nat \ {0, 1}
ASSUME UniqueIDAssumption ==
  /\ MaxNumFiles \in Nat /\ LastUniqueID \in Nat
  /\ \A list \in FileLists :
       list \in Seq([1 .. NameLength -> 0 .. NumChars]) /\ Len(list) <= MaxNumFiles
  /\ LastUniqueID > MaxNumFiles
  /\ LastUniqueID < NumChars
ASSUME LimitsAssumption ==
  /\ TempoMin \in Nat /\ TempoMax \in Nat /\ QuantItems \in Nat \ {0}
  /\ Announcements \subseteq [note : Nat, velocity : Nat, duration : Nat, max : Nat]

VARIABLES
  pageCode, menuPageBaseIdx, selectableItems, currentItem,  \* g_MenuData
  updateMenuPageFlag,
  pc,         \* "input", "edit", "naming" or "announce": where the loop stands
  value,      \* the numeric parameters
  durationMax,
  currIdx,    \* paramQuant.currIdx
  name,       \* g_projectNameArr up to NameLength
  named,      \* projName.valuePtr is not NULL
  characterSetIdx, editStringIdx,  \* of editStringParam
  toMenu,     \* g_SystemToMenuQueueHandle
  files,      \* g_fileNamesPtr, the names the file component holds
  uniqueID, fileIdx,  \* uniqueID and a of createDefaultProjectName
  fault       \* "none" or the assertion that failed

pageVars == <<pageCode, menuPageBaseIdx, selectableItems, currentItem, updateMenuPageFlag>>
nameVars == <<name, named>>
wheel    == <<characterSetIdx, editStringIdx>>
naming   == <<files, uniqueID, fileIdx>>
vars     == <<pageVars, pc, value, durationMax, currIdx, nameVars, wheel, toMenu, naming, fault>>

-----------------------------------------------------------------------------
(* menuDataArr. The items of state_grid_edit have no text, and no item     *)
(* leads there.                                                            *)

NumericParams == {"tempo", "note", "velocity", "duration"}

Item(page, type, param, prevPage, nextPage, func) ==
  [page |-> page, type |-> type, param |-> param,
   prev |-> prevPage, next |-> nextPage, func |-> func]

MenuData ==
  <<Item("base", "none", "none", "none", "new_project", "createDefaultProjectName"),
    Item("base", "none", "none", "none", "none", "none"),
    Item("base", "none", "none", "none", "none", "none"),
    Item("base", "none", "none", "none", "none", "none"),
    Item("new_project", "string", "name", "base", "none", "none"),
    Item("new_project", "numeric", "tempo", "base", "none", "none"),
    Item("new_project", "selection", "quant", "base", "none", "none"),
    Item("new_project", "none", "none", "base", "none", "createNewProjectFileCallback"),
    Item("grid_edit", "none", "none", "base", "none", "none"),
    Item("grid_edit", "none", "none", "base", "none", "none"),
    Item("grid_edit", "none", "none", "base", "none", "none"),
    Item("grid_edit", "none", "none", "base", "none", "none"),
    Item("grid_edit", "none", "none", "base", "none", "none"),
    Item("note_edit", "numeric", "note", "base", "none", "none"),
    Item("note_edit", "numeric", "velocity", "base", "none", "updateNoteVelocity"),
    Item("note_edit", "numeric", "duration", "base", "none", "updateNoteDuration")>>

Pages == {"base", "new_project", "note_edit"}

ItemsOf(page) == {i \in DOMAIN MenuData : MenuData[i].page = page}
BaseIdx(page) == Min(ItemsOf(page))

Selected == MenuData[menuPageBaseIdx + currentItem]

Limits(p) ==
  CASE p = "tempo"    -> <<TempoMin, TempoMax>>
    [] p = "duration" -> <<0, durationMax>>
    [] OTHER          -> <<0, 0>>

-----------------------------------------------------------------------------
(* createDefaultProjectName tries "Proj0", "Proj1", ... and compares each   *)
(* with one name of the list after the other. "Proj" is one character here. *)
Proj == 1
DefaultName(id) ==
  [i \in 1 .. NameLength |-> IF i = 1 THEN Proj ELSE IF i = 2 THEN id + 1 ELSE 0]

BeginNaming ==
  /\ pc' = "naming"
  /\ uniqueID' = 0 /\ fileIdx' = 1
  /\ name' = DefaultName(0)
  /\ UNCHANGED <<named, files>>

SearchFrame ==
  UNCHANGED <<pageVars, value, durationMax, currIdx, wheel, toMenu, files, fault>>

NextFile ==
  /\ pc = "naming" /\ fileIdx \in DOMAIN files /\ files[fileIdx] # name
  /\ fileIdx' = fileIdx + 1
  /\ SearchFrame /\ UNCHANGED <<pc, nameVars, uniqueID>>

(* Mutant: the next name is not compared with the files before this one.   *)
NameTakenGoesOn ==
  /\ pc = "naming" /\ fileIdx \in DOMAIN files /\ files[fileIdx] = name
  /\ uniqueID' = uniqueID + 1 /\ fileIdx' = fileIdx + 1
  /\ name' = DefaultName(uniqueID + 1)
  /\ SearchFrame /\ UNCHANGED <<pc, named>>

(* A collision: the next number is compared from the first file on, or the *)
(* callback gives up, and there is no name.                                *)
NameTaken ==
  /\ pc = "naming" /\ fileIdx \in DOMAIN files /\ files[fileIdx] = name
  /\ uniqueID' = uniqueID + 1 /\ fileIdx' = 1
  /\ IF uniqueID + 1 > LastUniqueID
       THEN pc' = "announce" /\ named' = FALSE /\ UNCHANGED name
       ELSE name' = DefaultName(uniqueID + 1) /\ UNCHANGED <<pc, named>>
  /\ SearchFrame

NameFree ==
  /\ pc = "naming" /\ fileIdx > Len(files)
  /\ pc' = "announce" /\ named' = TRUE
  /\ SearchFrame /\ UNCHANGED <<name, uniqueID, fileIdx>>

-----------------------------------------------------------------------------
(* processMenuUserInput: one event of the encoders' queue.                 *)

GoTo(page) == pageCode' = page /\ updateMenuPageFlag' = TRUE

InputFrame == UNCHANGED <<value, durationMax, currIdx, wheel, toMenu, fault>>
InputDone == pc' = "announce" /\ InputFrame /\ UNCHANGED naming

(* No event is waiting, or encoder 0 was turned.                           *)
NoInput ==
  /\ pc = "input" /\ InputDone
  /\ UNCHANGED <<pageVars, nameVars>>

PageBack ==
  /\ pc = "input" /\ InputDone
  /\ IF Selected.prev # "none" THEN GoTo(Selected.prev)
                           ELSE UNCHANGED <<pageCode, updateMenuPageFlag>>
  /\ UNCHANGED <<menuPageBaseIdx, selectableItems, currentItem, nameVars>>

MoveSelectionIndicator(up) ==
  /\ pc = "input" /\ InputDone
  /\ currentItem' = IF up THEN IF currentItem > 0 THEN currentItem - 1 ELSE currentItem
                    ELSE IF currentItem < selectableItems - 1 THEN currentItem + 1 ELSE currentItem
  /\ UNCHANGED <<pageCode, menuPageBaseIdx, selectableItems, updateMenuPageFlag, nameVars>>

(* Pressing encoder 1 on an item without a parameter: change of page, then *)
(* the callback of the item that was selected.                             *)
SelectItem ==
  /\ pc = "input" /\ Selected.type = "none"
  /\ IF Selected.next # "none" THEN GoTo(Selected.next)
                           ELSE UNCHANGED <<pageCode, updateMenuPageFlag>>
  /\ IF Selected.func = "createDefaultProjectName"
       THEN BeginNaming /\ InputFrame
       ELSE InputDone /\ UNCHANGED nameVars
  /\ UNCHANGED <<menuPageBaseIdx, selectableItems, currentItem>>

(* ... on an item with one: its edit loop. The string editor looks for the *)
(* first character, and gives up before it has looked at the last one of   *)
(* the set.                                                                *)
EnterEdit ==
  /\ pc = "input" /\ Selected.type # "none"
  /\ IF Selected.type = "string" /\ name[1] \notin 1 .. NumChars - 1
       THEN /\ fault' = "characterNotFound"
            /\ UNCHANGED <<pc, wheel>>
       ELSE /\ pc' = "edit"
            /\ characterSetIdx' = IF Selected.type = "string" THEN name[1] ELSE 0
            /\ editStringIdx' = IF Selected.type = "string" THEN 1 ELSE 0
            /\ UNCHANGED fault
  /\ UNCHANGED <<pageVars, value, durationMax, currIdx, nameVars, toMenu, naming>>

-----------------------------------------------------------------------------
(* The edit loops.                                                         *)

Editing(type) == pc = "edit" /\ Selected.type = type

EditNumericParam(up) ==
  /\ Editing("numeric")
  /\ LET p == Selected.param
         v == value[p]
     IN value' = [value EXCEPT ![p] =
          CASE up  -> IF v < Limits(p)[2] THEN v + 1 ELSE v
            [] ~up -> IF v > Limits(p)[1] THEN v - 1 ELSE v]
  /\ UNCHANGED <<pageVars, pc, durationMax, currIdx, nameVars, wheel, toMenu, naming, fault>>

EditStringSelectionParam(up) ==
  /\ Editing("selection")
  /\ currIdx' = IF up THEN IF currIdx < QuantItems - 1 THEN currIdx + 1 ELSE currIdx
                      ELSE IF currIdx > 0 THEN currIdx - 1 ELSE currIdx
  /\ UNCHANGED <<pageVars, pc, value, durationMax, nameVars, wheel, toMenu, naming, fault>>

(* editStringParam: encoder 0 moves along the string. Beyond its end a     *)
(* first character is added; elsewhere the wheel stays where it was.       *)

(* Mutant: the end of the string is moved over without adding a character. *)
MoveRightOverEnd ==
  /\ Editing("string")
  /\ editStringIdx' = IF editStringIdx < NameLength THEN editStringIdx + 1 ELSE editStringIdx
  /\ UNCHANGED <<pageVars, pc, value, durationMax, currIdx, nameVars, characterSetIdx, toMenu, naming, fault>>

MoveRight ==
  /\ Editing("string")
  /\ editStringIdx' = IF editStringIdx < NameLength THEN editStringIdx + 1 ELSE editStringIdx
  /\ IF editStringIdx < NameLength /\ name[editStringIdx + 1] = 0
       THEN /\ characterSetIdx' = 1
            /\ name' = [name EXCEPT ![editStringIdx + 1] = 1]
       ELSE UNCHANGED <<characterSetIdx, name>>
  /\ UNCHANGED <<pageVars, pc, value, durationMax, currIdx, named, toMenu, naming, fault>>

MoveLeft ==
  /\ Editing("string")
  /\ editStringIdx' = IF editStringIdx > 1 THEN editStringIdx - 1 ELSE editStringIdx
  /\ UNCHANGED <<pageVars, pc, value, durationMax, currIdx, nameVars, characterSetIdx, toMenu, naming, fault>>

(* Encoder 1 turns the wheel of characters, which goes round.              *)
TurnWheel(up) ==
  /\ Editing("string")
  /\ characterSetIdx' = IF up THEN (characterSetIdx % NumChars) + 1
                              ELSE IF characterSetIdx > 1 THEN characterSetIdx - 1 ELSE NumChars
  /\ name' = [name EXCEPT ![editStringIdx] = characterSetIdx']
  /\ UNCHANGED <<pageVars, pc, value, durationMax, currIdx, named, editStringIdx, toMenu, naming, fault>>

(* Pressing encoder 1 ends every edit loop; the item's callback follows.   *)
LeaveEdit ==
  /\ pc = "edit"
  /\ pc' = "announce"
  /\ characterSetIdx' = 0 /\ editStringIdx' = 0
  /\ UNCHANGED <<pageVars, value, durationMax, currIdx, nameVars, toMenu, naming, fault>>

-----------------------------------------------------------------------------
(* The rest of the loop: take an announcement, and redraw. The redraw      *)
(* fails an assertion on a string that is not there, and puts selections   *)
(* back to their first entry.                                              *)

UpdateMenuPage(page) ==
  IF page = "new_project" /\ ~named
    THEN /\ fault' = "noName"
         /\ UNCHANGED <<pageVars, pc, currIdx>>
    ELSE /\ pageCode' = page
         /\ menuPageBaseIdx' = BaseIdx(page)
         /\ selectableItems' = Cardinality(ItemsOf(page))
         /\ currentItem' = 0
         /\ updateMenuPageFlag' = FALSE
         /\ currIdx' = IF page = "new_project" THEN 0 ELSE currIdx
         /\ pc' = "input"
         /\ UNCHANGED fault

(* Mutant: the values are taken over, the page is not changed.             *)
TakeAnnouncementNoPage ==
  /\ pc = "announce" /\ toMenu # <<>>
  /\ LET m == Head(toMenu)
     IN /\ value' = [value EXCEPT !["note"] = m.note, !["velocity"] = m.velocity,
                                  !["duration"] = m.duration]
        /\ durationMax' = m.max
  /\ toMenu' = <<>>
  /\ UpdateMenuPage(pageCode)
  /\ UNCHANGED <<nameVars, wheel, naming>>

TakeAnnouncement ==
  /\ pc = "announce" /\ toMenu # <<>>
  /\ LET m == Head(toMenu)
     IN /\ value' = [value EXCEPT !["note"] = m.note, !["velocity"] = m.velocity,
                                  !["duration"] = m.duration]
        /\ durationMax' = m.max
  /\ toMenu' = <<>>
  /\ UpdateMenuPage("note_edit")
  /\ UNCHANGED <<nameVars, wheel, naming>>

NoAnnouncement ==
  /\ pc = "announce" /\ toMenu = <<>>
  /\ IF updateMenuPageFlag
       THEN UpdateMenuPage(pageCode)
       ELSE /\ pc' = "input"
            /\ UNCHANGED <<pageVars, currIdx, fault>>
  /\ UNCHANGED <<value, durationMax, nameVars, wheel, toMenu, naming>>

(* The system task announces a note.                                       *)
Announce(m) ==
  /\ fault = "none" /\ toMenu = <<>>
  /\ toMenu' = <<m>>
  /\ UNCHANGED <<pageVars, pc, value, durationMax, currIdx, nameVars, wheel, naming, fault>>

-----------------------------------------------------------------------------
NoName == [i \in 1 .. NameLength |-> 0]

Init ==
  /\ pageCode = "base" /\ menuPageBaseIdx = 1 /\ selectableItems = 0 /\ currentItem = 0
  /\ updateMenuPageFlag = TRUE
  /\ pc = "announce"
  /\ value = [p \in NumericParams |-> 0]
  /\ durationMax = 0 /\ currIdx = 0
  /\ name = NoName /\ named = FALSE
  /\ characterSetIdx = 0 /\ editStringIdx = 0
  /\ toMenu = <<>>
  /\ files \in FileLists /\ uniqueID = 0 /\ fileIdx = 1
  /\ fault = "none"

UserInput ==
  /\ fault = "none"
  /\ \/ NoInput \/ PageBack \/ SelectItem \/ EnterEdit
     \/ \E up \in BOOLEAN : MoveSelectionIndicator(up)
     \/ \E up \in BOOLEAN : EditNumericParam(up) \/ EditStringSelectionParam(up) \/ TurnWheel(up)
     \/ MoveRight \/ MoveLeft

Loop == fault = "none" /\ 
  (LeaveEdit \/ NextFile \/ NameTaken \/ NameFree \/ TakeAnnouncement \/ NoAnnouncement)

Next == UserInput \/ Loop \/ \E m \in Announcements : Announce(m)

Spec == Init /\ [][Next]_vars

(* The task runs, and a user who is editing presses encoder 1 in the end.  *)
FairSpec == Spec /\ WF_vars(fault = "none" /\ NoInput) /\ WF_vars(Loop)

-----------------------------------------------------------------------------
TypeOK ==
  /\ pageCode \in Pages
  /\ menuPageBaseIdx \in DOMAIN MenuData
  /\ {selectableItems, currentItem} \subseteq 0 .. Len(MenuData)
  /\ updateMenuPageFlag \in BOOLEAN /\ named \in BOOLEAN
  /\ pc \in {"input", "edit", "naming", "announce"}
  /\ value \in [NumericParams -> Nat]
  /\ durationMax \in Nat /\ toMenu \in {<<>>} \cup {<<m>> : m \in Announcements}
  /\ currIdx \in 0 .. QuantItems - 1
  /\ name \in [1 .. NameLength -> 0 .. NumChars]
  /\ characterSetIdx \in 0 .. NumChars /\ editStringIdx \in 0 .. NameLength
  /\ files \in FileLists
  /\ uniqueID \in 0 .. LastUniqueID + 1 /\ fileIdx \in 1 .. Len(files) + 1
  /\ fault \in {"none", "noName", "characterNotFound"}

(* Whenever the task looks for input, the selection indicator stands on an *)
(* item of the page that is drawn, whatever page it came from and however  *)
(* a user's change of page and an announced one fell together: base index  *)
(* plus current item is used unchecked (menu.c:187).                       *)
IndicatorOnPage ==
  pc \in {"input", "edit"} =>
    /\ ~updateMenuPageFlag
    /\ menuPageBaseIdx + currentItem \in ItemsOf(pageCode)

(* A project name has no hole and no end before its end, however the user  *)
(* moves along it: everything that reads it is a C string function.        *)
NameContiguous ==
  \A i, j \in 1 .. NameLength : i < j /\ name[j] # 0 => name[i] # 0

(* The menu halts for one reason only: editing a name that starts with the *)
(* last character of the set. The name page is never drawn without a name, *)
(* as there are more default names than files.                             *)
HaltsOnLastCharacterOnly ==
  fault # "none" => fault = "characterNotFound" /\ name[1] = NumChars

(* A new project is given the first default name that no file has,         *)
(* whichever files there are and in whatever order the list holds them:    *)
(* the search (menu.c:933-949) forgets no file it compared an earlier name *)
(* with, skips no number, and does not give up.                            *)
Taken(id) == \E a \in DOMAIN files : files[a] = DefaultName(id)

DefaultNameIsFree ==
  pc = "announce" /\ pageCode = "new_project" /\ Selected.page = "base" =>
    /\ named
    /\ \E id \in 0 .. LastUniqueID :
         /\ name = DefaultName(id) /\ ~Taken(id)
         /\ \A lower \in 0 .. id - 1 : Taken(lower)

(* An announced note is shown in the end, unless the device halts: no edit *)
(* loop and no page keeps the announcement waiting for ever.               *)
AnnouncementShown == toMenu # <<>> ~> (toMenu = <<>> /\ pageCode = "note_edit") \/ fault # "none"

(* Wherever knobs and announcements take the user, nothing is indexed that *)
(* is not there.                                                           *)
MenuSound == TypeOK /\ IndicatorOnPage /\ NameContiguous /\ HaltsOnLastCharacterOnly
=============================================================================
