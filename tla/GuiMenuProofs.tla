---------------------------- MODULE GuiMenuProofs ----------------------------
(***************************************************************************)
(* Wherever the knobs and the announcements take the user, the selection   *)
(* stays on the page that is drawn, a name keeps no hole, and a new name   *)
(* is one that no file has: for any number of characters and files, any    *)
(* length of names and any notes announced.                                *)
(***************************************************************************)
EXTENDS GuiMenu, FiniteSetTheorems, WellFoundedInduction, TLAPS

(* Min is the least of a set of naturals.                                  *)
LEMMA LeastNatural ==
  ASSUME NEW S, S \subseteq Nat, S # {}
  PROVE  Min(S) \in S /\ \A k \in S : Min(S) <= k
<1>1. \E x \in S : \A y \in S : ~(<<y, x>> \in OpToRel(<, Nat))
  BY NatLessThanWellFounded, WFMin
<1>2. PICK x \in S : \A y \in S : ~(y < x)
  BY <1>1 DEF OpToRel
<1>3. \A y \in S : x <= y
  BY <1>2
<1> QED
  BY <1>3 DEF Min

-----------------------------------------------------------------------------
(* The table of pages.                                                     *)

(* What the pages' code asks of an item, by its place in the table.        *)
ItemFits(item, i) ==
  /\ item.page = "base" <=> i \in 1 .. 4
  /\ item.page = "new_project" <=> i \in 5 .. 8
  /\ item.page = "note_edit" <=> i \in 14 .. 16
  /\ item.prev \in {"none", "base"}
  /\ item.next = IF i = 1 THEN "new_project" ELSE "none"
  /\ item.func = "createDefaultProjectName" <=> i = 1
  /\ item.type = "string" <=> i = 5
  /\ item.type = "numeric" => item.param \in NumericParams

LEMMA TableFits ==
  /\ DOMAIN MenuData = 1 .. 16 /\ Len(MenuData) = 16
  /\ \A i \in 1 .. 16 : ItemFits(MenuData[i], i)
<1>1. DOMAIN MenuData = 1 .. 16 /\ Len(MenuData) = 16
  BY DEF MenuData
<1>2. \A i \in 1 .. 16 :
        i \in {1, 2, 3, 4, 5, 6, 7, 8, 9, 10, 11, 12, 13, 14, 15, 16}
  OBVIOUS
<1>3. /\ MenuData[1] = Item("base", "none", "none", "none", "new_project", "createDefaultProjectName")
      /\ MenuData[2] = Item("base", "none", "none", "none", "none", "none")
      /\ MenuData[3] = Item("base", "none", "none", "none", "none", "none")
      /\ MenuData[4] = Item("base", "none", "none", "none", "none", "none")
      /\ MenuData[5] = Item("new_project", "string", "name", "base", "none", "none")
      /\ MenuData[6] = Item("new_project", "numeric", "tempo", "base", "none", "none")
      /\ MenuData[7] = Item("new_project", "selection", "quant", "base", "none", "none")
      /\ MenuData[8] = Item("new_project", "none", "none", "base", "none",
                          "createNewProjectFileCallback")
      /\ MenuData[9] = Item("grid_edit", "none", "none", "base", "none", "none")
      /\ MenuData[10] = Item("grid_edit", "none", "none", "base", "none", "none")
      /\ MenuData[11] = Item("grid_edit", "none", "none", "base", "none", "none")
      /\ MenuData[12] = Item("grid_edit", "none", "none", "base", "none", "none")
      /\ MenuData[13] = Item("grid_edit", "none", "none", "base", "none", "none")
      /\ MenuData[14] = Item("note_edit", "numeric", "note", "base", "none", "none")
      /\ MenuData[15] = Item("note_edit", "numeric", "velocity", "base", "none", "updateNoteVelocity")
      /\ MenuData[16] = Item("note_edit", "numeric", "duration", "base", "none", "updateNoteDuration")
  BY DEF MenuData
<1>4. /\ ItemFits(Item("base", "none", "none", "none", "new_project", "createDefaultProjectName"), 1)
  BY DEF Item, ItemFits, NumericParams
<1>5. /\ ItemFits(Item("base", "none", "none", "none", "none", "none"), 2)
      /\ ItemFits(Item("base", "none", "none", "none", "none", "none"), 3)
      /\ ItemFits(Item("base", "none", "none", "none", "none", "none"), 4)
  BY DEF Item, ItemFits, NumericParams
<1>6. /\ ItemFits(Item("new_project", "string", "name", "base", "none", "none"), 5)
  BY DEF Item, ItemFits, NumericParams
<1>7. /\ ItemFits(Item("new_project", "numeric", "tempo", "base", "none", "none"), 6)
  BY DEF Item, ItemFits, NumericParams
<1>8. /\ ItemFits(Item("new_project", "selection", "quant", "base", "none", "none"), 7)
  BY DEF Item, ItemFits, NumericParams
<1>9. /\ ItemFits(Item("new_project", "none", "none", "base", "none", "createNewProjectFileCallback"), 8)
  BY DEF Item, ItemFits, NumericParams
<1>10. /\ ItemFits(Item("grid_edit", "none", "none", "base", "none", "none"), 9)
      /\ ItemFits(Item("grid_edit", "none", "none", "base", "none", "none"), 10)
      /\ ItemFits(Item("grid_edit", "none", "none", "base", "none", "none"), 11)
      /\ ItemFits(Item("grid_edit", "none", "none", "base", "none", "none"), 12)
      /\ ItemFits(Item("grid_edit", "none", "none", "base", "none", "none"), 13)
  BY DEF Item, ItemFits, NumericParams
<1>11. /\ ItemFits(Item("note_edit", "numeric", "note", "base", "none", "none"), 14)
  BY DEF Item, ItemFits, NumericParams
<1>12. /\ ItemFits(Item("note_edit", "numeric", "velocity", "base", "none", "updateNoteVelocity"), 15)
  BY DEF Item, ItemFits, NumericParams
<1>13. /\ ItemFits(Item("note_edit", "numeric", "duration", "base", "none", "updateNoteDuration"), 16)
  BY DEF Item, ItemFits, NumericParams
<1>14. /\ ItemFits(MenuData[1], 1) /\ ItemFits(MenuData[2], 2) /\ ItemFits(MenuData[3], 3)
       /\ ItemFits(MenuData[4], 4) /\ ItemFits(MenuData[5], 5) /\ ItemFits(MenuData[6], 6)
       /\ ItemFits(MenuData[7], 7) /\ ItemFits(MenuData[8], 8) /\ ItemFits(MenuData[9], 9)
       /\ ItemFits(MenuData[10], 10) /\ ItemFits(MenuData[11], 11) /\ ItemFits(MenuData[12], 12)
       /\ ItemFits(MenuData[13], 13) /\ ItemFits(MenuData[14], 14) /\ ItemFits(MenuData[15], 15)
       /\ ItemFits(MenuData[16], 16)
  BY <1>3, <1>4, <1>5, <1>6, <1>7, <1>8, <1>9, <1>10, <1>11, <1>12, <1>13
<1> QED
  BY <1>1, <1>2, <1>14

LEMMA PageItems ==
  /\ ItemsOf("base") = 1 .. 4 /\ ItemsOf("new_project") = 5 .. 8 /\ ItemsOf("note_edit") = 14 .. 16
  /\ BaseIdx("base") = 1 /\ BaseIdx("new_project") = 5 /\ BaseIdx("note_edit") = 14
  /\ Cardinality(ItemsOf("base")) = 4 /\ Cardinality(ItemsOf("new_project")) = 4
  /\ Cardinality(ItemsOf("note_edit")) = 3
<1>1. ASSUME NEW i \in 1 .. 16
      PROVE  /\ MenuData[i].page = "base" <=> i \in 1 .. 4
             /\ MenuData[i].page = "new_project" <=> i \in 5 .. 8
             /\ MenuData[i].page = "note_edit" <=> i \in 14 .. 16
  <2>1. ItemFits(MenuData[i], i)
    BY TableFits
  <2> QED
    BY <2>1 DEF ItemFits
<1>2. /\ ItemsOf("base") = 1 .. 4
      /\ ItemsOf("new_project") = 5 .. 8
      /\ ItemsOf("note_edit") = 14 .. 16
  BY <1>1, TableFits DEF ItemsOf
<1>3. ASSUME NEW a \in Nat, NEW b \in Nat, a <= b
      PROVE  Min(a .. b) = a /\ Cardinality(a .. b) = b - a + 1
  <2>1. Min(a .. b) \in a .. b /\ \A k \in a .. b : Min(a .. b) <= k
    <3>1. a .. b \subseteq Nat /\ a .. b # {}
      BY <1>3
    <3> QED
      BY <3>1, LeastNatural
  <2> QED
    BY <1>3, <2>1, FS_Interval
<1>4. /\ 1 \in Nat /\ 4 \in Nat /\ 1 <= 4 /\ 5 \in Nat /\ 8 \in Nat /\ 5 <= 8
      /\ 14 \in Nat /\ 16 \in Nat /\ 14 <= 16
  OBVIOUS
<1>5. /\ Min(1 .. 4) = 1 /\ Cardinality(1 .. 4) = 4 - 1 + 1
      /\ Min(5 .. 8) = 5 /\ Cardinality(5 .. 8) = 8 - 5 + 1
      /\ Min(14 .. 16) = 14 /\ Cardinality(14 .. 16) = 16 - 14 + 1
  BY <1>3, <1>4, Zenon
<1>6. 4 - 1 + 1 = 4 /\ 8 - 5 + 1 = 4 /\ 16 - 14 + 1 = 3
  OBVIOUS
<1> QED
  BY <1>2, <1>5, <1>6 DEF BaseIdx

(* The indicator is on the page that pageCode names, as it was drawn.      *)
PageShown ==
  /\ menuPageBaseIdx = BaseIdx(pageCode)
  /\ selectableItems = Cardinality(ItemsOf(pageCode))
  /\ currentItem \in 0 .. selectableItems - 1

LEMMA ShownFacts ==
  ASSUME PageShown, pageCode \in Pages
  PROVE  /\ menuPageBaseIdx + currentItem \in ItemsOf(pageCode)
         /\ menuPageBaseIdx + currentItem \in 1 .. 16
         /\ Selected.page = pageCode
         /\ selectableItems \in 1 .. 4
<1>1. /\ menuPageBaseIdx + currentItem \in ItemsOf(pageCode)
      /\ menuPageBaseIdx + currentItem \in 1 .. 16
      /\ selectableItems \in 1 .. 4
  BY PageItems DEF PageShown, Pages
<1> QED
  BY <1>1 DEF ItemsOf, Selected

-----------------------------------------------------------------------------
(* Default names.                                                          *)

LEMMA NamesDiffer ==
  ASSUME NEW i \in Nat, NEW j \in Nat, DefaultName(i) = DefaultName(j)
  PROVE  i = j
<1>1. 2 \in 1 .. NameLength
  BY NameAssumption
<1>2. DefaultName(i)[2] = i + 1 /\ DefaultName(j)[2] = j + 1
  BY <1>1 DEF DefaultName
<1> QED
  BY <1>2

Contiguous(n) == \A i, j \in 1 .. NameLength : i < j /\ n[j] # 0 => n[i] # 0

LEMMA DefaultNameFits ==
  ASSUME NEW id \in 0 .. LastUniqueID
  PROVE  /\ DefaultName(id) \in [1 .. NameLength -> 0 .. NumChars]
         /\ DefaultName(id)[1] # 0 /\ Contiguous(DefaultName(id))
<1>1. id \in Nat /\ id + 1 \in 0 .. NumChars /\ Proj \in 0 .. NumChars /\ 0 \in 0 .. NumChars
  BY NameAssumption, UniqueIDAssumption DEF Proj
<1>2. DefaultName(id) \in [1 .. NameLength -> 0 .. NumChars]
  BY <1>1 DEF DefaultName
<1>3. \A i \in 1 .. NameLength :
        DefaultName(id)[i] = IF i = 1 THEN Proj ELSE IF i = 2 THEN id + 1 ELSE 0
  BY DEF DefaultName
<1> QED
  BY <1>1, <1>2, <1>3, NameAssumption DEF Contiguous, Proj

(* The search never comes to the last number: the list is shorter than the *)
(* numbers that are taken would be.                                        *)
LEMMA FewTaken ==
  ASSUME files \in FileLists, NEW k \in Nat, \A id \in 0 .. k - 1 : Taken(id)
  PROVE  k <= MaxNumFiles
<1> DEFINE ids == 0 .. k - 1
           n   == Len(files)
           f   == [id \in ids |-> CHOOSE a \in 1 .. n : files[a] = DefaultName(id)]
<1>1. n \in Nat /\ n <= MaxNumFiles /\ DOMAIN files = 1 .. n
  BY UniqueIDAssumption
<1>2. \A id \in ids : f[id] \in 1 .. n /\ files[f[id]] = DefaultName(id)
  BY <1>1 DEF Taken
<1>3. IsFiniteSet(ids) /\ Cardinality(ids) = k
  <2>1. CASE k = 0
    <3>1. ids = {}
      BY <2>1
    <3> QED
      BY <2>1, <3>1, FS_EmptySet
  <2>2. CASE k # 0
    BY <2>2, FS_Interval
  <2> QED
    BY <2>1, <2>2
<1>4. IsFiniteSet(1 .. n) /\ Cardinality(1 .. n) = n
  <2>1. CASE n = 0
    <3>1. 1 .. n = {}
      BY <2>1
    <3> QED
      BY <2>1, <3>1, FS_EmptySet
  <2>2. CASE n # 0
    <3> HIDE DEF n
    <3> QED
      BY <1>1, <2>2, FS_Interval
  <2> QED
    BY <2>1, <2>2
<1>5. f \in [ids -> 1 .. n]
  BY <1>2
<1> HIDE DEF f
<1>6. ASSUME NEW x \in ids, NEW y \in ids, f[x] = f[y] PROVE x = y
  <2>1. DefaultName(x) = DefaultName(y) /\ x \in Nat /\ y \in Nat
    BY <1>2, <1>6
  <2> QED
    BY <2>1, NamesDiffer
<1>7. ~(n < k)
  <2>1. SUFFICES ASSUME n < k PROVE FALSE
    OBVIOUS
  <2>2. PICK places : places = 1 .. n
    OBVIOUS
  <2>3. /\ IsFiniteSet(ids) /\ IsFiniteSet(places) /\ f \in [ids -> places]
        /\ Cardinality(places) < Cardinality(ids)
    BY <1>3, <1>4, <1>5, <2>1, <2>2
  <2> HIDE DEF ids
  <2>4. \E x, y \in ids : x # y /\ f[x] = f[y]
    BY <2>3, FS_PigeonHole
  <2> QED
    BY <1>6, <2>4
<1> QED
  BY <1>1, <1>7, UniqueIDAssumption

-----------------------------------------------------------------------------
(* The inductive invariant. The page is drawn as pageCode says except      *)
(* between a change of pageCode and the redraw; the name page is entered   *)
(* only with a name; who types in it stands on a character of it; and the  *)
(* search for a default name has met all numbers below the one it tries.   *)

NamePageHasName == pc # "naming" /\ pageCode = "new_project" => named /\ name[1] # 0

Searched ==
  /\ uniqueID \in 0 .. LastUniqueID /\ name = DefaultName(uniqueID)
  /\ \A id \in 0 .. uniqueID - 1 : Taken(id)
  /\ \A a \in 1 .. fileIdx - 1 : files[a] # name

SearchUnderWay == pc = "naming" => Searched

Typing ==
  /\ characterSetIdx \in 1 .. NumChars /\ editStringIdx \in 1 .. NameLength
  /\ name[editStringIdx] # 0

TypingOnName == pc = "edit" /\ Selected.type = "string" => Typing

MenuInv ==
  /\ TypeOK
  /\ pc \in {"input", "edit"} => ~updateMenuPageFlag
  /\ ~updateMenuPageFlag => PageShown
  /\ NamePageHasName /\ NameContiguous /\ TypingOnName /\ SearchUnderWay
  /\ HaltsOnLastCharacterOnly /\ DefaultNameIsFree

LEMMA InitInv == Init => MenuInv
<1> SUFFICES ASSUME Init PROVE MenuInv
  OBVIOUS
<1>1. TypeOK
  <2>1. /\ menuPageBaseIdx \in DOMAIN MenuData
        /\ {selectableItems, currentItem} \subseteq 0 .. Len(MenuData)
    BY TableFits DEF Init
  <2>2. value \in [NumericParams -> Nat] /\ durationMax \in Nat
          /\ toMenu \in {<<>>} \cup {<<m>> : m \in Announcements}
    BY DEF Init
  <2>3. /\ currIdx \in 0 .. QuantItems - 1
        /\ name \in [1 .. NameLength -> 0 .. NumChars]
        /\ characterSetIdx \in 0 .. NumChars /\ editStringIdx \in 0 .. NameLength
    BY NameAssumption, LimitsAssumption DEF Init, NoName
  <2>4. files \in FileLists /\ uniqueID \in 0 .. LastUniqueID + 1 /\ fileIdx \in 1 .. Len(files) + 1
    BY UniqueIDAssumption DEF Init
  <2> QED
    BY <2>1, <2>2, <2>3, <2>4 DEF Init, TypeOK, Pages
<1>2. NamePageHasName /\ NameContiguous /\ TypingOnName /\ SearchUnderWay
  BY DEF Init, NamePageHasName, NameContiguous, TypingOnName, SearchUnderWay, NoName
<1>4. HaltsOnLastCharacterOnly /\ DefaultNameIsFree
  BY DEF Init, HaltsOnLastCharacterOnly, DefaultNameIsFree
<1> QED
  BY <1>1, <1>2, <1>4 DEF MenuInv, Init

(* Who is asked for input, or edits, sees an item of the page pageCode.    *)
LEMMA InputOnPage ==
  ASSUME MenuInv, pc \in {"input", "edit"}
  PROVE  /\ PageShown /\ ~updateMenuPageFlag
         /\ Selected.page = pageCode
         /\ ItemFits(Selected, menuPageBaseIdx + currentItem)
         /\ selectableItems \in 1 .. 4
         /\ currentItem \in 0 .. selectableItems - 1
<1>1. PageShown /\ ~updateMenuPageFlag /\ pageCode \in Pages
  BY DEF MenuInv, TypeOK
<1>2. menuPageBaseIdx + currentItem \in 1 .. 16 /\ Selected.page = pageCode
        /\ selectableItems \in 1 .. 4
  BY <1>1, ShownFacts
<1> QED
  BY <1>1, <1>2, TableFits DEF Selected, PageShown

(* What no step in question touches: a name nobody edits or looks for.     *)
LEMMA SameName ==
  ASSUME MenuInv, UNCHANGED <<name, naming>>, pc' = "naming" => pc = "naming"
  PROVE  /\ NameContiguous' /\ SearchUnderWay'
         /\ files' \in FileLists /\ uniqueID' \in 0 .. LastUniqueID + 1
         /\ fileIdx' \in 1 .. Len(files') + 1
BY DEF MenuInv, TypeOK, NameContiguous, SearchUnderWay, Searched, Taken, naming

-----------------------------------------------------------------------------
(* Input outside of the edit loops.                                        *)

LEMMA IdleInput ==
  ASSUME MenuInv, fault = "none",
         NoInput \/ PageBack \/ (\E up \in BOOLEAN : MoveSelectionIndicator(up))
  PROVE  MenuInv'
<1>1. pc = "input" /\ pc' = "announce" /\ fault' = "none"
        /\ UNCHANGED <<value, durationMax, currIdx, wheel, toMenu, naming, nameVars>>
        /\ UNCHANGED <<menuPageBaseIdx, selectableItems>>
  BY DEF NoInput, PageBack, MoveSelectionIndicator, InputDone, InputFrame, pageVars
<1>2. /\ PageShown /\ ~updateMenuPageFlag /\ Selected.page = pageCode
      /\ Selected.prev \in {"none", "base"}
      /\ selectableItems \in 1 .. 4 /\ currentItem \in 0 .. selectableItems - 1
  BY <1>1, InputOnPage DEF ItemFits
<1>3. /\ pageCode' \in {pageCode, "base"} /\ updateMenuPageFlag' \in BOOLEAN
      /\ currentItem' \in 0 .. selectableItems - 1
      /\ ~updateMenuPageFlag' => pageCode' = pageCode
      /\ pageCode' # pageCode => currentItem' = currentItem
  <2>1. CASE NoInput
    BY <1>2, <2>1 DEF NoInput, pageVars, MenuInv, TypeOK
  <2>2. CASE PageBack
    BY <1>2, <2>2 DEF PageBack, GoTo, MenuInv, TypeOK
  <2>3. ASSUME NEW up \in BOOLEAN, MoveSelectionIndicator(up)
        PROVE  /\ UNCHANGED <<pageCode, updateMenuPageFlag>>
               /\ currentItem' \in 0 .. selectableItems - 1
    BY <1>2, <2>3 DEF MoveSelectionIndicator
  <2>4. updateMenuPageFlag \in BOOLEAN
    BY DEF MenuInv, TypeOK
  <2> QED
    BY <1>2, <2>1, <2>2, <2>3, <2>4
<1>4. TypeOK'
  <2>1. /\ menuPageBaseIdx' \in DOMAIN MenuData
        /\ {selectableItems', currentItem'} \subseteq 0 .. Len(MenuData)
    <3>1. menuPageBaseIdx' \in DOMAIN MenuData
      BY <1>1 DEF MenuInv, TypeOK
    <3>2. selectableItems' \in 0 .. 16 /\ currentItem' \in 0 .. 16
      BY <1>1, <1>2, <1>3
    <3> QED
      BY <3>1, <3>2, TableFits
  <2>2. pageCode' \in Pages
    BY <1>3 DEF MenuInv, TypeOK, Pages
  <2> QED
    BY <1>1, <1>3, <2>1, <2>2 DEF MenuInv, TypeOK, wheel, nameVars, naming
<1>5. ~updateMenuPageFlag' => PageShown'
  BY <1>1, <1>2, <1>3 DEF PageShown
<1>6. NamePageHasName' /\ TypingOnName' /\ HaltsOnLastCharacterOnly'
  BY <1>1, <1>3 DEF MenuInv, NamePageHasName, TypingOnName, HaltsOnLastCharacterOnly, nameVars
<1>7. DefaultNameIsFree'
  <2>1. SUFFICES ASSUME pageCode' = "new_project" PROVE Selected'.page # "base"
    BY DEF DefaultNameIsFree
  <2>2. pageCode = "new_project" /\ pageCode' = pageCode
    BY <1>3, <2>1
  <2>3. menuPageBaseIdx' + currentItem' \in ItemsOf("new_project")
    BY <1>1, <1>2, <1>3, <2>2, PageItems DEF PageShown
  <2> QED
    BY <2>3 DEF ItemsOf, Selected
<1> QED
  BY <1>1, <1>4, <1>5, <1>6, <1>7, SameName DEF MenuInv, nameVars

LEMMA SelectItemKeeps ==
  ASSUME MenuInv, fault = "none", SelectItem
  PROVE  MenuInv'
<1>1. /\ pc = "input"
      /\ UNCHANGED <<value, durationMax, currIdx, wheel, toMenu, files, fault, named>>
      /\ UNCHANGED <<menuPageBaseIdx, selectableItems, currentItem>>
  BY DEF SelectItem, InputDone, InputFrame, BeginNaming, nameVars, naming
<1> DEFINE at == menuPageBaseIdx + currentItem
<1>2. PageShown /\ ~updateMenuPageFlag /\ Selected.page = pageCode /\ ItemFits(Selected, at)
  BY <1>1, InputOnPage
<1>3. Selected' = Selected
  BY <1>1 DEF Selected
<1>4. CASE at = 1
  <2>1. /\ pageCode' = "new_project" /\ updateMenuPageFlag' = TRUE /\ pc' = "naming"
        /\ name' = DefaultName(0) /\ uniqueID' = 0 /\ fileIdx' = 1
    BY <1>2, <1>4 DEF SelectItem, ItemFits, GoTo, BeginNaming
  <2>2. /\ 0 \in 0 .. LastUniqueID /\ 0 \in 0 .. LastUniqueID + 1
        /\ fileIdx' \in 1 .. Len(files') + 1 /\ files' \in FileLists
    BY <1>1, <2>1, UniqueIDAssumption DEF MenuInv, TypeOK
  <2>3. DefaultName(0) \in [1 .. NameLength -> 0 .. NumChars] /\ Contiguous(DefaultName(0))
    BY <2>2, DefaultNameFits
  <2>4. TypeOK'
    BY <1>1, <2>1, <2>2, <2>3 DEF MenuInv, TypeOK, wheel, Pages
  <2>5. SearchUnderWay'
    BY <1>1, <2>1, <2>2 DEF SearchUnderWay, Searched
  <2>6. NameContiguous'
    BY <2>1, <2>3 DEF NameContiguous, Contiguous
  <2> QED
    BY <1>1, <2>1, <2>4, <2>5, <2>6
       DEF MenuInv, NamePageHasName, TypingOnName, HaltsOnLastCharacterOnly, DefaultNameIsFree
<1>5. CASE at # 1
  <2>1. UNCHANGED <<pageCode, updateMenuPageFlag, name, named, naming>> /\ pc' = "announce"
    BY <1>2, <1>5 DEF SelectItem, ItemFits, InputDone, nameVars
  <2>2. TypeOK' /\ (~updateMenuPageFlag' => PageShown')
    BY <1>1, <1>2, <2>1 DEF MenuInv, TypeOK, wheel, naming, Pages, PageShown
  <2>3. DefaultNameIsFree'
    BY <1>2, <1>3, <2>1 DEF DefaultNameIsFree
  <2> QED
    BY <1>1, <2>1, <2>2, <2>3, SameName
       DEF MenuInv, NamePageHasName, TypingOnName, HaltsOnLastCharacterOnly
<1> QED
  BY <1>4, <1>5

-----------------------------------------------------------------------------
(* The search for a default name: one comparison at a time.                *)

LEMMA SearchKeeps ==
  ASSUME MenuInv, fault = "none", NextFile \/ NameTaken \/ NameFree
  PROVE  MenuInv'
<1>1. /\ pc = "naming" /\ pc' \in {"naming", "announce"}
      /\ UNCHANGED <<pageVars, value, durationMax, currIdx, wheel, toMenu, files, fault>>
  BY DEF NextFile, NameTaken, NameFree, SearchFrame
<1>2. PICK n \in Nat : n = Len(files) /\ DOMAIN files = 1 .. n /\ n <= MaxNumFiles
  BY UniqueIDAssumption DEF MenuInv, TypeOK
<1>3. /\ uniqueID \in 0 .. LastUniqueID /\ name = DefaultName(uniqueID)
      /\ \A id \in 0 .. uniqueID - 1 : Taken(id)
      /\ \A a \in 1 .. fileIdx - 1 : files[a] # name
      /\ fileIdx \in 1 .. n + 1 /\ files \in FileLists
  BY <1>1, <1>2 DEF MenuInv, TypeOK, SearchUnderWay, Searched
<1>4. ASSUME NameTaken
      PROVE  /\ uniqueID' = uniqueID + 1 /\ fileIdx' = 1 /\ pc' = "naming" /\ named' = named
             /\ name' = DefaultName(uniqueID + 1) /\ uniqueID + 1 \in 0 .. LastUniqueID
             /\ \A id \in 0 .. uniqueID : Taken(id)
  <2>1. Taken(uniqueID)
    BY <1>3, <1>4 DEF NameTaken, Taken
  <2>2. \A id \in 0 .. uniqueID : id = uniqueID \/ id \in 0 .. uniqueID - 1
    BY <1>3, UniqueIDAssumption
  <2>3. \A id \in 0 .. uniqueID : Taken(id)
    BY Zenon, <1>3, <2>1, <2>2
  <2>4. uniqueID + 1 \in Nat /\ 0 .. (uniqueID + 1) - 1 = 0 .. uniqueID
    BY <1>3, UniqueIDAssumption
  <2>5. uniqueID + 1 <= MaxNumFiles
    BY <1>3, <2>3, <2>4, FewTaken
  <2>6. uniqueID + 1 \in 0 .. LastUniqueID /\ ~(uniqueID + 1 > LastUniqueID)
    BY <2>4, <2>5, UniqueIDAssumption
  <2> QED
    BY <1>1, <1>4, <2>3, <2>6 DEF NameTaken
<1>5. /\ uniqueID' \in 0 .. LastUniqueID /\ name' = DefaultName(uniqueID')
      /\ \A id \in 0 .. uniqueID' - 1 : Taken(id)
      /\ \A a \in 1 .. fileIdx' - 1 : files[a] # name'
      /\ fileIdx' \in 1 .. n + 1 /\ named' \in BOOLEAN
      /\ pc' = "announce" => named' /\ fileIdx' = n + 1
  <2>1. CASE NextFile
    <3>1. /\ fileIdx' = fileIdx + 1 /\ files[fileIdx] # name /\ pc' = "naming"
          /\ UNCHANGED <<name, named, uniqueID>> /\ fileIdx \in 1 .. n
      BY <1>1, <1>2, <2>1 DEF NextFile, nameVars
    <3>2. /\ fileIdx' \in 1 .. n + 1
          /\ \A a \in 1 .. fileIdx' - 1 : a = fileIdx \/ a \in 1 .. fileIdx - 1
      BY <1>3, <3>1
    <3>3. \A a \in 1 .. fileIdx' - 1 : files[a] # name'
      BY Zenon, <1>3, <3>1, <3>2
    <3>4. named \in BOOLEAN
      BY DEF MenuInv, TypeOK
    <3> QED
      BY <1>3, <3>1, <3>2, <3>3, <3>4
  <2>2. CASE NameTaken
    <3>1. /\ fileIdx' \in 1 .. n + 1 /\ 1 .. fileIdx' - 1 = {}
          /\ 0 .. uniqueID' - 1 = 0 .. uniqueID
      BY <1>2, <1>3, <1>4, <2>2, UniqueIDAssumption
    <3>2. named' \in BOOLEAN
      BY <1>4, <2>2 DEF MenuInv, TypeOK
    <3> QED
      BY <1>4, <2>2, <3>1, <3>2
  <2>3. CASE NameFree
    <3>1. /\ UNCHANGED <<name, uniqueID, fileIdx>> /\ named' = TRUE /\ fileIdx > n
      BY <1>2, <2>3 DEF NameFree
    <3>2. fileIdx = n + 1
      BY <1>2, <1>3, <3>1
    <3> QED
      BY <1>3, <3>1, <3>2
  <2> QED
    BY <2>1, <2>2, <2>3
<1>6. DefaultName(uniqueID') \in [1 .. NameLength -> 0 .. NumChars]
        /\ Contiguous(DefaultName(uniqueID')) /\ DefaultName(uniqueID')[1] # 0
  BY <1>5, DefaultNameFits
<1>7. TypeOK'
  <2>1. name' \in [1 .. NameLength -> 0 .. NumChars]
    BY Zenon, <1>5, <1>6
  <2>2. uniqueID' \in 0 .. LastUniqueID + 1 /\ fileIdx' \in 1 .. Len(files') + 1
    BY <1>1, <1>2, <1>5, UniqueIDAssumption
  <2> QED
    BY <1>1, <1>5, <2>1, <2>2 DEF MenuInv, TypeOK, pageVars, wheel
<1>8. SearchUnderWay' /\ NameContiguous' /\ NamePageHasName' /\ TypingOnName'
  <2>1. \A id : Taken(id)' <=> Taken(id)
    BY <1>1 DEF Taken
  <2>2. Searched'
    BY Zenon, <1>1, <1>5, <2>1 DEF Searched
  <2>3. NameContiguous'
    BY Zenon, <1>5, <1>6 DEF NameContiguous, Contiguous
  <2>4. NamePageHasName'
    BY <1>1, <1>5, <1>6 DEF NamePageHasName
  <2> QED
    BY <1>1, <2>2, <2>3, <2>4 DEF SearchUnderWay, TypingOnName
<1>9. DefaultNameIsFree'
  <2>1. SUFFICES ASSUME pc' = "announce" PROVE DefaultNameIsFree'
    BY DEF DefaultNameIsFree
  <2>2. ~Taken(uniqueID')
    <3>1. 1 .. fileIdx' - 1 = DOMAIN files
      BY <1>2, <1>5, <2>1
    <3> QED
      BY Zenon, <1>5, <3>1 DEF Taken
  <2>3. \A id : Taken(id)' <=> Taken(id)
    BY <1>1 DEF Taken
  <2> QED
    BY Zenon, <1>5, <2>1, <2>2, <2>3 DEF DefaultNameIsFree
<1> QED
  BY <1>1, <1>7, <1>8, <1>9
     DEF MenuInv, PageShown, HaltsOnLastCharacterOnly, pageVars

-----------------------------------------------------------------------------
LEMMA EnterEditKeeps ==
  ASSUME MenuInv, fault = "none", EnterEdit
  PROVE  MenuInv'
<1>1. pc = "input" /\ UNCHANGED <<pageVars, value, durationMax, currIdx, nameVars, toMenu, naming>>
  BY DEF EnterEdit
<1>2. PageShown /\ ~updateMenuPageFlag /\ Selected.page = pageCode
        /\ ItemFits(Selected, menuPageBaseIdx + currentItem)
  BY <1>1, InputOnPage
<1>3. Selected' = Selected /\ PageShown' /\ ~updateMenuPageFlag'
  BY <1>1, <1>2 DEF Selected, PageShown, pageVars
<1>4. Selected.type = "string" => name[1] \in 1 .. NumChars
  <2>1. SUFFICES ASSUME Selected.type = "string" PROVE name[1] \in 1 .. NumChars
    OBVIOUS
  <2>2. pageCode = "new_project"
    BY <1>2, <2>1 DEF ItemFits
  <2>3. name[1] # 0 /\ name[1] \in 0 .. NumChars
    <3>1. name[1] # 0
      BY <1>1, <2>2 DEF MenuInv, NamePageHasName
    <3>2. name \in [1 .. NameLength -> 0 .. NumChars] /\ 1 \in 1 .. NameLength
      BY NameAssumption DEF MenuInv, TypeOK
    <3> QED
      BY <3>1, <3>2
  <2> QED
    BY <2>3, NameAssumption
<1>5. CASE fault' = "characterNotFound"
  <2>1. Selected.type = "string" /\ name[1] \notin 1 .. NumChars - 1
          /\ UNCHANGED <<pc, wheel>>
    BY <1>5 DEF EnterEdit
  <2>2. name[1] = NumChars
    BY <2>1, <1>4, NameAssumption
  <2>3. TypeOK'
    BY <1>1, <1>5, <2>1 DEF MenuInv, TypeOK, wheel, nameVars, pageVars, naming
  <2> QED
    BY <1>1, <1>3, <1>5, <2>1, <2>2, <2>3, SameName
       DEF MenuInv, NamePageHasName, TypingOnName, HaltsOnLastCharacterOnly,
           DefaultNameIsFree, nameVars, pageVars
<1>6. CASE fault' # "characterNotFound"
  <2>1. /\ pc' = "edit" /\ fault' = "none"
        /\ characterSetIdx' = IF Selected.type = "string" THEN name[1] ELSE 0
        /\ editStringIdx' = IF Selected.type = "string" THEN 1 ELSE 0
    BY <1>6 DEF EnterEdit
  <2>2. characterSetIdx' \in 0 .. NumChars /\ editStringIdx' \in 0 .. NameLength
    BY <2>1, <1>4, NameAssumption
  <2>3. TypeOK'
    BY <1>1, <2>1, <2>2 DEF MenuInv, TypeOK, nameVars, pageVars, naming
  <2>4. TypingOnName'
    BY <1>1, <1>3, <1>4, <2>1, NameAssumption DEF TypingOnName, Typing, nameVars
  <2> QED
    BY <1>1, <1>3, <2>1, <2>3, <2>4, SameName
       DEF MenuInv, NamePageHasName, HaltsOnLastCharacterOnly,
           DefaultNameIsFree, nameVars, pageVars
<1> QED
  BY <1>5, <1>6

-----------------------------------------------------------------------------
(* The edit loops. None of them changes the page.                          *)

LEMMA EditFrame ==
  ASSUME MenuInv, fault = "none", pc = "edit", UNCHANGED <<pageVars, toMenu, naming, fault>>,
         pc' \in {"edit", "announce"}
  PROVE  /\ Selected' = Selected /\ Selected.page = pageCode
         /\ pc' \in {"input", "edit"} => ~updateMenuPageFlag'
         /\ ~updateMenuPageFlag' => PageShown'
         /\ HaltsOnLastCharacterOnly' /\ DefaultNameIsFree'
<1>1. PageShown /\ Selected.page = pageCode /\ ~updateMenuPageFlag
  BY InputOnPage
<1>2. Selected' = Selected
  BY DEF Selected, pageVars
<1> QED
  BY <1>1, <1>2 DEF MenuInv, PageShown, HaltsOnLastCharacterOnly,
                    DefaultNameIsFree, pageVars

LEMMA ParamsKeep ==
  ASSUME MenuInv, fault = "none",
         (\E up \in BOOLEAN : EditNumericParam(up) \/ EditStringSelectionParam(up))
           \/ MoveLeft \/ LeaveEdit
  PROVE  MenuInv'
<1>1. /\ pc = "edit" /\ pc' \in {"edit", "announce"}
      /\ UNCHANGED <<pageVars, durationMax, nameVars, toMenu, naming, fault>>
  BY DEF EditNumericParam, EditStringSelectionParam, MoveLeft, LeaveEdit, Editing
<1>2. ItemFits(Selected, menuPageBaseIdx + currentItem)
  BY <1>1, InputOnPage
<1>3. value' \in [NumericParams -> Nat]
  <2>1. ASSUME NEW up \in BOOLEAN, EditNumericParam(up) PROVE value' \in [NumericParams -> Nat]
    <3>1. Selected.param \in NumericParams
      BY <1>2, <2>1 DEF EditNumericParam, Editing, ItemFits
    <3>2. Limits(Selected.param)[1] \in Nat /\ Limits(Selected.param)[2] \in Nat
      BY LimitsAssumption DEF Limits, MenuInv, TypeOK
    <3>3. value[Selected.param] \in Nat
      BY <3>1 DEF MenuInv, TypeOK
    <3>4. \E w \in Nat : value' = [value EXCEPT ![Selected.param] = w]
      <4> DEFINE p     == Selected.param
                 above == IF value[p] < Limits(p)[2] THEN value[p] + 1 ELSE value[p]
                 below == IF value[p] > Limits(p)[1] THEN value[p] - 1 ELSE value[p]
      <4>1. above \in Nat /\ below \in Nat
        BY <3>2, <3>3
      <4>2. value' = [value EXCEPT ![p] = above] \/ value' = [value EXCEPT ![p] = below]
        BY <2>1 DEF EditNumericParam
      <4> QED
        BY <4>1, <4>2
    <3>5. value \in [NumericParams -> Nat]
      BY DEF MenuInv, TypeOK
    <3> QED
      BY <3>1, <3>4, <3>5
  <2>2. CASE UNCHANGED value
    BY <2>2 DEF MenuInv, TypeOK
  <2> QED
    BY <2>1, <2>2 DEF EditStringSelectionParam, MoveLeft, LeaveEdit
<1>4. currIdx' \in 0 .. QuantItems - 1
  <2>1. QuantItems \in Nat \ {0} /\ currIdx \in 0 .. QuantItems - 1
    BY LimitsAssumption DEF MenuInv, TypeOK
  <2>2. ASSUME NEW up \in BOOLEAN, EditStringSelectionParam(up)
        PROVE  currIdx' \in 0 .. QuantItems - 1
    BY <2>1, <2>2 DEF EditStringSelectionParam
  <2>3. CASE UNCHANGED currIdx
    BY <2>1, <2>3
  <2> QED
    BY <2>2, <2>3 DEF EditNumericParam, MoveLeft, LeaveEdit
<1>5. characterSetIdx' \in 0 .. NumChars /\ editStringIdx' \in 0 .. NameLength
  <2>1. /\ NumChars \in Nat /\ NameLength \in Nat
        /\ characterSetIdx \in 0 .. NumChars /\ editStringIdx \in 0 .. NameLength
    BY NameAssumption DEF MenuInv, TypeOK
  <2>2. CASE UNCHANGED wheel
    BY <2>1, <2>2 DEF wheel
  <2>3. CASE MoveLeft
    BY <2>1, <2>3 DEF MoveLeft
  <2>4. CASE LeaveEdit
    BY <2>1, <2>4 DEF LeaveEdit
  <2> QED
    BY <2>2, <2>3, <2>4 DEF EditNumericParam, EditStringSelectionParam
<1>6. TypeOK'
  BY <1>1, <1>3, <1>4, <1>5 DEF MenuInv, TypeOK, nameVars, pageVars, naming
<1>7. TypingOnName'
  <2>1. SUFFICES ASSUME pc' = "edit", Selected'.type = "string" PROVE Typing'
    BY DEF TypingOnName
  <2>2. Selected.type = "string" /\ Typing
    BY <1>1, <2>1, EditFrame DEF MenuInv, TypingOnName
  <2>3. CASE UNCHANGED wheel
    BY <1>1, <2>2, <2>3 DEF Typing, wheel, nameVars
  <2>4. CASE MoveLeft
    <3>1. /\ characterSetIdx' = characterSetIdx /\ name' = name
          /\ editStringIdx \in 1 .. NameLength /\ editStringIdx' \in 1 .. NameLength
          /\ editStringIdx' = editStringIdx \/ editStringIdx' < editStringIdx
      BY <2>2, <2>4, NameAssumption DEF MoveLeft, Typing, nameVars
    <3>2. \A i, j \in 1 .. NameLength : i < j /\ name[j] # 0 => name[i] # 0
      BY DEF MenuInv, NameContiguous
    <3>3. name[editStringIdx'] # 0
      BY <2>2, <3>1, <3>2 DEF Typing
    <3> QED
      BY <2>2, <3>1, <3>3 DEF Typing
  <2> QED
    BY <2>1, <2>3, <2>4 DEF EditNumericParam, EditStringSelectionParam, LeaveEdit
<1> QED
  BY <1>1, <1>6, <1>7, EditFrame, SameName DEF MenuInv, NamePageHasName, nameVars, pageVars

LEMMA TypingKeeps ==
  ASSUME MenuInv, fault = "none", MoveRight \/ (\E up \in BOOLEAN : TurnWheel(up))
  PROVE  MenuInv'
<1>1. /\ pc = "edit" /\ pc' = "edit" /\ Selected.type = "string"
      /\ UNCHANGED <<pageVars, value, durationMax, currIdx, named, toMenu, naming, fault>>
  BY DEF MoveRight, TurnWheel, Editing
<1>2. Typing
  BY <1>1 DEF MenuInv, TypingOnName
<1>3. \E c \in 1 .. NumChars, i \in 1 .. NameLength :
        /\ \/ i = editStringIdx \/ i = editStringIdx + 1
        /\ \/ name' = [name EXCEPT ![i] = c] /\ characterSetIdx' = c
           \/ UNCHANGED <<name, characterSetIdx>> /\ name[i] # 0
        /\ editStringIdx' = i
  <2>1. ASSUME NEW up \in BOOLEAN, TurnWheel(up)
        PROVE  /\ characterSetIdx' \in 1 .. NumChars
               /\ name' = [name EXCEPT ![editStringIdx] = characterSetIdx']
               /\ editStringIdx' = editStringIdx
    BY <1>2, <2>1, NameAssumption DEF TurnWheel, Typing
  <2>2. ASSUME MoveRight, editStringIdx < NameLength, name[editStringIdx + 1] = 0
        PROVE  /\ characterSetIdx' = 1
               /\ name' = [name EXCEPT ![editStringIdx + 1] = 1]
               /\ editStringIdx' = editStringIdx + 1
               /\ editStringIdx + 1 \in 1 .. NameLength /\ 1 \in 1 .. NumChars
    BY <1>2, <2>2, NameAssumption DEF MoveRight, Typing
  <2>3. ASSUME MoveRight, ~(editStringIdx < NameLength /\ name[editStringIdx + 1] = 0)
        PROVE  /\ UNCHANGED <<name, characterSetIdx>>
               /\ editStringIdx' \in 1 .. NameLength /\ name[editStringIdx'] # 0
               /\ editStringIdx' = editStringIdx \/ editStringIdx' = editStringIdx + 1
    BY <1>2, <2>3, NameAssumption DEF MoveRight, Typing
  <2>4. editStringIdx \in 1 .. NameLength /\ characterSetIdx \in 1 .. NumChars
    BY <1>2 DEF Typing
  <2> QED
    BY <2>1, <2>2, <2>3, <2>4
<1>4. PICK c \in 1 .. NumChars, i \in 1 .. NameLength :
        /\ \/ i = editStringIdx \/ i = editStringIdx + 1
        /\ \/ name' = [name EXCEPT ![i] = c] /\ characterSetIdx' = c
           \/ UNCHANGED <<name, characterSetIdx>> /\ name[i] # 0
        /\ editStringIdx' = i
  BY <1>3
<1>5. name \in [1 .. NameLength -> 0 .. NumChars]
        /\ \A j, k \in 1 .. NameLength : j < k /\ name[k] # 0 => name[j] # 0
  BY DEF MenuInv, TypeOK, NameContiguous
<1>6. /\ name' \in [1 .. NameLength -> 0 .. NumChars]
      /\ characterSetIdx' \in 1 .. NumChars /\ editStringIdx' \in 1 .. NameLength
      /\ name'[editStringIdx'] # 0
  <2>1. c \in 0 .. NumChars /\ c # 0 /\ characterSetIdx \in 1 .. NumChars
    BY <1>2, NameAssumption DEF Typing
  <2>2. CASE name' = [name EXCEPT ![i] = c] /\ characterSetIdx' = c
    <3>1. name' \in [1 .. NameLength -> 0 .. NumChars] /\ name'[i] = c
      BY <1>5, <2>1, <2>2
    <3> QED
      BY <1>4, <2>1, <2>2, <3>1
  <2>3. CASE UNCHANGED <<name, characterSetIdx>> /\ name[i] # 0
    BY <1>4, <1>5, <2>1, <2>3
  <2> QED
    BY <1>4, <2>2, <2>3
<1>7. \A j \in 1 .. NameLength : name[j] # 0 => name'[j] # 0
  BY <1>4, <1>5, NameAssumption
<1>8. NameContiguous'
  <2>1. SUFFICES ASSUME NEW j \in 1 .. NameLength, NEW k \in 1 .. NameLength,
                        j < k, name'[k] # 0
                 PROVE  name'[j] # 0
    BY DEF NameContiguous
  <2>2. CASE name[k] # 0
    BY <2>1, <2>2, <1>5, <1>7
  <2>3. CASE name[k] = 0
    <3>1. k = i
      BY <2>1, <2>3, <1>4, <1>5
    <3>2. j <= editStringIdx /\ editStringIdx \in 1 .. NameLength /\ name[editStringIdx] # 0
      BY <2>1, <3>1, <1>2, <1>4, NameAssumption DEF Typing
    <3>3. name[j] # 0
      BY <3>2, <1>5
    <3> QED
      BY <3>3, <1>7
  <2> QED
    BY <2>2, <2>3
<1>9. TypeOK'
  <2>1. characterSetIdx' \in 0 .. NumChars /\ editStringIdx' \in 0 .. NameLength
    BY <1>6, NameAssumption
  <2>2. /\ files' \in FileLists /\ uniqueID' \in 0 .. LastUniqueID + 1
        /\ fileIdx' \in 1 .. Len(files') + 1
    BY <1>1 DEF MenuInv, TypeOK, naming
  <2> QED
    BY <1>1, <1>6, <2>1, <2>2 DEF MenuInv, TypeOK, pageVars
<1>10. NamePageHasName' /\ TypingOnName'
  BY <1>1, <1>6, <1>7, NameAssumption
     DEF MenuInv, NamePageHasName, TypingOnName, Typing, pageVars
<1> QED
  BY <1>1, <1>8, <1>9, <1>10, EditFrame DEF MenuInv, SearchUnderWay

-----------------------------------------------------------------------------
(* The rest of the loop.                                                   *)

LEMMA RedrawKeeps ==
  ASSUME MenuInv, fault = "none", pc = "announce", NEW page \in Pages, UpdateMenuPage(page),
         page = "new_project" => page = pageCode,
         value' \in [NumericParams -> Nat], durationMax' \in Nat,
         toMenu' \in {<<>>} \cup {<<m>> : m \in Announcements},
         UNCHANGED <<nameVars, wheel, naming>>
  PROVE  MenuInv'
<1>1. /\ pageCode' = page /\ menuPageBaseIdx' = BaseIdx(page)
      /\ selectableItems' = Cardinality(ItemsOf(page)) /\ currentItem' = 0
      /\ updateMenuPageFlag' = FALSE /\ pc' = "input" /\ fault' = fault
      /\ currIdx' \in {0, currIdx}
  BY DEF UpdateMenuPage, MenuInv, NamePageHasName
<1>2. /\ menuPageBaseIdx' \in 1 .. 16 /\ selectableItems' \in 1 .. 4
  BY <1>1, PageItems DEF Pages
<1>3. PageShown'
  BY <1>1, <1>2 DEF PageShown
<1>4. TypeOK'
  <2>1. /\ menuPageBaseIdx' \in DOMAIN MenuData
        /\ {selectableItems', currentItem'} \subseteq 0 .. Len(MenuData)
    BY <1>1, <1>2, TableFits
  <2>2. currIdx' \in 0 .. QuantItems - 1
    BY <1>1, LimitsAssumption DEF MenuInv, TypeOK
  <2>3. /\ named' \in BOOLEAN /\ name' \in [1 .. NameLength -> 0 .. NumChars]
        /\ characterSetIdx' \in 0 .. NumChars /\ editStringIdx' \in 0 .. NameLength
    BY DEF MenuInv, TypeOK, nameVars, wheel
  <2>4. /\ files' \in FileLists /\ uniqueID' \in 0 .. LastUniqueID + 1
        /\ fileIdx' \in 1 .. Len(files') + 1
    BY DEF MenuInv, TypeOK, naming
  <2> QED
    BY <1>1, <2>1, <2>2, <2>3, <2>4 DEF TypeOK
<1>5. NamePageHasName' /\ TypingOnName' /\ HaltsOnLastCharacterOnly' /\ DefaultNameIsFree'
  BY <1>1 DEF MenuInv, NamePageHasName, TypingOnName, HaltsOnLastCharacterOnly,
              DefaultNameIsFree, nameVars
<1> QED
  BY <1>1, <1>3, <1>4, <1>5, SameName DEF MenuInv, nameVars

LEMMA LoopKeeps ==
  ASSUME MenuInv, fault = "none", TakeAnnouncement \/ NoAnnouncement
  PROVE  MenuInv'
<1>1. CASE TakeAnnouncement
  <2>1. PICK m \in Announcements : toMenu = <<m>>
    BY <1>1 DEF TakeAnnouncement, MenuInv, TypeOK
  <2>2. /\ value' = [value EXCEPT !["note"] = m.note, !["velocity"] = m.velocity,
                                  !["duration"] = m.duration]
        /\ durationMax' = m.max
    BY <1>1, <2>1 DEF TakeAnnouncement
  <2>3. m.note \in Nat /\ m.velocity \in Nat /\ m.duration \in Nat /\ m.max \in Nat
    BY <2>1, LimitsAssumption
  <2>4. value' \in [NumericParams -> Nat] /\ durationMax' \in Nat
    BY <2>2, <2>3 DEF MenuInv, TypeOK
  <2>5. /\ UpdateMenuPage("note_edit") /\ pc = "announce" /\ toMenu' = <<>>
        /\ UNCHANGED <<nameVars, wheel, naming>> /\ "note_edit" \in Pages
        /\ "note_edit" # "new_project"
    BY <1>1 DEF TakeAnnouncement, Pages
  <2> QED
    BY <2>4, <2>5, RedrawKeeps
<1>2. CASE NoAnnouncement /\ updateMenuPageFlag
  <2>1. /\ UpdateMenuPage(pageCode) /\ pc = "announce" /\ pageCode \in Pages
        /\ UNCHANGED <<value, durationMax, nameVars, wheel, toMenu, naming>>
    BY <1>2 DEF NoAnnouncement, MenuInv, TypeOK
  <2>2. value' \in [NumericParams -> Nat] /\ durationMax' \in Nat
          /\ toMenu' \in {<<>>} \cup {<<m>> : m \in Announcements}
    BY <2>1 DEF MenuInv, TypeOK
  <2> QED
    BY <2>1, <2>2, RedrawKeeps
<1>3. CASE NoAnnouncement /\ ~updateMenuPageFlag
  <2>1. /\ pc = "announce" /\ pc' = "input" /\ UNCHANGED <<pageVars, currIdx, fault>>
        /\ UNCHANGED <<value, durationMax, nameVars, wheel, toMenu, naming>>
    BY <1>3 DEF NoAnnouncement
  <2>2. TypeOK' /\ PageShown' /\ ~updateMenuPageFlag'
    BY <1>3, <2>1 DEF MenuInv, TypeOK, PageShown, pageVars, nameVars, wheel, naming
  <2> QED
    BY <2>1, <2>2, SameName
       DEF MenuInv, NamePageHasName, TypingOnName, HaltsOnLastCharacterOnly,
           DefaultNameIsFree, nameVars, pageVars
<1> QED
  BY <1>1, <1>2, <1>3

LEMMA OutsideKeeps ==
  ASSUME MenuInv, UNCHANGED vars \/ (\E m \in Announcements : Announce(m))
  PROVE  MenuInv'
<1>1. UNCHANGED <<pageVars, pc, value, durationMax, currIdx, nameVars, wheel, naming, fault>>
  BY DEF vars, Announce
<1>2. toMenu' \in {<<>>} \cup {<<m>> : m \in Announcements}
  BY DEF Announce, vars, MenuInv, TypeOK
<1>3. TypeOK' /\ (~updateMenuPageFlag' => PageShown')
  BY <1>1, <1>2 DEF MenuInv, TypeOK, PageShown, pageVars, nameVars, wheel, naming
<1>4. NamePageHasName' /\ HaltsOnLastCharacterOnly'
  BY <1>1 DEF MenuInv, NamePageHasName, HaltsOnLastCharacterOnly, nameVars, pageVars
<1>5. Selected' = Selected
  BY <1>1 DEF Selected, pageVars
<1>6. TypingOnName' /\ DefaultNameIsFree'
  BY <1>1, <1>5 DEF MenuInv, TypingOnName, Typing, DefaultNameIsFree, Taken, nameVars, pageVars, wheel, naming
<1> QED
  BY <1>1, <1>3, <1>4, <1>6, SameName DEF MenuInv, pageVars, nameVars

LEMMA NextInv == MenuInv /\ [Next]_vars => MenuInv'
<1> SUFFICES ASSUME MenuInv, [Next]_vars PROVE MenuInv'
  OBVIOUS
<1>1. CASE UserInput
  BY <1>1, IdleInput, SelectItemKeeps, EnterEditKeeps, ParamsKeep, TypingKeeps DEF UserInput
<1>2. CASE Loop
  BY <1>2, ParamsKeep, SearchKeeps, LoopKeeps DEF Loop
<1> QED
  BY <1>1, <1>2, OutsideKeeps DEF Next

-----------------------------------------------------------------------------
LEMMA InvImplies == MenuInv => MenuSound /\ DefaultNameIsFree
<1> SUFFICES ASSUME MenuInv PROVE MenuSound /\ DefaultNameIsFree
  OBVIOUS
<1>1. IndicatorOnPage
  BY ShownFacts DEF MenuInv, TypeOK, IndicatorOnPage
<1> QED
  BY <1>1 DEF MenuInv, MenuSound

(* The indicator stands on the page that is drawn, a name has no hole, and *)
(* the menu halts only on a name that starts with the last character       *)
(* (menu.c:187 indexes the items, 709 and after edits the name).           *)
THEOREM MenuStaysSound == Spec => []MenuSound
<1>1. MenuInv /\ [Next]_vars => MenuInv'
  BY NextInv
<1>2. Init => MenuInv
  BY InitInv
<1>3. MenuInv => MenuSound
  BY InvImplies
<1> QED
  BY <1>1, <1>2, <1>3, PTL DEF Spec

(* The search of createDefaultProjectName (menu.c:933-949) ends with the   *)
(* first default name that no file has, whichever files there are and in   *)
(* whatever order, and does not give up.                                   *)
THEOREM NewNameIsFree == Spec => []DefaultNameIsFree
<1>1. MenuInv /\ [Next]_vars => MenuInv'
  BY NextInv
<1>2. Init => MenuInv
  BY InitInv
<1>3. MenuInv => DefaultNameIsFree
  BY InvImplies
<1> QED
  BY <1>1, <1>2, <1>3, PTL DEF Spec
=============================================================================
