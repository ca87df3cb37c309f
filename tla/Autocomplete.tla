----------------------------- MODULE Autocomplete -----------------------------
(* The autocomplete field of jQuery UI with the menu it opens: a key starts a  *)
(* timer that will search, leaving the field starts one that will close the   *)
(* menu, and the text of the field follows the item under the mouse or key.   *)
(* The source is an array, so that its answer comes within the search.        *)
EXTENDS Naturals, Sequences

CONSTANTS Texts,      \* what the field may hold
          EmptyText,  \* shorter than the option minLength, which is 1
          NoTerm,     \* element.val(undefined) reads and does not write
          Offers,     \* the items of the array that match a text
          MaxClosers  \* bound of the model: timers of blur pending at a time

ASSUME AutocompleteAssumption ==
    /\ EmptyText \in Texts /\ NoTerm \notin Texts
    /\ Offers \in [Texts -> Seq(Texts \ {EmptyText})] /\ MaxClosers \in Nat

VARIABLES field,      \* the value of the element
          term,       \* this.term
          searching,  \* whether the timer of searching is pending
          closers,    \* the timers of blur that are pending
          canCancel,  \* whether the last of them is still this.closing
          menuOpen,   \* whether this.menu is there
          menuItems,  \* its items
          activeItem, \* menu.active: a place in menuItems, or 0
          fieldHasFocus

autocompleteVars == <<field, term, searching, closers, canCancel, menuOpen, menuItems,
                      activeItem, fieldHasFocus>>

-----------------------------------------------------------------------------

AutocompleteInit ==
    /\ field = EmptyText /\ term = NoTerm
    /\ searching = FALSE /\ closers = 0 /\ canCancel = FALSE
    /\ menuOpen = FALSE /\ menuItems = <<>> /\ activeItem = 0
    /\ fieldHasFocus = FALSE

(* clearTimeout(this.closing): the timers that it named before go on.         *)
ClearClosing ==
    /\ closers' = IF canCancel THEN closers - 1 ELSE closers
    /\ canCancel' = FALSE

NoMenu == menuOpen' = FALSE /\ menuItems' = <<>> /\ activeItem' = 0

CloseMenu == ClearClosing /\ NoMenu

(* search with its answer: _search, the source, _response and _suggest.       *)
Search ==
    IF field = EmptyText THEN CloseMenu /\ UNCHANGED term
    ELSE /\ ClearClosing
         /\ term' = field
         /\ menuItems' = Offers[field] /\ activeItem' = 0
         /\ menuOpen' = (Offers[field] # <<>>)

(* A key of the default case; the field has its new value afterwards.         *)
TypeText(text) ==
    /\ fieldHasFocus /\ text # field
    /\ field' = text /\ searching' = TRUE
    /\ UNCHANGED <<term, closers, canCancel, menuOpen, menuItems, activeItem, fieldHasFocus>>

SearchNow ==
    /\ searching /\ searching' = FALSE
    /\ Search
    /\ UNCHANGED <<field, fieldHasFocus>>

(* menu.activate: the focus event of the menu writes the item to the field.   *)
Activate(i) == activeItem' = i /\ field' = menuItems[i]

(* The items that previous, next and the two pages go to from activeItem; how *)
(* many items a page has is the style sheet's matter.                         *)
Destinations(direction) ==
    LET last == Len(menuItems) IN
    CASE direction = "next" -> {IF activeItem = 0 THEN 1 ELSE activeItem + 1}
      [] direction = "previous" -> {IF activeItem = 0 THEN last ELSE activeItem - 1}
      [] direction = "nextPage" -> IF activeItem = 0 THEN {1} ELSE activeItem + 1 .. last
      [] direction = "previousPage" -> IF activeItem = 0 THEN {last} ELSE 1 .. activeItem - 1

AtTheEnd(direction) ==
    \/ activeItem = 1 /\ direction \in {"previous", "previousPage"}
    \/ activeItem = Len(menuItems) /\ activeItem # 0 /\ direction \in {"next", "nextPage"}

(* _move without a menu, at one end of it, and within it.                     *)
MoveOpens ==
    /\ fieldHasFocus /\ ~menuOpen
    /\ Search
    /\ UNCHANGED <<field, searching, fieldHasFocus>>

MoveOut(direction) ==
    /\ fieldHasFocus /\ menuOpen /\ AtTheEnd(direction)
    /\ field' = term /\ activeItem' = 0
    /\ UNCHANGED <<term, searching, closers, canCancel, menuOpen, menuItems, fieldHasFocus>>

MoveItem(direction) ==
    /\ fieldHasFocus /\ menuOpen /\ ~AtTheEnd(direction)
    /\ \E i \in Destinations(direction) : Activate(i)
    /\ UNCHANGED <<term, searching, closers, canCancel, menuOpen, menuItems, fieldHasFocus>>

(* mouseenter of an item.                                                     *)
HoverItem(i) ==
    /\ menuOpen /\ i # activeItem
    /\ Activate(i)
    /\ UNCHANGED <<term, searching, closers, canCancel, menuOpen, menuItems, fieldHasFocus>>

(* Enter or Tab, and a click: the mouse went down on the item and took the    *)
(* focus before.  Without an active item the click fails for lack of one.     *)
SelectByKey ==
    /\ fieldHasFocus /\ activeItem # 0
    /\ field' = menuItems[activeItem] /\ CloseMenu
    /\ UNCHANGED <<term, searching, fieldHasFocus>>

SelectByClick ==
    /\ ~fieldHasFocus /\ activeItem # 0
    /\ field' = menuItems[activeItem] /\ CloseMenu /\ fieldHasFocus' = TRUE
    /\ UNCHANGED <<term, searching>>

EscapeField ==
    /\ fieldHasFocus
    /\ field' = IF term = NoTerm THEN field ELSE term
    /\ CloseMenu
    /\ UNCHANGED <<term, searching, fieldHasFocus>>

FocusInput ==
    /\ ~fieldHasFocus /\ fieldHasFocus' = TRUE
    /\ UNCHANGED <<field, term, searching, closers, canCancel, menuOpen, menuItems, activeItem>>

BlurKeepsSearch ==
    /\ fieldHasFocus /\ closers < MaxClosers
    /\ closers' = closers + 1 /\ canCancel' = TRUE
    /\ fieldHasFocus' = FALSE
    /\ UNCHANGED <<field, term, searching, menuOpen, menuItems, activeItem>>

(* blur: no search any more, and the menu is to be closed in a while.         *)
Blur ==
    /\ fieldHasFocus /\ closers < MaxClosers
    /\ searching' = FALSE
    /\ closers' = closers + 1 /\ canCancel' = TRUE
    /\ fieldHasFocus' = FALSE
    /\ UNCHANGED <<field, term, menuOpen, menuItems, activeItem>>

(* The first of the timers of blur; close cancels the last, if another one.   *)
CloseLater ==
    /\ closers > 0
    /\ closers' = IF canCancel /\ closers > 1 THEN closers - 2 ELSE closers - 1
    /\ canCancel' = FALSE
    /\ NoMenu
    /\ UNCHANGED <<field, term, searching, fieldHasFocus>>

AutocompleteNext ==
    \/ \E text \in Texts : TypeText(text)
    \/ SearchNow \/ MoveOpens
    \/ \E direction \in {"next", "previous", "nextPage", "previousPage"} :
           MoveOut(direction) \/ MoveItem(direction)
    \/ \E i \in DOMAIN menuItems : HoverItem(i)
    \/ SelectByKey \/ SelectByClick \/ EscapeField
    \/ FocusInput \/ Blur \/ CloseLater

AutocompleteSpec == AutocompleteInit /\ [][AutocompleteNext]_autocompleteVars

-----------------------------------------------------------------------------
(* No menu is left open at a field that the user has left, and a menu belongs *)
(* to the text of its field: with no timer pending, the field shows the       *)
(* active item or else what was searched for.  A search that outlives the     *)
(* focus (the timer of keydown) would break it.                               *)
MenuBelongsToField ==
    menuOpen =>
        /\ fieldHasFocus \/ closers > 0
        /\ (~searching /\ closers = 0) =>
               field = IF activeItem = 0 THEN term ELSE menuItems[activeItem]

=============================================================================
