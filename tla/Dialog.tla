-------------------------------- MODULE Dialog --------------------------------
(* The dialogs of jQuery UI: a modal dialog lays an overlay over what is     *)
(* below it and lets the document take events for what is above all overlays *)
(* only.  All dialogs share the list of overlays and two counters of heights. *)
EXTENDS Integers, Sequences, SequencesExt

CONSTANTS Dialogs,
          Modal,        \* the dialogs with the option modal
          BaseZ,        \* the option zIndex of all of them
          NoDialog,
          HighestZ,     \* bound of the model: no dialog is put above it
          MaxTimers     \* bound of the model: timers of create pending at a time

ASSUME DialogAssumption ==
    /\ IsFiniteSet(Dialogs) /\ Modal \subseteq Dialogs /\ NoDialog \notin Dialogs
    /\ BaseZ \in Nat /\ HighestZ \in Nat /\ MaxTimers \in Nat

VARIABLES isOpen,      \* the dialogs that are open
          zIndex,      \* the height of each dialog
          overlays,    \* the dialogs that were given an overlay when opened last
          instances,   \* overlay.instances: the heights of the overlays
          overlayMaxZ, \* overlay.maxZ
          maxZ,        \* dialog.maxZ
          binding,     \* the timers that will bind the handler of the document
          blocking,    \* whether that handler is bound
          onEscape     \* the dialog that Escape in the document closes

dialogVars == <<isOpen, zIndex, overlays, instances, overlayMaxZ, maxZ, binding, blocking,
                onEscape>>

-----------------------------------------------------------------------------

State == [open |-> isOpen, z |-> zIndex, overlays |-> overlays, instances |-> instances,
          overlayMaxZ |-> overlayMaxZ, maxZ |-> maxZ, binding |-> binding,
          blocking |-> blocking, onEscape |-> onEscape]

StateIs(s) ==
    /\ isOpen' = s.open /\ zIndex' = s.z /\ overlays' = s.overlays
    /\ instances' = s.instances /\ overlayMaxZ' = s.overlayMaxZ /\ maxZ' = s.maxZ
    /\ binding' = s.binding /\ blocking' = s.blocking /\ onEscape' = s.onEscape

(* overlay.create: the first overlay binds the handlers of the document, the  *)
(* one that blocks a little later.                                          *)
Create(s, d) ==
    LET c == [s EXCEPT !.instances = Append(@, 0), !.overlays = @ \cup {d}] IN
    IF s.instances = <<>> THEN [c EXCEPT !.binding = @ + 1, !.onEscape = d] ELSE c

(* moveToTop: the overlay and the dialog are put above all dialogs.        *)
MoveToTop(s, d) ==
    LET top == Max({s.maxZ, BaseZ}) IN
    IF d \in s.overlays
    THEN [s EXCEPT !.instances = Append(Front(@), top + 1), !.overlayMaxZ = top + 1,
                   !.z[d] = top + 2, !.maxZ = top + 2]
    ELSE [s EXCEPT !.z[d] = top + 1, !.maxZ = top + 1]

(* overlay.destroy takes the last overlay from the list, whichever it is to  *)
(* take: inArray is called with its arguments exchanged.                    *)
Destroy(s) ==
    LET left == IF s.instances = <<>> THEN <<>> ELSE Front(s.instances) IN
    [s EXCEPT !.instances = left,
              !.overlayMaxZ = Max({0} \cup ToSet(left)),
              !.blocking = @ /\ left # <<>>,
              !.onEscape = IF left = <<>> THEN NoDialog ELSE @]

(* close does not ask whether the dialog is open.                          *)
Closed(s, d) ==
    LET c == IF d \in s.overlays THEN Destroy(s) ELSE s IN
    [c EXCEPT !.open = @ \ {d},
              !.maxZ = IF d \in Modal THEN Max({c.z[e] : e \in Dialogs \ {d}} \cup {0}) ELSE @]

-----------------------------------------------------------------------------

DialogInit ==
    /\ isOpen = {} /\ overlays = {} /\ instances = <<>>
    /\ zIndex = [d \in Dialogs |-> BaseZ]
    /\ overlayMaxZ = 0 /\ maxZ = 0
    /\ binding = 0 /\ blocking = FALSE
    /\ onEscape = NoDialog

Open(d) ==
    /\ d \notin isOpen
    /\ Max({maxZ, BaseZ}) + 2 <= HighestZ /\ binding < MaxTimers
    /\ LET s == IF d \in Modal THEN Create(State, d) ELSE State IN
       StateIs([MoveToTop(s, d) EXCEPT !.open = @ \cup {d}])

CloseDialog(d) == StateIs(Closed(State, d))

(* The mouse is pressed in a dialog that no overlay lies upon.             *)
Press(d) ==
    /\ d \in isOpen \ Modal
    /\ \A e \in isOpen \cap Modal : zIndex[d] > zIndex[e]
    /\ Max({maxZ, BaseZ}) + 1 <= HighestZ
    /\ StateIs(MoveToTop(State, d))

(* Escape, in a dialog or outside of all: the dialog with the focus closes   *)
(* itself, and the key comes to the document.                               *)
ClosedByDocument(s) == IF s.onEscape = NoDialog THEN s ELSE Closed(s, s.onEscape)

PressEscape ==
    \/ \E d \in isOpen : StateIs(ClosedByDocument(Closed(State, d)))
    \/ onEscape # NoDialog /\ StateIs(ClosedByDocument(State))

(* Mutant of BindLater: the timer does not look whether a dialog is left. *)
BindAlways ==
    /\ binding > 0
    /\ StateIs([State EXCEPT !.binding = @ - 1, !.blocking = TRUE])

(* The timer of create: the dialog may have been closed meanwhile.         *)
BindLater ==
    /\ binding > 0
    /\ StateIs([State EXCEPT !.binding = @ - 1, !.blocking = @ \/ instances # <<>>])

DialogNext ==
    \/ \E d \in Dialogs : Open(d) \/ CloseDialog(d) \/ Press(d)
    \/ PressEscape
    \/ BindLater

DialogSpec == DialogInit /\ [][DialogNext]_dialogVars

-----------------------------------------------------------------------------
(* Properties.                                                             *)

(* A page without an open modal dialog is not blocked, however the dialogs   *)
(* were opened and closed before the timer of the first came ("handle       *)
(* $(el).dialog().dialog('close')") and although overlays are mixed up.  And  *)
(* the modal dialog that was put on top takes events: it is above the height  *)
(* up to which the document blocks them.                                    *)
DialogsAreUsable ==
    /\ isOpen \cap Modal = {} => ~blocking /\ instances = <<>>
    /\ \A d \in isOpen \cap Modal :
          (\A e \in isOpen \cap Modal : zIndex[e] <= zIndex[d]) => zIndex[d] > overlayMaxZ
=============================================================================
