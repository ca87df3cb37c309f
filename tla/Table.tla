-------------------------------- MODULE Table --------------------------------
(* The list of a page, whose rows are filtered in the browser: a box above   *)
(* it searches the whole row and a box below each column searches that       *)
(* column.  The pages leave the order and the paging of DataTables off.      *)
(*                                                                           *)
(* A handler runs to its end.  A key that is pressed changes the box before  *)
(* the key is released, and the handlers only hear of the release, in the    *)
(* box that has the focus by then.                                           *)
EXTENDS Naturals, Sequences

CONSTANTS Columns,     \* the columns of the list, each with its box
          All,         \* the box of the whole row
          Prompt,      \* the text that invites to search in an empty box
          NoBox,
          Characters,  \* what texts are made of
          Space,       \* the character between words
          BoxTexts,    \* what is typed
          Data         \* the rows, each a text for each column

ASSUME TableAssumption ==
    /\ Columns # {} /\ All \notin Columns /\ NoBox \notin Columns \cup {All}
    /\ BoxTexts \subseteq Seq(Characters) /\ <<>> \in BoxTexts /\ Prompt \notin BoxTexts
    /\ Data \in Seq([Columns -> Seq(Characters)])

VARIABLES aiDisplay,        \* the rows that are displayed, in order
          asDataSearch,     \* the rows whose joined text is kept for a search
          sPreviousSearch,  \* the search of whole rows that was done last
          aoPreSearchCols,  \* the search of each column
          tbody,            \* the rows in the page
          value,            \* the text of each box
          focus,            \* the box that has the focus, or NoBox
          boxUnheard        \* history: the boxes changed since their last key up

tableVars == <<aiDisplay, asDataSearch, sPreviousSearch, aoPreSearchCols, tbody,
               value, focus, boxUnheard>>

Boxes == Columns \cup {All}

(* aiDisplayMaster: every row, in the order of the page.                   *)
aiDisplayMaster == [i \in 1..Len(Data) |-> i]

-----------------------------------------------------------------------------
(* Matching.  Case is folded and special characters are escaped.            *)

Occurs(t, s) == \E i \in 0..Len(s) : i + Len(t) <= Len(s) /\ SubSeq(s, i + 1, i + Len(t)) = t

IsPrefixOf(t, s) == Len(t) <= Len(s) /\ SubSeq(s, 1, Len(t)) = t

Words(t) ==
    LET spot(i) == i \in {0, Len(t) + 1} \/ t[i] = Space
    IN  {SubSeq(t, p[1] + 1, p[2] - 1) : p \in
           {p \in (0..Len(t)) \X (1..Len(t) + 1) :
              /\ p[1] < p[2] /\ spot(p[1]) /\ spot(p[2])
              /\ \A k \in p[1] + 1..p[2] - 1 : ~spot(k)}}

(* The expression of _fnFilter: each word is somewhere in the joined columns. *)
MatchesRow(t, r) == \A w \in Words(t) : \E c \in Columns : Occurs(w, Data[r][c])

MatchesColumn(t, r, c) == Occurs(t, Data[r][c])

-----------------------------------------------------------------------------
(* Filters.                                                                *)

(* Mutant of Narrows: any search for a longer text narrows the last one. *)
NarrowsAlways(t, force) == IsPrefixOf(sPreviousSearch, t)

(* _fnFilter.  A search that narrows the last one looks at the rows that are *)
(* displayed only, by the texts kept for them.                             *)
Narrows(t, force) ==
    /\ ~force
    /\ Len(aiDisplay) # Len(aiDisplayMaster)
    /\ IsPrefixOf(sPreviousSearch, t)

(* What a loop over the rows leaves of them: those at the positions K.      *)
KeptRows(rows, K) ==
    LET Upto[i \in 0..Len(rows)] ==
            IF i = 0 THEN <<>>
            ELSE IF i \in K THEN Append(Upto[i - 1], rows[i]) ELSE Upto[i - 1]
    IN  Upto[Len(rows)]

(* What splice leaves of the displayed rows, going by the texts.           *)
Narrowed(t) ==
    KeptRows(aiDisplay, {i \in 1..Len(aiDisplay) : i \in 1..Len(asDataSearch) =>
                                               MatchesRow(t, asDataSearch[i])})

Filter(t, force) ==
    IF t = <<>> THEN aiDisplayMaster
    ELSE IF Narrows(t, force) THEN Narrowed(t)
    ELSE KeptRows(aiDisplayMaster, {i \in 1..Len(Data) : MatchesRow(t, aiDisplayMaster[i])})

(* _fnFilterColumn, for every column.                                      *)
FilterColumns(rows, cols) ==
    KeptRows(rows, {i \in 1..Len(rows) :
                   \A c \in Columns : cols[c] # <<>> => MatchesColumn(cols[c], rows[i], c)})

FilterComplete(t, cols, force) ==
    /\ aiDisplay' = FilterColumns(Filter(t, force), cols)
    /\ sPreviousSearch' = t
    /\ aoPreSearchCols' = cols
    /\ tbody' = aiDisplay'
    /\ asDataSearch' = aiDisplay'

-----------------------------------------------------------------------------
(* The boxes.                                                              *)

TableInit ==
    /\ aiDisplay = aiDisplayMaster
    /\ tbody = aiDisplayMaster
    /\ asDataSearch = <<>>
    /\ sPreviousSearch = <<>>
    /\ aoPreSearchCols = [c \in Columns |-> <<>>]
    /\ value = [b \in Boxes |-> IF b = All THEN <<>> ELSE Prompt]
    /\ focus = NoBox
    /\ boxUnheard = {}

(* The box that loses the focus shows its prompt again when it is empty, and *)
(* the box that gets it loses its prompt.                                   *)
Blurred(b) == IF b \in Columns /\ value[b] = <<>> THEN Prompt ELSE value[b]

Focused(b) == IF b \in Columns /\ value[b] = Prompt THEN <<>> ELSE value[b]

MoveFocus(to) ==
    /\ focus # to
    /\ focus' = to
    /\ value' = [b \in Boxes |-> IF b = focus THEN Blurred(b)
                                 ELSE IF b = to THEN Focused(b) ELSE value[b]]
    /\ UNCHANGED <<aiDisplay, asDataSearch, sPreviousSearch, aoPreSearchCols, tbody, boxUnheard>>

(* A key, or the mouse, changes the box with the focus.                    *)
EditBox(t) ==
    /\ focus # NoBox
    /\ t # value[focus]
    /\ value' = [value EXCEPT ![focus] = t]
    /\ boxUnheard' = boxUnheard \cup {focus}
    /\ UNCHANGED <<aiDisplay, asDataSearch, sPreviousSearch, aoPreSearchCols, tbody, focus>>

(* A key is released: the search of whole rows, or fnFilter of a column.   *)
BoxKeyUp ==
    /\ focus # NoBox
    /\ IF focus = All THEN FilterComplete(value[All], aoPreSearchCols, FALSE)
       ELSE FilterComplete(sPreviousSearch, [aoPreSearchCols EXCEPT ![focus] = value[focus]], TRUE)
    /\ boxUnheard' = boxUnheard \ {focus}
    /\ UNCHANGED <<value, focus>>

TableNext ==
    \/ \E b \in Boxes \cup {NoBox} : MoveFocus(b)
    \/ \E t \in BoxTexts : EditBox(t)
    \/ BoxKeyUp

TableSpec == TableInit /\ [][TableNext]_tableVars

-----------------------------------------------------------------------------
(* Properties.                                                             *)

(* The rows in the page are those that match every box, in the order of the *)
(* list: a box that shows its prompt, or nothing, restricts nothing, and any *)
(* other restricts by what it shows, unless its text was changed and no key  *)
(* was released in it since.  A search that is made longer looks at the rows *)
(* left by the last one only (_fnFilter), and focus and blur of list.js swap *)
(* the prompt of a box and never its search.                                *)
ShowsWhatIsSearched ==
    LET shown(b) == IF value[b] = Prompt THEN <<>> ELSE value[b]
        searched(b) == IF b \notin boxUnheard THEN shown(b)
                       ELSE IF b = All THEN sPreviousSearch ELSE aoPreSearchCols[b]
        test(r) == /\ MatchesRow(searched(All), r)
                   /\ \A c \in Columns : MatchesColumn(searched(c), r, c)
    IN  /\ {tbody[i] : i \in DOMAIN tbody} = {r \in 1..Len(Data) : test(r)}
        /\ \A i, j \in DOMAIN tbody : i < j => tbody[i] < tbody[j]

=============================================================================
