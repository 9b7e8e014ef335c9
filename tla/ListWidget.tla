----------------------------- MODULE ListWidget -----------------------------
(***************************************************************************)
(* imtui's List: rows that are added and cleared, a selection that the     *)
(* program moves, and the window of rows that is drawn around it.  Rows    *)
(* are counted from 0; of a row only its number of columns matters.        *)
(***************************************************************************)
EXTENDS Integers, Sequences, FiniteSetsExt

CONSTANTS NoRow,     \* selection: None
          Columns,   \* numbers of columns of a row
          MaxRows,   \* bound on the rows
          Steps,     \* arguments of increment_selection and decrement_selection
          Sizes      \* dimensions it is drawn in

ASSUME RowsAssumption  == Columns \subseteq Nat /\ MaxRows \in Nat /\ Steps \subseteq Nat /\ NoRow \notin Nat
ASSUME SizesAssumption == Sizes \subseteq [x : Nat, y : Nat]

VARIABLES data,       \* the number of columns of each row
          selection,
          cleared,    \* has nothing repaired the selection since clear()
          screen,     \* dimension of the last draw
          shown,      \* the rows it drew
          status      \* "fine", "drawn" or "panic"

vars == <<data, selection, cleared, screen, shown, status>>

LIST_SCROLLBAR_WIDTH == 1
LIST_SELECTION_WIDTH == 1

column_count == Max({0} \union {data[i] : i \in DOMAIN data})

(* Mutant: the width counts neither the text nor the selection. *)
min_space_narrow == [x |-> column_count + LIST_SCROLLBAR_WIDTH, y |-> 5]

min_space == [x |-> column_count * 5 + 1 + LIST_SCROLLBAR_WIDTH, y |-> 5]

NoScreen == [x |-> 0, y |-> 0]
-----------------------------------------------------------------------------
Init ==
    /\ data = <<>>
    /\ selection = NoRow
    /\ cleared = FALSE
    /\ screen = NoScreen
    /\ shown = {}
    /\ status = "fine"

Changed == status # "panic" /\ status' = "fine" /\ shown' = {} /\ screen' = NoScreen

(* The selection is kept. *)
clear ==
    /\ Changed
    /\ data' = <<>>
    /\ cleared' = TRUE
    /\ UNCHANGED selection

add_row(n) ==
    /\ Changed
    /\ Len(data) < MaxRows
    /\ data' = Append(data, n)
    /\ UNCHANGED <<selection, cleared>>

increment_selection(incr) ==
    /\ Changed
    /\ selection' = IF data = <<>> THEN NoRow
                     ELSE IF selection = NoRow THEN 0
                     ELSE Min({selection + incr, Len(data) - 1})
    /\ cleared' = FALSE
    /\ UNCHANGED data

(* It does not look at the number of rows. *)
decrement_selection(incr) ==
    /\ Changed
    /\ selection' = IF data = <<>> THEN NoRow
                     ELSE IF selection = NoRow THEN 0
                     ELSE Max({selection - incr, 0})
    /\ cleared' = (cleared /\ data # <<>> /\ selection # NoRow)
    /\ UNCHANGED data

(* Mutant: the selection is kept at the bottom of the window. *)
first_row_bottom(dim) ==
    LET s == IF selection = NoRow THEN 0 ELSE selection IN Max({0, s - dim.y + 1})

(* The selection is kept in the middle of the window. *)
first_row(dim) ==
    LET s == IF selection = NoRow THEN 0 ELSE selection IN Max({0, s - dim.y \div 2})

(* Mutant: one row more than there are. *)
rows_drawn_over(dim) == first_row(dim)..Min({Len(data), first_row(dim) + dim.y - 1})

(* Rows start_rel_y up to, not including, end_rel_y. *)
rows_drawn(dim) == first_row(dim)..(Min({Len(data), first_row(dim) + dim.y - 1}) - 1)

(* usize arithmetic panics below 0; the width is divided by the columns,   *)
(* and a cell's width is made one less when the first is drawn.            *)
draw_panics(dim) ==
    LET width == dim.x - LIST_SCROLLBAR_WIDTH - LIST_SELECTION_WIDTH IN
    \/ width < 0
    \/ column_count = 0
    \/ first_row(dim) + dim.y < 1
    \/ width \div column_count < 1 /\ \E i \in rows_drawn(dim) : data[i + 1] > 0

draw(dim) ==
    /\ status # "panic"
    /\ screen' = dim
    /\ IF draw_panics(dim)
         THEN status' = "panic" /\ shown' = {}
         ELSE status' = "drawn" /\ shown' = rows_drawn(dim)
    /\ UNCHANGED <<data, selection, cleared>>

Next ==
    \/ clear
    \/ \E n \in Columns : add_row(n)
    \/ \E incr \in Steps : increment_selection(incr) \/ decrement_selection(incr)
    \/ \E dim \in Sizes : draw(dim)

Spec == Init /\ [][Next]_vars
-----------------------------------------------------------------------------
(* Types of the list and of what was drawn; only rows that exist are drawn. *)
TypeOK ==
    /\ data \in Seq(Columns) /\ Len(data) <= MaxRows
    /\ selection \in Nat \union {NoRow}
    /\ cleared \in BOOLEAN
    /\ screen \in Sizes \union {NoScreen}
    /\ shown \subseteq {i - 1 : i \in DOMAIN data}
    /\ status \in {"fine", "drawn", "panic"}

(* The selection is a row, so that a program may use it as an index, unless *)
(* clear() was called and no increment has moved the selection since.      *)
SelectionIsRow == ~cleared /\ selection # NoRow => selection < Len(data)

(* The selected row is among those drawn, wherever it is in the list, if   *)
(* the window is at least three lines high.                                *)
SelectionShown ==
    status = "drawn" /\ selection # NoRow /\ selection < Len(data) /\ screen.y >= 3 =>
        selection \in shown

(* The selection can be used as an index and is seen. *)
SelectionSound == SelectionIsRow /\ SelectionShown

(* With the space it asked for a list is drawn, unless no row has a column. *)
DrawnIfRoom ==
    status = "panic" =>
        column_count = 0 \/ screen.x < min_space.x \/ screen.y < min_space.y
=============================================================================
