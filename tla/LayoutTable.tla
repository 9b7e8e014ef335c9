----------------------------- MODULE LayoutTable -----------------------------
(***************************************************************************)
(* The arithmetic of imtui's TableLayout: how a table is made to fit a     *)
(* position, which size its columns and rows need, how free space is       *)
(* distributed, and where each widget is drawn.  A table is a sequence of  *)
(* rows; columns and rows are counted from 1.                              *)
(***************************************************************************)
EXTENDS Integers, Sequences, FiniteSetsExt

CONSTANTS None,      \* an empty cell
          MinSpace   \* min_space() of each widget

Axes == {"x", "y"}
Zero == [x |-> 0, y |-> 0]
Property == [expand |-> Zero, border |-> Zero]   \* TableLayoutCellProperty::new

Largest(S) == Max({0} \union S)

max_cols_in_row(rows) == Largest({Len(rows[r]) : r \in DOMAIN rows})

is_cell_free(rows, p) ==
    \/ p.y > Len(rows)
    \/ p.x > Len(rows[1])
    \/ rows[p.y][p.x] = None

(* Mutant: only the row of the position is made longer. *)
make_row_fit(rows, table, fill, p) ==
    LET cols     == Largest({max_cols_in_row(rows), p.x})
        padded   == [r \in 1..Largest({Len(rows), p.y}) |-> IF r <= Len(rows) THEN table[r] ELSE <<>>]
        Missing(r) == [c \in 1..(IF r = p.y THEN cols - Len(padded[r]) ELSE 0) |-> fill]
    IN  [r \in DOMAIN padded |-> padded[r] \o Missing(r)]
(* Every row is filled up with "fill" to the same number of columns. *)
make_table_fit(rows, table, fill, p) ==
    LET cols     == Largest({max_cols_in_row(rows), p.x})
        padded   == [r \in 1..Largest({Len(rows), p.y}) |-> IF r <= Len(rows) THEN table[r] ELSE <<>>]
        Missing(row) == [c \in 1..(cols - Len(row)) |-> fill]
    IN  [r \in DOMAIN padded |-> padded[r] \o Missing(padded[r])]
-----------------------------------------------------------------------------
(* The cells of column k (axis x) or of row k (axis y). *)
Cells(rows, a, k) ==
    IF a = "x" THEN {<<r, k>> : r \in DOMAIN rows} ELSE {<<k, c>> : c \in 1..max_cols_in_row(rows)}

Tracks(rows, a) == IF a = "x" THEN 1..max_cols_in_row(rows) ELSE 1..Len(rows)

(* What the first k columns or rows take together, for every k. *)
Used(cells) ==
    LET used[k \in 0..Len(cells)] == IF k = 0 THEN 0 ELSE used[k - 1] + cells[k]
    IN  used

Total(cells) == Used(cells)[Len(cells)]

(* collect_min_size without the borders, a mutant. *)
collect_bare_size(rows, props, a) ==
    [k \in Tracks(rows, a) |->
        Largest({MinSpace[rows[i[1]][i[2]]][a] : i \in {j \in Cells(rows, a, k) : rows[j[1]][j[2]] # None}})]

collect_min_size(rows, props, a) ==
    [k \in Tracks(rows, a) |->
        Largest({MinSpace[rows[i[1]][i[2]]][a] + props[i[1]][i[2]].border[a] :
                     i \in {j \in Cells(rows, a, k) : rows[j[1]][j[2]] # None}})]

(* How much of the free space each column or row asks for. *)
Weights(rows, props, a) ==
    [k \in Tracks(rows, a) |-> Largest({props[i[1]][i[2]].expand[a] : i \in Cells(rows, a, k)})]

(* Mutant: each column or row gets its share of one. *)
expand_cells_each(rows, props, dim, a) ==
    LET min   == collect_min_size(rows, props, a)
        delta == dim[a] - Total(min)
        w     == Weights(rows, props, a)
    IN  [k \in DOMAIN min |->
            IF Total(w) > 0 THEN min[k] + (delta \div Total(w)) * w[k] ELSE min[k]]

expand_cells(rows, props, dim, a) ==
    LET min   == collect_min_size(rows, props, a)
        delta == dim[a] - Total(min)
        w     == Weights(rows, props, a)
    IN  [k \in DOMAIN min |->
            IF Total(w) > 0 THEN min[k] + (delta * w[k]) \div Total(w) ELSE min[k]]

(* usize arithmetic panics where it would become negative. *)
Underflows(rows, props, dim) ==
    \E a \in Axes :
        \/ dim[a] < Total(collect_min_size(rows, props, a))
        \/ \E k \in Tracks(rows, a) : \E i \in Cells(rows, a, k) :
               expand_cells(rows, props, dim, a)[k] < props[i[1]][i[2]].border[a]

(* Mutant: the offset is set to the cell before instead of adding it. *)
BeforeLast(cells, k) == IF k = 1 THEN 0 ELSE cells[k - 1]

Before(cells, k) == Used(cells)[k - 1]

(* The cell of row r and column c: where its widget is drawn, how large,   *)
(* and the border to its right and below it.                               *)
Place(rows, props, dim, r, c) ==
    LET width  == expand_cells(rows, props, dim, "x")
        height == expand_cells(rows, props, dim, "y")
        border == props[r][c].border
    IN  [ pos    |-> [x |-> Before(width, c), y |-> Before(height, r)],
          size   |-> [x |-> width[c] - border.x, y |-> height[r] - border.y],
          border |-> border ]
=============================================================================
