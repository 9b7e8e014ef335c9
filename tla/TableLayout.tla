----------------------------- MODULE TableLayout -----------------------------
(***************************************************************************)
(* imtui's TableLayout: a program adds widgets to cells, gives the last    *)
(* one weights and a border, and draws the table to a terminal.            *)
(***************************************************************************)
EXTENDS LayoutTable

CONSTANTS Widgets,
          Positions,   \* cells that widgets are added to
          Expands,     \* arguments of expand()
          Borders,     \* arguments of border()
          Dimensions   \* sizes of the terminal

ASSUME WidgetsAssumption  == None \notin Widgets /\ MinSpace \in [Widgets -> [Axes -> Nat]]
ASSUME PositionAssumption == Positions \subseteq [Axes -> Nat \ {0}] /\ None \notin Positions
ASSUME SizesAssumption    == Expands \union Borders \union Dimensions \subseteq [Axes -> Nat]

VARIABLES rows,
          cell_properties,
          last_added,
          screen,    \* dimension it was drawn in
          drawn,     \* where it drew the widgets
          status     \* "fine", or why the program panicked

table == <<rows, cell_properties, last_added>>
vars  == <<table, screen, drawn, status>>

Panics == {"cell is not free", "no item", "underflow"}
Added  == {w \in Widgets : \E r \in DOMAIN rows : \E c \in DOMAIN rows[r] : rows[r][c] = w}
Occupied == {i \in (1..Len(rows)) \X (1..max_cols_in_row(rows)) : rows[i[1]][i[2]] # None}

Panic(why) == status' = why /\ UNCHANGED <<table, screen, drawn>>
-----------------------------------------------------------------------------
Init ==
    /\ rows = <<>> /\ cell_properties = <<>>
    /\ last_added = None
    /\ screen = Zero
    /\ drawn = <<>>
    /\ status = "fine"

(* Mutant: the position is remembered counted from 0. *)
AddFromZero(w, p) ==
    /\ status = "fine"
    /\ w \notin Added
    /\ IF is_cell_free(rows, p)
         THEN /\ rows' = [make_table_fit(rows, rows, None, p) EXCEPT ![p.y][p.x] = w]
              /\ cell_properties' = make_table_fit(rows, cell_properties, Property, p)
              /\ last_added' = [x |-> p.x - 1, y |-> p.y]
              /\ UNCHANGED <<screen, drawn, status>>
         ELSE Panic("cell is not free")

(* A widget is borrowed by the table, so that it is added only once. *)
Add(w, p) ==
    /\ status = "fine"
    /\ w \notin Added
    /\ IF is_cell_free(rows, p)
         THEN /\ rows' = [make_table_fit(rows, rows, None, p) EXCEPT ![p.y][p.x] = w]
              /\ cell_properties' = make_table_fit(rows, cell_properties, Property, p)
              /\ last_added' = p
              /\ UNCHANGED <<screen, drawn, status>>
         ELSE Panic("cell is not free")

Expand(e) ==
    /\ status = "fine"
    /\ IF last_added # None
         THEN /\ cell_properties' = [cell_properties EXCEPT ![last_added.y][last_added.x].expand = e]
              /\ UNCHANGED <<rows, last_added, screen, drawn, status>>
         ELSE Panic("no item")

Border(b) ==
    /\ status = "fine"
    /\ IF last_added # None
         THEN /\ cell_properties' = [cell_properties EXCEPT ![last_added.y][last_added.x].border = b]
              /\ UNCHANGED <<rows, last_added, screen, drawn, status>>
         ELSE Panic("no item")

(* The programs make a new layout for every drawing. *)
Draw(dim) ==
    /\ status = "fine"
    /\ screen' = dim
    /\ IF Underflows(rows, cell_properties, dim)
         THEN status' = "underflow" /\ UNCHANGED drawn
         ELSE /\ status' = "drawn"
              /\ drawn' = [w \in Added |->
                              LET i == CHOOSE j \in Occupied : rows[j[1]][j[2]] = w
                              IN  Place(rows, cell_properties, dim, i[1], i[2])]
    /\ UNCHANGED table

Next ==
    \/ \E w \in Widgets, p \in Positions : Add(w, p)
    \/ \E e \in Expands : Expand(e)
    \/ \E b \in Borders : Border(b)
    \/ \E dim \in Dimensions : Draw(dim)

Spec == Init /\ [][Next]_vars
-----------------------------------------------------------------------------
(* Types of the layout and of what it drew. *)
TypeOK ==
    /\ \A r \in DOMAIN rows : \A c \in DOMAIN rows[r] : rows[r][c] \in Widgets \union {None}
    /\ \A r \in DOMAIN cell_properties : \A c \in DOMAIN cell_properties[r] :
           cell_properties[r][c] \in [expand : Expands \union {Zero}, border : Borders \union {Zero}]
    /\ last_added \in Positions \union {None}
    /\ screen \in Dimensions \union {Zero}
    /\ status \in Panics \union {"fine", "drawn"}

(* All rows have the same number of columns and every cell its properties, *)
(* whatever the order of the positions: is_cell_free and expand_cells look *)
(* at the first row's length only.                                         *)
Rectangular ==
    /\ Len(cell_properties) = Len(rows)
    /\ \A r \in DOMAIN rows :
           Len(rows[r]) = Len(rows[1]) /\ Len(cell_properties[r]) = Len(rows[r])

(* Weights and borders go to a cell with a widget in it, and only such     *)
(* cells have any: an empty cell would count the border in no minimum.     *)
PropertiesOfWidgets ==
    /\ last_added # None => rows[last_added.y][last_added.x] # None
    /\ \A r \in DOMAIN rows : \A c \in DOMAIN rows[r] :
           rows[r][c] = None => cell_properties[r][c] = Property

(* In whatever order cells are filled, the table fits what draw expects. *)
TableConsistent == Rectangular /\ PropertiesOfWidgets

End(place, a) == place.pos[a] + place.size[a] + place.border[a]

(* Nothing is drawn outside the terminal: the shares of the free space are *)
(* rounded so that they never add up to more than there is.                *)
DrawnInside == \A w \in DOMAIN drawn : \A a \in Axes : End(drawn[w], a) <= screen[a]

(* No widget is drawn over another one or its border. *)
DrawnApart ==
    \A v, w \in DOMAIN drawn : v # w =>
        \E a \in Axes :
            End(drawn[v], a) <= drawn[w].pos[a] \/ End(drawn[w], a) <= drawn[v].pos[a]

(* A border never takes the space its widget asked for. *)
DrawnRoomy == \A w \in DOMAIN drawn : \A a \in Axes : drawn[w].size[a] >= MinSpace[w][a]

(* Widgets are drawn inside, apart and as large as they asked. *)
DrawnInPlace == DrawnInside /\ DrawnApart /\ DrawnRoomy

(* Drawing fails in a terminal that is too small for the minimal sizes and *)
(* in no other.                                                            *)
PanicOnlyWhenSmall ==
    status = "underflow" =>
        \E a \in Axes : screen[a] < Total(collect_min_size(rows, cell_properties, a))

(* Rounding leaves less space unused than there are expanding columns or   *)
(* rows.                                                                   *)
SpaceUsed ==
    \A a \in Axes :
        LET w == Weights(rows, cell_properties, a) IN
        status = "drawn" /\ Total(w) > 0 =>
            screen[a] - Total(expand_cells(rows, cell_properties, screen, a))
                < Cardinality({k \in DOMAIN w : w[k] > 0})
=============================================================================
