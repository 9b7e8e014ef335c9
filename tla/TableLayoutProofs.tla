-------------------------- MODULE TableLayoutProofs --------------------------
(* Proofs about TableLayout, for any widgets, positions, weights, borders  *)
(* and terminals.                                                          *)
EXTENDS TableLayout, TLAPS, SequenceTheorems, FiniteSetTheorems, WellFoundedInduction

LEMMA LenOfGrid ==
  ASSUME NEW n \in Nat, NEW S, NEW t \in [1..n -> S]
  PROVE  t \in Seq(S) /\ Len(t) = n /\ DOMAIN t = 1..n
OBVIOUS

Larger(a, b) == IF a >= b THEN a ELSE b

LEMMA LargestOfTwo ==
  ASSUME NEW a \in Nat, NEW b \in Nat
  PROVE  Largest({a, b}) = Larger(a, b)
<1>1. {0} \union {a, b} = {0, a, b}
  OBVIOUS
<1>2. \A x \in {0, a, b} : (\A y \in {0, a, b} : x >= y) <=> x = Larger(a, b)
  BY DEF Larger
<1>3. Larger(a, b) \in {0, a, b}
  BY DEF Larger
<1> QED
  BY <1>1, <1>2, <1>3 DEF Largest, Max

LEMMA LargestOfOne ==
  ASSUME NEW a \in Nat
  PROVE  Largest({a}) = a
<1>1. \A x \in {0, a} : (\A y \in {0, a} : x >= y) <=> x = a
  OBVIOUS
<1>2. {0} \union {a} = {0, a}
  OBVIOUS
<1> QED
  BY <1>1, <1>2 DEF Largest, Max

LEMMA LargestOfNone == Largest({}) = 0
<1>1. {0} \union {} = {0}
  OBVIOUS
<1> QED
  BY <1>1 DEF Largest, Max

LEMMA MaxCols ==
  ASSUME NEW h \in Nat, NEW n \in Nat, h = 0 => n = 0, NEW S, NEW t \in [1..h -> [1..n -> S]]
  PROVE  max_cols_in_row(t) = n
<1> DEFINE L == {Len(t[r]) : r \in DOMAIN t}
<1>1. \A r \in 1..h : Len(t[r]) = n
  BY LenOfGrid
<1>2. CASE h = 0
  <2>1. L = {}
    BY <1>2
  <2> QED
    BY <1>2, <2>1, LargestOfNone DEF max_cols_in_row
<1>3. CASE h # 0
  <2>1. L = {n}
    BY <1>1, <1>3
  <2> QED
    BY <2>1, LargestOfOne DEF max_cols_in_row
<1> QED
  BY <1>2, <1>3

IsGrid(t, h, n, S) == t \in [1..h -> [1..n -> S]]

(* f is a grid of h rows and n columns that holds u and "fill" around it. *)
IsGrown(f, u, h, n, T, fill, p) ==
    /\ f \in [1..Larger(h, p.y) -> [1..Larger(n, p.x) -> T]]
    /\ \A r \in 1..Larger(h, p.y) : \A c \in 1..Larger(n, p.x) :
           f[r][c] = IF r <= h /\ c <= n THEN u[r][c] ELSE fill

(* Making the table fit leaves a full grid that holds the old one. *)
LEMMA Fit ==
  ASSUME NEW h \in Nat, NEW n \in Nat, h = 0 => n = 0,
         NEW S, NEW t, IsGrid(t, h, n, S),
         NEW T, NEW u, IsGrid(u, h, n, T), NEW fill \in T,
         NEW p, p.x \in Nat, p.y \in Nat
  PROVE  IsGrown(make_table_fit(t, u, fill, p), u, h, n, T, fill, p)
<1> USE DEF IsGrid
<1> DEFINE cols == Largest({max_cols_in_row(t), p.x})
           hh   == Larger(h, p.y)
           padded == [r \in 1..Largest({Len(t), p.y}) |-> IF r <= Len(t) THEN u[r] ELSE <<>>]
           Missing(row) == [c \in 1..(cols - Len(row)) |-> fill]
           fit  == make_table_fit(t, u, fill, p)
<1>1. Len(t) = h /\ max_cols_in_row(t) = n
  <2>1. Len(t) = h
    BY LenOfGrid
  <2>2. max_cols_in_row(t) = n
    BY MaxCols
  <2> QED
    BY <2>1, <2>2
<1>2. cols = Larger(n, p.x) /\ Largest({Len(t), p.y}) = hh
  BY <1>1, LargestOfTwo
<1>3. cols \in Nat /\ cols >= n /\ hh \in Nat /\ hh >= h
  BY <1>2 DEF Larger
<1>4. fit = [r \in DOMAIN padded |-> padded[r] \o Missing(padded[r])]
  BY DEF make_table_fit
<1>5. padded = [r \in 1..hh |-> IF r <= h THEN u[r] ELSE <<>>]
  BY <1>1, <1>2
<1> HIDE DEF padded, cols, hh, fit
<1>6. ASSUME NEW row \in Seq(T), Len(row) <= cols
      PROVE  /\ row \o Missing(row) \in [1..cols -> T]
             /\ \A c \in 1..cols : (row \o Missing(row))[c] = IF c <= Len(row) THEN row[c] ELSE fill
  <2> DEFINE k == cols - Len(row)
             m == Missing(row)
  <2>1. k \in Nat /\ Len(row) \in Nat /\ Len(row) + k = cols
    BY <1>3, <1>6
  <2>2. m \in [1..k -> T] /\ \A c \in 1..k : m[c] = fill
    OBVIOUS
  <2>3. m \in Seq(T) /\ Len(m) = k
    BY <2>1, <2>2, LenOfGrid
  <2> HIDE DEF m, k
  <2>4. /\ row \o m \in Seq(T) /\ Len(row \o m) = cols
        /\ \A c \in 1..cols : (row \o m)[c] = IF c <= Len(row) THEN row[c] ELSE m[c - Len(row)]
    BY <1>6, <2>1, <2>3, ConcatProperties
  <2>5. row \o m \in [1..cols -> T]
    BY <1>3, <2>4, LenProperties
  <2>6. \A c \in 1..cols : c > Len(row) => m[c - Len(row)] = fill
    BY <1>3, <2>1, <2>2
  <2>7. \A c \in 1..cols : (row \o m)[c] = IF c <= Len(row) THEN row[c] ELSE fill
    BY <1>3, <2>1, <2>4, <2>6
  <2> QED
    BY <2>5, <2>7 DEF m
<1>7. ASSUME NEW r \in 1..hh
      PROVE  /\ padded[r] \in Seq(T) /\ Len(padded[r]) = IF r <= h THEN n ELSE 0
             /\ r <= h => padded[r] = u[r]
  <2>1. CASE r <= h
    <3>1. r \in 1..h
      BY <1>3, <2>1
    <3>2. u[r] \in [1..n -> T]
      BY <3>1
    <3>3. padded[r] = u[r]
      BY <1>5, <2>1
    <3> QED
      BY <2>1, <3>2, <3>3, LenOfGrid
  <2>2. CASE ~(r <= h)
    BY <1>5, <2>2
  <2> QED
    BY <2>1, <2>2
<1>8. fit = [r \in 1..hh |-> padded[r] \o Missing(padded[r])]
  BY <1>4, <1>5
<1> HIDE DEF Missing
<1>9. ASSUME NEW r \in 1..hh
      PROVE  /\ fit[r] \in [1..cols -> T]
             /\ \A c \in 1..cols : fit[r][c] = IF r <= h /\ c <= n THEN u[r][c] ELSE fill
  <2>1. Len(padded[r]) <= cols /\ padded[r] \in Seq(T)
    BY <1>3, <1>7
  <2>2. fit[r] = padded[r] \o Missing(padded[r])
    BY <1>8
  <2>3. /\ fit[r] \in [1..cols -> T]
        /\ \A c \in 1..cols : fit[r][c] = IF c <= Len(padded[r]) THEN padded[r][c] ELSE fill
    BY <1>6, <2>1, <2>2
  <2>4. ASSUME NEW c \in 1..cols PROVE fit[r][c] = IF r <= h /\ c <= n THEN u[r][c] ELSE fill
    <3>1. CASE r <= h
      BY <1>7, <2>3, <3>1
    <3>2. CASE ~(r <= h)
      <4>1. ~(c <= Len(padded[r]))
        BY <1>3, <1>7, <3>2
      <4> QED
        BY <2>3, <3>2, <4>1
    <3> QED
      BY <3>1, <3>2
  <2> QED
    BY <2>3, <2>4
<1> QED
  BY <1>2, <1>8, <1>9 DEF hh, fit, IsGrown

-----------------------------------------------------------------------------
(* The rows and the properties are two grids of the same size; that the    *)
(* size is the same is what every index in the code relies on.             *)
Cell     == Widgets \union {None}
PropertyType == [expand : Expands \union {Zero}, border : Borders \union {Zero}]

IsTable(h, n) ==
    /\ h = 0 => n = 0
    /\ rows \in [1..h -> [1..n -> Cell]]
    /\ cell_properties \in [1..h -> [1..n -> PropertyType]]
    /\ last_added # None =>
          /\ last_added \in Positions /\ last_added.y \in 1..h /\ last_added.x \in 1..n
          /\ rows[last_added.y][last_added.x] # None
    /\ \A r \in 1..h : \A c \in 1..n : rows[r][c] = None => cell_properties[r][c] = Property

TableInv == \E h, n \in Nat : IsTable(h, n)

OtherTypes ==
    /\ screen \in Dimensions \union {Zero}
    /\ status \in Panics \union {"fine", "drawn"}

LEMMA LayoutInit == Init => TableInv /\ OtherTypes
<1> SUFFICES ASSUME Init PROVE TableInv /\ OtherTypes
  OBVIOUS
<1>1. rows = <<>> /\ cell_properties = <<>> /\ last_added = None
  BY DEF Init
<1>2. rows \in [1..0 -> [1..0 -> Cell]] /\ cell_properties \in [1..0 -> [1..0 -> PropertyType]]
  BY <1>1
<1>3. IsTable(0, 0)
  BY <1>1, <1>2 DEF IsTable
<1> QED
  BY <1>3 DEF TableInv, OtherTypes, Init

LEMMA LayoutStep == TableInv /\ OtherTypes /\ [Next]_vars => TableInv' /\ OtherTypes'
<1> SUFFICES ASSUME TableInv, OtherTypes, [Next]_vars PROVE TableInv' /\ OtherTypes'
  OBVIOUS
<1>1. PICK h \in Nat, n \in Nat : IsTable(h, n)
  BY DEF TableInv
<1>2. ASSUME UNCHANGED table PROVE TableInv'
  <2>1. IsTable(h, n)'
    BY <1>1, <1>2 DEF table, IsTable
  <2> QED
    BY <2>1 DEF TableInv
<1>3. ASSUME NEW why \in Panics, Panic(why) PROVE TableInv' /\ OtherTypes'
  BY <1>2, <1>3 DEF Panic, OtherTypes
<1>4. ASSUME NEW w \in Widgets, NEW p \in Positions, Add(w, p) PROVE TableInv' /\ OtherTypes'
  <2>1. CASE ~is_cell_free(rows, p)
    BY <1>3, <1>4, <2>1 DEF Add, Panics
  <2>2. CASE is_cell_free(rows, p)
    <3> DEFINE hh  == Larger(h, p.y)
               nn  == Larger(n, p.x)
               fit == make_table_fit(rows, rows, None, p)
               fitp == make_table_fit(rows, cell_properties, Property, p)
    <3>1. p.x \in Nat \ {0} /\ p.y \in Nat \ {0} /\ p # None
      BY PositionAssumption DEF PositionAssumption, Axes
    <3>2. /\ fit \in [1..hh -> [1..nn -> Cell]]
          /\ \A r \in 1..hh : \A c \in 1..nn : fit[r][c] = IF r <= h /\ c <= n THEN rows[r][c] ELSE None
      <4>1. None \in Cell
        BY DEF Cell
      <4>2. h = 0 => n = 0
        BY <1>1 DEF IsTable
      <4>3. IsGrid(rows, h, n, Cell)
        BY <1>1 DEF IsTable, IsGrid
      <4>4. p.x \in Nat
        BY <3>1
      <4>5. p.y \in Nat
        BY <3>1
      <4>7. IsGrown(fit, rows, h, n, Cell, None, p)
        BY <4>1, <4>2, <4>3, <4>4, <4>5, Fit, Zenon
      <4> QED
        BY <4>7 DEF IsGrown
    <3>3. /\ fitp \in [1..hh -> [1..nn -> PropertyType]]
          /\ \A r \in 1..hh : \A c \in 1..nn :
                 fitp[r][c] = IF r <= h /\ c <= n THEN cell_properties[r][c] ELSE Property
      <4>1. Property \in PropertyType
        BY DEF Property, PropertyType
      <4>2. h = 0 => n = 0
        BY <1>1 DEF IsTable
      <4>3. IsGrid(rows, h, n, Cell)
        BY <1>1 DEF IsTable, IsGrid
      <4>4. p.x \in Nat
        BY <3>1
      <4>5. p.y \in Nat
        BY <3>1
      <4>6. IsGrid(cell_properties, h, n, PropertyType)
        BY <1>1 DEF IsTable, IsGrid
      <4>7. IsGrown(fitp, cell_properties, h, n, PropertyType, Property, p)
        BY <4>1, <4>2, <4>3, <4>4, <4>5, <4>6, Fit, Zenon
      <4> QED
        BY <4>7 DEF IsGrown
    <3>4. hh \in Nat /\ nn \in Nat /\ p.y \in 1..hh /\ p.x \in 1..nn /\ hh # 0
      BY <3>1 DEF Larger
    <3> HIDE DEF hh, nn, fit, fitp
    <3>5. /\ rows' = [fit EXCEPT ![p.y][p.x] = w] /\ cell_properties' = fitp /\ last_added' = p
          /\ UNCHANGED <<screen, drawn, status>>
      BY <1>4, <2>2 DEF Add, fit, fitp
    <3>6. w \in Cell /\ w # None
      BY WidgetsAssumption DEF WidgetsAssumption, Cell
    <3>7. /\ rows' \in [1..hh -> [1..nn -> Cell]]
          /\ \A r \in 1..hh : \A c \in 1..nn :
                 rows'[r][c] = IF r = p.y /\ c = p.x THEN w ELSE fit[r][c]
      BY <3>2, <3>4, <3>5, <3>6
    <3>8. \A r \in 1..hh : \A c \in 1..nn : rows'[r][c] = None => cell_properties'[r][c] = Property
      <4> SUFFICES ASSUME NEW r \in 1..hh, NEW c \in 1..nn, rows'[r][c] = None
                   PROVE  fitp[r][c] = Property
        BY <3>5
      <4>1. fit[r][c] = None
        BY <3>6, <3>7
      <4>2. CASE r <= h /\ c <= n
        <5>1. r \in 1..h /\ c \in 1..n /\ rows[r][c] = None
          BY <3>2, <3>4, <4>1, <4>2
        <5>2. cell_properties[r][c] = Property
          BY <1>1, <5>1 DEF IsTable
        <5> QED
          BY <3>3, <4>2, <5>2
      <4>3. CASE ~(r <= h /\ c <= n)
        BY <3>3, <4>3
      <4> QED
        BY <4>2, <4>3
    <3>9. rows'[last_added'.y][last_added'.x] # None
      BY <3>4, <3>5, <3>6, <3>7
    <3>10. IsTable(hh, nn)'
      BY <3>3, <3>4, <3>5, <3>7, <3>8, <3>9 DEF IsTable
    <3> QED
      BY <3>4, <3>5, <3>10 DEF TableInv, OtherTypes
  <2> QED
    BY <2>1, <2>2
<1>5. ASSUME NEW q \in PropertyType, last_added # None,
             cell_properties' = [cell_properties EXCEPT ![last_added.y][last_added.x] = q],
             UNCHANGED <<rows, last_added, screen, drawn, status>>
      PROVE  TableInv' /\ OtherTypes'
  <2>1. /\ rows \in [1..h -> [1..n -> Cell]] /\ cell_properties \in [1..h -> [1..n -> PropertyType]]
        /\ last_added.y \in 1..h /\ last_added.x \in 1..n /\ rows[last_added.y][last_added.x] # None
    BY <1>1, <1>5 DEF IsTable
  <2> DEFINE y == last_added.y
             x == last_added.x
  <2>2. /\ cell_properties' \in [1..h -> [1..n -> PropertyType]]
        /\ \A r \in 1..h : \A c \in 1..n :
               cell_properties'[r][c] = IF r = y /\ c = x THEN q ELSE cell_properties[r][c]
    <3> HIDE DEF y, x
    <3>1. y \in 1..h /\ x \in 1..n /\ cell_properties' = [cell_properties EXCEPT ![y][x] = q]
      BY <1>5, <2>1 DEF y, x
    <3> QED
      BY <1>5, <2>1, <3>1
  <2>3. \A r \in 1..h : \A c \in 1..n : rows'[r][c] = None => cell_properties'[r][c] = Property
    BY <1>1, <1>5, <2>1, <2>2 DEF IsTable
  <2>4. IsTable(h, n)'
    BY <1>1, <1>5, <2>2, <2>3 DEF IsTable
  <2> QED
    BY <1>5, <2>4 DEF TableInv, OtherTypes
<1>6. ASSUME last_added # None
      PROVE  cell_properties[last_added.y][last_added.x] \in PropertyType
  <2>1. /\ cell_properties \in [1..h -> [1..n -> PropertyType]]
        /\ last_added.y \in 1..h /\ last_added.x \in 1..n
    BY <1>1, <1>6 DEF IsTable
  <2> QED
    BY <2>1
<1>7. ASSUME NEW e \in Expands, Expand(e) PROVE TableInv' /\ OtherTypes'
  <2>1. CASE last_added = None
    BY <1>3, <1>7, <2>1 DEF Expand, Panics
  <2>2. CASE last_added # None
    <3> DEFINE q == [cell_properties[last_added.y][last_added.x] EXCEPT !.expand = e]
    <3>1. q \in PropertyType
      BY <1>6, <2>2 DEF PropertyType
    <3>2. /\ cell_properties' = [cell_properties EXCEPT ![last_added.y][last_added.x].expand = e]
          /\ UNCHANGED <<rows, last_added, screen, drawn, status>>
      BY <1>7, <2>2 DEF Expand
    <3>3. cell_properties' = [cell_properties EXCEPT ![last_added.y][last_added.x] = q]
      BY <3>2
    <3> QED
      BY <1>5, <2>2, <3>1, <3>2, <3>3
  <2> QED
    BY <2>1, <2>2
<1>8. ASSUME NEW b \in Borders, Border(b) PROVE TableInv' /\ OtherTypes'
  <2>1. CASE last_added = None
    BY <1>3, <1>8, <2>1 DEF Border, Panics
  <2>2. CASE last_added # None
    <3> DEFINE q == [cell_properties[last_added.y][last_added.x] EXCEPT !.border = b]
    <3>1. q \in PropertyType
      BY <1>6, <2>2 DEF PropertyType
    <3>2. /\ cell_properties' = [cell_properties EXCEPT ![last_added.y][last_added.x].border = b]
          /\ UNCHANGED <<rows, last_added, screen, drawn, status>>
      BY <1>8, <2>2 DEF Border
    <3>3. cell_properties' = [cell_properties EXCEPT ![last_added.y][last_added.x] = q]
      BY <3>2
    <3> QED
      BY <1>5, <2>2, <3>1, <3>2, <3>3
  <2> QED
    BY <2>1, <2>2
<1>9. ASSUME NEW dim \in Dimensions, Draw(dim) PROVE TableInv' /\ OtherTypes'
  <2>1. UNCHANGED table /\ screen' = dim /\ status' \in {"underflow", "drawn"}
    BY <1>9 DEF Draw
  <2> QED
    BY <1>2, <2>1 DEF OtherTypes, Panics
<1>10. CASE UNCHANGED vars
  BY <1>2, <1>10 DEF vars, OtherTypes
<1> QED
  BY <1>4, <1>7, <1>8, <1>9, <1>10 DEF Next

LEMMA TableShape ==
  ASSUME TableInv, OtherTypes
  PROVE  TypeOK /\ Rectangular /\ PropertiesOfWidgets
<1>1. PICK h \in Nat, n \in Nat : IsTable(h, n)
  BY DEF TableInv
<1>2. rows \in [1..h -> [1..n -> Cell]] /\ cell_properties \in [1..h -> [1..n -> PropertyType]]
  BY <1>1 DEF IsTable
<1>3. Len(rows) = h /\ Len(cell_properties) = h
  BY <1>2, LenOfGrid
<1>4. \A r \in 1..h : /\ Len(rows[r]) = n /\ Len(cell_properties[r]) = n
                      /\ DOMAIN rows[r] = 1..n /\ DOMAIN cell_properties[r] = 1..n
  BY <1>2, LenOfGrid
<1>5. DOMAIN rows = 1..h /\ DOMAIN cell_properties = 1..h
  BY <1>2
<1>6. Rectangular
  <2> SUFFICES ASSUME NEW r \in 1..h PROVE Len(rows[r]) = Len(rows[1]) /\ Len(cell_properties[r]) = Len(rows[r])
    BY <1>3, <1>5 DEF Rectangular
  <2>1. 1 \in 1..h
    OBVIOUS
  <2> QED
    BY <1>4, <2>1
<1>7. PropertiesOfWidgets
  BY <1>1, <1>4, <1>5 DEF PropertiesOfWidgets, IsTable
<1>8. TypeOK
  <2>1. \A r \in 1..h : \A c \in 1..n : rows[r][c] \in Cell /\ cell_properties[r][c] \in PropertyType
    BY <1>2
  <2>2. last_added \in Positions \union {None}
    BY <1>1 DEF IsTable
  <2> QED
    BY <1>4, <1>5, <2>1, <2>2 DEF TypeOK, OtherTypes, Cell, PropertyType
<1> QED
  BY <1>6, <1>7, <1>8

(* Every reachable layout is well typed. *)
THEOREM LayoutTypeCorrect == Spec => []TypeOK
BY LayoutInit, LayoutStep, TableShape, PTL DEF Spec

(* In whatever order cells are filled, all rows have the same length and   *)
(* every cell has its properties, which belong to widgets.                 *)
THEOREM AlwaysConsistent == Spec => []TableConsistent
BY LayoutInit, LayoutStep, TableShape, PTL DEF Spec, TableConsistent

-----------------------------------------------------------------------------
(* Every set of natural numbers with an element has a least one, and so    *)
(* one that has 0 and the successor of each of its numbers has them all.   *)
LEMMA Least == ASSUME NEW T, T \subseteq Nat, T # {} PROVE \E x \in T : \A y \in T : x <= y
<1>1. PICK x \in T : \A y \in T : <<y, x>> \notin OpToRel(<, Nat)
  BY WFMin, NatLessThanWellFounded, Zenon
<1>2. \A y \in T : ~(y < x)
  BY <1>1 DEF OpToRel
<1> QED
  BY <1>2

LEMMA Induct ==
  ASSUME NEW T, 0 \in T, \A n \in Nat : n \in T => n + 1 \in T
  PROVE  \A n \in Nat : n \in T
<1> DEFINE Missing == Nat \ T
<1> SUFFICES ASSUME Missing # {} PROVE FALSE
  OBVIOUS
<1>1. PICK n \in Missing : \A m \in Missing : n <= m
  BY Least
<1>2. n # 0
  OBVIOUS
<1>3. n - 1 \in Nat
  BY <1>2
<1>4. n - 1 \notin Missing
  BY <1>1, <1>3
<1>5. (n - 1) + 1 = n
  OBVIOUS
<1>6. n \in T
  BY <1>3, <1>4, <1>5
<1> QED
  BY <1>6

-----------------------------------------------------------------------------
(* What the running sum of draw and of iter().sum() is: the recursion has  *)
(* a solution, and so Used is one.                                         *)
IsUsed(f, cells, n) == f = [k \in 0..n |-> IF k = 0 THEN 0 ELSE f[k - 1] + cells[k]]

LEMMA UsedExists ==
  ASSUME NEW m \in Nat, NEW cells \in [1..m -> Nat]
  PROVE  \A n \in Nat : n <= m => \E f : IsUsed(f, cells, n)
<1> DEFINE T == {n \in Nat : n <= m => \E f : IsUsed(f, cells, n)}
<1>1. 0 \in T
  <2> DEFINE f == [k \in 0..0 |-> 0]
  <2>1. IsUsed(f, cells, 0)
    BY DEF IsUsed
  <2> QED
    BY <2>1
<1>2. ASSUME NEW n \in Nat, n \in T PROVE n + 1 \in T
  <2> SUFFICES ASSUME n + 1 <= m PROVE \E f : IsUsed(f, cells, n + 1)
    OBVIOUS
  <2>1. PICK f : IsUsed(f, cells, n)
    BY <1>2
  <2> DEFINE g == [k \in 0..(n + 1) |-> IF k = n + 1 THEN f[n] + cells[n + 1] ELSE f[k]]
  <2>2. f = [k \in 0..n |-> IF k = 0 THEN 0 ELSE f[k - 1] + cells[k]]
    BY <2>1 DEF IsUsed
  <2>3. ASSUME NEW k \in 0..(n + 1) PROVE g[k] = IF k = 0 THEN 0 ELSE g[k - 1] + cells[k]
    <3>1. CASE k = n + 1
      <4>1. k # 0 /\ k - 1 = n /\ n # n + 1 /\ n \in 0..(n + 1)
        BY <3>1
      <4> QED
        BY <3>1, <4>1
    <3>2. CASE k # n + 1
      <4>1. k \in 0..n /\ (k # 0 => k - 1 \in 0..(n + 1) /\ k - 1 # n + 1)
        BY <3>2
      <4>2. f[k] = IF k = 0 THEN 0 ELSE f[k - 1] + cells[k]
        BY <2>2, <4>1
      <4> QED
        BY <3>2, <4>1, <4>2
    <3> QED
      BY <3>1, <3>2
  <2>4. IsUsed(g, cells, n + 1)
    <3> DEFINE h == [k \in 0..(n + 1) |-> IF k = 0 THEN 0 ELSE g[k - 1] + cells[k]]
    <3>1. DOMAIN g = 0..(n + 1) /\ g = [k \in 0..(n + 1) |-> g[k]]
      OBVIOUS
    <3> HIDE DEF g
    <3>2. g = h
      BY <2>3, <3>1
    <3> QED
      BY <3>2 DEF IsUsed
  <2> QED
    BY <2>4
<1> HIDE DEF T
<1>3. \A n \in Nat : n \in T
  BY <1>1, <1>2, Induct
<1> QED
  BY <1>3 DEF T

LEMMA UsedIs ==
  ASSUME NEW n \in Nat, NEW cells \in [1..n -> Nat]
  PROVE  /\ Used(cells) \in [0..n -> Nat] /\ Used(cells)[0] = 0
         /\ \A k \in 1..n : Used(cells)[k] = Used(cells)[k - 1] + cells[k]
         /\ Len(cells) = n
<1> DEFINE U == Used(cells)
<1>1. Len(cells) = n
  BY LenOfGrid
<1>2. IsUsed(U, cells, n)
  <2>1. \E f : IsUsed(f, cells, n)
    BY UsedExists
  <2>2. U = CHOOSE f : IsUsed(f, cells, n)
    BY <1>1 DEF Used, IsUsed
  <2> QED
    BY <2>1, <2>2, Zenon
<1> HIDE DEF U
<1>3. U = [k \in 0..n |-> IF k = 0 THEN 0 ELSE U[k - 1] + cells[k]]
  BY <1>2 DEF IsUsed
<1>4. U[0] = 0 /\ \A k \in 1..n : U[k] = U[k - 1] + cells[k]
  BY <1>3
<1> DEFINE T == {k \in Nat : k <= n => U[k] \in Nat}
<1>5. 0 \in T
  BY <1>4
<1>6. ASSUME NEW k \in Nat, k \in T PROVE k + 1 \in T
  <2> SUFFICES ASSUME k + 1 <= n PROVE U[k + 1] \in Nat
    OBVIOUS
  <2>1. k + 1 \in 1..n /\ (k + 1) - 1 = k /\ U[k] \in Nat
    BY <1>6
  <2>2. U[k + 1] = U[k] + cells[k + 1] /\ cells[k + 1] \in Nat
    BY <1>4, <2>1
  <2> QED
    BY <2>1, <2>2
<1> HIDE DEF T
<1>7. \A k \in Nat : k \in T
  BY <1>5, <1>6, Induct
<1>8. \A k \in 0..n : U[k] \in Nat
  BY <1>7 DEF T
<1>9. U \in [0..n -> Nat]
  BY <1>3, <1>8
<1> QED
  BY <1>1, <1>4, <1>9 DEF U

(* The sum grows with every column or row. *)
LEMMA UsedGrows ==
  ASSUME NEW n \in Nat, NEW cells \in [1..n -> Nat]
  PROVE  \A i, k \in 0..n : i <= k => Used(cells)[i] <= Used(cells)[k]
<1> DEFINE U == Used(cells)
<1>1. U \in [0..n -> Nat] /\ \A k \in 1..n : U[k] = U[k - 1] + cells[k]
  BY UsedIs
<1> HIDE DEF U
<1> SUFFICES ASSUME NEW i \in 0..n PROVE \A k \in 0..n : i <= k => U[i] <= U[k]
  BY DEF U
<1> DEFINE T == {k \in Nat : i <= k /\ k <= n => U[i] <= U[k]}
<1>2. 0 \in T
  BY <1>1
<1>3. ASSUME NEW k \in Nat, k \in T PROVE k + 1 \in T
  <2> SUFFICES ASSUME i <= k + 1, k + 1 <= n PROVE U[i] <= U[k + 1]
    OBVIOUS
  <2>1. CASE i = k + 1
    BY <1>1, <2>1
  <2>2. CASE i <= k
    <3>1. U[i] <= U[k] /\ k + 1 \in 1..n /\ (k + 1) - 1 = k /\ k \in 0..n
      BY <1>3, <2>2
    <3>2. U[k + 1] = U[k] + cells[k + 1] /\ cells[k + 1] \in Nat /\ U[k] \in Nat /\ U[i] \in Nat
      BY <1>1, <3>1
    <3> QED
      BY <3>1, <3>2
  <2> QED
    BY <2>1, <2>2
<1> HIDE DEF T
<1>4. \A k \in Nat : k \in T
  BY <1>2, <1>3, Induct
<1> QED
  BY <1>4 DEF T

(* Sums are added by adding what is summed. *)
LEMMA TotalAdds ==
  ASSUME NEW n \in Nat, NEW a \in [1..n -> Nat], NEW b \in [1..n -> Nat],
         NEW c \in [1..n -> Nat], \A k \in 1..n : c[k] = a[k] + b[k]
  PROVE  Total(c) = Total(a) + Total(b)
<1> DEFINE A == Used(a)
           B == Used(b)
           C == Used(c)
<1>2. /\ A \in [0..n -> Nat] /\ A[0] = 0 /\ \A k \in 1..n : A[k] = A[k - 1] + a[k]
      /\ B \in [0..n -> Nat] /\ B[0] = 0 /\ \A k \in 1..n : B[k] = B[k - 1] + b[k]
      /\ C \in [0..n -> Nat] /\ C[0] = 0 /\ \A k \in 1..n : C[k] = C[k - 1] + c[k]
  BY UsedIs
<1>3. Len(a) = n /\ Len(b) = n /\ Len(c) = n
  BY LenOfGrid
<1> HIDE DEF A, B, C
<1> DEFINE T == {k \in Nat : k <= n => C[k] = A[k] + B[k]}
<1>4. 0 \in T
  BY <1>2
<1>5. ASSUME NEW k \in Nat, k \in T PROVE k + 1 \in T
  <2> SUFFICES ASSUME k + 1 <= n PROVE C[k + 1] = A[k + 1] + B[k + 1]
    OBVIOUS
  <2>1. k + 1 \in 1..n /\ (k + 1) - 1 = k /\ k \in 0..n /\ C[k] = A[k] + B[k]
    BY <1>5
  <2>2. /\ A[k + 1] = A[k] + a[k + 1] /\ B[k + 1] = B[k] + b[k + 1] /\ C[k + 1] = C[k] + c[k + 1]
        /\ c[k + 1] = a[k + 1] + b[k + 1]
    BY <1>2, <2>1
  <2>3. A[k] \in Nat /\ B[k] \in Nat /\ a[k + 1] \in Nat /\ b[k + 1] \in Nat
    BY <1>2, <2>1
  <2> QED
    BY <2>1, <2>2, <2>3
<1> HIDE DEF T
<1>6. \A k \in Nat : k \in T
  BY <1>4, <1>5, Induct
<1>7. C[n] = A[n] + B[n]
  BY <1>6 DEF T
<1> QED
  BY <1>3, <1>7 DEF A, B, C, Total

LEMMA Distribute == \A a, b, c \in Nat : a * (b + c) = (a * b) + (a * c)
BY SMT

LEMMA Product == \A a, b \in Nat : a * b \in Nat
BY SMT

(* One more share, rounded down: what is lost is less than one of m. *)
LEMMA OneShare ==
  ASSUME NEW d \in Nat, NEW m \in Nat, NEW u \in Nat, NEW w \in Nat, NEW t \in Nat, NEW s \in Nat, NEW c \in Nat,
         m >= 1, m * t <= d * u, d * u <= (m * t) + ((m - 1) * c),
         m * s <= d * w, d * w <= (m * s) + (IF w > 0 THEN m - 1 ELSE 0)
  PROVE  /\ m * (t + s) <= d * (u + w)
         /\ d * (u + w) <= (m * (t + s)) + ((m - 1) * (c + (IF w > 0 THEN 1 ELSE 0)))
<1>1. d * (u + w) = (d * u) + (d * w) /\ m * (t + s) = (m * t) + (m * s)
  BY Distribute
<1>2. (m - 1) * (c + 1) = ((m - 1) * c) + (m - 1)
  BY SMT
<1>3. m * t \in Nat /\ d * u \in Nat /\ m * s \in Nat /\ d * w \in Nat /\ (m - 1) * c \in Nat
  BY Product
<1>4. CASE w > 0
  BY <1>1, <1>2, <1>3, <1>4
<1>5. CASE ~(w > 0)
  <2>1. c + 0 = c
    OBVIOUS
  <2> QED
    BY <1>1, <1>3, <1>5, <2>1
<1> QED
  BY <1>4, <1>5

(* What is lost altogether. *)
LEMMA AllShares ==
  ASSUME NEW d \in Nat, NEW m \in Nat, NEW t \in Nat, NEW c \in Nat,
         m >= 1, c >= 1, m * t <= d * m, d * m <= (m * t) + ((m - 1) * c)
  PROVE  t <= d /\ d - t < c
BY SMT

LEMMA Rounded ==
  \A x \in Nat, m \in Nat \ {0} :
      /\ x \div m \in Nat /\ m * (x \div m) <= x /\ x <= (m * (x \div m)) + (m - 1)
BY SMT

LEMMA OneMore ==
  ASSUME NEW n \in Nat, NEW w \in [1..n -> Nat], NEW k \in Nat, k + 1 <= n
  PROVE  /\ IsFiniteSet({i \in 1..k : w[i] > 0})
         /\ Cardinality({i \in 1..(k + 1) : w[i] > 0}) =
                Cardinality({i \in 1..k : w[i] > 0}) + (IF w[k + 1] > 0 THEN 1 ELSE 0)
<1> DEFINE C == {i \in 1..k : w[i] > 0}
           D == {i \in 1..(k + 1) : w[i] > 0}
<1>1. IsFiniteSet(C)
  BY FS_Interval, FS_Subset
<1>2. k + 1 \notin C
  OBVIOUS
<1>3. Cardinality(C) \in Nat
  BY <1>1, FS_CardinalityType
<1>4. CASE w[k + 1] > 0
  <2>1. D = C \union {k + 1}
    BY <1>4
  <2> QED
    BY <1>1, <1>2, <1>4, <2>1, FS_AddElement
<1>5. CASE ~(w[k + 1] > 0)
  <2>1. D = C
    BY <1>5
  <2>2. Cardinality(D) = Cardinality(C)
    BY <2>1, Zenon
  <2> HIDE DEF C, D
  <2>3. Cardinality(D) = Cardinality(C) + 0
    BY <1>3, <2>2
  <2> QED
    BY <1>1, <1>5, <2>3 DEF C, D
<1> QED
  BY <1>4, <1>5

(* The shares of d, rounded down, are never more than d together, and less *)
(* than one short for each that is not zero.                               *)
LEMMA SharesFit ==
  ASSUME NEW n \in Nat, NEW w \in [1..n -> Nat], NEW d \in Nat, Total(w) > 0,
         NEW s, s = [k \in 1..n |-> (d * w[k]) \div Total(w)]
  PROVE  /\ s \in [1..n -> Nat] /\ Total(s) \in Nat /\ Total(s) <= d
         /\ d - Total(s) < Cardinality({k \in 1..n : w[k] > 0})
<1> DEFINE W == Total(w)
           U == Used(w)
           S == Used(s)
           C == [k \in 0..n |-> Cardinality({i \in 1..k : w[i] > 0})]
<1>1. /\ U \in [0..n -> Nat] /\ U[0] = 0 /\ \A k \in 1..n : U[k] = U[k - 1] + w[k]
      /\ Len(w) = n /\ W = U[n]
  BY UsedIs DEF Total
<1>2. W \in Nat \ {0}
  BY <1>1
<1>3. \A k \in 1..n : s[k] = (d * w[k]) \div W
  OBVIOUS
<1>4. ASSUME NEW k \in 1..n
      PROVE  /\ s[k] \in Nat /\ W * s[k] <= d * w[k]
             /\ d * w[k] <= (W * s[k]) + (IF w[k] > 0 THEN W - 1 ELSE 0)
  <2>1. w[k] \in Nat /\ d * w[k] \in Nat
    BY Product
  <2>2. s[k] = (d * w[k]) \div W
    BY <1>3
  <2> HIDE DEF W
  <2>3. s[k] \in Nat /\ W * s[k] <= d * w[k] /\ d * w[k] <= (W * s[k]) + (W - 1)
    BY <1>2, <2>1, <2>2, Rounded
  <2>4. w[k] = 0 => d * w[k] = 0
    BY SMT
  <2>5. W * s[k] \in Nat
    BY <1>2, <2>3, Product
  <2> QED
    BY <1>2, <2>1, <2>3, <2>4, <2>5
<1>5. s \in [1..n -> Nat]
  BY <1>4
<1>6. /\ S \in [0..n -> Nat] /\ S[0] = 0 /\ \A k \in 1..n : S[k] = S[k - 1] + s[k]
      /\ Len(s) = n /\ Total(s) = S[n]
  BY <1>5, UsedIs DEF Total
<1>7. /\ C[0] = 0
      /\ \A k \in Nat : k + 1 <= n => C[k] \in Nat /\ C[k + 1] = C[k] + (IF w[k + 1] > 0 THEN 1 ELSE 0)
  <2>1. C[0] = 0
    <3>1. {i \in 1..0 : w[i] > 0} = {}
      OBVIOUS
    <3> QED
      BY <3>1, FS_EmptySet
  <2>2. ASSUME NEW k \in Nat, k + 1 <= n
        PROVE  C[k] \in Nat /\ C[k + 1] = C[k] + (IF w[k + 1] > 0 THEN 1 ELSE 0)
    <3>1. /\ IsFiniteSet({i \in 1..k : w[i] > 0})
          /\ Cardinality({i \in 1..(k + 1) : w[i] > 0}) =
                 Cardinality({i \in 1..k : w[i] > 0}) + (IF w[k + 1] > 0 THEN 1 ELSE 0)
      BY <2>2, OneMore
    <3>2. Cardinality({i \in 1..k : w[i] > 0}) \in Nat
      BY <3>1, FS_CardinalityType
    <3>3. k \in 0..n /\ k + 1 \in 0..n
      BY <2>2
    <3>4. /\ C[k] = Cardinality({i \in 1..k : w[i] > 0})
          /\ C[k + 1] = Cardinality({i \in 1..(k + 1) : w[i] > 0})
      BY <3>3
    <3> HIDE DEF C
    <3> QED
      BY <3>1, <3>2, <3>4, Zenon
  <2> QED
    BY <2>1, <2>2
<1>8. C[n] = Cardinality({k \in 1..n : w[k] > 0})
  OBVIOUS
<1> HIDE DEF W, U, S, C
<1> DEFINE T == {k \in Nat : k <= n =>
                    /\ C[k] \in Nat /\ (U[k] > 0 => C[k] >= 1)
                    /\ W * S[k] <= d * U[k]
                    /\ d * U[k] <= (W * S[k]) + ((W - 1) * C[k])}
<1>9. 0 \in T
  BY <1>1, <1>2, <1>6, <1>7, SMT
<1>10. ASSUME NEW k \in Nat, k \in T PROVE k + 1 \in T
  <2> SUFFICES ASSUME k + 1 <= n
               PROVE  /\ C[k + 1] \in Nat /\ (U[k + 1] > 0 => C[k + 1] >= 1)
                      /\ W * S[k + 1] <= d * U[k + 1]
                      /\ d * U[k + 1] <= (W * S[k + 1]) + ((W - 1) * C[k + 1])
    OBVIOUS
  <2>1. /\ k + 1 \in 1..n /\ (k + 1) - 1 = k /\ k \in 0..n /\ W >= 1 /\ W \in Nat
        /\ C[k] \in Nat /\ (U[k] > 0 => C[k] >= 1)
    BY <1>2, <1>10
  <2>1a. W * S[k] <= d * U[k] /\ d * U[k] <= (W * S[k]) + ((W - 1) * C[k])
    BY <1>2, <1>10
  <2> DEFINE one == IF w[k + 1] > 0 THEN 1 ELSE 0
  <2>2. /\ U[k + 1] = U[k] + w[k + 1] /\ S[k + 1] = S[k] + s[k + 1]
        /\ U[k] \in Nat /\ S[k] \in Nat /\ w[k + 1] \in Nat /\ s[k + 1] \in Nat
    BY <1>1, <1>5, <1>6, <2>1
  <2>3. C[k + 1] = C[k] + one
    BY <1>7, Zenon
  <2>4. /\ W * s[k + 1] <= d * w[k + 1]
        /\ d * w[k + 1] <= (W * s[k + 1]) + (IF w[k + 1] > 0 THEN W - 1 ELSE 0)
    BY <1>4, <2>1
  <2>5. /\ W * (S[k] + s[k + 1]) <= d * (U[k] + w[k + 1])
        /\ d * (U[k] + w[k + 1]) <= (W * (S[k] + s[k + 1])) + ((W - 1) * (C[k] + one))
    BY <2>1, <2>1a, <2>2, <2>4, OneShare
  <2>6. C[k] + one \in Nat /\ (U[k] + w[k + 1] > 0 => C[k] + one >= 1)
    <3>1. CASE w[k + 1] > 0
      BY <2>1, <3>1
    <3>2. CASE ~(w[k + 1] > 0)
      <4>1. one = 0 /\ w[k + 1] = 0
        BY <2>2, <3>2
      <4> HIDE DEF one
      <4> QED
        BY <2>1, <2>2, <4>1
    <3> QED
      BY <3>1, <3>2
  <2> HIDE DEF one
  <2> QED
    BY <2>2, <2>3, <2>5, <2>6
<1> HIDE DEF T
<1>11. \A k \in Nat : k \in T
  BY <1>9, <1>10, Induct
<1>12. /\ C[n] \in Nat /\ C[n] >= 1
       /\ W * S[n] <= d * W /\ d * W <= (W * S[n]) + ((W - 1) * C[n])
  BY <1>1, <1>2, <1>11 DEF T
<1>13. S[n] \in Nat /\ W >= 1
  BY <1>2, <1>6
<1>14. S[n] <= d /\ d - S[n] < C[n]
  BY <1>2, <1>12, <1>13, AllShares
<1> QED
  BY <1>5, <1>6, <1>8, <1>13, <1>14

-----------------------------------------------------------------------------
(* A finite set of numbers has a greatest one, and Largest is it.          *)
LEMMA Greatest ==
  ASSUME NEW Q \in SUBSET Nat, IsFiniteSet(Q), Q # {}
  PROVE  \E x \in Q : \A y \in Q : x >= y
<1> DEFINE Has(R) == \E x \in R : \A y \in R : x >= y
           T == {m \in Nat : \A R \in SUBSET Nat :
                     IsFiniteSet(R) /\ Cardinality(R) = m /\ R # {} => Has(R)}
<1>1. 0 \in T
  BY FS_EmptySet
<1>2. ASSUME NEW m \in Nat, m \in T PROVE m + 1 \in T
  <2> SUFFICES ASSUME NEW R \in SUBSET Nat, IsFiniteSet(R), Cardinality(R) = m + 1, R # {}
               PROVE  Has(R)
    OBVIOUS
  <2>1. PICK x \in R : TRUE
    OBVIOUS
  <2> DEFINE P == R \ {x}
  <2>2. IsFiniteSet(P) /\ Cardinality(P) = (m + 1) - 1
    BY <2>1, FS_RemoveElement
  <2>3. Cardinality(P) = m
    BY <2>2
  <2>4. CASE P = {}
    BY <2>1, <2>4
  <2>5. CASE P # {}
    <3>1. PICK z \in P : \A y \in P : z >= y
      BY <1>2, <2>2, <2>3, <2>5
    <3>2. CASE x >= z
      <4>1. \A y \in R : x >= y
        BY <2>1, <3>1, <3>2
      <4> QED
        BY <2>1, <4>1
    <3>3. CASE ~(x >= z)
      <4>1. \A y \in R : z >= y
        BY <2>1, <3>1, <3>3
      <4> QED
        BY <3>1, <4>1
    <3> QED
      BY <3>2, <3>3
  <2> QED
    BY <2>4, <2>5
<1> HIDE DEF T
<1>3. \A m \in Nat : m \in T
  BY <1>1, <1>2, Induct
<1>4. Cardinality(Q) \in Nat
  BY FS_CardinalityType
<1> QED
  BY <1>3, <1>4 DEF T

LEMMA LargestIs ==
  ASSUME NEW Q \in SUBSET Nat, IsFiniteSet(Q)
  PROVE  Largest(Q) \in Nat /\ \A x \in Q : x <= Largest(Q)
<1> DEFINE R == {0} \union Q
<1>1. R \in SUBSET Nat /\ R # {} /\ IsFiniteSet(R)
  <2>1. R = Q \union {0}
    OBVIOUS
  <2>2. IsFiniteSet(R)
    BY <2>1, FS_AddElement
  <2> QED
    BY <2>2
<1>2. \E x \in R : \A y \in R : x >= y
  BY <1>1, Greatest
<1> DEFINE g == CHOOSE x \in R : \A y \in R : x >= y
<1>3. Largest(Q) = g
  BY DEF Largest, Max
<1>4. g \in R /\ \A y \in R : g >= y
  BY <1>2
<1> HIDE DEF g
<1>5. \A x \in Q : x \in Nat /\ x \in R
  OBVIOUS
<1> QED
  BY <1>1, <1>3, <1>4, <1>5

LEMMA FiniteImage ==
  ASSUME NEW D, IsFiniteSet(D), NEW f
  PROVE  IsFiniteSet({f[x] : x \in D})
<1> DEFINE R == {f[x] : x \in D}
           g == [x \in D |-> f[x]]
<1>1. g \in Surjection(D, R)
  BY DEF Surjection
<1> QED
  BY <1>1, FS_Surjection

-----------------------------------------------------------------------------
(* The columns and rows of a table, and the cells of each.                 *)
Count(h, n, a) == IF a = "x" THEN n ELSE h

LEMMA CellsOf ==
  ASSUME NEW h \in Nat, NEW n \in Nat, IsTable(h, n), NEW a \in Axes
  PROVE  /\ Tracks(rows, a) = 1..Count(h, n, a)
         /\ \A k \in 1..Count(h, n, a) :
                /\ IsFiniteSet(Cells(rows, a, k)) /\ Cells(rows, a, k) \subseteq (1..h) \X (1..n)
                /\ \A r \in 1..h, c \in 1..n :
                       <<r, c>> \in Cells(rows, a, k) <=> k = (IF a = "x" THEN c ELSE r)
<1>1. rows \in [1..h -> [1..n -> Cell]] /\ (h = 0 => n = 0)
  BY DEF IsTable
<1>2. max_cols_in_row(rows) = n /\ Len(rows) = h /\ DOMAIN rows = 1..h
  BY <1>1, MaxCols, LenOfGrid
<1>3. Tracks(rows, a) = 1..Count(h, n, a)
  BY <1>2 DEF Tracks, Count
<1>4. ASSUME NEW k \in 1..Count(h, n, a)
      PROVE  /\ Cells(rows, a, k) \subseteq (1..h) \X (1..n)
             /\ \A r \in 1..h, c \in 1..n :
                    <<r, c>> \in Cells(rows, a, k) <=> k = (IF a = "x" THEN c ELSE r)
  <2>1. CASE a = "x"
    <3>1. Cells(rows, a, k) = {<<r, k>> : r \in 1..h} /\ k \in 1..n
      BY <1>2, <2>1 DEF Cells, Count
    <3> QED
      BY <2>1, <3>1
  <2>2. CASE a # "x"
    <3>1. Cells(rows, a, k) = {<<k, c>> : c \in 1..n} /\ k \in 1..h
      BY <1>2, <2>2 DEF Cells, Count
    <3> QED
      BY <2>2, <3>1
  <2> QED
    BY <2>1, <2>2
<1>5. IsFiniteSet((1..h) \X (1..n))
  <2>1. IsFiniteSet(1..h) /\ IsFiniteSet(1..n)
    BY FS_Interval
  <2> QED
    BY <2>1, FS_Product
<1>6. \A k \in 1..Count(h, n, a) : IsFiniteSet(Cells(rows, a, k))
  BY <1>4, <1>5, FS_Subset
<1> QED
  BY <1>3, <1>4, <1>6

LEMMA SizesNat ==
  ASSUME NEW a \in Axes
  PROVE  /\ \A q \in PropertyType : q.expand[a] \in Nat /\ q.border[a] \in Nat
         /\ Property.border[a] = 0
         /\ \A w \in Widgets : MinSpace[w][a] \in Nat
         /\ \A d \in Dimensions \union {Zero} : d[a] \in Nat
<1>1. Zero[a] = 0
  BY DEF Axes, Zero
<1>2. \A s \in Expands \union Borders \union Dimensions : s[a] \in Nat
  BY SizesAssumption DEF SizesAssumption
<1>3. Property.border = Zero
  BY DEF Property
<1>4. \A q \in PropertyType : q.expand \in Expands \union {Zero} /\ q.border \in Borders \union {Zero}
  BY DEF PropertyType
<1> QED
  BY <1>1, <1>2, <1>3, <1>4, WidgetsAssumption DEF WidgetsAssumption

(* The minimum of a column or row covers each widget in it and its border. *)
LEMMA MinSizeIs ==
  ASSUME NEW h \in Nat, NEW n \in Nat, IsTable(h, n), NEW a \in Axes
  PROVE  /\ collect_min_size(rows, cell_properties, a) \in [1..Count(h, n, a) -> Nat]
         /\ \A k \in 1..Count(h, n, a) : \A i \in Cells(rows, a, k) :
                rows[i[1]][i[2]] # None =>
                    MinSpace[rows[i[1]][i[2]]][a] + cell_properties[i[1]][i[2]].border[a]
                        <= collect_min_size(rows, cell_properties, a)[k]
<1> DEFINE K == 1..Count(h, n, a)
           full(k) == {j \in Cells(rows, a, k) : rows[j[1]][j[2]] # None}
           need(k) == [i \in full(k) |-> MinSpace[rows[i[1]][i[2]]][a] + cell_properties[i[1]][i[2]].border[a]]
           needs(k) == {need(k)[i] : i \in full(k)}
           min == collect_min_size(rows, cell_properties, a)
<1>1. min = [k \in K |-> Largest(needs(k))]
  <2>1. min = [k \in K |->
                 Largest({MinSpace[rows[i[1]][i[2]]][a] + cell_properties[i[1]][i[2]].border[a] : i \in full(k)})]
    BY CellsOf DEF collect_min_size
  <2>2. \A k \in K : needs(k) =
            {MinSpace[rows[i[1]][i[2]]][a] + cell_properties[i[1]][i[2]].border[a] : i \in full(k)}
    OBVIOUS
  <2> QED
    BY <2>1, <2>2
<1>2. ASSUME NEW k \in K
      PROVE  /\ needs(k) \in SUBSET Nat /\ IsFiniteSet(needs(k))
             /\ \A i \in full(k) : need(k)[i] \in needs(k)
  <2>1. IsFiniteSet(full(k))
    BY CellsOf, FS_Subset
  <2>2. ASSUME NEW i \in full(k) PROVE need(k)[i] \in Nat
    <3>1. i[1] \in 1..h /\ i[2] \in 1..n
      BY CellsOf
    <3>2. rows[i[1]][i[2]] \in Widgets /\ cell_properties[i[1]][i[2]] \in PropertyType
      BY <3>1 DEF IsTable, Cell
    <3>3. MinSpace[rows[i[1]][i[2]]][a] \in Nat /\ cell_properties[i[1]][i[2]].border[a] \in Nat
      BY <3>2, SizesNat
    <3> QED
      BY <3>3
  <2> HIDE DEF need, full
  <2>3. IsFiniteSet(needs(k))
    BY <2>1, FiniteImage
  <2> QED
    BY <2>2, <2>3
<1>3. \A k \in K : Largest(needs(k)) \in Nat /\ \A x \in needs(k) : x <= Largest(needs(k))
  BY <1>2, LargestIs
<1>4. ASSUME NEW k \in K, NEW i \in Cells(rows, a, k), rows[i[1]][i[2]] # None
      PROVE  MinSpace[rows[i[1]][i[2]]][a] + cell_properties[i[1]][i[2]].border[a] <= min[k]
  <2>1. i \in full(k) /\ need(k)[i] = MinSpace[rows[i[1]][i[2]]][a] + cell_properties[i[1]][i[2]].border[a]
    BY <1>4
  <2> HIDE DEF needs, need, full
  <2>2. need(k)[i] <= Largest(needs(k))
    BY <1>2, <1>3, <2>1
  <2> QED
    BY <1>1, <2>1, <2>2
<1> HIDE DEF needs
<1>5. min \in [K -> Nat]
  BY <1>1, <1>3
<1> QED
  BY <1>4, <1>5

LEMMA WeightsAre ==
  ASSUME NEW h \in Nat, NEW n \in Nat, IsTable(h, n), NEW a \in Axes
  PROVE  Weights(rows, cell_properties, a) \in [1..Count(h, n, a) -> Nat]
<1> DEFINE K == 1..Count(h, n, a)
           ask(k) == [i \in Cells(rows, a, k) |-> cell_properties[i[1]][i[2]].expand[a]]
           asked(k) == {ask(k)[i] : i \in Cells(rows, a, k)}
           w == Weights(rows, cell_properties, a)
<1>1. w = [k \in K |-> Largest(asked(k))]
  <2>1. w = [k \in K |-> Largest({cell_properties[i[1]][i[2]].expand[a] : i \in Cells(rows, a, k)})]
    BY CellsOf DEF Weights
  <2>2. \A k \in K : asked(k) = {cell_properties[i[1]][i[2]].expand[a] : i \in Cells(rows, a, k)}
    OBVIOUS
  <2> QED
    BY <2>1, <2>2
<1>2. ASSUME NEW k \in K PROVE asked(k) \in SUBSET Nat /\ IsFiniteSet(asked(k))
  <2>1. IsFiniteSet(Cells(rows, a, k))
    BY CellsOf
  <2>2. ASSUME NEW i \in Cells(rows, a, k) PROVE ask(k)[i] \in Nat
    <3>1. i[1] \in 1..h /\ i[2] \in 1..n
      BY CellsOf
    <3>2. cell_properties[i[1]][i[2]] \in PropertyType
      BY <3>1 DEF IsTable
    <3> QED
      BY <3>2, SizesNat
  <2> HIDE DEF ask
  <2>3. IsFiniteSet(asked(k))
    BY <2>1, FiniteImage
  <2> QED
    BY <2>2, <2>3
<1>3. \A k \in K : Largest(asked(k)) \in Nat
  BY <1>2, LargestIs
<1> HIDE DEF asked
<1> QED
  BY <1>1, <1>3

Expanding(w) == Cardinality({k \in DOMAIN w : w[k] > 0})

(* Where the terminal is not too small no column or row gets less than its *)
(* minimum, all together get no more than there is, and what is left over  *)
(* is less than one for each that expands.                                 *)
LEMMA ExpandIs ==
  ASSUME NEW h \in Nat, NEW n \in Nat, IsTable(h, n), NEW a \in Axes, NEW dim, dim[a] \in Nat,
         dim[a] >= Total(collect_min_size(rows, cell_properties, a)),
         NEW e, e = expand_cells(rows, cell_properties, dim, a),
         NEW w, w = Weights(rows, cell_properties, a)
  PROVE  /\ e \in [1..Count(h, n, a) -> Nat]
         /\ \A k \in 1..Count(h, n, a) : collect_min_size(rows, cell_properties, a)[k] <= e[k]
         /\ Total(e) <= dim[a]
         /\ Total(w) > 0 => dim[a] - Total(e) < Expanding(w)
<1> DEFINE m   == Count(h, n, a)
           min == collect_min_size(rows, cell_properties, a)
           d   == dim[a] - Total(min)
           s   == [k \in 1..m |-> (d * w[k]) \div Total(w)]
<1>1. m \in Nat /\ min \in [1..m -> Nat] /\ w \in [1..m -> Nat]
  BY MinSizeIs, WeightsAre DEF Count
<1>2. Total(min) \in Nat /\ Total(w) \in Nat
  <2>1. /\ Used(min) \in [0..m -> Nat] /\ Len(min) = m
        /\ Used(w) \in [0..m -> Nat] /\ Len(w) = m
    BY <1>1, UsedIs
  <2> QED
    BY <1>1, <2>1 DEF Total
<1>3. e = [k \in 1..m |-> IF Total(w) > 0 THEN min[k] + ((d * w[k]) \div Total(w)) ELSE min[k]]
  <2>1. e = [k \in DOMAIN min |-> IF Total(w) > 0 THEN min[k] + ((d * w[k]) \div Total(w)) ELSE min[k]]
    BY DEF expand_cells
  <2> QED
    BY <1>1, <2>1
<1>4. d \in Nat /\ Total(min) + d = dim[a]
  BY <1>2
<1> HIDE DEF min, m, d
<1>5. CASE Total(w) > 0
  <2>1. e = [k \in 1..m |-> min[k] + s[k]]
    BY <1>3, <1>5
  <2>2. /\ s \in [1..m -> Nat] /\ Total(s) \in Nat /\ Total(s) <= d
        /\ d - Total(s) < Cardinality({k \in 1..m : w[k] > 0})
    BY <1>1, <1>4, <1>5, SharesFit
  <2> HIDE DEF s
  <2>3. e \in [1..m -> Nat] /\ Total(e) = Total(min) + Total(s)
    <3>1. m \in Nat /\ min \in [1..m -> Nat] /\ s \in [1..m -> Nat]
      BY <1>1, <2>2
    <3>2. e \in [1..m -> Nat] /\ \A k \in 1..m : e[k] = min[k] + s[k]
      BY <2>1, <3>1
    <3> QED
      BY <3>1, <3>2, TotalAdds
  <2>4. \A k \in 1..m : min[k] <= e[k]
    BY <1>1, <2>1, <2>2
  <2>5. DOMAIN w = 1..m
    BY <1>1
  <2>6. Total(e) <= dim[a] /\ dim[a] - Total(e) = d - Total(s)
    BY <1>2, <1>4, <2>2, <2>3
  <2>7. Expanding(w) = Cardinality({k \in 1..m : w[k] > 0})
    BY <2>5 DEF Expanding
  <2> QED
    BY <2>2, <2>3, <2>4, <2>6, <2>7 DEF m, min
<1>6. CASE ~(Total(w) > 0)
  <2>1. e = min
    BY <1>1, <1>3, <1>6
  <2> QED
    BY <1>1, <1>2, <1>4, <1>6, <2>1 DEF m, min
<1> QED
  BY <1>5, <1>6

(* The subtractions of draw are safe where the terminal is not too small.  *)
LEMMA UnderflowsIfSmall ==
  ASSUME NEW h \in Nat, NEW n \in Nat, IsTable(h, n), NEW dim \in Dimensions \union {Zero},
         Underflows(rows, cell_properties, dim)
  PROVE  \E a \in Axes : dim[a] < Total(collect_min_size(rows, cell_properties, a))
<1> SUFFICES ASSUME \A a \in Axes : ~(dim[a] < Total(collect_min_size(rows, cell_properties, a)))
             PROVE  FALSE
  OBVIOUS
<1>0. PICK a \in Axes : \E k \in Tracks(rows, a) : \E i \in Cells(rows, a, k) :
          expand_cells(rows, cell_properties, dim, a)[k] < cell_properties[i[1]][i[2]].border[a]
  BY DEF Underflows
<1>1. PICK k \in Tracks(rows, a) : \E i \in Cells(rows, a, k) :
          expand_cells(rows, cell_properties, dim, a)[k] < cell_properties[i[1]][i[2]].border[a]
  BY <1>0
<1>2. PICK i \in Cells(rows, a, k) :
          expand_cells(rows, cell_properties, dim, a)[k] < cell_properties[i[1]][i[2]].border[a]
  BY <1>1
<1> DEFINE min == collect_min_size(rows, cell_properties, a)
           e   == expand_cells(rows, cell_properties, dim, a)
           b   == cell_properties[i[1]][i[2]].border[a]
<1>3. k \in 1..Count(h, n, a) /\ i[1] \in 1..h /\ i[2] \in 1..n
  <2>1. k \in 1..Count(h, n, a)
    BY <1>1, CellsOf
  <2>2. Cells(rows, a, k) \subseteq (1..h) \X (1..n)
    BY <2>1, CellsOf
  <2> QED
    BY <1>2, <2>1, <2>2
<1>4. dim[a] \in Nat
  BY SizesNat
<1>5. min \in [1..Count(h, n, a) -> Nat]
  BY MinSizeIs
<1>6. dim[a] >= Total(min)
  <2>1. Used(min) \in [0..Count(h, n, a) -> Nat] /\ Len(min) = Count(h, n, a) /\ Count(h, n, a) \in Nat
    BY <1>5, UsedIs DEF Count
  <2>2. Total(min) \in Nat
    BY <2>1 DEF Total
  <2> QED
    BY <1>4, <2>2
<1>7. e[k] \in Nat /\ min[k] <= e[k] /\ min[k] \in Nat
  <2>1. /\ e \in [1..Count(h, n, a) -> Nat]
        /\ \A l \in 1..Count(h, n, a) : min[l] <= e[l]
    BY <1>4, <1>6, ExpandIs, Zenon
  <2> HIDE DEF e, min
  <2> QED
    BY <1>3, <1>5, <2>1
<1>8. cell_properties[i[1]][i[2]] \in PropertyType /\ rows[i[1]][i[2]] \in Cell
  BY <1>3 DEF IsTable
<1>9. b \in Nat
  BY <1>8, SizesNat
<1>10. CASE rows[i[1]][i[2]] = None
  <2>1. cell_properties[i[1]][i[2]] = Property
    BY <1>3, <1>10 DEF IsTable
  <2>2. b = 0
    BY <2>1, SizesNat
  <2> HIDE DEF e, b
  <2> QED
    BY <1>2, <1>7, <2>2 DEF e, b
<1>11. CASE rows[i[1]][i[2]] # None
  <2> DEFINE s == MinSpace[rows[i[1]][i[2]]][a]
  <2>1. s + b <= min[k]
    BY <1>3, <1>11, MinSizeIs
  <2>2. s \in Nat
    BY <1>8, <1>11, SizesNat DEF Cell
  <2>3. e[k] < b
    BY <1>2
  <2> HIDE DEF e, b, s, min
  <2> QED
    BY <1>7, <1>9, <2>1, <2>2, <2>3
<1> QED
  BY <1>10, <1>11

-----------------------------------------------------------------------------
(* A layout is drawn once, from the table as it is then, unless a          *)
(* subtraction fails.                                                      *)
WhereOf(w) ==
    LET i == CHOOSE j \in Occupied : rows[j[1]][j[2]] = w
    IN  Place(rows, cell_properties, screen, i[1], i[2])

DrawnFrom ==
    /\ status = "underflow" => Underflows(rows, cell_properties, screen)
    /\ status = "drawn" => /\ ~Underflows(rows, cell_properties, screen)
                           /\ drawn = [w \in Added |-> WhereOf(w)]
    /\ status # "drawn" => DOMAIN drawn = {}

LEMMA DrawnInit == Init => DrawnFrom
BY DEF Init, DrawnFrom

LEMMA DrawnStep == DrawnFrom /\ [Next]_vars => DrawnFrom'
<1> SUFFICES ASSUME DrawnFrom, [Next]_vars PROVE DrawnFrom'
  OBVIOUS
<1>1. CASE UNCHANGED vars
  BY <1>1 DEF vars, table, DrawnFrom, WhereOf, Occupied, Added
<1>2. ASSUME status = "fine", UNCHANGED drawn, status' \in {"fine", "cell is not free", "no item"}
      PROVE  DrawnFrom'
  BY <1>2 DEF DrawnFrom
<1>3. ASSUME NEW w \in Widgets, NEW p \in Positions, Add(w, p) PROVE DrawnFrom'
  BY <1>2, <1>3 DEF Add, Panic
<1>4. ASSUME NEW e \in Expands, Expand(e) PROVE DrawnFrom'
  BY <1>2, <1>4 DEF Expand, Panic
<1>5. ASSUME NEW b \in Borders, Border(b) PROVE DrawnFrom'
  BY <1>2, <1>5 DEF Border, Panic
<1>6. ASSUME NEW dim \in Dimensions, Draw(dim) PROVE DrawnFrom'
  <2>1. UNCHANGED table /\ screen' = dim /\ status = "fine"
    BY <1>6 DEF Draw
  <2>2. CASE Underflows(rows, cell_properties, dim)
    <3>1. status' = "underflow" /\ UNCHANGED drawn
      BY <1>6, <2>2 DEF Draw
    <3> QED
      BY <2>1, <2>2, <3>1 DEF DrawnFrom, table
  <2>3. CASE ~Underflows(rows, cell_properties, dim)
    <3>1. /\ status' = "drawn"
          /\ drawn' = [w \in Added |->
                          LET i == CHOOSE j \in Occupied : rows[j[1]][j[2]] = w
                          IN  Place(rows, cell_properties, dim, i[1], i[2])]
      BY <1>6, <2>3 DEF Draw
    <3>2. drawn' = [w \in Added' |-> WhereOf(w)']
      BY <2>1, <3>1 DEF WhereOf, Occupied, Added, table
    <3> QED
      BY <2>1, <2>3, <3>1, <3>2 DEF DrawnFrom, table
  <2> QED
    BY <2>2, <2>3
<1> QED
  BY <1>1, <1>3, <1>4, <1>5, <1>6 DEF Next

(* The column or row of a cell. *)
Track(r, c, a) == IF a = "x" THEN c ELSE r

(* Where a widget is drawn, axis by axis. *)
IsPlaced(p, r, c, a) ==
    LET e == expand_cells(rows, cell_properties, screen, a)
        k == Track(r, c, a)
    IN  /\ p.pos[a] = Used(e)[k - 1] /\ End(p, a) = Used(e)[k]
        /\ p.size[a] >= MinSpace[rows[r][c]][a]

LEMMA PlaceIs ==
  ASSUME NEW h \in Nat, NEW n \in Nat, IsTable(h, n), screen \in Dimensions \union {Zero},
         ~Underflows(rows, cell_properties, screen),
         NEW r \in 1..h, NEW c \in 1..n, rows[r][c] # None, NEW a \in Axes
  PROVE  IsPlaced(Place(rows, cell_properties, screen, r, c), r, c, a)
<1> DEFINE min == collect_min_size(rows, cell_properties, a)
           e   == expand_cells(rows, cell_properties, screen, a)
           b   == cell_properties[r][c].border[a]
           k   == Track(r, c, a)
           s   == MinSpace[rows[r][c]][a]
           p   == Place(rows, cell_properties, screen, r, c)
<1>1. p.pos[a] = Used(e)[k - 1] /\ p.size[a] = e[k] - b /\ p.border[a] = b
  <2>1. CASE a = "x"
    BY <2>1 DEF Place, Track, Before
  <2>2. CASE a = "y"
    BY <2>2 DEF Place, Track, Before
  <2> QED
    BY <2>1, <2>2 DEF Axes
<1>2. k \in 1..Count(h, n, a) /\ Count(h, n, a) \in Nat
  BY DEF Track, Count
<1>3. <<r, c>> \in Cells(rows, a, k)
  BY <1>2, CellsOf DEF Track
<1>4. screen[a] \in Nat
  BY SizesNat
<1>5. min \in [1..Count(h, n, a) -> Nat]
  BY MinSizeIs
<1>6. screen[a] >= Total(min)
  <2>1. Used(min) \in [0..Count(h, n, a) -> Nat] /\ Len(min) = Count(h, n, a)
    BY <1>2, <1>5, UsedIs
  <2>2. Total(min) \in Nat
    BY <1>2, <2>1 DEF Total
  <2>3. ~(screen[a] < Total(min))
    BY DEF Underflows
  <2> QED
    BY <1>4, <2>2, <2>3
<1>7. e \in [1..Count(h, n, a) -> Nat] /\ \A l \in 1..Count(h, n, a) : min[l] <= e[l]
  BY <1>4, <1>6, ExpandIs, Zenon
<1>8. cell_properties[r][c] \in PropertyType /\ rows[r][c] \in Widgets
  BY DEF IsTable, Cell
<1>9. b \in Nat /\ s \in Nat
  BY <1>8, SizesNat
<1>10. s + b <= min[k]
  <2>1. \A i \in Cells(rows, a, k) : rows[i[1]][i[2]] # None =>
            MinSpace[rows[i[1]][i[2]]][a] + cell_properties[i[1]][i[2]].border[a] <= min[k]
    BY <1>2, MinSizeIs
  <2> QED
    BY <1>3, <2>1
<1>11. Used(e)[k] = Used(e)[k - 1] + e[k] /\ Used(e)[k - 1] \in Nat
  <2>1. Used(e) \in [0..Count(h, n, a) -> Nat] /\ \A l \in 1..Count(h, n, a) : Used(e)[l] = Used(e)[l - 1] + e[l]
    BY <1>2, <1>7, UsedIs
  <2> HIDE DEF e, k
  <2>2. k - 1 \in 0..Count(h, n, a)
    BY <1>2
  <2> QED
    BY <1>2, <2>1, <2>2
<1> HIDE DEF min, e, b, k, s, p
<1>12. e[k] \in Nat /\ min[k] \in Nat /\ min[k] <= e[k]
  BY <1>2, <1>5, <1>7
<1>13. End(p, a) = Used(e)[k] /\ p.size[a] >= s
  BY <1>1, <1>9, <1>10, <1>11, <1>12 DEF End
<1> QED
  BY <1>1, <1>13 DEF IsPlaced, e, k, p, s

(* Each widget that was drawn has a cell, and is drawn there. *)
LEMMA DrawnAt ==
  ASSUME NEW h \in Nat, NEW n \in Nat, IsTable(h, n), DrawnFrom, NEW w \in DOMAIN drawn
  PROVE  /\ status = "drawn" /\ ~Underflows(rows, cell_properties, screen)
         /\ \E r \in 1..h, c \in 1..n :
                /\ rows[r][c] = w /\ rows[r][c] # None
                /\ drawn[w] = Place(rows, cell_properties, screen, r, c)
<1>1. /\ status = "drawn" /\ ~Underflows(rows, cell_properties, screen)
      /\ drawn = [v \in Added |-> WhereOf(v)]
  BY DEF DrawnFrom
<1>2. rows \in [1..h -> [1..n -> Cell]] /\ (h = 0 => n = 0)
  BY DEF IsTable
<1>3. max_cols_in_row(rows) = n /\ Len(rows) = h
  BY <1>2, MaxCols, LenOfGrid
<1>4. Occupied = {i \in (1..h) \X (1..n) : rows[i[1]][i[2]] # None}
  BY <1>3 DEF Occupied
<1>5. w \in Added /\ drawn[w] = WhereOf(w)
  BY <1>1
<1>6. w # None
  BY <1>5, WidgetsAssumption DEF Added, WidgetsAssumption
<1>7. PICK r \in 1..h, c \in 1..n : rows[r][c] = w
  <2>1. PICK r \in DOMAIN rows : \E c \in DOMAIN rows[r] : rows[r][c] = w
    BY <1>5 DEF Added
  <2>2. r \in 1..h /\ DOMAIN rows[r] = 1..n
    BY <1>2
  <2> QED
    BY <2>1, <2>2
<1>8. <<r, c>> \in Occupied
  BY <1>4, <1>6, <1>7
<1> DEFINE i == CHOOSE j \in Occupied : rows[j[1]][j[2]] = w
<1>9. i \in Occupied /\ rows[i[1]][i[2]] = w
  <2>1. \E j \in Occupied : rows[j[1]][j[2]] = w
    BY <1>7, <1>8
  <2> QED
    BY <2>1
<1>10. drawn[w] = Place(rows, cell_properties, screen, i[1], i[2])
  BY <1>5 DEF WhereOf
<1> HIDE DEF i
<1>11. i[1] \in 1..h /\ i[2] \in 1..n
  BY <1>4, <1>9
<1> QED
  BY <1>1, <1>6, <1>9, <1>10, <1>11

(* The columns or rows from the first to one are below those behind it,    *)
(* and all inside the terminal.                                            *)
LEMMA TracksApart ==
  ASSUME NEW h \in Nat, NEW n \in Nat, IsTable(h, n), screen \in Dimensions \union {Zero},
         ~Underflows(rows, cell_properties, screen), NEW a \in Axes,
         NEW e, e = expand_cells(rows, cell_properties, screen, a)
  PROVE  /\ \A k \in 1..Count(h, n, a) : Used(e)[k] <= screen[a]
         /\ \A k, l \in 1..Count(h, n, a) : k < l => Used(e)[k] <= Used(e)[l - 1]
<1> DEFINE m   == Count(h, n, a)
           min == collect_min_size(rows, cell_properties, a)
<1>1. m \in Nat /\ screen[a] \in Nat /\ min \in [1..m -> Nat]
  BY SizesNat, MinSizeIs DEF Count
<1>2. screen[a] >= Total(min)
  <2>1. Used(min) \in [0..m -> Nat] /\ Len(min) = m
    BY <1>1, UsedIs
  <2>2. Total(min) \in Nat
    BY <1>1, <2>1 DEF Total
  <2>3. ~(screen[a] < Total(min))
    BY DEF Underflows
  <2> QED
    BY <1>1, <2>2, <2>3
<1>3. e \in [1..m -> Nat] /\ Total(e) <= screen[a]
  BY <1>1, <1>2, ExpandIs, Zenon
<1> HIDE DEF m, min
<1>4. Used(e) \in [0..m -> Nat] /\ Total(e) = Used(e)[m]
  BY <1>1, <1>3, UsedIs DEF Total
<1>5. \A k, l \in 0..m : k <= l => Used(e)[k] <= Used(e)[l]
  BY <1>1, <1>3, UsedGrows
<1>6. ASSUME NEW k \in 1..m PROVE Used(e)[k] <= screen[a]
  <2>1. k \in 0..m /\ m \in 0..m /\ k <= m
    BY <1>1
  <2>2. Used(e)[k] <= Used(e)[m] /\ Used(e)[k] \in Nat /\ Used(e)[m] \in Nat
    BY <1>4, <1>5, <2>1
  <2> QED
    BY <1>1, <1>3, <1>4, <2>2
<1>7. ASSUME NEW k \in 1..m, NEW l \in 1..m, k < l PROVE Used(e)[k] <= Used(e)[l - 1]
  <2>1. k \in 0..m /\ l - 1 \in 0..m /\ k <= l - 1
    BY <1>1, <1>7
  <2> QED
    BY <1>5, <2>1
<1> QED
  BY <1>6, <1>7 DEF m

LEMMA DrawnIsInPlace ==
  ASSUME TableInv, OtherTypes, DrawnFrom
  PROVE  DrawnInPlace
<1>1. PICK h \in Nat, n \in Nat : IsTable(h, n)
  BY DEF TableInv
<1>2. screen \in Dimensions \union {Zero}
  BY DEF OtherTypes
<1> DEFINE e(a) == expand_cells(rows, cell_properties, screen, a)
(* A widget and its cell. *)
<1>3. ASSUME NEW w \in DOMAIN drawn
      PROVE  \E r \in 1..h, c \in 1..n :
                 rows[r][c] = w /\ \A a \in Axes : IsPlaced(drawn[w], r, c, a)
  <2>1. ~Underflows(rows, cell_properties, screen)
    BY <1>1, DrawnAt
  <2>2. PICK r \in 1..h, c \in 1..n :
            rows[r][c] = w /\ rows[r][c] # None /\ drawn[w] = Place(rows, cell_properties, screen, r, c)
    BY <1>1, DrawnAt
  <2>3. ASSUME NEW a \in Axes PROVE IsPlaced(drawn[w], r, c, a)
    BY <1>1, <1>2, <2>1, <2>2, PlaceIs
  <2> QED
    BY <2>2, <2>3
<1>4. \A r \in 1..h, c \in 1..n, a \in Axes : Track(r, c, a) \in 1..Count(h, n, a)
  BY DEF Track, Count
<1>5. DrawnInside
  <2> SUFFICES ASSUME NEW w \in DOMAIN drawn, NEW a \in Axes PROVE End(drawn[w], a) <= screen[a]
    BY DEF DrawnInside
  <2>1. PICK r \in 1..h, c \in 1..n : IsPlaced(drawn[w], r, c, a)
    BY <1>3
  <2>2. ~Underflows(rows, cell_properties, screen)
    BY <1>1, DrawnAt
  <2>3. \A k \in 1..Count(h, n, a) : Used(e(a))[k] <= screen[a]
    BY <1>1, <1>2, <2>2, TracksApart
  <2> QED
    BY <1>4, <2>1, <2>3 DEF IsPlaced
<1>6. DrawnRoomy
  <2> SUFFICES ASSUME NEW w \in DOMAIN drawn, NEW a \in Axes PROVE drawn[w].size[a] >= MinSpace[w][a]
    BY DEF DrawnRoomy
  <2>1. PICK r \in 1..h, c \in 1..n : rows[r][c] = w /\ IsPlaced(drawn[w], r, c, a)
    BY <1>3
  <2> QED
    BY <2>1 DEF IsPlaced
<1>7. DrawnApart
  <2> SUFFICES ASSUME NEW v \in DOMAIN drawn, NEW w \in DOMAIN drawn, v # w
               PROVE  \E a \in Axes :
                          End(drawn[v], a) <= drawn[w].pos[a] \/ End(drawn[w], a) <= drawn[v].pos[a]
    BY DEF DrawnApart
  <2>1. PICK r \in 1..h, c \in 1..n : rows[r][c] = v /\ \A a \in Axes : IsPlaced(drawn[v], r, c, a)
    BY <1>3
  <2>2. PICK s \in 1..h, d \in 1..n : rows[s][d] = w /\ \A a \in Axes : IsPlaced(drawn[w], s, d, a)
    BY <1>3
  <2>3. ~Underflows(rows, cell_properties, screen)
    BY <1>1, DrawnAt
  <2>4. ASSUME NEW a \in Axes, Track(r, c, a) # Track(s, d, a)
        PROVE  End(drawn[v], a) <= drawn[w].pos[a] \/ End(drawn[w], a) <= drawn[v].pos[a]
    <3>1. \A k, l \in 1..Count(h, n, a) : k < l => Used(e(a))[k] <= Used(e(a))[l - 1]
      BY <1>1, <1>2, <2>3, TracksApart
    <3>2. Track(r, c, a) \in 1..Count(h, n, a) /\ Track(s, d, a) \in 1..Count(h, n, a)
      BY <1>4
    <3>3. /\ End(drawn[v], a) = Used(e(a))[Track(r, c, a)] /\ drawn[v].pos[a] = Used(e(a))[Track(r, c, a) - 1]
          /\ End(drawn[w], a) = Used(e(a))[Track(s, d, a)] /\ drawn[w].pos[a] = Used(e(a))[Track(s, d, a) - 1]
      BY <2>1, <2>2 DEF IsPlaced
    <3>4. Track(r, c, a) < Track(s, d, a) \/ Track(s, d, a) < Track(r, c, a)
      BY <2>4, <3>2
    <3> HIDE DEF e
    <3> QED
      BY <3>1, <3>2, <3>3, <3>4
  <2>5. r # s \/ c # d
    BY <2>1, <2>2
  <2>6. CASE c # d
    <3>1. "x" \in Axes /\ Track(r, c, "x") # Track(s, d, "x")
      BY <2>6 DEF Axes, Track
    <3> QED
      BY <2>4, <3>1
  <2>7. CASE r # s
    <3>1. "y" \in Axes /\ Track(r, c, "y") # Track(s, d, "y")
      BY <2>7 DEF Axes, Track
    <3> QED
      BY <2>4, <3>1
  <2> QED
    BY <2>5, <2>6, <2>7
<1> QED
  BY <1>5, <1>6, <1>7 DEF DrawnInPlace

LEMMA DrawnUsesSpace ==
  ASSUME TableInv, OtherTypes, DrawnFrom
  PROVE  SpaceUsed /\ PanicOnlyWhenSmall
<1>1. PICK h \in Nat, n \in Nat : IsTable(h, n)
  BY DEF TableInv
<1>2. screen \in Dimensions \union {Zero}
  BY DEF OtherTypes
<1>3. PanicOnlyWhenSmall
  BY <1>1, <1>2, UnderflowsIfSmall DEF PanicOnlyWhenSmall, DrawnFrom
<1>4. ASSUME NEW a \in Axes, status = "drawn", Total(Weights(rows, cell_properties, a)) > 0
      PROVE  screen[a] - Total(expand_cells(rows, cell_properties, screen, a))
                 < Cardinality({k \in DOMAIN Weights(rows, cell_properties, a) :
                                    Weights(rows, cell_properties, a)[k] > 0})
  <2> DEFINE min == collect_min_size(rows, cell_properties, a)
             m   == Count(h, n, a)
  <2>1. m \in Nat /\ screen[a] \in Nat /\ min \in [1..m -> Nat]
    BY <1>1, <1>2, SizesNat, MinSizeIs DEF Count
  <2>2. Used(min) \in [0..m -> Nat] /\ Len(min) = m
    BY <2>1, UsedIs
  <2>3. Total(min) \in Nat
    BY <2>1, <2>2 DEF Total
  <2>4. ~(screen[a] < Total(min))
    BY <1>4 DEF DrawnFrom, Underflows
  <2>5. screen[a] >= Total(min)
    BY <2>1, <2>3, <2>4
  <2> DEFINE e == expand_cells(rows, cell_properties, screen, a)
             w == Weights(rows, cell_properties, a)
  <2>6. e = expand_cells(rows, cell_properties, screen, a) /\ w = Weights(rows, cell_properties, a)
    OBVIOUS
  <2> HIDE DEF e, w
  <2>7. Total(w) > 0 => screen[a] - Total(e) < Expanding(w)
    BY <1>1, <2>1, <2>5, <2>6, ExpandIs, Zenon
  <2> QED
    BY <1>4, <2>7 DEF e, w, Expanding
<1>5. SpaceUsed
  BY <1>4 DEF SpaceUsed
<1> QED
  BY <1>3, <1>5

(* No widget is drawn outside the terminal, over another one or over a     *)
(* border, or smaller than it asked to be, for any weights, borders and    *)
(* sizes, and any number of rows and columns.                              *)
THEOREM AlwaysDrawnInPlace == Spec => []DrawnInPlace
BY LayoutInit, LayoutStep, DrawnInit, DrawnStep, DrawnIsInPlace, PTL DEF Spec

(* A layout is drawn in every terminal that has room for the minimal       *)
(* sizes; the subtraction of a border never is what fails.                 *)
THEOREM PanicsOnlyWhenSmall == Spec => []PanicOnlyWhenSmall
BY LayoutInit, LayoutStep, DrawnInit, DrawnStep, DrawnUsesSpace, PTL DEF Spec

(* Rounding the shares leaves less than one line for each column or row    *)
(* that expands.                                                           *)
THEOREM SpaceAlwaysUsed == Spec => []SpaceUsed
BY LayoutInit, LayoutStep, DrawnInit, DrawnStep, DrawnUsesSpace, PTL DEF Spec
=============================================================================
