-------------------------- MODULE ListWidgetProofs --------------------------
(* Proofs about ListWidget, for lists of any length, rows of any number of *)
(* columns and windows of any size.                                        *)
EXTENDS ListWidget, TLAPS

LEMMA MaxOfTwo ==
  ASSUME NEW a \in Int, NEW b \in Int
  PROVE  Max({a, b}) = IF a >= b THEN a ELSE b
BY DEF Max

LEMMA MinOfTwo ==
  ASSUME NEW a \in Int, NEW b \in Int
  PROVE  Min({a, b}) = IF a <= b THEN a ELSE b
BY DEF Min

-----------------------------------------------------------------------------
(* What holds of the rows and the selection between two calls.  That some  *)
(* row has the most columns is needed to know that column_count is one of  *)
(* their numbers: it grows with the rows, one at a time.                   *)
Widths == {0} \union {data[i] : i \in DOMAIN data}

ListInv ==
    /\ data \in Seq(Columns) /\ Len(data) <= MaxRows
    /\ selection \in Nat \union {NoRow}
    /\ cleared \in BOOLEAN
    /\ SelectionIsRow
    /\ \E m \in Widths : \A n \in Widths : m >= n

LEMMA WidthsAreNat ==
  ASSUME data \in Seq(Columns)
  PROVE  Widths \subseteq Nat
<1>1. \A i \in DOMAIN data : data[i] \in Columns
  OBVIOUS
<1>2. Columns \subseteq Nat
  BY RowsAssumption DEF RowsAssumption
<1> SUFFICES ASSUME NEW w \in Widths PROVE w \in Nat
  OBVIOUS
<1>3. w = 0 \/ \E i \in DOMAIN data : w = data[i]
  BY Zenon DEF Widths
<1>4. ASSUME NEW i \in DOMAIN data, w = data[i] PROVE w \in Nat
  <2>1. data[i] \in Columns
    BY <1>1, Zenon
  <2> QED
    BY <1>2, <1>4, <2>1, Zenon
<1>5. 0 \in Nat
  OBVIOUS
<1> QED
  BY <1>3, <1>4, <1>5, Zenon

LEMMA FirstRow ==
  ASSUME ListInv, NEW dim \in Sizes
  PROVE  /\ first_row(dim) \in Nat
         /\ selection = NoRow => first_row(dim) = 0
         /\ selection # NoRow => /\ selection \in Nat
                                 /\ selection < dim.y \div 2 => first_row(dim) = 0
                                 /\ selection >= dim.y \div 2 =>
                                        first_row(dim) = selection - dim.y \div 2
<1> DEFINE s == IF selection = NoRow THEN 0 ELSE selection
           h == dim.y \div 2
<1>1. s \in Nat /\ dim.y \in Nat
  BY RowsAssumption, SizesAssumption DEF RowsAssumption, SizesAssumption, ListInv
<1>2. h \in Nat
  BY <1>1
<1>3. first_row(dim) = Max({0, s - h})
  BY DEF first_row
<1> HIDE DEF h
<1>4. first_row(dim) = IF 0 >= s - h THEN 0 ELSE s - h
  BY <1>1, <1>2, <1>3, MaxOfTwo
<1> QED
  BY <1>1, <1>2, <1>4 DEF h

(* The rows drawn are rows of the list, and the selected one is one of     *)
(* them.                                                                   *)
LEMMA RowsDrawn ==
  ASSUME ListInv, NEW dim \in Sizes, first_row(dim) + dim.y >= 1
  PROVE  /\ rows_drawn(dim) \subseteq {i - 1 : i \in DOMAIN data}
         /\ selection # NoRow /\ selection < Len(data) /\ dim.y >= 3 => selection \in rows_drawn(dim)
<1>1. Len(data) \in Nat /\ DOMAIN data = 1..Len(data) /\ dim.y \in Nat
  BY SizesAssumption DEF SizesAssumption, ListInv
<1>2. first_row(dim) \in Nat
  BY FirstRow
<1> DEFINE e == Min({Len(data), first_row(dim) + dim.y - 1})
<1>3. e = IF Len(data) <= first_row(dim) + dim.y - 1 THEN Len(data) ELSE first_row(dim) + dim.y - 1
  BY <1>1, <1>2, MinOfTwo
<1>4. rows_drawn(dim) = first_row(dim)..(e - 1)
  BY DEF rows_drawn
<1> HIDE DEF e
<1>5. ASSUME NEW i \in rows_drawn(dim) PROVE i \in {j - 1 : j \in DOMAIN data}
  <2>1. i \in Nat /\ i < Len(data)
    BY <1>1, <1>2, <1>3, <1>4, <1>5
  <2>2. i + 1 \in DOMAIN data /\ i = (i + 1) - 1
    BY <1>1, <2>1
  <2> QED
    BY <2>2
<1>6. ASSUME selection # NoRow, selection < Len(data), dim.y >= 3 PROVE selection \in rows_drawn(dim)
  <2>1. selection \in Nat
    BY <1>6 DEF ListInv
  <2>2. dim.y \div 2 \in Nat /\ dim.y \div 2 < dim.y - 1
    BY <1>1, <1>6
  <2>3. first_row(dim) <= selection /\ selection < first_row(dim) + dim.y - 1
    BY <1>1, <1>2, <1>6, <2>1, <2>2, FirstRow
  <2> QED
    BY <1>1, <1>2, <1>3, <1>4, <1>6, <2>1, <2>3
<1> QED
  BY <1>5, <1>6

(* A list drawn in the space it asked for divides by its columns and gives *)
(* each of them at least one character.                                    *)
LEMMA DrawPanics ==
  ASSUME ListInv, NEW dim \in Sizes, draw_panics(dim)
  PROVE  column_count = 0 \/ dim.x < min_space.x \/ dim.y < min_space.y
<1> SUFFICES ASSUME column_count # 0, ~(dim.x < min_space.x), ~(dim.y < min_space.y) PROVE FALSE
  OBVIOUS
<1>1. column_count \in Widths
  BY DEF ListInv, Widths, column_count, Max
<1>2. Widths \subseteq Nat
  BY WidthsAreNat DEF ListInv
<1> DEFINE c == column_count
           width == dim.x - LIST_SCROLLBAR_WIDTH - LIST_SELECTION_WIDTH
<1>3. c \in Nat /\ c > 0 /\ dim.x \in Nat /\ dim.y \in Nat
  BY <1>1, <1>2, SizesAssumption DEF SizesAssumption
<1>4. min_space.x = c * 5 + 2 /\ min_space.y = 5
  BY <1>3 DEF min_space, LIST_SCROLLBAR_WIDTH
<1>5. first_row(dim) \in Nat
  BY FirstRow
<1> HIDE DEF c
<1>6. width \in Nat /\ width >= c
  BY <1>3, <1>4 DEF LIST_SCROLLBAR_WIDTH, LIST_SELECTION_WIDTH
<1> HIDE DEF width
<1>7. width \div c >= 1
  BY <1>3, <1>6
<1>8. first_row(dim) + dim.y >= 1
  BY <1>3, <1>4, <1>5
<1> QED
  BY <1>3, <1>5, <1>6, <1>7, <1>8 DEF draw_panics, width, c

-----------------------------------------------------------------------------
Inv == ListInv /\ TypeOK /\ SelectionShown /\ DrawnIfRoom

LEMMA ListInit == Init => Inv
<1> SUFFICES ASSUME Init PROVE Inv
  OBVIOUS
<1>1. data \in Seq(Columns) /\ Len(data) = 0 /\ Widths = {0}
  BY DEF Init, Widths
<1>2. \E m \in Widths : \A n \in Widths : m >= n
  BY <1>1
<1>3. MaxRows \in Nat
  BY RowsAssumption DEF RowsAssumption
<1>4. ListInv
  <2>1. selection \in Nat \union {NoRow} /\ cleared \in BOOLEAN /\ SelectionIsRow
    BY DEF Init, SelectionIsRow
  <2> QED
    BY <1>1, <1>2, <1>3, <2>1 DEF ListInv
<1> QED
  BY <1>4 DEF Init, Inv, ListInv, TypeOK, SelectionShown, DrawnIfRoom

LEMMA ListStep == Inv /\ [Next]_vars => Inv'
<1> SUFFICES ASSUME Inv, [Next]_vars PROVE Inv'
  OBVIOUS
<1> USE RowsAssumption DEF RowsAssumption
<1>0. ListInv /\ data \in Seq(Columns) /\ Len(data) \in Nat
  BY DEF Inv, ListInv
<1>1. ASSUME Changed, ListInv' PROVE Inv'
  BY <1>1 DEF Changed, Inv, ListInv, TypeOK, SelectionShown, DrawnIfRoom
<1>2. CASE clear
  <2>1. data' = <<>> /\ Widths' = {0}
    BY <1>2 DEF clear, Widths
  <2>2. ListInv'
    BY <1>0, <1>2, <2>1 DEF clear, ListInv, SelectionIsRow
  <2> QED
    BY <1>1, <1>2, <2>2 DEF clear
<1>3. ASSUME NEW n \in Columns, add_row(n) PROVE Inv'
  <2>1. data' = Append(data, n) /\ UNCHANGED <<selection, cleared>> /\ Len(data) < MaxRows
    BY <1>3 DEF add_row
  <2>2. data' \in Seq(Columns) /\ Len(data') = Len(data) + 1
    BY <1>0, <2>1
  <2>3. \A i \in DOMAIN data' : data'[i] = IF i \in DOMAIN data THEN data[i] ELSE n
    BY <1>0, <2>1
  <2>4. Widths' = Widths \union {n}
    BY <1>0, <2>1, <2>2, <2>3 DEF Widths
  <2>5. \E m \in Widths' : \A k \in Widths' : m >= k
    <3>1. Widths \subseteq Nat /\ n \in Nat
      BY <1>0, WidthsAreNat
    <3>2. PICK m \in Widths : \A k \in Widths : m >= k
      BY <1>0 DEF ListInv
    <3>3. CASE m >= n
      BY <2>4, <3>2, <3>3
    <3>4. CASE n > m
      <4>1. n \in Widths' /\ \A k \in Widths' : n >= k
        BY <2>4, <3>1, <3>2, <3>4
      <4> QED
        BY <4>1
    <3> QED
      BY <3>1, <3>3, <3>4
  <2>6. ListInv'
    BY <1>0, <2>1, <2>2, <2>5 DEF ListInv, SelectionIsRow
  <2> QED
    BY <1>1, <1>3, <2>6 DEF add_row
<1>4. ASSUME NEW incr \in Steps, increment_selection(incr) PROVE Inv'
  <2>1. data' = data /\ cleared' = FALSE /\ incr \in Nat
    BY <1>4 DEF increment_selection
  <2>2. Widths' = Widths
    BY <2>1 DEF Widths
  <2>3. selection' \in Nat \union {NoRow} /\ (selection' # NoRow => selection' < Len(data))
    <3>1. CASE data = <<>>
      BY <1>4, <3>1 DEF increment_selection
    <3>2. CASE data # <<>> /\ selection = NoRow
      BY <1>0, <1>4, <3>2 DEF increment_selection
    <3>3. CASE data # <<>> /\ selection # NoRow
      <4>1. selection \in Nat /\ Len(data) > 0
        BY <1>0, <3>3 DEF ListInv
      <4>2. selection' = Min({selection + incr, Len(data) - 1})
        BY <1>4, <3>3 DEF increment_selection
      <4>3. selection' = IF selection + incr <= Len(data) - 1 THEN selection + incr ELSE Len(data) - 1
        BY <1>0, <2>1, <4>1, <4>2, MinOfTwo
      <4> QED
        BY <1>0, <2>1, <4>1, <4>3
    <3> QED
      BY <3>1, <3>2, <3>3
  <2>4. ListInv'
    BY <1>0, <2>1, <2>2, <2>3 DEF ListInv, SelectionIsRow
  <2> QED
    BY <1>1, <1>4, <2>4 DEF increment_selection
<1>5. ASSUME NEW incr \in Steps, decrement_selection(incr) PROVE Inv'
  <2>1. data' = data /\ cleared' = (cleared /\ data # <<>> /\ selection # NoRow) /\ incr \in Nat
    BY <1>5 DEF decrement_selection
  <2>2. Widths' = Widths
    BY <2>1 DEF Widths
  <2>3. /\ selection' \in Nat \union {NoRow} /\ cleared' \in BOOLEAN
        /\ ~cleared' /\ selection' # NoRow => selection' < Len(data)
    <3>1. CASE data = <<>>
      BY <1>5, <2>1, <3>1 DEF decrement_selection
    <3>2. CASE data # <<>> /\ selection = NoRow
      BY <1>0, <1>5, <2>1, <3>2 DEF decrement_selection
    <3>3. CASE data # <<>> /\ selection # NoRow
      <4>1. selection \in Nat /\ Len(data) > 0 /\ (~cleared => selection < Len(data))
        BY <1>0, <3>3 DEF ListInv, SelectionIsRow
      <4>2. selection' = Max({selection - incr, 0})
        BY <1>5, <3>3 DEF decrement_selection
      <4>3. selection' = IF selection - incr >= 0 THEN selection - incr ELSE 0
        BY <2>1, <4>1, <4>2, MaxOfTwo
      <4>4. selection' \in Nat /\ (~cleared => selection' < Len(data))
        BY <1>0, <2>1, <4>1, <4>3
      <4>5. cleared' = cleared /\ cleared \in BOOLEAN
        BY <1>0, <2>1, <3>3 DEF ListInv
      <4> QED
        BY <4>4, <4>5
    <3> QED
      BY <3>1, <3>2, <3>3
  <2>4. ListInv'
    BY <1>0, <2>1, <2>2, <2>3 DEF ListInv, SelectionIsRow
  <2> QED
    BY <1>1, <1>5, <2>4 DEF decrement_selection
<1>6. ASSUME NEW dim \in Sizes, draw(dim) PROVE Inv'
  <2>1. UNCHANGED <<data, selection, cleared>> /\ screen' = dim
    BY <1>6 DEF draw
  <2>2. ListInv'
    BY <1>0, <2>1 DEF ListInv, SelectionIsRow, Widths
  <2>3. CASE draw_panics(dim)
    <3>1. status' = "panic" /\ shown' = {}
      BY <1>6, <2>3 DEF draw
    <3>2. column_count = 0 \/ dim.x < min_space.x \/ dim.y < min_space.y
      BY <1>0, <2>3, DrawPanics
    <3>3. DrawnIfRoom'
      BY <2>1, <3>2 DEF DrawnIfRoom, column_count, min_space
    <3>4. TypeOK'
      BY <2>1, <2>2, <3>1 DEF ListInv, TypeOK
    <3> QED
      BY <2>2, <3>1, <3>3, <3>4 DEF Inv, SelectionShown
  <2>4. CASE ~draw_panics(dim)
    <3>1. status' = "drawn" /\ shown' = rows_drawn(dim)
      BY <1>6, <2>4 DEF draw
    <3>2. first_row(dim) + dim.y >= 1
      <4>1. first_row(dim) \in Nat /\ dim.y \in Nat
        BY <1>0, FirstRow, SizesAssumption DEF SizesAssumption
      <4> QED
        BY <2>4, <4>1 DEF draw_panics
    <3>3. TypeOK'
      BY <1>0, <2>1, <2>2, <3>1, <3>2, RowsDrawn DEF ListInv, TypeOK
    <3>4. SelectionShown'
      BY <1>0, <2>1, <3>1, <3>2, RowsDrawn DEF SelectionShown
    <3> QED
      BY <2>2, <3>1, <3>3, <3>4 DEF Inv, DrawnIfRoom
  <2> QED
    BY <2>3, <2>4
<1>7. CASE UNCHANGED vars
  BY <1>7 DEF vars, Inv, ListInv, Widths, TypeOK, SelectionIsRow, SelectionShown, DrawnIfRoom,
              column_count, min_space
<1> QED
  BY <1>2, <1>3, <1>4, <1>5, <1>6, <1>7 DEF Next

(* Only rows that exist are drawn, in a window of any size. *)
THEOREM ListTypeCorrect == Spec => []TypeOK
<1>1. Inv => TypeOK
  BY DEF Inv
<1> QED
  BY <1>1, ListInit, ListStep, PTL DEF Spec

(* Without clear() the selection is always a row of the list, and it is on *)
(* the screen.                                                             *)
THEOREM SelectionAlwaysSound == Spec => []SelectionSound
<1>1. Inv => SelectionSound
  BY DEF Inv, ListInv, SelectionSound
<1> QED
  BY <1>1, ListInit, ListStep, PTL DEF Spec

(* A list with a column is drawn if it gets the space it asked for. *)
THEOREM AlwaysDrawnIfRoom == Spec => []DrawnIfRoom
<1>1. Inv => DrawnIfRoom
  BY DEF Inv
<1> QED
  BY <1>1, ListInit, ListStep, PTL DEF Spec
=============================================================================
