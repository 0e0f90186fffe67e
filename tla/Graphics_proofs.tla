-------------------------- MODULE Graphics_proofs ----------------------------
(***************************************************************************)
(* What is on the screen: the figures that the drawing functions leave,    *)
(* and the sprite that video_test_move moves, for every resolution and     *)
(* every argument.                                                         *)
(***************************************************************************)
EXTENDS Canvas, MoveSprite, TLAPS

LEMMA Resolutions ==
    /\ XResolution \in Nat /\ XResolution > 0
    /\ YResolution \in Nat /\ YResolution > 0
    /\ Margin \in Nat
BY ScreenAssumption, MarginAssumption

(* The multiples of m are at least m apart.                                *)
LEMMA Multiples ==
    ASSUME NEW m \in Nat, NEW a \in Nat, NEW b \in Nat
    PROVE  /\ a * m \in Nat /\ (a + 1) * m = a * m + m
           /\ a < b => a * m + m <= b * m
           /\ a <= b => a * m <= b * m
<1>1. a * m \in Nat /\ b * m \in Nat /\ (a + 1) * m = a * m + m
  OBVIOUS
<1>2. ASSUME a < b PROVE a * m + m <= b * m
  <2>1. PICK k \in Nat : b = a + 1 + k
    <3>1. b - a - 1 \in Nat /\ b = a + 1 + (b - a - 1)
      BY <1>2
    <3> QED
      BY <3>1
  <2>2. b * m = a * m + m + k * m /\ k * m \in Nat
    BY <2>1
  <2> QED
    BY <1>1, <2>2
<1> QED
  BY <1>1, <1>2

(* A number lies between one multiple of m and the next in one way only.   *)
LEMMA SameMultiple ==
    ASSUME NEW m \in Nat, NEW a \in Nat, NEW b \in Nat, NEW v \in Nat,
           a * m <= v, v < a * m + m, b * m <= v, v < b * m + m
    PROVE  a = b
<1>1. a * m \in Nat /\ b * m \in Nat
  BY Multiples
<1>2. (a < b => a * m + m <= b * m) /\ (b < a => b * m + m <= a * m)
  BY Multiples
<1> QED
  BY <1>1, <1>2

-----------------------------------------------------------------------------
(* Pixels of the screen are in the buffer, each at a place of its own.     *)
LEMMA PlaceInBuffer ==
    ASSUME NEW c \in 0 .. XResolution - 1, NEW r \in 0 .. YResolution - 1
    PROVE  Place(c, r) \in Places
<1>1. r \in Nat /\ r < YResolution /\ c \in Nat /\ c < XResolution
  BY Resolutions
<1>2. /\ r * XResolution \in Nat /\ r * XResolution + XResolution <= YResolution * XResolution
      /\ YResolution * XResolution \in Nat
  BY <1>1, Resolutions, Multiples
<1>3. XResolution * r = r * XResolution /\ XResolution * YResolution = YResolution * XResolution
  BY <1>1, Resolutions
<1> QED
  BY <1>1, <1>2, <1>3, Resolutions DEF Place, Places

LEMMA PlaceUnique ==
    ASSUME NEW c \in 0 .. XResolution - 1, NEW r \in Nat,
           NEW d \in 0 .. XResolution - 1, NEW s \in Nat,
           Place(c, r) = Place(d, s)
    PROVE  c = d /\ r = s
<1>1. c \in Nat /\ c < XResolution /\ d \in Nat /\ d < XResolution
  BY Resolutions
<1>2. /\ XResolution * r = r * XResolution /\ XResolution * s = s * XResolution
      /\ r * XResolution \in Nat /\ s * XResolution \in Nat
  BY <1>1, Resolutions, Multiples
<1> DEFINE v == r * XResolution + c
<1>3. v \in Nat /\ v = s * XResolution + d
  BY <1>1, <1>2 DEF Place
<1>4. /\ r * XResolution <= v /\ v < r * XResolution + XResolution
      /\ s * XResolution <= v /\ v < s * XResolution + XResolution
  BY <1>1, <1>2, <1>3, Resolutions
<1> HIDE DEF v
<1>5. r = s
  BY <1>1, <1>3, <1>4, Resolutions, SameMultiple
<1> QED
  BY <1>1, <1>2, <1>3, <1>5 DEF v

(* The pixels accepted that are seen at a pixel p of the screen: p itself, *)
(* and for the first of a row the one past the end of the row above.       *)
LEMMA SeenAt ==
    ASSUME NEW p \in Screen, NEW c, NEW r, Accepted(c, r)
    PROVE  Place(c, r) = Place(p[1], p[2]) <=>
               \/ c = p[1] /\ r = p[2]
               \/ c = XResolution /\ p[1] = 0 /\ r = p[2] - 1
<1>1. /\ p[1] \in 0 .. XResolution - 1 /\ p[2] \in Nat
      /\ c \in Nat /\ c <= XResolution /\ r \in Nat
  BY Resolutions DEF Screen, Accepted
<1>2. CASE c # XResolution
  <2>1. c \in 0 .. XResolution - 1
    BY <1>1, <1>2, Resolutions
  <2> QED
    BY <1>1, <1>2, <2>1, PlaceUnique
<1>3. CASE c = XResolution
  <2>1. Place(c, r) = Place(0, r + 1)
    <3>1. (r + 1) * XResolution = r * XResolution + XResolution
      BY <1>1, Resolutions, Multiples
    <3>2. XResolution * (r + 1) = (r + 1) * XResolution /\ XResolution * r = r * XResolution
      BY <1>1, Resolutions
    <3>3. r * XResolution \in Nat
      BY <1>1, Resolutions
    <3> QED
      BY <1>3, <3>1, <3>2, <3>3, Resolutions DEF Place
  <2>2. 0 \in 0 .. XResolution - 1 /\ r + 1 \in Nat
    BY <1>1, Resolutions
  <2>3. Place(c, r) = Place(p[1], p[2]) => p[1] = 0 /\ p[2] = r + 1
    BY <1>1, <2>1, <2>2, PlaceUnique
  <2>4. p[1] = 0 /\ p[2] = r + 1 => Place(c, r) = Place(p[1], p[2])
    BY <2>1
  <2>5. r = p[2] - 1 <=> p[2] = r + 1
    BY <1>1
  <2>6. ~(c = p[1] /\ r = p[2])
    BY <1>1, <1>3, Resolutions
  <2> QED
    BY <1>3, <2>3, <2>4, <2>5, <2>6
<1> QED
  BY <1>2, <1>3

LEMMA ScreenPixel ==
    ASSUME NEW p \in Screen
    PROVE  p[1] \in 0 .. XResolution - 1 /\ p[2] \in 0 .. YResolution - 1 /\ p = <<p[1], p[2]>>
BY DEF Screen

Painted(D, cell) ==
    [p \in Places |-> IF \E d \in D : Place(d[1], d[2]) = p THEN cell ELSE buffer[p]]

LEMMA PaintDoes ==
    ASSUME NEW D, NEW cell, Paint(D, cell)
    PROVE  /\ buffer' = Painted(D, cell)
           /\ spilled \in BOOLEAN => spilled' \in BOOLEAN
           /\ spilled' <=> (spilled \/ \E d \in D : Outside(d))
BY Zenon DEF Paint, Painted

(* Painting pixels of the screen changes those and no other, and stays in  *)
(* the buffer.                                                             *)
LEMMA PaintedInside ==
    ASSUME NEW D \in SUBSET Screen, NEW cell, Paint(D, cell), ~spilled
    PROVE  ~spilled'
<1>1. ASSUME NEW d \in D PROVE ~Outside(d)
  BY PlaceInBuffer, ScreenPixel DEF Outside
<1> QED
  BY <1>1, PaintDoes

LEMMA PaintedPixel ==
    ASSUME NEW D \in SUBSET Screen, NEW cell, NEW q \in Screen
    PROVE  Painted(D, cell)[Place(q[1], q[2])] =
               IF q \in D THEN cell ELSE buffer[Place(q[1], q[2])]
<1>1. Place(q[1], q[2]) \in Places
  BY PlaceInBuffer, ScreenPixel
<1>2. ASSUME NEW d \in D, Place(d[1], d[2]) = Place(q[1], q[2]) PROVE d = q
  <2>1. d[1] = q[1] /\ d[2] = q[2]
    BY <1>2, PlaceUnique, ScreenPixel
  <2>2. d = <<d[1], d[2]>> /\ q = <<q[1], q[2]>>
    BY ScreenPixel
  <2> QED
    BY <2>1, <2>2
<1>3. (\E d \in D : Place(d[1], d[2]) = Place(q[1], q[2])) <=> q \in D
  BY <1>2
<1> QED
  BY <1>1, <1>3 DEF Painted

LEMMA PaintedShows ==
    ASSUME NEW D \in SUBSET Screen, Paint(D, <<0, 0>>)
    PROVE  Drawn' = Drawn \cup D
<1>1. Uncleared # <<0, 0>>
  BY DEF Uncleared
<1>2. ASSUME NEW q \in Screen
      PROVE  buffer'[Place(q[1], q[2])] # Uncleared <=>
                 q \in D \/ buffer[Place(q[1], q[2])] # Uncleared
  <2>1. buffer'[Place(q[1], q[2])] = IF q \in D THEN <<0, 0>> ELSE buffer[Place(q[1], q[2])]
    BY PaintedPixel, PaintDoes
  <2> QED
    BY <1>1, <2>1
<1> QED
  BY <1>2 DEF Drawn, Screen, Place, Uncleared

-----------------------------------------------------------------------------
(* The rows of the area that are done.                                     *)
Rows(k) == Box(x, y, width, k)

Columns == x .. x + width - 1

FigureType ==
    /\ figure \in {"rectangle", "sprite", "green", "pattern"}
    /\ x \in Int /\ y \in Int /\ width \in Nat /\ height \in Nat
    /\ i \in Nat /\ j \in Nat /\ result \in {Killed, -1, 0, 1}
    /\ spilled \in BOOLEAN /\ no_rectangles \in Nat
    /\ figure \in {"rectangle", "sprite"} => y \in Nat

(* A rectangle or sprite: of its first i rows the pixels accepted are      *)
(* written, in the buffer or past it; in a rectangle none was refused      *)
(* unless it returned 1.                                                   *)
RowsInv ==
    figure \in {"rectangle", "sprite"} =>
        /\ \A p \in Places :
               buffer[p] # Uncleared <=>
                   \E d \in Rows(i) : Accepted(d[1], d[2]) /\ Place(d[1], d[2]) = p
        /\ spilled <=> \E d \in Rows(i) : Outside(d)
        /\ i <= height /\ result # Killed /\ (result = 0 => i = height)
        /\ figure = "sprite" => result # 1
        /\ figure = "rectangle" =>
               (result # 1 <=> \A d \in Rows(i) : Accepted(d[1], d[2]))

(* An area erased: what is visible of its first i rows.                    *)
GreenInv ==
    figure = "green" =>
        /\ Drawn = Rows(i) \cap Screen /\ i <= height /\ ~spilled
        /\ result = 0 => i = height \/ y + i = YResolution

LEMMA RowsAdd ==
    ASSUME FigureType
    PROVE  Rows(i + 1) = Rows(i) \cup (Columns \X {y + i})
<1>1. y .. y + (i + 1) - 1 = (y .. y + i - 1) \cup {y + i}
  BY DEF FigureType
<1> QED
  BY <1>1 DEF Rows, Columns, Box

LEMMA GreenRowClips ==
    ASSUME FigureType, y + i # YResolution
    PROVE  {c \in GreenColumns(width) : Accepted(c, y + i)} \X {y + i} =
               (Columns \X {y + i}) \cap Screen
<1>1. ASSUME NEW c \in Columns
      PROVE  (c < XResolution \/ x > XResolution) /\ Accepted(c, y + i) <=>
                 c \in 0 .. XResolution - 1 /\ y + i \in 0 .. YResolution - 1
  <2>1. c \in Int /\ x \in Int /\ x <= c /\ y + i \in Int
    BY DEF Columns, FigureType
  <2> QED
    BY <2>1, Resolutions DEF Accepted
<1> QED
  BY <1>1 DEF GreenColumns, Columns, Screen

LEMMA FigureTypeStep ==
    ASSUME FigureType, [CanvasNext]_canvasVars
    PROVE  FigureType'
<1>0. Killed' = Killed
  BY DEF Killed
<1>1. ASSUME NEW D, NEW cell, Paint(D, cell) PROVE spilled' \in BOOLEAN
  BY <1>1, PaintDoes DEF FigureType
<1>2. CASE RectangleRow
  BY <1>0, <1>1, <1>2 DEF RectangleRow, FigureType, call
<1>3. CASE SpriteRow
  BY <1>0, <1>1, <1>3 DEF SpriteRow, FigureType, call
<1>4. CASE GreenRow
  BY <1>0, <1>1, <1>4 DEF GreenRow, FigureType, call
<1>5. CASE PatternOfNone
  BY <1>0, <1>5 DEF PatternOfNone, FigureType, call
<1>6. CASE PatternCell
  BY <1>0, <1>1, <1>6 DEF PatternCell, FigureType, call
<1>7. CASE EmptyFigure
  BY <1>0, <1>7 DEF EmptyFigure, FigureType, call
<1>8. CASE UNCHANGED canvasVars
  BY <1>0, <1>8 DEF FigureType, canvasVars, call
<1> QED
  BY <1>2, <1>3, <1>4, <1>5, <1>6, <1>7, <1>8 DEF CanvasNext

(* Every step keeps what the arguments determine.                          *)
LEMMA CallKept ==
    ASSUME [CanvasNext]_canvasVars
    PROVE  /\ figure' = figure /\ x' = x /\ y' = y /\ width' = width /\ height' = height
           /\ no_rectangles' = no_rectangles
           /\ Area' = Area /\ Columns' = Columns
<1>1. /\ figure' = figure /\ x' = x /\ y' = y /\ width' = width /\ height' = height
      /\ no_rectangles' = no_rectangles
  BY DEF CanvasNext, RectangleRow, SpriteRow, GreenRow, PatternOfNone, PatternCell, EmptyFigure,
         canvasVars, call
<1> QED
  BY <1>1 DEF Area, Columns, Box

(* A row of a rectangle or sprite drawn.                                   *)
LEMMA RowAdded ==
    ASSUME FigureType, RowsInv, figure \in {"rectangle", "sprite"},
           [CanvasNext]_canvasVars, i' = i + 1,
           Paint(RowDrawn(x, y + i, width) \X {y + i}, <<0, 0>>)
    PROVE  /\ \A p \in Places :
                  buffer'[p] # Uncleared <=>
                      \E d \in Rows(i + 1) : Accepted(d[1], d[2]) /\ Place(d[1], d[2]) = p
           /\ spilled' <=> \E d \in Rows(i + 1) : Outside(d)
           /\ Rows(i)' = Rows(i + 1)
<1> DEFINE row == RowDrawn(x, y + i, width) \X {y + i}
<1>1. ASSUME NEW d
      PROVE  d \in row <=> d \in Columns \X {y + i} /\ Accepted(d[1], d[2])
  BY DEF RowDrawn, Columns
<1>2. \A d \in row : Accepted(d[1], d[2])
  BY <1>1
<1>3. Rows(i + 1) = Rows(i) \cup (Columns \X {y + i})
  BY RowsAdd
<1> HIDE DEF row
<1>4. Paint(row, <<0, 0>>)
  BY DEF row
<1>5. ASSUME NEW p \in Places
      PROVE  buffer'[p] # Uncleared <=>
                 \E d \in Rows(i + 1) : Accepted(d[1], d[2]) /\ Place(d[1], d[2]) = p
  <2>1. buffer'[p] = IF \E d \in row : Place(d[1], d[2]) = p THEN <<0, 0>> ELSE buffer[p]
    BY <1>4, PaintDoes DEF Painted
  <2>2. <<0, 0>> # Uncleared
    BY DEF Uncleared
  <2>3. buffer[p] # Uncleared <=>
            \E d \in Rows(i) : Accepted(d[1], d[2]) /\ Place(d[1], d[2]) = p
    BY DEF RowsInv
  <2>4. (\E d \in row : Place(d[1], d[2]) = p) <=>
            \E d \in Columns \X {y + i} : Accepted(d[1], d[2]) /\ Place(d[1], d[2]) = p
    BY <1>1
  <2> QED
    BY <1>3, <2>1, <2>2, <2>3, <2>4
<1>6. spilled' <=> \E d \in Rows(i + 1) : Outside(d)
  <2>1. spilled' <=> (spilled \/ \E d \in row : Outside(d))
    BY <1>4, PaintDoes
  <2>2. spilled <=> \E d \in Rows(i) : Outside(d)
    BY DEF RowsInv
  <2>3. (\E d \in row : Outside(d)) <=> \E d \in Columns \X {y + i} : Outside(d)
    BY <1>1 DEF Outside
  <2> QED
    BY <1>3, <2>1, <2>2, <2>3
<1>7. Rows(i)' = Rows(i + 1)
  BY CallKept DEF Rows, Box
<1> QED
  BY <1>5, <1>6, <1>7

LEMMA RowsStep ==
    ASSUME FigureType, RowsInv, [CanvasNext]_canvasVars
    PROVE  RowsInv'
<1> SUFFICES ASSUME figure \in {"rectangle", "sprite"}
             PROVE  (/\ \A p \in Places :
                            buffer[p] # Uncleared <=>
                                \E d \in Rows(i) :
                                    Accepted(d[1], d[2]) /\ Place(d[1], d[2]) = p
                     /\ spilled <=> \E d \in Rows(i) : Outside(d)
                     /\ i <= height /\ result # Killed /\ (result = 0 => i = height)
                     /\ figure = "sprite" => result # 1
                     /\ figure = "rectangle" =>
                            (result # 1 <=> \A d \in Rows(i) : Accepted(d[1], d[2])))'
  BY CallKept DEF RowsInv
<1>0. i \in Nat /\ height \in Nat /\ Killed = -2
  BY DEF FigureType, Killed
<1>1. CASE RectangleRow
  <2>1. /\ i < height /\ i' = i + 1 /\ figure = "rectangle"
        /\ Paint(RowDrawn(x, y + i, width) \X {y + i}, <<0, 0>>)
        /\ result = -1
        /\ result' = IF RowDrawn(x, y + i, width) # x .. x + width - 1 THEN 1
                     ELSE IF i' = height THEN 0 ELSE -1
    BY <1>1 DEF RectangleRow
  <2>2. RowDrawn(x, y + i, width) = x .. x + width - 1 <=>
            \A d \in Columns \X {y + i} : Accepted(d[1], d[2])
    <3>1. RowDrawn(x, y + i, width) = x .. x + width - 1 <=>
              \A c \in Columns : Accepted(c, y + i)
      BY DEF RowDrawn, Columns
    <3>2. (\A c \in Columns : Accepted(c, y + i)) <=>
              \A d \in Columns \X {y + i} : Accepted(d[1], d[2])
      <4>1. ASSUME \A c \in Columns : Accepted(c, y + i), NEW d \in Columns \X {y + i}
            PROVE  Accepted(d[1], d[2])
        BY <4>1
      <4>2. ASSUME \A d \in Columns \X {y + i} : Accepted(d[1], d[2]), NEW c \in Columns
            PROVE  Accepted(c, y + i)
        <5>1. <<c, y + i>> \in Columns \X {y + i}
          OBVIOUS
        <5> QED
          BY <4>2, <5>1
      <4> QED
        BY <4>1, <4>2
    <3> QED
      BY <3>1, <3>2
  <2>3. \A d \in Rows(i) : Accepted(d[1], d[2])
    BY <2>1 DEF RowsInv
  <2>4. Rows(i + 1) = Rows(i) \cup (Columns \X {y + i})
    BY RowsAdd
  <2>5. (\A d \in Rows(i + 1) : Accepted(d[1], d[2])) <=>
            RowDrawn(x, y + i, width) = x .. x + width - 1
    BY <2>2, <2>3, <2>4
  <2>6. result' # 1 <=> \A d \in Rows(i + 1) : Accepted(d[1], d[2])
    BY <2>1, <2>5
  <2>7. i' <= height /\ result' # Killed /\ (result' = 0 => i' = height)
    BY <1>0, <2>1
  <2> QED
    BY <2>1, <2>6, <2>7, RowAdded, CallKept DEF Killed, Places, Uncleared, Accepted, Place, Outside
<1>2. CASE SpriteRow
  <2>1. /\ i < height /\ i' = i + 1 /\ figure = "sprite"
        /\ Paint(RowDrawn(x, y + i, width) \X {y + i}, <<0, 0>>)
        /\ result' = IF i' = height THEN 0 ELSE -1
    BY <1>2 DEF SpriteRow
  <2>2. i' <= height /\ result' # Killed /\ (result' = 0 => i' = height) /\ result' # 1
    BY <1>0, <2>1
  <2> QED
    BY <2>1, <2>2, RowAdded, CallKept DEF Killed, Places, Uncleared, Accepted, Place, Outside
<1>3. CASE EmptyFigure
  <2>1. i' = i /\ height = 0 /\ result = -1 /\ result' = 0 /\ buffer' = buffer
        /\ (spilled' <=> spilled)
    BY <1>3 DEF EmptyFigure
  <2>2. Rows(i)' = Rows(i)
    BY <2>1, CallKept DEF Rows, Box
  <2>3. i = 0
    BY <1>0, <2>1 DEF RowsInv
  <2> QED
    BY <1>0, <2>1, <2>2, <2>3, CallKept
    DEF RowsInv, Killed, Places, Uncleared, Accepted, Place, Outside
<1>4. CASE UNCHANGED canvasVars
  <2>1. i' = i /\ result' = result /\ buffer' = buffer /\ (spilled' <=> spilled)
    BY <1>4 DEF canvasVars
  <2>2. Rows(i)' = Rows(i)
    BY <2>1, CallKept DEF Rows, Box
  <2> QED
    BY <2>1, <2>2, CallKept DEF RowsInv, Killed, Places, Uncleared, Accepted, Place, Outside
<1> QED
  BY <1>1, <1>2, <1>3, <1>4 DEF CanvasNext, GreenRow, PatternOfNone, PatternCell

LEMMA GreenStep ==
    ASSUME FigureType, GreenInv, [CanvasNext]_canvasVars
    PROVE  GreenInv'
<1> SUFFICES ASSUME figure = "green"
             PROVE  (/\ Drawn = Rows(i) \cap Screen /\ i <= height /\ ~spilled
                     /\ result = 0 => i = height \/ y + i = YResolution)'
  BY CallKept DEF GreenInv
<1>0. i \in Nat /\ height \in Nat
  BY DEF FigureType
<1>1. CASE GreenRow /\ y + i = YResolution
  <2>1. i' = i /\ buffer' = buffer /\ (spilled' <=> spilled)
    BY <1>1 DEF GreenRow
  <2> QED
    BY <1>0, <1>1, <2>1, CallKept DEF GreenInv, Drawn, Rows, Box, Screen, Place, Uncleared
<1>2. CASE GreenRow /\ y + i # YResolution
  <2>1. /\ Paint((Columns \X {y + i}) \cap Screen, <<0, 0>>)
        /\ (Columns \X {y + i}) \cap Screen \in SUBSET Screen
    BY <1>2, GreenRowClips DEF GreenRow
  <2>2. Drawn' = Drawn \cup ((Columns \X {y + i}) \cap Screen) /\ ~spilled'
    BY <2>1, PaintedShows, PaintedInside DEF GreenInv
  <2>3. Drawn' = Rows(i + 1) \cap Screen
    BY <2>2, RowsAdd DEF GreenInv
  <2>4. Rows(i)' = Rows(i + 1) /\ Screen' = Screen
    BY <1>2, CallKept DEF Rows, Box, Screen, GreenRow
  <2> QED
    BY <1>0, <1>2, <2>2, <2>3, <2>4, CallKept DEF GreenRow
<1>3. CASE EmptyFigure
  <2>1. i' = i /\ height = 0 /\ buffer' = buffer /\ (spilled' <=> spilled)
    BY <1>3 DEF EmptyFigure
  <2> QED
    BY <1>0, <2>1, CallKept DEF GreenInv, Drawn, Rows, Box, Screen, Place, Uncleared
<1>4. CASE UNCHANGED canvasVars
  <2>1. i' = i /\ result' = result /\ buffer' = buffer /\ (spilled' <=> spilled)
    BY <1>4 DEF canvasVars
  <2> QED
    BY <2>1, CallKept DEF GreenInv, Drawn, Rows, Box, Screen, Place, Uncleared
<1> QED
  BY <1>1, <1>2, <1>3, <1>4 DEF CanvasNext, RectangleRow, SpriteRow, PatternOfNone, PatternCell

(* Below the last row of the screen there is nothing to show.              *)
LEMMA RowsBelow ==
    ASSUME FigureType, i <= height, y + i = YResolution
    PROVE  Rows(i) \cap Screen = Area \cap Screen
<1>1. ASSUME NEW r \in 0 .. YResolution - 1
      PROVE  r \in y .. y + i - 1 <=> r \in y .. y + height - 1
  BY Resolutions DEF FigureType
<1> QED
  BY <1>1 DEF Rows, Box, Area, Screen

(* The whole figure: seen where it is visible, and one row below where it  *)
(* covers the column past the last.                                        *)
LEMMA WholeFigure ==
    ASSUME FigureType, RowsInv, figure \in {"rectangle", "sprite"}, Rows(i) = Area
    PROVE  Drawn = (Area \cap Screen) \cup Wrapped
<1> SUFFICES ASSUME NEW p \in Screen
             PROVE  buffer[Place(p[1], p[2])] # Uncleared <=> p \in Area \/ p \in Wrapped
  BY DEF Drawn, Wrapped
<1>1. Place(p[1], p[2]) \in Places
  BY PlaceInBuffer, ScreenPixel
<1>2. buffer[Place(p[1], p[2])] # Uncleared <=>
          \E d \in Area : Accepted(d[1], d[2]) /\ Place(d[1], d[2]) = Place(p[1], p[2])
  BY <1>1 DEF RowsInv
<1>3. /\ p[1] \in 0 .. XResolution - 1 /\ p[2] \in 0 .. YResolution - 1
      /\ p = <<p[1], p[2]>> /\ Accepted(p[1], p[2])
  BY ScreenPixel, Resolutions DEF Accepted
<1>4. ASSUME NEW d \in Area, Accepted(d[1], d[2]), Place(d[1], d[2]) = Place(p[1], p[2])
      PROVE  p \in Area \/ p \in Wrapped
  <2>1. d = <<d[1], d[2]>>
    BY DEF Area, Box
  <2>2. CASE d[1] = p[1] /\ d[2] = p[2]
    BY <1>3, <2>1, <2>2
  <2>3. CASE d[1] = XResolution /\ p[1] = 0 /\ d[2] = p[2] - 1
    <3>1. <<XResolution, p[2] - 1>> \in Area
      BY <2>1, <2>3
    <3> QED
      BY <2>3, <3>1 DEF Wrapped
  <2> QED
    BY <1>4, <2>2, <2>3, SeenAt
<1>5. ASSUME p \in Wrapped
      PROVE  \E d \in Area : Accepted(d[1], d[2]) /\ Place(d[1], d[2]) = Place(p[1], p[2])
  <2>1. p[1] = 0 /\ <<XResolution, p[2] - 1>> \in Area
    BY <1>5 DEF Wrapped
  <2>2. CASE p[2] # 0
    <3>1. Accepted(XResolution, p[2] - 1)
      BY <1>3, <2>2, Resolutions DEF Accepted
    <3>2. Place(XResolution, p[2] - 1) = Place(p[1], p[2])
      BY <2>1, <3>1, SeenAt
    <3> QED
      BY <2>1, <3>1, <3>2
  <2>3. CASE p[2] = 0
    <3>1. -1 \in y .. y + height - 1
      BY <2>1, <2>3 DEF Area, Box
    <3>2. y >= 0
      BY DEF FigureType
    <3> QED
      BY <3>1, <3>2 DEF FigureType
  <2> QED
    BY <2>2, <2>3
<1> QED
  BY <1>2, <1>3, <1>4, <1>5

LEMMA FiguresDrawn ==
    ASSUME FigureType, RowsInv, GreenInv
    PROVE  /\ DrawsVisiblePart /\ GreenClips
           /\ figure # "pattern" => StaysInBuffer
<1>1. Rows(height) = Area
  BY DEF Rows, Area
<1>2. Rows(i) \subseteq Area \/ i > height
  BY DEF Rows, Area, Box, FigureType
<1>3. DrawsVisiblePart
  <2>1. ASSUME figure \in {"rectangle", "sprite"}, result = 0
        PROVE  Drawn = (Area \cap Screen) \cup Wrapped
    BY <1>1, <2>1, WholeFigure DEF RowsInv
  <2>2. ASSUME figure = "rectangle", result # -1
        PROVE  result = 0 <=> \A d \in Area : Accepted(d[1], d[2])
    <3>1. i <= height /\ result \in {0, 1} /\ (result = 0 => i = height)
      BY <2>2 DEF RowsInv, FigureType, Killed
    <3>2. Rows(i) \subseteq Area
      BY <1>2, <3>1 DEF FigureType
    <3>3. result # 1 <=> \A d \in Rows(i) : Accepted(d[1], d[2])
      BY <2>2 DEF RowsInv
    <3> QED
      BY <1>1, <3>1, <3>2, <3>3
  <2> QED
    BY <2>1, <2>2 DEF DrawsVisiblePart
<1>4. GreenClips
  BY <1>1, RowsBelow DEF GreenClips, GreenInv
<1>5. ASSUME figure # "pattern" PROVE StaysInBuffer
  <2>1. CASE figure = "green"
    BY <2>1 DEF GreenInv, StaysInBuffer
  <2>2. CASE figure \in {"rectangle", "sprite"}
    <3>1. i <= height /\ (spilled <=> \E d \in Rows(i) : Outside(d))
          /\ (result = 0 => i = height)
      BY <2>2 DEF RowsInv
    <3>2. Rows(i) \subseteq Area
      BY <1>2, <3>1 DEF FigureType
    <3> QED
      BY <1>1, <2>2, <3>1, <3>2 DEF StaysInBuffer
  <2> QED
    BY <1>5, <2>1, <2>2 DEF FigureType
<1> QED
  BY <1>3, <1>4, <1>5

-----------------------------------------------------------------------------
(* The pixels of the rectangle in row a and column b of the pattern.       *)
InCell(p, a, b) ==
    /\ b * x_rectangle <= p[1] /\ p[1] < b * x_rectangle + x_rectangle
    /\ a * y_rectangle <= p[2] /\ p[2] < a * y_rectangle + y_rectangle

Cell(a, b) == {p \in Screen : InCell(p, a, b)}

Indices == 0 .. no_rectangles - 1

(* The rectangle in row a and column b is drawn before the one in k, l.    *)
Before(a, b, k, l) == a < k \/ (a = k /\ b < l)

(* The rectangles before row i and column j are drawn, each in a colour of *)
(* its own; the others, and what is in none, are as they were.             *)
Tiling ==
    /\ i <= no_rectangles /\ j < no_rectangles
    /\ result \in {-1, 0} /\ (result = -1 => i < no_rectangles)
    /\ result = 0 => i = no_rectangles
    /\ \A p \in Screen, a, b \in Indices :
           p \in Cell(a, b) => buffer[Place(p[1], p[2])] =
                                   IF Before(a, b, i, j) THEN <<a, b>> ELSE Uncleared
    /\ \A p \in Screen :
           (\A a, b \in Indices : p \notin Cell(a, b)) => buffer[Place(p[1], p[2])] = Uncleared

PatternInv ==
    figure = "pattern" =>
        /\ ~spilled
        /\ no_rectangles = 0 => result \in {-1, Killed}
        /\ no_rectangles # 0 => Tiling

LEMMA RectangleSize ==
    ASSUME no_rectangles \in Nat \ {0}
    PROVE  /\ x_rectangle \in Nat /\ y_rectangle \in Nat
           /\ no_rectangles * x_rectangle \in Nat /\ no_rectangles * y_rectangle \in Nat
           /\ no_rectangles * x_rectangle <= XResolution
           /\ no_rectangles * y_rectangle <= YResolution
           /\ XResolution - no_rectangles * x_rectangle < no_rectangles
           /\ YResolution - no_rectangles * y_rectangle < no_rectangles
<1>1. ASSUME NEW v \in Nat, NEW d \in Nat \ {0}
      PROVE  /\ v \div d \in Nat /\ d * (v \div d) \in Nat
             /\ d * (v \div d) <= v /\ v - d * (v \div d) < d
  <2>1. v \div d \in Nat
    OBVIOUS
  <2>2. d * (v \div d) <= v
    OBVIOUS
  <2>3. v - d * (v \div d) < d
    OBVIOUS
  <2> QED
    BY <2>1, <2>2, <2>3
<1> QED
  BY <1>1, Resolutions DEF x_rectangle, y_rectangle

(* The rectangles of the pattern lie inside the screen.                    *)
LEMMA CellOnScreen ==
    ASSUME no_rectangles \in Nat \ {0}, NEW a \in Indices, NEW b \in Indices
    PROVE  /\ b * x_rectangle \in Nat
           /\ b * x_rectangle + x_rectangle <= no_rectangles * x_rectangle
           /\ b * x_rectangle + x_rectangle <= XResolution
           /\ a * y_rectangle \in Nat
           /\ a * y_rectangle + y_rectangle <= no_rectangles * y_rectangle
           /\ a * y_rectangle + y_rectangle <= YResolution
<1>1. a \in Nat /\ b \in Nat /\ a < no_rectangles /\ b < no_rectangles
  BY DEF Indices
<1>2. /\ b * x_rectangle \in Nat
      /\ b * x_rectangle + x_rectangle <= no_rectangles * x_rectangle
  BY <1>1, RectangleSize, Multiples
<1>3. /\ a * y_rectangle \in Nat
      /\ a * y_rectangle + y_rectangle <= no_rectangles * y_rectangle
  BY <1>1, RectangleSize, Multiples
<1> QED
  BY <1>2, <1>3, RectangleSize, Resolutions

(* What a step of the pattern draws is one rectangle.                      *)
LEMMA CellDrawn ==
    ASSUME no_rectangles \in Nat \ {0}, NEW a \in Indices, NEW b \in Indices
    PROVE  UNION {RowDrawn(b * x_rectangle, r, x_rectangle) \X {r} :
                  r \in a * y_rectangle .. (a + 1) * y_rectangle - 1} = Cell(a, b)
<1> DEFINE L == b * x_rectangle  T == a * y_rectangle  B == (a + 1) * y_rectangle
           Lines(R) == UNION {RowDrawn(L, r, x_rectangle) \X {r} : r \in R}
           U == Lines(T .. T + y_rectangle - 1)
<1>1. B = T + y_rectangle
  <2>1. a \in Nat
    BY DEF Indices
  <2> QED
    BY <2>1, RectangleSize, Multiples
<1>2. /\ L \in Nat /\ T \in Nat /\ x_rectangle \in Nat /\ y_rectangle \in Nat
      /\ L + x_rectangle <= XResolution /\ T + y_rectangle <= YResolution
  BY CellOnScreen, RectangleSize
<1> HIDE DEF L, T, B
<1>3. ASSUME NEW p \in U PROVE p \in Screen /\ InCell(p, a, b)
  <2>1. PICK r \in T .. T + y_rectangle - 1 : p \in RowDrawn(L, r, x_rectangle) \X {r}
    BY <1>3
  <2>2. PICK c \in L .. L + x_rectangle - 1 : p = <<c, r>>
    BY <2>1 DEF RowDrawn
  <2>3. c \in 0 .. XResolution - 1 /\ r \in 0 .. YResolution - 1
    BY <1>2, Resolutions
  <2>4. /\ L <= p[1] /\ p[1] < L + x_rectangle
        /\ T <= p[2] /\ p[2] < T + y_rectangle
    BY <1>2, <2>2
  <2> QED
    BY <2>2, <2>3, <2>4 DEF Screen, InCell, L, T
<1>4. ASSUME NEW p \in Screen, InCell(p, a, b) PROVE p \in U
  <2>1. p[1] \in 0 .. XResolution - 1 /\ p[2] \in 0 .. YResolution - 1 /\ p = <<p[1], p[2]>>
    BY ScreenPixel
  <2>2. /\ L <= p[1] /\ p[1] < L + x_rectangle
        /\ T <= p[2] /\ p[2] < T + y_rectangle
    BY <1>4 DEF InCell, L, T
  <2>3. p[1] \in RowDrawn(L, p[2], x_rectangle) /\ p[2] \in T .. T + y_rectangle - 1
    BY <1>2, <2>1, <2>2, Resolutions DEF RowDrawn, Accepted
  <2> QED
    BY <2>1, <2>3
<1>5. U = Cell(a, b)
  BY <1>3, <1>4 DEF Cell
<1>6. T .. B - 1 = T .. T + y_rectangle - 1
  BY <1>1, <1>2
<1>7. Lines(T .. B - 1) = Cell(a, b)
  <2> HIDE DEF Lines
  <2> QED
    BY <1>5, <1>6
<1> QED
  BY <1>7 DEF L, T, B

(* Two rectangles of the pattern share no pixel.                           *)
LEMMA CellUnique ==
    ASSUME no_rectangles \in Nat \ {0}, NEW p \in Screen,
           NEW a \in Indices, NEW b \in Indices, NEW k \in Indices, NEW l \in Indices,
           p \in Cell(a, b), p \in Cell(k, l)
    PROVE  a = k /\ b = l
<1>1. p[1] \in Nat /\ p[2] \in Nat
  BY ScreenPixel
<1>2. a \in Nat /\ b \in Nat /\ k \in Nat /\ l \in Nat
  BY DEF Indices
<1>3. InCell(p, a, b) /\ InCell(p, k, l)
  BY DEF Cell
<1>4. a = k
  BY <1>1, <1>2, <1>3, RectangleSize, SameMultiple DEF InCell
<1>5. b = l
  BY <1>1, <1>2, <1>3, RectangleSize, SameMultiple DEF InCell
<1> QED
  BY <1>4, <1>5

LEMMA PatternStep ==
    ASSUME FigureType, PatternInv, [CanvasNext]_canvasVars
    PROVE  PatternInv'
<1>1. CASE figure = "pattern" /\ PatternCell
  <2>1. /\ no_rectangles \in Nat \ {0} /\ i \in Nat /\ j \in Nat
        /\ i < no_rectangles /\ j < no_rectangles /\ result = -1
        /\ Tiling /\ ~spilled
    BY <1>1 DEF FigureType, PatternInv, Tiling, PatternCell
  <2>2. i \in Indices /\ j \in Indices
    BY <2>1 DEF Indices
  <2>3. /\ Indices' = Indices /\ x_rectangle' = x_rectangle /\ y_rectangle' = y_rectangle
        /\ no_rectangles' = no_rectangles /\ Screen' = Screen
    BY CallKept DEF Indices, x_rectangle, y_rectangle, Screen
  <2>4. \A a, b : Cell(a, b)' = Cell(a, b)
    BY <2>3 DEF Cell, InCell
  <2>5. Paint(Cell(i, j), <<i, j>>)
    <3>1. UNION {RowDrawn(j * x_rectangle, r, x_rectangle) \X {r} :
                 r \in i * y_rectangle .. (i + 1) * y_rectangle - 1} = Cell(i, j)
      BY <2>1, <2>2, CellDrawn
    <3> QED
      BY <1>1, <3>1, Zenon DEF PatternCell
  <2>6. \A q \in Screen : buffer'[Place(q[1], q[2])] =
                             IF q \in Cell(i, j) THEN <<i, j>> ELSE buffer[Place(q[1], q[2])]
    <3>1. Cell(i, j) \in SUBSET Screen
      BY DEF Cell
    <3> QED
      BY <2>5, <3>1, PaintedPixel, PaintDoes
  <2>7. ~(i * y_rectangle > YResolution)
    BY <2>1, <2>2, CellOnScreen, RectangleSize, Resolutions
  <2>8. \/ /\ j + 1 < no_rectangles /\ j' = j + 1 /\ i' = i /\ result' = -1
        \/ /\ j + 1 = no_rectangles /\ j' = 0 /\ i' = i + 1
           /\ result' = IF i + 1 = no_rectangles THEN 0 ELSE -1
    BY <1>1, <2>1, <2>7 DEF PatternCell
  <2>9. /\ i' <= no_rectangles /\ j' < no_rectangles
        /\ result' \in {-1, 0} /\ (result' = -1 => i' < no_rectangles)
        /\ (result' = 0 => i' = no_rectangles)
    BY <2>1, <2>8
  <2>10. ASSUME NEW p \in Screen, NEW a \in Indices, NEW b \in Indices, p \in Cell(a, b)
         PROVE  buffer'[Place(p[1], p[2])] =
                    IF Before(a, b, i', j') THEN <<a, b>> ELSE Uncleared
    <3>0. a \in Nat /\ b \in Nat /\ b < no_rectangles
      BY <2>1 DEF Indices
    <3>1. CASE p \in Cell(i, j)
      <4>1. a = i /\ b = j
        BY <2>1, <2>2, <2>10, <3>1, CellUnique
      <4>2. Before(a, b, i', j')
        BY <2>1, <2>8, <4>1 DEF Before
      <4> QED
        BY <2>6, <3>1, <4>1, <4>2
    <3>2. CASE p \notin Cell(i, j)
      <4>1. ~(a = i /\ b = j)
        BY <2>10, <3>2
      <4>2. Before(a, b, i', j') <=> Before(a, b, i, j)
        BY <2>1, <2>8, <3>0, <4>1 DEF Before
      <4>3. buffer[Place(p[1], p[2])] = IF Before(a, b, i, j) THEN <<a, b>> ELSE Uncleared
        BY <2>1, <2>10 DEF Tiling
      <4> QED
        BY <2>6, <3>2, <4>2, <4>3
    <3> QED
      BY <3>1, <3>2
  <2>11. ASSUME NEW p \in Screen, \A a, b \in Indices : p \notin Cell(a, b)
         PROVE  buffer'[Place(p[1], p[2])] = Uncleared
    <3>1. p \notin Cell(i, j)
      BY <2>2, <2>11
    <3>2. buffer[Place(p[1], p[2])] = Uncleared
      BY <2>1, <2>11 DEF Tiling
    <3> QED
      BY <2>6, <3>1, <3>2
  <2> HIDE DEF Cell, Before, Indices
  <2>12. \A p \in Screen', a, b \in Indices' :
            p \in Cell(a, b)' => buffer'[Place(p[1], p[2])] =
                                     IF Before(a, b, i', j') THEN <<a, b>> ELSE Uncleared
    BY <2>3, <2>4, <2>10
  <2>13. \A p \in Screen' :
            (\A a, b \in Indices' : p \notin Cell(a, b)') => buffer'[Place(p[1], p[2])] = Uncleared
    BY <2>3, <2>4, <2>11
  <2>14. Tiling'
    BY <2>3, <2>9, <2>12, <2>13 DEF Tiling, Before, Place, Cell, InCell, Screen, Uncleared
  <2>15. ~spilled'
    <3>1. Cell(i, j) \in SUBSET Screen
      BY DEF Cell
    <3> QED
      BY <2>1, <2>5, <3>1, PaintedInside
  <2> QED
    BY <2>1, <2>3, <2>14, <2>15 DEF PatternInv
<1>2. CASE UNCHANGED canvasVars
  <2>1. /\ buffer' = buffer /\ i' = i /\ j' = j /\ result' = result /\ (spilled' <=> spilled)
        /\ no_rectangles' = no_rectangles /\ figure' = figure
    BY <1>2 DEF canvasVars, call
  <2>2. /\ Indices' = Indices /\ Screen' = Screen /\ Killed' = Killed
        /\ \A a, b : Cell(a, b)' = Cell(a, b)
    BY <2>1 DEF Indices, Screen, Cell, InCell, x_rectangle, y_rectangle, Killed
  <2>3. Tiling => Tiling'
    <3> SUFFICES ASSUME Tiling PROVE Tiling'
      OBVIOUS
    <3> HIDE DEF Cell, Indices, Screen
    <3> QED
      BY <2>1, <2>2 DEF Tiling, Before, Place, Uncleared
  <2> QED
    BY <2>1, <2>2, <2>3 DEF PatternInv
<1>3. CASE figure # "pattern"
  BY <1>3, CallKept DEF PatternInv
<1>4. CASE figure = "pattern" /\ PatternOfNone
  <2>1. no_rectangles' = 0 /\ result' = Killed /\ (spilled' <=> spilled)
    BY <1>4, CallKept DEF PatternOfNone
  <2> QED
    BY <1>4, <2>1 DEF PatternInv, Killed
<1> QED
  BY <1>1, <1>2, <1>3, <1>4 DEF CanvasNext, RectangleRow, SpriteRow, GreenRow, EmptyFigure

(* The pattern, when it is done.                                           *)
LEMMA PatternDrawn ==
    ASSUME FigureType, PatternInv
    PROVE  PatternTiles /\ (figure = "pattern" => StaysInBuffer)
<1>0. figure = "pattern" => StaysInBuffer
  BY DEF PatternInv, StaysInBuffer
<1> SUFFICES ASSUME figure = "pattern", result # -1, no_rectangles # 0
             PROVE  /\ \A p \in Screen :
                        buffer[Place(p[1], p[2])] =
                            IF /\ p[1] < no_rectangles * x_rectangle
                               /\ p[2] < no_rectangles * y_rectangle
                            THEN <<p[2] \div y_rectangle, p[1] \div x_rectangle>> ELSE Uncleared
                    /\ XResolution - no_rectangles * x_rectangle < no_rectangles
                    /\ YResolution - no_rectangles * y_rectangle < no_rectangles
  BY <1>0 DEF PatternTiles, PatternInv
<1>1. no_rectangles \in Nat \ {0} /\ i = no_rectangles /\ Tiling
  BY DEF FigureType, PatternInv, Tiling
<1>2. ASSUME NEW m \in Nat, NEW v \in Nat, v < no_rectangles * m
      PROVE  /\ v \div m \in Indices
             /\ (v \div m) * m <= v /\ v < (v \div m) * m + m
  <2>1. m > 0
    BY <1>1, <1>2
  <2>2. v \div m \in Nat /\ (v \div m) * m <= v /\ v < (v \div m) * m + m
    <3>1. v \div m \in Nat
      BY <2>1
    <3>2. m * (v \div m) <= v
      BY <2>1
    <3>3. v - m * (v \div m) < m
      BY <2>1
    <3> QED
      BY <3>1, <3>2, <3>3
  <2>3. v \div m < no_rectangles
    <3> SUFFICES ASSUME no_rectangles <= v \div m PROVE FALSE
      BY <1>1, <2>2
    <3>1. no_rectangles * m <= (v \div m) * m
      BY <1>1, <2>2, Multiples
    <3> QED
      BY <1>1, <1>2, <2>2, <3>1
  <2> QED
    BY <1>1, <2>2, <2>3 DEF Indices
<1>3. ASSUME NEW p \in Screen,
             p[1] < no_rectangles * x_rectangle, p[2] < no_rectangles * y_rectangle
      PROVE  buffer[Place(p[1], p[2])] = <<p[2] \div y_rectangle, p[1] \div x_rectangle>>
  <2> DEFINE a == p[2] \div y_rectangle  b == p[1] \div x_rectangle
  <2>1. p[1] \in Nat /\ p[2] \in Nat /\ x_rectangle \in Nat /\ y_rectangle \in Nat
    BY <1>1, ScreenPixel, RectangleSize
  <2>2. a \in Indices /\ a * y_rectangle <= p[2] /\ p[2] < a * y_rectangle + y_rectangle
    BY <1>2, <1>3, <2>1
  <2>3. b \in Indices /\ b * x_rectangle <= p[1] /\ p[1] < b * x_rectangle + x_rectangle
    BY <1>2, <1>3, <2>1
  <2> HIDE DEF a, b
  <2>4. p \in Cell(a, b)
    BY <2>2, <2>3 DEF Cell, InCell
  <2>5. Before(a, b, i, j)
    BY <1>1, <2>2 DEF Before, Indices
  <2>6. buffer[Place(p[1], p[2])] = <<a, b>>
    BY <1>1, <2>2, <2>3, <2>4, <2>5 DEF Tiling
  <2> QED
    BY <2>6 DEF a, b
<1>4. ASSUME NEW p \in Screen,
             ~(p[1] < no_rectangles * x_rectangle /\ p[2] < no_rectangles * y_rectangle)
      PROVE  buffer[Place(p[1], p[2])] = Uncleared
  <2>1. ASSUME NEW a \in Indices, NEW b \in Indices PROVE p \notin Cell(a, b)
    <3>1. /\ b * x_rectangle \in Nat /\ a * y_rectangle \in Nat
          /\ x_rectangle \in Nat /\ y_rectangle \in Nat
          /\ no_rectangles * x_rectangle \in Nat /\ no_rectangles * y_rectangle \in Nat
          /\ b * x_rectangle + x_rectangle <= no_rectangles * x_rectangle
          /\ a * y_rectangle + y_rectangle <= no_rectangles * y_rectangle
      BY <1>1, CellOnScreen, RectangleSize
    <3>2. p[1] \in Nat /\ p[2] \in Nat
      BY ScreenPixel
    <3> QED
      BY <1>4, <3>1, <3>2 DEF Cell, InCell
  <2> QED
    BY <1>1, <2>1 DEF Tiling
<1> QED
  BY <1>1, <1>3, <1>4, RectangleSize

-----------------------------------------------------------------------------
CanvasInv == FigureType /\ RowsInv /\ GreenInv /\ PatternInv

LEMMA NothingDrawn ==
    ASSUME CanvasInit
    PROVE  CanvasInv
<1>1. FigureType
  <2>1. /\ x \in Int /\ y \in Int /\ width \in Nat /\ height \in Nat /\ no_rectangles \in Nat
        /\ figure \in {"rectangle", "sprite"} => y \in Nat
    BY Resolutions DEF CanvasInit
  <2> QED
    BY <2>1 DEF CanvasInit, FigureType
<1>2. \A p \in Places : buffer[p] = Uncleared
  BY DEF CanvasInit
<1>3. \A p \in Screen : buffer[Place(p[1], p[2])] = Uncleared
  BY <1>2, ScreenPixel, PlaceInBuffer
<1>4. Drawn = {} /\ i = 0 /\ j = 0 /\ result = -1 /\ ~spilled
  BY <1>3 DEF Drawn, CanvasInit
<1>5. Rows(0) = {}
  BY <1>1 DEF Rows, Box, FigureType
<1>6. RowsInv /\ GreenInv
  BY <1>1, <1>2, <1>4, <1>5 DEF RowsInv, GreenInv, FigureType, Killed
<1>7. PatternInv
  <2>1. ASSUME no_rectangles # 0
        PROVE  Tiling
    <3>1. \A a, b \in Indices : ~Before(a, b, i, j)
      BY <1>1, <1>4 DEF Before, Indices, FigureType
    <3> QED
      BY <1>1, <1>3, <1>4, <2>1, <3>1 DEF Tiling, FigureType
  <2> QED
    BY <1>4, <2>1 DEF PatternInv
<1> QED
  BY <1>1, <1>6, <1>7 DEF CanvasInv

(***************************************************************************)
(* For every resolution and every argument, what a call of                 *)
(* vg_draw_rectangle, draw_sprite, greenPartOfScreen or video_test_pattern *)
(* draws is what it was asked for, and the pixels of the one column and    *)
(* the one row too many that the pixel functions accept are the only       *)
(* exceptions: seen a row below, or written past the buffer.               *)
(***************************************************************************)
THEOREM CanvasShowsFigure == CanvasSpec => []DrawnAsAsked
<1>1. CanvasInit => CanvasInv
  BY NothingDrawn
<1>2. CanvasInv /\ [CanvasNext]_canvasVars => CanvasInv'
  BY FigureTypeStep, RowsStep, GreenStep, PatternStep DEF CanvasInv
<1>3. CanvasInv => DrawnAsAsked
  BY FiguresDrawn, PatternDrawn DEF CanvasInv, DrawnAsAsked
<1> QED
  BY <1>1, <1>2, <1>3, PTL DEF CanvasSpec

-----------------------------------------------------------------------------
(* The sprite that moves (video_test_move).                                *)
SpriteType ==
    /\ img.width \in Nat /\ img.height \in Nat
    /\ xi \in 0 .. XResolution - 1 /\ xf \in 0 .. XResolution - 1
    /\ yi \in 0 .. YResolution - 1 /\ yf \in 0 .. YResolution - 1
    /\ xi = xf \/ yi = yf
    /\ speed \in -MaxSpeed .. MaxSpeed
    /\ start[1] \in Int /\ start[2] \in Int /\ moves \in Nat
    /\ done_moving \in BOOLEAN /\ overhung \in BOOLEAN

(* The image is shown where the sprite is, and nowhere else unless it was  *)
(* erased where it hung over the edge.                                     *)
ShownInv ==
    /\ Image(xi, yi) \subseteq shown
    /\ ~overhung => shown = Image(xi, yi)

(* What is left of the way, less than 0 to the left or upwards.            *)
Left == (xf - xi) + (yf - yi)

(* Until it stops, the sprite has gone by the displacement in every move;  *)
(* it stops at its end, as soon as there is no more left than that.        *)
PaceInv ==
    /\ ~done_moving => Distance = moves * Displacement + Left /\ (moves > 0 => Left > 0)
    /\ done_moving =>
        /\ Left = 0
        /\ IF Distance <= 0 THEN moves = 1
           ELSE (moves - 1) * Displacement < Distance /\ Distance <= moves * Displacement

MoveInv == SpriteType /\ ShownInv /\ PaceInv

(* A frame in which the sprite moves brings it to its end, or forward by   *)
(* the displacement and not past the end.                                  *)
StepForward ==
    MovesNow =>
        \/ done_moving'
        \/ xi' + yi' = xi + yi + Displacement /\ xi' <= xf /\ yi' <= yf

LEMMA Speeds ==
    ASSUME SpriteType
    PROVE  /\ XResolution \in Nat /\ YResolution \in Nat /\ MaxSpeed \in Nat
           /\ XResolution + MaxSpeed <= 65536 /\ YResolution + MaxSpeed <= 65536
           /\ Displacement \in Nat /\ Displacement > 0
           /\ MovesNow => Displacement <= MaxSpeed
<1>1. /\ MaxSpeed \in Nat /\ XResolution \in Nat /\ YResolution \in Nat
      /\ XResolution + MaxSpeed <= 65536 /\ YResolution + MaxSpeed <= 65536
  BY MoveAssumption, Resolutions
<1>2. speed \in Int /\ speed <= MaxSpeed /\ -MaxSpeed <= speed
  BY <1>1 DEF SpriteType
<1>3. Displacement \in Nat /\ Displacement > 0
  BY <1>1, <1>2 DEF Displacement
<1>4. MovesNow => Displacement <= MaxSpeed
  BY <1>1, <1>2 DEF Displacement, MovesNow
<1> QED
  BY <1>1, <1>3, <1>4

(* One coordinate.                                                         *)
LEMMA AdvancedFacts ==
    ASSUME Displacement \in Nat, NEW from \in Nat, NEW to \in Nat,
           from + Displacement < 65536
    PROVE  Advanced(from, to) = IF to - from < Displacement THEN to ELSE from + Displacement
<1>1. (from + Displacement) % 65536 = from + Displacement
  OBVIOUS
<1>2. Advanced(from, to) = IF from + Displacement > to THEN to ELSE from + Displacement
  BY <1>1 DEF Advanced
<1> QED
  BY <1>2

(* Both coordinates: one is that of the end already.                       *)
LEMMA MovedAlong ==
    ASSUME SpriteType, MovesNow, Move, UNCHANGED arguments
    PROVE  /\ xi' \in 0 .. XResolution - 1 /\ yi' \in 0 .. YResolution - 1
           /\ xi' = xf \/ yi' = yf
           /\ Left \in Int /\ Left' \in Int
           /\ Left' = IF Left < Displacement THEN 0 ELSE Left - Displacement
           /\ done_moving' \in BOOLEAN /\ (done_moving' <=> Left' = 0)
           /\ ~done_moving' =>
                  xi' + yi' = xi + yi + Displacement /\ xi' <= xf /\ yi' <= yf
<1>0. /\ XResolution \in Nat /\ YResolution \in Nat /\ Displacement \in Nat
      /\ MaxSpeed \in Nat /\ Displacement <= MaxSpeed
      /\ XResolution + MaxSpeed <= 65536 /\ YResolution + MaxSpeed <= 65536
      /\ xi \in 0 .. XResolution - 1 /\ xf \in 0 .. XResolution - 1
      /\ yi \in 0 .. YResolution - 1 /\ yf \in 0 .. YResolution - 1
      /\ xf' = xf /\ yf' = yf
  BY Speeds DEF SpriteType, arguments
<1>1. done_moving' \in BOOLEAN /\ (done_moving' <=> xi' = xf /\ yi' = yf)
  BY Zenon DEF Move
<1>2. CASE xi = xf
  <2>1. xi' = xi /\ yi' = Advanced(yi, yf)
    BY <1>2 DEF Move
  <2>2. /\ yi' \in 0 .. YResolution - 1
        /\ yi' = IF yf - yi < Displacement THEN yf ELSE yi + Displacement
    <3>1. yi \in Nat /\ yf \in Nat /\ yi + Displacement < 65536
      BY <1>0
    <3>2. yi' = IF yf - yi < Displacement THEN yf ELSE yi + Displacement
      BY <1>0, <2>1, <3>1, AdvancedFacts
    <3> QED
      BY <1>0, <3>1, <3>2
  <2>3. Left = yf - yi /\ Left' = yf - yi'
    BY <1>0, <1>2, <2>1, <2>2 DEF Left
  <2> QED
    BY <1>0, <1>1, <1>2, <2>1, <2>2, <2>3
<1>3. CASE xi # xf
  <2>1. yi' = yi /\ yi = yf /\ xi' = Advanced(xi, xf)
    BY <1>3 DEF Move
  <2>2. /\ xi' \in 0 .. XResolution - 1
        /\ xi' = IF xf - xi < Displacement THEN xf ELSE xi + Displacement
    <3>1. xi \in Nat /\ xf \in Nat /\ xi + Displacement < 65536
      BY <1>0
    <3>2. xi' = IF xf - xi < Displacement THEN xf ELSE xi + Displacement
      BY <1>0, <2>1, <3>1, AdvancedFacts
    <3> QED
      BY <1>0, <3>1, <3>2
  <2>3. Left = xf - xi /\ Left' = xf - xi'
    BY <1>0, <2>1, <2>2 DEF Left
  <2> QED
    BY <1>0, <1>1, <2>1, <2>2, <2>3
<1> QED
  BY <1>2, <1>3

(* Where no row of it is refused, the rectangle erases the whole image.    *)
LEMMA ErasesImage ==
    ASSUME NEW a \in Nat, NEW b \in Nat, img.width \in Nat, img.height \in Nat,
           ~Overhangs(a)
    PROVE  Image(a, b) \subseteq Erased(a, b)
<1> SUFFICES ASSUME NEW d \in Box(a, b, img.width, img.height), Accepted(d[1], d[2])
             PROVE  Place(d[1], d[2]) \in Erased(a, b)
  BY DEF Image
<1>1. ASSUME NEW r \in b .. d[2] - 1
      PROVE  RowDrawn(a, r, img.width) = a .. a + img.width - 1
  <2>1. d[2] \in Nat /\ d[2] <= YResolution
    BY Resolutions DEF Accepted
  <2>2. r \in 0 .. YResolution
    BY <2>1, Resolutions
  <2>3. ASSUME NEW c \in a .. a + img.width - 1 PROVE c \in 0 .. XResolution
    BY Resolutions DEF Overhangs
  <2> QED
    BY <2>2, <2>3 DEF RowDrawn, Accepted
<1> QED
  BY <1>1 DEF Erased

LEMMA ShownStep ==
    ASSUME MoveInv, Move, UNCHANGED arguments
    PROVE  ShownInv'
<1>1. shown' = (shown \ Erased(xi, yi)) \cup Image(xi', yi')
  BY DEF Move
<1>2. Image(xi, yi)' = Image(xi', yi')
  BY DEF Image, arguments, Places, Place, Accepted, Box
<1>3. ASSUME ~overhung' PROVE shown' = Image(xi', yi')
  <2>1. ~overhung /\ ~Overhangs(xi)
    BY <1>3 DEF Move
  <2>2. shown = Image(xi, yi)
    BY <2>1 DEF MoveInv, ShownInv
  <2>3. Image(xi, yi) \subseteq Erased(xi, yi)
    <3>1. xi \in Nat /\ yi \in Nat /\ img.width \in Nat /\ img.height \in Nat
      BY Resolutions DEF MoveInv, SpriteType
    <3> QED
      BY <2>1, <3>1, ErasesImage
  <2> QED
    BY <1>1, <2>2, <2>3
<1> QED
  BY <1>1, <1>2, <1>3 DEF ShownInv

LEMMA PaceStep ==
    ASSUME MoveInv, MovesNow, Move, UNCHANGED arguments, ~done_moving
    PROVE  PaceInv'
<1> DEFINE D == Displacement  gone == moves * Displacement
<1>1. /\ D \in Nat /\ D > 0 /\ moves \in Nat /\ moves' = moves + 1
      /\ xf \in Int /\ yf \in Int /\ start[1] \in Int /\ start[2] \in Int
  BY Speeds, Resolutions DEF MoveInv, SpriteType, Move
<1>2. Distance \in Int /\ Distance' = Distance /\ Displacement' = Displacement
  BY <1>1 DEF Distance, Displacement, arguments, Move
<1>3. /\ Left \in Int /\ Left' = IF Left < D THEN 0 ELSE Left - D
      /\ done_moving' <=> Left' = 0
  BY MovedAlong DEF MoveInv
<1>4. /\ gone \in Nat /\ (moves + 1) * D = gone + D
      /\ (moves = 0 => gone = 0)
  BY <1>1
<1>5. Distance = gone + Left /\ (moves > 0 => Left > 0)
  BY DEF MoveInv, PaceInv
<1>6. moves' * Displacement' = gone + D /\ (moves' - 1) * Displacement' = gone
  BY <1>1, <1>2, <1>4
<1> HIDE DEF D, gone
<1>7. ASSUME ~done_moving' PROVE Distance' = gone + D + Left' /\ Left' > 0
  BY <1>1, <1>2, <1>3, <1>4, <1>5, <1>7
<1>8. ASSUME done_moving'
      PROVE  /\ Left' = 0
             /\ IF Distance' <= 0 THEN moves' = 1 ELSE gone < Distance' /\ Distance' <= gone + D
  <2>1. Left' = 0 /\ Left <= D
    BY <1>1, <1>3, <1>8
  <2>2. moves > 0 => Distance > 0
    BY <1>3, <1>4, <1>5
  <2>3. Distance > 0 => Left > 0
    BY <1>1, <1>3, <1>4, <1>5
  <2> QED
    BY <1>1, <1>2, <1>3, <1>4, <1>5, <2>1, <2>2, <2>3
<1> QED
  BY <1>6, <1>7, <1>8 DEF PaceInv

LEMMA MoveStep ==
    ASSUME MoveInv, Frame
    PROVE  MoveInv' /\ StepForward
<1>0. UNCHANGED arguments /\ ~done_moving
  BY DEF Frame
<1>1. CASE ~MovesNow
  <2>1. UNCHANGED <<xi, yi, done_moving, shown, histories>>
    BY <1>1 DEF Frame
  <2> QED
    BY <1>0, <1>1, <2>1
    DEF MoveInv, SpriteType, ShownInv, PaceInv, StepForward, arguments, histories,
        Image, Box, Place, Places, Accepted, Distance, Displacement, Left
<1>2. CASE MovesNow
  <2>1. Move
    BY <1>2 DEF Frame
  <2>2. /\ img' = img /\ xf' = xf /\ yf' = yf /\ speed' = speed
        /\ start' = start /\ moves' = moves + 1
    BY <1>0, <2>1 DEF arguments, Move
  <2>3. overhung' \in BOOLEAN
    BY <2>1, Zenon DEF Move
  <2>4. SpriteType'
    BY <1>0, <1>2, <2>1, <2>2, <2>3, MovedAlong DEF MoveInv, SpriteType
  <2>5. StepForward
    BY <1>0, <1>2, <2>1, MovedAlong DEF MoveInv, StepForward
  <2> QED
    BY <1>0, <1>2, <2>1, <2>4, <2>5, ShownStep, PaceStep DEF MoveInv
<1> QED
  BY <1>1, <1>2

LEMMA MoveStarts ==
    ASSUME MoveInit
    PROVE  MoveInv
<1>1. SpriteType
  <2>1. img.width \in Nat /\ img.height \in Nat
    BY MoveAssumption DEF MoveInit
  <2>2. start[1] \in Int /\ start[2] \in Int
    BY Resolutions DEF MoveInit
  <2> QED
    BY <2>1, <2>2 DEF MoveInit, SpriteType
<1>2. ShownInv
  BY DEF MoveInit, ShownInv
<1>3. Displacement \in Nat /\ xi \in Int /\ yi \in Int /\ xf \in Int /\ yf \in Int
  BY <1>1, Speeds DEF SpriteType
<1>4. Distance = Left /\ 0 * Displacement = 0 /\ Left \in Int
  BY <1>3 DEF Distance, Left, MoveInit
<1>5. PaceInv
  BY <1>4 DEF PaceInv, MoveInit
<1> QED
  BY <1>1, <1>2, <1>5 DEF MoveInv

LEMMA MoveInvariance == MoveSpec => []MoveInv
<1>1. MoveInit => MoveInv
  BY MoveStarts
<1>2. MoveInv /\ [MoveNext]_moveVars => MoveInv'
  <2>1. CASE UNCHANGED moveVars
    BY <2>1
    DEF moveVars, MoveInv, SpriteType, ShownInv, PaceInv, arguments, histories,
        Image, Box, Place, Places, Accepted, Distance, Displacement, Left
  <2> QED
    BY <2>1, MoveStep DEF MoveNext
<1> QED
  BY <1>1, <1>2, PTL DEF MoveSpec

(***************************************************************************)
(* For every screen, image, speed and pair of places the sprite of         *)
(* video_test_move stops at (xf, yf) only, after as many moves as the way  *)
(* needs, and is shown there and nowhere else, unless vg_draw_rectangle    *)
(* gave up where it hung over the right edge (lab5.c:333-380).             *)
(***************************************************************************)
THEOREM SpriteStopsAtEnd == MoveSpec => [](done_moving => Arrived)
<1>1. MoveInv => (done_moving => Arrived)
  <2> SUFFICES ASSUME MoveInv, done_moving
               PROVE  Arrived
    OBVIOUS
  <2>1. xi = xf /\ yi = yf
    BY Resolutions DEF MoveInv, SpriteType, PaceInv, Left
  <2> QED
    BY <2>1 DEF MoveInv, ShownInv, PaceInv, Arrived
<1> QED
  BY <1>1, MoveInvariance, PTL

(***************************************************************************)
(* Every frame that moves it brings the sprite nearer to its end by the    *)
(* displacement, or there: what the model-checked Arrives rests on.        *)
(***************************************************************************)
THEOREM SpriteAdvances == MoveSpec => [][StepForward]_moveVars
<1>1. MoveInv /\ [MoveNext]_moveVars => [StepForward]_moveVars
  BY MoveStep DEF MoveNext
<1> QED
  BY <1>1, MoveInvariance, PTL DEF MoveSpec
=============================================================================
