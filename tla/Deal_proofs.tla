---------------------------- MODULE Deal_proofs ----------------------------
(***************************************************************************)
(* For every size of the table and every sequence of values of rand(): the *)
(* faces drawn differ, and laying and shuffling keep every face on two     *)
(* cards.  A swap is a permutation of the cards, so it carries the pairs   *)
(* of the table before it to pairs of the table after it.                  *)
(***************************************************************************)
EXTENDS Deal, TLAPS

Pairs == Int \X Int

LEMMA Sizes ==
    /\ Half \in Nat /\ Half >= 1 /\ N = 2 * Half /\ N \in Nat /\ N >= 2
    /\ Suits \in Nat /\ Numbers \in Nat /\ RAND_MAX \in Nat
<1>1. Half \in Nat /\ Half >= 1 /\ Suits \in Nat /\ Numbers \in Nat /\ RAND_MAX \in Nat
  BY DealAssumption
<1>2. N = 2 * Half
  BY DEF N
<1> QED
  BY <1>1, <1>2

-----------------------------------------------------------------------------
(* The quotient of an r below or at R by R \div m + 1 is below m. *)
LEMMA QuotientBelow ==
    ASSUME NEW R \in Nat, NEW m \in Nat, m > 0, NEW r \in 0 .. R
    PROVE  r \div (R \div m + 1) \in 0 .. m - 1
<1> DEFINE q == R \div m + 1
           k == r \div q
<1>1. q \in Nat /\ q > 0 /\ R < q * m
  <2>1. R \div m \in Nat /\ R < (R \div m + 1) * m
    OBVIOUS
  <2> QED
    BY <2>1
<1> HIDE DEF q
<1>2. k \in Nat /\ k * q <= r
  BY <1>1
<1> HIDE DEF k
<1>3. k >= m => k * q >= m * q
  BY <1>1, <1>2
<1>4. m * q = q * m /\ q * m \in Nat /\ k * q \in Nat
  BY <1>1, <1>2
<1>5. k < m
  BY <1>1, <1>2, <1>3, <1>4
<1> QED
  BY <1>2, <1>5 DEF k, q

(* Where R is at least m * m, every number below m is such a quotient. *)
LEMMA QuotientReaches ==
    ASSUME NEW R \in Nat, NEW m \in Nat, m > 0, m * m <= R, NEW k \in 0 .. m - 1
    PROVE  \E r \in 0 .. R : r \div (R \div m + 1) = k
<1> DEFINE d == R \div m
<1>1. d \in Nat /\ d * m <= R /\ R < (d + 1) * m
  OBVIOUS
<1> HIDE DEF d
<1>2. d >= m
  <2>1. d + 1 <= m => (d + 1) * m <= m * m
    BY <1>1
  <2>2. (d + 1) * m \in Nat /\ m * m \in Nat
    BY <1>1
  <2> QED
    BY <1>1, <2>1, <2>2
<1>3. k * (d + 1) <= (m - 1) * (d + 1)
  BY <1>1
<1>4. (m - 1) * (d + 1) = d * m + m - d - 1
  BY <1>1
<1>5. k * (d + 1) \in 0 .. R
  <2>1. k * (d + 1) \in Nat /\ d * m \in Nat
    BY <1>1
  <2> QED
    BY <1>1, <1>2, <1>3, <1>4, <2>1
<1>6. (k * (d + 1)) \div (d + 1) = k
  BY <1>1
<1> QED
  BY <1>5, <1>6 DEF d

-----------------------------------------------------------------------------
LEMMA FaceInjective ==
    ASSUME NEW f \in Drawn, NEW g \in Drawn, Face(f) = Face(g)
    PROVE  f = g
<1>1. /\ f = <<f[1], f[2]>> /\ g = <<g[1], g[2]>>
      /\ f[1] \in Nat /\ f[2] \in Nat /\ g[1] \in Nat /\ g[2] \in Nat
  BY Sizes DEF Drawn
<1>2. getCardNumber(f[2]) = getCardNumber(g[2]) /\ getCardSuit(f[1]) = getCardSuit(g[1])
  BY DEF Face
<1>3. f[2] = g[2]
  BY <1>1, <1>2 DEF getCardNumber
<1>4. f[1] = g[1]
  BY <1>1, <1>2 DEF getCardSuit
<1> QED
  BY <1>1, <1>3, <1>4

LEMMA FaceType ==
    ASSUME NEW f \in Drawn
    PROVE  Face(f) \in Pairs
<1>1. f[1] \in Nat /\ f[2] \in Nat
  BY Sizes DEF Drawn
<1> QED
  BY <1>1 DEF Face, getCardNumber, getCardSuit, Pairs

LEMMA MirrorPairs ==
    ASSUME NEW c \in Cards
    PROVE  /\ Mirror(c) \in 0 .. Half - 1
           /\ N - 1 - c \in Cards \ {c}
           /\ \A e \in Cards : Mirror(e) = Mirror(c) <=> e = c \/ e = N - 1 - c
BY Sizes DEF Mirror, Cards

(* Laying faces that all differ gives pairs. *)
LEMMA LaidPaired ==
    ASSUME NEW F \in [0 .. Half - 1 -> Drawn], NEW d,
           \A j, k \in 0 .. Half - 1 : F[j] = F[k] => j = k,
           d = [c \in Cards |-> Face(F[Mirror(c)])]
    PROVE  Paired(d) /\ d \in [Cards -> Pairs]
<1>1. \A c \in Cards : Mirror(c) \in 0 .. Half - 1 /\ F[Mirror(c)] \in Drawn
  BY MirrorPairs
<1>2. \A c \in Cards : d[c] = Face(F[Mirror(c)]) /\ d[c] \in Pairs
  BY <1>1, FaceType
<1>3. \A c, e \in Cards : d[e] = d[c] <=> Mirror(e) = Mirror(c)
  BY <1>1, <1>2, FaceInjective
<1>4. ASSUME NEW c \in Cards
      PROVE  {e \in Cards : d[e] = d[c]} = {c, N - 1 - c} /\ N - 1 - c \in Cards \ {c}
  <2>1. N - 1 - c \in Cards \ {c}
    BY MirrorPairs
  <2>2. \A e \in Cards : d[e] = d[c] <=> e = c \/ e = N - 1 - c
    BY <1>3, MirrorPairs
  <2> QED
    BY <2>1, <2>2
<1>5. Paired(d)
  BY <1>4 DEF Paired
<1>6. d \in [Cards -> Pairs]
  BY <1>2
<1> QED
  BY <1>5, <1>6

(* A swap of two cards keeps the pairs. *)
LEMMA SwapPaired ==
    ASSUME NEW d \in [Cards -> Pairs], Paired(d), NEW a \in Cards, NEW b \in Cards,
           NEW d2, d2 = [d EXCEPT ![b] = d[a], ![a] = d[b]]
    PROVE  Paired(d2) /\ d2 \in [Cards -> Pairs]
<1> DEFINE p(c) == IF c = a THEN b ELSE IF c = b THEN a ELSE c
<1>1. \A c \in Cards : p(c) \in Cards /\ p(p(c)) = c
  OBVIOUS
<1>2. d2 \in [Cards -> Pairs] /\ \A c \in Cards : d2[c] = d[p(c)]
  OBVIOUS
<1> HIDE DEF p
<1>3. ASSUME NEW c \in Cards
      PROVE  \E m \in Cards \ {c} : {e \in Cards : d2[e] = d2[c]} = {c, m}
  <2>1. PICK m \in Cards \ {p(c)} : {e \in Cards : d[e] = d[p(c)]} = {p(c), m}
    BY <1>1 DEF Paired
  <2>2. p(m) \in Cards \ {c}
    BY <1>1, <2>1
  <2>3. \A e \in Cards : d2[e] = d2[c] <=> p(e) \in {p(c), m}
    BY <1>1, <1>2, <2>1
  <2>4. \A e \in Cards : p(e) \in {p(c), m} <=> e \in {c, p(m)}
    BY <1>1
  <2>5. {e \in Cards : d2[e] = d2[c]} = {c, p(m)}
    BY <2>2, <2>3, <2>4
  <2> QED
    BY <2>2, <2>5
<1> QED
  BY <1>2, <1>3 DEF Paired

-----------------------------------------------------------------------------
Types ==
    /\ stage \in {"draw", "lay", "shuffle", "done"} /\ i \in Nat
    /\ faces \in [0 .. Half - 1 -> Drawn \cup {NoFace}]
    /\ cardArray \in [Cards -> Pairs]

Progress ==
    /\ stage = "draw" => i < Half
    /\ stage = "lay" => i = 0
    /\ stage = "shuffle" => i < N - 1
    /\ stage = "done" => i = N - 1

Kept == IF stage = "draw" THEN i ELSE Half

FacesKept ==
    /\ \A j \in 0 .. Kept - 1 : faces[j] \in Drawn
    /\ \A j, k \in 0 .. Kept - 1 : faces[j] = faces[k] => j = k

IInv == Types /\ Progress /\ FacesKept /\ PairsOnTable

LEMMA InitIInv == DealInit => IInv
<1> SUFFICES ASSUME DealInit PROVE IInv
  OBVIOUS
<1>1. NoFace \in Pairs
  BY DEF NoFace, Pairs
<1>2. Types
  BY <1>1 DEF DealInit, Types
<1>3. Progress
  BY Sizes DEF DealInit, Progress
<1>4. FacesKept
  BY DEF DealInit, FacesKept, Kept
<1>5. PairsOnTable
  BY DEF DealInit, PairsOnTable
<1> QED
  BY <1>2, <1>3, <1>4, <1>5 DEF IInv

LEMMA DrawKeeps ==
    ASSUME IInv, NEW f \in Drawn, Draw(f)
    PROVE  IInv'
<1>1. stage = "draw" /\ i \in Nat /\ i < Half /\ Kept = i /\ cardArray' = cardArray
  BY DEF IInv, Types, Progress, Draw, Kept
<1>2. faces' = faces \/ faces' = [faces EXCEPT ![i] = f]
  BY DEF Draw
<1>3. faces' \in [0 .. Half - 1 -> Drawn \cup {NoFace}]
  BY <1>2 DEF IInv, Types
<1>4. \A j \in 0 .. i - 1 : faces'[j] = faces[j]
  BY <1>1, <1>2, Sizes DEF IInv, Types
<1>5. /\ \A j \in 0 .. i - 1 : faces'[j] \in Drawn
      /\ \A j, k \in 0 .. i - 1 : faces'[j] = faces'[k] => j = k
  BY <1>1, <1>4 DEF IInv, FacesKept
<1>6. CASE Repeats(f) # {}
  <2>1. stage' = stage /\ i' = i
    BY <1>6 DEF Draw
  <2>2. Types' /\ Progress'
    BY <1>1, <1>3, <2>1 DEF IInv, Types, Progress
  <2>3. FacesKept' /\ PairsOnTable'
    BY <1>1, <1>5, <2>1 DEF FacesKept, Kept, PairsOnTable
  <2> QED
    BY <2>2, <2>3 DEF IInv
<1>7. CASE Repeats(f) = {}
  <2>1. faces' = [faces EXCEPT ![i] = f]
    BY <1>7 DEF Draw
  <2>2. i' = (i + 1) % Half /\ stage' = IF i + 1 = Half THEN "lay" ELSE "draw"
    BY <1>7 DEF Draw
  <2>3. IF i + 1 = Half THEN i' = 0 /\ stage' = "lay" ELSE i' = i + 1 /\ stage' = "draw"
    <3>1. i + 1 < Half => (i + 1) % Half = i + 1
      BY <1>1, Sizes
    <3>2. i + 1 = Half => (i + 1) % Half = 0
      BY <1>1, Sizes
    <3> QED
      BY <1>1, <2>2, <3>1, <3>2, Sizes
  <2>4. Kept' = i + 1
    BY <2>3 DEF Kept
  <2>5. faces'[i] = f /\ \A j \in 0 .. i - 1 : faces'[j] # f
    <3>1. i \in 0 .. Half - 1
      BY <1>1, Sizes
    <3>2. faces'[i] = f
      BY <2>1, <3>1 DEF IInv, Types
    <3>3. \A j \in 0 .. i - 1 : faces[j] # f
      BY <1>7 DEF Repeats
    <3> QED
      BY <1>4, <3>2, <3>3
  <2>6. \A j \in 0 .. (i + 1) - 1 : j = i \/ j \in 0 .. i - 1
    BY <1>1
  <2>7. FacesKept'
    BY <1>5, <2>4, <2>5, <2>6 DEF FacesKept
  <2>8. Types' /\ Progress'
    BY <1>1, <1>3, <2>3, Sizes DEF IInv, Types, Progress
  <2>9. PairsOnTable'
    BY <2>3 DEF PairsOnTable
  <2> QED
    BY <2>7, <2>8, <2>9 DEF IInv
<1> QED
  BY <1>6, <1>7

LEMMA LayCardsKeeps == IInv /\ LayCards => IInv'
<1> SUFFICES ASSUME IInv, LayCards PROVE IInv'
  OBVIOUS
<1>1. stage = "lay" /\ stage' = "shuffle" /\ i = 0 /\ i' = i /\ faces' = faces
  BY DEF IInv, Progress, LayCards
<1>2. Kept = Half /\ Kept' = Half
  BY <1>1 DEF Kept
<1>3. faces \in [0 .. Half - 1 -> Drawn]
  BY <1>2 DEF IInv, Types, FacesKept
<1>4. Paired(cardArray') /\ cardArray' \in [Cards -> Pairs]
  BY <1>2, <1>3, LaidPaired DEF IInv, FacesKept, LayCards
<1>5. Types' /\ Progress'
  BY <1>1, <1>4, Sizes DEF IInv, Types, Progress
<1>6. FacesKept'
  BY <1>1, <1>2 DEF IInv, FacesKept
<1>7. PairsOnTable'
  BY <1>4 DEF PairsOnTable
<1> QED
  BY <1>5, <1>6, <1>7 DEF IInv

LEMMA PickInRest ==
    ASSUME NEW r \in 0 .. RAND_MAX, i \in Nat, i < N - 1
    PROVE  Pick(r) \in i .. N - 1
<1> DEFINE m == N - i
<1>1. m \in Nat /\ m > 0
  BY Sizes
<1> HIDE DEF m
<1>2. r \div (RAND_MAX \div m + 1) \in 0 .. m - 1
  BY <1>1, Sizes, QuotientBelow
<1>3. Pick(r) = i + (r \div (RAND_MAX \div m + 1))
  BY DEF Pick, m
<1> QED
  BY <1>2, <1>3, Sizes DEF m

LEMMA ShuffleKeeps ==
    ASSUME IInv, NEW r \in 0 .. RAND_MAX, Shuffle(r)
    PROVE  IInv'
<1>1. stage = "shuffle" /\ i \in Nat /\ i < N - 1 /\ i' = i + 1 /\ faces' = faces
  BY DEF IInv, Types, Progress, Shuffle
<1>2. Pick(r) \in i .. N - 1
  BY <1>1, PickInRest
<1>3. i \in Cards /\ Pick(r) \in Cards
  BY <1>1, <1>2, Sizes DEF Cards
<1>4. cardArray \in [Cards -> Pairs] /\ Paired(cardArray)
  BY <1>1 DEF IInv, Types, PairsOnTable
<1>5. cardArray' = [cardArray EXCEPT ![Pick(r)] = cardArray[i], ![i] = cardArray[Pick(r)]]
  BY DEF Shuffle, Swap
<1>6. Paired(cardArray') /\ cardArray' \in [Cards -> Pairs]
  BY <1>3, <1>4, <1>5, SwapPaired
<1>7. stage' = IF i + 1 = N - 1 THEN "done" ELSE "shuffle"
  BY DEF Shuffle, ShuffleEnds
<1>8. Types' /\ Progress'
  BY <1>1, <1>6, <1>7, Sizes DEF IInv, Types, Progress
<1>9. FacesKept'
  BY <1>1, <1>7 DEF IInv, FacesKept, Kept
<1>10. PairsOnTable'
  BY <1>6 DEF PairsOnTable
<1> QED
  BY <1>8, <1>9, <1>10 DEF IInv

LEMMA NextKeeps == IInv /\ [DealNext]_dealVars => IInv'
<1> SUFFICES ASSUME IInv, [DealNext]_dealVars PROVE IInv'
  OBVIOUS
<1>1. ASSUME NEW f \in Drawn, Draw(f) PROVE IInv'
  BY <1>1, DrawKeeps
<1>2. CASE LayCards
  BY <1>2, LayCardsKeeps
<1>3. ASSUME NEW r \in 0 .. RAND_MAX, Shuffle(r) PROVE IInv'
  BY <1>3, ShuffleKeeps
<1>4. CASE UNCHANGED dealVars
  BY <1>4 DEF dealVars, IInv, Types, Progress, FacesKept, Kept, PairsOnTable
<1> QED
  BY <1>1, <1>2, <1>3, <1>4 DEF DealNext

-----------------------------------------------------------------------------
(***************************************************************************)
(* For every number of faces and every sequence of random numbers the      *)
(* faces kept by initialize_game_cards all differ (game.c:59-74).          *)
(***************************************************************************)
THEOREM FacesDiffer == DealSpec => []DistinctFaces
<1>1. IInv => DistinctFaces
  BY DEF IInv, FacesKept, Kept, DistinctFaces
<1> QED
  BY <1>1, InitIInv, NextKeeps, PTL DEF DealSpec

(***************************************************************************)
(* For every size of the table and every sequence of random numbers each   *)
(* face is on exactly two cards, while the table is shuffled and after     *)
(* (game.c:76-91): the assumption of Board on Deals.                       *)
(***************************************************************************)
THEOREM TableIsPaired == DealSpec => []PairsOnTable
<1>1. IInv => PairsOnTable
  BY DEF IInv
<1> QED
  BY <1>1, InitIInv, NextKeeps, PTL DEF DealSpec

(***************************************************************************)
(* The index computed from rand() reaches exactly the cards not yet        *)
(* placed, for every RAND_MAX of at least the square of the number of      *)
(* cards (game.c:87).                                                      *)
(***************************************************************************)
THEOREM PickIsOnto == DealSpec => []PicksEveryRest
<1>1. ASSUME IInv, stage = "shuffle"
      PROVE  {Pick(r) : r \in 0 .. RAND_MAX} = i .. N - 1
  <2>1. i \in Nat /\ i < N - 1
    BY <1>1 DEF IInv, Types, Progress
  <2>2. \A r \in 0 .. RAND_MAX : Pick(r) \in i .. N - 1
    BY <2>1, PickInRest
  <2>3. ASSUME NEW c \in i .. N - 1
        PROVE  \E r \in 0 .. RAND_MAX : Pick(r) = c
    <3> DEFINE m == N - i
    <3>1. m \in Nat /\ m > 0 /\ m <= N /\ c - i \in 0 .. m - 1
      BY <2>1, Sizes
    <3>2. m * m <= RAND_MAX
      <4>1. 4 * Half * Half <= RAND_MAX /\ N * N = 4 * Half * Half
        BY DealAssumption, Sizes
      <4> HIDE DEF m
      <4>2. m * m <= N * N
        BY <3>1, Sizes
      <4>3. m * m \in Nat /\ N * N \in Nat
        BY <3>1, Sizes
      <4> QED
        BY <4>1, <4>2, <4>3, Sizes
    <3> HIDE DEF m
    <3>3. PICK r \in 0 .. RAND_MAX : r \div (RAND_MAX \div m + 1) = c - i
      BY <3>1, <3>2, Sizes, QuotientReaches
    <3>4. Pick(r) = i + (r \div (RAND_MAX \div m + 1))
      BY DEF Pick, m
    <3>5. Pick(r) = c
      BY <2>1, <3>3, <3>4, Sizes
    <3> QED
      BY <3>5
  <2> QED
    BY <2>2, <2>3
<1>2. IInv => PicksEveryRest
  BY <1>1 DEF PicksEveryRest
<1> QED
  BY <1>2, InitIInv, NextKeeps, PTL DEF DealSpec
=============================================================================
