------------------------- MODULE CaptchaImageProofs -------------------------
(* What is proved of CaptchaImage: its types, that the picture shows the   *)
(* answer, and that no loop runs out of pixels, for a text, a canvas and a *)
(* wave of any size that the assumptions allow.                            *)
EXTENDS CaptchaImage, FiniteSetTheorems, TLAPS

(* The letters are drawn in order, at least a step apart, away from the    *)
(* sides.                                                                  *)
LEMMA LettersApart ==
  /\ \A i \in 1..MaxLength : LetterX(i) \in XStart..(Width - 1 - Left)
  /\ \A i, j \in 1..MaxLength : i < j => LetterX(i) + XStep <= LetterX(j)
<1>1. /\ XStart \in Nat /\ XStep \in Nat /\ MaxLength \in Nat /\ Left \in Nat /\ Width \in Nat
      /\ XStart + (MaxLength - 1) * XStep + Left < Width
  BY LettersAssumption, PointsAssumption
<1>2. \A a \in Nat : a * XStep \in Nat
  BY <1>1
<1>3. \A a \in Nat, b \in Nat : (a + b) * XStep = a * XStep + b * XStep
  BY <1>1
<1>4. \A a \in Nat, b \in Nat : a <= b => a * XStep <= b * XStep
  <2> SUFFICES ASSUME NEW a \in Nat, NEW b \in Nat, a <= b
               PROVE  a * XStep <= b * XStep
    OBVIOUS
  <2>1. b - a \in Nat /\ a + (b - a) = b
    OBVIOUS
  <2>2. b * XStep = a * XStep + (b - a) * XStep
    BY <1>3, <2>1
  <2> QED
    BY <1>2, <2>1, <2>2
<1>5. ASSUME NEW i \in 1..MaxLength
      PROVE  LetterX(i) \in XStart..(Width - 1 - Left)
  <2>1. i - 1 \in Nat /\ MaxLength - 1 \in Nat /\ i - 1 <= MaxLength - 1
    BY <1>1
  <2>2. (i - 1) * XStep <= (MaxLength - 1) * XStep
    BY <1>4, <2>1
  <2>3. (i - 1) * XStep \in Nat /\ (MaxLength - 1) * XStep \in Nat
    BY <1>2, <2>1
  <2> QED
    BY <1>1, <2>2, <2>3 DEF LetterX
<1>6. ASSUME NEW i \in 1..MaxLength, NEW j \in 1..MaxLength, i < j
      PROVE  LetterX(i) + XStep <= LetterX(j)
  <2>1. i - 1 \in Nat /\ i \in Nat /\ j - 1 \in Nat /\ i <= j - 1 /\ (i - 1) + 1 = i
    BY <1>1, <1>6
  <2>2. i * XStep <= (j - 1) * XStep
    BY <1>4, <2>1
  <2>3. i * XStep = (i - 1) * XStep + 1 * XStep
    BY <1>3, <2>1
  <2>4. /\ (i - 1) * XStep \in Nat /\ (j - 1) * XStep \in Nat /\ i * XStep \in Nat
        /\ 1 * XStep = XStep
    BY <1>1, <1>2, <2>1
  <2> QED
    BY <1>1, <2>2, <2>3, <2>4 DEF LetterX
<1> QED
  BY <1>5, <1>6

(* A column takes its colour from the canvas, and a column where letters   *)
(* can be only goes to the one the wave displaces it to.                   *)
LEMMA WhereColoursGo ==
  ASSUME NEW x \in X, NEW s \in -Left..Right
  PROVE  /\ Source(x, s) \in X
         /\ \A c \in XStart..(Width - 1 - Left) : Source(x, s) = c <=> x + s = c
<1>1. /\ Left \in Nat /\ Right \in Nat /\ XStart \in Nat /\ Left <= XStart /\ Right <= XStart
      /\ Width \in Nat /\ x \in 0..(Width - 1) /\ s \in Int /\ -Left <= s /\ s <= Right
  BY LettersAssumption, PointsAssumption DEF X
<1>2. XStart + Left < Width
  <2>1. 1 \in 1..MaxLength
    BY LettersAssumption
  <2> QED
    BY <1>1, <2>1, LettersApart
<1>3. CASE x + s < 0
  <2>1. (-(x + s)) % Width = -(x + s)
    BY <1>1, <1>2, <1>3
  <2>2. jsRemainder(x + s, Width) = x + s
    BY <1>1, <1>3, <2>1 DEF jsRemainder
  <2>3. Source(x, s) = x
    BY <1>1, <1>3, <2>2 DEF Source, X
  <2> QED
    BY <1>1, <1>3, <2>3 DEF X
<1>4. CASE x + s \in X
  <2>1. (x + s) % Width = x + s
    BY <1>1, <1>4 DEF X
  <2>2. jsRemainder(x + s, Width) = x + s
    BY <1>1, <1>4, <2>1 DEF jsRemainder, X
  <2> QED
    BY <1>4, <2>2 DEF Source
<1>5. CASE x + s >= Width
  <2>1. (x + s) % Width = x + s - Width
    BY <1>1, <1>2, <1>5
  <2>2. jsRemainder(x + s, Width) = x + s - Width
    BY <1>1, <1>5, <2>1 DEF jsRemainder
  <2>3. Source(x, s) = x + s - Width /\ Source(x, s) \in X
    BY <1>1, <1>2, <1>5, <2>2 DEF Source, X
  <2> QED
    BY <1>1, <1>2, <1>5, <2>3
<1> QED
  BY <1>1, <1>3, <1>4, <1>5 DEF X

(* Once they are drawn, the letters stand where they were put until the    *)
(* wave comes, and in the order of the text from then on.                  *)
Written ==
  phase \in {"lines", "points", "curves", "wave"} =>
    \E at \in [DOMAIN text -> Pixel] :
      /\ Spells(at)
      /\ \A i \in DOMAIN text : at[i][1] = LetterX(i)

(* No letter is on the canvas before the text is drawn. *)
NoLetterYet == phase \in {"decoys", "letters"} => \A p \in Pixel : image[p] \notin Char

(* The inductive invariant. *)
Inv == TypeOK /\ NoLetterYet /\ Written /\ ShowsAnswer

(* The text is a sequence of letters, no longer than MaxLength. *)
LEMMA TextFits ==
  ASSUME TypeOK
  PROVE  /\ DOMAIN text \subseteq 1..MaxLength
         /\ \A i \in DOMAIN text : text[i] \in Char
         /\ DOMAIN text \subseteq Nat
<1>1. PICK n \in MinLength..MaxLength : text \in [1..n -> Char]
  BY DEF TypeOK, Text
<1> QED
  BY <1>1, LettersAssumption

(* The types hold at the start. *)
LEMMA TypeInit == Init => TypeOK
BY DEF Init, TypeOK, randomAlphanumeric, Phase, Pixel

(* The types stay. *)
LEMMA TypeNext ==
  ASSUME TypeOK, [generate]_vars
  PROVE  TypeOK'
<1> USE DEF TypeOK, Phase
<1>1. CASE generateUniquePoint
  BY <1>1 DEF generateUniquePoint
<1>2. CASE addAlphanumeric
  BY <1>2 DEF addAlphanumeric
<1>3. CASE addTextDistortionRendering
  <2>1. PICK row \in [DOMAIN text -> Band] :
          image' = [p \in Pixel |->
            IF \E i \in DOMAIN text : p = <<LetterX(i), row[i]>>
            THEN text[CHOOSE i \in DOMAIN text : LetterX(i) = p[1]]
            ELSE image[p]]
    BY <1>3 DEF addTextDistortionRendering
  <2>2. ASSUME NEW p \in Pixel
        PROVE  (IF \E i \in DOMAIN text : p = <<LetterX(i), row[i]>>
                THEN text[CHOOSE i \in DOMAIN text : LetterX(i) = p[1]]
                ELSE image[p]) \in {"blank", "decoy"} \cup Char
    <3>1. CASE \E i \in DOMAIN text : p = <<LetterX(i), row[i]>>
      <4>1. (CHOOSE i \in DOMAIN text : LetterX(i) = p[1]) \in DOMAIN text
        BY <3>1
      <4> QED
        BY <3>1, <4>1, TextFits
    <3> QED
      BY <3>1
  <2> QED
    BY <1>3, <2>1, <2>2 DEF addTextDistortionRendering
<1>4. CASE addNoiseLines \/ addNoisePoints \/ addNoiseCurves \/ applyNoise
  BY <1>4 DEF addNoiseLines, addNoisePoints, addNoiseCurves, applyNoise
<1>5. CASE applyWaveDistortion
  <2>1. PICK shift \in [Y -> -Left..Right] :
          image' = [p \in Pixel |-> image[<<Source(p[1], shift[p[2]]), p[2]>>]]
    BY <1>5 DEF applyWaveDistortion
  <2>2. ASSUME NEW p \in Pixel
        PROVE  <<Source(p[1], shift[p[2]]), p[2]>> \in Pixel
    <3>1. p[1] \in X /\ p[2] \in Y
      BY DEF Pixel
    <3>2. shift[p[2]] \in -Left..Right
      BY <3>1
    <3>3. Source(p[1], shift[p[2]]) \in X
      BY <3>1, <3>2, WhereColoursGo
    <3> QED
      BY <3>1, <3>3 DEF Pixel
  <2> QED
    BY <1>5, <2>1, <2>2 DEF applyWaveDistortion
<1>6. CASE UNCHANGED vars
  BY <1>6 DEF vars
<1> QED
  BY <1>1, <1>2, <1>3, <1>4, <1>5, <1>6 DEF generate

(* The letters are drawn where they belong, over decoys and blanks. *)
LEMMA LettersAreWritten ==
  ASSUME TypeOK, addTextDistortionRendering,
         \A p \in Pixel : image[p] \notin Char
  PROVE  Written' /\ ShowsAnswer'
<1>1. PICK row \in [DOMAIN text -> Band] :
        image' = [p \in Pixel |->
          IF \E i \in DOMAIN text : p = <<LetterX(i), row[i]>>
          THEN text[CHOOSE i \in DOMAIN text : LetterX(i) = p[1]]
          ELSE image[p]]
  BY DEF addTextDistortionRendering
<1>2. text' = text
  BY DEF addTextDistortionRendering
<1>3. PICK at : at = [i \in DOMAIN text |-> <<LetterX(i), row[i]>>]
  OBVIOUS
<1>4. ASSUME NEW i \in DOMAIN text PROVE <<LetterX(i), row[i]>> \in Pixel
  <2>1. LetterX(i) \in X
    BY TextFits, LettersApart, LettersAssumption, PointsAssumption DEF X
  <2> QED
    BY <2>1, LettersAssumption DEF Pixel
<1>5. at \in [DOMAIN text -> Pixel]
  BY <1>3, <1>4
<1>6. \A i, j \in DOMAIN text : LetterX(i) = LetterX(j) => i = j
  <2> SUFFICES ASSUME NEW i \in DOMAIN text, NEW j \in DOMAIN text, i # j
               PROVE  LetterX(i) # LetterX(j)
    OBVIOUS
  <2>1. i < j \/ j < i
    BY TextFits
  <2>2. XStep \in Nat /\ XStep > 0
    BY LettersAssumption
  <2>3. LetterX(i) \in Int /\ LetterX(j) \in Int
    BY TextFits, LettersApart, LettersAssumption, PointsAssumption
  <2> QED
    BY <2>1, <2>2, <2>3, TextFits, LettersApart
<1>7. ASSUME NEW i \in DOMAIN text PROVE image'[at[i]] = text[i]
  <2>1. (CHOOSE j \in DOMAIN text : LetterX(j) = LetterX(i)) = i
    BY <1>6
  <2>2. at[i] = <<LetterX(i), row[i]>> /\ at[i][1] = LetterX(i) /\ at[i] \in Pixel
    BY <1>3, <1>4
  <2> QED
    BY <1>1, <2>1, <2>2
<1>8. ASSUME NEW p \in Pixel, image'[p] \in Char
      PROVE  \E i \in DOMAIN text : p = at[i]
  <2>1. \E i \in DOMAIN text : p = <<LetterX(i), row[i]>>
    BY <1>1, <1>8
  <2> QED
    BY <1>3, <2>1
<1>9. \A i \in DOMAIN text : at[i][1] = LetterX(i)
  BY <1>3
<1>10. ASSUME NEW i \in DOMAIN text, NEW j \in DOMAIN text, i < j
       PROVE  at[i][1] < at[j][1]
  <2>1. LetterX(i) \in Int /\ LetterX(j) \in Int /\ LetterX(i) + XStep <= LetterX(j)
    BY <1>10, TextFits, LettersApart, LettersAssumption, PointsAssumption
  <2>2. XStep \in Nat /\ XStep > 0
    BY LettersAssumption
  <2> QED
    BY <1>9, <2>1, <2>2
<1>11. Spells(at)'
  BY <1>2, <1>7, <1>8 DEF Spells
<1> QED
  BY <1>2, <1>5, <1>9, <1>10, <1>11 DEF Written, ShowsAnswer

(* The wave carries each letter to another column of its row, and keeps    *)
(* the letters in order.                                                   *)
LEMMA WaveKeepsTheAnswer ==
  ASSUME TypeOK, Written, applyWaveDistortion
  PROVE  ShowsAnswer'
<1>1. PICK at \in [DOMAIN text -> Pixel] :
        Spells(at) /\ \A i \in DOMAIN text : at[i][1] = LetterX(i)
  BY DEF Written, applyWaveDistortion
<1>2. PICK shift \in [Y -> -Left..Right] :
        image' = [p \in Pixel |-> image[<<Source(p[1], shift[p[2]]), p[2]>>]]
  BY DEF applyWaveDistortion
<1>3. text' = text /\ \A i \in DOMAIN text : i \in Nat /\ text[i] \in Char
  BY TextFits DEF applyWaveDistortion
<1>4. \A i \in DOMAIN text : /\ at[i][2] \in Y /\ at[i] = <<LetterX(i), at[i][2]>>
                             /\ shift[at[i][2]] \in -Left..Right
  BY <1>1 DEF Pixel
<1>5. PICK to : to = [i \in DOMAIN text |-> <<LetterX(i) - shift[at[i][2]], at[i][2]>>]
  OBVIOUS
<1>6. /\ Left \in Nat /\ Right \in Nat /\ XStart \in Nat /\ XStep \in Nat /\ Width \in Nat
      /\ Left <= XStart /\ Right <= XStart /\ Left + Right < XStep
  BY LettersAssumption, PointsAssumption
<1>7. \A i \in DOMAIN text : LetterX(i) \in XStart..(Width - 1 - Left)
  BY TextFits, LettersApart
<1>8. ASSUME NEW i \in DOMAIN text
      PROVE  LetterX(i) - shift[at[i][2]] \in X
  BY <1>4, <1>6, <1>7 DEF X
<1>9. to \in [DOMAIN text -> Pixel]
  BY <1>4, <1>5, <1>8 DEF Pixel
<1>10. ASSUME NEW i \in DOMAIN text
       PROVE  image'[to[i]] = text[i]
  <2>1. to[i] \in Pixel /\ to[i][1] = LetterX(i) - shift[at[i][2]] /\ to[i][2] = at[i][2]
    BY <1>5, <1>9
  <2>2. to[i][1] \in X /\ to[i][1] + shift[at[i][2]] = LetterX(i)
    BY <1>4, <1>6, <1>7, <1>8, <2>1
  <2>3. Source(to[i][1], shift[at[i][2]]) = LetterX(i)
    BY <1>4, <1>7, <2>2, WhereColoursGo
  <2>4. image'[to[i]] = image[at[i]]
    BY <1>2, <1>4, <2>1, <2>3
  <2> QED
    BY <1>1, <2>4 DEF Spells
<1>11. ASSUME NEW p \in Pixel, image'[p] \in Char
       PROVE  \E i \in DOMAIN text : p = to[i]
  <2>1. p[1] \in X /\ p[2] \in Y /\ p = <<p[1], p[2]>> /\ shift[p[2]] \in -Left..Right
    BY DEF Pixel
  <2>2. Source(p[1], shift[p[2]]) \in X
    BY <2>1, WhereColoursGo
  <2>3. <<Source(p[1], shift[p[2]]), p[2]>> \in Pixel
    BY <2>1, <2>2 DEF Pixel
  <2>4. image[<<Source(p[1], shift[p[2]]), p[2]>>] \in Char
    BY <1>2, <1>11
  <2>5. PICK i \in DOMAIN text : <<Source(p[1], shift[p[2]]), p[2]>> = at[i]
    BY <1>1, <2>3, <2>4 DEF Spells
  <2>6. Source(p[1], shift[p[2]]) = LetterX(i) /\ p[2] = at[i][2]
    BY <1>4, <2>5
  <2>7. p[1] + shift[p[2]] = LetterX(i)
    BY <1>7, <2>1, <2>6, WhereColoursGo
  <2>8. p[1] = LetterX(i) - shift[at[i][2]]
    BY <1>6, <1>7, <2>1, <2>6, <2>7 DEF X
  <2> QED
    BY <1>5, <2>1, <2>6, <2>8
<1>12. ASSUME NEW i \in DOMAIN text, NEW j \in DOMAIN text, i < j
       PROVE  to[i][1] < to[j][1]
  <2>1. LetterX(i) + XStep <= LetterX(j)
    BY <1>12, TextFits, LettersApart
  <2>2. /\ shift[at[i][2]] \in -Left..Right /\ shift[at[j][2]] \in -Left..Right
        /\ LetterX(i) \in Int /\ LetterX(j) \in Int
    BY <1>4, <1>6, <1>7
  <2>3. LetterX(i) - shift[at[i][2]] < LetterX(j) - shift[at[j][2]]
    BY <1>6, <2>1, <2>2
  <2> QED
    BY <1>5, <2>3
<1>13. Spells(to)'
  BY <1>3, <1>10, <1>11 DEF Spells
<1> QED
  BY <1>3, <1>9, <1>12, <1>13 DEF ShowsAnswer

(* What the picture shows of the answer survives every other drawing. *)
LEMMA AnswerNext ==
  ASSUME Inv, [generate]_vars
  PROVE  (NoLetterYet /\ Written /\ ShowsAnswer)'
<1> USE DEF Inv
<1>1. CASE addAlphanumeric
  <2>1. \A p \in Pixel : image'[p] \notin Char
    BY <1>1, LettersAssumption DEF addAlphanumeric, NoLetterYet
  <2> QED
    BY <1>1, <2>1 DEF addAlphanumeric, NoLetterYet, Written, ShowsAnswer
<1>2. CASE addTextDistortionRendering
  <2>1. Written' /\ ShowsAnswer'
    BY <1>2, LettersAreWritten DEF addTextDistortionRendering, NoLetterYet
  <2>2. phase' = "lines"
    BY <1>2 DEF addTextDistortionRendering
  <2> QED
    BY <2>1, <2>2 DEF NoLetterYet
<1>3. CASE applyWaveDistortion
  <2>1. ShowsAnswer'
    BY <1>3, WaveKeepsTheAnswer
  <2> QED
    BY <1>3, <2>1 DEF applyWaveDistortion, NoLetterYet, Written
<1>4. CASE UNCHANGED <<text, image>> /\ UNCHANGED phase
  BY <1>4 DEF NoLetterYet, Written, ShowsAnswer, Spells
<1>5. CASE /\ UNCHANGED <<text, image>>
           /\ \/ phase \in {"lines", "points", "curves"} /\ phase' \in {"points", "curves", "wave"}
              \/ phase = "noise" /\ phase' = "done"
  BY <1>5 DEF NoLetterYet, Written, ShowsAnswer, Spells
<1> QED
  BY <1>1, <1>2, <1>3, <1>4, <1>5
     DEF generate, generateUniquePoint, addNoiseLines, addNoisePoints, addNoiseCurves,
         applyNoise, vars

(* The types and the answer hold in every state of a drawing. *)
THEOREM ImageInvariant == Spec => []Inv
<1>1. Init => Inv
  BY TypeInit, LettersAssumption DEF Init, Inv, NoLetterYet, Written, ShowsAnswer
<1>2. Inv /\ [generate]_vars => Inv'
  BY TypeNext, AnswerNext DEF Inv
<1> QED
  BY <1>1, <1>2, PTL DEF Spec

(* Every variable keeps its type: nothing is drawn off the canvas, and the *)
(* wave reads no colour from outside of it.                                *)
THEOREM ImageTypes == Spec => []TypeOK
<1>1. Inv => TypeOK
  BY DEF Inv
<1> QED
  BY <1>1, ImageInvariant, PTL

(* The picture of a captcha shows its answer, letter by letter and nothing *)
(* twice, from the drawing of the text on, through the wave of generate.   *)
THEOREM AnswerIsShown == Spec => []ShowsAnswer
<1>1. Inv => ShowsAnswer
  BY DEF Inv
<1> QED
  BY <1>1, ImageInvariant, PTL

-----------------------------------------------------------------------------
(* The loops for distinct points.                                          *)

(* The canvas is finite, and has at least the pixels a loop asks for. *)
LEMMA CanvasSuffices ==
  /\ IsFiniteSet(Pixel)
  /\ Cardinality(Pixel) = Width * Height
  /\ \A ph \in {"decoys", "lines", "points"} : total(ph) \in Nat /\ total(ph) <= Cardinality(Pixel)
<1>1. Width \in Nat /\ Height \in Nat
  BY PointsAssumption
<1>2. IsFiniteSet(X) /\ Cardinality(X) = Width
  <2>1. 0 \in Int /\ Width - 1 \in Int
    BY <1>1
  <2>2. IsFiniteSet(0..(Width - 1))
        /\ Cardinality(0..(Width - 1)) = IF 0 > Width - 1 THEN 0 ELSE Width - 1 - 0 + 1
    BY <2>1, FS_Interval
  <2> QED
    BY <1>1, <2>2 DEF X
<1>3. IsFiniteSet(Y) /\ Cardinality(Y) = Height
  <2>1. 0 \in Int /\ Height - 1 \in Int
    BY <1>1
  <2>2. IsFiniteSet(0..(Height - 1))
        /\ Cardinality(0..(Height - 1)) = IF 0 > Height - 1 THEN 0 ELSE Height - 1 - 0 + 1
    BY <2>1, FS_Interval
  <2> QED
    BY <1>1, <2>2 DEF Y
<1>4. IsFiniteSet(Pixel) /\ Cardinality(Pixel) = Width * Height
  <2>1. IsFiniteSet(X \X Y) /\ Cardinality(X \X Y) = Cardinality(X) * Cardinality(Y)
    BY <1>2, <1>3, FS_Product
  <2> QED
    BY <1>2, <1>3, <2>1 DEF Pixel
<1>5. \A k \in 0..(Width * Height) : k \in Nat /\ k <= Width * Height
  <2>1. Width * Height \in Nat
    BY <1>1
  <2> QED
    BY <2>1
<1>6. ASSUME NEW ph \in {"decoys", "lines", "points"}
      PROVE  total(ph) \in {Decoys, Lines, Points}
  BY DEF total
<1> QED
  BY <1>4, <1>5, <1>6, PointsAssumption

(* A loop never has more points than it asks for, and starts with none.    *)
LoopCounts ==
  IF Loops THEN Cardinality(points) <= total(phase) ELSE points = {}

(* A turn of the loop adds one point or none. *)
LEMMA LoopNext ==
  ASSUME TypeOK, LoopCounts, [generate]_vars
  PROVE  LoopCounts'
<1>0. Cardinality({}) = 0
  BY FS_EmptySet
<1>1. CASE generateUniquePoint
  <2>1. PICK p \in Pixel : points' = points \cup {p}
    BY <1>1 DEF generateUniquePoint
  <2>2. /\ Loops /\ phase' = phase
        /\ ~(Cardinality(points) >= total(phase))
    BY <1>1 DEF generateUniquePoint, Enough
  <2>3. IsFiniteSet(points) /\ Cardinality(points) \in Nat
    BY CanvasSuffices, FS_Subset, FS_CardinalityType DEF TypeOK
  <2>4. Cardinality(points') = IF p \in points THEN Cardinality(points) ELSE Cardinality(points) + 1
    BY <2>1, <2>3, FS_AddElement
  <2>5. total(phase) \in Nat
    BY <2>2, CanvasSuffices DEF Loops
  <2>6. Cardinality(points') <= total(phase)
    BY <2>2, <2>3, <2>4, <2>5
  <2> QED
    BY <2>2, <2>6 DEF LoopCounts, Loops
<1>2. CASE addAlphanumeric \/ addNoiseLines \/ addNoisePoints
  <2>1. points' = {} /\ phase' \in {"letters", "points", "curves"}
    BY <1>2 DEF addAlphanumeric, addNoiseLines, addNoisePoints
  <2>2. Loops' => 0 <= total(phase')
    BY CanvasSuffices DEF Loops
  <2> QED
    BY <1>0, <2>1, <2>2 DEF LoopCounts
<1>3. CASE addTextDistortionRendering
  <2>1. points' = {} /\ phase' = "lines"
    BY <1>3 DEF addTextDistortionRendering, LoopCounts, Loops
  <2>2. 0 <= total(phase')
    BY <2>1, CanvasSuffices
  <2> QED
    BY <1>0, <2>1, <2>2 DEF LoopCounts
<1>4. CASE addNoiseCurves \/ applyWaveDistortion \/ applyNoise
  BY <1>4 DEF addNoiseCurves, applyWaveDistortion, applyNoise, LoopCounts, Loops
<1>5. CASE UNCHANGED vars
  BY <1>5 DEF vars, LoopCounts, Loops
<1> QED
  BY <1>1, <1>2, <1>3, <1>4, <1>5 DEF generate

(* Each drawing gets exactly as many points as it asks for, and a loop     *)
(* that still needs one has a pixel left to draw: the process is never     *)
(* left in a loop that cannot end.                                         *)
THEOREM LoopsCanEnd ==
  Spec => [](Loops => /\ Enough => Cardinality(points) = total(phase)
                      /\ ~Enough => \E p \in Pixel : p \notin points)
<1>1. Init => LoopCounts
  <2>1. 0 <= total("decoys")
    BY CanvasSuffices
  <2> QED
    BY <2>1, FS_EmptySet DEF Init, LoopCounts
<1>2. TypeOK /\ LoopCounts /\ [generate]_vars => LoopCounts'
  BY LoopNext
<1>3. TypeOK /\ LoopCounts =>
        (Loops => /\ Enough => Cardinality(points) = total(phase)
                  /\ ~Enough => \E p \in Pixel : p \notin points)
  <2> SUFFICES ASSUME TypeOK, LoopCounts, Loops
               PROVE  /\ Enough => Cardinality(points) = total(phase)
                      /\ ~Enough => \E p \in Pixel : p \notin points
    OBVIOUS
  <2>1. Cardinality(points) \in Nat /\ Cardinality(points) <= total(phase)
    BY CanvasSuffices, FS_Subset, FS_CardinalityType DEF TypeOK, LoopCounts
  <2>2. total(phase) \in Nat /\ total(phase) <= Cardinality(Pixel)
    BY CanvasSuffices DEF Loops
  <2>3. Enough => Cardinality(points) = total(phase)
    BY <2>1, <2>2 DEF Enough
  <2>4. ASSUME ~Enough PROVE \E p \in Pixel : p \notin points
    <3>1. points # Pixel
      <4>1. Cardinality(points) # total(phase)
        BY <2>1, <2>2, <2>4 DEF Enough
      <4>2. Cardinality(Pixel) \in Nat
        BY CanvasSuffices, FS_CardinalityType
      <4>3. Cardinality(points) # Cardinality(Pixel)
        BY <2>1, <2>2, <4>1, <4>2
      <4> QED
        BY <4>3
    <3> QED
      BY <3>1 DEF TypeOK
  <2> QED
    BY <2>3, <2>4
<1> QED
  BY <1>1, <1>2, <1>3, ImageTypes, PTL DEF Spec
=============================================================================
