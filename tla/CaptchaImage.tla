---------------------------- MODULE CaptchaImage ----------------------------
(***************************************************************************)
(* TextCaptchaFactory.generate: the random text of a captcha is drawn on   *)
(* a canvas, among decoys and under translucent noise, and the picture is  *)
(* then distorted row by row.                                              *)
(*                                                                         *)
(* A pixel is blank, part of a decoy, or the origin of a letter of the     *)
(* text.  Points that have to be distinct are drawn in a loop that repeats *)
(* until it has enough of them.  What is drawn after the letters is        *)
(* translucent and covers none of them, and so is the final noise, which   *)
(* adds up to 20 to colours that saturate; colours are left out.           *)
(***************************************************************************)
EXTENDS Integers, FiniteSets

CONSTANTS
  Char,                  \* the letters a text is made of
  MinLength, MaxLength,  \* of the text; 7 and 7 in the code
  Width, Height,         \* of the canvas; 300 and 120
  XStart, XStep,         \* where letters are drawn; 20 and 38
  Band,                  \* the rows letters are drawn in; 65..94
  Decoys, Lines, Points, \* how many points each drawing asks for; 40, 5, 8
  Left, Right            \* bounds of the floor of the sine wave; 8 and 7

X == 0..(Width - 1)
Y == 0..(Height - 1)
Pixel == X \X Y

(* Every call of generateUniquePoints asks for points the canvas has. *)
ASSUME PointsAssumption ==
  /\ Width \in Nat /\ Height \in Nat
  /\ {Decoys, Lines, Points} \subseteq 0..(Width * Height)

(* The letters are on the canvas, far enough from its sides and from one   *)
(* another for the wave.                                                   *)
ASSUME LettersAssumption ==
  /\ Char \cap {"blank", "decoy"} = {}
  /\ MinLength \in Nat \ {0} /\ MaxLength \in Nat /\ MinLength <= MaxLength
  /\ Band \subseteq Y
  /\ XStart \in Nat /\ XStep \in Nat
  /\ Left \in 0..XStart /\ Right \in 0..XStart
  /\ XStart + (MaxLength - 1) * XStep + Left < Width
  /\ Left + Right < XStep

VARIABLES
  text,    \* the answer of the captcha
  image,   \* image[p]: what is at pixel p
  points,  \* the points the running loop has
  phase    \* the drawing generate has come to; see Phase

vars == <<text, image, points, phase>>

Phase == {"decoys", "letters", "lines", "points", "curves", "wave", "noise", "done"}

Text(lengths) == UNION {[1..n -> Char] : n \in lengths}

TypeOK ==
  /\ text \in Text(MinLength..MaxLength)
  /\ image \in [Pixel -> {"blank", "decoy"} \cup Char]
  /\ points \subseteq Pixel
  /\ phase \in Phase

(* A bug of randomAlphanumeric: the length is rounded up. *)
randomAlphanumericCeil == Text(MinLength..(MaxLength + 1))

(* length is floor(random * (max - min + 1)) + min. *)
randomAlphanumeric == Text(MinLength..MaxLength)

Init ==
  /\ text \in randomAlphanumeric
  /\ image = [p \in Pixel |-> "blank"]
  /\ points = {}
  /\ phase = "decoys"

(* The number of points the drawings that need some ask for. *)
total(ph) == CASE ph = "decoys" -> Decoys [] ph = "lines" -> Lines [] ph = "points" -> Points

Loops == phase \in {"decoys", "lines", "points"}
Enough == Cardinality(points) >= total(phase)

-----------------------------------------------------------------------------
(* A bug of generateUniquePoint: the last column is never drawn. *)
generateUniquePointNarrow ==
  /\ Loops /\ ~Enough
  /\ \E p \in Pixel : p[1] < Width - 1 /\ points' = points \cup {p}
  /\ UNCHANGED <<text, image, phase>>

(* One turn of the loop of generateUniquePoints; a point it has already    *)
(* adds nothing to the set.                                                *)
generateUniquePoint ==
  /\ Loops /\ ~Enough
  /\ \E p \in Pixel : points' = points \cup {p}
  /\ UNCHANGED <<text, image, phase>>

(* Small letters at the points. *)
addAlphanumeric ==
  /\ phase = "decoys" /\ Enough
  /\ image' = [p \in Pixel |-> IF p \in points THEN "decoy" ELSE image[p]]
  /\ points' = {}
  /\ phase' = "letters"
  /\ UNCHANGED text

LetterX(i) == XStart + (i - 1) * XStep

(* The text, left to right, each letter in a row of its own choice. *)
addTextDistortionRendering ==
  /\ phase = "letters"
  /\ \E row \in [DOMAIN text -> Band] :
       image' = [p \in Pixel |->
         IF \E i \in DOMAIN text : p = <<LetterX(i), row[i]>>
         THEN text[CHOOSE i \in DOMAIN text : LetterX(i) = p[1]]
         ELSE image[p]]
  /\ phase' = "lines"
  /\ UNCHANGED <<text, points>>

(* Translucent strokes that start, or discs that lie, at the points. *)
addNoiseLines ==
  /\ phase = "lines" /\ Enough
  /\ points' = {}
  /\ phase' = "points"
  /\ UNCHANGED <<text, image>>

addNoisePoints ==
  /\ phase = "points" /\ Enough
  /\ points' = {}
  /\ phase' = "curves"
  /\ UNCHANGED <<text, image>>

addNoiseCurves ==
  /\ phase = "curves"
  /\ phase' = "wave"
  /\ UNCHANGED <<text, image, points>>

(* The remainder of JavaScript has the sign of its dividend. *)
jsRemainder(a, b) == IF a >= 0 THEN a % b ELSE -((-a) % b)

(* Where the pixel at column x takes its colour from, in a row displaced   *)
(* by s; a column outside of the canvas leaves the pixel as it is.         *)
Source(x, s) ==
  LET newX == jsRemainder(x + s, Width) IN IF newX \in X THEN newX ELSE x

(* A bug of applyWaveDistortion: it reads the rows it is writing. *)
applyWaveDistortionInPlace ==
  /\ phase = "wave"
  /\ \E shift \in [Y -> -Left..Right] :
       image' = [p \in Pixel |->
         LET colour[x \in X] == IF Source(x, shift[p[2]]) < x
                                THEN colour[Source(x, shift[p[2]])]
                                ELSE image[<<Source(x, shift[p[2]]), p[2]>>]
         IN colour[p[1]]]
  /\ phase' = "noise"
  /\ UNCHANGED <<text, points>>

(* Each pixel takes the colour of another one of its row in a copy of the  *)
(* picture; how far depends on the row.                                    *)
applyWaveDistortion ==
  /\ phase = "wave"
  /\ \E shift \in [Y -> -Left..Right] :
       image' = [p \in Pixel |-> image[<<Source(p[1], shift[p[2]]), p[2]>>]]
  /\ phase' = "noise"
  /\ UNCHANGED <<text, points>>

applyNoise ==
  /\ phase = "noise"
  /\ phase' = "done"
  /\ UNCHANGED <<text, image, points>>

generate ==
  \/ generateUniquePoint \/ addAlphanumeric
  \/ addTextDistortionRendering
  \/ addNoiseLines \/ addNoisePoints \/ addNoiseCurves
  \/ applyWaveDistortion \/ applyNoise

(* generate never waits, and a loop that still needs points draws a new    *)
(* one in the end: as long as there is one, each turn hits it with the     *)
(* same positive probability.                                              *)
Spec == Init /\ [][generate]_vars /\ WF_vars(generate)
-----------------------------------------------------------------------------
(* The letters of the picture are those of the answer, the i-th at at[i].  *)
Spells(at) ==
  /\ \A i \in DOMAIN text : image[at[i]] = text[i]
  /\ \A p \in Pixel : image[p] \in Char => \E i \in DOMAIN text : p = at[i]

(* Once the letters are drawn the picture, read from left to right, shows  *)
(* the answer, letter by letter and nothing twice: no decoy lies over a    *)
(* letter, and the wave neither pushes one off the canvas, nor doubles it  *)
(* at the side it wraps around, nor swaps it with its neighbour in another *)
(* row.                                                                    *)
ShowsAnswer ==
  phase \notin {"decoys", "letters"} =>
    \E at \in [DOMAIN text -> Pixel] :
      /\ Spells(at)
      /\ \A i, j \in DOMAIN text : i < j => at[i][1] < at[j][1]

(* generate comes to its end: the loops for distinct points, which block   *)
(* the whole process, find as many as they ask for.                        *)
DrawingFinishes == <>(phase = "done")
=============================================================================
