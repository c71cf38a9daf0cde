-------------------------------- MODULE Slug --------------------------------
(***************************************************************************)
(* EnterpriseRepository.sanitizeSlug, the chain of string replacements     *)
(* that turns what a user typed into the slug of an enterprise.            *)
(*                                                                         *)
(* A text is a function from 1..n to character classes: the replacements   *)
(* treat all members of a class alike. Each replacement keeps some of the  *)
(* positions of a text, so that each is one set of positions.              *)
(***************************************************************************)
EXTENDS Integers, FiniteSets

CONSTANT MaxLength   \* bound on the length of the texts that are tried
ASSUME MaxLengthAssumption == MaxLength \in Nat

VARIABLES input, slug, done
vars == <<input, slug, done>>

(* "a", "b": lower-case letters or digits; "A", "B": their upper case;     *)
(* "accented": a letter that NFD splits in a letter and a mark; "mark": a  *)
(* combining mark; "space": any \s; "other": whatever is dropped.          *)
Class == {"a", "b", "A", "B", "accented", "mark", "space", "hyphen", "other"}
Text == UNION {[1..n -> Class] : n \in 0..MaxLength}

Length(t) == Cardinality(DOMAIN t)

(* The k-th smallest member of a set of positions. *)
Nth(S, k) == CHOOSE i \in S : Cardinality({j \in S : j <= i}) = k

(* The characters of t at the positions S, in their order. *)
keep(t, S) == [k \in 1..Cardinality(S) |-> t[Nth(S, k)]]

toLowerCase(t) ==
  [i \in DOMAIN t |-> IF t[i] = "A" THEN "a" ELSE IF t[i] = "B" THEN "b" ELSE t[i]]

(* Two places for every character, of which only a letter with an accent   *)
(* needs the second.                                                       *)
normalizeNFD(t) ==
  LET places == 1..(2 * Length(t))
      of(k) == t[(k + 1) \div 2]
  IN keep([k \in places |-> IF k % 2 = 0 THEN "mark"
                            ELSE IF of(k) = "accented" THEN "a" ELSE of(k)],
          {k \in places : k % 2 = 1 \/ of(k) = "accented"})

dropAll(t, classes) == keep(t, {i \in DOMAIN t : t[i] \notin classes})

trim(t) ==
  LET solid == {i \in DOMAIN t : t[i] # "space"}
  IN keep(t, {i \in DOMAIN t : \E a, b \in solid : a <= i /\ i <= b})

(* Every run of a class becomes one hyphen. *)
replaceRuns(t, class) ==
  keep([i \in DOMAIN t |-> IF t[i] = class THEN "hyphen" ELSE t[i]],
       {i \in DOMAIN t : t[i] # class \/ i = 1 \/ t[i - 1] # class})

(* A bug of sanitizeSlug: blanks are trimmed before the rest is dropped. *)
sanitizeSlugTrimFirst(s) ==
  LET letters == dropAll(normalizeNFD(toLowerCase(trim(s))), {"mark", "other"})
  IN replaceRuns(replaceRuns(letters, "space"), "hyphen")

(* A bug of sanitizeSlug: hyphens are joined before blanks become hyphens. *)
sanitizeSlugHyphensFirst(s) ==
  LET letters == dropAll(normalizeNFD(toLowerCase(s)), {"mark", "other"})
  IN replaceRuns(replaceRuns(trim(letters), "hyphen"), "space")

sanitizeSlug(s) ==
  LET letters == dropAll(dropAll(normalizeNFD(toLowerCase(s)), {"mark"}), {"other"})
  IN replaceRuns(replaceRuns(trim(letters), "space"), "hyphen")

Init == input \in Text /\ slug = <<>> /\ done = FALSE

Sanitize ==
  /\ ~done
  /\ slug' = sanitizeSlug(input)
  /\ done' = TRUE
  /\ UNCHANGED input

Next == Sanitize
Spec == Init /\ [][Next]_vars
-----------------------------------------------------------------------------
(* What a slug should be, read off the text: its letters in their order,   *)
(* and a hyphen for the separators between one letter and the next. A      *)
(* hyphen separates wherever it was typed, a blank only when there is a    *)
(* letter or a hyphen somewhere before it and another one after.           *)
Letter(c) == c \in {"a", "b", "A", "B", "accented"}
Plain(c) ==
  IF c \in {"A", "accented"} THEN "a"
  ELSE IF c = "B" THEN "b" ELSE IF c = "space" THEN "hyphen" ELSE c

Letters(s) == {i \in DOMAIN s : Letter(s[i])}
Hyphens(s) == {i \in DOMAIN s : s[i] = "hyphen"}
Separators(s) ==
  Hyphens(s) \cup {i \in DOMAIN s : /\ s[i] = "space"
                                    /\ \E a \in Letters(s) \cup Hyphens(s) : a < i
                                    /\ \E b \in Letters(s) \cup Hyphens(s) : i < b}

(* The separators that none precedes without a letter between the two.     *)
Gaps(s) == {i \in Separators(s) :
              \A j \in Separators(s) : j < i => \E l \in Letters(s) : j < l /\ l < i}

Reference(s) == keep([i \in DOMAIN s |-> Plain(s[i])], Letters(s) \cup Gaps(s))

(* The chain of replacements computes that slug for every text. *)
MatchesReference == done => slug = Reference(input)

(* existsSlug sanitizes a text once and the insert sanitizes the text it   *)
(* is given, typed or taken from a stored row: a slug is its own slug.     *)
Idempotent == done => sanitizeSlug(slug) = slug
=============================================================================
