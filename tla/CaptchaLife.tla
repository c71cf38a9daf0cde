---------------------------- MODULE CaptchaLife ----------------------------
(***************************************************************************)
(* What the validation promises of one captcha that is answered by one     *)
(* request at a time: it takes MaxAttempts answers at most, each is        *)
(* counted, the first right one solves it for good, and one token at most  *)
(* is handed out, after that.  It may vanish with its template.            *)
(*                                                                         *)
(* A captcha that gets a second answer while one is under way is disturbed *)
(* and nothing is promised of it any more.                                 *)
(*                                                                         *)
(* Captcha.tla shows that the handlers, which read the row of a captcha,   *)
(* write it back and record the attempt with an await before each, over    *)
(* cascading deletes and crashes, implement this.                          *)
(***************************************************************************)
EXTENDS Integers

CONSTANTS
  CaptchaId,
  MaxAttempts

VARIABLES
  life,      \* life[c]: where captcha c stands
  left,      \* left[c]: how many answers c still takes
  granted    \* the captchas that a token was handed out for

vars == <<life, left, granted>>

Life == {"new", "open", "solved", "gone", "disturbed"}

TypeOK ==
  /\ life \in [CaptchaId -> Life]
  /\ left \in [CaptchaId -> 0..MaxAttempts]
  /\ granted \subseteq CaptchaId

Init ==
  /\ life = [c \in CaptchaId |-> "new"]
  /\ left = [c \in CaptchaId |-> 0]
  /\ granted = {}

Draw(c) ==
  /\ life[c] = "new"
  /\ life' = [life EXCEPT ![c] = "open"]
  /\ left' = [left EXCEPT ![c] = MaxAttempts]
  /\ UNCHANGED granted

(* An answer uses one attempt up, right or wrong. *)
Answer(c, outcome) ==
  /\ life[c] = "open"
  /\ left[c] > 0
  /\ life' = [life EXCEPT ![c] = outcome]
  /\ left' = [left EXCEPT ![c] = @ - 1]
  /\ UNCHANGED granted

(* The token for the right answer. *)
Grant(c) ==
  /\ life[c] = "solved"
  /\ c \notin granted
  /\ granted' = granted \cup {c}
  /\ UNCHANGED <<life, left>>

(* The template of some captchas is deleted. *)
Vanish(some) ==
  /\ \A c \in some : life[c] \in {"open", "solved"}
  /\ life' = [c \in CaptchaId |-> IF c \in some THEN "gone" ELSE life[c]]
  /\ left' = [c \in CaptchaId |-> IF c \in some THEN 0 ELSE left[c]]
  /\ UNCHANGED granted

(* An answer comes while another one is under way. *)
Disturb(c) ==
  /\ life[c] = "open"
  /\ left[c] > 0
  /\ life' = [life EXCEPT ![c] = "disturbed"]
  /\ left' = [left EXCEPT ![c] = 0]
  /\ UNCHANGED granted

Next ==
  \/ \E c \in CaptchaId :
       \/ Draw(c)
       \/ Answer(c, "open") \/ Answer(c, "solved")
       \/ Grant(c)
       \/ Disturb(c)
  \/ \E some \in SUBSET CaptchaId : Vanish(some)

Spec == Init /\ [][Next]_vars
=============================================================================
