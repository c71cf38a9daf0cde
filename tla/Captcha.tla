------------------------------ MODULE Captcha ------------------------------
(***************************************************************************)
(* Captcha templates, the captchas drawn from them, and the validation of  *)
(* answers.                                                                *)
(*                                                                         *)
(* Employees create, change and delete templates; a site asks for a        *)
(* captcha with the public key of a template, which each process caches;   *)
(* an answer is checked against the row of the captcha, whose attempt      *)
(* counter is read, then written back plus one, then followed by an        *)
(* attempt row.  A request is a handler in flight and pc the await it      *)
(* stands before.  Nothing calls the update of a template yet, as it has   *)
(* no route, nor the validation, which captcha.module.ts does not provide. *)
(* They are modelled as the use cases stand, run by handlers like the      *)
(* others.                                                                 *)
(***************************************************************************)
EXTENDS Integers

CONSTANTS
  Template, NoTemplate,
  CaptchaId, NoCaptcha,    \* a finite set bounds how many are ever drawn
  MaxAttempts,             \* how often a captcha may be answered; 5 in the code
  Node, Request, NodeOf    \* NodeOf[r]: the process that serves slot r

ASSUME MaxAttemptsAssumption == MaxAttempts \in Nat \ {0}
ASSUME NodeOfAssumption == NodeOf \in [Request -> Node]

VARIABLES
  templates,      \* templates[t]: the row of template t, or NoTemplate
  templateCache,  \* templateCache[n][t]: the row node n remembers by public key
  captchas,       \* captchas[c]: the row of captcha c, or NoCaptcha
  right, wrong,   \* right[c], wrong[c]: attempt rows of c by isCorrect
  req,            \* req[r]: the handler in slot r
  made, drawn,    \* history: the ids of templates and of captchas in use
  tokens,         \* history: tokens[c], the solution tokens handed out for c
  overtaken,      \* history: the updates in flight whose row another one wrote
  overlapped      \* history: captchas two validations of which ran at once

vars == <<templates, templateCache, captchas, right, wrong, req,
          made, drawn, tokens, overtaken, overlapped>>
templateVars == <<templates, templateCache, made, overtaken>>
answers == <<right, wrong, tokens, overlapped>>

(* The two fields that matter of a template, by what keeps it from being   *)
(* drawn: not isActive, and a type that has no factory (such as            *)
(* alphanumeric_case_sensitive).                                           *)
Defect == {"inactive", "unsupported"}
Form == SUBSET Defect
Change == Defect \X BOOLEAN
Row == [template : Template, attempts : 0..MaxAttempts, isSolved : BOOLEAN]
Pc == {"idle", "change", "delete", "dbRead", "fill", "insert", "update", "attempt"}
Handler == [pc : Pc, template : Template \cup {NoTemplate},
            copy : Form, changes : SUBSET Change,
            captcha : CaptchaId \cup {NoCaptcha},
            seen : 0..MaxAttempts - 1, correct : BOOLEAN]

(* A handler that works on a template, with what it was sent or has read   *)
(* of it, and one that checks an answer.                                   *)
Serving(pc, t, copy, ch) ==
  [pc |-> pc, template |-> t, copy |-> copy, changes |-> ch,
   captcha |-> NoCaptcha, seen |-> 0, correct |-> FALSE]
Checking(c, seen, correct) ==
  [pc |-> "update", template |-> NoTemplate, copy |-> {}, changes |-> {},
   captcha |-> c, seen |-> seen, correct |-> correct]
Idle == Serving("idle", NoTemplate, {}, {})

ASSUME NoneAssumption == /\ NoTemplate \notin Template /\ \A form \in Form : form # NoTemplate
                         /\ NoCaptcha \notin CaptchaId /\ NoCaptcha \notin Row

TypeOK ==
  /\ templates \in [Template -> Form \cup {NoTemplate}]
  /\ templateCache \in [Node -> [Template -> Form \cup {NoTemplate}]]
  /\ captchas \in [CaptchaId -> Row \cup {NoCaptcha}]
  /\ right \in [CaptchaId -> Nat]
  /\ wrong \in [CaptchaId -> Nat]
  /\ req \in [Request -> Handler]
  /\ made \subseteq Template
  /\ drawn \subseteq CaptchaId
  /\ tokens \in [CaptchaId -> Nat]
  /\ overtaken \subseteq Request
  /\ overlapped \subseteq CaptchaId

Init ==
  /\ templates = [t \in Template |-> NoTemplate]
  /\ templateCache = [n \in Node |-> [t \in Template |-> NoTemplate]]
  /\ captchas = [c \in CaptchaId |-> NoCaptcha]
  /\ right = [c \in CaptchaId |-> 0]
  /\ wrong = [c \in CaptchaId |-> 0]
  /\ req = [r \in Request |-> Idle]
  /\ made = {}
  /\ drawn = {}
  /\ tokens = [c \in CaptchaId |-> 0]
  /\ overtaken = {}
  /\ overlapped = {}

HasRow(c) == captchas[c] # NoCaptcha

Live(t) == templates[t] # NoTemplate

(* Only an active template is loaded, and of a type with a factory drawn. *)
Drawable(form) == form = {}

NewCaptcha(t) == [template |-> t, attempts |-> 0, isSolved |-> FALSE]

Goto(r, pc) == req' = [req EXCEPT ![r].pc = pc]
End(r) == req' = [req EXCEPT ![r] = Idle]

-----------------------------------------------------------------------------
(* A template with a name of its own; a name that is taken throws, and     *)
(* nothing changes.                                                        *)
CreateTemplate(t, form) ==
  /\ t \notin made
  /\ made' = made \cup {t}
  /\ templates' = [templates EXCEPT ![t] = form]
  /\ UNCHANGED <<templateCache, captchas, req, drawn, overtaken, answers>>

(* A bug of changes: an isActive that is false counts as not sent. *)
changesTruthy(form, dto) ==
  {<<d, d \in dto>> : d \in (form \ dto) \cup (dto \ (form \cup {"inactive"}))}

(* The fields in which what was sent differs from what was read. *)
changes(form, dto) ==
  {<<d, d \in dto>> : d \in (form \ dto) \cup (dto \ form)}

(* The update of a template has found its row and worked out the changes;  *)
(* an isActive that was not sent changes nothing ...                       *)
BeginUpdate(r, t, dto) ==
  /\ req[r].pc = "idle"
  /\ Live(t)
  /\ req' = [req EXCEPT ![r] = Serving("change", t, dto, changes(templates[t], dto))]
  /\ UNCHANGED <<templateVars, captchas, drawn, answers>>

(* ... and writes those.  No copy of the template is dropped from any      *)
(* cache.  Or the update throws and writes nothing: the row is gone, or the*)
(* name it asks for is taken, which nothing looks up before.  (Names are   *)
(* unique over all enterprises, and are data here: any update may ask for a*)
(* new one, and any name may be taken.)                                    *)
UpdateTemplate(r) ==
  LET t == req[r].template
      ch == req[r].changes
  IN
  /\ req[r].pc = "change"
  /\ \/ /\ Live(t)
        /\ templates' = [templates EXCEPT ![t] = {d \in Defect :
             <<d, TRUE>> \in ch \/ (d \in templates[t] /\ <<d, FALSE>> \notin ch)}]
        /\ overtaken' = (overtaken \ {r}) \cup
             {q \in Request \ {r} : req[q].pc = "change" /\ req[q].template = t}
     \/ /\ UNCHANGED templates
        /\ overtaken' = overtaken \ {r}
  /\ End(r)
  /\ UNCHANGED <<templateCache, captchas, made, drawn, answers>>

(* The delete of a template has found its row ... *)
BeginDelete(r, t) ==
  /\ req[r].pc = "idle"
  /\ Live(t)
  /\ req' = [req EXCEPT ![r] = Serving("delete", t, {}, {})]
  /\ UNCHANGED <<templateVars, captchas, drawn, answers>>

(* ... and deletes it, or throws when it is gone.  The foreign keys        *)
(* cascade: its captchas go with it, and their attempts.                   *)
DeleteTemplate(r) ==
  LET t == req[r].template
      gone == {c \in CaptchaId : HasRow(c) /\ captchas[c].template = t}
  IN
  /\ req[r].pc = "delete"
  /\ templates' = [templates EXCEPT ![t] = NoTemplate]
  /\ captchas' = [c \in CaptchaId |-> IF c \in gone THEN NoCaptcha ELSE captchas[c]]
  /\ right' = [c \in CaptchaId |-> IF c \in gone THEN 0 ELSE right[c]]
  /\ wrong' = [c \in CaptchaId |-> IF c \in gone THEN 0 ELSE wrong[c]]
  /\ End(r)
  /\ UNCHANGED <<templateCache, made, drawn, tokens, overtaken, overlapped>>

-----------------------------------------------------------------------------
(* A bug of BeginShow: a hit is written back, to slide its time to live. *)
BeginShowSliding(r, t) ==
  LET copy == templateCache[NodeOf[r]][t] IN
  /\ req[r].pc = "idle"
  /\ t \in made
  /\ req' = [req EXCEPT ![r] =
       IF copy = NoTemplate THEN Serving("dbRead", t, {}, {})
       ELSE Serving("fill", t, copy, {})]
  /\ UNCHANGED <<templateVars, captchas, drawn, answers>>

(* A bug of BeginShow: a cached template counts as checked. *)
BeginShowUnchecked(r, t) ==
  /\ req[r].pc = "idle"
  /\ t \in made
  /\ req' = [req EXCEPT ![r] = Serving(
       IF templateCache[NodeOf[r]][t] = NoTemplate THEN "dbRead" ELSE "insert", t, {}, {})]
  /\ UNCHANGED <<templateVars, captchas, drawn, answers>>

(* GET captchas: the interceptor looks the public key up in the cache of   *)
(* the node.  A hit on a template that cannot be drawn is answered with an *)
(* error at once.                                                          *)
BeginShow(r, t) ==
  LET copy == templateCache[NodeOf[r]][t] IN
  /\ req[r].pc = "idle"
  /\ t \in made
  /\ copy # NoTemplate => Drawable(copy)
  /\ req' = [req EXCEPT ![r] =
       Serving(IF copy = NoTemplate THEN "dbRead" ELSE "insert", t, {}, {})]
  /\ UNCHANGED <<templateVars, captchas, drawn, answers>>

ReadTemplate(r) ==
  LET t == req[r].template IN
  /\ req[r].pc = "dbRead"
  /\ IF Live(t)
     THEN req' = [req EXCEPT ![r] = Serving("fill", t, templates[t], {})]
     ELSE End(r)
  /\ UNCHANGED <<templateVars, captchas, drawn, answers>>

(* The template read is cached, by now perhaps changed or deleted; only an *)
(* active one that a factory can draw goes on.                             *)
FillTemplate(r) ==
  LET copy == req[r].copy IN
  /\ req[r].pc = "fill"
  /\ templateCache' = [templateCache EXCEPT ![NodeOf[r]][req[r].template] = copy]
  /\ IF Drawable(copy) THEN Goto(r, "insert") ELSE End(r)
  /\ UNCHANGED <<templates, captchas, made, drawn, overtaken, answers>>

(* A bug of InsertCaptcha: the row is inserted without its template. *)
InsertCaptchaUnconnected(r) ==
  /\ req[r].pc = "insert"
  /\ \E c \in CaptchaId \ drawn :
       /\ drawn' = drawn \cup {c}
       /\ captchas' = [captchas EXCEPT ![c] = NewCaptcha(req[r].template)]
  /\ End(r)
  /\ UNCHANGED <<templateVars, answers>>

(* The captcha is drawn and its row inserted, connected to the template;   *)
(* with a cached template that has no row any more the insert throws.      *)
InsertCaptcha(r) ==
  /\ req[r].pc = "insert"
  /\ IF Live(req[r].template)
     THEN \E c \in CaptchaId \ drawn :
            /\ drawn' = drawn \cup {c}
            /\ captchas' = [captchas EXCEPT ![c] = NewCaptcha(req[r].template)]
     ELSE UNCHANGED <<drawn, captchas>>
  /\ End(r)
  /\ UNCHANGED <<templateVars, answers>>

-----------------------------------------------------------------------------
(* A bug of BeginValidate: one attempt too many. *)
BeginValidateOffByOne(r, c, correct) ==
  /\ req[r].pc = "idle"
  /\ HasRow(c)
  /\ ~captchas[c].isSolved
  /\ captchas[c].attempts <= MaxAttempts
  /\ req' = [req EXCEPT ![r] = Checking(c, captchas[c].attempts, correct)]
  /\ overlapped' = overlapped \cup {d \in {c} : \E q \in Request : req[q].captcha = d}
  /\ UNCHANGED <<templateVars, captchas, drawn, right, wrong, tokens>>

(* A bug of BeginValidate: a solved captcha may be answered again. *)
BeginValidateSolved(r, c, correct) ==
  /\ req[r].pc = "idle"
  /\ HasRow(c)
  /\ captchas[c].attempts < MaxAttempts
  /\ req' = [req EXCEPT ![r] = Checking(c, captchas[c].attempts, correct)]
  /\ overlapped' = overlapped \cup {d \in {c} : \E q \in Request : req[q].captcha = d}
  /\ UNCHANGED <<templateVars, captchas, drawn, right, wrong, tokens>>

(* validate reads the captcha; validateCaptcha refuses a solved one and    *)
(* one with MaxAttempts attempts.  The row has no expiresAt, so the test   *)
(* for expiry compares undefined and refuses none.                         *)
BeginValidate(r, c, correct) ==
  /\ req[r].pc = "idle"
  /\ HasRow(c)
  /\ ~captchas[c].isSolved
  /\ captchas[c].attempts < MaxAttempts
  /\ req' = [req EXCEPT ![r] = Checking(c, captchas[c].attempts, correct)]
  /\ overlapped' = overlapped \cup {d \in {c} : \E q \in Request : req[q].captcha = d}
  /\ UNCHANGED <<templateVars, captchas, drawn, right, wrong, tokens>>

(* A bug of UpdateCaptcha: only right answers are counted. *)
UpdateCaptchaUncounted(r) ==
  LET c == req[r].captcha IN
  /\ req[r].pc = "update"
  /\ IF HasRow(c)
     THEN /\ captchas' = [captchas EXCEPT ![c] = [template |-> captchas[c].template,
               attempts |-> req[r].seen + IF req[r].correct THEN 1 ELSE 0,
               isSolved |-> req[r].correct]]
          /\ Goto(r, "attempt")
     ELSE End(r) /\ UNCHANGED captchas
  /\ UNCHANGED <<templateVars, drawn, answers>>

(* The result and the counter read before plus one; throws without a row. *)
UpdateCaptcha(r) ==
  LET c == req[r].captcha IN
  /\ req[r].pc = "update"
  /\ IF HasRow(c)
     THEN /\ captchas' = [captchas EXCEPT ![c] = [template |-> captchas[c].template,
               attempts |-> req[r].seen + 1, isSolved |-> req[r].correct]]
          /\ Goto(r, "attempt")
     ELSE End(r) /\ UNCHANGED captchas
  /\ UNCHANGED <<templateVars, drawn, answers>>

(* The attempt row; a right answer is then given a token for it.  (When the*)
(* process stops while it signs the token, the answer is only lost.)       *)
CreateAttempt(r) ==
  LET c == req[r].captcha IN
  /\ req[r].pc = "attempt"
  /\ IF ~HasRow(c) THEN UNCHANGED <<right, wrong, tokens>>
     ELSE IF req[r].correct
     THEN /\ right' = [right EXCEPT ![c] = @ + 1]
          /\ tokens' = [tokens EXCEPT ![c] = @ + 1]
          /\ UNCHANGED wrong
     ELSE wrong' = [wrong EXCEPT ![c] = @ + 1] /\ UNCHANGED <<right, tokens>>
  /\ End(r)
  /\ UNCHANGED <<templateVars, captchas, drawn, overlapped>>

-----------------------------------------------------------------------------
(* The time to live of an entry passes (or the store evicts it). *)
Expire(n, t) ==
  /\ templateCache[n][t] # NoTemplate
  /\ templateCache' = [templateCache EXCEPT ![n][t] = NoTemplate]
  /\ UNCHANGED <<templates, captchas, req, made, drawn, overtaken, answers>>

Crash(n) ==
  /\ templateCache' = [templateCache EXCEPT ![n] = [t \in Template |-> NoTemplate]]
  /\ req' = [r \in Request |-> IF NodeOf[r] = n THEN Idle ELSE req[r]]
  /\ overtaken' = {r \in overtaken : NodeOf[r] # n}
  /\ UNCHANGED <<templates, captchas, made, drawn, answers>>

Step(r) ==
  \/ UpdateTemplate(r) \/ DeleteTemplate(r)
  \/ ReadTemplate(r) \/ FillTemplate(r) \/ InsertCaptcha(r)
  \/ UpdateCaptcha(r) \/ CreateAttempt(r)

Next ==
  \/ \E t \in Template, form \in Form : CreateTemplate(t, form)
  \/ \E r \in Request :
       \/ \E t \in Template : \/ \E dto \in Form : BeginUpdate(r, t, dto)
                             \/ BeginDelete(r, t)
                             \/ BeginShow(r, t)
       \/ \E c \in CaptchaId, correct \in BOOLEAN : BeginValidate(r, c, correct)
       \/ Step(r)
  \/ \E n \in Node, t \in Template : Expire(n, t)
  \/ \E n \in Node : Crash(n)

(* A handler that has begun goes on, and entries expire; nobody has to     *)
(* send a request.                                                         *)
Fairness ==
  /\ \A r \in Request : WF_vars(Step(r))
  /\ \A n \in Node, t \in Template : WF_vars(Expire(n, t))

FairSpec == Init /\ [][Next]_vars /\ Fairness
-----------------------------------------------------------------------------
(* A captcha never outlives its template, nor an attempt its captcha, even *)
(* though captchas are drawn from cached templates.                        *)
NoOrphans ==
  \A c \in CaptchaId :
    /\ HasRow(c) => Live(captchas[c].template)
    /\ ~HasRow(c) => right[c] + wrong[c] = 0

(* Answers that are given one after the other are all counted before they  *)
(* are recorded, even when the process stops in between; so no captcha     *)
(* takes more than MaxAttempts of them.  (Answers that overlap lose each   *)
(* other's increments.)                                                    *)
AttemptsCounted ==
  \A c \in CaptchaId \ overlapped : HasRow(c) =>
    right[c] + wrong[c] <= captchas[c].attempts

(* Answers that are given one after the other solve a captcha at most      *)
(* once, and a token means that it is solved for good.                     *)
SolvedOnce ==
  \A c \in CaptchaId \ overlapped :
    /\ tokens[c] <= 1
    /\ tokens[c] = 1 /\ HasRow(c) => captchas[c].isSolved

(* An update writes only the fields that differ from the row it has read,  *)
(* and yet leaves the template as it was asked to, or, when it throws, as  *)
(* it was: unless another update wrote the row in between, when the row may*)
(* end as nobody asked for.                                                *)
TemplateUpdateIsWhole ==
  [][\A r \in Request \ overtaken :
       LET t == req[r].template IN
       UpdateTemplate(r) /\ Live(t) => templates'[t] \in {req[r].copy, templates[t]}]_vars

(* Every copy of a template, and every handler that draws from one, agrees *)
(* with its row in the end, unless it is changed again and again: a        *)
(* template that was deleted or made inactive stops being drawn on every   *)
(* process, although nothing is dropped from any cache and fills race with *)
(* the change.  (A drawing waits when the ids of captchas have run out.)   *)
Settled(t) ==
  /\ \A n \in Node : templateCache[n][t] \in {NoTemplate, templates[t]}
  /\ \A r \in Request : req[r].template = t =>
       /\ req[r].pc = "fill" => req[r].copy = templates[t]
       /\ req[r].pc = "insert" => templates[t] = {} \/ (Live(t) /\ drawn = CaptchaId)

CopiesSettle ==
  \A t \in Template :
    []<><<templates'[t] # templates[t]>>_templates \/ <>[]Settled(t)

(* Once the copies agree with the row they do so until the row changes     *)
(* again: whatever is read, cached and drawn from them meanwhile.          *)
SettledForGood ==
  [][\A t \in Template : Settled(t) /\ templates'[t] = templates[t] => Settled(t)']_vars

-----------------------------------------------------------------------------
(* The refinement: the life of a captcha, and what is left of it.          *)
lifeOf(c) ==
  IF c \in overlapped THEN "disturbed"
  ELSE IF c \notin drawn THEN "new"
  ELSE IF ~HasRow(c) THEN "gone"
  ELSE IF captchas[c].isSolved THEN "solved"
  ELSE "open"

leftOf(c) ==
  IF c \notin overlapped /\ HasRow(c) THEN MaxAttempts - captchas[c].attempts ELSE 0

Lives == INSTANCE CaptchaLife WITH
  life <- [c \in CaptchaId |-> lifeOf(c)],
  left <- [c \in CaptchaId |-> leftOf(c)],
  granted <- {c \in CaptchaId \ overlapped : tokens[c] > 0}

(* Validations that read a captcha, write it back and record the attempt,  *)
(* an await before each, keep the promise of CaptchaLife: an attempt is    *)
(* never given back, nor a solved captcha opened again, nor a second token *)
(* handed out.                                                             *)
ImplementsLives == Lives!Spec
=============================================================================
