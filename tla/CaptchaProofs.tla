--------------------------- MODULE CaptchaProofs ---------------------------
(***************************************************************************)
(* Proofs about Captcha for any number of templates, captchas, handlers    *)
(* and processes, and any limit on the attempts.                           *)
(*                                                                         *)
(* A captcha is drawn from a template that may be gone, and its counter is *)
(* written back some awaits after it was read.  The inductive invariant is *)
(* TypeInv /\ Safety: an id that is not in use yet has left nothing behind *)
(* (Unused), a captcha whose answers do not overlap has one handler        *)
(* (Alone), and Checks says what this handler can rely on: at "update" the *)
(* counter is the one it has read, at "attempt" it is ahead of the rows.   *)
(*                                                                         *)
(* Updates of templates need UpdatesKnow: what an update carries is the    *)
(* difference to the row as it is now, unless another one has written it.  *)
(***************************************************************************)
EXTENDS Captcha, TLAPS

(* The awaits of a handler that works on a template. *)
ServingPc == {"change", "delete", "dbRead", "fill", "insert"}

(* What a handler carries at each await. *)
Carries(r) == LET h == req[r] IN
  /\ h.pc \in ServingPc => h.template \in Template
  /\ h.pc \in {"update", "attempt"} <=> h.captcha # NoCaptcha

TypeInv == TypeOK /\ \A r \in Request : Carries(r)

(* A captcha has no row, no token and no handler before it is drawn. *)
Unused(c) ==
  c \notin drawn => /\ ~HasRow(c) /\ tokens[c] = 0
                    /\ \A r \in Request : req[r].captcha # c

(* Answers that have not overlapped have one handler at a time. *)
Alone(c) ==
  c \notin overlapped =>
    \A r, q \in Request : req[r].captcha = c /\ req[q].captcha = c => r = q

(* What the only handler that checks an answer can rely on. *)
Checks(r) == LET h == req[r]
                 c == h.captcha
             IN
  c # NoCaptcha /\ c \notin overlapped /\ HasRow(c) =>
    /\ tokens[c] = 0
    /\ h.pc = "update" => h.seen = captchas[c].attempts /\ ~captchas[c].isSolved
    /\ h.pc = "attempt" => /\ right[c] + wrong[c] + 1 <= captchas[c].attempts
                           /\ h.correct => captchas[c].isSolved

Safety ==
  /\ \A c \in CaptchaId : Unused(c) /\ Alone(c)
  /\ \A r \in Request : Checks(r)
  /\ NoOrphans
  /\ AttemptsCounted
  /\ SolvedOnce

-----------------------------------------------------------------------------
(* The handlers a request may become have the type of handlers. *)
LEMMA IdleType == Idle \in Handler /\ Idle.pc = "idle" /\ Idle.captcha = NoCaptcha
<1> {} \in Form /\ {} \in SUBSET Change
  BY DEF Form
<1> 0 \in 0..MaxAttempts - 1
  BY MaxAttemptsAssumption
<1> QED
  BY DEF Idle, Serving, Handler, Pc

(* The same of one that works on a template. *)
LEMMA ServingType ==
  ASSUME NEW pc \in ServingPc, NEW t \in Template, NEW copy \in Form, NEW ch \in SUBSET Change
  PROVE  /\ Serving(pc, t, copy, ch) \in Handler
         /\ Serving(pc, t, copy, ch).pc = pc
         /\ Serving(pc, t, copy, ch).template = t
         /\ Serving(pc, t, copy, ch).captcha = NoCaptcha
<1> 0 \in 0..MaxAttempts - 1
  BY MaxAttemptsAssumption
<1> QED
  BY DEF Serving, Handler, Pc, ServingPc

(* The same of one that checks an answer. *)
LEMMA CheckingType ==
  ASSUME NEW c \in CaptchaId, NEW seen \in 0..MaxAttempts - 1, NEW correct \in BOOLEAN
  PROVE  /\ Checking(c, seen, correct) \in Handler
         /\ Checking(c, seen, correct).pc = "update"
         /\ Checking(c, seen, correct).captcha = c
         /\ Checking(c, seen, correct).seen = seen
<1> {} \in Form /\ {} \in SUBSET Change
  BY DEF Form
<1> QED
  BY DEF Checking, Handler, Pc

(* What becomes of the handlers when that of a slot is replaced. *)
LEMMA Moves ==
  ASSUME TypeInv, NEW r \in Request, NEW h \in Handler, req' = [req EXCEPT ![r] = h]
  PROVE  /\ req' \in [Request -> Handler] /\ req'[r] = h
         /\ \A q \in Request \ {r} : req'[q] = req[q]
BY DEF TypeInv, TypeOK

(* A handler ends. *)
LEMMA Ends ==
  ASSUME TypeInv, NEW r \in Request, End(r)
  PROVE  /\ req' \in [Request -> Handler] /\ req'[r].pc = "idle" /\ req'[r].captcha = NoCaptcha
         /\ \A q \in Request \ {r} : req'[q] = req[q]
BY Moves, IdleType DEF End

(* A handler goes on to its next await. *)
LEMMA Goes ==
  ASSUME TypeInv, NEW r \in Request, NEW pc \in Pc, Goto(r, pc)
  PROVE  /\ req' \in [Request -> Handler] /\ req'[r].pc = pc
         /\ req'[r].template = req[r].template /\ req'[r].captcha = req[r].captcha
         /\ req'[r].seen = req[r].seen /\ req'[r].correct = req[r].correct
         /\ \A q \in Request \ {r} : req'[q] = req[q]
BY DEF TypeInv, TypeOK, Goto, Handler

(* A handler works on a template. *)
LEMMA Serves ==
  ASSUME TypeInv, NEW r \in Request, NEW pc \in ServingPc, NEW t \in Template,
         NEW copy \in Form, NEW ch \in SUBSET Change,
         req' = [req EXCEPT ![r] = Serving(pc, t, copy, ch)]
  PROVE  /\ req' \in [Request -> Handler] /\ req'[r].pc \in ServingPc
         /\ req'[r].template = t /\ req'[r].captcha = NoCaptcha
         /\ \A q \in Request \ {r} : req'[q] = req[q]
<1> DEFINE h == Serving(pc, t, copy, ch)
<1>1. h \in Handler /\ h.pc = pc /\ h.template = t /\ h.captcha = NoCaptcha
  BY ServingType
<1>2. req' = [req EXCEPT ![r] = h]
  OBVIOUS
<1> HIDE DEF h
<1> QED
  BY <1>1, <1>2, Moves

(* Nothing exists in the initial state. *)
LEMMA InvInit == Init => TypeInv /\ Safety
<1> SUFFICES ASSUME Init PROVE TypeInv /\ Safety
  OBVIOUS
<1>1. TypeInv
  BY IdleType DEF Init, TypeInv, TypeOK, Carries, ServingPc
<1>2. Safety
  BY IdleType, NoneAssumption
     DEF Init, Safety, Unused, Alone, Checks, NoOrphans, AttemptsCounted, SolvedOnce,
         HasRow
<1> QED
  BY <1>1, <1>2

-----------------------------------------------------------------------------
(* The captchas are as safe as before when nothing of theirs changes, no   *)
(* handler begins to check an answer, and no template goes.                *)
LEMMA CaptchasUntouched ==
  ASSUME TypeInv, Safety, UNCHANGED <<captchas, right, wrong, drawn, tokens, overlapped>>,
         \A r \in Request : req'[r] = req[r] \/ req'[r].captcha = NoCaptcha,
         \A t \in Template : Live(t) => Live(t)'
  PROVE  Safety'
<1>1. \A c \in CaptchaId : HasRow(c)' <=> HasRow(c)
  BY DEF HasRow
<1>2. ASSUME NEW c \in CaptchaId PROVE Unused(c)' /\ Alone(c)'
  BY <1>1, NoneAssumption DEF Safety, Unused, Alone
<1>3. ASSUME NEW r \in Request PROVE Checks(r)'
  <2>1. CASE req'[r] = req[r]
    BY <2>1 DEF Safety, Checks, HasRow
  <2>2. CASE req'[r].captcha = NoCaptcha
    BY <2>2 DEF Checks
  <2> QED
    BY <2>1, <2>2
<1>4. NoOrphans'
  <2>1. \A c \in CaptchaId : HasRow(c) => captchas[c].template \in Template
    BY DEF TypeInv, TypeOK, HasRow, Row
  <2> QED
    BY <1>1, <2>1 DEF Safety, NoOrphans
<1>5. AttemptsCounted' /\ SolvedOnce'
  BY <1>1 DEF Safety, AttemptsCounted, SolvedOnce
<1> QED
  BY <1>2, <1>3, <1>4, <1>5 DEF Safety

(* A template that is created is one more. *)
LEMMA CreateTemplateInv ==
  ASSUME TypeInv, Safety, NEW t \in Template, NEW form \in Form, CreateTemplate(t, form)
  PROVE  TypeInv' /\ Safety'
<1>1. /\ UNCHANGED <<templateCache, captchas, req, drawn, right, wrong, tokens, overtaken, overlapped>>
      /\ made' = made \cup {t}
  BY DEF CreateTemplate, answers
<1>2. /\ templates' \in [Template -> Form \cup {NoTemplate}]
      /\ \A x \in Template : Live(x) => Live(x)'
  BY NoneAssumption DEF CreateTemplate, TypeInv, TypeOK, Live
<1>3. TypeInv'
  BY <1>1, <1>2 DEF TypeInv, TypeOK, Carries
<1> QED
  BY <1>1, <1>2, <1>3, CaptchasUntouched

(* A handler begins to work on a template. *)
LEMMA BeginServingInv ==
  ASSUME TypeInv, Safety, NEW r \in Request, NEW t \in Template,
         (\E dto \in Form : BeginUpdate(r, t, dto)) \/ BeginDelete(r, t) \/ BeginShow(r, t)
  PROVE  TypeInv' /\ Safety'
<1>1. UNCHANGED <<templates, templateCache, made, captchas, drawn,
                  right, wrong, tokens, overtaken, overlapped>>
  BY DEF BeginUpdate, BeginDelete, BeginShow, templateVars, answers
<1>2. PICK pc \in ServingPc, copy \in Form, ch \in SUBSET Change :
        req' = [req EXCEPT ![r] = Serving(pc, t, copy, ch)]
  <2>0. {} \in Form
    BY DEF Form
  <2>1. CASE \E dto \in Form : BeginUpdate(r, t, dto)
    <3>1. PICK dto \in Form : BeginUpdate(r, t, dto)
      BY <2>1
    <3>2. changes(templates[t], dto) \in SUBSET Change
      <4>1. templates[t] \in Form
        BY <3>1 DEF BeginUpdate, Live, TypeInv, TypeOK
      <4>2. (templates[t] \ dto) \cup (dto \ templates[t]) \subseteq Defect
        BY <4>1 DEF Form
      <4>3. \A d \in Defect : <<d, d \in dto>> \in Change
        <5> TAKE d \in Defect
        <5>1. (d \in dto) \in BOOLEAN
          OBVIOUS
        <5> QED
          BY <5>1, Zenon DEF Change
      <4> QED
        BY <4>2, <4>3 DEF changes
    <3> QED
      BY <3>1, <3>2 DEF BeginUpdate, ServingPc
  <2>2. CASE BeginDelete(r, t)
    BY <2>0, <2>2 DEF BeginDelete, ServingPc
  <2>3. CASE BeginShow(r, t)
    <3>1. (IF templateCache[NodeOf[r]][t] = NoTemplate THEN "dbRead" ELSE "insert") \in ServingPc
      BY DEF ServingPc
    <3> QED
      BY <2>0, <2>3, <3>1 DEF BeginShow
  <2> QED
    BY <2>1, <2>2, <2>3
<1>3. /\ req' \in [Request -> Handler] /\ req'[r].pc \in ServingPc
      /\ req'[r].template = t /\ req'[r].captcha = NoCaptcha
      /\ \A q \in Request \ {r} : req'[q] = req[q]
  BY <1>2, Serves
<1>4. TypeInv'
  BY <1>1, <1>3 DEF TypeInv, TypeOK, Carries, ServingPc
<1>5. \A x \in Template : Live(x) => Live(x)'
  BY <1>1 DEF Live
<1> QED
  BY <1>1, <1>3, <1>4, <1>5, CaptchasUntouched

(* An update leaves the row of a template where there is one. *)
LEMMA UpdateTemplateInv ==
  ASSUME TypeInv, Safety, NEW r \in Request, UpdateTemplate(r)
  PROVE  TypeInv' /\ Safety'
<1>1. UNCHANGED <<templateCache, captchas, made, drawn, right, wrong, tokens, overlapped>>
  BY DEF UpdateTemplate, answers
<1>2. /\ req' \in [Request -> Handler] /\ req'[r].pc = "idle" /\ req'[r].captcha = NoCaptcha
      /\ \A q \in Request \ {r} : req'[q] = req[q]
  BY Ends DEF UpdateTemplate
<1>3. /\ templates' \in [Template -> Form \cup {NoTemplate}]
      /\ \A x \in Template : Live(x) => Live(x)'
  <2> DEFINE t == req[r].template
             ch == req[r].changes
             form == {d \in Defect :
                       <<d, TRUE>> \in ch \/ (d \in templates[t] /\ <<d, FALSE>> \notin ch)}
  <2>1. form \in Form /\ form # NoTemplate
    BY NoneAssumption DEF Form
  <2>2. templates' = templates \/ templates' = [templates EXCEPT ![t] = form]
    BY DEF UpdateTemplate
  <2> QED
    BY <2>1, <2>2 DEF TypeInv, TypeOK, Live
<1>4. overtaken' \subseteq Request
  BY DEF UpdateTemplate, TypeInv, TypeOK
<1>5. TypeInv'
  BY <1>1, <1>2, <1>3, <1>4 DEF TypeInv, TypeOK, Carries, ServingPc
<1> QED
  BY <1>1, <1>2, <1>3, <1>5, CaptchasUntouched

(* A drawing reads its template, or ends. *)
LEMMA ReadTemplateInv ==
  ASSUME TypeInv, Safety, NEW r \in Request, ReadTemplate(r)
  PROVE  TypeInv' /\ Safety'
<1> DEFINE t == req[r].template
<1>1. /\ UNCHANGED <<templates, templateCache, made, captchas, drawn,
                     right, wrong, tokens, overtaken, overlapped>>
      /\ t \in Template
  BY DEF ReadTemplate, templateVars, answers, TypeInv, Carries, ServingPc
<1>2. /\ req' \in [Request -> Handler] /\ req'[r].captcha = NoCaptcha
      /\ \/ req'[r].pc = "idle"
         \/ req'[r].pc \in ServingPc /\ req'[r].template = t
      /\ \A q \in Request \ {r} : req'[q] = req[q]
  <2>1. CASE Live(t)
    <3>1. templates[t] \in Form /\ {} \in SUBSET Change /\ "fill" \in ServingPc
      BY <1>1, <2>1 DEF Live, TypeInv, TypeOK, ServingPc
    <3>2. req' = [req EXCEPT ![r] = Serving("fill", t, templates[t], {})]
      BY <2>1 DEF ReadTemplate
    <3> QED
      BY <1>1, <3>1, <3>2, Serves
  <2>2. CASE ~Live(t)
    BY <2>2, Ends DEF ReadTemplate
  <2> QED
    BY <2>1, <2>2
<1>3. TypeInv'
  BY <1>1, <1>2 DEF TypeInv, TypeOK, Carries, ServingPc
<1>4. \A x \in Template : Live(x) => Live(x)'
  BY <1>1 DEF Live
<1> QED
  BY <1>1, <1>2, <1>3, <1>4, CaptchasUntouched

(* What it has read is cached. *)
LEMMA FillTemplateInv ==
  ASSUME TypeInv, Safety, NEW r \in Request, FillTemplate(r)
  PROVE  TypeInv' /\ Safety'
<1> DEFINE n == NodeOf[r]
           t == req[r].template
<1>1. /\ UNCHANGED <<templates, made, captchas, drawn, right, wrong, tokens, overtaken, overlapped>>
      /\ n \in Node /\ t \in Template /\ req[r].copy \in Form
      /\ req[r].pc = "fill" /\ req[r].captcha = NoCaptcha
  BY NodeOfAssumption
     DEF FillTemplate, answers, TypeInv, TypeOK, Carries, ServingPc, Handler
<1>2. templateCache' \in [Node -> [Template -> Form \cup {NoTemplate}]]
  BY <1>1 DEF FillTemplate, TypeInv, TypeOK
<1>3. /\ req' \in [Request -> Handler] /\ req'[r].captcha = NoCaptcha
      /\ \/ req'[r].pc = "idle"
         \/ req'[r].pc \in ServingPc /\ req'[r].template = t
      /\ \A q \in Request \ {r} : req'[q] = req[q]
  BY <1>1, Ends, Goes DEF FillTemplate, ServingPc, Pc
<1>4. TypeInv'
  BY <1>1, <1>2, <1>3 DEF TypeInv, TypeOK, Carries, ServingPc
<1>5. \A x \in Template : Live(x) => Live(x)'
  BY <1>1 DEF Live
<1> QED
  BY <1>1, <1>3, <1>4, <1>5, CaptchasUntouched

(* An entry goes, or all entries and handlers of a process. *)
LEMMA ExpireOrCrashInv ==
  ASSUME TypeInv, Safety, NEW n \in Node, (\E t \in Template : Expire(n, t)) \/ Crash(n)
  PROVE  TypeInv' /\ Safety'
<1>1. UNCHANGED <<templates, captchas, made, drawn, right, wrong, tokens, overlapped>>
  BY DEF Expire, Crash, answers
<1>6. overtaken' \subseteq Request
  BY DEF Expire, Crash, TypeInv, TypeOK
<1>2. templateCache' \in [Node -> [Template -> Form \cup {NoTemplate}]]
  BY DEF Expire, Crash, TypeInv, TypeOK
<1>3. /\ req' \in [Request -> Handler]
      /\ \A r \in Request : \/ req'[r] = req[r]
                            \/ req'[r].pc = "idle" /\ req'[r].captcha = NoCaptcha
  <2>1. CASE \E t \in Template : Expire(n, t)
    BY <2>1 DEF Expire, TypeInv, TypeOK
  <2>2. CASE Crash(n)
    BY <2>2, IdleType DEF Crash, TypeInv, TypeOK
  <2> QED
    BY <2>1, <2>2
<1>4. TypeInv'
  BY <1>1, <1>2, <1>3, <1>6 DEF TypeInv, TypeOK, Carries, ServingPc
<1>5. \A x \in Template : Live(x) => Live(x)'
  BY <1>1 DEF Live
<1> QED
  BY <1>1, <1>3, <1>4, <1>5, CaptchasUntouched

(* A template goes with its captchas, and these with their attempts. *)
LEMMA DeleteTemplateInv ==
  ASSUME TypeInv, Safety, NEW r \in Request, DeleteTemplate(r)
  PROVE  TypeInv' /\ Safety'
<1> DEFINE t == req[r].template
           gone == {c \in CaptchaId : HasRow(c) /\ captchas[c].template = t}
<1>1. /\ UNCHANGED <<templateCache, made, drawn, tokens, overtaken, overlapped>> /\ t \in Template
      /\ req[r].captcha = NoCaptcha
  BY DEF DeleteTemplate, TypeInv, Carries, ServingPc
<1>2. /\ req' \in [Request -> Handler] /\ req'[r].pc = "idle" /\ req'[r].captcha = NoCaptcha
      /\ \A q \in Request \ {r} : req'[q] = req[q]
  BY Ends DEF DeleteTemplate
<1>3. /\ templates' \in [Template -> Form \cup {NoTemplate}]
      /\ \A x \in Template \ {t} : templates'[x] = templates[x]
  BY <1>1 DEF DeleteTemplate, TypeInv, TypeOK
<1>4. /\ captchas' = [c \in CaptchaId |-> IF c \in gone THEN NoCaptcha ELSE captchas[c]]
      /\ right' = [c \in CaptchaId |-> IF c \in gone THEN 0 ELSE right[c]]
      /\ wrong' = [c \in CaptchaId |-> IF c \in gone THEN 0 ELSE wrong[c]]
  BY DEF DeleteTemplate
<1>5. \A c \in gone : captchas'[c] = NoCaptcha /\ right'[c] = 0 /\ wrong'[c] = 0
  BY <1>4
<1>6. \A c \in CaptchaId \ gone :
        captchas'[c] = captchas[c] /\ right'[c] = right[c] /\ wrong'[c] = wrong[c]
  BY <1>4
<1>7. \A c \in CaptchaId \ gone : HasRow(c) => captchas[c].template \in Template \ {t}
  BY DEF HasRow, TypeInv, TypeOK, Row
<1>8. TypeInv'
  <2>1. /\ captchas' \in [CaptchaId -> Row \cup {NoCaptcha}]
        /\ right' \in [CaptchaId -> Nat] /\ wrong' \in [CaptchaId -> Nat]
    BY <1>4 DEF TypeInv, TypeOK
  <2> QED
    BY <2>1, <1>1, <1>2, <1>3 DEF TypeInv, TypeOK, Carries, ServingPc
<1> HIDE DEF gone
<1>9. \A c \in CaptchaId : HasRow(c)' <=> HasRow(c) /\ c \notin gone
  BY <1>5, <1>6 DEF HasRow
<1>10. ASSUME NEW c \in CaptchaId PROVE Unused(c)' /\ Alone(c)'
  BY <1>1, <1>2, <1>9, NoneAssumption DEF Safety, Unused, Alone
<1>11. ASSUME NEW q \in Request PROVE Checks(q)'
  <2>1. CASE req'[q].captcha = NoCaptcha
    BY <2>1 DEF Checks
  <2>2. CASE req'[q].captcha # NoCaptcha
    <3>1. req'[q] = req[q] /\ req[q].captcha \in CaptchaId
      BY <2>2, <1>2 DEF TypeInv, TypeOK, Handler
    <3> QED
      BY <3>1, <1>1, <1>6, <1>9 DEF Safety, Checks
  <2> QED
    BY <2>1, <2>2
<1>12. NoOrphans'
  BY <1>3, <1>5, <1>6, <1>7, <1>9 DEF Safety, NoOrphans, Live
<1>13. AttemptsCounted' /\ SolvedOnce'
  BY <1>1, <1>6, <1>9 DEF Safety, AttemptsCounted, SolvedOnce
<1> QED
  BY <1>8, <1>10, <1>11, <1>12, <1>13 DEF Safety

(* A captcha is drawn under an id that is not in use, from a template that *)
(* has its row at that very moment.                                        *)
LEMMA InsertCaptchaInv ==
  ASSUME TypeInv, Safety, NEW r \in Request, InsertCaptcha(r)
  PROVE  TypeInv' /\ Safety'
<1> DEFINE t == req[r].template
<1>1. /\ UNCHANGED <<templates, templateCache, made, right, wrong, tokens, overtaken, overlapped>>
      /\ t \in Template /\ req[r].captcha = NoCaptcha
  BY DEF InsertCaptcha, templateVars, answers, TypeInv, Carries, ServingPc
<1>2. /\ req' \in [Request -> Handler] /\ req'[r].pc = "idle" /\ req'[r].captcha = NoCaptcha
      /\ \A q \in Request \ {r} : req'[q] = req[q]
  BY Ends DEF InsertCaptcha
<1>3. \A x \in Template : Live(x)' <=> Live(x)
  BY <1>1 DEF Live
<1>4. CASE ~Live(t)
  <2>1. UNCHANGED <<drawn, captchas>>
    BY <1>4 DEF InsertCaptcha
  <2>2. TypeInv'
    BY <1>1, <1>2, <2>1 DEF TypeInv, TypeOK, Carries, ServingPc
  <2> QED
    BY <1>1, <1>2, <1>3, <2>1, <2>2, CaptchasUntouched
<1>5. CASE Live(t)
  <2>1. PICK c \in CaptchaId \ drawn : /\ drawn' = drawn \cup {c}
                                      /\ captchas' = [captchas EXCEPT ![c] = NewCaptcha(t)]
    BY <1>5 DEF InsertCaptcha
  <2>2. /\ NewCaptcha(t) \in Row /\ NewCaptcha(t) # NoCaptcha
        /\ NewCaptcha(t).template = t /\ NewCaptcha(t).attempts = 0
    <3>1. 0 \in 0..MaxAttempts
      BY MaxAttemptsAssumption
    <3>2. NewCaptcha(t) \in Row
      BY <1>1, <3>1 DEF NewCaptcha, Row
    <3> QED
      BY <3>2, NoneAssumption DEF NewCaptcha
  <2>3. /\ captchas' \in [CaptchaId -> Row \cup {NoCaptcha}] /\ captchas'[c] = NewCaptcha(t)
        /\ \A d \in CaptchaId \ {c} : captchas'[d] = captchas[d]
    BY <2>1, <2>2 DEF TypeInv, TypeOK
  <2>4. /\ ~HasRow(c) /\ HasRow(c)'
        /\ \A d \in CaptchaId \ {c} : HasRow(d)' <=> HasRow(d)
    BY <2>2, <2>3 DEF HasRow, Safety, Unused
  <2>5. tokens[c] = 0 /\ right[c] = 0 /\ wrong[c] = 0
    <3>1. right[c] \in Nat /\ wrong[c] \in Nat /\ right[c] + wrong[c] = 0
      BY <2>4 DEF TypeInv, TypeOK, Safety, NoOrphans
    <3> QED
      BY <3>1 DEF Safety, Unused
  <2>6. TypeInv'
    BY <1>1, <1>2, <2>1, <2>3 DEF TypeInv, TypeOK, Carries, ServingPc
  <2>7. ASSUME NEW d \in CaptchaId PROVE Unused(d)' /\ Alone(d)'
    <3>1. Unused(d)'
      BY <1>1, <1>2, <2>1, <2>4, NoneAssumption DEF Safety, Unused
    <3>2. Alone(d)'
      BY <1>1, <1>2, NoneAssumption DEF Safety, Alone
    <3> QED
      BY <3>1, <3>2
  <2>8. ASSUME NEW q \in Request PROVE Checks(q)'
    <3>1. CASE req'[q].captcha = NoCaptcha
      BY <3>1 DEF Checks
    <3>2. CASE req'[q].captcha # NoCaptcha
      <4>1. req'[q] = req[q] /\ req[q].captcha \in CaptchaId \ {c}
        BY <3>2, <1>2 DEF TypeInv, TypeOK, Handler, Safety, Unused
      <4> QED
        BY <4>1, <1>1, <2>3, <2>4 DEF Safety, Checks
    <3> QED
      BY <3>1, <3>2
  <2>9. NoOrphans'
    <3>1. \A d \in CaptchaId : HasRow(d) => captchas[d].template \in Template
      BY DEF HasRow, TypeInv, TypeOK, Row
    <3> QED
      BY <1>1, <1>3, <1>5, <2>2, <2>3, <2>4, <3>1 DEF Safety, NoOrphans
  <2>10. AttemptsCounted'
    BY <1>1, <2>2, <2>3, <2>4, <2>5 DEF Safety, AttemptsCounted
  <2>11. SolvedOnce'
    BY <1>1, <2>3, <2>4, <2>5 DEF Safety, SolvedOnce
  <2> QED
    BY <2>6, <2>7, <2>8, <2>9, <2>10, <2>11 DEF Safety
<1> QED
  BY <1>4, <1>5

(* An answer is checked from now on, by this handler alone or overlapping. *)
LEMMA BeginValidateInv ==
  ASSUME TypeInv, Safety, NEW r \in Request, NEW c \in CaptchaId, NEW correct \in BOOLEAN,
         BeginValidate(r, c, correct)
  PROVE  TypeInv' /\ Safety'
<1>1. /\ UNCHANGED <<templates, templateCache, made, captchas, drawn,
                     right, wrong, tokens, overtaken>>
      /\ HasRow(c) /\ ~captchas[c].isSolved /\ captchas[c].attempts < MaxAttempts
      /\ overlapped' = overlapped \cup {d \in {c} : \E q \in Request : req[q].captcha = d}
  BY DEF BeginValidate, templateVars
<1>2. captchas[c].attempts \in 0..MaxAttempts - 1
  BY <1>1, MaxAttemptsAssumption DEF HasRow, TypeInv, TypeOK, Row
<1>3. /\ req' \in [Request -> Handler] /\ req'[r].pc = "update" /\ req'[r].captcha = c
      /\ req'[r].seen = captchas[c].attempts
      /\ \A q \in Request \ {r} : req'[q] = req[q]
  <2> DEFINE h == Checking(c, captchas[c].attempts, correct)
  <2>1. h \in Handler /\ h.pc = "update" /\ h.captcha = c /\ h.seen = captchas[c].attempts
    BY <1>2, CheckingType
  <2>2. req' = [req EXCEPT ![r] = h]
    BY DEF BeginValidate
  <2> HIDE DEF h
  <2> QED
    BY <2>1, <2>2, Moves
<1>4. \A d \in CaptchaId : HasRow(d)' <=> HasRow(d)
  BY <1>1 DEF HasRow
<1>5. /\ overlapped \subseteq overlapped' /\ overlapped' \subseteq overlapped \cup {c}
      /\ c \notin overlapped' => \A q \in Request : req[q].captcha # c
  BY <1>1
<1>6. TypeInv'
  BY <1>1, <1>3, <1>5, NoneAssumption DEF TypeInv, TypeOK, Carries, ServingPc
<1>7. ASSUME NEW d \in CaptchaId PROVE Unused(d)' /\ Alone(d)'
  <2>1. Unused(d)'
    BY <1>1, <1>3, <1>4 DEF Safety, Unused
  <2>2. Alone(d)'
    BY <1>3, <1>5 DEF Safety, Alone
  <2> QED
    BY <2>1, <2>2
<1>8. ASSUME NEW q \in Request PROVE Checks(q)'
  <2>1. CASE q = r
    <3>0. tokens[c] \in Nat
      BY DEF TypeInv, TypeOK
    <3>1. c \notin overlapped => tokens[c] = 0
      BY <1>1, <3>0 DEF Safety, SolvedOnce
    <3> QED
      BY <2>1, <3>1, <1>1, <1>3, <1>5 DEF Checks
  <2>2. CASE q # r
    BY <2>2, <1>1, <1>3, <1>5, <1>4 DEF Safety, Checks, HasRow
  <2> QED
    BY <2>1, <2>2
<1>9. NoOrphans'
  BY <1>1, <1>4 DEF Safety, NoOrphans, Live
<1>10. AttemptsCounted' /\ SolvedOnce'
  BY <1>1, <1>4, <1>5 DEF Safety, AttemptsCounted, SolvedOnce
<1> QED
  BY <1>6, <1>7, <1>8, <1>9, <1>10 DEF Safety

(* The counter that was read is written back plus one, with the result. *)
LEMMA UpdateCaptchaInv ==
  ASSUME TypeInv, Safety, NEW r \in Request, UpdateCaptcha(r)
  PROVE  TypeInv' /\ Safety'
<1> DEFINE c == req[r].captcha
           row == [template |-> captchas[c].template,
                   attempts |-> req[r].seen + 1, isSolved |-> req[r].correct]
<1>1. /\ UNCHANGED <<templates, templateCache, made, drawn, right, wrong, tokens, overtaken, overlapped>>
      /\ req[r].pc = "update" /\ c \in CaptchaId /\ c # NoCaptcha
  BY DEF UpdateCaptcha, templateVars, answers, TypeInv, TypeOK, Carries, Handler
<1>2. CASE ~HasRow(c)
  <2>1. UNCHANGED captchas
    BY <1>2 DEF UpdateCaptcha
  <2>2. /\ req' \in [Request -> Handler] /\ req'[r].pc = "idle" /\ req'[r].captcha = NoCaptcha
        /\ \A q \in Request \ {r} : req'[q] = req[q]
    BY <1>2, Ends DEF UpdateCaptcha
  <2>3. TypeInv'
    BY <1>1, <2>1, <2>2 DEF TypeInv, TypeOK, Carries, ServingPc
  <2>4. \A x \in Template : Live(x) => Live(x)'
    BY <1>1 DEF Live
  <2> QED
    BY <1>1, <2>1, <2>2, <2>3, <2>4, CaptchasUntouched
<1>3. CASE HasRow(c)
  <2>1. captchas' = [captchas EXCEPT ![c] = row] /\ Goto(r, "attempt")
    BY <1>3 DEF UpdateCaptcha
  <2>2. row \in Row /\ row # NoCaptcha
    <3>1. captchas[c].template \in Template
      BY <1>1, <1>3 DEF HasRow, TypeInv, TypeOK, Row
    <3>2. req[r].seen \in 0..MaxAttempts - 1 /\ req[r].correct \in BOOLEAN
      BY DEF TypeInv, TypeOK, Handler
    <3>3. req[r].seen + 1 \in 0..MaxAttempts
      BY <3>2, MaxAttemptsAssumption
    <3>4. row \in Row
      BY <3>1, <3>2, <3>3 DEF Row
    <3> QED
      BY <3>4, NoneAssumption
  <2>3. row.template = captchas[c].template /\ row.attempts = req[r].seen + 1
    OBVIOUS
  <2>4. row.isSolved <=> req[r].correct
    OBVIOUS
  <2> HIDE DEF row
  <2>5. /\ captchas' \in [CaptchaId -> Row \cup {NoCaptcha}] /\ captchas'[c] = row
        /\ \A d \in CaptchaId \ {c} : captchas'[d] = captchas[d]
    BY <1>1, <2>1, <2>2 DEF TypeInv, TypeOK
  <2>6. \A d \in CaptchaId : HasRow(d)' <=> HasRow(d)
    BY <1>1, <1>3, <2>2, <2>5 DEF HasRow
  <2>7. /\ req' \in [Request -> Handler] /\ req'[r].pc = "attempt" /\ req'[r].captcha = c
        /\ req'[r].correct = req[r].correct
        /\ \A q \in Request \ {r} : req'[q] = req[q]
    BY <2>1, Goes DEF Pc
  <2>8. TypeInv'
    BY <1>1, <2>5, <2>7 DEF TypeInv, TypeOK, Carries, ServingPc
  <2>9. ASSUME NEW d \in CaptchaId PROVE Unused(d)' /\ Alone(d)'
    BY <1>1, <2>6, <2>7 DEF Safety, Unused, Alone
  <2>10. c \notin overlapped =>
           /\ tokens[c] = 0 /\ right[c] + wrong[c] <= req[r].seen
           /\ \A q \in Request \ {r} : req[q].captcha # c
    <3>1. c \notin overlapped => tokens[c] = 0 /\ req[r].seen = captchas[c].attempts
      BY <1>1, <1>3 DEF Safety, Checks
    <3>2. c \notin overlapped => right[c] + wrong[c] <= captchas[c].attempts
      BY <1>1, <1>3 DEF Safety, AttemptsCounted
    <3>3. c \notin overlapped => \A q \in Request \ {r} : req[q].captcha # c
      BY <1>1 DEF Safety, Alone
    <3> QED
      BY <3>1, <3>2, <3>3
  <2>11. right[c] \in Nat /\ wrong[c] \in Nat /\ tokens[c] \in Nat /\ req[r].seen \in Nat
    BY <1>1, MaxAttemptsAssumption DEF TypeInv, TypeOK, Handler
  <2>12. ASSUME NEW q \in Request PROVE Checks(q)'
    <3>1. CASE q = r
      BY <3>1, <1>1, <2>3, <2>4, <2>5, <2>7, <2>10, <2>11 DEF Checks
    <3>2. CASE q # r /\ req[q].captcha # NoCaptcha
      <4>1. req'[q] = req[q] /\ req[q].captcha \in CaptchaId
        BY <3>2, <2>7 DEF TypeInv, TypeOK, Handler
      <4>2. req[q].captcha \notin overlapped => req[q].captcha # c
        BY <3>2, <2>10
      <4> QED
        BY <4>1, <4>2, <1>1, <2>5, <2>6 DEF Safety, Checks
    <3>3. CASE q # r /\ req[q].captcha = NoCaptcha
      BY <3>3, <2>7 DEF Checks
    <3> QED
      BY <3>1, <3>2, <3>3
  <2>13. NoOrphans'
    BY <1>1, <1>3, <2>3, <2>5, <2>6 DEF Safety, NoOrphans, Live
  <2>14. AttemptsCounted'
    BY <1>1, <2>3, <2>5, <2>6, <2>10, <2>11 DEF Safety, AttemptsCounted
  <2>15. SolvedOnce'
    BY <1>1, <2>5, <2>6, <2>10, <2>11 DEF Safety, SolvedOnce
  <2> QED
    BY <2>8, <2>9, <2>12, <2>13, <2>14, <2>15 DEF Safety
<1> QED
  BY <1>2, <1>3

(* The attempt is recorded, after it was counted, and a right one signed. *)
LEMMA CreateAttemptInv ==
  ASSUME TypeInv, Safety, NEW r \in Request, CreateAttempt(r)
  PROVE  TypeInv' /\ Safety'
<1> DEFINE c == req[r].captcha
<1>1. /\ UNCHANGED <<templates, templateCache, made, captchas, drawn, overtaken, overlapped>>
      /\ req[r].pc = "attempt" /\ c \in CaptchaId /\ c # NoCaptcha
  BY DEF CreateAttempt, templateVars, TypeInv, TypeOK, Carries, Handler
<1>2. /\ req' \in [Request -> Handler] /\ req'[r].pc = "idle" /\ req'[r].captcha = NoCaptcha
      /\ \A q \in Request \ {r} : req'[q] = req[q]
  BY Ends DEF CreateAttempt
<1>3. CASE ~HasRow(c)
  <2>1. UNCHANGED <<right, wrong, tokens>>
    BY <1>3 DEF CreateAttempt
  <2>2. TypeInv'
    BY <1>1, <1>2, <2>1 DEF TypeInv, TypeOK, Carries, ServingPc
  <2>3. \A x \in Template : Live(x) => Live(x)'
    BY <1>1 DEF Live
  <2> QED
    BY <1>1, <1>2, <2>1, <2>2, <2>3, CaptchasUntouched
<1>4. CASE HasRow(c)
  <2>1. /\ right \in [CaptchaId -> Nat] /\ wrong \in [CaptchaId -> Nat]
        /\ tokens \in [CaptchaId -> Nat]
    BY DEF TypeInv, TypeOK
  <2>2. /\ right' \in [CaptchaId -> Nat] /\ wrong' \in [CaptchaId -> Nat]
        /\ tokens' \in [CaptchaId -> Nat]
        /\ right'[c] + wrong'[c] = right[c] + wrong[c] + 1
        /\ \/ req[r].correct /\ tokens'[c] = tokens[c] + 1 /\ right'[c] = right[c] + 1
           \/ tokens'[c] = tokens[c] /\ right'[c] = right[c]
        /\ \A d \in CaptchaId \ {c} :
             right'[d] = right[d] /\ wrong'[d] = wrong[d] /\ tokens'[d] = tokens[d]
    <3>1. CASE req[r].correct
      BY <3>1, <1>1, <1>4, <2>1 DEF CreateAttempt
    <3>2. CASE ~req[r].correct
      BY <3>2, <1>1, <1>4, <2>1 DEF CreateAttempt
    <3> QED
      BY <3>1, <3>2
  <2>3. \A d \in CaptchaId : HasRow(d)' <=> HasRow(d)
    BY <1>1 DEF HasRow
  <2>4. TypeInv'
    BY <1>1, <1>2, <2>2 DEF TypeInv, TypeOK, Carries, ServingPc
  <2>5. c \notin overlapped =>
          /\ tokens[c] = 0 /\ right[c] + wrong[c] + 1 <= captchas[c].attempts
          /\ req[r].correct => captchas[c].isSolved
          /\ \A q \in Request \ {r} : req[q].captcha # c
    <3>1. c \notin overlapped =>
            /\ tokens[c] = 0 /\ right[c] + wrong[c] + 1 <= captchas[c].attempts
            /\ req[r].correct => captchas[c].isSolved
      BY <1>1, <1>4 DEF Safety, Checks
    <3>2. c \notin overlapped => \A q \in Request \ {r} : req[q].captcha # c
      BY <1>1 DEF Safety, Alone
    <3> QED
      BY <3>1, <3>2
  <2>6. ASSUME NEW d \in CaptchaId PROVE Unused(d)' /\ Alone(d)'
    <3>1. c \in drawn
      BY <1>1 DEF Safety, Unused
    <3>2. Unused(d)'
      BY <1>1, <1>2, <2>2, <2>3, <3>1, NoneAssumption DEF Safety, Unused
    <3>3. Alone(d)'
      BY <1>1, <1>2, NoneAssumption DEF Safety, Alone
    <3> QED
      BY <3>2, <3>3
  <2>7. ASSUME NEW q \in Request PROVE Checks(q)'
    <3>1. CASE req'[q].captcha = NoCaptcha
      BY <3>1 DEF Checks
    <3>2. CASE req'[q].captcha # NoCaptcha
      <4>1. /\ q # r /\ req'[q] = req[q] /\ req[q].captcha \in CaptchaId
        BY <3>2, <1>2 DEF TypeInv, TypeOK, Handler
      <4>2. req[q].captcha \notin overlapped => req[q].captcha # c
        BY <4>1, <2>5
      <4> QED
        BY <4>1, <4>2, <1>1, <2>2, <2>3 DEF Safety, Checks
    <3> QED
      BY <3>1, <3>2
  <2>8. NoOrphans'
    BY <1>1, <1>4, <2>2, <2>3 DEF Safety, NoOrphans, Live
  <2>9. AttemptsCounted'
    BY <1>1, <2>2, <2>3, <2>5 DEF Safety, AttemptsCounted
  <2>10. SolvedOnce'
    BY <1>1, <2>2, <2>3, <2>5 DEF Safety, SolvedOnce
  <2> QED
    BY <2>4, <2>6, <2>7, <2>8, <2>9, <2>10 DEF Safety
<1> QED
  BY <1>3, <1>4

(* Every step keeps the invariant. *)
LEMMA InvNext ==
  ASSUME TypeInv, Safety, [Next]_vars
  PROVE  TypeInv' /\ Safety'
<1>1. CASE UNCHANGED vars
  <2>1. UNCHANGED <<templates, templateCache, captchas, right, wrong, req,
                    made, drawn, tokens, overtaken, overlapped>>
    BY <1>1 DEF vars
  <2>2. TypeInv'
    BY <2>1 DEF TypeInv, TypeOK, Carries
  <2>3. \A x \in Template : Live(x) => Live(x)'
    BY <2>1 DEF Live
  <2> QED
    BY <2>1, <2>2, <2>3, CaptchasUntouched
<1>2. CASE Next
  <2>1. CASE \E t \in Template, form \in Form : CreateTemplate(t, form)
    BY <2>1, CreateTemplateInv
  <2>2. CASE \E r \in Request, t \in Template :
               (\E dto \in Form : BeginUpdate(r, t, dto)) \/ BeginDelete(r, t) \/ BeginShow(r, t)
    BY <2>2, BeginServingInv
  <2>3. CASE \E r \in Request, c \in CaptchaId, correct \in BOOLEAN : BeginValidate(r, c, correct)
    BY <2>3, BeginValidateInv
  <2>4. CASE \E r \in Request : Step(r)
    BY <2>4, UpdateTemplateInv, DeleteTemplateInv, ReadTemplateInv, FillTemplateInv,
       InsertCaptchaInv, UpdateCaptchaInv, CreateAttemptInv DEF Step
  <2>5. CASE \E n \in Node : (\E t \in Template : Expire(n, t)) \/ Crash(n)
    BY <2>5, ExpireOrCrashInv
  <2> QED
    BY <1>2, <2>1, <2>2, <2>3, <2>4, <2>5 DEF Next
<1> QED
  BY <1>1, <1>2

-----------------------------------------------------------------------------
(* What an update knows: nobody but another update that marks it changes   *)
(* the row it has read, as a template that is deleted is not made again.   *)
Known(r) == LET h == req[r] IN
  /\ h.pc = "change" => h.template \in made
  /\ h.pc = "change" /\ r \notin overtaken /\ Live(h.template)
       => h.changes = changes(templates[h.template], h.copy)

UpdatesKnow ==
  /\ \A t \in Template : Live(t) => t \in made
  /\ \A r \in Request : Known(r)

(* Nothing is known in the initial state. *)
LEMMA KnowInit == Init => UpdatesKnow
BY DEF Init, UpdatesKnow, Known, Live, Idle, Serving

(* What an update knows outlasts a step that writes no row of a template   *)
(* and begins no update: a handler either does as before or is at another  *)
(* await.                                                                  *)
LEMMA StillKnown ==
  ASSUME TypeInv, UpdatesKnow, UNCHANGED <<templates, made>>,
         \A r \in Request : \/ req'[r] = req[r] /\ (r \in overtaken => r \in overtaken')
                            \/ req'[r].pc # "change"
  PROVE  UpdatesKnow'
<1>1. \A t \in Template : Live(t)' <=> Live(t)
  BY DEF Live
<1>2. ASSUME NEW r \in Request PROVE Known(r)'
  <2>1. CASE req'[r].pc # "change"
    BY <2>1 DEF Known
  <2>2. CASE req'[r].pc = "change"
    <3>1. req'[r] = req[r] /\ (r \in overtaken => r \in overtaken')
      BY <2>2
    <3>2. req[r].pc = "change" => req[r].template \in Template
      BY DEF TypeInv, Carries, ServingPc
    <3> QED
      BY <1>1, <2>2, <3>1, <3>2 DEF UpdatesKnow, Known
  <2> QED
    BY <2>1, <2>2
<1> QED
  BY <1>1, <1>2 DEF UpdatesKnow

(* Only the handler of a step moves. *)
LEMMA OneMoves ==
  ASSUME TypeInv, NEW r \in Request, NEW h, req' = [req EXCEPT ![r] = h]
  PROVE  req'[r] = h /\ \A q \in Request \ {r} : req'[q] = req[q]
BY DEF TypeInv, TypeOK

(* Every step keeps what updates know. *)
LEMMA KnowNext ==
  ASSUME TypeInv, UpdatesKnow, [Next]_vars
  PROVE  UpdatesKnow'
<1>1. CASE UNCHANGED vars
  BY <1>1, StillKnown DEF vars
<1>2. ASSUME NEW t \in Template, NEW form \in Form, CreateTemplate(t, form) PROVE UpdatesKnow'
  <2>1. /\ t \notin made /\ made' = made \cup {t} /\ UNCHANGED <<req, overtaken>>
        /\ \A x \in Template \ {t} : templates'[x] = templates[x]
    BY <1>2 DEF CreateTemplate, TypeInv, TypeOK
  <2>2. \A x \in Template : x # t => (Live(x)' <=> Live(x))
    BY <2>1 DEF Live
  <2>3. ASSUME NEW r \in Request PROVE Known(r)'
    <3>1. req[r].pc = "change" => req[r].template \in Template /\ req[r].template # t
      BY <2>1 DEF TypeInv, Carries, ServingPc, UpdatesKnow, Known
    <3> QED
      BY <2>1, <2>2, <3>1 DEF UpdatesKnow, Known
  <2> QED
    BY <2>1, <2>2, <2>3 DEF UpdatesKnow
<1>3. ASSUME NEW r \in Request, NEW t \in Template, NEW dto \in Form, BeginUpdate(r, t, dto)
      PROVE  UpdatesKnow'
  <2>1. /\ Live(t) /\ UNCHANGED <<templates, made, overtaken>>
        /\ req' = [req EXCEPT ![r] = Serving("change", t, dto, changes(templates[t], dto))]
    BY <1>3 DEF BeginUpdate, templateVars
  <2>2. \A x \in Template : Live(x)' <=> Live(x)
    BY <2>1 DEF Live
  <2>3. /\ req'[r] = Serving("change", t, dto, changes(templates[t], dto))
        /\ \A q \in Request \ {r} : req'[q] = req[q]
    BY <2>1, OneMoves
  <2>4. Known(r)'
    BY <2>1, <2>3 DEF Known, Serving, UpdatesKnow
  <2>5. ASSUME NEW q \in Request \ {r} PROVE Known(q)'
    <3>1. req[q].pc = "change" => req[q].template \in Template
      BY DEF TypeInv, Carries, ServingPc
    <3> QED
      BY <2>1, <2>2, <2>3, <3>1 DEF UpdatesKnow, Known
  <2> QED
    BY <2>1, <2>2, <2>4, <2>5 DEF UpdatesKnow
<1>4. ASSUME NEW r \in Request, UpdateTemplate(r) PROVE UpdatesKnow'
  <2>1. PICK t : t = req[r].template
    OBVIOUS
  <2>2. t \in made /\ t \in Template /\ UNCHANGED made
    BY <1>4, <2>1 DEF UpdateTemplate, TypeInv, Carries, ServingPc, UpdatesKnow, Known
  <2>3. req'[r] = Idle /\ \A q \in Request \ {r} : req'[q] = req[q]
    BY <1>4, OneMoves DEF UpdateTemplate, End
  <2>4. \A x \in Template \ {t} : templates'[x] = templates[x]
    BY <1>4, <2>1 DEF UpdateTemplate, TypeInv, TypeOK
  <2>5. CASE UNCHANGED templates /\ overtaken' = overtaken \ {r}
    <3>1. \A q \in Request : \/ req'[q] = req[q] /\ (q \in overtaken => q \in overtaken')
                             \/ req'[q].pc # "change"
      BY <2>3, <2>5 DEF Idle, Serving
    <3> QED
      BY <2>2, <2>5, <3>1, StillKnown
  <2>6. CASE Live(t) /\ overtaken' = (overtaken \ {r}) \cup
               {q \in Request \ {r} : req[q].pc = "change" /\ req[q].template = t}
    <3>1. \A x \in Template \ {t} : Live(x)' <=> Live(x)
      BY <2>4 DEF Live
    <3>2. Known(r)'
      BY <2>3 DEF Known, Idle, Serving
    <3>3. ASSUME NEW q \in Request \ {r} PROVE Known(q)'
      <4>1. CASE req[q].pc # "change"
        BY <2>3, <4>1 DEF Known
      <4>2. CASE req[q].pc = "change" /\ req[q].template # t
        <5>1. req[q].template \in Template
          BY <4>2 DEF TypeInv, Carries, ServingPc
        <5> QED
          BY <2>2, <2>3, <2>4, <2>6, <3>1, <4>2, <5>1 DEF UpdatesKnow, Known
      <4>3. CASE req[q].pc = "change" /\ req[q].template = t
        BY <2>2, <2>3, <2>6, <4>3 DEF Known
      <4> QED
        BY <4>1, <4>2, <4>3
    <3>4. \A x \in Template : Live(x)' => x \in made'
      BY <2>2, <3>1 DEF UpdatesKnow
    <3> QED
      BY <3>2, <3>3, <3>4 DEF UpdatesKnow
  <2> QED
    BY <1>4, <2>1, <2>5, <2>6 DEF UpdateTemplate
<1>5. ASSUME NEW r \in Request, DeleteTemplate(r) PROVE UpdatesKnow'
  <2>1. PICK t : t = req[r].template
    OBVIOUS
  <2>2. /\ req'[r] = Idle /\ \A q \in Request \ {r} : req'[q] = req[q]
        /\ UNCHANGED <<made, overtaken>>
    BY <1>5, OneMoves DEF DeleteTemplate, End
  <2>3. /\ \A x \in Template \ {t} : templates'[x] = templates[x]
        /\ ~Live(t)'  \/ t \notin Template
    BY <1>5, <2>1 DEF DeleteTemplate, TypeInv, TypeOK, Live
  <2>4. \A x \in Template : Live(x)' => x # t /\ Live(x) /\ templates'[x] = templates[x]
    BY <2>3 DEF Live
  <2>5. Known(r)'
    BY <2>2 DEF Known, Idle, Serving
  <2>6. ASSUME NEW q \in Request \ {r} PROVE Known(q)'
    <3>1. req[q].pc = "change" => req[q].template \in Template
      BY DEF TypeInv, Carries, ServingPc
    <3> QED
      BY <2>2, <2>4, <3>1 DEF UpdatesKnow, Known
  <2> QED
    BY <2>2, <2>4, <2>5, <2>6 DEF UpdatesKnow
<1>6. ASSUME NEW r \in Request, NEW h, h.pc # "change", req' = [req EXCEPT ![r] = h],
             UNCHANGED <<templates, made, overtaken>>
      PROVE  UpdatesKnow'
  <2>1. \A q \in Request : q = r => req'[q].pc # "change"
    BY <1>6, OneMoves
  <2>2. \A q \in Request : q # r => req'[q] = req[q]
    BY <1>6, OneMoves
  <2> QED
    BY <1>6, <2>1, <2>2, StillKnown
<1>7. ASSUME NEW r \in Request, NEW t \in Template, BeginDelete(r, t) \/ BeginShow(r, t)
      PROVE  UpdatesKnow'
  BY <1>6, <1>7 DEF BeginDelete, BeginShow, Serving, templateVars
<1>8. ASSUME NEW r \in Request, NEW c \in CaptchaId, NEW correct \in BOOLEAN, BeginValidate(r, c, correct)
      PROVE  UpdatesKnow'
  BY <1>6, <1>8 DEF BeginValidate, Checking, templateVars
<1>9. ASSUME NEW r \in Request,
             ReadTemplate(r) \/ FillTemplate(r) \/ InsertCaptcha(r) \/ UpdateCaptcha(r) \/ CreateAttempt(r)
      PROVE  UpdatesKnow'
  <2>1. UNCHANGED <<templates, made, overtaken>>
    BY <1>9 DEF ReadTemplate, FillTemplate, InsertCaptcha, UpdateCaptcha, CreateAttempt, templateVars
  <2>2. \/ End(r) \/ Goto(r, "insert") \/ Goto(r, "attempt")
        \/ req' = [req EXCEPT ![r] = Serving("fill", req[r].template, templates[req[r].template], {})]
    BY <1>9 DEF ReadTemplate, FillTemplate, InsertCaptcha, UpdateCaptcha, CreateAttempt
  <2>3. CASE End(r)
    BY <1>6, <2>1, <2>3 DEF End, Idle, Serving
  <2>4. ASSUME NEW pc \in {"insert", "attempt"}, Goto(r, pc) PROVE UpdatesKnow'
    <3>1. pc \in Pc /\ pc # "change"
      BY DEF Pc
    <3>2. req'[r].pc = pc /\ \A q \in Request \ {r} : req'[q] = req[q]
      BY <2>4, <3>1, Goes
    <3>3. \A q \in Request : \/ req'[q] = req[q] /\ (q \in overtaken => q \in overtaken')
                             \/ req'[q].pc # "change"
      BY <2>1, <3>1, <3>2
    <3> QED
      BY <2>1, <3>3, StillKnown
  <2>5. CASE req' = [req EXCEPT ![r] = Serving("fill", req[r].template, templates[req[r].template], {})]
    BY <1>6, <2>1, <2>5 DEF Serving
  <2> QED
    BY <2>2, <2>3, <2>4, <2>5
<1>10. ASSUME NEW n \in Node, (\E t \in Template : Expire(n, t)) \/ Crash(n) PROVE UpdatesKnow'
  <2>1. UNCHANGED <<templates, made>>
    BY <1>10 DEF Expire, Crash
  <2>2. \A r \in Request : \/ req'[r] = req[r] /\ (r \in overtaken => r \in overtaken')
                           \/ req'[r].pc # "change"
    BY <1>10 DEF Expire, Crash, TypeInv, TypeOK, Idle, Serving
  <2> QED
    BY <2>1, <2>2, StillKnown
<1>11. CASE Next
  <2>1. CASE \E r \in Request : Step(r)
    BY <2>1, <1>4, <1>5, <1>9 DEF Step
  <2> QED
    BY <1>11, <2>1, <1>2, <1>3, <1>7, <1>8, <1>10 DEF Next
<1> QED
  BY <1>1, <1>11

(* Writing the differences to a row gives the form they were taken from. *)
LEMMA WritesForm ==
  ASSUME NEW form \in Form, NEW dto \in Form
  PROVE  {d \in Defect : \/ <<d, TRUE>> \in changes(form, dto)
                         \/ d \in form /\ <<d, FALSE>> \notin changes(form, dto)} = dto
<1>1. form \subseteq Defect /\ dto \subseteq Defect
  BY DEF Form
<1>2. ASSUME NEW d \in Defect, NEW b \in BOOLEAN
      PROVE  <<d, b>> \in changes(form, dto) <=> d \in (form \ dto) \cup (dto \ form) /\ b = (d \in dto)
  BY Zenon DEF changes
<1>3. ASSUME NEW d \in Defect
      PROVE  (\/ <<d, TRUE>> \in changes(form, dto)
              \/ d \in form /\ <<d, FALSE>> \notin changes(form, dto)) <=> d \in dto
  <2>1. <<d, TRUE>> \in changes(form, dto) <=> d \in dto /\ d \notin form
    BY <1>2, Zenon
  <2>2. <<d, FALSE>> \in changes(form, dto) <=> d \notin dto /\ d \in form
    <3>1. <<d, FALSE>> \in changes(form, dto)
            <=> d \in (form \ dto) \cup (dto \ form) /\ FALSE = (d \in dto)
      BY <1>2
    <3>2. FALSE = (d \in dto) <=> d \notin dto
      <4>1. (d \in dto) \in BOOLEAN
        OBVIOUS
      <4>2. PICK b \in BOOLEAN : b = (d \in dto)
        BY <4>1, Zenon
      <4>3. b <=> d \in dto
        BY <4>2, Zenon
      <4>4. FALSE = b <=> ~b
        OBVIOUS
      <4> QED
        BY <4>2, <4>3, <4>4, Zenon
    <3> QED
      BY <3>1, <3>2
  <2> QED
    BY <2>1, <2>2
<1> QED
  BY <1>1, <1>3

(* An update that no other has overtaken leaves the row as asked for, or   *)
(* as it was when it throws.                                               *)
LEMMA UpdateWritesWhole ==
  ASSUME TypeInv, UpdatesKnow, NEW r \in Request \ overtaken,
         UpdateTemplate(r), Live(req[r].template)
  PROVE  templates'[req[r].template] \in {req[r].copy, templates[req[r].template]}
<1>1. PICK t : t = req[r].template
  OBVIOUS
<1>2. t \in Template /\ req[r].pc = "change" /\ req[r].copy \in Form
  BY <1>1 DEF UpdateTemplate, TypeInv, TypeOK, Carries, ServingPc, Handler
<1>3. PICK form \in Form : form = templates[t]
  BY <1>1, <1>2 DEF Live, TypeInv, TypeOK
<1>4. PICK dto \in Form : dto = req[r].copy
  BY <1>2
<1>5. req[r].changes = changes(form, dto)
  BY <1>1, <1>2, <1>3, <1>4 DEF UpdatesKnow, Known
<1>6. CASE UNCHANGED templates
  BY <1>1, <1>6
<1>7. CASE ~UNCHANGED templates
  <2>1. templates' = [templates EXCEPT ![t] = {d \in Defect :
          <<d, TRUE>> \in req[r].changes
            \/ (d \in templates[t] /\ <<d, FALSE>> \notin req[r].changes)}]
    BY <1>1, <1>7 DEF UpdateTemplate
  <2>2. templates'[t] = {d \in Defect :
          \/ <<d, TRUE>> \in changes(form, dto)
          \/ d \in form /\ <<d, FALSE>> \notin changes(form, dto)}
    BY <1>2, <1>3, <1>5, <2>1 DEF TypeInv, TypeOK
  <2>3. templates'[t] = dto
    BY <2>2, WritesForm
  <2> QED
    BY <1>1, <1>4, <2>3
<1> QED
  BY <1>6, <1>7

-----------------------------------------------------------------------------
(* The copies of a template agree with its row as before when none is      *)
(* written but from what was read of the row, and none is drawn from but   *)
(* one that can be.                                                        *)
LEMMA StaysSettled ==
  ASSUME TypeInv, drawn' \subseteq CaptchaId, drawn \subseteq drawn',
         NEW t \in Template, Settled(t), templates'[t] = templates[t],
         \A n \in Node : templateCache'[n][t] \in {NoTemplate, templateCache[n][t], templates[t]},
         \A r \in Request :
           \/ req'[r] = req[r]
           \/ req'[r].template = t =>
                /\ req'[r].pc = "fill" => req'[r].copy = templates[t]
                /\ req'[r].pc = "insert" => templates[t] = {}
  PROVE  Settled(t)'
<1>1. \A n \in Node : templateCache'[n][t] \in {NoTemplate, templates'[t]}
  BY DEF Settled
<1>2. Live(t) /\ drawn = CaptchaId => Live(t)' /\ drawn' = CaptchaId
  BY DEF Live
<1>3. ASSUME NEW r \in Request, req'[r].template = t
      PROVE  /\ req'[r].pc = "fill" => req'[r].copy = templates'[t]
             /\ req'[r].pc = "insert" => templates'[t] = {} \/ (Live(t)' /\ drawn' = CaptchaId)
  <2>1. CASE req'[r] = req[r]
    BY <1>2, <1>3, <2>1 DEF Settled
  <2>2. CASE req'[r] # req[r]
    BY <1>3, <2>2
  <2> QED
    BY <2>1, <2>2
<1> QED
  BY <1>1, <1>3 DEF Settled

(* No step disturbs copies that agree with a row it does not change.       *)
LEMMA SettledNext ==
  ASSUME TypeInv, Safety, Next, NEW t \in Template, Settled(t), templates'[t] = templates[t]
  PROVE  Settled(t)'
<1>1. drawn' \subseteq CaptchaId
  BY InvNext DEF TypeInv, TypeOK
<1>2. CASE \E x \in Template, form \in Form : CreateTemplate(x, form)
  BY <1>1, <1>2, StaysSettled DEF CreateTemplate
(* A handler ends, or does something else than to fill and to insert. *)
<1>3. ASSUME NEW r \in Request, NEW h, req' = [req EXCEPT ![r] = h], h.pc \notin {"fill", "insert"},
             drawn \subseteq drawn', UNCHANGED templateCache
      PROVE  Settled(t)'
  <2>1. req'[r] = h /\ \A q \in Request \ {r} : req'[q] = req[q]
    BY <1>3, OneMoves
  <2>2. \A q \in Request : \/ req'[q] = req[q]
                           \/ req'[q].template = t =>
                                /\ req'[q].pc = "fill" => req'[q].copy = templates[t]
                                /\ req'[q].pc = "insert" => templates[t] = {}
    BY <1>3, <2>1
  <2> QED
    BY <1>1, <1>3, <2>2, StaysSettled
<1>4. ASSUME NEW r \in Request, NEW x \in Template,
             (\E dto \in Form : BeginUpdate(r, x, dto)) \/ BeginDelete(r, x)
      PROVE  Settled(t)'
  <2>1. UNCHANGED <<templateCache, drawn>>
    BY <1>4 DEF BeginUpdate, BeginDelete, templateVars
  <2>2. \E copy, ch : \E pc \in {"change", "delete"} : req' = [req EXCEPT ![r] = Serving(pc, x, copy, ch)]
    BY <1>4 DEF BeginUpdate, BeginDelete
  <2>3. PICK copy, ch : \E pc \in {"change", "delete"} : req' = [req EXCEPT ![r] = Serving(pc, x, copy, ch)]
    BY <2>2
  <2>4. PICK pc \in {"change", "delete"} : req' = [req EXCEPT ![r] = Serving(pc, x, copy, ch)]
    BY <2>3
  <2>5. Serving(pc, x, copy, ch).pc \notin {"fill", "insert"}
    BY DEF Serving
  <2> QED
    BY <1>3, <2>1, <2>4, <2>5
<1>5. ASSUME NEW r \in Request, NEW x \in Template, BeginShow(r, x) PROVE Settled(t)'
  <2> DEFINE copy == templateCache[NodeOf[r]][x]
             pc == IF copy = NoTemplate THEN "dbRead" ELSE "insert"
  <2>1. /\ UNCHANGED <<templateCache, drawn>> /\ (copy # NoTemplate => copy = {})
        /\ req' = [req EXCEPT ![r] = Serving(pc, x, {}, {})]
    BY <1>5 DEF BeginShow, templateVars, Drawable
  <2>2. req'[r] = Serving(pc, x, {}, {}) /\ \A q \in Request \ {r} : req'[q] = req[q]
    BY <2>1, OneMoves
  <2>3. req'[r].template = x /\ req'[r].pc = pc
    BY <2>2 DEF Serving
  <2>4. x = t /\ copy # NoTemplate => templates[t] = {}
    BY <2>1, NodeOfAssumption DEF Settled
  <2>5. \A q \in Request : \/ req'[q] = req[q]
                           \/ req'[q].template = t =>
                                /\ req'[q].pc = "fill" => req'[q].copy = templates[t]
                                /\ req'[q].pc = "insert" => templates[t] = {}
    BY <2>2, <2>3, <2>4
  <2> QED
    BY <1>1, <2>1, <2>5, StaysSettled
<1>6. ASSUME NEW r \in Request, NEW c \in CaptchaId, NEW correct \in BOOLEAN, BeginValidate(r, c, correct)
      PROVE  Settled(t)'
  <2>1. /\ UNCHANGED <<templateCache, drawn>>
        /\ req' = [req EXCEPT ![r] = Checking(c, captchas[c].attempts, correct)]
    BY <1>6 DEF BeginValidate, templateVars
  <2>2. Checking(c, captchas[c].attempts, correct).pc \notin {"fill", "insert"}
    BY DEF Checking
  <2> QED
    BY <1>3, <2>1, <2>2
<1>7. Idle.pc \notin {"fill", "insert"}
  BY IdleType
<1>8. ASSUME NEW r \in Request, End(r), drawn \subseteq drawn', UNCHANGED templateCache
      PROVE  Settled(t)'
  BY <1>3, <1>7, <1>8 DEF End
<1>9. ASSUME NEW r \in Request,
             \/ UpdateTemplate(r) \/ DeleteTemplate(r)
             \/ InsertCaptcha(r) \/ UpdateCaptcha(r) \/ CreateAttempt(r)
      PROVE  Settled(t)'
  <2>1. UNCHANGED templateCache /\ drawn \subseteq drawn'
    BY <1>9 DEF UpdateTemplate, DeleteTemplate, InsertCaptcha, UpdateCaptcha, CreateAttempt, templateVars
  <2>2. End(r) \/ Goto(r, "attempt")
    BY <1>9 DEF UpdateTemplate, DeleteTemplate, InsertCaptcha, UpdateCaptcha, CreateAttempt
  <2>3. CASE Goto(r, "attempt")
    <3>1. req'[r].pc = "attempt" /\ \A q \in Request \ {r} : req'[q] = req[q]
      BY <2>3, Goes DEF Pc
    <3>2. \A q \in Request : \/ req'[q] = req[q]
                             \/ req'[q].template = t =>
                                  /\ req'[q].pc = "fill" => req'[q].copy = templates[t]
                                  /\ req'[q].pc = "insert" => templates[t] = {}
      BY <3>1
    <3> QED
      BY <1>1, <2>1, <3>2, StaysSettled
  <2> QED
    BY <1>8, <2>1, <2>2, <2>3
<1>10. ASSUME NEW r \in Request, ReadTemplate(r) PROVE Settled(t)'
  <2> DEFINE x == req[r].template
  <2>1. UNCHANGED <<templateCache, drawn>>
    BY <1>10 DEF ReadTemplate, templateVars
  <2>2. CASE End(r)
    BY <1>8, <2>1, <2>2
  <2>3. CASE req' = [req EXCEPT ![r] = Serving("fill", x, templates[x], {})]
    <3>1. /\ req'[r] = Serving("fill", x, templates[x], {})
          /\ \A q \in Request \ {r} : req'[q] = req[q]
      BY <2>3, OneMoves
    <3>2. req'[r].template = x /\ req'[r].copy = templates[x] /\ req'[r].pc = "fill"
      BY <3>1 DEF Serving
    <3>3. \A q \in Request : \/ req'[q] = req[q]
                             \/ req'[q].template = t =>
                                  /\ req'[q].pc = "fill" => req'[q].copy = templates[t]
                                  /\ req'[q].pc = "insert" => templates[t] = {}
      BY <3>1, <3>2
    <3> QED
      BY <1>1, <2>1, <3>3, StaysSettled
  <2> QED
    BY <1>10, <2>2, <2>3 DEF ReadTemplate
<1>11. ASSUME NEW r \in Request, FillTemplate(r) PROVE Settled(t)'
  <2> DEFINE x == req[r].template
             copy == req[r].copy
  <2>1. UNCHANGED drawn /\ req[r].pc = "fill" /\ (x = t => copy = templates[t])
    BY <1>11 DEF FillTemplate, Settled
  <2>2. \A n \in Node : templateCache'[n][t] \in {NoTemplate, templateCache[n][t], templates[t]}
    <3>1. templateCache \in [Node -> [Template -> Form \cup {NoTemplate}]]
      BY DEF TypeInv, TypeOK
    <3>2. templateCache' = [templateCache EXCEPT ![NodeOf[r]][x] = copy]
      BY <1>11 DEF FillTemplate
    <3> QED
      BY <2>1, <3>1, <3>2
  <2>3. \A q \in Request : \/ req'[q] = req[q]
                           \/ req'[q].template = t =>
                                /\ req'[q].pc = "fill" => req'[q].copy = templates[t]
                                /\ req'[q].pc = "insert" => templates[t] = {}
    <3>1. CASE Goto(r, "insert") /\ copy = {}
      <4>1. /\ req'[r].pc = "insert" /\ req'[r].template = x
            /\ \A q \in Request \ {r} : req'[q] = req[q]
        BY <3>1, Goes DEF Pc
      <4> QED
        BY <2>1, <3>1, <4>1
    <3>2. CASE End(r)
      <4>1. req'[r].pc = "idle" /\ \A q \in Request \ {r} : req'[q] = req[q]
        BY <3>2, Ends
      <4> QED
        BY <4>1
    <3> QED
      BY <1>11, <3>1, <3>2 DEF FillTemplate, Drawable
  <2> QED
    BY <1>1, <2>1, <2>2, <2>3, StaysSettled
<1>12. ASSUME NEW n \in Node, (\E x \in Template : Expire(n, x)) \/ Crash(n) PROVE Settled(t)'
  <2>1. UNCHANGED drawn
    BY <1>12 DEF Expire, Crash
  <2>2. \A m \in Node : templateCache'[m][t] \in {NoTemplate, templateCache[m][t], templates[t]}
    <3>1. templateCache \in [Node -> [Template -> Form \cup {NoTemplate}]]
      BY DEF TypeInv, TypeOK
    <3>2. \/ \E x \in Template : templateCache' = [templateCache EXCEPT ![n][x] = NoTemplate]
          \/ templateCache' = [templateCache EXCEPT ![n] = [x \in Template |-> NoTemplate]]
      BY <1>12 DEF Expire, Crash
    <3> QED
      BY <3>1, <3>2
  <2>3. \A q \in Request : req'[q] = req[q] \/ req'[q].pc = "idle"
    BY <1>12, IdleType DEF Expire, Crash, TypeInv, TypeOK
  <2> QED
    BY <1>1, <2>1, <2>2, <2>3, StaysSettled
<1> QED
  BY <1>2, <1>4, <1>5, <1>6, <1>9, <1>10, <1>11, <1>12 DEF Next, Step

(* The invariant holds in every state; fairness plays no part in it. *)
THEOREM CaptchaInvariant == FairSpec => [](TypeInv /\ Safety)
BY InvInit, InvNext, PTL DEF FairSpec

(* Updates know the row they have read, in every state. *)
LEMMA AlwaysKnown == FairSpec => []UpdatesKnow
<1>1. TypeInv /\ UpdatesKnow /\ [Next]_vars => UpdatesKnow'
  BY KnowNext
<1> QED
  BY <1>1, KnowInit, CaptchaInvariant, PTL DEF FairSpec

(* An update writes the template as it was asked to, or throws and writes  *)
(* nothing of it, whatever else happens between its read and its write,    *)
(* unless another update writes the row.                                   *)
THEOREM WholeTemplateUpdates == FairSpec => TemplateUpdateIsWhole
<1>1. TypeInv /\ UpdatesKnow /\ [Next]_vars =>
        [\A r \in Request \ overtaken :
           LET t == req[r].template IN
           UpdateTemplate(r) /\ Live(t) => templates'[t] \in {req[r].copy, templates[t]}]_vars
  BY UpdateWritesWhole
<1> QED
  BY <1>1, AlwaysKnown, CaptchaInvariant, PTL DEF FairSpec, TemplateUpdateIsWhole

(* Copies that agree with the row of their template do so until it is      *)
(* changed again, on every process and in every handler: what CopiesSettle *)
(* promises, short of being reached.                                       *)
THEOREM SettledStay == FairSpec => SettledForGood
<1>1. ASSUME TypeInv, Safety, [Next]_vars, NEW t \in Template, Settled(t), templates'[t] = templates[t]
      PROVE  Settled(t)'
  <2>1. CASE Next
    BY <1>1, <2>1, SettledNext
  <2>2. CASE UNCHANGED vars
    BY <1>1, <2>2 DEF vars, Settled, Live
  <2> QED
    BY <1>1, <2>1, <2>2
<1>2. TypeInv /\ Safety /\ [Next]_vars =>
        [\A t \in Template : Settled(t) /\ templates'[t] = templates[t] => Settled(t)']_vars
  BY <1>1
<1> QED
  BY <1>2, CaptchaInvariant, PTL DEF FairSpec, SettledForGood

(* The state always has the type TypeOK. *)
THEOREM CaptchaTypes == FairSpec => []TypeOK
<1>1. TypeInv => TypeOK
  BY DEF TypeInv
<1> QED
  BY <1>1, CaptchaInvariant, PTL

(* No captcha outlives its template and no attempt its captcha, although   *)
(* captchas are drawn from cached templates while these are deleted.       *)
THEOREM NothingOrphaned == FairSpec => []NoOrphans
<1>1. Safety => NoOrphans
  BY DEF Safety
<1> QED
  BY <1>1, CaptchaInvariant, PTL

(* Answers that do not overlap are counted before they are recorded, at    *)
(* whatever step a process stops.                                          *)
THEOREM CountedFirst == FairSpec => []AttemptsCounted
<1>1. Safety => AttemptsCounted
  BY DEF Safety
<1> QED
  BY <1>1, CaptchaInvariant, PTL

(* Answers that do not overlap solve a captcha at most once.               *)
THEOREM OneSolution == FairSpec => []SolvedOnce
<1>1. Safety => SolvedOnce
  BY DEF Safety
<1> QED
  BY <1>1, CaptchaInvariant, PTL

(* With answers that do not overlap a captcha has at most MaxAttempts rows *)
(* of attempts.                                                            *)
THEOREM AttemptsBounded ==
  FairSpec => [](\A c \in CaptchaId \ overlapped : right[c] + wrong[c] <= MaxAttempts)
<1>1. TypeInv /\ Safety => \A c \in CaptchaId \ overlapped : right[c] + wrong[c] <= MaxAttempts
  <2> SUFFICES ASSUME TypeInv, Safety, NEW c \in CaptchaId \ overlapped
               PROVE  right[c] + wrong[c] <= MaxAttempts
    OBVIOUS
  <2>1. right[c] \in Nat /\ wrong[c] \in Nat
    BY DEF TypeInv, TypeOK
  <2>2. CASE HasRow(c)
    <3>1. captchas[c].attempts \in 0..MaxAttempts
      BY <2>2 DEF HasRow, TypeInv, TypeOK, Row
    <3>2. right[c] + wrong[c] <= captchas[c].attempts
      BY <2>2 DEF Safety, AttemptsCounted
    <3> QED
      BY <2>1, <3>1, <3>2, MaxAttemptsAssumption
  <2>3. CASE ~HasRow(c)
    BY <2>3, MaxAttemptsAssumption DEF Safety, NoOrphans
  <2> QED
    BY <2>2, <2>3
<1> QED
  BY <1>1, CaptchaInvariant, PTL

-----------------------------------------------------------------------------
(* The lives of the captchas, as CaptchaLife has them. *)
Lived == [c \in CaptchaId |-> lifeOf(c)]
Remaining == [c \in CaptchaId |-> leftOf(c)]
Granted == {c \in CaptchaId \ overlapped : tokens[c] > 0}

(* Nobody sees a change of a captcha that keeps its row, or is disturbed.  *)
LEMMA SameLife ==
  ASSUME NEW c \in CaptchaId,
         c \in overlapped' <=> c \in overlapped,
         \/ captchas'[c] = captchas[c] /\ (c \in drawn' <=> c \in drawn)
         \/ c \in overlapped
  PROVE  lifeOf(c)' = lifeOf(c) /\ leftOf(c)' = leftOf(c)
<1>1. CASE c \in overlapped
  BY <1>1 DEF lifeOf, leftOf
<1>2. CASE captchas'[c] = captchas[c] /\ (c \in drawn' <=> c \in drawn)
  <2>1. HasRow(c)' <=> HasRow(c)
    BY <1>2 DEF HasRow
  <2> QED
    BY <1>2, <2>1 DEF lifeOf, leftOf
<1> QED
  BY <1>1, <1>2

(* So a step that changes such captchas only is none of CaptchaLife. *)
LEMMA LivesStutter ==
  ASSUME UNCHANGED <<tokens, overlapped>> \/ UNCHANGED <<Granted, overlapped>>,
         \A c \in CaptchaId \ overlapped :
           captchas'[c] = captchas[c] /\ (c \in drawn' <=> c \in drawn)
  PROVE  UNCHANGED Lives!vars
<1>1. \A c \in CaptchaId : lifeOf(c)' = lifeOf(c) /\ leftOf(c)' = leftOf(c)
  BY SameLife
<1>2. Granted' = Granted
  BY DEF Granted
<1> QED
  BY <1>1, <1>2 DEF Lives!vars, Granted

(* One captcha that is not disturbed lives on as said, and the others as   *)
(* before.                                                                 *)
LEMMA OneLife ==
  ASSUME NEW c \in CaptchaId, NEW life, NEW left,
         lifeOf(c)' = life, leftOf(c)' = left,
         \A d \in CaptchaId \ {c} : /\ d \in overlapped' <=> d \in overlapped
                                    /\ captchas'[d] = captchas[d]
                                    /\ d \in drawn' <=> d \in drawn
  PROVE  /\ Lived' = [Lived EXCEPT ![c] = life]
         /\ Remaining' = [Remaining EXCEPT ![c] = left]
<1>1. \A d \in CaptchaId \ {c} : lifeOf(d)' = lifeOf(d) /\ leftOf(d)' = leftOf(d)
  BY SameLife
<1> QED
  BY <1>1 DEF Lived, Remaining

(* Before anything is drawn every captcha is new. *)
LEMMA LivesInit == Init => Lives!Init
<1> SUFFICES ASSUME Init PROVE Lives!Init
  OBVIOUS
<1>1. \A c \in CaptchaId : lifeOf(c) = "new" /\ leftOf(c) = 0
  BY DEF Init, lifeOf, leftOf, HasRow
<1>2. {c \in CaptchaId \ overlapped : tokens[c] > 0} = {}
  BY DEF Init
<1> QED
  BY <1>1, <1>2 DEF Lives!Init

(* A captcha with a row that is not disturbed is open or solved. *)
LEMMA WithRow ==
  ASSUME TypeInv, Safety, NEW c \in CaptchaId \ overlapped, HasRow(c)
  PROVE  /\ captchas[c] \in Row /\ c \in drawn
         /\ lifeOf(c) = IF captchas[c].isSolved THEN "solved" ELSE "open"
         /\ leftOf(c) = MaxAttempts - captchas[c].attempts
<1>1. captchas[c] \in Row /\ c \in drawn
  BY DEF TypeInv, TypeOK, HasRow, Safety, Unused
<1> QED
  BY <1>1 DEF lifeOf, leftOf

(* The insert of a captcha draws it, or fails. *)
LEMMA InsertDraws ==
  ASSUME TypeInv, Safety, NEW r \in Request, InsertCaptcha(r)
  PROVE  [Lives!Next]_(Lives!vars)
<1>1. UNCHANGED <<tokens, overlapped>>
  BY DEF InsertCaptcha, answers
<1>2. CASE UNCHANGED <<drawn, captchas>>
  BY <1>1, <1>2, LivesStutter
<1>3. CASE ~UNCHANGED <<drawn, captchas>>
  <2>1. PICK c \in CaptchaId \ drawn, t \in Template :
          /\ drawn' = drawn \cup {c}
          /\ captchas' = [captchas EXCEPT ![c] = NewCaptcha(t)]
    BY <1>3 DEF InsertCaptcha, TypeInv, Carries, ServingPc
  <2>2. CASE c \in overlapped
    <3>1. \A d \in CaptchaId \ overlapped :
            captchas'[d] = captchas[d] /\ (d \in drawn' <=> d \in drawn)
      BY <2>1, <2>2 DEF TypeInv, TypeOK
    <3> QED
      BY <1>1, <3>1, LivesStutter
  <2>3. CASE c \notin overlapped
    <3>1. captchas'[c] = NewCaptcha(t)
      BY <2>1 DEF TypeInv, TypeOK
    <3>2. NewCaptcha(t) # NoCaptcha /\ NewCaptcha(t).attempts = 0 /\ ~NewCaptcha(t).isSolved
      <4>1. 0 \in 0..MaxAttempts
        BY MaxAttemptsAssumption
      <4>2. NewCaptcha(t) \in Row
        BY <4>1 DEF NewCaptcha, Row
      <4> QED
        BY <4>2, NoneAssumption DEF NewCaptcha
    <3>3. lifeOf(c)' = "open" /\ leftOf(c)' = MaxAttempts
      BY <1>1, <2>1, <2>3, <3>1, <3>2, MaxAttemptsAssumption DEF lifeOf, leftOf, HasRow
    <3>4. /\ Lived' = [Lived EXCEPT ![c] = "open"]
          /\ Remaining' = [Remaining EXCEPT ![c] = MaxAttempts]
      BY <1>1, <2>1, <3>3, OneLife DEF TypeInv, TypeOK
    <3>5. Lived[c] = "new"
      BY <2>1, <2>3 DEF Lived, lifeOf
    <3>6. Granted' = Granted
      BY <1>1 DEF Granted
    <3>7. Lives!Draw(c)
      BY <3>4, <3>5, <3>6 DEF Lives!Draw, Lived, Remaining, Granted
    <3> QED
      BY <3>7 DEF Lives!Next
  <2> QED
    BY <2>2, <2>3
<1> QED
  BY <1>2, <1>3

(* Writing a captcha back counts the answer. *)
LEMMA UpdateAnswers ==
  ASSUME TypeInv, Safety, NEW r \in Request, UpdateCaptcha(r)
  PROVE  [Lives!Next]_(Lives!vars)
<1>1. UNCHANGED <<tokens, overlapped, drawn>>
  BY DEF UpdateCaptcha, answers
<1>2. PICK c \in CaptchaId : c = req[r].captcha
  BY DEF UpdateCaptcha, TypeInv, TypeOK, Carries, Handler
<1>3. CASE ~HasRow(c)
  BY <1>1, <1>2, <1>3, LivesStutter DEF UpdateCaptcha
<1>4. CASE HasRow(c)
  <2>1. PICK seen \in 0..MaxAttempts - 1, correct \in BOOLEAN :
          seen = req[r].seen /\ correct = req[r].correct
    BY DEF TypeInv, TypeOK, Handler
  <2>2. PICK row : row = [template |-> captchas[c].template,
                          attempts |-> seen + 1, isSolved |-> correct]
    OBVIOUS
  <2>3. captchas' = [captchas EXCEPT ![c] = row]
    BY <1>2, <1>4, <2>1, <2>2 DEF UpdateCaptcha
  <2>4. /\ captchas'[c] = row
        /\ \A d \in CaptchaId \ {c} : captchas'[d] = captchas[d]
    BY <2>3 DEF TypeInv, TypeOK
  <2>5. CASE c \in overlapped
    BY <1>1, <2>4, <2>5, LivesStutter
  <2>6. CASE c \notin overlapped
    <3>1. /\ captchas[c] \in Row /\ c \in drawn
          /\ lifeOf(c) = IF captchas[c].isSolved THEN "solved" ELSE "open"
          /\ leftOf(c) = MaxAttempts - captchas[c].attempts
      BY <1>4, <2>6, WithRow
    <3>2. seen = captchas[c].attempts /\ ~captchas[c].isSolved
      BY <1>2, <1>4, <2>1, <2>6, NoneAssumption DEF Safety, Checks, UpdateCaptcha
    <3>3. row # NoCaptcha /\ row.attempts = seen + 1 /\ row.isSolved = correct
      <4>1. seen + 1 \in 0..MaxAttempts /\ captchas[c].template \in Template
        BY <3>1, MaxAttemptsAssumption DEF Row
      <4>2. row \in Row
        BY <2>2, <4>1 DEF Row
      <4> QED
        BY <2>2, <4>2, NoneAssumption
    <3>4. PICK outcome \in {"open", "solved"} :
            outcome = IF correct THEN "solved" ELSE "open"
      OBVIOUS
    <3>5. lifeOf(c)' = outcome
      BY <1>1, <2>4, <2>6, <3>1, <3>3, <3>4 DEF lifeOf, HasRow
    <3>6. leftOf(c)' = MaxAttempts - (seen + 1)
      BY <1>1, <2>4, <2>6, <3>3 DEF leftOf, HasRow
    <3>7. /\ Lived' = [Lived EXCEPT ![c] = outcome]
          /\ Remaining' = [Remaining EXCEPT ![c] = MaxAttempts - (seen + 1)]
      BY <1>1, <2>4, <3>5, <3>6, OneLife
    <3>8. /\ Lived[c] = "open" /\ Remaining[c] > 0
          /\ MaxAttempts - (seen + 1) = Remaining[c] - 1
      BY <3>1, <3>2, MaxAttemptsAssumption DEF Lived, Remaining
    <3>9. Granted' = Granted
      BY <1>1 DEF Granted
    <3>10. Lives!Answer(c, outcome)
      BY <3>7, <3>8, <3>9 DEF Lives!Answer, Lived, Remaining, Granted
    <3> QED
      BY <3>4, <3>10 DEF Lives!Next
  <2> QED
    BY <2>5, <2>6
<1> QED
  BY <1>3, <1>4

(* Recording a right answer grants the token. *)
LEMMA AttemptGrants ==
  ASSUME TypeInv, Safety, NEW r \in Request, CreateAttempt(r)
  PROVE  [Lives!Next]_(Lives!vars)
<1>1. UNCHANGED <<captchas, overlapped, drawn>>
  BY DEF CreateAttempt
<1>2. PICK c \in CaptchaId : c = req[r].captcha
  BY DEF CreateAttempt, TypeInv, TypeOK, Carries, Handler
<1>3. CASE UNCHANGED tokens
  BY <1>1, <1>3, LivesStutter
<1>4. CASE ~UNCHANGED tokens
  <2>1. HasRow(c) /\ req[r].correct /\ tokens' = [tokens EXCEPT ![c] = @ + 1]
    BY <1>2, <1>4 DEF CreateAttempt
  <2>2. /\ tokens'[c] = tokens[c] + 1 /\ tokens[c] \in Nat
        /\ \A d \in CaptchaId \ {c} : tokens'[d] = tokens[d]
    BY <2>1 DEF TypeInv, TypeOK
  <2>3. CASE c \in overlapped
    <3>1. Granted' = Granted
      BY <1>1, <2>2, <2>3 DEF Granted
    <3> QED
      BY <1>1, <3>1, LivesStutter
  <2>4. CASE c \notin overlapped
    <3>1. tokens[c] = 0 /\ captchas[c].isSolved
      BY <1>2, <2>1, <2>4, NoneAssumption DEF Safety, Checks, CreateAttempt
    <3>2. lifeOf(c) = "solved"
      BY <2>1, <2>4, <3>1, WithRow
    <3>3. Granted' = Granted \cup {c} /\ c \notin Granted
      BY <1>1, <2>2, <2>4, <3>1 DEF Granted
    <3>4. \A d \in CaptchaId : lifeOf(d)' = lifeOf(d) /\ leftOf(d)' = leftOf(d)
      BY <1>1, SameLife
    <3>5. Lived' = Lived /\ Remaining' = Remaining /\ Lived[c] = "solved"
      BY <3>2, <3>4 DEF Lived, Remaining
    <3>6. Lives!Grant(c)
      BY <3>3, <3>5 DEF Lives!Grant, Lived, Remaining, Granted
    <3> QED
      BY <3>6 DEF Lives!Next
  <2> QED
    BY <2>3, <2>4
<1> QED
  BY <1>3, <1>4

(* The delete of a template makes its captchas vanish. *)
LEMMA DeleteVanishes ==
  ASSUME TypeInv, Safety, NEW r \in Request, DeleteTemplate(r)
  PROVE  [Lives!Next]_(Lives!vars)
<1>1. UNCHANGED <<tokens, overlapped, drawn>>
  BY DEF DeleteTemplate
<1>2. PICK some : some = {c \in CaptchaId \ overlapped :
                            HasRow(c) /\ captchas[c].template = req[r].template}
  OBVIOUS
<1>3. some \in SUBSET CaptchaId
  BY <1>2
<1>4. ASSUME NEW c \in some
      PROVE  lifeOf(c)' = "gone" /\ leftOf(c)' = 0 /\ lifeOf(c) \in {"open", "solved"}
  <2>1. c \in CaptchaId \ overlapped /\ HasRow(c) /\ captchas'[c] = NoCaptcha
    BY <1>2 DEF DeleteTemplate
  <2>2. c \in drawn /\ lifeOf(c) \in {"open", "solved"}
    BY <2>1, WithRow
  <2> QED
    BY <1>1, <2>1, <2>2 DEF lifeOf, leftOf, HasRow
<1>5. ASSUME NEW c \in CaptchaId \ some
      PROVE  lifeOf(c)' = lifeOf(c) /\ leftOf(c)' = leftOf(c)
  <2>1. captchas'[c] = captchas[c] \/ c \in overlapped
    BY <1>2 DEF DeleteTemplate
  <2> QED
    BY <1>1, <2>1, SameLife
<1>6. /\ Lived' = [c \in CaptchaId |-> IF c \in some THEN "gone" ELSE Lived[c]]
      /\ Remaining' = [c \in CaptchaId |-> IF c \in some THEN 0 ELSE Remaining[c]]
      /\ \A c \in some : Lived[c] \in {"open", "solved"}
  BY <1>3, <1>4, <1>5 DEF Lived, Remaining
<1>7. Granted' = Granted
  BY <1>1 DEF Granted
<1>8. Lives!Vanish(some)
  BY <1>6, <1>7 DEF Lives!Vanish, Lived, Remaining, Granted
<1> QED
  BY <1>3, <1>8 DEF Lives!Next

(* An answer that begins changes nothing, but for one that comes while     *)
(* another one is under way.                                               *)
LEMMA ValidateDisturbs ==
  ASSUME TypeInv, Safety, NEW r \in Request, NEW c \in CaptchaId, NEW correct \in BOOLEAN,
         BeginValidate(r, c, correct)
  PROVE  [Lives!Next]_(Lives!vars)
<1>1. /\ UNCHANGED <<captchas, tokens, drawn>>
      /\ HasRow(c) /\ ~captchas[c].isSolved /\ captchas[c].attempts < MaxAttempts
      /\ overlapped' = overlapped \/ overlapped' = overlapped \cup {c}
  BY DEF BeginValidate
<1>2. CASE overlapped' = overlapped
  BY <1>1, <1>2, LivesStutter
<1>3. CASE overlapped' = overlapped \cup {c} /\ c \notin overlapped
  <2>1. lifeOf(c) = "open" /\ leftOf(c) = MaxAttempts - captchas[c].attempts /\ captchas[c] \in Row
    BY <1>1, <1>3, WithRow
  <2>2. tokens[c] = 0
    <3>1. tokens[c] \in Nat
      BY DEF TypeInv, TypeOK
    <3>2. tokens[c] <= 1 /\ tokens[c] # 1
      BY <1>1, <1>3 DEF Safety, SolvedOnce
    <3> QED
      BY <3>1, <3>2
  <2>3. lifeOf(c)' = "disturbed" /\ leftOf(c)' = 0
    BY <1>3 DEF lifeOf, leftOf
  <2>4. /\ Lived' = [Lived EXCEPT ![c] = "disturbed"]
        /\ Remaining' = [Remaining EXCEPT ![c] = 0]
    BY <1>1, <1>3, <2>3, OneLife
  <2>5. Lived[c] = "open" /\ Remaining[c] > 0
    BY <1>1, <2>1, MaxAttemptsAssumption DEF Lived, Remaining, Row
  <2>6. Granted' = Granted
    BY <1>1, <1>3, <2>2 DEF Granted
  <2>7. Lives!Disturb(c)
    BY <2>4, <2>5, <2>6 DEF Lives!Disturb, Lived, Remaining, Granted
  <2> QED
    BY <2>7 DEF Lives!Next
<1> QED
  BY <1>1, <1>2, <1>3

(* Every step of Captcha is one of CaptchaLife, or none that concerns it.  *)
LEMMA LivesNext ==
  ASSUME TypeInv, Safety, [Next]_vars
  PROVE  [Lives!Next]_(Lives!vars)
<1>1. CASE UNCHANGED <<captchas, drawn, answers>>
  BY <1>1, LivesStutter DEF answers
<1>2. CASE \E r \in Request : \/ InsertCaptcha(r) \/ UpdateCaptcha(r) \/ CreateAttempt(r)
                              \/ DeleteTemplate(r)
  BY <1>2, InsertDraws, UpdateAnswers, AttemptGrants, DeleteVanishes
<1>3. CASE \E r \in Request, c \in CaptchaId, correct \in BOOLEAN : BeginValidate(r, c, correct)
  BY <1>3, ValidateDisturbs
<1>4. CASE UNCHANGED vars
  BY <1>1, <1>4 DEF vars, answers
<1>5. CASE Next
  BY <1>1, <1>2, <1>3, <1>5
     DEF Next, Step, CreateTemplate, BeginUpdate, BeginDelete, BeginShow, UpdateTemplate,
         ReadTemplate, FillTemplate, Expire, Crash
<1> QED
  BY <1>4, <1>5

(* Captcha implements CaptchaLife: over awaits, cascades and crashes, a    *)
(* captcha that is answered by one request at a time loses an attempt with *)
(* each answer, is solved for good by the first right one, and grants one  *)
(* token at most.                                                          *)
THEOREM KeepsLives == FairSpec => ImplementsLives
<1>1. Init => Lives!Init
  BY LivesInit
<1>2. TypeInv /\ Safety /\ [Next]_vars => [Lives!Next]_(Lives!vars)
  BY LivesNext
<1> QED
  BY <1>1, <1>2, CaptchaInvariant, PTL DEF FairSpec, ImplementsLives, Lives!Spec
=============================================================================
