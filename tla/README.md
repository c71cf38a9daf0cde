# A TLA+ model of riemann

riemann is a NestJS service over one PostgreSQL database (Prisma). Users sign
up, confirm their email, log in, found enterprises, invite each other into
them, and set up captcha templates whose captchas other sites show to their
visitors. This directory models that service: the modules follow the source
under `src/`, TLC checks them on small instances, and TLAPS proves what is
claimed for every instance.

Paths below are relative to the application's sources, `src/src/`, unless they
start with `prisma/` or `docker/`.

## 1. The system

### How it runs

* `docker/haproxy` spreads requests over several Node.js processes, so requests
  of one client reach different processes.
* The processes share **the database** and nothing else. Each statement outside
  of an explicit transaction commits by itself; transactions run at PostgreSQL's
  default level, READ COMMITTED.
* Each process has **a memory cache of its own** (`configuration/cache`,
  cache-manager without a store). An entry ends with its time to live, or with
  the process.
* A process runs one handler at a time and changes to another one at every
  `await`. What a handler read before an `await` may be out of date after it.
* Nothing but database and mail survives a crash, and nothing is resumed.

### Components

| component | state | operations | what makes it correct |
|---|---|---|---|
| sessions (`auth`) | rows of `access_tokens`; `access_token` entries in the caches; the tokens clients hold | log in, refresh, log out, the JWT guard | a login never has two usable sessions; a logout ends its login, whatever raced with it; a refresh never leaves the user without a session; a revoked session stops working |
| sign-up and email verification (`auth`) | rows of `users`, `emailVerified`; mail counters in the caches | sign up, send again, verify | one user per email; mails are limited, also where requests overlap, and nobody is refused one too early |
| memberships and invitations (`enterprise`, `profile`) | rows of `enterprises`, `employees`, `enterprise_invitations`; employee entries in the caches; mails sent | create and delete an enterprise, invite, withdraw, accept, reject, the interceptor in front of an enterprise's routes | nobody becomes an employee but by founding or on the invitation of one, and none twice; acceptance is atomic; only employees pass the interceptor; a decision is final |
| enterprises (`enterprise`) | rows of `enterprises`; enterprise entries in the caches | create, update, load behind the interceptor; `sanitizeSlug` | slugs are unique; an update is written whole; the copies agree with the row |
| profile (`profile`) | the user with employees and enterprises; its entries in the caches | read, update | a user sees their own changes; copies become fresh again |
| captcha templates and captchas (`captcha`) | rows of templates and captchas; template entries in the caches | create, update and delete a template, draw a captcha | no captcha without a template; the copies of a template follow its row |
| captcha validation (`captcha`) | attempt counter and solution of a captcha, attempt rows | answer a captcha | answers are counted and limited; a captcha is solved once; a token stands for a right answer |
| captcha images (`captcha`) | a canvas, for the time of one call | draw the text, decoys and noise, and distort the picture | the picture still shows the answer; the drawing ends |
| password hashing | none | argon2 | not modelled; a login is modelled from the point where the password was right |
| input validation | none | the formats of fields | not modelled, except for the two validations that read the database |
| configuration, home, admin, notifications, deployment | none | wiring | not modelled; that each process has its own cache is taken from it |

### How they interact

* `JwtAuthGuard` (sessions) stands before the routes of all other components. Its
  effect on them is only whether a request starts; so each other module lets
  any user that exists start a request.
* The validation of a sign-up reads `users`, that of an enterprise `enterprises`,
  before the handler starts: between validation and write lie several awaits.
* `EnterpriseInterceptor` (memberships, enterprises) stands before the routes of one
  enterprise. It caches the row of the enterprise (module `Enterprises`) and the
  employee (module `Membership`).
* Accepting an invitation (memberships) drops the profile entry of the user in its
  own process (profile). Creating or updating an enterprise shows in profiles and
  drops nothing there.
* The delete of an enterprise meets the foreign keys of employees and invitations.
* The delete of a captcha template cascades to its captchas and their attempts. Neither
  delete nor update reaches the copies in the caches.
* `CaptchaUseCase` has the picture drawn, in one go, before it inserts the captcha with the
  answer. The picture is part of the answer to the request only; so `CaptchaImage` and
  `Captcha` share nothing but the type of the template (`Defect` in `Captcha`).

### What is hard about it

Everything that can go wrong lies between two awaits: checks before writes
without a lock, caches filled with what was read before a delete, deletes that
find nothing, two writes of one request with a crash between them, row locks held over
round trips. Two parts are hard without any concurrency: the chain of replacements that makes
a slug, and the drawing of a captcha, where order, remainders of negative numbers and a
loop over random points decide whether there is a readable picture at all. `PROJECT.json` lists each such place as a hazard, with its line and
the property that watches it.

## 2. How the modules correspond to the code

All modules of handlers have the same shape.

* A **request slot** `r \in Request` is a handler in flight on the process
  `NodeOf[r]`. Its record `req[r]` has the local variables the code keeps over
  awaits, and `pc` names the await the handler stands before. One **action** is
  the code from one await to the next, guards and early returns included.
* An answer that changes nothing (401, 403, 404, 422, 500) takes the slot back to
  idle. A request that is refused before its first await is no step at all.
  Where a request begins with a read, the action that begins it is that read.
* **Rows** are variables that all slots share, **caches** are functions of `Node`.
* `Expire` ends one cache entry, at any time: the time to live is data here. `Crash(n)`
  empties the cache of a process and forgets its handlers at any await.
* Variables commented as **history** are no state of the code; the properties read them.
* Finite constants (`Token`, `Invitation`, `CaptchaId`, ...) bound how many rows are
  ever created. When they run out, a create waits. The proofs hold for all such sets.
* Definitions introduced by "A bug of X" are variants of X with a plausible
  mistake. No specification uses them; each property is tested against the
  variant that should break it.

| module | models | remarks |
|---|---|---|
| `SessionLineage` | what the session endpoints promise to the client of one login | the abstract specification, translated from no code |
| `Sessions` | `auth/application/usecases/{login,refresh-token,logout}`, `auth/infrastructure/{strategies,cache,database}` | `ReadRow`, `FillCache` are the miss of the guard; `CreateRow`, `CacheNew` are `generateAccessToken`; `DropFromCache`, `DeleteRow`, `DeleteThrows` are `delete` |
| `SessionsProofs` | | theorems about `Sessions` |
| `EmailVerification` | `signup`, `verification-email`, their controllers and validation | a user stands for its lower-case email; a verification may come for any user, see 7 |
| `EmailVerificationProofs` | | theorems about `EmailVerification` |
| `Members` | how users become members of an enterprise | the abstract specification of `Membership`, translated from no code |
| `Membership` | `invitation-invite`, `invitation-delete`, `profile-invitations`, create and delete of enterprises, the employee part of the interceptor | `Locked` is the row lock of the open transaction of an acceptance; what it wrote is seen when it commits |
| `MembershipProofs` | | theorems about `Membership` |
| `Enterprises` | `enterprise-create`, `enterprise-update`, validation of slugs, the row part of the interceptor | `Found` is the row with the new name assigned to it, which is why `Updated` never writes a name (see 7) |
| `EnterprisesProofs` | | theorems about `Enterprises` |
| `Slug` | `EnterpriseRepository.sanitizeSlug` | a pure function, checked against a reference definition. A text is a function from positions to character classes, and each replacement is the set of positions that it keeps (`keep`) |
| `SlugProofs` | | theorems about `Slug` |
| `Profile` | `profile.usecase`, `profile-cache.repository` | the profile is two version counters |
| `ProfileProofs` | | theorems about `Profile` |
| `CaptchaLife` | what the validation promises of one captcha | an abstract specification of `Captcha`, translated from no code |
| `Captcha` | templates, captchas, validation | the update of a template has no route yet, and `captcha.module.ts` does not provide the validation; both are modelled as the use cases stand |
| `CaptchaProofs` | | theorems about `Captcha` |
| `CaptchaImage` | `TextCaptchaFactory` | one action per drawing, and one per turn of the loop for distinct points. A letter or decoy is the pixel it starts at; translucent strokes and the final noise, which adds to colours that saturate, cover nothing |
| `CaptchaImageProofs` | | theorems about `CaptchaImage` |
| `MC...` | | the instances for TLC: which process serves which slot, and symmetries |

`Sessions` is shown to implement `SessionLineage` with a refinement mapping (at
the end of `Sessions.tla`): per login, its phase, the token its client can use,
and the tokens that were taken away. `Membership` is shown to implement `Members` (`Chain`): the members are
the users with an employee row, and only a member's request inserts an invitation, although what let it through
was read or cached before. `Captcha` is shown to implement `CaptchaLife` (`Lives`): a captcha is new, open, solved or gone, by its row; what is
left of it is the limit less its counter; and once a second answer begins while one is under way it is disturbed, and the
promise ends. `Membership` and `Enterprises` both have
the rows of enterprises, each with the part its properties need; the delete is in
`Membership`, where it is shown to remove nothing, so `Enterprises` goes without it.

## 3. What the runs check

| run | question | instance |
|---|---|---|
| `sessions_onenode` | Do login, refresh, logout and guard keep one usable session per login, end it at a logout, and never leave a gap? | one process, three slots, three sessions |
| `sessions_twonodes` | Do they implement the client's view, does every revocation take effect in all caches in the end, and does a forgotten session stay forgotten? | two processes with a slot each, three sessions, fair |
| `sessions_stalecopy` | Is the cache free of revoked sessions when a logout has been answered? **No**, see 6 | one process, two slots |
| `membership_race` | Are employees earned, on a member's invitation, does a user have one row unless acceptances race, is acceptance atomic, is the interceptor sound, does every employee go back to the owner, is an invitation mailed once at most, do enterprises stay? | one process, three slots, two users, two invitations |
| `membership_fair` | Is every accept, reject and withdrawal of a locked row answered? | two processes with a slot each |
| `membership_decide` | Does a decided invitation keep its status? **No**, see 6 | one process, two slots |
| `email_verification` | One user per email, mails within the limit, within nine where two requests overlap, no refusal too early? | one process with two slots and one with one slot |
| `captcha` | No orphans, answers counted, solved once, does a captcha live as promised, are updates of templates whole or nothing, do copies of templates settle and stay settled? | two processes with a slot each, one template, one captcha, two attempts |
| `captcha_image` | Does the distorted picture show the answer, and does drawing end? | two letters on a canvas of 6 by 2 |
| `profile` | Do users see their own changes, do caches settle, and do they stay fresh? | one process with two slots and one with one slot, two changes of each kind |
| `enterprises` | Slugs unique, updates whole, copies in agreement? | one process with two slots, two enterprises, two names, two slugs (one of them the empty one), two descriptions |
| `slug` | Does the chain of replacements compute the slug it should, once and for all? | all texts of up to five characters of nine classes |

### Why the bounds are enough

* *Sessions.* Three slots: two handlers race, and a guard fills the cache in between. Three
  sessions: a login, its successor by one refresh, and the successor of a racing
  refresh. A fourth would be a second login, and sessions of
  different logins meet in no action. The proofs drop the bound for the safety properties.
* *Membership.* A third slot lets a withdrawal or the interceptor run while two acceptances
  contend for a lock; two invitations are needed for one user to be invited twice.
  Enterprises meet in no action, so one is enough. The proofs drop these bounds for all but liveness.
* *EmailVerification.* `MaxSent` is 10, one above the nine of `OverlapLimit`, so that two overlapping
  requests can reach their limit and would be seen to exceed it. Nine is tight: with eight the run fails. A handler that
  would send one more can still see its mailer throw.
* *Captcha.* `MaxAttempts` is 5 in the code and 2 in the run: an answer is refused, or the first, or one
  before the last and then the last, and two that overlap lose one of two increments; more attempts only repeat the
  first. One captcha reaches the bound, is solved, and loses its template. A template has two fields that
  matter, so that two updates can mix. Two slots are the two answers, or the answer and the delete, that race.
* *Profile.* `MaxChanges` is 2, so that a copy can be older by two, by one, or by another
  kind of change. *Enterprises.* Two enterprises and two slugs make every request a competitor.
* *CaptchaImage.* The run keeps the proportions of the code: the wave reaches less far than the first letter is
  from the left side (8 and 20), the last is from the right side (8 and 52), and its two extremes together less
  far than one letter is from the next (15 and 38). `LettersAssumption` states them, and the code's own numbers satisfy it. Every shift
  of every row is tried, while the code takes those of a sine. `Decoys` is the whole canvas, so that a decoy
  lies under each letter, and the loop has to find the very last point.
* *Slug.* The longest pattern that matters is a separator, a dropped character,
  another separator and a letter on either side: five characters. The proofs drop the bound.

Each module has a type invariant `TypeOK`. Those of `EmailVerification`, `Captcha` and `CaptchaImage` also bound counters or keep the wave on the
canvas; they are checked by the runs, and so is that of the core module `Sessions`. Those of `Membership`, `Profile` and `Enterprises` only say what rows
and copies look like, and are left to the proofs (see 5).

`Slug.cfg` and `CaptchaImage.cfg` set `CHECK_DEADLOCK FALSE`: a function is computed once, a picture drawn, and
there is nothing more to do. All other runs check for deadlock.

Symmetry is used in runs of safety properties only, over sessions, slots, or data the
actions treat alike.

### Fairness

* Weak fairness of `Step(r)`, one assumption per slot: the event loop of a process runs
  every handler whose await is over, and the database and the mailer answer, if
  only with an error. That is all the code counts on.
* Weak fairness of `Expire` for each entry: an entry that is never renewed ends with
  its time to live (a minute for sessions, ten for profiles, half an hour for templates).
  A hit does not renew it in any of these caches.
* Strong fairness of the three updates that wait for a row lock in `Membership`:
  PostgreSQL serves the queue of a row lock in order. Weak fairness would not do: the
  lock may be taken by others again and again.
* Weak fairness of `generate` in `CaptchaImage`: the drawing waits for nobody. A turn of the loop
  that hits a point it already has is a stuttering step, so the fairness also says that a missing point is hit in the end. This is
  the one assumption about chance: each turn does so with at least the same positive probability, hence one of
  them does with probability one.
* No fairness of the actions that begin a request, and none of `Crash`: nobody has to send
  anything and no process has to stop. A crash at any time is allowed.

`RevocationTakesEffect`, `CopiesSettle` and `SettlesFresh` therefore rest on
the time to live alone wherever a delete reaches only its own process.

## 4. The properties

Each is stated where it is defined, with the code it is about. In one line each:

* `OneUsablePerLogin`: racing refreshes never leave two usable sessions. The loser's delete
  finds no row and throws, so its new session is never answered. It stays in the table, for good.
* `LogoutEndsLogin`: nor can a refresh that raced with a logout hand over a new session.
* `SuccessorFirst`: the row of a session goes only after that of its successor came.
* `ForgottenForGood`: once no cache and no pending fill holds a revoked session, the guard never
  lets it pass again.
* `RevocationTakesEffect`: and that moment comes.
* `ImplementsLineage`: to a client, a login opens, rotates and ends, and nothing else.
* `OneRowUnlessRaced`: a user who was invited twice, or founded the enterprise, still has one row: each acceptance looks
  for it first. Only two that look before either commits leave two rows, as no unique key forbids it; `raced` remembers them.
* `EmployeesEarned`, `AcceptedIsEmployed`: an employee row per ownership or acceptance at
  most, and at least one for whoever accepted.
* `GateSound`: who is past the interceptor is an employee now, not only when looked up. It
  holds because no code removes employees; such code will have to see to the caches.
* `ImplementsMembers`: members are founders and those who joined on the invitation of somebody who was a
  member when the invitation was inserted.
* `EmployeesReached`: from the owner a chain of accepted invitations leads to every employee, each sent by the one
  before; no circle of users lets itself in, whatever the interceptor had cached when the invitations were sent.
* `MailedAtMostOnce`: retries and overlapping requests never mail one invitation twice; so one whose mail
  failed is never mailed.
* `EnterprisesLast`: no enterprise is ever deleted, as the owner's own employee row forbids it.
* `DecisionsFinish`: every wait for a row lock ends.
* `OneUserPerEmail`, `SlugsUnique`: a check before a write is not enough; the unique column is.
* `MailBudget`: one request at a time stays within three confirmed mails per counter. `NoEarlyRefusal`:
  and however requests overlap, the counter never runs ahead of the mails.
* `OverlapBudget`: two requests at a time lose each other's increments, and each can take the counter back to what it has
  read before; but not for ever: nine mails per counter are the most, with mailers that fail, resends and expiry in between.
* `NoOrphans`: cascades and a cached template never leave rows without their parent.
* `AttemptsCounted`, `SolvedOnce`: what the counter and the tokens of a captcha mean, for
  answers one after the other.
* `ImplementsLives`: step by step, an answer takes one attempt, none is given back, a solved captcha
  stays solved until it vanishes with its template, and one token follows, for answers one after the other.
* `CopiesSettle`, `SettlesFresh`: caches get over updates and deletes that passed them by, once these cease.
* `SettledForGood`, `FreshForGood`: and once nothing old is cached or on its way to a cache this stays so until the row
  changes, although handlers of before may still fill, draw and drop.
* `ShowsAnswer`: neither a decoy, nor the side of the canvas, nor a neighbour takes a letter's place.
* `DrawingFinishes`: the loops for distinct points, during which the process serves nobody, find them all.
* `ReadYourWrites`: one request at a time, a process shows what it has changed.
* `UpdateIsWhole`: an update writes only differences to what it read, and yet leaves the row as asked
  when no other update came between -- all but the name; and only with another slug does it come that far.
* `TemplateUpdateIsWhole`: the same of the update of a template, where a field that is `false` is a change too; or it throws,
  on a name that is taken, and then nothing of it is written.
* `CacheAgrees`: the interceptor's copy is the row, unless a write came from another process or during a
  fill, and except between the write and the drop of an update.
* `MatchesReference`, `Idempotent`: the order of the six replacements is right, and slugs are their own slugs.

Several hold only for requests that do not overlap (`MailBudget`, `OneRowUnlessRaced`, `AttemptsCounted`, `SolvedOnce`,
`ReadYourWrites`, `UpdateIsWhole`, `TemplateUpdateIsWhole`, `CacheAgrees`, `ImplementsLives`). Their conditions name the overlap, and TLC
shows that each of them fails without its condition: the code takes no lock there. Nothing
in the repository promises otherwise.

## 5. What is proved

`SessionsProofs.tla` proves for every set of sessions, slots and processes, from the two assumptions of
`Sessions` (`NoTokenAssumption`: no session is the absence of one; `NodeOfAssumption`: each slot has a process):

| theorem | states |
|---|---|
| `TypeCorrect` | `Spec => []TypeOK` |
| `InvariantHolds` | `Spec => [](TypeInv /\ Safety)`, the inductive invariant |
| `OneSession` | `Spec => []OneUsablePerLogin` |
| `LogoutIsFinal` | `Spec => []LogoutEndsLogin` |
| `NoGap` | `Spec => []SuccessorFirst` |
| `RevocationIsFinal` | `Spec => ForgottenForGood` |
| `KeepsLineage` | `Spec => ImplementsLineage` |
| `TakenForGood` | a token that was taken away from the client is never current again, of any login |

*The argument.* None of the three invariants is inductive. Whether an answered refresh adds
a second usable session depends on what the other handlers of that login hold. The invariant adds:

* `HandlerOK`: what a handler carries at each await (part of `TypeInv`);
* `Known`: rows, clients and endings are of sessions that were created, and an ended session has no row;
* `Presented`: a guarded request carries a session that some client was given;
* `MadeOK`, `DistinctMade`: a session in the making has its row, is unknown to all clients, belongs to
  one handler, and continues the login of the one it replaces;
* `Exclusive`: a session about to be answered is alone in its login: no other is usable, and no
  other is about to be answered.

`Exclusive` is the core. A refresh gets to its answer only by deleting the row of the session it was given. This
was the only usable one of its login (by `OneUsablePerLogin`), no other
handler was about to answer (by `Exclusive`), and none gets there afterwards: all old sessions of the login are
deleted, and a delete of a deleted row throws. The lemma `Frame` covers the steps that change neither
rows nor clients; `CreateRowSafe`, `CacheNewSafe`, `DeleteRowSafe` and `DeliverSafe` cover the rest.

The refinement adds nothing to the invariant. `SameView` says that the client's view of a login depends only on its own
sessions, so all steps but two are stutters (`LineageStutters`). `DeleteRowTakesAway` is `TakeAway`: the
deleted session was the one in use, by `OneUsablePerLogin`. `DeliverHandsOver` is `Open` or `HandOver`: no session
of the login is in use, by `Exclusive`, and it has not ended, by `LogoutEndsLogin`. `TakenForGood` is what the refinement is good
for: a step of `SessionLineage` only adds to what was taken away, and what is current has a row (`CurrentIsNotSpent`).

`MembershipProofs.tla` proves for every set of enterprises, users, slots and processes, and every finite set of invitations,
from the assumptions of `Membership` (`NoneAssumption`: absence is no enterprise, user, invitation or row;
`InvitationAssumption`: finitely many invitations are sent, so that they can be counted; `NodeOfAssumption`):

| theorem | states |
|---|---|
| `TypeCorrect` | `Spec => []TypeOK` |
| `InvariantHolds` | `Spec => [](TypeInv /\ Safety)`, the inductive invariant |
| `Earned` | `Spec => []EmployeesEarned` |
| `OneRow` | `Spec => []OneRowUnlessRaced` |
| `AcceptedStay` | `Spec => []AcceptedIsEmployed` |
| `GateIsSound` | `Spec => []GateSound` |
| `MailedOnce` | `Spec => []MailedAtMostOnce` |
| `EnterprisesStay` | `Spec => EnterprisesLast` |
| `Reached` | `Spec => []EmployeesReached` |
| `Implements` | `Spec => ImplementsMembers` |

*The argument.* The whole proof turns on what is never taken back: the lemma `GrowsNext` says that no action
ends an employment, an ownership or what an invitation was issued for. It needs `DeleteThrows`, and that needs `Staff` (owners
are employees, employees work for enterprises with a row). So what a handler read before an await is still true after it, which is
`Holds`, kept by `HoldsStays`. Two things are not monotone and need `Exclusive`: that an invitation was not mailed yet,
and that it was not accepted yet. The first holds as the handler that inserted the row is the only one to mail it; the
second as the handler holds the row's lock since before it looked for the employee. If it found none, the invitation
cannot have been accepted (`AcceptedIsEmployed`), and so a new row of employment is paid for by a new
member of `accepted`, which is the counting step of `EmployeesEarned`. `Carries` and `Addressed` (in `TypeInv`) tie what a handler
carries to what was issued, so that an acceptance makes an employee of the one who was invited, where they were
invited. The refinement takes one lemma per action that is no stutter: `CreateIsFound`, `InviteIsInvite`, `AcceptIsJoin`.

`OneRowUnlessRaced` has a strengthening of its own, `Single`: a pair of user and enterprise that has not raced has one row at most, none
while a handler is about to insert one, and one such handler at most. Only a founding and the last two steps of an
acceptance touch it (`SingleMoves`): the founder has no row yet, as handlers work on enterprises with an owner
(`CreateSingle`); an acceptance that finds no row while another one is about to insert it is a race (`FindSingle`); so the row
that is committed is the first (`CommitSingle`).

`EmployeesReached` quantifies over circles of users instead of chains of invitations, which would take induction: a circle is `Closed`
when nobody in it sent an invitation that somebody outside has accepted. Its own strengthening is `Roots`: whoever sent an invitation
is an employee (`InvitersStaff`: was one then, by `GateSound`, and still is). A closed circle that has the owner and is closed after an acceptance was closed
before; so it has the sender, an employee, and hence the one who accepts (`AcceptRoots`). `RootsMove` covers the actions that change none of this.

`EmailVerificationProofs.tla` proves for every set of users, slots and processes and every bound on mails (`NoUserAssumption`,
`NodeOfAssumption`, `MaxSentAssumption`: the bound is a number):

| theorem | states |
|---|---|
| `MailInvariant` | `Spec => [](TypeInv /\ Safety /\ Overlap)`, the inductive invariant |
| `MailTypes` | `Spec => []TypeOK` |
| `OneUser` | `Spec => []OneUserPerEmail` |
| `MailLimit` | `Spec => []MailBudget` |
| `OverlapLimited` | `Spec => []OverlapBudget` |
| `CounterIsEarned` | `Spec => []NoEarlyRefusal` |

*The argument.* What a handler has read of the counter is old when it is written back plus one. `Backed` says what is
still true then: that many mails were sent. On a process with one request at a time it also
covers all mails of the window, and so `Budget` compares these with the counter, except while the one handler has sent a mail
that it has not counted (`Counting`). `MailBudget` alone is not inductive: it says nothing of a counter that lags behind.

`Overlap` is the same for two requests at a time, where the counter lags behind for good. Each handler has a *base*: the counter it has
read, or the counter itself, unless it is about to overwrite that (`IsBase`). A write leaves the counter one above a base, so one handler can take
back what the other has counted; but a base that both have left does not come back, and from two bases only `Left` more mails are
possible (`ChainShrinks`). `Overlap` says that the mails of the window and those still possible are nine together, not
counting mails that are sent and not counted yet. `SendOverlap` and `SetOverlap` are the two steps that matter, `FreshWindow` the expiry, and `QuietOverlap` covers
the others.

`EnterprisesProofs.tla` proves for every set of enterprises, names, slugs, descriptions, slots and processes (`NoneAssumption`, `NodeOfAssumption`):

| theorem | states |
|---|---|
| `EnterpriseInvariant` | `Spec => [](TypeInv /\ Safety)`, the inductive invariant |
| `EnterpriseTypes` | `Spec => []TypeOK` |
| `OneEnterprisePerSlug` | `Spec => []SlugsUnique` |
| `CachesAgree` | `Spec => []CacheAgrees` |
| `UpdatesAreWhole` | `Spec => UpdateIsWhole` |

*The argument.* `NotOvertaken`: an update that no other one has overtaken still holds the row of the database, with the new name
assigned to it, and so the differences it writes make the row it was asked for. `NotPassedBy`: a fill that no write
has passed by caches the row as it is. The theorems hold for any number of processes, while the run has one.

`ProfileProofs.tla` proves for every set of users, slots and processes and every bound on changes (`NoUserAssumption`,
`NodeOfAssumption`, `MaxChangesAssumption`):

| theorem | states |
|---|---|
| `ProfileInvariant` | `FairSpec => [](TypeInv /\ Safety)`, the inductive invariant |
| `ProfileTypes` | `FairSpec => []TypeOK` |
| `OwnWritesAreRead` | `FairSpec => []ReadYourWrites` |
| `FreshStays` | `FairSpec => FreshForGood` |

*The argument.* `AnsweredIsReal`: what a process has answered, or is about to answer, is in the database. So what a read gets from
there is never older than what was answered, whichever process wrote it, and the drop takes away the one copy that might be.
`FreshNext` goes through the actions: a step adds to a cache only what a read has brought, a read brings the row as it is, and a drop only
removes.

`CaptchaProofs.tla` proves for every set of templates, captchas, slots and processes and every limit on attempts
(`MaxAttemptsAssumption`: positive; `NodeOfAssumption`; `NoneAssumption`: absence is no template, row or captcha):

| theorem | states |
|---|---|
| `CaptchaInvariant` | `FairSpec => [](TypeInv /\ Safety)`, the inductive invariant |
| `CaptchaTypes` | `FairSpec => []TypeOK` |
| `NothingOrphaned` | `FairSpec => []NoOrphans` |
| `CountedFirst` | `FairSpec => []AttemptsCounted` |
| `AttemptsBounded` | no captcha whose answers do not overlap has more than `MaxAttempts` attempt rows |
| `OneSolution` | `FairSpec => []SolvedOnce` |
| `KeepsLives` | `FairSpec => ImplementsLives` |
| `WholeTemplateUpdates` | `FairSpec => TemplateUpdateIsWhole` |
| `SettledStay` | `FairSpec => SettledForGood` |

*The argument.* An id that is not in use has left nothing behind (`Unused`). A captcha whose answers have not overlapped has one handler
(`Alone`); `Checks` says what this one relies on: before it writes, the counter is the one it has read and
the captcha is not solved; before it records, the counter is ahead of the rows and there is no token yet. None of the invariants needs
anything of caches or of the handlers that draw: `CaptchasUntouched` covers them. The refinement has one lemma per action
that is no stutter: `InsertDraws`, `UpdateAnswers`, `AttemptGrants`, `DeleteVanishes`, `ValidateDisturbs`.

Updates of templates have an invariant of their own, `UpdatesKnow`: the differences that an update carries, if no other one has overtaken it, are those
between what was sent and the row as it is now, not only as it was read. Applied to that row they make what was sent (`WritesForm`), and an update that throws applies none.
`SettledStay` is a step of `StaysSettled`: what a handler caches or draws, it has from the row or from a copy that agrees with it.

`CaptchaImageProofs.tla` proves for every alphabet, text, canvas, wave and number of decoys that keep the proportions
of `LettersAssumption` (see 3) and `PointsAssumption`; the numbers of the code do:

| theorem | states |
|---|---|
| `ImageInvariant` | `Spec => []Inv`, the inductive invariant |
| `ImageTypes` | `Spec => []TypeOK` |
| `AnswerIsShown` | `Spec => []ShowsAnswer` |
| `LoopsCanEnd` | while a loop lacks points there is a pixel it does not have yet, and it stops with as many as it asks for |

*The argument.* `LettersApart`: letters stand a step apart, away from the sides. `WhereColoursGo`: a column that can hold a letter is the source of
exactly those columns that the wave displaces to it; the remainder of a negative number and the wrap to the other side only reach columns before the
first letter. So the wave moves each letter by the shift of its row, and two neighbours together by less than the step between them (`WaveKeepsTheAnswer`). `NoLetterYet` and
`Written` describe the picture before.

`LoopsCanEnd` is the part of `DrawingFinishes` that does not rest on chance. No loop asks for more points than the canvas has pixels (`CanvasSuffices`), a
turn adds one point or none (`LoopCounts`), so fewer points than asked for cannot be all pixels.

`SlugProofs.tla` proves for texts of any length (`MaxLengthAssumption`: the bound is a number):

| theorem | states |
|---|---|
| `SlugIsReference` | `Spec => []MatchesReference` |
| `SlugIsItsOwnSlug` | `Spec => []Idempotent` |

*The argument.* All six replacements change characters one by one, or keep a set of positions. Keeping twice is keeping once (`KeepKeep`), as `Nth`
lists a set in its order (`NthLists`) and nothing else does (`OnlyList`). So each replacement, applied to characters kept from the input, keeps fewer of
them, and one lemma says which: `DropKept`, `TrimKept`, `RunsKept`; together these are the positions of the reference (`JoinedPositions`,
`SanitizeIsReference`). A slug has no capitals, accents, blanks or two hyphens in a row (`ReferenceIsClean`), and of such a text the reference
keeps all (`CleanIsReference`). The only induction is the one in "a set of numbers has a least member", from the library.

*Only model-checked.* Liveness: `RevocationTakesEffect`, `DecisionsFinish`,
`CopiesSettle`, `SettlesFresh`, `DrawingFinishes`. The prover does not treat fairness and `ENABLED`. What keeps a goal once it is reached, or leaves it in
reach, is proved: `RevocationIsFinal`, `SettledStay`, `FreshStays`, `LoopsCanEnd`. Every other property
of a passing run is a theorem.

## 6. Where code and repository disagree

* **A logout leaves a copy in the cache** (`sessions_stalecopy`, `LogoutLeavesNoCopy`).
  `CacheAccessTokenRepository.delete` drops the entry, awaits, and deletes the row. A guard that misses in
  between reads the row and caches it again, so the session is accepted for up to a minute more, after the logout
  has been answered. The test in `cache-access-token.repository.spec.ts`
  says that the delete removes the token "from cache and repository".
  `RevocationTakesEffect` says that this ends. Deleting the row first would not close the gap altogether: a fill may
  still be under way, and other processes keep their copies in any case.
* **A decided invitation changes its status** (`membership_decide`, `DecisionIsFinal`). The use case checks that an
  invitation is pending when it reads it; the updates ask for the id only. An accept and a reject that overlap both
  succeed, and the last one decides the status: an employee with a rejected invitation, for instance. The tests of
  `profile-invitations.usecase.spec.ts` say that both
  "should throw HttpException if invitation is not pending".

## 7. Behaviour of the code worth knowing

The model has all of these. No text of the repository says what should happen instead, so nothing is reported as a
disagreement:

* A refresh that loses a race, or stops before its answer, leaves a session row behind that no client knows and
  nothing deletes.
* A refresh whose answer is lost leaves the client with revoked tokens only: it has to log in again.
* An update of an enterprise never writes the name: the use case assigns it to the row it read before it works out
  the differences. An update that keeps the slug ends in an error, as `sanitizeSlug` is called with `undefined`.
* Deleting an enterprise always ends in an error (`EnterprisesLast`).
* When the mailer throws, the invitation stays, and inviting again returns it without a mail.
* One user can have two invitations to one enterprise when two requests overlap, and two employee rows when both are accepted
  at once.
* The verification of an email accepts any JWT that is signed with the shared secret and has a subject, and verifies the user whose id
  the subject starts with (`jwt-verify.strategy.ts`, `parseInt` in `verification-email.usecase.ts`). So `BeginVerify` may come for any user,
  and nothing is claimed about who was mailed.
* The name of a captcha template is unique over all enterprises (`prisma/schema.prisma:118`) and nothing looks it up before: a
  create or an update that asks for a name that is taken ends in an error and writes nothing.
* The validation lets a slug of blanks through without a look (`existsSlug`); the unique column decides.
* Overlapping requests lose increments of the mail counter and of the attempt counter, and a wrong
  answer that overlaps with a right one re-opens a solved captcha.
* A captcha row has no `expiresAt`, so no captcha ever expires.
* Deleting or updating a captcha template does not drop it from any cache. Until the entry ends, drawing from a
  deleted template is an error, and one that was made inactive is still drawn.
* A new session is cached for 60 ms (`cache-access-token.repository.ts:45`), one the guard has read for 60 * 1000.
* Two updates of a template, or of an enterprise, that overlap can leave fields of both.
* Updating an enterprise drops its entry in one process only, and none of the profiles that show it.

## 8. Plan

Done, in this order: `Sessions` with its abstract specification and proofs, as every route stands behind it;
`Membership`; `EmailVerification`; `Captcha`; `Profile`; `Enterprises`; `Slug`; the abstract `Members` and the mails of
invitations; the update of templates; the names of enterprises; `CaptchaImage`; the proofs of `Membership`, then those of `EmailVerification`, `Profile`, `Enterprises`,
`Captcha` and `CaptchaImage`; `CaptchaLife`; the refinements; `Slug` for texts of any length; what the abstract specifications promise by themselves
(`TakenForGood`, `Reached`); the update of templates (`TemplateUpdateIsWhole`); what stays once caches have settled;
what still holds where requests overlap (`OverlapBudget`, `OneRowUnlessRaced`).

Left:

* `Enterprises` with two processes in a run: three handlers are too many states, and the races within a process are the harder
  ones. `CachesAgree` covers any number of processes.
* A composition of `Membership` and `Profile` was dropped: an acceptance reaches the profile as a write followed by
  a drop, which is what `BeginChange` of `Profile` carries already, its error included.

### Not modelled

* The formats of fields, JWT signatures and expiry of tokens, argon2: decided within one step, and data.
  A token that has expired is refused like one that was never issued.
* Presenting a JWT to the session endpoints that was issued for something else: `Sessions` has the JWTs of sessions only. (For the
  verification of an email see 7.)
* The lists and single reads of enterprises, employees, invitations and templates: they read rows and change none.
* The look-up of a template by private key, which nothing calls and which only reads; `applySkew`, which is not called.
* Colours, fonts and shapes of a captcha: what the model says of decoys and letters is where they start and which
  lies on top. Whether a person can read the picture is not a matter of the code alone. Mail templates, containers, and the wiring of the application.
