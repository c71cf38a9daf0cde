------------------------- MODULE EnterprisesProofs -------------------------
(***************************************************************************)
(* Proofs about Enterprises for any number of enterprises, slugs, handlers *)
(* and processes.                                                          *)
(*                                                                         *)
(* Handlers write and cache a row some awaits after they have read it.  The*)
(* inductive invariant is TypeInv /\ Safety: an update that nobody has     *)
(* overtaken still holds the row it is about to change (NotOvertaken), and *)
(* a fill that no write has passed by holds the row of the database        *)
(* (NotPassedBy).  What makes a row stay is that a handler holds only an   *)
(* enterprise that has one, while a create takes one that has none.        *)
(***************************************************************************)
EXTENDS Enterprises, TLAPS

(* What a handler carries at each await. *)
Carries(r) == LET h == req[r] IN
  /\ h.pc \notin {"idle", "create"} => h.ent \in Enterprise /\ rows[h.ent] # NoRow
  /\ h.pc \in {"create", "find", "write"} => h.dto \in Dto
  /\ h.pc \in {"write", "gateFill"} => h.seen \in Row

TypeInv == TypeOK /\ \A r \in Request : Carries(r)

(* An update that nobody has overtaken has seen the row as it is, with the *)
(* name assigned to it, and has a reason to write it; and only updates     *)
(* that are under way are overtaken.                                       *)
NotOvertaken(r) == LET h == req[r] IN
  /\ h.pc = "write" /\ r \notin overtaken =>
       h.seen = Found(rows[h.ent], h.dto) /\ SlugChanged(rows[h.ent], h.dto)
  /\ r \in overtaken => h.pc \in {"write", "drop"}

(* A fill that no write has passed by is about to cache the row as it is. *)
NotPassedBy(r) == LET h == req[r] IN
  h.pc = "gateFill" /\ <<NodeOf[r], h.ent>> \notin passedBy => h.seen = rows[h.ent]

Safety ==
  /\ \A r \in Request : NotOvertaken(r) /\ NotPassedBy(r)
  /\ SlugsUnique
  /\ CacheAgrees

-----------------------------------------------------------------------------
(* Writing one entry of one process. *)
LEMMA Writes ==
  ASSUME NEW S, NEW f \in [Node -> [Enterprise -> S]],
         NEW n \in Node, NEW e \in Enterprise, NEW v \in S
  PROVE  LET g == [f EXCEPT ![n][e] = v] IN
         /\ g \in [Node -> [Enterprise -> S]]
         /\ g[n][e] = v
         /\ \A m \in Node, x \in Enterprise : m # n \/ x # e => g[m][x] = f[m][x]
OBVIOUS

(* What becomes of the handlers when that of a slot is replaced. *)
LEMMA Moves ==
  ASSUME TypeInv, NEW r \in Request, NEW h \in Handler, req' = [req EXCEPT ![r] = h]
  PROVE  /\ req' \in [Request -> Handler] /\ req'[r] = h
         /\ \A q \in Request \ {r} : req'[q] = req[q]
BY DEF TypeInv, TypeOK

(* Nothing exists in the initial state. *)
LEMMA InvInit == Init => TypeInv /\ Safety
<1> SUFFICES ASSUME Init PROVE TypeInv /\ Safety
  OBVIOUS
<1>1. TypeInv
  BY DEF Init, TypeInv, TypeOK, Carries, Idle, Handler, Pc
<1>2. Safety
  BY DEF Init, Safety, NotOvertaken, NotPassedBy, SlugsUnique, CacheAgrees, Idle
<1> QED
  BY <1>1, <1>2

(* A handler begins. *)
LEMMA Begins ==
  ASSUME TypeInv, NEW r \in Request, NEW pc \in Pc, NEW e \in Enterprise \cup {NoEnterprise},
         NEW d \in Dto \cup {NoRow}, Begin(r, pc, e, d)
  PROVE  /\ req' \in [Request -> Handler] /\ req[r].pc = "idle"
         /\ req'[r].pc = pc /\ req'[r].ent = e /\ req'[r].dto = d
         /\ \A q \in Request \ {r} : req'[q] = req[q]
<1>1. [pc |-> pc, ent |-> e, dto |-> d, seen |-> NoRow] \in Handler
  BY DEF Handler
<1> QED
  BY <1>1, Moves DEF Begin

(* A handler goes on with a row it has read. *)
LEMMA Reads ==
  ASSUME TypeInv, NEW r \in Request, NEW pc \in Pc, NEW row \in Row, Read(r, pc, row)
  PROVE  /\ req' \in [Request -> Handler] /\ req'[r].pc = pc /\ req'[r].ent = req[r].ent
         /\ req'[r].dto = req[r].dto /\ req'[r].seen = row
         /\ \A q \in Request \ {r} : req'[q] = req[q]
<1>1. [pc |-> pc, ent |-> req[r].ent, dto |-> req[r].dto, seen |-> row] \in Handler
  BY DEF Handler, TypeInv, TypeOK
<1> QED
  BY <1>1, Moves DEF Read

(* A handler ends. *)
LEMMA Ends ==
  ASSUME TypeInv, NEW r \in Request, End(r)
  PROVE  /\ req' \in [Request -> Handler] /\ req'[r].pc = "idle"
         /\ \A q \in Request \ {r} : req'[q] = req[q]
         /\ overtaken' = overtaken \ {r}
<1>1. Idle \in Handler
  BY DEF Idle, Handler, Pc
<1> QED
  BY <1>1, Moves DEF End, Idle

(* A handler begins with no row read; one that has an enterprise has found *)
(* its row.                                                                *)
LEMMA BeginInv ==
  ASSUME TypeInv, Safety, NEW r \in Request,
         \/ \E d \in Dto : BeginCreate(r, d) \/ \E e \in Enterprise : BeginUpdate(r, e, d)
         \/ \E e \in Enterprise : BeginGate(r, e)
  PROVE  TypeInv' /\ Safety'
<1>1. UNCHANGED <<rows, cache, overtaken, passedBy>>
  BY DEF BeginCreate, BeginUpdate, BeginGate
<1>2. /\ req' \in [Request -> Handler] /\ req[r].pc = "idle"
      /\ \/ req'[r].pc = "create" /\ req'[r].dto \in Dto
         \/ /\ req'[r].pc = "find" /\ req'[r].dto \in Dto
            /\ req'[r].ent \in Enterprise /\ rows[req'[r].ent] # NoRow
         \/ /\ req'[r].pc = "gateRead"
            /\ req'[r].ent \in Enterprise /\ rows[req'[r].ent] # NoRow
      /\ \A q \in Request \ {r} : req'[q] = req[q]
  <2>1. CASE \E d \in Dto : BeginCreate(r, d)
    BY <2>1, Begins DEF BeginCreate, Pc
  <2>2. CASE \E d \in Dto, e \in Enterprise : BeginUpdate(r, e, d)
    BY <2>2, Begins DEF BeginUpdate, Pc
  <2>3. CASE \E e \in Enterprise : BeginGate(r, e)
    BY <2>3, Begins DEF BeginGate, Pc
  <2> QED
    BY <2>1, <2>2, <2>3
<1>3. TypeInv'
  BY <1>1, <1>2 DEF TypeInv, TypeOK, Carries
<1>4. \A q \in Request : NotOvertaken(q)' /\ NotPassedBy(q)'
  BY <1>1, <1>2 DEF Safety, NotOvertaken, NotPassedBy
<1>5. SlugsUnique' /\ CacheAgrees'
  BY <1>1, <1>2 DEF Safety, SlugsUnique, CacheAgrees, Taken, HasSlug
<1> QED
  BY <1>3, <1>4, <1>5 DEF Safety

(* A row that is inserted has a slug of its own, and no handler or cache   *)
(* has one of its enterprise from before.                                  *)
LEMMA CreateEnterpriseInv ==
  ASSUME TypeInv, Safety, NEW r \in Request, CreateEnterprise(r)
  PROVE  TypeInv' /\ Safety'
<1> DEFINE d == req[r].dto
<1>1. UNCHANGED <<cache, passedBy>> /\ req[r].pc = "create" /\ d \in Dto
  BY DEF CreateEnterprise, TypeInv, Carries
<1>2. /\ req' \in [Request -> Handler] /\ req'[r].pc = "idle"
      /\ \A q \in Request \ {r} : req'[q] = req[q]
      /\ overtaken' = overtaken \ {r}
  BY Ends DEF CreateEnterprise
<1>3. CASE UNCHANGED rows
  <2>1. TypeInv'
    BY <1>1, <1>2, <1>3 DEF TypeInv, TypeOK, Carries
  <2>2. \A q \in Request : NotOvertaken(q)' /\ NotPassedBy(q)'
    BY <1>1, <1>2, <1>3 DEF Safety, NotOvertaken, NotPassedBy
  <2>3. SlugsUnique' /\ CacheAgrees'
    BY <1>1, <1>2, <1>3 DEF Safety, SlugsUnique, CacheAgrees, Taken, HasSlug
  <2> QED
    BY <2>1, <2>2, <2>3 DEF Safety
<1>4. CASE ~(UNCHANGED rows)
  <2>1. PICK e \in Enterprise : rows[e] = NoRow /\ rows' = [rows EXCEPT ![e] = NewRow(d)]
    BY <1>4 DEF CreateEnterprise
  <2>2. NewRow(d) \in Row /\ NewRow(d).slug = d.slug /\ NewRow(d) # NoRow
    BY <1>1, NoneAssumption DEF NewRow, Row, Dto
  <2>3. /\ rows' \in [Enterprise -> Row \cup {NoRow}] /\ rows'[e] = NewRow(d)
        /\ \A x \in Enterprise \ {e} : rows'[x] = rows[x]
    BY <2>1, <2>2 DEF TypeInv, TypeOK
  <2>4. \A q \in Request : req[q].pc \notin {"idle", "create"} => req[q].ent \in Enterprise \ {e}
    BY <2>1 DEF TypeInv, Carries
  <2>5. TypeInv'
    BY <1>1, <1>2, <2>3, <2>4 DEF TypeInv, TypeOK, Carries
  <2>6. \A q \in Request : NotOvertaken(q)' /\ NotPassedBy(q)'
    BY <1>1, <1>2, <2>3, <2>4 DEF Safety, NotOvertaken, NotPassedBy
  <2>7. SlugsUnique'
    <3>1. \A x \in Enterprise : ~HasSlug(x, d.slug)
      BY <1>4, NoneAssumption DEF CreateEnterprise, Taken
    <3> QED
      BY <2>2, <2>3, <3>1 DEF Safety, SlugsUnique, Taken, HasSlug
  <2>8. CacheAgrees'
    <3> SUFFICES ASSUME NEW n \in Node, NEW x \in Enterprise, <<n, x>> \notin passedBy,
                        \A q \in Request : ~(NodeOf[q] = n /\ req'[q].pc = "drop" /\ req'[q].ent = x)
                 PROVE  cache[n][x] \in {NoRow, rows'[x]}
      BY <1>1 DEF CacheAgrees
    <3>1. \A q \in Request : ~(NodeOf[q] = n /\ req[q].pc = "drop" /\ req[q].ent = x)
      BY <1>1, <1>2
    <3>2. cache[n][x] \in {NoRow, rows[x]}
      BY <3>1 DEF Safety, CacheAgrees
    <3> QED
      BY <3>2, <2>1, <2>3
  <2> QED
    BY <2>5, <2>6, <2>7, <2>8 DEF Safety
<1> QED
  BY <1>3, <1>4

(* The update reads the row, and goes on when the slug is another one.     *)
LEMMA FindEnterpriseInv ==
  ASSUME TypeInv, Safety, NEW r \in Request, FindEnterprise(r)
  PROVE  TypeInv' /\ Safety'
<1> DEFINE e == req[r].ent
           d == req[r].dto
<1>1. /\ UNCHANGED <<rows, cache, passedBy>> /\ req[r].pc = "find"
      /\ e \in Enterprise /\ rows[e] \in Row /\ d \in Dto
  BY DEF FindEnterprise, TypeInv, TypeOK, Carries
<1>2. Found(rows[e], d) \in Row
  BY <1>1 DEF Found, Row, Dto
<1>3. /\ req' \in [Request -> Handler] /\ \A q \in Request \ {r} : req'[q] = req[q]
      /\ \/ req'[r].pc = "idle" /\ overtaken' = overtaken \ {r}
         \/ /\ req'[r].pc = "write" /\ req'[r].ent = e /\ req'[r].dto = d
            /\ req'[r].seen = Found(rows[e], d) /\ SlugChanged(rows[e], d)
            /\ overtaken' = overtaken
  <2>1. CASE SlugChanged(rows[e], d)
    BY <2>1, <1>2, Reads DEF FindEnterprise, Pc
  <2>2. CASE ~SlugChanged(rows[e], d)
    BY <2>2, Ends DEF FindEnterprise
  <2> QED
    BY <2>1, <2>2
<1>4. TypeInv'
  BY <1>1, <1>2, <1>3 DEF TypeInv, TypeOK, Carries
<1>5. \A q \in Request : NotOvertaken(q)' /\ NotPassedBy(q)'
  BY <1>1, <1>3 DEF Safety, NotOvertaken, NotPassedBy
<1>6. SlugsUnique'
  BY <1>1 DEF Safety, SlugsUnique, Taken, HasSlug
<1>7. CacheAgrees'
  BY <1>1, <1>3 DEF Safety, CacheAgrees
<1> QED
  BY <1>4, <1>5, <1>6, <1>7 DEF Safety

(* The update writes a slug that nobody else has; whoever holds the row    *)
(* from before is overtaken or passed by.                                  *)
LEMMA WriteEnterpriseInv ==
  ASSUME TypeInv, Safety, NEW r \in Request, WriteEnterprise(r)
  PROVE  TypeInv' /\ Safety'
<1> DEFINE e == req[r].ent
           d == req[r].dto
<1>1. /\ UNCHANGED cache /\ req[r].pc = "write" /\ e \in Enterprise
      /\ rows[e] \in Row /\ d \in Dto /\ req[r].seen \in Row /\ NodeOf[r] \in Node
  BY NodeOfAssumption DEF WriteEnterprise, TypeInv, TypeOK, Carries
<1>2. CASE Taken(d.slug, e)
  <2>1. /\ req' \in [Request -> Handler] /\ req'[r].pc = "idle"
        /\ \A q \in Request \ {r} : req'[q] = req[q]
        /\ overtaken' = overtaken \ {r} /\ UNCHANGED <<rows, passedBy>>
    BY <1>2, Ends DEF WriteEnterprise
  <2>2. TypeInv'
    BY <1>1, <2>1 DEF TypeInv, TypeOK, Carries
  <2>3. \A q \in Request : NotOvertaken(q)' /\ NotPassedBy(q)'
    BY <2>1 DEF Safety, NotOvertaken, NotPassedBy
  <2>4. SlugsUnique'
    BY <2>1 DEF Safety, SlugsUnique, Taken, HasSlug
  <2>5. CacheAgrees'
    BY <1>1, <2>1 DEF Safety, CacheAgrees
  <2> QED
    BY <2>2, <2>3, <2>4, <2>5 DEF Safety
<1>3. CASE ~Taken(d.slug, e)
  <2> DEFINE row == Updated(rows[e], req[r].seen, d)
  <2>1. row \in Row /\ row.slug = d.slug /\ row # NoRow
    BY <1>1, NoneAssumption DEF Updated, Row, Dto
  <2>2. /\ rows' \in [Enterprise -> Row \cup {NoRow}] /\ rows'[e] = row
        /\ \A x \in Enterprise \ {e} : rows'[x] = rows[x]
    BY <1>1, <1>3, <2>1 DEF WriteEnterprise, TypeInv, TypeOK
  <2>3. /\ req' \in [Request -> Handler]
        /\ req'[r].pc = "drop" /\ req'[r].ent = e /\ req'[r].dto = d
        /\ \A q \in Request \ {r} : req'[q] = req[q]
    BY <1>3 DEF WriteEnterprise, TypeInv, TypeOK, Handler, Pc
  <2>4. Notice(r, e)
    BY <1>3 DEF WriteEnterprise
  <2>5. TypeInv'
    <3>1. overtaken' \subseteq Request /\ passedBy' \subseteq Node \X Enterprise
      BY <1>1, <2>4 DEF Notice, TypeInv, TypeOK
    <3>2. \A q \in Request : Carries(q)'
      BY <1>1, <2>1, <2>2, <2>3 DEF TypeInv, Carries
    <3> QED
      BY <1>1, <2>2, <2>3, <3>1, <3>2 DEF TypeInv, TypeOK
  <2>6. ASSUME NEW q \in Request
        PROVE  NotOvertaken(q)'
    <3>1. CASE q = r
      BY <3>1, <2>3 DEF NotOvertaken
    <3>2. CASE q # r
      <4>1. req'[q] = req[q]
        BY <3>2, <2>3
      <4>2. q \in overtaken' <=> q \in overtaken \/ (req[q].pc = "write" /\ req[q].ent = e)
        BY <3>2, <2>4 DEF Notice
      <4>3. req[q].pc = "write" => req[q].ent \in Enterprise
        BY DEF TypeInv, Carries
      <4> QED
        BY <2>2, <4>1, <4>2, <4>3 DEF Safety, NotOvertaken
    <3> QED
      BY <3>1, <3>2
  <2>7. ASSUME NEW q \in Request
        PROVE  NotPassedBy(q)'
    <3>1. CASE q = r
      BY <3>1, <2>3 DEF NotPassedBy
    <3>2. CASE q # r
      <4>1. req'[q] = req[q] /\ NodeOf[q] \in Node
        BY <3>2, <2>3, NodeOfAssumption
      <4>2. passedBy \subseteq passedBy'
        BY <2>4 DEF Notice
      <4>3. req[q].pc = "gateFill" /\ req[q].ent = e => <<NodeOf[q], e>> \in passedBy'
        BY <2>4, <4>1 DEF Notice
      <4>4. req[q].pc = "gateFill" => req[q].ent \in Enterprise
        BY DEF TypeInv, Carries
      <4> QED
        BY <2>2, <4>1, <4>2, <4>3, <4>4 DEF Safety, NotPassedBy
    <3> QED
      BY <3>1, <3>2
  <2>8. SlugsUnique'
    BY <1>1, <1>3, <2>1, <2>2 DEF Safety, SlugsUnique, Taken, HasSlug
  <2>9. CacheAgrees'
    <3> SUFFICES ASSUME NEW n \in Node, NEW x \in Enterprise, <<n, x>> \notin passedBy',
                        \A q \in Request : ~(NodeOf[q] = n /\ req'[q].pc = "drop" /\ req'[q].ent = x)
                 PROVE  cache[n][x] \in {NoRow, rows'[x]}
      BY <1>1 DEF CacheAgrees
    <3>1. <<n, x>> \notin passedBy /\ x # e
      BY <2>3, <2>4 DEF Notice
    <3>2. \A q \in Request : ~(NodeOf[q] = n /\ req[q].pc = "drop" /\ req[q].ent = x)
      BY <1>1, <2>3
    <3>3. cache[n][x] \in {NoRow, rows[x]}
      BY <3>1, <3>2 DEF Safety, CacheAgrees
    <3> QED
      BY <2>2, <3>1, <3>3
  <2> QED
    BY <2>5, <2>6, <2>7, <2>8, <2>9 DEF Safety
<1> QED
  BY <1>2, <1>3

(* The end of an update empties the entry of its process. *)
LEMMA DropCacheInv ==
  ASSUME TypeInv, Safety, NEW r \in Request, DropCache(r)
  PROVE  TypeInv' /\ Safety'
<1> DEFINE n == NodeOf[r]
           e == req[r].ent
<1>1. /\ UNCHANGED <<rows, passedBy>> /\ req[r].pc = "drop" /\ n \in Node /\ e \in Enterprise
  BY NodeOfAssumption DEF DropCache, TypeInv, Carries
<1>2. /\ req' \in [Request -> Handler] /\ req'[r].pc = "idle"
      /\ \A q \in Request \ {r} : req'[q] = req[q]
      /\ overtaken' = overtaken \ {r}
  BY Ends DEF DropCache
<1>3. /\ cache' \in [Node -> [Enterprise -> Row \cup {NoRow}]] /\ cache'[n][e] = NoRow
      /\ \A m \in Node, x \in Enterprise : m # n \/ x # e => cache'[m][x] = cache[m][x]
  <2>1. /\ cache \in [Node -> [Enterprise -> Row \cup {NoRow}]]
        /\ cache' = [cache EXCEPT ![n][e] = NoRow] /\ NoRow \in Row \cup {NoRow}
    BY DEF DropCache, TypeInv, TypeOK
  <2> QED
    BY <1>1, <2>1, Writes
<1>4. TypeInv'
  BY <1>1, <1>2, <1>3 DEF TypeInv, TypeOK, Carries
<1>5. \A q \in Request : NotOvertaken(q)' /\ NotPassedBy(q)'
  BY <1>1, <1>2 DEF Safety, NotOvertaken, NotPassedBy
<1>6. SlugsUnique'
  BY <1>1 DEF Safety, SlugsUnique, Taken, HasSlug
<1>7. CacheAgrees'
  BY <1>1, <1>2, <1>3 DEF Safety, CacheAgrees
<1> QED
  BY <1>4, <1>5, <1>6, <1>7 DEF Safety

(* The interceptor reads the row of the database. *)
LEMMA GateReadInv ==
  ASSUME TypeInv, Safety, NEW r \in Request, GateRead(r)
  PROVE  TypeInv' /\ Safety'
<1> DEFINE e == req[r].ent
<1>1. /\ UNCHANGED <<rows, cache, overtaken, passedBy>> /\ req[r].pc = "gateRead"
      /\ e \in Enterprise /\ rows[e] \in Row
  BY DEF GateRead, TypeInv, TypeOK, Carries
<1>2. /\ req' \in [Request -> Handler] /\ req'[r].pc = "gateFill"
      /\ req'[r].ent = e /\ req'[r].seen = rows[e]
      /\ \A q \in Request \ {r} : req'[q] = req[q]
  BY <1>1, Reads DEF GateRead, Pc
<1>3. TypeInv'
  BY <1>1, <1>2, NoneAssumption DEF TypeInv, TypeOK, Carries
<1>4. \A q \in Request : NotOvertaken(q)' /\ NotPassedBy(q)'
  BY <1>1, <1>2 DEF Safety, NotOvertaken, NotPassedBy
<1>5. SlugsUnique'
  BY <1>1 DEF Safety, SlugsUnique, Taken, HasSlug
<1>6. CacheAgrees'
  BY <1>1, <1>2 DEF Safety, CacheAgrees
<1> QED
  BY <1>3, <1>4, <1>5, <1>6 DEF Safety

(* The interceptor caches the row it has read, which is still that of the  *)
(* database unless a write has passed by.                                  *)
LEMMA GateFillInv ==
  ASSUME TypeInv, Safety, NEW r \in Request, GateFill(r)
  PROVE  TypeInv' /\ Safety'
<1> DEFINE n == NodeOf[r]
           e == req[r].ent
<1>1. /\ UNCHANGED <<rows, passedBy>> /\ req[r].pc = "gateFill"
      /\ n \in Node /\ e \in Enterprise /\ req[r].seen \in Row
      /\ <<n, e>> \notin passedBy => req[r].seen = rows[e]
  BY NodeOfAssumption DEF GateFill, TypeInv, Carries, Safety, NotPassedBy
<1>2. /\ req' \in [Request -> Handler] /\ req'[r].pc = "idle"
      /\ \A q \in Request \ {r} : req'[q] = req[q]
      /\ overtaken' = overtaken \ {r}
  BY Ends DEF GateFill
<1>3. /\ cache' \in [Node -> [Enterprise -> Row \cup {NoRow}]] /\ cache'[n][e] = req[r].seen
      /\ \A m \in Node, x \in Enterprise : m # n \/ x # e => cache'[m][x] = cache[m][x]
  <2>1. /\ cache \in [Node -> [Enterprise -> Row \cup {NoRow}]]
        /\ cache' = [cache EXCEPT ![n][e] = req[r].seen] /\ req[r].seen \in Row \cup {NoRow}
    BY <1>1 DEF GateFill, TypeInv, TypeOK
  <2> QED
    BY <1>1, <2>1, Writes
<1>4. TypeInv'
  BY <1>1, <1>2, <1>3 DEF TypeInv, TypeOK, Carries
<1>5. \A q \in Request : NotOvertaken(q)' /\ NotPassedBy(q)'
  BY <1>1, <1>2 DEF Safety, NotOvertaken, NotPassedBy
<1>6. SlugsUnique'
  BY <1>1 DEF Safety, SlugsUnique, Taken, HasSlug
<1>7. CacheAgrees'
  <2> SUFFICES ASSUME NEW m \in Node, NEW x \in Enterprise, <<m, x>> \notin passedBy,
                      \A q \in Request : ~(NodeOf[q] = m /\ req'[q].pc = "drop" /\ req'[q].ent = x)
               PROVE  cache'[m][x] \in {NoRow, rows[x]}
    BY <1>1 DEF CacheAgrees
  <2>1. \A q \in Request : ~(NodeOf[q] = m /\ req[q].pc = "drop" /\ req[q].ent = x)
    BY <1>1, <1>2
  <2>2. cache[m][x] \in {NoRow, rows[x]}
    BY <2>1 DEF Safety, CacheAgrees
  <2> QED
    BY <1>1, <1>3, <2>2
<1> QED
  BY <1>4, <1>5, <1>6, <1>7 DEF Safety

(* An entry that is gone agrees with everything. *)
LEMMA ExpireInv ==
  ASSUME TypeInv, Safety, NEW n \in Node, NEW e \in Enterprise, Expire(n, e)
  PROVE  TypeInv' /\ Safety'
<1>1. UNCHANGED <<rows, req, overtaken, passedBy>>
  BY DEF Expire
<1>2. /\ cache' \in [Node -> [Enterprise -> Row \cup {NoRow}]] /\ cache'[n][e] = NoRow
      /\ \A m \in Node, x \in Enterprise : m # n \/ x # e => cache'[m][x] = cache[m][x]
  <2>1. /\ cache \in [Node -> [Enterprise -> Row \cup {NoRow}]]
        /\ cache' = [cache EXCEPT ![n][e] = NoRow] /\ NoRow \in Row \cup {NoRow}
    BY DEF Expire, TypeInv, TypeOK
  <2> QED
    BY <2>1, Writes
<1>3. TypeInv'
  BY <1>1, <1>2 DEF TypeInv, TypeOK, Carries
<1>4. \A q \in Request : NotOvertaken(q)' /\ NotPassedBy(q)'
  BY <1>1 DEF Safety, NotOvertaken, NotPassedBy
<1>5. SlugsUnique'
  BY <1>1 DEF Safety, SlugsUnique, Taken, HasSlug
<1>6. CacheAgrees'
  BY <1>1, <1>2 DEF Safety, CacheAgrees
<1> QED
  BY <1>3, <1>4, <1>5, <1>6 DEF Safety

(* A process that starts again has no entry and no handler. *)
LEMMA CrashInv ==
  ASSUME TypeInv, Safety, NEW n \in Node, Crash(n)
  PROVE  TypeInv' /\ Safety'
<1>1. UNCHANGED <<rows, passedBy>> /\ overtaken' = {r \in overtaken : NodeOf[r] # n}
  BY DEF Crash
<1>2. /\ cache' \in [Node -> [Enterprise -> Row \cup {NoRow}]]
      /\ \A e \in Enterprise : cache'[n][e] = NoRow
      /\ \A m \in Node : m # n => cache'[m] = cache[m]
  BY DEF Crash, TypeInv, TypeOK
<1>3. req' \in [Request -> Handler]
  BY DEF Crash, TypeInv, TypeOK, Idle, Handler, Pc
<1>4. \A r \in Request : IF NodeOf[r] = n THEN req'[r].pc = "idle" ELSE req'[r] = req[r]
  BY DEF Crash, Idle
<1>5. TypeInv'
  BY <1>1, <1>2, <1>3, <1>4 DEF TypeInv, TypeOK, Carries
<1>6. \A q \in Request : NotOvertaken(q)' /\ NotPassedBy(q)'
  BY <1>1, <1>4 DEF Safety, NotOvertaken, NotPassedBy
<1>7. SlugsUnique'
  BY <1>1 DEF Safety, SlugsUnique, Taken, HasSlug
<1>8. CacheAgrees'
  <2> SUFFICES ASSUME NEW m \in Node, NEW x \in Enterprise, <<m, x>> \notin passedBy,
                      \A q \in Request : ~(NodeOf[q] = m /\ req'[q].pc = "drop" /\ req'[q].ent = x)
               PROVE  cache'[m][x] \in {NoRow, rows[x]}
    BY <1>1 DEF CacheAgrees
  <2>1. CASE m = n
    BY <2>1, <1>2
  <2>2. CASE m # n
    BY <2>2, <1>2, <1>4 DEF Safety, CacheAgrees
  <2> QED
    BY <2>1, <2>2
<1> QED
  BY <1>5, <1>6, <1>7, <1>8 DEF Safety

(* Every step keeps the invariant. *)
LEMMA InvNext ==
  ASSUME TypeInv, Safety, [Next]_vars
  PROVE  TypeInv' /\ Safety'
<1>1. CASE UNCHANGED vars
  <2>1. UNCHANGED <<rows, cache, req, overtaken, passedBy>>
    BY <1>1 DEF vars
  <2>2. TypeInv'
    BY <2>1 DEF TypeInv, TypeOK, Carries
  <2>3. \A q \in Request : NotOvertaken(q)' /\ NotPassedBy(q)'
    BY <2>1 DEF Safety, NotOvertaken, NotPassedBy
  <2>4. SlugsUnique'
    BY <2>1 DEF Safety, SlugsUnique, Taken, HasSlug
  <2>5. CacheAgrees'
    BY <2>1 DEF Safety, CacheAgrees
  <2> QED
    BY <2>2, <2>3, <2>4, <2>5 DEF Safety
<1>2. CASE Next
  BY <1>2, BeginInv, CreateEnterpriseInv, FindEnterpriseInv, WriteEnterpriseInv, DropCacheInv,
     GateReadInv, GateFillInv, ExpireInv, CrashInv DEF Next
<1> QED
  BY <1>1, <1>2

(* Only WriteEnterprise takes a handler from "write" to "drop", and what it*)
(* writes is what was asked for when the row it has seen is still there.   *)
LEMMA WholeNext ==
  ASSUME TypeInv, Safety, [Next]_vars, NEW r \in Request \ overtaken,
         req[r].pc = "write", req'[r].pc = "drop"
  PROVE  LET e == req[r].ent
             d == req[r].dto
         IN /\ rows'[e] = [NewRow(d) EXCEPT !.name = rows[e].name]
            /\ d.raw \/ rows'[e].slug # rows[e].slug
<1> DEFINE e == req[r].ent
           d == req[r].dto
<1>1. e \in Enterprise /\ rows[e] \in Row /\ d \in Dto
  BY DEF TypeInv, TypeOK, Carries
<1>2. WriteEnterprise(r)
  <2>1. ~(UNCHANGED vars)
    BY DEF vars
  <2>2. ASSUME NEW q \in Request, NEW h, req' = [req EXCEPT ![q] = h], h.pc # "drop"
        PROVE  FALSE
    BY <2>2 DEF TypeInv, TypeOK
  <2>3. ASSUME NEW q \in Request, End(q)
        PROVE  FALSE
    BY <2>3, <2>2 DEF End, Idle
  <2>4. ASSUME NEW q \in Request, NEW pc \in Pc \ {"drop"},
               (\E x, y : Begin(q, pc, x, y)) \/ (\E row : Read(q, pc, row))
        PROVE  FALSE
    BY <2>4, <2>2 DEF Begin, Read
  <2>5. \A q \in Request :
          /\ ~\E y \in Dto : BeginCreate(q, y) \/ \E x \in Enterprise : BeginUpdate(q, x, y)
          /\ ~\E x \in Enterprise : BeginGate(q, x)
          /\ ~CreateEnterprise(q) /\ ~FindEnterprise(q) /\ ~DropCache(q)
          /\ ~GateRead(q) /\ ~GateFill(q)
    BY <2>3, <2>4 DEF BeginCreate, BeginUpdate, BeginGate, CreateEnterprise, FindEnterprise,
                      DropCache, GateRead, GateFill, Pc
  <2>6. \A q \in Request \ {r} : ~WriteEnterprise(q)
    BY <2>3 DEF WriteEnterprise, TypeInv, TypeOK
  <2>7. \A n \in Node, x \in Enterprise : ~Expire(n, x)
    BY DEF Expire
  <2>8. \A n \in Node : ~Crash(n)
    BY DEF Crash, Idle
  <2> QED
    BY <2>1, <2>5, <2>6, <2>7, <2>8 DEF Next
<1>3. req[r].seen = Found(rows[e], d) /\ SlugChanged(rows[e], d)
  BY DEF Safety, NotOvertaken
<1>4. ~Taken(d.slug, e)
  BY <1>2, Ends DEF WriteEnterprise
<1>5. rows'[e] = Updated(rows[e], req[r].seen, d)
  BY <1>1, <1>2, <1>4 DEF WriteEnterprise, TypeInv, TypeOK
<1>6. /\ req[r].seen.name = d.name
      /\ req[r].seen.description = rows[e].description
  BY <1>1, <1>3 DEF Found, Row
<1>7. rows'[e] = [name |-> rows[e].name, slug |-> d.slug, description |-> d.description]
  BY <1>1, <1>5, <1>6 DEF Updated, Row
<1>8. [NewRow(d) EXCEPT !.name = rows[e].name] =
        [name |-> rows[e].name, slug |-> d.slug, description |-> d.description]
  BY DEF NewRow
<1> QED
  BY <1>3, <1>7, <1>8 DEF SlugChanged

-----------------------------------------------------------------------------
(* The invariant holds in every state of every behaviour. *)
THEOREM EnterpriseInvariant == Spec => [](TypeInv /\ Safety)
BY InvInit, InvNext, PTL DEF Spec

(* The state always has the type TypeOK. *)
THEOREM EnterpriseTypes == Spec => []TypeOK
<1>1. TypeInv => TypeOK
  BY DEF TypeInv
<1> QED
  BY <1>1, EnterpriseInvariant, PTL

(* However creates and updates overlap, no two enterprises have one slug.  *)
THEOREM OneEnterprisePerSlug == Spec => []SlugsUnique
<1>1. Safety => SlugsUnique
  BY DEF Safety
<1> QED
  BY <1>1, EnterpriseInvariant, PTL

(* The interceptor's cache agrees with the database wherever no write has  *)
(* passed a node or its fill by, between an update and its drop excepted.  *)
THEOREM CachesAgree == Spec => []CacheAgrees
<1>1. Safety => CacheAgrees
  BY DEF Safety
<1> QED
  BY <1>1, EnterpriseInvariant, PTL

(* An update that nobody overtakes writes what it was asked to, but for    *)
(* the name, although it works out its changes from a row read before.     *)
THEOREM UpdatesAreWhole == Spec => UpdateIsWhole
<1> DEFINE Whole ==
      \A r \in Request \ overtaken :
        req[r].pc = "write" /\ req'[r].pc = "drop"
          => LET e == req[r].ent
                 d == req[r].dto
             IN /\ rows'[e] = [NewRow(d) EXCEPT !.name = rows[e].name]
                /\ d.raw \/ rows'[e].slug # rows[e].slug
<1>1. TypeInv /\ Safety /\ [Next]_vars => [Whole]_vars
  BY WholeNext
<1>2. UpdateIsWhole <=> [][Whole]_vars
  BY DEF UpdateIsWhole
<1> QED
  BY <1>1, <1>2, EnterpriseInvariant, PTL DEF Spec
=============================================================================
