---------------------------- MODULE Enterprises ----------------------------
(***************************************************************************)
(* The row of an enterprise: how it is created and updated, and the copies *)
(* of it EnterpriseInterceptor keeps in the cache of each process.         *)
(*                                                                         *)
(* Validation counts the rows with the slug, and the row is written some   *)
(* awaits later; the unique column decides.  A slug stands for its         *)
(* sanitized form (module Slug); raw says that it was typed in another     *)
(* form, as the empty slug always is: three characters are the least.      *)
(* Membership has the employees, and shows that no enterprise is deleted.  *)
(***************************************************************************)
CONSTANTS
  Enterprise, NoEnterprise,
  Name, SlugText, EmptySlug, Description, NoRow,
  Node, Request, NodeOf         \* NodeOf[r]: the process that serves slot r

Row == [name : Name, slug : SlugText, description : Description]
Dto == {d \in [name : Name, slug : SlugText, raw : BOOLEAN, description : Description] :
          d.slug = EmptySlug => d.raw}

ASSUME NoneAssumption == NoEnterprise \notin Enterprise /\ NoRow \notin Row \cup Dto
ASSUME EmptySlugAssumption == EmptySlug \in SlugText
ASSUME NodeOfAssumption == NodeOf \in [Request -> Node]

VARIABLES
  rows,       \* rows[e]: the row of enterprise e, or NoRow
  cache,      \* cache[n][e]: the row node n remembers, or NoRow
  req,        \* req[r]: the handler in slot r; see Handler
  overtaken,  \* history: the updates in flight whose row another one wrote
  passedBy    \* history: <<n, e>> when a write of e came from another node than
              \* n, or while n was between reading e and caching it

vars == <<rows, cache, req, overtaken, passedBy>>

Pc == {"idle", "create", "find", "write", "drop", "gateRead", "gateFill"}

(* dto is what was sent, seen the object that was read on the way. *)
Handler == [pc : Pc, ent : Enterprise \cup {NoEnterprise},
            dto : Dto \cup {NoRow}, seen : Row \cup {NoRow}]
Idle == [pc |-> "idle", ent |-> NoEnterprise, dto |-> NoRow, seen |-> NoRow]

TypeOK ==
  /\ rows \in [Enterprise -> Row \cup {NoRow}]
  /\ cache \in [Node -> [Enterprise -> Row \cup {NoRow}]]
  /\ req \in [Request -> Handler]
  /\ overtaken \subseteq Request
  /\ passedBy \subseteq Node \X Enterprise

Init ==
  /\ rows = [e \in Enterprise |-> NoRow]
  /\ cache = [n \in Node |-> [e \in Enterprise |-> NoRow]]
  /\ req = [r \in Request |-> Idle]
  /\ overtaken = {}
  /\ passedBy = {}

HasSlug(e, s) == rows[e] # NoRow /\ rows[e].slug = s
Taken(s, id) == \E e \in Enterprise \ {id} : HasSlug(e, s)

(* existsSlug of the validation finds nothing when the text is blank, as   *)
(* one that was typed for the empty slug may be.                           *)
existsSlug(d, id) == d.slug # EmptySlug /\ Taken(d.slug, id)

Begin(r, pc, e, d) ==
  /\ req[r].pc = "idle"
  /\ req' = [req EXCEPT ![r] = [pc |-> pc, ent |-> e, dto |-> d, seen |-> NoRow]]

Read(r, pc, row) ==
  req' = [req EXCEPT ![r] = [pc |-> pc, ent |-> req[r].ent, dto |-> req[r].dto, seen |-> row]]

End(r) == /\ req' = [req EXCEPT ![r] = Idle]
          /\ overtaken' = overtaken \ {r}

-----------------------------------------------------------------------------
(* POST enterprises: the validation has found the slug free. *)
BeginCreate(r, d) ==
  /\ ~existsSlug(d, NoEnterprise)
  /\ Begin(r, "create", NoEnterprise, d)
  /\ UNCHANGED <<rows, cache, overtaken, passedBy>>

NewRow(d) == [name |-> d.name, slug |-> d.slug, description |-> d.description]

(* A bug of CreateEnterprise: only the validation looks at the slug. *)
CreateEnterpriseAnyway(r) ==
  LET d == req[r].dto IN
  /\ req[r].pc = "create"
  /\ \E e \in Enterprise :
       /\ rows[e] = NoRow
       /\ rows' = [rows EXCEPT ![e] = NewRow(d)]
  /\ End(r)
  /\ UNCHANGED <<cache, passedBy>>

(* The insert throws when the slug was taken since. *)
CreateEnterprise(r) ==
  LET d == req[r].dto IN
  /\ req[r].pc = "create"
  /\ IF Taken(d.slug, NoEnterprise) THEN UNCHANGED rows
     ELSE \E e \in Enterprise :
            /\ rows[e] = NoRow
            /\ rows' = [rows EXCEPT ![e] = NewRow(d)]
  /\ End(r)
  /\ UNCHANGED <<cache, passedBy>>

(* PUT enterprises/:id: the validation leaves the enterprise itself out. *)
BeginUpdate(r, e, d) ==
  /\ rows[e] # NoRow
  /\ ~existsSlug(d, e)
  /\ Begin(r, "find", e, d)
  /\ UNCHANGED <<rows, cache, overtaken, passedBy>>

(* The slug as typed is compared with the stored one. *)
SlugChanged(row, d) == d.raw \/ d.slug # row.slug

(* The row, with the name that was sent assigned to it. *)
Found(row, d) == [row EXCEPT !.name = d.name]

(* The use case reads the row and works out the changes.  Without a change *)
(* of the slug sanitizeSlug is called with undefined and throws: a 500.    *)
FindEnterprise(r) ==
  /\ req[r].pc = "find"
  /\ IF SlugChanged(rows[req[r].ent], req[r].dto)
     THEN /\ Read(r, "write", Found(rows[req[r].ent], req[r].dto))
          /\ UNCHANGED overtaken
     ELSE End(r)
  /\ UNCHANGED <<rows, cache, passedBy>>

(* changes: what does not differ from seen is not written.  That goes for  *)
(* the name of every update, which was assigned to seen before.            *)
Updated(row, seen, d) ==
  [name |-> IF d.name # seen.name THEN d.name ELSE row.name,
   slug |-> d.slug,
   description |-> IF d.description # seen.description THEN d.description
                   ELSE row.description]

(* History: whom the write of e by slot r passes by. *)
Notice(r, e) ==
  /\ overtaken' = overtaken \cup
       {q \in Request \ {r} : req[q].pc = "write" /\ req[q].ent = e}
  /\ passedBy' = passedBy \cup {<<n, e>> : n \in
       {n \in Node : \/ n # NodeOf[r]
                     \/ \E q \in Request : /\ NodeOf[q] = n
                                            /\ req[q].pc = "gateFill"
                                            /\ req[q].ent = e}}

(* A bug of WriteEnterprise: the slug is written, and nothing else. *)
WriteEnterpriseSlug(r) ==
  LET e == req[r].ent
      d == req[r].dto
  IN
  /\ req[r].pc = "write"
  /\ IF Taken(d.slug, e) THEN End(r) /\ UNCHANGED <<rows, passedBy>>
     ELSE /\ rows' = [rows EXCEPT ![e].slug = d.slug]
          /\ req' = [req EXCEPT ![r].pc = "drop"]
          /\ Notice(r, e)
  /\ UNCHANGED cache

(* The update throws when another enterprise took the slug since. *)
WriteEnterprise(r) ==
  LET e == req[r].ent
      d == req[r].dto
  IN
  /\ req[r].pc = "write"
  /\ IF Taken(d.slug, e) THEN End(r) /\ UNCHANGED <<rows, passedBy>>
     ELSE /\ rows' = [rows EXCEPT ![e] = Updated(@, req[r].seen, d)]
          /\ req' = [req EXCEPT ![r].pc = "drop"]
          /\ Notice(r, e)
  /\ UNCHANGED cache

(* A bug of DropCache: the entry stays. *)
DropCacheMissing(r) ==
  /\ req[r].pc = "drop"
  /\ End(r)
  /\ UNCHANGED <<rows, cache, passedBy>>

(* The entry of this process is dropped. *)
DropCache(r) ==
  /\ req[r].pc = "drop"
  /\ cache' = [cache EXCEPT ![NodeOf[r]][req[r].ent] = NoRow]
  /\ End(r)
  /\ UNCHANGED <<rows, passedBy>>

-----------------------------------------------------------------------------
(* loadEnterpriseData of the interceptor misses; a hit goes on at once. *)
BeginGate(r, e) ==
  /\ rows[e] # NoRow
  /\ cache[NodeOf[r]][e] = NoRow
  /\ Begin(r, "gateRead", e, NoRow)
  /\ UNCHANGED <<rows, cache, overtaken, passedBy>>

GateRead(r) ==
  /\ req[r].pc = "gateRead"
  /\ Read(r, "gateFill", rows[req[r].ent])
  /\ UNCHANGED <<rows, cache, overtaken, passedBy>>

GateFill(r) ==
  /\ req[r].pc = "gateFill"
  /\ cache' = [cache EXCEPT ![NodeOf[r]][req[r].ent] = req[r].seen]
  /\ End(r)
  /\ UNCHANGED <<rows, passedBy>>

(* The minute of an entry passes (or the store evicts it). *)
Expire(n, e) ==
  /\ cache[n][e] # NoRow
  /\ cache' = [cache EXCEPT ![n][e] = NoRow]
  /\ UNCHANGED <<rows, req, overtaken, passedBy>>

Crash(n) ==
  /\ cache' = [cache EXCEPT ![n] = [e \in Enterprise |-> NoRow]]
  /\ req' = [r \in Request |-> IF NodeOf[r] = n THEN Idle ELSE req[r]]
  /\ overtaken' = {r \in overtaken : NodeOf[r] # n}
  /\ UNCHANGED <<rows, passedBy>>

Next ==
  \/ \E r \in Request :
       \/ \E d \in Dto : BeginCreate(r, d) \/ \E e \in Enterprise : BeginUpdate(r, e, d)
       \/ \E e \in Enterprise : BeginGate(r, e)
       \/ CreateEnterprise(r)
       \/ FindEnterprise(r) \/ WriteEnterprise(r) \/ DropCache(r)
       \/ GateRead(r) \/ GateFill(r)
  \/ \E n \in Node, e \in Enterprise : Expire(n, e)
  \/ \E n \in Node : Crash(n)

Spec == Init /\ [][Next]_vars
-----------------------------------------------------------------------------
(* Creates and updates that all found a slug free, or did not look for it, *)
(* leave it with one enterprise.                                           *)
SlugsUnique ==
  \A e \in Enterprise : rows[e] # NoRow => ~Taken(rows[e].slug, e)

(* An update whose row nobody else wrote in the meantime leaves the row as *)
(* it was asked to, although it writes only what it takes for changed --   *)
(* but for the name, which is answered as asked for and never written.     *)
(* And it comes that far only with a new slug, or an old one typed in      *)
(* another form: no other change of an enterprise can be saved.            *)
(* (Two updates that overlap may leave the slug of one and the description *)
(* of the other.)                                                          *)
UpdateIsWhole ==
  [][\A r \in Request \ overtaken :
       req[r].pc = "write" /\ req'[r].pc = "drop"
         => LET e == req[r].ent
                d == req[r].dto
            IN /\ rows'[e] = [NewRow(d) EXCEPT !.name = rows[e].name]
               /\ d.raw \/ rows'[e].slug # rows[e].slug]_vars

(* A node no write has passed by remembers the row of the database, except *)
(* between the write of an update and the drop that follows it: the entry  *)
(* is dropped after every write, and nothing else changes the row.         *)
CacheAgrees ==
  \A n \in Node, e \in Enterprise :
    /\ <<n, e>> \notin passedBy
    /\ \A r \in Request : ~(NodeOf[r] = n /\ req[r].pc = "drop" /\ req[r].ent = e)
    => cache[n][e] \in {NoRow, rows[e]}
=============================================================================
