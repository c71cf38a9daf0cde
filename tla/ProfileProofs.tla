--------------------------- MODULE ProfileProofs ---------------------------
(***************************************************************************)
(* Proofs about Profile for any number of users, handlers and processes,   *)
(* and any bound on the changes.                                           *)
(*                                                                         *)
(* A process may answer with an old profile, but not with one older than a *)
(* change it has completed.  The inductive invariant is TypeInv /\ Safety: *)
(* what a process has answered never runs ahead of the database            *)
(* (AnsweredIsReal), nor does what a handler is about to answer, so that a *)
(* read of the database is always new enough.  That a fresh profile stays  *)
(* fresh needs the types only (FreshNext).                                 *)
(***************************************************************************)
EXTENDS Profile, TLAPS

(* The types, and what a handler carries at each await. *)
Carries(r) ==
  /\ req[r].pc # "idle" => req[r].user \in User
  /\ req[r].pc \in {"fill", "drop"} => req[r].copy \in Versions

TypeInv == TypeOK /\ \A r \in Request : Carries(r)

(* Nothing is answered that the database does not have. *)
AnsweredIsReal ==
  /\ \A n \in Node, u \in User : answered[n][u] <= profile[u].own
  /\ \A r \in Request :
       req[r].pc = "drop" => req[r].copy.own <= profile[req[r].user].own

Safety == AnsweredIsReal /\ ReadYourWrites

-----------------------------------------------------------------------------
(* Writing one entry of one process. *)
LEMMA Writes ==
  ASSUME NEW S, NEW f \in [Node -> [User -> S]], NEW n \in Node, NEW u \in User, NEW v \in S
  PROVE  LET g == [f EXCEPT ![n][u] = v] IN
         /\ g \in [Node -> [User -> S]]
         /\ g[n][u] = v
         /\ \A m \in Node, w \in User : m # n \/ w # u => g[m][w] = f[m][w]
OBVIOUS

(* What becomes of the handlers when that of a slot is replaced. *)
LEMMA Moves ==
  ASSUME TypeInv, NEW r \in Request, NEW h \in Handler, req' = [req EXCEPT ![r] = h]
  PROVE  /\ req' \in [Request -> Handler] /\ req'[r] = h
         /\ \A q \in Request \ {r} : req'[q] = req[q]
BY DEF TypeInv, TypeOK

(* The initial state, with nothing changed and nothing cached. *)
LEMMA InvInit == Init => TypeInv /\ Safety
<1> SUFFICES ASSUME Init PROVE TypeInv /\ Safety
  OBVIOUS
<1>1. TypeInv
  BY MaxChangesAssumption
     DEF Init, TypeInv, TypeOK, Carries, Idle, Handler, Pc, Versions
<1>2. Safety
  BY NodeOfAssumption DEF Init, Safety, AnsweredIsReal, ReadYourWrites, Idle
<1> QED
  BY <1>1, <1>2

(* A handler begins with nothing read. *)
LEMMA Begins ==
  ASSUME TypeInv, NEW r \in Request, NEW pc \in {"dbRead", "write"}, NEW u \in User,
         Begin(r, pc, u)
  PROVE  /\ req' \in [Request -> Handler] /\ req'[r].pc = pc /\ req'[r].user = u
         /\ \A q \in Request \ {r} : req'[q] = req[q]
<1>1. [pc |-> pc, user |-> u, copy |-> NoCopy] \in Handler
  BY DEF Handler, Pc
<1> QED
  BY <1>1, Moves DEF Begin

(* A handler ends. *)
LEMMA Ends ==
  ASSUME TypeInv, NEW r \in Request, req' = [req EXCEPT ![r] = Idle]
  PROVE  /\ req' \in [Request -> Handler] /\ req'[r].pc = "idle"
         /\ \A q \in Request \ {r} : req'[q] = req[q]
<1>1. Idle \in Handler
  BY DEF Idle, Handler, Pc
<1> QED
  BY <1>1, Moves DEF Idle

(* A handler begins: neither a fill nor a drop, and nothing else changes. *)
LEMMA BeginInv ==
  ASSUME TypeInv, Safety, NEW r \in Request, NEW u \in User, BeginRead(r, u) \/ BeginChange(r, u)
  PROVE  TypeInv' /\ Safety'
<1>1. PICK pc \in {"dbRead", "write"} : Begin(r, pc, u)
  BY DEF BeginRead, BeginChange
<1>2. UNCHANGED <<profile, cache, answered>>
  BY DEF BeginRead, BeginChange
<1>3. /\ req' \in [Request -> Handler] /\ req'[r].pc = pc /\ req'[r].user = u
      /\ \A q \in Request \ {r} : req'[q] = req[q]
  BY <1>1, Begins
<1>4. TypeInv'
  BY <1>2, <1>3 DEF TypeInv, TypeOK, Carries
<1>5. Safety'
  BY <1>2, <1>3 DEF Safety, AnsweredIsReal, ReadYourWrites, OneAtATime
<1> QED
  BY <1>4, <1>5

(* What is read of the database is as new as all that was answered. *)
LEMMA ReadProfileInv ==
  ASSUME TypeInv, Safety, NEW r \in Request, ReadProfile(r)
  PROVE  TypeInv' /\ Safety'
<1> DEFINE u == req[r].user
           h == [pc |-> "fill", user |-> u, copy |-> profile[u]]
<1>1. u \in User /\ UNCHANGED <<profile, cache, answered>>
  BY DEF ReadProfile, TypeInv, Carries
<1>2. profile[u] \in Versions
  BY <1>1 DEF TypeInv, TypeOK
<1>3. h \in Handler
  BY <1>1, <1>2 DEF Handler, Pc
<1>4. /\ req' \in [Request -> Handler] /\ req'[r] = h
      /\ \A q \in Request \ {r} : req'[q] = req[q]
  BY <1>3, Moves DEF ReadProfile
<1>5. TypeInv'
  BY <1>1, <1>2, <1>4 DEF TypeInv, TypeOK, Carries
<1>6. AnsweredIsReal'
  BY <1>1, <1>4 DEF Safety, AnsweredIsReal
<1>7. ReadYourWrites'
  <2>1. \A n \in Node : h.copy.own >= answered[n][u]
    <3> TAKE n \in Node
    <3>1. answered[n] \in [User -> 0..MaxChanges] /\ answered[n][u] <= profile[u].own
      BY <1>1 DEF Safety, AnsweredIsReal, TypeInv, TypeOK
    <3>2. answered[n][u] \in Int /\ profile[u].own \in Int
      BY <1>1, <1>2, <3>1, MaxChangesAssumption DEF Versions
    <3> QED
      BY <3>1, <3>2
  <2> QED
    BY <1>1, <1>4, <2>1 DEF Safety, ReadYourWrites, OneAtATime
<1> QED
  BY <1>5, <1>6, <1>7 DEF Safety

(* What goes into the cache is what the handler has read. *)
LEMMA FillCacheInv ==
  ASSUME TypeInv, Safety, NEW r \in Request, FillCache(r)
  PROVE  TypeInv' /\ Safety'
<1> DEFINE n == NodeOf[r]
           u == req[r].user
<1>1. /\ n \in Node /\ u \in User /\ req[r].copy \in Versions /\ req[r].pc = "fill"
      /\ UNCHANGED <<profile, answered>>
  BY NodeOfAssumption DEF FillCache, TypeInv, Carries
<1>2. /\ req' \in [Request -> Handler] /\ req'[r].pc = "idle"
      /\ \A q \in Request \ {r} : req'[q] = req[q]
  BY Ends DEF FillCache
<1>3. /\ cache' \in [Node -> [User -> Versions \cup {NoCopy}]]
      /\ cache'[n][u] = req[r].copy
      /\ \A m \in Node, w \in User : m # n \/ w # u => cache'[m][w] = cache[m][w]
  <2>1. cache \in [Node -> [User -> Versions \cup {NoCopy}]]
    BY DEF TypeInv, TypeOK
  <2>2. cache' = [cache EXCEPT ![n][u] = req[r].copy]
    BY DEF FillCache
  <2>3. req[r].copy \in Versions \cup {NoCopy}
    BY <1>1
  <2> QED
    BY <1>1, <2>1, <2>2, <2>3, Writes
<1>4. TypeInv'
  BY <1>1, <1>2, <1>3 DEF TypeInv, TypeOK, Carries
<1>5. AnsweredIsReal'
  BY <1>1, <1>2 DEF Safety, AnsweredIsReal
<1>6. ReadYourWrites'
  BY <1>1, <1>2, <1>3 DEF Safety, ReadYourWrites, OneAtATime
<1> QED
  BY <1>4, <1>5, <1>6 DEF Safety

(* The versions of the database are natural numbers, and so is what was    *)
(* answered.                                                               *)
LEMMA Numbers ==
  ASSUME TypeInv
  PROVE  /\ \A u \in User : profile[u].own \in Nat /\ profile[u].ent \in Nat
         /\ \A n \in Node, u \in User : answered[n][u] \in Nat
         /\ \A r \in Request :
              req[r].pc \in {"fill", "drop"} => req[r].copy.own \in 0..MaxChanges
<1>1. \A n \in Node, u \in User : answered[n][u] \in Nat
  <2> TAKE n \in Node
  <2>1. answered[n] \in [User -> 0..MaxChanges]
    BY DEF TypeInv, TypeOK
  <2> QED
    BY <2>1, MaxChangesAssumption
<1> QED
  BY <1>1, MaxChangesAssumption DEF TypeInv, TypeOK, Versions, Carries

(* The version a change adds, and the drop that remembers it. *)
LEMMA WriteProfileInv ==
  ASSUME TypeInv, Safety, NEW r \in Request, WriteProfile(r)
  PROVE  TypeInv' /\ Safety'
<1> DEFINE u == req[r].user
           h == [pc |-> "drop", user |-> u, copy |-> profile'[u]]
<1>1. u \in User /\ UNCHANGED <<cache, answered>> /\ profile[u].own < MaxChanges
  BY DEF WriteProfile, TypeInv, Carries
<1>2. /\ profile' \in [User -> Versions]
      /\ profile'[u].own = profile[u].own + 1
      /\ \A w \in User : w # u => profile'[w] = profile[w]
  <2>1. profile[u] \in Versions /\ profile \in [User -> Versions]
    BY <1>1 DEF TypeInv, TypeOK
  <2>2. profile[u].own + 1 \in 0..MaxChanges
    BY <1>1, <2>1, MaxChangesAssumption DEF Versions
  <2>3. [profile[u] EXCEPT !.own = @ + 1] \in Versions
    BY <2>1, <2>2 DEF Versions
  <2>4. [profile[u] EXCEPT !.own = @ + 1].own = profile[u].own + 1
    BY <2>1 DEF Versions
  <2>5. profile' = [profile EXCEPT ![u] = [profile[u] EXCEPT !.own = @ + 1]]
    BY DEF WriteProfile
  <2> QED
    BY <1>1, <2>1, <2>3, <2>4, <2>5
<1>3. h \in Handler
  BY <1>1, <1>2 DEF Handler, Pc
<1>4. /\ req' \in [Request -> Handler] /\ req'[r] = h
      /\ \A q \in Request \ {r} : req'[q] = req[q]
  BY <1>3, Moves DEF WriteProfile
<1>5. TypeInv'
  BY <1>1, <1>2, <1>4 DEF TypeInv, TypeOK, Carries
<1>6. \A w \in User : profile'[w].own \in Nat /\ profile[w].own <= profile'[w].own
  BY <1>1, <1>2, Numbers
<1>7. AnsweredIsReal'
  <2>1. \A n \in Node, w \in User : answered[n][w] <= profile'[w].own
    BY <1>6, Numbers DEF Safety, AnsweredIsReal
  <2>2. ASSUME NEW q \in Request, req'[q].pc = "drop"
        PROVE  req'[q].copy.own <= profile'[req'[q].user].own
    <3>1. CASE q = r
      BY <3>1, <1>1, <1>4, <1>6
    <3>2. CASE q # r
      <4>1. req'[q] = req[q] /\ req[q].user \in User /\ req[q].copy.own \in Int
        BY <3>2, <2>2, <1>4, Numbers, MaxChangesAssumption DEF TypeInv, Carries
      <4> QED
        BY <4>1, <2>2, <1>6, Numbers DEF Safety, AnsweredIsReal
    <3> QED
      BY <3>1, <3>2
  <2> QED
    BY <1>1, <2>1, <2>2 DEF AnsweredIsReal
<1>8. ReadYourWrites'
  BY <1>1, <1>4 DEF Safety, ReadYourWrites, OneAtATime
<1> QED
  BY <1>5, <1>7, <1>8 DEF Safety

(* A change that fails leaves nothing behind. *)
LEMMA WriteThrowsInv ==
  ASSUME TypeInv, Safety, NEW r \in Request, WriteThrows(r)
  PROVE  TypeInv' /\ Safety'
<1>1. /\ req' \in [Request -> Handler] /\ req'[r].pc = "idle"
      /\ \A q \in Request \ {r} : req'[q] = req[q]
  BY Ends DEF WriteThrows
<1>2. UNCHANGED <<profile, cache, answered>>
  BY DEF WriteThrows
<1>3. TypeInv'
  BY <1>1, <1>2 DEF TypeInv, TypeOK, Carries
<1>4. Safety'
  BY <1>1, <1>2 DEF Safety, AnsweredIsReal, ReadYourWrites, OneAtATime
<1> QED
  BY <1>3, <1>4

(* The drop answers what the database has by now, and leaves no entry that *)
(* could be older; nobody else of a quiet process is about to fill one.    *)
LEMMA DropCacheInv ==
  ASSUME TypeInv, Safety, NEW r \in Request, DropCache(r)
  PROVE  TypeInv' /\ Safety'
<1> DEFINE n == NodeOf[r]
           u == req[r].user
<1>1. /\ n \in Node /\ u \in User /\ req[r].copy.own \in 0..MaxChanges
      /\ req[r].pc = "drop" /\ UNCHANGED profile
  BY NodeOfAssumption, Numbers DEF DropCache, TypeInv, Carries
<1>2. /\ req' \in [Request -> Handler] /\ req'[r].pc = "idle"
      /\ \A q \in Request \ {r} : req'[q] = req[q]
  BY Ends DEF DropCache
<1>3. /\ cache' \in [Node -> [User -> Versions \cup {NoCopy}]]
      /\ cache'[n][u] = NoCopy
      /\ \A m \in Node, w \in User : m # n \/ w # u => cache'[m][w] = cache[m][w]
  <2>1. cache \in [Node -> [User -> Versions \cup {NoCopy}]]
    BY DEF TypeInv, TypeOK
  <2>2. cache' = [cache EXCEPT ![n][u] = NoCopy] /\ NoCopy \in Versions \cup {NoCopy}
    BY DEF DropCache
  <2> QED
    BY <1>1, <2>1, <2>2, Writes
<1>4. /\ answered' \in [Node -> [User -> 0..MaxChanges]]
      /\ answered'[n][u] = req[r].copy.own
      /\ \A m \in Node, w \in User : m # n \/ w # u => answered'[m][w] = answered[m][w]
  <2>1. answered \in [Node -> [User -> 0..MaxChanges]]
    BY DEF TypeInv, TypeOK
  <2>2. answered' = [answered EXCEPT ![n][u] = req[r].copy.own]
    BY DEF DropCache
  <2> QED
    BY <1>1, <2>1, <2>2, Writes
<1>5. TypeInv'
  BY <1>1, <1>2, <1>3, <1>4 DEF TypeInv, TypeOK, Carries
<1>6. AnsweredIsReal'
  <2>1. \A m \in Node, w \in User : answered'[m][w] <= profile[w].own
    BY <1>1, <1>4 DEF Safety, AnsweredIsReal
  <2>2. \A q \in Request :
          req'[q].pc = "drop" => req'[q].copy.own <= profile[req'[q].user].own
    BY <1>2 DEF Safety, AnsweredIsReal
  <2> QED
    BY <1>1, <2>1, <2>2 DEF AnsweredIsReal
<1>7. ReadYourWrites'
  <2> SUFFICES ASSUME NEW m \in Node, OneAtATime(m), NEW w \in User
               PROVE  /\ cache'[m][w] # NoCopy => cache'[m][w].own >= answered'[m][w]
                      /\ \A q \in Request :
                           NodeOf[q] = m /\ req'[q].pc = "fill" /\ req'[q].user = w
                             => req'[q].copy.own >= answered'[m][w]
    BY DEF ReadYourWrites, OneAtATime
  <2>1. CASE m = n
    <3>1. \A q \in Request : NodeOf[q] = m => q = r
      BY <2>1 DEF OneAtATime
    <3> QED
      BY <2>1, <3>1, <1>2, <1>3, <1>4 DEF Safety, ReadYourWrites
  <2>2. CASE m # n
    BY <2>2, <1>2, <1>3, <1>4 DEF Safety, ReadYourWrites
  <2> QED
    BY <2>1, <2>2
<1> QED
  BY <1>5, <1>6, <1>7 DEF Safety

(* A change of an enterprise is none of the profile's own. *)
LEMMA ChangeEnterpriseInv ==
  ASSUME TypeInv, Safety, NEW u \in User, ChangeEnterprise(u)
  PROVE  TypeInv' /\ Safety'
<1>1. UNCHANGED <<cache, req, answered>> /\ profile[u].ent < MaxChanges
  BY DEF ChangeEnterprise
<1>2. /\ profile' \in [User -> Versions]
      /\ \A w \in User : profile'[w].own = profile[w].own
  <2>1. profile[u] \in Versions /\ profile \in [User -> Versions]
    BY DEF TypeInv, TypeOK
  <2>2. profile[u].ent + 1 \in 0..MaxChanges
    BY <1>1, <2>1, MaxChangesAssumption DEF Versions
  <2>3. [profile[u] EXCEPT !.ent = @ + 1] \in Versions
    BY <2>1, <2>2 DEF Versions
  <2>4. [profile[u] EXCEPT !.ent = @ + 1].own = profile[u].own
    BY <2>1 DEF Versions
  <2>5. profile' = [profile EXCEPT ![u] = [profile[u] EXCEPT !.ent = @ + 1]]
    BY DEF ChangeEnterprise
  <2> QED
    BY <2>1, <2>3, <2>4, <2>5
<1>3. TypeInv'
  BY <1>1, <1>2 DEF TypeInv, TypeOK, Carries
<1>4. AnsweredIsReal'
  <2>1. \A r \in Request : req[r].pc = "drop" => req[r].user \in User
    BY DEF TypeInv, Carries
  <2> QED
    BY <1>1, <1>2, <2>1 DEF Safety, AnsweredIsReal
<1>5. ReadYourWrites'
  BY <1>1 DEF Safety, ReadYourWrites, OneAtATime
<1> QED
  BY <1>3, <1>4, <1>5 DEF Safety

(* An entry that is gone is not old. *)
LEMMA ExpireInv ==
  ASSUME TypeInv, Safety, NEW n \in Node, NEW u \in User, Expire(n, u)
  PROVE  TypeInv' /\ Safety'
<1>1. UNCHANGED <<profile, req, answered>>
  BY DEF Expire
<1>2. /\ cache' \in [Node -> [User -> Versions \cup {NoCopy}]]
      /\ cache'[n][u] = NoCopy
      /\ \A m \in Node, w \in User : m # n \/ w # u => cache'[m][w] = cache[m][w]
  <2>1. cache \in [Node -> [User -> Versions \cup {NoCopy}]]
    BY DEF TypeInv, TypeOK
  <2>2. cache' = [cache EXCEPT ![n][u] = NoCopy] /\ NoCopy \in Versions \cup {NoCopy}
    BY DEF Expire
  <2> QED
    BY <2>1, <2>2, Writes
<1>3. TypeInv'
  BY <1>1, <1>2 DEF TypeInv, TypeOK, Carries
<1>4. Safety'
  BY <1>1, <1>2 DEF Safety, AnsweredIsReal, ReadYourWrites, OneAtATime
<1> QED
  BY <1>3, <1>4

(* A process that starts again has no entry and no handler. *)
LEMMA CrashInv ==
  ASSUME TypeInv, Safety, NEW n \in Node, Crash(n)
  PROVE  TypeInv' /\ Safety'
<1>1. UNCHANGED <<profile, answered>>
  BY DEF Crash
<1>2. /\ cache' \in [Node -> [User -> Versions \cup {NoCopy}]]
      /\ \A w \in User : cache'[n][w] = NoCopy
      /\ \A m \in Node : m # n => cache'[m] = cache[m]
  BY DEF Crash, TypeInv, TypeOK
<1>3. req' \in [Request -> Handler]
  BY DEF Crash, TypeInv, TypeOK, Idle, Handler, Pc
<1>4. \A r \in Request : IF NodeOf[r] = n THEN req'[r].pc = "idle" ELSE req'[r] = req[r]
  BY DEF Crash, Idle
<1>5. TypeInv'
  BY <1>1, <1>2, <1>3, <1>4 DEF TypeInv, TypeOK, Carries
<1>6. AnsweredIsReal'
  BY <1>1, <1>4 DEF Safety, AnsweredIsReal
<1>7. ReadYourWrites'
  BY <1>1, <1>2, <1>4 DEF Safety, ReadYourWrites, OneAtATime
<1> QED
  BY <1>5, <1>6, <1>7 DEF Safety

(* Every step keeps the invariant. *)
LEMMA InvNext ==
  ASSUME TypeInv, Safety, [Next]_vars
  PROVE  TypeInv' /\ Safety'
<1>1. CASE UNCHANGED vars
  <2>1. UNCHANGED <<profile, cache, req, answered>>
    BY <1>1 DEF vars
  <2>2. TypeInv'
    BY <2>1 DEF TypeInv, TypeOK, Carries
  <2>3. Safety'
    BY <2>1 DEF Safety, AnsweredIsReal, ReadYourWrites, OneAtATime
  <2> QED
    BY <2>2, <2>3
<1>2. CASE Next
  BY <1>2, BeginInv, ReadProfileInv, FillCacheInv, WriteProfileInv, WriteThrowsInv, DropCacheInv,
     ChangeEnterpriseInv, ExpireInv, CrashInv DEF Next, Step
<1> QED
  BY <1>1, <1>2

-----------------------------------------------------------------------------
(* The invariant holds in every state; fairness plays no part in it. *)
THEOREM ProfileInvariant == FairSpec => [](TypeInv /\ Safety)
BY InvInit, InvNext, PTL DEF FairSpec

(* The state always has the type TypeOK. *)
THEOREM ProfileTypes == FairSpec => []TypeOK
<1>1. TypeInv => TypeOK
  BY DEF TypeInv
<1> QED
  BY <1>1, ProfileInvariant, PTL

(* A process that serves one request at a time never answers, nor is about *)
(* to cache, a profile older than a change it has completed, whatever the  *)
(* other processes write and however often it starts again.                *)
THEOREM OwnWritesAreRead == FairSpec => []ReadYourWrites
<1>1. Safety => ReadYourWrites
  BY DEF Safety
<1> QED
  BY <1>1, ProfileInvariant, PTL

-----------------------------------------------------------------------------
(* Only the handler of a step moves. *)
LEMMA OneMoves ==
  ASSUME TypeInv, NEW r \in Request, NEW h, req' = [req EXCEPT ![r] = h]
  PROVE  req'[r] = h /\ \A q \in Request \ {r} : req'[q] = req[q]
BY DEF TypeInv, TypeOK

(* A step that does not change a profile leaves what is known of it fresh: *)
(* a fill carries what the database has, and drops only remove.            *)
LEMMA FreshNext ==
  ASSUME TypeInv, Next, NEW u \in User, Fresh(u), profile'[u] = profile[u]
  PROVE  Fresh(u)'
(* It is enough to look at entries and handlers that are new. *)
<1>1. ASSUME \A n \in Node : cache'[n][u] \in {NoCopy, cache[n][u], profile[u]},
             \A r \in Request : \/ req'[r] = req[r]
                                \/ req'[r].pc = "fill" /\ req'[r].user = u
                                     => req'[r].copy = profile[u]
      PROVE  Fresh(u)'
  BY <1>1 DEF Fresh
<1>2. Idle.pc # "fill" /\ \A r \in Request : NodeOf[r] \in Node
  BY NodeOfAssumption DEF Idle
<1>3. ASSUME NEW r \in Request, NEW w \in User, BeginRead(r, w) \/ BeginChange(r, w)
      PROVE  Fresh(u)'
  <2>1. PICK pc \in {"dbRead", "write"} : Begin(r, pc, w)
    BY <1>3 DEF BeginRead, BeginChange
  <2>2. UNCHANGED cache
    BY <1>3 DEF BeginRead, BeginChange
  <2>3. req'[r].pc = pc /\ \A q \in Request \ {r} : req'[q] = req[q]
    BY <2>1, Begins
  <2> QED
    BY <1>1, <2>2, <2>3
<1>4. ASSUME NEW r \in Request, ReadProfile(r) PROVE Fresh(u)'
  <2> DEFINE h == [pc |-> "fill", user |-> req[r].user, copy |-> profile[req[r].user]]
  <2>1. UNCHANGED cache /\ req' = [req EXCEPT ![r] = h]
    BY <1>4 DEF ReadProfile
  <2>2. req'[r] = h /\ \A q \in Request \ {r} : req'[q] = req[q]
    BY <2>1, OneMoves
  <2>3. h.user = u => h.copy = profile[u]
    OBVIOUS
  <2> QED
    BY <1>1, <2>1, <2>2, <2>3
<1>5. ASSUME NEW r \in Request, NEW v, req' = [req EXCEPT ![r] = Idle],
             \/ UNCHANGED cache
             \/ /\ req[r].user \in User
                /\ req[r].user = u => v \in {NoCopy, profile[u]}
                /\ cache' = [cache EXCEPT ![NodeOf[r]][req[r].user] = v]
      PROVE  Fresh(u)'
  <2>1. \A n \in Node : cache'[n][u] \in {NoCopy, cache[n][u], profile[u]}
    <3>1. CASE UNCHANGED cache
      BY <3>1
    <3>2. CASE /\ req[r].user \in User
               /\ req[r].user = u => v \in {NoCopy, profile[u]}
               /\ cache' = [cache EXCEPT ![NodeOf[r]][req[r].user] = v]
      <4>1. PICK n \in Node, w \in User : n = NodeOf[r] /\ w = req[r].user
        BY <1>2, <3>2
      <4>2. cache' = [cache EXCEPT ![n][w] = v]
        BY <3>2, <4>1
      <4>3. \A m \in Node, x \in User :
              cache'[m][x] = IF m = n /\ x = w THEN v ELSE cache[m][x]
        BY <4>2 DEF TypeInv, TypeOK
      <4> QED
        BY <3>2, <4>1, <4>3
    <3> QED
      BY <1>5, <3>1, <3>2
  <2>2. \A q \in Request : req'[q] = req[q] \/ req'[q].pc # "fill"
    BY <1>2, <1>5, OneMoves
  <2> QED
    BY <1>1, <2>1, <2>2
<1>6. ASSUME NEW r \in Request, FillCache(r) PROVE Fresh(u)'
  <2>1. req[r].user = u => req[r].copy = profile[u]
    BY <1>6 DEF FillCache, Fresh
  <2>2. req[r].user \in User
    BY <1>6 DEF FillCache, TypeInv, Carries
  <2>3. /\ cache' = [cache EXCEPT ![NodeOf[r]][req[r].user] = req[r].copy]
        /\ req' = [req EXCEPT ![r] = Idle]
    BY <1>6 DEF FillCache
  <2> QED
    BY <1>5, <2>1, <2>2, <2>3
<1>7. ASSUME NEW r \in Request, DropCache(r) PROVE Fresh(u)'
  <2>1. req[r].user \in User
    BY <1>7 DEF DropCache, TypeInv, Carries
  <2>2. /\ cache' = [cache EXCEPT ![NodeOf[r]][req[r].user] = NoCopy]
        /\ req' = [req EXCEPT ![r] = Idle]
    BY <1>7 DEF DropCache
  <2> QED
    BY <1>5, <2>1, <2>2
<1>8. ASSUME NEW r \in Request, WriteThrows(r) PROVE Fresh(u)'
  BY <1>5, <1>8 DEF WriteThrows
<1>9. ASSUME NEW r \in Request, WriteProfile(r) PROVE Fresh(u)'
  <2>1. UNCHANGED cache
    BY <1>9 DEF WriteProfile
  <2>2. PICK h : /\ h = [pc |-> "drop", user |-> req[r].user, copy |-> profile'[req[r].user]]
                 /\ req' = [req EXCEPT ![r] = h]
    BY <1>9, Zenon DEF WriteProfile
  <2>3. req' = [req EXCEPT ![r] = h]
    BY <2>2
  <2>4. req'[r] = h /\ \A q \in Request \ {r} : req'[q] = req[q]
    BY <2>3, OneMoves
  <2> QED
    BY <1>1, <2>1, <2>2, <2>4
<1>10. ASSUME NEW w \in User, ChangeEnterprise(w) PROVE Fresh(u)'
  BY <1>1, <1>10 DEF ChangeEnterprise
<1>11. ASSUME NEW n \in Node, NEW w \in User, Expire(n, w) PROVE Fresh(u)'
  <2>1. \A m \in Node : cache'[m][u] \in {NoCopy, cache[m][u], profile[u]}
    BY <1>11 DEF Expire, TypeInv, TypeOK
  <2> QED
    BY <1>1, <1>11, <2>1 DEF Expire
<1>12. ASSUME NEW n \in Node, Crash(n) PROVE Fresh(u)'
  <2>1. \A m \in Node : cache'[m][u] \in {NoCopy, cache[m][u], profile[u]}
    BY <1>12 DEF Crash, TypeInv, TypeOK
  <2>2. \A r \in Request : req'[r] = req[r] \/ req'[r].pc # "fill"
    BY <1>2, <1>12 DEF Crash
  <2> QED
    BY <1>1, <2>1, <2>2
<1> QED
  BY <1>3, <1>4, <1>6, <1>7, <1>8, <1>9, <1>10, <1>11, <1>12 DEF Next, Step

(* A profile that is fresh everywhere stays so until it changes: what      *)
(* SettlesFresh promises, short of being reached.                          *)
THEOREM FreshStays == FairSpec => FreshForGood
<1>1. ASSUME TypeInv, [Next]_vars, NEW u \in User, Fresh(u), profile'[u] = profile[u]
      PROVE  Fresh(u)'
  <2>1. CASE Next
    BY <1>1, <2>1, FreshNext
  <2>2. CASE UNCHANGED vars
    BY <1>1, <2>2 DEF vars, Fresh
  <2> QED
    BY <1>1, <2>1, <2>2
<1>2. TypeInv /\ [Next]_vars =>
        [\A u \in User : Fresh(u) /\ profile'[u] = profile[u] => Fresh(u)']_vars
  BY <1>1
<1> QED
  BY <1>2, ProfileInvariant, PTL DEF FairSpec, FreshForGood
=============================================================================
