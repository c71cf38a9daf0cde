------------------------------ MODULE Profile ------------------------------
(***************************************************************************)
(* The profile of a user and its copies in the caches of the processes.    *)
(*                                                                         *)
(* GET auth/profile reads through ProfileCacheRepository: a hit is         *)
(* answered, a miss reads the user with its employees and their            *)
(* enterprises and caches the lot.  An update of the profile and an        *)
(* accepted invitation write the database and then drop the entry of their *)
(* own process; an enterprise that is created or updated shows in the      *)
(* profile too and drops nothing.  Only which version is seen matters, so  *)
(* the data is two counters: own, changes through the profile, and ent,    *)
(* changes through an enterprise.                                          *)
(***************************************************************************)
EXTENDS Integers

CONSTANTS
  User, NoUser,
  Node, Request, NodeOf,   \* NodeOf[r]: the process that serves slot r
  MaxChanges               \* bound on the changes of either kind, per user

ASSUME NoUserAssumption == NoUser \notin User
ASSUME NodeOfAssumption == NodeOf \in [Request -> Node]
ASSUME MaxChangesAssumption == MaxChanges \in Nat

VARIABLES
  profile,   \* profile[u]: the versions in the database
  cache,     \* cache[n][u]: the versions node n remembers, or NoCopy
  req,       \* req[r]: the handler in slot r; copy is what it has read
  answered   \* history: answered[n][u], own version of the last change n completed

vars == <<profile, cache, req, answered>>

Versions == [own : 0..MaxChanges, ent : 0..MaxChanges]
NoCopy == [own |-> -1, ent |-> -1]
Pc == {"idle", "dbRead", "fill", "write", "drop"}
Handler == [pc : Pc, user : User \cup {NoUser}, copy : Versions \cup {NoCopy}]
Idle == [pc |-> "idle", user |-> NoUser, copy |-> NoCopy]

TypeOK ==
  /\ profile \in [User -> Versions]
  /\ cache \in [Node -> [User -> Versions \cup {NoCopy}]]
  /\ req \in [Request -> Handler]
  /\ answered \in [Node -> [User -> 0..MaxChanges]]

Init ==
  /\ profile = [u \in User |-> [own |-> 0, ent |-> 0]]
  /\ cache = [n \in Node |-> [u \in User |-> NoCopy]]
  /\ req = [r \in Request |-> Idle]
  /\ answered = [n \in Node |-> [u \in User |-> 0]]

Begin(r, pc, u) ==
  /\ req[r].pc = "idle"
  /\ req' = [req EXCEPT ![r] = [pc |-> pc, user |-> u, copy |-> NoCopy]]

-----------------------------------------------------------------------------
(* A bug of BeginRead: a hit is written back, to slide its time to live. *)
BeginReadSliding(r, u) ==
  /\ req[r].pc = "idle"
  /\ req' = [req EXCEPT ![r] =
       [pc |-> IF cache[NodeOf[r]][u] = NoCopy THEN "dbRead" ELSE "fill",
        user |-> u, copy |-> cache[NodeOf[r]][u]]]
  /\ UNCHANGED <<profile, cache, answered>>

(* A read misses; a hit is answered at once. *)
BeginRead(r, u) ==
  /\ cache[NodeOf[r]][u] = NoCopy
  /\ Begin(r, "dbRead", u)
  /\ UNCHANGED <<profile, cache, answered>>

ReadProfile(r) ==
  /\ req[r].pc = "dbRead"
  /\ req' = [req EXCEPT ![r] =
       [pc |-> "fill", user |-> req[r].user, copy |-> profile[req[r].user]]]
  /\ UNCHANGED <<profile, cache, answered>>

(* What was read goes into the cache, and into the answer. *)
FillCache(r) ==
  /\ req[r].pc = "fill"
  /\ cache' = [cache EXCEPT ![NodeOf[r]][req[r].user] = req[r].copy]
  /\ req' = [req EXCEPT ![r] = Idle]
  /\ UNCHANGED <<profile, answered>>

-----------------------------------------------------------------------------
(* POST auth/profile, and the acceptance of an invitation. *)
BeginChange(r, u) ==
  /\ Begin(r, "write", u)
  /\ UNCHANGED <<profile, cache, answered>>

WriteProfile(r) ==
  /\ req[r].pc = "write"
  /\ profile[req[r].user].own < MaxChanges
  /\ profile' = [profile EXCEPT ![req[r].user].own = @ + 1]
  /\ req' = [req EXCEPT ![r] =
       [pc |-> "drop", user |-> req[r].user, copy |-> profile'[req[r].user]]]
  /\ UNCHANGED <<cache, answered>>

(* The write throws (an acceptance that finds its invitation gone, or the  *)
(* database fails): nothing is dropped.                                    *)
WriteThrows(r) ==
  /\ req[r].pc = "write"
  /\ req' = [req EXCEPT ![r] = Idle]
  /\ UNCHANGED <<profile, cache, answered>>

(* A bug of DropCache: the entry is dropped under another key. *)
DropCacheMissing(r) ==
  /\ req[r].pc = "drop"
  /\ answered' = [answered EXCEPT ![NodeOf[r]][req[r].user] = req[r].copy.own]
  /\ req' = [req EXCEPT ![r] = Idle]
  /\ UNCHANGED <<profile, cache>>

(* A bug of DropCache: the entry becomes what the change has written. *)
DropCacheThrough(r) ==
  /\ req[r].pc = "drop"
  /\ cache' = [cache EXCEPT ![NodeOf[r]][req[r].user] = req[r].copy]
  /\ answered' = [answered EXCEPT ![NodeOf[r]][req[r].user] = req[r].copy.own]
  /\ req' = [req EXCEPT ![r] = Idle]
  /\ UNCHANGED profile

(* The entry of this process is dropped, and the change answered. *)
DropCache(r) ==
  /\ req[r].pc = "drop"
  /\ cache' = [cache EXCEPT ![NodeOf[r]][req[r].user] = NoCopy]
  /\ answered' = [answered EXCEPT ![NodeOf[r]][req[r].user] = req[r].copy.own]
  /\ req' = [req EXCEPT ![r] = Idle]
  /\ UNCHANGED profile

(* An enterprise of the user is created or updated, and no entry dropped. *)
ChangeEnterprise(u) ==
  /\ profile[u].ent < MaxChanges
  /\ profile' = [profile EXCEPT ![u].ent = @ + 1]
  /\ UNCHANGED <<cache, req, answered>>

-----------------------------------------------------------------------------
(* The ten minutes of an entry pass (or the store evicts it). *)
Expire(n, u) ==
  /\ cache[n][u] # NoCopy
  /\ cache' = [cache EXCEPT ![n][u] = NoCopy]
  /\ UNCHANGED <<profile, req, answered>>

Crash(n) ==
  /\ cache' = [cache EXCEPT ![n] = [u \in User |-> NoCopy]]
  /\ req' = [r \in Request |-> IF NodeOf[r] = n THEN Idle ELSE req[r]]
  /\ UNCHANGED <<profile, answered>>

Step(r) ==
  \/ ReadProfile(r) \/ FillCache(r)
  \/ WriteProfile(r) \/ WriteThrows(r) \/ DropCache(r)

Next ==
  \/ \E r \in Request :
       \/ \E u \in User : BeginRead(r, u) \/ BeginChange(r, u)
       \/ Step(r)
  \/ \E u \in User : ChangeEnterprise(u)
  \/ \E n \in Node, u \in User : Expire(n, u)
  \/ \E n \in Node : Crash(n)

(* A handler that has begun goes on, and entries expire; nobody has to     *)
(* send a request.                                                         *)
Fairness ==
  /\ \A r \in Request : WF_vars(Step(r))
  /\ \A n \in Node, u \in User : WF_vars(Expire(n, u))

FairSpec == Init /\ [][Next]_vars /\ Fairness
-----------------------------------------------------------------------------
(* A process that serves one request at a time. *)
OneAtATime(n) == \A r, q \in Request : NodeOf[r] = n /\ NodeOf[q] = n => r = q

(* Such a process never again answers with a profile older than a change   *)
(* it has completed: the entry is dropped after the write and before the   *)
(* answer.  (With requests that overlap, a read from before the write can  *)
(* fill the cache after the drop.)                                         *)
ReadYourWrites ==
  \A n \in Node : OneAtATime(n) =>
    \A u \in User :
      /\ cache[n][u] # NoCopy => cache[n][u].own >= answered[n][u]
      /\ \A r \in Request : NodeOf[r] = n /\ req[r].pc = "fill" /\ req[r].user = u
           => req[r].copy.own >= answered[n][u]

(* When the changes have stopped, every process ends up with the profile   *)
(* of the database, or none: no write of any kind, no fill that raced with *)
(* one and no other process keeps an old copy alive.                       *)
SettlesFresh ==
  <>[](\A n \in Node, u \in User : cache[n][u] \in {NoCopy, profile[u]})

(* Once no process, and no read on its way into a cache, has anything old  *)
(* of a profile, this stays so until the profile changes again, although   *)
(* changes of before may still drop, fill and answer.                      *)
Fresh(u) ==
  /\ \A n \in Node : cache[n][u] \in {NoCopy, profile[u]}
  /\ \A r \in Request : req[r].pc = "fill" /\ req[r].user = u => req[r].copy = profile[u]

FreshForGood ==
  [][\A u \in User : Fresh(u) /\ profile'[u] = profile[u] => Fresh(u)']_vars
=============================================================================
