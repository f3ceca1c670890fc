------------------------------- MODULE UserCache ------------------------------
(***************************************************************************)
(* Authentication: UserHandler.Login, the middleware Auth and the          *)
(* cache.UserCache it looks users up in.  The mutex of the cache covers a  *)
(* single Get or Set, and nothing covers a miss with the query and the Set *)
(* that follow it.  No code of the server writes table users, and nothing  *)
(* calls UserCache.Invalidate, so a change of a user is noticed only when  *)
(* the entry has expired.                                                  *)
(***************************************************************************)
EXTENDS Naturals

CONSTANTS
  Users,      \* table users
  Requests,   \* the requests in Auth at a time
  Roles,      \* users.role of a user with is_active = true
  Inactive,   \* what stands for a user with is_active = false
  TTL,        \* the lifetime of an entry, 5 minutes
  TokenLife,  \* config: jwt.expiration
  QueryTime,  \* the longest time between the query of Auth and its Set
  Ticks       \* bound: how often the clock ticks

ASSUME UserCacheAssumption ==
  /\ Inactive \notin Roles
  /\ TTL \in Nat /\ TokenLife \in Nat /\ QueryTime \in Nat /\ Ticks \in Nat

VARIABLES
  now,       \* time.Now
  account,   \* table users: the role, or Inactive
  until,     \* ghost: when the row of a user last ceased to be such and such
  token,     \* when the token of a user ends; 0 while they have none
  cached,    \* the entries, with user and expiresAt
  pc,        \* what each request does next
  caller,    \* the user its token names
  user,      \* the row it has in hand
  readAt     \* ghost: when it read that row from the table

request == <<pc, caller, user, readAt>>
vars == <<now, account, until, token, cached, request>>

Rows == Roles \cup {Inactive}
NoEntry == [user |-> Inactive, expiresAt |-> 0]

TypeOK ==
  /\ now \in Nat
  /\ account \in [Users -> Rows]
  /\ until \in [Users -> [Rows -> Nat]]
  /\ token \in [Users -> Nat]
  /\ cached \in [Users -> {NoEntry} \cup [user : Roles, expiresAt : Nat]]
  /\ pc \in [Requests -> {"idle", "lookup", "query", "set", "served"}]
  /\ caller \in [Requests -> Users]
  /\ user \in [Requests -> Rows]
  /\ \A r \in Requests : pc[r] \in {"set", "served"} => user[r] \in Roles
  /\ readAt \in [Requests -> Nat]

\* The clock starts late enough for 0 to mean never.
Start == QueryTime + TTL + 1

Init ==
  /\ now = Start
  /\ account \in [Users -> Roles]
  /\ until = [u \in Users |-> [v \in Rows |-> 0]]
  /\ token = [u \in Users |-> 0]
  /\ cached = [u \in Users |-> NoEntry]
  /\ pc = [r \in Requests |-> "idle"]
  /\ caller \in [Requests -> Users]
  /\ user = [r \in Requests |-> Inactive]
  /\ readAt = [r \in Requests |-> 0]

-----------------------------------------------------------------------------
\* UserHandler.Login reads the row and signs a token, of which the server keeps
\* nothing; a later token of the same user outlives the earlier ones.
Login(u) ==
  /\ account[u] # Inactive
  /\ token' = [token EXCEPT ![u] = now + TokenLife]
  /\ UNCHANGED <<now, account, until, cached, request>>

-----------------------------------------------------------------------------
\* Auth.

ValidToken(u) == now < token[u]

Arrive(r, u) ==
  /\ pc[r] = "idle" /\ ValidToken(u)
  /\ pc' = [pc EXCEPT ![r] = "lookup"]
  /\ caller' = [caller EXCEPT ![r] = u]
  /\ UNCHANGED <<now, account, until, token, cached, user, readAt>>

Live(u) == cached[u] # NoEntry /\ now <= cached[u].expiresAt

Serve(r, row) ==
  /\ pc' = [pc EXCEPT ![r] = "served"]
  /\ user' = [user EXCEPT ![r] = row]

\* Mutant: a hit prolongs the life of the entry.
HitProlonging(r) ==
  LET u == caller[r]
  IN  /\ pc[r] = "lookup" /\ Live(u)
      /\ Serve(r, cached[u].user)
      /\ cached' = [cached EXCEPT ![u].expiresAt = now + TTL]
      /\ UNCHANGED <<now, account, until, token, caller, readAt>>

\* UserCache.Get finds an entry that has not expired.
Hit(r) ==
  /\ pc[r] = "lookup" /\ Live(caller[r])
  /\ Serve(r, cached[caller[r]].user)
  /\ UNCHANGED <<now, account, until, token, cached, caller, readAt>>

Miss(r) ==
  /\ pc[r] = "lookup" /\ ~Live(caller[r])
  /\ pc' = [pc EXCEPT ![r] = "query"]
  /\ UNCHANGED <<now, account, until, token, cached, caller, user, readAt>>

\* Mutant: the condition is_active = true is left out.
QueryAny(r) ==
  /\ pc[r] = "query"
  /\ user' = [user EXCEPT ![r] = account[caller[r]]]
  /\ readAt' = [readAt EXCEPT ![r] = now]
  /\ pc' = [pc EXCEPT ![r] = "set"]
  /\ UNCHANGED <<now, account, until, token, cached, caller>>

\* UserRepository.GetByID returns active users only.
Query(r) ==
  /\ pc[r] = "query" /\ account[caller[r]] # Inactive
  /\ user' = [user EXCEPT ![r] = account[caller[r]]]
  /\ readAt' = [readAt EXCEPT ![r] = now]
  /\ pc' = [pc EXCEPT ![r] = "set"]
  /\ UNCHANGED <<now, account, until, token, cached, caller>>

\* The caller's row is gone or inactive, or the query failed: status 401.
Refuse(r) ==
  /\ pc[r] = "query"
  /\ pc' = [pc EXCEPT ![r] = "idle"]
  /\ UNCHANGED <<now, account, until, token, cached, caller, user, readAt>>

\* UserCache.Set, after which the handler gets the row that was read.
Set(r) ==
  /\ pc[r] = "set"
  /\ cached' = [cached EXCEPT ![caller[r]] =
                  [user |-> user[r], expiresAt |-> now + TTL]]
  /\ pc' = [pc EXCEPT ![r] = "served"]
  /\ UNCHANGED <<now, account, until, token, caller, user, readAt>>

\* The handler has answered, and another request takes the place of r.
Leave(r) ==
  /\ pc[r] = "served"
  /\ pc' = [pc EXCEPT ![r] = "idle"]
  /\ user' = [user EXCEPT ![r] = Inactive]
  /\ readAt' = [readAt EXCEPT ![r] = 0]
  /\ UNCHANGED <<now, account, until, token, cached, caller>>

-----------------------------------------------------------------------------
\* Not in the code: somebody edits table users.
Change(u, row) ==
  /\ account[u] # row
  /\ account' = [account EXCEPT ![u] = row]
  /\ until' = [until EXCEPT ![u][account[u]] = now]
  /\ UNCHANGED <<now, token, cached, request>>

Tick ==
  /\ now < Start + Ticks
  /\ \A r \in Requests : pc[r] = "set" => now < readAt[r] + QueryTime
  /\ now' = now + 1
  /\ UNCHANGED <<account, until, token, cached, request>>

Next ==
  \/ \E u \in Users : Login(u) \/ \E row \in Rows : Change(u, row)
  \/ \E r \in Requests : \/ \E u \in Users : Arrive(r, u)
                         \/ Hit(r) \/ Miss(r) \/ Query(r) \/ Refuse(r)
                         \/ Set(r) \/ Leave(r)
  \/ Tick

Spec == Init /\ [][Next]_vars

-----------------------------------------------------------------------------
Served(r) == pc[r] # "served" /\ pc'[r] = "served"

\* A user who was deactivated, or lost a role, is treated as before for no
\* longer than the lifetime of an entry and the time of one query, whatever
\* requests refill the cache meanwhile: the entry a slow request stores after
\* the change counts from its Set, and no hit prolongs it.
ChangeNoticedInTime ==
  [][\A r \in Requests :
       Served(r) => LET u == caller[r]  row == user'[r]
                    IN  \/ account[u] = row
                        \/ now <= until[u][row] + QueryTime + TTL]_vars

\* Why it holds, for the proof: an entry, and the row in anybody's hands, was
\* the row of the user recently enough.
EntriesRecent ==
  \A u \in Users : cached[u] # NoEntry =>
    LET e == cached[u]
    IN  /\ e.expiresAt <= now + TTL
        /\ account[u] # e.user => e.expiresAt <= until[u][e.user] + QueryTime + TTL

ReadsRecent ==
  \A r \in Requests : pc[r] = "set" =>
    /\ readAt[r] <= now /\ now <= readAt[r] + QueryTime
    /\ \/ account[caller[r]] = user[r]
       \/ readAt[r] <= until[caller[r]][user[r]]

=============================================================================
