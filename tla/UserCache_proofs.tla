---------------------------- MODULE UserCache_proofs --------------------------
(***************************************************************************)
(* Theorems about UserCache, for any users, roles, requests and lifetimes. *)
(***************************************************************************)
EXTENDS UserCache, TLAPS

LEMMA InitTypeOK == Init => TypeOK
  BY UserCacheAssumption DEF Init, TypeOK, Rows, NoEntry, Start

\* What an entry that is there looks like.
LEMMA EntryTyped ==
  ASSUME TypeOK, NEW u \in Users, cached[u] # NoEntry
  PROVE  cached[u].user \in Roles /\ cached[u].expiresAt \in Nat
  BY DEF TypeOK

LEMMA RequestTypeOK ==
  ASSUME TypeOK, NEW r \in Requests,
         Hit(r) \/ Miss(r) \/ Query(r) \/ Refuse(r) \/ Set(r) \/ Leave(r)
  PROVE  TypeOK'
  <1>1. CASE Hit(r)
    <2>1. caller[r] \in Users /\ cached[caller[r]] # NoEntry
      BY <1>1 DEF Hit, Live, TypeOK
    <2>2. cached[caller[r]].user \in Roles
      BY <2>1, EntryTyped
    <2> QED
      BY <1>1, <2>2 DEF Hit, Serve, TypeOK, Rows
  <1>2. CASE Miss(r)
    BY <1>2 DEF Miss, TypeOK
  <1>3. CASE Query(r)
    BY <1>3 DEF Query, TypeOK, Rows
  <1>4. CASE Refuse(r)
    BY <1>4 DEF Refuse, TypeOK
  <1>5. CASE Set(r)
    <2>1. user[r] \in Roles /\ now + TTL \in Nat
      BY <1>5, UserCacheAssumption DEF Set, TypeOK
    <2>2. cached' \in [Users -> {NoEntry} \cup [user : Roles, expiresAt : Nat]]
      BY <1>5, <2>1 DEF Set, TypeOK
    <2> QED
      BY <1>5, <2>1, <2>2 DEF Set, TypeOK
  <1>6. CASE Leave(r)
    BY <1>6 DEF Leave, TypeOK, Rows
  <1> QED
    BY <1>1, <1>2, <1>3, <1>4, <1>5, <1>6

LEMMA NextTypeOK == TypeOK /\ [Next]_vars => TypeOK'
  <1> SUFFICES ASSUME TypeOK, [Next]_vars PROVE TypeOK'
    OBVIOUS
  <1>1. ASSUME NEW u \in Users, Login(u) PROVE TypeOK'
    BY <1>1, UserCacheAssumption DEF Login, TypeOK, request
  <1>2. ASSUME NEW u \in Users, NEW row \in Rows, Change(u, row) PROVE TypeOK'
    BY <1>2 DEF Change, TypeOK, request
  <1>3. ASSUME NEW r \in Requests, NEW u \in Users, Arrive(r, u) PROVE TypeOK'
    BY <1>3 DEF Arrive, TypeOK
  <1>4. CASE Tick
    BY <1>4 DEF Tick, TypeOK, request
  <1>5. CASE UNCHANGED vars
    BY <1>5 DEF TypeOK, vars, request
  <1> QED
    BY <1>1, <1>2, <1>3, <1>4, <1>5, RequestTypeOK DEF Next

\* Every variable keeps its type: no row of an inactive user gets into the
\* cache or to a handler.
THEOREM TypeCorrect == Spec => []TypeOK
  BY InitTypeOK, NextTypeOK, PTL DEF Spec

-----------------------------------------------------------------------------
Recent == EntriesRecent /\ ReadsRecent

LEMMA InitRecent == Init => Recent
  BY DEF Init, Recent, EntriesRecent, ReadsRecent

\* Only Set stores an entry, and counts its life from then on; the row it
\* stores was read no longer than QueryTime ago.
LEMMA SetRecent ==
  ASSUME TypeOK, Recent, NEW r \in Requests, Set(r)
  PROVE  Recent'
  <1> DEFINE u == caller[r]
             e == [user |-> user[r], expiresAt |-> now + TTL]
  <1>1. /\ u \in Users /\ cached' = [cached EXCEPT ![u] = e]
        /\ readAt[r] <= now /\ now <= readAt[r] + QueryTime
        /\ account[u] = user[r] \/ readAt[r] <= until[u][user[r]]
        /\ user[r] \in Roles
    BY DEF Set, TypeOK, Recent, ReadsRecent
  <1>2. until[u][user[r]] \in Nat /\ readAt[r] \in Nat /\ now \in Nat
    BY <1>1 DEF TypeOK, Rows
  <1>3. account[u] # e.user => e.expiresAt <= until[u][e.user] + QueryTime + TTL
    BY <1>1, <1>2, UserCacheAssumption
  <1>4. EntriesRecent'
    <2> SUFFICES ASSUME NEW w \in Users, cached'[w] # NoEntry
        PROVE  /\ cached'[w].expiresAt <= now + TTL
               /\ account[w] # cached'[w].user
                    => cached'[w].expiresAt
                         <= until[w][cached'[w].user] + QueryTime + TTL
      BY DEF Set, EntriesRecent, NoEntry
    <2>1. CASE w = u
      <3>1. cached'[w] = e
        BY <1>1, <2>1 DEF TypeOK
      <3> QED
        BY <3>1, <1>2, <1>3, <2>1, UserCacheAssumption
    <2>2. CASE w # u
      <3>1. cached'[w] = cached[w]
        BY <1>1, <2>2 DEF TypeOK
      <3> QED
        BY <3>1 DEF Recent, EntriesRecent
    <2> QED
      BY <2>1, <2>2
  <1>5. ReadsRecent'
    BY DEF Set, Recent, ReadsRecent, TypeOK
  <1> QED
    BY <1>4, <1>5 DEF Recent

\* When the row of a user changes, what was read of it before was true until
\* now.
LEMMA ChangeRecent ==
  ASSUME TypeOK, Recent, NEW u \in Users, NEW row \in Rows, Change(u, row)
  PROVE  Recent'
  <1>1. \A w \in Users, v \in Rows :
          \/ account'[w] = account[w] /\ until'[w][v] = until[w][v]
          \/ account[w] = v /\ until'[w][v] = now
          \/ account[w] # v /\ until'[w][v] = until[w][v]
    BY DEF Change, TypeOK
  <1>2. EntriesRecent'
    <2> SUFFICES ASSUME NEW w \in Users, cached[w] # NoEntry
        PROVE  /\ cached[w].expiresAt <= now + TTL
               /\ account'[w] # cached[w].user
                    => cached[w].expiresAt
                         <= until'[w][cached[w].user] + QueryTime + TTL
      BY DEF Change, request, EntriesRecent, NoEntry
    <2>1. /\ cached[w].user \in Rows /\ cached[w].expiresAt \in Nat
          /\ until[w][cached[w].user] \in Nat /\ now \in Nat
      BY EntryTyped DEF TypeOK, Rows
    <2>2. /\ cached[w].expiresAt <= now + TTL
          /\ account[w] # cached[w].user
               => cached[w].expiresAt
                    <= until[w][cached[w].user] + QueryTime + TTL
      BY DEF Recent, EntriesRecent
    <2> QED
      BY <1>1, <2>1, <2>2, UserCacheAssumption
  <1>3. ReadsRecent'
    <2> SUFFICES ASSUME NEW r \in Requests, pc[r] = "set"
        PROVE  /\ readAt[r] <= now /\ now <= readAt[r] + QueryTime
               /\ \/ account'[caller[r]] = user[r]
                  \/ readAt[r] <= until'[caller[r]][user[r]]
      BY DEF Change, request, ReadsRecent
    <2>1. /\ readAt[r] <= now /\ now <= readAt[r] + QueryTime
          /\ \/ account[caller[r]] = user[r]
             \/ readAt[r] <= until[caller[r]][user[r]]
      BY DEF Recent, ReadsRecent
    <2>2. caller[r] \in Users /\ user[r] \in Rows
      BY DEF TypeOK
    <2> QED
      BY <1>1, <2>1, <2>2
  <1> QED
    BY <1>2, <1>3 DEF Recent

LEMMA NextRecent == TypeOK /\ Recent /\ [Next]_vars => Recent'
  <1> SUFFICES ASSUME TypeOK, Recent, [Next]_vars PROVE Recent'
    OBVIOUS
  <1>1. ASSUME NEW u \in Users, Login(u) PROVE Recent'
    BY <1>1 DEF Login, request, Recent, EntriesRecent, ReadsRecent, NoEntry
  <1>2. ASSUME NEW r \in Requests, NEW u \in Users, Arrive(r, u) PROVE Recent'
    BY <1>2 DEF Arrive, Recent, EntriesRecent, ReadsRecent, NoEntry, TypeOK
  <1>3. ASSUME NEW r \in Requests,
               Hit(r) \/ Miss(r) \/ Refuse(r) \/ Leave(r)
        PROVE  Recent'
    <2>1. EntriesRecent'
      BY <1>3 DEF Hit, Miss, Refuse, Leave, Serve, Recent, EntriesRecent, NoEntry
    <2>2. \A s \in Requests : pc'[s] = "set" =>
            /\ pc[s] = "set" /\ user'[s] = user[s] /\ readAt'[s] = readAt[s]
      BY <1>3 DEF Hit, Miss, Refuse, Leave, Serve, TypeOK
    <2>3. UNCHANGED <<now, account, until, caller>>
      BY <1>3 DEF Hit, Miss, Refuse, Leave
    <2> QED
      BY <2>1, <2>2, <2>3 DEF Recent, ReadsRecent
  <1>4. ASSUME NEW r \in Requests, Query(r) PROVE Recent'
    <2>1. EntriesRecent'
      BY <1>4 DEF Query, Recent, EntriesRecent, NoEntry
    <2>2. ReadsRecent'
      BY <1>4, UserCacheAssumption DEF Query, Recent, ReadsRecent, TypeOK
    <2> QED
      BY <2>1, <2>2 DEF Recent
  <1>5. CASE Tick
    <2>1. now' = now + 1 /\ now \in Nat
      BY <1>5 DEF Tick, TypeOK
    <2>2. EntriesRecent'
      <3> SUFFICES ASSUME NEW u \in Users, cached[u] # NoEntry
          PROVE  cached[u].expiresAt <= now' + TTL
        BY <1>5 DEF Tick, Recent, EntriesRecent, NoEntry
      <3> QED
        BY <2>1, EntryTyped, UserCacheAssumption DEF Recent, EntriesRecent
    <2>3. ReadsRecent'
      <3> SUFFICES ASSUME NEW r \in Requests, pc[r] = "set"
          PROVE  readAt[r] <= now' /\ now' <= readAt[r] + QueryTime
        BY <1>5 DEF Tick, request, Recent, ReadsRecent
      <3>1. readAt[r] \in Nat /\ now < readAt[r] + QueryTime /\ readAt[r] <= now
        BY <1>5 DEF Tick, TypeOK, Recent, ReadsRecent
      <3> QED
        BY <2>1, <3>1, UserCacheAssumption
    <2> QED
      BY <2>2, <2>3 DEF Recent
  <1>6. CASE UNCHANGED vars
    BY <1>6 DEF vars, request, Recent, EntriesRecent, ReadsRecent, NoEntry
  <1> QED
    BY <1>1, <1>2, <1>3, <1>4, <1>5, <1>6, SetRecent, ChangeRecent DEF Next

\* A step that serves a request hands it a row that was true recently.
LEMMA ServedRecent ==
  ASSUME TypeOK, Recent, [Next]_vars, NEW r \in Requests, Served(r)
  PROVE  \/ account[caller[r]] = user'[r]
         \/ now <= until[caller[r]][user'[r]] + QueryTime + TTL
  <1>1. Hit(r) \/ Set(r)
    BY DEF Next, vars, request, Served, TypeOK, Login, Change, Arrive, Hit, Serve,
           Miss, Query, Refuse, Set, Leave, Tick
  <1>2. CASE Hit(r)
    <2>1. /\ caller[r] \in Users /\ cached[caller[r]] # NoEntry
          /\ now <= cached[caller[r]].expiresAt
          /\ user'[r] = cached[caller[r]].user
      BY <1>2 DEF Hit, Live, Serve, TypeOK
    <2>2. /\ user'[r] \in Rows /\ now \in Nat
          /\ cached[caller[r]].expiresAt \in Nat
          /\ until[caller[r]][user'[r]] \in Nat
      BY <2>1, EntryTyped DEF TypeOK, Rows
    <2> QED
      BY <2>1, <2>2, UserCacheAssumption DEF Recent, EntriesRecent
  <1>3. CASE Set(r)
    <2>1. /\ pc[r] = "set" /\ user'[r] = user[r]
          /\ caller[r] \in Users /\ user[r] \in Rows
          /\ now \in Nat /\ readAt[r] \in Nat
          /\ until[caller[r]][user[r]] \in Nat
      BY <1>3 DEF Set, TypeOK
    <2> QED
      BY <2>1, UserCacheAssumption DEF Recent, ReadsRecent
  <1> QED
    BY <1>1, <1>2, <1>3

\* A change of a user is noticed within the lifetime of an entry and the time of
\* one query.
THEOREM ChangesAreNoticed == Spec => ChangeNoticedInTime
  <1> DEFINE A == \A r \in Requests :
        Served(r) => LET u == caller[r]  row == user'[r]
                     IN  \/ account[u] = row
                         \/ now <= until[u][row] + QueryTime + TTL
  <1>1. TypeOK /\ Recent /\ [Next]_vars => [A]_vars
    BY ServedRecent
  <1> QED
    BY <1>1, InitTypeOK, NextTypeOK, InitRecent, NextRecent, PTL
       DEF Spec, ChangeNoticedInTime

=============================================================================
