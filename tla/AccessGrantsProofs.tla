--------------------------- MODULE AccessGrantsProofs ---------------------------
(***************************************************************************)
(* What AccessGrants promises for any number of people, workspaces and     *)
(* requests.                                                               *)
(*                                                                         *)
(* Shape says what a request carries at each of its steps.  Guard says     *)
(* what the bootstrap lock protects: who removes a Platform Admin holds it *)
(* and there is another one; who was admitted as the first user holds it   *)
(* until the grant is committed, and nobody was before.                    *)
(***************************************************************************)
EXTENDS AccessGrants, FiniteSetTheorems, SequenceTheorems, TLAPS

Bootstrapping == {"join", "bootstrap", "admit", "enter"}
Assigning     == {"upsert", "member", "commit"}
Removing      == {"lock", "count", "find", "drop", "take", "erase"}

LocksHeld ==
    /\ boot \in Requests \cup {Nobody}
    /\ grantLock \in [Keys -> Requests \cup {Nobody}]
    /\ memberLock \in [Members -> Requests \cup {Nobody}]
    /\ \A k \in Members : memberLock[k] # Nobody => At(memberLock[k]) \notin Bootstrapping

\* Its one key is a Platform Admin's.
OnPlatform(r) == Len(request[r].keys) = 1 /\ Key(r)[2] = Platform

First(r) ==
    /\ At(r) \in {"upsert", "enter", "commit"}
    /\ OnPlatform(r)
    /\ boot = r /\ crowned = {}
    /\ request[r].wrote \subseteq {Key(r)}
    /\ At(r) = "commit" => request[r].wrote = {Key(r)}

Shape(r) ==
    /\ At(r) = "idle" => request[r] = Idle
    /\ At(r) # "idle" => request[r].keys # <<>>
    /\ At(r) \in Bootstrapping \cup {"lock", "count"} => OnPlatform(r)
    /\ At(r) \in Bootstrapping \cup Assigning =>
          request[r].role \in Roles /\ request[r].id = "none" /\ request[r].dropped = {}
    /\ At(r) \in Bootstrapping \cup (Removing \ {"erase"}) => request[r].wrote = {}
    /\ At(r) \in Removing => request[r].dropped \subseteq {Key(r)}
    /\ At(r) = "drop" => Key(r) \in Members
    /\ At(r) = "erase" => request[r].wrote = {Key(r)}
    /\ request[r].first => First(r)

TwoAdmins == \E u, v \in Admins : u # v

Guard(r) ==
    /\ At(r) \in {"admit", "enter", "count"} => boot = r
    /\ At(r) \in {"find", "take", "erase"} /\ Key(r)[2] = Platform => boot = r /\ TwoAdmins

BootHolder == boot # Nobody => OnPlatform(boot)

Crown ==
    /\ crowned # {} => Admins # {}
    /\ \A u, v \in crowned : u = v

IInv ==
    /\ TypeOK /\ LocksHeld
    /\ \A r \in Requests : Shape(r) /\ Guard(r)
    /\ BootHolder /\ Crown /\ GrantsHaveMembers

\* What a step of another request does to this one: at most its grant is gone.
Kept(q) ==
    \/ request'[q] = request[q]
    \/ request[q].id = "live" /\ request'[q] = [request[q] EXCEPT !.id = "gone"]

-----------------------------------------------------------------------------
(* Lemmas.                                                                 *)

LEMMA IdleTyped == Idle \in RequestRecords
  BY DEF Idle, RequestRecords

\* The head and tail of a sequence that is not empty.
LEMMA HeadTail ==
  ASSUME NEW S, NEW s \in Seq(S), s # <<>>
  PROVE  Head(s) \in S /\ Tail(s) \in Seq(S)
  OBVIOUS

\* Every request keeps its shape and its guard while another one moves that
\* takes from nobody the bootstrap lock, crowns nobody without it, and without
\* it removes no admin.
LEMMA Others ==
  ASSUME IInv, NEW r \in Requests, NEW q \in Requests, q # r, Kept(q),
         boot = q => boot' = q,
         crowned' = crowned \/ boot = r,
         boot # r => (TwoAdmins => TwoAdmins')
  PROVE  Shape(q)' /\ Guard(q)'
<1> DEFINE same == request'[q] = request[q]
           gone == request[q].id = "live" /\ request'[q] = [request[q] EXCEPT !.id = "gone"]
<1>1. request[q] \in RequestRecords /\ Shape(q) /\ Guard(q)
  BY DEF IInv, TypeOK
<1>2. gone => At(q) \notin Bootstrapping \cup Assigning /\ At(q) # "idle" /\ ~ request[q].first
  BY <1>1 DEF Shape, First, Idle, At, Bootstrapping, Assigning
<1>3. same \/ gone
  BY DEF Kept
<1>4. /\ request'[q].at = At(q) /\ request'[q].keys = request[q].keys
      /\ request'[q].wrote = request[q].wrote /\ request'[q].dropped = request[q].dropped
      /\ request'[q].role = request[q].role /\ request'[q].first = request[q].first
  BY <1>1, <1>3 DEF At, RequestRecords
<1>5. same => Shape(q)'
  <2>1. SUFFICES ASSUME same PROVE Shape(q)'
    OBVIOUS
  <2>2. request[q].first => First(q)'
    BY <1>1, <2>1 DEF Shape, First, OnPlatform, Key, At
  <2> QED
    BY <1>1, <2>1, <2>2 DEF Shape, OnPlatform, Key, At
<1>6. gone => Shape(q)'
  BY <1>1, <1>2, <1>4 DEF Shape, OnPlatform, Key, At
<1>7. Guard(q)'
  BY <1>1, <1>4 DEF Guard, Key, At
<1> QED
  BY <1>3, <1>5, <1>6, <1>7

\* Nothing is left to do after the only key.
LEMMA LastKey ==
  ASSUME NEW S, NEW s \in Seq(S), Len(s) = 1
  PROVE  Tail(s) = <<>>
<1>1. Tail(s) \in Seq(S) /\ Len(Tail(s)) = 0
  OBVIOUS
<1> QED
  BY <1>1, EmptySeq

\* The keys of a request about one grant.
LEMMA One ==
  ASSUME NEW k \in Keys
  PROVE  <<k>> \in Seq(Keys) /\ <<k>> # <<>> /\ Len(<<k>>) = 1 /\ Head(<<k>>) = k
  OBVIOUS

\* A step inside a transaction: no table changes, a lock may be taken.
LEMMA Proceeds ==
  ASSUME IInv, NEW r \in Requests, NEW f \in RequestRecords, Becomes(r, f),
         f.at # "idle", request[r].wrote \subseteq f.wrote,
         UNCHANGED <<tables, crowned>>,
         boot' = boot \/ (boot = Nobody /\ boot' = r),
         boot' = r => /\ f.at \in {"admit", "enter", "upsert", "commit", "count", "find", "take", "erase"}
                      /\ Len(f.keys) = 1 /\ Head(f.keys)[2] = Platform,
         grantLock' = grantLock
           \/ \E k \in Keys : k \in f.wrote /\ grantLock' = Take(grantLock, k, r),
         memberLock' = memberLock
           \/ \E k \in Members : memberLock' = Take(memberLock, k, r),
         f.at \in Bootstrapping => At(r) \in Bootstrapping \cup {"idle"} /\ memberLock' = memberLock,
         Shape(r)', Guard(r)'
  PROVE  IInv'
<1> USE GrantsAssumption
<1>1. TypeOK /\ LocksHeld
  BY DEF IInv
<1>2. request' = [request EXCEPT ![r] = f] /\ request \in [Requests -> RequestRecords]
  BY <1>1 DEF Becomes, TypeOK
<1>3. request'[r] = f /\ \A q \in Requests : q # r => request'[q] = request[q]
  BY <1>2
<1>4. request' \in [Requests -> RequestRecords]
  BY <1>2
<1>5. LocksHeld'
  <2>1. boot' \in Requests \cup {Nobody}
    BY <1>1 DEF LocksHeld
  <2>2. grantLock' \in [Keys -> Requests \cup {Nobody}]
    BY <1>1 DEF LocksHeld, Take
  <2>3. memberLock' \in [Members -> Requests \cup {Nobody}]
    BY <1>1 DEF LocksHeld, Take
  <2>4. ASSUME NEW k \in Members, memberLock'[k] # Nobody
        PROVE  request'[memberLock'[k]].at \notin Bootstrapping
    <3>1. CASE memberLock'[k] # r
      <4>1. memberLock'[k] = memberLock[k]
        BY <1>1, <3>1 DEF LocksHeld, Take
      <4> QED
        BY <1>1, <1>3, <2>3, <2>4, <3>1, <4>1 DEF LocksHeld, At
    <3>2. CASE memberLock'[k] = r /\ f.at \in Bootstrapping
      <4>1. memberLock[k] = r /\ At(r) \in Bootstrapping \cup {"idle"}
        BY <3>2
      <4> QED
        BY <1>1, <4>1 DEF LocksHeld, TypeOK
    <3> QED
      BY <1>3, <3>1, <3>2
  <2> QED
    BY <2>1, <2>2, <2>3, <2>4 DEF LocksHeld, At
<1>6. boot' = Nobody \/ request'[boot'].at \in {"admit", "enter", "upsert", "commit", "count", "find", "take", "erase"}
  BY <1>1, <1>3 DEF TypeOK, LocksHeld, At
<1>7. \A k \in Keys : grantLock'[k] = Nobody \/ k \in request'[grantLock'[k]].wrote
  <2>1. SUFFICES ASSUME NEW k \in Keys, grantLock'[k] # Nobody
                 PROVE  k \in request'[grantLock'[k]].wrote
    OBVIOUS
  <2>2. CASE grantLock'[k] = grantLock[k]
    BY <1>1, <1>3, <2>1, <2>2 DEF TypeOK, LocksHeld
  <2>3. CASE grantLock'[k] # grantLock[k]
    <3>1. k \in f.wrote /\ grantLock'[k] = r
      BY <1>1, <2>3 DEF LocksHeld, Take
    <3> QED
      BY <1>3, <3>1
  <2> QED
    BY <2>2, <2>3
<1>8. \A k \in Members : memberLock'[k] = Nobody \/ request'[memberLock'[k]].at # "idle"
  BY <1>1, <1>3, <1>5 DEF TypeOK, LocksHeld, Take, At
<1>9. TypeOK'
  BY <1>1, <1>4, <1>6, <1>7, <1>8 DEF TypeOK, tables, At
<1>10. Admins' = Admins
  BY DEF Admins, Granted, tables
<1>11. \A q \in Requests : Shape(q)' /\ Guard(q)'
  <2>1. SUFFICES ASSUME NEW q \in Requests, q # r PROVE Shape(q)' /\ Guard(q)'
    OBVIOUS
  <2>2. TwoAdmins => TwoAdmins'
    BY <1>10 DEF TwoAdmins
  <2>3. Kept(q)
    BY <1>3, <2>1 DEF Kept
  <2> QED
    BY <2>1, <2>2, <2>3, Others
<1>12. BootHolder'
  BY <1>1, <1>3 DEF IInv, BootHolder, OnPlatform, Key, LocksHeld
<1>13. Crown' /\ GrantsHaveMembers'
  BY <1>10 DEF IInv, Crown, GrantsHaveMembers, Granted, tables
<1> QED
  BY <1>5, <1>9, <1>11, <1>12, <1>13 DEF IInv

\* The end of a request, which drops its locks.
LEMMA Ends ==
  ASSUME IInv, NEW r \in Requests, Unlock(r), request'[r] = Idle,
         request' \in [Requests -> RequestRecords],
         \A q \in Requests : q # r => Kept(q),
         users' \subseteq Users, crowned' \subseteq users',
         grants' \in [Keys -> Roles \cup {"none"}],
         members' \in [Members -> Roles \cup {"none"}],
         crowned' = crowned \/ boot = r,
         boot # r => (TwoAdmins => TwoAdmins'),
         Crown', GrantsHaveMembers'
  PROVE  IInv'
<1> USE GrantsAssumption
<1>1. TypeOK /\ LocksHeld
  BY DEF IInv
<1>2. \A q \in Requests : q # r =>
        /\ request'[q].at = At(q) /\ request'[q].keys = request[q].keys
        /\ request'[q].wrote = request[q].wrote
  <2>1. SUFFICES ASSUME NEW q \in Requests, q # r
                 PROVE  /\ request'[q].at = request[q].at /\ request'[q].keys = request[q].keys
                        /\ request'[q].wrote = request[q].wrote
    BY DEF At
  <2>2. request[q] \in RequestRecords
    BY <1>1 DEF TypeOK
  <2>3. CASE request'[q] = request[q]
    BY <2>3
  <2>4. CASE request'[q] = [request[q] EXCEPT !.id = "gone"]
    BY <2>2, <2>4 DEF RequestRecords
  <2> QED
    BY <2>1, <2>3, <2>4 DEF Kept
<1>3. /\ boot' = IF boot = r THEN Nobody ELSE boot
      /\ grantLock' \in [Keys -> Requests \cup {Nobody}]
      /\ memberLock' \in [Members -> Requests \cup {Nobody}]
      /\ \A k \in Keys : grantLock'[k] = IF grantLock[k] = r THEN Nobody ELSE grantLock[k]
      /\ \A k \in Members : memberLock'[k] = IF memberLock[k] = r THEN Nobody ELSE memberLock[k]
  BY <1>1 DEF LocksHeld, Unlock, Released
<1>4. LocksHeld'
  BY <1>1, <1>2, <1>3 DEF LocksHeld, At
<1>5. boot' = Nobody \/ request'[boot'].at \in {"admit", "enter", "upsert", "commit", "count", "find", "take", "erase"}
  BY <1>1, <1>2, <1>3 DEF TypeOK, LocksHeld, At
<1>6. \A k \in Keys : grantLock'[k] = Nobody \/ k \in request'[grantLock'[k]].wrote
  <2>1. SUFFICES ASSUME NEW k \in Keys, grantLock'[k] # Nobody
                 PROVE  k \in request'[grantLock'[k]].wrote
    OBVIOUS
  <2>2. grantLock'[k] = grantLock[k] /\ grantLock[k] # r /\ grantLock[k] \in Requests
    BY <1>1, <1>3, <2>1 DEF LocksHeld
  <2>3. k \in request[grantLock[k]].wrote
    BY <1>1, <2>1, <2>2 DEF TypeOK
  <2> QED
    BY <1>2, <2>2, <2>3
<1>7. \A k \in Members : memberLock'[k] = Nobody \/ request'[memberLock'[k]].at # "idle"
  BY <1>1, <1>2, <1>3 DEF TypeOK, LocksHeld, At
<1>8. TypeOK'
  BY <1>5, <1>6, <1>7 DEF TypeOK, At
<1>9. Shape(r)' /\ Guard(r)'
  BY DEF Shape, Guard, Idle, At, Bootstrapping, Assigning, Removing
<1>10. \A q \in Requests : Shape(q)' /\ Guard(q)'
  <2>1. SUFFICES ASSUME NEW q \in Requests, q # r PROVE Shape(q)' /\ Guard(q)'
    BY <1>9
  <2>2. boot = q => boot' = q
    BY <1>3, <2>1
  <2> QED
    BY <2>1, <2>2, Others
<1>11. BootHolder'
  BY <1>1, <1>2, <1>3 DEF IInv, BootHolder, OnPlatform, Key, LocksHeld
<1> QED
  BY <1>4, <1>8, <1>10, <1>11 DEF IInv

\* A transaction that ends and leaves the tables as they are.
LEMMA RollsBack ==
  ASSUME IInv, NEW r \in Requests, Rollback(r)
  PROVE  IInv'
<1>1. TypeOK
  BY DEF IInv
<1>2. request' = [request EXCEPT ![r] = Idle] /\ Unlock(r) /\ UNCHANGED <<tables, crowned>>
  BY DEF Rollback, End, Becomes
<1>3. /\ request'[r] = Idle /\ request' \in [Requests -> RequestRecords]
      /\ \A q \in Requests : q # r => Kept(q)
  BY <1>1, <1>2, IdleTyped DEF TypeOK, Kept
<1>4. (TwoAdmins => TwoAdmins') /\ Crown' /\ GrantsHaveMembers'
  BY <1>2 DEF IInv, TwoAdmins, Crown, GrantsHaveMembers, Admins, Granted, tables
<1> QED
  BY <1>1, <1>2, <1>3, <1>4, Ends DEF TypeOK, tables

\* What is known of a request at any time.
LEMMA Now ==
  ASSUME IInv, NEW r \in Requests
  PROVE  /\ request[r] \in RequestRecords /\ Shape(r) /\ Guard(r)
         /\ At(r) # "idle" => Key(r) \in Keys /\ Tail(request[r].keys) \in Seq(Keys)
         /\ \A f : Becomes(r, f) => request'[r] = f
<1>1. request \in [Requests -> RequestRecords] /\ request[r] \in RequestRecords /\ Shape(r) /\ Guard(r)
  BY DEF IInv, TypeOK
<1>2. request[r].keys \in Seq(Keys)
  BY <1>1 DEF RequestRecords
<1>3. At(r) # "idle" => Key(r) \in Keys /\ Tail(request[r].keys) \in Seq(Keys)
  BY <1>1, <1>2, HeadTail DEF Shape, Key
<1>4. \A f : Becomes(r, f) => request'[r] = f
  BY <1>1 DEF Becomes
<1> QED
  BY <1>1, <1>3, <1>4

-----------------------------------------------------------------------------
(* A new request.                                                          *)

LEMMA ResolveInv ==
  ASSUME IInv, NEW r \in Requests, NEW u \in Users, Resolve(r, u)
  PROVE  IInv'
<1> USE GrantsAssumption
<1> DEFINE step == IF Admins # {} /\ u \notin Legacy THEN "join" ELSE "bootstrap"
           f == [Idle EXCEPT !.keys = << <<u, Platform>> >>, !.role = "admin", !.at = step]
<1>1. At(r) = "idle" /\ Becomes(r, f) /\ UNCHANGED <<tables, locks, crowned>>
  BY DEF Resolve
<1>2. /\ f.at = step /\ f.keys = << <<u, Platform>> >> /\ f.role = "admin"
      /\ f.id = "none" /\ f.wrote = {} /\ f.dropped = {} /\ f.first = FALSE
  BY DEF Idle
<1>3. <<u, Platform>> \in Keys /\ <<u, Platform>>[2] = Platform
  BY DEF Keys, Scopes
<1>4. /\ << <<u, Platform>> >> \in Seq(Keys) /\ << <<u, Platform>> >> # <<>>
      /\ Len(<< <<u, Platform>> >>) = 1 /\ Head(<< <<u, Platform>> >>)[2] = Platform
      /\ step \in {"join", "bootstrap"}
  BY <1>3, One
<1> HIDE DEF step
<1>5. f \in RequestRecords
  BY <1>4 DEF RequestRecords, Idle
<1>6. request'[r] = f /\ boot # r /\ request[r].wrote = {}
  BY <1>1, Now DEF IInv, TypeOK, LocksHeld, Shape, Idle
<1> HIDE DEF f
<1>7. OnPlatform(r)' /\ request'[r].keys # <<>>
  BY <1>2, <1>4, <1>6 DEF OnPlatform, Key
<1>8. Shape(r)' /\ Guard(r)'
  BY <1>2, <1>4, <1>6, <1>7 DEF Shape, Guard, At, Bootstrapping, Assigning, Removing
<1> QED
  BY <1>1, <1>2, <1>4, <1>5, <1>6, <1>8, Proceeds DEF locks

LEMMA AssignInv ==
  ASSUME IInv, NEW r \in Requests, NEW ks \in Seq(Keys), NEW role \in Roles, Assign(r, ks, role)
  PROVE  IInv'
<1> DEFINE f == [Idle EXCEPT !.at = "upsert", !.keys = ks, !.role = role]
<1>1. At(r) = "idle" /\ ks # <<>> /\ Becomes(r, f) /\ UNCHANGED <<tables, locks, crowned>>
  BY DEF Assign
<1>2. /\ f.at = "upsert" /\ f.keys = ks /\ f.role = role
      /\ f.id = "none" /\ f.wrote = {} /\ f.dropped = {} /\ f.first = FALSE
  BY DEF Idle
<1>3. f \in RequestRecords
  BY DEF RequestRecords, Idle
<1>4. request'[r] = f /\ boot # r /\ request[r].wrote = {}
  BY <1>1, Now, GrantsAssumption DEF IInv, TypeOK, LocksHeld, Shape, Idle
<1> HIDE DEF f
<1>5. Shape(r)' /\ Guard(r)'
  BY <1>1, <1>2, <1>4 DEF Shape, Guard, Key, At, Bootstrapping, Assigning, Removing
<1> QED
  BY <1>1, <1>2, <1>3, <1>4, <1>5, Proceeds DEF locks, Bootstrapping

\* The keys of a bulk assignment.
LEMMA BulkInv ==
  ASSUME IInv, NEW r \in Requests, NEW u \in Users, Bulk(r, u)
  PROVE  IInv'
<1>1. PICK role \in Roles, n \in DOMAIN Listed :
        \E place \in [1 .. n -> DOMAIN Listed] :
          Assign(r, [i \in 1 .. n |-> <<u, Listed[place[i]]>>], role)
  BY DEF Bulk
<1>2. PICK place \in [1 .. n -> DOMAIN Listed] :
        Assign(r, [i \in 1 .. n |-> <<u, Listed[place[i]]>>], role)
  BY <1>1
<1> DEFINE ks == [i \in 1 .. n |-> <<u, Listed[place[i]]>>]
<1>3. n \in Nat
  BY GrantsAssumption
<1>4. \A i \in 1 .. n : <<u, Listed[place[i]]>> \in Keys
  BY DEF Keys, Scopes, Workspaces
<1>5. ks \in Seq(Keys)
  BY <1>3, <1>4
<1> HIDE DEF ks
<1> QED
  BY <1>2, <1>5, AssignInv DEF ks

LEMMA PutInv ==
  ASSUME IInv, NEW r \in Requests, NEW u \in Users, NEW s \in Scopes, Put(r, u, s)
  PROVE  IInv'
<1>1. PICK role \in Roles : Assign(r, << <<u, s>> >>, role)
  BY DEF Put
<1>2. << <<u, s>> >> \in Seq(Keys)
  BY DEF Keys
<1> QED
  BY <1>1, <1>2, AssignInv

LEMMA DeleteInv ==
  ASSUME IInv, NEW r \in Requests, NEW k \in Keys, Delete(r, k)
  PROVE  IInv'
<1> DEFINE step == IF k[2] = Platform THEN "lock" ELSE "find"
           f == [Idle EXCEPT !.keys = <<k>>, !.id = "live", !.at = step]
<1>1. At(r) = "idle" /\ Becomes(r, f) /\ UNCHANGED <<tables, locks, crowned>>
  BY DEF Delete
<1>2. /\ f.at = step /\ f.keys = <<k>> /\ f.wrote = {} /\ f.dropped = {} /\ f.first = FALSE
  BY DEF Idle
<1>3. step \in {"lock", "find"} /\ (step = "lock" <=> k[2] = Platform)
  OBVIOUS
<1> HIDE DEF step
<1>4. f \in RequestRecords
  BY <1>3, One DEF RequestRecords, Idle
<1>5. request'[r] = f /\ boot # r /\ request[r].wrote = {}
  BY <1>1, Now, GrantsAssumption DEF IInv, TypeOK, LocksHeld, Shape, Idle
<1> HIDE DEF f
<1>6. Shape(r)' /\ Guard(r)'
  BY <1>2, <1>3, <1>5, One DEF Shape, Guard, OnPlatform, Key, At, Bootstrapping, Assigning, Removing
<1> QED
  BY <1>1, <1>2, <1>3, <1>4, <1>5, <1>6, Proceeds DEF locks, Bootstrapping

LEMMA DeleteMembershipInv ==
  ASSUME IInv, NEW r \in Requests, NEW k \in Members, DeleteMembership(r, k)
  PROVE  IInv'
<1> DEFINE f == [Idle EXCEPT !.keys = <<k>>, !.at = "drop"]
<1>1. At(r) = "idle" /\ Becomes(r, f) /\ UNCHANGED <<tables, locks, crowned>>
  BY DEF DeleteMembership
<1>2. f.at = "drop" /\ f.keys = <<k>> /\ f.wrote = {} /\ f.dropped = {} /\ f.first = FALSE
  BY DEF Idle
<1>3. k \in Keys
  BY DEF Keys, Members, Scopes
<1>4. f \in RequestRecords
  BY <1>3, One DEF RequestRecords, Idle
<1>5. request'[r] = f /\ boot # r /\ request[r].wrote = {}
  BY <1>1, Now, GrantsAssumption DEF IInv, TypeOK, LocksHeld, Shape, Idle
<1> HIDE DEF f
<1>6. Shape(r)' /\ Guard(r)'
  BY <1>2, <1>3, <1>5, One DEF Shape, Guard, OnPlatform, Key, At, Bootstrapping, Assigning, Removing
<1> QED
  BY <1>1, <1>2, <1>4, <1>5, <1>6, Proceeds DEF locks, Bootstrapping

-----------------------------------------------------------------------------
(* The bootstrap.                                                          *)

\* Without the bootstrap lock nothing is locked yet.
LEMMA JoinInv ==
  ASSUME IInv, NEW r \in Requests, Join(r)
  PROVE  IInv'
<1> USE GrantsAssumption
<1>1. TypeOK /\ LocksHeld /\ request' = [request EXCEPT ![r] = Idle]
  BY DEF IInv, Join, Becomes
<1>2. At(r) = "join" /\ request[r].wrote = {} /\ Key(r) \in Keys
  BY Now DEF Join, Shape, Bootstrapping
<1>3. boot # r
  BY <1>1, <1>2 DEF TypeOK, LocksHeld
<1>4. \A k \in Keys : grantLock[k] # r
  BY <1>1, <1>2 DEF TypeOK, LocksHeld
<1>5. \A k \in Members : memberLock[k] # r
  BY <1>1, <1>2 DEF LocksHeld, Bootstrapping
<1>6. Unlock(r)
  BY <1>1, <1>3, <1>4, <1>5 DEF Unlock, Released, LocksHeld, Join, locks
<1>7. users' \subseteq Users /\ crowned' \subseteq users'
  BY <1>1, <1>2 DEF Join, TypeOK, Keys
<1>8. /\ request'[r] = Idle /\ request' \in [Requests -> RequestRecords]
      /\ \A q \in Requests : q # r => Kept(q)
  BY <1>1, IdleTyped DEF TypeOK, Kept
<1>9. Admins \subseteq Admins'
  BY <1>1, <1>7 DEF Join, Admins, Granted
<1>10. (TwoAdmins => TwoAdmins') /\ Crown' /\ GrantsHaveMembers'
  BY <1>9 DEF IInv, TwoAdmins, Crown, GrantsHaveMembers, Granted, Join
<1> QED
  BY <1>1, <1>6, <1>7, <1>8, <1>10, Ends DEF TypeOK, Join

\* LockBootstrap and LockPlatform, which differ in what follows.
LEMMA LockInv ==
  ASSUME IInv, NEW r \in Requests, LockBootstrap(r) \/ LockPlatform(r)
  PROVE  IInv'
<1> USE GrantsAssumption
<1> DEFINE step == IF At(r) = "lock" THEN "count" ELSE "admit"
           f == [request[r] EXCEPT !.at = step]
<1>1. At(r) \in {"bootstrap", "lock"} /\ Becomes(r, f)
  BY DEF LockBootstrap, LockPlatform, Goto
<1>2. boot = Nobody /\ boot' = r /\ UNCHANGED <<tables, grantLock, memberLock, crowned>>
  BY DEF LockBootstrap, LockPlatform, BootFree
<1>3. request[r] \in RequestRecords /\ Shape(r) /\ request'[r] = f
  BY <1>1, Now
<1>4. /\ f \in RequestRecords /\ f.at = step /\ f.keys = request[r].keys /\ f.role = request[r].role
      /\ f.id = request[r].id /\ f.wrote = request[r].wrote /\ f.dropped = request[r].dropped
      /\ f.first = request[r].first
  BY <1>3 DEF RequestRecords
<1>5. OnPlatform(r) /\ ~ request[r].first /\ request[r].keys # <<>>
  BY <1>1, <1>3 DEF Shape, Bootstrapping, First
<1> HIDE DEF f
<1>6. Shape(r)' /\ Guard(r)'
  BY <1>1, <1>2, <1>3, <1>4, <1>5
     DEF Shape, Guard, OnPlatform, Key, At, Bootstrapping, Assigning, Removing
<1> QED
  BY <1>1, <1>2, <1>3, <1>4, <1>5, <1>6, Proceeds DEF OnPlatform, Key, Bootstrapping

LEMMA AdmitInv ==
  ASSUME IInv, NEW r \in Requests, Admit(r)
  PROVE  IInv'
<1> USE GrantsAssumption
<1> DEFINE k == Key(r)
           step == IF ~ Granted(k) /\ (k[1] \in Legacy \/ IsFirst(k[1])) THEN "upsert" ELSE "enter"
           f == [request[r] EXCEPT !.first = IsFirst(k[1]), !.at = step]
<1>1. At(r) = "admit" /\ Becomes(r, f) /\ UNCHANGED <<tables, locks, crowned>>
  BY DEF Admit
<1>2. request[r] \in RequestRecords /\ Shape(r) /\ Guard(r) /\ request'[r] = f
  BY <1>1, Now
<1>3. IsFirst(k[1]) \in BOOLEAN
  BY DEF IsFirst
<1>4. /\ f \in RequestRecords /\ f.at = step /\ f.keys = request[r].keys /\ f.role = request[r].role
      /\ f.id = request[r].id /\ f.wrote = request[r].wrote /\ f.dropped = request[r].dropped
      /\ f.first = IsFirst(k[1])
  BY <1>2, <1>3 DEF RequestRecords
<1>5. /\ OnPlatform(r) /\ request[r].keys # <<>> /\ request[r].wrote = {} /\ boot = r
      /\ request[r].role \in Roles /\ request[r].id = "none" /\ request[r].dropped = {}
  BY <1>1, <1>2 DEF Shape, Guard, Bootstrapping
<1>6. IsFirst(k[1]) => crowned = {}
  BY DEF IInv, Crown, IsFirst
<1>7. step \in {"upsert", "enter"} /\ boot' = r /\ crowned' = crowned
  BY <1>1, <1>5 DEF locks
<1> HIDE DEF f, step
<1>8. f.first => First(r)'
  BY <1>2, <1>4, <1>5, <1>6, <1>7 DEF First, OnPlatform, Key, At
<1>9. Shape(r)' /\ Guard(r)'
  BY <1>2, <1>4, <1>5, <1>7, <1>8
     DEF Shape, Guard, OnPlatform, Key, At, Bootstrapping, Assigning, Removing
<1> QED
  BY <1>1, <1>2, <1>4, <1>5, <1>7, <1>9, Proceeds DEF OnPlatform, Key, Bootstrapping, locks

LEMMA EnterInv ==
  ASSUME IInv, NEW r \in Requests, Enter(r)
  PROVE  IInv'
<1>1. TypeOK /\ request' = [request EXCEPT ![r] = Idle] /\ Unlock(r)
  BY DEF IInv, Enter, End, Becomes
<1>2. Key(r) \in Keys
  BY Now DEF Enter
<1>3. users' \subseteq Users /\ crowned' \subseteq users'
  BY <1>1, <1>2 DEF Enter, TypeOK, Keys
<1>4. /\ request'[r] = Idle /\ request' \in [Requests -> RequestRecords]
      /\ \A q \in Requests : q # r => Kept(q)
  BY <1>1, IdleTyped DEF TypeOK, Kept
<1>5. Admins \subseteq Admins'
  BY <1>1, <1>3 DEF Enter, Admins, Granted
<1>6. (TwoAdmins => TwoAdmins') /\ Crown' /\ GrantsHaveMembers'
  BY <1>5 DEF IInv, TwoAdmins, Crown, GrantsHaveMembers, Granted, Enter
<1> QED
  BY <1>1, <1>3, <1>4, <1>6, Ends DEF TypeOK, Enter

-----------------------------------------------------------------------------
(* Assignments.                                                            *)

\* What Advance makes of a request, whose other fields stay.
LEMMA AdvanceInv ==
  ASSUME IInv, NEW r \in Requests, NEW f \in RequestRecords, Advance(r, f),
         At(r) \in {"upsert", "member"},
         f.keys = request[r].keys, f.role = request[r].role, f.id = request[r].id,
         f.dropped = request[r].dropped, f.first = request[r].first,
         request[r].wrote \subseteq f.wrote,
         f.first => f.wrote = {Key(r)},
         UNCHANGED <<tables, boot, crowned>>,
         grantLock' = grantLock
           \/ \E k \in Keys : k \in f.wrote /\ grantLock' = Take(grantLock, k, r),
         memberLock' = memberLock
           \/ \E k \in Members : memberLock' = Take(memberLock, k, r)
  PROVE  IInv'
<1> DEFINE rest == Tail(f.keys)
           ks == IF rest = <<>> THEN f.keys ELSE rest
           step == IF rest = <<>> THEN "commit" ELSE "upsert"
           g == [f EXCEPT !.keys = ks, !.at = step]
<1>1. Becomes(r, g)
  BY DEF Advance
<1>2. request[r] \in RequestRecords /\ Shape(r) /\ Guard(r) /\ rest \in Seq(Keys) /\ request'[r] = g
  BY <1>1, Now
<1>3. f.keys \in Seq(Keys) /\ f.keys # <<>>
  BY <1>2 DEF RequestRecords, Shape
<1>4. OnPlatform(r) => ks = f.keys /\ step = "commit"
  BY <1>3, LastKey DEF OnPlatform
<1>5. ks \in Seq(Keys) /\ ks # <<>> /\ step \in {"commit", "upsert"}
  BY <1>2, <1>3
<1> HIDE DEF ks, step
<1>6. /\ g \in RequestRecords /\ g.at = step /\ g.keys = ks /\ g.role = f.role /\ g.id = f.id
      /\ g.wrote = f.wrote /\ g.dropped = f.dropped /\ g.first = f.first
  BY <1>5 DEF RequestRecords
<1> HIDE DEF g
<1>7. g.first => First(r)'
  <2>1. SUFFICES ASSUME g.first PROVE First(r)'
    OBVIOUS
  <2>2. First(r) /\ f.first
    BY <1>2, <1>6, <2>1 DEF Shape
  <2>3. ks = request[r].keys /\ step = "commit"
    BY <1>4, <2>2 DEF First
  <2> QED
    BY <1>2, <1>6, <2>2, <2>3 DEF First, OnPlatform, Key, At
<1>8. Shape(r)' /\ Guard(r)'
  BY <1>2, <1>5, <1>6, <1>7 DEF Shape, Guard, Key, At, Bootstrapping, Assigning, Removing
<1>9. boot = r => OnPlatform(r)
  BY GrantsAssumption DEF IInv, BootHolder
<1> QED
  BY <1>1, <1>4, <1>5, <1>6, <1>8, <1>9, Proceeds DEF OnPlatform, Key, Bootstrapping

LEMMA UpsertGrantInv ==
  ASSUME IInv, NEW r \in Requests, UpsertGrant(r)
  PROVE  IInv'
<1> DEFINE k == Key(r)
           f == [request[r] EXCEPT !.wrote = @ \cup {k}]
           g == [f EXCEPT !.at = "member"]
<1>1. At(r) = "upsert" /\ grantLock' = Take(grantLock, k, r) /\ UNCHANGED <<tables, boot, memberLock, crowned>>
  BY DEF UpsertGrant
<1>2. (k[2] = Platform /\ Advance(r, f)) \/ (k[2] # Platform /\ Becomes(r, g))
  BY DEF UpsertGrant
<1>3. request[r] \in RequestRecords /\ Shape(r) /\ k \in Keys
  BY <1>1, Now
<1>4. /\ f \in RequestRecords /\ f.at = "upsert" /\ f.keys = request[r].keys /\ f.role = request[r].role
      /\ f.id = request[r].id /\ f.dropped = request[r].dropped /\ f.first = request[r].first
      /\ f.wrote = request[r].wrote \cup {k}
  BY <1>1, <1>3 DEF RequestRecords, At
<1>5. f.first => f.wrote = {k}
  BY <1>3, <1>4 DEF Shape, First
<1>6. CASE k[2] = Platform
  <2>1. Advance(r, f)
    BY <1>2, <1>6
  <2> HIDE DEF f
  <2> QED
    BY <1>1, <1>3, <1>4, <1>5, <2>1, AdvanceInv
<1>7. CASE k[2] # Platform
  <2>1. Becomes(r, g) /\ request'[r] = g
    BY <1>2, <1>7, Now
  <2>2. /\ g \in RequestRecords /\ g.at = "member" /\ g.keys = f.keys /\ g.role = f.role
        /\ g.id = f.id /\ g.dropped = f.dropped /\ g.first = f.first /\ g.wrote = f.wrote
    BY <1>4 DEF RequestRecords
  <2> HIDE DEF f, g
  <2>3. ~ request[r].first /\ boot # r
    BY <1>3, <1>7, GrantsAssumption DEF IInv, BootHolder, Shape, First, OnPlatform
  <2>4. Shape(r)' /\ Guard(r)'
    BY <1>1, <1>3, <1>4, <2>1, <2>2, <2>3 DEF Shape, Guard, Key, At, Bootstrapping, Assigning, Removing
  <2> QED
    BY <1>1, <1>3, <1>4, <2>1, <2>2, <2>3, <2>4, Proceeds DEF Bootstrapping
<1> QED
  BY <1>6, <1>7

LEMMA UpsertMemberInv ==
  ASSUME IInv, NEW r \in Requests, UpsertMember(r)
  PROVE  IInv'
<1>1. /\ At(r) = "member" /\ Advance(r, request[r]) /\ memberLock' = Take(memberLock, Key(r), r)
      /\ UNCHANGED <<tables, boot, grantLock, crowned>>
  BY DEF UpsertMember
<1>2. request[r] \in RequestRecords /\ ~ request[r].first
  BY <1>1, Now DEF Shape, First
<1>3. Key(r) \in Members \/ memberLock' = memberLock
  BY <1>1 DEF IInv, LocksHeld, Take
<1> QED
  BY <1>1, <1>2, <1>3, AdvanceInv

\* An assignment takes nobody's grant: admins are only added.
LEMMA AdminsGrow ==
  ASSUME IInv, NEW r \in Requests, Commit(r)
  PROVE  /\ Admins \subseteq Admins'
         /\ \A k \in request[r].wrote : k \in Keys /\ grants'[k] \in Roles /\ grants'[k] # "none"
<1>1. TypeOK /\ At(r) = "commit" /\ request[r] \in RequestRecords /\ request[r].role \in Roles
  BY Now DEF IInv, Commit, Shape, Assigning
<1>2. /\ request[r].role # "none" /\ request[r].wrote \subseteq Keys
      /\ users' = users \cup {k[1] : k \in request[r].wrote}
      /\ grants' = [k \in Keys |-> IF k \in request[r].wrote THEN request[r].role ELSE grants[k]]
  BY <1>1, GrantsAssumption DEF Commit, RequestRecords
<1>3. \A k \in request[r].wrote : k \in Keys /\ grants'[k] \in Roles /\ grants'[k] # "none"
  BY <1>1, <1>2
<1>4. ASSUME NEW u \in Admins PROVE u \in Admins'
  <2>1. u \in users /\ <<u, Platform>> \in Keys /\ grants[<<u, Platform>>] # "none"
    BY <1>1, <1>4 DEF Admins, Granted, TypeOK, Keys, Scopes
  <2>2. grants'[<<u, Platform>>] # "none"
    BY <1>2, <2>1
  <2> QED
    BY <1>2, <2>1, <2>2 DEF Admins, Granted
<1> QED
  BY <1>3, <1>4

LEMMA CommitInv ==
  ASSUME IInv, NEW r \in Requests, Commit(r)
  PROVE  IInv'
<1> DEFINE wrote == request[r].wrote
<1>1. /\ TypeOK /\ At(r) = "commit" /\ request[r] \in RequestRecords /\ request[r].role \in Roles
      /\ wrote \subseteq Keys /\ Shape(r)
  BY Now DEF IInv, Commit, Shape, Assigning, RequestRecords
<1>2. /\ request' = [request EXCEPT ![r] = Idle] /\ Unlock(r)
      /\ grants' = [k \in Keys |-> IF k \in wrote THEN request[r].role ELSE grants[k]]
      /\ members' = [k \in Members |-> IF k \in wrote THEN request[r].role ELSE members[k]]
      /\ users' = users \cup {k[1] : k \in wrote}
      /\ crowned' = IF request[r].first THEN crowned \cup {k[1] : k \in wrote} ELSE crowned
  BY DEF Commit, End, Becomes
<1>3. /\ request'[r] = Idle /\ request' \in [Requests -> RequestRecords]
      /\ \A q \in Requests : q # r => Kept(q)
  BY <1>1, <1>2, IdleTyped DEF TypeOK, Kept
<1>4. users' \subseteq Users /\ crowned' \subseteq users'
  BY <1>1, <1>2 DEF TypeOK, Keys
<1>5. grants' \in [Keys -> Roles \cup {"none"}] /\ members' \in [Members -> Roles \cup {"none"}]
  BY <1>1, <1>2 DEF TypeOK
<1>6. Admins \subseteq Admins'
  BY AdminsGrow
<1>7. TwoAdmins => TwoAdmins'
  BY <1>6 DEF TwoAdmins
<1>8. request[r].first => boot = r /\ crowned = {} /\ wrote = {Key(r)} /\ Key(r)[2] = Platform
  BY <1>1 DEF Shape, First, OnPlatform
<1>9. Crown'
  <2>1. CASE ~ request[r].first
    BY <1>2, <1>6, <2>1 DEF IInv, Crown
  <2>2. CASE request[r].first
    <3>1. crowned' = {Key(r)[1]}
      BY <1>2, <1>8, <2>2
    <3>2. Key(r) \in Keys /\ Key(r) = <<Key(r)[1], Platform>> /\ grants'[Key(r)] # "none"
      BY <1>1, <1>8, <2>2, AdminsGrow DEF Keys
    <3>3. Key(r)[1] \in Admins'
      BY <1>2, <1>8, <2>2, <3>2 DEF Admins, Granted
    <3> QED
      BY <3>1, <3>3 DEF Crown
  <2> QED
    BY <2>1, <2>2
<1>10. GrantsHaveMembers'
  <2>1. SUFFICES ASSUME NEW k \in Members, grants'[k] # "none" PROVE members'[k] = grants'[k]
    BY DEF GrantsHaveMembers, Granted
  <2>2. k \in Keys
    BY DEF Members, Keys, Scopes
  <2> QED
    BY <1>2, <2>1, <2>2 DEF IInv, GrantsHaveMembers, Granted
<1> QED
  BY <1>2, <1>3, <1>4, <1>5, <1>7, <1>8, <1>9, <1>10, Ends

-----------------------------------------------------------------------------
(* Removals.                                                               *)

\* A step of a removal that only goes on.
LEMMA GoesOn ==
  ASSUME IInv, NEW r \in Requests, NEW step \in {"find", "drop", "take"}, Goto(r, step),
         At(r) \in Removing \ {"erase"}, UNCHANGED <<tables, boot, grantLock, crowned>>,
         UNCHANGED memberLock,
         step = "drop" => Key(r) \in Members,
         Key(r)[2] = Platform => boot = r /\ TwoAdmins
  PROVE  IInv'
<1> DEFINE f == [request[r] EXCEPT !.at = step]
<1>1. Becomes(r, f)
  BY DEF Goto
<1>2. /\ request[r] \in RequestRecords /\ Shape(r) /\ request'[r] = f
      /\ request[r].keys # <<>> /\ ~ request[r].first /\ Key(r) \in Keys
  BY <1>1, Now DEF Shape, First, Removing
<1>3. /\ f \in RequestRecords /\ f.at = step /\ f.keys = request[r].keys /\ f.wrote = request[r].wrote
      /\ f.dropped = request[r].dropped /\ f.first = request[r].first
  BY <1>2 DEF RequestRecords
<1> HIDE DEF f
<1>4. boot = r => OnPlatform(r)
  BY GrantsAssumption DEF IInv, BootHolder
<1>5. OnPlatform(r) => step \in {"find", "take"}
  BY GrantsAssumption DEF OnPlatform, Members
<1>6. TwoAdmins' = TwoAdmins
  BY DEF TwoAdmins, Admins, Granted, tables
<1>7. Shape(r)' /\ Guard(r)'
  BY <1>2, <1>3, <1>6 DEF Shape, Guard, Key, At, Bootstrapping, Assigning, Removing
<1> QED
  BY <1>1, <1>2, <1>3, <1>4, <1>5, <1>7, Proceeds DEF OnPlatform, Key, Bootstrapping

\* Two are counted when there are two.
LEMMA CountsTwo == OthersRemain => TwoAdmins
<1>1. SUFFICES ASSUME ~ TwoAdmins PROVE ~ OthersRemain
  OBVIOUS
<1>2. CASE Admins = {}
  BY <1>2, FS_EmptySet DEF OthersRemain
<1>3. CASE Admins # {}
  <2>1. PICK u \in Admins : TRUE
    BY <1>3
  <2>2. Admins = {u}
    BY <1>1, <2>1 DEF TwoAdmins
  <2>3. Cardinality({u}) = 1
    BY FS_Singleton
  <2> QED
    BY <2>2, <2>3 DEF OthersRemain
<1> QED
  BY <1>2, <1>3

LEMMA CountInv ==
  ASSUME IInv, NEW r \in Requests, Count(r)
  PROVE  IInv'
<1>1. At(r) = "count" /\ boot = r
  BY Now DEF Count, Guard
<1>2. CASE OthersRemain
  <2>1. Goto(r, "find") /\ UNCHANGED <<tables, locks, crowned>> /\ TwoAdmins
    BY <1>2, CountsTwo DEF Count
  <2> QED
    BY <1>1, <2>1, GoesOn DEF locks, Removing
<1>3. CASE ~ OthersRemain
  BY <1>3, RollsBack DEF Count
<1> QED
  BY <1>2, <1>3

LEMMA FindInv ==
  ASSUME IInv, NEW r \in Requests, Find(r)
  PROVE  IInv'
<1> DEFINE step == IF Key(r)[2] = Platform THEN "take" ELSE "drop"
<1>1. At(r) = "find" /\ Key(r) \in Keys /\ Guard(r)
  BY Now DEF Find
<1>2. CASE request[r].id # "gone"
  <2>1. Goto(r, step) /\ UNCHANGED <<tables, locks, crowned>>
    BY <1>2 DEF Find
  <2>2. step = "drop" => Key(r) \in Members
    BY <1>1 DEF Keys, Members, Scopes
  <2>3. Key(r)[2] = Platform => boot = r /\ TwoAdmins
    BY <1>1 DEF Guard
  <2> QED
    BY <1>1, <2>1, <2>2, <2>3, GoesOn DEF locks, Removing
<1>3. CASE request[r].id = "gone"
  BY <1>3, RollsBack DEF Find
<1> QED
  BY <1>2, <1>3

LEMMA DropMemberInv ==
  ASSUME IInv, NEW r \in Requests, DropMember(r)
  PROVE  IInv'
<1> DEFINE k == Key(r)
           f == [request[r] EXCEPT !.at = "take", !.dropped = {k}]
<1>1. At(r) = "drop" /\ UNCHANGED <<tables, boot, grantLock, crowned>>
  BY DEF DropMember
<1>2. request[r] \in RequestRecords /\ Shape(r) /\ k \in Members /\ ~ request[r].first
  BY <1>1, Now DEF Shape, First
<1>3. k[2] # Platform /\ boot # r
  BY <1>1, <1>2, GrantsAssumption DEF Members, IInv, TypeOK, LocksHeld
<1>4. CASE members[k] = "none"
  <2>1. Goto(r, "take") /\ UNCHANGED memberLock
    BY <1>4 DEF DropMember
  <2> QED
    BY <1>1, <1>3, <2>1, GoesOn DEF Removing
<1>5. CASE members[k] # "none"
  <2>1. memberLock' = Take(memberLock, k, r) /\ Becomes(r, f)
    BY <1>5 DEF DropMember
  <2>2. /\ f \in RequestRecords /\ f.at = "take" /\ f.keys = request[r].keys
        /\ f.wrote = request[r].wrote /\ f.dropped = {k} /\ f.first = request[r].first
    BY <1>2 DEF RequestRecords
  <2>3. request'[r] = f
    BY <2>1, Now
  <2> HIDE DEF f
  <2>4. Shape(r)' /\ Guard(r)'
    BY <1>1, <1>2, <1>3, <2>2, <2>3 DEF Shape, Guard, Key, At, Bootstrapping, Assigning, Removing
  <2> QED
    BY <1>1, <1>2, <1>3, <2>1, <2>2, <2>4, Proceeds DEF Bootstrapping
<1> QED
  BY <1>4, <1>5

LEMMA TakeGrantInv ==
  ASSUME IInv, NEW r \in Requests, TakeGrant(r)
  PROVE  IInv'
<1> DEFINE k == Key(r)
           f == [request[r] EXCEPT !.at = "erase", !.wrote = {k}]
<1>1. At(r) = "take" /\ request[r] \in RequestRecords /\ Shape(r) /\ Guard(r) /\ k \in Keys
  BY Now DEF TakeGrant
<1>2. CASE Granted(k) /\ request[r].id # "gone"
  <2>1. /\ grantLock' = Take(grantLock, k, r) /\ Becomes(r, f)
        /\ UNCHANGED <<tables, boot, memberLock, crowned>>
    BY <1>2 DEF TakeGrant
  <2>2. /\ f \in RequestRecords /\ f.at = "erase" /\ f.keys = request[r].keys
        /\ f.wrote = {k} /\ f.dropped = request[r].dropped /\ f.first = request[r].first
    BY <1>1 DEF RequestRecords
  <2>3. request'[r] = f
    BY <2>1, Now
  <2>4. TwoAdmins' = TwoAdmins
    BY <2>1 DEF TwoAdmins, Admins, Granted, tables
  <2>5. boot = r => OnPlatform(r)
    BY GrantsAssumption DEF IInv, BootHolder
  <2>6. ~ request[r].first /\ request[r].wrote = {} /\ request[r].keys # <<>>
    BY <1>1 DEF Shape, First, Removing
  <2> HIDE DEF f
  <2>7. Shape(r)' /\ Guard(r)'
    BY <1>1, <2>1, <2>2, <2>3, <2>4, <2>6
       DEF Shape, Guard, Key, At, Bootstrapping, Assigning, Removing
  <2> QED
    BY <1>1, <2>1, <2>2, <2>5, <2>6, <2>7, Proceeds DEF OnPlatform, Key, Bootstrapping
<1>3. CASE ~ (Granted(k) /\ request[r].id # "gone")
  BY <1>3, RollsBack DEF TakeGrant, NotFound
<1> QED
  BY <1>2, <1>3

\* Of two admins one remains; who removes a grant of a workspace removes none.
LEMMA EraseLeavesOne ==
  ASSUME IInv, NEW r \in Requests, Erase(r)
  PROVE  /\ boot # r => Admins' = Admins
         /\ Admins # {} => Admins' # {}
<1>1. /\ TypeOK /\ request[r].wrote = {Key(r)} /\ Key(r) \in Keys
      /\ Key(r)[2] = Platform => boot = r /\ TwoAdmins
  BY Now DEF IInv, Erase, Shape, Guard
<1>2. /\ grants' = [k \in Keys |-> IF k = Key(r) THEN "none" ELSE grants[k]]
      /\ users' = users
  BY <1>1 DEF Erase
<1>3. \A u \in users : <<u, Platform>> \in Keys
  BY <1>1 DEF TypeOK, Keys, Scopes
<1>4. CASE Key(r)[2] # Platform
  <2>1. Admins' = Admins
    BY <1>2, <1>3, <1>4 DEF Admins, Granted
  <2> QED
    BY <2>1
<1>5. CASE Key(r)[2] = Platform
  <2>1. PICK u, v \in Admins : u # v
    BY <1>1, <1>5 DEF TwoAdmins
  <2>2. \A w \in Admins : w # Key(r)[1] => w \in Admins'
    BY <1>2, <1>3 DEF Admins, Granted
  <2> QED
    BY <1>1, <1>5, <2>1, <2>2
<1> QED
  BY <1>4, <1>5

LEMMA EraseInv ==
  ASSUME IInv, NEW r \in Requests, Erase(r)
  PROVE  IInv'
<1>1. /\ TypeOK /\ request[r].wrote = {Key(r)} /\ Key(r) \in Keys
      /\ request[r].dropped \subseteq {Key(r)}
  BY Now DEF IInv, Erase, Shape, Removing
<1>2. /\ Forget(r) /\ Unlock(r) /\ UNCHANGED <<users, crowned>>
      /\ grants' = [k \in Keys |-> IF k = Key(r) THEN "none" ELSE grants[k]]
      /\ members' = [k \in Members |-> IF k \in request[r].dropped THEN "none" ELSE members[k]]
  BY <1>1 DEF Erase
<1>3. \A q \in Requests : q # r => Kept(q)
  BY <1>2 DEF Forget, Kept
<1>4. \A q \in Requests : [request[q] EXCEPT !.id = "gone"] \in RequestRecords
  <2>1. SUFFICES ASSUME NEW q \in Requests PROVE [request[q] EXCEPT !.id = "gone"] \in RequestRecords
    OBVIOUS
  <2>2. request[q] \in RequestRecords
    BY <1>1 DEF TypeOK
  <2> QED
    BY <2>2 DEF RequestRecords
<1>5. request'[r] = Idle /\ request' \in [Requests -> RequestRecords]
  <2>1. \A q \in Requests : request[q] \in RequestRecords
    BY <1>1 DEF TypeOK
  <2> QED
    BY <1>2, <1>4, <2>1, IdleTyped DEF Forget
<1>6. /\ users' \subseteq Users /\ crowned' \subseteq users'
      /\ grants' \in [Keys -> Roles \cup {"none"}]
      /\ members' \in [Members -> Roles \cup {"none"}]
  BY <1>1, <1>2 DEF TypeOK
<1>7. boot # r => (TwoAdmins => TwoAdmins')
  BY EraseLeavesOne DEF TwoAdmins
<1>8. Crown'
  BY <1>2, EraseLeavesOne DEF IInv, Crown
<1>9. GrantsHaveMembers'
  <2>1. SUFFICES ASSUME NEW k \in Members, grants'[k] # "none" PROVE members'[k] = grants'[k]
    BY DEF GrantsHaveMembers, Granted
  <2>2. k \in Keys
    BY DEF Members, Keys, Scopes
  <2> QED
    BY <1>1, <1>2, <2>1, <2>2 DEF IInv, GrantsHaveMembers, Granted
<1> QED
  BY <1>2, <1>3, <1>5, <1>6, <1>7, <1>8, <1>9, Ends

-----------------------------------------------------------------------------
(* The theorems.                                                           *)

LEMMA InitInv == Init => IInv
<1> USE GrantsAssumption
<1>1. SUFFICES ASSUME Init PROVE IInv
  OBVIOUS
<1>2. TypeOK
  BY <1>1, IdleTyped DEF Init, TypeOK
<1>3. LocksHeld /\ BootHolder
  BY <1>1 DEF Init, LocksHeld, BootHolder
<1>4. ASSUME NEW r \in Requests PROVE Shape(r) /\ Guard(r)
  BY <1>1 DEF Init, Shape, Guard, Idle, At, Bootstrapping, Assigning, Removing
<1>5. Crown
  BY <1>1 DEF Init, Crown
<1>6. GrantsHaveMembers
  BY <1>1 DEF Init, GrantsHaveMembers, Granted, Members, Keys, Scopes
<1> QED
  BY <1>2, <1>3, <1>4, <1>5, <1>6 DEF IInv

LEMMA StepInv == IInv /\ [Next]_vars => IInv'
<1>1. ASSUME IInv, UNCHANGED vars PROVE IInv'
  <2>1. TypeOK' /\ LocksHeld'
    BY <1>1 DEF IInv, TypeOK, LocksHeld, At, vars, tables, locks
  <2>2. TwoAdmins' = TwoAdmins /\ Crown' /\ GrantsHaveMembers'
    BY <1>1 DEF IInv, TwoAdmins, Crown, GrantsHaveMembers, Admins, Granted, vars, tables
  <2>3. ASSUME NEW r \in Requests PROVE Shape(r)' /\ Guard(r)'
    <3>1. Shape(r) /\ Guard(r)
      BY <1>1 DEF IInv
    <3> QED
      BY <1>1, <2>2, <3>1 DEF Shape, Guard, First, OnPlatform, Key, At, vars, tables, locks
  <2>4. BootHolder'
    BY <1>1 DEF IInv, BootHolder, OnPlatform, Key, vars, locks
  <2> QED
    BY <2>1, <2>2, <2>3, <2>4 DEF IInv
<1>2. ASSUME IInv, NEW r \in Requests, Begin(r) PROVE IInv'
  BY <1>2, ResolveInv, BulkInv, PutInv, DeleteInv, DeleteMembershipInv DEF Begin
<1>3. ASSUME IInv, NEW r \in Requests, Step(r) PROVE IInv'
  BY <1>3, JoinInv, LockInv, AdmitInv, EnterInv, UpsertGrantInv, UpsertMemberInv, CommitInv,
     CountInv, FindInv, DropMemberInv, TakeGrantInv, EraseInv DEF Step
<1>4. ASSUME IInv, NEW r \in Requests, Fail(r) PROVE IInv'
  BY <1>4, RollsBack DEF Fail
<1> QED
  BY <1>1, <1>2, <1>3, <1>4 DEF Next

\* The inductive invariant holds in every reachable state.
THEOREM Invariance == Spec => []IInv
  BY InitInv, StepInv, PTL DEF Spec

\* Every variable has its type, and whoever holds a lock is under way: a
\* transaction that ends, however it ends, leaves none of its locks behind.
THEOREM TypeCorrect == Spec => []TypeOK
<1>1. IInv => TypeOK
  BY DEF IInv
<1> QED
  BY <1>1, Invariance, PTL

\* Every workspace grant has its membership with the same role (Upsert, Delete
\* and DeleteMembership write both rows in one transaction).
THEOREM GrantsKeepMembers == Spec => []GrantsHaveMembers
<1>1. IInv => GrantsHaveMembers
  BY DEF IInv
<1> QED
  BY <1>1, Invariance, PTL

\* At most one person ever becomes Platform Admin for being the first, however
\* many of them ResolveCurrentActor admits at once.
THEOREM OneBootstrapAdminEver == Spec => []OneBootstrapAdmin
<1>1. IInv => OneBootstrapAdmin
  <2>1. SUFFICES ASSUME IInv PROVE Cardinality(crowned) <= 1
    BY DEF OneBootstrapAdmin
  <2>2. CASE crowned = {}
    BY <2>2, FS_EmptySet
  <2>3. CASE crowned # {}
    <3>1. PICK u \in crowned : TRUE
      BY <2>3
    <3>2. crowned = {u}
      BY <2>1, <3>1 DEF IInv, Crown
    <3>3. Cardinality({u}) = 1
      BY FS_Singleton
    <3> QED
      BY <3>2, <3>3
  <2> QED
    BY <2>2, <2>3
<1> QED
  BY <1>1, Invariance, PTL

\* The last Platform Admin is never removed: deletions count the admins under
\* the bootstrap lock, and nobody else takes a grant of the platform away.
THEOREM LastAdminStaysAlways == Spec => LastAdminStays
<1>1. ASSUME IInv, [Next]_vars PROVE Admins # {} => Admins' # {}
  <2>1. UNCHANGED <<users, grants>> => Admins' = Admins
    BY DEF Admins, Granted
  <2>2. ASSUME NEW r \in Requests, Begin(r) \/ Fail(r) PROVE UNCHANGED <<users, grants>>
    BY <2>2 DEF Begin, Resolve, Bulk, Put, Assign, Delete, DeleteMembership, Fail, Rollback, tables
  <2>3. ASSUME NEW r \in Requests, Step(r) PROVE Admins # {} => Admins' # {}
    <3>1. ASSUME Join(r) \/ Enter(r) PROVE Admins \subseteq Admins'
      BY <3>1 DEF Join, Enter, Admins, Granted
    <3>2. CASE \/ LockBootstrap(r) \/ Admit(r) \/ UpsertGrant(r) \/ UpsertMember(r)
               \/ LockPlatform(r) \/ Count(r) \/ Find(r) \/ DropMember(r) \/ TakeGrant(r)
      <4>1. UNCHANGED <<users, grants>>
        BY <3>2 DEF LockBootstrap, Admit, UpsertGrant, UpsertMember, LockPlatform, Count, Find,
                    DropMember, TakeGrant, NotFound, Rollback, tables
      <4> QED
        BY <2>1, <4>1
    <3> QED
      BY <1>1, <2>3, <3>1, <3>2, AdminsGrow, EraseLeavesOne DEF Step
  <2> QED
    BY <1>1, <2>1, <2>2, <2>3 DEF Next, vars, tables
<1> QED
  BY <1>1, Invariance, PTL DEF Spec, LastAdminStays

=============================================================================
