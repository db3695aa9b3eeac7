----------------------------- MODULE ChatProofs -----------------------------
(***************************************************************************)
(* Theorems about Chat for any users, traffic and number of overlapping    *)
(* handlers.  ChatInv is the invariant of the bounds: that a room or a     *)
(* total shows no more messages than were counted in it is not inductive   *)
(* by itself, because a handler writes what it read awaits ago.  What a    *)
(* handler holds was right when it was read, and what it is bounded by     *)
(* only grows.  ChatTypes adds that every sum read is a number, TwiceInv   *)
(* that totals and sums read stay within what was sent and counted, and    *)
(* SlackInv says at each await of a message in a provider's name how far   *)
(* the two totals are from the sums of the rooms.                          *)
(***************************************************************************)
EXTENDS Chat, InductionLemmas, SequenceTheorems

Desks == [provider : Int, member : Int]
Fields == DOMAIN Nothing

\* Nothing is said of the sum a recount reads: no bound depends on it.
Types ==
    /\ room \in [Users -> [Users -> Int]]
    /\ total = [u \in Users |-> total[u]]
    /\ desk \in Desks
    /\ call \in [Calls -> Traffic]
    /\ reg = [a \in Calls |-> reg[a]]
    /\ \A a \in Calls : reg[a] = [f \in Fields |-> reg[a][f]]
    /\ delivered \in [Users -> [Users -> Nat]]
    /\ counted \in [Users -> Nat]

TotalBound ==
    \A u \in Users : u \notin recounted => total[u] \in Int /\ total[u] <= counted[u]

DeskBound == desk.provider + desk.member <= counted[ServiceChat]

\* What a handler about c has read, r, is within the histories d, k and z.
Bounded(r, c, d, k, z) ==
    /\ r.cnt \in Nat /\ r.cnt <= d[c.to][c.from]
    /\ r.ownCnt \in Nat /\ r.ownCnt <= d[c.from][c.to]
    /\ c.to \notin z => r.tot \in Nat /\ r.tot <= k[c.to]
    /\ c.from \notin z => r.ownTot \in Nat /\ r.ownTot <= k[c.from]
    /\ r.desk \in Desks /\ r.desk.provider + r.desk.member <= k[ServiceChat]

RegBound ==
    \A a \in Calls : Bounded(reg[a], call[a], delivered, counted, recounted)

ChatInv ==
    Types /\ RoomNeverOvercounts /\ TotalBound /\ DeskBound /\ RegBound

\* The histories only grow.
Grow ==
    /\ delivered' \in [Users -> [Users -> Nat]]
    /\ counted' \in [Users -> Nat]
    /\ \A u, v \in Users : delivered[u][v] <= delivered'[u][v]
    /\ \A u \in Users : counted[u] <= counted'[u]
    /\ recounted \subseteq recounted'
-----------------------------------------------------------------------------
LEMMA CallUsers ==
    ASSUME Types, NEW a \in Calls
    PROVE  call[a] \in Orders /\ To(a) \in Users /\ From(a) \in Users
  BY ChatAssumption DEF Types, Orders, To, From

LEMMA BoundedGrows ==
    ASSUME NEW r, NEW c \in Orders, NEW d \in [Users -> [Users -> Nat]],
           NEW k \in [Users -> Nat], NEW z, NEW d2 \in [Users -> [Users -> Nat]],
           NEW k2 \in [Users -> Nat], NEW z2,
           Bounded(r, c, d, k, z), z \subseteq z2,
           \A u, v \in Users : d[u][v] <= d2[u][v],
           \A u \in Users : k[u] <= k2[u]
    PROVE  Bounded(r, c, d2, k2, z2)
  <1>1. c.to \in Users /\ c.from \in Users /\ ServiceChat \in Users
    BY ChatAssumption DEF Orders
  <1>2. r.cnt \in Nat /\ r.cnt <= d2[c.to][c.from]
    BY <1>1 DEF Bounded
  <1>3. r.ownCnt \in Nat /\ r.ownCnt <= d2[c.from][c.to]
    BY <1>1 DEF Bounded
  <1>4. c.to \notin z2 => r.tot \in Nat /\ r.tot <= k2[c.to]
    BY <1>1 DEF Bounded
  <1>5. c.from \notin z2 => r.ownTot \in Nat /\ r.ownTot <= k2[c.from]
    BY <1>1 DEF Bounded
  <1>6. r.desk \in Desks /\ r.desk.provider + r.desk.member <= k2[ServiceChat]
    BY <1>1 DEF Bounded, Desks
  <1> QED
    BY <1>2, <1>3, <1>4, <1>5, <1>6 DEF Bounded

LEMMA RegBoundGrows ==
    ASSUME ChatInv, Grow, UNCHANGED <<reg, call>>
    PROVE  RegBound'
  <1> SUFFICES ASSUME NEW a \in Calls
               PROVE  Bounded(reg[a], call[a], delivered', counted', recounted')
    BY DEF RegBound
  <1>1. call[a] \in Orders
    BY CallUsers DEF ChatInv
  <1>2. Bounded(reg[a], call[a], delivered, counted, recounted)
    BY DEF ChatInv, RegBound
  <1> QED
    BY <1>1, <1>2, BoundedGrows DEF ChatInv, Types, Grow

-----------------------------------------------------------------------------
(* What a step may write, and the invariant stays.                         *)

LEMMA PutRoomHolds ==
    ASSUME ChatInv, NEW u \in Users, NEW v \in Users, NEW n \in Int,
           PutRoom(u, v, n), Grow, n <= delivered'[u][v],
           UNCHANGED <<total, desk, reg, call, counted, recounted>>
    PROVE  ChatInv'
  <1>1. Types'
    BY DEF ChatInv, Types, PutRoom, Grow
  <1>2. RoomNeverOvercounts'
    <2> SUFFICES ASSUME NEW x \in Users, NEW y \in Users
                 PROVE  room'[x][y] <= delivered'[x][y]
      BY DEF RoomNeverOvercounts
    <2>1. room[x][y] \in Int /\ delivered[x][y] \in Nat /\ delivered'[x][y] \in Nat
      BY DEF ChatInv, Types, Grow
    <2>2. room[x][y] <= delivered[x][y] /\ delivered[x][y] <= delivered'[x][y]
      BY DEF ChatInv, RoomNeverOvercounts, Grow
    <2>3. CASE x = u /\ y = v
      BY <2>3 DEF ChatInv, Types, PutRoom
    <2>4. CASE ~(x = u /\ y = v)
      <3>1. room'[x][y] = room[x][y]
        BY <2>4 DEF ChatInv, Types, PutRoom
      <3> QED
        BY <3>1, <2>1, <2>2
    <2> QED
      BY <2>3, <2>4
  <1>3. TotalBound' /\ DeskBound'
    BY DEF ChatInv, TotalBound, DeskBound
  <1> QED
    BY <1>1, <1>2, <1>3, RegBoundGrows DEF ChatInv

LEMMA PutTotalHolds ==
    ASSUME ChatInv, NEW u \in Users, NEW n, total' = [total EXCEPT ![u] = n], Grow,
           u \notin recounted' => n \in Int /\ n <= counted'[u],
           desk' \in Desks, desk'.provider + desk'.member <= counted'[ServiceChat],
           UNCHANGED <<room, reg, call, delivered>>
    PROVE  ChatInv'
  <1>1. Types'
    <2>1. total' = [x \in Users |-> total'[x]]
      BY DEF ChatInv, Types
    <2> QED
      BY <2>1 DEF ChatInv, Types, Grow
  <1>2. TotalBound'
    <2> SUFFICES ASSUME NEW x \in Users, x \notin recounted'
                 PROVE  total'[x] \in Int /\ total'[x] <= counted'[x]
      BY DEF TotalBound
    <2>1. CASE x = u
      BY <2>1 DEF ChatInv, Types
    <2>2. CASE x # u
      <3>1. total'[x] = total[x]
        BY <2>2 DEF ChatInv, Types
      <3>2. total[x] \in Int /\ total[x] <= counted[x]
        BY DEF ChatInv, TotalBound, Grow
      <3>3. counted[x] \in Nat /\ counted'[x] \in Nat /\ counted[x] <= counted'[x]
        BY DEF ChatInv, Types, Grow
      <3> QED
        BY <3>1, <3>2, <3>3
    <2> QED
      BY <2>1, <2>2
  <1>3. RoomNeverOvercounts' /\ DeskBound'
    BY DEF ChatInv, RoomNeverOvercounts, DeskBound
  <1> QED
    BY <1>1, <1>2, <1>3, RegBoundGrows DEF ChatInv

LEMMA KeepHolds ==
    ASSUME ChatInv, NEW a \in Calls, NEW r, Keep(a, r),
           r = [f \in Fields |-> r[f]],
           Bounded(r, call[a], delivered, counted, recounted)
    PROVE  ChatInv'
  <1> USE DEF ChatInv
  <1>1. UNCHANGED <<room, total, desk, call, delivered, counted, recounted>>
    BY DEF Keep, Go, Goto, Then, counters, history
  <1>2. reg' = [reg EXCEPT ![a] = r]
    BY DEF Keep
  <1>3. reg'[a] = r /\ \A b \in Calls : b # a => reg'[b] = reg[b]
    BY <1>2 DEF Types
  <1>4. Types'
    <2>1. reg' = [b \in Calls |-> reg'[b]]
      BY <1>2 DEF Types
    <2>2. \A b \in Calls : reg'[b] = [f \in Fields |-> reg'[b][f]]
      BY <1>3 DEF Types
    <2> QED
      BY <1>1, <2>1, <2>2 DEF Types
  <1>5. RegBound'
    BY <1>1, <1>3 DEF RegBound
  <1> QED
    BY <1>1, <1>4, <1>5 DEF RoomNeverOvercounts, TotalBound, DeskBound
-----------------------------------------------------------------------------
(* What a read gives.                                                      *)

LEMMA CountBound ==
    ASSUME ChatInv, NEW u \in Users, NEW v \in Users
    PROVE  Count(u, v) \in Nat /\ Count(u, v) <= delivered[u][v]
  <1>1. room[u][v] \in Int /\ delivered[u][v] \in Nat /\ room[u][v] <= delivered[u][v]
    BY DEF ChatInv, Types, RoomNeverOvercounts
  <1> QED
    BY <1>1 DEF Count

LEMMA TotalRead ==
    ASSUME ChatInv, NEW u \in Users, u \notin recounted
    PROVE  Total(u) \in Nat /\ Total(u) <= counted[u]
  <1>1. total[u] \in Int /\ counted[u] \in Nat /\ total[u] <= counted[u]
    BY DEF ChatInv, Types, TotalBound
  <1> QED
    BY <1>1 DEF Total

\* A register with one field replaced is a register, and the others stay.
LEMMA PutField ==
    ASSUME NEW r, r = [f \in Fields |-> r[f]], NEW x, NEW y, NEW g \in Fields,
           x = [r EXCEPT ![g] = y]
    PROVE  /\ x = [f \in Fields |-> x[f]]
           /\ x[g] = y
           /\ \A f \in Fields : f # g => x[f] = r[f]
  OBVIOUS

LEMMA FieldNames ==
    Fields = {"cnt", "tot", "ownCnt", "ownTot", "sum", "mir", "had", "desk"}
  BY DEF Fields, Nothing

LEMMA RegRecord ==
    ASSUME ChatInv, NEW a \in Calls
    PROVE  /\ reg[a] = [f \in Fields |-> reg[a][f]]
           /\ Bounded(reg[a], call[a], delivered, counted, recounted)
  BY DEF ChatInv, Types, RegBound

-----------------------------------------------------------------------------
(* The actions.                                                            *)

LEMMA GrowStutters ==
    ASSUME ChatInv, UNCHANGED history
    PROVE  Grow
  BY DEF ChatInv, Types, Grow, history

LEMMA QuietHolds ==
    ASSUME ChatInv, UNCHANGED <<room, total, desk, reg, call, history>>
    PROVE  ChatInv'
  <1>1. Types'
    BY DEF ChatInv, Types, history
  <1>2. RoomNeverOvercounts' /\ TotalBound' /\ DeskBound'
    BY DEF ChatInv, RoomNeverOvercounts, TotalBound, DeskBound, history
  <1>3. RegBound'
    BY GrowStutters, RegBoundGrows
  <1> QED
    BY <1>1, <1>2, <1>3 DEF ChatInv

LEMMA ReadCountHolds ==
    ASSUME ChatInv, NEW a \in Calls, ReadCount(a)
    PROVE  ChatInv'
  <1> DEFINE r1 == [reg[a] EXCEPT !.cnt = Count(To(a), From(a))]
             r2 == [reg[a] EXCEPT !.ownCnt = Count(From(a), To(a))]
  <1> USE RegRecord, CallUsers, CountBound
  <1>1. CASE Keep(a, r1)
    <2>1. r1 = [f \in Fields |-> r1[f]]
      BY PutField, FieldNames
    <2>2. /\ r1.cnt = Count(To(a), From(a)) /\ r1.ownCnt = reg[a].ownCnt
          /\ r1.tot = reg[a].tot /\ r1.ownTot = reg[a].ownTot /\ r1.desk = reg[a].desk
      BY PutField, FieldNames
    <2>3. Bounded(r1, call[a], delivered, counted, recounted)
      BY <2>2 DEF Bounded, ChatInv, To, From
    <2> HIDE DEF r1
    <2> QED
      BY <1>1, <2>1, <2>3, KeepHolds
  <1>2. CASE Keep(a, r2)
    <2>1. r2 = [f \in Fields |-> r2[f]]
      BY PutField, FieldNames
    <2>2. /\ r2.ownCnt = Count(From(a), To(a)) /\ r2.cnt = reg[a].cnt
          /\ r2.tot = reg[a].tot /\ r2.ownTot = reg[a].ownTot /\ r2.desk = reg[a].desk
      BY PutField, FieldNames
    <2>3. Bounded(r2, call[a], delivered, counted, recounted)
      BY <2>2 DEF Bounded, ChatInv, To, From
    <2> HIDE DEF r2
    <2> QED
      BY <1>2, <2>1, <2>3, KeepHolds
  <1> HIDE DEF r1, r2
  <1>3. Keep(a, r1) \/ Keep(a, r2)
    BY DEF ReadCount, r1, r2
  <1> QED
    BY <1>1, <1>2, <1>3

LEMMA ReadTotalHolds ==
    ASSUME ChatInv, NEW a \in Calls, ReadTotal(a)
    PROVE  ChatInv'
  <1> DEFINE r1 == [reg[a] EXCEPT !.tot = Total(To(a))]
             r2 == [reg[a] EXCEPT !.ownTot = Total(From(a))]
  <1> USE RegRecord, CallUsers, TotalRead
  <1>1. CASE Keep(a, r1)
    <2>1. r1 = [f \in Fields |-> r1[f]]
      BY PutField, FieldNames
    <2>2. /\ r1.tot = Total(To(a)) /\ r1.cnt = reg[a].cnt /\ r1.ownCnt = reg[a].ownCnt
          /\ r1.ownTot = reg[a].ownTot /\ r1.desk = reg[a].desk
      BY PutField, FieldNames
    <2>3. Bounded(r1, call[a], delivered, counted, recounted)
      BY <2>2 DEF Bounded, ChatInv, To, From
    <2> HIDE DEF r1
    <2> QED
      BY <1>1, <2>1, <2>3, KeepHolds
  <1>2. CASE Keep(a, r2)
    <2>1. r2 = [f \in Fields |-> r2[f]]
      BY PutField, FieldNames
    <2>2. /\ r2.ownTot = Total(From(a)) /\ r2.cnt = reg[a].cnt
          /\ r2.ownCnt = reg[a].ownCnt /\ r2.tot = reg[a].tot /\ r2.desk = reg[a].desk
      BY PutField, FieldNames
    <2>3. Bounded(r2, call[a], delivered, counted, recounted)
      BY <2>2 DEF Bounded, ChatInv, To, From
    <2> HIDE DEF r2
    <2> QED
      BY <1>2, <2>1, <2>3, KeepHolds
  <1> HIDE DEF r1, r2
  <1>3. Keep(a, r1) \/ Keep(a, r2)
    BY DEF ReadTotal, r1, r2
  <1> QED
    BY <1>1, <1>2, <1>3

\* Fields no bound speaks of may hold anything.
LEMMA FreeFieldHolds ==
    ASSUME ChatInv, NEW a \in Calls, NEW g \in {"sum", "mir", "had"}, NEW y, NEW r,
           r = [reg[a] EXCEPT ![g] = y], Keep(a, r)
    PROVE  ChatInv'
  <1>1. reg[a] = [f \in Fields |-> reg[a][f]]
    BY RegRecord
  <1>2. r = [f \in Fields |-> r[f]] /\ \A f \in Fields : f # g => r[f] = reg[a][f]
    BY <1>1, PutField, FieldNames
  <1>3. /\ r.cnt = reg[a].cnt /\ r.ownCnt = reg[a].ownCnt /\ r.tot = reg[a].tot
        /\ r.ownTot = reg[a].ownTot /\ r.desk = reg[a].desk
    BY <1>2, FieldNames
  <1>4. Bounded(r, call[a], delivered, counted, recounted)
    BY <1>3, RegRecord DEF Bounded
  <1> QED
    BY <1>2, <1>4, KeepHolds

LEMMA ReadOtherHolds ==
    ASSUME ChatInv, NEW a \in Calls, CheckDoc(a) \/ ReadSum(a) \/ ReadMirror(a)
    PROVE  ChatInv'
  <1>1. CASE CheckDoc(a)
    <2>1. \E y : Keep(a, [reg[a] EXCEPT !.had = y])
      BY <1>1 DEF CheckDoc
    <2> QED
      BY <2>1, FreeFieldHolds
  <1>2. CASE ReadSum(a)
    <2>1. \E y : Keep(a, [reg[a] EXCEPT !.sum = y])
      BY <1>2 DEF ReadSum
    <2> QED
      BY <2>1, FreeFieldHolds
  <1>3. CASE ReadMirror(a)
    <2>1. \E y : Keep(a, [reg[a] EXCEPT !.mir = y])
      BY <1>3 DEF ReadMirror
    <2> QED
      BY <2>1, FreeFieldHolds
  <1> QED
    BY <1>1, <1>2, <1>3

LEMMA ReadDeskHolds ==
    ASSUME ChatInv, NEW a \in Calls, ReadDesk(a)
    PROVE  ChatInv'
  <1> DEFINE r == [reg[a] EXCEPT !.desk = desk]
  <1> USE RegRecord
  <1>1. r = [f \in Fields |-> r[f]]
    BY PutField, FieldNames
  <1>2. /\ r.desk = desk /\ r.cnt = reg[a].cnt /\ r.ownCnt = reg[a].ownCnt
        /\ r.tot = reg[a].tot /\ r.ownTot = reg[a].ownTot
    BY PutField, FieldNames
  <1>3. Bounded(r, call[a], delivered, counted, recounted)
    BY <1>2 DEF Bounded, ChatInv, DeskBound, Types
  <1>4. Keep(a, r)
    BY DEF ReadDesk
  <1> HIDE DEF r
  <1> QED
    BY <1>1, <1>3, <1>4, KeepHolds

\* Writes of a room that no message comes with.
LEMMA RoomOnlyHolds ==
    ASSUME ChatInv, NEW u \in Users, NEW v \in Users, NEW n \in Int, PutRoom(u, v, n),
           n <= delivered[u][v], UNCHANGED <<total, desk, reg, call, history>>
    PROVE  ChatInv'
  BY GrowStutters, PutRoomHolds DEF history

LEMMA NatDelivered ==
    ASSUME ChatInv, NEW u \in Users, NEW v \in Users
    PROVE  delivered[u][v] \in Nat
  BY DEF ChatInv, Types

LEMMA DeliverGrows ==
    ASSUME ChatInv, NEW u \in Users, NEW v \in Users, Deliver(u, v),
           UNCHANGED <<counted, recounted>>
    PROVE  Grow /\ delivered'[u][v] = delivered[u][v] + 1
  BY DEF ChatInv, Types, Deliver, Grow

LEMMA EntryHolds ==
    ASSUME ChatInv, NEW a \in Calls, SetEntry(a) \/ Zero(a) \/ KeepOwn(a)
    PROVE  ChatInv'
  <1> USE CallUsers, NatDelivered DEF ChatInv
  <1>1. UNCHANGED <<total, desk, reg, call, history>>
    BY DEF SetEntry, Zero, KeepOwn, Go, Goto, Then
  <1>2. \/ PutRoom(To(a), From(a), Unset) \/ PutRoom(From(a), To(a), Unset)
        \/ PutRoom(To(a), From(a), 0) \/ PutRoom(From(a), To(a), reg[a].ownCnt)
    BY DEF SetEntry, Zero, KeepOwn
  <1>3. reg[a].ownCnt \in Nat /\ reg[a].ownCnt <= delivered[From(a)][To(a)]
    BY RegRecord DEF Bounded, From, To
  <1>4. /\ Unset \in Int /\ Unset <= delivered[From(a)][To(a)]
        /\ Unset <= delivered[To(a)][From(a)]
    BY DEF Unset
  <1> HIDE DEF ChatInv
  <1> QED
    BY <1>1, <1>2, <1>3, <1>4, RoomOnlyHolds DEF ChatInv

LEMMA BumpHolds ==
    ASSUME ChatInv, NEW a \in Calls, Bump(a)
    PROVE  ChatInv'
  <1>1. To(a) \in Users /\ From(a) \in Users
    BY CallUsers DEF ChatInv
  <1>2. reg[a].cnt \in Nat /\ reg[a].cnt <= delivered[To(a)][From(a)]
    BY RegRecord DEF Bounded, From, To
  <1>3. PutRoom(To(a), From(a), reg[a].cnt + 1) /\ Deliver(To(a), From(a))
    BY DEF Bump
  <1>4. UNCHANGED <<total, desk, reg, call, counted, recounted>>
    BY DEF Bump, Go, Goto, Then
  <1>5. Grow /\ delivered'[To(a)][From(a)] = delivered[To(a)][From(a)] + 1
    BY <1>1, <1>3, <1>4, DeliverGrows
  <1>6. reg[a].cnt + 1 \in Int /\ reg[a].cnt + 1 <= delivered'[To(a)][From(a)]
    BY <1>1, <1>2, <1>5, NatDelivered
  <1> QED
    BY <1>1, <1>3, <1>4, <1>5, <1>6, PutRoomHolds

LEMMA OwnHolds ==
    ASSUME ChatInv, NEW a \in Calls, Own(a)
    PROVE  ChatInv'
  <1>1. To(a) \in Users /\ From(a) \in Users
    BY CallUsers DEF ChatInv
  <1>2. PutRoom(From(a), To(a), OwnCount(call[a]))
    BY DEF Own
  <1>3. UNCHANGED <<total, desk, reg, call, counted, recounted>>
    BY DEF Own, Go, Goto, Then
  <1>4. CASE call[a].kind = "welcome"
    <2>1. Deliver(From(a), To(a)) /\ OwnCount(call[a]) = 1
      BY <1>4 DEF Own, OwnCount
    <2>2. Grow /\ delivered'[From(a)][To(a)] = delivered[From(a)][To(a)] + 1
      BY <1>1, <1>3, <2>1, DeliverGrows
    <2>3. 1 <= delivered'[From(a)][To(a)]
      BY <1>1, <2>2, NatDelivered
    <2> QED
      BY <1>1, <1>2, <1>3, <2>1, <2>2, <2>3, PutRoomHolds
  <1>5. CASE call[a].kind # "welcome"
    <2>1. UNCHANGED history /\ OwnCount(call[a]) = 0
      BY <1>3, <1>5 DEF Own, OwnCount, history
    <2>2. 0 <= delivered[From(a)][To(a)]
      BY <1>1, NatDelivered
    <2> QED
      BY <1>1, <1>2, <1>3, <2>1, <2>2, RoomOnlyHolds
  <1> QED
    BY <1>4, <1>5

\* One more message counted in the total of u.
LEMMA CountedGrows ==
    ASSUME ChatInv, NEW u \in Users, counted' = [counted EXCEPT ![u] = counted[u] + 1],
           UNCHANGED <<delivered, recounted>>
    PROVE  Grow /\ counted'[u] = counted[u] + 1
  BY DEF ChatInv, Types, Grow

LEMMA DeskStays ==
    ASSUME ChatInv, Grow, UNCHANGED desk
    PROVE  desk' \in Desks /\ desk'.provider + desk'.member <= counted'[ServiceChat]
  <1>1. /\ desk.provider + desk.member <= counted[ServiceChat]
        /\ desk \in Desks /\ counted[ServiceChat] \in Nat
    BY ChatAssumption DEF ChatInv, Types, DeskBound
  <1>2. counted[ServiceChat] <= counted'[ServiceChat] /\ counted'[ServiceChat] \in Nat
    BY ChatAssumption DEF Grow
  <1> QED
    BY <1>1, <1>2 DEF Desks

LEMMA SetUserHolds ==
    ASSUME ChatInv, NEW a \in Calls, SetUser(a)
    PROVE  ChatInv'
  <1>1. Subject(a) \in Users
    BY CallUsers DEF ChatInv, Subject
  <1>2. /\ total' = [total EXCEPT ![Subject(a)] = 0]
        /\ UNCHANGED <<room, desk, reg, call, delivered, counted, recounted>>
    BY DEF SetUser, Go, Goto, Then, history
  <1>3. Grow
    BY <1>2, GrowStutters DEF history
  <1>4. PICK u \in Users : u = Subject(a)
    BY <1>1
  <1>5. 0 \in Int /\ 0 <= counted'[u]
    BY <1>3 DEF Grow
  <1>6. total' = [total EXCEPT ![u] = 0]
    BY <1>2, <1>4
  <1> QED
    BY <1>2, <1>3, <1>5, <1>6, DeskStays, PutTotalHolds

LEMMA AddTotalHolds ==
    ASSUME ChatInv, NEW a \in Calls, AddTotal(a)
    PROVE  ChatInv'
  <1>1. To(a) \in Users
    BY CallUsers DEF ChatInv
  <1>2. /\ total' = [total EXCEPT ![To(a)] = reg[a].tot + 1]
        /\ counted' = [counted EXCEPT ![To(a)] = counted[To(a)] + 1]
        /\ UNCHANGED <<room, desk, reg, call, delivered, recounted>>
    BY DEF AddTotal, PutTotal, Added, Go, Goto, Then
  <1>3. Grow /\ counted'[To(a)] = counted[To(a)] + 1
    BY <1>1, <1>2, CountedGrows
  <1>4. To(a) \notin recounted' =>
            reg[a].tot + 1 \in Int /\ reg[a].tot + 1 <= counted'[To(a)]
    <2> SUFFICES ASSUME To(a) \notin recounted
                 PROVE  reg[a].tot + 1 \in Int /\ reg[a].tot + 1 <= counted'[To(a)]
      BY <1>2
    <2>1. reg[a].tot \in Nat /\ reg[a].tot <= counted[To(a)]
      BY RegRecord DEF Bounded, To
    <2>2. counted[To(a)] \in Nat
      BY <1>1 DEF ChatInv, Types
    <2> QED
      BY <1>3, <2>1, <2>2
  <1> QED
    BY <1>1, <1>2, <1>3, <1>4, DeskStays, PutTotalHolds

LEMMA LowerHolds ==
    ASSUME ChatInv, NEW a \in Calls, Lower(a)
    PROVE  ChatInv'
  <1>1. From(a) \in Users
    BY CallUsers DEF ChatInv
  <1>2. /\ total' = [total EXCEPT ![From(a)] = Lowered(a)]
        /\ UNCHANGED <<room, desk, reg, call, delivered, counted, recounted>>
    BY DEF Lower, PutTotal, Go, Goto, Then
  <1>3. Grow
    BY <1>2, GrowStutters DEF history
  <1>4. From(a) \notin recounted' =>
            Lowered(a) \in Int /\ Lowered(a) <= counted'[From(a)]
    <2> SUFFICES ASSUME From(a) \notin recounted
                 PROVE  Lowered(a) \in Int /\ Lowered(a) <= counted[From(a)]
      BY <1>2
    <2>1. /\ reg[a].ownTot \in Nat /\ reg[a].ownTot <= counted[From(a)]
          /\ reg[a].ownCnt \in Nat
      BY RegRecord DEF Bounded, From
    <2>2. counted[From(a)] \in Nat
      BY <1>1 DEF ChatInv, Types
    <2> QED
      BY <2>1, <2>2 DEF Lowered
  <1> QED
    BY <1>1, <1>2, <1>3, <1>4, DeskStays, PutTotalHolds

LEMMA SetTotalHolds ==
    ASSUME ChatInv, NEW a \in Calls, SetTotal(a)
    PROVE  ChatInv'
  <1>1. To(a) \in Users
    BY CallUsers DEF ChatInv
  <1>2. /\ total' = [total EXCEPT ![To(a)] = reg[a].sum]
        /\ recounted' = recounted \cup {To(a)}
        /\ UNCHANGED <<room, desk, reg, call, delivered, counted>>
    BY DEF SetTotal, PutTotal, Go, Goto, Then
  <1>3. Grow
    BY <1>2 DEF ChatInv, Types, Grow
  <1>4. To(a) \in recounted'
    BY <1>2
  <1> QED
    BY <1>1, <1>2, <1>3, <1>4, DeskStays, PutTotalHolds

LEMMA AddDeskHolds ==
    ASSUME ChatInv, NEW a \in Calls, AddDesk(a)
    PROVE  ChatInv'
  <1> DEFINE d  == reg[a].desk
             d1 == IF call[a].provider THEN [d EXCEPT !.provider = d.provider + 1]
                                       ELSE [d EXCEPT !.member = d.member + 1]
             n  == d1.provider + d1.member
  <1>1. /\ desk' = d1 /\ total' = [total EXCEPT ![ServiceChat] = n]
        /\ counted' = [counted EXCEPT ![ServiceChat] = counted[ServiceChat] + 1]
        /\ UNCHANGED <<room, reg, call, delivered, recounted>>
    BY DEF AddDesk, Go, Goto, Then
  <1>2. Grow /\ counted'[ServiceChat] = counted[ServiceChat] + 1
    BY <1>1, CountedGrows, ChatAssumption
  <1>3. d \in Desks /\ d.provider + d.member <= counted[ServiceChat]
    BY RegRecord DEF Bounded
  <1>4. counted[ServiceChat] \in Nat
    BY ChatAssumption DEF ChatInv, Types
  <1>5. d1 \in Desks /\ n = d.provider + d.member + 1
    BY <1>3 DEF Desks
  <1>6. n \in Int /\ n <= counted'[ServiceChat]
    BY <1>2, <1>3, <1>4, <1>5 DEF Desks
  <1>7. desk' \in Desks /\ desk'.provider + desk'.member <= counted'[ServiceChat]
    BY <1>1, <1>5, <1>6
  <1> HIDE DEF n
  <1> QED
    BY <1>1, <1>2, <1>6, <1>7, PutTotalHolds, ChatAssumption

\* Steps that change neither a counter nor what a handler holds.
LEMMA OtherHolds ==
    ASSUME ChatInv, NEW a \in Calls,
           \/ Start(a) \/ Abort(a) \/ CheckUser(a) \/ CheckEntry(a) \/ SetMirror(a)
           \/ RefuseEntry(a) \/ RefuseDoc(a)
    PROVE  ChatInv'
  <1>1. UNCHANGED <<room, total, desk, reg, call, history>>
    BY DEF Start, Abort, CheckUser, CheckEntry, SetMirror, RefuseEntry, RefuseDoc,
           Fail, Go, Goto, Then, counters
  <1> QED
    BY <1>1, QuietHolds

-----------------------------------------------------------------------------
LEMMA InitHolds == Init => ChatInv
  <1> SUFFICES ASSUME Init PROVE ChatInv
    OBVIOUS
  <1>1. Types
    BY DEF Init, Types, Desks, Absent, Unset, Fields, Nothing
  <1>2. RoomNeverOvercounts
    BY DEF Init, RoomNeverOvercounts, Absent, Unset
  <1>3. TotalBound
    BY DEF Init, TotalBound, Absent
  <1>4. DeskBound
    BY ChatAssumption DEF Init, DeskBound
  <1>5. RegBound
    <2> SUFFICES ASSUME NEW a \in Calls
                 PROVE  Bounded(reg[a], call[a], delivered, counted, recounted)
      BY DEF RegBound
    <2>1. reg[a] = Nothing /\ call[a] \in Orders
      BY CallUsers, <1>1 DEF Init
    <2>2. \A u, v \in Users : delivered[u][v] = 0 /\ counted[u] = 0
      BY DEF Init
    <2> QED
      BY <2>1, <2>2, ChatAssumption DEF Bounded, Nothing, Desks, Orders
  <1> QED
    BY <1>1, <1>2, <1>3, <1>4, <1>5 DEF ChatInv

LEMMA StepHolds == ChatInv /\ [Next]_vars => ChatInv'
  <1> SUFFICES ASSUME ChatInv, [Next]_vars PROVE ChatInv'
    OBVIOUS
  <1>1. CASE UNCHANGED vars
    BY <1>1, QuietHolds DEF vars, counters
  <1>2. CASE Next
    <2>1. PICK a \in Calls : Start(a) \/ Step(a) \/ Abort(a)
      BY <1>2 DEF Next
    <2> QED
      BY <2>1, ReadCountHolds, ReadTotalHolds, ReadOtherHolds, ReadDeskHolds, EntryHolds,
         BumpHolds, OwnHolds, SetUserHolds, AddTotalHolds, LowerHolds, SetTotalHolds,
         AddDeskHolds, OtherHolds DEF Step
  <1> QED
    BY <1>1, <1>2

THEOREM ChatInvariant == Spec => []ChatInv
  BY InitHolds, StepHolds, PTL DEF Spec

\* However senders, readers, recounts and bulk messages overlap and wherever an
\* await throws, a room never shows more messages than were counted in it
\* (setUnreadCountAndLastMessage and its callers).
THEOREM RoomsNeverOvercount == Spec => []RoomNeverOvercounts
  <1>1. ChatInv => RoomNeverOvercounts
    BY DEF ChatInv
  <1> QED
    BY <1>1, ChatInvariant, PTL

\* Until a recount writes a user's total, the total never exceeds the messages
\* counted in it, the service chat's own total among them
\* (updateUserUnReadMessageCount, updateServiceChatUnReadMessageCount).
THEOREM TotalsNeverOvercount == Spec => []TotalNeverOvercounts
  <1>1. ChatInv => TotalNeverOvercounts
    BY DEF ChatInv, TotalBound, TotalNeverOvercounts
  <1> QED
    BY <1>1, ChatInvariant, PTL

-----------------------------------------------------------------------------
(* The types of all variables.  That no sum is negative needs the lemmas   *)
(* about sums; that an await is one of Awaits, the programs.               *)

Desk == [provider : Nat, member : Nat]
Registers == [cnt : Nat, tot : Nat, ownCnt : Nat, ownTot : Nat, sum : Nat \cup {Unset},
              mir : Nat \cup {Unset}, had : BOOLEAN, desk : Desk]

ChatTypes == TypeOK /\ todo \in [Calls -> Seq(Awaits)]

LEMMA TypedUsers ==
    ASSUME call \in [Calls -> Traffic], NEW a \in Calls
    PROVE  call[a] \in Orders /\ To(a) \in Users /\ From(a) \in Users
  BY ChatAssumption DEF Orders, To, From

\* The counts of a user's rooms add up to a natural number.
LEMMA SumIsNat ==
    ASSUME room \in [Users -> [Users -> Nat \cup {Absent, Unset}]], NEW u \in Users
    PROVE  Sum(u) \in Nat /\ \A v \in Users : Count(u, v) \in Nat
  <1> DEFINE f == [v \in Users |-> Count(u, v)]
  <1>1. \A v \in Users : Count(u, v) \in Nat
    BY DEF Count, Absent, Unset
  <1>2. \A v \in Users : f[v] \in Nat
    BY <1>1
  <1>3. SumFunctionOnSet(f, Users) \in Nat
    <2> HIDE DEF f
    <2> QED
      BY <1>2, SumNat, ChatAssumption
  <1> QED
    BY <1>1, <1>3 DEF Sum, SumFunction

LEMMA ProgramTypes ==
    ASSUME NEW c \in Orders
    PROVE  Program(c) \in Seq(Awaits)
  <1>1. CopyCount(c) \in Seq(Awaits) /\ CountTotal(c) \in Seq(Awaits)
    <2>1. /\ <<"desk", "addDesk">> \in Seq(Awaits) /\ <<"mirror", "setMirror">> \in Seq(Awaits)
          /\ <<"total", "doc", "addTotal">> \in Seq(Awaits) /\ <<>> \in Seq(Awaits)
      BY SMT DEF Awaits
    <2> QED
      BY <2>1 DEF CopyCount, CountTotal
  <1>2. Back \in Seq(Awaits) /\ Lowering \in Seq(Awaits)
    BY SMT DEF Back, Lowering, OwnLast, Awaits
  <1>3. Recounting \in Seq(Awaits)
    BY SMT DEF Recounting, Awaits
  <1>4. /\ <<"user", "entry">> \in Seq(Awaits) /\ <<"count", "bump">> \in Seq(Awaits)
        /\ <<"own">> \in Seq(Awaits) /\ <<"entry", "zero">> \in Seq(Awaits)
        /\ <<"zero">> \in Seq(Awaits) /\ <<"entry">> \in Seq(Awaits)
        /\ <<"user", "ownEntry", "entry">> \in Seq(Awaits)
    BY SMT DEF Awaits
  <1>5. /\ <<"count", "bump", "own", "mirror", "setMirror">> \in Seq(Awaits)
        /\ <<"count", "bump", "total", "doc", "addTotal">> \in Seq(Awaits)
    BY SMT DEF Awaits
  <1>6. <<"entry", "user", "count", "bump", "total", "doc", "addTotal">> \in Seq(Awaits)
    BY SMT DEF Awaits
  <1>7. \A x, y \in Seq(Awaits) : x \o y \in Seq(Awaits)
    OBVIOUS
  <1>8. Message(c) \in Seq(Awaits)
    BY <1>1, <1>4, <1>7 DEF Message
  <1>9. ASSUME c.kind = "send" PROVE Program(c) \in Seq(Awaits)
    <2>1. Program(c) = <<"user", "entry">> \o Message(c)
      BY <1>9 DEF Program
    <2> QED
      BY <2>1, <1>1, <1>2, <1>3, <1>4, <1>5, <1>6, <1>7, <1>8
  <1>10. ASSUME c.kind = "self" PROVE Program(c) \in Seq(Awaits)
    <2>1. Program(c) = <<"own">> \o CopyCount(c)
      BY <1>10 DEF Program
    <2> QED
      BY <2>1, <1>1, <1>2, <1>3, <1>4, <1>5, <1>6, <1>7, <1>8
  <1>11. ASSUME c.kind = "register" PROVE Program(c) \in Seq(Awaits)
    <2>1. Program(c) = <<"user", "ownEntry", "entry">>
      BY <1>11 DEF Program
    <2> QED
      BY <2>1, <1>1, <1>2, <1>3, <1>4, <1>5, <1>6, <1>7, <1>8
  <1>12. ASSUME c.kind = "welcome" PROVE Program(c) \in Seq(Awaits)
    <2>1. Program(c) = <<"user", "ownEntry", "entry">> \o Message(c)
      BY <1>12 DEF Program
    <2> QED
      BY <2>1, <1>1, <1>2, <1>3, <1>4, <1>5, <1>6, <1>7, <1>8
  <1>13. ASSUME c.kind = "cms" PROVE Program(c) \in Seq(Awaits)
    <2>1. Program(c) = <<"count", "bump", "own", "mirror", "setMirror">>
      BY <1>13 DEF Program
    <2> QED
      BY <2>1, <1>1, <1>2, <1>3, <1>4, <1>5, <1>6, <1>7, <1>8
  <1>14. ASSUME c.kind = "ai" PROVE Program(c) \in Seq(Awaits)
    <2>1. Program(c) = <<"count", "bump", "total", "doc", "addTotal">> \o Lowering
      BY <1>14 DEF Program
    <2> QED
      BY <2>1, <1>1, <1>2, <1>3, <1>4, <1>5, <1>6, <1>7, <1>8
  <1>15. ASSUME c.kind = "notify" PROVE Program(c) \in Seq(Awaits)
    <2>1. Program(c) = <<"entry", "user", "count", "bump", "total", "doc", "addTotal">> \o Back
      BY <1>15 DEF Program
    <2> QED
      BY <2>1, <1>1, <1>2, <1>3, <1>4, <1>5, <1>6, <1>7, <1>8
  <1>16. ASSUME c.kind = "read" PROVE Program(c) \in Seq(Awaits)
    <2>1. Program(c) = <<"entry", "zero">>
      BY <1>16 DEF Program
    <2> QED
      BY <2>1, <1>1, <1>2, <1>3, <1>4, <1>5, <1>6, <1>7, <1>8
  <1>17. ASSUME c.kind = "remove" PROVE Program(c) \in Seq(Awaits)
    <2>1. Program(c) = <<"zero">>
      BY <1>17 DEF Program
    <2> QED
      BY <2>1, <1>1, <1>2, <1>3, <1>4, <1>5, <1>6, <1>7, <1>8
  <1>18. ASSUME c.kind = "open" PROVE Program(c) \in Seq(Awaits)
    <2>1. Program(c) = <<"entry">>
      BY <1>18 DEF Program
    <2> QED
      BY <2>1, <1>1, <1>2, <1>3, <1>4, <1>5, <1>6, <1>7, <1>8
  <1>19. ASSUME c.kind = "recount" PROVE Program(c) \in Seq(Awaits)
    <2>1. Program(c) = Recounting
      BY <1>19 DEF Program
    <2> QED
      BY <2>1, <1>1, <1>2, <1>3, <1>4, <1>5, <1>6, <1>7, <1>8
  <1> QED
    BY <1>9, <1>10, <1>11, <1>12, <1>13, <1>14, <1>15, <1>16, <1>17, <1>18, <1>19 DEF Orders, Kinds

\* Where the handlers are, and what they and the counters hold.
Control ==
    /\ call \in [Calls -> Traffic] /\ todo \in [Calls -> Seq(Awaits)]
    /\ idle \subseteq Calls /\ disturbed \subseteq Calls /\ failed \subseteq Calls

Counters ==
    /\ room \in [Users -> [Users -> Nat \cup {Absent, Unset}]]
    /\ total \in [Users -> Nat \cup {Absent}]
    /\ mirror \in [Users -> Nat \cup {Unset}]
    /\ desk \in Desk
Histories ==
    /\ delivered \in [Users -> [Users -> Nat]]
    /\ counted \in [Users -> Nat]
    /\ recounted \subseteq Users

LEMMA TypesParts ==
    /\ ChatTypes <=> Control /\ Counters /\ Histories /\ reg \in [Calls -> Registers]
    /\ ChatTypes' <=> Control' /\ Counters' /\ Histories' /\ reg' \in [Calls -> Registers]
  <1>1. todo \in [Calls -> Seq(Awaits)] =>
            \A a \in Calls : \A i \in DOMAIN todo[a] : todo[a][i] \in Awaits
    OBVIOUS
  <1>2. todo' \in [Calls -> Seq(Awaits)] =>
            \A a \in Calls : \A i \in DOMAIN todo'[a] : todo'[a][i] \in Awaits
    OBVIOUS
  <1>3. ChatTypes <=> Control /\ Counters /\ Histories /\ reg \in [Calls -> Registers]
    BY <1>1 DEF ChatTypes, TypeOK, Control, Counters, Histories, Registers, Desk
  <1>4. ChatTypes' <=> Control' /\ Counters' /\ Histories' /\ reg' \in [Calls -> Registers]
    BY <1>2 DEF ChatTypes, TypeOK, Control, Counters, Histories, Registers, Desk
  <1> QED
    BY <1>3, <1>4

LEMMA ThenTypes ==
    ASSUME Control, NEW a \in Calls, NEW rest \in Seq(Awaits), Then(a, rest),
           failed' \in {failed, failed \cup {a}}
    PROVE  Control'
  BY DEF Control, Then, Disturb, Running

LEMMA TailTypes ==
    ASSUME Control, NEW a \in Calls, todo[a] # <<>>, Go(a)
    PROVE  Control'
  <1>1. Tail(todo[a]) \in Seq(Awaits)
    BY DEF Control
  <1> QED
    BY <1>1, ThenTypes DEF Go, Goto

LEMMA FailTypes ==
    ASSUME Control, NEW a \in Calls, Fail(a)
    PROVE  Control'
  <1>1. Back \in Seq(Awaits) /\ <<>> \in Seq(Awaits)
    BY SMT DEF Back, Awaits
  <1> QED
    BY <1>1, ThenTypes DEF Fail

\* A document or an entry that is missing is set first.
LEMMA SetFirstTypes ==
    ASSUME Control, NEW a \in Calls, todo[a] # <<>>,
           NEW w \in Awaits, NEW p \in BOOLEAN,
           Goto(a, IF p THEN <<w>> \o Tail(todo[a]) ELSE Tail(todo[a]))
    PROVE  Control'
  <1>1. Tail(todo[a]) \in Seq(Awaits) /\ <<w>> \o Tail(todo[a]) \in Seq(Awaits)
    BY DEF Control
  <1> QED
    BY <1>1, ThenTypes DEF Goto

LEMMA StartTypes ==
    ASSUME Control, NEW a \in Calls, Start(a)
    PROVE  Control'
  <1>1. Program(call[a]) \in Seq(Awaits)
    BY TypedUsers, ProgramTypes DEF Control
  <1> QED
    BY <1>1 DEF Control, Start, Running

LEMMA StepControl ==
    ASSUME Control, NEW a \in Calls, Start(a) \/ Step(a) \/ Abort(a)
    PROVE  Control'
  <1>1. CASE Start(a)
    BY <1>1, StartTypes
  <1>2. CASE Abort(a) \/ RefuseEntry(a) \/ RefuseDoc(a)
    BY <1>2, FailTypes DEF Abort, RefuseEntry, RefuseDoc
  <1>3. CASE CheckUser(a)
    BY <1>3, SetFirstTypes DEF CheckUser, MakesUser, At, Awaits
  <1>4. CASE CheckEntry(a)
    BY <1>4, SetFirstTypes DEF CheckEntry, At, Awaits
  <1>5. CASE SetUser(a) \/ SetEntry(a) \/ Bump(a) \/ Own(a) \/ Zero(a) \/ KeepOwn(a)
    BY <1>5, TailTypes DEF SetUser, SetEntry, Bump, Own, Zero, KeepOwn, At
  <1>6. CASE ReadCount(a) \/ ReadTotal(a) \/ CheckDoc(a) \/ ReadSum(a) \/ ReadDesk(a)
             \/ ReadMirror(a)
    <2>1. todo[a] # <<>> /\ \E r : Keep(a, r)
      BY <1>6 DEF ReadCount, ReadTotal, CheckDoc, ReadSum, ReadDesk, ReadMirror, At
    <2> QED
      BY <2>1, TailTypes DEF Keep
  <1>7. CASE AddTotal(a) \/ Lower(a) \/ SetTotal(a)
    BY <1>7, TailTypes DEF AddTotal, Lower, SetTotal, PutTotal, At
  <1>8. CASE AddDesk(a) \/ SetMirror(a)
    BY <1>8, TailTypes DEF AddDesk, SetMirror, At
  <1> QED
    BY <1>1, <1>2, <1>3, <1>4, <1>5, <1>6, <1>7, <1>8 DEF Step

-----------------------------------------------------------------------------
LEMMA TypedReg ==
    ASSUME reg \in [Calls -> Registers], NEW a \in Calls
    PROVE  /\ reg[a] \in Registers
           /\ reg[a].cnt \in Nat /\ reg[a].tot \in Nat /\ reg[a].ownCnt \in Nat
           /\ reg[a].ownTot \in Nat /\ reg[a].sum \in Nat \cup {Unset}
           /\ reg[a].mir \in Nat \cup {Unset} /\ reg[a].had \in BOOLEAN
           /\ reg[a].desk \in Desk
  BY DEF Registers

LEMMA TotalIsNat ==
    ASSUME Counters, NEW u \in Users
    PROVE  Total(u) \in Nat
  BY DEF Counters, Total, Absent

\* Steps after which a handler holds what it held before.
LEMMA QuietReg ==
    ASSUME NEW a \in Calls
    PROVE  /\ Start(a) \/ Abort(a) \/ CheckUser(a) \/ SetUser(a) \/ CheckEntry(a) \/ SetEntry(a)
              \/ RefuseEntry(a) \/ RefuseDoc(a) => UNCHANGED reg
           /\ Bump(a) \/ Own(a) \/ Zero(a) \/ KeepOwn(a) \/ AddTotal(a) \/ Lower(a)
              \/ SetTotal(a) \/ AddDesk(a) \/ SetMirror(a) => UNCHANGED reg
  <1>1. Start(a) \/ Abort(a) \/ CheckUser(a) \/ SetUser(a) \/ CheckEntry(a) \/ SetEntry(a)
           \/ RefuseEntry(a) \/ RefuseDoc(a) => UNCHANGED reg
    BY DEF Start, Abort, Fail, CheckUser, SetUser, CheckEntry, SetEntry, RefuseEntry, RefuseDoc
  <1>2. Bump(a) \/ Own(a) \/ Zero(a) \/ KeepOwn(a) \/ AddTotal(a) \/ Lower(a) \/ SetTotal(a)
           \/ AddDesk(a) \/ SetMirror(a) => UNCHANGED reg
    BY DEF Bump, Own, Zero, KeepOwn, AddTotal, Lower, SetTotal, PutTotal, AddDesk, SetMirror
  <1> QED
    BY <1>1, <1>2

\* What a call is about never changes.
LEMMA StepCall ==
    ASSUME NEW a \in Calls, Start(a) \/ Step(a) \/ Abort(a)
    PROVE  call' = call
  <1>1. \A rest : Then(a, rest) => call' = call
    BY DEF Then
  <1>2. Go(a) => call' = call
    BY DEF Go, Goto, Then
  <1>3. Fail(a) => call' = call
    BY <1>1 DEF Fail
  <1>4. Start(a) \/ Abort(a) \/ RefuseEntry(a) \/ RefuseDoc(a) => call' = call
    BY <1>3 DEF Start, Abort, RefuseEntry, RefuseDoc
  <1>5. CheckUser(a) \/ CheckEntry(a) => call' = call
    BY <1>1 DEF CheckUser, CheckEntry, Goto
  <1>6. SetUser(a) \/ SetEntry(a) \/ Bump(a) \/ Own(a) \/ Zero(a) \/ KeepOwn(a) => call' = call
    BY <1>2 DEF SetUser, SetEntry, Bump, Own, Zero, KeepOwn
  <1>7. ReadCount(a) \/ ReadTotal(a) \/ CheckDoc(a) \/ ReadSum(a) \/ ReadDesk(a) \/ ReadMirror(a)
            => call' = call
    BY <1>2 DEF ReadCount, ReadTotal, CheckDoc, ReadSum, ReadDesk, ReadMirror, Keep
  <1>8. AddTotal(a) \/ Lower(a) \/ SetTotal(a) \/ AddDesk(a) \/ SetMirror(a) => call' = call
    BY <1>2 DEF AddTotal, Lower, SetTotal, PutTotal, AddDesk, SetMirror
  <1> QED
    BY <1>4, <1>5, <1>6, <1>7, <1>8 DEF Step

LEMMA StepRegisters ==
    ASSUME ChatTypes, NEW a \in Calls, Start(a) \/ Step(a) \/ Abort(a)
    PROVE  reg' \in [Calls -> Registers]
  <1> USE TypesParts
  <1>1. reg \in [Calls -> Registers] /\ reg[a] \in Registers
    OBVIOUS
  <1>2. To(a) \in Users /\ From(a) \in Users /\ call[a] \in Orders
    BY TypedUsers DEF Control
  <1>3. \A u, v \in Users : Count(u, v) \in Nat /\ Total(u) \in Nat /\ Sum(u) \in Nat
    BY SumIsNat, TotalIsNat DEF Counters
  <1>4. CASE ReadCount(a)
    BY <1>1, <1>2, <1>3, <1>4 DEF ReadCount, Keep, Registers
  <1>5. CASE ReadTotal(a)
    BY <1>1, <1>2, <1>3, <1>5 DEF ReadTotal, Keep, Registers
  <1>6. CASE CheckDoc(a)
    <2>1. PICK y \in BOOLEAN : Keep(a, [reg[a] EXCEPT !.had = y])
      BY <1>6 DEF CheckDoc
    <2> QED
      BY <1>1, <2>1 DEF Keep, Registers
  <1>7. CASE ReadSum(a)
    BY <1>1, <1>2, <1>3, <1>7 DEF ReadSum, Summed, Keep, Registers
  <1>8. CASE ReadDesk(a)
    BY <1>1, <1>8 DEF ReadDesk, Keep, Registers, Counters
  <1>9. CASE ReadMirror(a)
    <2>1. Copier(a) \in Users /\ ServiceChat \in Users
      BY <1>2, ChatAssumption DEF Copier
    <2>2. room[Copier(a)][ServiceChat] \in Nat \cup {Absent, Unset}
      BY <2>1 DEF Counters
    <2>3. PICK y \in Nat \cup {Unset} : Keep(a, [reg[a] EXCEPT !.mir = y])
      BY <1>9, <2>2 DEF ReadMirror, Absent, Unset
    <2> QED
      BY <1>1, <2>3 DEF Keep, Registers
  <1>10. CASE UNCHANGED reg
    BY <1>1, <1>10
  <1> QED
    BY <1>4, <1>5, <1>6, <1>7, <1>8, <1>9, <1>10, QuietReg DEF Step

LEMMA PutRoomTypes ==
    ASSUME Counters, NEW u \in Users, NEW v \in Users, NEW n \in Nat \cup {Unset},
           PutRoom(u, v, n), UNCHANGED <<total, mirror, desk>>
    PROVE  Counters'
  BY DEF Counters, PutRoom

LEMMA PutTotalTypes ==
    ASSUME Counters, NEW a \in Calls, NEW u \in Users, NEW n \in Nat, PutTotal(a, u, n)
    PROVE  Counters'
  BY DEF Counters, PutTotal

LEMMA StepCounters ==
    ASSUME ChatTypes, NEW a \in Calls, Start(a) \/ Step(a) \/ Abort(a)
    PROVE  Counters'
  <1> USE TypesParts
  <1>1. To(a) \in Users /\ From(a) \in Users /\ call[a] \in Orders
    BY TypedUsers DEF Control
  <1>2. Subject(a) \in Users /\ Copier(a) \in Users /\ ServiceChat \in Users
    BY <1>1, ChatAssumption DEF Subject, Copier
  <1> DEFINE r == reg[a]
  <1>3. /\ r.cnt \in Nat /\ r.tot \in Nat /\ r.ownCnt \in Nat /\ r.ownTot \in Nat
        /\ r.sum \in Nat \cup {Unset} /\ r.mir \in Nat \cup {Unset} /\ r.desk \in Desk
    BY TypedReg
  <1>4. CASE SetUser(a)
    BY <1>2, <1>4 DEF SetUser, Counters
  <1>5. CASE SetEntry(a)
    BY <1>1, <1>5, PutRoomTypes DEF SetEntry
  <1>6. CASE Bump(a)
    <2>1. r.cnt + 1 \in Nat
      BY <1>3
    <2> QED
      BY <1>1, <1>6, <2>1, PutRoomTypes DEF Bump
  <1>7. CASE Own(a)
    <2>1. OwnCount(call[a]) \in Nat
      BY DEF OwnCount
    <2> QED
      BY <1>1, <1>7, <2>1, PutRoomTypes DEF Own
  <1>8. CASE Zero(a)
    BY <1>1, <1>8, PutRoomTypes DEF Zero
  <1>9. CASE KeepOwn(a)
    BY <1>1, <1>3, <1>9, PutRoomTypes DEF KeepOwn
  <1>10. CASE AddTotal(a)
    <2>1. Added(a) \in Nat
      BY <1>3 DEF Added
    <2> QED
      BY <1>1, <1>10, <2>1, PutTotalTypes DEF AddTotal
  <1>11. CASE Lower(a)
    <2>1. Lowered(a) \in Nat
      BY <1>3 DEF Lowered
    <2> QED
      BY <1>1, <1>11, <2>1, PutTotalTypes DEF Lower
  <1>12. CASE SetTotal(a)
    <2>1. r.sum \in Nat
      BY <1>3, <1>12 DEF SetTotal
    <2> QED
      BY <1>1, <1>12, <2>1, PutTotalTypes DEF SetTotal
  <1>13. CASE AddDesk(a)
    <2> DEFINE d  == reg[a].desk
               d1 == IF call[a].provider THEN [d EXCEPT !.provider = d.provider + 1]
                                         ELSE [d EXCEPT !.member = d.member + 1]
    <2>1. d1 \in Desk /\ d1.provider + d1.member \in Nat
      BY <1>3 DEF Desk
    <2>2. /\ desk' = d1 /\ total' = [total EXCEPT ![ServiceChat] = d1.provider + d1.member]
          /\ UNCHANGED <<room, mirror>>
      BY <1>13 DEF AddDesk
    <2> HIDE DEF d1
    <2> QED
      BY <1>2, <2>1, <2>2 DEF Counters
  <1>14. CASE SetMirror(a)
    BY <1>2, <1>3, <1>14 DEF SetMirror, Counters
  <1>15. CASE UNCHANGED counters
    BY <1>15 DEF counters, Counters
  <1>16. Start(a) \/ Abort(a) \/ CheckUser(a) \/ CheckEntry(a) \/ RefuseEntry(a) \/ RefuseDoc(a)
            => UNCHANGED counters
    BY DEF Start, Abort, Fail, CheckUser, CheckEntry, RefuseEntry, RefuseDoc
  <1>17. ReadCount(a) \/ ReadTotal(a) \/ CheckDoc(a) \/ ReadSum(a) \/ ReadDesk(a) \/ ReadMirror(a)
            => UNCHANGED counters
    BY DEF ReadCount, ReadTotal, CheckDoc, ReadSum, ReadDesk, ReadMirror, Keep
  <1> QED
    BY <1>4, <1>5, <1>6, <1>7, <1>8, <1>9, <1>10, <1>11, <1>12, <1>13, <1>14, <1>15, <1>16,
       <1>17 DEF Step

\* Steps after which no message is counted that was not before.
LEMMA QuietHistory ==
    ASSUME NEW a \in Calls
    PROVE  /\ Start(a) \/ Abort(a) \/ CheckUser(a) \/ SetUser(a) \/ CheckEntry(a) \/ SetEntry(a)
              \/ Zero(a) \/ KeepOwn(a) \/ RefuseEntry(a) \/ RefuseDoc(a) => UNCHANGED history
           /\ ReadCount(a) \/ ReadTotal(a) \/ CheckDoc(a) \/ ReadSum(a) \/ ReadDesk(a)
              \/ ReadMirror(a) \/ SetMirror(a) => UNCHANGED history
  <1>1. Start(a) \/ Abort(a) \/ CheckUser(a) \/ SetUser(a) \/ CheckEntry(a) \/ SetEntry(a)
           \/ Zero(a) \/ KeepOwn(a) \/ RefuseEntry(a) \/ RefuseDoc(a) => UNCHANGED history
    BY DEF Start, Abort, Fail, CheckUser, SetUser, CheckEntry, SetEntry, Zero, KeepOwn,
           RefuseEntry, RefuseDoc
  <1>2. ReadCount(a) \/ ReadTotal(a) \/ CheckDoc(a) \/ ReadSum(a) \/ ReadDesk(a) \/ ReadMirror(a)
           \/ SetMirror(a) => UNCHANGED history
    BY DEF ReadCount, ReadTotal, CheckDoc, ReadSum, ReadDesk, ReadMirror, Keep, SetMirror
  <1> QED
    BY <1>1, <1>2

LEMMA DeliverTypes ==
    ASSUME Histories, NEW u \in Users, NEW v \in Users, Deliver(u, v),
           UNCHANGED <<counted, recounted>>
    PROVE  Histories'
  <1>1. PICK n \in Nat : n = delivered[u][v] + 1
    BY DEF Histories
  <1>2. delivered' = [delivered EXCEPT ![u] = [delivered[u] EXCEPT ![v] = n]]
    BY <1>1 DEF Deliver
  <1> QED
    BY <1>2 DEF Histories

LEMMA StepHistories ==
    ASSUME ChatTypes, NEW a \in Calls, Start(a) \/ Step(a) \/ Abort(a)
    PROVE  Histories'
  <1> USE TypesParts
  <1>1. To(a) \in Users /\ From(a) \in Users /\ ServiceChat \in Users
    BY TypedUsers, ChatAssumption DEF Control
  <1>2. CASE Bump(a) \/ Own(a)
    <2>1. /\ Deliver(To(a), From(a)) \/ Deliver(From(a), To(a)) \/ UNCHANGED delivered
          /\ UNCHANGED <<counted, recounted>>
      BY <1>2 DEF Bump, Own
    <2> QED
      BY <1>1, <2>1, DeliverTypes DEF Histories
  <1>3. CASE AddTotal(a) \/ Lower(a) \/ SetTotal(a)
    BY <1>1, <1>3 DEF AddTotal, Lower, SetTotal, PutTotal, Histories
  <1>4. CASE AddDesk(a)
    BY <1>1, <1>4 DEF AddDesk, Histories
  <1>5. CASE UNCHANGED history
    BY <1>5 DEF history, Histories
  <1> QED
    BY <1>2, <1>3, <1>4, <1>5, QuietHistory DEF Step

LEMMA InitTypes == Init => ChatTypes
  <1> SUFFICES ASSUME Init PROVE ChatTypes
    OBVIOUS
  <1>1. Control
    BY DEF Init, Control
  <1>2. Counters
    BY DEF Init, Counters, Desk, Absent, Unset
  <1>3. Histories /\ reg \in [Calls -> Registers]
    BY DEF Init, Histories, Registers, Desk, Nothing
  <1> QED
    BY <1>1, <1>2, <1>3, TypesParts

LEMMA StepTypes == ChatTypes /\ [Next]_vars => ChatTypes'
  <1> SUFFICES ASSUME ChatTypes, [Next]_vars PROVE ChatTypes'
    OBVIOUS
  <1>1. CASE UNCHANGED vars
    BY <1>1 DEF vars, counters, history, ChatTypes, TypeOK
  <1>2. CASE Next
    BY <1>2, TypesParts, StepControl, StepCounters, StepHistories, StepRegisters DEF Next
  <1> QED
    BY <1>1, <1>2

THEOREM ChatTypesInvariant == Spec => []ChatTypes
  BY InitTypes, StepTypes, PTL DEF Spec

\* Whatever handlers overlap and wherever they fail, no count, total, sum or copy
\* goes below 0, in the documents and in what a handler has read of them
\* (chats.service.ts, chat-firestore.service.ts).
THEOREM ChatTypesOK == Spec => []TypeOK
  <1>1. ChatTypes => TypeOK
    BY DEF ChatTypes
  <1> QED
    BY <1>1, ChatTypesInvariant, PTL

-----------------------------------------------------------------------------
(* Totals after recounts.  A recount reads at most what was sent to the    *)
(* rooms, so a total is at most that and what was counted in it; what a    *)
(* handler has read of it is as well.                                      *)

Sent(d, u) == SumFunction([v \in Users |-> d[u][v]])

\* What a handler about c has read, r, is within the histories d and k.
Within(r, c, d, k) ==
    /\ r.tot <= Sent(d, c.to) + k[c.to]
    /\ r.ownTot <= Sent(d, c.from) + k[c.from]
    /\ r.sum <= Sent(d, c.to)

RegWithin == \A a \in Calls : Within(reg[a], call[a], delivered, counted)

TwiceInv == ChatInv /\ ChatTypes /\ CountedTwiceAtMost /\ RegWithin

LEMMA SentNat ==
    ASSUME NEW d \in [Users -> [Users -> Nat]], NEW u \in Users
    PROVE  Sent(d, u) \in Nat
  <1> DEFINE f == [v \in Users |-> d[u][v]]
  <1>1. \A v \in Users : f[v] \in Nat
    OBVIOUS
  <1> HIDE DEF f
  <1>2. SumFunctionOnSet(f, Users) \in Nat
    BY <1>1, SumNat, ChatAssumption
  <1> QED
    BY <1>2 DEF Sent, SumFunction, f

LEMMA SentGrows ==
    ASSUME NEW d \in [Users -> [Users -> Nat]], NEW e \in [Users -> [Users -> Nat]],
           \A u, v \in Users : d[u][v] <= e[u][v], NEW u \in Users
    PROVE  Sent(d, u) <= Sent(e, u)
  <1> DEFINE f == [v \in Users |-> d[u][v]]
             g == [v \in Users |-> e[u][v]]
  <1>1. \A v \in Users : f[v] \in Int /\ g[v] \in Int /\ f[v] <= g[v]
    OBVIOUS
  <1>2. DOMAIN f = Users /\ DOMAIN g = Users
    OBVIOUS
  <1> HIDE DEF f, g
  <1>3. SumFunctionOnSet(f, Users) <= SumFunctionOnSet(g, Users)
    BY <1>1, SumMonotone, ChatAssumption
  <1>4. SumFunction(f) <= SumFunction(g)
    BY <1>2, <1>3 DEF SumFunction
  <1> QED
    BY <1>4 DEF Sent, f, g

\* The rooms of a user show no more together than was sent to them.
LEMMA SumWithin ==
    ASSUME ChatInv, NEW u \in Users
    PROVE  Sum(u) <= Sent(delivered, u)
  <1> DEFINE f == [v \in Users |-> Count(u, v)]
             g == [v \in Users |-> delivered[u][v]]
  <1>1. \A v \in Users : f[v] \in Int /\ g[v] \in Int /\ f[v] <= g[v]
    BY CountBound, NatDelivered
  <1>2. DOMAIN f = Users /\ DOMAIN g = Users
    OBVIOUS
  <1> HIDE DEF f, g
  <1>3. SumFunctionOnSet(f, Users) <= SumFunctionOnSet(g, Users)
    BY <1>1, SumMonotone, ChatAssumption
  <1>4. SumFunction(f) <= SumFunction(g)
    BY <1>2, <1>3 DEF SumFunction
  <1> QED
    BY <1>4 DEF Sent, Sum, f, g

LEMMA StepGrows ==
    ASSUME ChatInv, NEW a \in Calls, Start(a) \/ Step(a) \/ Abort(a)
    PROVE  Grow
  <1>1. To(a) \in Users /\ From(a) \in Users /\ ServiceChat \in Users
    BY CallUsers, ChatAssumption DEF ChatInv
  <1>2. CASE Bump(a)
    BY <1>1, <1>2, DeliverGrows DEF Bump
  <1>3. CASE Own(a)
    BY <1>1, <1>3, DeliverGrows, GrowStutters DEF Own, history
  <1>4. CASE AddTotal(a)
    BY <1>1, <1>4, CountedGrows DEF AddTotal, PutTotal
  <1>5. CASE AddDesk(a)
    BY <1>1, <1>5, CountedGrows DEF AddDesk
  <1>6. CASE SetTotal(a)
    <2>1. UNCHANGED <<delivered, counted>> /\ recounted' = recounted \cup {To(a)}
      BY <1>6 DEF SetTotal, PutTotal
    <2> QED
      BY <2>1 DEF ChatInv, Types, Grow
  <1>7. CASE Lower(a)
    BY <1>7, GrowStutters DEF Lower, PutTotal, history
  <1>8. CASE UNCHANGED history
    BY <1>8, GrowStutters
  <1> QED
    BY <1>2, <1>3, <1>4, <1>5, <1>6, <1>7, <1>8, QuietHistory DEF Step

\* What was within the histories stays within them.
LEMMA WithinGrows ==
    ASSUME NEW r \in Registers, NEW c \in Orders, NEW d \in [Users -> [Users -> Nat]],
           NEW k \in [Users -> Nat], NEW e \in [Users -> [Users -> Nat]],
           NEW l \in [Users -> Nat], Within(r, c, d, k),
           \A u, v \in Users : d[u][v] <= e[u][v], \A u \in Users : k[u] <= l[u]
    PROVE  Within(r, c, e, l)
  <1>1. c.to \in Users /\ c.from \in Users
    BY DEF Orders
  <1>2. /\ Sent(d, c.to) \in Nat /\ Sent(e, c.to) \in Nat
        /\ Sent(d, c.from) \in Nat /\ Sent(e, c.from) \in Nat
    BY <1>1, SentNat
  <1>3. Sent(d, c.to) <= Sent(e, c.to) /\ Sent(d, c.from) <= Sent(e, c.from)
    BY <1>1, SentGrows
  <1>4. /\ k[c.to] \in Nat /\ l[c.to] \in Nat /\ k[c.from] \in Nat /\ l[c.from] \in Nat
        /\ k[c.to] <= l[c.to] /\ k[c.from] <= l[c.from]
    BY <1>1
  <1>5. r.tot \in Nat /\ r.ownTot \in Nat /\ r.sum \in Int
    BY DEF Registers, Unset
  <1> QED
    BY <1>2, <1>3, <1>4, <1>5 DEF Within

\* What the total of a user may be.
Limit(u) == Sent(delivered, u) + counted[u]

LEMMA LimitGrows ==
    ASSUME ChatInv, Grow, NEW u \in Users
    PROVE  /\ Limit(u) \in Nat /\ Limit(u)' \in Nat /\ Limit(u) <= Limit(u)'
           /\ counted'[u] <= Limit(u)'
  <1>1. Sent(delivered, u) \in Nat /\ Sent(delivered', u) \in Nat
    BY SentNat DEF ChatInv, Types, Grow
  <1>2. Sent(delivered, u) <= Sent(delivered', u)
    BY SentGrows DEF ChatInv, Types, Grow
  <1>3. counted[u] \in Nat /\ counted'[u] \in Nat /\ counted[u] <= counted'[u]
    BY DEF ChatInv, Types, Grow
  <1> QED
    BY <1>1, <1>2, <1>3 DEF Limit

LEMMA TwiceLimit ==
    /\ CountedTwiceAtMost <=> \A u \in Users : total[u] <= Limit(u)
    /\ CountedTwiceAtMost' <=> \A u \in Users : total'[u] <= Limit(u)'
  BY DEF CountedTwiceAtMost, Limit, Sent

\* A total that is left alone, or written within the limit, is within it.
LEMMA TotalWithin ==
    ASSUME TwiceInv, Counters', Grow, NEW u \in Users, NEW n \in Int, n <= Limit(u)',
           total' = total \/ total' = [total EXCEPT ![u] = n]
    PROVE  CountedTwiceAtMost'
  <1> SUFFICES ASSUME NEW x \in Users PROVE total'[x] <= Limit(x)'
    BY TwiceLimit
  <1>1. total[x] \in Int /\ total \in [Users -> Nat \cup {Absent}]
    BY TypesParts DEF TwiceInv, Counters, Absent
  <1>2. total[x] <= Limit(x)
    BY TwiceLimit DEF TwiceInv
  <1>3. Limit(x) \in Nat /\ Limit(x)' \in Nat /\ Limit(x) <= Limit(x)'
    BY LimitGrows DEF TwiceInv
  <1>4. total'[x] = total[x] \/ (x = u /\ total'[x] = n)
    BY <1>1
  <1> QED
    BY <1>1, <1>2, <1>3, <1>4

LEMMA StepTotals ==
    ASSUME TwiceInv, NEW a \in Calls, Start(a) \/ Step(a) \/ Abort(a), Counters', Grow
    PROVE  CountedTwiceAtMost'
  <1> DEFINE r == reg[a]
  <1>1. To(a) \in Users /\ From(a) \in Users /\ ServiceChat \in Users /\ Subject(a) \in Users
    BY CallUsers, ChatAssumption DEF TwiceInv, ChatInv, Subject
  <1>2. /\ r.tot \in Nat /\ r.ownCnt \in Nat /\ r.ownTot \in Nat /\ r.sum \in Int
        /\ r.desk \in Desk
    BY TypedReg, TypesParts DEF TwiceInv, Unset
  <1>0. PICK t \in Users, f \in Users, u \in Users : t = To(a) /\ f = From(a) /\ u = Subject(a)
    BY <1>1
  <1>3. /\ r.tot <= Limit(t) /\ r.ownTot <= Limit(f)
        /\ r.sum <= Sent(delivered, t)
    BY <1>0 DEF TwiceInv, RegWithin, Within, Limit, To, From
  <1>4. \A x \in Users : /\ Limit(x) \in Nat /\ Limit(x)' \in Nat /\ Limit(x) <= Limit(x)'
                         /\ counted'[x] <= Limit(x)'
    BY LimitGrows DEF TwiceInv
  <1>5. CASE UNCHANGED total
    <2>1. 0 \in Int /\ 0 <= Limit(ServiceChat)'
      BY <1>1, <1>4
    <2> QED
      BY <1>1, <1>5, <2>1, TotalWithin
  <1>6. CASE SetUser(a)
    <2>1. 0 \in Int /\ 0 <= Limit(u)'
      BY <1>4
    <2>2. total' = [total EXCEPT ![u] = 0]
      BY <1>0, <1>6 DEF SetUser
    <2> QED
      BY <2>1, <2>2, TotalWithin
  <1>7. CASE AddTotal(a)
    <2>1. /\ total' = [total EXCEPT ![t] = r.tot + 1]
          /\ counted' = [counted EXCEPT ![t] = counted[t] + 1]
          /\ UNCHANGED delivered
      BY <1>0, <1>7 DEF AddTotal, PutTotal, Added
    <2>2. Limit(t)' = Limit(t) + 1
      <3>1. /\ counted[t] \in Nat /\ counted'[t] = counted[t] + 1
            /\ Sent(delivered, t) \in Nat
        BY <2>1, SentNat DEF TwiceInv, ChatInv, Types
      <3> QED
        BY <2>1, <3>1 DEF Limit
    <2>3. r.tot + 1 \in Int /\ r.tot + 1 <= Limit(t)'
      BY <1>2, <1>3, <1>4, <2>2
    <2> QED
      BY <2>1, <2>3, TotalWithin
  <1>8. CASE Lower(a)
    <2>1. total' = [total EXCEPT ![f] = Lowered(a)]
      BY <1>0, <1>8 DEF Lower, PutTotal
    <2>2. Lowered(a) \in Int /\ Lowered(a) <= Limit(f)'
      <3>1. Lowered(a) \in Nat /\ Lowered(a) <= r.ownTot
        BY <1>2 DEF Lowered
      <3> QED
        BY <1>2, <1>3, <1>4, <3>1
    <2> QED
      BY <2>1, <2>2, TotalWithin
  <1>9. CASE SetTotal(a)
    <2>1. total' = [total EXCEPT ![t] = r.sum]
      BY <1>0, <1>9 DEF SetTotal, PutTotal
    <2>2. Sent(delivered, t) \in Nat /\ counted[t] \in Nat
      BY SentNat DEF TwiceInv, ChatInv, Types
    <2>3. r.sum <= Limit(t)
      BY <1>2, <1>3, <2>2 DEF Limit
    <2>4. r.sum \in Int /\ r.sum <= Limit(t)'
      BY <1>2, <1>4, <2>3
    <2> QED
      BY <2>1, <2>4, TotalWithin
  <1>10. CASE AddDesk(a)
    <2> DEFINE d  == r.desk
               d1 == IF call[a].provider THEN [d EXCEPT !.provider = d.provider + 1]
                                         ELSE [d EXCEPT !.member = d.member + 1]
               n  == d1.provider + d1.member
    <2>1. /\ total' = [total EXCEPT ![ServiceChat] = n]
          /\ counted' = [counted EXCEPT ![ServiceChat] = counted[ServiceChat] + 1]
      BY <1>10 DEF AddDesk
    <2>2. d.provider + d.member <= counted[ServiceChat] /\ counted[ServiceChat] \in Nat
      BY RegRecord, ChatAssumption DEF TwiceInv, ChatInv, Types, Bounded
    <2>3. counted'[ServiceChat] = counted[ServiceChat] + 1
      BY <2>1, ChatAssumption DEF TwiceInv, ChatInv, Types
    <2>4. n \in Nat /\ n = d.provider + d.member + 1
      BY <1>2 DEF Desk
    <2>5. d.provider + d.member \in Nat
      BY <1>2 DEF Desk
    <2> HIDE DEF n, d
    <2>6. n \in Int /\ n <= Limit(ServiceChat)'
      BY <1>1, <1>4, <2>2, <2>3, <2>4, <2>5
    <2> QED
      BY <1>1, <2>1, <2>6, TotalWithin DEF n, d
  <1>11. Start(a) \/ Abort(a) \/ CheckUser(a) \/ CheckEntry(a) \/ SetEntry(a) \/ Bump(a)
            \/ Own(a) \/ Zero(a) \/ KeepOwn(a) \/ RefuseEntry(a) \/ RefuseDoc(a) \/ SetMirror(a)
            => UNCHANGED total
    BY DEF Start, Abort, Fail, CheckUser, CheckEntry, SetEntry, Bump, Own, Zero, KeepOwn,
           RefuseEntry, RefuseDoc, SetMirror, counters
  <1>12. ReadCount(a) \/ ReadTotal(a) \/ CheckDoc(a) \/ ReadSum(a) \/ ReadDesk(a) \/ ReadMirror(a)
            => UNCHANGED total
    BY DEF ReadCount, ReadTotal, CheckDoc, ReadSum, ReadDesk, ReadMirror, Keep, counters
  <1> QED
    BY <1>5, <1>6, <1>7, <1>8, <1>9, <1>10, <1>11, <1>12 DEF Step

\* What a handler reads is within the limits as well.
LEMMA StepReads ==
    ASSUME TwiceInv, NEW a \in Calls, Start(a) \/ Step(a) \/ Abort(a), Grow,
           reg' \in [Calls -> Registers]
    PROVE  RegWithin'
  <1> USE DEF TwiceInv
  <1>1. /\ To(a) \in Users /\ From(a) \in Users /\ reg \in [Calls -> Registers]
        /\ \A b \in Calls : call[b] \in Orders
    BY CallUsers, TypesParts DEF ChatInv
  <1>2. \A u \in Users : Total(u) <= Limit(u) /\ Summed(u) <= Sent(delivered, u)
    <2> SUFFICES ASSUME NEW u \in Users PROVE Total(u) <= Limit(u) /\ Summed(u) <= Sent(delivered, u)
      OBVIOUS
    <2>1. total[u] <= Limit(u) /\ Limit(u) \in Nat /\ Sum(u) <= Sent(delivered, u)
      BY TwiceLimit, LimitGrows, SumWithin
    <2>2. Sent(delivered, u) \in Nat
      BY SentNat DEF ChatInv, Types
    <2> QED
      BY <2>1, <2>2 DEF Total, Summed, Unset
  <1>3. \A b \in Calls : Within(reg[b], call[b], delivered, counted)
    BY DEF RegWithin
  <1>4. \A b \in Calls : Within(reg'[b], call[b], delivered, counted)
    <2>1. CASE UNCHANGED reg
      BY <1>3, <2>1
    <2>2. ASSUME NEW r, Keep(a, r), Within(r, call[a], delivered, counted)
          PROVE  \A b \in Calls : Within(reg'[b], call[b], delivered, counted)
      <3>1. reg' = [reg EXCEPT ![a] = r]
        BY <2>2 DEF Keep
      <3>2. reg'[a] = r /\ \A b \in Calls : b # a => reg'[b] = reg[b]
        BY <1>1, <3>1
      <3> QED
        BY <1>3, <2>2, <3>2
    <2>3. \A r : /\ r.tot \in {reg[a].tot, Total(To(a))}
                /\ r.ownTot \in {reg[a].ownTot, Total(From(a))}
                /\ r.sum \in {reg[a].sum, Summed(To(a))}
                => Within(r, call[a], delivered, counted)
      BY <1>1, <1>2, <1>3 DEF Within, Limit, To, From
    <2>4. CASE \/ ReadCount(a) \/ ReadTotal(a) \/ CheckDoc(a) \/ ReadSum(a) \/ ReadDesk(a)
               \/ ReadMirror(a)
      <3>1. PICK r : /\ Keep(a, r) /\ r.tot \in {reg[a].tot, Total(To(a))}
                     /\ r.ownTot \in {reg[a].ownTot, Total(From(a))}
                     /\ r.sum \in {reg[a].sum, Summed(To(a))}
        <4>1. PICK r \in Registers : r = reg[a]
          BY <1>1
        <4>2. \A y : /\ [r EXCEPT !.cnt = y].tot = r.tot /\ [r EXCEPT !.cnt = y].ownTot = r.ownTot
                    /\ [r EXCEPT !.cnt = y].sum = r.sum
                    /\ [r EXCEPT !.ownCnt = y].tot = r.tot
                    /\ [r EXCEPT !.ownCnt = y].ownTot = r.ownTot
                    /\ [r EXCEPT !.ownCnt = y].sum = r.sum
          BY DEF Registers
        <4>3. \A y : /\ [r EXCEPT !.tot = y].tot = y /\ [r EXCEPT !.tot = y].ownTot = r.ownTot
                    /\ [r EXCEPT !.tot = y].sum = r.sum
                    /\ [r EXCEPT !.ownTot = y].tot = r.tot
                    /\ [r EXCEPT !.ownTot = y].ownTot = y
                    /\ [r EXCEPT !.ownTot = y].sum = r.sum
          BY DEF Registers
        <4>4. \A y : /\ [r EXCEPT !.had = y].tot = r.tot /\ [r EXCEPT !.had = y].ownTot = r.ownTot
                    /\ [r EXCEPT !.had = y].sum = r.sum
                    /\ [r EXCEPT !.sum = y].tot = r.tot
                    /\ [r EXCEPT !.sum = y].ownTot = r.ownTot
                    /\ [r EXCEPT !.sum = y].sum = y
          BY DEF Registers
        <4>5. \A y : /\ [r EXCEPT !.desk = y].tot = r.tot /\ [r EXCEPT !.desk = y].ownTot = r.ownTot
                    /\ [r EXCEPT !.desk = y].sum = r.sum
                    /\ [r EXCEPT !.mir = y].tot = r.tot
                    /\ [r EXCEPT !.mir = y].ownTot = r.ownTot
                    /\ [r EXCEPT !.mir = y].sum = r.sum
          BY DEF Registers
        <4>6. CASE ReadCount(a)
          <5> DEFINE x == [r EXCEPT !.cnt = Count(To(a), From(a))]
                     y == [r EXCEPT !.ownCnt = Count(From(a), To(a))]
          <5>1. Keep(a, x) \/ Keep(a, y)
            BY <4>1, <4>6 DEF ReadCount
          <5>2. /\ x.tot = r.tot /\ x.ownTot = r.ownTot /\ x.sum = r.sum
                /\ y.tot = r.tot /\ y.ownTot = r.ownTot /\ y.sum = r.sum
            BY <4>2
          <5> HIDE DEF x, y
          <5> QED
            BY <4>1, <5>1, <5>2
        <4>7. CASE ReadTotal(a)
          <5> DEFINE x == [r EXCEPT !.tot = Total(To(a))]
                     y == [r EXCEPT !.ownTot = Total(From(a))]
          <5>1. Keep(a, x) \/ Keep(a, y)
            BY <4>1, <4>7 DEF ReadTotal
          <5>2. /\ x.tot = Total(To(a)) /\ x.ownTot = r.ownTot /\ x.sum = r.sum
                /\ y.tot = r.tot /\ y.ownTot = Total(From(a)) /\ y.sum = r.sum
            BY <4>3
          <5> HIDE DEF x, y
          <5> QED
            BY <4>1, <5>1, <5>2
        <4>8. CASE CheckDoc(a) \/ ReadSum(a)
          <5>1. PICK x : /\ Keep(a, x)
                         /\ \/ \E y : x = [r EXCEPT !.had = y]
                            \/ x = [r EXCEPT !.sum = Summed(To(a))]
            BY <4>1, <4>8 DEF CheckDoc, ReadSum
          <5>2. x.tot = r.tot /\ x.ownTot = r.ownTot /\ x.sum \in {r.sum, Summed(To(a))}
            BY <4>4, <5>1
          <5> QED
            BY <4>1, <5>1, <5>2
        <4>9. CASE ReadDesk(a) \/ ReadMirror(a)
          <5>1. PICK x : /\ Keep(a, x)
                         /\ \E y : x = [r EXCEPT !.desk = y] \/ x = [r EXCEPT !.mir = y]
            BY <4>1, <4>9 DEF ReadDesk, ReadMirror
          <5>2. x.tot = r.tot /\ x.ownTot = r.ownTot /\ x.sum = r.sum
            BY <4>5, <5>1
          <5> QED
            BY <4>1, <5>1, <5>2
        <4> QED
          BY <2>4, <4>6, <4>7, <4>8, <4>9
      <3> QED
        BY <2>2, <2>3, <3>1
    <2> QED
      BY <2>1, <2>4, QuietReg DEF Step
  <1>5. call' = call
    BY StepCall
  <1> SUFFICES ASSUME NEW b \in Calls
               PROVE  Within(reg'[b], call[b], delivered', counted')
    BY <1>5 DEF RegWithin
  <1> QED
    BY <1>1, <1>4, WithinGrows DEF ChatInv, Types, Grow

LEMMA InitTwice == Init => TwiceInv
  <1> SUFFICES ASSUME Init PROVE TwiceInv
    OBVIOUS
  <1>1. ChatInv /\ ChatTypes
    BY InitHolds, InitTypes
  <1>2. \A u \in Users : Limit(u) \in Nat /\ Sent(delivered, u) \in Nat /\ counted[u] = 0
    <2> SUFFICES ASSUME NEW u \in Users
                 PROVE  Limit(u) \in Nat /\ Sent(delivered, u) \in Nat /\ counted[u] = 0
      OBVIOUS
    <2>1. Sent(delivered, u) \in Nat /\ counted[u] = 0
      BY <1>1, SentNat DEF ChatInv, Types, Init
    <2> QED
      BY <2>1 DEF Limit
  <1>3. \A u \in Users : total[u] \in {0, Absent}
    BY DEF Init
  <1>4. CountedTwiceAtMost
    BY <1>2, <1>3, TwiceLimit DEF Absent
  <1>5. RegWithin
    <2> SUFFICES ASSUME NEW a \in Calls PROVE Within(reg[a], call[a], delivered, counted)
      BY DEF RegWithin
    <2>1. reg[a] = Nothing /\ call[a].to \in Users /\ call[a].from \in Users
      BY <1>1, CallUsers DEF Init, ChatInv, To, From
    <2> QED
      BY <1>2, <2>1 DEF Within, Nothing
  <1> QED
    BY <1>1, <1>4, <1>5 DEF TwiceInv

LEMMA StepTwice == TwiceInv /\ [Next]_vars => TwiceInv'
  <1> SUFFICES ASSUME TwiceInv, [Next]_vars PROVE TwiceInv'
    OBVIOUS
  <1>1. ChatInv' /\ ChatTypes'
    BY StepHolds, StepTypes DEF TwiceInv
  <1>2. CASE UNCHANGED vars
    BY <1>1, <1>2 DEF vars, counters, history, TwiceInv, CountedTwiceAtMost, RegWithin
  <1>3. CASE Next
    <2>1. PICK a \in Calls : Start(a) \/ Step(a) \/ Abort(a)
      BY <1>3 DEF Next
    <2>2. Grow
      BY <2>1, StepGrows DEF TwiceInv
    <2>3. Counters' /\ reg' \in [Calls -> Registers]
      BY <1>1, TypesParts
    <2>4. CountedTwiceAtMost'
      BY <2>1, <2>2, <2>3, StepTotals
    <2>5. RegWithin'
      BY <2>1, <2>2, <2>3, StepReads
    <2> QED
      BY <1>1, <2>4, <2>5 DEF TwiceInv
  <1> QED
    BY <1>2, <1>3

THEOREM TwiceInvariant == Spec => []TwiceInv
  BY InitTwice, StepTwice, PTL DEF Spec

\* A recount that overlaps the senders may count a message its sender counts as
\* well; however often recounts run and whatever they overlap, a total is at most
\* what was sent to the rooms and what was counted in the total itself
\* (countUnreadMessages, updateUserUnReadMessageCount).
THEOREM TotalsCountTwiceAtMost == Spec => []CountedTwiceAtMost
  <1>1. TwiceInv => CountedTwiceAtMost
    BY DEF TwiceInv
  <1> QED
    BY <1>1, TwiceInvariant, PTL

-----------------------------------------------------------------------------
(* A message in a provider's name that nothing disturbs.  At each of its   *)
(* awaits the totals are as far from their rooms as when it started, but   *)
(* for the message, and later for the room about to be emptied.  The two   *)
(* users may be the same.                                                  *)

Ai0 == <<"count", "bump", "total", "doc", "addTotal", "ownTotal", "ownCount", "ownDoc", "lower", "own">>
Ai1 == <<"bump", "total", "doc", "addTotal", "ownTotal", "ownCount", "ownDoc", "lower", "own">>
Ai2 == <<"total", "doc", "addTotal", "ownTotal", "ownCount", "ownDoc", "lower", "own">>
Ai3 == <<"doc", "addTotal", "ownTotal", "ownCount", "ownDoc", "lower", "own">>
Ai4 == <<"addTotal", "ownTotal", "ownCount", "ownDoc", "lower", "own">>
Ai5 == <<"ownTotal", "ownCount", "ownDoc", "lower", "own">>
Ai6 == <<"ownCount", "ownDoc", "lower", "own">>
Ai7 == <<"ownDoc", "lower", "own">>
Ai8 == <<"lower", "own">>
Ai9 == <<"own">>

\* b: how far the totals were at the start; f: who the message is from; t: who
\* it is for.
Even(b, f, t) ==
    Slack(t) = b.to /\ Slack(f) = b.from /\ Total(f) >= Count(f, t)

\* The room has the message, the total has not.
Behind(b, f, t) ==
    LET mine == IF f = t THEN 1 ELSE 0 IN
    /\ Slack(t) = b.to - 1 /\ Slack(f) = b.from - mine
    /\ Total(f) + mine >= Count(f, t)

\* The sender's total is lowered by what his room still shows.
Emptying(b, f, t) ==
    /\ Slack(f) = b.from - Count(f, t)
    /\ Slack(t) = IF f = t THEN b.to - Count(f, t) ELSE b.to

\* What is so when s is left to a handler that holds r.
Stage(s, r, b, f, t) ==
    \/ s = Ai0 /\ Even(b, f, t)
    \/ s = Ai1 /\ Even(b, f, t) /\ r.cnt = Count(t, f)
    \/ s = Ai2 /\ Behind(b, f, t)
    \/ s \in {Ai3, Ai4} /\ Behind(b, f, t) /\ r.tot = Total(t)
    \/ s = Ai5 /\ Even(b, f, t)
    \/ s = Ai6 /\ Even(b, f, t) /\ r.ownTot = Total(f)
    \/ s \in {Ai7, Ai8} /\ Even(b, f, t) /\ r.ownTot = Total(f) /\ r.ownCnt = Count(f, t)
    \/ s = Ai9 /\ Emptying(b, f, t)

Alone(a) == /\ call[a].kind = "ai" /\ todo[a] # <<>>
            /\ a \notin disturbed /\ before[a].covered

SlackInv ==
    /\ ChatTypes
    /\ before = [a \in Calls |-> before[a]]
    /\ \A a \in Calls : before[a].from \in Int /\ before[a].to \in Int
    /\ \A a \in idle : todo[a] = <<>> /\ a \notin failed
    /\ \A a \in failed : call[a].kind = "ai" => todo[a] = <<>>
    /\ \A a \in Calls : Alone(a) => Stage(todo[a], reg[a], before[a], From(a), To(a))

LEMMA AiAwaits ==
    /\ Tail(Ai0) = Ai1 /\ Tail(Ai1) = Ai2 /\ Tail(Ai2) = Ai3 /\ Tail(Ai3) = Ai4
    /\ Tail(Ai4) = Ai5 /\ Tail(Ai5) = Ai6 /\ Tail(Ai6) = Ai7 /\ Tail(Ai7) = Ai8
    /\ Tail(Ai8) = Ai9 /\ Tail(Ai9) = <<>>
  <1>1. Tail(Ai0) = Ai1
    BY SMT DEF Ai0, Ai1
  <1>2. Tail(Ai1) = Ai2
    BY SMT DEF Ai1, Ai2
  <1>3. Tail(Ai2) = Ai3
    BY SMT DEF Ai2, Ai3
  <1>4. Tail(Ai3) = Ai4
    BY SMT DEF Ai3, Ai4
  <1>5. Tail(Ai4) = Ai5
    BY SMT DEF Ai4, Ai5
  <1>6. Tail(Ai5) = Ai6
    BY SMT DEF Ai5, Ai6
  <1>7. Tail(Ai6) = Ai7
    BY SMT DEF Ai6, Ai7
  <1>8. Tail(Ai7) = Ai8
    BY SMT DEF Ai7, Ai8
  <1>9. Tail(Ai8) = Ai9
    BY SMT DEF Ai8, Ai9
  <1>10. Tail(Ai9) = <<>>
    BY SMT DEF Ai9
  <1> QED
    BY <1>1, <1>2, <1>3, <1>4, <1>5, <1>6, <1>7, <1>8, <1>9, <1>10

LEMMA AiHeads ==
    /\ Head(Ai0) = "count" /\ Head(Ai1) = "bump" /\ Head(Ai2) = "total" /\ Head(Ai3) = "doc"
    /\ Head(Ai4) = "addTotal" /\ Head(Ai5) = "ownTotal" /\ Head(Ai6) = "ownCount"
    /\ Head(Ai7) = "ownDoc" /\ Head(Ai8) = "lower" /\ Head(Ai9) = "own"
  BY DEF Ai0, Ai1, Ai2, Ai3, Ai4, Ai5, Ai6, Ai7, Ai8, Ai9

LEMMA AiNonEmpty ==
    /\ Ai0 # <<>> /\ Ai1 # <<>> /\ Ai2 # <<>> /\ Ai3 # <<>> /\ Ai4 # <<>> /\ Ai5 # <<>>
    /\ Ai6 # <<>> /\ Ai7 # <<>> /\ Ai8 # <<>> /\ Ai9 # <<>>
  BY DEF Ai0, Ai1, Ai2, Ai3, Ai4, Ai5, Ai6, Ai7, Ai8, Ai9

LEMMA AiProgram ==
    ASSUME NEW c, c.kind = "ai"
    PROVE  Program(c) = Ai0
  <1>1. Program(c) = <<"count", "bump", "total", "doc", "addTotal">> \o Lowering
    BY DEF Program
  <1> DEFINE x == <<"count", "bump", "total", "doc", "addTotal">>
             y == Lowering
  <1>2. x \in Seq(Awaits) /\ y \in Seq(Awaits) /\ Len(x) = 5 /\ Len(y) = 5
    BY SMT DEF Lowering, OwnLast, Awaits
  <1>3. \A i \in 1..5 : x[i] = Ai0[i]
    BY SMT DEF Ai0
  <1>4. \A i \in 1..5 : y[i] = Ai0[i + 5]
    BY SMT DEF Ai0, Lowering, OwnLast
  <1>5. Ai0 \in Seq(Awaits) /\ Len(Ai0) = 10
    BY SMT DEF Ai0, Awaits
  <1> HIDE DEF x, y
  <1>6. /\ x \o y \in Seq(Awaits) /\ Len(x \o y) = 10
        /\ \A i \in 1..10 : (x \o y)[i] = IF i <= 5 THEN x[i] ELSE y[i - 5]
    <2>1. /\ x \o y \in Seq(Awaits) /\ Len(x \o y) = Len(x) + Len(y)
          /\ \A i \in 1..(Len(x) + Len(y)) :
                (x \o y)[i] = IF i <= Len(x) THEN x[i] ELSE y[i - Len(x)]
      BY <1>2, ConcatProperties
    <2> QED
      BY <1>2, <2>1
  <1>7. ASSUME NEW i \in 1..10 PROVE (x \o y)[i] = Ai0[i]
    <2>1. CASE i <= 5
      <3>1. i \in 1..5
        BY <2>1
      <3>2. (x \o y)[i] = x[i]
        BY <1>6, <2>1
      <3>3. x[i] = Ai0[i]
        BY <1>3, <3>1
      <3> QED
        BY <3>2, <3>3
    <2>2. CASE ~(i <= 5)
      <3>1. i - 5 \in 1..5 /\ (i - 5) + 5 = i /\ ~(i <= 5)
        BY <2>2
      <3>2. y[i - 5] = Ai0[(i - 5) + 5]
        BY <1>4, <3>1
      <3> QED
        BY <1>6, <3>1, <3>2
    <2> QED
      BY <2>1, <2>2
  <1>8. x \o y = Ai0
    BY <1>5, <1>6, <1>7, SeqEqual
  <1> QED
    BY <1>1, <1>8 DEF x, y

LEMMA SumAfter ==
    ASSUME Counters, NEW u \in Users, NEW v \in Users, NEW n \in Nat, PutRoom(u, v, n)
    PROVE  /\ \A x \in Users : x # u => Sum(x)' = Sum(x)
           /\ Sum(u)' = Sum(u) - Count(u, v) + n
           /\ Count(u, v)' = n
           /\ \A x, y \in Users : x # u \/ y # v => Count(x, y)' = Count(x, y)
  <1>1. /\ \A x \in Users : x # u => room'[x] = room[x]
        /\ room'[u] = [room[u] EXCEPT ![v] = n]
    BY DEF Counters, PutRoom
  <1>2. Count(u, v)' = n
    BY <1>1 DEF Counters, Count
  <1>3. \A x, y \in Users : x # u \/ y # v => Count(x, y)' = Count(x, y)
    BY <1>1 DEF Counters, Count
  <1> DEFINE f == [y \in Users |-> Count(u, y)]
             g == [y \in Users |-> Count(u, y)']
  <1>4. /\ \A y \in Users : f[y] \in Int /\ g[y] \in Int
        /\ \A y \in Users \ {v} : f[y] = g[y]
        /\ DOMAIN f = Users /\ DOMAIN g = Users
        /\ f[v] = Count(u, v) /\ g[v] = n
    <2>1. \A y \in Users : Count(u, y) \in Nat
      BY SumIsNat DEF Counters
    <2> QED
      BY <1>2, <1>3, <2>1
  <1>5. Sum(u) = SumFunction(f) /\ Sum(u)' = SumFunction(g)
    BY DEF Sum, Count
  <1>6. SumFunctionOnSet(g, Users) = SumFunctionOnSet(f, Users) - f[v] + g[v]
    <2> HIDE DEF f, g
    <2> QED
      BY <1>4, SumChange, ChatAssumption
  <1>7. Sum(u)' = Sum(u) - Count(u, v) + n
    <2> HIDE DEF f, g
    <2> QED
      BY <1>4, <1>5, <1>6 DEF SumFunction
  <1>8. ASSUME NEW x \in Users, x # u PROVE Sum(x)' = Sum(x)
    <2>1. \A y \in Users : Count(x, y)' = Count(x, y)
      BY <1>3, <1>8
    <2>2. [y \in Users |-> Count(x, y)'] = [y \in Users |-> Count(x, y)]
      BY <2>1
    <2>3. Sum(x)' = SumFunction([y \in Users |-> Count(x, y)'])
      BY DEF Sum, Count
    <2> QED
      BY <2>2, <2>3 DEF Sum
  <1> QED
    BY <1>2, <1>3, <1>7, <1>8

\* The effects of the writes on how far the totals are from their rooms.
LEMMA SlackParts ==
    \A u \in Users : /\ Slack(u) = Total(u) - Sum(u)
                     /\ Slack(u)' = Total(u)' - Sum(u)'
  BY DEF Slack

LEMMA TotalAfter ==
    ASSUME Counters, NEW u \in Users, NEW n \in Nat, total' = [total EXCEPT ![u] = n],
           UNCHANGED room
    PROVE  /\ Total(u)' = n
           /\ \A x \in Users : x # u => Total(x)' = Total(x)
           /\ \A x, y \in Users : Count(x, y)' = Count(x, y) /\ Sum(x)' = Sum(x)
  BY DEF Counters, Total, Count, Sum

LEMMA CountsAreNat ==
    ASSUME Counters
    PROVE  \A u, v \in Users : Total(u) \in Nat /\ Sum(u) \in Nat /\ Count(u, v) \in Nat
  BY SumIsNat, TotalIsNat DEF Counters

LEMMA BumpStage ==
    ASSUME Counters, NEW f \in Users, NEW t \in Users, NEW b,
           b.from \in Int, b.to \in Int, Even(b, f, t),
           PutRoom(t, f, Count(t, f) + 1), UNCHANGED total
    PROVE  Behind(b, f, t)'
  <1>1. \A u, v \in Users : Total(u) \in Nat /\ Sum(u) \in Nat /\ Count(u, v) \in Nat
    BY CountsAreNat
  <1>2. PICK n \in Nat : n = Count(t, f) + 1
    BY <1>1
  <1>3. /\ \A x \in Users : x # t => Sum(x)' = Sum(x)
        /\ Sum(t)' = Sum(t) - Count(t, f) + n
        /\ Count(t, f)' = n
        /\ \A x, y \in Users : x # t \/ y # f => Count(x, y)' = Count(x, y)
    BY <1>2, SumAfter
  <1>4. \A u \in Users : Total(u)' = Total(u)
    BY DEF Total
  <1>5. Sum(t)' = Sum(t) + 1
    BY <1>1, <1>2, <1>3
  <1>6. CASE f = t
    <2>1. /\ Slack(t)' = b.to - 1 /\ Slack(f)' = b.from - 1
          /\ Total(f)' + 1 >= Count(f, t)'
      BY <1>1, <1>2, <1>3, <1>4, <1>5, <1>6, SlackParts DEF Even
    <2> QED
      BY <1>6, <2>1 DEF Behind
  <1>7. CASE f # t
    <2>1. /\ Slack(t)' = b.to - 1 /\ Slack(f)' = b.from
          /\ Total(f)' >= Count(f, t)'
      BY <1>1, <1>3, <1>4, <1>5, <1>7, SlackParts DEF Even
    <2>2. Total(f)' + 0 >= Count(f, t)' /\ Slack(f)' = b.from - 0
      BY <1>1, <1>3, <1>4, <1>7, <2>1
    <2> QED
      BY <1>7, <2>1, <2>2 DEF Behind
  <1> QED
    BY <1>6, <1>7

LEMMA AddStage ==
    ASSUME Counters, NEW f \in Users, NEW t \in Users, NEW b,
           b.from \in Int, b.to \in Int, Behind(b, f, t),
           total' = [total EXCEPT ![t] = Total(t) + 1], UNCHANGED room
    PROVE  Even(b, f, t)'
  <1>1. \A u, v \in Users : Total(u) \in Nat /\ Sum(u) \in Nat /\ Count(u, v) \in Nat
    BY CountsAreNat
  <1>2. PICK n \in Nat : n = Total(t) + 1
    BY <1>1
  <1>3. /\ Total(t)' = n
        /\ \A x \in Users : x # t => Total(x)' = Total(x)
        /\ \A x, y \in Users : Count(x, y)' = Count(x, y) /\ Sum(x)' = Sum(x)
    BY <1>2, TotalAfter
  <1>4. CASE f = t
    BY <1>1, <1>2, <1>3, <1>4, SlackParts DEF Even, Behind
  <1>5. CASE f # t
    <2>1. Slack(t)' = Slack(t) + 1 /\ Slack(f)' = Slack(f)
      BY <1>1, <1>2, <1>3, <1>5, SlackParts
    <2>2. Total(f)' = Total(f) /\ Count(f, t)' = Count(f, t)
      BY <1>3, <1>5
    <2>3. Slack(t) = b.to - 1 /\ Slack(f) = b.from /\ Total(f) >= Count(f, t)
      BY <1>1, <1>5 DEF Behind
    <2>4. Slack(t)' = b.to
      BY <2>1, <2>3
    <2> QED
      BY <2>1, <2>2, <2>3, <2>4 DEF Even
  <1> QED
    BY <1>4, <1>5

LEMMA LowerStage ==
    ASSUME Counters, NEW f \in Users, NEW t \in Users, NEW b,
           b.from \in Int, b.to \in Int, Even(b, f, t),
           total' = [total EXCEPT ![f] = Total(f) - Count(f, t)], UNCHANGED room
    PROVE  Emptying(b, f, t)'
  <1>1. \A u, v \in Users : Total(u) \in Nat /\ Sum(u) \in Nat /\ Count(u, v) \in Nat
    BY CountsAreNat
  <1>2. PICK n \in Nat : n = Total(f) - Count(f, t)
    BY <1>1 DEF Even
  <1>3. /\ Total(f)' = n
        /\ \A x \in Users : x # f => Total(x)' = Total(x)
        /\ \A x, y \in Users : Count(x, y)' = Count(x, y) /\ Sum(x)' = Sum(x)
    BY <1>2, TotalAfter
  <1>4. CASE f = t
    BY <1>1, <1>2, <1>3, <1>4, SlackParts DEF Even, Emptying
  <1>5. CASE f # t
    BY <1>1, <1>2, <1>3, <1>5, SlackParts DEF Even, Emptying
  <1> QED
    BY <1>4, <1>5

LEMMA OwnStage ==
    ASSUME Counters, NEW f \in Users, NEW t \in Users, NEW b,
           b.from \in Int, b.to \in Int, Emptying(b, f, t),
           PutRoom(f, t, 0), UNCHANGED total
    PROVE  Slack(f)' = b.from /\ Slack(t)' = b.to
  <1>1. \A u, v \in Users : Total(u) \in Nat /\ Sum(u) \in Nat /\ Count(u, v) \in Nat
    BY CountsAreNat
  <1>2. /\ \A x \in Users : x # f => Sum(x)' = Sum(x)
        /\ Sum(f)' = Sum(f) - Count(f, t) + 0
    BY SumAfter
  <1>3. \A u \in Users : Total(u)' = Total(u)
    BY DEF Total
  <1>4. CASE f = t
    BY <1>1, <1>2, <1>3, <1>4, SlackParts DEF Emptying
  <1>5. CASE f # t
    <2>1. Slack(f) = b.from - Count(f, t) /\ Slack(t) = b.to
      BY <1>5 DEF Emptying
    <2>2. Sum(t)' = Sum(t)
      BY <1>2, <1>5
    <2>3. Slack(t)' = b.to
      BY <1>3, <2>1, <2>2, SlackParts
    <2>4. Slack(f)' = b.from
      <3>1. /\ Total(f) \in Nat /\ Sum(f) \in Nat /\ Count(f, t) \in Nat
            /\ Total(f)' = Total(f) /\ Sum(f)' = Sum(f) - Count(f, t)
        BY <1>1, <1>2, <1>3
      <3>2. Total(f) - Sum(f) = b.from - Count(f, t)
        BY <2>1, SlackParts
      <3>3. Total(f)' - Sum(f)' = b.from
        BY <3>1, <3>2
      <3> QED
        BY <3>3, SlackParts
    <2> QED
      BY <2>3, <2>4
  <1> QED
    BY <1>4, <1>5

\* What the awaits of the message do unless they throw.
LEMMA AiSteps ==
    ASSUME NEW a \in Calls, Step(a) \/ Abort(a), a \notin failed'
    PROVE  /\ At(a, "count") => Keep(a, [reg[a] EXCEPT !.cnt = Count(To(a), From(a))])
           /\ At(a, "bump") => /\ PutRoom(To(a), From(a), reg[a].cnt + 1)
                               /\ Go(a) /\ UNCHANGED <<total, reg>>
           /\ At(a, "total") => Keep(a, [reg[a] EXCEPT !.tot = Total(To(a))])
           /\ At(a, "doc") => \E y : Keep(a, [reg[a] EXCEPT !.had = y])
           /\ At(a, "addTotal") => /\ total' = [total EXCEPT ![To(a)] = reg[a].tot + 1]
                                   /\ Go(a) /\ UNCHANGED <<room, reg>>
           /\ At(a, "ownTotal") => Keep(a, [reg[a] EXCEPT !.ownTot = Total(From(a))])
           /\ At(a, "ownCount") => Keep(a, [reg[a] EXCEPT !.ownCnt = Count(From(a), To(a))])
           /\ At(a, "ownDoc") => \E y : Keep(a, [reg[a] EXCEPT !.had = y])
           /\ At(a, "lower") => /\ total' = [total EXCEPT ![From(a)] = Lowered(a)]
                                /\ Go(a) /\ UNCHANGED <<room, reg>>
           /\ At(a, "own") => /\ PutRoom(From(a), To(a), OwnCount(call[a]))
                              /\ Go(a) /\ UNCHANGED <<total, reg>>
  <1>1. ~Fail(a)
    BY DEF Fail
  <1>2. ~Abort(a) /\ ~RefuseEntry(a) /\ ~RefuseDoc(a)
    BY <1>1 DEF Abort, RefuseEntry, RefuseDoc
  <1>3. CheckUser(a) \/ SetUser(a) \/ CheckEntry(a) \/ SetEntry(a) \/ Zero(a) \/ KeepOwn(a)
           => Head(todo[a]) \in {"user", "userSet", "entry", "ownEntry", "entrySet",
                                 "ownEntrySet", "zero", "keep"}
    BY DEF CheckUser, SetUser, CheckEntry, SetEntry, Zero, KeepOwn, At
  <1>4. ReadSum(a) \/ SetTotal(a) \/ ReadDesk(a) \/ AddDesk(a) \/ ReadMirror(a) \/ SetMirror(a)
           => Head(todo[a]) \in {"sum", "setTotal", "desk", "addDesk", "mirror", "setMirror"}
    BY DEF ReadSum, SetTotal, ReadDesk, AddDesk, ReadMirror, SetMirror, At
  <1>5. ReadCount(a) =>
           \/ At(a, "count") /\ Keep(a, [reg[a] EXCEPT !.cnt = Count(To(a), From(a))])
           \/ At(a, "ownCount") /\ Keep(a, [reg[a] EXCEPT !.ownCnt = Count(From(a), To(a))])
    BY DEF ReadCount
  <1>6. ReadTotal(a) =>
           \/ At(a, "total") /\ Keep(a, [reg[a] EXCEPT !.tot = Total(To(a))])
           \/ At(a, "ownTotal") /\ Keep(a, [reg[a] EXCEPT !.ownTot = Total(From(a))])
    BY DEF ReadTotal
  <1>7. CheckDoc(a) =>
           (At(a, "doc") \/ At(a, "ownDoc")) /\ \E y : Keep(a, [reg[a] EXCEPT !.had = y])
    BY DEF CheckDoc
  <1>8. Bump(a) => /\ At(a, "bump") /\ PutRoom(To(a), From(a), reg[a].cnt + 1)
                   /\ Go(a) /\ UNCHANGED <<total, reg>>
    BY DEF Bump
  <1>9. Own(a) => /\ At(a, "own") /\ PutRoom(From(a), To(a), OwnCount(call[a]))
                  /\ Go(a) /\ UNCHANGED <<total, reg>>
    BY DEF Own
  <1>10. AddTotal(a) => /\ At(a, "addTotal") /\ total' = [total EXCEPT ![To(a)] = reg[a].tot + 1]
                        /\ Go(a) /\ UNCHANGED <<room, reg>>
    BY DEF AddTotal, PutTotal, Added
  <1>11. Lower(a) => /\ At(a, "lower") /\ total' = [total EXCEPT ![From(a)] = Lowered(a)]
                     /\ Go(a) /\ UNCHANGED <<room, reg>>
    BY DEF Lower, PutTotal
  <1>12. \/ ReadCount(a) \/ ReadTotal(a) \/ CheckDoc(a) \/ Bump(a) \/ Own(a) \/ AddTotal(a)
         \/ Lower(a)
         \/ Head(todo[a]) \in {"user", "userSet", "entry", "ownEntry", "entrySet",
                               "ownEntrySet", "zero", "keep"}
         \/ Head(todo[a]) \in {"sum", "setTotal", "desk", "addDesk", "mirror", "setMirror"}
    BY <1>2, <1>3, <1>4 DEF Step
  <1>13. ASSUME NEW w PROVE At(a, w) <=> todo[a] # <<>> /\ Head(todo[a]) = w
    BY DEF At
  <1> HIDE DEF At
  <1>14. /\ At(a, "count") => Keep(a, [reg[a] EXCEPT !.cnt = Count(To(a), From(a))])
         /\ At(a, "ownCount") => Keep(a, [reg[a] EXCEPT !.ownCnt = Count(From(a), To(a))])
    BY <1>5, <1>6, <1>7, <1>8, <1>9, <1>10, <1>11, <1>12, <1>13
  <1>15. /\ At(a, "total") => Keep(a, [reg[a] EXCEPT !.tot = Total(To(a))])
         /\ At(a, "ownTotal") => Keep(a, [reg[a] EXCEPT !.ownTot = Total(From(a))])
    BY <1>5, <1>6, <1>7, <1>8, <1>9, <1>10, <1>11, <1>12, <1>13
  <1> DEFINE looked == \E y : Keep(a, [reg[a] EXCEPT !.had = y])
  <1>16. CheckDoc(a) => (At(a, "doc") \/ At(a, "ownDoc")) /\ looked
    BY <1>7
  <1>17. (At(a, "doc") => looked) /\ (At(a, "ownDoc") => looked)
    <2> HIDE DEF looked
    <2> QED
      BY <1>5, <1>6, <1>8, <1>9, <1>10, <1>11, <1>12, <1>13, <1>16
  <1>18. /\ At(a, "bump") => /\ PutRoom(To(a), From(a), reg[a].cnt + 1)
                             /\ Go(a) /\ UNCHANGED <<total, reg>>
         /\ At(a, "own") => /\ PutRoom(From(a), To(a), OwnCount(call[a]))
                            /\ Go(a) /\ UNCHANGED <<total, reg>>
    BY <1>5, <1>6, <1>7, <1>8, <1>9, <1>10, <1>11, <1>12, <1>13
  <1>19. /\ At(a, "addTotal") => /\ total' = [total EXCEPT ![To(a)] = reg[a].tot + 1]
                                 /\ Go(a) /\ UNCHANGED <<room, reg>>
         /\ At(a, "lower") => /\ total' = [total EXCEPT ![From(a)] = Lowered(a)]
                              /\ Go(a) /\ UNCHANGED <<room, reg>>
    BY <1>5, <1>6, <1>7, <1>8, <1>9, <1>10, <1>11, <1>12, <1>13
  <1> QED
    BY <1>14, <1>15, <1>17, <1>18, <1>19

LEMMA QuietStage ==
    ASSUME UNCHANGED <<room, total>>, NEW f \in Users, NEW t \in Users, NEW b
    PROVE  /\ Even(b, f, t)' <=> Even(b, f, t)
           /\ Behind(b, f, t)' <=> Behind(b, f, t)
           /\ Emptying(b, f, t)' <=> Emptying(b, f, t)
           /\ \A u, v \in Users : Count(u, v)' = Count(u, v) /\ Total(u)' = Total(u)
  <1>1. \A u, v \in Users : /\ Count(u, v)' = Count(u, v) /\ Total(u)' = Total(u)
                            /\ Slack(u)' = Slack(u)
    BY DEF Count, Total, Slack, Sum
  <1> QED
    BY <1>1 DEF Even, Behind, Emptying

LEMMA StageQuiet ==
    ASSUME UNCHANGED <<room, total>>, NEW f \in Users, NEW t \in Users, NEW b,
           NEW s, NEW r, Stage(s, r, b, f, t)
    PROVE  Stage(s, r, b, f, t)'
  BY QuietStage DEF Stage

LEMMA KeepSteps ==
    ASSUME Control, reg \in [Calls -> Registers], NEW a \in Calls, NEW r, Keep(a, r)
    PROVE  reg'[a] = r /\ todo'[a] = Tail(todo[a]) /\ UNCHANGED <<room, total>>
  BY DEF Keep, Go, Goto, Then, counters, Control

LEMMA GoSteps ==
    ASSUME Control, NEW a \in Calls, Go(a)
    PROVE  todo'[a] = Tail(todo[a])
  BY DEF Go, Goto, Then, Control

LEMMA FieldPut ==
    ASSUME NEW r \in Registers, NEW y
    PROVE  /\ [r EXCEPT !.cnt = y].cnt = y
           /\ [r EXCEPT !.tot = y].tot = y
           /\ [r EXCEPT !.had = y].tot = r.tot
           /\ [r EXCEPT !.ownTot = y].ownTot = y
           /\ [r EXCEPT !.ownCnt = y].ownCnt = y
           /\ [r EXCEPT !.ownCnt = y].ownTot = r.ownTot
           /\ [r EXCEPT !.had = y].ownTot = r.ownTot
           /\ [r EXCEPT !.had = y].ownCnt = r.ownCnt
  BY DEF Registers

\* A step of the handler takes it to the next stage.
LEMMA StageStep ==
    ASSUME ChatTypes, NEW a \in Calls, Step(a) \/ Abort(a), a \notin failed',
           call[a].kind = "ai",
           NEW f \in Users, NEW t \in Users, NEW b, f = From(a), t = To(a),
           b.from \in Int, b.to \in Int, Stage(todo[a], reg[a], b, f, t),
           NEW s, NEW r, s = todo'[a], r = reg'[a]
    PROVE  IF s = <<>> THEN Slack(f)' = b.from /\ Slack(t)' = b.to
           ELSE Stage(s, r, b, f, t)'
  <1> USE TypesParts
  <1> DEFINE q == reg[a]
             Goal == IF s = <<>> THEN Slack(f)' = b.from /\ Slack(t)' = b.to
                     ELSE Stage(s, r, b, f, t)'
  <1>1. /\ Control /\ Counters /\ reg \in [Calls -> Registers] /\ q \in Registers
        /\ q.ownTot \in Nat /\ q.ownCnt \in Nat
    BY TypedReg
  <1>2. \A u, v \in Users : Total(u) \in Nat /\ Count(u, v) \in Nat
    BY CountsAreNat
  <1>3. /\ Ai0 # <<>> /\ Ai1 # <<>> /\ Ai2 # <<>> /\ Ai3 # <<>> /\ Ai4 # <<>> /\ Ai5 # <<>>
        /\ Ai6 # <<>> /\ Ai7 # <<>> /\ Ai8 # <<>> /\ Ai9 # <<>>
    BY AiNonEmpty
  <1>4. ASSUME todo[a] = Ai0, Even(b, f, t) PROVE Goal
    <2>1. At(a, "count")
      BY <1>3, <1>4, AiHeads DEF At
    <2> DEFINE x == [q EXCEPT !.cnt = Count(To(a), From(a))]
    <2>2. Keep(a, x)
      BY <2>1, AiSteps
    <2>3. x.cnt = Count(t, f)
      BY <1>1, FieldPut
    <2> HIDE DEF x
    <2>4. r = x /\ s = Ai1 /\ UNCHANGED <<room, total>>
      BY <1>1, <1>4, <2>2, KeepSteps, AiAwaits
    <2>5. Even(b, f, t)' /\ r.cnt = Count(t, f)'
      BY <1>4, <2>3, <2>4, QuietStage
    <2> QED
      BY <1>3, <2>4, <2>5 DEF Stage
  <1>5. ASSUME todo[a] = Ai1, Even(b, f, t), q.cnt = Count(t, f) PROVE Goal
    <2>1. At(a, "bump")
      BY <1>3, <1>5, AiHeads DEF At
    <2>2. PutRoom(t, f, Count(t, f) + 1) /\ Go(a) /\ UNCHANGED total
      BY <1>5, <2>1, AiSteps
    <2>3. s = Ai2
      BY <1>1, <1>5, <2>2, GoSteps, AiAwaits
    <2>4. Behind(b, f, t)'
      BY <1>1, <1>5, <2>2, BumpStage
    <2> QED
      BY <1>3, <2>3, <2>4 DEF Stage
  <1>6. ASSUME todo[a] = Ai2, Behind(b, f, t) PROVE Goal
    <2>1. At(a, "total")
      BY <1>3, <1>6, AiHeads DEF At
    <2> DEFINE x == [q EXCEPT !.tot = Total(To(a))]
    <2>2. Keep(a, x)
      BY <2>1, AiSteps
    <2>3. x.tot = Total(t)
      BY <1>1, FieldPut
    <2> HIDE DEF x
    <2>4. r = x /\ s = Ai3 /\ UNCHANGED <<room, total>>
      BY <1>1, <1>6, <2>2, KeepSteps, AiAwaits
    <2>5. Behind(b, f, t)' /\ r.tot = Total(t)'
      BY <1>6, <2>3, <2>4, QuietStage
    <2> QED
      BY <1>3, <2>4, <2>5 DEF Stage
  <1>7. ASSUME todo[a] = Ai3, Behind(b, f, t), q.tot = Total(t) PROVE Goal
    <2>1. At(a, "doc")
      BY <1>3, <1>7, AiHeads DEF At
    <2>0. PICK y : Keep(a, [q EXCEPT !.had = y])
      BY <2>1, AiSteps
    <2> DEFINE x == [q EXCEPT !.had = y]
    <2>2. Keep(a, x)
      BY <2>0
    <2>3. x.tot = q.tot
      BY <1>1, FieldPut
    <2> HIDE DEF x
    <2>4. r = x /\ s = Ai4 /\ UNCHANGED <<room, total>>
      BY <1>1, <1>7, <2>2, KeepSteps, AiAwaits
    <2>5. Behind(b, f, t)' /\ r.tot = Total(t)'
      BY <1>7, <2>3, <2>4, QuietStage
    <2> QED
      BY <1>3, <2>4, <2>5 DEF Stage
  <1>8. ASSUME todo[a] = Ai4, Behind(b, f, t), q.tot = Total(t) PROVE Goal
    <2>1. At(a, "addTotal")
      BY <1>3, <1>8, AiHeads DEF At
    <2>2. total' = [total EXCEPT ![t] = Total(t) + 1] /\ Go(a) /\ UNCHANGED room
      BY <1>8, <2>1, AiSteps
    <2>3. s = Ai5
      BY <1>1, <1>8, <2>2, GoSteps, AiAwaits
    <2>4. Even(b, f, t)'
      BY <1>1, <1>8, <2>2, AddStage
    <2> QED
      BY <1>3, <2>3, <2>4 DEF Stage
  <1>9. ASSUME todo[a] = Ai5, Even(b, f, t) PROVE Goal
    <2>1. At(a, "ownTotal")
      BY <1>3, <1>9, AiHeads DEF At
    <2> DEFINE x == [q EXCEPT !.ownTot = Total(From(a))]
    <2>2. Keep(a, x)
      BY <2>1, AiSteps
    <2>3. x.ownTot = Total(f)
      BY <1>1, FieldPut
    <2> HIDE DEF x
    <2>4. r = x /\ s = Ai6 /\ UNCHANGED <<room, total>>
      BY <1>1, <1>9, <2>2, KeepSteps, AiAwaits
    <2>5. Even(b, f, t)' /\ r.ownTot = Total(f)'
      BY <1>9, <2>3, <2>4, QuietStage
    <2> QED
      BY <1>3, <2>4, <2>5 DEF Stage
  <1>10. ASSUME todo[a] = Ai6, Even(b, f, t), q.ownTot = Total(f) PROVE Goal
    <2>1. At(a, "ownCount")
      BY <1>3, <1>10, AiHeads DEF At
    <2> DEFINE x == [q EXCEPT !.ownCnt = Count(From(a), To(a))]
    <2>2. Keep(a, x)
      BY <2>1, AiSteps
    <2>3. x.ownTot = q.ownTot /\ x.ownCnt = Count(f, t)
      BY <1>1, FieldPut
    <2> HIDE DEF x
    <2>4. r = x /\ s = Ai7 /\ UNCHANGED <<room, total>>
      BY <1>1, <1>10, <2>2, KeepSteps, AiAwaits
    <2>5. Even(b, f, t)' /\ r.ownTot = Total(f)' /\ r.ownCnt = Count(f, t)'
      BY <1>10, <2>3, <2>4, QuietStage
    <2> QED
      BY <1>3, <2>4, <2>5 DEF Stage
  <1>11. ASSUME todo[a] = Ai7, Even(b, f, t), q.ownTot = Total(f), q.ownCnt = Count(f, t) PROVE Goal
    <2>1. At(a, "ownDoc")
      BY <1>3, <1>11, AiHeads DEF At
    <2>0. PICK y : Keep(a, [q EXCEPT !.had = y])
      BY <2>1, AiSteps
    <2> DEFINE x == [q EXCEPT !.had = y]
    <2>2. Keep(a, x)
      BY <2>0
    <2>3. x.ownTot = q.ownTot /\ x.ownCnt = q.ownCnt
      BY <1>1, FieldPut
    <2> HIDE DEF x
    <2>4. r = x /\ s = Ai8 /\ UNCHANGED <<room, total>>
      BY <1>1, <1>11, <2>2, KeepSteps, AiAwaits
    <2>5. Even(b, f, t)' /\ r.ownTot = Total(f)' /\ r.ownCnt = Count(f, t)'
      BY <1>11, <2>3, <2>4, QuietStage
    <2> QED
      BY <1>3, <2>4, <2>5 DEF Stage
  <1>12. ASSUME todo[a] = Ai8, Even(b, f, t), q.ownTot = Total(f), q.ownCnt = Count(f, t) PROVE Goal
    <2>1. At(a, "lower")
      BY <1>3, <1>12, AiHeads DEF At
    <2>2. total' = [total EXCEPT ![f] = Lowered(a)] /\ Go(a) /\ UNCHANGED room
      BY <2>1, AiSteps
    <2>3. Lowered(a) = Total(f) - Count(f, t)
      BY <1>2, <1>12 DEF Lowered, Even
    <2>4. s = Ai9
      BY <1>1, <1>12, <2>2, GoSteps, AiAwaits
    <2>5. Emptying(b, f, t)'
      BY <1>1, <1>12, <2>2, <2>3, LowerStage
    <2> QED
      BY <1>3, <2>4, <2>5 DEF Stage
  <1>13. ASSUME todo[a] = Ai9, Emptying(b, f, t) PROVE Goal
    <2>1. At(a, "own")
      BY <1>3, <1>13, AiHeads DEF At
    <2>2. PutRoom(f, t, 0) /\ Go(a) /\ UNCHANGED total
      BY <2>1, AiSteps DEF OwnCount
    <2>3. s = <<>>
      BY <1>1, <1>13, <2>2, GoSteps, AiAwaits
    <2>4. Slack(f)' = b.from /\ Slack(t)' = b.to
      BY <1>1, <1>13, <2>2, OwnStage
    <2> QED
      BY <2>3, <2>4
  <1> HIDE DEF Goal
  <1>14. Goal
    BY <1>4, <1>5, <1>6, <1>7, <1>8, <1>9, <1>10, <1>11, <1>12, <1>13 DEF Stage
  <1> QED
    BY <1>14 DEF Goal

LEMMA InitSlack == Init => SlackInv
  <1> SUFFICES ASSUME Init PROVE SlackInv
    OBVIOUS
  <1>1. ChatTypes
    BY InitTypes
  <1>2. before = [a \in Calls |-> [from |-> 0, to |-> 0, covered |-> FALSE]]
    BY DEF Init
  <1>3. /\ before = [a \in Calls |-> before[a]]
        /\ \A a \in Calls : before[a].from \in Int /\ before[a].to \in Int
    BY <1>2
  <1>4. (\A a \in Calls : todo[a] = <<>>) /\ idle = Calls /\ failed = {}
    BY DEF Init
  <1> QED
    BY <1>1, <1>3, <1>4 DEF SlackInv, Alone

LEMMA StartSlack ==
    ASSUME SlackInv, NEW a \in Calls, Start(a)
    PROVE  SlackInv'
  <1> USE DEF SlackInv
  <1>1. ChatTypes' /\ Control /\ Counters /\ UNCHANGED <<counters, call, reg>>
    <2>1. Next
      BY DEF Next
    <2> QED
      BY <2>1, StepTypes, TypesParts DEF Start
  <1>2. \A u \in Users : Slack(u) \in Int
    BY <1>1, CountsAreNat, SlackParts
  <1>3. \A b \in Calls : To(b) \in Users /\ From(b) \in Users
    BY <1>1, TypedUsers DEF Control
  <1> DEFINE new == [from |-> Slack(From(a)), to |-> Slack(To(a)),
                     covered |-> Total(From(a)) >= Count(From(a), To(a))]
  <1>4. before' = [before EXCEPT ![a] = new]
    BY DEF Start, From, To
  <1>5. new.from = Slack(From(a)) /\ new.to = Slack(To(a))
    OBVIOUS
  <1>6. new.covered => Total(From(a)) >= Count(From(a), To(a))
    OBVIOUS
  <1> HIDE DEF new
  <1>7. /\ before' = [b \in Calls |-> before'[b]]
        /\ \A b \in Calls : before'[b].from \in Int /\ before'[b].to \in Int
    BY <1>2, <1>3, <1>4, <1>5
  <1>8. \A b \in idle' : todo'[b] = <<>> /\ b \notin failed'
    BY <1>1 DEF Start, Control
  <1>9. \A b \in failed' : call'[b].kind = "ai" => todo'[b] = <<>>
    BY <1>1 DEF Start, Control
  <1> SUFFICES ASSUME NEW b \in Calls, Alone(b)'
               PROVE  Stage(todo[b], reg[b], before[b], From(b), To(b))'
    BY <1>1, <1>7, <1>8, <1>9
  <1>10. PICK f \in Users, t \in Users : f = From(b) /\ t = To(b)
    BY <1>3
  <1>11. PICK s, r, k : s = todo'[b] /\ r = reg'[b] /\ k = before'[b]
    OBVIOUS
  <1>12. Stage(s, r, k, f, t)'
    <2>1. UNCHANGED <<room, total>>
      BY <1>1 DEF counters
    <2>2. CASE b = a
      <3>1. s = Ai0
        BY <1>1, <1>11, <2>2, AiProgram DEF Start, Alone, Control
      <3>2. k = new /\ k.covered
        BY <1>4, <1>11, <2>2 DEF Alone
      <3>3. Even(k, f, t)
        BY <1>5, <1>6, <1>10, <2>2, <3>2 DEF Even
      <3>4. Even(k, f, t)'
        BY <2>1, <3>3, QuietStage
      <3> QED
        BY <3>1, <3>4 DEF Stage
    <2>3. CASE b # a
      <3>1. todo'[b] = todo[b] /\ before'[b] = before[b] /\ r = reg[b]
        BY <1>1, <1>4, <1>11, <2>3 DEF Start, Control
      <3>2. Alone(b)
        BY <1>1, <2>3, <3>1 DEF Start, Alone
      <3>3. Stage(s, r, k, f, t)
        BY <1>10, <1>11, <3>1, <3>2
      <3> QED
        BY <2>1, <3>3, StageQuiet
    <2> QED
      BY <2>2, <2>3
  <1>13. From(b)' = f /\ To(b)' = t
    BY <1>1, <1>10 DEF From, To
  <1> QED
    BY <1>11, <1>12, <1>13

\* What every await leaves alone: the other handlers and what a call started from.
LEMMA OthersStay ==
    ASSUME Control, NEW a \in Calls, Step(a) \/ Abort(a)
    PROVE  /\ UNCHANGED <<call, before, idle>> /\ disturbed \cup (Running \ {a}) = disturbed'
           /\ failed' \in {failed, failed \cup {a}}
           /\ \A b \in Calls : b # a => todo'[b] = todo[b]
  <1> DEFINE Moved == failed' \in {failed, failed \cup {a}}
             Goal == /\ UNCHANGED <<call, before, idle>>
                     /\ disturbed \cup (Running \ {a}) = disturbed'
                     /\ Moved
                     /\ \A b \in Calls : b # a => todo'[b] = todo[b]
  <1>1. \A rest : Then(a, rest) /\ Moved => Goal
    BY DEF Then, Disturb, Control
  <1>2. Fail(a) => Goal
    BY <1>1 DEF Fail
  <1>3. UNCHANGED failed => Moved
    OBVIOUS
  <1> HIDE DEF Goal, Moved
  <1>4. Go(a) => Goal
    BY <1>1, <1>3 DEF Go, Goto
  <1>5. Abort(a) \/ RefuseEntry(a) \/ RefuseDoc(a) => Goal
    BY <1>2 DEF Abort, RefuseEntry, RefuseDoc
  <1>6. CheckUser(a) \/ CheckEntry(a) => Goal
    BY <1>1, <1>3 DEF CheckUser, CheckEntry, Goto
  <1>7. SetUser(a) \/ SetEntry(a) \/ Bump(a) \/ Own(a) \/ Zero(a) \/ KeepOwn(a) => Goal
    BY <1>4 DEF SetUser, SetEntry, Bump, Own, Zero, KeepOwn
  <1>8. ReadCount(a) \/ ReadTotal(a) \/ CheckDoc(a) \/ ReadSum(a) \/ ReadDesk(a) \/ ReadMirror(a)
            => Goal
    BY <1>4 DEF ReadCount, ReadTotal, CheckDoc, ReadSum, ReadDesk, ReadMirror, Keep
  <1>9. AddTotal(a) \/ Lower(a) \/ SetTotal(a) \/ AddDesk(a) \/ SetMirror(a) => Goal
    BY <1>4 DEF AddTotal, Lower, SetTotal, PutTotal, AddDesk, SetMirror
  <1>10. Goal
    BY <1>5, <1>6, <1>7, <1>8, <1>9 DEF Step
  <1> QED
    BY <1>10 DEF Goal, Moved

\* A failure leaves a message in a provider's name with nothing more to do.
LEMMA FailEnds ==
    ASSUME Control, NEW a \in Calls, Step(a) \/ Abort(a), call[a].kind = "ai",
           a \in failed' \ failed
    PROVE  todo'[a] = <<>>
  <1>1. Fail(a) => todo'[a] = <<>>
    BY DEF Fail, Then, Control
  <1>2. Go(a) => failed' = failed
    BY DEF Go, Goto
  <1>3. Abort(a) \/ RefuseEntry(a) \/ RefuseDoc(a) => Fail(a)
    BY DEF Abort, RefuseEntry, RefuseDoc
  <1>4. CheckUser(a) \/ CheckEntry(a) => failed' = failed
    BY DEF CheckUser, CheckEntry, Goto
  <1>5. SetUser(a) \/ SetEntry(a) \/ Bump(a) \/ Own(a) \/ Zero(a) \/ KeepOwn(a) => failed' = failed
    BY <1>2 DEF SetUser, SetEntry, Bump, Own, Zero, KeepOwn
  <1>6. ReadCount(a) \/ ReadTotal(a) \/ CheckDoc(a) \/ ReadSum(a) \/ ReadDesk(a) \/ ReadMirror(a)
            => failed' = failed
    BY <1>2 DEF ReadCount, ReadTotal, CheckDoc, ReadSum, ReadDesk, ReadMirror, Keep
  <1>7. AddTotal(a) \/ Lower(a) \/ SetTotal(a) \/ AddDesk(a) \/ SetMirror(a) => failed' = failed
    BY <1>2 DEF AddTotal, Lower, SetTotal, PutTotal, AddDesk, SetMirror
  <1> QED
    BY <1>1, <1>3, <1>4, <1>5, <1>6, <1>7 DEF Step

\* Where a step leaves a message that was alone and still is.
LEMMA AloneStep ==
    ASSUME SlackInv, NEW a \in Calls, Step(a) \/ Abort(a), Alone(a), a \notin failed'
    PROVE  /\ todo'[a] = <<>> => /\ Slack(From(a))' = before[a].from
                                 /\ Slack(To(a))' = before[a].to
           /\ todo'[a] # <<>> => Stage(todo[a], reg[a], before[a], From(a), To(a))'
  <1>1. /\ Control /\ ChatTypes /\ call[a].kind = "ai" /\ To(a) \in Users /\ From(a) \in Users
        /\ Stage(todo[a], reg[a], before[a], From(a), To(a))
    BY TypesParts, TypedUsers DEF SlackInv, Control, Alone
  <1>2. PICK f \in Users, t \in Users : f = From(a) /\ t = To(a)
    BY <1>1
  <1>3. PICK s, r, k : s = todo'[a] /\ r = reg'[a] /\ k = before[a]
    OBVIOUS
  <1>4. From(a)' = f /\ To(a)' = t /\ before'[a] = k
    BY <1>1, <1>2, <1>3, OthersStay DEF From, To
  <1>5. k.from \in Int /\ k.to \in Int
    BY <1>3 DEF SlackInv
  <1>6. Stage(todo[a], reg[a], k, f, t)
    BY <1>1, <1>2, <1>3
  <1>7. IF s = <<>> THEN Slack(f)' = k.from /\ Slack(t)' = k.to ELSE Stage(s, r, k, f, t)'
    BY <1>1, <1>2, <1>3, <1>5, <1>6, StageStep
  <1>8. s = <<>> => Slack(From(a))' = k.from /\ Slack(To(a))' = k.to
    BY <1>4, <1>7
  <1>9. s # <<>> => Stage(todo[a], reg[a], before[a], From(a), To(a))'
    BY <1>3, <1>4, <1>7
  <1> QED
    BY <1>3, <1>8, <1>9

LEMMA StepBusy ==
    ASSUME NEW a \in Calls, Step(a) \/ Abort(a)
    PROVE  todo[a] # <<>>
  <1>1. CheckUser(a) \/ SetUser(a) \/ CheckEntry(a) \/ SetEntry(a) \/ ReadCount(a) \/ Bump(a)
           \/ Own(a) \/ Zero(a) \/ KeepOwn(a) \/ RefuseEntry(a) \/ Abort(a) => todo[a] # <<>>
    BY DEF CheckUser, SetUser, CheckEntry, SetEntry, ReadCount, Bump, Own, Zero, KeepOwn,
           RefuseEntry, Abort, At
  <1>2. ReadTotal(a) \/ CheckDoc(a) \/ AddTotal(a) \/ Lower(a) \/ ReadSum(a) \/ SetTotal(a)
           \/ ReadDesk(a) \/ AddDesk(a) \/ ReadMirror(a) \/ SetMirror(a) \/ RefuseDoc(a)
           => todo[a] # <<>>
    BY DEF ReadTotal, CheckDoc, AddTotal, Lower, ReadSum, SetTotal, ReadDesk, AddDesk,
           ReadMirror, SetMirror, RefuseDoc, At
  <1> QED
    BY <1>1, <1>2 DEF Step

LEMMA HandlerSlack ==
    ASSUME SlackInv, NEW a \in Calls, Step(a) \/ Abort(a)
    PROVE  SlackInv'
  <1>1. Control /\ todo[a] # <<>>
    BY TypesParts, StepBusy DEF SlackInv
  <1>2. ChatTypes'
    <2>1. Next
      BY DEF Next
    <2> QED
      BY <2>1, StepTypes DEF SlackInv
  <1>3. /\ UNCHANGED <<call, before, idle>> /\ disturbed \cup (Running \ {a}) = disturbed'
        /\ failed' \in {failed, failed \cup {a}}
        /\ \A b \in Calls : b # a => todo'[b] = todo[b]
    BY <1>1, OthersStay
  <1>4. \A b \in idle' : todo'[b] = <<>> /\ b \notin failed'
    BY <1>1, <1>3 DEF SlackInv, Control
  <1>5. \A b \in failed' : call'[b].kind = "ai" => todo'[b] = <<>>
    <2> SUFFICES ASSUME NEW b \in failed', call[b].kind = "ai" PROVE todo'[b] = <<>>
      BY <1>3
    <2>1. CASE b \in failed
      BY <1>1, <1>3, <2>1 DEF SlackInv, Control
    <2>2. CASE b \notin failed
      BY <1>1, <1>3, <2>2, FailEnds
    <2> QED
      BY <2>1, <2>2
  <1>6. ASSUME NEW b \in Calls, Alone(b)'
        PROVE  Stage(todo[b], reg[b], before[b], From(b), To(b))'
    <2>1. call[b].kind = "ai" /\ todo'[b] # <<>> /\ b \notin disturbed /\ before[b].covered
      BY <1>3, <1>6 DEF Alone
    <2>2. b = a
      BY <1>3, <1>6, <2>1 DEF Alone, Running
    <2>3. Alone(a) /\ a \notin failed'
      BY <1>1, <1>3, <1>5, <2>1, <2>2 DEF Alone
    <2> QED
      BY <2>1, <2>2, <2>3, AloneStep
  <1> QED
    BY <1>2, <1>3, <1>4, <1>5, <1>6 DEF SlackInv

LEMMA StepSlack == SlackInv /\ [Next]_vars => SlackInv'
  <1> SUFFICES ASSUME SlackInv, [Next]_vars PROVE SlackInv'
    OBVIOUS
  <1>1. CASE UNCHANGED vars
    <2>1. ChatTypes'
      BY StepTypes DEF SlackInv
    <2>2. /\ UNCHANGED <<call, todo, reg, before, idle, failed, disturbed>>
          /\ UNCHANGED <<room, total>>
      BY <1>1 DEF vars, counters
    <2>3. ASSUME NEW b \in Calls, Alone(b)'
          PROVE  Stage(todo[b], reg[b], before[b], From(b), To(b))'
      <3>1. PICK s, r, k, f, t : /\ s = todo[b] /\ r = reg[b] /\ k = before[b]
                                 /\ f = From(b) /\ t = To(b)
        OBVIOUS
      <3>2. Alone(b) /\ f \in Users /\ t \in Users
        BY <2>2, <2>3, <3>1, TypedUsers, TypesParts DEF Alone, SlackInv, Control
      <3>3. Stage(s, r, k, f, t)'
        BY <2>2, <3>1, <3>2, StageQuiet DEF SlackInv
      <3>4. s = todo'[b] /\ r = reg'[b] /\ k = before'[b] /\ f = From(b)' /\ t = To(b)'
        BY <2>2, <3>1 DEF From, To
      <3> QED
        BY <3>3, <3>4
    <2> QED
      BY <2>1, <2>2, <2>3 DEF SlackInv
  <1>2. CASE Next
    BY <1>2, StartSlack, HandlerSlack DEF Next
  <1> QED
    BY <1>1, <1>2

THEOREM SlackInvariant == Spec => []SlackInv
  BY InitSlack, StepSlack, PTL DEF Spec

\* An undisturbed message in a provider's name that comes to its end leaves the
\* total of either user as far from the sum of his rooms as it was when the
\* message was sent, whatever had gone wrong with them before: the room is emptied
\* after the total was lowered by it (updateUserUnReadMessageCount before
\* setUnreadCountAndLastMessage of the sender, chat-firestore.service.ts).
THEOREM AiMessagesKeepSlack == Spec => AiKeepsSlack
  <1> DEFINE Finishes(a) == /\ call[a].kind = "ai" /\ todo[a] # <<>> /\ todo'[a] = <<>>
                            /\ a \notin failed' /\ a \notin disturbed' /\ before[a].covered
             Kept(a) == /\ Slack(From(a))' = before[a].from
                        /\ Slack(To(a))' = before[a].to
  <1>1. SlackInv /\ [Next]_vars => [\A a \in Calls : Finishes(a) => Kept(a)]_vars
    <2> SUFFICES ASSUME SlackInv, Next, NEW a \in Calls, Finishes(a)
                 PROVE  Kept(a)
      OBVIOUS
    <2>1. Control
      BY TypesParts DEF SlackInv
    <2>2. PICK b \in Calls : Start(b) \/ Step(b) \/ Abort(b)
      BY DEF Next
    <2>3. CASE Start(b)
      <3>1. a # b => todo'[a] = todo[a]
        BY <2>1, <2>3 DEF Start, Control
      <3>2. a \notin idle
        BY DEF SlackInv
      <3> QED
        BY <2>3, <3>1, <3>2 DEF Start
    <2>4. CASE Step(b) \/ Abort(b)
      <3>1. /\ disturbed \cup (Running \ {b}) = disturbed'
            /\ \A x \in Calls : x # b => todo'[x] = todo[x]
        BY <2>1, <2>4, OthersStay
      <3>2. a = b /\ Alone(a)
        BY <3>1 DEF Alone
      <3> QED
        BY <2>4, <3>2, AloneStep
    <2> QED
      BY <2>2, <2>3, <2>4
  <1>2. (\A a \in Calls : Finishes(a) => Kept(a))
           <=> \A a \in Calls :
                  /\ call[a].kind = "ai" /\ todo[a] # <<>> /\ todo'[a] = <<>>
                  /\ a \notin failed'
                  /\ a \notin disturbed' /\ before[a].covered
                  => Slack(From(a))' = before[a].from /\ Slack(To(a))' = before[a].to
    OBVIOUS
  <1> QED
    BY <1>1, <1>2, SlackInvariant, PTL DEF Spec, AiKeepsSlack
=============================================================================
