-------------------------- MODULE ReservationProofs --------------------------
(***************************************************************************)
(* Proofs about Reservation, for any kitties, users, addresses, restarts   *)
(* and failing commits.                                                    *)
(***************************************************************************)
EXTENDS Reservation, FiniteSetTheorems, TLAPS

-----------------------------------------------------------------------------
(* The inductive invariant *)

Owner(k) == db.rows[k].owner
Owns(u) == \E k \in Kitties : Owner(k) = u

(* A request in progress names what it is about. *)
RequestNamed ==
    /\ tx.phase # "idle" => tx.kitty \in Kitties /\ tx.user \in Users /\ tx.coin \in CoinTypes
    /\ tx.phase \in {"reserve", "notify", "satisfy", "respond"} => tx.addr \in Addresses

(* What the transaction has written by each phase. *)
WithAddress == [db EXCEPT !.used = @ \cup {tx.addr}, !.bound[tx.addr] = tx.kitty]
NewRow == [status |-> Reserved, owner |-> tx.user, addr |-> tx.addr]

PendingInv ==
    /\ tx.phase \in {"idle", "bind", "respond"} => pending = db
    /\ tx.phase = "reserve" => pending = WithAddress
    /\ tx.phase \in {"notify", "satisfy"} =>
          /\ userOf[tx.user] # None
          /\ Owner(tx.kitty) = None
          /\ reservations[tx.kitty] = NewRow
          /\ pending = [WithAddress EXCEPT
                           !.rows[tx.kitty] = NewRow,
                           !.users[userOf[tx.user]] = userHas[userOf[tx.user]] \cup {tx.kitty}]
    /\ tx.phase \in {"reserve", "notify", "satisfy"} => db.bound[tx.addr] = None
    /\ tx.phase = "satisfy" => tx.kitty \in api

(* The committed rows: owned is reserved, with an address of its own, once  *)
(* per user.                                                                *)
RowsInv ==
    /\ \A k \in Kitties : Owner(k) = None <=> db.rows[k].addr = None
    /\ \A k \in Kitties : Owner(k) # None => db.rows[k].status = Reserved
    /\ \A j, k \in Kitties : Owner(j) # None /\ Owner(j) = Owner(k) => j = k

(* The User objects in memory: one that has nothing is its own user's, and  *)
(* a user who owns a kitty is behind an object that has one.                *)
UsersInv ==
    /\ \A u \in Users : userOf[u] # None /\ userOf[u] # u => userHas[userOf[u]] # {}
    /\ \A u \in Users : Owns(u) => userOf[u] # None /\ userHas[userOf[u]] # {}

ReservationInv ==
    /\ TypeInv
    /\ RequestNamed
    /\ PendingInv
    /\ RowsInv
    /\ UsersInv
    /\ BoundIsReserved
    /\ UserRowsAgree
    /\ CommittedIsShown
    /\ ReservedIsAnnounced

(* With commits that do not fail: what was answered is committed, and an    *)
(* object that has something is behind users who own something.             *)
AnswersInv ==
    /\ commitFailures = 0
    /\ tx.phase = "respond" => /\ db.rows[tx.kitty] = NewRow
                               /\ db.bound[tx.addr] = tx.kitty
    /\ \A u \in Users : userOf[u] # None /\ userHas[userOf[u]] # {} => Owns(u)
    /\ \A u \in Users : userOf[u] = None => userHas[u] = {}
    /\ ConfirmedIsCommitted
    /\ reply.code = "ErrMaxReservationsExceeded" => reply.user \in Users /\ Owns(reply.user)

-----------------------------------------------------------------------------
(* Lemmas about groups of steps *)

(* What only the database decides survives a step that leaves it alone.     *)
LEMMA DbKept ==
    ASSUME UNCHANGED db, RowsInv, BoundIsReserved, UserRowsAgree
    PROVE  RowsInv' /\ BoundIsReserved' /\ UserRowsAgree'
BY DEF RowsInv, BoundIsReserved, UserRowsAgree, Owner

(* A failed request leaves the types and the transaction in order.          *)
LEMMA FailKeeps ==
    ASSUME TypeInv, NEW code \in Answers, Fail(code),
           UNCHANGED <<userOf, userHas>>, (reservations \in [Kitties -> Row])',
           (pool \in [CoinTypes -> SUBSET Addresses])', (scanned \in SUBSET Addresses)',
           (api \in SUBSET Kitties)'
    PROVE  TypeInv' /\ RequestNamed' /\ PendingInv' /\ UNCHANGED db
<1>1. TypeInv'
  BY DEF TypeInv, Fail, Idle, bounds
<1>2. RequestNamed' /\ PendingInv' /\ UNCHANGED db
  BY DEF Fail, Idle, RequestNamed, PendingInv
<1> QED BY <1>1, <1>2

(* A request that fails without changing the agent's memory keeps the       *)
(* whole invariant.                                                         *)
LEMMA FailInv ==
    ASSUME ReservationInv, NEW code \in Answers, Fail(code),
           UNCHANGED <<userOf, userHas, reservations>>,
           (pool \in [CoinTypes -> SUBSET Addresses])', (scanned \in SUBSET Addresses)',
           (api \in SUBSET Kitties)', api \subseteq api'
    PROVE  ReservationInv'
<1>1. TypeInv /\ RowsInv /\ BoundIsReserved /\ UserRowsAgree
  BY DEF ReservationInv
<1>2. TypeInv' /\ RequestNamed' /\ PendingInv' /\ UNCHANGED db
  <2>1. (reservations \in [Kitties -> Row])'
    BY <1>1 DEF TypeInv
  <2> QED BY <1>1, <2>1, FailKeeps
<1>3. RowsInv' /\ BoundIsReserved' /\ UserRowsAgree'
  BY <1>1, <1>2, DbKept
<1>4. UsersInv' /\ CommittedIsShown' /\ ReservedIsAnnounced'
  BY <1>2 DEF ReservationInv, UsersInv, Owns, Owner, CommittedIsShown, ReservedIsAnnounced
<1> QED BY <1>2, <1>3, <1>4 DEF ReservationInv

LEMMA InitInv == ASSUME Init PROVE ReservationInv
<1>1. TypeInv
  <2>1. db.rows \in [Kitties -> Row]
    BY RequestAssumption DEF Init, Row
  <2>2. db \in Database
    BY <2>1 DEF Init, Database
  <2>3. tx \in [phase : {"idle", "bind", "blocked", "reserve", "notify", "satisfy", "respond"},
               kitty : Kitties \cup {None}, user : Users \cup {None},
               coin : CoinTypes \cup {None}, addr : Addresses \cup {None}]
    BY DEF Init, Idle
  <2> QED BY <2>1, <2>2, <2>3, RequestAssumption DEF Init, TypeInv, NoReply, Answers
<1>2. RequestNamed /\ PendingInv
  BY DEF Init, Idle, RequestNamed, PendingInv
<1>3. \A k \in Kitties : Owner(k) = None /\ db.rows[k].addr = None
  BY DEF Init, Owner
<1>4. RowsInv /\ UsersInv /\ CommittedIsShown /\ ReservedIsAnnounced
  BY <1>3, RequestAssumption DEF Init, RowsInv, UsersInv, Owns, Owner, CommittedIsShown, ReservedIsAnnounced
<1>5. BoundIsReserved
  BY <1>3 DEF Init, BoundIsReserved
<1>6. UserRowsAgree
  BY <1>3, RequestAssumption DEF Init, UserRowsAgree, Owner
<1> QED BY <1>1, <1>2, <1>4, <1>5, <1>6 DEF ReservationInv

-----------------------------------------------------------------------------
(* Steps *)

LEMMA BeginInv ==
    ASSUME ReservationInv, NEW k \in Kitties, NEW u \in Users, NEW c \in CoinTypes, Begin(k, u, c)
    PROVE  ReservationInv'
<1>1. TypeInv'
  BY DEF ReservationInv, TypeInv, Begin, memory, bounds
<1>2. RequestNamed' /\ PendingInv'
  BY DEF ReservationInv, RequestNamed, PendingInv, Begin, At
<1>3. UNCHANGED <<db, userOf, userHas, reservations, api>>
  BY DEF Begin, memory
<1>4. RowsInv' /\ BoundIsReserved' /\ UserRowsAgree'
  BY <1>3, DbKept DEF ReservationInv
<1>5. UsersInv' /\ CommittedIsShown' /\ ReservedIsAnnounced'
  BY <1>3 DEF ReservationInv, UsersInv, Owns, Owner, CommittedIsShown, ReservedIsAnnounced
<1> QED BY <1>1, <1>2, <1>4, <1>5 DEF ReservationInv

LEMMA BindAddressInv ==
    ASSUME ReservationInv, NEW a \in Addresses, BindAddress(a)
    PROVE  ReservationInv'
<1>1. tx.kitty \in Kitties /\ tx.user \in Users /\ tx.coin \in CoinTypes /\ pending = db
  BY DEF ReservationInv, RequestNamed, PendingInv, BindAddress, At
<1>2. TypeInv'
  <2>1. pending' \in Database
    <3>1. pending \in Database
      BY DEF ReservationInv, TypeInv
    <3>2. pending' = [pending EXCEPT !.used = @ \cup {a}, !.bound[a] = tx.kitty]
      BY DEF BindAddress
    <3> QED BY <1>1, <3>1, <3>2 DEF Database
  <2>2. pool' \in [CoinTypes -> SUBSET Addresses]
    BY DEF ReservationInv, TypeInv, BindAddress, TakeAddress
  <2> QED BY <2>1, <2>2 DEF ReservationInv, TypeInv, BindAddress, AddScanAddress,
                         AfterAddScanAddress, bounds
<1>3. RequestNamed' /\ PendingInv'
  <2>1. tx' = [tx EXCEPT !.phase = IF ScannerUsesDb THEN "blocked" ELSE "reserve", !.addr = a]
    BY DEF BindAddress, AfterAddScanAddress
  <2>2. /\ tx'.phase \in {"blocked", "reserve"} /\ tx'.addr = a
        /\ tx'.kitty = tx.kitty /\ tx'.user = tx.user /\ tx'.coin = tx.coin
    BY <2>1 DEF ReservationInv, TypeInv
  <2>3. RequestNamed'
    BY <1>1, <2>2 DEF RequestNamed
  <2>4. pending' = WithAddress' /\ db.bound[a] = None /\ db' = db
    BY <1>1, <2>2 DEF BindAddress, CanBind, WithAddress
  <2> QED BY <2>2, <2>3, <2>4 DEF PendingInv
<1>4. UNCHANGED <<db, userOf, userHas, reservations, api>>
  BY DEF BindAddress
<1>5. RowsInv' /\ BoundIsReserved' /\ UserRowsAgree'
  BY <1>4, DbKept DEF ReservationInv
<1>6. UsersInv' /\ CommittedIsShown' /\ ReservedIsAnnounced'
  BY <1>4 DEF ReservationInv, UsersInv, Owns, Owner, CommittedIsShown, ReservedIsAnnounced
<1> QED BY <1>2, <1>3, <1>5, <1>6 DEF ReservationInv

LEMMA MakeReservationInv ==
    ASSUME ReservationInv, MakeReservation
    PROVE  ReservationInv'
<1> DEFINE k == tx.kitty
           o == User(tx.user)
<1>1. /\ k \in Kitties /\ tx.user \in Users /\ tx.coin \in CoinTypes /\ tx.addr \in Addresses
      /\ pending = WithAddress /\ db.bound[tx.addr] = None
  BY DEF ReservationInv, RequestNamed, PendingInv, MakeReservation, At
<1>2. o \in Users
  BY <1>1 DEF ReservationInv, TypeInv, User
<1>3. NewRow \in Row
  BY <1>1 DEF NewRow, Row, Reserved, Statuses
<1>4. /\ reservations[k].status = Available
      /\ userOf' = [userOf EXCEPT ![tx.user] = o]
      /\ reservations' = [reservations EXCEPT ![k] = NewRow]
      /\ pending' = [pending EXCEPT !.rows[k] = NewRow, !.users[o] = userHas[o] \cup {k}]
      /\ tx' = [tx EXCEPT !.phase = "notify"]
      /\ UNCHANGED <<db, userHas, api>>
  BY DEF MakeReservation, NewRow, Proceed
<1>5. TypeInv'
  <2>1. pending' \in Database
    <3>1. pending \in Database /\ userHas[o] \in SUBSET Kitties
      BY <1>2 DEF ReservationInv, TypeInv
    <3>2. userHas[o] \cup {k} \in SUBSET Kitties
      BY <1>1, <3>1
    <3>3. pending' = [pending EXCEPT !.rows[k] = NewRow, !.users[o] = userHas[o] \cup {k}]
      BY <1>4
    <3> HIDE DEF k, o
    <3> QED BY <3>1, <3>2, <3>3, <1>1, <1>2, <1>3 DEF Database
  <2>2. userOf' \in [Users -> Users \cup {None}] /\ reservations' \in [Kitties -> Row]
    BY <1>2, <1>3, <1>4 DEF ReservationInv, TypeInv
  <2>3. UNCHANGED <<db, pool, userHas, scanned, api, reply, confirmed, restarts, commitFailures>>
    BY DEF MakeReservation, bounds
  <2>4. tx' \in [phase : {"idle", "bind", "blocked", "reserve", "notify", "satisfy", "respond"},
               kitty : Kitties \cup {None}, user : Users \cup {None},
               coin : CoinTypes \cup {None}, addr : Addresses \cup {None}]
    BY <1>4 DEF ReservationInv, TypeInv
  <2> QED BY <2>1, <2>2, <2>3, <2>4 DEF ReservationInv, TypeInv
<1>6. Owner(k) = None
  BY <1>1, <1>4 DEF ReservationInv, CommittedIsShown, RowsInv, Owner, Available, Reserved
<1>7. /\ tx'.phase = "notify" /\ tx'.kitty = k /\ tx'.user = tx.user
      /\ tx'.coin = tx.coin /\ tx'.addr = tx.addr
  BY <1>4 DEF ReservationInv, TypeInv
<1>8. userOf'[tx.user] = o
  BY <1>1, <1>4 DEF ReservationInv, TypeInv
<1>9. RequestNamed'
  BY <1>1, <1>7 DEF RequestNamed
<1>10. PendingInv'
  <2>1. WithAddress' = WithAddress /\ NewRow' = NewRow
    BY <1>4, <1>7 DEF WithAddress, NewRow
  <2>2. o # None
    BY <1>2, RequestAssumption
  <2>3. pending' = [WithAddress EXCEPT !.rows[k] = NewRow, !.users[o] = userHas[o] \cup {k}]
    BY <1>1, <1>4
  <2>4. reservations'[k] = NewRow
    BY <1>1, <1>4 DEF ReservationInv, TypeInv
  <2> QED BY <1>1, <1>4, <1>6, <1>7, <1>8, <2>1, <2>2, <2>3, <2>4 DEF PendingInv, Owner
<1>11. RowsInv' /\ BoundIsReserved' /\ UserRowsAgree'
  BY <1>4, DbKept DEF ReservationInv
<1>12. CommittedIsShown' /\ ReservedIsAnnounced'
  BY <1>4, <1>6 DEF ReservationInv, TypeInv, CommittedIsShown, ReservedIsAnnounced, Owner
<1>13. UsersInv'
  <2>1. ASSUME NEW v \in Users
        PROVE  userOf'[v] = userOf[v] \/ (userOf[v] = None /\ userOf'[v] = v)
    BY <1>1, <1>4 DEF ReservationInv, TypeInv, User
  <2>2. UsersInv
    BY DEF ReservationInv
  <2>3. ASSUME NEW v \in Users, userOf'[v] # None, userOf'[v] # v
        PROVE  userHas'[userOf'[v]] # {}
    BY <1>4, <2>1, <2>2, <2>3 DEF UsersInv
  <2>4. ASSUME NEW v \in Users, Owns(v)'
        PROVE  userOf'[v] # None /\ userHas'[userOf'[v]] # {}
    <3>1. Owns(v)
      BY <1>4, <2>4 DEF Owns, Owner
    <3> QED BY <1>4, <2>1, <2>2, <3>1 DEF UsersInv
  <2> QED BY <2>3, <2>4 DEF UsersInv
<1> QED BY <1>5, <1>9, <1>10, <1>11, <1>12, <1>13 DEF ReservationInv

LEMMA SetReservationInv ==
    ASSUME ReservationInv, SetReservation
    PROVE  ReservationInv'
<1>1. /\ tx.phase = "notify" /\ tx' = [tx EXCEPT !.phase = "satisfy"] /\ api' = api \cup {tx.kitty}
      /\ UNCHANGED <<db, pending, pool, reservations, userOf, userHas, scanned, reply, confirmed,
                     restarts, commitFailures>>
  BY DEF SetReservation, At, Proceed, memory, bounds
<1>2. tx.kitty \in Kitties
  BY <1>1 DEF ReservationInv, RequestNamed
<1>3. TypeInv'
  BY <1>1, <1>2 DEF ReservationInv, TypeInv
<1>4. /\ tx'.phase = "satisfy" /\ tx'.kitty = tx.kitty /\ tx'.user = tx.user
      /\ tx'.coin = tx.coin /\ tx'.addr = tx.addr
  BY <1>1 DEF ReservationInv, TypeInv
<1>5. RequestNamed'
  BY <1>1, <1>4 DEF ReservationInv, RequestNamed
<1>6. PendingInv'
  BY <1>1, <1>4 DEF ReservationInv, PendingInv, WithAddress, NewRow, Owner
<1>7. RowsInv' /\ BoundIsReserved' /\ UserRowsAgree'
  BY <1>1, DbKept DEF ReservationInv
<1>8. UsersInv' /\ CommittedIsShown' /\ ReservedIsAnnounced'
  BY <1>1 DEF ReservationInv, UsersInv, Owns, Owner, CommittedIsShown, ReservedIsAnnounced
<1> QED BY <1>3, <1>5, <1>6, <1>7, <1>8 DEF ReservationInv

(* The commit: what the rows say of the new reservation, and why nobody     *)
(* else's row is touched: the User object had nothing, so it is the user's. *)
LEMMA CommitFacts ==
    ASSUME ReservationInv, AddReservation
    PROVE  /\ tx.kitty \in Kitties /\ tx.user \in Users /\ tx.addr \in Addresses
           /\ tx.phase = "satisfy" /\ tx' = [tx EXCEPT !.phase = "respond"]
           /\ userOf[tx.user] = tx.user /\ User(tx.user) = tx.user
           /\ userHas[tx.user] = {} /\ ~Owns(tx.user)
           /\ userHas' = [userHas EXCEPT ![tx.user] = {tx.kitty}]
           /\ pending = [db EXCEPT !.used = @ \cup {tx.addr}, !.bound[tx.addr] = tx.kitty,
                                   !.rows[tx.kitty] = NewRow,
                                   !.users[tx.user] = {tx.kitty}]
           /\ reservations[tx.kitty] = NewRow
<1>1. /\ tx.phase = "satisfy" /\ CanReserve(User(tx.user))
      /\ tx' = [tx EXCEPT !.phase = "respond"]
      /\ userHas' = [userHas EXCEPT ![User(tx.user)] = @ \cup {tx.kitty}]
  BY DEF AddReservation, At, Proceed
<1>2. tx.kitty \in Kitties /\ tx.user \in Users /\ tx.addr \in Addresses
  BY <1>1 DEF ReservationInv, RequestNamed
<1>3. userOf[tx.user] # None /\ userOf[tx.user] \in Users /\ User(tx.user) = userOf[tx.user]
  BY <1>1, <1>2 DEF ReservationInv, PendingInv, TypeInv, User
<1>4. userHas[userOf[tx.user]] = {}
  <2>1. userHas[userOf[tx.user]] \subseteq Kitties
    BY <1>3 DEF ReservationInv, TypeInv
  <2>2. IsFiniteSet(userHas[userOf[tx.user]])
    BY <2>1, RequestAssumption, FS_Subset
  <2>3. Cardinality(userHas[userOf[tx.user]]) < 1
    BY <1>1, <1>3 DEF CanReserve, maxReservation
  <2>4. Cardinality(userHas[userOf[tx.user]]) = 0
    BY <2>2, <2>3, FS_CardinalityType
  <2> QED BY <2>2, <2>4, FS_EmptySet
<1>5. userOf[tx.user] = tx.user /\ ~Owns(tx.user)
  BY <1>2, <1>3, <1>4 DEF ReservationInv, UsersInv
<1>6. userHas' = [userHas EXCEPT ![tx.user] = {tx.kitty}]
  BY <1>1, <1>3, <1>4, <1>5
<1>7. pending = [db EXCEPT !.used = @ \cup {tx.addr}, !.bound[tx.addr] = tx.kitty,
                          !.rows[tx.kitty] = NewRow, !.users[tx.user] = {tx.kitty}]
  BY <1>1, <1>4, <1>5 DEF ReservationInv, PendingInv, WithAddress
<1>8. reservations[tx.kitty] = NewRow
  BY <1>1 DEF ReservationInv, PendingInv
<1> QED BY <1>1, <1>2, <1>3, <1>4, <1>5, <1>6, <1>7, <1>8

LEMMA AddReservationInv ==
    ASSUME ReservationInv, AddReservation
    PROVE  ReservationInv'
<1> DEFINE k == tx.kitty
           u == tx.user
           a == tx.addr
<1>1. /\ k \in Kitties /\ u \in Users /\ a \in Addresses
      /\ tx.phase = "satisfy" /\ tx' = [tx EXCEPT !.phase = "respond"]
      /\ userOf[u] = u /\ userHas[u] = {} /\ ~Owns(u)
      /\ userHas' = [userHas EXCEPT ![u] = {k}]
      /\ pending = [db EXCEPT !.used = @ \cup {a}, !.bound[a] = k,
                              !.rows[k] = NewRow, !.users[u] = {k}]
      /\ reservations[k] = NewRow
  BY CommitFacts
<1>2. db.bound[a] = None /\ Owner(k) = None /\ k \in api /\ tx.coin \in CoinTypes
  BY <1>1 DEF ReservationInv, PendingInv, RequestNamed
<1>3. reservations' = reservations
  BY <1>1 DEF AddReservation, ReservationInv, TypeInv, NewRow
<1>4. /\ UNCHANGED <<pool, userOf, scanned, api, reply, confirmed, restarts>>
      /\ \/ db' = pending /\ UNCHANGED <<pending, commitFailures>>
         \/ db' = db /\ pending' = db /\ commitFailures' = commitFailures + 1
  BY DEF AddReservation
<1>5. /\ tx'.phase = "respond" /\ tx'.kitty = k /\ tx'.user = u
      /\ tx'.coin = tx.coin /\ tx'.addr = a
  BY <1>1 DEF ReservationInv, TypeInv
<1>6. TypeInv'
  <2>1. userHas' \in [Users -> SUBSET Kitties]
    BY <1>1 DEF ReservationInv, TypeInv
  <2>2. db' \in Database /\ pending' \in Database /\ commitFailures' \in Nat
    BY <1>4 DEF ReservationInv, TypeInv
  <2>3. tx' \in [phase : {"idle", "bind", "blocked", "reserve", "notify", "satisfy", "respond"},
               kitty : Kitties \cup {None}, user : Users \cup {None},
               coin : CoinTypes \cup {None}, addr : Addresses \cup {None}]
    BY <1>1 DEF ReservationInv, TypeInv
  <2> QED BY <1>3, <1>4, <2>1, <2>2, <2>3 DEF ReservationInv, TypeInv
<1>7. RequestNamed' /\ PendingInv'
  BY <1>1, <1>2, <1>4, <1>5 DEF RequestNamed, PendingInv
<1>8. CASE db' = db
  <2>1. RowsInv' /\ BoundIsReserved' /\ UserRowsAgree'
    BY <1>8, DbKept DEF ReservationInv
  <2>2. CommittedIsShown' /\ ReservedIsAnnounced'
    BY <1>3, <1>4, <1>8 DEF ReservationInv, CommittedIsShown, ReservedIsAnnounced
  <2>3. UsersInv'
    BY <1>1, <1>4, <1>8 DEF ReservationInv, TypeInv, UsersInv, Owns, Owner
  <2> QED BY <1>6, <1>7, <2>1, <2>2, <2>3 DEF ReservationInv
<1>9. CASE db' = pending
  <2>1. /\ db'.rows = [db.rows EXCEPT ![k] = NewRow]
        /\ db'.bound = [db.bound EXCEPT ![a] = k]
        /\ db'.users = [db.users EXCEPT ![u] = {k}]
        /\ db.rows \in [Kitties -> Row] /\ db.users \in [Users -> SUBSET Kitties]
        /\ db.bound \in [Addresses -> Kitties \cup {None}]
    BY <1>1, <1>9 DEF ReservationInv, TypeInv, Database
  <2>2. /\ db'.rows[k] = NewRow
        /\ \A j \in Kitties \ {k} : db'.rows[j] = db.rows[j]
        /\ db'.bound[a] = k
        /\ \A b \in Addresses \ {a} : db'.bound[b] = db.bound[b]
        /\ db'.users[u] = {k}
        /\ \A v \in Users \ {u} : db'.users[v] = db.users[v]
    BY <1>1, <2>1
  <2>3. \A j \in Kitties : Owner(j) # u
    BY <1>1 DEF Owns
  <2>4. u # None /\ a # None /\ k # None
    BY <1>1, RequestAssumption
  <2>5. NewRow.owner = u /\ NewRow.addr = a /\ NewRow.status = Reserved
    BY DEF NewRow
  <2>6. RowsInv'
    BY <1>1, <2>2, <2>3, <2>4, <2>5 DEF ReservationInv, RowsInv, Owner
  <2>7. BoundIsReserved'
    <3>1. ASSUME NEW b \in Addresses, db'.bound[b] # None
          PROVE  /\ db'.rows[db'.bound[b]].status = Reserved
                 /\ db'.rows[db'.bound[b]].addr = b
      <4>1. CASE b = a BY <2>2, <2>5, <4>1
      <4>2. CASE b # a
        <5>1. db'.bound[b] = db.bound[b] /\ db.bound[b] # None /\ db.bound[b] \in Kitties
          BY <2>1, <2>2, <3>1, <4>2
        <5>2. db.rows[db.bound[b]].status = Reserved /\ db.rows[db.bound[b]].addr = b
          BY <5>1 DEF ReservationInv, BoundIsReserved
        <5>3. b # None BY RequestAssumption
        <5>4. db.bound[b] # k
          BY <1>1, <1>2, <5>2, <5>3 DEF ReservationInv, RowsInv, Owner
        <5> QED BY <2>2, <5>1, <5>2, <5>4
      <4> QED BY <4>1, <4>2
    <3>2. ASSUME NEW j \in Kitties, db'.rows[j].addr # None
          PROVE  db'.bound[db'.rows[j].addr] = j
      <4>1. CASE j = k BY <2>2, <2>5, <4>1
      <4>2. CASE j # k
        <5>1. db'.rows[j] = db.rows[j] /\ db.rows[j].addr # None
          BY <2>2, <3>2, <4>2
        <5>2. db.rows[j].addr \in Addresses
          BY <2>1, <5>1 DEF Row
        <5>3. db.bound[db.rows[j].addr] = j
          BY <5>1 DEF ReservationInv, BoundIsReserved
        <5>4. db.rows[j].addr # a
          BY <1>2, <5>3, RequestAssumption
        <5> QED BY <2>2, <5>1, <5>2, <5>3, <5>4
      <4> QED BY <4>1, <4>2
    <3> QED BY <3>1, <3>2 DEF BoundIsReserved
  <2>8. UserRowsAgree'
    <3>1. UserRowsAgree
      BY DEF ReservationInv
    <3>2. ASSUME NEW v \in Users
          PROVE  db'.users[v] = {j \in Kitties : db'.rows[j].owner = v}
      <4>1. CASE v = u
        BY <1>1, <2>2, <2>3, <2>5, <4>1 DEF Owner
      <4>2. CASE v # u
        <5>1. db'.users[v] = {j \in Kitties : db.rows[j].owner = v}
          BY <2>2, <3>1, <4>2 DEF UserRowsAgree
        <5>2. db.rows[k].owner # v
          BY <1>2, RequestAssumption DEF Owner
        <5> QED BY <2>2, <2>5, <4>2, <5>1, <5>2
      <4> QED BY <4>1, <4>2
    <3> QED BY <3>2 DEF UserRowsAgree
  <2>9. CommittedIsShown' /\ ReservedIsAnnounced'
    BY <1>1, <1>2, <1>3, <1>4, <2>2 DEF ReservationInv, CommittedIsShown, ReservedIsAnnounced
  <2>10. UsersInv'
    <3>1. UsersInv
      BY DEF ReservationInv
    <3>2. \A v \in Users : userHas'[v] = IF v = u THEN {k} ELSE userHas[v]
      BY <1>1 DEF ReservationInv, TypeInv
    <3>3. userOf \in [Users -> Users \cup {None}]
      BY DEF ReservationInv, TypeInv
    <3>4. ASSUME NEW v \in Users, userOf[v] # None, userOf[v] # v
          PROVE  userHas'[userOf[v]] # {}
      BY <3>1, <3>2, <3>3, <3>4 DEF UsersInv
    <3>5. ASSUME NEW v \in Users, Owns(v)'
          PROVE  userOf[v] # None /\ userHas'[userOf[v]] # {}
      <4>1. CASE v = u BY <1>1, <2>4, <3>2, <4>1
      <4>2. CASE v # u
        <5>1. Owns(v)
          BY <2>2, <2>5, <3>5, <4>2 DEF Owns, Owner
        <5> QED BY <3>1, <3>2, <3>3, <5>1 DEF UsersInv
      <4> QED BY <4>1, <4>2
    <3> QED BY <1>4, <3>4, <3>5 DEF UsersInv
  <2> QED BY <1>6, <1>7, <2>6, <2>7, <2>8, <2>9, <2>10 DEF ReservationInv
<1> QED BY <1>4, <1>8, <1>9

LEMMA RespondInv ==
    ASSUME ReservationInv, Respond
    PROVE  ReservationInv'
<1>1. /\ tx.phase = "respond" /\ tx' = Idle
      /\ UNCHANGED <<db, pending, pool, reservations, userOf, userHas, scanned, api,
                     restarts, commitFailures>>
  BY DEF Respond, At, memory, bounds
<1>2. /\ tx.kitty \in Kitties /\ tx.user \in Users /\ tx.coin \in CoinTypes
      /\ tx.addr \in Addresses
  BY <1>1 DEF ReservationInv, RequestNamed
<1>3. TypeInv'
  BY <1>1, <1>2 DEF ReservationInv, TypeInv, Respond, Idle, Answers
<1>4. PendingInv' /\ RequestNamed'
  BY <1>1 DEF ReservationInv, PendingInv, RequestNamed, Idle
<1>5. RowsInv' /\ BoundIsReserved' /\ UserRowsAgree'
  BY <1>1, DbKept DEF ReservationInv
<1>6. UsersInv' /\ CommittedIsShown' /\ ReservedIsAnnounced'
  BY <1>1 DEF ReservationInv, UsersInv, Owns, Owner, CommittedIsShown, ReservedIsAnnounced
<1> QED BY <1>3, <1>4, <1>5, <1>6 DEF ReservationInv

(* A restart rebuilds memory from the rows: a loaded user owns something,   *)
(* and shares the object of a user who does.                                *)
LEMMA RestartInv ==
    ASSUME ReservationInv, Restart
    PROVE  ReservationInv'
<1> DEFINE loaded == {u \in Users : db.users[u] # {}}
<1>1. PICK last \in loaded \cup {None} :
          /\ last = None <=> loaded = {}
          /\ restarts' = restarts + 1
          /\ pool' = [c \in CoinTypes |-> Pool[c] \ db.used]
          /\ reservations' = db.rows
          /\ userOf' = [u \in Users |-> IF u \in loaded THEN last ELSE None]
          /\ userHas' = [u \in Users |-> IF u = last THEN db.users[u] ELSE {}]
          /\ scanned' = {}
          /\ tx' = Idle
          /\ pending' = db
          /\ reply' = NoReply
          /\ UNCHANGED <<db, api, confirmed, commitFailures>>
  BY DEF Restart, StoredUsers, UnusedAddresses
<1>2. TypeInv'
  <2>1. /\ db' \in Database /\ pending' \in Database /\ reservations' \in [Kitties -> Row]
        /\ userHas' \in [Users -> SUBSET Kitties]
    BY <1>1 DEF ReservationInv, TypeInv, Database
  <2>2. userOf' \in [Users -> Users \cup {None}]
    BY <1>1
  <2>3. pool' \in [CoinTypes -> SUBSET Addresses]
    BY <1>1, RequestAssumption
  <2>4. tx' \in [phase : {"idle", "bind", "blocked", "reserve", "notify", "satisfy", "respond"},
               kitty : Kitties \cup {None}, user : Users \cup {None},
               coin : CoinTypes \cup {None}, addr : Addresses \cup {None}]
    BY <1>1 DEF Idle
  <2> QED BY <1>1, <2>1, <2>2, <2>3, <2>4 DEF ReservationInv, TypeInv, NoReply, Answers
<1>3. RequestNamed' /\ PendingInv'
  BY <1>1 DEF RequestNamed, PendingInv, Idle
<1>4. RowsInv' /\ BoundIsReserved' /\ UserRowsAgree'
  BY <1>1, DbKept DEF ReservationInv
<1>5. CommittedIsShown' /\ ReservedIsAnnounced'
  BY <1>1 DEF ReservationInv, CommittedIsShown, ReservedIsAnnounced
<1>6. UsersInv'
  <2>1. \A u \in Users : userOf'[u] # None =>
           userOf'[u] = last /\ u \in loaded /\ last \in loaded /\ userHas'[userOf'[u]] # {}
    BY <1>1, RequestAssumption
  <2>2. ASSUME NEW u \in Users, Owns(u)'
        PROVE  userOf'[u] # None
    <3>1. Owns(u)
      BY <1>1, <2>2 DEF Owns, Owner
    <3>2. u \in loaded
      BY <3>1 DEF ReservationInv, UserRowsAgree, Owns, Owner
    <3> QED BY <1>1, <3>2, RequestAssumption
  <2> QED BY <2>1, <2>2 DEF UsersInv
<1> QED BY <1>2, <1>3, <1>4, <1>5, <1>6 DEF ReservationInv

LEMMA FailuresInv ==
    ASSUME ReservationInv,
           \/ NoAddressLeft
           \/ \E a \in Addresses : BindFails(a)
           \/ MakeReservationFails
           \/ SetReservationFails
           \/ AddReservationFails
    PROVE  ReservationInv'
<1>1. TypeInv
  BY DEF ReservationInv
<1>2. CASE NoAddressLeft
  BY <1>1, <1>2, FailInv DEF NoAddressLeft, TypeInv, Answers, memory
<1>3. CASE \E a \in Addresses : BindFails(a)
  <2>1. pool' \in [CoinTypes -> SUBSET Addresses]
    BY <1>1, <1>3 DEF TypeInv, BindFails, TakeAddress
  <2>2. Fail("error") /\ UNCHANGED <<reservations, userOf, userHas, scanned, api>>
    BY <1>3 DEF BindFails
  <2>3. (scanned \in SUBSET Addresses)' /\ (api \in SUBSET Kitties)' /\ api \subseteq api'
    BY <1>1, <2>2 DEF TypeInv
  <2>4. "error" \in Answers
    BY DEF Answers
  <2> QED BY <2>1, <2>2, <2>3, <2>4, FailInv
<1>4. CASE MakeReservationFails
  BY <1>1, <1>4, FailInv DEF MakeReservationFails, TypeInv, Answers, memory
<1>5. CASE SetReservationFails
  <2>1. tx.kitty \in Kitties
    BY <1>5 DEF SetReservationFails, At, ReservationInv, RequestNamed
  <2> QED BY <1>1, <1>5, <2>1, FailInv DEF SetReservationFails, TypeInv, Answers, memory
<1>6. CASE AddReservationFails
  BY <1>1, <1>6, FailInv DEF AddReservationFails, TypeInv, Answers, memory
<1> QED BY <1>2, <1>3, <1>4, <1>5, <1>6

LEMMA NextInv ==
    ASSUME ReservationInv, [Next]_vars
    PROVE  ReservationInv'
<1>1. ASSUME NEW k \in Kitties, NEW u \in Users, NEW c \in CoinTypes, Begin(k, u, c)
      PROVE  ReservationInv'
  BY <1>1, BeginInv
<1>2. ASSUME NEW a \in Addresses, BindAddress(a)
      PROVE  ReservationInv'
  BY <1>2, BindAddressInv
<1>3. CASE MakeReservation
  BY <1>3, MakeReservationInv
<1>4. CASE SetReservation
  BY <1>4, SetReservationInv
<1>5. CASE AddReservation
  BY <1>5, AddReservationInv
<1>6. CASE Respond
  BY <1>6, RespondInv
<1>7. CASE Restart
  BY <1>7, RestartInv
<1>8. CASE UNCHANGED vars
  <2>1. UNCHANGED <<db, pending, pool, reservations, userOf, userHas, scanned, tx, api, reply,
                    confirmed, restarts, commitFailures>>
    BY <1>8 DEF vars, memory, bounds
  <2>2. TypeInv' /\ RequestNamed' /\ PendingInv' /\ UsersInv' /\ CommittedIsShown' /\ ReservedIsAnnounced'
    BY <2>1 DEF ReservationInv, TypeInv, RequestNamed, PendingInv, WithAddress, NewRow, UsersInv,
                Owns, Owner, CommittedIsShown, ReservedIsAnnounced
  <2> QED BY <2>1, <2>2, DbKept DEF ReservationInv
<1> QED BY <1>1, <1>2, <1>3, <1>4, <1>5, <1>6, <1>7, <1>8, FailuresInv DEF Next, Handle

LEMMA Invariance == Spec => []ReservationInv
<1>1. Init => ReservationInv
  BY InitInv
<1>2. ReservationInv /\ [Next]_vars => ReservationInv'
  BY NextInv
<1> QED BY <1>1, <1>2, PTL DEF Spec

-----------------------------------------------------------------------------
(* Theorems *)

(* Every variable keeps its type.                                           *)
THEOREM TypesKept == Spec => []TypeInv
<1>1. ReservationInv => TypeInv
  BY DEF ReservationInv
<1> QED BY <1>1, Invariance, PTL

(* After any failed requests and restarts, a bound address is the deposit   *)
(* address of the reserved kitty it is bound to, and the other way round.   *)
THEOREM BucketsAgree == Spec => []BoundIsReserved
<1>1. ReservationInv => BoundIsReserved
  BY DEF ReservationInv
<1> QED BY <1>1, Invariance, PTL

(* After any failed requests and restarts, a user's row lists exactly the   *)
(* kitties whose rows name the user.                                        *)
THEOREM UserRowsKept == Spec => []UserRowsAgree
<1>1. ReservationInv => UserRowsAgree
  BY DEF ReservationInv
<1> QED BY <1>1, Invariance, PTL

(* The listing from memory and the deposit address from the database agree, *)
(* at whatever moment of a request or a restart they are asked for.         *)
THEOREM QuestionsAnswered == Spec => []QuestionsAgree
<1>1. ASSUME ReservationInv, NEW k \in Kitties, GetDepositAddressHandler(k).code = "ok"
      PROVE  /\ k \in GetReservationsHandler(Reserved).kitties
             /\ k \notin GetReservationsHandler(Available).kitties
             /\ db.bound[GetDepositAddressHandler(k).addr] = k
  <2>1. db.rows[k].addr # None /\ Owner(k) # None
    BY <1>1 DEF GetDepositAddressHandler, GetKittyDepositAddress, ReservationInv, RowsInv
  <2>2. reservations[k].status = Reserved
    BY <1>1, <2>1 DEF ReservationInv, RowsInv, CommittedIsShown, Owner
  <2>3. db.bound[db.rows[k].addr] = k
    BY <1>1, <2>1 DEF ReservationInv, BoundIsReserved
  <2>4. GetDepositAddressHandler(k).addr = db.rows[k].addr
    BY <1>1 DEF GetDepositAddressHandler, GetKittyDepositAddress
  <2>5. \A s \in {Reserved, Available} : GetReservationsHandler(s).kitties = GetReservations(s)
    BY DEF GetReservationsHandler, Statuses, Reserved, Available
  <2> QED BY <2>2, <2>3, <2>4, <2>5 DEF GetReservations, Reserved, Available
<1>2. ReservationInv => QuestionsAgree
  BY <1>1 DEF QuestionsAgree
<1> QED BY <1>2, Invariance, PTL

(* A kitty whose reservation is committed is not offered again, and the      *)
(* kitty API knows of it.                                                   *)
THEOREM SoldIsKnown == Spec => []CommittedIsKnown
<1>1. ReservationInv => CommittedIsKnown
  BY DEF ReservationInv, CommittedIsKnown
<1> QED BY <1>1, Invariance, PTL

(* No user owns more than maxReservation kitties.                           *)
THEOREM LimitKept == Spec => []UserLimit
<1>1. ASSUME ReservationInv, NEW u \in Users
      PROVE  Cardinality({k \in Kitties : db.rows[k].owner = u}) <= maxReservation
  <2> DEFINE owned == {k \in Kitties : db.rows[k].owner = u}
  <2>1. \A j, k \in owned : j = k
    BY <1>1, RequestAssumption DEF ReservationInv, RowsInv, Owner
  <2>2. Cardinality(owned) <= 1
    <3> HIDE DEF owned
    <3>1. CASE owned = {}
      BY <3>1, FS_EmptySet
    <3>2. CASE owned # {}
      <4>1. PICK k : owned = {k}
        BY <2>1, <3>2
      <4> QED BY <4>1, FS_Singleton
    <3> QED BY <3>1, <3>2
  <2> QED BY <2>2 DEF maxReservation
<1>2. ReservationInv => UserLimit
  BY <1>1 DEF UserLimit
<1> QED BY <1>2, Invariance, PTL

-----------------------------------------------------------------------------
(* Commits that do not fail *)

(* The answers stay true in a step that changes neither the database nor    *)
(* the users, and confirms nothing.                                         *)
LEMMA AnswersKept ==
    ASSUME AnswersInv, UNCHANGED <<db, userOf, userHas, confirmed, commitFailures>>,
           tx'.phase # "respond",
           reply' = reply \/ reply'.code # "ErrMaxReservationsExceeded"
              \/ (reply'.user \in Users /\ Owns(reply'.user))
    PROVE  AnswersInv'
<1>1. ASSUME reply'.code = "ErrMaxReservationsExceeded"
      PROVE  reply'.user \in Users /\ Owns(reply'.user)
  BY <1>1 DEF AnswersInv
<1> QED BY <1>1 DEF AnswersInv, ConfirmedIsCommitted, Owns, Owner

LEMMA AnswersFail ==
    ASSUME ReservationInv, AnswersInv, NEW code, Fail(code), UNCHANGED <<userOf, userHas>>,
           code = "ErrMaxReservationsExceeded" => tx.user \in Users /\ Owns(tx.user)
    PROVE  AnswersInv'
<1>1. /\ UNCHANGED <<db, confirmed, commitFailures>> /\ tx' = Idle
      /\ reply' = [code |-> code, kitty |-> tx.kitty, user |-> tx.user, coin |-> tx.coin]
  BY DEF Fail, bounds
<1>2. tx'.phase # "respond"
  BY <1>1 DEF Idle
<1>3. reply'.code # "ErrMaxReservationsExceeded" \/ (reply'.user \in Users /\ Owns(reply'.user))
  BY <1>1
<1> QED BY <1>1, <1>2, <1>3, AnswersKept

LEMMA AnswersCommit ==
    ASSUME MaxCommitFailures = 0, ReservationInv, AnswersInv, AddReservation
    PROVE  AnswersInv' /\ db' = pending
<1> DEFINE k == tx.kitty
           u == tx.user
           a == tx.addr
<1>1. /\ k \in Kitties /\ u \in Users /\ a \in Addresses
      /\ tx.phase = "satisfy" /\ tx' = [tx EXCEPT !.phase = "respond"]
      /\ userOf[u] = u /\ userHas[u] = {} /\ ~Owns(u)
      /\ userHas' = [userHas EXCEPT ![u] = {k}]
      /\ pending = [db EXCEPT !.used = @ \cup {a}, !.bound[a] = k,
                              !.rows[k] = NewRow, !.users[u] = {k}]
  BY CommitFacts
<1>2. /\ db' = pending /\ commitFailures' = 0
      /\ UNCHANGED <<userOf, reply, confirmed>>
  BY DEF AddReservation, AnswersInv
<1>3. db.bound[a] = None /\ Owner(k) = None
  BY <1>1 DEF ReservationInv, PendingInv
<1>4. /\ db'.rows[k] = NewRow
      /\ \A j \in Kitties \ {k} : db'.rows[j] = db.rows[j]
      /\ db'.bound[a] = k
      /\ \A b \in Addresses \ {a} : db'.bound[b] = db.bound[b]
  BY <1>1, <1>2 DEF ReservationInv, TypeInv, Database
<1>5. NewRow' = NewRow /\ NewRow.owner = u /\ tx'.kitty = k /\ tx'.addr = a
  BY <1>1 DEF ReservationInv, TypeInv, NewRow
<1>6. ASSUME NEW v \in Users, Owns(v) \/ v = u
      PROVE  Owns(v)'
  <2>1. CASE v = u
    BY <1>1, <1>4, <1>5, <2>1 DEF Owns, Owner
  <2>2. CASE Owns(v)
    <3>1. PICK j \in Kitties : Owner(j) = v
      BY <2>2 DEF Owns
    <3>2. j # k
      BY <1>3, <3>1, RequestAssumption
    <3> QED BY <1>4, <3>1, <3>2 DEF Owns, Owner
  <2> QED BY <1>6, <2>1, <2>2
<1>7. \A v \in Users : userHas'[v] = IF v = u THEN {k} ELSE userHas[v]
  BY <1>1 DEF ReservationInv, TypeInv
<1>8. ASSUME NEW v \in Users, userOf[v] # None, userHas'[userOf[v]] # {}
      PROVE  Owns(v)'
  <2>1. userOf[v] \in Users
    BY <1>8 DEF ReservationInv, TypeInv
  <2>2. CASE userOf[v] = u
    <3>1. v = u
      BY <1>1, <1>8, <2>2 DEF ReservationInv, UsersInv
    <3> QED BY <1>6, <3>1
  <2>3. CASE userOf[v] # u
    <3>1. Owns(v)
      BY <1>7, <1>8, <2>1, <2>3 DEF AnswersInv
    <3> QED BY <1>6, <3>1
  <2> QED BY <2>2, <2>3
<1>9. ASSUME NEW v \in Users, userOf[v] = None
      PROVE  userHas'[v] = {}
  BY <1>1, <1>7, <1>9, RequestAssumption DEF AnswersInv
<1>10. ConfirmedIsCommitted'
  <2>1. ASSUME NEW s \in confirmed
        PROVE  /\ db'.rows[s.kitty].owner = s.user
               /\ db'.rows[s.kitty].addr = s.addr
               /\ db'.bound[s.addr] = s.kitty
    <3>1. s.kitty \in Kitties /\ s.user \in Users /\ s.addr \in Addresses
      BY DEF ReservationInv, TypeInv
    <3>2. /\ db.rows[s.kitty].owner = s.user /\ db.rows[s.kitty].addr = s.addr
          /\ db.bound[s.addr] = s.kitty
      BY DEF AnswersInv, ConfirmedIsCommitted
    <3>3. s.kitty # k /\ s.addr # a
      BY <1>3, <3>1, <3>2, RequestAssumption DEF Owner
    <3> QED BY <1>4, <3>1, <3>2, <3>3
  <2> QED BY <1>2, <2>1 DEF ConfirmedIsCommitted
<1>11. ASSUME reply.code = "ErrMaxReservationsExceeded"
       PROVE  reply.user \in Users /\ \E j \in Kitties : db'.rows[j].owner = reply.user
  <2>1. reply.user \in Users /\ Owns(reply.user)
    BY <1>11 DEF AnswersInv
  <2>2. \A v \in Users : Owns(v) => \E j \in Kitties : db'.rows[j].owner = v
    BY <1>6 DEF Owns, Owner
  <2> QED BY <2>1, <2>2
<1>12. AnswersInv'
  <2>1. commitFailures' = 0
    BY <1>2
  <2>2. db'.rows[tx'.kitty] = NewRow' /\ db'.bound[tx'.addr] = tx'.kitty
    BY <1>4, <1>5
  <2>3. (\A v \in Users : userOf[v] # None /\ userHas[userOf[v]] # {} => Owns(v))'
    BY <1>2, <1>8
  <2>4. (\A v \in Users : userOf[v] = None => userHas[v] = {})'
    BY <1>2, <1>9
  <2>5. (reply.code = "ErrMaxReservationsExceeded" => reply.user \in Users /\ Owns(reply.user))'
    BY <1>2, <1>11 DEF Owns, Owner
  <2> QED BY <1>10, <2>1, <2>2, <2>3, <2>4, <2>5 DEF AnswersInv
<1> QED BY <1>2, <1>12

(* The steps of a request other than the commit. *)
LEMMA AnswersHandle ==
    ASSUME ReservationInv, AnswersInv, Handle, ~AddReservation
    PROVE  AnswersInv'
<1>1. CASE NoAddressLeft
  BY <1>1, AnswersFail DEF NoAddressLeft, memory
<1>2. CASE \E a \in Addresses : BindFails(a)
  BY <1>2, AnswersFail DEF BindFails
<1>3. CASE \E a \in Addresses : BindAddress(a)
  <2>1. tx'.phase # "respond" /\ UNCHANGED <<db, userOf, userHas, reply, confirmed, commitFailures>>
    BY <1>3 DEF BindAddress, AfterAddScanAddress, bounds, ReservationInv, TypeInv
  <2> QED BY <2>1, AnswersKept
<1>4. CASE MakeReservation
  <2>1. /\ tx.user \in Users /\ userOf' = [userOf EXCEPT ![tx.user] = User(tx.user)]
        /\ tx' = [tx EXCEPT !.phase = "notify"]
        /\ UNCHANGED <<db, userHas, reply, confirmed, commitFailures>>
    BY <1>4 DEF MakeReservation, At, Proceed, bounds, ReservationInv, RequestNamed
  <2>2. tx'.phase # "respond"
    BY <2>1 DEF ReservationInv, TypeInv
  <2>3. ASSUME NEW v \in Users
        PROVE  userOf'[v] = userOf[v] \/ (userOf[v] = None /\ userOf'[v] = v)
    BY <2>1 DEF User, ReservationInv, TypeInv
  <2>4. (\A v \in Users : userOf[v] # None /\ userHas[userOf[v]] # {} => Owns(v))'
    BY <2>1, <2>3 DEF AnswersInv, Owns, Owner
  <2>5. (\A v \in Users : userOf[v] = None => userHas[v] = {})'
    BY <2>1, <2>3, RequestAssumption DEF AnswersInv
  <2> QED BY <2>1, <2>2, <2>4, <2>5 DEF AnswersInv, ConfirmedIsCommitted, Owns, Owner
<1>5. CASE MakeReservationFails
  BY <1>5, AnswersFail DEF MakeReservationFails, memory
<1>6. CASE SetReservation
  <2>1. tx'.phase # "respond" /\ UNCHANGED <<db, userOf, userHas, reply, confirmed, commitFailures>>
    BY <1>6 DEF SetReservation, Proceed, memory, bounds, ReservationInv, TypeInv
  <2> QED BY <2>1, AnswersKept
<1>7. CASE SetReservationFails
  BY <1>7, AnswersFail DEF SetReservationFails, memory
<1>8. CASE AddReservationFails
  <2>1. tx.phase = "satisfy" /\ tx.user \in Users /\ userOf[tx.user] # None
    BY <1>8 DEF AddReservationFails, At, ReservationInv, RequestNamed, PendingInv
  <2>2. CASE Fail("error")
    BY <1>8, <2>2, AnswersFail DEF AddReservationFails, memory
  <2>3. CASE ~CanReserve(User(tx.user)) /\ Fail("ErrMaxReservationsExceeded")
    <3>1. userHas[userOf[tx.user]] # {}
      BY <2>1, <2>3, FS_EmptySet DEF CanReserve, User, maxReservation
    <3>2. Owns(tx.user)
      BY <2>1, <3>1 DEF AnswersInv
    <3> QED BY <1>8, <2>1, <2>3, <3>2, AnswersFail DEF AddReservationFails, memory
  <2> QED BY <1>8, <2>2, <2>3 DEF AddReservationFails
<1>9. CASE Respond
  <2>1. /\ tx.phase = "respond" /\ tx' = Idle
        /\ reply'.code = "ok"
        /\ confirmed' = confirmed \cup {[kitty |-> tx.kitty, user |-> tx.user, addr |-> tx.addr]}
        /\ UNCHANGED <<db, userOf, userHas, commitFailures>>
    BY <1>9 DEF Respond, At, memory, bounds
  <2>2. db.rows[tx.kitty] = NewRow /\ db.bound[tx.addr] = tx.kitty
    BY <2>1 DEF AnswersInv
  <2>3. ConfirmedIsCommitted'
    BY <2>1, <2>2 DEF AnswersInv, ConfirmedIsCommitted, NewRow
  <2> QED BY <2>1, <2>3 DEF AnswersInv, Idle, Owns, Owner
<1> QED BY <1>1, <1>2, <1>3, <1>4, <1>5, <1>6, <1>7, <1>8, <1>9 DEF Handle

LEMMA AnswersRestart ==
    ASSUME ReservationInv, AnswersInv, Restart
    PROVE  AnswersInv'
<1> DEFINE loaded == {u \in Users : db.users[u] # {}}
<1>1. PICK last \in loaded \cup {None} :
          /\ last = None <=> loaded = {}
          /\ userOf' = [u \in Users |-> IF u \in loaded THEN last ELSE None]
          /\ userHas' = [u \in Users |-> IF u = last THEN db.users[u] ELSE {}]
          /\ tx' = Idle
          /\ reply' = NoReply
          /\ UNCHANGED <<db, confirmed, commitFailures>>
  BY DEF Restart, StoredUsers, UnusedAddresses
<1>2. \A u \in loaded : Owns(u)
  BY DEF ReservationInv, UserRowsAgree, Owns, Owner
<1>3. (\A v \in Users : userOf[v] # None /\ userHas[userOf[v]] # {} => Owns(v))'
  BY <1>1, <1>2 DEF Owns, Owner
<1>4. (\A v \in Users : userOf[v] = None => userHas[v] = {})'
  BY <1>1, RequestAssumption
<1> QED BY <1>1, <1>3, <1>4 DEF AnswersInv, ConfirmedIsCommitted, Idle, NoReply

LEMMA AnswersNext ==
    ASSUME MaxCommitFailures = 0, ReservationInv, AnswersInv, [Next]_vars
    PROVE  AnswersInv'
<1>1. ASSUME NEW k \in Kitties, NEW u \in Users, NEW c \in CoinTypes, Begin(k, u, c)
      PROVE  AnswersInv'
  <2>1. tx'.phase # "respond" /\ UNCHANGED <<db, userOf, userHas, reply, confirmed, commitFailures>>
    BY <1>1 DEF Begin, memory, bounds
  <2> QED BY <2>1, AnswersKept
<1>2. CASE UNCHANGED vars
  <2>1. UNCHANGED <<db, userOf, userHas, tx, reply, confirmed, commitFailures>>
    BY <1>2 DEF vars, memory, bounds
  <2> QED BY <2>1 DEF AnswersInv, ConfirmedIsCommitted, NewRow, Owns, Owner
<1> QED BY <1>1, <1>2, AnswersHandle, AnswersCommit, AnswersRestart DEF Next

LEMMA AnswersInvariance ==
    ASSUME MaxCommitFailures = 0
    PROVE  Spec => [](ReservationInv /\ AnswersInv)
<1>1. Init => AnswersInv
  BY RequestAssumption DEF Init, AnswersInv, ConfirmedIsCommitted, Idle, NoReply
<1>2. ReservationInv /\ AnswersInv /\ [Next]_vars => ReservationInv' /\ AnswersInv'
  BY NextInv, AnswersNext
<1> QED BY <1>1, <1>2, InitInv, PTL DEF Spec

(* If no commit fails, every reservation a user got a 200 for is, and stays *)
(* through restarts, in the rows and in the bind bucket.                    *)
THEOREM ConfirmedKept ==
    ASSUME MaxCommitFailures = 0
    PROVE  Spec => []ConfirmedIsCommitted
<1>1. AnswersInv => ConfirmedIsCommitted
  BY DEF AnswersInv
<1> QED BY <1>1, AnswersInvariance, PTL

(* If no commit fails, ErrMaxReservationsExceeded is answered only to users *)
(* who own a kitty, although they may share a User object.                  *)
THEOREM LimitAnswerTrue ==
    ASSUME MaxCommitFailures = 0
    PROVE  Spec => []LimitAnswerIsTrue
<1>1. AnswersInv => LimitAnswerIsTrue
  BY DEF AnswersInv, LimitAnswerIsTrue, Owns, Owner
<1> QED BY <1>1, AnswersInvariance, PTL

(* If no commit fails, reservations implement the sale: no kitty is sold    *)
(* twice, no address serves two kitties, no user gets two.                  *)
THEOREM SaleImplemented ==
    ASSUME MaxCommitFailures = 0
    PROVE  Spec => LedgerSpec
<1>1. Init => Ledger!Init
  BY DEF Init, Ledger!Init, Sales
<1>2. ASSUME ReservationInv, AnswersInv, [Next]_vars
      PROVE  [Ledger!Next]_<<Sales, confirmed>>
  <2>1. CASE UNCHANGED <<db, confirmed>>
    BY <2>1 DEF Sales
  <2>2. CASE AddReservation
    <3> DEFINE k == tx.kitty
               u == tx.user
               a == tx.addr
               s == [kitty |-> k, user |-> u, addr |-> a]
    <3>1. /\ k \in Kitties /\ u \in Users /\ a \in Addresses /\ ~Owns(u)
          /\ db' = pending
          /\ pending = [db EXCEPT !.used = @ \cup {a}, !.bound[a] = k,
                                  !.rows[k] = NewRow, !.users[u] = {k}]
          /\ confirmed' = confirmed
      BY <1>2, <2>2, CommitFacts, AnswersCommit DEF AddReservation
    <3>2. db.bound[a] = None /\ Owner(k) = None
      BY <1>2, <2>2 DEF AddReservation, At, ReservationInv, PendingInv
    <3>3. /\ db'.rows[k].owner = u /\ db'.rows[k].addr = a
          /\ \A j \in Kitties \ {k} : db'.rows[j] = db.rows[j]
      BY <1>2, <3>1 DEF ReservationInv, TypeInv, Database, NewRow
    <3>4. u # None
      BY <3>1, RequestAssumption
    <3>5. Sales' = Sales \cup {s}
      BY <3>1, <3>2, <3>3, <3>4 DEF Sales, Owner
    <3>6. ASSUME NEW t \in Sales
          PROVE  t.kitty # k /\ t.user # u /\ t.addr # a
      <4>1. PICK j \in Kitties : /\ db.rows[j].owner # None
                                 /\ t = [kitty |-> j, user |-> db.rows[j].owner,
                                         addr |-> db.rows[j].addr]
        BY DEF Sales
      <4>2. j # k /\ db.rows[j].owner # u
        BY <3>1, <3>2, <4>1 DEF Owns, Owner
      <4>3. db.bound[db.rows[j].addr] = j /\ j # None
        BY <1>2, <4>1, RequestAssumption DEF ReservationInv, RowsInv, Owner, BoundIsReserved
      <4> QED BY <3>2, <4>1, <4>2, <4>3
    <3>7. s \in Ledger!Sale /\ Ledger!Sell(s)
      BY <3>1, <3>5, <3>6 DEF Ledger!Sale, Ledger!Sell
    <3> QED BY <3>7 DEF Ledger!Next
  <2>3. CASE Respond
    <3> DEFINE s == [kitty |-> tx.kitty, user |-> tx.user, addr |-> tx.addr]
    <3>1. tx.phase = "respond" /\ db' = db /\ confirmed' = confirmed \cup {s}
      BY <2>3 DEF Respond, At
    <3>2. /\ tx.kitty \in Kitties /\ tx.user \in Users /\ tx.addr \in Addresses
          /\ db.rows[tx.kitty] = NewRow
      BY <1>2, <3>1 DEF ReservationInv, RequestNamed, AnswersInv
    <3>3. s \in Sales
      BY <3>2, RequestAssumption DEF Sales, NewRow
    <3>4. s \in Ledger!Sale /\ Ledger!Tell(s)
      BY <3>1, <3>2, <3>3 DEF Ledger!Sale, Ledger!Tell, Sales
    <3> QED BY <3>4 DEF Ledger!Next
  <2>4. \/ UNCHANGED <<db, confirmed>> \/ AddReservation \/ Respond
    BY <1>2 DEF Next, Handle, Begin, NoAddressLeft, BindFails, BindAddress, MakeReservation,
         MakeReservationFails, SetReservation, SetReservationFails, AddReservationFails,
         Fail, Restart, vars
  <2> QED BY <2>1, <2>2, <2>3, <2>4
<1>3. ReservationInv /\ AnswersInv /\ [Next]_vars => [Ledger!Next]_<<Sales, confirmed>>
  BY <1>2
<1> QED BY <1>1, <1>3, AnswersInvariance, PTL DEF Spec, LedgerSpec, Ledger!Spec
=============================================================================
