----------------------------- MODULE Reservation -----------------------------
(***************************************************************************)
(* A reservation request, from MakeReservationHandler through BindAddress, *)
(* the address pool, the agent and the kitty API to the answer.            *)
(*                                                                         *)
(* The handler opens one bolt write transaction before it does anything    *)
(* and commits it at the end, so requests run one at a time; what the      *)
(* transaction has written is the record "pending".  The address pool, the *)
(* reservations and the users are kept in memory as well, and are changed  *)
(* there at once: a rollback does not undo that, only a restart does.      *)
(***************************************************************************)
EXTENDS Naturals, FiniteSets

CONSTANTS
    Kitties,            \* the kitties the kitty API lists
    Users,              \* user addresses
    CoinTypes,          \* the coin types with an address generator
    ScannedCoins,       \* the coin types with a scanner in the multiplexer
    Pool,               \* the addresses in the address file of each coin type
    ListedStatus,       \* Entry.Reservation of each kitty, at the first start
    ScannerUsesDb,      \* BTC and SKY scanners do, the dummy scanner does not
    None,
    MaxRestarts,        \* bound: how often the process stops and starts again
    MaxCommitFailures   \* bound: how many commits of a reservation fail

Addresses == UNION {Pool[c] : c \in CoinTypes}
Statuses == {"NONE", "reserved", "delivered"}
Available == "NONE"
Reserved == "reserved"

ASSUME RequestAssumption ==
    /\ IsFiniteSet(Kitties)
    /\ Pool \in [CoinTypes -> SUBSET Addresses]
    /\ ListedStatus \in [Kitties -> Statuses]
    /\ None \notin Kitties /\ None \notin Users /\ None \notin Addresses
    /\ ScannerUsesDb \in BOOLEAN

ASSUME BoundAssumption ==
    /\ MaxRestarts \in Nat
    /\ MaxCommitFailures \in Nat

VARIABLES
    (* the bolt database, and the request's uncommitted copy of it *)
    db, pending,
    (* memory of the process *)
    pool,            \* Addrs.addresses of each coin type
    reservations,    \* ReservationManager.Reservations
    userOf,          \* UserManager.Users: the User object behind each address
    userHas,         \* Reservations of each User object
    scanned,         \* the addresses the dummy scanner knows
    tx,              \* the request that holds the write transaction
    (* outside the process *)
    api,             \* the kitties the kitty API was told are reserved
    reply,           \* the last answer of the handler
    confirmed,       \* every reservation a user got a 200 for
    (* bounds *)
    restarts, commitFailures

memory == <<pool, reservations, userOf, userHas, scanned>>
bounds == <<restarts, commitFailures>>
vars == <<db, pending, memory, tx, api, reply, confirmed, bounds>>

-----------------------------------------------------------------------------
(* State *)

(* The fields of agent.Reservation that decide what may happen to a kitty. *)
Row == [status : Statuses, owner : Users \cup {None}, addr : Addresses \cup {None}]

(* used: the used-address bucket; bound: bind_address; rows:                *)
(* reservations_kitty_idx; users: the reservations in the row of each user, *)
(* a user without a row having none.                                        *)
Database == [used  : SUBSET Addresses,
             bound : [Addresses -> Kitties \cup {None}],
             rows  : [Kitties -> Row],
             users : [Users -> SUBSET Kitties]]

Answers == {"none", "ok", "error", "ErrDepositAddressEmpty",
            "ErrBoxAlreadyReserved", "ErrMaxReservationsExceeded"}

Idle == [phase |-> "idle", kitty |-> None, user |-> None, coin |-> None, addr |-> None]
NoReply == [code |-> "none", kitty |-> None, user |-> None, coin |-> None]

Init ==
    /\ db = [used  |-> {},
             bound |-> [a \in Addresses |-> None],
             rows  |-> [k \in Kitties |->
                          [status |-> ListedStatus[k], owner |-> None, addr |-> None]],
             users |-> [u \in Users |-> {}]]
    /\ pending = db
    /\ pool = Pool
    /\ reservations = db.rows
    /\ userOf = [u \in Users |-> None]
    /\ userHas = [u \in Users |-> {}]
    /\ scanned = {}
    /\ tx = Idle
    /\ api = {}
    /\ reply = NoReply
    /\ confirmed = {}
    /\ restarts = 0
    /\ commitFailures = 0

-----------------------------------------------------------------------------
(* The request *)

(* Mutant: an error path without the Rollback keeps the transaction open.   *)
Fail_NoRollback(code) ==
    /\ tx' = [tx EXCEPT !.phase = "blocked"]
    /\ reply' = [code |-> code, kitty |-> tx.kitty, user |-> tx.user, coin |-> tx.coin]
    /\ UNCHANGED <<db, pending, confirmed, bounds>>

(* Any error path: the deferred Rollback, and an error answer.  Memory     *)
(* stays as the failing step leaves it.                                    *)
Fail(code) ==
    /\ tx' = Idle
    /\ pending' = db
    /\ reply' = [code |-> code, kitty |-> tx.kitty, user |-> tx.user, coin |-> tx.coin]
    /\ UNCHANGED <<db, confirmed, bounds>>

At(phase) == tx.phase = phase

Proceed(phase) == tx' = [tx EXCEPT !.phase = phase]

(* s.db.Begin(true): waits until no other request holds the writer. *)
Begin(k, u, c) ==
    /\ At("idle")
    /\ tx' = [phase |-> "bind", kitty |-> k, user |-> u, coin |-> c, addr |-> None]
    /\ UNCHANGED <<db, pending, memory, api, reply, confirmed, bounds>>

Unused(c) == pool[c] \ db.used

(* Addrs.NewAddressWithTx: the used bucket is written in the transaction,  *)
(* the pool in memory.                                                     *)
TakeAddress(a) ==
    /\ a \in Unused(tx.coin)
    /\ pool' = [pool EXCEPT ![tx.coin] = @ \ {a}]

NoAddressLeft ==
    /\ At("bind")
    /\ Unused(tx.coin) = {}
    /\ Fail("ErrDepositAddressEmpty")
    /\ UNCHANGED <<memory, api>>

(* The coin type has a scanner, and neither the bind bucket nor the dummy   *)
(* scanner has the address.                                                 *)
CanBind(a) ==
    /\ tx.coin \in ScannedCoins
    /\ db.bound[a] = None
    /\ a \notin scanned

(* A scanner that keeps its addresses in bolt opens a write transaction of  *)
(* its own, while the handler holds the only one: "blocked" is final.       *)
AddScanAddress(a) == scanned' = IF ScannerUsesDb THEN scanned ELSE scanned \cup {a}
AfterAddScanAddress == IF ScannerUsesDb THEN "blocked" ELSE "reserve"

(* Receive.BindAddressWithTx fails after the address was taken. *)
BindFails(a) ==
    /\ At("bind")
    /\ TakeAddress(a)
    /\ ~CanBind(a)
    /\ Fail("error")
    /\ UNCHANGED <<reservations, userOf, userHas, scanned, api>>

(* Service.BindAddressTx with BindEnabled set; IsBound reads a bucket that   *)
(* nothing writes, and is never true.                                       *)
BindAddress(a) ==
    /\ At("bind")
    /\ TakeAddress(a)
    /\ CanBind(a)
    /\ AddScanAddress(a)
    /\ pending' = [pending EXCEPT !.used = @ \cup {a}, !.bound[a] = tx.kitty]
    /\ tx' = [tx EXCEPT !.phase = AfterAddScanAddress, !.addr = a]
    /\ UNCHANGED <<db, reservations, userOf, userHas, api, reply, confirmed, bounds>>

(* UserManager.GetUser, or a new User under its own address. *)
User(u) == IF userOf[u] = None THEN u ELSE userOf[u]

(* Mutant: the status of the kitty is not looked at. *)
MakeReservation_AnyStatus ==
    LET k == tx.kitty
        o == User(tx.user)
        row == [status |-> Reserved, owner |-> tx.user, addr |-> tx.addr]
    IN  /\ At("reserve")
        /\ userOf' = [userOf EXCEPT ![tx.user] = o]
        /\ reservations' = [reservations EXCEPT ![k] = row]
        /\ pending' = [pending EXCEPT !.rows[k] = row,
                                      !.users[o] = userHas[o] \cup {k}]
        /\ Proceed("notify")
        /\ UNCHANGED <<db, pool, userHas, scanned, api, reply, confirmed, bounds>>

(* Mutant: the user's row is written before the reservation is appended. *)
MakeReservation_OldUserRow ==
    LET k == tx.kitty
        o == User(tx.user)
        row == [status |-> Reserved, owner |-> tx.user, addr |-> tx.addr]
    IN  /\ At("reserve")
        /\ reservations[k].status = Available
        /\ userOf' = [userOf EXCEPT ![tx.user] = o]
        /\ reservations' = [reservations EXCEPT ![k] = row]
        /\ pending' = [pending EXCEPT !.rows[k] = row, !.users[o] = userHas[o]]
        /\ Proceed("notify")
        /\ UNCHANGED <<db, pool, userHas, scanned, api, reply, confirmed, bounds>>

(* Mutant: the reservation is appended to the User itself, not to a copy. *)
MakeReservation_NoCopy ==
    LET k == tx.kitty
        o == User(tx.user)
        row == [status |-> Reserved, owner |-> tx.user, addr |-> tx.addr]
    IN  /\ At("reserve")
        /\ reservations[k].status = Available
        /\ userOf' = [userOf EXCEPT ![tx.user] = o]
        /\ reservations' = [reservations EXCEPT ![k] = row]
        /\ userHas' = [userHas EXCEPT ![o] = @ \cup {k}]
        /\ pending' = [pending EXCEPT !.rows[k] = row, !.users[o] = userHas'[o]]
        /\ Proceed("notify")
        /\ UNCHANGED <<db, pool, scanned, api, reply, confirmed, bounds>>

(* Agent.MakeReservation.  The user's row is written under the address in   *)
(* the User object, and holds what the object will hold.                    *)
MakeReservation ==
    LET k == tx.kitty
        o == User(tx.user)
        row == [status |-> Reserved, owner |-> tx.user, addr |-> tx.addr]
    IN  /\ At("reserve")
        /\ reservations[k].status = Available
        /\ userOf' = [userOf EXCEPT ![tx.user] = o]
        /\ reservations' = [reservations EXCEPT ![k] = row]
        /\ pending' = [pending EXCEPT !.rows[k] = row,
                                      !.users[o] = userHas[o] \cup {k}]
        /\ Proceed("notify")
        /\ UNCHANGED <<db, pool, userHas, scanned, api, reply, confirmed, bounds>>

(* Mutant: an error makes the kitty available again, whoever reserved it.   *)
MakeReservationFails_Releases ==
    /\ At("reserve")
    /\ Fail("error")
    /\ reservations' = [reservations EXCEPT ![tx.kitty] =
                           [status |-> Available, owner |-> None, addr |-> None]]
    /\ UNCHANGED <<pool, userOf, userHas, scanned, api>>

(* VerifyCode refuses the code, or the kitty is not for sale. *)
MakeReservationFails ==
    /\ At("reserve")
    /\ \/ Fail("error")
       \/ reservations[tx.kitty].status = Reserved /\ Fail("ErrBoxAlreadyReserved")
    /\ UNCHANGED <<memory, api>>

(* Mutant: the request goes on in a phase that no step takes up. *)
SetReservation_WrongPhase ==
    /\ At("notify")
    /\ api' = api \cup {tx.kitty}
    /\ Proceed("commit")
    /\ UNCHANGED <<db, pending, memory, reply, confirmed, bounds>>

(* KittyAPI.SetReservation: told, and the answer comes back. *)
SetReservation ==
    /\ At("notify")
    /\ api' = api \cup {tx.kitty}
    /\ Proceed("satisfy")
    /\ UNCHANGED <<db, pending, memory, reply, confirmed, bounds>>

(* Mutant: an error of the call is logged and the request goes on. *)
SetReservationFails_GoesOn ==
    /\ At("notify")
    /\ api' \in {api, api \cup {tx.kitty}}
    /\ Proceed("satisfy")
    /\ UNCHANGED <<db, pending, memory, reply, confirmed, bounds>>

(* The call fails, before or after the kitty API has done its part. *)
SetReservationFails ==
    /\ At("notify")
    /\ api' \in {api, api \cup {tx.kitty}}
    /\ Fail("error")
    /\ UNCHANGED memory

maxReservation == 1

(* Mutant: the limit may be passed by one. *)
CanReserve_One(o) == Cardinality(userHas[o]) <= maxReservation

CanReserve(o) == Cardinality(userHas[o]) < maxReservation

(* SatisfyCode fails, or UserManager.AddReservation finds the user at the   *)
(* limit.                                                                   *)
AddReservationFails ==
    /\ At("satisfy")
    /\ \/ Fail("error")
       \/ ~CanReserve(User(tx.user)) /\ Fail("ErrMaxReservationsExceeded")
    /\ UNCHANGED <<memory, api>>

(* Mutant: the transaction is not committed, the deferred Rollback ends it. *)
AddReservation_NoCommit ==
    LET o == User(tx.user)
    IN  /\ At("satisfy")
        /\ CanReserve(o)
        /\ reservations' = [reservations EXCEPT ![tx.kitty].status = Reserved]
        /\ userHas' = [userHas EXCEPT ![o] = @ \cup {tx.kitty}]
        /\ pending' = db
        /\ Proceed("respond")
        /\ UNCHANGED <<db, pool, userOf, scanned, api, reply, confirmed, bounds>>

(* AddReservation and tx.Commit(), whose error is dropped.  A commit that   *)
(* fails has rolled back.                                                   *)
AddReservation ==
    LET o == User(tx.user)
    IN  /\ At("satisfy")
        /\ CanReserve(o)
        /\ reservations' = [reservations EXCEPT ![tx.kitty].status = Reserved]
        /\ userHas' = [userHas EXCEPT ![o] = @ \cup {tx.kitty}]
        /\ \/ /\ db' = pending
              /\ UNCHANGED <<pending, commitFailures>>
           \/ /\ commitFailures < MaxCommitFailures
              /\ commitFailures' = commitFailures + 1
              /\ pending' = db
              /\ UNCHANGED db
        /\ Proceed("respond")
        /\ UNCHANGED <<pool, userOf, scanned, api, reply, confirmed, restarts>>

(* The 200 with the deposit address. *)
Respond ==
    /\ At("respond")
    /\ reply' = [code |-> "ok", kitty |-> tx.kitty, user |-> tx.user, coin |-> tx.coin]
    /\ confirmed' = confirmed \cup
                       {[kitty |-> tx.kitty, user |-> tx.user, addr |-> tx.addr]}
    /\ tx' = Idle
    /\ UNCHANGED <<db, pending, memory, api, bounds>>

-----------------------------------------------------------------------------
(* Questions: they change nothing, and may be asked at any moment. *)

(* From memory: the kitties with a status, or "all" of them.                *)
GetReservations(status) ==
    {k \in Kitties : status = "all" \/ reservations[k].status = status}

(* GET getreservations: a status that is missing or unknown is refused.     *)
GetReservationsHandler(status) ==
    IF status \in Statuses \cup {"all"}
    THEN [code |-> "ok", kitties |-> GetReservations(status)]
    ELSE [code |-> "error", kitties |-> {}]

(* From the database, as it was committed; None if there is none.           *)
GetKittyDepositAddress(k) == db.rows[k].addr

(* GET getdepositaddress: a kitty that is not for sale has no row, and one  *)
(* that is not reserved no address.                                         *)
GetDepositAddressHandler(k) ==
    IF k \in DOMAIN db.rows /\ GetKittyDepositAddress(k) # None
    THEN [code |-> "ok", addr |-> GetKittyDepositAddress(k)]
    ELSE [code |-> "error", addr |-> None]

-----------------------------------------------------------------------------
(* Stop and start *)

(* addrs.NewAddrs: removeUsedAddresses, over the addresses of the file.     *)
UnusedAddresses(c) == Pool[c] \ db.used

(* GetUsers: those with a row in UsersBkt.                                  *)
StoredUsers == {u \in Users : db.users[u] # {}}

(* agent.New loads the rows of the reservations and of the users.  Its loop *)
(* over the users stores the address of its loop variable, so that every    *)
(* user loaded is the object of the last one; which is last is left open.   *)
Restart ==
    \E last \in StoredUsers \cup {None} :
        /\ last = None <=> StoredUsers = {}
        /\ restarts < MaxRestarts
        /\ restarts' = restarts + 1
        /\ pool' = [c \in CoinTypes |-> UnusedAddresses(c)]
        /\ reservations' = db.rows
        /\ userOf' = [u \in Users |-> IF u \in StoredUsers THEN last ELSE None]
        /\ userHas' = [u \in Users |-> IF u = last THEN db.users[u] ELSE {}]
        /\ scanned' = {}
        /\ tx' = Idle
        /\ pending' = db
        /\ reply' = NoReply
        /\ UNCHANGED <<db, api, confirmed, commitFailures>>

-----------------------------------------------------------------------------
Handle ==
    \/ NoAddressLeft
    \/ \E a \in Addresses : BindFails(a) \/ BindAddress(a)
    \/ MakeReservation
    \/ MakeReservationFails
    \/ SetReservation
    \/ SetReservationFails
    \/ AddReservation
    \/ AddReservationFails
    \/ Respond

Next ==
    \/ \E k \in Kitties, u \in Users, c \in CoinTypes : Begin(k, u, c)
    \/ Handle
    \/ Restart

Spec == Init /\ [][Next]_vars

(* A request that has begun goes on: its goroutine runs, and the kitty API  *)
(* and the verifier answer or fail.  New requests and restarts are not due. *)
FairSpec == Spec /\ WF_vars(Handle)

-----------------------------------------------------------------------------
(* Properties *)

(* Type invariant.                                                          *)
TypeInv ==
    /\ db \in Database
    /\ pending \in Database
    /\ pool \in [CoinTypes -> SUBSET Addresses]
    /\ reservations \in [Kitties -> Row]
    /\ userOf \in [Users -> Users \cup {None}]
    /\ userHas \in [Users -> SUBSET Kitties]
    /\ scanned \in SUBSET Addresses
    /\ tx \in [phase : {"idle", "bind", "blocked", "reserve", "notify", "satisfy", "respond"},
               kitty : Kitties \cup {None}, user : Users \cup {None},
               coin : CoinTypes \cup {None}, addr : Addresses \cup {None}]
    /\ api \in SUBSET Kitties
    /\ reply \in [code : Answers, kitty : Kitties \cup {None},
                  user : Users \cup {None}, coin : CoinTypes \cup {None}]
    /\ confirmed \in SUBSET [kitty : Kitties, user : Users, addr : Addresses]
    /\ restarts \in Nat
    /\ commitFailures \in Nat

(* A payment to a bound address is counted against the kitty in the bind   *)
(* bucket, a user is shown the address in the reservation row: after any   *)
(* failed requests and restarts the two rows name each other.              *)
BoundIsReserved ==
    /\ \A a \in Addresses : db.bound[a] # None =>
          /\ db.rows[db.bound[a]].status = Reserved
          /\ db.rows[db.bound[a]].addr = a
    /\ \A k \in Kitties : db.rows[k].addr # None => db.bound[db.rows[k].addr] = k

(* No user owns more kitties than maxReservation, although AddReservation   *)
(* looks at the memory of a process in which, after a restart, all users    *)
(* share one User object.                                                   *)
UserLimit ==
    \A u \in Users : Cardinality({k \in Kitties : db.rows[k].owner = u}) <= maxReservation

(* A user's row lists exactly the kitties whose rows name the user as the   *)
(* owner, although MakeReservation writes it under the address found in the *)
(* User object, which after a restart may be somebody else's.               *)
UserRowsAgree ==
    \A u \in Users : db.users[u] = {k \in Kitties : db.rows[k].owner = u}

(* A kitty whose reservation is committed is never offered again: memory,   *)
(* which decides, is behind the database in no state.                       *)
CommittedIsShown ==
    \A k \in Kitties : db.rows[k].owner # None => reservations[k] = db.rows[k]

(* The kitty API hears of a reservation before teller commits it.           *)
ReservedIsAnnounced == \A k \in Kitties : db.rows[k].owner # None => k \in api

(* What is committed is known to those who have to know it: to memory, so   *)
(* that the kitty is not sold again, and to the kitty API.                  *)
CommittedIsKnown == CommittedIsShown /\ ReservedIsAnnounced

(* Every reservation a user got a 200 for is in the database, from then on  *)
(* and across restarts.                                                     *)
ConfirmedIsCommitted ==
    \A s \in confirmed : /\ db.rows[s.kitty].owner = s.user
                         /\ db.rows[s.kitty].addr = s.addr
                         /\ db.bound[s.addr] = s.kitty

(* ErrMaxReservationsExceeded is answered only to a user who owns a kitty:  *)
(* the shared User object of a restarted process refuses nobody wrongly.    *)
LimitAnswerIsTrue ==
    reply.code = "ErrMaxReservationsExceeded" =>
        \E k \in Kitties : db.rows[k].owner = reply.user

(* ErrBoxAlreadyReserved is answered only for a kitty that is reserved.     *)
ReservedAnswerIsTrue ==
    reply.code = "ErrBoxAlreadyReserved" => db.rows[reply.kitty].status = Reserved

(* The two questions agree at every moment, although one is answered from   *)
(* memory and the other from the database: a kitty with a deposit address   *)
(* is listed as reserved, not as available, and the address is bound to it. *)
QuestionsAgree ==
    \A k \in Kitties :
        LET answer == GetDepositAddressHandler(k)
        IN  answer.code = "ok" =>
                /\ k \in GetReservationsHandler(Reserved).kitties
                /\ k \notin GetReservationsHandler(Available).kitties
                /\ db.bound[answer.addr] = k

(* A request that holds the write transaction gives it back.                *)
RequestEnds == At("bind") ~> At("idle")

(* The committed rows and the answers are a KittySale: a commit sells a     *)
(* kitty, a 200 tells of the sale, every other step changes neither.        *)
Sales == {[kitty |-> k, user |-> db.rows[k].owner, addr |-> db.rows[k].addr] :
            k \in {j \in Kitties : db.rows[j].owner # None}}
Ledger == INSTANCE KittySale WITH sold <- Sales, told <- confirmed
LedgerSpec == Ledger!Spec
=============================================================================
