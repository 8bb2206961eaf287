------------------------------- MODULE Wallet -------------------------------
(***************************************************************************)
(* The token wallet of modules/billing: WalletService (top-up, reserve,    *)
(* settle, release) over LedgerService (double-entry journals, row lock,   *)
(* conditional balance update).                                            *)
(*                                                                         *)
(* Every service call runs in the SQL transaction of its caller, under     *)
(* READ COMMITTED.  A transaction t goes through the steps                 *)
(*                                                                         *)
(*   idle --Begin--> lock --LockWallet--> post --Post--> commit --Commit   *)
(*                                                                         *)
(* and may be rolled back at any of them (an error the service raises, or  *)
(* a crash).  What a transaction has written is visible to the others only *)
(* at Commit.  Row locks are held from the step that takes them to the end *)
(* of the transaction, so they are read off the program counters.          *)
(*                                                                         *)
(* The sum of the entries of a ledger account stands for its entries.      *)
(***************************************************************************)
EXTENDS Integers, FiniteSets, Functions

CONSTANTS
  Wallets,          \* one wallet per user
  Orders,           \* payment orders, each of them to be credited once
  Operations,       \* operation ids; a reservation is named by its own
  Invocations,      \* AI invocations that charge reservations
  Txns,             \* database sessions
  OrderWallet,      \* the wallet of an order's user
  TokenUnits,       \* the tokens an order buys
  OperationWallet,  \* the wallet of an operation's user
  MayCharge,        \* <<invocation, operation>>: who charges which reservation
  MaxUnits          \* bound on the units authorized or charged

ASSUME WalletConstants ==
  /\ OrderWallet \in [Orders -> Wallets]
  /\ TokenUnits \in [Orders -> Nat \ {0}]
  /\ OperationWallet \in [Operations -> Wallets]
  /\ MayCharge \subseteq Invocations \X Operations
  /\ MaxUnits \in Nat \ {0}

\* What has a row is finite in number
ASSUME RowsFinite == IsFiniteSet(Wallets) /\ IsFiniteSet(Orders) /\ IsFiniteSet(Operations)

VARIABLES
  rows,             \* wallets whose row exists
  available, held,  \* the cached balances, wallets.available_units/held_units
  version,          \* wallets.version
  journals,         \* business keys of the posted journals
  ledgerAvailable, ledgerHeld,  \* sums of entries per user account
  clearing, revenue,            \* sums of entries of the platform accounts
  accounts,         \* number of rows of each platform account
  reservation,      \* usage_reservations, by operation id
  pc, call,         \* what each session is doing
  sawRow,           \* the session's unlocked read found the wallet row
  posted,           \* the journal's key was free, so its entries were added
  opened            \* the session inserted the platform account it needs

balances == <<rows, available, held, version>>
books    == <<journals, ledgerAvailable, ledgerHeld, clearing, revenue, accounts>>
session  == <<pc, call, sawRow, posted, opened>>
vars     == <<balances, books, reservation, session>>

-----------------------------------------------------------------------------
(* Requests, keys and entries *)

Units == 1 .. MaxUnits

TopUps      == [kind : {"topup"}, order : Orders]
Reserves    == [kind : {"reserve"}, operation : Operations, units : Units]
Settles     == [kind : {"settle"}, operation : Operations,
                invocation : Invocations, charge : Units]
Releases    == [kind : {"release"}, operation : Operations]
Calls       == TopUps \cup Reserves \cup Settles \cup Releases
NoCall      == [kind |-> "none"]

WalletOf(c) == IF c.kind = "topup" THEN OrderWallet[c.order]
                                   ELSE OperationWallet[c.operation]

\* business_key(...).  The settle key does not name the reservation.
Key(c) ==
  IF c.kind = "topup" THEN <<"topup", c.order>>
  ELSE IF c.kind = "settle" THEN <<"settle", c.invocation, c.charge>>
  ELSE <<c.kind, c.operation>>

States == {"none", "active", "settling", "settled", "released",
           "reconciliation_required"}
NoReservation == [state |-> "none", authorized |-> 0, settled |-> 0, returned |-> 0]

Remaining(r) == r.authorized - r.settled - r.returned

\* The entries of a call's journal: the available and held account of its
\* wallet and the two platform accounts.
Entry(a, h, cl, re) == [available |-> a, held |-> h, clearing |-> cl, revenue |-> re]

\* A charge is cumulative; mutant: as if it were not
SettleEntryWhole(r, charge) == Entry(0, -charge, 0, charge)
SettleEntry(r, charge)      == Entry(0, r.settled - charge, 0, charge - r.settled)

\* Mutant: what was settled is returned too
ReleaseEntryWhole(r) == Entry(r.authorized - r.returned, r.returned - r.authorized, 0, 0)
ReleaseEntry(r)      == Entry(Remaining(r), -Remaining(r), 0, 0)

Entries(c) ==
  LET r == reservation[c.operation]
  IN IF c.kind = "topup" THEN Entry(TokenUnits[c.order], 0, -TokenUnits[c.order], 0)
     ELSE IF c.kind = "reserve" THEN Entry(-c.units, c.units, 0, 0)
     ELSE IF c.kind = "settle" THEN SettleEntry(r, c.charge)
     ELSE ReleaseEntry(r)

Platform == {"clearing", "revenue"}
AccountOf(c) == IF c.kind = "topup" THEN {"clearing"}
                ELSE IF c.kind = "settle" THEN {"revenue"} ELSE {}

-----------------------------------------------------------------------------
(* Row locks *)

InFlight(t)      == pc[t] # "idle"
HoldsWallet(t,w) == pc[t] \in {"post", "commit"} /\ WalletOf(call[t]) = w
WalletFree(w)    == \A t \in Txns : ~HoldsWallet(t, w)

\* credit_topup runs under the caller's lock on the order row; mutant: it does not
OrderUnlocked(o) == TRUE
OrderFree(o) ==
  \A t \in Txns : ~(InFlight(t) /\ call[t].kind = "topup" /\ call[t].order = o)

\* _lock_reservation: settle and release lock the reservation row first;
\* mutant: they read it unlocked
ReservationUnlocked(p) == TRUE
ReservationFree(p) ==
  \A t \in Txns : ~(/\ InFlight(t)
                    /\ call[t].kind \in {"settle", "release"}
                    /\ call[t].operation = p)

-----------------------------------------------------------------------------
Init ==
  /\ rows = {}
  /\ available = [w \in Wallets |-> 0]
  /\ held = [w \in Wallets |-> 0]
  /\ version = [w \in Wallets |-> 0]
  /\ journals = {}
  /\ ledgerAvailable = [w \in Wallets |-> 0]
  /\ ledgerHeld = [w \in Wallets |-> 0]
  /\ clearing = 0
  /\ revenue = 0
  /\ accounts = [a \in Platform |-> 0]
  /\ reservation = [p \in Operations |-> NoReservation]
  /\ pc = [t \in Txns |-> "idle"]
  /\ call = [t \in Txns |-> NoCall]
  /\ sawRow = [t \in Txns |-> FALSE]
  /\ posted = [t \in Txns |-> FALSE]
  /\ opened = [t \in Txns |-> {}]

-----------------------------------------------------------------------------
(* The steps of a service call.  A call that returns early or raises before *)
(* writing changes nothing and is no step.                                  *)

\* The transaction starts with call c, and has read whether the wallet exists.
Begin(t, c) ==
  /\ pc[t] = "idle"
  /\ pc' = [pc EXCEPT ![t] = "lock"]
  /\ call' = [call EXCEPT ![t] = c]
  /\ sawRow' = [sawRow EXCEPT ![t] = WalletOf(c) \in rows]
  /\ UNCHANGED <<balances, books, reservation, posted, opened>>

\* credit_topup: False if the order's journal exists
BeginTopUp(t, c) ==
  /\ c \in TopUps
  /\ OrderFree(c.order)
  /\ Key(c) \notin journals
  /\ Begin(t, c)

\* authorize_reservation: an existing reservation is returned, before any lock
BeginReserve(t, c) ==
  /\ c \in Reserves
  /\ reservation[c.operation].state = "none"
  /\ Begin(t, c)

\* settle_reservation: the charge is cumulative; a charge already settled
\* returns False, even of a reservation that may no longer be settled
BeginSettle(t, c) ==
  /\ c \in Settles
  /\ <<c.invocation, c.operation>> \in MayCharge
  /\ ReservationFree(c.operation)
  /\ LET r == reservation[c.operation]
     IN /\ c.charge > r.settled
        /\ r.state \in {"active", "settling"}
        /\ c.charge <= r.authorized - r.returned
  /\ Begin(t, c)

\* release_reservation: nothing to do for a closed reservation
BeginRelease(t, c) ==
  /\ c \in Releases
  /\ ReservationFree(c.operation)
  /\ reservation[c.operation].state \notin {"none", "settled", "released"}
  /\ Remaining(reservation[c.operation]) > 0
  /\ Begin(t, c)

\* get_or_create_wallet and lock_wallet.  A session that saw no row inserts
\* one: it waits for a concurrent insert, and fails if that one committed.
LockWallet(t) ==
  /\ pc[t] = "lock"
  /\ WalletFree(WalletOf(call[t]))
  /\ sawRow[t] \/ WalletOf(call[t]) \notin rows
  /\ pc' = [pc EXCEPT ![t] = "post"]
  /\ UNCHANGED <<balances, books, reservation, call, sawRow, posted, opened>>

\* The condition of apply_wallet_delta's UPDATE
Covers(w, e) == available[w] + e.available >= 0 /\ held[w] + e.held >= 0

\* post_journal returns an existing journal as it is; apply_wallet_delta
\* is not told.  get_or_create_account raises on two rows of an account, and
\* UNIQUE (wallet_id, account_type, asset) does not compare NULL wallets.
Post(t) ==
  LET c == call[t]
      w == WalletOf(c)
  IN /\ pc[t] = "post"
     /\ Key(c) \notin journals => \A a \in AccountOf(c) : accounts[a] < 2
     /\ Covers(w, Entries(c))
     /\ c.kind = "reserve" => reservation[c.operation].state = "none"
     /\ posted' = [posted EXCEPT ![t] = Key(c) \notin journals]
     /\ opened' = [opened EXCEPT ![t] =
          {a \in AccountOf(c) : Key(c) \notin journals /\ accounts[a] = 0}]
     /\ pc' = [pc EXCEPT ![t] = "commit"]
     /\ UNCHANGED <<balances, books, reservation, call, sawRow>>

Finish(t) ==
  /\ pc' = [pc EXCEPT ![t] = "idle"]
  /\ call' = [call EXCEPT ![t] = NoCall]
  /\ sawRow' = [sawRow EXCEPT ![t] = FALSE]
  /\ posted' = [posted EXCEPT ![t] = FALSE]
  /\ opened' = [opened EXCEPT ![t] = {}]

\* apply_wallet_delta
ApplyDelta(w, e) ==
  /\ rows' = rows \cup {w}
  /\ available' = [available EXCEPT ![w] = @ + e.available]
  /\ held' = [held EXCEPT ![w] = @ + e.held]
  /\ version' = [version EXCEPT ![w] = @ + 1]

\* The journal and its entries
AddJournal(c, w, e) ==
  /\ journals' = journals \cup {Key(c)}
  /\ ledgerAvailable' = [ledgerAvailable EXCEPT ![w] = @ + e.available]
  /\ ledgerHeld' = [ledgerHeld EXCEPT ![w] = @ + e.held]
  /\ clearing' = clearing + e.clearing
  /\ revenue' = revenue + e.revenue

\* The state of r once n is settled
SettledState(r, n) == IF n + r.returned >= r.authorized THEN "settled" ELSE "settling"

\* The reservation after call c
ReservationAfter(c) ==
  LET r == reservation[c.operation]
  IN IF c.kind = "reserve" THEN
       [state |-> "active", authorized |-> c.units, settled |-> 0, returned |-> 0]
     ELSE IF c.kind = "settle" THEN
       [r EXCEPT !.settled = c.charge, !.state = SettledState(r, c.charge)]
     ELSE
       [r EXCEPT !.returned = @ + Remaining(r),
                 !.state = IF r.settled > 0 THEN "settled" ELSE "released"]

Commit(t) ==
  LET c == call[t]
      w == WalletOf(c)
      e == Entries(c)
  IN /\ pc[t] = "commit"
     /\ ApplyDelta(w, e)
     /\ IF posted[t] THEN AddJournal(c, w, e)
        ELSE UNCHANGED <<journals, ledgerAvailable, ledgerHeld, clearing, revenue>>
     /\ accounts' = [a \in Platform |->
                       IF a \in opened[t] THEN accounts[a] + 1 ELSE accounts[a]]
     /\ reservation' = IF c.kind = "topup" THEN reservation
                       ELSE [reservation EXCEPT ![c.operation] = ReservationAfter(c)]
     /\ Finish(t)

\* An error the service raises (no funds, a unique violation, two platform
\* accounts), an error of the caller, or a crash: all of it is undone.
Rollback(t) ==
  /\ InFlight(t)
  /\ Finish(t)
  /\ UNCHANGED <<balances, books, reservation>>

\* mark_reconciliation_required, under the reservation's row lock only;
\* mutant: unlocked
MarkUnlocked(p) ==
  /\ reservation[p].state \in {"active", "settling"}
  /\ reservation' = [reservation EXCEPT ![p].state = "reconciliation_required"]
  /\ UNCHANGED <<balances, books, session>>

MarkReconciliation(p) ==
  /\ ReservationFree(p)
  /\ reservation[p].state \in {"active", "settling"}
  /\ reservation' = [reservation EXCEPT ![p].state = "reconciliation_required"]
  /\ UNCHANGED <<balances, books, session>>

Next ==
  \/ \E t \in Txns :
       \/ \E c \in Calls : \/ BeginTopUp(t, c)
                           \/ BeginReserve(t, c)
                           \/ BeginSettle(t, c)
                           \/ BeginRelease(t, c)
       \/ LockWallet(t)
       \/ Post(t)
       \/ Commit(t)
       \/ Rollback(t)
  \/ \E p \in Operations : MarkReconciliation(p)

Spec == Init /\ [][Next]_vars

-----------------------------------------------------------------------------
(* Correctness *)

TypeOK ==
  /\ rows \subseteq Wallets
  /\ available \in [Wallets -> Nat]
  /\ held \in [Wallets -> Nat]
  /\ version \in [Wallets -> Nat]
  /\ journals \subseteq {Key(c) : c \in Calls}
  /\ ledgerAvailable \in [Wallets -> Int]
  /\ ledgerHeld \in [Wallets -> Int]
  /\ clearing \in Int
  /\ revenue \in Int
  /\ accounts \in [Platform -> Nat]
  /\ reservation \in [Operations -> [state : States, authorized : Nat,
                                     settled : Nat, returned : Nat]]
  /\ pc \in [Txns -> {"idle", "lock", "post", "commit"}]
  /\ call \in [Txns -> Calls \cup {NoCall}]
  /\ sawRow \in [Txns -> BOOLEAN]
  /\ posted \in [Txns -> BOOLEAN]
  /\ opened \in [Txns -> SUBSET Platform]

Open   == {"active", "settling", "reconciliation_required"}
Closed == {"settled", "released"}

\* The cached balances of a wallet are the sums of its ledger accounts: no
\* committed delta without its journal, no journal without its delta
\* (ledger.py: the balance changes only in the transaction of the journal).
WalletMatchesLedger ==
  \A w \in Wallets : available[w] = ledgerAvailable[w] /\ held[w] = ledgerHeld[w]

\* The held balance of a wallet is what its open reservations still reserve:
\* whatever the interleaving of reserve, settle and release, no unit is held
\* for nobody, and none is promised twice.
HeldBacksReservations ==
  \A w \in Wallets :
    held[w] = SumFunctionOnSet([p \in Operations |-> Remaining(reservation[p])],
                    {p \in Operations : OperationWallet[p] = w})

\* Tokens are neither made nor lost: what users hold, plus what was settled
\* to the platform, is what the credited orders bought; and revenue is the
\* sum of the settled charges.
TokensConserved ==
  LET users == SumFunctionOnSet(available, Wallets) + SumFunctionOnSet(held, Wallets)
      paid  == {o \in Orders : <<"topup", o>> \in journals}
  IN /\ users + revenue = SumFunctionOnSet(TokenUnits, paid)
     /\ clearing = -SumFunctionOnSet(TokenUnits, paid)
     /\ revenue = SumFunctionOnSet([p \in Operations |-> reservation[p].settled], Operations)

\* A reservation is closed exactly when nothing is left of it, so the branch
\* of release_reservation for an exhausted open reservation is dead code.
ClosedIffExhausted ==
  \A p \in Operations :
    /\ reservation[p].state \in Open => Remaining(reservation[p]) > 0
    /\ reservation[p].state \in Closed => Remaining(reservation[p]) = 0

\* A closed reservation never changes again, the authorization of a
\* reservation never changes, and its settled and returned units only grow,
\* also when a settle, a release and a reconciliation race.
ReservationsOnlyAdvance ==
  [][\A p \in Operations :
       LET r == reservation[p]
           n == reservation'[p]
       IN /\ r.state \in Closed => n = r
          /\ r.state # "none" => n.authorized = r.authorized
          /\ n.settled >= r.settled
          /\ n.returned >= r.returned]_reservation

\* The state of the contract that a state of the wallet stands for
Status(s) == IF s = "none" THEN "none"
             ELSE IF s \in {"active", "settling"} THEN "open"
             ELSE IF s = "reconciliation_required" THEN "frozen" ELSE "closed"

Credited == {o \in Orders : <<"topup", o>> \in journals}
Grants   == [p \in Operations |-> [status |-> Status(reservation[p].state),
                                   units  |-> reservation[p].authorized,
                                   spent  |-> reservation[p].settled]]

Contract == INSTANCE TokenAccounts WITH
  balance <- available, credited <- Credited, grant <- Grants

\* Every transaction takes effect as one step of TokenAccounts, at its commit,
\* however the sessions interleave and wherever they fail.
RefinesTokenAccounts == Contract!Spec

=============================================================================
