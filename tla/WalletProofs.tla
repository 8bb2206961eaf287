---------------------------- MODULE WalletProofs ----------------------------
(***************************************************************************)
(* Proofs about Wallet, for any sets of wallets, orders, operations,       *)
(* invocations and sessions.                                               *)
(*                                                                         *)
(* The heart of the argument is that a balance update is committed exactly *)
(* when its journal is: post_journal silently returns an existing journal, *)
(* so every call must reach Post with a business key nobody has used.  The *)
(* three row locks give that, together with what the posted keys say of    *)
(* the reservations (JournalKeys).  The settle key does not name the       *)
(* reservation: the theorems need each invocation to charge one.           *)
(*                                                                         *)
(* What is held and what is conserved are sums over finite sets of rows    *)
(* (RowsFinite).  The lemmas on sums go by induction on the size of a set, *)
(* from a least natural number.  The last part is about the log of plan    *)
(* changes, which MCWallet puts beside the wallet.                         *)
(***************************************************************************)
EXTENDS MCWallet, FiniteSetTheorems, SequenceTheorems, WellFoundedInduction, TLAPS

\* ai_invocations.reservation_id: an invocation has at most one reservation
OneReservationPerInvocation ==
  \A i \in Invocations : \A p, q \in Operations :
    <<i, p>> \in MayCharge /\ <<i, q>> \in MayCharge => p = q

-----------------------------------------------------------------------------
(* The inductive invariant *)

\* What the locks exclude
Exclusive ==
  \A t, u \in Txns : t # u /\ InFlight(t) /\ InFlight(u) =>
    /\ pc[t] \in {"post", "commit"} /\ pc[u] \in {"post", "commit"}
         => WalletOf(call[t]) # WalletOf(call[u])
    /\ call[t].kind = "topup" /\ call[u].kind = "topup"
         => call[t].order # call[u].order
    /\ call[t].kind \in {"settle", "release"} /\ call[u].kind \in {"settle", "release"}
         => call[t].operation # call[u].operation

\* What a session has checked and its locks keep true
TopUpReady(c) == c \in TopUps => Key(c) \notin journals

SettleReady(c) == c \in Settles =>
  LET r == reservation[c.operation]
  IN /\ <<c.invocation, c.operation>> \in MayCharge
     /\ r.state \in {"active", "settling"}
     /\ r.settled < c.charge
     /\ c.charge <= r.authorized - r.returned

ReleaseReady(c) == c \in Releases => reservation[c.operation].state \in Open

CommitReady(t) == pc[t] = "commit" =>
  LET c == call[t]
      w == WalletOf(c)
  IN /\ posted[t]
     /\ available[w] + Entries(c).available >= 0
     /\ held[w] + Entries(c).held >= 0
     /\ c \in Reserves => reservation[c.operation].state = "none"

Sessions ==
  \A t \in Txns :
    /\ InFlight(t) => call[t] \in Calls
    /\ InFlight(t) => TopUpReady(call[t]) /\ SettleReady(call[t]) /\ ReleaseReady(call[t])
    /\ CommitReady(t)

\* What the posted keys say of the reservations
JournalKeys ==
  /\ \A p \in Operations :
       <<"reserve", p>> \in journals => reservation[p].state # "none"
  /\ \A p \in Operations :
       <<"release", p>> \in journals => reservation[p].state \in Closed
  /\ \A i \in Invocations, p \in Operations, n \in Units :
       <<"settle", i, n>> \in journals /\ <<i, p>> \in MayCharge
         => n <= reservation[p].settled

\* The arithmetic of a reservation
Reservations ==
  \A p \in Operations :
    LET r == reservation[p]
    IN /\ r.state = "none" => r = NoReservation
       /\ r.state \in Open => r.returned = 0 /\ r.settled < r.authorized
       /\ r.state \in Closed => r.settled + r.returned = r.authorized

WalletInv ==
  /\ TypeOK
  /\ Exclusive
  /\ Sessions
  /\ JournalKeys
  /\ Reservations
  /\ WalletMatchesLedger

-----------------------------------------------------------------------------
(* JournalKeys and entries *)

\* Two calls of one key are calls of one kind, about one thing.
LEMMA KeyInjective ==
  ASSUME NEW c \in Calls, NEW d \in Calls, Key(c) = Key(d)
  PROVE  /\ c.kind = d.kind
         /\ c.kind = "topup" => c.order = d.order
         /\ c.kind \in {"reserve", "release"} => c.operation = d.operation
         /\ c.kind = "settle" => c.invocation = d.invocation /\ c.charge = d.charge
<1>1. CASE c \in TopUps
  BY <1>1 DEF Calls, TopUps, Reserves, Settles, Releases, Key
<1>2. CASE c \in Reserves
  BY <1>2 DEF Calls, TopUps, Reserves, Settles, Releases, Key
<1>3. CASE c \in Settles
  BY <1>3 DEF Calls, TopUps, Reserves, Settles, Releases, Key
<1>4. CASE c \in Releases
  BY <1>4 DEF Calls, TopUps, Reserves, Settles, Releases, Key
<1> QED BY <1>1, <1>2, <1>3, <1>4 DEF Calls

\* What a key says of the call.
LEMMA KeyShape ==
  ASSUME NEW c \in Calls
  PROVE  /\ \A p : Key(c) = <<"reserve", p>> => c \in Reserves /\ c.operation = p
         /\ \A p : Key(c) = <<"release", p>> => c \in Releases /\ c.operation = p
         /\ \A i, n : Key(c) = <<"settle", i, n>>
              => c \in Settles /\ c.invocation = i /\ c.charge = n
<1>1. CASE c \in TopUps
  BY <1>1 DEF TopUps, Key
<1>2. CASE c \in Reserves
  BY <1>2 DEF Reserves, Key
<1>3. CASE c \in Settles
  BY <1>3 DEF Settles, Key
<1>4. CASE c \in Releases
  BY <1>4 DEF Releases, Key
<1> QED BY <1>1, <1>2, <1>3, <1>4 DEF Calls

\* Only a top-up has a top-up's key.
LEMMA KeyTopUp ==
  ASSUME NEW c \in Calls, c \notin TopUps, NEW o PROVE Key(c) # <<"topup", o>>
<1>1. CASE c \in Reserves
  BY <1>1 DEF Reserves, Key
<1>2. CASE c \in Settles
  BY <1>2 DEF Settles, Key
<1>3. CASE c \in Releases
  BY <1>3 DEF Releases, Key
<1> QED BY <1>1, <1>2, <1>3 DEF Calls

\* A call has a wallet.
LEMMA WalletOfType == ASSUME NEW c \in Calls PROVE WalletOf(c) \in Wallets
BY WalletConstants DEF WalletOf, Calls, TopUps, Reserves, Settles, Releases

\* The entries of a journal are integers.
LEMMA EntriesType ==
  ASSUME TypeOK, NEW c \in Calls
  PROVE  Entries(c) \in [available : Int, held : Int, clearing : Int, revenue : Int]
<1> USE WalletConstants DEF TypeOK, Units
<1>1. CASE c \in TopUps
  BY <1>1 DEF TopUps, Entries, Entry, SettleEntry, ReleaseEntry
<1>2. CASE c \in Reserves
  BY <1>2 DEF Reserves, Entries, Entry, SettleEntry, ReleaseEntry
<1>3. CASE c \in Settles
  BY <1>3 DEF Settles, Entries, Entry, SettleEntry, ReleaseEntry
<1>4. CASE c \in Releases
  BY <1>4 DEF Releases, Entries, Entry, SettleEntry, ReleaseEntry, Remaining
<1> QED BY <1>1, <1>2, <1>3, <1>4 DEF Calls

\* The account updates of a committed transaction are those of its call.
LEMMA CommitCall ==
  ASSUME WalletInv, NEW t \in Txns, Commit(t)
  PROVE  /\ call[t] \in Calls
         /\ WalletOf(call[t]) \in Wallets
         /\ Entries(call[t]) \in
              [available : Int, held : Int, clearing : Int, revenue : Int]
         /\ AddJournal(call[t], WalletOf(call[t]), Entries(call[t]))
         /\ CommitReady(t)
<1>1. call[t] \in Calls /\ CommitReady(t) /\ posted[t]
  BY DEF WalletInv, Sessions, CommitReady, Commit, InFlight
<1> QED
  BY <1>1, WalletOfType, EntriesType DEF WalletInv, Commit

-----------------------------------------------------------------------------
(* Every step preserves every part *)

LEMMA InitInv == Init => WalletInv
<1> SUFFICES ASSUME Init PROVE WalletInv
  OBVIOUS
<1> USE DEF Init
<1>1. TypeOK
  BY DEF TypeOK, NoReservation, States, Platform
<1>2. Exclusive /\ Sessions
  BY DEF Exclusive, Sessions, InFlight, CommitReady
<1>3. JournalKeys /\ Reservations /\ WalletMatchesLedger
  BY DEF JournalKeys, Reservations, NoReservation, Open, Closed, WalletMatchesLedger
<1> QED BY <1>1, <1>2, <1>3 DEF WalletInv

\* The kind of a call is the set it belongs to.
LEMMA Kinds ==
  ASSUME NEW c \in Calls
  PROVE  /\ c.kind = "topup" <=> c \in TopUps
         /\ c.kind = "reserve" <=> c \in Reserves
         /\ c.kind = "settle" <=> c \in Settles
         /\ c.kind = "release" <=> c \in Releases
         /\ c \in TopUps => c.order \in Orders
         /\ c \notin TopUps => c.operation \in Operations
BY DEF Calls, TopUps, Reserves, Settles, Releases

\* The reservation row a committed call leaves.
ReservationRow == [state : States, authorized : Nat, settled : Nat, returned : Nat]

LEMMA ReservationAfterType ==
  ASSUME TypeOK, Reservations, NEW c \in Calls, c \notin TopUps, ReleaseReady(c)
  PROVE  ReservationAfter(c) \in ReservationRow
<1> DEFINE r == reservation[c.operation]
<1>1. c.operation \in Operations /\ r \in ReservationRow
  BY Kinds DEF TypeOK, ReservationRow
<1>2. CASE c \in Reserves
  <2>1. c.kind = "reserve" /\ c.units \in Nat
    BY <1>2 DEF Reserves, Units
  <2> QED BY <2>1 DEF ReservationAfter, SettledState, ReservationRow, States
<1>3. CASE c \in Settles
  <2>1. c.kind = "settle" /\ c.charge \in Nat
    BY <1>3 DEF Settles, Units
  <2>2. ReservationAfter(c) =
          [r EXCEPT !.settled = c.charge,
                    !.state = IF c.charge + r.returned >= r.authorized
                              THEN "settled" ELSE "settling"]
    BY <2>1 DEF ReservationAfter, SettledState
  <2> HIDE DEF r
  <2> QED BY <1>1, <2>1, <2>2 DEF ReservationRow, States
<1>4. CASE c \in Releases
  <2>1. c.kind = "release" /\ r.state \in Open
    BY <1>4 DEF Releases, ReleaseReady
  <2>2. ReservationAfter(c) =
          [r EXCEPT !.returned = @ + Remaining(r),
                    !.state = IF r.settled > 0 THEN "settled" ELSE "released"]
    BY <2>1 DEF ReservationAfter, SettledState
  <2>3. Remaining(r) \in Nat
    BY <1>1, <2>1 DEF Reservations, Remaining, ReservationRow
  <2> HIDE DEF r
  <2>4. r.returned + Remaining(r) \in Nat
    BY <1>1, <2>3 DEF ReservationRow
  <2>5. (IF r.settled > 0 THEN "settled" ELSE "released") \in States
    BY DEF States
  <2> QED BY <1>1, <2>2, <2>4, <2>5 DEF ReservationRow
<1> QED BY <1>2, <1>3, <1>4 DEF Calls

LEMMA TypeStep == ASSUME WalletInv, [Next]_vars PROVE TypeOK'
<1> USE DEF WalletInv, TypeOK, balances, books, session
<1>1. ASSUME NEW t \in Txns, NEW c \in Calls, Begin(t, c) PROVE TypeOK'
  BY <1>1 DEF Begin
<1>2. ASSUME NEW t \in Txns, LockWallet(t) PROVE TypeOK'
  BY <1>2 DEF LockWallet
<1>3. ASSUME NEW t \in Txns, Post(t) PROVE TypeOK'
  <2>1. AccountOf(call[t]) \subseteq Platform
    BY DEF AccountOf, Platform
  <2> QED BY <1>3, <2>1 DEF Post, Covers
<1>4. ASSUME NEW t \in Txns, Commit(t) PROVE TypeOK'
  <2> DEFINE c == call[t]
             w == WalletOf(c)
             e == Entries(c)
  <2>1. /\ c \in Calls /\ w \in Wallets
        /\ e \in [available : Int, held : Int, clearing : Int, revenue : Int]
        /\ AddJournal(c, w, e) /\ CommitReady(t)
    BY <1>4, CommitCall
  <2>2. /\ rows' \subseteq Wallets /\ available' \in [Wallets -> Nat]
        /\ held' \in [Wallets -> Nat] /\ version' \in [Wallets -> Nat]
    BY <1>4, <2>1 DEF Commit, ApplyDelta, CommitReady
  <2>3. /\ journals' \subseteq {Key(d) : d \in Calls}
        /\ ledgerAvailable' \in [Wallets -> Int] /\ ledgerHeld' \in [Wallets -> Int]
        /\ clearing' \in Int /\ revenue' \in Int
    BY <2>1 DEF AddJournal
  <2>4. accounts' \in [Platform -> Nat]
    BY <1>4 DEF Commit
  <2>5. c \notin TopUps => ReservationAfter(c) \in ReservationRow
    BY <1>4, <2>1, ReservationAfterType DEF Commit, Sessions, InFlight
  <2>6. reservation' \in [Operations -> [state : States, authorized : Nat,
                                        settled : Nat, returned : Nat]]
    <3> HIDE DEF c
    <3> QED BY <1>4, <2>1, <2>5, Kinds DEF Commit, ReservationRow, c
  <2>7. /\ pc' \in [Txns -> {"idle", "lock", "post", "commit"}]
        /\ call' \in [Txns -> Calls \cup {NoCall}]
        /\ sawRow' \in [Txns -> BOOLEAN] /\ posted' \in [Txns -> BOOLEAN]
        /\ opened' \in [Txns -> SUBSET Platform]
    BY <1>4 DEF Commit, Finish
  <2> QED BY <2>2, <2>3, <2>4, <2>6, <2>7
<1>5. ASSUME NEW t \in Txns, Rollback(t) PROVE TypeOK'
  BY <1>5 DEF Rollback, Finish
<1>6. ASSUME NEW p \in Operations, MarkReconciliation(p) PROVE TypeOK'
  BY <1>6 DEF MarkReconciliation, States
<1>7. CASE UNCHANGED vars
  BY <1>7 DEF vars
<1> QED
  BY <1>1, <1>2, <1>3, <1>4, <1>5, <1>6, <1>7
     DEF Next, BeginTopUp, BeginReserve, BeginSettle, BeginRelease

LEMMA ExclusiveStep == ASSUME WalletInv, [Next]_vars PROVE Exclusive'
<1> USE DEF WalletInv, TypeOK, Exclusive, InFlight
<1>1. ASSUME NEW t \in Txns, NEW c \in Calls, Begin(t, c),
             \/ c.kind = "topup" /\ OrderFree(c.order)
             \/ c.kind = "reserve"
             \/ c.kind \in {"settle", "release"} /\ ReservationFree(c.operation)
      PROVE Exclusive'
  BY <1>1 DEF Begin, OrderFree, ReservationFree
<1>2. ASSUME NEW t \in Txns, LockWallet(t) PROVE Exclusive'
  BY <1>2 DEF LockWallet, WalletFree, HoldsWallet, Sessions, WalletOf
<1>3. ASSUME NEW t \in Txns, Post(t) PROVE Exclusive'
  BY <1>3 DEF Post, Covers, WalletOf
<1>4. ASSUME NEW t \in Txns, Commit(t) \/ Rollback(t) PROVE Exclusive'
  <2>1. Finish(t)
    BY <1>4 DEF Commit, Rollback
  <2>2. \A u \in Txns : InFlight(u)' => u # t /\ pc'[u] = pc[u] /\ call'[u] = call[u]
    BY <2>1 DEF Finish
  <2> QED BY <2>2 DEF WalletOf
<1>5. ASSUME NEW p \in Operations, MarkReconciliation(p) PROVE Exclusive'
  BY <1>5 DEF MarkReconciliation, session, WalletOf
<1>6. CASE UNCHANGED vars
  BY <1>6 DEF vars, session, WalletOf
<1> QED
  BY <1>1, <1>2, <1>3, <1>4, <1>5, <1>6, Kinds
     DEF Next, BeginTopUp, BeginReserve, BeginSettle, BeginRelease

\* A step that leaves the books and the reservations alone keeps what the
\* sessions rely on.
LEMMA SessionsUntouched ==
  ASSUME WalletInv, NEW t \in Txns, NEW pcs, NEW c \in Calls \cup {NoCall},
         pc' = [pc EXCEPT ![t] = pcs], call' = [call EXCEPT ![t] = c],
         pcs # "idle" => c \in Calls /\ TopUpReady(c) /\ SettleReady(c) /\ ReleaseReady(c),
         CommitReady(t)',
         \A u \in Txns \ {t} : posted'[u] = posted[u],
         UNCHANGED <<balances, books, reservation>>
  PROVE  Sessions'
<1> USE DEF balances, books
<1>1. ASSUME NEW d PROVE /\ TopUpReady(d)' <=> TopUpReady(d)
                         /\ SettleReady(d)' <=> SettleReady(d)
                         /\ ReleaseReady(d)' <=> ReleaseReady(d)
  BY DEF TopUpReady, SettleReady, ReleaseReady, Key
<1>2. ASSUME NEW u \in Txns, u # t
      PROVE  /\ InFlight(u)' => call'[u] \in Calls
             /\ InFlight(u)' => /\ TopUpReady(call'[u])
                                /\ SettleReady(call'[u])
                                /\ ReleaseReady(call'[u])
             /\ CommitReady(u)'
  BY <1>2 DEF WalletInv, TypeOK, Sessions, InFlight, CommitReady, Entries,
                  Entry, SettleEntry, ReleaseEntry, Remaining,
              WalletOf
<1> QED
  BY <1>1, <1>2 DEF WalletInv, TypeOK, Sessions, InFlight

\* What another session's commit leaves alone: the reservation rows a session
\* has locked or reads under its wallet lock, and the balances it has locked.
LEMMA CommitLeaves ==
  ASSUME WalletInv, NEW t \in Txns, Commit(t), NEW u \in Txns, u # t, InFlight(u)
  PROVE  /\ InFlight(u)' /\ pc'[u] = pc[u] /\ call'[u] = call[u] /\ posted'[u] = posted[u]
         /\ call[u].kind \in {"settle", "release"}
              => reservation'[call[u].operation] = reservation[call[u].operation]
         /\ pc[u] = "commit" =>
              /\ available'[WalletOf(call[u])] = available[WalletOf(call[u])]
              /\ held'[WalletOf(call[u])] = held[WalletOf(call[u])]
              /\ call[u].kind # "topup"
                   => reservation'[call[u].operation] = reservation[call[u].operation]
<1> DEFINE c == call[t]
           d == call[u]
<1>1. /\ c \in Calls /\ d \in Calls /\ pc[t] = "commit" /\ InFlight(t)
      /\ CommitReady(t) /\ SettleReady(d) /\ ReleaseReady(d)
  BY CommitCall DEF WalletInv, Sessions, Commit, InFlight
<1>2. InFlight(u)' /\ pc'[u] = pc[u] /\ call'[u] = call[u] /\ posted'[u] = posted[u]
  BY DEF WalletInv, TypeOK, Commit, Finish, InFlight
<1>3. ASSUME d.kind # "topup", c.kind = "topup" \/ c.operation # d.operation
      PROVE  reservation'[d.operation] = reservation[d.operation]
  BY <1>1, <1>3, Kinds DEF WalletInv, TypeOK, Commit
<1>4. ASSUME d.kind \in {"settle", "release"}
      PROVE  c.kind = "topup" \/ c.operation # d.operation
  <2>1. CASE c.kind = "reserve"
    <3>1. reservation[c.operation].state = "none"
      BY <2>1, <1>1, Kinds DEF CommitReady
    <3>2. reservation[d.operation].state # "none"
      BY <1>4, <1>1, Kinds DEF SettleReady, ReleaseReady, Open
    <3> QED BY <3>1, <3>2
  <2>2. CASE c.kind \in {"settle", "release"}
    BY <2>2, <1>1, <1>4 DEF WalletInv, Exclusive
  <2> QED BY <2>1, <2>2, <1>1, Kinds DEF Calls
<1>5. ASSUME pc[u] = "commit" PROVE WalletOf(c) # WalletOf(d)
  BY <1>1, <1>5 DEF WalletInv, Exclusive
<1>6. ASSUME pc[u] = "commit", d.kind # "topup"
      PROVE  c.kind = "topup" \/ c.operation # d.operation
  BY <1>5, <1>6 DEF WalletOf
<1>7. pc[u] = "commit" => /\ available'[WalletOf(d)] = available[WalletOf(d)]
                         /\ held'[WalletOf(d)] = held[WalletOf(d)]
  BY <1>1, <1>5, WalletOfType DEF WalletInv, TypeOK, Commit, ApplyDelta
<1> QED BY <1>2, <1>3, <1>4, <1>6, <1>7

LEMMA SessionsStep ==
  ASSUME WalletInv, [Next]_vars PROVE Sessions'
<1> USE DEF WalletInv, TypeOK
<1>1. ASSUME NEW t \in Txns, NEW c \in Calls, Begin(t, c),
             TopUpReady(c), SettleReady(c), ReleaseReady(c)
      PROVE Sessions'
  <2>1. CommitReady(t)'
    BY <1>1 DEF Begin, CommitReady
  <2> QED BY <1>1, <2>1, SessionsUntouched DEF Begin
<1>2. ASSUME NEW t \in Txns, LockWallet(t) PROVE Sessions'
  <2>1. CommitReady(t)' /\ pc[t] = "lock"
    BY <1>2 DEF LockWallet, CommitReady
  <2>2. call' = [call EXCEPT ![t] = call[t]]
    BY <1>2 DEF LockWallet
  <2>3. pc' = [pc EXCEPT ![t] = "post"] /\ posted' = posted
        /\ UNCHANGED <<balances, books, reservation>>
    BY <1>2 DEF LockWallet
  <2>4. call[t] \in Calls /\ TopUpReady(call[t]) /\ SettleReady(call[t])
        /\ ReleaseReady(call[t])
    BY <2>1 DEF Sessions, InFlight
  <2> QED BY <2>1, <2>2, <2>3, <2>4, SessionsUntouched
<1>3. ASSUME NEW t \in Txns, Post(t) PROVE Sessions'
  <2> DEFINE c == call[t]
  <2>1. pc[t] = "post" /\ c \in Calls /\ TopUpReady(c) /\ SettleReady(c) /\ ReleaseReady(c)
    BY <1>3 DEF Post, Covers, Sessions, InFlight
  <2>2. Key(c) \notin journals
    <3>1. CASE c \in TopUps
      BY <3>1, <2>1 DEF TopUpReady
    <3>2. CASE c \in Reserves
      BY <3>2, <1>3 DEF Post, Covers, Reserves, JournalKeys, Key
    <3>3. CASE c \in Settles
      <4>1. /\ Key(c) = <<"settle", c.invocation, c.charge>>
            /\ c.invocation \in Invocations /\ c.operation \in Operations
            /\ c.charge \in Units /\ c.charge \in Nat
        BY <3>3 DEF Settles, Key, Units
      <4> QED BY <4>1, <3>3, <2>1 DEF JournalKeys, SettleReady
    <3>4. CASE c \in Releases
      BY <3>4, <2>1 DEF Releases, Key, JournalKeys, ReleaseReady, Open, Closed
    <3> QED BY <3>1, <3>2, <3>3, <3>4, <2>1 DEF Calls
  <2>3. CommitReady(t)'
    BY <1>3, <2>1, <2>2, Kinds DEF Post, Covers, CommitReady, WalletOf, Entries,
                  Entry, SettleEntry, ReleaseEntry, Remaining,
                                  balances, books
  <2>4. /\ call' = [call EXCEPT ![t] = c] /\ pc' = [pc EXCEPT ![t] = "commit"]
        /\ \A u \in Txns \ {t} : posted'[u] = posted[u]
        /\ UNCHANGED <<balances, books, reservation>>
    BY <1>3 DEF Post, Covers
  <2> QED BY <2>1, <2>3, <2>4, SessionsUntouched
<1>4. ASSUME NEW t \in Txns, Commit(t) PROVE Sessions'
  <2>1. ~InFlight(t)' /\ CommitReady(t)'
    BY <1>4 DEF Commit, Finish, InFlight, CommitReady
  <2>2. ASSUME NEW u \in Txns, u # t, InFlight(u)'
        PROVE  /\ call'[u] \in Calls
               /\ TopUpReady(call[u])' /\ SettleReady(call[u])' /\ ReleaseReady(call[u])'
               /\ CommitReady(u)'
    <3>1. InFlight(u)
      BY <1>4, <2>2 DEF Commit, Finish, InFlight
    <3>2. PICK d \in Calls : d = call[u]
      BY <3>1 DEF Sessions
    <3>3. TopUpReady(d) /\ SettleReady(d) /\ ReleaseReady(d) /\ CommitReady(u)
          /\ call'[u] = d
      BY <3>1, <3>2, <1>4, <2>2, CommitLeaves DEF Sessions
    <3>4. TopUpReady(d)'
      <4>1. call[t] \in Calls /\ journals' = journals \cup {Key(call[t])}
        BY <1>4, CommitCall DEF AddJournal
      <4>2. ASSUME d \in TopUps PROVE Key(d) # Key(call[t])
        <5>1. InFlight(t)
          BY <1>4 DEF Commit, InFlight
        <5> QED BY <4>1, <4>2, <5>1, <3>1, <3>2, <2>2, KeyInjective, Kinds DEF Exclusive
      <4> QED BY <3>3, <4>1, <4>2 DEF TopUpReady, Key
    <3>5. SettleReady(d)' /\ ReleaseReady(d)'
      BY <1>4, <2>2, <3>1, <3>2, <3>3, CommitLeaves, Kinds DEF SettleReady, ReleaseReady
    <3>6. CommitReady(u)'
      <4> SUFFICES ASSUME pc'[u] = "commit" PROVE CommitReady(u)'
        BY DEF CommitReady
      <4>1. /\ pc[u] = "commit" /\ posted'[u] = posted[u]
            /\ available'[WalletOf(d)] = available[WalletOf(d)]
            /\ held'[WalletOf(d)] = held[WalletOf(d)]
            /\ d.kind # "topup" => reservation'[d.operation] = reservation[d.operation]
        BY <1>4, <2>2, <3>1, <3>2, CommitLeaves
      <4>2. Entries(d)' = Entries(d)
        BY <4>1 DEF Entries, Entry, SettleEntry, ReleaseEntry, Remaining
      <4>3. /\ posted[u]
            /\ available[WalletOf(d)] + Entries(d).available >= 0
            /\ held[WalletOf(d)] + Entries(d).held >= 0
            /\ d \in Reserves => reservation[d.operation].state = "none"
        BY <3>2, <3>3, <4>1 DEF CommitReady
      <4>4. d \in Reserves => reservation'[d.operation].state = "none"
        BY <3>2, <4>1, <4>3, Kinds
      <4>5. WalletOf(d)' = WalletOf(d)
        BY DEF WalletOf
      <4> QED BY <3>3, <4>1, <4>2, <4>3, <4>4, <4>5 DEF CommitReady
    <3> QED BY <3>2, <3>3, <3>4, <3>5, <3>6
  <2>3. ASSUME NEW u \in Txns, ~InFlight(u)' PROVE CommitReady(u)'
    BY <2>3 DEF InFlight, CommitReady
  <2> QED BY <2>1, <2>2, <2>3 DEF Sessions
<1>5. ASSUME NEW t \in Txns, Rollback(t) PROVE Sessions'
  <2>1. /\ pc' = [pc EXCEPT ![t] = "idle"] /\ call' = [call EXCEPT ![t] = NoCall]
        /\ \A u \in Txns \ {t} : posted'[u] = posted[u]
        /\ UNCHANGED <<balances, books, reservation>>
    BY <1>5 DEF Rollback, Finish
  <2>2. CommitReady(t)'
    BY <2>1 DEF CommitReady
  <2> QED BY <2>1, <2>2, SessionsUntouched
<1>6. ASSUME NEW p \in Operations, MarkReconciliation(p) PROVE Sessions'
  <2>1. /\ UNCHANGED <<available, held, journals, pc, call, posted>>
        /\ reservation[p].state \in {"active", "settling"}
        /\ \A q \in Operations : q # p => reservation'[q] = reservation[q]
        /\ reservation'[p] = [reservation[p] EXCEPT !.state = "reconciliation_required"]
    BY <1>6 DEF MarkReconciliation, balances, books, session
  <2>2. ASSUME NEW u \in Txns, InFlight(u), NEW d \in Calls, d = call[u],
               d \in Settles \/ d \in Releases \/ (d \in Reserves /\ pc[u] = "commit")
        PROVE  reservation'[d.operation] = reservation[d.operation]
    <3>1. d \in Reserves => reservation[d.operation].state = "none"
      BY <2>2, Kinds DEF Sessions, CommitReady
    <3>2. d \in Settles \/ d \in Releases => d.operation # p
      BY <1>6, <2>2, Kinds DEF MarkReconciliation, ReservationFree
    <3> QED BY <2>1, <2>2, <3>1, <3>2, Kinds DEF Sessions
  <2>3. ASSUME NEW u \in Txns, InFlight(u)'
        PROVE  /\ call'[u] \in Calls
               /\ TopUpReady(call[u])' /\ SettleReady(call[u])' /\ ReleaseReady(call[u])'
               /\ CommitReady(u)'
    <3>0. InFlight(u)
      BY <2>1, <2>3 DEF InFlight
    <3>1. PICK d \in Calls : d = call[u]
      BY <3>0 DEF Sessions
    <3>2. call'[u] = d /\ TopUpReady(d) /\ SettleReady(d) /\ ReleaseReady(d) /\ CommitReady(u)
      BY <2>1, <3>0, <3>1 DEF Sessions
    <3>3. TopUpReady(d)'
      BY <2>1, <3>2 DEF TopUpReady, Key
    <3>4. SettleReady(d)' /\ ReleaseReady(d)'
      <4>1. ASSUME d \in Settles \/ d \in Releases
            PROVE  reservation'[d.operation] = reservation[d.operation]
        BY <2>2, <3>0, <3>1, <4>1
      <4> QED BY <4>1, <3>2 DEF SettleReady, ReleaseReady
    <3>5. CommitReady(u)'
      <4> SUFFICES ASSUME pc'[u] = "commit" PROVE CommitReady(u)'
        BY DEF CommitReady
      <4>1. pc[u] = "commit"
        BY <2>1
      <4>2. d.kind # "topup" => reservation'[d.operation] = reservation[d.operation]
        BY <2>2, <3>0, <3>1, <4>1, Kinds DEF Calls
      <4>3. Entries(d)' = Entries(d) /\ WalletOf(d)' = WalletOf(d)
        BY <4>2 DEF Entries, Entry, SettleEntry, ReleaseEntry, Remaining, WalletOf
      <4> QED BY <2>1, <3>1, <3>2, <4>1, <4>2, <4>3, Kinds DEF CommitReady
    <3> QED BY <3>2, <3>3, <3>4, <3>5
  <2>4. ASSUME NEW u \in Txns, ~InFlight(u)' PROVE CommitReady(u)'
    BY <2>4 DEF InFlight, CommitReady
  <2> QED BY <2>3, <2>4 DEF Sessions
<1>7. CASE UNCHANGED vars
  <2>1. /\ UNCHANGED <<balances, books, reservation, pc, call, posted>>
    BY <1>7 DEF vars, session
  <2>2. ASSUME NEW u \in Txns
        PROVE  /\ pc' = [pc EXCEPT ![u] = pc[u]] /\ call' = [call EXCEPT ![u] = call[u]]
               /\ call[u] \in Calls \cup {NoCall}
               /\ pc[u] # "idle" => /\ call[u] \in Calls /\ TopUpReady(call[u])
                                    /\ SettleReady(call[u]) /\ ReleaseReady(call[u])
               /\ CommitReady(u)'
    <3>1. CommitReady(u)
      BY DEF Sessions
    <3>2. CommitReady(u)'
      BY <2>1, <3>1 DEF balances, CommitReady, Entries, Entry, SettleEntry, ReleaseEntry, Remaining, WalletOf
    <3> QED BY <2>1, <3>2 DEF Sessions, InFlight
  <2> QED BY <2>1, <2>2, SessionsUntouched DEF Sessions
<1>8. ASSUME NEW t \in Txns, NEW c \in Calls,
             BeginTopUp(t, c) \/ BeginReserve(t, c) \/ BeginSettle(t, c) \/ BeginRelease(t, c)
      PROVE  Begin(t, c) /\ TopUpReady(c) /\ SettleReady(c) /\ ReleaseReady(c)
  <2>1. Begin(t, c) /\ TopUpReady(c)
    BY <1>8, Kinds DEF BeginTopUp, BeginReserve, BeginSettle, BeginRelease, TopUpReady
  <2>2. SettleReady(c)
    BY <1>8, Kinds DEF BeginTopUp, BeginReserve, BeginSettle, BeginRelease, SettleReady
  <2>3. ReleaseReady(c)
    BY <1>8, Kinds DEF BeginTopUp, BeginReserve, BeginSettle, BeginRelease, ReleaseReady,
                       States, Open
  <2> QED BY <2>1, <2>2, <2>3
<1> QED
  BY <1>1, <1>2, <1>3, <1>4, <1>5, <1>6, <1>7, <1>8 DEF Next

\* What a call does to its reservation row: it was not closed, it only
\* advances, and it is closed exactly when nothing is left of it.
LEMMA RowAfter ==
  ASSUME TypeOK, Reservations, NEW c \in Calls, c \notin TopUps,
         SettleReady(c), ReleaseReady(c),
         c \in Reserves => reservation[c.operation].state = "none"
  PROVE  LET r == reservation[c.operation]
             n == ReservationAfter(c)
         IN /\ r.state \notin Closed
            /\ n.state # "none"
            /\ r.state # "none" => n.authorized = r.authorized
            /\ n.settled >= r.settled /\ n.returned >= r.returned
            /\ n.state \in Open => n.returned = 0 /\ n.settled < n.authorized
            /\ n.state \in Closed => n.settled + n.returned = n.authorized
            /\ c \in Settles => n.settled = c.charge
            /\ c \in Releases => n.state \in Closed
<1> DEFINE r == reservation[c.operation]
           n == ReservationAfter(c)
<1>1. c.operation \in Operations /\ r \in ReservationRow
  BY Kinds DEF TypeOK, ReservationRow
<1>2. /\ r.state = "none" => r = NoReservation
      /\ r.state \in Open => r.returned = 0 /\ r.settled < r.authorized
  BY <1>1 DEF Reservations
<1>3. CASE c \in Reserves
  <2>1. c.kind = "reserve" /\ c.units \in Nat /\ c.units > 0 /\ r = NoReservation
    BY <1>2, <1>3 DEF Reserves, Units
  <2>2. n = [state |-> "active", authorized |-> c.units, settled |-> 0, returned |-> 0]
    BY <2>1 DEF ReservationAfter, SettledState
  <2> HIDE DEF n, r
  <2>3. c \notin Settles /\ c \notin Releases
    BY <2>1, Kinds
  <2> QED BY <2>1, <2>2, <2>3 DEF NoReservation, Open, Closed, n, r
<1>4. CASE c \in Settles
  <2>1. /\ c.kind = "settle" /\ c.charge \in Nat
        /\ r.state \in {"active", "settling"} /\ r.settled < c.charge
        /\ c.charge <= r.authorized - r.returned
    BY <1>4 DEF Settles, Units, SettleReady
  <2>2. n = [r EXCEPT !.settled = c.charge,
                      !.state = IF c.charge + r.returned >= r.authorized
                                THEN "settled" ELSE "settling"]
    BY <2>1 DEF ReservationAfter, SettledState
  <2>3. c \notin Releases /\ c \notin Reserves
    BY <2>1, Kinds
  <2> HIDE DEF n, r
  <2>4. /\ n.settled = c.charge /\ n.returned = r.returned /\ n.authorized = r.authorized
        /\ n.state = IF c.charge + r.returned >= r.authorized THEN "settled" ELSE "settling"
        /\ r.settled \in Nat /\ r.returned \in Nat /\ r.authorized \in Nat
    BY <1>1, <2>2 DEF ReservationRow
  <2>5. r.returned = 0
    BY <1>2, <2>1 DEF Open
  <2> QED BY <2>1, <2>3, <2>4, <2>5 DEF Open, Closed, n, r
<1>5. CASE c \in Releases
  <2>1. c.kind = "release" /\ r.state \in Open
    BY <1>5 DEF Releases, ReleaseReady
  <2>2. n = [r EXCEPT !.returned = @ + Remaining(r),
                      !.state = IF r.settled > 0 THEN "settled" ELSE "released"]
    BY <2>1 DEF ReservationAfter, SettledState
  <2>3. c \notin Settles /\ c \notin Reserves
    BY <2>1, Kinds
  <2> HIDE DEF n, r
  <2>4. /\ n.settled = r.settled /\ n.authorized = r.authorized
        /\ n.returned = r.returned + (r.authorized - r.settled - r.returned)
        /\ n.state = IF r.settled > 0 THEN "settled" ELSE "released"
        /\ r.settled \in Nat /\ r.returned \in Nat /\ r.authorized \in Nat
    BY <1>1, <2>2 DEF ReservationRow, Remaining
  <2> QED BY <1>2, <2>1, <2>3, <2>4 DEF Open, Closed, n, r
<1> QED BY <1>3, <1>4, <1>5 DEF Calls

\* The row of an operation after a commit: its call's, or what it was.
LEMMA CommitRow ==
  ASSUME WalletInv, NEW t \in Txns, Commit(t), NEW p \in Operations
  PROVE  \/ reservation'[p] = reservation[p] /\
               (call[t] \in TopUps \/ call[t].operation # p)
         \/ /\ call[t] \in Calls /\ call[t] \notin TopUps /\ call[t].operation = p
            /\ SettleReady(call[t]) /\ ReleaseReady(call[t])
            /\ call[t] \in Reserves => reservation[p].state = "none"
            /\ reservation'[p] = ReservationAfter(call[t])
<1>1. /\ call[t] \in Calls /\ SettleReady(call[t]) /\ ReleaseReady(call[t])
      /\ call[t] \in Reserves => reservation[call[t].operation].state = "none"
  BY CommitCall DEF WalletInv, Sessions, InFlight, Commit, CommitReady
<1> QED BY <1>1, Kinds DEF WalletInv, TypeOK, Commit

\* The steps that leave the books and the reservations alone
Quiet == /\ UNCHANGED <<balances, books, reservation>>

LEMMA NextCases ==
  ASSUME [Next]_vars
  PROVE  \/ Quiet
         \/ \E t \in Txns : Commit(t)
         \/ \E p \in Operations : MarkReconciliation(p)
<1> USE DEF Quiet
<1>1. ASSUME NEW t \in Txns, NEW c \in Calls,
             BeginTopUp(t, c) \/ BeginReserve(t, c) \/ BeginSettle(t, c) \/ BeginRelease(t, c)
      PROVE  Quiet
  BY <1>1 DEF BeginTopUp, BeginReserve, BeginSettle, BeginRelease, Begin
<1>2. ASSUME NEW t \in Txns, LockWallet(t) \/ Post(t) \/ Rollback(t) PROVE Quiet
  BY <1>2 DEF LockWallet, Post, Covers, Rollback
<1>3. CASE UNCHANGED vars
  BY <1>3 DEF vars
<1> QED BY <1>1, <1>2, <1>3 DEF Next

LEMMA ReservationsStep == ASSUME WalletInv, [Next]_vars PROVE Reservations'
<1>1. CASE Quiet
  BY <1>1 DEF Quiet, WalletInv, Reservations
<1>2. ASSUME NEW t \in Txns, Commit(t) PROVE Reservations'
  <2>1. ASSUME NEW p \in Operations
        PROVE  LET n == reservation'[p]
               IN /\ n.state = "none" => n = NoReservation
                  /\ n.state \in Open => n.returned = 0 /\ n.settled < n.authorized
                  /\ n.state \in Closed => n.settled + n.returned = n.authorized
    <3>1. CASE reservation'[p] = reservation[p]
      BY <3>1 DEF WalletInv, Reservations
    <3>2. CASE reservation'[p] # reservation[p]
      BY <1>2, <3>2, CommitRow, RowAfter DEF WalletInv
    <3> QED BY <3>1, <3>2
  <2> QED BY <2>1 DEF Reservations
<1>3. ASSUME NEW p \in Operations, MarkReconciliation(p) PROVE Reservations'
  <2>1. /\ reservation[p].state \in Open
        /\ reservation'[p] = [reservation[p] EXCEPT !.state = "reconciliation_required"]
        /\ \A q \in Operations : q # p => reservation'[q] = reservation[q]
        /\ reservation[p] \in ReservationRow
    BY <1>3 DEF MarkReconciliation, WalletInv, TypeOK, Open, ReservationRow
  <2> QED BY <2>1 DEF WalletInv, Reservations, ReservationRow, Open, Closed
<1> QED BY <1>1, <1>2, <1>3, NextCases

LEMMA KeysStep ==
  ASSUME OneReservationPerInvocation, WalletInv, [Next]_vars PROVE JournalKeys'
<1>1. CASE Quiet
  BY <1>1 DEF Quiet, books, WalletInv, JournalKeys
<1>2. ASSUME NEW t \in Txns, Commit(t) PROVE JournalKeys'
  <2> DEFINE c == call[t]
  <2>1. c \in Calls /\ journals' = journals \cup {Key(c)}
    BY <1>2, CommitCall DEF AddJournal
  <2>2. ASSUME NEW p \in Operations, reservation'[p] # reservation[p]
        PROVE  /\ reservation[p].state \notin Closed /\ reservation'[p].state # "none"
               /\ reservation'[p].settled >= reservation[p].settled
    BY <1>2, <2>2, CommitRow, RowAfter DEF WalletInv
  <2>3. ASSUME NEW p \in Operations, <<"reserve", p>> \in journals'
        PROVE  reservation'[p].state # "none"
    <3>1. CASE <<"reserve", p>> \in journals
      BY <2>2, <3>1 DEF WalletInv, JournalKeys
    <3>2. CASE Key(c) = <<"reserve", p>>
      <4>1. c \in Reserves /\ c.operation = p
        BY <2>1, <3>2, KeyShape
      <4>2. c \notin TopUps
        BY <2>1, <4>1, Kinds
      <4>3. reservation'[p] = ReservationAfter(c) /\ SettleReady(c) /\ ReleaseReady(c)
            /\ reservation[p].state = "none"
        BY <1>2, <2>1, <4>1, <4>2, CommitCall, Kinds
           DEF WalletInv, TypeOK, Sessions, InFlight, Commit, CommitReady
      <4> QED BY <2>1, <4>1, <4>2, <4>3, RowAfter DEF WalletInv
    <3> QED BY <2>1, <2>3, <3>1, <3>2
  <2>4. ASSUME NEW p \in Operations, <<"release", p>> \in journals'
        PROVE  reservation'[p].state \in Closed
    <3>1. CASE <<"release", p>> \in journals
      BY <2>2, <3>1 DEF WalletInv, JournalKeys
    <3>2. CASE Key(c) = <<"release", p>>
      <4>1. c \in Releases /\ c.operation = p
        BY <2>1, <3>2, KeyShape
      <4>2. c \notin TopUps /\ c \notin Reserves
        BY <2>1, <4>1, Kinds
      <4>3. reservation'[p] = ReservationAfter(c) /\ SettleReady(c) /\ ReleaseReady(c)
        BY <1>2, <2>1, <4>1, <4>2, Kinds
           DEF WalletInv, TypeOK, Sessions, InFlight, Commit
      <4> QED BY <2>1, <4>1, <4>2, <4>3, RowAfter DEF WalletInv
    <3> QED BY <2>1, <2>4, <3>1, <3>2
  <2>5. ASSUME NEW i \in Invocations, NEW p \in Operations, NEW n \in Units,
               <<"settle", i, n>> \in journals', <<i, p>> \in MayCharge
        PROVE  n <= reservation'[p].settled
    <3>1. CASE <<"settle", i, n>> \in journals
      <4>1. n <= reservation[p].settled /\ n \in Nat /\ reservation[p].settled \in Nat
        BY <2>5, <3>1 DEF WalletInv, JournalKeys, TypeOK, Units
      <4>2. reservation'[p].settled \in Nat
        BY TypeStep DEF TypeOK
      <4> QED BY <2>2, <4>1, <4>2
    <3>2. CASE Key(c) = <<"settle", i, n>>
      <4>1. c \in Settles /\ c.invocation = i /\ c.charge = n
        BY <2>1, <3>2, KeyShape
      <4>2. c \notin TopUps /\ c \notin Reserves /\ c.operation \in Operations
        BY <2>1, <4>1, Kinds
      <4>3. SettleReady(c) /\ ReleaseReady(c)
        BY <1>2, <2>1 DEF WalletInv, Sessions, InFlight, Commit
      <4>4. c.operation = p
        BY <2>5, <4>1, <4>2, <4>3 DEF SettleReady, OneReservationPerInvocation
      <4>5. reservation'[p] = ReservationAfter(c)
        BY <1>2, <2>1, <4>2, <4>4, Kinds DEF WalletInv, TypeOK, Commit
      <4>6. reservation'[p].settled = n
        BY <2>1, <4>1, <4>2, <4>3, <4>5, RowAfter DEF WalletInv
      <4> QED BY <4>6 DEF Units
    <3> QED BY <2>1, <2>5, <3>1, <3>2
  <2> QED BY <2>3, <2>4, <2>5 DEF JournalKeys
<1>3. ASSUME NEW p \in Operations, MarkReconciliation(p) PROVE JournalKeys'
  <2>1. /\ reservation[p].state \in {"active", "settling"}
        /\ reservation'[p] = [reservation[p] EXCEPT !.state = "reconciliation_required"]
        /\ \A q \in Operations : q # p => reservation'[q] = reservation[q]
        /\ reservation[p] \in ReservationRow
        /\ journals' = journals
    BY <1>3 DEF MarkReconciliation, WalletInv, TypeOK, ReservationRow, books
  <2> QED BY <2>1 DEF WalletInv, JournalKeys, ReservationRow, Closed
<1> QED BY <1>1, <1>2, <1>3, NextCases

\* The balances and the ledger move together.
LEMMA MatchStep == ASSUME WalletInv, [Next]_vars PROVE WalletMatchesLedger'
<1>1. CASE Quiet
  BY <1>1 DEF Quiet, balances, books, WalletInv, WalletMatchesLedger
<1>2. ASSUME NEW t \in Txns, Commit(t) PROVE WalletMatchesLedger'
  <2> DEFINE w == WalletOf(call[t])
             e == Entries(call[t])
  <2>1. /\ w \in Wallets /\ e.available \in Int /\ e.held \in Int
        /\ ledgerAvailable' = [ledgerAvailable EXCEPT ![w] = @ + e.available]
        /\ ledgerHeld' = [ledgerHeld EXCEPT ![w] = @ + e.held]
    BY <1>2, CommitCall DEF AddJournal
  <2>2. /\ available' = [available EXCEPT ![w] = @ + e.available]
        /\ held' = [held EXCEPT ![w] = @ + e.held]
    BY <1>2 DEF Commit, ApplyDelta
  <2> HIDE DEF w, e
  <2> QED BY <2>1, <2>2 DEF WalletInv, TypeOK, WalletMatchesLedger
<1>3. ASSUME NEW p \in Operations, MarkReconciliation(p) PROVE WalletMatchesLedger'
  BY <1>3 DEF MarkReconciliation, balances, books, WalletInv, WalletMatchesLedger
<1> QED BY <1>1, <1>2, <1>3, NextCases

-----------------------------------------------------------------------------
(* Theorems *)

\* If an invocation charges one reservation only, every reachable state of the
\* wallet satisfies the inductive invariant.
THEOREM Invariance ==
  ASSUME OneReservationPerInvocation PROVE Spec => []WalletInv
<1>1. Init => WalletInv
  BY InitInv
<1>2. WalletInv /\ [Next]_vars => WalletInv'
  BY TypeStep, ExclusiveStep, SessionsStep, KeysStep, ReservationsStep, MatchStep
     DEF WalletInv
<1> QED BY <1>1, <1>2, PTL DEF Spec

\* The state of the wallet has its type: no transaction leaves a negative
\* balance (wallet.py: the balance is checked under the row lock).
THEOREM TypeCorrect ==
  ASSUME OneReservationPerInvocation PROVE Spec => []TypeOK
<1>1. WalletInv => TypeOK
  BY DEF WalletInv
<1> QED BY <1>1, Invariance, PTL

\* The cached balances are the sums of the ledger entries (ledger.py: the
\* materialized balance changes only in the transaction of its journal),
\* whatever the numbers of users, orders, reservations and sessions.
THEOREM LedgerCorrect ==
  ASSUME OneReservationPerInvocation PROVE Spec => []WalletMatchesLedger
<1>1. WalletInv => WalletMatchesLedger
  BY DEF WalletInv
<1> QED BY <1>1, Invariance, PTL

\* A reservation is closed exactly when nothing is left of it
\* (wallet.py, settle_reservation and release_reservation).
THEOREM ReservationsClose ==
  ASSUME OneReservationPerInvocation PROVE Spec => []ClosedIffExhausted
<1>1. WalletInv => ClosedIffExhausted
  BY DEF WalletInv, TypeOK, Reservations, ClosedIffExhausted, Remaining, Open, Closed
<1> QED BY <1>1, Invariance, PTL

\* Whatever races, no step reopens a closed reservation, changes what it
\* authorizes or takes a settled or returned unit back (wallet.py,
\* _lock_reservation and the state checks that follow it).
THEOREM ReservationsAdvance ==
  ASSUME OneReservationPerInvocation PROVE Spec => ReservationsOnlyAdvance
<1> DEFINE Advance(p) == LET r == reservation[p]
                             n == reservation'[p]
                         IN /\ r.state \in Closed => n = r
                            /\ r.state # "none" => n.authorized = r.authorized
                            /\ n.settled >= r.settled
                            /\ n.returned >= r.returned
<1>1. ASSUME WalletInv, [Next]_vars, NEW p \in Operations PROVE Advance(p)
  <2>1. CASE reservation'[p] = reservation[p]
    BY <1>1, <2>1 DEF WalletInv, TypeOK
  <2>2. ASSUME NEW t \in Txns, Commit(t), reservation'[p] # reservation[p]
        PROVE  Advance(p)
    BY <1>1, <2>2, CommitRow, RowAfter DEF WalletInv
  <2>3. ASSUME NEW q \in Operations, MarkReconciliation(q), reservation'[p] # reservation[p]
        PROVE  Advance(p)
    BY <1>1, <2>3 DEF MarkReconciliation, WalletInv, TypeOK, Closed
  <2> QED BY <1>1, <2>1, <2>2, <2>3, NextCases DEF Quiet
<1>2. WalletInv /\ [Next]_vars => [\A p \in Operations : Advance(p)]_reservation
  BY <1>1
<1> QED BY <1>2, Invariance, PTL DEF ReservationsOnlyAdvance, Spec

-----------------------------------------------------------------------------
(* The wallet implements TokenAccounts *)

\* The committed calls, kind by kind, are the operations of the contract.
LEMMA CommitImplements ==
  ASSUME WalletInv, NEW t \in Txns, Commit(t)
  PROVE  Contract!Next
<1> DEFINE c == call[t]
           w == WalletOf(c)
           e == Entries(c)
<1>1. /\ c \in Calls /\ w \in Wallets /\ CommitReady(t) /\ pc[t] = "commit"
      /\ SettleReady(c) /\ ReleaseReady(c) /\ TopUpReady(c)
      /\ journals' = journals \cup {Key(c)}
      /\ available' = [available EXCEPT ![w] = @ + e.available]
      /\ reservation' = IF c.kind = "topup" THEN reservation
                        ELSE [reservation EXCEPT ![c.operation] = ReservationAfter(c)]
  BY CommitCall DEF WalletInv, Sessions, InFlight, Commit, ApplyDelta, AddJournal
<1>2. CASE c \in TopUps
  <2>1. PICK o \in Orders : o = c.order /\ w = OrderWallet[o] /\ e.available = TokenUnits[o]
                            /\ Key(c) = <<"topup", o>> /\ c.kind = "topup"
    BY <1>2 DEF TopUps, WalletOf, Entries, Entry, SettleEntry, ReleaseEntry, Key
  <2>2. o \notin Credited /\ Credited' = Credited \cup {o}
    BY <1>1, <1>2, <2>1 DEF TopUpReady, Credited
  <2>3. Grants' = Grants
    BY <1>1, <2>1 DEF Grants
  <2>4. Contract!Credit(o)
    BY <1>1, <2>1, <2>2, <2>3 DEF Contract!Credit
  <2> QED BY <2>4 DEF Contract!Next
<1>3. CASE c \notin TopUps
  <2>1. PICK p \in Operations : p = c.operation /\ w = OperationWallet[p] /\ c.kind # "topup"
    BY <1>1, <1>3, Kinds DEF WalletOf
  <2>2. Credited' = Credited
    BY <1>1, <1>3, KeyTopUp DEF Credited
  <2>3. /\ reservation[p] \in ReservationRow /\ reservation'[p] = ReservationAfter(c)
        /\ reservation' = [reservation EXCEPT ![p] = ReservationAfter(c)]
    BY <1>1, <2>1 DEF WalletInv, TypeOK, ReservationRow
  <2>4. Grants' = [Grants EXCEPT ![p] = [status |-> Status(reservation'[p].state),
                                         units  |-> reservation'[p].authorized,
                                         spent  |-> reservation'[p].settled]]
    BY <2>3 DEF Grants, WalletInv, TypeOK
  <2>5. Grants[p] = [status |-> Status(reservation[p].state),
                     units  |-> reservation[p].authorized,
                     spent  |-> reservation[p].settled]
    BY DEF Grants
  <2>6. CASE c \in Reserves
    <3>1. /\ c.units \in Units /\ reservation[p].state = "none" /\ e.available = -c.units
          /\ available[w] - c.units >= 0
          /\ reservation'[p] = [state |-> "active", authorized |-> c.units,
                                settled |-> 0, returned |-> 0]
      BY <1>1, <2>1, <2>3, <2>6 DEF Reserves, CommitReady, Entries,
                  Entry, SettleEntry, ReleaseEntry, ReservationAfter, SettledState, WalletInv,
                                    TypeOK, Units
    <3>2. Grants[p].status = "none"
      BY <2>5, <3>1 DEF Status
    <3>3. Grants' = [Grants EXCEPT ![p] = [status |-> "open", units |-> c.units, spent |-> 0]]
      BY <2>4, <3>1 DEF Status
    <3>4. c.units <= available[w] /\ available' = [available EXCEPT ![w] = @ - c.units]
      <4> HIDE DEF e, w, c
      <4>1. available[w] \in Nat /\ c.units \in Nat
        BY <1>1, <3>1 DEF WalletInv, TypeOK, Units
      <4>2. available[w] + e.available = available[w] - c.units /\ c.units <= available[w]
        BY <3>1, <4>1
      <4> QED BY <1>1, <4>2
    <3>5. Contract!Grant(p, c.units)
      BY <2>1, <2>2, <3>2, <3>3, <3>4 DEF Contract!Grant
    <3> QED BY <3>1, <3>5 DEF Contract!Next
  <2>7. CASE c \in Settles
    <3>1. /\ c.charge \in Units /\ c.charge \in Nat /\ c.kind = "settle" /\ e.available = 0
          /\ reservation[p].state \in {"active", "settling"}
          /\ reservation[p].settled < c.charge /\ reservation[p].returned = 0
          /\ c.charge <= reservation[p].authorized
      BY <1>1, <2>1, <2>3, <2>7 DEF Settles, SettleReady, Entries,
                  Entry, SettleEntry, ReleaseEntry, Units, WalletInv,
                                    Reservations, Open, ReservationRow
    <3>2. reservation'[p] =
            [reservation[p] EXCEPT !.settled = c.charge,
               !.state = IF c.charge + reservation[p].returned >= reservation[p].authorized
                         THEN "settled" ELSE "settling"]
      BY <2>1, <2>3, <3>1 DEF ReservationAfter, SettledState
    <3>3. /\ reservation'[p].settled = c.charge
          /\ reservation'[p].authorized = reservation[p].authorized
          /\ reservation'[p].state = IF c.charge = reservation[p].authorized
                                     THEN "settled" ELSE "settling"
      <4> DEFINE r == reservation[p]
                 n == reservation'[p]
      <4> HIDE DEF r, n, c
      <4>1. /\ n = [r EXCEPT !.settled = c.charge,
                        !.state = IF c.charge + r.returned >= r.authorized
                                  THEN "settled" ELSE "settling"]
            /\ r \in ReservationRow /\ r.returned = 0 /\ c.charge \in Nat
            /\ c.charge <= r.authorized
        BY <2>3, <3>1, <3>2 DEF r, n
      <4>2. /\ n.settled = c.charge /\ n.authorized = r.authorized
            /\ n.state = IF c.charge + r.returned >= r.authorized
                         THEN "settled" ELSE "settling"
            /\ r.authorized \in Nat
        BY <4>1 DEF ReservationRow
      <4>3. c.charge + r.returned >= r.authorized <=> c.charge = r.authorized
        BY <4>1, <4>2
      <4> QED BY <4>2, <4>3 DEF r, n
    <3>4. /\ Grants[p].status = "open" /\ Grants[p].spent < c.charge
          /\ c.charge <= Grants[p].units
      BY <2>5, <3>1 DEF Status
    <3>5. Grants' = [Grants EXCEPT ![p].spent = c.charge,
                                   ![p].status = IF c.charge = Grants[p].units
                                                 THEN "closed" ELSE "open"]
      BY <2>4, <2>5, <3>3 DEF Status, Grants
    <3>6. available' = available
      BY <1>1, <3>1 DEF WalletInv, TypeOK
    <3>7. Contract!Charge(p, c.charge)
      BY <2>2, <3>4, <3>5, <3>6 DEF Contract!Charge
    <3> QED BY <3>1, <3>7 DEF Contract!Next
  <2>8. CASE c \in Releases
    <3>1. /\ c.kind = "release" /\ reservation[p].state \in Open /\ reservation[p].returned = 0
          /\ e.available = reservation[p].authorized - reservation[p].settled
      BY <1>1, <2>1, <2>3, <2>8 DEF Releases, ReleaseReady, Entries,
                  Entry, SettleEntry, ReleaseEntry, Remaining, WalletInv,
                                    Reservations, ReservationRow
    <3>2. reservation'[p] =
            [reservation[p] EXCEPT !.returned = @ + Remaining(reservation[p]),
               !.state = IF reservation[p].settled > 0 THEN "settled" ELSE "released"]
      BY <2>1, <2>3, <3>1 DEF ReservationAfter, SettledState
    <3>3. /\ reservation'[p].settled = reservation[p].settled
          /\ reservation'[p].authorized = reservation[p].authorized
          /\ reservation'[p].state \in Closed
      <4> DEFINE r == reservation[p]
                 n == reservation'[p]
      <4> HIDE DEF r, n
      <4>1. /\ n = [r EXCEPT !.returned = @ + Remaining(r),
                        !.state = IF r.settled > 0 THEN "settled" ELSE "released"]
            /\ r \in ReservationRow
        BY <2>3, <3>2 DEF r, n
      <4> QED BY <4>1 DEF ReservationRow, Closed, r, n
    <3>4. Grants[p].status \in {"open", "frozen"}
      BY <2>5, <3>1 DEF Status, Open
    <3>5. Grants' = [Grants EXCEPT ![p].status = "closed"]
      BY <2>4, <2>5, <3>3 DEF Status, Grants, Closed
    <3>6. available' = [available EXCEPT ![w] = @ + (Grants[p].units - Grants[p].spent)]
      BY <1>1, <2>5, <3>1
    <3>7. Contract!Return(p)
      BY <2>1, <2>2, <3>4, <3>5, <3>6 DEF Contract!Return
    <3> QED BY <3>7 DEF Contract!Next
  <2> QED BY <1>1, <1>3, <2>6, <2>7, <2>8 DEF Calls
<1> QED BY <1>2, <1>3

\* Every transaction of the wallet, however it interleaves with the others and
\* wherever it fails, takes effect as one operation of TokenAccounts at its
\* commit (wallet.py, ledger.py: one SQL transaction per operation).
THEOREM WalletImplementsAccounts ==
  ASSUME OneReservationPerInvocation PROVE Spec => RefinesTokenAccounts
<1>1. Init => Contract!Init
  BY DEF Init, Contract!Init, Credited, Grants, Status, NoReservation
<1>2. ASSUME WalletInv, [Next]_vars PROVE [Contract!Next]_(Contract!vars)
  <2>1. CASE Quiet
    BY <2>1 DEF Quiet, balances, books, Contract!vars, Credited, Grants
  <2>2. ASSUME NEW t \in Txns, Commit(t) PROVE Contract!Next
    BY <1>2, <2>2, CommitImplements
  <2>3. ASSUME NEW p \in Operations, MarkReconciliation(p) PROVE Contract!Next
    <3>1. /\ reservation[p].state \in {"active", "settling"}
          /\ reservation' = [reservation EXCEPT ![p].state = "reconciliation_required"]
          /\ available' = available /\ journals' = journals
          /\ reservation \in [Operations -> ReservationRow]
      BY <1>2, <2>3 DEF MarkReconciliation, balances, books, WalletInv, TypeOK, ReservationRow
    <3>2. Grants[p].status = "open"
      BY <3>1 DEF Grants, Status
    <3>3. Grants' = [Grants EXCEPT ![p].status = "frozen"]
      BY <3>1 DEF Grants, Status, ReservationRow
    <3>4. Contract!Freeze(p)
      BY <3>1, <3>2, <3>3 DEF Contract!Freeze, Credited
    <3> QED BY <3>4 DEF Contract!Next
  <2> QED BY <1>2, <2>1, <2>2, <2>3, NextCases
<1> QED
  BY <1>1, <1>2, Invariance, PTL DEF RefinesTokenAccounts, Contract!Spec, Spec

-----------------------------------------------------------------------------
(* Sums over finite sets *)

\* A set of natural numbers has a least one
LEMMA LeastNatural ==
  ASSUME NEW T, T \subseteq Nat, T # {}
  PROVE  \E n \in T : \A m \in T : n <= m
<1> DEFINE less == {p \in Nat \X Nat : p[1] < p[2]}
<1>1. IsWellFoundedOn(less, Nat)
  BY NatLessThanWellFounded DEF OpToRel
<1>2. \A x, y \in Nat : x < y => <<x, y>> \in less
  OBVIOUS
<1> HIDE DEF less
<1>3. \E x \in T : \A y \in T : ~(<<y, x>> \in less)
  BY <1>1, WFMin
<1>4. PICK n \in T : \A m \in T : ~(<<m, n>> \in less)
  BY <1>3
<1>5. ASSUME NEW m \in T PROVE n <= m
  <2>1. n \in Nat /\ m \in Nat
    OBVIOUS
  <2>2. ~(m < n)
    BY <1>2, <1>4, <2>1
  <2> QED
    BY <2>1, <2>2
<1> QED
  BY <1>5

Pick(s) == CHOOSE x \in s : TRUE
Iter(f, S) == CHOOSE h : h = [s \in SUBSET S |-> IF s = {} THEN 0 ELSE f[Pick(s)] + h[s \ {Pick(s)}]]

LEMMA SumIsIter ==
  ASSUME NEW f, NEW S
  PROVE  SumFunctionOnSet(f, S) = Iter(f, S)[S]
  BY DEF SumFunctionOnSet, FoldFunctionOnSet, MapThenFoldSet, Iter, Pick

\* What is chosen of a finite set, and what is left of it
LEMMA PickOf ==
  ASSUME NEW s, IsFiniteSet(s), s # {}
  PROVE  /\ Pick(s) \in s /\ IsFiniteSet(s \ {Pick(s)})
         /\ Cardinality(s) \in Nat /\ Cardinality(s \ {Pick(s)}) = Cardinality(s) - 1
<1>1. Pick(s) \in s
  BY DEF Pick
<1> QED
  BY <1>1, FS_RemoveElement, FS_CardinalityType

\* Of some subsets of a finite set, one is without an element none of them
LEMMA SmallestSet ==
  ASSUME NEW S, IsFiniteSet(S), NEW B, B \subseteq SUBSET S, B # {}
  PROVE  \E s \in B : IsFiniteSet(s) /\ \A x \in s : s \ {x} \notin B
<1> DEFINE sizes == {Cardinality(s) : s \in B}
<1>1. \A s \in B : IsFiniteSet(s) /\ Cardinality(s) \in Nat
  BY FS_Subset, FS_CardinalityType
<1>2. sizes \subseteq Nat /\ sizes # {}
  BY <1>1
<1>3. PICK n \in sizes : \A m \in sizes : n <= m
  BY <1>2, LeastNatural
<1>5. PICK s \in B : Cardinality(s) = n
  OBVIOUS
<1>4. ASSUME NEW x \in s PROVE s \ {x} \notin B
  <2>1. Cardinality(s \ {x}) = n - 1 /\ n \in Nat
    BY <1>1, <1>5, FS_RemoveElement
  <2>2. SUFFICES ASSUME s \ {x} \in B PROVE FALSE
    OBVIOUS
  <2> QED
    BY <1>3, <2>1, <2>2
<1> QED
  BY <1>1, <1>4

\* The recursion over the subsets of a finite set has a solution
LEMMA IterSolves ==
  ASSUME NEW S, IsFiniteSet(S), NEW f, \A x \in S : f[x] \in Int
  PROVE  /\ Iter(f, S) \in [SUBSET S -> Int]
         /\ \A s \in SUBSET S :
              Iter(f, S)[s] = IF s = {} THEN 0 ELSE f[Pick(s)] + Iter(f, S)[s \ {Pick(s)}]
<1> DEFINE Level(n)   == {s \in SUBSET S : Cardinality(s) <= n}
           Sol(h, n)  == \A s \in Level(n) :
                           h[s] = IF s = {} THEN 0 ELSE f[Pick(s)] + h[s \ {Pick(s)}]
           Good(n)    == \E h \in [Level(n) -> Int] : Sol(h, n)
<1>1. \A s \in SUBSET S : IsFiniteSet(s) /\ Cardinality(s) \in Nat /\ Cardinality(s) <= Cardinality(S)
  BY FS_Subset, FS_CardinalityType
<1>2. \A s \in SUBSET S : s # {} =>
        /\ Pick(s) \in S /\ f[Pick(s)] \in Int /\ s \ {Pick(s)} \in SUBSET S
        /\ Cardinality(s \ {Pick(s)}) = Cardinality(s) - 1
  BY <1>1, PickOf
<1>3. Good(0)
  <2>1. \A s \in Level(0) : s = {}
    BY <1>1, FS_EmptySet
  <2> DEFINE h == [s \in Level(0) |-> 0]
  <2>2. h \in [Level(0) -> Int] /\ Sol(h, 0)
    BY <2>1
  <2> QED
    BY <2>2
<1>4. ASSUME NEW n \in Nat, n # 0, Good(n - 1)
      PROVE  Good(n)
  <2>1. PICK g \in [Level(n - 1) -> Int] : Sol(g, n - 1)
    BY <1>4
  <2> DEFINE h == [s \in Level(n) |-> IF s = {} THEN 0 ELSE f[Pick(s)] + g[s \ {Pick(s)}]]
  <2>2. \A s \in Level(n) : s # {} => s \ {Pick(s)} \in Level(n - 1)
    BY <1>1, <1>2
  <2>3. h \in [Level(n) -> Int]
    BY <2>2, <1>2
  <2>4. \A s \in Level(n - 1) : s \in Level(n) /\ h[s] = g[s]
    BY <2>1, <1>1
  <2>5. Sol(h, n)
    BY <2>2, <2>4
  <2> QED
    BY <2>3, <2>5
<1> HIDE DEF Good
<1>5. Good(Cardinality(S))
  <2> DEFINE bad == {n \in Nat : ~Good(n)}
  <2>1. SUFFICES ASSUME bad # {} PROVE FALSE
    BY <1>1
  <2>2. PICK n \in bad : \A m \in bad : n <= m
    BY <2>1, LeastNatural
  <2>3. n # 0 /\ n - 1 \in Nat /\ Good(n - 1)
    BY <1>3, <2>2
  <2> QED
    BY <1>4, <2>2, <2>3
<1>6. Level(Cardinality(S)) = SUBSET S
  BY <1>1
<1>7. PICK h \in [SUBSET S -> Int] : \A s \in SUBSET S :
        h[s] = IF s = {} THEN 0 ELSE f[Pick(s)] + h[s \ {Pick(s)}]
  BY <1>5, <1>6 DEF Good
<1>8. h = [s \in SUBSET S |-> IF s = {} THEN 0 ELSE f[Pick(s)] + h[s \ {Pick(s)}]]
  BY <1>7
<1> DEFINE g == Iter(f, S)
<1>9. g = [s \in SUBSET S |-> IF s = {} THEN 0 ELSE f[Pick(s)] + g[s \ {Pick(s)}]]
  BY <1>8 DEF Iter
<1> HIDE DEF g
<1>10. \A s \in SUBSET S : g[s] = IF s = {} THEN 0 ELSE f[Pick(s)] + g[s \ {Pick(s)}]
  BY <1>9
<1>13. /\ g[{}] = 0
       /\ \A s \in SUBSET S : s # {} /\ g[s \ {Pick(s)}] \in Int => g[s] \in Int
  <2>1. {} \in SUBSET S
    OBVIOUS
  <2>2. g[{}] = 0
    BY <1>10, <2>1
  <2>3. ASSUME NEW s \in SUBSET S, s # {}, g[s \ {Pick(s)}] \in Int PROVE g[s] \in Int
    <3>1. g[s] = f[Pick(s)] + g[s \ {Pick(s)}]
      BY <1>10, <2>3
    <3>2. f[Pick(s)] \in Int
      BY <1>2, <2>3
    <3>3. \A a, b \in Int : a + b \in Int
      OBVIOUS
    <3> QED
      BY <2>3, <3>1, <3>2, <3>3, Zenon
  <2> QED
    BY <2>2, <2>3
<1>11. \A s \in SUBSET S : g[s] \in Int
  <2> DEFINE bad == {s \in SUBSET S : g[s] \notin Int}
  <2>1. SUFFICES ASSUME bad # {} PROVE FALSE
    OBVIOUS
  <2>2. PICK s \in bad : IsFiniteSet(s) /\ \A x \in s : s \ {x} \notin bad
    BY <2>1, SmallestSet
  <2>3. s \in SUBSET S /\ g[s] \notin Int
    OBVIOUS
  <2>4. s # {}
    BY <1>13, <2>3
  <2>5. Pick(s) \in s /\ g[s \ {Pick(s)}] \in Int
    BY <2>2, <2>3, <2>4, PickOf
  <2> QED
    BY <1>13, <2>3, <2>4, <2>5
<1>12. g \in [SUBSET S -> Int]
  BY <1>9, <1>11
<1> QED
  BY <1>10, <1>12 DEF g

\* A sum over the empty set, and over any other by the element that is chosen of it
LEMMA SumByPick ==
  ASSUME NEW S, IsFiniteSet(S), NEW f, \A x \in S : f[x] \in Int
  PROVE  /\ SumFunctionOnSet(f, S) \in Int
         /\ S = {} => SumFunctionOnSet(f, S) = 0
         /\ S # {} => SumFunctionOnSet(f, S) = f[Pick(S)] + SumFunctionOnSet(f, S \ {Pick(S)})
<1> DEFINE g == Iter(f, S)
<1>1. g \in [SUBSET S -> Int]
  BY IterSolves
<1>2. \A s \in SUBSET S : g[s] = IF s = {} THEN 0 ELSE f[Pick(s)] + g[s \ {Pick(s)}]
  BY IterSolves
<1>3. g[S] \in Int /\ g[S] = SumFunctionOnSet(f, S)
  BY <1>1, SumIsIter
<1>4. ASSUME S # {} PROVE g[S \ {Pick(S)}] = SumFunctionOnSet(f, S \ {Pick(S)})
  <2> DEFINE R == S \ {Pick(S)}
             h == Iter(f, R)
  <2>1. IsFiniteSet(R) /\ R \subseteq S
    BY FS_Subset
  <2>2. h \in [SUBSET R -> Int]
    BY <2>1, IterSolves
  <2>3. \A s \in SUBSET R : h[s] = IF s = {} THEN 0 ELSE f[Pick(s)] + h[s \ {Pick(s)}]
    BY <2>1, IterSolves
  <2> HIDE DEF g, h, R
  <2>4. \A s \in SUBSET R : g[s] = h[s]
    <3> DEFINE bad == {s \in SUBSET R : g[s] # h[s]}
    <3>1. SUFFICES ASSUME bad # {} PROVE FALSE
      OBVIOUS
    <3>2. PICK s \in bad : IsFiniteSet(s) /\ \A x \in s : s \ {x} \notin bad
      BY <2>1, <3>1, SmallestSet
    <3>3. s \in SUBSET R /\ s \in SUBSET S /\ g[s] # h[s]
      BY <2>1
    <3>4. s # {}
      BY <1>2, <2>3, <3>3
    <3>5. Pick(s) \in s /\ g[s \ {Pick(s)}] = h[s \ {Pick(s)}]
      BY <3>2, <3>3, <3>4, PickOf
    <3> QED
      BY <1>2, <2>3, <3>3, <3>4, <3>5
  <2>5. g[R] = h[R]
    BY <2>4
  <2> QED
    BY <2>5, SumIsIter DEF h, R
<1> HIDE DEF g
<1> QED
  BY <1>2, <1>3, <1>4

\* A sum is of integers
LEMMA SumType ==
  ASSUME NEW S, IsFiniteSet(S), NEW f, \A x \in S : f[x] \in Int
  PROVE  SumFunctionOnSet(f, S) \in Int
  BY SumByPick

\* Any element can be taken out of a sum first
LEMMA SumWithout ==
  ASSUME NEW S, IsFiniteSet(S), NEW f, \A x \in S : f[x] \in Int, NEW x \in S
  PROVE  SumFunctionOnSet(f, S) = f[x] + SumFunctionOnSet(f, S \ {x})
<1> DEFINE Total(s)    == SumFunctionOnSet(f, s)
           bad         == {s \in SUBSET S : \E y \in s : Total(s) # f[y] + Total(s \ {y})}
<1>1. SUFFICES ASSUME bad # {} PROVE FALSE
  OBVIOUS
<1>2. PICK s \in bad : IsFiniteSet(s) /\ \A y \in s : s \ {y} \notin bad
  BY <1>1, SmallestSet
<1>3. s \in SUBSET S
  OBVIOUS
<1>4. PICK y \in s : Total(s) # f[y] + Total(s \ {y})
  OBVIOUS
<1>5. \A u \in SUBSET S : IsFiniteSet(u) /\ Total(u) \in Int
  BY FS_Subset, SumType
<1> DEFINE d == Pick(s)
<1>6. /\ d \in s /\ f[d] \in Int /\ f[y] \in Int
      /\ Total(s) = f[d] + Total(s \ {d})
  BY <1>2, <1>3, <1>4, PickOf, SumByPick
<1> HIDE DEF d, Total
<1>7. d # y
  BY <1>4, <1>6
<1>8. Total(s \ {d}) = f[y] + Total((s \ {d}) \ {y})
  BY <1>2, <1>3, <1>6, <1>7
<1>9. Total(s \ {y}) = f[d] + Total((s \ {y}) \ {d})
  BY <1>2, <1>3, <1>6, <1>7
<1>10. (s \ {y}) \ {d} = (s \ {d}) \ {y}
  OBVIOUS
<1>11. Total((s \ {d}) \ {y}) \in Int
  BY <1>3, <1>5
<1>12. \A a, b, r \in Int : b + (a + r) = a + (b + r)
  OBVIOUS
<1>13. f[d] + (f[y] + Total((s \ {d}) \ {y})) = f[y] + (f[d] + Total((s \ {d}) \ {y}))
  BY <1>6, <1>11, <1>12, Zenon
<1> QED
  BY <1>4, <1>6, <1>8, <1>9, <1>10, <1>13, Zenon

\* A sum depends on the values of the function on the set only
LEMMA SumSame ==
  ASSUME NEW S, IsFiniteSet(S), NEW f, NEW g, \A x \in S : f[x] \in Int /\ g[x] = f[x]
  PROVE  SumFunctionOnSet(g, S) = SumFunctionOnSet(f, S)
<1> DEFINE bad == {s \in SUBSET S : SumFunctionOnSet(g, s) # SumFunctionOnSet(f, s)}
<1>1. SUFFICES ASSUME bad # {} PROVE FALSE
  OBVIOUS
<1>2. PICK s \in bad : IsFiniteSet(s) /\ \A y \in s : s \ {y} \notin bad
  BY <1>1, SmallestSet
<1>3. s \in SUBSET S /\ SumFunctionOnSet(g, s) # SumFunctionOnSet(f, s)
  OBVIOUS
<1>4. \A x \in s : f[x] \in Int /\ g[x] \in Int
  BY <1>3
<1>5. s # {}
  BY <1>3, <1>4, SumByPick, FS_EmptySet
<1>6. PICK y \in s : TRUE
  BY <1>5
<1>7. SumFunctionOnSet(g, s \ {y}) = SumFunctionOnSet(f, s \ {y})
  BY <1>2, <1>3
<1>8. SumFunctionOnSet(f, s) = f[y] + SumFunctionOnSet(f, s \ {y})
  BY <1>2, <1>4, SumWithout
<1>9. SumFunctionOnSet(g, s) = g[y] + SumFunctionOnSet(g, s \ {y})
  BY <1>2, <1>4, SumWithout
<1>10. g[y] = f[y]
  BY <1>3
<1> QED
  BY <1>3, <1>7, <1>8, <1>9, <1>10

\* A sum of zeros is zero
LEMMA SumZero ==
  ASSUME NEW S, IsFiniteSet(S), NEW f, \A x \in S : f[x] = 0
  PROVE  SumFunctionOnSet(f, S) = 0
<1> DEFINE bad == {s \in SUBSET S : SumFunctionOnSet(f, s) # 0}
<1>1. SUFFICES ASSUME bad # {} PROVE FALSE
  OBVIOUS
<1>2. PICK s \in bad : IsFiniteSet(s) /\ \A y \in s : s \ {y} \notin bad
  BY <1>1, SmallestSet
<1>3. s \in SUBSET S /\ SumFunctionOnSet(f, s) # 0 /\ \A x \in s : f[x] = 0
  OBVIOUS
<1>4. s # {}
  BY <1>3, SumByPick, FS_EmptySet
<1>5. PICK y \in s : TRUE
  BY <1>4
<1>6. SumFunctionOnSet(f, s) = f[y] + SumFunctionOnSet(f, s \ {y})
  BY <1>2, <1>3, SumWithout
<1>7. SumFunctionOnSet(f, s \ {y}) = 0
  BY <1>2, <1>3
<1> QED BY <1>3, <1>6, <1>7

\* One value changes
LEMMA SumChange ==
  ASSUME NEW S, IsFiniteSet(S), NEW f, NEW g, NEW x \in S,
         \A y \in S : f[y] \in Int /\ g[y] \in Int,
         \A y \in S \ {x} : g[y] = f[y]
  PROVE  SumFunctionOnSet(g, S) = (SumFunctionOnSet(f, S) - f[x]) + g[x]
<1>1. IsFiniteSet(S \ {x})
  BY FS_Subset
<1>2. SumFunctionOnSet(g, S \ {x}) = SumFunctionOnSet(f, S \ {x})
  BY <1>1, SumSame
<1>3. SumFunctionOnSet(f, S) = f[x] + SumFunctionOnSet(f, S \ {x})
  BY SumWithout
<1>4. SumFunctionOnSet(g, S) = g[x] + SumFunctionOnSet(g, S \ {x})
  BY SumWithout
<1>5. SumFunctionOnSet(f, S \ {x}) \in Int
  BY <1>1, SumType
<1>6. f[x] \in Int /\ g[x] \in Int
  OBVIOUS
<1> QED
  BY <1>2, <1>3, <1>4, <1>5, <1>6

\* A number is added to one value
LEMMA SumAdded ==
  ASSUME NEW S, IsFiniteSet(S), NEW f \in [S -> Int], NEW g, NEW x \in S, NEW a \in Int,
         g = [f EXCEPT ![x] = @ + a]
  PROVE  SumFunctionOnSet(g, S) = SumFunctionOnSet(f, S) + a
<1> DEFINE R == SumFunctionOnSet(f, S \ {x})
<1>1. g[x] = f[x] + a /\ f[x] \in Int /\ g[x] \in Int
  OBVIOUS
<1>2. \A y \in S : f[y] \in Int /\ g[y] \in Int
  OBVIOUS
<1>3. \A y \in S \ {x} : f[y] \in Int /\ g[y] = f[y]
  OBVIOUS
<1>4. IsFiniteSet(S \ {x}) /\ R \in Int
  BY <1>3, FS_Subset, SumType
<1>5. SumFunctionOnSet(g, S \ {x}) = R
  BY <1>3, <1>4, SumSame
<1>6. SumFunctionOnSet(f, S) = f[x] + R
  BY <1>2, SumWithout
<1>7. SumFunctionOnSet(g, S) = g[x] + R
  BY <1>2, <1>5, SumWithout
<1> HIDE DEF R
<1>8. g[x] + R = (f[x] + R) + a
  BY <1>1, <1>4
<1> QED BY <1>6, <1>7, <1>8

\* One element is added
LEMMA SumWith ==
  ASSUME NEW S, IsFiniteSet(S), NEW f, NEW x, x \notin S,
         \A y \in S \cup {x} : f[y] \in Int
  PROVE  SumFunctionOnSet(f, S \cup {x}) = SumFunctionOnSet(f, S) + f[x]
<1> DEFINE R == S \cup {x}
<1>1. IsFiniteSet(R) /\ x \in R /\ R \ {x} = S
  BY FS_AddElement
<1>2. SumFunctionOnSet(f, R) = f[x] + SumFunctionOnSet(f, S)
  <2>1. \A y \in R : f[y] \in Int
    OBVIOUS
  <2> HIDE DEF R
  <2> QED
    BY <1>1, <2>1, SumWithout
<1>3. f[x] \in Int /\ SumFunctionOnSet(f, S) \in Int
  BY SumType
<1> QED
  BY <1>2, <1>3


-----------------------------------------------------------------------------
(* What is held and what there is *)

\* The entries of a call on a reservation move units between the two balances of
\* its wallet and the platform, by what they change of the reservation's row
LEMMA RowEntries ==
  ASSUME TypeOK, Reservations, NEW c \in Calls, c \notin TopUps,
         SettleReady(c), ReleaseReady(c),
         c \in Reserves => reservation[c.operation].state = "none"
  PROVE  LET r == reservation[c.operation]
             n == ReservationAfter(c)
             e == Entries(c)
         IN /\ Remaining(r) \in Int /\ Remaining(n) \in Int /\ r.settled \in Int /\ n.settled \in Int
            /\ e.held = Remaining(n) - Remaining(r)
            /\ e.revenue = n.settled - r.settled
            /\ e.available + e.held + e.revenue = 0 /\ e.clearing = 0
<1> DEFINE r == reservation[c.operation]
           n == ReservationAfter(c)
           e == Entries(c)
<1>1. r \in ReservationRow /\ (r.state = "none" => r = NoReservation)
  BY Kinds DEF TypeOK, ReservationRow, Reservations
<1>2. CASE c \in Reserves
  <2>1. c.kind = "reserve" /\ c.units \in Nat /\ r = NoReservation
    BY <1>1, <1>2 DEF Reserves, Units
  <2>2. n = [state |-> "active", authorized |-> c.units, settled |-> 0, returned |-> 0]
    BY <2>1 DEF ReservationAfter
  <2>3. e = [available |-> -c.units, held |-> c.units, clearing |-> 0, revenue |-> 0]
    BY <2>1 DEF Entries, Entry
  <2> HIDE DEF n, r, e
  <2> QED BY <2>1, <2>2, <2>3 DEF NoReservation, Remaining, n, r, e
<1>3. CASE c \in Settles
  <2>1. c.kind = "settle" /\ c.charge \in Nat
    BY <1>3 DEF Settles, Units
  <2>2. n = [r EXCEPT !.settled = c.charge, !.state = SettledState(r, c.charge)]
    BY <2>1 DEF ReservationAfter
  <2>3. e = [available |-> 0, held |-> r.settled - c.charge, clearing |-> 0,
             revenue |-> c.charge - r.settled]
    BY <2>1 DEF Entries, Entry, SettleEntry
  <2> HIDE DEF n, r, e
  <2>4. /\ n.settled = c.charge /\ n.returned = r.returned /\ n.authorized = r.authorized
        /\ r.settled \in Nat /\ r.returned \in Nat /\ r.authorized \in Nat
    BY <1>1, <2>2 DEF ReservationRow
  <2> QED BY <2>1, <2>3, <2>4 DEF Remaining, n, r, e
<1>4. CASE c \in Releases
  <2>1. c.kind = "release"
    BY <1>4 DEF Releases
  <2>2. n = [r EXCEPT !.returned = @ + Remaining(r),
                      !.state = IF r.settled > 0 THEN "settled" ELSE "released"]
    BY <2>1 DEF ReservationAfter
  <2>3. e = [available |-> Remaining(r), held |-> -Remaining(r), clearing |-> 0, revenue |-> 0]
    BY <2>1 DEF Entries, Entry, ReleaseEntry
  <2> HIDE DEF n, r, e
  <2>4. /\ n.settled = r.settled /\ n.authorized = r.authorized
        /\ n.returned = r.returned + (r.authorized - r.settled - r.returned)
        /\ r.settled \in Nat /\ r.returned \in Nat /\ r.authorized \in Nat
    BY <1>1, <2>2 DEF ReservationRow, Remaining
  <2> QED BY <2>1, <2>3, <2>4 DEF Remaining, n, r, e
<1> QED BY <1>2, <1>3, <1>4 DEF Calls

\* A commit of a top-up
LEMMA CommitTopUp ==
  ASSUME WalletInv, NEW t \in Txns, Commit(t), call[t] \in TopUps
  PROVE  LET o == call[t].order
             w == OrderWallet[o]
         IN /\ o \in Orders /\ o \notin Credited /\ Credited' = Credited \cup {o}
            /\ w \in Wallets
            /\ available' = [available EXCEPT ![w] = @ + TokenUnits[o]]
            /\ held' = held /\ reservation' = reservation
            /\ clearing' = clearing - TokenUnits[o] /\ revenue' = revenue
<1> DEFINE c == call[t]
           o == call[t].order
           w == OrderWallet[o]
<1>1. /\ c \in Calls /\ c.kind = "topup" /\ o \in Orders /\ w \in Wallets /\ WalletOf(c) = w
      /\ Key(c) = <<"topup", o>> /\ TokenUnits[o] \in Int
      /\ Entries(c) = [available |-> TokenUnits[o], held |-> 0,
                       clearing |-> -TokenUnits[o], revenue |-> 0]
  BY WalletConstants DEF TopUps, Calls, WalletOf, Key, Entries, Entry
<1>2. Key(c) \notin journals /\ AddJournal(c, w, Entries(c)) /\ ApplyDelta(w, Entries(c))
      /\ reservation' = reservation
  BY <1>1, CommitCall DEF WalletInv, Sessions, InFlight, Commit, TopUpReady
<1> HIDE DEF c, o, w
<1>3. /\ available' = [available EXCEPT ![w] = @ + TokenUnits[o]]
      /\ held' = [held EXCEPT ![w] = @ + 0]
      /\ clearing' = clearing + (-TokenUnits[o]) /\ revenue' = revenue + 0
      /\ journals' = journals \cup {<<"topup", o>>}
  BY <1>1, <1>2 DEF AddJournal, ApplyDelta
<1>4. held' = held /\ clearing' = clearing - TokenUnits[o] /\ revenue' = revenue
  BY <1>1, <1>3 DEF WalletInv, TypeOK
<1>5. o \notin Credited /\ Credited' = Credited \cup {o}
  BY <1>1, <1>2, <1>3 DEF Credited
<1> QED BY <1>1, <1>2, <1>3, <1>4, <1>5 DEF c, o, w

\* A commit of a call on a reservation
LEMMA CommitReservation ==
  ASSUME WalletInv, NEW t \in Txns, Commit(t), call[t] \notin TopUps
  PROVE  LET p == call[t].operation
             w == OperationWallet[p]
             n == reservation'[p]
             r == reservation[p]
             e == Entries(call[t])
         IN /\ p \in Operations /\ w \in Wallets /\ Credited' = Credited
            /\ available' = [available EXCEPT ![w] = @ + e.available]
            /\ held' = [held EXCEPT ![w] = @ + e.held]
            /\ \A q \in Operations \ {p} : reservation'[q] = reservation[q]
            /\ clearing' = clearing /\ revenue' = revenue + e.revenue
            /\ e \in [available : Int, held : Int, clearing : Int, revenue : Int]
            /\ Remaining(r) \in Int /\ Remaining(n) \in Int /\ r.settled \in Int /\ n.settled \in Int
            /\ e.held = Remaining(n) - Remaining(r)
            /\ e.revenue = n.settled - r.settled
            /\ e.available + e.held + e.revenue = 0
<1> DEFINE c == call[t]
           p == c.operation
           w == OperationWallet[p]
           e == Entries(c)
<1>1. /\ c \in Calls /\ e \in [available : Int, held : Int, clearing : Int, revenue : Int]
      /\ SettleReady(c) /\ ReleaseReady(c)
      /\ c \in Reserves => reservation[p].state = "none"
  BY CommitCall DEF WalletInv, Sessions, InFlight, Commit, CommitReady
<1>2. p \in Operations /\ w \in Wallets /\ WalletOf(c) = w /\ c.kind # "topup"
  BY <1>1, Kinds, WalletConstants DEF WalletOf
<1>3. /\ AddJournal(c, w, e) /\ ApplyDelta(w, e)
      /\ reservation' = [reservation EXCEPT ![p] = ReservationAfter(c)]
  BY <1>2, CommitCall DEF Commit
<1>4. /\ reservation'[p] = ReservationAfter(c)
      /\ \A q \in Operations \ {p} : reservation'[q] = reservation[q]
  BY <1>2, <1>3 DEF WalletInv, TypeOK
<1>5. /\ Remaining(reservation[p]) \in Int /\ Remaining(reservation'[p]) \in Int
      /\ reservation[p].settled \in Int /\ reservation'[p].settled \in Int
      /\ e.held = Remaining(reservation'[p]) - Remaining(reservation[p])
      /\ e.revenue = reservation'[p].settled - reservation[p].settled
      /\ e.available + e.held + e.revenue = 0 /\ e.clearing = 0
  BY <1>1, <1>4, RowEntries DEF WalletInv
<1>6. Credited' = Credited
  BY <1>1, <1>3, KeyTopUp DEF AddJournal, Credited
<1> HIDE DEF c, p, w, e
<1>7. clearing' = clearing
  BY <1>3, <1>5 DEF AddJournal, WalletInv, TypeOK
<1>8. /\ available' = [available EXCEPT ![w] = @ + e.available]
      /\ held' = [held EXCEPT ![w] = @ + e.held] /\ revenue' = revenue + e.revenue
  BY <1>3 DEF AddJournal, ApplyDelta
<1> QED BY <1>1, <1>2, <1>4, <1>5, <1>6, <1>7, <1>8 DEF c, p, w, e

\* What is left of the reservations, and which are of a wallet
Left        == [p \in Operations |-> Remaining(reservation[p])]
Spent       == [p \in Operations |-> reservation[p].settled]
OfWallet(w) == {p \in Operations : OperationWallet[p] = w}

LEMMA LeftType ==
  ASSUME TypeOK
  PROVE  /\ \A p \in Operations : Left[p] \in Int /\ Spent[p] \in Int
         /\ \A w \in Wallets : available[w] \in Int /\ held[w] \in Int
         /\ \A o \in Orders : TokenUnits[o] \in Int
         /\ \A w : IsFiniteSet(OfWallet(w)) /\ OfWallet(w) \subseteq Operations
         /\ IsFiniteSet(Credited) /\ Credited \subseteq Orders
<1>1. \A p \in Operations : Left[p] \in Int /\ Spent[p] \in Int
  BY DEF TypeOK, Left, Spent, Remaining
<1>2. \A w : OfWallet(w) \subseteq Operations
  BY DEF OfWallet
<1>3. Credited \subseteq Orders
  BY DEF Credited
<1> QED BY <1>1, <1>2, <1>3, RowsFinite, FS_Subset, WalletConstants DEF TypeOK

HeldBacks == \A w \in Wallets : held[w] = SumFunctionOnSet(Left, OfWallet(w))

LEMMA HeldStep ==
  ASSUME WalletInv, TypeOK', HeldBacks, [Next]_vars PROVE HeldBacks'
<1> USE LeftType DEF WalletInv
<1>1. ASSUME held' = held, \A p \in Operations : Left'[p] = Left[p] PROVE HeldBacks'
  <2> SUFFICES ASSUME NEW w \in Wallets
               PROVE  held'[w] = SumFunctionOnSet(Left', OfWallet(w))
    BY DEF HeldBacks, OfWallet
  <2>1. SumFunctionOnSet(Left', OfWallet(w)) = SumFunctionOnSet(Left, OfWallet(w))
    BY <1>1, SumSame
  <2> QED BY <1>1, <2>1 DEF HeldBacks
<1>2. CASE Quiet
  BY <1>1, <1>2 DEF Quiet, balances, Left
<1>3. ASSUME NEW p \in Operations, MarkReconciliation(p) PROVE HeldBacks'
  <2>1. \A q \in Operations : Left'[q] = Left[q]
    BY <1>3 DEF MarkReconciliation, TypeOK, Left, Remaining
  <2> QED BY <1>1, <1>3, <2>1 DEF MarkReconciliation, balances
<1>4. ASSUME NEW t \in Txns, Commit(t), call[t] \in TopUps PROVE HeldBacks'
  BY <1>1, <1>4, CommitTopUp DEF Left
<1>5. ASSUME NEW t \in Txns, Commit(t), call[t] \notin TopUps PROVE HeldBacks'
  <2> DEFINE p == call[t].operation
             v == OperationWallet[p]
             e == Entries(call[t])
  <2>1. /\ p \in Operations /\ v \in Wallets /\ e.held \in Int
        /\ held' = [held EXCEPT ![v] = @ + e.held]
        /\ \A q \in Operations \ {p} : reservation'[q] = reservation[q]
        /\ e.held = Remaining(reservation'[p]) - Remaining(reservation[p])
    BY <1>5, CommitReservation
  <2> HIDE DEF p, v, e
  <2>2. e.held = Left'[p] - Left[p] /\ \A q \in Operations \ {p} : Left'[q] = Left[q]
    BY <2>1 DEF Left
  <2>3. \A q \in Operations : Left[q] \in Int /\ Left'[q] \in Int
    BY <2>2 DEF TypeOK, Left, Remaining
  <2> SUFFICES ASSUME NEW w \in Wallets
               PROVE  held'[w] = SumFunctionOnSet(Left', OfWallet(w))
    BY DEF HeldBacks, OfWallet
  <2>4. held[w] = SumFunctionOnSet(Left, OfWallet(w)) /\ held[w] \in Int
    BY DEF HeldBacks, TypeOK
  <2>5. CASE w = v
    <3>1. p \in OfWallet(w)
      BY <2>1, <2>5 DEF OfWallet, v
    <3>2. SumFunctionOnSet(Left', OfWallet(w)) =
            (SumFunctionOnSet(Left, OfWallet(w)) - Left[p]) + Left'[p]
      BY <2>2, <2>3, <3>1, SumChange
    <3>3. held'[w] = held[w] + e.held
      BY <2>1, <2>5 DEF TypeOK
    <3> QED BY <2>1, <2>2, <2>3, <2>4, <3>2, <3>3
  <2>6. CASE w # v
    <3>1. p \notin OfWallet(w)
      BY <2>6 DEF OfWallet, v
    <3>2. SumFunctionOnSet(Left', OfWallet(w)) = SumFunctionOnSet(Left, OfWallet(w))
      BY <2>2, <3>1, SumSame
    <3> QED BY <2>1, <2>4, <2>6, <3>2 DEF TypeOK
  <2> QED BY <2>5, <2>6
<1> QED BY <1>2, <1>3, <1>4, <1>5, NextCases

\* The three sums of TokensConserved
Bought    == SumFunctionOnSet(TokenUnits, Credited)
Conserved ==
  /\ SumFunctionOnSet(available, Wallets) + SumFunctionOnSet(held, Wallets) + revenue = Bought
  /\ clearing + Bought = 0
  /\ revenue = SumFunctionOnSet(Spent, Operations)

LEMMA ConservedStep ==
  ASSUME WalletInv, TypeOK', Conserved, [Next]_vars PROVE Conserved'
<1> DEFINE A == SumFunctionOnSet(available, Wallets)
           H == SumFunctionOnSet(held, Wallets)
           B == SumFunctionOnSet(TokenUnits, Credited)
           S == SumFunctionOnSet(Spent, Operations)
<1>1. A \in Int /\ H \in Int /\ B \in Int /\ S \in Int /\ revenue \in Int /\ clearing \in Int
  BY LeftType, RowsFinite, SumType DEF WalletInv, TypeOK
<1>2. A + H + revenue = B /\ clearing + B = 0 /\ revenue = S
  BY DEF Conserved, Bought
<1>3. ASSUME NEW v \in Wallets, NEW a \in Int, available' = [available EXCEPT ![v] = @ + a]
      PROVE  SumFunctionOnSet(available', Wallets) = A + a
  <2>1. available \in [Wallets -> Int]
    BY DEF WalletInv, TypeOK
  <2>2. IsFiniteSet(Wallets)
    BY RowsFinite
  <2>3. SumFunctionOnSet(available', Wallets) = SumFunctionOnSet(available, Wallets) + a
    <3> HIDE DEF A, H, B, S
    <3> QED BY <1>3, <2>1, <2>2, SumAdded
  <2> QED BY <2>3
<1>4. ASSUME NEW v \in Wallets, NEW h \in Int, held' = [held EXCEPT ![v] = @ + h]
      PROVE  SumFunctionOnSet(held', Wallets) = H + h
  <2>1. held \in [Wallets -> Int]
    BY DEF WalletInv, TypeOK
  <2>2. IsFiniteSet(Wallets)
    BY RowsFinite
  <2>3. SumFunctionOnSet(held', Wallets) = SumFunctionOnSet(held, Wallets) + h
    <3> HIDE DEF A, H, B, S
    <3> QED BY <1>4, <2>1, <2>2, SumAdded
  <2> QED BY <2>3
<1>5. ASSUME \A p \in Operations : Spent'[p] = Spent[p]
      PROVE  SumFunctionOnSet(Spent', Operations) = S
  BY <1>5, LeftType, RowsFinite, SumSame DEF WalletInv
<1> HIDE DEF A, H, B, S
<1>6. ASSUME UNCHANGED <<available, held, revenue, clearing>>, Credited' = Credited,
             \A p \in Operations : Spent'[p] = Spent[p]
      PROVE  Conserved'
  BY <1>2, <1>5, <1>6 DEF Conserved, Bought, A, H, B, S
<1>7. CASE Quiet
  BY <1>6, <1>7 DEF Quiet, balances, books, Spent, Credited
<1>8. ASSUME NEW p \in Operations, MarkReconciliation(p) PROVE Conserved'
  <2>1. \A q \in Operations : Spent'[q] = Spent[q]
    BY <1>8 DEF MarkReconciliation, WalletInv, TypeOK, Spent
  <2> QED BY <1>6, <1>8, <2>1 DEF MarkReconciliation, balances, books, Credited
<1>9. ASSUME NEW t \in Txns, Commit(t), call[t] \in TopUps PROVE Conserved'
  <2> DEFINE o == call[t].order
             v == OrderWallet[o]
             n == TokenUnits[o]
  <2>1. /\ o \in Orders /\ o \notin Credited /\ Credited' = Credited \cup {o} /\ v \in Wallets
        /\ available' = [available EXCEPT ![v] = @ + n]
        /\ held' = held /\ reservation' = reservation
        /\ clearing' = clearing - n /\ revenue' = revenue
    BY <1>9, CommitTopUp
  <2>2. n \in Int
    BY <2>1, LeftType DEF WalletInv
  <2>3. SumFunctionOnSet(TokenUnits, Credited \cup {o}) = B + n
    BY <2>1, LeftType, SumWith DEF WalletInv, B
  <2> HIDE DEF o, v, n
  <2>4. SumFunctionOnSet(available', Wallets) = A + n
    BY <1>3, <2>1, <2>2
  <2>5. SumFunctionOnSet(Spent', Operations) = S
    BY <1>5, <2>1 DEF Spent
  <2>6. /\ (A + n) + H + revenue' = B + n
        /\ clearing' + (B + n) = 0 /\ revenue' = S
    BY <1>1, <1>2, <2>1, <2>2
  <2> QED BY <2>1, <2>3, <2>4, <2>5, <2>6 DEF Conserved, Bought, H
<1>10. ASSUME NEW t \in Txns, Commit(t), call[t] \notin TopUps PROVE Conserved'
  <2> DEFINE p == call[t].operation
             v == OperationWallet[p]
             e == Entries(call[t])
  <2>1. /\ p \in Operations /\ v \in Wallets /\ Credited' = Credited
        /\ available' = [available EXCEPT ![v] = @ + e.available]
        /\ held' = [held EXCEPT ![v] = @ + e.held]
        /\ \A q \in Operations \ {p} : reservation'[q] = reservation[q]
        /\ clearing' = clearing /\ revenue' = revenue + e.revenue
        /\ e \in [available : Int, held : Int, clearing : Int, revenue : Int]
        /\ reservation[p].settled \in Int /\ reservation'[p].settled \in Int
        /\ e.revenue = reservation'[p].settled - reservation[p].settled
        /\ e.available + e.held + e.revenue = 0
    BY <1>10, CommitReservation
  <2> HIDE DEF p, v, e
  <2>2. e.available \in Int /\ e.held \in Int /\ e.revenue \in Int
    BY <2>1
  <2>3. SumFunctionOnSet(available', Wallets) = A + e.available
    BY <1>3, <2>1, <2>2
  <2>4. SumFunctionOnSet(held', Wallets) = H + e.held
    BY <1>4, <2>1, <2>2
  <2>5. /\ \A q \in Operations : Spent[q] \in Int /\ Spent'[q] \in Int
        /\ \A q \in Operations \ {p} : Spent'[q] = Spent[q]
        /\ Spent'[p] = Spent[p] + e.revenue
    BY <2>1 DEF Spent, WalletInv, TypeOK
  <2>6. SumFunctionOnSet(Spent', Operations) = (S - Spent[p]) + Spent'[p]
    BY <2>1, <2>5, RowsFinite, SumChange DEF S
  <2>7. SumFunctionOnSet(Spent', Operations) = S + e.revenue
    BY <1>1, <2>1, <2>2, <2>5, <2>6
  <2>8. /\ (A + e.available) + (H + e.held) + (revenue + e.revenue) = B
        /\ revenue + e.revenue = S + e.revenue
    BY <1>1, <1>2, <2>1, <2>2
  <2> QED BY <1>2, <2>1, <2>3, <2>4, <2>7, <2>8 DEF Conserved, Bought, B
<1> QED BY <1>7, <1>8, <1>9, <1>10, NextCases

\* The held balance of a wallet is what its open reservations still reserve, for
\* any number of wallets, reservations and sessions (wallet.py).
THEOREM HeldIsReserved ==
  ASSUME OneReservationPerInvocation PROVE Spec => []HeldBacksReservations
<1>1. Init => HeldBacks
  <2> SUFFICES ASSUME Init, NEW w \in Wallets PROVE held[w] = SumFunctionOnSet(Left, OfWallet(w))
    BY DEF HeldBacks
  <2>1. TypeOK /\ \A p \in Operations : Left[p] = 0
    BY InitInv DEF Init, Left, NoReservation, Remaining, WalletInv
  <2> QED BY <2>1, LeftType, SumZero DEF Init
<1>2. WalletInv /\ WalletInv' /\ HeldBacks /\ [Next]_vars => HeldBacks'
  BY HeldStep DEF WalletInv
<1>3. HeldBacks => HeldBacksReservations
  BY DEF HeldBacks, HeldBacksReservations, Left, OfWallet
<1> QED BY <1>1, <1>2, <1>3, Invariance, PTL DEF Spec

\* Tokens are neither made nor lost: what users have and what was settled is what
\* the credited orders bought, whatever races and fails (ledger.py).
THEOREM TokensStay ==
  ASSUME OneReservationPerInvocation PROVE Spec => []TokensConserved
<1>1. Init => Conserved
  <2> SUFFICES ASSUME Init PROVE Conserved
    OBVIOUS
  <2>1. TypeOK /\ \A p \in Operations : Spent[p] = 0
    BY InitInv DEF Init, Spent, NoReservation, WalletInv
  <2>2. SumFunctionOnSet(Spent, Operations) = 0
    BY <2>1, RowsFinite, SumZero
  <2>3. SumFunctionOnSet(available, Wallets) = 0 /\ SumFunctionOnSet(held, Wallets) = 0
    BY RowsFinite, SumZero DEF Init
  <2>4. Credited = {} /\ Bought = 0
    BY SumByPick, FS_EmptySet DEF Init, Credited, Bought
  <2>5. revenue = 0 /\ clearing = 0
    BY DEF Init
  <2>6. 0 + 0 + 0 = 0 /\ 0 + 0 = 0
    OBVIOUS
  <2> QED BY <2>2, <2>3, <2>4, <2>5, <2>6, Zenon DEF Conserved
<1>2. WalletInv /\ WalletInv' /\ Conserved /\ [Next]_vars => Conserved'
  BY ConservedStep DEF WalletInv
<1>3. WalletInv /\ Conserved => TokensConserved
  <2> SUFFICES ASSUME WalletInv, Conserved PROVE TokensConserved
    OBVIOUS
  <2>1. Bought \in Int /\ clearing \in Int
    BY LeftType, SumType DEF WalletInv, Bought, TypeOK
  <2>2. clearing = -Bought
    BY <2>1 DEF Conserved
  <2> QED BY <2>2 DEF Conserved, TokensConserved, Bought, Credited, Spent
<1> QED BY <1>1, <1>2, <1>3, Invariance, PTL DEF Spec

-----------------------------------------------------------------------------
(* The choice of a plan, in an execution of its own *)

Chosen == [plan : Plans!Plans, revision : Nat]

\* Who changes the plan knows what to, and holds the lock of the row that he saw,
\* or saw none
Choosing ==
  /\ DOMAIN change = Txns
  /\ \A q \in Txns : change[q].step = "changing" =>
       /\ change[q].to \in Chosen
       /\ change[q].saw \in Chosen \cup {Plans!NoPlan}
       /\ change[q].saw # Plans!NoPlan =>
            /\ change[q].saw = selection
            /\ \A r \in Txns \ {q} :
                 change[r].step = "changing" => change[r].saw = Plans!NoPlan

Logged ==
  /\ policy \in [Plans!Plans -> Nat]
  /\ events \in Seq([old : Plans!Plans \cup {"none"}, new : Chosen])

PlanInv == Choosing /\ Logged /\ ChangesChain

\* NoPlan is none that can be chosen
LEMMA NotChosen == Plans!NoPlan \notin Chosen
  BY DEF Chosen, Plans!NoPlan, Plans!Plans

\* A request that begins something else than a change, or ends
LEMMA PlanElse ==
  ASSUME PlanInv, NEW q \in Txns, NEW row, row.step # "changing",
         change' = [change EXCEPT ![q] = row],
         UNCHANGED <<policy, selection, events, snapshots>>
  PROVE  PlanInv'
<1>1. Choosing'
  BY DEF PlanInv, Choosing
<1> QED BY <1>1 DEF PlanInv, Logged, ChangesChain, Plans!ChangesChain

LEMMA PlanChoice ==
  ASSUME PlanInv, NEW q \in Txns, NEW p \in Plans!Plans, Plans!Choose(q, p)
  PROVE  PlanInv'
<1> DEFINE row == [Plans!Idle EXCEPT !.step = "changing", !.saw = selection,
                                     !.to = [plan |-> p, revision |-> policy[p]]]
<1>1. /\ row.step = "changing" /\ row.saw = selection
      /\ row.to = [plan |-> p, revision |-> policy[p]]
  BY DEF Plans!Idle
<1> HIDE DEF row
<1>2. change' = [change EXCEPT ![q] = row] /\ UNCHANGED <<policy, selection, events, snapshots>>
  BY DEF Plans!Choose, row
<1>3. row.to \in Chosen
  BY <1>1 DEF PlanInv, Logged, Chosen
<1>4. selection \in Chosen \cup {Plans!NoPlan}
  <2>1. selection = IF events = <<>> THEN Plans!NoPlan ELSE events[Len(events)].new
    BY DEF PlanInv, ChangesChain, Plans!ChangesChain
  <2>2. events \in Seq([old : Plans!Plans \cup {"none"}, new : Chosen])
    BY DEF PlanInv, Logged
  <2>3. ASSUME events # <<>>
        PROVE  events[Len(events)].new \in Chosen
    <3> DEFINE Events == [old : Plans!Plans \cup {"none"}, new : Chosen]
    <3>1. \A e \in Events : e.new \in Chosen
      OBVIOUS
    <3>2. events \in Seq(Events)
      BY <2>2
    <3> HIDE DEF Events
    <3>3. events[Len(events)] \in Events
      BY <2>3, <3>2
    <3> QED BY <3>1, <3>3
  <2> QED BY <2>1, <2>3
<1>5. selection # Plans!NoPlan =>
        \A r \in Txns : ~(change[r].step = "changing" /\ change[r].saw # Plans!NoPlan)
  BY DEF Plans!Choose, Plans!SelectionFree
<1>6. Choosing'
  BY <1>1, <1>2, <1>3, <1>4, <1>5 DEF PlanInv, Choosing
<1> QED BY <1>2, <1>6 DEF PlanInv, Logged, ChangesChain, Plans!ChangesChain

LEMMA PlanChange ==
  ASSUME PlanInv, NEW q \in Txns, Plans!Change(q) PROVE PlanInv'
<1> DEFINE saw == change[q].saw
           to  == change[q].to
           e   == [old |-> saw.plan, new |-> to]
<1>1. /\ change[q].step = "changing" /\ UNCHANGED <<policy, snapshots>>
      /\ change' = [change EXCEPT ![q] = Plans!Idle]
  BY DEF Plans!Change, Plans!Finish
<1>2. Plans!Idle.step # "changing"
  BY DEF Plans!Idle
<1>3. CASE UNCHANGED <<selection, events>>
  BY <1>1, <1>2, <1>3, PlanElse
<1>4. CASE ~(saw = Plans!NoPlan /\ selection # Plans!NoPlan)
  <2>1. selection' = to /\ events' = Append(events, e) /\ selection = saw
    BY <1>1, <1>4 DEF Plans!Change, PlanInv, Choosing
  <2>2. to \in Chosen /\ saw \in Chosen \cup {Plans!NoPlan}
    BY <1>1 DEF PlanInv, Choosing
  <2>3. ASSUME NEW r \in Txns, r # q, change[r].step = "changing"
        PROVE  change[r].saw = Plans!NoPlan
    BY <1>1, <2>1, <2>3 DEF PlanInv, Choosing
  <2> HIDE DEF saw, to
  <2>4. Choosing'
    BY <1>1, <1>2, <2>3 DEF PlanInv, Choosing
  <2>5. e \in [old : Plans!Plans \cup {"none"}, new : Chosen]
    BY <2>2 DEF Chosen, Plans!NoPlan
  <2>6. events \in Seq([old : Plans!Plans \cup {"none"}, new : Chosen])
    BY DEF PlanInv, Logged
  <2>7. Logged'
    BY <1>1, <2>1, <2>5, <2>6 DEF PlanInv, Logged
  <2>8. /\ Len(events) \in Nat /\ Len(events') = Len(events) + 1
        /\ DOMAIN events = 1..Len(events) /\ DOMAIN events' = 1..(Len(events) + 1)
        /\ \A i \in 1..Len(events) : events'[i] = events[i]
        /\ events'[Len(events) + 1] = e
    BY <2>1, <2>5, <2>6
  <2>9. e.new = to /\ e.old = saw.plan
    OBVIOUS
  <2> HIDE DEF e
  <2>10. e.old = IF Len(events) + 1 = 1 THEN "none" ELSE events[Len(events)].new.plan
    <3>1. selection = IF events = <<>> THEN Plans!NoPlan ELSE events[Len(events)].new
      BY DEF PlanInv, ChangesChain, Plans!ChangesChain
    <3>2. events = <<>> <=> Len(events) + 1 = 1
      BY <2>6, <2>8
    <3>3. Plans!NoPlan.plan = "none"
      BY DEF Plans!NoPlan
    <3> QED BY <2>1, <2>9, <3>1, <3>2, <3>3
  <2>11. ChangesChain'
    <3>1. \A i \in DOMAIN events' :
            events'[i].old = IF i = 1 THEN "none" ELSE events'[i - 1].new.plan
      <4> SUFFICES ASSUME NEW i \in DOMAIN events'
                   PROVE  events'[i].old = IF i = 1 THEN "none" ELSE events'[i - 1].new.plan
        OBVIOUS
      <4>1. CASE i = Len(events) + 1
        BY <2>8, <2>10, <4>1
      <4>2. CASE i \in DOMAIN events
        BY <2>8, <4>2 DEF PlanInv, ChangesChain, Plans!ChangesChain
      <4> QED BY <2>8, <4>1, <4>2
    <3>2. selection' = IF events' = <<>> THEN Plans!NoPlan ELSE events'[Len(events')].new
      BY <2>1, <2>8, <2>9
    <3>3. \A s \in snapshots' : \E i \in DOMAIN events' : events'[i].new = s
      BY <1>1, <2>8 DEF PlanInv, ChangesChain, Plans!ChangesChain
    <3> QED BY <3>1, <3>2, <3>3 DEF ChangesChain, Plans!ChangesChain
  <2> QED BY <2>4, <2>7, <2>11 DEF PlanInv
<1> QED BY <1>3, <1>4 DEF Plans!Change

LEMMA PlanStep == ASSUME PlanInv, Plans!Next PROVE PlanInv'
<1>1. ASSUME UNCHANGED <<selection, events, snapshots, change>>, policy' \in [Plans!Plans -> Nat]
      PROVE  PlanInv'
  BY <1>1 DEF PlanInv, Choosing, Logged, ChangesChain, Plans!ChangesChain
<1>2. ASSUME NEW p \in Plans!Plans, Plans!Publish(p) PROVE PlanInv'
  BY <1>1, <1>2 DEF Plans!Publish, PlanInv, Logged
<1>3. ASSUME NEW p \in Plans!Plans, NEW q \in Txns, Plans!Choose(q, p) PROVE PlanInv'
  BY <1>3, PlanChoice
<1>4. ASSUME NEW k \in Keys, NEW q \in Txns,
             Plans!ReadSelections(q, k) \/ \E c \in Plans!Capabilities : Plans!ReadKey(q, k, c)
      PROVE  PlanInv'
  <2>1. CASE Plans!ReadSelections(q, k)
    <3> DEFINE row == [Plans!Idle EXCEPT !.step = "revoking", !.on = {k},
                                   !.about = {c \in Plans!Capabilities : k \in models[c]}]
    <3>1. row.step = "revoking"
      BY DEF Plans!Idle
    <3>2. change' = [change EXCEPT ![q] = row] /\ UNCHANGED <<policy, selection, events, snapshots>>
      BY <2>1 DEF Plans!ReadSelections
    <3> HIDE DEF row
    <3> QED BY <3>1, <3>2, PlanElse
  <2>2. ASSUME NEW c \in Plans!Capabilities, Plans!ReadKey(q, k, c) PROVE PlanInv'
    <3> DEFINE row == [Plans!Idle EXCEPT !.step = "selecting", !.on = {k}, !.about = {c}]
    <3>1. row.step = "selecting"
      BY DEF Plans!Idle
    <3>2. change' = [change EXCEPT ![q] = row] /\ UNCHANGED <<policy, selection, events, snapshots>>
      BY <2>2 DEF Plans!ReadKey
    <3> HIDE DEF row
    <3> QED BY <3>1, <3>2, PlanElse
  <2> QED BY <1>4, <2>1, <2>2
<1>5. ASSUME NEW q \in Txns, Plans!Change(q) PROVE PlanInv'
  BY <1>5, PlanChange
<1>6. ASSUME NEW q \in Txns, Plans!Revoke(q) \/ Plans!SelectModel(q) \/ Plans!Fail(q)
      PROVE  PlanInv'
  <2>1. Plans!Idle.step # "changing"
    BY DEF Plans!Idle
  <2>2. /\ change' = [change EXCEPT ![q] = Plans!Idle]
        /\ UNCHANGED <<policy, selection, events, snapshots>>
    BY <1>6 DEF Plans!Revoke, Plans!SelectModel, Plans!Fail, Plans!Finish
  <2> QED BY <2>1, <2>2, PlanElse
<1>7. CASE Plans!BuildSnapshot
  <2>1. /\ selection # Plans!NoPlan /\ snapshots' = snapshots \cup {selection}
        /\ UNCHANGED <<policy, selection, events, change>>
    BY <1>7 DEF Plans!BuildSnapshot
  <2>2. \E i \in DOMAIN events : events[i].new = selection
    <3>1. events \in Seq([old : Plans!Plans \cup {"none"}, new : Chosen]) /\ events # <<>>
          /\ selection = events[Len(events)].new
      BY <2>1 DEF PlanInv, Logged, ChangesChain, Plans!ChangesChain
    <3>2. Len(events) \in DOMAIN events
      BY <3>1
    <3> QED BY <3>1, <3>2
  <2> QED BY <2>1, <2>2 DEF PlanInv, Choosing, Logged, ChangesChain, Plans!ChangesChain
<1>8. CASE Plans!Work
  BY <1>1, <1>8 DEF Plans!Work, PlanInv, Logged
<1>9. ASSUME NEW k \in Keys, Plans!Register(k) PROVE PlanInv'
  BY <1>1, <1>9 DEF Plans!Register, PlanInv, Logged
<1> QED
  BY <1>2, <1>3, <1>4, <1>5, <1>6, <1>7, <1>8, <1>9 DEF Plans!Next

\* The log of changes tells every plan that the user has had, each change from the
\* one before, for any number of requests that choose at once (select_plan), and
\* every session runs under a plan that is in the log (build_for_user).
THEOREM PlansChain == BillingSpec => []ChangesChain
<1>1. BillingInit => PlanInv
  <2> SUFFICES ASSUME BillingInit PROVE PlanInv
    OBVIOUS
  <2>1. Plans!Idle.step = "idle"
    BY DEF Plans!Idle
  <2>2. /\ policy \in [Plans!Plans -> Nat] /\ selection = Plans!NoPlan /\ events = <<>>
        /\ snapshots = {} /\ DOMAIN change = Txns /\ \A q \in Txns : change[q] = Plans!Idle
    BY DEF BillingInit, Plans!Init
  <2>3. events \in Seq([old : Plans!Plans \cup {"none"}, new : Chosen])
    BY <2>2
  <2> QED BY <2>1, <2>2, <2>3
          DEF PlanInv, Choosing, Logged, ChangesChain, Plans!ChangesChain
<1>2. PlanInv /\ [BillingNext]_<<vars, plans>> => PlanInv'
  <2> SUFFICES ASSUME PlanInv, [BillingNext]_<<vars, plans>> PROVE PlanInv'
    OBVIOUS
  <2>1. CASE UNCHANGED plans
    BY <2>1 DEF plans, PlanInv, Choosing, Logged, ChangesChain, Plans!ChangesChain
  <2>2. CASE Plans!Next
    BY <2>2, PlanStep
  <2> QED BY <2>1, <2>2 DEF BillingNext
<1>3. PlanInv => ChangesChain
  BY DEF PlanInv
<1> QED BY <1>1, <1>2, <1>3, PTL DEF BillingSpec
=============================================================================
