------------------------------ MODULE MCWallet ------------------------------
(* The ledger and the choice of a plan have no row in common, but for the open *)
(* work that a choice looks for: an execution is about one of them, while the  *)
(* other stays as it began.                                                    *)
EXTENDS Wallet, TLC

CONSTANTS w1, w2, o1, o2, o3, p1, p2, i1, i2

MCOrderWallet     == o1 :> w1 @@ o2 :> w1 @@ o3 :> w2
MCTokenUnits      == o1 :> 2 @@ o2 :> 1 @@ o3 :> 1
MCOperationWallet == p1 :> w1 @@ p2 :> w1

\* An invocation has one reservation (ai_invocations.reservation_id)
OneReservation    == {<<i1, p1>>, <<i2, p2>>}

CONSTANTS Keys, MaxRevision, MaxChanges   \* of PlansAndKeys
VARIABLES policy, selection, events, keys, models, openWork, snapshots, change

Plans == INSTANCE PlansAndKeys WITH Requests <- Txns
plans == <<policy, selection, events, keys, models, openWork, snapshots, change>>

BillingInit == Init /\ Plans!Init
BillingNext ==
  \/ Plans!Init /\ Next /\ UNCHANGED plans
  \/ Init /\ Plans!Next /\ UNCHANGED vars
BillingSpec == BillingInit /\ [][BillingNext]_<<vars, plans>>

ChangesChain == Plans!ChangesChain
=============================================================================
