---------------------------- MODULE TokenAccounts ----------------------------
(***************************************************************************)
(* What the wallet of modules/billing promises, with no sessions, locks,   *)
(* journals or caches: a balance per wallet, orders credited once, and     *)
(* grants that are charged cumulatively and closed once, each operation    *)
(* taking effect at one instant against the balance of that instant.       *)
(***************************************************************************)
EXTENDS Integers

CONSTANTS Wallets, Orders, Operations, OrderWallet, TokenUnits, OperationWallet,
          Units  \* the amounts an operation may be granted or charged

VARIABLES balance, credited, grant

vars == <<balance, credited, grant>>

Statuses == {"none", "open", "frozen", "closed"}

Init ==
  /\ balance = [w \in Wallets |-> 0]
  /\ credited = {}
  /\ grant = [p \in Operations |-> [status |-> "none", units |-> 0, spent |-> 0]]

\* A paid order is credited, once
Credit(o) ==
  /\ o \notin credited
  /\ credited' = credited \cup {o}
  /\ balance' = [balance EXCEPT ![OrderWallet[o]] = @ + TokenUnits[o]]
  /\ UNCHANGED grant

\* An operation is granted units the balance covers, once
Grant(p, n) ==
  /\ grant[p].status = "none"
  /\ n <= balance[OperationWallet[p]]
  /\ balance' = [balance EXCEPT ![OperationWallet[p]] = @ - n]
  /\ grant' = [grant EXCEPT ![p] = [status |-> "open", units |-> n, spent |-> 0]]
  /\ UNCHANGED credited

\* The cumulative charge of a grant rises to n, and closes it at its limit
Charge(p, n) ==
  /\ grant[p].status = "open"
  /\ grant[p].spent < n
  /\ n <= grant[p].units
  /\ grant' = [grant EXCEPT ![p].spent = n,
                            ![p].status = IF n = grant[p].units THEN "closed" ELSE "open"]
  /\ UNCHANGED <<balance, credited>>

\* What a grant has not spent goes back, and the grant is closed
Return(p) ==
  /\ grant[p].status \in {"open", "frozen"}
  /\ grant' = [grant EXCEPT ![p].status = "closed"]
  /\ balance' = [balance EXCEPT
       ![OperationWallet[p]] = @ + (grant[p].units - grant[p].spent)]
  /\ UNCHANGED credited

\* The usage of a grant is in dispute
Freeze(p) ==
  /\ grant[p].status = "open"
  /\ grant' = [grant EXCEPT ![p].status = "frozen"]
  /\ UNCHANGED <<balance, credited>>

Next ==
  \/ \E o \in Orders : Credit(o)
  \/ \E p \in Operations :
       \/ \E n \in Units : Grant(p, n) \/ Charge(p, n)
       \/ Return(p)
       \/ Freeze(p)

Spec == Init /\ [][Next]_vars

=============================================================================
