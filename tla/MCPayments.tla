----------------------------- MODULE MCPayments -----------------------------
EXTENDS Payments

CONSTANTS o1, w1

MCOrderWallet == [o \in Orders |-> w1]
MCTokenUnits  == [o \in Orders |-> IF o = o1 THEN 1 ELSE 2]

=============================================================================
