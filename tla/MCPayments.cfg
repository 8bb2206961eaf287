\* An order that may get a second invoice, an invoice whose events carry another amount, two concurrent
\* webhook requests and two faults.
CONSTANTS
  o1 = o1
  w1 = w1
  Orders = {o1}
  Wallets = {w1}
  OrderWallet <- MCOrderWallet
  TokenUnits <- MCTokenUnits
  Invoices = {i1, i2, i3}
  Mismatched = {i3}
  Handlers = {h1, h2}
  Port <- ContractPort
  MaxFaults = 2
SPECIFICATION Spec
INVARIANTS PaidIffCredited CreditedIsPaid AckedOnTimeIsCredited
PROPERTIES PaidIsFinal CreditsRefineAccounts PaymentIsCredited
\* Every order is paid or out of invoices: nothing is left to do.
CHECK_DEADLOCK FALSE
