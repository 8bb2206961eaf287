\* The adapter that is wired in, without any fault.
CONSTANTS
  o1 = o1
  w1 = w1
  Orders = {o1}
  Wallets = {w1}
  OrderWallet <- MCOrderWallet
  TokenUnits <- MCTokenUnits
  Invoices = {i1}
  Mismatched = {}
  Handlers = {h1}
  Port <- XenditPort
  MaxFaults = 0
SPECIFICATION Spec
PROPERTIES PaymentIsCredited
\* Every order is paid or out of invoices: nothing is left to do.
CHECK_DEADLOCK FALSE
