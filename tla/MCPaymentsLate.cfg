\* The normalized contract, one invoice, one request at a time and no fault: its expiry and its payment are both reported.
CONSTANTS
  o1 = o1
  w1 = w1
  Orders = {o1}
  Wallets = {w1}
  OrderWallet <- MCOrderWallet
  TokenUnits <- MCTokenUnits
  Invoices = {i1}
  Mismatched = {}
  Handlers = {h1}
  Port <- ContractPort
  MaxFaults = 0
SPECIFICATION Spec
INVARIANTS AckedPaidIsCredited
\* Every order is paid or out of invoices: nothing is left to do.
CHECK_DEADLOCK FALSE
