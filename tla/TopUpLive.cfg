\* Fair handlers, cards charged at once or on the 3D page: what the gateway took
\* reaches the wallet, however the windows of two requests, a callback and another
\* charge overlap.
CONSTANTS
    Requests = {r1, r2}
    Deliveries = {d1}
    Flows = {"payCreditCardByCreditCardID", "advanceCreateCreditCardPay", "demandsCreateCreditCardByCreditCardID"}
    Prices = {2}
    InitialBalance = 1
    Validations3D = {TRUE, FALSE}
    MaxCharges = 1
SPECIFICATION FairWindowSpec
PROPERTIES
    PaidIsCredited
    ImplementsLedger
CHECK_DEADLOCK FALSE
