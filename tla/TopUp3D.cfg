\* 3D payments (P3D = 1): two requests, two callbacks, one other charge.
CONSTANTS
    Requests = {r1, r2}
    Deliveries = {d1, d2}
    Flows = {"creditCardAndCreate", "advanceCreateCreditCardPay", "demandsCreateCreditCardPay"}
    Prices = {2}
    InitialBalance = 1
    Validations3D = {FALSE}
    MaxCharges = 1
SPECIFICATION Spec
SYMMETRY MCSymmetry
INVARIANTS
    TypeOK
    CreditsArePaid
    PaidRowHasItsLog
    PlacedIsFunded
    ClosedIsCredited
    NeverMoreThanPutIn
PROPERTY
    PaidStaysPaid
CHECK_DEADLOCK FALSE
