\* The gateway calls notify twice for one payment.
CONSTANTS
    Requests = {r1}
    Deliveries = {d1, d2}
    Flows = {"creditCardAndCreate"}
    Prices = {1}
    InitialBalance = 0
    Validations3D = {FALSE}
    MaxCharges = 0
SPECIFICATION Spec
INVARIANT CreditedOnce
CHECK_DEADLOCK FALSE
