SPECIFICATION Spec
CONSTANTS
    Subs = {s1, r1, r2, r3}
    Stripe = {s1}
    Unowned = {r2}
    Bare = {r3}
    Priced = {TRUE, FALSE}
    MaxPaid = 2
    MaxEmits = 3
    Together = {s1, r1, r2}
    MaxTogether = 2
    Handlers = {h1, h2}
SYMMETRY RequestSymmetry
INVARIANTS
    GrantedUnlessEnded
    EveryPaymentInvoiced
    CancelShownIsReal
    MirrorsProvider
CHECK_DEADLOCK FALSE
