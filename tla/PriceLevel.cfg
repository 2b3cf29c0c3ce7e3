\* Two levels that exchange the orders of four slots: removals from the head, the
\* tail and the middle of lists of up to four orders.
SPECIFICATION Spec
CONSTANTS
    Levels = {l1, l2}
    Orders = {o1, o2, o3, o4}
    MaxQty = 2
    Null = Null
INVARIANTS TypeOK LinksRepresentQueue TotalsExact
CHECK_DEADLOCK FALSE
