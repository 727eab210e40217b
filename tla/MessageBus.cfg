\* Three threads: two that publish, or one that waits, while another subscribes.
SPECIFICATION BusSpec
CONSTANTS
    Thread = {t1, t2, t3}
    Topic = {a, b}
    Subscription = {s1, s2}
    MaxWrites = 3
INVARIANTS
    BusTypeOK
    EverySubscriberOnce
