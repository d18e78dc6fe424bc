\* Two publishers that may overtake each other, queues that fill up, a reconnection.
CONSTANTS
    Pages = {p1}
    Publishers = {t1, t2}
    QueueSize = 2
    MaxUpdates = 4
    MaxConnects = 2
SPECIFICATION Spec
INVARIANT Gapless
PROPERTIES ClosedForgotten PagesConverge
