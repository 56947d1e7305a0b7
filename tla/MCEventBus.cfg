\* Two publishers race two connections, one of which never times out, over a
\* ring of two that three events overrun.
CONSTANTS
    Publishers = {p1, p2}
    Subscribers = {s1, s2}
    Untimed = {s2}
    RingSize = 2
    MaxPublished = 3
SPECIFICATION FairSpec
INVARIANTS
    TypeOK
    RingIsNewestSuffix
    InOrderOnce
    LostOnlyByOverrun
PROPERTY EventsAreDelivered
