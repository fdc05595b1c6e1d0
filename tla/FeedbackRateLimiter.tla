------------------------ MODULE FeedbackRateLimiter ------------------------
(***************************************************************************)
(* The limiter in front of POST /feedback (backend/app/                    *)
(* feedback_rate_limit.py): three sliding windows per client address and   *)
(* one for everybody, in the memory of one process, with room for          *)
(* MaxIpKeys addresses.  The code stores the instant of an admission; here *)
(* a deque holds the age of each, oldest first, and time passes by making  *)
(* them older.  Ages stop at the widest window that looks at them.         *)
(*                                                                         *)
(* consume is one step: it takes the clock and then an asyncio lock under  *)
(* which it awaits nothing, so no other coroutine of the event loop ever   *)
(* finds the lock taken.                                                   *)
(***************************************************************************)
EXTENDS Naturals, Sequences, FiniteSetsExt

CONSTANTS Clients,                      \* addresses as resolve_cloudflare_client_ip gives them
          Second,                       \* ticks of the clock in a second
          Minute, Hour, Day,            \* the windows, in ticks: in the code 60, 3600, 86400 s
          PerMinute, PerHour, PerDay,   \* what a client may send in each
          GlobalPerHour,                \* what all of them may send in an hour
          MaxIpKeys, CleanupInterval

ASSUME LimiterAssumption ==
    /\ {Second, Minute, Hour, Day} \subseteq Nat \ {0}
    /\ Minute <= Hour /\ Hour <= Day
    /\ {PerMinute, PerHour, PerDay, GlobalPerHour} \subseteq Nat \ {0}
    /\ {MaxIpKeys, CleanupInterval} \subseteq Nat \ {0}

VARIABLES ips,           \* the OrderedDict: its keys, which comes before which, the deque of each
          globalEvents,
          consumeCount   \* modulo CleanupInterval

limiterVars == <<ips, globalEvents, consumeCount>>

NoIps == [keys |-> {}, before |-> {}, events |-> [c \in Clients |-> <<>>]]

LimiterInit == /\ ips = NoIps
               /\ globalEvents = <<>>
               /\ consumeCount = 0

-----------------------------------------------------------------------------

\* How many the loop of popleft takes from a deque.
Outdated(deque, window) ==
    CHOOSE n \in 0..Len(deque) : /\ n < Len(deque) => deque[n + 1] < window
                                 /\ \A i \in 1..n : deque[i] >= window

Prune(deque, window) == SubSeq(deque, Outdated(deque, window) + 1, Len(deque))

\* A mutant: a full window lets one more in.
window_wait_off_by_one(deque, window, limit) ==
    LET recent == Prune(deque, window)
    IN  IF Len(recent) <= limit THEN 0 ELSE window - recent[Len(recent) - limit]

\* 0 where the code has None or 0.0; otherwise the wait in ticks.
window_wait(deque, window, limit) ==
    LET recent == Prune(deque, window)
    IN  IF Len(recent) < limit THEN 0 ELSE window - recent[Len(recent) - limit + 1]

\* A mutant: the client is told the first of its waits to end, not the last.
retry_after_first_wait(events, everyone) ==
    LET waits == {window_wait(events, Minute, PerMinute),
                  window_wait(events, Hour, PerHour),
                  window_wait(events, Day, PerDay),
                  window_wait(everyone, Hour, GlobalPerHour)} \ {0}
    IN  IF waits = {} THEN 0 ELSE (Min(waits) + Second - 1) \div Second

\* In whole seconds, rounded up.
retry_after(events, everyone) ==
    LET wait == Max({window_wait(events, Minute, PerMinute),
                     window_wait(events, Hour, PerHour),
                     window_wait(events, Day, PerDay),
                     window_wait(everyone, Hour, GlobalPerHour)})
    IN  (wait + Second - 1) \div Second

\* The map without the keys that are not in kept.
Keep(d, kept) == [d EXCEPT !.keys = @ \cap kept, !.before = @ \cap (kept \X kept)]

\* del of the keys whose deque has run empty.
prune_inactive_ips(d) ==
    LET events == [c \in Clients |-> Prune(d.events[c], Day)]
    IN  Keep([d EXCEPT !.events = events], {c \in Clients : events[c] # <<>>})

Oldest(d) == CHOOSE c \in d.keys : \A e \in d.keys \ {c} : <<c, e>> \in d.before

popitem(d) == Keep([d EXCEPT !.events[Oldest(d)] = <<>>], Clients \ {Oldest(d)})

Full(d) == Cardinality(d.keys) >= MaxIpKeys

\* A mutant: a full map of clients that are all active takes one more.
make_room_without_eviction(d) == IF Full(d) THEN prune_inactive_ips(d) ELSE d

\* A full map first loses the clients with nothing left in their day, then the one that
\* has not been seen for longest, whatever it has left.
make_room_for_ip(d) ==
    LET pruned == prune_inactive_ips(d)
    IN  IF ~Full(d) THEN d ELSE IF ~Full(pruned) THEN pruned ELSE popitem(pruned)

\* A mutant: a known client keeps its place, so that the oldest key goes first.
SeenInArrivalOrder(d, c) ==
    LET room == IF c \in d.keys THEN d ELSE make_room_for_ip(d)
    IN  [keys   |-> room.keys \cup {c},
         before |-> IF c \in d.keys THEN room.before
                                    ELSE room.before \cup (room.keys \X {c}),
         events |-> [room.events EXCEPT ![c] = Prune(@, Day)]]

\* The map once client c has been looked up: c is its most recent key, refused or not.
Seen(d, c) ==
    LET others == IF c \in d.keys THEN Keep(d, Clients \ {c}) ELSE make_room_for_ip(d)
    IN  [keys   |-> others.keys \cup {c},
         before |-> others.before \cup (others.keys \X {c}),
         events |-> [others.events EXCEPT ![c] = Prune(@, Day)]]

-----------------------------------------------------------------------------

\* What consume finds once it has tidied up for client c.
Tidied(c) == Seen(IF (consumeCount + 1) % CleanupInterval = 0
                  THEN prune_inactive_ips(ips) ELSE ips, c)

Counted == consumeCount' = (consumeCount + 1) % CleanupInterval

Admit(c) ==
    LET d == Tidied(c)
    IN  /\ retry_after(d.events[c], Prune(globalEvents, Hour)) = 0
        /\ ips' = [d EXCEPT !.events[c] = Append(@, 0)]
        /\ globalEvents' = Append(Prune(globalEvents, Hour), 0)
        /\ Counted

\* A mutant: a refused submission starts the client's windows anew.
RefuseAndRestart(c) ==
    LET d == Tidied(c)
    IN  /\ retry_after(d.events[c], Prune(globalEvents, Hour)) # 0
        /\ ips' = [d EXCEPT !.events[c] = [i \in DOMAIN @ |-> 0]]
        /\ globalEvents' = Prune(globalEvents, Hour)
        /\ Counted

Refuse(c) ==
    LET d == Tidied(c)
    IN  /\ retry_after(d.events[c], Prune(globalEvents, Hour)) # 0
        /\ ips' = d
        /\ globalEvents' = Prune(globalEvents, Hour)
        /\ Counted

\* The clock is monotonic; nothing looks at an age beyond the horizon of its deque.
Older(deque, ticks, horizon) == [i \in DOMAIN deque |-> Min({deque[i] + ticks, horizon})]

LimiterTick ==
    /\ ips' = [ips EXCEPT !.events = [c \in Clients |-> Older(@[c], 1, Day)]]
    /\ globalEvents' = Older(globalEvents, 1, Hour)
    /\ UNCHANGED consumeCount

LimiterForgets == /\ ips' = NoIps
                  /\ globalEvents' = <<>>
                  /\ consumeCount' = 0
=============================================================================
