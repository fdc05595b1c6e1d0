-------------------------- MODULE FeedbackService --------------------------
(***************************************************************************)
(* POST /feedback of backend/app/main.py, as the limiter's clients see it: *)
(* submissions of several addresses, each either let through to the        *)
(* database or answered 429 with a Retry-After, and restarts of the        *)
(* process.  The row is inserted outside the limiter's lock and its        *)
(* failure (502) does not give the permit back, so that whatever comes of  *)
(* an insertion nothing here depends on it.                                *)
(***************************************************************************)
EXTENDS FeedbackRateLimiter

\* History since the process started, which no code sees.
VARIABLES admitted,   \* per client, the ages of its admissions of the last day
          since,      \* per client, the others that submitted since it last did
          crowded     \* clients that came back after a crowd had taken their place

history == <<admitted, since, crowded>>
vars == <<ips, globalEvents, consumeCount, admitted, since, crowded>>

NoHistory == [admitted |-> [c \in Clients |-> <<>>], since |-> [c \in Clients |-> {}]]

Init == /\ LimiterInit
        /\ admitted = NoHistory.admitted
        /\ since = NoHistory.since
        /\ crowded = {}

\* Client c submits; MaxIpKeys others since its last submission are a crowd.
Noted(c) ==
    /\ since' = [d \in Clients |-> IF d = c THEN {} ELSE since[d] \cup {c}]
    /\ crowded' = IF Cardinality(since[c]) >= MaxIpKeys THEN crowded \cup {c} ELSE crowded

\* The limiter lets the submission through; its row is stored (200), or it is not (502).
SubmitAccepted(c) == /\ admitted' = [admitted EXCEPT ![c] = Append(@, 0)]
                     /\ Noted(c)
                     /\ Admit(c)

\* 429: nothing is stored.
SubmitRefused(c) == /\ UNCHANGED admitted
                    /\ Noted(c)
                    /\ Refuse(c)

\* The process dies with its windows: they are in memory only.
Restart == /\ LimiterForgets
           /\ admitted' = NoHistory.admitted
           /\ since' = NoHistory.since
           /\ crowded' = {}

\* Time passes; the history keeps a day.
Tick ==
    /\ LimiterTick
    /\ admitted' = [c \in Clients |-> Prune(Older(admitted[c], 1, Day), Day)]
    /\ crowded' = {c \in crowded : admitted'[c] # <<>>}
    /\ UNCHANGED since

Next == \/ \E c \in Clients : SubmitAccepted(c) \/ SubmitRefused(c)
        \/ Restart
        \/ Tick

Spec == Init /\ [][Next]_vars

\* The clock does not stop.
FairSpec == Spec /\ WF_vars(Tick)

-----------------------------------------------------------------------------

\* Time is monotonic: a deque is sorted, oldest first.
Sorted(deque) == \A i, j \in DOMAIN deque : i <= j => deque[i] >= deque[j]

Deque(deque, horizon, limit) == /\ deque \in Seq(0..horizon)
                                /\ Sorted(deque)
                                /\ Len(deque) <= limit

\* The limiter's memory is bounded: at most MaxIpKeys addresses, each once, events of no
\* other address, and no deque longer than the policy lets it grow.
TypeOK ==
    /\ ips.keys \subseteq Clients
    /\ Cardinality(ips.keys) <= MaxIpKeys
    /\ ips.before \subseteq ips.keys \X ips.keys
    /\ \A c \in Clients : /\ Deque(ips.events[c], Day, PerDay)
                          /\ ips.events[c] # <<>> => c \in ips.keys
                          /\ admitted[c] \in Seq(0..Day)
                          /\ since[c] \subseteq Clients
    /\ Deque(globalEvents, Hour, GlobalPerHour)
    /\ consumeCount \in 0..(CleanupInterval - 1)
    /\ crowded \subseteq Clients

Within(window, deque) == Len(Prune(deque, window))

\* The admissions of the last hour, of all clients.
LastHour == UNION {{<<c, i>> : i \in {j \in DOMAIN admitted[c] : admitted[c][j] < Hour}}
                   : c \in Clients}

\* However many clients come, are refused and are forgotten, no hour of a process sees more
\* admissions than the global limit.
GlobalQuotaHolds == Cardinality(LastHour) <= GlobalPerHour

\* A client exceeds its own limits only if as many other clients as the map has room for came
\* in between its own submissions: one that keeps submitting, even in vain, is not forgotten
\* for the sake of fewer others.
ClientQuotaLostOnlyToACrowd ==
    \A c \in Clients \ crowded : /\ Within(Minute, admitted[c]) <= PerMinute
                                 /\ Within(Hour, admitted[c]) <= PerHour
                                 /\ Within(Day, admitted[c]) <= PerDay

WaitAfter(c, ticks) ==
    retry_after(Older(ips.events[c], ticks, Day), Older(globalEvents, ticks, Hour))

\* Retry-After is exact: a client that comes back after so many seconds is let in, unless
\* others used up the hour meanwhile, and one that comes a second earlier is not.
RetryAfterIsHonest ==
    \A c \in Clients :
        LET seconds == WaitAfter(c, 0)
        IN  seconds # 0 => /\ WaitAfter(c, seconds * Second) = 0
                           /\ WaitAfter(c, (seconds - 1) * Second) # 0

\* A refusal costs nothing: however impatiently clients submit, as long as they do some are
\* let in again and again; refused submissions never keep the service shut.
SubmissionsGetThrough ==
    ([]<><<\E c \in Clients : SubmitAccepted(c) \/ SubmitRefused(c)>>_vars)
        => []<><<\E c \in Clients : SubmitAccepted(c)>>_vars
=============================================================================
