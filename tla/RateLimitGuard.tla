--------------------------- MODULE RateLimitGuard ---------------------------
(***************************************************************************)
(* The pause that HTTP 429 answers impose on the probes of a process.      *)
(*                                                                         *)
(* All scan workers of the process share one guard.  Each waits out the    *)
(* cooldown before it probes and records a 429 as a hit; the hits of one   *)
(* window trip a cooldown, whose length doubles from trip to trip.         *)
(*                                                                         *)
(* Abstractions.  Time goes in ticks, and is kept as ages and as what is   *)
(* left of the cooldown, so no clock grows.  The deque is the sequence of  *)
(* its hits' ages, the newest first.  The time of a hit, which the code    *)
(* takes before it has the lock, is that of its recording: a thread does   *)
(* not wait a tick for the lock.  No scan is stopped here.                 *)
(***************************************************************************)
EXTENDS Naturals, FiniteSets, Sequences

CONSTANTS
    Prober,           \* the threads that probe
    WINDOW,           \* WINDOW_SECONDS, in ticks
    TRIP,             \* TRIP_THRESHOLD
    BASE,             \* BASE_COOLDOWN_SECONDS
    MAX,              \* MAX_COOLDOWN_SECONDS
    DECAY             \* DECAY_AFTER_SECONDS

ASSUME GuardAssumption ==
    /\ IsFiniteSet(Prober) /\ Prober # {}
    /\ WINDOW \in Nat \ {0}
    /\ TRIP \in Nat \ {0}
    /\ BASE \in Nat /\ WINDOW <= BASE
    /\ MAX \in Nat /\ BASE <= MAX
    /\ DECAY \in Nat

\* What the guard can promise: TRIP, unless there are more threads than that.
Limit == IF Cardinality(Prober) <= TRIP THEN TRIP ELSE Cardinality(Prober)

\* The hits that trip the guard, and one of every thread but the last.
Burst == Limit + Cardinality(Prober)

VARIABLES
    hits,          \* _hit_times: their ages, the newest first
    cooldown,      \* what is left of _cooldown_until
    nextCooldown,  \* _next_cooldown
    sinceHit,      \* the age of _last_hit_time, DECAY + 1 at most
    prober,        \* what each thread is at
    refused        \* history: the ages of the newest 429s, WINDOW if older or none

guardVars == <<hits, cooldown, nextCooldown, sinceHit, prober, refused>>

GuardInit ==
    /\ hits = <<>>
    /\ cooldown = 0
    /\ nextCooldown = BASE
    /\ sinceHit = 0
    /\ prober = [w \in Prober |-> "idle"]
    /\ refused = [r \in 1..Burst |-> WINDOW]

Capped(n, bound) == IF n < bound THEN n ELSE bound

\* A tick later.
Older(ages, bound) == [r \in DOMAIN ages |-> Capped(ages[r] + 1, bound)]

\* The n newest ages, with a new one.
OneMore(ages, n) == [r \in 1..n |-> IF r = 1 THEN 0 ELSE ages[r - 1]]

\* wait_if_throttled returns at once, or the thread sleeps.
Throttle(w) ==
    /\ prober[w] = "idle"
    /\ nextCooldown' = IF sinceHit > DECAY THEN BASE ELSE nextCooldown
    /\ prober' = [prober EXCEPT ![w] = IF cooldown = 0 THEN "probing" ELSE "waiting"]
    /\ UNCHANGED <<hits, cooldown, sinceHit, refused>>

\* Mutant of Wake: the cooldown is not read again.
WakeAnyway(w) ==
    /\ prober[w] = "waiting"
    /\ prober' = [prober EXCEPT ![w] = "probing"]
    /\ UNCHANGED <<hits, cooldown, nextCooldown, sinceHit, refused>>

\* The cooldown is read again and has run out.
Wake(w) ==
    /\ prober[w] = "waiting"
    /\ cooldown = 0
    /\ prober' = [prober EXCEPT ![w] = "probing"]
    /\ UNCHANGED <<hits, cooldown, nextCooldown, sinceHit, refused>>

\* The probe ends with any other answer.
OtherAnswer(w) ==
    /\ prober[w] = "probing"
    /\ prober' = [prober EXCEPT ![w] = "idle"]
    /\ UNCHANGED <<hits, cooldown, nextCooldown, sinceHit, refused>>

\* Mutant of Trips: one hit more than the threshold.
TripsLate(n) == n > TRIP

Trips(n) == n >= TRIP

\* Mutant of Doubled: the length grows without bound.
DoubledOnly(length) == 2 * length

Doubled(length) == Capped(2 * length, MAX)

\* How many hits are left when those past the window are popped, from the oldest on.
Recent == {n \in 0..Len(hits) :
             /\ n > 0 => hits[n] <= WINDOW
             /\ \A r \in n + 1..Len(hits) : hits[r] > WINDOW}

\* The probe ends with a 429: a hit, which may trip the guard.
RecordHit(w) ==
    /\ prober[w] = "probing"
    /\ prober' = [prober EXCEPT ![w] = "idle"]
    /\ sinceHit' = 0
    /\ \E n \in Recent :
         IF Trips(n + 1) /\ cooldown = 0
           THEN /\ cooldown' = nextCooldown
                /\ nextCooldown' = Doubled(nextCooldown)
                /\ hits' = <<>>
           ELSE /\ hits' = OneMore(hits, n + 1)
                /\ UNCHANGED <<cooldown, nextCooldown>>
    /\ refused' = OneMore(refused, Burst)

\* Time passes; a thread polls the cooldown every second, well within a tick.
Tick ==
    /\ \A w \in Prober : ~(prober[w] = "waiting" /\ cooldown = 0)
    /\ hits' = Older(hits, WINDOW + 1)
    /\ refused' = Older(refused, WINDOW)
    /\ sinceHit' = Capped(sinceHit + 1, DECAY + 1)
    /\ cooldown' = IF cooldown = 0 THEN 0 ELSE cooldown - 1
    /\ UNCHANGED <<nextCooldown, prober>>

GuardNext ==
    \/ \E w \in Prober : Throttle(w) \/ Wake(w) \/ OtherAnswer(w) \/ RecordHit(w)
    \/ Tick

GuardSpec == GuardInit /\ [][GuardNext]_guardVars

-----------------------------------------------------------------------------
(* Properties. *)

\* The types; a cooldown is at most the length the next one is derived from.
GuardTypeOK ==
    /\ hits \in Seq(0..WINDOW + 1)
    /\ cooldown \in 0..MAX
    /\ nextCooldown \in BASE..MAX
    /\ sinceHit \in 0..DECAY + 1
    /\ prober \in [Prober -> {"idle", "waiting", "probing"}]
    /\ refused \in [1..Burst -> 0..WINDOW]

\* "5 hits within WINDOW_SECONDS to trip", from all threads together: a window never
\* holds that many recorded hits unless the pause is on, whatever was still under way
\* when the last pause began.
BurstsPause == Len(hits) >= Limit /\ hits[Limit] <= WINDOW => cooldown > 0

\* What the guard is for: within any WINDOW ticks the provider has to refuse no
\* more probes than trip the guard and were under way when it tripped.
ProviderSpared == refused[Burst] = WINDOW
=============================================================================
