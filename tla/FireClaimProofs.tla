-------------------------- MODULE FireClaimProofs --------------------------
(* Theorems about FireClaim, for any number of loops, module objects,      *)
(* expressions and minutes.                                                *)
EXTENDS FireClaim, TLAPS

\* Wall-clock minutes are minutes, and days are numbered.
LEMMA WallClock ==
    \A t \in Instant : Wall(t) \in Instant /\ Day(Wall(t)) \in Int
<1>0. TAKE t \in Instant
<1>1. Wall(t) \in Instant
  BY TimeAssumption DEF Wall, Instant
<1>2. \A w \in Instant : Day(w) \in Int
  BY TimeAssumption DEF Day, Instant
<1> QED
  BY <1>1, <1>2

\* The day does not go back with the clock.
LEMMA DaysAdvance ==
    \A t \in Instant : Day(Wall(t)) <= Day(Wall(t + 1))
  BY FoldAssumption DEF Instant

\* A loop's claim is a pair of an expression and a minute.
LEMMA KeyType == TypeOK => \A l \in Loop : KeyOf(l) \in Key
  BY WallClock DEF TypeOK, KeyOf, Key

\* No step leads out of the types.
THEOREM TypeCorrect == Spec => []TypeOK
<1> USE LoopAssumption, TimeAssumption DEF TypeOK, Instant
<1>1. Init => TypeOK
  BY DEF Init, NoEntries, Never, Key
<1>2. TypeOK /\ [Next]_vars => TypeOK'
  <2> SUFFICES ASSUME TypeOK, [Next]_vars PROVE TypeOK'
    OBVIOUS
  <2>1. CASE UNCHANGED vars
    BY <2>1 DEF vars
  <2>2. CASE Tick
    BY <2>2 DEF Tick
  <2>3. CASE Restart
    BY <2>3 DEF Restart, NoEntries, Never
  <2>4. ASSUME NEW l \in Loop, Step(l) PROVE TypeOK'
    <3> USE DEF Goto
    <3>1. CASE ReadClock(l)
      BY <3>1 DEF ReadClock
    <3>2. ASSUME NEW c \in Cron, RefusedInMemory(l, c) PROVE TypeOK'
      BY <3>2 DEF RefusedInMemory
    <3>3. ASSUME NEW c \in Cron, ClaimInMemory(l, c) PROVE TypeOK'
      BY <3>3 DEF ClaimInMemory
    <3>4. CASE RefusedOnDisk(l)
      BY <3>4 DEF RefusedOnDisk
    <3>5. CASE ClaimOnDisk(l)
      BY <3>5, KeyType DEF ClaimOnDisk
    <3>6. CASE ClaimUnwritable(l)
      BY <3>6 DEF ClaimUnwritable
    <3>7. CASE PruneFireClaims(l)
      BY <3>7 DEF PruneFireClaims
    <3>8. CASE Fire(l)
      <4>1. fires' \in [Key -> Nat]
        BY <3>8, KeyType DEF Fire
      <4> QED
        BY <3>8, <4>1 DEF Fire
    <3>9. CASE EndIteration(l)
      BY <3>9 DEF EndIteration
    <3> QED
      BY <2>4, <3>1, <3>2, <3>3, <3>4, <3>5, <3>6, <3>7, <3>8, <3>9 DEF Step
  <2> QED
    BY <2>1, <2>2, <2>3, <2>4 DEF Next
<1> QED
  BY <1>1, <1>2, PTL DEF Spec

\* The inductive step, when no loop claims on the day after it read the clock.
LEMMA InvStep ==
    ASSUME ~Stalls, TypeOK, TypeOK', Inv, [Next]_vars
    PROVE  Inv'
<1> USE WallClock, KeyType DEF TypeOK, Inv, Recorded, FiresAtMostOnce, Claiming, Firing
<1>a. \A l \in Loop : KeyOf(l) = <<firing[l], Wall(stamp[l])>>
  BY DEF KeyOf
<1>b. \A t \in Instant : Day(Wall(t)) \in Int
  BY WallClock
<1>1. CASE UNCHANGED vars
  BY <1>1 DEF vars, KeyOf
<1>2. CASE Tick
  <2>1. Day(Wall(now)) <= Day(Wall(now'))
    BY <1>2, DaysAdvance DEF Tick
  <2>2. \A k \in Key : Day(k[2]) \in Int
    BY TimeAssumption DEF Key, Day, Instant
  <2>3. \A l \in Loop : KeyOf(l)' = KeyOf(l)
    BY <1>2 DEF Tick, KeyOf
  <2>4. \A l \in Loop : Claiming(l)' => Day(Wall(stamp'[l])) = Day(Wall(now'))
    BY <1>2 DEF Tick
  <2>5. \A l \in Loop : Day(Wall(stamp'[l])) <= Day(Wall(now'))
    BY <1>2, <2>1, <1>b DEF Tick, Instant
  <2> QED
    BY <1>2, <2>1, <2>2, <2>3, <2>4, <2>5, <1>b DEF Tick, Instant
<1>3. CASE Restart
  BY <1>3 DEF Restart
<1>4. ASSUME NEW l \in Loop, Step(l) PROVE Inv'
  <2> USE DEF Goto, Instant
  <2>1. CASE ReadClock(l)
    <3>1. /\ now' = now /\ fires' = fires /\ claims' = claims
          /\ pc[l] = "top" /\ pc'[l] = "memory" /\ stamp'[l] = now
          /\ \A n \in Loop \ {l} : pc'[n] = pc[n] /\ stamp'[n] = stamp[n]
                                    /\ todo'[n] = todo[n] /\ KeyOf(n)' = KeyOf(n)
      BY <2>1 DEF ReadClock, KeyOf
    <3>2. \A n \in Loop : Firing(n)' => n # l /\ Firing(n) /\ KeyOf(n)' = KeyOf(n)
      BY <3>1
    <3>3. \A n \in Loop : Claiming(n)' => Day(Wall(stamp'[n])) = Day(Wall(now'))
      BY <3>1
    <3>4. \A n \in Loop : Day(Wall(stamp'[n])) <= Day(Wall(now'))
      BY <3>1, <1>b
    <3> QED
      BY <3>1, <3>2, <3>3, <3>4
  <2>2. ASSUME NEW c \in Cron, RefusedInMemory(l, c) PROVE Inv'
    BY <2>2 DEF RefusedInMemory, KeyOf
  <2>3. ASSUME NEW c \in Cron, ClaimInMemory(l, c) PROVE Inv'
    BY <2>3 DEF ClaimInMemory, KeyOf
  <2>4. CASE RefusedOnDisk(l)
    BY <2>4 DEF RefusedOnDisk, KeyOf
  <2>5. CASE ClaimOnDisk(l)
    \* No file names the pair and its day is today's: nobody has fired it yet.
    <3>1. /\ pc[l] = "disk" /\ pc'[l] = "prune" /\ KeyOf(l) \notin claims
          /\ claims' = claims \cup {KeyOf(l)}
          /\ now' = now /\ fires' = fires /\ stamp' = stamp /\ todo' = todo
          /\ \A n \in Loop \ {l} : pc'[n] = pc[n]
          /\ \A n \in Loop : KeyOf(n)' = KeyOf(n)
      BY <2>5 DEF ClaimOnDisk, KeyOf
    <3>2. Claiming(l)
      BY <3>1
    <3>3. ~(Day(KeyOf(l)[2]) < Day(Wall(now)))
      BY <3>2, <1>a, <1>b DEF Instant
    <3>4. KeyOf(l) \notin Unwritable => fires[KeyOf(l)] = 0
      BY <3>1, <3>3
    <3>5. \A n \in Loop : Firing(n) /\ KeyOf(l) \notin Unwritable => KeyOf(n) # KeyOf(l)
      BY <3>1, <3>3
    <3>6. \A n \in Loop : Firing(n)' => n = l \/ Firing(n)
      BY <3>1
    <3>7. \A n \in Loop : Claiming(n)' => Claiming(n)
      BY <3>1
    <3>8. \A k \in Key : Recorded(k) => Recorded(k)'
      BY <3>1
    <3>9. Recorded(KeyOf(l))'
      BY <3>1
    <3>10. \A n \in Loop : Firing(n)' /\ KeyOf(n)' \notin Unwritable =>
              fires'[KeyOf(n)'] = 0 /\ Recorded(KeyOf(n))'
      BY <3>1, <3>4, <3>6, <3>8, <3>9
    <3>11. \A m, n \in Loop :
              Firing(m)' /\ Firing(n)' /\ KeyOf(m)' = KeyOf(n)' /\ KeyOf(m)' \notin Unwritable
              => m = n
      BY <3>1, <3>5, <3>6
    <3> QED
      BY <3>1, <3>7, <3>8, <3>10, <3>11
  <2>6. CASE ClaimUnwritable(l)
    BY <2>6 DEF ClaimUnwritable, KeyOf
  <2>7. CASE PruneFireClaims(l)
    \* What it deletes is of an earlier day than its own, hence than today.
    <3>1. /\ pc[l] = "prune" /\ pc'[l] = "fire"
          /\ claims' = {k \in claims : Day(k[2]) >= Day(Wall(stamp[l]))}
          /\ now' = now /\ fires' = fires /\ stamp' = stamp /\ todo' = todo
          /\ \A n \in Loop \ {l} : pc'[n] = pc[n]
          /\ \A n \in Loop : KeyOf(n)' = KeyOf(n)
      BY <2>7 DEF PruneFireClaims, KeyOf
    <3>2. Day(Wall(stamp[l])) <= Day(Wall(now))
      OBVIOUS
    <3>3. \A k \in Key : Day(k[2]) \in Int
      BY TimeAssumption DEF Key, Day, Instant
    <3>4. \A k \in Key : k \in claims => k \in claims' \/ Day(k[2]) < Day(Wall(now))
      BY <3>1, <3>2, <3>3, <1>b DEF Instant
    <3>5. \A n \in Loop : Firing(n)' <=> Firing(n)
      BY <3>1
    <3>6. \A n \in Loop : Claiming(n)' => Claiming(n)
      BY <3>1
    <3>7. \A n \in Loop : Firing(n)' /\ KeyOf(n) \notin Unwritable =>
              /\ fires[KeyOf(n)] = 0
              /\ KeyOf(n) \in claims' \/ Day(KeyOf(n)[2]) < Day(Wall(now))
      BY <3>4, <3>5
    <3>8. \A k \in Key \ Unwritable : fires[k] > 0 => k \in claims' \/ Day(k[2]) < Day(Wall(now))
      BY <3>4
    <3>9. \A n \in Loop : /\ Day(Wall(stamp'[n])) <= Day(Wall(now'))
                          /\ pc'[n] = "top" => todo'[n] = {}
                          /\ Claiming(n)' => Day(Wall(stamp'[n])) = Day(Wall(now'))
      BY <3>1, <3>6
    <3>10. \A m, n \in Loop :
              Firing(m)' /\ Firing(n)' /\ KeyOf(m)' = KeyOf(n)' /\ KeyOf(m)' \notin Unwritable
              => m = n
      BY <3>1, <3>5
    <3> QED
      BY <3>1, <3>5, <3>7, <3>8, <3>9, <3>10
  <2>8. CASE Fire(l)
    \* The pair goes from "about to fire" to "fired"; nobody else was about to.
    <3>1. /\ pc[l] = "fire" /\ pc'[l] = "memory" /\ todo'[l] = {}
          /\ fires' = [fires EXCEPT ![KeyOf(l)] = @ + 1]
          /\ now' = now /\ claims' = claims /\ stamp' = stamp
          /\ \A n \in Loop \ {l} : pc'[n] = pc[n] /\ todo'[n] = todo[n]
          /\ \A n \in Loop : KeyOf(n)' = KeyOf(n)
      BY <2>8 DEF Fire, KeyOf
    <3>2. \A n \in Loop : Firing(n)' => n # l /\ Firing(n)
      BY <3>1
    <3>3. \A n \in Loop : Claiming(n)' => Claiming(n)
      BY <3>1
    <3>4. \A k \in Key : Recorded(k)' <=> Recorded(k)
      BY <3>1
    <3>5. \A k \in Key \ {KeyOf(l)} : fires'[k] = fires[k]
      BY <3>1
    <3>6. KeyOf(l) \notin Unwritable => fires'[KeyOf(l)] = 1 /\ Recorded(KeyOf(l))
      BY <3>1
    <3>7. \A n \in Loop : Firing(n)' /\ KeyOf(n)' \notin Unwritable =>
              fires'[KeyOf(n)'] = 0 /\ Recorded(KeyOf(n))'
      BY <3>1, <3>2, <3>4, <3>5
    <3>8. \A k \in Key \ Unwritable : fires'[k] > 0 => Recorded(k)'
      BY <3>4, <3>5, <3>6
    <3>9. FiresAtMostOnce'
      BY <3>5, <3>6
    <3>10. \A n \in Loop : /\ Day(Wall(stamp'[n])) <= Day(Wall(now'))
                           /\ pc'[n] = "top" => todo'[n] = {}
                           /\ Claiming(n)' => Day(Wall(stamp'[n])) = Day(Wall(now'))
      BY <3>1, <3>3
    <3>11. \A m, n \in Loop :
              Firing(m)' /\ Firing(n)' /\ KeyOf(m)' = KeyOf(n)' /\ KeyOf(m)' \notin Unwritable
              => m = n
      BY <3>1, <3>2
    <3> QED
      BY <3>7, <3>8, <3>9, <3>10, <3>11
  <2>9. CASE EndIteration(l)
    BY <2>9 DEF EndIteration, KeyOf
  <2> QED
    BY <1>4, <2>1, <2>2, <2>3, <2>4, <2>5, <2>6, <2>7, <2>8, <2>9 DEF Step
<1> QED
  BY <1>1, <1>2, <1>3, <1>4 DEF Next

\* Unless a loop stalls over midnight between reading the clock and claiming, no
\* expression fires twice in a wall-clock minute whose claim can be written: not
\* with two loops in one module object, not with a module imported twice, not
\* after a restart and not in the hour that comes twice.
THEOREM AtMostOneFire ==
    ASSUME ~Stalls
    PROVE  Spec => []FiresAtMostOnce
<1>1. Init => Inv
  BY TimeAssumption DEF Init, Inv, Recorded, Claiming, Firing, FiresAtMostOnce, Wall, Day
<1>2. TypeOK /\ TypeOK' /\ Inv /\ [Next]_vars => Inv'
  BY InvStep
<1>3. Inv => FiresAtMostOnce
  BY DEF Inv
<1> QED
  BY <1>1, <1>2, <1>3, TypeCorrect, PTL DEF Spec
=============================================================================
