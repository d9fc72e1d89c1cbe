-------------------------- MODULE StreamScanProofs --------------------------
(* Theorems about StreamScan, for any number of streams, answers, retries  *)
(* and workers: both ways of going through the list implement Scan.  Last, *)
(* about the RateLimitGuard the workers share, for any number of them.     *)
EXTENDS StreamScan, RateLimitGuard, FiniteSetTheorems, TLAPS

-----------------------------------------------------------------------------
(* The verdict of a probe. *)

\* What is in one of these orders has a first place in it.
LEMMA FirstMarker ==
    ASSUME NEW set, set \intersect Members(Marker) # {}
    PROVE  First(Marker, set) \in 1..10
<1> DEFINE P(i) == Marker[i] \in set
<1>1. DOMAIN Marker = 1..10
  BY DEF Marker
<1>2. \E i \in 1..10 : P(i)
  BY <1>1 DEF Members
<1>3. \E i \in 1..10 : P(i) /\ \A j \in 1..10 : P(j) => i <= j
  <2> HIDE DEF P
  <2> QED
    BY <1>2, SMTT(60)
<1> QED
  BY <1>1, <1>3 DEF First

LEMMA FirstPrecedence ==
    ASSUME NEW set, set \intersect Members(Precedence) # {}
    PROVE  First(Precedence, set) \in 1..4
<1> DEFINE P(i) == Precedence[i] \in set
<1>1. DOMAIN Precedence = 1..4
  BY DEF Precedence
<1>2. \E i \in 1..4 : P(i)
  BY <1>1 DEF Members
<1>3. \E i \in 1..4 : P(i) /\ \A j \in 1..4 : P(j) => i <= j
  <2> HIDE DEF P
  <2> QED
    BY <1>2
<1> QED
  BY <1>1, <1>3 DEF First

LEMMA Errors ==
    /\ DOMAIN ErrorType = 1..10
    /\ \A i \in 1..10 : ErrorType[i] \in Members(ErrorType)
    /\ \A error \in Members(ErrorType) : \E i \in 1..10 : error = ErrorType[i]
    /\ ErrorType[1] = "Timeout"
<1>1. DOMAIN ErrorType = 1..10 /\ ErrorType[1] = "Timeout"
  BY DEF ErrorType
<1> QED
  BY <1>1 DEF Members

\* Whatever a probe hears is made one of Rows: no type of an error is forgotten.
LEMMA VerdictIsARow ==
    ASSUME NEW answer \in Answer, NEW stop \in BOOLEAN
    PROVE  Verdict(answer, stop) \in Rows
<1> DEFINE verdict == Verdict(answer, stop)
<1>1. answer.exit \in {"streamlink", "expired", "raised", "failed", "audio", "video"}
  BY DEF Answer
<1>2. CASE answer.exit = "streamlink"
  BY <1>2 DEF Verdict, Rows
<1>3. CASE answer.exit = "expired"
  <2>1. "Timeout" \in Members(ErrorType)
    BY Errors
  <2> QED
    BY <1>3, <2>1 DEF Verdict, Rows, DeadErrors
<1>4. CASE answer.exit = "raised"
  BY <1>4 DEF Verdict, Rows, DeadErrors
<1>5. CASE answer.exit = "audio"
  BY <1>5 DEF Verdict, Rows
<1>6. CASE answer.exit = "video"
  <2> DEFINE seen == Evidence(answer, stop)
  <2>1. verdict = Content(seen)
    BY <1>6 DEF Verdict
  <2>2. seen \subseteq Members(Precedence)
    BY <1>6 DEF Evidence, Answer
  <2>3. CASE seen = {}
    BY <2>1, <2>3 DEF Content, Rows
  <2>4. CASE seen # {}
    <3>1. First(Precedence, seen) \in 1..4
      BY <2>2, <2>4, FirstPrecedence
    <3>2. \A i \in 1..4 : Precedence[i] \in Detector
      BY DEF Precedence, Detector
    <3> QED
      BY <2>1, <2>4, <3>1, <3>2 DEF Content, Rows, DeadErrors
  <2> QED
    BY <2>3, <2>4
<1>7. CASE answer.exit = "failed"
  <2>1. verdict = IF Classify(answer) = "Rate Limited"
                    THEN Skipped("Rate Limited") ELSE Dead(Classify(answer))
    BY <1>7 DEF Verdict
  <2>2. CASE answer.text \intersect Members(Marker) # {}
    <3>1. First(Marker, answer.text) \in 1..10
      BY <2>2, FirstMarker
    <3>2. Classify(answer) \in Members(ErrorType)
      BY <2>2, <3>1, Errors DEF Classify
    <3> QED
      BY <2>1, <3>2 DEF Rows, DeadErrors
  <2>3. CASE answer.text \intersect Members(Marker) = {}
    BY <2>1, <2>3 DEF Classify, Rows, DeadErrors
  <2> QED
    BY <2>2, <2>3
<1> QED
  BY <1>1, <1>2, <1>3, <1>4, <1>5, <1>6, <1>7

\* What is used of a row, from here on.
LEMMA RowFacts ==
    /\ NoRow \notin Rows /\ Cancelled \notin Rows /\ Cancelled # NoRow
    /\ ~WorthRetry(NoRow)
    /\ NoRow.status \notin {"Alive", "Dead"}
    /\ \A row \in Rows :
         /\ row.stats \in {"old", "fresh", "cleared"}
         /\ row.status \in {"Alive", "Dead"} => row.stats # "old"
<1>1. \A row \in Rows :
        \/ row = Alive
        \/ \E error \in DeadErrors : row = Dead(error)
        \/ \E error \in {"Skipped", "No Video Stream", "Rate Limited"} : row = Skipped(error)
  BY DEF Rows
<1>2. \A row \in Rows :
         /\ row.status \in {"Alive", "Dead", "Skipped"}
         /\ row.stats \in {"old", "fresh", "cleared"}
         /\ row.status \in {"Alive", "Dead"} => row.stats # "old"
  <2> TAKE row \in Rows
  <2>1. CASE row = Alive
    BY <2>1 DEF Alive
  <2>2. CASE \E error \in DeadErrors : row = Dead(error)
    BY <2>2 DEF Dead
  <2>3. CASE \E error \in {"Skipped", "No Video Stream", "Rate Limited"} : row = Skipped(error)
    <3>1. PICK error : row = Skipped(error)
      BY <2>3
    <3> QED
      BY <3>1 DEF Skipped
  <2> QED
    BY <1>1, <2>1, <2>2, <2>3
<1>3. NoRow \notin Rows
  BY <1>2 DEF NoRow
<1>4. "Cancelled" \notin DeadErrors
  <2>1. \A i \in 1..10 : ErrorType[i] # "Cancelled"
    <3>1. /\ ErrorType[1] # "Cancelled" /\ ErrorType[2] # "Cancelled"
          /\ ErrorType[3] # "Cancelled" /\ ErrorType[4] # "Cancelled"
          /\ ErrorType[5] # "Cancelled" /\ ErrorType[6] # "Cancelled"
          /\ ErrorType[7] # "Cancelled" /\ ErrorType[8] # "Cancelled"
          /\ ErrorType[9] # "Cancelled" /\ ErrorType[10] # "Cancelled"
      BY DEF ErrorType
    <3>2. \A i \in 1..10 : i \in {1, 2, 3, 4, 5, 6, 7, 8, 9, 10}
      OBVIOUS
    <3> QED
      BY <3>1, <3>2
  <2>2. \A fault \in Detector : Fault[fault] # "Cancelled"
    <3>1. /\ Fault["placeholder"] # "Cancelled" /\ Fault["black"] # "Cancelled"
          /\ Fault["frozen"] # "Cancelled" /\ Fault["silent"] # "Cancelled"
      BY DEF Fault
    <3> QED
      BY <3>1 DEF Detector
  <2> QED
    BY <2>1, <2>2, Errors DEF DeadErrors
<1>5. Cancelled \notin Rows
  BY <1>1, <1>4 DEF Cancelled, Alive, Dead, Skipped
<1>6. Cancelled # NoRow
  BY DEF Cancelled, NoRow, Dead
<1>7. ~WorthRetry(NoRow) /\ NoRow.status \notin {"Alive", "Dead"}
  BY DEF WorthRetry, NoRow, Retryable
<1> QED
  BY <1>2, <1>3, <1>5, <1>6, <1>7

-----------------------------------------------------------------------------
(* A queue that holds no stream twice. *)

Distinct(q) == \A i, j \in DOMAIN q : q[i] = q[j] => i = j

\* A stream that is not in the queue is put at its end.
LEMMA QueueGains ==
    ASSUME NEW q \in Seq(Stream), NEW s \in Stream,
           Distinct(q), \A i \in DOMAIN q : q[i] # s
    PROVE  /\ Append(q, s) \in Seq(Stream)
           /\ Distinct(Append(q, s))
           /\ \A i \in DOMAIN Append(q, s) :
                Append(q, s)[i] = s \/ \E j \in DOMAIN q : Append(q, s)[i] = q[j]
<1> DEFINE r == Append(q, s)
<1>1. /\ r \in Seq(Stream) /\ DOMAIN q = 1..Len(q) /\ DOMAIN r = 1..Len(q) + 1
      /\ \A i \in 1..Len(q) : r[i] = q[i]
      /\ r[Len(q) + 1] = s /\ Len(q) \in Nat
  OBVIOUS
<1> HIDE DEF r
<1>2. Distinct(r)
  <2> SUFFICES ASSUME NEW i \in DOMAIN r, NEW j \in DOMAIN r, r[i] = r[j] PROVE i = j
    BY DEF Distinct
  <2>1. CASE i \in 1..Len(q) /\ j \in 1..Len(q)
    BY <1>1, <2>1 DEF Distinct
  <2>2. CASE i = Len(q) + 1 \/ j = Len(q) + 1
    BY <1>1, <2>2
  <2> QED
    BY <1>1, <2>1, <2>2
<1>3. \A i \in DOMAIN r : r[i] = s \/ \E j \in DOMAIN q : r[i] = q[j]
  BY <1>1
<1> QED
  BY <1>1, <1>2, <1>3 DEF r

\* The first of the queue is taken from it.
LEMMA QueueLoses ==
    ASSUME NEW q \in Seq(Stream), q # <<>>, Distinct(q)
    PROVE  /\ Tail(q) \in Seq(Stream)
           /\ Distinct(Tail(q))
           /\ \A i \in DOMAIN Tail(q) :
                Tail(q)[i] # Head(q) /\ \E j \in DOMAIN q : Tail(q)[i] = q[j]
           /\ \E j \in DOMAIN q : Head(q) = q[j]
<1> DEFINE r == Tail(q)
<1>1. /\ r \in Seq(Stream) /\ DOMAIN q = 1..Len(q) /\ DOMAIN r = 1..Len(q) - 1
      /\ \A i \in DOMAIN r : r[i] = q[i + 1] /\ i + 1 \in DOMAIN q
      /\ 1 \in DOMAIN q /\ Head(q) = q[1] /\ Len(q) \in Nat
  OBVIOUS
<1> HIDE DEF r
<1>2. Distinct(r)
  <2> SUFFICES ASSUME NEW i \in DOMAIN r, NEW j \in DOMAIN r, r[i] = r[j] PROVE i = j
    BY DEF Distinct
  <2>1. i + 1 = j + 1
    BY <1>1 DEF Distinct
  <2> QED
    BY <1>1, <2>1
<1>3. \A i \in DOMAIN r : r[i] # Head(q)
  <2> SUFFICES ASSUME NEW i \in DOMAIN r, r[i] = Head(q) PROVE FALSE
    OBVIOUS
  <2>1. i + 1 = 1
    BY <1>1 DEF Distinct
  <2> QED
    BY <1>1, <2>1
<1> QED
  BY <1>1, <1>2, <1>3 DEF r

-----------------------------------------------------------------------------
(* What either way keeps true, step by step. *)

\* One after the other: a stream not yet begun has no row; what waits in the queue, or
\* has been taken from it, is there once and has a row worth a retry.
OneByOneInv ==
    ~parallel =>
        /\ phase \in {"list", "retry", "flush", "save", "finally", "over"}
        /\ future = [s \in Stream |-> "none"]
        /\ busy <= at /\ since <= at
        /\ \A s \in Stream : s > at => rows[s] = NoRow /\ probes[s] = 0
        /\ phase = "list" /\ busy # 0 => since < at /\ rows[busy] = NoRow
        /\ phase = "retry" => busy # 0
        /\ phase \in {"retry", "flush"} /\ busy # 0 =>
             WorthRetry(rows[busy]) /\ \A i \in DOMAIN queue : queue[i] # busy
        /\ queue \in Seq(Stream)
        /\ \A i \in DOMAIN queue : WorthRetry(rows[queue[i]])
        /\ Distinct(queue)

\* With a pool: in the first round what is not collected has no row, in a retry round
\* what is not collected has a row worth a retry.
PooledInv ==
    parallel =>
        /\ phase \notin {"retry", "flush"}
        /\ phase = "list" => \A s \in Stream : future[s] # "collected" => rows[s] = NoRow
        /\ phase = "pass" => \A s \in Stream :
             future[s] \in {"queued", "probing", "done"} => WorthRetry(rows[s])
        /\ phase = "wait" => pass < Retries
        /\ \A s \in Stream :
             /\ future[s] = "done" /\ ~stopped => found[s] \in Rows
             /\ probes[s] <= pass + 1
             /\ future[s] = "queued" => probes[s] <= pass

\* Nothing is saved before the end.
SavedLast == phase \notin {"finally", "over"} => saved = {}

Inv == TypeOK /\ OneByOneInv /\ PooledInv /\ SavedLast

\* The rows a scan writes down are those of Rows.
LEMMA Heard ==
    ASSUME TypeOK, NEW answer \in Answers
    PROVE  Verdict(answer, stopped) \in Rows
BY VerdictIsARow, StreamScanAssumption DEF TypeOK

LEMMA InitInv == Init => Inv
<1> SUFFICES ASSUME Init PROVE Inv
  OBVIOUS
<1> USE StreamScanAssumption, RowFacts DEF Init, Stream
<1>1. TypeOK
  <2>1. /\ parallel \in BOOLEAN /\ stopped \in BOOLEAN /\ closed \in BOOLEAN
        /\ phase = "list" /\ struck \subseteq Stream /\ saved \in {{}, {rows}}
        /\ rows \in [Stream -> Rows \union {NoRow}]
        /\ stats \in [Stream -> {"old", "fresh", "cleared"}]
    OBVIOUS
  <2>2. /\ counted \in 0..N /\ probes \in [Stream -> 0..Retries + 1]
        /\ at \in 0..N /\ busy \in 0..N /\ since \in 0..N /\ pass \in 0..Retries
    OBVIOUS
  <2>3. \A i \in DOMAIN queue : queue[i] \in 1..at
    OBVIOUS
  <2>4. /\ future \in [Stream -> {"none", "queued", "probing", "done", "collected"}]
        /\ found \in [Stream -> Rows \union {NoRow, Cancelled}]
    OBVIOUS
  <2> QED
    BY <2>1, <2>2, <2>3, <2>4 DEF TypeOK
<1>2. OneByOneInv
  BY DEF OneByOneInv, Distinct
<1>3. PooledInv
  BY DEF PooledInv
<1> QED
  BY <1>1, <1>2, <1>3 DEF Inv, SavedLast

LEMMA StopKeepsInv ==
    ASSUME Inv, Stop
    PROVE  Inv'
<1> USE StreamScanAssumption DEF Inv, Stop, scan, sequential, pool, Stream
<1>1. TypeOK'
  BY RowFacts DEF TypeOK, OneByOneInv, PooledInv, Halted, Begin, RetryDue, ToRetry, In
<1>2. OneByOneInv'
  BY RowFacts DEF TypeOK, OneByOneInv, Halted, Begin, RetryDue, ToRetry, In
<1>3. PooledInv'
  BY RowFacts DEF TypeOK, PooledInv, Halted, Begin, RetryDue, ToRetry, In
<1>4. SavedLast'
  BY DEF SavedLast, OneByOneInv
<1> QED
  BY <1>1, <1>2, <1>3, <1>4

LEMMA WindowClosesKeepsInv ==
    ASSUME Inv, WindowCloses
    PROVE  Inv'
<1> USE StreamScanAssumption DEF Inv, WindowCloses, scan, sequential, pool, Stream
<1>1. TypeOK'
  BY RowFacts DEF TypeOK, OneByOneInv, PooledInv, Halted, Begin, RetryDue, ToRetry, In
<1>2. OneByOneInv'
  BY RowFacts DEF TypeOK, OneByOneInv, Halted, Begin, RetryDue, ToRetry, In
<1>3. PooledInv'
  BY RowFacts DEF TypeOK, PooledInv, Halted, Begin, RetryDue, ToRetry, In
<1>4. SavedLast'
  BY DEF SavedLast, OneByOneInv
<1> QED
  BY <1>1, <1>2, <1>3, <1>4

LEMMA NextStreamKeepsInv ==
    ASSUME Inv, NextStream
    PROVE  Inv'
<1> USE StreamScanAssumption DEF Inv, NextStream, scan, sequential, pool, Stream
<1>1. TypeOK'
  BY RowFacts DEF TypeOK, OneByOneInv, PooledInv, Halted, Begin, RetryDue, ToRetry, In
<1>2. OneByOneInv'
  BY RowFacts DEF TypeOK, OneByOneInv, Halted, Begin, RetryDue, ToRetry, In
<1>3. PooledInv'
  BY RowFacts DEF TypeOK, PooledInv, Halted, Begin, RetryDue, ToRetry, In
<1>4. SavedLast'
  BY DEF SavedLast, OneByOneInv
<1> QED
  BY <1>1, <1>2, <1>3, <1>4

LEMMA LeaveListKeepsInv ==
    ASSUME Inv, LeaveList
    PROVE  Inv'
<1> USE StreamScanAssumption DEF Inv, LeaveList, scan, sequential, pool, Stream
<1>1. TypeOK'
  BY RowFacts DEF TypeOK, OneByOneInv, PooledInv, Halted, Begin, RetryDue, ToRetry, In
<1>2. OneByOneInv'
  BY RowFacts DEF TypeOK, OneByOneInv, Halted, Begin, RetryDue, ToRetry, In
<1>3. PooledInv'
  BY RowFacts DEF TypeOK, PooledInv, Halted, Begin, RetryDue, ToRetry, In
<1>4. SavedLast'
  BY DEF SavedLast, OneByOneInv
<1> QED
  BY <1>1, <1>2, <1>3, <1>4

LEMMA LeaveFlushKeepsInv ==
    ASSUME Inv, LeaveFlush
    PROVE  Inv'
<1> USE StreamScanAssumption DEF Inv, LeaveFlush, scan, sequential, pool, Stream
<1>1. TypeOK'
  BY RowFacts DEF TypeOK, OneByOneInv, PooledInv, Halted, Begin, RetryDue, ToRetry, In
<1>2. OneByOneInv'
  BY RowFacts DEF TypeOK, OneByOneInv, Halted, Begin, RetryDue, ToRetry, In
<1>3. PooledInv'
  BY RowFacts DEF TypeOK, PooledInv, Halted, Begin, RetryDue, ToRetry, In
<1>4. SavedLast'
  BY DEF SavedLast, OneByOneInv
<1> QED
  BY <1>1, <1>2, <1>3, <1>4

LEMMA NextPassKeepsInv ==
    ASSUME Inv, NextPass
    PROVE  Inv'
<1> USE StreamScanAssumption DEF Inv, NextPass, scan, sequential, pool, Stream
<1>1. TypeOK'
  BY RowFacts DEF TypeOK, OneByOneInv, PooledInv, Halted, Begin, RetryDue, ToRetry, In
<1>2. OneByOneInv'
  BY RowFacts DEF TypeOK, OneByOneInv, Halted, Begin, RetryDue, ToRetry, In
<1>3. PooledInv'
  BY RowFacts DEF TypeOK, PooledInv, Halted, Begin, RetryDue, ToRetry, In
<1>4. SavedLast'
  BY DEF SavedLast, OneByOneInv
<1> QED
  BY <1>1, <1>2, <1>3, <1>4

LEMMA SubmitPassKeepsInv ==
    ASSUME Inv, SubmitPass
    PROVE  Inv'
<1> USE StreamScanAssumption DEF Inv, SubmitPass, scan, sequential, pool, Stream
<1>1. TypeOK'
  BY RowFacts DEF TypeOK, OneByOneInv, PooledInv, Halted, Begin, RetryDue, ToRetry, In
<1>2. OneByOneInv'
  BY RowFacts DEF TypeOK, OneByOneInv, Halted, Begin, RetryDue, ToRetry, In
<1>3. PooledInv'
  BY RowFacts DEF TypeOK, PooledInv, Halted, Begin, RetryDue, ToRetry, In
<1>4. SavedLast'
  BY DEF SavedLast, OneByOneInv
<1> QED
  BY <1>1, <1>2, <1>3, <1>4

LEMMA LeavePassesKeepsInv ==
    ASSUME Inv, LeavePasses
    PROVE  Inv'
<1> USE StreamScanAssumption DEF Inv, LeavePasses, scan, sequential, pool, Stream
<1>1. TypeOK'
  BY RowFacts DEF TypeOK, OneByOneInv, PooledInv, Halted, Begin, RetryDue, ToRetry, In
<1>2. OneByOneInv'
  BY RowFacts DEF TypeOK, OneByOneInv, Halted, Begin, RetryDue, ToRetry, In
<1>3. PooledInv'
  BY RowFacts DEF TypeOK, PooledInv, Halted, Begin, RetryDue, ToRetry, In
<1>4. SavedLast'
  BY DEF SavedLast, OneByOneInv
<1> QED
  BY <1>1, <1>2, <1>3, <1>4

LEMMA RaisesKeepsInv ==
    ASSUME Inv, Raises
    PROVE  Inv'
<1> USE StreamScanAssumption DEF Inv, Raises, scan, sequential, pool, Stream
<1>1. TypeOK'
  BY RowFacts DEF TypeOK, OneByOneInv, PooledInv, Halted, Begin, RetryDue, ToRetry, In
<1>2. OneByOneInv'
  BY RowFacts DEF TypeOK, OneByOneInv, Halted, Begin, RetryDue, ToRetry, In
<1>3. PooledInv'
  BY RowFacts DEF TypeOK, PooledInv, Halted, Begin, RetryDue, ToRetry, In
<1>4. SavedLast'
  BY DEF SavedLast, OneByOneInv
<1> QED
  BY <1>1, <1>2, <1>3, <1>4

LEMMA SaveKeepsInv ==
    ASSUME Inv, Save
    PROVE  Inv'
<1> USE StreamScanAssumption DEF Inv, Save, scan, sequential, pool, Stream
<1>1. TypeOK'
  BY RowFacts DEF TypeOK, OneByOneInv, PooledInv, Halted, Begin, RetryDue, ToRetry, In
<1>2. OneByOneInv'
  BY RowFacts DEF TypeOK, OneByOneInv, Halted, Begin, RetryDue, ToRetry, In
<1>3. PooledInv'
  BY RowFacts DEF TypeOK, PooledInv, Halted, Begin, RetryDue, ToRetry, In
<1>4. SavedLast'
  BY DEF SavedLast, OneByOneInv
<1> QED
  BY <1>1, <1>2, <1>3, <1>4

LEMMA ShutdownKeepsInv ==
    ASSUME Inv, Shutdown
    PROVE  Inv'
<1> USE StreamScanAssumption DEF Inv, Shutdown, scan, sequential, pool, Stream
<1>1. TypeOK'
  BY RowFacts DEF TypeOK, OneByOneInv, PooledInv, Halted, Begin, RetryDue, ToRetry, In
<1>2. OneByOneInv'
  BY RowFacts DEF TypeOK, OneByOneInv, Halted, Begin, RetryDue, ToRetry, In
<1>3. PooledInv'
  BY RowFacts DEF TypeOK, PooledInv, Halted, Begin, RetryDue, ToRetry, In
<1>4. SavedLast'
  BY DEF SavedLast, OneByOneInv
<1> QED
  BY <1>1, <1>2, <1>3, <1>4

LEMMA LeavePoolKeepsInv ==
    ASSUME Inv, LeavePool
    PROVE  Inv'
<1> USE StreamScanAssumption DEF Inv, LeavePool, scan, sequential, pool, Stream
<1>1. TypeOK'
  BY RowFacts DEF TypeOK, OneByOneInv, PooledInv, Halted, Begin, RetryDue, ToRetry, In
<1>2. OneByOneInv'
  BY RowFacts DEF TypeOK, OneByOneInv, Halted, Begin, RetryDue, ToRetry, In
<1>3. PooledInv'
  BY RowFacts DEF TypeOK, PooledInv, Halted, Begin, RetryDue, ToRetry, In
<1>4. SavedLast'
  BY DEF SavedLast, OneByOneInv
<1> QED
  BY <1>1, <1>2, <1>3, <1>4

LEMMA StartFutureKeepsInv ==
    ASSUME Inv, NEW s \in Stream, StartFuture(s)
    PROVE  Inv'
<1> USE StreamScanAssumption DEF Inv, StartFuture, scan, sequential, In, Stream
<1>0. parallel
  BY DEF OneByOneInv, TypeOK
<1>1. TypeOK'
  <2>1. CASE stopped
    BY <2>1 DEF TypeOK
  <2>2. CASE ~stopped
    <3>1. probes[s] + 1 \in 0..Retries + 1
      BY <1>0 DEF TypeOK, PooledInv
    <3> QED
      BY <2>2, <3>1 DEF TypeOK
  <2> QED
    BY <2>1, <2>2
<1>2. OneByOneInv'
  BY <1>0 DEF OneByOneInv
<1>3. PooledInv'
  BY <1>0 DEF TypeOK, PooledInv
<1>4. SavedLast'
  BY DEF SavedLast
<1> QED
  BY <1>1, <1>2, <1>3, <1>4

LEMMA FinishFutureKeepsInv ==
    ASSUME Inv, NEW s \in Stream, FinishFuture(s)
    PROVE  Inv'
<1> USE StreamScanAssumption DEF Inv, FinishFuture, scan, sequential, pool, In, Stream
<1>0. parallel
  BY DEF OneByOneInv, TypeOK
<1>1. PICK answer \in Answers : found' = [found EXCEPT ![s] = Verdict(answer, stopped)]
  OBVIOUS
<1>2. Verdict(answer, stopped) \in Rows
  BY Heard
<1>3. TypeOK'
  BY <1>1, <1>2 DEF TypeOK
<1>4. OneByOneInv'
  BY <1>0 DEF OneByOneInv
<1>5. PooledInv'
  BY <1>0, <1>1, <1>2 DEF TypeOK, PooledInv
<1>6. SavedLast'
  BY DEF SavedLast
<1> QED
  BY <1>3, <1>4, <1>5, <1>6

LEMMA CollectKeepsInv ==
    ASSUME Inv, NEW s \in Stream, Collect(s)
    PROVE  Inv'
<1> USE StreamScanAssumption
    DEF Inv, Collect, Record, Replace, Enter, sequential, In, Halted, Stream
<1>0. parallel
  BY DEF OneByOneInv, TypeOK
<1>1. found[s] \in Rows
  BY <1>0 DEF PooledInv
<1>2. saved = {}
  BY DEF SavedLast
<1>3. TypeOK'
  BY <1>1, <1>2, RowFacts DEF TypeOK
<1>4. OneByOneInv'
  BY <1>0 DEF OneByOneInv
<1>5. PooledInv'
  BY <1>0 DEF TypeOK, PooledInv
<1>6. SavedLast'
  BY DEF SavedLast
<1> QED
  BY <1>3, <1>4, <1>5, <1>6

LEMMA FinallyKeepsInv ==
    ASSUME Inv, Finally
    PROVE  Inv'
<1> USE StreamScanAssumption DEF Inv, Finally, sequential, pool, Stream
<1>1. counted' \in 0..N
  <2> DEFINE judged == {s \in Stream : rows[s] \notin {NoRow, Cancelled}}
  <2>1. IsFiniteSet(Stream) /\ Cardinality(Stream) = N
    BY FS_Interval
  <2>2. Cardinality(judged) \in Nat /\ Cardinality(judged) <= Cardinality(Stream)
    BY <2>1, FS_Subset, FS_CardinalityType
  <2> QED
    BY <2>1, <2>2
<1>2. TypeOK'
  BY <1>1 DEF TypeOK
<1>3. OneByOneInv'
  BY DEF OneByOneInv
<1>4. PooledInv'
  BY DEF PooledInv
<1>5. SavedLast'
  BY DEF SavedLast
<1> QED
  BY <1>2, <1>3, <1>4, <1>5

LEMMA JudgeStreamKeepsInv ==
    ASSUME Inv, JudgeStream
    PROVE  Inv'
<1> USE StreamScanAssumption DEF Inv, JudgeStream, Record, Enter, pool, Stream
<1>1. PICK answer \in Answers :
        LET row == Verdict(answer, stopped) IN
        /\ Record(busy, row)
        /\ queue' = IF WorthRetry(row) /\ Retries > 0 THEN Append(queue, busy) ELSE queue
  OBVIOUS
<1> DEFINE row == Verdict(answer, stopped)
           again == WorthRetry(row) /\ Retries > 0
<1>2. row \in Rows /\ again \in BOOLEAN
  BY Heard DEF WorthRetry
<1>3. busy \in Stream /\ at \in 0..N /\ busy <= at /\ since < at /\ rows[busy] = NoRow
  BY DEF TypeOK, OneByOneInv
<1>4. queue \in Seq(Stream) /\ Distinct(queue) /\ \A i \in DOMAIN queue : queue[i] # busy
  BY <1>3, RowFacts DEF OneByOneInv
<1>5. /\ rows' = [rows EXCEPT ![busy] = row]
      /\ stats' = [stats EXCEPT ![busy] = IF row.stats = "old" THEN @ ELSE row.stats]
      /\ struck' = struck \union {busy} /\ UNCHANGED <<saved, counted>>
      /\ queue' = IF again THEN Append(queue, busy) ELSE queue
  BY <1>1
<1> HIDE DEF row
<1>6. /\ queue' \in Seq(Stream) /\ Distinct(queue')
      /\ \A i \in DOMAIN queue' : \/ queue'[i] = busy /\ again
                                  \/ queue'[i] # busy /\ \E j \in DOMAIN queue : queue'[i] = queue[j]
  <2> HIDE DEF again, Stream
  <2>1. CASE again
    <3>1. queue' = Append(queue, busy)
      BY <1>5, <2>1
    <3> QED
      BY <1>3, <1>4, <2>1, <3>1, QueueGains
  <2>2. CASE ~again
    BY <1>3, <1>4, <1>5, <2>2
  <2> QED
    BY <2>1, <2>2
<1>7. TypeOK'
  <2>1. \A i \in DOMAIN queue' : queue'[i] \in 1..at'
    BY <1>3, <1>6 DEF TypeOK
  <2>2. saved = {}
    BY DEF SavedLast
  <2> QED
    BY <1>2, <1>3, <1>5, <2>1, <2>2, RowFacts DEF TypeOK
<1>8. OneByOneInv'
  <2>1. \A i \in DOMAIN queue' : WorthRetry(rows'[queue'[i]])
    <3> TAKE i \in DOMAIN queue'
    <3>1. CASE queue'[i] = busy /\ again
      BY <1>3, <1>5, <3>1 DEF TypeOK
    <3>2. CASE queue'[i] # busy /\ \E j \in DOMAIN queue : queue'[i] = queue[j]
      <4>1. PICK j \in DOMAIN queue : queue'[i] = queue[j]
        BY <3>2
      <4>2. queue[j] \in Stream /\ WorthRetry(rows[queue[j]])
        BY <1>3 DEF OneByOneInv
      <4>3. rows'[queue[j]] = rows[queue[j]]
        BY <1>3, <1>5, <3>2, <4>1, <4>2 DEF TypeOK
      <4> QED
        BY <4>1, <4>2, <4>3
    <3> QED
      BY <1>6, <3>1, <3>2
  <2> HIDE DEF again
  <2>2. \A s \in Stream : s > at' => rows'[s] = NoRow /\ probes'[s] = 0
    BY <1>3, <1>5 DEF OneByOneInv, TypeOK
  <2>3. /\ busy' = 0 /\ busy' <= at' /\ since' <= at'
        /\ phase' = "list" /\ future' = [s \in Stream |-> "none"]
    BY <1>3 DEF OneByOneInv, TypeOK
  <2> QED
    BY <1>6, <2>1, <2>2, <2>3 DEF OneByOneInv
<1>9. PooledInv' /\ SavedLast'
  BY DEF PooledInv, SavedLast
<1> QED
  BY <1>7, <1>8, <1>9

LEMMA RetryStreamKeepsInv ==
    ASSUME Inv, RetryStream
    PROVE  Inv'
<1> USE StreamScanAssumption DEF Inv, RetryStream, RetryDue, Begin, scan, pool, Stream
<1> DEFINE head == Head(queue)
<1>1. /\ queue \in Seq(Stream) /\ queue # <<>> /\ queue' = Tail(queue) /\ Distinct(queue)
  BY DEF OneByOneInv
<1>2. /\ queue' \in Seq(Stream) /\ Distinct(queue')
      /\ \A i \in DOMAIN queue' : queue'[i] # head /\ \E j \in DOMAIN queue : queue'[i] = queue[j]
      /\ \E j \in DOMAIN queue : head = queue[j]
  BY <1>1, QueueLoses
<1>3. /\ \A i \in DOMAIN queue' : queue'[i] \in 1..at /\ WorthRetry(rows[queue'[i]])
      /\ head \in 1..at /\ WorthRetry(rows[head])
  BY <1>2 DEF OneByOneInv, TypeOK
<1> HIDE DEF head
<1>4. CASE probes[Head(queue)] <= Retries
  <2>1. busy' = head /\ probes' = [probes EXCEPT ![head] = @ + 1] /\ phase' = "retry"
    BY <1>4 DEF head
  <2>2. probes[head] <= Retries
    BY <1>4 DEF head
  <2>3. TypeOK'
    BY <1>3, <2>1, <2>2 DEF TypeOK
  <2>4. OneByOneInv'
    BY <1>2, <1>3, <2>1 DEF TypeOK, OneByOneInv
  <2>5. PooledInv' /\ SavedLast'
    BY <2>1 DEF PooledInv, SavedLast
  <2> QED
    BY <2>3, <2>4, <2>5
<1>5. CASE ~(probes[Head(queue)] <= Retries)
  <2>1. UNCHANGED <<busy, probes, phase>>
    BY <1>5
  <2>2. TypeOK'
    BY <1>3, <2>1 DEF TypeOK
  <2>3. OneByOneInv'
    BY <1>2, <1>3, <2>1 DEF TypeOK, OneByOneInv
  <2>4. PooledInv' /\ SavedLast'
    BY <2>1 DEF PooledInv, SavedLast
  <2> QED
    BY <2>2, <2>3, <2>4
<1> QED
  BY <1>4, <1>5

LEMMA JudgeRetryKeepsInv ==
    ASSUME Inv, JudgeRetry
    PROVE  Inv'
<1> USE StreamScanAssumption DEF Inv, JudgeRetry, Replace, Enter, pool, Stream
<1>1. PICK answer \in Answers :
        LET row == Verdict(answer, stopped) IN
        /\ Replace(busy, row)
        /\ queue' = IF WorthRetry(row) /\ probes[busy] <= Retries
                      THEN Append(queue, busy) ELSE queue
  OBVIOUS
<1> DEFINE row == Verdict(answer, stopped)
           again == WorthRetry(row) /\ probes[busy] <= Retries
<1>2. row \in Rows /\ again \in BOOLEAN
  BY Heard DEF WorthRetry
<1>3. /\ busy \in Stream /\ at \in 0..N /\ busy <= at
      /\ queue \in Seq(Stream) /\ Distinct(queue) /\ \A i \in DOMAIN queue : queue[i] # busy
  BY DEF TypeOK, OneByOneInv
<1>4. /\ rows' = [rows EXCEPT ![busy] = row]
      /\ stats' = [stats EXCEPT ![busy] = IF row.stats = "old" THEN @ ELSE row.stats]
      /\ UNCHANGED <<struck, saved, counted>>
      /\ queue' = IF again THEN Append(queue, busy) ELSE queue
  BY <1>1
<1> HIDE DEF row
<1>5. /\ queue' \in Seq(Stream) /\ Distinct(queue')
      /\ \A i \in DOMAIN queue' : \/ queue'[i] = busy /\ again
                                  \/ queue'[i] # busy /\ \E j \in DOMAIN queue : queue'[i] = queue[j]
  <2> HIDE DEF again, Stream
  <2>1. CASE again
    <3>1. queue' = Append(queue, busy)
      BY <1>4, <2>1
    <3> QED
      BY <1>3, <2>1, <3>1, QueueGains
  <2>2. CASE ~again
    BY <1>3, <1>4, <2>2
  <2> QED
    BY <2>1, <2>2
<1>6. TypeOK'
  <2>1. \A i \in DOMAIN queue' : queue'[i] \in 1..at'
    BY <1>3, <1>5 DEF TypeOK
  <2>2. saved = {}
    BY DEF SavedLast
  <2> QED
    BY <1>2, <1>3, <1>4, <2>1, <2>2, RowFacts DEF TypeOK
<1>7. OneByOneInv'
  <2>1. \A i \in DOMAIN queue' : WorthRetry(rows'[queue'[i]])
    <3> TAKE i \in DOMAIN queue'
    <3>1. CASE queue'[i] = busy /\ again
      BY <1>3, <1>4, <3>1 DEF TypeOK
    <3>2. CASE queue'[i] # busy /\ \E j \in DOMAIN queue : queue'[i] = queue[j]
      <4>1. PICK j \in DOMAIN queue : queue'[i] = queue[j]
        BY <3>2
      <4>2. queue[j] \in Stream /\ WorthRetry(rows[queue[j]])
        BY <1>3 DEF OneByOneInv
      <4>3. rows'[queue[j]] = rows[queue[j]]
        BY <1>3, <1>4, <3>2, <4>1, <4>2 DEF TypeOK
      <4> QED
        BY <4>1, <4>2, <4>3
    <3> QED
      BY <1>5, <3>1, <3>2
  <2> HIDE DEF again
  <2>2. \A s \in Stream : s > at' => rows'[s] = NoRow /\ probes'[s] = 0
    BY <1>3, <1>4 DEF OneByOneInv, TypeOK
  <2>3. /\ busy' = 0 /\ busy' <= at' /\ since' <= at'
        /\ phase' = "list" /\ future' = [s \in Stream |-> "none"]
    BY <1>3 DEF OneByOneInv, TypeOK
  <2> QED
    BY <1>5, <2>1, <2>2, <2>3 DEF OneByOneInv
<1>8. PooledInv' /\ SavedLast'
  BY DEF PooledInv, SavedLast
<1> QED
  BY <1>6, <1>7, <1>8

LEMMA FlushStreamKeepsInv ==
    ASSUME Inv, FlushStream
    PROVE  Inv'
<1> USE StreamScanAssumption DEF Inv, FlushStream, Begin, scan, pool, Stream
<1> DEFINE head == Head(queue)
<1>1. /\ queue \in Seq(Stream) /\ queue # <<>> /\ queue' = Tail(queue) /\ Distinct(queue)
  BY DEF OneByOneInv
<1>2. /\ queue' \in Seq(Stream) /\ Distinct(queue')
      /\ \A i \in DOMAIN queue' : queue'[i] # head /\ \E j \in DOMAIN queue : queue'[i] = queue[j]
      /\ \E j \in DOMAIN queue : head = queue[j]
  BY <1>1, QueueLoses
<1>3. /\ \A i \in DOMAIN queue' : queue'[i] \in 1..at /\ WorthRetry(rows[queue'[i]])
      /\ head \in 1..at /\ WorthRetry(rows[head])
  BY <1>2 DEF OneByOneInv, TypeOK
<1>4. PooledInv' /\ SavedLast'
  BY DEF PooledInv, SavedLast
<1> HIDE DEF head
<1>5. CASE probes[Head(queue)] <= Retries
  <2>1. busy' = head /\ probes' = [probes EXCEPT ![head] = @ + 1] /\ probes[head] <= Retries
    BY <1>5 DEF head
  <2>2. TypeOK'
    BY <1>3, <2>1 DEF TypeOK
  <2>3. OneByOneInv'
    BY <1>2, <1>3, <2>1 DEF TypeOK, OneByOneInv
  <2> QED
    BY <1>4, <2>2, <2>3
<1>6. CASE ~(probes[Head(queue)] <= Retries)
  <2>1. UNCHANGED <<busy, probes>>
    BY <1>6
  <2>2. TypeOK'
    BY <1>3, <2>1 DEF TypeOK
  <2>3. OneByOneInv'
    BY <1>2, <1>3, <2>1 DEF TypeOK, OneByOneInv
  <2> QED
    BY <1>4, <2>2, <2>3
<1> QED
  BY <1>5, <1>6

LEMMA JudgeFlushKeepsInv ==
    ASSUME Inv, JudgeFlush
    PROVE  Inv'
<1> USE StreamScanAssumption DEF Inv, JudgeFlush, Replace, Enter, pool, Stream
<1>1. PICK answer \in Answers : Replace(busy, Verdict(answer, stopped))
  OBVIOUS
<1> DEFINE row == Verdict(answer, stopped)
<1>2. row \in Rows
  BY Heard
<1>3. busy \in Stream /\ busy <= at /\ \A i \in DOMAIN queue : queue[i] # busy
  BY DEF TypeOK, OneByOneInv
<1>4. /\ rows' = [rows EXCEPT ![busy] = row]
      /\ stats' = [stats EXCEPT ![busy] = IF row.stats = "old" THEN @ ELSE row.stats]
      /\ UNCHANGED <<struck, saved, counted>>
  BY <1>1
<1> HIDE DEF row
<1>5. saved = {}
  BY DEF SavedLast
<1>6. TypeOK'
  BY <1>2, <1>3, <1>4, <1>5, RowFacts DEF TypeOK
<1>7. OneByOneInv'
  BY <1>3, <1>4 DEF OneByOneInv, TypeOK
<1>8. PooledInv' /\ SavedLast'
  BY DEF PooledInv, SavedLast
<1> QED
  BY <1>6, <1>7, <1>8

LEMMA InvIsInductive == Inv /\ [Next]_vars => Inv'
<1> SUFFICES ASSUME Inv, [Next]_vars PROVE Inv'
  OBVIOUS
<1>1. CASE OneByOne
  BY <1>1, NextStreamKeepsInv, JudgeStreamKeepsInv, RetryStreamKeepsInv, JudgeRetryKeepsInv,
     LeaveListKeepsInv, FlushStreamKeepsInv, JudgeFlushKeepsInv, LeaveFlushKeepsInv
  DEF OneByOne
<1>2. CASE Pooled
  BY <1>2, StartFutureKeepsInv, FinishFutureKeepsInv, CollectKeepsInv, ShutdownKeepsInv,
     LeavePoolKeepsInv, NextPassKeepsInv, SubmitPassKeepsInv, LeavePassesKeepsInv
  DEF Pooled
<1>3. CASE Save \/ Raises \/ Finally
  BY <1>3, SaveKeepsInv, RaisesKeepsInv, FinallyKeepsInv
<1>4. CASE Stop \/ WindowCloses
  BY <1>4, StopKeepsInv, WindowClosesKeepsInv
<1>5. CASE UNCHANGED vars
  <2> USE <1>5 DEF vars, scan, sequential, pool
  <2>1. TypeOK'
    BY DEF Inv, TypeOK
  <2>2. OneByOneInv'
    BY DEF Inv, OneByOneInv, Distinct
  <2>3. PooledInv' /\ SavedLast'
    BY DEF Inv, PooledInv, SavedLast
  <2> QED
    BY <2>1, <2>2, <2>3 DEF Inv
<1> QED
  BY <1>1, <1>2, <1>3, <1>4, <1>5 DEF Next, Thread

\* In either way the strengthening that the other theorems rest on is an invariant.
THEOREM Invariance == Spec => []Inv
<1>1. Init => Inv
  BY InitInv
<1>2. Inv /\ [Next]_vars => Inv'
  BY InvIsInductive
<1> QED
  BY <1>1, <1>2, PTL DEF Spec

\* The types: no stream is probed more often than it has retries, nothing is in the queue
\* before its turn, and what was saved is what the rows are.
THEOREM TypeCorrect == Spec => []TypeOK
<1>1. Inv => TypeOK
  BY DEF Inv
<1> QED
  BY <1>1, Invariance, PTL

-----------------------------------------------------------------------------
(* The statistics in the database. *)

\* A row that is put in its place takes its stats with it.
LEMMA EnterAgrees ==
    ASSUME TypeOK, StatsAgree, NEW s \in Stream, NEW row \in Rows, Enter(s, row)
    PROVE  StatsAgree'
<1>1. /\ rows' = [rows EXCEPT ![s] = row]
      /\ stats' = [stats EXCEPT ![s] = IF row.stats = "old" THEN stats[s] ELSE row.stats]
  BY DEF Enter
<1>2. /\ row # NoRow
      /\ row.status \in {"Alive", "Dead"} => row.stats # "old"
  BY RowFacts
<1>3. /\ rows'[s] = row
      /\ row.stats # "old" => stats'[s] = row.stats
  BY <1>1 DEF TypeOK
<1>4. \A other \in Stream : other # s => rows'[other] = rows[other] /\ stats'[other] = stats[other]
  BY <1>1 DEF TypeOK
<1>5. ASSUME NEW other \in Stream
      PROVE  /\ rows'[other] = NoRow => stats'[other] = "old"
             /\ rows'[other].status \in {"Alive", "Dead"} => stats'[other] = rows'[other].stats
  <2>1. CASE other = s
    BY <1>2, <1>3, <2>1
  <2>2. CASE other # s
    BY <1>4, <2>2 DEF StatsAgree
  <2> QED
    BY <2>1, <2>2
<1> QED
  BY <1>5 DEF StatsAgree

LEMMA StatsStep == Inv /\ StatsAgree /\ [Next]_vars => StatsAgree'
<1> SUFFICES ASSUME Inv, StatsAgree, [Next]_vars PROVE StatsAgree'
  OBVIOUS
<1>1. CASE JudgeStream \/ JudgeRetry \/ JudgeFlush
  <2>1. busy \in Stream
    BY <1>1 DEF Inv, TypeOK, OneByOneInv, JudgeStream, JudgeRetry, JudgeFlush, Stream
  <2>2. PICK answer \in Answers : Enter(busy, Verdict(answer, stopped))
    BY <1>1 DEF JudgeStream, JudgeRetry, JudgeFlush, Record, Replace
  <2>3. Verdict(answer, stopped) \in Rows
    BY Heard DEF Inv
  <2> QED
    BY <2>1, <2>2, <2>3, EnterAgrees DEF Inv
<1>2. ASSUME NEW s \in Stream, Collect(s) PROVE StatsAgree'
  <2>1. parallel /\ ~stopped /\ future[s] = "done"
    BY <1>2 DEF Collect, Halted, In, Inv, OneByOneInv, TypeOK
  <2>2. found[s] \in Rows
    BY <2>1 DEF Inv, PooledInv
  <2>3. Enter(s, found[s])
    BY <1>2 DEF Collect, Record, Replace
  <2> QED
    BY <2>2, <2>3, EnterAgrees DEF Inv
<1>3. CASE UNCHANGED <<rows, stats>>
  BY <1>3 DEF StatsAgree
<1>4. CASE NextStream \/ RetryStream \/ LeaveList \/ FlushStream \/ LeaveFlush
  BY <1>3, <1>4 DEF NextStream, RetryStream, LeaveList, FlushStream, LeaveFlush, scan
<1>5. CASE \E s \in Stream : StartFuture(s) \/ FinishFuture(s)
  BY <1>3, <1>5 DEF StartFuture, FinishFuture, scan
<1>6. CASE Shutdown \/ LeavePool \/ NextPass \/ SubmitPass \/ LeavePasses
  BY <1>3, <1>6 DEF Shutdown, LeavePool, NextPass, SubmitPass, LeavePasses, scan
<1>7. CASE Save \/ Raises \/ Finally \/ Stop \/ WindowCloses \/ UNCHANGED vars
  BY <1>3, <1>7 DEF Save, Raises, Finally, Stop, WindowCloses, vars, scan
<1> QED
  BY <1>1, <1>2, <1>4, <1>5, <1>6, <1>7 DEF Next, Thread, OneByOne, Pooled

\* What Dispatcharr shows of a stream agrees with its last verdict, whichever way, and
\* however the scan is stopped.
THEOREM StatsAgreement == Spec => []StatsAgree
<1>1. Init => StatsAgree
  BY RowFacts DEF Init, StatsAgree
<1>2. Inv /\ StatsAgree /\ [Next]_vars => StatsAgree'
  BY StatsStep
<1> QED
  BY <1>1, <1>2, Invariance, PTL DEF Spec

-----------------------------------------------------------------------------
(* The refinement. *)

\* A first row of a stream is a Judge of the abstract scan.
LEMMA FirstRow ==
    ASSUME NEW s \in Stream, NEW row \in Rows, Record(s, row), rows[s] = NoRow,
           saved = {}, phase # "over", phase' # "over"
    PROVE  Abstract!Judge(s)
BY DEF Abstract!Judge, Record, Enter

\* A later row is a Rejudge.
LEMMA LaterRow ==
    ASSUME TypeOK, NEW s \in Stream, NEW row \in Rows, Replace(s, row), WorthRetry(rows[s]),
           saved = {}, phase # "over", phase' # "over"
    PROVE  Abstract!Rejudge(s)
<1>1. rows[s] \in {r \in Rows : r.error \in Retryable}
  BY RowFacts DEF TypeOK, WorthRetry
<1> QED
  BY <1>1 DEF Abstract!Rejudge, Replace, Enter

LEMMA SameCardinality == \A set : Abstract!Cardinality(set) = Cardinality(set)
BY Zenon DEF Abstract!Cardinality, Cardinality

LEMMA StepImplements == Inv /\ [Next]_vars => [Abstract!Next]_(Abstract!vars)
<1> SUFFICES ASSUME Inv, [Next]_vars PROVE [Abstract!Next]_(Abstract!vars)
  OBVIOUS
<1>0. ASSUME UNCHANGED scan, phase # "over", phase' # "over"
      PROVE  UNCHANGED Abstract!vars
  BY <1>0 DEF scan, Abstract!vars
<1>1. CASE JudgeStream
  <2>1. /\ busy \in Stream /\ rows[busy] = NoRow /\ saved = {}
        /\ phase # "over" /\ phase' # "over"
    BY <1>1 DEF Inv, TypeOK, OneByOneInv, SavedLast, JudgeStream, Stream
  <2>2. PICK answer \in Answers : Record(busy, Verdict(answer, stopped))
    BY <1>1 DEF JudgeStream
  <2>3. Verdict(answer, stopped) \in Rows
    BY Heard DEF Inv
  <2>4. Abstract!Judge(busy)
    BY <2>1, <2>2, <2>3, FirstRow
  <2> QED
    BY <2>1, <2>4 DEF Abstract!Next
<1>2. CASE JudgeRetry \/ JudgeFlush
  <2>1. /\ busy \in Stream /\ WorthRetry(rows[busy]) /\ saved = {}
        /\ phase # "over" /\ phase' # "over"
    BY <1>2 DEF Inv, TypeOK, OneByOneInv, SavedLast, JudgeRetry, JudgeFlush, Stream
  <2>2. PICK answer \in Answers : Replace(busy, Verdict(answer, stopped))
    BY <1>2 DEF JudgeRetry, JudgeFlush
  <2>3. Verdict(answer, stopped) \in Rows
    BY Heard DEF Inv
  <2>4. Abstract!Rejudge(busy)
    BY <2>1, <2>2, <2>3, LaterRow DEF Inv
  <2> QED
    BY <2>1, <2>4 DEF Abstract!Next
<1>3. ASSUME NEW s \in Stream, Collect(s) PROVE Abstract!Next
  <2>1. /\ parallel /\ ~stopped /\ future[s] = "done" /\ saved = {}
        /\ phase # "over" /\ phase' # "over"
    BY <1>3 DEF Collect, Halted, In, Inv, OneByOneInv, TypeOK, SavedLast
  <2>2. found[s] \in Rows
    BY <2>1 DEF Inv, PooledInv
  <2>3. CASE phase = "list"
    <3>1. Record(s, found[s]) /\ rows[s] = NoRow
      BY <1>3, <2>1, <2>3 DEF Collect, Inv, PooledInv
    <3>2. Abstract!Judge(s)
      BY <2>1, <2>2, <3>1, FirstRow
    <3> QED
      BY <3>2 DEF Abstract!Next
  <2>4. CASE phase = "pass"
    <3>1. Replace(s, found[s]) /\ WorthRetry(rows[s])
      BY <1>3, <2>1, <2>4 DEF Collect, Inv, PooledInv
    <3>2. Abstract!Rejudge(s)
      BY <2>1, <2>2, <3>1, LaterRow DEF Inv
    <3> QED
      BY <3>2 DEF Abstract!Next
  <2> QED
    BY <1>3, <2>3, <2>4 DEF Collect
<1>4. CASE Save
  BY <1>4 DEF Save, Inv, SavedLast, Abstract!Next, Abstract!Save
<1>5. CASE Finally
  <2>1. \A s \in Stream : rows[s] # Cancelled
    BY RowFacts DEF Inv, TypeOK
  <2>2. {s \in Stream : rows[s] \notin {NoRow, Cancelled}} = Abstract!Judged
    BY <2>1 DEF Abstract!Judged
  <2>3. /\ counted' = Cardinality(Abstract!Judged)
        /\ ~(phase = "over") /\ (phase' = "over") = TRUE /\ UNCHANGED <<rows, struck, saved>>
    BY <1>5, <2>2 DEF Finally
  <2>4. Abstract!Finish
    BY <2>3, SameCardinality DEF Abstract!Finish
  <2> QED
    BY <2>4 DEF Abstract!Next
<1>6. CASE NextStream \/ RetryStream \/ LeaveList \/ FlushStream \/ LeaveFlush
  BY <1>0, <1>6 DEF NextStream, RetryStream, LeaveList, FlushStream, LeaveFlush
<1>7. CASE \E s \in Stream : StartFuture(s) \/ FinishFuture(s)
  BY <1>7 DEF StartFuture, FinishFuture, scan, Abstract!vars
<1>8. CASE Shutdown \/ LeavePool \/ NextPass \/ SubmitPass \/ LeavePasses
  BY <1>0, <1>8 DEF Shutdown, LeavePool, NextPass, SubmitPass, LeavePasses
<1>9. CASE Raises \/ Stop \/ WindowCloses \/ UNCHANGED vars
  BY <1>0, <1>9 DEF Raises, Stop, WindowCloses, vars, scan, Abstract!vars
<1> QED
  BY <1>1, <1>2, <1>3, <1>4, <1>5, <1>6, <1>7, <1>8, <1>9
  DEF Next, Thread, OneByOne, Pooled

\* Going through the list one by one, and with a pool of workers, implements the same
\* abstract scan: struck off with the first row, replaced only where a retry is due, saved
\* at most once and last, counted in any case.
THEOREM Refinement == Spec => ImplementsScan
<1>1. Init => Abstract!Init
  BY DEF Init, Abstract!Init
<1>2. Inv /\ [Next]_vars => [Abstract!Next]_(Abstract!vars)
  BY StepImplements
<1> QED
  BY <1>1, <1>2, Invariance, PTL DEF Spec, ImplementsScan, Abstract!Spec
-----------------------------------------------------------------------------
(* The rate-limit guard the probes share. *)

LEMMA GuardNumbers ==
    /\ Cardinality(Prober) \in Nat \ {0}
    /\ Limit \in Nat /\ TRIP <= Limit /\ Cardinality(Prober) <= Limit
    /\ Burst = Limit + Cardinality(Prober) /\ Burst \in Nat
<1>1. Cardinality(Prober) \in Nat \ {0}
  BY GuardAssumption, FS_CardinalityType, FS_EmptySet
<1> QED
  BY <1>1, GuardAssumption DEF Limit, Burst

LEMMA FunctionIsSeq ==
    ASSUME NEW set, NEW n \in Nat, NEW f \in [1..n -> set]
    PROVE  f \in Seq(set) /\ Len(f) = n
OBVIOUS

LEMMA HitAges ==
    ASSUME GuardTypeOK
    PROVE  /\ Len(hits) \in Nat /\ DOMAIN hits = 1..Len(hits)
           /\ \A r \in 1..Len(hits) : hits[r] \in 0..WINDOW + 1
<1> DEFINE S == 0..WINDOW + 1
<1>1. hits \in Seq(S)
  BY DEF GuardTypeOK
<1> HIDE DEF S
<1>2. Len(hits) \in Nat /\ DOMAIN hits = 1..Len(hits) /\ \A r \in 1..Len(hits) : hits[r] \in S
  BY <1>1
<1> QED
  BY <1>2 DEF S

\* A new hit and the newest n of the recorded ones.
LEMMA OneMoreHit ==
    ASSUME GuardTypeOK, NEW n \in 0..Len(hits)
    PROVE  /\ OneMore(hits, n + 1) \in Seq(0..WINDOW + 1)
           /\ Len(OneMore(hits, n + 1)) = n + 1
           /\ OneMore(hits, n + 1)[1] = 0
           /\ \A r \in 2..n + 1 : OneMore(hits, n + 1)[r] = hits[r - 1]
<1> DEFINE f == OneMore(hits, n + 1)
<1>1. n + 1 \in Nat /\ Len(hits) \in Nat
  BY HitAges
<1>2. \A r \in 1..n + 1 : r # 1 => hits[r - 1] \in 0..WINDOW + 1
  <2>1. \A r \in 1..Len(hits) : hits[r] \in 0..WINDOW + 1
    BY HitAges
  <2>2. \A r \in 1..n + 1 : r # 1 => r - 1 \in 1..Len(hits)
    BY <1>1
  <2> QED
    BY <2>1, <2>2
<1>3. f = [r \in 1..n + 1 |-> IF r = 1 THEN 0 ELSE hits[r - 1]]
  BY DEF OneMore
<1>4. f \in [1..n + 1 -> 0..WINDOW + 1]
  BY <1>2, <1>3, GuardAssumption
<1>5. f \in Seq(0..WINDOW + 1) /\ Len(f) = n + 1
  BY <1>1, <1>4, FunctionIsSeq
<1> QED
  BY <1>1, <1>3, <1>5

\* A new refusal, and the others move on by one.
LEMMA OneMoreRefused ==
    ASSUME GuardTypeOK
    PROVE  /\ OneMore(refused, Burst) \in [1..Burst -> 0..WINDOW]
           /\ OneMore(refused, Burst)[1] = 0
           /\ \A r \in 2..Burst : OneMore(refused, Burst)[r] = refused[r - 1]
<1> DEFINE f == OneMore(refused, Burst)
<1>1. f = [r \in 1..Burst |-> IF r = 1 THEN 0 ELSE refused[r - 1]]
  BY DEF OneMore
<1>2. \A r \in 1..Burst : r # 1 => refused[r - 1] \in 0..WINDOW
  <2>1. \A r \in 1..Burst : r # 1 => r - 1 \in 1..Burst
    BY GuardNumbers
  <2>2. \A r \in 1..Burst : refused[r] \in 0..WINDOW
    BY DEF GuardTypeOK
  <2> QED
    BY <2>1, <2>2
<1>3. Burst >= 1 /\ Burst \in Nat
  BY GuardNumbers
<1> QED
  BY <1>1, <1>2, <1>3, GuardAssumption

\* A tick later the hits, and the refusals, are one tick older.
LEMMA OlderHits ==
    ASSUME GuardTypeOK
    PROVE  /\ Older(hits, WINDOW + 1) \in Seq(0..WINDOW + 1)
           /\ Len(Older(hits, WINDOW + 1)) = Len(hits)
           /\ \A r \in 1..Len(hits) :
                Older(hits, WINDOW + 1)[r] = Capped(hits[r] + 1, WINDOW + 1)
<1> DEFINE f == Older(hits, WINDOW + 1)
<1>1. DOMAIN hits = 1..Len(hits) /\ Len(hits) \in Nat
  BY HitAges
<1>2. f = [r \in 1..Len(hits) |-> Capped(hits[r] + 1, WINDOW + 1)]
  BY <1>1 DEF Older
<1>3. \A r \in 1..Len(hits) : Capped(hits[r] + 1, WINDOW + 1) \in 0..WINDOW + 1
  <2>1. \A r \in 1..Len(hits) : hits[r] \in 0..WINDOW + 1
    BY HitAges
  <2> QED
    BY <2>1, GuardAssumption DEF Capped
<1>4. f \in [1..Len(hits) -> 0..WINDOW + 1]
  BY <1>2, <1>3
<1>5. f \in Seq(0..WINDOW + 1) /\ Len(f) = Len(hits)
  BY <1>1, <1>4, FunctionIsSeq
<1> QED
  BY <1>2, <1>5

LEMMA OlderRefused ==
    ASSUME GuardTypeOK
    PROVE  /\ Older(refused, WINDOW) \in [1..Burst -> 0..WINDOW]
           /\ \A r \in 1..Burst : Older(refused, WINDOW)[r] = Capped(refused[r] + 1, WINDOW)
<1>1. Older(refused, WINDOW) = [r \in 1..Burst |-> Capped(refused[r] + 1, WINDOW)]
  BY DEF Older, GuardTypeOK
<1>2. \A r \in 1..Burst : Capped(refused[r] + 1, WINDOW) \in 0..WINDOW
  BY GuardAssumption DEF Capped, GuardTypeOK
<1> QED
  BY <1>1, <1>2

\* The ages, the lengths and what every thread is at keep their types.
THEOREM GuardTypeCorrect == GuardSpec => []GuardTypeOK
<1>1. GuardInit => GuardTypeOK
  BY GuardAssumption, GuardNumbers DEF GuardInit, GuardTypeOK
<1>2. GuardTypeOK /\ [GuardNext]_guardVars => GuardTypeOK'
  <2> SUFFICES ASSUME GuardTypeOK, [GuardNext]_guardVars
               PROVE  GuardTypeOK'
    OBVIOUS
  <2> USE GuardAssumption, GuardNumbers DEF GuardTypeOK
  <2>1. ASSUME NEW w \in Prober, Throttle(w)
        PROVE  GuardTypeOK'
    <3>1. nextCooldown' \in BASE..MAX
      BY <2>1 DEF Throttle
    <3>2. prober' \in [Prober -> {"idle", "waiting", "probing"}]
      BY <2>1 DEF Throttle
    <3>3. UNCHANGED <<hits, cooldown, sinceHit, refused>>
      BY <2>1 DEF Throttle
    <3> QED
      BY <3>1, <3>2, <3>3
  <2>2. ASSUME NEW w \in Prober, Wake(w) \/ OtherAnswer(w)
        PROVE  GuardTypeOK'
    BY <2>2 DEF Wake, OtherAnswer
  <2>3. ASSUME NEW w \in Prober, RecordHit(w)
        PROVE  GuardTypeOK'
    <3>1. PICK n \in Recent :
            IF Trips(n + 1) /\ cooldown = 0
              THEN /\ cooldown' = nextCooldown
                   /\ nextCooldown' = Doubled(nextCooldown)
                   /\ hits' = <<>>
              ELSE /\ hits' = OneMore(hits, n + 1)
                   /\ UNCHANGED <<cooldown, nextCooldown>>
      BY <2>3 DEF RecordHit
    <3>2. n \in 0..Len(hits)
      BY <3>1 DEF Recent
    <3>3. hits' \in Seq(0..WINDOW + 1)
      <4>1. OneMore(hits, n + 1) \in Seq(0..WINDOW + 1)
        BY <3>2, OneMoreHit
      <4>2. <<>> \in Seq(0..WINDOW + 1)
        OBVIOUS
      <4>3. hits' = <<>> \/ hits' = OneMore(hits, n + 1)
        BY <3>1
      <4> HIDE DEF GuardTypeOK
      <4> QED
        BY <4>1, <4>2, <4>3
    <3>4. cooldown' \in 0..MAX /\ nextCooldown' \in BASE..MAX
      BY <3>1 DEF Doubled, Capped
    <3>5. refused' \in [1..Burst -> 0..WINDOW]
      BY <2>3, OneMoreRefused DEF RecordHit
    <3>6. sinceHit' = 0 /\ prober' = [prober EXCEPT ![w] = "idle"]
      BY <2>3 DEF RecordHit
    <3> QED
      BY <3>3, <3>4, <3>5, <3>6
  <2>4. CASE Tick
    <3>1. hits' \in Seq(0..WINDOW + 1) /\ refused' \in [1..Burst -> 0..WINDOW]
      BY <2>4, OlderHits, OlderRefused DEF Tick
    <3> QED
      BY <2>4, <3>1 DEF Tick, Capped
  <2>5. CASE UNCHANGED guardVars
    BY <2>5 DEF guardVars
  <2> QED
    BY <2>1, <2>2, <2>3, <2>4, <2>5 DEF GuardNext
<1> QED
  BY <1>1, <1>2, PTL DEF GuardSpec

\* How many probes are under way.
InFlight == Cardinality({w \in Prober : prober[w] = "probing"})

\* While the pause is on, what is under way can only add as many hits as there are
\* threads but one.  The newest refusals are the recorded hits; those that were cleared
\* leave the window before the pause ends; and those the probes under way can still push
\* to the last place have left it.
GuardInv ==
    /\ IF cooldown > 0
         THEN Len(hits) + InFlight < Cardinality(Prober)
         ELSE Len(hits) < Limit
    /\ \A r \in 1..Burst :
         /\ r <= Len(hits) => refused[r] = Capped(hits[r], WINDOW)
         /\ r > Len(hits) => refused[r] + cooldown >= WINDOW
         /\ cooldown > 0 /\ r + InFlight >= Burst => refused[r] = WINDOW

LEMMA InFlightType ==
    InFlight \in Nat /\ InFlight <= Cardinality(Prober)
<1>1. {w \in Prober : prober[w] = "probing"} \in SUBSET Prober
  OBVIOUS
<1> QED
  BY <1>1, GuardAssumption, FS_Subset, FS_CardinalityType DEF InFlight

\* A probe that ends is one less.
LEMMA InFlightLess ==
    ASSUME GuardTypeOK, NEW w \in Prober, prober[w] = "probing",
           prober' = [prober EXCEPT ![w] = "idle"]
    PROVE  InFlight' = InFlight - 1
<1> DEFINE S == {v \in Prober : prober[v] = "probing"}
<1>1. {v \in Prober : prober'[v] = "probing"} = S \ {w}
  BY DEF GuardTypeOK
<1>2. IsFiniteSet(S)
  <2>1. S \in SUBSET Prober
    OBVIOUS
  <2> QED
    BY <2>1, GuardAssumption, FS_Subset
<1>3. w \in S
  OBVIOUS
<1>4. Cardinality(S \ {w}) = Cardinality(S) - 1
  BY <1>2, <1>3, FS_RemoveElement
<1> QED
  BY <1>1, <1>4 DEF InFlight

\* As long as nobody starts or ends a probe, as many are under way.
LEMMA InFlightSame ==
    ASSUME \A v \in Prober : prober'[v] = "probing" <=> prober[v] = "probing"
    PROVE  InFlight' = InFlight
<1>1. {v \in Prober : prober'[v] = "probing"} = {v \in Prober : prober[v] = "probing"}
  OBVIOUS
<1> QED
  BY <1>1 DEF InFlight

LEMMA GuardInvHit ==
    ASSUME GuardTypeOK, GuardInv, NEW w \in Prober, RecordHit(w)
    PROVE  GuardInv'
<1> USE GuardAssumption, GuardNumbers
<1>1. InFlight' = InFlight - 1 /\ InFlight' \in Nat /\ InFlight \in Nat
      /\ InFlight <= Cardinality(Prober)
  <2>1. InFlight' = InFlight - 1
    BY InFlightLess DEF RecordHit
  <2>2. InFlight' = Cardinality({v \in Prober : prober'[v] = "probing"})
    BY DEF InFlight
  <2>3. InFlight' \in Nat
    <3>1. {v \in Prober : prober'[v] = "probing"} \in SUBSET Prober
      OBVIOUS
    <3> QED
      BY <3>1, <2>2, FS_Subset, FS_CardinalityType
  <2> QED
    BY <2>1, <2>3, InFlightType
<1>2. PICK n \in Recent :
        IF Trips(n + 1) /\ cooldown = 0
          THEN /\ cooldown' = nextCooldown
               /\ nextCooldown' = Doubled(nextCooldown)
               /\ hits' = <<>>
          ELSE /\ hits' = OneMore(hits, n + 1)
               /\ UNCHANGED <<cooldown, nextCooldown>>
  BY DEF RecordHit
<1>3. /\ n \in 0..Len(hits) /\ Len(hits) \in Nat
      /\ \A r \in n + 1..Len(hits) : hits[r] > WINDOW
      /\ \A r \in 1..Len(hits) : hits[r] \in 0..WINDOW + 1
  BY <1>2 DEF Recent, GuardTypeOK
<1>4. /\ refused'[1] = 0
      /\ \A r \in 2..Burst : refused'[r] = refused[r - 1]
      /\ \A r \in 1..Burst : refused[r] \in 0..WINDOW
  <2>1. refused' = OneMore(refused, Burst)
    BY DEF RecordHit
  <2> QED
    BY <2>1, OneMoreRefused DEF GuardTypeOK
<1>5. cooldown \in Nat /\ nextCooldown \in Nat /\ BASE <= nextCooldown
  BY DEF GuardTypeOK
<1>6. Len(hits) < Limit
  BY <1>1, <1>3, <1>5 DEF GuardInv
<1>7. CASE Trips(n + 1) /\ cooldown = 0
  <2>1. cooldown' = nextCooldown /\ cooldown' >= WINDOW /\ cooldown' > 0 /\ hits' = <<>>
    BY <1>2, <1>5, <1>7
  <2>2. Len(hits') = 0
    BY <2>1
  <2>3. Len(hits') + InFlight' < Cardinality(Prober)
    BY <1>1, <2>2
  <2>4. ASSUME NEW r \in 1..Burst
        PROVE  /\ refused'[r] + cooldown' >= WINDOW
               /\ r + InFlight' >= Burst => refused'[r] = WINDOW
    <3>1. refused'[r] \in 0..WINDOW
      BY <1>4
    <3>2. ASSUME r + InFlight' >= Burst
          PROVE  refused'[r] = WINDOW
      <4>1. r - 1 \in 1..Burst /\ r - 1 > Len(hits)
        BY <1>1, <1>3, <1>6, <3>2
      <4>2. refused[r - 1] >= WINDOW
        BY <1>4, <1>5, <1>7, <4>1 DEF GuardInv
      <4> QED
        BY <1>4, <4>1, <4>2
    <3> QED
      BY <1>5, <2>1, <3>1, <3>2
  <2> QED
    BY <2>1, <2>2, <2>3, <2>4 DEF GuardInv
<1>8. CASE ~(Trips(n + 1) /\ cooldown = 0)
  <2>1. /\ hits' = OneMore(hits, n + 1) /\ cooldown' = cooldown
        /\ Len(hits') = n + 1 /\ hits'[1] = 0
        /\ \A r \in 2..n + 1 : hits'[r] = hits[r - 1]
    <3>1. hits' = OneMore(hits, n + 1) /\ cooldown' = cooldown
      BY <1>2, <1>8
    <3> QED
      BY <1>3, <3>1, OneMoreHit
  <2>2. IF cooldown' > 0
          THEN Len(hits') + InFlight' < Cardinality(Prober)
          ELSE Len(hits') < Limit
    BY <1>1, <1>3, <1>5, <1>8, <2>1 DEF GuardInv, Trips
  <2>3. ASSUME NEW r \in 1..Burst
        PROVE  /\ r <= Len(hits') => refused'[r] = Capped(hits'[r], WINDOW)
               /\ r > Len(hits') => refused'[r] + cooldown' >= WINDOW
               /\ cooldown' > 0 /\ r + InFlight' >= Burst => refused'[r] = WINDOW
    <3>1. CASE r = 1
      BY <1>1, <1>3, <1>4, <2>1, <3>1 DEF Capped
    <3>2. CASE r > 1
      <4>1. r - 1 \in 1..Burst /\ refused'[r] = refused[r - 1] /\ refused[r - 1] \in 0..WINDOW
        BY <1>4, <3>2
      <4>2. ASSUME r <= n + 1
            PROVE  refused'[r] = Capped(hits'[r], WINDOW)
        <5>1. r - 1 <= Len(hits) /\ hits'[r] = hits[r - 1]
          BY <1>3, <2>1, <3>2, <4>2
        <5> QED
          BY <4>1, <5>1 DEF GuardInv
      <4>3. ASSUME r > n + 1
            PROVE  refused'[r] + cooldown' >= WINDOW
        <5>1. CASE r - 1 <= Len(hits)
          <6>1. hits[r - 1] > WINDOW /\ hits[r - 1] \in Nat
            BY <1>3, <3>2, <4>3, <5>1
          <6>2. refused[r - 1] = Capped(hits[r - 1], WINDOW)
            BY <4>1, <5>1 DEF GuardInv
          <6> QED
            BY <1>5, <2>1, <4>1, <6>1, <6>2 DEF Capped
        <5>2. CASE r - 1 > Len(hits)
          BY <2>1, <4>1, <5>2 DEF GuardInv
        <5> QED
          BY <1>3, <5>1, <5>2
      <4>4. ASSUME cooldown' > 0, r + InFlight' >= Burst
            PROVE  refused'[r] = WINDOW
        <5>1. (r - 1) + InFlight >= Burst /\ cooldown > 0
          BY <1>1, <2>1, <4>4
        <5> QED
          BY <4>1, <5>1 DEF GuardInv
      <4> QED
        BY <1>3, <2>1, <4>2, <4>3, <4>4
    <3> QED
      BY <3>1, <3>2
  <2> QED
    BY <2>2, <2>3 DEF GuardInv
<1> QED
  BY <1>7, <1>8

LEMMA GuardInvTick ==
    ASSUME GuardTypeOK, GuardInv, Tick
    PROVE  GuardInv'
<1> USE GuardAssumption, GuardNumbers
<1>1. InFlight' = InFlight /\ InFlight \in Nat
  BY InFlightSame, InFlightType DEF Tick
<1>2. /\ Len(hits) \in Nat /\ hits' = Older(hits, WINDOW + 1)
      /\ \A r \in 1..Len(hits) : hits[r] \in 0..WINDOW + 1
  BY DEF Tick, GuardTypeOK
<1>3. /\ Len(hits') = Len(hits)
      /\ \A r \in 1..Len(hits) : hits'[r] = Capped(hits[r] + 1, WINDOW + 1)
  BY <1>2, OlderHits
<1>4. \A r \in 1..Burst : refused[r] \in 0..WINDOW /\ refused'[r] = Capped(refused[r] + 1, WINDOW)
  <2>1. refused' = Older(refused, WINDOW)
    BY DEF Tick
  <2> QED
    BY <2>1, OlderRefused DEF GuardTypeOK
<1>5. cooldown \in Nat /\ cooldown' = IF cooldown = 0 THEN 0 ELSE cooldown - 1
  BY DEF Tick, GuardTypeOK
<1>6. IF cooldown' > 0
        THEN Len(hits') + InFlight' < Cardinality(Prober)
        ELSE Len(hits') < Limit
  BY <1>1, <1>2, <1>3, <1>5 DEF GuardInv
<1>7. ASSUME NEW r \in 1..Burst
      PROVE  /\ r <= Len(hits') => refused'[r] = Capped(hits'[r], WINDOW)
             /\ r > Len(hits') => refused'[r] + cooldown' >= WINDOW
             /\ cooldown' > 0 /\ r + InFlight' >= Burst => refused'[r] = WINDOW
  <2>1. ASSUME r <= Len(hits')
        PROVE  refused'[r] = Capped(hits'[r], WINDOW)
    <3>1. refused[r] = Capped(hits[r], WINDOW) /\ hits[r] \in 0..WINDOW + 1
      BY <1>2, <1>3, <2>1 DEF GuardInv
    <3> QED
      BY <1>2, <1>3, <1>4, <2>1, <3>1 DEF Capped
  <2>2. ASSUME r > Len(hits')
        PROVE  refused'[r] + cooldown' >= WINDOW
    <3>1. refused[r] + cooldown >= WINDOW
      BY <1>3, <2>2 DEF GuardInv
    <3> QED
      BY <1>4, <1>5, <3>1 DEF Capped
  <2>3. ASSUME cooldown' > 0, r + InFlight' >= Burst
        PROVE  refused'[r] = WINDOW
    <3>1. refused[r] = WINDOW
      BY <1>1, <1>5, <2>3 DEF GuardInv
    <3> QED
      BY <1>4, <3>1 DEF Capped
  <2> QED
    BY <2>1, <2>2, <2>3
<1> QED
  BY <1>6, <1>7 DEF GuardInv

LEMMA GuardInvariance == GuardSpec => [](GuardTypeOK /\ GuardInv)
<1>1. GuardInit => GuardInv
  <2> SUFFICES ASSUME GuardInit
               PROVE  GuardInv
    OBVIOUS
  <2> QED
    BY GuardAssumption, GuardNumbers DEF GuardInit, GuardInv
<1>2. GuardTypeOK /\ GuardInv /\ [GuardNext]_guardVars => GuardInv'
  <2> SUFFICES ASSUME GuardTypeOK, GuardInv, [GuardNext]_guardVars
               PROVE  GuardInv'
    OBVIOUS
  <2>1. ASSUME NEW w \in Prober, Throttle(w) \/ Wake(w)
        PROVE  GuardInv'
    <3>1. UNCHANGED <<hits, cooldown, refused>>
      BY <2>1 DEF Throttle, Wake
    <3>2. CASE cooldown = 0
      BY <3>1, <3>2 DEF GuardInv
    <3>3. CASE cooldown # 0
      <4>1. InFlight' = InFlight
        <5>1. \A v \in Prober : prober'[v] = "probing" <=> prober[v] = "probing"
          BY <2>1, <3>3 DEF Throttle, Wake, GuardTypeOK
        <5> QED
          BY <5>1, InFlightSame
      <4> QED
        BY <3>1, <4>1 DEF GuardInv
    <3> QED
      BY <3>2, <3>3
  <2>2. ASSUME NEW w \in Prober, OtherAnswer(w)
        PROVE  GuardInv'
    <3>1. UNCHANGED <<hits, cooldown, refused>> /\ InFlight' = InFlight - 1
      BY <2>2, InFlightLess DEF OtherAnswer
    <3>2. Len(hits) \in Nat /\ InFlight \in Nat /\ Burst \in Nat /\ Cardinality(Prober) \in Nat
      BY InFlightType, GuardNumbers DEF GuardTypeOK
    <3>3. cooldown' > 0 => Len(hits') + InFlight' < Cardinality(Prober)
      BY <3>1, <3>2 DEF GuardInv
    <3>4. ~(cooldown' > 0) => Len(hits') < Limit
      BY <3>1 DEF GuardInv
    <3>5. \A r \in 1..Burst : r + InFlight' >= Burst => r + InFlight >= Burst
      BY <3>1, <3>2
    <3> QED
      BY <3>1, <3>3, <3>4, <3>5 DEF GuardInv
  <2>3. ASSUME NEW w \in Prober, RecordHit(w)
        PROVE  GuardInv'
    BY <2>3, GuardInvHit
  <2>4. CASE Tick
    BY <2>4, GuardInvTick
  <2>5. CASE UNCHANGED guardVars
    <3>1. InFlight' = InFlight
      BY <2>5, InFlightSame DEF guardVars
    <3> QED
      BY <2>5, <3>1 DEF guardVars, GuardInv
  <2> QED
    BY <2>1, <2>2, <2>3, <2>4, <2>5 DEF GuardNext
<1> QED
  BY <1>1, <1>2, GuardTypeCorrect, PTL DEF GuardSpec

\* A window never holds the hits that trip the guard unless the pause is on: also not when
\* the pause ends, with what the probes that were under way at its start have added.
THEOREM NoBurstUnpaused == GuardSpec => []BurstsPause
<1>1. GuardTypeOK /\ GuardInv => BurstsPause
  <2> SUFFICES ASSUME GuardTypeOK, GuardInv, Len(hits) >= Limit, ~(cooldown > 0)
               PROVE  FALSE
    BY DEF BurstsPause
  <2> QED
    BY GuardNumbers DEF GuardTypeOK, GuardInv
<1> QED
  BY <1>1, GuardInvariance, PTL

\* In no window does the provider have to refuse more probes than trip the guard and were
\* under way when it tripped, whatever the threads do and however often the guard trips.
THEOREM RefusalsBounded == GuardSpec => []ProviderSpared
<1>1. GuardTypeOK /\ GuardInv => ProviderSpared
  <2> SUFFICES ASSUME GuardTypeOK, GuardInv
               PROVE  ProviderSpared
    OBVIOUS
  <2>1. Burst \in 1..Burst /\ Len(hits) \in Nat /\ InFlight \in Nat /\ cooldown \in Nat
    BY GuardNumbers, InFlightType DEF GuardTypeOK
  <2>2. CASE cooldown > 0
    BY <2>1, <2>2, GuardNumbers DEF GuardInv, ProviderSpared
  <2>3. CASE cooldown = 0
    <3>1. Len(hits) < Limit /\ Limit < Burst /\ Limit \in Nat
      BY <2>3, GuardNumbers DEF GuardInv
    <3>2. Burst > Len(hits)
      BY <2>1, <3>1
    <3>3. refused[Burst] >= WINDOW /\ refused[Burst] \in 0..WINDOW
      BY <2>1, <2>3, <3>2, GuardAssumption DEF GuardInv, GuardTypeOK
    <3> QED
      BY <3>3, GuardAssumption DEF ProviderSpared
  <2> QED
    BY <2>1, <2>2, <2>3
<1> QED
  BY <1>1, GuardInvariance, PTL
=============================================================================
