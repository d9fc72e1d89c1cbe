------------------------ MODULE UsageReporterProofs ------------------------
(* Theorems about UsageReporter, for any number of callers, any intervals  *)
(* in the order the code gives them, and any number of faults.             *)
EXTENDS UsageReporter, TLAPS

\* The flock: whoever is in a background thread holds it, and nobody else.
Exclusive == \A c \in Caller : pc[c] \in Holding <=> lock = c

\* Where an id is: a report is posted under one, the id is forgotten when the server
\* has nothing of it, and with no id on disk nothing was accepted lately.
Ids ==
    /\ figures \subseteq {installId}
    /\ installId = NoId => accepted = FORCE
    /\ \A c \in Caller :
         /\ pc[c] = "post" => installId # NoId
         /\ pc[c] = "forget" => figures = {} /\ accepted = FORCE

\* A thread that will, or did, report with nothing noted of it yet.
Sending(c) ==
    \/ pc[c] \in {"consent", "load id", "post"}
    \/ pc[c] = "answered" /\ answer[c] \in {"none", "gone", "limited"}

Unnoted(c) == pc[c] = "answered" /\ answer[c] \in {"accepted", "failed"}

\* The last report that was accepted is long ago, or will be noticed: by the age of
\* `sent', by the backoff, or by the lock of the thread that has yet to note it.  What
\* a fault left unnoticed makes up for one early report.
Noticed ==
    \/ accepted = FORCE
    \/ sent <= accepted
    \/ backoff + accepted >= FORCE
    \/ early < faults
    \/ \E c \in Caller : Unnoted(c)

Spacing ==
    /\ early <= faults
    /\ Noticed
    /\ \A c \in Caller : Sending(c) => accepted = FORCE \/ early < faults

Inv == TypeOK /\ Exclusive /\ Ids /\ Spacing

LEMMA InitInv == Init => Inv
BY UsageAssumption, NobodyAssumption
DEF Init, Inv, TypeOK, Exclusive, Ids, Spacing, Noticed, Sending, Unnoted, NoId, Holding

-----------------------------------------------------------------------------
(* The types in two parts: the callers, and the numbers. *)

Places == Holding \union {"idle", "lock to send", "lock to delete"}
Answers == {"none", "accepted", "gone", "limited", "failed"}

CallersOK ==
    /\ lock \in Caller \union {Nobody}
    /\ pc \in [Caller -> Places]
    /\ force \in [Caller -> BOOLEAN]
    /\ answer \in [Caller -> Answers]

NumbersOK ==
    /\ choices \in 0..MaxChoices /\ made \in Nat /\ installId \in 0..made
    /\ sent \in 0..SEND /\ backoff \in 0..RATE /\ disabled \in 0..DISABLED
    /\ deleteBackoff \in 0..RATE
    /\ accepted \in 0..FORCE /\ early \in Nat /\ faults \in 0..MaxFaults

LEMMA Constants ==
    /\ FORCE \in Nat /\ SEND \in Nat /\ FAILURE \in Nat /\ RATE \in Nat
    /\ DISABLED \in Nat /\ MaxChoices \in Nat /\ MaxFaults \in Nat
    /\ 1 <= FORCE /\ FORCE <= SEND /\ FORCE <= FAILURE /\ FAILURE <= RATE
    /\ FORCE <= DISABLED
BY UsageAssumption

LEMMA Typed ==
    ASSUME TypeOK
    PROVE  opted \in BOOLEAN /\ CallersOK /\ NumbersOK /\ figures \subseteq 1..made
BY DEF TypeOK, CallersOK, NumbersOK, Places, Answers

LEMMA NumbersTyped == Inv => NumbersOK
BY Typed DEF Inv

LEMMA TypedAgain ==
    ASSUME opted' \in BOOLEAN, CallersOK', NumbersOK', figures' \subseteq 1..made'
    PROVE  TypeOK'
BY DEF TypeOK, CallersOK, NumbersOK, Places, Answers

-----------------------------------------------------------------------------
(* A thread that holds the lock is the only one in the background. *)

\* It closes the lock, and then there is none.
LEMMA Closed ==
    ASSUME Inv, NEW c \in Caller, pc[c] \in Holding, Close(c)
    PROVE  CallersOK' /\ Exclusive' /\ \A o \in Caller : pc'[o] \notin Holding
<1> USE Typed, NobodyAssumption DEF Inv, CallersOK, Close, Return, Goto
<1>1. CallersOK'
  BY DEF Places, Answers
<1>2. lock = c /\ \A o \in Caller : o # c => pc[o] \notin Holding
  BY DEF Exclusive
<1>3. \A o \in Caller : pc'[o] \notin Holding
  BY <1>2 DEF Holding
<1> QED
  BY <1>1, <1>3 DEF Exclusive

\* It goes on, and still is the only one.
LEMMA Moved ==
    ASSUME Inv, NEW c \in Caller, pc[c] \in Holding,
           NEW label \in Holding, Goto(c, label), UNCHANGED <<lock, force>>,
           answer' \in [Caller -> Answers]
    PROVE  /\ CallersOK' /\ Exclusive'
           /\ pc'[c] = label /\ \A o \in Caller : o # c => pc'[o] \notin Holding
<1> USE Typed DEF Inv, CallersOK, Goto
<1>1. CallersOK'
  BY DEF Places
<1>2. lock = c /\ \A o \in Caller : o # c => pc[o] \notin Holding
  BY DEF Exclusive
<1>3. pc'[c] = label /\ \A o \in Caller : o # c => pc'[o] \notin Holding
  BY <1>2
<1> QED
  BY <1>1, <1>2, <1>3 DEF Exclusive

-----------------------------------------------------------------------------
(* Step by step. *)

LEMMA ChooseKeepsInv ==
    ASSUME Inv, Choose
    PROVE  Inv'
<1> USE DEF Inv, Choose, files, server, callers
<1>1. TypeOK'
  <2>1. NumbersOK'
    BY Typed, Constants DEF NumbersOK
  <2>2. opted' \in BOOLEAN /\ CallersOK' /\ figures' \subseteq 1..made'
    BY Typed DEF CallersOK
  <2> QED
    BY <2>1, <2>2, TypedAgain
<1>2. Exclusive'
  BY DEF Exclusive
<1>3. Ids'
  BY DEF Ids
<1>4. Spacing'
  BY DEF Spacing, Noticed, Sending, Unnoted
<1> QED
  BY <1>1, <1>2, <1>3, <1>4

LEMMA TickKeepsInv ==
    ASSUME Inv, Tick
    PROVE  Inv'
<1> USE UsageAssumption DEF Inv, Tick, user, callers
<1>1. /\ sent \in 0..SEND /\ backoff \in 0..RATE /\ disabled \in 0..DISABLED
      /\ deleteBackoff \in 0..RATE /\ accepted \in 0..FORCE
  BY DEF TypeOK
<1>2. /\ sent' = IF sent + 1 < SEND THEN sent + 1 ELSE SEND
      /\ backoff' = IF backoff = 0 THEN 0 ELSE backoff - 1
      /\ disabled' = IF disabled = 0 THEN 0 ELSE disabled - 1
      /\ deleteBackoff' = IF deleteBackoff = 0 THEN 0 ELSE deleteBackoff - 1
      /\ accepted' = IF accepted + 1 < FORCE THEN accepted + 1 ELSE FORCE
  BY DEF Capped, Less
<1>3. /\ sent' \in 0..SEND /\ backoff' \in 0..RATE /\ disabled' \in 0..DISABLED
      /\ deleteBackoff' \in 0..RATE /\ accepted' \in 0..FORCE
      /\ accepted = FORCE => accepted' = FORCE
      /\ sent <= accepted => accepted' = FORCE \/ sent' <= accepted'
      /\ backoff + accepted >= FORCE => accepted' = FORCE \/ backoff' + accepted' >= FORCE
  BY <1>1, <1>2
<1>4. TypeOK'
  BY <1>3 DEF TypeOK
<1>5. Exclusive'
  BY DEF Exclusive
<1>6. Ids'
  BY <1>3 DEF Ids
<1>7. Spacing'
  BY <1>3 DEF Spacing, Noticed, Sending, Unnoted
<1> QED
  BY <1>4, <1>5, <1>6, <1>7

\* Before the lock nothing is known that would count under it.
LEMMA ReportKeepsInv ==
    ASSUME Inv, NEW c \in Caller, Report(c)
    PROVE  Inv'
<1> USE DEF Inv, Report, Goto, files, server, user, Holding
<1>1. TypeOK'
  BY DEF TypeOK
<1>2. Exclusive'
  BY NobodyAssumption DEF TypeOK, Exclusive
<1>3. Ids'
  BY DEF TypeOK, Ids
<1>4. Spacing'
  BY DEF TypeOK, Spacing, Noticed, Sending, Unnoted
<1> QED
  BY <1>1, <1>2, <1>3, <1>4

\* Where nobody has a report to note and the files block none, the last one is long ago.
LEMMA Quiet ==
    ASSUME NumbersOK, Noticed, \A o \in Caller : ~Unnoted(o),
           ~Blocked(FORCE) \/ ~Blocked(SEND)
    PROVE  accepted = FORCE \/ early < faults
<1>1. /\ sent \in Nat /\ backoff \in Nat /\ accepted \in Nat /\ accepted <= FORCE
  BY Constants DEF NumbersOK
<1>2. sent >= FORCE /\ ~(backoff > 0)
  BY <1>1, Constants DEF Blocked
<1>3. /\ sent <= accepted => accepted = FORCE
      /\ backoff + accepted >= FORCE => accepted = FORCE
  BY <1>1, <1>2, Constants
<1> QED
  BY <1>3 DEF Noticed

\* The lock is free, nobody has a report to note, and so the gap tells the truth.
LEMMA LockToSendKeepsInv ==
    ASSUME Inv, NEW c \in Caller, LockToSend(c)
    PROVE  Inv'
<1> USE NobodyAssumption DEF Inv, LockToSend, TryLock, Goto, Return, files, server, user
<1>1. TypeOK'
  <2>1. NumbersOK' /\ opted' \in BOOLEAN /\ figures' \subseteq 1..made'
    BY Typed DEF NumbersOK
  <2>2. CallersOK'
    BY Typed DEF CallersOK, Places, Answers, Holding
  <2> QED
    BY <2>1, <2>2, TypedAgain
<1>2. Exclusive'
  BY DEF TypeOK, Exclusive, Holding
<1>3. Ids'
  BY DEF TypeOK, Ids, Holding
<1>4. CASE lock # Nobody \/ Blocked(Gap(c))
  <2>1. /\ pc' = [pc EXCEPT ![c] = "idle"] /\ answer' = [answer EXCEPT ![c] = "none"]
        /\ UNCHANGED <<sent, backoff, accepted, early, faults>> /\ pc[c] = "lock to send"
    BY <1>4
  <2>2. \A o \in Caller : (Unnoted(o) => Unnoted(o)') /\ (Sending(o)' => Sending(o))
    BY <2>1, Typed DEF CallersOK, Unnoted, Sending
  <2>3. Spacing'
    BY <2>1, <2>2 DEF Spacing, Noticed
  <2> QED
    BY <1>1, <1>2, <1>3, <2>3
<1>5. CASE ~(lock # Nobody \/ Blocked(Gap(c)))
  <2>1. \A o \in Caller : ~Unnoted(o)
    BY <1>5 DEF Exclusive, Unnoted, Holding
  <2>2. Gap(c) = FORCE \/ Gap(c) = SEND
    BY DEF Gap
  <2>4. ~Blocked(FORCE) \/ ~Blocked(SEND)
    BY <1>5, <2>2
  <2>5. accepted = FORCE \/ early < faults
    BY <2>1, <2>4, NumbersTyped, Quiet DEF Spacing
  <2>6. UNCHANGED <<sent, backoff, accepted, early, faults>>
    OBVIOUS
  <2>7. Spacing'
    BY <2>5, <2>6 DEF Spacing, Noticed, Sending
  <2> QED
    BY <1>1, <1>2, <1>3, <2>7
<1> QED
  BY <1>4, <1>5

LEMMA LockToDeleteKeepsInv ==
    ASSUME Inv, NEW c \in Caller, LockToDelete(c)
    PROVE  Inv'
<1> USE NobodyAssumption
    DEF Inv, LockToDelete, TryLock, Goto, Return, files, server, user, Holding
<1>1. TypeOK'
  BY DEF TypeOK
<1>2. Exclusive'
  BY DEF TypeOK, Exclusive
<1>3. Ids'
  BY DEF TypeOK, Ids
<1>4. Spacing'
  BY DEF TypeOK, Spacing, Noticed, Sending, Unnoted
<1> QED
  BY <1>1, <1>2, <1>3, <1>4

LEMMA NoInstallIdKeepsInv ==
    ASSUME Inv, NEW c \in Caller, NoInstallId(c)
    PROVE  Inv'
<1> USE DEF NoInstallId, files, server, user
<1>1. pc[c] \in Holding /\ Close(c)
  BY DEF Holding
<1>2. CallersOK' /\ Exclusive' /\ \A o \in Caller : pc'[o] \notin Holding
  BY <1>1, Closed
<1>3. TypeOK'
  <2>1. NumbersOK'
    <3>1. /\ UNCHANGED <<choices, faults, made, installId, sent, disabled, deleteBackoff>>
          /\ UNCHANGED <<accepted, early>> /\ backoff' = FAILURE
      OBVIOUS
    <3> HIDE DEF NoInstallId
    <3> QED
      BY <3>1, NumbersTyped, Constants DEF NumbersOK
  <2>2. opted' \in BOOLEAN /\ figures' \subseteq 1..made'
    BY Typed DEF Inv
  <2> QED
    BY <1>2, <2>1, <2>2, TypedAgain
<1>4. Ids'
  BY <1>2 DEF Inv, Ids, Holding
<1>5. Spacing'
  <2>1. early' <= faults' /\ Noticed'
    BY DEF Inv, Ids, Spacing, Noticed
  <2> QED
    BY <1>2, <2>1 DEF Spacing, Sending, Holding
<1> QED
  BY <1>2, <1>3, <1>4, <1>5 DEF Inv

LEMMA NoTotalKeepsInv ==
    ASSUME Inv, NEW c \in Caller, NoTotal(c)
    PROVE  Inv'
<1> USE DEF NoTotal, files, server, user
<1>1. pc[c] \in Holding /\ Close(c)
  BY DEF Holding
<1>2. CallersOK' /\ Exclusive' /\ \A o \in Caller : pc'[o] \notin Holding
  BY <1>1, Closed
<1>3. TypeOK'
  <2>1. NumbersOK'
    BY NumbersTyped, Constants DEF NumbersOK
  <2>2. opted' \in BOOLEAN /\ figures' \subseteq 1..made'
    BY Typed DEF Inv
  <2> QED
    BY <1>2, <2>1, <2>2, TypedAgain
<1>4. Ids'
  BY <1>2 DEF Inv, Ids, Holding
<1>5. Spacing'
  <2>1. early' <= faults' /\ Noticed'
    BY DEF Inv, Spacing, Noticed, Sending
  <2> QED
    BY <1>2, <2>1 DEF Spacing, Sending, Holding
<1> QED
  BY <1>2, <1>3, <1>4, <1>5 DEF Inv

LEMMA NoteKeepsInv ==
    ASSUME Inv, NEW c \in Caller, Note(c)
    PROVE  Inv'
<1> USE DEF Note, files, server, user
<1>1. pc[c] \in Holding /\ Close(c)
  BY DEF Holding
<1>2. CallersOK' /\ Exclusive' /\ \A o \in Caller : pc'[o] \notin Holding
  BY <1>1, Closed
<1>3. TypeOK'
  <2>1. NumbersOK'
    BY NumbersTyped, Constants DEF NumbersOK, Wait
  <2>2. opted' \in BOOLEAN /\ figures' \subseteq 1..made'
    BY Typed DEF Inv
  <2> QED
    BY <1>2, <2>1, <2>2, TypedAgain
<1>4. Ids'
  BY <1>2 DEF Inv, Ids, Holding
<1>5. Spacing'
  <2>1. early' <= faults' /\ Noticed'
    <3>1. UNCHANGED <<accepted, early, faults>>
      OBVIOUS
    <3>2. CASE answer[c] = "accepted"
      <4>1. sent' <= accepted'
        BY <3>1, <3>2, Typed, Constants DEF Inv, NumbersOK
      <4> QED
        BY <3>1, <4>1 DEF Inv, Spacing, Noticed
    <3>3. CASE answer[c] = "failed"
      <4>1. backoff' = FAILURE
        BY <3>3 DEF Wait
      <4>2. backoff' + accepted' >= FORCE
        BY <3>1, <4>1, Typed, Constants DEF Inv, NumbersOK
      <4> QED
        BY <3>1, <4>2 DEF Inv, Spacing, Noticed
    <3>4. CASE answer[c] \in {"gone", "limited"}
      <4>1. accepted = FORCE \/ early < faults
        BY <3>4 DEF Inv, Spacing, Sending
      <4> QED
        BY <3>1, <4>1 DEF Inv, Spacing, Noticed
    <3> QED
      BY <3>2, <3>3, <3>4
  <2> QED
    BY <1>2, <2>1 DEF Spacing, Sending, Holding
<1> QED
  BY <1>2, <1>3, <1>4, <1>5 DEF Inv

LEMMA DeleteFailedKeepsInv ==
    ASSUME Inv, NEW c \in Caller, DeleteFailed(c)
    PROVE  Inv'
<1> USE DEF DeleteFailed, files, server, user
<1>1. pc[c] \in Holding /\ Close(c)
  BY DEF Holding
<1>2. CallersOK' /\ Exclusive' /\ \A o \in Caller : pc'[o] \notin Holding
  BY <1>1, Closed
<1>3. TypeOK'
  <2>1. NumbersOK'
    BY NumbersTyped, Constants DEF NumbersOK, Wait
  <2>2. opted' \in BOOLEAN /\ figures' \subseteq 1..made'
    BY Typed DEF Inv
  <2> QED
    BY <1>2, <2>1, <2>2, TypedAgain
<1>4. Ids'
  BY <1>2 DEF Inv, Ids, Holding
<1>5. Spacing'
  <2>1. early' <= faults' /\ Noticed'
    <3>1. UNCHANGED <<sent, backoff, early, faults>> /\ accepted' \in {accepted, FORCE}
      OBVIOUS
    <3>2. \A o \in Caller : ~Unnoted(o)
      BY DEF Inv, Exclusive, Unnoted, Holding
    <3> QED
      BY <3>1, <3>2 DEF Inv, Spacing, Noticed
  <2> QED
    BY <1>2, <2>1 DEF Spacing, Sending, Holding
<1> QED
  BY <1>2, <1>3, <1>4, <1>5 DEF Inv

LEMMA ForgetKeepsInv ==
    ASSUME Inv, NEW c \in Caller, Forget(c)
    PROVE  Inv'
<1> USE DEF Forget, files, server, user
<1>1. pc[c] \in Holding /\ Close(c)
  BY DEF Holding
<1>2. CallersOK' /\ Exclusive' /\ \A o \in Caller : pc'[o] \notin Holding
  BY <1>1, Closed
<1>3. TypeOK'
  <2>1. NumbersOK'
    BY NumbersTyped, Constants DEF NumbersOK, NoId
  <2>2. opted' \in BOOLEAN /\ figures' \subseteq 1..made'
    BY Typed DEF Inv
  <2> QED
    BY <1>2, <2>1, <2>2, TypedAgain
<1>4. Ids'
  BY <1>2 DEF Inv, Ids, Holding
<1>5. Spacing'
  <2>1. early' <= faults' /\ Noticed'
    BY DEF Inv, Ids, Spacing, Noticed
  <2> QED
    BY <1>2, <2>1 DEF Spacing, Sending, Holding
<1> QED
  BY <1>2, <1>3, <1>4, <1>5 DEF Inv

LEMMA CannotWriteKeepsInv ==
    ASSUME Inv, NEW c \in Caller, CannotWrite(c)
    PROVE  Inv'
<1> USE DEF CannotWrite, files, server, user
<1>1. pc[c] \in Holding /\ Close(c)
  BY DEF Holding
<1>2. CallersOK' /\ Exclusive' /\ \A o \in Caller : pc'[o] \notin Holding
  BY <1>1, Closed
<1>3. TypeOK'
  <2>1. NumbersOK'
    BY NumbersTyped, Constants DEF NumbersOK, NoId
  <2>2. opted' \in BOOLEAN /\ figures' \subseteq 1..made'
    BY Typed DEF Inv
  <2> QED
    BY <1>2, <2>1, <2>2, TypedAgain
<1>4. Ids'
  BY <1>2 DEF Inv, Ids, Holding
<1>5. Spacing'
  <2>1. early' <= faults' /\ Noticed'
    <3>1. early' = early /\ faults' = faults + 1 /\ early <= faults
      BY DEF Inv, Spacing
    <3>2. early' < faults'
      BY <3>1, Typed, Constants DEF Inv, NumbersOK
    <3> QED
      BY <3>1, <3>2, Typed DEF Inv, NumbersOK, Noticed
  <2> QED
    BY <1>2, <2>1 DEF Spacing, Sending, Holding
<1> QED
  BY <1>2, <1>3, <1>4, <1>5 DEF Inv

\* The id on disk stays, or is a new one that the server knows nothing of.
LEMMA IdLoaded ==
    ASSUME NumbersOK, figures \subseteq 1..made, NEW c \in Caller, LoadInstallId(c)
    PROVE  /\ NumbersOK' /\ figures' \subseteq 1..made' /\ installId' # NoId
           /\ figures \subseteq {installId} => figures' \subseteq {installId'}
<1>1. /\ UNCHANGED <<choices, sent, backoff, disabled, deleteBackoff>>
      /\ UNCHANGED <<accepted, early, faults, figures>>
  BY DEF LoadInstallId, server, user
<1>2. \/ installId # NoId /\ made' = made /\ installId' = installId
      \/ installId = NoId /\ made' = made + 1 /\ installId' = made + 1
  BY DEF LoadInstallId
<1>3. made \in Nat /\ installId \in 0..made
  BY DEF NumbersOK
<1>4. made' \in Nat /\ installId' \in 0..made' /\ installId' # NoId /\ made <= made'
  BY <1>2, <1>3 DEF NoId
<1>5. NumbersOK'
  BY <1>1, <1>4 DEF NumbersOK
<1>6. figures' \subseteq 1..made'
  BY <1>1, <1>3, <1>4
<1>7. ASSUME figures \subseteq {installId}
      PROVE  figures' \subseteq {installId'}
  <2>1. CASE installId # NoId
    BY <1>1, <1>2, <1>7, <2>1
  <2>2. CASE installId = NoId
    <3>1. 0 \notin figures
      OBVIOUS
    <3> QED
      BY <1>1, <1>7, <2>2, <3>1 DEF NoId
  <2> QED
    BY <2>1, <2>2
<1> QED
  BY <1>4, <1>5, <1>6, <1>7

LEMMA LoadInstallIdKeepsInv ==
    ASSUME Inv, NEW c \in Caller, LoadInstallId(c)
    PROVE  Inv'
<1> USE DEF LoadInstallId, files, server, user
<1>1. /\ pc[c] \in Holding /\ "post" \in Holding
      /\ Goto(c, "post") /\ UNCHANGED <<lock, force>> /\ answer' \in [Caller -> Answers]
  BY Typed DEF Inv, CallersOK, Holding, Answers
<1>2. /\ CallersOK' /\ Exclusive'
      /\ pc'[c] = "post" /\ \A o \in Caller : o # c => pc'[o] \notin Holding
  BY <1>1, Moved
<1>3. TypeOK'
  <2>1. NumbersOK'
    BY Typed, NumbersTyped, IdLoaded DEF Inv
  <2>2. opted' \in BOOLEAN /\ figures' \subseteq 1..made'
    BY Typed, NumbersTyped, IdLoaded DEF Inv
  <2> QED
    BY <1>2, <2>1, <2>2, TypedAgain
<1>4. Ids'
  <2>1. figures' \subseteq {installId'} /\ installId' # NoId
    BY Typed, NumbersTyped, IdLoaded DEF Inv, Ids
  <2> QED
    BY <1>2, <2>1 DEF Inv, Ids, Holding
<1>5. Spacing'
  <2>1. UNCHANGED <<sent, backoff, accepted, early, faults>>
    OBVIOUS
  <2>2. \A o \in Caller : (Unnoted(o) => Unnoted(o)') /\ (Sending(o)' => Sending(o))
    BY <1>2 DEF Inv, Exclusive, Unnoted, Sending, Holding
  <2> QED
    BY <2>1, <2>2 DEF Inv, Spacing, Noticed
<1> QED
  BY <1>2, <1>3, <1>4, <1>5 DEF Inv

LEMMA PostAcceptedKeepsInv ==
    ASSUME Inv, NEW c \in Caller, PostAccepted(c)
    PROVE  Inv'
<1> USE DEF PostAccepted, files, server, user
<1>1. /\ pc[c] \in Holding /\ "answered" \in Holding
      /\ Goto(c, "answered") /\ UNCHANGED <<lock, force>> /\ answer' \in [Caller -> Answers]
  BY Typed DEF Inv, CallersOK, Holding, Answers
<1>2. /\ CallersOK' /\ Exclusive'
      /\ pc'[c] = "answered" /\ \A o \in Caller : o # c => pc'[o] \notin Holding
  BY <1>1, Moved
<1>3. TypeOK'
  <2>1. NumbersOK'
    <3>1. UNCHANGED <<choices, installId, made, sent, backoff, disabled, deleteBackoff, faults>>
      OBVIOUS
    <3>2. early' \in Nat /\ accepted' \in 0..FORCE
      BY NumbersTyped, Constants DEF NumbersOK
    <3> QED
      BY <3>1, <3>2, Typed DEF Inv, NumbersOK
  <2>2. opted' \in BOOLEAN /\ figures' \subseteq 1..made'
    BY Typed DEF Inv, Ids, NumbersOK, NoId
  <2> QED
    BY <1>2, <2>1, <2>2, TypedAgain
<1>4. Ids'
  BY <1>2 DEF Inv, Ids, Holding
<1>5. Spacing'
  <2>1. UNCHANGED faults /\ accepted' = 0 /\ early' = early + (IF accepted < FORCE THEN 1 ELSE 0)
    OBVIOUS
  <2>2. early <= faults /\ (accepted = FORCE \/ early < faults)
    BY DEF Inv, Spacing, Sending
  <2>3. early' <= faults'
    BY <2>1, <2>2, Typed, Constants DEF Inv, NumbersOK
  <2>4. Unnoted(c)' /\ ~Sending(c)'
    BY <1>2, Typed DEF Inv, CallersOK, Unnoted, Sending
  <2>5. \A o \in Caller : ~Sending(o)'
    BY <1>2, <2>4 DEF Sending, Holding
  <2> QED
    BY <2>3, <2>4, <2>5 DEF Spacing, Noticed
<1> QED
  BY <1>2, <1>3, <1>4, <1>5 DEF Inv

LEMMA PostRefusedKeepsInv ==
    ASSUME Inv, NEW c \in Caller, PostRefused(c)
    PROVE  Inv'
<1> USE DEF PostRefused, files, server, user
<1>1. /\ pc[c] \in Holding /\ "answered" \in Holding
      /\ Goto(c, "answered") /\ UNCHANGED <<lock, force>> /\ answer' \in [Caller -> Answers]
  BY Typed DEF Inv, CallersOK, Holding, Answers
<1>2. /\ CallersOK' /\ Exclusive'
      /\ pc'[c] = "answered" /\ \A o \in Caller : o # c => pc'[o] \notin Holding
  BY <1>1, Moved
<1>3. TypeOK'
  <2>1. NumbersOK'
    BY NumbersTyped, Constants DEF NumbersOK
  <2>2. opted' \in BOOLEAN /\ figures' \subseteq 1..made'
    BY Typed DEF Inv
  <2> QED
    BY <1>2, <2>1, <2>2, TypedAgain
<1>4. Ids'
  BY <1>2 DEF Inv, Ids, Holding
<1>5. Spacing'
  <2>1. UNCHANGED <<sent, backoff, accepted, early, faults>>
    OBVIOUS
  <2>2. accepted = FORCE \/ early < faults
    BY DEF Inv, Spacing, Sending
  <2> QED
    BY <2>1, <2>2 DEF Inv, Spacing, Noticed
<1> QED
  BY <1>2, <1>3, <1>4, <1>5 DEF Inv

LEMMA NothingToDeleteKeepsInv ==
    ASSUME Inv, NEW c \in Caller, NothingToDelete(c)
    PROVE  Inv'
<1> USE DEF NothingToDelete, files, server, user
<1>1. /\ pc[c] \in Holding /\ "forget" \in Holding
      /\ Goto(c, "forget") /\ UNCHANGED <<lock, force>> /\ answer' \in [Caller -> Answers]
  BY Typed DEF Inv, CallersOK, Holding, Answers
<1>2. /\ CallersOK' /\ Exclusive'
      /\ pc'[c] = "forget" /\ \A o \in Caller : o # c => pc'[o] \notin Holding
  BY <1>1, Moved
<1>3. TypeOK'
  <2>1. NumbersOK'
    BY NumbersTyped, Constants DEF NumbersOK
  <2>2. opted' \in BOOLEAN /\ figures' \subseteq 1..made'
    BY Typed DEF Inv
  <2> QED
    BY <1>2, <2>1, <2>2, TypedAgain
<1>4. Ids'
  <2>1. figures = {} /\ accepted = FORCE
    <3>1. figures \subseteq 1..made
      BY Typed DEF Inv
    <3>2. 0 \notin figures
      BY <3>1, NumbersTyped DEF NumbersOK
    <3> QED
      BY <3>2 DEF Inv, Ids, NoId
  <2> QED
    BY <1>2, <2>1 DEF Inv, Ids, Holding
<1>5. Spacing'
  <2>1. UNCHANGED <<sent, backoff, accepted, early, faults>>
    OBVIOUS
  <2>2. \A o \in Caller : (Unnoted(o) => Unnoted(o)') /\ (Sending(o)' => Sending(o))
    BY <1>2 DEF Inv, Exclusive, Unnoted, Sending, Holding
  <2> QED
    BY <2>1, <2>2 DEF Inv, Spacing, Noticed
<1> QED
  BY <1>2, <1>3, <1>4, <1>5 DEF Inv

LEMMA DeleteDoneKeepsInv ==
    ASSUME Inv, NEW c \in Caller, DeleteDone(c)
    PROVE  Inv'
<1> USE DEF DeleteDone, files, server, user
<1>1. /\ pc[c] \in Holding /\ "forget" \in Holding
      /\ Goto(c, "forget") /\ UNCHANGED <<lock, force>> /\ answer' \in [Caller -> Answers]
  BY Typed DEF Inv, CallersOK, Holding, Answers
<1>2. /\ CallersOK' /\ Exclusive'
      /\ pc'[c] = "forget" /\ \A o \in Caller : o # c => pc'[o] \notin Holding
  BY <1>1, Moved
<1>3. TypeOK'
  <2>1. NumbersOK'
    <3>1. UNCHANGED <<choices, installId, made, sent, backoff, disabled, deleteBackoff, faults, early>>
      OBVIOUS
    <3>2. accepted' \in 0..FORCE
      BY Constants
    <3> QED
      BY <3>1, <3>2, Typed DEF Inv, NumbersOK
  <2>2. opted' \in BOOLEAN /\ figures' \subseteq 1..made'
    BY Typed DEF Inv
  <2> QED
    BY <1>2, <2>1, <2>2, TypedAgain
<1>4. Ids'
  BY <1>2 DEF Inv, Ids, Holding
<1>5. Spacing'
  <2>1. UNCHANGED <<early, faults>> /\ accepted' = FORCE
    OBVIOUS
  <2> QED
    BY <2>1 DEF Inv, Spacing, Noticed
<1> QED
  BY <1>2, <1>3, <1>4, <1>5 DEF Inv

LEMMA ConsentKeepsInv ==
    ASSUME Inv, NEW c \in Caller, Consent(c)
    PROVE  Inv'
<1> USE DEF Consent, files, server, user
<1>1. pc[c] \in Holding
  BY DEF Holding
<1>2. /\ UNCHANGED <<sent, backoff, accepted, early, faults>>
      /\ UNCHANGED <<choices, made, installId, disabled, deleteBackoff, figures, opted>>
  OBVIOUS
<1>3. CallersOK' /\ Exclusive' /\ \A o \in Caller : o # c => pc'[o] \notin Holding
  <2>1. CASE opted
    <3>1. /\ "load id" \in Holding /\ Goto(c, "load id")
          /\ UNCHANGED <<lock, force>> /\ answer' \in [Caller -> Answers]
      BY <2>1, Typed DEF Inv, CallersOK, Holding
    <3> QED
      BY <1>1, <3>1, Moved
  <2>2. CASE ~opted
    BY <1>1, <2>2, Closed
  <2> QED
    BY <2>1, <2>2
<1>4. TypeOK'
  <2>1. NumbersOK' /\ opted' \in BOOLEAN /\ figures' \subseteq 1..made'
    BY <1>2, Typed DEF Inv, NumbersOK
  <2> QED
    BY <1>3, <2>1, TypedAgain
<1>5. pc'[c] \in {"idle", "load id"}
  BY Typed DEF Inv, CallersOK, Close, Return, Goto
<1>6. Ids'
  BY <1>2, <1>3, <1>5 DEF Inv, Ids, Holding
<1>7. Spacing'
  <2>1. accepted = FORCE \/ early < faults
    BY DEF Inv, Spacing, Sending
  <2> QED
    BY <1>2, <2>1 DEF Inv, Spacing, Noticed
<1> QED
  BY <1>3, <1>4, <1>6, <1>7 DEF Inv

LEMMA DieKeepsInv ==
    ASSUME Inv, NEW c \in Caller, Die(c)
    PROVE  Inv'
<1> USE DEF Die, files, server, user, Return, Goto
<1>1. /\ UNCHANGED <<sent, backoff, accepted, early, choices, made, installId>>
      /\ UNCHANGED <<disabled, deleteBackoff, figures, opted>>
      /\ faults' = faults + 1 /\ faults < MaxFaults
  OBVIOUS
<1>2. CallersOK'
  BY Typed, NobodyAssumption DEF Inv, CallersOK, Places, Answers
<1>3. pc'[c] = "idle" /\ \A o \in Caller : o # c => pc'[o] = pc[o]
  BY Typed DEF Inv, CallersOK
<1>4. Exclusive'
  BY <1>3, NobodyAssumption DEF Inv, Exclusive, Holding
<1>5. TypeOK'
  <2>1. NumbersOK'
    BY <1>1, Typed, Constants DEF Inv, NumbersOK
  <2>2. opted' \in BOOLEAN /\ figures' \subseteq 1..made'
    BY <1>1, Typed DEF Inv
  <2> QED
    BY <1>2, <2>1, <2>2, TypedAgain
<1>6. Ids'
  BY <1>1, <1>3 DEF Inv, Ids
<1>7. Spacing'
  <2>1. early' < faults'
    BY <1>1, Typed DEF Inv, NumbersOK, Spacing
  <2>2. early' <= faults'
    BY <1>1, Typed DEF Inv, NumbersOK, Spacing
  <2> QED
    BY <2>1, <2>2 DEF Spacing, Noticed
<1> QED
  BY <1>4, <1>5, <1>6, <1>7 DEF Inv

-----------------------------------------------------------------------------
LEMMA NextKeepsInv ==
    ASSUME Inv, [Next]_vars
    PROVE  Inv'
<1>1. CASE Choose
  BY <1>1, ChooseKeepsInv
<1>2. CASE Tick
  BY <1>2, TickKeepsInv
<1>3. ASSUME NEW c \in Caller, Report(c) \/ LockToSend(c) \/ LockToDelete(c)
      PROVE  Inv'
  BY <1>3, ReportKeepsInv, LockToSendKeepsInv, LockToDeleteKeepsInv
<1>4. ASSUME NEW c \in Caller, Send(c)
      PROVE  Inv'
  BY <1>4, ConsentKeepsInv, LoadInstallIdKeepsInv, NoInstallIdKeepsInv, NoTotalKeepsInv,
     PostAcceptedKeepsInv, PostRefusedKeepsInv, NoteKeepsInv
  DEF Send
<1>5. ASSUME NEW c \in Caller, Delete(c)
      PROVE  Inv'
  BY <1>5, NothingToDeleteKeepsInv, DeleteDoneKeepsInv, DeleteFailedKeepsInv, ForgetKeepsInv
  DEF Delete
<1>6. ASSUME NEW c \in Caller, CannotWrite(c) \/ Die(c)
      PROVE  Inv'
  BY <1>6, CannotWriteKeepsInv, DieKeepsInv
<1>7. CASE UNCHANGED vars
  <2>1. /\ UNCHANGED <<installId, made, sent, backoff, disabled, deleteBackoff>>
        /\ UNCHANGED <<figures, accepted, early, opted, choices, lock, pc, force, answer, faults>>
    BY <1>7 DEF vars, files, server, user, callers
  <2>2. TypeOK' /\ Exclusive'
    BY <2>1 DEF Inv, TypeOK, Exclusive
  <2>3. Ids' /\ Spacing'
    BY <2>1 DEF Inv, Ids, Spacing, Noticed, Sending, Unnoted
  <2> QED
    BY <2>2, <2>3 DEF Inv
<1> QED
  BY <1>1, <1>2, <1>3, <1>4, <1>5, <1>6, <1>7 DEF Next

\* The invariant: one thread at a time, and what it does to the id and to the silence.
THEOREM Invariance == Spec => []Inv
<1>1. Init => Inv
  BY InitInv
<1>2. Inv /\ [Next]_vars => Inv'
  BY NextKeepsInv
<1> QED
  BY <1>1, <1>2, PTL DEF Spec

\* The types, whatever the callers and the intervals.
THEOREM TypeCorrect == Spec => []TypeOK
<1>1. Inv => TypeOK
  BY DEF Inv
<1> QED
  BY <1>1, Invariance, PTL

\* What was reported can be deleted: figures are only under the id on disk.
THEOREM Deletable == Spec => []NothingOrphaned
<1>1. Inv => NothingOrphaned
  BY DEF Inv, Ids, NothingOrphaned
<1> QED
  BY <1>1, Invariance, PTL

\* Reports keep their distance, but for one per fault.
THEOREM Distance == Spec => []ReportsSpaced
<1>1. Inv => ReportsSpaced
  BY DEF Inv, Spacing, ReportsSpaced
<1> QED
  BY <1>1, Invariance, PTL
=============================================================================
