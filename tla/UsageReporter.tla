--------------------------- MODULE UsageReporter ---------------------------
(***************************************************************************)
(* The usage counter that the processes of one install send.               *)
(*                                                                         *)
(* Every process calls report() after each action; the files of one        *)
(* directory decide whether a report is due, an flock lets one call        *)
(* through, and a background thread sends while it holds the lock.  A user *)
(* who has opted out has the figures deleted by the same road.             *)
(*                                                                         *)
(* Abstractions.  Time goes in ticks.  The mtime of `sent' is kept as its  *)
(* age, the mtimes in the future as what is left of them.  The server is   *)
(* the set of ids it holds figures of; a request whose answer is lost has  *)
(* arrived by the time it is given up, or never does.                      *)
(***************************************************************************)
EXTENDS Naturals, FiniteSets

CONSTANTS
    Caller,        \* the threads that call report(), of any process
    SEND,          \* SEND_INTERVAL, in ticks
    FORCE,         \* FORCE_INTERVAL
    FAILURE,       \* BACKOFF_FAILURE
    RATE,          \* BACKOFF_RATE_LIMITED
    DISABLED,      \* DISABLED_FOR
    MaxChoices,    \* bound: how often the user changes his mind
    MaxFaults      \* bound: how many callers die or cannot write

ASSUME UsageAssumption ==
    /\ IsFiniteSet(Caller)
    /\ FORCE \in Nat \ {0} /\ SEND \in Nat /\ FORCE <= SEND
    /\ FAILURE \in Nat /\ FORCE <= FAILURE
    /\ RATE \in Nat /\ DISABLED \in Nat /\ FAILURE <= RATE /\ FORCE <= DISABLED
    /\ MaxChoices \in Nat /\ MaxFaults \in Nat

NoId == 0
Nobody == "nobody"

ASSUME NobodyAssumption == Nobody \notin Caller

VARIABLES
    opted,         \* the stored setting share_usage_counts
    choices,       \* how often it was changed
    installId,     \* the install_id file: NoId or the id in it
    made,          \* how many ids have been made
    sent,          \* the age of the file `sent', SEND if older or absent
    backoff,       \* what is left of the backoff
    disabled,      \* what is left of `disabled'
    deleteBackoff, \* what is left of delete_backoff
    lock,          \* who holds the flock
    pc,            \* what each caller is at
    force,         \* its argument
    answer,        \* the status of its request
    figures,       \* the server: the ids it holds figures of
    accepted,      \* history: the age of the report it accepted last
    early,         \* history: reports it accepted within FORCE of one another
    faults         \* how many callers died or could not write

files == <<installId, made, sent, backoff, disabled, deleteBackoff>>
server == <<figures, accepted, early>>
user == <<opted, choices>>
callers == <<lock, pc, force, answer>>
vars == <<files, server, user, callers, faults>>

Capped(n, bound) == IF n < bound THEN n ELSE bound
Less(n) == IF n = 0 THEN 0 ELSE n - 1

Init ==
    /\ opted \in BOOLEAN
    /\ choices = 0
    /\ installId = NoId
    /\ made = 0
    /\ sent = SEND
    /\ backoff = 0
    /\ disabled = 0
    /\ deleteBackoff = 0
    /\ lock = Nobody
    /\ pc = [c \in Caller |-> "idle"]
    /\ force = [c \in Caller |-> FALSE]
    /\ answer = [c \in Caller |-> "none"]
    /\ figures = {}
    /\ accepted = FORCE
    /\ early = 0
    /\ faults = 0

Goto(c, label) == pc' = [pc EXCEPT ![c] = label]

\* The call is over, and what was local to it is gone.
Return(c) ==
    /\ Goto(c, "idle")
    /\ force' = [force EXCEPT ![c] = FALSE]
    /\ answer' = [answer EXCEPT ![c] = "none"]

\* os.close(fd): the only way the lock is released, but for the caller's death.
Close(c) ==
    /\ Return(c)
    /\ lock' = Nobody

\* The lock is tried, never waited for.
TryLock(c, blocked, label) ==
    IF lock # Nobody \/ blocked
      THEN Return(c) /\ UNCHANGED lock
      ELSE lock' = c /\ Goto(c, label) /\ UNCHANGED <<force, answer>>

-----------------------------------------------------------------------------
(* The user, and time. *)

Choose ==
    /\ choices < MaxChoices
    /\ choices' = choices + 1
    /\ opted' = ~opted
    /\ UNCHANGED <<files, server, callers, faults>>

Tick ==
    /\ sent' = Capped(sent + 1, SEND)
    /\ backoff' = Less(backoff)
    /\ disabled' = Less(disabled)
    /\ deleteBackoff' = Less(deleteBackoff)
    /\ accepted' = Capped(accepted + 1, FORCE)
    /\ UNCHANGED <<installId, made, figures, early, user, callers, faults>>

-----------------------------------------------------------------------------
(* report(), in the foreground. *)

Gap(c) == IF force[c] THEN FORCE ELSE SEND

Blocked(gap) == sent < gap \/ backoff > 0 \/ disabled > 0

\* The checks before the lock; what is not due ends here.
Report(c) ==
    /\ pc[c] = "idle"
    /\ \E forced \in BOOLEAN :
         /\ force' = [force EXCEPT ![c] = forced]
         /\ \/ /\ opted
               /\ ~Blocked(IF forced THEN FORCE ELSE SEND)
               /\ Goto(c, "lock to send")
            \/ /\ ~opted
               /\ installId # NoId
               /\ deleteBackoff = 0
               /\ Goto(c, "lock to delete")
    /\ UNCHANGED <<files, server, user, lock, answer, faults>>

\* Mutant of LockToSend: what was read before the lock still counts.
LockAndSend(c) ==
    /\ pc[c] = "lock to send"
    /\ TryLock(c, FALSE, "consent")
    /\ UNCHANGED <<files, server, user, faults>>

\* Under the lock the gap is checked again.
LockToSend(c) ==
    /\ pc[c] = "lock to send"
    /\ TryLock(c, Blocked(Gap(c)), "consent")
    /\ UNCHANGED <<files, server, user, faults>>

LockToDelete(c) ==
    /\ pc[c] = "lock to delete"
    /\ TryLock(c, FALSE, "delete")
    /\ UNCHANGED <<files, server, user, faults>>

-----------------------------------------------------------------------------
(* _send_report, in the background, with the lock. *)

\* The setting is read once more: it may have been changed meanwhile.
Consent(c) ==
    /\ pc[c] = "consent"
    /\ IF opted
         THEN Goto(c, "load id") /\ UNCHANGED <<lock, force, answer>>
         ELSE Close(c)
    /\ UNCHANGED <<files, server, user, faults>>

\* Mutant of LoadInstallId: a new id for every report.
NewInstallId(c) ==
    /\ pc[c] = "load id"
    /\ made < MaxChoices + 1
    /\ made' = made + 1 /\ installId' = made'
    /\ Goto(c, "post")
    /\ UNCHANGED <<sent, backoff, disabled, deleteBackoff, server, user, lock,
                   force, answer, faults>>

\* load_install_id: what is there, or a new one, linked into place.
LoadInstallId(c) ==
    /\ pc[c] = "load id"
    /\ IF installId # NoId
         THEN UNCHANGED <<made, installId>>
         ELSE made' = made + 1 /\ installId' = made'
    /\ Goto(c, "post")
    /\ UNCHANGED <<sent, backoff, disabled, deleteBackoff, server, user, lock,
                   force, answer, faults>>

\* No id can be made: the report waits.
NoInstallId(c) ==
    /\ pc[c] = "load id"
    /\ installId = NoId
    /\ backoff' = FAILURE
    /\ Close(c)
    /\ UNCHANGED <<installId, made, sent, disabled, deleteBackoff, server, user, faults>>

\* The total is no number, or too large: nothing is sent and nothing noted.
NoTotal(c) ==
    /\ pc[c] = "post"
    /\ Close(c)
    /\ UNCHANGED <<files, server, user, faults>>

\* The server takes the report, and answers 202 unless the answer is lost.
PostAccepted(c) ==
    /\ pc[c] = "post"
    /\ figures' = figures \union {installId}
    /\ early' = early + (IF accepted < FORCE THEN 1 ELSE 0)
    /\ accepted' = 0
    /\ \E status \in {"accepted", "failed"} : answer' = [answer EXCEPT ![c] = status]
    /\ Goto(c, "answered")
    /\ UNCHANGED <<files, user, lock, force, faults>>

\* It answers 410, 429 or anything else, or was not reached.
PostRefused(c) ==
    /\ pc[c] = "post"
    /\ \E status \in {"gone", "limited", "failed"} :
         answer' = [answer EXCEPT ![c] = status]
    /\ Goto(c, "answered")
    /\ UNCHANGED <<files, server, user, lock, force, faults>>

\* Mutant of Wait: the wait of a 410 for that of a 429.
WaitDisabled(status) == IF status = "limited" THEN DISABLED ELSE FAILURE

Wait(status) == IF status = "limited" THEN RATE ELSE FAILURE

\* What the answer says is noted: `sent', or until when to be silent.
Note(c) ==
    /\ pc[c] = "answered"
    /\ \/ /\ answer[c] = "accepted"
          /\ sent' = 0 /\ backoff' = 0
          /\ UNCHANGED disabled
       \/ /\ answer[c] = "gone"
          /\ disabled' = DISABLED
          /\ UNCHANGED <<sent, backoff>>
       \/ /\ answer[c] \in {"limited", "failed"}
          /\ backoff' = Wait(answer[c])
          /\ UNCHANGED <<sent, disabled>>
    /\ Close(c)
    /\ UNCHANGED <<installId, made, deleteBackoff, server, user,
                   faults>>

-----------------------------------------------------------------------------
(* _send_delete, in the background, with the lock. *)

\* The id is gone since report() looked: what is left of the files goes too.
NothingToDelete(c) ==
    /\ pc[c] = "delete"
    /\ installId = NoId
    /\ Goto(c, "forget")
    /\ UNCHANGED <<files, server, user, lock, force, answer, faults>>

\* The server deletes, and answers 204 (404 if it had nothing), or is not heard.
DeleteDone(c) ==
    /\ pc[c] = "delete"
    /\ installId # NoId
    /\ figures' = figures \ {installId}
    /\ accepted' = FORCE
    /\ Goto(c, "forget")
    /\ UNCHANGED <<files, early, user, lock, force, answer, faults>>

\* Mutant of DeleteFailed: the lock stays taken.
DeleteFailedLocked(c) ==
    /\ pc[c] = "delete"
    /\ installId # NoId
    /\ \/ UNCHANGED server
       \/ figures' = figures \ {installId} /\ accepted' = FORCE /\ UNCHANGED early
    /\ deleteBackoff' = FAILURE
    /\ Return(c)
    /\ UNCHANGED <<installId, made, sent, backoff, disabled, user, lock, faults>>

\* Mutant of DeleteFailed: any answer will do.
DeleteFailedForgets(c) ==
    /\ pc[c] = "delete"
    /\ installId # NoId
    /\ Goto(c, "forget")
    /\ UNCHANGED <<files, server, user, lock, force, answer, faults>>

\* 429, anything else, or no answer: the id is kept, and a wait is set that only
\* deletions heed.
DeleteFailed(c) ==
    /\ pc[c] = "delete"
    /\ installId # NoId
    /\ \/ UNCHANGED server
       \/ figures' = figures \ {installId} /\ accepted' = FORCE /\ UNCHANGED early
    /\ \E status \in {"limited", "failed"} : deleteBackoff' = Wait(status)
    /\ Close(c)
    /\ UNCHANGED <<installId, made, sent, backoff, disabled, user,
                   faults>>

\* The files go one by one, the id first.
Forget(c) ==
    /\ pc[c] = "forget"
    /\ installId' = NoId
    /\ sent' = SEND
    /\ backoff' = 0 /\ disabled' = 0 /\ deleteBackoff' = 0
    /\ Close(c)
    /\ UNCHANGED <<made, server, user, faults>>

-----------------------------------------------------------------------------
(* What may go wrong in a caller. *)

\* A file that cannot be written or removed raises out of the action: _run sets
\* a backoff if it can.  Of the files to forget those before it are gone.
CannotWrite(c) ==
    /\ faults < MaxFaults
    /\ faults' = faults + 1
    /\ \/ /\ pc[c] = "answered"
          /\ sent' \in IF answer[c] = "accepted" THEN {sent, 0} ELSE {sent}
          /\ backoff' \in {backoff, FAILURE}
          /\ UNCHANGED <<installId, disabled, deleteBackoff>>
       \/ /\ pc[c] = "forget"
          /\ installId' \in {installId, NoId}
          /\ sent' \in IF installId' = NoId THEN {sent, SEND} ELSE {sent}
          /\ backoff' \in IF sent' = SEND THEN {backoff, 0} ELSE {backoff}
          /\ deleteBackoff' \in {deleteBackoff, FAILURE}
          /\ UNCHANGED disabled
    /\ Close(c)
    /\ UNCHANGED <<made, server, user>>

\* The process is killed: the kernel closes its descriptors.
Die(c) ==
    /\ faults < MaxFaults
    /\ pc[c] # "idle"
    /\ faults' = faults + 1
    /\ Return(c)
    /\ lock' = IF lock = c THEN Nobody ELSE lock
    /\ UNCHANGED <<files, server, user>>

-----------------------------------------------------------------------------
Send(c) ==
    \/ Consent(c) \/ LoadInstallId(c) \/ NoInstallId(c) \/ NoTotal(c)
    \/ PostAccepted(c) \/ PostRefused(c) \/ Note(c)

Delete(c) ==
    \/ NothingToDelete(c) \/ DeleteDone(c) \/ DeleteFailed(c) \/ Forget(c)

Next ==
    \/ Choose
    \/ Tick
    \/ \E c \in Caller :
         \/ Report(c) \/ LockToSend(c) \/ LockToDelete(c)
         \/ Send(c) \/ Delete(c)
         \/ CannotWrite(c) \/ Die(c)

Spec == Init /\ [][Next]_vars

\* Threads run and time passes; the plugin is used again and again, and of the
\* deletions asked for one comes through.
Fairness ==
    /\ WF_vars(Tick)
    /\ \A c \in Caller :
         /\ WF_vars(Report(c))
         /\ WF_vars(LockToSend(c) \/ LockToDelete(c) \/ Send(c) \/ Delete(c))
         /\ SF_vars(DeleteDone(c))

FairSpec == Spec /\ Fairness

-----------------------------------------------------------------------------
(* Properties. *)

Holding == {"consent", "load id", "post", "answered", "delete", "forget"}

\* The types.
TypeOK ==
    /\ opted \in BOOLEAN /\ choices \in 0..MaxChoices
    /\ made \in Nat /\ installId \in 0..made
    /\ sent \in 0..SEND /\ backoff \in 0..RATE /\ disabled \in 0..DISABLED
    /\ deleteBackoff \in 0..RATE
    /\ lock \in Caller \union {Nobody}
    /\ pc \in [Caller -> Holding \union {"idle", "lock to send", "lock to delete"}]
    /\ force \in [Caller -> BOOLEAN]
    /\ answer \in [Caller -> {"none", "accepted", "gone", "limited", "failed"}]
    /\ figures \subseteq 1..made
    /\ accepted \in 0..FORCE /\ early \in Nat /\ faults \in 0..MaxFaults

\* "At most once an hour", ten minutes apart when forced, whichever processes
\* report: a report that reaches the server earlier after the one before is the
\* doing of a caller that died or could not write.
ReportsSpaced == early <= faults

\* "This install's figures are deleted": the server holds figures of no id but
\* the one on disk, so that what was ever reported can still be deleted.
NothingOrphaned == figures \subseteq {installId}

\* A user who has opted out for good is forgotten, whatever failed before.
OptOutForgets == <>[]~opted => <>[](figures = {})
=============================================================================
