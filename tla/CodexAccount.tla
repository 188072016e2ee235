------------------------------ MODULE CodexAccount ------------------------------
(***************************************************************************)
(* One subscription login of one owner (backend/fund_kb: api_oauth.py,     *)
(* codex_bridge.py, codex_text.py, codex_stability.py).  The row of the    *)
(* login and its epoch are in the database; jobs start, refresh, cancel    *)
(* and end the login; the bridge of the process keeps one child process    *)
(* for it and the archive keeps its tokens, encrypted.  Text calls queue   *)
(* for one slot, run a child of their own with a copy of the archived      *)
(* tokens, and archive what that child leaves.                             *)
(*                                                                         *)
(* What the bridge does under the lock of the login is one step.  The      *)
(* database moves between these steps.                                     *)
(***************************************************************************)
EXTENDS Naturals, SequencesExt

CONSTANTS
    Jobs,         \* identity jobs, numbered in the order of their requests
    Calls,        \* threads that make text calls
    MaxWaiting,   \* places in the queue for the slot
    MaxAsked,     \* bound on requests and calls together
    MaxRev,       \* bound on changes of the connection
    MaxGen,       \* bound on rotations of the tokens of a login
    Faults,       \* kinds of fault that occur
    MaxFaults,    \* bound on them
    Nobody        \* no call, no job

ASSUME NamesAssumption == Jobs \subseteq Nat /\ Nobody \notin Calls /\ Nobody \notin Jobs
ASSUME BoundsAssumption ==
    MaxWaiting \in Nat /\ MaxAsked \in Nat /\ MaxRev \in Nat /\ MaxGen \in Nat /\ MaxFaults \in Nat

VARIABLES
    connection,   \* the connection: its revision and whether it is enabled
    oauth,        \* the row of the login
    job,          \* identity jobs and their threads
    session,      \* the session of the bridge
    archive,      \* the encrypted archive
    logins,       \* logins begun so far
    call,         \* text calls
    waiters,      \* calls that wait for the slot
    slot,         \* who holds the slot
    quarantined,  \* whether a child could not be stopped
    asked,        \* requests and calls so far
    faults        \* faults so far

bridge == <<session, archive, logins>>
engine == <<waiters, slot, quarantined>>
vars == <<connection, oauth, job, bridge, call, engine, asked, faults>>

-------------------------------------------------------------------------------
States == {"STARTING", "PENDING", "AUTHENTICATED", "SIGNING_OUT", "CANCELLING",
           "SIGNED_OUT", "CANCELLED", "EXPIRED", "ERROR"}
Tasks == {"START", "REFRESH", "CANCEL", "LOGOUT"}

\* login 0: nothing there.
Session == [login: Nat, epoch: Nat, rev: Nat, authenticated: BOOLEAN]
NoSession == [login |-> 0, epoch |-> 0, rev |-> 0, authenticated |-> FALSE]
Archive == [login: Nat, epoch: Nat, gen: Nat]
NoArchive == [login |-> 0, epoch |-> 0, gen |-> 0]

Job == [task: Tasks, epoch: Nat, rev: Nat, cancelled: BOOLEAN,
        at: {"absent", "queued", "rpc", "recheck", "discard", "final",
             "failed", "done"},
        result: States]
NoJob == [task |-> "START", epoch |-> 0, rev |-> 0, cancelled |-> FALSE,
          at |-> "absent", result |-> "ERROR"]

\* ok: no step has failed.  A call that failed leaves nothing behind.
Call == [at: {"idle", "waiting", "admitted", "home", "ready", "sent", "closing",
              "persisting", "leaving", "delivered"},
         epoch: Nat, rev: Nat, login: Nat, gen: Nat, ok: BOOLEAN]
NoCall == [at |-> "idle", epoch |-> 0, rev |-> 0, login |-> 0, gen |-> 0, ok |-> TRUE]

\* The process of a call runs.
Child(c) == call[c].at \in {"ready", "sent", "closing"}

TypeOK ==
    /\ connection \in [rev: Nat, enabled: BOOLEAN]
    /\ oauth \in [state: States, epoch: Nat, rev: Nat, job: Jobs \cup {Nobody}]
    /\ job \in [Jobs -> Job]
    /\ session \in Session /\ archive \in Archive /\ logins \in Nat
    /\ call \in [Calls -> Call]
    /\ waiters \in Seq(Calls) /\ slot \in Calls \cup {Nobody}
    /\ \A i \in 1..Len(waiters) : call[waiters[i]].at = "waiting"
    /\ quarantined \in BOOLEAN /\ asked \in Nat /\ faults \in Nat

\* A process that starts finds a connection that was never used, or the login
\* of an earlier process.
Init ==
    /\ connection = [rev |-> 1, enabled |-> TRUE]
    /\ \/ /\ oauth = [state |-> "SIGNED_OUT", epoch |-> 0, rev |-> 1, job |-> Nobody]
          /\ archive = NoArchive /\ logins = 0
       \/ /\ oauth = [state |-> "AUTHENTICATED", epoch |-> 1, rev |-> 1, job |-> Nobody]
          /\ archive = [login |-> 1, epoch |-> 1, gen |-> 1] /\ logins = 1
    /\ job = [j \in Jobs |-> NoJob]
    /\ session = NoSession
    /\ call = [c \in Calls |-> NoCall]
    /\ waiters = <<>> /\ slot = Nobody /\ quarantined = FALSE
    /\ asked = 0 /\ faults = 0

Asked == asked < MaxAsked /\ asked' = asked + 1

May(kind) == kind \in Faults /\ faults < MaxFaults
Fault(kind) == May(kind) /\ faults' = faults + 1

-------------------------------------------------------------------------------
(* Requests: each is one transaction, compare-and-set on the row.          *)

Threads == {"rpc", "recheck", "discard", "final"}
Underway(j) == job[j].at \in {"queued"} \cup Threads

Busy == oauth.job # Nobody /\ Underway(oauth.job)

Request(j, task, epoch, state, rev) ==
    /\ job[j].at = "absent" /\ \A i \in Jobs : i < j => job[i].at # "absent"
    /\ job' = [job EXCEPT ![j] = [NoJob EXCEPT !.task = task, !.epoch = epoch,
                                               !.rev = rev, !.at = "queued"]]
    /\ oauth' = [state |-> state, epoch |-> epoch, rev |-> rev, job |-> j]
    /\ Asked
    /\ UNCHANGED <<bridge, call, engine, faults>>

RequestStart(j) ==
    /\ connection.enabled /\ ~Busy
    /\ oauth.state \in {"SIGNED_OUT", "CANCELLED", "EXPIRED", "ERROR"}
    /\ Request(j, "START", oauth.epoch + 1, "STARTING", connection.rev)
    /\ UNCHANGED connection

RequestRefresh(j) ==
    /\ connection.enabled /\ ~Busy
    /\ Request(j, "REFRESH", oauth.epoch, oauth.state, connection.rev)
    /\ UNCHANGED connection

RequestCancel(j) ==
    /\ connection.enabled /\ oauth.state \in {"STARTING", "PENDING"}
    /\ Request(j, "CANCEL", oauth.epoch + 1, "CANCELLING", connection.rev)
    /\ UNCHANGED connection

RequestLogout(j) ==
    /\ connection.enabled
    /\ Request(j, "LOGOUT", oauth.epoch + 1, "SIGNING_OUT", connection.rev)
    /\ UNCHANGED connection

\* A change of the connection other than of its consent ends the login.
Edit(j) ==
    /\ connection.rev < MaxRev
    /\ \E enabled \in BOOLEAN :
          connection' = [rev |-> connection.rev + 1, enabled |-> enabled]
    /\ Request(j, "LOGOUT", oauth.epoch + 1, "SIGNING_OUT", connection.rev + 1)

\* Consent to the transfer of documents does not.
Consent ==
    /\ connection.rev < MaxRev
    /\ oauth.state \notin {"STARTING", "PENDING", "CANCELLING", "SIGNING_OUT"}
    /\ connection' = [connection EXCEPT !.rev = connection.rev + 1]
    /\ oauth' = [oauth EXCEPT !.rev = connection.rev + 1]
    /\ UNCHANGED <<job, bridge, call, engine, asked, faults>>

\* cancelJob, by the owner.
CancelJob(j) ==
    /\ Fault("cancel")
    /\ Underway(j) /\ ~job[j].cancelled
    /\ job' = [job EXCEPT ![j].cancelled = TRUE,
                          ![j].at = IF job[j].at = "queued" THEN "failed" ELSE job[j].at]
    /\ UNCHANGED <<connection, oauth, bridge, call, engine, asked>>

Current(j) ==
    /\ job[j].rev = connection.rev /\ job[j].epoch = oauth.epoch
    /\ connection.enabled \/ job[j].task = "LOGOUT"

\* retryJob: the row of the login does not learn of it.
RetryJob(j) ==
    /\ Fault("retry")
    /\ job[j].at = "failed" /\ Current(j)
    /\ job' = [job EXCEPT ![j].at = "queued", ![j].cancelled = FALSE]
    /\ UNCHANGED <<connection, oauth, bridge, call, engine, asked>>

-------------------------------------------------------------------------------
(* The bridge, under the lock of the login.                                *)

Outcome(s, a, result) ==
    [session |-> s, archive |-> a, result |-> result, faults |-> faults]

\* What a fault makes of it.
Faulty(kind, outcomes) ==
    IF May(kind) THEN {[o EXCEPT !.faults = faults + 1] : o \in outcomes} ELSE {}

\* A child cannot be stopped: the session is gone and the archive stays.
Unstopped ==
    IF session = NoSession THEN {} ELSE Faulty("close", {Outcome(NoSession, archive, "ERROR")})

\* Otherwise the archive goes with the session.
Discarded(result) == {Outcome(NoSession, NoArchive, result)} \cup Unstopped

\* A login that succeeds at once or fails leaves nothing of another one.
Starts(epoch, rev) ==
    LET forgotten == IF session = NoSession THEN archive ELSE NoArchive
        fresh == [login |-> logins + 1, epoch |-> epoch, rev |-> rev, authenticated |-> FALSE]
    IN  {Outcome(fresh, forgotten, "PENDING")} \cup Unstopped \cup
        Faulty("rpc", {Outcome(NoSession, forgotten, "ERROR"),
                       Outcome(NoSession, NoArchive, "ERROR")})

\* A consent revision restores the login from its archive, as does a restart.
Reopened(epoch, rev) ==
    IF session.login > 0 /\ session.epoch = epoch /\ session.rev # rev /\ session.authenticated
    THEN NoSession ELSE session

Restored(epoch, rev) ==
    [login |-> archive.login, epoch |-> epoch, rev |-> rev, authenticated |-> TRUE]

Restorable(epoch) == archive.login > 0 /\ archive.epoch = epoch

\* Reading the account of a session: it is there, it is signed out, or no
\* answer comes.  The first time, its tokens are archived.
Reads(s) ==
    LET first == [login |-> s.login, epoch |-> s.epoch, gen |-> 1]
    IN  {Outcome([s EXCEPT !.authenticated = TRUE],
                 IF s.authenticated THEN archive ELSE first, "AUTHENTICATED")} \cup
        Faulty("rpc", {Outcome(s, archive, "ERROR"),
                       Outcome(NoSession, NoArchive, "SIGNED_OUT")})

\* A pending login may have succeeded, failed or expired meanwhile.
Refreshes(epoch, rev) ==
    IF Reopened(epoch, rev) = NoSession
    THEN (IF Restorable(epoch)
          THEN Reads(Restored(epoch, rev)) \cup
               Faulty("rpc", {Outcome(NoSession, archive, "ERROR")})
          ELSE {Outcome(NoSession, archive, "ERROR")}) \cup
         (IF session = NoSession THEN {}
          ELSE Faulty("close", {Outcome(session, archive, "ERROR")}))
    ELSE IF session.epoch # epoch \/ session.rev # rev
    THEN {Outcome(session, archive, "ERROR")}
    ELSE IF session.authenticated THEN Reads(session)
    ELSE Reads(session) \cup {Outcome(session, archive, "PENDING")} \cup
         Discarded("ERROR") \cup Discarded("EXPIRED")

\* Cancelling and signing out discard whatever the child answers.
Ends(result) ==
    Discarded(result) \cup
    Faulty("rpc", {Outcome(NoSession, NoArchive, "ERROR")})

Performs(j) ==
    CASE job[j].task = "START"   -> Starts(job[j].epoch, job[j].rev)
      [] job[j].task = "REFRESH" -> Refreshes(job[j].epoch, job[j].rev)
      [] job[j].task = "CANCEL"  -> Ends("CANCELLED")
      [] job[j].task = "LOGOUT"  -> Ends("SIGNED_OUT")

-------------------------------------------------------------------------------
(* The thread of an identity job.                                          *)

Goes(j, at) == job' = [job EXCEPT ![j].at = at]

Authorise(j) ==
    /\ job[j].at = "queued"
    /\ Goes(j, IF Current(j) THEN "rpc" ELSE "failed")
    /\ UNCHANGED <<connection, oauth, bridge, call, engine, faults, asked>>

Perform(j) ==
    /\ job[j].at = "rpc" /\ ~job[j].cancelled
    /\ \E o \in Performs(j) :
          /\ session' = o.session /\ archive' = o.archive
          /\ logins' = IF job[j].task = "START" THEN logins + 1 ELSE logins
          /\ job' = [job EXCEPT ![j].at = "recheck", ![j].result = o.result]
          /\ faults' = o.faults
    /\ UNCHANGED <<connection, oauth, call, engine, asked>>

\* The checkpoint before the bridge refuses a cancelled job.
Refuse(j) ==
    /\ job[j].at = "rpc" /\ job[j].cancelled
    /\ job' = [job EXCEPT ![j].at = "recheck", ![j].result = "ERROR"]
    /\ UNCHANGED <<connection, oauth, bridge, call, engine, faults, asked>>

\* Slip: nobody looks whether the job has been superseded.
ConfirmedOnceAsked(j) == ~job[j].cancelled

Confirmed(j) == ~job[j].cancelled /\ Current(j)

Recheck(j) ==
    /\ job[j].at = "recheck"
    /\ IF Confirmed(j)
       THEN /\ oauth' = [oauth EXCEPT !.state = job[j].result, !.job = Nobody]
            /\ Goes(j, IF job[j].result = "ERROR" THEN "discard" ELSE "final")
       ELSE /\ Goes(j, "discard")
            /\ UNCHANGED oauth
    /\ UNCHANGED <<connection, bridge, call, engine, faults, asked>>

\* discard_epoch: only a session of the job's own epoch.
DiscardEpoch(j) ==
    /\ job[j].at = "discard"
    /\ IF session.login > 0 /\ session.epoch = job[j].epoch
       THEN \E o \in Discarded("ERROR") :
               session' = o.session /\ archive' = o.archive /\ faults' = o.faults
       ELSE UNCHANGED <<session, archive, faults>>
    /\ job' = [job EXCEPT ![j].at = "failed", ![j].result = "ERROR"]
    /\ UNCHANGED <<connection, oauth, logins, call, engine, asked>>

Finish(j) ==
    /\ job[j].at = "final"
    /\ IF Confirmed(j) THEN job' = [job EXCEPT ![j] = [NoJob EXCEPT !.at = "done"]]
       ELSE job' = [job EXCEPT ![j].at = "failed", ![j].result = "ERROR"]
    /\ UNCHANGED <<connection, oauth, bridge, call, engine, faults, asked>>

-------------------------------------------------------------------------------
(* Text calls.                                                             *)

Authorised(c) ==
    /\ connection.enabled /\ connection.rev = call[c].rev
    /\ oauth.state = "AUTHENTICATED" /\ oauth.epoch = call[c].epoch
    /\ oauth.rev = call[c].rev

Idle == {"idle", "delivered"}

Snapshot(at) ==
    [NoCall EXCEPT !.at = at, !.epoch = oauth.epoch, !.rev = connection.rev]

Moves(c, at) == call' = [call EXCEPT ![c].at = at]

\* A call takes the slot at once only if nobody waits for it.
Straight == waiters = <<>> /\ slot = Nobody

\* Who is refused has failed at once.
Begin(c) ==
    /\ Asked
    /\ call[c].at \in Idle
    /\ connection.enabled /\ ~quarantined
    /\ oauth.state = "AUTHENTICATED" /\ oauth.rev = connection.rev
    /\ IF Straight
       THEN /\ call' = [call EXCEPT ![c] = Snapshot("admitted")]
            /\ slot' = c
            /\ UNCHANGED waiters
       ELSE /\ Len(waiters) < MaxWaiting
            /\ call' = [call EXCEPT ![c] = Snapshot("waiting")]
            /\ waiters' = Append(waiters, c)
            /\ UNCHANGED slot
    /\ UNCHANGED <<connection, oauth, job, bridge, quarantined, faults>>

Admit(c) ==
    /\ call[c].at = "waiting" /\ ~quarantined
    /\ slot = Nobody /\ Head(waiters) = c
    /\ slot' = c /\ waiters' = Tail(waiters)
    /\ Moves(c, "admitted")
    /\ UNCHANGED <<connection, oauth, job, bridge, quarantined, faults, asked>>

\* A reason to go, or the time is up.
Cut(reason) == IF reason THEN UNCHANGED faults ELSE Fault("timeout")

\* Slip: who goes away keeps the place in line.
WithPlaceKept(c) == waiters

Place(c) == CHOOSE i \in 1..Len(waiters) : waiters[i] = c

Without(c) == RemoveAt(waiters, Place(c))

\* Slip: who leaves the queue gives the slot back, too.
LeaveAndRelease(c) ==
    /\ call[c].at = "waiting"
    /\ Cut(quarantined \/ ~Authorised(c))
    /\ waiters' = Without(c) /\ slot' = Nobody
    /\ call' = [call EXCEPT ![c] = NoCall]
    /\ UNCHANGED <<connection, oauth, job, bridge, quarantined, asked>>

\* A waiter leaves when the engine is in quarantine, its authority is gone or
\* its time is up.
Leave(c) ==
    /\ call[c].at = "waiting"
    /\ Cut(quarantined \/ ~Authorised(c))
    /\ waiters' = Without(c)
    /\ call' = [call EXCEPT ![c] = NoCall]
    /\ UNCHANGED <<connection, oauth, job, bridge, slot, quarantined, asked>>

\* What a call finds under the lock: the session, restored if there is none.
Identified(c) ==
    IF session = NoSession THEN Refreshes(call[c].epoch, call[c].rev)
    ELSE {Outcome(session, archive, "AUTHENTICATED")}

Matches(s, c) == s.login > 0 /\ s.epoch = call[c].epoch /\ s.rev = call[c].rev

Identify(c) ==
    /\ call[c].at = "admitted"
    /\ \E o \in Identified(c) :
          /\ session' = o.session /\ archive' = o.archive
          /\ faults' = o.faults
          /\ IF /\ o.result = "AUTHENTICATED" /\ Matches(o.session, c)
                /\ o.session.authenticated
                /\ o.archive.login > 0 /\ o.archive.epoch = call[c].epoch
             THEN call' = [call EXCEPT ![c].at = "home", ![c].login = o.archive.login,
                                       ![c].gen = o.archive.gen]
             ELSE call' = [call EXCEPT ![c].at = "leaving", ![c].ok = FALSE]
    /\ UNCHANGED <<connection, oauth, job, logins, engine, asked>>

StartChild(c) ==
    /\ call[c].at = "home"
    /\ Moves(c, "ready")
    /\ UNCHANGED <<connection, oauth, job, bridge, engine, faults, asked>>

\* The child of a call may be given new tokens; the old ones are then void.
Rotate(c) ==
    /\ call[c].at = "sent"
    /\ call[c].gen < MaxGen
    /\ call' = [call EXCEPT ![c].gen = call[c].gen + 1]
    /\ UNCHANGED <<connection, oauth, job, bridge, engine, faults, asked>>

Send(c) ==
    /\ call[c].at = "ready" /\ Authorised(c)
    /\ Moves(c, "sent")
    /\ UNCHANGED <<connection, oauth, job, bridge, engine, faults, asked>>

Complete(c) ==
    /\ call[c].at = "sent" /\ Authorised(c)
    /\ Moves(c, "closing")
    /\ UNCHANGED <<connection, oauth, job, bridge, engine, faults, asked>>

\* Deadlines, cancellations, lost authority, protocol errors: anywhere.
Fail(c) ==
    /\ call[c].at \in {"admitted", "home", "ready", "sent"}
    /\ Cut(~Authorised(c))
    /\ call' = [call EXCEPT ![c].ok = FALSE,
                            ![c].at = IF Child(c) THEN "closing" ELSE "leaving"]
    /\ UNCHANGED <<connection, oauth, job, bridge, engine, asked>>

Close(c) ==
    /\ call[c].at = "closing"
    /\ Moves(c, "persisting")
    /\ UNCHANGED <<connection, oauth, job, bridge, engine, faults, asked>>

\* A child that cannot be stopped keeps its home, and no other one starts.
Quarantine(c) ==
    /\ call[c].at = "closing" /\ Fault("close")
    /\ quarantined' = TRUE
    /\ call' = [call EXCEPT ![c].at = "leaving", ![c].ok = FALSE]
    /\ UNCHANGED <<connection, oauth, job, bridge, waiters, slot, asked>>

\* Under the lock, if the session is still the one the call began with.
Persist(c) ==
    /\ call[c].at = "persisting" /\ Matches(session, c)
    /\ archive' = [login |-> call[c].login, epoch |-> session.epoch, gen |-> call[c].gen]
    /\ Moves(c, "leaving")
    /\ UNCHANGED <<connection, oauth, job, session, logins, engine, faults, asked>>

Unpersisted(c) ==
    /\ call[c].at = "persisting"
    /\ Cut(~Matches(session, c) \/ ~Authorised(c))
    /\ call' = [call EXCEPT ![c].at = "leaving", ![c].ok = FALSE]
    /\ UNCHANGED <<connection, oauth, job, bridge, engine, asked>>

\* The last check, with the home gone, and the end of the admission.
Delivered(c) == call[c].ok /\ Authorised(c)

\* Slip: a call that fails keeps the slot.
DepartIfDelivered(c) ==
    /\ call[c].at = "leaving"
    /\ call' = [call EXCEPT ![c] = IF Delivered(c) THEN [call[c] EXCEPT !.at = "delivered"]
                                   ELSE NoCall]
    /\ slot' = IF Delivered(c) THEN Nobody ELSE slot
    /\ UNCHANGED <<connection, oauth, job, bridge, waiters, quarantined, faults, asked>>

Depart(c) ==
    /\ call[c].at = "leaving"
    /\ call' = [call EXCEPT ![c] = IF Delivered(c) THEN [call[c] EXCEPT !.at = "delivered"]
                                   ELSE NoCall]
    /\ slot' = Nobody
    /\ UNCHANGED <<connection, oauth, job, bridge, waiters, quarantined, faults, asked>>

-------------------------------------------------------------------------------
(* The process.                                                            *)

Fresh ==
    /\ session' = NoSession
    /\ waiters' = <<>> /\ slot' = Nobody /\ quarantined' = FALSE

\* Threads, children and the session are gone; rows and the archive stay, and
\* recovery queues the jobs again.
Crash ==
    /\ Fault("crash")
    /\ job' = [j \in Jobs |-> IF job[j].at \notin Threads THEN job[j]
                              ELSE [job[j] EXCEPT !.at = IF job[j].cancelled THEN "failed"
                                                         ELSE "queued"]]
    /\ call' = [c \in Calls |-> IF call[c].at \in Idle THEN call[c] ELSE NoCall]
    /\ Fresh
    /\ UNCHANGED <<connection, oauth, archive, logins, asked>>

\* Slip: the home of the session is archived whatever calls have archived.
PreservedAgain ==
    IF session = NoSession THEN archive
    ELSE IF ~session.authenticated THEN NoArchive
    ELSE [login |-> session.login, epoch |-> session.epoch, gen |-> 1]

\* An orderly stop waits for the jobs, then closes the bridge: a login is
\* archived only if it is not yet, a login that is not complete is discarded.
Preserved ==
    IF session = NoSession THEN archive
    ELSE IF ~session.authenticated THEN NoArchive
    ELSE IF archive.login > 0 THEN archive
    ELSE [login |-> session.login, epoch |-> session.epoch, gen |-> 1]

Reload ==
    /\ Fault("reload")
    /\ \A j \in Jobs : job[j].at \notin Threads
    /\ \A c \in Calls : call[c].at \in Idle
    /\ archive' = Preserved
    /\ Fresh
    /\ UNCHANGED <<connection, oauth, job, logins, call, asked>>

RequestStep(j) ==
    \/ RequestStart(j) \/ RequestRefresh(j) \/ RequestCancel(j) \/ RequestLogout(j)
    \/ Edit(j) \/ CancelJob(j) \/ RetryJob(j)

JobStep(j) ==
    Authorise(j) \/ Perform(j) \/ Refuse(j) \/ Recheck(j) \/ DiscardEpoch(j) \/ Finish(j)

\* What moves a call towards its end.
Advance(c) ==
    \/ Admit(c) \/ Leave(c) \/ Identify(c) \/ StartChild(c) \/ Send(c) \/ Complete(c)
    \/ Fail(c) \/ Close(c) \/ Quarantine(c) \/ Persist(c) \/ Unpersisted(c) \/ Depart(c)

CallStep(c) == Begin(c) \/ Rotate(c) \/ Advance(c)

Next ==
    \/ \E j \in Jobs : RequestStep(j) \/ JobStep(j)
    \/ \E c \in Calls : CallStep(c)
    \/ Consent \/ Crash \/ Reload

Spec == Init /\ [][Next]_vars

Fairness == \A c \in Calls : WF_vars(Advance(c))

FairSpec == Spec /\ Fairness

-------------------------------------------------------------------------------
(* Properties.                                                             *)

Ended == {"SIGNED_OUT", "CANCELLED", "EXPIRED"}

Quiet == \A j \in Jobs : ~Underway(j)

\* The tokens that a delivered call has left in the archive are never replaced
\* by older ones of the same login, whichever of other calls, refreshes,
\* restores and reloads write the archive.
TokensKept ==
    \A c \in Calls :
        call[c].at = "delivered" /\ archive.login = call[c].login /\ archive.login > 0
            => archive.gen >= call[c].gen

\* When no identity job is under way, the bridge has no other login than the
\* one of the epoch that the row names, and if the row says that the login has
\* ended then nothing of another epoch is archived: a superseded or cancelled
\* job, however late it reaches the bridge, and a call that archives late leave
\* nothing.  Signing out and cancelling begin an epoch without a login, so
\* after them there is nothing at all.  (Several faults can leave more: a job that a
\* crash or a retry makes run again leaves an archive of an epoch that is over, and
\* an archive that stays because a child could not be stopped is restored by a call
\* of its epoch.  MaxFaults = 1 keeps to one.)
NoStrayLogin ==
    Quiet =>
        /\ oauth.state \in {"PENDING", "AUTHENTICATED"} \cup Ended /\ session # NoSession
              => session.epoch = oauth.epoch
        /\ oauth.state \in Ended /\ archive # NoArchive => archive.epoch = oauth.epoch

\* No two text children run at a time, also after one could not be stopped.
OneTextChild ==
    \A c \in Calls : Child(c) => ~quarantined /\ \A d \in Calls : Child(d) => c = d

\* Every call ends, whatever happens to the login and the queue, and whether or
\* not its deadline comes: who holds the slot gives it back.  That the child
\* answers, fails or is cancelled is fairness: a call without a timeout whose
\* child hangs keeps the slot until somebody cancels it.
CallsEnd == \A c \in Calls : call[c].at \notin Idle ~> call[c].at \in Idle
===============================================================================
