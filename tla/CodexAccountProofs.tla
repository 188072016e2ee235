--------------------------- MODULE CodexAccountProofs ---------------------------
(***************************************************************************)
(* What holds for any jobs, calls, rotations and faults: no two text       *)
(* children, and no archive that goes back behind a delivered call.  Both  *)
(* rest on the slot: only its holder has a child and archives tokens, and  *)
(* what it holds is not older than what any earlier holder has left.  If   *)
(* jobs run once and children can be stopped, no login stays that the row  *)
(* does not name.                                                          *)
(***************************************************************************)
EXTENDS CodexAccount, TLAPS

Holding == {"admitted", "home", "ready", "sent", "closing", "persisting", "leaving"}
Tokens == {"home", "ready", "sent", "closing", "persisting"}

\* Who waits is in line, once.
InLine ==
    /\ \A c \in Calls : call[c].at = "waiting" => \E i \in 1..Len(waiters) : waiters[i] = c
    /\ \A i, k \in 1..Len(waiters) : waiters[i] = waiters[k] => i = k

\* Who runs has the slot; after a child could not be stopped nobody goes on.
Owned ==
    \A c \in Calls : call[c].at \in Holding =>
        slot = c /\ (quarantined => call[c].at = "leaving")

\* The login of the session: begun, and archived once it is authenticated.
Opened ==
    /\ session.login = 0 => session = NoSession
    /\ session.authenticated => archive.login > 0

Numbered ==
    /\ session.login <= logins /\ archive.login <= logins
    /\ \A c \in Calls : call[c].login <= logins

\* A login that is not complete has been archived by nobody.
Pending ==
    session.login > 0 /\ ~session.authenticated =>
        /\ archive.login # session.login
        /\ \A c \in Calls : call[c].login # session.login

\* The holder of the slot has tokens as new as those of the archive and of every
\* delivered call, and leaves them in the archive.
Newest ==
    \A c \in Calls :
        /\ call[c].at \in Tokens =>
              /\ call[c].login > 0
              /\ archive.login = call[c].login => archive.gen <= call[c].gen
              /\ \A d \in Calls :
                    call[d].at = "delivered" /\ call[d].login = call[c].login
                        => call[d].gen <= call[c].gen
        /\ call[c].at = "leaving" /\ call[c].ok =>
              /\ call[c].login > 0
              /\ archive.login = call[c].login => archive.gen >= call[c].gen

CodexInv ==
    TypeOK /\ InLine /\ Owned /\ Opened /\ Numbered /\ Pending /\ Newest /\ TokensKept

-------------------------------------------------------------------------------
(* What the bridge may make of the session and the archive.                *)

\* n: logins begun by then.  An archive is left, gone, or of a login of which no
\* call has tokens.
Sound(s, a, n) ==
    /\ s \in Session /\ a \in Archive
    /\ s.login = 0 => s = NoSession
    /\ s.authenticated => a.login > 0
    /\ s.login <= n /\ a.login <= n
    /\ s.login > 0 /\ ~s.authenticated =>
          a.login # s.login /\ \A c \in Calls : call[c].login # s.login
    /\ a = archive \/ a.login = 0 \/ \A c \in Calls : call[c].login # a.login

SoundOutcome(o, n) ==
    /\ Sound(o.session, o.archive, n)
    /\ o.result \in States /\ o.faults \in Nat
    /\ o = [session |-> o.session, archive |-> o.archive, result |-> o.result,
            faults |-> o.faults]

LEMMA Nothing ==
    /\ NoSession \in Session /\ NoSession.login = 0 /\ NoSession.authenticated = FALSE
    /\ NoArchive \in Archive /\ NoArchive.login = 0
BY DEF NoSession, Session, NoArchive, Archive

LEMMA SessionFields ==
    ASSUME NEW s \in Session
    PROVE  s.login \in Nat /\ s.epoch \in Nat /\ s.rev \in Nat /\ s.authenticated \in BOOLEAN
BY DEF Session

LEMMA ArchiveFields ==
    ASSUME NEW a \in Archive
    PROVE  a.login \in Nat /\ a.epoch \in Nat /\ a.gen \in Nat
BY DEF Archive

LEMMA Counts ==
    ASSUME CodexInv
    PROVE  /\ session \in Session /\ archive \in Archive
           /\ logins \in Nat /\ faults \in Nat /\ asked \in Nat
BY DEF CodexInv, TypeOK

\* The state as it is, and the one without a session.
LEMMA AsItIs ==
    ASSUME CodexInv
    PROVE  Sound(session, archive, logins)
BY Counts DEF CodexInv, Opened, Numbered, Pending, Sound

LEMMA NothingLeft ==
    ASSUME CodexInv, NEW n \in Nat
    PROVE  Sound(NoSession, NoArchive, n)
BY Nothing DEF Sound

LEMMA SessionLost ==
    ASSUME CodexInv
    PROVE  Sound(NoSession, archive, logins)
BY Nothing, Counts DEF CodexInv, Numbered, Sound

LEMMA MoreLogins ==
    ASSUME CodexInv, NEW s, NEW a, Sound(s, a, logins)
    PROVE  Sound(s, a, logins + 1)
<1>1. s.login \in Nat /\ a.login \in Nat
  BY SessionFields, ArchiveFields DEF Sound
<1>2. logins \in Nat
  BY Counts
<1> QED
  BY <1>1, <1>2 DEF Sound

LEMMA OutcomeSound ==
    ASSUME CodexInv, NEW n, NEW s, NEW a, NEW result \in States, Sound(s, a, n)
    PROVE  SoundOutcome(Outcome(s, a, result), n)
BY Counts DEF SoundOutcome, Outcome

LEMMA FaultySound ==
    ASSUME CodexInv, NEW n, NEW kind, NEW S, \A o \in S : SoundOutcome(o, n)
    PROVE  \A o \in Faulty(kind, S) : SoundOutcome(o, n)
<1> SUFFICES ASSUME NEW o \in S
             PROVE  SoundOutcome([o EXCEPT !.faults = faults + 1], n)
  BY DEF Faulty
<1> DEFINE q == [o EXCEPT !.faults = faults + 1]
<1>1. SoundOutcome(o, n)
  OBVIOUS
<1>2. /\ q.session = o.session /\ q.archive = o.archive /\ q.result = o.result
      /\ q.faults = faults + 1
      /\ q = [session |-> o.session, archive |-> o.archive, result |-> o.result,
              faults |-> faults + 1]
  BY <1>1 DEF SoundOutcome
<1>3. faults + 1 \in Nat
  BY Counts
<1> QED
  BY <1>1, <1>2, <1>3 DEF SoundOutcome

LEMMA UnstoppedSound ==
    ASSUME CodexInv
    PROVE  \A o \in Unstopped : SoundOutcome(o, logins)
<1>1. \A o \in {Outcome(NoSession, archive, "ERROR")} : SoundOutcome(o, logins)
  BY SessionLost, OutcomeSound DEF States
<1> QED
  BY <1>1, FaultySound DEF Unstopped

LEMMA DiscardedSound ==
    ASSUME CodexInv, NEW result \in States
    PROVE  \A o \in Discarded(result) : SoundOutcome(o, logins)
<1>1. SoundOutcome(Outcome(NoSession, NoArchive, result), logins)
  BY NothingLeft, OutcomeSound, Counts
<1> QED
  BY <1>1, UnstoppedSound DEF Discarded

LEMMA EndsSound ==
    ASSUME CodexInv, NEW result \in States
    PROVE  \A o \in Ends(result) : SoundOutcome(o, logins)
<1>1. \A o \in {Outcome(NoSession, NoArchive, "ERROR")} : SoundOutcome(o, logins)
  BY NothingLeft, OutcomeSound, Counts DEF States
<1> QED
  BY <1>1, DiscardedSound, FaultySound DEF Ends

LEMMA StartsSound ==
    ASSUME CodexInv, NEW epoch \in Nat, NEW rev \in Nat
    PROVE  \A o \in Starts(epoch, rev) : SoundOutcome(o, logins + 1)
<1> DEFINE forgotten == IF session = NoSession THEN archive ELSE NoArchive
           fresh == [login |-> logins + 1, epoch |-> epoch, rev |-> rev, authenticated |-> FALSE]
<1>1. /\ fresh \in Session /\ fresh.login = logins + 1 /\ fresh.authenticated = FALSE
      /\ logins \in Nat /\ archive.login \in Nat /\ forgotten \in Archive
      /\ forgotten.login <= logins /\ (forgotten = archive \/ forgotten.login = 0)
  BY Counts, Nothing, ArchiveFields DEF Session, CodexInv, Numbered
<1>2. \A c \in Calls : call[c].login \in Nat /\ call[c].login <= logins
  BY DEF CodexInv, TypeOK, Call, Numbered
<1>3. Sound(fresh, forgotten, logins + 1)
  <2> HIDE DEF fresh, forgotten
  <2>1. forgotten.login \in Nat
    BY <1>1, ArchiveFields
  <2> QED
    BY <1>1, <1>2, <2>1 DEF Sound
<1>4. Sound(NoSession, forgotten, logins + 1) /\ Sound(NoSession, NoArchive, logins + 1)
  BY SessionLost, NothingLeft, MoreLogins, Counts
<1>5. \A o \in {Outcome(NoSession, forgotten, "ERROR"), Outcome(NoSession, NoArchive, "ERROR")} :
          SoundOutcome(o, logins + 1)
  BY <1>4, OutcomeSound DEF States
<1>6. SoundOutcome(Outcome(fresh, forgotten, "PENDING"), logins + 1)
  BY <1>3, OutcomeSound DEF States
<1>7. \A o \in Unstopped : SoundOutcome(o, logins + 1)
  BY UnstoppedSound, MoreLogins DEF SoundOutcome
<1> QED
  BY <1>5, <1>6, <1>7, FaultySound DEF Starts

LEMMA ReadsSound ==
    ASSUME CodexInv, NEW s, Sound(s, archive, logins), s.login > 0
    PROVE  \A o \in Reads(s) : SoundOutcome(o, logins)
<1> DEFINE first == [login |-> s.login, epoch |-> s.epoch, gen |-> 1]
           known == [s EXCEPT !.authenticated = TRUE]
           kept == IF s.authenticated THEN archive ELSE first
<1>1. s \in Session /\ s.login \in Nat /\ s.epoch \in Nat
  BY SessionFields DEF Sound
<1>2. known \in Session /\ known.login = s.login /\ known.authenticated = TRUE
  BY <1>1 DEF Session
<1>3. first \in Archive /\ first.login = s.login
  BY <1>1 DEF Archive
<1>4. known # NoSession
  BY <1>2, Nothing
<1>5. Sound(known, kept, logins)
  <2> HIDE DEF known, first
  <2>1. CASE s.authenticated
    BY <2>1, <1>1, <1>2 DEF Sound
  <2>2. CASE ~s.authenticated
    BY <2>2, <1>1, <1>2, <1>3 DEF Sound
  <2> QED
    BY <2>1, <2>2
<1>6. SoundOutcome(Outcome(known, kept, "AUTHENTICATED"), logins)
  <2> HIDE DEF known, kept
  <2> QED
    BY <1>5, OutcomeSound DEF States
<1>7. \A o \in {Outcome(s, archive, "ERROR"), Outcome(NoSession, NoArchive, "SIGNED_OUT")} :
          SoundOutcome(o, logins)
  BY NothingLeft, OutcomeSound, Counts DEF States
<1> QED
  BY <1>6, <1>7, FaultySound DEF Reads

LEMMA RefreshesSound ==
    ASSUME CodexInv, NEW epoch \in Nat, NEW rev \in Nat
    PROVE  \A o \in Refreshes(epoch, rev) : SoundOutcome(o, logins)
<1>1. Sound(session, archive, logins) /\ Sound(NoSession, archive, logins)
  BY AsItIs, SessionLost
<1>2. Restorable(epoch) =>
        Sound(Restored(epoch, rev), archive, logins) /\ Restored(epoch, rev).login > 0
  <2> SUFFICES ASSUME Restorable(epoch)
               PROVE  Sound(Restored(epoch, rev), archive, logins) /\ Restored(epoch, rev).login > 0
    OBVIOUS
  <2>1. /\ Restored(epoch, rev) \in Session /\ Restored(epoch, rev).login = archive.login
        /\ Restored(epoch, rev).authenticated = TRUE
        /\ archive.login > 0 /\ archive.login <= logins
    BY Counts, ArchiveFields DEF Restored, Restorable, Session, CodexInv, Numbered
  <2> QED
    BY <2>1, Counts DEF Sound
<1>3. session # NoSession => session.login > 0
  BY Counts, SessionFields DEF CodexInv, Opened
<1>4. \A o \in {Outcome(session, archive, "ERROR"), Outcome(session, archive, "PENDING"),
                Outcome(NoSession, archive, "ERROR")} : SoundOutcome(o, logins)
  BY <1>1, OutcomeSound DEF States
<1>5. \A o \in Discarded("ERROR") \cup Discarded("EXPIRED") : SoundOutcome(o, logins)
  BY DiscardedSound DEF States
<1>6. Restorable(epoch) => \A o \in Reads(Restored(epoch, rev)) : SoundOutcome(o, logins)
  BY <1>2, ReadsSound
<1>7. session # NoSession => \A o \in Reads(session) : SoundOutcome(o, logins)
  BY <1>1, <1>3, ReadsSound
<1>8. \A o \in Faulty("rpc", {Outcome(NoSession, archive, "ERROR")})
               \cup Faulty("close", {Outcome(session, archive, "ERROR")}) : SoundOutcome(o, logins)
  BY <1>4, FaultySound
<1>9. CASE Reopened(epoch, rev) = NoSession
  BY <1>9, <1>4, <1>6, <1>8 DEF Refreshes
<1>10. CASE Reopened(epoch, rev) # NoSession
  <2>1. session # NoSession
    BY <1>10 DEF Reopened
  <2> QED
    BY <1>10, <2>1, <1>4, <1>5, <1>7 DEF Refreshes
<1> QED
  BY <1>9, <1>10

LEMMA PerformsSound ==
    ASSUME CodexInv, NEW j \in Jobs, NEW o \in Performs(j)
    PROVE  SoundOutcome(o, IF job[j].task = "START" THEN logins + 1 ELSE logins)
<1>1. /\ job[j].task \in Tasks /\ job[j].epoch \in Nat /\ job[j].rev \in Nat
  BY DEF CodexInv, TypeOK, Job
<1>2. CASE job[j].task = "START"
  <2>1. o \in Starts(job[j].epoch, job[j].rev)
    BY <1>2 DEF Performs
  <2> QED
    BY <1>1, <1>2, <2>1, StartsSound
<1>3. CASE job[j].task = "REFRESH"
  <2>1. o \in Refreshes(job[j].epoch, job[j].rev)
    BY <1>3 DEF Performs
  <2> QED
    BY <1>1, <1>3, <2>1, RefreshesSound
<1>4. CASE job[j].task = "CANCEL"
  <2>1. o \in Ends("CANCELLED")
    BY <1>4 DEF Performs
  <2> QED
    BY <1>4, <2>1, EndsSound DEF States
<1>5. CASE job[j].task = "LOGOUT"
  <2>1. o \in Ends("SIGNED_OUT")
    BY <1>5 DEF Performs
  <2> QED
    BY <1>5, <2>1, EndsSound DEF States
<1> QED
  BY <1>1, <1>2, <1>3, <1>4, <1>5 DEF Tasks

LEMMA IdentifiedSound ==
    ASSUME CodexInv, NEW c \in Calls, NEW o \in Identified(c)
    PROVE  SoundOutcome(o, logins)
<1>1. call[c].epoch \in Nat /\ call[c].rev \in Nat
  BY DEF CodexInv, TypeOK, Call
<1>2. CASE session = NoSession
  BY <1>1, <1>2, RefreshesSound DEF Identified
<1>3. CASE session # NoSession
  <2>1. SoundOutcome(Outcome(session, archive, "AUTHENTICATED"), logins)
    BY AsItIs, OutcomeSound DEF States
  <2> QED
    BY <2>1, <1>3 DEF Identified
<1> QED
  BY <1>2, <1>3

-------------------------------------------------------------------------------
(* Steps, by what they leave alone.                                        *)

\* What the rows and counters are, whatever the bridge and the calls do.
Rows ==
    /\ connection \in [rev: Nat, enabled: BOOLEAN]
    /\ oauth \in [state: States, epoch: Nat, rev: Nat, job: Jobs \cup {Nobody}]
    /\ job \in [Jobs -> Job]
    /\ asked \in Nat /\ faults \in Nat

\* What the calls and their queue are.
Queued ==
    /\ call \in [Calls -> Call]
    /\ waiters \in Seq(Calls) /\ slot \in Calls \cup {Nobody}
    /\ \A i \in 1..Len(waiters) : call[waiters[i]].at = "waiting"
    /\ quarantined \in BOOLEAN
    /\ InLine

Tokened == Opened /\ Numbered /\ Pending /\ Newest /\ TokensKept

Bridged == session \in Session /\ archive \in Archive /\ logins \in Nat

LEMMA Parts == CodexInv <=> Rows /\ Queued /\ Owned /\ Bridged /\ Tokened
BY DEF CodexInv, TypeOK, Rows, Queued, Bridged, Tokened

LEMMA PartsNext == CodexInv' <=> Rows' /\ Queued' /\ Owned' /\ Bridged' /\ Tokened'
BY DEF CodexInv, TypeOK, Rows, Queued, Bridged, Tokened

LEMMA CallFields ==
    ASSUME CodexInv, NEW c \in Calls
    PROVE  /\ call[c] \in Call /\ call[c].epoch \in Nat /\ call[c].rev \in Nat
           /\ call[c].login \in Nat /\ call[c].gen \in Nat /\ call[c].ok \in BOOLEAN
BY DEF CodexInv, TypeOK, Call

LEMMA NoCallFields ==
    /\ NoCall \in Call /\ NoCall.at = "idle" /\ NoCall.login = 0 /\ NoCall.gen = 0
BY DEF NoCall, Call

\* The bridge moves, the calls do not.
LEMMA BridgeStep ==
    ASSUME CodexInv, UNCHANGED call, logins' \in Nat, logins <= logins',
           Sound(session', archive', logins')
    PROVE  Bridged' /\ Tokened'
<1>1. Bridged'
  BY DEF Bridged, Sound
<1>2. Opened'
  BY DEF Sound, Opened
<1>3. Numbered'
  <2>1. \A c \in Calls : call[c].login <= logins'
    BY CallFields, Counts DEF CodexInv, Numbered
  <2> QED
    BY <2>1 DEF Numbered, Sound
<1>4. Pending'
  BY DEF Sound, Pending
<1>5. /\ archive' \in Archive
      /\ archive' = archive \/ archive'.login = 0 \/ \A c \in Calls : call[c].login # archive'.login
  BY DEF Sound
<1>6. Newest'
  BY <1>5 DEF CodexInv, Newest
<1>7. TokensKept'
  BY <1>5, ArchiveFields DEF CodexInv, TokensKept
<1> QED
  BY <1>1, <1>2, <1>3, <1>4, <1>6, <1>7 DEF Tokened

\* The rows move, the rest does not.
LEMMA RowStep ==
    ASSUME CodexInv, UNCHANGED <<bridge, call, engine>>, Rows'
    PROVE  CodexInv'
<1>1. UNCHANGED <<session, archive, logins, call, waiters, slot, quarantined>>
  BY DEF bridge, engine
<1>2. Rows /\ Queued /\ Owned /\ Bridged /\ Tokened
  BY Parts
<1>3. Bridged' /\ Tokened'
  BY <1>1, <1>2 DEF Bridged, Tokened, Opened, Numbered, Pending, Newest, TokensKept
<1>4. Queued' /\ Owned'
  BY <1>1, <1>2 DEF Queued, InLine, Owned
<1> QED
  BY <1>3, <1>4, PartsNext

\* One call moves, and the bridge does not.
LEMMA TokensStep ==
    ASSUME CodexInv, UNCHANGED bridge,
           NEW c \in Calls, NEW q \in Call, call' = [call EXCEPT ![c] = q],
           q.login = call[c].login \/ q.login = 0,
           q.at \in Tokens => call[c].at \in Tokens /\ q.login = call[c].login
                                /\ q.gen >= call[c].gen,
           ~(q.at = "leaving" /\ q.ok),
           q.at = "delivered" =>
              /\ call[c].at = "leaving" /\ call[c].ok
              /\ q.login = call[c].login /\ q.gen = call[c].gen
    PROVE  Bridged' /\ Tokened'
<1>1. UNCHANGED <<session, archive, logins>>
  BY DEF bridge
<1>2. /\ call'[c] = q /\ \A d \in Calls : d # c => call'[d] = call[d]
      /\ \A d \in Calls : call[d] \in Call
  BY DEF CodexInv, TypeOK
<1>3. /\ q.login \in Nat /\ q.gen \in Nat
      /\ \A d \in Calls : call[d].login \in Nat /\ call[d].gen \in Nat
  BY CallFields DEF Call
<1>4. Bridged' /\ Opened'
  BY <1>1, Parts DEF Bridged, Tokened, Opened
<1>5. Numbered'
  <2>1. logins \in Nat /\ session.login <= logins /\ archive.login <= logins
        /\ \A d \in Calls : call[d].login <= logins
    BY Counts DEF CodexInv, Numbered
  <2>2. q.login <= logins
    BY <2>1, <1>3
  <2>3. \A d \in Calls : call'[d].login <= logins
    BY <2>1, <2>2, <1>2
  <2> QED
    BY <2>1, <2>3, <1>1 DEF Numbered
<1>6. Pending'
  BY <1>1, <1>2, Counts, SessionFields DEF CodexInv, Pending
<1>7. \A d \in Calls : d # c /\ call[c].at \in Holding => call[d].at \notin Holding
  BY DEF CodexInv, Owned
<1>8. archive.gen \in Nat /\ archive.login \in Nat
  BY Counts, ArchiveFields
<1>9. Newest'
  <2> SUFFICES ASSUME NEW d \in Calls
               PROVE  /\ call'[d].at \in Tokens =>
                            /\ call'[d].login > 0
                            /\ archive.login = call'[d].login => archive.gen <= call'[d].gen
                            /\ \A e \in Calls :
                                  call'[e].at = "delivered" /\ call'[e].login = call'[d].login
                                      => call'[e].gen <= call'[d].gen
                      /\ call'[d].at = "leaving" /\ call'[d].ok =>
                            /\ call'[d].login > 0
                            /\ archive.login = call'[d].login => archive.gen >= call'[d].gen
    BY <1>1 DEF Newest
  <2>1. CASE d = c
    <3>1. SUFFICES ASSUME q.at \in Tokens
                   PROVE  /\ q.login > 0
                          /\ archive.login = q.login => archive.gen <= q.gen
                          /\ \A e \in Calls :
                                call'[e].at = "delivered" /\ call'[e].login = q.login
                                    => call'[e].gen <= q.gen
      BY <2>1, <1>2
    <3>2. /\ call[c].login > 0 /\ q.login = call[c].login /\ q.gen >= call[c].gen
          /\ archive.login = call[c].login => archive.gen <= call[c].gen
          /\ \A e \in Calls : call[e].at = "delivered" /\ call[e].login = call[c].login
                => call[e].gen <= call[c].gen
      BY <3>1 DEF CodexInv, Newest
    <3>3. \A e \in Calls : call'[e].at = "delivered" => e # c /\ call'[e] = call[e]
      BY <3>1, <1>2 DEF Tokens
    <3> QED
      BY <3>2, <3>3, <1>3, <1>8
  <2>2. CASE d # c
    <3>1. call'[d] = call[d]
      BY <2>2, <1>2
    <3>2. /\ call[d].at \in Tokens =>
              /\ call[d].login > 0
              /\ archive.login = call[d].login => archive.gen <= call[d].gen
              /\ \A e \in Calls : call[e].at = "delivered" /\ call[e].login = call[d].login
                    => call[e].gen <= call[d].gen
          /\ call[d].at = "leaving" /\ call[d].ok =>
              /\ call[d].login > 0
              /\ archive.login = call[d].login => archive.gen >= call[d].gen
      BY DEF CodexInv, Newest
    <3>3. call[d].at \in Tokens => \A e \in Calls : call'[e].at = "delivered" => call'[e] = call[e]
      <4>1. call[d].at \in Tokens => q.at # "delivered"
        BY <2>2, <1>7 DEF Tokens, Holding
      <4> QED
        BY <4>1, <1>2
    <3> QED
      BY <3>1, <3>2, <3>3
  <2> QED
    BY <2>1, <2>2
<1>10. TokensKept'
  <2>1. SUFFICES ASSUME NEW d \in Calls, call'[d].at = "delivered",
                        archive.login = call'[d].login, archive.login > 0
                 PROVE  archive.gen >= call'[d].gen
    BY <1>1 DEF TokensKept
  <2>2. CASE d = c
    BY <2>1, <2>2, <1>2 DEF CodexInv, Newest
  <2>3. CASE d # c
    BY <2>1, <2>3, <1>2 DEF CodexInv, TokensKept
  <2> QED
    BY <2>2, <2>3
<1> QED
  BY <1>4, <1>5, <1>6, <1>9, <1>10 DEF Tokened

\* One call that does not wait moves, and the queue does not.
LEMMA LineStep ==
    ASSUME CodexInv, UNCHANGED waiters, slot' \in Calls \cup {Nobody}, quarantined' \in BOOLEAN,
           NEW c \in Calls, NEW q \in Call, call' = [call EXCEPT ![c] = q],
           call[c].at # "waiting", q.at # "waiting"
    PROVE  Queued'
<1>1. Queued
  BY Parts
<1>2. call' \in [Calls -> Call]
  BY <1>1 DEF Queued
<1>3. call'[c] = q /\ \A d \in Calls : d # c => call'[d] = call[d]
  BY <1>1 DEF Queued
<1>4. \A i \in 1..Len(waiters) : waiters[i] \in Calls /\ call'[waiters[i]].at = "waiting"
  BY <1>1, <1>3 DEF Queued
<1>5. InLine'
  BY <1>1, <1>3 DEF Queued, InLine
<1> QED
  BY <1>1, <1>2, <1>4, <1>5 DEF Queued

\* A call that has the slot goes on with it.
LEMMA OwnedStep ==
    ASSUME CodexInv, UNCHANGED slot,
           NEW c \in Calls, NEW q \in Call, call' = [call EXCEPT ![c] = q],
           call[c].at \in Holding,
           quarantined' => q.at \notin Holding \/ q.at = "leaving"
    PROVE  Owned'
<1>1. /\ call'[c] = q /\ \A d \in Calls : d # c => call'[d] = call[d]
  BY DEF CodexInv, TypeOK
<1>2. slot = c /\ \A d \in Calls : d # c => call[d].at \notin Holding
  BY DEF CodexInv, Owned
<1> QED
  BY <1>1, <1>2 DEF Owned

-------------------------------------------------------------------------------
(* Requests and jobs.                                                      *)

LEMMA JobFields ==
    ASSUME CodexInv
    PROVE  /\ job \in [Jobs -> Job] /\ connection.rev \in Nat /\ connection.enabled \in BOOLEAN
           /\ oauth.state \in States /\ oauth.epoch \in Nat /\ oauth.rev \in Nat
           /\ oauth.job \in Jobs \cup {Nobody}
BY DEF CodexInv, TypeOK

LEMMA RequestTypes ==
    ASSUME CodexInv, NEW j \in Jobs, NEW task \in Tasks, NEW epoch \in Nat, NEW state \in States,
           NEW rev \in Nat, Request(j, task, epoch, state, rev),
           connection' \in [rev: Nat, enabled: BOOLEAN]
    PROVE  CodexInv'
<1> DEFINE q == [NoJob EXCEPT !.task = task, !.epoch = epoch, !.rev = rev, !.at = "queued"]
<1>1. q \in Job
  BY DEF NoJob, Job, States
<1>2. job' = [job EXCEPT ![j] = q]
  BY DEF Request
<1>3. job' \in [Jobs -> Job]
  <2> HIDE DEF q
  <2> QED
    BY <1>1, <1>2, JobFields
<1>4. oauth' \in [state: States, epoch: Nat, rev: Nat, job: Jobs \cup {Nobody}]
  BY DEF Request
<1>5. asked' \in Nat /\ faults' \in Nat
  BY Counts DEF Request, Asked
<1>6. Rows'
  BY <1>3, <1>4, <1>5 DEF Rows
<1> QED
  BY <1>6, RowStep DEF Request

LEMMA RequestsStep ==
    ASSUME CodexInv, NEW j \in Jobs, RequestStep(j)
    PROVE  CodexInv'
<1>0. /\ connection \in [rev: Nat, enabled: BOOLEAN]
      /\ oauth \in [state: States, epoch: Nat, rev: Nat, job: Jobs \cup {Nobody}]
      /\ connection.rev \in Nat /\ oauth.epoch + 1 \in Nat
  BY JobFields DEF CodexInv, TypeOK
<1>1. CASE RequestStart(j)
  BY <1>0, <1>1, JobFields, RequestTypes DEF RequestStart, Tasks, States
<1>2. CASE RequestRefresh(j)
  <2>1. Request(j, "REFRESH", oauth.epoch, oauth.state, connection.rev) /\ connection' = connection
    BY <1>2 DEF RequestRefresh
  <2> QED
    BY <1>0, <2>1, JobFields, RequestTypes DEF Tasks
<1>3. CASE RequestCancel(j)
  BY <1>0, <1>3, JobFields, RequestTypes DEF RequestCancel, Tasks, States
<1>4. CASE RequestLogout(j)
  BY <1>0, <1>4, JobFields, RequestTypes DEF RequestLogout, Tasks, States
<1>5. CASE Edit(j)
  <2>1. Request(j, "LOGOUT", oauth.epoch + 1, "SIGNING_OUT", connection.rev + 1)
    BY <1>5 DEF Edit
  <2>2. connection' \in [rev: Nat, enabled: BOOLEAN] /\ connection.rev + 1 \in Nat
    BY <1>0, <1>5 DEF Edit
  <2> QED
    BY <1>0, <2>1, <2>2, RequestTypes DEF Tasks, States
<1>6. CASE CancelJob(j)
  <2> DEFINE at == IF job[j].at = "queued" THEN "failed" ELSE job[j].at
             q == [job[j] EXCEPT !.cancelled = TRUE, !.at = at]
  <2>1. job[j] \in Job /\ job[j].at \in {"absent", "queued", "rpc", "recheck", "discard",
                                         "final", "failed", "done"}
    BY JobFields DEF Job
  <2>2. q \in Job
    BY <2>1 DEF Job
  <2>3. job' = [job EXCEPT ![j] = q]
    BY <1>6, JobFields DEF CancelJob
  <2>4. job' \in [Jobs -> Job]
    <3> HIDE DEF q
    <3> QED
      BY <2>2, <2>3, JobFields
  <2>5. Rows'
    BY <1>0, <1>6, <2>4, Counts DEF Rows, CancelJob, Fault
  <2> QED
    BY <1>6, <2>5, RowStep DEF CancelJob
<1>7. CASE RetryJob(j)
  <2> DEFINE q == [job[j] EXCEPT !.at = "queued", !.cancelled = FALSE]
  <2>1. q \in Job
    BY JobFields DEF Job
  <2>2. job' = [job EXCEPT ![j] = q]
    BY <1>7, JobFields DEF RetryJob
  <2>3. job' \in [Jobs -> Job]
    <3> HIDE DEF q
    <3> QED
      BY <2>1, <2>2, JobFields
  <2>4. Rows'
    BY <1>0, <1>7, <2>3, Counts DEF Rows, RetryJob, Fault
  <2> QED
    BY <1>7, <2>4, RowStep DEF RetryJob
<1> QED
  BY <1>1, <1>2, <1>3, <1>4, <1>5, <1>6, <1>7 DEF RequestStep

LEMMA ConsentStep ==
    ASSUME CodexInv, Consent
    PROVE  CodexInv'
<1>1. connection' \in [rev: Nat, enabled: BOOLEAN]
  BY JobFields DEF CodexInv, TypeOK, Consent
<1>2. oauth' \in [state: States, epoch: Nat, rev: Nat, job: Jobs \cup {Nobody}]
  BY JobFields DEF CodexInv, TypeOK, Consent
<1>3. Rows'
  BY <1>1, <1>2, JobFields, Counts DEF Consent, Rows
<1> QED
  BY <1>3, RowStep DEF Consent

\* The thread of a job that moves only its row.
LEMMA ThreadTypes ==
    ASSUME CodexInv, NEW j \in Jobs, NEW q \in Job, job' = [job EXCEPT ![j] = q],
           UNCHANGED <<connection, asked>>, faults' \in Nat,
           oauth' \in [state: States, epoch: Nat, rev: Nat, job: Jobs \cup {Nobody}]
    PROVE  Rows'
BY JobFields, Counts DEF CodexInv, TypeOK, Rows

LEMMA OauthTypes ==
    ASSUME CodexInv
    PROVE  oauth \in [state: States, epoch: Nat, rev: Nat, job: Jobs \cup {Nobody}]
BY DEF CodexInv, TypeOK

LEMMA JobsStep ==
    ASSUME CodexInv, NEW j \in Jobs, JobStep(j)
    PROVE  CodexInv'
<1>0. job[j] \in Job /\ job[j].result \in States
  BY JobFields DEF Job
<1>1. CASE Authorise(j)
  <2> DEFINE at == IF Current(j) THEN "rpc" ELSE "failed"
             q == [job[j] EXCEPT !.at = at]
  <2>1. q \in Job /\ job' = [job EXCEPT ![j] = q]
    BY <1>0, <1>1, JobFields DEF Authorise, Goes, Job
  <2>2. Rows'
    <3> HIDE DEF q
    <3> QED
      BY <1>1, <2>1, ThreadTypes, OauthTypes, Counts DEF Authorise
  <2> QED
    BY <1>1, <2>2, RowStep DEF Authorise
<1>2. CASE Perform(j)
  <2>1. PICK o \in Performs(j) :
          /\ session' = o.session /\ archive' = o.archive
          /\ logins' = IF job[j].task = "START" THEN logins + 1 ELSE logins
          /\ job' = [job EXCEPT ![j].at = "recheck", ![j].result = o.result]
          /\ faults' = o.faults
    BY <1>2 DEF Perform
  <2>2. SoundOutcome(o, logins')
    BY <2>1, PerformsSound
  <2>3. logins' \in Nat /\ logins <= logins'
    BY <2>1, Counts
  <2>4. Bridged' /\ Tokened'
    BY <1>2, <2>1, <2>2, <2>3, BridgeStep DEF SoundOutcome, Perform
  <2> DEFINE q == [job[j] EXCEPT !.at = "recheck", !.result = o.result]
  <2>5. q \in Job /\ job' = [job EXCEPT ![j] = q]
    BY <1>0, <2>1, <2>2, JobFields DEF SoundOutcome, Job
  <2>6. Rows'
    <3> HIDE DEF q
    <3> QED
      BY <1>2, <2>1, <2>2, <2>5, ThreadTypes, OauthTypes DEF Perform, SoundOutcome
  <2>7. Queued' /\ Owned'
    BY <1>2, Parts DEF Perform, engine, Queued, InLine, Owned
  <2> QED
    BY <2>4, <2>6, <2>7, PartsNext
<1>3. CASE Refuse(j)
  <2> DEFINE q == [job[j] EXCEPT !.at = "recheck", !.result = "ERROR"]
  <2>1. q \in Job /\ job' = [job EXCEPT ![j] = q]
    BY <1>0, <1>3, JobFields DEF Refuse, Job, States
  <2>2. Rows'
    <3> HIDE DEF q
    <3> QED
      BY <1>3, <2>1, ThreadTypes, OauthTypes, Counts DEF Refuse
  <2> QED
    BY <1>3, <2>2, RowStep DEF Refuse
<1>4. CASE Recheck(j)
  <2> DEFINE at == IF Confirmed(j) /\ job[j].result # "ERROR" THEN "final" ELSE "discard"
             q == [job[j] EXCEPT !.at = at]
  <2>1. q \in Job /\ job' = [job EXCEPT ![j] = q]
    BY <1>0, <1>4, JobFields DEF Recheck, Goes, Job
  <2>2. oauth' \in [state: States, epoch: Nat, rev: Nat, job: Jobs \cup {Nobody}]
    BY <1>0, <1>4, OauthTypes DEF Recheck
  <2>3. Rows'
    <3> HIDE DEF q
    <3> QED
      BY <1>4, <2>1, <2>2, ThreadTypes, Counts DEF Recheck
  <2> QED
    BY <1>4, <2>3, RowStep DEF Recheck
<1>5. CASE DiscardEpoch(j)
  <2> DEFINE q == [job[j] EXCEPT !.at = "failed", !.result = "ERROR"]
  <2>1. q \in Job /\ job' = [job EXCEPT ![j] = q]
    BY <1>0, <1>5, JobFields DEF DiscardEpoch, Job, States
  <2>2. Sound(session', archive', logins) /\ faults' \in Nat
    <3>1. CASE session.login > 0 /\ session.epoch = job[j].epoch
      <4>1. PICK o \in Discarded("ERROR") :
               session' = o.session /\ archive' = o.archive /\ faults' = o.faults
        BY <1>5, <3>1 DEF DiscardEpoch
      <4> QED
        BY <4>1, DiscardedSound DEF SoundOutcome, States
    <3>2. CASE ~(session.login > 0 /\ session.epoch = job[j].epoch)
      BY <1>5, <3>2, AsItIs, Counts DEF DiscardEpoch
    <3> QED
      BY <3>1, <3>2
  <2>3. UNCHANGED <<logins, call, waiters, slot, quarantined>>
    BY <1>5 DEF DiscardEpoch, engine
  <2>4. Bridged' /\ Tokened'
    BY <2>2, <2>3, BridgeStep, Counts
  <2>5. Rows'
    <3> HIDE DEF q
    <3> QED
      BY <1>5, <2>1, <2>2, ThreadTypes, OauthTypes DEF DiscardEpoch
  <2>6. Queued' /\ Owned'
    BY <2>3, Parts DEF Queued, InLine, Owned
  <2> QED
    BY <2>4, <2>5, <2>6, PartsNext
<1>6. CASE Finish(j)
  <2> DEFINE q == IF Confirmed(j) THEN [NoJob EXCEPT !.at = "done"]
                  ELSE [job[j] EXCEPT !.at = "failed", !.result = "ERROR"]
  <2>1. q \in Job
    <3>1. [NoJob EXCEPT !.at = "done"] \in Job
      BY DEF NoJob, Job, States, Tasks
    <3>2. [job[j] EXCEPT !.at = "failed", !.result = "ERROR"] \in Job
      BY <1>0 DEF Job, States
    <3> QED
      BY <3>1, <3>2
  <2>2. job' = [job EXCEPT ![j] = q]
    BY <1>6, JobFields DEF Finish
  <2>3. Rows'
    <3> HIDE DEF q
    <3> QED
      BY <1>6, <2>1, <2>2, ThreadTypes, OauthTypes, Counts DEF Finish
  <2> QED
    BY <1>6, <2>3, RowStep DEF Finish
<1> QED
  BY <1>1, <1>2, <1>3, <1>4, <1>5, <1>6 DEF JobStep

-------------------------------------------------------------------------------
(* Calls.                                                                  *)

\* A call that moves while the bridge, the queue and the slot stay.
LEMMA OwnStep ==
    ASSUME CodexInv, UNCHANGED <<connection, oauth, job, bridge, engine, asked>>, faults' \in Nat,
           NEW c \in Calls, NEW q \in Call, call' = [call EXCEPT ![c] = q],
           call[c].at \in Holding, q.at \in Holding,
           quarantined => q.at = "leaving",
           q.login = call[c].login,
           q.at \in Tokens => call[c].at \in Tokens /\ q.gen >= call[c].gen,
           ~(q.at = "leaving" /\ q.ok)
    PROVE  CodexInv'
<1>1. UNCHANGED <<waiters, slot, quarantined>> /\ slot \in Calls \cup {Nobody}
      /\ quarantined \in BOOLEAN
  BY DEF engine, CodexInv, TypeOK
<1>2. call[c].at # "waiting" /\ q.at # "waiting" /\ q.at # "delivered"
  BY DEF Holding
<1>3. Queued'
  BY <1>1, <1>2, LineStep
<1>4. Owned'
  BY <1>1, OwnedStep
<1>5. Bridged' /\ Tokened'
  BY <1>2, TokensStep
<1>6. Rows'
  BY JobFields, Counts DEF CodexInv, TypeOK, Rows
<1> QED
  BY <1>3, <1>4, <1>5, <1>6, PartsNext

LEMMA NotQuarantined ==
    ASSUME CodexInv, NEW c \in Calls, call[c].at \in Holding, call[c].at # "leaving"
    PROVE  ~quarantined
BY DEF CodexInv, Owned

LEMMA FaultTypes ==
    ASSUME CodexInv
    PROVE  /\ \A kind : Fault(kind) => faults' \in Nat
           /\ \A reason : Cut(reason) => faults' \in Nat
           /\ UNCHANGED faults => faults' \in Nat
BY Counts DEF Fault, Cut

\* The steps of a call up to the end of its child, and those that end it.
LEMMA WorkStep ==
    ASSUME CodexInv, NEW c \in Calls,
           StartChild(c) \/ Rotate(c) \/ Send(c) \/ Complete(c) \/ Fail(c) \/ Close(c)
              \/ Unpersisted(c)
    PROVE  CodexInv'
<1>0. /\ call \in [Calls -> Call] /\ call[c] \in Call /\ call[c].gen \in Nat
  BY CallFields DEF CodexInv, TypeOK
<1>1. ASSUME NEW at \in {"ready", "sent", "closing", "persisting"}, Moves(c, at),
             call[c].at \in Tokens, UNCHANGED <<connection, oauth, job, bridge, engine, faults, asked>>
      PROVE  CodexInv'
  <2> DEFINE q == [call[c] EXCEPT !.at = at]
  <2>1. /\ q \in Call /\ q.at = at /\ q.login = call[c].login /\ q.gen = call[c].gen
    BY <1>0, <1>1 DEF Call
  <2>2. call' = [call EXCEPT ![c] = q]
    BY <1>0, <1>1 DEF Moves
  <2>3. ~quarantined
    BY <1>1, NotQuarantined DEF Tokens, Holding
  <2>4. call[c].at \in Holding /\ at \in Holding /\ at # "leaving"
    BY <1>1 DEF Tokens, Holding
  <2>5. UNCHANGED <<connection, oauth, job, bridge, engine, asked>> /\ faults' \in Nat
    BY <1>1, FaultTypes
  <2> HIDE DEF q
  <2>6. q.at \in Tokens => call[c].at \in Tokens /\ q.gen >= call[c].gen
    BY <1>0, <1>1, <2>1
  <2>7. (quarantined => q.at = "leaving") /\ ~(q.at = "leaving" /\ q.ok)
    BY <2>1, <2>3, <2>4
  <2>8. call[c].at \in Holding /\ q.at \in Holding /\ q.login = call[c].login /\ q \in Call
    BY <2>1, <2>4
  <2> QED
    BY <2>2, <2>5, <2>6, <2>7, <2>8, OwnStep
<1>2. ASSUME NEW at \in {"closing", "leaving"}, call' = [call EXCEPT ![c].ok = FALSE, ![c].at = at],
             call[c].at \in Holding \ {"leaving"}, at = "closing" => call[c].at \in Tokens,
             UNCHANGED <<connection, oauth, job, bridge, engine, asked>>, faults' \in Nat
      PROVE  CodexInv'
  <2> DEFINE q == [call[c] EXCEPT !.ok = FALSE, !.at = at]
  <2>1. /\ q \in Call /\ q.at = at /\ q.login = call[c].login /\ q.gen = call[c].gen
        /\ q.ok = FALSE
    BY <1>0, <1>2 DEF Call
  <2>2. call' = [call EXCEPT ![c] = q]
    BY <1>0, <1>2
  <2>3. ~quarantined
    BY <1>2, NotQuarantined
  <2>4. call[c].at \in Holding /\ at \in Holding /\ (at \in Tokens => at = "closing")
    BY <1>2 DEF Tokens, Holding
  <2>5. UNCHANGED <<connection, oauth, job, bridge, engine, asked>> /\ faults' \in Nat
    BY <1>2
  <2> HIDE DEF q
  <2>6. q.at \in Tokens => call[c].at \in Tokens /\ q.gen >= call[c].gen
    BY <1>0, <1>2, <2>1, <2>4
  <2>7. (quarantined => q.at = "leaving") /\ ~(q.at = "leaving" /\ q.ok)
    BY <2>1, <2>3
  <2>8. call[c].at \in Holding /\ q.at \in Holding /\ q.login = call[c].login /\ q \in Call
    BY <2>1, <2>4
  <2> QED
    BY <2>2, <2>5, <2>6, <2>7, <2>8, OwnStep
<1>3. CASE StartChild(c)
  BY <1>1, <1>3 DEF StartChild, Tokens
<1>4. CASE Rotate(c)
  <2> DEFINE q == [call[c] EXCEPT !.gen = call[c].gen + 1]
  <2>1. /\ q \in Call /\ q.at = "sent" /\ q.login = call[c].login /\ q.gen = call[c].gen + 1
    BY <1>0, <1>4 DEF Call, Rotate
  <2>2. call' = [call EXCEPT ![c] = q] /\ call[c].at = "sent"
    BY <1>0, <1>4 DEF Rotate
  <2>3. ~quarantined
    BY <2>2, NotQuarantined DEF Holding
  <2>4. q.gen >= call[c].gen
    BY <1>0, <2>1
  <2>5. UNCHANGED <<connection, oauth, job, bridge, engine, asked>> /\ faults' \in Nat
    BY <1>4, FaultTypes DEF Rotate
  <2> HIDE DEF q
  <2>6. call[c].at \in Holding /\ q.at \in Holding /\ call[c].at \in Tokens /\ q.at # "leaving"
    BY <2>1, <2>2 DEF Holding, Tokens
  <2> QED
    BY <2>1, <2>2, <2>3, <2>4, <2>5, <2>6, OwnStep
<1>5. CASE Send(c)
  BY <1>1, <1>5 DEF Send, Tokens
<1>6. CASE Complete(c)
  BY <1>1, <1>6 DEF Complete, Tokens
<1>7. CASE Fail(c)
  <2> DEFINE at == IF Child(c) THEN "closing" ELSE "leaving"
  <2>1. at \in {"closing", "leaving"} /\ (at = "closing" => call[c].at \in Tokens)
    BY DEF Child, Tokens
  <2>2. call' = [call EXCEPT ![c].ok = FALSE, ![c].at = at] /\ call[c].at \in Holding \ {"leaving"}
    BY <1>7 DEF Fail, Holding
  <2>3. UNCHANGED <<connection, oauth, job, bridge, engine, asked>> /\ faults' \in Nat
    BY <1>7, FaultTypes DEF Fail
  <2> HIDE DEF at
  <2> QED
    BY <1>2, <2>1, <2>2, <2>3
<1>8. CASE Close(c)
  BY <1>1, <1>8 DEF Close, Tokens
<1>9. CASE Unpersisted(c)
  <2>1. call' = [call EXCEPT ![c].ok = FALSE, ![c].at = "leaving"]
    BY <1>0, <1>9 DEF Unpersisted
  <2>2. call[c].at \in Holding \ {"leaving"}
    BY <1>9 DEF Unpersisted, Holding
  <2>3. UNCHANGED <<connection, oauth, job, bridge, engine, asked>> /\ faults' \in Nat
    BY <1>9, FaultTypes DEF Unpersisted
  <2> QED
    BY <1>2, <2>1, <2>2, <2>3
<1> QED
  BY <1>3, <1>4, <1>5, <1>6, <1>7, <1>8, <1>9

\* A call begins, or takes the slot when its turn has come.
LEMMA BeginStep ==
    ASSUME CodexInv, NEW c \in Calls, Begin(c)
    PROVE  CodexInv'
<1>0. /\ call \in [Calls -> Call] /\ waiters \in Seq(Calls) /\ call[c].at \in {"idle", "delivered"}
      /\ quarantined = FALSE
  BY DEF CodexInv, TypeOK, Begin, Idle
<1>1. asked' \in Nat
  BY Counts DEF Begin, Asked
<1>2. Rows'
  BY <1>1, JobFields, Counts DEF CodexInv, TypeOK, Rows, Begin
<1>3. \A at \in {"admitted", "waiting"} :
         Snapshot(at) \in Call /\ Snapshot(at).at = at /\ Snapshot(at).login = 0
  BY JobFields DEF Snapshot, NoCall, Call
<1>4. UNCHANGED bridge /\ quarantined' = FALSE /\ UNCHANGED faults
  BY <1>0 DEF Begin
<1>5. CASE Straight
  <2> DEFINE q == Snapshot("admitted")
  <2>1. call' = [call EXCEPT ![c] = q] /\ slot' = c /\ waiters' = waiters /\ slot = Nobody
    BY <1>5 DEF Begin, Straight
  <2>2. q \in Call /\ q.at = "admitted" /\ q.login = 0
    BY <1>3
  <2> HIDE DEF q
  <2>3. Bridged' /\ Tokened'
    <3>1. q.at \notin Tokens /\ q.at # "delivered" /\ ~(q.at = "leaving" /\ q.ok)
      BY <2>2 DEF Tokens
    <3> QED
      BY <1>4, <2>1, <2>2, <3>1, TokensStep
  <2>4. Queued'
    <3>1. call[c].at # "waiting" /\ q.at # "waiting"
      BY <1>0, <2>2
    <3> QED
      BY <1>4, <2>1, <2>2, <3>1, LineStep
  <2>5. \A d \in Calls : call[d].at \notin Holding
    BY <2>1, NamesAssumption DEF CodexInv, Owned
  <2>6. Owned'
    BY <1>0, <1>4, <2>1, <2>5 DEF Owned
  <2> QED
    BY <1>2, <2>3, <2>4, <2>6, PartsNext
<1>6. CASE ~Straight
  <2> DEFINE q == Snapshot("waiting")
  <2>1. call' = [call EXCEPT ![c] = q] /\ slot' = slot /\ waiters' = Append(waiters, c)
    BY <1>6 DEF Begin
  <2>2. q \in Call /\ q.at = "waiting" /\ q.login = 0
    BY <1>3
  <2> HIDE DEF q
  <2>3. Bridged' /\ Tokened'
    <3>1. q.at \notin Tokens /\ q.at # "delivered" /\ ~(q.at = "leaving" /\ q.ok)
      BY <2>2 DEF Tokens
    <3> QED
      BY <1>4, <2>1, <2>2, <3>1, TokensStep
  <2>4. call'[c] = q /\ \A d \in Calls : d # c => call'[d] = call[d]
    BY <1>0, <2>1
  <2>5. /\ waiters' \in Seq(Calls) /\ Len(waiters') = Len(waiters) + 1 /\ Len(waiters) \in Nat
        /\ \A i \in 1..Len(waiters) : waiters'[i] = waiters[i] /\ waiters[i] \in Calls
        /\ waiters'[Len(waiters) + 1] = c
    BY <1>0, <2>1
  <2>6. \A i \in 1..Len(waiters) : call[waiters[i]].at = "waiting" /\ waiters[i] # c
    BY <1>0 DEF CodexInv, TypeOK
  <2>7. \A i \in 1..Len(waiters') : i \in 1..Len(waiters) \/ i = Len(waiters) + 1
    BY <2>5
  <2>8. InLine'
    <3>1. \A d \in Calls : call'[d].at = "waiting" => \E i \in 1..Len(waiters') : waiters'[i] = d
      <4>1. \A d \in Calls : d # c /\ call[d].at = "waiting"
                => \E i \in 1..Len(waiters) : waiters[i] = d
        BY DEF CodexInv, InLine
      <4>2. 1..Len(waiters) \subseteq 1..Len(waiters') /\ Len(waiters) + 1 \in 1..Len(waiters')
        BY <2>5
      <4> QED
        BY <2>4, <2>5, <4>1, <4>2
    <3>2. \A i, k \in 1..Len(waiters') : waiters'[i] = waiters'[k] => i = k
      <4>1. \A i, k \in 1..Len(waiters) : waiters[i] = waiters[k] => i = k
        BY DEF CodexInv, InLine
      <4> QED
        BY <2>5, <2>6, <2>7, <4>1
    <3> QED
      BY <3>1, <3>2 DEF InLine
  <2>9. Queued'
    <3>1. \A i \in 1..Len(waiters') : call'[waiters'[i]].at = "waiting"
      BY <2>2, <2>4, <2>5, <2>6, <2>7
    <3>2. call' \in [Calls -> Call] /\ slot' \in Calls \cup {Nobody}
      BY <1>0, <2>1, <2>2 DEF CodexInv, TypeOK
    <3> QED
      BY <1>4, <2>5, <2>8, <3>1, <3>2 DEF Queued
  <2>10. Owned'
    BY <1>4, <2>1, <2>2, <2>4 DEF CodexInv, Owned, Holding
  <2> QED
    BY <1>2, <2>3, <2>9, <2>10, PartsNext
<1> QED
  BY <1>5, <1>6

\* Those who stay in line when one who waits leaves it.
LEMMA LineShorter ==
    ASSUME CodexInv, NEW c \in Calls, NEW p \in 1..Len(waiters), waiters[p] = c,
           NEW q \in Call, call' = [call EXCEPT ![c] = q], q.at # "waiting",
           slot' \in Calls \cup {Nobody}, quarantined' \in BOOLEAN,
           waiters' \in Seq(Calls), Len(waiters') = Len(waiters) - 1,
           \A i \in 1..Len(waiters') : waiters'[i] = IF i < p THEN waiters[i] ELSE waiters[i + 1]
    PROVE  Queued'
<1>0. /\ waiters \in Seq(Calls) /\ Len(waiters) \in Nat
      /\ \A i \in 1..Len(waiters) : call[waiters[i]].at = "waiting" /\ waiters[i] \in Calls
      /\ \A i, k \in 1..Len(waiters) : waiters[i] = waiters[k] => i = k
      /\ \A d \in Calls : call[d].at = "waiting" => \E i \in 1..Len(waiters) : waiters[i] = d
      /\ call \in [Calls -> Call]
  BY DEF CodexInv, TypeOK, InLine
<1>1. call'[c] = q /\ (\A d \in Calls : d # c => call'[d] = call[d]) /\ call' \in [Calls -> Call]
  BY <1>0
<1>2. p \in Nat /\ 1 <= p /\ p <= Len(waiters)
  BY <1>0
<1>3. \A i \in 1..Len(waiters') :
         \E k \in 1..Len(waiters) : waiters'[i] = waiters[k] /\ k # p /\ k = IF i < p THEN i ELSE i + 1
  <2> SUFFICES ASSUME NEW i \in 1..Len(waiters')
               PROVE  \E k \in 1..Len(waiters) :
                         waiters'[i] = waiters[k] /\ k # p /\ k = IF i < p THEN i ELSE i + 1
    OBVIOUS
  <2>1. i \in Nat /\ 1 <= i /\ i <= Len(waiters) - 1
    BY <1>0
  <2> DEFINE k == IF i < p THEN i ELSE i + 1
  <2>2. k \in 1..Len(waiters) /\ k # p /\ waiters'[i] = waiters[k]
    BY <1>0, <1>2, <2>1
  <2> QED
    BY <2>2
<1>4. \A i \in 1..Len(waiters') : waiters'[i] # c /\ call'[waiters'[i]].at = "waiting"
  BY <1>0, <1>1, <1>3
<1>5. \A i, k \in 1..Len(waiters') : waiters'[i] = waiters'[k] => i = k
  <2> SUFFICES ASSUME NEW i \in 1..Len(waiters'), NEW k \in 1..Len(waiters'),
                      waiters'[i] = waiters'[k]
               PROVE  i = k
    OBVIOUS
  <2>1. PICK m \in 1..Len(waiters) : waiters'[i] = waiters[m] /\ m # p /\ m = IF i < p THEN i ELSE i + 1
    BY <1>3
  <2>2. PICK n \in 1..Len(waiters) : waiters'[k] = waiters[n] /\ n # p /\ n = IF k < p THEN k ELSE k + 1
    BY <1>3
  <2>3. m = n
    <3>1. waiters[m] = waiters[n]
      BY <2>1, <2>2
    <3>2. \A a, b \in 1..Len(waiters) : waiters[a] = waiters[b] => a = b
      BY <1>0
    <3> QED
      BY <3>1, <3>2
  <2>4. i \in Nat /\ k \in Nat
    BY <1>0
  <2> QED
    BY <1>2, <2>1, <2>2, <2>3, <2>4
<1>6. \A d \in Calls : call'[d].at = "waiting" => \E i \in 1..Len(waiters') : waiters'[i] = d
  <2> SUFFICES ASSUME NEW d \in Calls, call'[d].at = "waiting"
               PROVE  \E i \in 1..Len(waiters') : waiters'[i] = d
    OBVIOUS
  <2>1. d # c /\ call[d].at = "waiting"
    BY <1>1
  <2>2. PICK k \in 1..Len(waiters) : waiters[k] = d
    BY <1>0, <2>1
  <2>3. k # p /\ k \in Nat /\ 1 <= k /\ k <= Len(waiters)
    BY <1>0, <2>1, <2>2
  <2>4. CASE k < p
    <3>1. k \in 1..Len(waiters') /\ waiters'[k] = waiters[k]
      BY <1>0, <1>2, <2>3, <2>4
    <3> QED
      BY <2>2, <3>1
  <2>5. CASE k > p
    <3>1. /\ k - 1 \in 1..Len(waiters') /\ ~(k - 1 < p) /\ (k - 1) + 1 = k
      BY <1>0, <1>2, <2>3, <2>5
    <3>2. waiters'[k - 1] = waiters[k]
      BY <3>1
    <3> QED
      BY <2>2, <3>1, <3>2
  <2> QED
    BY <1>2, <2>3, <2>4, <2>5
<1> QED
  BY <1>1, <1>4, <1>5, <1>6 DEF Queued, InLine

LEMMA AdmitStep ==
    ASSUME CodexInv, NEW c \in Calls, Admit(c)
    PROVE  CodexInv'
<1>0. /\ call \in [Calls -> Call] /\ waiters \in Seq(Calls) /\ call[c] \in Call
      /\ call[c].at = "waiting" /\ slot = Nobody /\ slot' = c /\ ~quarantined
      /\ UNCHANGED <<quarantined, faults, asked>> /\ UNCHANGED bridge /\ quarantined' \in BOOLEAN
  BY CallFields DEF CodexInv, TypeOK, Admit
<1> DEFINE q == [call[c] EXCEPT !.at = "admitted"]
<1>1. /\ q \in Call /\ q.at = "admitted" /\ q.login = call[c].login
  BY <1>0 DEF Call
<1>2. call' = [call EXCEPT ![c] = q]
  BY <1>0 DEF Admit, Moves
<1> HIDE DEF q
<1>3. Bridged' /\ Tokened'
  <2>1. q.at \notin Tokens /\ q.at # "delivered" /\ ~(q.at = "leaving" /\ q.ok)
    BY <1>1 DEF Tokens
  <2> QED
    BY <1>0, <1>1, <1>2, <2>1, TokensStep
<1>4. PICK i \in 1..Len(waiters) : waiters[i] = c
  BY <1>0 DEF CodexInv, InLine
<1>5. waiters # <<>> /\ waiters' = Tail(waiters) /\ Head(waiters) = c
  BY <1>0, <1>4 DEF Admit
<1>6. /\ 1 \in 1..Len(waiters) /\ waiters[1] = c
      /\ waiters' \in Seq(Calls) /\ Len(waiters') = Len(waiters) - 1
      /\ \A k \in 1..Len(waiters') : waiters'[k] = IF k < 1 THEN waiters[k] ELSE waiters[k + 1]
  BY <1>0, <1>4, <1>5
<1>7. Queued'
  <2>1. slot' \in Calls \cup {Nobody} /\ q.at # "waiting"
    BY <1>0, <1>1
  <2> QED
    BY <1>0, <1>1, <1>2, <1>6, <2>1, LineShorter
<1>8. Owned'
  <2>1. \A d \in Calls : call[d].at \notin Holding
    BY <1>0, NamesAssumption DEF CodexInv, Owned
  <2>2. \A d \in Calls : d # c => call'[d] = call[d]
    BY <1>0, <1>2
  <2> QED
    BY <1>0, <2>1, <2>2 DEF Owned
<1>9. Rows'
  BY JobFields, Counts DEF CodexInv, TypeOK, Rows, Admit
<1> QED
  BY <1>3, <1>7, <1>8, <1>9, PartsNext

\* RemoveAt of the community modules.
LEMMA RemoveAtFacts ==
    ASSUME NEW S, NEW s \in Seq(S), NEW p \in 1..Len(s)
    PROVE  /\ RemoveAt(s, p) \in Seq(S) /\ Len(RemoveAt(s, p)) = Len(s) - 1
           /\ \A i \in 1..(Len(s) - 1) : RemoveAt(s, p)[i] = IF i < p THEN s[i] ELSE s[i + 1]
<1> DEFINE before == SubSeq(s, 1, p - 1)
           after == SubSeq(s, p + 1, Len(s))
<1>1. p \in Nat /\ 1 <= p /\ p <= Len(s) /\ Len(s) \in Nat
  OBVIOUS
<1>2. /\ before \in Seq(S) /\ Len(before) = p - 1
      /\ \A i \in 1..(p - 1) : before[i] = s[i]
  BY <1>1
<1>3. /\ after \in Seq(S) /\ Len(after) = Len(s) - p
      /\ \A i \in 1..(Len(s) - p) : after[i] = s[i + p]
  BY <1>1
<1> HIDE DEF before, after
<1>4. /\ before \o after \in Seq(S) /\ Len(before \o after) = Len(s) - 1
      /\ \A i \in 1..(Len(s) - 1) :
            (before \o after)[i] = IF i <= p - 1 THEN before[i] ELSE after[i - (p - 1)]
  <2>1. before \in Seq(S) /\ after \in Seq(S)
    BY <1>2, <1>3
  <2>2. /\ before \o after \in Seq(S) /\ Len(before \o after) = Len(before) + Len(after)
        /\ \A i \in 1..(Len(before) + Len(after)) :
              (before \o after)[i] = IF i <= Len(before) THEN before[i]
                                     ELSE after[i - Len(before)]
    BY <2>1
  <2>3. Len(before) = p - 1 /\ Len(before) + Len(after) = Len(s) - 1
    BY <1>1, <1>2, <1>3
  <2> QED
    BY <2>2, <2>3
<1>5. \A i \in 1..(Len(s) - 1) : (before \o after)[i] = IF i < p THEN s[i] ELSE s[i + 1]
  <2> SUFFICES ASSUME NEW i \in 1..(Len(s) - 1)
               PROVE  (before \o after)[i] = IF i < p THEN s[i] ELSE s[i + 1]
    OBVIOUS
  <2>1. CASE i < p
    <3>1. i \in 1..(p - 1) /\ i <= p - 1
      BY <1>1, <2>1
    <3> QED
      BY <1>2, <1>4, <2>1, <3>1
  <2>2. CASE ~(i < p)
    <3>1. i - (p - 1) \in 1..(Len(s) - p) /\ ~(i <= p - 1) /\ (i - (p - 1)) + p = i + 1
      BY <1>1, <2>2
    <3> QED
      BY <1>3, <1>4, <2>2, <3>1
  <2> QED
    BY <2>1, <2>2
<1> QED
  BY <1>4, <1>5 DEF RemoveAt, before, after

LEMMA LeaveStep ==
    ASSUME CodexInv, NEW c \in Calls, Leave(c)
    PROVE  CodexInv'
<1>0. /\ call \in [Calls -> Call] /\ waiters \in Seq(Calls) /\ call[c].at = "waiting"
      /\ UNCHANGED <<slot, quarantined, asked>> /\ UNCHANGED bridge
      /\ call' = [call EXCEPT ![c] = NoCall]
      /\ quarantined' \in BOOLEAN /\ slot' \in Calls \cup {Nobody} /\ faults' \in Nat
  BY FaultTypes DEF CodexInv, TypeOK, Leave
<1>1. \E i \in 1..Len(waiters) : waiters[i] = c
  BY <1>0 DEF CodexInv, InLine
<1> DEFINE p == Place(c)
<1>2. p \in 1..Len(waiters) /\ waiters[p] = c
  BY <1>1 DEF Place
<1>3. waiters' = RemoveAt(waiters, p)
  BY DEF Leave, Without
<1> HIDE DEF p
<1>4. /\ waiters' \in Seq(Calls) /\ Len(waiters') = Len(waiters) - 1
      /\ \A i \in 1..Len(waiters') : waiters'[i] = IF i < p THEN waiters[i] ELSE waiters[i + 1]
  BY <1>0, <1>2, <1>3, RemoveAtFacts
<1>5. Queued'
  <2>1. NoCall \in Call /\ NoCall.at # "waiting"
    BY NoCallFields
  <2> QED
    BY <1>0, <1>2, <1>4, <2>1, LineShorter
<1>6. Bridged' /\ Tokened'
  <2>1. /\ NoCall \in Call /\ NoCall.login = 0 /\ NoCall.at \notin Tokens
        /\ NoCall.at # "delivered" /\ ~(NoCall.at = "leaving" /\ NoCall.ok)
    BY NoCallFields DEF Tokens
  <2> QED
    BY <1>0, <2>1, TokensStep
<1>7. Owned'
  <2>1. call'[c] = NoCall /\ \A d \in Calls : d # c => call'[d] = call[d]
    BY <1>0
  <2> QED
    BY <1>0, <2>1, NoCallFields DEF CodexInv, Owned, Holding
<1>8. Rows'
  BY <1>0, JobFields, Counts DEF CodexInv, TypeOK, Rows, Leave
<1> QED
  BY <1>5, <1>6, <1>7, <1>8, PartsNext

\* The child that could not be stopped ends the engine.
LEMMA QuarantineStep ==
    ASSUME CodexInv, NEW c \in Calls, Quarantine(c)
    PROVE  CodexInv'
<1>0. /\ call \in [Calls -> Call] /\ call[c] \in Call /\ call[c].at = "closing"
      /\ UNCHANGED <<slot, waiters, asked>> /\ UNCHANGED bridge /\ quarantined' = TRUE
      /\ slot' \in Calls \cup {Nobody} /\ faults' \in Nat
  BY FaultTypes, CallFields DEF CodexInv, TypeOK, Quarantine
<1> DEFINE q == [call[c] EXCEPT !.at = "leaving", !.ok = FALSE]
<1>1. q \in Call /\ q.at = "leaving" /\ q.login = call[c].login /\ q.ok = FALSE
  BY <1>0 DEF Call
<1>2. call' = [call EXCEPT ![c] = q]
  BY <1>0 DEF Quarantine
<1> HIDE DEF q
<1>3. Bridged' /\ Tokened'
  <2>1. q.at \notin Tokens /\ q.at # "delivered" /\ ~(q.at = "leaving" /\ q.ok)
    BY <1>1 DEF Tokens
  <2> QED
    BY <1>0, <1>1, <1>2, <2>1, TokensStep
<1>4. Queued'
  <2>1. call[c].at # "waiting" /\ q.at # "waiting" /\ quarantined' \in BOOLEAN
    BY <1>0, <1>1
  <2> QED
    BY <1>0, <1>1, <1>2, <2>1, LineStep
<1>5. Owned'
  <2>1. call[c].at \in Holding
    BY <1>0 DEF Holding
  <2> QED
    BY <1>0, <1>1, <1>2, <2>1, OwnedStep
<1>6. Rows'
  BY <1>0, JobFields, Counts DEF CodexInv, TypeOK, Rows, Quarantine
<1> QED
  BY <1>3, <1>4, <1>5, <1>6, PartsNext

LEMMA DepartStep ==
    ASSUME CodexInv, NEW c \in Calls, Depart(c)
    PROVE  CodexInv'
<1>0. /\ call \in [Calls -> Call] /\ call[c] \in Call /\ call[c].at = "leaving"
      /\ UNCHANGED <<quarantined, waiters, faults, asked>> /\ UNCHANGED bridge
      /\ slot' = Nobody /\ quarantined' \in BOOLEAN
  BY CallFields DEF CodexInv, TypeOK, Depart
<1> DEFINE q == IF Delivered(c) THEN [call[c] EXCEPT !.at = "delivered"] ELSE NoCall
<1>1. call' = [call EXCEPT ![c] = q]
  BY <1>0 DEF Depart
<1>2. /\ q \in Call /\ q.at \in {"idle", "delivered"} /\ (q.login = call[c].login \/ q.login = 0)
      /\ q.at = "delivered" => call[c].ok /\ q.login = call[c].login /\ q.gen = call[c].gen
  <2>1. CASE Delivered(c)
    BY <1>0, <2>1 DEF Call, Delivered
  <2>2. CASE ~Delivered(c)
    BY <2>2, NoCallFields
  <2> QED
    BY <2>1, <2>2
<1> HIDE DEF q
<1>3. Bridged' /\ Tokened'
  <2>1. q.at \notin Tokens /\ ~(q.at = "leaving" /\ q.ok)
    BY <1>2 DEF Tokens
  <2> QED
    BY <1>0, <1>1, <1>2, <2>1, TokensStep
<1>4. Queued'
  <2>1. call[c].at # "waiting" /\ q.at # "waiting" /\ slot' \in Calls \cup {Nobody}
    BY <1>0, <1>2
  <2> QED
    BY <1>0, <1>1, <1>2, <2>1, LineStep
<1>5. Owned'
  <2>1. \A d \in Calls : d # c => call'[d] = call[d] /\ call[d].at \notin Holding
    BY <1>0, <1>1 DEF CodexInv, Owned, Holding
  <2>2. call'[c].at \notin Holding
    BY <1>0, <1>1, <1>2 DEF Holding
  <2> QED
    BY <2>1, <2>2 DEF Owned
<1>6. Rows'
  BY <1>0, JobFields, Counts DEF CodexInv, TypeOK, Rows, Depart
<1> QED
  BY <1>3, <1>4, <1>5, <1>6, PartsNext

\* The holder of the slot moves together with the session or the archive.
LEMMA HolderStep ==
    ASSUME CodexInv, UNCHANGED <<logins, engine>>, Rows',
           NEW c \in Calls, NEW q \in Call, call' = [call EXCEPT ![c] = q],
           call[c].at \in Holding \ {"leaving"}, q.at \in {"home", "leaving"},
           session' \in Session, archive' \in Archive, Opened',
           session'.login <= logins, archive'.login <= logins, q.login <= logins,
           Pending', TokensKept',
           q.at = "home" =>
              /\ q.login = archive'.login /\ q.gen = archive'.gen /\ archive'.login > 0,
           q.at = "leaving" /\ q.ok =>
              /\ q.login > 0 /\ q.login = archive'.login /\ q.gen = archive'.gen
    PROVE  CodexInv'
<1>1. call'[c] = q /\ \A d \in Calls : d # c => call'[d] = call[d]
  BY DEF CodexInv, TypeOK
<1>2. \A d \in Calls : d # c => call[d].at \notin Holding
  BY DEF CodexInv, Owned
<1>3. UNCHANGED <<waiters, slot, quarantined>> /\ slot' \in Calls \cup {Nobody}
      /\ quarantined' \in BOOLEAN
  BY DEF engine, CodexInv, TypeOK
<1>4. Queued'
  <2>1. call[c].at # "waiting" /\ q.at # "waiting"
    BY DEF Holding
  <2> QED
    BY <1>3, <2>1, LineStep
<1>5. Owned'
  <2>1. ~quarantined
    BY NotQuarantined
  <2> QED
    BY <1>3, <2>1, OwnedStep
<1>6. Bridged'
  BY Counts DEF Bridged
<1>7. Numbered'
  <2>1. \A d \in Calls : call'[d].login <= logins
    BY <1>1 DEF CodexInv, Numbered
  <2> QED
    BY <2>1 DEF Numbered
<1>8. archive'.gen \in Nat
  BY ArchiveFields
<1>9. Newest'
  <2> SUFFICES ASSUME NEW d \in Calls
               PROVE  /\ call'[d].at \in Tokens =>
                            /\ call'[d].login > 0
                            /\ archive'.login = call'[d].login => archive'.gen <= call'[d].gen
                            /\ \A e \in Calls :
                                  call'[e].at = "delivered" /\ call'[e].login = call'[d].login
                                      => call'[e].gen <= call'[d].gen
                      /\ call'[d].at = "leaving" /\ call'[d].ok =>
                            /\ call'[d].login > 0
                            /\ archive'.login = call'[d].login => archive'.gen >= call'[d].gen
    BY DEF Newest
  <2>1. CASE d # c
    BY <2>1, <1>1, <1>2 DEF Tokens, Holding
  <2>2. CASE d = c
    <3>1. CASE q.at = "home"
      <4>1. /\ q.login = archive'.login /\ q.gen = archive'.gen /\ archive'.login > 0
        BY <3>1
      <4>2. \A e \in Calls : call'[e].at = "delivered" /\ call'[e].login = q.login
                => call'[e].gen <= q.gen
        <5>1. \A e \in Calls : call'[e].at = "delivered" /\ archive'.login = call'[e].login
                  => archive'.gen >= call'[e].gen
          BY <4>1 DEF TokensKept
        <5>2. \A e \in Calls : call'[e].gen \in Nat
          BY <1>1, CallFields DEF Call
        <5> QED
          BY <4>1, <5>1, <5>2, <1>8
      <4> QED
        BY <2>2, <3>1, <4>1, <4>2, <1>1, <1>8
    <3>2. CASE q.at = "leaving"
      BY <2>2, <3>2, <1>1, <1>8 DEF Tokens
    <3> QED
      BY <3>1, <3>2
  <2> QED
    BY <2>1, <2>2
<1> QED
  BY <1>4, <1>5, <1>6, <1>7, <1>9, PartsNext DEF Tokened

LEMMA IdentifyStep ==
    ASSUME CodexInv, NEW c \in Calls, Identify(c)
    PROVE  CodexInv'
<1>0. /\ call \in [Calls -> Call] /\ call[c] \in Call /\ call[c].at = "admitted"
      /\ UNCHANGED <<connection, oauth, job, logins, asked>> /\ UNCHANGED engine
  BY CallFields DEF CodexInv, TypeOK, Identify
<1>1. PICK o \in Identified(c) :
        /\ session' = o.session /\ archive' = o.archive /\ faults' = o.faults
        /\ IF /\ o.result = "AUTHENTICATED" /\ Matches(o.session, c)
              /\ o.session.authenticated
              /\ o.archive.login > 0 /\ o.archive.epoch = call[c].epoch
           THEN call' = [call EXCEPT ![c].at = "home", ![c].login = o.archive.login,
                                     ![c].gen = o.archive.gen]
           ELSE call' = [call EXCEPT ![c].at = "leaving", ![c].ok = FALSE]
  BY DEF Identify
<1>2. Sound(session', archive', logins) /\ faults' \in Nat
  BY <1>1, IdentifiedSound DEF SoundOutcome
<1>3. /\ session' \in Session /\ archive' \in Archive /\ Opened'
      /\ session'.login <= logins /\ archive'.login <= logins
      /\ archive'.login \in Nat /\ archive'.gen \in Nat
  BY <1>2, ArchiveFields DEF Sound, Opened
<1>4. \A d \in Calls : d # c => call'[d] = call[d]
  BY <1>0, <1>1
<1>5. call'[c].at # "delivered"
  <2>1. CASE call' = [call EXCEPT ![c].at = "home", ![c].login = o.archive.login,
                                  ![c].gen = o.archive.gen]
    <3>1. call'[c] = [call[c] EXCEPT !.at = "home", !.login = o.archive.login,
                                     !.gen = o.archive.gen]
      BY <1>0, <2>1
    <3> QED
      BY <1>0, <3>1 DEF Call
  <2>2. CASE call' = [call EXCEPT ![c].at = "leaving", ![c].ok = FALSE]
    <3>1. call'[c] = [call[c] EXCEPT !.at = "leaving", !.ok = FALSE]
      BY <1>0, <2>2
    <3> QED
      BY <1>0, <3>1 DEF Call
  <2> QED
    BY <1>1, <2>1, <2>2
<1>6. TokensKept'
  <2>1. archive' = archive \/ archive'.login = 0 \/ \A d \in Calls : call[d].login # archive'.login
    BY <1>2 DEF Sound
  <2>2. \A d \in Calls : call'[d].at = "delivered" => call'[d] = call[d]
    BY <1>4, <1>5
  <2> QED
    BY <1>3, <2>1, <2>2 DEF CodexInv, TokensKept
<1>7. Rows'
  BY <1>0, <1>2, JobFields, Counts DEF CodexInv, TypeOK, Rows
<1>8. CASE /\ o.result = "AUTHENTICATED" /\ Matches(o.session, c)
           /\ o.session.authenticated
           /\ o.archive.login > 0 /\ o.archive.epoch = call[c].epoch
  <2> DEFINE q == [call[c] EXCEPT !.at = "home", !.login = archive'.login, !.gen = archive'.gen]
  <2>1. call' = [call EXCEPT ![c] = q]
    BY <1>0, <1>1, <1>8
  <2>2. /\ q \in Call /\ q.at = "home" /\ q.login = archive'.login /\ q.gen = archive'.gen
    BY <1>0, <1>3 DEF Call
  <2> HIDE DEF q
  <2>3. archive'.login > 0 /\ session'.authenticated
    BY <1>1, <1>8
  <2>4. Pending'
    BY <2>3 DEF Pending
  <2>5. call[c].at \in Holding \ {"leaving"} /\ q.at \in {"home", "leaving"} /\ q.at # "leaving"
    BY <1>0, <2>2 DEF Holding
  <2> QED
    BY <1>0, <1>3, <1>6, <1>7, <2>1, <2>2, <2>3, <2>4, <2>5, HolderStep
<1>9. CASE ~(/\ o.result = "AUTHENTICATED" /\ Matches(o.session, c)
             /\ o.session.authenticated
             /\ o.archive.login > 0 /\ o.archive.epoch = call[c].epoch)
  <2> DEFINE q == [call[c] EXCEPT !.at = "leaving", !.ok = FALSE]
  <2>1. call' = [call EXCEPT ![c] = q]
    BY <1>0, <1>1, <1>9
  <2>2. /\ q \in Call /\ q.at = "leaving" /\ q.login = call[c].login /\ q.ok = FALSE
    BY <1>0 DEF Call
  <2> HIDE DEF q
  <2>3. \A d \in Calls : call'[d].login = call[d].login
    BY <1>0, <1>4, <2>1, <2>2
  <2>4. Pending'
    BY <1>2, <2>3 DEF Pending, Sound
  <2>5. q.login <= logins
    BY <2>2 DEF CodexInv, Numbered
  <2>6. call[c].at \in Holding \ {"leaving"} /\ q.at \in {"home", "leaving"} /\ q.at # "home"
    BY <1>0, <2>2 DEF Holding
  <2>7. ~(q.at = "leaving" /\ q.ok)
    BY <2>2
  <2> QED
    BY <1>0, <1>3, <1>6, <1>7, <2>1, <2>2, <2>4, <2>5, <2>6, <2>7, HolderStep
<1> QED
  BY <1>8, <1>9

LEMMA PersistStep ==
    ASSUME CodexInv, NEW c \in Calls, Persist(c)
    PROVE  CodexInv'
<1>0. /\ call \in [Calls -> Call] /\ call[c] \in Call /\ call[c].at = "persisting"
      /\ UNCHANGED <<connection, oauth, job, session, logins, faults, asked>> /\ UNCHANGED engine
      /\ archive' = [login |-> call[c].login, epoch |-> session.epoch, gen |-> call[c].gen]
      /\ call[c].login \in Nat /\ call[c].gen \in Nat
      /\ session \in Session /\ session.epoch \in Nat
  BY CallFields, Counts, SessionFields DEF CodexInv, TypeOK, Persist
<1>1. /\ archive' \in Archive /\ archive'.login = call[c].login /\ archive'.gen = call[c].gen
  BY <1>0 DEF Archive
<1>2. /\ call[c].login > 0 /\ call[c].login <= logins /\ session.login <= logins
      /\ \A d \in Calls : call[d].at = "delivered" /\ call[d].login = call[c].login
            => call[d].gen <= call[c].gen
  BY <1>0 DEF CodexInv, Newest, Tokens, Numbered
<1> DEFINE q == [call[c] EXCEPT !.at = "leaving"]
<1>3. q \in Call /\ q.at = "leaving" /\ q.login = call[c].login /\ q.gen = call[c].gen
  BY <1>0 DEF Call
<1>4. call' = [call EXCEPT ![c] = q]
  BY <1>0 DEF Persist, Moves
<1> HIDE DEF q
<1>5. call'[c] = q /\ \A d \in Calls : d # c => call'[d] = call[d]
  BY <1>0, <1>4
<1>6. Opened'
  BY <1>0, <1>1, <1>2 DEF CodexInv, Opened
<1>7. Pending'
  <2>1. \A d \in Calls : call'[d].login = call[d].login
    BY <1>3, <1>5
  <2> QED
    BY <1>0, <1>1, <2>1 DEF CodexInv, Pending
<1>8. TokensKept'
  <2>1. \A d \in Calls : call'[d].at = "delivered" => call'[d] = call[d]
    BY <1>3, <1>5
  <2>2. \A d \in Calls : call[d].gen \in Nat
    BY CallFields
  <2> QED
    BY <1>0, <1>1, <1>2, <2>1, <2>2 DEF TokensKept
<1>9. Rows'
  BY <1>0, JobFields, Counts DEF CodexInv, TypeOK, Rows
<1>10. call[c].at \in Holding \ {"leaving"} /\ q.at \in {"home", "leaving"} /\ q.at # "home"
  BY <1>0, <1>3 DEF Holding
<1>11. /\ session' \in Session /\ session'.login <= logins /\ archive'.login <= logins
       /\ q.login <= logins /\ q.login > 0 /\ q.login = archive'.login /\ q.gen = archive'.gen
  BY <1>0, <1>1, <1>2, <1>3
<1> QED
  BY <1>0, <1>1, <1>3, <1>4, <1>6, <1>7, <1>8, <1>9, <1>10, <1>11, HolderStep

-------------------------------------------------------------------------------
(* The process.                                                            *)

LEMMA CrashStep ==
    ASSUME CodexInv, Crash
    PROVE  CodexInv'
<1>0. /\ session' = NoSession /\ waiters' = <<>> /\ slot' = Nobody /\ quarantined' = FALSE
      /\ UNCHANGED <<connection, oauth, archive, logins, asked>> /\ faults' \in Nat
      /\ call' = [c \in Calls |-> IF call[c].at \in Idle THEN call[c] ELSE NoCall]
  BY FaultTypes DEF Crash, Fresh
<1>1. \A c \in Calls : /\ call'[c] = call[c] \/ call'[c] = NoCall
                       /\ call'[c] \in Call /\ call'[c].at \in Idle
  BY <1>0, CallFields, NoCallFields DEF Idle
<1>2. Queued'
  <2>1. call' \in [Calls -> Call]
    BY <1>0, <1>1
  <2>2. waiters' \in Seq(Calls) /\ Len(waiters') = 0 /\ \A i \in 1..Len(waiters') : FALSE
    BY <1>0
  <2>3. \A c \in Calls : call'[c].at # "waiting"
    BY <1>1 DEF Idle
  <2>4. slot' \in Calls \cup {Nobody} /\ quarantined' \in BOOLEAN
    BY <1>0
  <2> QED
    BY <2>1, <2>2, <2>3, <2>4 DEF Queued, InLine
<1>3. Owned'
  BY <1>1 DEF Owned, Holding, Idle
<1>4. Bridged' /\ Opened' /\ Pending'
  BY <1>0, Nothing, Counts DEF Bridged, Opened, Pending
<1>5. Numbered'
  BY <1>0, <1>1, Nothing, NoCallFields, Counts DEF CodexInv, Numbered
<1>6. Newest'
  BY <1>1 DEF Newest, Tokens, Idle
<1>7. TokensKept'
  <2>1. \A c \in Calls : call'[c].at = "delivered" => call'[c] = call[c]
    BY <1>1, NoCallFields
  <2> QED
    BY <1>0, <2>1 DEF CodexInv, TokensKept
<1>8. Rows'
  <2> DEFINE at(j) == IF job[j].cancelled THEN "failed" ELSE "queued"
             q(j) == IF job[j].at \notin Threads THEN job[j] ELSE [job[j] EXCEPT !.at = at(j)]
  <2>1. \A j \in Jobs : q(j) \in Job
    BY JobFields DEF Job
  <2>2. job' = [j \in Jobs |-> q(j)]
    BY DEF Crash
  <2>3. job' \in [Jobs -> Job]
    BY <2>1, <2>2
  <2> QED
    BY <1>0, <2>3, JobFields, Counts DEF CodexInv, TypeOK, Rows
<1> QED
  BY <1>2, <1>3, <1>4, <1>5, <1>6, <1>7, <1>8, PartsNext DEF Tokened

LEMMA ReloadStep ==
    ASSUME CodexInv, Reload
    PROVE  CodexInv'
<1>0. /\ session' = NoSession /\ waiters' = <<>> /\ slot' = Nobody /\ quarantined' = FALSE
      /\ UNCHANGED <<connection, oauth, job, logins, call, asked>> /\ faults' \in Nat
      /\ archive' = Preserved /\ \A c \in Calls : call[c].at \in Idle
  BY FaultTypes DEF Reload, Fresh
<1>1. Sound(NoSession, Preserved, logins)
  BY SessionLost, NothingLeft, Counts DEF Preserved, CodexInv, Opened
<1>2. Bridged' /\ Tokened'
  BY <1>0, <1>1, BridgeStep, Counts
<1>3. Queued'
  <2>1. call' \in [Calls -> Call]
    BY <1>0 DEF CodexInv, TypeOK
  <2>2. waiters' \in Seq(Calls) /\ Len(waiters') = 0 /\ \A i \in 1..Len(waiters') : FALSE
    BY <1>0
  <2>3. \A c \in Calls : call'[c].at # "waiting"
    BY <1>0 DEF Idle
  <2>4. slot' \in Calls \cup {Nobody} /\ quarantined' \in BOOLEAN
    BY <1>0
  <2> QED
    BY <2>1, <2>2, <2>3, <2>4 DEF Queued, InLine
<1>4. Owned'
  BY <1>0 DEF Owned, Holding, Idle
<1>5. Rows'
  BY <1>0, JobFields, Counts DEF CodexInv, TypeOK, Rows
<1> QED
  BY <1>2, <1>3, <1>4, <1>5, PartsNext

-------------------------------------------------------------------------------
(* The theorems.                                                           *)

LEMMA CodexInit == Init => CodexInv
<1> SUFFICES ASSUME Init PROVE CodexInv
  OBVIOUS
<1>1. Rows
  <2>1. NoJob \in Job
    BY DEF NoJob, Job, Tasks, States
  <2> QED
    BY <2>1 DEF Init, Rows, States
<1>2. \A c \in Calls : call[c] = NoCall
  BY DEF Init
<1>3. Queued /\ Owned
  <2>1. call \in [Calls -> Call] /\ slot \in Calls \cup {Nobody} /\ quarantined \in BOOLEAN
    BY NoCallFields DEF Init
  <2>2. waiters \in Seq(Calls) /\ Len(waiters) = 0 /\ \A i \in 1..Len(waiters) : FALSE
    BY DEF Init
  <2> QED
    BY <1>2, <2>1, <2>2, NoCallFields DEF Queued, InLine, Owned, Holding
<1>4. Bridged
  BY Nothing DEF Init, Bridged, Archive
<1>5. Tokened
  <2>1. session = NoSession /\ archive.login <= logins /\ logins \in Nat
    BY Nothing DEF Init
  <2>2. Opened /\ Numbered /\ Pending
    BY <1>2, <2>1, Nothing, NoCallFields DEF Opened, Numbered, Pending
  <2>3. Newest /\ TokensKept
    BY <1>2, NoCallFields DEF Newest, TokensKept, Tokens
  <2> QED
    BY <2>2, <2>3 DEF Tokened
<1> QED
  BY <1>1, <1>3, <1>4, <1>5, Parts

LEMMA CodexNext == CodexInv /\ [Next]_vars => CodexInv'
<1> SUFFICES ASSUME CodexInv, [Next]_vars PROVE CodexInv'
  OBVIOUS
<1>1. ASSUME NEW j \in Jobs, RequestStep(j) \/ JobStep(j) PROVE CodexInv'
  BY <1>1, RequestsStep, JobsStep
<1>2. ASSUME NEW c \in Calls, CallStep(c) PROVE CodexInv'
  BY <1>2, BeginStep, AdmitStep, LeaveStep, IdentifyStep, WorkStep, QuarantineStep,
     PersistStep, DepartStep DEF CallStep, Advance
<1>3. CASE Consent
  BY <1>3, ConsentStep
<1>4. CASE Crash
  BY <1>4, CrashStep
<1>5. CASE Reload
  BY <1>5, ReloadStep
<1>6. CASE UNCHANGED vars
  <2>1. UNCHANGED <<connection, oauth, job, asked, faults>> /\ UNCHANGED <<bridge, call, engine>>
    BY <1>6 DEF vars
  <2>2. Rows'
    BY <2>1, JobFields, Counts DEF CodexInv, TypeOK, Rows
  <2> QED
    BY <2>1, <2>2, RowStep
<1> QED
  BY <1>1, <1>2, <1>3, <1>4, <1>5, <1>6 DEF Next

\* What the slot, the queue, the session and the archive say of each other holds
\* for any jobs, calls, faults and bounds.
THEOREM CodexInvariant == Spec => []CodexInv
BY CodexInit, CodexNext, PTL DEF Spec

\* Every row, job, session, archive and call is well formed, and the queue has
\* only calls that wait.
THEOREM CodexTypes == Spec => []TypeOK
<1>1. CodexInv => TypeOK
  BY DEF CodexInv
<1> QED
  BY <1>1, CodexInvariant, PTL

\* However many calls queue, fail, time out and leave, at most one has a child,
\* and none has after one could not be stopped.
THEOREM OneChildAtATime == Spec => []OneTextChild
<1>1. CodexInv => OneTextChild
  BY DEF CodexInv, Owned, OneTextChild, Child, Holding
<1> QED
  BY <1>1, CodexInvariant, PTL

\* The tokens that a delivered call has archived are never replaced by older
\* ones of the same login, for any order of calls, jobs, crashes and reloads.
THEOREM TokensAreKept == Spec => []TokensKept
<1>1. CodexInv => TokensKept
  BY DEF CodexInv
<1> QED
  BY <1>1, CodexInvariant, PTL

-------------------------------------------------------------------------------
(* No stray login.  A job that runs once comes to the bridge once: what it *)
(* leaves there it discards itself, or the row says that it is there.  A   *)
(* job that a crash or a retry makes run again comes to a bridge that has  *)
(* moved on, and a child that cannot be stopped keeps its archive.         *)

\* Jobs run once, and children can be stopped.
Untroubled == Faults \cap {"crash", "retry", "close"} = {}

Running == {"queued", "rpc", "recheck"}

\* No other job and no call that runs is of the epoch of the job.
Alone(j) ==
    /\ job[j].epoch > 0
    /\ \A i \in Jobs : i # j /\ job[i].at # "absent" => job[i].epoch # job[j].epoch
    /\ \A c \in Calls : call[c].at \notin Idle => call[c].epoch # job[j].epoch

Behind ==
    /\ session.epoch <= oauth.epoch /\ archive.epoch <= oauth.epoch
    /\ \A j \in Jobs : job[j].epoch <= oauth.epoch
    /\ \A c \in Calls : call[c].epoch <= oauth.epoch

OwnArchive == session.authenticated => archive.epoch = session.epoch

\* While a login starts nothing else knows its epoch, and the row says so.
Starting(j) == job[j].task = "START" /\ job[j].at \in Running

Solo ==
    \A j \in Jobs : Starting(j) =>
        /\ Alone(j)
        /\ job[j].epoch = oauth.epoch => oauth.state = "STARTING" /\ oauth.job = j

\* Starts that will look whether their session is still wanted.
Leaving(j) == job[j].task = "START" /\ job[j].at \in {"recheck", "discard"} /\ Alone(j)

\* A session of an earlier epoch is one that such a start will discard.
CleanSession ==
    session # NoSession /\ session.epoch < oauth.epoch =>
        /\ ~session.authenticated
        /\ \E j \in Jobs : Leaving(j) /\ job[j].epoch = session.epoch

\* An archive of an earlier epoch is one that the current login will replace.
CleanArchive ==
    archive # NoArchive /\ archive.epoch < oauth.epoch =>
        session # NoSession /\ ~session.authenticated /\ session.epoch = oauth.epoch

Settled == {"PENDING", "AUTHENTICATED"} \cup Ended

Answered(j) == job[j].at = "recheck" /\ job[j].epoch = oauth.epoch

Settling == oauth.state \in Settled \/ \E j \in Jobs : Answered(j) /\ job[j].result # "ERROR"

Ending == oauth.state \in Ended \/ \E j \in Jobs : Answered(j) /\ job[j].result \in Ended

\* Once a job of the epoch has done its work at the bridge, it is clean.
Swept == Settling => CleanSession /\ CleanArchive

\* What has ended left no login that could still succeed.
Over == Ending => (session # NoSession /\ session.epoch = oauth.epoch => session.authenticated)

LoginInv == CodexInv /\ Untroubled /\ Behind /\ OwnArchive /\ Solo /\ Swept /\ Over

\* Who is new to the epochs is of epoch E.
Joins(E) ==
    /\ \A i \in Jobs : job'[i].at # "absent" =>
          \/ job[i].at # "absent" /\ job'[i].epoch = job[i].epoch
          \/ job'[i].epoch \in {0, E}
    /\ \A c \in Calls : call'[c].at \notin Idle =>
          \/ call[c].at \notin Idle /\ call'[c].epoch = call[c].epoch
          \/ call'[c].epoch \in {0, E}

\* The starts go on as they were.
Continue ==
    \A i \in Jobs : Starting(i)' => Starting(i) /\ job'[i].epoch = job[i].epoch

LEMMA AloneStays ==
    ASSUME NEW E, Joins(E), NEW j \in Jobs, Alone(j), job'[j].epoch = job[j].epoch,
           job[j].epoch # E
    PROVE  Alone(j)'
BY DEF Joins, Alone

LEMMA SoloStays ==
    ASSUME Solo, NEW E, Joins(E), Continue, oauth'.epoch = oauth.epoch,
           \A i \in Jobs : Starting(i) => job[i].epoch # E,
           \A i \in Jobs : Starting(i)' /\ job[i].epoch = oauth.epoch
                              => oauth'.state = oauth.state /\ oauth'.job = oauth.job
    PROVE  Solo'
<1> SUFFICES ASSUME NEW j \in Jobs, Starting(j)'
             PROVE  /\ Alone(j)'
                    /\ job'[j].epoch = oauth'.epoch => oauth'.state = "STARTING" /\ oauth'.job = j
  BY DEF Solo
<1>1. Starting(j) /\ job'[j].epoch = job[j].epoch
  BY DEF Continue
<1>2. Alone(j)'
  BY <1>1, AloneStays DEF Solo
<1> QED
  BY <1>1, <1>2 DEF Solo

\* The bridge is left alone, and the row keeps its epoch.
LEMMA RowsMove ==
    ASSUME LoginInv, UNCHANGED <<session, archive>>, oauth'.epoch = oauth.epoch,
           NEW E \in {0, oauth.epoch}, Joins(E), Continue,
           \A i \in Jobs : Starting(i) => job[i].epoch # E,
           \A i \in Jobs : Starting(i)' /\ job[i].epoch = oauth.epoch
                              => oauth'.state = oauth.state /\ oauth'.job = oauth.job,
           \A i \in Jobs : job'[i].epoch <= oauth.epoch,
           \A c \in Calls : call'[c].epoch <= oauth.epoch,
           Settling' => Settling, Ending' => Ending,
           \A i \in Jobs : /\ job[i].task = "START" /\ job[i].at \in {"recheck", "discard"}
                           /\ session # NoSession /\ job[i].epoch = session.epoch
                           /\ job[i].epoch < oauth.epoch
                => /\ job'[i].task = "START" /\ job'[i].at \in {"recheck", "discard"}
                   /\ job'[i].epoch = job[i].epoch
    PROVE  Behind' /\ OwnArchive' /\ Solo' /\ Swept' /\ Over'
<1>1. Behind' /\ OwnArchive'
  BY DEF LoginInv, Behind, OwnArchive
<1>2. Solo'
  BY SoloStays DEF LoginInv
<1>3. ASSUME Settling' PROVE CleanSession' /\ CleanArchive'
  <2>1. CleanSession /\ CleanArchive
    BY <1>3 DEF LoginInv, Swept
  <2>2. CleanArchive'
    BY <2>1 DEF CleanArchive
  <2>3. ASSUME session # NoSession, session.epoch < oauth.epoch
        PROVE  \E j \in Jobs : Leaving(j)' /\ job'[j].epoch = session.epoch
    <3>1. PICK j \in Jobs : Leaving(j) /\ job[j].epoch = session.epoch
      BY <2>1, <2>3 DEF CleanSession
    <3>2. job[j].epoch # E
      BY <2>3, <3>1, JobFields DEF Leaving, Alone, LoginInv
    <3>3. /\ job'[j].task = "START" /\ job'[j].at \in {"recheck", "discard"}
          /\ job'[j].epoch = job[j].epoch
      BY <2>3, <3>1 DEF Leaving
    <3>4. Alone(j)'
      BY <3>1, <3>2, <3>3, AloneStays DEF Leaving
    <3> QED
      BY <3>1, <3>3, <3>4 DEF Leaving
  <2>4. CleanSession'
    BY <2>1, <2>3 DEF CleanSession
  <2> QED
    BY <2>2, <2>4
<1>4. Swept'
  BY <1>3 DEF Swept
<1>5. Over'
  BY DEF LoginInv, Over
<1> QED
  BY <1>1, <1>2, <1>4, <1>5

\* One job moves, or is new.
LEMMA JobMoved ==
    ASSUME CodexInv, NEW j \in Jobs, NEW q, job' = [job EXCEPT ![j] = q]
    PROVE  job'[j] = q /\ \A i \in Jobs : i # j => job'[i] = job[i]
BY JobFields

LEMMA Epochs ==
    ASSUME LoginInv
    PROVE  /\ oauth.epoch \in Nat
           /\ session.epoch \in Nat /\ session.epoch <= oauth.epoch
           /\ archive.epoch \in Nat /\ archive.epoch <= oauth.epoch
           /\ \A i \in Jobs : job[i].epoch \in Nat /\ job[i].epoch <= oauth.epoch
           /\ \A c \in Calls : call[c].epoch \in Nat /\ call[c].epoch <= oauth.epoch
<1>1. CodexInv /\ Behind
  BY DEF LoginInv
<1>2. \A i \in Jobs : job[i].epoch \in Nat
  BY <1>1, JobFields DEF Job
<1>3. \A c \in Calls : call[c].epoch \in Nat
  BY <1>1, CallFields
<1> QED
  BY <1>1, <1>2, <1>3, JobFields, Counts, SessionFields, ArchiveFields DEF Behind

\* The start of the current epoch is under way, and in the row; until it has been
\* at the bridge nothing says how it ended.
LEMMA CurrentStart ==
    ASSUME LoginInv, NEW i \in Jobs, Starting(i), job[i].epoch = oauth.epoch
    PROVE  /\ Busy /\ oauth.state = "STARTING"
           /\ \A k \in Jobs : k # i => job[k].at = "absent" \/ job[k].epoch # oauth.epoch
           /\ job[i].at # "recheck" => ~Settling /\ ~Ending
<1>1. Alone(i) /\ oauth.state = "STARTING" /\ oauth.job = i
  BY DEF LoginInv, Solo
<1>2. i # Nobody
  BY NamesAssumption
<1>3. Busy
  BY <1>1, <1>2 DEF Busy, Underway, Threads, Starting, Running
<1>4. \A k \in Jobs : k # i => job[k].at = "absent" \/ job[k].epoch # oauth.epoch
  BY <1>1 DEF Alone
<1>5. oauth.state \notin Settled /\ oauth.state \notin Ended
  BY <1>1 DEF Settled, Ended
<1>6. job[i].at # "recheck" => \A k \in Jobs : ~Answered(k)
  BY <1>4 DEF Answered
<1>7. job[i].at # "recheck" => ~Settling /\ ~Ending
  BY <1>5, <1>6 DEF Settling, Ending
<1> QED
  BY <1>1, <1>3, <1>4, <1>7

-------------------------------------------------------------------------------
(* Requests.                                                               *)

\* A request that begins an epoch: nobody else knows it, and nothing is said of it.
LEMMA NewEpoch ==
    ASSUME LoginInv, NEW j \in Jobs, NEW task \in Tasks, NEW state \in States, NEW rev,
           Request(j, task, oauth.epoch + 1, state, rev),
           state \in {"STARTING", "CANCELLING", "SIGNING_OUT"},
           task = "START" => state = "STARTING"
    PROVE  Behind' /\ OwnArchive' /\ Solo' /\ Swept' /\ Over'
<1> DEFINE q == [NoJob EXCEPT !.task = task, !.epoch = oauth.epoch + 1, !.rev = rev,
                              !.at = "queued"]
<1>1. q.task = task /\ q.epoch = oauth.epoch + 1 /\ q.at = "queued"
  BY DEF NoJob
<1>2. job' = [job EXCEPT ![j] = q] /\ job[j].at = "absent"
  BY DEF Request
<1> HIDE DEF q
<1>3. CodexInv
  BY DEF LoginInv
<1>4. job'[j] = q /\ \A i \in Jobs : i # j => job'[i] = job[i]
  BY <1>2, <1>3, JobMoved
<1>5. /\ UNCHANGED <<session, archive, call>>
      /\ oauth'.epoch = oauth.epoch + 1 /\ oauth'.state = state /\ oauth'.job = j
  BY DEF Request, bridge
<1>6. \A i \in Jobs : i # j => job'[i].epoch < oauth'.epoch /\ job'[i].epoch \in Nat
  BY <1>4, <1>5, Epochs
<1>7. \A c \in Calls : call'[c].epoch < oauth'.epoch
  BY <1>5, Epochs
<1>8. Behind'
  <2>1. session'.epoch <= oauth'.epoch /\ archive'.epoch <= oauth'.epoch
    BY <1>5, Epochs
  <2>2. \A i \in Jobs : job'[i].epoch <= oauth'.epoch
    BY <1>1, <1>4, <1>5, <1>6, Epochs
  <2>3. \A c \in Calls : call'[c].epoch <= oauth'.epoch
    BY <1>5, Epochs
  <2> QED
    BY <2>1, <2>2, <2>3 DEF Behind
<1>9. OwnArchive'
  BY <1>5 DEF LoginInv, OwnArchive
<1>10. Solo'
  <2> SUFFICES ASSUME NEW i \in Jobs, Starting(i)'
               PROVE  /\ Alone(i)'
                      /\ job'[i].epoch = oauth'.epoch => oauth'.state = "STARTING" /\ oauth'.job = i
    BY DEF Solo
  <2>1. CASE i = j
    <3>1. oauth'.state = "STARTING" /\ oauth'.job = i
      BY <2>1, <1>1, <1>4, <1>5 DEF Starting
    <3>2. job'[i].epoch = oauth'.epoch /\ job'[i].epoch > 0
      BY <2>1, <1>1, <1>4, <1>5, Epochs
    <3>3. \A k \in Jobs : k # i => job'[k].epoch # job'[i].epoch
      BY <2>1, <3>2, <1>5, <1>6, Epochs
    <3>4. \A c \in Calls : call'[c].epoch # job'[i].epoch
      BY <3>2, <1>5, Epochs
    <3> QED
      BY <3>1, <3>2, <3>3, <3>4 DEF Alone
  <2>2. CASE i # j
    <3>1. job'[i] = job[i] /\ job'[i].epoch # oauth'.epoch
      BY <2>2, <1>4, <1>5, <1>6, Epochs
    <3>2. Alone(i)
      BY <3>1 DEF LoginInv, Solo, Starting
    <3>3. job'[j].epoch # job'[i].epoch
      BY <3>1, <1>1, <1>4, <1>5
    <3>4. Alone(i)'
      BY <3>1, <3>2, <3>3, <1>4, <1>5 DEF Alone
    <3> QED
      BY <3>1, <3>4
  <2> QED
    BY <2>1, <2>2
<1>11. \A i \in Jobs : ~Answered(i)'
  <2>1. ~Answered(j)'
    BY <1>1, <1>4 DEF Answered
  <2>2. \A i \in Jobs : i # j => ~Answered(i)'
    BY <1>5, <1>6, Epochs DEF Answered
  <2> QED
    BY <2>1, <2>2
<1>12. oauth'.state \notin Settled /\ oauth'.state \notin Ended
  BY <1>5 DEF Settled, Ended
<1>13. Swept' /\ Over'
  BY <1>11, <1>12 DEF Swept, Over, Settling, Ending
<1> QED
  BY <1>8, <1>9, <1>10, <1>13

\* A refresh joins the epoch, once its start is done.
LEMMA SameEpoch ==
    ASSUME LoginInv, NEW j \in Jobs, RequestRefresh(j)
    PROVE  Behind' /\ OwnArchive' /\ Solo' /\ Swept' /\ Over'
<1> DEFINE q == [NoJob EXCEPT !.task = "REFRESH", !.epoch = oauth.epoch,
                              !.rev = connection.rev, !.at = "queued"]
<1>1. q.task = "REFRESH" /\ q.epoch = oauth.epoch /\ q.at = "queued"
  BY DEF NoJob
<1>2. job' = [job EXCEPT ![j] = q] /\ job[j].at = "absent"
  BY DEF RequestRefresh, Request
<1> HIDE DEF q
<1>3. CodexInv
  BY DEF LoginInv
<1>4. job'[j] = q /\ \A i \in Jobs : i # j => job'[i] = job[i]
  BY <1>2, <1>3, JobMoved
<1>5. /\ UNCHANGED <<session, archive, call>>
      /\ oauth'.epoch = oauth.epoch /\ oauth'.state = oauth.state
  BY DEF RequestRefresh, Request, bridge
<1>6. Joins(oauth.epoch)
  BY <1>1, <1>4, <1>5 DEF Joins
<1>7. Continue
  BY <1>1, <1>4 DEF Continue, Starting
<1>8. \A i \in Jobs : Starting(i) => job[i].epoch # oauth.epoch
  BY CurrentStart DEF RequestRefresh
<1>9. \A i \in Jobs : Starting(i)' /\ job[i].epoch = oauth.epoch
          => oauth'.state = oauth.state /\ oauth'.job = oauth.job
  BY <1>7, <1>8 DEF Continue
<1>10. /\ \A i \in Jobs : job'[i].epoch <= oauth.epoch
       /\ \A c \in Calls : call'[c].epoch <= oauth.epoch
  BY <1>1, <1>4, <1>5, Epochs
<1>11. \A i \in Jobs : Answered(i)' => Answered(i) /\ job'[i] = job[i]
  BY <1>1, <1>4, <1>5 DEF Answered
<1>12. Settling' => Settling
  BY <1>5, <1>11 DEF Settling
<1>13. Ending' => Ending
  BY <1>5, <1>11 DEF Ending
<1>14. \A i \in Jobs : job[i].at \in {"recheck", "discard"} => job'[i] = job[i]
  BY <1>2, <1>4
<1> QED
  BY <1>5, <1>6, <1>7, <1>8, <1>9, <1>10, <1>12, <1>13, <1>14, RowsMove

-------------------------------------------------------------------------------
(* Steps of jobs that leave the bridge alone.                              *)

\* A job goes on, with its epoch or with none, and without having been at the
\* bridge; the row is as it was.
LEMMA JobGoesOn ==
    ASSUME LoginInv, NEW j \in Jobs, NEW q, job' = [job EXCEPT ![j] = q],
           UNCHANGED <<session, archive, call>>,
           oauth'.epoch = oauth.epoch, oauth'.state = oauth.state, oauth'.job = oauth.job,
           job[j].at # "absent", q.epoch \in {job[j].epoch, 0},
           q.task = "START" /\ q.at \in Running => Starting(j) /\ q.epoch = job[j].epoch,
           q.at = "recheck" => \/ q.result = "ERROR"
                               \/ job[j].at = "recheck" /\ q.result = job[j].result,
           q.at = "recheck" => q.epoch = job[j].epoch,
           job[j].task = "START" /\ job[j].at \in {"recheck", "discard"} =>
               \/ q.task = "START" /\ q.at \in {"recheck", "discard"} /\ q.epoch = job[j].epoch
               \/ session = NoSession
               \/ job[j].epoch # session.epoch
               \/ job[j].epoch = oauth.epoch
    PROVE  Behind' /\ OwnArchive' /\ Solo' /\ Swept' /\ Over'
<1>1. CodexInv
  BY DEF LoginInv
<1>2. job'[j] = q /\ \A i \in Jobs : i # j => job'[i] = job[i]
  BY <1>1, JobMoved
<1>3. Joins(0)
  BY <1>2 DEF Joins
<1>4. Continue
  BY <1>2 DEF Continue, Starting
<1>5. \A i \in Jobs : Starting(i) => job[i].epoch # 0
  BY Epochs DEF LoginInv, Solo, Alone
<1>6. /\ \A i \in Jobs : job'[i].epoch <= oauth.epoch
      /\ \A c \in Calls : call'[c].epoch <= oauth.epoch
  BY <1>2, Epochs
<1>7. \A i \in Jobs : Answered(i)' =>
          \/ job'[i].result = "ERROR"
          \/ Answered(i) /\ job'[i].result = job[i].result
  BY <1>2 DEF Answered
<1>8. Settling' => Settling
  BY <1>7 DEF Settling
<1>9. Ending' => Ending
  BY <1>7 DEF Ending, Ended
<1>10. \A i \in Jobs : /\ job[i].task = "START" /\ job[i].at \in {"recheck", "discard"}
                       /\ session # NoSession /\ job[i].epoch = session.epoch
                       /\ job[i].epoch < oauth.epoch
           => /\ job'[i].task = "START" /\ job'[i].at \in {"recheck", "discard"}
              /\ job'[i].epoch = job[i].epoch
  BY <1>2, Epochs
<1> QED
  BY <1>3, <1>4, <1>5, <1>6, <1>8, <1>9, <1>10, RowsMove

LEMMA RequestsClean ==
    ASSUME LoginInv, NEW j \in Jobs, RequestStep(j)
    PROVE  Behind' /\ OwnArchive' /\ Solo' /\ Swept' /\ Over'
<1>1. CASE RequestStart(j)
  BY <1>1, NewEpoch DEF RequestStart, Tasks, States
<1>2. CASE RequestRefresh(j)
  BY <1>2, SameEpoch
<1>3. CASE RequestCancel(j)
  BY <1>3, NewEpoch DEF RequestCancel, Tasks, States
<1>4. CASE RequestLogout(j)
  BY <1>4, NewEpoch DEF RequestLogout, Tasks, States
<1>5. CASE Edit(j)
  BY <1>5, NewEpoch DEF Edit, Tasks, States
<1>6. CASE CancelJob(j)
  <2> DEFINE at == IF job[j].at = "queued" THEN "failed" ELSE job[j].at
             q == [job[j] EXCEPT !.cancelled = TRUE, !.at = at]
  <2>0. job[j] \in Job /\ job \in [Jobs -> Job]
    BY JobFields DEF LoginInv
  <2>1. /\ q.task = job[j].task /\ q.epoch = job[j].epoch /\ q.result = job[j].result
        /\ q.at = at
    BY <2>0 DEF Job
  <2>2. job' = [job EXCEPT ![j] = q]
    BY <1>6, <2>0 DEF CancelJob
  <2>3. job[j].at \in {"queued"} \cup Threads
    BY <1>6 DEF CancelJob, Underway
  <2>4. at \in Running => job[j].at \in Running
    BY <2>3 DEF Threads, Running
  <2>5. at = "recheck" => job[j].at = "recheck"
    BY <2>3 DEF Threads
  <2>6. job[j].at \in {"recheck", "discard"} => at = job[j].at
    OBVIOUS
  <2>7. UNCHANGED <<session, archive, call>> /\ UNCHANGED oauth /\ job[j].at # "absent"
    BY <1>6, <2>3 DEF CancelJob, bridge, Threads
  <2> HIDE DEF q, at
  <2> QED
    BY <2>1, <2>2, <2>4, <2>5, <2>6, <2>7, JobGoesOn DEF Starting
<1>7. CASE RetryJob(j)
  BY <1>7 DEF RetryJob, Fault, May, LoginInv, Untroubled
<1> QED
  BY <1>1, <1>2, <1>3, <1>4, <1>5, <1>6, <1>7 DEF RequestStep

LEMMA AuthoriseClean ==
    ASSUME LoginInv, NEW j \in Jobs, Authorise(j)
    PROVE  Behind' /\ OwnArchive' /\ Solo' /\ Swept' /\ Over'
<1> DEFINE at == IF Current(j) THEN "rpc" ELSE "failed"
           q == [job[j] EXCEPT !.at = at]
<1>0. job[j] \in Job /\ job \in [Jobs -> Job] /\ job[j].at = "queued"
  BY JobFields DEF LoginInv, Authorise
<1>1. q.task = job[j].task /\ q.epoch = job[j].epoch /\ q.at \in {"rpc", "failed"}
  BY <1>0 DEF Job
<1>2. job' = [job EXCEPT ![j] = q]
  BY DEF Authorise, Goes
<1>3. UNCHANGED <<session, archive, call>> /\ UNCHANGED oauth
  BY DEF Authorise, bridge
<1> HIDE DEF q
<1> QED
  BY <1>0, <1>1, <1>2, <1>3, JobGoesOn DEF Starting, Running

LEMMA RefuseClean ==
    ASSUME LoginInv, NEW j \in Jobs, Refuse(j)
    PROVE  Behind' /\ OwnArchive' /\ Solo' /\ Swept' /\ Over'
<1> DEFINE q == [job[j] EXCEPT !.at = "recheck", !.result = "ERROR"]
<1>0. job[j] \in Job /\ job \in [Jobs -> Job] /\ job[j].at = "rpc"
  BY JobFields DEF LoginInv, Refuse
<1>1. q.task = job[j].task /\ q.epoch = job[j].epoch /\ q.at = "recheck" /\ q.result = "ERROR"
  BY <1>0 DEF Job
<1>2. job' = [job EXCEPT ![j] = q]
  BY <1>0 DEF Refuse
<1>3. UNCHANGED <<session, archive, call>> /\ UNCHANGED oauth
  BY DEF Refuse, bridge
<1> HIDE DEF q
<1> QED
  BY <1>0, <1>1, <1>2, <1>3, JobGoesOn DEF Starting, Running

LEMMA FinishClean ==
    ASSUME LoginInv, NEW j \in Jobs, Finish(j)
    PROVE  Behind' /\ OwnArchive' /\ Solo' /\ Swept' /\ Over'
<1>0. job[j] \in Job /\ job \in [Jobs -> Job] /\ job[j].at = "final"
  BY JobFields DEF LoginInv, Finish
<1>1. UNCHANGED <<session, archive, call>> /\ UNCHANGED oauth
  BY DEF Finish, bridge
<1>2. PICK q : /\ job' = [job EXCEPT ![j] = q]
               /\ q.at \in {"done", "failed"} /\ q.epoch \in {job[j].epoch, 0}
  <2>1. CASE Confirmed(j)
    <3> DEFINE q == [NoJob EXCEPT !.at = "done"]
    <3>1. job' = [job EXCEPT ![j] = q] /\ q.at = "done" /\ q.epoch = 0
      BY <2>1 DEF Finish, NoJob
    <3> QED
      BY <3>1
  <2>2. CASE ~Confirmed(j)
    <3> DEFINE q == [job[j] EXCEPT !.at = "failed", !.result = "ERROR"]
    <3>1. job' = [job EXCEPT ![j] = q]
      BY <1>0, <2>2 DEF Finish
    <3>2. q.at = "failed" /\ q.epoch = job[j].epoch
      BY <1>0 DEF Job
    <3> QED
      BY <3>1, <3>2
  <2> QED
    BY <2>1, <2>2
<1> QED
  BY <1>0, <1>1, <1>2, JobGoesOn DEF Running

\* The row says how the job has ended, which the job has known since the bridge.
LEMMA RecheckClean ==
    ASSUME LoginInv, NEW j \in Jobs, Recheck(j)
    PROVE  Behind' /\ OwnArchive' /\ Solo' /\ Swept' /\ Over'
<1>0. /\ job[j] \in Job /\ job \in [Jobs -> Job] /\ job[j].at = "recheck"
      /\ oauth \in [state: States, epoch: Nat, rev: Nat, job: Jobs \cup {Nobody}]
  BY JobFields, OauthTypes DEF LoginInv, Recheck
<1>1. UNCHANGED <<session, archive, call>>
  BY DEF Recheck, bridge
<1>2. CASE ~Confirmed(j)
  <2> DEFINE q == [job[j] EXCEPT !.at = "discard"]
  <2>1. q.task = job[j].task /\ q.epoch = job[j].epoch /\ q.at = "discard"
    BY <1>0 DEF Job
  <2>2. job' = [job EXCEPT ![j] = q] /\ UNCHANGED oauth
    BY <1>0, <1>2 DEF Recheck, Goes
  <2> HIDE DEF q
  <2> QED
    BY <1>0, <1>1, <2>1, <2>2, JobGoesOn DEF Running
<1>3. CASE Confirmed(j)
  <2> DEFINE at == IF job[j].result = "ERROR" THEN "discard" ELSE "final"
             q == [job[j] EXCEPT !.at = at]
  <2>1. q.task = job[j].task /\ q.epoch = job[j].epoch /\ q.at \in {"discard", "final"}
    BY <1>0 DEF Job
  <2>2. job' = [job EXCEPT ![j] = q]
    BY <1>0, <1>3 DEF Recheck, Goes
  <2>3. oauth'.epoch = oauth.epoch /\ oauth'.state = job[j].result
    BY <1>0, <1>3 DEF Recheck
  <2>4. job[j].epoch = oauth.epoch
    BY <1>3 DEF Confirmed, Current
  <2> HIDE DEF q
  <2>5. job'[j] = q /\ \A i \in Jobs : i # j => job'[i] = job[i]
    BY <1>0, <2>2
  <2>6. Answered(j)
    BY <1>0, <2>4 DEF Answered
  <2>7. Joins(0)
    BY <1>0, <1>1, <2>1, <2>5 DEF Joins
  <2>8. Continue
    BY <2>1, <2>5 DEF Continue, Starting, Running
  <2>9. \A i \in Jobs : Starting(i) => job[i].epoch # 0
    BY Epochs DEF LoginInv, Solo, Alone
  <2>10. \A i \in Jobs : Starting(i)' => job[i].epoch # oauth.epoch
    <3> SUFFICES ASSUME NEW i \in Jobs, Starting(i)', job[i].epoch = oauth.epoch
                 PROVE  FALSE
      OBVIOUS
    <3>1. i # j /\ Starting(i)
      BY <2>1, <2>5, <2>8 DEF Continue, Starting, Running
    <3> QED
      BY <3>1, <1>0, <2>4, CurrentStart
  <2>11. \A i \in Jobs : Answered(i)' => Answered(i) /\ job'[i] = job[i]
    BY <2>1, <2>3, <2>5 DEF Answered
  <2>12. Settling' => Settling
    <3>1. oauth'.state \in Settled => job[j].result # "ERROR"
      BY <2>3 DEF Settled, Ended
    <3> QED
      BY <2>6, <2>11, <3>1 DEF Settling
  <2>13. Ending' => Ending
    BY <2>3, <2>6, <2>11 DEF Ending
  <2>14. /\ \A i \in Jobs : job'[i].epoch <= oauth.epoch
         /\ \A c \in Calls : call'[c].epoch <= oauth.epoch
    BY <1>1, <2>1, <2>5, Epochs
  <2>15. \A i \in Jobs : job[i].epoch < oauth.epoch => job'[i] = job[i]
    BY <2>4, <2>5, Epochs
  <2> QED
    BY <1>1, <2>3, <2>7, <2>8, <2>9, <2>10, <2>12, <2>13, <2>14, <2>15, RowsMove
<1> QED
  BY <1>2, <1>3

\* A start that is not wanted any more discards its session, and no other one.
LEMMA DiscardClean ==
    ASSUME LoginInv, NEW j \in Jobs, DiscardEpoch(j)
    PROVE  Behind' /\ OwnArchive' /\ Solo' /\ Swept' /\ Over'
<1> DEFINE q == [job[j] EXCEPT !.at = "failed", !.result = "ERROR"]
<1>0. /\ CodexInv /\ job[j] \in Job /\ job \in [Jobs -> Job] /\ job[j].at = "discard"
  BY JobFields DEF LoginInv, DiscardEpoch
<1>1. q.task = job[j].task /\ q.epoch = job[j].epoch /\ q.at = "failed"
  BY <1>0 DEF Job
<1>2. job' = [job EXCEPT ![j] = q] /\ UNCHANGED oauth /\ UNCHANGED call
  BY <1>0 DEF DiscardEpoch
<1> HIDE DEF q
<1>3. CASE session.login > 0 /\ session.epoch = job[j].epoch
  <2>1. session' = NoSession /\ archive' = NoArchive
    <3>1. PICK o \in Discarded("ERROR") : session' = o.session /\ archive' = o.archive
      BY <1>3 DEF DiscardEpoch
    <3>2. Unstopped = {}
      BY DEF Unstopped, Faulty, May, LoginInv, Untroubled
    <3> QED
      BY <3>1, <3>2 DEF Discarded, Outcome
  <2>2. job'[j] = q /\ \A i \in Jobs : i # j => job'[i] = job[i]
    BY <1>0, <1>2
  <2>3. Joins(0)
    BY <1>0, <1>1, <1>2, <2>2 DEF Joins
  <2>4. Continue
    BY <1>1, <2>2 DEF Continue, Starting, Running
  <2>5. \A i \in Jobs : Starting(i) => job[i].epoch # 0
    BY Epochs DEF LoginInv, Solo, Alone
  <2>6. Solo'
    BY <1>2, <2>3, <2>4, <2>5, SoloStays DEF LoginInv
  <2>7. Behind'
    <3>1. session'.epoch = 0 /\ archive'.epoch = 0
      BY <2>1 DEF NoSession, NoArchive
    <3> QED
      BY <1>1, <1>2, <2>2, <3>1, Epochs DEF Behind
  <2>8. OwnArchive'
    BY <2>1, Nothing DEF OwnArchive
  <2>9. Swept' /\ Over'
    BY <2>1 DEF Swept, Over, CleanSession, CleanArchive
  <2> QED
    BY <2>6, <2>7, <2>8, <2>9
<1>4. CASE ~(session.login > 0 /\ session.epoch = job[j].epoch)
  <2>1. UNCHANGED <<session, archive>>
    BY <1>4 DEF DiscardEpoch
  <2>2. session = NoSession \/ job[j].epoch # session.epoch
    BY <1>0, <1>4, Counts, SessionFields DEF CodexInv, Opened
  <2> QED
    BY <1>0, <1>1, <1>2, <2>1, <2>2, JobGoesOn DEF Running
<1> QED
  BY <1>3, <1>4

-------------------------------------------------------------------------------
(* Calls.                                                                  *)

\* Calls go on, or begin when the login is complete.
LEMMA CallsGoOn ==
    ASSUME LoginInv, UNCHANGED <<session, archive, job>>,
           oauth'.epoch = oauth.epoch, oauth'.state = oauth.state, oauth'.job = oauth.job,
           \A c \in Calls : \/ call'[c].epoch = call[c].epoch
                               /\ (call'[c].at \notin Idle => call[c].at \notin Idle)
                            \/ call'[c].epoch = 0
                            \/ call'[c].epoch = oauth.epoch /\ oauth.state = "AUTHENTICATED"
    PROVE  Behind' /\ OwnArchive' /\ Solo' /\ Swept' /\ Over'
<1> DEFINE E == IF oauth.state = "AUTHENTICATED" THEN oauth.epoch ELSE 0
<1>1. E \in {0, oauth.epoch}
  OBVIOUS
<1>2. Joins(E)
  BY DEF Joins
<1>3. Continue
  BY DEF Continue, Starting
<1>4. \A i \in Jobs : Starting(i) => job[i].epoch # 0
  BY Epochs DEF LoginInv, Solo, Alone
<1>5. oauth.state = "AUTHENTICATED" => \A i \in Jobs : Starting(i) => job[i].epoch # oauth.epoch
  BY CurrentStart
<1>6. \A i \in Jobs : Starting(i) => job[i].epoch # E
  BY <1>4, <1>5
<1>7. /\ \A i \in Jobs : job'[i].epoch <= oauth.epoch
      /\ \A c \in Calls : call'[c].epoch <= oauth.epoch
  BY Epochs
<1>8. \A i \in Jobs : Answered(i)' => Answered(i)
  BY DEF Answered
<1>9. (Settling' => Settling) /\ (Ending' => Ending)
  BY <1>8 DEF Settling, Ending
<1> HIDE DEF E
<1> QED
  BY <1>1, <1>2, <1>3, <1>6, <1>7, <1>9, RowsMove

\* One call goes on.
LEMMA CallGoesOn ==
    ASSUME LoginInv, NEW c \in Calls, NEW q, call' = [call EXCEPT ![c] = q],
           UNCHANGED <<session, archive, job, oauth>>,
           \/ q.epoch = call[c].epoch /\ call[c].at \notin Idle
           \/ q.epoch = 0
           \/ q.epoch = oauth.epoch /\ oauth.state = "AUTHENTICATED"
    PROVE  Behind' /\ OwnArchive' /\ Solo' /\ Swept' /\ Over'
<1>1. call \in [Calls -> Call]
  BY DEF LoginInv, CodexInv, TypeOK
<1>2. call'[c] = q /\ \A d \in Calls : d # c => call'[d] = call[d]
  BY <1>1
<1> QED
  BY <1>2, CallsGoOn

LEMMA BeginClean ==
    ASSUME LoginInv, NEW c \in Calls, Begin(c)
    PROVE  Behind' /\ OwnArchive' /\ Solo' /\ Swept' /\ Over'
<1>1. UNCHANGED <<session, archive, job, oauth>> /\ oauth.state = "AUTHENTICATED"
  BY DEF Begin, bridge
<1>2. PICK q : call' = [call EXCEPT ![c] = q] /\ q.epoch = oauth.epoch
  <2>1. /\ Snapshot("admitted").epoch = oauth.epoch
        /\ Snapshot("waiting").epoch = oauth.epoch
    BY DEF Snapshot, NoCall
  <2>2. \/ call' = [call EXCEPT ![c] = Snapshot("admitted")]
        \/ call' = [call EXCEPT ![c] = Snapshot("waiting")]
    BY DEF Begin
  <2> QED
    BY <2>1, <2>2
<1> QED
  BY <1>1, <1>2, CallGoesOn

\* The steps of a call that leave the session and the archive alone.
LEMMA WorkClean ==
    ASSUME LoginInv, NEW c \in Calls,
           \/ Admit(c) \/ Leave(c) \/ StartChild(c) \/ Rotate(c) \/ Send(c) \/ Complete(c)
           \/ Fail(c) \/ Close(c) \/ Quarantine(c) \/ Unpersisted(c) \/ Depart(c)
    PROVE  Behind' /\ OwnArchive' /\ Solo' /\ Swept' /\ Over'
<1>0. call \in [Calls -> Call] /\ call[c] \in Call
  BY CallFields DEF LoginInv, CodexInv, TypeOK
<1>1. UNCHANGED <<session, archive, job, oauth>>
  BY DEF Admit, Leave, StartChild, Rotate, Send, Complete, Fail, Close, Quarantine,
         Unpersisted, Depart, bridge
<1>2. call[c].at \notin Idle
  BY DEF Admit, Leave, StartChild, Rotate, Send, Complete, Fail, Close, Quarantine,
         Unpersisted, Depart, Idle
<1>3. \E q : call' = [call EXCEPT ![c] = q] /\ q.epoch \in {call[c].epoch, 0}
  <2>0. NoCall.epoch = 0
    BY DEF NoCall
  <2>1. ASSUME NEW at, call' = [call EXCEPT ![c].at = at]
        PROVE  \E q : call' = [call EXCEPT ![c] = q] /\ q.epoch \in {call[c].epoch, 0}
    <3> DEFINE q == [call[c] EXCEPT !.at = at]
    <3>1. call' = [call EXCEPT ![c] = q] /\ q.epoch = call[c].epoch
      BY <1>0, <2>1 DEF Call
    <3> QED
      BY <3>1
  <2>2. ASSUME NEW at, call' = [call EXCEPT ![c].ok = FALSE, ![c].at = at]
        PROVE  \E q : call' = [call EXCEPT ![c] = q] /\ q.epoch \in {call[c].epoch, 0}
    <3> DEFINE q == [call[c] EXCEPT !.ok = FALSE, !.at = at]
    <3>1. call' = [call EXCEPT ![c] = q] /\ q.epoch = call[c].epoch
      BY <1>0, <2>2 DEF Call
    <3> QED
      BY <3>1
  <2>3. ASSUME NEW at, call' = [call EXCEPT ![c].at = at, ![c].ok = FALSE]
        PROVE  \E q : call' = [call EXCEPT ![c] = q] /\ q.epoch \in {call[c].epoch, 0}
    <3> DEFINE q == [call[c] EXCEPT !.at = at, !.ok = FALSE]
    <3>1. call' = [call EXCEPT ![c] = q] /\ q.epoch = call[c].epoch
      BY <1>0, <2>3 DEF Call
    <3> QED
      BY <3>1
  <2>4. CASE Admit(c) \/ StartChild(c) \/ Send(c) \/ Complete(c) \/ Close(c)
    BY <2>1, <2>4 DEF Admit, StartChild, Send, Complete, Close, Moves
  <2>5. CASE Leave(c)
    BY <2>0, <2>5 DEF Leave
  <2>6. CASE Fail(c)
    BY <2>2, <2>6 DEF Fail
  <2>7. CASE Quarantine(c) \/ Unpersisted(c)
    BY <2>3, <2>7 DEF Quarantine, Unpersisted
  <2>8. CASE Rotate(c)
    <3> DEFINE q == [call[c] EXCEPT !.gen = call[c].gen + 1]
    <3>1. call' = [call EXCEPT ![c] = q] /\ q.epoch = call[c].epoch
      BY <1>0, <2>8 DEF Rotate, Call
    <3> QED
      BY <3>1
  <2>9. CASE Depart(c)
    <3> DEFINE q == IF Delivered(c) THEN [call[c] EXCEPT !.at = "delivered"] ELSE NoCall
    <3>1. call' = [call EXCEPT ![c] = q] /\ q.epoch \in {call[c].epoch, 0}
      BY <1>0, <2>0, <2>9 DEF Depart, Call
    <3> QED
      BY <3>1
  <2> QED
    BY <2>4, <2>5, <2>6, <2>7, <2>8, <2>9
<1> QED
  BY <1>1, <1>2, <1>3, CallGoesOn

\* A call archives the tokens of the session, which is of its own epoch: if that
\* is not the current one, no start knows it.
LEMMA PersistClean ==
    ASSUME LoginInv, NEW c \in Calls, Persist(c)
    PROVE  Behind' /\ OwnArchive' /\ Solo' /\ Swept' /\ Over'
<1>0. call \in [Calls -> Call] /\ call[c] \in Call /\ call[c].at = "persisting"
  BY CallFields DEF LoginInv, CodexInv, TypeOK, Persist
<1>1. UNCHANGED <<session, job, oauth>> /\ archive'.epoch = session.epoch
      /\ session # NoSession /\ session.epoch = call[c].epoch
  BY Nothing DEF Persist, Matches
<1>2. \A d \in Calls : call'[d].epoch = call[d].epoch /\ (call'[d].at \notin Idle => call[d].at \notin Idle)
  <2>1. call'[c] = [call[c] EXCEPT !.at = "leaving"] /\ \A d \in Calls : d # c => call'[d] = call[d]
    BY <1>0 DEF Persist, Moves
  <2> QED
    BY <1>0, <2>1 DEF Call, Idle
<1>3. Joins(0)
  BY <1>1, <1>2 DEF Joins
<1>4. Continue
  BY <1>1 DEF Continue, Starting
<1>5. \A i \in Jobs : Starting(i) => job[i].epoch # 0
  BY Epochs DEF LoginInv, Solo, Alone
<1>6. Solo'
  BY <1>1, <1>3, <1>4, <1>5, SoloStays DEF LoginInv
<1>7. Behind'
  <2>1. session'.epoch <= oauth'.epoch /\ archive'.epoch <= oauth'.epoch
    BY <1>1, Epochs
  <2>2. \A i \in Jobs : job'[i].epoch <= oauth'.epoch
    BY <1>1, Epochs
  <2>3. \A d \in Calls : call'[d].epoch <= oauth'.epoch
    BY <1>1, <1>2, Epochs
  <2> QED
    BY <2>1, <2>2, <2>3 DEF Behind
<1>8. OwnArchive'
  BY <1>1 DEF OwnArchive
<1>9. (Settling' => Settling) /\ (Ending' => Ending)
  BY <1>1 DEF Settling, Ending, Answered
<1>10. ASSUME Settling' PROVE session.epoch = oauth.epoch
  <2>1. CleanSession
    BY <1>9, <1>10 DEF LoginInv, Swept
  <2>2. call[c].at \notin Idle
    BY <1>0 DEF Idle
  <2>3. ASSUME session.epoch < oauth.epoch PROVE FALSE
    <3>1. PICK j \in Jobs : Leaving(j) /\ job[j].epoch = session.epoch
      BY <1>1, <2>1, <2>3 DEF CleanSession
    <3> QED
      BY <1>1, <2>2, <3>1 DEF Leaving, Alone
  <2> QED
    BY <2>3, Epochs
<1>11. Swept'
  BY <1>1, <1>10, Epochs DEF Swept, CleanSession, CleanArchive
<1>12. Over'
  BY <1>1, <1>9 DEF LoginInv, Over
<1> QED
  BY <1>6, <1>7, <1>8, <1>11, <1>12

-------------------------------------------------------------------------------
(* At the bridge.                                                          *)

\* Nothing was found and nothing has changed, or the login is still pending.
Same(o, epoch) ==
    /\ o.session = session /\ o.archive = archive
    /\ \/ o.result = "ERROR"
       \/ /\ o.result = "PENDING"
          /\ session # NoSession /\ session.epoch = epoch /\ ~session.authenticated

Gone(o) == o.session = NoSession /\ o.archive = NoArchive

\* There is no session, and none was opened.
Unopened(o) ==
    /\ o.session = NoSession /\ o.archive = archive /\ o.result = "ERROR"
    /\ session = NoSession \/ session.authenticated

\* A login that has succeeded: restored from its archive, or the one of the session.
Succeeded(o, epoch) ==
    /\ o.session.epoch = epoch /\ o.session.authenticated /\ o.archive.epoch = epoch
    /\ o.result \in {"AUTHENTICATED", "ERROR"}
    /\ \/ /\ archive # NoArchive /\ archive.epoch = epoch
          /\ session = NoSession \/ session.authenticated
       \/ session # NoSession /\ session.epoch = epoch

Refreshed(o, epoch) == Same(o, epoch) \/ Gone(o) \/ Unopened(o) \/ Succeeded(o, epoch)

LEMMA OutcomeFields ==
    ASSUME NEW s, NEW a, NEW r
    PROVE  /\ Outcome(s, a, r).session = s /\ Outcome(s, a, r).archive = a
           /\ Outcome(s, a, r).result = r
BY DEF Outcome

LEMMA FaultyFields ==
    ASSUME NEW kind, NEW s, NEW a, NEW r, NEW t, NEW b, NEW q,
           NEW p \in Faulty(kind, {Outcome(s, a, r), Outcome(t, b, q)})
    PROVE  \/ p.session = s /\ p.archive = a /\ p.result = r
           \/ p.session = t /\ p.archive = b /\ p.result = q
<1>1. PICK o \in {Outcome(s, a, r), Outcome(t, b, q)} : p = [o EXCEPT !.faults = faults + 1]
  BY DEF Faulty
<1> QED
  BY <1>1 DEF Outcome

LEMMA NoneUnstopped ==
    ASSUME Untroubled
    PROVE  Unstopped = {} /\ \A S : Faulty("close", S) = {}
BY DEF Unstopped, Faulty, May, Untroubled

LEMMA ReadsCases ==
    ASSUME NEW s, s \in Session, NEW o \in Reads(s)
    PROVE  \/ /\ o.session.epoch = s.epoch /\ o.session.authenticated
              /\ o.archive.epoch = IF s.authenticated THEN archive.epoch ELSE s.epoch
              /\ o.result = "AUTHENTICATED"
           \/ o.session = s /\ o.archive = archive /\ o.result = "ERROR"
           \/ Gone(o)
<1> DEFINE first == [login |-> s.login, epoch |-> s.epoch, gen |-> 1]
           known == [s EXCEPT !.authenticated = TRUE]
           kept == IF s.authenticated THEN archive ELSE first
<1>1. known.epoch = s.epoch /\ known.authenticated
  BY DEF Session
<1>2. kept.epoch = IF s.authenticated THEN archive.epoch ELSE s.epoch
  OBVIOUS
<1>3. \/ o = Outcome(known, kept, "AUTHENTICATED")
      \/ o \in Faulty("rpc", {Outcome(s, archive, "ERROR"),
                              Outcome(NoSession, NoArchive, "SIGNED_OUT")})
  BY DEF Reads
<1> HIDE DEF known, kept
<1> QED
  BY <1>1, <1>2, <1>3, OutcomeFields, FaultyFields DEF Gone

LEMMA RefreshCases ==
    ASSUME LoginInv, NEW epoch \in Nat, NEW rev \in Nat, NEW o \in Refreshes(epoch, rev)
    PROVE  Refreshed(o, epoch)
<1>0. session \in Session /\ archive \in Archive /\ (session.login = 0 => session = NoSession)
  BY Counts DEF LoginInv, CodexInv, Opened
<1>1. Unstopped = {} /\ \A S : Faulty("close", S) = {}
  BY NoneUnstopped DEF LoginInv
<1>2. CASE Reopened(epoch, rev) = NoSession
  <2>1. session = NoSession \/ session.authenticated
    BY <1>2 DEF Reopened
  <2>2. \/ Restorable(epoch) /\ o \in Reads(Restored(epoch, rev))
        \/ o \in Faulty("rpc", {Outcome(NoSession, archive, "ERROR")})
        \/ o = Outcome(NoSession, archive, "ERROR")
    BY <1>1, <1>2 DEF Refreshes
  <2>3. CASE o = Outcome(NoSession, archive, "ERROR")
    BY <2>1, <2>3, OutcomeFields DEF Refreshed, Unopened
  <2>4. CASE o \in Faulty("rpc", {Outcome(NoSession, archive, "ERROR")})
    <3>1. o \in Faulty("rpc", {Outcome(NoSession, archive, "ERROR"),
                               Outcome(NoSession, archive, "ERROR")})
      BY <2>4
    <3>2. o.session = NoSession /\ o.archive = archive /\ o.result = "ERROR"
      BY <3>1, FaultyFields
    <3> QED
      BY <2>1, <3>2 DEF Refreshed, Unopened
  <2>5. CASE Restorable(epoch) /\ o \in Reads(Restored(epoch, rev))
    <3>1. /\ Restored(epoch, rev) \in Session /\ Restored(epoch, rev).epoch = epoch
          /\ Restored(epoch, rev).authenticated = TRUE
      BY <1>0, ArchiveFields DEF Restored, Session
    <3>2. archive.epoch = epoch /\ archive # NoArchive
      BY <2>5, Nothing DEF Restorable
    <3>3. \/ /\ o.session.epoch = epoch /\ o.session.authenticated
             /\ o.archive.epoch = epoch
             /\ o.result \in {"AUTHENTICATED", "ERROR"}
          \/ Gone(o)
      BY <2>5, <3>1, <3>2, ReadsCases
    <3> QED
      BY <2>1, <3>2, <3>3 DEF Refreshed, Succeeded
  <2> QED
    BY <2>2, <2>3, <2>4, <2>5
<1>3. CASE Reopened(epoch, rev) # NoSession
  <2>1. session # NoSession
    BY <1>3 DEF Reopened
  <2>2. CASE session.epoch # epoch \/ session.rev # rev
    BY <1>3, <2>2, OutcomeFields DEF Refreshes, Refreshed, Same
  <2>3. CASE session.epoch = epoch /\ session.rev = rev
    <3>1. \/ o \in Reads(session)
          \/ ~session.authenticated /\ o = Outcome(session, archive, "PENDING")
          \/ o \in Discarded("ERROR") \cup Discarded("EXPIRED")
      BY <1>3, <2>3 DEF Refreshes
    <3>2. CASE o \in Reads(session)
      <4>1. session.authenticated => archive.epoch = epoch
        BY <2>3 DEF LoginInv, OwnArchive
      <4>2. \/ /\ o.session.epoch = epoch /\ o.session.authenticated
               /\ o.archive.epoch = epoch
               /\ o.result = "AUTHENTICATED"
            \/ o.session = session /\ o.archive = archive /\ o.result = "ERROR"
            \/ Gone(o)
        BY <1>0, <2>3, <3>2, <4>1, ReadsCases
      <4> QED
        BY <2>1, <2>3, <4>2 DEF Refreshed, Succeeded, Same
    <3>3. CASE ~session.authenticated /\ o = Outcome(session, archive, "PENDING")
      BY <2>1, <2>3, <3>3, OutcomeFields DEF Refreshed, Same
    <3>4. CASE o \in Discarded("ERROR") \cup Discarded("EXPIRED")
      BY <1>1, <3>4, OutcomeFields DEF Refreshed, Gone, Discarded
    <3> QED
      BY <3>1, <3>2, <3>3, <3>4
  <2> QED
    BY <2>2, <2>3
<1> QED
  BY <1>2, <1>3

\* A login that is being started, with no archive of another session, or none.
LEMMA StartCases ==
    ASSUME Untroubled, NEW epoch, NEW rev, NEW o \in Starts(epoch, rev)
    PROVE  /\ o.archive = NoArchive \/ (o.archive = archive /\ session = NoSession)
           /\ \/ /\ o.session.epoch = epoch /\ o.session.authenticated = FALSE
                 /\ o.result = "PENDING"
              \/ o.session = NoSession /\ o.result = "ERROR"
<1> DEFINE forgotten == IF session = NoSession THEN archive ELSE NoArchive
           fresh == [login |-> logins + 1, epoch |-> epoch, rev |-> rev, authenticated |-> FALSE]
<1>1. \/ o = Outcome(fresh, forgotten, "PENDING")
      \/ o \in Faulty("rpc", {Outcome(NoSession, forgotten, "ERROR"),
                              Outcome(NoSession, NoArchive, "ERROR")})
  BY NoneUnstopped DEF Starts
<1>2. fresh.epoch = epoch /\ fresh.authenticated = FALSE
  OBVIOUS
<1>3. forgotten = NoArchive \/ (forgotten = archive /\ session = NoSession)
  OBVIOUS
<1> HIDE DEF fresh, forgotten
<1> QED
  BY <1>1, <1>2, <1>3, OutcomeFields, FaultyFields

LEMMA EndCases ==
    ASSUME Untroubled, NEW result, NEW o \in Ends(result)
    PROVE  Gone(o)
<1>1. \/ o = Outcome(NoSession, NoArchive, result)
      \/ o \in Faulty("rpc", {Outcome(NoSession, NoArchive, "ERROR")})
  BY NoneUnstopped DEF Ends, Discarded
<1>2. CASE o \in Faulty("rpc", {Outcome(NoSession, NoArchive, "ERROR")})
  <2>1. o \in Faulty("rpc", {Outcome(NoSession, NoArchive, "ERROR"),
                             Outcome(NoSession, NoArchive, "ERROR")})
    BY <1>2
  <2> QED
    BY <2>1, FaultyFields DEF Gone
<1> QED
  BY <1>1, <1>2, OutcomeFields DEF Gone

\* What the step of a job at the bridge does to the rows: an answer that the row
\* does not know yet.
LEMMA Answers ==
    ASSUME LoginInv, NEW j \in Jobs, job[j].at = "rpc", NEW r,
           job' = [job EXCEPT ![j].at = "recheck", ![j].result = r],
           UNCHANGED <<oauth, call>>
    PROVE  /\ Solo'
           /\ \A i \in Jobs : job'[i].epoch = job[i].epoch
           /\ \A i \in Jobs : Leaving(i) => Leaving(i)'
           /\ job[j].task = "START" => Leaving(j)'
           /\ Settling' => Settling \/ (job[j].epoch = oauth.epoch /\ r # "ERROR")
           /\ Ending' => Ending \/ (job[j].epoch = oauth.epoch /\ r \in Ended)
<1> DEFINE q == [job[j] EXCEPT !.at = "recheck", !.result = r]
<1>0. /\ job[j] \in Job /\ job \in [Jobs -> Job]
  BY JobFields DEF LoginInv
<1>1. q.task = job[j].task /\ q.epoch = job[j].epoch /\ q.at = "recheck" /\ q.result = r
  BY <1>0 DEF Job
<1>2. job' = [job EXCEPT ![j] = q]
  BY <1>0
<1> HIDE DEF q
<1>3. job'[j] = q /\ \A i \in Jobs : i # j => job'[i] = job[i]
  BY <1>0, <1>2
<1>4. Joins(0)
  BY <1>1, <1>3 DEF Joins
<1>5. Continue
  BY <1>1, <1>3 DEF Continue, Starting, Running
<1>6. \A i \in Jobs : Starting(i) => job[i].epoch # 0
  BY Epochs DEF LoginInv, Solo, Alone
<1>7. Solo'
  BY <1>4, <1>5, <1>6, SoloStays DEF LoginInv
<1>8. \A i \in Jobs : job'[i].epoch = job[i].epoch
  BY <1>1, <1>3
<1>9. \A i \in Jobs : Alone(i) => Alone(i)'
  <2> TAKE i \in Jobs
  <2>1. Alone(i) => job[i].epoch # 0
    BY Epochs DEF Alone
  <2> QED
    BY <1>4, <1>8, <2>1, AloneStays
<1>10. \A i \in Jobs : Leaving(i) => Leaving(i)'
  BY <1>1, <1>3, <1>9 DEF Leaving
<1>11. job[j].task = "START" => Leaving(j)'
  <2>1. job[j].task = "START" => Alone(j)
    BY DEF LoginInv, Solo, Starting, Running
  <2> QED
    BY <1>1, <1>3, <1>9, <2>1 DEF Leaving
<1>12. \A i \in Jobs : i # j => (Answered(i)' <=> Answered(i))
  BY <1>3 DEF Answered
<1>13. Answered(j)' <=> job[j].epoch = oauth.epoch
  BY <1>1, <1>3 DEF Answered
<1>14. Settling' => Settling \/ (job[j].epoch = oauth.epoch /\ r # "ERROR")
  BY <1>1, <1>3, <1>12, <1>13 DEF Settling
<1>15. Ending' => Ending \/ (job[j].epoch = oauth.epoch /\ r \in Ended)
  BY <1>1, <1>3, <1>12, <1>13 DEF Ending
<1> QED
  BY <1>7, <1>8, <1>10, <1>11, <1>14, <1>15

\* The bridge holds nothing of a later epoch than the row.
LEMMA BehindStays ==
    ASSUME LoginInv, UNCHANGED <<oauth, call>>, \A i \in Jobs : job'[i].epoch = job[i].epoch,
           session'.epoch <= oauth.epoch, archive'.epoch <= oauth.epoch
    PROVE  Behind'
BY Epochs DEF Behind

\* Nothing is left at all.
LEMMA GoneClean ==
    session' = NoSession /\ archive' = NoArchive => OwnArchive' /\ Swept' /\ Over'
BY Nothing DEF OwnArchive, Swept, Over, CleanSession, CleanArchive

\* A start leaves a login that nobody has signed in to, to be discarded unless the
\* row wants it.
LEMMA StartClean ==
    ASSUME LoginInv, NEW j \in Jobs, job[j].at = "rpc", job[j].task = "START",
           NEW o \in Starts(job[j].epoch, job[j].rev),
           job' = [job EXCEPT ![j].at = "recheck", ![j].result = o.result],
           session' = o.session, archive' = o.archive, UNCHANGED <<oauth, call>>
    PROVE  Behind' /\ OwnArchive' /\ Solo' /\ Swept' /\ Over'
<1> DEFINE e == job[j].epoch
<1>1. archive' = NoArchive \/ (archive' = archive /\ session = NoSession)
  BY StartCases DEF LoginInv
<1>2. \/ session'.epoch = e /\ session'.authenticated = FALSE /\ o.result = "PENDING"
      \/ session' = NoSession /\ o.result = "ERROR"
  BY StartCases DEF LoginInv
<1>3. session'.authenticated = FALSE
  BY <1>2, Nothing
<1>4. /\ Solo'
      /\ \A i \in Jobs : job'[i].epoch = job[i].epoch
      /\ Leaving(j)'
      /\ Settling' => Settling \/ (e = oauth.epoch /\ o.result # "ERROR")
      /\ Ending' => Ending \/ (e = oauth.epoch /\ o.result \in Ended)
  BY Answers
<1>5. e = oauth.epoch => ~Settling /\ ~Ending
  BY CurrentStart DEF Starting, Running
<1>6. Behind'
  <2>1. NoSession.epoch = 0 /\ NoArchive.epoch = 0
    BY DEF NoSession, NoArchive
  <2>2. session'.epoch <= oauth.epoch /\ archive'.epoch <= oauth.epoch
    BY <1>1, <1>2, <2>1, Epochs
  <2> QED
    BY <1>4, <2>2, BehindStays
<1>7. OwnArchive'
  BY <1>3 DEF OwnArchive
<1>8. ASSUME Settling' PROVE CleanSession' /\ CleanArchive'
  <2>1. CleanSession'
    BY <1>2, <1>3, <1>4 DEF CleanSession
  <2>2. CASE e = oauth.epoch
    <3>1. session'.epoch = oauth.epoch /\ o.result = "PENDING"
      BY <1>2, <1>4, <1>5, <1>8, <2>2
    <3>2. CASE session' # NoSession
      BY <1>3, <2>1, <3>1, <3>2 DEF CleanArchive
    <3>3. CASE session' = NoSession
      <4>1. oauth.epoch = 0
        BY <3>1, <3>3 DEF NoSession
      <4>2. archive'.epoch = 0
        BY <1>1, <4>1, Epochs DEF NoArchive
      <4> QED
        BY <2>1, <4>1, <4>2 DEF CleanArchive
    <3> QED
      BY <3>2, <3>3
  <2>3. CASE e # oauth.epoch
    <3>1. CleanArchive
      BY <1>4, <1>8, <2>3 DEF LoginInv, Swept
    <3> QED
      BY <1>1, <2>1, <3>1 DEF CleanArchive
  <2> QED
    BY <2>2, <2>3
<1>9. Swept'
  BY <1>8 DEF Swept
<1>10. Over'
  <2> SUFFICES ASSUME Ending', session' # NoSession, session'.epoch = oauth'.epoch
               PROVE  FALSE
    BY DEF Over
  <2>1. Ending
    BY <1>2, <1>4 DEF Ended
  <2> QED
    BY <1>2, <1>5, <2>1
<1> QED
  BY <1>4, <1>6, <1>7, <1>9, <1>10

\* A refresh of an epoch that no start is about to discard.
LEMMA RefreshedClean ==
    ASSUME LoginInv, NEW epoch \in Nat, epoch <= oauth.epoch, NEW o, Refreshed(o, epoch),
           session' = o.session, archive' = o.archive, UNCHANGED oauth,
           \A i \in Jobs : Leaving(i) => Leaving(i)' /\ job'[i].epoch = job[i].epoch,
           \A i \in Jobs : Leaving(i) => job[i].epoch # epoch,
           Settling' => Settling \/ (epoch = oauth.epoch /\ o.result # "ERROR"),
           Ending' => Ending \/ (epoch = oauth.epoch /\ o.result \in Ended)
    PROVE  /\ session'.epoch <= oauth.epoch /\ archive'.epoch <= oauth.epoch
           /\ OwnArchive' /\ Swept' /\ Over'
<1>1. NoSession.epoch = 0 /\ NoArchive.epoch = 0 /\ NoSession.authenticated = FALSE
  BY DEF NoSession, NoArchive
<1>2. ASSUME CleanSession, UNCHANGED session PROVE CleanSession'
  BY <1>2 DEF CleanSession
<1>3. CASE Same(o, epoch)
  <2>1. UNCHANGED <<session, archive>>
    BY <1>3 DEF Same
  <2>2. Ending' => Ending
    BY <1>3 DEF Same, Ended
  <2>3. ASSUME Settling' PROVE CleanSession' /\ CleanArchive'
    <3>1. CASE Settling
      BY <1>2, <2>1, <3>1 DEF LoginInv, Swept, CleanArchive
    <3>2. CASE epoch = oauth.epoch /\ o.result # "ERROR"
      <4>1. session # NoSession /\ session.epoch = oauth.epoch /\ ~session.authenticated
        BY <1>3, <3>2 DEF Same
      <4> QED
        BY <2>1, <4>1, Epochs DEF CleanSession, CleanArchive
    <3> QED
      BY <2>3, <3>1, <3>2
  <2> QED
    BY <2>1, <2>2, <2>3, Epochs DEF LoginInv, OwnArchive, Swept, Over
<1>4. CASE Gone(o)
  <2>1. session' = NoSession /\ archive' = NoArchive
    BY <1>4 DEF Gone
  <2> QED
    BY <1>1, <2>1, GoneClean, Epochs
<1>5. CASE Unopened(o)
  <2>1. /\ session' = NoSession /\ archive' = archive /\ o.result = "ERROR"
        /\ session = NoSession \/ session.authenticated
    BY <1>5 DEF Unopened
  <2>2. Settling' => CleanArchive
    BY <2>1 DEF LoginInv, Swept
  <2>3. Settling' => CleanSession' /\ CleanArchive'
    BY <2>1, <2>2 DEF CleanSession, CleanArchive
  <2> QED
    BY <1>1, <2>1, <2>3, Epochs DEF OwnArchive, Swept, Over
<1>6. CASE Succeeded(o, epoch)
  <2>1. /\ session'.epoch = epoch /\ session'.authenticated /\ archive'.epoch = epoch
        /\ o.result \in {"AUTHENTICATED", "ERROR"}
        /\ \/ /\ archive # NoArchive /\ archive.epoch = epoch
              /\ session = NoSession \/ session.authenticated
           \/ session # NoSession /\ session.epoch = epoch
    BY <1>6 DEF Succeeded
  <2>2. ASSUME Settling', epoch < oauth.epoch PROVE FALSE
    <3>1. CleanSession /\ CleanArchive
      BY <2>2, Epochs DEF LoginInv, Swept
    <3>2. CASE archive # NoArchive /\ archive.epoch = epoch /\ (session = NoSession \/ session.authenticated)
      BY <2>2, <3>1, <3>2 DEF CleanArchive
    <3>3. CASE session # NoSession /\ session.epoch = epoch
      BY <2>2, <3>1, <3>3 DEF CleanSession
    <3> QED
      BY <2>1, <3>2, <3>3
  <2>3. Settling' => epoch = oauth.epoch
    BY <2>2, Epochs
  <2>4. Swept'
    BY <2>1, <2>3, Epochs DEF Swept, CleanSession, CleanArchive
  <2> QED
    BY <2>1, <2>4 DEF OwnArchive, Over
<1> QED
  BY <1>3, <1>4, <1>5, <1>6 DEF Refreshed

LEMMA PerformClean ==
    ASSUME LoginInv, NEW j \in Jobs, Perform(j)
    PROVE  Behind' /\ OwnArchive' /\ Solo' /\ Swept' /\ Over'
<1>0. /\ job[j] \in Job /\ job[j].at = "rpc" /\ UNCHANGED <<oauth, call>>
      /\ job[j].epoch \in Nat /\ job[j].epoch <= oauth.epoch /\ job[j].rev \in Nat
      /\ job[j].task \in Tasks
  BY JobFields, Epochs DEF LoginInv, Perform, Job
<1>1. PICK o \in Performs(j) :
        /\ session' = o.session /\ archive' = o.archive
        /\ job' = [job EXCEPT ![j].at = "recheck", ![j].result = o.result]
  BY DEF Perform
<1>2. /\ Solo'
      /\ \A i \in Jobs : job'[i].epoch = job[i].epoch
      /\ \A i \in Jobs : Leaving(i) => Leaving(i)'
      /\ Settling' => Settling \/ (job[j].epoch = oauth.epoch /\ o.result # "ERROR")
      /\ Ending' => Ending \/ (job[j].epoch = oauth.epoch /\ o.result \in Ended)
  BY <1>0, <1>1, Answers
<1>3. CASE job[j].task = "START"
  <2>1. o \in Starts(job[j].epoch, job[j].rev)
    BY <1>1, <1>3 DEF Performs
  <2> QED
    BY <1>0, <1>1, <1>3, <2>1, StartClean
<1>4. CASE job[j].task = "REFRESH"
  <2>1. Refreshed(o, job[j].epoch)
    <3>1. o \in Refreshes(job[j].epoch, job[j].rev)
      BY <1>1, <1>4 DEF Performs
    <3> QED
      BY <1>0, <3>1, RefreshCases
  <2>2. \A i \in Jobs : Leaving(i) => job[i].epoch # job[j].epoch
    BY <1>0, <1>4 DEF Leaving, Alone
  <2>3. /\ session'.epoch <= oauth.epoch /\ archive'.epoch <= oauth.epoch
        /\ OwnArchive' /\ Swept' /\ Over'
    BY <1>0, <1>1, <1>2, <2>1, <2>2, RefreshedClean
  <2> QED
    BY <1>0, <1>2, <2>3, BehindStays
<1>5. CASE job[j].task \in {"CANCEL", "LOGOUT"}
  <2>1. session' = NoSession /\ archive' = NoArchive
    <3>1. o \in Ends("CANCELLED") \cup Ends("SIGNED_OUT")
      BY <1>1, <1>5 DEF Performs
    <3>2. Gone(o)
      BY <3>1, EndCases DEF LoginInv
    <3> QED
      BY <1>1, <3>2 DEF Gone
  <2>2. session'.epoch <= oauth.epoch /\ archive'.epoch <= oauth.epoch
    BY <2>1, Epochs DEF NoSession, NoArchive
  <2> QED
    BY <1>0, <1>2, <2>1, <2>2, GoneClean, BehindStays
<1> QED
  BY <1>0, <1>3, <1>4, <1>5 DEF Tasks

\* A call that finds no session restores the one of its epoch, as a refresh does.
LEMMA IdentifyClean ==
    ASSUME LoginInv, NEW c \in Calls, Identify(c)
    PROVE  Behind' /\ OwnArchive' /\ Solo' /\ Swept' /\ Over'
<1>0. /\ call \in [Calls -> Call] /\ call[c] \in Call /\ call[c].at = "admitted"
      /\ UNCHANGED <<oauth, job>>
      /\ call[c].epoch \in Nat /\ call[c].epoch <= oauth.epoch /\ call[c].rev \in Nat
  BY CallFields, Epochs DEF LoginInv, CodexInv, TypeOK, Identify
<1>1. PICK o \in Identified(c) :
        /\ session' = o.session /\ archive' = o.archive
        /\ \/ call' = [call EXCEPT ![c].at = "home", ![c].login = o.archive.login,
                                   ![c].gen = o.archive.gen]
           \/ call' = [call EXCEPT ![c].at = "leaving", ![c].ok = FALSE]
  BY DEF Identify
<1>2. /\ \A d \in Calls : call'[d].epoch = call[d].epoch
      /\ \A d \in Calls : call'[d].at \notin Idle => call[d].at \notin Idle
  <2>1. \A d \in Calls : d # c => call'[d] = call[d]
    BY <1>0, <1>1
  <2>2. call'[c].epoch = call[c].epoch
    <3>1. CASE call' = [call EXCEPT ![c].at = "home", ![c].login = o.archive.login,
                                    ![c].gen = o.archive.gen]
      <4>1. call'[c] = [call[c] EXCEPT !.at = "home", !.login = o.archive.login,
                                       !.gen = o.archive.gen]
        BY <1>0, <3>1
      <4> QED
        BY <1>0, <4>1 DEF Call
    <3>2. CASE call' = [call EXCEPT ![c].at = "leaving", ![c].ok = FALSE]
      <4>1. call'[c] = [call[c] EXCEPT !.at = "leaving", !.ok = FALSE]
        BY <1>0, <3>2
      <4> QED
        BY <1>0, <4>1 DEF Call
    <3> QED
      BY <1>1, <3>1, <3>2
  <2>3. call[c].at \notin Idle
    BY <1>0 DEF Idle
  <2> QED
    BY <2>1, <2>2, <2>3
<1>3. CASE session # NoSession
  <2>1. UNCHANGED <<session, archive>>
    BY <1>1, <1>3, OutcomeFields DEF Identified
  <2> QED
    BY <1>0, <1>2, <2>1, CallsGoOn
<1>4. CASE session = NoSession
  <2>1. Refreshed(o, call[c].epoch)
    BY <1>0, <1>1, <1>4, RefreshCases DEF Identified
  <2>2. Joins(0)
    BY <1>0, <1>2 DEF Joins
  <2>3. Continue
    BY <1>0 DEF Continue, Starting
  <2>4. \A i \in Jobs : Alone(i) => job[i].epoch # 0 /\ Alone(i)'
    <3> TAKE i \in Jobs
    <3>1. Alone(i) => job[i].epoch # 0
      BY Epochs DEF Alone
    <3> QED
      BY <1>0, <2>2, <3>1, AloneStays
  <2>5. Solo'
    <3>1. \A i \in Jobs : Starting(i) => job[i].epoch # 0
      BY <2>4 DEF LoginInv, Solo
    <3> QED
      BY <1>0, <2>2, <2>3, <3>1, SoloStays DEF LoginInv
  <2>6. \A i \in Jobs : Leaving(i) => Leaving(i)' /\ job'[i].epoch = job[i].epoch
    BY <1>0, <2>4 DEF Leaving
  <2>7. \A i \in Jobs : Leaving(i) => job[i].epoch # call[c].epoch
    BY <1>0 DEF Leaving, Alone, Idle
  <2>8. (Settling' => Settling) /\ (Ending' => Ending)
    BY <1>0 DEF Settling, Ending, Answered
  <2>9. /\ session'.epoch <= oauth.epoch /\ archive'.epoch <= oauth.epoch
        /\ OwnArchive' /\ Swept' /\ Over'
    BY <1>0, <1>1, <2>1, <2>6, <2>7, <2>8, RefreshedClean
  <2>10. Behind'
    BY <1>0, <1>2, <2>9, Epochs DEF Behind
  <2> QED
    BY <2>5, <2>9, <2>10
<1> QED
  BY <1>3, <1>4

\* An orderly stop keeps only a login that is complete.
LEMMA ReloadClean ==
    ASSUME LoginInv, Reload
    PROVE  Behind' /\ OwnArchive' /\ Solo' /\ Swept' /\ Over'
<1>1. /\ UNCHANGED <<oauth, job, call>> /\ session' = NoSession /\ archive' = Preserved
  BY DEF Reload, Fresh
<1>2. NoSession.epoch = 0 /\ NoArchive.epoch = 0 /\ NoSession.authenticated = FALSE
  BY DEF NoSession, NoArchive
<1>3. \/ archive' = NoArchive
      \/ archive' = archive /\ (session = NoSession \/ session.authenticated)
      \/ session # NoSession /\ session.authenticated /\ archive'.epoch = session.epoch
  BY <1>1 DEF Preserved
<1>4. Behind'
  <2>1. session'.epoch <= oauth.epoch /\ archive'.epoch <= oauth.epoch
    BY <1>1, <1>2, <1>3, Epochs
  <2> QED
    BY <1>1, <2>1, BehindStays
<1>5. OwnArchive'
  BY <1>1, <1>2 DEF OwnArchive
<1>6. Solo'
  BY <1>1 DEF LoginInv, Solo, Alone, Starting
<1>7. Settling' => Settling
  BY <1>1 DEF Settling, Answered
<1>8. ASSUME Settling' PROVE CleanSession' /\ CleanArchive'
  <2>1. CleanSession /\ CleanArchive
    BY <1>7, <1>8 DEF LoginInv, Swept
  <2>2. CASE archive' = NoArchive
    BY <1>1, <2>2 DEF CleanSession, CleanArchive
  <2>3. CASE archive' = archive /\ (session = NoSession \/ session.authenticated)
    BY <1>1, <2>1, <2>3 DEF CleanSession, CleanArchive
  <2>4. CASE session # NoSession /\ session.authenticated /\ archive'.epoch = session.epoch
    BY <1>1, <2>1, <2>4 DEF CleanSession, CleanArchive
  <2> QED
    BY <1>3, <2>2, <2>3, <2>4
<1>9. Swept'
  BY <1>8 DEF Swept
<1>10. Over'
  BY <1>1 DEF Over
<1> QED
  BY <1>4, <1>5, <1>6, <1>9, <1>10

LEMMA LoginInit == Untroubled /\ Init => LoginInv
<1> SUFFICES ASSUME Untroubled, Init PROVE LoginInv
  OBVIOUS
<1>1. CodexInv
  BY CodexInit
<1>2. /\ session = NoSession /\ NoSession.epoch = 0 /\ NoSession.authenticated = FALSE
      /\ \A j \in Jobs : job[j].at = "absent" /\ job[j].epoch = 0
      /\ \A c \in Calls : call[c].at = "idle" /\ call[c].epoch = 0
  BY DEF Init, NoSession, NoJob, NoCall
<1>3. \/ oauth.epoch = 0 /\ archive = NoArchive /\ NoArchive.epoch = 0
      \/ oauth.epoch = 1 /\ archive.epoch = 1
  BY DEF Init, NoArchive
<1>4. Behind
  BY <1>2, <1>3 DEF Behind
<1>5. OwnArchive /\ Over /\ CleanSession
  BY <1>2 DEF OwnArchive, Over, CleanSession
<1>6. CleanArchive
  BY <1>3 DEF CleanArchive
<1>7. Solo
  BY <1>2 DEF Solo, Starting, Running
<1> QED
  BY <1>1, <1>4, <1>5, <1>6, <1>7 DEF LoginInv, Swept

LEMMA LoginNext == LoginInv /\ [Next]_vars => LoginInv'
<1> SUFFICES ASSUME LoginInv, [Next]_vars PROVE LoginInv'
  OBVIOUS
<1>1. CodexInv' /\ Untroubled'
  BY CodexNext DEF LoginInv, Untroubled
<1>2. ASSUME NEW j \in Jobs, RequestStep(j) \/ JobStep(j)
      PROVE  Behind' /\ OwnArchive' /\ Solo' /\ Swept' /\ Over'
  BY <1>2, RequestsClean, AuthoriseClean, PerformClean, RefuseClean, RecheckClean,
     DiscardClean, FinishClean DEF JobStep
<1>3. ASSUME NEW c \in Calls, CallStep(c)
      PROVE  Behind' /\ OwnArchive' /\ Solo' /\ Swept' /\ Over'
  BY <1>3, BeginClean, WorkClean, IdentifyClean, PersistClean DEF CallStep, Advance
<1>4. CASE Consent
  <2>1. /\ UNCHANGED <<session, archive, job, call>>
        /\ oauth'.epoch = oauth.epoch /\ oauth'.state = oauth.state /\ oauth'.job = oauth.job
    BY <1>4, OauthTypes DEF Consent, bridge, LoginInv
  <2> QED
    BY <1>1, <2>1, CallsGoOn DEF LoginInv
<1>5. CASE Crash
  BY <1>5 DEF Crash, Fault, May, LoginInv, Untroubled
<1>6. CASE Reload
  BY <1>1, <1>6, ReloadClean DEF LoginInv
<1>7. CASE UNCHANGED vars
  <2>1. UNCHANGED <<session, archive, job, call, oauth>>
    BY <1>7 DEF vars, bridge
  <2> QED
    BY <1>1, <2>1, CallsGoOn DEF LoginInv
<1> QED
  BY <1>1, <1>2, <1>3, <1>4, <1>5, <1>6, <1>7 DEF Next, LoginInv

\* Once all is quiet no start is left to discard anything.
LEMMA QuietIsClean == LoginInv => NoStrayLogin
<1> SUFFICES ASSUME LoginInv, Quiet
             PROVE  /\ oauth.state \in {"PENDING", "AUTHENTICATED"} \cup Ended /\ session # NoSession
                          => session.epoch = oauth.epoch
                    /\ oauth.state \in Ended /\ archive # NoArchive => archive.epoch = oauth.epoch
  BY DEF NoStrayLogin
<1>1. \A j \in Jobs : ~Leaving(j)
  BY DEF Quiet, Underway, Threads, Leaving
<1>2. ASSUME oauth.state \in Settled, session # NoSession PROVE session.epoch = oauth.epoch
  <2>1. CleanSession
    BY <1>2 DEF LoginInv, Swept, Settling
  <2>2. ~(session.epoch < oauth.epoch)
    BY <1>1, <1>2, <2>1 DEF CleanSession
  <2> QED
    BY <2>2, Epochs
<1>3. ASSUME oauth.state \in Ended, archive # NoArchive PROVE archive.epoch = oauth.epoch
  <2>1. CleanArchive
    BY <1>3 DEF LoginInv, Swept, Settling, Settled
  <2>2. session # NoSession /\ session.epoch = oauth.epoch => session.authenticated
    BY <1>3 DEF LoginInv, Over, Ending
  <2>3. ~(archive.epoch < oauth.epoch)
    BY <1>3, <2>1, <2>2 DEF CleanArchive
  <2> QED
    BY <2>3, Epochs
<1> QED
  BY <1>2, <1>3 DEF Settled

\* For any requests, calls, failures of the bridge, cancellations, reloads and
\* deadlines, and however late a superseded job comes to the bridge: when all is
\* quiet the bridge has no session but the one of the row, and a login that has
\* ended has left no archive of another epoch.
THEOREM NothingStrays == Untroubled /\ Spec => []NoStrayLogin
<1>1. Untroubled /\ Spec => []LoginInv
  BY LoginInit, LoginNext, PTL DEF Spec
<1> QED
  BY <1>1, QuietIsClean, PTL
===============================================================================
