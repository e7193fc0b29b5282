--------------------------------- MODULE Access ---------------------------------
(***************************************************************************)
(* The way into the till: first activation, the trial or licence that is   *)
(* verified with the cloud at every start, the time it may be offline, and *)
(* the staff session (electron/activation, services/auth-service.ts,       *)
(* security/session-store.ts, and the screens StartupScreen,               *)
(* ActivationScreen, RuntimeAccessScreen and LoginScreen with the router). *)
(*                                                                         *)
(* The stores on disk and the database outlive a restart; the screens, the *)
(* startup effect and the requests under way do not.  A request reaches    *)
(* the cloud or not, is answered or not, and gives up after 15 seconds,    *)
(* before or after the cloud acted.  A file or the database may fail at    *)
(* any read or write.  The cloud is external: it may allow, deny or refuse *)
(* whatever it is asked, it dates its answers with the clock of the till,  *)
(* and a registration it allows comes with a token.                        *)
(* React's strict mode (src/main.tsx) runs the startup effect twice in     *)
(* development; Boots are its runs and LiveBoot the one that stays         *)
(* mounted.                                                                *)
(***************************************************************************)
EXTENDS Naturals, FiniteSets, Sequences

CONSTANTS
  Boots,        \* runs of the startup effect after a start
  LiveBoot,     \* the run that is not cleaned up at once
  Form,         \* the form submission under way: one at a time, of any form
  Null,         \* nothing
  Graces,       \* offline hours the cloud may return
  DefaultGrace, \* offline hours when it returns none
  Spans,        \* hours of access the cloud may give
  MaxTime,      \* bound on the clock
  MaxSessions,  \* bound on the logins
  MaxRestarts   \* bound on the restarts

ASSUME AccessAssumption ==
  /\ LiveBoot \in Boots /\ Form \notin Boots
  /\ Graces \subseteq Nat /\ IsFiniteSet(Graces)
  /\ DefaultGrace \in Nat /\ Spans \subseteq Nat
  /\ Null \notin Nat
  /\ MaxTime \in Nat /\ MaxSessions \in Nat /\ MaxRestarts \in Nat

VARIABLES
  now,        \* the clock, in hours
  activated,  \* whether the activation store has a record
  kept,       \* the record of the runtime store
  session,    \* currentSession of the session store, or Null
  rows,       \* rows[s]: status of the staff_sessions row of login s
  halfOut,    \* history: sessions whose logout stopped after it had closed their row
  calls,      \* the request to the cloud each boot or form has under way
  pc,         \* where each run of the startup effect is
  view,       \* what the renderer shows and its stores hold
  allowedTill, \* history: how long the cloud has allowed this till to be offline, or Null
  restarts

stored == <<activated, kept, session, rows, halfOut>>
vars == <<now, activated, kept, session, rows, halfOut, calls, pc, view, allowedTill, restarts>>

Times == 0 .. MaxTime
Callers == Boots \cup {Form}

\* RuntimeAccessState: seen is lastOnlineVerifiedAt, until accessExpiresAt.
Record == [token : BOOLEAN, allowed : BOOLEAN, until : Nat \cup {Null},
           seen : Times \cup {Null}, grace : Nat]
NoRecord == [token |-> FALSE, allowed |-> FALSE, until |-> Null, seen |-> Null,
             grace |-> DefaultGrace]

\* What the cloud says of the till, at time at.
Answer == [allowed : BOOLEAN, token : BOOLEAN, until : Nat \cup {Null},
           at : Times, grace : Graces \cup {Null}]
Denied == [allowed |-> FALSE, token |-> FALSE, until |-> Null, at |-> now, grace |-> Null]

\* read is the record as it was when the request was sent.
Call == [op : {"none", "activate", "register", "verify"}, read : Record,
         answer : Answer \cup {Null}]
NoCall == [op |-> "none", read |-> NoRecord, answer |-> Null]
Asked(op, read) == [op |-> op, read |-> read, answer |-> Null]

\* RuntimeStatus; locked is requiresActivation.
Status == [locked : BOOLEAN, offline : BOOLEAN]

\* busy is the loading flag that verification and registration share, failed the notice of
\* the startup screen that startup failed.
View == [route : {"startup", "activation", "runtime", "login", "app"}, activated : BOOLEAN,
         status : Status \cup {Null}, busy : BOOLEAN, session : 1 .. MaxSessions \cup {Null},
         failed : BOOLEAN]
NewView == [route |-> "startup", activated |-> FALSE, status |-> Null, busy |-> FALSE,
            session |-> Null, failed |-> FALSE]

-----------------------------------------------------------------------------
Expired(record) == record.until # Null /\ record.until <= now

GraceValid(record) ==
  /\ record.allowed /\ ~Expired(record)
  /\ record.seen # Null /\ now - record.seen <= record.grace

\* A mutant: there is no default.
NormalizeNoDefault(a, previous) ==
  [token |-> a.token \/ previous.token,
   allowed |-> a.allowed,
   until |-> IF a.until = Null THEN previous.until ELSE a.until,
   seen |-> IF a.allowed THEN a.at ELSE previous.seen,
   grace |-> a.grace]

\* What the answer leaves out is taken from the record before.
Normalize(a, previous) ==
  [token |-> a.token \/ previous.token,
   allowed |-> a.allowed,
   until |-> IF a.until = Null THEN previous.until ELSE a.until,
   seen |-> IF a.allowed THEN a.at ELSE previous.seen,
   grace |-> IF a.grace = Null THEN previous.grace ELSE a.grace]

\* The login screen leaves for the application when a session is there, and the
\* application is only shown when nothing is missing.
Routed(v) ==
  LET locked == v.status = Null \/ v.status.locked
      wanted == IF v.route = "login" /\ v.session # Null THEN "app" ELSE v.route
  IN  [v EXCEPT !.route =
         CASE wanted # "app" -> wanted
           [] wanted = "app" /\ ~v.activated -> "activation"
           [] wanted = "app" /\ v.activated /\ locked -> "runtime"
           [] OTHER -> IF v.session = Null THEN "login" ELSE "app"]

Show(v) == view' = Routed(v)

-----------------------------------------------------------------------------
\* The startup effect: load the activation, verify, restore the session, leave.
At(b, step) == pc[b] = step
Goto(b, step) == pc' = [pc EXCEPT ![b] = step]

\* A mutant: it goes on after it sent an inactive till to the activation screen.
BootLoadGoesOn(b) ==
  /\ At(b, "load")
  /\ Goto(b, "verify")
  /\ Show([view EXCEPT !.activated = activated,
                       !.route = IF activated THEN @ ELSE "activation"])
  /\ UNCHANGED <<now, stored, calls, allowedTill, restarts>>

BootLoad(b) ==
  /\ At(b, "load")
  /\ Goto(b, IF activated THEN "verify" ELSE "done")
  /\ Show([view EXCEPT !.activated = activated,
                       !.route = IF activated THEN @ ELSE "activation"])
  /\ UNCHANGED <<now, stored, calls, allowedTill, restarts>>

\* What a run of the effect does with the status it verified.
Decided(b, status) ==
  /\ Goto(b, IF status.locked THEN "done" ELSE "restore")
  /\ Show([view EXCEPT !.status = status, !.busy = FALSE,
                       !.route = IF status.locked THEN "runtime" ELSE @])

BootVerify(b) ==
  /\ At(b, "verify")
  /\ IF kept.token
     THEN /\ calls' = [calls EXCEPT ![b] = Asked("verify", kept)]
          /\ Goto(b, "asked")
          /\ Show([view EXCEPT !.busy = TRUE])
     ELSE /\ Decided(b, [locked |-> TRUE, offline |-> FALSE])
          /\ UNCHANGED calls
  /\ UNCHANGED <<now, stored, allowedTill, restarts>>

Verified(b) ==
  /\ At(b, "asked")
  /\ calls[b].answer # Null
  /\ LET record == Normalize(calls[b].answer, calls[b].read)
     IN  /\ kept' = record
         /\ Decided(b, [locked |-> ~record.allowed \/ Expired(record),
                        offline |-> FALSE])
  /\ calls' = [calls EXCEPT ![b] = NoCall]
  /\ UNCHANGED <<now, activated, session, rows, halfOut, allowedTill, restarts>>

\* A mutant: an offline start within the grace counts as a verification.
VerifyFailsStamped(b) ==
  /\ At(b, "asked")
  /\ Decided(b, [locked |-> ~GraceValid(calls[b].read), offline |-> TRUE])
  /\ kept' = IF GraceValid(calls[b].read) THEN [calls[b].read EXCEPT !.seen = now] ELSE kept
  /\ calls' = [calls EXCEPT ![b] = NoCall]
  /\ UNCHANGED <<now, activated, session, rows, halfOut, allowedTill, restarts>>

\* Unreachable, timed out, or refused: every error counts as being offline.
VerifyFails(b) ==
  /\ At(b, "asked")
  /\ Decided(b, [locked |-> ~GraceValid(calls[b].read), offline |-> TRUE])
  /\ calls' = [calls EXCEPT ![b] = NoCall]
  /\ UNCHANGED <<now, stored, allowedTill, restarts>>

AfterStartup == IF session = Null THEN "login" ELSE "app"

\* A mutant: either run that is done leaves it to the other.
BootRestoreOnce(b) ==
  /\ At(b, "restore")
  /\ Goto(b, IF view.route = "startup" /\ \A other \in Boots \ {b} : pc[other] = "done"
             THEN AfterStartup ELSE "done")
  /\ Show([view EXCEPT !.session = session])
  /\ UNCHANGED <<now, stored, calls, allowedTill, restarts>>

BootRestore(b) ==
  /\ At(b, "restore")
  /\ Goto(b, IF b = LiveBoot /\ view.route = "startup" THEN AfterStartup ELSE "done")
  /\ Show([view EXCEPT !.session = session])
  /\ UNCHANGED <<now, stored, calls, allowedTill, restarts>>

\* After 700 ms, wherever the screen is by then.
BootLeave(b) ==
  /\ pc[b] \in {"login", "app"}
  /\ Goto(b, "done")
  /\ Show([view EXCEPT !.route = pc[b]])
  /\ UNCHANGED <<now, stored, calls, allowedTill, restarts>>

\* The runtime store cannot be read: that counts as a till that needs registration, and
\* the status shown stays as it was.
BootVerifyFails(b) ==
  /\ At(b, "verify")
  /\ Goto(b, "done")
  /\ Show([view EXCEPT !.busy = FALSE, !.route = "runtime"])
  /\ UNCHANGED <<now, stored, calls, allowedTill, restarts>>

\* The health of the system, the activation or the session cannot be read.  The run ends,
\* and says so if its screen is still there; Retry reads the health again and no more.
BootFails(b) ==
  /\ pc[b] \in {"load", "restore"}
  /\ Goto(b, "done")
  /\ Show([view EXCEPT !.failed = @ \/ (b = LiveBoot /\ view.route = "startup")])
  /\ UNCHANGED <<now, stored, calls, allowedTill, restarts>>

Boot(b) ==
  \/ BootLoad(b) \/ BootVerify(b) \/ BootRestore(b) \/ BootLeave(b)
  \/ BootVerifyFails(b) \/ BootFails(b)

-----------------------------------------------------------------------------
\* The forms of ActivationScreen and RuntimeAccessScreen.
FormHas(op) == calls[Form].op = op
FormAnswered(op) == FormHas(op) /\ calls[Form].answer # Null
FormDone == calls' = [calls EXCEPT ![Form] = NoCall]

SubmitActivation ==
  /\ view.route = "activation" /\ FormHas("none")
  /\ calls' = [calls EXCEPT ![Form] = Asked("activate", NoRecord)]
  /\ UNCHANGED <<now, stored, pc, view, allowedTill, restarts>>

Activate ==
  /\ FormAnswered("activate")
  /\ FormDone
  /\ activated' = TRUE
  /\ Show([view EXCEPT !.activated = TRUE, !.route = "runtime"])
  /\ UNCHANGED <<now, kept, session, rows, halfOut, pc, allowedTill, restarts>>

ActivateFails ==
  /\ FormHas("activate")
  /\ FormDone
  /\ UNCHANGED <<now, stored, pc, view, allowedTill, restarts>>

\* Start Trial or Activate Yearly License.
SubmitRegistration ==
  /\ view.route = "runtime" /\ ~view.busy /\ FormHas("none")
  /\ calls' = [calls EXCEPT ![Form] = Asked("register", NoRecord)]
  /\ Show([view EXCEPT !.busy = TRUE])
  /\ UNCHANGED <<now, stored, pc, allowedTill, restarts>>

\* The record is replaced, whatever it was.
Register ==
  /\ FormAnswered("register")
  /\ FormDone
  /\ LET record == Normalize(calls[Form].answer, NoRecord)
     IN  /\ kept' = record
         /\ Show([view EXCEPT !.status = [locked |-> ~record.allowed, offline |-> FALSE],
                              !.busy = FALSE,
                              !.route = IF record.allowed THEN "login" ELSE @])
  /\ UNCHANGED <<now, activated, session, rows, halfOut, pc, allowedTill, restarts>>

\* A mutant: the button stays disabled.
RegisterFailsBusy ==
  /\ FormHas("register")
  /\ FormDone
  /\ UNCHANGED <<now, stored, pc, view, allowedTill, restarts>>

RegisterFails ==
  /\ FormHas("register")
  /\ FormDone
  /\ Show([view EXCEPT !.busy = FALSE])
  /\ UNCHANGED <<now, stored, pc, allowedTill, restarts>>

\* runtime:clear of the bridge; no screen calls it.
ClearAccess ==
  /\ kept' = NoRecord
  /\ UNCHANGED <<now, activated, session, rows, halfOut, calls, pc, view, allowedTill, restarts>>

Longest == CHOOSE g \in Graces \cup {DefaultGrace} : \A h \in Graces \cup {DefaultGrace} : h <= g

\* The cloud handles a request; whether its answer arrives is another matter.  A refusal
\* is not modelled apart: it has the effects of an answer that never arrives.
CloudActs(c) ==
  /\ calls[c].op # "none" /\ calls[c].answer = Null
  /\ \/ /\ calls[c].op # "activate"
        /\ \E s \in Spans, g \in Graces \cup {Null}, dated \in BOOLEAN :
             LET till == now + (IF g = Null THEN Longest ELSE g)
             IN  /\ calls' = [calls EXCEPT ![c].answer =
                              [allowed |-> TRUE, token |-> calls[c].op = "register", at |-> now,
                               until |-> IF dated THEN now + s ELSE Null, grace |-> g]]
                 /\ allowedTill' = IF allowedTill # Null /\ allowedTill > till
                                   THEN allowedTill ELSE till
     \/ /\ calls' = [calls EXCEPT ![c].answer = Denied]  \* an activation: only that it is answered
        /\ UNCHANGED allowedTill
  /\ UNCHANGED <<now, stored, pc, view, restarts>>

-----------------------------------------------------------------------------
\* The staff session.
Opened == Append(rows, "active")

Login ==
  /\ view.route = "login" /\ Len(rows) < MaxSessions
  /\ rows' = Opened
  /\ session' = Len(Opened)
  /\ Show([view EXCEPT !.session = Len(Opened)])
  /\ UNCHANGED <<now, activated, kept, halfOut, calls, pc, allowedTill, restarts>>

\* The row is committed, and the session or else the remembered terminal cannot be stored:
\* the screen shows the error.
LoginFails ==
  /\ view.route = "login" /\ Len(rows) < MaxSessions
  /\ rows' = Opened
  /\ session' \in {session, Len(Opened)}
  /\ Show([view EXCEPT !.session = Null])
  /\ UNCHANGED <<now, activated, kept, halfOut, calls, pc, allowedTill, restarts>>

Closed == IF session = Null THEN rows ELSE [rows EXCEPT ![session] = "closed"]

\* A mutant: the row is closed, the session is not cleared.
LogoutKeepsSession ==
  /\ view.route = "app"
  /\ rows' = Closed
  /\ Show([view EXCEPT !.session = Null])
  /\ UNCHANGED <<now, activated, kept, session, halfOut, calls, pc, allowedTill, restarts>>

\* The row is closed, the audit row is written and the session is cleared.
Logout ==
  /\ view.route = "app"
  /\ rows' = Closed
  /\ session' = Null
  /\ Show([view EXCEPT !.session = Null])
  /\ UNCHANGED <<now, activated, kept, halfOut, calls, pc, allowedTill, restarts>>

\* Of these only the first is done.
HalfLogout ==
  /\ session # Null
  /\ rows' = Closed
  /\ halfOut' = halfOut \cup {session}

\* One of them fails, the first or a later one: the screen shows the login all the same.
LogoutFails ==
  /\ view.route = "app"
  /\ HalfLogout \/ UNCHANGED <<rows, halfOut>>
  /\ Show([view EXCEPT !.session = Null])
  /\ UNCHANGED <<now, activated, kept, session, calls, pc, allowedTill, restarts>>

-----------------------------------------------------------------------------
\* The program ends, at any moment, and starts again.
Started ==
  /\ restarts < MaxRestarts
  /\ restarts' = restarts + 1
  /\ calls' = [c \in Callers |-> NoCall]
  /\ pc' = [b \in Boots |-> "load"]
  /\ view' = NewView

Restart == Started /\ UNCHANGED <<now, stored, allowedTill>>

\* It ends after the login is committed and before the session is stored.
LoginCutShort ==
  /\ view.route = "login" /\ Len(rows) < MaxSessions
  /\ Started
  /\ rows' = Opened
  /\ UNCHANGED <<now, activated, kept, session, halfOut, allowedTill>>

\* It ends in the middle of a logout.
LogoutCutShort ==
  /\ view.route = "app"
  /\ Started
  /\ HalfLogout
  /\ UNCHANGED <<now, activated, kept, session, allowedTill>>

Tick ==
  /\ now < MaxTime
  /\ now' = now + 1
  /\ UNCHANGED <<stored, calls, pc, view, allowedTill, restarts>>

Init ==
  /\ now = 0
  /\ activated = FALSE /\ kept = NoRecord /\ session = Null /\ rows = <<>> /\ halfOut = {}
  /\ calls = [c \in Callers |-> NoCall]
  /\ pc = [b \in Boots |-> "load"]
  /\ view = NewView
  /\ allowedTill = Null
  /\ restarts = 0

VerifyEnds(b) == Verified(b) \/ VerifyFails(b)
BootSteps == \E b \in Boots : Boot(b) \/ VerifyEnds(b)
FormEnds == Activate \/ ActivateFails \/ Register \/ RegisterFails

Next ==
  \/ BootSteps
  \/ FormEnds
  \/ \E c \in Callers : CloudActs(c)
  \/ SubmitActivation \/ SubmitRegistration \/ ClearAccess
  \/ Login \/ LoginFails \/ Logout \/ LogoutFails
  \/ Restart \/ LoginCutShort \/ LogoutCutShort \/ Tick

Spec == Init /\ [][Next]_vars

-----------------------------------------------------------------------------
TypeOK ==
  /\ now \in Times
  /\ activated \in BOOLEAN
  /\ kept \in Record
  /\ rows \in Seq({"active", "closed"}) /\ Len(rows) <= MaxSessions
  /\ session \in DOMAIN rows \cup {Null}
  /\ halfOut \subseteq DOMAIN rows
  /\ calls \in [Callers -> Call]
  /\ pc \in [Boots -> {"load", "verify", "asked", "restore", "login", "app", "done"}]
  /\ view \in View
  /\ allowedTill \in Nat \cup {Null}
  /\ restarts \in 0 .. MaxRestarts

\* Offline grace follows the cloud: a till that is let in was allowed by the cloud, and one
\* that is let in offline was allowed within the grace before, whatever was lost, refused
\* or answered late, and however often it was restarted.
LetInWithinGrace ==
  [][\A b \in Boots :
       pc[b] # "restore" /\ pc'[b] = "restore" =>
         /\ allowedTill # Null
         /\ view'.status.offline => now <= allowedTill]_vars

\* "Restart opens login/dashboard path only when activation exists" and "Cloud timeout
\* keeps POS locked": a fresh install gets no further than the activation screen, though
\* a timed-out request may have activated the till in the cloud.
PastActivation == view.route \in {"runtime", "login", "app"} => activated

\* The session on screen is the one on disk, the one every request is made under, and its
\* row is open, after failed logins, crashes in a login and restarts: with the one exception
\* of a session whose own logout stopped between closing the row and clearing the file.
\* Nobody looks at the row again, so the next start shows that one.
ShownSessionIsKept ==
  view.session # Null =>
    /\ session = view.session
    /\ rows[session] = "closed" => session \in halfOut

\* The startup screen does not stand still without a word: while it is on display the run
\* of the effect that is to leave it goes on, each of its steps coming to an end, a request
\* by its timeout, or the screen says that startup failed, whatever the other run does.
StartupGoesOn == view.route = "startup" => pc[LiveBoot] # "done" \/ view.failed

\* The buttons of the registration form come back: while they are disabled a request is
\* under way that enables them when it ends, though several requests share the flag.
BusyHasRequest ==
  view.busy => \E c \in Callers : calls[c].op \in {"verify", "register"}
=============================================================================
