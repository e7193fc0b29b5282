----------------------------- MODULE AccessProofs -----------------------------
(***************************************************************************)
(* Theorems about Access, for every number of runs of the startup effect,  *)
(* of logins and of restarts, every clock and whatever the cloud answers.  *)
(***************************************************************************)
EXTENDS Access, DataTheorems

-----------------------------------------------------------------------------
(***************************************************************************)
(* What the operators of the model return.                                 *)
(***************************************************************************)

\* What Show puts on display is what it is asked to, but for the route: only the login
\* screen and the application are redirected, and never back to the startup screen.
LEMMA ShownView ==
  ASSUME NEW v \in View, Show(v)
  PROVE  /\ view' \in View
         /\ view'.activated = v.activated /\ view'.status = v.status
         /\ view'.busy = v.busy /\ view'.session = v.session /\ view'.failed = v.failed
         /\ view'.route = "startup" <=> v.route = "startup"
         /\ view'.route \in {"runtime", "login", "app"} => view'.route = v.route \/ v.activated
<1> DEFINE locked == v.status = Null \/ v.status.locked
           wanted == IF v.route = "login" /\ v.session # Null THEN "app" ELSE v.route
           route == CASE wanted # "app" -> wanted
                      [] wanted = "app" /\ ~v.activated -> "activation"
                      [] wanted = "app" /\ v.activated /\ locked -> "runtime"
                      [] OTHER -> IF v.session = Null THEN "login" ELSE "app"
<1>1. view' = [v EXCEPT !.route = route]
  BY DEF Show, Routed
<1>2. wanted \in {"startup", "activation", "runtime", "login", "app"}
  BY DEF View
<1>3. v.activated \in BOOLEAN /\ locked \in BOOLEAN
  BY DEF View
<1>4. CASE wanted # "app"
  <2>1. route = v.route /\ v.route # "app"
    BY <1>4
  <2>2. view' = v
    BY <1>1, <2>1 DEF View
  <2>3. QED
    BY <2>2
<1>5. CASE wanted = "app"
  <2>1. v.route \in {"login", "app"}
    BY <1>5
  <2>2. /\ ~v.activated => route = "activation"
        /\ v.activated => route \in {"runtime", "login", "app"}
    BY <1>3, <1>5
  <2> HIDE DEF route
  <2>3. QED
    BY <1>1, <1>3, <2>1, <2>2 DEF View
<1>6. QED
  BY <1>4, <1>5

\* There is a longest time the cloud lets a till be offline: among the bounds of all
\* times it may, the least is one of them.
LEMMA LongestGrace ==
  /\ Longest \in Graces \cup {DefaultGrace}
  /\ \A g \in Graces \cup {DefaultGrace} : g <= Longest
<1> DEFINE all == Graces \cup {DefaultGrace}
           Above(g) == {h \in all : g < h}
           counts == {Cardinality(Above(g)) : g \in all}
<1>1. all \subseteq Nat /\ IsFiniteSet(all) /\ DefaultGrace \in all
  BY AccessAssumption, FS_AddElement
<1>2. \A g \in all : IsFiniteSet(Above(g)) /\ Cardinality(Above(g)) \in Nat
  BY <1>1, FS_Subset, FS_CardinalityType
<1>3. counts \subseteq Nat /\ counts # {}
  BY <1>1, <1>2
<1>4. PICK least \in counts : \A n \in counts : ~(n < least)
  <2> HIDE DEF counts
  <2>1. PICK least \in counts : \A n \in counts : least <= n
    BY <1>3, LeastElement
  <2>2. \A n \in counts : ~(n < least)
    BY <1>3, <2>1
  <2>3. QED
    BY <2>2
<1>5. PICK g \in all : least = Cardinality(Above(g))
  BY <1>4
<1>6. \A h \in all : h <= g
  <2> SUFFICES ASSUME NEW h \in all, g < h PROVE FALSE
    BY <1>1
  <2>1. Above(h) \subseteq Above(g) /\ h \in Above(g) /\ h \notin Above(h)
    BY <1>1
  <2>2. IsFiniteSet(Above(g)) /\ Cardinality(Above(g)) \in Nat /\ Cardinality(Above(h)) \in Nat
    BY <1>2
  <2>3. Cardinality(Above(h)) \in counts
    OBVIOUS
  <2> HIDE DEF Above, counts
  <2>4. Cardinality(Above(h)) <= Cardinality(Above(g)) /\ Cardinality(Above(h)) # Cardinality(Above(g))
    BY <2>1, <2>2, FS_Subset
  <2>5. QED
    BY <1>4, <1>5, <2>2, <2>3, <2>4
<1>7. QED
  BY <1>6 DEF Longest

-----------------------------------------------------------------------------
(***************************************************************************)
(* The steps by what they do to the view: each shows a view again or       *)
(* leaves it.                                                              *)
(***************************************************************************)

\* What the cloud answers makes a record of the record before.
LEMMA NormalizedRecord ==
  ASSUME NEW answer \in Answer, NEW previous \in Record
  PROVE  Normalize(answer, previous) \in Record
BY AccessAssumption DEF Normalize, Record, Answer

LEMMA AnswerTypes ==
  ASSUME NEW answer \in Answer
  PROVE  answer.at \in Nat /\ (answer.grace # Null => answer.grace \in Nat)
<1>1. answer.at \in Times /\ answer.grace \in Graces \cup {Null}
  BY DEF Answer
<1>2. Times \subseteq Nat /\ Graces \subseteq Nat
  BY AccessAssumption DEF Times
<1>3. QED
  BY <1>1, <1>2

LEMMA InitialTypes ==
  /\ NoRecord \in Record /\ NoCall \in Call /\ NewView \in View
  /\ \A op \in {"activate", "register", "verify"}, read \in Record : Asked(op, read) \in Call
<1>1. NoRecord \in Record
  BY AccessAssumption DEF NoRecord, Record
<1>2. QED
  BY <1>1 DEF NoCall, Call, Asked, NewView, View

LEMMA TypedInitially == Init => TypeOK
<1> SUFFICES ASSUME Init PROVE TypeOK
  OBVIOUS
<1>1. now \in Times /\ restarts \in 0 .. MaxRestarts
  BY AccessAssumption DEF Init, Times
<1>2. rows \in Seq({"active", "closed"}) /\ Len(rows) <= MaxSessions
  BY AccessAssumption DEF Init
<1>3. /\ session \in DOMAIN rows \cup {Null} /\ allowedTill \in Nat \cup {Null}
      /\ halfOut \subseteq DOMAIN rows
  BY DEF Init
<1>4. activated \in BOOLEAN /\ kept \in Record /\ calls \in [Callers -> Call] /\ view \in View
  BY InitialTypes DEF Init
<1>5. pc \in [Boots -> {"load", "verify", "asked", "restore", "login", "app", "done"}]
  BY DEF Init
<1>6. QED
  BY <1>1, <1>2, <1>3, <1>4, <1>5 DEF TypeOK

-----------------------------------------------------------------------------
(***************************************************************************)
(* The inductive invariant.                                                *)
(***************************************************************************)

\* Whoever is past the activation found a record of it, and records are never removed.
PathActivated ==
  /\ \A b \in Boots : pc[b] \notin {"load", "done"} => activated
  /\ calls[Form].op = "register" => activated
  /\ view.activated => activated
  /\ PastActivation

\* The session on disk is open or half-way logged out, though the one on screen was
\* restored before.
SessionOpen ==
  /\ session # Null /\ rows[session] = "closed" => session \in halfOut
  /\ ShownSessionIsKept

\* The offline time a record gives the till is one the cloud allowed.
Covered(record) ==
  /\ record.grace \in Graces \cup {DefaultGrace}
  /\ record.allowed /\ record.seen # Null =>
       allowedTill # Null /\ record.seen + record.grace <= allowedTill

\* So does an answer on its way; when it names no time, that of the record is used.
Backed(answer) ==
  answer # Null /\ answer.allowed =>
    /\ allowedTill # Null
    /\ answer.at + (IF answer.grace = Null THEN Longest ELSE answer.grace) <= allowedTill

GraceCovered ==
  /\ Covered(kept)
  /\ \A c \in Callers : Covered(calls[c].read) /\ Backed(calls[c].answer)

Inv ==
  TypeOK /\ PathActivated /\ SessionOpen /\ StartupGoesOn /\ BusyHasRequest /\ GraceCovered

LEMMA InvInitially == Init => Inv
<1> SUFFICES ASSUME Init PROVE Inv
  OBVIOUS
<1>1. TypeOK
  BY TypedInitially
<1>2. PathActivated /\ SessionOpen /\ StartupGoesOn /\ BusyHasRequest
  BY AccessAssumption DEF Init, NewView, NoCall, Callers, PathActivated, PastActivation,
       SessionOpen, ShownSessionIsKept, StartupGoesOn, BusyHasRequest
<1>3. GraceCovered
  BY DEF Init, NoCall, NoRecord, GraceCovered, Covered, Backed
<1>4. QED
  BY <1>1, <1>2, <1>3 DEF Inv

Steps == {"load", "verify", "asked", "restore", "login", "app", "done"}

\* What a step of run b of the startup effect has to see to: it moves to step, shows v,
\* stores record and leaves call under way.
BootMoves(b, step, v, record, call) ==
  /\ Goto(b, step) /\ Show(v) /\ kept' = record /\ calls' = [calls EXCEPT ![b] = call]
  /\ UNCHANGED <<now, activated, session, rows, halfOut, allowedTill, restarts>>
  /\ step \in Steps /\ v \in View /\ record \in Record /\ call \in Call
  /\ step \notin {"load", "done"} => activated
  /\ v.activated \/ v.route \in {"runtime", "login", "app"} => activated
  /\ v.session \in {view.session, session}
  /\ v.route = "startup" => view.route = "startup" /\ (b = LiveBoot => step # "done" \/ v.failed)
  /\ view.failed => v.failed
  /\ v.busy => call.op = "verify" \/ (view.busy /\ call.op = calls[b].op)
  /\ Covered(record) /\ Covered(call.read) /\ Backed(call.answer)

LEMMA BootMovesInv ==
  ASSUME Inv, NEW b \in Boots, NEW step, NEW v, NEW record, NEW call,
         BootMoves(b, step, v, record, call)
  PROVE  Inv'
<1>1. /\ view' \in View
      /\ view'.activated = v.activated /\ view'.busy = v.busy
      /\ view'.session = v.session /\ view'.failed = v.failed
      /\ view'.route = "startup" <=> v.route = "startup"
      /\ view'.route \in {"runtime", "login", "app"} => view'.route = v.route \/ v.activated
  BY ShownView DEF BootMoves
<1>2. /\ calls \in [Callers -> Call] /\ calls' \in [Callers -> Call]
      /\ calls'[b] = call /\ \A c \in Callers \ {b} : calls'[c] = calls[c]
      /\ b \in Callers /\ Form # b /\ Form \in Callers
  BY AccessAssumption DEF BootMoves, Inv, TypeOK, Callers
<1>3. /\ pc \in [Boots -> Steps] /\ pc' \in [Boots -> Steps]
      /\ pc'[b] = step /\ \A c \in Boots \ {b} : pc'[c] = pc[c]
  BY DEF BootMoves, Goto, Inv, TypeOK, Steps
<1>4. TypeOK'
  BY <1>1, <1>2, <1>3 DEF BootMoves, Inv, TypeOK, Steps, Times
<1>5. PathActivated'
  BY <1>1, <1>2, <1>3 DEF BootMoves, Inv, PathActivated, PastActivation
<1>6. SessionOpen'
  BY <1>1 DEF BootMoves, Inv, SessionOpen, ShownSessionIsKept
<1>7. StartupGoesOn'
  BY <1>1, <1>3, AccessAssumption DEF BootMoves, Inv, StartupGoesOn
<1>8. BusyHasRequest'
  BY <1>1, <1>2 DEF BootMoves, Inv, BusyHasRequest
<1>9. GraceCovered'
  BY <1>2 DEF BootMoves, Inv, GraceCovered, Covered, Backed
<1>10. QED
  BY <1>4, <1>5, <1>6, <1>7, <1>8, <1>9 DEF Inv

\* The same for a step of a form.
FormMoves(v, record, call) ==
  /\ Show(v) /\ kept' = record /\ calls' = [calls EXCEPT ![Form] = call]
  /\ activated' \in BOOLEAN /\ (activated => activated')
  /\ UNCHANGED <<now, session, rows, halfOut, pc, allowedTill, restarts>>
  /\ v \in View /\ record \in Record /\ call \in Call
  /\ call.op = "register" => activated'
  /\ v.activated \/ v.route \in {"runtime", "login", "app"} => activated'
  /\ v.session = view.session /\ v.failed = view.failed
  /\ v.route = "startup" => view.route = "startup"
  /\ v.busy => call.op = "register" \/ (view.busy /\ calls[Form].op # "register")
  /\ Covered(record) /\ Covered(call.read) /\ Backed(call.answer)

LEMMA FormMovesInv ==
  ASSUME Inv, NEW v, NEW record, NEW call, FormMoves(v, record, call),
         calls[Form].op # "verify"
  PROVE  Inv'
<1>1. /\ view' \in View
      /\ view'.activated = v.activated /\ view'.busy = v.busy
      /\ view'.session = v.session /\ view'.failed = v.failed
      /\ view'.route = "startup" <=> v.route = "startup"
      /\ view'.route \in {"runtime", "login", "app"} => view'.route = v.route \/ v.activated
  BY ShownView DEF FormMoves
<1>2. /\ calls \in [Callers -> Call] /\ calls' \in [Callers -> Call]
      /\ calls'[Form] = call /\ \A c \in Callers \ {Form} : calls'[c] = calls[c]
      /\ Form \in Callers
  BY DEF FormMoves, Inv, TypeOK, Callers
<1>3. pc \in [Boots -> Steps] /\ pc' = pc
  BY DEF FormMoves, Inv, TypeOK, Steps
<1>4. TypeOK'
  BY <1>1, <1>2, <1>3 DEF FormMoves, Inv, TypeOK, Steps, Times
<1>5. PathActivated'
  BY <1>1, <1>2, <1>3 DEF FormMoves, Inv, PathActivated, PastActivation
<1>6. SessionOpen'
  BY <1>1 DEF FormMoves, Inv, SessionOpen, ShownSessionIsKept
<1>7. StartupGoesOn'
  BY <1>1, <1>3 DEF FormMoves, Inv, StartupGoesOn
<1>8. BusyHasRequest'
  BY <1>1, <1>2 DEF FormMoves, Inv, BusyHasRequest
<1>9. GraceCovered'
  BY <1>2 DEF FormMoves, Inv, GraceCovered, Covered, Backed
<1>10. QED
  BY <1>4, <1>5, <1>6, <1>7, <1>8, <1>9 DEF Inv

\* And for a step of the staff, with the session that is kept and the one that is shown.
StaffMoves(v) ==
  /\ Show(v) /\ v \in View
  /\ v = [view EXCEPT !.session = v.session]
  /\ rows' \in Seq({"active", "closed"}) /\ Len(rows') <= MaxSessions
  /\ session' \in DOMAIN rows' \cup {Null}
  /\ halfOut' \subseteq DOMAIN rows'
  /\ session' # Null /\ rows'[session'] = "closed" => session' \in halfOut'
  /\ v.session # Null => session' = v.session
  /\ UNCHANGED <<now, activated, kept, calls, pc, allowedTill, restarts>>

LEMMA StaffMovesInv == ASSUME Inv, NEW v, StaffMoves(v) PROVE Inv'
<1>1. /\ view' \in View
      /\ view'.activated = v.activated /\ view'.busy = v.busy
      /\ view'.session = v.session /\ view'.failed = v.failed
      /\ view'.route = "startup" <=> v.route = "startup"
      /\ view'.route \in {"runtime", "login", "app"} => view'.route = v.route \/ v.activated
  BY ShownView DEF StaffMoves
<1>2. /\ v.activated = view.activated /\ v.busy = view.busy /\ v.route = view.route
      /\ v.failed = view.failed
  BY DEF StaffMoves, Inv, TypeOK, View
<1>3. calls' = calls /\ pc' = pc
  BY DEF StaffMoves
<1>4. TypeOK'
  BY <1>1, <1>3 DEF StaffMoves, Inv, TypeOK, Times
<1>5. PathActivated'
  BY <1>1, <1>2, <1>3 DEF StaffMoves, Inv, PathActivated, PastActivation
<1>6. SessionOpen'
  BY <1>1 DEF StaffMoves, Inv, SessionOpen, ShownSessionIsKept
<1>7. StartupGoesOn'
  BY <1>1, <1>2, <1>3 DEF Inv, StartupGoesOn
<1>8. BusyHasRequest'
  BY <1>1, <1>2, <1>3 DEF Inv, BusyHasRequest
<1>9. GraceCovered'
  BY <1>3 DEF StaffMoves, Inv, GraceCovered, Covered, Backed
<1>10. QED
  BY <1>4, <1>5, <1>6, <1>7, <1>8, <1>9 DEF Inv

-----------------------------------------------------------------------------
(***************************************************************************)
(* Every action keeps the invariant.                                       *)
(***************************************************************************)

LEMMA BootLoadInv == ASSUME Inv, NEW b \in Boots, BootLoad(b) PROVE Inv'
<1> DEFINE v == [view EXCEPT !.activated = activated,
                             !.route = IF activated THEN @ ELSE "activation"]
           step == IF activated THEN "verify" ELSE "done"
<1>1. /\ view \in View /\ activated \in BOOLEAN /\ kept \in Record /\ calls[b] \in Call
      /\ calls' = [calls EXCEPT ![b] = calls[b]]
  BY DEF BootLoad, stored, Inv, TypeOK, Callers
<1>2. /\ v \in View /\ v.activated = activated /\ v.session = view.session
      /\ v.busy = view.busy /\ v.status = view.status /\ v.failed = view.failed
      /\ v.route = IF activated THEN view.route ELSE "activation"
  BY <1>1 DEF View
<1>3. Covered(kept) /\ Covered(calls[b].read) /\ Backed(calls[b].answer)
  BY DEF Inv, GraceCovered, Callers
<1>4. Show(v) /\ Goto(b, step) /\ UNCHANGED <<now, kept, activated, session, rows, halfOut, allowedTill, restarts>>
  BY DEF BootLoad, stored
<1> HIDE DEF v
<1>5. BootMoves(b, step, v, kept, calls[b])
  BY <1>1, <1>2, <1>3, <1>4 DEF BootMoves, Steps, Inv, PathActivated, PastActivation
<1>6. QED
  BY <1>5, BootMovesInv

\* What a run does with a status: it lets the till in when the status is not locked.
LEMMA DecidedInv ==
  ASSUME Inv, NEW b \in Boots, At(b, "asked") \/ At(b, "verify"),
         NEW status \in Status, Decided(b, status),
         NEW record \in Record, kept' = record, Covered(record),
         NEW call \in Call, calls' = [calls EXCEPT ![b] = call],
         Covered(call.read), Backed(call.answer),
         UNCHANGED <<now, activated, session, rows, halfOut, allowedTill, restarts>>
  PROVE  Inv'
<1> DEFINE v == [view EXCEPT !.status = status, !.busy = FALSE,
                             !.route = IF status.locked THEN "runtime" ELSE @]
           step == IF status.locked THEN "done" ELSE "restore"
<1>1. view \in View /\ status.locked \in BOOLEAN
  BY DEF Inv, TypeOK, Status
<1>2. /\ v \in View /\ v.activated = view.activated /\ v.session = view.session
      /\ v.busy = FALSE /\ v.failed = view.failed
      /\ v.route = IF status.locked THEN "runtime" ELSE view.route
  BY <1>1 DEF View
<1>3. Show(v) /\ Goto(b, step)
  BY DEF Decided
<1>4. activated
  BY DEF Inv, PathActivated, At
<1> HIDE DEF v
<1>5. BootMoves(b, step, v, record, call)
  BY <1>1, <1>2, <1>3, <1>4 DEF BootMoves, Steps
<1>6. QED
  BY <1>5, BootMovesInv

LEMMA NoCallFine == Covered(NoRecord) /\ Covered(NoCall.read) /\ Backed(NoCall.answer)
BY DEF Covered, Backed, NoCall, NoRecord

LEMMA BootVerifyInv == ASSUME Inv, NEW b \in Boots, BootVerify(b) PROVE Inv'
<1>1. /\ view \in View /\ kept \in Record /\ calls[b] \in Call
      /\ Covered(kept) /\ Covered(calls[b].read) /\ Backed(calls[b].answer)
      /\ At(b, "verify") /\ UNCHANGED <<now, activated, kept, session, rows, halfOut, allowedTill, restarts>>
  BY DEF BootVerify, stored, Inv, TypeOK, Callers, GraceCovered
<1>2. CASE kept.token
  <2> DEFINE v == [view EXCEPT !.busy = TRUE]
             call == Asked("verify", kept)
  <2>1. /\ v \in View /\ v.activated = view.activated /\ v.session = view.session
        /\ v.route = view.route /\ v.failed = view.failed
    BY <1>1 DEF View
  <2>2. call \in Call /\ call.op = "verify" /\ call.read = kept /\ call.answer = Null
    BY <1>1, InitialTypes DEF Asked
  <2>3. Show(v) /\ Goto(b, "asked") /\ calls' = [calls EXCEPT ![b] = call]
    BY <1>2 DEF BootVerify
  <2>4. Covered(call.read) /\ Backed(call.answer)
    BY <1>1, <2>2 DEF Backed
  <2> HIDE DEF v, call
  <2>5. BootMoves(b, "asked", v, kept, call)
    BY <1>1, <2>1, <2>2, <2>3, <2>4 DEF BootMoves, Steps, Inv, PathActivated, PastActivation, At
  <2>6. QED
    BY <2>5, BootMovesInv
<1>3. CASE ~kept.token
  <2> DEFINE status == [locked |-> TRUE, offline |-> FALSE]
  <2>1. status \in Status
    BY DEF Status
  <2>2. Decided(b, status) /\ calls' = [calls EXCEPT ![b] = calls[b]]
    BY <1>3 DEF BootVerify, Inv, TypeOK, Callers
  <2> HIDE DEF status
  <2>3. QED
    BY <1>1, <2>1, <2>2, DecidedInv
<1>4. QED
  BY <1>2, <1>3

\* A record made of an answer the cloud stands by, and of a record it stood by.
LEMMA NormalizedCovered ==
  ASSUME TypeOK, NEW answer \in Answer, answer # Null, Backed(answer),
         NEW previous \in Record, Covered(previous)
  PROVE  Covered(Normalize(answer, previous))
<1> DEFINE record == Normalize(answer, previous)
<1>1. /\ previous.grace \in Nat /\ previous.grace <= Longest /\ Longest \in Nat
      /\ answer.at \in Nat /\ answer.grace \in Graces \cup {Null}
      /\ Null \notin Nat /\ Graces \subseteq Nat /\ answer.allowed \in BOOLEAN
  BY LongestGrace, AccessAssumption DEF Answer, Record, Times, Covered
<1>2. /\ record.allowed = answer.allowed
      /\ record.seen = IF answer.allowed THEN answer.at ELSE previous.seen
      /\ record.grace = IF answer.grace = Null THEN previous.grace ELSE answer.grace
  BY DEF Normalize
<1>3. record.grace \in Graces \cup {DefaultGrace}
  BY <1>1, <1>2 DEF Covered
<1>4. ASSUME record.allowed
      PROVE  allowedTill # Null /\ record.seen + record.grace <= allowedTill
  <2>1. /\ allowedTill \in Nat
        /\ answer.at + (IF answer.grace = Null THEN Longest ELSE answer.grace) <= allowedTill
    BY <1>2, <1>4 DEF Backed, TypeOK
  <2>2. record.seen = answer.at
    BY <1>2, <1>4
  <2> HIDE DEF record
  <2>3. QED
    BY <1>1, <1>2, <2>1, <2>2
<1> HIDE DEF record
<1>5. QED
  BY <1>3, <1>4 DEF Covered, record

LEMMA VerifiedInv == ASSUME Inv, NEW b \in Boots, Verified(b) PROVE Inv'
<1> DEFINE record == Normalize(calls[b].answer, calls[b].read)
           status == [locked |-> ~record.allowed \/ Expired(record), offline |-> FALSE]
<1>1. calls[b].answer \in Answer /\ calls[b].answer # Null /\ calls[b].read \in Record
  BY DEF Verified, Inv, TypeOK, Callers, Call
<1>2. record \in Record /\ Covered(record)
  BY <1>1, NormalizedRecord, NormalizedCovered DEF Inv, GraceCovered, Callers
<1>3. status \in Status
  BY <1>2 DEF Status, Expired, Record
<1>4. /\ At(b, "asked") /\ kept' = record /\ Decided(b, status)
      /\ calls' = [calls EXCEPT ![b] = NoCall]
      /\ UNCHANGED <<now, activated, session, rows, halfOut, allowedTill, restarts>>
  BY DEF Verified
<1> HIDE DEF record, status
<1>5. QED
  BY <1>2, <1>3, <1>4, NoCallFine, InitialTypes, DecidedInv

LEMMA VerifyFailsInv == ASSUME Inv, NEW b \in Boots, VerifyFails(b) PROVE Inv'
<1> DEFINE status == [locked |-> ~GraceValid(calls[b].read), offline |-> TRUE]
<1>1. status \in Status
  BY DEF Status, GraceValid
<1>2. /\ At(b, "asked") /\ Decided(b, status) /\ calls' = [calls EXCEPT ![b] = NoCall]
      /\ UNCHANGED <<now, kept, activated, session, rows, halfOut, allowedTill, restarts>>
  BY DEF VerifyFails, stored
<1>3. kept \in Record /\ Covered(kept)
  BY DEF Inv, TypeOK, GraceCovered
<1> HIDE DEF status
<1>4. QED
  BY <1>1, <1>2, <1>3, NoCallFine, InitialTypes, DecidedInv

LEMMA BootRestoreInv == ASSUME Inv, NEW b \in Boots, BootRestore(b) PROVE Inv'
<1> DEFINE v == [view EXCEPT !.session = session]
           step == IF b = LiveBoot /\ view.route = "startup" THEN AfterStartup ELSE "done"
<1>1. /\ view \in View /\ kept \in Record /\ calls[b] \in Call
      /\ calls' = [calls EXCEPT ![b] = calls[b]] /\ session \in 1 .. MaxSessions \cup {Null}
  BY AccessAssumption DEF BootRestore, stored, Inv, TypeOK, Callers
<1>2. /\ v \in View /\ v.activated = view.activated /\ v.session = session
      /\ v.busy = view.busy /\ v.route = view.route /\ v.failed = view.failed
  BY <1>1 DEF View
<1>3. Covered(kept) /\ Covered(calls[b].read) /\ Backed(calls[b].answer)
  BY DEF Inv, GraceCovered, Callers
<1>4. /\ Show(v) /\ Goto(b, step) /\ At(b, "restore")
      /\ UNCHANGED <<now, kept, activated, session, rows, halfOut, allowedTill, restarts>>
  BY DEF BootRestore, stored
<1>5. /\ step \in {"login", "app", "done"}
      /\ view.route = "startup" /\ b = LiveBoot => step # "done"
  BY DEF AfterStartup
<1> HIDE DEF v, step
<1>6. BootMoves(b, step, v, kept, calls[b])
  BY <1>1, <1>2, <1>3, <1>4, <1>5 DEF BootMoves, Steps, Inv, PathActivated, PastActivation, At
<1>7. QED
  BY <1>6, BootMovesInv

LEMMA BootLeaveInv == ASSUME Inv, NEW b \in Boots, BootLeave(b) PROVE Inv'
<1> DEFINE v == [view EXCEPT !.route = pc[b]]
<1>1. /\ view \in View /\ kept \in Record /\ calls[b] \in Call
      /\ calls' = [calls EXCEPT ![b] = calls[b]] /\ pc[b] \in {"login", "app"}
  BY DEF BootLeave, stored, Inv, TypeOK, Callers
<1>2. /\ v \in View /\ v.activated = view.activated /\ v.session = view.session
      /\ v.busy = view.busy /\ v.route = pc[b] /\ v.failed = view.failed
  BY <1>1 DEF View
<1>3. Covered(kept) /\ Covered(calls[b].read) /\ Backed(calls[b].answer)
  BY DEF Inv, GraceCovered, Callers
<1>4. Show(v) /\ Goto(b, "done")
      /\ UNCHANGED <<now, kept, activated, session, rows, halfOut, allowedTill, restarts>>
  BY DEF BootLeave, stored
<1> HIDE DEF v
<1>5. BootMoves(b, "done", v, kept, calls[b])
  BY <1>1, <1>2, <1>3, <1>4 DEF BootMoves, Steps, Inv, PathActivated
<1>6. QED
  BY <1>5, BootMovesInv

LEMMA BootVerifyFailsInv == ASSUME Inv, NEW b \in Boots, BootVerifyFails(b) PROVE Inv'
<1> DEFINE v == [view EXCEPT !.busy = FALSE, !.route = "runtime"]
<1>1. /\ view \in View /\ kept \in Record /\ calls[b] \in Call
      /\ calls' = [calls EXCEPT ![b] = calls[b]]
  BY DEF BootVerifyFails, stored, Inv, TypeOK, Callers
<1>2. /\ v \in View /\ v.activated = view.activated /\ v.session = view.session
      /\ v.busy = FALSE /\ v.route = "runtime" /\ v.failed = view.failed
  BY <1>1 DEF View
<1>3. Covered(kept) /\ Covered(calls[b].read) /\ Backed(calls[b].answer)
  BY DEF Inv, GraceCovered, Callers
<1>4. /\ Show(v) /\ Goto(b, "done") /\ At(b, "verify")
      /\ UNCHANGED <<now, kept, activated, session, rows, halfOut, allowedTill, restarts>>
  BY DEF BootVerifyFails, stored
<1> HIDE DEF v
<1>5. BootMoves(b, "done", v, kept, calls[b])
  BY <1>1, <1>2, <1>3, <1>4 DEF BootMoves, Steps, Inv, PathActivated, At
<1>6. QED
  BY <1>5, BootMovesInv

LEMMA BootFailsInv == ASSUME Inv, NEW b \in Boots, BootFails(b) PROVE Inv'
<1> DEFINE v == [view EXCEPT !.failed = @ \/ (b = LiveBoot /\ view.route = "startup")]
<1>1. /\ view \in View /\ kept \in Record /\ calls[b] \in Call
      /\ calls' = [calls EXCEPT ![b] = calls[b]]
  BY DEF BootFails, stored, Inv, TypeOK, Callers
<1>2. /\ v \in View /\ v.activated = view.activated /\ v.session = view.session
      /\ v.busy = view.busy /\ v.route = view.route
      /\ v.failed = (view.failed \/ (b = LiveBoot /\ view.route = "startup"))
  BY <1>1 DEF View
<1>3. Covered(kept) /\ Covered(calls[b].read) /\ Backed(calls[b].answer)
  BY DEF Inv, GraceCovered, Callers
<1>4. Show(v) /\ Goto(b, "done")
      /\ UNCHANGED <<now, kept, activated, session, rows, halfOut, allowedTill, restarts>>
  BY DEF BootFails, stored
<1> HIDE DEF v
<1>5. BootMoves(b, "done", v, kept, calls[b])
  BY <1>1, <1>2, <1>3, <1>4 DEF BootMoves, Steps, Inv, PathActivated, PastActivation
<1>6. QED
  BY <1>5, BootMovesInv

LEMMA RegisterFailsInv == RegisterFails /\ Inv => Inv'
<1> SUFFICES ASSUME RegisterFails, Inv PROVE Inv'
  OBVIOUS
<1> DEFINE v == [view EXCEPT !.busy = FALSE]
<1>1. /\ view \in View /\ kept \in Record /\ Covered(kept) /\ activated \in BOOLEAN
  BY DEF Inv, TypeOK, GraceCovered
<1>2. /\ v \in View /\ v.activated = view.activated /\ v.session = view.session
      /\ v.route = view.route /\ v.busy = FALSE /\ v.failed = view.failed
  BY <1>1 DEF View
<1>3. NoCall \in Call /\ NoCall.op = "none"
  BY InitialTypes DEF NoCall
<1>4. /\ Show(v) /\ calls[Form].op = "register" /\ calls' = [calls EXCEPT ![Form] = NoCall]
      /\ UNCHANGED <<now, activated, kept, session, rows, halfOut, pc, allowedTill, restarts>>
  BY DEF RegisterFails, FormHas, FormDone, stored
<1> HIDE DEF v
<1>5. FormMoves(v, kept, NoCall)
  BY <1>1, <1>2, <1>3, <1>4, NoCallFine DEF FormMoves, Inv, PathActivated, PastActivation
<1>6. QED
  BY <1>4, <1>5, FormMovesInv

\* A step about an activation request that leaves the screen alone.
LEMMA QuietFormInv ==
  ASSUME Inv, calls[Form].op \in {"none", "activate"},
         NEW call \in Call, call.op \in {"none", "activate"},
         Covered(call.read), Backed(call.answer), calls' = [calls EXCEPT ![Form] = call],
         UNCHANGED <<now, stored, pc, view, allowedTill, restarts>>
  PROVE  Inv'
<1>1. /\ calls \in [Callers -> Call] /\ Form \in Callers
      /\ UNCHANGED <<now, activated, kept, session, rows, halfOut, pc, view, allowedTill, restarts>>
  BY DEF stored, Inv, TypeOK, Callers
<1>2. /\ calls' \in [Callers -> Call] /\ calls'[Form] = call
      /\ \A c \in Callers \ {Form} : calls'[c] = calls[c]
  BY <1>1
<1>3. TypeOK'
  BY <1>1, <1>2 DEF Inv, TypeOK, Times
<1>4. PathActivated' /\ SessionOpen' /\ StartupGoesOn'
  BY <1>1, <1>2 DEF Inv, PathActivated, PastActivation, SessionOpen, ShownSessionIsKept,
       StartupGoesOn
<1>5. BusyHasRequest'
  BY <1>1, <1>2 DEF Inv, BusyHasRequest
<1>6. GraceCovered'
  BY <1>1, <1>2 DEF Inv, GraceCovered, Covered, Backed
<1>7. QED
  BY <1>3, <1>4, <1>5, <1>6 DEF Inv

LEMMA SubmitActivationInv == SubmitActivation /\ Inv => Inv'
<1> SUFFICES ASSUME SubmitActivation, Inv PROVE Inv'
  OBVIOUS
<1> DEFINE call == Asked("activate", NoRecord)
<1>1. /\ call \in Call /\ call.op = "activate" /\ call.read = NoRecord /\ call.answer = Null
  BY InitialTypes DEF Asked
<1>2. /\ calls[Form].op = "none" /\ calls' = [calls EXCEPT ![Form] = call]
      /\ UNCHANGED <<now, stored, pc, view, allowedTill, restarts>>
  BY DEF SubmitActivation, FormHas
<1> HIDE DEF call
<1>3. Covered(call.read) /\ Backed(call.answer)
  BY <1>1, NoCallFine DEF Backed
<1>4. QED
  BY <1>1, <1>2, <1>3, QuietFormInv

LEMMA ActivateFailsInv == ActivateFails /\ Inv => Inv'
<1>1. NoCall \in Call /\ NoCall.op = "none"
  BY InitialTypes DEF NoCall
<1>2. QED
  BY <1>1, NoCallFine, QuietFormInv DEF ActivateFails, FormHas, FormDone

LEMMA ActivateInv == Activate /\ Inv => Inv'
<1> SUFFICES ASSUME Activate, Inv PROVE Inv'
  OBVIOUS
<1> DEFINE v == [view EXCEPT !.activated = TRUE, !.route = "runtime"]
<1>1. /\ view \in View /\ kept \in Record /\ Covered(kept)
  BY DEF Inv, TypeOK, GraceCovered
<1>2. /\ v \in View /\ v.session = view.session /\ v.busy = view.busy /\ v.route = "runtime"
      /\ v.failed = view.failed
  BY <1>1 DEF View
<1>3. /\ Show(v) /\ calls[Form].op = "activate" /\ calls' = [calls EXCEPT ![Form] = NoCall]
      /\ activated' = TRUE /\ UNCHANGED <<now, kept, session, rows, halfOut, pc, allowedTill, restarts>>
  BY DEF Activate, FormAnswered, FormHas, FormDone
<1>4. NoCall \in Call /\ NoCall.op = "none"
  BY InitialTypes DEF NoCall
<1> HIDE DEF v
<1>5. FormMoves(v, kept, NoCall)
  BY <1>1, <1>2, <1>3, <1>4, NoCallFine DEF FormMoves
<1>6. QED
  BY <1>3, <1>5, FormMovesInv

LEMMA SubmitRegistrationInv == SubmitRegistration /\ Inv => Inv'
<1> SUFFICES ASSUME SubmitRegistration, Inv PROVE Inv'
  OBVIOUS
<1> DEFINE v == [view EXCEPT !.busy = TRUE]
           call == Asked("register", NoRecord)
<1>1. /\ call \in Call /\ call.op = "register" /\ call.read = NoRecord /\ call.answer = Null
  BY InitialTypes DEF Asked
<1>2. Covered(call.read) /\ Backed(call.answer)
  BY <1>1, NoCallFine DEF Backed
<1>3. /\ view \in View /\ kept \in Record /\ Covered(kept) /\ activated \in BOOLEAN
      /\ view.route = "runtime" /\ calls[Form].op = "none" /\ activated
  BY DEF SubmitRegistration, FormHas, Inv, TypeOK, GraceCovered, PathActivated, PastActivation
<1>4. /\ v \in View /\ v.session = view.session /\ v.route = view.route
      /\ v.failed = view.failed
  BY <1>3 DEF View
<1>5. /\ Show(v) /\ calls' = [calls EXCEPT ![Form] = call]
      /\ UNCHANGED <<now, activated, kept, session, rows, halfOut, pc, allowedTill, restarts>>
  BY DEF SubmitRegistration, stored
<1> HIDE DEF v, call
<1>6. FormMoves(v, kept, call)
  BY <1>1, <1>2, <1>3, <1>4, <1>5 DEF FormMoves
<1>7. QED
  BY <1>3, <1>6, FormMovesInv

LEMMA RegisterInv == Register /\ Inv => Inv'
<1> SUFFICES ASSUME Register, Inv PROVE Inv'
  OBVIOUS
<1> DEFINE record == Normalize(calls[Form].answer, NoRecord)
           v == [view EXCEPT !.status = [locked |-> ~record.allowed, offline |-> FALSE],
                             !.busy = FALSE,
                             !.route = IF record.allowed THEN "login" ELSE @]
<1>1. /\ calls[Form].answer \in Answer /\ calls[Form].answer # Null
      /\ calls[Form].op = "register" /\ Backed(calls[Form].answer)
  BY DEF Register, FormAnswered, FormHas, Inv, TypeOK, Callers, Call, GraceCovered
<1>2. record \in Record /\ Covered(record)
  BY <1>1, InitialTypes, NoCallFine, NormalizedRecord, NormalizedCovered DEF Inv
<1>3. view \in View /\ activated /\ activated \in BOOLEAN /\ record.allowed \in BOOLEAN
  BY <1>1, <1>2 DEF Inv, TypeOK, PathActivated, Record
<1>4. /\ Show(v) /\ kept' = record /\ calls' = [calls EXCEPT ![Form] = NoCall]
      /\ UNCHANGED <<now, activated, session, rows, halfOut, pc, allowedTill, restarts>>
  BY DEF Register, FormDone
<1>5. NoCall \in Call /\ NoCall.op = "none"
  BY InitialTypes DEF NoCall
<1> HIDE DEF record
<1>6. /\ v \in View /\ v.session = view.session /\ v.busy = FALSE /\ v.failed = view.failed
      /\ v.route = IF record.allowed THEN "login" ELSE view.route
  BY <1>3 DEF View, Status
<1> HIDE DEF v
<1>7. FormMoves(v, record, NoCall)
  BY <1>2, <1>3, <1>4, <1>5, <1>6, NoCallFine DEF FormMoves
<1>8. QED
  BY <1>1, <1>7, FormMovesInv

\* The cloud's answer is typed, and the till was allowed at least what it says.
LEMMA CloudActsInv == ASSUME Inv, NEW c \in Callers, CloudActs(c) PROVE Inv'
<1>1. /\ calls \in [Callers -> Call] /\ now \in Times /\ allowedTill \in Nat \cup {Null}
      /\ UNCHANGED <<now, activated, kept, session, rows, halfOut, pc, view, restarts>>
  BY DEF CloudActs, stored, Inv, TypeOK
<1>2. now \in Nat /\ Longest \in Nat
  BY <1>1, LongestGrace, AccessAssumption DEF Times
<1>3. PICK answer \in Answer :
        /\ calls' = [calls EXCEPT ![c].answer = answer]
        /\ allowedTill' \in Nat \cup {Null}
        /\ allowedTill # Null => allowedTill' # Null /\ allowedTill <= allowedTill'
        /\ answer.allowed =>
             /\ allowedTill' # Null
             /\ answer.at + (IF answer.grace = Null THEN Longest ELSE answer.grace) <= allowedTill'
  <2>1. CASE \E s \in Spans, g \in Graces \cup {Null}, dated \in BOOLEAN :
               LET till == now + (IF g = Null THEN Longest ELSE g)
               IN  /\ calls' = [calls EXCEPT ![c].answer =
                                [allowed |-> TRUE, token |-> calls[c].op = "register", at |-> now,
                                 until |-> IF dated THEN now + s ELSE Null, grace |-> g]]
                   /\ allowedTill' = IF allowedTill # Null /\ allowedTill > till
                                     THEN allowedTill ELSE till
    <3>1. PICK s \in Spans, g \in Graces \cup {Null}, dated \in BOOLEAN :
            LET till == now + (IF g = Null THEN Longest ELSE g)
            IN  /\ calls' = [calls EXCEPT ![c].answer =
                             [allowed |-> TRUE, token |-> calls[c].op = "register", at |-> now,
                              until |-> IF dated THEN now + s ELSE Null, grace |-> g]]
                /\ allowedTill' = IF allowedTill # Null /\ allowedTill > till
                                  THEN allowedTill ELSE till
      BY <2>1
    <3> DEFINE answer == [allowed |-> TRUE, token |-> calls[c].op = "register", at |-> now,
                          until |-> IF dated THEN now + s ELSE Null, grace |-> g]
               till == now + (IF g = Null THEN Longest ELSE g)
    <3>2. s \in Nat /\ (g # Null => g \in Nat) /\ Null \notin Nat
      BY AccessAssumption
    <3>3. till \in Nat
      BY <1>2, <3>2
    <3>4. answer \in Answer
      BY <1>1, <1>2, <3>2 DEF Answer
    <3>5. /\ allowedTill' \in Nat /\ till <= allowedTill'
          /\ allowedTill # Null => allowedTill <= allowedTill'
      <4> HIDE DEF till
      <4>1. allowedTill' = IF allowedTill # Null /\ allowedTill > till THEN allowedTill ELSE till
        BY <3>1 DEF till
      <4>2. QED
        BY <1>1, <3>3, <4>1
    <3>6. calls' = [calls EXCEPT ![c].answer = answer]
      BY <3>1
    <3>7. answer.at + (IF answer.grace = Null THEN Longest ELSE answer.grace) = till
      OBVIOUS
    <3> HIDE DEF answer, till
    <3>8. QED
      BY <3>2, <3>4, <3>5, <3>6, <3>7
  <2>2. CASE calls' = [calls EXCEPT ![c].answer = Denied] /\ UNCHANGED allowedTill
    <3>1. Denied \in Answer /\ ~Denied.allowed
      BY <1>1 DEF Denied, Answer
    <3>2. allowedTill # Null => allowedTill <= allowedTill
      BY <1>1
    <3>3. QED
      BY <1>1, <2>2, <3>1, <3>2
  <2>3. QED
    BY <2>1, <2>2 DEF CloudActs
<1>4. /\ calls' \in [Callers -> Call] /\ calls'[c].answer = answer
      /\ \A d \in Callers : calls'[d].op = calls[d].op /\ calls'[d].read = calls[d].read
      /\ \A d \in Callers \ {c} : calls'[d] = calls[d]
  BY <1>1, <1>3 DEF Call
<1>5. TypeOK'
  BY <1>1, <1>3, <1>4 DEF Inv, TypeOK, Times
<1>6. PathActivated' /\ SessionOpen' /\ StartupGoesOn'
  BY <1>1, <1>4 DEF Inv, PathActivated, PastActivation, SessionOpen, ShownSessionIsKept,
       StartupGoesOn, Callers
<1>7. BusyHasRequest'
  BY <1>1, <1>4 DEF Inv, BusyHasRequest
<1>8. GraceCovered'
  <2>1. ASSUME NEW record \in Record, Covered(record)
        PROVE  Covered(record)'
    <3>1. record.grace \in Nat /\ (record.seen # Null => record.seen \in Nat)
      BY AccessAssumption DEF Record, Times
    <3>2. QED
      BY <1>1, <1>3, <2>1, <3>1 DEF Covered
  <2>2. ASSUME NEW d \in Callers
        PROVE  Covered(calls[d].read)' /\ Backed(calls[d].answer)'
    <3>1. calls[d].read \in Record /\ Covered(calls[d].read)
      BY <1>1 DEF Call, Inv, GraceCovered
    <3>2. Covered(calls[d].read)'
      BY <1>4, <2>1, <3>1 DEF Covered
    <3>3. CASE d = c
      BY <1>3, <1>4, <3>2, <3>3 DEF Backed
    <3>4. CASE d # c /\ calls[d].answer # Null
      <4> DEFINE a == calls[d].answer
                 end == a.at + (IF a.grace = Null THEN Longest ELSE a.grace)
      <4>1. a \in Answer
        BY <1>1, <3>4 DEF Call
      <4>2. end \in Nat
        <5>1. a.at \in Nat /\ (a.grace # Null => a.grace \in Nat)
          BY <4>1, AnswerTypes
        <5> HIDE DEF a
        <5>2. QED
          BY <1>2, <5>1
      <4>3. calls'[d].answer = a /\ Backed(a)
        BY <1>4, <3>4 DEF Inv, GraceCovered
      <4>4. a.allowed => allowedTill # Null /\ end <= allowedTill
        BY <3>4, <4>3 DEF Backed
      <4> HIDE DEF a, end
      <4>5. a.allowed => allowedTill' # Null /\ end <= allowedTill'
        BY <1>1, <1>3, <4>2, <4>4
      <4>6. QED
        BY <3>2, <4>3, <4>5 DEF Backed, end, Longest
    <3>5. CASE d # c /\ calls[d].answer = Null
      BY <1>4, <3>2, <3>5 DEF Backed
    <3>6. QED
      BY <3>2, <3>3, <3>4, <3>5
  <2>3. kept \in Record /\ Covered(kept) /\ kept' = kept
    BY <1>1 DEF Inv, TypeOK, GraceCovered
  <2>4. Covered(kept)'
    BY <2>1, <2>3 DEF Covered
  <2>5. QED
    BY <2>2, <2>4 DEF GraceCovered
<1>9. QED
  BY <1>5, <1>6, <1>7, <1>8 DEF Inv

LEMMA ClearAccessInv == ClearAccess /\ Inv => Inv'
<1> SUFFICES ASSUME ClearAccess, Inv PROVE Inv'
  OBVIOUS
<1>1. /\ kept' = NoRecord /\ NoRecord \in Record
      /\ UNCHANGED <<now, activated, session, rows, halfOut, calls, pc, view, allowedTill, restarts>>
  BY InitialTypes DEF ClearAccess
<1>2. TypeOK'
  BY <1>1 DEF Inv, TypeOK, Times
<1>3. PathActivated' /\ SessionOpen' /\ StartupGoesOn' /\ BusyHasRequest'
  BY <1>1 DEF Inv, PathActivated, PastActivation, SessionOpen, ShownSessionIsKept,
       StartupGoesOn, BusyHasRequest
<1>4. GraceCovered'
  BY <1>1, NoCallFine DEF Inv, GraceCovered, Covered, Backed
<1>5. QED
  BY <1>2, <1>3, <1>4 DEF Inv

\* A login adds an open row.
LEMMA OpenedRows ==
  ASSUME TypeOK, Len(rows) < MaxSessions
  PROVE  /\ Opened \in Seq({"active", "closed"}) /\ Len(Opened) \in 1 .. MaxSessions
         /\ Len(Opened) \in DOMAIN Opened /\ Opened[Len(Opened)] = "active"
         /\ DOMAIN rows \subseteq DOMAIN Opened /\ \A s \in DOMAIN rows : Opened[s] = rows[s]
BY AccessAssumption DEF TypeOK, Opened

LEMMA LoginInv == Login /\ Inv => Inv'
<1> SUFFICES ASSUME Login, Inv PROVE Inv'
  OBVIOUS
<1> DEFINE v == [view EXCEPT !.session = Len(Opened)]
<1>1. /\ rows' = Opened /\ session' = Len(Opened) /\ Show(v) /\ Len(rows) < MaxSessions
      /\ UNCHANGED <<now, activated, kept, halfOut, calls, pc, allowedTill, restarts>>
  BY DEF Login
<1>2. /\ Opened \in Seq({"active", "closed"}) /\ Len(Opened) \in 1 .. MaxSessions
      /\ Len(Opened) \in DOMAIN Opened /\ Opened[Len(Opened)] = "active"
      /\ halfOut \subseteq DOMAIN Opened
  BY <1>1, OpenedRows DEF Inv, TypeOK
<1>3. Len(Opened) <= MaxSessions
  BY <1>2, AccessAssumption
<1>4. v \in View /\ v.session = Len(Opened) /\ v = [view EXCEPT !.session = v.session]
  BY <1>2 DEF Inv, TypeOK, View
<1> HIDE DEF v
<1>5. StaffMoves(v)
  BY <1>1, <1>2, <1>3, <1>4 DEF StaffMoves
<1>6. QED
  BY <1>5, StaffMovesInv

\* A view without a session is put on display.
LEMMA WithoutSession ==
  ASSUME TypeOK
  PROVE  LET v == [view EXCEPT !.session = Null]
         IN  v \in View /\ v.session = Null /\ v = [view EXCEPT !.session = v.session]
BY DEF TypeOK, View

LEMMA LoginFailsInv == LoginFails /\ Inv => Inv'
<1> SUFFICES ASSUME LoginFails, Inv PROVE Inv'
  OBVIOUS
<1> DEFINE v == [view EXCEPT !.session = Null]
<1>1. /\ rows' = Opened /\ session' \in {session, Len(Opened)} /\ Show(v)
      /\ Len(rows) < MaxSessions
      /\ UNCHANGED <<now, activated, kept, halfOut, calls, pc, allowedTill, restarts>>
  BY DEF LoginFails
<1>2. /\ Opened \in Seq({"active", "closed"}) /\ Len(Opened) \in 1 .. MaxSessions
      /\ Len(Opened) \in DOMAIN Opened /\ Opened[Len(Opened)] = "active"
      /\ DOMAIN rows \subseteq DOMAIN Opened /\ \A s \in DOMAIN rows : Opened[s] = rows[s]
  BY <1>1, OpenedRows DEF Inv
<1>3. Len(Opened) <= MaxSessions
  BY <1>2, AccessAssumption
<1>4. v \in View /\ v.session = Null /\ v = [view EXCEPT !.session = v.session]
  BY WithoutSession DEF Inv
<1>5. /\ session' \in DOMAIN rows' \cup {Null} /\ halfOut' \subseteq DOMAIN rows'
      /\ session' # Null /\ rows'[session'] = "closed" => session' \in halfOut'
  BY <1>1, <1>2 DEF Inv, TypeOK, SessionOpen
<1> HIDE DEF v
<1>6. StaffMoves(v)
  BY <1>1, <1>2, <1>3, <1>4, <1>5 DEF StaffMoves
<1>7. QED
  BY <1>6, StaffMovesInv

\* Closing a row changes no other one.
LEMMA ClosedRows ==
  ASSUME TypeOK
  PROVE  /\ Closed \in Seq({"active", "closed"}) /\ Len(Closed) = Len(rows)
         /\ DOMAIN Closed = DOMAIN rows
         /\ \A s \in DOMAIN rows : s # session => Closed[s] = rows[s]
BY DEF TypeOK, Closed

LEMMA LogoutInv == Logout /\ Inv => Inv'
<1> SUFFICES ASSUME Logout, Inv PROVE Inv'
  OBVIOUS
<1> DEFINE v == [view EXCEPT !.session = Null]
<1>1. /\ rows' = Closed /\ session' = Null /\ Show(v)
      /\ UNCHANGED <<now, activated, kept, halfOut, calls, pc, allowedTill, restarts>>
  BY DEF Logout
<1>2. v \in View /\ v.session = Null /\ v = [view EXCEPT !.session = v.session]
  BY WithoutSession DEF Inv
<1> HIDE DEF v
<1>3. StaffMoves(v)
  BY <1>1, <1>2, ClosedRows DEF StaffMoves, Inv, TypeOK
<1>4. QED
  BY <1>3, StaffMovesInv

\* A logout that stops half-way puts its session among the exceptions.
LEMMA HalfLogoutRows ==
  ASSUME TypeOK, HalfLogout
  PROVE  /\ rows' \in Seq({"active", "closed"}) /\ Len(rows') <= MaxSessions
         /\ DOMAIN rows' = DOMAIN rows
         /\ \A s \in DOMAIN rows : rows'[s] = rows[s] \/ s \in halfOut'
         /\ halfOut' \subseteq DOMAIN rows /\ halfOut \subseteq halfOut' /\ session \in halfOut'
BY ClosedRows DEF TypeOK, HalfLogout

LEMMA LogoutFailsInv == LogoutFails /\ Inv => Inv'
<1> SUFFICES ASSUME LogoutFails, Inv PROVE Inv'
  OBVIOUS
<1> DEFINE v == [view EXCEPT !.session = Null]
<1>1. Show(v) /\ UNCHANGED <<now, activated, kept, session, calls, pc, allowedTill, restarts>>
  BY DEF LogoutFails
<1>2. v \in View /\ v.session = Null /\ v = [view EXCEPT !.session = v.session]
  BY WithoutSession DEF Inv
<1> HIDE DEF v
<1>3. CASE HalfLogout
  <2>1. /\ rows' \in Seq({"active", "closed"}) /\ Len(rows') <= MaxSessions
        /\ session' \in DOMAIN rows' \cup {Null} /\ halfOut' \subseteq DOMAIN rows'
        /\ session' \in halfOut'
    BY <1>1, <1>3, HalfLogoutRows DEF Inv, TypeOK
  <2>2. StaffMoves(v)
    BY <1>1, <1>2, <2>1 DEF StaffMoves
  <2>3. QED
    BY <2>2, StaffMovesInv
<1>4. CASE UNCHANGED <<rows, halfOut>>
  <2>1. StaffMoves(v)
    BY <1>1, <1>2, <1>4 DEF StaffMoves, Inv, TypeOK, SessionOpen
  <2>2. QED
    BY <2>1, StaffMovesInv
<1>5. QED
  BY <1>3, <1>4 DEF LogoutFails

\* After a start everything in memory is new; what is stored may have one more login, or a
\* row that was closed by a logout that stopped half-way.
LEMMA StartedInv ==
  ASSUME Inv, Started, UNCHANGED <<now, activated, kept, session, allowedTill>>,
         rows' \in Seq({"active", "closed"}), Len(rows') <= MaxSessions,
         DOMAIN rows \subseteq DOMAIN rows',
         halfOut \subseteq halfOut', halfOut' \subseteq DOMAIN rows',
         \A s \in DOMAIN rows : rows'[s] = rows[s] \/ s \in halfOut'
  PROVE  Inv'
<1>1. /\ restarts' \in 0 .. MaxRestarts /\ calls' = [c \in Callers |-> NoCall]
      /\ pc' = [b \in Boots |-> "load"] /\ view' = NewView
  BY AccessAssumption DEF Started, Inv, TypeOK
<1>2. TypeOK'
  BY <1>1, InitialTypes DEF Inv, TypeOK, Times
<1>3. PathActivated' /\ SessionOpen' /\ StartupGoesOn' /\ BusyHasRequest'
  BY <1>1, AccessAssumption DEF Inv, TypeOK, NewView, NoCall, Callers, PathActivated,
       PastActivation, SessionOpen, ShownSessionIsKept, StartupGoesOn, BusyHasRequest
<1>4. GraceCovered'
  BY <1>1, NoCallFine DEF Inv, GraceCovered, Covered, Backed
<1>5. QED
  BY <1>2, <1>3, <1>4 DEF Inv

LEMMA RestartInv == Restart /\ Inv => Inv'
<1> SUFFICES ASSUME Restart, Inv PROVE Inv'
  OBVIOUS
<1>1. Started /\ UNCHANGED <<now, activated, kept, session, rows, halfOut, allowedTill>>
  BY DEF Restart, stored
<1>2. /\ rows \in Seq({"active", "closed"}) /\ Len(rows) <= MaxSessions
      /\ halfOut \subseteq DOMAIN rows
  BY DEF Inv, TypeOK
<1>3. QED
  BY <1>1, <1>2, StartedInv

LEMMA LoginCutShortInv == LoginCutShort /\ Inv => Inv'
<1> SUFFICES ASSUME LoginCutShort, Inv PROVE Inv'
  OBVIOUS
<1>1. /\ Started /\ rows' = Opened /\ Len(rows) < MaxSessions
      /\ UNCHANGED <<now, activated, kept, session, halfOut, allowedTill>>
  BY DEF LoginCutShort
<1>2. Len(Opened) <= MaxSessions /\ halfOut \subseteq DOMAIN rows
  BY <1>1, OpenedRows, AccessAssumption DEF Inv, TypeOK
<1>3. QED
  BY <1>1, <1>2, OpenedRows, StartedInv DEF Inv

LEMMA LogoutCutShortInv == LogoutCutShort /\ Inv => Inv'
<1> SUFFICES ASSUME LogoutCutShort, Inv PROVE Inv'
  OBVIOUS
<1>1. Started /\ HalfLogout /\ UNCHANGED <<now, activated, kept, session, allowedTill>>
  BY DEF LogoutCutShort
<1>2. QED
  BY <1>1, HalfLogoutRows, StartedInv DEF Inv

LEMMA TickInv == Tick /\ Inv => Inv'
<1> SUFFICES ASSUME Tick, Inv PROVE Inv'
  OBVIOUS
<1>1. /\ now' \in Times
      /\ UNCHANGED <<activated, kept, session, rows, halfOut, calls, pc, view, allowedTill, restarts>>
  BY AccessAssumption DEF Tick, stored, Inv, TypeOK, Times
<1>2. TypeOK'
  BY <1>1 DEF Inv, TypeOK, Times
<1>3. QED
  BY <1>1, <1>2 DEF Inv, PathActivated, PastActivation, SessionOpen, ShownSessionIsKept,
       StartupGoesOn, BusyHasRequest, GraceCovered, Covered, Backed

LEMMA InvPreserved == Inv /\ [Next]_vars => Inv'
<1> SUFFICES ASSUME Inv, [Next]_vars PROVE Inv'
  OBVIOUS
<1>1. ASSUME NEW b \in Boots, Boot(b) \/ VerifyEnds(b) PROVE Inv'
  BY <1>1, BootLoadInv, BootVerifyInv, BootRestoreInv, BootLeaveInv, BootVerifyFailsInv,
     BootFailsInv, VerifiedInv, VerifyFailsInv
     DEF Boot, VerifyEnds
<1>2. CASE FormEnds
  BY <1>2, ActivateInv, ActivateFailsInv, RegisterInv, RegisterFailsInv DEF FormEnds
<1>3. ASSUME NEW c \in Callers, CloudActs(c) PROVE Inv'
  BY <1>3, CloudActsInv
<1>4. CASE SubmitActivation \/ SubmitRegistration \/ ClearAccess
  BY <1>4, SubmitActivationInv, SubmitRegistrationInv, ClearAccessInv
<1>5. CASE Login \/ LoginFails \/ Logout \/ LogoutFails
  BY <1>5, LoginInv, LoginFailsInv, LogoutInv, LogoutFailsInv
<1>6. CASE Restart \/ LoginCutShort \/ LogoutCutShort \/ Tick
  BY <1>6, RestartInv, LoginCutShortInv, LogoutCutShortInv, TickInv
<1>7. CASE UNCHANGED vars
  <2>1. UNCHANGED <<now, activated, kept, session, rows, halfOut, calls, pc, view, allowedTill, restarts>>
    BY <1>7 DEF vars
  <2>2. TypeOK'
    BY <2>1 DEF Inv, TypeOK, Times
  <2>3. QED
    BY <2>1, <2>2 DEF Inv, PathActivated, PastActivation, SessionOpen, ShownSessionIsKept,
         StartupGoesOn, BusyHasRequest, GraceCovered, Covered, Backed
<1>8. QED
  BY <1>1, <1>2, <1>3, <1>4, <1>5, <1>6, <1>7 DEF Next, BootSteps

-----------------------------------------------------------------------------
(***************************************************************************)
(* The theorems.                                                           *)
(***************************************************************************)

\* All of it holds in every state.
THEOREM AccessInvariant == Spec => []Inv
<1>1. Init => Inv
  BY InvInitially
<1>2. Inv /\ [Next]_vars => Inv'
  BY InvPreserved
<1>3. QED
  BY <1>1, <1>2, PTL DEF Spec

\* The stores, the requests and the screens of the way into the till have their types.
THEOREM AccessTyped == Spec => []TypeOK
<1>1. Inv => TypeOK
  BY DEF Inv
<1>2. QED
  BY <1>1, AccessInvariant, PTL

\* A fresh install gets no further than the activation screen, whatever the cloud did
\* with a request that timed out (startup effect, ActivationScreen and router).
THEOREM PastActivationAlways == Spec => []PastActivation
<1>1. Inv => PastActivation
  BY DEF Inv, PathActivated
<1>2. QED
  BY <1>1, AccessInvariant, PTL

\* The session on screen is the one on disk, and its row is open unless its own logout
\* stopped half-way, after failed logins, logins cut short and restarts (AuthService and
\* the session store).
THEOREM ShownSessionIsKeptAlways == Spec => []ShownSessionIsKept
<1>1. Inv => ShownSessionIsKept
  BY DEF Inv, SessionOpen
<1>2. QED
  BY <1>1, AccessInvariant, PTL

\* While the startup screen is on display the run of the effect that is to leave it goes on
\* or the screen says that startup failed, whatever the other runs do and whatever cannot
\* be read (StartupScreen).
THEOREM StartupGoesOnAlways == Spec => []StartupGoesOn
<1>1. Inv => StartupGoesOn
  BY DEF Inv
<1>2. QED
  BY <1>1, AccessInvariant, PTL

\* The registration form is disabled only while a request is under way that enables it.
THEOREM BusyHasRequestAlways == Spec => []BusyHasRequest
<1>1. Inv => BusyHasRequest
  BY DEF Inv
<1>2. QED
  BY <1>1, AccessInvariant, PTL

\* Only the answer to a verification, or its failure, takes a run on to restore the
\* session, and then the status shown is the one that was decided.
LEMMA LetInByDecision ==
  ASSUME Inv, Next, NEW b \in Boots, pc[b] # "restore", pc'[b] = "restore"
  PROVE  /\ Verified(b) \/ VerifyFails(b)
         /\ UNCHANGED <<now, allowedTill>>
<1>1. pc \in [Boots -> Steps]
  BY DEF Inv, TypeOK, Steps
<1>2. \A c \in Boots, step \in Steps : Goto(c, step) => step = "restore" /\ c = b
  BY <1>1 DEF Goto
<1>3. pc' # pc /\ ~Started
  BY DEF Started
<1>4. PICK c \in Boots : Boot(c) \/ VerifyEnds(c)
  BY <1>3 DEF Next, BootSteps, FormEnds, Activate, ActivateFails, Register, RegisterFails,
       CloudActs, SubmitActivation, SubmitRegistration, ClearAccess, Login, LoginFails, Logout,
       LogoutFails, Restart, LoginCutShort, LogoutCutShort, Tick
<1>5. ~BootLoad(c)
  BY <1>2 DEF BootLoad, Steps
<1>6. ~BootVerify(c)
  BY <1>2 DEF BootVerify, Decided, Steps
<1>7. ~BootRestore(c)
  BY <1>2 DEF BootRestore, AfterStartup, Steps
<1>8. ~BootLeave(c) /\ ~BootVerifyFails(c) /\ ~BootFails(c)
  BY <1>2 DEF BootLeave, BootVerifyFails, BootFails, Steps
<1>9. c = b
  <2>1. CASE Verified(c)
    <3>1. PICK step \in Steps : Goto(c, step)
      BY <2>1 DEF Verified, Decided, Steps
    <3>2. QED
      BY <1>2, <3>1
  <2>2. CASE VerifyFails(c)
    <3>1. PICK step \in Steps : Goto(c, step)
      BY <2>2 DEF VerifyFails, Decided, Steps
    <3>2. QED
      BY <1>2, <3>1
  <2>3. QED
    BY <1>4, <1>5, <1>6, <1>7, <1>8, <2>1, <2>2 DEF Boot, VerifyEnds
<1>10. QED
  BY <1>4, <1>5, <1>6, <1>7, <1>8, <1>9 DEF Boot, VerifyEnds, Verified, VerifyFails

LetInFairly ==
  \A b \in Boots :
    pc[b] # "restore" /\ pc'[b] = "restore" =>
      /\ allowedTill # Null
      /\ view'.status.offline => now <= allowedTill

LEMMA LetInStep == Inv /\ [Next]_vars => [LetInFairly]_vars
<1> SUFFICES ASSUME Inv, Next, NEW b \in Boots, pc[b] # "restore", pc'[b] = "restore"
             PROVE  allowedTill # Null /\ (view'.status.offline => now <= allowedTill)
  BY DEF LetInFairly
<1>1. pc \in [Boots -> Steps] /\ view \in View /\ now \in Nat /\ allowedTill \in Nat \cup {Null}
  BY AccessAssumption DEF Inv, TypeOK, Steps, Times
<1>2. ASSUME NEW status \in Status, Decided(b, status)
      PROVE  ~status.locked /\ view'.status = status
  <2> DEFINE v == [view EXCEPT !.status = status, !.busy = FALSE,
                               !.route = IF status.locked THEN "runtime" ELSE @]
  <2>1. v \in View /\ v.status = status
    BY <1>1 DEF View, Status
  <2>2. Show(v) /\ ~status.locked
    BY <1>1, <1>2 DEF Decided, Goto, Status
  <2> HIDE DEF v
  <2>3. QED
    BY <2>1, <2>2, ShownView
<1>3. CASE Verified(b)
  <2> DEFINE record == Normalize(calls[b].answer, calls[b].read)
             status == [locked |-> ~record.allowed \/ Expired(record), offline |-> FALSE]
  <2>1. calls[b].answer \in Answer /\ calls[b].answer # Null /\ Backed(calls[b].answer)
    BY <1>3 DEF Verified, Inv, TypeOK, Callers, Call, GraceCovered
  <2>2. record.allowed = calls[b].answer.allowed /\ record.allowed \in BOOLEAN
    BY <2>1 DEF Normalize, Answer
  <2>3. Decided(b, status)
    BY <1>3 DEF Verified
  <2> HIDE DEF record
  <2>4. status \in Status
    BY <2>2 DEF Status, Expired
  <2>5. record.allowed /\ view'.status.offline = FALSE
    <3>1. ~status.locked /\ view'.status = status
      BY <1>2, <2>3, <2>4
    <3>2. status.offline = FALSE /\ status.locked = (~record.allowed \/ Expired(record))
      OBVIOUS
    <3> HIDE DEF status
    <3>3. view'.status.offline = FALSE
      BY <3>1, <3>2
    <3>4. ~(~record.allowed \/ Expired(record))
      BY <3>1, <3>2
    <3>5. QED
      BY <2>2, <3>3, <3>4
  <2>6. QED
    BY <2>1, <2>2, <2>5 DEF Backed
<1>4. CASE VerifyFails(b)
  <2> DEFINE read == calls[b].read
             status == [locked |-> ~GraceValid(read), offline |-> TRUE]
  <2>1. read \in Record /\ Covered(read)
    BY DEF Inv, TypeOK, Callers, Call, GraceCovered
  <2>2. Decided(b, status)
    BY <1>4 DEF VerifyFails
  <2>3. status \in Status
    BY DEF Status, GraceValid
  <2>4. GraceValid(read)
    BY <1>2, <2>2, <2>3
  <2>5. /\ read.allowed /\ read.seen # Null /\ now - read.seen <= read.grace
        /\ read.seen \in Nat /\ read.grace \in Nat
    BY <2>1, <2>4, AccessAssumption DEF GraceValid, Record, Times
  <2>6. allowedTill # Null /\ read.seen + read.grace <= allowedTill
    BY <2>1, <2>5 DEF Covered
  <2> HIDE DEF read
  <2>7. QED
    BY <1>1, <2>5, <2>6
<1>5. QED
  BY <1>3, <1>4, LetInByDecision

\* A till that is let in was allowed by the cloud, and one that is let in offline was
\* allowed within the grace before, whatever was lost, refused or answered late, and
\* however often it was restarted (RuntimeService.verify and GraceValid).
THEOREM LetInWithinGraceAlways == Spec => LetInWithinGrace
<1>1. Inv /\ [Next]_vars => [LetInFairly]_vars
  BY LetInStep
<1>2. QED
  BY <1>1, AccessInvariant, PTL DEF Spec, LetInWithinGrace, LetInFairly
=============================================================================
