--------------------------- MODULE SupplierIntake ---------------------------
(***************************************************************************)
(* The public supplier enquiry: the form of the browser                    *)
(* (FarmerRegister, accessRequestClient), the serverless endpoint          *)
(* (api/public/access-request, serverAccessRequestIntake), the throttle    *)
(* it reserves a slot in, and the queue of enquiries it fills.             *)
(*                                                                         *)
(* Instances of the endpoint share no memory, so each call to the database *)
(* is a step of its own and any other visit may act between two of them.   *)
(* An answer may get lost on its way back.                                 *)
(***************************************************************************)
EXTENDS Naturals, FiniteSets

CONSTANTS Visits,      \* submissions of the form, one id each
          Emails,      \* addresses people write in the form
          Addresses,   \* network addresses: [form, net, host]
          Rules,       \* THROTTLE_RULES: [scope, window, max]
          MaxTime      \* bound: the last instant

ASSUME RulesAssumption ==
    /\ Rules # {}
    /\ \A r \in Rules : /\ r.scope \in {"client", "global"}
                        /\ r.window \in Nat \ {0}
                        /\ r.max \in Nat

VARIABLES now,       \* the clock of the database
          visit,     \* what each submission is doing
          attempts,  \* public_intake_attempts, written under the advisory lock
          requests   \* farmer_access_requests

intakeVars == <<now, visit, attempts, requests>>

NoBucket == <<"none">>
Forms == {"good", "malformed", "overlong"}
Statuses == {"new", "contacted", "invited", "declined", "duplicate"}

\* The form checks what the reader can see, the server checks all columns.
validateAccessRequest(f) == f # "malformed"
validateSubmission(f) == f = "good"

\* One IPv4 host has one bucket in whatever spelling it arrives; an IPv6
\* client has the bucket of its /64.
normaliseAddress(a) ==
    CASE a.form \in {"v4", "mapped", "nat64"} -> <<"v4", a.host>>
      [] a.form = "v6" -> <<"v6/64", a.net>>
      [] OTHER -> NoBucket

Blank == [step |-> "form", email |-> "", from |-> NoBucket, form |-> "good",
          at |-> 0, answer |-> ""]

OpenFor(e) == {r \in requests : r.email = e /\ r.status \in {"new", "contacted"}}

IntakeInit ==
    /\ now = 0
    /\ visit = [v \in Visits |-> Blank]
    /\ attempts = {}
    /\ requests = {}

\* What the call held is gone with it.
Answer(v, a) == visit' = [visit EXCEPT ![v] =
    [Blank EXCEPT !.step = "answered", !.email = visit[v].email, !.answer = a]]

\* The visitor presses the button: what the form refuses never leaves it.
Submit(v, e, a, f) ==
    /\ visit[v].step = "form"
    /\ visit' = [visit EXCEPT ![v] =
           IF validateAccessRequest(f)
           THEN [@ EXCEPT !.step = "sent", !.email = e, !.from = normaliseAddress(a), !.form = f]
           ELSE [@ EXCEPT !.step = "over", !.answer = "invalid_input"]]
    /\ UNCHANGED <<now, attempts, requests>>

\* Everything the handler refuses before it touches the database.
RefuseEarly(v) ==
    /\ visit[v].step = "sent"
    /\ \/ /\ ~validateSubmission(visit[v].form)
          /\ Answer(v, "invalid_input")
       \/ /\ validateSubmission(visit[v].form)
          /\ visit[v].from = NoBucket
          /\ Answer(v, "backend_unavailable")
    /\ UNCHANGED <<now, attempts, requests>>

\* The call to the database starts: its now() is fixed from here.
BeginReservation(v) ==
    /\ visit[v].step = "sent"
    /\ validateSubmission(visit[v].form)
    /\ visit[v].from # NoBucket
    /\ visit' = [visit EXCEPT ![v].step = "reserving", ![v].at = now]
    /\ UNCHANGED <<now, attempts, requests>>

\* The rows a rule counts for a call that began at t from bucket b.
Counted(rule, rows, b, t) ==
    {r \in rows : /\ rule.scope = "global" \/ r.bucket = b
                  /\ r.at + rule.window > t}

Exceeded(rows, b, t) ==
    \E rule \in Rules : Cardinality(Counted(rule, rows, b, t)) > rule.max

\* Under the advisory lock: the attempt is written first and counts itself,
\* and stays written when it is refused.
ReserveSlot(v) ==
    /\ visit[v].step = "reserving"
    /\ LET row == [visit |-> v, bucket |-> visit[v].from, at |-> visit[v].at]
           refused == Exceeded(attempts \cup {row}, visit[v].from, visit[v].at)
       IN  /\ attempts' = attempts \cup {row}
           /\ IF refused THEN Answer(v, "rate_limited")
                         ELSE visit' = [visit EXCEPT ![v].step = "granted"]
    /\ UNCHANGED <<now, requests>>

\* The ledger cannot be reached: nothing is accepted.
ReservationFails(v) ==
    /\ visit[v].step = "reserving"
    /\ Answer(v, "backend_unavailable")
    /\ UNCHANGED <<now, attempts, requests>>

\* has_open_access_request: a second enquiry is answered like a first.
CheckDuplicate(v) ==
    /\ visit[v].step = "granted"
    /\ IF OpenFor(visit[v].email) # {}
       THEN Answer(v, "ok")
       ELSE visit' = [visit EXCEPT ![v].step = "checked"]
    /\ UNCHANGED <<now, attempts, requests>>

InsertRequest(v) ==
    /\ visit[v].step = "checked"
    /\ requests' = requests \cup {[id |-> v, email |-> visit[v].email, status |-> "new"]}
    /\ Answer(v, "ok")
    /\ UNCHANGED <<now, attempts>>

\* Mutant: a failed insert is taken for a duplicate.
StoreFails_AnswersOk(v) ==
    /\ visit[v].step \in {"granted", "checked"}
    /\ Answer(v, "ok")
    /\ UNCHANGED <<now, attempts, requests>>

StoreFails(v) ==
    /\ visit[v].step \in {"granted", "checked"}
    /\ Answer(v, "submit_failed")
    /\ UNCHANGED <<now, attempts, requests>>

\* The answer reaches the form, or the connection breaks first.
Receive(v) ==
    /\ visit[v].step = "answered"
    /\ \/ visit' = [visit EXCEPT ![v].step = "over"]
       \/ visit' = [visit EXCEPT ![v].step = "over", ![v].answer = "submit_failed"]
    /\ UNCHANGED <<now, attempts, requests>>

Tick ==
    /\ now < MaxTime
    /\ now' = now + 1
    /\ UNCHANGED <<visit, attempts, requests>>

Handle(v) ==
    \/ RefuseEarly(v) \/ BeginReservation(v) \/ ReserveSlot(v) \/ ReservationFails(v)
    \/ CheckDuplicate(v) \/ InsertRequest(v) \/ StoreFails(v)

----------------------------------------------------------------------------

\* A visitor who is told the enquiry was sent has one in the queue, his own or
\* the open one it repeats: none is dropped behind a confirmation
\* (serverAccessRequestIntake:219-233).
ConfirmedIsQueued ==
    \A v \in Visits : visit[v].answer = "ok" => \E r \in requests : r.email = visit[v].email
=============================================================================
