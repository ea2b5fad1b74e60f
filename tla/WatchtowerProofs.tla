--------------------------- MODULE WatchtowerProofs ---------------------------
(***************************************************************************)
(* Theorems about the calls that reach out of the watchtower, the page of  *)
(* its administrators and the registry of its sources. The ceilings hold   *)
(* for any callers, sources, windows and rules, however many calls         *)
(* overlap: Targets are the sources and updates, TargetHosts the hosts     *)
(* they name. What the page said was saved is audited, and no alert links  *)
(* a rule that its page took out of force, for any tables and pages; a     *)
(* write to the registry undoes another only when they overlap, and what a *)
(* check says it knows was proposed, for any tabs.                         *)
(* A draft of a language model is shown only under the update it is about, *)
(* and says nothing that its guards stop, for any reviewers and replies.   *)
(***************************************************************************)
EXTENDS WatchtowerEndpoints, WatchtowerDesk, SourceMonitoring, WatchtowerIngestion, AiDrafts,
        CountingProofs

Steps == {"unsent", "sent", "waiting", "admitted", "calling", "answered"}
Answers == {"refused", "rate_limited", "throttle_unavailable", "source_disabled",
            "unsupported_status", "unreadable", "draft", "provider_failed", "rejected",
            "retrieved", "source_failed", "too_many_redirects", "cut_off"}
UrlsOf(TargetHosts) == [host : TargetHosts \cup Hosts, https : BOOLEAN]
TargetRow(TargetHosts) ==
  [end : Endpoints, ready : BOOLEAN, host : TargetHosts, https : BOOLEAN]
CallRow(Targets, TargetHosts) ==
  [step : Steps, end : Endpoints \cup {Void}, by : Callers \cup {Void},
   target : Targets \cup {Void}, at : Nat, reserved : BOOLEAN,
   url : UrlsOf(TargetHosts) \cup {Void}, row : TargetRow(TargetHosts) \cup {Void},
   hop : Nat, answer : Answers \cup {Void}]

EndpointsTypeOK(Targets, TargetHosts) ==
  /\ clock \in Nat
  /\ stored \in [Targets -> TargetRow(TargetHosts)]
  /\ calls \in [Calls -> CallRow(Targets, TargetHosts)]
  /\ \A c \in Calls : calls[c].step # "unsent" => calls[c].target \in Targets
  /\ IsFiniteSet(attempts)

(* The rows a call leaves in the table are the proof that it was counted.   *)
RecordedIsCounted == \A c \in Calls : calls[c].reserved => Reservation(c) \subseteq attempts

Early(c) == calls[c].step \in {"unsent", "sent", "waiting"}
Passed(c) == calls[c].step \in {"admitted", "calling"}
Contacted(c) == \E x \in contacts : x.call = c

(* Nothing goes out before the call is counted. *)
CountedFirst ==
  \A c \in Calls : /\ Early(c) => ~calls[c].reserved
                   /\ Passed(c) \/ Contacted(c) => calls[c].reserved

(* The calls that may reach out or have: those the lock let through. *)
LetOut(rule, end, a, last) == {c \in Under(rule, end, a, last) : Passed(c) \/ Contacted(c)}

(* The ceiling for those, in windows that end at any time.                  *)
Ceiling ==
  \A end \in Endpoints, a \in Callers, last \in Nat : \A rule \in Rules[end] :
    Cardinality(LetOut(rule, end, a, last)) <= rule.max

EndpointsInv(Targets, TargetHosts) ==
  /\ EndpointsTypeOK(Targets, TargetHosts)
  /\ RecordedIsCounted /\ CountedFirst /\ Ceiling

(* 36:231-246.  Calls with a row each in a set of attempts are no more than *)
(* the rows: a row names its call.                                          *)
LEMMA CallsAreRows ==
  ASSUME NEW rows, IsFiniteSet(rows), NEW S,
         \A c \in S : \E x \in rows : x.call = c
  PROVE  IsFiniteSet(S) /\ Cardinality(S) <= Cardinality(rows)
<1> DEFINE f == [c \in S |-> CHOOSE x \in rows : x.call = c]
<1>1. \A c \in S : f[c] \in rows /\ f[c].call = c
  OBVIOUS
<1>2. f \in Injection(S, rows)
  BY <1>1 DEF Injection, IsInjective
<1> HIDE DEF f
<1> QED
  BY <1>2, FS_Injection

(* The window of an earlier attempt reaches back at least as far. *)
LEMMA SinceIsMonotone ==
  ASSUME NEW at \in Nat, NEW last \in Nat, NEW window \in Nat, at <= last
  PROVE  Since(at, window) \in Nat /\ Since(last, window) \in Nat
         /\ Since(at, window) <= Since(last, window)
BY DEF Since

LEMMA LetOutIsFinite ==
  ASSUME NEW Targets, NEW TargetHosts, EndpointsInv(Targets, TargetHosts),
         NEW rule, NEW end, NEW a, NEW last
  PROVE  IsFiniteSet(LetOut(rule, end, a, last))
<1>1. ASSUME NEW c \in LetOut(rule, end, a, last)
      PROVE  \E x \in attempts : x.call = c
  <2> DEFINE x == [call |-> c, at |-> calls[c].at,
                   bucket |-> Bucket(calls[c].end, calls[c].by, "global")]
  <2>1. x \in Reservation(c)
    BY DEF Reservation
  <2>2. Reservation(c) \subseteq attempts
    BY DEF LetOut, Under, EndpointsInv, RecordedIsCounted
  <2> QED
    BY <2>1, <2>2
<1> QED
  BY <1>1, CallsAreRows DEF EndpointsInv, EndpointsTypeOK

(* A step after which no further call is let out keeps every ceiling.       *)
LEMMA NoMoreLetOut ==
  ASSUME NEW Targets, NEW TargetHosts, EndpointsInv(Targets, TargetHosts),
         \A c \in Calls :
           calls'[c].reserved /\ (Passed(c)' \/ Contacted(c)') =>
             /\ calls[c].reserved /\ (Passed(c) \/ Contacted(c))
             /\ calls'[c].end = calls[c].end /\ calls'[c].by = calls[c].by
             /\ calls'[c].at = calls[c].at
  PROVE  Ceiling'
<1> SUFFICES ASSUME NEW end \in Endpoints, NEW a \in Callers, NEW last \in Nat,
                    NEW rule \in Rules[end]
             PROVE  Cardinality(LetOut(rule, end, a, last)') <= rule.max
  BY DEF Ceiling
<1> DEFINE S == LetOut(rule, end, a, last)
<1>1. LetOut(rule, end, a, last)' \in SUBSET S
  BY DEF LetOut, Under
<1>2. IsFiniteSet(S)
  BY LetOutIsFinite
<1>3. Cardinality(LetOut(rule, end, a, last)') <= Cardinality(S)
      /\ Cardinality(S) \in Nat
      /\ Cardinality(LetOut(rule, end, a, last)') \in Nat
  BY <1>1, <1>2, FS_Subset, FS_CardinalityType
<1>4. Cardinality(S) <= rule.max
  BY DEF EndpointsInv, Ceiling
<1>5. rule.max \in Nat
  BY RulesAssumption
<1> QED
  BY <1>3, <1>4, <1>5

(* A step of one call that leaves the table of attempts alone. *)
LEMMA OneCall ==
  ASSUME NEW Targets, NEW TargetHosts, EndpointsInv(Targets, TargetHosts),
         NEW c \in Calls, NEW new \in CallRow(Targets, TargetHosts),
         calls' = [calls EXCEPT ![c] = new], UNCHANGED <<clock, attempts, stored>>,
         new.step # "unsent" => new.target \in Targets,
         new.reserved = calls[c].reserved,
         new.reserved => new.end = calls[c].end /\ new.by = calls[c].by /\ new.at = calls[c].at,
         new.step \in {"unsent", "sent", "waiting"} => Early(c),
         new.step \in {"admitted", "calling"} => Passed(c),
         \/ contacts' = contacts
         \/ Passed(c) /\ \E x : x.call = c /\ contacts' = contacts \cup {x}
  PROVE  EndpointsInv(Targets, TargetHosts)'
<1>1. calls'[c] = new /\ \A d \in Calls \ {c} : calls'[d] = calls[d]
  BY DEF EndpointsInv, EndpointsTypeOK
<1>2. EndpointsTypeOK(Targets, TargetHosts)'
  BY <1>1 DEF EndpointsInv, EndpointsTypeOK
<1>3. \A d \in Calls : /\ d # c => (Contacted(d)' <=> Contacted(d))
                       /\ Contacted(c)' => Contacted(c) \/ Passed(c)
  BY DEF Contacted
<1>4. \A d \in Calls : calls'[d].reserved =>
        /\ calls[d].reserved /\ calls'[d].end = calls[d].end
        /\ calls'[d].by = calls[d].by /\ calls'[d].at = calls[d].at
  BY <1>1
<1>5. RecordedIsCounted'
  BY <1>4 DEF EndpointsInv, RecordedIsCounted, Reservation
<1>6. CountedFirst'
  BY <1>1, <1>3 DEF EndpointsInv, CountedFirst, Early, Passed
<1>7. \A d \in Calls : Passed(d)' \/ Contacted(d)' => Passed(d) \/ Contacted(d)
  BY <1>1, <1>3 DEF Passed
<1>8. Ceiling'
  BY <1>4, <1>7, NoMoreLetOut
<1> QED
  BY <1>2, <1>5, <1>6, <1>8 DEF EndpointsInv

(* 36:218-246.  The call is in the table when its bucket is counted, and so *)
(* is every call let out before it: where the ceiling holds for its own     *)
(* window it holds for every window its time falls in.                      *)
LEMMA AdmittedUnderTheCeiling ==
  ASSUME NEW Targets, NEW TargetHosts, EndpointsInv(Targets, TargetHosts),
         NEW c \in Calls, EndpointsTypeOK(Targets, TargetHosts)',
         RecordedIsCounted', Admitted(attempts', c), IsFiniteSet(attempts'),
         \A d \in Calls : /\ calls'[d].end = calls[d].end /\ calls'[d].by = calls[d].by
                          /\ calls'[d].at = calls[d].at,
         NEW end \in Endpoints, NEW a \in Callers, NEW last \in Nat, NEW rule \in Rules[end],
         c \in Under(rule, end, a, last)'
  PROVE  Cardinality(LetOut(rule, end, a, last)') <= rule.max
<1> DEFINE bucket == Bucket(calls[c].end, calls[c].by, rule.scope)
           from == Since(calls[c].at, rule.window)
           counted == {x \in attempts' : x.bucket = bucket /\ x.at > from}
           S == LetOut(rule, end, a, last)'
<1>1. /\ calls[c].end = end /\ (rule.scope = "client" => calls[c].by = a)
      /\ calls[c].at \in (Since(last, rule.window) + 1)..last
  BY DEF Under
<1>2. Cardinality(counted) <= rule.max
  BY <1>1 DEF Admitted, Counted
<1>3. IsFiniteSet(counted)
  BY FS_Subset
<1>4. rule.window \in Nat /\ rule.max \in Nat
  BY RulesAssumption
<1>5. calls[c].at \in Nat /\ calls[c].at <= last
  BY <1>1 DEF EndpointsInv, EndpointsTypeOK, CallRow
<1>6. from \in Nat /\ Since(last, rule.window) \in Nat /\ from <= Since(last, rule.window)
  BY <1>4, <1>5, SinceIsMonotone
<1>7. ASSUME NEW d \in S
      PROVE  \E x \in counted : x.call = d
  <2> DEFINE scope == IF rule.scope = "client" THEN "client" ELSE "global"
             x == [call |-> d, at |-> calls'[d].at,
                   bucket |-> Bucket(calls'[d].end, calls'[d].by, scope)]
  <2>1. /\ d \in Calls /\ calls'[d].reserved
        /\ calls'[d].end = end /\ (rule.scope = "client" => calls'[d].by = a)
        /\ calls'[d].at \in (Since(last, rule.window) + 1)..last
    BY DEF LetOut, Under
  <2>2. x \in Reservation(d)'
    BY DEF Reservation
  <2>3. x \in attempts'
    BY <2>1, <2>2 DEF RecordedIsCounted
  <2>4. x.bucket = bucket
    BY <1>1, <2>1 DEF Bucket
  <2>5. x.at > from
    BY <1>6, <2>1
  <2> HIDE DEF x
  <2> QED
    BY <2>3, <2>4, <2>5 DEF x
<1>8. IsFiniteSet(S) /\ Cardinality(S) <= Cardinality(counted)
  <2> HIDE DEF counted, S
  <2> QED
    BY <1>3, <1>7, CallsAreRows
<1>9. Cardinality(S) \in Nat /\ Cardinality(counted) \in Nat
  BY <1>3, <1>8, FS_CardinalityType
<1> QED
  BY <1>2, <1>4, <1>8, <1>9

(* The call is recorded, and let out only if it was admitted. *)
LEMMA OneReservation ==
  ASSUME NEW Targets, NEW TargetHosts, EndpointsInv(Targets, TargetHosts),
         NEW c \in Calls, NEW new \in CallRow(Targets, TargetHosts), At(c, "waiting"),
         calls' = [calls EXCEPT ![c] = new], UNCHANGED <<clock, stored, contacts>>,
         \/ ~new.reserved /\ attempts' = attempts
         \/ new.reserved /\ attempts' = attempts \cup Reservation(c),
         new.end = calls[c].end /\ new.by = calls[c].by /\ new.at = calls[c].at,
         new.target = calls[c].target,
         \/ new.step = "admitted" /\ new.reserved /\ Admitted(attempts', c)
         \/ new.step = "answered"
  PROVE  EndpointsInv(Targets, TargetHosts)'
<1>1. calls'[c] = new /\ \A d \in Calls \ {c} : calls'[d] = calls[d]
  BY DEF EndpointsInv, EndpointsTypeOK
<1>2. attempts \subseteq attempts'
  OBVIOUS
<1>3. IsFiniteSet(attempts')
  <2> DEFINE row(scope) == [call |-> c, at |-> calls[c].at,
                            bucket |-> Bucket(calls[c].end, calls[c].by, scope)]
  <2>1. Reservation(c) = {row("client"), row("global")}
    BY DEF Reservation
  <2> HIDE DEF row
  <2>2. IsFiniteSet(attempts \cup {row("client")})
    BY FS_AddElement DEF EndpointsInv, EndpointsTypeOK
  <2>3. IsFiniteSet((attempts \cup {row("client")}) \cup {row("global")})
    BY <2>2, FS_AddElement
  <2>4. attempts \cup Reservation(c) = (attempts \cup {row("client")}) \cup {row("global")}
    BY <2>1
  <2> QED
    BY <2>3, <2>4 DEF EndpointsInv, EndpointsTypeOK
<1>4. EndpointsTypeOK(Targets, TargetHosts)'
  BY <1>1, <1>3 DEF EndpointsInv, EndpointsTypeOK, At
<1>5. \A d \in Calls : /\ calls'[d].end = calls[d].end /\ calls'[d].by = calls[d].by
                       /\ calls'[d].at = calls[d].at
  BY <1>1
<1>6. RecordedIsCounted'
  <2>1. ASSUME NEW d \in Calls, calls'[d].reserved
        PROVE  Reservation(d) \subseteq attempts'
    BY <1>1, <1>2, <2>1 DEF EndpointsInv, RecordedIsCounted
  <2>2. \A d \in Calls : Reservation(d)' = Reservation(d)
    BY <1>5 DEF Reservation
  <2> QED
    BY <2>1, <2>2 DEF RecordedIsCounted
<1>7. Early(c) /\ ~calls[c].reserved /\ ~Contacted(c)
  BY DEF At, Early, EndpointsInv, CountedFirst
<1>8. \A d \in Calls : Contacted(d)' <=> Contacted(d)
  BY DEF Contacted
<1>9. CountedFirst'
  BY <1>1, <1>7, <1>8 DEF EndpointsInv, CountedFirst, Early, Passed
<1>10. Ceiling'
  <2>1. CASE new.step = "answered"
    <3>1. \A d \in Calls : calls'[d].reserved /\ (Passed(d)' \/ Contacted(d)') =>
            calls[d].reserved /\ (Passed(d) \/ Contacted(d))
      BY <1>1, <1>7, <1>8, <2>1 DEF Passed
    <3> QED
      BY <1>5, <3>1, NoMoreLetOut
  <2>2. CASE new.step = "admitted" /\ new.reserved /\ Admitted(attempts', c)
    <3> SUFFICES ASSUME NEW end \in Endpoints, NEW a \in Callers, NEW last \in Nat,
                        NEW rule \in Rules[end]
                 PROVE  Cardinality(LetOut(rule, end, a, last)') <= rule.max
      BY DEF Ceiling
    <3>1. CASE c \in Under(rule, end, a, last)'
      BY <1>3, <1>4, <1>5, <1>6, <2>2, <3>1, AdmittedUnderTheCeiling
    <3>2. CASE c \notin Under(rule, end, a, last)'
      <4> DEFINE S == LetOut(rule, end, a, last)
      <4>1. LetOut(rule, end, a, last)' \in SUBSET S
        BY <1>1, <1>8, <3>2 DEF LetOut, Under, Passed
      <4>2. IsFiniteSet(S)
        BY LetOutIsFinite
      <4>3. Cardinality(LetOut(rule, end, a, last)') <= Cardinality(S)
            /\ Cardinality(S) \in Nat
            /\ Cardinality(LetOut(rule, end, a, last)') \in Nat
        BY <4>1, <4>2, FS_Subset, FS_CardinalityType
      <4>4. Cardinality(S) <= rule.max /\ rule.max \in Nat
        BY RulesAssumption DEF EndpointsInv, Ceiling
      <4> QED
        BY <4>3, <4>4
    <3> QED
      BY <3>1, <3>2
  <2> QED
    BY <2>1, <2>2
<1> QED
  BY <1>4, <1>6, <1>9, <1>10 DEF EndpointsInv

(* A step that concerns no call. *)
LEMMA NoCallMoves ==
  ASSUME NEW Targets, NEW TargetHosts, EndpointsInv(Targets, TargetHosts),
         UNCHANGED <<attempts, calls, contacts>>, clock' \in Nat,
         stored' \in [Targets -> TargetRow(TargetHosts)]
  PROVE  EndpointsInv(Targets, TargetHosts)'
<1>1. EndpointsTypeOK(Targets, TargetHosts)'
  BY DEF EndpointsInv, EndpointsTypeOK
<1>2. RecordedIsCounted'
  BY DEF EndpointsInv, RecordedIsCounted, Reservation
<1>3. CountedFirst'
  BY DEF EndpointsInv, CountedFirst, Early, Passed, Contacted
<1>4. Ceiling'
  BY NoMoreLetOut DEF Passed, Contacted
<1> QED
  BY <1>1, <1>2, <1>3, <1>4 DEF EndpointsInv

(* The answer ends the call. *)
LEMMA OneAnswer ==
  ASSUME NEW Targets, NEW TargetHosts, EndpointsInv(Targets, TargetHosts),
         NEW c \in Calls, calls[c].step # "unsent", NEW answer \in Answers,
         calls' = Answered(c, answer), UNCHANGED <<clock, attempts, stored>>,
         \/ contacts' = contacts
         \/ Passed(c) /\ \E x : x.call = c /\ contacts' = contacts \cup {x}
  PROVE  EndpointsInv(Targets, TargetHosts)'
<1> DEFINE r == calls[c]
           new == [r EXCEPT !.step = "answered", !.answer = answer]
<1>1. r \in CallRow(Targets, TargetHosts) /\ r.target \in Targets
  BY DEF EndpointsInv, EndpointsTypeOK
<1>2. /\ new \in CallRow(Targets, TargetHosts) /\ new.step = "answered"
      /\ new.reserved = r.reserved /\ new.end = r.end /\ new.by = r.by /\ new.at = r.at
      /\ new.target = r.target
  <2> HIDE DEF r
  <2> QED
    BY <1>1 DEF CallRow, Steps
<1>3. calls' = [calls EXCEPT ![c] = new]
  BY DEF Answered, EndpointsInv, EndpointsTypeOK
<1> HIDE DEF new
<1> QED
  BY <1>1, <1>2, <1>3, OneCall

LEMMA SendStep ==
  ASSUME NEW Targets, NEW TargetHosts, EndpointsInv(Targets, TargetHosts),
         NEW c \in Calls, NEW a \in Callers, NEW t \in DOMAIN stored, Send(c, a, t)
  PROVE  EndpointsInv(Targets, TargetHosts)'
<1> DEFINE new == [NoCall EXCEPT !.step = "sent", !.end = stored[t].end, !.by = a, !.target = t]
<1>1. t \in Targets /\ stored[t].end \in Endpoints
  BY DEF EndpointsInv, EndpointsTypeOK, TargetRow
<1>2. /\ new \in CallRow(Targets, TargetHosts) /\ new.step = "sent" /\ new.target = t
      /\ new.reserved = FALSE
  BY <1>1 DEF NoCall, CallRow, Steps
<1>3. Early(c) /\ calls[c].reserved = FALSE
  BY DEF Send, At, Early, EndpointsInv, EndpointsTypeOK, CountedFirst, CallRow
<1>4. calls' = [calls EXCEPT ![c] = new] /\ UNCHANGED <<clock, attempts, stored, contacts>>
  BY DEF Send
<1> HIDE DEF new
<1> QED
  BY <1>1, <1>2, <1>3, <1>4, OneCall

LEMMA BeginReservationStep ==
  ASSUME NEW Targets, NEW TargetHosts, EndpointsInv(Targets, TargetHosts),
         NEW c \in Calls, BeginReservation(c)
  PROVE  EndpointsInv(Targets, TargetHosts)'
<1> DEFINE r == calls[c]
           new == [r EXCEPT !.step = "waiting", !.at = clock]
<1>1. /\ r \in CallRow(Targets, TargetHosts) /\ r.target \in Targets /\ clock \in Nat
      /\ r.step = "sent"
  BY DEF EndpointsInv, EndpointsTypeOK, BeginReservation, At
<1>2. Early(c) /\ ~r.reserved
  BY <1>1 DEF Early, EndpointsInv, CountedFirst
<1>3. /\ new \in CallRow(Targets, TargetHosts) /\ new.step = "waiting"
      /\ new.target = r.target /\ new.reserved = r.reserved
  <2> HIDE DEF r
  <2> QED
    BY <1>1 DEF CallRow, Steps
<1>4. calls' = [calls EXCEPT ![c] = new] /\ UNCHANGED <<clock, attempts, stored, contacts>>
  BY DEF BeginReservation, EndpointsInv, EndpointsTypeOK
<1> HIDE DEF new
<1> QED
  BY <1>1, <1>2, <1>3, <1>4, OneCall

LEMMA ReserveSlotStep ==
  ASSUME NEW Targets, NEW TargetHosts, EndpointsInv(Targets, TargetHosts),
         NEW c \in Calls, ReserveSlot(c)
  PROVE  EndpointsInv(Targets, TargetHosts)'
<1> DEFINE r == calls[c]
           let_out == [r EXCEPT !.step = "admitted", !.reserved = TRUE]
           limited == [r EXCEPT !.step = "answered", !.answer = "rate_limited", !.reserved = TRUE]
<1>1. /\ r \in CallRow(Targets, TargetHosts) /\ At(c, "waiting")
      /\ attempts' = attempts \cup Reservation(c) /\ UNCHANGED <<clock, stored, contacts>>
  BY DEF EndpointsInv, EndpointsTypeOK, ReserveSlot
<1>2. CASE Admitted(attempts', c)
  <2>1. /\ let_out \in CallRow(Targets, TargetHosts) /\ let_out.step = "admitted"
        /\ let_out.reserved /\ let_out.end = r.end /\ let_out.by = r.by
        /\ let_out.at = r.at /\ let_out.target = r.target
    <3> HIDE DEF r
    <3> QED
      BY <1>1 DEF CallRow, Steps
  <2>2. calls' = [calls EXCEPT ![c] = let_out]
    BY <1>2 DEF ReserveSlot, EndpointsInv, EndpointsTypeOK
  <2> HIDE DEF let_out
  <2> QED
    BY <1>1, <1>2, <2>1, <2>2, OneReservation
<1>3. CASE ~Admitted(attempts', c)
  <2>1. /\ limited \in CallRow(Targets, TargetHosts) /\ limited.step = "answered"
        /\ limited.reserved /\ limited.end = r.end /\ limited.by = r.by
        /\ limited.at = r.at /\ limited.target = r.target
    <3> HIDE DEF r
    <3> QED
      BY <1>1 DEF CallRow, Steps, Answers
  <2>2. calls' = [calls EXCEPT ![c] = limited]
    BY <1>3 DEF ReserveSlot, Answered, EndpointsInv, EndpointsTypeOK
  <2> HIDE DEF limited
  <2> QED
    BY <1>1, <2>1, <2>2, OneReservation
<1> QED
  BY <1>2, <1>3

LEMMA ReservationFailsStep ==
  ASSUME NEW Targets, NEW TargetHosts, EndpointsInv(Targets, TargetHosts),
         NEW c \in Calls, ReservationFails(c)
  PROVE  EndpointsInv(Targets, TargetHosts)'
<1>1. PICK recorded \in BOOLEAN :
        /\ attempts' = IF recorded THEN attempts \cup Reservation(c) ELSE attempts
        /\ calls' = [Answered(c, "throttle_unavailable") EXCEPT ![c].reserved = recorded]
  BY DEF ReservationFails
<1> DEFINE r == calls[c]
           new == [r EXCEPT !.step = "answered", !.answer = "throttle_unavailable",
                            !.reserved = recorded]
<1>2. /\ r \in CallRow(Targets, TargetHosts) /\ At(c, "waiting")
      /\ UNCHANGED <<clock, stored, contacts>>
  BY DEF EndpointsInv, EndpointsTypeOK, ReservationFails
<1>3. /\ new \in CallRow(Targets, TargetHosts) /\ new.step = "answered"
      /\ new.reserved = recorded /\ new.end = r.end /\ new.by = r.by
      /\ new.at = r.at /\ new.target = r.target
  <2> HIDE DEF r
  <2> QED
    BY <1>2 DEF CallRow, Steps, Answers
<1>4. calls' = [calls EXCEPT ![c] = new]
  BY <1>1 DEF Answered, EndpointsInv, EndpointsTypeOK
<1> HIDE DEF new
<1> QED
  BY <1>1, <1>2, <1>3, <1>4, OneReservation

LEMMA ReadTargetStep ==
  ASSUME NEW Targets, NEW TargetHosts, EndpointsInv(Targets, TargetHosts),
         NEW c \in Calls, ReadSource(c) \/ ReadUpdate(c)
  PROVE  EndpointsInv(Targets, TargetHosts)'
<1> DEFINE r == calls[c]
           row == stored[r.target]
           url == [host |-> row.host, https |-> row.https]
           new == [r EXCEPT !.step = "calling", !.row = row, !.url = url]
<1>1. /\ r \in CallRow(Targets, TargetHosts) /\ r.target \in Targets
      /\ r.step = "admitted" /\ UNCHANGED <<clock, attempts, stored, contacts>>
  BY DEF EndpointsInv, EndpointsTypeOK, ReadSource, ReadUpdate, ReadTarget, At
<1>2. \/ calls' = [calls EXCEPT ![c].step = "calling", ![c].row = row, ![c].url = url]
      \/ \E answer \in Answers : calls' = Answered(c, answer)
  BY DEF ReadSource, ReadUpdate, ReadTarget, Answers
<1>3. CASE \E answer \in Answers : calls' = Answered(c, answer)
  BY <1>1, <1>3, OneAnswer
<1>4. CASE calls' = [calls EXCEPT ![c].step = "calling", ![c].row = row, ![c].url = url]
  <2>1. row \in TargetRow(TargetHosts)
    BY <1>1 DEF EndpointsInv, EndpointsTypeOK
  <2>2. url \in UrlsOf(TargetHosts)
    BY <2>1 DEF TargetRow, UrlsOf
  <2>3. /\ new \in CallRow(Targets, TargetHosts) /\ new.step = "calling"
        /\ new.reserved = r.reserved /\ new.end = r.end /\ new.by = r.by /\ new.at = r.at
        /\ new.target = r.target
    <3> HIDE DEF r, row, url
    <3> QED
      BY <1>1, <2>1, <2>2 DEF CallRow, Steps
  <2>4. calls' = [calls EXCEPT ![c] = new]
    BY <1>4 DEF EndpointsInv, EndpointsTypeOK
  <2>5. Passed(c)
    BY <1>1 DEF Passed
  <2> HIDE DEF new
  <2> QED
    BY <1>1, <2>3, <2>4, <2>5, OneCall
<1> QED
  BY <1>2, <1>3, <1>4

LEMMA AskProviderStep ==
  ASSUME NEW Targets, NEW TargetHosts, EndpointsInv(Targets, TargetHosts),
         NEW c \in Calls, AskProvider(c)
  PROVE  EndpointsInv(Targets, TargetHosts)'
<1>1. /\ calls[c].step = "calling" /\ UNCHANGED <<clock, attempts, stored>>
      /\ \E answer \in Answers : calls' = Answered(c, answer)
  BY DEF AskProvider, At, Answers
<1>2. \E x : x.call = c /\ contacts' = contacts \cup {x}
  <2> DEFINE x == [call |-> c, hop |-> 0, url |-> calls[c].url, row |-> calls[c].row]
  <2>1. x.call = c /\ contacts' = contacts \cup {x}
    BY DEF AskProvider
  <2> QED
    BY <2>1
<1>3. Passed(c)
  BY <1>1 DEF Passed
<1> QED
  BY <1>1, <1>2, <1>3, OneAnswer

LEMMA FetchStep ==
  ASSUME NEW Targets, NEW TargetHosts, EndpointsInv(Targets, TargetHosts),
         NEW c \in Calls, Fetch(c)
  PROVE  EndpointsInv(Targets, TargetHosts)'
<1>1. calls[c].step = "calling" /\ UNCHANGED <<clock, attempts, stored>>
  BY DEF Fetch, At
<1>2. Passed(c)
  BY <1>1 DEF Passed
<1>3. contacts' = contacts \/ \E x : x.call = c /\ contacts' = contacts \cup {x}
  <2> DEFINE x == [call |-> c, hop |-> calls[c].hop, url |-> calls[c].url, row |-> calls[c].row]
  <2>1. x.call = c /\ (contacts' = contacts \/ contacts' = contacts \cup {x})
    BY DEF Fetch
  <2> QED
    BY <2>1
<1>4. \/ \E answer \in Answers : calls' = Answered(c, answer)
      \/ \E url \in [host : Hosts, https : BOOLEAN] :
           calls' = [calls EXCEPT ![c].url = url, ![c].hop = @ + 1]
  BY DEF Fetch, Answers
<1>5. CASE \E answer \in Answers : calls' = Answered(c, answer)
  BY <1>1, <1>2, <1>3, <1>5, OneAnswer
<1>6. ASSUME NEW url \in [host : Hosts, https : BOOLEAN],
             calls' = [calls EXCEPT ![c].url = url, ![c].hop = @ + 1]
      PROVE  EndpointsInv(Targets, TargetHosts)'
  <2> DEFINE r == calls[c]
             hop == r.hop + 1
             new == [r EXCEPT !.url = url, !.hop = hop]
  <2>1. r \in CallRow(Targets, TargetHosts) /\ r.target \in Targets
    BY <1>1 DEF EndpointsInv, EndpointsTypeOK
  <2>2. url \in UrlsOf(TargetHosts) /\ hop \in Nat
    BY <2>1 DEF UrlsOf, CallRow
  <2>3. /\ new \in CallRow(Targets, TargetHosts) /\ new.step = r.step
        /\ new.reserved = r.reserved /\ new.end = r.end /\ new.by = r.by /\ new.at = r.at
        /\ new.target = r.target
    <3> HIDE DEF r, hop
    <3> QED
      BY <2>1, <2>2 DEF CallRow
  <2>4. calls' = [calls EXCEPT ![c] = new]
    BY <1>6 DEF EndpointsInv, EndpointsTypeOK
  <2> HIDE DEF new
  <2> QED
    BY <1>1, <1>2, <1>3, <2>1, <2>3, <2>4, OneCall
<1> QED
  BY <1>4, <1>5, <1>6

LEMMA EndpointsStep ==
  ASSUME NEW Targets, NEW TargetHosts,
         EndpointsInv(Targets, TargetHosts), [EndpointsNext]_endpointVars
  PROVE  EndpointsInv(Targets, TargetHosts)'
<1>1. clock \in Nat /\ stored \in [Targets -> TargetRow(TargetHosts)]
  BY DEF EndpointsInv, EndpointsTypeOK
<1>2. CASE UNCHANGED endpointVars
  BY <1>1, <1>2, NoCallMoves DEF endpointVars
<1>3. CASE Tick
  BY <1>1, <1>3, NoCallMoves DEF Tick
<1>4. ASSUME NEW t \in DOMAIN stored, Settle(t)
      PROVE  EndpointsInv(Targets, TargetHosts)'
  <2>1. stored' \in [Targets -> TargetRow(TargetHosts)]
    BY <1>1, <1>4 DEF Settle, TargetRow
  <2> QED
    BY <1>1, <1>4, <2>1, NoCallMoves DEF Settle
<1>5. ASSUME NEW c \in Calls, RefuseEarly(c)
      PROVE  EndpointsInv(Targets, TargetHosts)'
  BY <1>5, OneAnswer DEF RefuseEarly, At, Answers
<1>6. ASSUME NEW c \in Calls, CutOff(c)
      PROVE  EndpointsInv(Targets, TargetHosts)'
  BY <1>6, OneAnswer DEF CutOff, Answers
<1> QED
  BY <1>2, <1>3, <1>4, <1>5, <1>6, SendStep, BeginReservationStep, ReserveSlotStep,
     ReservationFailsStep, ReadTargetStep, AskProviderStep, FetchStep
     DEF EndpointsNext, Serve

(* 36:218, serverAiSummaryThrottle.ts:59.  Whatever sources and updates     *)
(* there are and however the calls overlap, in no window do more calls of   *)
(* an administrator, or of all of them, reach out than the rule allows.     *)
THEOREM CeilingsHold ==
  ASSUME NEW Targets, NEW TargetHosts, NEW rows \in [Targets -> TargetRow(TargetHosts)],
         NEW budget
  PROVE  EndpointsInit(rows, budget) /\ [][EndpointsNext]_endpointVars => []CallsWithinCeiling
<1>1. EndpointsInit(rows, budget) => EndpointsInv(Targets, TargetHosts)
  <2> SUFFICES ASSUME EndpointsInit(rows, budget)
               PROVE  EndpointsInv(Targets, TargetHosts)
    OBVIOUS
  <2>1. NoCall \in CallRow(Targets, TargetHosts) /\ NoCall.step = "unsent" /\ ~NoCall.reserved
    BY DEF NoCall, CallRow, Steps
  <2>2. calls = [c \in Calls |-> NoCall] /\ attempts = {} /\ contacts = {}
        /\ clock = 1 /\ stored = rows
    BY DEF EndpointsInit
  <2>3. EndpointsTypeOK(Targets, TargetHosts)
    BY <2>1, <2>2, FS_EmptySet DEF EndpointsTypeOK
  <2>4. RecordedIsCounted /\ CountedFirst
    BY <2>1, <2>2 DEF RecordedIsCounted, CountedFirst, Early, Passed, Contacted
  <2>5. Ceiling
    <3> SUFFICES ASSUME NEW end \in Endpoints, NEW a \in Callers, NEW last \in Nat,
                        NEW rule \in Rules[end]
                 PROVE  Cardinality(LetOut(rule, end, a, last)) <= rule.max
      BY DEF Ceiling
    <3>1. LetOut(rule, end, a, last) = {}
      BY <2>1, <2>2 DEF LetOut, Under
    <3>2. Cardinality(LetOut(rule, end, a, last)) = 0 /\ rule.max \in Nat
      BY <3>1, FS_EmptySet, RulesAssumption
    <3> QED
      BY <3>2
  <2> QED
    BY <2>3, <2>4, <2>5 DEF EndpointsInv
<1>2. EndpointsInv(Targets, TargetHosts) => CallsWithinCeiling
  <2> SUFFICES ASSUME EndpointsInv(Targets, TargetHosts),
                      NEW end \in Endpoints, NEW a \in Callers, NEW last \in 1..clock,
                      NEW rule \in Rules[end]
               PROVE  Cardinality({c \in Under(rule, end, a, last) :
                                     \E x \in contacts : x.call = c}) <= rule.max
    BY DEF CallsWithinCeiling
  <2> DEFINE out == {c \in Under(rule, end, a, last) : \E x \in contacts : x.call = c}
             S == LetOut(rule, end, a, last)
  <2>1. last \in Nat
    BY DEF EndpointsInv, EndpointsTypeOK
  <2>2. out \in SUBSET S
    BY DEF LetOut, Contacted
  <2>3. IsFiniteSet(S)
    BY LetOutIsFinite
  <2>4. Cardinality(S) <= rule.max /\ rule.max \in Nat
    BY <2>1, RulesAssumption DEF EndpointsInv, Ceiling
  <2> HIDE DEF out, S
  <2>5. Cardinality(out) <= Cardinality(S) /\ Cardinality(S) \in Nat /\ Cardinality(out) \in Nat
    BY <2>2, <2>3, FS_Subset, FS_CardinalityType
  <2> QED
    BY <2>4, <2>5 DEF out
<1> QED
  BY <1>1, <1>2, EndpointsStep, PTL

-----------------------------------------------------------------------------
(* The page of an administrator.                                           *)

DeskTables == {"sources", "updates", "reviews", "rules", "alerts", "trail"}
Subjects == {"updates", "reviews", "rules", "alerts", "sources"}
Actions == {"legal_update_created", "sent_to_legal_review", "legal_update_archived",
            "rule_approved", "rule_suggested", "legal_update_reviewed", "alert_created"}
(* 9:34-82.  What the CHECKs of the four tables admit, and the tiers.       *)
Marks == {"new", "needs_review", "reviewed", "rule_suggested", "sent_to_legal", "archived",
          "rejected", "pending", "in_review", "draft", "suggested", "approved", "active",
          "paused", "retired", "open", "blocked", "resolved", "dismissed"} \cup Nat
Bearers == Nat \cup Subjects \cup (Subjects \X Nat) \cup {SourceOf[i] : i \in Items}
DeskRow == [of : Bearers, status : Actions \cup Marks, by : Admins \cup {Nil}]
DeskCall == [table : DeskTables, id : Nat, row : DeskRow]

IsJob(j) == j = [calls |-> j.calls, subject |-> j.subject, about |-> j.about, item |-> j.item,
                 made |-> j.made, view |-> j.view, law |-> j.law]
IsPage(p) == /\ p = [open |-> p.open, load |-> p.load, lists |-> p.lists, drafted |-> p.drafted,
                     pasted |-> p.pasted]
             /\ p.lists = [t \in Lists |-> p.lists[t]]

DeskTypeOK ==
  /\ db \in [DeskTables -> Seq(DeskRow)]
  /\ page = [a \in Admins |-> page[a]] /\ \A a \in Admins : IsPage(page[a])
  /\ job = [a \in Admins |-> [flag \in Flags |-> job[a][flag]]]
  /\ \A a \in Admins, flag \in Flags : IsJob(job[a][flag])

(* A list of the browser names rows of the table.                          *)
Listed(t, list, d) == DOMAIN list \subseteq DOMAIN d[t]

(* A call patches a row that exists.                                       *)
CallHolds(c, d) ==
  /\ c \in DeskCall
  /\ c.id # 0 => c.id \in DOMAIN d[c.table]
  /\ c.table = "trail" => c.id = 0 /\ c.row.of \in Subjects

(* The last call of a handler is its audit entry, about a row by then.     *)
EndsAudited(a, subject, about, asked) ==
  subject # "sources" =>
    /\ \A i \in 1 .. Len(asked) :
         /\ asked[i].table = "trail" <=> i = Len(asked)
         /\ asked[i].table = "trail" => asked[i].row.of = subject /\ asked[i].row.by = a
    /\ asked # <<>> /\ about = 0 => asked[1].table # "trail"

Wrote(m, d) == m.table \in DeskTables /\ m.id \in DOMAIN d[m.table]

JobHolds(a, j, d) ==
  /\ j.calls \in Seq(DeskCall) /\ \A i \in 1 .. Len(j.calls) : CallHolds(j.calls[i], d)
  /\ j.about \in Nat
  /\ DOMAIN j.view \subseteq Lists /\ \A t \in DOMAIN j.view : Listed(t, j.view[t], d)
  /\ \A m \in j.made : Wrote(m, d)
  /\ EndsAudited(a, j.subject, j.about, j.calls)

PageHolds(p, d) ==
  /\ \A t \in Lists : Listed(t, p.lists[t], d)
  /\ p.load # Nil => p.load = [t \in Lists |-> p.load[t]] /\ \A t \in Lists : Listed(t, p.load[t], d)

DeskInv ==
  /\ DeskTypeOK
  /\ \A a \in Admins : PageHolds(page[a], db)
  /\ \A a \in Admins, flag \in Flags : JobHolds(a, job[a][flag], db)
  /\ SavedMeansAudited

(* Rows are never deleted. *)
Later(d, e) == \A t \in DeskTables : DOMAIN d[t] \subseteq DOMAIN e[t]

LEMMA StaysListed ==
  ASSUME NEW d, NEW e, Later(d, e),
         NEW t \in DeskTables, NEW list, Listed(t, list, d)
  PROVE  Listed(t, list, e)
BY DEF Later, Listed

LEMMA ListsAreTables == Lists \subseteq DeskTables
BY DEF Lists, DeskTables

LEMMA CallStays ==
  ASSUME NEW d, NEW e, Later(d, e),
         NEW c, CallHolds(c, d)
  PROVE  CallHolds(c, e)
BY DEF Later, CallHolds, DeskCall

LEMMA JobStays ==
  ASSUME NEW d, NEW e, Later(d, e),
         NEW a, NEW j, JobHolds(a, j, d)
  PROVE  JobHolds(a, j, e)
<1>1. \A i \in 1 .. Len(j.calls) : CallHolds(j.calls[i], e)
  BY CallStays DEF JobHolds
<1>2. \A t \in DOMAIN j.view : Listed(t, j.view[t], e)
  BY StaysListed, ListsAreTables DEF JobHolds
<1>3. \A m \in j.made : Wrote(m, e)
  BY DEF JobHolds, Wrote, Later
<1> QED
  BY <1>1, <1>2, <1>3 DEF JobHolds

LEMMA PageStays ==
  ASSUME NEW d, NEW e, Later(d, e),
         NEW p, PageHolds(p, d)
  PROVE  PageHolds(p, e)
BY StaysListed, ListsAreTables DEF PageHolds

LEMMA NoJobHolds ==
  ASSUME NEW a, NEW d
  PROVE  IsJob(NoJob) /\ JobHolds(a, NoJob, d)
<1>1. /\ NoJob.calls = <<>> /\ NoJob.about = 0 /\ NoJob.made = {} /\ NoJob.view = <<>>
      /\ IsJob(NoJob)
  BY DEF NoJob, IsJob
<1>2. <<>> \in Seq(DeskCall) /\ Len(<<>>) = 0 /\ DOMAIN <<>> = {}
  OBVIOUS
<1> QED
  BY <1>1, <1>2 DEF JobHolds, EndsAudited
-----------------------------------------------------------------------------
(* What a page may take to be in force.                                    *)

(* The rules that went out of force by no call that the page of a heard of *)
(* as done; those in force join them in what the page may go by.           *)
Unseen(a) == {x.rule : x \in {y \in lapses : y.by # a \/ ~y.heard}}
Standing(a) == RulesInForce(db) \cup Unseen(a)

Shows(list, standing) == \A n \in DOMAIN list : InForce(list[n]) => n \in standing

(* A page shows a rule as in force only if it may go by it; the lists under *)
(* way name no rule that the page has of its own handlers.                 *)
PageLinks(p, standing) ==
  /\ Shows(p.lists["rules"], standing)
  /\ p.load # Nil => /\ Shows(p.load["rules"], standing)
                     /\ DOMAIN p.load["rules"] \cap DOMAIN p.lists["rules"] = {}
  /\ p.open \/ p = ClosedPage

RulesMade(j) == {m \in j.made : m.table = "rules"}
IdsMade(j) == {m.id : m \in RulesMade(j)}

(* A rule is patched by the first of two calls, the other the entry.       *)
PatchIsAlone(j) ==
  \A i \in 1 .. Len(j.calls) : j.calls[i].table = "rules" /\ j.calls[i].id # 0 =>
    /\ i = 1 /\ Len(j.calls) = 2 /\ j.calls[2].table = "trail"
    /\ j.made = {} /\ j.calls[i].id \in DOMAIN j.view["rules"]

(* Rules are written under the flag busy, by handlers drawn with the rules. *)
OnlyBusy(flag, j) ==
  /\ \A i \in 1 .. Len(j.calls) : j.calls[i].table = "rules" => flag = "busy" /\ "rules" \in DOMAIN j.view
  /\ RulesMade(j) # {} => flag = "busy" /\ "rules" \in DOMAIN j.view
  /\ "rules" \in DOMAIN j.view => flag = "busy"

(* What it will set the list of rules from.                                *)
DrawsOn(j, load, standing) ==
  /\ "rules" \in DOMAIN j.view => \A n \in DOMAIN j.view["rules"] :
       /\ InForce(j.view["rules"][n]) => n \in standing \cup IdsMade(j)
       /\ load # Nil => n \notin DOMAIN load["rules"]
  /\ \A m \in RulesMade(j) : /\ InForce(m.row) => m.id \in standing
                             /\ load # Nil => m.id \notin DOMAIN load["rules"]

(* The rules that its alerts will name.                                    *)
MayLink(j, unseen) ==
  \A i \in 1 .. Len(j.calls) :
    j.calls[i].table = "alerts" /\ j.calls[i].id = 0 => j.calls[i].row.of \in j.law \cup {0} \cup unseen

JobLinks(flag, j, load, standing, unseen) ==
  PatchIsAlone(j) /\ OnlyBusy(flag, j) /\ DrawsOn(j, load, standing) /\ MayLink(j, unseen)

LinkInv ==
  /\ \A a \in Admins : PageLinks(page[a], Standing(a))
  /\ \A a \in Admins, flag \in Flags :
       /\ JobLinks(flag, job[a][flag], page[a].load, Standing(a), Unseen(a))
       /\ page[a].open \/ job[a][flag] = NoJob
  /\ LapsedLinkWasUnseen

LEMMA StandingStill ==
  ASSUME NEW s, NEW x, NEW t, NEW y, s \subseteq t, x \subseteq y
  PROVE  /\ \A p : PageLinks(p, s) => PageLinks(p, t)
         /\ \A flag, j, load : JobLinks(flag, j, load, s, x) => JobLinks(flag, j, load, t, y)
BY DEF PageLinks, Shows, JobLinks, DrawsOn, MayLink

LEMMA NoJobLinks ==
  ASSUME NEW flag, NEW load, NEW s, NEW x
  PROVE  JobLinks(flag, NoJob, load, s, x)
<1>1. /\ NoJob.calls = <<>> /\ NoJob.made = {} /\ NoJob.view = <<>>
  BY DEF NoJob
<1>2. Len(<<>>) = 0 /\ DOMAIN <<>> = {}
  OBVIOUS
<1> QED
  BY <1>1, <1>2 DEF JobLinks, PatchIsAlone, OnlyBusy, DrawsOn, MayLink, RulesMade
-----------------------------------------------------------------------------
(* What a button may begin, of that.                                       *)
KeepsLinks(a, flag, lists, asked) ==
  /\ "rules" \in lists => flag = "busy"
  /\ \A i \in 1 .. Len(asked) :
       /\ asked[i].table = "rules" => "rules" \in lists
       /\ asked[i].table = "rules" /\ asked[i].id # 0 =>
            /\ i = 1 /\ Len(asked) = 2 /\ asked[2].table = "trail"
            /\ asked[i].id \in DOMAIN page[a].lists["rules"]
       /\ asked[i].table = "alerts" /\ asked[i].id = 0 => asked[i].row.of \in Standing(a) \cup {0}

LEMMA PressKeeps ==
  ASSUME DeskInv, NEW a \in Admins, NEW flag \in Flags, NEW subject, NEW about \in Nat,
         NEW item, NEW lists \in SUBSET Lists, NEW asked \in Seq(DeskCall),
         \A i \in 1 .. Len(asked) : CallHolds(asked[i], db),
         EndsAudited(a, subject, about, asked),
         Press(a, flag, subject, about, item, lists, asked)
  PROVE  DeskInv' /\ (LinkInv /\ KeepsLinks(a, flag, lists, asked) => LinkInv')
<1> DEFINE new == [calls |-> asked, subject |-> subject, about |-> about, item |-> item,
                   made |-> {}, view |-> [t \in lists |-> page[a].lists[t]], law |-> RulesInForce(db)]
<1>1. job' = [job EXCEPT ![a][flag] = new] /\ UNCHANGED <<db, page, told, lapses, outdated>>
  BY DEF Press
<1>2. IsJob(new)
  BY DEF IsJob
<1>3. JobHolds(a, new, db)
  <2>1. \A t \in lists : Listed(t, page[a].lists[t], db)
    BY DEF DeskInv, PageHolds
  <2> QED
    BY <2>1 DEF JobHolds
<1> HIDE DEF new
<1>4. /\ job' = [b \in Admins |-> [g \in Flags |-> job'[b][g]]]
      /\ \A b \in Admins, g \in Flags : job'[b][g] = IF b = a /\ g = flag THEN new ELSE job[b][g]
  BY ZenonT(60), <1>1 DEF DeskInv, DeskTypeOK
<1>5. DeskTypeOK'
  BY <1>1, <1>2, <1>4 DEF DeskInv, DeskTypeOK
<1>6. \A b \in Admins, g \in Flags : JobHolds(b, job'[b][g], db')
  BY <1>1, <1>3, <1>4 DEF DeskInv
<1>7. ASSUME LinkInv, KeepsLinks(a, flag, lists, asked)
      PROVE  LinkInv'
  <2>1. /\ new.calls = asked /\ new.made = {} /\ new.law = RulesInForce(db)
        /\ DOMAIN new.view = lists /\ \A t \in lists : new.view[t] = page[a].lists[t]
    BY DEF new
  <2>2. PageLinks(page[a], Standing(a)) /\ page[a].open
    BY <1>7 DEF LinkInv, Press
  <2>3. JobLinks(flag, new, page[a].load, Standing(a), Unseen(a))
    <3>1. RulesMade(new) = {}
      BY <2>1 DEF RulesMade
    <3>2. PatchIsAlone(new) /\ OnlyBusy(flag, new)
      BY <1>7, <2>1, <3>1 DEF KeepsLinks, PatchIsAlone, OnlyBusy
    <3>3. MayLink(new, Unseen(a))
      BY <1>7, <2>1 DEF KeepsLinks, MayLink, Standing
    <3>4. DrawsOn(new, page[a].load, Standing(a))
      BY <2>1, <2>2, <3>1 DEF DrawsOn, PageLinks, Shows
    <3> QED
      BY <3>2, <3>3, <3>4 DEF JobLinks
  <2>4. \A b \in Admins : Standing(b)' = Standing(b) /\ Unseen(b)' = Unseen(b)
    BY <1>1 DEF Standing, Unseen
  <2>5. ASSUME NEW b \in Admins, NEW g \in Flags
        PROVE  /\ JobLinks(g, job'[b][g], page[b].load, Standing(b), Unseen(b))
               /\ page[b].open \/ job'[b][g] = NoJob
    BY <1>4, <1>7, <2>2, <2>3 DEF LinkInv
  <2> QED
    BY <1>1, <1>7, <2>4, <2>5 DEF LinkInv, LapsedLinkWasUnseen
<1> QED
  BY <1>1, <1>5, <1>6, <1>7 DEF DeskInv, SavedMeansAudited
-----------------------------------------------------------------------------
(* An answer.                                                              *)

(* The row that a call writes. *)
LEMMA ResolvedRow ==
  ASSUME DeskInv, NEW j, j.about \in Nat, NEW c, CallHolds(c, db)
  PROVE  LET row == Resolved(db, j, c) IN
         /\ row \in DeskRow
         /\ c.table = "trail" => row.of = <<c.row.of, j.about>> /\ row.by = c.row.by
         /\ c.table = "alerts" =>
              row.of = IF c.id = 0 THEN c.row.of ELSE db["alerts"][c.id].of
<1> DEFINE row == Resolved(db, j, c)
<1>1. c.row \in DeskRow /\ c.table \in DeskTables /\ c.id \in Nat
  BY DEF CallHolds, DeskCall
<1>2. CASE c.id # 0
  <2> DEFINE old == db[c.table][c.id]
  <2>1. old \in DeskRow
    BY <1>1, <1>2 DEF CallHolds, DeskInv, DeskTypeOK
  <2>2. row = [old EXCEPT !.status = c.row.status, !.by = IF c.row.by = Nil THEN @ ELSE c.row.by]
    BY <1>2 DEF Resolved
  <2> HIDE DEF old
  <2>3. row \in DeskRow /\ row.of = old.of
    BY <1>1, <2>1, <2>2 DEF DeskRow
  <2> QED
    BY <1>2, <2>3 DEF CallHolds, old
<1>3. CASE c.id = 0 /\ c.table = "trail"
  <2>1. row = [c.row EXCEPT !.of = <<@, j.about>>]
    BY <1>3 DEF Resolved
  <2>2. c.row.of \in Subjects
    BY <1>3 DEF CallHolds
  <2>3. row \in DeskRow /\ row.of = <<c.row.of, j.about>> /\ row.by = c.row.by
    BY <1>1, <2>1, <2>2 DEF DeskRow, Bearers
  <2> QED
    BY <1>3, <2>3
<1>4. CASE c.id = 0 /\ c.table = "reviews"
  <2>1. row = [c.row EXCEPT !.of = j.about]
    BY <1>4 DEF Resolved
  <2>2. row \in DeskRow
    BY <1>1, <2>1 DEF DeskRow, Bearers
  <2> QED
    BY <1>4, <2>2
<1>5. CASE c.id = 0 /\ c.table \notin {"trail", "reviews"}
  <2>1. row = c.row
    BY <1>5 DEF Resolved
  <2> QED
    BY <1>1, <1>5, <2>1
<1> QED
  BY <1>2, <1>3, <1>4, <1>5

(* A call that takes effect puts its row in its place, and nothing else. *)
LEMMA RowIsWritten ==
  ASSUME DeskInv, NEW c, CallHolds(c, db), NEW row \in DeskRow
  PROVE  LET e == Written(db, c, row)
             id == RowId(db, c)
         IN /\ e \in [DeskTables -> Seq(DeskRow)]
            /\ \A t \in DeskTables : DOMAIN db[t] \subseteq DOMAIN e[t]
            /\ id \in Nat \ {0} /\ id \in DOMAIN e[c.table] /\ e[c.table][id] = row
            /\ \A t \in DeskTables : \A n \in DOMAIN e[t] :
                 \/ t = c.table /\ n = id
                 \/ n \in DOMAIN db[t] /\ e[t][n] = db[t][n]
            /\ c.id = 0 => \A n \in DOMAIN db[c.table] : e[c.table][n] = db[c.table][n]
<1> DEFINE e == Written(db, c, row)
           id == RowId(db, c)
           old == db[c.table]
           now == e[c.table]
<1>1. /\ c.table \in DeskTables /\ c.id \in Nat /\ db \in [DeskTables -> Seq(DeskRow)]
      /\ old \in Seq(DeskRow)
  BY DEF CallHolds, DeskCall, DeskInv, DeskTypeOK
<1>2. /\ e = [db EXCEPT ![c.table] = now]
      /\ now = IF c.id = 0 THEN Append(old, row) ELSE [old EXCEPT ![c.id] = row]
  BY <1>1 DEF Written
<1>3. id = IF c.id = 0 THEN Len(old) + 1 ELSE c.id
  BY DEF RowId
<1>4. c.id # 0 => c.id \in DOMAIN old
  BY DEF CallHolds
<1> HIDE DEF e, id
<1>5. /\ now \in Seq(DeskRow) /\ DOMAIN old \subseteq DOMAIN now
      /\ id \in Nat \ {0} /\ id \in DOMAIN now /\ now[id] = row
      /\ \A n \in DOMAIN now : n # id => n \in DOMAIN old /\ now[n] = old[n]
      /\ c.id = 0 => \A n \in DOMAIN old : now[n] = old[n]
  <2> HIDE DEF now, old
  <2> DEFINE size == Len(old)
  <2>3. size \in Nat /\ DOMAIN old = 1 .. size
    BY <1>1
  <2>1. CASE c.id = 0
    <3>1. now = Append(old, row) /\ id = size + 1
      BY <1>2, <1>3, <2>1
    <3>2. /\ now \in Seq(DeskRow) /\ Len(now) = size + 1 /\ DOMAIN now = 1 .. size + 1
          /\ now[size + 1] = row /\ \A k \in 1 .. size : now[k] = old[k]
      BY <1>1, <3>1
    <3>3. \A k \in 1 .. size + 1 : k = size + 1 \/ k \in 1 .. size
      BY <2>3
    <3>4. ASSUME NEW k \in DOMAIN now, k # id
          PROVE  k \in DOMAIN old /\ now[k] = old[k]
      <4>1. k \in 1 .. size + 1 /\ k # size + 1
        BY <3>1, <3>2, <3>4
      <4>2. k \in 1 .. size
        BY <3>3, <4>1
      <4> QED
        BY <2>3, <3>2, <4>2
    <3>5. id \in Nat \ {0} /\ id \in DOMAIN now /\ DOMAIN old \subseteq DOMAIN now
      BY <2>3, <3>1, <3>2
    <3> QED
      BY <2>3, <3>1, <3>2, <3>4, <3>5
  <2>2. CASE c.id # 0
    <3>1. now = [old EXCEPT ![c.id] = row] /\ id = c.id /\ c.id \in 1 .. Len(old)
      BY <1>1, <1>2, <1>3, <1>4, <2>2
    <3>2. /\ now \in Seq(DeskRow) /\ Len(now) = Len(old)
          /\ \A n \in 1 .. Len(old) : now[n] = IF n = c.id THEN row ELSE old[n]
      BY <1>1, <3>1, ExceptSeq
    <3>3. DOMAIN now = 1 .. size
      BY <2>3, <3>1
    <3>4. id \in Nat \ {0} /\ id \in DOMAIN now /\ now[id] = row
      BY <2>3, <3>1, <3>2, <3>3
    <3>5. ASSUME NEW k \in DOMAIN now, k # id
          PROVE  k \in DOMAIN old /\ now[k] = old[k]
      <4>1. k \in 1 .. size /\ now[k] = old[k]
        BY <3>1, <3>2, <3>3, <3>5
      <4> QED
        BY <2>3, <4>1
    <3> QED
      BY <2>2, <2>3, <3>2, <3>3, <3>4, <3>5
  <2> QED
    BY <2>1, <2>2
<1> HIDE DEF now
<1>6. e \in [DeskTables -> Seq(DeskRow)] /\ e[c.table] = now
      /\ \A t \in DeskTables : t # c.table => e[t] = db[t]
  BY <1>1, <1>2, <1>5
<1> QED
  BY <1>1, <1>5, <1>6 DEF e, id

(* A heard or unheard answer of one call of a handler.                     *)
LEMMA AnswerKeeps ==
  ASSUME DeskInv, NEW a \in Admins, NEW flag \in Flags, Answer(a, flag)
  PROVE  DeskInv' /\ (LinkInv => LinkInv')
<1>0. PICK f \in Outcomes :
      LET j == job[a][flag]
          c == Head(j.calls)
          row == Resolved(db, j, c)
          ok == f # "refused" /\ Permitted(db, c, row)
          heard == ok /\ f = "done"
          next == [j EXCEPT !.calls = Tail(@), !.about = IF @ = 0 THEN RowId(db, c) ELSE @,
                            !.made = @ \cup {[table |-> c.table, id |-> RowId(db, c), row |-> row]}]
          over == ~heard \/ next.calls = <<>>
          result == Result(heard, c)
          draw == heard /\ Len(next.calls) = 1 /\ Head(next.calls).table = "trail"
      IN /\ db' = IF ok THEN Written(db, c, row) ELSE db
         /\ lapses' = lapses \cup [rule : RulesInForce(db) \ RulesInForce(db'), by : {a}, heard : {heard}]
         /\ outdated' = IF ok /\ c.table = "alerts" /\ c.id = 0 /\ row.of \notin j.law \cup {0}
                        THEN outdated \cup {[by |-> a, rule |-> row.of, status |-> row.status]} ELSE outdated
         /\ job' = [job EXCEPT ![a][flag] = IF over THEN NoJob ELSE next]
         /\ told' = IF over THEN told \cup {[by |-> a, subject |-> j.subject, about |-> next.about, result |-> result]}
                    ELSE told
         /\ page' = [page EXCEPT
                ![a].lists = IF draw THEN [t \in Lists |-> IF t \in DOMAIN j.view THEN Redrawn(next, t) ELSE @[t]]
                             ELSE @,
                ![a].drafted = IF over /\ result = "saved" /\ j.item # Nil THEN @ \cup {j.item} ELSE @,
                ![a].pasted = IF over /\ result = "saved" /\ flag = "monitoringBusy" THEN FALSE ELSE @]
  BY DEF Answer
<1> DEFINE j == job[a][flag]
           c == Head(j.calls)
           row == Resolved(db, j, c)
           id == RowId(db, c)
           ok == f # "refused" /\ Permitted(db, c, row)
           heard == ok /\ f = "done"
           next == [j EXCEPT !.calls = Tail(@), !.about = IF @ = 0 THEN id ELSE @,
                             !.made = @ \cup {[table |-> c.table, id |-> id, row |-> row]}]
           over == ~heard \/ next.calls = <<>>
           result == Result(heard, c)
           draw == heard /\ Len(next.calls) = 1 /\ Head(next.calls).table = "trail"
           after == IF over THEN NoJob ELSE next
           drawn == IF draw THEN [t \in Lists |-> IF t \in DOMAIN j.view THEN Redrawn(next, t) ELSE page[a].lists[t]]
                    ELSE page[a].lists
           others == Tail(j.calls)
<1>1. /\ JobHolds(a, j, db) /\ IsJob(j)
      /\ j.calls \in Seq(DeskCall) /\ j.calls # <<>> /\ j.about \in Nat
  BY DEF DeskInv, DeskTypeOK, JobHolds, Answer, Running
<1>2. /\ c = j.calls[1] /\ 1 \in 1 .. Len(j.calls) /\ Len(j.calls) \in Nat
      /\ others \in Seq(DeskCall) /\ Len(others) = Len(j.calls) - 1
      /\ \A i \in 1 .. Len(others) : i + 1 \in 1 .. Len(j.calls) /\ others[i] = j.calls[i + 1]
  <2> HIDE DEF j, row, id, ok, heard, next, over, result, draw, after, drawn
  <2>1. /\ others \in Seq(DeskCall) /\ Len(others) = Len(j.calls) - 1
        /\ \A i \in 1 .. Len(others) : others[i] = j.calls[i + 1]
    BY <1>1, HeadTailProperties
  <2> HIDE DEF others
  <2>2. Len(j.calls) \in Nat \ {0} /\ c = j.calls[1]
    BY <1>1, EmptySeq
  <2> HIDE DEF c
  <2> QED
    BY <2>1, <2>2
<1>3. CallHolds(c, db) /\ c \in DeskCall
  BY <1>1, <1>2 DEF JobHolds, CallHolds
<1>4. /\ row \in DeskRow
      /\ c.table = "trail" => row.of = <<c.row.of, j.about>> /\ row.by = c.row.by
      /\ c.table = "alerts" => row.of = IF c.id = 0 THEN c.row.of ELSE db["alerts"][c.id].of
  BY <1>1, <1>3, ResolvedRow
<1> DEFINE e == Written(db, c, row)
<1>5. /\ e \in [DeskTables -> Seq(DeskRow)]
      /\ \A t \in DeskTables : DOMAIN db[t] \subseteq DOMAIN e[t]
      /\ id \in Nat \ {0} /\ id \in DOMAIN e[c.table] /\ e[c.table][id] = row
      /\ \A t \in DeskTables : \A n \in DOMAIN e[t] :
           \/ t = c.table /\ n = id
           \/ n \in DOMAIN db[t] /\ e[t][n] = db[t][n]
      /\ c.id = 0 => \A n \in DOMAIN db[c.table] : e[c.table][n] = db[c.table][n]
  BY <1>3, <1>4, RowIsWritten
<1>6. /\ next.calls = others /\ next.subject = j.subject /\ next.item = j.item
      /\ next.view = j.view /\ next.about = IF j.about = 0 THEN id ELSE j.about
      /\ next.made = j.made \cup {[table |-> c.table, id |-> id, row |-> row]}
      /\ IsJob(next)
  <2>1. next = [j EXCEPT !.calls = others, !.about = IF @ = 0 THEN id ELSE @,
                         !.made = @ \cup {[table |-> c.table, id |-> id, row |-> row]}]
    OBVIOUS
  <2> HIDE DEF c, row, id, others, j, next
  <2> QED
    BY <1>1, <2>1 DEF IsJob
<1>7. /\ db' = IF ok THEN e ELSE db
      /\ lapses' = lapses \cup [rule : RulesInForce(db) \ RulesInForce(db'), by : {a}, heard : {heard}]
      /\ outdated' = IF ok /\ c.table = "alerts" /\ c.id = 0 /\ row.of \notin j.law \cup {0}
                     THEN outdated \cup {[by |-> a, rule |-> row.of, status |-> row.status]} ELSE outdated
      /\ job' = [job EXCEPT ![a][flag] = after]
      /\ told' = IF over THEN told \cup {[by |-> a, subject |-> j.subject, about |-> next.about, result |-> result]}
                 ELSE told
      /\ result = "saved" => heard
      /\ heard => ok
      /\ over <=> ~heard \/ next.calls = <<>>
  BY <1>0 DEF Result
<1>8. /\ page' = [b \in Admins |-> page'[b]] /\ \A b \in Admins : IsPage(page'[b])
      /\ \A b \in Admins : b # a => page'[b] = page[b]
      /\ page'[a].lists = drawn /\ page'[a].load = page[a].load /\ page'[a].open = page[a].open
  <2>1. page = [b \in Admins |-> page[b]] /\ \A b \in Admins : IsPage(page[b])
    BY DEF DeskInv, DeskTypeOK
  <2>2. drawn = [t \in Lists |-> drawn[t]]
    BY <2>1 DEF IsPage
  <2>3. page' = [page EXCEPT
           ![a].lists = drawn,
           ![a].drafted = IF over /\ result = "saved" /\ j.item # Nil THEN @ \cup {j.item} ELSE @,
           ![a].pasted = IF over /\ result = "saved" /\ flag = "monitoringBusy" THEN FALSE ELSE @]
    BY <1>0
  <2> HIDE DEF j, c, row, id, ok, heard, next, over, result, draw, after, drawn, others
  <2>4. /\ DOMAIN page' = Admins /\ \A b \in Admins : b # a => page'[b] = page[b]
        /\ page' = [b \in Admins |-> page'[b]]
    BY <2>1, <2>3
  <2>5. page'[a] = [page[a] EXCEPT !.lists = drawn,
           !.drafted = IF over /\ result = "saved" /\ j.item # Nil THEN @ \cup {j.item} ELSE @,
           !.pasted = IF over /\ result = "saved" /\ flag = "monitoringBusy" THEN FALSE ELSE @]
    BY <2>1, <2>3
  <2>6. /\ page'[a].lists = drawn /\ page'[a].load = page[a].load /\ page'[a].open = page[a].open
        /\ IsPage(page'[a])
    BY <2>1, <2>2, <2>5 DEF IsPage
  <2> QED
    BY <2>1, <2>4, <2>6
<1> HIDE DEF c, row, id, ok, heard, next, over, result, draw, after, others, e, j
<1>9. Later(db, db') /\ db' \in [DeskTables -> Seq(DeskRow)]
  BY <1>5, <1>7 DEF Later, DeskInv, DeskTypeOK
<1>11. ASSUME heard
       PROVE  Wrote([table |-> c.table, id |-> id, row |-> row], db')
  <2>1. c.table \in DeskTables /\ id \in DOMAIN db'[c.table]
    BY <1>3, <1>5, <1>7, <1>11 DEF DeskCall
  <2> QED
    BY <2>1 DEF Wrote
<1>12. ASSUME heard
       PROVE  JobHolds(a, next, db')
  <2>1. \A i \in 1 .. Len(others) : CallHolds(others[i], db')
    BY <1>1, <1>2, <1>9, CallStays DEF JobHolds
  <2>2. \A t \in DOMAIN j.view : Listed(t, j.view[t], db')
    BY <1>1, <1>9, StaysListed, ListsAreTables DEF JobHolds
  <2>3. \A m \in next.made : Wrote(m, db')
    <3>1. \A m \in j.made : Wrote(m, db')
      BY <1>1, <1>9 DEF JobHolds, Wrote, Later
    <3> QED
      BY <1>6, <1>11, <1>12, <3>1
  <2>4. next.about \in Nat /\ next.about # 0
    BY <1>1, <1>5, <1>6
  <2>5. EndsAudited(a, next.subject, next.about, next.calls)
    <3> SUFFICES ASSUME j.subject # "sources", NEW i \in 1 .. Len(others)
                 PROVE  /\ others[i].table = "trail" <=> i = Len(others)
                        /\ others[i].table = "trail" => others[i].row.of = j.subject /\ others[i].row.by = a
      BY <1>6, <2>4 DEF EndsAudited
    <3>1. /\ i + 1 \in 1 .. Len(j.calls) /\ others[i] = j.calls[i + 1]
          /\ i + 1 = Len(j.calls) <=> i = Len(others)
      BY <1>2
    <3> QED
      BY <1>1, <3>1 DEF JobHolds, EndsAudited
  <2> QED
    BY <1>1, <1>2, <1>6, <2>1, <2>2, <2>3, <2>4, <2>5 DEF JobHolds
<1>13. \A b \in Admins, g \in Flags : IsJob(job'[b][g]) /\ JobHolds(b, job'[b][g], db')
  <2>1. \A b \in Admins, g \in Flags : job'[b][g] = IF b = a /\ g = flag THEN after ELSE job[b][g]
    BY <1>7 DEF DeskInv, DeskTypeOK
  <2>2. IsJob(after) /\ JobHolds(a, after, db')
    BY <1>6, <1>7, <1>12, NoJobHolds DEF after
  <2>3. ASSUME NEW b \in Admins, NEW g \in Flags
        PROVE  IsJob(job[b][g]) /\ JobHolds(b, job[b][g], db')
    BY <1>9, JobStays DEF DeskInv, DeskTypeOK
  <2> QED
    BY <2>1, <2>2, <2>3
<1>14. DeskTypeOK'
  <2>1. job' = [b \in Admins |-> [g \in Flags |-> job'[b][g]]]
    BY <1>7 DEF DeskInv, DeskTypeOK
  <2> QED
    BY <1>8, <1>9, <1>13, <2>1 DEF DeskTypeOK
<1>15. \A b \in Admins : PageHolds(page'[b], db')
  <2>1. \A b \in Admins : PageHolds(page[b], db')
    BY <1>9, PageStays DEF DeskInv
  <2>2. ASSUME NEW t \in Lists, t \in DOMAIN j.view, heard
        PROVE  Listed(t, Redrawn(next, t), db')
    <3>1. Listed(t, j.view[t], db')
      BY <1>12, <2>2, <1>6 DEF JobHolds
    <3>2. \A m \in next.made : Wrote(m, db')
      BY <1>12, <2>2 DEF JobHolds
    <3> DEFINE wrote == {m \in next.made : m.table = t}
               list == Redrawn(next, t)
    <3>3. /\ DOMAIN list = DOMAIN j.view[t] \cup {m.id : m \in wrote}
          /\ \A n \in DOMAIN list :
               \/ \E m \in wrote : m.id = n /\ list[n] = m.row
               \/ n \in DOMAIN j.view[t] /\ list[n] = j.view[t][n]
      BY <1>6 DEF Redrawn
    <3>4. \A m \in wrote : m.id \in DOMAIN db'[t]
      BY <3>2 DEF Wrote
    <3>5. DOMAIN j.view[t] \subseteq DOMAIN db'[t]
      BY <3>1 DEF Listed
    <3> HIDE DEF list, wrote
    <3>6. DOMAIN list \subseteq DOMAIN db'[t]
      BY <3>3, <3>4, <3>5
    <3> QED
      BY <3>6 DEF Listed, list
  <2>3. \A t \in Lists : Listed(t, drawn[t], db')
    BY <1>7, <2>1, <2>2 DEF PageHolds, draw
  <2> HIDE DEF drawn
  <2> QED
    BY <1>8, <2>1, <2>3 DEF PageHolds
<1> HIDE DEF drawn
<1>16. SavedMeansAudited'
  <2> SUFFICES ASSUME NEW t \in told', t.result = "saved", t.subject # "sources"
               PROVE  \E n \in DOMAIN db'["trail"] :
                        db'["trail"][n].of = <<t.subject, t.about>> /\ db'["trail"][n].by = t.by
    BY <1>9 DEF SavedMeansAudited, DeskTables
  <2>1. CASE t \in told
    <3>1. PICK n \in DOMAIN db["trail"] :
            db["trail"][n].of = <<t.subject, t.about>> /\ db["trail"][n].by = t.by
      BY <2>1 DEF DeskInv, DeskTypeOK, DeskTables, SavedMeansAudited
    <3>2. n \in DOMAIN e["trail"] /\ e["trail"][n] = db["trail"][n]
      BY <1>3, <1>5, <3>1 DEF CallHolds, DeskTables
    <3> QED
      BY <1>7, <3>1, <3>2
  <2>2. CASE t \notin told
    <3>1. over /\ t = [by |-> a, subject |-> j.subject, about |-> next.about, result |-> result]
      BY <1>7, <2>2
    <3>2. heard /\ others = <<>>
      BY <1>6, <1>7, <3>1
    <3>3. Len(j.calls) = 1
      BY <1>2, <3>2
    <3>4. c.table = "trail" /\ c.row.of = j.subject /\ c.row.by = a /\ j.about # 0
      BY <1>1, <1>2, <3>1, <3>3 DEF JobHolds, EndsAudited
    <3> QED
      BY <1>4, <1>5, <1>6, <1>7, <3>1, <3>2, <3>4
  <2> QED
    BY <2>1, <2>2
<1>17. ASSUME LinkInv
       PROVE  LinkInv'
  <2> DEFINE patched == heard /\ c.table = "rules" /\ c.id # 0
             load == page[a].load
  <2>1. /\ JobLinks(flag, j, load, Standing(a), Unseen(a)) /\ PageLinks(page[a], Standing(a))
        /\ j # NoJob /\ page[a].open
    <3>1. j # NoJob
      BY <1>1 DEF NoJob
    <3> QED
      BY <1>17, <3>1 DEF LinkInv, j
  <2>2. /\ RulesInForce(db) = {r \in DOMAIN db["rules"] : InForce(db["rules"][r])}
        /\ RulesInForce(db)' = {r \in DOMAIN db'["rules"] : InForce(db'["rules"][r])}
    BY <1>9 DEF RulesInForce, DeskInv, DeskTypeOK, DeskTables
  <2>3. \A n \in RulesInForce(db) :
          n \in RulesInForce(db)' \/ (ok /\ c.table = "rules" /\ c.id # 0 /\ n = c.id)
    <3> SUFFICES ASSUME NEW n \in RulesInForce(db), n \notin RulesInForce(db)'
                 PROVE  ok /\ c.table = "rules" /\ c.id # 0 /\ n = c.id
      OBVIOUS
    <3>1. ok /\ db' = e /\ n \in DOMAIN db["rules"] /\ n \in DOMAIN e["rules"] /\ e["rules"][n] # db["rules"][n]
      BY <1>5, <1>7, <2>2 DEF DeskTables
    <3>2. c.table = "rules" /\ n = id
      BY <1>5, <3>1 DEF DeskTables
    <3>3. c.id # 0
      BY <1>5, <3>1, <3>2
    <3> QED
      BY <3>1, <3>2, <3>3 DEF id, RowId
  <2>4. /\ \A b \in Admins : Unseen(b) \subseteq Unseen(b)'
        /\ \A n \in RulesInForce(db) \ RulesInForce(db') : \A b \in Admins :
             b # a \/ ~heard => n \in Unseen(b)'
    <3>1. \A n \in RulesInForce(db) \ RulesInForce(db') :
            [rule |-> n, by |-> a, heard |-> heard] \in lapses'
      BY <1>7
    <3>2. \A x : x \in lapses => x \in lapses'
      BY <1>7
    <3>3. ASSUME NEW b \in Admins, NEW n \in Unseen(b)
          PROVE  n \in Unseen(b)'
      <4>1. PICK x \in lapses : (x.by # b \/ ~x.heard) /\ n = x.rule
        BY <3>3 DEF Unseen
      <4>2. x \in lapses'
        BY <3>2
      <4> QED
        BY <4>1, <4>2 DEF Unseen
    <3>4. ASSUME NEW n \in RulesInForce(db) \ RulesInForce(db'), NEW b \in Admins, b # a \/ ~heard
          PROVE  n \in Unseen(b)'
      <4> DEFINE x == [rule |-> n, by |-> a, heard |-> heard]
      <4>1. x \in lapses' /\ x.rule = n /\ (x.by # b \/ ~x.heard)
        BY <3>1, <3>4
      <4> HIDE DEF x
      <4> QED
        BY <4>1 DEF Unseen
    <3> QED
      BY <3>3, <3>4
  <2>5. RulesInForce(db)' = RulesInForce(db')
    OBVIOUS
  <2>6. \A b \in Admins : b # a \/ ~heard => Standing(b) \subseteq Standing(b)'
    BY <2>4, <2>5 DEF Standing
  <2>7. \A n \in Standing(a) : n \in Standing(a)' \/ (patched /\ n = c.id)
    BY <2>3, <2>4, <2>5, <2>6 DEF Standing
  <2>8. ASSUME patched
        PROVE  /\ flag = "busy" /\ "rules" \in DOMAIN j.view /\ c.id \in DOMAIN j.view["rules"]
               /\ j.made = {} /\ Len(others) = 1 /\ others[1].table = "trail" /\ id = c.id
    <3>1. /\ flag = "busy" /\ "rules" \in DOMAIN j.view /\ c.id \in DOMAIN j.view["rules"]
          /\ j.made = {} /\ Len(j.calls) = 2 /\ j.calls[2].table = "trail"
      BY <1>2, <2>1, <2>8 DEF JobLinks, PatchIsAlone, OnlyBusy
    <3>2. id = c.id
      BY <2>8 DEF id, RowId
    <3> QED
      BY <1>2, <3>1, <3>2
  <2>9. ASSUME heard
        PROVE  JobLinks(flag, next, load, Standing(a)', Unseen(a)')
    <3>1. PatchIsAlone(next)
      BY SMTT(40), <1>2, <1>6, <2>1 DEF JobLinks, PatchIsAlone
    <3>2. OnlyBusy(flag, next)
      <4>1. c.table = "rules" => flag = "busy" /\ "rules" \in DOMAIN j.view
        BY <1>2, <2>1 DEF JobLinks, OnlyBusy
      <4>2. RulesMade(j) # {} => flag = "busy" /\ "rules" \in DOMAIN j.view
        BY <2>1 DEF JobLinks, OnlyBusy
      <4>3. RulesMade(next) # {} => RulesMade(j) # {} \/ c.table = "rules"
        BY <1>6 DEF RulesMade
      <4>4. \A i \in 1 .. Len(others) : others[i].table = "rules" => flag = "busy" /\ "rules" \in DOMAIN j.view
        BY <1>2, <2>1 DEF JobLinks, OnlyBusy
      <4>5. "rules" \in DOMAIN j.view => flag = "busy"
        BY <2>1 DEF JobLinks, OnlyBusy
      <4> QED
        BY <1>6, <4>1, <4>2, <4>3, <4>4, <4>5 DEF OnlyBusy
    <3>3. MayLink(next, Unseen(a)')
      <4>1. next.law = j.law
        BY DEF next
      <4>2. MayLink(j, Unseen(a)) /\ Unseen(a) \subseteq Unseen(a)'
        BY <2>1, <2>4 DEF JobLinks
      <4>3. next.calls = others
        BY <1>6
      <4>4. ASSUME NEW i \in 1 .. Len(others), others[i].table = "alerts", others[i].id = 0
            PROVE  others[i].row.of \in j.law \cup {0} \cup Unseen(a)'
        <5>1. i + 1 \in 1 .. Len(j.calls) /\ j.calls[i + 1] = others[i]
          BY <1>2
        <5>2. j.calls[i + 1].row.of \in j.law \cup {0} \cup Unseen(a)
          BY <4>2, <4>4, <5>1 DEF MayLink
        <5> QED
          BY <4>2, <5>1, <5>2
      <4> HIDE DEF next, others
      <4> QED
        BY <4>1, <4>3, <4>4 DEF MayLink
    <3>4. DrawsOn(next, load, Standing(a)')
      <4> DEFINE m0 == [table |-> c.table, id |-> id, row |-> row]
      <4>1. /\ c.table # "rules" => RulesMade(next) = RulesMade(j)
            /\ c.table = "rules" => RulesMade(next) = RulesMade(j) \cup {m0}
        BY <1>6 DEF RulesMade
      <4>2. ASSUME c.table = "rules"
            PROVE  /\ InForce(row) => id \in Standing(a)'
                   /\ load # Nil => id \notin DOMAIN load["rules"]
        <5>1. id \in DOMAIN db'["rules"] /\ db'["rules"][id] = row
          BY <1>5, <1>7, <2>9, <4>2
        <5>2. InForce(row) => id \in Standing(a)'
          BY <2>2, <5>1 DEF Standing
        <5>3. CASE c.id # 0
          BY <2>1, <2>8, <2>9, <4>2, <5>2, <5>3 DEF JobLinks, DrawsOn
        <5>4. CASE c.id = 0
          <6>1. id = Len(db["rules"]) + 1 /\ db["rules"] \in Seq(DeskRow)
            BY <4>2, <5>4 DEF id, RowId, DeskInv, DeskTypeOK, DeskTables
          <6>2. id \notin DOMAIN db["rules"]
            BY <6>1
          <6>3. load # Nil => DOMAIN load["rules"] \subseteq DOMAIN db["rules"]
            BY DEF DeskInv, PageHolds, Listed, Lists
          <6> QED
            BY <5>2, <6>2, <6>3
        <5> QED
          BY <5>3, <5>4
      <4>3. \A m \in RulesMade(next) : /\ InForce(m.row) => m.id \in Standing(a)'
                                       /\ load # Nil => m.id \notin DOMAIN load["rules"]
        <5> SUFFICES ASSUME NEW m \in RulesMade(next)
                     PROVE  /\ InForce(m.row) => m.id \in Standing(a)'
                            /\ load # Nil => m.id \notin DOMAIN load["rules"]
          OBVIOUS
        <5>1. CASE m \in RulesMade(j)
          <6>1. ~patched
            BY <2>8, <5>1 DEF RulesMade
          <6> HIDE DEF patched
          <6> QED
            BY <2>1, <2>7, <5>1, <6>1 DEF JobLinks, DrawsOn
        <5>2. CASE m = m0 /\ c.table = "rules"
          BY <4>2, <5>2
        <5> QED
          BY <4>1, <5>1, <5>2
      <4>4. ASSUME "rules" \in DOMAIN j.view, NEW n \in DOMAIN j.view["rules"]
            PROVE  /\ InForce(j.view["rules"][n]) => n \in Standing(a)' \cup IdsMade(next)
                   /\ load # Nil => n \notin DOMAIN load["rules"]
        <5>1. /\ InForce(j.view["rules"][n]) => n \in Standing(a) \cup IdsMade(j)
              /\ load # Nil => n \notin DOMAIN load["rules"]
          BY <2>1, <4>4 DEF JobLinks, DrawsOn
        <5>2. IdsMade(j) \subseteq IdsMade(next)
          BY <4>1 DEF IdsMade
        <5>3. patched /\ n = c.id => n \in IdsMade(next)
          BY <2>8, <4>1 DEF IdsMade
        <5> HIDE DEF patched
        <5> QED
          BY <2>7, <5>1, <5>2, <5>3
      <4>5. next.view = j.view
        BY <1>6
      <4> HIDE DEF load, patched, m0
      <4> QED
        BY <4>3, <4>4, <4>5 DEF DrawsOn
    <3> QED
      BY <3>1, <3>2, <3>3, <3>4 DEF JobLinks
  <2>10. JobLinks(flag, after, load, Standing(a)', Unseen(a)')
    BY <1>7, <2>9, NoJobLinks DEF after
  <2>11. ASSUME NEW b \in Admins, NEW g \in Flags, b # a \/ g # flag
         PROVE  JobLinks(g, job[b][g], page[b].load, Standing(b)', Unseen(b)')
    <3>1. JobLinks(g, job[b][g], page[b].load, Standing(b), Unseen(b)) /\ Unseen(b) \subseteq Unseen(b)'
      BY <1>17, <2>4 DEF LinkInv
    <3>2. CASE Standing(b) \subseteq Standing(b)'
      BY <3>1, <3>2, StandingStill
    <3>3. CASE ~(Standing(b) \subseteq Standing(b)')
      <4>1. b = a /\ patched
        BY <2>6, <2>7, <3>3
      <4>2. g # "busy"
        BY <2>8, <2>11, <4>1
      <4>3. "rules" \notin DOMAIN job[b][g].view /\ RulesMade(job[b][g]) = {}
        BY <3>1, <4>2 DEF JobLinks, OnlyBusy
      <4> QED
        BY <3>1, <4>3 DEF JobLinks, DrawsOn, MayLink
    <3> QED
      BY <3>2, <3>3
  <2>12. \A b \in Admins, g \in Flags :
           /\ JobLinks(g, job'[b][g], page'[b].load, Standing(b)', Unseen(b)')
           /\ page'[b].open \/ job'[b][g] = NoJob
    <3>1. \A b \in Admins, g \in Flags : job'[b][g] = IF b = a /\ g = flag THEN after ELSE job[b][g]
      BY <1>7 DEF DeskInv, DeskTypeOK
    <3>2. \A b \in Admins : page'[b].load = page[b].load /\ page'[b].open = page[b].open
      BY <1>8
    <3> QED
      BY <1>17, <2>1, <2>10, <2>11, <3>1, <3>2 DEF LinkInv
  <2>13. ASSUME NEW b \in Admins
         PROVE  PageLinks(page'[b], Standing(b)')
    <3>1. CASE b # a
      <4>1. PageLinks(page[b], Standing(b)) /\ page'[b] = page[b] /\ Standing(b) \subseteq Standing(b)'
        BY <1>8, <1>17, <2>6, <3>1 DEF LinkInv
      <4> QED
        BY <4>1, <2>4, StandingStill
    <3>2. CASE b = a
      <4>1. ASSUME heard, "rules" \in DOMAIN j.view
            PROVE  /\ Shows(Redrawn(next, "rules"), Standing(a)')
                   /\ load # Nil => DOMAIN load["rules"] \cap DOMAIN Redrawn(next, "rules") = {}
        <5> DEFINE list == Redrawn(next, "rules")
        <5>1. /\ DOMAIN list = DOMAIN j.view["rules"] \cup IdsMade(next)
              /\ \A n \in DOMAIN list :
                   \/ \E m \in RulesMade(next) : m.id = n /\ list[n] = m.row
                   \/ /\ n \in DOMAIN j.view["rules"] /\ list[n] = j.view["rules"][n]
                      /\ n \notin IdsMade(next)
          BY <1>6 DEF Redrawn, RulesMade, IdsMade
        <5> HIDE DEF list
        <5>2. DrawsOn(next, load, Standing(a)') /\ next.view = j.view
          BY <1>6, <2>9, <4>1 DEF JobLinks
        <5>3. Shows(list, Standing(a)')
          BY <4>1, <5>1, <5>2 DEF Shows, DrawsOn, IdsMade
        <5>4. load # Nil => DOMAIN load["rules"] \cap DOMAIN list = {}
          BY <4>1, <5>1, <5>2 DEF DrawsOn, IdsMade
        <5> QED
          BY <5>3, <5>4 DEF list
      <4>2. page'[a].load = load /\ page'[a].open = page[a].open /\ page'[a].lists = drawn
        BY <1>8
      <4>3. /\ Shows(drawn["rules"], Standing(a)')
            /\ load # Nil => DOMAIN load["rules"] \cap DOMAIN drawn["rules"] = {}
        <5>1. CASE draw /\ "rules" \in DOMAIN j.view
          <6>1. drawn["rules"] = Redrawn(next, "rules")
            BY <5>1 DEF drawn, Lists
          <6> QED
            BY <4>1, <5>1, <6>1 DEF draw
        <5>2. CASE ~(draw /\ "rules" \in DOMAIN j.view)
          <6>1. drawn["rules"] = page[a].lists["rules"]
            BY <5>2 DEF drawn, Lists
          <6>2. ~patched
            BY <1>6, <1>2, <2>8, <5>2 DEF draw
          <6> HIDE DEF patched
          <6> QED
            BY <2>1, <2>7, <6>1, <6>2 DEF PageLinks, Shows
        <5> QED
          BY <5>1, <5>2
      <4>4. load # Nil => Shows(load["rules"], Standing(a)')
        <5>1. load # Nil /\ patched => c.id \notin DOMAIN load["rules"]
          BY <2>1, <2>8 DEF JobLinks, DrawsOn
        <5> HIDE DEF patched
        <5> QED
          BY <2>1, <2>7, <5>1 DEF PageLinks, Shows
      <4> QED
        BY <2>1, <3>2, <4>2, <4>3, <4>4 DEF PageLinks
    <3> QED
      BY <3>1, <3>2
  <2>14. LapsedLinkWasUnseen'
    <3> SUFFICES ASSUME NEW l \in outdated'
                 PROVE  \E x \in lapses' : x.rule = l.rule /\ (x.by # l.by \/ ~x.heard)
      BY DEF LapsedLinkWasUnseen
    <3>1. CASE l \in outdated
      <4>1. \E x \in lapses : x.rule = l.rule /\ (x.by # l.by \/ ~x.heard)
        BY <1>17, <3>1 DEF LinkInv, LapsedLinkWasUnseen
      <4> QED
        BY <1>7, <4>1
    <3>2. CASE l \notin outdated
      <4>1. /\ c.table = "alerts" /\ c.id = 0 /\ row.of \notin j.law \cup {0}
            /\ l = [by |-> a, rule |-> row.of, status |-> row.status]
        BY <1>7, <3>2
      <4>2. row.of = c.row.of
        BY <1>4, <4>1
      <4>3. row.of \in Unseen(a)
        BY <1>2, <2>1, <4>1, <4>2 DEF JobLinks, MayLink
      <4>4. l.rule = row.of /\ l.by = a
        BY <4>1
      <4> QED
        BY <1>7, <4>3, <4>4 DEF Unseen
    <3> QED
      BY <3>1, <3>2
  <2> QED
    BY <2>12, <2>13, <2>14 DEF LinkInv
<1> QED
  BY <1>13, <1>14, <1>15, <1>16, <1>17 DEF DeskInv
-----------------------------------------------------------------------------
(* The calls that the buttons begin.                                       *)

Works(s) == /\ s \in Seq(DeskCall)
            /\ \A i \in 1 .. Len(s) : CallHolds(s[i], db) /\ s[i].table # "trail"

(* Calls that a handler of a may be left with. *)
Audits(a, subject, about, asked) ==
  /\ asked \in Seq(DeskCall)
  /\ \A i \in 1 .. Len(asked) : CallHolds(asked[i], db)
  /\ EndsAudited(a, subject, about, asked)

LEMMA OneWork ==
  ASSUME NEW c, CallHolds(c, db), c.table # "trail"
  PROVE  Works(<<c>>) /\ Len(<<c>>) = 1
BY DEF Works, CallHolds

LEMMA MoreWork ==
  ASSUME NEW s, NEW t, Works(s), Works(t)
  PROVE  Works(s \o t) /\ Len(s \o t) = Len(s) + Len(t)
<1>1. /\ s \o t \in Seq(DeskCall) /\ Len(s \o t) = Len(s) + Len(t)
      /\ Len(s) \in Nat /\ Len(t) \in Nat
      /\ \A i \in 1 .. Len(s) + Len(t) :
           (s \o t)[i] = IF i <= Len(s) THEN s[i] ELSE t[i - Len(s)]
  BY ConcatProperties DEF Works
<1>2. ASSUME NEW i \in 1 .. Len(s) + Len(t)
      PROVE  \/ i \in 1 .. Len(s) /\ (s \o t)[i] = s[i]
             \/ i - Len(s) \in 1 .. Len(t) /\ (s \o t)[i] = t[i - Len(s)]
  BY <1>1
<1> QED
  BY <1>1, <1>2 DEF Works

(* 1194, 1202.  The entry is written when the work is done. *)
LEMMA ThenAudited ==
  ASSUME NEW s, Works(s), Len(s) > 0, NEW a \in Admins, NEW subject \in Subjects,
         NEW action \in Actions \cup Marks, NEW about \in Nat
  PROVE  Audits(a, subject, about, s \o <<Trail(subject, action, a)>>)
<1> DEFINE entry == Trail(subject, action, a)
           asked == s \o <<entry>>
<1>1. /\ entry \in DeskCall /\ CallHolds(entry, db)
      /\ entry.table = "trail" /\ entry.row.of = subject /\ entry.row.by = a
  BY DEF Trail, Call, Row, DeskCall, DeskTables, DeskRow, Bearers, CallHolds
<1> HIDE DEF entry
<1>2. <<entry>> \in Seq(DeskCall) /\ Len(<<entry>>) = 1 /\ <<entry>>[1] = entry
  BY <1>1
<1>3. /\ asked \in Seq(DeskCall) /\ Len(asked) = Len(s) + 1 /\ Len(s) \in Nat
      /\ \A i \in 1 .. Len(s) + 1 : asked[i] = IF i <= Len(s) THEN s[i] ELSE <<entry>>[i - Len(s)]
  BY <1>2, ConcatProperties DEF Works
<1>4. ASSUME NEW i \in 1 .. Len(asked)
      PROVE  \/ i \in 1 .. Len(s) /\ i # Len(asked) /\ asked[i] = s[i]
             \/ i = Len(asked) /\ asked[i] = entry
  BY <1>2, <1>3
<1>5. asked[1] = s[1] /\ 1 \in 1 .. Len(s)
  BY <1>3
<1> HIDE DEF asked
<1>6. \A i \in 1 .. Len(asked) : CallHolds(asked[i], db)
  BY <1>1, <1>4 DEF Works
<1>7. EndsAudited(a, subject, about, asked)
  <2>1. \A i \in 1 .. Len(asked) :
          /\ asked[i].table = "trail" <=> i = Len(asked)
          /\ asked[i].table = "trail" => asked[i].row.of = subject /\ asked[i].row.by = a
    BY <1>1, <1>4 DEF Works
  <2>2. asked[1].table # "trail"
    BY <1>5 DEF Works
  <2> QED
    BY <2>1, <2>2 DEF EndsAudited
<1> QED
  BY <1>3, <1>6, <1>7 DEF Audits, asked, entry

LEMMA Pair ==
  ASSUME NEW c, CallHolds(c, db), c.table # "trail", NEW a \in Admins,
         NEW subject \in Subjects, NEW action \in Actions \cup Marks, NEW about \in Nat
  PROVE  Audits(a, subject, about, <<c, Trail(subject, action, a)>>)
<1>1. <<c, Trail(subject, action, a)>> = <<c>> \o <<Trail(subject, action, a)>>
  OBVIOUS
<1>2. Works(<<c>>) /\ Len(<<c>>) > 0
  BY OneWork
<1>3. Audits(a, subject, about, <<c>> \o <<Trail(subject, action, a)>>)
  BY <1>2, ThenAudited
<1> QED
  BY <1>1, <1>3

LEMMA AuditedPress ==
  ASSUME DeskInv, NEW a \in Admins, NEW flag \in Flags, NEW subject, NEW about \in Nat,
         NEW item, NEW lists \in SUBSET Lists, NEW asked, Audits(a, subject, about, asked),
         Press(a, flag, subject, about, item, lists, asked)
  PROVE  DeskInv' /\ (LinkInv /\ KeepsLinks(a, flag, lists, asked) => LinkInv')
BY PressKeeps DEF Audits

(* Calls that name no rule but a new one. *)
Plain(s) ==
  /\ s \in Seq(DeskCall)
  /\ \A i \in 1 .. Len(s) : s[i].table # "alerts" /\ (s[i].table = "rules" => s[i].id = 0)

LEMMA PlainAndPlain ==
  ASSUME NEW s, NEW t, Plain(s), Plain(t)
  PROVE  Plain(s \o t)
<1>1. /\ s \o t \in Seq(DeskCall) /\ Len(s \o t) = Len(s) + Len(t)
      /\ Len(s) \in Nat /\ Len(t) \in Nat
      /\ \A i \in 1 .. Len(s) + Len(t) :
           (s \o t)[i] = IF i <= Len(s) THEN s[i] ELSE t[i - Len(s)]
  BY ConcatProperties DEF Plain
<1>2. ASSUME NEW i \in 1 .. Len(s) + Len(t)
      PROVE  \/ i \in 1 .. Len(s) /\ (s \o t)[i] = s[i]
             \/ i - Len(s) \in 1 .. Len(t) /\ (s \o t)[i] = t[i - Len(s)]
  BY <1>1
<1> QED
  BY <1>1, <1>2 DEF Plain

LEMMA OnePlain ==
  ASSUME NEW c \in DeskCall, c.table # "alerts", c.table = "rules" => c.id = 0
  PROVE  Plain(<<c>>)
BY DEF Plain

(* DDPComplianceWatchtower:800-835.  A legal update, its review and the entry. *)
NoRules(asked) == \A i \in 1 .. Len(asked) : asked[i].table \notin {"rules", "alerts"}

LEMMA NewUpdateIsAudited ==
  ASSUME NEW a \in Admins, NEW bearer \in Nat \cup {SourceOf[i] : i \in Items}
  PROVE  Audits(a, "updates", 0, NewUpdate(bearer, a)) /\ NoRules(NewUpdate(bearer, a))
<1> DEFINE update == InsertLegalUpdate(bearer)
           both == <<update>> \o <<InsertReview>>
<1>1. Row(bearer, "new", Nil) \in DeskRow /\ Row(0, "pending", Nil) \in DeskRow
  <2>1. bearer \in Bearers /\ 0 \in Bearers
    BY DEF Bearers
  <2> QED
    BY <2>1 DEF Row, DeskRow, Marks
<1>2. /\ CallHolds(update, db) /\ update.table # "trail"
      /\ CallHolds(InsertReview, db) /\ InsertReview.table # "trail"
  BY <1>1 DEF InsertLegalUpdate, InsertReview, Call, CallHolds, DeskCall, DeskTables
<1>3. NewUpdate(bearer, a) = both \o <<Trail("updates", "legal_update_created", a)>>
  BY DEF NewUpdate
<1> HIDE DEF update
<1>4. Works(<<update>>) /\ Works(<<InsertReview>>) /\ Len(<<update>>) = 1 /\ Len(<<InsertReview>>) = 1
  BY <1>2, OneWork
<1>5. Works(both) /\ Len(both) > 0
  BY <1>4, MoreWork
<1> HIDE DEF both
<1>6. Audits(a, "updates", 0, both \o <<Trail("updates", "legal_update_created", a)>>)
  <2>1. "updates" \in Subjects /\ "legal_update_created" \in Actions
    BY DEF Subjects, Actions
  <2> QED
    BY <1>5, <2>1, ThenAudited
<1>7. NoRules(NewUpdate(bearer, a))
  BY DEF NewUpdate, InsertLegalUpdate, InsertReview, Trail, Call, NoRules
<1> QED
  BY <1>3, <1>6, <1>7

(* A list of the page names rows of the table it was read from. *)
LEMMA ListedRow ==
  ASSUME DeskInv, NEW a \in Admins, NEW t \in Lists, NEW n \in DOMAIN page[a].lists[t]
  PROVE  n \in DOMAIN db[t] /\ n \in Nat \ {0}
<1>1. n \in DOMAIN db[t]
  BY DEF DeskInv, PageHolds, Listed
<1>2. db[t] \in Seq(DeskRow)
  BY ListsAreTables DEF DeskInv, DeskTypeOK
<1> QED
  BY <1>1, <1>2

LEMMA RowOf ==
  ASSUME NEW of \in Nat, NEW status \in Actions \cup Marks, NEW by \in Admins \cup {Nil}
  PROVE  Row(of, status, by) \in DeskRow
BY DEF Row, DeskRow, Bearers

(* The statuses and actions that a decision names. *)
LEMMA DecisionWords ==
  ASSUME NEW d, NEW related
  PROVE  /\ ReviewStatusFor(d) \in Marks /\ UpdateStatusFor(d) \in Marks
         /\ AuditedAs(d, related) \in Actions
BY DEF ReviewStatusFor, UpdateStatusFor, AuditedAs, Marks, Actions

(* DDPComplianceWatchtower:1138-1221.  A decision's calls. *)
LEMMA DecisionKeeps ==
  ASSUME DeskInv, NEW a \in Admins, NEW d \in Decisions, UpdateReviewDecision(a, d)
  PROVE  DeskInv' /\ (LinkInv => LinkInv')
<1> USE DEF Lists
<1>1. PICK n \in DOMAIN page[a].lists["reviews"] :
        LET u == page[a].lists["reviews"][n].of
            related == u \in DOMAIN page[a].lists["updates"]
        IN Press(a, "busy", "reviews", n, Nil, {"updates", "reviews", "rules"},
                 <<UpdateReview(n, ReviewStatusFor(d), a)>>
                 \o (IF related THEN <<UpdateLegalUpdateStatus(u, UpdateStatusFor(d))>> \o RuleOf(u, d, a) ELSE <<>>)
                 \o <<Trail("reviews", AuditedAs(d, related), a)>>)
  <2>1. page[a].lists = [t \in Lists |-> page[a].lists[t]]
    BY DEF DeskInv, DeskTypeOK, IsPage
  <2> QED
    BY <2>1 DEF UpdateReviewDecision
<1> DEFINE u == page[a].lists["reviews"][n].of
           related == u \in DOMAIN page[a].lists["updates"]
           review == UpdateReview(n, ReviewStatusFor(d), a)
           update == UpdateLegalUpdateStatus(u, UpdateStatusFor(d))
           rest == IF related THEN <<update>> \o RuleOf(u, d, a) ELSE <<>>
           entry == Trail("reviews", AuditedAs(d, related), a)
<1>2. n \in DOMAIN db["reviews"] /\ n \in Nat \ {0}
  BY ListedRow
<1>3. CallHolds(review, db) /\ review.table # "trail"
  <2>1. Row(0, ReviewStatusFor(d), a) \in DeskRow
    BY DecisionWords, RowOf
  <2> QED
    BY <1>2, <2>1 DEF UpdateReview, Call, CallHolds, DeskCall, DeskTables
<1>4. ASSUME related
      PROVE  u \in DOMAIN db["updates"] /\ u \in Nat \ {0}
  BY <1>4, ListedRow
<1>5. ASSUME related
      PROVE  CallHolds(update, db) /\ update.table # "trail"
  <2>1. Row(0, UpdateStatusFor(d), Nil) \in DeskRow
    BY DecisionWords, RowOf
  <2> QED
    BY <1>4, <1>5, <2>1 DEF UpdateLegalUpdateStatus, Call, CallHolds, DeskCall, DeskTables
<1>12. /\ review.table = "reviews" /\ update.table = "updates"
       /\ entry.table = "trail"
  BY DEF UpdateReview, UpdateLegalUpdateStatus, Trail, Call
<1> HIDE DEF review, update
<1>6. ASSUME related
      PROVE  Works(RuleOf(u, d, a)) /\ Len(RuleOf(u, d, a)) \in Nat /\ Plain(RuleOf(u, d, a))
  <2>1. ASSUME NEW status \in {"suggested", "active"}, NEW by \in Admins \cup {Nil}
        PROVE  Works(<<InsertRule(u, status, by)>>) /\ Len(<<InsertRule(u, status, by)>>) = 1
    <3>1. Row(u, status, by) \in DeskRow
      BY <1>4, <1>6, RowOf DEF Marks
    <3>2. CallHolds(InsertRule(u, status, by), db) /\ InsertRule(u, status, by).table # "trail"
      BY <3>1 DEF InsertRule, Call, CallHolds, DeskCall, DeskTables
    <3> QED
      BY <3>2, OneWork
  <2>3. \A status, by : InsertRule(u, status, by).table = "rules" /\ InsertRule(u, status, by).id = 0
    BY DEF InsertRule, Call
  <2>2. Works(<<>>) /\ Len(<<>>) = 0
    BY DEF Works
  <2>4. \A status \in {"suggested", "active"}, by \in Admins \cup {Nil} : Plain(<<InsertRule(u, status, by)>>)
    BY SMTT(40), <2>1, <2>3 DEF Plain, Works
  <2>5. Plain(<<>>)
    BY DEF Plain
  <2> QED
    BY <2>1, <2>2, <2>4, <2>5 DEF RuleOf
<1>7. Works(rest) /\ Len(rest) \in Nat /\ Plain(rest)
  <2>1. CASE related
    <3>1. Works(<<update>>) /\ Len(<<update>>) = 1
      BY <1>5, <2>1, OneWork
    <3>2. Plain(<<update>>)
      BY <1>5, <1>12, <2>1, OnePlain DEF CallHolds
    <3> QED
      BY <1>6, <2>1, <3>1, <3>2, MoreWork, PlainAndPlain
  <2>2. CASE ~related
    BY SMTT(40), <2>2 DEF Works, Plain
  <2> QED
    BY <2>1, <2>2
<1> HIDE DEF rest
<1>8. Works(<<review>> \o rest) /\ Len(<<review>> \o rest) > 0
  <2>1. Works(<<review>>) /\ Len(<<review>>) = 1
    BY <1>3, OneWork
  <2> QED
    BY <1>7, <2>1, MoreWork
<1>9. Audits(a, "reviews", n, (<<review>> \o rest) \o <<entry>>)
  <2>1. "reviews" \in Subjects /\ AuditedAs(d, related) \in Actions
    BY DecisionWords DEF Subjects
  <2> QED
    BY <1>2, <1>8, <2>1, ThenAudited
<1>10. Press(a, "busy", "reviews", n, Nil, {"updates", "reviews", "rules"},
             (<<review>> \o rest) \o <<entry>>)
  BY <1>1 DEF review, rest, update
<1>11. KeepsLinks(a, "busy", {"updates", "reviews", "rules"}, (<<review>> \o rest) \o <<entry>>)
  <2>1. Plain(<<review>>)
    BY <1>3, <1>12, OnePlain DEF CallHolds
  <2>2. Plain(<<entry>>)
    <3>1. entry \in DeskCall
      BY DecisionWords DEF Trail, Call, Row, DeskCall, DeskTables, DeskRow, Bearers, Subjects
    <3> QED
      BY <1>12, <3>1, OnePlain
  <2> HIDE DEF entry
  <2>3. Plain((<<review>> \o rest) \o <<entry>>)
    BY <1>7, <2>1, <2>2, PlainAndPlain
  <2> DEFINE asked == (<<review>> \o rest) \o <<entry>>
  <2> HIDE DEF asked
  <2>4. Plain(asked) => KeepsLinks(a, "busy", {"updates", "reviews", "rules"}, asked)
    BY DEF Plain, KeepsLinks
  <2> QED
    BY <2>3, <2>4 DEF asked
<1> HIDE DEF entry
<1> QED
  BY <1>2, <1>9, <1>10, <1>11, AuditedPress DEF Flags

(* The buttons that make one row or patch one, and then its entry. *)
LEMMA PairKeeps ==
  ASSUME DeskInv, NEW a \in Admins, NEW table \in {"rules", "alerts"}, NEW id \in Nat,
         NEW of \in Nat, NEW status \in Marks, NEW by \in Admins \cup {Nil},
         NEW action \in Actions \cup Marks,
         id # 0 => id \in DOMAIN db[table],
         table = "rules" => id # 0 /\ id \in DOMAIN page[a].lists["rules"],
         LinkInv /\ table = "alerts" /\ id = 0 => of \in Standing(a) \cup {0},
         Press(a, "busy", table, id, Nil, {table},
               <<Call(table, id, Row(of, status, by)), Trail(table, action, a)>>)
  PROVE  DeskInv' /\ (LinkInv => LinkInv')
<1> DEFINE c == Call(table, id, Row(of, status, by))
<1>1. CallHolds(c, db) /\ c.table # "trail"
  <2>1. Row(of, status, by) \in DeskRow /\ Row(of, status, by).of = of
    BY RowOf DEF Row
  <2> QED
    BY <2>1 DEF Call, CallHolds, DeskCall, DeskTables
<1>3. ASSUME LinkInv
      PROVE  KeepsLinks(a, "busy", {table}, <<c, Trail(table, action, a)>>)
  <2>1. /\ c.table = table /\ c.id = id /\ c.row.of = of
        /\ Trail(table, action, a).table = "trail"
    BY DEF Call, Row, Trail
  <2> DEFINE entry == Trail(table, action, a)
  <2> HIDE DEF c, entry
  <2> QED
    BY <1>3, <2>1 DEF KeepsLinks, entry
<1> HIDE DEF c
<1>2. Audits(a, table, id, <<c, Trail(table, action, a)>>)
  BY <1>1, Pair DEF Subjects
<1> QED
  BY <1>2, <1>3, AuditedPress DEF c, Flags, Lists

(* DDPComplianceWatchtower:1271-1455.  Rules and alerts. *)
LEMMA StatusKeeps ==
  ASSUME DeskInv, NEW a \in Admins,
         UpdateRuleStatus(a) \/ SubmitManualAlert(a) \/ UpdateAlertStatus(a)
  PROVE  DeskInv' /\ (LinkInv => LinkInv')
<1>1. page[a].lists.rules = page[a].lists["rules"] /\ page[a].lists.alerts = page[a].lists["alerts"]
  BY DEF DeskInv, DeskTypeOK, IsPage, Lists
<1>2. \A r \in DOMAIN page[a].lists["rules"] :
        r \in DOMAIN db["rules"] /\ r \in Nat \ {0}
  BY ListedRow DEF DeskInv, PageHolds, Listed, Lists
<1>6. LinkInv => \A r \in DOMAIN page[a].lists["rules"] : InForce(page[a].lists["rules"][r]) => r \in Standing(a)
  BY DEF LinkInv, PageLinks, Shows
<1>3. CASE UpdateRuleStatus(a)
  <2>1. PICK r \in DOMAIN page[a].lists["rules"], s \in {"active", "paused", "retired", "rejected"} :
          Press(a, "busy", "rules", r, Nil, {"rules"},
                <<UpdateRule(r, s, a), Trail("rules", s, a)>>)
    BY <1>1, <1>3 DEF UpdateRuleStatus
  <2> DEFINE by == IF InForce(Row(0, s, a)) THEN a ELSE Nil
  <2>2. UpdateRule(r, s, a) = Call("rules", r, Row(0, s, by)) /\ by \in Admins \cup {Nil}
    BY DEF UpdateRule
  <2>3. s \in Marks
    BY DEF Marks
  <2> HIDE DEF by
  <2> QED
    BY <1>2, <2>1, <2>2, <2>3, PairKeeps
<1>4. CASE SubmitManualAlert(a)
  <2>1. PICK r \in DOMAIN page[a].lists["rules"] \cup {0} :
          LET linked == IF r # 0 /\ InForce(page[a].lists["rules"][r]) THEN r ELSE 0 IN
          Press(a, "busy", "alerts", 0, Nil, {"alerts"},
                <<InsertAlert(linked, "open"), Trail("alerts", "alert_created", a)>>)
    BY <1>1, <1>4 DEF SubmitManualAlert
  <2> DEFINE linked == IF r # 0 /\ InForce(page[a].lists["rules"][r]) THEN r ELSE 0
  <2>2. linked \in Nat /\ (LinkInv => linked \in Standing(a) \cup {0})
    BY <1>2, <1>6
  <2>3. InsertAlert(linked, "open") = Call("alerts", 0, Row(linked, "open", Nil))
    BY DEF InsertAlert
  <2>4. "open" \in Marks /\ "alert_created" \in Actions
    BY DEF Marks, Actions
  <2>5. Press(a, "busy", "alerts", 0, Nil, {"alerts"},
              <<Call("alerts", 0, Row(linked, "open", Nil)), Trail("alerts", "alert_created", a)>>)
    BY <2>1, <2>3
  <2> HIDE DEF linked
  <2> QED
    BY <2>2, <2>4, <2>5, PairKeeps
<1>5. CASE UpdateAlertStatus(a)
  <2>1. PICK s \in {"in_review", "resolved"} :
          \/ \E n \in DOMAIN page[a].lists["alerts"] :
                Press(a, "busy", "alerts", n, Nil, {"alerts"},
                      <<UpdateAlert(n, s), Trail("alerts", s, a)>>)
          \/ \E r \in DerivedAlerts(a) :
                Press(a, "busy", "alerts", 0, Nil, {"alerts"},
                      <<InsertAlert(r, s), Trail("alerts", s, a)>>)
    BY <1>1, <1>5 DEF UpdateAlertStatus
  <2>2. s \in Marks
    BY DEF Marks
  <2>3. CASE \E n \in DOMAIN page[a].lists["alerts"] :
               Press(a, "busy", "alerts", n, Nil, {"alerts"},
                     <<UpdateAlert(n, s), Trail("alerts", s, a)>>)
    <3>1. PICK n \in DOMAIN page[a].lists["alerts"] :
            Press(a, "busy", "alerts", n, Nil, {"alerts"},
                  <<Call("alerts", n, Row(0, s, Nil)), Trail("alerts", s, a)>>)
      BY <2>3 DEF UpdateAlert
    <3>2. n \in DOMAIN db["alerts"] /\ n \in Nat \ {0}
      BY ListedRow DEF Lists
    <3> QED
      BY <2>2, <3>1, <3>2, PairKeeps
  <2>4. CASE \E r \in DerivedAlerts(a) :
               Press(a, "busy", "alerts", 0, Nil, {"alerts"},
                     <<InsertAlert(r, s), Trail("alerts", s, a)>>)
    <3>1. PICK r \in DerivedAlerts(a) :
            Press(a, "busy", "alerts", 0, Nil, {"alerts"},
                  <<Call("alerts", 0, Row(r, s, Nil)), Trail("alerts", s, a)>>)
      BY <2>4 DEF InsertAlert
    <3>2. r \in Nat /\ (LinkInv => r \in Standing(a) \cup {0})
      BY <1>1, <1>2, <1>6 DEF DerivedAlerts
    <3> QED
      BY <2>2, <3>1, <3>2, PairKeeps
  <2> QED
    BY <2>1, <2>3, <2>4
<1> QED
  BY <1>3, <1>4, <1>5

(* 755-1135.  The three ways of a new legal update. *)
LEMMA DraftKeeps ==
  ASSUME DeskInv, NEW a \in Admins,
         SubmitLegalUpdate(a) \/ DraftFromPasted(a) \/ DraftFromFeed(a)
  PROVE  DeskInv' /\ (LinkInv => LinkInv')
<1> DEFINE Bearing == Nat \cup {SourceOf[i] : i \in Items}
<1> DEFINE By(flag, item, bearer) ==
             Press(a, flag, "updates", 0, item, {"updates", "reviews"}, NewUpdate(bearer, a))
<1>1. \E flag \in Flags, bearer \in Bearing : \E item : By(flag, item, bearer)
  <2>1. 0 \in Bearing /\ \A i \in Items : SourceOf[i] \in Bearing
    OBVIOUS
  <2>2. {"busy", "monitoringBusy", "rssDraftBusy"} \subseteq Flags
    BY DEF Flags
  <2> HIDE DEF Bearing
  <2>3. CASE SubmitLegalUpdate(a)
    <3>1. By("busy", Nil, 0)
      BY <2>3 DEF SubmitLegalUpdate
    <3> HIDE DEF By
    <3> QED
      BY <2>1, <2>2, <3>1
  <2>4. CASE DraftFromPasted(a)
    <3>1. PICK i \in Items : By("monitoringBusy", Nil, SourceOf[i])
      BY <2>4 DEF DraftFromPasted
    <3> HIDE DEF By
    <3> QED
      BY <2>1, <2>2, <3>1
  <2>5. CASE DraftFromFeed(a)
    <3>1. PICK i \in Items : By("rssDraftBusy", i, SourceOf[i])
      BY <2>5 DEF DraftFromFeed
    <3> HIDE DEF By
    <3> QED
      BY <2>1, <2>2, <3>1
  <2> QED
    BY <2>3, <2>4, <2>5
<1>2. PICK flag \in Flags, bearer \in Bearing : \E item : By(flag, item, bearer)
  BY <1>1
<1>3. Audits(a, "updates", 0, NewUpdate(bearer, a)) /\ NoRules(NewUpdate(bearer, a))
  BY NewUpdateIsAudited
<1> HIDE DEF Bearing
<1>4. KeepsLinks(a, flag, {"updates", "reviews"}, NewUpdate(bearer, a))
  BY <1>3 DEF KeepsLinks, NoRules
<1> QED
  BY <1>2, <1>3, <1>4, AuditedPress DEF Lists

(* 588-673.  A source is patched, and no entry is due. *)
LEMMA SourceKeeps ==
  ASSUME DeskInv, NEW a \in Admins, SubmitRegulatorySource(a)
  PROVE  DeskInv' /\ (LinkInv => LinkInv')
<1>1. db.sources = db["sources"] /\ db["sources"] \in Seq(DeskRow)
  BY DEF DeskInv, DeskTypeOK, DeskTables
<1>2. PICK n \in DOMAIN db["sources"], tier \in {1, 3} :
        Press(a, "busy", "sources", n, Nil, {}, <<Call("sources", n, Row(0, tier, Nil))>>)
  BY <1>1 DEF SubmitRegulatorySource
<1> DEFINE c == Call("sources", n, Row(0, tier, Nil))
<1>3. n \in Nat
  BY <1>1
<1>4. CallHolds(c, db) /\ c.table # "trail"
  <2>1. Row(0, tier, Nil) \in DeskRow
    BY RowOf DEF Marks
  <2> QED
    BY <1>3, <2>1 DEF Call, CallHolds, DeskCall, DeskTables
<1>6. KeepsLinks(a, "busy", {}, <<c>>)
  BY DEF KeepsLinks, Call
<1> HIDE DEF c
<1>5. Audits(a, "sources", n, <<c>>)
  <2>1. Works(<<c>>)
    BY <1>4, OneWork
  <2> QED
    BY <2>1 DEF Works, Audits, EndsAudited
<1> QED
  BY <1>2, <1>3, <1>5, <1>6, AuditedPress DEF c, Flags

LEMMA Loaded ==
  ASSUME NEW p, IsPage(p), NEW q, q = [p EXCEPT !.lists = p.load, !.load = Nil],
         p.load = [t \in Lists |-> p.load[t]]
  PROVE  IsPage(q) /\ q.lists = p.load /\ q.load = Nil /\ q.open = p.open
BY DEF IsPage

(* What a page may be next. *)
MayFollow(a, new) ==
  /\ PageLinks(new, Standing(a))
  /\ page[a].open => \/ new.open /\ (new.load = Nil \/ new.load = page[a].load)
                     \/ \A g \in Flags : job'[a][g] = NoJob

(* The page opens, its lists arrive, it is closed. *)
LEMMA PageKeeps ==
  ASSUME DeskInv, NEW a \in Admins, OpenPage(a) \/ LoadArrives(a) \/ ClosePage(a)
  PROVE  DeskInv' /\ (LinkInv => LinkInv')
<1>1. /\ UNCHANGED <<db, told, lapses, outdated>>
      /\ page = [b \in Admins |-> page[b]] /\ IsPage(page[a]) /\ PageHolds(page[a], db)
  BY DEF OpenPage, LoadArrives, ClosePage, DeskInv, DeskTypeOK
<1>2. ASSUME NEW new, IsPage(new), PageHolds(new, db), page' = [page EXCEPT ![a] = new],
             job' = job \/ job' = [job EXCEPT ![a] = [flag \in Flags |-> NoJob]]
      PROVE  DeskInv' /\ (LinkInv /\ MayFollow(a, new) => LinkInv')
  <2>1. /\ page' = [b \in Admins |-> page'[b]] /\ page'[a] = new
        /\ \A b \in Admins : b # a => page'[b] = page[b]
    BY <1>1, <1>2
  <2>2. \A b \in Admins : IsPage(page'[b]) /\ PageHolds(page'[b], db')
    BY <1>1, <1>2, <2>1 DEF DeskInv, DeskTypeOK
  <2>3. /\ job' = [b \in Admins |-> [flag \in Flags |-> job'[b][flag]]]
        /\ \A b \in Admins, flag \in Flags : job'[b][flag] = job[b][flag] \/ job'[b][flag] = NoJob
    <3>1. job = [b \in Admins |-> [flag \in Flags |-> job[b][flag]]]
      BY DEF DeskInv, DeskTypeOK
    <3>2. CASE job' = job
      BY <3>1, <3>2
    <3>3. CASE job' = [job EXCEPT ![a] = [flag \in Flags |-> NoJob]]
      BY <3>1, <3>3
    <3> QED
      BY <1>2, <3>2, <3>3
  <2>4. \A b \in Admins, flag \in Flags :
          IsJob(job'[b][flag]) /\ JobHolds(b, job'[b][flag], db')
    BY <1>1, <2>3, NoJobHolds DEF DeskInv, DeskTypeOK
  <2>5. ASSUME LinkInv, MayFollow(a, new)
        PROVE  LinkInv'
    <3>1. \A b \in Admins : Standing(b)' = Standing(b) /\ Unseen(b)' = Unseen(b)
      BY <1>1 DEF Standing, Unseen
    <3>2. \A b \in Admins : PageLinks(page'[b], Standing(b))
      BY <2>1, <2>5 DEF LinkInv, MayFollow
    <3>3. ASSUME NEW b \in Admins, NEW g \in Flags
          PROVE  /\ JobLinks(g, job'[b][g], page'[b].load, Standing(b), Unseen(b))
                 /\ page'[b].open \/ job'[b][g] = NoJob
      <4>1. CASE job'[b][g] = NoJob
        BY <4>1, NoJobLinks
      <4>2. CASE job'[b][g] # NoJob /\ b # a
        <5>1. job'[b][g] = job[b][g]
          BY <2>3, <4>2
        <5> QED
          BY <2>1, <2>5, <4>2, <5>1 DEF LinkInv
      <4>3. CASE job'[b][g] # NoJob /\ b = a
        <5>1. job'[b][g] = job[b][g] /\ job[b][g] # NoJob
          BY <2>3, <4>3
        <5>2. JobLinks(g, job[b][g], page[b].load, Standing(b), Unseen(b)) /\ page[b].open
          BY <2>5, <5>1 DEF LinkInv
        <5>3. new.open /\ (new.load = Nil \/ new.load = page[b].load)
          BY <2>5, <4>3, <5>2 DEF MayFollow
        <5> QED
          BY <2>1, <4>3, <5>1, <5>2, <5>3 DEF JobLinks, DrawsOn
      <4> QED
        BY <4>1, <4>2, <4>3
    <3> QED
      BY <1>1, <2>5, <3>1, <3>2, <3>3 DEF LinkInv, LapsedLinkWasUnseen
  <2> QED
    BY <1>1, <2>1, <2>2, <2>3, <2>4, <2>5
    DEF DeskInv, DeskTypeOK, SavedMeansAudited
<1>3. CASE OpenPage(a)
  <2> DEFINE load == [t \in Lists |-> db[t]]
             new == [page[a] EXCEPT !.open = TRUE, !.load = load]
  <2>1. page' = [page EXCEPT ![a] = new] /\ job' = job
    BY <1>1, <1>3 DEF OpenPage
  <2>2. \A t \in Lists : Listed(t, db[t], db)
    BY DEF Listed, DeskInv, DeskTypeOK, DeskTables
  <2>3. /\ load = [t \in Lists |-> load[t]]
        /\ \A t \in Lists : Listed(t, load[t], db)
    BY <2>2
  <2> HIDE DEF load
  <2>4. IsPage(new) /\ new.lists = page[a].lists /\ new.load = load /\ new.open
    <3>1. new = [page[a] EXCEPT !.open = TRUE, !.load = load]
      OBVIOUS
    <3> HIDE DEF new
    <3> QED
      <4>1. IsPage(page[a])
        BY <1>1
      <4> DEFINE p == page[a]
      <4>2. IsPage(p) /\ new = [p EXCEPT !.open = TRUE, !.load = load]
        BY <3>1, <4>1
      <4> HIDE DEF p
      <4>3. IsPage(new) /\ new.lists = p.lists /\ new.load = load /\ new.open
        BY <4>2 DEF IsPage
      <4> QED
        BY <4>3 DEF p
  <2> HIDE DEF new
  <2>5. PageHolds(new, db)
    BY <1>1, <2>3, <2>4 DEF PageHolds
  <2>6. ASSUME LinkInv
        PROVE  MayFollow(a, new)
    <3>1. ~page[a].open /\ page[a] = ClosedPage
      BY <1>3, <2>6 DEF OpenPage, LinkInv, PageLinks
    <3>2. page[a].lists["rules"] = <<>>
      BY <3>1 DEF ClosedPage, EmptyLists, Lists
    <3>3. load["rules"] = db["rules"]
      BY DEF load, Lists
    <3>4. RulesInForce(db) = {r \in DOMAIN db["rules"] : InForce(db["rules"][r])}
      BY DEF RulesInForce, DeskInv, DeskTypeOK, DeskTables
    <3>5. Shows(load["rules"], Standing(a))
      BY <3>3, <3>4 DEF Shows, Standing
    <3>6. DOMAIN new.lists["rules"] = {}
      BY <2>4, <3>2
    <3> QED
      BY <2>4, <3>1, <3>5, <3>6 DEF MayFollow, PageLinks, Shows
  <2> QED
    BY <1>2, <2>1, <2>4, <2>5, <2>6
<1>4. CASE LoadArrives(a)
  <2> DEFINE reloaded == [page[a] EXCEPT !.lists = page[a].load, !.load = Nil]
             failed == [page[a] EXCEPT !.load = Nil]
  <2>1. page[a].load # Nil /\ job' = job
    BY <1>4 DEF LoadArrives
  <2>2. page' = [page EXCEPT ![a] = reloaded] \/ page' = [page EXCEPT ![a] = failed]
    BY <1>1, <1>4 DEF LoadArrives
  <2>3. /\ IsPage(reloaded) /\ reloaded.lists = page[a].load /\ reloaded.load = Nil
        /\ reloaded.open = page[a].open
    <3>1. page[a].load = [t \in Lists |-> page[a].load[t]]
      BY <1>1, <2>1 DEF PageHolds
    <3> QED
      BY <1>1, <3>1, Loaded
  <2>4. IsPage(failed) /\ failed.lists = page[a].lists /\ failed.load = Nil /\ failed.open = page[a].open
    BY <1>1 DEF IsPage
  <2> HIDE DEF reloaded, failed
  <2>5. PageHolds(reloaded, db) /\ PageHolds(failed, db)
    BY <1>1, <2>1, <2>3, <2>4 DEF PageHolds
  <2>6. LinkInv => MayFollow(a, reloaded) /\ MayFollow(a, failed)
    <3>1. page[a].open
      BY <1>4 DEF LoadArrives
    <3> QED
      BY <2>1, <2>3, <2>4, <3>1 DEF LinkInv, MayFollow, PageLinks
  <2> QED
    BY <1>2, <2>1, <2>2, <2>3, <2>4, <2>5, <2>6
<1>5. CASE ClosePage(a)
  <2>1. /\ page' = [page EXCEPT ![a] = ClosedPage]
        /\ job' = [job EXCEPT ![a] = [flag \in Flags |-> NoJob]]
    BY <1>5 DEF ClosePage
  <2>2. IsPage(ClosedPage) /\ ClosedPage.load = Nil /\ \A t \in Lists : ClosedPage.lists[t] = <<>>
    BY DEF IsPage, ClosedPage, EmptyLists
  <2>3. PageHolds(ClosedPage, db)
    BY <2>2 DEF PageHolds, Listed
  <2>4. PageLinks(ClosedPage, Standing(a))
    BY <2>2 DEF PageLinks, Shows, Lists
  <2>5. \A g \in Flags : job'[a][g] = NoJob
    BY <2>1 DEF DeskInv, DeskTypeOK
  <2> QED
    BY <1>2, <2>1, <2>2, <2>3, <2>4, <2>5 DEF MayFollow
<1> QED
  BY <1>3, <1>4, <1>5

LEMMA DeskKeeps ==
  /\ DeskInv /\ [DeskNext]_deskVars => DeskInv'
  /\ DeskInv /\ LinkInv /\ [DeskNext]_deskVars => LinkInv'
<1> SUFFICES ASSUME DeskInv, [DeskNext]_deskVars
             PROVE  DeskInv' /\ (LinkInv => LinkInv')
  OBVIOUS
<1>1. CASE UNCHANGED deskVars
  <2>1. DeskInv'
    BY <1>1 DEF deskVars, DeskInv, DeskTypeOK, SavedMeansAudited
  <2>2. \A a \in Admins : Standing(a)' = Standing(a) /\ Unseen(a)' = Unseen(a)
    BY <1>1 DEF deskVars, Standing, Unseen
  <2> QED
    BY <1>1, <2>1, <2>2 DEF deskVars, LinkInv, LapsedLinkWasUnseen
<1>2. ASSUME NEW a \in Admins, Desk(a)
      PROVE  DeskInv' /\ (LinkInv => LinkInv')
  BY <1>2, AnswerKeeps, DraftKeeps, DecisionKeeps, StatusKeeps, SourceKeeps, PageKeeps DEF Desk
<1> QED
  BY <1>1, <1>2 DEF DeskNext

(* Pages hold lists that were read from the tables, or are closed and hold  *)
(* none.                                                                    *)
ReadFrom(tables, pages) ==
  /\ tables \in [DeskTables -> Seq(DeskRow)]
  /\ pages = [a \in Admins |-> pages[a]]
  /\ \A a \in Admins :
       /\ IsPage(pages[a]) /\ pages[a].load = Nil /\ (pages[a].open \/ pages[a] = ClosedPage)
       /\ \A t \in Lists : /\ DOMAIN pages[a].lists[t] \subseteq DOMAIN tables[t]
                          /\ \A n \in DOMAIN pages[a].lists[t] : pages[a].lists[t][n] = tables[t][n]

LEMMA DeskStart ==
  ASSUME NEW tables, NEW pages, NEW budget, ReadFrom(tables, pages),
         DeskInit(tables, pages, budget)
  PROVE  DeskInv /\ LinkInv
<1>1. /\ db = tables /\ page = pages /\ told = {}
      /\ job = [a \in Admins |-> [flag \in Flags |-> NoJob]]
      /\ tables.rules = tables["rules"] /\ tables.alerts = tables["alerts"]
      /\ lapses = {} /\ outdated = {}
  BY DEF DeskInit, ReadFrom, DeskTables
<1>2. \A a \in Admins, flag \in Flags : job[a][flag] = NoJob
  BY <1>1
<1>3. DeskTypeOK
  BY <1>1, <1>2, NoJobHolds DEF DeskTypeOK, ReadFrom
<1>4. SavedMeansAudited
  BY <1>1 DEF SavedMeansAudited
<1>5. ASSUME NEW a \in Admins
      PROVE  PageHolds(page[a], db)
  BY <1>1 DEF PageHolds, Listed, ReadFrom
<1>6. \A a \in Admins, flag \in Flags : JobHolds(a, job[a][flag], db)
  BY <1>2, NoJobHolds
<1>7. LinkInv
  <2>1. ASSUME NEW a \in Admins
        PROVE  PageLinks(page[a], Standing(a))
    <3>1. page[a].load = Nil /\ (page[a].open \/ page[a] = ClosedPage)
      BY <1>1 DEF ReadFrom
    <3>2. \A n \in DOMAIN page[a].lists["rules"] :
            n \in DOMAIN db["rules"] /\ page[a].lists["rules"][n] = db["rules"][n]
      BY <1>1 DEF ReadFrom, Lists
    <3>3. db.rules = db["rules"]
      BY <1>1
    <3> QED
      BY <3>1, <3>2, <3>3 DEF PageLinks, Shows, Standing, RulesInForce
  <2>2. LapsedLinkWasUnseen
    BY <1>1 DEF LapsedLinkWasUnseen
  <2> QED
    BY <1>2, <2>1, <2>2, NoJobLinks DEF LinkInv
<1> QED
  BY <1>3, <1>4, <1>5, <1>6, <1>7 DEF DeskInv

(* What a page said was saved has its audit entry under the name of the one *)
(* who pressed the button: the calls of a handler run in their order, and   *)
(* an unheard answer ends it (DDPComplianceWatchtower:1138-1221).           *)
THEOREM SavedIsAudited ==
  ASSUME NEW tables, NEW pages, NEW budget, ReadFrom(tables, pages)
  PROVE  DeskInit(tables, pages, budget) /\ [][DeskNext]_deskVars => []SavedMeansAudited
<1>1. DeskInit(tables, pages, budget) => DeskInv
  BY DeskStart
<1>2. DeskInv => SavedMeansAudited
  BY DEF DeskInv
<1> QED
  BY <1>1, <1>2, DeskKeeps, PTL

(* An alert names a rule that was out of force at the click only if the     *)
(* rule went unseen by the page that linked it: what a page heard itself    *)
(* take out of force none of its lists shows in force again, neither those  *)
(* under way nor those its handlers were drawn with                         *)
(* (DDPComplianceWatchtower:1271-1455).                                     *)
THEOREM LinksAreUnseen ==
  ASSUME NEW tables, NEW pages, NEW budget, ReadFrom(tables, pages)
  PROVE  DeskInit(tables, pages, budget) /\ [][DeskNext]_deskVars => []LapsedLinkWasUnseen
<1>1. DeskInit(tables, pages, budget) => DeskInv /\ LinkInv
  BY DeskStart
<1>2. (DeskInv /\ LinkInv) /\ [DeskNext]_deskVars => (DeskInv /\ LinkInv)'
  BY DeskKeeps
<1>3. DeskInv /\ LinkInv => LapsedLinkWasUnseen
  BY DEF LinkInv
<1> QED
  BY <1>1, <1>2, <1>3, PTL
-----------------------------------------------------------------------------
(* The registry of sources.                                                *)

(* A write to a source that is there does not set it active. *)
Modest(task) == task.id # 0 /\ "active" \in DOMAIN task.patch => ~task.patch.active
Queued(todo) == \E Tasks : todo \in Seq(Tasks) /\ \A task \in Tasks : Modest(task)

(* A row of the registry says whether it is active. *)
SaysActivity(existing) == \E R : existing \in Seq(R) /\ \A r \in R : "active" \in DOMAIN r

(* A row is judged by the registry it was read with, and waits as judged.   *)
ChainHolds(chain) ==
  /\ DOMAIN chain = {"kind", "todo", "read"}
  /\ Queued(chain.todo)
  /\ chain.read # Unset => /\ chain.todo # <<>> /\ WriteErrors(Head(chain.todo), chain.read) = {}
                         /\ SaysActivity(chain.read)

(* What is shown of a feed is read from a document of the address asked.    *)
CheckHolds(check) ==
  /\ DOMAIN check = {"source", "url", "busy", "result", "compared", "history"}
  /\ check.busy => check.url \in DOMAIN FeedEditions
  /\ check.result # Unset /\ check.result.ok =>
       \E doc \in FeedEditions[check.url] :
          /\ ParseError(doc) = Unset
          /\ [n \in DOMAIN check.result.items |-> check.result.items[n].id]
               = [n \in DOMAIN doc.entries |-> StableId(FeedItems(doc)[n])]

TabHolds(tab) ==
  /\ DOMAIN tab = {"list", "attempted", "form", "check", "paste", "snapshots", "jobs"}
  /\ "active" \notin DOMAIN tab.form
  /\ DOMAIN tab.jobs = Lanes
  /\ \A lane \in Lanes : ChainHolds(tab.jobs[lane])
  /\ CheckHolds(tab.check)

Answering(docs) ==
  /\ DOMAIN docs = DOMAIN FeedEditions
  /\ \A a \in DOMAIN FeedEditions : docs[a] \in FeedEditions[a]

MonitorInv ==
  /\ SaysActivity(registry) /\ Answering(served)
  /\ DOMAIN station = Tabs /\ \A t \in Tabs : TabHolds(station[t])

(* watchtowerStarterSources.ts:114-117.  What is linked are new sources.   *)
LEMMA StartersAreNew ==
  ASSUME NEW list
  PROVE  Queued([n \in DOMAIN MissingStarters(list) |-> Task(0, MissingStarters(list)[n])])
<1> DEFINE missing == {n \in DOMAIN StarterSources :
                         \A r \in DOMAIN list : ~SameAddress(list[r].url, StarterSources[n].url)}
           many == Cardinality(missing)
           starters == MissingStarters(list)
           todo == [n \in DOMAIN starters |-> Task(0, starters[n])]
           Tasks == {Task(0, starters[n]) : n \in 1..many}
<1>1. DOMAIN StarterSources = 1..8
  BY DEF StarterSources
<1>2. many \in Nat
  <2>1. IsFiniteSet(1..8)
    <3>1. \A k \in Nat : IsFiniteSet(1..k)
      BY FS_Interval
    <3> QED
      BY <3>1, Zenon, 8 \in Nat
  <2>2. IsFiniteSet(missing)
    BY <1>1, <2>1, FS_Subset
  <2> QED
    BY <2>2, FS_CardinalityType
<1>3. DOMAIN starters = 1..many
  BY DEF MissingStarters, Picked
<1>4. todo \in Seq(Tasks)
  <2>1. todo = [n \in 1..many |-> Task(0, starters[n])]
    BY <1>3
  <2>2. \A n \in 1..many : Task(0, starters[n]) \in Tasks
    OBVIOUS
  <2> QED
    <3>1. todo \in [1..many -> Tasks]
      BY <2>1, <2>2
    <3> QED
      <4>1. Seq(Tasks) = UNION {[1..n -> Tasks] : n \in Nat}
        BY SeqDef
      <4> HIDE DEF todo, Tasks, many
      <4> QED
        BY <1>2, <3>1, <4>1
<1>5. \A task \in Tasks : Modest(task)
  <2>1. \A x : Modest(Task(0, x))
    BY DEF Task, Modest
  <2> QED
    BY <2>1
<1> QED
  BY <1>4, <1>5 DEF Queued

LEMMA OneIsQueued ==
  ASSUME NEW task, Modest(task)
  PROVE  Queued(<<task>>) /\ Queued(<<>>)
<1> DEFINE Tasks == {task}
<1>1. <<task>> \in Seq(Tasks) /\ <<>> \in Seq(Tasks)
  OBVIOUS
<1>2. \A x \in Tasks : Modest(x)
  OBVIOUS
<1> HIDE DEF Tasks
<1> QED
  BY <1>1, <1>2, Zenon DEF Queued

LEMMA RestingHolds ==
  /\ ChainHolds(Resting)
  /\ \A kind, todo : Queued(todo) => ChainHolds(Chain(kind, todo))
  /\ \A kind : ChainHolds(Chain(kind, <<>>))
<1>1. Queued(<<>>)
  <2> DEFINE Tasks == {}
  <2>1. <<>> \in Seq(Tasks) /\ \A x \in Tasks : Modest(x)
    OBVIOUS
  <2> HIDE DEF Tasks
  <2> QED
    BY <2>1, Zenon DEF Queued
<1> QED
  BY <1>1 DEF ChainHolds, Resting, Chain

LEMMA TailIsQueued ==
  ASSUME NEW todo, Queued(todo), todo # <<>>
  PROVE  Queued(Tail(todo)) /\ Modest(Head(todo))
<1>1. PICK Tasks : todo \in Seq(Tasks) /\ \A task \in Tasks : Modest(task)
  BY DEF Queued
<1>2. Tail(todo) \in Seq(Tasks) /\ Head(todo) \in Tasks
  BY <1>1
<1> QED
  BY <1>1, <1>2 DEF Queued

LEMMA OpenedHolds == TabHolds(OpenedTab)
<1>1. CheckHolds(NoCheck)
  BY DEF CheckHolds, NoCheck
<1>2. \A lane \in Lanes : ChainHolds(OpenedTab.jobs[lane])
  BY RestingHolds DEF OpenedTab, Lanes
<1> QED
  BY <1>1, <1>2 DEF TabHolds, OpenedTab, Lanes, BlankForm

(* A step of a tab that keeps its own promises keeps everybody's.           *)
LEMMA OneTab ==
  ASSUME MonitorInv, NEW t \in Tabs, NEW tab, TabHolds(tab),
         station' = [station EXCEPT ![t] = tab],
         SaysActivity(registry'), Answering(served')
  PROVE  MonitorInv'
<1>1. DOMAIN station' = Tabs
  BY DEF MonitorInv
<1>2. \A u \in Tabs : TabHolds(station'[u])
  BY DEF MonitorInv
<1> QED
  BY <1>1, <1>2 DEF MonitorInv

(* One of its chains of calls goes on. *)
LEMMA OneChain ==
  ASSUME NEW tab, TabHolds(tab), NEW lane \in Lanes, NEW chain, ChainHolds(chain)
  PROVE  TabHolds([tab EXCEPT !.jobs[lane] = chain])
BY DEF TabHolds

LEMMA KeepsForm ==
  ASSUME NEW tab, TabHolds(tab), NEW form, "active" \notin DOMAIN form
  PROVE  TabHolds([tab EXCEPT !.form = form])
BY DEF TabHolds

LEMMA KeepsCheck ==
  ASSUME NEW tab, TabHolds(tab), NEW check, CheckHolds(check)
  PROVE  TabHolds([tab EXCEPT !.check = check])
BY DEF TabHolds

(* complianceSourceRegistry.ts, validateRegulatorySource. *)
LEMMA NothingWrong ==
  ASSUME NEW candidate, NEW existing, NEW id, RegistrationErrors(candidate, existing, id) = {}
  PROVE  Http(candidate.url) /\ \A r \in DOMAIN existing \ {id} :
                                   ~SameAddress(existing[r].url, candidate.url)
<1>1. "url" \notin RegistrationErrors(candidate, existing, id)
      /\ "duplicate" \notin RegistrationErrors(candidate, existing, id)
  OBVIOUS
<1>2. Http(candidate.url)
  BY <1>1 DEF RegistrationErrors
<1> QED
  BY <1>1, <1>2 DEF RegistrationErrors

(* The fields that a write always names are the ones it was judged by.      *)
LEMMA TypesOfRow ==
  ASSUME NEW candidate, NEW old
  PROVE  LET row == Patched(old, [f \in {"labelled", "url", "active"} |-> candidate[f]])
         IN  row.url = candidate.url /\ row.active = candidate.active
             /\ {"url", "active"} \subseteq DOMAIN row
BY DEF Patched

(* complianceSourceRegistry.ts, updateRegulatorySource.  A row that was     *)
(* judged by the registry as it stands keeps activity and addresses apart.  *)
LEMMA JudgedBeforeWritten ==
  ASSUME MonitorInv, NEW t \in Tabs, NEW lane \in Lanes, InsertOrUpdate(t, lane)
  PROVE  /\ SaysActivity(registry')
         /\ station[t].jobs[lane].read = registry => ~Revived /\ ~Doubled
<1> DEFINE chain == station[t].jobs[lane]
           task == Head(chain.todo)
           row == RowWritten(task, chain.read)
           candidate == CandidateOf(task, chain.read)
<1>1. ChainHolds(chain)
  BY DEF MonitorInv, TabHolds
<1>2. /\ chain.read # Unset /\ chain.todo # <<>> /\ WriteErrors(task, chain.read) = {}
      /\ SaysActivity(chain.read)
  BY <1>1 DEF InsertOrUpdate, ChainHolds
<1>3. Modest(task)
  BY <1>1, <1>2, TailIsQueued DEF ChainHolds
<1>4. PICK R : registry \in Seq(R) /\ \A r \in R : "active" \in DOMAIN r
  BY DEF MonitorInv, SaysActivity
<1>5. row.url = candidate.url
  BY TypesOfRow DEF RowWritten
<1>6. /\ task.id \in {0} \cup DOMAIN chain.read
      /\ Http(candidate.url)
      /\ \A r \in DOMAIN chain.read \ {task.id} : ~SameAddress(chain.read[r].url, candidate.url)
  <2>1. task.id \in {0} \cup DOMAIN chain.read
    BY <1>2 DEF WriteErrors
  <2>2. RegistrationErrors(candidate, chain.read, task.id) = {}
    BY <1>2, <2>1 DEF WriteErrors
  <2> QED
    BY <2>1, <2>2, NothingWrong
<1>11. "active" \in DOMAIN row
  <2>1. "active" \in DOMAIN candidate
    <3>1. CASE task.id = 0
      BY <3>1 DEF CandidateOf, Patched
    <3>2. CASE task.id \in DOMAIN chain.read
      <4>1. "active" \in DOMAIN chain.read[task.id]
        BY <1>2, <3>2 DEF SaysActivity
      <4> QED
        BY <1>2, <3>2, <4>1 DEF CandidateOf, Patched, SaysActivity
    <3> QED
      BY <1>6, <3>1, <3>2
  <2> QED
    BY <2>1, TypesOfRow DEF RowWritten
<1>7. \/ registry' = registry
      \/ task.id = 0 /\ registry' = Append(registry, row)
      \/ task.id # 0 /\ registry' = [registry EXCEPT ![task.id] = row]
  BY DEF InsertOrUpdate
<1>8. CASE registry' = registry
  BY <1>8 DEF MonitorInv, Revived, Doubled, SaysActivity
<1>9. CASE task.id = 0 /\ registry' = Append(registry, row)
  <2>1. registry' \in Seq(R \cup {row}) /\ Len(registry') = Len(registry) + 1
        /\ registry'[Len(registry) + 1] = row
        /\ \A r \in 1..Len(registry) : registry'[r] = registry[r]
    BY <1>4, <1>9
  <2>2. SaysActivity(registry')
    BY <1>4, <1>11, <2>1 DEF SaysActivity
  <2>3. ~Revived
    BY <1>4, <2>1 DEF Revived
  <2>4. ASSUME chain.read = registry PROVE ~Doubled
    <3> SUFFICES ASSUME NEW r \in DOMAIN registry', NEW s \in DOMAIN registry', r < s,
                        AddressBook[registry'[r].url].plain = AddressBook[registry'[s].url].plain
                 PROVE  s \in DOMAIN registry /\ AddressBook[registry[r].url].plain
                                                   = AddressBook[registry[s].url].plain
      BY DEF Doubled
    <3>1. r \in 1..Len(registry) /\ s \in 1..(Len(registry) + 1)
      BY <1>4, <2>1
    <3>2. CASE s = Len(registry) + 1
      <4>1. r \in DOMAIN registry \ {task.id}
        BY SMTT(40), <1>4, <1>9, <3>1, <3>2
      <4>2. ~SameAddress(registry[r].url, candidate.url)
        BY <1>6, <2>4, <4>1
      <4>3. registry'[r] = registry[r] /\ registry'[s] = row
        BY <1>4, <2>1, <3>2, <4>1
      <4> QED
        BY <1>5, <4>2, <4>3 DEF SameAddress
    <3>3. CASE s # Len(registry) + 1
      BY <1>4, <2>1, <3>1, <3>3
    <3> QED
      BY <3>2, <3>3
  <2> QED
    BY <2>2, <2>3, <2>4
<1>10. CASE task.id # 0 /\ registry' = [registry EXCEPT ![task.id] = row]
  <2>1. registry' \in Seq(R \cup {row}) /\ DOMAIN registry' = DOMAIN registry
    <3>1. registry \in Seq(R \cup {row})
      BY <1>4
    <3>2. CASE task.id \in 1..Len(registry)
      BY <1>10, <3>1, <3>2, ExceptSeq
    <3>3. CASE task.id \notin 1..Len(registry)
      <4>1. task.id \notin DOMAIN registry
        BY <1>4, <3>3
      <4>2. DOMAIN registry' = DOMAIN registry
            /\ \A r \in DOMAIN registry : registry'[r] = registry[r]
        BY <1>10, <4>1
      <4>3. registry = [r \in DOMAIN registry |-> registry[r]]
        BY <1>4
      <4>4. registry' = [r \in DOMAIN registry' |-> registry'[r]]
        BY <1>10
      <4> QED
        BY <3>1, <4>2, <4>3, <4>4
    <3> QED
      BY <3>2, <3>3
  <2>2. SaysActivity(registry')
    BY <1>4, <1>11, <2>1 DEF SaysActivity
  <2>3. \A r \in DOMAIN registry : registry'[r] = IF r = task.id THEN row ELSE registry[r]
    BY <1>10
  <2>4. ASSUME chain.read = registry PROVE ~Revived
    <3>1. SUFFICES ASSUME task.id \in DOMAIN registry, ~registry[task.id].active, row.active
                   PROVE  FALSE
      BY <2>3 DEF Revived
    <3>2. candidate.active
      <4>1. row.active = candidate.active
        BY TypesOfRow DEF RowWritten
      <4> QED
        BY <3>1, <4>1
    <3>3. "active" \in DOMAIN registry[task.id]
      BY <1>4, <3>1
    <3>4. candidate = Patched(registry[task.id], task.patch)
      BY <1>10, <2>4 DEF CandidateOf
    <3> QED
      BY <1>3, <1>10, <3>1, <3>2, <3>3, <3>4 DEF Patched, Modest
  <2>5. ASSUME chain.read = registry PROVE ~Doubled
    <3>1. \A r \in DOMAIN registry \ {task.id} : ~SameAddress(registry[r].url, row.url)
      BY <1>5, <1>6, <2>5
    <3> SUFFICES ASSUME NEW r \in DOMAIN registry', NEW s \in DOMAIN registry', r < s,
                        AddressBook[registry'[r].url].plain = AddressBook[registry'[s].url].plain
                 PROVE  s \in DOMAIN registry /\ AddressBook[registry[r].url].plain
                                                   = AddressBook[registry[s].url].plain
      BY DEF Doubled
    <3>2. r \in DOMAIN registry /\ s \in DOMAIN registry /\ r # s
      BY <1>4, <2>1
    <3>3. ASSUME r = task.id PROVE FALSE
      <4>1. registry'[r] = row /\ registry'[s] = registry[s] /\ s \in DOMAIN registry \ {task.id}
        BY <2>3, <3>2, <3>3
      <4>2. ~SameAddress(registry[s].url, row.url)
        BY <3>1, <4>1
      <4> QED
        BY <4>1, <4>2 DEF SameAddress
    <3>4. ASSUME s = task.id PROVE FALSE
      <4>1. registry'[s] = row /\ registry'[r] = registry[r] /\ r \in DOMAIN registry \ {task.id}
        BY <2>3, <3>2, <3>4
      <4>2. ~SameAddress(registry[r].url, row.url)
        BY <3>1, <4>1
      <4> QED
        BY <4>1, <4>2 DEF SameAddress
    <3>5. registry'[r] = registry[r] /\ registry'[s] = registry[s]
      BY <2>3, <3>2, <3>3, <3>4
    <3> QED
      BY <3>2, <3>5
  <2> QED
    BY <2>2, <2>4, <2>5
<1> QED
  BY <1>7, <1>8, <1>9, <1>10

(* complianceManualRssMonitoring.ts, runManualRssMonitoring.  The items of a *)
(* check are those of the document that came back.                         *)
LEMMA ReadsTheDocument ==
  ASSUME NEW s, NEW url, NEW doc, NEW previous, CheckedFeed(s, url, doc, previous).ok
  PROVE  /\ doc # Unset /\ ParseError(doc) = Unset
         /\ LET shown == CheckedFeed(s, url, doc, previous).items
            IN  [n \in DOMAIN shown |-> shown[n].id]
                  = [n \in DOMAIN doc.entries |-> StableId(FeedItems(doc)[n])]
<1> DEFINE feed == FeedItems(doc)
           views == ItemViews(feed, previous)
<1>1. doc # Unset /\ ParseError(doc) = Unset
      /\ CheckedFeed(s, url, doc, previous) = Completed(s, views)
  BY DEF CheckedFeed, FailedCheck
<1>2. DOMAIN views = DOMAIN feed /\ \A n \in DOMAIN feed : views[n].id = StableId(feed[n])
  BY DEF ItemViews
<1>3. DOMAIN feed = DOMAIN doc.entries
  BY DEF FeedItems
<1>4. CheckedFeed(s, url, doc, previous).items = views
  BY <1>1 DEF Completed
<1> HIDE DEF feed, views
<1> QED
  BY <1>1, <1>2, <1>3, <1>4 DEF feed

(* serverProxyRssFetch.ts.  An answer is for the address that was asked.    *)
LEMMA AnswersForAsked ==
  ASSUME Answering(served), NEW row, NEW asked \in DOMAIN FeedEditions,
         Retrieved(row, asked) # Unset
  PROVE  Retrieved(row, asked) \in FeedEditions[asked]
BY DEF Retrieved, Answering

(* A write ends the chain, or goes on to its next task, or to the list.     *)
LEMMA WriteGoesOn ==
  ASSUME DOMAIN station = Tabs, NEW t \in Tabs, TabHolds(station[t]),
         NEW lane \in Lanes, InsertOrUpdate(t, lane)
  PROVE  \E next, list, form :
           /\ station' = [station EXCEPT ![t].jobs[lane] = next, ![t].list = list, ![t].form = form]
           /\ next \in {Resting, Chain("list", <<>>),
                        Chain(station[t].jobs[lane].kind, Tail(station[t].jobs[lane].todo))}
           /\ form \in {BlankForm, station[t].form}
<1> DEFINE tab == station[t]
           chain == tab.jobs[lane]
           after == IF Len(chain.todo) > 1 THEN Chain(chain.kind, Tail(chain.todo))
                    ELSE IF chain.kind \in {"open", "seed"} THEN Chain("list", <<>>) ELSE Resting
           task == Head(chain.todo)
           row == RowWritten(task, chain.read)
           id == IF task.id = 0 THEN Len(registry) + 1 ELSE task.id
           heard(fate) == fate # "refused" /\ StorableSource(row) /\ fate = "done"
           shown == chain.kind \in {"form", "row"}
<1>1. PICK fate \in {"done", "refused", "lost"} :
        station' = [station EXCEPT
           ![t].jobs[lane] = IF heard(fate) THEN after ELSE Resting,
           ![t].list = IF ~heard(fate) \/ ~shown \/ (task.id # 0 /\ id \notin DOMAIN @) THEN @
                       ELSE Noted(@, id, row),
           ![t].form = IF heard(fate) /\ chain.kind = "form" THEN BlankForm ELSE @]
  <2> HIDE DEF after, row, id, shown
  <2> QED
    BY ZenonT(90) DEF InsertOrUpdate, after, row, id, shown
<1> DEFINE next == IF heard(fate) THEN after ELSE Resting
           list == IF ~heard(fate) \/ ~shown \/ (task.id # 0 /\ id \notin DOMAIN tab.list)
                   THEN tab.list ELSE Noted(tab.list, id, row)
           form == IF heard(fate) /\ chain.kind = "form" THEN BlankForm ELSE tab.form
<1>2. station' = [station EXCEPT ![t].jobs[lane] = next, ![t].list = list, ![t].form = form]
  BY <1>1 DEF TabHolds
<1>3. next \in {Resting, Chain("list", <<>>), Chain(chain.kind, Tail(chain.todo))}
      /\ form \in {BlankForm, tab.form}
  OBVIOUS
<1> HIDE DEF next, list, form
<1> QED
  BY <1>2, <1>3

(* Each handler keeps the invariant. *)
LEMMA MonitorStep == MonitorInv /\ [MonitoringNext]_monitorVars => MonitorInv'
<1> SUFFICES ASSUME MonitorInv, [MonitoringNext]_monitorVars
             PROVE  MonitorInv'
  OBVIOUS
<1>1. \A u \in Tabs : TabHolds(station[u])
  BY DEF MonitorInv
<1>2. SaysActivity(registry) /\ Answering(served)
  BY DEF MonitorInv
<1>3. CASE UNCHANGED monitorVars
  BY <1>3 DEF MonitorInv, monitorVars
<1>4. CASE ServeAnother
  <2>1. Answering(served')
    BY <1>2, <1>4 DEF ServeAnother, Answering
  <2> QED
    BY <1>4, <2>1 DEF ServeAnother, MonitorInv
<1> SUFFICES ASSUME NEW t \in Tabs,
                    \/ TypeSource(t) \/ ResetSourceForm(t) \/ SubmitSource(t)
                    \/ SeedStarterSources(t) \/ ReloadTab(t)
                    \/ FeedArrives(t) \/ SaveBaseline(t) \/ DismissResult(t)
                    \/ RunMonitoringCheck(t)
                    \/ \E s \in DOMAIN station[t].list :
                          StartEditSource(t, s) \/ RetireSource(t, s) \/ CheckSourceFeed(t, s)
                    \/ \E lane \in Lanes :
                          ReadForWrite(t, lane) \/ InsertOrUpdate(t, lane) \/ ListArrives(t, lane)
             PROVE  MonitorInv'
  BY <1>3, <1>4 DEF MonitoringNext
<1> DEFINE tab == station[t]
<1>5. TabHolds(tab)
  BY <1>1
<1>6. ASSUME NEW form, "active" \notin DOMAIN form,
             station' = [station EXCEPT ![t].form = form], UNCHANGED <<registry, served>>
      PROVE  MonitorInv'
  <2> DEFINE next == [tab EXCEPT !.form = form]
  <2>1. TabHolds(next)
    BY <1>5, <1>6, KeepsForm
  <2>2. station' = [station EXCEPT ![t] = next]
    BY <1>6
  <2> HIDE DEF next
  <2> QED
    BY <1>2, <1>6, <2>1, <2>2, OneTab
<1>7. ASSUME NEW check, CheckHolds(check),
             station' = [station EXCEPT ![t].check = check], UNCHANGED <<registry, served>>
      PROVE  MonitorInv'
  <2> DEFINE next == [tab EXCEPT !.check = check]
  <2>1. TabHolds(next)
    BY <1>5, <1>7, KeepsCheck
  <2>2. station' = [station EXCEPT ![t] = next]
    BY <1>7
  <2> HIDE DEF next
  <2> QED
    BY <1>2, <1>7, <2>1, <2>2, OneTab
<1>8. ASSUME NEW lane \in Lanes, NEW chain, ChainHolds(chain),
             station' = [station EXCEPT ![t].jobs[lane] = chain], UNCHANGED <<registry, served>>
      PROVE  MonitorInv'
  <2> DEFINE next == [tab EXCEPT !.jobs[lane] = chain]
  <2>1. TabHolds(next)
    BY <1>5, <1>8, OneChain
  <2>2. station' = [station EXCEPT ![t] = next]
    BY <1>8
  <2> HIDE DEF next
  <2> QED
    BY <1>2, <1>8, <2>1, <2>2, OneTab
<1>9. CheckHolds(tab.check) /\ "active" \notin DOMAIN tab.form
      /\ \A lane \in Lanes : ChainHolds(tab.jobs[lane])
  BY <1>5 DEF TabHolds
<1>10. "press" \in Lanes
  BY DEF Lanes
<1>11. ASSUME NEW kind, NEW todo, Queued(todo), StartChain(t, kind, todo)
       PROVE  MonitorInv'
  <2>1. ChainHolds(Chain(kind, todo))
    BY <1>11, RestingHolds
  <2> QED
    BY <1>8, <1>10, <1>11, <2>1 DEF StartChain
<1>12. CASE TypeSource(t)
  <2>1. PICK typed \in Entered : station' = [station EXCEPT ![t].form = Patched(@, typed)]
    BY <1>12 DEF TypeSource
  <2> DEFINE form == Patched(tab.form, typed)
  <2>2. "active" \notin DOMAIN form
    BY <1>9, MonitoringAssumption DEF Patched
  <2>3. station' = [station EXCEPT ![t].form = form]
    BY <2>1
  <2> HIDE DEF form
  <2> QED
    BY <1>6, <1>12, <2>2, <2>3 DEF TypeSource
<1>13. CASE ResetSourceForm(t)
  <2>1. "active" \notin DOMAIN BlankForm
    BY DEF BlankForm
  <2> QED
    BY <1>6, <1>13, <2>1 DEF ResetSourceForm
<1>14. CASE SubmitSource(t)
  <2> DEFINE patch == [f \in DOMAIN tab.form \ {"editing"} |-> tab.form[f]]
             task == Task(tab.form.editing, patch)
  <2>1. Modest(task)
    BY <1>9 DEF Task, Modest
  <2>2. Queued(<<task>>)
    BY <2>1, OneIsQueued
  <2>3. StartChain(t, "form", <<task>>)
    BY <1>14 DEF SubmitSource
  <2> QED
    BY <1>11, <2>2, <2>3
<1>15. CASE SeedStarterSources(t)
  BY <1>11, <1>15, StartersAreNew DEF SeedStarterSources
<1>16. CASE ReloadTab(t)
  BY <1>2, <1>16, OpenedHolds, OneTab DEF ReloadTab
<1>17. CASE FeedArrives(t)
  <2> DEFINE check == tab.check
  <2>1. PICK lost \in BOOLEAN :
          LET doc == IF lost THEN Unset ELSE Retrieved(registry[check.source], check.url)
              result == CheckedFeed(check.source, check.url, doc, PreviousSnapshots(check.compared))
          IN  station' = [station EXCEPT ![t].check.busy = FALSE, ![t].check.result = result]
    BY <1>17 DEF FeedArrives
  <2> DEFINE doc == IF lost THEN Unset ELSE Retrieved(registry[check.source], check.url)
             result == CheckedFeed(check.source, check.url, doc, PreviousSnapshots(check.compared))
             next == [check EXCEPT !.busy = FALSE, !.result = result]
  <2>2. check.busy /\ UNCHANGED <<registry, served>>
    BY <1>17 DEF FeedArrives
  <2>3. check.url \in DOMAIN FeedEditions
    BY <1>9, <2>2 DEF CheckHolds
  <2>4. ASSUME result.ok
        PROVE  /\ doc \in FeedEditions[check.url] /\ ParseError(doc) = Unset
               /\ [n \in DOMAIN result.items |-> result.items[n].id]
                    = [n \in DOMAIN doc.entries |-> StableId(FeedItems(doc)[n])]
    <3> HIDE DEF doc
    <3>1. /\ doc # Unset /\ ParseError(doc) = Unset
          /\ [n \in DOMAIN result.items |-> result.items[n].id]
               = [n \in DOMAIN doc.entries |-> StableId(FeedItems(doc)[n])]
      BY <2>4, ReadsTheDocument
    <3> HIDE DEF result
    <3>2. doc \in FeedEditions[check.url]
      BY <1>2, <2>3, <3>1, AnswersForAsked DEF doc
    <3> QED
      BY <3>1, <3>2
  <2> HIDE DEF doc, result
  <2>5. CheckHolds(next)
    <3>1. DOMAIN next = DOMAIN check /\ ~next.busy /\ next.result = result /\ next.url = check.url
      BY <1>9 DEF CheckHolds
    <3> HIDE DEF next
    <3> QED
      BY <1>9, <2>4, <3>1 DEF CheckHolds
  <2>6. station' = [station EXCEPT ![t].check = next]
    BY ZenonT(60), <1>5, <2>1 DEF doc, result, MonitorInv, TabHolds
  <2> HIDE DEF next
  <2> QED
    BY ZenonT(60), <1>7, <2>2, <2>5, <2>6
<1>18. CASE SaveBaseline(t)
  <2>1. PICK made, history :
          station' = [station EXCEPT ![t].check.compared = made, ![t].check.history = history]
    BY <1>18 DEF SaveBaseline
  <2> DEFINE next == [tab.check EXCEPT !.compared = made, !.history = history]
  <2>2. CheckHolds(next)
    <3>1. DOMAIN next = DOMAIN tab.check /\ next.busy = tab.check.busy
          /\ next.result = tab.check.result /\ next.url = tab.check.url
      BY <1>9 DEF CheckHolds
    <3> HIDE DEF next
    <3> QED
      BY <1>9, <3>1 DEF CheckHolds
  <2>3. station' = [station EXCEPT ![t].check = next]
    BY <2>1
  <2> HIDE DEF next
  <2> QED
    BY <1>7, <1>18, <2>2, <2>3 DEF SaveBaseline
<1>19. CASE DismissResult(t)
  <2>1. CheckHolds(NoCheck)
    BY DEF CheckHolds, NoCheck
  <2> QED
    BY <1>7, <1>19, <2>1 DEF DismissResult
<1>20. CASE RunMonitoringCheck(t)
  <2>1. PICK snapshots, paste :
          station' = [station EXCEPT ![t].snapshots = snapshots, ![t].paste = paste]
    BY <1>20 DEF RunMonitoringCheck
  <2> DEFINE next == [tab EXCEPT !.snapshots = snapshots, !.paste = paste]
  <2>2. TabHolds(next)
    <3>1. DOMAIN next = DOMAIN tab /\ next.form = tab.form /\ next.jobs = tab.jobs
          /\ next.check = tab.check
      BY <1>5 DEF TabHolds
    <3> HIDE DEF next
    <3> QED
      BY <1>5, <3>1 DEF TabHolds
  <2>3. station' = [station EXCEPT ![t] = next]
    BY <2>1
  <2> HIDE DEF next
  <2> QED
    BY <1>2, <1>20, <2>2, <2>3, OneTab DEF RunMonitoringCheck
<1>21. ASSUME NEW s \in DOMAIN tab.list, StartEditSource(t, s)
       PROVE  MonitorInv'
  <2> DEFINE form == [f \in DOMAIN BlankForm |-> IF f = "editing" THEN s ELSE tab.list[s][f]]
  <2>1. "active" \notin DOMAIN form
    BY DEF BlankForm
  <2>2. station' = [station EXCEPT ![t].form = form]
    BY <1>21 DEF StartEditSource
  <2> HIDE DEF form
  <2> QED
    BY <1>6, <1>21, <2>1, <2>2 DEF StartEditSource
<1>22. ASSUME NEW s \in DOMAIN tab.list, RetireSource(t, s)
       PROVE  MonitorInv'
  <2> DEFINE task == Task(s, [active |-> FALSE])
  <2>1. Modest(task)
    BY DEF Task, Modest
  <2>2. Queued(<<task>>)
    BY <2>1, OneIsQueued
  <2>3. StartChain(t, "row", <<task>>)
    BY <1>22 DEF RetireSource
  <2> QED
    BY <1>11, <2>2, <2>3
<1>23. ASSUME NEW s \in DOMAIN tab.list, CheckSourceFeed(t, s)
       PROVE  MonitorInv'
  <2> DEFINE check == [source |-> s, url |-> tab.list[s].url, busy |-> TRUE, result |-> Unset,
                       compared |-> CurrentBaseline(s), history |-> History(s)]
  <2>1. Eligible(tab.list[s])
    BY <1>23 DEF CheckSourceFeed, RowButtons
  <2>2. tab.list[s].url \in DOMAIN FeedEditions
    BY <2>1, MonitoringAssumption DEF Eligible, Http
  <2>3. CheckHolds(check)
    BY <2>2 DEF CheckHolds
  <2>4. station' = [station EXCEPT ![t].check = check]
    BY <1>23 DEF CheckSourceFeed
  <2> HIDE DEF check
  <2> QED
    BY <1>7, <1>23, <2>3, <2>4 DEF CheckSourceFeed
<1>24. ASSUME NEW lane \in Lanes, ReadForWrite(t, lane)
       PROVE  MonitorInv'
  <2> DEFINE chain == tab.jobs[lane]
             judged == [chain EXCEPT !.read = registry]
  <2>1. ChainHolds(chain) /\ chain.todo # <<>>
    BY <1>9, <1>24 DEF ReadForWrite
  <2>2. WriteErrors(Head(chain.todo), registry) = {} => ChainHolds(judged)
    BY <1>2, <2>1 DEF ChainHolds
  <2>3. \E next : ChainHolds(next) /\ station' = [station EXCEPT ![t].jobs[lane] = next]
    <3>1. CASE station' = [station EXCEPT ![t].jobs[lane] =
                 IF WriteErrors(Head(chain.todo), registry) = {} THEN judged ELSE Resting]
      BY <2>2, <3>1, RestingHolds
    <3>2. CASE station' = [station EXCEPT ![t].jobs[lane] = Resting]
      BY <3>2, RestingHolds
    <3> QED
      BY <1>24, <3>1, <3>2 DEF ReadForWrite
  <2> QED
    BY <1>8, <1>24, <2>3 DEF ReadForWrite
<1>25. ASSUME NEW lane \in Lanes, InsertOrUpdate(t, lane)
       PROVE  MonitorInv'
  <2> DEFINE chain == tab.jobs[lane]
  <2>1. SaysActivity(registry')
    BY <1>25, JudgedBeforeWritten
  <2>2. ChainHolds(chain) /\ chain.todo # <<>>
    BY <1>9, <1>25 DEF InsertOrUpdate, ChainHolds
  <2>3. ChainHolds(Chain(chain.kind, Tail(chain.todo)))
    BY <2>2, TailIsQueued, RestingHolds DEF ChainHolds
  <2>4. PICK next, list, form :
          /\ station' = [station EXCEPT ![t].jobs[lane] = next, ![t].list = list, ![t].form = form]
          /\ next \in {Resting, Chain("list", <<>>), Chain(chain.kind, Tail(chain.todo))}
          /\ form \in {BlankForm, tab.form}
    BY <1>5, <1>25, WriteGoesOn DEF MonitorInv
  <2> DEFINE new == [tab EXCEPT !.jobs[lane] = next, !.list = list, !.form = form]
  <2>5. ChainHolds(next) /\ "active" \notin DOMAIN form
    BY <1>9, <2>3, <2>4, RestingHolds DEF BlankForm
  <2>6. TabHolds(new)
    <3>1. DOMAIN new = DOMAIN tab /\ new.form = form /\ new.check = tab.check
          /\ new.jobs = [tab.jobs EXCEPT ![lane] = next]
      BY <1>5 DEF TabHolds
    <3> HIDE DEF new
    <3> QED
      BY <1>5, <2>5, <3>1 DEF TabHolds
  <2>7. station' = [station EXCEPT ![t] = new]
    BY <2>4
  <2> HIDE DEF new
  <2> QED
    BY <1>2, <1>25, <2>1, <2>6, <2>7, OneTab DEF InsertOrUpdate
<1>26. ASSUME NEW lane \in Lanes, ListArrives(t, lane)
       PROVE  MonitorInv'
  <2> DEFINE missing == MissingStarters(registry)
             links == Chain("open", [n \in DOMAIN missing |-> Task(0, missing[n])])
  <2>1. ChainHolds(links) /\ ChainHolds(Resting)
    BY StartersAreNew, RestingHolds
  <2>5. CASE station' = [station EXCEPT ![t].jobs[lane] = Resting]
    BY <1>8, <1>26, <2>1, <2>5 DEF ListArrives
  <2> DEFINE seeds == tab.jobs[lane].kind = "open" /\ missing # <<>> /\ ~tab.attempted
             next == IF seeds THEN links ELSE Resting
             list == IF seeds THEN tab.list ELSE registry
             attempted == tab.attempted \/ seeds
  <2> SUFFICES ASSUME station' # [station EXCEPT ![t].jobs[lane] = Resting]
               PROVE  MonitorInv'
    BY <2>5
  <2>2. /\ station' = [station EXCEPT ![t].list = list, ![t].attempted = attempted,
                                      ![t].jobs[lane] = next]
        /\ next \in {links, Resting}
    BY <1>26 DEF ListArrives
  <2> HIDE DEF next, list, attempted
  <2> DEFINE new == [tab EXCEPT !.list = list, !.attempted = attempted, !.jobs[lane] = next]
  <2>3. TabHolds(new)
    <3>1. DOMAIN new = DOMAIN tab /\ new.form = tab.form /\ new.check = tab.check
          /\ new.jobs = [tab.jobs EXCEPT ![lane] = next]
      BY <1>5 DEF TabHolds
    <3>2. ChainHolds(next)
      BY <2>1, <2>2
    <3> HIDE DEF new
    <3> QED
      BY <1>5, <3>1, <3>2 DEF TabHolds
  <2>4. station' = [station EXCEPT ![t] = new]
    BY <2>2
  <2> HIDE DEF new
  <2> QED
    BY <1>2, <1>26, <2>3, <2>4, OneTab DEF ListArrives
<1> QED
  BY <1>12, <1>13, <1>14, <1>15, <1>16, <1>17, <1>18, <1>19, <1>20, <1>21, <1>22, <1>23,
     <1>24, <1>25, <1>26

(* Pages just opened, or showing some list, with a form half filled.        *)
Begins(rows, docs, shown, typed, budget) ==
  \/ MonitoringInit(rows, docs, OpenedTab, budget)
  \/ MonitoringInit(rows, docs, [ShowingTab(shown) EXCEPT !.form = typed], budget)

LEMMA MonitorStart ==
  ASSUME NEW existing, NEW docs, NEW shown, NEW typed, NEW budget,
         SaysActivity(existing), Answering(docs), "active" \notin DOMAIN typed,
         Begins(existing, docs, shown, typed, budget)
  PROVE  MonitorInv
<1>1. PICK tab : /\ MonitoringInit(existing, docs, tab, budget)
                 /\ tab \in {OpenedTab, [ShowingTab(shown) EXCEPT !.form = typed]}
  BY DEF Begins
<1>2. TabHolds([ShowingTab(shown) EXCEPT !.form = typed])
  <2> DEFINE first == [OpenedTab EXCEPT !.list = shown, !.attempted = TRUE,
                                        !.jobs["effect"] = Resting]
             next == [first EXCEPT !.form = typed]
  <2>1. DOMAIN next = DOMAIN OpenedTab /\ next.form = typed /\ next.check = OpenedTab.check
        /\ next.jobs = [OpenedTab.jobs EXCEPT !["effect"] = Resting]
    BY DEF OpenedTab
  <2>2. next = [ShowingTab(shown) EXCEPT !.form = typed]
    BY DEF ShowingTab
  <2> HIDE DEF next
  <2>3. TabHolds(next)
    BY <2>1, OpenedHolds, RestingHolds DEF TabHolds, Lanes
  <2> QED
    BY <2>2, <2>3
<1>3. TabHolds(tab)
  BY <1>1, <1>2, OpenedHolds
<1> QED
  BY <1>1, <1>3 DEF MonitoringInit, MonitorInv

LEMMA MonitorKeeps == MonitorInv /\ [][MonitoringNext]_monitorVars => []MonitorInv
BY MonitorStep, PTL

(* Nothing but a write changes the registry. *)
LEMMA OverlapStep ==
  MonitorInv /\ [MonitoringNext]_monitorVars => [Revived \/ Doubled => Overtaken]_monitorVars
<1> SUFFICES ASSUME MonitorInv, [MonitoringNext]_monitorVars
             PROVE  Revived \/ Doubled => Overtaken
  OBVIOUS
<1>1. CASE registry' = registry
  BY <1>1 DEF Revived, Doubled
<1>2. ASSUME NEW t \in Tabs, NEW lane \in Lanes, InsertOrUpdate(t, lane)
      PROVE  Revived \/ Doubled => Overtaken
  <2> DEFINE chain == station[t].jobs[lane]
  <2>1. CASE chain.read = registry
    BY <1>2, <2>1, JudgedBeforeWritten
  <2>2. CASE chain.read # registry
    <3>1. chain.read # Unset
      BY <1>2 DEF InsertOrUpdate
    <3>2. station'[t].jobs[lane].read = Unset
      <4>1. TabHolds(station[t]) /\ DOMAIN station = Tabs
        BY DEF MonitorInv
      <4>2. lane \in DOMAIN station[t].jobs
            /\ "jobs" \in DOMAIN station[t] /\ t \in DOMAIN station
        BY <4>1 DEF TabHolds
      <4>3. \A kind, todo : Chain(kind, todo).read = Unset /\ Resting.read = Unset
        BY DEF Chain, Resting
      <4>4. PICK next, list, form :
              /\ station' = [station EXCEPT ![t].jobs[lane] = next, ![t].list = list,
                                            ![t].form = form]
              /\ next \in {Resting, Chain("list", <<>>), Chain(chain.kind, Tail(chain.todo))}
              /\ form \in {BlankForm, station[t].form}
        BY <1>2, <4>1, WriteGoesOn
      <4> QED
        BY <4>2, <4>3, <4>4
    <3> QED
      BY <2>2, <3>1, <3>2 DEF Overtaken
  <2> QED
    BY <2>1, <2>2
<1>3. CASE UNCHANGED monitorVars
  BY <1>1, <1>3 DEF monitorVars
<1>4. CASE MonitoringNext
  <2>1. \/ ServeAnother
        \/ \E t \in Tabs :
             \/ TypeSource(t) \/ ResetSourceForm(t) \/ SubmitSource(t)
             \/ SeedStarterSources(t) \/ ReloadTab(t)
             \/ FeedArrives(t) \/ SaveBaseline(t) \/ DismissResult(t)
             \/ RunMonitoringCheck(t)
             \/ \E s \in DOMAIN station[t].list :
                   StartEditSource(t, s) \/ RetireSource(t, s) \/ CheckSourceFeed(t, s)
             \/ \E lane \in Lanes : ReadForWrite(t, lane) \/ ListArrives(t, lane)
        => registry' = registry
    <3>1. \A t, kind, todo : StartChain(t, kind, todo) => registry' = registry
      BY DEF StartChain
    <3>2. ServeAnother => registry' = registry
      BY DEF ServeAnother
    <3>3. \A t : FeedArrives(t) => registry' = registry
      BY DEF FeedArrives
    <3>4. \A t : RunMonitoringCheck(t) => registry' = registry
      BY DEF RunMonitoringCheck
    <3>5. \A t : SaveBaseline(t) \/ DismissResult(t) \/ TypeSource(t) \/ ResetSourceForm(t)
                 \/ ReloadTab(t) => registry' = registry
      BY DEF SaveBaseline, DismissResult, TypeSource, ResetSourceForm, ReloadTab
    <3>6. \A t : SubmitSource(t) \/ SeedStarterSources(t) => registry' = registry
      BY <3>1 DEF SubmitSource, SeedStarterSources
    <3>7. \A t, s : StartEditSource(t, s) \/ RetireSource(t, s) \/ CheckSourceFeed(t, s)
                    => registry' = registry
      BY <3>1 DEF StartEditSource, RetireSource, CheckSourceFeed
    <3>8. \A t, lane : ReadForWrite(t, lane) \/ ListArrives(t, lane) => registry' = registry
      BY DEF ReadForWrite, ListArrives
    <3> QED
      BY <3>2, <3>3, <3>4, <3>5, <3>6, <3>7, <3>8
  <2> QED
    BY <1>1, <1>2, <1>4, <2>1 DEF MonitoringNext
<1> QED
  BY <1>3, <1>4

(* A deactivated source comes back and an address is registered twice only  *)
(* when a write is judged by a registry that has changed since it was read  *)
(* (complianceSourceRegistry.ts, updateRegulatorySource), however many tabs *)
(* are at work.                                                            *)
THEOREM OnlyOverlapUndoes ==
  ASSUME NEW existing, NEW docs, NEW shown, NEW typed, NEW budget,
         SaysActivity(existing), Answering(docs), "active" \notin DOMAIN typed
  PROVE  Begins(existing, docs, shown, typed, budget) /\ [][MonitoringNext]_monitorVars
           => UndoneOnlyByOverlap
<1>1. Begins(existing, docs, shown, typed, budget) => MonitorInv
  BY MonitorStart
<1> QED
  BY <1>1, MonitorKeeps, OverlapStep, PTL DEF UndoneOnlyByOverlap

(* What a page shows of a feed is read from a document of the address that  *)
(* it had for the source, whatever became of the source meanwhile           *)
(* (serverProxyRssFetch.ts).                                               *)
THEOREM ResultsAreOfTheirAddress ==
  ASSUME NEW existing, NEW docs, NEW shown, NEW typed, NEW budget,
         SaysActivity(existing), Answering(docs), "active" \notin DOMAIN typed
  PROVE  Begins(existing, docs, shown, typed, budget) /\ [][MonitoringNext]_monitorVars
           => []ResultIsOfItsAddress
<1>1. Begins(existing, docs, shown, typed, budget) => MonitorInv
  BY MonitorStart
<1>2. MonitorInv => ResultIsOfItsAddress
  BY DEF MonitorInv, TabHolds, CheckHolds, ResultIsOfItsAddress
<1> QED
  BY <1>1, <1>2, MonitorKeeps, PTL

---------------------------------------------------------------------------
(* Sweeps over the sources.                                                *)

(* The next source is one of those that are left. *)
LEMMA FirstIsLeft ==
  ASSUME NEW todo, todo \subseteq Sources, todo # {}
  PROVE  First(todo) \in todo
<1> DEFINE at == {n \in DOMAIN SourceOrder : SourceOrder[n] \in todo}
<1>1. DOMAIN SourceOrder \subseteq Nat
  BY IngestionAssumption
<1>2. at # {} /\ at \subseteq Nat
  BY <1>1 DEF Sources, Range
<1>3. \E n \in at : \A m \in at : n <= m
  <2> HIDE DEF at
  <2> QED
    BY <1>2, LeastNatural
<1>4. (CHOOSE n \in at : \A m \in at : n <= m) \in at
  BY <1>3
<1> QED
  BY <1>4 DEF First

(* The register and what the sources serve.                                *)
RegistryHolds ==
  /\ Sources \subseteq DOMAIN source
  /\ \A s \in Sources : DOMAIN source[s] = {"active", "method", "url"}
SitesHold ==
  /\ Sources \subseteq DOMAIN site
  /\ \A s \in Sources : Document(site[s])

(* A run is of a source, and what it read is kept with it. *)
RunsHold ==
  /\ IsList(runs) /\ IsList(read) /\ Len(read) = Len(runs)
  /\ \A r \in DOMAIN runs : /\ DOMAIN runs[r] = {"source", "status", "reason", "tally"}
                            /\ runs[r].source \in Sources

Owning == {"fetch", "entry", "candidate", "evidence", "close"}
Reading == {"entry", "candidate", "evidence"}
Unread == {"known", "open", "fetch"}

SweepShape(me) ==
  /\ DOMAIN me = {"stage", "todo", "known", "run", "feed", "seen", "now", "outs", "verdict", "reason"}
  /\ DOMAIN me.now = {"decision", "linked"}
  /\ me.stage \in {"idle", "known", "open"} \cup Owning
  /\ me.todo \subseteq Sources
  /\ me.stage # "idle" => me.todo # {}
  /\ IsList(me.feed) /\ IsList(me.outs)
  /\ me.stage \in Unread => me.outs = <<>> /\ me.seen = Nothing

(* A worker works on a run of its own, which is still running. *)
OwnsRun(me) ==
  me.stage \in Owning => /\ me.run \in DOMAIN runs
                         /\ runs[me.run].source = First(me.todo)
                         /\ runs[me.run].status = "running"

(* What a sweep takes for known is in the table. *)
KnownHolds(known) ==
  /\ \A h \in known.hashes : \E u \in updates : u.hash = h
  /\ \A x \in known.exts : \E u \in updates : x = <<u.source, u.ext>>

(* How many of the entries have been looked at. *)
LookedAt(me) == IF me.stage \in {"candidate", "evidence"} THEN Len(me.outs) + 1 ELSE Len(me.outs)

(* What it takes for seen is an entry it has looked at. *)
SeenHolds(me) ==
  /\ \A h \in me.seen.hashes : \E m \in 1..LookedAt(me) : h = Hash(First(me.todo), me.feed[m])
  /\ \A x \in me.seen.exts : \E m \in 1..LookedAt(me) : x \in Identity(First(me.todo), me.feed[m])

Clean(outs) == \A n \in DOMAIN outs : outs[n] \notin {"invalid", "error"}

(* As long as nothing has failed, every entry that was dealt with stands.  *)
DealtWith(me) ==
  /\ me.stage \in Reading =>
       /\ read[me.run] = Range(me.feed)
       /\ Page(First(me.todo)) => Len(me.feed) <= 1
       /\ LookedAt(me) <= Len(me.feed)
       /\ SeenHolds(me)
       /\ Clean(me.outs) => \A n \in 1..Len(me.outs) :
                                 Stands(First(me.todo), me.feed[n], Range(me.feed))
  /\ me.stage = "evidence" /\ Clean(me.outs) /\ me.now.decision \notin {"invalid", "error"} =>
       Stands(First(me.todo), me.feed[Len(me.outs) + 1], Range(me.feed))
  /\ me.stage = "close" /\ me.verdict = "succeeded" =>
       \A e \in read[me.run] : Stands(First(me.todo), e, read[me.run])

SweepHolds(me) == SweepShape(me) /\ OwnsRun(me) /\ KnownHolds(me.known) /\ DealtWith(me)

(* No run has two owners. *)
OneOwner ==
  \A v, w \in Workers : v # w /\ worker[v].stage \in Owning /\ worker[w].stage \in Owning
                        => worker[v].run # worker[w].run

SweepsInv ==
  /\ RegistryHolds /\ SitesHold /\ RunsHold
  /\ DOMAIN worker = Workers /\ \A w \in Workers : SweepHolds(worker[w])
  /\ OneOwner /\ CleanRunMissesNothing

(* What stands goes on standing: no step takes an update back or changes   *)
(* the way a source is read.                                               *)
Grown ==
  /\ updates \subseteq updates'
  /\ \A s \in Sources : Page(s)' <=> Page(s)

(* A source is read as it was: only its activity changes. *)
LEMMA PagesStay ==
  ASSUME RegistryHolds, [IngestionNext]_ingestVars
  PROVE  \A s \in Sources : Page(s)' <=> Page(s)
<1>1. \A s \in Sources : source'[s].method = source[s].method /\ source'[s].url = source[s].url
  <2>1. CASE UNCHANGED source
    BY <2>1
  <2>2. ASSUME NEW s \in Sources, DeactivateSource(s)
        PROVE  \A t \in Sources : source'[t].method = source[t].method /\ source'[t].url = source[t].url
    BY <2>2 DEF DeactivateSource, RegistryHolds
  <2>3. UNCHANGED source \/ \E s \in Sources : DeactivateSource(s)
    BY DEF IngestionNext, ingestVars, Sweep, RunScheduledIngestion, HandleRunIngestion, StartSweep,
           FetchKnownIdentity, RecordUnfetchedRun, OpenRun, Open, RunConnector, Recognise,
           InsertCandidate, InsertItem, Summarize, CloseRun, Crash, Publish
  <2> QED
    BY <2>1, <2>2, <2>3
<1> QED
  BY <1>1 DEF Page, ConnectorKind, InferConnectorKind

(* An entry that stands goes on standing. *)
LEMMA StandsOn ==
  ASSUME Grown, NEW s \in Sources, NEW e, NEW entries, Stands(s, e, entries)
  PROVE  Stands(s, e, entries)'
BY DEF Grown, Stands, Covers, Hash, Identity

(* A worker that stays where it is, and whose run nobody else touches,     *)
(* goes on holding.                                                        *)
LEMMA WorkerStays ==
  ASSUME Grown, NEW v, SweepHolds(worker[v]), worker'[v] = worker[v],
         worker[v].stage \in Owning =>
           /\ worker[v].run \in DOMAIN runs' /\ runs'[worker[v].run] = runs[worker[v].run]
           /\ read'[worker[v].run] = read[worker[v].run]
  PROVE  SweepHolds(worker[v])'
<1> DEFINE me == worker[v]
           s == First(me.todo)
<1>1. SweepShape(me)' /\ SweepShape(me)
  BY DEF SweepHolds, SweepShape
<1>2. OwnsRun(me)' /\ OwnsRun(me)
  BY DEF SweepHolds, OwnsRun
<1>3. KnownHolds(me.known)'
  BY DEF SweepHolds, KnownHolds, Grown
<1>4. me.stage # "idle" => s \in Sources
  BY <1>1, FirstIsLeft DEF SweepShape
<1>5. me.stage \in Owning => \A e, entries : Stands(s, e, entries) => Stands(s, e, entries)'
  BY <1>4, StandsOn DEF Owning
<1>6. me.stage \in Owning => \A e : Hash(s, e)' = Hash(s, e)
  BY <1>4 DEF Owning, Grown, Hash
<1>7. DealtWith(me)'
  <2>1. DealtWith(me)
    BY DEF SweepHolds
  <2>2. CASE me.stage \in Reading
    <3>1. SeenHolds(me)'
      BY <1>6, <2>1, <2>2 DEF DealtWith, SeenHolds, LookedAt, Reading, Owning, Identity
    <3>2. Page(s)' <=> Page(s)
      BY <1>4, <2>2 DEF Grown, Reading
    <3> QED
      BY <1>5, <2>1, <2>2, <3>1, <3>2 DEF DealtWith, Reading, Owning, LookedAt
  <2>3. CASE me.stage \notin Reading
    BY <1>5, <2>1, <2>3 DEF DealtWith, Reading, Owning
  <2> QED
    BY <2>2, <2>3
<1> QED
  BY <1>1, <1>2, <1>3, <1>7 DEF SweepHolds

(* A step of one worker, which touches no run but its own.                 *)
LEMMA OneMoves ==
  ASSUME SweepsInv, Grown, RegistryHolds', SitesHold', RunsHold',
         NEW w \in Workers, NEW next, worker' = [worker EXCEPT ![w] = next],
         SweepHolds(worker[w])',
         \A r \in DOMAIN runs :
           /\ r \in DOMAIN runs'
           /\ runs'[r] # runs[r] \/ read'[r] # read[r] =>
                worker[w].stage \in Owning /\ r = worker[w].run,
         next.stage \in Owning =>
           \/ next.run \notin DOMAIN runs
           \/ worker[w].stage \in Owning /\ next.run = worker[w].run,
         \A r \in DOMAIN runs' :
           \/ r \in DOMAIN runs /\ runs'[r] = runs[r] /\ read'[r] = read[r]
           \/ runs'[r].status # "succeeded"
           \/ \A e \in read'[r] : Stands(runs[r].source, e, read[r])'
  PROVE  SweepsInv'
<1>1. DOMAIN worker' = Workers /\ worker'[w] = next
      /\ \A v \in Workers : v # w => worker'[v] = worker[v]
  BY DEF SweepsInv
<1>2. ASSUME NEW v \in Workers, v # w
      PROVE  SweepHolds(worker[v])'
  <2>1. SweepHolds(worker[v]) /\ SweepHolds(worker[w]) /\ OneOwner
    BY DEF SweepsInv
  <2>2. worker[v].stage \in Owning =>
          /\ worker[v].run \in DOMAIN runs'
          /\ runs'[worker[v].run] = runs[worker[v].run]
          /\ read'[worker[v].run] = read[worker[v].run]
    BY <1>2, <2>1 DEF SweepHolds, OwnsRun, OneOwner
  <2> QED
    BY <1>1, <1>2, <2>1, <2>2, WorkerStays
<1>3. OneOwner'
  <2>1. ASSUME NEW v \in Workers, v # w, worker'[v].stage \in Owning, next.stage \in Owning
        PROVE  worker'[v].run # next.run
    <3>1. worker[v].run \in DOMAIN runs
      BY <1>1, <2>1 DEF SweepsInv, SweepHolds, OwnsRun
    <3> QED
      BY <1>1, <2>1, <3>1 DEF SweepsInv, OneOwner
  <2>2. OneOwner
    BY DEF SweepsInv
  <2> QED
    BY <1>1, <2>1, <2>2 DEF OneOwner
<1>4. CleanRunMissesNothing'
  <2>1. ASSUME NEW r \in DOMAIN runs, runs[r].status = "succeeded", NEW e \in read[r],
               runs'[r] = runs[r], read'[r] = read[r]
        PROVE  Stands(runs[r].source, e, read[r])'
    <3>1. runs[r].source \in Sources
      BY DEF SweepsInv, RunsHold
    <3>2. Stands(runs[r].source, e, read[r])
      BY <2>1 DEF SweepsInv, CleanRunMissesNothing
    <3>3. \A t \in Sources : \A x, entries : Stands(t, x, entries) => Stands(t, x, entries)'
      BY StandsOn
    <3> QED
      BY <2>1, <3>1, <3>2, <3>3
  <2> QED
    BY <2>1 DEF CleanRunMissesNothing
<1> QED
  BY <1>1, <1>2, <1>3, <1>4 DEF SweepsInv

(* Between runs a worker holds nothing but the list of what is left.       *)
LEMMA AtRest ==
  ASSUME NEW w, SweepShape(worker[w])', worker'[w].stage \notin Owning,
         KnownHolds(worker[w].known)'
  PROVE  SweepHolds(worker[w])'
BY DEF SweepHolds, OwnsRun, DealtWith, Owning, Reading

(* A worker with nothing to do. *)
LEMMA IdleShape == SweepShape(Idle) /\ Idle.stage = "idle" /\ Idle.known = Nothing
<1>1. IsList(<<>>)
  BY <<>> \in Seq({}) DEF IsList
<1> QED
  BY <1>1 DEF SweepShape, Idle, Unknown, Owning, Unread

(* A worker that is to open a run. *)
LEMMA WaitingShape ==
  ASSUME NEW next, next.todo \subseteq Sources, next.todo # {}, next.stage \in {"known", "open"},
         DOMAIN next = {"stage", "todo", "known", "run", "feed", "seen", "now", "outs", "verdict", "reason"},
         next.feed = <<>>, next.outs = <<>>, next.now = Unknown, next.seen = Nothing
  PROVE  SweepShape(next)
<1>1. IsList(<<>>)
  BY <<>> \in Seq({}) DEF IsList
<1> QED
  BY <1>1 DEF SweepShape, Unknown, Owning, Unread

(* A worker that is done with a source. *)
LEMMA OnwardShape ==
  ASSUME NEW me, SweepShape(me)
  PROVE  /\ SweepShape(Onward(me)) /\ Onward(me).stage \notin Owning
         /\ Onward(me).known \in {me.known, Nothing}
<1> DEFINE rest == me.todo \ {First(me.todo)}
<1>1. rest \subseteq Sources
  BY DEF SweepShape
<1>2. CASE rest = {}
  BY <1>2, IdleShape DEF Onward, Owning
<1>3. CASE rest # {}
  <2> DEFINE next == [Idle EXCEPT !.stage = "open", !.todo = rest, !.known = me.known]
  <2>1. Onward(me) = next
    BY <1>3 DEF Onward
  <2>2. /\ DOMAIN next = DOMAIN Idle /\ next.stage = "open" /\ next.todo = rest
        /\ next.known = me.known /\ next.feed = <<>> /\ next.outs = <<>>
        /\ next.now = Unknown /\ next.seen = Nothing
    BY DEF Idle
  <2>3. DOMAIN Idle = {"stage", "todo", "known", "run", "feed", "seen", "now", "outs", "verdict", "reason"}
    BY DEF Idle
  <2> HIDE DEF next, rest
  <2>4. SweepShape(next)
    BY <1>1, <1>3, <2>2, <2>3, WaitingShape
  <2> QED
    BY <2>1, <2>2, <2>4 DEF Owning
<1> QED
  BY <1>2, <1>3

(* To know nothing is no mistake. *)
LEMMA NothingIsKnown == KnownHolds(Nothing)'
BY DEF KnownHolds, Nothing

(* A sweep begins, and what is known is looked up.                         *)
LEMMA SweepBegins ==
  ASSUME SweepsInv, Grown, NEW w \in Workers,
         RunScheduledIngestion(w) \/ HandleRunIngestion(w) \/ FetchKnownIdentity(w) \/ Crash(w)
  PROVE  SweepsInv'
<1>1. /\ UNCHANGED <<source, site, runs, updates, read>>
      /\ \E next : /\ worker' = [worker EXCEPT ![w] = next]
                   /\ SweepShape(next) /\ next.stage \notin Owning
                   /\ next.known \in {Nothing, KnownIdentity}
  <2>1. CASE RunScheduledIngestion(w) \/ HandleRunIngestion(w)
    <3>1. \E listed : listed \subseteq Sources /\ listed # {} /\ StartSweep(w, listed)
      <4>1. RunScheduledIngestion(w) => \E listed : listed \subseteq Sources /\ listed # {} /\ StartSweep(w, listed)
        BY DEF RunScheduledIngestion
      <4>2. HandleRunIngestion(w) => \E listed : listed \subseteq Sources /\ listed # {} /\ StartSweep(w, listed)
        BY DEF HandleRunIngestion, EnabledAutoSources
      <4> QED
        BY <2>1, <4>1, <4>2
    <3>2. PICK listed : listed \subseteq Sources /\ listed # {} /\ StartSweep(w, listed)
      BY <3>1
    <3> DEFINE next == [Idle EXCEPT !.stage = "known", !.todo = listed]
    <3>3. /\ DOMAIN next = DOMAIN Idle /\ next.stage = "known" /\ next.todo = listed
          /\ next.known = Nothing /\ next.feed = <<>> /\ next.outs = <<>>
          /\ next.now = Unknown /\ next.seen = Nothing
      BY DEF Idle
    <3>4. DOMAIN Idle = {"stage", "todo", "known", "run", "feed", "seen", "now", "outs", "verdict", "reason"}
      BY DEF Idle
    <3>5. worker' = [worker EXCEPT ![w] = next] /\ UNCHANGED <<source, site, runs, updates, read>>
      BY <3>2 DEF StartSweep
    <3> HIDE DEF next
    <3>6. SweepShape(next)
      BY <3>2, <3>3, <3>4, WaitingShape
    <3> QED
      BY <3>3, <3>5, <3>6 DEF Owning
  <2>2. CASE FetchKnownIdentity(w)
    <3>1. SweepShape(worker[w])
      BY DEF SweepsInv, SweepHolds
    <3>2. worker[w].stage = "known" => SweepShape([worker[w] EXCEPT !.stage = "open", !.known = KnownIdentity])
      BY <3>1 DEF SweepShape, Owning, Unread
    <3> DEFINE next == [worker[w] EXCEPT !.stage = "open", !.known = KnownIdentity]
    <3>3. next.stage = "open" /\ next.known = KnownIdentity
      BY <3>1 DEF SweepShape
    <3>4. /\ UNCHANGED <<source, site, runs, updates, read>> /\ worker[w].stage = "known"
          /\ \/ worker' = [worker EXCEPT ![w] = next]
             \/ worker' = [worker EXCEPT ![w] = Idle]
      BY <2>2 DEF FetchKnownIdentity
    <3> HIDE DEF next
    <3>5. SweepShape(next)
      BY <3>2, <3>4 DEF next
    <3> QED
      BY <3>3, <3>4, <3>5, IdleShape DEF Owning
  <2>3. CASE Crash(w)
    BY <2>3, IdleShape DEF Crash, Owning
  <2> QED
    BY <2>1, <2>2, <2>3
<1>2. PICK next : /\ worker' = [worker EXCEPT ![w] = next]
                  /\ SweepShape(next) /\ next.stage \notin Owning
                  /\ next.known \in {Nothing, KnownIdentity}
  BY <1>1
<1>3. worker'[w] = next
  BY <1>2 DEF SweepsInv
<1>4. KnownHolds(next.known)'
  BY <1>1, <1>2 DEF KnownHolds, KnownIdentity, Nothing
<1>5. SweepHolds(worker[w])'
  BY <1>2, <1>3, <1>4, AtRest
<1>6. RegistryHolds' /\ SitesHold' /\ RunsHold'
  BY <1>1 DEF SweepsInv, RegistryHolds, SitesHold, RunsHold, Document
<1> QED
  BY <1>1, <1>2, <1>5, <1>6, OneMoves

(* A run is opened, or given up with or without its row.                   *)
LEMMA RunOpens ==
  ASSUME SweepsInv, Grown, NEW w \in Workers, OpenRun(w) \/ RecordUnfetchedRun(w)
  PROVE  SweepsInv'
<1> DEFINE me == worker[w]
           s == First(me.todo)
           opened == [me EXCEPT !.stage = "fetch"]
           skipped == [me EXCEPT !.stage = "close", !.verdict = "skipped", !.reason = "source_disabled"]
<1>1. SweepShape(me) /\ KnownHolds(me.known) /\ DOMAIN worker = Workers
  BY DEF SweepsInv, SweepHolds
<1>2. me.stage = "open" /\ UNCHANGED <<source, site, updates>> /\ s = Now(w)
  BY DEF OpenRun, RecordUnfetchedRun, Open, Now
<1>3. s \in Sources /\ me.outs = <<>> /\ me.seen = Nothing
  BY <1>1, <1>2, FirstIsLeft DEF SweepShape, Unread
<1>4. \/ UNCHANGED <<runs, read>> /\ worker' = [worker EXCEPT ![w] = Onward(me)]
      \/ /\ runs' = Append(runs, RunRow(s)) /\ read' = Append(read, {})
         /\ \/ worker' = [worker EXCEPT ![w] = Onward(me)]
            \/ worker' = [worker EXCEPT ![w] = [opened EXCEPT !.run = Len(runs')]]
            \/ worker' = [worker EXCEPT ![w] = [skipped EXCEPT !.run = Len(runs')]]
  BY <1>2 DEF OpenRun, RecordUnfetchedRun, Open, Fates, Applied
<1>5. RegistryHolds' /\ SitesHold'
  BY <1>2 DEF SweepsInv, RegistryHolds, SitesHold, Document
<1>6. RunsHold /\ IsList(runs) /\ IsList(read)
  BY DEF SweepsInv, RunsHold
<1>7. DOMAIN RunRow(s) = {"source", "status", "reason", "tally"}
      /\ RunRow(s).source = s /\ RunRow(s).status = "running"
  BY DEF RunRow
<1>8. RunsHold'
  <2>1. CASE UNCHANGED <<runs, read>>
    BY <1>6, <2>1 DEF RunsHold
  <2>2. CASE runs' = Append(runs, RunRow(s)) /\ read' = Append(read, {})
    <3>1. IsList(runs') /\ IsList(read') /\ Len(read') = Len(runs')
      BY <1>6, <2>2, ListGrows DEF RunsHold
    <3>2. ASSUME NEW r \in DOMAIN runs'
          PROVE  runs'[r] = RunRow(s) \/ (r \in DOMAIN runs /\ runs'[r] = runs[r])
      <4>1. /\ Len(runs) \in Nat /\ DOMAIN runs = 1..Len(runs) /\ r \in 1..(Len(runs) + 1)
            /\ \A n \in 1..Len(runs) : runs'[n] = runs[n]
            /\ runs'[Len(runs) + 1] = RunRow(s)
        BY <1>6, <2>2, <3>2, ListGrows
      <4>2. r \in 1..Len(runs) \/ r = Len(runs) + 1
        BY <4>1
      <4>3. CASE r \in 1..Len(runs)
        BY <4>1, <4>3
      <4>4. CASE r = Len(runs) + 1
        BY <4>1, <4>4, Zenon
      <4> QED
        BY <4>2, <4>3, <4>4
    <3> QED
      BY <1>3, <1>6, <1>7, <3>1, <3>2 DEF RunsHold
  <2> QED
    BY <1>4, <2>1, <2>2
<1>9. ASSUME NEW next, next = Onward(me), worker' = [worker EXCEPT ![w] = next]
      PROVE  SweepHolds(worker[w])' /\ next.stage \notin Owning
  <2>1. worker'[w] = next
    BY <1>1, <1>9
  <2>2. SweepShape(next) /\ next.stage \notin Owning /\ next.known \in {me.known, Nothing}
    BY <1>1, <1>9, OnwardShape
  <2>3. KnownHolds(next.known)'
    BY <1>1, <1>2, <2>2 DEF KnownHolds, Nothing
  <2> QED
    BY <2>1, <2>2, <2>3, AtRest
<1>10. ASSUME NEW next, worker' = [worker EXCEPT ![w] = next],
              runs' = Append(runs, RunRow(s)), read' = Append(read, {}),
              \/ next = [opened EXCEPT !.run = Len(runs')]
              \/ next = [skipped EXCEPT !.run = Len(runs')]
       PROVE  SweepHolds(worker[w])' /\ next.run \notin DOMAIN runs
  <2>1. /\ DOMAIN next = DOMAIN me /\ next.todo = me.todo /\ next.known = me.known
        /\ next.run = Len(runs') /\ next.feed = me.feed /\ next.outs = me.outs
        /\ next.seen = me.seen /\ next.now = me.now
        /\ \/ next.stage = "fetch"
           \/ next.stage = "close" /\ next.verdict = "skipped"
    BY <1>1, <1>10 DEF SweepShape
  <2>2. worker'[w] = next
    BY <1>1, <1>10
  <2>3. SweepShape(next)
    BY <1>1, <1>2, <1>3, <2>1 DEF SweepShape, Owning, Unread
  <2>4. next.run \in DOMAIN runs' /\ runs'[next.run] = RunRow(s) /\ next.run \notin DOMAIN runs
    BY <1>6, <1>10, <2>1, ListGrows
  <2>5. OwnsRun(next)'
    BY <1>7, <2>1, <2>4 DEF OwnsRun
  <2>6. KnownHolds(next.known)'
    BY <1>1, <1>2, <2>1 DEF KnownHolds
  <2>7. DealtWith(next)'
    BY <2>1 DEF DealtWith, Reading
  <2> QED
    BY <2>2, <2>3, <2>4, <2>5, <2>6, <2>7 DEF SweepHolds
<1>11. \A r \in DOMAIN runs : r \in DOMAIN runs' /\ runs'[r] = runs[r] /\ read'[r] = read[r]
  BY <1>4, <1>6, ListGrows DEF RunsHold
<1>12. \A r \in DOMAIN runs' : r \in DOMAIN runs \/ runs'[r].status # "succeeded"
  BY <1>4, <1>6, <1>7, ListGrows
<1>13. CASE worker' = [worker EXCEPT ![w] = Onward(me)]
  BY <1>5, <1>8, <1>9, <1>11, <1>12, <1>13, OneMoves
<1>14. ASSUME NEW next, worker' = [worker EXCEPT ![w] = next],
              SweepHolds(worker[w])' /\ next.run \notin DOMAIN runs
       PROVE  SweepsInv'
  BY <1>5, <1>8, <1>11, <1>12, <1>14, OneMoves
<1> QED
  BY <1>4, <1>10, <1>13, <1>14

(* The source is read, or the run fails.                                   *)
LEMMA ReadHolds ==
  ASSUME SweepsInv, Grown, NEW w \in Workers, RunConnector(w)
  PROVE  SweepsInv'
<1> DEFINE me == worker[w]
           s == First(me.todo)
           r == me.run
           got == [me EXCEPT !.feed = site[s].entries, !.stage = "entry"]
           bad(failure) == [me EXCEPT !.stage = "close", !.verdict = "failed", !.reason = failure]
<1>1. SweepShape(me) /\ KnownHolds(me.known) /\ OwnsRun(me) /\ DOMAIN worker = Workers
  BY DEF SweepsInv, SweepHolds
<1>2. me.stage = "fetch" /\ UNCHANGED <<source, site, updates, runs>> /\ s = Now(w)
  BY DEF RunConnector, Now
<1>3. s \in Sources /\ me.outs = <<>> /\ me.seen = Nothing
  BY <1>1, <1>2, FirstIsLeft DEF SweepShape, Unread
<1>4. \/ /\ worker' = [worker EXCEPT ![w] = got] /\ Unreadable(w, s) = None
         /\ read' = [read EXCEPT ![r] = Range(site[s].entries)]
      \/ /\ \E failure : worker' = [worker EXCEPT ![w] = bad(failure)]
         /\ read' = read
  <2>1. "source_unavailable" # None
    BY IngestionAssumption DEF Failures
  <2>2. \E failure :
           \/ /\ worker' = [worker EXCEPT ![w].feed = site[s].entries, ![w].stage = "entry"]
              /\ read' = [read EXCEPT ![r] = Range(site[s].entries)]
              /\ Unreadable(w, s) = None
           \/ /\ worker' = [worker EXCEPT ![w].stage = "close", ![w].verdict = "failed",
                                            ![w].reason = failure]
              /\ read' = read
    BY <1>2, <2>1 DEF RunConnector
  <2>3. \A failure : [worker EXCEPT ![w].stage = "close", ![w].verdict = "failed", ![w].reason = failure]
                       = [worker EXCEPT ![w] = bad(failure)]
    OBVIOUS
  <2>4. [worker EXCEPT ![w].feed = site[s].entries, ![w].stage = "entry"] = [worker EXCEPT ![w] = got]
    OBVIOUS
  <2> HIDE DEF got, bad
  <2> QED
    BY <2>2, <2>3, <2>4
<1>5. RegistryHolds' /\ SitesHold'
  BY <1>2 DEF SweepsInv, RegistryHolds, SitesHold, Document
<1>6. RunsHold /\ IsList(read) /\ r \in DOMAIN runs /\ DOMAIN read = DOMAIN runs
      /\ runs[r].status = "running"
  <2>1. RunsHold /\ IsList(read) /\ IsList(runs) /\ r \in DOMAIN runs /\ runs[r].status = "running"
    BY <1>1, <1>2 DEF SweepsInv, RunsHold, OwnsRun, Owning
  <2> QED
    BY <2>1, ListGrows DEF RunsHold
<1>7. RunsHold'
  <2>1. IsList(read') /\ Len(read') = Len(read)
    <3>1. CASE read' = read
      BY <1>6, <3>1
    <3>2. CASE read' = [read EXCEPT ![r] = Range(site[s].entries)]
      BY <1>6, <3>2, ListChanges
    <3> QED
      BY <1>4, <3>1, <3>2
  <2> QED
    BY <1>2, <1>6, <2>1 DEF RunsHold
<1>8. \A q \in DOMAIN runs : q # r => read'[q] = read[q]
  BY <1>4, <1>6
<1>9. ASSUME NEW next, worker' = [worker EXCEPT ![w] = next], SweepHolds(worker[w])', next.run = r
      PROVE  SweepsInv'
  <2>1. runs' = runs /\ me.stage \in Owning /\ runs'[r].status # "succeeded"
    BY <1>2, <1>6 DEF Owning
  <2> HIDE DEF r
  <2> QED
    BY <1>5, <1>7, <1>8, <1>9, <2>1, OneMoves DEF r
<1>10. ASSUME NEW next, next = got, worker'[w] = next, Unreadable(w, s) = None,
              read' = [read EXCEPT ![r] = Range(site[s].entries)]
       PROVE  SweepHolds(worker[w])' /\ next.run = r
  <2>1. /\ DOMAIN next = DOMAIN me /\ next.todo = me.todo /\ next.known = me.known
        /\ next.run = r /\ next.feed = site[s].entries /\ next.outs = <<>>
        /\ next.seen = Nothing /\ next.now = me.now /\ next.stage = "entry"
    BY <1>1, <1>3, <1>10 DEF SweepShape
  <2>2. Document(site[s]) /\ IsList(site[s].entries)
    BY <1>3 DEF SweepsInv, SitesHold, Document, IsList
  <2>3. Page(s) => Len(site[s].entries) = 1
    <3>1. Page(s) => PageFailure(site[s]) = None
      BY <1>10, IngestionAssumption DEF Unreadable, Failures
    <3>2. PageFailure(site[s]) = None => site[s].media = "html"
      BY IngestionAssumption DEF PageFailure, Failures
    <3> QED
      BY <2>2, <3>1, <3>2 DEF Document
  <2> HIDE DEF got
  <2>4. SweepShape(next)
    BY <1>1, <1>2, <2>1, <2>2 DEF SweepShape, Owning, Unread
  <2>5. OwnsRun(next)'
    BY <1>1, <1>2, <2>1 DEF OwnsRun, Owning
  <2>6. KnownHolds(next.known)'
    BY <1>1, <1>2, <2>1 DEF KnownHolds
  <2>7. SeenHolds(next)'
    BY <2>1 DEF SeenHolds, Nothing
  <2>8. read'[next.run] = Range(next.feed)
    BY <1>6, <1>10, <2>1
  <2>9. Page(First(next.todo))' => Page(s)
    BY <1>3, <2>1 DEF Grown
  <2>10. Len(next.outs) = 0 /\ Len(next.feed) \in Nat /\ (Page(s) => Len(next.feed) = 1)
    BY <2>1, <2>2, <2>3, ListGrows
  <2>11. DealtWith(next)'
    <3>1. LookedAt(next) <= Len(next.feed) /\ 1..Len(next.outs) = {}
      BY <2>1, <2>10 DEF LookedAt
    <3>2. Page(First(next.todo))' => Len(next.feed) <= 1
      <4>1. Len(next.feed) = 1 => Len(next.feed) <= 1
        OBVIOUS
      <4> QED
        BY <2>9, <2>10, <4>1, Zenon
    <3> QED
      BY <2>1, <2>7, <2>8, <3>1, <3>2 DEF DealtWith
  <2> QED
    BY <1>10, <2>1, <2>4, <2>5, <2>6, <2>11 DEF SweepHolds
<1>11. ASSUME NEW next, NEW failure, next = bad(failure), worker'[w] = next, read' = read
       PROVE  SweepHolds(worker[w])' /\ next.run = r
  <2>1. /\ DOMAIN next = DOMAIN me /\ next.todo = me.todo /\ next.known = me.known
        /\ next.run = r /\ next.feed = me.feed /\ next.outs = <<>>
        /\ next.seen = Nothing /\ next.now = me.now /\ next.stage = "close" /\ next.verdict = "failed"
    BY <1>1, <1>3, <1>11 DEF SweepShape
  <2> HIDE DEF bad
  <2>2. SweepShape(next)
    BY <1>1, <1>2, <2>1 DEF SweepShape, Owning, Unread
  <2>3. OwnsRun(next)'
    BY <1>1, <1>2, <2>1 DEF OwnsRun, Owning
  <2>4. KnownHolds(next.known)'
    BY <1>1, <1>2, <2>1 DEF KnownHolds
  <2>5. DealtWith(next)'
    BY <2>1 DEF DealtWith, Reading
  <2> QED
    BY <1>11, <2>1, <2>2, <2>3, <2>4, <2>5 DEF SweepHolds
<1>12. \A next : worker' = [worker EXCEPT ![w] = next] => worker'[w] = next
  BY <1>1
<1> HIDE DEF got, bad
<1> QED
  BY <1>4, <1>9, <1>10, <1>11, <1>12

(* What has the digest or the identity of an entry that stands, stands.    *)
LEMMA SameDigestStands ==
  ASSUME NEW s, NEW d, NEW e, NEW entries, e \in entries, ~Page(s),
         Hash(s, d) = Hash(s, e), Stands(s, d, entries)
  PROVE  Stands(s, e, entries)
<1>1. d.ext = e.ext
  BY DEF Hash
<1>2. Identity(s, d) = Identity(s, e)
  BY <1>1 DEF Identity
<1>3. PICK c \in entries, u \in updates :
        (c = d \/ Identity(s, c) \cap Identity(s, d) # {}) /\ Covers(u, s, c)
  BY DEF Stands
<1>4. CASE c = d
  BY <1>2, <1>3, <1>4 DEF Stands, Covers
<1>5. CASE Identity(s, c) \cap Identity(s, d) # {}
  BY <1>2, <1>3, <1>5 DEF Stands
<1> QED
  BY <1>3, <1>4, <1>5

(* An entry whose identity is known stands, or its first one does. *)
LEMMA SameIdentityStands ==
  ASSUME NEW s, NEW d, NEW e, NEW entries, d \in entries,
         NEW x \in Identity(s, d) \cap Identity(s, e), Stands(s, d, entries)
  PROVE  Stands(s, e, entries)
<1>1. Identity(s, d) = {x} /\ Identity(s, e) = {x}
  BY DEF Identity
<1>2. PICK c \in entries, u \in updates :
        (c = d \/ Identity(s, c) \cap Identity(s, d) # {}) /\ Covers(u, s, c)
  BY DEF Stands
<1>3. Identity(s, c) \cap Identity(s, e) # {}
  BY <1>1, <1>2
<1> QED
  BY <1>2, <1>3 DEF Stands

(* An entry that is taken for a known one stands. *)
LEMMA RecognisedStands ==
  ASSUME NEW me, NEW s \in Sources, s = First(me.todo), SweepShape(me), me.stage = "entry",
         KnownHolds(me.known), DealtWith(me), Clean(me.outs), Len(me.outs) + 1 <= Len(me.feed),
         Classify(s, me.feed, Len(me.outs) + 1, me.known, me.seen) \notin {"invalid", "new"}
  PROVE  Stands(s, me.feed[Len(me.outs) + 1], Range(me.feed))
<1> DEFINE n == Len(me.outs) + 1
           e == me.feed[n]
           entries == Range(me.feed)
<1>1. /\ Len(me.outs) \in Nat /\ Len(me.feed) \in Nat /\ DOMAIN me.feed = 1..Len(me.feed)
      /\ n \in 1..Len(me.feed)
  BY ListGrows DEF SweepShape
<1>2. /\ \A m \in 1..Len(me.outs) : Stands(s, me.feed[m], entries)
      /\ Page(s) => Len(me.feed) <= 1
      /\ SeenHolds(me) /\ LookedAt(me) = Len(me.outs)
  BY DEF DealtWith, Reading, LookedAt
<1>3. e \in entries /\ \A m \in 1..Len(me.outs) : me.feed[m] \in entries
  BY <1>1 DEF Range
<1>4. \A m \in 1..Len(me.outs) : ~Page(s)
  <2>1. \A m \in 1..Len(me.outs) : ~(Len(me.feed) <= 1)
    BY <1>1
  <2> QED
    BY <1>2, <2>1, Zenon
<1>5. ASSUME NEW m \in 1..Len(me.outs), Hash(s, me.feed[m]) = Hash(s, e)
      PROVE  Stands(s, e, entries)
  <2> HIDE DEF e, entries
  <2> QED
    BY <1>2, <1>3, <1>4, <1>5, SameDigestStands
<1>6. ASSUME Hash(s, e) \in me.known.hashes \/ Identity(s, e) \cap me.known.exts # {}
      PROVE  Stands(s, e, entries)
  <2> HIDE DEF e, entries
  <2>1. CASE Hash(s, e) \in me.known.hashes
    BY <1>3, <2>1 DEF KnownHolds, Stands, Covers
  <2>2. CASE Identity(s, e) \cap me.known.exts # {}
    <3>1. PICK x : x \in Identity(s, e) /\ x \in me.known.exts
      BY <2>2
    <3>2. PICK u \in updates : x = <<u.source, u.ext>>
      BY <3>1 DEF KnownHolds
    <3> QED
      BY <1>3, <3>1, <3>2 DEF Stands, Covers
  <2> QED
    BY <1>6, <2>1, <2>2
<1>7. CASE Hash(s, e) \in me.seen.hashes
  BY <1>2, <1>5, <1>7 DEF SeenHolds
<1>8. ASSUME Identity(s, e) \cap me.seen.exts # {}
      PROVE  Stands(s, e, entries)
  <2>1. PICK x : x \in Identity(s, e) /\ x \in me.seen.exts
    BY <1>8
  <2>2. PICK m \in 1..Len(me.outs) : x \in Identity(s, me.feed[m])
    BY <1>2, <2>1 DEF SeenHolds
  <2>3. x \in Identity(s, me.feed[m]) \cap Identity(s, e)
    BY <2>1, <2>2
  <2> HIDE DEF e, entries
  <2> QED
    BY <1>2, <1>3, <2>3, SameIdentityStands
<1>9. CASE RepeatsEarlier(s, me.feed, n)
  <2>1. PICK m \in 1..(n - 1) : Hash(s, me.feed[m]) = Hash(s, me.feed[n])
    BY <1>9 DEF RepeatsEarlier
  <2>2. m \in 1..Len(me.outs)
    BY <1>1, <2>1
  <2> QED
    BY <1>5, <2>1, <2>2
<1>10. \/ Hash(s, e) \in me.known.hashes \cup me.seen.hashes
       \/ Identity(s, e) \cap (me.known.exts \cup me.seen.exts) # {}
       \/ RepeatsEarlier(s, me.feed, n)
  BY DEF Classify, Decision
<1> QED
  BY <1>6, <1>7, <1>8, <1>9, <1>10

(* A step of one worker that leaves the runs as they are. *)
LEMMA WorksOn ==
  ASSUME SweepsInv, Grown, UNCHANGED <<source, site, runs, read>>, NEW w \in Workers,
         NEW next, worker' = [worker EXCEPT ![w] = next], SweepHolds(next)',
         next.stage \in Owning => worker[w].stage \in Owning /\ next.run = worker[w].run
  PROVE  SweepsInv'
<1>1. worker'[w] = next
  BY DEF SweepsInv
<1>2. SweepHolds(worker[w])'
  BY <1>1
<1>3. RegistryHolds' /\ SitesHold' /\ RunsHold'
  BY DEF SweepsInv, RegistryHolds, SitesHold, RunsHold, Document
<1> QED
  BY <1>2, <1>3, OneMoves

(* watchtowerIngestionService.ts:181. An entry is recognised. *)
LEMMA RecogniseHolds ==
  ASSUME SweepsInv, Grown, NEW w \in Workers, Recognise(w)
  PROVE  SweepsInv'
<1> DEFINE me == worker[w]
<1>1. /\ SweepShape(me) /\ KnownHolds(me.known) /\ OwnsRun(me) /\ DealtWith(me)
      /\ DOMAIN worker = Workers
  BY DEF SweepsInv, SweepHolds
<1>2. me.stage = "entry" /\ UNCHANGED <<source, site, updates, runs, read>>
      /\ Len(me.outs) + 1 <= Len(me.feed)
  BY DEF Recognise, Nth
<1>3. PICK s : s = First(me.todo) /\ s \in Sources
  BY <1>1, <1>2, FirstIsLeft DEF SweepShape
<1>4. PICK d : d = Classify(s, me.feed, Len(me.outs) + 1, me.known, me.seen)
  OBVIOUS
<1>5. PICK next : next = [me EXCEPT !.now.decision = d,
                                    !.stage = IF d = "new" THEN "candidate" ELSE "evidence",
                                    !.seen = IF d = "new" THEN With(@, s, Entry(w)) ELSE @]
  OBVIOUS
<1>6. worker' = [worker EXCEPT ![w] = next]
  <2>1. worker' = [worker EXCEPT ![w].now.decision = d,
                      ![w].stage = IF d = "new" THEN "candidate" ELSE "evidence",
                      ![w].seen = IF d = "new" THEN With(@, s, Entry(w)) ELSE @]
    BY <1>3, <1>4 DEF Recognise, Now, Nth
  <2> QED
    BY <1>5, <2>1
<1>7. /\ DOMAIN next = DOMAIN me /\ next.todo = me.todo /\ next.known = me.known
      /\ next.run = me.run /\ next.feed = me.feed /\ next.outs = me.outs
      /\ next.now = [me.now EXCEPT !.decision = d] /\ DOMAIN next.now = DOMAIN me.now
      /\ next.now.decision = d
      /\ next.stage = IF d = "new" THEN "candidate" ELSE "evidence"
      /\ next.seen = IF d = "new" THEN With(me.seen, s, Entry(w)) ELSE me.seen
  BY <1>1, <1>5 DEF SweepShape
<1>8. Len(me.outs) \in Nat /\ Len(me.feed) \in Nat
  BY <1>1, ListGrows DEF SweepShape
<1>9. SweepShape(next)
  BY <1>1, <1>2, <1>7 DEF SweepShape, Owning, Unread
<1>10. OwnsRun(next)' /\ KnownHolds(next.known)'
  BY <1>1, <1>2, <1>7 DEF OwnsRun, Owning, KnownHolds
<1>11. Page(s)' <=> Page(s)
  BY <1>3 DEF Grown
<1>12. \A x : Hash(s, x)' = Hash(s, x)
  BY <1>11 DEF Hash
<1>13. SeenHolds(next)'
  <2>1. LookedAt(next) = Len(me.outs) + 1 /\ LookedAt(me) = Len(me.outs) /\ SeenHolds(me)
    BY <1>1, <1>2, <1>7 DEF LookedAt, DealtWith, Reading
  <2>2. Entry(w) = me.feed[Len(me.outs) + 1]
    BY DEF Entry, Nth
  <2>3. \A m \in 1..Len(me.outs) : m \in 1..(Len(me.outs) + 1)
    BY <1>8
  <2>4. Len(me.outs) + 1 \in 1..(Len(me.outs) + 1)
    BY <1>8
  <2>5. \A h \in next.seen.hashes : h \in me.seen.hashes \/ h = Hash(s, Entry(w))
    BY <1>7 DEF With
  <2>6. \A x \in next.seen.exts : x \in me.seen.exts \/ x \in Identity(s, Entry(w))
    BY <1>7 DEF With
  <2>7. \A h \in next.seen.hashes : \E m \in 1..LookedAt(next) : h = Hash(s, next.feed[m])
    BY <1>3, <1>7, <2>1, <2>2, <2>3, <2>4, <2>5 DEF SeenHolds
  <2>8. \A x \in next.seen.exts : \E m \in 1..LookedAt(next) : x \in Identity(s, next.feed[m])
    BY <1>3, <1>7, <2>1, <2>2, <2>3, <2>4, <2>6 DEF SeenHolds
  <2> QED
    BY <1>3, <1>7, <1>12, <2>7, <2>8 DEF SeenHolds, LookedAt, Identity
<1>14. \A x, entries : Stands(s, x, entries) => Stands(s, x, entries)'
  BY <1>3, StandsOn
<1>15. DealtWith(next)'
  <2>1. next.stage \in {"candidate", "evidence"} /\ LookedAt(next) <= Len(next.feed)
    BY <1>2, <1>7 DEF LookedAt
  <2>2. /\ read[me.run] = Range(me.feed)
        /\ Page(s) => Len(me.feed) <= 1
        /\ Clean(me.outs) => \A n \in 1..Len(me.outs) : Stands(s, me.feed[n], Range(me.feed))
    BY <1>1, <1>2, <1>3 DEF DealtWith, Reading
  <2>3. next.stage = "evidence" /\ Clean(me.outs) /\ d \notin {"invalid", "error"} =>
          Stands(s, me.feed[Len(me.outs) + 1], Range(me.feed))
    BY <1>1, <1>2, <1>3, <1>4, <1>7, RecognisedStands
  <2> QED
    BY <1>2, <1>3, <1>7, <1>11, <1>13, <1>14, <2>1, <2>2, <2>3 DEF DealtWith
<1> QED
  BY <1>2, <1>6, <1>7, <1>9, <1>10, <1>15, WorksOn DEF SweepHolds, Owning

(* The candidate is written, or the index knows it, or the call fails.     *)
LEMMA CandidateHolds ==
  ASSUME SweepsInv, Grown, NEW w \in Workers, InsertCandidate(w)
  PROVE  SweepsInv'
<1>0. PICK me : me = worker[w]
  OBVIOUS
<1>1. /\ SweepShape(me) /\ KnownHolds(me.known) /\ OwnsRun(me) /\ DealtWith(me)
      /\ DOMAIN worker = Workers
  BY <1>0 DEF SweepsInv, SweepHolds
<1>2. me.stage = "candidate" /\ UNCHANGED <<source, site, runs, read>>
  BY <1>0 DEF InsertCandidate
<1>3. PICK s : s = First(me.todo) /\ s \in Sources /\ s = Now(w)
  BY <1>0, <1>1, <1>2, FirstIsLeft DEF SweepShape, Now
<1>4. PICK e : e = Entry(w) /\ e = me.feed[Len(me.outs) + 1]
  BY <1>0 DEF Entry, Nth
<1>5. PICK next, d, linked :
        /\ worker' = [worker EXCEPT ![w] = next]
        /\ DOMAIN next = DOMAIN me /\ next.todo = me.todo
        /\ next.run = me.run /\ next.feed = me.feed /\ next.outs = me.outs
        /\ next.seen = me.seen /\ next.stage = "evidence"
        /\ next.now = [decision |-> d, linked |-> linked]
        /\ \/ updates' = updates \cup {Candidate(w)} /\ next.known = With(me.known, s, e)
           \/ Taken(s, e) /\ updates' = updates /\ next.known = me.known
           \/ d = "error" /\ next.known = me.known
  <2> DEFINE new == [worker[w] EXCEPT !.stage = "evidence", !.now.linked = TRUE,
                                      !.known = With(worker[w].known, Now(w), Entry(w))]
             old(out) == [worker[w] EXCEPT !.stage = "evidence", !.now.decision = out]
  <2>1. PICK f \in Fates :
           /\ updates' = IF Applied(f) /\ ~Taken(Now(w), Entry(w)) THEN updates \cup {Candidate(w)} ELSE updates
           /\ worker' = [worker EXCEPT ![w] =
                  IF f = "done" /\ ~Taken(Now(w), Entry(w)) THEN new
                  ELSE old(IF f = "done" THEN "duplicate_content_hash" ELSE "error")]
    BY DEF InsertCandidate
  <2>2. /\ DOMAIN new = DOMAIN me /\ new.todo = me.todo
        /\ new.run = me.run /\ new.feed = me.feed /\ new.outs = me.outs
        /\ new.seen = me.seen /\ new.stage = "evidence"
        /\ new.known = With(me.known, Now(w), Entry(w))
        /\ new.now = [decision |-> me.now.decision, linked |-> TRUE]
    BY <1>0, <1>1 DEF SweepShape
  <2>3. ASSUME NEW out
        PROVE  /\ DOMAIN old(out) = DOMAIN me /\ old(out).todo = me.todo
               /\ old(out).run = me.run /\ old(out).feed = me.feed /\ old(out).outs = me.outs
               /\ old(out).seen = me.seen /\ old(out).stage = "evidence" /\ old(out).known = me.known
               /\ old(out).now = [decision |-> out, linked |-> me.now.linked]
    BY <1>0, <1>1 DEF SweepShape
  <2> HIDE DEF new, old
  <2>4. CASE f = "done" /\ ~Taken(Now(w), Entry(w))
    <3>1. worker' = [worker EXCEPT ![w] = new] /\ updates' = updates \cup {Candidate(w)}
      BY <2>1, <2>4 DEF Applied
    <3> QED
      BY <1>3, <1>4, <2>2, <3>1
  <2>5. CASE ~(f = "done" /\ ~Taken(Now(w), Entry(w)))
    <3>1. PICK out : out = (IF f = "done" THEN "duplicate_content_hash" ELSE "error")
      OBVIOUS
    <3>2. worker' = [worker EXCEPT ![w] = old(out)]
      BY <2>1, <2>5, <3>1
    <3>3. (Taken(s, e) /\ updates' = updates) \/ out = "error"
      BY <1>3, <1>4, <2>1, <2>5, <3>1
    <3> QED
      BY <2>3, <3>2, <3>3
  <2> QED
    BY <2>4, <2>5
<1>6. SweepShape(next)
  BY <1>1, <1>2, <1>5 DEF SweepShape, Owning, Unread
<1>7. OwnsRun(next)'
  BY <1>1, <1>2, <1>5 DEF OwnsRun, Owning
<1>8. \A x : (Hash(s, x)' = Hash(s, x)) /\ (Page(s)' <=> Page(s))
  BY <1>3 DEF Grown, Hash
<1>9. Candidate(w).hash = Hash(s, e) /\ Candidate(w).source = s /\ Candidate(w).ext = e.ext
  BY <1>3, <1>4 DEF Candidate
<1>10. KnownHolds(next.known)'
  <2>1. KnownHolds(me.known)'
    BY <1>1 DEF KnownHolds, Grown
  <2>2. CASE updates' = updates \cup {Candidate(w)} /\ next.known = With(me.known, s, e)
    <3>1. Candidate(w) \in updates'
      BY <2>2
    <3>2. \A h \in next.known.hashes : h \in me.known.hashes \/ h = Hash(s, e)
      BY <2>2 DEF With
    <3>3. \A x \in next.known.exts : x \in me.known.exts \/ x = <<s, e.ext>>
      BY <2>2 DEF With, Identity
    <3> QED
      BY <1>9, <2>1, <3>1, <3>2, <3>3 DEF KnownHolds
  <2> QED
    BY <1>5, <2>1, <2>2
<1>11. d \notin {"invalid", "error"} => \E u \in updates' : Covers(u, s, e)'
  <2>1. CASE updates' = updates \cup {Candidate(w)}
    BY <1>8, <1>9, <2>1 DEF Covers
  <2>2. CASE Taken(s, e) /\ updates' = updates
    BY <1>8, <2>2 DEF Covers, Taken, Identity
  <2> QED
    BY <1>5, <2>1, <2>2
<1>12. \A x, entries : Stands(s, x, entries) => Stands(s, x, entries)'
  BY <1>3, StandsOn
<1>13. DealtWith(next)'
  <2>1. /\ LookedAt(next) <= Len(next.feed) /\ LookedAt(next) = LookedAt(me)
        /\ LookedAt(me) = Len(me.outs) + 1
        /\ read[me.run] = Range(me.feed)
        /\ Page(s) => Len(me.feed) <= 1
        /\ SeenHolds(me)
        /\ Clean(me.outs) => \A n \in 1..Len(me.outs) : Stands(s, me.feed[n], Range(me.feed))
    BY <1>1, <1>2, <1>3, <1>5 DEF DealtWith, Reading, LookedAt
  <2>2. SeenHolds(next)'
    <3>1. \A h \in next.seen.hashes : \E m \in 1..LookedAt(next) : h = Hash(s, next.feed[m])
      BY <1>3, <1>5, <2>1 DEF SeenHolds
    <3>2. \A x \in next.seen.exts : \E m \in 1..LookedAt(next) : x \in Identity(s, next.feed[m])
      BY <1>3, <1>5, <2>1 DEF SeenHolds
    <3> QED
      BY <1>3, <1>5, <1>8, <3>1, <3>2 DEF SeenHolds, LookedAt, Identity
  <2>3. e \in Range(me.feed)
    <3>1. Len(me.outs) \in Nat /\ Len(me.feed) \in Nat /\ DOMAIN me.feed = 1..Len(me.feed)
      BY <1>1, ListGrows DEF SweepShape
    <3>2. Len(me.outs) + 1 \in DOMAIN me.feed
      BY <1>5, <2>1, <3>1
    <3> QED
      BY <1>4, <3>2 DEF Range
  <2>4. d \notin {"invalid", "error"} => Stands(s, e, Range(me.feed))'
    BY <1>11, <2>3 DEF Stands
  <2>5. next.stage = "evidence" /\ next.now.decision = d
    BY <1>5
  <2>6. Page(First(next.todo))' => Len(next.feed) <= 1
    BY <1>3, <1>5, <1>8, <2>1
  <2>7. read'[next.run] = Range(next.feed)
    BY <1>2, <1>5, <2>1
  <2>8. Clean(next.outs) => \A n \in 1..Len(next.outs) :
           Stands(First(next.todo), next.feed[n], Range(next.feed))'
    BY <1>3, <1>5, <1>12, <2>1
  <2>9. d \notin {"invalid", "error"} =>
           Stands(First(next.todo), next.feed[Len(next.outs) + 1], Range(next.feed))'
    BY <1>3, <1>4, <1>5, <2>4
  <2> QED
    BY <2>1, <2>2, <2>5, <2>6, <2>7, <2>8, <2>9 DEF DealtWith
<1> QED
  BY <1>0, <1>1, <1>2, <1>5, <1>6, <1>7, <1>10, <1>13, WorksOn DEF SweepHolds, Owning

(* The evidence is recorded, or the new entry counts as failed. *)
LEMMA EvidenceHolds ==
  ASSUME SweepsInv, Grown, NEW w \in Workers, InsertItem(w)
  PROVE  SweepsInv'
<1> DEFINE me == worker[w]
<1>1. /\ SweepShape(me) /\ KnownHolds(me.known) /\ OwnsRun(me) /\ DealtWith(me)
      /\ DOMAIN worker = Workers
  BY DEF SweepsInv, SweepHolds
<1>2. me.stage = "evidence" /\ UNCHANGED <<source, site, runs, read, updates>>
  BY DEF InsertItem
<1>3. PICK s : s = First(me.todo) /\ s \in Sources
  BY <1>1, <1>2, FirstIsLeft DEF SweepShape
<1>4. PICK ok : worker' = [worker EXCEPT ![w].stage = "entry", ![w].now = Unknown,
                              ![w].outs = Append(@, Regraded(me.now.decision, ok))]
  BY DEF InsertItem
<1>5. PICK out : out = Regraded(me.now.decision, ok)
  OBVIOUS
<1>6. PICK next : next = [me EXCEPT !.stage = "entry", !.now = Unknown, !.outs = Append(@, out)]
  OBVIOUS
<1>7. worker' = [worker EXCEPT ![w] = next]
  BY <1>4, <1>5, <1>6
<1>8. /\ DOMAIN next = DOMAIN me /\ next.todo = me.todo /\ next.known = me.known
      /\ next.run = me.run /\ next.feed = me.feed /\ next.outs = Append(me.outs, out)
      /\ next.seen = me.seen /\ next.stage = "entry" /\ next.now = Unknown
  BY <1>1, <1>6 DEF SweepShape
<1>9. /\ Len(me.outs) \in Nat /\ Len(next.outs) = Len(me.outs) + 1 /\ IsList(next.outs)
      /\ DOMAIN me.outs = 1..Len(me.outs)
      /\ DOMAIN next.outs = 1..(Len(me.outs) + 1) /\ next.outs[Len(me.outs) + 1] = out
      /\ \A n \in 1..Len(me.outs) : next.outs[n] = me.outs[n]
  BY <1>1, <1>8, ListGrows DEF SweepShape
<1>10. SweepShape(next)
  BY <1>1, <1>2, <1>8, <1>9 DEF SweepShape, Owning, Unread, Unknown
<1>11. OwnsRun(next)' /\ KnownHolds(next.known)'
  BY <1>1, <1>2, <1>8 DEF OwnsRun, Owning, KnownHolds
<1>12. \A x : (Hash(s, x)' = Hash(s, x)) /\ (Page(s)' <=> Page(s))
  BY <1>3 DEF Grown, Hash
<1>13. \A x, entries : Stands(s, x, entries) => Stands(s, x, entries)'
  BY <1>3, StandsOn
<1>14. DealtWith(next)'
  <2>1. /\ LookedAt(me) = Len(me.outs) + 1 /\ LookedAt(next) = LookedAt(me)
        /\ LookedAt(me) <= Len(me.feed)
        /\ read[me.run] = Range(me.feed)
        /\ Page(s) => Len(me.feed) <= 1
        /\ SeenHolds(me)
        /\ Clean(me.outs) => \A n \in 1..Len(me.outs) : Stands(s, me.feed[n], Range(me.feed))
        /\ Clean(me.outs) /\ me.now.decision \notin {"invalid", "error"} =>
              Stands(s, me.feed[Len(me.outs) + 1], Range(me.feed))
    BY <1>1, <1>2, <1>3, <1>8, <1>9 DEF DealtWith, Reading, LookedAt
  <2>2. SeenHolds(next)'
    BY <1>3, <1>8, <1>12, <2>1 DEF SeenHolds, LookedAt, Identity
  <2>3. ASSUME Clean(next.outs), NEW n \in 1..Len(next.outs)
        PROVE  Stands(s, me.feed[n], Range(me.feed))
    <3>1. Len(me.outs) + 1 \in DOMAIN next.outs /\ DOMAIN me.outs \subseteq DOMAIN next.outs
      BY <1>9
    <3>2. Clean(me.outs) /\ out \notin {"invalid", "error"}
      BY <1>9, <2>3, <3>1 DEF Clean
    <3>3. me.now.decision \notin {"invalid", "error"}
      BY <1>5, <3>2 DEF Regraded
    <3>4. n \in 1..Len(me.outs) \/ n = Len(me.outs) + 1
      BY <1>9
    <3>5. CASE n \in 1..Len(me.outs)
      BY <2>1, <3>2, <3>5
    <3>6. CASE n = Len(me.outs) + 1
      BY <2>1, <3>2, <3>3, <3>6, Zenon
    <3> QED
      BY <3>4, <3>5, <3>6
  <2> QED
    BY <1>2, <1>3, <1>8, <1>12, <1>13, <2>1, <2>2, <2>3 DEF DealtWith
<1> QED
  BY <1>1, <1>2, <1>7, <1>8, <1>10, <1>11, <1>14, WorksOn DEF SweepHolds, Owning

(* A tally without failures is of clean outcomes. *)
LEMMA CleanTally ==
  ASSUME NEW outs, IsList(outs), SummarizeRun(outs) = "succeeded"
  PROVE  Clean(outs)
<1> DEFINE bad == {n \in DOMAIN outs : outs[n] \in {"invalid", "error"}}
<1>1. Len(outs) \in Nat /\ DOMAIN outs = 1..Len(outs)
  BY ListGrows
<1>2. IsFiniteSet(DOMAIN outs)
  BY <1>1, FS_Interval
<1>3. bad \in SUBSET DOMAIN outs
  OBVIOUS
<1>4. IsFiniteSet(bad)
  BY <1>2, <1>3, FS_Subset
<1>5. Cardinality(bad) \in Nat /\ ~(Cardinality(bad) > 0)
  BY <1>4, FS_CardinalityType DEF SummarizeRun, Tally, Count
<1>6. bad = {}
  BY <1>4, <1>5, FS_EmptySet
<1> QED
  BY <1>6 DEF Clean

(* A sweep that saw all its entries says how it went. *)
LEMMA SummaryHolds ==
  ASSUME SweepsInv, Grown, NEW w \in Workers, Summarize(w)
  PROVE  SweepsInv'
<1>0. PICK me : me = worker[w]
  OBVIOUS
<1>1. /\ SweepShape(me) /\ KnownHolds(me.known) /\ OwnsRun(me) /\ DealtWith(me)
      /\ DOMAIN worker = Workers
  BY <1>0 DEF SweepsInv, SweepHolds
<1>2. me.stage = "entry" /\ UNCHANGED <<source, site, runs, read, updates>>
      /\ Len(me.outs) + 1 > Len(me.feed)
  BY <1>0 DEF Summarize, Nth
<1>3. PICK s : s = First(me.todo) /\ s \in Sources
  BY <1>1, <1>2, FirstIsLeft DEF SweepShape
<1>4. PICK next, reason : next = [me EXCEPT !.stage = "close", !.verdict = SummarizeRun(me.outs), !.reason = reason]
                          /\ worker' = [worker EXCEPT ![w] = next]
  BY <1>0 DEF Summarize
<1>5. /\ DOMAIN next = DOMAIN me /\ next.todo = me.todo /\ next.known = me.known
      /\ next.run = me.run /\ next.feed = me.feed /\ next.outs = me.outs
      /\ next.seen = me.seen /\ next.stage = "close" /\ next.now = me.now
      /\ next.verdict = SummarizeRun(me.outs)
  BY <1>1, <1>4 DEF SweepShape
<1>6. SweepShape(next)
  BY <1>1, <1>2, <1>5 DEF SweepShape, Owning, Unread
<1>7. OwnsRun(next)' /\ KnownHolds(next.known)'
  BY <1>1, <1>2, <1>5 DEF OwnsRun, Owning, KnownHolds
<1>8. DealtWith(next)'
  <2>1. /\ Len(me.outs) \in Nat /\ Len(me.feed) \in Nat /\ DOMAIN me.feed = 1..Len(me.feed)
        /\ DOMAIN me.feed \subseteq 1..Len(me.outs)
    <3>1. /\ Len(me.outs) \in Nat /\ Len(me.feed) \in Nat /\ DOMAIN me.feed = 1..Len(me.feed)
      BY <1>1, ListGrows DEF SweepShape
    <3> QED
      BY <1>2, <3>1
  <2>2. /\ read[me.run] = Range(me.feed)
        /\ Clean(me.outs) => \A n \in 1..Len(me.outs) : Stands(s, me.feed[n], Range(me.feed))
    BY <1>1, <1>2, <1>3 DEF DealtWith, Reading
  <2>3. ASSUME next.verdict = "succeeded", NEW e \in read[me.run]
        PROVE  Stands(s, e, read[me.run])'
    <3>1. Clean(me.outs)
      BY <1>1, <1>5, <2>3, CleanTally DEF SweepShape
    <3>2. PICK n \in DOMAIN me.feed : e = me.feed[n]
      BY <2>2, <2>3 DEF Range
    <3>3. Stands(s, e, read[me.run])
      BY <2>1, <2>2, <3>1, <3>2
    <3> QED
      BY <1>2, <1>3, <3>3, StandsOn
  <2> QED
    BY <1>2, <1>3, <1>5, <2>3 DEF DealtWith, Reading
<1> QED
  BY <1>0, <1>1, <1>2, <1>4, <1>5, <1>6, <1>7, <1>8, WorksOn DEF SweepHolds, Owning

(* A run is closed by the worker whose it is. *)
LEMMA CloseHolds ==
  ASSUME SweepsInv, Grown, NEW w \in Workers, CloseRun(w)
  PROVE  SweepsInv'
<1>0. PICK me, r : me = worker[w] /\ r = me.run
  OBVIOUS
<1>1. /\ SweepShape(me) /\ KnownHolds(me.known) /\ OwnsRun(me) /\ DealtWith(me)
      /\ DOMAIN worker = Workers
  BY <1>0 DEF SweepsInv, SweepHolds
<1>2. me.stage = "close" /\ UNCHANGED <<source, site, read, updates>>
      /\ worker' = [worker EXCEPT ![w] = Onward(me)]
  BY <1>0 DEF CloseRun
<1>3. PICK s : s = First(me.todo) /\ s \in Sources
  BY <1>1, <1>2, FirstIsLeft DEF SweepShape
<1>4. r \in DOMAIN runs /\ runs[r].source = s
  BY <1>0, <1>1, <1>2, <1>3 DEF OwnsRun, Owning
<1>5. RunsHold /\ IsList(runs) /\ DOMAIN runs[r] = {"source", "status", "reason", "tally"}
  BY <1>4 DEF SweepsInv, RunsHold
<1>6. PICK row : /\ DOMAIN row = DOMAIN runs[r] /\ row.source = s
                 /\ row.status = "succeeded" => me.verdict = "succeeded"
                 /\ runs' = runs \/ runs' = [runs EXCEPT ![r] = row]
  <2>1. PICK row : row = ClosedRow(runs[r], me)
    OBVIOUS
  <2>2. runs' = runs \/ runs' = [runs EXCEPT ![r] = row]
    BY <1>0, <2>1 DEF CloseRun
  <2>3. runs[r].status = "running"
    BY <1>0, <1>1, <1>2 DEF OwnsRun, Owning
  <2> QED
    BY <1>4, <1>5, <2>1, <2>2, <2>3 DEF ClosedRow
<1>7. PICK next : next = Onward(me)
  OBVIOUS
<1>8. worker'[w] = next /\ SweepShape(next) /\ next.stage \notin Owning
      /\ next.known \in {me.known, Nothing}
  BY <1>1, <1>2, <1>7, OnwardShape
<1>9. KnownHolds(next.known)'
  BY <1>1, <1>2, <1>8 DEF KnownHolds, Nothing
<1>10. SweepHolds(worker[w])'
  BY <1>8, <1>9, AtRest
<1>11. RegistryHolds' /\ SitesHold'
  BY <1>2 DEF SweepsInv, RegistryHolds, SitesHold, Document
<1>12. RunsHold'
  <2>1. CASE runs' = runs
    BY <1>2, <1>5, <2>1 DEF RunsHold
  <2>2. CASE runs' = [runs EXCEPT ![r] = row]
    <3>1. IsList(runs') /\ Len(runs') = Len(runs) /\ DOMAIN runs' = DOMAIN runs
      BY <1>4, <1>5, <2>2, ListChanges
    <3>2. \A q \in DOMAIN runs : runs'[q] = runs[q] \/ runs'[q] = row
      BY <2>2
    <3> QED
      BY <1>2, <1>3, <1>5, <1>6, <3>1, <3>2 DEF RunsHold
  <2> QED
    BY <1>6, <2>1, <2>2
<1>13. /\ DOMAIN runs' = DOMAIN runs /\ read' = read
       /\ \A q \in DOMAIN runs : q # r => runs'[q] = runs[q]
       /\ runs'[r] = runs[r] \/ runs'[r] = row
  BY <1>2, <1>4, <1>6
<1>14. row.status = "succeeded" => \A e \in read[r] : Stands(s, e, read[r])'
  <2>1. \A e : Stands(s, e, read[r]) => Stands(s, e, read[r])'
    BY <1>2, <1>3, StandsOn
  <2> QED
    BY <1>0, <1>1, <1>2, <1>3, <1>6, <2>1 DEF DealtWith
<1>15. \A q \in DOMAIN runs' :
           \/ q \in DOMAIN runs /\ runs'[q] = runs[q] /\ read'[q] = read[q]
           \/ runs'[q].status # "succeeded"
           \/ \A e \in read'[q] : Stands(runs[q].source, e, read[q])'
  <2>1. CASE runs'[r] = row /\ row.status = "succeeded"
    <3>1. \A e \in read'[r] : Stands(runs[r].source, e, read[r])'
      BY <1>6, <1>13, <1>14, <2>1
    <3> QED
      BY <1>13, <3>1
  <2>2. CASE runs'[r] = runs[r] \/ row.status # "succeeded"
    BY <1>13, <2>2
  <2> QED
    BY <1>13, <2>1, <2>2
<1>16. me.stage \in Owning
  BY <1>2 DEF Owning
<1> QED
  BY <1>0, <1>2, <1>7, <1>8, <1>10, <1>11, <1>12, <1>13, <1>15, <1>16, OneMoves

(* A source is deactivated or comes to serve something else. *)
LEMMA RegistryStepHolds ==
  ASSUME SweepsInv, Grown, NEW s \in Sources, Publish(s) \/ DeactivateSource(s)
  PROVE  SweepsInv'
<1>1. UNCHANGED <<runs, updates, worker, read>>
  BY DEF Publish, DeactivateSource
<1>2. RegistryHolds'
  BY DEF Publish, DeactivateSource, SweepsInv, RegistryHolds
<1>3. SitesHold'
  <2>1. CASE Publish(s)
    <3>1. PICK edition \in Editions[s] : site' = [site EXCEPT ![s] = edition]
      BY <2>1 DEF Publish
    <3>2. Document(edition)
      BY <3>1, IngestionAssumption
    <3>3. Sources \subseteq DOMAIN site' /\ \A t \in Sources : Document(site'[t])
      BY <3>1, <3>2 DEF SweepsInv, SitesHold
    <3> QED
      BY <3>3 DEF SitesHold, Document
  <2>2. CASE DeactivateSource(s)
    BY <2>2 DEF DeactivateSource, SweepsInv, SitesHold, Document
  <2> QED
    BY <2>1, <2>2
<1>4. RunsHold' /\ OneOwner' /\ DOMAIN worker' = Workers
  BY <1>1 DEF SweepsInv, RunsHold, OneOwner
<1>5. \A w \in Workers : SweepHolds(worker[w])'
  <2> TAKE w \in Workers
  <2>1. SweepHolds(worker[w]) /\ worker'[w] = worker[w]
    BY <1>1 DEF SweepsInv
  <2>2. worker[w].stage \in Owning => worker[w].run \in DOMAIN runs'
    BY <1>1, <2>1 DEF SweepHolds, OwnsRun
  <2> QED
    BY <1>1, <2>1, <2>2, WorkerStays
<1>6. CleanRunMissesNothing'
  <2>1. \A t \in Sources : \A x, entries : Stands(t, x, entries) => Stands(t, x, entries)'
    BY StandsOn
  <2>2. \A r \in DOMAIN runs : runs[r].source \in Sources
    BY DEF SweepsInv, RunsHold
  <2>3. CleanRunMissesNothing
    BY DEF SweepsInv
  <2> QED
    BY <1>1, <2>1, <2>2, <2>3 DEF CleanRunMissesNothing
<1> QED
  BY <1>2, <1>3, <1>4, <1>5, <1>6 DEF SweepsInv

(* Every step keeps what sweeps rest on. *)
LEMMA SweepsStep == SweepsInv /\ [IngestionNext]_ingestVars => SweepsInv'
<1> SUFFICES ASSUME SweepsInv, [IngestionNext]_ingestVars
             PROVE  SweepsInv'
  OBVIOUS
<1>1. \A s \in Sources : Page(s)' <=> Page(s)
  BY PagesStay DEF SweepsInv
<1>2. updates \subseteq updates'
  BY DEF IngestionNext, ingestVars, Sweep, RunScheduledIngestion, HandleRunIngestion, StartSweep,
         FetchKnownIdentity, RecordUnfetchedRun, OpenRun, Open, RunConnector, Recognise,
         InsertCandidate, InsertItem, Summarize, CloseRun, Crash, Publish, DeactivateSource
<1>3. Grown
  BY <1>1, <1>2 DEF Grown
<1>4. CASE UNCHANGED ingestVars
  <2>1. UNCHANGED <<source, site, runs, updates, worker, read>>
    BY <1>4 DEF ingestVars
  <2>2. RegistryHolds' /\ SitesHold' /\ RunsHold' /\ OneOwner' /\ DOMAIN worker' = Workers
    BY <2>1 DEF SweepsInv, RegistryHolds, SitesHold, Document, RunsHold, OneOwner
  <2>3. \A w \in Workers : SweepHolds(worker[w])'
    <3> TAKE w \in Workers
    <3>1. SweepHolds(worker[w]) /\ worker'[w] = worker[w]
      BY <2>1 DEF SweepsInv
    <3>2. worker[w].stage \in Owning => worker[w].run \in DOMAIN runs'
      BY <2>1, <3>1 DEF SweepHolds, OwnsRun
    <3> QED
      BY <1>3, <2>1, <3>1, <3>2, WorkerStays
  <2>4. CleanRunMissesNothing'
    <3>1. \A t \in Sources : \A x, entries : Stands(t, x, entries) => Stands(t, x, entries)'
      BY <1>3, StandsOn
    <3>2. \A r \in DOMAIN runs : runs[r].source \in Sources
      BY DEF SweepsInv, RunsHold
    <3> QED
      BY <2>1, <3>1, <3>2 DEF SweepsInv, CleanRunMissesNothing
  <2> QED
    BY <2>2, <2>3, <2>4 DEF SweepsInv
<1>5. CASE IngestionNext
  <2>1. ASSUME NEW w \in Workers, Sweep(w)
        PROVE  SweepsInv'
    BY <1>3, <2>1, SweepBegins, RunOpens, ReadHolds, RecogniseHolds, CandidateHolds,
       EvidenceHolds, SummaryHolds, CloseHolds DEF Sweep
  <2> QED
    BY <1>3, <1>5, <2>1, RegistryStepHolds DEF IngestionNext
<1> QED
  BY <1>4, <1>5

(* It holds before any sweep. *)
LEMMA SweepsStart ==
  ASSUME NEW register, NEW offered, NEW budget,
         Sources \subseteq DOMAIN register, Sources \subseteq DOMAIN offered,
         \A s \in Sources : DOMAIN register[s] = {"active", "method", "url"} /\ Document(offered[s])
  PROVE  IngestionInit(register, offered, budget) => SweepsInv
<1> SUFFICES ASSUME IngestionInit(register, offered, budget)
             PROVE  SweepsInv
  OBVIOUS
<1>1. RegistryHolds /\ SitesHold
  BY DEF IngestionInit, RegistryHolds, SitesHold
<1>2. IsList(<<>>) /\ Len(<<>>) = 0 /\ DOMAIN <<>> = {}
  BY <<>> \in Seq({}) DEF IsList
<1>3. RunsHold /\ CleanRunMissesNothing
  BY <1>2 DEF IngestionInit, RunsHold, CleanRunMissesNothing
<1>4. \A w \in Workers : SweepHolds(worker[w]) /\ worker[w].stage \notin Owning
  <2>1. \A w \in Workers : worker[w] = Idle
    BY DEF IngestionInit
  <2> QED
    BY <2>1, IdleShape DEF SweepHolds, OwnsRun, KnownHolds, Nothing, DealtWith, Owning, Reading
<1> QED
  BY <1>1, <1>3, <1>4 DEF SweepsInv, OneOwner, IngestionInit

(* A run that says it succeeded has left no entry of its source behind,    *)
(* however many workers sweep at once, whichever calls fail or are answered *)
(* in vain and whatever the sources come to serve                          *)
(* (watchtowerIngestionService.ts:178, migration 25:326).                  *)
THEOREM CleanRunsMissNothing ==
  ASSUME NEW register, NEW offered, NEW budget,
         Sources \subseteq DOMAIN register, Sources \subseteq DOMAIN offered,
         \A s \in Sources : DOMAIN register[s] = {"active", "method", "url"} /\ Document(offered[s])
  PROVE  IngestionInit(register, offered, budget) /\ [][IngestionNext]_ingestVars
           => []CleanRunMissesNothing
<1>1. IngestionInit(register, offered, budget) => SweepsInv
  BY SweepsStart
<1>2. SweepsInv => CleanRunMissesNothing
  BY DEF SweepsInv
<1> QED
  BY <1>1, <1>2, SweepsStep, PTL

(* What the counters of a run account for.                                 *)
UpdatesHold ==
  /\ IsFiniteSet(updates) /\ \A u \in updates : u.run \in DOMAIN runs
  /\ \A u, v \in updates : u.run = v.run /\ u.nth = v.nth => u = v

Linked(r) == {u \in Candidates(r) : \E i \in items : i.run = r /\ i.nth = u.nth /\ i.linked}

(* Every candidate comes from an entry that counts as new or failed, and   *)
(* every entry that counts as new has its candidate, linked by an item.    *)
Accounted(r, outs) ==
  /\ \A u \in Candidates(r) : u.nth \in DOMAIN outs /\ outs[u.nth] \in {"new", "error"}
  /\ \A n \in DOMAIN outs : outs[n] = "new" => \E u \in Linked(r) : u.nth = n

(* The entry a worker is at may be ahead of the counters by one. *)
AccountsOf(me) ==
  /\ me.stage \in Owning \ {"evidence"} => Accounted(me.run, me.outs)
  /\ me.stage = "candidate" => me.now.decision = "new"
  /\ me.stage = "evidence" =>
       /\ \A u \in Candidates(me.run) :
             \/ u.nth \in DOMAIN me.outs /\ me.outs[u.nth] \in {"new", "error"}
             \/ u.nth = Len(me.outs) + 1 /\ me.now.decision \in {"new", "error"}
       /\ \A n \in DOMAIN me.outs : me.outs[n] = "new" => \E u \in Linked(me.run) : u.nth = n
       /\ me.now.decision = "new" => me.now.linked = TRUE
                                     /\ \E u \in Candidates(me.run) : u.nth = Len(me.outs) + 1

AccountsInv ==
  /\ UpdatesHold /\ \A w \in Workers : AccountsOf(worker[w])
  /\ ClosedRunAccountsForItsCandidates
  /\ \A r \in DOMAIN runs : Closed(r) => runs[r].tally.new \in Nat

(* Counting the outcomes counts the candidates. *)
LEMMA AccountedTally ==
  ASSUME NEW r, NEW outs, IsList(outs), Accounted(r, outs), UpdatesHold
  PROVE  /\ Cardinality(Candidates(r)) <= Tally(outs).new + Tally(outs).failed
         /\ Tally(outs).new <= Cardinality(Linked(r)) /\ Tally(outs).new \in Nat
<1> DEFINE new == {n \in DOMAIN outs : outs[n] \in {"new"}}
           bad == {n \in DOMAIN outs : outs[n] \in {"invalid", "error"}}
<1>1. Tally(outs).new = Cardinality(new) /\ Tally(outs).failed = Cardinality(bad)
  BY DEF Tally, Count
<1>2. IsFiniteSet(new) /\ IsFiniteSet(bad)
  <2>1. Len(outs) \in Nat /\ DOMAIN outs = 1..Len(outs)
    BY ListGrows
  <2>2. IsFiniteSet(DOMAIN outs)
    BY <2>1, FS_Interval
  <2>3. new \in SUBSET DOMAIN outs /\ bad \in SUBSET DOMAIN outs
    OBVIOUS
  <2> HIDE DEF new, bad
  <2> QED
    BY <2>2, <2>3, FS_Subset
<1>3. IsFiniteSet(new \cup bad) /\ Cardinality(new \cup bad) = Cardinality(new) + Cardinality(bad)
  <2>1. new \cap bad = {}
    OBVIOUS
  <2> HIDE DEF new, bad
  <2>2. Cardinality(new) \in Nat /\ Cardinality(bad) \in Nat
    BY <1>2, FS_CardinalityType
  <2>3. /\ IsFiniteSet(new \cup bad)
        /\ Cardinality(new \cup bad) = Cardinality(new) + Cardinality(bad) - Cardinality(new \cap bad)
    BY <1>2, FS_Union
  <2> QED
    BY <2>1, <2>2, <2>3, FS_EmptySet
<1>4. Cardinality(Candidates(r)) <= Cardinality(new \cup bad)
  <2> DEFINE place == [u \in Candidates(r) |-> u.nth]
  <2>1. \A u \in Candidates(r) : place[u] \in new \cup bad
    BY DEF Accounted
  <2>2. \A u, v \in Candidates(r) : place[u] = place[v] => u = v
    BY DEF UpdatesHold, Candidates
  <2>3. place \in Injection(Candidates(r), new \cup bad)
    <3> HIDE DEF new, bad
    <3>1. place \in [Candidates(r) -> new \cup bad]
      BY <2>1
    <3> QED
      BY <2>2, <3>1 DEF Injection, IsInjective
  <2> HIDE DEF place, new, bad
  <2> QED
    BY <1>3, <2>3, FS_Injection
<1>5. Cardinality(new) <= Cardinality(Linked(r))
  <2> DEFINE of == [n \in new |-> CHOOSE u \in Linked(r) : u.nth = n]
  <2>1. \A n \in new : of[n] \in Linked(r) /\ of[n].nth = n
    BY DEF Accounted
  <2>2. \A m, n \in new : of[m] = of[n] => m = n
    BY <2>1
  <2>3. of \in Injection(new, Linked(r))
    <3>1. of \in [new -> Linked(r)]
      BY <2>1
    <3> QED
      BY <2>2, <3>1 DEF Injection, IsInjective
  <2>4. IsFiniteSet(Linked(r))
    <3>1. Linked(r) \in SUBSET updates
      BY DEF Linked, Candidates
    <3> QED
      BY <3>1, FS_Subset DEF UpdatesHold
  <2> HIDE DEF of, new
  <2> QED
    BY <2>3, <2>4, FS_Injection
<1> HIDE DEF new, bad
<1>6. Cardinality(new) \in Nat
  BY <1>2, FS_CardinalityType
<1> QED
  BY <1>1, <1>3, <1>4, <1>5, <1>6

(* A run whose candidates stay and whose items only grow stays accounted. *)
LEMMA AccountsStay ==
  ASSUME NEW r, Candidates(r)' = Candidates(r), items \subseteq items', IsFiniteSet(updates)
  PROVE  /\ Linked(r) \subseteq Linked(r)'
         /\ \A outs : Accounted(r, outs) => Accounted(r, outs)'
         /\ \A n : n \in Nat /\ n <= Cardinality(Linked(r)) => n <= Cardinality(Linked(r)')
<1>1. Linked(r) \subseteq Linked(r)'
  BY DEF Linked
<1>2. \A outs : Accounted(r, outs) => Accounted(r, outs)'
  BY <1>1 DEF Accounted
<1>3. IsFiniteSet(Candidates(r)) /\ Linked(r)' \in SUBSET Candidates(r)
  <2>1. Candidates(r) \in SUBSET updates
    BY DEF Candidates
  <2>2. Linked(r)' \in SUBSET Candidates(r)
    BY DEF Linked
  <2> QED
    BY <2>1, <2>2, FS_Subset
<1>4. Linked(r) \in SUBSET Linked(r)' /\ IsFiniteSet(Linked(r)')
  BY <1>1, <1>3, FS_Subset
<1>5. IsFiniteSet(Linked(r)) /\ Cardinality(Linked(r)) <= Cardinality(Linked(r)')
  BY <1>4, FS_Subset
<1>6. Cardinality(Linked(r)) \in Nat /\ Cardinality(Linked(r)') \in Nat
  BY <1>4, <1>5, FS_CardinalityType
<1> QED
  BY <1>1, <1>2, <1>5, <1>6

(* A step of one worker, which touches the counters of no run but its own. *)
LEMMA OneMovesAccounts ==
  ASSUME SweepsInv, AccountsInv, UpdatesHold', items \subseteq items',
         NEW w \in Workers, NEW next, worker' = [worker EXCEPT ![w] = next], AccountsOf(worker[w])',
         \A r : \/ Candidates(r)' = Candidates(r)
                \/ worker[w].stage \in Owning /\ r = worker[w].run,
         \A r \in DOMAIN runs' :
           \/ r \in DOMAIN runs /\ runs'[r] = runs[r]
           \/ runs'[r].status \notin {"succeeded", "partial"}
           \/ /\ runs'[r].tally = Tally(worker[w].outs) /\ r = worker[w].run
              /\ worker[w].stage = "close" /\ Candidates(r)' = Candidates(r)
  PROVE  AccountsInv'
<1>1. DOMAIN worker = Workers /\ OneOwner /\ \A v \in Workers : SweepHolds(worker[v])
  BY DEF SweepsInv
<1>2. IsFiniteSet(updates) /\ UpdatesHold
  BY DEF AccountsInv, UpdatesHold
<1>3. ASSUME NEW v \in Workers, v # w
      PROVE  AccountsOf(worker[v])'
  <2>1. PICK me, r : me = worker[v] /\ r = me.run
    OBVIOUS
  <2>2. worker'[v] = me
    BY <1>1, <1>3, <2>1
  <2>3. AccountsOf(me)
    BY <2>1 DEF AccountsInv
  <2>4. CASE me.stage \in Owning
    <3>1. Candidates(r)' = Candidates(r)
      BY <1>1, <1>3, <2>1, <2>4 DEF OneOwner
    <3>2. /\ Linked(r) \subseteq Linked(r)'
          /\ \A outs : Accounted(r, outs) => Accounted(r, outs)'
      BY <1>2, <3>1, AccountsStay
    <3>3. AccountsOf(me)'
      BY <2>1, <2>3, <3>1, <3>2 DEF AccountsOf
    <3> QED
      BY <2>2, <3>3
  <2>5. CASE me.stage \notin Owning
    <3>1. AccountsOf(me)'
      BY <2>5 DEF AccountsOf, Owning
    <3> QED
      BY <2>2, <3>1
  <2> QED
    BY <2>4, <2>5
<1>4. ASSUME NEW r \in DOMAIN runs', Closed(r)'
      PROVE  /\ Cardinality(Candidates(r)') <= runs'[r].tally.new + runs'[r].tally.failed
             /\ runs'[r].tally.new <= Cardinality(Linked(r)') /\ runs'[r].tally.new \in Nat
  <2>1. runs'[r].status \in {"succeeded", "partial"}
    BY <1>4 DEF Closed
  <2>2. CASE r \in DOMAIN runs /\ runs'[r] = runs[r]
    <3>1. Closed(r)
      BY <2>1, <2>2 DEF Closed
    <3>2. /\ Cardinality(Candidates(r)) <= runs[r].tally.new + runs[r].tally.failed
          /\ runs[r].tally.new <= Cardinality(Linked(r)) /\ runs[r].tally.new \in Nat
      BY <2>2, <3>1 DEF AccountsInv, ClosedRunAccountsForItsCandidates, Linked
    <3>3. Candidates(r)' = Candidates(r)
      <4>1. worker[w].stage \in Owning => runs[worker[w].run].status = "running"
        BY <1>1 DEF SweepHolds, OwnsRun
      <4> QED
        BY <2>1, <2>2, <4>1
    <3> QED
      BY <1>2, <2>2, <3>2, <3>3, AccountsStay
  <2>3. CASE /\ runs'[r].tally = Tally(worker[w].outs) /\ r = worker[w].run
             /\ worker[w].stage = "close" /\ Candidates(r)' = Candidates(r)
    <3>1. Accounted(r, worker[w].outs) /\ IsList(worker[w].outs)
      <4>1. AccountsOf(worker[w]) /\ SweepShape(worker[w])
        BY <1>1 DEF AccountsInv, SweepHolds
      <4> QED
        BY <2>3, <4>1 DEF AccountsOf, Owning, SweepShape
    <3> DEFINE tally == Tally(worker[w].outs)
    <3>2. /\ Cardinality(Candidates(r)) <= tally.new + tally.failed
          /\ tally.new <= Cardinality(Linked(r)) /\ tally.new \in Nat
      BY <1>2, <3>1, AccountedTally
    <3> HIDE DEF tally
    <3>3. runs'[r].tally = tally
      BY <2>3 DEF tally
    <3> QED
      BY <1>2, <2>3, <3>2, <3>3, AccountsStay
  <2> QED
    BY <2>1, <2>2, <2>3
<1>5. ClosedRunAccountsForItsCandidates'
  BY <1>4 DEF ClosedRunAccountsForItsCandidates, Linked
<1>6. \A v \in Workers : AccountsOf(worker[v])'
  BY <1>3
<1> QED
  BY <1>4, <1>5, <1>6 DEF AccountsInv

(* Steps that create no update and leave the counters of a worker alone.   *)
LEMMA AccountsRest ==
  ASSUME SweepsInv, AccountsInv, NEW w \in Workers,
         \/ RunScheduledIngestion(w) \/ HandleRunIngestion(w) \/ FetchKnownIdentity(w) \/ Crash(w)
  PROVE  AccountsInv'
<1>1. PICK next : worker' = [worker EXCEPT ![w] = next] /\ next.stage \notin Owning
                  /\ UNCHANGED <<runs, items, updates>>
  <2>1. CASE RunScheduledIngestion(w) \/ HandleRunIngestion(w)
    <3>1. PICK listed : StartSweep(w, listed)
      BY <2>1 DEF RunScheduledIngestion, HandleRunIngestion
    <3>2. [Idle EXCEPT !.stage = "known", !.todo = listed].stage = "known"
      BY DEF Idle
    <3> QED
      BY <3>1, <3>2 DEF StartSweep, Owning
  <2>2. CASE FetchKnownIdentity(w)
    <3>1. "stage" \in DOMAIN worker[w]
      BY DEF SweepsInv, SweepHolds, SweepShape
    <3>2. [worker[w] EXCEPT !.stage = "open", !.known = KnownIdentity].stage = "open"
      BY <3>1
    <3>3. Idle.stage = "idle"
      BY DEF Idle
    <3> QED
      BY <2>2, <3>2, <3>3 DEF FetchKnownIdentity, Owning
  <2>3. CASE Crash(w)
    BY <2>3 DEF Crash, Idle, Owning
  <2> QED
    BY <2>1, <2>2, <2>3
<1>2. worker'[w] = next
  BY <1>1 DEF SweepsInv
<1>3. AccountsOf(worker[w])'
  BY <1>1, <1>2 DEF AccountsOf, Owning
<1>4. UpdatesHold' /\ \A r : Candidates(r)' = Candidates(r)
  BY <1>1 DEF AccountsInv, UpdatesHold, Candidates
<1>5. items \subseteq items' /\ \A r \in DOMAIN runs' : r \in DOMAIN runs /\ runs'[r] = runs[r]
  BY <1>1
<1> QED
  BY <1>1, <1>3, <1>4, <1>5, OneMovesAccounts

(* A run is opened with nothing to account for. *)
LEMMA AccountsOpen ==
  ASSUME SweepsInv, AccountsInv, NEW w \in Workers, OpenRun(w) \/ RecordUnfetchedRun(w)
  PROVE  AccountsInv'
<1>0. PICK me : me = worker[w]
  OBVIOUS
<1>1. SweepShape(me) /\ DOMAIN worker = Workers
  BY <1>0 DEF SweepsInv, SweepHolds
<1>2. me.stage = "open" /\ me.outs = <<>> /\ UNCHANGED <<items, updates>>
  BY <1>0, <1>1 DEF OpenRun, RecordUnfetchedRun, Open, SweepShape, Unread
<1>3. PICK row, opened, next :
        /\ worker' = [worker EXCEPT ![w] = next]
        /\ row.status = "running"
        /\ runs' = runs \/ runs' = Append(runs, row)
        /\ opened.stage \in {"fetch", "close"} /\ opened.outs = <<>>
        /\ DOMAIN opened = DOMAIN me
        /\ \/ next = Onward(me)
           \/ next = [opened EXCEPT !.run = Len(runs')] /\ runs' = Append(runs, row)
  <2> DEFINE fetch == [me EXCEPT !.stage = "fetch"]
             skip == [me EXCEPT !.stage = "close", !.verdict = "skipped", !.reason = "source_disabled"]
  <2>1. RunRow(Now(w)).status = "running"
    BY DEF RunRow
  <2>2. /\ fetch.stage = "fetch" /\ fetch.outs = <<>> /\ DOMAIN fetch = DOMAIN me
        /\ skip.stage = "close" /\ skip.outs = <<>> /\ DOMAIN skip = DOMAIN me
    BY <1>1, <1>2 DEF SweepShape
  <2>3. PICK opened \in {fetch, skip} : Open(w, opened)
    BY <1>0 DEF OpenRun, RecordUnfetchedRun
  <2> HIDE DEF fetch, skip
  <2>4. PICK row : row = RunRow(Now(w))
    OBVIOUS
  <2>5. PICK next : /\ worker' = [worker EXCEPT ![w] = next]
                    /\ runs' = runs \/ runs' = Append(runs, row)
                    /\ \/ next = Onward(me)
                       \/ next = [opened EXCEPT !.run = Len(runs')] /\ runs' = Append(runs, row)
    BY <1>0, <2>3, <2>4 DEF Open, Applied, Fates
  <2> QED
    BY <2>1, <2>2, <2>3, <2>4, <2>5
<1>4. worker'[w] = next
  BY <1>1, <1>3
<1>5. IsList(runs)
  BY DEF SweepsInv, RunsHold
<1>6. /\ DOMAIN runs \subseteq DOMAIN runs'
      /\ \A r \in DOMAIN runs' : \/ r \in DOMAIN runs /\ runs'[r] = runs[r]
                               \/ runs'[r].status \notin {"succeeded", "partial"}
  <2>1. CASE runs' = runs
    BY <2>1
  <2>2. CASE runs' = Append(runs, row)
    <3>1. /\ Len(runs) \in Nat /\ DOMAIN runs = 1..Len(runs) /\ DOMAIN runs' = 1..(Len(runs) + 1)
          /\ \A n \in 1..Len(runs) : runs'[n] = runs[n]
          /\ runs'[Len(runs) + 1] = row
      BY <1>5, <2>2, ListGrows
    <3>2. DOMAIN runs \subseteq DOMAIN runs' /\ \A r \in DOMAIN runs' : r \in DOMAIN runs \/ r = Len(runs) + 1
      BY <3>1
    <3>3. ASSUME NEW r, r = Len(runs) + 1
          PROVE  runs'[r] = row
      BY <3>1, <3>3, Zenon
    <3> QED
      BY <1>3, <3>1, <3>2, <3>3
  <2> QED
    BY <1>3, <2>1, <2>2
<1>7. UpdatesHold /\ UpdatesHold' /\ \A r : Candidates(r)' = Candidates(r)
  BY <1>2, <1>6 DEF AccountsInv, UpdatesHold, Candidates
<1>8. AccountsOf(next)'
  <2>1. CASE next = Onward(me)
    <3>1. next.stage \notin Owning
      BY <1>1, <2>1, OnwardShape
    <3> QED
      BY <3>1 DEF AccountsOf, Owning
  <2>2. CASE next = [opened EXCEPT !.run = Len(runs')] /\ runs' = Append(runs, row)
    <3>1. next.stage \in {"fetch", "close"} /\ next.outs = <<>> /\ next.run = Len(runs')
      BY <1>1, <1>3, <2>2 DEF SweepShape
    <3>2. next.run \notin DOMAIN runs
      BY <1>5, <2>2, <3>1, ListGrows
    <3>3. Candidates(next.run)' = {}
      BY <1>7, <3>2 DEF UpdatesHold, Candidates
    <3>4. Accounted(next.run, next.outs)'
      BY <3>1, <3>3 DEF Accounted
    <3> QED
      BY <3>1, <3>4 DEF AccountsOf
  <2> QED
    BY <1>3, <2>1, <2>2
<1>9. AccountsOf(worker[w])'
  BY <1>4, <1>8
<1>10. items \subseteq items'
  BY <1>2
<1> QED
  BY <1>3, <1>6, <1>7, <1>9, <1>10, OneMovesAccounts

(* Reading, recognising and summarising leave updates and counters alone.  *)
LEMMA AccountsRead ==
  ASSUME SweepsInv, AccountsInv, NEW w \in Workers, RunConnector(w) \/ Recognise(w) \/ Summarize(w)
  PROVE  AccountsInv'
<1>0. PICK me : me = worker[w]
  OBVIOUS
<1>1. SweepShape(me) /\ DOMAIN worker = Workers /\ AccountsOf(me)
  BY <1>0 DEF SweepsInv, SweepHolds, AccountsInv
<1>2. UNCHANGED <<runs, items, updates>> /\ me.stage \in {"fetch", "entry"}
  BY <1>0 DEF RunConnector, Recognise, Summarize
<1>3. PICK next : /\ worker' = [worker EXCEPT ![w] = next] /\ next.run = me.run /\ next.outs = me.outs
                  /\ \/ next.stage \in {"entry", "close"}
                     \/ next.stage = "candidate" /\ next.now.decision = "new"
                     \/ next.stage = "evidence" /\ next.now.decision \notin {"new"}
  <2>1. CASE RunConnector(w)
    <3> DEFINE got(entries) == [me EXCEPT !.feed = entries, !.stage = "entry"]
               bad(failure) == [me EXCEPT !.stage = "close", !.verdict = "failed", !.reason = failure]
    <3>1. \/ \E entries : worker' = [worker EXCEPT ![w].feed = entries, ![w].stage = "entry"]
          \/ \E failure : worker' = [worker EXCEPT ![w].stage = "close", ![w].verdict = "failed",
                                                   ![w].reason = failure]
      BY <2>1 DEF RunConnector
    <3>2. \/ \E entries : worker' = [worker EXCEPT ![w] = got(entries)]
          \/ \E failure : worker' = [worker EXCEPT ![w] = bad(failure)]
      BY <1>0, <3>1
    <3>3. \A entries : got(entries).run = me.run /\ got(entries).outs = me.outs /\ got(entries).stage = "entry"
      BY <1>1 DEF SweepShape
    <3>4. \A failure : bad(failure).run = me.run /\ bad(failure).outs = me.outs /\ bad(failure).stage = "close"
      BY <1>1 DEF SweepShape
    <3> HIDE DEF got, bad
    <3> QED
      BY <3>2, <3>3, <3>4
  <2>2. CASE Recognise(w)
    <3>1. PICK d, seen : worker' = [worker EXCEPT ![w].now.decision = d,
                               ![w].stage = IF d = "new" THEN "candidate" ELSE "evidence",
                               ![w].seen = seen]
      BY <2>2 DEF Recognise
    <3> DEFINE next == [me EXCEPT !.now.decision = d, !.seen = seen,
                                  !.stage = IF d = "new" THEN "candidate" ELSE "evidence"]
    <3>2. worker' = [worker EXCEPT ![w] = next]
      BY <1>0, <1>1, <3>1 DEF SweepShape
    <3>3. /\ next.run = me.run /\ next.outs = me.outs /\ next.now.decision = d
          /\ next.stage = IF d = "new" THEN "candidate" ELSE "evidence"
      BY <1>1 DEF SweepShape
    <3> HIDE DEF next
    <3> QED
      BY <3>2, <3>3
  <2>3. CASE Summarize(w)
    <3>1. PICK verdict, reason : worker' = [worker EXCEPT ![w].stage = "close", ![w].verdict = verdict,
                                                        ![w].reason = reason]
      BY <2>3 DEF Summarize
    <3> DEFINE next == [me EXCEPT !.stage = "close", !.verdict = verdict, !.reason = reason]
    <3>2. worker' = [worker EXCEPT ![w] = next]
      BY <1>0, <3>1
    <3>3. next.run = me.run /\ next.outs = me.outs /\ next.stage = "close"
      BY <1>1 DEF SweepShape
    <3> HIDE DEF next
    <3> QED
      BY <3>2, <3>3
  <2> QED
    BY <2>1, <2>2, <2>3 DEF RunConnector, Recognise, Summarize
<1>4. UpdatesHold' /\ \A r : Candidates(r)' = Candidates(r)
  BY <1>2 DEF AccountsInv, UpdatesHold, Candidates
<1>5. Accounted(me.run, me.outs)
  BY <1>1, <1>2 DEF AccountsOf, Owning
<1>6. AccountsOf(next)'
  <2>1. Accounted(next.run, next.outs)'
    BY <1>2, <1>3, <1>5 DEF Accounted, Candidates, Linked
  <2>2. /\ \A u \in Candidates(next.run)' : u.nth \in DOMAIN next.outs /\ next.outs[u.nth] \in {"new", "error"}
        /\ \A n \in DOMAIN next.outs : next.outs[n] = "new" => \E u \in Linked(next.run)' : u.nth = n
    BY <2>1 DEF Accounted
  <2> QED
    BY <1>3, <2>1, <2>2 DEF AccountsOf
<1>7. worker'[w] = next /\ items \subseteq items'
  BY <1>1, <1>2, <1>3
<1>8. AccountsOf(worker[w])'
  BY <1>6, <1>7
<1>9. \A r \in DOMAIN runs' : r \in DOMAIN runs /\ runs'[r] = runs[r]
  BY <1>2
<1> QED
  BY <1>3, <1>4, <1>7, <1>8, <1>9, OneMovesAccounts

(* A candidate is written before its entry is counted. *)
LEMMA AccountsCandidate ==
  ASSUME SweepsInv, AccountsInv, NEW w \in Workers, InsertCandidate(w)
  PROVE  AccountsInv'
<1>0. PICK me : me = worker[w]
  OBVIOUS
<1>1. SweepShape(me) /\ OwnsRun(me) /\ DOMAIN worker = Workers /\ AccountsOf(me)
  BY <1>0 DEF SweepsInv, SweepHolds, AccountsInv
<1>2. me.stage = "candidate" /\ UNCHANGED <<runs, items>>
  BY <1>0 DEF InsertCandidate
<1>3. Accounted(me.run, me.outs) /\ me.now.decision = "new" /\ me.run \in DOMAIN runs
  BY <1>1, <1>2 DEF AccountsOf, OwnsRun, Owning
<1>4. PICK next, d, linked, c :
        /\ worker' = [worker EXCEPT ![w] = next]
        /\ next.run = me.run /\ next.outs = me.outs /\ next.stage = "evidence"
        /\ next.now = [decision |-> d, linked |-> linked]
        /\ c.run = me.run /\ c.nth = Len(me.outs) + 1
        /\ \/ /\ updates' = updates \cup {c}
              /\ d = "error" \/ (d = "new" /\ linked = TRUE)
           \/ updates' = updates /\ d # "new"
  <2> DEFINE new == [worker[w] EXCEPT !.stage = "evidence", !.now.linked = TRUE,
                                      !.known = With(worker[w].known, Now(w), Entry(w))]
             old(out) == [worker[w] EXCEPT !.stage = "evidence", !.now.decision = out]
  <2>1. PICK f \in Fates :
           /\ updates' = IF Applied(f) /\ ~Taken(Now(w), Entry(w)) THEN updates \cup {Candidate(w)} ELSE updates
           /\ worker' = [worker EXCEPT ![w] =
                  IF f = "done" /\ ~Taken(Now(w), Entry(w)) THEN new
                  ELSE old(IF f = "done" THEN "duplicate_content_hash" ELSE "error")]
    BY DEF InsertCandidate
  <2>2. /\ new.run = me.run /\ new.outs = me.outs /\ new.stage = "evidence"
        /\ new.now = [decision |-> "new", linked |-> TRUE]
    BY <1>0, <1>1, <1>3 DEF SweepShape
  <2>3. ASSUME NEW out
        PROVE  /\ old(out).run = me.run /\ old(out).outs = me.outs /\ old(out).stage = "evidence"
               /\ old(out).now = [decision |-> out, linked |-> me.now.linked]
    BY <1>0, <1>1 DEF SweepShape
  <2>4. PICK c : c = Candidate(w) /\ c.run = me.run /\ c.nth = Len(me.outs) + 1
    <3>1. Candidate(w).run = me.run /\ Candidate(w).nth = Len(me.outs) + 1
      BY <1>0 DEF Candidate, Nth
    <3> QED
      BY <3>1, Zenon
  <2> HIDE DEF new, old
  <2>5. CASE f = "done" /\ ~Taken(Now(w), Entry(w))
    <3>1. worker' = [worker EXCEPT ![w] = new] /\ updates' = updates \cup {Candidate(w)}
      BY <2>1, <2>5 DEF Applied
    <3> QED
      BY <2>2, <2>4, <3>1
  <2>6. CASE ~(f = "done" /\ ~Taken(Now(w), Entry(w)))
    <3>1. PICK out : out = (IF f = "done" THEN "duplicate_content_hash" ELSE "error")
      OBVIOUS
    <3>2. worker' = [worker EXCEPT ![w] = old(out)]
      BY <2>1, <2>6, <3>1
    <3>3. out # "new" /\ (updates' = updates \/ (updates' = updates \cup {c} /\ out = "error"))
      BY <2>1, <2>4, <2>6, <3>1
    <3>4. PICK next : next = old(out)
      OBVIOUS
    <3>5. PICK linked : linked = me.now.linked
      OBVIOUS
    <3>6. /\ worker' = [worker EXCEPT ![w] = next]
          /\ next.run = me.run /\ next.outs = me.outs /\ next.stage = "evidence"
          /\ next.now = [decision |-> out, linked |-> linked]
      BY <2>3, <3>2, <3>4, <3>5
    <3> QED
      BY <2>4, <3>3, <3>6
  <2> QED
    BY <2>5, <2>6
<1>5. Len(me.outs) \in Nat /\ DOMAIN me.outs = 1..Len(me.outs)
  BY <1>1, ListGrows DEF SweepShape
<1>6. UpdatesHold /\ \A u \in updates : u.run = me.run => u.nth # Len(me.outs) + 1
  BY <1>3, <1>5 DEF AccountsInv, Accounted, Candidates
<1>7. UpdatesHold'
  <2>1. CASE updates' = updates
    BY <1>2, <1>6, <2>1 DEF UpdatesHold
  <2>2. CASE updates' = updates \cup {c}
    <3>1. IsFiniteSet(updates')
      BY <1>6, <2>2, FS_AddElement DEF UpdatesHold
    <3> QED
      BY <1>2, <1>3, <1>4, <1>6, <2>2, <3>1 DEF UpdatesHold
  <2> QED
    BY <1>4, <2>1, <2>2
<1>8. \A r : r # me.run => Candidates(r)' = Candidates(r)
  BY <1>4 DEF Candidates
<1>9. /\ Candidates(me.run) \subseteq Candidates(me.run)'
      /\ \A u \in Candidates(me.run)' : u \in Candidates(me.run) \/ (u = c /\ d \in {"new", "error"})
      /\ d = "new" => linked = TRUE /\ c \in Candidates(me.run)'
  BY <1>4 DEF Candidates
<1>10. Linked(me.run) \subseteq Linked(me.run)'
  BY <1>2, <1>9 DEF Linked
<1>11. AccountsOf(next)'
  <2>1. \A u \in Candidates(next.run)' :
           \/ u.nth \in DOMAIN next.outs /\ next.outs[u.nth] \in {"new", "error"}
           \/ u.nth = Len(next.outs) + 1 /\ next.now.decision \in {"new", "error"}
    BY <1>3, <1>4, <1>9 DEF Accounted
  <2>2. \A n \in DOMAIN next.outs : next.outs[n] = "new" => \E u \in Linked(next.run)' : u.nth = n
    BY <1>3, <1>4, <1>10 DEF Accounted
  <2>3. next.now.decision = "new" => /\ next.now.linked = TRUE
                                    /\ \E u \in Candidates(next.run)' : u.nth = Len(next.outs) + 1
    BY <1>4, <1>9
  <2> QED
    BY <1>4, <2>1, <2>2, <2>3 DEF AccountsOf
<1>12. worker'[w] = next /\ items \subseteq items' /\ me.stage \in Owning
  BY <1>1, <1>2, <1>4 DEF Owning
<1>13. AccountsOf(worker[w])'
  BY <1>11, <1>12
<1>14. \A r \in DOMAIN runs' : r \in DOMAIN runs /\ runs'[r] = runs[r]
  BY <1>2
<1>15. \A r : Candidates(r)' = Candidates(r) \/ (worker[w].stage \in Owning /\ r = worker[w].run)
  BY <1>0, <1>8, <1>12
<1> QED
  BY <1>4, <1>7, <1>12, <1>13, <1>14, <1>15, OneMovesAccounts

(* The entry is counted with its evidence. *)
LEMMA AccountsEvidence ==
  ASSUME SweepsInv, AccountsInv, NEW w \in Workers, InsertItem(w)
  PROVE  AccountsInv'
<1>0. PICK me : me = worker[w]
  OBVIOUS
<1>1. SweepShape(me) /\ DOMAIN worker = Workers /\ AccountsOf(me)
  BY <1>0 DEF SweepsInv, SweepHolds, AccountsInv
<1>2. me.stage = "evidence" /\ UNCHANGED <<runs, updates>>
  BY <1>0 DEF InsertItem
<1>3. PICK ok, row, out : /\ out = Regraded(me.now.decision, ok)
                          /\ row.run = me.run /\ row.nth = Len(me.outs) + 1 /\ row.linked = me.now.linked
                          /\ items \subseteq items' /\ (ok = TRUE => row \in items')
                          /\ ok \in BOOLEAN
                          /\ worker' = [worker EXCEPT ![w].stage = "entry", ![w].now = Unknown,
                                                      ![w].outs = Append(@, out)]
  <2>1. PICK f \in Fates :
           /\ items' = IF Applied(f) /\ Recordable(w) THEN items \cup {ItemRow(w)} ELSE items
           /\ worker' = [worker EXCEPT ![w].stage = "entry", ![w].now = Unknown,
                   ![w].outs = Append(@, Regraded(worker[w].now.decision, f = "done" /\ Recordable(w)))]
    BY DEF InsertItem
  <2>2. PICK ok : ok = (f = "done" /\ Recordable(w)) /\ ok \in BOOLEAN
    OBVIOUS
  <2>3. items \subseteq items' /\ (ok = TRUE => ItemRow(w) \in items')
    BY <2>1, <2>2 DEF Applied
  <2>4. /\ ItemRow(w).run = me.run /\ ItemRow(w).nth = Len(me.outs) + 1
        /\ ItemRow(w).linked = me.now.linked
    BY <1>0 DEF ItemRow, Nth
  <2> QED
    BY <1>0, <2>1, <2>2, <2>3, <2>4
<1>4. PICK next : next = [me EXCEPT !.stage = "entry", !.now = Unknown, !.outs = Append(@, out)]
                  /\ worker' = [worker EXCEPT ![w] = next]
  BY <1>0, <1>3
<1>5. next.run = me.run /\ next.stage = "entry" /\ next.outs = Append(me.outs, out)
  BY <1>1, <1>4 DEF SweepShape
<1>6. /\ Len(me.outs) \in Nat /\ DOMAIN me.outs = 1..Len(me.outs)
      /\ DOMAIN next.outs = 1..(Len(me.outs) + 1) /\ next.outs[Len(me.outs) + 1] = out
      /\ \A n \in 1..Len(me.outs) : next.outs[n] = me.outs[n]
  BY <1>1, <1>5, ListGrows DEF SweepShape
<1>7. UpdatesHold' /\ \A r : Candidates(r)' = Candidates(r)
  BY <1>2 DEF AccountsInv, UpdatesHold, Candidates
<1>8. Linked(me.run) \subseteq Linked(me.run)'
  BY <1>3, <1>7 DEF Linked
<1>9. Accounted(next.run, next.outs)'
  <2>1. ASSUME NEW u \in Candidates(me.run)
        PROVE  u.nth \in DOMAIN next.outs /\ next.outs[u.nth] \in {"new", "error"}
    <3>1. CASE u.nth \in DOMAIN me.outs /\ me.outs[u.nth] \in {"new", "error"}
      BY <1>6, <3>1
    <3>2. CASE u.nth = Len(me.outs) + 1 /\ me.now.decision \in {"new", "error"}
      <4>1. out \in {"new", "error"}
        BY <1>3, <3>2 DEF Regraded
      <4>2. Len(me.outs) + 1 \in DOMAIN next.outs
        BY <1>6
      <4> QED
        BY <1>6, <3>2, <4>1, <4>2, Zenon
    <3> QED
      BY <1>1, <1>2, <3>1, <3>2 DEF AccountsOf
  <2>2. ASSUME NEW n \in DOMAIN next.outs, next.outs[n] = "new"
        PROVE  \E u \in Linked(me.run)' : u.nth = n
    <3>1. n \in DOMAIN me.outs \/ n = Len(me.outs) + 1
      BY <1>6
    <3>2. CASE n \in DOMAIN me.outs
      BY <1>1, <1>2, <1>6, <1>8, <2>2, <3>2 DEF AccountsOf
    <3>3. CASE n = Len(me.outs) + 1
      <4>1. out = "new"
        BY <1>6, <2>2, <3>3, Zenon
      <4>2. me.now.decision = "new" /\ ok = TRUE
        BY <1>3, <4>1 DEF Regraded
      <4>3. PICK u \in Candidates(me.run) : u.nth = Len(me.outs) + 1
        BY <1>1, <1>2, <4>2 DEF AccountsOf
      <4>4. row \in items' /\ row.linked = TRUE /\ row.run = me.run /\ row.nth = u.nth
        BY <1>1, <1>2, <1>3, <4>2, <4>3 DEF AccountsOf
      <4>5. u \in Linked(me.run)'
        BY <1>7, <4>3, <4>4 DEF Linked
      <4> QED
        BY <3>3, <4>3, <4>5
    <3> QED
      BY <3>1, <3>2, <3>3
  <2> QED
    BY <1>5, <1>7, <2>1, <2>2 DEF Accounted
<1>10. AccountsOf(next)'
  BY <1>5, <1>9 DEF AccountsOf
<1>11. AccountsOf(worker[w])'
  BY <1>1, <1>4, <1>10
<1>12. \A r \in DOMAIN runs' : r \in DOMAIN runs /\ runs'[r] = runs[r]
  BY <1>2
<1> QED
  BY <1>3, <1>4, <1>7, <1>11, <1>12, OneMovesAccounts

(* The counters are written when the run is closed. *)
LEMMA AccountsClose ==
  ASSUME SweepsInv, AccountsInv, NEW w \in Workers, CloseRun(w)
  PROVE  AccountsInv'
<1>0. PICK me : me = worker[w]
  OBVIOUS
<1>1. SweepShape(me) /\ OwnsRun(me) /\ DOMAIN worker = Workers
  BY <1>0 DEF SweepsInv, SweepHolds
<1>2. me.stage = "close" /\ UNCHANGED <<items, updates>> /\ worker' = [worker EXCEPT ![w] = Onward(me)]
  BY <1>0 DEF CloseRun
<1>3. PICK next : next = Onward(me)
  OBVIOUS
<1>4. worker'[w] = next /\ next.stage \notin Owning
  BY <1>1, <1>2, <1>3, OnwardShape
<1>5. me.run \in DOMAIN runs /\ runs[me.run].status = "running" /\ IsList(runs)
      /\ DOMAIN runs[me.run] = {"source", "status", "reason", "tally"}
  BY <1>1, <1>2 DEF OwnsRun, Owning, SweepsInv, RunsHold
<1>6. PICK row : row.tally = Tally(me.outs) /\ (runs' = runs \/ runs' = [runs EXCEPT ![me.run] = row])
  <2>1. PICK row : row = ClosedRow(runs[me.run], me)
    OBVIOUS
  <2>2. row.tally = Tally(me.outs)
    BY <1>5, <2>1 DEF ClosedRow
  <2> QED
    BY <1>0, <2>1, <2>2 DEF CloseRun
<1>7. UpdatesHold' /\ \A r : Candidates(r)' = Candidates(r)
  <2>1. DOMAIN runs' = DOMAIN runs
    BY <1>5, <1>6
  <2> QED
    BY <1>2, <2>1 DEF AccountsInv, UpdatesHold, Candidates
<1>8. AccountsOf(worker[w])'
  BY <1>4 DEF AccountsOf, Owning
<1>9. \A r \in DOMAIN runs' :
           \/ r \in DOMAIN runs /\ runs'[r] = runs[r]
           \/ runs'[r].status \notin {"succeeded", "partial"}
           \/ /\ runs'[r].tally = Tally(worker[w].outs) /\ r = worker[w].run
              /\ worker[w].stage = "close" /\ Candidates(r)' = Candidates(r)
  BY <1>0, <1>2, <1>5, <1>6, <1>7
<1>10. items \subseteq items' /\ worker' = [worker EXCEPT ![w] = next]
  BY <1>2, <1>3
<1> QED
  BY <1>7, <1>8, <1>9, <1>10, OneMovesAccounts

(* Every step keeps the counters honest. *)
LEMMA AccountsStep == SweepsInv /\ AccountsInv /\ [IngestionNext]_ingestVars => AccountsInv'
<1> SUFFICES ASSUME SweepsInv, AccountsInv, [IngestionNext]_ingestVars
             PROVE  AccountsInv'
  OBVIOUS
<1>1. CASE UNCHANGED <<runs, items, updates, worker>>
  <2>1. /\ \A r : Candidates(r)' = Candidates(r) /\ Linked(r)' = Linked(r)
        /\ \A r : Closed(r)' <=> Closed(r)
    BY <1>1 DEF Linked, Candidates, Closed
  <2>2. ASSUME NEW w \in Workers
        PROVE  AccountsOf(worker[w])'
    BY <1>1, <2>1 DEF AccountsInv, AccountsOf, Accounted
  <2>3. UpdatesHold'
    BY <1>1 DEF AccountsInv, UpdatesHold
  <2>4. ClosedRunAccountsForItsCandidates'
    BY <1>1 DEF AccountsInv, ClosedRunAccountsForItsCandidates, Closed, Candidates
  <2>5. (\A r \in DOMAIN runs : Closed(r) => runs[r].tally.new \in Nat)'
    BY <1>1 DEF AccountsInv, Closed
  <2>6. \A w \in Workers : AccountsOf(worker[w])'
    BY <1>1, <2>2
  <2> QED
    BY <2>3, <2>4, <2>5, <2>6 DEF AccountsInv
<1>2. ASSUME NEW s \in Sources, Publish(s) \/ DeactivateSource(s)
      PROVE  UNCHANGED <<runs, items, updates, worker>>
  BY <1>2 DEF Publish, DeactivateSource
<1>3. ASSUME NEW w \in Workers, Sweep(w)
      PROVE  AccountsInv'
  BY <1>3, AccountsRest, AccountsOpen, AccountsRead, AccountsCandidate, AccountsEvidence,
     AccountsClose DEF Sweep
<1>4. CASE UNCHANGED ingestVars
  BY <1>1, <1>4 DEF ingestVars
<1> QED
  BY <1>1, <1>2, <1>3, <1>4 DEF IngestionNext

(* And nothing is counted at first. *)
LEMMA AccountsStart ==
  ASSUME NEW register, NEW offered, NEW budget
  PROVE  IngestionInit(register, offered, budget) => AccountsInv
<1> SUFFICES ASSUME IngestionInit(register, offered, budget)
             PROVE  AccountsInv
  OBVIOUS
<1>1. DOMAIN runs = {} /\ IsFiniteSet(updates) /\ updates = {}
  BY FS_EmptySet DEF IngestionInit
<1>2. \A w \in Workers : AccountsOf(worker[w])
  BY DEF IngestionInit, Idle, AccountsOf, Owning
<1> QED
  BY <1>1, <1>2 DEF AccountsInv, UpdatesHold, ClosedRunAccountsForItsCandidates

(* The counters of a closed run account for the legal updates it created,  *)
(* and what it counts as new has an update and the evidence that links it  *)
(* (watchtowerIngestionService.ts:186-248), under the same failures.       *)
THEOREM ClosedRunsAccount ==
  ASSUME NEW register, NEW offered, NEW budget,
         Sources \subseteq DOMAIN register, Sources \subseteq DOMAIN offered,
         \A s \in Sources : DOMAIN register[s] = {"active", "method", "url"} /\ Document(offered[s])
  PROVE  IngestionInit(register, offered, budget) /\ [][IngestionNext]_ingestVars
           => []ClosedRunAccountsForItsCandidates
<1>1. IngestionInit(register, offered, budget) => SweepsInv /\ AccountsInv
  BY SweepsStart, AccountsStart
<1>2. AccountsInv => ClosedRunAccountsForItsCandidates
  BY DEF AccountsInv
<1> QED
  BY <1>1, <1>2, SweepsStep, AccountsStep, PTL

---------------------------------------------------------------------------
(* What was proposed of a source.                                          *)

Ranged(those) == \E N \in Nat : DOMAIN those = 1..N
(* A baseline of source s whose words are among those proposed in P. *)
IsNoted(P, s, b) ==
  Ranged(b.items) /\ \A n \in DOMAIN b.items : <<s, b.items[n].checksum>> \in P
Remembered(P, map) == \A s \in DOMAIN map : \E p \in P : p[2] = map[s]

(* The baselines of a source were saved one after another.                 *)
Versioned(q) ==
  /\ IsList(q)
  /\ \A n \in DOMAIN q : q[n].version \in Nat
  /\ \A m, n \in DOMAIN q : m <= n => q[m].version <= q[n].version
ShelfKnown(P, map) ==
  \A s \in DOMAIN map : Versioned(map[s]) /\ \A n \in DOMAIN map[s] : IsNoted(P, s, map[s][n])

ItemKnown(P, s, item) ==
  /\ item.checksum # Unset => item.checksum = item.words /\ <<s, item.words>> \in P
  /\ item.kind \in KnownKinds => item.checksum # Unset
CheckKnown(P, check) ==
  /\ check.compared # Unset => IsNoted(P, check.source, check.compared)
  /\ check.result # Unset => /\ Ranged(check.result.items)
                            /\ \A n \in DOMAIN check.result.items :
                                  ItemKnown(P, check.source, check.result.items[n])
PasteKnown(P, paste) ==
  paste.decision # Unset =>
      (paste.decision.kind \in KnownKinds => \E p \in P : p[2] = paste.decision.words)
TabKnown(P, tab) ==
  CheckKnown(P, tab.check) /\ Remembered(P, tab.snapshots) /\ PasteKnown(P, tab.paste)

KnownInv ==
  /\ MonitorInv
  /\ ShelfKnown(proposed, shelf)
  /\ Remembered(proposed, kept)
  /\ \A t \in Tabs : TabKnown(proposed, station[t])

(* What was proposed stays proposed. *)
LEMMA ProposalsGrow ==
  ASSUME NEW P, NEW Q, P \subseteq Q
  PROVE  /\ \A map : ShelfKnown(P, map) => ShelfKnown(Q, map)
         /\ \A map : Remembered(P, map) => Remembered(Q, map)
         /\ \A check : CheckKnown(P, check) => CheckKnown(Q, check)
         /\ \A paste : PasteKnown(P, paste) => PasteKnown(Q, paste)
         /\ \A tab : TabKnown(P, tab) => TabKnown(Q, tab)
<1>1. \A s, b : IsNoted(P, s, b) => IsNoted(Q, s, b)
  BY DEF IsNoted
<1>2. \A map : ShelfKnown(P, map) => ShelfKnown(Q, map)
  BY <1>1, Zenon DEF ShelfKnown
<1>3. \A map : Remembered(P, map) => Remembered(Q, map)
  BY DEF Remembered
<1>4. \A s, item : ItemKnown(P, s, item) => ItemKnown(Q, s, item)
  BY DEF ItemKnown
<1>5. \A check : CheckKnown(P, check) => CheckKnown(Q, check)
  BY <1>1, <1>4, Zenon DEF CheckKnown
<1>6. \A paste : PasteKnown(P, paste) => PasteKnown(Q, paste)
  BY DEF PasteKnown
<1> QED
  BY <1>2, <1>3, <1>5, <1>6, Zenon DEF TabKnown

(* A tab that knows only what was proposed, and the others as they were.   *)
LEMMA OneTabKnows ==
  ASSUME KnownInv, MonitorInv', proposed \subseteq proposed',
         ShelfKnown(proposed', shelf'), Remembered(proposed', kept'),
         NEW t \in Tabs, TabKnown(proposed', station'[t]),
         \A u \in Tabs \ {t} : station'[u] = station[u]
  PROVE  KnownInv'
<1>1. \A u \in Tabs : TabKnown(proposed', station'[u])
  <2> SUFFICES ASSUME NEW u \in Tabs, u # t PROVE TabKnown(proposed', station'[u])
    OBVIOUS
  <2>1. TabKnown(proposed, station[u])
    BY DEF KnownInv
  <2>2. station'[u] = station[u]
    OBVIOUS
  <2> QED
    BY <2>1, <2>2, ProposalsGrow
<1> QED
  BY <1>1 DEF KnownInv

(* Handlers that leave check, snapshots and paste alone.                   *)
LEMMA RestOfTheTab ==
  ASSUME KnownInv, MonitorInv', UNCHANGED <<shelf, kept, proposed>>,
         \A u \in Tabs : /\ station'[u].check = station[u].check
                         /\ station'[u].snapshots = station[u].snapshots
                         /\ station'[u].paste = station[u].paste
  PROVE  KnownInv'
<1>1. \A u \in Tabs : TabKnown(proposed', station'[u])
  BY DEF KnownInv, TabKnown
<1> QED
  BY <1>1 DEF KnownInv

(* complianceMonitoringSnapshotStore.ts.  A version that is saved is newer, *)
(* and the newest is one of those on the shelf.                            *)
LEMMA NewestIsShelved ==
  ASSUME NEW s, ShelfKnown(proposed, shelf), CurrentBaseline(s) # Unset
  PROVE  IsNoted(proposed, s, CurrentBaseline(s))
<1> DEFINE q == Shelved(s)
<1>1. q # <<>>
  BY DEF CurrentBaseline
<1>2. s \in DOMAIN shelf /\ q = shelf[s]
  BY <1>1 DEF Shelved
<1>3. Versioned(q) /\ \A n \in DOMAIN q : IsNoted(proposed, s, q[n])
  BY <1>2 DEF ShelfKnown
<1>4. PICK R : q \in Seq(R)
  BY <1>3 DEF Versioned, IsList
<1>5. Len(q) \in DOMAIN q /\ \A m \in DOMAIN q : m <= Len(q)
  BY <1>1, <1>4
<1>6. \A m \in DOMAIN q : q[m].version <= q[Len(q)].version
  BY <1>3, <1>5 DEF Versioned
<1> DEFINE last == CHOOSE n \in DOMAIN q : \A m \in DOMAIN q : q[m].version <= q[n].version
<1>7. last \in DOMAIN q
  BY <1>5, <1>6
<1>8. CurrentBaseline(s) = q[last]
  BY <1>1 DEF CurrentBaseline
<1> QED
  BY <1>3, <1>7, <1>8

LEMMA VersionsGoUp ==
  ASSUME NEW s, NEW made, ShelfKnown(proposed, shelf), made.version = NextVersion(s),
         NEW P, proposed \subseteq P, IsNoted(P, s, made)
  PROVE  ShelfKnown(P, Noted(shelf, s, Append(Shelved(s), made)))
<1> DEFINE q == Shelved(s)
           q2 == Append(q, made)
           shelf2 == Noted(shelf, s, q2)
<1>1. Versioned(q) /\ \A n \in DOMAIN q : IsNoted(P, s, q[n])
  <2>1. CASE s \in DOMAIN shelf
    <3>1. ShelfKnown(P, shelf)
      BY ProposalsGrow
    <3> QED
      BY <2>1, <3>1 DEF ShelfKnown, Shelved
  <2>2. CASE s \notin DOMAIN shelf
    <3>1. q = <<>> /\ DOMAIN q = {}
      BY <2>2 DEF Shelved
    <3>2. IsList(q)
      BY <3>1 DEF IsList
    <3> QED
      BY <3>1, <3>2 DEF Versioned
  <2> QED
    BY <2>1, <2>2
<1>2. /\ Len(q) \in Nat /\ DOMAIN q = 1..Len(q) /\ IsList(q2) /\ DOMAIN q2 = 1..(Len(q) + 1)
      /\ \A n \in 1..Len(q) : q2[n] = q[n]
      /\ q2[Len(q) + 1] = made
  BY <1>1, ListGrows DEF Versioned
<1>3. made.version \in Nat /\ \A n \in DOMAIN q : q[n].version <= made.version
  <2>1. Versions(s) = {q[n].version : n \in DOMAIN q}
    BY DEF Versions
  <2>2. CASE DOMAIN q = {}
    BY <2>1, <2>2 DEF NextVersion
  <2>3. CASE DOMAIN q # {}
    <3>1. Len(q) \in DOMAIN q /\ \A n \in DOMAIN q : n <= Len(q)
      BY <1>2, <2>3
    <3> DEFINE top == q[Len(q)].version
    <3>2. top \in Versions(s) /\ \A w \in Versions(s) : w <= top
      BY <1>1, <2>1, <3>1 DEF Versioned
    <3>3. \A w \in Versions(s) : w \in Nat
      BY <1>1, <2>1 DEF Versioned
    <3>4. NextVersion(s) = 1 + (CHOOSE v \in Versions(s) : \A w \in Versions(s) : w <= v)
      BY <3>2 DEF NextVersion
    <3>5. (CHOOSE v \in Versions(s) : \A w \in Versions(s) : w <= v) = top
      BY <3>2, <3>3
    <3>6. made.version = 1 + top /\ top \in Nat
      BY <3>2, <3>3, <3>4, <3>5
    <3>7. \A n \in DOMAIN q : q[n].version \in Versions(s)
      BY <2>1
    <3>8. \A w \in Versions(s) : w \in Nat /\ w <= top
      BY <3>2, <3>3
    <3>9. \A w \in Nat : w <= top => w <= 1 + top
      BY <3>6
    <3> HIDE DEF top
    <3>10. \A w \in Versions(s) : w <= made.version
      BY <3>6, <3>8, <3>9
    <3> QED
      BY <3>6, <3>7, <3>10
  <2> QED
    BY <2>2, <2>3
<1>4. Versioned(q2)
  <2>1. ASSUME NEW n \in DOMAIN q2
        PROVE  (n \in DOMAIN q /\ q2[n] = q[n]) \/ (n = Len(q) + 1 /\ q2[n] = made)
    <3>1. n \in 1..Len(q) \/ n = Len(q) + 1
      <4>1. n \in 1..(Len(q) + 1) /\ Len(q) \in Nat
        BY <1>2
      <4> HIDE DEF q, q2
      <4> QED
        BY <4>1
    <3> HIDE DEF q, q2
    <3> QED
      BY <1>2, <3>1
  <2>2. \A n \in DOMAIN q2 : q2[n].version \in Nat
    BY <1>1, <1>3, <2>1 DEF Versioned
  <2>3. \A m, n \in DOMAIN q2 : m <= n => q2[m].version <= q2[n].version
    <3> SUFFICES ASSUME NEW m \in DOMAIN q2, NEW n \in DOMAIN q2, m <= n
                 PROVE  q2[m].version <= q2[n].version
      OBVIOUS
    <3> HIDE DEF q, q2
    <3>1. CASE n \in DOMAIN q
      BY <1>1, <1>2, <3>1 DEF Versioned
    <3>2. CASE n = Len(q) + 1
      BY <1>2, <1>3, <2>1, <3>2
    <3> QED
      BY <2>1, <3>1, <3>2
  <2> QED
    BY <1>2, <2>2, <2>3 DEF Versioned
<1>5. \A n \in DOMAIN q2 : IsNoted(P, s, q2[n])
  BY <1>1, <1>2
<1>6. ShelfKnown(P, shelf)
  BY ProposalsGrow
<1> HIDE DEF q2
<1>7. \A r \in DOMAIN shelf2 : shelf2[r] = IF r = s THEN q2 ELSE shelf[r]
  BY DEF Noted
<1>8. \A r \in DOMAIN shelf2 : r = s \/ r \in DOMAIN shelf
  BY DEF Noted
<1> HIDE DEF shelf2
<1>9. ShelfKnown(P, shelf2)
  BY <1>4, <1>5, <1>6, <1>7, <1>8 DEF ShelfKnown
<1> QED
  BY <1>9 DEF shelf2, q2

(* What is saved of a result is what it shows with words of its own.       *)
LEMMA SavedIsRecorded ==
  ASSUME NEW P, NEW s, NEW result, Ranged(result.items),
         \A n \in DOMAIN result.items : ItemKnown(P, s, result.items[n]),
         NEW made, made.items = BaselineItems(result)
  PROVE  IsNoted(P, s, made)
<1> DEFINE valid == {n \in DOMAIN result.items : result.items[n].checksum # Unset}
           taken == Picked(result.items, valid)
<1>1. PICK N \in Nat : DOMAIN result.items = 1..N
  BY DEF Ranged
<1>2. valid \in SUBSET (1..N) /\ \A n \in valid : <<s, result.items[n].checksum>> \in P
  BY <1>1 DEF ItemKnown
<1>3. /\ BaselineItems(result)
           = [k \in DOMAIN taken |-> [id |-> taken[k].id, checksum |-> taken[k].checksum]]
  BY DEF BaselineItems
<1> HIDE DEF valid
<1>4. /\ DOMAIN taken = 1..Cardinality(valid) /\ Cardinality(valid) \in Nat
      /\ \A k \in DOMAIN taken : \E n \in valid : taken[k] = result.items[n]
  <2>1. N \in Nat /\ valid \in SUBSET (1..N)
    BY <1>1, <1>2
  <2>2. PicksFrom(result.items, valid, taken)
    BY <2>1, PickedIs
  <2> HIDE DEF taken
  <2> QED
    BY <2>2 DEF PicksFrom
<1> HIDE DEF taken
<1>5. \A k \in DOMAIN taken : made.items[k].checksum = taken[k].checksum
  BY <1>3
<1>6. DOMAIN made.items = DOMAIN taken
  BY <1>3
<1> QED
  BY <1>2, <1>4, <1>5, <1>6 DEF IsNoted, Ranged

(* complianceMonitoringSnapshot.ts.  Of items of one identity the last      *)
(* stands.                                                                 *)
LEMMA SnapshotsAreRecorded ==
  ASSUME NEW P, NEW s, NEW b, b # Unset => IsNoted(P, s, b)
  PROVE  \A id \in DOMAIN PreviousSnapshots(b) : <<s, PreviousSnapshots(b)[id]>> \in P
<1>1. CASE b = Unset
  BY <1>1 DEF PreviousSnapshots
<1>2. CASE b # Unset
  <2> DEFINE last(id) == CHOOSE n \in DOMAIN b.items : /\ b.items[n].id = id
                             /\ \A m \in DOMAIN b.items : b.items[m].id = id => m <= n
             ids == {b.items[n].id : n \in DOMAIN b.items}
  <2>1. PreviousSnapshots(b) = [id \in ids |-> b.items[last(id)].checksum]
    BY <1>2 DEF PreviousSnapshots
  <2>2. PICK N \in Nat : DOMAIN b.items = 1..N
    BY <1>2 DEF IsNoted, Ranged
  <2>3. \A n \in DOMAIN b.items : <<s, b.items[n].checksum>> \in P
    BY <1>2 DEF IsNoted
  <2>4. ASSUME NEW id \in ids PROVE last(id) \in DOMAIN b.items
    <3> DEFINE K == {n \in DOMAIN b.items : b.items[n].id = id}
    <3>1. K \in SUBSET (1..N) /\ K # {}
      BY <2>2
    <3>2. PICK x \in K : \A y \in K : y <= x
      <4> HIDE DEF K
      <4> QED
        BY <3>1, GreatestOfRange
    <3> QED
      BY <3>2
  <2> HIDE DEF last, ids
  <2> QED
    BY <2>1, <2>3, <2>4
<1> QED
  BY <1>1, <1>2

(* complianceMonitoringChecks.ts.  What is said of a text, case by case.    *)
LEMMA VerdictIs ==
  ASSUME NEW text, NEW previous, NEW others
  PROVE  /\ Snapshot(text) # Unset => Snapshot(text) = Words(text)
         /\ Snapshot(text) = Unset <=> Verdict(text, previous, others) = "invalid_source"
         /\ Verdict(text, previous, others) = "duplicate" => Snapshot(text) \in others
         /\ Verdict(text, previous, others) = "unchanged" => Snapshot(text) = previous
         /\ Snapshot(text) # Unset /\ Snapshot(text) \notin others =>
               Verdict(text, previous, others) \in {"unchanged", "changed_pending_review"}
         /\ Verdict(text, previous, others) \in
               {"invalid_source", "duplicate", "unchanged", "changed_pending_review"}
<1>1. Snapshot(text) # Unset => Snapshot(text) = Words(text)
  BY DEF Snapshot, Normalized
<1> DEFINE snap == Snapshot(text)
           kind == Verdict(text, previous, others)
<1>2. kind = IF snap = Unset THEN "invalid_source"
             ELSE IF snap \in others THEN "duplicate"
             ELSE IF snap = previous THEN "unchanged" ELSE "changed_pending_review"
  BY DEF Verdict
<1> HIDE DEF snap, kind
<1>3. /\ snap = Unset <=> kind = "invalid_source"
      /\ kind = "duplicate" => snap \in others
      /\ kind = "unchanged" => snap = previous
      /\ snap # Unset /\ snap \notin others => kind \in {"unchanged", "changed_pending_review"}
      /\ kind \in {"invalid_source", "duplicate", "unchanged", "changed_pending_review"}
  BY <1>2
<1> QED
  BY <1>1, <1>3 DEF snap, kind

(* complianceRssMonitoring.ts.  An item that repeats an earlier one of its  *)
(* document repeats the first such; that one is as the baseline has it, or  *)
(* it is proposed with this check.                                         *)
LEMMA FeedKnown ==
  ASSUME NEW P, NEW Q, P \subseteq Q, NEW s, NEW those, Ranged(those),
         NEW previous, \A id \in DOMAIN previous : <<s, previous[id]>> \in P,
         \A n \in DOMAIN ItemViews(those, previous) :
            ItemViews(those, previous)[n].kind = "changed_pending_review" =>
                <<s, ItemViews(those, previous)[n].words>> \in Q
  PROVE  /\ Ranged(ItemViews(those, previous))
         /\ \A n \in DOMAIN ItemViews(those, previous) : ItemKnown(Q, s, ItemViews(those, previous)[n])
<1>0. PICK N \in Nat : DOMAIN those = 1..N
  BY DEF Ranged
<1> DEFINE views == ItemViews(those, previous)
<1> DEFINE text(n) == RawText(those[n])
           snap(n) == Snapshot(text(n))
           earlier(n) == {snap(m) : m \in 1..(n - 1)} \ {Unset}
           before(n) == IF StableId(those[n]) \in DOMAIN previous THEN previous[StableId(those[n])] ELSE Unset
           said(n) == Verdict(text(n), before(n), earlier(n))
<1>1. DOMAIN views = 1..N
  BY <1>0 DEF ItemViews
<1>2. \A n \in 1..N : /\ views[n].checksum = snap(n) /\ views[n].words = Words(text(n))
                      /\ views[n].kind = said(n)
  BY <1>0 DEF ItemViews
<1>3. \A n : snap(n) # Unset => snap(n) = Words(text(n))
  BY VerdictIs
<1>4. ASSUME NEW n \in 1..N, snap(n) # Unset, snap(n) \notin earlier(n)
      PROVE  <<s, snap(n)>> \in Q
  <2> HIDE DEF earlier, before
  <2>1. said(n) \in {"unchanged", "changed_pending_review"}
    BY <1>4, VerdictIs
  <2>2. said(n) = "unchanged" => snap(n) = before(n)
    BY VerdictIs
  <2>3. said(n) = "changed_pending_review" => <<s, snap(n)>> \in Q
    BY <1>1, <1>2, <1>3, <1>4
  <2>4. before(n) # Unset => <<s, before(n)>> \in P
    BY DEF before
  <2> HIDE DEF said, snap
  <2> QED
    BY <1>4, <2>1, <2>2, <2>3, <2>4
<1>5. ASSUME NEW n \in 1..N, snap(n) # Unset
      PROVE  <<s, snap(n)>> \in Q
  <2> HIDE DEF text
  <2> DEFINE T == {m \in 1..N : snap(m) = snap(n)}
  <2>1. T \in SUBSET Nat /\ T # {}
    BY <1>5
  <2>2. PICK k \in T : \A m \in T : k <= m
    <3> HIDE DEF T
    <3> QED
      BY <2>1, LeastNatural
  <2>3. k \in 1..N /\ snap(k) = snap(n)
    BY <2>2
  <2>4. \A m \in 1..(k - 1) : m \in 1..N /\ ~(k <= m)
    BY <2>3
  <2>5. \A m \in 1..(k - 1) : snap(m) # snap(n)
    BY <2>2, <2>4
  <2>6. snap(k) \notin earlier(k)
    <3> HIDE DEF snap
    <3> QED
      BY <2>3, <2>5
  <2> HIDE DEF snap, earlier
  <2> QED
    BY <1>4, <1>5, <2>3, <2>6
<1>6. \A n \in 1..N : said(n) \in KnownKinds => snap(n) # Unset
  <2> SUFFICES ASSUME NEW n \in 1..N, said(n) \in KnownKinds PROVE snap(n) # Unset
    OBVIOUS
  <2>1. snap(n) = Unset => said(n) = "invalid_source"
    BY VerdictIs
  <2> HIDE DEF said, snap
  <2> QED
    BY <2>1 DEF KnownKinds
<1>7. \A n \in 1..N : ItemKnown(Q, s, views[n])
  <2> HIDE DEF snap, said, text, views
  <2> QED
    BY <1>2, <1>3, <1>5, <1>6 DEF ItemKnown
<1> QED
  BY <1>0, <1>1, <1>7 DEF Ranged

(* What a tab keeps with one value more is remembered if that value is.     *)
LEMMA NotedIsRemembered ==
  ASSUME NEW P, NEW map, Remembered(P, map), NEW s, NEW words, \E p \in P : p[2] = words
  PROVE  Remembered(P, Noted(map, s, words))
BY DEF Remembered, Noted

(* complianceMonitoringChecks.ts.  A text that is known was pasted before,  *)
(* in this tab or before it was opened.                                    *)
LEMMA PastedKnown ==
  ASSUME KnownInv, NEW t \in Tabs, NEW s, NEW text, PastedDecision(t, s, text) # Unset,
         NEW Q, proposed \subseteq Q,
         PastedDecision(t, s, text).kind = "changed_pending_review" => <<s, Words(text)>> \in Q,
         PastedDecision(t, s, text).kind # "invalid_source"
  PROVE  Snapshot(text) = Words(text) /\ \E p \in Q : p[2] = Words(text)
<1> DEFINE mine == station[t].snapshots
           before == IF s \in DOMAIN mine THEN mine[s] ELSE Unset
           others == {mine[r] : r \in DOMAIN mine \ {s}}
           kind == IF s = 0 THEN "invalid_source" ELSE Verdict(text, before, others)
           decision == PastedDecision(t, s, text)
<1>1. Remembered(proposed, mine)
  BY DEF KnownInv, TabKnown
<1>2. decision = [kind |-> kind, words |-> Words(text)]
  BY DEF PastedDecision
<1>3. kind # "invalid_source" /\ (kind = "changed_pending_review" => <<s, Words(text)>> \in Q)
  <2> HIDE DEF kind
  <2> QED
    BY <1>2
<1>4. kind = Verdict(text, before, others)
  BY <1>3
<1> HIDE DEF kind, decision
<1>5. before # Unset => \E p \in proposed : p[2] = before
  BY <1>1 DEF Remembered
<1>6. \A words \in others : \E p \in proposed : p[2] = words
  BY <1>1 DEF Remembered
<1> HIDE DEF before, others
<1>7. Snapshot(text) # Unset /\ Snapshot(text) = Words(text)
  BY <1>3, <1>4, VerdictIs
<1>8. CASE kind = "duplicate"
  BY <1>4, <1>6, <1>7, <1>8, VerdictIs
<1>9. CASE kind = "unchanged"
  BY <1>4, <1>5, <1>7, <1>9, VerdictIs
<1>10. CASE kind = "changed_pending_review"
  BY <1>3, <1>7, <1>10
<1> QED
  BY <1>3, <1>4, <1>7, <1>8, <1>9, <1>10, VerdictIs

LEMMA PasteKnows ==
  ASSUME KnownInv, MonitorInv', NEW t \in Tabs, RunMonitoringCheck(t) PROVE KnownInv'
<1> DEFINE tab == station[t]
<1>1. DOMAIN station = Tabs /\ TabHolds(tab) /\ TabKnown(proposed, tab)
  BY DEF KnownInv, MonitorInv
<1>2. PICK s, text :
        LET decision == PastedDecision(t, s, text)
            taken == IF decision = Unset THEN FALSE ELSE decision.kind # "invalid_source"
            next == IF taken THEN Noted(tab.snapshots, s, Snapshot(text)) ELSE tab.snapshots
        IN /\ station' = [station EXCEPT ![t].snapshots = next,
                                         ![t].paste = [source |-> s, decision |-> decision]]
           /\ kept' = IF taken THEN next ELSE kept
           /\ proposed' = IF taken /\ decision.kind = "changed_pending_review"
                          THEN proposed \cup {<<s, decision.words>>} ELSE proposed
  BY DEF RunMonitoringCheck
<1> DEFINE decision == PastedDecision(t, s, text)
           taken == IF decision = Unset THEN FALSE ELSE decision.kind # "invalid_source"
           next == IF taken THEN Noted(tab.snapshots, s, Snapshot(text)) ELSE tab.snapshots
           paste == [source |-> s, decision |-> decision]
<1>3. decision # Unset => decision.words = Words(text)
  BY DEF PastedDecision
<1> HIDE DEF decision
<1>4. /\ station' = [station EXCEPT ![t].snapshots = next, ![t].paste = paste]
      /\ kept' = IF taken THEN next ELSE kept
      /\ proposed' = IF taken /\ decision.kind = "changed_pending_review"
                     THEN proposed \cup {<<s, decision.words>>} ELSE proposed
      /\ shelf' = shelf
  BY <1>2 DEF decision, RunMonitoringCheck
<1>5. proposed \subseteq proposed'
  BY <1>4
<1>6. taken => Snapshot(text) = Words(text) /\ \E p \in proposed' : p[2] = Words(text)
  <2> SUFFICES ASSUME taken PROVE Snapshot(text) = Words(text) /\ \E p \in proposed' : p[2] = Words(text)
    OBVIOUS
  <2>1. decision # Unset /\ decision.kind # "invalid_source"
    OBVIOUS
  <2>2. decision.kind = "changed_pending_review" => <<s, Words(text)>> \in proposed'
    BY <1>3, <1>4, <2>1
  <2> QED
    BY <1>5, <2>1, <2>2, PastedKnown DEF decision
<1>7. Remembered(proposed', tab.snapshots) /\ Remembered(proposed', kept)
      /\ ShelfKnown(proposed', shelf) /\ CheckKnown(proposed', tab.check)
  BY <1>1, <1>5, ProposalsGrow DEF KnownInv, TabKnown
<1>8. Remembered(proposed', next) /\ Remembered(proposed', kept')
  <2>1. CASE taken
    <3>1. Remembered(proposed', Noted(tab.snapshots, s, Snapshot(text)))
      BY <1>6, <1>7, <2>1, NotedIsRemembered
    <3> QED
      BY <1>4, <2>1, <3>1
  <2>2. CASE ~taken
    BY <1>4, <1>7, <2>2
  <2> QED
    BY <2>1, <2>2
<1>9. PasteKnown(proposed', paste)
  <2> SUFFICES ASSUME decision # Unset, decision.kind \in KnownKinds
               PROVE  \E p \in proposed' : p[2] = decision.words
    BY DEF PasteKnown
  <2>1. taken
    BY DEF KnownKinds
  <2> QED
    BY <1>3, <1>6, <2>1
<1> HIDE DEF taken, next, paste
<1>10. station'[t].check = tab.check /\ station'[t].snapshots = next /\ station'[t].paste = paste
  BY <1>1, <1>4 DEF TabHolds
<1>11. \A u \in Tabs \ {t} : station'[u] = station[u]
  BY <1>1, <1>4
<1>12. TabKnown(proposed', station'[t])
  BY <1>7, <1>8, <1>9, <1>10 DEF TabKnown
<1> QED
  BY <1>4, <1>5, <1>7, <1>8, <1>11, <1>12, OneTabKnows

(* A feed that is checked by one that knows.                                *)
LEMMA NewCheckKnows ==
  ASSUME KnownInv, MonitorInv', proposed \subseteq proposed', ShelfKnown(proposed', shelf'),
         kept' = kept, NEW t \in Tabs, NEW check, CheckKnown(proposed', check),
         station' = [station EXCEPT ![t].check = check]
  PROVE  KnownInv'
<1> DEFINE tab == station[t]
<1>1. DOMAIN station = Tabs /\ TabHolds(tab) /\ TabKnown(proposed', tab)
  BY ProposalsGrow DEF KnownInv, MonitorInv
<1>2. /\ station'[t].check = check /\ station'[t].snapshots = tab.snapshots
      /\ station'[t].paste = tab.paste
  BY <1>1 DEF TabHolds
<1>3. TabKnown(proposed', station'[t])
  BY <1>1, <1>2 DEF TabKnown
<1>4. \A u \in Tabs \ {t} : station'[u] = station[u]
  BY <1>1
<1>5. Remembered(proposed', kept')
  BY ProposalsGrow DEF KnownInv
<1> QED
  BY <1>3, <1>4, <1>5, OneTabKnows

LEMMA NothingProposed ==
  ASSUME NEW P
  PROVE  CheckKnown(P, NoCheck) /\ PasteKnown(P, NoPaste) /\ Remembered(P, <<>>) /\ ShelfKnown(P, <<>>)
<1>1. DOMAIN <<>> = {}
  OBVIOUS
<1>2. CheckKnown(P, NoCheck) /\ PasteKnown(P, NoPaste)
  BY DEF CheckKnown, NoCheck, PasteKnown, NoPaste
<1> DEFINE none == <<>>
<1>3. DOMAIN none = {}
  BY <1>1
<1> HIDE DEF none
<1>4. Remembered(P, none) /\ ShelfKnown(P, none)
  BY <1>3 DEF Remembered, ShelfKnown
<1> QED
  BY <1>2, <1>4 DEF none

LEMMA FeedKnows == ASSUME KnownInv, MonitorInv', NEW t \in Tabs, FeedArrives(t) PROVE KnownInv'
<1> DEFINE check == station[t].check
           s == check.source
           previous == PreviousSnapshots(check.compared)
<1>1. CheckHolds(check) /\ CheckKnown(proposed, check) /\ Answering(served) /\ check.busy
      /\ DOMAIN station = Tabs /\ TabHolds(station[t])
  BY DEF KnownInv, MonitorInv, TabHolds, TabKnown, FeedArrives
<1>2. PICK lost \in BOOLEAN :
        LET doc == IF lost THEN Unset ELSE Retrieved(registry[s], check.url)
            result == CheckedFeed(s, check.url, doc, previous)
        IN /\ station' = [station EXCEPT ![t].check.busy = FALSE, ![t].check.result = result]
           /\ proposed' = proposed \cup {<<s, result.items[n].words>> : n \in
                            {m \in DOMAIN result.items : result.items[m].kind = "changed_pending_review"}}
  BY DEF FeedArrives
<1> DEFINE doc == IF lost THEN Unset ELSE Retrieved(registry[s], check.url)
           result == CheckedFeed(s, check.url, doc, previous)
           next == [check EXCEPT !.busy = FALSE, !.result = result]
<1>3. station' = [station EXCEPT ![t].check = next] /\ shelf' = shelf /\ kept' = kept
  <2> HIDE DEF doc, result, previous
  <2>1. station' = [station EXCEPT ![t].check.busy = FALSE, ![t].check.result = result]
    BY <1>2 DEF doc, result, previous
  <2>2. station' = [station EXCEPT ![t].check = next]
    BY <1>1, <2>1
  <2> QED
    BY <2>2 DEF FeedArrives
<1>4. /\ proposed \subseteq proposed'
      /\ \A n \in DOMAIN result.items : result.items[n].kind = "changed_pending_review" =>
            <<s, result.items[n].words>> \in proposed'
  <2> HIDE DEF result
  <2> QED
    BY <1>2 DEF result
<1>5. \A id \in DOMAIN previous : <<s, previous[id]>> \in proposed
  <2>1. check.compared # Unset => IsNoted(proposed, s, check.compared)
    BY <1>1 DEF CheckKnown
  <2> QED
    BY <2>1, SnapshotsAreRecorded
<1> HIDE DEF previous
<1>6. Ranged(result.items) /\ \A n \in DOMAIN result.items : ItemKnown(proposed', s, result.items[n])
  <2>1. CASE result = FailedCheck(s)
    <3>1. result.items = <<>>
      BY <2>1 DEF FailedCheck
    <3>2. DOMAIN result.items = 1..0
      BY <3>1
    <3> HIDE DEF result
    <3> QED
      BY <3>2 DEF Ranged
  <2>2. CASE result # FailedCheck(s)
    <3>1. doc # Unset /\ result = Completed(s, ItemViews(FeedItems(doc), previous))
      BY <2>2 DEF CheckedFeed
    <3>2. doc \in FeedEditions[check.url] /\ check.url \in DOMAIN FeedEditions
      <4>1. check.url \in DOMAIN FeedEditions
        BY <1>1 DEF CheckHolds
      <4> QED
        BY <1>1, <3>1, <4>1, AnswersForAsked
    <3> DEFINE feed == FeedItems(doc)
               views == ItemViews(feed, previous)
    <3>3. Ranged(feed)
      BY <3>2, MonitoringAssumption DEF FeedItems, Ranged
    <3>4. result.items = views
      BY <3>1 DEF Completed
    <3> HIDE DEF result, doc, feed
    <3>5. \A n \in DOMAIN views : views[n].kind = "changed_pending_review" =>
              <<s, views[n].words>> \in proposed'
      BY <1>4, <3>4
    <3>6. proposed \subseteq proposed'
      BY <1>4
    <3>7. Ranged(views) /\ \A n \in DOMAIN views : ItemKnown(proposed', s, views[n])
      BY <1>5, <3>3, <3>5, <3>6, FeedKnown, Zenon
    <3> HIDE DEF views
    <3> QED
      BY <3>4, <3>7
  <2> QED
    BY <2>1, <2>2
<1> HIDE DEF result
<1>7. next.source = s /\ next.compared = check.compared /\ next.result = result
  BY <1>1 DEF CheckHolds
<1>8. CheckKnown(proposed', next)
  <2>1. CheckKnown(proposed', check) /\ ShelfKnown(proposed', shelf)
    BY <1>1, <1>4, ProposalsGrow DEF KnownInv
  <2> HIDE DEF next
  <2> QED
    BY <1>6, <1>7, <2>1 DEF CheckKnown
<1>9. ShelfKnown(proposed', shelf')
  BY <1>3, <1>4, ProposalsGrow DEF KnownInv
<1> HIDE DEF next
<1> QED
  BY ZenonT(60), <1>3, <1>4, <1>8, <1>9, NewCheckKnows

LEMMA SaveKnows == ASSUME KnownInv, MonitorInv', NEW t \in Tabs, SaveBaseline(t) PROVE KnownInv'
<1> DEFINE check == station[t].check
           s == check.source
           made == BaselineOf(s, station[t].list[s].url, check.result)
           history == <<made>> \o History(s)
           next == [check EXCEPT !.compared = made, !.history = history]
<1>1. CheckHolds(check) /\ CheckKnown(proposed, check) /\ check.result # Unset
  BY DEF KnownInv, MonitorInv, TabHolds, TabKnown, SaveBaseline, CardButtons
<1>2. /\ shelf' = Noted(shelf, s, Append(Shelved(s), made)) /\ kept' = kept /\ proposed' = proposed
      /\ station' = [station EXCEPT ![t].check.compared = made, ![t].check.history = history]
  BY DEF SaveBaseline
<1>3. station' = [station EXCEPT ![t].check = next]
  BY <1>2
<1>4. made.version = NextVersion(s) /\ made.items = BaselineItems(check.result)
  BY DEF BaselineOf
<1> HIDE DEF made, history
<1>5. IsNoted(proposed, s, made)
  BY <1>1, <1>4, SavedIsRecorded DEF CheckKnown
<1>6. ShelfKnown(proposed', shelf')
  BY <1>2, <1>4, <1>5, VersionsGoUp DEF KnownInv
<1>7. next.source = s /\ next.compared = made /\ next.result = check.result
  BY <1>1 DEF CheckHolds
<1> HIDE DEF next
<1>8. CheckKnown(proposed', next)
  BY <1>1, <1>2, <1>5, <1>7 DEF CheckKnown
<1> QED
  BY ZenonT(60), <1>2, <1>3, <1>6, <1>8, NewCheckKnows

LEMMA CheckKnows ==
  ASSUME KnownInv, MonitorInv', NEW t \in Tabs, NEW s, CheckSourceFeed(t, s) PROVE KnownInv'
<1> DEFINE check == [source |-> s, url |-> station[t].list[s].url, busy |-> TRUE, result |-> Unset,
                     compared |-> CurrentBaseline(s), history |-> History(s)]
<1>1. station' = [station EXCEPT ![t].check = check] /\ UNCHANGED <<shelf, kept, proposed>>
  BY DEF CheckSourceFeed
<1>2. CurrentBaseline(s) # Unset => IsNoted(proposed, s, CurrentBaseline(s))
  BY NewestIsShelved DEF KnownInv
<1>3. CheckKnown(proposed', check)
  BY <1>1, <1>2 DEF CheckKnown
<1> HIDE DEF check
<1> QED
  BY <1>1, <1>3, NewCheckKnows DEF KnownInv

LEMMA ReloadKnows == ASSUME KnownInv, MonitorInv', NEW t \in Tabs, ReloadTab(t) PROVE KnownInv'
<1>1. station' = [station EXCEPT ![t] = OpenedTab] /\ UNCHANGED <<shelf, kept, proposed>>
  BY DEF ReloadTab
<1>2. TabKnown(proposed, OpenedTab)
  BY NothingProposed DEF KnownInv, TabKnown, OpenedTab
<1>3. DOMAIN station = Tabs
  BY DEF KnownInv, MonitorInv
<1>4. TabKnown(proposed', station'[t]) /\ \A u \in Tabs \ {t} : station'[u] = station[u]
  BY <1>1, <1>2, <1>3
<1> QED
  BY <1>1, <1>4, OneTabKnows DEF KnownInv

(* The form and the registry have nothing to do with it. *)
LEMMA RestKnows ==
  ASSUME KnownInv, MonitorInv', NEW t \in Tabs,
         \/ TypeSource(t) \/ ResetSourceForm(t) \/ SubmitSource(t) \/ SeedStarterSources(t)
         \/ \E s \in DOMAIN station[t].list : StartEditSource(t, s) \/ RetireSource(t, s)
         \/ \E lane \in Lanes : ReadForWrite(t, lane) \/ InsertOrUpdate(t, lane) \/ ListArrives(t, lane)
  PROVE  KnownInv'
<1> DEFINE Same == /\ UNCHANGED <<shelf, kept, proposed>>
                   /\ \A u \in Tabs : /\ station'[u].check = station[u].check
                                      /\ station'[u].snapshots = station[u].snapshots
                                      /\ station'[u].paste = station[u].paste
<1>1. DOMAIN station = Tabs /\ TabHolds(station[t])
  BY DEF KnownInv, MonitorInv
<1>2. DOMAIN station[t] = {"list", "attempted", "form", "check", "paste", "snapshots", "jobs"}
  BY <1>1 DEF TabHolds
<1>3. \A kind, todo : StartChain(t, kind, todo) => Same
  BY <1>1, <1>2 DEF StartChain
<1>4. CASE TypeSource(t) \/ ResetSourceForm(t)
  <2>1. PICK form : station' = [station EXCEPT ![t].form = form]
    BY <1>4 DEF TypeSource, ResetSourceForm
  <2>2. Same
    BY <1>1, <1>2, <1>4, <2>1 DEF TypeSource, ResetSourceForm
  <2> QED
    BY <2>2, RestOfTheTab
<1>5. CASE SubmitSource(t) \/ SeedStarterSources(t)
  <2>1. Same
    BY <1>3, <1>5 DEF SubmitSource, SeedStarterSources
  <2> QED
    BY <2>1, RestOfTheTab
<1>6. ASSUME NEW s, StartEditSource(t, s) \/ RetireSource(t, s) PROVE KnownInv'
  <2>1. CASE StartEditSource(t, s)
    <3>1. PICK form : station' = [station EXCEPT ![t].form = form]
      BY <2>1 DEF StartEditSource
    <3>2. Same
      BY <1>1, <1>2, <2>1, <3>1 DEF StartEditSource
    <3> QED
      BY <3>2, RestOfTheTab
  <2>2. CASE RetireSource(t, s)
    <3>1. Same
      BY <1>3, <2>2 DEF RetireSource
    <3> QED
      BY <3>1, RestOfTheTab
  <2> QED
    BY <1>6, <2>1, <2>2
<1>7. ASSUME NEW lane \in Lanes, ReadForWrite(t, lane) PROVE KnownInv'
  <2>1. PICK chain : station' = [station EXCEPT ![t].jobs[lane] = chain]
    BY <1>7 DEF ReadForWrite
  <2>2. Same
    BY <1>1, <1>2, <1>7, <2>1 DEF ReadForWrite
  <2> QED
    BY <2>2, RestOfTheTab
<1>8. ASSUME NEW lane \in Lanes, InsertOrUpdate(t, lane) PROVE KnownInv'
  <2>1. PICK next, list, form :
          /\ station' = [station EXCEPT ![t].jobs[lane] = next, ![t].list = list, ![t].form = form]
          /\ next \in {Resting, Chain("list", <<>>),
                       Chain(station[t].jobs[lane].kind, Tail(station[t].jobs[lane].todo))}
          /\ form \in {BlankForm, station[t].form}
    BY <1>1, <1>8, WriteGoesOn
  <2>2. Same
    BY <1>1, <1>2, <1>8, <2>1 DEF InsertOrUpdate
  <2> QED
    BY <2>2, RestOfTheTab
<1>9. ASSUME NEW lane \in Lanes, ListArrives(t, lane) PROVE KnownInv'
  <2> DEFINE missing == MissingStarters(registry)
             links == Chain("open", [n \in DOMAIN missing |-> Task(0, missing[n])])
             seeds == station[t].jobs[lane].kind = "open" /\ missing # <<>> /\ ~station[t].attempted
             next == IF seeds THEN links ELSE Resting
             list == IF seeds THEN station[t].list ELSE registry
             attempted == station[t].attempted \/ seeds
  <2>1. \/ station' = [station EXCEPT ![t].list = list, ![t].attempted = attempted,
                                      ![t].jobs[lane] = next]
        \/ station' = [station EXCEPT ![t].jobs[lane] = Resting]
    BY <1>9 DEF ListArrives
  <2> HIDE DEF next, list, attempted
  <2>2. Same
    <3>1. UNCHANGED <<shelf, kept, proposed>>
      BY <1>9 DEF ListArrives
    <3> QED
      BY <1>1, <1>2, <2>1, <3>1
  <2> QED
    BY <2>2, RestOfTheTab
<1> QED
  BY <1>4, <1>5, <1>6, <1>7, <1>8, <1>9

LEMMA KnownStep == KnownInv /\ [MonitoringNext]_monitorVars => KnownInv'
<1> SUFFICES ASSUME KnownInv, [MonitoringNext]_monitorVars PROVE KnownInv'
  OBVIOUS
<1>1. MonitorInv'
  BY MonitorStep DEF KnownInv
<1>2. CASE UNCHANGED monitorVars
  <2>1. UNCHANGED <<station, shelf, kept, proposed>>
    BY <1>2 DEF monitorVars
  <2> QED
    BY <1>1, <2>1, RestOfTheTab
<1>3. CASE ServeAnother
  <2>1. UNCHANGED <<station, shelf, kept, proposed>>
    BY <1>3 DEF ServeAnother
  <2> QED
    BY <1>1, <2>1, RestOfTheTab
<1>4. ASSUME NEW t \in Tabs, DismissResult(t) PROVE KnownInv'
  <2>1. station' = [station EXCEPT ![t].check = NoCheck] /\ UNCHANGED <<shelf, kept, proposed>>
    BY <1>4 DEF DismissResult
  <2> QED
    BY <1>1, <2>1, NothingProposed, NewCheckKnows DEF KnownInv
<1> QED
  BY <1>1, <1>2, <1>3, <1>4, FeedKnows, SaveKnows, CheckKnows, PasteKnows, ReloadKnows, RestKnows
     DEF MonitoringNext

LEMMA KnownStart ==
  ASSUME MonitorInv, NEW existing, NEW docs, NEW shown, NEW typed, NEW budget,
         Begins(existing, docs, shown, typed, budget)
  PROVE  KnownInv
<1>1. PICK tab : /\ MonitoringInit(existing, docs, tab, budget)
                 /\ tab \in {OpenedTab, [ShowingTab(shown) EXCEPT !.form = typed]}
  BY DEF Begins
<1>2. shelf = <<>> /\ kept = <<>> /\ proposed = {} /\ station = [t \in Tabs |-> tab]
  BY <1>1 DEF MonitoringInit
<1>3. tab.check = NoCheck /\ tab.paste = NoPaste /\ tab.snapshots = kept
  <2> DEFINE first == [OpenedTab EXCEPT !.list = shown, !.attempted = TRUE,
                                        !.jobs["effect"] = Resting]
             next == [first EXCEPT !.form = typed]
  <2>1. OpenedTab.check = NoCheck /\ OpenedTab.paste = NoPaste /\ OpenedTab.snapshots = kept
    BY DEF OpenedTab
  <2>2. first.check = OpenedTab.check /\ first.paste = OpenedTab.paste
        /\ first.snapshots = OpenedTab.snapshots
    BY DEF OpenedTab
  <2>3. first = ShowingTab(shown)
    BY DEF ShowingTab
  <2>4. {"check", "paste", "snapshots"} \subseteq DOMAIN first
    BY DEF OpenedTab
  <2> HIDE DEF first
  <2>5. next.check = first.check /\ next.paste = first.paste /\ next.snapshots = first.snapshots
    BY <2>4
  <2> QED
    BY <1>1, <2>1, <2>2, <2>3, <2>5
<1>4. TabKnown(proposed, tab)
  BY <1>2, <1>3, NothingProposed DEF TabKnown
<1> QED
  BY <1>2, <1>4, NothingProposed DEF KnownInv

(* What a check calls unchanged or a duplicate was proposed for review      *)
(* before, in this browser: a baseline that is saved holds what checks of   *)
(* its source proposed, whatever tab saved it over whatever other, and the  *)
(* kept snapshots what pasted text did (complianceMonitoringChecks.ts,      *)
(* complianceRssMonitoring.ts, complianceMonitoringSnapshotStore.ts).       *)
THEOREM KnownIsProposed ==
  ASSUME NEW existing, NEW docs, NEW shown, NEW typed, NEW budget,
         SaysActivity(existing), Answering(docs), "active" \notin DOMAIN typed
  PROVE  Begins(existing, docs, shown, typed, budget) /\ [][MonitoringNext]_monitorVars
           => []KnownWasProposed
<1>1. Begins(existing, docs, shown, typed, budget) => KnownInv
  BY MonitorStart, KnownStart
<1>2. KnownInv => KnownWasProposed
  <2> SUFFICES ASSUME KnownInv, NEW t \in Tabs
               PROVE  /\ station[t].check.result # Unset =>
                           \A n \in DOMAIN station[t].check.result.items :
                             LET item == station[t].check.result.items[n] IN
                             item.kind \in KnownKinds => <<station[t].check.source, item.words>> \in proposed
                      /\ station[t].paste.decision # Unset =>
                           (station[t].paste.decision.kind \in KnownKinds =>
                              \E p \in proposed : p[2] = station[t].paste.decision.words)
    BY DEF KnownWasProposed
  <2>1. CheckKnown(proposed, station[t].check) /\ PasteKnown(proposed, station[t].paste)
    BY DEF KnownInv, TabKnown
  <2> QED
    BY <2>1 DEF CheckKnown, PasteKnown, ItemKnown
<1> QED
  BY <1>1, <1>2, KnownStep, PTL

-----------------------------------------------------------------------------
(* The references of a draft.                                               *)

Citable(u) == Recorded[u] \cup {Quoted[u][q] : q \in DOMAIN Quoted[u]}

(* What the guard has come to after n citations.                            *)
Judged(u, sofar, n) ==
  /\ IsList(sofar.verified) /\ sofar.dropped \in Nat
  /\ Len(sofar.verified) + sofar.dropped = n
  /\ \A i \in DOMAIN sofar.verified :
        sofar.verified[i] \in Citable(u) /\ sofar.verified[i] \in sofar.seen
  /\ \A i, j \in DOMAIN sofar.verified : sofar.verified[i] = sofar.verified[j] => i = j

LEMMA OneMoreCitation ==
  ASSUME NEW u, NEW sofar, NEW n \in Nat, Judged(u, sofar, n), NEW citation
  PROVE  Judged(u, VerifyReference(u, sofar, citation), n + 1)
<1> DEFINE shown == Display(u, citation)
           v == sofar.verified
           next == VerifyReference(u, sofar, citation)
           out == citation \in sofar.seen \/ Len(v) >= MaxReferences \/ shown = Absent \/ shown \in sofar.seen
<1>1. next = IF out THEN [verified |-> v, seen |-> sofar.seen, dropped |-> sofar.dropped + 1]
             ELSE [verified |-> Append(v, shown), seen |-> sofar.seen \cup {citation, shown},
                   dropped |-> sofar.dropped]
  BY DEF VerifyReference
<1>2. shown # Absent => shown \in Citable(u)
  BY DEF Display, Citable
<1>3. /\ Len(v) \in Nat /\ DOMAIN v = 1..Len(v)
      /\ IsList(Append(v, shown)) /\ Len(Append(v, shown)) = Len(v) + 1
      /\ DOMAIN Append(v, shown) = 1..(Len(v) + 1)
      /\ \A i \in 1..Len(v) : Append(v, shown)[i] = v[i]
      /\ Append(v, shown)[Len(v) + 1] = shown
  <2>1. IsList(v)
    BY DEF Judged
  <2> HIDE DEF v, shown
  <2> QED
    BY <2>1, ListGrows
<1>4. CASE out
  <2> HIDE DEF next, out, shown
  <2>1. next.verified = v /\ next.seen = sofar.seen /\ next.dropped = sofar.dropped + 1
    BY <1>1, <1>4
  <2>2. next.dropped \in Nat /\ Len(v) + next.dropped = n + 1
    BY <1>3, <2>1 DEF Judged
  <2>3. Judged(u, next, n + 1)
    BY <2>1, <2>2 DEF Judged
  <2> QED
    BY <2>3 DEF next
<1>5. CASE ~ out
  <2>1. shown \in Citable(u) /\ shown \notin sofar.seen
    BY <1>2, <1>5
  <2> DEFINE w == Append(v, shown)
  <2> HIDE DEF next, out, shown, w
  <2>2. next.verified = w /\ next.seen = sofar.seen \cup {citation, shown} /\ next.dropped = sofar.dropped
    BY <1>1, <1>5 DEF w
  <2>3. /\ Len(v) \in Nat /\ DOMAIN v = 1..Len(v) /\ IsList(w) /\ Len(w) = Len(v) + 1
        /\ DOMAIN w = 1..(Len(v) + 1) /\ w[Len(v) + 1] = shown
        /\ \A i \in 1..Len(v) : w[i] = v[i]
    BY <1>3 DEF w
  <2>4. \A i \in DOMAIN w : i \in 1..Len(v) \/ i = Len(v) + 1
    BY <2>3
  <2>5. \A i \in 1..Len(v) : v[i] \in Citable(u) /\ v[i] \in sofar.seen
    BY <1>3 DEF Judged
  <2>6. \A i \in DOMAIN w : w[i] \in Citable(u) /\ w[i] \in next.seen
    BY <2>1, <2>2, <2>3, <2>4, <2>5
  <2>7. \A i, j \in 1..Len(v) : v[i] = v[j] => i = j
    BY <1>3 DEF Judged
  <2>8. \A i, j \in DOMAIN w : w[i] = w[j] => i = j
    BY <2>1, <2>3, <2>4, <2>5, <2>7
  <2>9. Len(w) + next.dropped = n + 1
    BY <1>3, <2>2, <2>3 DEF Judged
  <2>10. Judged(u, next, n + 1)
    BY <2>2, <2>3, <2>6, <2>8, <2>9 DEF Judged
  <2> QED
    BY <2>10 DEF next
<1> QED
  BY <1>4, <1>5

(* The loop over the citations, as the function it computes. *)
Loop(u, citations, N, f) ==
  f = [n \in 0..N |-> IF n = 0 THEN [verified |-> <<>>, seen |-> {}, dropped |-> 0]
                      ELSE VerifyReference(u, f[n - 1], citations[n])]

LEMMA LoopExists ==
  ASSUME NEW u, NEW citations, NEW N \in Nat
  PROVE  \E f : Loop(u, citations, N, f)
<1> DEFINE T == {n \in Nat : \E f : Loop(u, citations, n, f)}
           start == [verified |-> <<>>, seen |-> {}, dropped |-> 0]
<1>1. 0 \in T
  <2> DEFINE f == [n \in 0..0 |-> start]
  <2>1. f = [n \in 0..0 |-> IF n = 0 THEN start ELSE VerifyReference(u, f[n - 1], citations[n])]
    <3> HIDE DEF start
    <3> QED
      OBVIOUS
  <2>2. Loop(u, citations, 0, f)
    BY <2>1 DEF Loop
  <2> HIDE DEF f
  <2> QED
    BY <2>2
<1>2. ASSUME NEW n \in T PROVE n + 1 \in T
  <2>1. PICK f : Loop(u, citations, n, f)
    BY <1>2
  <2> DEFINE Step(m, before) == IF m = 0 THEN start ELSE VerifyReference(u, before, citations[m])
             g == [m \in 0..(n + 1) |-> IF m = n + 1 THEN Step(m, f[n]) ELSE f[m]]
  <2>2. f = [m \in 0..n |-> Step(m, f[m - 1])]
    BY <2>1 DEF Loop
  <2> HIDE DEF Step
  <2>3. n \in Nat
    OBVIOUS
  <2>4. \A m \in 0..n : g[m] = f[m] /\ f[m] = Step(m, f[m - 1])
    BY <2>2, <2>3
  <2>5. g[n + 1] = Step(n + 1, f[n])
    BY <2>3
  <2>6. ASSUME NEW m \in 0..(n + 1) PROVE g[m] = Step(m, g[m - 1])
    <3> HIDE DEF g
    <3>1. CASE m = n + 1
      <4>1. n \in 0..n /\ m - 1 = n
        BY <2>3, <3>1
      <4> QED
        BY <2>4, <2>5, <3>1, <4>1
    <3>2. CASE m # n + 1 /\ m # 0
      <4>1. m \in 0..n /\ m - 1 \in 0..n
        BY <2>3, <3>2
      <4> QED
        BY <2>4, <4>1
    <3>3. CASE m = 0
      <4>1. m \in 0..n
        BY <2>3, <3>3
      <4> QED
        BY <2>4, <3>3, <4>1 DEF Step
    <3> QED
      BY <3>1, <3>2, <3>3
  <2>7. g = [m \in 0..(n + 1) |-> g[m]]
    OBVIOUS
  <2>8. g = [m \in 0..(n + 1) |-> Step(m, g[m - 1])]
    <3> HIDE DEF g
    <3> QED
      BY <2>6, <2>7
  <2> HIDE DEF g
  <2>9. Loop(u, citations, n + 1, g)
    BY <2>8 DEF Loop, Step
  <2> QED
    BY <2>3, <2>9
<1>3. T = Nat
  <2> HIDE DEF T
  <2>1. T \in SUBSET Nat
    BY DEF T
  <2> QED
    BY <1>1, <1>2, <2>1, NaturalsBySuccessor
<1> QED
  BY <1>3

LEMMA LoopJudges ==
  ASSUME NEW u, NEW citations, NEW N \in Nat, NEW f, Loop(u, citations, N, f)
  PROVE  Judged(u, f[N], N)
<1> DEFINE T == {n \in Nat : n <= N => Judged(u, f[n], n)}
           start == [verified |-> <<>>, seen |-> {}, dropped |-> 0]
<1>1. \A n \in 0..N : f[n] = IF n = 0 THEN start ELSE VerifyReference(u, f[n - 1], citations[n])
  BY DEF Loop
<1>2. 0 \in T
  <2>1. f[0] = start
    BY <1>1
  <2>2. /\ start.verified = <<>> /\ start.dropped = 0 /\ IsList(<<>>) /\ Len(<<>>) = 0
        /\ DOMAIN <<>> = {}
    BY DEF IsList
  <2> HIDE DEF start
  <2>3. Judged(u, start, 0)
    BY <2>2 DEF Judged
  <2> QED
    BY <2>1, <2>3
<1>3. ASSUME NEW n \in T PROVE n + 1 \in T
  <2>1. SUFFICES ASSUME n + 1 <= N PROVE Judged(u, f[n + 1], n + 1)
    BY <1>3
  <2>2. n \in Nat /\ n <= N /\ n + 1 \in 0..N /\ n + 1 # 0 /\ (n + 1) - 1 = n
    BY <2>1
  <2>3. Judged(u, f[n], n)
    BY <1>3, <2>2
  <2>4. f[n + 1] = VerifyReference(u, f[n], citations[n + 1])
    BY <1>1, <2>2
  <2> QED
    BY <2>2, <2>3, <2>4, OneMoreCitation
<1>4. T = Nat
  <2> HIDE DEF T
  <2>1. T \in SUBSET Nat
    BY DEF T
  <2> QED
    BY <1>2, <1>3, <2>1, NaturalsBySuccessor
<1>5. N \in T
  BY <1>4
<1> QED
  BY <1>5

(* aiSourceReferenceGuard.ts:157-217.  However many citations there are, a  *)
(* reference that is passed on is on record or quoted, none twice, and what *)
(* is passed on and what is dropped make up what was cited.                 *)
LEMMA ReferencesAreJudged ==
  ASSUME NEW u, NEW citations, Len(citations) \in Nat
  PROVE  Judged(u, VerifySourceReferences(u, citations), Len(citations))
<1> DEFINE N == Len(citations)
           after == CHOOSE f : Loop(u, citations, N, f)
<1>1. VerifySourceReferences(u, citations) = after[N]
  BY DEF VerifySourceReferences, Loop
<1>2. Loop(u, citations, N, after)
  BY LoopExists
<1> HIDE DEF after
<1> QED
  BY <1>1, <1>2, LoopJudges

LEMMA NoneTwice ==
  ASSUME NEW q, IsList(q), \A i, j \in DOMAIN q : q[i] = q[j] => i = j
  PROVE  Cardinality(ToSet(q)) = Len(q)
<1> DEFINE D == 1..Len(q)
<1>1. Len(q) \in Nat /\ DOMAIN q = D
  <2>1. PICK R : q \in Seq(R)
    BY DEF IsList
  <2> QED
    BY <2>1
<1>2. ToSet(q) = {q[i] : i \in D}
  BY <1>1 DEF ToSet
<1>3. IsFiniteSet(D) /\ Cardinality(D) = Len(q)
  <2>1. 1 \in Int /\ Len(q) \in Int
    BY <1>1
  <2>2. IsFiniteSet(D) /\ Cardinality(D) = IF 1 > Len(q) THEN 0 ELSE Len(q) - 1 + 1
    BY <2>1, FS_Interval
  <2> QED
    BY <1>1, <2>2
<1> DEFINE f == [i \in D |-> q[i]]
<1>4. f \in Bijection(D, ToSet(q))
  <2>1. f \in [D -> ToSet(q)]
    BY <1>2
  <2>2. IsInjective(f)
    BY <1>1 DEF IsInjective
  <2>3. \A t \in ToSet(q) : \E i \in D : f[i] = t
    BY <1>2
  <2> QED
    BY <2>1, <2>2, <2>3 DEF Bijection, Injection, Surjection
<1>5. ExistsBijection(D, ToSet(q))
  BY <1>4 DEF ExistsBijection
<1> HIDE DEF D
<1>6. Cardinality(ToSet(q)) = Cardinality(D)
  BY <1>3, <1>5, FS_Bijection
<1> QED
  BY <1>3, <1>6

-----------------------------------------------------------------------------
(* A draft that passes the guards.                                          *)

WellWorded(sections) ==
  \A text \in {sections.summary, FlattenSeq(sections.questions)} :
     \A i \in DOMAIN text : text[i] = "claim" => Denied(text, i)
Sourced(u, draft) ==
  /\ WellWorded(draft.sections)
  /\ \A n \in DOMAIN draft.references : draft.references[n] \in Citable(u)
  /\ Cardinality(ToSet(draft.references)) = Len(draft.references)
  /\ Len(draft.references) + draft.dropped = Len(draft.sections.citations)
WasFit(row) == row.status = "new" /\ row.evidence = "some" /\ row.url.host = "other"

(* aiComplianceGuard.ts:95-127.  A claim that the guard lets pass has a      *)
(* negation or a condition before it in its clause.                         *)
LEMMA GuardedIsDenied ==
  ASSUME NEW text, IsText(text), GuardAiDraftedText(text), NEW i \in DOMAIN text, text[i] = "claim"
  PROVE  Denied(text, i)
<1>1. i \in Nat
  BY DEF IsText
<1>2. IsNegatedContext(text, i)
  BY DEF GuardAiDraftedText
<1>3. PICK j \in Clause(text, i) : text[j] \in {"no", "if"}
  <2>1. CASE \E j \in Clause(text, i) : text[j] = "if"
    BY <2>1
  <2>2. CASE Cardinality(Negations(text, i)) % 2 = 1
    <3>1. Negations(text, i) # {}
      <4> SUFFICES ASSUME Negations(text, i) = {} PROVE FALSE
        OBVIOUS
      <4>1. Cardinality(Negations(text, i)) = 0
        BY FS_EmptySet
      <4> QED
        BY <2>2, <4>1
    <3> QED
      BY <3>1 DEF Negations
  <2> QED
    BY <1>2, <2>1, <2>2 DEF IsNegatedContext
<1>4. j \in 1..(i - 1) /\ \A k \in j..(i - 1) : text[k] # "stop"
  BY <1>3 DEF Clause
<1>5. ASSUME NEW k \in j..i PROVE text[k] # "stop"
  <2>1. k = i \/ k \in j..(i - 1)
    BY <1>1, <1>4, <1>5
  <2> QED
    BY <1>4, <2>1
<1> QED
  BY <1>3, <1>4, <1>5 DEF Denied

(* What the function answers with a draft is sourced.                       *)
LEMMA GeneratedIsSourced ==
  ASSUME NEW u, NEW reply \in Replies, GenerateAiDraftSummary(u, reply).ok
  PROVE  Sourced(u, GenerateAiDraftSummary(u, reply))
<1> DEFINE sections == ParseModelJson(reply)
           checked == Screened(sections)
           refs == VerifySourceReferences(u, sections.citations)
           answer == GenerateAiDraftSummary(u, reply)
<1>1. answer = IF reply.http # "ok" THEN Failed(ProviderFailure(reply.http))
               ELSE IF checked # "ok" THEN Failed(checked)
               ELSE [ok |-> TRUE, sections |-> sections, references |-> refs.verified,
                     dropped |-> refs.dropped]
  BY DEF GenerateAiDraftSummary
<1>2. \A code : Failed(code).ok = FALSE
  BY DEF Failed
<1> HIDE DEF answer, checked, refs, sections
<1>3. reply.http = "ok" /\ checked = "ok"
  BY <1>1, <1>2 DEF answer
<1>4. answer.sections = sections /\ answer.references = refs.verified /\ answer.dropped = refs.dropped
  BY <1>1, <1>3
<1>5. sections # Absent /\ GuardAiDraftedFields(sections)
  BY <1>3 DEF checked, Screened, IsSectionsShape
<1>6. reply.form \in {"object", "fenced object"} /\ sections = reply.sections
  BY <1>5 DEF sections, ParseModelJson
<1>7. IsText(sections.summary) /\ IsText(FlattenSeq(sections.questions)) /\ IsText(sections.citations)
  BY <1>3, <1>6, DraftsAssumption
<1>8. WellWorded(sections)
  <2>1. GuardAiDraftedText(sections.summary) /\ GuardAiDraftedText(FlattenSeq(sections.questions))
    BY <1>5 DEF GuardAiDraftedFields
  <2> QED
    BY <1>7, <2>1, GuardedIsDenied DEF WellWorded
<1>9. Judged(u, refs, Len(sections.citations))
  BY <1>7, ReferencesAreJudged DEF refs, IsText
<1>10. Cardinality(ToSet(refs.verified)) = Len(refs.verified)
  BY <1>9, NoneTwice DEF Judged
<1>11. Sourced(u, answer)
  BY <1>4, <1>8, <1>9, <1>10 DEF Sourced, Judged
<1> QED
  BY <1>11 DEF answer

-----------------------------------------------------------------------------
(* The requests.                                                            *)

IsUpdate(row) ==
  /\ row = [status |-> row.status, url |-> row.url, evidence |-> row.evidence,
            longTitle |-> row.longTitle]
  /\ row.url.host \in {"approved", "subdomain", "other"}
  /\ row.evidence \in {"blank", "some", "oversized"}

(* What is known of a reviewer's page and of the call from it.              *)
CallKnows(q, panel, row) ==
  /\ q.step # "idle" => panel.busy /\ panel.draft = Absent
  /\ q.step = "asking" => WasFit(row)
  /\ q.step = "answered" /\ q.answer.ok => WasFit(row) /\ Sourced(q.of, q.answer)
  /\ panel.draft # Absent => WasFit(row) /\ Sourced(panel.draft.of, panel.draft)
DraftsInv ==
  /\ DOMAIN onRecord = Updates /\ \A u \in Updates : IsUpdate(onRecord[u])
  /\ onRecord = [u \in Updates |-> onRecord[u]]
  /\ desk = [r \in Reviewers |-> desk[r]] /\ request = [r \in Reviewers |-> request[r]]
  /\ reached = [r \in Reviewers |-> reached[r]]
  /\ \A r \in Reviewers : request[r].step # "idle" => request[r].of \in Updates
  /\ \A r \in Reviewers : CallKnows(request[r], desk[r], reached[r])

LEMMA DraftsInvImplies == DraftsInv => ShownDraftIsGuarded
  BY DEF DraftsInv, ShownDraftIsGuarded, CallKnows, ShownDraft, WasFit, Sourced, WellWorded, Citable

(* watchtower's gate: what it lets pass is new, has evidence and is not      *)
(* Cannamonitor's.                                                          *)
LEMMA AllowedIsFit ==
  ASSUME NEW row, IsUpdate(row), Guard(row) = "allow"
  PROVE  WasFit(row)
<1>1. ~ AiGateBlocked(row.url) /\ row.status = "new" /\ row.evidence # "blank" /\ row.evidence # "oversized"
  BY DEF Guard
<1>2. EvaluateCannamonitorPolicy(row.url, FALSE) = "allowed"
  BY <1>1 DEF AiGateBlocked
<1>3. ~ IsCannamonitorSourceUrl(row.url)
  BY <1>2 DEF EvaluateCannamonitorPolicy
<1> QED
  BY <1>1, <1>3 DEF WasFit, IsUpdate, IsCannamonitorSourceUrl

(* A step of one reviewer leaves the others as they are. *)
LEMMA OneReviewer ==
  ASSUME DraftsInv, UNCHANGED onRecord, NEW r \in Reviewers,
         NEW panel, NEW q, NEW row,
         desk' = [desk EXCEPT ![r] = panel], request' = [request EXCEPT ![r] = q],
         reached' = [reached EXCEPT ![r] = row],
         q.step # "idle" => q.of \in Updates, CallKnows(q, panel, row)
  PROVE  DraftsInv'
<1>1. /\ desk' = [x \in Reviewers |-> IF x = r THEN panel ELSE desk[x]]
      /\ request' = [x \in Reviewers |-> IF x = r THEN q ELSE request[x]]
      /\ reached' = [x \in Reviewers |-> IF x = r THEN row ELSE reached[x]]
  BY DEF DraftsInv
<1>2. /\ desk' = [x \in Reviewers |-> desk'[x]] /\ request' = [x \in Reviewers |-> request'[x]]
      /\ reached' = [x \in Reviewers |-> reached'[x]]
  BY <1>1
<1>3. \A x \in Reviewers : CallKnows(request'[x], desk'[x], reached'[x])
  BY <1>1 DEF DraftsInv
<1>4. \A x \in Reviewers : request'[x].step # "idle" => request'[x].of \in Updates
  BY <1>1 DEF DraftsInv
<1> QED
  BY <1>2, <1>3, <1>4 DEF DraftsInv, Updates

LEMMA Unmoved ==
  ASSUME DraftsInv, NEW r \in Reviewers
  PROVE  /\ desk = [desk EXCEPT ![r] = desk[r]] /\ request = [request EXCEPT ![r] = request[r]]
         /\ reached = [reached EXCEPT ![r] = reached[r]]
BY DEF DraftsInv

LEMMA FailedIsNoDraft == \A code : Failed(code).ok = FALSE
BY DEF Failed

(* What comes of a call, when it is no draft or one that is sourced.        *)
LEMMA Concluded ==
  ASSUME DraftsInv, NEW r \in Reviewers, NEW outcome, Conclude(r, outcome),
         UNCHANGED <<onRecord, reached>>,
         outcome.ok => WasFit(reached[r]) /\ Sourced(request[r].of, outcome)
  PROVE  DraftsInv'
<1> DEFINE u == request[r].of
           stays == outcome.ok /\ desk[r].wanted = u
           draft == [of |-> u, sections |-> outcome.sections, references |-> outcome.references,
                     dropped |-> outcome.dropped]
           said == IF outcome.ok THEN "stale_selection" ELSE outcome.code
           panel == [rows |-> desk[r].rows, busy |-> FALSE, told |-> Absent,
                    draft |-> draft, wanted |-> desk[r].wanted]
           bare == [rows |-> desk[r].rows, busy |-> FALSE, told |-> said,
                    draft |-> Absent, wanted |-> desk[r].wanted]
<1>1. /\ request' = [request EXCEPT ![r] = NoRequest]
      /\ desk' = [desk EXCEPT ![r] = panel] \/ desk' = [desk EXCEPT ![r] = bare]
      /\ stays \/ desk' = [desk EXCEPT ![r] = bare]
  BY DEF Conclude, Panel
<1>2. NoRequest.step = "idle"
  BY DEF NoRequest
<1>3. reached' = [reached EXCEPT ![r] = reached[r]]
  BY Unmoved
<1>4. CASE desk' = [desk EXCEPT ![r] = bare]
  <2> HIDE DEF said
  <2>1. bare.draft = Absent
    OBVIOUS
  <2> HIDE DEF bare
  <2>2. CallKnows(NoRequest, bare, reached[r])
    BY <1>2, <2>1 DEF CallKnows
  <2> QED
    BY <1>1, <1>2, <1>3, <1>4, <2>2, OneReviewer
<1>5. CASE stays /\ desk' = [desk EXCEPT ![r] = panel]
  <2>1. panel.draft = draft
    OBVIOUS
  <2>2. /\ draft.of = u /\ draft.sections = outcome.sections
        /\ draft.references = outcome.references /\ draft.dropped = outcome.dropped
    OBVIOUS
  <2>3. WasFit(reached[r]) /\ Sourced(u, outcome)
    BY <1>5
  <2> HIDE DEF draft, panel
  <2>4. Sourced(draft.of, draft)
    BY <2>2, <2>3 DEF Sourced
  <2>5. CallKnows(NoRequest, panel, reached[r])
    BY <1>2, <2>1, <2>3, <2>4 DEF CallKnows
  <2> QED
    BY <1>1, <1>2, <1>3, <1>5, <2>5, OneReviewer
<1> QED
  BY <1>1, <1>4, <1>5

(* A call that waits for its next answer, with what is known of it by then. *)
LEMMA Waited ==
  ASSUME DraftsInv, NEW r \in Reviewers, request[r].step # "idle",
         NEW step, NEW answer, Waits(r, step, request[r].of, answer),
         UNCHANGED <<onRecord, desk>>, NEW row, reached' = [reached EXCEPT ![r] = row],
         step \in {"admitted", "asking", "answered"},
         step = "asking" => WasFit(row),
         step = "answered" /\ answer.ok => WasFit(row) /\ Sourced(request[r].of, answer)
  PROVE  DraftsInv'
<1> DEFINE q == [step |-> step, of |-> request[r].of, answer |-> answer]
<1>1. request' = [request EXCEPT ![r] = q]
  BY DEF Waits
<1>2. q.step = step /\ q.of = request[r].of /\ q.answer = answer
  OBVIOUS
<1> HIDE DEF q
<1>3. desk' = [desk EXCEPT ![r] = desk[r]]
  BY Unmoved
<1>4. desk[r].busy /\ desk[r].draft = Absent /\ request[r].of \in Updates
  BY DEF DraftsInv, CallKnows
<1>5. CallKnows(q, desk[r], row)
  BY <1>2, <1>4 DEF CallKnows
<1> QED
  BY <1>1, <1>2, <1>3, <1>4, <1>5, OneReviewer

LEMMA Refused ==
  ASSUME DraftsInv, NEW r \in Reviewers, request[r].step # "idle", NEW code,
         Waits(r, "answered", request[r].of, Failed(code)), UNCHANGED <<onRecord, desk, reached>>
  PROVE  DraftsInv'
<1> DEFINE answer == Failed(code)
           step == "answered"
<1>1. answer.ok = FALSE
  BY FailedIsNoDraft
<1>2. Waits(r, step, request[r].of, answer) /\ step \in {"admitted", "asking", "answered"}
      /\ step # "asking"
  OBVIOUS
<1>3. reached' = [reached EXCEPT ![r] = reached[r]]
  BY Unmoved
<1> HIDE DEF answer, step
<1> QED
  BY <1>1, <1>2, <1>3, Waited

LEMMA DraftsStep == DraftsInv /\ [DraftsNext]_draftVars => DraftsInv'
<1> SUFFICES ASSUME DraftsInv, [DraftsNext]_draftVars PROVE DraftsInv'
  OBVIOUS
<1>1. CASE UNCHANGED draftVars
  BY <1>1 DEF draftVars, DraftsInv, Updates
<1>2. ASSUME NEW r \in Reviewers, HandleDiscardAiDraft(r) PROVE DraftsInv'
  <2> DEFINE panel == [rows |-> desk[r].rows, busy |-> desk[r].busy, told |-> Absent,
                      draft |-> Absent, wanted |-> Absent]
  <2>1. desk' = [desk EXCEPT ![r] = panel] /\ UNCHANGED <<onRecord, request, reached>>
    BY <1>2 DEF HandleDiscardAiDraft, Panel
  <2>2. request' = [request EXCEPT ![r] = request[r]] /\ reached' = [reached EXCEPT ![r] = reached[r]]
    BY <2>1, Unmoved
  <2>3. panel.draft = Absent /\ panel.busy = desk[r].busy
    OBVIOUS
  <2> HIDE DEF panel
  <2>4. CallKnows(request[r], panel, reached[r]) /\ (request[r].step # "idle" => request[r].of \in Updates)
    BY <2>3 DEF DraftsInv, CallKnows
  <2> QED
    BY <2>1, <2>2, <2>4, OneReviewer
<1>3. ASSUME NEW r \in Reviewers, Receive(r) PROVE DraftsInv'
  <2> DEFINE outcome == Received(request[r].answer)
  <2>1. Conclude(r, outcome) /\ UNCHANGED <<onRecord, reached>> /\ request[r].step = "answered"
    BY <1>3 DEF Receive
  <2>2. outcome.ok => request[r].answer.ok /\ outcome = request[r].answer
    BY FailedIsNoDraft DEF Received
  <2> HIDE DEF outcome
  <2>3. outcome.ok => WasFit(reached[r]) /\ Sourced(request[r].of, outcome)
    BY <2>1, <2>2 DEF DraftsInv, CallKnows
  <2> QED
    BY <2>1, <2>3, Concluded
<1>4. ASSUME NEW r \in Reviewers, NetworkFails(r) PROVE DraftsInv'
  <2> DEFINE outcome == Failed("provider_error")
  <2>1. Conclude(r, outcome) /\ UNCHANGED <<onRecord, reached>> /\ outcome.ok = FALSE
    BY <1>4, FailedIsNoDraft DEF NetworkFails
  <2> HIDE DEF outcome
  <2> QED
    BY <2>1, Concluded
<1>5. ASSUME NEW r \in Reviewers, Admit(r) PROVE DraftsInv'
  <2>1. request[r].step = "sent" /\ UNCHANGED <<onRecord, desk, reached>>
    BY <1>5 DEF Admit
  <2>2. reached' = [reached EXCEPT ![r] = reached[r]]
    BY <2>1, Unmoved
  <2>3. \/ Waits(r, "admitted", request[r].of, Absent)
        \/ \E code : Waits(r, "answered", request[r].of, Failed(code))
    BY <1>5 DEF Admit, AnswerWith
  <2>4. CASE Waits(r, "admitted", request[r].of, Absent)
    <3> DEFINE step == "admitted"
    <3>1. /\ Waits(r, step, request[r].of, Absent) /\ step \in {"admitted", "asking", "answered"}
          /\ step # "asking" /\ step # "answered"
      BY <2>4
    <3>2. request[r].step # "idle" /\ UNCHANGED <<onRecord, desk>>
      BY <2>1
    <3> HIDE DEF step
    <3> QED
      BY <2>2, <3>1, <3>2, Waited
  <2>5. ASSUME NEW code, Waits(r, "answered", request[r].of, Failed(code)) PROVE DraftsInv'
    <3>1. request[r].step # "idle" /\ UNCHANGED <<onRecord, desk, reached>>
      BY <2>1
    <3> QED
      BY <2>5, <3>1, Refused
  <2> QED
    BY <2>3, <2>4, <2>5
<1>6. ASSUME NEW r \in Reviewers, ReadStored(r) PROVE DraftsInv'
  <2> DEFINE row == onRecord[request[r].of]
  <2>1. request[r].step = "admitted" /\ UNCHANGED <<onRecord, desk>>
    BY <1>6 DEF ReadStored
  <2>2. \/ /\ Guard(row) = "allow" /\ Waits(r, "asking", request[r].of, Absent)
           /\ reached' = [reached EXCEPT ![r] = row]
        \/ UNCHANGED reached /\ \E code : Waits(r, "answered", request[r].of, Failed(code))
    BY <1>6 DEF ReadStored, GetLegalUpdate, AnswerWith
  <2>3. IsUpdate(row)
    BY <2>1 DEF DraftsInv
  <2> HIDE DEF row
  <2>4. CASE /\ Guard(row) = "allow" /\ Waits(r, "asking", request[r].of, Absent)
             /\ reached' = [reached EXCEPT ![r] = row]
    <3>1. WasFit(row)
      BY <2>3, <2>4, AllowedIsFit
    <3> QED
      BY <2>1, <2>4, <3>1, Waited
  <2>5. ASSUME NEW code, Waits(r, "answered", request[r].of, Failed(code)), UNCHANGED reached
        PROVE  DraftsInv'
    <3>1. request[r].step # "idle" /\ UNCHANGED <<onRecord, desk, reached>>
      BY <2>1, <2>5
    <3> QED
      BY <2>5, <3>1, Refused
  <2> QED
    BY <2>2, <2>4, <2>5
<1>7. ASSUME NEW r \in Reviewers, DraftSummary(r) PROVE DraftsInv'
  <2>1. request[r].step = "asking" /\ UNCHANGED <<onRecord, desk, reached>>
    BY <1>7 DEF DraftSummary
  <2>2. PICK reply \in Replies :
          Waits(r, "answered", request[r].of, GenerateAiDraftSummary(request[r].of, reply))
    BY <1>7 DEF DraftSummary, AnswerWith
  <2> DEFINE answer == GenerateAiDraftSummary(request[r].of, reply)
  <2>3. answer.ok => Sourced(request[r].of, answer)
    BY GeneratedIsSourced
  <2> HIDE DEF answer
  <2>4. WasFit(reached[r])
    BY <2>1 DEF DraftsInv, CallKnows
  <2>5. reached' = [reached EXCEPT ![r] = reached[r]]
    BY <2>1, Unmoved
  <2>6. Waits(r, "answered", request[r].of, answer)
    BY <2>2 DEF answer
  <2> QED
    BY <2>1, <2>3, <2>4, <2>5, <2>6, Waited
<1>8. ASSUME NEW r \in Reviewers, NEW u \in Updates, Generate(r, u) PROVE DraftsInv'
  <2> DEFINE panel == [rows |-> desk[r].rows, busy |-> TRUE, told |-> Absent,
                      draft |-> Absent, wanted |-> u]
             q == [step |-> "sent", of |-> u, answer |-> Absent]
  <2>1. /\ desk' = [desk EXCEPT ![r] = panel] /\ request' = [request EXCEPT ![r] = q]
        /\ reached' = [reached EXCEPT ![r] = Absent] /\ UNCHANGED onRecord
    BY <1>8 DEF Generate, Panel, Waits
  <2>2. panel.busy /\ panel.draft = Absent /\ q.step = "sent" /\ q.of = u
    OBVIOUS
  <2> HIDE DEF panel, q
  <2>3. CallKnows(q, panel, Absent)
    BY <2>2 DEF CallKnows
  <2> QED
    BY <2>1, <2>2, <2>3, OneReviewer
<1>9. ASSUME NEW r \in Reviewers, NEW u \in Updates, DecideUpdate(r, u) PROVE DraftsInv'
  <2> DEFINE row == DecidedRow(onRecord[u])
             rows == [desk[r].rows EXCEPT ![u] = DecidedRow(desk[r].rows[u])]
             panel == [desk[r] EXCEPT !.rows = rows]
  <2>1. /\ onRecord' = [onRecord EXCEPT ![u] = row] /\ desk' = [desk EXCEPT ![r] = panel]
        /\ UNCHANGED <<request, reached>>
    BY <1>9 DEF DecideUpdate
  <2>2. IsUpdate(row)
    <3> DEFINE old == onRecord[u]
    <3>1. IsUpdate(old)
      BY DEF DraftsInv
    <3> HIDE DEF old
    <3>2. [old EXCEPT !.status = "reviewed"] =
            [status |-> "reviewed", url |-> old.url, evidence |-> old.evidence, longTitle |-> old.longTitle]
      BY <3>1 DEF IsUpdate
    <3>3. IsUpdate([old EXCEPT !.status = "reviewed"])
      BY <3>1, <3>2 DEF IsUpdate
    <3> QED
      BY <3>3 DEF old, DecidedRow
  <2> HIDE DEF rows
  <2>3. panel.draft = desk[r].draft /\ panel.busy = desk[r].busy
    OBVIOUS
  <2> HIDE DEF row, panel
  <2>4. /\ DOMAIN onRecord' = Updates /\ \A v \in Updates : IsUpdate(onRecord'[v])
        /\ onRecord' = [v \in Updates |-> onRecord'[v]]
    BY <2>1, <2>2 DEF DraftsInv
  <2>5. desk' = [x \in Reviewers |-> IF x = r THEN panel ELSE desk[x]]
    BY <2>1 DEF DraftsInv
  <2>6. \A x \in Reviewers : desk'[x].draft = desk[x].draft /\ desk'[x].busy = desk[x].busy
    BY <2>3, <2>5
  <2>7. desk' = [x \in Reviewers |-> desk'[x]]
    BY <2>5
  <2>8. \A x \in Reviewers : CallKnows(request'[x], desk'[x], reached'[x])
    BY <2>1, <2>6 DEF DraftsInv, CallKnows
  <2> QED
    BY <2>1, <2>4, <2>7, <2>8 DEF DraftsInv, Updates
<1> QED
  BY <1>1, <1>2, <1>3, <1>4, <1>5, <1>6, <1>7, <1>8, <1>9 DEF DraftsNext

(* The drafts, from any updates and for any budget. *)
DraftsSpec(rows, budget) == DraftsInit(rows, budget) /\ [][DraftsNext]_draftVars

(* complianceAiSummarisation.ts:194-331, serverAiSummary.ts:459-498.  For    *)
(* any reviewers, updates and replies of the provider, and whatever fails    *)
(* or is decided meanwhile, a draft is shown only under the update it is    *)
(* about, no claim in it stands unqualified, and its references are real.   *)
THEOREM DraftsAreGuarded ==
  ASSUME NEW rows, rows = [u \in Updates |-> rows[u]], \A u \in Updates : IsUpdate(rows[u]),
         NEW budget
  PROVE  DraftsSpec(rows, budget) => []ShownDraftIsGuarded
<1>1. DraftsInit(rows, budget) => DraftsInv
  <2> SUFFICES ASSUME DraftsInit(rows, budget) PROVE DraftsInv
    OBVIOUS
  <2>1. /\ onRecord = rows /\ desk = [r \in Reviewers |-> NewDesk(rows)]
        /\ request = [r \in Reviewers |-> NoRequest] /\ reached = [r \in Reviewers |-> Absent]
    BY DEF DraftsInit
  <2>2. NewDesk(rows).draft = Absent /\ NoRequest.step = "idle"
    BY DEF NewDesk, NoRequest
  <2>3. \A r \in Reviewers : CallKnows(request[r], desk[r], reached[r]) /\ request[r].step = "idle"
    BY <2>1, <2>2 DEF CallKnows
  <2>4. /\ desk = [r \in Reviewers |-> desk[r]] /\ request = [r \in Reviewers |-> request[r]]
        /\ reached = [r \in Reviewers |-> reached[r]]
    BY <2>1
  <2>5. DOMAIN onRecord = Updates
    BY <2>1
  <2> QED
    BY <2>1, <2>3, <2>4, <2>5 DEF DraftsInv
<1> QED
  BY <1>1, DraftsStep, DraftsInvImplies, PTL DEF DraftsSpec
===============================================================================
