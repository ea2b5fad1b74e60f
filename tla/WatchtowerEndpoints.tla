------------------------ MODULE WatchtowerEndpoints ------------------------
(***************************************************************************)
(* The two server functions of the watchtower that reach out of the        *)
(* system: one retrieves the page or the feed of a registered source, one  *)
(* asks the AI provider for a summary of a legal update. Each counts its   *)
(* calls in a table both share, under a lock, before it reads what it is   *)
(* asked about; what the browser sent along is not used. The two sides     *)
(* overlap in any order, and a function may be cut off anywhere.           *)
(***************************************************************************)
EXTENDS Naturals, FiniteSets

CONSTANTS Calls,        \* identities of calls
          Callers,      \* the administrators
          Hosts, Public,\* the hosts of the network, those that resolve to public addresses
          Rules,        \* per endpoint: at most max calls per caller or overall in a window
          MaxRedirects, Void

VARIABLES clock,    \* the database's time
          attempts, \* public_intake_attempts
          stored,   \* the rows of the targets
          calls,    \* where each call has got to
          contacts, \* history: the requests that went out
          chance    \* bounds: how often each thing may still happen

endpointVars == <<clock, attempts, stored, calls, contacts, chance>>

Endpoints == {"feed-retrieve", "ai-summary"}
ASSUME RulesAssumption ==
    \A end \in Endpoints : \A rule \in Rules[end] : rule.window \in Nat /\ rule.max \in Nat

Take(what) == chance[what] > 0 /\ chance' = [chance EXCEPT ![what] = @ - 1]
NoCall == [step |-> "unsent", end |-> Void, by |-> Void, target |-> Void, at |-> 0, reserved |-> FALSE,
           url |-> Void, row |-> Void, hop |-> 0, answer |-> Void]
At(c, step) == calls[c].step = step
Answered(c, answer) == [calls EXCEPT ![c].step = "answered", ![c].answer = answer]

---------------------------------------------------------------------------
(* The table of attempts.                                                  *)

Bucket(end, by, scope) == IF scope = "client" THEN <<end, by>> ELSE <<end>>

Counted(rows, bucket, from) == Cardinality({x \in rows : x.bucket = bucket /\ x.at > from})
Since(at, window) == IF at > window THEN at - window ELSE 0

\* Mutant: the call does not count itself.
Admitted_BeforeItself(rows, c) ==
    \A rule \in Rules[calls[c].end] :
        Counted({x \in rows : x.call # c}, Bucket(calls[c].end, calls[c].by, rule.scope),
                Since(calls[c].at, rule.window)) <= rule.max

\* The rows of this call are in the table when they are counted.
Admitted(rows, c) ==
    \A rule \in Rules[calls[c].end] :
        Counted(rows, Bucket(calls[c].end, calls[c].by, rule.scope), Since(calls[c].at, rule.window)) <= rule.max

Reservation(c) ==
    {[call |-> c, at |-> calls[c].at, bucket |-> Bucket(calls[c].end, calls[c].by, scope)] :
        scope \in {"client", "global"}}

---------------------------------------------------------------------------
(* A call.                                                                 *)

\* A page asks for one summary at a time, and for one it believes undecided.
Send(c, a, t) ==
    /\ At(c, "unsent") /\ Take("send")
    /\ stored[t].end = "ai-summary" =>
           ~\E d \in Calls : calls[d].by = a /\ calls[d].end = "ai-summary" /\ calls[d].step # "answered"
    /\ calls' = [calls EXCEPT ![c] = [NoCall EXCEPT !.step = "sent", !.end = stored[t].end, !.by = a, !.target = t]]
    /\ UNCHANGED <<clock, attempts, stored, contacts>>

\* Method, token, role and body are looked at before anything is counted.
RefuseEarly(c) ==
    /\ At(c, "sent") /\ Take("refusal")
    /\ calls' = Answered(c, "refused")
    /\ UNCHANGED <<clock, attempts, stored, contacts>>

\* The transaction's time is taken before it waits for the lock.
BeginReservation(c) ==
    /\ At(c, "sent")
    /\ calls' = [calls EXCEPT ![c].step = "waiting", ![c].at = clock]
    /\ UNCHANGED <<clock, attempts, stored, contacts, chance>>

\* The attempt is recorded first and judged then; a refused one stays recorded.
ReserveSlot(c) ==
    /\ At(c, "waiting")
    /\ attempts' = attempts \cup Reservation(c)
    /\ calls' = IF Admitted(attempts', c)
                THEN [calls EXCEPT ![c].step = "admitted", ![c].reserved = TRUE]
                ELSE [Answered(c, "rate_limited") EXCEPT ![c].reserved = TRUE]
    /\ UNCHANGED <<clock, stored, contacts, chance>>

\* No answer from the table is no admission, whether the attempt was recorded or not.
ReservationFails(c) ==
    /\ At(c, "waiting") /\ Take("fault")
    /\ \E recorded \in BOOLEAN :
           /\ attempts' = IF recorded THEN attempts \cup Reservation(c) ELSE attempts
           /\ calls' = [Answered(c, "throttle_unavailable") EXCEPT ![c].reserved = recorded]
    /\ UNCHANGED <<clock, stored, contacts>>

ReadTarget(c, eligible, refusal) ==
    LET row == stored[calls[c].target] IN
    /\ At(c, "admitted")
    /\ \/ /\ eligible /\ chance' = chance
          /\ calls' = [calls EXCEPT ![c].step = "calling", ![c].row = row,
                                    ![c].url = [host |-> row.host, https |-> row.https]]
       \/ ~eligible /\ chance' = chance /\ calls' = Answered(c, refusal)
       \/ Take("fault") /\ calls' = Answered(c, "unreadable")
    /\ UNCHANGED <<clock, attempts, stored, contacts>>

\* An inactive source is not retrieved.
ReadSource(c) ==
    /\ calls[c].end = "feed-retrieve"
    /\ ReadTarget(c, stored[calls[c].target].ready, "source_disabled")

\* A decided update is not summarised: the row says so, not what the browser sent.
Undecided(row) == row.ready
ReadUpdate(c) ==
    /\ calls[c].end = "ai-summary"
    /\ ReadTarget(c, Undecided(stored[calls[c].target]), "unsupported_status")

AskProvider(c) ==
    /\ At(c, "calling") /\ calls[c].end = "ai-summary"
    /\ contacts' = contacts \cup {[call |-> c, hop |-> 0, url |-> calls[c].url, row |-> calls[c].row]}
    /\ \/ calls' = Answered(c, "draft") /\ chance' = chance
       \/ calls' = Answered(c, "provider_failed") /\ Take("fault")
    /\ UNCHANGED <<clock, attempts, stored>>

\* Every address of the chain: encrypted and of the registered host, and that host
\* resolved to the public network.
ResolvesPublicly(host) == host \in Public
Allowed(c, url) == url.https /\ url.host = calls[c].row.host /\ ResolvesPublicly(url.host)

\* One request of the chain. A redirect beyond the last hop is not looked at any more.
Fetch(c) ==
    /\ At(c, "calling") /\ calls[c].end = "feed-retrieve"
    /\ IF ~Allowed(c, calls[c].url)
       THEN calls' = Answered(c, "rejected") /\ UNCHANGED <<contacts, chance>>
       ELSE /\ contacts' = contacts \cup {[call |-> c, hop |-> calls[c].hop, url |-> calls[c].url,
                                           row |-> calls[c].row]}
            /\ \/ calls' = Answered(c, "retrieved") /\ chance' = chance
               \/ calls' = Answered(c, "source_failed") /\ Take("fault")
               \/ \E url \in [host : Hosts, https : BOOLEAN] :
                     /\ Take("redirect")
                     /\ calls' = IF calls[c].hop = MaxRedirects THEN Answered(c, "too_many_redirects")
                                 ELSE [calls EXCEPT ![c].url = url, ![c].hop = @ + 1]
    /\ UNCHANGED <<clock, attempts, stored>>

\* The function reaches its time limit.
CutOff(c) ==
    /\ calls[c].step \notin {"unsent", "answered"} /\ Take("cut")
    /\ calls' = Answered(c, "cut_off")
    /\ UNCHANGED <<clock, attempts, stored, contacts>>

---------------------------------------------------------------------------
(* The world around.                                                       *)

Tick == Take("tick") /\ clock' = clock + 1 /\ UNCHANGED <<attempts, stored, calls, contacts>>

\* A source is deactivated, an update is decided.
Settle(t) ==
    /\ stored[t].ready /\ Take("settle")
    /\ stored' = [stored EXCEPT ![t].ready = FALSE]
    /\ UNCHANGED <<clock, attempts, calls, contacts>>

EndpointsInit(rows, budget) ==
    /\ clock = 1 /\ attempts = {} /\ stored = rows /\ contacts = {} /\ chance = budget
    /\ calls = [c \in Calls |-> NoCall]

Serve(c) ==
    \/ \E a \in Callers, t \in DOMAIN stored : Send(c, a, t)
    \/ RefuseEarly(c) \/ BeginReservation(c) \/ ReserveSlot(c) \/ ReservationFails(c)
    \/ ReadSource(c) \/ ReadUpdate(c) \/ AskProvider(c) \/ Fetch(c) \/ CutOff(c)
EndpointsNext == (\E c \in Calls : Serve(c)) \/ (\E t \in DOMAIN stored : Settle(t)) \/ Tick

---------------------------------------------------------------------------
(* Properties.                                                             *)

\* The calls of an endpoint and caller whose transactions began in a window.
Under(rule, end, a, last) ==
    {c \in Calls : /\ calls[c].end = end /\ (rule.scope = "client" => calls[c].by = a)
                   /\ calls[c].reserved /\ calls[c].at \in (Since(last, rule.window) + 1)..last}

\* In no window do more calls of an administrator, or of all of them, reach
\* the provider or a source than the endpoint's ceiling, although calls of all
\* of them overlap and the lock serves them out of the order of their times
\* (migration 36:218, serverAiSummaryThrottle.ts:59).
CallsWithinCeiling ==
    \A end \in Endpoints, a \in Callers, last \in 1..clock : \A rule \in Rules[end] :
        Cardinality({c \in Under(rule, end, a, last) : \E x \in contacts : x.call = c}) <= rule.max

=============================================================================
