------------------------- MODULE DestinationRulesets -------------------------
(***************************************************************************)
(* public.destination_rulesets of 41_EFFECTIVE_DATED_RULESETS_HARDENING,   *)
(* for one market and regime.  Administrators INSERT, UPDATE and DELETE    *)
(* rulesets, each statement a transaction.  The overlap trigger reads what *)
(* is committed and locks nothing; the unique indexes also see what other  *)
(* transactions have written and wait for their outcome.                   *)
(***************************************************************************)
EXTENDS Naturals

CONSTANTS Sessions,   \* administrators' connections
          Versions,   \* the version column, UNIQUE within market and regime
          Days,       \* bound: the dates of the model
          OpenEnd,    \* effective_to IS NULL
          Absent      \* no row of that version

ASSUME RulesetAssumption ==
  /\ Days \subseteq Nat
  /\ OpenEnd \notin Nat
  /\ Absent \notin [from : Nat, to : Nat \cup {OpenEnd}]

VARIABLES
  rulesets,  \* rulesets[v]: the committed range of version v, or Absent
  write,     \* write[s]: the statement session s is executing
  basis      \* history: basis[v], the table the trigger saw for row v

rulesetVars == <<rulesets, write, basis>>

AnyRange == [from : Days, to : Days \cup {OpenEnd}]

(* destination_rulesets_range_valid *)
ValidRanges == {r \in AnyRange : r.to # OpenEnd => r.to > r.from}

Covers(r, day) == r # Absent /\ r.from <= day /\ (r.to = OpenEnd \/ day < r.to)

Overlap_Closed(q, r) ==
  /\ q.to # OpenEnd /\ r.to # OpenEnd
  /\ q.from < r.to /\ r.from < q.to

(* Both ranges are half open: meeting end to end is no overlap. *)
Overlap(q, r) ==
  (r.to = OpenEnd \/ q.from < r.to) /\ (q.to = OpenEnd \/ r.from < q.to)

IsOpen(r) == r # Absent /\ r.to = OpenEnd

(* The rows among which destination_ruleset_in_force takes one for a day. *)
InForce(day) == {v \in Versions : Covers(rulesets[v], day)}
-----------------------------------------------------------------------------
NoWrite == [stage |-> "idle"]
NothingSeen == [v \in Versions |-> Absent]

RulesetsInit ==
  /\ rulesets = [v \in Versions |-> Absent]
  /\ write = [s \in Sessions |-> NoWrite]
  /\ basis = [v \in Versions |-> NothingSeen]

Busy(s) == write[s].stage # "idle"
Written(s) == write[s].stage = "written"

(* An UPDATE or DELETE first waits for the lock of a row that exists. *)
RowIsFree(v) ==
  \A t \in Sessions : Busy(t) => write[t].version # v \/ write[t].insert

BeginWrite(s, v, r) ==
  /\ ~Busy(s)
  /\ RowIsFree(v)
  /\ write' = [write EXCEPT ![s] = [stage |-> "started", version |-> v, range |-> r,
                                    insert |-> rulesets[v] = Absent,
                                    saw |-> NothingSeen]]
  /\ UNCHANGED <<rulesets, basis>>

Conflicts(s) ==
  \E v \in Versions \ {write[s].version} :
    rulesets[v] # Absent /\ Overlap(rulesets[v], write[s].range)

(* fn_reject_overlapping_destination_ruleset, one SELECT of the other rows. *)
CheckOverlap(s) ==
  /\ write[s].stage = "started"
  /\ ~Conflicts(s)
  /\ write' = [write EXCEPT ![s].stage = "checked",
                            ![s].saw = [rulesets EXCEPT ![write[s].version] = Absent]]
  /\ UNCHANGED <<rulesets, basis>>

(* Refused by the trigger, by the CHECK or by an index, or aborted. *)
Fail(s) ==
  /\ Busy(s)
  /\ write' = [write EXCEPT ![s] = NoWrite]
  /\ UNCHANGED <<rulesets, basis>>

(* Another transaction whose outcome decides whether s breaks an index. *)
MustWaitFor(s, t) ==
  /\ t # s /\ Written(t)
  /\ \/ write[t].version = write[s].version
     \/ /\ IsOpen(write[s].range)
        /\ IsOpen(write[t].range) \/ IsOpen(rulesets[write[t].version])

(* UNIQUE (country_code, regime, version), uq_destination_rulesets_one_current *)
IndexesAdmit(s) ==
  /\ \A t \in Sessions : ~MustWaitFor(s, t)
  /\ write[s].insert => rulesets[write[s].version] = Absent
  /\ IsOpen(write[s].range) =>
       \A v \in Versions \ {write[s].version} : ~IsOpen(rulesets[v])

Write(s) ==
  /\ write[s].stage = "checked"
  /\ write[s].range \in ValidRanges
  /\ IndexesAdmit(s)
  /\ write' = [write EXCEPT ![s].stage = "written"]
  /\ UNCHANGED <<rulesets, basis>>

CommitWrite(s) ==
  /\ Written(s)
  /\ rulesets' = [rulesets EXCEPT ![write[s].version] = write[s].range]
  /\ basis' = [basis EXCEPT ![write[s].version] = write[s].saw]
  /\ write' = [write EXCEPT ![s] = NoWrite]

Delete(v) ==
  /\ rulesets[v] # Absent
  /\ RowIsFree(v)
  /\ rulesets' = [rulesets EXCEPT ![v] = Absent]
  /\ basis' = [basis EXCEPT ![v] = NothingSeen]
  /\ UNCHANGED write

RulesetsNext ==
  \/ \E s \in Sessions :
       \/ \E v \in Versions, r \in AnyRange : BeginWrite(s, v, r)
       \/ CheckOverlap(s) \/ Write(s) \/ CommitWrite(s) \/ Fail(s)
  \/ \E v \in Versions : Delete(v)

RulesetsSpec == RulesetsInit /\ [][RulesetsNext]_rulesetVars
-----------------------------------------------------------------------------
(* Properties.                                                             *)

(* 41:150-160.  The one way to two rulesets on a day is the race the       *)
(* comment admits: neither trigger can have seen the row of the other.     *)
AmbiguousOnlyByRace ==
  \A v, w \in Versions :
    /\ v # w
    /\ \E day \in Days : {v, w} \subseteq InForce(day)
    => basis[v][w] # rulesets[w] /\ basis[w][v] # rulesets[v]
=============================================================================
