--------------------------- MODULE FrontOfficeProofs ---------------------------
(***************************************************************************)
(* Theorems about the front office. The buyer packs, for any               *)
(* administrators, decisions and laboratory results: a pack rests on what  *)
(* stood, what goes out was cleared. The supplier enquiries, for any       *)
(* visitors, addresses, calls and organisations: an enquiry that was       *)
(* confirmed is in the queue, what an answer says was done is done, and    *)
(* only buyers are members of buyer organisations. The operations desk,    *)
(* for any farms and batches: what waits all the while is on it.           *)
(***************************************************************************)
EXTENDS BuyerPacks, SupplierOnboarding, OperationsDesk, FiniteSetTheorems, TLAPS

---------------------------------------------------------------------------
(* The buyer packs.                                                        *)

Evident == {"progress", "clean"}
RiskRow == [id : {RiskId(of) : of \in Results}, of : Results, status : RiskStatuses]
Snapshot == [version : Nat, prev : Nat, by : Admins, basis : SUBSET Evident]
ServerRow == [tables : SUBSET Tables, lab : Results, rule : {"draft", "in force"},
              alert : {"open", "resolved"}, log : Seq(Decisions), risks : Seq(RiskRow),
              req : Evidence \cup {None}, packs : Seq(Snapshot)]
JobRow == [kind : {"none", "decide", "risk", "req", "issue"},
           stage : {"none", "sent", "stored", "reread", "call", "decided", "checked"},
           val : Decisions \cup RiskRow \cup Evidence \cup {None}, here : BOOLEAN]

(* A press carries what its table takes. *)
Fits(j) ==
  /\ j.kind = "decide" => j.val \in Decisions
  /\ j.kind = "risk" => j.val \in RiskRow
  /\ j.kind = "req" => j.val \in Evidence

PacksTypeOK ==
  /\ srv \in ServerRow
  /\ copy \in [Admins -> Results]
  /\ job \in [Admins -> JobRow]
  /\ \A a \in Admins : Fits(job[a])
  /\ stood \in [Admins -> SUBSET Evident]

(* What the issuing function has read was so after the press. *)
GatesWereTrue ==
  \A a \in Admins :
    /\ job[a].stage \in {"call", "decided", "checked"} => job[a].kind = "issue"
    /\ job[a].stage \in {"decided", "checked"} => "progress" \in stood[a]
    /\ job[a].stage = "checked" => "clean" \in stood[a]

(* The present is part of what stood. *)
NowStands == \A a \in Admins : job[a].kind = "issue" => Standing(srv) \subseteq stood[a]

PacksInv == PacksTypeOK /\ GatesWereTrue /\ NowStands /\ IssuedOnStandingDecision

LEMMA StandingIsEvident == ASSUME NEW s PROVE Standing(s) \subseteq Evident
BY DEF Standing, Evident

(* A step keeps the invariant when the function it advances has just read   *)
(* what it goes on with.                                                    *)
LEMMA ReadsWhatStands ==
  ASSUME PacksInv, Witnessed,
         srv' \in ServerRow, copy' \in [Admins -> Results], job' \in [Admins -> JobRow],
         \A a \in Admins :
           /\ Fits(job'[a])
           /\ job'[a].stage \in {"call", "decided", "checked"} => job'[a].kind = "issue"
           /\ job'[a].stage \in {"decided", "checked"} =>
                /\ job[a].kind = "issue"
                /\ job[a].stage \in {"decided", "checked"} \/ "progress" \in Standing(srv')
           /\ job'[a].stage = "checked" =>
                job[a].stage = "checked" \/ "clean" \in Standing(srv'),
         \A i \in DOMAIN srv'.packs : srv'.packs[i].basis = Evident
  PROVE  PacksInv'
<1>1. \A a \in Admins :
        /\ stood'[a] \in SUBSET Evident
        /\ job'[a].kind = "issue" => Standing(srv') \subseteq stood'[a]
        /\ job'[a].kind = "issue" /\ job[a].kind = "issue" => stood[a] \subseteq stood'[a]
  BY StandingIsEvident DEF Witnessed, PacksInv, PacksTypeOK
<1>2. PacksTypeOK'
  <2>1. stood' \in [Admins -> SUBSET Evident]
    BY <1>1 DEF Witnessed
  <2> QED
    BY <2>1 DEF PacksTypeOK, Fits
<1>3. GatesWereTrue'
  BY <1>1 DEF PacksInv, GatesWereTrue
<1>4. NowStands'
  <2>1. Standing(srv)' = Standing(srv')
    BY DEF Standing, Current
  <2> QED
    BY <1>1, <2>1 DEF NowStands
<1>5. IssuedOnStandingDecision'
  BY DEF IssuedOnStandingDecision, Evident
<1> QED
  BY <1>2, <1>3, <1>4, <1>5 DEF PacksInv

LEMMA PacksStand ==
  ASSUME PacksInv, srv'.packs = srv.packs
  PROVE  \A i \in DOMAIN srv'.packs : srv'.packs[i].basis = Evident
BY DEF PacksInv, IssuedOnStandingDecision, Evident

(* No press moves. *)
LEMMA NoPressMoves ==
  ASSUME PacksInv, Witnessed, UNCHANGED job,
         srv' \in ServerRow, srv'.packs = srv.packs, copy' \in [Admins -> Results]
  PROVE  PacksInv'
<1>1. job' \in [Admins -> JobRow] /\ \A a \in Admins : job'[a] = job[a] /\ Fits(job'[a])
  BY DEF PacksInv, PacksTypeOK
<1>2. \A a \in Admins :
        /\ job[a].stage \in {"call", "decided", "checked"} => job[a].kind = "issue"
        /\ job[a].stage = "checked" => job[a].stage \in {"decided", "checked"}
  BY DEF PacksInv, GatesWereTrue
<1> QED
  BY <1>1, <1>2, PacksStand, ReadsWhatStands

(* One press moves, and no snapshot is made. *)
LEMMA OnePress ==
  ASSUME PacksInv, Witnessed, NEW a \in Admins, NEW new \in JobRow, Fits(new),
         job' = [job EXCEPT ![a] = new],
         srv' \in ServerRow, srv'.packs = srv.packs, UNCHANGED copy,
         new.stage \in {"call", "decided", "checked"} => new.kind = "issue",
         new.stage \in {"decided", "checked"} =>
           /\ job[a].kind = "issue"
           /\ job[a].stage \in {"decided", "checked"} \/ "progress" \in Standing(srv'),
         new.stage = "checked" => job[a].stage = "checked" \/ "clean" \in Standing(srv')
  PROVE  PacksInv'
<1>1. job'[a] = new /\ \A b \in Admins \ {a} : job'[b] = job[b]
  BY DEF PacksInv, PacksTypeOK
<1>2. /\ job' \in [Admins -> JobRow] /\ copy' \in [Admins -> Results]
      /\ \A b \in Admins : Fits(job'[b])
  BY <1>1 DEF PacksInv, PacksTypeOK
<1>3. \A b \in Admins :
        job[b].stage \in {"call", "decided", "checked"} => job[b].kind = "issue"
  BY DEF PacksInv, GatesWereTrue
<1> QED
  BY <1>1, <1>2, <1>3, PacksStand, ReadsWhatStands

LEMMA PressTypes ==
  ASSUME PacksInv, NEW a \in Admins
  PROVE  job[a] \in JobRow /\ Fits(job[a]) /\ NoJob \in JobRow /\ Fits(NoJob)
         /\ NoJob.stage = "none"
BY DEF PacksInv, PacksTypeOK, NoJob, JobRow, Fits

(* The pages' presses. *)
LEMMA PressStep ==
  ASSUME PacksInv, Witnessed, NEW a \in Admins,
         PressDecide(a) \/ PressRisk(a) \/ PressRequirement(a) \/ PressIssue(a)
  PROVE  PacksInv'
<1>1. ASSUME NEW kind \in {"decide", "risk", "req", "issue"},
             NEW val \in Decisions \cup RiskRow \cup Evidence, Press(a, kind, val),
             kind = "decide" => val \in Decisions,
             kind = "risk" => val \in RiskRow,
             kind = "req" => val \in Evidence
      PROVE  PacksInv'
  <2> DEFINE new == [kind |-> kind, stage |-> "sent", val |-> val, here |-> TRUE]
  <2>1. new \in JobRow /\ Fits(new) /\ new.stage = "sent"
    BY <1>1 DEF JobRow, Fits
  <2>2. job' = [job EXCEPT ![a] = new] /\ UNCHANGED <<srv, copy>>
    BY <1>1 DEF Press
  <2>3. srv' \in ServerRow
    BY <2>2 DEF PacksInv, PacksTypeOK
  <2> HIDE DEF new
  <2> QED
    BY <2>1, <2>2, <2>3, OnePress
<1>2. CASE PressDecide(a)
  BY <1>1, <1>2 DEF PressDecide
<1>3. CASE PressRisk(a)
  <2>1. PICK s \in RiskStatuses :
          Press(a, "risk", [id |-> RiskId(copy[a]), of |-> copy[a], status |-> s])
    BY <1>3 DEF PressRisk
  <2> DEFINE row == [id |-> RiskId(copy[a]), of |-> copy[a], status |-> s]
  <2>2. copy[a] \in Results
    BY DEF PacksInv, PacksTypeOK
  <2>3. row \in RiskRow
    BY <2>2 DEF RiskRow
  <2> HIDE DEF row
  <2> QED
    BY <1>1, <2>1, <2>3 DEF row
<1>4. CASE PressRequirement(a)
  BY <1>1, <1>4 DEF PressRequirement
<1>5. CASE PressIssue(a)
  <2>1. Press(a, "issue", "progress")
    BY <1>5 DEF PressIssue, Eligible
  <2> QED
    BY <1>1, <2>1, TablesAssumption
<1> QED
  BY <1>2, <1>3, <1>4, <1>5

LEMMA OneRowMore ==
  ASSUME NEW S, NEW list \in Seq(S), NEW row \in S
  PROVE  /\ Append(list, row) \in Seq(S)
         /\ \A i \in DOMAIN Append(list, row) :
              \/ i \in DOMAIN list /\ Append(list, row)[i] = list[i]
              \/ Append(list, row)[i] = row
OBVIOUS

(* What a press stores is of its table, and is no snapshot. *)
LEMMA RecordedRow ==
  ASSUME PacksInv, NEW a \in Admins, job[a].kind \in {"decide", "risk", "req"}
  PROVE  Recorded(srv, job[a]) \in ServerRow /\ Recorded(srv, job[a]).packs = srv.packs
<1> DEFINE j == job[a]
<1>1. srv \in ServerRow /\ Fits(j)
  BY DEF PacksInv, PacksTypeOK
<1>2. CASE j.kind = "decide"
  <2>1. Append(srv.log, j.val) \in Seq(Decisions)
    <3>1. srv.log \in Seq(Decisions) /\ j.val \in Decisions
      BY <1>1, <1>2 DEF ServerRow, Fits
    <3> QED
      BY <3>1, OneRowMore
  <2>2. Recorded(srv, j) = [srv EXCEPT !.log = Append(srv.log, j.val)]
    BY <1>2 DEF Recorded
  <2> QED
    BY <1>1, <2>1, <2>2 DEF ServerRow
<1>3. CASE j.kind = "risk"
  <2>1. Append(srv.risks, j.val) \in Seq(RiskRow)
    <3>1. srv.risks \in Seq(RiskRow) /\ j.val \in RiskRow
      BY <1>1, <1>3 DEF ServerRow, Fits
    <3> QED
      BY <3>1, OneRowMore
  <2>2. Recorded(srv, j) = [srv EXCEPT !.risks = Append(srv.risks, j.val)]
    BY <1>3 DEF Recorded
  <2> QED
    BY <1>1, <2>1, <2>2 DEF ServerRow
<1>4. CASE j.kind = "req"
  <2>1. Recorded(srv, j) = [srv EXCEPT !.req = j.val]
    BY <1>4 DEF Recorded
  <2> QED
    BY <1>1, <1>4, <2>1 DEF ServerRow, Fits
<1> QED
  BY <1>2, <1>3, <1>4

LEMMA InsertStep ==
  ASSUME PacksInv, Witnessed, NEW a \in Admins, Insert(a)
  PROVE  PacksInv'
<1> DEFINE j == job[a]
<1>1. j \in JobRow /\ Fits(j) /\ j.stage = "sent" /\ j.kind \in {"decide", "risk", "req"}
      /\ UNCHANGED copy
  BY PressTypes DEF Insert
<1>2. srv' \in ServerRow /\ srv'.packs = srv.packs
  BY <1>1, RecordedRow DEF Insert, PacksInv, PacksTypeOK
<1>3. ASSUME NEW stage \in {"stored", "reread"}, job' = [job EXCEPT ![a] = [j EXCEPT !.stage = stage]]
      PROVE  PacksInv'
  <2> DEFINE new == [j EXCEPT !.stage = stage]
  <2>1. new \in JobRow /\ Fits(new) /\ new.stage = stage
    <3> HIDE DEF j
    <3> QED
      BY <1>1 DEF JobRow, Fits
  <2>2. job' = [job EXCEPT ![a] = new]
    BY <1>3
  <2> HIDE DEF new
  <2> QED
    BY <1>1, <1>2, <2>1, <2>2, OnePress
<1>4. CASE job' = [job EXCEPT ![a] = NoJob]
  BY <1>1, <1>2, <1>4, PressTypes, OnePress
<1>5. \/ \E stage \in {"stored", "reread"} : job' = [job EXCEPT ![a] = [j EXCEPT !.stage = stage]]
      \/ job' = [job EXCEPT ![a] = NoJob]
  BY DEF Insert, AfterError, PacksInv, PacksTypeOK
<1> QED
  BY <1>3, <1>4, <1>5

LEMMA RepliedStep ==
  ASSUME PacksInv, Witnessed, NEW a \in Admins, Replied(a)
  PROVE  PacksInv'
<1> DEFINE j == job[a]
           new == [j EXCEPT !.stage = "reread"]
<1>1. j \in JobRow /\ Fits(j) /\ UNCHANGED <<srv, copy>>
  BY PressTypes DEF Replied
<1>2. srv' \in ServerRow /\ srv'.packs = srv.packs
  BY <1>1 DEF PacksInv, PacksTypeOK
<1>3. CASE job' = [job EXCEPT ![a] = new]
  <2>1. new \in JobRow /\ Fits(new) /\ new.stage = "reread"
    <3> HIDE DEF j
    <3> QED
      BY <1>1 DEF JobRow, Fits
  <2> HIDE DEF new
  <2> QED
    BY <1>1, <1>2, <1>3, <2>1, OnePress
<1>4. CASE job' = [job EXCEPT ![a] = NoJob]
  BY <1>1, <1>2, <1>4, PressTypes, OnePress
<1>5. job' = [job EXCEPT ![a] = new] \/ job' = [job EXCEPT ![a] = NoJob]
  BY DEF Replied, AfterError, PacksInv, PacksTypeOK
<1> QED
  BY <1>3, <1>4, <1>5

(* issue_buyer_pack_snapshot (migration 29), one read after the other. *)
LEMMA IssueStep ==
  ASSUME PacksInv, Witnessed, NEW a \in Admins,
         IssueRead(a) \/ GateOnDecision(a) \/ GateOnResults(a)
  PROVE  PacksInv'
<1> DEFINE j == job[a]
<1>1. j \in JobRow /\ Fits(j) /\ UNCHANGED <<srv, copy>>
  BY PressTypes DEF IssueRead, GateOnDecision, GateOnResults
<1>2. srv' \in ServerRow /\ srv'.packs = srv.packs
  BY <1>1 DEF PacksInv, PacksTypeOK
<1>3. j.kind = "issue"
  BY DEF IssueRead, GateOnDecision, GateOnResults, PacksInv, GatesWereTrue
<1>4. ASSUME NEW stage \in {"call", "decided", "checked"},
             job' = [job EXCEPT ![a] = [j EXCEPT !.stage = stage]],
             stage \in {"decided", "checked"} =>
               j.stage \in {"decided", "checked"} \/ "progress" \in Standing(srv'),
             stage = "checked" => "clean" \in Standing(srv')
      PROVE  PacksInv'
  <2> DEFINE new == [j EXCEPT !.stage = stage]
  <2>1. new \in JobRow /\ Fits(new) /\ new.stage = stage /\ new.kind = "issue"
    <3> HIDE DEF j
    <3> QED
      BY <1>1, <1>3 DEF JobRow, Fits
  <2>2. job' = [job EXCEPT ![a] = new]
    BY <1>4
  <2> HIDE DEF new
  <2> QED
    BY <1>1, <1>2, <1>3, <1>4, <2>1, <2>2, OnePress
<1>5. CASE job' = [job EXCEPT ![a] = NoJob]
  BY <1>1, <1>2, <1>5, PressTypes, OnePress
<1>6. CASE IssueRead(a) /\ job' # [job EXCEPT ![a] = NoJob]
  <2>1. job' = [job EXCEPT ![a] = [j EXCEPT !.stage = "call"]]
    BY <1>6 DEF IssueRead, PacksInv, PacksTypeOK
  <2> QED
    BY <1>4, <2>1
<1>7. CASE GateOnDecision(a) /\ job' # [job EXCEPT ![a] = NoJob]
  <2>1. job' = [job EXCEPT ![a] = [j EXCEPT !.stage = "decided"]]
    BY <1>7 DEF GateOnDecision, PacksInv, PacksTypeOK
  <2>2. "progress" \in Standing(srv')
    BY <1>1, <1>7 DEF GateOnDecision, GateDecision, Standing
  <2> QED
    BY <1>4, <2>1, <2>2
<1>8. CASE GateOnResults(a) /\ job' # [job EXCEPT ![a] = NoJob]
  <2>1. job' = [job EXCEPT ![a] = [j EXCEPT !.stage = "checked"]] /\ j.stage = "decided"
    BY <1>8 DEF GateOnResults, PacksInv, PacksTypeOK
  <2>2. "clean" \in Standing(srv')
    BY <1>1, <1>8 DEF GateOnResults, GateResults, Standing
  <2> QED
    BY <1>4, <2>1, <2>2
<1> QED
  BY <1>5, <1>6, <1>7, <1>8

LEMMA CommitStep ==
  ASSUME PacksInv, Witnessed, NEW a \in Admins, Commit(a)
  PROVE  PacksInv'
<1> DEFINE made == NextSnapshot(srv.packs, a, stood[a])
<1>1. /\ srv' = [srv EXCEPT !.packs = Append(srv.packs, made)]
      /\ job' = [job EXCEPT ![a] = NoJob] /\ UNCHANGED copy /\ job[a].stage = "checked"
  BY DEF Commit
<1>2. srv \in ServerRow /\ srv.packs \in Seq(Snapshot) /\ stood[a] \in SUBSET Evident
  BY DEF PacksInv, PacksTypeOK, ServerRow
<1>3. stood[a] = Evident
  BY <1>1, <1>2 DEF PacksInv, GatesWereTrue, Evident
<1>4. made \in Snapshot /\ made.basis = Evident
  BY <1>2, <1>3 DEF NextSnapshot, Snapshot
<1> HIDE DEF made
<1>5. Append(srv.packs, made) \in Seq(Snapshot)
      /\ \A i \in DOMAIN Append(srv.packs, made) :
           Append(srv.packs, made)[i].basis = Evident
  BY <1>2, <1>4, OneRowMore DEF PacksInv, IssuedOnStandingDecision, Evident
<1>6. srv' \in ServerRow /\ srv'.packs = Append(srv.packs, made)
  <2> DEFINE packs == Append(srv.packs, made)
  <2>1. packs \in Seq(Snapshot) /\ srv' = [srv EXCEPT !.packs = packs]
    BY <1>1, <1>5
  <2> HIDE DEF packs
  <2>2. srv' \in ServerRow /\ srv'.packs = packs
    BY <1>2, <2>1 DEF ServerRow
  <2> QED
    BY <2>2 DEF packs
<1>7. job'[a] = NoJob /\ \A b \in Admins \ {a} : job'[b] = job[b]
  BY <1>1 DEF PacksInv, PacksTypeOK
<1>8. /\ job' \in [Admins -> JobRow] /\ copy' \in [Admins -> Results]
      /\ \A b \in Admins : Fits(job'[b])
  BY <1>1, <1>7, PressTypes DEF PacksInv, PacksTypeOK
<1>9. \A b \in Admins \ {a} :
        job[b].stage \in {"call", "decided", "checked"} => job[b].kind = "issue"
  BY DEF PacksInv, GatesWereTrue
<1> QED
  BY <1>5, <1>6, <1>7, <1>8, <1>9, PressTypes, ReadsWhatStands

(* What pages read and others do makes no snapshot and advances none.       *)
LEMMA OtherStep ==
  ASSUME PacksInv, Witnessed,
         \/ \E a \in Admins : Open(a) \/ Refresh(a) \/ LoadRead(a) \/ LoadArrive(a)
                                \/ ReadOverrides(a) \/ ReadRules(a)
         \/ NewResult \/ RuleChanges \/ Migrate
  PROVE  PacksInv'
<1>1. srv \in ServerRow /\ copy \in [Admins -> Results] /\ srv.lab \in Results
  BY DEF PacksInv, PacksTypeOK, ServerRow
<1>2. UNCHANGED job
  BY DEF Open, Refresh, LoadRead, LoadArrive, ReadOverrides, ReadRules, NewResult,
         RuleChanges, Migrate
<1>3. copy' \in [Admins -> Results]
  BY <1>1 DEF Open, Refresh, LoadRead, LoadArrive, ReadOverrides, ReadRules, NewResult,
              RuleChanges, Migrate
<1>4. srv' \in ServerRow /\ srv'.packs = srv.packs
  <2>1. CASE NewResult
    <3>1. PICK r \in Results : srv' = [srv EXCEPT !.lab = r]
      BY <2>1 DEF NewResult
    <3> QED
      BY <1>1, <3>1 DEF ServerRow
  <2>2. CASE RuleChanges
    <3>1. \/ \E x \in {"draft", "in force"} : srv' = [srv EXCEPT !.rule = x]
          \/ \E x \in {"open", "resolved"} : srv' = [srv EXCEPT !.alert = x]
      BY <2>2 DEF RuleChanges
    <3> QED
      BY <1>1, <3>1 DEF ServerRow
  <2>3. CASE Migrate
    <3>1. PICK t \in Tables : srv' = [srv EXCEPT !.tables = srv.tables \cup {t}]
      BY <2>3 DEF Migrate
    <3>2. srv.tables \cup {t} \in SUBSET Tables
      BY <1>1 DEF ServerRow
    <3> QED
      BY <1>1, <3>1, <3>2 DEF ServerRow
  <2>4. CASE UNCHANGED srv
    BY <1>1, <2>4
  <2> QED
    BY <2>1, <2>2, <2>3, <2>4 DEF Open, Refresh, LoadRead, LoadArrive, ReadOverrides, ReadRules
<1> QED
  BY <1>2, <1>3, <1>4, NoPressMoves

(* A press ends, or loses its page. *)
LEMMA EndOfPress ==
  ASSUME PacksInv, Witnessed, NEW a \in Admins, Leave(a) \/ Reread(a) \/ SaveInBrowser(a)
  PROVE  PacksInv'
<1> DEFINE j == job[a]
           new == [j EXCEPT !.here = FALSE]
<1>1. j \in JobRow /\ Fits(j) /\ UNCHANGED <<srv, copy>>
  BY PressTypes DEF Leave, Reread, SaveInBrowser
<1>2. srv' \in ServerRow /\ srv'.packs = srv.packs
  BY <1>1 DEF PacksInv, PacksTypeOK
<1>3. CASE Leave(a)
  <2>1. new \in JobRow /\ Fits(new) /\ new.stage = j.stage /\ new.kind = j.kind
    <3> HIDE DEF j
    <3> QED
      BY <1>1 DEF JobRow, Fits
  <2>2. job' = [job EXCEPT ![a] = new]
    BY <1>3 DEF Leave, PacksInv, PacksTypeOK
  <2>3. j.stage \in {"call", "decided", "checked"} => j.kind = "issue"
    BY DEF PacksInv, GatesWereTrue
  <2> HIDE DEF new
  <2> QED
    BY <1>1, <1>2, <2>1, <2>2, <2>3, OnePress
<1>4. CASE Reread(a) \/ SaveInBrowser(a)
  <2>1. job' = [job EXCEPT ![a] = NoJob]
    BY <1>4 DEF Reread, SaveInBrowser
  <2> QED
    BY <1>1, <1>2, <2>1, PressTypes, OnePress
<1> QED
  BY <1>3, <1>4

LEMMA PacksKeep == PacksInv /\ [PacksStep]_packVars => PacksInv'
<1> SUFFICES ASSUME PacksInv, [PacksStep]_packVars
             PROVE  PacksInv'
  OBVIOUS
<1>1. CASE UNCHANGED packVars
  BY <1>1 DEF packVars, PacksInv, PacksTypeOK, Fits, GatesWereTrue, NowStands, Standing,
              Current, IssuedOnStandingDecision
<1>2. CASE PacksStep
  BY <1>2, PressStep, InsertStep, RepliedStep, IssueStep, CommitStep, OtherStep, EndOfPress
     DEF PacksStep, Step
<1> QED
  BY <1>1, <1>2

LEMMA PacksStart ==
  ASSUME NEW s \in ServerRow, s.packs = <<>>, NEW b, NEW c \in [Admins -> Results],
         NEW p, NEW l, NEW e, PacksInit(s, b, c, p, l, e)
  PROVE  PacksInv
<1>1. srv = s /\ copy = c /\ job = [a \in Admins |-> NoJob] /\ stood = [a \in Admins |-> {}]
  BY DEF PacksInit
<1>2. NoJob \in JobRow /\ Fits(NoJob) /\ NoJob.stage = "none" /\ NoJob.kind = "none"
  BY DEF NoJob, JobRow, Fits
<1>3. PacksTypeOK
  BY <1>1, <1>2 DEF PacksTypeOK
<1>4. GatesWereTrue /\ NowStands
  BY <1>1, <1>2 DEF GatesWereTrue, NowStands
<1>5. IssuedOnStandingDecision
  BY <1>1 DEF IssuedOnStandingDecision
<1> QED
  BY <1>3, <1>4, <1>5 DEF PacksInv

(* issue_buyer_pack_snapshot (migration 29).  From any records, pages and   *)
(* browser storages: every snapshot the server holds was made while, since  *)
(* its button was pressed, the newest decision had been "progress" and the  *)
(* batch clean, whatever the page had read and however many issue at once.  *)
THEOREM SnapshotsRestOnWhatStood ==
  ASSUME NEW s \in ServerRow, s.packs = <<>>, NEW b, NEW c \in [Admins -> Results],
         NEW p, NEW l, NEW e
  PROVE  PacksInit(s, b, c, p, l, e) /\ [][PacksStep]_packVars => []IssuedOnStandingDecision
<1>1. PacksInit(s, b, c, p, l, e) => PacksInv
  BY PacksStart
<1>2. PacksInv => IssuedOnStandingDecision
  BY DEF PacksInv
<1> QED
  BY <1>1, <1>2, PacksKeep, PTL
-----------------------------------------------------------------------------
(* What pages let out.                                                     *)

(* The parts a page and a browser's storage have; a rule is never in doubt. *)
IsPage(x) ==
  /\ x = [kind |-> x.kind, dec |-> x.dec, ov |-> x.ov, due |-> x.due, rules |-> x.rules]
  /\ x.rules \in {"unread", "unavailable", "blocked", "clear"}
IsStore(m) == m = [log |-> m.log, risks |-> m.risks, req |-> m.req, packs |-> m.packs]

ScreensTypeOK ==
  /\ page = [a \in Admins |-> page[a]] /\ \A a \in Admins : IsPage(page[a])
  /\ box = [a \in Admins |-> box[a]] /\ \A a \in Admins : IsStore(box[a])
  /\ load = [a \in Admins |-> load[a]]

(* What a page shows as clear was clear at some moment since it opened. *)
Shown(a) == Releases(page[a].kind) =>
  /\ page[a].dec.val = "progress" => "decision" \in seen[a]
  /\ page[a].rules = "clear" => "rules" \in seen[a]
  /\ page[a].ov.state = "read" /\ Farm(a) /\ page[a].ov.req # "rejected" =>
       "req" \in seen[a]

(* So is what a read is about to show: a row, or in its absence what the    *)
(* browser holds or a press of this browser is about to put there.         *)
Underway(a) == Releases(page[a].kind) /\ load[a].state = "read" /\ load[a].up =>
  /\ load[a].row = "progress" => "decision" \in seen[a]
  /\ load[a].row = None =>
       /\ Current(box[a].log) = "progress" => "decision" \in seen[a]
       /\ job[a].kind = "decide" /\ job[a].stage = "stored" /\ job[a].val = "progress" =>
            "decision" \in seen[a]

(* A press has been stored by the table of its kind; a decision is there.   *)
Trailed == "decisions" \in srv.tables /\ srv.log # <<>>
Stored(a) == job[a].stage = "stored" =>
  job[a].kind \in {"decide", "risk", "req"} /\ (job[a].kind = "decide" => Trailed)

ScreenInv(a) == Shown(a) /\ Underway(a) /\ Stored(a)
ScreensInv == PacksInv /\ ScreensTypeOK /\ \A a \in Admins : ScreenInv(a)

(* procurementDecisionStore.  A "progress" that resolves is one on record. *)
LEMMA DecisionWasClear ==
  ASSUME NEW s, NEW mine, NEW of, NEW farm,
         NEW ans \in Answered(s, "decisions", Current(s.log)),
         ResolveDecision(ans, Current(mine.log)).val = "progress"
  PROVE  "decision" \in ClearNow(s, mine, of, farm)
<1> DEFINE row == IF "decisions" \in s.tables THEN Current(s.log) ELSE None
           kept == Current(mine.log)
<1>1. None # "progress"
  BY TablesAssumption
<1>2. ans.up => ans.row = row
  BY DEF Answered
<1>3. (IF row # None THEN row ELSE kept) = "progress"
  <2> HIDE DEF row, kept
  <2>1. ResolveDecision(ans, kept).val = "progress"
    BY DEF kept
  <2> QED
    BY <1>1, <1>2, <2>1 DEF ResolveDecision, Unavailable
<1> QED
  BY <1>3 DEF ClearNow

(* complianceRuleEnforcement.  Rules that answer "clear" block nothing. *)
LEMMA RulesWereClear ==
  ASSUME NEW s, NEW mine, NEW of, NEW farm, NEW up, RulesAnswer(up, s) = "clear"
  PROVE  "rules" \in ClearNow(s, mine, of, farm)
BY DEF RulesAnswer, ClearNow

(* procurementOverrideStore.  Evidence that resolves is the one on record. *)
LEMMA EvidenceWasClear ==
  ASSUME NEW s, NEW mine, NEW of, NEW farm, NEW up, farm,
         ResolveOverrides(up, s, mine, of, farm).state = "read",
         ResolveOverrides(up, s, mine, of, farm).req # "rejected"
  PROVE  "req" \in ClearNow(s, mine, of, farm)
<1>1. (IF "overrides" \in s.tables /\ s.req # None THEN s.req ELSE mine.req) # "rejected"
  BY DEF ResolveOverrides, UnavailableOverrides, UnreadOverrides, NothingToAsk
<1> QED
  BY <1>1 DEF ClearNow

(* What was clear stays seen while the page is open, and what is clear after *)
(* a step is seen.                                                          *)
LEMMA SeenGrows ==
  ASSUME Witnessed, NEW a \in Admins, Releases(page'[a].kind)
  PROVE  /\ ClearNow(srv', box'[a], copy'[a], Farm(a)) \subseteq seen'[a]
         /\ Releases(page[a].kind) => \A x \in seen[a] : x # "risk" => x \in seen'[a]
<1> DEFINE clear == ClearNow(srv', box'[a], copy'[a], Farm(a))
<1>1. seen'[a] = clear \cup IF ~Releases(page[a].kind) THEN {}
                            ELSE IF copy'[a] # copy[a] THEN seen[a] \ {"risk"} ELSE seen[a]
  BY DEF Witnessed
<1> QED
  BY <1>1

(* The session's farm is not taken away, tables stay and the trail grows.   *)
LEMMA TrailGrows ==
  ASSUME PacksInv, Step
  PROVE  UNCHANGED setting /\ (Trailed => Trailed')
<1>1. UNCHANGED setting
  BY DEF Step, Open, Leave, Refresh, LoadRead, LoadArrive, ReadOverrides, ReadRules,
         PressDecide, PressRisk, PressRequirement, Press, Insert, Replied, Reread,
         PressIssue, IssueRead, SaveInBrowser, GateOnDecision, GateOnResults, Commit,
         NewResult, RuleChanges, Migrate
<1>2. srv \in ServerRow /\ srv.log \in Seq(Decisions) /\ srv.risks \in Seq(RiskRow)
  BY DEF PacksInv, PacksTypeOK, ServerRow
<1>3. ASSUME NEW a \in Admins, Insert(a), Trailed
      PROVE  Trailed'
  <2>1. CASE srv' = srv
    BY <1>3, <2>1 DEF Trailed
  <2>2. CASE srv' = Recorded(srv, job[a])
    <3>1. CASE job[a].kind = "decide"
      <4>1. srv' = [srv EXCEPT !.log = Append(srv.log, job[a].val)] /\ job[a].val \in Decisions
        BY <2>2, <3>1, PressTypes DEF Recorded, Fits
      <4>2. srv'.log = Append(srv.log, job[a].val) /\ srv'.tables = srv.tables
        BY <1>2, <4>1 DEF ServerRow
      <4> QED
        BY <1>2, <1>3, <4>1, <4>2 DEF Trailed
    <3>2. CASE job[a].kind \in {"risk", "req"}
      BY <1>2, <1>3, <2>2, <3>2 DEF Recorded, Trailed, ServerRow
    <3> QED
      BY <1>3, <3>1, <3>2 DEF Insert
  <2> QED
    BY <1>3, <2>1, <2>2 DEF Insert
<1>4. ASSUME NEW a \in Admins, Commit(a), Trailed
      PROVE  Trailed'
  BY <1>2, <1>4 DEF Commit, Trailed, ServerRow
<1>5. ASSUME NewResult \/ RuleChanges \/ Migrate, Trailed
      PROVE  Trailed'
  BY <1>2, <1>5 DEF NewResult, RuleChanges, Migrate, Trailed, ServerRow
<1>6. ASSUME NEW a \in Admins, ~Insert(a), ~Commit(a), Trailed,
             \/ Open(a) \/ Leave(a) \/ Refresh(a)
             \/ LoadRead(a) \/ LoadArrive(a) \/ ReadOverrides(a) \/ ReadRules(a)
             \/ PressDecide(a) \/ PressRisk(a) \/ PressRequirement(a)
             \/ Replied(a) \/ Reread(a)
             \/ PressIssue(a) \/ IssueRead(a) \/ SaveInBrowser(a)
             \/ GateOnDecision(a) \/ GateOnResults(a)
      PROVE  Trailed'
  <2>1. UNCHANGED srv
    BY <1>6 DEF Open, Leave, Refresh, LoadRead, LoadArrive, ReadOverrides, ReadRules,
         PressDecide, PressRisk, PressRequirement, Press, Replied, Reread,
         PressIssue, IssueRead, SaveInBrowser, GateOnDecision, GateOnResults
  <2> QED
    BY <1>6, <2>1 DEF Trailed
<1> QED
  BY <1>1, <1>3, <1>4, <1>5, <1>6 DEF Step

(* A step that shows an administrator nothing new and brings nothing to its *)
(* browser.                                                                *)
LEMMA NothingNew ==
  ASSUME PacksStep, PacksInv, NEW a \in Admins, ScreenInv(a),
         /\ page'[a].kind = page[a].kind /\ page'[a].dec = page[a].dec
         /\ page'[a].ov = page[a].ov /\ page'[a].rules = page[a].rules,
         load'[a] = load[a], box'[a].log = box[a].log,
         job'[a] = job[a] \/ job'[a].stage # "stored"
  PROVE  ScreenInv(a)'
<1>1. UNCHANGED setting /\ (Trailed => Trailed')
  BY TrailGrows DEF PacksStep
<1>2. Releases(page[a].kind) => \A x \in seen[a] : x # "risk" => x \in seen'[a]
  BY SeenGrows DEF PacksStep
<1>3. Stored(a)'
  BY <1>1 DEF ScreenInv, Stored
<1>4. Shown(a)'
  BY <1>1, <1>2 DEF ScreenInv, Shown, Farm
<1>5. Underway(a)'
  BY <1>1, <1>2 DEF ScreenInv, Underway, Current
<1> QED
  BY <1>3, <1>4, <1>5 DEF ScreenInv

(* A step of one administrator shows the others nothing new. *)
LEMMA OnlyItsScreen ==
  ASSUME ScreensInv, PacksStep, PacksInv', NEW a \in Admins, ScreensTypeOK', ScreenInv(a)',
         \A b \in Admins \ {a} : /\ page'[b] = page[b] /\ load'[b] = load[b]
                                 /\ box'[b] = box[b] /\ job'[b] = job[b]
  PROVE  ScreensInv'
<1>1. \A b \in Admins \ {a} : ScreenInv(b)'
  BY NothingNew DEF ScreensInv
<1> QED
  BY <1>1 DEF ScreensInv

(* A page opens with nothing read, or is left. *)
LEMMA PageStep ==
  ASSUME ScreensInv, PacksStep, PacksInv', NEW a \in Admins, Open(a) \/ Leave(a)
  PROVE  ScreensInv'
<1>1. PICK k : /\ page' = [page EXCEPT ![a] = [NoPage EXCEPT !.kind = k, !.due = page'[a].due]]
               /\ load'[a].state # "read"
               /\ load' = [b \in Admins |-> load'[b]] /\ UNCHANGED <<srv, box>>
               /\ \A b \in Admins \ {a} : load'[b] = load[b] /\ job'[b] = job[b]
               /\ job'[a].kind = job[a].kind /\ job'[a].stage = job[a].stage
  <2>1. CASE Open(a)
    <3>1. PICK k : /\ page' = [page EXCEPT ![a] = [NoPage EXCEPT !.kind = k, !.due = TRUE]]
                   /\ load' = [load EXCEPT ![a] = IF Releases(k) THEN [NoLoad EXCEPT !.state = "sent"]
                                                  ELSE NoLoad]
                   /\ UNCHANGED <<srv, box, job>>
      BY <2>1 DEF Open
    <3>2. page'[a] = [NoPage EXCEPT !.kind = k, !.due = TRUE]
      BY <3>1 DEF ScreensInv, ScreensTypeOK
    <3>3. load'[a].state # "read"
      BY <3>1 DEF ScreensInv, ScreensTypeOK, NoLoad
    <3>4. page'[a].due = TRUE
      BY <3>2 DEF NoPage
    <3> QED
      BY <3>1, <3>3, <3>4 DEF ScreensInv, ScreensTypeOK
  <2>2. CASE Leave(a)
    <3>1. /\ page' = [page EXCEPT ![a] = NoPage] /\ load' = [load EXCEPT ![a] = NoLoad]
          /\ job' = [job EXCEPT ![a].here = FALSE] /\ UNCHANGED <<srv, box>>
      BY <2>2 DEF Leave
    <3>2. page'[a] = NoPage /\ NoPage.due = FALSE /\ NoPage.kind = "none"
      BY <3>1 DEF ScreensInv, ScreensTypeOK, NoPage
    <3>3. NoPage = [NoPage EXCEPT !.kind = "none", !.due = page'[a].due]
      BY <3>2 DEF NoPage
    <3>4. load'[a].state # "read"
      BY <3>1 DEF ScreensInv, ScreensTypeOK, NoLoad
    <3>5. /\ \A b \in Admins \ {a} : load'[b] = load[b] /\ job'[b] = job[b]
          /\ load' = [b \in Admins |-> load'[b]]
      BY <3>1 DEF ScreensInv, ScreensTypeOK, PacksInv, PacksTypeOK
    <3>6. job'[a].kind = job[a].kind /\ job'[a].stage = job[a].stage
      BY <3>1 DEF ScreensInv, PacksInv, PacksTypeOK, JobRow
    <3> QED
      BY <3>1, <3>3, <3>4, <3>5, <3>6
  <2> QED
    BY <2>1, <2>2
<1>2. /\ page'[a].dec = Unresolved /\ page'[a].ov = UnreadOverrides
      /\ page'[a].rules = "unread" /\ IsPage(page'[a])
  BY <1>1 DEF ScreensInv, ScreensTypeOK, NoPage, IsPage
<1>3. ScreensTypeOK'
  <2>1. \A b \in Admins \ {a} : page'[b] = page[b]
    BY <1>1 DEF ScreensInv, ScreensTypeOK
  <2>2. \A b \in Admins : IsPage(page'[b]) /\ IsStore(box'[b])
    BY <1>1, <1>2, <2>1 DEF ScreensInv, ScreensTypeOK
  <2>3. page' = [b \in Admins |-> page'[b]] /\ box' = [b \in Admins |-> box'[b]]
    BY <1>1 DEF ScreensInv, ScreensTypeOK
  <2> QED
    BY <1>1, <2>2, <2>3 DEF ScreensTypeOK
<1>4. ScreenInv(a)'
  <2>1. Stored(a)'
    BY <1>1, TrailGrows DEF ScreensInv, ScreenInv, Stored, PacksStep
  <2>2. None # "progress"
    BY TablesAssumption
  <2> QED
    BY <1>1, <1>2, <2>1, <2>2 DEF ScreenInv, Shown, Underway, Unresolved, UnreadOverrides
<1>5. \A b \in Admins \ {a} : page'[b] = page[b] /\ box'[b] = box[b]
  BY <1>1 DEF ScreensInv, ScreensTypeOK
<1> QED
  BY <1>1, <1>3, <1>4, <1>5, OnlyItsScreen

(* A trail that is not empty has a newest row, and it is a decision. *)
LEMMA NewestIsRecorded ==
  ASSUME NEW log \in Seq(Decisions), log # <<>>
  PROVE  Current(log) \in Decisions /\ Current(log) # None
<1>1. log[Len(log)] \in Decisions
  OBVIOUS
<1> QED
  BY <1>1, TablesAssumption DEF Current, Last

(* The reads of a page. *)
LEMMA ReadStep ==
  ASSUME ScreensInv, PacksStep, PacksInv', NEW a \in Admins,
         LoadRead(a) \/ LoadArrive(a) \/ ReadOverrides(a) \/ ReadRules(a)
  PROVE  ScreensInv'
<1> DEFINE clear == ClearNow(srv', box'[a], copy'[a], Farm(a))
<1>1. /\ UNCHANGED setting /\ (Trailed => Trailed') /\ UNCHANGED <<srv, copy, job>>
      /\ ScreenInv(a) /\ IsPage(page[a]) /\ IsStore(box[a])
  BY TrailGrows DEF PacksStep, LoadRead, LoadArrive, ReadOverrides, ReadRules, ScreensInv,
                    ScreensTypeOK
<1>2. Releases(page'[a].kind) =>
        /\ clear \subseteq seen'[a]
        /\ Releases(page[a].kind) => \A x \in seen[a] : x # "risk" => x \in seen'[a]
  BY SeenGrows DEF PacksStep
<1>3. Stored(a)'
  BY <1>1 DEF ScreenInv, Stored
<1>4. CASE LoadRead(a)
  <2>1. PICK ans \in Answered(srv, "decisions", Current(srv.log)) :
          load' = [load EXCEPT ![a] = [state |-> "read", up |-> ans.up, row |-> ans.row]]
    BY <1>4 DEF LoadRead
  <2>2. UNCHANGED <<page, box>>
    BY <1>4 DEF LoadRead
  <2>3. load'[a].up = ans.up /\ load'[a].row = ans.row
    BY <2>1 DEF ScreensInv, ScreensTypeOK
  <2>4. ScreensTypeOK'
    BY <2>1, <2>2 DEF ScreensInv, ScreensTypeOK
  <2>5. ans.up /\ ResolveDecision(ans, Current(box[a].log)).val = "progress" =>
          "decision" \in clear
    BY <1>1, <2>2, DecisionWasClear
  <2>6. None # "progress"
    BY TablesAssumption
  <2>7. ans.up /\ ans.row = "progress" => "decision" \in clear
    BY <2>5, <2>6 DEF ResolveDecision
  <2>8. ans.up /\ ans.row = None /\ Current(box[a].log) = "progress" => "decision" \in clear
    BY <2>5, <2>6 DEF ResolveDecision
  <2>9. ans.up /\ ans.row = None =>
          ~(job[a].kind = "decide" /\ job[a].stage = "stored")
    <3>1. ans.up /\ Trailed => ans.row = Current(srv.log)
      BY DEF Answered, Trailed
    <3>2. Trailed => Current(srv.log) # None
      <4>1. srv.log \in Seq(Decisions)
        BY DEF ScreensInv, PacksInv, PacksTypeOK, ServerRow
      <4> QED
        BY <4>1, NewestIsRecorded DEF Trailed
    <3> QED
      BY <1>1, <3>1, <3>2 DEF ScreenInv, Stored
  <2>10. Shown(a)'
    BY <1>1, <1>2, <2>2 DEF ScreenInv, Shown, Farm
  <2>11. Underway(a)'
    <3> HIDE DEF clear
    <3> QED
      BY <1>1, <1>2, <2>2, <2>3, <2>7, <2>8, <2>9 DEF Underway
  <2>12. \A b \in Admins \ {a} : load'[b] = load[b]
    BY <2>1 DEF ScreensInv, ScreensTypeOK
  <2> QED
    BY <1>1, <1>3, <2>2, <2>4, <2>10, <2>11, <2>12, OnlyItsScreen DEF ScreenInv
<1>5. CASE LoadArrive(a)
  <2> DEFINE res == ResolveDecision(load[a], Current(box[a].log))
             mine == IF page[a].kind = "pack" THEN WriteThrough(load[a], box[a]) ELSE box[a]
  <2>1. /\ page' = [page EXCEPT ![a].dec = res] /\ box' = [box EXCEPT ![a] = mine]
        /\ load' = [load EXCEPT ![a] = NoLoad] /\ load[a].state = "read"
    BY <1>5 DEF LoadArrive
  <2>2. page'[a] = [page[a] EXCEPT !.dec = res] /\ box'[a] = mine /\ load'[a] = NoLoad
    BY <2>1 DEF ScreensInv, ScreensTypeOK
  <2>3. IsPage(page'[a]) /\ page'[a].dec = res /\ page'[a].kind = page[a].kind
        /\ page'[a].ov = page[a].ov /\ page'[a].rules = page[a].rules
    <3> HIDE DEF res
    <3> QED
      BY <1>1, <2>2 DEF IsPage
  <2>4. IsStore(mine)
    BY <1>1 DEF IsStore, WriteThrough
  <2>5. \A b \in Admins \ {a} : page'[b] = page[b] /\ box'[b] = box[b] /\ load'[b] = load[b]
    BY <2>1 DEF ScreensInv, ScreensTypeOK
  <2>6. ScreensTypeOK'
    <3>1. \A b \in Admins : IsPage(page'[b]) /\ IsStore(box'[b])
      BY <2>2, <2>3, <2>4, <2>5 DEF ScreensInv, ScreensTypeOK
    <3>2. /\ page' = [b \in Admins |-> page'[b]] /\ box' = [b \in Admins |-> box'[b]]
          /\ load' = [b \in Admins |-> load'[b]]
      BY <2>1 DEF ScreensInv, ScreensTypeOK
    <3> QED
      BY <3>1, <3>2 DEF ScreensTypeOK
  <2>7. Releases(page[a].kind) /\ res.val = "progress" => "decision" \in seen[a]
    <3>1. None # "progress"
      BY TablesAssumption
    <3> QED
      BY <1>1, <2>1, <3>1 DEF ScreenInv, Underway, ResolveDecision, Unavailable
  <2>8. Shown(a)'
    <3> HIDE DEF res, clear
    <3> QED
      BY <1>1, <1>2, <2>3, <2>7 DEF ScreenInv, Shown, Farm
  <2>9. Underway(a)'
    BY <2>2 DEF Underway, NoLoad
  <2> QED
    BY <1>1, <1>3, <2>5, <2>6, <2>8, <2>9, OnlyItsScreen DEF ScreenInv
<1>6. CASE ReadOverrides(a)
  <2>1. PICK up : page' = [page EXCEPT ![a].due = FALSE,
                             ![a].ov = ResolveOverrides(up, srv, box[a], copy[a], Farm(a))]
    BY <1>6 DEF ReadOverrides
  <2> DEFINE ov == ResolveOverrides(up, srv, box[a], copy[a], Farm(a))
  <2>2. UNCHANGED <<box, load>>
    BY <1>6 DEF ReadOverrides
  <2>3. IsPage(page'[a]) /\ page'[a].ov = ov /\ page'[a].kind = page[a].kind
        /\ page'[a].dec = page[a].dec /\ page'[a].rules = page[a].rules
    <3>1. page'[a] = [page[a] EXCEPT !.due = FALSE, !.ov = ov]
      BY <2>1 DEF ScreensInv, ScreensTypeOK
    <3> HIDE DEF ov
    <3> QED
      BY <1>1, <3>1 DEF IsPage
  <2>4. \A b \in Admins \ {a} : page'[b] = page[b]
    BY <2>1 DEF ScreensInv, ScreensTypeOK
  <2>5. ScreensTypeOK'
    <3>1. \A b \in Admins : IsPage(page'[b])
      BY <2>3, <2>4 DEF ScreensInv, ScreensTypeOK
    <3>2. page' = [b \in Admins |-> page'[b]]
      BY <2>1 DEF ScreensInv, ScreensTypeOK
    <3> QED
      BY <2>2, <3>1, <3>2 DEF ScreensInv, ScreensTypeOK
  <2>6. Farm(a) /\ ov.state = "read" /\ ov.req # "rejected" => "req" \in clear
    BY <1>1, <2>2, EvidenceWasClear
  <2>7. Shown(a)' /\ Underway(a)'
    <3> HIDE DEF ov, clear
    <3> QED
      BY <1>1, <1>2, <2>2, <2>3, <2>6 DEF ScreenInv, Shown, Underway, Farm
  <2> QED
    BY <1>1, <1>3, <2>2, <2>4, <2>5, <2>7, OnlyItsScreen DEF ScreenInv
<1>7. CASE ReadRules(a)
  <2>1. PICK up : page' = [page EXCEPT ![a].rules = RulesAnswer(up, srv)]
    BY <1>7 DEF ReadRules
  <2> DEFINE rules == RulesAnswer(up, srv)
  <2>2. UNCHANGED <<box, load>>
    BY <1>7 DEF ReadRules
  <2>3. rules \in {"unread", "unavailable", "blocked", "clear"}
    BY DEF RulesAnswer
  <2>4. IsPage(page'[a]) /\ page'[a].rules = rules /\ page'[a].kind = page[a].kind
        /\ page'[a].dec = page[a].dec /\ page'[a].ov = page[a].ov
    <3>1. page'[a] = [page[a] EXCEPT !.rules = rules]
      BY <2>1 DEF ScreensInv, ScreensTypeOK
    <3> HIDE DEF rules
    <3> QED
      BY <1>1, <2>3, <3>1 DEF IsPage
  <2>5. \A b \in Admins \ {a} : page'[b] = page[b]
    BY <2>1 DEF ScreensInv, ScreensTypeOK
  <2>6. ScreensTypeOK'
    <3>1. \A b \in Admins : IsPage(page'[b])
      BY <2>4, <2>5 DEF ScreensInv, ScreensTypeOK
    <3>2. page' = [b \in Admins |-> page'[b]]
      BY <2>1 DEF ScreensInv, ScreensTypeOK
    <3> QED
      BY <2>2, <3>1, <3>2 DEF ScreensInv, ScreensTypeOK
  <2>7. rules = "clear" => "rules" \in clear
    BY <1>1, RulesWereClear
  <2>8. Shown(a)' /\ Underway(a)'
    <3> HIDE DEF rules, clear
    <3> QED
      BY <1>1, <1>2, <2>2, <2>4, <2>7 DEF ScreenInv, Shown, Underway, Farm
  <2> QED
    BY <1>1, <1>3, <2>2, <2>5, <2>6, <2>8, OnlyItsScreen DEF ScreenInv
<1> QED
  BY <1>4, <1>5, <1>6, <1>7

(* Steps that show no page anything: presses, the issuing function, others. *)
LEMMA UnseenStep ==
  ASSUME ScreensInv, PacksStep, PacksInv',
         \/ \E a \in Admins :
              \/ Refresh(a) \/ PressDecide(a) \/ PressRisk(a) \/ PressRequirement(a)
              \/ PressIssue(a) \/ IssueRead(a) \/ SaveInBrowser(a)
              \/ GateOnDecision(a) \/ GateOnResults(a) \/ Commit(a)
         \/ NewResult \/ RuleChanges \/ Migrate
  PROVE  ScreensInv'
<1> DEFINE Unseen ==
             /\ page' = [a \in Admins |-> page'[a]] /\ box' = [a \in Admins |-> box'[a]]
             /\ UNCHANGED load
             /\ \A a \in Admins :
                  /\ IsPage(page'[a]) /\ IsStore(box'[a])
                  /\ page'[a].kind = page[a].kind /\ page'[a].dec = page[a].dec
                  /\ page'[a].ov = page[a].ov /\ page'[a].rules = page[a].rules
                  /\ box'[a].log = box[a].log
           Moved(new) ==
             /\ new.stage \in {"none", "sent", "call", "decided", "checked"}
             /\ \E b \in Admins : job' = [job EXCEPT ![b] = new]
<1>1. Unseen
  <2>1. CASE UNCHANGED <<page, box, load>>
    BY <2>1 DEF ScreensInv, ScreensTypeOK
  <2>2. ASSUME NEW a \in Admins, Refresh(a)
        PROVE  Unseen
    <3>1. page' = [page EXCEPT ![a].due = page[a].kind # "none"] /\ UNCHANGED <<box, load>>
      BY <2>2 DEF Refresh
    <3>2. page'[a] = [page[a] EXCEPT !.due = page[a].kind # "none"] /\ IsPage(page[a])
          /\ \A b \in Admins \ {a} : page'[b] = page[b]
      BY <3>1 DEF ScreensInv, ScreensTypeOK
    <3>3. /\ IsPage(page'[a])
          /\ page'[a].kind = page[a].kind /\ page'[a].dec = page[a].dec
          /\ page'[a].ov = page[a].ov /\ page'[a].rules = page[a].rules
      BY <3>2 DEF IsPage
    <3> QED
      BY <3>1, <3>2, <3>3 DEF ScreensInv, ScreensTypeOK
  <2>3. ASSUME NEW a \in Admins, SaveInBrowser(a)
        PROVE  Unseen
    <3> DEFINE packs == Append(box[a].packs, NextSnapshot(box[a].packs, a, stood[a]))
    <3>1. box' = [box EXCEPT ![a].packs = packs] /\ UNCHANGED <<page, load>>
      BY <2>3 DEF SaveInBrowser
    <3> HIDE DEF packs
    <3>2. box'[a] = [box[a] EXCEPT !.packs = packs] /\ IsStore(box[a])
          /\ \A b \in Admins \ {a} : box'[b] = box[b]
      BY <3>1 DEF ScreensInv, ScreensTypeOK
    <3>3. IsStore(box'[a]) /\ box'[a].log = box[a].log
      BY <3>2 DEF IsStore
    <3> QED
      BY <3>1, <3>2, <3>3 DEF ScreensInv, ScreensTypeOK
  <2> QED
    BY <2>1, <2>2, <2>3 DEF PressDecide, PressRisk, PressRequirement, PressIssue, Press,
         IssueRead, GateOnDecision, GateOnResults, Commit, NewResult, RuleChanges, Migrate
<1>2. \A a \in Admins : job'[a] = job[a] \/ job'[a].stage # "stored"
  <2> SUFFICES ASSUME NEW a \in Admins, job'[a] # job[a]
               PROVE  job'[a].stage # "stored"
    OBVIOUS
  <2>1. job \in [Admins -> JobRow] /\ NoJob.stage # "stored"
    BY DEF ScreensInv, PacksInv, PacksTypeOK, NoJob
  <2>2. \E new : Moved(new)
    <3>1. \E b \in Admins :
            \/ PressDecide(b) \/ PressRisk(b) \/ PressRequirement(b) \/ PressIssue(b)
            \/ IssueRead(b) \/ SaveInBrowser(b) \/ GateOnDecision(b) \/ GateOnResults(b)
            \/ Commit(b)
      BY DEF Refresh, NewResult, RuleChanges, Migrate
    <3>2. PICK b \in Admins :
            \/ PressDecide(b) \/ PressRisk(b) \/ PressRequirement(b) \/ PressIssue(b)
            \/ IssueRead(b) \/ SaveInBrowser(b) \/ GateOnDecision(b) \/ GateOnResults(b)
            \/ Commit(b)
      BY <3>1
    <3>3. ASSUME NEW kind, NEW val, Press(b, kind, val)
          PROVE  \E new : Moved(new)
      <4> DEFINE new == [kind |-> kind, stage |-> "sent", val |-> val, here |-> TRUE]
      <4>1. new.stage = "sent" /\ job' = [job EXCEPT ![b] = new]
        BY <3>3 DEF Press
      <4>2. Moved(new)
        BY <4>1
      <4> HIDE DEF Moved, new
      <4> QED
        BY <4>2
    <3>4. CASE PressDecide(b) \/ PressRisk(b) \/ PressRequirement(b) \/ PressIssue(b)
      BY <3>3, <3>4 DEF PressDecide, PressRisk, PressRequirement, PressIssue
    <3>5. CASE job' = [job EXCEPT ![b] = NoJob]
      <4>1. Moved(NoJob)
        BY <3>5 DEF NoJob
      <4> HIDE DEF Moved
      <4> QED
        BY <4>1
    <3>6. ASSUME NEW stage \in {"call", "decided", "checked"},
                 job' = [job EXCEPT ![b] = [job[b] EXCEPT !.stage = stage]]
          PROVE  \E new : Moved(new)
      <4> DEFINE new == [job[b] EXCEPT !.stage = stage]
      <4>1. new.stage = stage
        BY <2>1 DEF JobRow
      <4>2. Moved(new)
        BY <3>6, <4>1
      <4> HIDE DEF Moved, new
      <4> QED
        BY <4>2
    <3>7. CASE \/ IssueRead(b) \/ SaveInBrowser(b) \/ GateOnDecision(b) \/ GateOnResults(b)
               \/ Commit(b)
      <4>1. \/ job' = [job EXCEPT ![b] = NoJob]
            \/ \E stage \in {"call", "decided", "checked"} :
                 job' = [job EXCEPT ![b] = [job[b] EXCEPT !.stage = stage]]
        BY <2>1, <3>7 DEF IssueRead, SaveInBrowser, GateOnDecision, GateOnResults, Commit
      <4> QED
        BY <3>5, <3>6, <4>1
    <3> QED
      BY <3>2, <3>4, <3>7
  <2> QED
    BY <2>1, <2>2
<1>3. ScreensTypeOK'
  BY <1>1 DEF ScreensInv, ScreensTypeOK
<1>4. \A a \in Admins : ScreenInv(a)'
  BY <1>1, <1>2, NothingNew DEF ScreensInv
<1> QED
  BY <1>3, <1>4 DEF ScreensInv

(* procurementDecisionStore, procurementOverrideStore.  What a press leaves  *)
(* in a browser.                                                           *)
LEMMA CachedRow ==
  ASSUME NEW mine, IsStore(mine), NEW j, j.kind \in {"decide", "risk", "req"}
  PROVE  /\ IsStore(Cached(mine, j))
         /\ j.kind = "decide" => Current(Cached(mine, j).log) = j.val
         /\ j.kind # "decide" => Cached(mine, j).log = mine.log
<1>1. CASE j.kind = "decide"
  <2>1. Cached(mine, j) = [mine EXCEPT !.log = <<j.val>>]
    BY <1>1 DEF Cached
  <2>2. IsStore(Cached(mine, j)) /\ Cached(mine, j).log = <<j.val>>
    BY <2>1 DEF IsStore
  <2>3. <<j.val>> # <<>> /\ <<j.val>>[Len(<<j.val>>)] = j.val
    OBVIOUS
  <2> QED
    BY <1>1, <2>2, <2>3 DEF Current, Last
<1>2. CASE j.kind = "risk"
  <2>1. Cached(mine, j) = [mine EXCEPT !.risks = Append(mine.risks, j.val)]
    BY <1>2 DEF Cached, Recorded
  <2> QED
    BY <1>2, <2>1 DEF IsStore
<1>3. CASE j.kind = "req"
  <2>1. Cached(mine, j) = [mine EXCEPT !.req = j.val]
    BY <1>3 DEF Cached, Recorded
  <2> QED
    BY <1>3, <2>1 DEF IsStore
<1> QED
  BY <1>1, <1>2, <1>3

(* The two writes of a press: its row to the server, or, without the table  *)
(* or once the server answered, to the browser.                            *)
LEMMA WriteStep ==
  ASSUME ScreensInv, PacksStep, PacksInv', NEW a \in Admins, Insert(a) \/ Replied(a)
  PROVE  ScreensInv'
<1> DEFINE clear == ClearNow(srv', box'[a], copy'[a], Farm(a))
           j == job[a]
<1>1. /\ UNCHANGED setting /\ (Trailed => Trailed') /\ UNCHANGED <<page, load, copy>>
      /\ ScreenInv(a) /\ IsStore(box[a]) /\ j \in JobRow /\ Fits(j)
  BY TrailGrows, PressTypes DEF PacksStep, Insert, Replied, ScreensInv, ScreensTypeOK
<1>2. Releases(page[a].kind) =>
        clear \subseteq seen'[a] /\ \A x \in seen[a] : x # "risk" => x \in seen'[a]
  BY <1>1, SeenGrows DEF PacksStep
<1>3. \A b \in Admins \ {a} : job'[b] = job[b] /\ box'[b] = box[b]
  <2>1. /\ \E new : job' = [job EXCEPT ![a] = new]
        /\ box' = box \/ \E mine : box' = [box EXCEPT ![a] = mine]
    BY DEF Insert, Replied
  <2> QED
    BY <2>1 DEF ScreensInv, ScreensTypeOK, PacksInv, PacksTypeOK
<1>4. Shown(a)'
  BY <1>1, <1>2 DEF ScreenInv, Shown, Farm
<1>5. SUFFICES /\ box' = [b \in Admins |-> box'[b]] /\ IsStore(box'[a])
               /\ Underway(a)' /\ Stored(a)'
  <2>1. ASSUME box' = [b \in Admins |-> box'[b]], IsStore(box'[a])
        PROVE  ScreensTypeOK'
    BY <1>1, <1>3, <2>1 DEF ScreensInv, ScreensTypeOK
  <2> QED
    BY <1>1, <1>3, <1>4, <2>1, OnlyItsScreen DEF ScreenInv
<1>6. CASE box' = box /\ job'[a].stage # "stored"
  <2>1. box' = [b \in Admins |-> box'[b]] /\ IsStore(box'[a])
    BY <1>1, <1>6 DEF ScreensInv, ScreensTypeOK
  <2> QED
    BY <1>1, <1>2, <1>6, <2>1 DEF ScreenInv, Underway, Stored
<1>7. CASE /\ Insert(a) /\ srv' = Recorded(srv, j) /\ TableOf(j) \in srv.tables
           /\ box' = box /\ job' = [job EXCEPT ![a].stage = "stored"]
           /\ j.kind \in {"decide", "risk", "req"}
  <2>1. box' = [b \in Admins |-> box'[b]] /\ IsStore(box'[a])
    BY <1>1, <1>7 DEF ScreensInv, ScreensTypeOK
  <2>2. job'[a].kind = j.kind /\ job'[a].val = j.val
    BY <1>1, <1>7 DEF ScreensInv, PacksInv, PacksTypeOK, JobRow
  <2>3. ASSUME j.kind = "decide"
        PROVE  Trailed' /\ Current(srv'.log) = j.val
    <3> DEFINE log == Append(srv.log, j.val)
    <3>1. srv \in ServerRow /\ srv.log \in Seq(Decisions) /\ j.val \in Decisions
      BY <1>1, <2>3 DEF ScreensInv, PacksInv, PacksTypeOK, ServerRow, Fits
    <3>2. srv' = [srv EXCEPT !.log = log] /\ "decisions" \in srv.tables
      BY <1>7, <2>3 DEF Recorded, TableOf
    <3>3. log # <<>> /\ log[Len(log)] = j.val
      BY <3>1
    <3> HIDE DEF log
    <3>4. srv'.log = log /\ srv'.tables = srv.tables
      BY <3>1, <3>2 DEF ServerRow
    <3> QED
      BY <3>2, <3>3, <3>4 DEF Trailed, Current, Last
  <2>4. j.kind = "decide" /\ j.val = "progress" => "decision" \in clear
    <3> DEFINE ans == [up |-> TRUE, row |-> Current(srv'.log)]
    <3>1. SUFFICES ASSUME j.kind = "decide", j.val = "progress"
                   PROVE  "decision" \in clear
      OBVIOUS
    <3>2. ans \in Answered(srv', "decisions", Current(srv'.log)) /\ ans.up
          /\ ans.row = "progress"
      BY <2>3, <3>1 DEF Answered, Trailed
    <3> HIDE DEF ans, clear
    <3>3. ResolveDecision(ans, Current(box'[a].log)).val = "progress"
      BY <3>2, TablesAssumption DEF ResolveDecision
    <3> QED
      BY <3>2, <3>3, DecisionWasClear DEF clear
  <2> HIDE DEF clear
  <2> QED
    BY <1>1, <1>2, <1>7, <2>1, <2>2, <2>3, <2>4 DEF ScreenInv, Underway, Stored
<1>8. ASSUME box' = [box EXCEPT ![a] = Cached(box[a], j)], job'[a].stage # "stored",
             j.kind \in {"decide", "risk", "req"},
             j.kind = "decide" /\ j.val = "progress" =>
               \/ "decision" \in clear
               \/ job[a].stage = "stored"
      PROVE  /\ box' = [b \in Admins |-> box'[b]] /\ IsStore(box'[a])
             /\ Underway(a)' /\ Stored(a)'
  <2> DEFINE mine == Cached(box[a], j)
  <2>1. box'[a] = mine /\ box' = [b \in Admins |-> box'[b]]
    BY <1>8 DEF ScreensInv, ScreensTypeOK
  <2>2. /\ IsStore(mine)
        /\ j.kind = "decide" => Current(mine.log) = j.val
        /\ j.kind # "decide" => mine.log = box[a].log
    BY <1>1, <1>8, CachedRow
  <2> HIDE DEF mine, clear
  <2>3. Underway(a)'
    BY <1>1, <1>2, <1>8, <2>1, <2>2 DEF ScreenInv, Underway
  <2> QED
    BY <1>8, <2>1, <2>2, <2>3 DEF Stored
<1>9. CASE /\ Insert(a) /\ TableOf(j) \notin srv.tables
           /\ box' = [box EXCEPT ![a] = Cached(box[a], j)]
           /\ job' = [job EXCEPT ![a].stage = "reread"] /\ srv' = srv
  <2>1. j.kind \in {"decide", "risk", "req"} /\ job'[a].stage # "stored"
    BY <1>1, <1>9 DEF Insert, ScreensInv, PacksInv, PacksTypeOK, JobRow
  <2>2. j.kind = "decide" /\ j.val = "progress" => "decision" \in clear
    <3> DEFINE ans == [up |-> TRUE, row |-> None]
    <3>1. SUFFICES ASSUME j.kind = "decide", j.val = "progress"
                   PROVE  "decision" \in clear
      OBVIOUS
    <3>2. ans \in Answered(srv', "decisions", Current(srv'.log)) /\ ans.up /\ ans.row = None
      BY <1>9, <3>1 DEF Answered, TableOf
    <3>3. box'[a] = Cached(box[a], j)
      BY <1>9 DEF ScreensInv, ScreensTypeOK
    <3>4. Current(box'[a].log) = "progress"
      BY <1>1, <2>1, <3>1, <3>3, CachedRow
    <3> HIDE DEF ans, clear
    <3>5. ResolveDecision(ans, Current(box'[a].log)).val = "progress"
      BY <3>2, <3>4, TablesAssumption DEF ResolveDecision
    <3> QED
      BY <3>2, <3>5, DecisionWasClear DEF clear
  <2> HIDE DEF clear
  <2> QED
    BY <1>8, <1>9, <2>1, <2>2
<1>10. CASE /\ Replied(a) /\ box' = [box EXCEPT ![a] = Cached(box[a], j)]
            /\ job' = [job EXCEPT ![a].stage = "reread"]
  <2>1. j.stage = "stored" /\ job'[a].stage # "stored"
    BY <1>1, <1>10 DEF Replied, ScreensInv, PacksInv, PacksTypeOK, JobRow
  <2>2. j.kind \in {"decide", "risk", "req"}
    BY <1>1, <2>1 DEF ScreenInv, Stored
  <2> HIDE DEF clear
  <2> QED
    BY <1>8, <1>10, <2>1, <2>2
<1>11. AfterError(j).stage # "stored"
  BY <1>1 DEF AfterError, JobRow, NoJob
<1>12. job' = [job EXCEPT ![a] = AfterError(j)] => job'[a].stage # "stored"
  BY <1>11 DEF ScreensInv, PacksInv, PacksTypeOK
<1> QED
  BY <1>6, <1>7, <1>9, <1>10, <1>12 DEF Insert, Replied

(* The read after a press. *)
LEMMA RereadStep ==
  ASSUME ScreensInv, PacksStep, PacksInv', NEW a \in Admins, Reread(a)
  PROVE  ScreensInv'
<1> DEFINE clear == ClearNow(srv', box'[a], copy'[a], Farm(a))
           j == job[a]
<1>1. /\ UNCHANGED setting /\ (Trailed => Trailed') /\ UNCHANGED <<srv, copy, load>>
      /\ ScreenInv(a) /\ IsPage(page[a]) /\ IsStore(box[a])
      /\ job' = [job EXCEPT ![a] = NoJob]
  BY TrailGrows DEF PacksStep, Reread, ScreensInv, ScreensTypeOK
<1>2. Releases(page'[a].kind) =>
        /\ clear \subseteq seen'[a]
        /\ Releases(page[a].kind) => \A x \in seen[a] : x # "risk" => x \in seen'[a]
  BY SeenGrows DEF PacksStep
<1>3. /\ \A b \in Admins \ {a} : job'[b] = job[b]
      /\ job'[a].stage # "stored"
  BY <1>1 DEF ScreensInv, PacksInv, PacksTypeOK, NoJob
<1>4. ASSUME NEW pg, IsPage(pg), page' = page \/ page' = [page EXCEPT ![a] = pg],
             NEW mine, IsStore(mine), box' = [box EXCEPT ![a] = mine],
             pg.kind = page[a].kind, pg.rules = page[a].rules,
             \/ pg.dec = page[a].dec
             \/ pg.dec.val = "progress" => "decision" \in clear,
             \/ pg.ov = page[a].ov
             \/ Farm(a) /\ pg.ov.state = "read" /\ pg.ov.req # "rejected" => "req" \in clear,
             \/ mine.log = box[a].log
             \/ Current(mine.log) = "progress" => "decision" \in clear
      PROVE  ScreensInv'
  <2>1. page' = [b \in Admins |-> page'[b]] /\ box' = [b \in Admins |-> box'[b]]
        /\ (page'[a] = page[a] \/ page'[a] = pg) /\ box'[a] = mine
        /\ \A b \in Admins \ {a} : page'[b] = page[b] /\ box'[b] = box[b]
    BY <1>4 DEF ScreensInv, ScreensTypeOK
  <2>2. ScreensTypeOK'
    <3>1. \A b \in Admins : IsPage(page'[b]) /\ IsStore(box'[b])
      BY <1>4, <2>1 DEF ScreensInv, ScreensTypeOK
    <3> QED
      BY <1>1, <2>1, <3>1 DEF ScreensInv, ScreensTypeOK
  <2> HIDE DEF clear
  <2>3. Shown(a)'
    BY <1>1, <1>2, <1>4, <2>1 DEF ScreenInv, Shown, Farm
  <2>4. Underway(a)'
    BY <1>1, <1>2, <1>3, <1>4, <2>1 DEF ScreenInv, Underway
  <2>5. Stored(a)'
    BY <1>3 DEF Stored
  <2> QED
    BY <1>1, <1>3, <2>1, <2>2, <2>3, <2>4, <2>5, OnlyItsScreen DEF ScreenInv
<1>5. CASE j.kind = "decide"
  <2>1. PICK ans \in Answered(srv, "decisions", Current(srv.log)) :
          /\ page' = IF j.here
                     THEN [page EXCEPT ![a].dec = ResolveDecision(ans, Current(box[a].log))]
                     ELSE page
          /\ box' = [box EXCEPT ![a] = WriteThrough(ans, box[a])]
    BY <1>5 DEF Reread
  <2> DEFINE res == ResolveDecision(ans, Current(box[a].log))
             mine == WriteThrough(ans, box[a])
             pg == [page[a] EXCEPT !.dec = res]
  <2>2. /\ IsStore(mine)
        /\ \/ mine = box[a]
           \/ mine.log = <<ans.row>> /\ ans.up /\ ans.row # None
    <3>1. CASE ans.up /\ ans.row # None
      <4>1. mine = [box[a] EXCEPT !.log = <<ans.row>>]
        BY <3>1 DEF WriteThrough
      <4> HIDE DEF mine
      <4> QED
        BY <1>1, <3>1, <4>1 DEF IsStore
    <3>2. CASE ~(ans.up /\ ans.row # None)
      <4>1. mine = box[a]
        BY <3>2 DEF WriteThrough
      <4> HIDE DEF mine
      <4> QED
        BY <1>1, <4>1 DEF IsStore
    <3> QED
      BY <3>1, <3>2
  <2>3. box'[a] = mine
    BY <2>1 DEF ScreensInv, ScreensTypeOK
  <2>4. res.val = "progress" => "decision" \in clear
    <3>1. res = ResolveDecision(ans, Current(box'[a].log))
      BY <2>2, <2>3 DEF ResolveDecision
    <3> QED
      BY <1>1, <3>1, DecisionWasClear
  <2>5. Current(mine.log) = "progress" => mine = box[a] \/ "decision" \in clear
    <3>1. SUFFICES ASSUME Current(mine.log) = "progress", mine # box[a]
                   PROVE  res.val = "progress"
      BY <2>4
    <3>2. <<ans.row>> # <<>> /\ <<ans.row>>[Len(<<ans.row>>)] = ans.row
      OBVIOUS
    <3>3. ans.row = "progress"
      BY <2>2, <3>1, <3>2 DEF Current, Last
    <3> QED
      BY <2>2, <3>1, <3>3 DEF ResolveDecision
  <2>6. /\ IsPage(pg) /\ pg.dec = res /\ pg.kind = page[a].kind /\ pg.ov = page[a].ov
        /\ pg.rules = page[a].rules
    <3> HIDE DEF res
    <3> QED
      BY <1>1 DEF IsPage
  <2>7. page' = page \/ page' = [page EXCEPT ![a] = pg]
    BY <2>1
  <2> HIDE DEF res, mine, pg, clear
  <2> QED
    BY <1>4, <2>1, <2>2, <2>4, <2>5, <2>6, <2>7 DEF mine
<1>6. CASE j.kind # "decide"
  <2>1. PICK up :
          /\ page' = IF j.here
                     THEN [page EXCEPT ![a].ov = ResolveOverrides(up, srv, box[a], copy[a], Farm(a))]
                     ELSE page
          /\ box' = box
    BY <1>6 DEF Reread
  <2> DEFINE ov == ResolveOverrides(up, srv, box[a], copy[a], Farm(a))
             pg == [page[a] EXCEPT !.ov = ov]
  <2>2. box' = [box EXCEPT ![a] = box[a]]
    BY <2>1 DEF ScreensInv, ScreensTypeOK
  <2>3. Farm(a) /\ ov.state = "read" /\ ov.req # "rejected" => "req" \in clear
    BY <1>1, <2>1, EvidenceWasClear
  <2>4. /\ IsPage(pg) /\ pg.ov = ov /\ pg.kind = page[a].kind /\ pg.dec = page[a].dec
        /\ pg.rules = page[a].rules
    <3> HIDE DEF ov
    <3> QED
      BY <1>1 DEF IsPage
  <2>5. page' = page \/ page' = [page EXCEPT ![a] = pg]
    BY <2>1
  <2> HIDE DEF ov, pg, clear
  <2> QED
    BY <1>1, <1>4, <2>2, <2>3, <2>4, <2>5
<1> QED
  BY <1>5, <1>6

LEMMA ScreensKeep == ScreensInv /\ [PacksStep]_packVars => ScreensInv'
<1> SUFFICES ASSUME ScreensInv, [PacksStep]_packVars
             PROVE  ScreensInv'
  OBVIOUS
<1>1. PacksInv'
  BY PacksKeep DEF ScreensInv
<1>2. CASE UNCHANGED packVars
  BY <1>1, <1>2 DEF packVars, ScreensInv, ScreensTypeOK, ScreenInv, Shown, Underway, Stored,
                    Trailed, Farm
<1>3. CASE PacksStep
  BY <1>1, <1>3, PageStep, ReadStep, UnseenStep, WriteStep, RereadStep DEF PacksStep, Step
<1> QED
  BY <1>2, <1>3

Store == [log : Seq(Decisions), risks : Seq(RiskRow), req : Evidence \cup {None},
          packs : Seq(Snapshot)]

(* The pages that may be open over these records: what each shows was read  *)
(* from them, or not yet.                                                  *)
OpenOver(s, mine, of, farm) ==
  [kind : {"none", "pack", "list", "register", "matrix"},
   dec : {Unresolved} \cup {ResolveDecision(ans, Current(mine.log)) :
                              ans \in Answered(s, "decisions", Current(s.log))},
   ov : {UnreadOverrides} \cup {ResolveOverrides(up, s, mine, of, farm) : up \in BOOLEAN},
   due : BOOLEAN,
   rules : {"unread"} \cup {RulesAnswer(up, s) : up \in BOOLEAN}]

(* procurementControl, DDPBuyerPreview.  From any records and any pages read *)
(* from them: a page lets a pack out only if since it opened the decision,   *)
(* the rules and the farm's evidence were each clear at some moment, however *)
(* its reads, those of presses and what others do arrive.                    *)
THEOREM OutputsWereCleared ==
  ASSUME NEW s \in ServerRow, s.packs = <<>>, NEW b \in [Admins -> Store],
         NEW c \in [Admins -> Results], NEW l, NEW e,
         NEW p, p = [a \in Admins |-> p[a]],
         \A a \in Admins : p[a] \in OpenOver(s, b[a], c[a], e.farm[a])
  PROVE  PacksInit(s, b, c, p, l, e) /\ [][PacksStep]_packVars => []OutputWasCleared
<1>1. PacksInit(s, b, c, p, l, e) => ScreensInv
  <2> SUFFICES ASSUME PacksInit(s, b, c, p, l, e)
               PROVE  ScreensInv
    OBVIOUS
  <2>1. /\ srv = s /\ box = b /\ copy = c /\ page = p /\ setting = e
        /\ load = [a \in Admins |-> NoLoad] /\ job = [a \in Admins |-> NoJob]
    BY DEF PacksInit
  <2>2. PacksInv
    BY PacksStart
  <2>3. ASSUME NEW a \in Admins
        PROVE  IsPage(page[a]) /\ IsStore(box[a]) /\ ScreenInv(a)
    <3> DEFINE clear == ClearNow(s, b[a], c[a], e.farm[a])
    <3>1. page[a] \in OpenOver(s, b[a], c[a], e.farm[a]) /\ b[a] \in Store
      BY <2>1
    <3>2. IsStore(box[a])
      BY <2>1, <3>1 DEF Store, IsStore
    <3>3. \A up : RulesAnswer(up, s) \in {"unavailable", "blocked", "clear"}
      BY DEF RulesAnswer
    <3>4. IsPage(page[a])
      BY <3>1, <3>3 DEF OpenOver, IsPage
    <3>5. page[a].dec.val = "progress" => "decision" \in clear
      <4>1. \/ page[a].dec = Unresolved
            \/ \E ans \in Answered(s, "decisions", Current(s.log)) :
                 page[a].dec = ResolveDecision(ans, Current(b[a].log))
        BY <3>1 DEF OpenOver
      <4>2. ASSUME NEW ans \in Answered(s, "decisions", Current(s.log)),
                   page[a].dec = ResolveDecision(ans, Current(b[a].log)),
                   page[a].dec.val = "progress"
            PROVE  "decision" \in clear
        BY <4>2, DecisionWasClear
      <4>3. Unresolved.val # "progress"
        BY TablesAssumption DEF Unresolved
      <4> QED
        BY <4>1, <4>2, <4>3
    <3>6. page[a].rules = "clear" => "rules" \in clear
      BY <3>1, RulesWereClear DEF OpenOver
    <3>7. e.farm[a] /\ page[a].ov.state = "read" /\ page[a].ov.req # "rejected" =>
            "req" \in clear
      <4>1. \/ page[a].ov = UnreadOverrides
            \/ \E up \in BOOLEAN :
                 page[a].ov = ResolveOverrides(up, s, b[a], c[a], e.farm[a])
        BY <3>1 DEF OpenOver
      <4>2. ASSUME NEW up \in BOOLEAN, e.farm[a], page[a].ov.state = "read",
                   page[a].ov = ResolveOverrides(up, s, b[a], c[a], e.farm[a]),
                   page[a].ov.req # "rejected"
            PROVE  "req" \in clear
        BY <4>2, EvidenceWasClear
      <4>3. UnreadOverrides.state # "read"
        BY DEF UnreadOverrides
      <4> QED
        BY <4>1, <4>2, <4>3
    <3>8. Releases(p[a].kind) => seen[a] = clear
      BY DEF PacksInit
    <3> HIDE DEF clear
    <3>9. Shown(a)
      BY <2>1, <3>5, <3>6, <3>7, <3>8 DEF Shown, Farm
    <3>10. Underway(a) /\ Stored(a)
      BY <2>1 DEF Underway, Stored, NoLoad, NoJob
    <3> QED
      BY <3>2, <3>4, <3>9, <3>10 DEF ScreenInv
  <2> QED
    BY <2>1, <2>2, <2>3 DEF ScreensInv, ScreensTypeOK
<1>2. ScreensInv => OutputWasCleared
  <2> SUFFICES ASSUME ScreensInv, NEW a \in Admins, CanEmitOutput(a)
               PROVE  {"decision", "rules"} \cup (IF Farm(a) THEN {"req"} ELSE {}) \subseteq seen[a]
    BY DEF OutputWasCleared
  <2>1. Releases(page[a].kind) /\ HumanApproved(page[a], copy[a], Farm(a))
    BY DEF CanEmitOutput, PackLetsOut, Listed, Approved, Releases
  <2>2. /\ page[a].ov.state = "read" /\ page[a].rules \notin {"unread", "unavailable", "blocked"}
        /\ (Farm(a) => page[a].ov.req # "rejected") /\ page[a].dec.val = "progress"
    BY <2>1 DEF HumanApproved, HasBlockingIssues, OverridesUnverified, RulesUnverified,
                RequirementBlocks, ProgressRecorded
  <2>3. Shown(a) /\ IsPage(page[a])
    BY DEF ScreensInv, ScreensTypeOK, ScreenInv
  <2> QED
    BY <2>1, <2>2, <2>3 DEF Shown, IsPage
<1> QED
  BY <1>1, <1>2, ScreensKeep, PTL

-----------------------------------------------------------------------------
(* The supplier enquiries. They are proved about before the calls, because *)
(* the calls are made for the addresses they hold.                         *)

Request == [id : Visits, email : Emails, status : Statuses]

VisitRow == [step : {"form", "sent", "reserving", "granted", "checked", "answered", "over"},
             email : Emails \cup {""},
             from : {normaliseAddress(a) : a \in Addresses} \cup {NoBucket},
             form : Forms, at : Nat,
             answer : {"", "ok", "invalid_input", "rate_limited", "submit_failed",
                       "backend_unavailable"}]

IntakeTypeOK ==
  /\ now \in Nat
  /\ visit \in [Visits -> VisitRow]
  /\ requests \subseteq Request /\ rows \subseteq Request

(* A form that was not sent has no answer, one under way has an address.   *)
FormsUnanswered ==
  \A v \in Visits :
    /\ visit[v].step = "form" => visit[v].answer = ""
    /\ visit[v].step \in {"sent", "reserving", "granted", "checked"} =>
         visit[v].email \in Emails

QueueInv == IntakeTypeOK /\ FormsUnanswered /\ ConfirmedIsQueued

(* What keeps the three facts: visits as they were, and no address leaves  *)
(* the queue.                                                              *)
LEMMA QueueKept ==
  ASSUME QueueInv, UNCHANGED <<now, visit>>,
         requests' \subseteq Request, rows' \subseteq Request,
         \A r \in requests : \E q \in requests' : q.email = r.email
  PROVE  QueueInv'
<1>1. IntakeTypeOK' /\ FormsUnanswered'
  BY DEF QueueInv, IntakeTypeOK, FormsUnanswered
<1>2. ASSUME NEW v \in Visits, visit'[v].answer = "ok"
      PROVE  \E q \in requests' : q.email = visit'[v].email
  <2>1. PICK r \in requests : r.email = visit[v].email
    BY <1>2 DEF QueueInv, ConfirmedIsQueued
  <2> QED
    BY <2>1
<1> QED
  BY <1>1, <1>2 DEF QueueInv, ConfirmedIsQueued

(* DDPAccessRequests:172-200.  Marking an enquiry keeps its address. *)
LEMMA MarkingKeepsAddresses ==
  ASSUME requests \subseteq Request, NEW id, NEW s \in Statuses,
         setAccessRequestStatus(id, s)
  PROVE  /\ requests' \subseteq Request
         /\ \A r \in requests : \E q \in requests' : q.email = r.email
<1> DEFINE marked(r) == IF r.id = id THEN [r EXCEPT !.status = s] ELSE r
<1>1. \A r \in requests : marked(r) \in Request /\ marked(r).email = r.email
  BY DEF Request
<1>2. requests' = {marked(r) : r \in requests}
  BY DEF setAccessRequestStatus
<1> QED
  BY <1>1, <1>2

(* A visit whose record changes as one step of the intake changes it.      *)
LEMMA VisitStep ==
  ASSUME QueueInv, NEW v \in Visits, NEW new \in VisitRow,
         visit' = [visit EXCEPT ![v] = new],
         new.step = "form" => new.answer = "",
         new.step \in {"sent", "reserving", "granted", "checked"} => new.email \in Emails,
         requests \subseteq requests', requests' \subseteq Request,
         new.answer = "ok" => \E q \in requests' : q.email = new.email,
         now' = now, rows' = rows
  PROVE  QueueInv'
<1>1. IntakeTypeOK'
  BY DEF QueueInv, IntakeTypeOK
<1>2. visit'[v] = new /\ \A w \in Visits \ {v} : visit'[w] = visit[w]
  BY DEF QueueInv, IntakeTypeOK
<1>3. FormsUnanswered'
  BY <1>2 DEF QueueInv, FormsUnanswered
<1>4. ConfirmedIsQueued'
  BY <1>2 DEF QueueInv, ConfirmedIsQueued
<1> QED
  BY <1>1, <1>3, <1>4 DEF QueueInv

(* serverAccessRequestIntake.  An answer ends a visit and keeps its address. *)
LEMMA AnswerStep ==
  ASSUME QueueInv, NEW v \in Visits, NEW a, Answer(v, a),
         a \in {"ok", "invalid_input", "rate_limited", "submit_failed",
                "backend_unavailable"},
         requests \subseteq requests', requests' \subseteq Request,
         a = "ok" => \E q \in requests' : q.email = visit[v].email,
         now' = now, rows' = rows
  PROVE  QueueInv'
<1> DEFINE new == [Blank EXCEPT !.step = "answered", !.email = visit[v].email, !.answer = a]
<1>1. visit[v].email \in Emails \cup {""}
  BY DEF QueueInv, IntakeTypeOK, VisitRow
<1>2. /\ new \in VisitRow /\ new.step = "answered" /\ new.answer = a
      /\ new.email = visit[v].email
  BY <1>1 DEF Blank, VisitRow, Forms
<1>3. visit' = [visit EXCEPT ![v] = new]
  BY DEF Answer
<1> HIDE DEF new
<1> QED
  BY <1>2, <1>3, VisitStep

(* Every step of a visitor, the form's and the endpoint's, keeps the queue. *)
LEMMA VisitorStep ==
  ASSUME QueueInv, NEW v \in Visits, Visitor(v)
  PROVE  QueueInv'
<1> DEFINE old == visit[v]
<1>1. old \in VisitRow /\ now \in Nat /\ requests \subseteq Request /\ rows' = rows
  BY DEF QueueInv, IntakeTypeOK, Visitor, pageVars
<1>2. /\ old.step = "form" => old.answer = ""
      /\ old.step \in {"sent", "reserving", "granted", "checked"} => old.email \in Emails
      /\ old.answer = "ok" => \E r \in requests : r.email = old.email
  BY DEF QueueInv, FormsUnanswered, ConfirmedIsQueued
<1>3. ASSUME NEW e \in Emails, NEW a \in Addresses, NEW f \in Forms, Submit(v, e, a, f)
      PROVE  QueueInv'
  <2> DEFINE sent == [old EXCEPT !.step = "sent", !.email = e,
                                 !.from = normaliseAddress(a), !.form = f]
             over == [old EXCEPT !.step = "over", !.answer = "invalid_input"]
             new == IF validateAccessRequest(f) THEN sent ELSE over
  <2>1. /\ visit' = [visit EXCEPT ![v] = new] /\ old.step = "form"
        /\ UNCHANGED <<now, requests>>
    BY <1>3 DEF Submit
  <2>2. sent \in VisitRow /\ sent.step = "sent" /\ sent.email = e /\ sent.answer = ""
    BY <1>1, <1>2, <2>1 DEF VisitRow
  <2>3. over \in VisitRow /\ over.step = "over" /\ over.answer = "invalid_input"
    BY <1>1 DEF VisitRow
  <2> HIDE DEF sent, over
  <2>4. /\ new \in VisitRow /\ new.step # "form" /\ new.answer # "ok"
        /\ new.step \in {"sent", "reserving", "granted", "checked"} => new.email \in Emails
    BY <2>2, <2>3
  <2> HIDE DEF new
  <2> QED
    BY <1>1, <2>1, <2>4, VisitStep
<1>4. ASSUME NEW next \in {"reserving", "granted", "checked"}, NEW moment \in Nat,
             old.step \in {"sent", "reserving", "granted"},
             visit' = [visit EXCEPT ![v].step = next, ![v].at = moment],
             UNCHANGED <<now, requests>>
      PROVE  QueueInv'
  <2> DEFINE new == [old EXCEPT !.step = next, !.at = moment]
  <2>1. /\ new \in VisitRow /\ new.step = next /\ new.email = old.email
        /\ new.answer = old.answer
    BY <1>1, <1>4 DEF VisitRow
  <2>2. visit' = [visit EXCEPT ![v] = new]
    BY <1>1, <1>4
  <2> HIDE DEF new
  <2>3. new.answer = "ok" => \E q \in requests' : q.email = new.email
    BY <1>2, <1>4, <2>1
  <2>4. new.step # "form" /\ new.email \in Emails
    BY <1>2, <1>4, <2>1
  <2> QED
    BY <1>1, <1>4, <2>1, <2>2, <2>3, <2>4, VisitStep
<1>5. CASE RefuseEarly(v) \/ ReservationFails(v) \/ StoreFails(v)
  <2>1. PICK a \in {"invalid_input", "backend_unavailable", "submit_failed"} : Answer(v, a)
    BY <1>5 DEF RefuseEarly, ReservationFails, StoreFails
  <2>2. UNCHANGED <<now, requests>>
    BY <1>5 DEF RefuseEarly, ReservationFails, StoreFails
  <2> QED
    BY <1>1, <2>1, <2>2, AnswerStep
<1>6. CASE BeginReservation(v)
  BY <1>1, <1>4, <1>6 DEF BeginReservation
<1>7. CASE ReserveSlot(v)
  <2>1. old.step = "reserving" /\ UNCHANGED <<now, requests>>
    BY <1>7 DEF ReserveSlot
  <2>2. \/ Answer(v, "rate_limited")
        \/ visit' = [visit EXCEPT ![v].step = "granted"]
    BY <1>7 DEF ReserveSlot
  <2>3. CASE Answer(v, "rate_limited")
    BY <1>1, <2>1, <2>3, AnswerStep
  <2>4. CASE visit' = [visit EXCEPT ![v].step = "granted"]
    <3>1. visit' = [visit EXCEPT ![v].step = "granted", ![v].at = old.at]
      BY <1>1, <2>4 DEF QueueInv, IntakeTypeOK, VisitRow
    <3>2. old.at \in Nat
      BY <1>1 DEF VisitRow
    <3> QED
      BY <1>4, <2>1, <3>1, <3>2
  <2> QED
    BY <2>2, <2>3, <2>4
<1>8. CASE CheckDuplicate(v)
  <2>1. old.step = "granted" /\ UNCHANGED <<now, requests>>
    BY <1>8 DEF CheckDuplicate
  <2>2. CASE OpenFor(old.email) # {}
    <3>1. Answer(v, "ok")
      BY <1>8, <2>2 DEF CheckDuplicate
    <3>2. \E r \in requests : r.email = old.email
      BY <2>2 DEF OpenFor
    <3> QED
      BY <1>1, <2>1, <3>1, <3>2, AnswerStep
  <2>3. CASE OpenFor(old.email) = {}
    <3>1. visit' = [visit EXCEPT ![v].step = "checked"]
      BY <1>8, <2>3 DEF CheckDuplicate
    <3>2. visit' = [visit EXCEPT ![v].step = "checked", ![v].at = old.at]
      BY <1>1, <3>1 DEF QueueInv, IntakeTypeOK, VisitRow
    <3>3. old.at \in Nat
      BY <1>1 DEF VisitRow
    <3> QED
      BY <1>4, <2>1, <3>2, <3>3
  <2> QED
    BY <2>2, <2>3
<1>9. CASE InsertRequest(v)
  <2> DEFINE request == [id |-> v, email |-> old.email, status |-> "new"]
  <2>1. /\ requests' = requests \cup {request} /\ Answer(v, "ok") /\ now' = now
        /\ old.email \in Emails
    BY <1>2, <1>9 DEF InsertRequest
  <2>2. request \in Request /\ request.email = old.email
    BY <2>1 DEF Request, Statuses
  <2> HIDE DEF request
  <2> QED
    BY <1>1, <2>1, <2>2, AnswerStep
<1>10. CASE Receive(v)
  <2>1. PICK a \in {old.answer, "submit_failed"} :
          visit' = [visit EXCEPT ![v].step = "over", ![v].answer = a]
    BY <1>1, <1>10 DEF Receive, QueueInv, IntakeTypeOK, VisitRow
  <2> DEFINE new == [old EXCEPT !.step = "over", !.answer = a]
  <2>2. /\ new \in VisitRow /\ new.step = "over" /\ new.email = old.email
        /\ new.answer = a
    BY <1>1 DEF VisitRow
  <2>3. visit' = [visit EXCEPT ![v] = new] /\ UNCHANGED <<now, requests>>
    BY <1>1, <1>10, <2>1 DEF Receive
  <2> HIDE DEF new
  <2>4. new.answer = "ok" => \E q \in requests' : q.email = new.email
    BY <1>2, <2>1, <2>2, <2>3
  <2> QED
    BY <1>1, <2>2, <2>3, <2>4, VisitStep
<1> QED
  BY <1>3, <1>5, <1>6, <1>7, <1>8, <1>9, <1>10 DEF Visitor, Handle

(* Every step of the page, the calls and the clock keeps the queue.        *)
LEMMA QueueStep == QueueInv /\ [OnboardStep]_onboardVars => QueueInv'
<1> SUFFICES ASSUME QueueInv, [OnboardStep]_onboardVars
             PROVE  QueueInv'
  OBVIOUS
<1> USE DEF intakeVars, pageVars
<1>1. requests \subseteq Request /\ rows \subseteq Request
  BY DEF QueueInv, IntakeTypeOK
<1>2. ASSUME UNCHANGED <<now, visit, requests>>, rows' \in {rows, requests, {}}
      PROVE  QueueInv'
  BY <1>1, <1>2, QueueKept
<1>3. ASSUME UNCHANGED <<now, visit, rows>>, NEW id, NEW s \in Statuses,
             setAccessRequestStatus(id, s)
      PROVE  QueueInv'
  BY <1>1, <1>3, QueueKept, MarkingKeepsAddresses
<1>4. CASE UNCHANGED onboardVars
  BY <1>2, <1>4 DEF onboardVars
<1>5. ASSUME NEW v \in Visits, Visitor(v)
      PROVE  QueueInv'
  BY <1>5, VisitorStep
<1>6. CASE Tick /\ UNCHANGED <<provVars, pageVars>>
  <2>1. now' \in Nat /\ UNCHANGED <<visit, requests, rows>>
    BY <1>6 DEF Tick, QueueInv, IntakeTypeOK
  <2> QED
    BY <2>1 DEF QueueInv, IntakeTypeOK, FormsUnanswered, ConfirmedIsQueued
<1>7. CASE Load
  BY <1>2, <1>7 DEF Load, loadAccessRequests
<1>8. ASSUME NEW c \in Calls, NEW r \in rows, ClickInvite(c, r) \/ ClickResend(c, r)
      PROVE  QueueInv'
  BY <1>2, <1>8 DEF ClickInvite, ClickResend
<1>9. ASSUME NEW c \in Calls, NEW p \in People, SubmitBuyer(c, p)
      PROVE  QueueInv'
  BY <1>2, <1>9 DEF SubmitBuyer
<1>10. ASSUME NEW c \in Calls, Server(c)
       PROVE  QueueInv'
  BY <1>2, <1>10 DEF Server
<1>11. ASSUME NEW c \in Calls, FinishInvite(c)
       PROVE  QueueInv'
  BY <1>2, <1>3, <1>11 DEF FinishInvite, Statuses
<1>12. ASSUME NEW r \in rows, NEW s \in Triage, ClickDisposition(r, s)
       PROVE  QueueInv'
  <2>1. s \in Statuses
    BY TriageAssumption DEF Statuses
  <2> QED
    BY <1>3, <1>12, <2>1 DEF ClickDisposition
<1>13. CASE World
  BY <1>2, <1>13 DEF World
<1> QED
  BY <1>4, <1>5, <1>6, <1>7, <1>8, <1>9, <1>10, <1>11, <1>12, <1>13 DEF OnboardStep

(* Nobody has written yet and the queue is empty. *)
LEMMA QueueInit == OnboardInit => QueueInv
<1> SUFFICES ASSUME OnboardInit PROVE QueueInv
  OBVIOUS
<1>1. Blank \in VisitRow /\ Blank.step = "form" /\ Blank.answer = ""
  BY DEF Blank, VisitRow, Forms
<1> QED
  BY <1>1 DEF OnboardInit, IntakeInit, QueueInv, IntakeTypeOK, FormsUnanswered,
              ConfirmedIsQueued

THEOREM QueueInductive == OnboardSpec => []QueueInv
  BY QueueInit, QueueStep, PTL DEF OnboardSpec

(* serverAccessRequestIntake:219-233.  However visits overlap, whatever is  *)
(* refused, lost or repeated and however the page marks the enquiries,      *)
(* whoever was told that the enquiry was sent has one in the queue.         *)
THEOREM NoEnquiryIsDropped == OnboardSpec => []ConfirmedIsQueued
  BY QueueInductive, PTL DEF QueueInv
-----------------------------------------------------------------------------
(* The accounts.                                                           *)

(* What AnswerIsTrue says of one call, and what is true of it on the way.   *)
Sound(r, accounts, roles, known, memberships) ==
  /\ r.step # "idle" => r.email \in People
  /\ r.step \notin {"answered", "received"} => r.reason = ""
  /\ r.org # NoOrg => r.org \in known
  /\ r.kind = "buyer" /\ r.step \in {"invite", "promote", "membership"} => r.org \in known
  /\ r.step = "promote" => accounts[r.email] # "none"
  /\ r.step = "membership" => r.kind = "buyer" /\ roles[r.email] = "buyer"
  /\ r.reason = "ok" /\ r.kind = "farmer" => roles[r.email] = "farmer"
  /\ r.reason = "ok" /\ r.kind = "buyer" =>
       roles[r.email] = "buyer" /\ <<r.org, r.email>> \in memberships
  /\ r.reason = "membership_required" => roles[r.email] = "buyer"
  /\ r.reason \in {"promotion_required", "user_already_exists"} =>
       accounts[r.email] # "none"

ProvInv ==
  /\ ProvTypeOK
  /\ \A p \in People : account[p] = "none" => role[p] = "none"
  /\ \A c \in Calls : Sound(call[c], account, role, orgs, members)
  /\ MembersAreBuyers

(* What no step takes back: accounts stay, roles that were given stay,      *)
(* organisations and memberships stay, and a new member is a buyer.         *)
Grown ==
  /\ account' \in [People -> Accounts] /\ role' \in [People -> Roles]
  /\ \A p \in People : account'[p] = "none" => account[p] = "none" /\ role'[p] = "none"
  /\ \A p \in People : role[p] \in {"farmer", "buyer"} => role'[p] = role[p]
  /\ orgs \subseteq orgs' /\ orgs' \subseteq Orgs
  /\ members \subseteq members' /\ members' \subseteq Orgs \X People
  /\ \A m \in members' \ members : role'[m[2]] = "buyer"
  /\ draft' \in Orgs \cup {NoOrg}

(* A call that is not touched stays sound whatever others do. *)
LEMMA StaysSound ==
  ASSUME ProvInv, Grown, NEW c \in Calls
  PROVE  Sound(call[c], account', role', orgs', members')
<1> DEFINE r == call[c]
<1>1. r \in CallRow /\ Sound(r, account, role, orgs, members)
  BY DEF ProvInv, ProvTypeOK
<1>2. r.reason # "" => r.email \in People
  BY <1>1 DEF Sound
<1>3. \A p \in People : account[p] # "none" => account'[p] # "none"
  BY DEF Grown
<1>4. \A p \in People : \A x \in {"farmer", "buyer"} : role[p] = x => role'[p] = x
  BY DEF Grown
<1>5. orgs \subseteq orgs' /\ members \subseteq members'
  BY DEF Grown
<1> HIDE DEF r
<1>6. Sound(r, account', role', orgs', members')
  BY <1>1, <1>2, <1>3, <1>4, <1>5 DEF Sound
<1> QED
  BY <1>6 DEF r

(* Such a step leaves strangers without a role and members buyers. *)
LEMMA TablesKept ==
  ASSUME ProvInv, Grown
  PROVE  /\ \A p \in People : account'[p] = "none" => role'[p] = "none"
         /\ MembersAreBuyers'
<1>1. ASSUME NEW m \in members'
      PROVE  role'[m[2]] = "buyer"
  <2>1. CASE m \in members
    <3>1. role[m[2]] = "buyer" /\ m[2] \in People
      BY <2>1 DEF ProvInv, MembersAreBuyers, ProvTypeOK
    <3> QED
      BY <3>1 DEF Grown
  <2>2. CASE m \notin members
    BY <2>2 DEF Grown
  <2> QED
    BY <2>1, <2>2
<1> QED
  BY <1>1 DEF Grown, MembersAreBuyers

(* A step of no call, and a step that leaves its own call sound. *)
LEMMA OtherCalls ==
  ASSUME ProvInv, Grown, call' = call
  PROVE  ProvInv'
<1>1. \A c \in Calls : Sound(call'[c], account', role', orgs', members')
  BY StaysSound
<1>2. ProvTypeOK'
  BY DEF ProvInv, ProvTypeOK, Grown
<1> QED
  BY <1>1, <1>2, TablesKept DEF ProvInv

LEMMA OneCall ==
  ASSUME ProvInv, Grown, NEW c \in Calls, NEW new \in CallRow,
         call' = [call EXCEPT ![c] = new],
         Sound(new, account', role', orgs', members')
  PROVE  ProvInv'
<1>1. call'[c] = new /\ \A d \in Calls \ {c} : call'[d] = call[d]
  BY DEF ProvInv, ProvTypeOK
<1>2. \A d \in Calls : Sound(call'[d], account', role', orgs', members')
  BY <1>1, StaysSound
<1>3. ProvTypeOK'
  BY DEF ProvInv, ProvTypeOK, Grown, CallRow
<1> QED
  BY <1>2, <1>3, TablesKept DEF ProvInv

(* A step that touches none of the tables takes nothing back. *)
LEMMA TablesUntouched ==
  ASSUME ProvInv, UNCHANGED <<account, role, orgs, members>>,
         draft' \in Orgs \cup {NoOrg}
  PROVE  Grown
  BY DEF ProvInv, ProvTypeOK, Grown

(* The services start a call, with nothing answered and no organisation.   *)
LEMMA ClickKeeps ==
  ASSUME ProvInv, NEW c \in Calls, NEW p \in People,
         inviteFarmer(c, p) \/ inviteBuyer(c, p) \/ resendInvitation(c, p)
  PROVE  ProvInv'
<1>1. PICK new \in CallRow :
        /\ call' = [call EXCEPT ![c] = new]
        /\ new.email = p /\ new.reason = "" /\ new.org = NoOrg
        /\ new.step \in {"invite", "organisation", "lookup"}
        /\ new.kind = "buyer" => new.step = "organisation"
  <2> DEFINE asFarmer == [Idle EXCEPT !.kind = "farmer", !.step = "invite", !.email = p]
             asBuyer == [Idle EXCEPT !.kind = "buyer", !.step = "organisation",
                                     !.email = p, !.asked = draft]
             again == [Idle EXCEPT !.kind = "resend", !.step = "lookup", !.email = p]
  <2> USE DEF Idle, CallRow, Kinds, Steps2, Reasons
  <2>1. /\ asFarmer \in CallRow /\ asFarmer.kind = "farmer" /\ asFarmer.step = "invite"
        /\ asFarmer.email = p /\ asFarmer.reason = "" /\ asFarmer.org = NoOrg
    OBVIOUS
  <2>2. /\ again \in CallRow /\ again.kind = "resend" /\ again.step = "lookup"
        /\ again.email = p /\ again.reason = "" /\ again.org = NoOrg
    OBVIOUS
  <2>3. draft \in Orgs \cup {NoOrg}
    BY DEF ProvInv, ProvTypeOK
  <2>4. /\ asBuyer \in CallRow /\ asBuyer.step = "organisation"
        /\ asBuyer.email = p /\ asBuyer.reason = "" /\ asBuyer.org = NoOrg
    BY <2>3
  <2>5. \/ call' = [call EXCEPT ![c] = asFarmer]
        \/ call' = [call EXCEPT ![c] = asBuyer]
        \/ call' = [call EXCEPT ![c] = again]
    BY DEF inviteFarmer, inviteBuyer, resendInvitation
  <2> HIDE DEF asFarmer, asBuyer, again, CallRow
  <2> QED
    BY <2>1, <2>2, <2>4, <2>5
<1>2. UNCHANGED <<account, role, orgs, members, draft>>
  BY DEF inviteFarmer, inviteBuyer, resendInvitation
<1>3. Grown
  BY <1>2, TablesUntouched DEF ProvInv, ProvTypeOK
<1>4. Sound(new, account', role', orgs', members')
  BY <1>1 DEF Sound
<1> QED
  BY <1>1, <1>3, <1>4, OneCall

(* A call at one of its steps: what it holds, and that it has no answer yet. *)
LEMMA OnTheWay ==
  ASSUME ProvInv, NEW c \in Calls, call[c].step \notin {"idle", "answered", "received"}
  PROVE  /\ call[c] \in CallRow /\ call[c].email \in People /\ call[c].reason = ""
         /\ call[c].org # NoOrg => call[c].org \in orgs
         /\ account[call[c].email] \in Accounts
  BY DEF ProvInv, ProvTypeOK, Sound

(* The call goes on to another step. *)
LEMMA CallGoesOn ==
  ASSUME ProvInv, Grown, NEW c \in Calls, NEW step \in Steps2,
         call[c].step \notin {"idle", "answered", "received"},
         step \notin {"idle", "answered", "received"},
         GoTo(c, step),
         call[c].kind = "buyer" /\ step \in {"invite", "promote", "membership"} =>
           call[c].org \in orgs,
         step = "promote" => account'[call[c].email] # "none",
         step = "membership" => call[c].kind = "buyer" /\ role'[call[c].email] = "buyer"
  PROVE  ProvInv'
<1> DEFINE r == call[c]
           new == [r EXCEPT !.step = step]
<1>1. r \in CallRow /\ r.email \in People /\ r.reason = "" /\ (r.org # NoOrg => r.org \in orgs)
  BY OnTheWay
<1>2. /\ new \in CallRow /\ new.kind = r.kind /\ new.step = step /\ new.email = r.email
      /\ new.reason = "" /\ new.org = r.org
  BY <1>1 DEF CallRow
<1>3. call' = [call EXCEPT ![c] = new]
  BY DEF GoTo
<1>4. orgs \subseteq orgs'
  BY DEF Grown
<1> HIDE DEF new
<1>5. Sound(new, account', role', orgs', members')
  BY <1>1, <1>2, <1>4 DEF Sound
<1> QED
  BY <1>2, <1>3, <1>5, OneCall

(* The call is answered. *)
LEMMA CallIsAnswered ==
  ASSUME ProvInv, Grown, NEW c \in Calls, NEW reason \in Reasons,
         call[c].step \notin {"idle", "answered", "received"},
         Reply(c, reason),
         reason = "ok" /\ call[c].kind = "farmer" => role'[call[c].email] = "farmer",
         reason = "ok" /\ call[c].kind = "buyer" =>
           role'[call[c].email] = "buyer" /\ <<call[c].org, call[c].email>> \in members',
         reason = "membership_required" => role'[call[c].email] = "buyer",
         reason \in {"promotion_required", "user_already_exists"} =>
           account'[call[c].email] # "none"
  PROVE  ProvInv'
<1> DEFINE r == call[c]
           new == [r EXCEPT !.step = "answered", !.reason = reason]
<1>1. r \in CallRow /\ r.email \in People /\ (r.org # NoOrg => r.org \in orgs)
  BY OnTheWay
<1>2. /\ new \in CallRow /\ new.kind = r.kind /\ new.step = "answered"
      /\ new.email = r.email /\ new.reason = reason /\ new.org = r.org
  BY <1>1 DEF CallRow, Steps2
<1>3. call' = [call EXCEPT ![c] = new]
  BY <1>1 DEF Reply, ProvInv, ProvTypeOK
<1>4. orgs \subseteq orgs'
  BY DEF Grown
<1> HIDE DEF new
<1>5. Sound(new, account', role', orgs', members')
  BY <1>1, <1>2, <1>4 DEF Sound
<1> QED
  BY <1>2, <1>3, <1>5, OneCall

(* Admin-Auth gives an account, 'pending', to whoever has none. *)
LEMMA InviteGrows ==
  ASSUME ProvInv, NEW p \in People, inviteUserByEmail(p), UNCHANGED <<orgs, members, draft>>
  PROVE  Grown /\ account'[p] # "none"
  BY DEF ProvInv, ProvTypeOK, Grown, inviteUserByEmail, Accounts, Roles

(* A profile is promoted once, from 'pending'. *)
LEMMA PromotionGrows ==
  ASSUME ProvInv, NEW p \in People, NEW r \in {"farmer", "buyer"}, promoteProfile(p, r),
         UNCHANGED <<account, orgs, members, draft>>
  PROVE  Grown /\ role'[p] = r
  BY DEF ProvInv, ProvTypeOK, Grown, promoteProfile, Roles

(* serverBuyerProvisioning, serverFarmerProvisioning, serverInvitationResend: *)
(* every step of an endpoint, whichever way it goes.                          *)
LEMMA ServeKeeps ==
  ASSUME ProvInv, NEW c \in Calls, Serve(c)
  PROVE  ProvInv'
<1> DEFINE r == call[c]
<1> USE DEF Steps2, Reasons
<1>1. CASE RefuseCaller(c)
  <2>1. r.step \in {"invite", "organisation", "lookup"}
    <3>1. r.kind \in {"farmer", "buyer", "resend"} /\ r.step = FirstStep[r.kind]
      BY <1>1 DEF RefuseCaller, ProvInv, ProvTypeOK, CallRow, Kinds
    <3>2. /\ FirstStep["farmer"] = "invite" /\ FirstStep["buyer"] = "organisation"
          /\ FirstStep["resend"] = "lookup"
      BY DEF FirstStep
    <3> QED
      BY <3>1, <3>2
  <2>2. Reply(c, "refused") /\ UNCHANGED <<account, role, orgs, members, draft>>
    BY <1>1 DEF RefuseCaller
  <2>3. Grown
    BY <2>2, TablesUntouched DEF ProvInv, ProvTypeOK
  <2> QED
    BY <2>1, <2>2, <2>3, CallIsAnswered
<1>2. CASE resolveOrCreateOrganisation(c)
  <2>1. r.kind = "buyer" /\ r.step = "organisation"
    BY <1>2 DEF resolveOrCreateOrganisation, At
  <2>2. r \in CallRow /\ r.email \in People /\ r.reason = ""
    BY <2>1, OnTheWay
  <2>3. ASSUME NEW o \in Orgs, orgs' = orgs \cup {o}, UNCHANGED <<account, role, members, draft>>,
               call' = [call EXCEPT ![c].step = "invite", ![c].org = o]
        PROVE  ProvInv'
    <3> DEFINE new == [r EXCEPT !.step = "invite", !.org = o]
    <3>1. /\ new \in CallRow /\ new.kind = "buyer" /\ new.step = "invite" /\ new.org = o
          /\ new.email = r.email /\ new.reason = ""
      BY <2>1, <2>2 DEF CallRow
    <3>2. call' = [call EXCEPT ![c] = new]
      BY <2>3 DEF ProvInv, ProvTypeOK
    <3>3. Grown
      BY <2>3 DEF Grown, ProvInv, ProvTypeOK
    <3> HIDE DEF new
    <3>4. Sound(new, account', role', orgs', members')
      BY <2>2, <2>3, <3>1 DEF Sound
    <3> QED
      BY <3>1, <3>2, <3>3, <3>4, OneCall
  <2>4. ASSUME NEW a \in {"organisation_not_found", "organisation_failed"},
               Reply(c, a), UNCHANGED <<account, role, orgs, members, draft>>
        PROVE  ProvInv'
    <3>1. Grown
      BY <2>4, TablesUntouched DEF ProvInv, ProvTypeOK
    <3> QED
      BY <2>1, <2>4, <3>1, CallIsAnswered
  <2>5. CASE /\ r.asked \in orgs /\ orgs' = orgs
             /\ call' = [call EXCEPT ![c].step = "invite", ![c].org = r.asked]
    <3>1. r.asked \in Orgs /\ orgs' = orgs \cup {r.asked}
      BY <2>5 DEF ProvInv, ProvTypeOK
    <3> QED
      BY <1>2, <2>3, <2>5, <3>1 DEF resolveOrCreateOrganisation
  <2> QED
    BY <1>2, <2>3, <2>4, <2>5 DEF resolveOrCreateOrganisation
<1>3. CASE Invite(c)
  <2>1. r.kind \in {"farmer", "buyer"} /\ r.step = "invite" /\ UNCHANGED <<orgs, members, draft>>
    BY <1>3 DEF Invite, At
  <2>2. r.email \in People /\ (r.kind = "buyer" => r.org \in orgs)
    BY <2>1 DEF ProvInv, Sound
  <2>3. CASE inviteUserByEmail(r.email) /\ GoTo(c, "promote")
    <3>1. PICK p \in People : r.email = p
      BY <2>2
    <3>2. Grown /\ account'[p] # "none"
      BY <2>1, <2>3, <3>1, InviteGrows
    <3> QED
      BY <2>1, <2>2, <2>3, <3>1, <3>2, CallGoesOn
  <2>4. ASSUME NEW a \in {"user_already_exists", "invite_failed"}, Reply(c, a),
               a = "user_already_exists" => account[r.email] # "none",
               UNCHANGED <<account, role>>
        PROVE  ProvInv'
    <3>1. Grown
      BY <2>1, <2>4, TablesUntouched DEF ProvInv, ProvTypeOK
    <3> QED
      BY <2>1, <2>4, <3>1, CallIsAnswered
  <2> QED
    BY <1>3, <2>3, <2>4 DEF Invite
<1>4. CASE Promote(c)
  <2>1. r.kind \in {"farmer", "buyer"} /\ r.step = "promote"
        /\ UNCHANGED <<account, orgs, members, draft>>
    BY <1>4 DEF Promote, At
  <2>2. r.email \in People /\ account[r.email] # "none" /\ (r.kind = "buyer" => r.org \in orgs)
    BY <2>1 DEF ProvInv, Sound
  <2>3. CASE promoteProfile(r.email, r.kind)
    <3>1. PICK p \in People, k \in {"farmer", "buyer"} : r.email = p /\ r.kind = k
      BY <2>1, <2>2
    <3>2. Grown /\ role'[p] = k
      BY <2>1, <2>3, <3>1, PromotionGrows
    <3>3. CASE k = "farmer" /\ Reply(c, "ok")
      BY <2>1, <3>1, <3>2, <3>3, CallIsAnswered
    <3>4. CASE k = "buyer" /\ GoTo(c, "membership")
      BY <2>1, <2>2, <3>1, <3>2, <3>4, CallGoesOn
    <3>5. \/ k = "farmer" /\ Reply(c, "ok")
          \/ k = "buyer" /\ GoTo(c, "membership")
          \/ Reply(c, "promotion_required") /\ UNCHANGED role
      BY <1>4, <3>1 DEF Promote
    <3>6. CASE Reply(c, "promotion_required") /\ UNCHANGED role
      BY <2>1, <2>2, <3>2, <3>6, CallIsAnswered
    <3> QED
      BY <3>3, <3>4, <3>5, <3>6
  <2>4. CASE Reply(c, "promotion_required") /\ UNCHANGED role
    <3>1. Grown
      BY <2>1, <2>4, TablesUntouched DEF ProvInv, ProvTypeOK
    <3> QED
      BY <2>1, <2>2, <2>4, <3>1, CallIsAnswered
  <2> QED
    BY <1>4, <2>3, <2>4 DEF Promote
<1>5. CASE recordMembership(c)
  <2>1. r.kind = "buyer" /\ r.step = "membership" /\ UNCHANGED <<account, role, orgs, draft>>
    BY <1>5 DEF recordMembership, At
  <2>2. r.email \in People /\ role[r.email] = "buyer" /\ r.org \in orgs
    BY <2>1 DEF ProvInv, Sound
  <2>3. CASE members' = members \cup {<<r.org, r.email>>} /\ Reply(c, "ok")
    <3>1. Grown
      BY <2>1, <2>2, <2>3 DEF Grown, ProvInv, ProvTypeOK
    <3> QED
      BY <2>1, <2>2, <2>3, <3>1, CallIsAnswered
  <2>4. CASE Reply(c, "membership_required") /\ UNCHANGED members
    <3>1. Grown
      BY <2>1, <2>4, TablesUntouched DEF ProvInv, ProvTypeOK
    <3> QED
      BY <2>1, <2>2, <2>4, <3>1, CallIsAnswered
  <2> QED
    BY <1>5, <2>3, <2>4 DEF recordMembership
<1>6. CASE LookUp(c) \/ reissueInvitation(c)
  <2>1. r.kind = "resend" /\ r.step \in {"lookup", "reissue"}
        /\ UNCHANGED <<account, role, orgs, members, draft>>
    BY <1>6 DEF LookUp, reissueInvitation, At
  <2>2. Grown
    BY <2>1, TablesUntouched DEF ProvInv, ProvTypeOK
  <2>3. \/ GoTo(c, "reissue")
        \/ \E a \in {"already_active", "no_such_account", "ok", "link", "reissue_failed"} :
             Reply(c, a)
    BY <1>6 DEF LookUp, reissueInvitation
  <2> QED
    BY <2>1, <2>2, <2>3, CallGoesOn, CallIsAnswered
<1> QED
  BY <1>1, <1>2, <1>3, <1>4, <1>5, <1>6
     DEF Serve, handleProvisionFarmer, handleProvisionBuyer, handleResendInvitation

(* The browser, the host and the other administrators.                     *)
LEMMA RestKeeps ==
  ASSUME ProvInv,
         \/ \E c \in Calls : LoseConnection(c) \/ CutOff(c) \/ ReceiveAnswer(c)
         \/ \E p \in People : provisionFarmer(p) \/ Register(p) \/ ConfirmAccount(p)
         \/ \E o \in Orgs : PickOrganisation(o)
  PROVE  ProvInv'
<1>1. ASSUME NEW c \in Calls, LoseConnection(c) \/ CutOff(c) \/ ReceiveAnswer(c)
      PROVE  ProvInv'
  <2> DEFINE r == call[c]
  <2>1. r \in CallRow /\ Sound(r, account, role, orgs, members)
    BY DEF ProvInv, ProvTypeOK
  <2>2. PICK step \in Steps2, lost \in BOOLEAN :
          /\ call' = [call EXCEPT ![c].step = step, ![c].lost = lost]
          /\ r.step # "idle" /\ step \in {r.step, "received"}
    <3>1. CASE LoseConnection(c)
      <4>1. call' = [call EXCEPT ![c].step = r.step, ![c].lost = TRUE]
        BY <2>1, <3>1 DEF LoseConnection, ProvInv, ProvTypeOK, CallRow
      <4> QED
        BY <2>1, <3>1, <4>1 DEF LoseConnection, Awaited, CallRow
    <3>2. CASE CutOff(c)
      BY <3>2 DEF CutOff, Steps2
    <3>3. CASE ReceiveAnswer(c)
      <4>1. call' = [call EXCEPT ![c].step = "received", ![c].lost = r.lost]
        BY <2>1, <3>3 DEF ReceiveAnswer, GoTo, ProvInv, ProvTypeOK, CallRow
      <4> QED
        BY <2>1, <3>3, <4>1 DEF ReceiveAnswer, Steps2, CallRow
    <3> QED
      BY <1>1, <3>1, <3>2, <3>3
  <2> DEFINE new == [r EXCEPT !.step = step, !.lost = lost]
  <2>3. /\ new \in CallRow /\ new.kind = r.kind /\ new.step = step /\ new.org = r.org
        /\ new.email = r.email /\ new.reason = r.reason
    BY <2>1 DEF CallRow
  <2>4. call' = [call EXCEPT ![c] = new]
    BY <2>2 DEF ProvInv, ProvTypeOK
  <2>5. UNCHANGED <<account, role, orgs, members>> /\ draft' \in Orgs \cup {NoOrg}
    BY <1>1, <2>1 DEF LoseConnection, CutOff, ReceiveAnswer, ProvInv, ProvTypeOK, CallRow
  <2>6. Grown
    BY <2>5, TablesUntouched
  <2> HIDE DEF new
  <2>7. Sound(new, account', role', orgs', members')
    BY <2>1, <2>2, <2>3, <2>5 DEF Sound
  <2> QED
    BY <2>3, <2>4, <2>6, <2>7, OneCall
<1>2. ASSUME NEW p \in People, provisionFarmer(p) \/ Register(p) \/ ConfirmAccount(p)
      PROVE  ProvInv'
  <2>1. Grown /\ call' = call
    BY <1>2 DEF provisionFarmer, listPendingProfiles, Register, ConfirmAccount,
                Grown, ProvInv, ProvTypeOK, Accounts, Roles
  <2> QED
    BY <2>1, OtherCalls
<1>3. ASSUME NEW o \in Orgs, PickOrganisation(o)
      PROVE  ProvInv'
  <2>1. Grown /\ call' = call
    BY <1>3, TablesUntouched DEF PickOrganisation
  <2> QED
    BY <2>1, OtherCalls
<1> QED
  BY <1>1, <1>2, <1>3

(* Every step of the page, the calls, the visitors and the world.          *)
LEMMA ProvStep == QueueInv /\ ProvInv /\ [OnboardStep]_onboardVars => ProvInv'
<1> SUFFICES ASSUME QueueInv, ProvInv, [OnboardStep]_onboardVars
             PROVE  ProvInv'
  OBVIOUS
<1>1. ASSUME UNCHANGED provVars
      PROVE  ProvInv'
  BY <1>1 DEF provVars, ProvInv, ProvTypeOK, MembersAreBuyers
<1>2. ASSUME NEW c \in Calls, NEW r \in rows, ClickInvite(c, r) \/ ClickResend(c, r)
      PROVE  ProvInv'
  <2>1. r.email \in People
    BY AddressAssumption DEF QueueInv, IntakeTypeOK, Request
  <2>2. inviteFarmer(c, r.email) \/ resendInvitation(c, r.email)
    BY <1>2 DEF ClickInvite, ClickResend
  <2>3. PICK p \in People : r.email = p
    BY <2>1
  <2> QED
    BY <2>2, <2>3, ClickKeeps
<1>3. ASSUME NEW c \in Calls, NEW p \in People, SubmitBuyer(c, p)
      PROVE  ProvInv'
  BY <1>3, ClickKeeps DEF SubmitBuyer
<1>4. ASSUME NEW c \in Calls, Server(c)
      PROVE  ProvInv'
  BY <1>4, ServeKeeps, RestKeeps DEF Server
<1>5. ASSUME NEW c \in Calls, FinishInvite(c)
      PROVE  ProvInv'
  BY <1>5, RestKeeps DEF FinishInvite
<1>6. CASE World
  BY <1>6, RestKeeps DEF World
<1>7. ASSUME NEW v \in Visits, Visitor(v)
      PROVE  UNCHANGED provVars
  BY <1>7 DEF Visitor
<1>8. ASSUME NEW r \in rows, NEW s \in Triage, ClickDisposition(r, s)
      PROVE  UNCHANGED provVars
  BY <1>8 DEF ClickDisposition
<1>9. ASSUME \/ UNCHANGED onboardVars
             \/ Tick /\ UNCHANGED <<provVars, pageVars>>
             \/ Load
      PROVE  UNCHANGED provVars
  BY <1>9 DEF onboardVars, Load
<1> QED
  BY <1>1, <1>2, <1>3, <1>4, <1>5, <1>6, <1>7, <1>8, <1>9 DEF OnboardStep

(* Nobody has an account and no call was made. *)
LEMMA ProvStart == OnboardInit => ProvInv
<1> SUFFICES ASSUME OnboardInit PROVE ProvInv
  OBVIOUS
<1>1. Idle \in CallRow /\ Idle.step = "idle" /\ Idle.reason = "" /\ Idle.org = NoOrg
  BY DEF Idle, CallRow, Kinds, Steps2, Reasons
<1>2. Sound(Idle, account, role, orgs, members)
  BY <1>1 DEF Sound
<1>3. ProvTypeOK
  BY <1>1 DEF OnboardInit, ProvInit, ProvTypeOK, Accounts, Roles
<1> QED
  BY <1>2, <1>3 DEF OnboardInit, ProvInit, ProvInv, MembersAreBuyers

THEOREM AccountsInductive == OnboardSpec => []ProvInv
  BY QueueInductive, ProvStart, ProvStep, PTL DEF OnboardSpec

(* serverBuyerProvisioning:46-47, 228-283; serverFarmerProvisioning:128-155. *)
(* What an answer of an endpoint says was done is done and stays done,       *)
(* whichever calls, approvals and failures come before it and after it.      *)
THEOREM AnswersAreTrue == OnboardSpec => []AnswerIsTrue
<1>1. ProvInv => AnswerIsTrue
  BY DEF ProvInv, Sound, AnswerIsTrue
<1> QED
  BY <1>1, AccountsInductive, PTL

(* serverBuyerProvisioning:42-44.  No order of the calls, and no call cut    *)
(* off, leaves somebody a member of a buyer organisation without the role.   *)
THEOREM OnlyBuyersAreMembers == OnboardSpec => []MembersAreBuyers
  BY AccountsInductive, PTL DEF ProvInv

---------------------------------------------------------------------------
(* The operations desk. What is due is a set of matters each of which      *)
(* several tables bear out, each by itself: what two reads brought at two  *)
(* moments shows a matter that was due at both.                            *)

FarmRow == [status : FarmVerdict \cup {"none", "Under Review"}, declared : BOOLEAN]
BatchRow == [status : BatchVerdict \cup {"none"}, coa : Certificates]
DeskTables == [farms : [DeskFarms -> FarmRow], batches : [DeskBatches -> BatchRow],
               requests : SUBSET Subjects, rules : BOOLEAN,
               alerts : SUBSET (Subjects \cup {Stranger})]

(* The queue of farms that owe an answer has a name of its own. *)
AnswerOwed == "follow-up farm"
OwesAnswer(row) == row.status = "More Information Required"
InReview(row) == row.status \in {"Pending Review", "Missing Document"}

LEMMA AnswerOwedIsApart ==
  /\ AnswerOwed # "alert" /\ AnswerOwed # "auto" /\ AnswerOwed # "follow-up"
  /\ AnswerOwed # "farmer-approval" /\ AnswerOwed # "onboarding" /\ AnswerOwed # "document"
  /\ AnswerOwed # "risk" /\ AnswerOwed # "coa" /\ AnswerOwed # "inventory-review"
BY Zenon DEF AnswerOwed

(* A matter and the rows it stands on, queue by queue. *)
DueAs(m, h) ==
  \/ \E f \in Rows(h.farms) : m = <<"farmer-approval", f>> /\ h.farms[f].status \in AwaitingReview
  \/ \E f \in Rows(h.farms) : m = <<"onboarding", f>> /\ h.farms[f].status = "Draft"
                                                      /\ ~h.farms[f].declared
  \/ \E f \in Rows(h.farms) : m = <<AnswerOwed, f>> /\ OwesAnswer(h.farms[f])
  \/ \E f \in Rows(h.farms), t \in Requirements : m = <<"document", f, t>> /\ Missing(h, f, t)
  \/ \E f \in Rows(h.farms) : m = <<"risk", f>> /\ h.farms[f].status = "Watchlist"
  \/ \E b \in Rows(h.batches) : m = <<"risk", b>> /\ h.batches[b].coa \in {"missing", "failed"}
  \/ \E b \in Rows(h.batches) : m = <<"coa", b>> /\ h.batches[b].coa \in {"missing", "failed"}
  \/ \E b \in Rows(h.batches) : m = <<"inventory-review", b>> /\ InReview(h.batches[b])
  \/ \E b \in Rows(h.batches) : m = <<"auto", b>> /\ h.rules /\ h.batches[b].coa = "missing"
  \/ \E s \in h.alerts : m = <<"alert", s>>
  \/ \E s \in h.requests : m = <<"follow-up", s>>

View(h) == [farms |-> h.farms, batches |-> h.batches, known |-> TRUE, requests |-> h.requests,
            rules |-> h.rules, alerts |-> h.alerts, failed |-> {}]

LEMMA DueUnfolded == ASSUME NEW h, NEW m PROVE m \in Due(h) <=> DueAs(m, h)
<1> DEFINE v == View(h)
<1>1. /\ v.farms = h.farms /\ v.batches = h.batches /\ v.requests = h.requests
      /\ v.rules = h.rules /\ v.alerts = h.alerts /\ v.failed = {} /\ v.known = TRUE
  BY DEF View
<1>2. Due(h) = buildOperationsDeskItems(v)
  BY DEF Due, View
<1>3. \A f, t : Missing(v, f, t) <=> Missing(h, f, t)
  BY <1>1, Zenon DEF Missing
<1> HIDE DEF v
<1>4. m \in FarmQueues(v) <=>
      \/ \E f \in Rows(h.farms) : m = <<"farmer-approval", f>> /\ h.farms[f].status \in AwaitingReview
      \/ \E f \in Rows(h.farms) : m = <<"onboarding", f>> /\ h.farms[f].status = "Draft"
                                                          /\ ~h.farms[f].declared
  BY <1>1 DEF FarmQueues
<1>5. m \in FarmFollowUps(v) <=>
      \E f \in Rows(h.farms) : m = <<AnswerOwed, f>> /\ OwesAnswer(h.farms[f])
  BY <1>1 DEF FarmFollowUps, AnswerOwed, OwesAnswer
<1>6. m \in DocumentQueue(v) <=>
      \E f \in Rows(h.farms), t \in Requirements : m = <<"document", f, t>> /\ Missing(h, f, t)
  <2>1. EligibleTypes(v) = Requirements
    BY <1>1 DEF EligibleTypes
  <2>2. DocumentQueue(v) = {x \in {"document"} \X Rows(h.farms) \X Requirements : Missing(h, x[2], x[3])}
    BY <1>1, <1>3, <2>1 DEF DocumentQueue
  <2> QED BY <2>2, SMT
<1>7. m \in RiskQueue(v) <=>
      \/ \E f \in Rows(h.farms) : m = <<"risk", f>> /\ h.farms[f].status = "Watchlist"
      \/ \E b \in Rows(h.batches) : m = <<"risk", b>> /\ h.batches[b].coa \in {"missing", "failed"}
  BY <1>1 DEF RiskQueue
<1>8. m \in BatchQueues(v) <=>
      \/ \E b \in Rows(h.batches) : m = <<"coa", b>> /\ h.batches[b].coa \in {"missing", "failed"}
      \/ \E b \in Rows(h.batches) : m = <<"inventory-review", b>> /\ InReview(h.batches[b])
  BY <1>1 DEF BatchQueues, InReview
<1>9. m \in ComplianceQueue(v) <=>
      \/ \E b \in Rows(h.batches) : m = <<"auto", b>> /\ h.rules /\ h.batches[b].coa = "missing"
      \/ \E s \in h.alerts : m = <<"alert", s>>
  BY <1>1 DEF ComplianceQueue, AutoAlerts
<1>10. m \in FollowUpQueue(v) <=> \E s \in h.requests : m = <<"follow-up", s>>
  BY <1>1 DEF FollowUpQueue
<1>11. m \in buildOperationsDeskItems(v) <=>
       \/ m \in FarmQueues(v) \/ m \in FarmFollowUps(v) \/ m \in DocumentQueue(v)
       \/ m \in BatchQueues(v) \/ m \in RiskQueue(v) \/ m \in ComplianceQueue(v)
       \/ m \in FollowUpQueue(v)
  BY <1>1 DEF buildOperationsDeskItems
<1> QED BY <1>2, <1>4, <1>5, <1>6, <1>7, <1>8, <1>9, <1>10, <1>11, Zenon DEF DueAs

(* These rows of one table bear a matter out: it was due when the table    *)
(* was like this.                                                          *)
Bears(m, p, those) == \E h \in DeskTables : h[p] = those /\ m \in Due(h)

(* What each of its sources bears out at a moment of its own is due in the *)
(* tables they make together.                                              *)
LEMMA BorneOutIsDue ==
  ASSUME NEW v \in DeskTables, NEW h0 \in DeskTables, NEW m \in Due(h0),
         \A k \in ReadFrom(m) : \A p \in PartsOf[k] : Bears(m, p, v[p])
  PROVE  m \in Due(v)
<1> USE DEF Bears
<1>c. "core" \in ReadFrom(m) =>
        /\ \E h \in DeskTables : h.farms = v.farms /\ DueAs(m, h)
        /\ \E h \in DeskTables : h.batches = v.batches /\ DueAs(m, h)
  BY DueUnfolded DEF PartsOf
<1>l. "compliance" \in ReadFrom(m) =>
        /\ \E h \in DeskTables : h.rules = v.rules /\ DueAs(m, h)
        /\ \E h \in DeskTables : h.alerts = v.alerts /\ DueAs(m, h)
  BY DueUnfolded DEF PartsOf
<1>r. "requests" \in ReadFrom(m) => \E h \in DeskTables : h.requests = v.requests /\ DueAs(m, h)
  BY DueUnfolded DEF PartsOf
<1>d. DueAs(m, h0)
  BY DueUnfolded
<1>s. \A h \in DeskTables : /\ Rows(h.farms) \subseteq DeskFarms
                            /\ Rows(h.batches) \subseteq DeskBatches
  BY DEF DeskTables, Rows
<1> SUFFICES DueAs(m, v)
  BY DueUnfolded
<1> HIDE DEF Bears
<1>1. CASE \E f \in Rows(h0.farms) : m = <<"farmer-approval", f>>
  <2>1. "core" \in ReadFrom(m)
    BY <1>1 DEF ReadFrom
  <2>2. PICK h \in DeskTables : h.farms = v.farms /\ DueAs(m, h)
    BY <2>1, <1>c
  <2>3. \E f \in Rows(h.farms) : m = <<"farmer-approval", f>> /\ h.farms[f].status \in AwaitingReview
    BY <2>2, <1>1, AnswerOwedIsApart DEF DueAs
  <2> QED BY <2>2, <2>3 DEF DueAs
<1>2. CASE \E f \in Rows(h0.farms) : m = <<"onboarding", f>>
  <2>1. "core" \in ReadFrom(m)
    BY <1>2 DEF ReadFrom
  <2>2. PICK h \in DeskTables : h.farms = v.farms /\ DueAs(m, h)
    BY <2>1, <1>c
  <2>3. \E f \in Rows(h.farms) : m = <<"onboarding", f>> /\ h.farms[f].status = "Draft"
                                 /\ ~h.farms[f].declared
    BY <2>2, <1>2, AnswerOwedIsApart DEF DueAs
  <2> QED BY <2>2, <2>3 DEF DueAs
<1>3. CASE \E f \in Rows(h0.farms) : m = <<AnswerOwed, f>>
  <2>1. "core" \in ReadFrom(m)
    BY <1>3, AnswerOwedIsApart DEF ReadFrom
  <2>2. PICK h \in DeskTables : h.farms = v.farms /\ DueAs(m, h)
    BY <2>1, <1>c
  <2>3. \E f \in Rows(h.farms) : m = <<AnswerOwed, f>> /\ OwesAnswer(h.farms[f])
    BY <2>2, <1>3, AnswerOwedIsApart DEF DueAs
  <2> QED BY <2>2, <2>3 DEF DueAs
<1>4. CASE \E f \in Rows(h0.farms), t \in Requirements : m = <<"document", f, t>>
  <2>1. "core" \in ReadFrom(m)
    BY <1>4 DEF ReadFrom
  <2>2. PICK hf \in DeskTables : hf.farms = v.farms /\ DueAs(m, hf)
    BY <2>1, <1>c
  <2>3. PICK hb \in DeskTables : hb.batches = v.batches /\ DueAs(m, hb)
    BY <2>1, <1>c
  <2>4. PICK f, t : m = <<"document", f, t>>
    BY <1>4
  <2>5. f \in Rows(hf.farms) /\ t \in Requirements /\ Missing(hf, f, t)
    BY <2>2, <2>4, AnswerOwedIsApart DEF DueAs
  <2>6. Missing(hb, f, t)
    BY <2>3, <2>4, AnswerOwedIsApart DEF DueAs
  <2>7. Missing(v, f, t)
    <3>1. CASE t = "identity"
      BY <3>1, <2>2, <2>5 DEF Missing
    <3>2. CASE t = "coa"
      BY <3>2, <2>3, <2>6 DEF Missing
    <3>3. CASE t = "custody"
      BY <3>3 DEF Missing
    <3> QED BY <2>5, <3>1, <3>2, <3>3 DEF Requirements, FARM_ONLY_REQUIREMENT_TYPES
  <2> QED BY <2>2, <2>4, <2>5, <2>7 DEF DueAs
<1>5. CASE \E f \in Rows(h0.farms) : m = <<"risk", f>>
  <2>1. "core" \in ReadFrom(m)
    BY <1>5 DEF ReadFrom
  <2>2. PICK h \in DeskTables : h.farms = v.farms /\ DueAs(m, h)
    BY <2>1, <1>c
  <2>3. \/ \E f \in Rows(h.farms) : m = <<"risk", f>> /\ h.farms[f].status = "Watchlist"
        \/ \E b \in Rows(h.batches) : m = <<"risk", b>>
    BY <2>2, <1>5, AnswerOwedIsApart DEF DueAs
  <2>4. \E f \in Rows(h.farms) : m = <<"risk", f>> /\ h.farms[f].status = "Watchlist"
    BY <2>3, <1>5, <1>s, DeskPeople, AnswerOwedIsApart
  <2> QED BY <2>2, <2>4 DEF DueAs
<1>6. CASE \E b \in Rows(h0.batches) : m = <<"risk", b>>
  <2>1. "core" \in ReadFrom(m)
    BY <1>6 DEF ReadFrom
  <2>2. PICK h \in DeskTables : h.batches = v.batches /\ DueAs(m, h)
    BY <2>1, <1>c
  <2>3. \/ \E f \in Rows(h.farms) : m = <<"risk", f>>
        \/ \E b \in Rows(h.batches) : m = <<"risk", b>> /\ h.batches[b].coa \in {"missing", "failed"}
    BY <2>2, <1>6, AnswerOwedIsApart DEF DueAs
  <2>4. \E b \in Rows(h.batches) : m = <<"risk", b>> /\ h.batches[b].coa \in {"missing", "failed"}
    BY <2>3, <1>6, <1>s, DeskPeople, AnswerOwedIsApart
  <2> QED BY <2>2, <2>4 DEF DueAs
<1>7. CASE \E b \in Rows(h0.batches) : m = <<"coa", b>>
  <2>1. "core" \in ReadFrom(m)
    BY <1>7 DEF ReadFrom
  <2>2. PICK h \in DeskTables : h.batches = v.batches /\ DueAs(m, h)
    BY <2>1, <1>c
  <2>3. \E b \in Rows(h.batches) : m = <<"coa", b>> /\ h.batches[b].coa \in {"missing", "failed"}
    BY <2>2, <1>7, AnswerOwedIsApart DEF DueAs
  <2> QED BY <2>2, <2>3 DEF DueAs
<1>8. CASE \E b \in Rows(h0.batches) : m = <<"inventory-review", b>>
  <2>1. "core" \in ReadFrom(m)
    BY <1>8 DEF ReadFrom
  <2>2. PICK h \in DeskTables : h.batches = v.batches /\ DueAs(m, h)
    BY <2>1, <1>c
  <2>3. \E b \in Rows(h.batches) : m = <<"inventory-review", b>> /\ InReview(h.batches[b])
    BY <2>2, <1>8, AnswerOwedIsApart DEF DueAs
  <2> QED BY <2>2, <2>3 DEF DueAs
<1>9. CASE \E b \in Rows(h0.batches) : m = <<"auto", b>>
  <2>1. "core" \in ReadFrom(m) /\ "compliance" \in ReadFrom(m)
    BY <1>9 DEF ReadFrom
  <2>2. PICK hb \in DeskTables : hb.batches = v.batches /\ DueAs(m, hb)
    BY <2>1, <1>c
  <2>3. PICK hr \in DeskTables : hr.rules = v.rules /\ DueAs(m, hr)
    BY <2>1, <1>l
  <2>4. \E b \in Rows(hb.batches) : m = <<"auto", b>> /\ hb.batches[b].coa = "missing"
    BY <2>2, <1>9, AnswerOwedIsApart DEF DueAs
  <2>5. hr.rules
    BY <2>3, <1>9, AnswerOwedIsApart DEF DueAs
  <2> QED BY <2>2, <2>3, <2>4, <2>5 DEF DueAs
<1>10. CASE \E s \in h0.alerts : m = <<"alert", s>>
  <2>1. "compliance" \in ReadFrom(m)
    BY <1>10 DEF ReadFrom
  <2>2. PICK h \in DeskTables : h.alerts = v.alerts /\ DueAs(m, h)
    BY <2>1, <1>l
  <2>3. \E s \in h.alerts : m = <<"alert", s>>
    BY <2>2, <1>10, AnswerOwedIsApart DEF DueAs
  <2> QED BY <2>2, <2>3 DEF DueAs
<1>11. CASE \E s \in h0.requests : m = <<"follow-up", s>>
  <2>1. "requests" \in ReadFrom(m)
    BY <1>11 DEF ReadFrom
  <2>2. PICK h \in DeskTables : h.requests = v.requests /\ DueAs(m, h)
    BY <2>1, <1>r
  <2>3. \E s \in h.requests : m = <<"follow-up", s>>
    BY <2>2, <1>11, AnswerOwedIsApart DEF DueAs
  <2> QED BY <2>2, <2>3 DEF DueAs
<1> QED
  BY <1>d, <1>1, <1>2, <1>3, <1>4, <1>5, <1>6, <1>7, <1>8, <1>9, <1>10, <1>11, Zenon DEF DueAs

(* More requests bear out whatever fewer did. *)
LEMMA MoreRequestsBear ==
  ASSUME NEW m, NEW some, NEW more \in SUBSET Subjects, some \subseteq more,
         Bears(m, "requests", some)
  PROVE  Bears(m, "requests", more)
<1>1. PICK h \in DeskTables : h.requests = some /\ m \in Due(h)
  BY DEF Bears
<1> DEFINE g == [h EXCEPT !.requests = more]
<1>2. g \in DeskTables /\ g.requests = more
  BY DEF DeskTables
<1>3. g.farms = h.farms /\ g.batches = h.batches /\ g.rules = h.rules /\ g.alerts = h.alerts
  BY DEF DeskTables
<1>4. \A f, t : Missing(h, f, t) <=> Missing(g, f, t)
  BY <1>3, Zenon DEF Missing
<1>5. DueAs(m, h)
  BY <1>1, DueUnfolded
<1> HIDE DEF g
<1>6. DueAs(m, g)
  BY <1>1, <1>2, <1>3, <1>4, <1>5, Zenon DEF DueAs
<1> QED BY <1>2, <1>6, DueUnfolded DEF Bears

---------------------------------------------------------------------------
(* What the desk holds.                                                    *)

LoadStates == {"idle", "loading", "ready", "failed"}
DeskLists ==
  [core : [state : LoadStates, fresh : SUBSET {"farms", "batches"},
           farms : [DeskFarms -> FarmRow], batches : [DeskBatches -> BatchRow]],
   requests : [state : LoadStates, requests : SUBSET Subjects],
   compliance : [state : LoadStates, rules : BOOLEAN, alerts : SUBSET (Subjects \cup {Stranger})]]

(* One read: nothing came with it yet, or the rows of its table. *)
PartRow(table) == [st : {"none", "sent", "failed"}, rows : {{}} \cup table] \cup [st : {"read"}, rows : table]
FlightOf ==
  [core |-> [farms : PartRow([DeskFarms -> FarmRow]), batches : PartRow([DeskBatches -> BatchRow])],
   requests |-> [requests : PartRow(SUBSET Subjects)],
   compliance |-> [rules : PartRow(BOOLEAN), alerts : PartRow(SUBSET (Subjects \cup {Stranger}))]]
Flights ==
  [core : FlightOf.core, requests : FlightOf.requests, compliance : FlightOf.compliance]

DeskTypeOK == held \in DeskTables /\ lists \in DeskLists /\ flight \in Flights

(* The list of a load counts once the load is ready; that of the rules and *)
(* alerts is out of date on other pages, until entering the desk flips it. *)
Counts(k) == State(k) = "ready" /\ (k = "compliance" => at = "ddp-operations-desk")

SinceIsDue == since \in [Loads -> SUBSET Due(held)]
ReadsBear ==
  \A k \in Loads : \A p \in PartsOf[k] : flight[k][p].st = "read" =>
      \A m \in since[k] : Bears(m, p, flight[k][p].rows)
ListsBear ==
  \A k \in Loads : Counts(k) =>
      \A p \in PartsOf[k] : \A m \in since[k] : Bears(m, p, lists[k][p])
ReadyIsWhole == State("core") = "ready" => lists.core.fresh = {"farms", "batches"}

DeskInv == DeskTypeOK /\ SinceIsDue /\ ReadsBear /\ ListsBear /\ ReadyIsWhole

(* A step keeps the invariant when every read it leaves is one that stood, *)
(* or is of the tables as they are, and every list that counts is one that *)
(* counted before, perhaps with requests added, or was just brought by its *)
(* load.                                                                   *)
LEMMA DeskStepKeeps ==
  ASSUME DeskInv, NEW begun, Remember(begun), DeskTypeOK', ReadyIsWhole',
         \A k \in Loads : \A p \in PartsOf[k] : flight'[k][p].st = "read" =>
             \/ k \notin begun /\ flight[k][p].st = "read" /\ flight'[k][p].rows = flight[k][p].rows
             \/ flight'[k][p].rows = held'[p],
         \A k \in Loads : Counts(k)' =>
             /\ k \notin begun
             /\ \/ Counts(k) /\ \A p \in PartsOf[k] :
                        \/ lists'[k][p] = lists[k][p]
                        \/ p = "requests" /\ lists[k][p] \subseteq lists'[k][p]
                \/ \A p \in PartsOf[k] : flight[k][p].st = "read" /\ lists'[k][p] = flight[k][p].rows
  PROVE  DeskInv'
<1>1. since' = [k \in Loads |-> IF k \in begun THEN Due(held') ELSE since[k] \cap Due(held')]
  BY DEF Remember
<1>2. SinceIsDue'
  BY <1>1 DEF SinceIsDue
<1>3. \A k \in Loads : since'[k] \subseteq Due(held') /\ (k \notin begun => since'[k] \subseteq since[k])
  BY <1>1
<1>4. held' \in DeskTables
  BY DEF DeskTypeOK
<1>5. ReadsBear'
  <2> SUFFICES ASSUME NEW k \in Loads, NEW p \in PartsOf[k], flight'[k][p].st = "read",
                      NEW m \in since'[k]
               PROVE  Bears(m, p, flight'[k][p].rows)
    BY DEF ReadsBear
  <2>1. CASE k \notin begun /\ flight[k][p].st = "read" /\ flight'[k][p].rows = flight[k][p].rows
    BY <2>1, <1>3 DEF DeskInv, ReadsBear
  <2>2. CASE flight'[k][p].rows = held'[p]
    BY <2>2, <1>3, <1>4 DEF Bears
  <2> QED BY <2>1, <2>2
<1>6. ListsBear'
  <2> SUFFICES ASSUME NEW k \in Loads, Counts(k)', NEW p \in PartsOf[k], NEW m \in since'[k]
               PROVE  Bears(m, p, lists'[k][p])
    BY DEF ListsBear
  <2>1. m \in since[k]
    BY <1>3
  <2>2. CASE Counts(k) /\ lists'[k][p] = lists[k][p]
    BY <2>1, <2>2 DEF DeskInv, ListsBear
  <2>3. CASE Counts(k) /\ p = "requests" /\ lists[k][p] \subseteq lists'[k][p]
    <3>1. k = "requests"
      BY <2>3 DEF Loads, PartsOf
    <3>2. lists'[k][p] \in SUBSET Subjects
      BY <3>1, <2>3 DEF DeskTypeOK, DeskLists
    <3>3. Bears(m, p, lists[k][p])
      BY <2>1, <2>3 DEF DeskInv, ListsBear
    <3> QED BY <3>2, <3>3, <2>3, MoreRequestsBear
  <2>4. CASE flight[k][p].st = "read" /\ lists'[k][p] = flight[k][p].rows
    BY <2>1, <2>4 DEF DeskInv, ReadsBear
  <2> QED BY <2>2, <2>3, <2>4
<1> QED BY <1>2, <1>5, <1>6 DEF DeskInv

---------------------------------------------------------------------------
(* The steps of the desk.                                                  *)

DeskStart == \E h \in DeskTables, begun \in SUBSET Loads :
                \E r \in [{"go", "refresh", "fail", "tick", "change"} -> Nat] : OpsInit(h, r, begun)
DeskSpec == DeskStart /\ [][OpsStep]_opsVars

LEMMA NoRowsAreRows ==
  /\ NoRows.farms \in [DeskFarms -> FarmRow]
  /\ NoRows.batches \in [DeskBatches -> BatchRow]
BY DEF NoRows, NoFarmRow, NoBatchRow, FarmRow, BatchRow, Certificates

(* Reads that are asked for, or dropped.                                   *)
LEMMA AskedIsFlight ==
  ASSUME NEW k \in Loads
  PROVE  /\ Ask(k) \in FlightOf[k] /\ Quiet(k) \in FlightOf[k]
         /\ \A p \in PartsOf[k] : Ask(k)[p].st # "read" /\ Quiet(k)[p].st # "read"
<1>1. /\ Ask("core") = [farms |-> Asked, batches |-> Asked]
      /\ Quiet("core") = [farms |-> NotAsked, batches |-> NotAsked]
  BY DEF Ask, Quiet, PartsOf
<1>2. /\ Ask("requests") = [requests |-> Asked]
      /\ Quiet("requests") = [requests |-> NotAsked]
  BY DEF Ask, Quiet, PartsOf
<1>3. /\ Ask("compliance") = [rules |-> Asked, alerts |-> Asked]
      /\ Quiet("compliance") = [rules |-> NotAsked, alerts |-> NotAsked]
  BY DEF Ask, Quiet, PartsOf
<1>4. \A table : Asked \in PartRow(table) /\ NotAsked \in PartRow(table)
  BY DEF Asked, NotAsked, PartRow
<1>5. Asked.st # "read" /\ NotAsked.st # "read"
  BY DEF Asked, NotAsked
<1> HIDE DEF Asked, NotAsked
<1>6. CASE k = "core"
  BY <1>1, <1>4, <1>5, <1>6 DEF FlightOf, PartsOf
<1>7. CASE k = "requests"
  BY <1>2, <1>4, <1>5, <1>7 DEF FlightOf, PartsOf
<1>8. CASE k = "compliance"
  BY <1>3, <1>4, <1>5, <1>8 DEF FlightOf, PartsOf
<1> QED BY <1>6, <1>7, <1>8 DEF Loads

LEMMA FlightsByLoad ==
  ASSUME NEW f \in [Loads -> UNION {FlightOf[k] : k \in Loads}], \A k \in Loads : f[k] \in FlightOf[k]
  PROVE  f \in Flights
<1>1. f = [core |-> f["core"], requests |-> f["requests"], compliance |-> f["compliance"]]
  BY DEF Loads
<1> QED BY <1>1 DEF Flights, Loads

LEMMA StartKeeps == ASSUME DeskStart PROVE DeskInv
<1>1. PICK h \in DeskTables, begun \in SUBSET Loads,
           r \in [{"go", "refresh", "fail", "tick", "change"} -> Nat] : OpsInit(h, r, begun)
  BY DEF DeskStart
<1>2. held = h /\ held \in DeskTables
  BY <1>1 DEF OpsInit
<1>3. lists \in DeskLists
  BY <1>1, NoRowsAreRows DEF OpsInit, DeskLists, LoadStates
<1>4. flight = [k \in Loads |-> IF k \in begun THEN Ask(k) ELSE Quiet(k)]
  BY <1>1, Zenon DEF OpsInit
<1>5. flight \in Flights
  <2>1. \A k \in Loads : flight[k] \in FlightOf[k]
    BY <1>4, AskedIsFlight
  <2>2. flight \in [Loads -> UNION {FlightOf[k] : k \in Loads}]
    BY <1>4, <2>1
  <2> QED BY <2>1, <2>2, FlightsByLoad
<1>6. SinceIsDue
  BY <1>1, <1>2 DEF OpsInit, SinceIsDue
<1>7. ReadsBear
  BY <1>4, AskedIsFlight DEF ReadsBear
<1>8. ListsBear /\ ReadyIsWhole
  BY <1>1 DEF OpsInit, ListsBear, ReadyIsWhole, Counts, State, Loads
<1> QED BY <1>2, <1>3, <1>5, <1>6, <1>7, <1>8 DEF DeskInv, DeskTypeOK

LEMMA GoKeeps ==
  ASSUME DeskInv, NEW p \in {"ddp-operations-desk", "supply ledger", "overview"}, GoToPage(p)
  PROVE  DeskInv'
<1> DEFINE begun == IF LoadsCompliance(p) THEN {"compliance"} ELSE {}
           asked == IF LoadsCompliance(p) THEN Ask("compliance") ELSE Quiet("compliance")
<1>1. /\ held' = held /\ at' = p /\ lists' = EnterDesk(p) /\ Remember(begun)
      /\ flight' = [flight EXCEPT !.compliance = asked]
  BY Zenon DEF GoToPage
<1>2. asked \in FlightOf.compliance /\ \A q \in PartsOf.compliance : asked[q].st # "read"
  BY AskedIsFlight DEF Loads
<1> HIDE DEF asked
<1>3. /\ flight' \in Flights
      /\ flight'["core"] = flight["core"] /\ flight'["requests"] = flight["requests"]
      /\ flight'["compliance"] = asked
  BY <1>1, <1>2 DEF Flights, DeskInv, DeskTypeOK
<1>4. /\ lists' \in DeskLists
      /\ lists'["core"] = lists["core"] /\ lists'["requests"] = lists["requests"]
      /\ p = "ddp-operations-desk" => lists'["compliance"].state = "loading"
  BY <1>1 DEF EnterDesk, Flips, DeskInv, DeskTypeOK, DeskLists, LoadStates
<1>5. \A k \in Loads : \A q \in PartsOf[k] : flight'[k][q].st = "read" =>
         k \notin begun /\ flight[k][q].st = "read" /\ flight'[k][q].rows = flight[k][q].rows
  BY <1>2, <1>3 DEF Loads
<1>6. \A k \in Loads : Counts(k)' =>
         /\ k \notin begun /\ Counts(k)
         /\ \A q \in PartsOf[k] : lists'[k][q] = lists[k][q]
  <2> SUFFICES ASSUME NEW k \in Loads, Counts(k)'
               PROVE  k # "compliance" /\ Counts(k) /\ \A q \in PartsOf[k] : lists'[k][q] = lists[k][q]
    OBVIOUS
  <2>1. k # "compliance"
    BY <1>1, <1>4 DEF Counts, State
  <2> QED BY <2>1, <1>4 DEF Counts, State, Loads
<1>7. DeskTypeOK' /\ ReadyIsWhole'
  BY <1>1, <1>3, <1>4 DEF DeskInv, DeskTypeOK, ReadyIsWhole, State
<1> HIDE DEF begun
<1> QED BY <1>1, <1>5, <1>6, <1>7, DeskStepKeeps

LEMMA ProfileKeeps == ASSUME DeskInv, NewProfile PROVE DeskInv'
<1> DEFINE again == IF LoadsCompliance(at) THEN {"compliance"} ELSE {}
           begun == {"core", "requests"} \cup again
           asked == IF LoadsCompliance(at) THEN Ask("compliance") ELSE flight.compliance
<1>1. /\ held' = held /\ at' = at /\ Remember(begun)
      /\ lists' = [EnterDesk(at) EXCEPT !.core.state = "loading", !.core.fresh = {},
                                        !.requests.state = "loading"]
      /\ flight' = [core |-> Ask("core"), requests |-> Ask("requests"), compliance |-> asked]
  BY Zenon DEF NewProfile
<1>2. /\ Ask("core") \in FlightOf.core /\ Ask("requests") \in FlightOf.requests
      /\ asked \in FlightOf.compliance
  BY AskedIsFlight DEF Loads, DeskInv, DeskTypeOK, Flights
<1>3. /\ \A q \in PartsOf.core : Ask("core")[q].st # "read"
      /\ \A q \in PartsOf.requests : Ask("requests")[q].st # "read"
      /\ LoadsCompliance(at) => \A q \in PartsOf.compliance : asked[q].st # "read"
      /\ ~LoadsCompliance(at) => asked = flight["compliance"]
  BY AskedIsFlight DEF Loads
<1>4. /\ flight' \in Flights
      /\ flight'["core"] = Ask("core") /\ flight'["requests"] = Ask("requests")
      /\ flight'["compliance"] = asked
  <2> HIDE DEF asked
  <2> QED BY <1>1, <1>2 DEF Flights
<1>5. /\ lists' \in DeskLists
      /\ lists'["core"].state = "loading" /\ lists'["requests"].state = "loading"
      /\ at = "ddp-operations-desk" => lists'["compliance"].state = "loading"
  <2>1. /\ EnterDesk(at) \in DeskLists
        /\ at = "ddp-operations-desk" => EnterDesk(at)["compliance"].state = "loading"
    BY DEF EnterDesk, Flips, DeskInv, DeskTypeOK, DeskLists, LoadStates
  <2> HIDE DEF begun, asked
  <2> QED BY <1>1, <2>1 DEF DeskLists, LoadStates
<1>6. \A k \in Loads : \A q \in PartsOf[k] : flight'[k][q].st = "read" =>
         k \notin begun /\ flight[k][q].st = "read" /\ flight'[k][q].rows = flight[k][q].rows
  <2> HIDE DEF asked
  <2> QED BY <1>3, <1>4 DEF Loads
<1>7. \A k \in Loads : ~Counts(k)'
  BY <1>1, <1>5 DEF Counts, State, Loads
<1>8. DeskTypeOK' /\ ReadyIsWhole'
  BY <1>1, <1>4, <1>5 DEF DeskInv, DeskTypeOK, ReadyIsWhole, State
<1> HIDE DEF begun
<1> QED BY <1>1, <1>6, <1>7, <1>8, DeskStepKeeps

(* One part of what is under way, and what becomes of the whole when it    *)
(* changes.                                                                *)
RowsOf == [farms |-> [DeskFarms -> FarmRow], batches |-> [DeskBatches -> BatchRow],
           requests |-> SUBSET Subjects, rules |-> BOOLEAN, alerts |-> SUBSET (Subjects \cup {Stranger})]

LEMMA OnePart ==
  ASSUME flight \in Flights, NEW k \in Loads, NEW p \in PartsOf[k], NEW row \in PartRow(RowsOf[p]),
         flight' = [flight EXCEPT ![k] = [flight[k] EXCEPT ![p] = row]]
  PROVE  /\ flight' \in Flights /\ flight'[k][p] = row
         /\ \A j \in Loads : \A q \in PartsOf[j] : (j = k /\ q = p) \/ flight'[j][q] = flight[j][q]
<1> DEFINE new == [flight[k] EXCEPT ![p] = row]
<1>1. /\ flight["core"] \in FlightOf.core /\ flight["requests"] \in FlightOf.requests
      /\ flight["compliance"] \in FlightOf.compliance
  BY DEF Flights
<1>2. /\ RowsOf["farms"] = [DeskFarms -> FarmRow] /\ RowsOf["batches"] = [DeskBatches -> BatchRow]
      /\ RowsOf["requests"] = SUBSET Subjects /\ RowsOf["rules"] = BOOLEAN
      /\ RowsOf["alerts"] = SUBSET (Subjects \cup {Stranger})
  BY DEF RowsOf
<1>3. /\ PartsOf["core"] = {"farms", "batches"} /\ PartsOf["requests"] = {"requests"}
      /\ PartsOf["compliance"] = {"rules", "alerts"}
  BY DEF PartsOf
<1>4. /\ new \in FlightOf[k] /\ new[p] = row
      /\ \A q \in PartsOf[k] : q = p \/ new[q] = flight[k][q]
  <2>1. CASE k = "core" /\ p = "farms"
    BY <1>1, <1>2, <1>3, <2>1 DEF FlightOf
  <2>2. CASE k = "core" /\ p = "batches"
    BY <1>1, <1>2, <1>3, <2>2 DEF FlightOf
  <2>3. CASE k = "requests"
    BY <1>1, <1>2, <1>3, <2>3 DEF FlightOf
  <2>4. CASE k = "compliance" /\ p = "rules"
    BY <1>1, <1>2, <1>3, <2>4 DEF FlightOf
  <2>5. CASE k = "compliance" /\ p = "alerts"
    BY <1>1, <1>2, <1>3, <2>5 DEF FlightOf
  <2> QED BY <1>3, <2>1, <2>2, <2>3, <2>4, <2>5 DEF Loads
<1>5. flight' = [flight EXCEPT ![k] = new]
  OBVIOUS
<1> HIDE DEF new
<1>6. flight' \in Flights /\ flight'[k] = new /\ \A j \in Loads \ {k} : flight'[j] = flight[j]
  BY <1>4, <1>5 DEF Flights, Loads
<1> QED BY <1>4, <1>6

LEMMA PartsAreTyped ==
  ASSUME DeskTypeOK, NEW k \in Loads, NEW p \in PartsOf[k]
  PROVE  flight[k][p] \in PartRow(RowsOf[p]) /\ held[p] \in RowsOf[p]
<1>1. /\ flight["core"] \in FlightOf.core /\ flight["requests"] \in FlightOf.requests
      /\ flight["compliance"] \in FlightOf.compliance
  BY DEF DeskTypeOK, Flights
<1>2. /\ RowsOf["farms"] = [DeskFarms -> FarmRow] /\ RowsOf["batches"] = [DeskBatches -> BatchRow]
      /\ RowsOf["requests"] = SUBSET Subjects /\ RowsOf["rules"] = BOOLEAN
      /\ RowsOf["alerts"] = SUBSET (Subjects \cup {Stranger})
  BY DEF RowsOf
<1>3. /\ PartsOf["core"] = {"farms", "batches"} /\ PartsOf["requests"] = {"requests"}
      /\ PartsOf["compliance"] = {"rules", "alerts"}
  BY DEF PartsOf
<1>4. /\ held["farms"] \in RowsOf["farms"] /\ held["batches"] \in RowsOf["batches"]
      /\ held["requests"] \in RowsOf["requests"] /\ held["rules"] \in RowsOf["rules"]
      /\ held["alerts"] \in RowsOf["alerts"]
  BY <1>2 DEF DeskTypeOK, DeskTables
<1>5. CASE k = "core"
  BY <1>1, <1>2, <1>3, <1>4, <1>5 DEF FlightOf
<1>6. CASE k = "requests"
  BY <1>1, <1>2, <1>3, <1>4, <1>6 DEF FlightOf
<1>7. CASE k = "compliance"
  BY <1>1, <1>2, <1>3, <1>4, <1>7 DEF FlightOf
<1> QED BY <1>5, <1>6, <1>7 DEF Loads

LEMMA ReadKeeps ==
  ASSUME DeskInv, NEW k \in Loads, NEW p \in PartsOf[k], ReadRows(k, p)
  PROVE  DeskInv'
<1>1. held' = held /\ lists' = lists /\ at' = at /\ Remember({})
  BY DEF ReadRows
<1>2. \/ flight' = [flight EXCEPT ![k][p] = [st |-> "read", rows |-> held[p]]]
      \/ flight' = [flight EXCEPT ![k][p].st = "failed"] /\ flight[k][p].st = "sent"
  BY DEF ReadRows
<1>3. flight \in Flights /\ flight[k][p] \in PartRow(RowsOf[p]) /\ held[p] \in RowsOf[p]
  BY PartsAreTyped DEF DeskInv, DeskTypeOK
<1>4. PICK row : flight' = [flight EXCEPT ![k] = [flight[k] EXCEPT ![p] = row]]
                 /\ \/ row = [st |-> "read", rows |-> held[p]]
                    \/ row = [flight[k][p] EXCEPT !.st = "failed"] /\ flight[k][p].st = "sent"
  BY <1>2
<1>5. row \in PartRow(RowsOf[p]) /\ (row.st = "read" => row.rows = held[p])
  <2> HIDE DEF RowsOf
  <2> QED BY <1>3, <1>4 DEF PartRow
<1>6. /\ flight' \in Flights /\ flight'[k][p] = row
      /\ \A j \in Loads : \A q \in PartsOf[j] : (j = k /\ q = p) \/ flight'[j][q] = flight[j][q]
  BY <1>3, <1>4, <1>5, OnePart
<1>7. DeskTypeOK' /\ ReadyIsWhole'
  BY <1>1, <1>6 DEF DeskInv, DeskTypeOK, ReadyIsWhole, State
<1>8. \A j \in Loads : \A q \in PartsOf[j] : flight'[j][q].st = "read" =>
         \/ j \notin {} /\ flight[j][q].st = "read" /\ flight'[j][q].rows = flight[j][q].rows
         \/ flight'[j][q].rows = held'[q]
  BY <1>1, <1>5, <1>6
<1>9. \A j \in Loads : Counts(j)' => Counts(j) /\ \A q \in PartsOf[j] : lists'[j][q] = lists[j][q]
  BY <1>1 DEF Counts, State
<1> QED BY <1>1, <1>7, <1>8, <1>9, DeskStepKeeps

LEMMA ArriveKeeps == ASSUME DeskInv, NEW k \in Loads, Arrive(k) PROVE DeskInv'
<1> DEFINE came == IF k = "core" THEN ApplyAdmin ELSE ApplyWhole(k)
<1>1. /\ held' = held /\ at' = at /\ Remember({})
      /\ lists' = [lists EXCEPT ![k] = came]
      /\ flight' = [flight EXCEPT ![k] = Quiet(k)]
  BY DEF Arrive
<1>2. \A p \in PartsOf[k] : flight[k][p] \in PartRow(RowsOf[p])
  BY PartsAreTyped DEF DeskInv
<1>3. DeskTypeOK
  BY DEF DeskInv
<1>4. /\ flight' \in Flights
      /\ \A j \in Loads \ {k} : flight'[j] = flight[j]
      /\ \A p \in PartsOf[k] : flight'[k][p].st # "read"
  BY <1>1, <1>3, AskedIsFlight DEF DeskTypeOK, Flights, Loads
<1>5. \A p \in PartsOf[k] : flight[k][p].st = "read" => flight[k][p].rows \in RowsOf[p]
  BY <1>2 DEF PartRow
<1>6. CASE k = "core"
  <2>1. /\ came \in [state : LoadStates, fresh : SUBSET {"farms", "batches"},
                      farms : [DeskFarms -> FarmRow], batches : [DeskBatches -> BatchRow]]
        /\ came.state = "ready" => /\ came.fresh = {"farms", "batches"}
                                   /\ \A p \in PartsOf.core : Got("core", p) /\ came[p] = flight.core[p].rows
    BY <1>5, <1>6, NoRowsAreRows DEF ApplyAdmin, AdminState, Got, PartsOf, RowsOf, LoadStates
  <2> HIDE DEF came
  <2>2. /\ lists' \in DeskLists /\ lists'["core"] = came
        /\ \A j \in Loads \ {k} : lists'[j] = lists[j]
    BY <1>1, <1>3, <1>6, <2>1 DEF DeskTypeOK, DeskLists, Loads
  <2>3. DeskTypeOK' /\ ReadyIsWhole'
    BY <1>1, <1>3, <1>4, <2>1, <2>2 DEF DeskTypeOK, ReadyIsWhole, State
  <2>4. \A j \in Loads : Counts(j)' =>
          \/ Counts(j) /\ \A q \in PartsOf[j] : lists'[j][q] = lists[j][q]
          \/ \A q \in PartsOf[j] : flight[j][q].st = "read" /\ lists'[j][q] = flight[j][q].rows
    BY <1>1, <1>6, <2>1, <2>2 DEF Counts, State, Got
  <2> QED BY <1>1, <1>4, <2>3, <2>4, DeskStepKeeps
<1>7. CASE k \in {"requests", "compliance"}
  <2>0. ~Fell(k) => \A p \in PartsOf[k] : flight[k][p].st = "read"
    BY <1>7 DEF Arrive, Got
  <2>1. /\ k = "requests" => came \in [state : LoadStates, requests : SUBSET Subjects]
        /\ k = "compliance" => came \in [state : LoadStates, rules : BOOLEAN,
                                          alerts : SUBSET (Subjects \cup {Stranger})]
        /\ came.state = "ready" => \A p \in PartsOf[k] : Got(k, p) /\ came[p] = flight[k][p].rows
    <3>1. CASE Fell(k)
      BY <1>3, <1>7, <3>1 DEF ApplyWhole, DeskTypeOK, DeskLists, LoadStates
    <3>2. CASE ~Fell(k) /\ k = "requests"
      BY <1>5, <2>0, <3>2 DEF ApplyWhole, LoadStates, RowsOf, PartsOf, Got
    <3>3. CASE ~Fell(k) /\ k = "compliance"
      BY <1>5, <2>0, <3>3 DEF ApplyWhole, LoadStates, RowsOf, PartsOf, Got
    <3> QED BY <1>7, <3>1, <3>2, <3>3
  <2> HIDE DEF came
  <2>2. /\ lists' \in DeskLists /\ lists'[k] = came
        /\ \A j \in Loads \ {k} : lists'[j] = lists[j]
    BY <1>1, <1>3, <1>7, <2>1 DEF DeskTypeOK, DeskLists, Loads
  <2>3. DeskTypeOK' /\ ReadyIsWhole'
    BY <1>1, <1>3, <1>4, <1>7, <2>2 DEF DeskInv, DeskTypeOK, ReadyIsWhole, State, Loads
  <2>4. \A j \in Loads : Counts(j)' =>
          \/ Counts(j) /\ \A q \in PartsOf[j] : lists'[j][q] = lists[j][q]
          \/ \A q \in PartsOf[j] : flight[j][q].st = "read" /\ lists'[j][q] = flight[j][q].rows
    BY <1>1, <2>1, <2>2 DEF Counts, State, Got
  <2> QED BY <1>1, <1>4, <2>3, <2>4, DeskStepKeeps
<1> QED BY <1>6, <1>7 DEF Loads

LEMMA TickKeeps == ASSUME DeskInv, NEW m, TickRow(m) PROVE DeskInv'
<1>1. /\ held' = held /\ lists' = lists /\ flight' = flight /\ at' = at /\ Remember({})
  BY DEF TickRow
<1>2. DeskTypeOK' /\ ReadyIsWhole'
  BY <1>1 DEF DeskInv, DeskTypeOK, ReadyIsWhole, State
<1>3. \A j \in Loads : Counts(j)' => Counts(j) /\ \A q \in PartsOf[j] : lists'[j][q] = lists[j][q]
  BY <1>1 DEF Counts, State
<1> QED BY <1>1, <1>2, <1>3, DeskStepKeeps

LEMMA ChaseKeeps == ASSUME DeskInv, handleChaseFarms PROVE DeskInv'
<1>1. PICK kept \in SUBSET Chases, heard \in SUBSET Chases :
         /\ held' = [held EXCEPT !.requests = held.requests \cup kept]
         /\ lists' = [lists EXCEPT !.requests.requests = lists.requests.requests \cup heard]
  BY DEF handleChaseFarms
<1>2. flight' = flight /\ at' = at /\ Remember({})
  BY DEF handleChaseFarms
<1>3. DeskTypeOK
  BY DEF DeskInv
<1>4. Chases \subseteq Subjects
  <2>1. \A m : FarmIdFor(m) # Stranger => FarmIdFor(m) \in Rows(deskAdminDataView.farms)
    BY Zenon DEF FarmIdFor
  <2>2. deskAdminDataView.farms \in [DeskFarms -> FarmRow]
    BY <1>3, NoRowsAreRows DEF deskAdminDataView, DeskTypeOK, DeskLists
  <2>3. Rows(deskAdminDataView.farms) \subseteq DeskFarms
    BY <2>2 DEF Rows
  <2> QED BY <2>1, <2>3, Zenon DEF Chases, Chaseable, Subjects
<1>5. /\ held' \in DeskTables
      /\ lists' \in DeskLists
      /\ \A j \in Loads : lists'[j].state = lists[j].state
      /\ lists'["core"] = lists["core"] /\ lists'["compliance"] = lists["compliance"]
      /\ lists["requests"].requests \subseteq lists'["requests"].requests
  BY <1>1, <1>3, <1>4 DEF DeskTypeOK, DeskTables, DeskLists, Loads
<1>6. DeskTypeOK' /\ ReadyIsWhole'
  BY <1>2, <1>3, <1>5 DEF DeskInv, DeskTypeOK, ReadyIsWhole, State
<1>7. \A j \in Loads : Counts(j)' =>
         Counts(j) /\ \A q \in PartsOf[j] : \/ lists'[j][q] = lists[j][q]
                                            \/ q = "requests" /\ lists[j][q] \subseteq lists'[j][q]
  BY <1>2, <1>5 DEF Counts, State, Loads, PartsOf
<1> QED BY <1>2, <1>6, <1>7, DeskStepKeeps

LEMMA OthersKeep == ASSUME DeskInv, Others PROVE DeskInv'
<1>1. lists' = lists /\ flight' = flight /\ at' = at /\ Remember({})
  BY DEF Others
<1>2. held \in DeskTables
  BY DEF DeskInv, DeskTypeOK
<1>3. ASSUME NEW f \in DeskFarms, FarmChanges(f) PROVE held' \in DeskTables
  <2>1. PICK row \in FarmRow : held' = [held EXCEPT !.farms = [held.farms EXCEPT ![f] = row]]
    <3>1. PICK to \in FarmVerdict, named \in BOOLEAN :
             held' = [held EXCEPT !.farms[f] = [status |-> to, declared |-> named]]
      BY <1>3, Zenon DEF FarmChanges
    <3>2. [status |-> to, declared |-> named] \in FarmRow
      <4> HIDE DEF FarmVerdict
      <4> QED BY DEF FarmRow
    <3> QED BY <3>1, <3>2
  <2> QED BY <1>2, <2>1 DEF DeskTables
<1>4. ASSUME NEW b \in DeskBatches, BatchChanges(b) PROVE held' \in DeskTables
  <2>1. PICK row \in BatchRow : held' = [held EXCEPT !.batches = [held.batches EXCEPT ![b] = row]]
    <3>1. PICK to \in BatchVerdict, coa \in Certificates :
             held' = [held EXCEPT !.batches[b] = [status |-> to, coa |-> coa]]
      BY <1>4, Zenon DEF BatchChanges
    <3>2. [status |-> to, coa |-> coa] \in BatchRow
      BY DEF BatchRow
    <3> QED BY <3>1, <3>2
  <2> QED BY <1>2, <2>1 DEF DeskTables
<1>5. held' \in DeskTables
  <2>1. ASSUME NEW s \in Subjects, held' = [held EXCEPT !.requests = Toggle(held.requests, s)]
        PROVE  held' \in DeskTables
    BY <1>2, <2>1 DEF DeskTables, Toggle
  <2>2. ASSUME NEW s \in Subjects \cup {Stranger}, held' = [held EXCEPT !.alerts = Toggle(held.alerts, s)]
        PROVE  held' \in DeskTables
    BY <1>2, <2>2 DEF DeskTables, Toggle
  <2>3. held' = [held EXCEPT !.rules = ~held.rules] => held' \in DeskTables
    BY <1>2 DEF DeskTables
  <2> QED BY <1>3, <1>4, <2>1, <2>2, <2>3 DEF Others
<1>6. DeskTypeOK' /\ ReadyIsWhole'
  BY <1>1, <1>5 DEF DeskInv, DeskTypeOK, ReadyIsWhole, State
<1>7. \A j \in Loads : Counts(j)' => Counts(j) /\ \A q \in PartsOf[j] : lists'[j][q] = lists[j][q]
  BY <1>1 DEF Counts, State
<1> QED BY <1>1, <1>6, <1>7, DeskStepKeeps

LEMMA DeskStepsKeep == ASSUME DeskInv, [OpsStep]_opsVars PROVE DeskInv'
<1>1. CASE UNCHANGED opsVars
  BY <1>1 DEF opsVars, DeskInv, DeskTypeOK, SinceIsDue, ReadsBear, ListsBear, ReadyIsWhole, Counts, State
<1>2. CASE OpsStep
  BY <1>2, GoKeeps, ProfileKeeps, ReadKeeps, ArriveKeeps, TickKeeps, ChaseKeeps, OthersKeep, Zenon
     DEF OpsStep
<1> QED BY <1>1, <1>2

(* With every source ready, the desk shows what its lists make due.        *)
LEMMA DeskShowsItsLists ==
  ASSUME DeskInv, at = "ddp-operations-desk", \A k \in Loads : State(k) = "ready"
  PROVE  {m \in UNION {since[k] : k \in Loads} : \A k \in ReadFrom(m) : m \in since[k]} \subseteq Items
<1> DEFINE v == [farms |-> lists.core.farms, batches |-> lists.core.batches,
                 requests |-> lists.requests.requests, rules |-> lists.compliance.rules,
                 alerts |-> lists.compliance.alerts]
<1>1. v \in DeskTables
  BY DEF DeskInv, DeskTypeOK, DeskLists, DeskTables
<1>2. Items = Due(v)
  <2>1. State("core") = "ready" /\ State("requests") = "ready" /\ State("compliance") = "ready"
    BY DEF Loads
  <2>2. lists.core.fresh = {"farms", "batches"}
    BY <2>1 DEF DeskInv, ReadyIsWhole
  <2>3. /\ deskAdminDataView.farms = v.farms /\ deskAdminDataView.batches = v.batches
        /\ deskAdminDataView.known = TRUE
    BY <2>2 DEF deskAdminDataView
  <2>4. deskReviewRequestsView.requests = v.requests
    BY <2>1 DEF deskReviewRequestsView
  <2>5. {k \in {"requests", "compliance"} : State(k) = "failed"} = {}
    BY <2>1
  <2>6. DeskInput = [farms |-> v.farms, batches |-> v.batches, known |-> TRUE,
                     requests |-> v.requests, rules |-> v.rules, alerts |-> v.alerts, failed |-> {}]
    BY <2>3, <2>4, <2>5 DEF DeskInput
  <2> HIDE DEF v
  <2> QED BY <2>6 DEF Items, Due
<1>3. /\ v["farms"] = lists["core"]["farms"] /\ v["batches"] = lists["core"]["batches"]
      /\ v["requests"] = lists["requests"]["requests"] /\ v["rules"] = lists["compliance"]["rules"]
      /\ v["alerts"] = lists["compliance"]["alerts"]
  OBVIOUS
<1> HIDE DEF v
<1>4. \A k \in Loads, p \in {"farms", "batches", "requests", "rules", "alerts"} :
         p \in PartsOf[k] => v[p] = lists[k][p]
  BY <1>3 DEF Loads, PartsOf
<1>5. ASSUME NEW k0 \in Loads, NEW m \in since[k0], \A k \in ReadFrom(m) : m \in since[k]
      PROVE  m \in Due(v)
  <2>1. held \in DeskTables /\ m \in Due(held)
    BY <1>5 DEF DeskInv, DeskTypeOK, SinceIsDue
  <2>2. ReadFrom(m) \subseteq Loads
    BY DEF ReadFrom, Loads
  <2>3. \A k \in ReadFrom(m) : \A p \in PartsOf[k] : Bears(m, p, lists[k][p])
    BY <1>5, <2>2 DEF DeskInv, ListsBear, Counts
  <2>4. \A k \in ReadFrom(m) : \A p \in PartsOf[k] : v[p] = lists[k][p]
    BY <1>4, <2>2 DEF Loads, PartsOf
  <2> QED BY <1>1, <2>1, <2>3, <2>4, BorneOutIsDue
<1> QED BY <1>2, <1>5

(* DeskTellsWhatWaits, from any tables and any loads begun at sign-in,     *)
(* however reads fail, are superseded by a page or a profile, and the      *)
(* tables change: a desk that reports nothing missing lists every matter   *)
(* due ever since the loads it is read from began (operationsDesk.ts,      *)
(* adminDataLoad.ts, operationsDeskEmptyState.ts).                         *)
THEOREM DeskTellsWhatIsDue == DeskSpec => []DeskTellsWhatWaits
<1>1. DeskStart => DeskInv
  BY StartKeeps
<1>2. DeskInv /\ [OpsStep]_opsVars => DeskInv'
  BY DeskStepsKeep
<1>3. DeskInv => DeskTellsWhatWaits
  <2> SUFFICES ASSUME DeskInv, at = "ddp-operations-desk"
               PROVE  LET waits == {m \in UNION {since[k] : k \in Loads} :
                                     \A k \in ReadFrom(m) : m \in since[k]}
                      IN  /\ ~SaysIncomplete => waits \subseteq Items
                          /\ resolveOperationsDeskEmptyState(Items, FALSE) = "all-clear" => waits = {}
    BY Zenon DEF DeskTellsWhatWaits
  <2> DEFINE waits == {m \in UNION {since[k] : k \in Loads} : \A k \in ReadFrom(m) : m \in since[k]}
  <2>1. ~SaysIncomplete => \A k \in Loads : State(k) = "ready"
    <3> SUFFICES ASSUME ~SaysIncomplete PROVE \A k \in Loads : State(k) = "ready"
      OBVIOUS
    <3> DEFINE missing == {k \in {"requests", "compliance"} : State(k) = "failed"}
    <3>1. DeskInput.failed = missing
      BY DEF DeskInput
    <3>2. IsFiniteSet(missing) /\ Cardinality(missing) \in Nat
      <4>1. IsFiniteSet({"requests", "compliance"})
        <5>1. IsFiniteSet({"requests"}) /\ IsFiniteSet({"compliance"})
          BY FS_Singleton
        <5>2. {"requests", "compliance"} = {"requests"} \cup {"compliance"}
          OBVIOUS
        <5> QED BY <5>1, <5>2, FS_Union
      <4>2. missing \subseteq {"requests", "compliance"}
        OBVIOUS
      <4> HIDE DEF missing
      <4> QED BY <4>1, <4>2, FS_Subset, FS_CardinalityType
    <3> HIDE DEF missing
    <3>3. Cardinality(missing) = 0 /\ State("core") # "failed"
      BY <3>1, <3>2 DEF SaysIncomplete, FailureCount
    <3>4. missing = {}
      BY <3>2, <3>3, FS_EmptySet
    <3>5. State("requests") # "failed" /\ State("compliance") # "failed"
      BY <3>4 DEF missing
    <3>6. \A k \in Loads : ~Settling(k)
      BY DEF SaysIncomplete, PendingSources, deskReviewRequestsView, Loads
    <3>7. \A k \in Loads : State(k) \in LoadStates
      BY DEF DeskInv, DeskTypeOK, DeskLists, State, Loads
    <3> QED BY <3>3, <3>5, <3>6, <3>7 DEF Settling, LoadStates, Loads
  <2>2. ~SaysIncomplete => waits \subseteq Items
    BY <2>1, DeskShowsItsLists
  <2>3. resolveOperationsDeskEmptyState(Items, FALSE) = "all-clear" => ~SaysIncomplete /\ Items = {}
    BY Zenon DEF resolveOperationsDeskEmptyState, SaysIncomplete
  <2> HIDE DEF waits
  <2>4. resolveOperationsDeskEmptyState(Items, FALSE) = "all-clear" => waits = {}
    BY <2>2, <2>3
  <2> QED BY <2>2, <2>4 DEF waits
<1> QED BY <1>1, <1>2, <1>3, PTL DEF DeskSpec
=============================================================================
