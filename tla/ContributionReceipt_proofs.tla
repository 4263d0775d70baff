---------------------- MODULE ContributionReceipt_proofs ----------------------
(* Proofs of the safety properties of ContributionReceipt for every number  *)
(* of check runs and statuses, every page size and every interval.          *)
EXTENDS ContributionReceipt, FiniteSetTheorems, TLAPS

-----------------------------------------------------------------------------
(* What one page tells of the records of a commit. *)

\* A page is counted, holds no more than there is, and is all there is when
\* the counts agree.
LEMMA PageFacts ==
    ASSUME NEW S, IsFiniteSet(S), NEW signals \in [S -> Signal],
           NEW page \in Pages(signals)
    PROVE  /\ page \subseteq Present(signals)
           /\ Cardinality(page) \in Nat /\ Cardinality(Present(signals)) \in Nat
           /\ Cardinality(page) <= Cardinality(Present(signals))
           /\ Cardinality(page) = Cardinality(Present(signals)) =>
                 page = Present(signals)
           /\ Cardinality(Present(signals)) = 0 <=> Present(signals) = {}
<1>1. Present(signals) \in SUBSET S /\ page \in SUBSET Present(signals)
  BY DEF Present, Pages
<1>2. IsFiniteSet(Present(signals)) /\ IsFiniteSet(page)
  BY <1>1, FS_Subset
<1> QED BY <1>1, <1>2, FS_Subset, FS_CardinalityType, FS_EmptySet

\* A check run or status with a value is present.
LEMMA HavingIsPresent ==
    ASSUME NEW signals, NEW v \in Signal \ {"none"}
    PROVE  Having(signals, v) \subseteq Present(signals)
  BY DEF Having, Present

LEMMA CombinedFacts ==
    ASSUME NEW signals
    PROVE  /\ Combined(signals) \in {"failure", "pending", "success"}
           /\ Combined(signals) = "failure" <=> Having(signals, "failure") # {}
           /\ Having(signals, "pending") # {} => Combined(signals) # "success"
  BY DEF Combined

\* The fields of the two summaries.
LEMMA CheckFields ==
    ASSUME NEW S, IsFiniteSet(S), NEW signals \in [S -> Signal],
           NEW page \in Pages(signals), checks = CheckSummary(page, signals)
    PROVE  /\ checks.observed \in Nat /\ checks.total \in Nat
           /\ checks.has_failure \in BOOLEAN /\ checks.has_pending \in BOOLEAN
           /\ checks.observed <= checks.total
           /\ checks.total = 0 <=> Present(signals) = {}
           /\ checks.has_failure => checks.total # 0
           /\ checks.observed = checks.total =>
                 /\ Having(signals, "failure") # {} => checks.has_failure
                 /\ Having(signals, "pending") # {} => checks.has_pending
<1>1. /\ checks.observed = Cardinality(page)
      /\ checks.total = Cardinality(Present(signals))
      /\ checks.has_failure = (page \cap Having(signals, "failure") # {})
      /\ checks.has_pending = (page \cap Having(signals, "pending") # {})
  BY DEF CheckSummary
<1>2. /\ Having(signals, "failure") \subseteq Present(signals)
      /\ Having(signals, "pending") \subseteq Present(signals)
  BY HavingIsPresent DEF Signal
<1>3. /\ page \subseteq Present(signals)
      /\ Cardinality(page) \in Nat /\ Cardinality(Present(signals)) \in Nat
      /\ Cardinality(page) <= Cardinality(Present(signals))
      /\ Cardinality(page) = Cardinality(Present(signals)) =>
            page = Present(signals)
      /\ Cardinality(Present(signals)) = 0 <=> Present(signals) = {}
  BY PageFacts
<1>4. /\ checks.observed \in Nat /\ checks.total \in Nat
      /\ checks.observed <= checks.total
      /\ checks.total = 0 <=> Present(signals) = {}
  BY <1>1, <1>3
<1>5. checks.has_failure \in BOOLEAN /\ checks.has_pending \in BOOLEAN
  BY <1>1
<1>6. checks.has_failure => checks.total # 0
  BY <1>1, <1>2, <1>4
<1>7. ASSUME checks.observed = checks.total
      PROVE  /\ Having(signals, "failure") # {} => checks.has_failure
             /\ Having(signals, "pending") # {} => checks.has_pending
  <2>1. page = Present(signals)
    BY <1>1, <1>3, <1>7
  <2> QED BY <1>1, <1>2, <2>1
<1> QED BY <1>4, <1>5, <1>6, <1>7

LEMMA StatusFields ==
    ASSUME NEW S, IsFiniteSet(S), NEW signals \in [S -> Signal],
           NEW page \in Pages(signals), statuses = StatusSummary(page, signals)
    PROVE  /\ statuses.observed \in Nat /\ statuses.total \in Nat
           /\ statuses.state = Combined(signals)
           /\ statuses.observed <= statuses.total
           /\ statuses.total = 0 <=> Present(signals) = {}
           /\ statuses.state = "failure" => statuses.total # 0
<1>1. /\ statuses.observed = Cardinality(page)
      /\ statuses.total = Cardinality(Present(signals))
      /\ statuses.state = Combined(signals)
  BY DEF StatusSummary
<1>2. /\ statuses.observed \in Nat /\ statuses.total \in Nat
      /\ statuses.observed <= statuses.total
      /\ statuses.total = 0 <=> Present(signals) = {}
  BY <1>1, PageFacts
<1>3. Having(signals, "failure") \subseteq Present(signals)
  BY HavingIsPresent DEF Signal
<1>4. statuses.state = "failure" => statuses.total # 0
  BY <1>1, <1>2, <1>3, CombinedFacts
<1> QED BY <1>1, <1>2, <1>4

-----------------------------------------------------------------------------
(* The inductive invariant. *)

LEMMA Unread ==
    /\ [c \in Checks |-> "none"] \in [Checks -> Signal]
    /\ [s \in Contexts |-> "none"] \in [Contexts -> Signal]
  BY DEF Signal

LEMMA ReceiptStart == Init => ReceiptInv
<1> SUFFICES ASSUME Init PROVE ReceiptInv
  OBVIOUS
<1> USE ContributionReceiptAssumption DEF Init
<1>1. TypeOK
  BY Unread DEF TypeOK, NoReceipt
<1>2. CooldownInv
  BY DEF CooldownInv, LookupsAreSpaced
<1>3. SummaryInv
  BY Unread DEF SummaryInv
<1> QED BY <1>1, <1>2, <1>3 DEF ReceiptInv

\* The types and the cooldown, whatever the step.
LEMMA CooldownStep ==
    ASSUME ReceiptInv, [Next]_vars
    PROVE  TypeOK' /\ CooldownInv'
<1> USE ContributionReceiptAssumption DEF ReceiptInv
<1>1. CASE Move
  <2>1. check' \in [Checks -> Signal] /\ status' \in [Contexts -> Signal]
    BY <1>1 DEF Move, TypeOK
  <2> QED BY <1>1, <2>1 DEF Move, TypeOK, CooldownInv, LookupsAreSpaced
<1>2. CASE Tick
  BY <1>2 DEF Tick, TypeOK, CooldownInv, LookupsAreSpaced
<1>3. CASE Issue
  BY <1>3 DEF Issue, Attempted, TypeOK, CooldownInv, LookupsAreSpaced
<1>4. CASE ReadPull \/ ReadChecks \/ ReadStatuses
  BY <1>4 DEF ReadPull, ReadChecks, ReadStatuses, TypeOK, CooldownInv,
              LookupsAreSpaced
<1>5. CASE Sign
  <2>1. receipt'.ci \in CIState
    BY <1>5 DEF Sign, Valid, Payload
  <2> QED BY <1>5, <2>1 DEF Sign, Leave, TypeOK, CooldownInv, LookupsAreSpaced
<1>6. CASE Fail
  BY <1>6 DEF Fail, Leave, TypeOK, CooldownInv, LookupsAreSpaced
<1>7. CASE Restart
  BY <1>7 DEF Restart, Leave, TypeOK, CooldownInv, LookupsAreSpaced
<1>8. CASE UNCHANGED vars
  BY <1>8 DEF vars, TypeOK, CooldownInv, LookupsAreSpaced
<1> QED BY <1>1, <1>2, <1>3, <1>4, <1>5, <1>6, <1>7, <1>8 DEF Next

\* The summaries are of what was read, whatever GitHub has done since.
LEMMA SummaryStep ==
    ASSUME ReceiptInv, [Next]_vars
    PROVE  SummaryInv'
<1> USE DEF ReceiptInv
<1>1. CASE Move \/ Tick \/ UNCHANGED vars
  <2>1. UNCHANGED <<pc, checks, statuses, sawCheck, sawStatus>>
    BY <1>1 DEF Move, Tick, vars
  <2> QED BY <2>1 DEF SummaryInv
<1>2. CASE Issue \/ ReadPull
  <2>1. UNCHANGED <<sawCheck, sawStatus>> /\ pc' \in {"pull", "checks"}
    BY <1>2 DEF Issue, ReadPull
  <2> QED BY <2>1 DEF SummaryInv
<1>3. CASE ReadChecks
  <2>1. /\ pc' = "statuses" /\ sawCheck' = check /\ sawStatus' = sawStatus
        /\ \E page \in Pages(sawCheck') : checks' = CheckSummary(page, sawCheck')
    BY <1>3 DEF ReadChecks
  <2> QED BY <2>1 DEF SummaryInv, TypeOK
<1>4. CASE ReadStatuses
  <2>1. /\ pc = "statuses" /\ pc' = "sign" /\ sawStatus' = status
        /\ UNCHANGED <<checks, sawCheck>>
        /\ \E page \in Pages(sawStatus') :
              statuses' = StatusSummary(page, sawStatus')
    BY <1>4 DEF ReadStatuses
  <2> QED BY <2>1 DEF SummaryInv, TypeOK
<1>5. CASE Sign \/ Fail \/ Restart
  <2>1. Leave
    BY <1>5 DEF Sign, Fail, Restart
  <2> QED BY <2>1, Unread DEF Leave, SummaryInv
<1> QED BY <1>1, <1>2, <1>3, <1>4, <1>5 DEF Next

\* The service's view of GitHub is one page of each read, and its cooldown
\* runs from its last lookup.
THEOREM ReceiptInvariant == Spec => []ReceiptInv
<1>1. ReceiptInv /\ [Next]_vars => ReceiptInv'
  BY CooldownStep, SummaryStep DEF ReceiptInv
<1> QED BY <1>1, ReceiptStart, PTL DEF Spec

-----------------------------------------------------------------------------
(* The theorems. *)

\* The service of one process asks GitHub at most once per interval, whether
\* its lookups succeed or fail: issue notes the attempt before it asks.
THEOREM CooldownHolds == Spec => []LookupsAreSpaced
<1>1. ReceiptInv => LookupsAreSpaced
  BY DEF ReceiptInv, CooldownInv
<1> QED BY <1>1, ReceiptInvariant, PTL

\* The ladder of inspect and the validator _validate_receipt_ci agree on every
\* answer GitHub can give, however its CI moves between the two reads.
THEOREM ClassificationIsValid == Spec => []ReceiptsValidate
<1>1. ASSUME ReceiptInv, pc = "sign" PROVE Valid(Payload)
  <2>1. PICK page \in Pages(sawCheck) : checks = CheckSummary(page, sawCheck)
    BY <1>1 DEF ReceiptInv, SummaryInv
  <2>2. PICK page2 \in Pages(sawStatus) : statuses = StatusSummary(page2, sawStatus)
    BY <1>1 DEF ReceiptInv, SummaryInv
  <2>3. /\ checks.observed \in Nat /\ checks.total \in Nat
        /\ checks.observed <= checks.total
        /\ checks.has_failure => checks.total # 0
    BY <1>1, <2>1, CheckFields, ContributionReceiptAssumption
       DEF ReceiptInv, SummaryInv
  <2>4. /\ statuses.observed \in Nat /\ statuses.total \in Nat
        /\ statuses.observed <= statuses.total
        /\ statuses.state = "failure" => statuses.total # 0
    BY <1>1, <2>2, StatusFields, ContributionReceiptAssumption
       DEF ReceiptInv, SummaryInv
  <2>5. /\ Payload.ci = Classify /\ Payload.ci_data_complete = Complete
        /\ Payload.checks.observed = checks.observed
        /\ Payload.checks.total = checks.total
        /\ Payload.statuses.observed = statuses.observed
        /\ Payload.statuses.total = statuses.total
    BY DEF Payload
  <2>6. Complete <=> (checks.observed = checks.total
                        /\ statuses.observed = statuses.total)
    BY DEF Complete, CountsComplete
  <2>7. CountsComplete(Payload) = Complete
    BY <2>5 DEF Complete, CountsComplete
  <2>8. Classify \in CIState
    BY DEF Classify, CIState
  <2>9. Classify = "no_signals" <=> checks.total + statuses.total = 0
    <3>1. checks.total + statuses.total = 0 =>
             /\ checks.total = 0 /\ statuses.total = 0
             /\ checks.observed = 0 /\ statuses.observed = 0
      BY <2>3, <2>4
    <3>2. checks.total + statuses.total = 0 =>
             ~checks.has_failure /\ statuses.state # "failure" /\ Complete
      BY <2>3, <2>4, <2>6, <3>1
    <3> QED BY <3>2 DEF Classify
  <2>10. /\ Classify = "partial" => ~Complete
         /\ Classify \in {"pending", "success"} => Complete
    BY DEF Classify
  <2> QED BY <2>3, <2>4, <2>5, <2>7, <2>8, <2>9, <2>10 DEF Valid
<1>2. ReceiptInv => ReceiptsValidate
  BY <1>1 DEF ReceiptsValidate
<1> QED BY <1>2, ReceiptInvariant, PTL

\* No success is signed over a check or a status that was pending or failing
\* when it was read, on the page or beyond it.
THEOREM SuccessRestsOnAll == Spec => SuccessIsEarned
<1> DEFINE Earned ==
        /\ Having(sawCheck, "pending") \cup Having(sawCheck, "failure") = {}
        /\ Having(sawStatus, "pending") \cup Having(sawStatus, "failure") = {}
        /\ Present(sawCheck) # {} \/ Present(sawStatus) # {}
<1>1. ASSUME ReceiptInv, Next, receipt' # receipt, receipt'.ci = "success"
      PROVE  Earned
  <2>1. Sign
    BY <1>1 DEF Next, Move, Tick, Issue, ReadPull, ReadChecks, ReadStatuses,
                Fail, Restart
  <2>2. pc = "sign" /\ Classify = "success"
    BY <1>1, <2>1 DEF Sign, Payload
  <2>3. /\ ~checks.has_failure /\ ~checks.has_pending
        /\ statuses.state \notin {"failure", "pending"}
        /\ Complete /\ checks.total + statuses.total # 0
    BY <2>2 DEF Classify
  <2>4. PICK page \in Pages(sawCheck) : checks = CheckSummary(page, sawCheck)
    BY <1>1, <2>2 DEF ReceiptInv, SummaryInv
  <2>5. PICK page2 \in Pages(sawStatus) : statuses = StatusSummary(page2, sawStatus)
    BY <1>1, <2>2 DEF ReceiptInv, SummaryInv
  <2>6. /\ checks.total \in Nat /\ checks.total = 0 <=> Present(sawCheck) = {}
        /\ checks.observed = checks.total =>
              /\ Having(sawCheck, "failure") # {} => checks.has_failure
              /\ Having(sawCheck, "pending") # {} => checks.has_pending
    BY <1>1, <2>4, CheckFields, ContributionReceiptAssumption
       DEF ReceiptInv, SummaryInv
  <2>7. /\ statuses.total \in Nat /\ statuses.total = 0 <=> Present(sawStatus) = {}
        /\ statuses.state = Combined(sawStatus)
    BY <1>1, <2>5, StatusFields, ContributionReceiptAssumption
       DEF ReceiptInv, SummaryInv
  <2>8. Having(sawCheck, "failure") = {} /\ Having(sawCheck, "pending") = {}
    BY <2>3, <2>6 DEF Complete, CountsComplete
  <2>9. Having(sawStatus, "failure") = {} /\ Having(sawStatus, "pending") = {}
    BY <2>3, <2>7, CombinedFacts
  <2>10. Present(sawCheck) # {} \/ Present(sawStatus) # {}
    BY <2>3, <2>6, <2>7
  <2> QED BY <2>8, <2>9, <2>10
<1>2. ReceiptInv /\ [Next]_vars =>
         [receipt' # receipt /\ receipt'.ci = "success" => Earned]_vars
  BY <1>1
<1> QED BY <1>2, ReceiptInvariant, PTL DEF Spec, SuccessIsEarned

=============================================================================
