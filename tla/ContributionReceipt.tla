------------------------- MODULE ContributionReceipt -------------------------
(***************************************************************************)
(* `/pr` receipts: the service looks up a pull request, reads the check    *)
(* runs and then the commit statuses of its head, condenses them to one CI *)
(* state and signs the result.                                             *)
(*                                                                         *)
(* GitHub is external.  Its CI moves between the reads, so one receipt     *)
(* joins two moments.  Both reads name the head commit and refuse answers  *)
(* about another one, so the model is of one commit.                       *)
(***************************************************************************)
EXTENDS Integers, FiniteSets

CONSTANTS
    Checks,       \* check runs the commit may have
    Contexts,     \* commit statuses it may have
    PageSize,     \* per_page=100
    MinInterval,  \* min_interval_seconds
    MaxTime       \* bound: the monotonic clock

ASSUME ContributionReceiptAssumption ==
    /\ IsFiniteSet(Checks) /\ IsFiniteSet(Contexts)
    /\ PageSize \in Nat \ {0} /\ MinInterval \in Nat /\ MaxTime \in Nat

VARIABLES
    check,       \* GitHub: every check run
    status,      \* GitHub: every commit status
    now,         \* the monotonic clock of the process
    lastAttempt, \* service: _last_attempt_at, -1 for None
    pc,          \* service: next step of issue
    checks,      \* service: the _CheckSummary
    statuses,    \* service: the _StatusSummary
    receipt,     \* the receipt signed last
    lookups,     \* history: when this process asked GitHub, newest first
    sawCheck,    \* history: the check runs when they were read
    sawStatus    \* history: the statuses when they were read

vars == <<check, status, now, lastAttempt, pc, checks, statuses, receipt,
          lookups, sawCheck, sawStatus>>

\* failure stands for every conclusion of CHECK_FAILURES and for the states
\* error and failure of a status; success for neutral and skipped too.
Signal == {"none", "pending", "success", "failure"}
CIState == {"failure", "partial", "no_signals", "pending", "success"}

Present(signals) == {x \in DOMAIN signals : signals[x] # "none"}
Having(signals, value) == {x \in DOMAIN signals : signals[x] = value}

NoReceipt == [ci |-> "none"]
Empty == [observed |-> 0, total |-> 0]

-----------------------------------------------------------------------------
(* GitHub *)

\* A run or a status appears, ends, or starts again.
Move ==
    /\ \/ \E c \in Checks, v \in Signal \ {"none"} :
             check' = [check EXCEPT ![c] = v] /\ UNCHANGED status
       \/ \E s \in Contexts, v \in Signal \ {"none"} :
             status' = [status EXCEPT ![s] = v] /\ UNCHANGED check
    /\ UNCHANGED <<now, lastAttempt, pc, checks, statuses, receipt, lookups,
                   sawCheck, sawStatus>>

\* One page of the records.
Pages(signals) ==
    {page \in SUBSET Present(signals) :
        IF Cardinality(Present(signals)) <= PageSize
          THEN page = Present(signals) ELSE Cardinality(page) = PageSize}

\* The combined state of a commit: pending also when there is no status.
Combined(signals) ==
    IF Having(signals, "failure") # {} THEN "failure"
    ELSE IF Having(signals, "pending") # {} \/ Present(signals) = {} THEN "pending"
    ELSE "success"

-----------------------------------------------------------------------------
(* ContributionReceiptService.issue *)

Tick ==
    /\ now < MaxTime
    /\ now' = now + 1
    /\ UNCHANGED <<check, status, lastAttempt, pc, checks, statuses, receipt,
                   lookups, sawCheck, sawStatus>>

\* Mutant: an attempt that may fail is not recorded.
AttemptedLater == lastAttempt

\* _last_attempt_at is set before the lookup.
Attempted == now

\* A request within the cooldown is refused.
Issue ==
    /\ pc = "idle"
    /\ lastAttempt >= 0 => now - lastAttempt >= MinInterval
    /\ lastAttempt' = Attempted
    /\ lookups' = <<now, lookups[1]>>
    /\ pc' = "pull"
    /\ UNCHANGED <<check, status, now, checks, statuses, receipt, sawCheck,
                   sawStatus>>

\* _parse_pull: the head commit is known.
ReadPull ==
    /\ pc = "pull"
    /\ pc' = "checks"
    /\ UNCHANGED <<check, status, now, lastAttempt, checks, statuses, receipt,
                   lookups, sawCheck, sawStatus>>

CheckSummary(page, signals) ==
    [observed |-> Cardinality(page), total |-> Cardinality(Present(signals)),
     has_failure |-> page \cap Having(signals, "failure") # {},
     has_pending |-> page \cap Having(signals, "pending") # {}]

StatusSummary(page, signals) ==
    [observed |-> Cardinality(page), total |-> Cardinality(Present(signals)),
     state |-> Combined(signals)]

\* _parse_checks
ReadChecks ==
    /\ pc = "checks"
    /\ \E page \in Pages(check) : checks' = CheckSummary(page, check)
    /\ sawCheck' = check
    /\ pc' = "statuses"
    /\ UNCHANGED <<check, status, now, lastAttempt, statuses, receipt, lookups,
                   sawStatus>>

\* _parse_statuses
ReadStatuses ==
    /\ pc = "statuses"
    /\ \E page \in Pages(status) : statuses' = StatusSummary(page, status)
    /\ sawStatus' = status
    /\ pc' = "sign"
    /\ UNCHANGED <<check, status, now, lastAttempt, checks, receipt, lookups,
                   sawCheck>>

CountsComplete(r) ==
    r.checks.observed = r.checks.total /\ r.statuses.observed = r.statuses.total

Complete == CountsComplete([checks |-> checks, statuses |-> statuses])

\* Mutant: pending is looked for before completeness.
ClassifyPendingFirst ==
    IF checks.has_failure \/ statuses.state = "failure" THEN "failure"
    ELSE IF checks.has_pending \/ statuses.state = "pending" THEN "pending"
    ELSE IF ~Complete THEN "partial"
    ELSE IF checks.total + statuses.total = 0 THEN "no_signals"
    ELSE "success"

\* Mutant: the commit statuses are asked for failures only.
ClassifyChecks ==
    IF checks.has_failure \/ statuses.state = "failure" THEN "failure"
    ELSE IF ~Complete THEN "partial"
    ELSE IF checks.total + statuses.total = 0 THEN "no_signals"
    ELSE IF checks.has_pending THEN "pending"
    ELSE "success"

\* The ladder of GitHubPublicClient.inspect.
Classify ==
    IF checks.has_failure \/ statuses.state = "failure" THEN "failure"
    ELSE IF ~Complete THEN "partial"
    ELSE IF checks.total + statuses.total = 0 THEN "no_signals"
    ELSE IF checks.has_pending \/ statuses.state = "pending" THEN "pending"
    ELSE "success"

Payload ==
    [ci |-> Classify, ci_data_complete |-> Complete,
     checks |-> [observed |-> checks.observed, total |-> checks.total],
     statuses |-> [observed |-> statuses.observed, total |-> statuses.total]]

\* _validate_receipt_ci, of the issuer and of every verifier
Valid(r) ==
    LET signals == r.checks.total + r.statuses.total
    IN  /\ r.ci \in CIState
        /\ r.checks.observed <= r.checks.total
        /\ r.statuses.observed <= r.statuses.total
        /\ r.ci_data_complete = CountsComplete(r)
        /\ r.ci = "no_signals" <=> signals = 0
        /\ r.ci = "partial" => ~CountsComplete(r)
        /\ r.ci \in {"pending", "success"} => CountsComplete(r)

\* What the lookup found is forgotten.
Leave ==
    /\ pc' = "idle"
    /\ checks' = Empty /\ statuses' = Empty
    /\ sawCheck' = [c \in Checks |-> "none"]
    /\ sawStatus' = [s \in Contexts |-> "none"]

\* build_signed_receipt and render_signed_receipt
Sign ==
    /\ pc = "sign"
    /\ Valid(Payload)
    /\ receipt' = Payload
    /\ Leave
    /\ UNCHANGED <<check, status, now, lastAttempt, lookups>>

\* A GitHubReceiptError: an HTTP error, a rate limit, a malformed answer, a
\* payload that does not validate.
Fail ==
    /\ pc # "idle"
    /\ Leave
    /\ UNCHANGED <<check, status, now, lastAttempt, receipt, lookups>>

\* The process is restarted: the cooldown is forgotten.
Restart ==
    /\ Leave
    /\ lastAttempt' = -1
    /\ lookups' = <<-1, -1>>
    /\ UNCHANGED <<check, status, now, receipt>>

-----------------------------------------------------------------------------
Init ==
    /\ check = [c \in Checks |-> "none"]
    /\ status = [s \in Contexts |-> "none"]
    /\ now = 0 /\ lastAttempt = -1
    /\ pc = "idle" /\ checks = Empty /\ statuses = Empty
    /\ receipt = NoReceipt
    /\ lookups = <<-1, -1>>
    /\ sawCheck = check /\ sawStatus = status

Next ==
    \/ Move \/ Tick
    \/ Issue \/ ReadPull \/ ReadChecks \/ ReadStatuses \/ Sign \/ Fail
    \/ Restart

Spec == Init /\ [][Next]_vars

-----------------------------------------------------------------------------
(* Properties *)

\* The shapes of GitHub and of the service; no attempt lies in the future.
TypeOK ==
    /\ check \in [Checks -> Signal] /\ status \in [Contexts -> Signal]
    /\ now \in 0 .. MaxTime /\ lastAttempt \in -1 .. now
    /\ pc \in {"idle", "pull", "checks", "statuses", "sign"}
    /\ receipt.ci \in CIState \cup {"none"}

\* A signed success rests on everything there was: when they were read, no
\* check and no status was pending or failing, seen or beyond the page.
SuccessIsEarned ==
    [][receipt' # receipt /\ receipt'.ci = "success" =>
          /\ Having(sawCheck, "pending") \cup Having(sawCheck, "failure") = {}
          /\ Having(sawStatus, "pending") \cup Having(sawStatus, "failure") = {}
          /\ Present(sawCheck) # {} \/ Present(sawStatus) # {}]_vars

\* What the classification says is what the validator accepts: whatever GitHub
\* holds and however it moves between the reads, no receipt built from its
\* answers is refused by issuer or verifier.
ReceiptsValidate == pc = "sign" => Valid(Payload)

\* One process asks GitHub at most once per interval, also when lookups fail.
LookupsAreSpaced ==
    lookups[2] >= 0 => lookups[1] - lookups[2] >= MinInterval

\* A receipt says pending only if a check or a status was observed pending.
PendingIsObserved ==
    [][receipt' # receipt /\ receipt'.ci = "pending" =>
          Having(sawCheck, "pending") # {} \/ Having(sawStatus, "pending") # {}]_vars

-----------------------------------------------------------------------------
(* The inductive invariant behind the safety properties. *)

\* The cooldown is counted from the last lookup there was.
CooldownInv ==
    /\ lookups \in Int \X Int /\ lookups[1] = lastAttempt
    /\ LookupsAreSpaced

\* What the service holds is one page of what there was when it read.
SummaryInv ==
    /\ sawCheck \in [Checks -> Signal] /\ sawStatus \in [Contexts -> Signal]
    /\ pc \in {"statuses", "sign"} =>
          \E page \in Pages(sawCheck) : checks = CheckSummary(page, sawCheck)
    /\ pc = "sign" =>
          \E page \in Pages(sawStatus) : statuses = StatusSummary(page, sawStatus)

ReceiptInv == TypeOK /\ CooldownInv /\ SummaryInv

=============================================================================
