----------------------------- MODULE HealthProbe -----------------------------
(***************************************************************************)
(* `health` beside a provisioned agent: one probe at a time reads the state *)
(* file, the delivery journal, the audit log and the process lock, in that *)
(* order, while the responder and recover-delivery of SafeAgent go on.     *)
(*                                                                         *)
(* Every read is a step of its own.  To learn whether the lock is held the *)
(* probe takes it when it is free, so between CheckLock and Unlock nobody  *)
(* can start.  Identity, config and policy do not change here and are      *)
(* valid; their checks are left out.                                       *)
(***************************************************************************)
EXTENDS SafeAgent

CONSTANTS
    ProvisionedSeq,     \* provisioned_seq of the active config
    ProvisionNonce      \* provision_nonce of the active config

ASSUME ProvisionedAssumption ==
    ProvisionedSeq \in Nat \ {0} /\ ProvisionNonce \in Nat \ {0}

VARIABLES
    probe,      \* what the probe has seen so far and its next step
    quiet,      \* history: no process was live since the probe began
    held,       \* history: some process was live all the time since then
    vanished    \* history: the journal the probe saw has been cleared

probeVars == <<probe, quiet, held, vanished>>
healthVars == <<log, floor, late, disk, journal, audit, torn, pc, mem, batch,
                env, answer, prepared, recovered, history,
                probe, quiet, held, vanished>>

Probe ==
    [at : {"idle", "look", "read", "audit", "lock", "unlock", "report"},
     state : {"", "valid", "invalid"},
     delivery : {"", "clear", "invalid", "pending", "acknowledged"},
     audit : {"", "valid", "invalid"},
     process : {"", "stopped", "running"}]

NoProbe == [at |-> "idle", state |-> "", delivery |-> "", audit |-> "",
            process |-> ""]

Go(step) == [probe EXCEPT !.at = step]

-----------------------------------------------------------------------------
(* inspect_operational_health, one read after the other. *)

\* _state_check: cursor and nonce present and not behind the config.
StateServes ==
    /\ disk.known
    /\ disk.cursor >= ProvisionedSeq
    /\ disk.nonce >= ProvisionNonce

CheckState ==
    /\ probe.at = "idle"
    /\ probe' = [Go("look") EXCEPT
                    !.state = IF StateServes THEN "valid" ELSE "invalid"]
    /\ quiet' = LockFree
    /\ held' = ~LockFree
    /\ vanished' = FALSE
    /\ UNCHANGED vars

\* _delivery_check, _path_present.
LookDelivery ==
    /\ probe.at = "look"
    /\ probe' = IF JournalEmpty THEN [Go("audit") EXCEPT !.delivery = "clear"]
                                ELSE Go("read")
    /\ UNCHANGED <<vars, quiet, held, vanished>>

\* The file is opened again for its metadata, its presence and its contents.
\* When it has gone meanwhile, the first and the last raise an error and the
\* second reads as no delivery.
ReadDelivery ==
    /\ probe.at = "read"
    /\ \E seen \in IF JournalEmpty THEN {"invalid", "clear"}
                                   ELSE {journal.status} :
          probe' = [Go("audit") EXCEPT !.delivery = seen]
    /\ UNCHANGED <<vars, quiet, held, vanished>>

\* SignedAuditLog.verify waits for a running append (shared lock).
CheckAudit ==
    /\ probe.at = "audit"
    /\ probe' = [Go("lock") EXCEPT
                    !.audit = IF AuditVerifies THEN "valid" ELSE "invalid"]
    /\ UNCHANGED <<vars, quiet, held, vanished>>

\* _process_lock_status: a free lock is taken for a moment.
CheckLock ==
    /\ probe.at = "lock"
    /\ probe' = IF LockFree
                THEN [Go("unlock") EXCEPT !.process = "stopped"]
                ELSE [Go("report") EXCEPT !.process = "running"]
    /\ UNCHANGED <<vars, quiet, held, vanished>>

Unlock ==
    /\ probe.at = "unlock"
    /\ probe' = Go("report")
    /\ UNCHANGED <<vars, quiet, held, vanished>>

\* Mutant: a journal whose reply was acknowledged needs no recovery.
DeliveryUnanswered(r) == r.delivery = "pending"

DeliverySeen(r) == r.delivery \in {"pending", "acknowledged"}

\* Mutant: --expect-running fails a probe that finds the process running.
ProblemIfRunning(r, expect) ==
    \/ "invalid" \in {r.state, r.delivery, r.audit}
    \/ expect /\ r.process = "running"

\* Every problem but a journal to recover; expect is --expect-running.
Problem(r, expect) ==
    \/ "invalid" \in {r.state, r.delivery, r.audit}
    \/ expect /\ r.process = "stopped"

\* Mutant: a journal asks for recovery also while a process holds the lock.
VerdictUnlocked(r, expect) ==
    IF Problem(r, expect) THEN "unhealthy"
    ELSE IF DeliverySeen(r) THEN "recovery_required"
    ELSE IF r.process = "running" THEN "running" ELSE "ready"

\* The status that is printed.
Verdict(r, expect) ==
    IF Problem(r, expect) THEN "unhealthy"
    ELSE IF DeliverySeen(r) /\ r.process = "stopped" THEN "recovery_required"
    ELSE IF r.process = "running" THEN "running" ELSE "ready"

Report ==
    /\ probe.at = "report"
    /\ probe' = NoProbe
    /\ quiet' = FALSE /\ held' = FALSE /\ vanished' = FALSE
    /\ UNCHANGED vars

ProbeStep ==
    \/ LookDelivery \/ ReadDelivery \/ CheckAudit \/ CheckLock
    \/ Unlock \/ Report

-----------------------------------------------------------------------------
(* The agent beside the probe. *)

LockTaken == probe.at = "unlock"

\* An agent step as the probe sees it; starting needs the lock.
Beside(step) ==
    /\ step
    /\ LockFree /\ (\E p \in Procs : pc'[p] # "down") => ~LockTaken
    /\ quiet' = (quiet /\ \A p \in Procs : pc'[p] = "down")
    /\ held' = (held /\ \E p \in Procs : pc'[p] # "down")
    /\ vanished' = (vanished \/ (probe.at = "read" /\ journal'.status = "none"))
    /\ UNCHANGED probe

\* provision has saved the marker's cursor and nonce; nothing runs yet.
HealthInit ==
    /\ log = [s \in 1 .. ProvisionedSeq |->
                 [kind |-> "other", input |-> 0, nonce |-> 0]]
    /\ floor = 0 /\ late = {}
    /\ disk = [known |-> TRUE, cursor |-> ProvisionedSeq,
               nonce |-> ProvisionNonce]
    /\ journal = NoDelivery /\ audit = {} /\ torn = FALSE
    /\ pc = [p \in Procs |-> "down"]
    /\ mem = [p \in Procs |-> NoState]
    /\ batch = [p \in Procs |-> {}]
    /\ env = [p \in Procs |-> NoEnvelope]
    /\ answer = [p \in Procs |-> 0]
    /\ prepared = {} /\ recovered = {} /\ history = 0
    /\ probe = NoProbe /\ quiet = FALSE /\ held = FALSE /\ vanished = FALSE

HealthNext ==
    \/ Beside(Next)
    \/ CheckState
    \/ ProbeStep

HealthSpec == HealthInit /\ [][HealthNext]_healthVars

\* A running process takes its next step and the server answers; the operator
\* restarts a stopped agent, runs recover-delivery while a journal exists and
\* sooner or later confirms the retry.  A start or a recovery that meets the
\* lock of the probe is refused and repeated, so it is strongly fair.
\* Interruptions eventually cease, while recovery may still report and exit
\* without having changed anything.
HealthFairSpec ==
    /\ HealthSpec
    /\ \A p \in Procs :
          /\ WF_healthVars(Beside(RunStep(p)))
          /\ WF_healthVars(Beside(RecoverStep(p)))
          /\ WF_healthVars(Beside(Accept(p)))
          /\ WF_healthVars(Beside(Refused(p)))
          /\ SF_healthVars(Beside(Inspect(p, TRUE)))
    /\ SF_healthVars(Beside(\E p \in Procs : Start(p)))
    /\ SF_healthVars(Beside(\E p \in Procs : Recover(p)))
    /\ WF_healthVars(ProbeStep)
    /\ <>[][\A p \in Procs :
               Halt(p) => Refused(p) \/ \E c \in BOOLEAN : Inspect(p, c)]_vars

-----------------------------------------------------------------------------
(* Properties. *)

\* The shapes of the probe's findings.
ProbeTypeOK ==
    /\ probe \in Probe
    /\ quiet \in BOOLEAN /\ held \in BOOLEAN /\ vanished \in BOOLEAN

\* What docs/operational-health.md says of files and a lock that stand still.
\* The delivery state table gives the status without --expect-running.  With
\* it a clean stopped process is `unhealthy`; for a journal left behind the
\* document reads both ways: `recovery_required` by the state table and because
\* the option is said to change a clean stopped process only, `unhealthy`
\* because a requested process expectation failed.
DocumentedStatuses(expect) ==
    IF torn THEN {"unhealthy"}
    ELSE IF journal.status # "none"
         THEN {"recovery_required"} \cup (IF expect THEN {"unhealthy"} ELSE {})
    ELSE IF expect THEN {"unhealthy"} ELSE {"ready"}

\* A probe during which no process is live reports a documented status of the
\* files as they are, also when that follows a crash in the middle of a
\* delivery, an append or a recovery.  Of the two statuses the document admits
\* for a journal under --expect-running the code prints `unhealthy`.
QuietVerdictIsExact ==
    probe.at = "report" /\ quiet =>
        \A expect \in BOOLEAN :
            Verdict(probe, expect) \in DocumentedStatuses(expect)

\* While processes hold the lock all through the probe it neither reports the
\* agent as stopped nor asks for recovery, whatever step of a delivery each of
\* its reads met ("delivery is currently in flight").
HeldVerdictIsRunning ==
    probe.at = "report" /\ held =>
        \A expect \in BOOLEAN :
            Verdict(probe, expect) \notin {"ready", "recovery_required"}

\* `unhealthy` has one of three reasons: a damaged audit log, a process that is
\* expected and missing, or a journal that was properly cleared between the
\* moment the probe saw it and the moment it read it; never the state file, so
\* provisioning's high-water marks are never lost.
UnhealthyIsExplained ==
    \A expect \in BOOLEAN :
        probe.at = "report" /\ Verdict(probe, expect) = "unhealthy" =>
        \/ torn
        \/ expect /\ probe.process = "stopped"
        \/ probe.delivery = "invalid" /\ vanished

-----------------------------------------------------------------------------
(* The inductive invariant behind the verdicts. *)

\* Provisioning's high-water marks are in the state file for good, so every
\* probe has found the state valid; between probes nothing is remembered.
FindingsInv ==
    /\ StateServes
    /\ IF probe.at = "idle" THEN probe = NoProbe /\ ~quiet /\ ~held
                            ELSE probe.state = "valid"
    /\ probe.at = "unlock" => LockFree /\ probe.process = "stopped"
    /\ probe.at = "read" /\ JournalEmpty => vanished
    /\ probe.delivery = "invalid" => vanished
    /\ probe.audit = "invalid" => torn

\* While nobody is live, what the probe has read is what the files hold.
QuietInv ==
    quiet =>
        /\ LockFree
        /\ probe.at = "read" => ~JournalEmpty
        /\ probe.at \in {"audit", "lock", "unlock", "report"} =>
              probe.delivery = IF JournalEmpty THEN "clear" ELSE journal.status
        /\ probe.at \in {"lock", "unlock", "report"} =>
              probe.audit = IF torn THEN "invalid" ELSE "valid"
        /\ probe.at = "report" => probe.process = "stopped"

\* While somebody is, the probe cannot get the lock.
HeldInv ==
    held =>
        /\ ~LockFree
        /\ probe.at = "report" => probe.process = "running"

\* The agent's invariant, for a provisioned agent, and the probe's.
HealthInv == AgentInv /\ ProbeTypeOK /\ FindingsInv /\ QuietInv /\ HeldInv
=============================================================================
