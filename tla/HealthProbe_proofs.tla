-------------------------- MODULE HealthProbe_proofs --------------------------
(* Proofs of what `health` may conclude, for every set of processes, every  *)
(* bound and every provisioned cursor and nonce, with and without expiry.   *)
EXTENDS HealthProbe, SafeAgent_proofs

-----------------------------------------------------------------------------
(* What a step of the agent does to the files the probe reads. *)

\* A cursor, once saved, stays known; a torn audit log stays torn.
LEMMA MarksStay ==
    ASSUME AgentInv, [Next]_vars
    PROVE  /\ disk.known => disk'.known
           /\ torn => torn'
<1> USE DEF serverVars, fileVars, procVars, ghostVars
<1>1. CASE Environment
  BY <1>1 DEF Environment, PeerPost, Expire, AcceptLate
<1>2. ASSUME NEW p \in Procs,
             Start(p) \/ Recover(p) \/ Halt(p) \/ Accept(p)
             \/ \E c \in BOOLEAN : Inspect(p, c)
      PROVE  (disk.known => disk'.known) /\ (torn => torn')
  <2>1. disk' = disk
    BY <1>2 DEF Start, Recover, Halt, Accept, Inspect
  <2>2. torn' = torn \/ torn' \in {torn, torn \/ pc[p] = "audit"}
    BY <1>2 DEF Start, Recover, Halt, Accept, Inspect
  <2>3. torn \in BOOLEAN
    BY DEF AgentInv, TypeOK
  <2>4. torn => torn'
    BY <2>2, <2>3
  <2> QED BY <2>1, <2>4
<1>3. ASSUME NEW p \in Procs, RunStep(p) \/ RecoverStep(p)
      PROVE  (disk.known => disk'.known) /\ (torn => torn')
  <2>1. torn' = torn
    BY <1>3 DEF RunStep, BootRead, BootSave, Poll, PollUnavailable, Decline,
                Reply, Post, Acknowledge, AppendAudit, SaveCursor, Clear,
                RecoverStep, Repost, RetryAnswered, Finalize, RecoverSave,
                RecoverClear
  <2>2. \/ disk' = disk
        \/ \E cursor, nonce :
              disk' = [known |-> TRUE, cursor |-> cursor, nonce |-> nonce]
    BY <1>3 DEF RunStep, BootRead, BootSave, Poll, PollUnavailable, Decline,
                Reply, Post, Acknowledge, AppendAudit, SaveCursor, Clear,
                RecoverStep, Repost, RetryAnswered, Finalize, RecoverSave,
                RecoverClear, SaveState
  <2> QED BY <2>1, <2>2
<1>4. CASE UNCHANGED vars
  BY <1>4 DEF vars
<1> QED BY <1>1, <1>2, <1>3, <1>4 DEF Next

\* As long as no process is live, nobody touches journal and audit log.
LEMMA NobodyWrites ==
    ASSUME AgentInv, [Next]_vars, LockFree, LockFree'
    PROVE  UNCHANGED <<journal, torn>>
<1> USE DEF serverVars, fileVars, procVars, ghostVars
<1>1. pc \in [Procs -> PC]
  BY DEF AgentInv, TypeOK
<1>2. CASE Environment
  BY <1>2 DEF Environment, PeerPost, Expire, AcceptLate
<1>3. ASSUME NEW p \in Procs, Start(p) \/ Recover(p) PROVE FALSE
  BY <1>1, <1>3 DEF Start, Recover, LockFree
<1>4. ASSUME NEW p \in Procs, Halt(p) \/ Accept(p)
                              \/ \E c \in BOOLEAN : Inspect(p, c)
      PROVE  FALSE
  BY <1>4 DEF Halt, Accept, Inspect, LockFree
<1>5. ASSUME NEW p \in Procs, RunStep(p) PROVE FALSE
  BY <1>5 DEF RunStep, BootRead, BootSave, Poll, PollUnavailable, Decline,
              Reply, Post, Acknowledge, AppendAudit, SaveCursor, Clear, LockFree
<1>6. ASSUME NEW p \in Procs, RecoverStep(p) PROVE FALSE
  BY <1>6 DEF RecoverStep, Repost, RetryAnswered, Finalize, RecoverSave,
              RecoverClear, LockFree
<1>7. CASE UNCHANGED vars
  BY <1>7 DEF vars
<1> QED BY <1>2, <1>3, <1>4, <1>5, <1>6, <1>7 DEF Next

-----------------------------------------------------------------------------
(* The inductive invariant holds initially and after every step. *)

\* The agent's invariant does not depend on starting from an empty room.
LEMMA ProvisionedInit == HealthInit => AgentInv
<1> SUFFICES ASSUME HealthInit PROVE AgentInv
  OBVIOUS
<1> USE ProvisionedAssumption DEF HealthInit
<1> DEFINE m == [kind |-> "other", input |-> 0, nonce |-> 0]
<1>1. log \in Seq(Message) /\ Len(log) = ProvisionedSeq
  <2>1. m \in Message
    BY DEF Message
  <2>2. log \in [1 .. ProvisionedSeq -> Message]
    BY <2>1
  <2> QED BY <2>2
<1>2. /\ NoEnvelope \in Envelope /\ NoState \in StateFile
      /\ NoDelivery \in DeliveryRecord /\ disk \in StateFile
      /\ "down" \in PC
  BY DEF NoEnvelope, Envelope, NoState, StateFile, NoDelivery, DeliveryRecord, PC
<1>3. TypeOK
  <2>1. log \in Seq(Message) /\ floor \in 0 .. Len(log)
    BY <1>1
  <2>2. /\ disk \in StateFile /\ journal \in DeliveryRecord
        /\ torn \in BOOLEAN /\ history \in Nat
    BY <1>2
  <2>3. /\ late \subseteq Envelope /\ prepared \subseteq Envelope
        /\ audit \subseteq AuditRecord /\ recovered \subseteq Nat
    OBVIOUS
  <2>4. /\ pc \in [Procs -> PC] /\ mem \in [Procs -> StateFile]
        /\ batch \in [Procs -> SUBSET Nat] /\ env \in [Procs -> Envelope]
        /\ answer \in [Procs -> Nat]
    BY <1>2
  <2> QED BY <2>1, <2>2, <2>3, <2>4 DEF TypeOK
<1>4. Replies = {}
  BY DEF Replies
<1>5. RoomInv /\ EnvelopeInv /\ DeliveredIsAudited
  BY <1>4 DEF RoomInv, EnvelopeInv, DeliveredIsAudited
<1>6. JournalInv
  BY DEF JournalInv, NoDelivery
<1>7. OneLive /\ \A p \in Procs : IdleInv(p) /\ HandleInv(p) /\ RecoverInv(p)
  BY DEF OneLive, Live, IdleInv, HandleInv, RecoverInv
<1> QED BY <1>3, <1>5, <1>6, <1>7 DEF AgentInv

LEMMA HealthInvInit == HealthInit => HealthInv
<1> SUFFICES ASSUME HealthInit PROVE HealthInv
  OBVIOUS
<1>1. AgentInv
  BY ProvisionedInit
<1>2. ProbeTypeOK
  BY DEF HealthInit, ProbeTypeOK, Probe, NoProbe
<1>3. FindingsInv /\ QuietInv /\ HeldInv
  <2>1. StateServes
    BY ProvisionedAssumption DEF HealthInit, StateServes
  <2>2. /\ probe = NoProbe /\ probe.at = "idle" /\ ~quiet /\ ~held
        /\ probe.delivery = "" /\ probe.audit = ""
    BY DEF HealthInit, NoProbe
  <2> QED BY <2>1, <2>2 DEF FindingsInv, QuietInv, HeldInv
<1> QED BY <1>1, <1>2, <1>3 DEF HealthInv

\* A step of the agent beside the probe.
LEMMA AgentBeside ==
    ASSUME HealthInv, Beside(Next)
    PROVE  HealthInv'
<1>1. AgentInv /\ Next /\ [Next]_vars /\ AgentInv'
  BY AgentInvStep DEF HealthInv, Beside
<1>2. probe' = probe /\ ProbeTypeOK /\ FindingsInv /\ QuietInv /\ HeldInv
  BY DEF HealthInv, Beside
<1>3. ProbeTypeOK'
  <2>1. quiet' \in BOOLEAN /\ held' \in BOOLEAN /\ vanished' \in BOOLEAN
    BY DEF Beside
  <2> QED BY <1>2, <2>1 DEF ProbeTypeOK
<1>4. StateServes'
  <2>1. /\ disk'.cursor >= disk.cursor /\ disk'.nonce >= disk.nonce
        /\ disk'.known
    BY <1>1, <1>2, FileStep, MarksStay DEF FindingsInv, StateServes
  <2>2. /\ disk.cursor \in Nat /\ disk.nonce \in Nat
        /\ disk'.cursor \in Nat /\ disk'.nonce \in Nat
    BY <1>1 DEF AgentInv, TypeOK, StateFile
  <2> QED BY <1>2, <2>1, <2>2, ProvisionedAssumption DEF FindingsInv, StateServes
<1>5. probe.at = "unlock" => LockFree'
  BY <1>2 DEF Beside, LockTaken, FindingsInv, LockFree
<1>6. probe.at = "read" /\ JournalEmpty' => vanished'
  BY DEF Beside, JournalEmpty
<1>7. probe.delivery = "invalid" => vanished'
  BY <1>2 DEF Beside, FindingsInv
<1>8. probe.audit = "invalid" => torn'
  BY <1>1, <1>2, MarksStay DEF FindingsInv
<1>9. (quiet' => quiet /\ LockFree') /\ (held' => held /\ ~LockFree')
  BY DEF Beside, LockFree
<1>10. FindingsInv'
  BY <1>2, <1>4, <1>5, <1>6, <1>7, <1>8, <1>9 DEF FindingsInv
<1>11. QuietInv'
  <2> SUFFICES ASSUME quiet' PROVE QuietInv'
    BY DEF QuietInv
  <2>1. quiet /\ LockFree /\ LockFree'
    BY <1>2, <1>9 DEF QuietInv
  <2>2. UNCHANGED <<journal, torn>>
    BY <1>1, <2>1, NobodyWrites
  <2> QED BY <1>2, <2>1, <2>2 DEF QuietInv, JournalEmpty
<1>12. HeldInv'
  BY <1>2, <1>9 DEF HeldInv
<1> QED BY <1>1, <1>3, <1>10, <1>11, <1>12 DEF HealthInv

\* What the probe's own steps leave alone.
LEMMA AgentStands ==
    ASSUME AgentInv, UNCHANGED vars
    PROVE  /\ AgentInv' /\ LockFree' = LockFree /\ JournalEmpty' = JournalEmpty
           /\ StateServes' = StateServes
           /\ UNCHANGED <<disk, journal, torn>>
<1>1. [Next]_vars
  OBVIOUS
<1>2. AgentInv'
  BY <1>1, AgentInvStep
<1> QED BY <1>2 DEF vars, LockFree, JournalEmpty, StateServes

\* A read of the probe.
LEMMA ProbeSteps ==
    ASSUME HealthInv, CheckState \/ ProbeStep
    PROVE  HealthInv'
<1>1. UNCHANGED vars
  BY DEF CheckState, ProbeStep, LookDelivery, ReadDelivery, CheckAudit,
         CheckLock, Unlock, Report
<1>2. /\ AgentInv' /\ LockFree' = LockFree /\ JournalEmpty' = JournalEmpty
      /\ StateServes' = StateServes /\ UNCHANGED <<disk, journal, torn>>
  BY <1>1, AgentStands DEF HealthInv
<1>3. /\ ProbeTypeOK /\ FindingsInv /\ QuietInv /\ HeldInv
      /\ StateServes /\ StateServes' /\ torn \in BOOLEAN
      /\ journal.status \in {"none", "pending", "acknowledged"}
      /\ probe \in Probe
  BY <1>2 DEF HealthInv, FindingsInv, ProbeTypeOK, AgentInv, TypeOK, DeliveryRecord
<1>4. SUFFICES ProbeTypeOK' /\ FindingsInv' /\ QuietInv' /\ HeldInv'
  BY <1>2 DEF HealthInv
<1>5. ASSUME UNCHANGED <<quiet, held, vanished>>, probe' \in Probe,
             probe'.at # "idle", probe'.state = "valid",
             probe'.at = "unlock" => LockFree /\ probe'.process = "stopped",
             probe'.at = "read" => ~JournalEmpty,
             probe'.delivery = "invalid" => vanished,
             probe'.audit = "invalid" => torn,
             quiet =>
                /\ probe'.at \in {"audit", "lock", "unlock", "report"} =>
                      probe'.delivery = IF JournalEmpty THEN "clear"
                                        ELSE journal.status
                /\ probe'.at \in {"lock", "unlock", "report"} =>
                      probe'.audit = IF torn THEN "invalid" ELSE "valid"
                /\ probe'.at = "report" => probe'.process = "stopped",
             held /\ probe'.at = "report" => probe'.process = "running"
      PROVE  ProbeTypeOK' /\ FindingsInv' /\ QuietInv' /\ HeldInv'
  <2>1. ProbeTypeOK'
    BY <1>3, <1>5 DEF ProbeTypeOK
  <2>2. FindingsInv'
    BY <1>2, <1>3, <1>5 DEF FindingsInv
  <2>3. QuietInv'
    BY <1>2, <1>3, <1>5 DEF QuietInv
  <2>4. HeldInv'
    BY <1>2, <1>3, <1>5 DEF HeldInv
  <2> QED BY <2>1, <2>2, <2>3, <2>4
<1> USE DEF Go, Probe
<1>6. CASE CheckState
  <2>1. probe' = [probe EXCEPT !.at = "look", !.state = "valid"]
    BY <1>3, <1>6 DEF CheckState
  <2>2. probe = NoProbe
    BY <1>3, <1>6 DEF CheckState, FindingsInv
  <2> QED BY <1>2, <1>3, <1>6, <2>1, <2>2
          DEF CheckState, ProbeTypeOK, FindingsInv, QuietInv, HeldInv, NoProbe,
              LockFree
<1>7. CASE LookDelivery
  BY <1>2, <1>3, <1>5, <1>7 DEF LookDelivery, FindingsInv, QuietInv, HeldInv
<1>8. CASE ReadDelivery
  <2>1. PICK seen \in IF JournalEmpty THEN {"invalid", "clear"}
                                      ELSE {journal.status} :
           probe' = [probe EXCEPT !.at = "audit", !.delivery = seen]
    BY <1>8 DEF ReadDelivery
  <2>2. seen \in {"clear", "invalid", "pending", "acknowledged"}
    BY <1>3 DEF JournalEmpty
  <2>3. seen = "invalid" => vanished
    BY <1>3, <1>8 DEF ReadDelivery, FindingsInv
  <2>4. quiet => seen = IF JournalEmpty THEN "clear" ELSE journal.status
    BY <1>3, <1>8 DEF ReadDelivery, QuietInv
  <2> QED BY <1>2, <1>3, <1>5, <1>8, <2>1, <2>2, <2>3, <2>4
          DEF ReadDelivery, FindingsInv, QuietInv, HeldInv
<1>9. CASE CheckAudit
  BY <1>2, <1>3, <1>5, <1>9 DEF CheckAudit, AuditVerifies, FindingsInv, QuietInv,
                                HeldInv
<1>10. CASE CheckLock
  BY <1>2, <1>3, <1>5, <1>10 DEF CheckLock, FindingsInv, QuietInv, HeldInv
<1>11. CASE Unlock
  BY <1>2, <1>3, <1>5, <1>11 DEF Unlock, FindingsInv, QuietInv, HeldInv
<1>12. CASE Report
  BY <1>2, <1>3, <1>12 DEF Report, ProbeTypeOK, FindingsInv, QuietInv, HeldInv,
                           NoProbe
<1> QED BY <1>6, <1>7, <1>8, <1>9, <1>10, <1>11, <1>12 DEF ProbeStep

LEMMA HealthInvStep == HealthInv /\ [HealthNext]_healthVars => HealthInv'
<1> SUFFICES ASSUME HealthInv, [HealthNext]_healthVars PROVE HealthInv'
  OBVIOUS
<1>1. CASE UNCHANGED healthVars
  <2>1. UNCHANGED vars /\ UNCHANGED <<probe, quiet, held, vanished>>
    BY <1>1 DEF healthVars, vars
  <2>2. /\ AgentInv' /\ LockFree' = LockFree /\ JournalEmpty' = JournalEmpty
        /\ StateServes' = StateServes /\ UNCHANGED <<journal, torn>>
    BY <2>1, AgentStands DEF HealthInv
  <2> QED BY <2>1, <2>2
          DEF HealthInv, ProbeTypeOK, FindingsInv, QuietInv, HeldInv
<1> QED BY <1>1, AgentBeside, ProbeSteps DEF HealthNext

-----------------------------------------------------------------------------
(* The theorems. *)

\* Agent and probe agree in every reachable state: the invariant from which
\* what `health` prints follows.
THEOREM HealthInvariant == HealthSpec => []HealthInv
  BY HealthInvInit, HealthInvStep, PTL DEF HealthSpec

\* The verdict of a probe during which nobody is live is a documented one: the
\* only one but for a journal left behind under --expect-running.
THEOREM QuietProbe == HealthSpec => []QuietVerdictIsExact
<1>1. HealthInv => QuietVerdictIsExact
  <2> SUFFICES ASSUME HealthInv, probe.at = "report", quiet,
                      NEW expect \in BOOLEAN
               PROVE  Verdict(probe, expect) \in DocumentedStatuses(expect)
    BY DEF QuietVerdictIsExact
  <2>1. /\ probe.state = "valid" /\ probe.process = "stopped"
        /\ probe.delivery = IF JournalEmpty THEN "clear" ELSE journal.status
        /\ probe.audit = IF torn THEN "invalid" ELSE "valid"
    BY DEF HealthInv, FindingsInv, QuietInv
  <2>2. journal.status \in {"none", "pending", "acknowledged"} /\ torn \in BOOLEAN
    BY DEF HealthInv, AgentInv, TypeOK, DeliveryRecord
  <2> QED BY <2>1, <2>2 DEF Verdict, Problem, DeliverySeen, DocumentedStatuses,
                            JournalEmpty
<1> QED BY <1>1, HealthInvariant, PTL

\* A probe all through which somebody is live reports neither a stopped agent
\* nor a journal to recover.
THEOREM HeldProbe == HealthSpec => []HeldVerdictIsRunning
<1>1. HealthInv => HeldVerdictIsRunning
  BY DEF HealthInv, HeldInv, HeldVerdictIsRunning, Verdict
<1> QED BY <1>1, HealthInvariant, PTL

\* An `unhealthy` has one of three reasons, and the state file is none.
THEOREM UnhealthyHasAReason == HealthSpec => []UnhealthyIsExplained
<1>1. HealthInv => UnhealthyIsExplained
  BY DEF HealthInv, FindingsInv, UnhealthyIsExplained, Verdict, Problem
<1> QED BY <1>1, HealthInvariant, PTL
=============================================================================
