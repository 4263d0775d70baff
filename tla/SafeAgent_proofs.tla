--------------------------- MODULE SafeAgent_proofs ---------------------------
(* Proofs of the safety properties of SafeAgent for every set of processes, *)
(* every bound, every polling and recovery limit, with and without expiry.  *)
EXTENDS SafeAgent, TLAPS

-----------------------------------------------------------------------------
(* Facts about the operators the model is built from. *)

\* What appending to the room changes: nothing below the new last entry.
LEMMA AppendFacts ==
    ASSUME NEW m \in Message, log \in Seq(Message), log' = Append(log, m)
    PROVE  /\ log' \in Seq(Message)
           /\ Len(log') = Len(log) + 1
           /\ DOMAIN log = 1 .. Len(log)
           /\ DOMAIN log' = 1 .. Len(log) + 1
           /\ \A s \in DOMAIN log : log'[s] = log[s]
           /\ log'[Len(log) + 1] = m
  OBVIOUS

\* Type correctness (steps).
LEMMA TypeStep == TypeOK /\ [Next]_vars => TypeOK'
<1> SUFFICES ASSUME TypeOK, [Next]_vars PROVE TypeOK'
  OBVIOUS
<1> USE ConstantsAssumption DEF TypeOK, serverVars, fileVars, procVars, ghostVars
<1>0. /\ NoEnvelope \in Envelope /\ NoState \in StateFile
      /\ NoDelivery \in DeliveryRecord /\ Len(log) \in Nat
  BY DEF NoEnvelope, Envelope, NoState, StateFile, NoDelivery, DeliveryRecord
<1>pc. /\ "down" \in PC /\ "boot" \in PC /\ "bootsave" \in PC /\ "poll" \in PC
       /\ "decide" \in PC /\ "post" \in PC /\ "await" \in PC /\ "audit" \in PC
       /\ "save" \in PC /\ "clear" \in PC /\ "inspect" \in PC
       /\ "repost" \in PC /\ "reawait" \in PC /\ "finalize" \in PC
       /\ "resave" \in PC /\ "reclear" \in PC
  BY DEF PC
<1> USE <1>pc
<1>1. ASSUME NEW kind \in {"command", "other"}, PeerPost(kind) PROVE TypeOK'
  <2>1. [kind |-> kind, input |-> 0, nonce |-> 0] \in Message
    BY DEF Message
  <2>2. log' \in Seq(Message) /\ Len(log') = Len(log) + 1
    BY <1>1, <2>1, AppendFacts DEF PeerPost
  <2> QED BY <1>1, <2>2 DEF PeerPost
<1>2. CASE Expire
  BY <1>2 DEF Expire
<1>3. ASSUME NEW e \in late, AcceptLate(e) PROVE TypeOK'
  <2>1. ReplyMessage(e) \in Message
    BY DEF Message, ReplyMessage, Envelope
  <2>2. log' \in Seq(Message) /\ Len(log') = Len(log) + 1
    BY <1>3, <2>1, AppendFacts DEF AcceptLate
  <2> QED BY <1>3, <2>2 DEF AcceptLate
<1>4. ASSUME NEW p \in Procs, Accept(p) PROVE TypeOK'
  <2>1. ReplyMessage(env[p]) \in Message
    BY DEF Message, ReplyMessage, Envelope
  <2>2. log' \in Seq(Message) /\ Len(log') = Len(log) + 1
    BY <1>4, <2>1, AppendFacts DEF Accept
  <2> QED BY <1>4, <2>2 DEF Accept
<1>5. ASSUME NEW p \in Procs, Start(p) PROVE TypeOK'
  <2>1. history' \in Nat
    BY <1>0, <1>5 DEF Start
  <2>3. pc' \in [Procs -> PC]
    BY <1>5 DEF Start
  <2>2. mem' \in [Procs -> StateFile]
    BY <1>5 DEF Start
  <2> QED BY <1>5, <2>1, <2>2, <2>3 DEF Start
<1>6. ASSUME NEW p \in Procs, Recover(p) PROVE TypeOK'
  BY <1>6 DEF Recover, DeliveryRecord, Envelope
<1>7. ASSUME NEW p \in Procs, Halt(p) PROVE TypeOK'
  BY <1>0, <1>7 DEF Halt, Exit
<1>8. ASSUME NEW p \in Procs, BootRead(p) PROVE TypeOK'
  <2>1. PICK last \in LastSeq(0, 1) : mem' = [mem EXCEPT ![p].cursor = last]
    BY <1>8 DEF BootRead
  <2>2. last \in Nat
    BY <1>0 DEF LastSeq
  <2>3. mem' \in [Procs -> StateFile]
    BY <2>1, <2>2 DEF StateFile
  <2> QED BY <1>8, <2>3 DEF BootRead
<1>9. ASSUME NEW p \in Procs, BootSave(p) PROVE TypeOK'
  BY <1>9 DEF BootSave, SaveState, StateFile
<1>10. ASSUME NEW p \in Procs, Poll(p) PROVE TypeOK'
  BY <1>10 DEF Poll, Window
<1>11. ASSUME NEW p \in Procs, PollUnavailable(p) PROVE TypeOK'
  BY <1>11 DEF PollUnavailable, SaveState, LastSeq, StateFile
<1>12. ASSUME NEW p \in Procs, Decline(p) PROVE TypeOK'
  BY <1>12 DEF Decline, Envelope
<1>13. ASSUME NEW p \in Procs, Reply(p) PROVE TypeOK'
  <2>0. \A clock \in 0 .. MaxNonce : NextNonce(p, clock) \in Nat
    BY DEF NextNonce, Larger, StateFile
  <2>1. PICK s \in batch[p], n \in Nat :
           /\ mem' = [mem EXCEPT ![p].nonce = n]
           /\ env' = [env EXCEPT ![p] = [input |-> s, nonce |-> n]]
           /\ journal' = [status |-> "pending", input |-> s, nonce |-> n,
                          reply |-> 0]
           /\ prepared' = prepared \cup {[input |-> s, nonce |-> n]}
    BY <1>13, <2>0 DEF Reply
  <2>2. [input |-> s, nonce |-> n] \in Envelope
    BY DEF Envelope
  <2>3. mem' \in [Procs -> StateFile]
    BY <2>1 DEF StateFile
  <2>4. journal' \in DeliveryRecord
    BY <2>1 DEF DeliveryRecord
  <2> QED BY <1>13, <2>1, <2>2, <2>3, <2>4 DEF Reply
<1>14. ASSUME NEW p \in Procs, Post(p) \/ Repost(p) \/ RetryAnswered(p)
       PROVE TypeOK'
  BY <1>14 DEF Post, Repost, RetryAnswered
<1>15. ASSUME NEW p \in Procs, Acknowledge(p) \/ Finalize(p) PROVE TypeOK'
  <2>1. journal' \in DeliveryRecord
    BY <1>15 DEF Acknowledge, Finalize, AcknowledgeJournal, DeliveryRecord
  <2> QED BY <1>15, <2>1 DEF Acknowledge, Finalize
<1>16. ASSUME NEW p \in Procs, AppendAudit(p) PROVE TypeOK'
  BY <1>16 DEF AppendAudit, AuditRecord, Envelope
<1>17. ASSUME NEW p \in Procs, SaveCursor(p) PROVE TypeOK'
  <2>1. mem' \in [Procs -> StateFile] /\ disk' \in StateFile
    BY <1>17 DEF SaveCursor, SaveState, StateFile, Envelope
  <2>2. \/ NextMessage(p)
        \/ pc' = [pc EXCEPT ![p] = "clear"] /\ UNCHANGED <<batch, env, answer>>
    BY <1>17 DEF SaveCursor
  <2>3. /\ batch' \in [Procs -> SUBSET Nat] /\ env' \in [Procs -> Envelope]
        /\ answer' \in [Procs -> Nat] /\ pc' \in [Procs -> PC]
    <3>1. CASE NextMessage(p)
      BY <1>0, <3>1 DEF NextMessage
    <3>2. CASE ~NextMessage(p)
      BY <2>2, <3>2
    <3> QED BY <3>1, <3>2
  <2> QED BY <1>17, <2>1, <2>3 DEF SaveCursor
<1>18. ASSUME NEW p \in Procs, Clear(p) PROVE TypeOK'
  BY <1>0, <1>18 DEF Clear, NextMessage
<1>19. ASSUME NEW p \in Procs, NEW c \in BOOLEAN, Inspect(p, c) PROVE TypeOK'
  <2>1. \/ /\ \E s \in DOMAIN log : answer' = [answer EXCEPT ![p] = s]
           /\ pc' = [pc EXCEPT ![p] = "finalize"]
           /\ UNCHANGED <<mem, batch, env>>
        \/ /\ pc' = [pc EXCEPT ![p] = "repost"]
           /\ UNCHANGED <<mem, batch, env, answer>>
        \/ Exit(p)
    BY <1>19 DEF Inspect, Window
  <2>2. UNCHANGED <<serverVars, late, fileVars, ghostVars>>
    BY <1>19 DEF Inspect
  <2>3. \A s \in DOMAIN log : s \in Nat
    BY <1>0
  <2>4. CASE Exit(p)
    BY <1>0, <2>2, <2>4 DEF Exit
  <2>5. CASE ~Exit(p)
    BY <2>1, <2>2, <2>3, <2>5
  <2> QED BY <2>4, <2>5
<1>20. ASSUME NEW p \in Procs, RecoverSave(p) PROVE TypeOK'
  BY <1>20 DEF RecoverSave, SaveState, Larger, StateFile, Envelope
<1>21. ASSUME NEW p \in Procs, RecoverClear(p) PROVE TypeOK'
  BY <1>0, <1>21 DEF RecoverClear, Exit
<1>22. CASE UNCHANGED vars
  BY <1>22 DEF vars
<1> QED
  BY <1>1, <1>2, <1>3, <1>4, <1>5, <1>6, <1>7, <1>8, <1>9, <1>10, <1>11,
     <1>12, <1>13, <1>14, <1>15, <1>16, <1>17, <1>18, <1>19, <1>20, <1>21,
     <1>22
  DEF Next, Environment, RunStep, RecoverStep

LEMMA TypeInit == Init => TypeOK
<1> SUFFICES ASSUME Init PROVE TypeOK
  OBVIOUS
<1>1. /\ NoEnvelope \in Envelope /\ NoState \in StateFile
      /\ NoDelivery \in DeliveryRecord
  BY DEF NoEnvelope, Envelope, NoState, StateFile, NoDelivery, DeliveryRecord
<1>2. log \in Seq(Message) /\ floor \in 0 .. Len(log)
  BY DEF Init
<1> QED BY <1>1, <1>2 DEF Init, TypeOK, PC

\* Every reachable state is well typed: the files, the process state and the
\* room stay in the shapes the code writes.
THEOREM TypeCorrect == Spec => []TypeOK
  BY TypeInit, TypeStep, PTL DEF Spec

-----------------------------------------------------------------------------
(* The inductive invariant: one part about what the processes share, one   *)
(* about each process.                                                     *)

SharedInv == RoomInv /\ EnvelopeInv /\ JournalInv /\ DeliveredIsAudited
ProcInv(p) == IdleInv(p) /\ HandleInv(p) /\ RecoverInv(p)

LEMMA AgentInvParts ==
    AgentInv <=> /\ TypeOK /\ OneLive /\ SharedInv
                 /\ \A p \in Procs : ProcInv(p)
  BY DEF AgentInv, SharedInv, ProcInv

LEMMA ReplyTypes ==
    ASSUME TypeOK
    PROVE  /\ \A s \in Replies : /\ s \in 1 .. Len(log)
                                /\ log[s].input \in Nat
                                /\ log[s].nonce \in Nat
           /\ disk.cursor \in Nat /\ disk.nonce \in Nat /\ Len(log) \in Nat
<1>1. ASSUME NEW s \in Replies PROVE s \in 1 .. Len(log) /\ log[s] \in Message
  BY DEF Replies, TypeOK
<1>2. \A m \in Message : m.input \in Nat /\ m.nonce \in Nat
  BY DEF Message
<1>3. disk.cursor \in Nat /\ disk.nonce \in Nat /\ Len(log) \in Nat
  BY DEF TypeOK, StateFile
<1> QED BY <1>1, <1>2, <1>3

\* A message in the room stays what it is, so evidence of a reply lasts.
LEMMA LogGrows ==
    ASSUME TypeOK, NEW m \in Message, log' = Append(log, m)
    PROVE  /\ \A s, e : IsReplyTo(s, e) => IsReplyTo(s, e)'
           /\ \A e : Delivered(e) => Delivered(e)'
           /\ \A s \in Replies : s \in Replies' /\ log'[s] = log[s]
           /\ \A s \in Replies' : s \in Replies \/ s = Len(log) + 1
           /\ m.kind = "reply" => Len(log) + 1 \in Replies'
           /\ m.kind # "reply" => Replies' = Replies
           /\ Len(log') = Len(log) + 1 /\ Len(log) \in Nat
           /\ log'[Len(log) + 1] = m
           /\ \A s \in Replies : s \in 1 .. Len(log)
<1>1. /\ DOMAIN log = 1 .. Len(log) /\ DOMAIN log' = 1 .. Len(log) + 1
      /\ \A s \in DOMAIN log : log'[s] = log[s]
      /\ log'[Len(log) + 1] = m /\ Len(log') = Len(log) + 1
      /\ Len(log) \in Nat
  BY AppendFacts DEF TypeOK
<1>2. \A s \in Replies : s \in Replies' /\ log'[s] = log[s] /\ s \in 1 .. Len(log)
  BY <1>1 DEF Replies
<1>3. \A s \in Replies' : s \in Replies \/ s = Len(log) + 1
  BY <1>1 DEF Replies
<1>4. /\ m.kind = "reply" => Len(log) + 1 \in Replies'
      /\ m.kind # "reply" => Replies' = Replies
  BY <1>1 DEF Replies
<1>5. \A s, e : IsReplyTo(s, e) => IsReplyTo(s, e)'
  BY <1>2 DEF IsReplyTo
<1>6. \A e : Delivered(e) => Delivered(e)'
  BY <1>2 DEF Delivered
<1> QED BY <1>1, <1>2, <1>3, <1>4, <1>5, <1>6

\* A step that touches neither room, state file nor journal.
LEMMA SharedFrame ==
    ASSUME SharedInv, UNCHANGED <<log, disk, journal, prepared>>,
           late' \subseteq prepared,
           audit \subseteq audit', recovered \subseteq recovered'
    PROVE  SharedInv'
<1> USE DEF Replies
<1>1. RoomInv'
  BY DEF SharedInv, RoomInv
<1>2. EnvelopeInv'
  BY DEF SharedInv, EnvelopeInv, Journaled, Delivered
<1>3. JournalInv'
  BY DEF SharedInv, JournalInv, IsReplyTo
<1>4. DeliveredIsAudited'
  BY DEF SharedInv, DeliveredIsAudited
<1> QED BY <1>1, <1>2, <1>3, <1>4 DEF SharedInv

\* A step of one process while all others are down.
LEMMA OthersStay ==
    ASSUME NEW p \in Procs, \A q \in Procs : ProcInv(q),
           \A q \in Procs \ {p} : /\ pc[q] = "down"
                                  /\ pc'[q] = pc[q]
                                  /\ answer'[q] = answer[q]
    PROVE  OneLive' /\ \A q \in Procs \ {p} : ProcInv(q)'
<1>1. OneLive'
  BY DEF OneLive, Live
<1>2. ASSUME NEW q \in Procs \ {p} PROVE ProcInv(q)'
  <2>1. pc'[q] = "down" /\ answer'[q] = 0
    BY DEF ProcInv, IdleInv
  <2> QED BY <2>1 DEF ProcInv, IdleInv, HandleInv, RecoverInv
<1> QED BY <1>1, <1>2

\* What a process step may assume about the other processes.
LEMMA Alone ==
    ASSUME NEW p \in Procs, OneLive, Live(p) \/ LockFree
    PROVE  \A q \in Procs \ {p} : pc[q] = "down"
  BY DEF OneLive, Live, LockFree

-----------------------------------------------------------------------------
(* Steps that leave room, state file and journal alone. *)

\* The prover's view of a process step: it is alone, so only its own
\* invariant and the shared part have to be re-established.
LEMMA StepOf ==
    ASSUME NEW p \in Procs, AgentInv, TypeOK', Live(p) \/ LockFree,
           \A q \in Procs \ {p} : pc'[q] = pc[q] /\ answer'[q] = answer[q],
           SharedInv', ProcInv(p)'
    PROVE  AgentInv'
<1>1. \A q \in Procs \ {p} : pc[q] = "down"
  BY Alone, AgentInvParts
<1>2. OneLive' /\ \A q \in Procs \ {p} : ProcInv(q)'
  BY <1>1, OthersStay, AgentInvParts
<1>3. \A q \in Procs : ProcInv(q)'
  BY <1>2
<1> QED BY <1>2, <1>3 DEF AgentInv, SharedInv, ProcInv

\* Starting, polling, deciding against a reply, posting, auditing.
LEMMA RunFrameSteps ==
    ASSUME NEW p \in Procs, AgentInv, TypeOK',
           \/ Start(p) \/ BootRead(p) \/ Poll(p) \/ Decline(p) \/ Post(p)
           \/ AppendAudit(p)
    PROVE  AgentInv'
<1> USE DEF serverVars, fileVars, procVars, ghostVars
<1>1. TypeOK /\ SharedInv /\ ProcInv(p)
  BY AgentInvParts
<1>2. SharedInv'
  BY <1>1, SharedFrame
  DEF Start, BootRead, Poll, Decline, Post, AppendAudit, SharedInv, RoomInv
<1>3. /\ Live(p) \/ LockFree
      /\ \A q \in Procs \ {p} : pc'[q] = pc[q] /\ answer'[q] = answer[q]
  BY <1>1 DEF Start, BootRead, Poll, Decline, Post, AppendAudit, Live, TypeOK
<1>4. \A s, e : IsReplyTo(s, e)' <=> IsReplyTo(s, e)
  BY DEF IsReplyTo, Replies, Start, BootRead, Poll, Decline, Post, AppendAudit
<1>5. ProcInv(p)'
  <2> USE <1>1 DEF TypeOK, ProcInv, IdleInv, HandleInv, RecoverInv
  <2>1. CASE Start(p)
    BY <2>1 DEF Start, LockFree, JournalEmpty
  <2>2. CASE BootRead(p)
    BY <2>2 DEF BootRead, JournalEmpty
  <2>3. CASE Poll(p)
    BY <2>3 DEF Poll, Window, JournalEmpty, SameState
  <2>4. CASE Decline(p)
    <3>1. PICK s \in batch[p] :
             IsNext(p, s) /\ env' = [env EXCEPT ![p] = [input |-> s, nonce |-> 0]]
      BY <2>4 DEF Decline
    <3>2. env'[p].input = s
      BY <3>1
    <3>3. /\ pc'[p] = "audit" /\ answer'[p] = 0
          /\ batch' = batch /\ log' = log /\ disk' = disk
          /\ JournalEmpty' /\ mem'[p].nonce = disk.nonce
      BY <2>4 DEF Decline, JournalEmpty
    <3>4. /\ s \in 1 .. Len(log) /\ s > disk.cursor
          /\ \A t \in batch[p] : t \in 1 .. Len(log) /\ t >= s
      BY <2>4, <3>1 DEF Decline, IsNext
    <3>5. mem'[p].nonce >= disk.nonce
      BY <3>3 DEF StateFile
    <3> QED BY <3>2, <3>3, <3>4, <3>5
  <2>5. CASE Post(p)
    BY <2>5, <1>4 DEF Post, Journaled
  <2>6. CASE AppendAudit(p)
    BY <2>6, <1>4 DEF AppendAudit, Journaled, JournalEmpty
  <2> QED BY <2>1, <2>2, <2>3, <2>4, <2>5, <2>6
<1> QED BY <1>2, <1>3, <1>5, StepOf

\* Starting recovery, its verdict, its request and the answer to it.
LEMMA RecoverFrameSteps ==
    ASSUME NEW p \in Procs, AgentInv, TypeOK',
           \/ Recover(p) \/ Repost(p) \/ RetryAnswered(p)
           \/ \E c \in BOOLEAN : Inspect(p, c)
    PROVE  AgentInv'
<1> USE DEF serverVars, fileVars, procVars, ghostVars
<1>1. TypeOK /\ SharedInv /\ ProcInv(p)
  BY AgentInvParts
<1>2. SharedInv'
  BY <1>1, SharedFrame
  DEF Recover, Repost, RetryAnswered, Inspect, SharedInv, RoomInv
<1>3. /\ Live(p) \/ LockFree
      /\ \A q \in Procs \ {p} : pc'[q] = pc[q] /\ answer'[q] = answer[q]
  BY <1>1 DEF Recover, Repost, RetryAnswered, Inspect, Exit, Live, TypeOK
<1>4. \A s, e : IsReplyTo(s, e)' <=> IsReplyTo(s, e)
  BY DEF IsReplyTo, Replies, Recover, Repost, RetryAnswered, Inspect
<1>5. ProcInv(p)'
  <2> USE <1>1 DEF TypeOK, ProcInv, IdleInv, HandleInv, RecoverInv
  <2>1. CASE Recover(p)
    BY <2>1, <1>4
    DEF Recover, JournalEmpty, Journaled, SameState, SharedInv, JournalInv,
        IsReplyTo, DeliveryRecord
  <2>2. CASE Repost(p)
    BY <2>2, <1>4 DEF Repost, Journaled, SameState
  <2>3. CASE RetryAnswered(p)
    BY <2>3, <1>4 DEF RetryAnswered, Journaled, SameState
  <2>4. ASSUME NEW c \in BOOLEAN, Inspect(p, c) PROVE ProcInv(p)'
    <3>1. CASE Exit(p)
      BY <3>1 DEF Exit
    <3>2. CASE pc' = [pc EXCEPT ![p] = "repost"]
               /\ UNCHANGED <<mem, batch, env, answer>>
      BY <2>4, <3>2 DEF Inspect, Journaled, SameState
    <3>3. ASSUME NEW s \in Window(env[p].input, RecoverLimit),
                 Matches(Window(env[p].input, RecoverLimit), env[p]) = {s},
                 answer' = [answer EXCEPT ![p] = s],
                 pc' = [pc EXCEPT ![p] = "finalize"],
                 UNCHANGED <<mem, batch, env>>
          PROVE  ProcInv(p)'
      <4>1. log[s].kind = "reply" /\ log[s].nonce = env[p].nonce
        BY <3>3 DEF Matches
      <4>2. s \in Replies
        BY <4>1 DEF Replies, Window
      <4>3. log[s].input = env[p].input
        <5>1. [input |-> log[s].input, nonce |-> log[s].nonce] \in prepared
          BY <4>2 DEF SharedInv, RoomInv
        <5>2. [input |-> env[p].input, nonce |-> env[p].nonce] \in prepared
          BY <2>4 DEF Inspect, Journaled, SharedInv, JournalInv
        <5> QED BY <4>1, <5>1, <5>2 DEF SharedInv, EnvelopeInv
      <4>4. IsReplyTo(s, env[p])
        BY <4>1, <4>2, <4>3 DEF IsReplyTo
      <4> QED BY <2>4, <3>3, <4>4, <1>4 DEF Inspect, Journaled, SameState
    <3> QED BY <2>4, <3>1, <3>2, <3>3 DEF Inspect
  <2> QED BY <2>1, <2>2, <2>3, <2>4
<1> QED BY <1>2, <1>3, <1>5, StepOf

\* A process may stop anywhere: what it leaves behind is consistent.
LEMMA HaltStep ==
    ASSUME NEW p \in Procs, AgentInv, TypeOK', Halt(p)
    PROVE  AgentInv'
<1> USE DEF serverVars, fileVars, procVars, ghostVars
<1>1. TypeOK /\ SharedInv /\ ProcInv(p)
  BY AgentInvParts
<1>2. late' \subseteq prepared
  <2>1. pc[p] \in {"await", "reawait"} => env[p] \in prepared
    <3> SUFFICES ASSUME pc[p] \in {"await", "reawait"} PROVE env[p] \in prepared
      OBVIOUS
    <3>1. Journaled(env[p])
      BY <1>1 DEF ProcInv, HandleInv, RecoverInv
    <3>2. [input |-> env[p].input, nonce |-> env[p].nonce] \in prepared
      BY <1>1, <3>1 DEF Journaled, SharedInv, JournalInv
    <3>3. env[p] = [input |-> env[p].input, nonce |-> env[p].nonce]
      BY <1>1 DEF TypeOK, Envelope
    <3> QED BY <3>2, <3>3
  <2> QED BY <1>1, <2>1 DEF Halt, SharedInv, RoomInv
<1>3. SharedInv'
  BY <1>1, <1>2, SharedFrame DEF Halt
<1>4. /\ Live(p)
      /\ \A q \in Procs \ {p} : pc'[q] = pc[q] /\ answer'[q] = answer[q]
  BY <1>1 DEF Halt, Exit, Live, TypeOK
<1>5. ProcInv(p)'
  BY <1>1 DEF Halt, Exit, TypeOK, ProcInv, IdleInv, HandleInv, RecoverInv
<1> QED BY <1>3, <1>4, <1>5, StepOf

-----------------------------------------------------------------------------
(* Steps of the room. *)

\* The room accepts a journaled envelope it has not seen.
LEMMA AcceptShared ==
    ASSUME TypeOK, SharedInv, NEW e \in prepared, ~Landed(e.nonce),
           log' = Append(log, ReplyMessage(e)),
           UNCHANGED <<late, disk, journal, audit, prepared, recovered>>
    PROVE  SharedInv'
<1> DEFINE m == ReplyMessage(e)
<1>1. /\ e \in Envelope /\ m \in Message /\ m.kind = "reply"
      /\ m.input = e.input /\ m.nonce = e.nonce
      /\ e = [input |-> e.input, nonce |-> e.nonce]
  BY DEF TypeOK, ReplyMessage, Envelope, Message
<1> HIDE DEF m
<1>2. log' = Append(log, m)
  BY DEF m
<1> USE LogGrows, <1>1, <1>2
<1>3. ~Delivered(e)
  BY DEF Delivered, Landed
<1>4. e.input > disk.cursor /\ e.input \in 1 .. Len(log)
  BY <1>3 DEF SharedInv, EnvelopeInv
<1>5. RoomInv'
  <2>1. late' \subseteq prepared'
    BY DEF SharedInv, RoomInv
  <2>2. ASSUME NEW s \in Replies'
        PROVE  /\ [input |-> log'[s].input, nonce |-> log'[s].nonce] \in prepared'
               /\ log'[s].input < s
    <3>1. CASE s \in Replies
      BY <3>1 DEF SharedInv, RoomInv
    <3>2. CASE s = Len(log) + 1
      BY <3>2, <1>4
    <3> QED BY <3>1, <3>2
  <2>3. ASSUME NEW s \in Replies', NEW t \in Replies',
               log'[s].nonce = log'[t].nonce
        PROVE  s = t
    BY <2>3 DEF SharedInv, RoomInv, Landed
  <2> QED BY <2>1, <2>2, <2>3 DEF RoomInv
<1>6. EnvelopeInv'
  BY DEF SharedInv, EnvelopeInv, Journaled
<1>7. JournalInv'
  BY DEF SharedInv, JournalInv
<1>8. DeliveredIsAudited'
  BY <1>4 DEF SharedInv, DeliveredIsAudited, TypeOK, StateFile
<1> QED BY <1>5, <1>6, <1>7, <1>8 DEF SharedInv

\* A peer's message is nobody's reply.
LEMMA PeerShared ==
    ASSUME TypeOK, SharedInv, NEW m \in Message, m.kind # "reply",
           log' = Append(log, m),
           UNCHANGED <<late, disk, journal, audit, prepared, recovered>>
    PROVE  SharedInv'
<1> USE LogGrows
<1>1. RoomInv'
  BY DEF SharedInv, RoomInv
<1>2. EnvelopeInv'
  BY DEF SharedInv, EnvelopeInv, Journaled
<1>3. JournalInv'
  BY DEF SharedInv, JournalInv
<1>4. DeliveredIsAudited'
  BY DEF SharedInv, DeliveredIsAudited
<1> QED BY <1>1, <1>2, <1>3, <1>4 DEF SharedInv

\* A longer room invalidates nothing a process relies on.
LEMMA ProcGrows ==
    ASSUME TypeOK, NEW q \in Procs, ProcInv(q), NEW m \in Message,
           log' = Append(log, m),
           UNCHANGED <<disk, journal, audit, pc, mem, batch, env>>,
           answer'[q] = answer[q]
    PROVE  ProcInv(q)'
<1> USE LogGrows
<1>1. IdleInv(q)'
  BY DEF ProcInv, IdleInv, JournalEmpty
<1>2. HandleInv(q)'
  BY DEF ProcInv, HandleInv, JournalEmpty, Journaled, SameState
<1>3. RecoverInv(q)'
  BY DEF ProcInv, RecoverInv, Journaled, SameState
<1> QED BY <1>1, <1>2, <1>3 DEF ProcInv

LEMMA RoomSteps ==
    ASSUME AgentInv, TypeOK',
           \/ \E kind \in {"command", "other"} : PeerPost(kind)
           \/ Expire
           \/ \E e \in late : AcceptLate(e)
    PROVE  AgentInv'
<1> USE DEF serverVars, fileVars, procVars, ghostVars
<1>1. TypeOK /\ SharedInv /\ OneLive /\ \A q \in Procs : ProcInv(q)
  BY AgentInvParts
<1>2. ASSUME NEW kind \in {"command", "other"}, PeerPost(kind)
      PROVE  SharedInv' /\ \A q \in Procs : ProcInv(q)'
  <2> DEFINE m == [kind |-> kind, input |-> 0, nonce |-> 0]
  <2>1. m \in Message /\ m.kind # "reply"
    BY DEF Message
  <2>2. log' = Append(log, m)
    BY <1>2 DEF PeerPost
  <2> HIDE DEF m
  <2>3. SharedInv'
    BY <1>1, <1>2, <2>1, <2>2, PeerShared DEF PeerPost
  <2>4. \A q \in Procs : ProcInv(q)'
    BY <1>1, <1>2, <2>1, <2>2, ProcGrows DEF PeerPost
  <2> QED BY <2>3, <2>4
<1>3. CASE Expire
  <2>1. SharedInv'
    BY <1>1, <1>3, SharedFrame DEF Expire, SharedInv, RoomInv
  <2>2. \A q \in Procs : ProcInv(q)'
    BY <1>1, <1>3 DEF Expire, ProcInv, IdleInv, HandleInv, RecoverInv,
       JournalEmpty, Journaled, SameState, IsReplyTo, Replies
  <2> QED BY <1>1, <1>3, <2>1, <2>2, AgentInvParts DEF Expire, OneLive, Live,
         AgentInv, SharedInv, ProcInv
<1>4. ASSUME NEW e \in late, AcceptLate(e)
      PROVE  SharedInv' /\ \A q \in Procs : ProcInv(q)'
  <2>1. e \in prepared /\ ReplyMessage(e) \in Message
    BY <1>1 DEF SharedInv, RoomInv, TypeOK, ReplyMessage, Message, Envelope
  <2>2. SharedInv'
    BY <1>1, <1>4, <2>1, AcceptShared DEF AcceptLate
  <2>3. \A q \in Procs : ProcInv(q)'
    BY <1>1, <1>4, <2>1, ProcGrows DEF AcceptLate
  <2> QED BY <2>2, <2>3
<1>5. OneLive'
  BY <1>1 DEF PeerPost, Expire, AcceptLate, OneLive, Live
<1> QED BY <1>2, <1>3, <1>4, <1>5 DEF AgentInv, SharedInv, ProcInv

LEMMA AcceptStep ==
    ASSUME NEW p \in Procs, AgentInv, TypeOK', Accept(p)
    PROVE  AgentInv'
<1> USE DEF serverVars, fileVars, procVars, ghostVars
<1>1. TypeOK /\ SharedInv /\ OneLive /\ \A q \in Procs : ProcInv(q)
  BY AgentInvParts
<1>2. /\ Journaled(env[p]) /\ env[p] \in Envelope
      /\ env[p] = [input |-> env[p].input, nonce |-> env[p].nonce]
  BY <1>1 DEF Accept, ProcInv, HandleInv, RecoverInv, TypeOK, Envelope
<1>3. env[p] \in prepared /\ ReplyMessage(env[p]) \in Message
  BY <1>1, <1>2 DEF SharedInv, JournalInv, Journaled, ReplyMessage, Message,
                    Envelope
<1>4. SharedInv'
  BY <1>1, <1>3, AcceptShared DEF Accept
<1>5. ASSUME NEW q \in Procs \ {p} PROVE ProcInv(q)'
  <2>1. answer'[q] = answer[q]
    BY <1>1 DEF Accept, TypeOK
  <2> QED BY <1>1, <1>3, <2>1, ProcGrows DEF Accept
<1>6. ProcInv(p)'
  <2>1. /\ \A s, e : IsReplyTo(s, e) => IsReplyTo(s, e)'
        /\ Len(log) + 1 \in Replies' /\ log'[Len(log) + 1] = ReplyMessage(env[p])
        /\ Len(log') = Len(log) + 1 /\ Len(log) \in Nat
    BY <1>1, <1>3, LogGrows DEF Accept, ReplyMessage
  <2>2. answer'[p] = Len(log) + 1 /\ env' = env /\ pc' = pc
    BY <1>1 DEF Accept, TypeOK
  <2>3. IsReplyTo(answer[p], env[p])'
    BY <2>1, <2>2 DEF IsReplyTo, ReplyMessage
  <2>4. /\ pc[p] \in {"await", "reawait"}
        /\ mem' = mem /\ batch' = batch /\ disk' = disk /\ journal' = journal
    BY DEF Accept
  <2>5. CASE pc[p] = "await"
    <3>0. /\ env[p].input \in 1 .. Len(log)
          /\ \A t \in batch[p] : t \in 1 .. Len(log) /\ t >= env[p].input
          /\ mem[p].nonce >= disk.nonce /\ mem[p].nonce = env[p].nonce
          /\ env[p].input > disk.cursor
          /\ journal.status = "pending" /\ Journaled(env[p])
      BY <1>1, <2>5 DEF ProcInv, HandleInv
    <3>1. /\ env[p].input \in 1 .. Len(log')
          /\ \A t \in batch[p] : t \in 1 .. Len(log') /\ t >= env[p].input
      BY <2>1, <3>0
    <3>2. Journaled(env[p])'
      BY <2>2, <2>4, <3>0 DEF Journaled
    <3> QED BY <2>2, <2>3, <2>4, <2>5, <3>0, <3>1, <3>2
          DEF ProcInv, IdleInv, HandleInv, RecoverInv
  <2>6. CASE pc[p] = "reawait"
    BY <1>1, <2>1, <2>2, <2>3, <2>4, <2>6
    DEF ProcInv, IdleInv, HandleInv, RecoverInv, Journaled, SameState
  <2> QED BY <2>4, <2>5, <2>6
<1>7. OneLive'
  BY <1>1 DEF Accept, OneLive, Live
<1> QED BY <1>4, <1>5, <1>6, <1>7 DEF AgentInv, SharedInv, ProcInv

-----------------------------------------------------------------------------
(* Steps that replace the state file.  A save may move the cursor over an   *)
(* input only when every reply to it is in the room and accounted for.      *)

LEMMA SaveShared ==
    ASSUME TypeOK, TypeOK', SharedInv,
           UNCHANGED <<log, late, journal, audit, prepared>>,
           recovered \subseteq recovered',
           disk'.known, disk'.cursor >= disk.cursor, disk'.nonce >= disk.nonce,
           \A s \in Replies :
              log[s].input \in (disk.cursor + 1) .. disk'.cursor =>
                 \/ log[s].input \in recovered'
                 \/ [input |-> log[s].input, reply |-> s] \in audit,
           \A e \in prepared : Journaled(e) =>
                 Delivered(e) \/ e.input > disk'.cursor
    PROVE  SharedInv'
<1> USE DEF TypeOK, StateFile
<1>1. /\ Replies' = Replies
      /\ \A e : Delivered(e)' <=> Delivered(e)
      /\ \A e : Journaled(e)' <=> Journaled(e)
      /\ \A s, e : IsReplyTo(s, e)' <=> IsReplyTo(s, e)
  BY DEF Replies, Delivered, Journaled, IsReplyTo
<1>2. RoomInv'
  BY <1>1 DEF SharedInv, RoomInv
<1>3. EnvelopeInv'
  <2> SUFFICES ASSUME NEW e \in prepared
               PROVE  /\ e.input \in 1 .. Len(log)
                      /\ Journaled(e) \/ (Delivered(e)
                            /\ e.input <= disk'.cursor /\ e.nonce <= disk'.nonce)
                      /\ e.input > disk'.cursor \/ Delivered(e)
                      /\ \A d \in prepared :
                            d.nonce = e.nonce \/ d.input = e.input => d = e
    BY <1>1 DEF EnvelopeInv
  <2>1. e.input \in Nat /\ e.nonce \in Nat
    BY DEF Envelope
  <2> QED BY <2>1 DEF SharedInv, EnvelopeInv
<1>4. JournalInv'
  BY <1>1 DEF SharedInv, JournalInv
<1>5. DeliveredIsAudited'
  <2> SUFFICES ASSUME NEW s \in Replies, log[s].input <= disk'.cursor
               PROVE  \/ log[s].input \in recovered'
                      \/ [input |-> log[s].input, reply |-> s] \in audit
    BY <1>1 DEF DeliveredIsAudited
  <2>1. log[s].input \in Nat
    BY ReplyTypes
  <2>2. CASE log[s].input <= disk.cursor
    BY <2>2 DEF SharedInv, DeliveredIsAudited
  <2>3. CASE log[s].input > disk.cursor
    BY <2>1, <2>3
  <2> QED BY <2>1, <2>2, <2>3
<1> QED BY <1>2, <1>3, <1>4, <1>5 DEF SharedInv

\* With an empty journal every reply is already behind the durable cursor.
LEMMA NothingPending ==
    ASSUME TypeOK, SharedInv, JournalEmpty
    PROVE  /\ \A e \in prepared : ~Journaled(e)
           /\ \A s \in Replies : log[s].input <= disk.cursor
<1>1. \A e : ~Journaled(e)
  BY DEF Journaled, JournalEmpty
<1>2. ASSUME NEW s \in Replies PROVE log[s].input <= disk.cursor
  <2> DEFINE d == [input |-> log[s].input, nonce |-> log[s].nonce]
  <2>1. d \in prepared
    BY DEF SharedInv, RoomInv
  <2>2. d.input <= disk.cursor
    BY <1>1, <2>1 DEF SharedInv, EnvelopeInv
  <2> QED BY <2>2
<1> QED BY <1>1, <1>2

\* While an envelope is journaled, it is the only one that can be ahead of
\* the cursor.
LEMMA OnlyTheJournaled ==
    ASSUME TypeOK, SharedInv, NEW e, Journaled(e),
           NEW s \in Replies, log[s].input > disk.cursor
    PROVE  log[s].input = e.input /\ log[s].nonce = e.nonce
<1> DEFINE d == [input |-> log[s].input, nonce |-> log[s].nonce]
<1>1. d \in prepared
  BY DEF SharedInv, RoomInv
<1>2. log[s].input \in Nat /\ disk.cursor \in Nat
  BY ReplyTypes
<1>3. Journaled(d)
  BY <1>1, <1>2 DEF SharedInv, EnvelopeInv
<1> QED BY <1>3 DEF Journaled

LEMMA IdleSaveSteps ==
    ASSUME NEW p \in Procs, AgentInv, TypeOK',
           BootSave(p) \/ PollUnavailable(p)
    PROVE  AgentInv'
<1> USE DEF serverVars, fileVars, procVars, ghostVars
<1>1. TypeOK /\ SharedInv /\ ProcInv(p)
  BY AgentInvParts
<1>2. PICK c \in Nat :
         /\ c >= disk.cursor
         /\ SaveState(p, c, mem[p].nonce)
  <2>1. CASE BootSave(p)
    <3>1. disk.cursor = 0 /\ mem[p].cursor \in Nat
      BY <1>1, <2>1 DEF BootSave, ProcInv, IdleInv, SharedInv, JournalInv,
                        TypeOK, StateFile
    <3> QED BY <2>1, <3>1 DEF BootSave
  <2>2. CASE PollUnavailable(p)
    <3>1. mem[p].cursor = disk.cursor /\ mem[p].cursor \in Nat /\ Len(log) \in Nat
      BY <1>1, <2>2 DEF PollUnavailable, ProcInv, IdleInv, TypeOK, StateFile
    <3> QED BY <2>2, <3>1 DEF PollUnavailable, LastSeq
  <2> QED BY <2>1, <2>2
<1>3. /\ JournalEmpty /\ mem[p].nonce = disk.nonce /\ answer[p] = 0
      /\ pc[p] \in {"bootsave", "poll"}
  BY <1>1 DEF BootSave, PollUnavailable, ProcInv, IdleInv
<1>4. /\ disk' = [known |-> TRUE, cursor |-> c, nonce |-> disk.nonce]
      /\ mem'[p] = disk' /\ pc'[p] = "poll" /\ answer' = answer
      /\ journal' = journal
      /\ \A q \in Procs \ {p} : pc'[q] = pc[q]
  BY <1>1, <1>2, <1>3 DEF SaveState, BootSave, PollUnavailable, TypeOK
<1>5. SharedInv'
  <2>1. UNCHANGED <<log, late, journal, audit, prepared, recovered>>
    BY DEF BootSave, PollUnavailable
  <2>2. /\ disk'.known /\ disk'.cursor >= disk.cursor
        /\ disk'.nonce >= disk.nonce
    BY <1>1, <1>2, <1>4 DEF TypeOK, StateFile
  <2>3. \A s \in Replies :
           log[s].input \notin (disk.cursor + 1) .. disk'.cursor
    BY <1>1, <1>3, <1>4, NothingPending, ReplyTypes
  <2>4. \A e \in prepared : ~Journaled(e)
    BY <1>1, <1>3, NothingPending
  <2> QED BY <1>1, <2>1, <2>2, <2>3, <2>4, SaveShared
<1>6. ProcInv(p)'
  BY <1>3, <1>4 DEF ProcInv, IdleInv, HandleInv, RecoverInv, JournalEmpty
<1>7. Live(p)
  BY <1>3 DEF Live
<1> QED BY <1>4, <1>5, <1>6, <1>7, StepOf

LEMMA SaveCursorStep ==
    ASSUME NEW p \in Procs, AgentInv, TypeOK', SaveCursor(p)
    PROVE  AgentInv'
<1> USE DEF serverVars, fileVars, procVars, ghostVars
<1>1. TypeOK /\ SharedInv /\ ProcInv(p)
  BY AgentInvParts
<1> DEFINE i == env[p].input
<1>2. /\ pc[p] = "save" /\ i \in 1 .. Len(log) /\ i > disk.cursor
      /\ \A t \in batch[p] : t \in 1 .. Len(log) /\ t >= i
      /\ mem[p].nonce >= disk.nonce
      /\ [input |-> i, reply |-> answer[p]] \in audit
      /\ answer[p] = 0 => JournalEmpty /\ mem[p].nonce = disk.nonce
      /\ answer[p] # 0 =>
            /\ journal.status = "acknowledged" /\ Journaled(env[p])
            /\ IsReplyTo(answer[p], env[p]) /\ mem[p].nonce = env[p].nonce
  BY <1>1 DEF SaveCursor, ProcInv, HandleInv
<1>3. /\ disk' = [known |-> TRUE, cursor |-> i, nonce |-> mem[p].nonce]
      /\ mem'[p] = disk'
      /\ UNCHANGED <<log, late, journal, audit, prepared, recovered>>
  BY <1>1 DEF SaveCursor, SaveState, TypeOK
<1>4. \/ answer[p] = 0 /\ NextMessage(p)
      \/ /\ answer[p] # 0 /\ pc' = [pc EXCEPT ![p] = "clear"]
         /\ UNCHANGED <<batch, env, answer>>
  BY DEF SaveCursor
<1>5. SharedInv'
  <2>1. disk'.known /\ disk'.cursor >= disk.cursor /\ disk'.nonce >= disk.nonce
    BY <1>1, <1>2, <1>3, ReplyTypes
  <2>2. ASSUME NEW s \in Replies, log[s].input \in (disk.cursor + 1) .. disk'.cursor
        PROVE  [input |-> log[s].input, reply |-> s] \in audit
    <3>1. log[s].input > disk.cursor
      BY <1>1, <2>2, ReplyTypes
    <3>2. answer[p] # 0
      BY <1>1, <1>2, <3>1, NothingPending, ReplyTypes
    <3>3. log[s].input = i /\ log[s].nonce = env[p].nonce
      BY <1>1, <1>2, <3>1, <3>2, OnlyTheJournaled
    <3>4. s = answer[p]
      BY <1>1, <1>2, <3>2, <3>3 DEF IsReplyTo, SharedInv, RoomInv
    <3> QED BY <1>2, <3>3, <3>4
  <2>3. ASSUME NEW e \in prepared, Journaled(e) PROVE Delivered(e)
    <3>1. answer[p] # 0
      BY <1>2, <2>3 DEF Journaled, JournalEmpty
    <3>2. e.input = i /\ e.nonce = env[p].nonce
      BY <1>2, <2>3, <3>1 DEF Journaled
    <3> QED BY <1>2, <3>1, <3>2 DEF IsReplyTo, Delivered
  <2> QED BY <1>1, <1>3, <2>1, <2>2, <2>3, SaveShared
<1>6. /\ Live(p)
      /\ \A q \in Procs \ {p} : pc'[q] = pc[q] /\ answer'[q] = answer[q]
  BY <1>1, <1>2, <1>4 DEF NextMessage, Live, TypeOK
<1>7. ProcInv(p)'
  <2>1. CASE answer[p] = 0
    <3>1. /\ pc'[p] \in {"poll", "decide"} /\ answer'[p] = 0
          /\ batch'[p] = batch[p] \ {i}
      BY <1>1, <1>4, <2>1 DEF NextMessage, TypeOK
    <3>2. \A t \in batch'[p] : t \in 1 .. Len(log) /\ t > i
      BY <1>2, <3>1
    <3> QED BY <1>2, <1>3, <2>1, <3>1, <3>2
          DEF ProcInv, IdleInv, HandleInv, RecoverInv, JournalEmpty
  <2>2. CASE answer[p] # 0
    <3>1. /\ pc'[p] = "clear" /\ answer' = answer /\ batch' = batch /\ env' = env
      BY <1>1, <1>4, <2>2 DEF TypeOK
    <3>2. IsReplyTo(answer[p], env[p])' /\ Journaled(env[p])'
      BY <1>2, <1>3, <2>2, <3>1 DEF IsReplyTo, Journaled, Replies
    <3>3. mem'[p].nonce >= disk'.nonce
      BY <1>3 DEF TypeOK, StateFile
    <3> QED BY <1>2, <1>3, <2>2, <3>1, <3>2, <3>3
          DEF ProcInv, IdleInv, HandleInv, RecoverInv, SameState
  <2> QED BY <2>1, <2>2
<1> QED BY <1>5, <1>6, <1>7, StepOf

LEMMA RecoverSaveStep ==
    ASSUME NEW p \in Procs, AgentInv, TypeOK', RecoverSave(p)
    PROVE  AgentInv'
<1> USE DEF serverVars, fileVars, procVars, ghostVars
<1>1. TypeOK /\ SharedInv /\ ProcInv(p)
  BY AgentInvParts
<1>2. /\ pc[p] = "resave" /\ Journaled(env[p]) /\ SameState(p)
      /\ journal.status = "acknowledged"
  BY <1>1 DEF RecoverSave, ProcInv, RecoverInv
<1>3. /\ env[p].input \in Nat /\ env[p].nonce \in Nat
      /\ mem[p].cursor \in Nat /\ mem[p].nonce \in Nat
      /\ disk.cursor \in Nat /\ disk.nonce \in Nat
  BY <1>1 DEF TypeOK, Envelope, StateFile
<1>4. /\ disk'.known /\ mem'[p] = disk'
      /\ disk'.cursor = Larger(disk.cursor, env[p].input)
      /\ disk'.nonce = Larger(disk.nonce, env[p].nonce)
      /\ recovered' = recovered \cup {env[p].input}
      /\ UNCHANGED <<log, late, journal, audit, prepared, batch, env, answer>>
      /\ pc' = [pc EXCEPT ![p] = "reclear"]
  BY <1>1, <1>2 DEF RecoverSave, SaveState, SameState, TypeOK
<1>5. /\ disk'.cursor >= disk.cursor /\ disk'.nonce >= disk.nonce
      /\ disk'.cursor >= env[p].input /\ disk'.nonce >= env[p].nonce
      /\ disk'.cursor \in {disk.cursor, env[p].input}
  BY <1>3, <1>4 DEF Larger
<1>6. SharedInv'
  <2>1. ASSUME NEW s \in Replies, log[s].input \in (disk.cursor + 1) .. disk'.cursor
        PROVE  log[s].input \in recovered'
    <3>1. log[s].input > disk.cursor
      BY <1>1, <2>1, ReplyTypes
    <3> QED BY <1>1, <1>2, <1>4, <3>1, OnlyTheJournaled
  <2>2. ASSUME NEW e \in prepared, Journaled(e) PROVE Delivered(e)
    <3>1. IsReplyTo(journal.reply, journal)
      BY <1>1, <1>2 DEF SharedInv, JournalInv
    <3> QED BY <2>2, <3>1 DEF IsReplyTo, Delivered, Journaled
  <2> QED BY <1>1, <1>4, <1>5, <2>1, <2>2, SaveShared
<1>7. /\ Live(p)
      /\ \A q \in Procs \ {p} : pc'[q] = pc[q] /\ answer'[q] = answer[q]
  BY <1>1, <1>2, <1>4 DEF Live, TypeOK
<1>8. ProcInv(p)'
  <2>1. pc'[p] = "reclear" /\ env' = env /\ Journaled(env[p])'
        /\ journal'.status = "acknowledged"
    BY <1>1, <1>2, <1>4 DEF Journaled, TypeOK
  <2> QED BY <1>4, <1>5, <2>1
        DEF ProcInv, IdleInv, HandleInv, RecoverInv, SameState
<1> QED BY <1>6, <1>7, <1>8, StepOf

-----------------------------------------------------------------------------
(* Steps that write or clear the journal. *)

\* An acknowledged reply is recorded; which envelope is journaled stays.
LEMMA AcknowledgeShared ==
    ASSUME TypeOK, SharedInv, NEW seq, AcknowledgeJournal(seq),
           IsReplyTo(seq, journal),
           UNCHANGED <<log, late, disk, audit, prepared, recovered>>
    PROVE  /\ SharedInv' /\ \A e : Journaled(e)' <=> Journaled(e)
           /\ \A s, e : IsReplyTo(s, e)' <=> IsReplyTo(s, e)
           /\ journal'.status = "acknowledged"
<1>1. /\ journal'.status = "acknowledged" /\ journal'.reply = seq
      /\ journal'.input = journal.input /\ journal'.nonce = journal.nonce
      /\ journal.status # "none"
  BY DEF AcknowledgeJournal, TypeOK, DeliveryRecord
<1>2. /\ Replies' = Replies
      /\ \A e : Delivered(e)' <=> Delivered(e)
      /\ \A e : Journaled(e)' <=> Journaled(e)
      /\ \A s, e : IsReplyTo(s, e)' <=> IsReplyTo(s, e)
  BY <1>1 DEF Replies, Delivered, Journaled, IsReplyTo
<1>3. RoomInv' /\ DeliveredIsAudited'
  BY <1>2 DEF SharedInv, RoomInv, DeliveredIsAudited
<1>4. EnvelopeInv'
  BY <1>2 DEF SharedInv, EnvelopeInv
<1>5. JournalInv'
  <2>1. IsReplyTo(journal.reply, journal)'
    BY <1>1, <1>2 DEF IsReplyTo
  <2> QED BY <1>1, <2>1 DEF SharedInv, JournalInv
<1> QED BY <1>1, <1>2, <1>3, <1>4, <1>5 DEF SharedInv

LEMMA AcknowledgeSteps ==
    ASSUME NEW p \in Procs, AgentInv, TypeOK', Acknowledge(p) \/ Finalize(p)
    PROVE  AgentInv'
<1> USE DEF serverVars, fileVars, procVars, ghostVars
<1>1. TypeOK /\ SharedInv /\ ProcInv(p)
  BY AgentInvParts
<1>2. /\ Journaled(env[p]) /\ IsReplyTo(answer[p], env[p])
      /\ AcknowledgeJournal(answer[p]) /\ pc[p] \in {"await", "finalize"}
      /\ UNCHANGED <<log, late, disk, audit, prepared, recovered, mem, batch,
                     env, answer>>
  BY <1>1 DEF Acknowledge, Finalize, ProcInv, HandleInv, RecoverInv
<1>3. IsReplyTo(answer[p], journal)
  BY <1>2 DEF IsReplyTo, Journaled
<1>4. /\ SharedInv' /\ \A e : Journaled(e)' <=> Journaled(e)
      /\ \A s, e : IsReplyTo(s, e)' <=> IsReplyTo(s, e)
      /\ journal'.status = "acknowledged"
  BY <1>1, <1>2, <1>3, AcknowledgeShared
<1>5. answer[p] # 0
  BY <1>1, <1>2, ReplyTypes DEF IsReplyTo
<1>6. /\ Live(p)
      /\ \A q \in Procs \ {p} : pc'[q] = pc[q] /\ answer'[q] = answer[q]
  BY <1>1 DEF Acknowledge, Finalize, Live, TypeOK
<1>7. IsReplyTo(answer[p], env[p])' /\ Journaled(env[p])'
  BY <1>2, <1>4
<1>8. CASE Acknowledge(p)
  <2>1. pc[p] = "await" /\ pc'[p] = "audit"
    BY <1>1, <1>8 DEF Acknowledge, TypeOK
  <2>2. ProcInv(p)'
    BY <1>1, <1>2, <1>4, <1>5, <1>7, <2>1
    DEF ProcInv, IdleInv, HandleInv, RecoverInv
  <2> QED BY <1>4, <1>6, <2>2, StepOf
<1>9. CASE Finalize(p)
  <2>1. pc[p] = "finalize" /\ pc'[p] = "resave"
    BY <1>1, <1>9 DEF Finalize, TypeOK
  <2>2. ProcInv(p)'
    BY <1>1, <1>2, <1>4, <1>7, <2>1
    DEF ProcInv, IdleInv, HandleInv, RecoverInv, SameState
  <2> QED BY <1>4, <1>6, <2>2, StepOf
<1> QED BY <1>8, <1>9

\* The journal is cleared when its envelope is delivered and settled.
LEMMA ClearShared ==
    ASSUME TypeOK, SharedInv, journal' = NoDelivery,
           journal.status = "acknowledged",
           journal.input <= disk.cursor, journal.nonce <= disk.nonce,
           UNCHANGED <<log, late, disk, audit, prepared, recovered>>
    PROVE  SharedInv'
<1>1. /\ Replies' = Replies
      /\ \A e : Delivered(e)' <=> Delivered(e)
  BY DEF Replies, Delivered
<1>2. RoomInv' /\ DeliveredIsAudited'
  BY <1>1 DEF SharedInv, RoomInv, DeliveredIsAudited
<1>3. IsReplyTo(journal.reply, journal)
  BY DEF SharedInv, JournalInv
<1>4. \A e \in prepared : Journaled(e) => Delivered(e)
  BY <1>3 DEF IsReplyTo, Journaled, Delivered
<1>5. EnvelopeInv'
  BY <1>1, <1>4 DEF SharedInv, EnvelopeInv, Journaled
<1>6. JournalInv'
  BY DEF SharedInv, JournalInv, NoDelivery
<1> QED BY <1>2, <1>5, <1>6 DEF SharedInv

LEMMA ClearSteps ==
    ASSUME NEW p \in Procs, AgentInv, TypeOK', Clear(p) \/ RecoverClear(p)
    PROVE  AgentInv'
<1> USE DEF serverVars, fileVars, procVars, ghostVars
<1>1. TypeOK /\ SharedInv /\ ProcInv(p)
  BY AgentInvParts
<1>2. /\ env[p].input \in Nat /\ env[p].nonce \in Nat
      /\ disk.cursor \in Nat /\ disk.nonce \in Nat
  BY <1>1 DEF TypeOK, Envelope, StateFile
<1>3. CASE Clear(p)
  <2>1. /\ pc[p] = "clear" /\ answer[p] # 0 /\ SameState(p)
        /\ journal.status = "acknowledged" /\ Journaled(env[p])
        /\ disk.cursor = env[p].input /\ mem[p].nonce = env[p].nonce
        /\ \A t \in batch[p] : t \in 1 .. Len(log) /\ t >= env[p].input
    BY <1>1, <1>3 DEF Clear, ProcInv, HandleInv
  <2>2. journal.input <= disk.cursor /\ journal.nonce <= disk.nonce
    BY <1>2, <2>1 DEF Journaled, SameState
  <2>3. SharedInv'
    BY <1>1, <1>3, <2>1, <2>2, ClearShared DEF Clear
  <2>4. /\ pc'[p] \in {"poll", "decide"} /\ answer'[p] = 0 /\ Live(p)
        /\ batch'[p] = batch[p] \ {env[p].input}
        /\ \A q \in Procs \ {p} : pc'[q] = pc[q] /\ answer'[q] = answer[q]
        /\ mem' = mem /\ disk' = disk /\ log' = log /\ JournalEmpty'
    BY <1>1, <1>3, <2>1
    DEF Clear, NextMessage, TypeOK, Live, JournalEmpty, NoDelivery
  <2>5. \A t \in batch'[p] : t \in 1 .. Len(log) /\ t > disk.cursor
    BY <1>2, <2>1, <2>4
  <2>6. ProcInv(p)'
    BY <2>1, <2>4, <2>5
    DEF ProcInv, IdleInv, HandleInv, RecoverInv, SameState
  <2> QED BY <2>3, <2>4, <2>6, StepOf
<1>4. CASE RecoverClear(p)
  <2>1. /\ pc[p] = "reclear" /\ journal.status = "acknowledged"
        /\ Journaled(env[p])
        /\ disk.cursor >= env[p].input /\ disk.nonce >= env[p].nonce
    BY <1>1, <1>4 DEF RecoverClear, ProcInv, RecoverInv
  <2>2. journal.input <= disk.cursor /\ journal.nonce <= disk.nonce
    BY <1>2, <2>1 DEF Journaled
  <2>3. SharedInv'
    BY <1>1, <1>4, <2>1, <2>2, ClearShared DEF RecoverClear
  <2>4. /\ pc'[p] = "down" /\ answer'[p] = 0 /\ Live(p)
        /\ \A q \in Procs \ {p} : pc'[q] = pc[q] /\ answer'[q] = answer[q]
    BY <1>1, <1>4, <2>1 DEF RecoverClear, Exit, TypeOK, Live
  <2>5. ProcInv(p)'
    BY <2>4 DEF ProcInv, IdleInv, HandleInv, RecoverInv
  <2> QED BY <2>3, <2>4, <2>5, StepOf
<1> QED BY <1>3, <1>4

\* A new envelope: its nonce exceeds every nonce signed before although only
\* the state file remembers them, and its input was never answered.
LEMMA ReplyStep ==
    ASSUME NEW p \in Procs, AgentInv, TypeOK', Reply(p)
    PROVE  AgentInv'
<1> USE DEF serverVars, fileVars, procVars, ghostVars
<1>1. TypeOK /\ SharedInv /\ ProcInv(p)
  BY AgentInvParts
<1>2. /\ pc[p] = "decide" /\ JournalEmpty /\ answer[p] = 0
      /\ mem[p].nonce = disk.nonce /\ mem[p].cursor = disk.cursor
      /\ \A s \in batch[p] : s \in 1 .. Len(log) /\ s > disk.cursor
      /\ UNCHANGED <<log, late, disk, audit, recovered, batch, answer>>
      /\ pc' = [pc EXCEPT ![p] = "post"]
  BY <1>1 DEF Reply, ProcInv, IdleInv
<1>3. /\ disk.cursor \in Nat /\ disk.nonce \in Nat /\ Len(log) \in Nat
  BY <1>1, ReplyTypes
<1>4. PICK i \in batch[p], n \in Nat :
         /\ n > disk.nonce
         /\ \A t \in batch[p] : i <= t
         /\ mem' = [mem EXCEPT ![p].nonce = n]
         /\ env' = [env EXCEPT ![p] = [input |-> i, nonce |-> n]]
         /\ journal' = [status |-> "pending", input |-> i, nonce |-> n,
                        reply |-> 0]
         /\ prepared' = prepared \cup {[input |-> i, nonce |-> n]}
  <2>1. \A clock \in 0 .. MaxNonce :
           NextNonce(p, clock) \in Nat /\ NextNonce(p, clock) > disk.nonce
    BY <1>2, <1>3, ConstantsAssumption DEF NextNonce, Larger
  <2> QED BY <2>1 DEF Reply, IsNext
<1> DEFINE e == [input |-> i, nonce |-> n]
<1>5. i \in 1 .. Len(log) /\ i > disk.cursor
  BY <1>2
<1>6. \A d \in prepared :
         /\ d.input \in Nat /\ d.nonce \in Nat
         /\ d.input <= disk.cursor /\ d.nonce <= disk.nonce /\ Delivered(d)
  BY <1>1, <1>2 DEF SharedInv, EnvelopeInv, Journaled, JournalEmpty, TypeOK,
                    Envelope
<1>7. /\ Replies' = Replies
      /\ \A d : Delivered(d)' <=> Delivered(d)
  BY <1>2 DEF Replies, Delivered
<1>8. SharedInv'
  <2>1. RoomInv'
    BY <1>1, <1>2, <1>4, <1>7 DEF SharedInv, RoomInv
  <2>2. EnvelopeInv'
    <3>1. \A d \in prepared' : d \in prepared \/ d = e
      BY <1>4
    <3>2. Journaled(e)'
      BY <1>4 DEF Journaled
    <3>3. \A d \in prepared : d.nonce # e.nonce /\ d.input # e.input
      BY <1>3, <1>4, <1>5, <1>6
    <3>4. \A d \in prepared' :
             /\ d.input \in 1 .. Len(log)
             /\ Journaled(d)' \/ (Delivered(d) /\ d.input <= disk.cursor
                                               /\ d.nonce <= disk.nonce)
             /\ d.input > disk.cursor \/ Delivered(d)
      BY <1>1, <1>5, <1>6, <3>1, <3>2 DEF SharedInv, EnvelopeInv
    <3>5. \A c, d \in prepared' : c.nonce = d.nonce \/ c.input = d.input => c = d
      BY <1>1, <3>1, <3>3 DEF SharedInv, EnvelopeInv
    <3> QED BY <1>2, <1>7, <3>4, <3>5 DEF EnvelopeInv
  <2>3. JournalInv'
    BY <1>1, <1>2, <1>4 DEF SharedInv, JournalInv
  <2>4. DeliveredIsAudited'
    BY <1>1, <1>2, <1>7 DEF SharedInv, DeliveredIsAudited
  <2> QED BY <2>1, <2>2, <2>3, <2>4 DEF SharedInv
<1>9. /\ Live(p)
      /\ \A q \in Procs \ {p} : pc'[q] = pc[q] /\ answer'[q] = answer[q]
  BY <1>1, <1>2 DEF Live, TypeOK
<1>10. ProcInv(p)'
  <2>1. /\ pc'[p] = "post" /\ env'[p] = e /\ mem'[p].nonce = n
        /\ journal'.status = "pending" /\ Journaled(env[p])'
    BY <1>1, <1>2, <1>4 DEF TypeOK, Journaled, StateFile
  <2>2. \A t \in batch'[p] : t \in 1 .. Len(log) /\ t >= i
    BY <1>2, <1>4
  <2>3. n >= disk.nonce
    BY <1>3, <1>4
  <2> QED BY <1>2, <1>5, <2>1, <2>2, <2>3
        DEF ProcInv, IdleInv, HandleInv, RecoverInv
<1> QED BY <1>8, <1>9, <1>10, StepOf

-----------------------------------------------------------------------------
(* The invariant and what follows from it. *)

LEMMA AgentInvInit == Init => AgentInv
<1> SUFFICES ASSUME Init PROVE AgentInv
  OBVIOUS
<1>1. TypeOK
  BY TypeInit
<1>2. Replies = {}
  BY DEF Init, Replies
<1>3. SharedInv
  BY <1>2 DEF Init, SharedInv, RoomInv, EnvelopeInv, JournalInv,
              DeliveredIsAudited, NoDelivery, NoState
<1>4. OneLive
  BY DEF Init, OneLive, Live
<1>5. \A p \in Procs : ProcInv(p)
  BY DEF Init, ProcInv, IdleInv, HandleInv, RecoverInv
<1> QED BY <1>1, <1>3, <1>4, <1>5, AgentInvParts

LEMMA AgentInvStep == AgentInv /\ [Next]_vars => AgentInv'
<1> SUFFICES ASSUME AgentInv, [Next]_vars PROVE AgentInv'
  OBVIOUS
<1>1. TypeOK'
  BY TypeStep, AgentInvParts
<1>2. CASE Environment
  BY <1>1, <1>2, RoomSteps DEF Environment
<1>3. ASSUME NEW p \in Procs, Start(p) \/ RunStep(p) PROVE AgentInv'
  BY <1>1, <1>3, RunFrameSteps, IdleSaveSteps, ReplyStep, AcknowledgeSteps,
     SaveCursorStep, ClearSteps DEF RunStep
<1>4. ASSUME NEW p \in Procs, Recover(p) \/ RecoverStep(p) PROVE AgentInv'
  BY <1>1, <1>4, RecoverFrameSteps, AcknowledgeSteps, RecoverSaveStep,
     ClearSteps DEF RecoverStep
<1>5. ASSUME NEW p \in Procs, NEW c \in BOOLEAN, Inspect(p, c) PROVE AgentInv'
  BY <1>1, <1>5, RecoverFrameSteps
<1>6. ASSUME NEW p \in Procs, Halt(p) \/ Accept(p) PROVE AgentInv'
  BY <1>1, <1>6, HaltStep, AcceptStep
<1>7. CASE UNCHANGED vars
  BY <1>7 DEF vars, AgentInv, TypeOK, OneLive, Live, RoomInv, EnvelopeInv,
     JournalInv, DeliveredIsAudited, IdleInv, HandleInv, RecoverInv,
     Journaled, Delivered, IsReplyTo, Replies, JournalEmpty, SameState
<1> QED BY <1>2, <1>3, <1>4, <1>5, <1>6, <1>7 DEF Next

\* The write-ahead discipline holds in every reachable state.
THEOREM AgentInvariant == Spec => []AgentInv
  BY AgentInvInit, AgentInvStep, PTL DEF Spec

LEMMA AgentInvImplies ==
    AgentInv => /\ AtMostOneReply /\ NonceNeverReused /\ ClearedIsDelivered
                /\ AcknowledgementIsTrue /\ DeliveredIsAudited
<1> SUFFICES ASSUME AgentInv
             PROVE  /\ AtMostOneReply /\ NonceNeverReused
                    /\ ClearedIsDelivered /\ AcknowledgementIsTrue
                    /\ DeliveredIsAudited
  OBVIOUS
<1>1. ASSUME NEW s \in Replies, NEW t \in Replies, log[s].input = log[t].input
      PROVE  s = t
  <2>1. /\ [input |-> log[s].input, nonce |-> log[s].nonce] \in prepared
        /\ [input |-> log[t].input, nonce |-> log[t].nonce] \in prepared
    BY DEF AgentInv, RoomInv
  <2>2. log[s].nonce = log[t].nonce
    BY <1>1, <2>1 DEF AgentInv, EnvelopeInv
  <2> QED BY <2>2 DEF AgentInv, RoomInv
<1>2. AtMostOneReply
  BY <1>1 DEF AtMostOneReply
<1>3. NonceNeverReused /\ ClearedIsDelivered
  BY DEF NonceNeverReused, ClearedIsDelivered, AgentInv, EnvelopeInv
<1>4. AcknowledgementIsTrue /\ DeliveredIsAudited
  BY DEF AcknowledgementIsTrue, AgentInv, JournalInv
<1> QED BY <1>2, <1>3, <1>4

\* No command is answered twice, for any number of processes, crashes,
\* recoveries, retries and late arrivals.
THEOREM AnsweredOnce == Spec => []AtMostOneReply
  BY AgentInvariant, AgentInvImplies, PTL

\* A nonce is signed for one input only, whatever the clock does.
THEOREM NoncesAreFresh == Spec => []NonceNeverReused
  BY AgentInvariant, AgentInvImplies, PTL

\* A journaled reply never disappears: it stays journaled until the room has it.
THEOREM NoReplyIsDropped == Spec => []ClearedIsDelivered
  BY AgentInvariant, AgentInvImplies, PTL

\* The acknowledged sequence in the journal is the one the room holds.
THEOREM JournalIsTruthful == Spec => []AcknowledgementIsTrue
  BY AgentInvariant, AgentInvImplies, PTL

\* Every settled reply is in the audit log or was settled by recovery.
THEOREM AuditIsComplete == Spec => []DeliveredIsAudited
  BY AgentInvariant, AgentInvImplies, PTL

-----------------------------------------------------------------------------
(* Action properties and the refinement. *)

\* What one step does to state file and journal.
LEMMA FileStep ==
    ASSUME AgentInv, [Next]_vars
    PROVE  /\ disk'.cursor >= disk.cursor /\ disk'.nonce >= disk.nonce
           /\ journal.status # "none" /\ journal'.status = "none" =>
                  /\ journal.status = "acknowledged"
                  /\ disk.cursor >= journal.input
                  /\ disk.nonce >= journal.nonce
           /\ disk' # disk => log' = log
<1> DEFINE Goal == /\ disk'.cursor >= disk.cursor /\ disk'.nonce >= disk.nonce
                   /\ journal.status # "none" /\ journal'.status = "none" =>
                          /\ journal.status = "acknowledged"
                          /\ disk.cursor >= journal.input
                          /\ disk.nonce >= journal.nonce
                   /\ disk' # disk => log' = log
<1> USE DEF serverVars, fileVars, procVars, ghostVars
<1>1. TypeOK /\ \A p \in Procs : ProcInv(p)
  BY AgentInvParts
<1>2. disk.cursor \in Nat /\ disk.nonce \in Nat
  BY <1>1, ReplyTypes
<1>3. ASSUME UNCHANGED <<disk, journal>> PROVE Goal
  BY <1>2, <1>3
<1>4. CASE Environment
  BY <1>3, <1>4 DEF Environment, PeerPost, Expire, AcceptLate
<1>5. ASSUME NEW p \in Procs, BootSave(p) \/ PollUnavailable(p) \/ SaveCursor(p)
                              \/ RecoverSave(p)
      PROVE  Goal
  <2>0. /\ mem[p].cursor \in Nat /\ mem[p].nonce \in Nat
        /\ env[p].input \in Nat /\ env[p].nonce \in Nat
    BY <1>1 DEF TypeOK, StateFile, Envelope
  <2>1. journal' = journal /\ log' = log
    BY <1>5 DEF BootSave, PollUnavailable, SaveCursor, RecoverSave
  <2>2. CASE BootSave(p)
    <3>1. disk.cursor = 0 /\ disk'.cursor = mem[p].cursor
          /\ disk'.nonce = disk.nonce
      BY <2>2, <1>1 DEF BootSave, SaveState, ProcInv, IdleInv, AgentInv,
                        JournalInv
    <3> QED BY <1>2, <2>0, <2>1, <3>1
  <2>3. CASE PollUnavailable(p)
    <3>1. PICK last \in LastSeq(mem[p].cursor, PollLimit) :
             last > mem[p].cursor /\ SaveState(p, last, mem[p].nonce)
      BY <2>3 DEF PollUnavailable
    <3>2. last \in Nat /\ disk'.cursor = last /\ disk'.nonce = mem[p].nonce
      BY <2>0, <3>1, <1>1, ReplyTypes DEF SaveState, LastSeq
    <3>3. mem[p].cursor = disk.cursor /\ mem[p].nonce = disk.nonce
      BY <2>3, <1>1 DEF PollUnavailable, ProcInv, IdleInv
    <3> QED BY <1>2, <2>1, <3>1, <3>2, <3>3
  <2>4. CASE SaveCursor(p)
    <3>1. disk'.cursor = env[p].input /\ disk'.nonce = mem[p].nonce
      BY <2>4 DEF SaveCursor, SaveState
    <3>2. env[p].input > disk.cursor /\ mem[p].nonce >= disk.nonce
      BY <2>4, <1>1 DEF SaveCursor, ProcInv, HandleInv
    <3> QED BY <1>2, <2>0, <2>1, <3>1, <3>2
  <2>5. CASE RecoverSave(p)
    <3>1. /\ disk'.cursor = Larger(mem[p].cursor, env[p].input)
          /\ disk'.nonce = Larger(mem[p].nonce, env[p].nonce)
      BY <2>5 DEF RecoverSave, SaveState
    <3>2. mem[p].cursor = disk.cursor /\ mem[p].nonce = disk.nonce
      BY <2>5, <1>1 DEF RecoverSave, ProcInv, RecoverInv, SameState
    <3> QED BY <1>2, <2>0, <2>1, <3>1, <3>2 DEF Larger
  <2> QED BY <1>5, <2>2, <2>3, <2>4, <2>5
<1>6. ASSUME NEW p \in Procs, Clear(p) \/ RecoverClear(p) PROVE Goal
  <2>1. disk' = disk
    BY <1>6 DEF Clear, RecoverClear
  <2>2. journal.status = "acknowledged" /\ Journaled(env[p])
    BY <1>6, <1>1 DEF Clear, RecoverClear, ProcInv, HandleInv, RecoverInv
  <2>3. disk.cursor >= env[p].input /\ disk.nonce >= env[p].nonce
    <3>1. CASE Clear(p)
      <4>1. disk.cursor = env[p].input /\ disk.nonce = env[p].nonce
        BY <1>1, <3>1 DEF Clear, ProcInv, HandleInv, SameState
      <4> QED BY <1>2, <4>1
    <3>2. CASE RecoverClear(p)
      BY <1>1, <3>2 DEF RecoverClear, ProcInv, RecoverInv
    <3> QED BY <1>6, <3>1, <3>2
  <2> QED BY <1>2, <2>1, <2>2, <2>3 DEF Journaled
<1>7. ASSUME NEW p \in Procs, Acknowledge(p) \/ Finalize(p) PROVE Goal
  <2>1. disk' = disk /\ journal'.status # "none"
    BY <1>7, <1>1 DEF Acknowledge, Finalize, AcknowledgeJournal, TypeOK,
                      DeliveryRecord
  <2> QED BY <1>2, <2>1
<1>8. ASSUME NEW p \in Procs, Reply(p) PROVE Goal
  <2>1. disk' = disk /\ journal.status = "none"
    BY <1>8 DEF Reply, JournalEmpty
  <2> QED BY <1>2, <2>1
<1>9. ASSUME NEW p \in Procs,
             \/ Start(p) \/ BootRead(p) \/ Poll(p) \/ Decline(p) \/ Post(p)
             \/ AppendAudit(p) \/ Recover(p) \/ Repost(p) \/ RetryAnswered(p)
             \/ Halt(p) \/ Accept(p) \/ \E c \in BOOLEAN : Inspect(p, c)
      PROVE  Goal
  <2>1. UNCHANGED <<disk, journal>>
    BY <1>9 DEF Start, BootRead, Poll, Decline, Post, AppendAudit, Recover,
                Repost, RetryAnswered, Halt, Accept, Inspect
  <2> QED BY <1>3, <2>1
<1>10. CASE UNCHANGED vars
  BY <1>3, <1>10 DEF vars
<1> QED
  BY <1>4, <1>5, <1>6, <1>7, <1>8, <1>9, <1>10 DEF Next, RunStep, RecoverStep

\* No write of the state file loses a newer cursor or nonce.
THEOREM NoRewind == Spec => StateNeverRewinds
<1>1. AgentInv /\ [Next]_vars
        => [disk'.cursor >= disk.cursor /\ disk'.nonce >= disk.nonce]_vars
  BY FileStep
<1> QED BY <1>1, AgentInvariant, PTL DEF Spec, StateNeverRewinds

\* The journal is cleared only when acknowledgement and cursor are durable.
THEOREM ClearIsLast == Spec => ClearedAfterDurable
<1>1. AgentInv /\ [Next]_vars
        => [(journal.status # "none" /\ journal'.status = "none") =>
               /\ journal.status = "acknowledged"
               /\ disk.cursor >= journal.input
               /\ disk.nonce >= journal.nonce]_vars
  BY FileStep
<1> QED BY <1>1, AgentInvariant, PTL DEF Spec, ClearedAfterDurable

\* A step either leaves the replies in the room alone, or adds one that was
\* journaled, is new to the room and leaves the state file alone.
LEMMA ReplySetStep ==
    ASSUME AgentInv, [Next]_vars
    PROVE  \/ /\ Replies' = Replies
              /\ \A s \in Replies : log'[s] = log[s]
           \/ /\ disk' = disk
              /\ \E e \in prepared :
                    ~Landed(e.nonce) /\ log' = Append(log, ReplyMessage(e))
<1> USE DEF serverVars, fileVars, procVars, ghostVars
<1>1. TypeOK /\ SharedInv /\ \A p \in Procs : ProcInv(p)
  BY AgentInvParts
<1>2. ASSUME log' = log
      PROVE  Replies' = Replies /\ \A s \in Replies : log'[s] = log[s]
  BY <1>2 DEF Replies
<1>3. ASSUME NEW kind \in {"command", "other"}, PeerPost(kind)
      PROVE  Replies' = Replies /\ \A s \in Replies : log'[s] = log[s]
  <2> DEFINE m == [kind |-> kind, input |-> 0, nonce |-> 0]
  <2>1. m \in Message /\ m.kind # "reply" /\ log' = Append(log, m)
    BY <1>3 DEF Message, PeerPost
  <2> HIDE DEF m
  <2> QED BY <1>1, <2>1, LogGrows
<1>4. ASSUME NEW e \in late, AcceptLate(e)
      PROVE  /\ disk' = disk /\ e \in prepared
             /\ ~Landed(e.nonce) /\ log' = Append(log, ReplyMessage(e))
  BY <1>1, <1>4 DEF AcceptLate, SharedInv, RoomInv
<1>5. ASSUME NEW p \in Procs, Accept(p)
      PROVE  /\ disk' = disk /\ env[p] \in prepared
             /\ ~Landed(env[p].nonce) /\ log' = Append(log, ReplyMessage(env[p]))
  <2>1. Journaled(env[p])
    BY <1>1, <1>5 DEF Accept, ProcInv, HandleInv, RecoverInv
  <2>2. [input |-> env[p].input, nonce |-> env[p].nonce] \in prepared
    BY <1>1, <2>1 DEF Journaled, SharedInv, JournalInv
  <2>3. env[p] = [input |-> env[p].input, nonce |-> env[p].nonce]
    BY <1>1 DEF TypeOK, Envelope
  <2> QED BY <1>5, <2>2, <2>3 DEF Accept
<1>6. ASSUME NEW p \in Procs,
             \/ Start(p) \/ Recover(p) \/ Halt(p)
             \/ RunStep(p) \/ RecoverStep(p)
             \/ \E c \in BOOLEAN : Inspect(p, c)
      PROVE  log' = log
  BY <1>6 DEF Start, Recover, Halt, RunStep, BootRead, BootSave, Poll,
              PollUnavailable, Decline, Reply, Post, Acknowledge, AppendAudit,
              SaveCursor, Clear, RecoverStep, Repost, RetryAnswered, Finalize,
              RecoverSave, RecoverClear, Inspect
<1>7. Expire \/ UNCHANGED vars => log' = log
  BY DEF Expire, vars
<1> QED BY <1>2, <1>3, <1>4, <1>5, <1>6, <1>7 DEF Next, Environment

\* A journaled envelope that is new to the room answers an input that nobody
\* answered and that the durable cursor has not passed.
LEMMA NewReplyIsOpen ==
    ASSUME AgentInv, NEW e \in prepared, ~Landed(e.nonce)
    PROVE  /\ e.input \in 1 .. Len(log)
           /\ e.input > disk.cursor
           /\ \A s \in Replies : log[s].input # e.input
<1>1. ~Delivered(e)
  BY DEF Delivered, Landed
<1>2. ASSUME NEW s \in Replies, log[s].input = e.input PROVE FALSE
  <2>1. [input |-> log[s].input, nonce |-> log[s].nonce] \in prepared
    BY DEF AgentInv, RoomInv
  <2>2. log[s].nonce = e.nonce
    BY <1>2, <2>1 DEF AgentInv, EnvelopeInv
  <2> QED BY <2>2 DEF Landed
<1> QED BY <1>1, <1>2 DEF AgentInv, EnvelopeInv

RoomReplies == {[input |-> log[s].input, seq |-> s] : s \in Replies}

LEMMA RefinementStep ==
    ASSUME AgentInv, [Next]_vars
    PROVE  [Once!Next]_Once!vars
<1>1. /\ TypeOK /\ disk.cursor \in Nat /\ disk'.cursor \in Nat
      /\ Len(log) \in Nat /\ disk'.cursor >= disk.cursor
  <2>1. TypeOK /\ TypeOK'
    BY TypeStep DEF AgentInv
  <2> QED BY <2>1, FileStep, ReplyTypes DEF TypeOK, StateFile
<1>2. CASE Replies' = Replies /\ \A s \in Replies : log'[s] = log[s]
  <2>1. RoomReplies' = RoomReplies
    BY <1>2 DEF RoomReplies
  <2>2. CASE disk'.cursor = disk.cursor
    BY <2>1, <2>2 DEF Once!vars, RoomReplies
  <2>3. CASE disk'.cursor > disk.cursor
    BY <2>1, <2>3 DEF Once!Next, Once!Settle, RoomReplies
  <2> QED BY <1>1, <2>2, <2>3
<1>3. ASSUME disk' = disk, NEW e \in prepared, ~Landed(e.nonce),
             log' = Append(log, ReplyMessage(e))
      PROVE  Once!Next
  <2> DEFINE r == [input |-> e.input, seq |-> Len(log) + 1]
  <2>1. /\ e.input \in 1 .. Len(log) /\ e.input > disk.cursor
        /\ \A s \in Replies : log[s].input # e.input
    BY <1>3, NewReplyIsOpen
  <2>2. /\ ReplyMessage(e) \in Message /\ ReplyMessage(e).kind = "reply"
        /\ ReplyMessage(e).input = e.input
    BY <1>1 DEF TypeOK, Envelope, Message, ReplyMessage
  <2>3. /\ \A s \in Replies : s \in Replies' /\ log'[s] = log[s]
        /\ \A s \in Replies' : s \in Replies \/ s = Len(log) + 1
        /\ Len(log) + 1 \in Replies'
        /\ log'[Len(log) + 1].input = e.input
    BY <1>1, <1>3, <2>2, LogGrows
  <2>4. RoomReplies' = RoomReplies \cup {r}
    BY <2>3 DEF RoomReplies
  <2>5. r.input > disk.cursor /\ r.seq > r.input
    BY <1>1, <2>1
  <2>6. \A q \in RoomReplies : q.input # r.input
    BY <2>1 DEF RoomReplies
  <2>7. r \in RoomReplies'
    BY <2>4
  <2> HIDE DEF r
  <2> QED BY <1>3, <2>4, <2>5, <2>6, <2>7 DEF Once!Next, Once!Answer, RoomReplies
<1> QED BY <1>2, <1>3, ReplySetStep

\* The agent with its files, crashes and recoveries implements the promise of
\* ReplyOnce: one answer per input, none after the cursor has passed it.
THEOREM Refinement == Spec => RefinesReplyOnce
<1>1. Init => Once!Init
  <2> SUFFICES ASSUME Init PROVE Once!Init
    OBVIOUS
  <2>1. Replies = {} /\ disk.cursor = 0
    BY DEF Init, Replies, NoState
  <2> QED BY <2>1 DEF Once!Init
<1>2. AgentInv /\ [Next]_vars => [Once!Next]_Once!vars
  BY RefinementStep
<1> QED BY <1>1, <1>2, AgentInvariant, PTL DEF Spec, RefinesReplyOnce, Once!Spec

-----------------------------------------------------------------------------
(* Messages from before the first startup. *)

LEMMA HistoryInit == Init => HistoryInv
  BY DEF Init, HistoryInv, Past, NoState

\* Steps of the server and steps that keep the state file and the batch.
LEMMA HistoryStep == AgentInv /\ HistoryInv /\ [Next]_vars => HistoryInv'
<1> SUFFICES ASSUME AgentInv, HistoryInv, [Next]_vars PROVE HistoryInv'
  OBVIOUS
<1> USE DEF serverVars, fileVars, procVars, ghostVars
<1>1. TypeOK /\ TypeOK' /\ SharedInv /\ OneLive /\ \A p \in Procs : ProcInv(p)
  BY TypeStep, AgentInvParts
<1>2. /\ Len(log) \in Nat /\ floor \in Nat /\ history \in Nat
      /\ disk.cursor \in Nat /\ floor <= Len(log)
      /\ Len(log') \in Nat /\ floor' \in Nat /\ history' \in Nat
  BY <1>1, ReplyTypes DEF TypeOK
<1>3. ASSUME UNCHANGED <<disk, pc, mem, batch, prepared, history>>,
             Len(log') >= Len(log), floor' >= floor
      PROVE  HistoryInv'
  BY <1>2, <1>3 DEF HistoryInv, Past
<1>4. CASE Environment
  <2>1. UNCHANGED <<disk, pc, mem, batch, prepared, history>>
    BY <1>4 DEF Environment, PeerPost, Expire, AcceptLate
  <2>2. Len(log') >= Len(log) /\ floor' >= floor
    <3>1. ASSUME NEW kind \in {"command", "other"}, PeerPost(kind)
          PROVE  Len(log') = Len(log) + 1 /\ floor' = floor
      <4> DEFINE m == [kind |-> kind, input |-> 0, nonce |-> 0]
      <4>1. m \in Message /\ log' = Append(log, m) /\ floor' = floor
        BY <3>1 DEF Message, PeerPost
      <4> HIDE DEF m
      <4> QED BY <1>1, <4>1, LogGrows
    <3>2. ASSUME NEW e \in late, AcceptLate(e)
          PROVE  Len(log') = Len(log) + 1 /\ floor' = floor
      <4>1. ReplyMessage(e) \in Message
        BY <1>1 DEF TypeOK, Envelope, Message, ReplyMessage
      <4> QED BY <1>1, <3>2, <4>1, LogGrows DEF AcceptLate
    <3>3. Expire => log' = log /\ floor' >= floor
      BY <1>2 DEF Expire
    <3> QED BY <1>2, <1>4, <3>1, <3>2, <3>3 DEF Environment
  <2> QED BY <1>3, <2>1, <2>2
<1>5. ASSUME NEW p \in Procs, Accept(p) PROVE HistoryInv'
  <2>1. ReplyMessage(env[p]) \in Message
    BY <1>1 DEF TypeOK, Envelope, Message, ReplyMessage
  <2>2. Len(log') = Len(log) + 1
    BY <1>1, <1>5, <2>1, LogGrows DEF Accept
  <2> QED BY <1>2, <1>3, <1>5, <2>2 DEF Accept
<1>6. ASSUME NEW p \in Procs, Live(p) \/ LockFree,
             UNCHANGED <<log, floor, history>>,
             \A e \in prepared' : e.input > history,
             disk'.known => Past(disk'.cursor),
             \A q \in Procs \ {p} : pc'[q] = pc[q],
             pc'[p] = "bootsave" => Past(mem'[p].cursor),
             pc'[p] \in {"poll", "decide", "post", "await", "audit", "save",
                         "clear"} => disk'.known \/ history = 0,
             pc'[p] \in {"decide", "post", "await", "audit", "save", "clear"} =>
                \A s \in batch'[p] : s > history
      PROVE  HistoryInv'
  <2>1. \A q \in Procs \ {p} : pc'[q] = "down"
    BY <1>1, <1>6, Alone
  <2> QED BY <1>6, <2>1 DEF HistoryInv, Past
<1>7. ASSUME NEW p \in Procs, Start(p) PROVE HistoryInv'
  <2>1. \A q \in Procs \ {p} : pc'[q] = "down"
    BY <1>1, <1>7 DEF Start, LockFree, TypeOK
  <2>2. pc'[p] = "boot" \/ (pc'[p] = "poll" /\ (disk.known \/ history' = 0))
    BY <1>1, <1>7 DEF Start, TypeOK
  <2>3. UNCHANGED <<log, floor, disk, prepared>> /\ JournalEmpty
    BY <1>7 DEF Start
  <2>4. CASE disk.known
    BY <1>2, <1>7, <2>1, <2>2, <2>3, <2>4 DEF Start, HistoryInv, Past
  <2>5. CASE ~disk.known
    <3>1. prepared = {}
      <4> SUFFICES ASSUME NEW e \in prepared PROVE FALSE
        OBVIOUS
      <4>1. e.input \in 1 .. Len(log) /\ e.input <= disk.cursor
        BY <1>1, <2>3 DEF SharedInv, EnvelopeInv, Journaled, JournalEmpty
      <4>2. disk.cursor = 0
        BY <1>1, <2>5 DEF SharedInv, JournalInv
      <4> QED BY <4>1, <4>2
    <3>2. history' <= Len(log)
      BY <1>2, <1>7, <2>5 DEF Start
    <3> QED BY <2>1, <2>2, <2>3, <2>5, <3>1, <3>2 DEF HistoryInv, Past
  <2> QED BY <2>4, <2>5
<1>8. ASSUME NEW p \in Procs, BootRead(p) PROVE HistoryInv'
  <2>1. PICK last \in LastSeq(0, 1) : mem' = [mem EXCEPT ![p].cursor = last]
    BY <1>8 DEF BootRead
  <2>2. mem'[p].cursor = last
    BY <1>1, <2>1 DEF TypeOK, StateFile
  <2>3. Past(last)
    <3>1. CASE Window(0, 1) # {}
      BY <1>2, <3>1, <2>1 DEF LastSeq, HistoryInv, Past
    <3>2. CASE Window(0, 1) = {}
      <4>1. floor = Len(log)
        <5> SUFFICES ASSUME floor < Len(log) PROVE FALSE
          BY <1>2
        <5>1. Len(log) \in DOMAIN log
          BY <1>1, <1>2 DEF TypeOK
        <5> QED BY <1>2, <3>2, <5>1 DEF Window
      <4> QED BY <1>2, <4>1 DEF HistoryInv, Past
    <3> QED BY <3>1, <3>2
  <2>4. /\ Live(p) /\ pc'[p] = "bootsave"
        /\ UNCHANGED <<log, floor, history, disk, prepared>>
        /\ \A q \in Procs \ {p} : pc'[q] = pc[q]
    BY <1>1, <1>8 DEF BootRead, TypeOK, Live
  <2> QED BY <1>6, <2>2, <2>3, <2>4 DEF HistoryInv, Past
<1>9. ASSUME NEW p \in Procs, BootSave(p) PROVE HistoryInv'
  <2>1. /\ Live(p) /\ pc'[p] = "poll" /\ disk'.known
        /\ disk'.cursor = mem[p].cursor /\ Past(mem[p].cursor)
        /\ UNCHANGED <<log, floor, history, prepared>>
        /\ \A q \in Procs \ {p} : pc'[q] = pc[q]
    BY <1>1, <1>9 DEF BootSave, SaveState, TypeOK, Live, HistoryInv
  <2> QED BY <1>6, <2>1 DEF HistoryInv, Past
<1>10. ASSUME NEW p \in Procs, Poll(p) PROVE HistoryInv'
  <2>1. /\ Live(p) /\ pc[p] = "poll" /\ pc'[p] = "decide"
        /\ UNCHANGED <<log, floor, history, disk, prepared>>
        /\ \A q \in Procs \ {p} : pc'[q] = pc[q]
        /\ batch'[p] = Window(disk.cursor, PollLimit)
    BY <1>1, <1>10 DEF Poll, TypeOK, Live, ProcInv, IdleInv
  <2>2. disk.known \/ history = 0
    BY <2>1 DEF HistoryInv
  <2>3. \A s \in DOMAIN log : s \in Nat
    BY <1>1 DEF TypeOK
  <2>4. \A s \in batch'[p] : s > history
    BY <1>2, <2>1, <2>2, <2>3 DEF Window, HistoryInv, Past
  <2> QED BY <1>6, <2>1, <2>2, <2>4 DEF HistoryInv, Past
<1>11. ASSUME NEW p \in Procs, PollUnavailable(p) \/ SaveCursor(p)
       PROVE  HistoryInv'
  <2>1. /\ Live(p) /\ UNCHANGED <<log, floor, history, prepared>>
        /\ \A q \in Procs \ {p} : pc'[q] = pc[q]
    BY <1>1, <1>11 DEF PollUnavailable, SaveCursor, NextMessage, TypeOK, Live
  <2>2. disk'.known /\ (disk.known \/ history = 0)
    BY <1>11 DEF PollUnavailable, SaveCursor, SaveState, HistoryInv
  <2>3. disk'.cursor >= disk.cursor /\ disk'.cursor \in Nat
    BY <1>1, FileStep DEF TypeOK, StateFile
  <2>4. Past(disk'.cursor)
    BY <1>2, <2>2, <2>3 DEF HistoryInv, Past
  <2>5. /\ pc'[p] # "bootsave"
        /\ pc'[p] \in {"decide", "post", "await", "audit", "save", "clear"} =>
               \A s \in batch'[p] : s > history
    <3>1. CASE PollUnavailable(p)
      BY <3>1 DEF PollUnavailable
    <3>2. CASE SaveCursor(p)
      <4>1. pc[p] = "save" /\ batch'[p] \subseteq batch[p]
        BY <1>1, <3>2 DEF SaveCursor, NextMessage, TypeOK
      <4>2. pc'[p] \in {"poll", "decide", "clear"}
        BY <1>1, <3>2 DEF SaveCursor, NextMessage, TypeOK
      <4> QED BY <4>1, <4>2 DEF HistoryInv
    <3> QED BY <1>11, <3>1, <3>2
  <2> QED BY <1>6, <2>1, <2>2, <2>4, <2>5 DEF HistoryInv
<1>12. ASSUME NEW p \in Procs, Reply(p) PROVE HistoryInv'
  <2>1. /\ Live(p) /\ pc[p] = "decide" /\ pc'[p] = "post"
        /\ UNCHANGED <<log, floor, history, disk, batch>>
        /\ \A q \in Procs \ {p} : pc'[q] = pc[q]
    BY <1>1, <1>12 DEF Reply, TypeOK, Live
  <2>2. \A e \in prepared' : e.input > history
    BY <1>12 DEF Reply, HistoryInv
  <2> QED BY <1>6, <2>1, <2>2 DEF HistoryInv, Past
<1>13. ASSUME NEW p \in Procs,
              \/ Decline(p) \/ Post(p) \/ Acknowledge(p) \/ AppendAudit(p)
              \/ Clear(p)
       PROVE  HistoryInv'
  <2>1. /\ Live(p) /\ UNCHANGED <<log, floor, history, disk, prepared>>
        /\ \A q \in Procs \ {p} : pc'[q] = pc[q]
        /\ pc[p] \in {"decide", "post", "await", "audit", "clear"}
        /\ pc'[p] # "bootsave"
    BY <1>1, <1>13 DEF Decline, Post, Acknowledge, AppendAudit, Clear,
                       NextMessage, TypeOK, Live
  <2>2. batch'[p] \subseteq batch[p]
    BY <1>1, <1>13 DEF Decline, Post, Acknowledge, AppendAudit, Clear,
                       NextMessage, TypeOK
  <2> QED BY <1>6, <2>1, <2>2 DEF HistoryInv, Past
<1>14. ASSUME NEW p \in Procs, RecoverSave(p) PROVE HistoryInv'
  <2>1. /\ Live(p) /\ UNCHANGED <<log, floor, history, prepared>>
        /\ \A q \in Procs \ {p} : pc'[q] = pc[q]
        /\ pc'[p] = "reclear"
        /\ disk'.cursor = Larger(mem[p].cursor, env[p].input)
    BY <1>1, <1>14 DEF RecoverSave, SaveState, TypeOK, Live
  <2>2. Journaled(env[p])
    BY <1>1, <1>14 DEF RecoverSave, ProcInv, RecoverInv
  <2>3. [input |-> env[p].input, nonce |-> env[p].nonce] \in prepared
    BY <1>1, <2>2 DEF Journaled, SharedInv, JournalInv
  <2>4. env[p].input > history /\ env[p].input \in Nat /\ mem[p].cursor \in Nat
    BY <1>1, <2>3 DEF HistoryInv, TypeOK, Envelope, StateFile
  <2>5. Past(disk'.cursor)
    BY <1>2, <2>1, <2>4 DEF Larger, Past
  <2> QED BY <1>6, <2>1, <2>5 DEF HistoryInv
<1>15. ASSUME NEW p \in Procs,
              \/ Recover(p) \/ Repost(p) \/ RetryAnswered(p) \/ Finalize(p)
              \/ RecoverClear(p) \/ Halt(p)
              \/ \E c \in BOOLEAN : Inspect(p, c)
       PROVE  HistoryInv'
  <2>1. /\ Live(p) \/ LockFree
        /\ UNCHANGED <<log, floor, history, disk, prepared>>
        /\ \A q \in Procs \ {p} : pc'[q] = pc[q]
    BY <1>1, <1>15 DEF Recover, Repost, RetryAnswered, Finalize, RecoverClear,
                       Halt, Inspect, Exit, TypeOK, Live
  <2>2. pc'[p] \in {"down", "inspect", "repost", "reawait", "finalize", "resave"}
    BY <1>1, <1>15 DEF Recover, Repost, RetryAnswered, Finalize, RecoverClear,
                       Halt, Inspect, Exit, TypeOK
  <2> QED BY <1>6, <2>1, <2>2 DEF HistoryInv, Past
<1>16. CASE UNCHANGED vars
  BY <1>2, <1>3, <1>16 DEF vars
<1> QED
  BY <1>4, <1>5, <1>7, <1>8, <1>9, <1>10, <1>11, <1>12, <1>13, <1>14, <1>15,
     <1>16 DEF Next, RunStep, RecoverStep

\* No message from before the first startup at the tail is ever answered.
THEOREM HistoryUnanswered == Spec => []NoHistoricalReply
<1>1. AgentInv /\ HistoryInv => NoHistoricalReply
  BY DEF AgentInv, RoomInv, HistoryInv, NoHistoricalReply
<1> QED BY <1>1, HistoryInit, HistoryStep, AgentInvariant, PTL DEF Spec

-----------------------------------------------------------------------------
(* What recover-delivery concludes from its one read of the room. *)

\* The window read after the input of the journaled envelope holds every copy
\* of that envelope the room retains, once it is known to be complete.
LEMMA CompleteWindow ==
    ASSUME AgentInv, NEW p \in Procs, pc[p] = "inspect",
           NEW last \in LastSeq(env[p].input, RecoverLimit),
           IsCompleteHistory(Window(env[p].input, RecoverLimit), last,
                             env[p].input),
           NEW s \in Replies, log[s].nonce = env[p].nonce, ~(s <= floor)
    PROVE  s \in Matches(Window(env[p].input, RecoverLimit), env[p])
<1> DEFINE W == Window(env[p].input, RecoverLimit)
<1> USE ConstantsAssumption
<1>1. TypeOK /\ RoomInv /\ EnvelopeInv /\ JournalInv /\ RecoverInv(p)
  BY DEF AgentInv
<1>2. /\ s \in 1 .. Len(log) /\ DOMAIN log = 1 .. Len(log) /\ Len(log) \in Nat
      /\ log[s].kind = "reply" /\ log[s].input \in Nat
      /\ floor \in Nat /\ env[p].input \in Nat
  BY <1>1, ReplyTypes DEF TypeOK, Replies, Envelope
<1>3. s > env[p].input
  <2>1. /\ [input |-> env[p].input, nonce |-> env[p].nonce] \in prepared
        /\ [input |-> log[s].input, nonce |-> log[s].nonce] \in prepared
        /\ log[s].input < s
    BY <1>1 DEF RecoverInv, Journaled, JournalInv, RoomInv
  <2>2. \A d, e \in prepared : d.nonce = e.nonce => d = e
    BY <1>1 DEF EnvelopeInv
  <2>3. log[s].input = env[p].input
    BY <2>1, <2>2
  <2> QED BY <2>1, <2>3
<1>4. Len(log) \in W
  BY <1>2, <1>3 DEF Window
<1>5. last = Len(log) /\ W = (env[p].input + 1) .. last
  BY <1>4 DEF LastSeq, IsCompleteHistory
<1>6. s \in W
  BY <1>2, <1>3, <1>5
<1> QED BY <1>2, <1>6 DEF Matches

\* Recovery offers a retry only when the room retains no copy of the envelope.
THEOREM RetryIsJustified == Spec => NotFoundIsUnretained
<1> DEFINE Unretained(p) ==
        (pc[p] = "inspect" /\ pc'[p] = "repost") =>
            \A s \in Replies : log[s].nonce = env[p].nonce => s <= floor
<1>1. AgentInv /\ [Next]_vars => [\A p \in Procs : Unretained(p)]_vars
  <2> SUFFICES ASSUME AgentInv, Next, NEW p \in Procs,
                      pc[p] = "inspect", pc'[p] = "repost",
                      NEW s \in Replies, log[s].nonce = env[p].nonce,
                      ~(s <= floor)
               PROVE  FALSE
    OBVIOUS
  <2> USE DEF serverVars, fileVars, procVars, ghostVars
  <2>1. TypeOK /\ pc \in [Procs -> PC]
    BY DEF AgentInv, TypeOK
  <2>2. CASE Environment
    BY <2>2 DEF Environment, PeerPost, Expire, AcceptLate
  <2>3. ASSUME NEW q \in Procs,
               \/ Start(q) \/ Recover(q) \/ Halt(q) \/ Accept(q)
               \/ RunStep(q) \/ RecoverStep(q)
        PROVE  FALSE
    <3>1. CASE Start(q) \/ Recover(q) \/ Halt(q) \/ Accept(q)
      BY <2>1, <3>1 DEF Start, Recover, Halt, Accept, Exit
    <3>2. CASE RunStep(q)
      BY <2>1, <3>2 DEF RunStep, BootRead, BootSave, Poll, PollUnavailable,
                   Decline, Reply, Post, Acknowledge, AppendAudit, SaveCursor,
                   Clear, NextMessage
    <3>3. CASE RecoverStep(q)
      BY <2>1, <3>3 DEF RecoverStep, Repost, RetryAnswered, Finalize, RecoverSave,
                        RecoverClear, Exit
    <3> QED BY <2>3, <3>1, <3>2, <3>3
  <2>4. ASSUME NEW q \in Procs, NEW c \in BOOLEAN, Inspect(q, c)
        PROVE  FALSE
    <3>1. q = p
      BY <2>1, <2>4 DEF Inspect, Exit
    <3>2. PICK last \in LastSeq(env[p].input, RecoverLimit) :
             /\ IsCompleteHistory(Window(env[p].input, RecoverLimit), last,
                                  env[p].input)
             /\ Matches(Window(env[p].input, RecoverLimit), env[p]) = {}
      BY <2>1, <2>4, <3>1 DEF Inspect, Exit
    <3>3. s \in Matches(Window(env[p].input, RecoverLimit), env[p])
      BY <3>2, CompleteWindow
    <3> QED BY <3>2, <3>3
  <2> QED BY <2>2, <2>3, <2>4 DEF Next
<1> QED BY <1>1, AgentInvariant, PTL DEF Spec, NotFoundIsUnretained
=============================================================================
