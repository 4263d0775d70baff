------------------------------ MODULE SafeAgent ------------------------------
(***************************************************************************)
(* The live responder (`run --send`), the explicit recovery command        *)
(* (`recover-delivery`), the private files they share and the room server  *)
(* they talk to.                                                           *)
(*                                                                         *)
(* Any process of Procs may be started as either command.  Both hold the   *)
(* process lock from start to exit, so the lock is held exactly by the     *)
(* process whose pc is not "down"; the operating system drops it with the  *)
(* process.  A process keeps the state file in memory (mem) and writes it  *)
(* back at the points where the code saves it; everything else it knows is *)
(* lost when it halts.  Each action ends at the next write to a file or to *)
(* the network, so a halt can fall between any two of them.                *)
(*                                                                         *)
(* The server numbers the messages it accepts 1, 2, ...; log keeps all of  *)
(* them and floor is the number of the oldest ones that have expired.  A   *)
(* signed write whose nonce the room has already seen is refused.          *)
(***************************************************************************)
EXTENDS Naturals, Sequences

CONSTANTS
    Procs,          \* operating-system processes that may run a command
    MaxPeer,        \* bound: peers write only while the room is shorter
    MaxNonce,       \* the largest nonce the protocol admits (19 digits)
    PollLimit,      \* `run --limit`
    RecoverLimit,   \* read limit of recover-delivery (200)
    MayExpire       \* whether the room drops old messages

ASSUME ConstantsAssumption ==
    /\ MaxPeer \in Nat
    /\ MaxNonce \in Nat
    /\ PollLimit \in Nat \ {0}
    /\ RecoverLimit \in Nat \ {0}
    /\ MayExpire \in BOOLEAN

VARIABLES
    log,        \* server: every message the room accepted, by sequence
    floor,      \* server: messages 1..floor have expired
    late,       \* network: envelopes of abandoned requests, may still arrive
    disk,       \* file: cursor and nonce of safe-agent-state.json
    journal,    \* file: safe-agent-delivery.json
    audit,      \* file: the records of safe-agent-audit.jsonl
    torn,       \* file: the audit log ends with a partial record
    pc,         \* process: next step
    mem,        \* process: the AgentState in memory
    batch,      \* process: sequences of the snapshot not handled yet
    env,        \* process: input and nonce of the message being handled
    answer,     \* process: sequence of the acknowledged reply, 0 if none
    prepared,   \* history: every envelope ever journaled
    recovered,  \* history: inputs settled by recover-delivery
    history     \* history: tail of the room when bootstrap_latest started

serverVars == <<log, floor>>
fileVars == <<disk, journal, audit, torn>>
procVars == <<pc, mem, batch, env, answer>>
ghostVars == <<prepared, recovered, history>>
vars == <<log, floor, late, disk, journal, audit, torn, pc, mem, batch, env,
          answer, prepared, recovered, history>>

Envelope == [input : Nat, nonce : Nat]
Message == [kind : {"command", "other", "reply"}, input : Nat, nonce : Nat]
StateFile == [known : BOOLEAN, cursor : Nat, nonce : Nat]
DeliveryRecord ==
    [status : {"none", "pending", "acknowledged"},
     input : Nat, nonce : Nat, reply : Nat]
AuditRecord == [input : Nat, reply : Nat]
PC == {"down", "boot", "bootsave", "poll", "decide", "post", "await",
       "audit", "save", "clear",
       "inspect", "repost", "reawait", "finalize", "resave", "reclear"}

NoState == [known |-> FALSE, cursor |-> 0, nonce |-> 0]
NoEnvelope == [input |-> 0, nonce |-> 0]
NoDelivery == [status |-> "none", input |-> 0, nonce |-> 0, reply |-> 0]

Larger(a, b) == IF a >= b THEN a ELSE b

-----------------------------------------------------------------------------
(* The room server, as the client code and the interop checks use it. *)

Replies == {s \in DOMAIN log : log[s].kind = "reply"}

Landed(nonce) == \E s \in Replies : log[s].nonce = nonce

\* The newest `limit` retained messages after `since`.
Window(since, limit) ==
    {s \in DOMAIN log : s > floor /\ s > since /\ s + limit > Len(log)}

\* last_seq of a read: the tail of a non-empty window; an empty read echoes
\* `since`, or reports the tail when the tail moved over expired messages.
LastSeq(since, limit) ==
    IF Window(since, limit) # {} THEN {Len(log)} ELSE {since, Len(log)}

ReplyMessage(e) == [kind |-> "reply", input |-> e.input, nonce |-> e.nonce]

PeerPost(kind) ==
    /\ Len(log) < MaxPeer
    /\ log' = Append(log, [kind |-> kind, input |-> 0, nonce |-> 0])
    /\ UNCHANGED <<floor, late, fileVars, procVars, ghostVars>>

Expire ==
    /\ MayExpire
    /\ floor' \in (floor + 1) .. Len(log)
    /\ UNCHANGED <<log, late, fileVars, procVars, ghostVars>>

\* The server appends the write a process is waiting for and answers it.
Accept(p) ==
    /\ pc[p] \in {"await", "reawait"}
    /\ answer[p] = 0
    /\ ~Landed(env[p].nonce)
    /\ log' = Append(log, ReplyMessage(env[p]))
    /\ answer' = [answer EXCEPT ![p] = Len(log) + 1]
    /\ UNCHANGED <<floor, late, fileVars, pc, mem, batch, env, ghostVars>>

\* A write nobody waits for any more reaches the server after all.
AcceptLate(e) ==
    /\ e \in late
    /\ ~Landed(e.nonce)
    /\ log' = Append(log, ReplyMessage(e))
    /\ UNCHANGED <<floor, late, fileVars, procVars, ghostVars>>

-----------------------------------------------------------------------------
(* Process start: the lock, the state file, the journal, the audit log. *)

\* Mutant: the lock is not taken.
LockIgnored == TRUE

\* flock(LOCK_EX | LOCK_NB) succeeds only when no live process holds it.
LockFree == \A q \in Procs : pc[q] = "down"

\* Mutant: require_empty is left out.
JournalIgnored == TRUE

JournalEmpty == journal.status = "none"

\* SignedAuditLog.verify and the check that opens every append: the chain of
\* whole records is the agent's own, so only a partial record is refused.
AuditVerifies == ~torn

Start(p) ==
    /\ LockFree
    /\ JournalEmpty
    /\ AuditVerifies
    /\ mem' = [mem EXCEPT ![p] = disk]
    /\ \/ /\ disk.known                         \* a cursor is saved
          /\ pc' = [pc EXCEPT ![p] = "poll"]
          /\ UNCHANGED history
       \/ /\ ~disk.known                        \* --start-at zero
          /\ pc' = [pc EXCEPT ![p] = "poll"]
          /\ history' = 0
       \/ /\ ~disk.known                        \* --start-at latest
          /\ pc' = [pc EXCEPT ![p] = "boot"]
          /\ history' = Len(log)
    /\ UNCHANGED <<serverVars, late, fileVars, batch, env, answer, prepared,
                   recovered>>

\* Mutant: bootstrap leaves the newest message unread.
BootReadShort(p) ==
    /\ pc[p] = "boot"
    /\ \E last \in LastSeq(0, 1) : mem' = [mem EXCEPT ![p].cursor = last - 1]
    /\ pc' = [pc EXCEPT ![p] = "bootsave"]
    /\ UNCHANGED <<serverVars, late, fileVars, batch, env, answer, ghostVars>>

BootRead(p) ==
    /\ pc[p] = "boot"
    /\ \E last \in LastSeq(0, 1) : mem' = [mem EXCEPT ![p].cursor = last]
    /\ pc' = [pc EXCEPT ![p] = "bootsave"]
    /\ UNCHANGED <<serverVars, late, fileVars, batch, env, answer, ghostVars>>

\* AgentState.save: the whole in-memory state replaces the file atomically.
SaveState(p, cursor, nonce) ==
    LET state == [known |-> TRUE, cursor |-> cursor, nonce |-> nonce]
    IN  /\ mem' = [mem EXCEPT ![p] = state]
        /\ disk' = state

BootSave(p) ==
    /\ pc[p] = "bootsave"
    /\ SaveState(p, mem[p].cursor, mem[p].nonce)
    /\ pc' = [pc EXCEPT ![p] = "poll"]
    /\ UNCHANGED <<serverVars, late, journal, audit, torn, batch, env, answer,
                   ghostVars>>

-----------------------------------------------------------------------------
(* The polling responder. *)

Poll(p) ==
    /\ pc[p] = "poll"
    /\ Window(mem[p].cursor, PollLimit) # {}
    /\ batch' = [batch EXCEPT ![p] = Window(mem[p].cursor, PollLimit)]
    /\ pc' = [pc EXCEPT ![p] = "decide"]
    /\ UNCHANGED <<serverVars, late, fileVars, mem, env, answer, ghostVars>>

\* No readable message although the tail moved.
PollUnavailable(p) ==
    /\ pc[p] = "poll"
    /\ Window(mem[p].cursor, PollLimit) = {}
    /\ \E last \in LastSeq(mem[p].cursor, PollLimit) :
          /\ last > mem[p].cursor
          /\ SaveState(p, last, mem[p].nonce)
    /\ UNCHANGED <<serverVars, late, journal, audit, torn, pc, batch, env,
                   answer, ghostVars>>

IsNext(p, s) == s \in batch[p] /\ \A t \in batch[p] : s <= t

\* Mutant: only commands are recorded, anything else is passed over.
DeclineCommands(p) ==
    /\ pc[p] = "decide"
    /\ \E s \in batch[p] :
          /\ IsNext(p, s)
          /\ log[s].kind = "command"
          /\ env' = [env EXCEPT ![p] = [input |-> s, nonce |-> 0]]
    /\ pc' = [pc EXCEPT ![p] = "audit"]
    /\ UNCHANGED <<serverVars, late, fileVars, mem, batch, answer, ghostVars>>

\* The policy decides against a reply, or the receipt lookup fails.
Decline(p) ==
    /\ pc[p] = "decide"
    /\ \E s \in batch[p] :
          /\ IsNext(p, s)
          /\ env' = [env EXCEPT ![p] = [input |-> s, nonce |-> 0]]
    /\ pc' = [pc EXCEPT ![p] = "audit"]
    /\ UNCHANGED <<serverVars, late, fileVars, mem, batch, answer, ghostVars>>

NextNonce(p, clock) == Larger(clock, mem[p].nonce + 1)

\* The policy grants a reply: choose a nonce, sign, journal the envelope.
Reply(p) ==
    /\ pc[p] = "decide"
    /\ JournalEmpty
    /\ \E s \in batch[p], clock \in 0 .. MaxNonce :
          LET e == [input |-> s, nonce |-> NextNonce(p, clock)]
          IN  /\ IsNext(p, s)
              /\ log[s].kind = "command"
              /\ e.nonce <= MaxNonce
              /\ mem' = [mem EXCEPT ![p].nonce = e.nonce]
              /\ env' = [env EXCEPT ![p] = e]
              /\ journal' = [status |-> "pending", input |-> e.input,
                             nonce |-> e.nonce, reply |-> 0]
              /\ prepared' = prepared \cup {e}
    /\ pc' = [pc EXCEPT ![p] = "post"]
    /\ UNCHANGED <<serverVars, late, disk, audit, torn, batch, answer,
                   recovered, history>>

Post(p) ==
    /\ pc[p] = "post"
    /\ pc' = [pc EXCEPT ![p] = "await"]
    /\ UNCHANGED <<serverVars, late, fileVars, mem, batch, env, answer,
                   ghostVars>>

\* DeliveryJournal.acknowledge: reload, check, rewrite.
AcknowledgeJournal(seq) ==
    /\ journal.status # "none"
    /\ seq > journal.input
    /\ journal.status = "acknowledged" => journal.reply = seq
    /\ journal' = [journal EXCEPT !.status = "acknowledged", !.reply = seq]

Acknowledge(p) ==
    /\ pc[p] = "await"
    /\ answer[p] # 0
    /\ AcknowledgeJournal(answer[p])
    /\ pc' = [pc EXCEPT ![p] = "audit"]
    /\ UNCHANGED <<serverVars, late, disk, audit, torn, mem, batch, env,
                   answer, ghostVars>>

\* Mutant: a failed append is swallowed.
AppendAuditSwallowed(p) ==
    /\ pc[p] = "audit"
    /\ pc' = [pc EXCEPT ![p] = "save"]
    /\ UNCHANGED <<serverVars, late, fileVars, mem, batch, env, answer,
                   ghostVars>>

AppendAudit(p) ==
    /\ pc[p] = "audit"
    /\ AuditVerifies
    /\ audit' = audit \cup {[input |-> env[p].input, reply |-> answer[p]]}
    /\ pc' = [pc EXCEPT ![p] = "save"]
    /\ UNCHANGED <<serverVars, late, disk, journal, torn, mem, batch, env,
                   answer, ghostVars>>

\* process_snapshot goes on with the next message, or the poll loop resumes.
NextMessage(p) ==
    LET rest == batch[p] \ {env[p].input}
    IN  /\ batch' = [batch EXCEPT ![p] = rest]
        /\ env' = [env EXCEPT ![p] = NoEnvelope]
        /\ answer' = [answer EXCEPT ![p] = 0]
        /\ pc' = [pc EXCEPT ![p] = IF rest = {} THEN "poll" ELSE "decide"]

\* Mutant: the saved nonce is that of the message just handled.
SaveCursorOwnNonce(p) ==
    /\ pc[p] = "save"
    /\ SaveState(p, env[p].input, env[p].nonce)
    /\ \/ /\ answer[p] = 0
          /\ NextMessage(p)
       \/ /\ answer[p] # 0
          /\ pc' = [pc EXCEPT ![p] = "clear"]
          /\ UNCHANGED <<batch, env, answer>>
    /\ UNCHANGED <<serverVars, late, journal, audit, torn, ghostVars>>

SaveCursor(p) ==
    /\ pc[p] = "save"
    /\ SaveState(p, env[p].input, mem[p].nonce)
    /\ \/ /\ answer[p] = 0
          /\ NextMessage(p)
       \/ /\ answer[p] # 0
          /\ pc' = [pc EXCEPT ![p] = "clear"]
          /\ UNCHANGED <<batch, env, answer>>
    /\ UNCHANGED <<serverVars, late, journal, audit, torn, ghostVars>>

Clear(p) ==
    /\ pc[p] = "clear"
    /\ journal' = NoDelivery
    /\ NextMessage(p)
    /\ UNCHANGED <<serverVars, late, disk, audit, torn, mem, ghostVars>>

-----------------------------------------------------------------------------
\* The process is gone with everything it held in memory.
Exit(p) ==
    /\ pc' = [pc EXCEPT ![p] = "down"]
    /\ batch' = [batch EXCEPT ![p] = {}]
    /\ env' = [env EXCEPT ![p] = NoEnvelope]
    /\ answer' = [answer EXCEPT ![p] = 0]
    /\ mem' = [mem EXCEPT ![p] = NoState]

(* recover-delivery.  Without --apply it only reads, so it is not a step. *)

Recover(p) ==
    /\ LockFree
    /\ ~JournalEmpty
    /\ mem' = [mem EXCEPT ![p] = disk]
    /\ env' = [env EXCEPT ![p] = [input |-> journal.input,
                                  nonce |-> journal.nonce]]
    /\ answer' = [answer EXCEPT ![p] = journal.reply]
    /\ pc' = [pc EXCEPT ![p] = IF journal.status = "acknowledged"
                               THEN "finalize" ELSE "inspect"]
    /\ UNCHANGED <<serverVars, late, fileVars, batch, ghostVars>>

\* Mutant: the history must include the input itself.
IsCompleteWithInput(window, last, input) ==
    window # {} /\ last >= input /\ window = input .. last

\* Mutant: a truncated window passes for the whole history.
IsCompleteTruncated(window, last, input) ==
    \/ last = input /\ window = {}
    \/ window # {} /\ last >= input /\ window = (last + 1 - RecoverLimit) .. last

\* _is_complete_history over the window read after the input.
IsCompleteHistory(window, last, input) ==
    \/ last = input /\ window = {}
    \/ window # {} /\ last >= input /\ window = (input + 1) .. last

\* Mutant: any reply of the agent is taken for the journaled one.
MatchesAnyReply(window, e) == {s \in window : log[s].kind = "reply"}

Matches(window, e) ==
    {s \in window : log[s].kind = "reply" /\ log[s].nonce = e.nonce}

\* _recover_pending: decide from one read of the room.  Incomplete history,
\* duplicate records and an unconfirmed retry are only reported.
Inspect(p, confirmRetry) ==
    /\ pc[p] = "inspect"
    /\ LET window == Window(env[p].input, RecoverLimit)
           found == Matches(window, env[p])
       IN  \E last \in LastSeq(env[p].input, RecoverLimit) :
           LET complete == IsCompleteHistory(window, last, env[p].input)
               retry == complete /\ found = {} /\ confirmRetry
           IN  \/ /\ complete
                  /\ \E s \in window :
                        /\ found = {s}
                        /\ answer' = [answer EXCEPT ![p] = s]
                  /\ pc' = [pc EXCEPT ![p] = "finalize"]
                  /\ UNCHANGED <<mem, batch, env>>
               \/ /\ retry
                  /\ pc' = [pc EXCEPT ![p] = "repost"]
                  /\ UNCHANGED <<mem, batch, env, answer>>
               \/ /\ ~retry
                  /\ complete => \A s \in window : found # {s}
                  /\ Exit(p)
    /\ UNCHANGED <<serverVars, late, fileVars, ghostVars>>

\* Mutant: the retry signs a new envelope.
RepostResigned(p) ==
    /\ pc[p] = "repost"
    /\ pc' = [pc EXCEPT ![p] = "reawait"]
    /\ env' = [env EXCEPT ![p].nonce = env[p].nonce + 1]
    /\ UNCHANGED <<serverVars, late, fileVars, mem, batch, answer, ghostVars>>

\* _retry_exact_envelope: the journaled envelope, not a new one.
Repost(p) ==
    /\ pc[p] = "repost"
    /\ pc' = [pc EXCEPT ![p] = "reawait"]
    /\ UNCHANGED <<serverVars, late, fileVars, mem, batch, env, answer,
                   ghostVars>>

RetryAnswered(p) ==
    /\ pc[p] = "reawait"
    /\ answer[p] # 0
    /\ pc' = [pc EXCEPT ![p] = "finalize"]
    /\ UNCHANGED <<serverVars, late, fileVars, mem, batch, env, answer,
                   ghostVars>>

\* Mutant: recovery clears the journal without saving the state.
FinalizeUnsaved(p) ==
    /\ pc[p] = "finalize"
    /\ AcknowledgeJournal(answer[p])
    /\ pc' = [pc EXCEPT ![p] = "reclear"]
    /\ UNCHANGED <<serverVars, late, disk, audit, torn, mem, batch, env,
                   answer, ghostVars>>

Finalize(p) ==
    /\ pc[p] = "finalize"
    /\ AcknowledgeJournal(answer[p])
    /\ pc' = [pc EXCEPT ![p] = "resave"]
    /\ UNCHANGED <<serverVars, late, disk, audit, torn, mem, batch, env,
                   answer, ghostVars>>

\* Mutant: observe_nonce is left out of recovery.
RecoverSaveOldNonce(p) ==
    /\ pc[p] = "resave"
    /\ SaveState(p, Larger(mem[p].cursor, env[p].input), mem[p].nonce)
    /\ recovered' = recovered \cup {env[p].input}
    /\ pc' = [pc EXCEPT ![p] = "reclear"]
    /\ UNCHANGED <<serverVars, late, journal, audit, torn, batch, env, answer,
                   prepared, history>>

RecoverSave(p) ==
    /\ pc[p] = "resave"
    /\ SaveState(p, Larger(mem[p].cursor, env[p].input),
                    Larger(mem[p].nonce, env[p].nonce))
    /\ recovered' = recovered \cup {env[p].input}
    /\ pc' = [pc EXCEPT ![p] = "reclear"]
    /\ UNCHANGED <<serverVars, late, journal, audit, torn, batch, env, answer,
                   prepared, history>>

RecoverClear(p) ==
    /\ pc[p] = "reclear"
    /\ journal' = NoDelivery
    /\ Exit(p)
    /\ UNCHANGED <<serverVars, late, disk, audit, torn, ghostVars>>

-----------------------------------------------------------------------------
(* Every way out but the last step of recovery: an interrupt, a kill, an   *)
(* exception that main reports, an unanswered, refused or unverifiable     *)
(* write (UncertainWriteError), a failed save.  An abandoned request may   *)
(* still reach the server; an interrupted append may leave half a record.  *)

Halt(p) ==
    /\ pc[p] # "down"
    /\ late' = IF pc[p] \in {"await", "reawait"} /\ answer[p] = 0
               THEN late \cup {env[p]} ELSE late
    /\ torn' \in {torn, torn \/ pc[p] = "audit"}
    /\ Exit(p)
    /\ UNCHANGED <<serverVars, disk, journal, audit, ghostVars>>

-----------------------------------------------------------------------------
Init ==
    /\ log = <<>> /\ floor = 0 /\ late = {}
    /\ disk = NoState
    /\ journal = NoDelivery /\ audit = {} /\ torn = FALSE
    /\ pc = [p \in Procs |-> "down"]
    /\ mem = [p \in Procs |-> NoState]
    /\ batch = [p \in Procs |-> {}]
    /\ env = [p \in Procs |-> NoEnvelope]
    /\ answer = [p \in Procs |-> 0]
    /\ prepared = {} /\ recovered = {} /\ history = 0

RunStep(p) ==
    \/ BootRead(p) \/ BootSave(p) \/ Poll(p) \/ PollUnavailable(p)
    \/ Decline(p) \/ Reply(p) \/ Post(p) \/ Acknowledge(p)
    \/ AppendAudit(p) \/ SaveCursor(p) \/ Clear(p)

RecoverStep(p) ==
    \/ Repost(p) \/ RetryAnswered(p)
    \/ Finalize(p) \/ RecoverSave(p) \/ RecoverClear(p)

Environment ==
    \/ \E kind \in {"command", "other"} : PeerPost(kind)
    \/ Expire
    \/ \E e \in late : AcceptLate(e)

Next ==
    \/ Environment
    \/ \E p \in Procs :
          \/ Start(p) \/ Recover(p) \/ Halt(p) \/ Accept(p)
          \/ RunStep(p) \/ RecoverStep(p)
          \/ \E confirmRetry \in BOOLEAN : Inspect(p, confirmRetry)

Spec == Init /\ [][Next]_vars

\* The retry of a write that landed after all is refused by the server.
Refused(p) ==
    /\ pc[p] = "reawait" /\ answer[p] = 0 /\ Landed(env[p].nonce)
    /\ Halt(p)

-----------------------------------------------------------------------------
(* Properties. *)

Live(p) == pc[p] # "down"

Journaled(e) ==
    /\ journal.status # "none"
    /\ journal.input = e.input
    /\ journal.nonce = e.nonce

Delivered(e) ==
    \E s \in Replies : log[s].input = e.input /\ log[s].nonce = e.nonce

IsReplyTo(s, e) ==
    /\ s \in Replies
    /\ log[s].input = e.input
    /\ log[s].nonce = e.nonce

\* The shapes of the files, of a process and of the room.
TypeOK ==
    /\ log \in Seq(Message) /\ floor \in 0 .. Len(log)
    /\ late \subseteq Envelope /\ prepared \subseteq Envelope
    /\ disk \in StateFile /\ journal \in DeliveryRecord
    /\ audit \subseteq AuditRecord /\ torn \in BOOLEAN
    /\ pc \in [Procs -> PC]
    /\ mem \in [Procs -> StateFile]
    /\ batch \in [Procs -> SUBSET Nat]
    /\ env \in [Procs -> Envelope]
    /\ answer \in [Procs -> Nat]
    /\ recovered \subseteq Nat
    /\ history \in Nat

\* A command is never answered twice, whatever process handled it, retried it
\* or died while doing so ("so the command is not answered twice",
\* agent.py _send_text).
AtMostOneReply ==
    \A s, t \in Replies : log[s].input = log[t].input => s = t

\* A nonce is signed for one input only, although the responder saves its
\* nonce after the write and the clock may stand still or run backwards.
NonceNeverReused ==
    \A d, e \in prepared : d.nonce = e.nonce => d = e

\* An envelope that left the journal is in the room: neither a crash nor a
\* recovery that sees no reply ever drops a prepared reply silently.
ClearedIsDelivered ==
    \A e \in prepared :
        Journaled(e) \/ Delivered(e)

\* The acknowledgement the journal holds is the sequence under which the room
\* really holds the journaled envelope.
AcknowledgementIsTrue ==
    journal.status = "acknowledged" => IsReplyTo(journal.reply, journal)

\* Every delivered reply whose input the durable cursor has passed has an
\* audit record naming its sequence, unless recover-delivery settled it.
DeliveredIsAudited ==
    \A s \in Replies :
        log[s].input <= disk.cursor =>
            \/ log[s].input \in recovered
            \/ [input |-> log[s].input, reply |-> s] \in audit

\* First live startup at the tail: no message that was in the room before it
\* is ever answered, also when the room expired between read and save.
NoHistoricalReply ==
    \A s \in Replies : log[s].input > history

\* The state file never moves backwards: a process that loaded it earlier
\* never overwrites a newer cursor or nonce.
StateNeverRewinds ==
    [][disk'.cursor >= disk.cursor /\ disk'.nonce >= disk.nonce]_vars

\* The journal is cleared only when the acknowledgement and the cursor of the
\* triggering input are both durable (README, design rules).
ClearedAfterDurable ==
    [][(journal.status # "none" /\ journal'.status = "none") =>
           /\ journal.status = "acknowledged"
           /\ disk.cursor >= journal.input
           /\ disk.nonce >= journal.nonce]_vars

\* The detailed system implements the abstract promise.
Once == INSTANCE ReplyOnce WITH
            replies <- {[input |-> log[s].input, seq |-> s] : s \in Replies},
            settled <- disk.cursor

\* Refinement: at most one answer per input, and none after it is settled.
RefinesReplyOnce == Once!Spec

-----------------------------------------------------------------------------
(* The inductive invariant behind the safety properties. *)

\* Only envelopes that were journaled travel, and each lands at most once.
RoomInv ==
    /\ late \subseteq prepared
    /\ \A s \in Replies :
          /\ [input |-> log[s].input, nonce |-> log[s].nonce] \in prepared
          /\ log[s].input < s
    /\ \A s, t \in Replies : log[s].nonce = log[t].nonce => s = t

\* What the two private files together know about every envelope.
EnvelopeInv ==
    \A e \in prepared :
        /\ e.input \in 1 .. Len(log)
        /\ Journaled(e) \/ (Delivered(e) /\ e.input <= disk.cursor
                                        /\ e.nonce <= disk.nonce)
        /\ e.input > disk.cursor \/ Delivered(e)
        /\ \A d \in prepared :
              d.nonce = e.nonce \/ d.input = e.input => d = e

JournalInv ==
    /\ journal.status # "none" =>
          [input |-> journal.input, nonce |-> journal.nonce] \in prepared
    /\ journal.status = "pending" => journal.reply = 0
    /\ journal.status = "acknowledged" => IsReplyTo(journal.reply, journal)
    /\ ~disk.known => disk.cursor = 0

SameState(p) == mem[p].cursor = disk.cursor /\ mem[p].nonce = disk.nonce

\* Between two messages the journal is empty and memory equals the file.
IdleInv(p) ==
    /\ pc[p] = "down" => answer[p] = 0
    /\ pc[p] \in {"boot", "bootsave"} => ~disk.known
    /\ pc[p] \in {"boot", "bootsave", "poll", "decide"} =>
          /\ JournalEmpty
          /\ answer[p] = 0
          /\ mem[p].nonce = disk.nonce
    /\ pc[p] \in {"poll", "decide"} => mem[p].cursor = disk.cursor
    /\ pc[p] = "decide" =>
          \A s \in batch[p] : s \in 1 .. Len(log) /\ s > disk.cursor

\* While a message is handled, its input is next after the durable cursor and
\* a reply to it is the journaled one.
HandleInv(p) ==
    /\ pc[p] \in {"post", "await", "audit", "save", "clear"} =>
          /\ env[p].input \in 1 .. Len(log)
          /\ \A t \in batch[p] : t \in 1 .. Len(log) /\ t >= env[p].input
          /\ mem[p].nonce >= disk.nonce
    /\ pc[p] \in {"post", "await", "audit", "save"} =>
          env[p].input > disk.cursor
    /\ pc[p] \in {"post", "await"} =>
          journal.status = "pending" /\ Journaled(env[p])
          /\ mem[p].nonce = env[p].nonce
    /\ pc[p] = "post" => answer[p] = 0
    /\ pc[p] = "await" /\ answer[p] # 0 => IsReplyTo(answer[p], env[p])
    /\ pc[p] \in {"audit", "save"} /\ answer[p] = 0 =>
          JournalEmpty /\ mem[p].nonce = disk.nonce
    /\ pc[p] \in {"audit", "save", "clear"} /\ answer[p] # 0 =>
          /\ journal.status = "acknowledged" /\ Journaled(env[p])
          /\ IsReplyTo(answer[p], env[p])
          /\ mem[p].nonce = env[p].nonce
    /\ pc[p] = "save" =>
          [input |-> env[p].input, reply |-> answer[p]] \in audit
    /\ pc[p] = "clear" =>
          SameState(p) /\ answer[p] # 0 /\ disk.cursor = env[p].input

\* Recovery works on the journaled envelope only.
RecoverInv(p) ==
    /\ pc[p] \in {"inspect", "repost", "reawait", "finalize", "resave",
                  "reclear"} =>
          Journaled(env[p]) /\ SameState(p)
    /\ pc[p] \in {"inspect", "repost"} =>
          journal.status = "pending" /\ answer[p] = 0
    /\ pc[p] = "reawait" /\ answer[p] # 0 => IsReplyTo(answer[p], env[p])
    /\ pc[p] = "finalize" => IsReplyTo(answer[p], env[p])
    /\ pc[p] \in {"resave", "reclear"} => journal.status = "acknowledged"
    /\ pc[p] = "reclear" =>
          /\ disk.cursor >= env[p].input
          /\ disk.nonce >= env[p].nonce

OneLive == \A p, q \in Procs : Live(p) /\ Live(q) => p = q

\* The files, the room and the one live process agree: the write-ahead
\* discipline from which every safety property of this module follows.
AgentInv ==
    /\ TypeOK
    /\ OneLive
    /\ RoomInv
    /\ EnvelopeInv
    /\ JournalInv
    /\ DeliveredIsAudited
    /\ \A p \in Procs : IdleInv(p) /\ HandleInv(p) /\ RecoverInv(p)

Past(cursor) == cursor >= history \/ floor >= history

\* Why old messages stay unanswered: once a cursor is saved, what was in the
\* room at the first startup is behind the cursor or expired, and a running
\* process without a saved cursor was started at zero.
HistoryInv ==
    /\ history <= Len(log)
    /\ \A e \in prepared : e.input > history
    /\ disk.known => Past(disk.cursor)
    /\ \A p \in Procs :
          /\ pc[p] = "bootsave" => Past(mem[p].cursor)
          /\ pc[p] \in {"poll", "decide", "post", "await", "audit", "save",
                        "clear"} => disk.known \/ history = 0
          /\ pc[p] \in {"decide", "post", "await", "audit", "save", "clear"} =>
                \A s \in batch[p] : s > history

-----------------------------------------------------------------------------
(* Liveness, checked beside health probes (HealthProbe), and what recovery
   reports. *)

\* Liveness: with a complete room history, an operator who keeps running
\* recover-delivery gets the journal cleared, also when the original write
\* lands while the retry is under way.
RecoveryCompletes == journal.status # "none" ~> journal.status = "none"

\* Liveness: every message a peer writes is eventually behind the durable
\* cursor, unless a torn audit log keeps the agent from starting.
InputsSettle ==
    \A s \in 1 .. MaxPeer : Len(log) >= s ~> (disk.cursor >= s \/ torn)

\* `delivery_not_found` is reported, and a retry offered, only when no message
\* the room still holds is the journaled envelope, however the room grows and
\* expires around the one read that decides.  (README, Recover an interrupted
\* delivery, says "absent"; an expired reply is not seen.)
NotFoundIsUnretained ==
    [][\A p \in Procs :
          (pc[p] = "inspect" /\ pc'[p] = "repost") =>
              \A s \in Replies : log[s].nonce = env[p].nonce => s <= floor]_vars
=============================================================================
