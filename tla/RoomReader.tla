----------------------------- MODULE RoomReader -----------------------------
(***************************************************************************)
(* The polling loop of `run`: what the responder makes of the snapshots    *)
(* it reads while the room expires messages, is recreated or restored from *)
(* an older backup, and the network fails.                                 *)
(*                                                                         *)
(* Messages are their sequence numbers.  What is done with one (SafeAgent) *)
(* either ends in a save of cursor and generation or in an exception.      *)
(* Times are multiples of the shortest delay; generations count from one,  *)
(* and generation 0 is none.                                               *)
(***************************************************************************)
EXTENDS Integers, FiniteSetsExt

CONSTANTS
    MaxSeq,        \* bound: messages of a room
    MaxGen,        \* bound: generations of a room
    Limit,         \* --limit of a read
    RetryAfters,   \* cooldowns the server may ask for
    FirstBackoff,  \* 1 s
    MaxBackoff,    \* 30 s
    MinDelay,      \* 0.5 s
    MaxSleep,      \* 30 s
    Kills          \* whether the process may be killed at any moment

ASSUME RoomReaderAssumption ==
    /\ MaxSeq \in Nat /\ MaxGen \in Nat \ {0} /\ Limit \in Nat \ {0}
    /\ RetryAfters \subseteq Nat
    /\ FirstBackoff \in Nat \ {0} /\ MinDelay \in Nat \ {0}
    /\ MaxBackoff \in Nat /\ MaxBackoff >= FirstBackoff
    /\ MaxSleep \in Nat \ {0}
    /\ Kills \in BOOLEAN

VARIABLES
    room,      \* server: generation, newest and last expired sequence
    disk,      \* file: the room's entries in the state file
    mem,       \* process: the same in memory
    pc,        \* process: next step
    batch,     \* process: the snapshot it works on
    backoff,   \* process: the next delay without a Retry-After
    remaining, \* process: time until the deadline of the current delay
    events,    \* process: sequences named by events not printed yet
    reported,  \* history: sequences named by printed events
    passed,    \* history: sequences passed over unhandled in this life
    hidden,    \* history: those that were passed over and never reported
    source,    \* history: generation in which the durable cursor was reached
    owed       \* history: time the server still asked to wait

processVars == <<mem, pc, batch, backoff, remaining, events>>
historyVars == <<reported, passed, hidden, source, owed>>
vars == <<room, disk, processVars, historyVars>>

Seqs == 1 .. MaxSeq
Entries == [known : BOOLEAN, cursor : 0 .. MaxSeq, gen : 0 .. MaxGen]
NoEntries == [known |-> FALSE, cursor |-> 0, gen |-> 0]
NoBatch == [left |-> {}, last |-> 0, gen |-> 0, handled |-> FALSE,
            save |-> FALSE]

-----------------------------------------------------------------------------
(* The room server. *)

Post ==
    /\ room.tail < MaxSeq
    /\ room' = [room EXCEPT !.tail = @ + 1]
    /\ UNCHANGED <<disk, processVars, historyVars>>

Expire ==
    /\ \E f \in (room.floor + 1) .. room.tail : room' = [room EXCEPT !.floor = f]
    /\ UNCHANGED <<disk, processVars, historyVars>>

Recreate ==
    /\ room.gen < MaxGen
    /\ room' = [gen |-> room.gen + 1, tail |-> 0, floor |-> 0]
    /\ UNCHANGED <<disk, processVars, historyVars>>

\* An older backup takes the place of the room, or a cache answers for it.
Restore ==
    /\ \E g \in 1 .. room.gen, t \in 0 .. MaxSeq :
          /\ g = room.gen => t < room.tail
          /\ room' = [gen |-> g, tail |-> t, floor |-> Min({room.floor, t})]
    /\ UNCHANGED <<disk, processVars, historyVars>>

\* The newest messages after since, at most limit of them.
Newest(since, limit) ==
    {s \in Seqs : s > since /\ s > room.floor /\ s <= room.tail
                  /\ s + limit > room.tail}

\* An empty answer names the tail or echoes since, also when the tail is below.
LastSeq(since, limit) ==
    IF Newest(since, limit) # {} THEN {room.tail} ELSE {since, room.tail}

-----------------------------------------------------------------------------
(* Startup *)

Stop ==
    /\ pc' = "idle"
    /\ mem' = NoEntries /\ batch' = NoBatch /\ events' = {}
    /\ backoff' = FirstBackoff /\ remaining' = 0 /\ owed' = 0
    /\ hidden' = hidden \cup (passed \ reported) /\ passed' = {}
    /\ UNCHANGED <<reported, source>>

\* AgentState.load; without a saved cursor --start-at is latest or zero.
Start ==
    /\ pc = "idle"
    /\ mem' = disk
    /\ pc' \in {"read"} \cup (IF disk.known THEN {} ELSE {"boot"})
    /\ UNCHANGED <<room, disk, batch, backoff, remaining, events, historyVars>>

\* Mutant: a generation that moved backwards is taken over.
GenerationAny == TRUE

\* observe_generation refuses to go back.
GenerationOK == room.gen >= mem.gen

Save(entries) ==
    /\ mem' = entries
    /\ disk' = entries
    /\ source' = batch.gen

\* bootstrap_latest
Boot ==
    /\ pc = "boot"
    /\ GenerationOK
    /\ \E last \in LastSeq(0, 1) :
          /\ mem' = [known |-> TRUE, cursor |-> last, gen |-> room.gen]
          /\ disk' = mem'
    /\ source' = room.gen
    /\ pc' = "read"
    /\ UNCHANGED <<room, batch, backoff, remaining, events, reported, passed,
                   hidden, owed>>

-----------------------------------------------------------------------------
(* _poll: one read and its failures *)

\* Mutant: the new generation is forgotten.
UnobservedGeneration == mem

\* observe_generation remembers the generation before any message is handled.
ObservedGeneration == [mem EXCEPT !.gen = room.gen]

\* The snapshot is accepted: its checkpoint is not behind the cursor and its
\* generation not behind the known one.  Otherwise the process ends (Refuse).
Answer ==
    /\ pc = "read"
    /\ GenerationOK
    /\ \E last \in LastSeq(mem.cursor, Limit) :
          LET new == Newest(mem.cursor, Limit)
              gap == IF new = {} THEN {} ELSE (mem.cursor + 1) .. (Min(new) - 1)
          IN  /\ last >= mem.cursor
              /\ batch' = [left |-> new, last |-> last, gen |-> room.gen,
                           handled |-> FALSE, save |-> mem.gen # room.gen]
              /\ events' = gap
    /\ mem' = ObservedGeneration
    /\ pc' = "handle"
    /\ UNCHANGED <<room, disk, backoff, remaining, historyVars>>

Refuse ==
    /\ \/ /\ pc = "read"
          /\ ~GenerationOK \/ \E last \in LastSeq(mem.cursor, Limit) : last < mem.cursor
       \/ pc = "boot" /\ ~GenerationOK
    /\ Stop
    /\ UNCHANGED <<room, disk>>

\* Mutant: the backoff grows without bound.
UncappedBackoff == backoff * 2

NextBackoff == Min({backoff * 2, MaxBackoff})

\* TransportError, with or without a Retry-After
Unavailable ==
    /\ pc = "read"
    /\ \E asked \in RetryAfters \cup {-1} :
          /\ remaining' = Max({IF asked >= 0 THEN asked ELSE backoff, MinDelay})
          /\ owed' = Max({asked, 0})
    /\ backoff' = NextBackoff
    /\ pc' = "sleep"
    /\ UNCHANGED <<room, disk, mem, batch, events, reported, passed, hidden, source>>

\* Mutant: one bounded sleep, whatever the deadline.
RestNone(chunk) == 0

\* Mutant: the deadline is computed anew after every sleep.
RestAnew(chunk) == IF chunk = remaining THEN 0 ELSE remaining

Rest(chunk) == remaining - chunk

\* Each sleep is bounded, the delay is not.
Sleep ==
    LET chunk == Min({remaining, MaxSleep})
    IN  /\ pc = "sleep"
        /\ remaining' = Rest(chunk)
        /\ owed' = Max({owed - chunk, 0})
        /\ pc' = IF Rest(chunk) = 0 THEN "read" ELSE "sleep"
        /\ UNCHANGED <<room, disk, mem, batch, backoff, events, reported, passed,
                       hidden, source>>

-----------------------------------------------------------------------------
(* process_snapshot *)

\* One message is decided, answered or not, and its sequence saved.
Handle ==
    /\ pc = "handle"
    /\ batch.left # {}
    /\ LET s == Min(batch.left)
       IN  /\ Save([mem EXCEPT !.known = TRUE, !.cursor = s])
           /\ passed' = passed \cup ((mem.cursor + 1) .. (s - 1))
           /\ batch' = [batch EXCEPT !.left = @ \ {s}, !.handled = TRUE,
                                     !.save = FALSE]
    /\ UNCHANGED <<room, pc, backoff, remaining, events, reported, hidden, owed>>

\* An uncertain write, or any other exception, while a message is handled.
HandleFails ==
    /\ pc = "handle"
    /\ batch.left # {}
    /\ Stop
    /\ UNCHANGED <<room, disk>>

\* Mutant: the skip over unavailable messages makes no event.
NoSkipEvent == events

\* cursor_advanced_over_unavailable_messages
SkipEvent == events \cup ((mem.cursor + 1) .. batch.last)

\* Nothing readable but a newer checkpoint: the cursor moves over it.  A new
\* generation is saved if no message was.
EndBatch ==
    /\ pc = "handle"
    /\ batch.left = {}
    /\ IF ~batch.handled /\ batch.last > mem.cursor
         THEN /\ Save([mem EXCEPT !.known = TRUE, !.cursor = batch.last])
              /\ passed' = passed \cup ((mem.cursor + 1) .. batch.last)
              /\ events' = SkipEvent
         ELSE /\ disk' = IF batch.save THEN mem ELSE disk
              /\ UNCHANGED <<mem, passed, events, source>>
    /\ pc' = "print"
    /\ UNCHANGED <<room, batch, backoff, remaining, reported, hidden, owed>>

\* _poll prints the events that process_snapshot returned.
PrintEvents ==
    /\ pc = "print"
    /\ reported' = reported \cup events
    /\ events' = {} /\ batch' = NoBatch
    /\ backoff' = FirstBackoff
    /\ pc' = "read"
    /\ UNCHANGED <<room, disk, mem, remaining, passed, hidden, source, owed>>

Kill ==
    /\ Kills
    /\ pc # "idle"
    /\ Stop
    /\ UNCHANGED <<room, disk>>

-----------------------------------------------------------------------------
Init ==
    /\ room = [gen |-> 1, tail |-> 0, floor |-> 0]
    /\ disk = NoEntries
    /\ mem = NoEntries /\ pc = "idle" /\ batch = NoBatch /\ events = {}
    /\ backoff = FirstBackoff /\ remaining = 0
    /\ reported = {} /\ passed = {} /\ hidden = {} /\ source = 0 /\ owed = 0

Work == Sleep \/ Handle \/ EndBatch \/ PrintEvents

Next ==
    \/ Post \/ Expire \/ Recreate \/ Restore
    \/ Start \/ Boot \/ Answer \/ Refuse \/ Unavailable \/ Work
    \/ HandleFails \/ Kill

Spec == Init /\ [][Next]_vars

\* The process takes its next step, and a server that is asked again and again
\* at last answers.
FairSpec == Spec /\ WF_vars(Work) /\ WF_vars(Boot) /\ SF_vars(Answer \/ Refuse)

-----------------------------------------------------------------------------
(* Properties *)

\* The shapes of room, file and process.
TypeOK ==
    /\ room \in [gen : 1 .. MaxGen, tail : 0 .. MaxSeq, floor : 0 .. MaxSeq]
    /\ disk \in Entries /\ mem \in Entries
    /\ pc \in {"idle", "boot", "read", "sleep", "handle", "print"}
    /\ batch.left \subseteq Seqs
    /\ backoff \in FirstBackoff .. MaxBackoff
    /\ remaining \in Nat /\ owed \in Nat
    /\ events \subseteq Seqs /\ reported \subseteq Seqs
    /\ passed \subseteq Seqs /\ hidden \subseteq Seqs
    /\ source \in 0 .. MaxGen

\* Neither a restored room, nor a cache, nor a restart moves the durable cursor
\* or generation back.
NeverRewinds ==
    [][disk'.cursor >= disk.cursor /\ disk'.gen >= disk.gen]_vars

\* The state file never holds a cursor reached in a generation newer than the
\* one it names, however a batch ends: a later rollback of the room to the
\* generation in the file cannot pass for the room the cursor belongs to.
CursorNamesItsGeneration == source <= disk.gen

\* A running responder has an event for every sequence it passes over without
\* handling it, be it expired, beyond the read limit or overtaken.
SkipsAreKnown == passed \subseteq events \cup reported

\* No read comes before the cooldown the server asked for is over, however
\* long it is and however the sleep is divided.
RetryAfterRespected == pc = "read" => owed = 0

\* A responder that stays up gets past every message, unless the message
\* expires or the room is put back before it.
CatchesUp ==
    \A s \in Seqs :
        pc # "idle" /\ room.tail >= s
            ~> mem.cursor >= s \/ pc = "idle" \/ room.tail < s \/ room.floor >= s

\* Retention gaps are surfaced as events instead of being hidden.
GapsSurface == hidden = {}

-----------------------------------------------------------------------------
(* The inductive invariant behind the safety properties. *)

\* While a snapshot is worked on, memory is the file but for a generation that
\* is still to be saved; at any other time it is the file.
MemoryInv ==
    /\ pc \in {"boot", "read", "sleep", "print"} => mem = disk
    /\ pc = "boot" => ~disk.known
    /\ ~disk.known => disk.cursor = 0
    /\ pc = "handle" =>
          /\ mem = [disk EXCEPT !.gen = mem.gen]
          /\ disk.gen <= mem.gen /\ mem.gen = batch.gen
          /\ disk.gen # mem.gen => batch.save

\* A sequence between the cursor and a message still to be handled is itself
\* still to be handled or named by an event.
BatchInv ==
    pc = "handle" =>
        \A s \in batch.left :
            /\ s > mem.cursor
            /\ (mem.cursor + 1) .. s \subseteq batch.left \cup events

\* No more is owed to the server than is left of the delay.
DelayInv == IF pc = "sleep" THEN owed <= remaining ELSE owed = 0

\* Room, file, process and history agree, whatever the room did meanwhile.
ReaderInv ==
    /\ TypeOK
    /\ batch \in [left : SUBSET Seqs, last : 0 .. MaxSeq, gen : 0 .. MaxGen,
                  handled : BOOLEAN, save : BOOLEAN]
    /\ MemoryInv /\ BatchInv /\ DelayInv
    /\ pc \in {"idle", "boot", "read", "sleep"} => events = {}
    /\ CursorNamesItsGeneration
    /\ SkipsAreKnown

=============================================================================
