------------------------------ MODULE Provision ------------------------------
(***************************************************************************)
(* `provision` and `recover`: the one-time creation of a mailbox, its      *)
(* pending and active configuration, and the state file these commands     *)
(* share with the live responder.                                          *)
(*                                                                         *)
(* A provisioning draws a random room and a nonce; the number of the room  *)
(* stands for both, and for the online marker signed with them.  Neither   *)
(* command takes the process lock.  The responder appears only by what it  *)
(* does to the state file: it starts once the configuration is active and  *)
(* saves an ever larger cursor and nonce.                                  *)
(***************************************************************************)
EXTENDS Naturals, Sequences

CONSTANTS
    Procs,      \* processes that may run provision or recover
    Agent,      \* the process of the live responder
    MaxRooms,   \* bound: mailboxes drawn
    MaxPeer,    \* bound: peers write only while a room is shorter
    ReadLimit,  \* read limit of recover (200)
    MayExpire,  \* whether rooms drop old messages
    Teams       \* the sets of processes that may run beside one another

ASSUME ProvisionAssumption ==
    /\ Agent \notin Procs
    /\ MaxRooms \in Nat /\ MaxPeer \in Nat /\ ReadLimit \in Nat \ {0}
    /\ MayExpire \in BOOLEAN /\ Teams \subseteq SUBSET (Procs \cup {Agent})

VARIABLES
    log,        \* server: the messages of every room, by sequence
    floor,      \* server: messages 1..floor[r] of room r have expired
    late,       \* network: rooms whose abandoned marker may still arrive
    config,     \* file: safe-agent-config.json
    saved,      \* file: cursor and nonce of every room in the state file
    rooms,      \* the number of rooms drawn
    pc,         \* process: next step
    mine,       \* process: the room of the pending config in memory
    answer,     \* process: sequence of the acknowledged marker, 0 if none
    mem,        \* process: the AgentState in memory
    raced       \* history: a config was written while a second command was
                \* between its look for the file and its replacement

serverVars == <<log, floor, late>>
fileVars == <<config, saved>>
vars == <<log, floor, late, config, saved, rooms, pc, mine, answer, mem, raced>>

Rooms == 1 .. MaxRooms
RoomState == [known : BOOLEAN, cursor : Nat, nonce : Nat]
StateFile == [Rooms -> RoomState]
NoRoomState == [known |-> FALSE, cursor |-> 0, nonce |-> 0]

\* AgentConfig.validate: an active configuration has a positive sequence.
AgentConfig ==
    {c \in [room : 0 .. MaxRooms, status : {"none", "pending", "active"},
            seq : Nat] : c.status = "active" => c.seq > 0}
NoConfig == [room |-> 0, status |-> "none", seq |-> 0]

PC == {"idle", "check", "write", "post", "await", "inspect", "confirm",
       "activate", "load", "save", "boot", "run", "absent"}

\* Nonces of the responder are later than the provisioning nonce.
ProvisionNonce == 1

Goto(p, step) == pc' = [pc EXCEPT ![p] = step]

NoMemory == [r \in Rooms |-> NoRoomState]

\* The process ends, and its memory with it.
Exit(p) ==
    /\ Goto(p, "idle")
    /\ mine' = [mine EXCEPT ![p] = 0]
    /\ answer' = [answer EXCEPT ![p] = 0]
    /\ mem' = [mem EXCEPT ![p] = NoMemory]

-----------------------------------------------------------------------------
(* The room server. *)

Online(r) == {s \in DOMAIN log[r] : log[r][s] = "online"}

PeerPost(r) ==
    /\ r <= rooms
    /\ Len(log[r]) < MaxPeer
    /\ log' = [log EXCEPT ![r] = Append(@, "peer")]
    /\ UNCHANGED <<floor, late, fileVars, rooms, pc, mine, answer, mem, raced>>

Expire(r) ==
    /\ MayExpire
    /\ \E f \in (floor[r] + 1) .. Len(log[r]) : floor' = [floor EXCEPT ![r] = f]
    /\ UNCHANGED <<log, late, fileVars, rooms, pc, mine, answer, mem, raced>>

\* A marker is accepted once: its nonce must be new to the room.
AcceptOnline(r) ==
    /\ Online(r) = {}
    /\ log' = [log EXCEPT ![r] = Append(@, "online")]

Accept(p) ==
    /\ pc[p] = "await"
    /\ answer[p] = 0
    /\ AcceptOnline(mine[p])
    /\ answer' = [answer EXCEPT ![p] = Len(log[mine[p]]) + 1]
    /\ UNCHANGED <<floor, late, fileVars, rooms, pc, mine, mem, raced>>

AcceptLate(r) ==
    /\ r \in late
    /\ AcceptOnline(r)
    /\ UNCHANGED <<floor, late, fileVars, rooms, pc, mine, answer, mem, raced>>

-----------------------------------------------------------------------------
(* provision_mailbox *)

\* AgentConfig.save_new and _atomic_json_write look for the file.
ConfigMissing == config = NoConfig

Provision(p) ==
    /\ pc[p] = "idle"
    /\ ConfigMissing
    /\ rooms < MaxRooms
    /\ rooms' = rooms + 1
    /\ mine' = [mine EXCEPT ![p] = rooms + 1]
    /\ answer' = [answer EXCEPT ![p] = 0]
    /\ Goto(p, "check")
    /\ UNCHANGED <<serverVars, fileVars, mem, raced>>

\* Mutant: only provision_mailbox looks, before anything is written.
CheckNothing(p) ==
    /\ pc[p] = "check"
    /\ Goto(p, "write")
    /\ UNCHANGED <<serverVars, fileVars, rooms, mine, answer, mem, raced>>

\* The second look, after the temporary file is written.
CheckNew(p) ==
    /\ pc[p] = "check"
    /\ ConfigMissing
    /\ Goto(p, "write")
    /\ UNCHANGED <<serverVars, fileVars, rooms, mine, answer, mem, raced>>

\* os.replace, which does not look.
WritePending(p) ==
    /\ pc[p] = "write"
    /\ config' = [room |-> mine[p], status |-> "pending", seq |-> 0]
    /\ raced' = (raced \/ \E q \in Procs \ {p} : pc[q] = "write")
    /\ Goto(p, "post")
    /\ UNCHANGED <<serverVars, saved, rooms, mine, answer, mem>>

\* send_signed_message, of provision and of a confirmed retry
Post(p) ==
    /\ pc[p] = "post"
    /\ Goto(p, "await")
    /\ UNCHANGED <<serverVars, fileVars, rooms, mine, answer, mem, raced>>

Answered(p) ==
    /\ pc[p] = "await"
    /\ answer[p] > 0
    /\ Goto(p, "activate")
    /\ UNCHANGED <<serverVars, fileVars, rooms, mine, answer, mem, raced>>

-----------------------------------------------------------------------------
(* _activate *)

Activate(p) ==
    /\ pc[p] = "activate"
    /\ config' = [room |-> mine[p], status |-> "active", seq |-> answer[p]]
    /\ Goto(p, "load")
    /\ UNCHANGED <<serverVars, saved, rooms, mine, answer, mem, raced>>

\* advance_cursor refuses to go back; the command ends with an error.
LoadState(p) ==
    /\ pc[p] = "load"
    /\ saved[mine[p]].cursor <= answer[p]
    /\ mem' = [mem EXCEPT ![p] =
                  [saved EXCEPT ![mine[p]] =
                      [known |-> TRUE, cursor |-> answer[p],
                       nonce |-> ProvisionNonce]]]
    /\ Goto(p, "save")
    /\ UNCHANGED <<serverVars, fileVars, rooms, mine, answer, raced>>

SaveState(p) ==
    /\ pc[p] = "save"
    /\ saved' = mem[p]
    /\ Exit(p)
    /\ UNCHANGED <<serverVars, config, rooms, raced>>

-----------------------------------------------------------------------------
(* recover_pending_mailbox *)

LoadPending(p, retry) ==
    /\ pc[p] = "idle"
    /\ config.status = "pending"
    /\ mine' = [mine EXCEPT ![p] = config.room]
    /\ answer' = [answer EXCEPT ![p] = 0]
    /\ Goto(p, IF retry THEN "confirm" ELSE "inspect")
    /\ UNCHANGED <<serverVars, fileVars, rooms, mem, raced>>

\* The newest messages the room still has, at most ReadLimit of them.
Snapshot(r) ==
    {s \in DOMAIN log[r] : s > floor[r] /\ s + ReadLimit > Len(log[r])}

\* last_seq of an empty read echoes since = 0, or is the tail.
LastSeq(r) == IF Snapshot(r) # {} THEN {Len(log[r])} ELSE {0, Len(log[r])}

\* Mutant: any message of the room is taken for the marker.
MatchesAny(r) == Snapshot(r)

Matches(r) == Snapshot(r) \cap Online(r)

\* Mutant: an empty room is not complete history.
CompleteNonEmpty(r, last) == Snapshot(r) # {} /\ Snapshot(r) = 1 .. last

CompleteHistory(r, last) ==
    \/ last = 0
    \/ Snapshot(r) # {} /\ Snapshot(r) = 1 .. last

\* A matching write is activated; a confirmed retry of a write that is absent
\* from complete history goes on to send; anything else is only reported.
Inspect(p) ==
    /\ pc[p] \in {"inspect", "confirm"}
    /\ \/ \E s \in Matches(mine[p]) :
             /\ answer' = [answer EXCEPT ![p] = s]
             /\ Goto(p, "activate")
             /\ UNCHANGED <<mine, mem>>
       \/ /\ Matches(mine[p]) = {}
          /\ pc[p] = "confirm"
          /\ \E last \in LastSeq(mine[p]) : CompleteHistory(mine[p], last)
          /\ Goto(p, "post")
          /\ UNCHANGED <<mine, answer, mem>>
       \/ /\ Matches(mine[p]) = {}
          /\ \/ pc[p] = "inspect"
             \/ \E last \in LastSeq(mine[p]) : ~CompleteHistory(mine[p], last)
          /\ Exit(p)
    /\ UNCHANGED <<serverVars, fileVars, rooms, raced>>

\* A command ends early: a refusal, an error, a timeout or a crash.  A marker
\* whose answer is not in yet may still arrive.
Halt(p) ==
    /\ pc[p] \notin {"idle", "absent"}
    /\ late' = IF pc[p] = "await" THEN late \cup {mine[p]} ELSE late
    /\ Exit(p)
    /\ UNCHANGED <<log, floor, fileVars, rooms, raced>>

-----------------------------------------------------------------------------
(* The live responder's use of the two files. *)

\* _load_active_config, AgentState.load; without a saved cursor the operator
\* chooses --start-at latest or zero.
RunStart ==
    /\ pc[Agent] = "idle"
    /\ config.status = "active"
    /\ mine' = [mine EXCEPT ![Agent] = config.room]
    /\ mem' = [mem EXCEPT ![Agent] = saved]
    /\ \/ Goto(Agent, "run")
       \/ ~saved[config.room].known /\ Goto(Agent, "boot")
    /\ UNCHANGED <<serverVars, fileVars, rooms, answer, raced>>

AgentSaves(state) ==
    /\ mem' = [mem EXCEPT ![Agent] = [@ EXCEPT ![mine[Agent]] = state]]
    /\ saved' = [mem[Agent] EXCEPT ![mine[Agent]] = state]

\* bootstrap_latest
RunBoot ==
    /\ pc[Agent] = "boot"
    /\ AgentSaves([known |-> TRUE, cursor |-> Len(log[mine[Agent]]),
                   nonce |-> mem[Agent][mine[Agent]].nonce])
    /\ Goto(Agent, "run")
    /\ UNCHANGED <<serverVars, config, rooms, mine, answer, raced>>

\* One message is passed over or answered; cursor and nonce are saved.
RunProcess ==
    LET state == mem[Agent][mine[Agent]]
    IN  /\ pc[Agent] = "run"
        /\ state.cursor < Len(log[mine[Agent]])
        /\ \E nonce \in {state.nonce, state.cursor + ProvisionNonce + 1} :
              AgentSaves([known |-> TRUE, cursor |-> state.cursor + 1,
                          nonce |-> nonce])
        /\ UNCHANGED <<serverVars, config, rooms, pc, mine, answer, raced>>

-----------------------------------------------------------------------------
Init ==
    /\ log = [r \in Rooms |-> << >>]
    /\ floor = [r \in Rooms |-> 0]
    /\ late = {}
    /\ config = NoConfig
    /\ saved = NoMemory
    /\ rooms = 0
    /\ \E team \in Teams :
          pc = [p \in Procs \cup {Agent} |->
                   IF p \in team THEN "idle" ELSE "absent"]
    /\ mine = [p \in Procs \cup {Agent} |-> 0]
    /\ answer = [p \in Procs \cup {Agent} |-> 0]
    /\ mem = [p \in Procs \cup {Agent} |-> NoMemory]
    /\ raced = FALSE

Command(p) ==
    \/ CheckNew(p) \/ WritePending(p) \/ Post(p) \/ Answered(p)
    \/ Activate(p) \/ LoadState(p) \/ SaveState(p) \/ Inspect(p)

Server ==
    \/ \E r \in Rooms : PeerPost(r) \/ Expire(r) \/ AcceptLate(r)
    \/ \E p \in Procs : Accept(p)

Next ==
    \/ Server
    \/ \E p \in Procs : \/ Provision(p) \/ \E retry \in BOOLEAN : LoadPending(p, retry)
                        \/ Command(p) \/ Halt(p)
    \/ RunStart \/ RunBoot \/ RunProcess \/ Halt(Agent)

Spec == Init /\ [][Next]_vars
-----------------------------------------------------------------------------
(* Properties *)

\* The shapes of server, files and processes; every configuration on disk is
\* one that AgentConfig.load accepts.
TypeOK ==
    /\ log \in [Rooms -> Seq({"online", "peer"})]
    /\ floor \in [Rooms -> Nat]
    /\ late \subseteq Rooms
    /\ config \in AgentConfig
    /\ saved \in StateFile
    /\ rooms \in 0 .. MaxRooms
    /\ pc \in [Procs \cup {Agent} -> PC]
    /\ mine \in [Procs \cup {Agent} -> 0 .. MaxRooms]
    /\ answer \in [Procs \cup {Agent} -> Nat]
    /\ mem \in [Procs \cup {Agent} -> StateFile]
    /\ raced \in BOOLEAN

\* An active configuration names a room in which the server holds the signed
\* online marker at exactly the provisioned sequence, whichever mixture of
\* provisionings and recoveries, crashed or racing, wrote it.
ActiveIsPosted ==
    config.status = "active" => config.seq \in Online(config.room)

\* A configuration, once written, keeps its room, and once active it never
\* changes, whichever provisionings and recoveries run, crash and are repeated
\* beside each other ("refusing to overwrite existing agent config",
\* config.py).  One window is excepted: os.replace does not look, so of two
\* commands that looked before either replaced the file, the second replaces
\* the mailbox of the first, and both may activate.
ConfigKept ==
    [][~raced' =>
          /\ config # NoConfig => config'.room = config.room
          /\ config.status = "active" => config' = config]_vars

\* The server answers a marker it already holds with a refusal.
Refused(p) ==
    /\ pc[p] = "await" /\ answer[p] = 0 /\ Online(mine[p]) # {}
    /\ Halt(p)

\* A command takes its next step or times out; the operator confirms the
\* retry of a pending mailbox; interruptions cease.
FairSpec ==
    /\ Spec
    /\ \A p \in Procs :
          /\ WF_vars(Command(p)) /\ WF_vars(Accept(p)) /\ WF_vars(Refused(p))
          /\ SF_vars(LoadPending(p, TRUE))
    /\ <>[][\A p \in Procs : Halt(p) => Refused(p) \/ Command(p)]_vars

\* A mailbox left pending by an uncertain write can always be resolved while
\* its whole history can be read: the inspection finds the marker, or proves it
\* absent and the retry posts it.
PendingResolves ==
    config.status = "pending" ~>
        \/ config.status = "active"
        \/ config.room \in Rooms
           /\ Snapshot(config.room) # DOMAIN log[config.room]

-----------------------------------------------------------------------------
(* The inductive invariant of the proofs. *)

\* A command at work, and a configuration, are about a room that was drawn.
RoomsDrawn ==
    /\ \A p \in Procs \cup {Agent} :
          pc[p] \notin {"idle", "absent"} => mine[p] \in Rooms
    /\ config.status # "none" => config.room \in Rooms

\* An acknowledged or recovered sequence is where the marker is.
AnswerIsTrue ==
    \A p \in Procs :
        /\ answer[p] > 0 => mine[p] \in Rooms /\ answer[p] \in Online(mine[p])
        /\ pc[p] = "activate" => answer[p] > 0

ProvisionInv == TypeOK /\ RoomsDrawn /\ AnswerIsTrue /\ ActiveIsPosted

\* The server holds at most one marker of a room.
OneMarker == \A r \in Rooms : \A i, j \in Online(r) : i = j

\* What a command knows about the file until two have raced: it is missing when
\* it is about to be written, and about the command's own room from then on,
\* pending or activated by another command.
FileInv ==
    ~raced =>
        \A p \in Procs :
            /\ pc[p] = "write" => config = NoConfig
            /\ pc[p] \in {"post", "await", "inspect", "confirm", "activate"} =>
                  config # NoConfig /\ config.room = mine[p]

=============================================================================
