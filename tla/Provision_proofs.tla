--------------------------- MODULE Provision_proofs ---------------------------
(* Proofs about Provision for every set of processes, every bound and every *)
(* read limit, with and without expiry and a live responder.                *)
EXTENDS Provision, TLAPS

\* What the acceptance of one more message does to the rooms.
LEMMA AppendFacts ==
    ASSUME NEW r \in Rooms, NEW m \in {"online", "peer"},
           log \in [Rooms -> Seq({"online", "peer"})],
           log' = [log EXCEPT ![r] = Append(log[r], m)]
    PROVE  /\ log' \in [Rooms -> Seq({"online", "peer"})]
           /\ Len(log[r]) \in Nat
           /\ \A q \in Rooms : Online(q) \subseteq Online(q)'
           /\ m = "online" => Len(log[r]) + 1 \in Online(r)'
           /\ m = "online" => Online(r)' \subseteq Online(r) \cup {Len(log[r]) + 1}
           /\ m = "peer" => Online(r)' = Online(r)
           /\ \A q \in Rooms \ {r} : Online(q)' = Online(q)
<1>1. /\ log[r] \in Seq({"online", "peer"})
      /\ log'[r] = Append(log[r], m)
      /\ \A q \in Rooms \ {r} : log'[q] = log[q]
  OBVIOUS
<1>2. /\ Append(log[r], m) \in Seq({"online", "peer"})
      /\ Len(log[r]) \in Nat
      /\ DOMAIN log[r] = 1 .. Len(log[r])
      /\ DOMAIN log'[r] = 1 .. Len(log[r]) + 1
      /\ \A i \in 1 .. Len(log[r]) : log'[r][i] = log[r][i]
      /\ log'[r][Len(log[r]) + 1] = m
  BY <1>1
<1>3. log' \in [Rooms -> Seq({"online", "peer"})]
  BY <1>2
<1>4. ASSUME NEW q \in Rooms PROVE Online(q) \subseteq Online(q)'
  <2>1. CASE q = r
    BY <1>2, <2>1 DEF Online
  <2>2. CASE q # r
    BY <1>1, <2>2 DEF Online
  <2> QED BY <2>1, <2>2
<1>5. m = "online" => Len(log[r]) + 1 \in Online(r)'
  BY <1>2 DEF Online
<1>6. m = "online" => Online(r)' \subseteq Online(r) \cup {Len(log[r]) + 1}
  BY <1>2 DEF Online
<1>7. m = "peer" => Online(r)' = Online(r)
  BY <1>2 DEF Online
<1>8. \A q \in Rooms \ {r} : Online(q)' = Online(q)
  BY <1>1 DEF Online
<1> QED BY <1>2, <1>3, <1>4, <1>5, <1>6, <1>7, <1>8

LEMMA InitInv == Init => ProvisionInv
<1> SUFFICES ASSUME Init PROVE ProvisionInv
  OBVIOUS
<1>1. TypeOK
  <2>1. NoRoomState \in RoomState /\ NoConfig \in AgentConfig
    BY ProvisionAssumption DEF NoRoomState, RoomState, NoConfig, AgentConfig
  <2>2. NoMemory \in StateFile
    BY <2>1 DEF NoMemory, StateFile
  <2>3. PICK team \in Teams :
           pc = [p \in Procs \cup {Agent} |->
                    IF p \in team THEN "idle" ELSE "absent"]
    BY DEF Init
  <2>4. pc \in [Procs \cup {Agent} -> PC]
    BY <2>3 DEF PC
  <2>5. log \in [Rooms -> Seq({"online", "peer"})] /\ floor \in [Rooms -> Nat]
    BY DEF Init
  <2>6. /\ mine \in [Procs \cup {Agent} -> 0 .. MaxRooms]
        /\ answer \in [Procs \cup {Agent} -> Nat] /\ rooms \in 0 .. MaxRooms
    BY ProvisionAssumption DEF Init
  <2>7. mem \in [Procs \cup {Agent} -> StateFile]
    BY <2>2 DEF Init
  <2> QED BY <2>1, <2>2, <2>4, <2>5, <2>6, <2>7 DEF Init, TypeOK
<1>2. RoomsDrawn /\ AnswerIsTrue /\ ActiveIsPosted
  <2>1. \A p \in Procs \cup {Agent} :
           pc[p] \in {"idle", "absent"} /\ answer[p] = 0
    BY DEF Init
  <2>2. config = NoConfig
    BY DEF Init
  <2> QED BY <2>1, <2>2 DEF RoomsDrawn, AnswerIsTrue, ActiveIsPosted, NoConfig
<1> QED BY <1>1, <1>2 DEF ProvisionInv

\* A step that only moves one process on keeps the invariant.
LEMMA Move ==
    ASSUME ProvisionInv, NEW p \in Procs \cup {Agent}, NEW step \in PC,
           Goto(p, step),
           UNCHANGED <<log, config, rooms, answer, mine, raced>>,
           floor' \in [Rooms -> Nat], late' \subseteq Rooms,
           saved' \in StateFile, mem' \in [Procs \cup {Agent} -> StateFile],
           step # "idle" => pc[p] \notin {"idle", "absent"},
           step = "activate" => answer[p] > 0
    PROVE  ProvisionInv'
<1>0. /\ pc' \in [Procs \cup {Agent} -> PC]
      /\ pc'[p] = step
      /\ \A q \in Procs \cup {Agent} : q # p => pc'[q] = pc[q]
  BY DEF ProvisionInv, TypeOK, Goto
<1>1. TypeOK'
  BY <1>0 DEF ProvisionInv, TypeOK
<1>2. RoomsDrawn'
  BY <1>0 DEF ProvisionInv, RoomsDrawn
<1>3. AnswerIsTrue'
  BY <1>0 DEF ProvisionInv, AnswerIsTrue, Online
<1>4. ActiveIsPosted'
  BY DEF ProvisionInv, ActiveIsPosted, Online
<1> QED BY <1>1, <1>2, <1>3, <1>4 DEF ProvisionInv

\* So does the end of a process.
LEMMA Ends ==
    ASSUME ProvisionInv, NEW p \in Procs \cup {Agent}, Exit(p),
           UNCHANGED <<log, floor, config, rooms, raced>>,
           late' \subseteq Rooms, saved' \in StateFile
    PROVE  ProvisionInv'
<1>0. /\ pc' \in [Procs \cup {Agent} -> PC]
      /\ mine' \in [Procs \cup {Agent} -> 0 .. MaxRooms]
      /\ answer' \in [Procs \cup {Agent} -> Nat]
      /\ pc'[p] = "idle" /\ answer'[p] = 0
      /\ \A q \in Procs \cup {Agent} : q # p =>
            pc'[q] = pc[q] /\ mine'[q] = mine[q] /\ answer'[q] = answer[q]
  BY ProvisionAssumption DEF ProvisionInv, TypeOK, Exit, Goto, PC
<1>1. mem' \in [Procs \cup {Agent} -> StateFile]
  <2>1. NoMemory \in StateFile
    BY DEF NoMemory, NoRoomState, RoomState, StateFile
  <2> QED BY <2>1 DEF ProvisionInv, TypeOK, Exit
<1>2. TypeOK'
  BY <1>0, <1>1 DEF ProvisionInv, TypeOK
<1>3. RoomsDrawn'
  BY <1>0 DEF ProvisionInv, RoomsDrawn
<1>4. AnswerIsTrue'
  BY <1>0 DEF ProvisionInv, AnswerIsTrue, Online
<1>5. ActiveIsPosted'
  BY DEF ProvisionInv, ActiveIsPosted, Online
<1> QED BY <1>2, <1>3, <1>4, <1>5 DEF ProvisionInv

LEMMA Step == ProvisionInv /\ [Next]_vars => ProvisionInv'
<1> SUFFICES ASSUME ProvisionInv, [Next]_vars PROVE ProvisionInv'
  OBVIOUS
<1> USE ProvisionAssumption
<1>t. TypeOK /\ RoomsDrawn /\ AnswerIsTrue /\ ActiveIsPosted
  BY DEF ProvisionInv
<1>n. /\ floor \in [Rooms -> Nat] /\ late \subseteq Rooms /\ saved \in StateFile
      /\ mem \in [Procs \cup {Agent} -> StateFile]
      /\ Agent \in Procs \cup {Agent} /\ Procs \subseteq Procs \cup {Agent}
      /\ log \in [Rooms -> Seq({"online", "peer"})]
  BY <1>t DEF TypeOK
<1>c. ASSUME NEW c \in AgentConfig, config' = c, NEW p \in Procs, NEW step \in PC,
             Goto(p, step), pc[p] \notin {"idle", "absent"}, step # "activate",
             UNCHANGED <<log, floor, late, saved, rooms, answer, mine, mem>>,
             raced' \in BOOLEAN, c.room \in Rooms,
             c.status = "active" => c.seq \in Online(c.room)
      PROVE  ProvisionInv'
  <2>0. /\ pc' \in [Procs \cup {Agent} -> PC]
        /\ pc'[p] = step
        /\ \A q \in Procs \cup {Agent} : q # p => pc'[q] = pc[q]
    BY <1>c, <1>t DEF TypeOK, Goto
  <2>1. TypeOK'
    BY <1>c, <1>t, <2>0 DEF TypeOK
  <2>2. RoomsDrawn'
    BY <1>c, <1>t, <2>0 DEF RoomsDrawn
  <2>3. AnswerIsTrue'
    BY <1>c, <1>t, <2>0 DEF AnswerIsTrue, Online
  <2>4. ActiveIsPosted'
    BY <1>c DEF ActiveIsPosted, Online
  <2> QED BY <2>1, <2>2, <2>3, <2>4 DEF ProvisionInv
<1>g. ASSUME NEW r \in Rooms, NEW m \in {"online", "peer"},
             log' = [log EXCEPT ![r] = Append(log[r], m)],
             UNCHANGED <<floor, late, config, saved, rooms, pc, mine, mem, raced>>,
             answer' \in [Procs \cup {Agent} -> Nat],
             \A p \in Procs : \/ answer'[p] = answer[p]
                              \/ /\ answer'[p] \in Online(mine[p])'
                                 /\ mine[p] \in Rooms /\ answer'[p] > 0
      PROVE  ProvisionInv'
  <2>1. /\ log' \in [Rooms -> Seq({"online", "peer"})]
        /\ \A q \in Rooms : Online(q) \subseteq Online(q)'
    BY <1>g, <1>n, AppendFacts
  <2>2. TypeOK'
    BY <1>g, <1>t, <2>1 DEF TypeOK
  <2>3. RoomsDrawn'
    BY <1>g, <1>t DEF RoomsDrawn
  <2>4. AnswerIsTrue'
    <3> SUFFICES ASSUME NEW p \in Procs
                 PROVE  /\ answer'[p] > 0 => /\ mine[p] \in Rooms
                                              /\ answer'[p] \in Online(mine[p])'
                        /\ pc[p] = "activate" => answer'[p] > 0
      BY <1>g DEF AnswerIsTrue
    <3>1. CASE answer'[p] = answer[p]
      <4>1. \A q \in Rooms : \A i \in DOMAIN log[q] : log[q][i] = "online" =>
                i \in DOMAIN log'[q] /\ log'[q][i] = "online"
        BY <2>1 DEF Online
      <4> QED BY <1>g, <1>t, <3>1, <4>1 DEF AnswerIsTrue, Online
    <3>2. CASE /\ answer'[p] \in Online(mine[p])'
               /\ mine[p] \in Rooms /\ answer'[p] > 0
      BY <3>2
    <3> QED BY <1>g, <3>1, <3>2
  <2>5. ActiveIsPosted'
    BY <1>g, <1>t, <2>1 DEF ActiveIsPosted, RoomsDrawn
  <2> QED BY <2>2, <2>3, <2>4, <2>5 DEF ProvisionInv
\* A command that begins forgets its last answer.
<1>b. ASSUME NEW p \in Procs, NEW r \in Rooms, NEW step \in PC, Goto(p, step),
             mine' = [mine EXCEPT ![p] = r], answer' = [answer EXCEPT ![p] = 0],
             rooms' \in 0 .. MaxRooms, step # "activate",
             UNCHANGED <<log, floor, late, config, saved, mem, raced>>
      PROVE  ProvisionInv'
  <2>0. /\ pc' \in [Procs \cup {Agent} -> PC]
        /\ pc'[p] = step /\ mine'[p] = r /\ answer'[p] = 0
        /\ \A q \in Procs \cup {Agent} :
              q # p => pc'[q] = pc[q] /\ mine'[q] = mine[q] /\ answer'[q] = answer[q]
    BY <1>b, <1>t DEF TypeOK, Goto
  <2>1. TypeOK'
    <3>1. r \in 0 .. MaxRooms
      BY DEF Rooms
    <3>2. /\ mine' \in [Procs \cup {Agent} -> 0 .. MaxRooms]
          /\ answer' \in [Procs \cup {Agent} -> Nat]
      BY <1>b, <1>t, <3>1 DEF TypeOK
    <3> QED BY <1>b, <1>t, <2>0, <3>2 DEF TypeOK
  <2>2. RoomsDrawn'
    BY <1>b, <1>t, <2>0 DEF RoomsDrawn
  <2>3. AnswerIsTrue'
    BY <1>b, <1>t, <2>0 DEF AnswerIsTrue, Online
  <2>4. ActiveIsPosted'
    BY <1>b, <1>t DEF ActiveIsPosted, Online
  <2> QED BY <2>1, <2>2, <2>3, <2>4 DEF ProvisionInv
<1>1. ASSUME NEW r \in Rooms, PeerPost(r) PROVE ProvisionInv'
  <2>1. log' = [log EXCEPT ![r] = Append(log[r], "peer")]
    BY <1>1 DEF PeerPost
  <2> QED BY <1>1, <1>g, <1>t, <2>1 DEF PeerPost, TypeOK, fileVars
<1>2. ASSUME NEW r \in Rooms, AcceptLate(r) PROVE ProvisionInv'
  <2>1. log' = [log EXCEPT ![r] = Append(log[r], "online")]
    BY <1>2 DEF AcceptLate, AcceptOnline
  <2> QED BY <1>2, <1>g, <1>t, <2>1 DEF AcceptLate, TypeOK, fileVars
<1>3. ASSUME NEW p \in Procs, Accept(p) PROVE ProvisionInv'
  <2>0. mine[p] \in Rooms
    BY <1>3, <1>t DEF Accept, RoomsDrawn
  <2>1. log' = [log EXCEPT ![mine[p]] = Append(log[mine[p]], "online")]
    BY <1>3 DEF Accept, AcceptOnline
  <2>2. /\ Len(log[mine[p]]) \in Nat
        /\ Len(log[mine[p]]) + 1 \in Online(mine[p])'
    <3>1. /\ Len(log[mine[p]]) \in Nat
          /\ \A r \in Rooms : r = mine[p] => Len(log[r]) + 1 \in Online(r)'
      BY <1>n, <2>0, <2>1, AppendFacts
    <3>2. Online(mine[p])' = {s \in DOMAIN log'[mine[p]] : log'[mine[p]][s] = "online"}
      BY <1>3 DEF Online, Accept
    <3> QED BY <2>0, <3>1, <3>2 DEF Online
  <2>3. /\ answer' \in [Procs \cup {Agent} -> Nat]
        /\ answer'[p] = Len(log[mine[p]]) + 1
        /\ \A q \in Procs : q # p => answer'[q] = answer[q]
    BY <1>3, <1>t, <2>2 DEF Accept, TypeOK
  <2>4. UNCHANGED <<floor, late, config, saved, rooms, pc, mine, mem, raced>>
    BY <1>3 DEF Accept, fileVars
  <2>5. \A q \in Procs : \/ answer'[q] = answer[q]
                         \/ /\ answer'[q] \in Online(mine[q])'
                            /\ mine[q] \in Rooms /\ answer'[q] > 0
    BY <2>0, <2>2, <2>3, <2>4 DEF Online
  <2> QED BY <1>g, <2>0, <2>1, <2>3, <2>4, <2>5
<1>4. ASSUME NEW r \in Rooms, Expire(r) PROVE ProvisionInv'
  <2>1. PICK f \in (floor[r] + 1) .. Len(log[r]) :
            floor' = [floor EXCEPT ![r] = f]
    BY <1>4 DEF Expire
  <2>2. f \in Nat
    BY <1>n
  <2>3. floor' \in [Rooms -> Nat]
    BY <1>n, <2>1, <2>2
  <2>4. UNCHANGED <<log, late, config, saved, rooms, pc, mine, answer, mem, raced>>
    BY <1>4 DEF Expire, fileVars
  <2>5. TypeOK'
    BY <1>t, <2>3, <2>4 DEF TypeOK
  <2> QED BY <1>t, <2>4, <2>5
          DEF ProvisionInv, RoomsDrawn, AnswerIsTrue, ActiveIsPosted, Online
<1>5. ASSUME NEW p \in Procs, Provision(p) PROVE ProvisionInv'
  <2>1. rooms + 1 \in Rooms /\ rooms' \in 0 .. MaxRooms
    BY <1>5, <1>t DEF Provision, TypeOK, Rooms
  <2> QED BY <1>5, <1>b, <2>1 DEF Provision, serverVars, fileVars, PC
<1>6. ASSUME NEW p \in Procs, NEW retry \in BOOLEAN, LoadPending(p, retry)
      PROVE  ProvisionInv'
  <2>1. config.room \in Rooms /\ rooms' \in 0 .. MaxRooms
    BY <1>6, <1>t DEF LoadPending, RoomsDrawn, TypeOK
  <2> QED BY <1>6, <1>b, <2>1 DEF LoadPending, serverVars, fileVars, PC
<1>7. ASSUME NEW p \in Procs, CheckNew(p) \/ Post(p) \/ Answered(p)
      PROVE  ProvisionInv'
  <2>1. \E step \in {"write", "await", "activate"} :
            /\ Goto(p, step)
            /\ step = "activate" => answer[p] > 0
    BY <1>7 DEF CheckNew, Post, Answered
  <2>2. pc[p] \notin {"idle", "absent"} /\ UNCHANGED <<log, floor, late, config, saved, rooms,
                                      mine, answer, mem, raced>>
    BY <1>7 DEF CheckNew, Post, Answered, serverVars, fileVars
  <2> QED BY <1>n, <2>1, <2>2, Move DEF PC
<1>8. ASSUME NEW p \in Procs, WritePending(p) \/ Activate(p) PROVE ProvisionInv'
  <2>1. mine[p] \in Rooms /\ mine[p] \in 0 .. MaxRooms /\ answer[p] \in Nat
    BY <1>8, <1>t DEF WritePending, Activate, RoomsDrawn, TypeOK, Rooms
  <2>2. PICK c \in AgentConfig :
            /\ config' = c /\ c.room = mine[p]
            /\ c.status = "active" => pc[p] = "activate" /\ c.seq = answer[p]
    <3>1. CASE WritePending(p)
      <4>1. [room |-> mine[p], status |-> "pending", seq |-> 0] \in AgentConfig
        BY <2>1 DEF AgentConfig
      <4> QED BY <3>1, <4>1 DEF WritePending
    <3>2. CASE Activate(p)
      <4>1. [room |-> mine[p], status |-> "active", seq |-> answer[p]] \in AgentConfig
        BY <1>t, <2>1, <3>2 DEF AgentConfig, Activate, AnswerIsTrue
      <4> QED BY <3>2, <4>1 DEF Activate
    <3> QED BY <1>8, <3>1, <3>2
  <2>3. c.status = "active" => c.seq \in Online(c.room)
    BY <1>t, <2>2 DEF AnswerIsTrue
  <2>4. \E step \in {"post", "load"} : Goto(p, step)
    BY <1>8 DEF WritePending, Activate
  <2>5. pc[p] \notin {"idle", "absent"} /\ UNCHANGED <<log, floor, late, saved, rooms, answer,
                                      mine, mem>>
    BY <1>8 DEF WritePending, Activate, serverVars
  <2>6. raced' \in BOOLEAN
    BY <1>8, <1>t DEF WritePending, Activate, TypeOK
  <2> QED BY <1>c, <2>1, <2>2, <2>3, <2>4, <2>5, <2>6 DEF PC
<1>9. ASSUME NEW p \in Procs, LoadState(p) \/ SaveState(p) PROVE ProvisionInv'
  <2>1. CASE LoadState(p)
    <3>1. mine[p] \in Rooms /\ answer[p] \in Nat
      BY <2>1, <1>t DEF LoadState, RoomsDrawn, TypeOK
    <3>2. [known |-> TRUE, cursor |-> answer[p], nonce |-> ProvisionNonce]
              \in RoomState
      BY <3>1 DEF RoomState, ProvisionNonce
    <3>3. [saved EXCEPT ![mine[p]] =
             [known |-> TRUE, cursor |-> answer[p], nonce |-> ProvisionNonce]]
              \in StateFile
      BY <1>n, <3>2 DEF StateFile
    <3>4. mem' \in [Procs \cup {Agent} -> StateFile]
      BY <1>n, <2>1, <3>3 DEF LoadState
    <3>5. /\ Goto(p, "save") /\ pc[p] \notin {"idle", "absent"}
          /\ UNCHANGED <<log, floor, late, config, saved, rooms, answer, mine, raced>>
      BY <2>1 DEF LoadState, serverVars, fileVars
    <3> QED BY <1>n, <3>4, <3>5, Move DEF PC
  <2>2. CASE SaveState(p)
    <3>1. /\ Exit(p) /\ saved' \in StateFile
          /\ UNCHANGED <<log, floor, late, config, rooms, raced>>
      BY <1>n, <2>2 DEF SaveState, serverVars
    <3> QED BY <1>n, <3>1, Ends
  <2> QED BY <1>9, <2>1, <2>2
<1>10. ASSUME NEW p \in Procs, Inspect(p) PROVE ProvisionInv'
  <2>0. /\ pc[p] \notin {"idle", "absent"}
        /\ UNCHANGED <<log, floor, late, config, saved, rooms, raced>>
    BY <1>10 DEF Inspect, serverVars, fileVars
  <2>1. CASE Goto(p, "post") /\ UNCHANGED <<mine, answer, mem>>
    BY <1>n, <2>0, <2>1, Move DEF PC
  <2>3. CASE Exit(p)
    BY <1>n, <2>0, <2>3, Ends
  <2>2. ASSUME NEW s \in Matches(mine[p]), Goto(p, "activate"),
               answer' = [answer EXCEPT ![p] = s], UNCHANGED <<mine, mem>>
        PROVE  ProvisionInv'
    <3>0. mine[p] \in Rooms /\ s \in Online(mine[p])
      BY <1>t, <2>0, <2>2 DEF RoomsDrawn, Matches
    <3>1. s \in Nat /\ s > 0
      BY <1>n, <3>0 DEF Online
    <3>2. /\ pc' \in [Procs \cup {Agent} -> PC]
          /\ answer' \in [Procs \cup {Agent} -> Nat]
          /\ pc'[p] = "activate" /\ answer'[p] = s
          /\ \A q \in Procs \cup {Agent} :
                q # p => pc'[q] = pc[q] /\ answer'[q] = answer[q]
      BY <1>t, <2>2, <3>1 DEF TypeOK, Goto, PC
    <3>3. TypeOK'
      BY <1>t, <2>0, <2>2, <3>2 DEF TypeOK
    <3>4. RoomsDrawn'
      BY <1>t, <2>0, <2>2, <3>0, <3>2 DEF RoomsDrawn
    <3>5. AnswerIsTrue'
      BY <1>t, <2>0, <2>2, <3>0, <3>1, <3>2 DEF AnswerIsTrue, Online
    <3>6. ActiveIsPosted'
      BY <1>t, <2>0 DEF ActiveIsPosted, Online
    <3> QED BY <3>3, <3>4, <3>5, <3>6 DEF ProvisionInv
  <2> QED BY <1>10, <2>1, <2>2, <2>3 DEF Inspect
<1>11. ASSUME NEW p \in Procs \cup {Agent}, Halt(p) PROVE ProvisionInv'
  <2>1. late' \subseteq Rooms
    BY <1>11, <1>n, <1>t DEF Halt, RoomsDrawn
  <2> QED BY <1>11, <1>n, <2>1, Ends DEF Halt, fileVars
<1>12. CASE RunStart
  <2>0. PICK step \in {"run", "boot"} : Goto(Agent, step)
    BY <1>12 DEF RunStart
  <2>1. config.room \in Rooms /\ config.room \in 0 .. MaxRooms
    BY <1>12, <1>t DEF RunStart, RoomsDrawn, Rooms
  <2>2. /\ mine' = [mine EXCEPT ![Agent] = config.room]
        /\ mem' = [mem EXCEPT ![Agent] = saved]
        /\ UNCHANGED <<log, floor, late, config, saved, rooms, answer, raced>>
    BY <1>12 DEF RunStart, serverVars, fileVars
  <2>3. /\ pc' \in [Procs \cup {Agent} -> PC]
        /\ mine' \in [Procs \cup {Agent} -> 0 .. MaxRooms]
        /\ mem' \in [Procs \cup {Agent} -> StateFile]
        /\ mine'[Agent] = config.room
        /\ \A q \in Procs : pc'[q] = pc[q] /\ mine'[q] = mine[q]
    BY <1>n, <1>t, <2>0, <2>1, <2>2 DEF TypeOK, Goto, PC
  <2>4. TypeOK'
    BY <1>t, <2>2, <2>3 DEF TypeOK
  <2>5. RoomsDrawn'
    BY <1>t, <2>1, <2>2, <2>3 DEF RoomsDrawn
  <2>6. AnswerIsTrue' /\ ActiveIsPosted'
    BY <1>t, <2>2, <2>3 DEF AnswerIsTrue, ActiveIsPosted, Online
  <2> QED BY <2>4, <2>5, <2>6 DEF ProvisionInv
<1>13. ASSUME NEW state \in RoomState, AgentSaves(state), pc[Agent] \notin {"idle", "absent"},
              Goto(Agent, "run"),
              UNCHANGED <<log, floor, late, config, rooms, mine, answer, raced>>
       PROVE  ProvisionInv'
  <2>0. mine[Agent] \in Rooms /\ mem[Agent] \in StateFile
    BY <1>13, <1>n, <1>t DEF RoomsDrawn
  <2>1. [mem[Agent] EXCEPT ![mine[Agent]] = state] \in StateFile
    BY <2>0 DEF StateFile
  <2>2. saved' \in StateFile /\ mem' \in [Procs \cup {Agent} -> StateFile]
    BY <1>13, <1>n, <2>1 DEF AgentSaves
  <2> QED BY <1>13, <1>n, <2>2, Move DEF PC
<1>14. CASE RunBoot \/ RunProcess
  <2>0. pc[Agent] \in {"boot", "run"} /\ mine[Agent] \in Rooms
    BY <1>14, <1>n, <1>t DEF RunBoot, RunProcess, RoomsDrawn
  <2>1. /\ Len(log[mine[Agent]]) \in Nat
        /\ mem[Agent][mine[Agent]] \in RoomState
    BY <1>n, <2>0 DEF StateFile
  <2>2. \E state \in RoomState : AgentSaves(state)
    <3>1. CASE RunBoot
      BY <2>1, <3>1 DEF RunBoot, RoomState
    <3>2. CASE RunProcess
      <4> DEFINE state == mem[Agent][mine[Agent]]
      <4>1. PICK nonce \in {state.nonce, state.cursor + ProvisionNonce + 1} :
                AgentSaves([known |-> TRUE, cursor |-> state.cursor + 1,
                            nonce |-> nonce])
        BY <3>2 DEF RunProcess
      <4>2. [known |-> TRUE, cursor |-> state.cursor + 1, nonce |-> nonce]
                \in RoomState
        BY <2>1, <4>1 DEF RoomState, ProvisionNonce
      <4> QED BY <4>1, <4>2
    <3> QED BY <1>14, <3>1, <3>2
  <2>3. Goto(Agent, "run")
    <3>1. CASE RunBoot
      BY <3>1 DEF RunBoot
    <3>2. CASE RunProcess
      BY <1>t, <3>2 DEF RunProcess, Goto, TypeOK
    <3> QED BY <1>14, <3>1, <3>2
  <2>4. UNCHANGED <<log, floor, late, config, rooms, mine, answer, raced>>
    BY <1>14 DEF RunBoot, RunProcess, serverVars
  <2> QED BY <1>13, <2>0, <2>2, <2>3, <2>4
<1>15. CASE UNCHANGED vars
  BY <1>15, <1>t DEF vars, ProvisionInv, TypeOK, RoomsDrawn, AnswerIsTrue,
                     ActiveIsPosted, Online
<1>16. ASSUME NEW p \in Procs, Command(p) PROVE ProvisionInv'
  BY <1>7, <1>8, <1>9, <1>10, <1>16 DEF Command
<1>17. CASE Server
  BY <1>1, <1>2, <1>3, <1>4, <1>17 DEF Server
<1> QED
  BY <1>5, <1>6, <1>11, <1>12, <1>14, <1>15, <1>16, <1>17 DEF Next

\* The invariant of provisioning holds for any number of racing commands.
THEOREM ProvisionInvariant == Spec => []ProvisionInv
  BY InitInv, Step, PTL DEF Spec

\* Config, state file, rooms and commands keep their shapes.
THEOREM TypeCorrect == Spec => []TypeOK
<1>1. ProvisionInv => TypeOK
  BY DEF ProvisionInv
<1> QED BY <1>1, ProvisionInvariant, PTL

\* An active configuration is never wrong about its mailbox: the signed online
\* marker is in the room it names, at the sequence it records.
THEOREM ActiveConfigIsTrue == Spec => []ActiveIsPosted
<1>1. ProvisionInv => ActiveIsPosted
  BY DEF ProvisionInv
<1> QED BY <1>1, ProvisionInvariant, PTL

\* The server refuses a second marker.
LEMMA MarkerStep ==
    ASSUME TypeOK, RoomsDrawn, OneMarker, [Next]_vars
    PROVE  OneMarker'
<1> USE ProvisionAssumption
<1>t. log \in [Rooms -> Seq({"online", "peer"})]
  BY DEF TypeOK
<1>1. ASSUME NEW r \in Rooms, NEW m \in {"online", "peer"},
             log' = [log EXCEPT ![r] = Append(log[r], m)],
             m = "online" => Online(r) = {}
      PROVE  OneMarker'
  <2>1. /\ m = "online" => Online(r)' \subseteq Online(r) \cup {Len(log[r]) + 1}
        /\ m = "peer" => Online(r)' = Online(r)
        /\ \A q \in Rooms \ {r} : Online(q)' = Online(q)
    BY <1>1, <1>t, AppendFacts
  <2>2. ASSUME NEW q \in Rooms, NEW i \in Online(q)', NEW j \in Online(q)'
        PROVE  i = j
    <3>1. CASE q # r \/ m = "peer"
      <4>1. Online(q)' = Online(q)
        BY <2>1, <3>1
      <4> QED BY <2>2, <4>1 DEF OneMarker
    <3>2. CASE q = r /\ m = "online"
      <4>1. Online(q)' \subseteq {Len(log[r]) + 1}
        BY <1>1, <2>1, <3>2
      <4> QED BY <2>2, <4>1
    <3> QED BY <3>1, <3>2
  <2> QED BY <2>2 DEF OneMarker
<1>2. CASE UNCHANGED log
  BY <1>2 DEF OneMarker, Online
<1>3. ASSUME NEW r \in Rooms, PeerPost(r) PROVE OneMarker'
  BY <1>1, <1>3 DEF PeerPost
<1>4. ASSUME NEW r \in Rooms, AcceptLate(r) PROVE OneMarker'
  BY <1>1, <1>4 DEF AcceptLate, AcceptOnline
<1>5. ASSUME NEW p \in Procs, Accept(p) PROVE OneMarker'
  <2>1. mine[p] \in Rooms
    BY <1>5 DEF Accept, RoomsDrawn
  <2> QED BY <1>1, <1>5, <2>1 DEF Accept, AcceptOnline
<1>6. CASE Server
  BY <1>2, <1>3, <1>4, <1>5, <1>6 DEF Server, Expire
<1>7. CASE Next /\ ~Server
  <2>1. UNCHANGED log
    BY <1>7 DEF Next, Provision, LoadPending, Command, CheckNew, WritePending,
                Post, Answered, Activate, LoadState, SaveState, Inspect, Halt,
                RunStart, RunBoot, RunProcess, serverVars
  <2> QED BY <1>2, <2>1
<1> QED BY <1>2, <1>6, <1>7 DEF vars

\* Until two commands have met between look and replacement, each step of a
\* command finds the file about its own room, and changes it only as ConfigKept
\* allows: who activates what is active already writes the same sequence again.
LEMMA FileStep ==
    ASSUME ProvisionInv, OneMarker, FileInv, [Next]_vars, ~raced'
    PROVE  /\ FileInv'
           /\ config # NoConfig => config'.room = config.room
           /\ config.status = "active" => config' = config
<1> DEFINE Kept == /\ FileInv'
                   /\ config # NoConfig => config'.room = config.room
                   /\ config.status = "active" => config' = config
<1> SUFFICES Kept
  OBVIOUS
<1> USE ProvisionAssumption
<1>t. /\ pc \in [Procs \cup {Agent} -> PC]
      /\ mine \in [Procs \cup {Agent} -> 0 .. MaxRooms]
      /\ config \in AgentConfig
  BY DEF ProvisionInv, TypeOK
<1>r. ~raced /\ \A p \in Procs :
            /\ pc[p] = "write" => config = NoConfig
            /\ pc[p] \in {"post", "await", "inspect", "confirm", "activate"} =>
                  config # NoConfig /\ config.room = mine[p]
  <2>1. raced => raced'
    BY DEF Next, Server, PeerPost, Expire, AcceptLate, Accept, Provision,
           LoadPending, Command, CheckNew, WritePending, Post, Answered, Activate,
           LoadState, SaveState, Inspect, Halt, RunStart, RunBoot, RunProcess, vars
  <2> QED BY <2>1 DEF FileInv
\* A step that leaves the file alone, or what the other commands need of it.
<1>m. ASSUME NEW p \in Procs, NEW step \in PC, Goto(p, step),
             \A q \in Procs \ {p} : mine'[q] = mine[q],
             \/ config' = config
             \/ /\ config' # NoConfig /\ config # NoConfig
                /\ config'.room = config.room
             \/ config = NoConfig /\ \A q \in Procs \ {p} : pc[q] # "write",
             step = "write" => config' = NoConfig,
             step \in {"post", "await", "inspect", "confirm", "activate"} =>
                 config' # NoConfig /\ config'.room = mine'[p]
      PROVE  FileInv'
  <2>1. pc'[p] = step /\ \A q \in Procs : q # p => pc'[q] = pc[q]
    BY <1>t, <1>m DEF Goto
  <2> QED BY <1>m, <1>r, <2>1 DEF FileInv
<1>f. ASSUME config' = config,
             \A p \in Procs : pc'[p] = pc[p] /\ mine'[p] = mine[p]
      PROVE  Kept
  BY <1>f, <1>r DEF FileInv
<1>1. CASE Server
  <2>1. UNCHANGED <<config, pc, mine>>
    BY <1>1 DEF Server, PeerPost, Expire, AcceptLate, Accept, fileVars
  <2> QED BY <1>f, <2>1
<1>2. ASSUME NEW p \in Procs, Provision(p) PROVE Kept
  <2>1. /\ Goto(p, "check") /\ config' = config
        /\ \A q \in Procs \ {p} : mine'[q] = mine[q]
    BY <1>2, <1>t DEF Provision, fileVars
  <2> QED BY <1>m, <2>1 DEF PC
<1>3. ASSUME NEW p \in Procs, NEW retry \in BOOLEAN, LoadPending(p, retry)
      PROVE  Kept
  <2>1. /\ config' = config /\ config # NoConfig /\ mine'[p] = config.room
        /\ Goto(p, IF retry THEN "confirm" ELSE "inspect")
        /\ \A q \in Procs \ {p} : mine'[q] = mine[q]
    BY <1>3, <1>t DEF LoadPending, fileVars, NoConfig
  <2> QED BY <1>m, <2>1 DEF PC
<1>4. ASSUME NEW p \in Procs, CheckNew(p) PROVE Kept
  <2>1. Goto(p, "write") /\ config' = config /\ config = NoConfig /\ mine' = mine
    BY <1>4 DEF CheckNew, ConfigMissing, fileVars
  <2> QED BY <1>m, <2>1 DEF PC
<1>5. ASSUME NEW p \in Procs, WritePending(p) PROVE Kept
  <2>1. /\ Goto(p, "post") /\ mine' = mine /\ config = NoConfig
        /\ config' = [room |-> mine[p], status |-> "pending", seq |-> 0]
        /\ \A q \in Procs \ {p} : pc[q] # "write"
    BY <1>5, <1>r DEF WritePending
  <2>2. config' # NoConfig /\ config'.room = mine'[p]
    BY <2>1 DEF NoConfig
  <2>3. FileInv'
    BY <1>m, <2>1, <2>2 DEF PC
  <2> QED BY <2>1, <2>3 DEF NoConfig
<1>6. ASSUME NEW p \in Procs, Post(p) \/ Answered(p) PROVE Kept
  <2>1. /\ config' = config /\ mine' = mine
        /\ config # NoConfig /\ config.room = mine[p]
        /\ \E step \in {"await", "activate"} : Goto(p, step)
    BY <1>6, <1>r DEF Post, Answered, fileVars
  <2> QED BY <1>m, <2>1 DEF PC
<1>7. ASSUME NEW p \in Procs, Activate(p) PROVE Kept
  <2>1. /\ Goto(p, "load") /\ config # NoConfig /\ config.room = mine[p]
        /\ config' = [room |-> mine[p], status |-> "active", seq |-> answer[p]]
        /\ mine' = mine
    BY <1>7, <1>r DEF Activate
  <2>2. config' # NoConfig /\ config'.room = config.room
    BY <2>1 DEF NoConfig
  <2>3. FileInv'
    BY <1>m, <2>1, <2>2 DEF PC
  <2>4. config.status = "active" => config' = config
    <3> SUFFICES ASSUME config.status = "active" PROVE config' = config
      OBVIOUS
    <3>1. mine[p] \in Rooms /\ answer[p] \in Online(mine[p])
      BY <1>7 DEF Activate, ProvisionInv, AnswerIsTrue
    <3>2. config.seq = answer[p]
      BY <2>1, <3>1 DEF ProvisionInv, ActiveIsPosted, OneMarker
    <3> QED BY <1>t, <2>1, <3>2 DEF AgentConfig
  <2> QED BY <2>2, <2>3, <2>4
<1>8. ASSUME NEW p \in Procs, Exit(p), config' = config PROVE Kept
  <2>1. Goto(p, "idle") /\ \A q \in Procs \ {p} : mine'[q] = mine[q]
    BY <1>8, <1>t DEF Exit
  <2> QED BY <1>m, <1>8, <2>1 DEF PC
<1>9. ASSUME NEW p \in Procs, LoadState(p) \/ SaveState(p) \/ Inspect(p) \/ Halt(p)
      PROVE  Kept
  <2>1. CASE LoadState(p)
    <3>1. Goto(p, "save") /\ config' = config /\ mine' = mine
      BY <2>1 DEF LoadState, fileVars
    <3> QED BY <1>m, <3>1 DEF PC
  <2>2. CASE SaveState(p) \/ Halt(p)
    BY <1>8, <2>2 DEF SaveState, Halt, fileVars
  <2>3. CASE Inspect(p)
    <3>1. config' = config /\ config # NoConfig /\ config.room = mine[p]
      BY <1>r, <2>3 DEF Inspect, fileVars
    <3>2. \/ Exit(p)
          \/ mine' = mine /\ \E step \in {"activate", "post"} : Goto(p, step)
      BY <2>3 DEF Inspect
    <3> QED BY <1>m, <1>8, <3>1, <3>2 DEF PC
  <2> QED BY <1>9, <2>1, <2>2, <2>3
<1>10. CASE RunStart \/ RunBoot \/ RunProcess \/ Halt(Agent)
  <2>1. config' = config
    BY <1>10 DEF RunStart, RunBoot, RunProcess, Halt, fileVars
  <2>2. ASSUME NEW p \in Procs PROVE pc'[p] = pc[p] /\ mine'[p] = mine[p]
    <3>1. p # Agent
      OBVIOUS
    <3> QED BY <1>10, <1>t, <3>1 DEF RunStart, RunBoot, RunProcess, Halt, Exit, Goto
  <2> QED BY <1>f, <2>1, <2>2
<1>11. CASE UNCHANGED vars
  BY <1>f, <1>11 DEF vars
<1>12. ASSUME NEW p \in Procs, Command(p) PROVE Kept
  BY <1>4, <1>5, <1>6, <1>7, <1>9, <1>12 DEF Command
<1> QED BY <1>1, <1>2, <1>3, <1>9, <1>10, <1>11, <1>12 DEF Next

\* Any number of provisionings and recoveries, crashed and repeated as often as
\* one likes beside the responder, never replace the mailbox of a configuration
\* nor change an active one, unless two of them were between the second look for
\* the file and os.replace at once.
THEOREM MailboxIsKept == Spec => ConfigKept
<1> DEFINE Kept == ~raced' =>
              /\ config # NoConfig => config'.room = config.room
              /\ config.status = "active" => config' = config
<1>1. Init => OneMarker /\ FileInv
  BY DEF Init, OneMarker, Online, FileInv
<1>2. ProvisionInv /\ OneMarker /\ FileInv /\ [Next]_vars => OneMarker' /\ FileInv'
  <2> SUFFICES ASSUME ProvisionInv, OneMarker, FileInv, [Next]_vars
               PROVE  OneMarker' /\ FileInv'
    OBVIOUS
  <2>1. OneMarker'
    BY MarkerStep DEF ProvisionInv
  <2>2. CASE raced'
    BY <2>1, <2>2 DEF FileInv
  <2>3. CASE ~raced'
    BY <2>1, <2>3, FileStep
  <2> QED BY <2>1, <2>2, <2>3
<1>3. ProvisionInv /\ OneMarker /\ FileInv /\ [Next]_vars => [Kept]_vars
  BY FileStep
<1> QED BY <1>1, <1>2, <1>3, ProvisionInvariant, PTL DEF Spec, ConfigKept

===============================================================================
