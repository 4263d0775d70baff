-------------------------- MODULE RoomReader_proofs --------------------------
(* Proofs of the safety properties of RoomReader for every room length,     *)
(* every number of generations, every read limit and every set of delays.   *)
EXTENDS RoomReader, WellFoundedInduction, TLAPS

-----------------------------------------------------------------------------
(* Facts about the operators the model is built from. *)

\* A set of naturals that is not empty has a least element.
LEMMA MinIsLeast ==
    ASSUME NEW S, S \subseteq Nat, S # {}
    PROVE  Min(S) \in S /\ \A y \in S : Min(S) <= y
<1> DEFINE R == {ss \in Nat \X Nat : ss[1] < ss[2]}
<1>1. IsWellFoundedOn(R, Nat)
  BY NatLessThanWellFounded DEF OpToRel
<1>2. PICK x \in S : \A y \in S : ~(<<y, x>> \in R)
  BY WFMin, <1>1
<1>3. ASSUME NEW y \in S PROVE x <= y
  <2>1. y \in Nat /\ x \in Nat /\ <<y, x>> \notin R
    BY <1>2
  <2>2. <<y, x>> \in Nat \X Nat
    BY <2>1
  <2>3. ~(<<y, x>>[1] < <<y, x>>[2])
    BY <2>1, <2>2
  <2> QED BY <2>1, <2>3
<1> QED BY <1>3 DEF Min

LEMMA MinOfTwo ==
    ASSUME NEW a \in Nat, NEW b \in Nat
    PROVE  Min({a, b}) = IF a <= b THEN a ELSE b
  BY DEF Min

LEMMA MaxOfTwo ==
    ASSUME NEW a \in Int, NEW b \in Int
    PROVE  Max({a, b}) = IF a >= b THEN a ELSE b
  BY DEF Max

\* What a read returns: messages above since, with no hole above the first.
LEMMA ReadFacts ==
    ASSUME room \in [gen : 1 .. MaxGen, tail : 0 .. MaxSeq, floor : 0 .. MaxSeq],
           NEW since \in 0 .. MaxSeq, NEW limit \in Nat
    PROVE  /\ Newest(since, limit) \subseteq Seqs
           /\ \A s \in Newest(since, limit) : s > since
           /\ \A s, t \in Seqs : /\ s \in Newest(since, limit)
                                 /\ s <= t /\ t <= room.tail
                                 => t \in Newest(since, limit)
           /\ \A s \in Newest(since, limit) : s <= room.tail
           /\ LastSeq(since, limit) \subseteq 0 .. MaxSeq
  BY RoomReaderAssumption DEF Newest, LastSeq, Seqs

-----------------------------------------------------------------------------
(* The inductive invariant holds initially and after every step. *)

LEMMA ReaderInit == Init => ReaderInv
<1> SUFFICES ASSUME Init PROVE ReaderInv
  OBVIOUS
<1> USE RoomReaderAssumption DEF Init, NoEntries, NoBatch
<1>1. TypeOK
  BY DEF TypeOK, Entries, Seqs
<1>2. batch \in [left : SUBSET Seqs, last : 0 .. MaxSeq, gen : 0 .. MaxGen,
                 handled : BOOLEAN, save : BOOLEAN]
  OBVIOUS
<1>3. MemoryInv /\ BatchInv /\ DelayInv
  BY DEF MemoryInv, BatchInv, DelayInv
<1> QED BY <1>1, <1>2, <1>3 DEF ReaderInv, CursorNamesItsGeneration, SkipsAreKnown

\* The room changes under the process, which learns of it at its next read.
LEMMA RoomSteps ==
    ASSUME ReaderInv, Post \/ Expire \/ Recreate \/ Restore
    PROVE  ReaderInv'
<1> USE RoomReaderAssumption DEF ReaderInv, processVars, historyVars
<1>1. UNCHANGED <<disk, mem, pc, batch, backoff, remaining, events, reported,
                  passed, hidden, source, owed>>
  BY DEF Post, Expire, Recreate, Restore
<1>2. room' \in [gen : 1 .. MaxGen, tail : 0 .. MaxSeq, floor : 0 .. MaxSeq]
  <2>1. CASE Post
    BY <2>1 DEF Post, TypeOK
  <2>2. CASE Expire
    <3>1. PICK f \in (room.floor + 1) .. room.tail :
             room' = [room EXCEPT !.floor = f]
      BY <2>2 DEF Expire
    <3>2. f \in 0 .. MaxSeq
      BY DEF TypeOK
    <3> QED BY <3>1, <3>2 DEF TypeOK
  <2>3. CASE Recreate
    BY <2>3 DEF Recreate, TypeOK
  <2>4. CASE Restore
    <3>1. PICK g \in 1 .. room.gen, t \in 0 .. MaxSeq :
             room' = [gen |-> g, tail |-> t, floor |-> Min({room.floor, t})]
      BY <2>4 DEF Restore
    <3>2. g \in 1 .. MaxGen /\ Min({room.floor, t}) \in 0 .. MaxSeq
      BY MinOfTwo DEF TypeOK
    <3> QED BY <3>1, <3>2
  <2> QED BY <2>1, <2>2, <2>3, <2>4
<1> QED BY <1>1, <1>2 DEF TypeOK, MemoryInv, BatchInv, DelayInv,
                          CursorNamesItsGeneration, SkipsAreKnown

\* A process that ends forgets everything; the file stays as it is.
LEMMA StopSteps ==
    ASSUME ReaderInv, Refuse \/ HandleFails \/ Kill
    PROVE  ReaderInv'
<1> USE RoomReaderAssumption DEF ReaderInv
<1>1. Stop /\ UNCHANGED <<room, disk>>
  BY DEF Refuse, HandleFails, Kill
<1>2. TypeOK'
  BY <1>1 DEF TypeOK, Stop, Entries, NoEntries, NoBatch
<1>3. batch' \in [left : SUBSET Seqs, last : 0 .. MaxSeq, gen : 0 .. MaxGen,
                  handled : BOOLEAN, save : BOOLEAN]
  BY <1>1 DEF Stop, NoBatch
<1>4. MemoryInv' /\ BatchInv' /\ DelayInv'
  BY <1>1 DEF Stop, MemoryInv, BatchInv, DelayInv
<1> QED BY <1>1, <1>2, <1>3, <1>4 DEF Stop, CursorNamesItsGeneration, SkipsAreKnown

LEMMA StartupSteps ==
    ASSUME ReaderInv, Start \/ Boot
    PROVE  ReaderInv'
<1> USE RoomReaderAssumption DEF ReaderInv, historyVars
<1>1. CASE Start
  BY <1>1 DEF Start, TypeOK, MemoryInv, BatchInv, DelayInv,
              CursorNamesItsGeneration, SkipsAreKnown
<1>2. CASE Boot
  <2>1. PICK last \in LastSeq(0, 1) :
           /\ mem' = [known |-> TRUE, cursor |-> last, gen |-> room.gen]
           /\ disk' = mem'
    BY <1>2 DEF Boot
  <2>2. last \in 0 .. MaxSeq /\ room.gen \in 1 .. MaxGen
    BY ReadFacts DEF TypeOK
  <2>3. TypeOK'
    BY <1>2, <2>1, <2>2 DEF Boot, TypeOK, Entries
  <2> QED BY <1>2, <2>1, <2>2, <2>3
          DEF Boot, MemoryInv, BatchInv, DelayInv, CursorNamesItsGeneration,
              SkipsAreKnown
<1> QED BY <1>1, <1>2

LEMMA AnswerStep ==
    ASSUME ReaderInv, Answer
    PROVE  ReaderInv'
<1> USE RoomReaderAssumption DEF ReaderInv, historyVars
<1> DEFINE new == Newest(mem.cursor, Limit)
           gap == IF new = {} THEN {} ELSE (mem.cursor + 1) .. (Min(new) - 1)
<1>1. PICK last \in LastSeq(mem.cursor, Limit) :
         /\ batch' = [left |-> new, last |-> last, gen |-> room.gen,
                      handled |-> FALSE, save |-> mem.gen # room.gen]
         /\ events' = gap
  BY DEF Answer
<1>2. /\ mem.cursor \in 0 .. MaxSeq /\ mem.gen \in 0 .. MaxGen
      /\ room.gen \in 1 .. MaxGen /\ room.tail \in 0 .. MaxSeq
  BY DEF TypeOK, Entries
<1>3. /\ new \subseteq Seqs /\ \A s \in new : s > mem.cursor /\ s <= room.tail
      /\ \A s, t \in Seqs : s \in new /\ s <= t /\ t <= room.tail => t \in new
      /\ last \in 0 .. MaxSeq
  BY <1>2, ReadFacts DEF TypeOK
<1>4. new # {} => Min(new) \in new /\ \A s \in new : Min(new) <= s
  BY <1>3, MinIsLeast DEF Seqs
<1>5. gap \subseteq Seqs
  BY <1>2, <1>3, <1>4 DEF Seqs
<1>6. TypeOK'
  <2>1. mem' \in Entries /\ pc' = "handle"
    <3>1. mem \in Entries /\ mem' = [mem EXCEPT !.gen = room.gen]
      BY DEF Answer, ObservedGeneration, TypeOK
    <3>2. \A e \in Entries, g \in 0 .. MaxGen : [e EXCEPT !.gen = g] \in Entries
      BY DEF Entries
    <3>3. mem' \in Entries
      BY <1>2, <3>1, <3>2
    <3>4. pc' = "handle"
      BY DEF Answer
    <3> QED BY <3>3, <3>4
  <2>2. batch'.left \subseteq Seqs /\ events' \subseteq Seqs
    BY <1>1, <1>3, <1>5
  <2> QED BY <2>1, <2>2 DEF TypeOK, Answer
<1>7. batch' \in [left : SUBSET Seqs, last : 0 .. MaxSeq, gen : 0 .. MaxGen,
                  handled : BOOLEAN, save : BOOLEAN]
  BY <1>1, <1>2, <1>3
<1>8. MemoryInv'
  BY <1>1, <1>2 DEF Answer, MemoryInv, ObservedGeneration, GenerationOK,
                    TypeOK, Entries
<1>9. BatchInv'
  <2>1. mem'.cursor = mem.cursor
    BY DEF Answer, ObservedGeneration, TypeOK, Entries
  <2>2. ASSUME NEW s \in new, NEW t \in (mem.cursor + 1) .. s
        PROVE  t \in new \cup gap
    BY <1>2, <1>3, <1>4 DEF Seqs
  <2> QED BY <1>1, <1>3, <2>1, <2>2 DEF BatchInv
<1>10. DelayInv'
  BY DEF Answer, DelayInv
<1> QED BY <1>1, <1>6, <1>7, <1>8, <1>9, <1>10
        DEF Answer, CursorNamesItsGeneration, SkipsAreKnown

LEMMA WaitingSteps ==
    ASSUME ReaderInv, Unavailable \/ Sleep
    PROVE  ReaderInv'
<1> USE RoomReaderAssumption DEF ReaderInv
<1>1. CASE Unavailable
  <2>1. PICK asked \in RetryAfters \cup {-1} :
           /\ remaining' = Max({IF asked >= 0 THEN asked ELSE backoff, MinDelay})
           /\ owed' = Max({asked, 0})
    BY <1>1 DEF Unavailable
  <2>2. backoff \in Nat /\ asked \in Int /\ backoff' \in FirstBackoff .. MaxBackoff
    <3>1. backoff \in FirstBackoff .. MaxBackoff /\ backoff \in Nat
          /\ backoff * 2 \in Nat
      BY DEF TypeOK
    <3>2. backoff' = Min({backoff * 2, MaxBackoff})
      BY <1>1 DEF Unavailable, NextBackoff
    <3> QED BY <3>1, <3>2, MinOfTwo
  <2>3. remaining' \in Nat /\ owed' \in Nat /\ owed' <= remaining'
    <3>1. CASE asked >= 0
      BY <2>1, <2>2, <3>1, MaxOfTwo
    <3>2. CASE ~(asked >= 0)
      BY <2>1, <2>2, <3>2, MaxOfTwo
    <3> QED BY <3>1, <3>2
  <2> QED BY <1>1, <2>2, <2>3
          DEF Unavailable, TypeOK, MemoryInv, BatchInv, DelayInv,
              CursorNamesItsGeneration, SkipsAreKnown
<1>2. CASE Sleep
  <2> DEFINE chunk == Min({remaining, MaxSleep})
  <2>1. /\ remaining \in Nat /\ owed \in Nat /\ owed <= remaining
        /\ chunk \in Nat /\ chunk <= remaining
    BY <1>2, MinOfTwo DEF Sleep, TypeOK, DelayInv
  <2>2. /\ remaining' = remaining - chunk
        /\ owed' = IF owed - chunk >= 0 THEN owed - chunk ELSE 0
        /\ pc' = IF remaining - chunk = 0 THEN "read" ELSE "sleep"
    <3>1. owed - chunk \in Int /\ 0 \in Int
      BY <2>1
    <3>2. Max({owed - chunk, 0}) = IF owed - chunk >= 0 THEN owed - chunk ELSE 0
      BY <3>1, MaxOfTwo
    <3> QED BY <1>2, <3>2 DEF Sleep, Rest
  <2>3. remaining' \in Nat /\ owed' \in Nat /\ DelayInv'
    BY <2>1, <2>2 DEF DelayInv
  <2> QED BY <1>2, <2>2, <2>3
          DEF Sleep, TypeOK, MemoryInv, BatchInv, CursorNamesItsGeneration,
              SkipsAreKnown
<1> QED BY <1>1, <1>2

LEMMA HandleStep ==
    ASSUME ReaderInv, Handle
    PROVE  ReaderInv'
<1> USE RoomReaderAssumption DEF ReaderInv
<1> DEFINE s == Min(batch.left)
<1>1. /\ s \in batch.left /\ s \in Seqs /\ \A t \in batch.left : s <= t
      /\ batch.left \subseteq Seqs
  BY MinIsLeast DEF Handle, TypeOK, Seqs
<1>2. /\ mem' = [mem EXCEPT !.known = TRUE, !.cursor = s]
      /\ disk' = mem' /\ source' = batch.gen
      /\ passed' = passed \cup ((mem.cursor + 1) .. (s - 1))
      /\ batch' = [batch EXCEPT !.left = @ \ {s}, !.handled = TRUE,
                                !.save = FALSE]
  BY DEF Handle, Save
<1> HIDE DEF s
<1>3. mem \in Entries /\ mem.cursor \in 0 .. MaxSeq /\ s > mem.cursor
  BY <1>1 DEF TypeOK, Entries, Handle, BatchInv
<1>4. mem' \in Entries /\ mem'.known /\ mem'.cursor = s /\ mem'.gen = mem.gen
  <2>1. mem' = [known |-> TRUE, cursor |-> s, gen |-> mem.gen]
    BY <1>2, <1>3 DEF Entries
  <2>2. s \in 0 .. MaxSeq /\ mem.gen \in 0 .. MaxGen
    BY <1>1, <1>3 DEF Entries, Seqs
  <2> QED BY <2>1, <2>2 DEF Entries
<1>5. /\ batch' \in [left : SUBSET Seqs, last : 0 .. MaxSeq, gen : 0 .. MaxGen,
                     handled : BOOLEAN, save : BOOLEAN]
      /\ batch'.left = batch.left \ {s} /\ batch'.gen = batch.gen
  BY <1>2
<1>6. passed' \subseteq Seqs /\ passed' \subseteq events \cup reported
  <2>1. (mem.cursor + 1) .. s \subseteq batch.left \cup events
    BY <1>1 DEF BatchInv, Handle
  <2>2. ASSUME NEW t \in (mem.cursor + 1) .. (s - 1) PROVE t \in events
    BY <1>1, <1>3, <2>1 DEF Seqs
  <2> QED BY <1>2, <2>2 DEF TypeOK, SkipsAreKnown
<1>7. TypeOK'
  BY <1>2, <1>4, <1>5, <1>6 DEF TypeOK, Handle
<1>8. MemoryInv' /\ source' <= disk'.gen
  <2>1. mem.gen = batch.gen /\ mem.gen \in Nat
    BY <1>3 DEF MemoryInv, Handle, Entries
  <2>2. disk' = mem' /\ mem'.known /\ pc' = "handle"
    BY <1>2, <1>4 DEF Handle
  <2>3. mem' = [disk' EXCEPT !.gen = mem'.gen]
    BY <1>4, <2>2 DEF Entries
  <2>4. /\ mem'.gen = mem.gen /\ batch'.gen = mem.gen
        /\ disk'.gen <= mem'.gen /\ source' = mem.gen
    BY <1>2, <1>4, <1>5, <2>1, <2>2
  <2>5. MemoryInv'
    BY <2>2, <2>3, <2>4 DEF MemoryInv
  <2> QED BY <2>1, <2>2, <2>4, <2>5
<1>9. BatchInv'
  <2>1. ASSUME NEW u \in batch.left \ {s}
        PROVE  /\ u > s
               /\ (s + 1) .. u \subseteq (batch.left \ {s}) \cup events
    <3>1. u > s /\ (mem.cursor + 1) .. u \subseteq batch.left \cup events
      BY <1>1 DEF BatchInv, Handle, Seqs
    <3> QED BY <1>1, <1>3, <3>1 DEF Seqs
  <2> QED BY <1>4, <1>5, <2>1 DEF BatchInv, Handle
<1> QED BY <1>5, <1>6, <1>7, <1>8, <1>9
        DEF Handle, DelayInv, CursorNamesItsGeneration, SkipsAreKnown

LEMMA EndBatchStep ==
    ASSUME ReaderInv, EndBatch
    PROVE  ReaderInv'
<1> USE RoomReaderAssumption DEF ReaderInv
<1>1. /\ mem \in Entries /\ mem.cursor \in 0 .. MaxSeq /\ mem.gen \in 0 .. MaxGen
      /\ batch.last \in 0 .. MaxSeq /\ pc = "handle" /\ disk \in Entries
      /\ mem.gen = batch.gen /\ disk.gen <= mem.gen
      /\ mem = [disk EXCEPT !.gen = mem.gen]
      /\ disk.gen # mem.gen => batch.save
  BY DEF TypeOK, Entries, EndBatch, MemoryInv
<1>2. CASE ~batch.handled /\ batch.last > mem.cursor
  <2>1. /\ mem' = [mem EXCEPT !.known = TRUE, !.cursor = batch.last]
        /\ disk' = mem' /\ source' = batch.gen
        /\ passed' = passed \cup ((mem.cursor + 1) .. batch.last)
        /\ events' = events \cup ((mem.cursor + 1) .. batch.last)
    BY <1>2 DEF EndBatch, Save, SkipEvent
  <2>2. mem' \in Entries /\ mem'.known /\ mem'.gen = mem.gen
    BY <1>1, <2>1 DEF Entries
  <2>3. (mem.cursor + 1) .. batch.last \subseteq Seqs
    BY <1>1 DEF Seqs
  <2>4. TypeOK'
    BY <1>1, <2>1, <2>2, <2>3 DEF TypeOK, EndBatch
  <2>5. MemoryInv' /\ BatchInv' /\ DelayInv'
    BY <1>1, <2>1, <2>2 DEF MemoryInv, BatchInv, DelayInv, EndBatch
  <2>6. CursorNamesItsGeneration'
    BY <1>1, <2>1, <2>2 DEF CursorNamesItsGeneration
  <2> QED BY <2>1, <2>4, <2>5, <2>6 DEF EndBatch, SkipsAreKnown
<1>3. CASE ~(~batch.handled /\ batch.last > mem.cursor)
  <2>1. /\ disk' = IF batch.save THEN mem ELSE disk
        /\ UNCHANGED <<mem, passed, events, source>>
    BY <1>3 DEF EndBatch
  <2>2. disk' = mem
    BY <1>1, <2>1 DEF Entries
  <2>3. TypeOK' /\ BatchInv' /\ DelayInv'
    BY <1>1, <2>1, <2>2 DEF TypeOK, EndBatch, BatchInv, DelayInv
  <2>4. MemoryInv'
    BY <1>1, <2>1, <2>2 DEF EndBatch, MemoryInv, Entries
  <2>5. CursorNamesItsGeneration'
    BY <1>1, <2>1, <2>2 DEF CursorNamesItsGeneration, Entries, TypeOK
  <2> QED BY <2>1, <2>3, <2>4, <2>5 DEF EndBatch, SkipsAreKnown
<1> QED BY <1>2, <1>3

LEMMA PrintStep ==
    ASSUME ReaderInv, PrintEvents
    PROVE  ReaderInv'
<1> USE RoomReaderAssumption DEF ReaderInv
<1>1. TypeOK'
  BY DEF PrintEvents, TypeOK, NoBatch
<1>2. batch' \in [left : SUBSET Seqs, last : 0 .. MaxSeq, gen : 0 .. MaxGen,
                  handled : BOOLEAN, save : BOOLEAN]
  BY DEF PrintEvents, NoBatch
<1> QED BY <1>1, <1>2
        DEF PrintEvents, MemoryInv, BatchInv, DelayInv, CursorNamesItsGeneration,
            SkipsAreKnown

LEMMA ReaderStep == ReaderInv /\ [Next]_vars => ReaderInv'
<1> SUFFICES ASSUME ReaderInv, [Next]_vars PROVE ReaderInv'
  OBVIOUS
<1>1. CASE UNCHANGED vars
  BY <1>1 DEF vars, processVars, historyVars, ReaderInv, TypeOK, MemoryInv,
              BatchInv, DelayInv, CursorNamesItsGeneration, SkipsAreKnown
<1> QED BY <1>1, RoomSteps, StopSteps, StartupSteps, AnswerStep, WaitingSteps,
           HandleStep, EndBatchStep, PrintStep DEF Next, Work

-----------------------------------------------------------------------------
(* The theorems. *)

\* Room, file, process and history agree in every reachable state: the
\* invariant from which the polling loop's properties follow.
THEOREM ReaderInvariant == Spec => []ReaderInv
  BY ReaderInit, ReaderStep, PTL DEF Spec

\* The saved cursor was reached in the saved generation or an older one.
THEOREM GenerationIsNamed == Spec => []CursorNamesItsGeneration
<1>1. ReaderInv => CursorNamesItsGeneration
  BY DEF ReaderInv
<1> QED BY <1>1, ReaderInvariant, PTL

\* A running responder names every sequence it passes over.
THEOREM SkipsAreNamed == Spec => []SkipsAreKnown
<1>1. ReaderInv => SkipsAreKnown
  BY DEF ReaderInv
<1> QED BY <1>1, ReaderInvariant, PTL

\* No read is made while the server's cooldown lasts.
THEOREM CooldownIsKept == Spec => []RetryAfterRespected
<1>1. ReaderInv => RetryAfterRespected
  BY DEF ReaderInv, DelayInv, RetryAfterRespected
<1> QED BY <1>1, ReaderInvariant, PTL

\* No step moves the durable cursor or generation back.
THEOREM NoRewind == Spec => NeverRewinds
<1>1. ReaderInv /\ [Next]_vars
        => [disk'.cursor >= disk.cursor /\ disk'.gen >= disk.gen]_vars
  <2> SUFFICES ASSUME ReaderInv, Next
               PROVE  disk'.cursor >= disk.cursor /\ disk'.gen >= disk.gen
    OBVIOUS
  <2> USE RoomReaderAssumption DEF ReaderInv
  <2>1. /\ disk \in Entries /\ mem \in Entries
        /\ disk.cursor \in Nat /\ disk.gen \in Nat
        /\ mem.cursor \in Nat /\ mem.gen \in Nat
    BY DEF TypeOK, Entries
  <2>2. ASSUME disk' = disk
        PROVE  disk'.cursor >= disk.cursor /\ disk'.gen >= disk.gen
    BY <2>1, <2>2
  <2>3. CASE \/ Post \/ Expire \/ Recreate \/ Restore \/ Start \/ Answer
             \/ Refuse \/ Unavailable \/ Sleep \/ PrintEvents \/ HandleFails
             \/ Kill
    <3>1. disk' = disk
      BY <2>3 DEF Post, Expire, Recreate, Restore, Start, Answer, Refuse,
                  Unavailable, Sleep, PrintEvents, HandleFails, Kill
    <3> QED BY <2>2, <3>1
  <2>4. CASE Boot
    <3>1. PICK last \in LastSeq(0, 1) :
             /\ mem' = [known |-> TRUE, cursor |-> last, gen |-> room.gen]
             /\ disk' = mem'
      BY <2>4 DEF Boot
    <3>2. last \in 0 .. MaxSeq /\ room.gen \in 1 .. MaxGen
      BY ReadFacts DEF TypeOK
    <3>3. mem = disk /\ disk.cursor = 0 /\ room.gen >= mem.gen
      BY <2>4 DEF Boot, MemoryInv, GenerationOK
    <3> QED BY <2>1, <3>1, <3>2, <3>3
  <2>5. ASSUME pc = "handle"
        PROVE  mem.cursor = disk.cursor /\ mem.gen >= disk.gen
    BY <2>1, <2>5 DEF MemoryInv, Entries
  <2>6. CASE Handle
    <3>1. /\ Min(batch.left) \in batch.left /\ Min(batch.left) \in Nat
          /\ Min(batch.left) > mem.cursor
      BY <2>6, MinIsLeast DEF Handle, TypeOK, Seqs, BatchInv
    <3>2. disk'.cursor = Min(batch.left) /\ disk'.gen = mem.gen
      BY <2>1, <2>6 DEF Handle, Save, Entries
    <3> QED BY <2>1, <2>5, <2>6, <3>1, <3>2 DEF Handle
  <2>7. CASE EndBatch
    <3>1. \/ disk'.cursor = batch.last /\ disk'.gen = mem.gen
             /\ batch.last > mem.cursor
          \/ disk' = disk \/ disk' = mem
      BY <2>1, <2>7 DEF EndBatch, Save, Entries
    <3>2. batch.last \in Nat /\ pc = "handle"
      BY <2>7 DEF EndBatch
    <3> QED BY <2>1, <2>2, <2>5, <3>1, <3>2
  <2> QED BY <2>3, <2>4, <2>6, <2>7 DEF Next, Work
<1> QED BY <1>1, ReaderInvariant, PTL DEF Spec, NeverRewinds
=============================================================================
