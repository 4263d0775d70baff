-------------------------- MODULE WorkReceipt_proofs --------------------------
(* Proofs of the safety properties of WorkReceipt for every number of       *)
(* operators, revisions, streams, contents and results.                     *)
EXTENDS WorkReceipt, TLAPS

-----------------------------------------------------------------------------
(* Facts about the operators the model is built from. *)

LEMMA EnvelopeIsSome == \A e \in Envelope : e # NoEnvelope
  BY DEF Envelope, NoEnvelope

LEMMA EmptyTypes ==
    /\ NoDir \in Dir /\ EmptyDir \in Dir /\ ~NoDir.made /\ EmptyDir.made
    /\ NoDir.receipt = NoEnvelope /\ EmptyDir.receipt = NoEnvelope
    /\ IdleJob \in Job /\ IdleJob.doc = NoEnvelope /\ ~IdleJob.store
  BY DEF NoDir, EmptyDir, Dir, NoOutput, IdleJob, Job

\* Every process but p stays where it is.
Others(p) == \A q \in Procs \ {p} : pc'[q] = pc[q] /\ job'[q] = job[q]

LEMMA NoteFacts ==
    ASSUME NEW p \in Procs, job \in [Procs -> Job], NEW x \in Job, Note(p, x)
    PROVE  /\ job' \in [Procs -> Job] /\ job'[p] = x
           /\ \A q \in Procs \ {p} : job'[q] = job[q]
  BY DEF Note

LEMMA GotoFacts ==
    ASSUME NEW p \in Procs, pc \in [Procs -> PC], NEW step \in PC, Goto(p, step)
    PROVE  /\ pc' \in [Procs -> PC] /\ pc'[p] = step
           /\ \A q \in Procs \ {p} : pc'[q] = pc[q]
  BY DEF Goto

LEMMA LeaveFacts ==
    ASSUME NEW p \in Procs, pc \in [Procs -> PC], job \in [Procs -> Job],
           NEW step \in {"idle", "cleanup"}, Leave(p, step)
    PROVE  /\ pc' \in [Procs -> PC] /\ job' \in [Procs -> Job] /\ Others(p)
           /\ pc'[p] = step /\ job'[p] = IdleJob /\ JobInv(p)'
<1>1. /\ pc' \in [Procs -> PC] /\ pc'[p] = step
      /\ \A q \in Procs \ {p} : pc'[q] = pc[q]
  BY GotoFacts DEF Leave, PC
<1>2. /\ job' \in [Procs -> Job] /\ job'[p] = IdleJob
      /\ \A q \in Procs \ {p} : job'[q] = job[q]
  BY NoteFacts, EmptyTypes DEF Leave
<1>3. JobInv(p)'
  BY <1>1, <1>2, EmptyTypes DEF JobInv, Bundled, PC
<1> QED BY <1>1, <1>2, <1>3 DEF Others

\* The receipt of a process that has run its command.
LEMMA ReceiptType ==
    ASSUME NEW p \in Procs, job \in [Procs -> Job], JobInv(p),
           pc[p] \in Bundled \ {"start", "wait", "hash"}
    PROVE  /\ Receipt(p) \in Envelope /\ Receipt(p).counters = {}
           /\ Receipt(p).issuer = p /\ Receipt(p).claim = ClaimOf(p)
           /\ Receipt(p).claim.out = job[p].digest
<1>1. /\ job[p].rev \in Revisions /\ job[p].result \in Results
      /\ job[p].completed \in Times /\ job[p].digest \in [Streams -> Contents]
  BY DEF JobInv, Bundled
<1>2. ClaimOf(p) \in Claim
  BY <1>1 DEF ClaimOf, Claim
<1> QED BY <1>1, <1>2 DEF Receipt, Envelope, ClaimOf

\* What is known of the envelopes in circulation.
Sound(e) == e \in Envelope /\ \A c \in e.counters : c.observed >= e.completed

-----------------------------------------------------------------------------
(* One process moves. *)

\* A step of p keeps the invariant if what it leaves of the directory, and of
\* p, is in order, and either the directory is untouched or nobody else works
\* on it.
LEMMA StepOf ==
    ASSUME NEW p \in Procs, BundleInv, TypeOK', job' \in [Procs -> Job],
           JobInv(p)', Others(p), envelopes \subseteq envelopes',
           DirInv', OwnerInv(p)',
           \/ UNCHANGED <<dir, synced, fate>> /\ (Owns(p)' => Owns(p))
           \/ \A q \in Procs \ {p} : ~Owns(q),
           fate' = "work" => Owns(p)' \/ (fate = "work" /\ ~Owns(p))
    PROVE  BundleInv'
<1>1. \A q \in Procs \ {p} : JobInv(q)' /\ (Owns(q)' <=> Owns(q))
  BY DEF BundleInv, JobInv, Others, Owns
<1>2. SoleOwner'
  BY <1>1 DEF SoleOwner, BundleInv
<1>3. \A q \in Procs \ {p} : OwnerInv(q)'
  <2> SUFFICES ASSUME NEW q \in Procs \ {p}, Owns(q)' PROVE OwnerInv(q)'
    BY DEF OwnerInv
  <2>1. Owns(q) /\ UNCHANGED <<dir, synced, fate>>
    BY <1>1
  <2> QED BY <2>1 DEF OwnerInv, BundleInv, Others
<1>4. FailureLeavesNothing'
  BY <1>1 DEF FailureLeavesNothing, BundleInv
<1> QED BY <1>1, <1>2, <1>3, <1>4 DEF BundleInv

\* The case that leaves the directory alone.
LEMMA FilesStand ==
    ASSUME NEW p \in Procs, BundleInv, pc' \in [Procs -> PC],
           job' \in [Procs -> Job], JobInv(p)', Others(p),
           UNCHANGED <<checkout, dir, synced, fate>>,
           envelopes \subseteq envelopes',
           \A e \in envelopes' \ envelopes : Sound(e),
           OwnerInv(p)', Owns(p)' <=> Owns(p)
    PROVE  BundleInv'
<1>1. TypeOK'
  BY DEF BundleInv, TypeOK, Sound
<1>2. DirInv'
  BY DEF BundleInv, DirInv
<1>3. fate' = "work" => Owns(p)' \/ (fate = "work" /\ ~Owns(p))
  OBVIOUS
<1> QED BY <1>1, <1>2, <1>3, StepOf

\* The case of the process that works on the directory.
LEMMA OwnerActs ==
    ASSUME NEW p \in Procs, BundleInv, Owns(p), pc' \in [Procs -> PC],
           job' \in [Procs -> Job], JobInv(p)', Others(p),
           UNCHANGED checkout, envelopes \subseteq envelopes',
           \A e \in envelopes' \ envelopes : Sound(e),
           dir' \in Dir, synced' \in Dir,
           ~dir'.made => dir' = NoDir, ~synced'.made => synced' = NoDir,
           fate' \in {"none", "work", "left", "removing"},
           DirInv', OwnerInv(p)', fate' = "work" => Owns(p)'
    PROVE  BundleInv'
<1>1. TypeOK'
  BY DEF BundleInv, TypeOK, Sound
<1>2. \A q \in Procs \ {p} : ~Owns(q)
  BY DEF BundleInv, SoleOwner
<1> QED BY <1>1, <1>2, StepOf

\* A process that stores its output and is past mkdir works on the directory.
LEMMA StoringOwns ==
    ASSUME NEW p \in Procs, BundleInv,
           pc[p] \in {"open", "fill", "check", "pending", "sync", "link",
                      "unlink", "finish"}
    PROVE  job[p].store /\ Owns(p)
  BY DEF BundleInv, JobInv, Owns, Bundled, PC

LEMMA Typed ==
    ASSUME BundleInv
    PROVE  /\ pc \in [Procs -> PC] /\ job \in [Procs -> Job]
           /\ dir \in Dir /\ synced \in Dir
           /\ ~dir.made => dir = NoDir
           /\ ~synced.made => synced = NoDir
           /\ \A p \in Procs : JobInv(p) /\ OwnerInv(p) /\ job[p] \in Job
  BY DEF BundleInv, TypeOK

-----------------------------------------------------------------------------
(* Steps that leave the directory alone. *)

LEMMA BeginSteps ==
    ASSUME NEW p \in Procs, BundleInv,
           \/ \E store \in BOOLEAN : Create(p, store)
           \/ \E e \in envelopes : BeginCountersign(p, e)
    PROVE  BundleInv'
<1> USE Typed, EmptyTypes
<1>1. UNCHANGED <<checkout, dir, synced, envelopes, fate>> /\ pc[p] = "idle"
  BY DEF Create, BeginCountersign
<1>2. ~Owns(p)
  <2>1. pc[p] \notin Bundled \cup {"secure", "cleanup"}
    BY <1>1 DEF Bundled
  <2> QED BY <2>1 DEF Owns
<1>3. ASSUME NEW store \in BOOLEAN, Create(p, store) PROVE BundleInv'
  <2> DEFINE x == [IdleJob EXCEPT !.rev = checkout, !.store = store]
             y == IF store THEN "reserve" ELSE "start"
  <2>1. checkout \in Revisions
    BY <1>3 DEF BundleInv, TypeOK, Create
  <2>2. x \in Job /\ x.rev \in Revisions /\ x.store = store /\ x.doc = NoEnvelope
    BY <2>1 DEF IdleJob, Job
  <2>3. y \in PC
    BY DEF PC, Bundled
  <2> HIDE DEF x
  <2>4. /\ job' \in [Procs -> Job] /\ job'[p] = x
        /\ \A q \in Procs \ {p} : job'[q] = job[q]
    BY <1>3, <2>2, NoteFacts DEF Create, x
  <2>5. /\ pc' \in [Procs -> PC] /\ pc'[p] = y
        /\ \A q \in Procs \ {p} : pc'[q] = pc[q]
    BY <1>3, <2>3, GotoFacts DEF Create
  <2>6. JobInv(p)'
    BY <2>2, <2>4, <2>5 DEF JobInv, PC, Bundled
  <2>7. ~Owns(p)'
    BY <2>2, <2>4, <2>5 DEF Owns, Bundled
  <2> QED BY <1>1, <1>2, <2>4, <2>5, <2>6, <2>7, FilesStand DEF Others, OwnerInv
<1>4. ASSUME NEW e \in envelopes, BeginCountersign(p, e) PROVE BundleInv'
  <2> DEFINE x == [IdleJob EXCEPT !.rev = checkout, !.doc = e]
  <2>1. e \in Envelope /\ checkout = e.claim.rev /\ checkout \in Revisions
    BY <1>4 DEF BundleInv, TypeOK, BeginCountersign, Envelope, Claim
  <2>2. x \in Job /\ x.rev \in Revisions /\ ~x.store /\ x.doc = e
    BY <2>1 DEF IdleJob, Job
  <2> HIDE DEF x
  <2>3. /\ job' \in [Procs -> Job] /\ job'[p] = x
        /\ \A q \in Procs \ {p} : job'[q] = job[q]
    BY <1>4, <2>2, NoteFacts DEF BeginCountersign, x
  <2>4. /\ pc' \in [Procs -> PC] /\ pc'[p] = "start"
        /\ \A q \in Procs \ {p} : pc'[q] = pc[q]
    BY <1>4, GotoFacts DEF BeginCountersign, PC, Bundled
  <2>5. e.issuer # p /\ \A c \in e.counters : c.verifier # p
    BY <1>4 DEF BeginCountersign
  <2>6. JobInv(p)'
    BY <1>1, <2>2, <2>3, <2>4, <2>5 DEF JobInv, PC, Bundled
  <2>7. ~Owns(p)'
    BY <2>2, <2>3, <2>4 DEF Owns
  <2> QED BY <1>1, <1>2, <2>3, <2>4, <2>6, <2>7, FilesStand DEF Others, OwnerInv
<1> QED BY <1>3, <1>4

\* A running process that keeps its choice whether to store goes on from one
\* of its steps to the next.
LEMMA GoesOn ==
    ASSUME NEW p \in Procs, BundleInv, pc' \in [Procs -> PC],
           job' \in [Procs -> Job], JobInv(p)', Others(p),
           UNCHANGED <<checkout, dir, synced, envelopes, fate>>,
           pc[p] \in Bundled \ {"unlink", "finish"},
           job'[p].store = job[p].store,
           \/ pc'[p] \in {"start", "wait", "hash", "open", "fill", "inspect",
                          "check"}
           \/ pc'[p] = "pending" /\ dir.out = job'[p].digest
    PROVE  BundleInv'
<1>1. Owns(p)' <=> Owns(p)
  BY DEF Owns, Bundled
<1>2. OwnerInv(p)'
  BY <1>1, Typed DEF OwnerInv, Bundled
<1> QED BY <1>1, <1>2, FilesStand

LEMMA ExecuteSteps ==
    ASSUME NEW p \in Procs, BundleInv,
           \/ Launch(p) \/ Exit(p) \/ HashStreams(p) \/ Scribble(p)
           \/ OpenNew(p) /\ \A s \in Streams : dir.out[s] # "absent"
    PROVE  BundleInv'
<1> USE WorkReceiptAssumption DEF Note, Goto
<1>0. /\ pc \in [Procs -> PC] /\ job \in [Procs -> Job] /\ job[p] \in Job
      /\ JobInv(p)
  BY Typed
<1>1. CASE Launch(p)
  <2>1. PICK t \in Times : job' = [job EXCEPT ![p] = [job[p] EXCEPT !.started = t]]
    BY <1>1 DEF Launch
  <2> DEFINE x == [job[p] EXCEPT !.started = t]
  <2>2. /\ x \in Job /\ x.store = job[p].store /\ x.doc = job[p].doc
        /\ x.rev = job[p].rev
    BY <1>0 DEF Job
  <2> HIDE DEF x
  <2>3. pc[p] = "start" /\ pc' = [pc EXCEPT ![p] = "wait"]
        /\ UNCHANGED <<checkout, dir, synced, envelopes, fate>>
    BY <1>1 DEF Launch
  <2>4. /\ job' \in [Procs -> Job] /\ pc' \in [Procs -> PC] /\ Others(p)
        /\ job'[p] = x /\ pc'[p] = "wait"
    BY <1>0, <2>1, <2>2, <2>3 DEF x, Others, PC, Bundled
  <2>5. JobInv(p)'
    BY <1>0, <2>2, <2>3, <2>4 DEF JobInv, PC, Bundled
  <2> QED BY <2>2, <2>3, <2>4, <2>5, GoesOn DEF Bundled
<1>2. CASE Exit(p)
  <2>1. PICK t \in Times, r \in Results, out \in [Streams -> Contents] :
           job' = [job EXCEPT ![p] =
                      [job[p] EXCEPT !.completed = t, !.result = r, !.stream = out]]
    BY <1>2 DEF Exit
  <2> DEFINE x == [job[p] EXCEPT !.completed = t, !.result = r, !.stream = out]
  <2>2. /\ x \in Job /\ x.store = job[p].store /\ x.doc = job[p].doc
        /\ x.rev = job[p].rev /\ x.completed \in Times /\ x.result \in Results
        /\ x.stream \in [Streams -> Contents]
    BY <1>0 DEF Job
  <2> HIDE DEF x
  <2>3. pc[p] = "wait" /\ pc' = [pc EXCEPT ![p] = "hash"]
        /\ UNCHANGED <<checkout, dir, synced, envelopes, fate>>
    BY <1>2 DEF Exit
  <2>4. /\ job' \in [Procs -> Job] /\ pc' \in [Procs -> PC] /\ Others(p)
        /\ job'[p] = x /\ pc'[p] = "hash"
    BY <1>0, <2>1, <2>2, <2>3 DEF x, Others, PC, Bundled
  <2>5. JobInv(p)'
    BY <1>0, <2>2, <2>3, <2>4 DEF JobInv, PC, Bundled
  <2> QED BY <2>2, <2>3, <2>4, <2>5, GoesOn DEF Bundled
<1>3. CASE HashStreams(p)
  <2> DEFINE x == [job[p] EXCEPT !.digest = job[p].stream,
                                 !.stream = IF job[p].store THEN @ ELSE NoOutput]
             step == IF job[p].store THEN "open" ELSE "inspect"
  <2>1. pc[p] = "hash" /\ job[p].stream \in [Streams -> Contents]
    BY <1>0, <1>3 DEF HashStreams, JobInv
  <2>2. /\ x \in Job /\ x.store = job[p].store /\ x.doc = job[p].doc
        /\ x.rev = job[p].rev /\ x.completed = job[p].completed
        /\ x.result = job[p].result /\ x.digest = job[p].stream
        /\ job[p].store => x.stream = job[p].stream
    BY <1>0, <2>1 DEF Job, NoOutput
  <2> HIDE DEF x
  <2>3. pc' = [pc EXCEPT ![p] = step]
        /\ UNCHANGED <<checkout, dir, synced, envelopes, fate>>
    BY <1>3 DEF HashStreams
  <2>4. /\ job' \in [Procs -> Job] /\ pc' \in [Procs -> PC] /\ Others(p)
        /\ job'[p] = x /\ pc'[p] = step
    BY <1>0, <1>3, <2>2, <2>3 DEF x, HashStreams, Others, PC, Bundled
  <2>5. JobInv(p)'
    BY <1>0, <2>1, <2>2, <2>3, <2>4 DEF JobInv, PC, Bundled
  <2> QED BY <2>1, <2>2, <2>3, <2>4, <2>5, GoesOn DEF Bundled
<1>4. CASE Scribble(p)
  <2>1. PICK s \in Streams, c \in Contents :
           job' = [job EXCEPT ![p] = [job[p] EXCEPT !.stream[s] = c]]
    BY <1>4 DEF Scribble
  <2> DEFINE x == [job[p] EXCEPT !.stream[s] = c]
  <2>2. pc[p] \in {"open", "fill"} /\ job[p].stream \in [Streams -> Contents]
        /\ pc' = pc /\ UNCHANGED <<checkout, dir, synced, envelopes, fate>>
    BY <1>0, <1>4 DEF Scribble, JobInv
  <2>3. /\ x \in Job /\ x.store = job[p].store /\ x.doc = job[p].doc
        /\ x.rev = job[p].rev /\ x.completed = job[p].completed
        /\ x.result = job[p].result /\ x.digest = job[p].digest
        /\ x.stream \in [Streams -> Contents]
    BY <1>0, <2>2 DEF Job
  <2> HIDE DEF x
  <2>4. /\ job' \in [Procs -> Job] /\ pc' \in [Procs -> PC] /\ Others(p)
        /\ job'[p] = x /\ pc'[p] = pc[p]
    BY <1>0, <2>1, <2>2, <2>3 DEF x, Others
  <2>5. JobInv(p)'
    BY <1>0, <2>2, <2>3, <2>4 DEF JobInv, PC, Bundled
  <2> QED BY <2>2, <2>3, <2>4, <2>5, GoesOn DEF Bundled
<1>5. CASE OpenNew(p) /\ \A s \in Streams : dir.out[s] # "absent"
  <2> DEFINE x == [job[p] EXCEPT !.stream = NoOutput]
  <2>1. /\ x \in Job /\ x.store = job[p].store /\ x.doc = job[p].doc
        /\ x.rev = job[p].rev /\ x.completed = job[p].completed
        /\ x.result = job[p].result /\ x.digest = job[p].digest
    BY <1>0 DEF Job, NoOutput
  <2> HIDE DEF x
  <2>2. pc[p] = "open" /\ pc' = [pc EXCEPT ![p] = "inspect"]
        /\ UNCHANGED <<checkout, dir, synced, envelopes, fate>>
    BY <1>5 DEF OpenNew
  <2>3. /\ job' \in [Procs -> Job] /\ pc' \in [Procs -> PC] /\ Others(p)
        /\ job'[p] = x /\ pc'[p] = "inspect"
    BY <1>0, <1>5, <2>1, <2>2 DEF x, OpenNew, Others, PC, Bundled
  <2>4. JobInv(p)'
    BY <1>0, <2>1, <2>2, <2>3 DEF JobInv, PC, Bundled
  <2> QED BY <2>1, <2>2, <2>3, <2>4, GoesOn DEF Bundled
<1> QED BY <1>1, <1>2, <1>3, <1>4, <1>5

\* Signing, countersigning and the check of the stored files.
LEMMA SignSteps ==
    ASSUME NEW p \in Procs, BundleInv,
           Sign(p) \/ CheckOutputs(p) \/ Countersign(p)
    PROVE  BundleInv'
<1>0. /\ pc \in [Procs -> PC] /\ job \in [Procs -> Job] /\ job[p] \in Job
      /\ JobInv(p)
  BY Typed
<1>1. CASE Sign(p) /\ job[p].store
  <2>1. /\ pc[p] = "inspect" /\ Goto(p, "check")
        /\ UNCHANGED <<checkout, dir, synced, envelopes, fate, job>>
    BY <1>1 DEF Sign
  <2>2. /\ pc' \in [Procs -> PC] /\ pc'[p] = "check" /\ Others(p)
    BY <1>0, <2>1, GotoFacts DEF Others, PC, Bundled
  <2>3. JobInv(p)'
    BY <1>0, <1>1, <2>1, <2>2 DEF JobInv, PC, Bundled
  <2> QED BY <1>0, <2>1, <2>2, <2>3, GoesOn DEF Bundled
<1>2. CASE Sign(p) /\ ~job[p].store
  <2>1. /\ pc[p] = "inspect" /\ Leave(p, "idle") /\ Verified(Receipt(p))
        /\ envelopes' = envelopes \cup {Receipt(p)}
        /\ UNCHANGED <<checkout, dir, synced, fate>>
    BY <1>2 DEF Sign
  <2>2. /\ pc' \in [Procs -> PC] /\ job' \in [Procs -> Job] /\ Others(p)
        /\ pc'[p] = "idle" /\ job'[p] = IdleJob /\ JobInv(p)'
    BY <1>0, <2>1, LeaveFacts
  <2>3. ~Owns(p) /\ ~Owns(p)'
    BY <1>2, <2>1, <2>2, EmptyTypes DEF Owns, Bundled
  <2>4. Sound(Receipt(p))
    BY <1>0, <2>1, ReceiptType DEF Sound, Bundled
  <2> QED BY <2>1, <2>2, <2>3, <2>4, FilesStand DEF OwnerInv
<1>3. CASE CheckOutputs(p)
  <2>1. /\ pc[p] = "check" /\ Goto(p, "pending") /\ dir.out = job[p].digest
        /\ UNCHANGED <<checkout, dir, synced, envelopes, fate, job>>
    BY <1>3 DEF CheckOutputs
  <2>2. /\ pc' \in [Procs -> PC] /\ pc'[p] = "pending" /\ Others(p)
    BY <1>0, <2>1, GotoFacts DEF Others, PC, Bundled
  <2>3. JobInv(p)'
    BY <1>0, <2>1, <2>2 DEF JobInv, PC, Bundled
  <2> QED BY <1>0, <2>1, <2>2, <2>3, GoesOn DEF Bundled
<1>4. CASE Countersign(p)
  <2>1. PICK t \in Times :
           LET updated == [job[p].doc EXCEPT !.counters =
                              @ \cup {[verifier |-> p, observed |-> t]}]
           IN  Verified(updated) /\ envelopes' = envelopes \cup {updated}
    BY <1>4 DEF Countersign
  <2> DEFINE updated == [job[p].doc EXCEPT !.counters =
                              @ \cup {[verifier |-> p, observed |-> t]}]
  <2>2. /\ pc[p] = "inspect" /\ Leave(p, "idle") /\ job[p].doc # NoEnvelope
        /\ UNCHANGED <<checkout, dir, synced, fate>>
    BY <1>4 DEF Countersign
  <2>3. /\ pc' \in [Procs -> PC] /\ job' \in [Procs -> Job] /\ Others(p)
        /\ pc'[p] = "idle" /\ job'[p] = IdleJob /\ JobInv(p)'
    BY <1>0, <2>2, LeaveFacts
  <2>4. ~Owns(p) /\ ~Owns(p)'
    BY <1>0, <2>2, <2>3, EmptyTypes DEF Owns, Bundled, JobInv
  <2>5. updated \in Envelope
    <3>1. job[p].doc \in Envelope
      BY <1>0, <2>2 DEF Job
    <3>2. [verifier |-> p, observed |-> t] \in Countersignature
      BY DEF Countersignature
    <3> QED BY <3>1, <3>2 DEF Envelope
  <2>6. Sound(updated)
    BY <2>1, <2>5 DEF Sound, Verified
  <2> QED BY <2>1, <2>2, <2>3, <2>4, <2>6, FilesStand DEF OwnerInv
<1> QED BY <1>1, <1>2, <1>3, <1>4

\* An error sends a process that stores to its cleanup, any other away.
LEMMA FailStep ==
    ASSUME NEW p \in Procs, BundleInv, Fail(p)
    PROVE  BundleInv'
<1> DEFINE step == IF job[p].store THEN "cleanup" ELSE "idle"
<1>1. /\ pc[p] \in Bundled /\ Leave(p, step)
      /\ UNCHANGED <<checkout, dir, synced, envelopes, fate>>
  BY DEF Fail
<1>2. /\ pc' \in [Procs -> PC] /\ job' \in [Procs -> Job] /\ Others(p)
      /\ pc'[p] = step /\ job'[p] = IdleJob /\ JobInv(p)'
  BY <1>1, Typed, LeaveFacts
<1>3. Owns(p)' <=> Owns(p)
  BY <1>1, <1>2, EmptyTypes, Typed DEF Owns, Bundled
<1>4. OwnerInv(p)'
  <2> SUFFICES ASSUME Owns(p)' PROVE OwnerInv(p)'
    BY DEF OwnerInv
  <2>1. Owns(p) /\ pc'[p] = "cleanup"
    BY <1>2, <1>3, EmptyTypes DEF Owns, Bundled
  <2>2. dir'.made /\ fate' \in {"work", "removing"}
    BY <1>1, <2>1, Typed DEF OwnerInv
  <2> QED BY <2>1, <2>2 DEF OwnerInv
<1> QED BY <1>1, <1>2, <1>3, <1>4, FilesStand

-----------------------------------------------------------------------------
(* Steps that make, fill or remove the directory. *)

LEMMA ReserveSteps ==
    ASSUME NEW p \in Procs, BundleInv, Reserve(p) \/ Secure(p)
    PROVE  BundleInv'
<1> USE Typed, EmptyTypes
<1>0. /\ pc \in [Procs -> PC] /\ job \in [Procs -> Job] /\ JobInv(p)
      /\ UNCHANGED <<checkout, envelopes>>
  BY DEF Reserve, Secure
<1>1. CASE Reserve(p) /\ dir.made
  <2>1. /\ pc[p] = "reserve" /\ Leave(p, "idle") /\ UNCHANGED <<dir, synced, fate>>
    BY <1>1 DEF Reserve
  <2>2. /\ pc' \in [Procs -> PC] /\ job' \in [Procs -> Job] /\ Others(p)
        /\ pc'[p] = "idle" /\ job'[p] = IdleJob /\ JobInv(p)'
    BY <1>0, <2>1, LeaveFacts
  <2>3. ~Owns(p) /\ ~Owns(p)'
    BY <2>1, <2>2 DEF Owns, Bundled
  <2> QED BY <1>0, <2>1, <2>2, <2>3, FilesStand DEF OwnerInv
<1>2. CASE Reserve(p) /\ ~dir.made
  <2>1. /\ pc[p] = "reserve" /\ Goto(p, "secure") /\ job' = job
        /\ dir' = EmptyDir /\ synced' = EmptyDir /\ fate' = "work"
    BY <1>2 DEF Reserve
  <2>2. pc' \in [Procs -> PC] /\ pc'[p] = "secure" /\ Others(p)
    BY <1>0, <2>1, GotoFacts DEF Others, PC
  <2>3. \A q \in Procs : ~Owns(q)
    BY <1>2 DEF OwnerInv
  <2>4. JobInv(p)'
    BY <1>0, <2>1, <2>2 DEF JobInv, PC, Bundled
  <2>5. Owns(p)' /\ OwnerInv(p)' /\ DirInv'
    BY <2>1, <2>2 DEF Owns, OwnerInv, DirInv
  <2>6. TypeOK'
    BY <1>0, <2>1, <2>2 DEF BundleInv, TypeOK
  <2> QED BY <1>0, <2>1, <2>2, <2>3, <2>4, <2>5, <2>6, StepOf
<1>3. CASE Secure(p) /\ dir' = dir
  <2>1. Owns(p) /\ pc[p] = "secure" /\ job[p].store
    BY <1>0, <1>3 DEF Secure, Owns, JobInv, PC, Bundled
  <2>2. /\ Goto(p, "start") /\ UNCHANGED <<dir, synced, job, fate>>
    <3>1. dir # NoDir
      BY <2>1 DEF OwnerInv
    <3> QED BY <1>3, <3>1 DEF Secure
  <2>3. pc' \in [Procs -> PC] /\ pc'[p] = "start" /\ Others(p)
    BY <1>0, <2>2, GotoFacts DEF Others, PC, Bundled
  <2>4. JobInv(p)'
    BY <1>0, <2>1, <2>2, <2>3 DEF JobInv, PC, Bundled
  <2>5. Owns(p)' /\ OwnerInv(p)'
    BY <2>1, <2>2, <2>3 DEF Owns, OwnerInv, Bundled
  <2> QED BY <1>0, <2>1, <2>2, <2>3, <2>4, <2>5, FilesStand
<1>4. CASE Secure(p) /\ dir' # dir
  <2>1. Owns(p)
    BY <1>4 DEF Secure, Owns
  <2>2. /\ dir' = NoDir /\ synced' = NoDir /\ fate' = "none" /\ Leave(p, "idle")
    BY <1>4 DEF Secure
  <2>3. /\ pc' \in [Procs -> PC] /\ job' \in [Procs -> Job] /\ Others(p)
        /\ pc'[p] = "idle" /\ job'[p] = IdleJob /\ JobInv(p)'
    BY <1>0, <2>2, LeaveFacts
  <2>4. ~Owns(p)' /\ DirInv'
    BY <2>2, <2>3 DEF Owns, DirInv
  <2> QED BY <1>0, <2>1, <2>2, <2>3, <2>4, OwnerActs DEF OwnerInv
<1> QED BY <1>1, <1>2, <1>3, <1>4

LEMMA WriteSteps ==
    ASSUME NEW p \in Procs, BundleInv,
           \/ OpenNew(p) /\ ~(\A s \in Streams : dir.out[s] # "absent")
           \/ FillNew(p) \/ WritePending(p) \/ UnlinkPending(p) \/ LinkReceipt(p)
    PROVE  BundleInv'
<1>0. /\ pc \in [Procs -> PC] /\ job \in [Procs -> Job] /\ JobInv(p)
      /\ dir \in Dir /\ synced \in Dir /\ OwnerInv(p) /\ DirInv
      /\ ~synced.made => synced = NoDir
  BY Typed DEF BundleInv
<1>1. /\ UNCHANGED <<checkout, synced, job, fate>>
      /\ pc[p] \in {"open", "fill", "pending", "unlink", "link"}
      /\ envelopes \subseteq envelopes'
  BY DEF OpenNew, FillNew, WritePending, UnlinkPending, LinkReceipt
<1>e. \A e \in envelopes' \ envelopes : Sound(e)
  <2>1. CASE ~LinkReceipt(p)
    BY <2>1 DEF OpenNew, FillNew, WritePending, UnlinkPending
  <2>2. CASE LinkReceipt(p)
    <3>1. Receipt(p) \in Envelope /\ Receipt(p).counters = {}
      BY <1>0, <2>2, ReceiptType DEF LinkReceipt, Bundled
    <3> QED BY <2>2, <3>1 DEF LinkReceipt, Sound
  <2> QED BY <2>1, <2>2
<1>2. Owns(p) /\ job[p].store /\ dir.made /\ fate = "work"
  BY <1>0, <1>1, StoringOwns DEF OwnerInv
<1>3. ASSUME NEW step \in Bundled, pc' = [pc EXCEPT ![p] = step],
             JobInv(p)', dir' \in Dir, dir'.made, DirInv', OwnerInv(p)'
      PROVE  BundleInv'
  <2>1. /\ pc' \in [Procs -> PC] /\ pc'[p] = step /\ Others(p)
    BY <1>0, <1>1, <1>3 DEF Others, PC
  <2>2. Owns(p)'
    BY <1>1, <1>2, <2>1 DEF Owns
  <2> QED BY <1>0, <1>1, <1>e, <1>2, <1>3, <2>1, <2>2, OwnerActs
<1>4. CASE OpenNew(p) /\ ~(\A s \in Streams : dir.out[s] # "absent")
  <2>1. PICK s \in Streams : dir' = [dir EXCEPT !.out[s] = "partial"]
    BY <1>4 DEF OpenNew
  <2>2. pc[p] = "open" /\ pc' = [pc EXCEPT ![p] = "fill"] /\ pc'[p] = "fill"
    BY <1>0, <1>4 DEF OpenNew, Goto
  <2>3. dir' \in Dir /\ dir'.made = dir.made /\ dir'.receipt = dir.receipt
    BY <1>0, <2>1 DEF Dir
  <2>4. dir.receipt = NoEnvelope
    BY <1>0, <1>2, <2>2 DEF OwnerInv
  <2>5. JobInv(p)' /\ DirInv' /\ OwnerInv(p)'
    BY <1>0, <1>1, <1>2, <2>2, <2>3, <2>4 DEF JobInv, DirInv, OwnerInv, PC, Bundled
  <2> QED BY <1>2, <1>3, <2>2, <2>3, <2>5 DEF Bundled
<1>5. CASE FillNew(p)
  <2>1. dir' = [dir EXCEPT !.out = [s \in Streams |->
                  IF @[s] = "partial" THEN job[p].stream[s] ELSE @[s]]]
    BY <1>5 DEF FillNew
  <2>2. pc[p] = "fill" /\ pc' = [pc EXCEPT ![p] = "open"] /\ pc'[p] = "open"
    BY <1>0, <1>5 DEF FillNew, Goto
  <2>3. job[p].stream \in [Streams -> Contents]
    BY <1>0, <2>2 DEF JobInv
  <2>4. dir' \in Dir /\ dir'.made = dir.made /\ dir'.receipt = dir.receipt
    BY <1>0, <2>1, <2>3 DEF Dir
  <2>5. dir.receipt = NoEnvelope
    BY <1>0, <1>2, <2>2 DEF OwnerInv
  <2>6. JobInv(p)' /\ DirInv' /\ OwnerInv(p)'
    BY <1>0, <1>1, <1>2, <2>2, <2>4, <2>5 DEF JobInv, DirInv, OwnerInv, PC, Bundled
  <2> QED BY <1>2, <1>3, <2>2, <2>4, <2>6 DEF Bundled
<1>6. CASE WritePending(p)
  <2>1. dir' = [dir EXCEPT !.pending = TRUE]
    BY <1>6 DEF WritePending
  <2>2. pc[p] = "pending" /\ pc' = [pc EXCEPT ![p] = "sync"] /\ pc'[p] = "sync"
    BY <1>0, <1>6 DEF WritePending, Goto
  <2>3. /\ dir' \in Dir /\ dir'.made = dir.made /\ dir'.receipt = dir.receipt
        /\ dir'.out = dir.out
    BY <1>0, <2>1 DEF Dir
  <2>4. dir.receipt = NoEnvelope
    BY <1>0, <1>2, <2>2 DEF OwnerInv
  <2>5. JobInv(p)' /\ DirInv' /\ OwnerInv(p)'
    BY <1>0, <1>1, <1>2, <2>2, <2>3, <2>4 DEF JobInv, DirInv, OwnerInv, PC, Bundled
  <2> QED BY <1>2, <1>3, <2>2, <2>3, <2>5 DEF Bundled
<1>7. CASE UnlinkPending(p)
  <2>1. dir' = [dir EXCEPT !.pending = FALSE]
    BY <1>7 DEF UnlinkPending
  <2>2. pc[p] = "unlink" /\ pc' = [pc EXCEPT ![p] = "finish"] /\ pc'[p] = "finish"
    BY <1>0, <1>7 DEF UnlinkPending, Goto
  <2>3. /\ dir' \in Dir /\ dir'.made = dir.made /\ dir'.receipt = dir.receipt
        /\ dir'.out = dir.out
    BY <1>0, <2>1 DEF Dir
  <2>4. JobInv(p)' /\ DirInv' /\ OwnerInv(p)'
    BY <1>0, <1>1, <1>2, <2>2, <2>3 DEF JobInv, DirInv, OwnerInv, PC, Bundled
  <2> QED BY <1>2, <1>3, <2>2, <2>3, <2>4 DEF Bundled
<1>8. CASE LinkReceipt(p)
  <2>1. dir' = [dir EXCEPT !.receipt = Receipt(p)] /\ dir.receipt = NoEnvelope
    BY <1>8 DEF LinkReceipt
  <2>2. pc[p] = "link" /\ pc' = [pc EXCEPT ![p] = "unlink"] /\ pc'[p] = "unlink"
    BY <1>0, <1>8 DEF LinkReceipt, Goto
  <2>3. Receipt(p) \in Envelope /\ Receipt(p).claim.out = job[p].digest
    BY <1>0, <2>2, ReceiptType DEF Bundled
  <2>4. /\ dir' \in Dir /\ dir'.made = dir.made /\ dir'.receipt = Receipt(p)
        /\ dir'.out = dir.out
    BY <1>0, <2>1, <2>3 DEF Dir
  <2>5. dir.out = job[p].digest /\ synced.out = dir.out /\ synced.receipt = NoEnvelope
    BY <1>0, <1>2, <2>1, <2>2 DEF OwnerInv, DirInv
  <2>6. JobInv(p)'
    BY <1>0, <1>1, <1>2, <2>2 DEF JobInv, PC, Bundled
  <2>7. DirInv' /\ OwnerInv(p)'
    BY <1>1, <1>2, <2>2, <2>3, <2>4, <2>5 DEF DirInv, OwnerInv
  <2> QED BY <1>2, <1>3, <2>2, <2>4, <2>6, <2>7 DEF Bundled
<1> QED BY <1>4, <1>5, <1>6, <1>7, <1>8

LEMMA SyncSteps ==
    ASSUME NEW p \in Procs, BundleInv, SyncOutputs(p) \/ Complete(p)
    PROVE  BundleInv'
<1>0. /\ pc \in [Procs -> PC] /\ job \in [Procs -> Job] /\ JobInv(p)
      /\ dir \in Dir /\ synced \in Dir /\ OwnerInv(p) /\ DirInv
      /\ ~dir.made => dir = NoDir
  BY Typed DEF BundleInv
<1>1. pc[p] \in {"sync", "finish"} /\ synced' = dir /\ UNCHANGED <<checkout, dir>>
  BY DEF SyncOutputs, Complete
<1>2. /\ Owns(p) /\ job[p].store /\ dir.made /\ fate = "work"
      /\ dir.out = job[p].digest
  BY <1>0, <1>1, StoringOwns DEF OwnerInv
<1>3. CASE SyncOutputs(p)
  <2>1. /\ pc[p] = "sync" /\ Goto(p, "link") /\ UNCHANGED <<envelopes, job, fate>>
    BY <1>3 DEF SyncOutputs
  <2>2. pc' \in [Procs -> PC] /\ pc'[p] = "link" /\ Others(p)
    BY <1>0, <2>1, GotoFacts DEF Others, PC, Bundled
  <2>3. JobInv(p)'
    BY <1>0, <1>2, <2>1, <2>2 DEF JobInv, PC, Bundled
  <2>4. dir.receipt = NoEnvelope
    BY <1>0, <1>2, <2>1 DEF OwnerInv
  <2>5. DirInv' /\ OwnerInv(p)'
    BY <1>1, <1>2, <2>1, <2>2, <2>4 DEF DirInv, OwnerInv
  <2>6. Owns(p)'
    BY <1>2, <2>1, <2>2 DEF Owns, Bundled
  <2> QED BY <1>0, <1>1, <1>2, <2>1, <2>2, <2>3, <2>5, <2>6, OwnerActs
<1>4. CASE Complete(p)
  <2>1. /\ pc[p] = "finish" /\ Leave(p, "idle") /\ fate' = "complete"
        /\ envelopes' = envelopes
    BY <1>4 DEF Complete
  <2>2. /\ pc' \in [Procs -> PC] /\ job' \in [Procs -> Job] /\ Others(p)
        /\ pc'[p] = "idle" /\ job'[p] = IdleJob /\ JobInv(p)'
    BY <1>0, <2>1, LeaveFacts
  <2>4. TypeOK'
    BY <1>0, <1>1, <2>1, <2>2 DEF BundleInv, TypeOK
  <2>5. DirInv'
    BY <1>0, <1>1, <1>2, <2>1 DEF DirInv
  <2>6. ~Owns(p)'
    BY <2>2, EmptyTypes DEF Owns, Bundled
  <2>7. \A q \in Procs \ {p} : ~Owns(q)
    BY <1>2 DEF BundleInv, SoleOwner
  <2>8. OwnerInv(p)' /\ fate' # "work"
    BY <2>1, <2>6 DEF OwnerInv
  <2> QED BY <2>1, <2>2, <2>4, <2>5, <2>7, <2>8, StepOf
<1> QED BY <1>3, <1>4

LEMMA RemoveSteps ==
    ASSUME NEW p \in Procs, BundleInv, RemoveEntry(p) \/ RemoveDirectory(p)
    PROVE  BundleInv'
<1>0. /\ pc \in [Procs -> PC] /\ job \in [Procs -> Job] /\ JobInv(p)
      /\ dir \in Dir /\ synced \in Dir /\ OwnerInv(p) /\ DirInv
      /\ ~dir.made => dir = NoDir
      /\ ~synced.made => synced = NoDir
  BY Typed DEF BundleInv
<1>1. pc[p] = "cleanup" /\ UNCHANGED <<checkout, envelopes, job>>
  BY DEF RemoveEntry, RemoveDirectory
<1>2. Owns(p) /\ dir.made
  BY <1>0, <1>1 DEF OwnerInv, Owns
<1>3. CASE RemoveEntry(p)
  <2>1. UNCHANGED <<synced, pc>> /\ fate' = "removing"
    BY <1>3 DEF RemoveEntry
  <2>2. dir' \in Dir /\ dir'.made
    <3>1. CASE \E s \in Streams : dir' = [dir EXCEPT !.out[s] = "absent"]
      BY <1>0, <1>2, <3>1 DEF Dir
    <3>2. CASE dir' = [dir EXCEPT !.pending = FALSE]
      BY <1>0, <1>2, <3>2 DEF Dir
    <3>3. CASE dir' = [dir EXCEPT !.receipt = NoEnvelope]
      BY <1>0, <1>2, <3>3 DEF Dir
    <3> QED BY <1>3, <3>1, <3>2, <3>3 DEF RemoveEntry
  <2>3. JobInv(p)' /\ Others(p)
    BY <1>0, <1>1, <2>1 DEF JobInv, Others
  <2>4. DirInv' /\ OwnerInv(p)'
    BY <1>1, <2>1, <2>2 DEF DirInv, OwnerInv
  <2> QED BY <1>0, <1>1, <1>2, <2>1, <2>2, <2>3, <2>4, OwnerActs
<1>4. CASE RemoveDirectory(p)
  <2>1. /\ Goto(p, "idle") /\ dir' = NoDir /\ synced' = NoDir /\ fate' = "none"
    BY <1>4 DEF RemoveDirectory
  <2>2. pc' \in [Procs -> PC] /\ pc'[p] = "idle" /\ Others(p)
    BY <1>0, <1>1, <2>1, GotoFacts DEF Others, PC
  <2>3. JobInv(p)'
    BY <1>0, <1>1, <2>2 DEF JobInv, PC, Bundled
  <2>4. ~Owns(p)'
    BY <2>2 DEF Owns, Bundled
  <2>5. DirInv' /\ OwnerInv(p)'
    BY <2>1, <2>4, EmptyTypes DEF DirInv, OwnerInv
  <2> QED BY <1>0, <1>1, <1>2, <2>1, <2>2, <2>3, <2>5, EmptyTypes, OwnerActs
<1> QED BY <1>3, <1>4

-----------------------------------------------------------------------------
(* Kills, power losses and the operator. *)

LEMMA HaltStep ==
    ASSUME NEW p \in Procs, BundleInv, Halt(p)
    PROVE  BundleInv'
<1>0. /\ pc \in [Procs -> PC] /\ job \in [Procs -> Job]
      /\ dir \in Dir /\ synced \in Dir /\ OwnerInv(p) /\ DirInv
      /\ ~dir.made => dir = NoDir
      /\ ~synced.made => synced = NoDir
  BY Typed DEF BundleInv
<1>1. /\ Leave(p, "idle") /\ fate' = (IF Owns(p) THEN Abandoned ELSE fate)
      /\ UNCHANGED <<checkout, dir, synced, envelopes>>
  BY DEF Halt
<1>2. /\ pc' \in [Procs -> PC] /\ job' \in [Procs -> Job] /\ Others(p)
      /\ pc'[p] = "idle" /\ job'[p] = IdleJob /\ JobInv(p)'
  BY <1>0, <1>1, LeaveFacts
<1>3. ~Owns(p)' /\ OwnerInv(p)'
  BY <1>2, EmptyTypes DEF Owns, OwnerInv, Bundled
<1>4. CASE ~Owns(p)
  BY <1>1, <1>2, <1>3, <1>4, FilesStand
<1>5. CASE Owns(p)
  <2>1. dir.made /\ fate \in {"work", "removing"}
    BY <1>0, <1>5 DEF OwnerInv
  <2>2. fate' \in {"left", "removing"} /\ (fate' # "removing" => fate # "removing")
    BY <1>1, <1>5, <2>1 DEF Abandoned
  <2>3. DirInv'
    BY <1>0, <1>1, <2>1, <2>2 DEF DirInv
  <2> QED BY <1>0, <1>1, <1>2, <1>3, <1>5, <2>2, <2>3, OwnerActs
<1> QED BY <1>4, <1>5

LEMMA AmbientSteps ==
    ASSUME BundleInv, Edit \/ Discard \/ UNCHANGED vars
    PROVE  BundleInv'
<1>1. UNCHANGED <<envelopes, pc, job>>
  BY DEF Edit, Discard, vars
<1>2. /\ job' \in [Procs -> Job] /\ SoleOwner'
      /\ \A p \in Procs : JobInv(p)' /\ (Owns(p)' <=> Owns(p))
  BY <1>1 DEF BundleInv, JobInv, SoleOwner, Owns
<1>3. CASE Edit \/ UNCHANGED vars
  <2>1. UNCHANGED <<dir, synced, fate>> /\ checkout' \in Revisions \cup {"dirty"}
    BY <1>3 DEF Edit, vars, BundleInv, TypeOK
  <2>2. TypeOK'
    BY <1>1, <2>1 DEF BundleInv, TypeOK
  <2>3. DirInv' /\ FailureLeavesNothing'
    BY <1>2, <2>1 DEF BundleInv, DirInv, FailureLeavesNothing
  <2>4. \A p \in Procs : OwnerInv(p)'
    BY <1>1, <1>2, <2>1 DEF BundleInv, OwnerInv
  <2> QED BY <1>2, <2>2, <2>3, <2>4 DEF BundleInv
<1>4. CASE Discard
  <2>1. /\ dir' = NoDir /\ synced' = NoDir /\ fate' = "none" /\ checkout' = checkout
        /\ \A p \in Procs : ~Owns(p)'
    BY <1>2, <1>4 DEF Discard
  <2>2. TypeOK'
    BY <1>1, <2>1, EmptyTypes DEF BundleInv, TypeOK
  <2>3. DirInv' /\ FailureLeavesNothing' /\ \A p \in Procs : OwnerInv(p)'
    BY <2>1, EmptyTypes DEF DirInv, FailureLeavesNothing, OwnerInv
  <2> QED BY <1>2, <2>2, <2>3 DEF BundleInv
<1> QED BY <1>3, <1>4

\* Nobody survives a power loss to own the directory.
LEMMA AllIdle ==
    ASSUME pc' = [p \in Procs |-> "idle"], job' = [p \in Procs |-> IdleJob]
    PROVE  /\ pc' \in [Procs -> PC] /\ job' \in [Procs -> Job] /\ SoleOwner'
           /\ \A p \in Procs : JobInv(p)' /\ OwnerInv(p)' /\ ~Owns(p)'
<1>1. \A p \in Procs : pc'[p] = "idle" /\ job'[p] = IdleJob
  OBVIOUS
<1>2. \A p \in Procs : ~Owns(p)' /\ JobInv(p)'
  BY <1>1, EmptyTypes DEF Owns, JobInv, Bundled, PC
<1> QED BY <1>2, EmptyTypes DEF PC, SoleOwner, OwnerInv

LEMMA PowerLossStep ==
    ASSUME BundleInv, PowerLoss
    PROVE  BundleInv'
<1>0. /\ dir \in Dir /\ synced \in Dir /\ DirInv
      /\ fate \in {"none", "work", "complete", "left", "removing"}
  BY Typed DEF BundleInv, TypeOK
<1>1. /\ pc' \in [Procs -> PC] /\ job' \in [Procs -> Job] /\ SoleOwner'
      /\ \A p \in Procs : JobInv(p)' /\ OwnerInv(p)' /\ ~Owns(p)'
  BY AllIdle DEF PowerLoss
<1>2. UNCHANGED <<checkout, envelopes>> /\ synced' = dir'
  BY DEF PowerLoss
<1>3. ASSUME dir' \in Dir, ~dir'.made => dir' = NoDir, DirInv',
             fate' \in {"none", "complete", "left", "removing"}
      PROVE  BundleInv'
  <2>1. TypeOK'
    BY <1>1, <1>2, <1>3 DEF BundleInv, TypeOK
  <2> QED BY <1>1, <1>3, <2>1 DEF BundleInv, FailureLeavesNothing
<1>4. CASE dir' = NoDir /\ fate' = "none"
  <2>1. DirInv'
    BY <1>2, <1>4, EmptyTypes DEF DirInv
  <2> QED BY <1>3, <1>4, <2>1, EmptyTypes
<1>5. CASE ~(dir' = NoDir /\ fate' = "none")
  <2>1. PICK out \in [Streams -> Contents \cup {"absent", "partial"}],
             pend \in {dir.pending, synced.pending},
             rec \in {dir.receipt, synced.receipt} :
                /\ \A s \in Streams : out[s] \in {dir.out[s], synced.out[s]}
                /\ dir' = [made |-> dir.made, out |-> out, pending |-> pend,
                           receipt |-> rec]
    BY <1>5 DEF PowerLoss
  <2>2. /\ dir' \in Dir /\ dir'.made = dir.made /\ dir'.out = out
        /\ dir'.receipt = rec /\ dir'.pending = pend
    BY <1>0, <2>1 DEF Dir
  <2>3. fate' = Abandoned
    BY <1>5 DEF PowerLoss
  <2>4. /\ fate' \in {"none", "complete", "left", "removing"}
        /\ fate' # "removing" => fate # "removing"
        /\ fate = "none" => fate' = "none"
    BY <1>0, <2>3 DEF Abandoned
  <2>5. dir.made
    <3> SUFFICES ASSUME ~dir.made PROVE FALSE
      OBVIOUS
    <3>1. dir = NoDir /\ synced = NoDir /\ fate = "none"
      BY <1>0 DEF DirInv
    <3>2. out = NoOutput /\ pend = FALSE /\ rec = NoEnvelope
      BY <2>1, <3>1 DEF NoDir, NoOutput
    <3>3. dir' = NoDir
      BY <2>1, <3>1, <3>2 DEF NoDir
    <3> QED BY <1>5, <2>4, <3>1, <3>3
  <2>6. ASSUME fate' # "removing", rec # NoEnvelope PROVE out = rec.claim.out
    <3>1. rec = dir.receipt
      BY <1>0, <2>1, <2>4, <2>6 DEF DirInv
    <3>2. synced.out = dir.out /\ dir.out = rec.claim.out
      BY <1>0, <2>4, <2>6, <3>1 DEF DirInv
    <3>3. out = dir.out
      BY <1>0, <2>1, <3>2 DEF Dir
    <3> QED BY <3>2, <3>3
  <2>7. DirInv'
    BY <1>2, <2>2, <2>5, <2>6 DEF DirInv
  <2> QED BY <1>3, <2>2, <2>4, <2>5, <2>7
<1> QED BY <1>4, <1>5

-----------------------------------------------------------------------------
LEMMA BundleStart ==
    ASSUME Init
    PROVE  BundleInv
<1>1. \A p \in Procs : pc[p] = "idle" /\ job[p] = IdleJob
  BY DEF Init
<1>2. \A p \in Procs : ~Owns(p) /\ JobInv(p)
  BY <1>1, EmptyTypes DEF Owns, JobInv, Bundled, PC
<1>3. TypeOK
  BY EmptyTypes DEF Init, TypeOK, PC
<1>4. DirInv /\ job \in [Procs -> Job]
  BY EmptyTypes DEF Init, DirInv
<1> QED BY <1>2, <1>3, <1>4 DEF BundleInv, SoleOwner, OwnerInv,
                               FailureLeavesNothing, Init

LEMMA BundleStep ==
    ASSUME BundleInv, [Next]_vars
    PROVE  BundleInv'
<1>1. CASE \E p \in Procs : \/ \E store \in BOOLEAN : Create(p, store)
                            \/ \E e \in envelopes : BeginCountersign(p, e)
  BY <1>1, BeginSteps
<1>2. CASE \E p \in Procs : Reserve(p) \/ Secure(p)
  BY <1>2, ReserveSteps
<1>3. CASE \E p \in Procs : Execute(p) \/ Scribble(p)
  BY <1>3, ExecuteSteps, WriteSteps DEF Execute
<1>4. CASE \E p \in Procs : Sign(p) \/ Finish(p) \/ Countersign(p)
  BY <1>4, SignSteps, WriteSteps, SyncSteps DEF Finish
<1>5. CASE \E p \in Procs : Fail(p) \/ Halt(p)
  BY <1>5, FailStep, HaltStep
<1>6. CASE \E p \in Procs : RemoveEntry(p) \/ RemoveDirectory(p)
  BY <1>6, RemoveSteps
<1>7. CASE PowerLoss
  BY <1>7, PowerLossStep
<1>8. CASE Edit \/ Discard \/ UNCHANGED vars
  BY <1>8, AmbientSteps
<1> QED BY <1>1, <1>2, <1>3, <1>4, <1>5, <1>6, <1>7, <1>8 DEF Next

-----------------------------------------------------------------------------
(* The theorems. *)

\* What each process knows, what the directory holds and what its last fsync
\* made durable agree at every step of create, countersign and the cleanup,
\* whoever is killed and whenever the power goes.
THEOREM BundleInvariant == Spec => []BundleInv
<1>1. Init => BundleInv
  BY BundleStart
<1>2. BundleInv /\ [Next]_vars => BundleInv'
  BY BundleStep
<1> QED BY <1>1, <1>2, PTL DEF Spec

\* Where receipt.json is visible, after a crash too, the outputs it signs lie
\* beside it, unless a removal has begun: OutputBundle.finish syncs them first.
THEOREM ReceiptIsLast == Spec => []ReceiptComesLast
<1>1. BundleInv => ReceiptComesLast
  BY DEF BundleInv, DirInv, ReceiptComesLast
<1> QED BY <1>1, BundleInvariant, PTL

\* A create that is refused or fails cleans up after itself: a directory under
\* work has a process that will finish or remove it.
THEOREM FailuresClean == Spec => []FailureLeavesNothing
<1>1. BundleInv => FailureLeavesNothing
  BY DEF BundleInv
<1> QED BY <1>1, BundleInvariant, PTL

\* A step that changes part of the directory is one of the process that works
\* on it.
LEMMA OwnersWrite ==
    ASSUME NEW p \in Procs, BundleInv, ~Owns(p),
           \/ Reserve(p) /\ dir.made
           \/ Secure(p) \/ OpenNew(p) \/ FillNew(p) \/ Finish(p)
           \/ RemoveEntry(p) \/ RemoveDirectory(p)
    PROVE  dir' = dir
<1>1. pc[p] \notin {"open", "fill", "check", "pending", "sync", "link",
                    "unlink", "finish"}
  BY StoringOwns
<1>2. pc[p] \notin {"secure", "cleanup"}
  BY DEF Owns
<1> QED BY <1>1, <1>2 DEF Reserve, Secure, OpenNew, FillNew, Finish, CheckOutputs,
           WritePending, SyncOutputs, LinkReceipt, UnlinkPending, Complete,
           RemoveEntry, RemoveDirectory

\* Once create has reported success its bundle stays whole or goes as a whole:
\* nobody works on it any more, and its last fsync has left nothing to lose.
THEOREM CompletedStays == Spec => CompletedIsKept
<1>1. ASSUME BundleInv, [Next]_vars, fate = "complete" PROVE dir' \in {dir, NoDir}
  <2>1. \A p \in Procs : ~Owns(p)
    BY <1>1 DEF BundleInv, OwnerInv
  <2>2. /\ dir.made /\ synced = dir /\ dir \in Dir
    BY <1>1, Typed DEF BundleInv, DirInv
  <2>3. CASE \E p \in Procs :
                \/ Reserve(p) \/ Secure(p) \/ OpenNew(p) \/ FillNew(p)
                \/ Finish(p) \/ RemoveEntry(p) \/ RemoveDirectory(p)
    BY <1>1, <2>1, <2>2, <2>3, OwnersWrite
  <2>4. CASE \E p \in Procs :
                \/ \E store \in BOOLEAN : Create(p, store)
                \/ \E e \in envelopes : BeginCountersign(p, e)
                \/ Launch(p) \/ Exit(p) \/ HashStreams(p) \/ Scribble(p)
                \/ Sign(p) \/ Countersign(p) \/ Fail(p) \/ Halt(p)
    BY <2>4 DEF Create, BeginCountersign, Launch, Exit, HashStreams, Scribble,
                Sign, Countersign, Fail, Halt
  <2>5. CASE Edit \/ Discard \/ UNCHANGED vars
    BY <2>5 DEF Edit, Discard, vars
  <2>6. CASE PowerLoss
    <3> SUFFICES ASSUME dir' # NoDir PROVE dir' = dir
      OBVIOUS
    <3>1. PICK out \in [Streams -> Contents \cup {"absent", "partial"}] :
             /\ \A s \in Streams : out[s] = dir.out[s]
             /\ dir' = [made |-> dir.made, out |-> out, pending |-> dir.pending,
                        receipt |-> dir.receipt]
      BY <2>2, <2>6 DEF PowerLoss
    <3>2. out = dir.out
      BY <2>2, <3>1 DEF Dir
    <3> QED BY <2>2, <3>1, <3>2 DEF Dir
  <2> QED BY <1>1, <2>3, <2>4, <2>5, <2>6 DEF Next, Execute
<1>2. BundleInv /\ [Next]_vars => [fate = "complete" => dir' \in {dir, NoDir}]_vars
  BY <1>1
<1> QED BY <1>2, BundleInvariant, PTL DEF Spec, CompletedIsKept

-----------------------------------------------------------------------------
(* What a process has run. *)

\* A step of p leaves what the others have run alone.
LEMMA RunOf ==
    ASSUME NEW p \in Procs, RanInv, Others(p), UNCHANGED checkout,
           NEW S \in SUBSET Run, ran' = [ran EXCEPT ![p] = S], RunInv(p)'
    PROVE  RanInv'
<1>1. ran' \in [Procs -> SUBSET Run] /\ \A q \in Procs \ {p} : ran'[q] = ran[q]
  BY DEF RanInv
<1>2. \A q \in Procs \ {p} : RunInv(q)'
  BY <1>1 DEF RanInv, RunInv, Others, ClaimOf
<1> QED BY <1>1, <1>2 DEF RanInv

\* The case that changes no history.
LEMMA RunStands ==
    ASSUME NEW p \in Procs, RanInv, Others(p), UNCHANGED <<checkout, ran>>, RunInv(p)'
    PROVE  RanInv'
<1>1. ran \in [Procs -> SUBSET Run]
  BY DEF RanInv
<1>2. ran[p] \in SUBSET Run /\ ran' = [ran EXCEPT ![p] = ran[p]]
  BY <1>1
<1> QED BY <1>2, RunOf

\* Steps to where nothing has been run, or all has been published.
Ending(p) ==
    \/ \E store \in BOOLEAN : Create(p, store)
    \/ \E e \in envelopes : BeginCountersign(p, e)
    \/ Reserve(p) \/ Secure(p) \/ Launch(p) \/ (Sign(p) /\ ~job[p].store)
    \/ Countersign(p) \/ LinkReceipt(p) \/ UnlinkPending(p) \/ Complete(p)
    \/ Fail(p) \/ Halt(p) \/ RemoveEntry(p) \/ RemoveDirectory(p)

LEMMA RunEnds ==
    ASSUME NEW p \in Procs, BundleInv, RanInv, Ending(p)
    PROVE  RanInv'
<1>0. pc \in [Procs -> PC] /\ job \in [Procs -> Job]
  BY Typed
<1> DEFINE Quiet == {"idle", "reserve", "secure", "start", "wait", "unlink",
                     "finish", "cleanup"}
           Ends == /\ UNCHANGED checkout /\ Others(p) /\ pc'[p] \in Quiet
                   /\ ran' = ran \/ ran' = [ran EXCEPT ![p] = {}]
<1> SUFFICES Ends
  <2>1. RunInv(p)'
    BY DEF RunInv
  <2>2. {} \in SUBSET Run
    OBVIOUS
  <2>3. CASE ran' = ran
    BY <2>1, <2>3, RunStands
  <2>4. CASE ran' = [ran EXCEPT ![p] = {}]
    BY <2>1, <2>2, <2>4, RunOf
  <2> QED BY <2>3, <2>4
<1>1. CASE \/ \E store \in BOOLEAN : Create(p, store)
           \/ \E e \in envelopes : BeginCountersign(p, e)
           \/ Launch(p)
  BY <1>0, <1>1 DEF Create, BeginCountersign, Launch, Goto, Note, Others
<1>2. CASE Reserve(p) \/ Secure(p)
  BY <1>0, <1>2 DEF Reserve, Secure, Leave, Goto, Note, Others
<1>3. CASE (Sign(p) /\ ~job[p].store) \/ Countersign(p) \/ Complete(p)
  BY <1>0, <1>3 DEF Sign, Countersign, Complete, Leave, Goto, Note, Others
<1>4. CASE LinkReceipt(p) \/ UnlinkPending(p)
  BY <1>0, <1>4 DEF LinkReceipt, UnlinkPending, Goto, Others
<1>5. CASE Fail(p) \/ Halt(p)
  BY <1>0, <1>5 DEF Fail, Halt, Leave, Goto, Note, Others
<1>6. CASE RemoveEntry(p) \/ RemoveDirectory(p)
  BY <1>0, <1>6 DEF RemoveEntry, RemoveDirectory, Goto, Others
<1> QED BY <1>1, <1>2, <1>3, <1>4, <1>5, <1>6 DEF Ending

\* Steps of a process between its command's exit and the published receipt.
LEMMA RunGoesOn ==
    ASSUME NEW p \in Procs, BundleInv, RanInv,
           \/ HashStreams(p) \/ Scribble(p) \/ OpenNew(p) \/ FillNew(p)
           \/ Sign(p) /\ job[p].store
           \/ CheckOutputs(p) \/ WritePending(p) \/ SyncOutputs(p)
    PROVE  RanInv'
<1>0. /\ pc \in [Procs -> PC] /\ job \in [Procs -> Job] /\ job[p] \in Job
      /\ RunInv(p)
  BY Typed DEF RanInv
<1>1. UNCHANGED <<checkout, ran>>
  BY DEF HashStreams, Scribble, OpenNew, FillNew, Sign, CheckOutputs, WritePending,
         SyncOutputs
<1>2. CASE HashStreams(p)
  <2>1. /\ pc[p] = "hash" /\ pc'[p] \in {"open", "inspect"} /\ Others(p)
        /\ job'[p].result = job[p].result /\ job'[p].digest = job[p].stream
    BY <1>0, <1>2 DEF HashStreams, Goto, Note, Others, Job
  <2>2. RunInv(p)'
    BY <1>0, <1>1, <2>1 DEF RunInv
  <2> QED BY <1>1, <2>1, <2>2, RunStands
<1>3. CASE Scribble(p) \/ OpenNew(p) \/ FillNew(p)
  <2>1. /\ pc[p] \in {"open", "fill"} /\ pc'[p] \in {"open", "fill", "inspect"}
        /\ Others(p)
        /\ job'[p].result = job[p].result /\ job'[p].digest = job[p].digest
    <3>1. CASE Scribble(p)
      BY <1>0, <3>1 DEF Scribble, Note, Others, Job
    <3>2. CASE OpenNew(p)
      BY <1>0, <3>2 DEF OpenNew, Goto, Note, Others, Job
    <3>3. CASE FillNew(p)
      BY <1>0, <3>3 DEF FillNew, Goto, Others
    <3> QED BY <1>3, <3>1, <3>2, <3>3
  <2>2. RunInv(p)'
    BY <1>0, <1>1, <2>1 DEF RunInv
  <2> QED BY <1>1, <2>1, <2>2, RunStands
<1>4. CASE Sign(p) /\ job[p].store
  <2>1. /\ pc[p] = "inspect" /\ pc'[p] = "check" /\ Others(p) /\ job' = job
        /\ checkout = job[p].rev
    BY <1>0, <1>4 DEF Sign, StillThere, Goto, Others
  <2>2. RunInv(p)'
    BY <1>0, <1>1, <2>1 DEF RunInv, ClaimOf
  <2> QED BY <1>1, <2>1, <2>2, RunStands
<1>5. CASE CheckOutputs(p) \/ WritePending(p) \/ SyncOutputs(p)
  <2>1. /\ pc[p] \in {"check", "pending", "sync"} /\ Others(p) /\ job' = job
        /\ pc'[p] \in {"pending", "sync", "link"}
    BY <1>0, <1>5 DEF CheckOutputs, WritePending, SyncOutputs, Goto, Others
  <2>2. RunInv(p)'
    BY <1>0, <1>1, <2>1 DEF RunInv, ClaimOf
  <2> QED BY <1>1, <2>1, <2>2, RunStands
<1> QED BY <1>2, <1>3, <1>4, <1>5

LEMMA RunExits ==
    ASSUME NEW p \in Procs, BundleInv, RanInv, Exit(p)
    PROVE  RanInv'
<1>0. /\ pc \in [Procs -> PC] /\ job \in [Procs -> Job] /\ job[p] \in Job
      /\ ran \in [Procs -> SUBSET Run] /\ checkout \in Revisions \cup {"dirty"}
  BY Typed DEF RanInv, BundleInv, TypeOK
<1>1. PICK t \in Times, r \in Results, out \in [Streams -> Contents] :
         /\ Note(p, [job[p] EXCEPT !.completed = t, !.result = r, !.stream = out])
         /\ ran' = [ran EXCEPT ![p] = {[rev |-> checkout, result |-> r, out |-> out]}]
  BY DEF Exit
<1>2. /\ pc'[p] = "hash" /\ Others(p) /\ checkout' = checkout
      /\ job'[p].result = r /\ job'[p].stream = out
  BY <1>0, <1>1 DEF Exit, Goto, Note, Others, Job
<1> DEFINE claim == [rev |-> checkout, result |-> r, out |-> out]
<1>3. claim \in Run /\ {claim} \in SUBSET Run
  BY <1>0 DEF Run
<1>4. claim \in ran'[p]
  BY <1>0, <1>1
<1>5. RunInv(p)'
  BY <1>2, <1>4 DEF RunInv
<1> QED BY <1>1, <1>2, <1>3, <1>5, RunOf

\* An edit adds the new state of the checkout to what has been run before.
LEMMA RunEdited ==
    ASSUME BundleInv, RanInv, Edit
    PROVE  RanInv'
<1>0. /\ ran \in [Procs -> SUBSET Run] /\ UNCHANGED <<pc, job>>
      /\ checkout' \in Revisions \cup {"dirty"}
      /\ ran' = [p \in Procs |->
                    ran[p] \cup {[c EXCEPT !.rev = checkout'] : c \in ran[p]}]
  BY DEF RanInv, Edit
<1>1. ASSUME NEW c \in Run
      PROVE  /\ [c EXCEPT !.rev = checkout'] \in Run
             /\ [c EXCEPT !.rev = checkout'] =
                   [rev |-> checkout', result |-> c.result, out |-> c.out]
  BY <1>0 DEF Run
<1>2. ran' \in [Procs -> SUBSET Run]
  <2>1. ASSUME NEW p \in Procs
        PROVE  ran[p] \cup {[c EXCEPT !.rev = checkout'] : c \in ran[p]}
                   \in SUBSET Run
    <3>1. ran[p] \subseteq Run
      BY <1>0
    <3> QED BY <1>1, <3>1
  <2> QED BY <1>0, <2>1
<1>3. ASSUME NEW p \in Procs PROVE RunInv(p)'
  <2>1. ran[p] \subseteq ran'[p]
    BY <1>0
  <2>2. \A c \in ran[p] :
           [rev |-> checkout', result |-> c.result, out |-> c.out] \in ran'[p]
    BY <1>0, <1>1
  <2>3. RunInv(p)
    BY DEF RanInv
  <2>4. CASE pc[p] \in {"hash", "open", "fill", "inspect"}
    <3> DEFINE out == IF pc[p] = "hash" THEN job[p].stream ELSE job[p].digest
    <3>1. [rev |-> checkout, result |-> job[p].result, out |-> out] \in ran[p]
      BY <2>3, <2>4 DEF RunInv
    <3> HIDE DEF out
    <3>2. [rev |-> checkout', result |-> job[p].result, out |-> out] \in ran'[p]
      BY <2>2, <3>1
    <3> QED BY <1>0, <2>4, <3>2 DEF RunInv, out
  <2>5. CASE pc[p] \notin {"hash", "open", "fill", "inspect"}
    BY <1>0, <2>1, <2>3, <2>5 DEF RunInv, ClaimOf
  <2> QED BY <2>4, <2>5
<1> QED BY <1>2, <1>3 DEF RanInv

LEMMA RanStep ==
    ASSUME BundleInv, RanInv, [Next]_vars
    PROVE  RanInv'
<1>1. CASE PowerLoss
  <2>1. pc' = [p \in Procs |-> "idle"] /\ ran' = [p \in Procs |-> {}]
    BY <1>1 DEF PowerLoss
  <2>2. \A p \in Procs : pc'[p] = "idle"
    BY <2>1
  <2>3. \A p \in Procs : RunInv(p)'
    BY <2>2 DEF RunInv
  <2>4. ran' \in [Procs -> SUBSET Run]
    BY <2>1
  <2> QED BY <2>3, <2>4 DEF RanInv
<1>2. CASE Discard \/ UNCHANGED vars
  <2>1. UNCHANGED <<checkout, pc, job, ran>>
    BY <1>2 DEF Discard, vars
  <2>2. \A p \in Procs : RunInv(p)'
    BY <2>1 DEF RanInv, RunInv, ClaimOf
  <2> QED BY <2>1, <2>2 DEF RanInv
<1>3. CASE Edit
  BY <1>3, RunEdited
<1>4. ASSUME NEW p \in Procs, Execute(p) \/ Scribble(p) PROVE RanInv'
  <2>1. CASE Launch(p)
    <3>1. Ending(p)
      BY <2>1 DEF Ending
    <3> QED BY <3>1, RunEnds
  <2> QED BY <1>4, <2>1, RunExits, RunGoesOn DEF Execute
<1>5. ASSUME NEW p \in Procs, Sign(p) \/ Finish(p) \/ Countersign(p) PROVE RanInv'
  <2>1. CASE \/ (Sign(p) /\ ~job[p].store) \/ Countersign(p)
             \/ LinkReceipt(p) \/ UnlinkPending(p) \/ Complete(p)
    <3>1. Ending(p)
      BY <2>1 DEF Ending
    <3> QED BY <3>1, RunEnds
  <2>2. CASE \/ Sign(p) /\ job[p].store
             \/ CheckOutputs(p) \/ WritePending(p) \/ SyncOutputs(p)
    BY <2>2, RunGoesOn
  <2> QED BY <1>5, <2>1, <2>2 DEF Finish
<1>6. ASSUME NEW p \in Procs,
             \/ \E store \in BOOLEAN : Create(p, store)
             \/ \E e \in envelopes : BeginCountersign(p, e)
             \/ Reserve(p) \/ Secure(p)
             \/ Fail(p) \/ Halt(p) \/ RemoveEntry(p) \/ RemoveDirectory(p)
      PROVE  RanInv'
  <2>1. Ending(p)
    BY <1>6 DEF Ending
  <2> QED BY <2>1, RunEnds
<1> QED BY <1>1, <1>2, <1>3, <1>4, <1>5, <1>6 DEF Next

\* What a process signs, and what it has signed, its own run bears out.
THEOREM RunsAreRecorded == Spec => []RanInv
<1>1. Init => RanInv
  BY DEF Init, RanInv, RunInv
<1>2. BundleInv /\ RanInv /\ [Next]_vars => RanInv'
  BY RanStep
<1> QED BY <1>1, <1>2, BundleInvariant, PTL DEF Spec

\* What an envelope that comes into circulation must show.
Witnessed(e) ==
    \E p \in Procs :
        /\ e.claim \in ran[p]
        /\ \/ p = e.issuer /\ e.counters = {}
           \/ \E c \in e.counters :
                 /\ c.verifier = p /\ p # e.issuer
                 /\ c.observed >= e.completed
                 /\ [e EXCEPT !.counters = @ \ {c}] \in envelopes
                 /\ \A d \in e.counters \ {c} : d.verifier # p

\* A receipt is issued by the process that ran the command.
LEMMA IssuerWitnesses ==
    ASSUME NEW p \in Procs, BundleInv, RanInv, Sign(p) \/ LinkReceipt(p)
    PROVE  \A e \in envelopes' \ envelopes : Witnessed(e)
<1>1. pc[p] \in Bundled \ {"start", "wait", "hash"}
  BY DEF Sign, LinkReceipt, Bundled
<1>2. /\ Receipt(p).counters = {} /\ Receipt(p).issuer = p
      /\ Receipt(p).claim = ClaimOf(p)
  BY <1>1, Typed, ReceiptType
<1>3. envelopes' \subseteq envelopes \cup {Receipt(p)}
  BY DEF Sign, LinkReceipt
<1>4. ClaimOf(p) \in ran[p]
  <2>1. RunInv(p)
    BY DEF RanInv
  <2> QED BY <2>1 DEF Sign, LinkReceipt, StillThere, RunInv, ClaimOf
<1> QED BY <1>2, <1>3, <1>4 DEF Witnessed

\* A countersignature is added by a process that repeated the execution.
LEMMA VerifierWitnesses ==
    ASSUME NEW p \in Procs, BundleInv, RanInv, Countersign(p)
    PROVE  \A e \in envelopes' \ envelopes : Witnessed(e)
<1> DEFINE doc == job[p].doc
<1>1. PICK t \in Times :
         LET updated == [doc EXCEPT !.counters =
                            @ \cup {[verifier |-> p, observed |-> t]}]
         IN  Verified(updated) /\ envelopes' = envelopes \cup {updated}
  BY DEF Countersign
<1> DEFINE c == [verifier |-> p, observed |-> t]
           updated == [doc EXCEPT !.counters = @ \cup {c}]
<1>2. /\ doc \in envelopes /\ doc \in Envelope /\ doc.issuer # p
      /\ \A d \in doc.counters : d.verifier # p
      /\ ClaimOf(p) = doc.claim
  BY Typed DEF Countersign, SameClaim, JobInv, Job
<1>r. ClaimOf(p) \in ran[p]
  <2>1. RunInv(p)
    BY DEF RanInv
  <2> QED BY <2>1 DEF Countersign, StillThere, RunInv, ClaimOf
<1>3. c.verifier = p /\ c.observed = t
  OBVIOUS
<1> HIDE DEF c, doc
<1>4. /\ updated.claim = doc.claim /\ updated.issuer = doc.issuer
      /\ updated.completed = doc.completed /\ updated.counters = doc.counters \cup {c}
  BY <1>2 DEF Envelope
<1>5. c \in updated.counters /\ c \notin doc.counters
  BY <1>2, <1>3, <1>4
<1>6. [updated EXCEPT !.counters = @ \ {c}] = doc
  <2>1. (doc.counters \cup {c}) \ {c} = doc.counters
    BY <1>5
  <2>2. [updated EXCEPT !.counters = @ \ {c}] = [doc EXCEPT !.counters = doc.counters]
    BY <1>2, <2>1 DEF Envelope
  <2> QED BY <1>2, <2>2 DEF Envelope
<1>7. c.observed >= updated.completed
  BY <1>1, <1>5 DEF Verified, c
<1>8. \A d \in updated.counters \ {c} : d.verifier # p
  BY <1>2, <1>4
<1> HIDE DEF updated
<1>9. Witnessed(updated)
  <2>1. updated.claim \in ran[p] /\ updated.issuer # p
    BY <1>2, <1>r, <1>4
  <2>2. [updated EXCEPT !.counters = @ \ {c}] \in envelopes
    BY <1>2, <1>6
  <2> QED BY <1>3, <1>5, <1>7, <1>8, <2>1, <2>2 DEF Witnessed
<1>10. envelopes' = envelopes \cup {updated}
  BY <1>1 DEF c, updated
<1> QED BY <1>9, <1>10

\* Whatever is signed has been observed by its signer, at a checkout that was
\* at the signed revision after the command had ended: a receipt by its issuer,
\* a countersignature by a verifier who is not the issuer and signs once.
THEOREM SignaturesAreObserved == Spec => SignedIsObserved
<1>1. ASSUME BundleInv, RanInv, [Next]_vars
      PROVE  \A e \in envelopes' \ envelopes : Witnessed(e)
  <2>1. CASE \E p \in Procs : Sign(p) \/ LinkReceipt(p)
    BY <1>1, <2>1, IssuerWitnesses
  <2>2. CASE \E p \in Procs : Countersign(p)
    BY <1>1, <2>2, VerifierWitnesses
  <2>3. CASE \E p \in Procs :
                \/ \E store \in BOOLEAN : Create(p, store)
                \/ \E e \in envelopes : BeginCountersign(p, e)
                \/ Reserve(p) \/ Secure(p) \/ Execute(p) \/ Scribble(p)
                \/ Fail(p) \/ RemoveEntry(p) \/ RemoveDirectory(p) \/ Halt(p)
    BY <2>3 DEF Create, BeginCountersign, Reserve, Secure, Execute, Launch, Exit,
                HashStreams, OpenNew, FillNew, Scribble, Fail, RemoveEntry,
                RemoveDirectory, Halt
  <2>4. CASE \E p \in Procs :
                \/ CheckOutputs(p) \/ WritePending(p) \/ SyncOutputs(p)
                \/ UnlinkPending(p) \/ Complete(p)
    BY <2>4 DEF CheckOutputs, WritePending, SyncOutputs, UnlinkPending, Complete
  <2>5. CASE Edit \/ Discard \/ PowerLoss \/ UNCHANGED vars
    BY <2>5 DEF Edit, Discard, PowerLoss, vars
  <2> QED BY <1>1, <2>1, <2>2, <2>3, <2>4, <2>5 DEF Next, Finish
<1>2. BundleInv /\ RanInv /\ [Next]_vars =>
         [\A e \in envelopes' \ envelopes : Witnessed(e)]_vars
  BY <1>1
<1>3. [][\A e \in envelopes' \ envelopes : Witnessed(e)]_vars => SignedIsObserved
  BY DEF SignedIsObserved, Witnessed
<1> QED BY <1>2, <1>3, BundleInvariant, RunsAreRecorded, PTL DEF Spec

=============================================================================
