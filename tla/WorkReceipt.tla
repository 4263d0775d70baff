----------------------------- MODULE WorkReceipt -----------------------------
(***************************************************************************)
(* `work-receipt create` and `countersign`: a command is run in a clean    *)
(* checkout, its observation is signed, and with --output-directory the    *)
(* captured streams and the receipt are published as one bundle.           *)
(*                                                                         *)
(* Several operators, each with an identity of its own, share a checkout   *)
(* and choose the same output directory.  A step ends at a write to that   *)
(* directory, so a kill or a power loss falls between any two writes.  A   *)
(* hash is as good as what it hashes, and a signature as its payload.      *)
(***************************************************************************)
EXTENDS FiniteSets, Naturals

CONSTANTS
    Procs,                 \* processes, one signing identity each
    Revisions,             \* origin and commit of a checkout
    Streams,               \* stdout and stderr
    Contents,              \* what a stream may hold
    Results,               \* passed, failed or timed_out, with the exit code
    Times,                 \* readings of the wall clock, in seconds
    MaxCountersignatures,  \* 16
    MaxEnvelopes           \* bound: envelopes in circulation or under way

ASSUME WorkReceiptAssumption ==
    /\ Times \subseteq Nat
    /\ MaxCountersignatures \in Nat /\ MaxEnvelopes \in Nat

VARIABLES
    checkout,   \* the working tree: its revision, or "dirty"
    dir,        \* the output directory as processes see it
    synced,     \* its entries as of the last fsync of the directory
    envelopes,  \* envelopes printed or published so far, whether kept or not
    pc,         \* process: next step
    job,        \* process: what it knows of its execution
    fate,       \* history: what has become of the bundle in dir
    ran         \* history: the claims the execution under way bears out

vars == <<checkout, dir, synced, envelopes, pc, job, fate, ran>>

Claim == [rev : Revisions, result : Results, out : [Streams -> Contents]]
Countersignature == [verifier : Procs, observed : Times]

\* What _verify_and_decode accepts.
Verified(e) ==
    /\ Cardinality(e.counters) <= MaxCountersignatures
    /\ \A c \in e.counters : c.verifier # e.issuer /\ c.observed >= e.completed
    /\ \A c, d \in e.counters : c.verifier = d.verifier => c = d

Envelope ==
    [issuer : Procs, claim : Claim, completed : Times,
     counters : SUBSET Countersignature]

NoEnvelope == [issuer |-> "none"]
Dir == [made : BOOLEAN, out : [Streams -> Contents \cup {"absent", "partial"}],
        pending : BOOLEAN, receipt : Envelope \cup {NoEnvelope}]
NoOutput == [s \in Streams |-> "absent"]
NoDir == [made |-> FALSE, out |-> NoOutput, pending |-> FALSE,
          receipt |-> NoEnvelope]
EmptyDir == [NoDir EXCEPT !.made = TRUE]

\* Steps of a process that has entered its bundle.
Bundled == {"start", "wait", "hash", "open", "fill", "inspect", "check",
            "pending", "sync", "link", "unlink", "finish"}
PC == Bundled \cup {"idle", "reserve", "secure", "cleanup"}

Goto(p, step) == pc' = [pc EXCEPT ![p] = step]
Note(p, changed) == job' = [job EXCEPT ![p] = changed]

IdleJob == [rev |-> "none", store |-> FALSE, doc |-> NoEnvelope, started |-> 0,
            completed |-> 0, result |-> "none", stream |-> NoOutput,
            digest |-> NoOutput]

\* The execution is over, and with it what the process knew.
Leave(p, step) ==
    Goto(p, step) /\ Note(p, IdleJob) /\ ran' = [ran EXCEPT ![p] = {}]

\* The process between mkdir and the end of its command.
Owns(p) ==
    \/ pc[p] \in {"secure", "cleanup"}
    \/ job[p].store /\ pc[p] \in Bundled

-----------------------------------------------------------------------------
(* The surroundings. *)

\* Somebody edits, commits or checks out.
Edit ==
    /\ checkout' \in (Revisions \cup {"dirty"}) \ {checkout}
    /\ ran' = [p \in Procs |->
                  ran[p] \cup {[c EXCEPT !.rev = checkout'] : c \in ran[p]}]
    /\ UNCHANGED <<dir, synced, envelopes, pc, job, fate>>

\* A detached child of the command goes on writing to a temporary stream.
Scribble(p) ==
    /\ pc[p] \in {"open", "fill"}
    /\ \E s \in Streams : \E c \in Contents \ {job[p].stream[s]} :
          Note(p, [job[p] EXCEPT !.stream[s] = c])
    /\ UNCHANGED <<checkout, dir, synced, envelopes, pc, fate, ran>>

\* The operator moves a bundle away, or a directory no command works on.
Discard ==
    /\ dir.made
    /\ \A p \in Procs : ~Owns(p)
    /\ dir' = NoDir /\ synced' = NoDir /\ fate' = "none"
    /\ UNCHANGED <<checkout, envelopes, pc, job, ran>>

-----------------------------------------------------------------------------
\* Processes that may yet bring an envelope into circulation.
UnderWay == {p \in Procs : pc[p] \notin {"idle", "unlink", "finish", "cleanup"}}

MayBegin == Cardinality(envelopes) + Cardinality(UnderWay) < MaxEnvelopes

(* _inspect_checkout and OutputBundle.__enter__ *)

\* create_work_receipt up to the output directory
Create(p, store) ==
    /\ pc[p] = "idle"
    /\ MayBegin
    /\ checkout # "dirty"
    /\ Note(p, [IdleJob EXCEPT !.rev = checkout, !.store = store])
    /\ Goto(p, IF store THEN "reserve" ELSE "start")
    /\ UNCHANGED <<checkout, dir, synced, envelopes, fate, ran>>

\* Mutant: mkdir(exist_ok=True).
ReserveExisting(p) ==
    /\ pc[p] = "reserve"
    /\ dir' = IF dir.made THEN dir ELSE EmptyDir
    /\ synced' = IF dir.made THEN synced ELSE EmptyDir
    /\ fate' = IF dir.made THEN fate ELSE "work"
    /\ Goto(p, "secure")
    /\ UNCHANGED <<checkout, envelopes, job, ran>>

\* mkdir: whoever finds the directory there is refused and cleans nothing up.
Reserve(p) ==
    /\ pc[p] = "reserve"
    /\ IF dir.made
         THEN /\ Leave(p, "idle")
              /\ UNCHANGED <<dir, synced, fate>>
         ELSE /\ dir' = EmptyDir /\ synced' = EmptyDir /\ fate' = "work"
              /\ Goto(p, "secure") /\ UNCHANGED <<job, ran>>
    /\ UNCHANGED <<checkout, envelopes>>

\* chmod; when it fails the directory is removed at once.
Secure(p) ==
    /\ pc[p] = "secure"
    /\ \/ /\ Goto(p, "start")
          /\ UNCHANGED <<dir, synced, job, fate, ran>>
       \/ /\ dir' = NoDir /\ synced' = NoDir /\ fate' = "none"
          /\ Leave(p, "idle")
    /\ UNCHANGED <<checkout, envelopes>>

-----------------------------------------------------------------------------
(* _execute, of create and of countersign *)

Launch(p) ==
    /\ pc[p] = "start"
    /\ \E t \in Times : Note(p, [job[p] EXCEPT !.started = t])
    /\ Goto(p, "wait")
    /\ UNCHANGED <<checkout, dir, synced, envelopes, fate, ran>>

\* The command exits, or its process group is killed at the timeout; what a
\* detached child adds before the streams are hashed is in out.
Exit(p) ==
    /\ pc[p] = "wait"
    /\ \E t \in Times, r \in Results, out \in [Streams -> Contents] :
          /\ Note(p, [job[p] EXCEPT !.completed = t, !.result = r, !.stream = out])
          /\ ran' = [ran EXCEPT ![p] =
                        {[rev |-> checkout, result |-> r, out |-> out]}]
    /\ Goto(p, "hash")
    /\ UNCHANGED <<checkout, dir, synced, envelopes, fate>>

\* _hash_file of both streams; without a bundle they are closed.
HashStreams(p) ==
    /\ pc[p] = "hash"
    /\ Note(p, [job[p] EXCEPT !.digest = job[p].stream,
                              !.stream = IF job[p].store THEN @ ELSE NoOutput])
    /\ Goto(p, IF job[p].store THEN "open" ELSE "inspect")
    /\ UNCHANGED <<checkout, dir, synced, envelopes, fate, ran>>

\* OutputBundle.capture opens one new file after the other ...
OpenNew(p) ==
    /\ pc[p] = "open"
    /\ IF \A s \in Streams : dir.out[s] # "absent"
         THEN /\ Note(p, [job[p] EXCEPT !.stream = NoOutput])
              /\ Goto(p, "inspect") /\ UNCHANGED dir
         ELSE /\ \E s \in Streams : /\ dir.out[s] = "absent"
                                    /\ dir' = [dir EXCEPT !.out[s] = "partial"]
              /\ Goto(p, "fill") /\ UNCHANGED job
    /\ UNCHANGED <<checkout, synced, envelopes, fate, ran>>

\* ... and copies and fsyncs it.
FillNew(p) ==
    /\ pc[p] = "fill"
    /\ dir' = [dir EXCEPT !.out = [s \in Streams |->
                  IF @[s] = "partial" THEN job[p].stream[s] ELSE @[s]]]
    /\ Goto(p, "open")
    /\ UNCHANGED <<checkout, synced, envelopes, job, fate, ran>>

-----------------------------------------------------------------------------
(* The rest of create_work_receipt, and OutputBundle.finish *)

ClaimOf(p) ==
    [rev |-> job[p].rev, result |-> job[p].result, out |-> job[p].digest]

Receipt(p) ==
    [issuer |-> p, claim |-> ClaimOf(p), completed |-> job[p].completed,
     counters |-> {}]

\* Mutant: the checkout is inspected once, before the execution.
StillThereOnce(p) == TRUE

\* The second _inspect_checkout: clean, and the same origin and commit.
StillThere(p) == checkout = job[p].rev

\* _validate_work_payload: an execution that ends before it starts, by the
\* wall clock, is refused.  Without an output directory the signed receipt is returned and printed.
Sign(p) ==
    /\ pc[p] = "inspect"
    /\ job[p].doc = NoEnvelope
    /\ StillThere(p)
    /\ job[p].started <= job[p].completed
    /\ Verified(Receipt(p))
    /\ IF job[p].store
         THEN Goto(p, "check") /\ UNCHANGED <<envelopes, job, ran>>
         ELSE Leave(p, "idle") /\ envelopes' = envelopes \cup {Receipt(p)}
    /\ UNCHANGED <<checkout, dir, synced, fate>>

\* Mutant: the files are not hashed again.
CheckNothing(p) ==
    /\ pc[p] = "check"
    /\ Goto(p, "pending")
    /\ UNCHANGED <<checkout, dir, synced, envelopes, job, fate, ran>>

\* The files are hashed again and compared with the signed payload.
CheckOutputs(p) ==
    /\ pc[p] = "check"
    /\ dir.out = job[p].digest
    /\ Goto(p, "pending")
    /\ UNCHANGED <<checkout, dir, synced, envelopes, job, fate, ran>>

WritePending(p) ==
    /\ pc[p] = "pending"
    /\ ~dir.pending
    /\ dir' = [dir EXCEPT !.pending = TRUE]
    /\ Goto(p, "sync")
    /\ UNCHANGED <<checkout, synced, envelopes, job, fate, ran>>

\* Mutant: receipt.json is linked before the directory is synced.
SyncNothing(p) ==
    /\ pc[p] = "sync"
    /\ Goto(p, "link")
    /\ UNCHANGED <<checkout, dir, synced, envelopes, job, fate, ran>>

SyncOutputs(p) ==
    /\ pc[p] = "sync"
    /\ synced' = dir
    /\ Goto(p, "link")
    /\ UNCHANGED <<checkout, dir, envelopes, job, fate, ran>>

\* os.link does not replace a receipt that is there.  From here on receipt.json
\* can be read, whatever becomes of the command.
LinkReceipt(p) ==
    /\ pc[p] = "link"
    /\ dir.receipt = NoEnvelope
    /\ dir' = [dir EXCEPT !.receipt = Receipt(p)]
    /\ envelopes' = envelopes \cup {Receipt(p)}
    /\ Goto(p, "unlink")
    /\ UNCHANGED <<checkout, synced, job, fate, ran>>

UnlinkPending(p) ==
    /\ pc[p] = "unlink"
    /\ dir' = [dir EXCEPT !.pending = FALSE]
    /\ Goto(p, "finish")
    /\ UNCHANGED <<checkout, synced, envelopes, job, fate, ran>>

\* The last fsync; the bundle is complete and the receipt is printed.
Complete(p) ==
    /\ pc[p] = "finish"
    /\ synced' = dir
    /\ fate' = "complete"
    /\ Leave(p, "idle")
    /\ UNCHANGED <<checkout, dir, envelopes>>

-----------------------------------------------------------------------------
(* countersign_work_receipt *)

\* The refusals before the execution.
BeginCountersign(p, e) ==
    /\ pc[p] = "idle"
    /\ MayBegin
    /\ Verified(e)
    /\ p # e.issuer
    /\ \A c \in e.counters : c.verifier # p
    /\ checkout = e.claim.rev
    /\ Note(p, [IdleJob EXCEPT !.rev = checkout, !.doc = e])
    /\ Goto(p, "start")
    /\ UNCHANGED <<checkout, dir, synced, envelopes, fate, ran>>

SameClaim(p) == ClaimOf(p) = job[p].doc.claim

Countersign(p) ==
    /\ pc[p] = "inspect"
    /\ job[p].doc # NoEnvelope
    /\ StillThere(p)
    /\ SameClaim(p)
    /\ \E t \in Times :
          LET updated == [job[p].doc EXCEPT !.counters =
                             @ \cup {[verifier |-> p, observed |-> t]}]
          IN  Verified(updated) /\ envelopes' = envelopes \cup {updated}
    /\ Leave(p, "idle")
    /\ UNCHANGED <<checkout, dir, synced, fate>>

-----------------------------------------------------------------------------
(* Errors, interrupts, kills and power losses. *)

\* Mutant: an error leaves the bundle as it is.
FailQuietly(p) ==
    /\ pc[p] \in Bundled
    /\ Leave(p, "idle")
    /\ UNCHANGED <<checkout, dir, synced, envelopes, fate>>

\* An exception: a refusal, an OSError, an interrupt.  OutputBundle.__exit__
\* removes what was reserved.
Fail(p) ==
    /\ pc[p] \in Bundled
    /\ Leave(p, IF job[p].store THEN "cleanup" ELSE "idle")
    /\ UNCHANGED <<checkout, dir, synced, envelopes, fate>>

\* shutil.rmtree, one entry at a time in the order the directory lists them
RemoveEntry(p) ==
    /\ pc[p] = "cleanup"
    /\ \/ \E s \in Streams : /\ dir.out[s] # "absent"
                             /\ dir' = [dir EXCEPT !.out[s] = "absent"]
       \/ dir.pending /\ dir' = [dir EXCEPT !.pending = FALSE]
       \/ dir.receipt # NoEnvelope /\ dir' = [dir EXCEPT !.receipt = NoEnvelope]
    /\ fate' = "removing"
    /\ UNCHANGED <<checkout, synced, envelopes, pc, job, ran>>

RemoveDirectory(p) ==
    /\ pc[p] = "cleanup"
    /\ dir = EmptyDir
    /\ dir' = NoDir /\ synced' = NoDir /\ fate' = "none"
    /\ Goto(p, "idle")
    /\ UNCHANGED <<checkout, envelopes, job, ran>>

\* What a directory nobody works on any more counts as.
Abandoned == IF fate = "work" THEN "left" ELSE fate

\* The process is killed, rmtree fails, or an interrupt comes before
\* __enter__ has returned.
Halt(p) ==
    /\ pc[p] # "idle"
    /\ fate' = IF Owns(p) THEN Abandoned ELSE fate
    /\ Leave(p, "idle")
    /\ UNCHANGED <<checkout, dir, synced, envelopes>>

\* Entries made or removed since the last fsync are there or not, each for
\* itself; the entry of the directory in its parent is never synced.
PowerLoss ==
    /\ \/ /\ \E out \in [Streams -> Contents \cup {"absent", "partial"}] :
                \E pend \in {dir.pending, synced.pending},
                   rec \in {dir.receipt, synced.receipt} :
                    /\ \A s \in Streams : out[s] \in {dir.out[s], synced.out[s]}
                    /\ dir' = [made |-> dir.made, out |-> out, pending |-> pend,
                               receipt |-> rec]
          /\ synced' = dir'
          /\ fate' = Abandoned
       \/ dir' = NoDir /\ synced' = NoDir /\ fate' = "none"
    /\ pc' = [p \in Procs |-> "idle"]
    /\ job' = [p \in Procs |-> IdleJob]
    /\ ran' = [p \in Procs |-> {}]
    /\ UNCHANGED <<checkout, envelopes>>

-----------------------------------------------------------------------------
Init ==
    /\ checkout \in Revisions
    /\ dir = NoDir
    /\ synced = NoDir
    /\ envelopes = {}
    /\ pc = [p \in Procs |-> "idle"]
    /\ job = [p \in Procs |-> IdleJob]
    /\ fate = "none"
    /\ ran = [p \in Procs |-> {}]

Execute(p) == Launch(p) \/ Exit(p) \/ HashStreams(p) \/ OpenNew(p) \/ FillNew(p)

Finish(p) ==
    \/ CheckOutputs(p) \/ WritePending(p) \/ SyncOutputs(p)
    \/ LinkReceipt(p) \/ UnlinkPending(p) \/ Complete(p)

Next ==
    \/ Edit \/ Discard \/ PowerLoss
    \/ \E p \in Procs :
          \/ \E store \in BOOLEAN : Create(p, store)
          \/ \E e \in envelopes : BeginCountersign(p, e)
          \/ Reserve(p) \/ Secure(p) \/ Execute(p) \/ Scribble(p)
          \/ Sign(p) \/ Finish(p) \/ Countersign(p)
          \/ Fail(p) \/ RemoveEntry(p) \/ RemoveDirectory(p) \/ Halt(p)

Spec == Init /\ [][Next]_vars

-----------------------------------------------------------------------------
(* Properties *)

\* The shapes of the state; every envelope in circulation is one that
\* _verify_and_decode accepts.
TypeOK ==
    /\ checkout \in Revisions \cup {"dirty"}
    /\ \A d \in {dir, synced} : d \in Dir /\ (~d.made => d = NoDir)
    /\ \A e \in envelopes :
          /\ e \in Envelope
          /\ \A c \in e.counters : c.observed >= e.completed
    /\ pc \in [Procs -> PC]
    /\ fate \in {"none", "work", "complete", "left", "removing"}

\* receipt.json is the last thing to appear: where it is visible, after any
\* crash or power loss too, both outputs lie beside it and are the very bytes
\* it signs.  Only a removal under way, or cut short, is excepted.
ReceiptComesLast ==
    dir.receipt # NoEnvelope /\ fate # "removing" =>
        dir.out = dir.receipt.claim.out

\* A bundle whose command reported success is never altered in part: no other
\* create that chose the same directory, and no power loss, touches it.
CompletedIsKept ==
    [][fate = "complete" => dir' \in {dir, NoDir}]_vars

\* A refused or failed create leaves no directory behind: one that nobody
\* works on is complete, or was abandoned by a kill, a power loss or a removal
\* that failed.
FailureLeavesNothing ==
    fate = "work" => \E p \in Procs : Owns(p)

\* An envelope comes into circulation only with a signature of a process that
\* bears it out: the signer's own run of the command ended with the signed
\* result and output, and since it ended the checkout has been clean at the
\* signed revision, whoever edited it meanwhile.  A countersigner is not the
\* issuer, signs once, not before the execution it confirms, and adds to an
\* envelope that was there.
SignedIsObserved ==
    [][\A e \in envelopes' \ envelopes :
          \E p \in Procs :
              /\ e.claim \in ran[p]
              /\ \/ p = e.issuer /\ e.counters = {}
                 \/ \E c \in e.counters :
                       /\ c.verifier = p /\ p # e.issuer
                       /\ c.observed >= e.completed
                       /\ [e EXCEPT !.counters = @ \ {c}] \in envelopes
                       /\ \A d \in e.counters \ {c} : d.verifier # p]_vars

-----------------------------------------------------------------------------
(* The inductive invariant behind the safety properties. *)

Job ==
    [rev : Revisions \cup {"none"}, store : BOOLEAN,
     doc : Envelope \cup {NoEnvelope}, started : Nat, completed : Nat,
     result : Results \cup {"none"}, stream : [Streams -> Contents \cup {"absent"}],
     digest : [Streams -> Contents \cup {"absent"}]]

\* What a process has recorded by the time it reaches a step; a countersigner
\* works on an envelope in circulation that it may sign and stores nothing.
JobInv(p) ==
    /\ pc[p] \notin {"idle", "cleanup"} => job[p].rev \in Revisions
    /\ pc[p] \in Bundled \ {"start", "wait"} =>
          job[p].completed \in Times /\ job[p].result \in Results
    /\ pc[p] \in {"hash", "open", "fill"} =>
          job[p].stream \in [Streams -> Contents]
    /\ pc[p] \in Bundled \ {"start", "wait", "hash"} =>
          job[p].digest \in [Streams -> Contents]
    /\ pc[p] \in PC \ {"idle", "cleanup", "start", "wait", "hash", "inspect"} =>
          job[p].store
    /\ job[p].doc # NoEnvelope =>
          /\ ~job[p].store
          /\ job[p].doc \in envelopes
          /\ job[p].doc.issuer # p
          /\ \A c \in job[p].doc.counters : c.verifier # p

\* A receipt that is visible, or may be so after a power loss, lies beside
\* outputs that are those it signs, in the directory and as of its last fsync.
DirInv ==
    /\ ~dir.made => dir = NoDir /\ synced = NoDir /\ fate = "none"
    /\ fate = "complete" => synced = dir
    /\ fate # "removing" =>
          /\ dir.receipt # NoEnvelope =>
                dir.out = dir.receipt.claim.out /\ synced.out = dir.out
          /\ synced.receipt # NoEnvelope => synced.receipt = dir.receipt

\* What the directory holds while a process works on it.
OwnerInv(p) ==
    Owns(p) =>
        /\ dir.made /\ fate \in {"work", "removing"}
        /\ pc[p] # "cleanup" => fate = "work"
        /\ pc[p] \notin {"unlink", "finish", "cleanup"} =>
              dir.receipt = NoEnvelope
        /\ pc[p] \in {"pending", "sync", "link", "unlink", "finish"} =>
              dir.out = job[p].digest
        /\ pc[p] \in {"link", "unlink", "finish"} => synced.out = dir.out

\* At most one process works on the directory.
SoleOwner == \A p, q \in Procs : Owns(p) /\ Owns(q) => p = q

\* Processes, directory and envelopes agree, across failures and power losses.
BundleInv ==
    /\ TypeOK
    /\ job \in [Procs -> Job] /\ \A p \in Procs : JobInv(p)
    /\ DirInv /\ SoleOwner /\ \A p \in Procs : OwnerInv(p)
    /\ FailureLeavesNothing

Run == [rev : Revisions \cup {"dirty"}, result : Results,
        out : [Streams -> Contents]]

\* Until it signs, a process knows its run at the checkout as it is; from then
\* on until the receipt is linked, what it has signed.
RunInv(p) ==
    /\ pc[p] \in {"hash", "open", "fill", "inspect"} =>
          [rev |-> checkout, result |-> job[p].result,
           out |-> IF pc[p] = "hash" THEN job[p].stream ELSE job[p].digest] \in ran[p]
    /\ pc[p] \in {"check", "pending", "sync", "link"} => ClaimOf(p) \in ran[p]

RanInv == ran \in [Procs -> SUBSET Run] /\ \A p \in Procs : RunInv(p)

=============================================================================
