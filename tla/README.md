# Verification of technocore-safe-agent

TLA+ models, model-checking runs and machine-checked proofs for the safe agent:
a command-line program that reads a Technocore room, answers a few signed
commands under a local policy, and keeps enough on disk to survive crashes, lost
answers and restarts without ever answering a command twice.

Paths such as `agent.py` are relative to `src/technocore_safe_agent/` of the
repository.

## 1. Inventory

| Component | State it keeps | Operations | Talks to |
| --- | --- | --- | --- |
| Live responder (`agent.py`, `cli.py` `_run`, `_poll`) | `AgentState` in memory, the current snapshot, the reply under way | bootstrap at the tail, poll, decide, sign, send, acknowledge, audit, save, clear | server (read, signed GET), every private file |
| Delivery journal (`delivery.py`) | at most one envelope: pending, then acknowledged | `require_empty`, `prepare`, `acknowledge`, `clear` | written by responder and recovery |
| Delivery recovery (`delivery_recovery.py`) | none of its own | inspect, apply, retry the exact envelope | journal, state file, server |
| State file (`state.py`) | cursor, nonce, generation per room; request timestamps per principal | `load`, `advance_cursor`, `next_nonce`, `observe_nonce`, `reserve_capability_request`, `save` | shared by responder, recovery, provisioning |
| Process lock (`process_lock.py`) | one `flock` | `acquire`, `release`, implicit release at exit | responder, `recover-delivery`, momentarily the health probe |
| Capability policy (`policy.py`, `capabilities.py`) | policy file, read afresh per message; rolling quota in the state file | `decide`, `allow` | responder |
| Audit log (`audit.py`) | hash-chained JSONL file | `append`, `verify` | responder (append), start-up, health, MCP (verify) |
| Protocol client (`protocol.py`) | none | `read_room`, `send_signed_message` | server |
| Provisioning (`provision.py`, `config.py`) | config file: pending, active | `provision`, `recover` | server, state file |
| Health (`health.py`) | none | one probe of every file and of the lock | all files |
| Controller (`controller.py`) | its own identity, nonce state, lock | create, grant, send | Keychain, policy file, server |
| Receipts (`receipt.py`) | none | look up a pull request, classify CI, sign, verify | GitHub |
| Work receipts (`work_receipt*.py`, `work_output.py`, `work_evidence.py`) | output bundle directory | execute, capture, sign, publish, countersign, verify | local checkout |
| Front ends (`mcp_server.py`, `beads_tasks.py`, `launchd.py`, `pilot.py`) | none | read-only views, plist, manual pilot | files, server |

What is hard here. The agent is single-threaded, but it is not alone: the
operator starts commands at any time, the server and the network decide when and
whether a signed write lands, the room forgets old messages, the clock may be
adjusted, and the process may die between any two writes. Each of the four files
is replaced atomically, but there is no transaction over several of them, so the
order of the writes carries the correctness. The hazards, each at its line and
with the properties that would notice it going wrong, are listed in
`PROJECT.json`.

What makes the components correct:

- responder, journal, recovery, lock: one answer per command, no lost answer, no
  nonce signed twice, no message from before the first startup answered, an audit
  record for every answer, files that never move backwards, and recovery that
  ends;
- quota: the limit of a grant holds in every rolling window across restarts,
  crashes and policy edits, and the history that is saved can be loaded;
- provisioning: an active config names a marker that is really in the room, an
  existing config is not replaced by another mailbox, a pending one can be
  resolved;
- controller: the key and the record of a reported identity outlive every other
  creation, and no attempted nonce is used again;
- reading: the durable cursor and generation never move back, whatever the room is
  restored to; what is skipped has an event, a cooldown is kept, and a responder
  that stays up catches up;
- health: a verdict that means what the documentation says it means, although the
  files are read one after the other beside a running agent;
- audit: an append after a crash is refused rather than joined to half a record;
- contribution receipts: success is signed only over complete and clean evidence,
  and failing lookups keep to the cooldown too;
- work receipts: what is published is complete, what fails leaves nothing behind,
  and a signature stands for an execution the signer has made in the checkout it names.

## 2. Modules

| Module | Models | Proofs |
| --- | --- | --- |
| `ReplyOnce` | the abstract promise: inputs are answered at most once, and never after the durable cursor has passed them | |
| `SafeAgent` | responder, journal, recovery, state file, lock, audit append and the room server, composed | `SafeAgent_proofs` |
| `CapabilityQuota` | policy file, authorization, rolling quota, restarts and the wall clock | `CapabilityQuota_proofs` |
| `Provision` | `provision` and `recover`, config file, state file, and the responder as far as it uses both | `Provision_proofs` |
| `Controller` | `controller create`, `grant` and `send`: Keychain, identity file, policy, nonce state, lock | `Controller_proofs` |
| `HealthProbe` | `health`, composed with `SafeAgent` (it extends it): the probe reads file after file beside responder and recovery | `HealthProbe_proofs` |
| `RoomReader` | the polling loop: snapshots, generations, retention gaps, retry delay and backoff, against a room that expires, is recreated or restored | `RoomReader_proofs` |
| `WorkReceipt` | `work-receipt create` and `countersign`, the output bundle, errors, kills and power losses | `WorkReceipt_proofs` |
| `ContributionReceipt` | `/pr`: cooldown, the reads of GitHub, CI classification, validation and signature | `ContributionReceipt_proofs` |
| `MCSafeAgent`, `MCHealthProbe`, `MCCapabilityQuota`, `MCProvision`, `MCController`, `MCRoomReader`, `MCWorkReceipt`, `MCContributionReceipt` | the instances TLC checks | |

`SafeAgent` and `HealthProbe` share one state; the others each take the part of the
agent they are about and stand alone. `RoomReader` refines the reading that
`SafeAgent` has in one step (`Poll`), and treats in one step (`Handle`,
`HandleFails`) what `SafeAgent` has in detail. `ContributionReceipt` is what
happens inside one `Work` of `CapabilityQuota`.

### SafeAgent

One process of `Procs` may be started as `run --send` (`Start`) or as
`recover-delivery --apply` (`Recover`). `pc` names its next step. Both hold the
process lock from start to exit, so the lock is `LockFree`, a function of `pc`:
the operating system drops it with the process. `mem` is the `AgentState` in
memory; it differs from `disk` exactly where the code has changed it and not yet
saved it, and it is lost in `Halt`.

An action ends at the next write to a file or to the network, so `Halt` can fall
between any two of them. `Halt` stands for every way out of `main`: a kill, an
interrupt, an exception, a refused or unanswered write (`UncertainWriteError`), a
failed save. A request abandoned while the server had not answered stays in
`late` and may still land (`AcceptLate`). An append to the audit log that is
interrupted may leave half a record (`torn`); `verify` then refuses the file, so
`Start` is disabled, while recovery, which does not open the audit log, is not.

The correspondence with the code, step by step:

| Step (`pc`) | Code |
| --- | --- |
| `Start` | `_run`, `_run_with_identity`, `_live_artifacts` (journal empty, audit verifies), `_initialize_cursor` |
| `BootRead`, `BootSave` | `bootstrap_latest` |
| `Poll`, `PollUnavailable` | `_poll`, `process_snapshot` |
| `Decline` | every decision without a reply, and `receipt_failed` |
| `Reply` | `require_empty`, `next_nonce`, signing, `prepare` |
| `Post`, `Accept`, `Acknowledge` | `send_signed_message`, the server, `journal.acknowledge` |
| `AppendAudit`, `SaveCursor`, `Clear` | `_persist_processed_message` |
| `Recover`, `Inspect`, `Repost`, `RetryAnswered` | `_recover_delivery`, `_recover_pending`, `_retry_exact_envelope` |
| `Finalize`, `RecoverSave`, `RecoverClear` | `_finalize_recovery` |

The room server is external. From the client and `tests/interop/checks.py`: it
numbers messages, refuses a nonce it has seen, serves the newest `limit` retained
messages after `since`, and an empty read echoes `since` (or, where it has moved
over expired messages, the tail: `LastSeq` allows both). Messages carry only what
the properties tell apart: a peer's command, another message, or a reply with the
input it answers and its nonce. The clock is any value at every reading.

Left out of `SafeAgent`: dry-run and `recover-delivery` without `--apply` (they
change nothing), room generations, read retries and backoff (in `RoomReader`),
the quota (in `CapabilityQuota`; its saves write the state the
process already has), the text of replies.

`prepared`, `recovered` and `history` are history variables: no guard reads them.

### CapabilityQuota

One live process handles messages: it reads the policy file (`Receive`; a
refusal changes nothing and is no step), asks the limiter (`RateLimited` or
`Reserve`), saves the reservation (`Save`) and only then sends or looks up
(`Work`). `EditPolicy`, `Tick` and `Halt` come at any moment. `Recent`,
`EffectiveNow`, `PruneCapabilityRequests` and `ReserveCapabilityRequest` are the
functions of `state.py`. `Loadable` is what `_capability_request_map` accepts.
`prunedAt` is a history variable: the clock by which the histories in memory, and
those in the file, were last pruned.

### Provision

A provisioning draws a room and a nonce (one number stands for both), looks for an
existing config twice (`Provision`, `CheckNew`), replaces the file
(`WritePending`), sends the marker (`Post`, answered by the server's `Accept`),
makes the config active and saves cursor and nonce (`Activate`, `LoadState`,
`SaveState`). `recover` (`LoadPending`, `Inspect`) joins at `Activate` when the
marker is found and at `Post` when the confirmed retry is allowed. Neither takes
the process lock. A command that ends or is interrupted loses its memory (`Exit`).
`Teams` are the sets of processes that may run beside one another. `raced` is a
history variable: some config was written while a second command was between its look
for the file and its own replacement. The responder (`RunStart`, `RunBoot`, `RunProcess`) is reduced to
its reads and saves of the state file; what it does in between is `SafeAgent`.

### Controller

`create` goes through `BeginCreate` (path check, new seed), `StoreSeed` or
`StoreFails` (the Keychain prompt; a timeout may come before or after the item is
added), `OpenIdentity` (`O_EXCL`), `FillIdentity`, `Verified`; a failure leads
through `WriteFails` or `VerifyFails` to `CleanupFile` and `CleanupSeed`. The file
is modelled by who created it, because a process keeps writing to a file that
another has unlinked. `_unlink_if_present` ignores errors, so each unlink may
leave the file. `grant` reads the policy and replaces it later; the check after the
write changes nothing and is left out. `send` verifies the key, takes the lock,
chooses a nonce, saves it and only then sends. The config that `send` reads is not
part of the module: an inactive one ends the command like any refusal (`Halt`).

### HealthProbe

`CheckState`, `LookDelivery`, `ReadDelivery`, `CheckAudit` and `CheckLock` are the
reads of `inspect_operational_health`, in its order; every step of `SafeAgent` may
fall between any two of them (`Beside`). Between the look at the journal's path and
the read of its contents the file may have gone: depending on which of its three
opens meets that, the probe reports an invalid journal or none (`ReadDelivery`).
`CheckLock` takes a free lock and `Unlock` gives it back; a `Start` or `Recover` in
between is refused. `Verdict` is the status that is printed, for both values of
`--expect-running`. The module starts from a provisioned agent (`HealthInit`), with
the cursor and nonce of the online marker. `quiet`, `held` and `vanished` are
history variables.

### RoomReader

`Start` loads the state file, `Boot` is `bootstrap_latest`, `Answer`, `Refuse` and
`Unavailable` are the outcomes of one read in `_poll`, `Handle`, `HandleFails` and
`EndBatch` are the parts of `process_snapshot`, `PrintEvents` is the loop in `_poll`
that prints what it returned, `Sleep` is one of the bounded sleeps that make up a
delay. Messages are their sequence numbers. The server may number, expire, recreate
the room under a higher generation, and be restored to any older tail or generation.
An event is modelled by the sequences it names. `passed`, `reported`, `hidden`,
`source` and `owed` are history variables. Time is counted in multiples of the
shortest delay; a sleep lasts as long as it was asked to, and time spent outside
sleeps is not counted against a cooldown.

### WorkReceipt

Each process has an identity of its own and may run `create`, with or without an
output directory, and `countersign`. All of them share one checkout, which somebody
may `Edit` at any time, and all choose the same output directory. The steps from
`Reserve` to `Complete` are the writes of `OutputBundle`; `Fail` is any exception
after `__enter__` and leads to the removal of the bundle entry by entry
(`RemoveEntry`, `RemoveDirectory`); `Halt` is a kill. `synced` is the directory as of
its last fsync: after a `PowerLoss` each entry made or removed since is there or not.
A stream is what it contains, a hash is what it hashes, a signature is its payload. A
detached child of the command may go on writing while the streams are copied
(`Scribble`). A receipt is in circulation from the moment it is linked, so one whose
`create` is killed before it is complete can be countersigned. `fate` and `ran` are
history variables: `ran` holds the claims that a process's run under way bears out, with
its result, its output and every state the checkout has had since the command ended.

### ContributionReceipt

`Issue` is the cooldown and the start of a lookup, `ReadPull`, `ReadChecks` and
`ReadStatuses` the three reads, `Sign` classification, validation and signature, and
`Fail` every `GitHubReceiptError`. Check runs and statuses of the head commit move
between the reads; more of them may exist than one page holds. `Classify` is the
ladder of `inspect`, `Valid` is `_validate_receipt_ci`, which issuer and verifier
apply. `lookups`, `sawCheck` and `sawStatus` are history variables.

## 3. Runs

| Run | Instance | Shows |
| --- | --- | --- |
| `safety` | 2 processes, 3 peer messages, nonces up to 2, poll limit 3, recovery limit 1, expiry | the safety properties below; `AgentInv`, the invariant of the proofs, holds in every reachable state; `RefinesReplyOnce`, `SafeAgent` implements `ReplyOnce` |
| `liveness` | 1 process and a probe, a marker and 2 further messages, complete history, `HealthFairSpec` | `RecoveryCompletes`, `InputsSettle`; `QuietVerdictIsExact`, `HeldVerdictIsRunning`, `UnhealthyIsExplained` |
| `quota` | 3 principals with 3 policies (one revokes a principal and replaces another, one is unreadable) and a loader that accepts 2, under a monotone clock, and 1 principal under a clock set freely; window 2, clock 0..4, 4 pieces of work | `WorkWithinQuota`, `WorkIsDurable`, `SavedIsLoadable`, `TimestampsAscend` |
| `clock` | the policies of `quota`, clock set freely | **violated**: finding 1 |
| `sole` | 2 processes, 1 Keychain item, 3 seeds, nonces up to 2 | `KeychainKept`, `IdentityKept`, `SentAscends`, and `ControllerInv`, the invariant of the proofs |
| `identity` | 2 processes, 2 Keychain items | **violated**: finding 2 |
| `resolves` | a command and the responder, or 2 racing commands, 2 rooms, peers write in rooms shorter than 2, read limit 2, expiry, `FairSpec` | `ActiveIsPosted`, `ConfigKept`, `PendingResolves` |
| `bundle` | 2 processes, 2 revisions, 1 stream with 2 contents, 2 clock readings, 2 envelopes, 1 countersignature | `ReceiptComesLast`, `CompletedIsKept`, `FailureLeavesNothing`, `SignedIsObserved` |
| `reader` | 3 messages, 2 generations, read limit 2, cooldowns 0 and 7 against sleeps of 3, kills, `FairSpec` | `NeverRewinds`, `CursorNamesItsGeneration`, `SkipsAreKnown`, `RetryAfterRespected`, `CatchesUp`, and `ReaderInv`, the invariant of the proofs |
| `gaps` | as `reader`, without kills | **violated**: finding 3 |
| `receipts` | 3 check runs, 1 status, pages of 2, interval 2 | `SuccessIsEarned`, `ReceiptsValidate`, `LookupsAreSpaced` |
| `cistate` | as `receipts` | **violated**: finding 4 |

Safety properties of `SafeAgent`: `AtMostOneReply`, `NonceNeverReused`,
`ClearedIsDelivered`, `AcknowledgementIsTrue`, `DeliveredIsAudited`,
`NoHistoricalReply`, and the action properties `StateNeverRewinds`,
`ClearedAfterDurable` and `NotFoundIsUnretained`. Each is
stated in a comment above its definition.

**Type invariants** are parts of the inductive invariants of section 5, and so proved for
every instance; `AgentInv`, `ControllerInv` and `ReaderInv` are also checked by their
runs. The other inductive invariants hold in the instances above as well; their runs
are spent on the properties that follow from them.

**Bounds.** Two processes are enough for a race, since a third could only repeat
the second; crashes and restarts are unbounded. Three peer messages give an input
with an earlier answer after it, an input that is last, and a batch with a rest.
Two nonces give two replies in one room and the exhaustion of the nonce space.
Recovery limit 1 makes the history of an early input incomplete and that of a late
one complete. A larger safety instance (4 peer messages, 3 nonces, 10.2 million
states) was also checked and passes. In the quota, window 2 within a clock of 4
gives requests inside, at the edge of and outside each other's windows, and three
principals against a loader that accepts two give the file that cannot be loaded.
In `RoomReader` three messages with a read limit of 2 give a gap, a handled message
and one after it; two generations give a recreated room and a rollback; a cooldown of
7 takes three sleeps (four messages, 360 thousand states, pass too). In `WorkReceipt`
two processes give the race for the directory and the countersigner, two contents and
two revisions the mismatches; instances with two streams (1.9 million states) and
with two results (1.7 million) pass too. In `ContributionReceipt` three check runs on
pages of two give partial evidence, and a time of 2 with an interval of 2 a refused
and an allowed second lookup.
Deadlock is not checked: peers may fall silent, and an agent with a torn audit
log really stops.

**Fairness.** `HealthFairSpec`: a running process takes its next step, and the
server answers a request it can accept or refuses one it has seen: the code has no
wait without a timeout. Starting, recovering and the confirmed retry are strongly
fair: they are the operator's, as the documentation asks of him after an uncertain
write, and a command that met the probe's lock is repeated. Probes end. Interruptions
must eventually cease (a refused start or a recovery that reports its result and
exits does not count as one), otherwise no recovery can finish. `InputsSettle`
excepts a torn audit log, from which the program offers no way back. Liveness is
checked without expiry: see the first remark below.

`Provision!FairSpec` is of the same kind: a command takes its next step, the
server accepts or refuses, the operator keeps confirming the retry of a pending
mailbox, and interruptions cease. `PendingResolves` excepts a mailbox whose history
is no longer complete: there `recover` refuses for good, as documented.

`RoomReader!FairSpec`: the process takes its next step, and a server that is asked
again and again answers at last (`Answer \/ Refuse` is strongly fair). Nothing is
assumed about starts: `CatchesUp` is about a responder that stays up.

In `Controller` three seeds allow a creation that fails, one that races it and one
that follows; a process that crashed may start again at any time. In `Provision`
two rooms allow a provisioning that failed and one that follows; peers' messages
before or after the marker and a read limit of 2 give complete, truncated and expired
histories; two commands give the race between the look for the file and its
replacement. Two commands beside the responder are left to the proofs, which are for
any number of them. Commands may be refused or fail for good and lookups may cease, so deadlock is not checked here either.

Symmetry is used in runs without liveness properties only: over `Procs` in `safety` and
`sole`, over interchangeable processes, contents and revisions in `bundle`, over check
runs in `receipts`.

## 4. Findings

1. *A clock that ran ahead restores another principal's capacity* (`clock`).
   `_prune_capability_requests` uses the raw clock for all principals; only the
   requesting principal is protected by its own high-water timestamp.
2. *A creation that loses the race removes the winner's identity* (`identity`).
   `_write_new_private_json` unlinks the path also when the exclusive open failed
   because another creation made it. With one Keychain selection the Keychain
   refuses the second creation first (`sole`, and proved); with two it does not.
3. *A retention gap may stay hidden* (`gaps`). `process_snapshot` returns its events
   after the last message of the batch. When a message after the gap was saved and
   a later one fails, the gap's event is dropped with the exception, and the
   restarted responder begins behind the gap.
4. *Successful checks without statuses are signed as pending* (`cistate`). The
   combined state of a commit without statuses is pending, and `inspect` does not ask
   whether there is a status before it believes it.

Remarks that have no run of their own:

- `_is_complete_history` accepts an empty read that only echoes the requested cursor,
  so a reply that landed and expired is reported as `delivery_not_found`, and the
  retry that is offered is refused by the server's nonce check for as long as it
  remembers the nonce; the journal cannot be cleared. Nothing is answered twice as
  long as that check holds. `NotFoundIsUnretained` is what remains true: the room
  retains no such reply.
- `AgentState.save` writes the history of every principal seen within the window, the
  loader accepts 128 (`state.py:189`). A policy file is bounded, the principals that
  edits of it bring in within an hour are not: with more than 128 of them the saved file
  cannot be loaded, and the agent does not start again until somebody repairs it.
  `SavedIsLoadable` excepts a window with more principals than the loader accepts. The
  run `quota` reaches such files, and without the exception the property is violated
  there by three requests of three principals.
- A config is active before `_activate` saves cursor and nonce, and neither
  `provision` nor `recover` takes the responder's lock (`provision.py:186`): a
  responder started in between and the activation overwrite one another's state file.
- A `grant` replaces a policy to which the operator has added a principal since it
  was read (`ReplacePolicy` after `EditPolicy`).
- `_atomic_json_write` looks for an existing config and then calls `os.replace`, which
  does not (`config.py:119-121`): of two provisionings that looked before either
  replaced the file, the second replaces the mailbox of the first, in spite of "refusing
  to overwrite existing agent config", and each may activate its own over the other's.
  `ConfigKept` excepts what follows that window (`raced`). The run `resolves` reaches it,
  and without the exception the property is violated there.
- `docs/operational-health.md` reads both ways about `--expect-running` with a valid
  journal and a free lock: `recovery_required` by its delivery state table (line 55) and
  because the option changes "a clean stopped process" (line 45), `unhealthy` because a
  "requested process expectation failed" (line 42). The code prints `unhealthy`
  (`health.py:83-92`), so a supervisor that expects a running process does not see the
  exit status for recovery. `DocumentedStatuses` admits both.
- A health probe that sees a journal which is then properly cleared may report
  `unhealthy` (`UnhealthyIsExplained` names it), and a start that meets the probe's
  lock is told that another live process is running.
- A room restored from a backup without a change of generation that has grown past
  the saved cursor before the next read is not noticed: the sequences posted again
  below the cursor are never handled.
- The entry of an output directory in its parent is never synced, so a completed
  bundle may vanish as a whole at a power loss, never in part. An interrupt between
  `mkdir` and the return of `__enter__`, and a removal cut short, leave a directory.
- A contribution receipt joins two moments: the check runs when they were read and the
  statuses when they were read.
- `pilot.py` runs a sending responder on the agent's own state file without lock,
  journal or audit log; beside a running agent nothing in `SafeAgent` holds for it.

## 5. Proofs

`SafeAgent_proofs` proves, for every set of processes, every bound and limit, with
and without expiry (assumption `ConstantsAssumption`: bounds are natural numbers,
limits positive):

| Theorem | Statement |
| --- | --- |
| `TypeCorrect` | `Spec => []TypeOK` |
| `AgentInvariant` | `Spec => []AgentInv` |
| `AnsweredOnce`, `NoncesAreFresh`, `NoReplyIsDropped`, `JournalIsTruthful`, `AuditIsComplete` | the state invariants |
| `NoRewind`, `ClearIsLast` | the action properties |
| `HistoryUnanswered` | `Spec => []NoHistoricalReply` |
| `RetryIsJustified` | `Spec => NotFoundIsUnretained` |
| `Refinement` | `Spec => Once!Spec`, the agent implements `ReplyOnce` |

The argument. None of the properties is inductive: that a second answer cannot
appear depends on what the journal, the state file and the process know about the
first. `AgentInv` says it:

- `RoomInv`: only envelopes that were journaled travel, and each nonce lands once;
- `EnvelopeInv`: every envelope ever prepared is either the journaled one, or
  delivered with its input and nonce behind the durable cursor and nonce; two
  envelopes share neither input nor nonce;
- `JournalInv`: the journal holds a prepared envelope, and an acknowledgement in it
  is true;
- `IdleInv`, `HandleInv`, `RecoverInv`: what each step of the one live process may
  rely on, in particular that its memory equals the file between messages, and that
  the message it handles is next after the durable cursor;
- `OneLive`: the lock.

A new envelope takes a nonce above the durable one and an input above the durable
cursor, and by `EnvelopeInv` every older envelope lies below both: that is why
saving the nonce only after the write is safe, and why a command is never answered
twice. The lemmas follow the actions: steps that leave the shared state alone
(`SharedFrame` with `RunFrameSteps`, `RecoverFrameSteps`, `HaltStep`), steps of the
room (`AcceptShared`, `RoomSteps`, `AcceptStep`), saves (`SaveShared`), the
acknowledgement, the clear, and the new envelope (`ReplyStep`). `HistoryInv` is a
second invariant, proved on top of `AgentInv`, for the messages from before the
first startup. For the refinement, `NewReplyIsOpen` shows that an envelope new to
the room answers an input still open in the abstract sense. For `RetryIsJustified`,
`CompleteWindow` shows that a read accepted as complete and without a match holds
every retained message after the journaled input, and `AgentInv` that the reply, if it
landed, landed after it.

`Controller_proofs`, for every set of processes and Keychain items (assumption
`ControllerAssumption`: the bounds are natural numbers):

| Theorem | Statement |
| --- | --- |
| `ControllerInvariant` | `Spec => []ControllerInv` |
| `KeysSurvive` | `Spec => []KeychainKept` |
| `NoncesAscend` | `Spec => []SentAscends` |
| `SoleIdentityKept` | with one Keychain item, `Spec => []IdentityKept` |
| `TypeCorrect` | `Spec => []TypeOK` |

A creation deletes an item by name, so `KeychainKept` needs to know whose item it
is: `HolderHasItem` says that a creation past its store still finds its own seed
under its account, `SeedsFresh` that unfinished creations differ from each other
and from the reported ones. Then the item of a reported identity is never the one
being deleted (`KeyStep`). With a single account, a reported identity and a
creation past its store exclude each other, so nobody can unlink the file
(`SoleIdentityKept`). `NoncesReserved` keeps every attempted nonce at or below the
saved one and the nonce of the one sender above all of them (`SendStep`).

`Provision_proofs` (assumption `ProvisionAssumption`) proves
`ActiveConfigIsTrue`, `Spec => []ActiveIsPosted`, and `TypeCorrect` for any number of
racing commands, from `ProvisionInv` (`ProvisionInvariant`): a command that knows a sequence knows where the marker of its own
room is (`AnswerIsTrue`), and rooms only grow (`AppendFacts`).

`MailboxIsKept` adds `Spec => ConfigKept`, for any number of commands, from `FileInv`:
until two commands have raced, the file is missing when a command is about to write it
and about that command's room from then on, pending or activated by another command.
`OneMarker` is needed beside it: two commands that activate the same room record the same
sequence, because the server holds one marker of a room.

`RoomReader_proofs`, for every number of messages and generations, every read limit,
delay and cooldown (`RoomReaderAssumption`), from `ReaderInv` (`ReaderInvariant`):

| Theorem | Statement |
| --- | --- |
| `GenerationIsNamed` | `Spec => []CursorNamesItsGeneration` |
| `SkipsAreNamed` | `Spec => []SkipsAreKnown` |
| `CooldownIsKept` | `Spec => []RetryAfterRespected` |
| `NoRewind` | `Spec => NeverRewinds` |

`MemoryInv` says how memory may differ from the file while a batch is worked on: only
by a generation still to be saved. `BatchInv` says that what lies between the cursor
and a message still to be handled is to be handled too or has its event, so a step of
the cursor skips nothing silently. `DelayInv` keeps what is owed to the server within
what is left of the delay.

`HealthProbe_proofs`, for an agent of any size beside the probe, (`ConstantsAssumption`,
`ProvisionedAssumption`) from `HealthInv` (`HealthInvariant`), which includes `AgentInv`:

| Theorem | Statement |
| --- | --- |
| `QuietProbe` | `HealthSpec => []QuietVerdictIsExact` |
| `HeldProbe` | `HealthSpec => []HeldVerdictIsRunning` |
| `UnhealthyHasAReason` | `HealthSpec => []UnhealthyIsExplained` |

`FindingsInv` ties each finding of the probe to its cause; `QuietInv` says that what
was read is what the files still hold while nobody is live; `HeldInv` that a lock held
throughout is seen. The agent's steps are taken from `SafeAgent_proofs`: what is added
is that a step needs a live process, and which of them empties the journal.

`WorkReceipt_proofs`, for every set of processes, revisions, streams, contents, results
and times (`WorkReceiptAssumption`), from `BundleInv` (`BundleInvariant`):

| Theorem | Statement |
| --- | --- |
| `ReceiptIsLast` | `Spec => []ReceiptComesLast` |
| `FailuresClean` | `Spec => []FailureLeavesNothing` |
| `CompletedStays` | `Spec => CompletedIsKept` |
| `RunsAreRecorded` | `Spec => []RanInv` |
| `SignaturesAreObserved` | `Spec => SignedIsObserved` |

`SoleOwner` is what `mkdir` without `exist_ok` gives: one process works on the
directory. `OwnerInv` says what the directory holds at each of that process's steps,
and `DirInv` that outputs were synced before the receipt is linked, so that no choice a
power loss makes among unsynced entries shows a receipt without its outputs. `RanInv`
follows a run from the exit of its command: what the process holds is what the run
showed in the checkout as it is now, and, once `StillThere` has been passed, in the
checkout at the revision it signs; edits only add to what was seen.

`ContributionReceipt_proofs`, for every finite set of checks and contexts, every page
size and interval (`ContributionReceiptAssumption`), from `ReceiptInv` (`ReceiptInvariant`):

| Theorem | Statement |
| --- | --- |
| `SuccessRestsOnAll` | `Spec => SuccessIsEarned` |
| `ClassificationIsValid` | `Spec => []ReceiptsValidate` |
| `CooldownHolds` | `Spec => []LookupsAreSpaced` |

`SummaryInv` remembers that each summary is that of one page of what there was when it
was read; the rest is counting: the counts of a page add up to its size, and a page
smaller than the total makes the evidence partial.

`CapabilityQuota_proofs`, for every set of principals, messages and policies, every
window, bound and clock (`QuotaAssumption`):

| Theorem | Statement |
| --- | --- |
| `QuotaInvariant` | `Spec => []QuotaInv` |
| `HighWaterStays` | `Spec => TimestampsAscend` |
| `SavedStateLoads` | `Spec => []SavedIsLoadable` |
| `CoverInvariant` | with `SteadyWindow`, `Spec => []CoverInv` |
| `QuotaHolds` | with `SteadyWindow`, `Spec => []WorkWithinQuota` |
| `WorkSurvives` | with `SteadyWindow`, `Spec => []WorkIsDurable` |

`SteadyWindow` is `Rewinding = {} \/ \A d, e \in Dids : d = e`: the clock only advances,
or there is one principal, whatever the clock does. It excludes exactly finding 1, in
which one principal's request prunes another's history by a clock that ran ahead.
`SavedStateLoads` has no hypothesis: `QuotaInv` says that every principal in the file had
a request in the window when the file was pruned, so that only a window with too many
principals makes a file the loader refuses.
The quota is not inductive: pruning forgets timestamps, so a history counts all the
work done only from some moment on. `Horizon` names that moment: the clock, or, where
the clock may be set back, the principal's own latest timestamp, which
`reserve_capability_request` takes for the time when the clock is behind it. `CoverInv`
then says that from its horizon on a history counts at least the work done and the
work under way (`Awaiting`), in memory before the save and on disk after it. The
lemmas `RecentOfAppend`, `RecentIsPart`, `RecentOfRecent`, `RecentAscends` and
`RecentKeepsLatest` say what the filter of `state.py` does to a history of any length.
They are proved by induction with the set of good histories as the parameter
(`NaturalInduction`, `HistoryInduction`, from `WFMin`), since the provers cannot
instantiate the library's induction theorems, which take an operator.

The proofs corrected three definitions. `ContributionReceipt!Combined` was a `CASE` with
overlapping guards, which TLC evaluates in order and TLA+ does not define so; it is an
`IF` now. `CapabilityQuota!Recent` is a recursive function, about which induction can
speak. An assumption of `CapabilityQuota` with `UNION` and set difference was read in
two ways by the tools and is parenthesised.

**Only model-checked**: the liveness properties `RecoveryCompletes`, `InputsSettle`,
`PendingResolves` and `CatchesUp`, since liveness under fairness is beyond the prover.
Every other property of a passing run is stated by a theorem. `IdentityKept`,
`WorkWithinQuota` and `WorkIsDurable` are proved under the hypotheses above; where those
fail, so do the properties. `ConfigKept` and `SavedIsLoadable` are proved without, and
name in their own statement the case the code does not rule out.

## 6. Not modelled, and plan

Worth proving next:

1. `SentAscends` of `Controller` together with the responder's own nonces, in a module
   that lets both use one state file;
2. an abstract specification of the quota (a bag of work per principal and window) that
   `CapabilityQuota` refines under `SteadyWindow`, and one of the output bundle (absent,
   partial, complete) that `WorkReceipt` refines;
3. `ActiveIsPosted` for the state file as well: under which order of `_activate` and a
   starting responder the saved cursor is at or past the marker.

Not modelled:

- the hash chain, the checkpoint head and the size limit of the audit log: only the
  lock holder appends, and what an edit of the file breaks is a matter of the hash;
- `work_evidence.py`: it reads a finished bundle and compares hashes, without state;
- `mcp_server.py` and `beads_tasks.py`: read-only views that call the components above;
- `launchd.py`: prints a plist;
- `pilot.py`: a manual script against a live room (see the remark above);
- key storage and signatures (they appear as envelopes nobody can forge), JSON
  validation, URL and text formatting.
