------------------------------ MODULE Controller ------------------------------
(***************************************************************************)
(* The least-privilege controller: `controller create`, `controller grant` *)
(* and `controller send`, run by any number of processes on one identity   *)
(* path, one capability policy and one controller state file.              *)
(*                                                                         *)
(* Creation touches two stores that cannot be updated together, the macOS  *)
(* Keychain and the public identity file; neither it nor the grant takes a *)
(* lock.  Sending holds the controller lock.  A seed stands for the key    *)
(* and for the DID derived from it.  Each action ends at the next access   *)
(* to shared state, and a process may halt between any two.                *)
(***************************************************************************)
EXTENDS Naturals, Sequences

CONSTANTS
    Procs,      \* processes that may run a controller command
    Accounts,   \* Keychain items, the --service and --account selections
    MaxSeeds,   \* bound: creations attempted
    MaxNonce    \* the largest nonce the protocol admits (19 digits)

ASSUME ControllerAssumption == MaxSeeds \in Nat /\ MaxNonce \in Nat

VARIABLES
    keychain,   \* Keychain: the seed of every item, 0 if there is none
    file,       \* file: controller-identity.json, full once written
    policy,     \* file: the principals of the capability policy
    saved,      \* file: the nonce high-water mark of controller-state.json
    pc,         \* process: next step
    mine,       \* process: the identity being created or loaded
    nonce,      \* process: the nonce reserved for its command
    seeds,      \* history: the number of seeds generated
    created,    \* history: the identities `create` reported
    sent        \* history: the nonces of the commands put on the network

identityVars == <<keychain, file, seeds, created>>
sendVars == <<saved, nonce, sent>>
vars == <<keychain, file, policy, saved, pc, mine, nonce, seeds, created, sent>>

IdentityRecord == [seed : Nat, account : Accounts \cup {"none"}]
NoRecord == [seed |-> 0, account |-> "none"]
NoFile == [record |-> NoRecord, full |-> FALSE]

\* The principal of a policy the operator writes by hand.
Operator == 0

PC == {"idle", "store", "open", "fill", "verify", "unlink", "delete",
       "grant", "replace", "key", "lock", "reserve", "post", "await"}

Goto(p, step) == pc' = [pc EXCEPT ![p] = step]

-----------------------------------------------------------------------------
(* create_controller_identity *)

\* The path must not exist; a fresh seed is generated in memory.
BeginCreate(p, a) ==
    /\ pc[p] = "idle"
    /\ file = NoFile
    /\ seeds < MaxSeeds
    /\ seeds' = seeds + 1
    /\ mine' = [mine EXCEPT ![p] = [seed |-> seeds + 1, account |-> a]]
    /\ Goto(p, "store")
    /\ UNCHANGED <<keychain, file, policy, created, sendVars>>

PutSeed(p) == keychain' = [keychain EXCEPT ![mine[p].account] = mine[p].seed]

\* Mutant: `security add-generic-password -U` updates an existing item.
StoreSeedUpdating(p) ==
    /\ pc[p] = "store"
    /\ PutSeed(p)
    /\ Goto(p, "open")
    /\ UNCHANGED <<file, policy, mine, seeds, created, sendVars>>

\* The prompts are answered and the item, which must be new, is added.
StoreSeed(p) ==
    /\ pc[p] = "store"
    /\ keychain[mine[p].account] = 0
    /\ PutSeed(p)
    /\ Goto(p, "open")
    /\ UNCHANGED <<file, policy, mine, seeds, created, sendVars>>

\* Mutant: storing the seed is part of what the cleanup protects.
StoreFailsIntoCleanup(p) ==
    /\ pc[p] = "store"
    /\ Goto(p, "unlink")
    /\ UNCHANGED <<keychain, file, policy, mine, seeds, created, sendVars>>

\* The item exists, the tool fails, or the prompt times out and the child is
\* killed, before or after it added the item.  Nothing is cleaned up.
StoreFails(p) ==
    /\ pc[p] = "store"
    /\ \/ UNCHANGED keychain
       \/ keychain[mine[p].account] = 0 /\ PutSeed(p)
    /\ Goto(p, "idle")
    /\ UNCHANGED <<file, policy, mine, seeds, created, sendVars>>

\* O_CREAT | O_EXCL
OpenIdentity(p) ==
    /\ pc[p] = "open"
    /\ file = NoFile
    /\ file' = [record |-> mine[p], full |-> FALSE]
    /\ Goto(p, "fill")
    /\ UNCHANGED <<keychain, policy, mine, seeds, created, sendVars>>

\* The content goes to the file this process opened, if it is still there.
FillIdentity(p) ==
    /\ pc[p] = "fill"
    /\ file' = IF file.record = mine[p] THEN [file EXCEPT !.full = TRUE]
                                        ELSE file
    /\ Goto(p, "verify")
    /\ UNCHANGED <<keychain, policy, mine, seeds, created, sendVars>>

\* _unlink_if_present ignores every error.
UnlinkIfPresent == file' \in {NoFile, file}

\* Opening (also because the path exists by now) or writing raises OSError:
\* the path is unlinked, whoever created it.
WriteFails(p) ==
    /\ pc[p] \in {"open", "fill"}
    /\ UnlinkIfPresent
    /\ Goto(p, "unlink")
    /\ UNCHANGED <<keychain, policy, mine, seeds, created, sendVars>>

Verified(p) ==
    /\ pc[p] = "verify"
    /\ file = [record |-> mine[p], full |-> TRUE]
    /\ created' = created \cup {mine[p]}
    /\ Goto(p, "idle")
    /\ UNCHANGED <<keychain, file, policy, mine, seeds, sendVars>>

\* The file is gone, is another one, or cannot be read.
VerifyFails(p) ==
    /\ pc[p] = "verify"
    /\ Goto(p, "unlink")
    /\ UNCHANGED <<keychain, file, policy, mine, seeds, created, sendVars>>

CleanupFile(p) ==
    /\ pc[p] = "unlink"
    /\ UnlinkIfPresent
    /\ Goto(p, "delete")
    /\ UNCHANGED <<keychain, policy, mine, seeds, created, sendVars>>

\* delete_seed succeeds, or fails before or after its effect.
CleanupSeed(p) ==
    /\ pc[p] = "delete"
    /\ \/ keychain' = [keychain EXCEPT ![mine[p].account] = 0]
       \/ UNCHANGED keychain
    /\ Goto(p, "idle")
    /\ UNCHANGED <<file, policy, mine, seeds, created, sendVars>>

-----------------------------------------------------------------------------
(* load_controller_identity, grant_controller_to_empty_policy *)

LoadIdentity(p, next) ==
    /\ pc[p] = "idle"
    /\ file.full
    /\ mine' = [mine EXCEPT ![p] = file.record]
    /\ Goto(p, next)
    /\ UNCHANGED <<identityVars, policy, sendVars>>

ReadPolicy(p) ==
    /\ pc[p] = "grant"
    /\ policy = {}
    /\ Goto(p, "replace")
    /\ UNCHANGED <<identityVars, policy, mine, sendVars>>

\* The whole file is replaced; reading it back afterwards changes nothing.
ReplacePolicy(p) ==
    /\ pc[p] = "replace"
    /\ policy' = {mine[p].seed}
    /\ Goto(p, "idle")
    /\ UNCHANGED <<identityVars, mine, sendVars>>

\* The operator empties the policy or adds a principal of his own.
EditPolicy ==
    /\ policy' \in {{}, policy \cup {Operator}}
    /\ UNCHANGED <<identityVars, pc, mine, sendVars>>

-----------------------------------------------------------------------------
(* send_controller_command, under the controller lock *)

\* load_verified_private_key: the Keychain holds the key of the record's DID.
LoadKey(p) ==
    /\ pc[p] = "key"
    /\ keychain[mine[p].account] = mine[p].seed
    /\ Goto(p, "lock")
    /\ UNCHANGED <<identityVars, policy, mine, sendVars>>

\* Mutant: the lock is not taken.
LockIgnored == TRUE

Sending(q) == pc[q] \in {"reserve", "post", "await"}

LockFree == \A q \in Procs : ~Sending(q)

Larger(a, b) == IF a >= b THEN a ELSE b

\* next_nonce
NextNonce(p, clock) ==
    /\ Larger(clock, saved + 1) <= MaxNonce
    /\ nonce' = [nonce EXCEPT ![p] = Larger(clock, saved + 1)]

\* The lock is taken, the state loaded and a nonce chosen, in memory.
Reserve(p) ==
    /\ pc[p] = "lock"
    /\ LockFree
    /\ \E clock \in 0 .. MaxNonce : NextNonce(p, clock)
    /\ Goto(p, "reserve")
    /\ UNCHANGED <<identityVars, policy, mine, saved, sent>>

\* Mutant: the command is sent before the nonce is saved.
SaveNonceLate(p) ==
    /\ pc[p] = "reserve"
    /\ Goto(p, "post")
    /\ UNCHANGED <<identityVars, policy, mine, sendVars>>

SaveNonce(p) ==
    /\ pc[p] = "reserve"
    /\ saved' = nonce[p]
    /\ Goto(p, "post")
    /\ UNCHANGED <<identityVars, policy, mine, nonce, sent>>

\* The signed command is on its way; only the answer is awaited.
Post(p) ==
    /\ pc[p] = "post"
    /\ sent' = Append(sent, nonce[p])
    /\ Goto(p, "await")
    /\ UNCHANGED <<identityVars, policy, mine, saved, nonce>>

\* The command ends, with its result, a refusal or an error, or is killed.
Halt(p) ==
    /\ pc[p] # "idle"
    /\ Goto(p, "idle")
    /\ UNCHANGED <<identityVars, policy, mine, sendVars>>

-----------------------------------------------------------------------------
Init ==
    /\ keychain = [a \in Accounts |-> 0]
    /\ file = NoFile
    /\ policy = {}
    /\ saved = 0
    /\ pc = [p \in Procs |-> "idle"]
    /\ mine = [p \in Procs |-> NoRecord]
    /\ nonce = [p \in Procs |-> 0]
    /\ seeds = 0
    /\ created = {}
    /\ sent = << >>

Create(p) ==
    \/ \E a \in Accounts : BeginCreate(p, a)
    \/ StoreSeed(p) \/ StoreFails(p)
    \/ OpenIdentity(p) \/ FillIdentity(p) \/ WriteFails(p)
    \/ Verified(p) \/ VerifyFails(p)
    \/ CleanupFile(p) \/ CleanupSeed(p)

Grant(p) == LoadIdentity(p, "grant") \/ ReadPolicy(p) \/ ReplacePolicy(p)

Send(p) ==
    \/ LoadIdentity(p, "key") \/ LoadKey(p)
    \/ Reserve(p) \/ SaveNonce(p) \/ Post(p)

Next ==
    \/ \E p \in Procs : Create(p) \/ Grant(p) \/ Send(p) \/ Halt(p)
    \/ EditPolicy

Spec == Init /\ [][Next]_vars

-----------------------------------------------------------------------------
(* Properties *)

\* The shapes of the stores; no nonce exceeds the protocol's limit.
TypeOK ==
    /\ keychain \in [Accounts -> Nat]
    /\ file \in [record : IdentityRecord, full : BOOLEAN]
    /\ policy \subseteq Nat
    /\ saved \in 0 .. MaxNonce
    /\ pc \in [Procs -> PC]
    /\ mine \in [Procs -> IdentityRecord]
    /\ nonce \in [Procs -> 0 .. MaxNonce]
    /\ seeds \in Nat
    /\ created \subseteq IdentityRecord
    /\ sent \in Seq(Nat)

\* The Keychain item of an identity that create reported is neither replaced
\* nor removed by any later or concurrent creation, completed, failed or
\* killed: the key behind a reported DID is never lost.
KeychainKept == \A r \in created : keychain[r.account] = r.seed

\* The public record of an identity that create reported stays where it is,
\* complete: no other creation replaces or removes it.
IdentityKept == \A r \in created : file = [record |-> r, full |-> TRUE]

\* Commands leave with strictly increasing nonces across processes, crashes
\* and clock adjustments: no attempted nonce is ever used again.
SentAscends == \A i, j \in DOMAIN sent : i < j => sent[i] < sent[j]

-----------------------------------------------------------------------------
(* The inductive invariant of the proofs. *)

\* Creations past the Keychain write: they alone may delete their item.
Holding(p) == pc[p] \in {"open", "fill", "verify", "unlink", "delete"}

Creating(p) == pc[p] = "store" \/ Holding(p)

\* Seeds are generated once: unfinished creations differ from one another
\* and from every identity already reported.
SeedsFresh ==
    /\ \A p \in Procs : Creating(p) =>
          /\ mine[p].account \in Accounts
          /\ 0 < mine[p].seed /\ mine[p].seed <= seeds
          /\ mine[p] \notin created
    /\ \A p, q \in Procs :
          Creating(p) /\ Creating(q) /\ mine[p].seed = mine[q].seed => p = q
    /\ \A r \in created :
          r.account \in Accounts /\ 0 < r.seed /\ r.seed <= seeds

HolderHasItem ==
    \A p \in Procs : Holding(p) => keychain[mine[p].account] = mine[p].seed

\* One process sends at a time; its nonce is above all that were sent.
NoncesReserved ==
    /\ \A p, q \in Procs : Sending(p) /\ Sending(q) => p = q
    /\ \A p \in Procs :
          /\ pc[p] = "reserve" => nonce[p] > saved
          /\ pc[p] = "post" => /\ nonce[p] = saved
                               /\ \A i \in DOMAIN sent : sent[i] < saved
    /\ \A i \in DOMAIN sent : sent[i] <= saved

\* The invariant on which the proofs rest: a Keychain item belongs to one
\* creation until it is reported, and the saved nonce covers every attempt.
ControllerInv ==
    /\ TypeOK /\ SeedsFresh /\ HolderHasItem /\ KeychainKept
    /\ NoncesReserved /\ SentAscends

===============================================================================
