--------------------------- MODULE Controller_proofs ---------------------------
(* Proofs of the safety properties of Controller for every set of processes *)
(* and Keychain items and every bound.                                      *)
EXTENDS Controller, TLAPS

-----------------------------------------------------------------------------
(* Type correctness. *)

\* What appending one more command to those sent changes.
LEMMA AppendFacts ==
    ASSUME NEW s \in Seq(Nat), NEW n \in Nat
    PROVE  /\ Append(s, n) \in Seq(Nat)
           /\ DOMAIN s = 1 .. Len(s)
           /\ Len(s) \in Nat
           /\ DOMAIN Append(s, n) = 1 .. Len(s) + 1
           /\ \A i \in 1 .. Len(s) : Append(s, n)[i] = s[i]
           /\ Append(s, n)[Len(s) + 1] = n
  OBVIOUS

LEMMA TypeInit == Init => TypeOK
  BY ControllerAssumption DEF Init, TypeOK, NoFile, NoRecord, IdentityRecord, PC

LEMMA TypeStep == TypeOK /\ [Next]_vars => TypeOK'
<1> SUFFICES ASSUME TypeOK, [Next]_vars PROVE TypeOK'
  OBVIOUS
<1> USE ControllerAssumption DEF TypeOK, identityVars, sendVars, Goto, PC
<1>0. NoFile \in [record : IdentityRecord, full : BOOLEAN]
  BY DEF NoFile, NoRecord, IdentityRecord
<1>1. ASSUME NEW p \in Procs, NEW a \in Accounts, BeginCreate(p, a) PROVE TypeOK'
  <2>1. [seed |-> seeds + 1, account |-> a] \in IdentityRecord
    BY DEF IdentityRecord
  <2> QED BY <1>1, <2>1 DEF BeginCreate
<1>2. ASSUME NEW p \in Procs, StoreSeed(p) \/ StoreFails(p) \/ CleanupSeed(p)
      PROVE TypeOK'
  <2>1. mine[p].seed \in Nat
    BY DEF IdentityRecord
  <2>2. keychain' \in [Accounts -> Nat]
    BY <1>2, <2>1 DEF StoreSeed, StoreFails, CleanupSeed, PutSeed
  <2>3. pc' \in [Procs -> PC]
    BY <1>2 DEF StoreSeed, StoreFails, CleanupSeed
  <2>4. UNCHANGED <<file, policy, mine, seeds, created, saved, nonce, sent>>
    BY <1>2 DEF StoreSeed, StoreFails, CleanupSeed
  <2> QED BY <2>2, <2>3, <2>4
<1>3. ASSUME NEW p \in Procs, OpenIdentity(p) \/ WriteFails(p) \/ CleanupFile(p)
      PROVE TypeOK'
  <2>1. file' \in [record : IdentityRecord, full : BOOLEAN]
    <3>1. CASE OpenIdentity(p)
      <4>1. mine[p] \in IdentityRecord
        OBVIOUS
      <4> QED BY <3>1, <4>1 DEF OpenIdentity
    <3>2. CASE WriteFails(p) \/ CleanupFile(p)
      BY <1>0, <3>2 DEF WriteFails, CleanupFile, UnlinkIfPresent
    <3> QED BY <1>3, <3>1, <3>2
  <2>2. pc' \in [Procs -> PC]
    BY <1>3 DEF OpenIdentity, WriteFails, CleanupFile
  <2>3. UNCHANGED <<keychain, policy, mine, seeds, created, saved, nonce, sent>>
    BY <1>3 DEF OpenIdentity, WriteFails, CleanupFile
  <2> QED BY <2>1, <2>2, <2>3
<1>4. ASSUME NEW p \in Procs, FillIdentity(p) PROVE TypeOK'
  <2>1. file' \in [record : IdentityRecord, full : BOOLEAN]
    BY <1>4 DEF FillIdentity
  <2>2. pc' \in [Procs -> PC]
    BY <1>4 DEF FillIdentity
  <2> QED BY <1>4, <2>1, <2>2 DEF FillIdentity
<1>5. ASSUME NEW p \in Procs, Verified(p) \/ VerifyFails(p) PROVE TypeOK'
  <2>1. mine[p] \in IdentityRecord /\ created \subseteq IdentityRecord
    OBVIOUS
  <2>2. created' \subseteq IdentityRecord
    <3>1. created' = created \/ created' = created \cup {mine[p]}
      BY <1>5 DEF Verified, VerifyFails
    <3> HIDE DEF TypeOK
    <3> QED BY <2>1, <3>1
  <2>3. pc' \in [Procs -> PC]
    BY <1>5 DEF Verified, VerifyFails
  <2>4. UNCHANGED <<keychain, file, policy, mine, seeds, saved, nonce, sent>>
    BY <1>5 DEF Verified, VerifyFails
  <2> QED BY <2>2, <2>3, <2>4
<1>6. ASSUME NEW p \in Procs,
             LoadIdentity(p, "grant") \/ LoadIdentity(p, "key")
      PROVE TypeOK'
  BY <1>6 DEF LoadIdentity
<1>7. ASSUME NEW p \in Procs, ReadPolicy(p) \/ ReplacePolicy(p) PROVE TypeOK'
  BY <1>7 DEF ReadPolicy, ReplacePolicy, IdentityRecord
<1>8. ASSUME NEW p \in Procs, LoadKey(p) \/ Halt(p) PROVE TypeOK'
  BY <1>8 DEF LoadKey, Halt
<1>9. ASSUME NEW p \in Procs, Reserve(p) PROVE TypeOK'
  <2>1. PICK clock \in 0 .. MaxNonce : NextNonce(p, clock)
    BY <1>9 DEF Reserve
  <2>2. Larger(clock, saved + 1) \in 0 .. MaxNonce
    BY <2>1 DEF NextNonce, Larger
  <2>3. nonce' \in [Procs -> 0 .. MaxNonce]
    BY <2>1, <2>2 DEF NextNonce
  <2> QED BY <1>9, <2>3 DEF Reserve
<1>10. ASSUME NEW p \in Procs, SaveNonce(p) \/ Post(p) PROVE TypeOK'
  <2>1. nonce[p] \in 0 .. MaxNonce /\ nonce[p] \in Nat
    OBVIOUS
  <2>2. saved' \in 0 .. MaxNonce /\ sent' \in Seq(Nat)
    <3>1. CASE SaveNonce(p)
      BY <2>1, <3>1 DEF SaveNonce
    <3>2. CASE Post(p)
      BY <2>1, <3>2, AppendFacts DEF Post
    <3> QED BY <1>10, <3>1, <3>2
  <2>3. pc' \in [Procs -> PC]
    BY <1>10 DEF SaveNonce, Post
  <2>4. UNCHANGED <<keychain, file, policy, mine, seeds, created, nonce>>
    BY <1>10 DEF SaveNonce, Post
  <2> QED BY <2>2, <2>3, <2>4
<1>11. CASE EditPolicy
  <2>1. policy' \subseteq Nat
    <3>1. policy' = {} \/ policy' = policy \cup {0}
      BY <1>11 DEF EditPolicy, Operator
    <3>2. policy \subseteq Nat /\ 0 \in Nat
      OBVIOUS
    <3> HIDE DEF TypeOK, PC, Goto, identityVars, sendVars
    <3>3. CASE policy' = {}
      BY <3>3, Zenon
    <3>4. CASE policy' = policy \cup {0}
      BY <3>2, <3>4, Zenon
    <3> QED BY <3>1, <3>3, <3>4
  <2> QED BY <1>11, <2>1 DEF EditPolicy
<1>12. CASE UNCHANGED vars
  BY <1>12 DEF vars
<1> QED
  BY <1>1, <1>2, <1>3, <1>4, <1>5, <1>6, <1>7, <1>8, <1>9, <1>10, <1>11, <1>12
  DEF Next, Create, Grant, Send

-----------------------------------------------------------------------------
(* Creation: a Keychain item belongs to one creation until it is reported.  *)

KeyInv == TypeOK /\ SeedsFresh /\ HolderHasItem /\ KeychainKept

\* A step that touches neither the Keychain nor the reported identities, and
\* after which no process has joined the unfinished creations, keeps KeyInv.
LEMMA KeyStutter ==
    ASSUME KeyInv, TypeOK',
           UNCHANGED <<keychain, seeds, created>>,
           \A p \in Procs : Creating(p)' => Creating(p) /\ mine'[p] = mine[p],
           \A p \in Procs : Holding(p)' => Holding(p)
    PROVE  KeyInv'
<1>1. SeedsFresh'
  BY Zenon DEF KeyInv, SeedsFresh
<1>2. HolderHasItem' /\ KeychainKept'
  <2>1. ASSUME NEW p \in Procs, Holding(p)'
        PROVE  keychain'[mine'[p].account] = mine'[p].seed
    BY <2>1, Zenon DEF KeyInv, HolderHasItem, Creating
  <2> QED BY <2>1, Zenon DEF KeyInv, HolderHasItem, KeychainKept
<1> QED BY <1>1, <1>2 DEF KeyInv

LEMMA KeyStep == KeyInv /\ [Next]_vars => KeyInv'
<1> SUFFICES ASSUME KeyInv, [Next]_vars PROVE KeyInv'
  OBVIOUS
<1>t. TypeOK /\ TypeOK'
  BY TypeStep DEF KeyInv
<1> USE <1>t
<1>1. ASSUME NEW p \in Procs, NEW a \in Accounts, BeginCreate(p, a)
      PROVE  KeyInv'
  <2>0. /\ mine'[p] = [seed |-> seeds + 1, account |-> a]
        /\ \A q \in Procs \ {p} : mine'[q] = mine[q] /\ pc'[q] = pc[q]
        /\ pc'[p] = "store"
        /\ seeds' = seeds + 1 /\ seeds \in Nat
        /\ keychain' = keychain /\ created' = created
    BY <1>1 DEF BeginCreate, Goto, TypeOK
  <2>1. \A q \in Procs \ {p} : Creating(q)' = Creating(q) /\ Holding(q)' = Holding(q)
    BY <2>0 DEF Creating, Holding
  <2>2. ~Holding(p)'
    BY <2>0 DEF Holding
  <2>n. \A q \in Procs : mine[q].seed \in Nat
    BY DEF TypeOK, IdentityRecord
  <2>3. \A r \in created : r.seed \in Nat /\ r.seed < seeds'
    BY <2>0 DEF KeyInv, SeedsFresh, TypeOK, IdentityRecord
  <2>4. mine'[p] \notin created
    BY <2>0, <2>3
  <2>5. SeedsFresh'
    BY <2>0, <2>1, <2>n, <2>3, <2>4 DEF KeyInv, SeedsFresh
  <2>6. HolderHasItem'
    BY <2>0, <2>1, <2>2 DEF KeyInv, HolderHasItem
  <2>7. KeychainKept'
    BY <2>0 DEF KeyInv, KeychainKept
  <2> QED BY <2>5, <2>6, <2>7 DEF KeyInv
<1>2. ASSUME NEW p \in Procs, pc[p] = "store", keychain[mine[p].account] = 0,
             PutSeed(p), UNCHANGED <<mine, seeds, created>>,
             Goto(p, "open") \/ Goto(p, "idle")
      PROVE  KeyInv'
  <2>0. /\ mine[p].account \in Accounts
        /\ keychain'[mine[p].account] = mine[p].seed
        /\ \A b \in Accounts \ {mine[p].account} : keychain'[b] = keychain[b]
        /\ \A q \in Procs \ {p} : pc'[q] = pc[q]
    BY <1>2 DEF PutSeed, TypeOK, Goto, KeyInv, SeedsFresh, Creating
  <2>1. \A q \in Procs : Creating(q)' => Creating(q)
    BY <1>2, <2>0 DEF Creating, Holding
  <2>2. \A q \in Procs \ {p} : Holding(q)' => Holding(q)
    BY <2>0 DEF Holding
  <2>3. SeedsFresh'
    BY <1>2, <2>1 DEF KeyInv, SeedsFresh
  <2>4. ASSUME NEW q \in Procs, Holding(q)'
        PROVE  keychain'[mine[q].account] = mine[q].seed
    <3>1. CASE q = p
      BY <2>0, <3>1
    <3>2. CASE q # p
      BY <1>2, <2>0, <2>2, <2>4, <3>2
      DEF KeyInv, HolderHasItem, SeedsFresh, Creating
    <3> QED BY <3>1, <3>2
  <2>5. KeychainKept'
    BY <1>2, <2>0 DEF KeyInv, KeychainKept, SeedsFresh
  <2>6. HolderHasItem'
    BY <1>2, <2>4 DEF HolderHasItem
  <2> QED BY <2>3, <2>5, <2>6 DEF KeyInv
<1>3. ASSUME NEW p \in Procs, CleanupSeed(p),
             keychain' = [keychain EXCEPT ![mine[p].account] = 0]
      PROVE  KeyInv'
  <2>0. /\ Holding(p) /\ Creating(p)
        /\ mine[p].account \in Accounts
        /\ \A b \in Accounts \ {mine[p].account} : keychain'[b] = keychain[b]
        /\ \A q \in Procs \ {p} : pc'[q] = pc[q]
        /\ pc'[p] = "idle"
        /\ mine' = mine /\ seeds' = seeds /\ created' = created
    BY <1>3 DEF CleanupSeed, Goto, TypeOK, KeyInv, SeedsFresh, Creating, Holding
  <2>1. \A q \in Procs : /\ Creating(q)' => q # p /\ Creating(q)
                         /\ Holding(q)' => q # p /\ Holding(q)
    BY <2>0 DEF Creating, Holding
  <2>2. SeedsFresh'
    BY <2>0, <2>1 DEF KeyInv, SeedsFresh
  <2>3. HolderHasItem'
    BY <2>0, <2>1 DEF KeyInv, HolderHasItem, SeedsFresh, Creating
  <2>4. ASSUME NEW r \in created PROVE r.account # mine[p].account
    <3>1. r \in IdentityRecord /\ mine[p] \in IdentityRecord
      BY DEF TypeOK
    <3>2. r # mine[p]
      BY <2>0 DEF KeyInv, SeedsFresh
    <3>3. r.seed # mine[p].seed \/ r.account # mine[p].account
      BY <3>1, <3>2 DEF IdentityRecord
    <3>4. keychain[r.account] = r.seed /\ keychain[mine[p].account] = mine[p].seed
      BY <2>0 DEF KeyInv, KeychainKept, HolderHasItem
    <3> QED BY <3>3, <3>4
  <2>5. KeychainKept'
    BY <2>0, <2>4 DEF KeyInv, KeychainKept, SeedsFresh
  <2> QED BY <2>2, <2>3, <2>5 DEF KeyInv
<1>4. ASSUME NEW p \in Procs, Verified(p) PROVE KeyInv'
  <2>0. /\ Holding(p) /\ Creating(p)
        /\ created' = created \cup {mine[p]}
        /\ mine' = mine /\ seeds' = seeds /\ keychain' = keychain
        /\ \A q \in Procs \ {p} : pc'[q] = pc[q]
        /\ pc'[p] = "idle"
    BY <1>4 DEF Verified, Goto, sendVars, TypeOK, Creating, Holding
  <2>1. \A q \in Procs : /\ Creating(q)' => q # p /\ Creating(q)
                         /\ Holding(q)' => q # p /\ Holding(q)
    BY <2>0 DEF Creating, Holding
  <2>2. SeedsFresh'
    BY <2>0, <2>1 DEF KeyInv, SeedsFresh
  <2>3. HolderHasItem' /\ KeychainKept'
    BY <2>0, <2>1 DEF KeyInv, HolderHasItem, KeychainKept
  <2> QED BY <2>2, <2>3 DEF KeyInv
<1>5. ASSUME NEW p \in Procs, NEW step \in PC, Goto(p, step),
             UNCHANGED <<keychain, seeds, created, mine>>,
             step \in {"unlink", "fill", "verify", "delete"} => Holding(p),
             step \notin {"store", "open"}
      PROVE  KeyInv'
  <2>0. pc'[p] = step /\ \A q \in Procs \ {p} : pc'[q] = pc[q]
    BY <1>5 DEF Goto, TypeOK
  <2>1. \A q \in Procs : /\ Creating(q)' => Creating(q)
                         /\ Holding(q)' => Holding(q)
    BY <1>5, <2>0 DEF Creating, Holding
  <2> QED BY <1>5, <2>1, KeyStutter
<1>6. ASSUME NEW p \in Procs, NEW step \in {"grant", "key"}, LoadIdentity(p, step)
      PROVE  KeyInv'
  <2>0. /\ pc'[p] = step /\ \A q \in Procs \ {p} : /\ pc'[q] = pc[q]
                                                  /\ mine'[q] = mine[q]
        /\ UNCHANGED <<keychain, seeds, created>>
    BY <1>6 DEF LoadIdentity, Goto, TypeOK, identityVars
  <2>1. \A q \in Procs : /\ Creating(q)' => Creating(q) /\ mine'[q] = mine[q]
                         /\ Holding(q)' => Holding(q)
    BY <2>0 DEF Creating, Holding
  <2> QED BY <2>0, <2>1, KeyStutter
<1>7. ASSUME UNCHANGED <<keychain, seeds, created, mine, pc>> PROVE KeyInv'
  BY <1>7, KeyStutter DEF Creating, Holding
<1>8. ASSUME NEW p \in Procs, Create(p) PROVE KeyInv'
  <2>1. CASE StoreSeed(p)
    BY <1>2, <2>1 DEF StoreSeed
  <2>2. CASE StoreFails(p)
    BY <1>2, <1>5, <2>2 DEF StoreFails, PC
  <2>3. CASE CleanupSeed(p)
    BY <1>3, <1>5, <2>3 DEF CleanupSeed, PC
  <2>4. CASE OpenIdentity(p) \/ FillIdentity(p) \/ WriteFails(p) \/ VerifyFails(p)
             \/ CleanupFile(p)
    <3>1. Holding(p)
      BY <2>4 DEF OpenIdentity, FillIdentity, WriteFails, VerifyFails,
                  CleanupFile, Holding
    <3>2. \E step \in {"unlink", "fill", "verify", "delete"} : Goto(p, step)
      BY <2>4 DEF OpenIdentity, FillIdentity, WriteFails, VerifyFails, CleanupFile
    <3>3. UNCHANGED <<keychain, seeds, created, mine>>
      BY <2>4 DEF OpenIdentity, FillIdentity, WriteFails, VerifyFails, CleanupFile
    <3> QED BY <1>5, <3>1, <3>2, <3>3 DEF PC
  <2> QED BY <1>1, <1>4, <1>8, <2>1, <2>2, <2>3, <2>4 DEF Create
<1>9. ASSUME NEW p \in Procs, Grant(p) \/ Send(p) \/ Halt(p) PROVE KeyInv'
  <2>1. CASE LoadIdentity(p, "grant") \/ LoadIdentity(p, "key")
    BY <1>6, <2>1
  <2>2. CASE ReadPolicy(p) \/ ReplacePolicy(p) \/ LoadKey(p) \/ Reserve(p)
             \/ SaveNonce(p) \/ Post(p) \/ Halt(p)
    <3>1. \E step \in {"replace", "idle", "lock", "reserve", "post", "await"} :
              Goto(p, step)
      BY <2>2 DEF ReadPolicy, ReplacePolicy, LoadKey, Reserve, SaveNonce, Post, Halt
    <3>2. UNCHANGED <<keychain, seeds, created, mine>>
      BY <2>2 DEF ReadPolicy, ReplacePolicy, LoadKey, Reserve, SaveNonce, Post,
                  Halt, identityVars
    <3> QED BY <1>5, <3>1, <3>2 DEF PC
  <2> QED BY <1>9, <2>1, <2>2 DEF Grant, Send
<1>10. CASE EditPolicy \/ UNCHANGED vars
  BY <1>7, <1>10 DEF EditPolicy, vars, identityVars
<1> QED BY <1>8, <1>9, <1>10 DEF Next

-----------------------------------------------------------------------------
(* Sending: the saved nonce covers every attempt. *)

SendInv == TypeOK /\ NoncesReserved /\ SentAscends

LEMMA SendStep == SendInv /\ [Next]_vars => SendInv'
<1> SUFFICES ASSUME SendInv, [Next]_vars PROVE SendInv'
  OBVIOUS
<1>t. TypeOK /\ TypeOK'
  BY TypeStep DEF SendInv
<1>n. /\ saved \in Nat /\ sent \in Seq(Nat)
      /\ \A p \in Procs : nonce[p] \in Nat
  BY <1>t, ControllerAssumption DEF TypeOK
<1>d. DOMAIN sent = 1 .. Len(sent) /\ Len(sent) \in Nat
      /\ \A i \in DOMAIN sent : sent[i] \in Nat
  BY <1>n
<1>1. ASSUME UNCHANGED sendVars,
             \A p \in Procs :
                 /\ pc'[p] = pc[p] \/ ~Sending(p)'
      PROVE  SendInv'
  BY <1>1, <1>t DEF SendInv, NoncesReserved, SentAscends, sendVars, Sending
<1>2. ASSUME NEW p \in Procs, Reserve(p) PROVE SendInv'
  <2>1. PICK clock \in 0 .. MaxNonce : NextNonce(p, clock)
    BY <1>2 DEF Reserve
  <2>2. Larger(clock, saved + 1) > saved
    BY <1>n, ControllerAssumption DEF Larger
  <2>3. /\ nonce'[p] > saved /\ \A q \in Procs \ {p} : nonce'[q] = nonce[q]
        /\ pc'[p] = "reserve" /\ \A q \in Procs \ {p} : pc'[q] = pc[q]
        /\ saved' = saved /\ sent' = sent
    BY <1>2, <1>t, <2>1, <2>2 DEF NextNonce, Reserve, Goto, TypeOK
  <2>4. \A q \in Procs \ {p} : ~Sending(q)'
    BY <1>2, <2>3 DEF Reserve, LockFree, Sending
  <2>5. NoncesReserved'
    BY <2>3, <2>4 DEF SendInv, NoncesReserved, Sending
  <2> QED BY <1>t, <2>3, <2>5 DEF SendInv, SentAscends
<1>3. ASSUME NEW p \in Procs, SaveNonce(p) PROVE SendInv'
  <2>1. /\ pc[p] = "reserve" /\ pc'[p] = "post"
        /\ \A q \in Procs \ {p} : pc'[q] = pc[q]
        /\ saved' = nonce[p] /\ sent' = sent /\ nonce' = nonce
    BY <1>3, <1>t DEF SaveNonce, Goto, TypeOK
  <2>2. \A q \in Procs \ {p} : ~Sending(q) /\ ~Sending(q)'
    BY <2>1 DEF SendInv, NoncesReserved, Sending
  <2>3. nonce[p] > saved /\ \A i \in DOMAIN sent : sent[i] < nonce[p]
    BY <1>n, <1>d, <2>1 DEF SendInv, NoncesReserved
  <2>4. NoncesReserved'
    BY <1>n, <1>d, <2>1, <2>2, <2>3 DEF NoncesReserved, Sending
  <2> QED BY <1>t, <2>1, <2>4 DEF SendInv, SentAscends
<1>4. ASSUME NEW p \in Procs, Post(p) PROVE SendInv'
  <2>1. /\ pc[p] = "post" /\ pc'[p] = "await"
        /\ \A q \in Procs \ {p} : pc'[q] = pc[q]
        /\ saved' = saved /\ nonce' = nonce
        /\ sent' = Append(sent, nonce[p])
    BY <1>4, <1>t DEF Post, Goto, TypeOK
  <2>2. \A q \in Procs \ {p} : ~Sending(q) /\ ~Sending(q)'
    BY <2>1 DEF SendInv, NoncesReserved, Sending
  <2>3. nonce[p] = saved /\ \A i \in DOMAIN sent : sent[i] < saved
    BY <2>1 DEF SendInv, NoncesReserved
  <2>4. /\ DOMAIN sent' = 1 .. Len(sent) + 1
        /\ \A i \in 1 .. Len(sent) : sent'[i] = sent[i]
        /\ sent'[Len(sent) + 1] = saved
    BY <1>n, <2>1, <2>3, AppendFacts
  <2>5. NoncesReserved'
    BY <1>n, <1>d, <2>1, <2>2, <2>3, <2>4 DEF NoncesReserved, Sending
  <2>6. SentAscends'
    BY <1>n, <1>d, <2>3, <2>4 DEF SendInv, SentAscends
  <2> QED BY <1>t, <2>5, <2>6 DEF SendInv
<1>5. ASSUME NEW p \in Procs, NEW step \in PC, Goto(p, step), UNCHANGED sendVars,
             step \notin {"reserve", "post", "await"}
      PROVE  SendInv'
  <2>1. pc'[p] = step /\ \A q \in Procs \ {p} : pc'[q] = pc[q]
    BY <1>5, <1>t DEF Goto, TypeOK
  <2> QED BY <1>1, <1>5, <2>1 DEF Sending
<1>6. ASSUME NEW p \in Procs, Create(p) PROVE SendInv'
  <2>1. UNCHANGED sendVars
    BY <1>6 DEF Create, BeginCreate, StoreSeed, StoreFails, OpenIdentity,
        FillIdentity, WriteFails, Verified, VerifyFails, CleanupFile, CleanupSeed
  <2>2. \E step \in {"store", "open", "idle", "fill", "verify", "unlink",
                     "delete"} : Goto(p, step)
    BY <1>6 DEF Create, BeginCreate, StoreSeed, StoreFails, OpenIdentity,
        FillIdentity, WriteFails, Verified, VerifyFails, CleanupFile, CleanupSeed
  <2> QED BY <1>5, <2>1, <2>2 DEF PC
<1>7. ASSUME NEW p \in Procs, Grant(p) \/ LoadIdentity(p, "key") \/ LoadKey(p)
                              \/ Halt(p)
      PROVE  SendInv'
  <2>1. UNCHANGED sendVars
    BY <1>7 DEF Grant, LoadIdentity, ReadPolicy, ReplacePolicy, LoadKey, Halt
  <2>2. \E step \in {"grant", "key", "replace", "idle", "lock"} : Goto(p, step)
    BY <1>7 DEF Grant, LoadIdentity, ReadPolicy, ReplacePolicy, LoadKey, Halt
  <2> QED BY <1>5, <2>1, <2>2 DEF PC
<1>8. CASE EditPolicy \/ UNCHANGED vars
  BY <1>1, <1>8 DEF EditPolicy, vars, sendVars
<1> QED BY <1>2, <1>3, <1>4, <1>6, <1>7, <1>8 DEF Next, Send

-----------------------------------------------------------------------------
(* The theorems. *)

\* The invariant of the controller: creations own their Keychain items and
\* the saved nonce covers every attempt, for any number of processes.
THEOREM ControllerInvariant == Spec => []ControllerInv
<1>1. Init => ControllerInv
  <2> SUFFICES ASSUME Init PROVE ControllerInv
    OBVIOUS
  <2>1. TypeOK
    BY TypeInit
  <2>2. SeedsFresh /\ HolderHasItem /\ KeychainKept
    BY DEF Init, SeedsFresh, HolderHasItem, KeychainKept, Creating, Holding
  <2>3. NoncesReserved /\ SentAscends
    BY DEF Init, NoncesReserved, SentAscends, Sending
  <2> QED BY <2>1, <2>2, <2>3 DEF ControllerInv
<1>2. ControllerInv /\ [Next]_vars => ControllerInv'
  BY KeyStep, SendStep DEF ControllerInv, KeyInv, SendInv
<1> QED BY <1>1, <1>2, PTL DEF Spec

\* The key of a reported identity is never lost: no creation, whatever its
\* account and however it ends, replaces or deletes another one's item.
THEOREM KeysSurvive == Spec => []KeychainKept
<1>1. ControllerInv => KeychainKept
  BY DEF ControllerInv
<1> QED BY <1>1, ControllerInvariant, PTL

\* Keychain, identity file, policy and processes keep their shapes.
THEOREM TypeCorrect == Spec => []TypeOK
<1>1. ControllerInv => TypeOK
  BY DEF ControllerInv
<1> QED BY <1>1, ControllerInvariant, PTL

\* No nonce that a controller command attempted is ever used again.
THEOREM NoncesAscend == Spec => []SentAscends
<1>1. ControllerInv => SentAscends
  BY DEF ControllerInv
<1> QED BY <1>1, ControllerInvariant, PTL

\* Where every creation names the same Keychain item, as with the default
\* selection, the item excludes concurrent creations from the identity file.
THEOREM SoleIdentityKept ==
    ASSUME \A a, b \in Accounts : a = b
    PROVE  Spec => []IdentityKept
<1>1. ASSUME ControllerInv, NEW r \in created, NEW p \in Procs, Holding(p)
      PROVE  FALSE
  <2>1. /\ r \in IdentityRecord /\ mine[p] \in IdentityRecord
        /\ r.account \in Accounts /\ mine[p].account \in Accounts
        /\ r # mine[p]
    BY <1>1 DEF ControllerInv, TypeOK, SeedsFresh, Creating
  <2>2. r.account = mine[p].account
    BY <2>1
  <2>3. r.seed = mine[p].seed
    BY <1>1, <2>2 DEF ControllerInv, KeychainKept, HolderHasItem
  <2>4. r = mine[p]
    BY <2>1, <2>2, <2>3 DEF IdentityRecord
  <2> QED BY <2>1, <2>4
<1>2. Init => IdentityKept
  BY DEF Init, IdentityKept
<1>3. ASSUME ControllerInv, IdentityKept, [Next]_vars PROVE IdentityKept'
  <2>1. ASSUME NEW p \in Procs, Verified(p) PROVE IdentityKept'
    <3>1. Holding(p)
      BY <2>1 DEF Verified, Holding
    <3>2. created = {}
      BY <1>1, <1>3, <3>1
    <3> QED BY <2>1, <3>2 DEF Verified, IdentityKept
  <2>2. ASSUME NEW p \in Procs, Holding(p), created' = created PROVE IdentityKept'
    BY <1>1, <1>3, <2>2 DEF IdentityKept
  <2>3. ASSUME UNCHANGED <<file, created>> PROVE IdentityKept'
    BY <1>3, <2>3 DEF IdentityKept
  <2>4. ASSUME NEW p \in Procs, Create(p) PROVE IdentityKept'
    <3>1. CASE \/ OpenIdentity(p) \/ FillIdentity(p) \/ WriteFails(p)
               \/ CleanupFile(p)
      BY <2>2, <3>1 DEF OpenIdentity, FillIdentity, WriteFails, CleanupFile,
                        Holding
    <3>2. CASE \/ \E a \in Accounts : BeginCreate(p, a)
               \/ StoreSeed(p) \/ StoreFails(p) \/ VerifyFails(p)
               \/ CleanupSeed(p)
      BY <2>3, <3>2 DEF BeginCreate, StoreSeed, StoreFails, VerifyFails,
                        CleanupSeed
    <3> QED BY <2>1, <2>4, <3>1, <3>2 DEF Create
  <2>5. ASSUME NEW p \in Procs, Grant(p) \/ Send(p) \/ Halt(p)
        PROVE  IdentityKept'
    BY <2>3, <2>5 DEF Grant, Send, Halt, LoadIdentity, ReadPolicy,
        ReplacePolicy, LoadKey, Reserve, SaveNonce, Post, identityVars
  <2>6. CASE EditPolicy \/ UNCHANGED vars
    BY <2>3, <2>6 DEF EditPolicy, vars, identityVars
  <2> QED BY <1>3, <2>4, <2>5, <2>6 DEF Next
<1> QED BY <1>2, <1>3, ControllerInvariant, PTL DEF Spec

===============================================================================
