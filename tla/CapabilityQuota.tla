--------------------------- MODULE CapabilityQuota ---------------------------
(***************************************************************************)
(* The least-privilege policy of the live responder and its persistent     *)
(* rolling quota: policy.py, capabilities.py and the capability_requests   *)
(* part of state.py.                                                       *)
(*                                                                         *)
(* The policy file is read afresh for every message and may be edited at   *)
(* any time.  A granted request is reserved in memory, saved and only then *)
(* worked on.  The wall clock is read once per request; it may be adjusted *)
(* between requests.                                                       *)
(***************************************************************************)
EXTENDS Naturals, Sequences, FiniteSets

CONSTANTS
    Dids,           \* principals
    Messages,       \* messages that arrive, see Message
    PolicySets,     \* sets of contents the operator edits the policy within
    Rewinding,      \* the policy sets under which the clock may be set back
    Invalid,        \* a policy file that does not parse
    Window,         \* WINDOW_SECONDS
    MaxPrincipals,  \* bound of the policy parser and of the state loader
    MaxRequests,    \* MAX_REQUESTS_PER_HOUR, also the loader's bound
    MaxClock,       \* bound: readings of the wall clock are 0 .. MaxClock
    MaxWork         \* bound: requests worked on in one behaviour

Message == [sender : Dids, own : BOOLEAN, signed : BOOLEAN,
            command : {"ping", "pr", "none"}, url : BOOLEAN, repo : {"r1", "r2"}]

\* _parse_grant: an enabled grant has a command, and repositories are listed
\* exactly for /pr.
Grant ==
    {g \in [enabled : BOOLEAN, commands : SUBSET {"ping", "pr"},
            repos : SUBSET {"r1", "r2"}, limit : 1 .. MaxRequests] :
        /\ g.enabled => g.commands # {}
        /\ g.enabled /\ "pr" \in g.commands => g.repos # {}
        /\ "pr" \notin g.commands => g.repos = {}}

\* _parse_policy accepts at most MAX_PRINCIPALS grants.
PolicyFile == {f \in UNION {[D -> Grant] : D \in SUBSET Dids} :
                  Cardinality(DOMAIN f) <= MaxPrincipals}

ASSUME QuotaAssumption ==
    /\ Window \in Nat \ {0} /\ MaxPrincipals \in Nat
    /\ MaxRequests \in Nat \ {0} /\ MaxClock \in Nat /\ MaxWork \in Nat
    /\ Rewinding \subseteq PolicySets
    /\ Messages \subseteq Message
    /\ \A f \in (UNION PolicySets) \ {Invalid} : f \in PolicyFile

VARIABLES
    clock,      \* the wall clock
    policy,     \* file: the capability policy
    requests,   \* file: capability_requests of the state file
    pc,         \* process: next step
    mem,        \* process: capability_requests in memory
    request,    \* process: principal, limit and timestamp being handled
    worked,     \* history: the requests answered or looked up, in order
    prunedAt    \* history: the clock that last pruned the file and the memory

vars == <<clock, policy, requests, pc, mem, request, worked, prunedAt>>

History == [Dids -> Seq(Nat)]
NoHistory == [d \in Dids |-> <<>>]
Request == [did : Dids, limit : Nat, at : Nat]
NoRequest == [limit |-> 0, at |-> 0]

-----------------------------------------------------------------------------
(* policy.py: decide, up to the rate limiter. *)

Authorized(m, grants) ==
    /\ ~m.own /\ m.signed
    /\ m.sender \in DOMAIN grants
    /\ LET grant == grants[m.sender]
       IN  /\ grant.enabled
           /\ m.command \in grant.commands
           /\ m.command = "pr" => m.url /\ m.repo \in grant.repos

\* Only an authorized request reaches the rate limiter, with the limit of the
\* grant just read; a refusal changes nothing here.
Receive(m) ==
    /\ pc = "idle"
    /\ policy # Invalid
    /\ Authorized(m, policy)
    /\ request' = [did |-> m.sender, limit |-> policy[m.sender].limit, at |-> 0]
    /\ pc' = "reserve"
    /\ UNCHANGED <<clock, policy, requests, mem, worked, prunedAt>>

-----------------------------------------------------------------------------
(* state.py: the rolling window.  `t > now - Window` is written without     *)
(* subtraction.                                                             *)

\* The timestamps in the window, gathered from the first on.
Recent(times, now) ==
    LET kept[n \in 0 .. Len(times)] ==
            IF n = 0 THEN <<>>
            ELSE IF times[n] + Window > now THEN Append(kept[n - 1], times[n])
            ELSE kept[n - 1]
    IN  kept[Len(times)]

Latest(times) == times[Len(times)]

\* A principal's own history keeps its clock from running backwards.
EffectiveNow(times, now) ==
    IF times # <<>> /\ Latest(times) > now THEN Latest(times) ELSE now

CapabilityRequestCount(h, did, now) ==
    Len(Recent(h[did], EffectiveNow(h[did], now)))

\* Mutant: only the requesting principal's history is pruned.
PruneNothing(h, now) == h

\* Every principal's history is pruned with the clock as it stands.
PruneCapabilityRequests(h, now) == [d \in Dids |-> Recent(h[d], now)]

\* Mutant: the timestamp appended is the raw clock reading.
ReserveRaw(h, did, now) ==
    LET pruned == PruneCapabilityRequests(h, now)
    IN  [pruned EXCEPT ![did] = Append(Recent(@, now), now)]

ReserveCapabilityRequest(h, did, now) ==
    LET pruned == PruneCapabilityRequests(h, now)
        effective == EffectiveNow(pruned[did], now)
    IN  [pruned EXCEPT ![did] = Append(Recent(@, effective), effective)]

RateLimited ==
    /\ pc = "reserve"
    /\ CapabilityRequestCount(mem, request.did, clock) >= request.limit
    /\ pc' = "idle"
    /\ request' = NoRequest
    /\ UNCHANGED <<clock, policy, requests, mem, worked, prunedAt>>

\* Mutant: the limit is compared one too late.
ReserveOver ==
    LET reserved == ReserveCapabilityRequest(mem, request.did, clock)
    IN  /\ pc = "reserve"
        /\ CapabilityRequestCount(mem, request.did, clock) <= request.limit
        /\ mem' = reserved
        /\ request' = [request EXCEPT !.at = Latest(reserved[request.did])]
        /\ prunedAt' = [prunedAt EXCEPT !.mem = clock]
        /\ pc' = "save"
        /\ UNCHANGED <<clock, policy, requests, worked>>

Reserve ==
    LET reserved == ReserveCapabilityRequest(mem, request.did, clock)
    IN  /\ pc = "reserve"
        /\ CapabilityRequestCount(mem, request.did, clock) < request.limit
        /\ mem' = reserved
        /\ request' = [request EXCEPT !.at = Latest(reserved[request.did])]
        /\ prunedAt' = [prunedAt EXCEPT !.mem = clock]
        /\ pc' = "save"
        /\ UNCHANGED <<clock, policy, requests, worked>>

\* Mutant: the reservation stays in memory until the next save.
SaveLater ==
    /\ pc = "save"
    /\ pc' = "work"
    /\ UNCHANGED <<clock, policy, requests, mem, request, worked, prunedAt>>

Save ==
    /\ pc = "save"
    /\ requests' = mem
    /\ prunedAt' = [prunedAt EXCEPT !.file = prunedAt.mem]
    /\ pc' = "work"
    /\ UNCHANGED <<clock, policy, mem, request, worked>>

\* The reply is sent or the pull request looked up, successfully or not.
Work ==
    /\ pc = "work"
    /\ worked' = Append(worked, request)
    /\ pc' = "idle"
    /\ request' = NoRequest
    /\ UNCHANGED <<clock, policy, requests, mem, prunedAt>>

-----------------------------------------------------------------------------
Ascending(times) == \A i, j \in DOMAIN times : i <= j => times[i] <= times[j]

\* _capability_request_map: what AgentState.load accepts.
Loadable(h) ==
    /\ Cardinality({d \in Dids : h[d] # <<>>}) <= MaxPrincipals
    /\ \A d \in Dids : Len(h[d]) <= MaxRequests /\ Ascending(h[d])

Start ==
    /\ pc = "down"
    /\ Loadable(requests)
    /\ mem' = requests
    /\ pc' = "idle"
    /\ UNCHANGED <<clock, policy, requests, request, worked, prunedAt>>

\* A crash, an interrupt, an unreadable policy, a failed save.
Halt ==
    /\ pc # "down"
    /\ pc' = "down"
    /\ mem' = NoHistory
    /\ request' = NoRequest
    /\ prunedAt' = [prunedAt EXCEPT !.mem = prunedAt.file]
    /\ UNCHANGED <<clock, policy, requests, worked>>

Tick ==
    /\ clock' \in (0 .. MaxClock) \ {clock}
    /\ clock' > clock \/ \E S \in Rewinding : policy \in S
    /\ UNCHANGED <<policy, requests, pc, mem, request, worked, prunedAt>>

EditPolicy ==
    /\ \E S \in PolicySets : policy \in S /\ policy' \in S \ {policy}
    /\ UNCHANGED <<clock, requests, pc, mem, request, worked, prunedAt>>

Init ==
    /\ clock = 0 /\ policy \in UNION PolicySets
    /\ requests = NoHistory /\ mem = NoHistory
    /\ pc = "down" /\ request = NoRequest /\ worked = <<>>
    /\ prunedAt = [file |-> 0, mem |-> 0]

Next ==
    \/ Start \/ Halt \/ Tick \/ EditPolicy
    \/ Len(worked) < MaxWork /\ \E m \in Messages : Receive(m)
    \/ RateLimited \/ Reserve \/ Save \/ Work

Spec == Init /\ [][Next]_vars

-----------------------------------------------------------------------------
(* Properties. *)

\* The shapes of policy, quota history and process state.
TypeOK ==
    /\ clock \in 0 .. MaxClock /\ policy \in UNION PolicySets
    /\ requests \in History /\ mem \in History
    /\ pc \in {"down", "idle", "reserve", "save", "work"}
    /\ request \in Request \cup {NoRequest}
    /\ worked \in Seq(Request)
    /\ prunedAt \in [file : 0 .. MaxClock, mem : 0 .. MaxClock]

\* Requests of a principal that were worked on within the window that ends
\* with the i-th one, the i-th included.
WorkedInWindow(i) ==
    {j \in 1 .. i : /\ worked[j].did = worked[i].did
                    /\ worked[j].at + Window > worked[i].at}

\* No principal gets more work done in a rolling window than its grant allows,
\* across restarts, crashes between reservation and work, and policy edits
\* ("changing the local clock cannot restore capacity early",
\* docs/capability-policy.md).
WorkWithinQuota ==
    \A i \in DOMAIN worked : Cardinality(WorkedInWindow(i)) <= worked[i].limit

\* Work done for a principal that counts at time t.
Done(d, t) ==
    {i \in DOMAIN worked : worked[i].did = d /\ worked[i].at + Window > t}

\* Work is done only on reservations that a restart will find: every piece of
\* work whose window is still open, on the clock its principal's own history
\* keeps from running backwards, is in the state file.
WorkIsDurable ==
    \A d \in Dids :
        LET now == EffectiveNow(requests[d], clock)
        IN  Len(requests[d]) >= Cardinality(Done(d, now))

\* The principals with a request in the window, when the file was written.
SeenInWindow == {d \in Dids : Recent(requests[d], prunedAt.file) # <<>>}

\* The state file the limiter writes is one AgentState.load accepts, so the
\* agent can start again ("The timestamps survive restart",
\* docs/capability-policy.md).  One case is excepted: the policy parser bounds
\* the principals of one policy file, nothing those seen in a window, so edits
\* that bring in new principals lead to files with more of them than the
\* loader accepts, and the agent cannot start until the file is repaired.
SavedIsLoadable ==
    Cardinality(SeenInWindow) <= MaxPrincipals => Loadable(requests)

\* A principal's recorded high-water timestamp is never moved back while the
\* history remembers it ("A backward wall-clock adjustment never moves a
\* principal's recorded high-water timestamp back", docs/capability-policy.md).
TimestampsAscend ==
    [][\A d \in Dids :
          requests[d] # <<>> /\ requests'[d] # <<>> =>
              Latest(requests'[d]) >= Latest(requests[d])]_vars

-----------------------------------------------------------------------------
(* The inductive invariants behind the safety properties. *)

\* A history that loads, with timestamps the clock can show.
WellKept(times) ==
    /\ Ascending(times) /\ Len(times) <= MaxRequests
    /\ \A i \in DOMAIN times : times[i] <= MaxClock

\* Both histories are in order and bounded, and hold only principals with a
\* request in the window of the clock that pruned them; memory and file differ only between a reservation and
\* its save, and then memory is the later one.
QuotaInv ==
    /\ TypeOK
    /\ \A h \in {requests, mem}, d \in Dids : WellKept(h[d])
    /\ \A d \in Dids :
          /\ requests[d] # <<>> => Recent(requests[d], prunedAt.file) # <<>>
          /\ mem[d] # <<>> => Recent(mem[d], prunedAt.mem) # <<>>
    /\ pc # "save" => prunedAt.mem = prunedAt.file
    /\ pc \in {"reserve", "save", "work"} =>
          request \in Request /\ request.limit <= MaxRequests
    /\ pc \in {"save", "work"} => request.at <= MaxClock
    /\ pc \in {"idle", "reserve", "work"} => mem = requests
    /\ pc = "save" => \A d \in Dids :
          requests[d] # <<>> /\ mem[d] # <<>> =>
              Latest(mem[d]) >= Latest(requests[d])

\* The earliest time for which a history still holds all that counts: where
\* the clock may be set back, only the principal's own history remembers how
\* far its timestamps were pruned.
Horizon(h, d) ==
    IF Rewinding = {} THEN clock
    ELSE IF h[d] = <<>> THEN 0 ELSE Latest(h[d])

\* The reservation that awaits its save, or its work, when it counts.
Awaiting(step, d, t) ==
    IF pc = step /\ request.did = d /\ request.at + Window > t THEN 1 ELSE 0

\* From its horizon on, a history counts at least the work done and under way;
\* and the reservation under way was within the quota.
CoverInv ==
    /\ Rewinding = {} => \A h \in {requests, mem}, d \in Dids :
          h[d] # <<>> => Latest(h[d]) <= clock
    /\ \A d \in Dids, t \in 0 .. MaxClock :
          /\ t >= Horizon(requests, d) =>
                Cardinality(Done(d, t)) + Awaiting("work", d, t)
                    <= Len(Recent(requests[d], t))
          /\ pc = "save" /\ t >= Horizon(mem, d) =>
                Cardinality(Done(d, t)) + Awaiting("save", d, t)
                    <= Len(Recent(mem[d], t))
    /\ pc \in {"save", "work"} =>
          Cardinality(Done(request.did, request.at)) < request.limit
    /\ WorkWithinQuota

=============================================================================
