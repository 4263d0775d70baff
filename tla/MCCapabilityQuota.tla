-------------------------- MODULE MCCapabilityQuota --------------------------
(* Small instances of CapabilityQuota for TLC. *)
EXTENDS CapabilityQuota

CONSTANTS a, b, c

Ping(d) == [sender |-> d, own |-> FALSE, signed |-> TRUE, command |-> "ping",
            url |-> FALSE, repo |-> "r1"]
PullRequest(d, repo) == [Ping(d) EXCEPT !.command = "pr", !.url = TRUE,
                                        !.repo = repo]

\* Requests of every principal, one for a repository outside every grant, an
\* own and an unsigned message.
MCMessages ==
    {Ping(d) : d \in Dids}
    \cup {PullRequest(a, "r1"), PullRequest(a, "r2")}
    \cup {[Ping(a) EXCEPT !.own = TRUE], [Ping(a) EXCEPT !.signed = FALSE]}

PingGrant(limit) == [enabled |-> TRUE, commands |-> {"ping"}, repos |-> {},
                     limit |-> limit]
PullGrant == [enabled |-> TRUE, commands |-> {"ping", "pr"}, repos |-> {"r1"},
              limit |-> 2]

\* Two principals with different limits; one of them revoked and the other
\* replaced by a third; unreadable.
MCPolicies ==
    {[d \in {a, b} |-> IF d = a THEN PullGrant ELSE PingGrant(1)],
     [d \in {a, c} |-> IF d = a THEN [PullGrant EXCEPT !.enabled = FALSE]
                                ELSE PingGrant(2)],
     Invalid}

\* One principal, one or two requests per window.
MCOneGrant == {[d \in {a} |-> PingGrant(limit)] : limit \in 1 .. 2}

\* Two worlds: several principals under a clock that only advances, and one
\* principal under a clock that is set back and forth.
MCPolicySets == {MCPolicies, MCOneGrant}
MCRewinding == {MCOneGrant}
MCSeveral == {MCPolicies}
=============================================================================
