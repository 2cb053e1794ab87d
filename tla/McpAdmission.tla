---------------------------- MODULE McpAdmission ----------------------------
(***************************************************************************)
(* How the MCP server admits the requests of one agent: a rate, at most    *)
(* ToolLimit tool calls at a time and one subscription, kept by Lua        *)
(* scripts in Redis as leases that an API process renews while it needs    *)
(* them.  A permit lives as long as the operation it admitted, which may   *)
(* outlive its response.  When a renewal fails the process stops           *)
(* admitting tool calls until every permit it holds is gone.               *)
(*                                                                         *)
(* Time is counted in heartbeats, what Redis keeps has a time to live.     *)
(***************************************************************************)
EXTENDS Integers, FiniteSets, Functions

CONSTANTS
  LeaseIds,        \* the ids drawn for leases and subscriptions
  ToolLimit,       \* MCP_TOOL_CONCURRENCY_LIMIT
  LeaseTtl,        \* heartbeats in the time to live of a lease
  RateCapacity, RateRefill, ToolCost,
  MaxChecks,       \* bounds the requests being admitted at one time
  MaxMcpFaults     \* bounds outages and losses of Redis, and restarts

ASSUME McpAssumption ==
  /\ ToolLimit \in Nat \ {0}
  /\ LeaseTtl \in Nat \ {0, 1}      \* a lease outlives a missed heartbeat
  /\ {RateCapacity, RateRefill, ToolCost, MaxChecks, MaxMcpFaults} \subseteq Nat
  /\ IsFiniteSet(LeaseIds) /\ ToolCost <= RateCapacity

VARIABLES
  rateTokens,      \* the agent's rate, refilled by each heartbeat
  leases,          \* the sorted set: lease -> heartbeats it has left
  leaseTokens,     \* its token: lease -> [released, ttl]
  subscription,    \* the key of the subscription: its owner -> ttl
  permits,         \* the permits of the process, by lease
  streams,         \* the subscriptions it serves, by token
  renewals,        \* renewals on their way to Redis
  circuitOpen,     \* toolAdmissionCircuitOpen
  checks,          \* requests past the circuit, on their way to Redis
  pings,           \* requests that ask whether Redis is back
  redisDown,
  mcpFaults

redisVars == <<rateTokens, leases, leaseTokens, subscription>>
mcpVars == <<redisVars, permits, streams, renewals, circuitOpen, checks, pings, redisDown, mcpFaults>>

Phases == {"unused", "running", "releasing"}

(* claimed and released, whether the response was sent before the          *)
(* operation ended, policyUnavailableError, whether a heartbeat is due,    *)
(* and whether Redis has lost the lease since it was given.                *)
Permit == [phase: Phases, answered: BOOLEAN, unavailable: BOOLEAN, due: BOOLEAN, lost: BOOLEAN]
Stream == [due: BOOLEAN, lost: BOOLEAN]

McpInit ==
  /\ rateTokens = RateCapacity
  /\ leases = <<>> /\ leaseTokens = <<>> /\ subscription = <<>>
  /\ permits = <<>> /\ streams = <<>> /\ renewals = {}
  /\ circuitOpen = FALSE /\ checks = 0 /\ pings = 0
  /\ redisDown = FALSE /\ mcpFaults = 0

With(f, x, v) == [y \in DOMAIN f \cup {x} |-> IF y = x THEN v ELSE f[y]]
Without(f, x) == Restrict(f, DOMAIN f \ {x})
-----------------------------------------------------------------------------
(* ADMISSION                                                               *)

FreshLeases ==
  LeaseIds \ (DOMAIN leases \cup DOMAIN leaseTokens \cup DOMAIN permits
              \cup DOMAIN streams \cup DOMAIN subscription \cup renewals)

(* ZREMRANGEBYSCORE: the leases still counted by an admission.             *)
Unexpired == Restrict(leases, {l \in DOMAIN leases : leases[l] > 0})

HasRate(cost) == rateTokens >= cost
HasSlot == Cardinality(DOMAIN Unexpired) < ToolLimit

PassCircuit ==
  /\ checks < MaxChecks
  /\ ~circuitOpen
  /\ checks' = checks + 1
  /\ UNCHANGED <<redisVars, permits, streams, renewals, circuitOpen, pings, redisDown, mcpFaults>>

AskRedis ==
  /\ pings < MaxChecks
  /\ circuitOpen
  /\ DOMAIN permits = {}
  /\ pings' = pings + 1
  /\ UNCHANGED <<redisVars, permits, streams, renewals, circuitOpen, checks, redisDown, mcpFaults>>

PingAnswered ==
  /\ pings > 0
  /\ pings' = pings - 1
  /\ circuitOpen' = (circuitOpen /\ redisDown)
  /\ checks' = IF redisDown THEN checks ELSE checks + 1
  /\ UNCHANGED <<redisVars, permits, streams, renewals, redisDown, mcpFaults>>

(* The script admits a tool call.  The permit is created with the answer,  *)
(* which may be lost: the lease is then nobody's.                          *)
AdmitTool ==
  /\ checks > 0 /\ ~redisDown
  /\ HasRate(ToolCost) /\ HasSlot
  /\ FreshLeases # {}
  /\ LET l == CHOOSE l \in FreshLeases : TRUE
     IN  /\ leases' = With(Unexpired, l, LeaseTtl)
         /\ leaseTokens' = With(leaseTokens, l, [released |-> FALSE, ttl |-> LeaseTtl])
         /\ \/ permits' = With(permits, l, [phase |-> "unused", answered |-> FALSE,
                               unavailable |-> FALSE, due |-> FALSE, lost |-> FALSE])
               /\ UNCHANGED mcpFaults
            \/ mcpFaults < MaxMcpFaults /\ mcpFaults' = mcpFaults + 1 /\ UNCHANGED permits
  /\ rateTokens' = rateTokens - ToolCost
  /\ checks' = checks - 1
  /\ UNCHANGED <<subscription, streams, renewals, circuitOpen, pings, redisDown>>

(* Any other request: it costs one token and, to subscribe, needs the      *)
(* agent's only subscription, which is nobody's if the answer is lost.     *)
AdmitOther ==
  /\ checks > 0 /\ ~redisDown
  /\ HasRate(1)
  /\ \/ UNCHANGED <<subscription, streams, mcpFaults>>
     \/ /\ DOMAIN subscription = {}
        /\ FreshLeases # {}
        /\ LET l == CHOOSE l \in FreshLeases : TRUE
           IN  /\ subscription' = With(<<>>, l, LeaseTtl)
               /\ \/ /\ streams' = With(streams, l, [due |-> FALSE, lost |-> FALSE])
                     /\ UNCHANGED mcpFaults
                  \/ mcpFaults < MaxMcpFaults /\ mcpFaults' = mcpFaults + 1 /\ UNCHANGED streams
  /\ rateTokens' = rateTokens - 1
  /\ checks' = checks - 1
  /\ UNCHANGED <<leases, leaseTokens, permits, renewals, circuitOpen, pings, redisDown>>

(* A limit is reached, or Redis does not answer.                           *)
Refuse ==
  /\ checks > 0
  /\ redisDown \/ ~HasRate(ToolCost) \/ ~HasSlot \/ DOMAIN subscription # {}
  /\ checks' = checks - 1
  /\ leases' = IF ~redisDown /\ HasRate(ToolCost) /\ ~HasSlot THEN Unexpired ELSE leases
  /\ UNCHANGED <<rateTokens, leaseTokens, subscription, permits, streams, renewals,
                 circuitOpen, pings, redisDown, mcpFaults>>
-----------------------------------------------------------------------------
(* A PERMIT                                                                *)

SetPermit(l, p) ==
  /\ permits' = [permits EXCEPT ![l] = p]
  /\ UNCHANGED <<redisVars, streams, renewals, circuitOpen, checks, pings, redisDown, mcpFaults>>

(* execute: the tool starts, unless the policy has become unavailable.     *)
Claim(l) ==
  /\ permits[l].phase = "unused" /\ ~permits[l].unavailable
  /\ SetPermit(l, [permits[l] EXCEPT !.phase = "running"])

(* The deadline passes or the client hangs up: the operation continues.    *)
AnswerEarly(l) ==
  /\ permits[l].phase = "running" /\ ~permits[l].answered
  /\ SetPermit(l, [permits[l] EXCEPT !.answered = TRUE])

(* Mutant: a request that ends without a tool call keeps its permit.       *)
BugUnusedKept(l) ==
  /\ permits[l].phase = "running"
  /\ SetPermit(l, [permits[l] EXCEPT !.phase = "releasing", !.due = FALSE])

(* releaseOnce, when the operation ends; releaseIfUnused, when the request *)
(* ends without having called a tool.                                      *)
Finish(l) ==
  /\ permits[l].phase # "releasing"
  /\ SetPermit(l, [permits[l] EXCEPT !.phase = "releasing", !.due = FALSE])

(* The interval fires.                                                     *)
Heartbeat(l) ==
  /\ permits[l].due
  /\ permits' = [permits EXCEPT ![l].due = FALSE]
  /\ renewals' = renewals \cup {l}
  /\ UNCHANGED <<redisVars, streams, circuitOpen, checks, pings, redisDown, mcpFaults>>

(* Mutant: the failure is only logged.                                     *)
BugFailureIgnored(l) == UNCHANGED <<permits, circuitOpen>>

(* handleRenewalFailure.                                                   *)
RenewalFailed(l) ==
  IF l \in DOMAIN permits /\ permits[l].phase # "releasing"
  THEN /\ permits' = [permits EXCEPT ![l].unavailable = TRUE,
                        ![l].answered = @ \/ permits[l].phase = "running"]
       /\ circuitOpen' = (circuitOpen \/ ~permits[l].unavailable)
  ELSE UNCHANGED <<permits, circuitOpen>>

(* Mutant: the token of a released lease says nothing.                     *)
BugNoTombstone(l) == FALSE

IsReleased(l) == l \in DOMAIN leaseTokens /\ leaseTokens[l].released

(* The script renews a lease, or creates it anew when Redis has lost it,   *)
(* unless it was released.                                                 *)
Renew(l) ==
  /\ ~redisDown
  /\ renewals' = renewals \ {l}
  /\ IF IsReleased(l)
     THEN RenewalFailed(l) /\ UNCHANGED <<leases, leaseTokens>>
     ELSE /\ leases' = With(leases, l, LeaseTtl)
          /\ leaseTokens' = With(leaseTokens, l, [released |-> FALSE, ttl |-> LeaseTtl])
          /\ UNCHANGED <<permits, circuitOpen>>
  /\ UNCHANGED <<rateTokens, subscription, streams, checks, pings, redisDown, mcpFaults>>

RenewFails(l) ==
  /\ redisDown
  /\ renewals' = renewals \ {l}
  /\ RenewalFailed(l)
  /\ UNCHANGED <<redisVars, streams, checks, pings, redisDown, mcpFaults>>

(* onReleased, whether or not the release reached Redis.                   *)
Release(l) ==
  /\ permits[l].phase = "releasing"
  /\ permits' = Without(permits, l)
  /\ IF redisDown
     THEN UNCHANGED <<leases, leaseTokens>>
     ELSE /\ leases' = Without(leases, l)
          /\ leaseTokens' = With(leaseTokens, l, [released |-> TRUE, ttl |-> LeaseTtl])
  /\ UNCHANGED <<rateTokens, subscription, streams, renewals, circuitOpen, checks, pings, redisDown, mcpFaults>>

-----------------------------------------------------------------------------
(* A SUBSCRIPTION                                                          *)

Owns(t) == t \in DOMAIN subscription

(* The heartbeat of a stream, which is closed unless it still owns the     *)
(* subscription.                                                           *)
RenewStream(t) ==
  /\ streams[t].due
  /\ IF ~redisDown /\ Owns(t)
     THEN /\ subscription' = [o \in DOMAIN subscription |-> LeaseTtl]
          /\ streams' = [streams EXCEPT ![t] = [due |-> FALSE, lost |-> FALSE]]
     ELSE streams' = Without(streams, t) /\ UNCHANGED subscription
  /\ UNCHANGED <<rateTokens, leases, leaseTokens, permits, renewals, circuitOpen, checks, pings, redisDown, mcpFaults>>

(* The client leaves: the subscription is deleted if it is this stream's.  *)
CloseStream(t) ==
  /\ streams' = Without(streams, t)
  /\ subscription' = IF ~redisDown /\ t \in DOMAIN subscription THEN <<>> ELSE subscription
  /\ UNCHANGED <<rateTokens, leases, leaseTokens, permits, renewals, circuitOpen, checks, pings, redisDown, mcpFaults>>
-----------------------------------------------------------------------------
(* TIME AND FAULTS                                                         *)

Older(ttl) == IF ttl > 0 THEN ttl - 1 ELSE 0

(* The next heartbeat.  Timers and commands take less than that: a command *)
(* is answered or has failed by then.                                      *)
Tick ==
  /\ renewals = {} /\ checks = 0 /\ pings = 0
  /\ \A l \in DOMAIN permits : permits[l].phase # "releasing" /\ ~permits[l].due
  /\ \A t \in DOMAIN streams : ~streams[t].due
  /\ permits' = [l \in DOMAIN permits |-> [permits[l] EXCEPT !.due = TRUE]]
  /\ streams' = [t \in DOMAIN streams |-> [streams[t] EXCEPT !.due = TRUE]]
  /\ rateTokens' = IF rateTokens + RateRefill > RateCapacity THEN RateCapacity
                   ELSE rateTokens + RateRefill
  /\ leases' = [l \in DOMAIN leases |-> Older(leases[l])]
  /\ leaseTokens' = [l \in {m \in DOMAIN leaseTokens : leaseTokens[m].ttl > 1} |->
                       [leaseTokens[l] EXCEPT !.ttl = @ - 1]]
  /\ subscription' = [o \in {p \in DOMAIN subscription : subscription[p] > 1} |-> subscription[o] - 1]
  /\ UNCHANGED <<renewals, circuitOpen, checks, pings, redisDown, mcpFaults>>

McpFault == mcpFaults < MaxMcpFaults /\ mcpFaults' = mcpFaults + 1

RedisGoesDown ==
  /\ McpFault /\ ~redisDown
  /\ redisDown' = TRUE
  /\ UNCHANGED <<redisVars, permits, streams, renewals, circuitOpen, checks, pings>>

RedisComesBack ==
  /\ redisDown
  /\ redisDown' = FALSE
  /\ UNCHANGED <<redisVars, permits, streams, renewals, circuitOpen, checks, pings, mcpFaults>>

(* Redis restarts without its data.                                        *)
RedisForgets ==
  /\ McpFault
  /\ rateTokens' = RateCapacity
  /\ leases' = <<>> /\ leaseTokens' = <<>> /\ subscription' = <<>>
  /\ permits' = [l \in DOMAIN permits |-> [permits[l] EXCEPT !.lost = TRUE]]
  /\ streams' = [t \in DOMAIN streams |-> [streams[t] EXCEPT !.lost = TRUE]]
  /\ UNCHANGED <<renewals, circuitOpen, checks, pings, redisDown>>

(* The API process dies with its operations and starts again.              *)
ApiRestarts ==
  /\ McpFault
  /\ permits' = <<>> /\ streams' = <<>> /\ renewals' = {}
  /\ circuitOpen' = FALSE /\ checks' = 0 /\ pings' = 0
  /\ UNCHANGED <<redisVars, redisDown>>
-----------------------------------------------------------------------------
PermitStep(l) ==
  \/ Claim(l) \/ AnswerEarly(l) \/ Finish(l) \/ Heartbeat(l) \/ Release(l)

McpNext ==
  \/ PassCircuit \/ AskRedis \/ PingAnswered
  \/ AdmitTool \/ AdmitOther \/ Refuse
  \/ \E l \in DOMAIN permits : PermitStep(l)
  \/ \E l \in renewals : Renew(l) \/ RenewFails(l)
  \/ \E t \in DOMAIN streams : RenewStream(t) \/ CloseStream(t)
  \/ Tick
  \/ RedisGoesDown \/ RedisComesBack \/ RedisForgets \/ ApiRestarts

(* Timers fire and commands are answered, operations end, and an outage    *)
(* does too; however many requests there are, time passes.                 *)
AnswerRequest == PingAnswered \/ AdmitTool \/ AdmitOther \/ Refuse

AnswerLease(l) ==
  \/ l \in renewals /\ (Renew(l) \/ RenewFails(l))
  \/ l \in DOMAIN permits /\ (Heartbeat(l) \/ Release(l))
  \/ l \in DOMAIN streams /\ RenewStream(l)

McpFairness ==
  /\ WF_mcpVars(AnswerRequest)
  /\ SF_mcpVars(Tick)
  /\ WF_mcpVars(RedisComesBack)
  /\ \A l \in LeaseIds :
       /\ WF_mcpVars(AnswerLease(l))
       /\ WF_mcpVars(l \in DOMAIN permits /\ Finish(l))

McpSpec == McpInit /\ [][McpNext]_mcpVars /\ McpFairness

-----------------------------------------------------------------------------
(* The types of the variables, and: the token of a lease outlives it.      *)
McpTypeOK ==
  /\ rateTokens \in 0..RateCapacity
  /\ \A l \in DOMAIN leases : l \in LeaseIds /\ leases[l] \in 0..LeaseTtl
  /\ \A l \in DOMAIN leaseTokens : l \in LeaseIds /\ leaseTokens[l].ttl \in 1..LeaseTtl
  /\ DOMAIN permits \subseteq LeaseIds /\ DOMAIN streams \subseteq LeaseIds
  /\ \A l \in DOMAIN permits : permits[l] \in Permit
  /\ \A t \in DOMAIN streams : streams[t] \in Stream
  /\ \A l \in DOMAIN Unexpired : l \in DOMAIN leaseTokens

(* The tool calls of an agent that run at one time are within the limit,   *)
(* those whose response was sent long before included, whatever happens to *)
(* their leases during an outage.  Only a Redis that forgets them lets     *)
(* others in beside them.                                                  *)
RunningWithinLimit ==
  Cardinality({l \in DOMAIN permits : ~permits[l].lost}) <= ToolLimit

(* A lease that was released is free: a renewal that arrives after the     *)
(* release does not take it again.                                         *)
ReleasedStaysFree ==
  [][\A l \in DOMAIN leaseTokens : leaseTokens[l].released => l \notin DOMAIN leases']_mcpVars

(* An agent has one subscription: when two streams are open, Redis has     *)
(* forgotten one of them, which its next heartbeat closes.                 *)
OneStream ==
  Cardinality({t \in DOMAIN streams : ~streams[t].lost}) <= 1

(* The limits of one agent in one process, of calls and of subscriptions,  *)
(* among what Redis has not lost; the limits over all agents are not       *)
(* stated here.                                                            *)
WithinLimits == RunningWithinLimit /\ OneStream

=============================================================================
