---------------------------- MODULE SessionLimiter ----------------------------
(***************************************************************************)
(* The admission of sandbox visitors in crates/chronus-demo-server, file   *)
(* server.rs: AppState::admit, and the SessionGuard that gives everything  *)
(* back when it is dropped.                                                *)
(*                                                                         *)
(* Requests run on the threads of tokio's runtime.  The semaphore, the map *)
(* behind its mutex and the two counters are shared, and each access to    *)
(* one of them is a step.                                                  *)
(***************************************************************************)
EXTENDS Naturals, FiniteSets

CONSTANTS
    Visitors,    \* connections, each used for any number of visits
    Ips,         \* their addresses
    MaxSessions, \* ServerConfig.max_sessions
    MaxPerIp,    \* ServerConfig.max_per_ip
    MaxTotal     \* bound: no new visit once so many were served

ASSUME LimiterAssumption ==
    /\ IsFiniteSet(Visitors)
    /\ MaxSessions \in Nat /\ MaxPerIp \in Nat /\ MaxTotal \in Nat

VARIABLES
    pc,       \* where each visitor's request, session or guard is
    ip,       \* the address it came from
    permits,  \* AppState.permits: free permits of the semaphore
    perIp,    \* AppState.per_ip: a map from some of the addresses to counts
    active, total   \* AppState.active and total

vars == <<pc, ip, permits, perIp, active, total>>

At(places) == {v \in Visitors : pc[v] \in places}

\* Visitors with a permit; those the map counts; those whose session is on.
Holding == {"permit", "refused", "counted", "entered", "open", "left", "uncounted"}
Counted == {"counted", "entered", "open", "left"}
Admitted == {"counted", "entered", "open"}

Init ==
    /\ pc = [v \in Visitors |-> "away"]
    /\ ip = [v \in Visitors |-> CHOOSE a \in Ips : TRUE]  \* of no meaning yet
    /\ permits = MaxSessions
    /\ perIp = [a \in {} |-> 0]
    /\ active = 0 /\ total = 0

Go(v, place) == pc' = [pc EXCEPT ![v] = place]

-----------------------------------------------------------------------------
(* The map. *)

CountOf(a) == IF a \in DOMAIN perIp THEN perIp[a] ELSE 0
Entered(a, n) == [b \in DOMAIN perIp \cup {a} |-> IF b = a THEN n ELSE perIp[b]]

\* One session less of address a, and no entry left if it was the last.
Decreased(a) ==
    IF perIp[a] > 1 THEN [perIp EXCEPT ![a] = @ - 1]
    ELSE [b \in DOMAIN perIp \ {a} |-> perIp[b]]

-----------------------------------------------------------------------------
(* admit *)

\* A visitor comes, perhaps from another address than last time, and gets a
\* permit.  Without one it is refused (Reject::Capacity) and nothing changes.
Acquire(v) ==
    /\ pc[v] = "away" /\ total < MaxTotal
    /\ permits > 0
    /\ permits' = permits - 1
    /\ \E a \in Ips : ip' = [ip EXCEPT ![v] = a]
    /\ Go(v, "permit")
    /\ UNCHANGED <<perIp, active, total>>

\* Mutant: off by one.
IpIsFullLate(a) == CountOf(a) > MaxPerIp

IpIsFull(a) == CountOf(a) >= MaxPerIp

\* The map is looked at and changed under one lock.  The entry is made first, so
\* that a limit of zero leaves one behind.
CheckIp(v) ==
    /\ pc[v] = "permit"
    /\ LET a == ip[v] IN
       IF IpIsFull(a)
       THEN perIp' = Entered(a, CountOf(a)) /\ Go(v, "refused")
       ELSE perIp' = Entered(a, CountOf(a) + 1) /\ Go(v, "counted")
    /\ UNCHANGED <<ip, permits, active, total>>

\* Mutant: the permit is forgotten.
RefusePerIpForgets(v) ==
    /\ pc[v] = "refused"
    /\ Go(v, "away")
    /\ UNCHANGED <<ip, permits, perIp, active, total>>

\* Reject::PerIp: the permit is given back when admit returns.
RefusePerIp(v) ==
    /\ pc[v] = "refused"
    /\ permits' = permits + 1
    /\ Go(v, "away")
    /\ UNCHANGED <<ip, perIp, active, total>>

CountActive(v) ==
    /\ pc[v] = "counted"
    /\ active' = active + 1
    /\ Go(v, "entered")
    /\ UNCHANGED <<ip, permits, perIp, total>>

CountTotal(v) ==
    /\ pc[v] = "entered"
    /\ total' = total + 1
    /\ Go(v, "open")
    /\ UNCHANGED <<ip, permits, perIp, active>>

-----------------------------------------------------------------------------
(* SessionGuard::drop, whatever ended the session: its deadline, the visitor, a
   send that failed, or an upgrade that never came. *)

\* Drop::drop runs, and then the fields go: the permit is released last.
Leave(v) ==
    /\ pc[v] = "open"
    /\ active' = active - 1
    /\ Go(v, "left")
    /\ UNCHANGED <<ip, permits, perIp, total>>

Uncount(v) ==
    /\ pc[v] = "left"
    /\ perIp' = Decreased(ip[v])
    /\ Go(v, "uncounted")
    /\ UNCHANGED <<ip, permits, active, total>>

Release(v) ==
    /\ pc[v] = "uncounted"
    /\ permits' = permits + 1
    /\ Go(v, "away")
    /\ UNCHANGED <<ip, perIp, active, total>>

\* What happens to a visit besides its beginning and its end.
Proceed(v) ==
    \/ CheckIp(v) \/ RefusePerIp(v)
    \/ CountActive(v) \/ CountTotal(v)
    \/ Uncount(v) \/ Release(v)

Next == \E v \in Visitors : Acquire(v) \/ Proceed(v) \/ Leave(v)

Spec == Init /\ [][Next]_vars

-----------------------------------------------------------------------------
(* Properties. *)

\* However admissions and ends interleave, no more than max_sessions sessions
\* are on, and no more than max_per_ip of one address.
CapsHold ==
    /\ Cardinality(At(Admitted)) <= MaxSessions
    /\ \A a \in Ips : Cardinality({v \in At(Admitted) : ip[v] = a}) <= MaxPerIp


\* Every permit and every count comes back, also while others come and go: what a
\* refused or ended visit took is neither lost nor given back twice, the map keeps
\* an entry only for an address with sessions (or if its limit is zero), and what
\* /health reports as active are sessions that hold a permit.
NothingLeaks ==
    /\ permits \in Nat /\ permits + Cardinality(At(Holding)) = MaxSessions
    /\ \A a \in Ips : CountOf(a) = Cardinality({v \in At(Counted) : ip[v] = a})
    /\ MaxPerIp > 0 => \A a \in DOMAIN perIp : perIp[a] > 0
    /\ active = Cardinality(At({"entered", "open"}))
=============================================================================
