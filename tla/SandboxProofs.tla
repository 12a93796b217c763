---------------------------- MODULE SandboxProofs ----------------------------
(* The caps of the sandbox server hold and nothing leaks, for any number of   *)
(* visitors and addresses and every limit; and so it is for the whole server: *)
(* a session's ticks, sends, commands and clocks touch none of what admission *)
(* shares.  And of the session: a frame shows the alarms of its scenario, and *)
(* no second lets more than two windows of commands through.                  *)
EXTENDS Sandbox, FiniteSetTheorems, TLAPS

(***************************************************************************)
(* The inductive invariant: the semaphore, the map and the counter each    *)
(* agree with the number of visitors between two places of admit and drop. *)
(***************************************************************************)

Places == Holding \cup {"away"}

\* Visitors of address a that the map counts.
Of(a) == {v \in At(Counted) : ip[v] = a}

PlacesOK ==
    /\ pc \in [Visitors -> Places]
    /\ ip = [v \in Visitors |-> ip[v]]
    /\ \A v \in Visitors : pc[v] # "away" => ip[v] \in Ips

PermitsOK == permits \in Nat /\ permits + Cardinality(At(Holding)) = MaxSessions
ActiveOK == active = Cardinality(At({"entered", "open"}))

\* An entry is never negative, only a limit of zero leaves one of zero, and no
\* entry is above the limit.
MapOK ==
    /\ perIp \in [DOMAIN perIp -> Nat]
    /\ MaxPerIp > 0 => \A a \in DOMAIN perIp : perIp[a] > 0
    /\ \A a \in Ips : CountOf(a) = Cardinality(Of(a)) /\ CountOf(a) <= MaxPerIp

LimiterInv == PlacesOK /\ PermitsOK /\ ActiveOK /\ MapOK

-----------------------------------------------------------------------------
(* How the numbers of visitors change when one goes on. *)

LEMMA Finite ==
    ASSUME NEW places
    PROVE  IsFiniteSet(At(places)) /\ Cardinality(At(places)) \in Nat
<1>1. At(places) \in SUBSET Visitors
  BY DEF At
<1>2. IsFiniteSet(At(places))
  BY <1>1, FS_Subset, LimiterAssumption
<1>3. QED BY <1>2, FS_CardinalityType

LEMMA OneMore ==
    ASSUME NEW S, IsFiniteSet(S), NEW x, x \notin S
    PROVE  Cardinality(S \cup {x}) = Cardinality(S) + 1
BY FS_AddElement

LEMMA OneLess ==
    ASSUME NEW S, IsFiniteSet(S), NEW x, x \in S
    PROVE  Cardinality(S \ {x}) = Cardinality(S) - 1
BY FS_RemoveElement

LEMMA HeadCount ==
    ASSUME NEW v \in Visitors, NEW place, NEW places,
           pc \in [Visitors -> Places], Go(v, place)
    PROVE  /\ Cardinality(At(places)) \in Nat
           /\ (pc[v] \in places <=> place \in places) =>
                Cardinality(At(places))' = Cardinality(At(places))
           /\ pc[v] \notin places /\ place \in places =>
                Cardinality(At(places))' = Cardinality(At(places)) + 1
           /\ pc[v] \in places /\ place \notin places =>
                Cardinality(At(places))' = Cardinality(At(places)) - 1
<1>1. Cardinality(At(places)) \in Nat /\ IsFiniteSet(At(places))
  BY Finite
<1>2. (pc[v] \in places <=> place \in places) => At(places)' = At(places)
  BY DEF At, Go
<1>3. pc[v] \notin places /\ place \in places =>
        At(places)' = At(places) \cup {v} /\ v \notin At(places)
  BY DEF At, Go
<1>4. pc[v] \in places /\ place \notin places =>
        At(places)' = At(places) \ {v} /\ v \in At(places)
  BY DEF At, Go
<1>5. QED BY <1>1, <1>2, <1>3, <1>4, OneMore, OneLess

\* The same for those of one address, while addresses stay.
LEMMA HeadCountOf ==
    ASSUME NEW v \in Visitors, NEW place, NEW a,
           pc \in [Visitors -> Places], Go(v, place), UNCHANGED ip
    PROVE  /\ Cardinality(Of(a)) \in Nat
           /\ (pc[v] \in Counted <=> place \in Counted) \/ ip[v] # a =>
                Cardinality(Of(a))' = Cardinality(Of(a))
           /\ pc[v] \notin Counted /\ place \in Counted /\ ip[v] = a =>
                Cardinality(Of(a))' = Cardinality(Of(a)) + 1
           /\ pc[v] \in Counted /\ place \notin Counted /\ ip[v] = a =>
                Cardinality(Of(a))' = Cardinality(Of(a)) - 1
<1>1. IsFiniteSet(Of(a)) /\ Cardinality(Of(a)) \in Nat
  <2>1. Of(a) \in SUBSET At(Counted)
    BY DEF Of
  <2>2. IsFiniteSet(Of(a))
    BY <2>1, Finite, FS_Subset
  <2>3. QED BY <2>2, FS_CardinalityType
<1>2. (pc[v] \in Counted <=> place \in Counted) \/ ip[v] # a => Of(a)' = Of(a)
  BY DEF At, Go, Of
<1>3. pc[v] \notin Counted /\ place \in Counted /\ ip[v] = a =>
        Of(a)' = Of(a) \cup {v} /\ v \notin Of(a)
  BY DEF At, Go, Of
<1>4. pc[v] \in Counted /\ place \notin Counted /\ ip[v] = a =>
        Of(a)' = Of(a) \ {v} /\ v \in Of(a)
  BY DEF At, Go, Of
<1>5. QED BY <1>1, <1>2, <1>3, <1>4, OneMore, OneLess

-----------------------------------------------------------------------------
(* The map. *)

\* An entry that is made or changed is the only one that is.
LEMMA EnteredIs ==
    ASSUME NEW a, NEW n \in Nat, perIp \in [DOMAIN perIp -> Nat], perIp' = Entered(a, n)
    PROVE  /\ perIp' \in [DOMAIN perIp' -> Nat]
           /\ DOMAIN perIp' = DOMAIN perIp \cup {a}
           /\ \A b \in DOMAIN perIp' : perIp'[b] = IF b = a THEN n ELSE perIp[b]
           /\ \A b : CountOf(b)' = IF b = a THEN n ELSE CountOf(b)
BY DEF Entered, CountOf

LEMMA DecreasedIs ==
    ASSUME NEW a, a \in DOMAIN perIp, perIp \in [DOMAIN perIp -> Nat], perIp[a] > 0,
           perIp' = Decreased(a)
    PROVE  /\ perIp' \in [DOMAIN perIp' -> Nat]
           /\ DOMAIN perIp' \subseteq DOMAIN perIp
           /\ \A b \in DOMAIN perIp' : perIp'[b] > 0 \/ perIp'[b] = perIp[b]
           /\ \A b : CountOf(b)' = IF b = a THEN CountOf(a) - 1 ELSE CountOf(b)
<1>1. CASE perIp[a] > 1
  BY <1>1 DEF Decreased, CountOf
<1>2. CASE ~(perIp[a] > 1)
  <2>1. perIp[a] = 1
    BY <1>2
  <2>2. QED BY <1>2, <2>1 DEF Decreased, CountOf
<1>3. QED BY <1>1, <1>2

-----------------------------------------------------------------------------
(* Induction. *)

LEMMA LimiterInit == Init => LimiterInv
<1> SUFFICES ASSUME Init PROVE LimiterInv
  OBVIOUS
<1>1. \A places : "away" \notin places => At(places) = {}
  BY DEF Init, At
<1>2. At(Holding) = {} /\ At({"entered", "open"}) = {} /\ At(Counted) = {}
  BY <1>1 DEF Holding, Counted
<1>3. PlacesOK
  BY DEF Init, PlacesOK, Places
<1>4. Cardinality({}) = 0
  BY FS_EmptySet
<1>5. PermitsOK /\ ActiveOK
  <2>1. permits = MaxSessions /\ active = 0
    BY DEF Init
  <2>2. PermitsOK
    BY <1>2, <1>4, <2>1, LimiterAssumption DEF PermitsOK
  <2>3. ActiveOK
    BY <1>2, <1>4, <2>1 DEF ActiveOK
  <2>4. QED BY <2>2, <2>3
<1>6. \A a \in Ips : Of(a) = {} /\ CountOf(a) = 0
  BY <1>2 DEF Of, CountOf, Init
<1>7. perIp \in [DOMAIN perIp -> Nat] /\ DOMAIN perIp = {}
  BY DEF Init
<1>8. MapOK
  BY <1>4, <1>6, <1>7, LimiterAssumption, SMTT(30) DEF MapOK
<1>9. QED BY <1>3, <1>5, <1>8 DEF LimiterInv

\* Who goes on keeps a place and its address.
LEMMA PlacesKept ==
    ASSUME PlacesOK, NEW v \in Visitors, NEW place \in Places, Go(v, place),
           UNCHANGED ip, pc[v] # "away"
    PROVE  PlacesOK'
BY DEF PlacesOK, Go

LEMMA AcquireKeeps ==
    ASSUME LimiterInv, NEW v \in Visitors, Acquire(v)
    PROVE  LimiterInv'
<1> USE DEF LimiterInv
<1>1. Go(v, "permit") /\ pc[v] = "away" /\ pc \in [Visitors -> Places]
  BY DEF Acquire, PlacesOK
<1>2. PlacesOK'
  BY DEF Acquire, PlacesOK, Go, Places, Holding
<1>3. PermitsOK'
  <2>1. Cardinality(At(Holding))' = Cardinality(At(Holding)) + 1
    <3>1. pc[v] \notin Holding /\ "permit" \in Holding
      BY <1>1 DEF Holding
    <3>2. QED BY <1>1, <3>1, HeadCount, ZenonT(30)
  <2>2. QED BY <2>1, Finite DEF Acquire, PermitsOK
<1>4. ActiveOK'
  <2>1. pc[v] \notin {"entered", "open"} /\ "permit" \notin {"entered", "open"}
    BY <1>1
  <2>2. Cardinality(At({"entered", "open"}))' = Cardinality(At({"entered", "open"}))
    BY <1>1, <2>1, HeadCount
  <2>3. QED BY <2>2 DEF ActiveOK, Acquire
<1>5. ASSUME NEW a \in Ips PROVE Of(a)' = Of(a)
  BY <1>1 DEF Of, At, Counted, Go, Acquire
<1>6. MapOK'
  BY <1>5 DEF MapOK, Acquire, CountOf
<1>7. QED BY <1>2, <1>3, <1>4, <1>6

LEMMA CheckIpKeeps ==
    ASSUME LimiterInv, NEW v \in Visitors, CheckIp(v)
    PROVE  LimiterInv'
<1> USE DEF LimiterInv
<1> DEFINE here == ip[v]
           place == IF IpIsFull(here) THEN "refused" ELSE "counted"
           count == IF IpIsFull(here) THEN CountOf(here) ELSE CountOf(here) + 1
<1>1. /\ Go(v, place) /\ pc[v] = "permit" /\ pc \in [Visitors -> Places]
      /\ perIp' = Entered(here, count) /\ UNCHANGED <<ip, permits, active>>
  BY DEF CheckIp, PlacesOK
<1>2. here \in Ips
  BY <1>1 DEF PlacesOK
<1>3. PlacesOK'
  BY <1>1, PlacesKept DEF Places, Holding
<1>4. PermitsOK' /\ ActiveOK'
  <2>1. Cardinality(At(Holding))' = Cardinality(At(Holding))
    BY <1>1, HeadCount DEF Holding
  <2>2. pc[v] \notin {"entered", "open"} /\ place \notin {"entered", "open"}
    BY <1>1
  <2>3. Cardinality(At({"entered", "open"}))' = Cardinality(At({"entered", "open"}))
    BY <1>1, <2>2, HeadCount
  <2>4. QED BY <1>1, <2>1, <2>3 DEF PermitsOK, ActiveOK
<1>5. CountOf(here) \in Nat /\ count \in Nat /\ count <= MaxPerIp
      /\ (MaxPerIp > 0 => count > 0)
  BY <1>2, HeadCountOf, LimiterAssumption DEF MapOK, IpIsFull, CountOf
<1>6. /\ perIp' \in [DOMAIN perIp' -> Nat]
      /\ DOMAIN perIp' = DOMAIN perIp \cup {here}
      /\ \A b \in DOMAIN perIp' : perIp'[b] = IF b = here THEN count ELSE perIp[b]
      /\ \A b : CountOf(b)' = IF b = here THEN count ELSE CountOf(b)
  <2>1. perIp \in [DOMAIN perIp -> Nat]
    BY DEF MapOK
  <2>2. QED BY <1>1, <1>5, <2>1, EnteredIs, ZenonT(30)
<1>7. ASSUME NEW a \in Ips PROVE CountOf(a)' = Cardinality(Of(a))' /\ CountOf(a)' <= MaxPerIp
  <2>1. CASE a # here
    <3>1. Cardinality(Of(a))' = Cardinality(Of(a))
      BY <1>1, <2>1, HeadCountOf
    <3>2. QED BY <1>6, <2>1, <3>1 DEF MapOK
  <2>2. CASE a = here /\ IpIsFull(here)
    <3>1. Cardinality(Of(a))' = Cardinality(Of(a))
      BY <1>1, <2>2, HeadCountOf DEF Counted
    <3>2. QED BY <1>5, <1>6, <2>2, <3>1 DEF MapOK
  <2>3. CASE a = here /\ ~IpIsFull(here)
    <3>1. Cardinality(Of(a))' = Cardinality(Of(a)) + 1
      BY <1>1, <2>3, HeadCountOf DEF Counted
    <3>2. QED BY <1>5, <1>6, <2>3, <3>1 DEF MapOK
  <2>4. QED BY <2>1, <2>2, <2>3
<1>8. MapOK'
  BY <1>5, <1>6, <1>7 DEF MapOK
<1>9. QED BY <1>3, <1>4, <1>8

LEMMA RefusePerIpKeeps ==
    ASSUME LimiterInv, NEW v \in Visitors, RefusePerIp(v)
    PROVE  LimiterInv'
<1> USE DEF LimiterInv
<1>1. Go(v, "away") /\ pc[v] = "refused" /\ pc \in [Visitors -> Places] /\ UNCHANGED ip
  BY DEF RefusePerIp, PlacesOK
<1>2. PlacesOK'
  BY <1>1, PlacesKept DEF Places
<1>3. PermitsOK'
  <2>1. pc[v] \in Holding /\ "away" \notin Holding
    BY <1>1 DEF Holding
  <2>2. Cardinality(At(Holding))' = Cardinality(At(Holding)) - 1
    BY <1>1, <2>1, HeadCount
  <2>3. QED BY <2>2, Finite DEF RefusePerIp, PermitsOK
<1>4. ActiveOK'
  <2>1. pc[v] \notin {"entered", "open"} /\ "away" \notin {"entered", "open"}
    BY <1>1
  <2>2. Cardinality(At({"entered", "open"}))' = Cardinality(At({"entered", "open"}))
    BY <1>1, <2>1, HeadCount
  <2>3. QED BY <2>2 DEF ActiveOK, RefusePerIp
<1>5. ASSUME NEW a \in Ips PROVE Cardinality(Of(a))' = Cardinality(Of(a))
  BY <1>1, HeadCountOf DEF Counted
<1>6. MapOK'
  BY <1>5 DEF MapOK, RefusePerIp, CountOf
<1>7. QED BY <1>2, <1>3, <1>4, <1>6

\* Neither the permit nor the map is touched.
LEMMA CountingKeeps ==
    ASSUME LimiterInv, NEW v \in Visitors, CountActive(v) \/ CountTotal(v) \/ Leave(v)
    PROVE  LimiterInv'
<1> USE DEF LimiterInv
<1> DEFINE on == {"entered", "open"}
<1>1. PICK place \in {"entered", "open", "left"} :
        /\ Go(v, place) /\ UNCHANGED <<ip, permits, perIp>>
        /\ \/ pc[v] = "counted" /\ place = "entered" /\ active' = active + 1
           \/ pc[v] = "entered" /\ place = "open" /\ active' = active
           \/ pc[v] = "open" /\ place = "left" /\ active' = active - 1
  BY DEF CountActive, CountTotal, Leave
<1>2. pc \in [Visitors -> Places] /\ pc[v] \in Counted /\ place \in Counted
  BY <1>1 DEF PlacesOK, Counted
<1>3. PlacesOK'
  BY <1>1, PlacesKept DEF Places, Holding
<1>4. PermitsOK'
  <2>1. Cardinality(At(Holding))' = Cardinality(At(Holding))
    BY <1>1, <1>2, HeadCount, SMTT(30) DEF Holding, Counted
  <2>2. QED BY <1>1, <2>1 DEF PermitsOK
<1>5. ActiveOK'
  <2>1. CASE pc[v] = "counted"
    <3>1. pc[v] \notin on /\ place \in on /\ active' = active + 1
      BY <1>1, <2>1
    <3>2. QED BY <1>1, <1>2, <3>1, HeadCount DEF ActiveOK
  <2>2. CASE pc[v] = "entered"
    <3>1. pc[v] \in on /\ place \in on /\ active' = active
      BY <1>1, <2>2
    <3>2. QED BY <1>1, <1>2, <3>1, HeadCount DEF ActiveOK
  <2>3. CASE pc[v] = "open"
    <3>1. pc[v] \in on /\ place \notin on /\ active' = active - 1
      BY <1>1, <2>3
    <3>2. QED BY <1>1, <1>2, <3>1, HeadCount DEF ActiveOK
  <2>4. QED BY <1>1, <2>1, <2>2, <2>3
<1>6. ASSUME NEW a \in Ips PROVE Cardinality(Of(a))' = Cardinality(Of(a))
  BY <1>1, <1>2, HeadCountOf
<1>7. MapOK'
  BY <1>1, <1>6 DEF MapOK, CountOf
<1>8. QED BY <1>3, <1>4, <1>5, <1>7

LEMMA UncountKeeps ==
    ASSUME LimiterInv, NEW v \in Visitors, Uncount(v)
    PROVE  LimiterInv'
<1> USE DEF LimiterInv
<1> DEFINE here == ip[v]
<1>1. /\ Go(v, "uncounted") /\ pc[v] = "left" /\ pc \in [Visitors -> Places]
      /\ perIp' = Decreased(here) /\ UNCHANGED <<ip, permits, active>>
  BY DEF Uncount, PlacesOK
<1>2. here \in Ips /\ v \in Of(here)
  BY <1>1 DEF PlacesOK, Of, At, Counted
<1>3. PlacesOK'
  BY <1>1, PlacesKept DEF Places, Holding
<1>4. PermitsOK' /\ ActiveOK'
  <2>1. Cardinality(At(Holding))' = Cardinality(At(Holding))
    BY <1>1, HeadCount DEF Holding
  <2>2. pc[v] \notin {"entered", "open"} /\ "uncounted" \notin {"entered", "open"}
    BY <1>1
  <2>3. Cardinality(At({"entered", "open"}))' = Cardinality(At({"entered", "open"}))
    BY <1>1, <2>2, HeadCount
  <2>4. QED BY <1>1, <2>1, <2>3 DEF PermitsOK, ActiveOK
<1>5. here \in DOMAIN perIp /\ perIp[here] > 0
  <2>1. IsFiniteSet(Of(here)) /\ Cardinality(Of(here)) \in Nat
    <3>1. Of(here) \in SUBSET At(Counted)
      BY DEF Of
    <3>2. IsFiniteSet(Of(here))
      BY <3>1, Finite, FS_Subset
    <3>3. QED BY <3>2, FS_CardinalityType
  <2>2. Cardinality(Of(here)) # 0
    BY <1>2, <2>1, FS_EmptySet
  <2>3. CountOf(here) > 0
    BY <1>2, <2>1, <2>2 DEF MapOK
  <2>4. QED BY <2>3 DEF CountOf
<1>6. /\ perIp' \in [DOMAIN perIp' -> Nat]
      /\ DOMAIN perIp' \subseteq DOMAIN perIp
      /\ \A b \in DOMAIN perIp' : perIp'[b] > 0 \/ perIp'[b] = perIp[b]
      /\ \A b : CountOf(b)' = IF b = here THEN CountOf(here) - 1 ELSE CountOf(b)
  BY <1>1, <1>5, DecreasedIs DEF MapOK
<1>7. ASSUME NEW a \in Ips PROVE CountOf(a)' = Cardinality(Of(a))' /\ CountOf(a)' <= MaxPerIp
  <2>1. CASE a # here
    <3>1. Cardinality(Of(a))' = Cardinality(Of(a))
      BY <1>1, <2>1, HeadCountOf
    <3>2. QED BY <1>6, <2>1, <3>1 DEF MapOK
  <2>2. CASE a = here
    <3>1. Cardinality(Of(a))' = Cardinality(Of(a)) - 1 /\ Cardinality(Of(a)) \in Nat
      BY <1>1, <2>2, HeadCountOf DEF Counted
    <3>2. QED BY <1>6, <2>2, <3>1, LimiterAssumption DEF MapOK
  <2>3. QED BY <2>1, <2>2
<1>8. MapOK'
  BY <1>6, <1>7 DEF MapOK
<1>9. QED BY <1>3, <1>4, <1>8

LEMMA ReleaseKeeps ==
    ASSUME LimiterInv, NEW v \in Visitors, Release(v)
    PROVE  LimiterInv'
<1> USE DEF LimiterInv
<1>1. Go(v, "away") /\ pc[v] = "uncounted" /\ pc \in [Visitors -> Places] /\ UNCHANGED ip
  BY DEF Release, PlacesOK
<1>2. PlacesOK'
  BY <1>1, PlacesKept DEF Places
<1>3. PermitsOK'
  <2>1. pc[v] \in Holding /\ "away" \notin Holding
    BY <1>1 DEF Holding
  <2>2. Cardinality(At(Holding))' = Cardinality(At(Holding)) - 1
    BY <1>1, <2>1, HeadCount
  <2>3. QED BY <2>2, Finite DEF Release, PermitsOK
<1>4. ActiveOK'
  <2>1. pc[v] \notin {"entered", "open"} /\ "away" \notin {"entered", "open"}
    BY <1>1
  <2>2. Cardinality(At({"entered", "open"}))' = Cardinality(At({"entered", "open"}))
    BY <1>1, <2>1, HeadCount
  <2>3. QED BY <2>2 DEF ActiveOK, Release
<1>5. ASSUME NEW a \in Ips PROVE Cardinality(Of(a))' = Cardinality(Of(a))
  BY <1>1, HeadCountOf DEF Counted
<1>6. MapOK'
  BY <1>5 DEF MapOK, Release, CountOf
<1>7. QED BY <1>2, <1>3, <1>4, <1>6

LEMMA Stutter == LimiterInv /\ UNCHANGED vars => LimiterInv'
BY DEF LimiterInv, PlacesOK, PermitsOK, ActiveOK, MapOK, vars, At, Of, CountOf

LEMMA LimiterStep == LimiterInv /\ [Next]_vars => LimiterInv'
<1> SUFFICES ASSUME LimiterInv, [Next]_vars PROVE LimiterInv'
  OBVIOUS
<1>1. CASE UNCHANGED vars
  BY <1>1, Stutter
<1>2. ASSUME NEW v \in Visitors, Acquire(v) \/ Proceed(v) \/ Leave(v) PROVE LimiterInv'
  BY <1>2, AcquireKeeps, CheckIpKeeps, RefusePerIpKeeps, CountingKeeps, UncountKeeps,
     ReleaseKeeps DEF Proceed
<1>3. QED BY <1>1, <1>2 DEF Next

-----------------------------------------------------------------------------
(* The theorems. *)

\* Semaphore, map and counter agree with who is where, at every instant of admit
\* and SessionGuard::drop.
THEOREM Invariance == Spec => []LimiterInv
BY LimiterInit, LimiterStep, PTL DEF Spec

\* What NothingLeaks says follows at once.
LEMMA InvTellsLeaks == LimiterInv => NothingLeaks
BY DEF LimiterInv, PermitsOK, ActiveOK, MapOK, NothingLeaks, Of

\* An admitted visitor holds a permit and is counted under its address.
LEMMA InvTellsCaps == LimiterInv => CapsHold
<1> SUFFICES ASSUME LimiterInv PROVE CapsHold
  OBVIOUS
<1>1. Cardinality(At(Admitted)) <= MaxSessions
  <2>1. At(Admitted) \in SUBSET At(Holding)
    BY DEF At, Admitted, Holding
  <2>2. Cardinality(At(Admitted)) <= Cardinality(At(Holding))
    BY <2>1, Finite, FS_Subset
  <2>3. QED BY <2>2, Finite, LimiterAssumption DEF LimiterInv, PermitsOK
<1>2. ASSUME NEW a \in Ips
      PROVE  Cardinality({v \in At(Admitted) : ip[v] = a}) <= MaxPerIp
  <2> DEFINE Here == {v \in At(Admitted) : ip[v] = a}
  <2>1. Here \in SUBSET Of(a) /\ Of(a) \in SUBSET At(Counted)
    BY DEF Of, At, Admitted, Counted
  <2>2. IsFiniteSet(Of(a)) /\ IsFiniteSet(Here)
    BY <2>1, Finite, FS_Subset
  <2>3. Cardinality(Here) \in Nat /\ Cardinality(Of(a)) \in Nat
    BY <2>2, FS_CardinalityType
  <2>4. Cardinality(Here) <= Cardinality(Of(a))
    BY <2>1, <2>2, FS_Subset
  <2>5. Cardinality(Of(a)) <= MaxPerIp
    BY DEF LimiterInv, MapOK
  <2>6. QED BY <2>3, <2>4, <2>5, LimiterAssumption
<1>3. QED BY <1>1, <1>2 DEF CapsHold

\* Whatever a visit took comes back exactly once (AppState::admit, SessionGuard::drop).
THEOREM NothingIsLeaked == Spec => []NothingLeaks
BY Invariance, InvTellsLeaks, PTL

\* max_sessions and max_per_ip are never passed (AppState::admit).
THEOREM CapsAreKept == Spec => []CapsHold
BY Invariance, InvTellsCaps, PTL

-----------------------------------------------------------------------------
(* The whole server. *)

\* Steps of the watched session alone.
InSession ==
    \/ Begin \/ TickDue \/ Deadline \/ Pass
    \/ Sent \/ PongSent \/ CloseSent \/ Timeout \/ Lost
    \/ (\E c \in scene.commands : Text(c) \/ MaskFails(c))
    \/ Ping \/ VisitorLeaves

LEMMA SessionIsApart == InSession => UNCHANGED vars
<1> USE DEF Become, Enter, Failed
<1>1. Begin \/ TickDue \/ Deadline \/ Pass => UNCHANGED vars
  BY DEF Begin, TickDue, Deadline, Pass
<1>2. Sent \/ PongSent \/ CloseSent \/ Timeout \/ Lost => UNCHANGED vars
  BY DEF Sent, PongSent, CloseSent, Timeout, Lost
<1>3. ASSUME NEW c \in scene.commands, Text(c) \/ MaskFails(c) PROVE UNCHANGED vars
  BY <1>3 DEF Text, MaskFails
<1>4. Ping \/ VisitorLeaves => UNCHANGED vars
  BY DEF Ping, VisitorLeaves
<1>5. QED BY <1>1, <1>2, <1>3, <1>4 DEF InSession

\* Every scene's visitors are visitors, the watched one included.
LEMMA StepIsLimiters ==
    scene.visitors \subseteq Visitors /\ [SandboxNext]_sandboxVars => [Next]_vars
<1> SUFFICES ASSUME scene.visitors \subseteq Visitors, [SandboxNext]_sandboxVars
             PROVE  [Next]_vars
  OBVIOUS
<1>1. CASE UNCHANGED sandboxVars
  BY <1>1 DEF sandboxVars
<1>2. CASE Others
  BY <1>2 DEF Others, Next
<1>3. CASE Watching \/ LeaveWatched
  BY <1>3, SandboxAssumption DEF Watching, LeaveWatched, Next
<1>4. CASE InSession
  BY <1>4, SessionIsApart
<1>5. QED BY <1>1, <1>2, <1>3, <1>4 DEF SandboxNext, InSession

\* The sandbox server is an admission as SessionLimiter specifies it (run_session
\* between AppState::admit and SessionGuard::drop).
THEOREM SandboxIsLimiter == SandboxSpec => Spec
<1>1. SandboxInit => Init /\ scene.visitors \subseteq Visitors
  BY SandboxAssumption DEF SandboxInit
<1>2. scene.visitors \subseteq Visitors /\ [SandboxNext]_sandboxVars
        => (scene.visitors \subseteq Visitors)'
  BY DEF SandboxNext, sandboxVars, Others, Watching, LeaveWatched, Begin, TickDue, Deadline,
         Pass, Sent, PongSent, CloseSent, Timeout, Lost, Text, MaskFails, Ping,
         VisitorLeaves, Become, Enter, Failed
<1>3. QED BY <1>1, <1>2, StepIsLimiters, PTL DEF SandboxSpec, Spec

\* Nothing leaks and the caps hold while a session runs (server.rs).
THEOREM SandboxLeaksNothing == SandboxSpec => [](NothingLeaks /\ CapsHold)
BY SandboxIsLimiter, NothingIsLeaked, CapsAreKept, PTL
-----------------------------------------------------------------------------
(***************************************************************************)
(* The session: what a scenario makes the gateway see, and the windows of  *)
(* commands, for every orbit, lifetime, limit and length of a second.      *)
(***************************************************************************)

Spot == [up : BOOLEAN, illum : 0 .. 10, zenith : Nat]
Ages == 0 .. Second - 1
Phases == {"none", "hello", "loop", "frame", "tick", "pong", "ended", "closing", "error", "over"}
Alarms == {"horizon", "doppler", "link", "pointing", "rate", "eps", "thermal"}

Session ==
    [phase : Phases, left : Nat, ready : BOOLEAN, quiet : Nat, send : Nat,
     age : 0 .. Second, count : 0 .. MaxCommands + 1, obeyed : [Ages -> 0 .. MaxCommands],
     scenario : Scenarios, speed : 1 .. MaxSpeed, mask : BOOLEAN, at : 1 .. Len(Sky),
     flags : SUBSET Alarms]

\* A frame under way was flagged by what the session still says.
FrameOK(s) ==
    s.phase = "frame" =>
        \E n \in {-1, 1} :
            s.flags = Flags(Measured(s.scenario, Sky[s.at], n), s.mask, Sky[s.at])

\* The commands obeyed at the ages of S.
ObeyedAt(s, S) == {p \in S \X (1 .. MaxCommands) : p[2] <= s.obeyed[p[1]]}
Now(s) == {i \in Ages : i <= s.age}
Before(s) == {i \in Ages : i > s.age}

\* A second meets two windows at most: the one that counts, and one before it.
WindowsOK(s) ==
    /\ s.obeyed[0] <= s.count
    /\ s.age = Second => s.obeyed[0] = 0
    /\ Cardinality(ObeyedAt(s, Now(s))) <= s.count
    /\ Cardinality(ObeyedAt(s, Now(s))) <= MaxCommands
    /\ Cardinality(ObeyedAt(s, Before(s))) <= MaxCommands

SessionOK(s) == s \in Session /\ FrameOK(s) /\ WindowsOK(s)
SessionInv == scene \in Scenes /\ SessionOK(session)

-----------------------------------------------------------------------------
(* What a scenario shows. *)

LEMMA FlagsAre ==
    ASSUME NEW m, NEW mask, NEW there, NEW c
    PROVE  c \in Flags(m, mask, there) <=>
              LET expected == Targets(there.illum) IN
              \/ c = "horizon" /\ mask /\ ~there.up
              \/ c = "doppler" /\ Dist(m.carrier, 0) > 150
              \/ c = "link" /\ Dist(m.power, 0) > 30
              \/ c = "pointing" /\ m.aside > 25
              \/ c = "rate" /\ m.sample.rate > 50
              \/ c = "eps" /\ Dist(m.sample.volts, expected.volts) > 4
              \/ c = "thermal" /\ Dist(m.sample.heat, expected.heat) > 100
<1> DEFINE A == IF mask /\ ~there.up THEN {"horizon"} ELSE {}
           B == IF Dist(m.carrier, 0) > 150 THEN {"doppler"} ELSE {}
           C == IF Dist(m.power, 0) > 30 THEN {"link"} ELSE {}
           D == IF m.aside > 25 THEN {"pointing"} ELSE {}
           E == IF m.sample.rate > 50 THEN {"rate"} ELSE {}
           F == IF Dist(m.sample.volts, Targets(there.illum).volts) > 4 THEN {"eps"} ELSE {}
           G == IF Dist(m.sample.heat, Targets(there.illum).heat) > 100 THEN {"thermal"} ELSE {}
<1>1. Flags(m, mask, there) = UNION {A, B, C, D, E, F, G}
  BY DEF Flags
<1>2. /\ c \in A <=> c = "horizon" /\ mask /\ ~there.up
      /\ c \in B <=> c = "doppler" /\ Dist(m.carrier, 0) > 150
      /\ c \in C <=> c = "link" /\ Dist(m.power, 0) > 30
      /\ c \in D <=> c = "pointing" /\ m.aside > 25
      /\ c \in E <=> c = "rate" /\ m.sample.rate > 50
      /\ c \in F <=> c = "eps" /\ Dist(m.sample.volts, Targets(there.illum).volts) > 4
      /\ c \in G <=> c = "thermal" /\ Dist(m.sample.heat, Targets(there.illum).heat) > 100
  OBVIOUS
<1> HIDE DEF A, B, C, D, E, F, G
<1>3. c \in Flags(m, mask, there) <=>
         c \in A \/ c \in B \/ c \in C \/ c \in D \/ c \in E \/ c \in F \/ c \in G
  BY <1>1
<1>4. QED BY <1>2, <1>3

LEMMA MeasuredIs ==
    ASSUME NEW scenario \in Scenarios, NEW there \in Spot, NEW n \in {-1, 1}
    PROVE  LET m == Measured(scenario, there, n)
               sun == IF scenario = "full_power_claim" THEN 10 ELSE there.illum
           IN /\ m.carrier = 30 * n + (IF scenario = "doppler_spoof" THEN 2000 ELSE 0)
              /\ m.power = 8 * n - (IF scenario = "low_signal" THEN 120 ELSE 0)
              /\ m.aside = 8 + AtMost(there.zenith, IF scenario = "pointing_error" THEN 200 ELSE 0)
              /\ m.sample.volts = (IF scenario = "eps_voltage" THEN 100 ELSE 240 + 4 * sun)
              /\ m.sample.heat = (IF scenario = "thermal" THEN 800 ELSE 120 + 20 * sun)
              /\ m.sample.rate = (IF scenario = "body_rate" THEN 990 ELSE 2)
<1> DEFINE told == Targets(IF scenario = "full_power_claim" THEN 10 ELSE there.illum)
           x == [volts |-> told.volts, heat |-> told.heat, rate |-> 2]
           m == Measured(scenario, there, n)
<1>1. m.sample = Faulty(scenario, x)
  BY DEF Measured
<1>2. /\ m.carrier = 30 * n + (IF scenario = "doppler_spoof" THEN 2000 ELSE 0)
      /\ m.power = 8 * n - (IF scenario = "low_signal" THEN 120 ELSE 0)
      /\ m.aside = 8 + AtMost(there.zenith, IF scenario = "pointing_error" THEN 200 ELSE 0)
  BY DEF Measured
<1>3. Faulty(scenario, x) =
         IF scenario = "eps_voltage" THEN [x EXCEPT !.volts = 100]
         ELSE IF scenario = "thermal" THEN [x EXCEPT !.heat = 800]
         ELSE IF scenario = "body_rate" THEN [x EXCEPT !.rate = 990]
         ELSE x
  BY DEF Faulty
<1>4. QED BY <1>1, <1>2, <1>3 DEF Targets

LEMMA ScenarioShows ==
    ASSUME NEW scenario \in Scenarios, NEW there \in Spot, NEW n \in {-1, 1}, NEW mask \in BOOLEAN
    PROVE  LET flags == Flags(Measured(scenario, there, n), mask, there)
               alarms == flags \ {"horizon"}
               expected == ExpectedBits[scenario]
           IN /\ alarms \subseteq expected
              /\ \/ alarms = expected
                 \/ scenario = "full_power_claim" /\ there.illum >= 5
                 \/ scenario = "pointing_error" /\ there.zenith <= 25
              /\ "horizon" \in flags <=> mask /\ ~there.up
<1> DEFINE m == Measured(scenario, there, n)
           flags == Flags(m, mask, there)
           expected == Targets(there.illum)
           sun == IF scenario = "full_power_claim" THEN 10 ELSE there.illum
<1>1. /\ m.carrier = 30 * n + (IF scenario = "doppler_spoof" THEN 2000 ELSE 0)
      /\ m.power = 8 * n - (IF scenario = "low_signal" THEN 120 ELSE 0)
      /\ m.aside = 8 + AtMost(there.zenith, IF scenario = "pointing_error" THEN 200 ELSE 0)
      /\ m.sample.volts = (IF scenario = "eps_voltage" THEN 100 ELSE 240 + 4 * sun)
      /\ m.sample.heat = (IF scenario = "thermal" THEN 800 ELSE 120 + 20 * sun)
      /\ m.sample.rate = (IF scenario = "body_rate" THEN 990 ELSE 2)
  BY MeasuredIs
<1>2. expected.volts = 240 + 4 * there.illum /\ expected.heat = 120 + 20 * there.illum
  BY DEF Targets
<1>3. there.illum \in 0 .. 10 /\ there.zenith \in Nat
  BY DEF Spot
<1>4. \A c : c \in flags <=>
              \/ c = "horizon" /\ mask /\ ~there.up
              \/ c = "doppler" /\ Dist(m.carrier, 0) > 150
              \/ c = "link" /\ Dist(m.power, 0) > 30
              \/ c = "pointing" /\ m.aside > 25
              \/ c = "rate" /\ m.sample.rate > 50
              \/ c = "eps" /\ Dist(m.sample.volts, expected.volts) > 4
              \/ c = "thermal" /\ Dist(m.sample.heat, expected.heat) > 100
  BY FlagsAre
<1> HIDE DEF m, flags, expected
<1>5. Dist(m.carrier, 0) > 150 <=> scenario = "doppler_spoof"
  BY <1>1 DEF Dist
<1>6. Dist(m.power, 0) > 30 <=> scenario = "low_signal"
  BY <1>1 DEF Dist
<1>7. m.aside > 25 <=> scenario = "pointing_error" /\ there.zenith > 17
  BY <1>1, <1>3 DEF AtMost
<1>8. m.sample.rate > 50 <=> scenario = "body_rate"
  BY <1>1
<1>9. Dist(m.sample.volts, expected.volts) > 4 <=>
         scenario = "eps_voltage" \/ (scenario = "full_power_claim" /\ there.illum < 9)
  BY <1>1, <1>2, <1>3 DEF Dist
<1>10. Dist(m.sample.heat, expected.heat) > 100 <=>
         scenario = "thermal" \/ (scenario = "full_power_claim" /\ there.illum < 5)
  BY <1>1, <1>2, <1>3 DEF Dist
<1>11. \A c : c \in flags \ {"horizon"} <=>
              \/ c = "doppler" /\ scenario = "doppler_spoof"
              \/ c = "link" /\ scenario = "low_signal"
              \/ c = "pointing" /\ scenario = "pointing_error" /\ there.zenith > 17
              \/ c = "rate" /\ scenario = "body_rate"
              \/ c = "eps" /\ (scenario = "eps_voltage" \/ (scenario = "full_power_claim" /\ there.illum < 9))
              \/ c = "thermal" /\ (scenario = "thermal" \/ (scenario = "full_power_claim" /\ there.illum < 5))
  BY <1>4, <1>5, <1>6, <1>7, <1>8, <1>9, <1>10
<1>12. /\ flags \ {"horizon"} \subseteq ExpectedBits[scenario]
       /\ \/ flags \ {"horizon"} = ExpectedBits[scenario]
          \/ scenario = "full_power_claim" /\ there.illum >= 5
          \/ scenario = "pointing_error" /\ there.zenith <= 25
  <2>1. CASE scenario \in {"full_power_claim", "pointing_error"}
    BY <1>3, <1>11, <2>1 DEF ExpectedBits
  <2>2. CASE scenario \in Scenarios \ {"full_power_claim", "pointing_error"}
    BY <1>11, <2>2 DEF ExpectedBits, Scenarios
  <2>3. QED BY <2>1, <2>2
<1>13. "horizon" \in flags <=> mask /\ ~there.up
  BY <1>4
<1>14. QED BY <1>12, <1>13 DEF flags, m
-----------------------------------------------------------------------------
(* The windows. *)

LEMMA ObeyedFinite ==
    ASSUME NEW s, NEW S \in SUBSET Ages
    PROVE  IsFiniteSet(ObeyedAt(s, S)) /\ Cardinality(ObeyedAt(s, S)) \in Nat
<1>1. Second \in Int /\ MaxCommands \in Int
  BY SandboxAssumption
<1>2. IsFiniteSet(Ages) /\ IsFiniteSet(1 .. MaxCommands)
  BY <1>1, FS_Interval DEF Ages
<1>3. IsFiniteSet(S)
  BY <1>2, FS_Subset
<1>4. IsFiniteSet(S \X (1 .. MaxCommands))
  BY <1>2, <1>3, FS_Product
<1>5. ObeyedAt(s, S) \in SUBSET (S \X (1 .. MaxCommands))
  BY DEF ObeyedAt
<1>6. IsFiniteSet(ObeyedAt(s, S))
  BY <1>4, <1>5, FS_Subset
<1>7. QED BY <1>6, FS_CardinalityType

LEMMA ObeyedFewer ==
    ASSUME NEW s, NEW t, NEW S \in SUBSET Ages, NEW T \in SUBSET Ages,
           ObeyedAt(t, T) \subseteq ObeyedAt(s, S)
    PROVE  Cardinality(ObeyedAt(t, T)) <= Cardinality(ObeyedAt(s, S))
BY ObeyedFinite, FS_Subset

LEMMA WindowsAre ==
    ASSUME NEW s
    PROVE  Now(s) \in SUBSET Ages /\ Before(s) \in SUBSET Ages
BY DEF Now, Before

LEMMA Numbers ==
    /\ Second \in Nat \ {0} /\ MaxCommands \in Nat \ {0} /\ MaxSpeed \in Nat \ {0}
    /\ Life \in Nat \ {0} /\ SendTimeout \in Nat \ {0} /\ Len(Sky) \in Nat \ {0}
    /\ 0 \in Ages /\ \A i \in 1 .. Len(Sky) : Sky[i] \in Spot
<1>1. Sky \in Seq(Spot) /\ Sky # <<>>
  BY SandboxAssumption DEF Spot
<1>2. Len(Sky) \in Nat \ {0} /\ \A i \in 1 .. Len(Sky) : Sky[i] \in Spot
  BY <1>1
<1>3. QED BY <1>2, SandboxAssumption DEF Ages

LEMMA Limits ==
    /\ Second \in Nat /\ Second > 0
    /\ MaxCommands \in Nat /\ MaxCommands > 0
    /\ 0 \in Ages
BY Numbers

\* Nothing about the windows changes.
LEMMA WindowsKept ==
    ASSUME NEW s, NEW t, WindowsOK(s),
           t.obeyed = s.obeyed, t.age = s.age, t.count = s.count
    PROVE  WindowsOK(t)
<1>1. Now(t) = Now(s) /\ Before(t) = Before(s)
  BY DEF Now, Before
<1>2. \A S : ObeyedAt(t, S) = ObeyedAt(s, S)
  BY DEF ObeyedAt
<1>3. QED BY <1>1, <1>2 DEF WindowsOK

LEMMA FreshWindows ==
    ASSUME NEW t, t.obeyed = [i \in Ages |-> 0], t.age = 0, t.count = 0
    PROVE  WindowsOK(t)
<1>1. ASSUME NEW S \in SUBSET Ages PROVE Cardinality(ObeyedAt(t, S)) = 0
  <2>1. ASSUME NEW p \in S \X (1 .. MaxCommands) PROVE ~(p[2] <= t.obeyed[p[1]])
    <3>1. p[1] \in Ages /\ p[2] \in Nat /\ p[2] > 0
      BY Numbers
    <3>2. t.obeyed[p[1]] = 0
      BY <3>1
    <3>3. QED BY <3>1, <3>2
  <2>2. ObeyedAt(t, S) = {}
    BY <2>1 DEF ObeyedAt
  <2>3. QED BY <2>2, FS_EmptySet
<1>2. QED BY <1>1, WindowsAre, Numbers DEF WindowsOK

\* A second of time: what was obeyed is one period longer ago.
LEMMA WindowsPass ==
    ASSUME NEW s \in Session, NEW t, WindowsOK(s),
           t.obeyed = [i \in Ages |-> IF i = 0 THEN 0 ELSE s.obeyed[i - 1]],
           t.age = AtMost(Second, s.age + 1), t.count = s.count
    PROVE  WindowsOK(t) /\ t.obeyed \in [Ages -> 0 .. MaxCommands]
<1>1. /\ s.age \in 0 .. Second /\ s.count \in Nat /\ s.obeyed \in [Ages -> 0 .. MaxCommands]
      /\ t.age = IF s.age < Second THEN s.age + 1 ELSE Second
  BY Numbers DEF Session, AtMost
<1>2. ASSUME NEW S \in SUBSET Ages, NEW T \in SUBSET Ages, \A i \in T : i > 0 => i - 1 \in S
      PROVE  Cardinality(ObeyedAt(t, T)) <= Cardinality(ObeyedAt(s, S))
  <2> DEFINE f == [p \in ObeyedAt(t, T) |-> <<p[1] - 1, p[2]>>]
  <2>1. ASSUME NEW p \in ObeyedAt(t, T)
        PROVE  /\ p = <<p[1], p[2]>> /\ p[1] \in Nat /\ p[1] > 0
               /\ <<p[1] - 1, p[2]>> \in ObeyedAt(s, S)
    <3>1. p \in T \X (1 .. MaxCommands) /\ p[2] <= t.obeyed[p[1]]
      BY DEF ObeyedAt
    <3>2. p = <<p[1], p[2]>> /\ p[1] \in T /\ p[1] \in Ages /\ p[2] \in 1 .. MaxCommands
      BY <3>1
    <3>3. p[1] # 0
      BY <3>1, <3>2, Numbers
    <3>4. p[1] > 0 /\ p[1] \in Nat /\ t.obeyed[p[1]] = s.obeyed[p[1] - 1]
      BY <3>2, <3>3, Numbers DEF Ages
    <3>5. p[1] - 1 \in S
      BY <1>2, <3>2, <3>4
    <3>6. QED BY <3>1, <3>2, <3>4, <3>5 DEF ObeyedAt
  <2>2. f \in [ObeyedAt(t, T) -> ObeyedAt(s, S)]
    BY <2>1
  <2>3. ASSUME NEW p \in ObeyedAt(t, T), NEW q \in ObeyedAt(t, T), f[p] = f[q] PROVE p = q
    <3>1. p[1] - 1 = q[1] - 1 /\ p[2] = q[2]
      BY <2>3
    <3>2. p[1] \in Nat /\ q[1] \in Nat
      BY <2>1
    <3>3. p[1] = q[1]
      BY <3>1, <3>2
    <3>4. QED BY <2>1, <3>1, <3>3
  <2>4. f \in Injection(ObeyedAt(t, T), ObeyedAt(s, S))
    BY <2>2, <2>3 DEF Injection, IsInjective
  <2>5. QED BY <2>4, ObeyedFinite, FS_Injection
<1>3. ASSUME NEW i \in Now(t), i > 0 PROVE i - 1 \in Now(s)
  <2>1. i \in Nat /\ i <= Second - 1 /\ i <= t.age
    BY Limits DEF Now, Ages
  <2>2. i - 1 \in Ages /\ i - 1 <= s.age
    BY <1>1, <1>3, <2>1, Limits DEF Ages
  <2>3. QED BY <2>2 DEF Now
<1>4. ASSUME NEW i \in Before(t), i > 0 PROVE i - 1 \in Before(s)
  <2>1. i \in Nat /\ i <= Second - 1 /\ i > t.age
    BY Limits DEF Before, Ages
  <2>2. i - 1 \in Ages /\ i - 1 > s.age
    BY <1>1, <1>4, <2>1, Limits DEF Ages
  <2>3. QED BY <2>2 DEF Before
<1>5. /\ Cardinality(ObeyedAt(t, Now(t))) <= Cardinality(ObeyedAt(s, Now(s)))
      /\ Cardinality(ObeyedAt(t, Before(t))) <= Cardinality(ObeyedAt(s, Before(s)))
  BY <1>2, <1>3, <1>4, WindowsAre
<1>6. /\ Cardinality(ObeyedAt(t, Now(t))) \in Nat /\ Cardinality(ObeyedAt(t, Before(t))) \in Nat
      /\ Cardinality(ObeyedAt(s, Now(s))) \in Nat /\ Cardinality(ObeyedAt(s, Before(s))) \in Nat
  BY ObeyedFinite, WindowsAre
<1>7. t.obeyed[0] = 0 /\ 0 <= t.count
  BY <1>1, Numbers
<1>8. WindowsOK(t)
  BY <1>1, <1>5, <1>6, <1>7, Numbers DEF WindowsOK
<1>9. ASSUME NEW i \in Ages PROVE (IF i = 0 THEN 0 ELSE s.obeyed[i - 1]) \in 0 .. MaxCommands
  <2>1. CASE i = 0
    BY <2>1, Limits
  <2>2. CASE i # 0
    <3>1. i - 1 \in Ages
      BY <2>2, Limits DEF Ages
    <3>2. QED BY <1>1, <2>2, <3>1
  <2>3. QED BY <2>1, <2>2
<1>10. QED BY <1>8, <1>9

\* A command is looked at.
LEMMA WindowsHeard ==
    ASSUME session \in Session, WindowsOK(session)
    PROVE  WindowsOK(Heard) /\ Heard \in Session
<1> DEFINE s == session
           t == Heard
<1>0. ASSUME NEW age \in 0 .. Second, NEW count \in 0 .. MaxCommands + 1,
              NEW obeyed \in [Ages -> 0 .. MaxCommands]
       PROVE  [s EXCEPT !.age = age, !.count = count, !.obeyed = obeyed] \in Session
  BY DEF Session
<1>1. /\ s.age \in 0 .. Second /\ s.count \in 0 .. MaxCommands + 1
      /\ s.obeyed \in [Ages -> 0 .. MaxCommands]
  BY DEF Session
<1>2. /\ t.age = (IF s.age >= Second THEN 0 ELSE s.age) /\ t.count = CountNow
      /\ t.obeyed = [s.obeyed EXCEPT ![0] = IF CountNow > MaxCommands THEN @ ELSE @ + 1]
      /\ t = [s EXCEPT !.age = t.age, !.count = t.count, !.obeyed = t.obeyed]
  BY DEF Heard, Session
<1>3. CountNow = IF s.age >= Second THEN 1
                 ELSE IF s.count + 1 < MaxCommands + 1 THEN s.count + 1 ELSE MaxCommands + 1
  BY DEF CountNow, AtMost
<1>4. CountNow \in 1 .. MaxCommands + 1
  BY <1>1, <1>3, Limits
<1>5. /\ Cardinality(ObeyedAt(s, Now(s))) \in Nat /\ Cardinality(ObeyedAt(s, Before(s))) \in Nat
      /\ Cardinality(ObeyedAt(t, Now(t))) \in Nat /\ Cardinality(ObeyedAt(t, Before(t))) \in Nat
  BY ObeyedFinite, WindowsAre
<1>6. s.obeyed[0] \in Nat /\ s.obeyed[0] <= s.count
  BY <1>1, Limits DEF WindowsOK
<1> HIDE DEF s, t
<1>7. CASE CountNow > MaxCommands
  <2>1. t.obeyed = s.obeyed /\ t.age = s.age /\ s.age < Second /\ t.count = MaxCommands + 1
    BY <1>1, <1>2, <1>3, <1>4, <1>7, Limits
  <2>2. Now(t) = Now(s) /\ Before(t) = Before(s)
    BY <2>1 DEF Now, Before
  <2>3. \A S : ObeyedAt(t, S) = ObeyedAt(s, S)
    BY <2>1 DEF ObeyedAt
  <2>4. t.obeyed[0] <= t.count
    BY <1>1, <2>1, Limits
  <2>5. /\ Cardinality(ObeyedAt(s, Now(s))) <= MaxCommands
        /\ Cardinality(ObeyedAt(s, Before(s))) <= MaxCommands
    BY DEF WindowsOK, s
  <2>6. WindowsOK(t)
    BY <1>5, <2>1, <2>2, <2>3, <2>4, <2>5, Limits DEF WindowsOK
  <2>7. t \in Session
    <3>1. /\ t.age \in 0 .. Second /\ t.count \in 0 .. MaxCommands + 1
          /\ t.obeyed \in [Ages -> 0 .. MaxCommands]
      BY <1>1, <1>2, <1>4, <2>1, Limits
    <3>2. [s EXCEPT !.age = t.age, !.count = t.count, !.obeyed = t.obeyed] \in Session
      BY <1>0, <3>1
    <3>3. t = [s EXCEPT !.age = t.age, !.count = t.count, !.obeyed = t.obeyed]
      BY <1>2
    <3>4. QED BY <3>2, <3>3, Zenon
  <2>8. QED BY <2>6, <2>7 DEF t
<1>8. CASE CountNow <= MaxCommands
  <2> DEFINE k == s.obeyed[0] + 1
  <2>1. t.obeyed = [s.obeyed EXCEPT ![0] = k]
    BY <1>2, <1>4, <1>8, Limits
  <2>2. s.age >= Second => s.obeyed[0] = 0
    BY <1>1, Limits DEF WindowsOK, s
  <2>3. k \in 1 .. MaxCommands /\ k <= t.count
    BY <1>1, <1>2, <1>3, <1>6, <1>8, <2>2, Limits
  <2>4. t.obeyed \in [Ages -> 0 .. MaxCommands] /\ t.obeyed[0] = k
        /\ \A i \in Ages \ {0} : t.obeyed[i] = s.obeyed[i]
    BY <1>1, <2>1, <2>3, Limits
  <2>5. t.age \in 0 .. Second /\ t.age < Second
    BY <1>1, <1>2, Limits
  <2>6. WindowsOK(t)
    <3>1. CASE s.age >= Second
      <4>1. Now(t) = {0} /\ k = 1 /\ t.count = 1
        BY <1>2, <1>3, <2>2, <3>1, Limits DEF Now, Ages
      <4>2. ObeyedAt(t, Now(t)) \subseteq {<<0, 1>>}
        BY <2>3, <2>4, <4>1, Limits DEF ObeyedAt
      <4>3. IsFiniteSet({<<0, 1>>}) /\ Cardinality({<<0, 1>>}) = 1
        BY FS_Singleton
      <4>4. Cardinality(ObeyedAt(t, Now(t))) <= 1
        BY <4>2, <4>3, FS_Subset
      <4>5. Before(t) \subseteq Ages \ {0} /\ Now(s) = Ages
        BY <1>1, <1>2, <3>1, Limits DEF Before, Now, Ages
      <4>6. ObeyedAt(t, Before(t)) \subseteq ObeyedAt(s, Now(s))
        BY <2>4, <4>5 DEF ObeyedAt
      <4>7. Cardinality(ObeyedAt(t, Before(t))) <= Cardinality(ObeyedAt(s, Now(s)))
        BY <4>6, ObeyedFewer, WindowsAre
      <4>8. Cardinality(ObeyedAt(s, Now(s))) <= MaxCommands
        BY DEF WindowsOK, s
      <4>9. QED BY <1>5, <2>3, <2>4, <2>5, <4>1, <4>4, <4>7, <4>8, Limits DEF WindowsOK
    <3>2. CASE s.age < Second
      <4>1. /\ Now(t) = Now(s) /\ Before(t) = Before(s) /\ t.count = s.count + 1
            /\ 0 \in Now(s) /\ 0 \notin Before(s)
        BY <1>1, <1>2, <1>3, <1>8, <3>2, Limits DEF Now, Before, Ages
      <4>2. ObeyedAt(t, Now(t)) \subseteq ObeyedAt(s, Now(s)) \cup {<<0, k>>}
        <5>1. ASSUME NEW p \in ObeyedAt(t, Now(t)) PROVE p \in ObeyedAt(s, Now(s)) \/ p = <<0, k>>
          <6>1. p \in Now(s) \X (1 .. MaxCommands) /\ p[2] <= t.obeyed[p[1]]
            BY <4>1 DEF ObeyedAt
          <6>2. p = <<p[1], p[2]>> /\ p[1] \in Ages /\ p[2] \in Nat
            BY <6>1, WindowsAre
          <6>3. CASE p[1] = 0
            BY <1>6, <2>4, <6>1, <6>2, <6>3 DEF ObeyedAt
          <6>4. CASE p[1] # 0
            BY <2>4, <6>1, <6>2, <6>4 DEF ObeyedAt
          <6>5. QED BY <6>3, <6>4
        <5>2. QED BY <5>1
      <4>3. /\ IsFiniteSet(ObeyedAt(s, Now(s)) \cup {<<0, k>>})
            /\ Cardinality(ObeyedAt(s, Now(s)) \cup {<<0, k>>}) \in Nat
            /\ Cardinality(ObeyedAt(s, Now(s)) \cup {<<0, k>>}) <= Cardinality(ObeyedAt(s, Now(s))) + 1
        <5>1. IsFiniteSet(ObeyedAt(s, Now(s)))
          BY ObeyedFinite, WindowsAre
        <5>2. /\ IsFiniteSet(ObeyedAt(s, Now(s)) \cup {<<0, k>>})
              /\ Cardinality(ObeyedAt(s, Now(s)) \cup {<<0, k>>}) =
                    IF <<0, k>> \in ObeyedAt(s, Now(s)) THEN Cardinality(ObeyedAt(s, Now(s)))
                    ELSE Cardinality(ObeyedAt(s, Now(s))) + 1
          BY <5>1, FS_AddElement
        <5>3. QED BY <1>5, <5>2
      <4>4. Cardinality(ObeyedAt(t, Now(t))) <= Cardinality(ObeyedAt(s, Now(s))) + 1
        <5>1. Cardinality(ObeyedAt(t, Now(t))) <= Cardinality(ObeyedAt(s, Now(s)) \cup {<<0, k>>})
          BY <4>2, <4>3, FS_Subset
        <5>2. QED BY <1>5, <4>3, <5>1
      <4>5. ObeyedAt(t, Before(t)) = ObeyedAt(s, Before(s))
        <5>1. \A i \in Before(s) : t.obeyed[i] = s.obeyed[i]
          BY <2>4, <4>1, WindowsAre
        <5>2. QED BY <4>1, <5>1 DEF ObeyedAt
      <4>6. /\ Cardinality(ObeyedAt(s, Now(s))) <= s.count
            /\ Cardinality(ObeyedAt(s, Before(s))) <= MaxCommands
        BY DEF WindowsOK, s
      <4>7. t.count <= MaxCommands /\ t.count \in Nat /\ s.count \in Nat
        BY <1>1, <1>2, <1>4, <1>8, Limits
      <4>8. QED BY <1>5, <2>3, <2>4, <2>5, <4>1, <4>4, <4>5, <4>6, <4>7, Limits DEF WindowsOK
    <3>3. QED BY <1>1, <3>1, <3>2, Limits
  <2>7. t \in Session
    <3>1. /\ t.age \in 0 .. Second /\ t.count \in 0 .. MaxCommands + 1
          /\ t.obeyed \in [Ages -> 0 .. MaxCommands]
      BY <1>2, <1>4, <2>4, <2>5, Limits
    <3>2. [s EXCEPT !.age = t.age, !.count = t.count, !.obeyed = t.obeyed] \in Session
      BY <1>0, <3>1
    <3>3. t = [s EXCEPT !.age = t.age, !.count = t.count, !.obeyed = t.obeyed]
      BY <1>2
    <3>4. QED BY <3>2, <3>3, Zenon
  <2>8. QED BY <2>6, <2>7 DEF t
<1>9. QED BY <1>4, <1>7, <1>8, Limits
-----------------------------------------------------------------------------
(* The steps of a session. *)

LEMMA FreshOK ==
    /\ SessionOK(Fresh)
    /\ \A p \in Phases : p # "frame" => SessionOK([Fresh EXCEPT !.phase = p])
<1>1. Fresh \in Session
  BY Numbers DEF Fresh, Session, Scenarios, Ages, Phases
<1>2. /\ Fresh.obeyed = [i \in Ages |-> 0] /\ Fresh.age = 0 /\ Fresh.count = 0
      /\ Fresh.phase = "none"
  BY DEF Fresh, Ages
<1>3. WindowsOK(Fresh)
  BY <1>2, FreshWindows
<1>4. ASSUME NEW p \in Phases, p # "frame" PROVE SessionOK([Fresh EXCEPT !.phase = p])
  <2> DEFINE t == [Fresh EXCEPT !.phase = p]
  <2>1. /\ t \in Session /\ t.phase = p
        /\ t.obeyed = Fresh.obeyed /\ t.age = Fresh.age /\ t.count = Fresh.count
    BY <1>1 DEF Session
  <2> HIDE DEF t
  <2>2. WindowsOK(t)
    BY <1>3, <2>1, WindowsKept
  <2>3. SessionOK(t)
    BY <1>4, <2>1, <2>2 DEF SessionOK, FrameOK
  <2>4. QED BY <2>3 DEF t
<1>5. QED BY <1>1, <1>2, <1>3, <1>4 DEF SessionOK, FrameOK

\* Nothing that either part of the invariant speaks of changes.
LEMMA Goes ==
    ASSUME SessionOK(session), NEW t \in Session,
           t.obeyed = session.obeyed, t.age = session.age, t.count = session.count,
           t.phase # "frame"
    PROVE  SessionOK(t)
BY WindowsKept DEF SessionOK, FrameOK

LEMMA EnterKeeps ==
    ASSUME SessionOK(session), NEW p \in Phases, p # "frame", Enter(p)
    PROVE  SessionOK(session')
<1>1. session \in Session /\ session' = [session EXCEPT !.phase = p, !.send = SendTimeout]
  BY DEF SessionOK, Enter, Become
<1>2. /\ session' \in Session /\ session'.phase = p /\ session'.obeyed = session.obeyed
      /\ session'.age = session.age /\ session'.count = session.count
  BY <1>1, Numbers DEF Session
<1>3. QED BY <1>2, Goes

LEMMA OnwardType ==
    ASSUME session \in Session
    PROVE  Onward \in 1 .. Len(Sky)
<1>1. session.at \in Nat /\ session.at >= 1 /\ session.quiet \in Nat /\ session.speed \in Nat
  BY Numbers DEF Session
<1>2. AtMost(Second, session.quiet) \in Nat
  BY <1>1, Numbers DEF AtMost
<1>3. AtMost(Second, session.quiet) * session.speed \in Nat
  BY <1>1, <1>2
<1>4. PICK n \in Nat : n = session.at - 1 + AtMost(Second, session.quiet) * session.speed
  BY <1>1, <1>3
<1>5. n % Len(Sky) \in 0 .. Len(Sky) - 1
  BY Numbers
<1>6. QED BY <1>4, <1>5, Numbers DEF Onward

\* A frame is flagged at the place the simulation came to.
LEMMA TickKeeps ==
    ASSUME SessionOK(session), TickDue
    PROVE  SessionOK(session')
<1>1. session \in Session
  BY DEF SessionOK
<1>2. CASE Enter("error")
  BY <1>2, EnterKeeps DEF Phases
<1>3. ASSUME NEW n \in {-1, 1}, Become(Step(n)) PROVE SessionOK(session')
  <2> DEFINE F == Flags(Measured(session.scenario, Sky[Onward], n), session.mask, Sky[Onward])
  <2>1. session' = [session EXCEPT !.phase = "frame", !.send = SendTimeout,
                                   !.ready = FALSE, !.quiet = 0, !.at = Onward, !.flags = F]
    BY <1>3 DEF Become, Step, Judged
  <2>2. F \in SUBSET Alarms
    <3>1. ASSUME NEW c \in F PROVE c \in Alarms
      BY FlagsAre DEF Alarms
    <3>2. QED BY <3>1
  <2> HIDE DEF F
  <2>3. /\ session' \in Session /\ session'.obeyed = session.obeyed
        /\ session'.age = session.age /\ session'.count = session.count
        /\ session'.flags = F /\ session'.at = Onward
        /\ session'.scenario = session.scenario /\ session'.mask = session.mask
    BY <1>1, <2>1, <2>2, OnwardType, Numbers DEF Session, Phases
  <2>4. WindowsOK(session')
    BY <2>3, WindowsKept DEF SessionOK
  <2>5. FrameOK(session')
    BY <1>3, <2>3 DEF FrameOK, F
  <2>6. QED BY <2>3, <2>4, <2>5 DEF SessionOK
<1>4. QED BY <1>2, <1>3 DEF TickDue

LEMMA FailedKeeps ==
    ASSUME SessionOK(session), Failed
    PROVE  SessionOK(session')
<1>1. CASE Become(Over)
  BY <1>1, FreshOK DEF Become, Over, Phases
<1>2. CASE Enter("closing")
  BY <1>2, EnterKeeps DEF Phases
<1>3. QED BY <1>1, <1>2 DEF Failed

LEMMA LoopingKeeps ==
    ASSUME SessionOK(session), Become(Looping)
    PROVE  SessionOK(session')
<1>1. session \in Session /\ session' = [session EXCEPT !.phase = "loop", !.send = SendTimeout]
  BY DEF SessionOK, Become, Looping
<1>2. /\ session' \in Session /\ session'.phase = "loop" /\ session'.obeyed = session.obeyed
      /\ session'.age = session.age /\ session'.count = session.count
  BY <1>1, Numbers DEF Session, Phases
<1>3. QED BY <1>2, Goes

LEMMA SentKeeps ==
    ASSUME SessionOK(session), Sent
    PROVE  SessionOK(session')
<1>1. session \in Session
  BY DEF SessionOK
<1>2. CASE Become([Fresh EXCEPT !.phase = "loop"])
  BY <1>2, FreshOK DEF Become, Phases
<1>3. CASE Become([session EXCEPT !.phase = "tick", !.flags = {}, !.send = SendTimeout])
  <2>1. /\ session' \in Session /\ session'.phase = "tick" /\ session'.obeyed = session.obeyed
        /\ session'.age = session.age /\ session'.count = session.count
    BY <1>1, <1>3, Numbers DEF Session, Become, Phases
  <2>2. QED BY <2>1, Goes
<1>4. CASE Become(Looping)
  BY <1>4, LoopingKeeps
<1>5. CASE Enter("closing")
  BY <1>5, EnterKeeps DEF Phases
<1>6. CASE Become(Over)
  BY <1>6, FreshOK DEF Become, Over, Phases
<1>7. QED BY <1>2, <1>3, <1>4, <1>5, <1>6 DEF Sent

LEMMA TextKeeps ==
    ASSUME SessionOK(session), scene \in Scenes, NEW c \in scene.commands, Text(c)
    PROVE  SessionOK(session')
<1>1. session \in Session /\ WindowsOK(session) /\ session.phase = "loop"
  BY DEF SessionOK, Text
<1>2. WindowsOK(Heard) /\ Heard \in Session
  BY <1>1, WindowsHeard
<1>3. Heard.phase = "loop"
  BY <1>1 DEF Heard, Session
<1>4. ASSUME NEW t \in Session, session' = t, t.phase = "loop",
             t.obeyed = Heard.obeyed, t.age = Heard.age, t.count = Heard.count
      PROVE  SessionOK(session')
  BY <1>2, <1>4, WindowsKept DEF SessionOK, FrameOK
<1>5. CASE session' = Heard
  BY <1>2, <1>3, <1>4, <1>5
<1>6. CASE session' = Obeyed(Heard, c)
  <2>1. /\ c.cmd = "scenario" => c.value \in Scenarios
        /\ c.cmd = "speed" => c.value \in Int
        /\ c.cmd = "horizon_mask" => c.enabled \in BOOLEAN
    BY SandboxAssumption
  <2>2. PICK s : s = Heard
    OBVIOUS
  <2>3. s \in Session /\ s.phase = "loop" /\ session' = Obeyed(s, c)
    BY <1>2, <1>3, <1>6, <2>2
  <2>4. CASE c.cmd = "scenario"
    <3>1. session' = [s EXCEPT !.scenario = c.value]
      BY <2>3, <2>4 DEF Obeyed
    <3>2. /\ session' \in Session /\ session'.phase = "loop" /\ session'.obeyed = s.obeyed
          /\ session'.age = s.age /\ session'.count = s.count
      BY <2>1, <2>3, <2>4, <3>1 DEF Session
    <3>3. QED BY <1>4, <2>2, <3>2
  <2>5. CASE c.cmd = "speed"
    <3>1. session' = [s EXCEPT !.speed = IF c.value < 1 THEN 1 ELSE AtMost(MaxSpeed, c.value)]
      BY <2>3, <2>5 DEF Obeyed
    <3>2. (IF c.value < 1 THEN 1 ELSE AtMost(MaxSpeed, c.value)) \in 1 .. MaxSpeed
      BY <2>1, <2>5, Numbers DEF AtMost
    <3>3. /\ session' \in Session /\ session'.phase = "loop" /\ session'.obeyed = s.obeyed
          /\ session'.age = s.age /\ session'.count = s.count
      BY <2>3, <3>1, <3>2 DEF Session
    <3>4. QED BY <1>4, <2>2, <3>3
  <2>6. CASE c.cmd = "horizon_mask"
    <3>1. session' = [s EXCEPT !.mask = c.enabled]
      BY <2>3, <2>6 DEF Obeyed
    <3>2. /\ session' \in Session /\ session'.phase = "loop" /\ session'.obeyed = s.obeyed
          /\ session'.age = s.age /\ session'.count = s.count
      BY <2>1, <2>3, <2>6, <3>1 DEF Session
    <3>3. QED BY <1>4, <2>2, <3>2
  <2>7. CASE c.cmd = "reset"
    <3>0. 1 \in 1 .. Len(Sky) /\ "nominal" \in Scenarios
      BY Numbers DEF Scenarios
    <3>1. session' = [s EXCEPT !.at = 1, !.scenario = "nominal"]
      BY <2>3, <2>7 DEF Obeyed
    <3>2. /\ session' \in Session /\ session'.phase = "loop" /\ session'.obeyed = s.obeyed
          /\ session'.age = s.age /\ session'.count = s.count
      BY <2>3, <3>1, <3>0 DEF Session
    <3>3. QED BY <1>4, <2>2, <3>2
  <2>8. CASE c.cmd \notin {"scenario", "speed", "horizon_mask", "reset"}
    <3>1. session' = s
      BY <2>3, <2>8 DEF Obeyed
    <3>2. QED BY <1>5, <2>2, <3>1
  <2>9. QED BY <2>4, <2>5, <2>6, <2>7, <2>8
<1>7. QED BY <1>5, <1>6 DEF Text, Become

LEMMA PassKeeps ==
    ASSUME SessionOK(session), Pass
    PROVE  SessionOK(session')
<1>1. session \in Session /\ WindowsOK(session) /\ FrameOK(session)
  BY DEF SessionOK
<1>2. \A n \in Nat : Down(n) \in Nat
  BY DEF Down
<1>3. ASSUME session' \in Session, session'.phase = session.phase,
             session'.flags = session.flags, session'.at = session.at,
             session'.scenario = session.scenario, session'.mask = session.mask
      PROVE  FrameOK(session')
  BY <1>1, <1>3 DEF FrameOK
<1>4. CASE session.phase \in InLoop
  <2> DEFINE O == [i \in Ages |-> IF i = 0 THEN 0 ELSE session.obeyed[i - 1]]
             send == IF session.phase \in Timed THEN Down(session.send) ELSE session.send
  <2>1. DOMAIN session.obeyed = Ages
    BY <1>1 DEF Session
  <2>2. session' = [session EXCEPT
                      !.left = Down(@), !.ready = TRUE,
                      !.quiet = AtMost(Second, @ + 1), !.age = AtMost(Second, @ + 1),
                      !.send = send, !.obeyed = O]
    BY <1>1, <1>4, <2>1 DEF Pass, Become, Session
  <2>3. send \in Nat
    BY <1>1, <1>2 DEF Session
  <2> HIDE DEF O, send
  <2>4. /\ session'.obeyed = O /\ session'.age = AtMost(Second, session.age + 1)
        /\ session'.count = session.count /\ session'.phase = session.phase
        /\ session'.flags = session.flags /\ session'.at = session.at
        /\ session'.scenario = session.scenario /\ session'.mask = session.mask
    BY <1>1, <2>2 DEF Session
  <2>5. WindowsOK(session') /\ O \in [Ages -> 0 .. MaxCommands]
    <3>1. PICK t : t = session'
      OBVIOUS
    <3>2. WindowsOK(t) /\ t.obeyed \in [Ages -> 0 .. MaxCommands]
      BY <1>1, <2>4, <3>1, WindowsPass DEF O
    <3>3. QED BY <2>4, <3>1, <3>2
  <2>6. /\ session.left \in Nat /\ session.quiet \in Nat /\ session.age \in 0 .. Second
    BY <1>1 DEF Session
  <2>7. /\ Down(session.left) \in Nat
        /\ AtMost(Second, session.quiet + 1) \in Nat /\ AtMost(Second, session.age + 1) \in 0 .. Second
    BY <1>2, <2>6, Limits DEF AtMost
  <2>8. session' \in Session
    BY <1>1, <2>2, <2>3, <2>5, <2>7 DEF Session
  <2>9. QED BY <1>3, <2>4, <2>5, <2>8 DEF SessionOK
<1>5. CASE session.phase \notin InLoop
  <2>1. session' = [session EXCEPT !.send = Down(@)]
    BY <1>5 DEF Pass, Become
  <2>2. Down(session.send) \in Nat
    BY <1>1, <1>2 DEF Session
  <2>3. /\ session' \in Session /\ session'.obeyed = session.obeyed /\ session'.age = session.age
        /\ session'.count = session.count /\ session'.phase = session.phase
        /\ session'.flags = session.flags /\ session'.at = session.at
        /\ session'.scenario = session.scenario /\ session'.mask = session.mask
    BY <1>1, <2>1, <2>2 DEF Session
  <2>4. WindowsOK(session')
    BY <1>1, <2>3, WindowsKept
  <2>5. QED BY <1>3, <2>3, <2>4 DEF SessionOK
<1>6. QED BY <1>4, <1>5

LEMMA SessionStep == SessionInv /\ [SandboxNext]_sandboxVars => SessionInv'
<1> SUFFICES ASSUME SessionInv, [SandboxNext]_sandboxVars PROVE SessionInv'
  OBVIOUS
<1>1. scene \in Scenes /\ SessionOK(session)
  BY DEF SessionInv
<1>2. scene' = scene
  BY DEF SandboxNext, sandboxVars, Others, Watching, LeaveWatched, Begin, TickDue, Deadline,
         Pass, Sent, PongSent, CloseSent, Timeout, Lost, Text, MaskFails, Ping,
         VisitorLeaves, Become, Enter, Failed
<1>3. SessionOK(session')
  <2>1. CASE UNCHANGED session
    <3>1. QED BY <1>1, <2>1 DEF SessionOK, FrameOK, WindowsOK, ObeyedAt, Now, Before
  <2>2. CASE LeaveWatched
    BY <2>2, FreshOK DEF LeaveWatched
  <2>3. CASE Begin \/ Deadline
    BY <1>1, <2>3, EnterKeeps DEF Begin, Deadline, Phases
  <2>4. CASE TickDue
    BY <1>1, <2>4, TickKeeps
  <2>5. CASE Pass
    BY <1>1, <2>5, PassKeeps
  <2>6. CASE Sent
    BY <1>1, <2>6, SentKeeps
  <2>7. CASE PongSent
    BY <1>1, <2>7, LoopingKeeps DEF PongSent
  <2>8. CASE CloseSent \/ VisitorLeaves \/ (\E c \in scene.commands : MaskFails(c))
    BY <2>8, FreshOK DEF CloseSent, VisitorLeaves, MaskFails, Become, Over, Phases
  <2>9. CASE Timeout \/ Lost
    BY <1>1, <2>9, FailedKeeps DEF Timeout, Lost
  <2>10. CASE \E c \in scene.commands : Text(c)
    BY <1>1, <2>10, TextKeeps
  <2>11. CASE Ping
    <3>1. session \in Session /\ session' = [session EXCEPT !.phase = "pong"]
      BY <1>1, <2>11 DEF SessionOK, Ping, Become
    <3>2. /\ session' \in Session /\ session'.phase = "pong" /\ session'.obeyed = session.obeyed
          /\ session'.age = session.age /\ session'.count = session.count
      BY <3>1 DEF Session, Phases
    <3>3. QED BY <1>1, <3>2, Goes
  <2>12. QED
    BY <2>1, <2>2, <2>3, <2>4, <2>5, <2>6, <2>7, <2>8, <2>9, <2>10, <2>11
       DEF SandboxNext, sandboxVars, Others, Watching
<1>4. QED BY <1>1, <1>2, <1>3 DEF SessionInv

\* A frame under way was flagged by what the session still says, and what was obeyed
\* within a second falls into two windows at most, each within the limit
\* (SessionSim::step, run_session).
THEOREM SessionInvariance == SandboxSpec => []SessionInv
<1>1. SandboxInit => SessionInv
  BY FreshOK DEF SandboxInit, SessionInv
<1>2. QED BY <1>1, SessionStep, PTL DEF SandboxSpec

\* Whatever is commanded in whatever order, at every place of any orbit a frame
\* raises the alarms of its scenario and no other, but for the two documented blind
\* spots (SCENARIOS, SessionSim::step).
THEOREM ScenariosPerturbOneThing == SandboxSpec => []PerturbsOneThing
<1>1. SessionInv => PerturbsOneThing
  <2> SUFFICES ASSUME SessionInv, session.phase = "frame"
               PROVE  LET alarms == session.flags \ {"horizon"}
                          expected == ExpectedBits[session.scenario]
                          there == Sky[session.at]
                      IN /\ alarms \subseteq expected
                         /\ \/ alarms = expected
                            \/ session.scenario = "full_power_claim" /\ there.illum >= 5
                            \/ session.scenario = "pointing_error" /\ there.zenith <= 25
                         /\ "horizon" \in session.flags <=> session.mask /\ ~there.up
    BY DEF PerturbsOneThing
  <2>1. /\ session.scenario \in Scenarios /\ session.mask \in BOOLEAN
        /\ Sky[session.at] \in Spot
    BY Numbers DEF SessionInv, SessionOK, Session
  <2>2. PICK n \in {-1, 1} :
           session.flags = Flags(Measured(session.scenario, Sky[session.at], n), session.mask,
                                 Sky[session.at])
    BY DEF SessionInv, SessionOK, FrameOK
  <2>3. QED BY <2>1, <2>2, ScenarioShows
<1>2. QED BY <1>1, SessionInvariance, PTL

\* Whatever a visitor sends, within any second, wherever it lies to the windows, it is
\* obeyed at most twice as often as the limit allows (run_session).
THEOREM TwiceTheLimitAtMost == SandboxSpec => []TwiceTheLimit
<1>1. SessionInv => Cardinality(ObeyedLately) <= 2 * MaxCommands
  <2> SUFFICES ASSUME SessionInv PROVE Cardinality(ObeyedLately) <= 2 * MaxCommands
    OBVIOUS
  <2> DEFINE N == ObeyedAt(session, Now(session))
             B == ObeyedAt(session, Before(session))
  <2>1. /\ session.obeyed \in [Ages -> 0 .. MaxCommands] /\ session.age \in 0 .. Second
        /\ Cardinality(N) <= MaxCommands /\ Cardinality(B) <= MaxCommands
    BY DEF SessionInv, SessionOK, Session, WindowsOK
  <2>2. IsFiniteSet(N) /\ IsFiniteSet(B) /\ Cardinality(N) \in Nat /\ Cardinality(B) \in Nat
    BY ObeyedFinite, WindowsAre
  <2>3. ObeyedLately \subseteq N \cup B
    <3>1. ASSUME NEW i \in Ages, NEW k \in 1 .. session.obeyed[i] PROVE <<i, k>> \in N \cup B
      <4>1. i \in Now(session) \/ i \in Before(session)
        BY <2>1, Numbers DEF Now, Before, Ages
      <4>2. k \in 1 .. MaxCommands /\ k <= session.obeyed[i]
        BY <2>1, <3>1, Numbers
      <4>3. QED BY <4>1, <4>2 DEF ObeyedAt
    <3>2. DOMAIN session.obeyed = Ages
      BY <2>1
    <3>3. QED BY <3>1, <3>2 DEF ObeyedLately
  <2>4. /\ IsFiniteSet(N \cup B) /\ Cardinality(N \cup B) \in Nat
        /\ Cardinality(N \cup B) <= Cardinality(N) + Cardinality(B)
    <3>1. IsFiniteSet(N \cap B)
      BY <2>2, FS_Intersection
    <3>2. Cardinality(N \cap B) \in Nat
      BY <3>1, FS_CardinalityType
    <3>3. /\ IsFiniteSet(N \cup B)
          /\ Cardinality(N \cup B) = Cardinality(N) + Cardinality(B) - Cardinality(N \cap B)
      BY <2>2, FS_Union
    <3>4. QED BY <2>2, <3>2, <3>3, FS_CardinalityType
  <2>5. IsFiniteSet(ObeyedLately) /\ Cardinality(ObeyedLately) <= Cardinality(N \cup B)
    BY <2>3, <2>4, FS_Subset
  <2>6. Cardinality(ObeyedLately) \in Nat
    BY <2>5, FS_CardinalityType
  <2>7. QED BY <2>1, <2>2, <2>4, <2>5, <2>6, Numbers
<1>2. QED BY <1>1, SessionInvariance, PTL DEF TwiceTheLimit

\* However many come together, and however their sessions end, sessions are as many as
\* allowed, in all and of one address (AppState::admit, SessionGuard::drop).
THEOREM SandboxKeepsCaps == SandboxSpec => []CapsHold
BY SandboxLeaksNothing, PTL
=============================================================================
