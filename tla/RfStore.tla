------------------------------- MODULE RfStore -------------------------------
(***************************************************************************)
(* The receiver side channel, crates/gateway/src/rf.rs: the listener puts  *)
(* every valid chronus.rf.v1 sample into a bounded deque, and the          *)
(* processing of a frame looks for the sample nearest its receive time.    *)
(*                                                                         *)
(* Time is an integer.  What the receiver measures changes with the orbit, *)
(* by at most one unit of every quantity per unit of time; a measurement   *)
(* taken at `at' with error e reads at + e, in these units.  `at' is known *)
(* to the model only: the program has the stamp t.                         *)
(***************************************************************************)
EXTENDS Integers, Sequences

CONSTANTS
    None,        \* no value
    RfOn,        \* rf.bind_addr is set
    RfCapacity,  \* rf.capacity
    Window,      \* rf.window_ms
    RfChecks,    \* what a sample may measure: doppler, link, pointing
    RfSamples,   \* samples receivers send: [delay, stamped, err]
    RfDelay      \* longest time from a measurement to its arrival

Entry == [t : Int, at : Int, err : [RfChecks -> Int \cup {None}]]

ASSUME RfAssumption ==
    /\ RfOn \in BOOLEAN
    /\ RfCapacity \in Nat /\ Window \in Nat /\ RfDelay \in Nat
    /\ None \notin Int \cup Entry
    /\ RfChecks \subseteq {"doppler", "link", "pointing"}
    /\ RfSamples \subseteq [delay : 0..RfDelay, stamped : BOOLEAN,
                            err : [RfChecks -> Int \cup {None}]]

VARIABLES
    entries,  \* RfStore.entries: [t, at, err] in order of arrival
    rf,       \* RfStore.stats; samples_invalid is left out
    arrived   \* every entry that was ever stored, in order

rfVars == <<entries, rf, arrived>>

Distance(a, b) == IF a < b THEN b - a ELSE a - b

RfInit ==
    /\ entries = <<>> /\ arrived = <<>>
    /\ rf = [received |-> 0, evicted |-> 0, matched |-> 0, unmatched |-> 0]

-----------------------------------------------------------------------------
(* The listener. *)

\* RfConfig.capacity.max(1)
Room == IF RfCapacity = 0 THEN 1 ELSE RfCapacity

\* Mutant: one entry more is let in.
FullLate == Len(entries) > Room

Full == Len(entries) >= Room

\* The entry a sample arriving at time now becomes.
Stamped(s, now) ==
    [t |-> IF s.stamped THEN now - s.delay ELSE now, at |-> now - s.delay, err |-> s.err]

Insert(e) ==
    /\ entries' = Append(IF Full THEN Tail(entries) ELSE entries, e)
    /\ rf' = [rf EXCEPT !.received = @ + 1, !.evicted = IF Full THEN @ + 1 ELSE @]
    /\ arrived' = Append(arrived, e)

-----------------------------------------------------------------------------
(* The lookup. *)

\* Mutant: old samples are not filtered out.
InWindowOneSided(e, t) == e.t - t <= Window

InWindow(e, t) == Distance(e.t, t) <= Window

Candidates(t) == {i \in DOMAIN entries : InWindow(entries[i], t)}

\* The nearest, and of equally near ones the one that arrived first.
Nearest(t) ==
    LET far(i) == Distance(entries[i].t, t) IN
    CHOOSE i \in Candidates(t) :
        \A j \in Candidates(t) : far(i) < far(j) \/ (far(i) = far(j) /\ i <= j)

\* Mutant: the newest in the window is taken.
FoundNewest(t) ==
    IF ~RfOn \/ Candidates(t) = {} THEN None
    ELSE entries[CHOOSE i \in Candidates(t) : \A j \in Candidates(t) : j <= i]

Found(t) ==
    IF ~RfOn \/ Candidates(t) = {} THEN None ELSE entries[Nearest(t)]

Lookup(t) ==
    /\ rf' = CASE ~RfOn -> rf
               [] RfOn /\ Candidates(t) # {} -> [rf EXCEPT !.matched = @ + 1]
               [] RfOn /\ Candidates(t) = {} -> [rf EXCEPT !.unmatched = @ + 1]
    /\ UNCHANGED <<entries, arrived>>
==============================================================================
