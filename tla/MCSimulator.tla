----------------------------- MODULE MCSimulator -----------------------------
EXTENDS Simulator

Script(kind, first, frames) == [kind |-> kind, first |-> first, frames |-> frames]

\* Three frames, of which the second may be near the zenith or unknown to the
\* propagator.
Sim(rfDest, rfScript, script, sky) ==
    [tool |-> "sim", frames |-> 3, rfDest |-> rfDest, rfScript |-> rfScript,
     script |-> script, sky |-> sky]
Level == <<1, 1, 1>>

Line(reads, measured, place, datagrams, stampable) ==
    [reads |-> reads, rf |-> measured, place |-> place, hil |-> {},
     datagrams |-> datagrams, stampable |-> stampable]
Comment == Line("nothing", None, None, 1, TRUE)
Good(place) == Line("packet", {}, place, 2, TRUE)
Bad(place) == Line("packet", {"doppler"}, place, 1, TRUE)
Bare == Line("packet", None, 3, 1, TRUE)

ReplayAt(lead, delay, lines, repeat, framed) ==
    [tool |-> "replay", lines |-> lines, repeat |-> repeat, rfDest |-> TRUE,
     lead |-> lead, delay |-> delay, framed |-> framed, framing |-> TRUE]
Replay(lines, repeat, framed) == ReplayAt(2, 5, lines, repeat, framed)

MCPlans ==
    {Sim(TRUE, Script("doppler", 1, 1), Script("eps", 0, 2), Level),
     Sim(TRUE, Script("pointing", 1, 2), Script("rate", 2, 1), <<1, 0, 1>>),
     Sim(TRUE, Script("link", 0, 1), Script("thermal", 1, 0), <<1, None, 1>>),
     Sim(FALSE, None, Script("thermal", 1, 1), Level),
     Sim(FALSE, Script("link", 0, 1), None, Level),
     Replay(<<Comment, Good(1), Bad(2)>>, 2, TRUE),
     Replay(<<Bare, Good(1), Bare, Bare, Bad(2)>>, 1, FALSE),
     ReplayAt(2, 0, <<Good(1), Bare, Bad(2), Good(1)>>, 1, FALSE),
     ReplayAt(2, 0, <<Bad(1), Good(2)>>, 1, TRUE),
     ReplayAt(0, 0, <<Good(1), Bad(2), Bare>>, 1, FALSE),
     ReplayAt(1, 3, <<Good(1), Bad(2), Bad(1)>>, 1, FALSE),
     Replay(<<Good(1), Line("packet", {}, 2, 1, FALSE)>>, 1, FALSE),
     Replay(<<Good(1), Line("short", None, 2, 1, TRUE)>>, 1, FALSE),
     Replay(<<Comment>>, 1, FALSE)}
=============================================================================
