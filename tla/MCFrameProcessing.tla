-------------------------- MODULE MCFrameProcessing --------------------------
EXTENDS FrameProcessing, TLC

Measured(e) == [c \in RfChecks |-> e]
Good == Measured(0)
Spoofed == [c \in RfChecks |-> IF c = "doppler" THEN 9 ELSE None]
Reported(e) == [c \in HilChecks |-> e]

MCRfSamples == {
    [delay |-> 1, stamped |-> TRUE, err |-> Spoofed],
    [delay |-> 1, stamped |-> FALSE, err |-> Good]}

Packet(tag, hil, measured) == [valid |-> TRUE, tag |-> tag, hil |-> hil, rf |-> measured]

MCFrameInputs == {
    [valid |-> FALSE, tag |-> NoTag, hil |-> None, rf |-> None],
    Packet(NoTag, None, Spoofed),
    Packet(BadTag, Reported(5), None),
    Packet(1, Reported(0), None),
    Packet(2, Reported(5), None)}

MCRfTol == [c \in RfChecks |-> 4]
MCHilTol == [c \in HilChecks |-> 2]
MCCoverage == 1..4
MCBelowHorizon == {1}
Symmetry == Permutations(Workers)
==============================================================================
