------------------------------ MODULE MCSandbox ------------------------------
(* A crowd of three from two addresses, and one visitor who commands. *)
EXTENDS Sandbox

CONSTANTS v1, v2, v3

Scenario(s) == [cmd |-> "scenario", value |-> s]
Speed(n) == [cmd |-> "speed", value |-> n]
Mask(on) == [cmd |-> "horizon_mask", enabled |-> on]

\* Commands come by the handful: scenarios that show everywhere, those that do not
\* show somewhere, and the rest.
MCScenes ==
    {[visitors |-> {v1, v2, v3}, visits |-> 3, commands |-> {}]} \cup
    {[visitors |-> {v1}, visits |-> 1, commands |-> cs \cup {[cmd |-> "reset"], [cmd |-> "unreadable"]}] : cs \in
        {{Scenario("eps_voltage"), Scenario("doppler_spoof"), Scenario("low_signal"), Mask(TRUE)},
         {Scenario("thermal"), Scenario("body_rate"), Mask(TRUE), Mask(FALSE)},
         {Scenario("full_power_claim"), Scenario("pointing_error"), Speed(0), Speed(3)}}}

\* Around the sunlight where a claim of full power goes unseen and the zenith.
MCSky ==
    <<[up |-> FALSE, illum |-> 0, zenith |-> 10000], [up |-> TRUE, illum |-> 4, zenith |-> 26],
      [up |-> TRUE, illum |-> 10, zenith |-> 5], [up |-> TRUE, illum |-> 8, zenith |-> 300]>>
=============================================================================
