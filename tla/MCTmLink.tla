------------------------------ MODULE MCTmLink ------------------------------
(* The links that TLC looks at. *)
EXTENDS TmLink

\* Frames are lost and damaged; they overtake and are duplicated as well; or two
\* channels, one of them filtered out, have no check sequence.
MCScenes ==
    {[disorder |-> FALSE, unprotected |-> FALSE, faults |-> 2,
      channels |-> {"a"}, sizes |-> {3, 6}, packets |-> 3, idle |-> TRUE],
     [disorder |-> TRUE, unprotected |-> FALSE, faults |-> 3,
      channels |-> {"a"}, sizes |-> {3, 6}, packets |-> 2, idle |-> TRUE],
     [disorder |-> FALSE, unprotected |-> TRUE, faults |-> 2,
      channels |-> {"a", "b"}, sizes |-> {5}, packets |-> 2, idle |-> FALSE]}
=============================================================================
