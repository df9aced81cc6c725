---------------------------- MODULE MCEventQueue ----------------------------
(* Constants of the runs of EventQueue: the first classes of DELAYS, with the *)
(* last standing for Infinity, and delays that fall into each of them.        *)
EXTENDS EventQueue

FiveDelays    == <<-2, -1, 1, 3, 9>>
SomeRequests  == {-2, -1, 1, 2, 3}
FewRequests   == {-2, -1, 1, 2}

=============================================================================
