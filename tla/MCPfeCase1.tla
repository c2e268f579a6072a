------------------------------ MODULE MCPfeCase1 ------------------------------
(* TLC instances of PfeCase1. *)
EXTENDS PfeCase1

MCUnknown == -2
MCPeers == Clients

(* A number of rounds that no run reaches: the client stays. *)
Stays == Rounds + 1

NobodyLeaves == [p \in MCPeers |-> Stays]

MCService == {[quitAfter |-> NobodyLeaves, badInputs |-> {}]}

(* Every client leaves, each after a number of rounds of its own, or at once. *)
MCDepartures ==
  {[quitAfter |-> q, badInputs |-> {}] : q \in [MCPeers -> 0..Rounds]}

(* Any inputs of two clients are not binary, and any clients leave after a *)
(* round.                                                                  *)
MCBadInputs ==
  [quitAfter : [MCPeers -> {1, Stays}], badInputs : SUBSET ({0, 1} \X (1..Rounds))]

MCFaults == MCDepartures \cup MCBadInputs
=============================================================================
