------------------------------ MODULE MCPfeCase2 ------------------------------
(* TLC instances of PfeCase2. *)
EXTENDS PfeCase2

MCOwner == -1
MCUnknown == -2
MCPeers == Clients \cup {MCOwner}

(* A number of rounds that no run reaches: the peer stays. *)
Stays == Rounds + 1

NobodyLeaves == [p \in MCPeers |-> Stays]

MCService == {[quitAfter |-> NobodyLeaves, badInputs |-> {}]}

(* Every peer leaves, each after a number of rounds of its own, or at once. *)
MCDepartures ==
  {[quitAfter |-> q, badInputs |-> {}] : q \in [MCPeers -> 0..Rounds]}

(* One of the clients leaves after the first round. *)
MCOneLeaves ==
  {[quitAfter |-> [NobodyLeaves EXCEPT ![c] = 1], badInputs |-> {}] : c \in Clients}

MCAtMostOneLeaves == MCService \cup MCOneLeaves

(* One input is not binary; and any of the peers leave after two rounds,   *)
(* but not the client of that input before it has sent it.                 *)
MCBadInputs ==
  {s \in [quitAfter : [MCPeers -> {2, Stays}],
          badInputs : {{b} : b \in Clients \X (1..Rounds)}] :
     \A b \in s.badInputs : b[2] <= s.quitAfter[b[1]]}

MCFaults == MCDepartures \cup MCBadInputs
=============================================================================
