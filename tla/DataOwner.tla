------------------------------ MODULE DataOwner ------------------------------
(***************************************************************************)
(* The data owners (client.c, the same program in both cases but for the   *)
(* first value of its counter), with their connections to the server.  One *)
(* action per blocking call, with the local work up to the next one.       *)
(*                                                                         *)
(* A client is started with its number of rounds; without one, it asks its *)
(* user for an input each round, and leaves at the first that does not     *)
(* start with a binary digit.  Rounds bounds the rounds a run looks at: a  *)
(* peer with more to do waits there.                                       *)
(***************************************************************************)
EXTENDS Messages, Sockets

CONSTANTS
  Rounds,       \* bound: the rounds that a peer starts
  Scenarios     \* what the peers do: see QuitAfter and BadInput

ASSUME RoundsAssumption == Rounds \in Nat
ASSUME ScenariosAssumption ==
  \A s \in Scenarios :
    /\ s.quitAfter \in [Peers -> Nat]
    /\ s.badInputs \subseteq Clients \X (1..Rounds)

VARIABLES
  scenario,     \* how many rounds each peer runs, which inputs are not binary
  cpc, com_key, crounds, results,
  backlog       \* the connections that the server has not accepted yet

clientVars == <<cpc, com_key, crounds, results>>

QuitAfter(p) == scenario.quitAfter[p]
BadInput(c, r) == <<c, r>> \in scenario.badInputs

DataOwnerInit ==
  /\ scenario \in Scenarios
  /\ cpc = [c \in Clients |-> "connect"]
  /\ com_key = [c \in Clients |-> c]
  /\ crounds = [c \in Clients |-> 0]
  /\ results = [c \in Clients |-> <<>>]
  /\ backlog = <<>>

-----------------------------------------------------------------------------

Connect(c) ==
  /\ cpc[c] = "connect"
  /\ cpc' = [cpc EXCEPT ![c] = "send"]
  /\ backlog' = Append(backlog, c)
  /\ UNCHANGED <<scenario, com_key, crounds, results, sockets>>

(* A mutant: the client does not wait for its result. *)
SendInputAsync(c) ==
  /\ cpc[c] = "send" /\ crounds[c] < QuitAfter(c) /\ crounds[c] < Rounds
  /\ PeerSends(c, [id |-> c, m |-> Encrypt(com_key[c], crounds[c] + 1)])
  /\ com_key' = [com_key EXCEPT ![c] = @ + 1]
  /\ crounds' = [crounds EXCEPT ![c] = @ + 1]
  /\ UNCHANGED <<scenario, cpc, results, backlog>>

(* Read an input, encrypt it and send it. *)
SendInput(c) ==
  /\ cpc[c] = "send" /\ crounds[c] < QuitAfter(c) /\ crounds[c] < Rounds
  /\ LET r == crounds[c] + 1
         input == IF BadInput(c, r) THEN Junk ELSE r
     IN  PeerSends(c, [id |-> c, m |-> Encrypt(com_key[c], input)])
  /\ com_key' = [com_key EXCEPT ![c] = @ + 1]
  /\ crounds' = [crounds EXCEPT ![c] = @ + 1]
  /\ cpc' = [cpc EXCEPT ![c] = "recv"]
  /\ UNCHANGED <<scenario, results, backlog>>

(* A mutant: the counter is not incremented. *)
RecvResultOutOfStep(c) ==
  /\ cpc[c] = "recv"
  /\ PeerGets(c)
  /\ results' = [results EXCEPT ![c] = Append(@, Decrypt(com_key[c], Head(down[c])))]
  /\ cpc' = [cpc EXCEPT ![c] = "send"]
  /\ UNCHANGED <<scenario, com_key, crounds, backlog>>

(* recv returned a message, or 0: the reply is then whatever the array     *)
(* held, and is printed all the same.                                      *)
RecvResult(c) ==
  /\ cpc[c] = "recv"
  /\ \/ /\ PeerGets(c)
        /\ results' = [results EXCEPT ![c] =
                         Append(@, Decrypt(com_key[c], Head(down[c])))]
     \/ /\ PeerRecvEnds(c)
        /\ results' = [results EXCEPT ![c] = Append(@, Junk)]
        /\ UNCHANGED sockets
  /\ com_key' = [com_key EXCEPT ![c] = @ + 1]
  /\ cpc' = [cpc EXCEPT ![c] = "send"]
  /\ UNCHANGED <<scenario, crounds, backlog>>

(* The end of the last round, or recv returned -1. *)
Leave(c) ==
  /\ \/ cpc[c] = "send" /\ crounds[c] = QuitAfter(c)
     \/ cpc[c] = "recv" /\ PeerRecvFails(c)
  /\ cpc' = [cpc EXCEPT ![c] = "ended"]
  /\ PeerCloses(c)
  /\ UNCHANGED <<scenario, com_key, crounds, results, backlog>>

ClientBrokenPipe(c) ==
  /\ cpc[c] = "send" /\ crounds[c] < QuitAfter(c) /\ crounds[c] < Rounds
  /\ rstP[c] = "arrived"
  /\ cpc' = [cpc EXCEPT ![c] = "killed"]
  /\ PeerCloses(c)
  /\ UNCHANGED <<scenario, com_key, crounds, results, backlog>>

DataOwner(c) ==
  Connect(c) \/ SendInput(c) \/ RecvResult(c) \/ Leave(c) \/ ClientBrokenPipe(c)
=============================================================================
