------------------------------- MODULE Sockets -------------------------------
(***************************************************************************)
(* The TCP connections between the server and its peers, as the programs   *)
(* use them: blocking send, recv and close, no signal handler, no options. *)
(* External: the code under the calls is the operating system's.           *)
(*                                                                         *)
(* A message sent to a process that has closed its socket, or has ended,   *)
(* is lost and answered with a reset; closing a socket with unread data    *)
(* sends a reset too.  A reset takes time.  When it has arrived, recv      *)
(* fails once the queue is empty, and send kills its caller with SIGPIPE.  *)
(* A message is delivered whole.                                           *)
(***************************************************************************)
EXTENDS Integers, Sequences

CONSTANTS Peers

VARIABLES
  up,       \* the messages on their way from a peer to the server
  down,     \* the messages on their way from the server to a peer
  open,     \* has the peer's end not been closed?
  serving,  \* has the server's process not ended?
  rstS,     \* the reset on its way to the server's end of a connection
  rstP      \* the reset on its way to the peer's end

sockets == <<up, down, open, serving, rstS, rstP>>

SocketsInit ==
  /\ up = [p \in Peers |-> <<>>]
  /\ down = [p \in Peers |-> <<>>]
  /\ open = [p \in Peers |-> TRUE]
  /\ serving = TRUE
  /\ rstS = [p \in Peers |-> "none"]
  /\ rstP = [p \in Peers |-> "none"]

(* A reset is sent at most once, and arrives at most once. *)
ResetSent(r) == IF r = "none" THEN "sent" ELSE r

ResetArrives ==
  /\ \E p \in Peers :
       \/ /\ rstS[p] = "sent"
          /\ rstS' = [rstS EXCEPT ![p] = "arrived"]
          /\ UNCHANGED rstP
       \/ /\ rstP[p] = "sent"
          /\ rstP' = [rstP EXCEPT ![p] = "arrived"]
          /\ UNCHANGED rstS
  /\ UNCHANGED <<up, down, open, serving>>

-----------------------------------------------------------------------------
(* The peer's end. *)

PeerSends(p, m) ==
  /\ rstP[p] # "arrived"
  /\ IF serving
     THEN up' = [up EXCEPT ![p] = Append(@, m)] /\ UNCHANGED rstP
     ELSE rstP' = [rstP EXCEPT ![p] = ResetSent(@)] /\ UNCHANGED up
  /\ UNCHANGED <<down, open, serving, rstS>>

PeerGets(p) ==
  /\ down[p] # <<>>
  /\ down' = [down EXCEPT ![p] = Tail(@)]
  /\ UNCHANGED <<up, open, serving, rstS, rstP>>

(* recv returns -1 and 0. *)
PeerRecvFails(p) == down[p] = <<>> /\ rstP[p] = "arrived"
PeerRecvEnds(p)  == down[p] = <<>> /\ rstP[p] # "arrived" /\ ~serving

PeerCloses(p) ==
  /\ open' = [open EXCEPT ![p] = FALSE]
  /\ rstS' = [rstS EXCEPT ![p] = IF down[p] # <<>> THEN ResetSent(@) ELSE @]
  /\ down' = [down EXCEPT ![p] = <<>>]
  /\ UNCHANGED <<up, serving, rstP>>

-----------------------------------------------------------------------------
(* The server's end. *)

ServerSends(p, m) ==
  /\ rstS[p] # "arrived"
  /\ IF open[p]
     THEN down' = [down EXCEPT ![p] = Append(@, m)] /\ UNCHANGED rstS
     ELSE rstS' = [rstS EXCEPT ![p] = ResetSent(@)] /\ UNCHANGED down
  /\ UNCHANGED <<up, open, serving, rstP>>

ServerGets(p) ==
  /\ up[p] # <<>>
  /\ up' = [up EXCEPT ![p] = Tail(@)]
  /\ UNCHANGED <<down, open, serving, rstS, rstP>>

(* recv returns 0 or -1. *)
ServerRecvFails(p) == up[p] = <<>> /\ (~open[p] \/ rstS[p] = "arrived")

(* The end of the server's process. *)
ServerEnds ==
  /\ serving' = FALSE
  /\ rstP' = [p \in Peers |-> IF up[p] # <<>> THEN ResetSent(rstP[p]) ELSE rstP[p]]
  /\ up' = [p \in Peers |-> <<>>]
  /\ UNCHANGED <<down, open, rstS>>
=============================================================================
