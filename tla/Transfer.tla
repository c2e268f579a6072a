------------------------------ MODULE Transfer ------------------------------
(***************************************************************************)
(* How the bytes of a round travel in case 2.  TCP carries a stream, and a *)
(* recv returns what has arrived of it: one byte at least, what it asked   *)
(* for at most.  No program looks at how much it got, so after a short     *)
(* recv its calls and the messages of the other end no longer agree.       *)
(*                                                                         *)
(* A stream is counted, not stored: a byte is its number in the stream,    *)
(* and a byte that was received is a cell of an array with that number.    *)
(* One client stands for all of them.  Nobody leaves (see PfeCase2), and   *)
(* no send blocks: a round is smaller than the buffers of a socket.        *)
(***************************************************************************)
EXTENDS Integers

CONSTANTS
  Pieces,       \* PROGLIMIT/BUFSIZE
  BUFSIZE,      \* the bytes of a piece of a program
  ACKSIZE,      \* the bytes of an acknowledgement (4)
  GOUTSIZE,     \* the bytes of a garbled output (outputsize*16)
  INPSIZE,      \* the bytes of an input (inputsize+1)
  OUTSIZE,      \* the bytes of a result (outputsize)
  Rounds,       \* bound: the rounds that each program goes through
  Old,          \* a cell of an array into which this round wrote nothing
  None          \* no byte

ASSUME SizesAssumption ==
  {Pieces, BUFSIZE, ACKSIZE, GOUTSIZE, INPSIZE, OUTSIZE} \subseteq Nat \ {0}
ASSUME RoundsAssumption == Rounds \in Nat
ASSUME ValuesAssumption == Old \notin Nat /\ None \notin Nat

VARIABLES
  sent,         \* how many bytes were sent in each direction
  got,          \* how many of them have been received
  asked,        \* auxiliary: how many the calls of recv asked for
  gap,          \* auxiliary: the first byte that came later than asked for
  cpc, cround, server_reply,                \* the client
  opc, oi, oround, program,                 \* the program owner
  spc, si, sround, client_message, buffer, goutput   \* the server

streams == <<sent, got, asked, gap>>
client == <<cpc, cround, server_reply>>
owner == <<opc, oi, oround, program>>
server == <<spc, si, sround, client_message, buffer, goutput>>
vars == <<streams, client, owner, server>>

Directions == {"input", "output", "up", "down"}

Cells(n) == [0..(n - 1) -> Nat \cup {Old}]
Unwritten(n) == [k \in 0..(n - 1) |-> Old]
Prog == Pieces * BUFSIZE
Acks == Pieces * ACKSIZE

Init ==
  /\ sent = [d \in Directions |-> 0]
  /\ got = [d \in Directions |-> 0]
  /\ asked = [d \in Directions |-> 0]
  /\ gap = [d \in Directions |-> None]
  /\ cpc = "send" /\ cround = 0 /\ server_reply = Unwritten(OUTSIZE)
  /\ opc = "sendPiece" /\ oi = 0 /\ oround = 0 /\ program = Unwritten(Prog)
  /\ spc = "recvInput" /\ si = 0 /\ sround = 0
  /\ client_message = Unwritten(INPSIZE)
  /\ buffer = Unwritten(Prog) /\ goutput = Unwritten(GOUTSIZE)

Send(d, n) ==
  /\ sent' = [sent EXCEPT ![d] = @ + n]
  /\ UNCHANGED <<got, asked, gap>>

(* recv of n bytes that returns k. *)
Recv(d, n, k) ==
  /\ k <= sent[d] - got[d]
  /\ got' = [got EXCEPT ![d] = @ + k]
  /\ asked' = [asked EXCEPT ![d] = @ + n]
  /\ gap' = [gap EXCEPT ![d] = IF @ = None /\ k < n THEN asked[d] + k ELSE @]
  /\ UNCHANGED sent

(* The array a, with the k bytes that recv stores from cell o on. *)
Filled(a, o, k, d) ==
  [c \in DOMAIN a |-> IF c \in o..(o + k - 1) THEN got[d] + (c - o) ELSE a[c]]

(* The bytes that are sent in one round; those of cell c of an array that  *)
(* holds the bytes from number o of its round on.                          *)
PerRound == [input  |-> INPSIZE, output |-> OUTSIZE,
             up     |-> Prog + Acks + GOUTSIZE,
             down   |-> Acks + Prog + ACKSIZE]
Place(d, round, o, c) == round * PerRound[d] + o + c

Whole(a, d, round, o) == \A c \in DOMAIN a : a[c] = Place(d, round, o, c)

-----------------------------------------------------------------------------
(* The client. *)

ClientSends ==
  /\ cpc = "send" /\ cround < Rounds
  /\ Send("input", INPSIZE)
  /\ cpc' = "recv"
  /\ UNCHANGED <<cround, server_reply, owner, server>>

ClientRecvs ==
  /\ cpc = "recv"
  /\ \E k \in 1..OUTSIZE :
       /\ Recv("output", OUTSIZE, k)
       /\ server_reply' = Filled(server_reply, 0, k, "output")
  /\ cpc' = "send"
  /\ cround' = cround + 1
  /\ UNCHANGED <<owner, server>>

-----------------------------------------------------------------------------
(* The program owner. *)

OwnerSendsPiece ==
  /\ opc = "sendPiece" /\ oround < Rounds
  /\ Send("up", BUFSIZE)
  /\ opc' = "recvAck"
  /\ UNCHANGED <<oi, oround, program, client, server>>

OwnerNext(here, next) ==
  IF oi + 1 < Pieces THEN oi' = oi + 1 /\ opc' = here ELSE oi' = 0 /\ opc' = next

OwnerRecvsAck ==
  /\ opc = "recvAck"
  /\ \E k \in 1..ACKSIZE : Recv("down", ACKSIZE, k)
  /\ OwnerNext("sendPiece", "recvPiece")
  /\ UNCHANGED <<oround, program, client, server>>

OwnerRecvsPiece ==
  /\ opc = "recvPiece"
  /\ \E k \in 1..BUFSIZE :
       /\ Recv("down", BUFSIZE, k)
       /\ program' = Filled(program, oi * BUFSIZE, k, "down")
  /\ opc' = "sendAck"
  /\ UNCHANGED <<oi, oround, client, server>>

OwnerSendsAck ==
  /\ opc = "sendAck"
  /\ Send("up", ACKSIZE)
  /\ OwnerNext("recvPiece", "evaluate")
  /\ UNCHANGED <<oround, program, client, server>>

(* Decryption and decryptGProgram go by the numbers they find: on anything *)
(* but a garbled program the owner may die.                                *)
OwnerEvaluates ==
  /\ opc = "evaluate"
  /\ \/ opc' = "sendGoutput"
     \/ ~Whole(program, "down", oround, Acks) /\ opc' = "killed"
  /\ UNCHANGED <<oi, oround, program, streams, client, server>>

OwnerSendsGoutput ==
  /\ opc = "sendGoutput"
  /\ Send("up", GOUTSIZE)
  /\ opc' = "recvSize"
  /\ UNCHANGED <<oi, oround, program, client, server>>

(* A mutant: the owner starts its next round at once. *)
OwnerSkipsSize ==
  /\ opc = "recvSize"
  /\ opc' = "sendPiece"
  /\ oround' = oround + 1
  /\ program' = Unwritten(Prog)
  /\ UNCHANGED <<oi, streams, client, server>>

OwnerRecvsSize ==
  /\ opc = "recvSize"
  /\ \E k \in 1..ACKSIZE : Recv("down", ACKSIZE, k)
  /\ opc' = "sendPiece"
  /\ oround' = oround + 1
  /\ program' = Unwritten(Prog)
  /\ UNCHANGED <<oi, client, server>>

-----------------------------------------------------------------------------
(* The server. *)

ServerRecvsInput ==
  /\ spc = "recvInput" /\ sround < Rounds
  /\ \E k \in 1..INPSIZE :
       /\ Recv("input", INPSIZE, k)
       /\ client_message' = Filled(client_message, 0, k, "input")
  /\ spc' = "recvPiece"
  /\ UNCHANGED <<si, sround, buffer, goutput, client, owner>>

(* A mutant: a piece is stored where the one before it ended. *)
ServerRecvsPieceBehind ==
  /\ spc = "recvPiece"
  /\ \E k \in 1..BUFSIZE :
       /\ Recv("up", BUFSIZE, k)
       /\ buffer' = Filled(buffer, got["up"] - sround * PerRound["up"], k, "up")
  /\ spc' = "sendAck"
  /\ UNCHANGED <<si, sround, client_message, goutput, client, owner>>

ServerRecvsPiece ==
  /\ spc = "recvPiece"
  /\ \E k \in 1..BUFSIZE :
       /\ Recv("up", BUFSIZE, k)
       /\ buffer' = Filled(buffer, si * BUFSIZE, k, "up")
  /\ spc' = "sendAck"
  /\ UNCHANGED <<si, sround, client_message, goutput, client, owner>>

ServerNext(here, next) ==
  IF si + 1 < Pieces THEN si' = si + 1 /\ spc' = here ELSE si' = 0 /\ spc' = next

(* A mutant: one acknowledgement for a whole program. *)
ServerSendsAckAtEnd ==
  /\ spc = "sendAck"
  /\ IF si + 1 < Pieces THEN UNCHANGED streams ELSE Send("down", ACKSIZE)
  /\ ServerNext("recvPiece", "garble")
  /\ UNCHANGED <<sround, client_message, buffer, goutput, client, owner>>

ServerSendsAck ==
  /\ spc = "sendAck"
  /\ Send("down", ACKSIZE)
  /\ ServerNext("recvPiece", "garble")
  /\ UNCHANGED <<sround, client_message, buffer, goutput, client, owner>>

(* The ECALL copies as many bytes as the first of them say: on anything    *)
(* but a program the server may die.                                       *)
ServerGarbles ==
  /\ spc = "garble"
  /\ \/ spc' = "sendPiece"
     \/ ~Whole(buffer, "up", sround, 0) /\ spc' = "killed"
  /\ UNCHANGED <<si, sround, client_message, buffer, goutput, streams, client, owner>>

ServerSendsPiece ==
  /\ spc = "sendPiece"
  /\ Send("down", BUFSIZE)
  /\ spc' = "recvAck"
  /\ UNCHANGED <<si, sround, client_message, buffer, goutput, client, owner>>

ServerRecvsAck ==
  /\ spc = "recvAck"
  /\ \E k \in 1..ACKSIZE : Recv("up", ACKSIZE, k)
  /\ ServerNext("sendPiece", "recvGoutput")
  /\ UNCHANGED <<sround, client_message, buffer, goutput, client, owner>>

ServerRecvsGoutput ==
  /\ spc = "recvGoutput"
  /\ \E k \in 1..GOUTSIZE :
       /\ Recv("up", GOUTSIZE, k)
       /\ goutput' = Filled(goutput, 0, k, "up")
  /\ spc' = "sendSize"
  /\ UNCHANGED <<si, sround, client_message, buffer, client, owner>>

ServerSendsSize ==
  /\ spc = "sendSize"
  /\ Send("down", ACKSIZE)
  /\ spc' = "writeOutput"
  /\ UNCHANGED <<si, sround, client_message, buffer, goutput, client, owner>>

(* The end of the round: its arrays are freed, all but client_message. *)
ServerWritesOutput ==
  /\ spc = "writeOutput"
  /\ Send("output", OUTSIZE)
  /\ spc' = "recvInput"
  /\ sround' = sround + 1
  /\ buffer' = Unwritten(Prog)
  /\ goutput' = Unwritten(GOUTSIZE)
  /\ UNCHANGED <<si, client_message, client, owner>>

-----------------------------------------------------------------------------

Client == ClientSends \/ ClientRecvs

Owner ==
  \/ OwnerSendsPiece \/ OwnerRecvsAck \/ OwnerRecvsPiece \/ OwnerSendsAck
  \/ OwnerEvaluates \/ OwnerSendsGoutput \/ OwnerRecvsSize

Server ==
  \/ ServerRecvsInput \/ ServerRecvsPiece \/ ServerSendsAck \/ ServerGarbles
  \/ ServerSendsPiece \/ ServerRecvsAck \/ ServerRecvsGoutput
  \/ ServerSendsSize \/ ServerWritesOutput

Next == Client \/ Owner \/ Server

(* Each process goes on while it can. *)
Fairness == WF_vars(Client) /\ WF_vars(Owner) /\ WF_vars(Server)

Spec == Init /\ [][Next]_vars /\ Fairness

-----------------------------------------------------------------------------

(* No byte of a message has come too late. *)
InTime(d, byte) == gap[d] = None \/ byte < gap[d]

(* A cell holds its own byte exactly if no byte up to it came too late.    *)
UpToTheGap(a, d, round, o) ==
  \A c \in DOMAIN a :
    a[c] = Place(d, round, o, c) <=> InTime(d, Place(d, round, o, c))

(* After one short recv in a direction, no byte ever arrives in its place  *)
(* again, in this round or a later one; before it, everything does.  For   *)
(* the arrays that the round is computed from, when they are used.         *)
OutOfStepForGood ==
  /\ spc = "recvPiece" /\ si = 0 =>
       UpToTheGap(client_message, "input", sround, 0)
  /\ spc = "garble" => UpToTheGap(buffer, "up", sround, 0)
  /\ opc = "evaluate" => UpToTheGap(program, "down", oround, Acks)
  /\ spc = "sendSize" => UpToTheGap(goutput, "up", sround, Prog + Acks)
  /\ cpc = "send" /\ cround > 0 =>
       UpToTheGap(server_reply, "output", cround - 1, 0)

(* The three loops go round together as long as no recv was short: the     *)
(* server does not start a round that the client or the owner has not      *)
(* come to, and neither of them starts one before the server is done.      *)
RoundsTogether ==
  (\A d \in Directions : gap[d] = None) =>
    /\ sround <= cround + 1
    /\ sround > cround => cpc = "recv" /\ spc = "recvInput"
    /\ cround <= sround
    /\ oround > sround => oround = sround + 1 /\ spc = "writeOutput"
    /\ sround > oround => sround = oround + 1 /\ opc = "recvSize"

(* Short or not, nobody waits for ever: every recv finds a byte, and all   *)
(* three programs come to the end of their rounds, unless one of them dies *)
(* on what it takes for a program.                                         *)
Finished == cround = Rounds /\ oround = Rounds /\ sround = Rounds
Completes == <>(Finished \/ opc = "killed" \/ spc = "killed")
=============================================================================
