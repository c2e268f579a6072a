--------------------------- MODULE TransferProofs ---------------------------
(***************************************************************************)
(* What short calls of recv do to case 2, for messages of any sizes, any   *)
(* number of pieces and of rounds, and however the calls are cut.          *)
(*                                                                         *)
(* Both properties follow from counting.  Where a program is in its loop   *)
(* says how many bytes it has sent and asked for; a stream has delivered   *)
(* what was asked for until a recv was short, and less ever after.  So a   *)
(* byte is stored in its own cell exactly if it came in time; and while    *)
(* all did, nobody can be in a round whose bytes were not sent yet.        *)
(***************************************************************************)
EXTENDS Transfer, TLAPS

(* The bytes that each program has sent and asked for in its round. *)
ClientSent == IF cpc = "recv" THEN INPSIZE ELSE 0

OwnerSent ==
  CASE opc = "sendPiece" -> oi * BUFSIZE
    [] opc = "recvAck" -> (oi + 1) * BUFSIZE
    [] opc \in {"recvPiece", "sendAck"} -> Prog + oi * ACKSIZE
    [] opc \in {"evaluate", "killed", "sendGoutput"} -> Prog + Acks
    [] OTHER -> Prog + Acks + GOUTSIZE

OwnerAsked ==
  CASE opc \in {"sendPiece", "recvAck"} -> oi * ACKSIZE
    [] opc = "recvPiece" -> Acks + oi * BUFSIZE
    [] opc = "sendAck" -> Acks + (oi + 1) * BUFSIZE
    [] OTHER -> Acks + Prog

ServerSent ==
  CASE spc \in {"recvInput", "recvPiece", "sendAck"} -> si * ACKSIZE
    [] spc \in {"garble", "killed"} -> Acks
    [] spc = "sendPiece" -> Acks + si * BUFSIZE
    [] spc = "recvAck" -> Acks + (si + 1) * BUFSIZE
    [] spc \in {"recvGoutput", "sendSize"} -> Acks + Prog
    [] OTHER -> Acks + Prog + ACKSIZE

ServerAsked ==
  CASE spc \in {"recvInput", "recvPiece"} -> si * BUFSIZE
    [] spc = "sendAck" -> (si + 1) * BUFSIZE
    [] spc \in {"garble", "killed"} -> Prog
    [] spc \in {"sendPiece", "recvAck"} -> Prog + si * ACKSIZE
    [] spc = "recvGoutput" -> Prog + Acks
    [] OTHER -> Prog + Acks + GOUTSIZE

InputAsked == IF spc = "recvInput" THEN 0 ELSE INPSIZE

(* What was asked for of a stream (n) has come (g), or something came late *)
(* (byte l). *)
InStep(s, g, n, l) ==
  /\ s \in Nat /\ g \in Nat /\ n \in Nat /\ g <= s
  /\ l = None => g = n
  /\ l # None => l \in Nat /\ l < n /\ g < n

Streams ==
  /\ DOMAIN sent = Directions /\ DOMAIN got = Directions
  /\ DOMAIN asked = Directions /\ DOMAIN gap = Directions
  /\ \A d \in Directions : InStep(sent[d], got[d], asked[d], gap[d])

(* A cell of an array of n cells holds one of the first g bytes, or none.  *)
Received(a, n, g) ==
  /\ DOMAIN a = 0..(n - 1)
  /\ \A c \in DOMAIN a : a[c] = Old \/ (a[c] \in Nat /\ a[c] < g)

(* The first m cells of an array, whose own bytes are those from base on,  *)
(* hold them as far as these came before byte l. *)
Filling(a, l, base, m) ==
  \A c \in DOMAIN a : c < m => (a[c] = base + c <=> (l = None \/ base + c < l))

InputFilled ==
  spc = "recvPiece" /\ si = 0 =>
    Filling(client_message, gap["input"], sround * PerRound["input"], INPSIZE)
BufferFilled ==
  spc \in {"recvPiece", "sendAck", "garble"} =>
    Filling(buffer, gap["up"], sround * PerRound["up"], ServerAsked)
GoutputFilled ==
  spc = "sendSize" =>
    Filling(goutput, gap["up"], sround * PerRound["up"] + (Prog + Acks), GOUTSIZE)
ProgramFilled ==
  opc \in {"recvPiece", "sendAck", "evaluate"} =>
    Filling(program, gap["down"], oround * PerRound["down"] + Acks, OwnerAsked - Acks)
ReplyFilled ==
  cpc = "send" /\ cround > 0 =>
    Filling(server_reply, gap["output"], (cround - 1) * PerRound["output"], OUTSIZE)

(* Each program by itself: what it has sent and asked for, and its arrays. *)
ClientPart ==
  /\ cround \in Nat /\ cpc \in {"send", "recv"}
  /\ sent["input"] = cround * PerRound["input"] + ClientSent
  /\ asked["output"] = cround * PerRound["output"]
  /\ Received(server_reply, OUTSIZE, got["output"])
  /\ ReplyFilled

OwnerPart ==
  /\ oround \in Nat /\ oi \in 0..(Pieces - 1)
  /\ opc \in {"sendPiece", "recvAck", "recvPiece", "sendAck", "evaluate", "killed",
              "sendGoutput", "recvSize"}
  /\ opc \in {"evaluate", "sendGoutput", "recvSize"} => oi = 0
  /\ sent["up"] = oround * PerRound["up"] + OwnerSent
  /\ asked["down"] = oround * PerRound["down"] + OwnerAsked
  /\ Received(program, Prog, got["down"])
  /\ ProgramFilled

ServerPart ==
  /\ sround \in Nat /\ si \in 0..(Pieces - 1)
  /\ spc \in {"recvInput", "recvPiece", "sendAck", "garble", "killed", "sendPiece",
              "recvAck", "recvGoutput", "sendSize", "writeOutput"}
  /\ spc \in {"recvInput", "garble", "recvGoutput", "sendSize", "writeOutput"} => si = 0
  /\ asked["input"] = sround * PerRound["input"] + InputAsked
  /\ sent["output"] = sround * PerRound["output"]
  /\ asked["up"] = sround * PerRound["up"] + ServerAsked
  /\ sent["down"] = sround * PerRound["down"] + ServerSent
  /\ Received(client_message, INPSIZE, got["input"])
  /\ Received(buffer, Prog, got["up"])
  /\ Received(goutput, GOUTSIZE, got["up"])
  /\ InputFilled /\ BufferFilled /\ GoutputFilled

IInv == Streams /\ ClientPart /\ OwnerPart /\ ServerPart

-----------------------------------------------------------------------------
(* Numbers. *)

LEMMA Times ==
  \A a, b \in Nat : a * b \in Nat /\ (a + 1) * b = a * b + b /\ 0 * b = 0
OBVIOUS

LEMMA TimesGrows ==
  ASSUME NEW a \in Nat, NEW b \in Nat, NEW n \in Nat, a <= b
  PROVE  a * n <= b * n
<1>1. PICK k \in Nat : b = a + k
  BY b - a \in Nat
<1>2. b * n = a * n + k * n /\ k * n \in Nat /\ a * n \in Nat
  BY <1>1
<1> QED
  BY <1>2

LEMMA Sizes ==
  /\ Pieces \in Nat \ {0} /\ BUFSIZE \in Nat \ {0} /\ ACKSIZE \in Nat \ {0}
  /\ GOUTSIZE \in Nat \ {0} /\ INPSIZE \in Nat \ {0} /\ OUTSIZE \in Nat \ {0}
  /\ Prog \in Nat /\ Acks \in Nat
  /\ PerRound["input"] = INPSIZE /\ PerRound["output"] = OUTSIZE
  /\ PerRound["up"] = Prog + Acks + GOUTSIZE /\ PerRound["down"] = Acks + Prog + ACKSIZE
<1>1. /\ Pieces \in Nat \ {0} /\ BUFSIZE \in Nat \ {0} /\ ACKSIZE \in Nat \ {0}
      /\ GOUTSIZE \in Nat \ {0} /\ INPSIZE \in Nat \ {0} /\ OUTSIZE \in Nat \ {0}
  BY SizesAssumption
<1>2. Prog \in Nat /\ Acks \in Nat
  BY <1>1, Times DEF Prog, Acks
<1> QED
  BY <1>1, <1>2 DEF PerRound

(* Where a piece of number n, of s bytes, is in its program. *)
LEMMA Piece ==
  ASSUME NEW n \in 0..(Pieces - 1), NEW s \in Nat
  PROVE  /\ n * s \in Nat /\ (n + 1) * s = n * s + s /\ 0 * s = 0
         /\ (n + 1) * s <= Pieces * s
         /\ n + 1 < Pieces => n + 1 \in 0..(Pieces - 1)
         /\ ~(n + 1 < Pieces) => (n + 1) * s = Pieces * s
<1>1. Pieces \in Nat /\ n \in Nat /\ n + 1 \in Nat /\ n + 1 <= Pieces
  BY Sizes
<1>2. (n + 1) * s <= Pieces * s
  BY <1>1, TimesGrows
<1>3. ~(n + 1 < Pieces) => n + 1 = Pieces
  BY <1>1
<1> QED
  BY <1>1, <1>2, <1>3, Times

-----------------------------------------------------------------------------
(* The streams and the arrays. *)

(* The heart of it: k of the m bytes asked for are stored from cell o on.  *)
LEMMA Stored ==
  ASSUME NEW n \in Nat, NEW a, NEW g \in Nat, Received(a, n, g),
         NEW s, NEW q, NEW l, InStep(s, g, q, l),
         NEW o \in Nat, NEW m \in Nat, NEW k \in 1..m, NEW base \in Nat,
         q = base + o, Filling(a, l, base, o)
  PROVE  LET b == [c \in DOMAIN a |-> IF c \in o..(o + k - 1) THEN g + (c - o) ELSE a[c]]
             j == IF l = None /\ k < m THEN q + k ELSE l
         IN  Received(b, n, g + k) /\ Filling(b, j, base, o + m)
<1> DEFINE b == [c \in DOMAIN a |-> IF c \in o..(o + k - 1) THEN g + (c - o) ELSE a[c]]
           j == IF l = None /\ k < m THEN q + k ELSE l
<1> USE ValuesAssumption
<1>0. /\ l = None /\ k < m => j = q + k
      /\ l = None /\ ~(k < m) => j = None
      /\ l # None => j = l
  OBVIOUS
<1> HIDE DEF j
<1>1. DOMAIN a = 0..(n - 1) /\ DOMAIN b = 0..(n - 1)
  BY DEF Received
<1>2. ASSUME NEW c \in DOMAIN b PROVE b[c] = Old \/ (b[c] \in Nat /\ b[c] < g + k)
  <2>1. c \in Nat /\ c \in DOMAIN a
    BY <1>1
  <2>2. a[c] = Old \/ (a[c] \in Nat /\ a[c] < g)
    BY <2>1 DEF Received
  <2>3. CASE c \in o..(o + k - 1)
    BY <2>1, <2>3
  <2>4. CASE c \notin o..(o + k - 1)
    BY <2>1, <2>2, <2>4
  <2> QED
    BY <2>3, <2>4
<1>3. ASSUME NEW c \in DOMAIN b, c < o + m
      PROVE  b[c] = base + c <=> (j = None \/ base + c < j)
  <2>1. c \in Nat /\ c \in DOMAIN a
    BY <1>1
  <2>2. a[c] = Old \/ (a[c] \in Nat /\ a[c] < g)
    BY <2>1 DEF Received
  <2>3. /\ g <= q /\ q \in Nat
        /\ l = None => g = q
        /\ l # None => l \in Nat /\ l < q /\ g < q
    BY DEF InStep
  <2>4. CASE c < o
    <3>1. b[c] = a[c]
      BY <2>1, <2>4
    <3>2. a[c] = base + c <=> (l = None \/ base + c < l)
      BY <2>1, <2>4 DEF Filling
    <3>3. base + c < q + k
      BY <2>1, <2>3, <2>4
    <3>4. l = None => j = None \/ base + c < j
      BY <1>0, <3>3
    <3> QED
      BY <1>0, <3>1, <3>2, <3>4
  <2>5. CASE c \in o..(o + k - 1)
    <3>1. b[c] = g + (c - o)
      BY <2>1, <2>5
    <3>2. base + c = q + (c - o) /\ c - o < k /\ c - o >= 0
      BY <2>1, <2>5
    <3>3. CASE l = None
      <4>1. base + c < q + k
        BY <2>1, <2>3, <3>2
      <4>2. j = None \/ base + c < j
        BY <1>0, <3>3, <4>1
      <4> QED
        BY <2>3, <3>1, <3>2, <3>3, <4>2
    <3>4. CASE l # None
      <4>1. g + (c - o) # base + c
        BY <2>1, <2>3, <3>2, <3>4
      <4>2. j = l /\ ~(base + c < l)
        BY <1>0, <2>1, <2>3, <3>2, <3>4
      <4> QED
        BY <3>1, <3>4, <4>1, <4>2
    <3> QED
      BY <3>3, <3>4
  <2>6. CASE c >= o + k
    <3>1. b[c] = a[c]
      BY <2>1, <2>6
    <3>2. k < m /\ base + c >= q + k
      BY <1>3, <2>1, <2>6
    <3>3. b[c] # base + c
      BY <2>1, <2>2, <2>3, <3>1, <3>2
    <3>4. ~(j = None \/ base + c < j)
      <4>1. CASE l = None
        BY <1>0, <2>1, <2>3, <3>2, <4>1
      <4>2. CASE l # None
        BY <1>0, <2>1, <2>3, <3>2, <4>2
      <4> QED
        BY <4>1, <4>2
    <3> QED
      BY <3>3, <3>4
  <2>7. c < o \/ c \in o..(o + k - 1) \/ c >= o + k
    BY <2>1
  <2> QED
    BY <2>4, <2>5, <2>6, <2>7
<1>4. Received(b, n, g + k)
  BY <1>1, <1>2 DEF Received
<1>5. Filling(b, j, base, o + m)
  BY <1>3 DEF Filling
<1> QED
  BY <1>4, <1>5 DEF j

(* What a send and a recv do to the streams. *)
LEMMA Sends ==
  ASSUME Streams, NEW d \in Directions, NEW n \in Nat, Send(d, n)
  PROVE  /\ Streams' /\ UNCHANGED <<got, asked, gap>>
         /\ sent'[d] = sent[d] + n
         /\ \A e \in Directions : e # d => sent'[e] = sent[e]
<1>1. /\ UNCHANGED <<got, asked, gap>> /\ DOMAIN sent' = Directions
      /\ sent'[d] = sent[d] + n
      /\ \A e \in Directions : e # d => sent'[e] = sent[e]
  BY DEF Send, Streams
<1>2. ASSUME NEW e \in Directions PROVE InStep(sent'[e], got[e], asked[e], gap[e])
  <2>1. InStep(sent[e], got[e], asked[e], gap[e])
    BY DEF Streams
  <2> QED
    BY <1>1, <2>1 DEF InStep
<1> QED
  BY <1>1, <1>2 DEF Streams

LEMMA Receives ==
  ASSUME Streams, NEW d \in Directions, NEW n \in Nat, NEW k \in 1..n, Recv(d, n, k)
  PROVE  /\ Streams' /\ UNCHANGED sent
         /\ got'[d] = got[d] + k /\ asked'[d] = asked[d] + n
         /\ gap'[d] = IF gap[d] = None /\ k < n THEN asked[d] + k ELSE gap[d]
         /\ \A e \in Directions :
              e # d => got'[e] = got[e] /\ asked'[e] = asked[e] /\ gap'[e] = gap[e]
         /\ InStep(sent[d], got[d], asked[d], gap[d])
<1> USE ValuesAssumption
<1>1. /\ UNCHANGED sent /\ DOMAIN got' = Directions /\ DOMAIN asked' = Directions
      /\ DOMAIN gap' = Directions
      /\ k <= sent[d] - got[d]
      /\ got'[d] = got[d] + k /\ asked'[d] = asked[d] + n
      /\ gap'[d] = IF gap[d] = None /\ k < n THEN asked[d] + k ELSE gap[d]
      /\ \A e \in Directions :
           e # d => got'[e] = got[e] /\ asked'[e] = asked[e] /\ gap'[e] = gap[e]
  BY DEF Recv, Streams
<1>2. \A e \in Directions : InStep(sent[e], got[e], asked[e], gap[e])
  BY DEF Streams
<1>3. InStep(sent[d], got'[d], asked'[d], gap'[d])
  BY <1>1, <1>2 DEF InStep
<1> QED
  BY <1>1, <1>2, <1>3 DEF Streams

LEMMA Stores ==
  ASSUME Streams, NEW d \in Directions, NEW n \in Nat, NEW a, Received(a, n, got[d]),
         NEW o \in Nat, NEW m \in Nat, NEW k \in 1..m, Recv(d, m, k),
         NEW base \in Nat, asked[d] = base + o, Filling(a, gap[d], base, o)
  PROVE  /\ Received(Filled(a, o, k, d), n, got'[d])
         /\ Filling(Filled(a, o, k, d), gap'[d], base, o + m)
<1> DEFINE b == [c \in DOMAIN a |->
                   IF c \in o..(o + k - 1) THEN got[d] + (c - o) ELSE a[c]]
           j == IF gap[d] = None /\ k < m THEN asked[d] + k ELSE gap[d]
<1>1. InStep(sent[d], got[d], asked[d], gap[d])
  BY DEF Streams
<1>2. got[d] \in Nat
  BY <1>1 DEF InStep
<1>3. Received(b, n, got[d] + k) /\ Filling(b, j, base, o + m)
  BY <1>1, <1>2, Stored
<1>4. got'[d] = got[d] + k /\ gap'[d] = j
  BY Receives
<1>5. Filled(a, o, k, d) = b
  BY DEF Filled
<1> HIDE DEF b, j
<1> QED
  BY <1>3, <1>4, <1>5

LEMMA ReceivedStays ==
  ASSUME NEW a, NEW n, NEW g \in Nat, NEW h \in Nat, g <= h, Received(a, n, g)
  PROVE  Received(a, n, h)
BY DEF Received

LEMMA NothingReceived ==
  ASSUME NEW n, NEW g
  PROVE  Received(Unwritten(n), n, g)
BY DEF Received, Unwritten

-----------------------------------------------------------------------------
(* What the others do leaves a program's part alone. *)

LEMMA ClientPartKept ==
  ASSUME ClientPart, UNCHANGED client, sent'["input"] = sent["input"],
         asked'["output"] = asked["output"], got'["output"] = got["output"],
         gap'["output"] = gap["output"]
  PROVE  ClientPart'
BY DEF client, ClientPart, ClientSent, ReplyFilled

LEMMA OwnerPartKept ==
  ASSUME OwnerPart, UNCHANGED owner, sent'["up"] = sent["up"],
         asked'["down"] = asked["down"], got'["down"] = got["down"],
         gap'["down"] = gap["down"]
  PROVE  OwnerPart'
BY DEF owner, OwnerPart, OwnerSent, OwnerAsked, ProgramFilled

LEMMA ServerPartKept ==
  ASSUME ServerPart, UNCHANGED server, sent'["output"] = sent["output"],
         sent'["down"] = sent["down"],
         \A d \in {"input", "up"} :
           asked'[d] = asked[d] /\ got'[d] = got[d] /\ gap'[d] = gap[d]
  PROVE  ServerPart'
BY DEF server, ServerPart, ServerSent, ServerAsked, InputAsked, InputFilled, BufferFilled,
       GoutputFilled

-----------------------------------------------------------------------------
(* The client. *)

LEMMA ClientKeeps ==
  ASSUME Streams, ClientPart, OwnerPart, ServerPart, Client
  PROVE  Streams' /\ ClientPart' /\ OwnerPart' /\ ServerPart'
<1> USE Sizes
<1>1. ASSUME ClientSends PROVE Streams' /\ ClientPart' /\ OwnerPart' /\ ServerPart'
  <2>1. /\ Streams' /\ UNCHANGED <<got, asked, gap>>
        /\ sent'["input"] = sent["input"] + INPSIZE
        /\ \A e \in Directions : e # "input" => sent'[e] = sent[e]
    BY <1>1, Sends DEF ClientSends, Directions
  <2>2. /\ cpc = "send" /\ cpc' = "recv" /\ UNCHANGED <<cround, server_reply, owner, server>>
    BY <1>1 DEF ClientSends
  <2>3. ClientPart'
    <3>1. cround * PerRound["input"] \in Nat
      BY Times DEF ClientPart
    <3> QED
      BY <2>1, <2>2, <3>1 DEF ClientPart, ClientSent, ReplyFilled, Directions
  <2> QED
    BY <2>1, <2>2, <2>3, OwnerPartKept, ServerPartKept DEF Directions
<1>2. ASSUME ClientRecvs PROVE Streams' /\ ClientPart' /\ OwnerPart' /\ ServerPart'
  <2>1. PICK k \in 1..OUTSIZE :
          /\ Recv("output", OUTSIZE, k)
          /\ server_reply' = Filled(server_reply, 0, k, "output")
    BY <1>2 DEF ClientRecvs
  <2>2. /\ Streams' /\ UNCHANGED sent
        /\ got'["output"] = got["output"] + k /\ asked'["output"] = asked["output"] + OUTSIZE
        /\ gap'["output"] = IF gap["output"] = None /\ k < OUTSIZE
                            THEN asked["output"] + k ELSE gap["output"]
        /\ \A e \in Directions :
             e # "output" => got'[e] = got[e] /\ asked'[e] = asked[e] /\ gap'[e] = gap[e]
        /\ InStep(sent["output"], got["output"], asked["output"], gap["output"])
    BY <2>1, Receives DEF Directions
  <2>3. cpc = "recv" /\ cpc' = "send" /\ cround' = cround + 1 /\ UNCHANGED <<owner, server>>
    BY <1>2 DEF ClientRecvs
  <2>4. /\ Received(server_reply', OUTSIZE, got'["output"])
        /\ Filling(server_reply', gap'["output"], asked["output"], OUTSIZE)
    <3>1. Received(server_reply, OUTSIZE, got["output"])
      BY DEF ClientPart
    <3>2. Filling(server_reply, gap["output"], asked["output"], 0)
      BY <3>1 DEF Filling, Received
    <3>3. asked["output"] \in Nat /\ got["output"] \in Nat
      BY <2>2 DEF InStep
    <3>4. asked["output"] = asked["output"] + 0 /\ 0 + OUTSIZE = OUTSIZE
      BY <3>3
    <3> QED
      BY <2>1, <3>1, <3>2, <3>3, <3>4, Stores DEF Directions
  <2>5. cround \in Nat /\ (cround + 1) * PerRound["output"]
                            = cround * PerRound["output"] + PerRound["output"]
    BY Times DEF ClientPart
  <2>6. ClientPart'
    <3>1. /\ cround' - 1 = cround /\ cround' \in Nat
          /\ sent["input"] = cround * PerRound["input"] + INPSIZE
          /\ asked["output"] = cround * PerRound["output"]
      BY <2>3, <2>5 DEF ClientPart, ClientSent
    <3>2. (cround + 1) * PerRound["input"] = cround * PerRound["input"] + PerRound["input"]
          /\ cround * PerRound["input"] \in Nat
      BY <2>5, Times
    <3>3. sent'["input"] = cround' * PerRound["input"] + 0
      BY <2>2, <2>3, <3>1, <3>2
    <3>4. asked'["output"] = cround' * PerRound["output"]
      BY <2>2, <2>3, <2>5, <3>1
    <3>5. ReplyFilled'
      BY <2>4, <3>1 DEF ReplyFilled
    <3> QED
      BY <2>3, <2>4, <3>1, <3>3, <3>4, <3>5 DEF ClientPart, ClientSent
  <2> QED
    BY <2>2, <2>3, <2>6, OwnerPartKept, ServerPartKept DEF Directions
<1> QED
  BY <1>1, <1>2 DEF Client

-----------------------------------------------------------------------------
(* The program owner. *)

(* A step of the owner that sends n bytes, or none. *)
LEMMA OwnerSends ==
  ASSUME Streams, ClientPart, ServerPart, NEW n \in Nat, Send("up", n),
         UNCHANGED <<client, server>>
  PROVE  /\ Streams' /\ ClientPart' /\ ServerPart'
         /\ sent'["up"] = sent["up"] + n
         /\ asked'["down"] = asked["down"] /\ got'["down"] = got["down"]
         /\ gap'["down"] = gap["down"]
<1>1. /\ Streams' /\ UNCHANGED <<got, asked, gap>>
      /\ sent'["up"] = sent["up"] + n
      /\ \A e \in Directions : e # "up" => sent'[e] = sent[e]
  BY Sends DEF Directions
<1> QED
  BY <1>1, ClientPartKept, ServerPartKept DEF Directions

(* A step of the owner that receives k of n bytes. *)
LEMMA OwnerReceives ==
  ASSUME Streams, ClientPart, ServerPart, NEW n \in Nat, NEW k \in 1..n,
         Recv("down", n, k), UNCHANGED <<client, server>>
  PROVE  /\ Streams' /\ ClientPart' /\ ServerPart'
         /\ sent'["up"] = sent["up"]
         /\ asked'["down"] = asked["down"] + n
         /\ got["down"] \in Nat /\ got'["down"] = got["down"] + k
         /\ asked["down"] \in Nat
<1>1. /\ Streams' /\ UNCHANGED sent
      /\ got'["down"] = got["down"] + k /\ asked'["down"] = asked["down"] + n
      /\ \A e \in Directions :
           e # "down" => got'[e] = got[e] /\ asked'[e] = asked[e] /\ gap'[e] = gap[e]
      /\ InStep(sent["down"], got["down"], asked["down"], gap["down"])
  BY Receives DEF Directions
<1> QED
  BY <1>1, ClientPartKept, ServerPartKept DEF Directions, InStep

(* Where the owner is in its program. *)
LEMMA OwnerPlace ==
  ASSUME OwnerPart
  PROVE  /\ oi * BUFSIZE \in Nat /\ (oi + 1) * BUFSIZE = oi * BUFSIZE + BUFSIZE
         /\ oi * ACKSIZE \in Nat /\ (oi + 1) * ACKSIZE = oi * ACKSIZE + ACKSIZE
         /\ 0 * BUFSIZE = 0 /\ 0 * ACKSIZE = 0
         /\ oi + 1 < Pieces => oi + 1 \in 0..(Pieces - 1)
         /\ ~(oi + 1 < Pieces) =>
              /\ (oi + 1) * BUFSIZE = Prog /\ (oi + 1) * ACKSIZE = Acks
              /\ 0 \in 0..(Pieces - 1)
         /\ oround * PerRound["up"] \in Nat /\ oround * PerRound["down"] \in Nat
<1>1. BUFSIZE \in Nat /\ ACKSIZE \in Nat /\ Pieces \in Nat \ {0}
  BY Sizes
<1>2. oi \in 0..(Pieces - 1) /\ oround \in Nat
  BY DEF OwnerPart
<1>3. PerRound["up"] \in Nat /\ PerRound["down"] \in Nat
  BY Sizes
<1>4. oround * PerRound["up"] \in Nat /\ oround * PerRound["down"] \in Nat
  BY <1>2, <1>3, Times
<1>5. 0 \in 0..(Pieces - 1)
  BY <1>1
<1> QED
  BY <1>1, <1>2, <1>4, <1>5, Piece DEF Prog, Acks

OwnerGoesOn == Streams' /\ ClientPart' /\ OwnerPart' /\ ServerPart'

LEMMA OwnerSendsPieceKeeps ==
  ASSUME Streams, ClientPart, OwnerPart, ServerPart, OwnerSendsPiece
  PROVE  OwnerGoesOn
<1> USE Sizes
<1>1. /\ Streams' /\ ClientPart' /\ ServerPart'
      /\ sent'["up"] = sent["up"] + BUFSIZE
      /\ asked'["down"] = asked["down"] /\ got'["down"] = got["down"]
      /\ gap'["down"] = gap["down"]
  BY OwnerSends DEF OwnerSendsPiece
<1>2. opc = "sendPiece" /\ opc' = "recvAck" /\ UNCHANGED <<oi, oround, program>>
  BY DEF OwnerSendsPiece
<1>3. OwnerPart'
  BY <1>1, <1>2, OwnerPlace DEF OwnerPart, OwnerSent, OwnerAsked, ProgramFilled
<1> QED
  BY <1>1, <1>3 DEF OwnerGoesOn

LEMMA OwnerRecvsAckKeeps ==
  ASSUME Streams, ClientPart, OwnerPart, ServerPart, OwnerRecvsAck
  PROVE  OwnerGoesOn
<1> USE Sizes
<1>1. PICK k \in 1..ACKSIZE : Recv("down", ACKSIZE, k)
  BY DEF OwnerRecvsAck
<1>2. /\ Streams' /\ ClientPart' /\ ServerPart'
      /\ sent'["up"] = sent["up"]
      /\ asked'["down"] = asked["down"] + ACKSIZE
      /\ got["down"] \in Nat /\ got'["down"] = got["down"] + k
  BY <1>1, OwnerReceives DEF OwnerRecvsAck
<1>3. /\ opc = "recvAck" /\ UNCHANGED <<oround, program>>
      /\ \/ oi + 1 < Pieces /\ oi' = oi + 1 /\ opc' = "sendPiece"
         \/ ~(oi + 1 < Pieces) /\ oi' = 0 /\ opc' = "recvPiece"
  BY DEF OwnerRecvsAck, OwnerNext
<1>4. Received(program', Prog, got'["down"])
  BY <1>2, <1>3, ReceivedStays DEF OwnerPart
<1>5. CASE opc' = "sendPiece"
  BY <1>2, <1>3, <1>4, <1>5, OwnerPlace
     DEF OwnerPart, OwnerSent, OwnerAsked, ProgramFilled, OwnerGoesOn
<1>6. CASE opc' = "recvPiece"
  <2>1. OwnerAsked' = Acks /\ OwnerSent' = Prog
    BY <1>3, <1>6, OwnerPlace DEF OwnerAsked, OwnerSent
  <2>2. OwnerAsked = oi * ACKSIZE /\ OwnerSent = Prog
    BY <1>3, <1>6, OwnerPlace DEF OwnerAsked, OwnerSent
  <2>3. ProgramFilled'
    BY <1>3, <1>4, <2>1 DEF ProgramFilled, Filling, Received
  <2>4. /\ sent'["up"] = oround' * PerRound["up"] + OwnerSent'
        /\ asked'["down"] = oround' * PerRound["down"] + OwnerAsked'
    BY <1>2, <1>3, <1>6, <2>1, <2>2, OwnerPlace DEF OwnerPart
  <2> QED
    BY <1>2, <1>3, <1>4, <1>6, <2>3, <2>4, OwnerPlace DEF OwnerPart, OwnerGoesOn
<1> QED
  BY <1>3, <1>5, <1>6

LEMMA OwnerRecvsPieceKeeps ==
  ASSUME Streams, ClientPart, OwnerPart, ServerPart, OwnerRecvsPiece
  PROVE  OwnerGoesOn
<1> USE Sizes
<1>1. PICK k \in 1..BUFSIZE :
        /\ Recv("down", BUFSIZE, k)
        /\ program' = Filled(program, oi * BUFSIZE, k, "down")
  BY DEF OwnerRecvsPiece
<1>2. /\ Streams' /\ ClientPart' /\ ServerPart'
      /\ sent'["up"] = sent["up"]
      /\ asked'["down"] = asked["down"] + BUFSIZE /\ asked["down"] \in Nat
  BY <1>1, OwnerReceives DEF OwnerRecvsPiece
<1>3. opc = "recvPiece" /\ opc' = "sendAck" /\ UNCHANGED <<oi, oround>>
  BY DEF OwnerRecvsPiece
<1> DEFINE base == oround * PerRound["down"] + Acks
<1>4. /\ base \in Nat /\ asked["down"] = base + oi * BUFSIZE
      /\ OwnerAsked - Acks = oi * BUFSIZE
      /\ OwnerAsked' = OwnerAsked + BUFSIZE /\ OwnerAsked \in Nat
      /\ OwnerAsked' - Acks = oi * BUFSIZE + BUFSIZE
  BY <1>3, OwnerPlace DEF OwnerPart, OwnerAsked
<1>5. Received(program, Prog, got["down"]) /\ Filling(program, gap["down"], base, oi * BUFSIZE)
  BY <1>3, <1>4 DEF OwnerPart, ProgramFilled
<1>6. /\ Received(program', Prog, got'["down"])
      /\ Filling(program', gap'["down"], base, oi * BUFSIZE + BUFSIZE)
  <2> HIDE DEF base
  <2> QED
    BY <1>1, <1>4, <1>5, OwnerPlace, Stores DEF Directions
<1>7. ProgramFilled'
  BY <1>3, <1>4, <1>6 DEF ProgramFilled
<1>8. /\ sent'["up"] = oround' * PerRound["up"] + OwnerSent'
      /\ asked'["down"] = oround' * PerRound["down"] + OwnerAsked'
  BY <1>2, <1>3, <1>4, OwnerPlace DEF OwnerPart, OwnerSent
<1> QED
  BY <1>2, <1>3, <1>6, <1>7, <1>8 DEF OwnerPart, OwnerGoesOn

LEMMA OwnerSendsAckKeeps ==
  ASSUME Streams, ClientPart, OwnerPart, ServerPart, OwnerSendsAck
  PROVE  OwnerGoesOn
<1> USE Sizes
<1>1. /\ Streams' /\ ClientPart' /\ ServerPart'
      /\ sent'["up"] = sent["up"] + ACKSIZE
      /\ asked'["down"] = asked["down"] /\ got'["down"] = got["down"]
      /\ gap'["down"] = gap["down"]
  BY OwnerSends DEF OwnerSendsAck
<1>2. /\ opc = "sendAck" /\ UNCHANGED <<oround, program>>
      /\ \/ oi + 1 < Pieces /\ oi' = oi + 1 /\ opc' = "recvPiece"
         \/ ~(oi + 1 < Pieces) /\ oi' = 0 /\ opc' = "evaluate"
  BY DEF OwnerSendsAck, OwnerNext
<1>3. OwnerAsked' = OwnerAsked /\ OwnerSent' = OwnerSent + ACKSIZE /\ OwnerSent \in Nat
  BY <1>2, OwnerPlace DEF OwnerAsked, OwnerSent
<1>4. /\ sent'["up"] = oround' * PerRound["up"] + OwnerSent'
      /\ asked'["down"] = oround' * PerRound["down"] + OwnerAsked'
  BY <1>1, <1>2, <1>3, OwnerPlace DEF OwnerPart
<1>5. ProgramFilled'
  BY <1>1, <1>2, <1>3 DEF OwnerPart, ProgramFilled
<1> QED
  BY <1>1, <1>2, <1>4, <1>5, OwnerPlace DEF OwnerPart, OwnerGoesOn

LEMMA OwnerEvaluatesKeeps ==
  ASSUME Streams, ClientPart, OwnerPart, ServerPart, OwnerEvaluates
  PROVE  OwnerGoesOn
<1>1. /\ opc = "evaluate" /\ opc' \in {"sendGoutput", "killed"}
      /\ UNCHANGED <<oi, oround, program, sent, got, asked, gap>>
  BY DEF OwnerEvaluates, streams
<1>2. OwnerPart'
  BY <1>1 DEF OwnerPart, OwnerSent, OwnerAsked, ProgramFilled
<1>3. Streams' /\ ClientPart' /\ ServerPart'
  BY <1>1, ClientPartKept, ServerPartKept DEF OwnerEvaluates, Streams
<1> QED
  BY <1>2, <1>3 DEF OwnerGoesOn

LEMMA OwnerSendsGoutputKeeps ==
  ASSUME Streams, ClientPart, OwnerPart, ServerPart, OwnerSendsGoutput
  PROVE  OwnerGoesOn
<1> USE Sizes
<1>1. /\ Streams' /\ ClientPart' /\ ServerPart'
      /\ sent'["up"] = sent["up"] + GOUTSIZE
      /\ asked'["down"] = asked["down"] /\ got'["down"] = got["down"]
      /\ gap'["down"] = gap["down"]
  BY OwnerSends DEF OwnerSendsGoutput
<1>2. opc = "sendGoutput" /\ opc' = "recvSize" /\ UNCHANGED <<oi, oround, program>>
  BY DEF OwnerSendsGoutput
<1>3. OwnerSent' = OwnerSent + GOUTSIZE /\ OwnerSent \in Nat /\ OwnerAsked' = OwnerAsked
  BY <1>2 DEF OwnerSent, OwnerAsked
<1>4. /\ sent'["up"] = oround' * PerRound["up"] + OwnerSent'
      /\ asked'["down"] = oround' * PerRound["down"] + OwnerAsked'
  BY <1>1, <1>2, <1>3, OwnerPlace DEF OwnerPart
<1> QED
  BY <1>1, <1>2, <1>4 DEF OwnerPart, ProgramFilled, OwnerGoesOn

LEMMA OwnerRecvsSizeKeeps ==
  ASSUME Streams, ClientPart, OwnerPart, ServerPart, OwnerRecvsSize
  PROVE  OwnerGoesOn
<1> USE Sizes
<1>1. PICK k \in 1..ACKSIZE : Recv("down", ACKSIZE, k)
  BY DEF OwnerRecvsSize
<1>2. /\ Streams' /\ ClientPart' /\ ServerPart'
      /\ sent'["up"] = sent["up"]
      /\ asked'["down"] = asked["down"] + ACKSIZE
  BY <1>1, OwnerReceives DEF OwnerRecvsSize
<1>3. /\ opc = "recvSize" /\ opc' = "sendPiece" /\ oi = 0 /\ oi' = 0
      /\ oround' = oround + 1 /\ oround \in Nat /\ program' = Unwritten(Prog)
  BY DEF OwnerRecvsSize, OwnerPart
<1>4. /\ oround' * PerRound["up"] = oround * PerRound["up"] + PerRound["up"]
      /\ oround' * PerRound["down"] = oround * PerRound["down"] + PerRound["down"]
  BY <1>3, Times
<1>5. OwnerSent = Prog + Acks + GOUTSIZE /\ OwnerAsked = Acks + Prog
  BY <1>3 DEF OwnerSent, OwnerAsked
<1>6. OwnerSent' = 0 /\ OwnerAsked' = 0
  BY <1>3, OwnerPlace DEF OwnerSent, OwnerAsked
<1>7. /\ sent'["up"] = oround' * PerRound["up"] + OwnerSent'
      /\ asked'["down"] = oround' * PerRound["down"] + OwnerAsked'
  BY <1>2, <1>4, <1>5, <1>6, OwnerPlace DEF OwnerPart
<1> QED
  BY <1>2, <1>3, <1>7, NothingReceived DEF OwnerPart, ProgramFilled, OwnerGoesOn

LEMMA OwnerKeeps ==
  ASSUME Streams, ClientPart, OwnerPart, ServerPart, Owner
  PROVE  Streams' /\ ClientPart' /\ OwnerPart' /\ ServerPart'
BY OwnerSendsPieceKeeps, OwnerRecvsAckKeeps, OwnerRecvsPieceKeeps, OwnerSendsAckKeeps,
   OwnerEvaluatesKeeps, OwnerSendsGoutputKeeps, OwnerRecvsSizeKeeps
   DEF Owner, OwnerGoesOn

-----------------------------------------------------------------------------
(* The server. *)

(* The others, whatever the server sends or receives. *)
LEMMA ServerSends ==
  ASSUME Streams, ClientPart, OwnerPart, NEW d \in {"output", "down"}, NEW n \in Nat,
         Send(d, n), UNCHANGED <<client, owner>>
  PROVE  /\ Streams' /\ ClientPart' /\ OwnerPart'
         /\ sent'[d] = sent[d] + n
         /\ \A e \in {"output", "down"} : e # d => sent'[e] = sent[e]
         /\ UNCHANGED <<got, asked, gap>>
<1>1. /\ Streams' /\ UNCHANGED <<got, asked, gap>>
      /\ sent'[d] = sent[d] + n
      /\ \A e \in Directions : e # d => sent'[e] = sent[e]
  BY Sends DEF Directions
<1> QED
  BY <1>1, ClientPartKept, OwnerPartKept DEF Directions

LEMMA ServerReceives ==
  ASSUME Streams, ClientPart, OwnerPart, NEW d \in {"input", "up"}, NEW n \in Nat,
         NEW k \in 1..n, Recv(d, n, k), UNCHANGED <<client, owner>>
  PROVE  /\ Streams' /\ ClientPart' /\ OwnerPart' /\ UNCHANGED sent
         /\ asked'[d] = asked[d] + n /\ asked[d] \in Nat
         /\ got[d] \in Nat /\ got'[d] \in Nat /\ got[d] <= got'[d]
         /\ \A e \in {"input", "up"} :
              e # d => asked'[e] = asked[e] /\ got'[e] = got[e] /\ gap'[e] = gap[e]
<1>1. /\ Streams' /\ UNCHANGED sent
      /\ got'[d] = got[d] + k /\ asked'[d] = asked[d] + n
      /\ \A e \in Directions :
           e # d => got'[e] = got[e] /\ asked'[e] = asked[e] /\ gap'[e] = gap[e]
      /\ InStep(sent[d], got[d], asked[d], gap[d])
  BY Receives DEF Directions
<1>2. got[d] \in Nat /\ asked[d] \in Nat
  BY <1>1 DEF InStep
<1> QED
  BY <1>1, <1>2, ClientPartKept, OwnerPartKept DEF Directions

LEMMA ServerPlace ==
  ASSUME ServerPart
  PROVE  /\ si * BUFSIZE \in Nat /\ (si + 1) * BUFSIZE = si * BUFSIZE + BUFSIZE
         /\ si * ACKSIZE \in Nat /\ (si + 1) * ACKSIZE = si * ACKSIZE + ACKSIZE
         /\ 0 * BUFSIZE = 0 /\ 0 * ACKSIZE = 0
         /\ si + 1 < Pieces => si + 1 \in 0..(Pieces - 1)
         /\ ~(si + 1 < Pieces) =>
              /\ (si + 1) * BUFSIZE = Prog /\ (si + 1) * ACKSIZE = Acks
              /\ 0 \in 0..(Pieces - 1)
         /\ \A d \in Directions : sround * PerRound[d] \in Nat
<1>1. BUFSIZE \in Nat /\ ACKSIZE \in Nat /\ Pieces \in Nat \ {0}
  BY Sizes
<1>2. si \in 0..(Pieces - 1) /\ sround \in Nat
  BY DEF ServerPart
<1>3. \A d \in Directions : PerRound[d] \in Nat
  BY Sizes DEF Directions
<1>4. \A d \in Directions : sround * PerRound[d] \in Nat
  BY <1>2, <1>3, Times
<1>5. 0 \in 0..(Pieces - 1)
  BY <1>1
<1> QED
  BY <1>1, <1>2, <1>4, <1>5, Piece DEF Prog, Acks

ServerGoesOn == Streams' /\ ClientPart' /\ OwnerPart' /\ ServerPart'

LEMMA ServerRecvsInputKeeps ==
  ASSUME Streams, ClientPart, OwnerPart, ServerPart, ServerRecvsInput
  PROVE  ServerGoesOn
<1> USE Sizes
<1>1. PICK k \in 1..INPSIZE :
        /\ Recv("input", INPSIZE, k)
        /\ client_message' = Filled(client_message, 0, k, "input")
  BY DEF ServerRecvsInput
<1>2. /\ Streams' /\ ClientPart' /\ OwnerPart' /\ UNCHANGED sent
      /\ asked'["input"] = asked["input"] + INPSIZE /\ asked["input"] \in Nat
      /\ asked'["up"] = asked["up"] /\ got'["up"] = got["up"] /\ gap'["up"] = gap["up"]
  BY <1>1, ServerReceives DEF ServerRecvsInput
<1>3. /\ spc = "recvInput" /\ spc' = "recvPiece" /\ si = 0
      /\ UNCHANGED <<si, sround, buffer, goutput>>
  BY DEF ServerRecvsInput, ServerPart
<1> DEFINE base == sround * PerRound["input"]
<1>4. base \in Nat /\ asked["input"] = base + 0 /\ 0 + INPSIZE = INPSIZE
  BY <1>3, ServerPlace DEF ServerPart, InputAsked, Directions
<1>5. Received(client_message, INPSIZE, got["input"])
  BY DEF ServerPart
<1>6. Filling(client_message, gap["input"], base, 0)
  BY <1>5 DEF Filling, Received
<1>7. /\ Received(client_message', INPSIZE, got'["input"])
      /\ Filling(client_message', gap'["input"], base, INPSIZE)
  <2> HIDE DEF base
  <2>1. /\ Received(Filled(client_message, 0, k, "input"), INPSIZE, got'["input"])
        /\ Filling(Filled(client_message, 0, k, "input"), gap'["input"], base, 0 + INPSIZE)
    BY <1>1, <1>4, <1>5, <1>6, Stores DEF Directions
  <2> QED
    BY <1>1, <1>4, <2>1
<1>8. UNCHANGED <<ServerSent, ServerAsked>> /\ ServerAsked = 0 /\ InputAsked' = INPSIZE
  BY <1>3, ServerPlace DEF ServerSent, ServerAsked, InputAsked
<1>9. Filling(buffer', gap'["up"], sround' * PerRound["up"], ServerAsked')
  BY <1>2, <1>3, <1>8 DEF ServerPart, Filling, Received
<1>10. asked'["input"] = sround' * PerRound["input"] + InputAsked'
  BY <1>2, <1>3, <1>4, <1>8
<1> QED
  BY <1>2, <1>3, <1>7, <1>8, <1>9, <1>10
     DEF ServerPart, InputFilled, BufferFilled, GoutputFilled, ServerGoesOn

LEMMA ServerRecvsPieceKeeps ==
  ASSUME Streams, ClientPart, OwnerPart, ServerPart, ServerRecvsPiece
  PROVE  ServerGoesOn
<1> USE Sizes
<1>1. PICK k \in 1..BUFSIZE :
        /\ Recv("up", BUFSIZE, k)
        /\ buffer' = Filled(buffer, si * BUFSIZE, k, "up")
  BY DEF ServerRecvsPiece
<1>2. /\ Streams' /\ ClientPart' /\ OwnerPart' /\ UNCHANGED sent
      /\ asked'["up"] = asked["up"] + BUFSIZE /\ asked["up"] \in Nat
      /\ got["up"] \in Nat /\ got'["up"] \in Nat /\ got["up"] <= got'["up"]
      /\ asked'["input"] = asked["input"] /\ got'["input"] = got["input"]
      /\ gap'["input"] = gap["input"]
  BY <1>1, ServerReceives DEF ServerRecvsPiece
<1>3. /\ spc = "recvPiece" /\ spc' = "sendAck"
      /\ UNCHANGED <<si, sround, client_message, goutput>>
  BY DEF ServerRecvsPiece
<1> DEFINE base == sround * PerRound["up"]
<1>4. /\ base \in Nat /\ asked["up"] = base + si * BUFSIZE
      /\ ServerAsked = si * BUFSIZE /\ ServerAsked' = si * BUFSIZE + BUFSIZE
  BY <1>3, ServerPlace DEF ServerPart, ServerAsked, Directions
<1>5. Received(buffer, Prog, got["up"]) /\ Filling(buffer, gap["up"], base, si * BUFSIZE)
  BY <1>3, <1>4 DEF ServerPart, BufferFilled
<1>6. /\ Received(buffer', Prog, got'["up"])
      /\ Filling(buffer', gap'["up"], base, si * BUFSIZE + BUFSIZE)
  <2> HIDE DEF base
  <2> QED
    BY <1>1, <1>4, <1>5, ServerPlace, Stores DEF Directions
<1>7. Received(goutput', GOUTSIZE, got'["up"])
  BY <1>2, <1>3, ReceivedStays DEF ServerPart
<1>8. UNCHANGED <<ServerSent, InputAsked>>
  BY <1>3 DEF ServerSent, InputAsked
<1>9. asked'["up"] = sround' * PerRound["up"] + ServerAsked'
  BY <1>2, <1>3, <1>4, ServerPlace
<1>10. BufferFilled'
  BY <1>3, <1>4, <1>6 DEF BufferFilled
<1> QED
  BY <1>2, <1>3, <1>6, <1>7, <1>8, <1>9, <1>10
     DEF ServerPart, InputFilled, GoutputFilled, ServerGoesOn

LEMMA ServerSendsAckKeeps ==
  ASSUME Streams, ClientPart, OwnerPart, ServerPart, ServerSendsAck
  PROVE  ServerGoesOn
<1> USE Sizes
<1>1. /\ Streams' /\ ClientPart' /\ OwnerPart'
      /\ sent'["down"] = sent["down"] + ACKSIZE /\ sent'["output"] = sent["output"]
      /\ UNCHANGED <<got, asked, gap>>
  BY ServerSends DEF ServerSendsAck
<1>2. /\ spc = "sendAck" /\ UNCHANGED <<sround, client_message, buffer, goutput>>
      /\ \/ si + 1 < Pieces /\ si' = si + 1 /\ spc' = "recvPiece"
         \/ ~(si + 1 < Pieces) /\ si' = 0 /\ spc' = "garble"
  BY DEF ServerSendsAck, ServerNext
<1>3. /\ UNCHANGED <<ServerAsked, InputAsked>>
      /\ ServerSent' = ServerSent + ACKSIZE /\ ServerSent \in Nat
  BY <1>2, ServerPlace DEF ServerAsked, InputAsked, ServerSent
<1>4. sent'["down"] = sround' * PerRound["down"] + ServerSent'
  BY <1>1, <1>2, <1>3, ServerPlace DEF ServerPart, Directions
<1>5. BufferFilled'
  BY <1>1, <1>2, <1>3 DEF ServerPart, BufferFilled
<1>6. ~(spc' = "recvPiece" /\ si' = 0) /\ spc' # "sendSize"
  BY <1>2 DEF ServerPart
<1> QED
  BY <1>1, <1>2, <1>3, <1>4, <1>5, <1>6, ServerPlace
     DEF ServerPart, InputFilled, GoutputFilled, ServerGoesOn

LEMMA ServerGarblesKeeps ==
  ASSUME Streams, ClientPart, OwnerPart, ServerPart, ServerGarbles
  PROVE  ServerGoesOn
<1>1. /\ spc = "garble" /\ spc' \in {"sendPiece", "killed"} /\ si = 0
      /\ UNCHANGED <<si, sround, client_message, buffer, goutput, sent, got, asked, gap>>
  BY DEF ServerGarbles, streams, ServerPart
<1>2. UNCHANGED <<ServerSent, ServerAsked, InputAsked>>
  <2>1. si * BUFSIZE = 0 /\ si * ACKSIZE = 0
    BY <1>1, ServerPlace
  <2> QED
    BY <1>1, <2>1, Sizes DEF ServerSent, ServerAsked, InputAsked
<1>3. ServerPart'
  BY <1>1, <1>2 DEF ServerPart, InputFilled, BufferFilled, GoutputFilled
<1>4. Streams' /\ ClientPart' /\ OwnerPart'
  BY <1>1, ClientPartKept, OwnerPartKept DEF ServerGarbles, Streams
<1> QED
  BY <1>3, <1>4 DEF ServerGoesOn

LEMMA ServerSendsPieceKeeps ==
  ASSUME Streams, ClientPart, OwnerPart, ServerPart, ServerSendsPiece
  PROVE  ServerGoesOn
<1> USE Sizes
<1>1. /\ Streams' /\ ClientPart' /\ OwnerPart'
      /\ sent'["down"] = sent["down"] + BUFSIZE /\ sent'["output"] = sent["output"]
      /\ UNCHANGED <<got, asked, gap>>
  BY ServerSends DEF ServerSendsPiece
<1>2. /\ spc = "sendPiece" /\ spc' = "recvAck"
      /\ UNCHANGED <<si, sround, client_message, buffer, goutput>>
  BY DEF ServerSendsPiece
<1>3. /\ UNCHANGED <<ServerAsked, InputAsked>>
      /\ ServerSent' = ServerSent + BUFSIZE /\ ServerSent \in Nat
  BY <1>2, ServerPlace DEF ServerAsked, InputAsked, ServerSent
<1>4. sent'["down"] = sround' * PerRound["down"] + ServerSent'
  BY <1>1, <1>2, <1>3, ServerPlace DEF ServerPart, Directions
<1> QED
  BY <1>1, <1>2, <1>3, <1>4
     DEF ServerPart, InputFilled, BufferFilled, GoutputFilled, ServerGoesOn

LEMMA ServerRecvsAckKeeps ==
  ASSUME Streams, ClientPart, OwnerPart, ServerPart, ServerRecvsAck
  PROVE  ServerGoesOn
<1> USE Sizes
<1>1. PICK k \in 1..ACKSIZE : Recv("up", ACKSIZE, k)
  BY DEF ServerRecvsAck
<1>2. /\ Streams' /\ ClientPart' /\ OwnerPart' /\ UNCHANGED sent
      /\ asked'["up"] = asked["up"] + ACKSIZE /\ asked["up"] \in Nat
      /\ got["up"] \in Nat /\ got'["up"] \in Nat /\ got["up"] <= got'["up"]
      /\ asked'["input"] = asked["input"] /\ got'["input"] = got["input"]
      /\ gap'["input"] = gap["input"]
  BY <1>1, ServerReceives DEF ServerRecvsAck
<1>3. /\ spc = "recvAck" /\ UNCHANGED <<sround, client_message, buffer, goutput>>
      /\ \/ si + 1 < Pieces /\ si' = si + 1 /\ spc' = "sendPiece"
         \/ ~(si + 1 < Pieces) /\ si' = 0 /\ spc' = "recvGoutput"
  BY DEF ServerRecvsAck, ServerNext
<1>4. /\ UNCHANGED <<ServerSent, InputAsked>>
      /\ ServerAsked' = ServerAsked + ACKSIZE /\ ServerAsked \in Nat
  BY <1>3, ServerPlace DEF ServerAsked, InputAsked, ServerSent
<1>5. asked'["up"] = sround' * PerRound["up"] + ServerAsked'
  BY <1>2, <1>3, <1>4, ServerPlace DEF ServerPart, Directions
<1>6. Received(buffer', Prog, got'["up"]) /\ Received(goutput', GOUTSIZE, got'["up"])
  BY <1>2, <1>3, ReceivedStays DEF ServerPart
<1> QED
  BY <1>2, <1>3, <1>4, <1>5, <1>6, ServerPlace
     DEF ServerPart, InputFilled, BufferFilled, GoutputFilled, ServerGoesOn

LEMMA ServerRecvsGoutputKeeps ==
  ASSUME Streams, ClientPart, OwnerPart, ServerPart, ServerRecvsGoutput
  PROVE  ServerGoesOn
<1> USE Sizes
<1>1. PICK k \in 1..GOUTSIZE :
        /\ Recv("up", GOUTSIZE, k)
        /\ goutput' = Filled(goutput, 0, k, "up")
  BY DEF ServerRecvsGoutput
<1>2. /\ Streams' /\ ClientPart' /\ OwnerPart' /\ UNCHANGED sent
      /\ asked'["up"] = asked["up"] + GOUTSIZE /\ asked["up"] \in Nat
      /\ got["up"] \in Nat /\ got'["up"] \in Nat /\ got["up"] <= got'["up"]
      /\ asked'["input"] = asked["input"] /\ got'["input"] = got["input"]
      /\ gap'["input"] = gap["input"]
  BY <1>1, ServerReceives DEF ServerRecvsGoutput
<1>3. /\ spc = "recvGoutput" /\ spc' = "sendSize"
      /\ UNCHANGED <<si, sround, client_message, buffer>>
  BY DEF ServerRecvsGoutput
<1> DEFINE base == sround * PerRound["up"] + (Prog + Acks)
<1>4. /\ base \in Nat /\ asked["up"] = base + 0 /\ 0 + GOUTSIZE = GOUTSIZE
  <2>1. ServerAsked = Prog + Acks
    BY <1>3 DEF ServerAsked
  <2> QED
    BY <2>1, ServerPlace DEF ServerPart, Directions
<1>5. Received(goutput, GOUTSIZE, got["up"])
  BY DEF ServerPart
<1>6. Filling(goutput, gap["up"], base, 0)
  BY <1>5 DEF Filling, Received
<1>7. /\ Received(goutput', GOUTSIZE, got'["up"])
      /\ Filling(goutput', gap'["up"], base, GOUTSIZE)
  <2> HIDE DEF base
  <2>1. /\ Received(Filled(goutput, 0, k, "up"), GOUTSIZE, got'["up"])
        /\ Filling(Filled(goutput, 0, k, "up"), gap'["up"], base, 0 + GOUTSIZE)
    BY <1>1, <1>4, <1>5, <1>6, Stores DEF Directions
  <2> QED
    BY <1>1, <1>4, <2>1
<1>8. Received(buffer', Prog, got'["up"])
  BY <1>2, <1>3, ReceivedStays DEF ServerPart
<1>9. UNCHANGED <<ServerSent, InputAsked>> /\ ServerAsked' = (Prog + Acks) + GOUTSIZE
  BY <1>3 DEF ServerSent, InputAsked, ServerAsked
<1>10. asked'["up"] = sround' * PerRound["up"] + ServerAsked'
  BY <1>2, <1>3, <1>4, <1>9, ServerPlace DEF Directions
<1> QED
  BY <1>2, <1>3, <1>7, <1>8, <1>9, <1>10
     DEF ServerPart, InputFilled, BufferFilled, GoutputFilled, ServerGoesOn

LEMMA ServerSendsSizeKeeps ==
  ASSUME Streams, ClientPart, OwnerPart, ServerPart, ServerSendsSize
  PROVE  ServerGoesOn
<1> USE Sizes
<1>1. /\ Streams' /\ ClientPart' /\ OwnerPart'
      /\ sent'["down"] = sent["down"] + ACKSIZE /\ sent'["output"] = sent["output"]
      /\ UNCHANGED <<got, asked, gap>>
  BY ServerSends DEF ServerSendsSize
<1>2. /\ spc = "sendSize" /\ spc' = "writeOutput"
      /\ UNCHANGED <<si, sround, client_message, buffer, goutput>>
  BY DEF ServerSendsSize
<1>3. /\ UNCHANGED <<ServerAsked, InputAsked>>
      /\ ServerSent' = ServerSent + ACKSIZE /\ ServerSent \in Nat
  BY <1>2 DEF ServerAsked, InputAsked, ServerSent
<1>4. sent'["down"] = sround' * PerRound["down"] + ServerSent'
  BY <1>1, <1>2, <1>3, ServerPlace DEF ServerPart, Directions
<1> QED
  BY <1>1, <1>2, <1>3, <1>4
     DEF ServerPart, InputFilled, BufferFilled, GoutputFilled, ServerGoesOn

LEMMA ServerWritesOutputKeeps ==
  ASSUME Streams, ClientPart, OwnerPart, ServerPart, ServerWritesOutput
  PROVE  ServerGoesOn
<1> USE Sizes
<1>1. /\ Streams' /\ ClientPart' /\ OwnerPart'
      /\ sent'["output"] = sent["output"] + OUTSIZE /\ sent'["down"] = sent["down"]
      /\ UNCHANGED <<got, asked, gap>>
  BY ServerSends DEF ServerWritesOutput
<1>2. /\ spc = "writeOutput" /\ spc' = "recvInput" /\ sround' = sround + 1
      /\ si = 0 /\ si' = 0 /\ sround \in Nat /\ UNCHANGED client_message
      /\ buffer' = Unwritten(Prog) /\ goutput' = Unwritten(GOUTSIZE)
  BY DEF ServerWritesOutput, ServerPart
<1>3. \A d \in Directions :
        sround' * PerRound[d] = sround * PerRound[d] + PerRound[d]
  BY <1>2, Times DEF Directions
<1>4. /\ ServerAsked = PerRound["up"] /\ ServerSent = PerRound["down"]
      /\ InputAsked = PerRound["input"]
      /\ ServerAsked' = 0 /\ ServerSent' = 0 /\ InputAsked' = 0
  BY <1>2, ServerPlace DEF ServerAsked, ServerSent, InputAsked
<1>5. /\ asked'["input"] = sround' * PerRound["input"] + InputAsked'
      /\ sent'["output"] = sround' * PerRound["output"]
      /\ asked'["up"] = sround' * PerRound["up"] + ServerAsked'
      /\ sent'["down"] = sround' * PerRound["down"] + ServerSent'
  BY <1>1, <1>3, <1>4, ServerPlace DEF ServerPart, Directions
<1> QED
  BY <1>1, <1>2, <1>5, NothingReceived
     DEF ServerPart, InputFilled, BufferFilled, GoutputFilled, ServerGoesOn

LEMMA ServerKeeps ==
  ASSUME Streams, ClientPart, OwnerPart, ServerPart, Server
  PROVE  Streams' /\ ClientPart' /\ OwnerPart' /\ ServerPart'
BY ServerRecvsInputKeeps, ServerRecvsPieceKeeps, ServerSendsAckKeeps, ServerGarblesKeeps,
   ServerSendsPieceKeeps, ServerRecvsAckKeeps, ServerRecvsGoutputKeeps,
   ServerSendsSizeKeeps, ServerWritesOutputKeeps
   DEF Server, ServerGoesOn

-----------------------------------------------------------------------------

LEMMA Initially == Init => IInv
<1> SUFFICES ASSUME Init PROVE IInv
  OBVIOUS
<1> USE Sizes DEF Init
<1>1. Streams
  BY ValuesAssumption DEF Streams, InStep, Directions
<1>2. 0 * BUFSIZE = 0 /\ 0 * ACKSIZE = 0 /\ \A d \in Directions : 0 * PerRound[d] = 0
  BY Times DEF Directions
<1>3. 0 \in 0..(Pieces - 1)
  OBVIOUS
<1>4. ClientPart
  BY <1>2, NothingReceived DEF ClientPart, ClientSent, ReplyFilled, Directions
<1>5. OwnerPart
  BY <1>2, <1>3, NothingReceived
     DEF OwnerPart, OwnerSent, OwnerAsked, ProgramFilled, Directions
<1>6. ServerPart
  BY <1>2, <1>3, NothingReceived
     DEF ServerPart, ServerSent, ServerAsked, InputAsked, InputFilled, BufferFilled,
         GoutputFilled, Directions
<1> QED
  BY <1>1, <1>4, <1>5, <1>6 DEF IInv

LEMMA Holds == Spec => []IInv
<1>1. IInv /\ [Next]_vars => IInv'
  <2> SUFFICES ASSUME IInv, [Next]_vars PROVE IInv'
    OBVIOUS
  <2>1. CASE UNCHANGED vars
    <3>1. Streams'
      BY <2>1 DEF vars, streams, IInv, Streams
    <3> QED
      BY <2>1, <3>1, ClientPartKept, OwnerPartKept, ServerPartKept DEF vars, streams, IInv
  <2> QED
    BY <2>1, ClientKeeps, OwnerKeeps, ServerKeeps DEF Next, IInv
<1> QED
  BY Initially, <1>1, PTL DEF Spec

LEMMA WholeArray ==
  ASSUME NEW a, NEW m \in Nat, NEW g, Received(a, m, g), NEW d, NEW r, NEW o,
         r * PerRound[d] + o \in Nat,
         Filling(a, gap[d], r * PerRound[d] + o, m)
  PROVE  UpToTheGap(a, d, r, o)
<1>1. ASSUME NEW c \in DOMAIN a
      PROVE  a[c] = Place(d, r, o, c) <=> InTime(d, Place(d, r, o, c))
  <2>1. c < m
    BY DEF Received
  <2>2. Place(d, r, o, c) = (r * PerRound[d] + o) + c
    BY DEF Place
  <2> QED
    BY <2>1, <2>2 DEF Filling, InTime
<1> QED
  BY <1>1 DEF UpToTheGap

(* After one short recv in a direction no byte ever arrives in its place   *)
(* again, in this round or a later one, and before it every byte does.     *)
THEOREM OutOfStepHolds == Spec => []OutOfStepForGood
<1>1. IInv => OutOfStepForGood
  <2> SUFFICES ASSUME IInv PROVE OutOfStepForGood
    OBVIOUS
  <2> USE Sizes DEF IInv
  <2>1. ASSUME spc = "recvPiece", si = 0
        PROVE  UpToTheGap(client_message, "input", sround, 0)
    <3>1. sround * PerRound["input"] + 0 = sround * PerRound["input"]
          /\ sround * PerRound["input"] \in Nat
      BY ServerPlace DEF Directions
    <3> QED
      BY <2>1, <3>1, WholeArray DEF ServerPart, InputFilled
  <2>2. ASSUME spc = "garble" PROVE UpToTheGap(buffer, "up", sround, 0)
    <3>1. sround * PerRound["up"] + 0 = sround * PerRound["up"]
          /\ sround * PerRound["up"] \in Nat
      BY ServerPlace DEF Directions
    <3>2. ServerAsked = Prog
      BY <2>2 DEF ServerAsked
    <3> QED
      BY <2>2, <3>1, <3>2, WholeArray DEF ServerPart, BufferFilled
  <2>3. ASSUME opc = "evaluate" PROVE UpToTheGap(program, "down", oround, Acks)
    <3>1. oround * PerRound["down"] + Acks \in Nat /\ OwnerAsked - Acks = Prog
      BY <2>3, OwnerPlace DEF OwnerAsked
    <3> QED
      BY <2>3, <3>1, WholeArray DEF OwnerPart, ProgramFilled
  <2>4. ASSUME spc = "sendSize" PROVE UpToTheGap(goutput, "up", sround, Prog + Acks)
    <3>1. sround * PerRound["up"] + (Prog + Acks) \in Nat
      BY ServerPlace DEF Directions
    <3> QED
      BY <2>4, <3>1, WholeArray DEF ServerPart, GoutputFilled
  <2>5. ASSUME cpc = "send", cround > 0
        PROVE  UpToTheGap(server_reply, "output", cround - 1, 0)
    <3>1. cround - 1 \in Nat
      BY <2>5 DEF ClientPart
    <3>2. (cround - 1) * PerRound["output"] + 0 = (cround - 1) * PerRound["output"]
          /\ (cround - 1) * PerRound["output"] \in Nat
      BY <3>1, Times
    <3> QED
      BY <2>5, <3>2, WholeArray DEF ClientPart, ReplyFilled
  <2> QED
    BY <2>1, <2>2, <2>3, <2>4, <2>5 DEF OutOfStepForGood
<1> QED
  BY Holds, <1>1, PTL

(* Where one end is in its round by the bytes, it is no more than a round  *)
(* ahead of the other, and then at the end of it. *)
LEMMA Ahead ==
  ASSUME NEW a \in Nat, NEW b \in Nat, NEW n \in Nat \ {0}, NEW x \in 0..n, NEW y \in 0..n,
         a * n + x <= b * n + y, a > b
  PROVE  a = b + 1 /\ x = 0 /\ y = n
<1>1. a * n \in Nat /\ b * n \in Nat /\ (b + 1) * n = b * n + n
  BY Times
<1>2. (b + 1) * n <= a * n
  BY TimesGrows
<1>3. x = 0 /\ y = n
  BY <1>1, <1>2
<1>4. ASSUME a >= b + 2 PROVE FALSE
  <2>1. (b + 2) * n <= a * n
    BY <1>4, TimesGrows
  <2>2. (b + 2) * n = b * n + n + n
    <3>1. (b + 1 + 1) * n = (b + 1) * n + n /\ b + 1 + 1 = b + 2
      BY Times
    <3> QED
      BY <1>1, <3>1
  <2> QED
    BY <1>1, <2>1, <2>2
<1> QED
  BY <1>3, <1>4

LEMMA OwnerBounds ==
  ASSUME OwnerPart
  PROVE  /\ OwnerSent \in 0..PerRound["up"] /\ OwnerAsked \in 0..PerRound["down"]
         /\ OwnerSent = PerRound["up"] => opc = "recvSize"
         /\ OwnerAsked < PerRound["down"]
<1> USE Sizes, OwnerPlace
<1>1. oi * BUFSIZE + BUFSIZE <= Prog /\ oi * ACKSIZE + ACKSIZE <= Acks
  BY Piece DEF OwnerPart, Prog, Acks
<1>2. OwnerSent \in 0..(Prog + Acks) \/ (opc = "recvSize" /\ OwnerSent = Prog + Acks + GOUTSIZE)
  BY <1>1 DEF OwnerPart, OwnerSent
<1>3. OwnerAsked \in 0..(Acks + Prog)
  BY <1>1 DEF OwnerPart, OwnerAsked
<1> QED
  BY <1>2, <1>3

LEMMA ServerBounds ==
  ASSUME ServerPart
  PROVE  /\ ServerSent \in 0..PerRound["down"] /\ ServerAsked \in 0..PerRound["up"]
         /\ InputAsked \in 0..INPSIZE /\ (InputAsked = 0 => spc = "recvInput")
         /\ ServerSent = PerRound["down"] => spc = "writeOutput"
<1> USE Sizes, ServerPlace
<1>1. si * BUFSIZE + BUFSIZE <= Prog /\ si * ACKSIZE + ACKSIZE <= Acks
  BY Piece DEF ServerPart, Prog, Acks
<1>2. \/ ServerSent \in 0..(Acks + Prog)
      \/ spc = "writeOutput" /\ ServerSent = Acks + Prog + ACKSIZE
  <2>1. \/ ServerSent \in {si * ACKSIZE, Acks, Acks + si * BUFSIZE,
                          Acks + (si + 1) * BUFSIZE, Acks + Prog}
        \/ spc = "writeOutput" /\ ServerSent = Acks + Prog + ACKSIZE
    BY DEF ServerPart, ServerSent
  <2> QED
    BY <1>1, <2>1
<1>3. ServerAsked \in 0..(Prog + Acks + GOUTSIZE)
  <2>1. ServerAsked \in {si * BUFSIZE, (si + 1) * BUFSIZE, Prog, Prog + si * ACKSIZE,
                         Prog + Acks, Prog + Acks + GOUTSIZE}
    BY DEF ServerPart, ServerAsked
  <2> QED
    BY <1>1, <2>1
<1>4. InputAsked \in 0..INPSIZE /\ (InputAsked = 0 => spc = "recvInput")
  BY DEF InputAsked
<1> QED
  BY <1>2, <1>3, <1>4

(* As long as no recv was short the loops of the server, the owner and the *)
(* client go round together. *)
THEOREM RoundsGoTogether == Spec => []RoundsTogether
<1>1. IInv => RoundsTogether
  <2> SUFFICES ASSUME IInv, \A d \in Directions : gap[d] = None
               PROVE  /\ sround <= cround + 1
                      /\ sround > cround => cpc = "recv" /\ spc = "recvInput"
                      /\ cround <= sround
                      /\ oround > sround => oround = sround + 1 /\ spc = "writeOutput"
                      /\ sround > oround => sround = oround + 1 /\ opc = "recvSize"
    BY DEF RoundsTogether
  <2> USE Sizes DEF IInv
  <2>1. \A d \in Directions : asked[d] <= sent[d]
    BY DEF Streams, InStep
  <2>2. cround \in Nat /\ oround \in Nat /\ sround \in Nat
    BY DEF ClientPart, OwnerPart, ServerPart
  <2>3. cround <= sround
    <3>1. cround * OUTSIZE + 0 <= sround * OUTSIZE + 0
      <4>1. cround * OUTSIZE \in Nat /\ sround * OUTSIZE \in Nat
        BY <2>2, Times
      <4> QED
        BY <2>1, <4>1 DEF ClientPart, ServerPart, Directions
    <3>2. 0 \in 0..OUTSIZE /\ 0 # OUTSIZE
      OBVIOUS
    <3>3. ~(cround > sround)
      BY <2>2, <3>1, <3>2, Ahead
    <3> QED
      BY <2>2, <3>3
  <2>4. ASSUME sround > cround PROVE sround = cround + 1 /\ cpc = "recv" /\ spc = "recvInput"
    <3>1. sround * INPSIZE + InputAsked <= cround * INPSIZE + ClientSent
      BY <2>1 DEF ClientPart, ServerPart, Directions
    <3>2. ClientSent \in 0..INPSIZE /\ (ClientSent = INPSIZE => cpc = "recv")
      BY DEF ClientSent
    <3>3. InputAsked \in 0..INPSIZE /\ (InputAsked = 0 => spc = "recvInput")
      BY ServerBounds
    <3> QED
      BY <2>2, <2>4, <3>1, <3>2, <3>3, Ahead
  <2>5. ASSUME oround > sround PROVE oround = sround + 1 /\ spc = "writeOutput"
    <3>1. oround * PerRound["down"] + OwnerAsked <= sround * PerRound["down"] + ServerSent
      BY <2>1 DEF OwnerPart, ServerPart, Directions
    <3>2. PerRound["down"] \in Nat \ {0}
      OBVIOUS
    <3> QED
      BY <2>2, <2>5, <3>1, <3>2, OwnerBounds, ServerBounds, Ahead
  <2>6. ASSUME sround > oround PROVE sround = oround + 1 /\ opc = "recvSize"
    <3>1. sround * PerRound["up"] + ServerAsked <= oround * PerRound["up"] + OwnerSent
      BY <2>1 DEF OwnerPart, ServerPart, Directions
    <3>2. PerRound["up"] \in Nat \ {0}
      OBVIOUS
    <3> QED
      BY <2>2, <2>6, <3>1, <3>2, OwnerBounds, ServerBounds, Ahead
  <2> QED
    BY <2>2, <2>3, <2>4, <2>5, <2>6
<1> QED
  BY Holds, <1>1, PTL
=============================================================================
