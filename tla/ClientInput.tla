----------------------------- MODULE ClientInput -----------------------------
(***************************************************************************)
(* How a data owner gets its input into a message and its result out of a  *)
(* reply (client.c): from the keyboard, a file or a number, or, if it was  *)
(* started with a number of rounds, from the file of its inputs.  The one  *)
(* array "message" serves all rounds, and is encrypted in place.           *)
(*                                                                         *)
(* A character is a string: "0", "1", "v" for the padding, "NUL", "enc"    *)
(* for one that encryption left, "unset", and others that a user types.    *)
(* DataOwner models the rounds with the server; here the server returns    *)
(* the input bits as they are, as for the circuit without gates.           *)
(***************************************************************************)
EXTENDS Integers, Sequences

CONSTANTS
  ID,               \* the client's number
  Sizes,            \* the bits that a client's input may have
  inputsize,        \* the bytes of a message without the number
  WIDTH,            \* the bits of an unsigned long long (64)
  Strings,          \* what a user may type
  Contents,         \* what a file may hold, or NoFile
  inputFiles,       \* what the files "input<n>" hold
  NoFile,
  iterations        \* bound: the rounds of a run

ASSUME SizeAssumption ==
  /\ inputsize \in Nat \ {0} /\ WIDTH \in Nat \ {0}
  /\ Sizes \subseteq 1..inputsize
ASSUME IDAssumption == ID \in 0..99
ASSUME StringsAssumption == \A s \in Strings : Len(s) > 0   \* scanf skips white space

VARIABLES
  pc, round,
  clientinputsize,  \* arguments: the bits of an input,
  mode,         \* and "interactive" or "iterations"
  choice,       \* the way of input
  message,      \* from message[1] on
  BUF,          \* what was read from the file of inputs
  overrun,      \* was an array written past its end?
  wanted,       \* auxiliary: the input that the user specified, or <<>>
  number,       \* auxiliary: the number that the user typed
  sent,         \* the input that was sent
  shown         \* the number that was printed

args == <<clientinputsize, mode>>
vars == <<args, pc, round, choice, message, BUF, overrun, wanted, number, sent, shown>>

Input == 1..clientinputsize
Binary(s) == \A k \in DOMAIN s : s[k] \in {"0", "1"}

(* The characters cs are written to the array a from cell o on. *)
Written(a, o, cs) ==
  [k \in DOMAIN a |-> IF k - o + 1 \in DOMAIN cs THEN cs[k - o + 1] ELSE a[k]]
Past(a, o, cs) == \E k \in DOMAIN cs : o + k - 1 \notin DOMAIN a

(* ReadFile: what the file holds, "size" characters at most, and a zero    *)
(* byte at msg[size] in any case.                                          *)
ReadFile(content, a, o, size) ==
  IF content = NoFile THEN a
  ELSE LET read == SubSeq(content, 1, IF Len(content) < size THEN Len(content) ELSE size)
       IN  Written(Written(a, o, read), o + size, <<"NUL">>)

(* A mutant: the highest bit first. *)
DecToBinHighFirst(v, len) ==
  [k \in 1..len |-> IF (v \div 2^(len - k)) % 2 = 1 THEN "1" ELSE "0"]

(* The division starts at the last cell, with g = 2^(len-1), which must    *)
(* not overflow; v[k] is what is left for the cells up to k.               *)
DecToBin(v, len) ==
  LET left[k \in 1..len] == IF k = len THEN v ELSE left[k + 1] % 2^k
  IN  [k \in 1..len |-> IF left[k] \div 2^(k - 1) > 0 THEN "1" ELSE "0"]

(* A mutant: g is doubled once more. *)
DivisionByZeroSooner(len) == 2^len % 2^WIDTH = 0

DivisionByZero(len) == 2^(len - 1) % 2^WIDTH = 0

(* power and val are unsigned and wrap. *)
BinToDec(arr, len) ==
  LET val[k \in 0..len] ==
        IF k = 0 THEN 0
        ELSE (val[k - 1] + (IF arr[k] = 1 THEN 2^(k - 1) ELSE 0)) % 2^WIDTH
  IN  val[len]

(* An unsigned number that is printed as a signed one (%ld). *)
Signed(v) == IF v >= 2^(WIDTH - 1) THEN v - 2^WIDTH ELSE v

(* Only the first character of the number gets into the file's name. *)
FirstDigit(n) == IF n < 10 THEN n ELSE n \div 10

-----------------------------------------------------------------------------

Init ==
  /\ pc = "start" /\ round = 0
  /\ mode \in {"interactive", "iterations"} /\ clientinputsize \in Sizes
  /\ choice = "none"
  /\ message = [k \in 1..(inputsize + 1) |-> "unset"]
  /\ BUF = <<>>
  /\ overrun = FALSE
  /\ wanted = <<>> /\ number = 0 /\ sent = <<>> /\ shown = 0

(* With a number of rounds: BUF has just room for the digits. *)
Start ==
  /\ pc = "start"
  /\ LET size == iterations * clientinputsize
         blank == [k \in 1..size |-> "unset"]
         content == inputFiles[FirstDigit(ID)]
     IN  IF mode = "iterations"
         THEN /\ BUF' = ReadFile(content, blank, 1, size)
              /\ overrun' = (content # NoFile)
         ELSE UNCHANGED <<BUF, overrun>>
  /\ pc' = "round"
  /\ UNCHANGED <<args, round, choice, message, wanted, number, sent, shown>>

(* The padding is written first. *)
Padded ==
  [k \in DOMAIN message |->
     IF k \in (clientinputsize + 1)..inputsize THEN "v" ELSE message[k]]

FirstBits(s) == IF Len(s) < clientinputsize THEN <<>> ELSE SubSeq(s, 1, clientinputsize)

(* %s has no width: a string that is too long runs over the stack behind   *)
(* the message, and nothing is known of the program from there on.         *)
TypeString ==
  \E s \in Strings :
    LET past == Past(Padded, 1, Append(s, "NUL")) IN
      /\ message' = Written(Padded, 1, Append(s, "NUL"))
      /\ overrun' = (overrun \/ past)
      /\ wanted' = FirstBits(s)
      /\ choice' = "string" /\ pc' = IF past THEN "undefined" ELSE "check"
      /\ UNCHANGED number

(* A mutant: a file may fill the whole message. *)
NameFileWhole ==
  \E f \in Contents :
    /\ message' = ReadFile(f, Padded, 1, inputsize + 1)
    /\ overrun' = (overrun \/ Past(Padded, inputsize + 2, <<"NUL">>))
    /\ wanted' = IF f = NoFile THEN <<>> ELSE FirstBits(f)
    /\ choice' = "file" /\ pc' = "check"
    /\ UNCHANGED number

NameFile ==
  \E f \in Contents :
    /\ message' = ReadFile(f, Padded, 1, clientinputsize)
    /\ overrun' = (overrun \/ Past(Padded, clientinputsize + 1, <<"NUL">>))
    /\ wanted' = IF f = NoFile THEN <<>> ELSE FirstBits(f)
    /\ choice' = "file" /\ pc' = "check"
    /\ UNCHANGED number

(* A name of more characters than z has room for. *)
NameTooLong ==
  /\ message' = Padded
  /\ overrun' = TRUE
  /\ wanted' = <<>>
  /\ choice' = "file" /\ pc' = "undefined"
  /\ UNCHANGED number

(* The bits of a number, the lowest first. *)
Bits(y) ==
  [k \in Input |-> IF (y \div 2^(k - 1)) % 2 = 1 THEN "1" ELSE "0"]

TypeNumber ==
  \E y \in 0..(2^WIDTH - 1) :
    /\ number' = y
    /\ IF DivisionByZero(clientinputsize)
       THEN pc' = "crashed" /\ message' = Padded /\ wanted' = <<>>
       ELSE /\ message' = Written(Padded, 1, DecToBin(y, clientinputsize))
            /\ wanted' = Bits(y)
            /\ pc' = "check"
    /\ choice' = "number"
    /\ UNCHANGED overrun

(* Any other choice leaves the array as it is. *)
TypeNothing ==
  /\ message' = Padded
  /\ wanted' = <<>>
  /\ choice' = "none" /\ pc' = "check"
  /\ UNCHANGED <<overrun, number>>

GetInput ==
  /\ pc = "round" /\ round < iterations /\ mode = "interactive"
  /\ TypeString \/ NameFile \/ NameTooLong \/ TypeNumber \/ TypeNothing
  /\ UNCHANGED <<args, round, BUF, sent, shown>>

(* The input of round r is the r-th part of the client's own file. *)
CopyInput ==
  /\ pc = "round" /\ round < iterations /\ mode = "iterations"
  /\ LET o == clientinputsize * round IN
       /\ message' = Written(Padded, 1, SubSeq(BUF, o + 1, o + clientinputsize))
       /\ wanted' = IF inputFiles[ID] = NoFile \/ Len(inputFiles[ID]) < o THEN <<>>
                    ELSE FirstBits(SubSeq(inputFiles[ID], o + 1, Len(inputFiles[ID])))
  /\ pc' = "check"
  /\ UNCHANGED <<args, round, choice, BUF, overrun, number, sent, shown>>

(* Only the first character is looked at; one that nobody has written may  *)
(* be any.  In the end BUF is freed, which may never have been set.        *)
Leave ==
  /\ \/ pc = "check" /\ message[1] \notin {"0", "1"}
     \/ pc = "round" /\ round = iterations
  /\ \/ pc' = "ended"
     \/ mode = "interactive" /\ pc' = "aborted"
  /\ UNCHANGED <<args, round, choice, message, BUF, overrun, wanted, number, sent, shown>>

Terminated == Written(message, inputsize + 1, <<"NUL">>)


Send ==
  /\ pc = "check" /\ message[1] \in {"0", "1", "enc", "unset"}
  /\ sent' = [k \in Input |-> message[k]]
  /\ message' = [k \in DOMAIN message |->
                   IF k <= inputsize THEN "enc" ELSE Terminated[k]]
  /\ pc' = "recv"
  /\ UNCHANGED <<args, round, choice, BUF, overrun, wanted, number, shown>>

(* The reply's bits are numbers, not digits; to an input that is not       *)
(* binary nothing meaningful comes back.  Without a choice, the variable   *)
(* was never set, and may hold the one for a number.                       *)
Receive ==
  /\ pc = "recv"
  /\ LET reply == [k \in Input |-> IF sent[k] = "1" THEN 1 ELSE 0] IN
       \/ /\ choice = "number" \/ mode = "iterations"
          /\ shown' = Signed(BinToDec(reply, clientinputsize))
       \/ choice # "number" /\ shown' = 0
  /\ pc' = "shown"
  /\ UNCHANGED <<args, round, choice, message, BUF, overrun, wanted, number, sent>>

NextRound ==
  /\ pc = "shown"
  /\ pc' = "round" /\ round' = round + 1
  /\ UNCHANGED <<args, choice, message, BUF, overrun, wanted, number, sent, shown>>

Returned == pc \in {"ended", "aborted", "crashed", "undefined"} /\ UNCHANGED vars

Next ==
  \/ Start \/ GetInput \/ CopyInput \/ Send \/ Receive \/ NextRound
  \/ Leave \/ Returned

Spec == Init /\ [][Next]_vars

-----------------------------------------------------------------------------

InRange == choice = "number" => number < 2^clientinputsize


(* A number comes back as it went, for the order of bits of DecToBin is    *)
(* the one of BinToDec; but it is printed as a signed number, and from     *)
(* half the range of the type on what is shown is negative.                *)
NumberComesBack ==
  pc = "shown" /\ choice = "number" /\ InRange =>
    shown = IF number < 2^(WIDTH - 1) THEN number ELSE number - 2^WIDTH

(* The program dies on a number exactly if its input has more bits than    *)
(* the type.  An array is written past its end by the zero byte behind the *)
(* file of inputs, and else by what the user typed: by a name, or by a     *)
(* string, exactly if that does not end within the message.                *)
OnlyKnownFaults ==
  /\ pc = "crashed" => clientinputsize > WIDTH
  /\ pc \in {"check", "recv", "shown"} /\ choice = "number" => clientinputsize <= WIDTH
  /\ overrun => mode = "iterations" \/ pc = "undefined"
  /\ choice = "string" /\ pc \in {"check", "undefined"} =>
       (overrun <=> \A k \in DOMAIN message : message[k] # "NUL")
=============================================================================
