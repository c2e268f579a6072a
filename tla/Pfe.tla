--------------------------------- MODULE Pfe ---------------------------------
(***************************************************************************)
(* What the system promises: in each round every client submits an input,  *)
(* the program owner supplies a program, the program is evaluated once on  *)
(* the inputs of that round, and every client gets the result before it    *)
(* submits again.  Inputs and programs are numbered by their rounds.       *)
(***************************************************************************)
EXTENDS Integers, Sequences

CONSTANTS Clients, Rounds

VARIABLES
  inputs,     \* the number of inputs that each client has submitted
  programs,   \* the number of programs that were supplied
  evaluated,  \* the number of the last round that was evaluated
  answers     \* the results that each client has received

vars == <<inputs, programs, evaluated, answers>>

Result(n) == [program |-> n, inputs |-> [c \in Clients |-> n]]

Init ==
  /\ inputs = [c \in Clients |-> 0]
  /\ programs = 0
  /\ evaluated = 0
  /\ answers = [c \in Clients |-> <<>>]

Submit(c) ==
  /\ inputs[c] < Rounds
  /\ inputs[c] = Len(answers[c])
  /\ inputs' = [inputs EXCEPT ![c] = @ + 1]
  /\ UNCHANGED <<programs, evaluated, answers>>

Supply ==
  /\ programs < Rounds
  /\ programs = evaluated
  /\ programs' = programs + 1
  /\ UNCHANGED <<inputs, evaluated, answers>>

Evaluate ==
  /\ programs = evaluated + 1
  /\ \A c \in Clients : inputs[c] = evaluated + 1
  /\ evaluated' = evaluated + 1
  /\ UNCHANGED <<inputs, programs, answers>>

Answer(c) ==
  /\ Len(answers[c]) < evaluated
  /\ answers' = [answers EXCEPT ![c] = Append(@, Result(evaluated))]
  /\ UNCHANGED <<inputs, programs, evaluated>>

Next ==
  \/ \E c \in Clients : Submit(c) \/ Answer(c)
  \/ Supply
  \/ Evaluate

Spec == Init /\ [][Next]_vars
=============================================================================
