---------------------------- MODULE MCClientInput ----------------------------
(* TLC instances of ClientInput: all strings that fit in a message, those   *)
(* that are one character too long, and all files of up to four digits.    *)
EXTENDS ClientInput, TLC

MCChars == {"0", "1", "x"}
MCStrings == UNION {[1..n -> MCChars] : n \in 1..(inputsize + 1)}
MCContents == {NoFile} \cup UNION {[1..n -> {"0", "1"}] : n \in 0..4}

(* The file of client 1 is short of two rounds of more than two bits.      *)
MCFiles == 1 :> <<"1", "0", "0", "1", "1">> @@ 10 :> <<"0", "1", "1", "1">>
=============================================================================
