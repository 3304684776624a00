------------------------------- MODULE Inputs -------------------------------
(* Inputs of pure functions, growing by one element at a time. A case is a way *)
(* an input comes about; a property of a case says what the code computes from *)
(* every input of that case.                                                   *)
EXTENDS Integers, Sequences

CONSTANTS
  Elements,  \* for each case, what its input may grow by
  MaxInput   \* bound: for each case, the length of its input

VARIABLES case, input

inputVars == <<case, input>>

InputInit == case \in DOMAIN Elements /\ input = <<>>

Grow ==
  /\ case \in DOMAIN MaxInput /\ Len(input) < MaxInput[case]
  /\ \E e \in Elements[case] : input' = Append(input, e)
  /\ UNCHANGED case
==============================================================================
