--------------------------- MODULE OrderedStream ---------------------------
(***************************************************************************)
(* What a reliable ordered channel promises in one direction: the receiver *)
(* is handed the items in the order they were put in, none skipped and     *)
(* none twice.  Several may be handed over in one step.                    *)
(***************************************************************************)
EXTENDS Naturals, Sequences

CONSTANT Items

VARIABLES input, output

Init == input = <<>> /\ output = <<>>

Put == /\ \E i \in Items : input' = Append(input, i)
       /\ UNCHANGED output

Take == /\ \E n \in Len(output) + 1 .. Len(input) : output' = SubSeq(input, 1, n)
        /\ UNCHANGED input

Next == Put \/ Take

Spec == Init /\ [][Next]_<<input, output>>
=============================================================================
