----------------------------- MODULE MCAssemble -----------------------------
(* Instances of Assemble for TLC. *)
EXTENDS Assemble, TLC

CONSTANTS w1, w2, f, u1, u2

\* A file of two passages, and turns of one and of three lines.
Docs == {f, u1, u2}
Turns == <<u1, u2>>
TurnRoles == <<"user", "assistant">>
NoBlank == [d \in Docs |-> [i \in 1 .. 4 |-> FALSE]]
Passage(i, j, focus) ==
    [first |-> i, last |-> j, section |-> 0, terms |-> {}, anchor |-> <<0, 1>>, focus |-> focus]
DocPassages == [d \in Docs |->
    IF d = f THEN <<Passage(1, 2, <<2>>), Passage(3, 4, <<>>)>>
    ELSE IF d = u2 THEN <<Passage(1, 3, <<2>>)>> ELSE <<Passage(1, 1, <<1>>)>>]
NoSections == [d \in Docs |-> <<>>]
Hit(d, i, s) == [doc |-> d, idx |-> i, score |-> s, exempt |-> FALSE]
Relevance == <<Hit(u1, 1, 100), Hit(f, 2, 80), Hit(u2, 1, 60)>>
=============================================================================
