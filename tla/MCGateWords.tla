----------------------------- MODULE MCGateWords ----------------------------
(* Every message of one clause with one or two words, and the prohibition  *)
(* of each word.                                                           *)
EXTENDS GateWords

MCMessages ==
    {<<[words |-> {v, w}, negated |-> FALSE]>> : v, w \in Vocabulary}
        \cup {<<[words |-> {w}, negated |-> TRUE]>> : w \in Vocabulary}
=============================================================================
