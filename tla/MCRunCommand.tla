---------------------------- MODULE MCRunCommand ----------------------------
(***************************************************************************)
(* RunCommand with commands that ask for a time twice, one whose text has  *)
(* an error and one whose text cannot be split.                            *)
(***************************************************************************)
EXTENDS RunCommand

CONSTANTS plain, amended, flawed, broken, noon, one

Pickup(value) == [key |-> "pickup", value |-> value]

Note(value) == [key |-> "note", value |-> value]

Other(value) == [key |-> "other", value |-> value]

Word(value) == [key |-> "word", value |-> value]

MCTextOf ==
    [c \in Commands |->
        CASE c = plain -> <<>>
          [] c = amended -> <<Pickup(noon), Word(noon), Note(one), Pickup(one)>>
          [] c = flawed -> <<Pickup(noon), Other(one), Note(noon)>>
          [] c = broken -> Unsplittable]

\* The parser accepts the texts of up to three tokens that are well formed,
\* and no others, and reads each as asked: the last value of a parameter
\* counts, wherever it stands among the others.
ASSUME ParserReadsRight ==
    \A text \in UNION {[1..n -> Token] : n \in 0..3} \cup {Unsplittable} :
        ReadsRight(text)
=============================================================================
