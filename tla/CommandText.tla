---------------------------- MODULE CommandText ----------------------------
(***************************************************************************)
(* The text after /coffee, api/slack_runs/parsers.py, as operators.        *)
(*                                                                         *)
(* shlex.split makes tokens of the text, or raises if a quote is not       *)
(* closed (Unsplittable).  A token with "=" is a parameter: its key, in    *)
(* any case, is "pickup" (or pickup_time), "note" (or pickup_note) or      *)
(* another; its value can be read or not (as a time; as a note of at most  *)
(* 120 characters).  Any other token is a "word".                          *)
(***************************************************************************)
EXTENDS SequencesExt

CONSTANTS
    Values,         \* values that can be read
    Unreadable,     \* a value that cannot
    Unset,          \* an option that is None
    Unsplittable    \* a text with a quote left open

ASSUME CommandTextAssumption ==
    /\ Unreadable \notin Values
    /\ Unset \notin Values

Keys == {"pickup", "note"}

Token == [key : Keys \cup {"other", "word"}, value : Values \cup {Unreadable}]

NoOptions == [pickup |-> Unset, note |-> Unset, errors |-> FALSE]

\* One turn of the loop over the tokens.
Apply(options, token) ==
    CASE token.key = "word" -> options
      [] token.key \in Keys /\ token.value \in Values ->
            [options EXCEPT ![token.key] = token.value]
      [] OTHER -> [options EXCEPT !.errors = TRUE]

\* parse_command_text, of a text that can be split.
Parsed(text) == FoldLeft(Apply, NoOptions, text)

Raises(text) == text = Unsplittable

HasErrors(text) == ~Raises(text) /\ Parsed(text).errors

Accepted(text) == ~Raises(text) /\ ~Parsed(text).errors

-----------------------------------------------------------------------------
(* What the texts mean, without the loop *)

WellFormed(text) ==
    /\ text # Unsplittable
    /\ \A i \in DOMAIN text :
          \/ text[i].key = "word"
          \/ text[i].key \in Keys /\ text[i].value \in Values

\* The value asked for under a key: the last one given.
Asked(text, key) ==
    LET given == {i \in DOMAIN text : text[i].key = key}
    IN  IF given = {} THEN Unset ELSE text[Max(given)].value

\* The parser accepts the well formed texts and reads them right.
ReadsRight(text) ==
    /\ Accepted(text) <=> WellFormed(text)
    /\ Accepted(text) => \A key \in Keys : Parsed(text)[key] = Asked(text, key)
=============================================================================
