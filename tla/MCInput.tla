------------------------------ MODULE MCInput ------------------------------
(***************************************************************************)
(* Keyboards of a few keys for the runs of Input.                          *)
(***************************************************************************)
EXTENDS InputEditor

Key(code) == [ext |-> FALSE, code |-> code]
ExtKey(code) == [ext |-> TRUE, code |-> code]

\* Two characters, backspace, Enter, and navigation keys.
EditingKeys == {Key("1C"), Key("69"), Key("66"), Key("5A"), ExtKey("6B"), ExtKey("71"), ExtKey("6C"),
                ExtKey("74")}

\* A character, both shift keys and the E0 12 code, both control keys, Enter, an arrow.
ShiftKeys == {Key("1C"), Key("12"), Key("59"), ExtKey("12"), Key("14"), ExtKey("14"), Key("5A"),
              ExtKey("6B")}

\* An arrow and Enter.
ArrowKeys == {ExtKey("6B"), Key("5A")}
=============================================================================
