----------------------------- MODULE InputEditor -----------------------------
(***************************************************************************)
(* The keyboard path implements the line editor: the keys not yet applied  *)
(* are those encoded by the bytes that input() has begun to parse followed *)
(* by the bytes in kbd0.                                                   *)
(***************************************************************************)
EXTENDS Input

\* The key of ESC [ c and of ESC [ c ~.
Letter == ("A" :> "ARROW_UP") @@ ("B" :> "ARROW_DOWN") @@ ("C" :> "ARROW_RIGHT") @@
          ("D" :> "ARROW_LEFT") @@ ("H" :> "HOME") @@ ("F" :> "END")
Number == ("2" :> "INSERT") @@ ("3" :> "DELETE")

\* The keys that a byte sequence encodes.
RECURSIVE Decode(_)
Decode(s) ==
  IF s = <<>> THEN <<>>
  ELSE IF s[1] # "ESC" THEN <<s[1]>> \o Decode(Tail(s))
  ELSE IF s[3] \in DOMAIN Letter THEN <<Letter[s[3]]>> \o Decode(SubSeq(s, 4, Len(s)))
  ELSE <<Number[s[3]]>> \o Decode(SubSeq(s, 5, Len(s)))

\* The bytes of the sequence input() is reading.
Parsed == CASE pc = "esc1" -> <<"ESC">>
            [] pc = "esc2" -> <<"ESC", b1>>
            [] pc = "esc3" -> <<"ESC", b1, b2>>
            [] OTHER -> <<>>

Line(from, to) == [i \in 1..(to - from) |-> g_line_buf[from + i - 1]]

Editor == INSTANCE LineEditor WITH
            Characters <- Chars \ {"LF", "BS", NUL},
            Controls <- {"LF", "BS", "ARROW_UP", "ARROW_DOWN", "ARROW_LEFT", "ARROW_RIGHT", "HOME",
                         "END", "INSERT", "DELETE"},
            MaxLen <- INPUT_LINE_MAX - 1,
            keys <- IF pc = "flush_kbd0" THEN <<>> ELSE Decode(Parsed \o Contents(g_kbd0, KBD_SIZE)),
            left <- Line(0, g_line_cursor),
            right <- Line(g_line_cursor, g_line_len),
            editing <- pc \in {"read", "esc1", "esc2", "esc3"}

\* From the scan codes on the wire to the line that input() returns, keys are applied in
\* order, none twice, none as another, and none before the previous one is finished.
ImplementsEditor == Editor!Spec
=============================================================================
