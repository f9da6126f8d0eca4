-------------------------------- MODULE Input --------------------------------
(***************************************************************************)
(* The keyboard path: the PS/2 interrupt handler decodes scan code bytes,  *)
(* pushes each key event to the global event queue and to                  *)
(* $/dev/input/event0, and its characters or escape sequence to            *)
(* $/dev/input/kbd0; input() edits a line from the bytes of kbd0; other    *)
(* programs read kbd0 through their own handles.                           *)
(*                                                                         *)
(* input() and the blocking reads never call schedule(), so a program runs *)
(* only outside input().  Interrupts come between any two byte reads.  How *)
(* a blocking read halts is module EventQueue's subject: here it is a step *)
(* that waits for a byte.  Echoing to the screen is not modelled.          *)
(***************************************************************************)
EXTENDS Ring, FiniteSets, TLC

CONSTANTS
  Keys,              \* the keys of the keyboard, [ext, code]
  MaxKeys,           \* bound on the key strokes
  Programs,          \* programs that read kbd0 themselves
  EVENT_QUEUE_SIZE,  \* slots of g_event_queue
  EVT_SIZE,          \* slots of g_evt0
  KBD_SIZE,          \* slots of g_kbd0
  INPUT_LINE_MAX     \* size of g_line_buf

VARIABLES
  \* the keyboard
  wire,              \* bytes of the current key stroke not yet taken by the handler
  held,              \* keys that are down
  strokes,           \* strokes so far
  \* ps2.c and events.c
  extended, break_code, shifted, g_modifier_state, g_event_queue,
  \* devfs.c
  g_kbd0, g_evt0,
  nonblock,          \* O_NONBLOCK in g_kbd0.flags
  handle,            \* how each program opened kbd0
  got,               \* what each program's last read returned
  \* input.c
  g_line_buf, g_line_len, g_line_cursor,
  pc,                \* where input() is
  b1, b2             \* the bytes of an escape sequence it has read

decoder_vars == <<extended, break_code, shifted, g_modifier_state>>
keyboard_vars == <<wire, held, strokes>>
line_vars == <<g_line_buf, g_line_len, g_line_cursor>>
program_vars == <<handle, got>>
vars == <<wire, held, strokes, extended, break_code, shifted, g_modifier_state, g_event_queue,
          g_kbd0, g_evt0, nonblock, handle, got, g_line_buf, g_line_len, g_line_cursor,
          pc, b1, b2>>

NUL == "NUL"
-----------------------------------------------------------------------------
(***************************************************************************)
(* Scan code set 2, for the keys a line editor tells apart.  Without the   *)
(* E0 prefix the navigation codes are those of the keypad.                 *)
(***************************************************************************)
StandardKeycodes ==
  ("66" :> "BACKSPACE") @@ ("5A" :> "ENTER") @@ ("12" :> "LEFT_SHIFT") @@
  ("59" :> "RIGHT_SHIFT") @@ ("14" :> "LEFT_CTRL")

ExtendedKeycodes ==
  ("75" :> "ARROW_UP") @@ ("72" :> "ARROW_DOWN") @@ ("6B" :> "ARROW_LEFT") @@
  ("74" :> "ARROW_RIGHT") @@ ("6C" :> "HOME") @@ ("69" :> "END") @@
  ("70" :> "INSERT") @@ ("71" :> "DELETE") @@ ("14" :> "RIGHT_CTRL")

scancode_to_keycode(code, ext) ==
  LET table == IF ext THEN ExtendedKeycodes ELSE StandardKeycodes
  IN  IF code \in DOMAIN table THEN table[code] ELSE "UNKNOWN"

extended_scancode_map ==
  ("69" :> "1") @@ ("71" :> ".") @@ ("72" :> "2") @@ ("74" :> "6") @@ ("75" :> "8")

scancode_map ==
  ("1C" :> "a") @@ ("5A" :> "LF") @@ ("66" :> "BS") @@ ("6B" :> "4") @@ ("6C" :> "7") @@
  ("70" :> "0") @@ extended_scancode_map

shifted_scancode_map == ("1C" :> "A") @@ scancode_map

scancode_to_char(code, ext, shift) ==
  LET table == IF ext THEN extended_scancode_map
               ELSE IF shift THEN shifted_scancode_map ELSE scancode_map
  IN  IF code \in DOMAIN table THEN table[code] ELSE NUL

Chars == {"a", "A", "1", ".", "2", "6", "8", "4", "7", "0", "LF", "BS", NUL}
Bytes == Chars \cup {"ESC", "[", "~", "B", "C", "D", "H", "F", "3"}
Modifiers == {"SHIFT", "CTRL"}

Event(pressed, keycode, ascii, mods) ==
  [pressed |-> pressed, keycode |-> keycode, ascii |-> ascii, modifiers |-> mods]

NoEvent == Event(FALSE, "UNKNOWN", NUL, {})

\* event_update_modifiers(): the modifiers after the event.
ModifiersAfter(mods, keycode, pressed) ==
  LET bit == CASE keycode \in {"LEFT_SHIFT", "RIGHT_SHIFT"} -> {"SHIFT"}
               [] keycode \in {"LEFT_CTRL", "RIGHT_CTRL"} -> {"CTRL"}
               [] OTHER -> {}
  IN  IF pressed THEN mods \cup bit ELSE mods \ bit

\* The sequence of Delete has no final ~.
SequenceEndBug ==
  ("ARROW_UP" :> <<"A">>) @@ ("ARROW_DOWN" :> <<"B">>) @@ ("ARROW_RIGHT" :> <<"C">>) @@
  ("ARROW_LEFT" :> <<"D">>) @@ ("HOME" :> <<"H">>) @@ ("END" :> <<"F">>) @@
  ("INSERT" :> <<"2", "~">>) @@ ("DELETE" :> <<"3">>)

\* How an escape sequence continues after ESC [.
SequenceEnd ==
  ("ARROW_UP" :> <<"A">>) @@ ("ARROW_DOWN" :> <<"B">>) @@ ("ARROW_RIGHT" :> <<"C">>) @@
  ("ARROW_LEFT" :> <<"D">>) @@ ("HOME" :> <<"H">>) @@ ("END" :> <<"F">>) @@
  ("INSERT" :> <<"2", "~">>) @@ ("DELETE" :> <<"3", "~">>)

\* What devfs_input_push_event() writes to kbd0 for a pressed key.
KbdBytes(keycode, ascii) ==
  CASE keycode \in DOMAIN SequenceEnd -> <<"ESC", "[">> \o SequenceEnd[keycode]
    [] keycode = "ENTER" /\ ascii = NUL -> <<"LF">>
    [] keycode = "BACKSPACE" /\ ascii = NUL -> <<"BS">>
    [] OTHER -> IF ascii = NUL THEN <<>> ELSE <<ascii>>

\* The bytes of s pushed one by one; each is dropped if the ring is full.
PushAll(q, n, s) ==
  LET pushed[i \in 0..Len(s)] == IF i = 0 THEN q ELSE Push(pushed[i - 1], n, s[i])
  IN  pushed[Len(s)]
-----------------------------------------------------------------------------
(***************************************************************************)
(* The keyboard: a stroke presses a key (or repeats one that is down) or   *)
(* releases one, and sends its bytes before the next stroke.               *)
(***************************************************************************)
Prefix(k) == IF k.ext THEN <<"E0">> ELSE <<>>

Stroke(k, pressed) ==
  /\ wire = <<>> /\ strokes < MaxKeys
  /\ pressed \/ k \in held
  /\ held' = IF pressed THEN held \cup {k} ELSE held \ {k}
  /\ strokes' = strokes + 1
  /\ wire' = Prefix(k) \o (IF pressed THEN <<>> ELSE <<"F0">>) \o <<k.code>>
  /\ UNCHANGED <<decoder_vars, g_event_queue, g_kbd0, g_evt0, nonblock, program_vars,
                 line_vars, pc, b1, b2>>

\* keyboard_irq_handler() on a prefix byte.
IrqPrefix ==
  /\ wire # <<>> /\ Head(wire) \in {"E0", "F0"}
  /\ wire' = Tail(wire)
  /\ extended' = (extended \/ Head(wire) = "E0")
  /\ break_code' = (break_code \/ Head(wire) = "F0")
  /\ UNCHANGED <<held, strokes, shifted, g_modifier_state, g_event_queue, g_kbd0, g_evt0,
                 nonblock, program_vars, line_vars, pc, b1, b2>>

\* The prefix E0 is kept after a release; without and with the E0 prefix 12 is a shift key.
ForgetPrefixesBug == extended' = (extended /\ break_code) /\ break_code' = FALSE
ShiftedAfterBug(code) == IF code \in {"12", "59"} THEN ~break_code ELSE shifted

ForgetPrefixes == extended' = FALSE /\ break_code' = FALSE
ShiftedAfter(code) == IF ~extended /\ code \in {"12", "59"} THEN ~break_code ELSE shifted

\* keyboard_irq_handler() on a key code: event_push(), devfs_input_push_event(), then the
\* shift state; the prefixes are forgotten on every path.
IrqKey ==
  /\ wire # <<>> /\ Head(wire) \notin {"E0", "F0"}
  /\ LET code == Head(wire)
         keycode == scancode_to_keycode(code, extended)
         ascii == IF break_code THEN NUL ELSE scancode_to_char(code, extended, shifted)
         event == Event(~break_code, keycode, ascii, g_modifier_state)
     IN  /\ g_modifier_state' = ModifiersAfter(g_modifier_state, keycode, ~break_code)
         /\ g_event_queue' = Push(g_event_queue, EVENT_QUEUE_SIZE, event)
         /\ g_evt0' = Push(g_evt0, EVT_SIZE, event)
         /\ g_kbd0' = IF break_code THEN g_kbd0
                      ELSE PushAll(g_kbd0, KBD_SIZE, KbdBytes(keycode, ascii))
         /\ shifted' = ShiftedAfter(code)
  /\ wire' = Tail(wire)
  /\ ForgetPrefixes
  /\ UNCHANGED <<held, strokes, nonblock, program_vars, line_vars, pc, b1, b2>>
-----------------------------------------------------------------------------
(***************************************************************************)
(* input().  The line buffer is edited in place.                           *)
(***************************************************************************)
InputStart ==
  /\ pc = "prompt"
  /\ g_line_len' = 0 /\ g_line_cursor' = 0
  /\ g_line_buf' = [g_line_buf EXCEPT ![0] = NUL]
  /\ nonblock' = FALSE
  /\ pc' = "read"
  /\ UNCHANGED <<keyboard_vars, decoder_vars, g_event_queue, g_kbd0, g_evt0, program_vars, b1, b2>>

\* The one-byte blocking read of kbd0; c is the byte.
ReadByte(c) ==
  /\ g_kbd0.count > 0 /\ c = First(g_kbd0)
  /\ g_kbd0' = Pop(g_kbd0, KBD_SIZE)
  /\ UNCHANGED <<keyboard_vars, decoder_vars, g_event_queue, g_evt0, nonblock, program_vars>>

\* memmove(&g_line_buf[to], &g_line_buf[from], n), on buffer buf.
Memmove(buf, to, from, n) ==
  [i \in DOMAIN buf |-> IF i >= to /\ i < to + n THEN buf[i - to + from] ELSE buf[i]]

\* The new length and cursor, and buf with its terminator.
SetLine(buf, len, cursor) ==
  /\ g_line_buf' = [buf EXCEPT ![len] = NUL]
  /\ g_line_len' = len
  /\ g_line_cursor' = cursor

MoveCursor(cursor) == g_line_cursor' = cursor /\ UNCHANGED <<g_line_buf, g_line_len>>

\* No room is kept for the terminator.
InsertBug(c) ==
  IF g_line_len < INPUT_LINE_MAX
  THEN LET moved == Memmove(g_line_buf, g_line_cursor + 1, g_line_cursor, g_line_len - g_line_cursor)
       IN  SetLine([moved EXCEPT ![g_line_cursor] = c], g_line_len + 1, g_line_cursor + 1)
  ELSE UNCHANGED line_vars

Insert(c) ==
  IF g_line_len + 1 < INPUT_LINE_MAX
  THEN LET moved == Memmove(g_line_buf, g_line_cursor + 1, g_line_cursor, g_line_len - g_line_cursor)
       IN  SetLine([moved EXCEPT ![g_line_cursor] = c], g_line_len + 1, g_line_cursor + 1)
  ELSE UNCHANGED line_vars

Backspace ==
  IF g_line_cursor > 0
  THEN SetLine(Memmove(g_line_buf, g_line_cursor - 1, g_line_cursor, g_line_len - g_line_cursor),
               g_line_len - 1, g_line_cursor - 1)
  ELSE UNCHANGED line_vars

\* One character too few is moved.
DeleteBug ==
  IF g_line_cursor < g_line_len
  THEN SetLine(Memmove(g_line_buf, g_line_cursor, g_line_cursor + 1, g_line_len - g_line_cursor - 2),
               g_line_len - 1, g_line_cursor)
  ELSE UNCHANGED line_vars

Delete ==
  IF g_line_cursor < g_line_len
  THEN SetLine(Memmove(g_line_buf, g_line_cursor, g_line_cursor + 1, g_line_len - g_line_cursor - 1),
               g_line_len - 1, g_line_cursor)
  ELSE UNCHANGED line_vars

\* The first byte of a turn of input()'s loop.
InputRead(c) ==
  /\ pc = "read" /\ ReadByte(c)
  /\ \/ c = "ESC" /\ pc' = "esc1" /\ UNCHANGED line_vars
     \/ c = "LF" /\ pc' = "flush_events" /\ SetLine(g_line_buf, g_line_len, g_line_cursor)
     \/ c = "BS" /\ pc' = "read" /\ Backspace
     \/ c \notin {"ESC", "LF", "BS"} /\ pc' = "read" /\ Insert(c)
  /\ UNCHANGED <<b1, b2>>

\* The byte after ESC.
InputEsc1(c) ==
  /\ pc = "esc1" /\ ReadByte(c)
  /\ b1' = c
  /\ pc' = "esc2"
  /\ UNCHANGED <<line_vars, b2>>

\* A final byte is awaited after every sequence.
InputEsc2Bug(c) ==
  /\ pc = "esc2" /\ ReadByte(c)
  /\ b2' = c
  /\ pc' = IF b1 = "[" THEN "esc3" ELSE "read"
  /\ UNCHANGED <<line_vars, b1>>

\* The third byte decides: a cursor movement, the start of ESC [ n ~, or unknown.
InputEsc2(c) ==
  /\ pc = "esc2" /\ ReadByte(c)
  /\ b2' = c
  /\ LET digit == b1 = "[" /\ c \in {"0", "1", "2", "3", "4", "6", "7", "8"}
     IN  /\ pc' = IF digit THEN "esc3" ELSE "read"
         /\ CASE b1 = "[" /\ c = "C" -> MoveCursor(IF g_line_cursor < g_line_len THEN g_line_cursor + 1
                                                                                ELSE g_line_cursor)
              [] b1 = "[" /\ c = "D" -> MoveCursor(IF g_line_cursor > 0 THEN g_line_cursor - 1 ELSE 0)
              [] b1 = "[" /\ c = "H" -> MoveCursor(0)
              [] b1 = "[" /\ c = "F" -> MoveCursor(g_line_len)
              [] OTHER -> UNCHANGED line_vars
  /\ UNCHANGED b1

InputEsc3(c) ==
  /\ pc = "esc3" /\ ReadByte(c)
  /\ IF c = "~" /\ b2 = "3" THEN Delete ELSE UNCHANGED line_vars
  /\ pc' = "read"
  /\ UNCHANGED <<b1, b2>>

\* input_flush_events(): one nonblocking read of event0.
InputFlushEvents ==
  /\ pc = "flush_events"
  /\ IF g_evt0.count > 0 THEN g_evt0' = Pop(g_evt0, EVT_SIZE) /\ UNCHANGED <<pc, nonblock>>
     ELSE pc' = "flush_kbd0" /\ nonblock' = TRUE /\ UNCHANGED g_evt0
  /\ UNCHANGED <<keyboard_vars, decoder_vars, g_event_queue, g_kbd0, program_vars, line_vars, b1, b2>>

\* Only one byte is read before input() returns.
InputFlushKbdBug ==
  /\ pc = "flush_kbd0"
  /\ g_kbd0' = IF g_kbd0.count > 0 THEN Pop(g_kbd0, KBD_SIZE) ELSE g_kbd0
  /\ pc' = "prompt"
  /\ UNCHANGED <<keyboard_vars, decoder_vars, g_event_queue, g_evt0, nonblock, program_vars,
                 line_vars, b1, b2>>

\* input_flush_kbd0(): one nonblocking read of kbd0; input() returns when there is none.
InputFlushKbd ==
  /\ pc = "flush_kbd0"
  /\ IF g_kbd0.count > 0 THEN g_kbd0' = Pop(g_kbd0, KBD_SIZE) /\ UNCHANGED pc
     ELSE pc' = "prompt" /\ UNCHANGED g_kbd0
  /\ UNCHANGED <<keyboard_vars, decoder_vars, g_event_queue, g_evt0, nonblock, program_vars,
                 line_vars, b1, b2>>
-----------------------------------------------------------------------------
(***************************************************************************)
(* Other programs: devfs_open_path() stores the open flags in the device,  *)
(* where every read finds them.                                            *)
(***************************************************************************)
ProgramOpen(p, flag) ==
  /\ pc = "prompt" /\ handle[p] = "closed"
  /\ handle' = [handle EXCEPT ![p] = IF flag THEN "nonblock" ELSE "blocking"]
  /\ nonblock' = flag
  /\ got' = [got EXCEPT ![p] = "none"]
  /\ UNCHANGED <<keyboard_vars, decoder_vars, g_event_queue, g_kbd0, g_evt0, line_vars, pc, b1, b2>>

\* dev_kbd_read() of one byte: nothing at once, or a byte when there is one.
ProgramRead(p) ==
  /\ pc = "prompt" /\ handle[p] # "closed"
  /\ \/ /\ nonblock /\ g_kbd0.count = 0
        /\ got' = [got EXCEPT ![p] = "nothing"]
        /\ UNCHANGED g_kbd0
     \/ /\ g_kbd0.count > 0
        /\ got' = [got EXCEPT ![p] = "byte"]
        /\ g_kbd0' = Pop(g_kbd0, KBD_SIZE)
  /\ UNCHANGED <<keyboard_vars, decoder_vars, g_event_queue, g_evt0, nonblock, handle, line_vars,
                 pc, b1, b2>>

ProgramClose(p) ==
  /\ pc = "prompt" /\ handle[p] # "closed"
  /\ handle' = [handle EXCEPT ![p] = "closed"]
  /\ got' = [got EXCEPT ![p] = "none"]
  /\ UNCHANGED <<keyboard_vars, decoder_vars, g_event_queue, g_kbd0, g_evt0, nonblock, line_vars,
                 pc, b1, b2>>
-----------------------------------------------------------------------------
Init ==
  /\ wire = <<>> /\ held = {} /\ strokes = 0
  /\ extended = FALSE /\ break_code = FALSE /\ shifted = FALSE
  /\ g_modifier_state = {}
  /\ g_event_queue = EmptyRing(EVENT_QUEUE_SIZE, NoEvent)
  /\ g_evt0 = EmptyRing(EVT_SIZE, NoEvent)
  /\ g_kbd0 = EmptyRing(KBD_SIZE, NUL)
  /\ nonblock = FALSE
  /\ handle = [p \in Programs |-> "closed"]
  /\ got = [p \in Programs |-> "none"]
  /\ g_line_buf = [i \in 0..(INPUT_LINE_MAX - 1) |-> NUL]
  /\ g_line_len = 0 /\ g_line_cursor = 0
  /\ pc = "prompt"
  /\ b1 = NUL /\ b2 = NUL

\* The steps of input() after its start.
InputStep ==
  \/ \E c \in Bytes : InputRead(c) \/ InputEsc1(c) \/ InputEsc2(c) \/ InputEsc3(c)
  \/ InputFlushEvents
  \/ InputFlushKbd

Next ==
  \/ \E k \in Keys, pressed \in BOOLEAN : Stroke(k, pressed)
  \/ IrqPrefix
  \/ IrqKey
  \/ InputStart
  \/ InputStep
  \/ \E p \in Programs, flag \in BOOLEAN : ProgramOpen(p, flag)
  \/ \E p \in Programs : ProgramRead(p) \/ ProgramClose(p)

Spec == Init /\ [][Next]_vars

\* Bytes on the wire raise interrupts, and input() keeps running.
FairSpec == Spec /\ WF_vars(IrqPrefix) /\ WF_vars(IrqKey) /\ WF_vars(InputStep)
-----------------------------------------------------------------------------
\* The type of every variable; the indices of kbd0 agree with its count.
TypeOK ==
  /\ held \subseteq Keys /\ strokes \in 0..MaxKeys
  /\ {extended, break_code, shifted, nonblock} \subseteq BOOLEAN
  /\ g_modifier_state \subseteq Modifiers
  /\ g_kbd0 \in Rings(KBD_SIZE, Bytes)
  /\ g_line_buf \in [0..(INPUT_LINE_MAX - 1) -> Bytes]
  /\ pc \in {"prompt", "read", "esc1", "esc2", "esc3", "flush_events", "flush_kbd0"}
  /\ {b1, b2} \subseteq Bytes

\* Between two strokes the decoder has forgotten both prefixes, on every early return of
\* keyboard_irq_handler(): the next key is read as itself and not as another.
DecoderInSync == wire = <<>> => ~extended /\ ~break_code

\* The shift state that selects characters (set by scan code in ps2.c) and the modifier bit
\* reported in events (set by key code in events.c) agree, also under repeats, two shift
\* keys, and the E0 12 codes that keyboards send around navigation keys.
ShiftAgrees == shifted <=> "SHIFT" \in g_modifier_state

\* The line is a NUL-terminated string of g_line_len characters inside the buffer, and the
\* cursor is inside the line, after every insertion and deletion, also at a full line.
LineOK ==
  /\ g_line_len < INPUT_LINE_MAX /\ g_line_cursor \in 0..g_line_len
  /\ g_line_buf[g_line_len] = NUL
  /\ \A i \in 0..(g_line_len - 1) : g_line_buf[i] # NUL

\* Escape sequences are in kbd0 as a whole: none is cut off behind its first bytes.
WholeSequences ==
  LET s == Contents(g_kbd0, KBD_SIZE)
  IN  \A i \in 1..Len(s) : s[i] = "ESC" =>
        /\ i + 2 <= Len(s) /\ s[i + 1] = "["
        /\ s[i + 2] \in {"2", "3"} => i + 3 <= Len(s) /\ s[i + 3] = "~"

\* input() returns once a line end is in kbd0: no byte before it makes it wait for more.
LineEnds ==
  (pc # "prompt" /\ \E i \in 1..g_kbd0.count : Contents(g_kbd0, KBD_SIZE)[i] = "LF") ~> pc = "prompt"

\* input() returns with kbd0 drained: no byte of the old line starts the next one.
ReturnsDrained == [][pc # "prompt" /\ pc' = "prompt" => g_kbd0'.count = 0]_vars

\* When input() returns, event0 holds no key press: kbd0 is empty then, so that key has been
\* consumed by input() and a reader of event0 would see it a second time.
NothingReplayed ==
  [][pc # "prompt" /\ pc' = "prompt" =>
       \A i \in 1..g_evt0.count : ~Contents(g_evt0, EVT_SIZE)[i].pressed]_vars

\* A read of kbd0 through a handle opened without O_NONBLOCK waits for a byte.
BlockingReadsBlock == \A p \in Programs : handle[p] = "blocking" => got[p] # "nothing"
=============================================================================
