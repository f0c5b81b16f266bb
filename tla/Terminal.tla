------------------------------ MODULE Terminal ------------------------------
(***************************************************************************)
(* The text terminal, written to by threads the timer interrupts anywhere  *)
(* in putChar.  There is one processor: running is the thread that has it. *)
(* x++ and the like are a load and a store, and a test is a step of its    *)
(* own.  The loops of scroll() are one step: what is on the screen is      *)
(* looked at only without a race.                                          *)
(***************************************************************************)
EXTENDS Integers, Sequences, FiniteSets, SequencesExt

CONSTANTS
  Writer,
  Width, Height,
  U8,           \* the number of u8 values
  MaxSwitches,  \* bound: how often the timer switches threads
  Newline, Space, Nul,
  LightGrey

VARIABLES
  x, y, color,
  memory,    \* the cells of the screen, in rows
  crtc,      \* the register of the video controller that is selected
  cursor,    \* the controller's cursor position, low and high byte
  at,        \* the statement of putChar each writer is at
  ch,        \* its argument
  reg,       \* the value it has loaded or computed
  running,
  switches,
  history,   \* history: the characters and their colors, until raced
  raced,     \* history: a writer was interrupted inside putChar
  alone      \* history: the last putChar was not interrupted

screenVars == <<x, y, color, memory>>
cursorVars == <<crtc, cursor>>
threadVars == <<running, switches>>
historyVars == <<history, raced, alone>>
terminalVars == <<screenVars, cursorVars, at, ch, reg, threadVars, historyVars>>

At == {"out", "newline", "feed", "fed", "row", "column", "store", "next", "right", "wrap",
       "full", "down", "downed", "scroll", "shift", "up", "upped", "left", "cursor", "position",
       "low", "lowData", "high", "highData"}

Cells == 0 .. Width * Height - 1
Empty == <<Space, LightGrey>>

ASSUME TerminalAssumption ==
  /\ IsFiniteSet(Writer)
  /\ {Width, Height, U8} \subseteq Nat \ {0}
  /\ MaxSwitches \in Nat
  /\ Width < U8 /\ Height < U8

(* The constructor, and kmain's call of clear(). *)
TerminalInit ==
  /\ x = 0 /\ y = 0 /\ color = LightGrey
  /\ memory = [c \in Cells |-> Empty]
  /\ crtc = "low" /\ cursor = [low |-> 0, high |-> 0]
  /\ at = [w \in Writer |-> "out"]
  /\ ch = [w \in Writer |-> Nul]
  /\ reg = [w \in Writer |-> 0]
  /\ running \in Writer
  /\ switches = 0
  /\ history = <<>> /\ raced = FALSE /\ alone = TRUE

-----------------------------------------------------------------------------
Printable(c) == c \notin {Newline, Nul}
Quiet == \A w \in Writer : at[w] = "out"

(* putChar(c) is called. *)
PutChar(w, c) ==
  /\ running = w /\ at[w] = "out"
  /\ at' = [at EXCEPT ![w] = IF c = Newline THEN "newline" ELSE IF Printable(c) THEN "row" ELSE "wrap"]
  /\ ch' = [ch EXCEPT ![w] = c]
  /\ history' = IF raced THEN <<>> ELSE Append(history, <<c, color>>)
  /\ alone' = Quiet
  /\ UNCHANGED <<screenVars, cursorVars, reg, threadVars, raced>>

(* The writer goes from one place to the next. *)
Moves(w, from, to) ==
  /\ running = w /\ at[w] = from
  /\ at' = [at EXCEPT ![w] = to]
  /\ UNCHANGED <<color, ch, threadVars, historyVars>>

(* A test. *)
Goto(w, from, to) == Moves(w, from, to) /\ UNCHANGED <<x, y, memory, cursorVars, reg>>

Load(w, from, to, value) ==
  /\ Moves(w, from, to)
  /\ reg' = [reg EXCEPT ![w] = value]
  /\ UNCHANGED <<x, y, memory, cursorVars>>

SetX(w, from, to, value) ==
  /\ Moves(w, from, to)
  /\ x' = value
  /\ UNCHANGED <<y, memory, cursorVars, reg>>

SetY(w, from, to, value) ==
  /\ Moves(w, from, to)
  /\ y' = value % U8
  /\ UNCHANGED <<x, memory, cursorVars, reg>>

(* A newline. *)
LineFeed(w) ==
  \/ SetX(w, "newline", "feed", 0)
  \/ Load(w, "feed", "fed", y)
  \/ SetY(w, "fed", "wrap", reg[w] + 1)

(* A store behind the last row shows nowhere. *)
Store(w) ==
  /\ Moves(w, "store", "next")
  /\ memory' = [c \in Cells |-> IF c = reg[w] THEN <<ch[w], color>> ELSE memory[c]]
  /\ UNCHANGED <<x, y, cursorVars, reg>>

Write(w) ==
  \/ Load(w, "row", "column", y * Width)
  \/ Load(w, "column", "store", reg[w] + x)
  \/ Store(w)
  \/ Load(w, "next", "right", x)
  \/ SetX(w, "right", "wrap", (reg[w] + 1) % U8)

(* Variant: a line is left when a character did not fit any more. *)
LineFullLate == x > Width

LineFull == x >= Width

Wrap(w) ==
  \/ Goto(w, "wrap", IF LineFull THEN "full" ELSE "scroll")
  \/ SetX(w, "full", "down", 0)
  \/ Load(w, "down", "downed", y)
  \/ SetY(w, "downed", "scroll", reg[w] + 1)

(* Variant: the row behind the last one is blanked. *)
BlankedBehind == [c \in 0 .. Width * (Height + 1) - 1 |->
  IF c + Width \in Cells THEN memory[c + Width] ELSE IF c \in Cells THEN memory[c] ELSE <<Space, color>>]

(* Both loops of scroll(). *)
Shifted == [c \in Cells |-> IF c + Width \in Cells THEN memory[c + Width] ELSE <<Space, color>>]

Shift(w) ==
  /\ Moves(w, "shift", "up")
  /\ memory' = Shifted
  /\ UNCHANGED <<x, y, cursorVars, reg>>

Scroll(w) ==
  \/ Goto(w, "scroll", IF y >= Height THEN "shift" ELSE "cursor")
  \/ Shift(w)
  \/ Load(w, "up", "upped", y)
  \/ SetY(w, "upped", "left", reg[w] - 1)
  \/ SetX(w, "left", "cursor", 0)

(* A register of the controller is selected, then written. *)
Select(w, from, to, register) ==
  /\ Moves(w, from, to)
  /\ crtc' = register
  /\ UNCHANGED <<x, y, memory, cursor, reg>>

WriteRegister(w, from, to, value) ==
  /\ Moves(w, from, to)
  /\ cursor' = [cursor EXCEPT ![crtc] = value]
  /\ UNCHANGED <<x, y, memory, crtc, reg>>

(* Variant: the high byte is written without shifting it down. *)
HighUnshifted(position) == position % U8

High(position) == (position \div U8) % U8

UpdateCursor(w) ==
  \/ Load(w, "cursor", "position", y * Width)
  \/ Load(w, "position", "low", reg[w] + x)
  \/ Select(w, "low", "lowData", "low")
  \/ WriteRegister(w, "lowData", "high", reg[w] % U8)
  \/ Select(w, "high", "highData", "high")
  \/ WriteRegister(w, "highData", "out", High(reg[w]))

Statement(w) == LineFeed(w) \/ Write(w) \/ Wrap(w) \/ Scroll(w) \/ UpdateCursor(w)

SetColor(w, c) ==
  /\ running = w /\ at[w] = "out"
  /\ color' = c
  /\ UNCHANGED <<x, y, memory, cursorVars, at, ch, reg, threadVars, historyVars>>

(* The timer gives the processor to another thread. *)
Switch(w) ==
  /\ switches < MaxSwitches
  /\ w # running
  /\ running' = w
  /\ switches' = switches + 1
  /\ raced' = (raced \/ at[running] # "out")
  /\ history' = IF raced' THEN <<>> ELSE history
  /\ alone' = (alone /\ at[running] = "out")
  /\ UNCHANGED <<screenVars, cursorVars, at, ch, reg>>

-----------------------------------------------------------------------------
(* What a terminal shows: lines, of which the last one grows. *)

Type(lines, c) ==
  IF c[1] = Newline THEN Append(lines, <<>>)
  ELSE IF ~Printable(c[1]) THEN lines
  ELSE LET longer == Append(Last(lines), c)
       IN Front(lines) \o IF Len(longer) = Width THEN <<longer, <<>>>> ELSE <<longer>>
Typed == FoldLeft(Type, <<<<>>>>, history)
Visible == SubSeq(Typed, IF Len(Typed) > Height THEN Len(Typed) - Height + 1 ELSE 1, Len(Typed))

Shows(cell, row, column) ==
  IF row <= Len(Visible) /\ column <= Len(Visible[row]) THEN cell = Visible[row][column]
  ELSE cell[1] = Space

=============================================================================
