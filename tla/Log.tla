-------------------------------- MODULE Log --------------------------------
(***************************************************************************)
(* log() and printf() on the terminal.  A call is the sequence of what it  *)
(* does: characters to put, colors to set, and for %d the stores of        *)
(* intToString into its static buffer and the reads of print.  Each text   *)
(* of a tag (the brackets too) is one character.                           *)
(***************************************************************************)
EXTENDS Terminal

CONSTANTS
  Radix,         \* 10
  U32,           \* the number of u32 values
  Level, TagOf, ColorOf,  \* the levels log() knows, their tags and colors
  OpenBracket, CloseBracket,
  Char,          \* the characters of formats
  Calls          \* what each writer calls: a sequence of calls

VARIABLES
  ret,      \* intToString's static buffer, and the bytes in front of it
  done,     \* how many parts of its calls each writer has finished
  foreign   \* history: the buffer was written by another writer since w began to

logVars == <<ret, done, foreign>>
vars == <<terminalVars, logVars>>

(* A format is a sequence of characters and, for log's %d, numbers.        *)
(* printf's %d and %x, which do it another way, nobody calls.              *)
Letter == [piece : {"text"}, char : Char]
Piece == Letter \union [piece : {"number"}, number : 0 .. U32 - 1]
Call == [function : {"log"}, level : Int, format : Seq(Piece)]
          \union [function : {"printf"}, format : Seq(Letter)]

(* The digits are the characters '0' and up. *)
ASSUME LogAssumption ==
  /\ {Radix, U32} \subseteq Nat \ {0}
  /\ Radix > 1
  /\ Nul \notin 0 .. Radix - 1
  /\ Calls \in [Writer -> Seq(Call)]

-----------------------------------------------------------------------------
DigitsOf[n \in Nat] == IF n < Radix THEN <<n>> ELSE Append(DigitsOf[n \div Radix], n % Radix)

(* intToString and log count the digits of the number as an int.  From     *)
(* U32/2 on it is negative, and may have fewer.                            *)
Magnitude(n) == IF 2 * n < U32 THEN n ELSE U32 - n
NumChars(n) == Len(DigitsOf[Magnitude(n)])

Put(c) == [op |-> "put", char |-> c]
Color(c) == [op |-> "color", color |-> c]
Set(k, v) == [op |-> "set", index |-> k, value |-> v]
Digit(n, k) == [op |-> "digit", number |-> n, index |-> k]

(* Variant: the digits are stored from the first place on. *)
PlaceForward(n, k) == k - 1

(* The place of the k-th digit from the right. *)
Place(n, k) == NumChars(n) - k

IntToString(n) ==
  LET digits == DigitsOf[n] IN
  <<Set(NumChars(n), Nul)>> \o
  [k \in 1 .. Len(digits) |-> Set(Place(n, k), digits[Len(digits) + 1 - k])]

PrintNumber(n) == IntToString(n) \o [k \in 1 .. NumChars(n) |-> Digit(n, k - 1)]

Text(c) == [piece |-> "text", char |-> c]
Number(n) == [piece |-> "number", number |-> n]
Pieces(p) == IF p.piece = "text" THEN <<Put(p.char)>> ELSE PrintNumber(p.number)

(* What log and printf put for a format. *)
Printf(format) == FlattenSeq([i \in DOMAIN format |-> Pieces(format[i])])

(* Variant: the color of a tag is not taken back. *)
TagLeftColored(level) ==
  <<Put(OpenBracket), Color(ColorOf[level]), Put(TagOf[level]), Put(CloseBracket)>>

Tag(level) ==
  <<Put(OpenBracket), Color(ColorOf[level]), Put(TagOf[level]), Color(LightGrey),
    Put(CloseBracket)>>

LogLine(level, format) ==
  (IF level \in Level THEN Tag(level) ELSE <<>>) \o Printf(format) \o <<Put(Newline)>>

Program == [w \in Writer |-> FlattenSeq([i \in DOMAIN Calls[w] |->
  LET call == Calls[w][i]
  IN IF call.function = "log" THEN LogLine(call.level, call.format) ELSE Printf(call.format)])]

-----------------------------------------------------------------------------
Places == -U32 .. U32

LogInit ==
  /\ TerminalInit
  /\ ret = [k \in Places |-> Nul]
  /\ done = [w \in Writer |-> 0]
  /\ foreign = [w \in Writer |-> FALSE]

(* The part writer w comes to. *)
Part(w) == Program[w][done[w] + 1]
Comes(w, op) ==
  /\ running = w /\ at[w] = "out"
  /\ done[w] < Len(Program[w])
  /\ Part(w).op = op
  /\ done' = [done EXCEPT ![w] = @ + 1]

PrintChar(w) ==
  /\ Comes(w, "put")
  /\ PutChar(w, Part(w).char)
  /\ UNCHANGED <<ret, foreign>>

ChangeColor(w) ==
  /\ Comes(w, "color")
  /\ SetColor(w, Part(w).color)
  /\ UNCHANGED <<ret, foreign>>

(* intToString: the terminator is the first byte a call stores. *)
StoreDigit(w) ==
  /\ Comes(w, "set")
  /\ ret' = [ret EXCEPT ![Part(w).index] = Part(w).value]
  /\ foreign' = [v \in Writer |-> IF v = w THEN foreign[v] /\ Part(w).value # Nul ELSE TRUE]
  /\ UNCHANGED terminalVars

PrintDigit(w) ==
  /\ Comes(w, "digit")
  /\ PutChar(w, ret[Part(w).index])
  /\ UNCHANGED <<ret, foreign>>

InPutChar(w) == Statement(w) /\ UNCHANGED logVars
Interrupted(w) == Switch(w) /\ UNCHANGED logVars

Next == \E w \in Writer :
  PrintChar(w) \/ ChangeColor(w) \/ StoreDigit(w) \/ PrintDigit(w) \/ InPutChar(w) \/ Interrupted(w)

Spec == LogInit /\ [][Next]_vars

-----------------------------------------------------------------------------
(* Type correctness of the terminal, the controller and the writers: the   *)
(* row and the column stay u8, whatever the writers do to each other.      *)
TypeOK ==
  /\ {x, y} \subseteq 0 .. U8 - 1
  /\ color \in {LightGrey} \union {ColorOf[l] : l \in Level}
  /\ DOMAIN memory = Cells
  /\ crtc \in {"low", "high"}
  /\ cursor \in [{"low", "high"} -> 0 .. U8 - 1]
  /\ at \in [Writer -> At]
  /\ running \in Writer
  /\ reg \in [Writer -> 0 .. U8 * Width + U8]
  /\ \A w \in Writer : done[w] \in 0 .. Len(Program[w])
  /\ raced => history = <<>>

(* As long as no writer is interrupted inside putChar, the screen shows    *)
(* the end of what was written, each character in the color it had when    *)
(* it was put: a newline and a full line begin the next one, and the lines *)
(* move up when there is no more room.                                     *)
ShowsText ==
  ~raced /\ Quiet =>
    \A row \in 1 .. Height, column \in 1 .. Width :
      Shows(memory[(row - 1) * Width + column - 1], row, column)

(* After a putChar that was not interrupted the cursor is where the next   *)
(* character goes, also when earlier ones were and wrote the two registers *)
(* of the controller in a mixed order.                                     *)
CursorFollows ==
  alone /\ Quiet /\ (\E w \in Writer : ch[w] # Nul) =>
    cursor.low + U8 * cursor.high = y * Width + x

(* Once no writer is inside a tag (what it put last is neither the bracket *)
(* nor the text), the color is light grey again, however the tags of the   *)
(* writers were interleaved.                                               *)
InTag(w) == ch[w] \in {OpenBracket} \union {TagOf[l] : l \in Level}
ColorRestored == (\A w \in Writer : ~InTag(w)) => color = LightGrey

(* What log() prints for %d are the last digits of the number, all of them *)
(* if it is below U32/2, unless another writer used the static buffer in   *)
(* between.                                                                *)
NumberShown == \A w \in Writer :
  (done[w] < Len(Program[w]) /\ Part(w).op = "digit" /\ ~foreign[w]) =>
    LET n == Part(w).number
        digits == DigitsOf[n]
        first == Len(digits) - NumChars(n)
    IN /\ 2 * n < U32 => first = 0
       /\ ret[Part(w).index] = digits[first + Part(w).index + 1]

=============================================================================
