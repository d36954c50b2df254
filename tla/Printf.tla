------------------------------- MODULE Printf -------------------------------
(***************************************************************************)
(* Formatted output: util/printf.c parses the format, converts the         *)
(* arguments and hands the result, character by character, to a buffer of  *)
(* limited size (the names of tasks), to a callback or, through            *)
(* util/trace.c, to the uart (drivers/uart.c), whose hardware sends what   *)
(* is in its queue.                                                        *)
(*                                                                         *)
(* Characters are strings of length one, NUL is the terminator.  The       *)
(* widths of the C types are parameters, so that TLC meets their limits.   *)
(***************************************************************************)
EXTENDS Integers, Sequences, SequencesExt

CONSTANTS
    Calls,          \* the calls programs make: see CallAssumption
    CharBits, ShortBits, IntBits, LongLongBits,     \* 8, 16, 32, 64
    NTOA,           \* PRINTF_NTOA_BUFFER_SIZE: 65
    FIFO,           \* the characters the uart queues: 128
    KILO            \* 1024

NUL == "NUL"
SPACE == " "

\* A call has a directive between two texts, a sink and the size of its buffer.
\* An argument has a number n, or characters s.
CallAssumption ==
    /\ {CharBits, ShortBits, IntBits, LongLongBits} \subseteq Nat \ {0}
    /\ ShortBits >= CharBits /\ IntBits >= ShortBits /\ LongLongBits >= IntBits
    /\ {NTOA, FIFO, KILO} \subseteq Nat
    /\ NTOA > LongLongBits /\ FIFO > 0 /\ KILO > 1
    /\ \A c \in Calls :
           /\ c.sink \in {"buffer", "null", "char", "function"}
           /\ c.maxlen \in 0 .. 2^IntBits - 1
           /\ c.sink # "buffer" => c.maxlen = 2^IntBits - 1

ASSUME PrintfAssumption == CallAssumption

VARIABLES
    call,           \* the call in progress
    pos, mode,      \* *format, and the part of a directive it is in
    flags, width, precision,    \* of the directive
    va,             \* the arguments not taken yet
    pending,        \* what the directive still has to give to out()
    idx,            \* the characters given to out() so far
    buffer,         \* the characters stored, by index
    fifo, wire      \* the queue of the uart, and what it sent

vars == <<call, pos, mode, flags, width, precision, va, pending, idx, buffer, fifo, wire>>

format == call.before \o call.directive.text \o call.after

\* *format; NUL at its end.
Char == IF pos <= Len(format) THEN format[pos] ELSE NUL

Init ==
    /\ call \in Calls
    /\ va = call.directive.args
    /\ pos = 1 /\ mode = "text"
    /\ flags = {} /\ width = 0 /\ precision = 0
    /\ pending = <<>> /\ idx = 0
    /\ buffer = <<>> /\ fifo = <<>> /\ wire = <<>>

-----------------------------------------------------------------------------
(* Conversions. *)

Repeat(c, n) == IF n > 0 THEN [i \in 1..n |-> c] ELSE <<>>

Atmost(a, b) == IF a <= b THEN a ELSE b

Signed(v, bits) ==
    LET u == v % 2^bits IN IF u >= 2^(bits - 1) THEN u - 2^bits ELSE u

Lower == <<"0", "1", "2", "3", "4", "5", "6", "7", "8", "9", "a", "b", "c", "d", "e", "f">>
Upper == <<"0", "1", "2", "3", "4", "5", "6", "7", "8", "9", "A", "B", "C", "D", "E", "F">>

Decimal == {Lower[i] : i \in 1..10}

_is_digit(c) == c \in Decimal

Digit(c) == CHOOSE d \in 0..9 : Lower[d + 1] = c

\* One round of _atoi, on an unsigned int.
_atoi(i, c) == (i * 10 + Digit(c)) % 2^IntBits

\* Zeros up to length n, as far as buf has room.
Pad(buf, n) == buf \o Repeat("0", Atmost(n, NTOA) - Len(buf))

\* buf[len++] = c, if there is room.
Room(buf, c) == IF Len(buf) < NTOA THEN Append(buf, c) ELSE buf

_out_rev_counts_buf(buf, w, f) ==
    Repeat(SPACE, IF f \cap {"-", "0"} = {} THEN w - Len(buf) ELSE 0)
        \o Reverse(buf)
        \o Repeat(SPACE, IF "-" \in f THEN w - Len(buf) - 1 ELSE 0)

\* The text of a reversed number, padded with spaces.
_out_rev(buf, w, f) ==
    Repeat(SPACE, IF f \cap {"-", "0"} = {} THEN w - Len(buf) ELSE 0)
        \o Reverse(buf)
        \o Repeat(SPACE, IF "-" \in f THEN w - Len(buf) ELSE 0)

_ntoa_format(digits, negative, base, prec, wid, f) ==
    LET w == IF wid # 0 /\ "-" \notin f /\ "0" \in f /\ (negative \/ f \cap {"+", SPACE} # {})
             THEN wid - 1 ELSE wid
        zeros == IF "-" \in f THEN digits
                 ELSE LET p == Pad(digits, prec) IN IF "0" \in f THEN Pad(p, w) ELSE p
        drop == IF "prec" \in f \/ zeros = <<>> \/ Len(zeros) \notin {prec, w} THEN 0
                ELSE IF base = 16 /\ Len(zeros) > 1 THEN 2 ELSE 1
        cut == SubSeq(zeros, 1, Len(zeros) - drop)
        letter == CASE base = 16 -> Room(cut, IF "upper" \in f THEN "X" ELSE "x")
                    [] base = 2 -> Room(cut, "b")
                    [] OTHER -> cut
        hashed == IF "#" \in f THEN Room(letter, "0") ELSE zeros
        signed == CASE negative -> Room(hashed, "-")
                    [] ~negative /\ "+" \in f -> Room(hashed, "+")
                    [] ~negative /\ "+" \notin f /\ SPACE \in f -> Room(hashed, SPACE)
                    [] OTHER -> hashed
    IN  _out_rev(signed, w, f)

\* The digits of a number, the last one first.
Digits(value, base, f) ==
    LET letters == IF "upper" \in f THEN Upper ELSE Lower
        from[v \in Nat] == <<letters[(v % base) + 1]>> \o
                           (IF v < base THEN <<>> ELSE from[v \div base])
    IN  from[value]

\* _ntoa_long and _ntoa_long_long, which differ in the type of value only.
_ntoa_long(value, negative, base, prec, wid, f) ==
    _ntoa_format(IF "prec" \in f /\ value = 0 THEN <<>> ELSE Digits(value, base, f),
                 negative, base, prec, wid, IF value = 0 THEN f \ {"#"} ELSE f)

\* The bits of the argument a directive looks at.  A plain char is unsigned.
Bits(f) == CASE "longlong" \in f -> LongLongBits
             [] "long" \in f /\ "longlong" \notin f -> IntBits
             [] "char" \in f -> CharBits
             [] "short" \in f /\ "char" \notin f -> ShortBits
             [] OTHER -> IntBits

\* Case 'd', 'i', 'u', 'x', 'X', 'o', 'b'.
Integer(c, v, f) ==
    LET base == CASE c \in {"x", "X"} -> 16 [] c = "o" -> 8 [] c = "b" -> 2 [] OTHER -> 10
        isSigned == c \in {"d", "i"}
        g == (IF c = "X" THEN f \cup {"upper"} ELSE f)
                \ ((IF base = 10 THEN {"#"} ELSE {})
                    \cup (IF isSigned THEN {} ELSE {"+", SPACE})
                    \cup (IF "prec" \in f THEN {"0"} ELSE {}))
        n == IF isSigned /\ "char" \notin f THEN Signed(v, Bits(f)) ELSE v % 2^Bits(f)
    IN  _ntoa_long(IF n > 0 THEN n ELSE 0 - n, n < 0, base, precision, width, g)

\* A string has no NUL: this stands for the NULL pointer.
NULL == <<NUL>>

\* The characters case 's' finds behind a pointer.
Pointed(p) == IF p = NULL THEN <<"(", "n", "u", "l", "l", ")">> ELSE p

\* Case 's' and 'R': a string, cut at the precision and padded.
String(p, f) ==
    LET n == IF "prec" \in f THEN Atmost(Len(p), precision) ELSE Len(p)
        pad == Repeat(SPACE, width - n)
    IN  IF "-" \in f THEN SubSeq(p, 1, n) \o pad ELSE pad \o SubSeq(p, 1, n)

\* The names of the errors: a long one, and one for all the others.
ErrorName(err) == IF err = 1 THEN <<"C", "H", "K">> ELSE <<"u">>

\* Case 'S': a size with its unit.
Size(v, f) ==
    LET scaled[i \in Nat] == IF i < KILO THEN [i |-> i, div |-> 0, rem |-> 0]
                             ELSE LET s == scaled[i \div KILO]
                                  IN  [i |-> s.i, div |-> s.div + 1,
                                       rem |-> IF s.div = 0 THEN i % KILO ELSE s.rem]
        s == scaled[v % 2^IntBits]
        number == _ntoa_long(s.i, FALSE, 10, precision, width, f)
        unit == <<<<"B">>, <<"K", "B">>, <<"M", "B">>, <<"G", "B">>, <<"T", "B">>>>[s.div + 1]
    IN  number \o (IF (s.rem * 100) \div KILO # 0 THEN <<".">> \o number ELSE <<>>)
            \o (IF "prec" \in f THEN SubSeq(unit, 1, Atmost(Len(unit), precision)) ELSE unit)

\* What a directive gives to out(); v is the argument it takes.
Converted(c, v, f) ==
    CASE c \in {"d", "i", "u", "x", "X", "o", "b"} -> Integer(c, v.n, f)
      [] c = "c" -> LET pad == Repeat(SPACE, width - 1)
                    IN  IF "-" \in f THEN v.s \o pad ELSE pad \o v.s
      [] c = "s" -> String(Pointed(v.s), f)
      [] c = "R" -> String(ErrorName(v.n), f)
      [] c = "S" -> Size(v.n, f)
      [] c = "p" -> _ntoa_long(v.n % 2^IntBits, FALSE, 16, precision, (IntBits \div 8) * 2,
                               f \cup {"0", "upper"})
      [] OTHER -> <<c>>

\* The specifiers that take an argument.
Takes == {"d", "i", "u", "x", "X", "o", "b", "c", "s", "R", "S", "p"}

-----------------------------------------------------------------------------
(* _vsnprintf. *)

Flags == {"0", "-", "+", SPACE, "#"}
Lengths == {"l", "h", "t", "j", "z"}

\* The characters that carry on with a directive, by the part it is in.
Accepts ==
    [flags |-> Flags \cup Decimal \cup {"*", "."} \cup Lengths,
     width |-> Decimal \cup {"."} \cup Lengths,
     star |-> {"."} \cup Lengths,
     dot |-> Decimal \cup {"*"} \cup Lengths,
     precision |-> Decimal \cup Lengths,
     precision_star |-> Lengths,
     length |-> {}]

Reading(parts) ==
    /\ pending = <<>> /\ mode \in parts /\ Char \in Accepts[mode]
    /\ UNCHANGED <<call, pending, idx, buffer, fifo, wire>>

Text ==
    /\ pending = <<>> /\ mode = "text" /\ Char \notin {"%", NUL}
    /\ pending' = <<Char>>
    /\ pos' = pos + 1
    /\ UNCHANGED <<call, mode, flags, width, precision, va, idx, buffer, fifo, wire>>

Percent ==
    /\ pending = <<>> /\ mode = "text" /\ Char = "%"
    /\ pos' = pos + 1
    /\ mode' = "flags"
    /\ flags' = {} /\ width' = 0 /\ precision' = 0
    /\ UNCHANGED <<call, va, pending, idx, buffer, fifo, wire>>

Flag ==
    /\ Reading({"flags"}) /\ Char \in Flags
    /\ flags' = flags \cup {Char}
    /\ pos' = pos + 1
    /\ UNCHANGED <<mode, width, precision, va>>

WidthDigit ==
    /\ Reading({"flags", "width"}) /\ _is_digit(Char)
    /\ mode = "flags" => Char \notin Flags
    /\ width' = _atoi(width, Char)
    /\ mode' = "width"
    /\ pos' = pos + 1
    /\ UNCHANGED <<flags, precision, va>>

WidthStar ==
    /\ Reading({"flags"}) /\ Char = "*"
    /\ LET w == Signed(Head(va).n, IntBits)
       IN  /\ width' = IF w < 0 THEN 0 - w ELSE w
           /\ flags' = IF w < 0 THEN flags \cup {"-"} ELSE flags
    /\ va' = Tail(va)
    /\ mode' = "star"
    /\ pos' = pos + 1
    /\ UNCHANGED precision

Dot ==
    /\ Reading({"flags", "width", "star"}) /\ Char = "."
    /\ flags' = flags \cup {"prec"}
    /\ mode' = "dot"
    /\ pos' = pos + 1
    /\ UNCHANGED <<width, precision, va>>

PrecisionDigit ==
    /\ Reading({"dot", "precision"}) /\ _is_digit(Char)
    /\ precision' = _atoi(precision, Char)
    /\ mode' = "precision"
    /\ pos' = pos + 1
    /\ UNCHANGED <<flags, width, va>>

StarPrecision_unclamped(p) == p

StarPrecision(p) == IF p > 0 THEN p ELSE 0

PrecisionStar ==
    /\ Reading({"dot"}) /\ Char = "*"
    /\ precision' = StarPrecision(Signed(Head(va).n, IntBits))
    /\ va' = Tail(va)
    /\ mode' = "precision_star"
    /\ pos' = pos + 1
    /\ UNCHANGED <<flags, width>>

\* One letter, or l and h twice.  Pointers and sizes are longs, intmax_t is not.
Length ==
    /\ Reading(DOMAIN Accepts) /\ Char \in Lengths
    /\ LET twice == Char \in {"l", "h"} /\ pos < Len(format) /\ format[pos + 1] = Char
       IN  /\ flags' = flags \cup
                 (CASE Char = "l" -> {"long"} \cup (IF twice THEN {"longlong"} ELSE {})
                    [] Char = "h" -> {"short"} \cup (IF twice THEN {"char"} ELSE {})
                    [] Char = "j" -> {"longlong"}
                    [] OTHER -> {"long"})
           /\ pos' = IF twice THEN pos + 2 ELSE pos + 1
    /\ mode' = "length"
    /\ UNCHANGED <<width, precision, va>>

Specifier ==
    /\ pending = <<>> /\ mode # "text" /\ mode # "done"
    /\ Char \notin Accepts[mode]
    /\ pending' = Converted(Char, IF Char \in Takes THEN Head(va) ELSE <<>>, flags)
    /\ va' = IF Char \in Takes THEN Tail(va) ELSE va
    /\ mode' = "text"
    /\ pos' = pos + 1
    /\ UNCHANGED <<call, flags, width, precision, idx, buffer, fifo, wire>>

-----------------------------------------------------------------------------
(* out(): where the characters go. *)

\* Whether _out_buffer stores at an index.
_out_buffer(i) == i < call.maxlen

uart_write_char_no_wait(c) == fifo' = IF Len(fifo) < FIFO THEN Append(fifo, c) ELSE fifo

\* Waits for room in the queue.
uart_write_char(c) == Len(fifo) < FIFO /\ fifo' = Append(fifo, c)

\* _out_buffer, _out_null, _out_fct and _out_char; the last ones drop a NUL.
Out ==
    /\ pending # <<>>
    /\ LET c == Head(pending)
       IN  /\ buffer' = IF call.sink = "buffer" /\ _out_buffer(idx) THEN Append(buffer, c) ELSE buffer
           /\ IF call.sink = "char" /\ c # NUL
              THEN uart_write_char(c)
              ELSE fifo' = fifo
           /\ wire' = IF call.sink = "function" /\ c # NUL THEN Append(wire, c) ELSE wire
    /\ pending' = Tail(pending)
    /\ idx' = idx + 1
    /\ UNCHANGED <<call, pos, mode, flags, width, precision, va>>

Ending_clipped_late == IF idx <= call.maxlen THEN idx ELSE (call.maxlen - 1) % 2^IntBits

\* Where the terminator goes: after the text, or over its last character.
Ending == IF idx < call.maxlen THEN idx ELSE (call.maxlen - 1) % 2^IntBits

\* The end of the format: the terminator is stored, and idx returned.
Terminate ==
    /\ pending = <<>> /\ mode = "text" /\ Char = NUL
    /\ mode' = "done"
    /\ buffer' = IF call.sink = "buffer" /\ _out_buffer(Ending)
                 THEN SubSeq(buffer, 1, Ending) \o <<NUL>> ELSE buffer
    /\ UNCHANGED <<call, pos, flags, width, precision, va, pending, idx, fifo, wire>>

\* The hardware sends a character.
Transmit ==
    /\ fifo # <<>>
    /\ wire' = Append(wire, Head(fifo))
    /\ fifo' = Tail(fifo)
    /\ UNCHANGED <<call, pos, mode, flags, width, precision, va, pending, idx, buffer>>

_vsnprintf ==
    \/ Text \/ Percent \/ Flag \/ WidthDigit \/ WidthStar \/ Dot \/ PrecisionDigit
    \/ PrecisionStar \/ Length \/ Specifier \/ Out \/ Terminate

Next == _vsnprintf \/ Transmit

\* The processor runs the call, the uart sends.
Spec == Init /\ [][Next]_vars /\ WF_vars(_vsnprintf) /\ WF_vars(Transmit)

-----------------------------------------------------------------------------
(* How a directive is written: [flags, width, prec, len, spec, value] say   *)
(* what text and args mean.                                                 *)

\* The numbers the digits of a text spell, behind one place and up to another.
Spelled(text, first, last) ==
    LET upto[x \in first..last] ==
            IF x = first THEN 0 ELSE upto[x - 1] * 10 + Digit(text[x])
    IN  upto

Number(text, first, last) == Spelled(text, first, last)[last]

\* The arguments a part takes that may be a star.
Stars(text, first, last) == IF first < last /\ text[last] = "*" THEN 1 ELSE 0

\* Digits, the first one not taken for a flag, or a star.
WidthPart(d, i, j) ==
    \/ /\ \A x \in i + 1 .. j : _is_digit(d.text[x])
       /\ i < j => d.text[i + 1] \notin Flags
       /\ d.width = Number(d.text, i, j) /\ d.width < 2^IntBits
    \/ /\ j = i + 1 /\ d.text[j] = "*"
       /\ d.width = Signed(d.args[1].n, IntBits)

\* Nothing, or a dot with digits or a star.  A negative precision is none.
PrecisionPart(d, i, j, k) ==
    \/ j = k /\ d.prec = -1 /\ ~d.none
    \/ /\ j < k /\ d.text[j + 1] = "."
       /\ \A x \in j + 2 .. k : _is_digit(d.text[x])
       /\ d.prec = Number(d.text, j + 1, k) /\ d.prec < 2^IntBits /\ ~d.none
    \/ /\ k = j + 2 /\ d.text[j + 1] = "." /\ d.text[k] = "*"
       /\ LET p == Signed(d.args[Stars(d.text, i, j) + 1].n, IntBits)
          IN  d.none = (p < 0) /\ d.prec = IF p < 0 THEN -1 ELSE p

LengthPart(d, k, l) ==
    \/ l = k /\ d.len = <<>>
    \/ l = k + 1 /\ d.text[l] \in Lengths /\ d.len = <<d.text[l]>>
    \/ l = k + 2 /\ d.text[l] \in {"l", "h"} /\ d.text[k + 1] = d.text[l]
       /\ d.len = <<d.text[l], d.text[l]>>

\* The parts of a directive end at 1, i, j, k, l and l + 1.
Parts(d, i, j, k, l) ==
    /\ i <= j /\ j <= k /\ k <= l /\ Len(d.text) = l + 1
    /\ d.text[1] = "%"
    /\ d.flags = {d.text[x] : x \in 2..i} /\ d.flags \subseteq Flags
    /\ WidthPart(d, i, j) /\ PrecisionPart(d, i, j, k) /\ LengthPart(d, k, l)
    /\ d.spec = d.text[l + 1] /\ d.spec \in Takes \cup {"%"}
    /\ LET stars == Stars(d.text, i, j) + Stars(d.text, j, k)
       IN  IF d.spec \in Takes
           THEN Len(d.args) = stars + 1 /\ d.args[stars + 1] = d.value
           ELSE Len(d.args) = stars

\* A call brings the arguments that its format takes, and of the types it says.
DirectiveAssumption ==
    \A c \in Calls :
        LET d == c.directive
        IN  /\ {c.before, c.after} \subseteq Seq(STRING \ {"%", NUL})
            /\ d.text \in Seq(STRING) /\ d.args \in Seq([n : Int, s : Seq(STRING)])
            /\ d.spec = "c" => Len(d.value.s) = 1
            /\ \E i, j, k, l \in DOMAIN d.text : Parts(d, i, j, k, l)

ASSUME WrittenAssumption == DirectiveAssumption

-----------------------------------------------------------------------------
(* What the C standard asks of the directives. *)

Power(base, k) ==
    LET power[n \in Nat] == IF n = 0 THEN 1 ELSE base * power[n - 1] IN power[k]

\* A number in a base: its digits, no zero in front.
Numeral(n, base, letters) ==
    LET k == CHOOSE k \in 1..LongLongBits :
                 n < Power(base, k) /\ (k = 1 \/ n >= Power(base, k - 1))
    IN  [i \in 1..k |-> letters[((n \div Power(base, k - i)) % base) + 1]]

Justified(text, w, left) ==
    IF left THEN text \o Repeat(SPACE, w - Len(text)) ELSE Repeat(SPACE, w - Len(text)) \o text

StandardBits(d) ==
    CASE d.len = <<"h", "h">> -> CharBits [] d.len = <<"h">> -> ShortBits
      [] d.len \in {<<"l", "l">>, <<"j">>} -> LongLongBits [] OTHER -> IntBits

StandardBase(d) ==
    CASE d.spec \in {"x", "X", "p"} -> 16 [] d.spec = "o" -> 8 [] d.spec = "b" -> 2 [] OTHER -> 10

StandardNumber(d) ==
    IF d.spec \in {"d", "i"} THEN Signed(d.value.n, StandardBits(d))
    ELSE d.value.n % 2^StandardBits(d)

StandardDigits(d) ==
    LET n == StandardNumber(d)
    IN  IF d.prec = 0 /\ n = 0 THEN <<>>
        ELSE Numeral(IF n < 0 THEN 0 - n ELSE n, StandardBase(d),
                     IF d.spec = "X" THEN Upper ELSE Lower)

StandardSign(d) ==
    LET n == StandardNumber(d)
        isSigned == d.spec \in {"d", "i"}
    IN  CASE n < 0 -> <<"-">>
          [] n >= 0 /\ isSigned /\ "+" \in d.flags -> <<"+">>
          [] n >= 0 /\ isSigned /\ "+" \notin d.flags /\ SPACE \in d.flags -> <<SPACE>>
          [] OTHER -> <<>>

\* A negative width is a "-" flag.
StandardLeft(d) == "-" \in d.flags \/ d.width < 0
StandardWidth(d) == IF d.width < 0 THEN 0 - d.width ELSE d.width

StandardZeros(d) ==
    IF d.prec >= 0 THEN d.prec - Len(StandardDigits(d))
    ELSE IF "0" \in d.flags /\ ~StandardLeft(d)
         THEN StandardWidth(d) - Len(StandardSign(d)) - Len(StandardDigits(d)) ELSE 0

\* The text of a directive.
Standard(d) ==
    LET text == CASE d.spec = "c" -> d.value.s
                  [] d.spec = "s" -> IF d.prec < 0 THEN d.value.s
                                     ELSE SubSeq(d.value.s, 1, Atmost(d.prec, Len(d.value.s)))
                  [] OTHER -> StandardSign(d) \o Repeat("0", StandardZeros(d)) \o StandardDigits(d)
    IN  IF d.spec = "%" THEN <<"%">> ELSE Justified(text, StandardWidth(d), StandardLeft(d))

\* The directives this printf gives another meaning: its own specifiers, the
\* address (fixed width), "#", zeros by precision when left justified, a
\* negative precision, a NULL string, %hhd with an unsigned char, more zeros
\* than NTOA.
Conforms(d) ==
    /\ d.spec \notin {"S", "R", "p"} /\ "#" \notin d.flags
    /\ ~(d.spec \in {"d", "i"} /\ d.len = <<"h", "h">>)
    /\ ~d.none /\ ~(d.spec = "s" /\ d.value.s = NULL)
    /\ d.spec \notin {"c", "s"} =>
           /\ d.prec <= 0 \/ ("-" \notin d.flags /\ d.width >= 0)
           /\ d.prec < NTOA /\ ("0" \in d.flags => d.width < NTOA)

Conforming == Conforms(call.directive)

\* What of a text leaves for the sinks that drop a NUL, by its prefixes.
Dropping(text) ==
    LET upto[n \in 0..Len(text)] ==
            IF n = 0 THEN <<>>
            ELSE IF text[n] = NUL THEN upto[n - 1] ELSE Append(upto[n - 1], text[n])
    IN  upto

Visible(text) == Dropping(text)[Len(text)]

Expected == call.before \o Standard(call.directive) \o call.after

-----------------------------------------------------------------------------
(* Properties. *)

\* The variables stay in range; the arguments suffice for the format.
TypeOK ==
    /\ pos \in 1 .. Len(format) + 1
    /\ mode \in DOMAIN Accepts \cup {"text", "done"}
    /\ flags \subseteq Flags \cup {"prec", "long", "longlong", "short", "char"}
    /\ width \in 0 .. 2^IntBits - 1 /\ precision \in 0 .. 2^IntBits - 1
    /\ idx \in Nat /\ Len(fifo) <= FIFO
    /\ mode = "done" => va = <<>>

\* printf.h:81: a returned value equal to or larger than count indicates
\* truncation; nothing is stored past the buffer, and whatever fits is there
\* with its terminator.
SnprintfContract ==
    /\ call.sink = "buffer" => Len(buffer) <= call.maxlen
    /\ mode = "done" /\ call.sink = "buffer" /\ call.maxlen > 0 =>
           /\ Len(buffer) = Atmost(idx + 1, call.maxlen)
           /\ buffer[Len(buffer)] = NUL

\* At the end of a call the returned length and the characters that left, to
\* each of the sinks, are those of the text the C standard defines.
FormatsAsC ==
    mode = "done" /\ Conforming =>
        /\ idx = Len(Expected)
        /\ call.sink = "buffer" /\ call.maxlen > 0 =>
               Front(buffer) = SubSeq(Expected, 1, Atmost(idx, call.maxlen - 1))
        /\ call.sink \in {"char", "function"} =>
               wire \o fifo = Visible(Expected)

\* A call ends, whatever the size of the uart's queue, and all it printed is
\* sent in the end (uart.c:77, "wait until the tx fifo has space").
AllIsSent ==
    <>[](mode = "done" /\ fifo = <<>>
         /\ (call.sink = "char" /\ Conforming => wire = Visible(Expected)))
=============================================================================
