------------------------------ MODULE MCPrintf ------------------------------
(* Calls for TLC: one directive with every mix of its parts, and text. *)
EXTENDS Printf

N(n) == [n |-> n, s |-> <<>>]
C(s) == [n |-> 0, s |-> s]

\* A width or precision: its text, its value, the argument of a star.
Field(text, n, args) == [text |-> text, n |-> n, args |-> args]

NoWidth == Field(<<>>, 0, <<>>)
NoPrecision == Field(<<>>, -1, <<>>)
Widths == {NoWidth, Field(<<"4">>, 4, <<>>), Field(<<"*">>, -5, <<N(251)>>)}
Precisions == {NoPrecision, Field(<<".">>, 0, <<>>), Field(<<".", "1">>, 1, <<>>),
               Field(<<".", "3">>, 3, <<>>),
               Field(<<".", "*">>, 2, <<N(2)>>), Field(<<".", "*">>, -1, <<N(255)>>)}
FlagTexts == {<<>>, <<"0">>, <<"-">>, <<"+">>, <<SPACE>>, <<"0", "+">>, <<"#">>, <<"#", "0">>}
Numbers == {N(n) : n \in {0, 9, 127, 128, 255}}

Directive(f, w, p, len, spec, value) ==
    [flags |-> {f[i] : i \in DOMAIN f}, width |-> w.n,
     prec |-> p.n, none |-> p.args # <<>> /\ p.n < 0,
     len |-> len, spec |-> spec, value |-> value,
     text |-> <<"%">> \o f \o w.text \o p.text \o len \o <<spec>>,
     args |-> w.args \o p.args \o (IF spec \in Takes THEN <<value>> ELSE <<>>)]

\* Every directive for an int, and for the other lengths without all the flags.
IntegerDirectives ==
    {Directive(f, w, p, <<>>, spec, v) : f \in FlagTexts, w \in Widths, p \in Precisions,
                                         spec \in {"d", "x"}, v \in Numbers}
    \cup {Directive(f, w, p, <<>>, spec, v) :
              f \in {<<>>, <<"0">>, <<"#">>}, w \in Widths, p \in Precisions,
              spec \in {"i", "u", "X", "o", "b"}, v \in {N(0), N(128)}}
    \cup {Directive(<<>>, w, NoPrecision, len, spec, N(n)) :
              w \in Widths, spec \in {"d", "u"}, n \in {0, 15, 63, 255, 4095},
              len \in {<<"h">>, <<"h", "h">>, <<"l">>, <<"l", "l">>, <<"j">>, <<"t">>, <<"z">>}}

OtherDirectives ==
    {Directive(f, w, p, <<>>, "s", C(s)) :
         f \in {<<>>, <<"-">>}, w \in Widths, p \in Precisions,
         s \in {<<>>, <<"a", "b", "c", "d">>, NULL}}
    \cup {Directive(f, w, NoPrecision, <<>>, "c", C(s)) :
              f \in {<<>>, <<"-">>}, w \in Widths, s \in {<<"q">>, <<NUL>>}}
    \cup {Directive(f, w, p, <<>>, spec, N(n)) :
              f \in {<<>>, <<"0">>}, w \in Widths, p \in Precisions,
              spec \in {"S", "p"}, n \in {0, 3, 18, 255}}
    \cup {Directive(<<>>, w, p, <<>>, "R", N(n)) : w \in Widths, p \in Precisions, n \in {0, 1}}
    \cup {Directive(<<>>, NoWidth, NoPrecision, <<>>, "%", N(0))}

Unlimited == 255

Call(before, d, after, sink, maxlen) ==
    [before |-> before, directive |-> d, after |-> after, sink |-> sink, maxlen |-> maxlen]

BufferCalls ==
    {Call(<<>>, d, <<>>, "buffer", n) : d \in IntegerDirectives, n \in {3, Unlimited}}
    \cup {Call(<<"z">>, d, <<"y">>, "buffer", n) : d \in OtherDirectives, n \in {0, 1, 6}}
    \cup {Call(<<>>, d, <<>>, sink, Unlimited) : d \in OtherDirectives, sink \in {"null", "function"}}

\* Output to the uart.
CharCalls ==
    {Call(<<"z">>, d, <<"y">>, "char", Unlimited) : d \in OtherDirectives}
    \cup {Call(<<>>, Directive(f, w, NoPrecision, <<>>, "d", v), <<>>, "char", Unlimited) :
              f \in {<<>>, <<"-">>}, w \in Widths, v \in Numbers}

\* Widths beyond the conversion buffer.
WideCalls ==
    {Call(<<>>, Directive(f, Field(<<"2", "0">>, 20, <<>>), NoPrecision, <<>>, "d", v),
          <<>>, sink, Unlimited) :
         f \in {<<>>, <<"0">>, <<"-">>}, v \in Numbers, sink \in {"buffer", "char"}}

AllCalls == BufferCalls \cup CharCalls \cup WideCalls
=============================================================================
