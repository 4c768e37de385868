----------------------------- MODULE Expansion -----------------------------
(***************************************************************************)
(* internal/expansion: $(name) references in a text.  A text is a sequence *)
(* of bytes; the ones that matter are the three of the syntax and a byte   *)
(* of 0x80 or more, which string() turns into a rune of two bytes.         *)
(***************************************************************************)
EXTENDS Naturals, Sequences, FiniteSetsExt

operator == "$"
referenceOpener == "("
referenceCloser == ")"
HighByte == "0x80"

syntaxWrap(input) == <<operator, referenceOpener>> \o input \o <<referenceCloser>>

\* The first of the maps in context that has the name gives its value.
MappingFuncFor(context, input) ==
    LET has == {i \in DOMAIN context : input \in DOMAIN context[i]}
    IN  IF has = {} THEN syntaxWrap(input) ELSE context[Min(has)][input]

\* string(b) for one byte b.
RuneOf(b) == IF b = HighByte THEN <<"0xC2", HighByte>> ELSE <<b>>

Rest(input, i) == SubSeq(input, i, Len(input))

\* The second of two operators: it is returned and consumed.
EscapedOperator == [read |-> <<operator>>, isVar |-> FALSE, advance |-> 1]

\* What follows an operator: the text read, whether it is a name, and how many
\* bytes were consumed.
tryReadVariableName(input) ==
    LET closers == {i \in 2..Len(input) : input[i] = referenceCloser}
        Plain(read) == [read |-> read, isVar |-> FALSE, advance |-> 1]
    IN  CASE input[1] = operator -> EscapedOperator
          [] input[1] = referenceOpener /\ closers # {} ->
               [read |-> SubSeq(input, 2, Min(closers) - 1), isVar |-> TRUE,
                advance |-> Min(closers)]
          [] input[1] = referenceOpener /\ closers = {} ->
               Plain(<<operator, referenceOpener>>)
          [] OTHER -> Plain(<<operator>> \o RuneOf(input[1]))

\* The loop of Expand: what it still writes when the input before checkpoint
\* has been written and cursor is the next position it looks at.
RECURSIVE ExpandFrom(_, _, _, _)
ExpandFrom(input, context, checkpoint, cursor) ==
    IF cursor > Len(input) THEN Rest(input, checkpoint)
    ELSE IF input[cursor] = operator /\ cursor + 1 <= Len(input)
    THEN LET r == tryReadVariableName(Rest(input, cursor + 1))
             next == cursor + r.advance + 1
         IN  SubSeq(input, checkpoint, cursor - 1)
               \o (IF r.isVar THEN MappingFuncFor(context, r.read) ELSE r.read)
               \o ExpandFrom(input, context, next, next)
    ELSE ExpandFrom(input, context, checkpoint, cursor + 1)

Expand(input, context) == ExpandFrom(input, context, 1, 1)

-----------------------------------------------------------------------------
\* The reference, from the comments in tryReadVariableName: a text is read token
\* by token, two operators are one, a closed reference is its value, and every
\* other byte is itself.
RECURSIVE Meaning(_, _)
Meaning(text, context) ==
    LET closers == {i \in 3..Len(text) : text[i] = referenceCloser}
        Follows(b) == Len(text) > 1 /\ text[1] = operator /\ text[2] = b
    IN  CASE text = <<>> -> <<>>
          [] Follows(operator) -> <<operator>> \o Meaning(Rest(text, 3), context)
          [] Follows(referenceOpener) /\ closers # {} ->
               MappingFuncFor(context, SubSeq(text, 3, Min(closers) - 1))
                 \o Meaning(Rest(text, Min(closers) + 1), context)
          [] OTHER -> <<text[1]>> \o Meaning(Tail(text), context)

\* A byte of 0x80 or more behind an operator: the comment promises "the first
\* rune in the string" (expand.go:98-99), string(input[0]) is another one.
Garbled(text) ==
    \E j \in 1..(Len(text) - 1) : text[j] = operator /\ text[j + 1] = HighByte
=============================================================================
