----------------------------- MODULE LogPattern -----------------------------
(***************************************************************************)
(* LogFormatter::Init (Log.cc): a pattern, a sequence of characters, is cut *)
(* into text, which is written as it is, and items, "%" with letters and    *)
(* perhaps a format in braces.                                              *)
(***************************************************************************)
EXTENDS Naturals, Sequences

CONSTANTS
    Letters, \* the characters isalpha is true of
    Items    \* the names in s_format_items

ASSUME PatternAssumption ==
    /\ {"%", "{", "}"} \cap Letters = {}
    /\ \A name \in Items : name \in Seq(Letters) /\ name # <<>>

Text(s)      == [kind |-> "text", text |-> s]
Item(s, fmt) == [kind |-> "item", name |-> s, fmt |-> fmt]
Broken       == [kind |-> "broken"]

\* The first place from `from` on with a character of C, or one past the end.
FirstIn(p, C, from) ==
    LET at == {i \in from..Len(p) : p[i] \in C}
    IN  IF at = {} THEN Len(p) + 1 ELSE CHOOSE i \in at : \A j \in at : i <= j

\* The item whose "%" is at i: its letters end at the first character that is
\* neither letter nor brace, or at a "{", whose format ends at the next "}".
ItemAt(p, i) ==
    LET All   == {p[j] : j \in DOMAIN p}
        stop  == FirstIn(p, All \ (Letters \cup {"}"}), i + 1)
        close == FirstIn(p, {"}"}, stop + 1)
        name  == SubSeq(p, i + 1, stop - 1)
    IN  IF stop > Len(p) \/ p[stop] # "{" THEN [token |-> Item(name, <<>>), next |-> stop]
        ELSE IF close > Len(p) THEN [token |-> Broken, next |-> i + 1]
        ELSE [token |-> Item(name, SubSeq(p, stop + 1, close - 1)), next |-> close + 1]

\* Mutant of Tokens: the character that ends an item is skipped.
TokensSkip(p) ==
    LET From[i \in 1..(Len(p) + 2)] ==
            IF i > Len(p) THEN <<>>
            ELSE IF p[i] # "%" \/ (i < Len(p) /\ p[i + 1] = "%")
                 THEN <<Text(<<p[i]>>)>> \o From[i + 1]
            ELSE <<ItemAt(p, i).token>> \o From[ItemAt(p, i).next + 1]
    IN  From[1]

\* The loop over the pattern.  Of "%%" only the first sign is taken as text: the
\* second one begins an item.
Tokens(p) ==
    LET From[i \in 1..(Len(p) + 1)] ==
            IF i > Len(p) THEN <<>>
            ELSE IF p[i] # "%" \/ (i < Len(p) /\ p[i + 1] = "%")
                 THEN <<Text(<<p[i]>>)>> \o From[i + 1]
            ELSE <<ItemAt(p, i).token>> \o From[ItemAt(p, i).next]
    IN  From[1]

\* Characters of text are gathered (nstr) until the next item.  (A broken item
\* goes before the text gathered so far; such a pattern is refused, and the
\* order left out.)
Gather(vec, token) ==
    IF token.kind = "text" /\ vec # <<>> /\ vec[Len(vec)].kind = "text"
    THEN [vec EXCEPT ![Len(vec)] = Text(vec[Len(vec)].text \o token.text)]
    ELSE Append(vec, token)

Gathered(tokens) ==
    LET Vec[i \in 0..Len(tokens)] ==
            IF i = 0 THEN <<>> ELSE Gather(Vec[i - 1], tokens[i])
    IN  Vec[Len(tokens)]

Format(p) == Gathered(Tokens(p))

\* m_has_error: SetFormatter then keeps the formatter it has.
HasError(p) ==
    \E i \in DOMAIN Format(p) :
        LET t == Format(p)[i]
        IN  t.kind = "broken" \/ (t.kind = "item" /\ t.name \notin Items)
==============================================================================
