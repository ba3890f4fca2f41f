----------------------------- MODULE CsvParsing -----------------------------
(***************************************************************************)
(* What the import makes of a statement's text: the column it suggests for *)
(* each field, and the amount and type it reads in a row.  An amount is a  *)
(* sequence of characters.                                                 *)
(***************************************************************************)
EXTENDS Integers, FiniteSets, Sequences, Functions

LOCAL INSTANCE SequencesExt

LOCAL INSTANCE FiniteSetsExt

CONSTANTS
    TokenOf,    \* the normalized token of each header a statement may have
    MaxHeaders, \* bound: columns
    MaxText,    \* bound: characters of an amount
    Nil

VARIABLES
    headers,  \* the header row so far
    text      \* the amount cell so far

csvVars == <<headers, text>>

-----------------------------------------------------------------------------
(* Headers *)

Aliases(t) ==
    CASE t = "date" -> {"date", "fecha", "fechavalor"}
      [] t = "amount" -> {"amount", "importe", "valor"}
      [] t = "merchant" -> {"merchant", "concepto"}
      [] OTHER -> {"description", "detalle"}

Required == {"date", "amount", "merchant"}

Target == Required \cup {"description"}

\* The first header that is an alias of the field.
Suggested(t) ==
    LET hits == {n \in DOMAIN headers : TokenOf[headers[n]] \in Aliases(t)}
    IN IF hits = {} THEN Nil ELSE headers[Min(hits)]

\* A file needs a header row of distinct, named columns; two may have one token.
HeadersAccepted == headers # <<>> /\ IsInjective(headers) /\ "" \notin Range(headers)

\* The mapping names existing columns, and the required ones.
MappingAccepted(mapping) ==
    /\ \A t \in Required : mapping[t] \in Range(headers)
    /\ \A t \in Target : mapping[t] # Nil => mapping[t] \in Range(headers)

-----------------------------------------------------------------------------
(* Amounts *)

Digit == {"0", "1"}

Char == Digit \cup {",", ".", "-", "(", ")"}

Has(s, c) == c \in Range(s)

\* Signs before the digits.
Unsigned(s) ==
    LET body == {n \in DOMAIN s : s[n] # "-"}
    IN IF body = {} THEN <<>> ELSE SubSeq(s, Min(body), Len(s))

Parenthesized(s) == s # <<>> /\ s[1] = "(" /\ Last(s) = ")"

Inside(s) == IF Parenthesized(s) THEN SubSeq(s, 2, Len(s) - 1) ELSE s

Negative(s) == Parenthesized(s) \/ (s # <<>> /\ s[1] = "-")

Bare(s) == Unsigned(Inside(s))

LastPos(s, c) == Max({n \in DOMAIN s : s[n] = c})

\* Mutant: of two separators the point is always the decimal one.
SeparatorPoint(s) ==
    IF Has(s, ",") /\ Has(s, ".") THEN "."
    ELSE IF Has(s, ",") THEN IF Len(s) - LastPos(s, ",") <= 2 THEN "," ELSE "."
    ELSE IF Has(s, ".") THEN IF Len(s) - LastPos(s, ".") <= 2 THEN "." ELSE ","
    ELSE "."

\* With both separators the later one is the decimal one; with one, it is
\* decimal if at most two digits follow its last use.
Separator(s) ==
    IF Has(s, ",") /\ Has(s, ".")
    THEN IF LastPos(s, ",") > LastPos(s, ".") THEN "," ELSE "."
    ELSE IF Has(s, ",") THEN IF Len(s) - LastPos(s, ",") <= 2 THEN "," ELSE "."
    ELSE IF Has(s, ".") THEN IF Len(s) - LastPos(s, ".") <= 2 THEN "." ELSE ","
    ELSE "."

Value(ds) ==
    LET f[n \in 0..Len(ds)] == IF n = 0 THEN 0 ELSE 10 * f[n - 1] + (IF ds[n] = "1" THEN 1 ELSE 0)
    IN f[Len(ds)]

\* Cents of the text under a decimal separator, or Nil: the other separator is
\* dropped, one decimal separator may stay, with at most two digits after it.
Cents(s, dec) ==
    LET kept == SelectSeq(s, LAMBDA c : c \in Digit \cup {dec})
        dots == {n \in DOMAIN kept : kept[n] = dec}
        at == IF dots = {} THEN Len(kept) + 1 ELSE Min(dots)
        frac == SubSeq(kept, at + 1, Len(kept))
    IN IF s = <<>> \/ s[1] \notin Digit \/ Range(s) \cap {"-", "(", ")"} # {}
          \/ Cardinality(dots) > 1 \/ Len(frac) > 2
       THEN Nil
       ELSE 100 * Value(SubSeq(kept, 1, at - 1))
            + (IF Len(frac) = 1 THEN 10 ELSE 1) * Value(frac)

\* The signed amount of a cell, Nil if it is not one; zero is refused.
Amount(s, configured) ==
    LET b == Bare(s)
        c == Cents(b, IF configured = "auto" THEN Separator(b) ELSE configured)
    IN IF c = Nil \/ c = 0 THEN Nil ELSE IF Negative(s) THEN -c ELSE c

\* The transaction's type: the type column if it has a value, else the sign.
TypeOf(raw, amount, convention) ==
    IF raw # Nil THEN raw
    ELSE CASE convention = "negative_expense" -> IF amount < 0 THEN "expense" ELSE "income"
           [] convention = "positive_expense" -> IF amount > 0 THEN "expense" ELSE "income"
           [] OTHER -> Nil

-----------------------------------------------------------------------------
Init == headers = <<>> /\ text = <<>>

Column(h) ==
    /\ text = <<>> /\ Len(headers) < MaxHeaders
    /\ headers' = Append(headers, h)
    /\ UNCHANGED text

\* Signs come first and a parenthesis last: with one of them anywhere else a cell is
\* refused.
Write(c) ==
    /\ headers = <<>> /\ Len(text) < MaxText /\ ~ Has(text, ")")
    /\ c = "(" => text = <<>>
    /\ c = "-" => Range(text) \subseteq {"(", "-"}
    /\ text' = Append(text, c)
    /\ UNCHANGED headers

Next == (\E h \in DOMAIN TokenOf : Column(h)) \/ (\E c \in Char : Write(c))

Spec == Init /\ [][Next]_csvVars

-----------------------------------------------------------------------------
(* Properties *)

\* The suggestion never gives one column to two fields, and it can be used as
\* it stands whenever it has the required fields.
SuggestionUsable ==
    HeadersAccepted =>
        LET mapping == [t \in Target |-> Suggested(t)] IN
        /\ \A t, u \in Target : mapping[t] # Nil /\ mapping[t] = mapping[u] => t = u
        /\ (\A t \in Required : mapping[t] # Nil) => MappingAccepted(mapping)

\* Reference: how a statement writes an amount in a style: digits, or groups of
\* three after one to three digits, then perhaps one or two decimals.
Groups(s, sep) ==
    /\ s # <<>> /\ Range(s) \subseteq Digit \cup {sep}
    /\ Has(s, sep) =>
         /\ \A n \in DOMAIN s : s[n] = sep <=> (n < Len(s) /\ (Len(s) - n) % 4 = 3)
         /\ s[1] # sep

WrittenIn(s, dec, sep) ==
    \/ Groups(s, sep)
    \/ \E n \in DOMAIN s :
         /\ s[n] = dec /\ Groups(SubSeq(s, 1, n - 1), sep)
         /\ Len(s) - n \in 1..2 /\ Range(SubSeq(s, n + 1, Len(s))) \subseteq Digit

Meant(s, dec) ==
    LET ds == SelectSeq(s, LAMBDA c : c \in Digit)
        decimals == IF Has(s, dec) THEN Len(s) - LastPos(s, dec) ELSE 0
    IN Value(ds) * (CASE decimals = 0 -> 100 [] decimals = 1 -> 10 [] OTHER -> 1)

\* An amount written in the style the user configured, or in either style when
\* the style is detected, is read as it was meant, to the cent, and its sign
\* gives the type: no statement is read a hundred times too large or as income.
AmountReadAsWritten ==
    \A style \in {<<".", ",">>, <<",", ".">>} :
        LET b == Bare(text)
            meant == Meant(b, style[1])
        IN WrittenIn(b, style[1], style[2]) /\ meant # 0 =>
             \A how \in {"auto", style[1]} :
                 LET a == Amount(text, how) IN
                 /\ a = (IF Negative(text) THEN -meant ELSE meant)
                 /\ TypeOf(Nil, a, "negative_expense") = "expense" <=> Negative(text)
                 /\ TypeOf(Nil, a, "positive_expense") = "income" <=> Negative(text)

\* A file is read as its bank wrote it: columns and amounts.
ParsingRight == SuggestionUsable /\ AmountReadAsWritten

=============================================================================
