------------------------------- MODULE Layouts -------------------------------
(***************************************************************************)
(* The list layout code actions of src/src/operations/CodeAction.cpp: the  *)
(* innermost list around the cursor is put on one line, or apart with one  *)
(* item per line. The document is its sequence of tokens; a line break is  *)
(* a token with the indentation of the line it begins, and a comment runs  *)
(* from "--" to the next break. Spaces are left out, `->` is one token.    *)
(* Trait lists hold no comments: their action doesn't look for any.        *)
(***************************************************************************)
EXTENDS Integers, Sequences, FiniteSetsExt, SequencesExt

CONSTANTS Texts,        \* documents, sequences of tokens
          Breaks,       \* the line breaks, by indentation: Breaks[1] begins an unindented line
          DefaultUnit   \* one level of indentation in a document with no indented line

VARIABLES text, code

layoutVars == <<text, code>>

Openers == {"(", "{", "<"}
Closers == {")", "}", ">"}
Keywords == {"function", "end", "local", "=", "->", ",", ".", ":", "implements", "needs", "for", "when", "give",
             "return", "--"}
IsBreak(token) == token \in Range(Breaks)
IsName(token) == token \notin Openers \cup Closers \cup Keywords /\ ~IsBreak(token)
Indentation(break) == (CHOOSE n \in DOMAIN Breaks : Breaks[n] = break) - 1
Break(indentation) == Breaks[indentation + 1]

Least(S, default) == IF S = {} THEN default ELSE Min(S)
BreaksIn(t, first, last) == {k \in first..last : IsBreak(t[k])}

\* The leading whitespace of the line token i is on.
LineIndentation(t, i) ==
    LET before == BreaksIn(t, 1, i - 1)
    IN  IF before = {} THEN 0 ELSE Indentation(t[Max(before)])

\* The indentation of the first indented line that isn't blank.
IndentUnit(t) ==
    LET indented == {k \in BreaksIn(t, 1, Len(t) - 1) : Indentation(t[k]) > 0 /\ ~IsBreak(t[k + 1])}
    IN  IF indented = {} THEN DefaultUnit ELSE Indentation(t[Min(indented)])

InComment(t, k) == \E c \in 1..k : t[c] = "--" /\ BreaksIn(t, c, k) = {}

\* The first token at or after i that is no break and in no comment.
SkipWhitespaceAndComments(t, i) ==
    Least({k \in i..Len(t) : ~IsBreak(t[k]) /\ ~InComment(t, k)}, Len(t) + 1)
-----------------------------------------------------------------------------
(* Brackets: matched as the parser does, or counted character by character, *)
(* which takes the `>` of `->` for a closing bracket.                       *)
Depth(t, first, last, textual) ==
    Cardinality({k \in first..last : t[k] \in Openers})
    - Cardinality({k \in first..last : t[k] \in Closers \/ (textual /\ t[k] = "->")})

Closing(t, i) == Least({k \in i..Len(t) : Depth(t, i, k, FALSE) = 0}, Len(t))

TopLevelCommas(t, first, last, textual) ==
    {k \in first..last : t[k] = "," /\ Depth(t, first, k - 1, textual) = 0}

\* The tokens from first to last without the breaks at both ends.
Trimmed(t, first, last) ==
    LET kept == {k \in first..last : ~IsBreak(t[k])}
    IN  IF kept = {} THEN [first |-> first, last |-> first - 1] ELSE [first |-> Min(kept), last |-> Max(kept)]

RECURSIVE Spans(_, _, _, _)
Spans(t, first, last, commas) ==
    LET next == Least(commas, last + 1)
        rest == IF commas = {} THEN <<>> ELSE Spans(t, next + 1, last, commas \ {next})
    IN  <<Trimmed(t, first, next - 1)>> \o rest

IsWritten(span) == span.first <= span.last

\* The items between two brackets; a trailing comma leaves an empty span, which is dropped.
SplitParameters(t, first, last) ==
    SelectSeq(Spans(t, first, last, TopLevelCommas(t, first, last, TRUE)), IsWritten)
SplitByItemEnds(t, first, last) ==
    SelectSeq(Spans(t, first, last, TopLevelCommas(t, first, last, FALSE)), IsWritten)
-----------------------------------------------------------------------------
(* The lists of a document. first and last are the ends of the place the    *)
(* cursor is looked for in: a trait list starts at its keyword, a pattern   *)
(* at its `.`.                                                              *)
List(kind, first, last) == [kind |-> kind, first |-> first, last |-> last]

KindOf(t, i) ==
    LET before == IF i = 1 THEN "" ELSE t[i - 1] IN
    CASE t[i] = "{" /\ before = "." -> "pattern"
      [] t[i] = "{" /\ t[SkipWhitespaceAndComments(t, i + 1)] = "for" -> "comprehension"
      [] t[i] = "{" -> "entry"
      [] t[i] = "(" /\ before = "function" -> "parameter"
      [] t[i] = "(" /\ before = "->" -> "type"
      [] t[i] = "(" /\ IsName(before) -> "argument"
      [] t[i] = "<" /\ IsName(before) -> "generic"
      [] OTHER -> "none"

FewestItems(kind) == CASE kind \in {"parameter", "pattern", "comprehension"} -> 0 [] kind = "type" -> 2 [] OTHER -> 1

Bracketed(i, kind, last) == List(kind, IF kind = "pattern" THEN i - 1 ELSE i, last)
Opening(l) == IF l.kind = "pattern" THEN l.first + 1 ELSE l.first

BracketedLists(t) ==
    {l \in {Bracketed(i, KindOf(t, i), Closing(t, i)) : i \in {i \in 1..Len(t) : t[i] \in Openers /\ ~InComment(t, i)}} :
        l.kind # "none" /\ Len(SplitByItemEnds(t, Opening(l) + 1, l.last - 1)) >= FewestItems(l.kind)}

\* A trait, with its arguments if it has any.
TraitEnd(t, i) == IF i < Len(t) /\ t[i + 1] = "(" THEN Closing(t, i + 1) ELSE i
RECURSIVE TraitsEnd(_, _), TraitsAfter(_, _, _)
TraitsAfter(t, end, comma) ==
    IF comma < Len(t) /\ t[comma] = "," THEN TraitsEnd(t, SkipWhitespaceAndComments(t, comma + 1)) ELSE end
TraitsEnd(t, i) ==
    LET end == TraitEnd(t, i) IN TraitsAfter(t, end, SkipWhitespaceAndComments(t, end + 1))

\* The list from its first trait or opening parenthesis, and the traits themselves.
TraitsBetween(t, open, first, last) ==
    [open |-> open, close |-> IF t[open] = "(" THEN SkipWhitespaceAndComments(t, last + 1) ELSE last,
     first |-> first, last |-> last]
TraitsFrom(t, open, first) == TraitsBetween(t, open, first, TraitsEnd(t, first))
TraitsIn(t, open) == TraitsFrom(t, open, IF t[open] = "(" THEN SkipWhitespaceAndComments(t, open + 1) ELSE open)
FindTraitList(t, keyword) == TraitsIn(t, SkipWhitespaceAndComments(t, keyword + 1))

TraitLists(t) ==
    {List("trait", k, FindTraitList(t, k).close) : k \in {k \in 1..Len(t) : t[k] \in {"implements", "needs"}}}

Lists(t) == BracketedLists(t) \cup TraitLists(t)

\* The bodies of functions, from the `)` of their parameters to their `end`.
FunctionBodies(t) ==
    {LET close == Closing(t, f + 1)
         ends == {k \in close..Len(t) :
                    Cardinality({o \in f..k : t[o] = "function"}) = Cardinality({o \in f..k : t[o] = "end"})}
     IN  List("body", close + 1, Min(ends) - 1) : f \in {f \in 1..Len(t) : t[f] = "function"}}

\* The cursor is between tokens p and p + 1.
ContainsClosed(l, p) == l.first - 1 <= p /\ p <= l.last
Encloses(l, other) == l.first <= other.first /\ other.last <= l.last

Innermost(found) == {l \in found : \A other \in found : other.first <= l.first}

\* The innermost list of these kinds the cursor is in, unless it is in a function body inside it.
FindListAtPosition(t, p, kinds) ==
    LET bodies == {b \in FunctionBodies(t) : b.first - 1 < p /\ p <= b.last}
        lists == {l \in Lists(t) : l.kind \in kinds /\ ContainsClosed(l, p)}
    IN  Innermost(lists \cup bodies) \cap lists

BracketKinds == {"parameter", "argument", "entry", "type", "generic"}
FindBracketListAtPosition(t, p) == FindListAtPosition(t, p, BracketKinds)
FindComprehensionAtPosition(t, p) == FindListAtPosition(t, p, {"comprehension"})
FindTraitListAtPosition(t, p) == {l \in TraitLists(t) : ContainsClosed(l, p)}
FindDestructurePatternAtPosition(t, p) ==
    Innermost({l \in Lists(t) : l.kind = "pattern" /\ ContainsClosed(l, p)})

\* What is found later replaces what was found before only from inside it.
Considered(best, found) ==
    IF found = {} \/ (best # {} /\ ~\A l \in best, o \in found : Encloses(l, o)) THEN best ELSE found

ListAt(t, p) ==
    Considered(Considered(Considered(FindBracketListAtPosition(t, p), FindTraitListAtPosition(t, p)),
                          FindDestructurePatternAtPosition(t, p)),
               FindComprehensionAtPosition(t, p))
-----------------------------------------------------------------------------
(* The layouts. *)
RECURSIVE Joined(_), OnLines(_, _, _)
Joined(items) ==
    IF Len(items) <= 1 THEN FlattenSeq(items) ELSE Head(items) \o <<",">> \o Joined(Tail(items))
\* Each item on a line of its own, with a separator after each but the last, and `final` after that.
OnLines(items, break, final) ==
    IF Len(items) = 1 THEN <<break>> \o items[1] \o final
    ELSE <<break>> \o Head(items) \o <<",">> \o OnLines(Tail(items), break, final)

\* The lines of an item after its first moved from one indentation to another.
Reindent(item, from, to) ==
    [k \in DOMAIN item |->
        CASE IsBreak(item[k]) /\ Indentation(item[k]) >= from -> Break(Indentation(item[k]) - from + to)
          [] IsBreak(item[k]) /\ Indentation(item[k]) < from /\ k < Len(item) /\ IsBreak(item[k + 1]) -> Break(0)
          [] OTHER -> item[k]]

TokensOf(t, span) == SubSeq(t, span.first, span.last)
TextOfItems(t, items) == [n \in DOMAIN items |-> TokensOf(t, items[n])]
ReindentedItems(t, items, to) ==
    [n \in DOMAIN items |-> Reindent(TokensOf(t, items[n]), LineIndentation(t, items[n].first), to)]

Replaced(t, first, last, new) == SubSeq(t, 1, first - 1) \o new \o SubSeq(t, last + 1, Len(t))

\* Mutant: comments aren't looked for.
NeverLeftAlone(t, l) == FALSE

HoldsComment(t, l) == \E k \in l.first..l.last : t[k] = "--"

\* A break before, between or after the items; one inside an item doesn't count.
IsMultiline(t, l, items) ==
    BreaksIn(t, l.first, l.last) \ UNION {items[n].first..items[n].last : n \in DOMAIN items} # {}

\* `{ T }` takes no trailing comma.
IsArrayShorthand(t, l, items) == l.first > 1 /\ t[l.first - 1] = ":" /\ Len(items) = 1 /\ items[1].first = items[1].last

GenerateBracketListLayoutAction(t, l) ==
    LET items == IF l.kind = "parameter" THEN SplitParameters(t, l.first + 1, l.last - 1)
                 ELSE SplitByItemEnds(t, l.first + 1, l.last - 1)
        base == LineIndentation(t, l.first)
        inner == base + IndentUnit(t)
        final == IF l.kind = "entry" /\ ~IsArrayShorthand(t, l, items) THEN <<",">> ELSE <<>>
        apart == OnLines(ReindentedItems(t, items, inner), Break(inner), final) \o <<Break(base)>>
    IN  IF HoldsComment(t, l) \/ items = <<>> THEN t
        ELSE Replaced(t, l.first + 1, l.last - 1,
                      IF IsMultiline(t, l, items) THEN Joined(ReindentedItems(t, items, base)) ELSE apart)

\* Traits are put apart in parentheses and joined without them, multi-line arguments as they are.
TraitsApart(t, traits, base) ==
    <<"(">> \o OnLines(traits, Break(base + IndentUnit(t)), <<>>) \o <<Break(base), ")">>
WrapTraits(t, list, traits, base) ==
    Replaced(t, list.open, list.close,
             IF BreaksIn(t, list.open, list.close) # {} THEN Joined(traits) ELSE TraitsApart(t, traits, base))
WrapTraitList(t, list, base) ==
    WrapTraits(t, list, TextOfItems(t, SplitParameters(t, list.first, list.last)), base)
GenerateTraitListWrapAction(t, l) == WrapTraitList(t, FindTraitList(t, l.first), LineIndentation(t, l.first))

None == <<>>

\* A pattern and those nested in it on one line. None when a break is left, or when the fields
\* found in the text aren't the ones the parser found.
RECURSIVE LayOutDestructureOnOneLine(_, _)
LayOutDestructureOnOneLine(t, l) ==
    LET open == l.first + 1
        fields == SplitParameters(t, open + 1, l.last - 1)
        Field(span) ==
            LET nested == {k \in span.first..(span.last - 1) : t[k] = "." /\ t[k + 1] = "{"} IN
            IF nested = {} THEN TokensOf(t, span)
            ELSE LET dot == Min(nested)
                     close == Closing(t, dot + 1)
                     inner == LayOutDestructureOnOneLine(t, List("pattern", dot, close))
                 IN  IF inner = None THEN None
                     ELSE SubSeq(t, span.first, dot - 1) \o inner \o SubSeq(t, close + 1, span.last)
        flat == [n \in DOMAIN fields |-> Field(fields[n])]
    IN  IF \/ fields = <<>>
           \/ Len(fields) # Len(SplitByItemEnds(t, open + 1, l.last - 1))
           \/ \E n \in DOMAIN flat : flat[n] = None \/ \E k \in DOMAIN flat[n] : IsBreak(flat[n][k])
        THEN None
        ELSE <<".", "{">> \o Joined(flat) \o <<"}">>

LayOutDestructureOnePerLine(t, l) ==
    LET fields == SplitParameters(t, l.first + 2, l.last - 1)
        base == LineIndentation(t, l.first)
    IN  IF fields = <<>> THEN None
        ELSE <<".", "{">> \o OnLines(TextOfItems(t, fields), Break(base + IndentUnit(t)), <<",">>) \o <<Break(base), "}">>

Placed(t, l, laidOut) == IF laidOut = None THEN t ELSE Replaced(t, l.first, l.last, laidOut)
GenerateDestructureLayoutAction(t, l) ==
    IF HoldsComment(t, l) THEN t
    ELSE Placed(t, l, IF BreaksIn(t, l.first, l.last) # {} THEN LayOutDestructureOnOneLine(t, l)
                      ELSE LayOutDestructureOnePerLine(t, l))

\* Every `for`, `when` and `give` of a comprehension, not those of one inside it. None when its item
\* is a block.
ComprehensionClauseStarts(t, l) ==
    LET starts == {k \in (l.first + 1)..(l.last - 1) :
                     t[k] \in {"for", "when", "give"} /\ Depth(t, l.first + 1, k - 1, FALSE) = 0}
    IN  IF \E k \in starts : t[k] = "give" THEN starts ELSE {}

RECURSIVE Clauses(_, _, _), ClausesOnLines(_, _)
Clauses(t, starts, last) ==
    IF starts = {} THEN <<>>
    ELSE LET rest == starts \ {Min(starts)}
         IN  <<TokensOf(t, Trimmed(t, Min(starts), Least(rest, last + 1) - 1))>> \o Clauses(t, rest, last)
ClausesOnLines(clauses, break) ==
    IF clauses = <<>> THEN <<>> ELSE <<break>> \o Head(clauses) \o ClausesOnLines(Tail(clauses), break)

GenerateComprehensionLayoutAction(t, l) ==
    LET clauses == Clauses(t, ComprehensionClauseStarts(t, l), l.last - 1)
        base == LineIndentation(t, l.first)
        spansLines == \E n \in DOMAIN clauses : \E k \in DOMAIN clauses[n] : IsBreak(clauses[n][k])
        multiline == BreaksIn(t, l.first, l.last) # {}
        new == IF multiline THEN FlattenSeq(clauses)
               ELSE ClausesOnLines(clauses, Break(base + IndentUnit(t))) \o <<Break(base)>>
    IN  IF HoldsComment(t, l) \/ clauses = <<>> \/ (multiline /\ spansLines) THEN t
        ELSE Replaced(t, l.first + 1, l.last - 1, new)

LayOut(t, l) ==
    CASE l.kind = "trait" -> GenerateTraitListWrapAction(t, l)
      [] l.kind = "pattern" -> GenerateDestructureLayoutAction(t, l)
      [] l.kind = "comprehension" -> GenerateComprehensionLayoutAction(t, l)
      [] OTHER -> GenerateBracketListLayoutAction(t, l)
-----------------------------------------------------------------------------
(* What a document says, however it is laid out: without breaks, comments,  *)
(* trailing separators and the parentheses around a trait list.             *)
IsLayout(t, k) ==
    \/ IsBreak(t[k]) \/ InComment(t, k)
    \/ /\ t[k] = "," /\ SkipWhitespaceAndComments(t, k + 1) <= Len(t)
       /\ t[SkipWhitespaceAndComments(t, k + 1)] \in Closers
    \/ \E l \in TraitLists(t) :
          LET list == FindTraitList(t, l.first) IN list.open # list.first /\ k \in {list.open, list.close}

RECURSIVE CodeFrom(_, _)
CodeFrom(t, k) ==
    IF k > Len(t) THEN <<>> ELSE (IF IsLayout(t, k) THEN <<>> ELSE <<t[k]>>) \o CodeFrom(t, k + 1)
CodeOf(t) == CodeFrom(t, 1)

LayoutInit == text \in Texts /\ code = CodeOf(text)

\* A layout is applied at the cursor.
CodeAction ==
    \E p \in 0..Len(text) : \E l \in ListAt(text, p) :
        text' = LayOut(text, l) /\ UNCHANGED code

LayoutNext == CodeAction
-----------------------------------------------------------------------------
\* Layouts change where a program's lines break and nothing that it says: no code ends up behind a
\* comment, no item, bracket or separator gets lost (generateBracketListLayoutAction and its three
\* siblings), in any order the lists of a document are laid out in.
LayoutsKeepCode == CodeOf(text) = code

\* No parameter before the last has a type with a `->`, after which the splitter is one bracket off.
HasParametersAsWritten(t, l) ==
    l.kind # "parameter" \/ SplitParameters(t, l.first + 1, l.last - 1) = SplitByItemEnds(t, l.first + 1, l.last - 1)

\* Laying a list out again and again alternates between two texts: what the first layout wrote comes
\* back with the third, lines inside the items included (reindent, getLineIndentation).
LayoutsAlternate ==
    \A l \in {l \in Lists(text) : HasParametersAsWritten(text, l)} :
        LET Again(t) == LET same == {o \in Lists(t) : o.first = l.first /\ o.kind = l.kind}
                        IN  IF same = {} THEN None ELSE LayOut(t, CHOOSE o \in same : TRUE)
            once == LayOut(text, l)
        IN  Again(Again(once)) = once
=============================================================================
