------------------------------- MODULE Traits -------------------------------
(* The refactorings that move members of a class or trait into a new trait    *)
(* written above it, and those that write or remove its access specifiers     *)
(* (operations/Refactoring.cpp, operations/CodeAction.cpp). A class is        *)
(*   [isTrait, header, end, params, members, traits]                          *)
(* where header is the line of its name and end that of its end keyword; a    *)
(* member or parameter is                                                     *)
(*   [kind, name, modifiers, hasDefault, uses, first, last]                   *)
(* with the modifiers in front of it as they are written, the members that it *)
(* uses through self, and its first and last line. A line of the body with no *)
(* member is blank. Where a member starts and ends within its lines is left   *)
(* out: members have their lines to themselves, or have their line shared.    *)
EXTENDS Naturals, Sequences, FiniteSets, SequencesExt, FiniteSetsExt

IsMethod(member) == member.kind = "function"
IsField(member) == member.kind = "field"

Specifiers == {"public", "private"}
Has(member, modifier) == modifier \in ToSet(member.modifiers)
Specified(member) == \E s \in Specifiers : Has(member, s)
Visibility(member) == IF Has(member, "private") THEN "private" ELSE "public"

MemberHasItsOwnLines(class, member) ==
    /\ \A other \in ToSet(class.members) \ {member} : other.last < member.first \/ member.last < other.first
    /\ member.first > class.header /\ member.last < class.end

IsBlankLine(class, line) ==
    /\ line > class.header /\ line < class.end
    /\ \A member \in ToSet(class.members) : line \notin member.first..member.last

\* base, base2, base3, ... by number.
UniqueTopLevelName(taken) == CHOOSE n \in 1..(Cardinality(taken) + 1) :
                                 n \notin taken /\ \A k \in 1..(n - 1) : k \in taken

\* Mutant: only private members count.
HasPrivate(class) == \E member \in ToSet(class.members \o class.params) : Has(member, "private")

\* The class writes access specifiers, and so must what the trait expects.
IsQualified(class) == \E member \in ToSet(class.members \o class.params) : Specified(member)

Expectation(class, member) ==
    [member EXCEPT !.hasDefault = FALSE, !.uses = {},
                   !.modifiers = <<"expect">> \o
                                 (IF IsQualified(class) THEN <<Visibility(member)>> ELSE <<>>) \o
                                 SelectSeq(@, LAMBDA m : m = "const")]

\* The parameters of the constructor that the body does not declare too.
ParameterFields(class) ==
    SelectSeq(class.params, LAMBDA p : ~\E m \in ToSet(class.members) : IsField(m) /\ m.name = p.name)

\* The lines of a member that moves, with the blank line that separated it from
\* what the class keeps.
RemovedLines(class, moves, i) ==
    LET member == class.members[i]
        keptMemberAbove == \E j \in 1..(i - 1) : j \notin moves
    IN IF keptMemberAbove
       THEN (IF IsBlankLine(class, member.first - 1) THEN member.first - 1 ELSE member.first)..member.last
       ELSE member.first..(IF IsBlankLine(class, member.last + 1) THEN member.last + 1 ELSE member.last)

ExtractIntoTrait(class, moves, expectations, taken) ==
    LET Moved(Kind(_)) == SelectSeq(SelectSeq([i \in DOMAIN class.members |-> i], LAMBDA i : i \in moves),
                                    LAMBDA i : Kind(class.members[i]))
        Members(indices) == [k \in DOMAIN indices |-> class.members[indices[k]]]
    IN [trait |-> [name |-> UniqueTopLevelName(taken),
                   members |-> expectations \o Members(Moved(IsField)) \o Members(Moved(IsMethod))],
        line |-> class.header,
        removed |-> [i \in moves |-> RemovedLines(class, moves, i)],
        traits |-> Append(class.traits, UniqueTopLevelName(taken))]

MovesWithClass(member) == IF IsMethod(member) THEN member.name # "__init" ELSE member.hasDefault

Where(class, Test(_)) == {i \in DOMAIN class.members : Test(class.members[i])}

CanExtractClass(class) ==
    LET moves == Where(class, MovesWithClass)
    IN ~class.isTrait /\ moves # {} /\ \A i \in moves : MemberHasItsOwnLines(class, class.members[i])

Expected(class, members) == [k \in DOMAIN members |-> Expectation(class, members[k])]

ComputeExtractTraitEdit(class, taken) ==
    LET kept == SelectSeq(class.members, LAMBDA m : IsField(m) /\ ~m.hasDefault)
    IN ExtractIntoTrait(class, Where(class, MovesWithClass),
                        Expected(class, kept \o ParameterFields(class)), taken)

\* The functions that a selection of lines touches by their headers.
FindSelectedFunctions(class, selection) ==
    Where(class, LAMBDA m : IsMethod(m) /\ m.name # "__init" /\ ~Has(m, "expect") /\ m.first \in selection)

CanExtractFunctions(class, selection) ==
    LET moves == FindSelectedFunctions(class, selection)
    IN moves # {} /\ \A i \in moves : MemberHasItsOwnLines(class, class.members[i])

SelfMemberReferences(class, moves) == UNION {class.members[i].uses : i \in moves}

ComputeExtractFunctionsIntoTraitEdit(class, selection, taken) ==
    LET moves == FindSelectedFunctions(class, selection)
        names == SelfMemberReferences(class, moves)
        left == SelectSeq([i \in DOMAIN class.members |-> i],
                          LAMBDA i : /\ i \notin moves /\ class.members[i].name \in names
                                     /\ (class.members[i].name # "__init" \/ IsField(class.members[i])))
        params == SelectSeq(ParameterFields(class), LAMBDA p : p.name \in names)
    IN ExtractIntoTrait(class, moves,
                        Expected(class, [k \in DOMAIN left |-> class.members[left[k]]] \o params), taken)

\* The class after the edits.
WithoutLines(class, edit) ==
    LET removed == UNION {edit.removed[i] : i \in DOMAIN edit.removed}
        Line(n) == n - Cardinality({k \in removed : k < n})
        kept == SelectSeq(class.members, LAMBDA m : m.first..m.last \cap removed = {})
    IN [class EXCEPT !.members = [i \in DOMAIN kept |-> [kept[i] EXCEPT !.first = Line(@), !.last = Line(@)]],
                     !.end = Line(@), !.traits = edit.traits]
-----------------------------------------------------------------------------
(* Access specifiers: a class writes one for every member or for none.        *)

\* Where a member's specifier goes: in front of const for a field, and of final
\* for a function.
QualifierIndex(member) ==
    LET after == {i \in DOMAIN member.modifiers : member.modifiers[i] = (IF IsMethod(member) THEN "final" ELSE "const")}
    IN IF after = {} THEN Len(member.modifiers) + 1 ELSE Min(after)

Specifiable(class) == class.members \o ParameterFields(class)
HasPrivateMember(class) == \E member \in ToSet(Specifiable(class)) : Has(member, "private")

MadeExplicit(member) ==
    IF Specified(member) THEN member
    ELSE [member EXCEPT !.modifiers = InsertAt(@, QualifierIndex(member), "public")]

\* The edit deletes from the specifier to what it is in front of.
MadeImplicit(member) ==
    IF ~Has(member, "public") THEN member
    ELSE LET public == CHOOSE i \in DOMAIN member.modifiers : member.modifiers[i] = "public"
         IN [member EXCEPT !.modifiers = SubSeq(@, 1, public - 1) \o SubSeq(@, QualifierIndex(member), Len(@))]

\* The parameters that the body declares too are left as they are.
WithSpecifiers(class, Made(_)) ==
    LET Made1(member) == IF member \in ToSet(Specifiable(class)) THEN Made(member) ELSE member
    IN [class EXCEPT !.members = [i \in DOMAIN @ |-> Made1(@[i])], !.params = [i \in DOMAIN @ |-> Made1(@[i])]]

\* A class that has both kinds gets the quick fixes of its error instead.
CanToggle(class) ==
    /\ ~HasPrivateMember(class)
    /\ \/ \A m \in ToSet(Specifiable(class)) : Specified(m)
       \/ \A m \in ToSet(Specifiable(class)) : ~Specified(m)
CanMakeExplicit(class) == \E m \in ToSet(Specifiable(class)) : ~Specified(m)
CanMakeImplicit(class) == ~HasPrivateMember(class) /\ \E m \in ToSet(Specifiable(class)) : Has(m, "public")
\* The parser reports a class that writes some of them.
IsMixed(class) ==
    /\ \E m \in ToSet(Specifiable(class)) : Specified(m)
    /\ \E m \in ToSet(Specifiable(class)) : ~Specified(m)
-----------------------------------------------------------------------------
(* One class of a document, refactored again and again. *)

CONSTANTS
    Classes,       \* the classes that may be opened
    MaxTraits      \* bound: traits extracted from one class

VARIABLES
    opened,        \* the class as it was opened
    current,       \* and as it is
    written        \* the traits extracted from it, latest last, each with the class it was extracted from

classSession == <<opened, current, written>>

ClassInit ==
    /\ opened \in Classes
    /\ current = opened
    /\ written = <<>>

Taken == {written[i].name : i \in DOMAIN written}

Extract(edit) ==
    /\ Len(written) < MaxTraits
    /\ current' = WithoutLines(current, edit)
    /\ written' = Append(written, [name |-> edit.trait.name, members |-> edit.trait.members, of |-> current])
    /\ UNCHANGED opened

ExtractClass ==
    /\ CanExtractClass(current)
    /\ Extract(ComputeExtractTraitEdit(current, Taken))

ExtractFunctions(selection) ==
    /\ CanExtractFunctions(current, selection)
    /\ Extract(ComputeExtractFunctionsIntoTraitEdit(current, selection, Taken))

Write(Made(_)) ==
    /\ current' = WithSpecifiers(current, Made)
    /\ UNCHANGED <<opened, written>>

MakeExplicit == (CanToggle(current) \/ IsMixed(current)) /\ CanMakeExplicit(current) /\ Write(MadeExplicit)
MakeImplicit == (CanToggle(current) \/ IsMixed(current)) /\ CanMakeImplicit(current) /\ Write(MadeImplicit)

ClassNext ==
    \/ ExtractClass
    \/ \E first, last \in current.header..current.end : ExtractFunctions(first..last)
    \/ MakeExplicit
    \/ MakeImplicit

-----------------------------------------------------------------------------
Declared(trait) == SelectSeq(trait.members, LAMBDA m : ~Has(m, "expect"))
Identity(member) == [kind |-> member.kind, name |-> member.name, visibility |-> Visibility(member),
                     rest |-> ToSet(member.modifiers) \ Specifiers]
Count(seq, Test(_)) == Len(SelectSeq(seq, Test))

\* Extracting behavior moves it: whatever is extracted, in whatever order and
\* with whatever specifiers written or removed between, each member the class
\* was opened with is in the class or in one of its traits, once, as visible,
\* final and const as it was.
MembersAreMoved ==
    LET all == current.members \o FlattenSeq([i \in DOMAIN written |-> Declared(written[i])])
    IN /\ Len(all) = Len(opened.members)
       /\ \A m \in ToSet(opened.members) : Count(all, LAMBDA n : Identity(n) = Identity(m)) = 1

\* What a trait's functions use of the class through self is declared in the
\* trait or expected by it, once, with the class's visibility; and the trait
\* writes specifiers for all of its members or for none, as the class does.
TraitsStandAlone ==
    \A trait \in ToSet(written) :
        LET own == trait.of.members \o ParameterFields(trait.of)
            uses == UNION {m.uses : m \in ToSet(Declared(trait))}
        IN /\ \A m \in ToSet(own) : m.name \in uses =>
                  Count(trait.members, LAMBDA n : n.name = m.name /\ Visibility(n) = Visibility(m)) = 1
           /\ ~IsMixed(trait.of) =>
                  (\A m \in ToSet(trait.members) : Specified(m)) \/ (\A m \in ToSet(trait.members) : ~Specified(m))

\* Members move with their lines and with one blank line each: no two edits
\* delete the same line, and a class with single blank lines between its
\* members has no other blank lines after.
Moves(trait) == {i \in DOMAIN trait.of.members : trait.of.members[i] \in ToSet(Declared(trait))}
IsTidy(c) == \A line \in (c.header + 1)..(c.end - 1) :
                 IsBlankLine(c, line) => /\ line # c.header + 1 /\ line # c.end - 1
                                         /\ ~IsBlankLine(c, line + 1)
LinesMoveWithMembers ==
    /\ IsTidy(opened) => IsTidy(current)
    /\ \A trait \in ToSet(written) : \A i, j \in Moves(trait) :
          i # j => RemovedLines(trait.of, Moves(trait), i) \cap RemovedLines(trait.of, Moves(trait), j) = {}
=============================================================================
