---------------------------- MODULE MCReferences ----------------------------
(* The workspaces of the checked instance. Each has three modules, a, b and c, *)
(* that require the ones before; names are shared between declarations that    *)
(* have nothing to do with each other. Beside them single documents whose      *)
(* imports are edited, and programs of functions that call each other.         *)
EXTENDS Navigation, TLC

VARIABLES document, meant, program

Place(module, at, kind, name, in, of) ==
    [module |-> module, at |-> at, kind |-> kind, name |-> name, in |-> in, of |-> of,
     prefix |-> 0, defines |-> FALSE, direct |-> TRUE, exported |-> FALSE, value |-> NoValue, located |-> TRUE]

Empty == [requires |-> {<<"b", "a">>, <<"c", "a">>, <<"c", "b">>}, classes |-> <<>>, tables |-> <<>>,
          metatables |-> <<>>, blocks |-> <<>>, owners |-> <<>>, places |-> <<>>, unions |-> <<>>, forwards |-> {}]
-----------------------------------------------------------------------------
(* Traits A and B, class C with one of several bodies, and class D; uses of    *)
(* the members n and m on each of them, and on the intersection of the traits.  *)
Class(module, isTrait, traits) == [module |-> module, isTrait |-> isTrait, traits |-> traits]

Bodies == {
    <<>>,
    <<Place("b", 3, "method", "n", "C", ""), Place("b", 4, "method", "m", "C", "")>>,
    <<Place("b", 2, "param", "n", "C", ""), Place("b", 4, "paramuse", "n", "C", "")>>,
    <<Place("b", 2, "param", "n", "C", ""), Place("b", 3, "property", "n", "C", ""),
      Place("b", 4, "paramuse", "n", "C", ""), Place("b", 5, "method", "m", "C", "")>>}

ClassWorkspace(traitOfA, traitOfB, body, needs, ofC, ofD) ==
    [Empty EXCEPT
        !.classes = ("A" :> Class("a", TRUE, {})) @@ ("B" :> Class("b", TRUE, needs))
                    @@ ("C" :> Class("b", FALSE, ofC)) @@ ("D" :> Class("c", FALSE, ofD))
                    @@ ("A & B" :> Class("c", TRUE, IF traitOfA = traitOfB THEN {} ELSE {"A", "B"})),
        !.places = <<Place("a", 2, "method", traitOfA, "A", ""), Place("b", 1, "method", traitOfB, "B", ""),
                     Place("b", 6, "class", "C", "", ""), Place("b", 7, "global", "C", "", ""),
                     Place("b", 8, "typeref", "C", "", ""), Place("c", 2, "method", "n", "D", "")>>
                   \o body
                   \o <<Place("a", 9, "index", traitOfA, "", "A"), Place("b", 10, "index", traitOfB, "", "B"),
                        Place("c", 9, "index", "n", "", "C"), Place("c", 10, "index", "m", "", "C"),
                        Place("c", 11, "index", "n", "", "D"), Place("c", 12, "index", "m", "", "D"),
                        Place("c", 13, "index", "n", "", "A & B"), Place("c", 14, "index", "m", "", "A & B")>>]

\* A class does not get a member of one name from two traits.
IsUnambiguous(w) ==
    \A c \in DOMAIN w.classes, name \in {"n", "m"} :
        LET Declares(d) == {i \in DOMAIN w.places :
                              w.places[i].kind \in {"method", "property", "param"} /\ w.places[i].in = d /\ w.places[i].name = name}
            Traits(d) == w.classes[d].traits \cup UNION {w.classes[t].traits : t \in w.classes[d].traits}
        IN Declares(c) # {} \/ Cardinality({t \in Traits(c) : Declares(t) # {}}) <= 1

ClassWorkspaces ==
    {w \in {ClassWorkspace(an, bn, body, needs, ofC, ofD) :
              an \in {"n", "m"}, bn \in {"n", "m"}, body \in Bodies, needs \in SUBSET {"A"},
              ofC \in SUBSET {"A", "B"}, ofD \in SUBSET {"A", "B"}} : IsUnambiguous(w)}
-----------------------------------------------------------------------------
(* A table Animal of a, a table Dog of b whose metatable leads to Animal or is *)
(* Animal's, and d, made with Dog or its metatable type; the properties eat    *)
(* (of Animal), bark (of Dog) and name (of d), each also of another table.     *)
Table(module, index) == [module |-> module, index |-> index]
Metatable(table, metatable) == [table |-> table, metatable |-> metatable]
Defining(place) == [place EXCEPT !.defines = TRUE]

TableWorkspace(dogIsPlain, keyKind, useKind) ==
    LET Dog == IF dogIsPlain THEN "Dog" ELSE "DogType"
        Dogs == IF dogIsPlain THEN "Animal" ELSE "dType"
    IN [Empty EXCEPT
        !.tables = ("Animal" :> Table("a", "Animal")) @@ ("Dog" :> Table("b", Dog)) @@ ("d" :> Table("b", ""))
                   @@ ("Other" :> Table("a", "")),
        !.metatables = ("DogType" :> Metatable("Dog", "Animal")) @@ ("dType" :> Metatable("d", Dog)),
        !.places = <<Place("a", 1, keyKind, "eat", "Animal", ""), Defining(Place("a", 2, "index", "sleep", "", "Animal")),
                     Defining(Place("b", 1, "index", "bark", "", Dog)), Place("b", 2, keyKind, "name", "d", ""),
                     Place("a", 3, keyKind, "name", "Other", ""), Place("c", 3, useKind, "name", "", "Other"),
                     Place("a", 4, "key", "bark", "Other", ""), Place("b", 4, useKind, "bark", "", "Other"),
                     Place("a", 5, "proptype", "eat", "Animal", ""),
                     Place("b", 5, useKind, "bark", "", "dType"), Place("c", 5, useKind, "bark", "", "dType"),
                     Place("b", 6, useKind, "name", "", "dType"), Place("c", 6, "index", "name", "", "dType"),
                     Place("b", 7, useKind, "eat", "", "Animal"), Place("c", 7, useKind, "eat", "", Dogs),
                     Place("c", 8, "index", "sleep", "", Dogs)>>]

TableWorkspaces ==
    {TableWorkspace(plain, key, use) : plain \in BOOLEAN, key \in {"key", "keystring"}, use \in {"index", "string"}}
-----------------------------------------------------------------------------
(* An alias T of a, exported or not, a type function F, and in b and c aliases *)
(* and functions whose parameters have the names of other types.               *)
Owner(kind, parent) == [kind |-> kind, parent |-> parent]
Exported(place, exported) == [place EXCEPT !.exported = exported]
Ref(module, at, name, in) == Place(module, at, "typeref", name, in, "")

TypeWorkspace(exported, functionIsExported, importName, uses) ==
    [Empty EXCEPT
        !.owners = ("Pair" :> Owner("alias", "")) @@ ("Box" :> Owner("alias", ""))
                   @@ ("Map" :> Owner("functiontype", "Box")) @@ ("f" :> Owner("function", ""))
                   @@ ("callback" :> Owner("functiontype", "f")),
        !.blocks = ("b" :> "") @@ ("c" :> ""),
        !.places = <<Exported(Place("a", 1, "alias", "T", "", ""), exported),
                     Exported(Place("a", 2, "typefunction", "F", "", ""), functionIsExported),
                     Place("a", 3, "typecall", "F", "", ""), Ref("a", 4, "F", ""),
                     Place("b", 1, "alias", "Pair", "Pair", ""), Place("b", 2, "generic", "S", "Pair", ""),
                     Ref("b", 3, "S", "Pair"), Ref("b", 4, "Pair", "Pair"),
                     Place("b", 5, "alias", "Box", "Box", ""), Place("b", 6, "generic", "S", "Box", ""),
                     Ref("b", 7, "S", "Box"), Place("b", 8, "generic", "S", "Map", ""), Ref("b", 9, "S", "Map"),
                     Place("b", 10, "generic", "R", "f", ""), Ref("b", 11, "R", "f"), Ref("b", 12, "R", "callback"),
                     Ref("b", 13, "Pair", "f")>>
                   \o (IF uses = "own" THEN <<Ref("a", 5, "T", ""), Ref("a", 6, "T", "")>>
                       ELSE <<Place("c", 1, "local", importName, "c", "a"), Place("c", 2, "localuse", importName, "c", ""),
                              [Place("c", 3, "prefix", importName, "", "") EXCEPT !.prefix = 21],
                              [Ref("c", 4, "T", "") EXCEPT !.prefix = 20]>>)
                   \o (IF uses = "own" \/ ~functionIsExported THEN <<>>
                       ELSE <<[Place("c", 5, "prefix", importName, "", "") EXCEPT !.prefix = 23],
                              [Ref("c", 6, "F", "") EXCEPT !.prefix = 22]>>)]

\* A type of another module is used with its prefix.
TypeWorkspaces ==
    {TypeWorkspace(exported, functionIsExported, importName, "own") :
        exported \in BOOLEAN, functionIsExported \in BOOLEAN, importName \in {"T", "lib"}}
    \cup {TypeWorkspace(TRUE, functionIsExported, importName, "c") :
            functionIsExported \in BOOLEAN, importName \in {"T", "lib"}}
-----------------------------------------------------------------------------
(* Locals of nested blocks that shadow each other.                             *)
LocalWorkspaces ==
    {[Empty EXCEPT
        !.blocks = ("outer" :> "") @@ ("inner" :> "outer") @@ ("other" :> "outer"),
        !.places = <<Place("a", 1, "local", first, "outer", ""), Place("a", 2, "local", second, "inner", ""),
                     Place("a", 3, "local", third, "other", ""), Place("a", 4, "local", "w", "outer", ""),
                     Place("a", 5, "localuse", first, "outer", ""), Place("a", 6, "localuse", second, "inner", ""),
                     Place("a", 7, "localuse", third, "other", ""), Place("a", 8, "localuse", "w", "inner", ""),
                     Place("a", 9, "global", "print", "", "")>>] :
        first \in {"u", "v"}, second \in {"u", "v", "w"}, third \in {"u", "v", "w"}}

\* Two functions whose parameters are types of an annotation, and of a local of
\* the body or not; beside them an alias of the module that has another name, and
\* one of another module that may have the name of a parameter.
GenericWorkspace(ofF, ofG, alias, other, usedInF, usedInG) ==
    LET Used(at, name, in) == [Ref("a", at, name, in) EXCEPT !.direct = FALSE]
    IN [Empty EXCEPT
        !.owners = ("f" :> Owner("function", "")) @@ ("g" :> Owner("function", "")),
        !.places = <<Place("a", 1, "generic", ofF, "f", ""), Ref("a", 2, ofF, "f"), Place("a", 4, "generic", ofG, "g", ""),
                     Ref("a", 5, ofG, "g"), Place("a", 7, "alias", alias, "", ""), Ref("a", 8, alias, ""),
                     Place("b", 1, "alias", other, "", ""), Ref("b", 2, other, "")>>
                   \o (IF usedInF THEN <<Used(3, ofF, "f")>> ELSE <<>>)
                   \o (IF usedInG THEN <<Used(6, ofG, "g")>> ELSE <<>>)]

MCGenericWorkspaces ==
    {GenericWorkspace(ofF, ofG, alias, other, usedInF, usedInG) :
        ofF \in {"S", "T"}, ofG \in {"S", "T"}, alias \in {"Q", "R"}, other \in {"R", "S", "T"},
        usedInF \in BOOLEAN, usedInG \in BOOLEAN}
-----------------------------------------------------------------------------
(* A function, a class and a type of a, listed in the table A or held by a     *)
(* local of c; a union of A and B, where the property n is at the same place   *)
(* or not, or both are A; and T forwarded by b and bound in c.                 *)
Holding(place, value) == [place EXCEPT !.value = value]
Prefixed(place, prefix) == [place EXCEPT !.prefix = prefix]

NavigationWorkspace(located, line, tables, nameOfC) ==
    [Empty EXCEPT
        !.tables = ("A" :> Table("a", "")) @@ ("B" :> Table("b", "")),
        !.unions = "U" :> tables,
        !.blocks = "c" :> "",
        !.forwards = {[module |-> "b", name |-> "T", place |-> 3], [module |-> "c", name |-> nameOfC, place |-> 3]},
        !.places = <<Place("a", 1, "function", "f", "", ""), Place("a", 2, "class", "P", "", ""),
                     Exported(Place("a", 3, "alias", "T", "", ""), TRUE),
                     [Holding(Place("a", 4, "key", "f", "A", ""), 1) EXCEPT !.located = located],
                     Holding(Place("a", 5, "key", "P", "A", ""), 2), Place("a", 6, "key", "n", "A", ""),
                     Place("b", line, "key", "n", "B", ""), Place("a", 7, "global", "P", "", ""),
                     Place("c", 1, "local", "lib", "c", "b"), Holding(Place("c", 2, "local", "g", "c", ""), 1),
                     Place("c", 3, "localuse", "g", "c", ""), Place("c", 4, "index", "f", "", "A"),
                     Place("c", 5, "index", "P", "", "A"), Place("c", 6, "unionindex", "n", "", "U"),
                     Prefixed(Place("c", 7, "prefix", "lib", "", ""), 16),
                     Prefixed(Place("c", 8, "forwarded", "T", "", ""), 15),
                     Place("c", 9, "forwarded", nameOfC, "", "")>>]

NavigationWorkspaces ==
    {NavigationWorkspace(located, line, tables, nameOfC) :
        located \in BOOLEAN, line \in {6, 7}, tables \in {<<"A", "B">>, <<"B", "A">>, <<"A", "A">>}, nameOfC \in {"T", "S"}}
-----------------------------------------------------------------------------
MCWorkspaces == {Empty} \cup ClassWorkspaces \cup TableWorkspaces \cup TypeWorkspaces \cup LocalWorkspaces
                        \cup NavigationWorkspaces
\* A new name is used nowhere, so it does not matter which is taken.
MCSymmetry == Permutations(NewNames)
-----------------------------------------------------------------------------
Listed == INSTANCE ImportTexts
Imports == INSTANCE Destructure
             WITH Documents <- Listed!TextDocuments, FieldsOf <- Listed!TextFields,
                  Classes <- Listed!TextClasses, Requirable <- Listed!TextRequirable

\* Importing fields into a pattern and qualifying them back keeps what names mean.
ImportsAreSound == Imports!ImportsKeepMeaning /\ Imports!QualifyingUndoesImporting

-----------------------------------------------------------------------------
(* A function f of a with another in it, one of b and one of c; two calls.     *)
Function(module, in) == [module |-> module, in |-> in]
CallSites == {Function("a", 0), Function("a", 1), Function("a", 2), Function("b", 0), Function("b", 3), Function("c", 4)}
CallTypes == {[function |-> f, instance |-> i] : f \in 0..3, i \in 0..1}
CallsIn == {[module |-> s.module, in |-> s.in, type |-> t] : s \in CallSites, t \in CallTypes}
MCPrograms ==
    {[functions |-> <<Function("a", 0), Function("a", 1), Function("b", 0), Function("c", 0)>>,
      requires |-> requires, calls |-> <<first, second>>] :
        requires \in {{<<"b", "a">>}, {<<"b", "a">>, <<"c", "b">>}}, first \in CallsIn, second \in CallsIn}

NoProgram == [functions |-> <<>>, requires |-> {}, calls |-> <<>>]
Hierarchy == INSTANCE CallHierarchy WITH Programs <- MCPrograms

\* A name leads to what it means, a rename may start at any of its places, and a
\* call found from the caller is found from the function that is called.
NamesAreFound == DefinitionsAreMeant /\ RenamesStartAnywhere /\ Hierarchy!CallsGoBothWays
-----------------------------------------------------------------------------
\* A document is edited and a program looked through when the workspace is empty.
MCInit ==
    /\ Init
    /\ \/ workspace = Empty /\ Imports!DocumentInit /\ program = NoProgram
       \/ workspace = Empty /\ Hierarchy!ProgramInit /\ document = <<>> /\ meant = {}
       \/ workspace # Empty /\ document = <<>> /\ meant = {} /\ program = NoProgram

MCNext ==
    /\ UNCHANGED program
    /\ \/ Next /\ UNCHANGED <<document, meant>>
       \/ Imports!DocumentNext /\ UNCHANGED vars

MCSpec == MCInit /\ [][MCNext]_<<vars, document, meant, program>>
=============================================================================
