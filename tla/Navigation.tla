----------------------------- MODULE Navigation -----------------------------
(* Going from a use to its definition (GotoDefinition.cpp), over the places of *)
(* References and some that are not renamed: an index into a union of tables   *)
(* (unionindex), a type another module forwards or that is destructured from   *)
(* it (forwarded), a required path (require).                                  *)
(*                                                                             *)
(* A local or a property may hold the function or the class declared at        *)
(* another place (value), and a property may have no location of its own       *)
(* (located), as those of the table an `export function` builds.               *)
EXTENDS References

NoValue == 0
NoLocation == 0
ValueOf(p) == workspace.places[p].value
LocationOf(p) == IF workspace.places[p].located THEN workspace.places[p].at ELSE NoLocation
IsFunction(p) == p # NoValue /\ KindOf(p) = "function"
IsClassValue(p) == p # NoValue /\ KindOf(p) = "class"
-----------------------------------------------------------------------------
(* Locals, parameters and classes used as values are bindings.                 *)

BindingAt(p) ==
    CASE KindOf(p) \in {"local", "param"} -> {p}
      [] KindOf(p) = "localuse" -> LocalFrom(names, In(p), names[p])
      [] KindOf(p) = "paramuse" -> Within(names, {"param"}, In(p), names[p])
      [] KindOf(p) = "global" -> Called(names, {"class"}, ModuleOf(p), names[p])
      [] OTHER -> {}

\* A local that holds a function leads to the function.
BindingDefinition(binding) ==
    OriginOf(IF IsFunction(ValueOf(binding)) THEN ValueOf(binding) ELSE binding)
-----------------------------------------------------------------------------
(* Members.                                                                    *)

Options(t) == IF t \in DOMAIN workspace.unions THEN workspace.unions[t] ELSE <<t>>

\* The member an index finds and the module of the type that has it, if any: a
\* property is known by its value, or else by its type.
LookupMember(t, name) ==
    IF t \in DOMAIN workspace.classes
    THEN {[member |-> p, module |-> ModuleOfClass(t)] : p \in {LookupClassMember(t, name)} \ {0}}
    ELSE {LET keys == OwnKeys(b, name)
              values == {p \in keys : KindOf(p) # "proptype"}
          IN [member |-> First(IF values # {} THEN values ELSE keys), module |-> workspace.tables[b].module] :
          b \in LookupProp(t, name)}

\* Mutant: functions are not followed.
ClassDefinition(p) == IF IsClassValue(ValueOf(p)) THEN {OriginOf(ValueOf(p))} ELSE {}

\* A property whose value is a class leads to the class, one without a location
\* to the function it holds.
ValueDefinition(p) ==
    IF IsClassValue(ValueOf(p)) \/ (LocationOf(p) = NoLocation /\ IsFunction(ValueOf(p)))
    THEN {OriginOf(ValueOf(p))} ELSE {}

PropertyDefinition(found) == <<found.module, LocationOf(found.member)>>

DefinitionOfProperty(found) ==
    LET values == ValueDefinition(found.member)
    IN IF values # {} THEN CHOOSE v \in values : TRUE ELSE PropertyDefinition(found)

\* What the tables of a union share is listed once: a location listed before is not.
RECURSIVE FindLocationsForIndex(_, _)
FindLocationsForIndex(options, name) ==
    IF options = <<>> THEN {}
    ELSE LET last == Len(options)
             earlier == FindLocationsForIndex(SubSeq(options, 1, last - 1), name)
             new == {f \in LookupMember(options[last], name) :
                       \A e \in earlier : e[2] # LocationOf(f.member)}
         IN earlier \cup {DefinitionOfProperty(f) : f \in new}

IndexDefinitions(p) ==
    {d \in FindLocationsForIndex(Options(Of(p)), names[p]) : d[2] # NoLocation}
-----------------------------------------------------------------------------
(* Types.                                                                      *)

Forwarded(module, name) == {f.place : f \in {f \in workspace.forwards : f.module = module /\ f.name = name}}
ExportedTypeBindings(module, name) ==
    {q \in Called(names, {"alias", "typefunction"}, module, name) : workspace.places[q].exported}
        \cup Forwarded(module, name)

\* A name without a prefix is that of a type of the module, whatever the type
\* parameters around it; or of a type from elsewhere, or a class.
LookupTypeDefinition(module, name) ==
    LET locations == Called(names, {"alias", "typefunction"}, module, name)
        bound == Forwarded(module, name)
    IN IF locations # {} THEN locations
       ELSE IF bound # {} THEN bound ELSE Called(names, {"class"}, module, name)

TypeDefinitions(p) ==
    {OriginOf(q) : q \in
        IF Prefix(p) = 0 THEN LookupTypeDefinition(ModuleOf(p), names[p])
        ELSE UNION {ExportedTypeBindings(m, names[p]) : m \in Imported(names, ModuleOf(p), names[Prefix(p)])}}

\* The node at a string in brackets is the string, which has no definition, and
\* that at the prefix of a type the type.
GotoDefinition(p) ==
    LET bindings == BindingAt(p)
    IN IF bindings # {} THEN {BindingDefinition(b) : b \in bindings}
       ELSE CASE KindOf(p) \in {"index", "unionindex"} -> IndexDefinitions(p)
              [] KindOf(p) \in {"typeref", "forwarded"} -> TypeDefinitions(p)
              [] KindOf(p) = "prefix" -> TypeDefinitions(Prefix(p))
              [] KindOf(p) = "require" -> {<<Of(p), NoLocation>>}
              [] OTHER -> {}

-----------------------------------------------------------------------------
(* What a definition may be.                                                   *)

\* What p stands for, in any of the tables of a union, and what that holds.
Meant(p) ==
    CASE KindOf(p) = "unionindex" ->
            UNION {PropertyMeaning(names, Options(Of(p))[i], names[p]) : i \in DOMAIN Options(Of(p))}
      [] KindOf(p) = "forwarded" ->
            UNION {Forwarded(m, names[p]) : m \in IF Prefix(p) = 0 THEN {ModuleOf(p)}
                                                 ELSE Imported(names, ModuleOf(p), names[Prefix(p)])}
      [] OTHER -> Meaning(names, p)
Origins(places) == {OriginOf(d) : d \in places} \cup {OriginOf(ValueOf(d)) : d \in {d \in places : ValueOf(d) # NoValue}}

\* A member copied from a trait of another module, and the name of a type
\* parameter that a type has as well, lead to another place.
LeadsAstray(p) ==
    \/ /\ KindOf(p) = "index" /\ Of(p) \in DOMAIN workspace.classes
       /\ \E f \in LookupMember(Of(p), names[p]) : f.module # ModuleOf(f.member)
    \/ KindOf(p) = "typeref" /\ Prefix(p) = 0 /\ GenericFrom(names, In(p), names[p]) # {}

\* A use leads to the declaration it stands for, or to what that holds, in the
\* module that has it; and to one whenever a rename can start there. Only tables
\* of a union that have the property at one place of two modules share one.
DefinitionsAreMeant ==
    \A p \in Places : KindOf(p) \in {"localuse", "paramuse", "global", "index", "unionindex", "typeref", "forwarded"} =>
        LET found == GotoDefinition(p)
            meant == Meant(p)
        IN \/ LeadsAstray(p)
           \/ /\ found \subseteq Origins(meant)
              /\ meant # {} /\ (GetReferencesForRenaming(p) # {} \/ KindOf(p) \in {"unionindex", "forwarded"}) =>
                    \E d \in meant : Origins({d}) \cap found # {}
              /\ KindOf(p) = "unionindex" =>
                    \A d \in meant : \E f \in found : \E o \in Origins({d}) : o[2] = f[2]
=============================================================================
