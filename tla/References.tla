----------------------------- MODULE References -----------------------------
(* Finding every reference of what is named at a place, and renaming it, over  *)
(* the modules of a workspace: members of classes and traits, properties of    *)
(* tables, types and their parameters, type functions, locals and imports      *)
(* (References.cpp, Rename.cpp and the searches of LuauExt.cpp).               *)
(*                                                                             *)
(* A place is a token that is a name.  It has a module, a location in it (at;  *)
(* two modules may use the same), a kind, the declaration or block it is in,   *)
(* and what it is of: the type of the expression it indexes, the module an     *)
(* import requires.  names is what the tokens say now.                         *)
EXTENDS Naturals, Sequences, FiniteSets

CONSTANTS
    Workspaces,    \* the workspaces that may be open: places, classes, tables...
    NewNames       \* the names a place may be given

VARIABLES
    workspace,
    names          \* the name written at each place

vars == <<workspace, names>>

None == ""
Garbled == "?"     \* what an edit that takes the quotes of a string leaves

Otherwise(found, other) == IF found # {} THEN found ELSE other

Places == DOMAIN workspace.places
KindOf(p) == workspace.places[p].kind
ModuleOf(p) == workspace.places[p].module
In(p) == workspace.places[p].in
Of(p) == workspace.places[p].of
Called(N, kinds, module, name) ==
    {p \in Places : KindOf(p) \in kinds /\ ModuleOf(p) = module /\ N[p] = name}
Within(N, kinds, in, name) == {p \in Places : KindOf(p) \in kinds /\ In(p) = in /\ N[p] = name}

MemberKinds == {"property", "method"}
KeyKinds == {"key", "keystring", "proptype"}

\* Whether p gives the property of its table: a key, a field of a table type or
\* an assigned index (function M.f).
IsDeclaringKey(p) == KindOf(p) \in KeyKinds \/ (KindOf(p) = "index" /\ workspace.places[p].defines)
TableOf(p) == IF KindOf(p) \in KeyKinds THEN In(p) ELSE Of(p)
-----------------------------------------------------------------------------
(* What a name means in Luau, for names N: the declarations it stands for.     *)

\* The member of a class: its own, a parameter of its primary constructor, or
\* the member of a trait it implements or needs.
RECURSIVE MemberMeaning(_, _, _)
MemberMeaning(N, class, name) ==
    LET own == Within(N, MemberKinds, class, name)
        params == Within(N, {"param"}, class, name)
    IN IF own # {} THEN own
       ELSE IF params # {} THEN params
       ELSE UNION {MemberMeaning(N, trait, name) : trait \in workspace.classes[class].traits}

RECURSIVE NeededTraits(_)
NeededTraits(class) ==
    LET named == workspace.classes[class].traits
    IN named \cup UNION {NeededTraits(trait) : trait \in named}

\* The property of a table, or of what the __index of its metatable is.
Metatables == DOMAIN workspace.metatables
Base(t) == IF t \in Metatables THEN workspace.metatables[t].table ELSE t
Index(t) == workspace.tables[Base(t)].index
RECURSIVE PropertyMeaning(_, _, _)
PropertyMeaning(N, t, name) ==
    LET own == {p \in Places : IsDeclaringKey(p) /\ Base(TableOf(p)) = Base(t) /\ N[p] = name}
        next == IF t \in Metatables THEN Index(workspace.metatables[t].metatable) ELSE None
    IN IF own # {} \/ next = None THEN own ELSE PropertyMeaning(N, next, name)

\* A local of the innermost block around p.
RECURSIVE LocalFrom(_, _, _)
LocalFrom(N, block, name) ==
    LET here == Within(N, {"local"}, block, name)
    IN IF here # {} \/ block = None THEN here ELSE LocalFrom(N, workspace.blocks[block], name)

\* A parameter of the innermost declaration around p, or a type of the module.
RECURSIVE GenericFrom(_, _, _)
GenericFrom(N, owner, name) ==
    LET here == Within(N, {"generic"}, owner, name)
    IN IF here # {} \/ owner = None THEN here ELSE GenericFrom(N, workspace.owners[owner].parent, name)
TypeMeaning(N, p) ==
    LET generic == GenericFrom(N, In(p), N[p])
    IN IF generic # {} THEN generic ELSE Called(N, {"alias", "class", "typefunction"}, ModuleOf(p), N[p])

Prefix(p) == workspace.places[p].prefix
Imported(N, module, name) == {Of(l) : l \in {l \in Called(N, {"local"}, module, name) : Of(l) # None}}
PrefixedMeaning(N, p) ==
    UNION {{q \in Called(N, {"alias", "typefunction"}, m, N[p]) : workspace.places[q].exported} :
           m \in Imported(N, ModuleOf(p), N[Prefix(p)])}

\* What p means. A member also stands for those it overrides, fulfils or restates.
Meaning(N, p) ==
    CASE KindOf(p) \in MemberKinds \cup {"param"} ->
            UNION {Within(N, MemberKinds \cup {"param"}, c, N[p]) : c \in {In(p)} \cup NeededTraits(In(p))}
      [] KindOf(p) = "paramuse" -> Within(N, {"param"}, In(p), N[p])
      [] KindOf(p) = "index" /\ Of(p) \in DOMAIN workspace.classes -> MemberMeaning(N, Of(p), N[p])
      [] KindOf(p) \in {"index", "string"} \cup KeyKinds /\ TableOf(p) \notin DOMAIN workspace.classes ->
            PropertyMeaning(N, TableOf(p), N[p])
      [] KindOf(p) = "global" -> Called(N, {"class"}, ModuleOf(p), N[p])
      [] KindOf(p) = "typecall" -> Called(N, {"typefunction"}, ModuleOf(p), N[p])
      [] KindOf(p) = "localuse" -> LocalFrom(N, In(p), N[p])
      [] KindOf(p) = "prefix" -> Called(N, {"local"}, ModuleOf(p), N[p])
      [] KindOf(p) = "typeref" -> IF Prefix(p) = 0 THEN TypeMeaning(N, p) ELSE PrefixedMeaning(N, p)
      [] OTHER -> {p}

Meanings(N) == [p \in Places |-> Meaning(N, p)]
-----------------------------------------------------------------------------
RECURSIVE DependentsOf(_)
DependentsOf(found) ==
    LET more == found \cup {r[1] : r \in {r \in workspace.requires : r[2] \in found}}
    IN IF more = found THEN found ELSE DependentsOf(more)
FindReverseDependencies(module) == DependentsOf({module})
-----------------------------------------------------------------------------
(* Properties of tables.                                                       *)

IsSameTableDirect(a, b) == Base(a) = Base(b)

RECURSIVE TableIsRelatedViaMetatable(_, _, _)
TableIsRelatedViaMetatable(t, target, visited) ==
    /\ t \in Metatables
    /\ LET metatable == workspace.metatables[t].metatable
           index == Index(metatable)
       IN /\ metatable \notin visited
          /\ IF metatable \in Metatables
             THEN \/ IsSameTableDirect(metatable, target)
                  \/ TableIsRelatedViaMetatable(metatable, target, visited \cup {metatable})
             ELSE /\ index # None
                  /\ \/ IsSameTableDirect(index, target)
                     \/ TableIsRelatedViaMetatable(index, target, visited \cup {metatable})

IsSameTable(a, b) ==
    \/ IsSameTableDirect(a, b)
    \/ TableIsRelatedViaMetatable(a, b, {})
    \/ TableIsRelatedViaMetatable(b, a, {})

\* The places that give the property in the table that has it: its own, or
\* where the __index of a plain metatable leads.
OwnKeys(t, name) == {p \in Places : IsDeclaringKey(p) /\ Base(TableOf(p)) = t /\ names[p] = name}
RECURSIVE LookupProp(_, _)
LookupProp(t, name) ==
    IF OwnKeys(Base(t), name) # {} THEN {Base(t)}
    ELSE IF t \notin Metatables THEN {}
    ELSE LET metatable == workspace.metatables[t].metatable
             next == IF metatable \in Metatables THEN None ELSE Index(metatable)
         IN IF next \in {None, t} THEN {} ELSE LookupProp(next, name)

FindAllTableReferences(t, property) ==
    LET found == LookupProp(t, property)
        table == IF found = {} THEN t ELSE CHOOSE b \in found : TRUE
        modules == FindReverseDependencies(workspace.tables[table].module)
        used == {p \in Places : /\ ModuleOf(p) \in modules /\ names[p] = property
                                /\ KindOf(p) \in {"index", "string"} \cup KeyKinds
                                /\ TableOf(p) \notin DOMAIN workspace.classes
                                /\ IsSameTable(table, TableOf(p))}
    IN IF table \in Metatables THEN {} ELSE used \cup OwnKeys(table, property)
-----------------------------------------------------------------------------
(* Members of classes and traits. The origin of a member is the module and the *)
(* location of its declaration.                                                *)

NoOrigin == <<>>
OriginOf(p) == <<ModuleOf(p), workspace.places[p].at>>
First(places) ==
    IF places = {} THEN 0
    ELSE CHOOSE p \in places : \A q \in places : workspace.places[p].at <= workspace.places[q].at

FindOwnClassMember(class, name) ==
    LET members == Within(names, MemberKinds, class, name)
    IN First(IF members # {} THEN members ELSE Within(names, {"param"}, class, name))

\* A class is listed with every trait it needs, a trait with those it names.
ImplementedTraits(class) ==
    IF workspace.classes[class].isTrait THEN workspace.classes[class].traits ELSE NeededTraits(class)

\* The property of a class's type is its own member, or a copy of the trait's
\* with the trait's location. An intersection of traits is a trait that needs them
\* and has no member of its own.
RECURSIVE LookupClassMember(_, _)
LookupClassMember(class, name) ==
    LET own == FindOwnClassMember(class, name)
        copied == {LookupClassMember(trait, name) : trait \in workspace.classes[class].traits} \ {0}
    IN IF own # 0 \/ copied = {} THEN own ELSE CHOOSE p \in copied : TRUE

ModuleOfClass(class) == workspace.classes[class].module

RECURSIVE FindClassMemberOrigin(_, _)
FindClassMemberOrigin(class, name) ==
    LET member == LookupClassMember(class, name)
        copiedFrom == {trait \in ImplementedTraits(class) :
                         LET p == LookupClassMember(trait, name)
                         IN p # 0 /\ workspace.places[p].at = workspace.places[member].at}
    IN IF member = 0 THEN NoOrigin
       ELSE IF copiedFrom # {} THEN FindClassMemberOrigin(CHOOSE trait \in copiedFrom : TRUE, name)
       ELSE <<ModuleOfClass(class), workspace.places[member].at>>

RECURSIVE FindImplementedTraitMemberOrigins(_, _)
FindImplementedTraitMemberOrigins(class, name) ==
    UNION {{FindClassMemberOrigin(trait, name)} \cup FindImplementedTraitMemberOrigins(trait, name) :
           trait \in ImplementedTraits(class)} \ {NoOrigin}

ModulesOf(family) == UNION {FindReverseDependencies(origin[1]) : origin \in family}

\* The members renamed together: those a member of the family overrides or
\* fulfils, and those that override or fulfil one.
RelatedTo(family, name) ==
    UNION {LET own == FindOwnClassMember(c, name)
               related == {OriginOf(own)} \cup FindImplementedTraitMemberOrigins(c, name)
           IN IF own # 0 /\ related \cap family # {} THEN related ELSE {} :
           c \in {c \in DOMAIN workspace.classes : ModuleOfClass(c) \in ModulesOf(family)}}

RECURSIVE MemberFamily(_, _), FamilyFrom(_, _, _)
FamilyFrom(family, more, name) == IF more = family THEN family ELSE MemberFamily(more, name)
MemberFamily(family, name) == FamilyFrom(family, family \cup RelatedTo(family, name), name)

\* Mutant: a restated parameter is left alone.
ParametersInFamily(family, name) ==
    {p \in Places : KindOf(p) = "param" /\ names[p] = name /\ OriginOf(p) \in family}

\* A parameter of a primary constructor is renamed with the property of the
\* family that restates it, or when it is the declaration itself.
ParametersOfFields(family, name) ==
    {p \in Places : /\ KindOf(p) = "param" /\ names[p] = name
                    /\ \/ OriginOf(p) \in family
                       \/ \E q \in Within(names, {"property"}, In(p), name) : OriginOf(q) \in family}

UsesOfFamily(family, name) ==
    {p \in Places : /\ KindOf(p) = "index" /\ names[p] = name
                    /\ Of(p) \in DOMAIN workspace.classes
                    /\ FindClassMemberOrigin(Of(p), name) \in family}
DeclarationsOfFamily(family, name) ==
    {p \in Places : KindOf(p) \in MemberKinds /\ names[p] = name /\ OriginOf(p) \in family}
UsesOfParameters(params, name) == UNION {Within(names, {"paramuse"}, In(p), name) : p \in params}

ReferencesOfFamily(family, name) ==
    LET modules == ModulesOf(family)
        params == ParametersOfFields(family, name)
    IN {p \in UsesOfFamily(family, name) \cup DeclarationsOfFamily(family, name)
                 \cup params \cup UsesOfParameters(params, name) : ModuleOf(p) \in modules}
FindAllClassMemberReferences(origin, name) == ReferencesOfFamily(MemberFamily({origin}, name), name)

\* Where the field a parameter sets is declared.
PrimaryConstructorFieldOrigin(p) ==
    LET members == Within(names, MemberKinds, In(p), names[p])
        params == Within(names, {"param"}, In(p), names[p])
    IN IF members = {} THEN OriginOf(First(params))
       ELSE IF KindOf(First(members)) = "property" THEN OriginOf(First(members))
       ELSE NoOrigin
-----------------------------------------------------------------------------
(* Symbols and types.                                                          *)

\* A local, its uses, and the type prefixes of its name.
FindSymbolReferences(local) ==
    {local} \cup {p \in Places : KindOf(p) = "localuse" /\ LocalFrom(names, In(p), names[p]) = {local}}
            \cup Called(names, {"prefix"}, ModuleOf(local), names[local])

TypeReferences(module, name) == {p \in Called(names, {"typeref"}, module, name) : Prefix(p) = 0}
PrefixedTypeReferences(module, name, importName) ==
    {p \in Called(names, {"typeref"}, module, name) : Prefix(p) # 0 /\ names[Prefix(p)] = importName}

\* The class statement of the name, a class value (parsed as a global) and the
\* class in an annotation.
FindClassNameReferences(class) ==
    {class} \cup Called(names, {"global"}, ModuleOf(class), names[class])
            \cup TypeReferences(ModuleOf(class), names[class])

\* A module that imports the type's module twice is searched for one name.
ImportName(module, imported) ==
    LET imports == {p \in Places : KindOf(p) = "local" /\ ModuleOf(p) = module /\ Of(p) = imported}
    IN IF imports = {} THEN None ELSE names[First(imports)]

FindAllTypeReferences(module, name) ==
    TypeReferences(module, name) \cup Called(names, {"alias"}, module, name)
        \cup UNION {PrefixedTypeReferences(m, name, ImportName(m, module)) :
                    m \in {m \in FindReverseDependencies(module) \ {module} : ImportName(m, module) # None}}

FindTypeFunctionReferences(function) ==
    TypeReferences(ModuleOf(function), names[function]) \cup {function}
        \cup Called(names, {"typecall"}, ModuleOf(function), names[function])

FindAllTypeFunctionReferences(function) ==
    FindTypeFunctionReferences(function) \cup
        IF workspace.places[function].exported
        THEN {p \in FindAllTypeReferences(ModuleOf(function), names[function]) : ModuleOf(p) # ModuleOf(function)}
        ELSE {}

\* The declarations around an owner, itself included, and those a search of a
\* type parameter enters: not function types that declare the name again.
RECURSIVE OwnersFrom(_)
OwnersFrom(owner) == IF owner = None THEN {} ELSE {owner} \cup OwnersFrom(workspace.owners[owner].parent)
Redefines(owner, name) ==
    workspace.owners[owner].kind = "functiontype" /\ Within(names, {"generic"}, owner, name) # {}
FindTypeParameterUsages(owner, name) ==
    {p \in Places : /\ KindOf(p) \in {"typeref", "generic"} /\ names[p] = name
                    /\ owner \in OwnersFrom(In(p))
                    /\ \A o \in OwnersFrom(In(p)) \ OwnersFrom(owner) : ~Redefines(o, name)}

\* The declaration a type name is a parameter of: function types around it, then
\* the alias or function whose signature it is directly in.
RECURSIVE GenericOwnerByName(_, _)
GenericOwnerByName(p, owner) ==
    IF owner = None \/ (workspace.owners[owner].kind # "functiontype" /\ ~workspace.places[p].direct) THEN None
    ELSE IF Within(names, {"generic"}, owner, names[p]) # {} THEN owner
    ELSE IF workspace.owners[owner].kind # "functiontype" THEN None
    ELSE GenericOwnerByName(p, workspace.owners[owner].parent)
-----------------------------------------------------------------------------
(* What is renamed at a place, {} when the request fails.                      *)

FindClassReferencesAtPosition(p) ==
    LET classes == Called(names, {"class"}, ModuleOf(p), names[p])
        origin == CASE KindOf(p) \in MemberKinds -> OriginOf(p)
                    [] KindOf(p) \in {"param", "paramuse"} -> PrimaryConstructorFieldOrigin(p)
                    [] KindOf(p) = "index" /\ Of(p) \in DOMAIN workspace.classes ->
                         FindClassMemberOrigin(Of(p), names[p])
                    [] OTHER -> NoOrigin
    IN IF KindOf(p) \in {"class", "global"} \/ (KindOf(p) = "typeref" /\ Prefix(p) = 0)
       THEN UNION {FindClassNameReferences(c) : c \in classes}
       ELSE IF origin # NoOrigin THEN FindAllClassMemberReferences(origin, names[p])
       ELSE {}

FindTypeFunctionAtPosition(p) ==
    IF KindOf(p) = "typefunction" THEN {p}
    ELSE IF KindOf(p) = "typecall" THEN Called(names, {"typefunction"}, ModuleOf(p), names[p]) ELSE {}

SymbolAt(p) ==
    IF KindOf(p) = "local" THEN {p}
    ELSE IF KindOf(p) = "localuse" THEN LocalFrom(names, In(p), names[p]) ELSE {}

PropertyReferencesAt(p) ==
    IF KindOf(p) \in {"index", "string"} \cup KeyKinds /\ TableOf(p) \notin DOMAIN workspace.classes
    THEN FindAllTableReferences(TableOf(p), names[p]) ELSE {}

ParameterReferencesAt(p) == FindTypeParameterUsages(In(p), names[p])

AliasReferencesAt(p) ==
    IF workspace.places[p].exported THEN FindAllTypeReferences(ModuleOf(p), names[p])
    ELSE TypeReferences(ModuleOf(p), names[p]) \cup {p}

\* On a prefix, as on the name after it, the type of the imported module.
PrefixedReferencesAt(p) ==
    UNION {LET functions == Called(names, {"typefunction"}, m, names[p])
           IN IF functions # {} THEN UNION {FindAllTypeFunctionReferences(f) : f \in functions}
              ELSE FindAllTypeReferences(m, names[p]) :
           m \in Imported(names, ModuleOf(p), names[Prefix(p)])}

UnprefixedReferencesAt(p) ==
    LET owner == GenericOwnerByName(p, In(p))
        aliases == Called(names, {"alias"}, ModuleOf(p), names[p])
        functions == Called(names, {"typefunction"}, ModuleOf(p), names[p])
    IN IF owner # None THEN FindTypeParameterUsages(owner, names[p])
       ELSE IF aliases = {} /\ functions # {} THEN UNION {FindAllTypeFunctionReferences(f) : f \in functions}
       ELSE TypeReferences(ModuleOf(p), names[p]) \cup aliases

TypeReferencesAt(p) ==
    CASE KindOf(p) = "generic" -> ParameterReferencesAt(p)
      [] KindOf(p) = "alias" -> AliasReferencesAt(p)
      [] KindOf(p) = "prefix" -> PrefixedReferencesAt(Prefix(p))
      [] KindOf(p) = "typeref" -> IF Prefix(p) # 0 THEN PrefixedReferencesAt(p) ELSE UnprefixedReferencesAt(p)
      [] OTHER -> {}

GetReferencesForRenaming(p) ==
    Otherwise(FindClassReferencesAtPosition(p),
    Otherwise(UNION {FindAllTypeFunctionReferences(f) : f \in FindTypeFunctionAtPosition(p)},
    Otherwise(UNION {FindSymbolReferences(s) : s \in SymbolAt(p)},
    Otherwise(PropertyReferencesAt(p), TypeReferencesAt(p)))))

\* The text an edit leaves: the range of a string that is a key in brackets or
\* an index is that of its content, the range of a plain key the name itself.
IsQuoted(p) == KindOf(p) \in {"string", "keystring"}
IsConstantString(p) == KindOf(p) \in {"string", "key", "keystring"}
AdjustedRange(p) == IsConstantString(p) /\ KindOf(p) # "key"
Written(p, name) == IF IsQuoted(p) = AdjustedRange(p) THEN name ELSE Garbled
-----------------------------------------------------------------------------
Init ==
    /\ workspace \in Workspaces
    /\ names = [p \in Places |-> workspace.places[p].name]

Edit(renamed, name) ==
    /\ renamed # {}
    /\ names' = [q \in Places |-> IF q \in renamed THEN Written(q, name) ELSE names[q]]

\* textDocument/rename with a name that is not in use.
Rename(p, name) ==
    /\ \A q \in Places : names[q] # name
    /\ Edit(GetReferencesForRenaming(p), name)
    /\ UNCHANGED workspace

Next == \E p \in Places, name \in NewNames : Rename(p, name)

Spec == Init /\ [][Next]_vars
-----------------------------------------------------------------------------
\* After any renames, from declarations and uses in any module, every name
\* stands for what it stood for: a use for its declaration, a member for those
\* it overrides or fulfils, a parameter for its field.
RenamesKeepMeaning == Meanings(names) = Meanings([p \in Places |-> workspace.places[p].name])

\* It does not matter where a rename starts: every place it would change would
\* change the same places, or none: a property that is found through a metatable
\* with a metatable of its own cannot be renamed at its uses. (On the prefix of a
\* type a rename changes the type.)
RenamesStartAnywhere ==
    LET requests == {<<p, GetReferencesForRenaming(p)>> : p \in Places}
    IN \A r, other \in requests :
          other[1] \in r[2] /\ KindOf(other[1]) # "prefix" => other[2] \in {r[2], {}}
=============================================================================
