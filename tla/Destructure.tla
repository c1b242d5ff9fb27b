----------------------------- MODULE Destructure -----------------------------
(* Importing the fields of modules through destructuring patterns, qualifying  *)
(* them back, removing the ones nothing uses and completing names that are not *)
(* imported yet (Destructure.cpp and the actions of CodeAction.cpp and         *)
(* Completion.cpp made with it).                                               *)
(*                                                                             *)
(* A document is a list of statements: declarations, which bind a target to a  *)
(* value, and uses of values and types.  A target is a name with perhaps a     *)
(* pattern (components.{ Card }), whose fields bind targets of their own; the  *)
(* name is Hidden in const .{ Card } = components.  What a name means is the   *)
(* path of a field in a module.                                                *)
EXTENDS Naturals, Sequences, FiniteSets, SequencesExt

CONSTANTS
    Documents,    \* the documents that may be opened
    FieldsOf,     \* the fields of every table of a module, by its path
    Classes,      \* the fields that are classes, which are types too
    Requirable    \* the modules a require may be added for, in the order offered

VARIABLES
    document,
    meant         \* what the uses of the document are to mean, by their number

Hidden == "."
Unbound == <<>>

IsDeclaration(s) == s.kind = "local"
Declarations(d) == {i \in DOMAIN d : IsDeclaration(d[i])}
Name(name) == [name |-> name, annotated |-> FALSE, pattern |-> FALSE, fields |-> <<>>]
Field(name) == [key |-> name, target |-> Name(name)]
Leaf(field) == ~field.target.pattern
Renamed(field) == field.target.name # field.key
-----------------------------------------------------------------------------
(* What names mean in Luau. A pattern is named by its statement and the indexes *)
(* of the fields that lead to it.                                               *)

RECURSIVE TargetsIn(_, _)
TargetsIn(target, at) ==
    {at} \cup UNION {TargetsIn(target.fields[i].target, Append(at, i)) : i \in DOMAIN target.fields}
Targets(d) == UNION {{<<i, at>> : at \in TargetsIn(d[i].target, <<>>)} : i \in Declarations(d)}

RECURSIVE Below(_, _)
Below(target, at) == IF at = <<>> THEN target ELSE Below(target.fields[Head(at)].target, Tail(at))
TargetAt(d, t) == Below(d[t[1]].target, t[2])

RECURSIVE KeysTo(_, _)
KeysTo(target, at) ==
    IF at = <<>> THEN <<>>
    ELSE <<target.fields[Head(at)].key>> \o KeysTo(target.fields[Head(at)].target, Tail(at))

IsVisible(block, from) == block \in {"", from}

\* The target the name is bound by at statement i, in its block or at the top.
BoundAt(d, i, name) ==
    LET bound == {t \in Targets(d) : t[1] < i /\ IsVisible(d[t[1]].block, d[i].block) /\ TargetAt(d, t).name = name}
    IN IF bound = {} THEN Unbound ELSE CHOOSE t \in bound : \A u \in bound : u[1] <= t[1]

RECURSIVE Value(_, _)
RECURSIVE PathOf(_, _, _)
PathOf(d, i, path) ==
    LET t == BoundAt(d, i, Head(path))
    IN IF t = Unbound THEN <<"global">> \o path ELSE Value(d, t) \o Tail(path)
Value(d, t) ==
    LET s == d[t[1]]
    IN (IF s.required THEN s.path ELSE PathOf(d, t[1], s.path)) \o KeysTo(s.target, t[2])

\* A type name is a class bound by that name, or an alias.
TypePath(d, i) ==
    IF Len(d[i].path) = 1 /\ PathOf(d, i, d[i].path) \notin Classes THEN <<"alias">> \o d[i].path
    ELSE PathOf(d, i, d[i].path)

\* An assignment to a local is about the local, not about the field it holds.
Meaning(d, i) ==
    IF d[i].kind = "type" THEN TypePath(d, i)
    ELSE IF d[i].assigned /\ Len(d[i].path) = 1 THEN <<"local">> \o d[i].path
    ELSE PathOf(d, i, d[i].path)
Meanings(d) == {<<d[i].number, Meaning(d, i)>> : i \in {i \in DOMAIN d : d[i].kind \in {"use", "type"}}}
-----------------------------------------------------------------------------
(* Facts about the file (DestructureFacts).                                    *)

Patterns(d) == {t \in Targets(d) : TargetAt(d, t).pattern}
IsTop(d, i) == d[i].block = ""

\* Places that read the local t binds: uses and values of declarations.
Reads(d, t) ==
    {i \in DOMAIN d : /\ d[i].kind = "use" \/ (IsDeclaration(d[i]) /\ ~d[i].required)
                      /\ BoundAt(d, i, Head(d[i].path)) = t}
Indexes(d, t) == {i \in Reads(d, t) : Len(d[i].path) > 1}
TypeReads(d, t) ==
    {i \in DOMAIN d : d[i].kind = "type" /\ Len(d[i].path) > 1 /\ BoundAt(d, i, Head(d[i].path)) = t}
Globals(d) ==
    {Head(d[i].path) : i \in {i \in DOMAIN d : d[i].kind = "use" /\ BoundAt(d, i, Head(d[i].path)) = Unbound}}
Aliases(d) == {d[i].path[1] : i \in {i \in DOMAIN d : d[i].kind = "alias"}}

BringsAType(path) == path \in Classes

\* Whether binding the name would capture or shadow something anywhere.
NameIsTaken(d, name, withType, except) ==
    \/ name \in Globals(d)
    \/ \E t \in Targets(d) \ {except} : TargetAt(d, t).name = name
    \/ withType /\ name \in Aliases(d)

\* The local a pattern's fields can be read through.
PatternQualifier(d, t) ==
    IF TargetAt(d, t).name # Hidden THEN t
    ELSE IF t[2] = <<>> /\ ~d[t[1]].required /\ Len(d[t[1]].path) = 1 THEN BoundAt(d, t[1], Head(d[t[1]].path))
    ELSE Unbound

PatternOf(t) == <<t[1], SubSeq(t[2], 1, Len(t[2]) - 1)>>
KeyOf(d, t) == TargetAt(d, PatternOf(t)).fields[Last(t[2])].key

\* A pattern with a comment is left as it is.
Splits(d, t) == ~d[t[1]].comment

RECURSIVE Replaced(_, _, _)
Replaced(target, at, new) ==
    IF at = <<>> THEN new
    ELSE [target EXCEPT !.fields[Head(at)].target = Replaced(@, Tail(at), new)]
WithTarget(d, t, new) == [d EXCEPT ![t[1]].target = Replaced(@, t[2], new)]
WithField(d, t, field) ==
    LET target == TargetAt(d, t)
    IN WithTarget(d, t, [target EXCEPT !.pattern = TRUE, !.fields = Append(@, field)])
-----------------------------------------------------------------------------
(* Importing: q.name becomes name, which a pattern of q's binds.               *)

\* The uses of q.name that become name; one that is assigned to forbids it.
Qualified(d, q, name, withType) ==
    {i \in Indexes(d, q) \cup (IF withType THEN TypeReads(d, q) ELSE {}) : d[i].path[2] = name}

\* Mutant: assignments are imported like reads.
CanAlwaysUnqualify(d, q, name) == TRUE

CanUnqualify(d, q, name) == \A i \in Indexes(d, q) : d[i].kind = "use" /\ d[i].path = <<Head(d[i].path), name>> => ~d[i].assigned
Unqualified(d, uses) == [i \in DOMAIN d |-> IF i \in uses THEN [d[i] EXCEPT !.path = Tail(@)] ELSE d[i]]

\* A pattern q is bound with, or one at the top of the module that destructures
\* q before anything reads through it.
OwnsOrReads(d, t, q) ==
    \/ t = q
    \/ /\ TargetAt(d, t).name = Hidden /\ PatternQualifier(d, t) = q /\ IsTop(d, t[1])
       /\ \A i \in Indexes(d, q) : i > t[1]

FieldWith(target, key) ==
    LET found == {i \in DOMAIN target.fields : target.fields[i].key = key}
    IN IF found = {} THEN 0 ELSE CHOOSE i \in found : TRUE

FirstTarget(targets) ==
    CHOOSE t \in targets : \A u \in targets : t[1] < u[1] \/ (t[1] = u[1] /\ Len(t[2]) <= Len(u[2]))

\* Bound by a declaration of its own or by a field under its key.
IsPlain(d, q) == /\ ~TargetAt(d, q).annotated
                 /\ q[2] # <<>> => TargetAt(d, q).name = KeyOf(d, q)

\* The document in which q's pattern binds the name as well, <<>> when it can't.
BindImport(d, q, name) ==
    LET patterns == {t \in Patterns(d) : OwnsOrReads(d, t, q)}
        t == FirstTarget(patterns)
        bound == FieldWith(TargetAt(d, t), name)
        field == TargetAt(d, t).fields[bound]
    IN IF patterns = {} THEN IF IsPlain(d, q) THEN WithField(d, q, Field(name)) ELSE <<>>
       ELSE IF bound # 0 THEN IF Leaf(field) /\ ~Renamed(field) THEN d ELSE <<>>
       ELSE IF Splits(d, t) THEN WithField(d, t, Field(name)) ELSE <<>>

\* The field that binds the name already.
AlreadyBound(d, q, name) ==
    LET patterns == {t \in Patterns(d) : OwnsOrReads(d, t, q)}
        t == FirstTarget(patterns)
    IN IF patterns = {} \/ FieldWith(TargetAt(d, t), name) = 0 THEN Unbound
       ELSE <<t[1], Append(t[2], FieldWith(TargetAt(d, t), name))>>

ImportField(d, q, name) ==
    LET withType == BringsAType(Append(Value(d, q), name))
        bound == BindImport(d, q, name)
    IN IF bound = <<>> \/ NameIsTaken(d, name, withType, AlreadyBound(d, q, name)) \/ ~CanUnqualify(d, q, name)
       THEN <<>> ELSE Unqualified(bound, Qualified(d, q, name, withType))

\* Every field of the pattern's value that it doesn't bind and can.
ImportableFields(d, t) ==
    LET target == TargetAt(d, t)
        value == Value(d, t)
        q == PatternQualifier(d, t)
    IN IF value \notin DOMAIN FieldsOf \/ ~Splits(d, t) THEN <<>>
       ELSE SelectSeq(FieldsOf[value], LAMBDA name :
              /\ FieldWith(target, name) = 0
              /\ ~NameIsTaken(d, name, BringsAType(Append(value, name)), Unbound)
              /\ q # Unbound => CanUnqualify(d, q, name))

RECURSIVE WithFields(_, _, _)
WithFields(d, t, added) == IF added = <<>> THEN d ELSE WithFields(WithField(d, t, Field(Head(added))), t, Tail(added))
ImportAllFields(d, t) ==
    LET added == ImportableFields(d, t)
        q == PatternQualifier(d, t)
        uses == IF q = Unbound THEN {}
                ELSE UNION {Qualified(d, q, name, BringsAType(Append(Value(d, t), name))) : name \in Range(added)}
    IN IF added = <<>> THEN <<>> ELSE Unqualified(WithFields(d, t, added), uses)
-----------------------------------------------------------------------------
(* Removing the fields that bind the locals of drop from their patterns. reads *)
(* are locals to count as read.                                                *)

Gone == [name |-> "", annotated |-> FALSE, pattern |-> FALSE, fields |-> <<>>]

IsRead(d, t, reads) == t \in reads \/ Reads(d, t) # {}

RECURSIVE PatternWithout(_, _, _, _)
PatternWithout(d, t, drop, reads) ==
    LET target == TargetAt(d, t)
        At(i) == <<t[1], Append(t[2], i)>>
        Kept(i) ==
            LET field == target.fields[i]
                inner == PatternWithout(d, At(i), drop, reads)
            IN IF Leaf(field) THEN IF At(i) \in drop THEN <<>> ELSE <<field>>
               ELSE IF inner # <<>> THEN <<[field EXCEPT !.target.fields = inner]>>
               ELSE IF field.target.name # Hidden /\ At(i) \notin drop /\ IsRead(d, At(i), reads)
                    THEN <<[field EXCEPT !.target.fields = <<>>, !.target.pattern = FALSE]>>
               ELSE <<>>
        KeptFrom[i \in 1..(Len(target.fields) + 1)] ==
            IF i > Len(target.fields) THEN <<>> ELSE Kept(i) \o KeptFrom[i + 1]
    IN KeptFrom[1]

\* What the declaration of a pattern becomes: its fields, its name alone, or
\* nothing; or the same where the edit can't be made.
RemovedFrom(d, i, drop, reads) ==
    LET target == d[i].target
        fields == PatternWithout(d, <<i, <<>>>>, drop, reads)
    IN IF ~Splits(d, <<i, <<>>>>) THEN target
       ELSE IF fields # <<>> THEN [target EXCEPT !.fields = fields]
       ELSE IF target.name # Hidden /\ IsRead(d, <<i, <<>>>>, reads)
            THEN [target EXCEPT !.fields = <<>>, !.pattern = FALSE]
       ELSE IF d[i].ownsLines THEN Gone
       ELSE target

Touched(drop) == {t[1] : t \in drop}
IsRemovable(d, drop, reads) == \A i \in Touched(drop) : RemovedFrom(d, i, drop, reads) # d[i].target
RemoveFields(d, drop, reads) ==
    [i \in DOMAIN d |-> IF i \in Touched(drop) THEN [d[i] EXCEPT !.target = RemovedFrom(d, i, drop, reads)] ELSE d[i]]
WithoutGone(d) == SelectSeq(d, LAMBDA s : ~IsDeclaration(s) \/ s.target # Gone)
-----------------------------------------------------------------------------
(* Qualifying: the field at t leaves its pattern and its uses are read through *)
(* the pattern's qualifier.                                                    *)

QualifyField(d, t) ==
    LET q == PatternQualifier(d, PatternOf(t))
        qualifier == TargetAt(d, q).name
        name == TargetAt(d, t).name
        types == IF BringsAType(Value(d, t)) THEN {i \in DOMAIN d : d[i].kind = "type" /\ d[i].path = <<name>>} ELSE {}
        qualified == [i \in DOMAIN d |-> IF i \in Reads(d, t) \cup types
                                         THEN [d[i] EXCEPT !.path = <<qualifier, KeyOf(d, t)>> \o Tail(@)] ELSE d[i]]
    IN IF \/ t[2] = <<>> \/ TargetAt(d, t).pattern \/ q = Unbound
          \/ NameIsTaken(d, qualifier, FALSE, q)
          \/ \E i \in Reads(d, t) : d[i].kind = "use" /\ d[i].assigned /\ Len(d[i].path) = 1
          \/ ~IsRemovable(d, {t}, {q})
       THEN <<>>
       ELSE WithoutGone([i \in DOMAIN d |->
                IF i = t[1] THEN [qualified[i] EXCEPT !.target = RemovedFrom(d, i, {t}, {q})] ELSE qualified[i]])
-----------------------------------------------------------------------------
(* What the linter reports as unused, and removing it.                         *)

IsUnused(d, t) == /\ TargetAt(d, t).name # Hidden /\ ~TargetAt(d, t).pattern
                  /\ Reads(d, t) = {} /\ TypeReads(d, t) = {}
                  /\ \A i \in DOMAIN d : d[i].kind = "type" => BoundAt(d, i, Head(d[i].path)) # t
UnusedLocals(d) == {t \in Targets(d) : IsUnused(d, t)}

RemoveUnused(d, t) ==
    IF t[2] # <<>> THEN IF IsRemovable(d, {t}, {}) THEN WithoutGone(RemoveFields(d, {t}, {})) ELSE <<>>
    ELSE IF d[t[1]].ownsLines THEN RemoveAt(d, t[1]) ELSE <<>>

\* Whether the value is what a require loads or a field of that.
RECURSIVE HoldsRequiredValue(_, _)
HoldsRequiredValue(d, i) ==
    \/ d[i].required
    \/ LET t == BoundAt(d, i, Head(d[i].path))
       IN t # Unbound /\ t[2] = <<>> /\ ~d[t[1]].target.pattern /\ HoldsRequiredValue(d, t[1])

UnusedImports(d) ==
    {t \in UnusedLocals(d) : IF t[2] # <<>> THEN HoldsRequiredValue(d, t[1])
                             ELSE d[t[1]].required /\ d[t[1]].ownsLines}
RemoveAllUnusedImports(d) ==
    LET unused == UnusedImports(d)
        fields == {t \in unused : t[2] # <<>>}
        statements == {t[1] : t \in unused \ fields}
        removed == RemoveFields(d, fields, {})
    IN IF Cardinality(unused) < 2 THEN <<>>
       ELSE WithoutGone([i \in DOMAIN d |-> IF i \in statements THEN [removed[i] EXCEPT !.target = Gone] ELSE removed[i]])
-----------------------------------------------------------------------------
(* Completing the name typed at statement k: the fields, up to two levels down, *)
(* of what the top of the file destructures or requires before it, or could    *)
(* require. An offer is a name, what it is and the document with the import;   *)
(* the first offer of a name is kept.                                          *)

\* Free to bind at the top: not visible at k, not bound at the top anywhere, not
\* a global, and for a class not a type.
IsAvailable(d, k, name, withType) ==
    /\ name \notin Globals(d)
    /\ \A t \in Targets(d) : TargetAt(d, t).name = name => d[t[1]].block \notin {"", d[k].block}
    /\ withType => name \notin Aliases(d)

FieldsIn(value) == IF value \in DOMAIN FieldsOf THEN FieldsOf[value] ELSE <<>>
Nested(key, name) == [key |-> key, target |-> [Name(key) EXCEPT !.pattern = TRUE, !.fields = <<Field(name)>>]]
Offer(name, path, d) == [name |-> name, path |-> path, document |-> d]

\* Every field of the value, and the fields of the tables among them; Add gives
\* the document that binds one, <<>> when it can't.
OfferFields(d, k, value, Add(_)) ==
    LET RECURSIVE Inner(_, _)
        Inner(key, names) ==
            IF names = <<>> THEN <<>>
            ELSE <<Offer(Head(names), value \o <<key, Head(names)>>, Add(Nested(key, Head(names))))>>
                 \o Inner(key, Tail(names))
        RECURSIVE Outer(_)
        Outer(names) ==
            IF names = <<>> THEN <<>>
            ELSE <<Offer(Head(names), Append(value, Head(names)), Add(Field(Head(names))))>>
                 \o (IF IsAvailable(d, k, Head(names), FALSE) THEN Inner(Head(names), FieldsIn(Append(value, Head(names))))
                     ELSE <<>>)
                 \o Outer(Tail(names))
    IN Outer(FieldsIn(value))

\* A pattern takes a field it doesn't have. One it has under its own key would get
\* a pattern, but its name is bound then, so nothing inside it is offered.
AddToPattern(d, t, field) ==
    IF FieldWith(TargetAt(d, t), field.key) = 0 THEN WithField(d, t, field) ELSE <<>>
\* A local that holds a module gets a pattern; an annotated one is destructured
\* by a declaration below it.
Declaration(target, required, path) ==
    [kind |-> "local", block |-> "", target |-> target, required |-> required, path |-> path,
     comment |-> FALSE, ownsLines |-> TRUE]
HiddenPattern(field) == [Name(Hidden) EXCEPT !.pattern = TRUE, !.fields = <<field>>]
AddToRequire(d, i, field) ==
    IF d[i].target.annotated
    THEN InsertAt(d, i + 1, Declaration(HiddenPattern(field), FALSE, <<d[i].target.name>>))
    ELSE WithField(d, <<i, <<>>>>, field)
\* A field that can be required by itself is left to that require.
RequirePaths(d) == {d[i].path : i \in {i \in Declarations(d) : d[i].required}}
AddRequire(d, path, field) ==
    IF Append(path, field.key) \in Range(Requirable) \cup RequirePaths(d) THEN <<>>
    ELSE <<Declaration(HiddenPattern(field), TRUE, path)>> \o d

RECURSIVE PatternOffers(_, _, _)
PatternOffers(d, k, patterns) ==
    IF patterns = {} THEN <<>>
    ELSE LET t == FirstTarget(patterns)
         IN OfferFields(d, k, Value(d, t), LAMBDA field : AddToPattern(d, t, field))
            \o PatternOffers(d, k, patterns \ {t})

IsDestructured(d, q) == \E t \in Patterns(d) : PatternQualifier(d, t) = q
RequiresToDestructure(d, k) ==
    SelectSeq([i \in 1..(k - 1) |-> i], LAMBDA i : /\ IsDeclaration(d[i]) /\ IsTop(d, i) /\ d[i].required
                                                   /\ ~d[i].target.pattern /\ ~IsDestructured(d, <<i, <<>>>>))
RECURSIVE RequireOffers(_, _, _)
RequireOffers(d, k, requires) ==
    IF requires = <<>> THEN <<>>
    ELSE OfferFields(d, k, d[Head(requires)].path, LAMBDA field : AddToRequire(d, Head(requires), field))
         \o RequireOffers(d, k, Tail(requires))

RECURSIVE UnimportedOffers(_, _, _)
UnimportedOffers(d, k, paths) ==
    IF paths = <<>> THEN <<>>
    ELSE (IF Head(paths) \in RequirePaths(d) THEN <<>>
          ELSE OfferFields(d, k, Head(paths), LAMBDA field : AddRequire(d, Head(paths), field)))
         \o UnimportedOffers(d, k, Tail(paths))

ImportCandidates(d, k) ==
    LET all == PatternOffers(d, k, {t \in Patterns(d) : IsTop(d, t[1]) /\ t[1] < k /\ Splits(d, t)})
               \o RequireOffers(d, k, RequiresToDestructure(d, k))
               \o UnimportedOffers(d, k, Requirable)
        valid == SelectSeq(all, LAMBDA o : /\ o.document # <<>>
                                           /\ d[k].wants = "type" => BringsAType(o.path)
                                           /\ IsAvailable(d, k, o.name, BringsAType(o.path)))
    IN {valid[i] : i \in {i \in DOMAIN valid : \A j \in 1..(i - 1) : valid[j].name # valid[i].name}}

Typed(d) == {k \in DOMAIN d : d[k].kind = "typed"}
Fill(d, name) ==
    [i \in DOMAIN d |->
        IF d[i].kind # "typed" THEN d[i]
        ELSE [kind |-> d[i].wants, block |-> d[i].block, path |-> <<name>>, number |-> d[i].number, assigned |-> FALSE]]
-----------------------------------------------------------------------------
(* Preconditions of the checks, where the code does not look. *)

\* Locals that types are read through stay bound (isRead only looks at values).
Names(d) == {TargetAt(d, t).name : t \in Targets(d)}
PrefixesStayBound(d, e) == \A t \in Targets(d) : TypeReads(d, t) # {} => TargetAt(d, t).name \in Names(e)

\* Nothing reads a field before the pattern that all of them are imported to.
ImportedBeforeRead(d, t) ==
    LET q == PatternQualifier(d, t)
    IN q # Unbound => OwnsOrReads(d, t, q)
-----------------------------------------------------------------------------
Edited(d) == IF d = <<>> THEN document ELSE d

Import == \E i \in DOMAIN document : \E t \in Targets(document) :
    /\ i \in Indexes(document, t) \cup TypeReads(document, t)
    /\ document' = Edited(ImportField(document, t, document[i].path[2]))
    /\ meant' = meant
ImportAll == \E t \in Patterns(document) :
    /\ ImportedBeforeRead(document, t)
    /\ document' = Edited(ImportAllFields(document, t))
    /\ meant' = meant
Qualify == \E t \in Targets(document) :
    LET e == QualifyField(document, t)
    IN /\ e # <<>> /\ PrefixesStayBound(document, e)
       /\ document' = e
       /\ meant' = meant
RemoveLocal == \E t \in UnusedLocals(document) :
    LET e == RemoveUnused(document, t)
    IN /\ e # <<>> /\ PrefixesStayBound(document, e)
       /\ document' = e
       /\ meant' = meant
RemoveAll ==
    LET e == RemoveAllUnusedImports(document)
    IN /\ e # <<>> /\ PrefixesStayBound(document, e)
       /\ document' = e
       /\ meant' = meant
Complete == \E k \in Typed(document) : \E offer \in ImportCandidates(document, k) :
    /\ document' = Fill(offer.document, offer.name)
    /\ meant' = meant \cup {<<document[k].number, offer.path>>}

DocumentInit == document \in Documents /\ meant = Meanings(document)
DocumentNext == Import \/ ImportAll \/ Qualify \/ RemoveLocal \/ RemoveAll \/ Complete
-----------------------------------------------------------------------------
\* Every use means the field it meant, however fields were imported, qualified
\* and removed, and a completed name means what was offered (Destructure.cpp).
ImportsKeepMeaning == Meanings(document) = meant

\* Qualifying a field that was just imported gives the document back.
QualifyingUndoesImporting ==
    \A t \in Targets(document) : \A i \in Indexes(document, t) \cup TypeReads(document, t) :
        LET name == document[i].path[2]
            imported == ImportField(document, t, name)
            fields == {f \in Targets(imported) : f[2] # <<>> /\ TargetAt(imported, f).name = name}
        IN (imported # <<>> /\ AlreadyBound(document, t, name) = Unbound)
           => \A f \in fields : QualifyField(imported, f) \in {<<>>, document}
=============================================================================
