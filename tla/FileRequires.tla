---------------------------- MODULE FileRequires ----------------------------
(***************************************************************************)
(* Paths of files and the strings that require them: how a string is       *)
(* resolved, how one is offered for a module, what a completion of one     *)
(* lists and how one follows a renamed file.  A path is the sequence of    *)
(* its components, a component the pair of its stem and its extension, a   *)
(* source file's or none: names have no other dots.  An alias is the       *)
(* component <<"@", name>>.  "disk" is the set of its files.               *)
(***************************************************************************)
EXTENDS Integers, Sequences, FiniteSets, SequencesExt

CONSTANT Lower(_)    \* the lower case of an alias's name

Here == <<".", "">>
Up == <<"..", "">>
Self == <<"@", "self">>
Slash == <<"/", "">>
NoUri == << <<"", "nowhere">> >>

\* The extensions of source files, the first ones preferred.
SourceExtensions == <<"luwu", "luau", "lua", "luwon">>

Extension(path) == IF path = <<>> THEN "" ELSE Last(path)[2]
WithExtension(path, ext) == [path EXCEPT ![Len(path)] = <<@[1], ext>>]
IsSourceFile(path) == Extension(path) \in ToSet(SourceExtensions)
RemoveSourceFileExtension(path) == IF IsSourceFile(path) THEN WithExtension(path, "") ELSE path
Parent(path) == IF path = <<>> THEN NoUri ELSE Front(path)
IsInitFile(path) == path # <<>> /\ Last(path)[1] = "init"

\* The directories that a file is in.
DirectoriesOf(file) == {SubSeq(file, 1, n) : n \in 0..(Len(file) - 1)}
IsDirectory(disk, path) == \E f \in disk : path \in DirectoriesOf(f)
Exists(disk, path) == path \in disk \/ IsDirectory(disk, path)

\* An absolute path replaces the base; ".." stops at the root.
Walked(at, c) ==
    CASE c \in {Here, <<"", "">>} -> at
      [] c = Up -> IF at = <<>> THEN at ELSE Front(at)
      [] c = Slash -> <<>>
      [] OTHER -> Append(at, c)

ResolvePath(base, path) ==
    LET at[n \in 0..Len(path)] == IF n = 0 THEN base ELSE Walked(at[n - 1], path[n])
    IN at[Len(path)]

LexicallyRelative(path, base) ==
    LET common == CHOOSE k \in 0..Len(path) : /\ k <= Len(base) /\ SubSeq(path, 1, k) = SubSeq(base, 1, k)
                                              /\ \/ k = Len(path) \/ k = Len(base) \/ path[k + 1] # base[k + 1]
    IN IF path = base THEN <<Here>>
       ELSE [i \in 1..(Len(base) - common) |-> Up] \o SubSeq(path, common + 1, Len(path))

\* Exactly the path, or a path below it; nothing is below the root's "/".
IsAncestorOf(path, other) == path = other \/ (path # <<>> /\ IsPrefix(path, other))

-----------------------------------------------------------------------------
(* Aliases: a function from lower case names to records of the value, the     *)
(* directory of the configuration that has it and the name as it is written.  *)

IsAliased(required) == required # <<>> /\ required[1][1] = "@"
AliasLocation(alias) == ResolvePath(alias.location, alias.value)

\* The path behind an alias, from where the alias leads; the slash between them
\* does not make it an absolute one.
Behind(found, required) ==
    LET path == Tail(required)
    IN IF found = NoUri THEN NoUri
       ELSE ResolvePath(found, IF path # <<>> /\ path[1] = Slash THEN Tail(path) ELSE path)

\* An alias may name another one, and each is followed once at most: there are
\* no more of them to follow than there are names.
ResolveAliasFrom(required, aliases, from) ==
    LET found[n \in 0..Cardinality(DOMAIN aliases)] == [name \in STRING |->
            IF name \notin DOMAIN aliases THEN (IF name = "self" THEN from ELSE NoUri)
            ELSE LET value == aliases[name].value
                 IN IF ~IsAliased(value) THEN AliasLocation(aliases[name])
                    ELSE IF n = 0 THEN NoUri ELSE Behind(found[n - 1][Lower(value[1][2])], value)]
    IN Behind(found[Cardinality(DOMAIN aliases)][Lower(required[1][2])], required)

ResolveAlias(required, aliases, from) ==
    IF IsAliased(required) THEN ResolveAliasFrom(required, aliases, from) ELSE NoUri

\* The directory that a file's relative requires start from.
RequireBase(context, original) ==
    IF IsInitFile(context) /\ ~original THEN Parent(Parent(context)) ELSE Parent(context)

\* The first extension that exists, or the last of all.
BestExtension(disk, path) ==
    LET found == {i \in DOMAIN SourceExtensions : Exists(disk, WithExtension(path, SourceExtensions[i]))}
    IN IF found = {} THEN Last(SourceExtensions)
       ELSE SourceExtensions[CHOOSE i \in found : \A j \in found : i <= j]

Or(uri, other) == IF uri # NoUri THEN uri ELSE other
FileAt(disk, path) == IF IsDirectory(disk, path) THEN Append(path, <<"init", "">>) ELSE path
SourceFileAt(disk, file) ==
    IF file = <<>> THEN NoUri
    ELSE IF IsSourceFile(file) THEN file ELSE WithExtension(file, BestExtension(disk, file))

\* "original" is require.useOriginalRequireByStringSemantics.
ResolveStringRequire(disk, aliases, original, context, required) ==
    LET base == RequireBase(context, original)
    IN IF base = NoUri THEN NoUri
       ELSE SourceFileAt(disk, FileAt(disk, Or(ResolveAlias(required, aliases, Parent(context)),
                                               ResolvePath(base, required))))

-----------------------------------------------------------------------------
(* The string offered for a module that is not required yet.                  *)

Text(path) == FoldLeft(LAMBDA text, c : text \o "/" \o c[1] \o (IF c[2] = "" THEN "" ELSE "." \o c[2]), "", path)
StartsWith(text, prefix) == Len(prefix) <= Len(text) /\ SubSeq(text, 1, Len(prefix)) = prefix

\* The shortest of the aliased paths; which one of two as short is not said.
BestAliasedPaths(to, aliases) ==
    LET alias(name) == << <<"@", aliases[name].originalCase>> >>
        rest(name) == LexicallyRelative(to, AliasLocation(aliases[name]))
        behind(name) == IF rest(name) = <<Here>> THEN <<>> ELSE rest(name)
        length(name) == Len(Text(alias(name) \o behind(name)))
        above == {n \in DOMAIN aliases : IsAncestorOf(AliasLocation(aliases[n]), to)}
    IN {alias(n) \o RemoveSourceFileExtension(behind(n)) :
           n \in {m \in above : \A k \in above : length(m) <= length(k)}}

\* Mutant: a file next to an init file is reached as from any other file.
InitUnaware(from, relative) == IF relative[1] = Up THEN relative ELSE <<Here>> \o relative

FromInit(from, relative) ==
    IF relative[1] # Up \/ Len(relative) = 1
    THEN (IF IsInitFile(from) THEN <<Self>> ELSE <<Here>>) \o relative
    ELSE IF ~IsInitFile(from) THEN relative
    ELSE LET above == Tail(relative)
         IN IF above[1] # Up \/ Len(above) = 1 THEN <<Here>> \o above ELSE above

\* The set of the strings it may be: more than one when two aliases are as short.
ComputeRequirePaths(from, module, aliases, style) ==
    LET to == IF IsInitFile(module) THEN Parent(module) ELSE module
        aliased == IF style = "AlwaysRelative" THEN {} ELSE BestAliasedPaths(to, aliases)
        preferRelative == /\ style # "AlwaysAbsolute"
                          /\ \/ StartsWith(Text(from), Text(to)) \/ StartsWith(Text(to), Text(from))
                             \/ Parent(from) = Parent(to)
        relative == RemoveSourceFileExtension(LexicallyRelative(to, Parent(from)))
    IN IF aliased # {} /\ ~preferRelative THEN aliased ELSE {FromInit(from, relative)}

-----------------------------------------------------------------------------
(* What a completion of a required string shows.                              *)

ResolvePathToNode(aliases, context, required) ==
    LET base == RequireBase(context, FALSE)
    IN Or(ResolveAlias(required, aliases, Parent(context)),
          IF base = NoUri THEN NoUri ELSE ResolvePath(base, required))

\* Of a directory: its files other than an init file, and its directories.
Children(disk, node) ==
    {SubSeq(f, 1, Len(node) + 1) : f \in {g \in disk : IsStrictPrefix(node, g)}}
        \ {Append(node, <<"init", ext>>) : ext \in {Extension(f) : f \in disk}}

PathComponent(child) == <<Last(child)[1], "">>

-----------------------------------------------------------------------------
(* The string that follows a file to where it is renamed.                     *)

IsRelativeRequire(required) == Len(required) > 1 /\ required[1] \in {Here, Up}

RewriteRelativeRequire(fromFile, target, required) ==
    LET path == LexicallyRelative(target, Parent(fromFile))
        kept == IF Extension(required) = Extension(target) THEN path ELSE WithExtension(path, "")
    IN IF ~IsRelativeRequire(required) THEN required
       ELSE IF kept[1] = Up THEN kept ELSE <<Here>> \o kept

Renaming(old, new) == [path \in {old} |-> new]
Moved(renames, path) == IF path \in DOMAIN renames THEN renames[path] ELSE path
=============================================================================
