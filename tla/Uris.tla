-------------------------------- MODULE Uris --------------------------------
(* The uris the server names files by (Uri.cpp and the paths of                *)
(* LuauFileUtils.cpp): parsed from what a client writes, made from paths of    *)
(* the file system, resolved against each other and written back. A string is  *)
(* a sequence of bytes.                                                        *)
EXTENDS Naturals, Sequences, SequencesExt

CONSTANTS
    Locations(_),   \* the files of a platform: a scheme, a host and names
    Platforms       \* a subset of {"linux", "mac", "windows"}

VARIABLES
    platform,       \* what the server is built for
    location,       \* the file that is meant
    uri

uriVars == <<platform, location, uri>>

NoFile == [scheme |-> <<>>, host |-> <<>>, names |-> <<>>]
FileScheme == <<102, 105, 108, 101>>
RootedSchemes == {FileScheme, <<104, 116, 116, 112>>, <<104, 116, 116, 112, 115>>}    \* and http, https

Slash == 47
Backslash == 92
Colon == 58
Question == 63
Hash == 35
Percent == 37
At == 64
Upper == 65..90
Lower == 97..122
Digits == 48..57
HexDigits == Digits \cup 65..70 \cup 97..102
Unreserved == Upper \cup Lower \cup Digits \cup {45, 46, 95, 126}

LowerOf(c) == IF c \in Upper THEN c + 32 ELSE c
ToLower(s) == [i \in DOMAIN s |-> LowerOf(s[i])]
From(s, i) == SubSeq(s, i, Len(s))
HasSlashesAt(s, i) == Len(s) > i /\ s[i] = Slash /\ s[i + 1] = Slash

\* The first place of one of the bytes from i on, after the end when there is none.
RECURSIVE Find(_, _, _)
Find(s, bytes, i) == IF i > Len(s) \/ s[i] \in bytes THEN i ELSE Find(s, bytes, i + 1)
LastOfByte(s, c) ==
    LET found == {i \in DOMAIN s : s[i] = c}
    IN IF found = {} THEN 0 ELSE CHOOSE i \in found : \A j \in found : j <= i

RECURSIVE Split(_, _)
Split(s, separators) ==
    LET i == Find(s, separators, 1)
    IN IF i > Len(s) THEN <<s>> ELSE <<SubSeq(s, 1, i - 1)>> \o Split(From(s, i + 1), separators)
RECURSIVE Join(_)
Join(parts) ==
    IF parts = <<>> THEN <<>>
    ELSE IF Len(parts) = 1 THEN Head(parts)
    ELSE Head(parts) \o <<Slash>> \o Join(Tail(parts))
-----------------------------------------------------------------------------
(* Escapes. *)

HexValue(c) == IF c \in Digits THEN c - 48 ELSE LowerOf(c) - 87
RECURSIVE PercentDecode(_)
PercentDecode(s) ==
    IF s = <<>> THEN <<>>
    ELSE IF Len(s) > 2 /\ s[1] = Percent /\ s[2] \in HexDigits /\ s[3] \in HexDigits
         THEN <<16 * HexValue(s[2]) + HexValue(s[3])>> \o PercentDecode(From(s, 4))
    ELSE <<Head(s)>> \o PercentDecode(Tail(s))

HexDigit(n) == IF n < 10 THEN 48 + n ELSE 55 + n
Escape(c) == <<Percent, HexDigit(c \div 16), HexDigit(c % 16)>>
RECURSIVE EncodeAllBut(_, _)
EncodeAllBut(s, kept) ==
    IF s = <<>> THEN <<>>
    ELSE (IF Head(s) \in kept THEN <<Head(s)>> ELSE Escape(Head(s))) \o EncodeAllBut(Tail(s), kept)

\* Mutant: an escape is left as it is.
EncodeReservedOnly(s, isPath, isAuthority) == EncodeAllBut(s, 0..255 \ {Hash, Question})

EncodeURIComponentFast(s, isPath, isAuthority) ==
    EncodeAllBut(s, Unreserved \cup (IF isPath THEN {Slash} ELSE {}) \cup (IF isAuthority THEN {91, 93, Colon} ELSE {}))
-----------------------------------------------------------------------------
(* Uris. *)

ReferenceResolution(scheme, path) ==
    IF scheme \in RootedSchemes /\ (path = <<>> \/ Head(path) # Slash) THEN <<Slash>> \o path ELSE path
Uri(scheme, authority, path) ==
    [scheme |-> scheme, authority |-> authority, path |-> ReferenceResolution(scheme, path), query |-> <<>>, fragment |-> <<>>]

IgnoresCase == platform \in {"mac", "windows"}
Folded(path) == IF IgnoresCase THEN ToLower(path) ELSE path
Same(u, v) == [u EXCEPT !.path = Folded(@)] = [v EXCEPT !.path = Folded(@)]

\* The part from i up to one of the bytes, or the end.
Part(s, i, bytes) == SubSeq(s, i, Find(s, bytes, i) - 1)
Parse(s) ==
    LET colon == Find(s, {Colon}, 1)
        hasAuthority == HasSlashesAt(s, colon + 1)
        authority == IF hasAuthority THEN Part(s, colon + 3, {Slash, Question, Hash}) ELSE <<>>
        path == Part(s, colon + 1 + (IF hasAuthority THEN 2 + Len(authority) ELSE 0), {Question, Hash})
        query == Find(s, {Question, Hash}, colon + 1)
        fragment == Find(s, {Hash}, colon + 1)
    IN IF colon > Len(s) THEN Uri(<<>>, <<>>, <<>>)
       ELSE [Uri(SubSeq(s, 1, colon - 1), PercentDecode(authority), PercentDecode(path)) EXCEPT
                !.query = IF query < fragment THEN PercentDecode(Part(s, query + 1, {Hash})) ELSE <<>>,
                !.fragment = PercentDecode(From(s, fragment + 1))]

\* A drive letter is written in lower case.
LowerAt(s, i) == IF i \in DOMAIN s THEN [s EXCEPT ![i] = LowerOf(@)] ELSE s
Forward(s) == [i \in DOMAIN s |-> IF s[i] = Backslash THEN Slash ELSE s[i]]
Backward(s) == [i \in DOMAIN s |-> IF s[i] = Slash THEN Backslash ELSE s[i]]
HasDrive(s, i) == Len(s) > i /\ s[i + 1] = Colon /\ s[i] \in Upper

File(fsPath) ==
    LET slashed == IF platform = "windows" THEN Forward(fsPath) ELSE fsPath
        path == IF platform = "windows" /\ HasDrive(slashed, 1) THEN LowerAt(slashed, 1) ELSE slashed
        host == Part(path, 3, {Slash})
        rest == From(path, 3 + Len(host))
    IN IF HasSlashesAt(path, 1) THEN Uri(FileScheme, host, IF rest = <<>> THEN <<Slash>> ELSE rest)
       ELSE Uri(FileScheme, <<>>, path)

FsPath(u) ==
    LET path == IF u.authority # <<>> /\ Len(u.path) > 1 /\ u.scheme = FileScheme
                THEN <<Slash, Slash>> \o u.authority \o u.path
                ELSE IF Len(u.path) > 2 /\ u.path[1] = Slash /\ u.path[2] \in Upper \cup Lower /\ u.path[3] = Colon
                THEN Tail(u.path)
                ELSE u.path
    IN IF platform = "windows" THEN Backward(path) ELSE path

\* <user>:<password>@<host>:<port>
AuthorityToString(authority) ==
    LET at == Find(authority, {At}, 1)
        user == IF at > Len(authority) THEN <<>> ELSE SubSeq(authority, 1, at - 1)
        host == ToLower(IF at > Len(authority) THEN authority ELSE From(authority, at + 1))
        password == LastOfByte(user, Colon)
        port == LastOfByte(host, Colon)
    IN (IF at > Len(authority) THEN <<>>
        ELSE (IF password = 0 THEN EncodeURIComponentFast(user, FALSE, FALSE)
              ELSE EncodeURIComponentFast(SubSeq(user, 1, password - 1), FALSE, FALSE) \o <<Colon>>
                   \o EncodeURIComponentFast(From(user, password + 1), FALSE, TRUE)) \o <<At>>)
       \o (IF port = 0 THEN EncodeURIComponentFast(host, FALSE, TRUE)
           ELSE EncodeURIComponentFast(SubSeq(host, 1, port - 1), FALSE, TRUE) \o From(host, port))

UriToString(u) ==
    LET path == IF Len(u.path) > 2 /\ u.path[1] = Slash /\ HasDrive(u.path, 2) THEN LowerAt(u.path, 2)
                ELSE IF HasDrive(u.path, 1) THEN LowerAt(u.path, 1)
                ELSE u.path
    IN u.scheme \o <<Colon>>
       \o (IF u.authority # <<>> \/ u.scheme = FileScheme THEN <<Slash, Slash>> ELSE <<>>)
       \o AuthorityToString(u.authority)
       \o EncodeURIComponentFast(path, TRUE, FALSE)
       \o (IF u.query = <<>> THEN <<>> ELSE <<Question>> \o EncodeURIComponentFast(u.query, FALSE, FALSE))
       \o (IF u.fragment = <<>> THEN <<>> ELSE <<Hash>> \o EncodeURIComponentFast(u.fragment, FALSE, FALSE))
-----------------------------------------------------------------------------
(* Paths. *)

Separators == {Slash, Backslash}
IsAbsolutePath(path) ==
    \/ Len(path) > 0 /\ path[1] \in (IF platform = "windows" THEN Separators ELSE {Slash})
    \/ platform = "windows" /\ Len(path) > 2 /\ path[1] \in Upper \cup Lower /\ path[2] = Colon /\ path[3] \in Separators

ParentName == <<46, 46>>
SameName == <<46>>
RECURSIVE Applied(_, _, _)
Applied(components, base, isRelative) ==
    IF components = <<>> THEN base
    ELSE Applied(Tail(components),
                 IF Head(components) = ParentName
                 THEN IF base # <<>> /\ Last(base) # ParentName THEN Front(base)
                      ELSE IF isRelative THEN Append(base, ParentName) ELSE base
                 ELSE IF Head(components) \in {<<>>, SameName} THEN base
                 ELSE Append(base, Head(components)),
                 isRelative)

NormalizePath(path) ==
    LET prefix == Part(path, 1, Separators)
        absolute == prefix \o <<Slash>> \o Join(Applied(Split(From(path, Len(prefix) + 1), Separators), <<>>, FALSE))
        applied == Applied(Split(path, Separators), <<>>, TRUE)
    IN IF IsAbsolutePath(path) THEN absolute
       ELSE IF applied # <<>> /\ Head(applied) = ParentName
            THEN IF Last(applied) = ParentName THEN Append(Join(applied), Slash) ELSE Join(applied)
       ELSE <<46, Slash>> \o Join(applied)

ResolvePath(u, other) ==
    LET joined == IF (u.path = <<>> /\ u.authority = <<>>) \/ (u.path # <<>> /\ Last(u.path) = Slash) THEN u.path \o other
                  ELSE u.path \o <<Slash>> \o other
        resolved == IF IsAbsolutePath(other) THEN other ELSE joined
        slashAdded == ~IsAbsolutePath(resolved)
        normalized == NormalizePath(IF slashAdded THEN <<Slash>> \o resolved ELSE resolved)
        path == IF platform = "windows" /\ HasDrive(normalized, 1) THEN LowerAt(normalized, 1) ELSE normalized
    IN [Uri(u.scheme, u.authority, IF slashAdded THEN Tail(path) ELSE path) EXCEPT !.query = u.query, !.fragment = u.fragment]

\* getParentPath; a name without a slash before it has the empty parent.
HasParent(u) == u.path \notin {<<>>, SameName, <<Slash>>}
LastSeparator(s) ==
    LET found == {i \in DOMAIN s : s[i] \in Separators}
    IN IF found = {} THEN 0 ELSE CHOOSE i \in found : \A j \in found : j <= i
ParentOf(u) ==
    LET slash == LastSeparator(u.path)
    IN [Uri(u.scheme, u.authority, IF slash = 1 THEN <<Slash>> ELSE SubSeq(u.path, 1, slash - 1))
          EXCEPT !.query = u.query, !.fragment = u.fragment]

LexicallyRelative(u, base) ==
    LET target == Split(u.path, {Slash})
        from == Split(base.path, {Slash})
        common == CHOOSE n \in 0..Len(target) :
                    /\ n <= Len(from) /\ \A i \in 1..n : Folded(from[i]) = Folded(target[i])
                    /\ n < Len(target) /\ n < Len(from) => Folded(from[n + 1]) # Folded(target[n + 1])
        ups == [i \in 1..(Len(from) - common) |-> ParentName]
    IN IF base.scheme # u.scheme \/ base.authority # u.authority THEN u.path
       ELSE IF common = Len(from) /\ common = Len(target) THEN SameName
       ELSE Join(ups \o From(target, common + 1))

IsAncestorOf(u, other) ==
    LET parent == Folded(NormalizePath(u.path))
        child == Folded(NormalizePath(other.path))
    IN /\ u.scheme = other.scheme /\ u.authority = other.authority
       /\ IsPrefix(parent, child)
       /\ Len(child) = Len(parent) \/ child[Len(parent) + 1] = Slash
-----------------------------------------------------------------------------
(* Files, as the client and the file system write them. *)

WithSeparator(names, separator) == FoldLeft(LAMBDA s, name : s \o <<separator>> \o name, <<>>, names)
FsPathOf(file) ==
    LET path == WithSeparator(file.names, IF platform = "windows" THEN Backslash ELSE Slash)
    IN IF file.host # <<>> THEN <<Backslash, Backslash>> \o file.host \o path
       ELSE IF platform = "windows" THEN Tail(path)
       ELSE IF path = <<>> THEN <<Slash>> ELSE path
HasAuthority(file) == file.scheme = FileScheme \/ file.host # <<>>
PathOf(file) ==
    LET path == WithSeparator(file.names, Slash)
    IN IF ~HasAuthority(file) THEN Tail(path) ELSE IF path = <<>> THEN <<Slash>> ELSE path
UriOf(file) ==
    IF file.scheme = FileScheme THEN File(FsPathOf(file)) ELSE Uri(file.scheme, file.host, PathOf(file))

\* Where case is ignored a name is written in either.
Recased(file) == [file EXCEPT !.names = [i \in DOMAIN @ |-> [j \in DOMAIN @[i] |-> IF @[i][j] \in Lower THEN @[i][j] - 32 ELSE @[i][j]]]]
Cases(file) == IF IgnoresCase THEN {file, Recased(file)} ELSE {file}

\* Clients escape more or less, with digits of either case.
Styles == {Unreserved \cup {Slash}, 0..255 \ {Percent, Hash, Question}}
LowerEscapes(s) == [i \in DOMAIN s |-> IF (i > 1 /\ s[i - 1] = Percent) \/ (i > 2 /\ s[i - 2] = Percent) THEN LowerOf(s[i]) ELSE s[i]]
ClientStrings(file) ==
    LET written == {EncodeAllBut(PathOf(file), kept) : kept \in Styles}
        start == file.scheme \o <<Colon>> \o (IF HasAuthority(file) THEN <<Slash, Slash>> ELSE <<>>) \o file.host
    IN {start \o s : s \in written \cup {LowerEscapes(s) : s \in written}}

Within(file, other) == /\ file.scheme = other.scheme /\ file.host = other.host
                       /\ IsPrefix([i \in DOMAIN file.names |-> Folded(file.names[i])],
                                   [i \in DOMAIN other.names |-> Folded(other.names[i])])
Files == Locations(platform)
IsRoot(file) == file.names = <<>>

\* A document notification, or a file found in a directory.
Receive == \E file \in Files : \E written \in Cases(file) : \E s \in ClientStrings(written) :
    /\ uri' = Parse(s)
    /\ location' = file
Discover == \E file \in Files :
    /\ file.scheme = FileScheme
    /\ \E written \in Cases(file) : uri' = File(FsPathOf(written))
    /\ location' = file
Return ==
    /\ uri' = Parse(UriToString(uri))
    /\ UNCHANGED location
Reopen ==
    /\ location.scheme = FileScheme
    /\ uri' = File(FsPath(uri))
    /\ UNCHANGED location
\* The way from one file to another, also through its directories.
Follow == \E file \in Files :
    /\ file.scheme = location.scheme /\ file.host = location.host
    /\ uri' = ResolvePath(uri, LexicallyRelative(UriOf(file), uri))
    /\ location' = file
Ascend ==
    /\ Len(location.names) > (IF platform = "windows" \/ location.scheme # FileScheme THEN 1 ELSE 0)
    /\ HasParent(uri)
    /\ uri' = ParentOf(uri)
    /\ location' = [location EXCEPT !.names = Front(@)]
Detour == \E file \in Files :
    /\ Len(file.names) > 1
    /\ uri' = ResolvePath(uri, Last(file.names) \o <<Slash, 46, Slash, Slash, 46, 46>>)
    /\ UNCHANGED location

UriInit ==
    /\ platform \in Platforms
    /\ location \in Files
    /\ uri = UriOf(location)
UriNext ==
    /\ Receive \/ Discover \/ Return \/ Reopen \/ Follow \/ Ascend \/ Detour
    /\ UNCHANGED platform
-----------------------------------------------------------------------------
\* However the uri of a file was come by, it is the one key the server has for
\* that file, and its path is the file's (Uri::parse, file, toString, fsPath,
\* resolvePath, lexicallyRelative, parent).
UriNamesItsFile ==
    /\ Same(uri, UriOf(location))
    /\ location.scheme = FileScheme => Folded(FsPath(uri)) = Folded(FsPathOf(location))

\* A uri is an ancestor of those its file is a directory of, and of no other
\* (Uri::isAncestorOf), but for the root of the file system.
AncestorsContain ==
    \A file \in Files : ~IsRoot(location) => (IsAncestorOf(uri, UriOf(file)) <=> Within(location, file))
=============================================================================
