------------------------ MODULE ModuleResolution_proofs ------------------------
(***************************************************************************)
(* What the server keeps of the configuration files is what they hold,     *)
(* where it resolved requires to is where they lead, and the requires of   *)
(* what is renamed still lead there: for every set of files, aliases and   *)
(* settings and every number of changes.                                   *)
(***************************************************************************)
EXTENDS ModuleResolution, FiniteSetTheorems, WellFoundedInduction, TLAPS

-----------------------------------------------------------------------------
(* Numbers, sequences and paths.                                             *)

\* Induction up to a number, for a set of the numbers that fail.
LEMMA UpTo ==
    ASSUME NEW m \in Nat, NEW Bad \in SUBSET (0..m), 0 \notin Bad,
           \A n \in 1..m : n \in Bad => n - 1 \in Bad
    PROVE  Bad = {}
<1>1. SUFFICES ASSUME Bad # {} PROVE FALSE
  OBVIOUS
<1>2. PICK n \in Bad : \A k \in Bad : ~ <<k, n>> \in OpToRel(<, Nat)
  <2>1. Bad \subseteq Nat
    OBVIOUS
  <2>. QED BY <1>1, <2>1, WFMin, NatLessThanWellFounded, Zenon
<1>3. n \in 1..m /\ n - 1 \in Bad
  OBVIOUS
<1>4. n - 1 \in Nat /\ n \in Nat /\ n - 1 < n
  BY <1>3
<1>5. <<n - 1, n>> \in OpToRel(<, Nat)
  BY <1>4 DEF OpToRel
<1>. QED BY <1>2, <1>3, <1>5

Components == STRING \X STRING

LEMMA PrefixOfPrefix ==
    ASSUME NEW p \in Seq(Components), NEW m \in 0..Len(p), NEW n \in 0..m
    PROVE  /\ SubSeq(p, 1, m) \in Seq(Components) /\ Len(SubSeq(p, 1, m)) = m
           /\ SubSeq(SubSeq(p, 1, m), 1, n) = SubSeq(p, 1, n)
<1>1. /\ SubSeq(p, 1, m) \in Seq(Components) /\ Len(SubSeq(p, 1, m)) = m
      /\ \A i \in 1..m : SubSeq(p, 1, m)[i] = p[i]
  OBVIOUS
<1>. QED BY <1>1

\* A directory is a path, and what is above it are directories.
LEMMA DirectoryIsPath ==
    ASSUME NEW d \in Directories
    PROVE  /\ d \in Seq(Components) /\ Len(d) \in Nat /\ SubSeq(d, 1, Len(d)) = d
           /\ \A n \in 0..Len(d) : SubSeq(d, 1, n) \in Directories /\ Len(SubSeq(d, 1, n)) = n
<1>0. PICK p \in Locations : \E n \in 0..(Len(p) - 1) : d = SubSeq(p, 1, n)
  BY DEF Directories, DirectoriesOf
<1>1. PICK n \in 0..(Len(p) - 1) : d = SubSeq(p, 1, n)
  BY <1>0
<1>2. p \in Seq(Components) /\ Len(p) \in Nat /\ n \in 0..Len(p)
  BY <1>1, PathsAssumption DEF Components
<1>3. d \in Seq(Components) /\ Len(d) = n
  BY <1>1, <1>2, PrefixOfPrefix
<1>4. ASSUME NEW k \in 0..n PROVE SubSeq(d, 1, k) = SubSeq(p, 1, k)
  BY <1>1, <1>2, PrefixOfPrefix
<1>5. ASSUME NEW k \in 0..n PROVE SubSeq(d, 1, k) \in Directories
  <2>1. k \in 0..(Len(p) - 1)
    BY <1>1, <1>2
  <2>. QED BY <1>4, <2>1 DEF Directories, DirectoriesOf
<1>6. ASSUME NEW k \in 0..n PROVE Len(SubSeq(d, 1, k)) = k
  BY <1>3, PrefixOfPrefix
<1>. QED BY <1>1, <1>2, <1>3, <1>4, <1>5, <1>6

\* The directory whose configuration a file has.
LEMMA ConfigDirectoryIsDirectory ==
    ASSUME NEW path \in Locations
    PROVE  ConfigDirectory(path) \in Directories \cup {NoUri}
<1>1. path \in Seq(Components) /\ path # <<>> /\ Len(path) \in Nat /\ Len(path) # 0
  BY PathsAssumption DEF Components
<1>2. Parent(path) \in Directories
  BY <1>1 DEF Parent, Front, Directories, DirectoriesOf
<1>3. ASSUME NEW d \in Directories PROVE Parent(d) \in Directories \cup {NoUri}
  <2>1. d = <<>> \/ Len(d) - 1 \in 0..Len(d)
    BY DirectoryIsPath
  <2>. QED BY <2>1, DirectoryIsPath DEF Parent, Front
<1>. QED BY <1>2, <1>3 DEF ConfigDirectory

\* The prefixes of a directory are those of the one above it, and itself.
LEMMA AboveFront ==
    ASSUME NEW d \in Directories, d # <<>>
    PROVE  /\ Front(d) \in Directories
           /\ Above(d) = Above(Front(d)) \cup {d}
           /\ \A e \in Above(Front(d)) : e \in Seq(Components) /\ Len(e) < Len(d)
<1>1. d \in Seq(Components) /\ Len(d) \in Nat /\ Len(d) # 0 /\ SubSeq(d, 1, Len(d)) = d
  BY DirectoryIsPath
<1>2. Front(d) = SubSeq(d, 1, Len(d) - 1) /\ Len(d) - 1 \in 0..Len(d)
  BY <1>1 DEF Front
<1>3. Front(d) \in Directories /\ Len(Front(d)) = Len(d) - 1
  BY <1>2, DirectoryIsPath
<1>4. ASSUME NEW n \in 0..(Len(d) - 1)
      PROVE  /\ SubSeq(Front(d), 1, n) = SubSeq(d, 1, n)
             /\ SubSeq(d, 1, n) \in Seq(Components) /\ Len(SubSeq(d, 1, n)) = n
  <2>1. n \in 0..Len(d)
    BY <1>1
  <2>. QED BY <1>1, <1>2, <2>1, PrefixOfPrefix
<1>5. Above(Front(d)) = {SubSeq(d, 1, n) : n \in 0..(Len(d) - 1)}
  BY <1>3, <1>4 DEF Above
<1>6. 0..Len(d) = (0..(Len(d) - 1)) \cup {Len(d)}
  BY <1>1
<1>7. Above(d) = {SubSeq(d, 1, n) : n \in 0..(Len(d) - 1)} \cup {d}
  BY <1>1, <1>6 DEF Above
<1>8. \A e \in Above(Front(d)) : e \in Seq(Components) /\ Len(e) < Len(d)
  BY <1>1, <1>4, <1>5
<1>. QED BY <1>3, <1>5, <1>7, <1>8

-----------------------------------------------------------------------------
(* What one directory adds to the configuration of the one above it.         *)

\* What one file adds.
LEMMA ParseConfigIs ==
    ASSUME NEW config, NEW file, NEW d
    PROVE  LET parsed == ParseConfig(config, file, d)
           IN /\ parsed = [aliases |-> parsed.aliases, language |-> config.language]
              /\ parsed.aliases = [n \in DOMAIN parsed.aliases |-> parsed.aliases[n]]
              /\ \A n : n \in DOMAIN parsed.aliases <=> n \in DOMAIN file.aliases \/ n \in DOMAIN config.aliases
              /\ \A n \in DOMAIN file.aliases : parsed.aliases[n] =
                    [value |-> file.aliases[n].value, originalCase |-> file.aliases[n].originalCase, location |-> d]
              /\ \A n \in DOMAIN config.aliases : n \notin DOMAIN file.aliases =>
                    parsed.aliases[n] = config.aliases[n]
BY DEF ParseConfig

\* The names a directory has, and which of its files says what they mean.
LEMMA NamesAre ==
    ASSUME NEW d, NEW n
    PROVE  /\ n \in NamesIn(d) <=>
                 \/ IsRead(settings[d], ".config.luau") /\ n \in DOMAIN settings[d][".config.luau"].aliases
                 \/ IsRead(settings[d], ".luaurc") /\ n \in DOMAIN settings[d][".luaurc"].aliases
                 \/ IsRead(settings[d], ".robloxrc") /\ n \in DOMAIN settings[d][".robloxrc"].aliases
           /\ ".luaurc" \in WrittenIn(d, n) <=>
                 IsRead(settings[d], ".luaurc") /\ n \in DOMAIN settings[d][".luaurc"].aliases
           /\ ".robloxrc" \in WrittenIn(d, n) <=>
                 IsRead(settings[d], ".robloxrc") /\ n \in DOMAIN settings[d][".robloxrc"].aliases
           /\ ~(IsRead(settings[d], ".luaurc") /\ IsRead(settings[d], ".robloxrc"))
<1>1. /\ n \in NamesIn(d) <=> \E k \in Kinds : IsRead(settings[d], k) /\ n \in DOMAIN settings[d][k].aliases
      /\ \A k \in Kinds : k \in WrittenIn(d, n) <=> IsRead(settings[d], k) /\ n \in DOMAIN settings[d][k].aliases
  BY DEF NamesIn, WrittenIn
<1>2. ~(IsRead(settings[d], ".luaurc") /\ IsRead(settings[d], ".robloxrc"))
  BY DEF IsRead
<1>. QED BY <1>1, <1>2 DEF Kinds

\* What is read in a directory: of the names written there its own alias, of
\* the others that of the configuration it starts from.
LEMMA ReadDirectoryIs ==
    ASSUME NEW config, NEW d,
           config = [aliases |-> config.aliases, language |-> config.language],
           config.aliases = [n \in DOMAIN config.aliases |-> config.aliases[n]]
    PROVE  ReadDirectory(config, d) =
             [aliases |-> [n \in NamesIn(d) \cup DOMAIN config.aliases |->
                             IF n \in NamesIn(d) THEN AliasIn(d, n) ELSE config.aliases[n]],
              language |-> config.language]
<1> DEFINE files == settings[d]
           Made(c) == /\ c = [aliases |-> c.aliases, language |-> config.language]
                      /\ c.aliases = [n \in DOMAIN c.aliases |-> c.aliases[n]]
           Entry(k, n) == [value |-> files[k].aliases[n].value,
                           originalCase |-> files[k].aliases[n].originalCase, location |-> d]
           first == IF IsRead(files, ".config.luau")
                    THEN ParseConfig(config, files[".config.luau"], d) ELSE config
           read == ReadDirectory(config, d)
           Aliases1(n) == IF IsRead(files, ".config.luau") /\ n \in DOMAIN files[".config.luau"].aliases
                          THEN Entry(".config.luau", n) ELSE config.aliases[n]
<1>1. /\ Made(first)
      /\ \A n : n \in DOMAIN first.aliases <=>
            \/ IsRead(files, ".config.luau") /\ n \in DOMAIN files[".config.luau"].aliases
            \/ n \in DOMAIN config.aliases
      /\ \A n \in DOMAIN first.aliases : first.aliases[n] = Aliases1(n)
  BY ParseConfigIs
<1>2. read = IF IsRead(files, ".luaurc") THEN ParseConfig(first, files[".luaurc"], d)
             ELSE IF IsRead(files, ".robloxrc") THEN ParseConfig(first, files[".robloxrc"], d)
             ELSE first
  BY DEF ReadDirectory
<1> DEFINE Second(k) == IsRead(files, k) /\ (k = ".luaurc" \/ k = ".robloxrc")
<1>3. ASSUME NEW k, k = ".luaurc" \/ k = ".robloxrc", IsRead(files, k)
      PROVE  /\ Made(read)
             /\ \A n : n \in DOMAIN read.aliases <=> n \in DOMAIN files[k].aliases \/ n \in DOMAIN first.aliases
             /\ \A n \in DOMAIN read.aliases : read.aliases[n] =
                   IF n \in DOMAIN files[k].aliases THEN Entry(k, n) ELSE first.aliases[n]
  <2>1. read = ParseConfig(first, files[k], d)
    BY <1>2, <1>3, NamesAre
  <2>. HIDE DEF first, read
  <2>2. first.language = config.language
    BY <1>1
  <2>. QED BY <2>1, <2>2, ParseConfigIs
<1>4. ASSUME ~IsRead(files, ".luaurc"), ~IsRead(files, ".robloxrc") PROVE read = first
  BY <1>2, <1>4
<1>5. ASSUME NEW n
      PROVE  AliasIn(d, n) = IF IsRead(files, ".luaurc") /\ n \in DOMAIN files[".luaurc"].aliases
                             THEN Entry(".luaurc", n)
                             ELSE IF IsRead(files, ".robloxrc") /\ n \in DOMAIN files[".robloxrc"].aliases
                             THEN Entry(".robloxrc", n)
                             ELSE Entry(".config.luau", n)
  BY NamesAre DEF AliasIn
<1>6. Made(read)
  <2>. HIDE DEF Made, read, first
  <2>. QED BY <1>1, <1>3, <1>4
<1>7. ASSUME NEW n
      PROVE  n \in DOMAIN read.aliases <=> n \in NamesIn(d) \/ n \in DOMAIN config.aliases
  <2>. HIDE DEF read, first, files
  <2>. QED BY <1>1, <1>3, <1>4, NamesAre DEF files
<1>8. ASSUME NEW n \in DOMAIN read.aliases
      PROVE  read.aliases[n] = IF n \in NamesIn(d) THEN AliasIn(d, n) ELSE config.aliases[n]
  <2> DEFINE Has(k) == IsRead(files, k) /\ n \in DOMAIN files[k].aliases
  <2>0. /\ n \in NamesIn(d) <=> Has(".config.luau") \/ Has(".luaurc") \/ Has(".robloxrc")
        /\ ~(Has(".luaurc") /\ Has(".robloxrc"))
    BY NamesAre
  <2>1. n \in DOMAIN first.aliases => first.aliases[n] =
           IF Has(".config.luau") THEN Entry(".config.luau", n) ELSE config.aliases[n]
    <3>. HIDE DEF first, Entry
    <3>. QED BY <1>1
  <2>2. AliasIn(d, n) = IF Has(".luaurc") THEN Entry(".luaurc", n)
                        ELSE IF Has(".robloxrc") THEN Entry(".robloxrc", n) ELSE Entry(".config.luau", n)
    BY <1>5
  <2>3. ASSUME NEW k, k = ".luaurc" \/ k = ".robloxrc", IsRead(files, k)
        PROVE  /\ Has(k) => read.aliases[n] = Entry(k, n)
               /\ ~Has(k) => n \in DOMAIN first.aliases /\ read.aliases[n] = first.aliases[n]
    <3>. HIDE DEF read, first, Entry, files, Made
    <3>. QED BY <1>3, <2>3, <1>8
  <2>4. CASE IsRead(files, ".luaurc")
    <3>1. ~Has(".robloxrc")
      BY <2>4, NamesAre
    <3>. HIDE DEF read, first, Entry
    <3>. QED BY <2>0, <2>1, <2>2, <2>3, <2>4, <3>1
  <2>5. CASE IsRead(files, ".robloxrc")
    <3>1. ~Has(".luaurc")
      BY <2>5, NamesAre
    <3>. HIDE DEF read, first, Entry
    <3>. QED BY <2>0, <2>1, <2>2, <2>3, <2>5, <3>1
  <2>6. CASE ~IsRead(files, ".luaurc") /\ ~IsRead(files, ".robloxrc")
    <3>. HIDE DEF read, first, Entry
    <3>. QED BY <2>0, <2>1, <2>2, <2>6, <1>4, <1>8
  <2>. QED BY <2>4, <2>5, <2>6
<1>9. DOMAIN read.aliases = NamesIn(d) \cup DOMAIN config.aliases
  <2>. HIDE DEF read
  <2>. QED BY <1>7
<1>. HIDE DEF read, first
<1>. QED BY <1>6, <1>8, <1>9 DEF read

\* So the configuration of a directory is read from that of the one above it.
LEMMA ReadsWhatIsOnDisk ==
    ASSUME NEW d \in Directories
    PROVE  ConfigOnDisk(d) = ReadDirectory(IF d = <<>> THEN DefaultConfig ELSE ConfigOnDisk(Front(d)), d)
<1> DEFINE up == IF d = <<>> THEN DefaultConfig ELSE ConfigOnDisk(Front(d))
           names == UNION {NamesIn(e) : e \in Above(d)}
<1>1. up.language = "luwu"
  BY DEF ConfigOnDisk, DefaultConfig
<1>2. ReadDirectory(up, d) =
        [aliases |-> [n \in NamesIn(d) \cup DOMAIN up.aliases |->
                        IF n \in NamesIn(d) THEN AliasIn(d, n) ELSE up.aliases[n]],
         language |-> "luwu"]
  <2>1. /\ up = [aliases |-> up.aliases, language |-> up.language]
        /\ up.aliases = [n \in DOMAIN up.aliases |-> up.aliases[n]]
    BY DEF ConfigOnDisk, DefaultConfig
  <2>. HIDE DEF up
  <2>2. ReadDirectory(up, d) =
          [aliases |-> [n \in NamesIn(d) \cup DOMAIN up.aliases |->
                          IF n \in NamesIn(d) THEN AliasIn(d, n) ELSE up.aliases[n]],
           language |-> up.language]
    BY <2>1, ReadDirectoryIs, Zenon
  <2>. QED BY <2>2, <1>1
<1>3. ConfigOnDisk(d) = [aliases |-> [n \in names |-> AliasIn(Nearest(d, n), n)], language |-> "luwu"]
  BY DEF ConfigOnDisk, DefaultConfig
<1>4. d \in Above(d) /\ Len(d) \in Nat
  BY DirectoryIsPath DEF Above
<1>5. ASSUME NEW n \in NamesIn(d) PROVE Nearest(d, n) = d
  <2>1. \A e \in Above(d) : e = d \/ (Len(e) \in Nat /\ Len(e) < Len(d))
    <3>1. CASE d = <<>>
      <4>1. Above(d) = {d}
        BY <3>1, DirectoryIsPath DEF Above
      <4>. QED BY <4>1
    <3>2. CASE d # <<>>
      BY <3>2, AboveFront
    <3>. QED BY <3>1, <3>2
  <2>2. /\ d \in Holders(d, n) /\ \A e \in Holders(d, n) : Len(e) <= Len(d)
        /\ \A e \in Holders(d, n) : Len(d) <= Len(e) => e = d
    BY <1>4, <2>1 DEF Holders
  <2>. QED BY <2>2 DEF Nearest
<1>6. CASE d = <<>>
  <2>1. Above(d) = {d}
    BY <1>6, DirectoryIsPath DEF Above
  <2>2. DOMAIN up.aliases = {} /\ names = NamesIn(d)
    BY <1>6, <2>1 DEF DefaultConfig
  <2>. HIDE DEF up, names
  <2>. QED BY <1>2, <1>3, <1>5, <2>2 DEF up
<1>7. CASE d # <<>>
  <2>1. Above(d) = Above(Front(d)) \cup {d}
    BY <1>7, AboveFront
  <2>2. up.aliases = [n \in UNION {NamesIn(e) : e \in Above(Front(d))} |-> AliasIn(Nearest(Front(d), n), n)]
    BY <1>7 DEF ConfigOnDisk
  <2>3. names = NamesIn(d) \cup DOMAIN up.aliases
    BY <2>1, <2>2
  <2>4. ASSUME NEW n \in DOMAIN up.aliases, n \notin NamesIn(d)
        PROVE  up.aliases[n] = AliasIn(Nearest(d, n), n)
    <3>1. Holders(d, n) = Holders(Front(d), n)
      BY <2>1, <2>4 DEF Holders
    <3>2. Nearest(d, n) = Nearest(Front(d), n)
      BY <3>1 DEF Nearest
    <3>. HIDE DEF up
    <3>. QED BY <2>2, <3>2
  <2>. HIDE DEF up, names
  <2>. QED BY <1>2, <1>3, <1>5, <2>3, <2>4 DEF up
<1>. QED BY <1>6, <1>7

-----------------------------------------------------------------------------
(* The caches.                                                               *)

CachesTyped(state) ==
    /\ DOMAIN state.configs \subseteq Directories
    /\ \A key \in DOMAIN state.languages : key[2] \in {"luau", "lua", "luwu"}
    /\ state.reported \subseteq Directories \X Kinds

InLanguage(directory, language) ==
    [IF directory = NoUri THEN DefaultConfig ELSE ConfigOnDisk(directory) EXCEPT !.language = language]

CachesCurrent(state) ==
    /\ \A d \in DOMAIN state.configs : state.configs[d] = ConfigOnDisk(d)
    /\ \A key \in DOMAIN state.languages : state.languages[key] = InLanguage(key[1], key[2])
    /\ \A d \in DOMAIN state.configs : settings[d][".luaurc"].there =>
          (<<d, ".luaurc">> \in state.reported <=> settings[d][".luaurc"].broken)

\* The aliases read are those that were written, at a directory where they were.
AliasesNamed(aliases) ==
    /\ IsFiniteSet(DOMAIN aliases) /\ DOMAIN aliases \subseteq STRING
    /\ \A n \in DOMAIN aliases :
          /\ Lower(aliases[n].originalCase) = n
          /\ aliases[n].value \in Seq(Components)
          /\ \A i \in DOMAIN aliases[n].value : Lower(aliases[n].value[i][2]) \in STRING
          /\ aliases[n].location \in Directories

ConfigNamed(config) ==
    config = [aliases |-> config.aliases, language |-> config.language] /\ AliasesNamed(config.aliases)

AliasesGood(state) ==
    /\ \A d \in DOMAIN state.configs : ConfigNamed(state.configs[d])
    /\ \A key \in DOMAIN state.languages : ConfigNamed(state.languages[key])

SettingsTyped == settings \in [Directories -> [Kinds -> Settings]]

\* What every reading of a configuration keeps.
CachesGood(state) ==
    CachesTyped(state) /\ (SettingsTyped => AliasesGood(state)) /\ (SettingsTold => CachesCurrent(state))

LEMMA ParseConfigNamed ==
    ASSUME NEW config, ConfigNamed(config), NEW file \in Settings, NEW d \in Directories
    PROVE  ConfigNamed(ParseConfig(config, file, d))
<1> DEFINE parsed == ParseConfig(config, file, d).aliases
<1>1. /\ IsFiniteSet(DOMAIN file.aliases) /\ DOMAIN file.aliases \subseteq STRING
      /\ \A n \in DOMAIN file.aliases :
            /\ Lower(file.aliases[n].originalCase) = n
            /\ file.aliases[n].value \in Seq(Components)
            /\ \A i \in DOMAIN file.aliases[n].value : Lower(file.aliases[n].value[i][2]) \in STRING
  <2>1. CASE file = NoFile
    <3>1. DOMAIN file.aliases = {}
      BY <2>1 DEF NoFile
    <3>. QED BY <3>1, FS_EmptySet
  <2>2. CASE file \in [aliases : Aliases, broken : BOOLEAN, there : {TRUE}]
    <3>1. file.aliases \in Aliases
      BY <2>2
    <3>. QED BY <3>1, AliasesAssumption DEF Components
  <2>. QED BY <2>1, <2>2 DEF Settings
<1>2. /\ DOMAIN parsed = DOMAIN file.aliases \cup DOMAIN config.aliases
      /\ \A n \in DOMAIN file.aliases : parsed[n] =
            [value |-> file.aliases[n].value, originalCase |-> file.aliases[n].originalCase, location |-> d]
      /\ \A n \in DOMAIN config.aliases : n \notin DOMAIN file.aliases => parsed[n] = config.aliases[n]
  BY DEF ParseConfig
<1>0. /\ IsFiniteSet(DOMAIN config.aliases) /\ DOMAIN config.aliases \subseteq STRING
      /\ AliasesNamed(config.aliases)
  BY DEF AliasesNamed, ConfigNamed
<1>. HIDE DEF parsed
<1>3. IsFiniteSet(DOMAIN parsed) /\ DOMAIN parsed \subseteq STRING
  <2>1. IsFiniteSet(DOMAIN file.aliases \cup DOMAIN config.aliases)
    BY <1>0, <1>1, FS_Union
  <2>. QED BY <1>0, <1>1, <1>2, <2>1
<1>4. ASSUME NEW n \in DOMAIN parsed
      PROVE  /\ Lower(parsed[n].originalCase) = n
             /\ parsed[n].value \in Seq(Components)
             /\ \A i \in DOMAIN parsed[n].value : Lower(parsed[n].value[i][2]) \in STRING
             /\ parsed[n].location \in Directories
  <2>1. CASE n \in DOMAIN file.aliases
    <3>1. parsed[n].value = file.aliases[n].value /\ parsed[n].originalCase = file.aliases[n].originalCase
          /\ parsed[n].location = d
      <4>1. parsed[n] =
              [value |-> file.aliases[n].value, originalCase |-> file.aliases[n].originalCase, location |-> d]
        BY <1>2, <2>1
      <4>. QED BY <4>1
    <3>. QED BY <1>1, <2>1, <3>1
  <2>2. CASE n \notin DOMAIN file.aliases
    <3>1. n \in DOMAIN config.aliases /\ parsed[n] = config.aliases[n]
      BY <1>2, <2>2
    <3>. QED BY <1>0, <3>1 DEF AliasesNamed
  <2>. QED BY <2>1, <2>2
<1>5. AliasesNamed(parsed)
  BY <1>3, <1>4 DEF AliasesNamed
<1>6. ParseConfig(config, file, d) =
        [aliases |-> ParseConfig(config, file, d).aliases, language |-> ParseConfig(config, file, d).language]
  BY DEF ParseConfig
<1>. QED BY <1>5, <1>6 DEF ConfigNamed, parsed

LEMMA ReadDirectoryNamed ==
    ASSUME NEW config, ConfigNamed(config), NEW d \in Directories, SettingsTyped
    PROVE  ConfigNamed(ReadDirectory(config, d))
<1> DEFINE files == settings[d]
           first == IF IsRead(files, ".config.luau") THEN ParseConfig(config, files[".config.luau"], d) ELSE config
<1>1. /\ files[".config.luau"] \in Settings /\ files[".luaurc"] \in Settings
      /\ files[".robloxrc"] \in Settings
  BY DEF SettingsTyped, Kinds
<1>2. ReadDirectory(config, d) =
        IF IsRead(files, ".luaurc") THEN ParseConfig(first, files[".luaurc"], d)
        ELSE IF IsRead(files, ".robloxrc") THEN ParseConfig(first, files[".robloxrc"], d)
        ELSE first
  BY DEF ReadDirectory
<1>. HIDE DEF files
<1>3. ConfigNamed(first)
  BY <1>1, ParseConfigNamed
<1>. HIDE DEF first
<1>. QED BY <1>1, <1>2, <1>3, ParseConfigNamed

LEMMA NoAliases == ConfigNamed(DefaultConfig)
<1>1. /\ DOMAIN DefaultConfig.aliases = {}
      /\ DefaultConfig = [aliases |-> DefaultConfig.aliases, language |-> DefaultConfig.language]
  BY DEF DefaultConfig
<1>. QED BY <1>1, FS_EmptySet DEF AliasesNamed, ConfigNamed

\* What reading a directory shows.
LEMMA ReportReadIs ==
    ASSUME NEW shown, NEW d
    PROVE  /\ ReportRead(shown, d) \subseteq shown \cup ({d} \X Kinds)
           /\ \A e, k : e # d => (<<e, k>> \in ReportRead(shown, d) <=> <<e, k>> \in shown)
           /\ settings[d][".luaurc"].there =>
                (<<d, ".luaurc">> \in ReportRead(shown, d) <=> settings[d][".luaurc"].broken)
<1> DEFINE files == settings[d]
           Show(places, place, kind) == IF files[kind].broken THEN places \cup {<<d, place>>}
                                        ELSE places \ {<<d, place>>}
           first == IF IsRead(files, ".config.luau") THEN Show(shown, ".luaurc", ".config.luau") ELSE shown
           Shown(places) == /\ places \subseteq shown \cup ({d} \X Kinds)
                            /\ \A e, k : e # d => (<<e, k>> \in places <=> <<e, k>> \in shown)
<1>1. ReportRead(shown, d) = IF IsRead(files, ".luaurc") THEN Show(first, ".luaurc", ".luaurc")
                             ELSE IF IsRead(files, ".robloxrc") THEN Show(first, ".robloxrc", ".robloxrc")
                             ELSE first
  BY DEF ReportRead
<1>2. ASSUME NEW places, Shown(places), NEW place \in Kinds, NEW kind
      PROVE  Shown(Show(places, place, kind))
  BY <1>2
<1>3. Shown(shown) /\ Shown(first)
  <2>1. Shown(shown)
    OBVIOUS
  <2>2. Shown(Show(shown, ".luaurc", ".config.luau"))
    <3>. HIDE DEF Shown, Show
    <3>. QED BY <2>1, <1>2 DEF Kinds
  <2>. HIDE DEF Shown, Show
  <2>. QED BY <2>1, <2>2
<1>4. Shown(ReportRead(shown, d))
  <2>. HIDE DEF Shown, Show, first
  <2>. QED BY <1>1, <1>2, <1>3 DEF Kinds
<1>5. ASSUME settings[d][".luaurc"].there
      PROVE  <<d, ".luaurc">> \in ReportRead(shown, d) <=> settings[d][".luaurc"].broken
  <2>1. ReportRead(shown, d) = Show(first, ".luaurc", ".luaurc")
    BY <1>1, <1>5 DEF IsRead
  <2>. HIDE DEF first
  <2>. QED BY <2>1
<1>. QED BY <1>4, <1>5

LEMMA ReadConfigIsGood ==
    ASSUME NEW state, NEW above, NEW d \in Directories, CachesGood(state), CachesGood(above),
           d = <<>> \/ Front(d) \in DOMAIN above.configs
    PROVE  /\ CachesGood(ReadConfig(state, above, d))
           /\ d \in DOMAIN ReadConfig(state, above, d).configs
<1>1. CASE d \in DOMAIN state.configs
  BY <1>1 DEF ReadConfig
<1>2. CASE d \notin DOMAIN state.configs
  <2> DEFINE up == IF d = <<>> THEN DefaultConfig ELSE above.configs[Front(d)]
             read == ReadDirectory(up, d)
             shown == ReportRead(above.reported, d)
             next == ReadConfig(state, above, d)
  <2>1. /\ next.configs = [k \in DOMAIN above.configs \cup {d} |-> IF k = d THEN read ELSE above.configs[k]]
        /\ next.languages = above.languages
        /\ next.reported = shown
    BY <1>2 DEF ReadConfig, With, CacheState
  <2>2. CachesTyped(next)
    <3>1. shown \subseteq Directories \X Kinds
      <4>1. shown \subseteq above.reported \cup ({d} \X Kinds)
        BY ReportReadIs
      <4>2. above.reported \subseteq Directories \X Kinds
        BY DEF CachesGood, CachesTyped
      <4>. HIDE DEF shown
      <4>. QED BY <4>1, <4>2
    <3>. HIDE DEF next, read, shown
    <3>. QED BY <2>1, <3>1 DEF CachesGood, CachesTyped
  <2>3. ASSUME SettingsTold PROVE CachesCurrent(next)
    <3>1. CachesCurrent(above)
      BY <2>3 DEF CachesGood
    <3>2. read = ConfigOnDisk(d)
      <4>1. up = IF d = <<>> THEN DefaultConfig ELSE ConfigOnDisk(Front(d))
        BY <3>1 DEF CachesCurrent
      <4>. HIDE DEF up
      <4>. QED BY <4>1, ReadsWhatIsOnDisk
    <3>3. ASSUME NEW e \in DOMAIN next.configs
          PROVE  /\ next.configs[e] = ConfigOnDisk(e)
                 /\ settings[e][".luaurc"].there =>
                       (<<e, ".luaurc">> \in shown <=> settings[e][".luaurc"].broken)
      <4>1. CASE e = d
        <5>1. next.configs[e] = read
          <6>. HIDE DEF next, read, shown
          <6>. QED BY <2>1, <4>1
        <5>. HIDE DEF next, read
        <5>. QED BY <4>1, <5>1, <3>2, ReportReadIs
      <4>2. CASE e # d
        <5>1. e \in DOMAIN above.configs /\ next.configs[e] = above.configs[e]
          <6>. HIDE DEF next, read, shown
          <6>. QED BY <2>1, <3>3, <4>2
        <5>2. <<e, ".luaurc">> \in shown <=> <<e, ".luaurc">> \in above.reported
          BY <4>2, ReportReadIs
        <5>. HIDE DEF next, shown
        <5>. QED BY <5>1, <5>2, <3>1 DEF CachesCurrent
      <4>. QED BY <4>1, <4>2
    <3>. HIDE DEF next, read, shown
    <3>. QED BY <2>1, <3>1, <3>3 DEF CachesCurrent
  <2>4. d \in DOMAIN next.configs
    <3>. HIDE DEF next, read, shown
    <3>. QED BY <2>1
  <2>5. ASSUME SettingsTyped PROVE AliasesGood(next)
    <3>1. AliasesGood(above)
      BY <2>5 DEF CachesGood
    <3>2. ConfigNamed(up)
      BY <3>1, NoAliases DEF AliasesGood
    <3>3. ConfigNamed(read)
      <4>. HIDE DEF up
      <4>. QED BY <2>5, <3>2, ReadDirectoryNamed
    <3>. HIDE DEF next, read, shown
    <3>. QED BY <2>1, <3>1, <3>3 DEF AliasesGood
  <2>. QED BY <2>2, <2>3, <2>4, <2>5 DEF CachesGood
<1>. QED BY <1>1, <1>2

\* The readings of a directory are a recursive function.  That it exists at all
\* takes an argument by the least prefix up to which it does not.
LEMMA ReadConfigRecUnfolds ==
    ASSUME NEW state, NEW d, Len(d) \in Nat
    PROVE  \E read : /\ ReadConfigRec(state, d) = read[Len(d)]
                     /\ \A n \in 0..Len(d) : read[n] = ReadConfig(state, IF n = 0 THEN state ELSE read[n - 1], SubSeq(d, 1, n))
<1> DEFINE m == Len(d)
           Step(f, n) == ReadConfig(state, IF n = 0 THEN state ELSE f[n - 1], SubSeq(d, 1, n))
           Solution(f, k) == f = [n \in 0..k |-> Step(f, n)]
           Bad == {k \in 0..m : ~ \E f : Solution(f, k)}
<1>1. ASSUME NEW f, NEW g, NEW n, n = 0 \/ f[n - 1] = g[n - 1]
      PROVE  Step(f, n) = Step(g, n)
  BY <1>1
<1>2. 0 \notin Bad
  <2> DEFINE f == [n \in 0..0 |-> Step(<<>>, n)]
  <2>1. \A n \in 0..0 : Step(<<>>, n) = Step(f, n)
    <3>. HIDE DEF f, Step
    <3>. QED BY <1>1
  <2>2. f = [n \in 0..0 |-> Step(f, n)]
    <3>. HIDE DEF Step
    <3>. QED BY <2>1
  <2>. HIDE DEF Step, f
  <2>. QED BY <2>2
<1>3. ASSUME NEW k \in 1..m, k - 1 \notin Bad PROVE k \notin Bad
  <2>1. PICK f : Solution(f, k - 1)
    <3>1. k - 1 \in 0..m
      OBVIOUS
    <3>. HIDE DEF Solution
    <3>. QED BY <1>3, <3>1
  <2> DEFINE g == [n \in 0..k |-> Step(f, n)]
  <2>2. \A n \in 0..(k - 1) : g[n] = f[n]
    <3>. HIDE DEF Step
    <3>. QED BY <2>1, <1>3
  <2>3. \A n \in 0..k : Step(f, n) = Step(g, n)
    <3>1. \A n \in 0..k : n = 0 \/ n - 1 \in 0..(k - 1)
      BY <1>3
    <3>. HIDE DEF g, Step
    <3>. QED BY <1>1, <2>2, <3>1
  <2>4. Solution(g, k)
    <3>. HIDE DEF Step
    <3>. QED BY <2>3
  <2>. HIDE DEF Solution, g
  <2>. QED BY <2>4
<1>4. Bad = {}
  <2>1. Bad \in SUBSET (0..m)
    OBVIOUS
  <2>2. m \in Nat
    OBVIOUS
  <2>3. \A n \in 1..m : n \in Bad => n - 1 \in Bad
    <3>. HIDE DEF Bad, m
    <3>. QED BY <1>3
  <2>. HIDE DEF Bad, m
  <2>. QED BY <1>2, <2>1, <2>2, <2>3, UpTo
<1>5. PICK f : Solution(f, m)
  <2>1. m \in 0..m
    OBVIOUS
  <2>. HIDE DEF Solution, m
  <2>. QED BY <1>4, <2>1
<1> DEFINE read == CHOOSE h : Solution(h, m)
<1>6. Solution(read, m)
  <2>. HIDE DEF Solution
  <2>. QED BY <1>5
<1>7. ReadConfigRec(state, d) = read[m]
  BY DEF ReadConfigRec
<1>8. \A n \in 0..m : read[n] = Step(read, n)
  <2>. HIDE DEF Step, read, m
  <2>. QED BY <1>6
<1>. HIDE DEF read
<1>. QED BY <1>7, <1>8

\* Reading a directory reads all of those above it.
LEMMA ReadConfigRecIsGood ==
    ASSUME NEW state, NEW d \in Directories, CachesGood(state)
    PROVE  /\ CachesGood(ReadConfigRec(state, d))
           /\ d \in DOMAIN ReadConfigRec(state, d).configs
<1>1. Len(d) \in Nat /\ SubSeq(d, 1, Len(d)) = d
  BY DirectoryIsPath
<1>2. PICK read : /\ ReadConfigRec(state, d) = read[Len(d)]
                  /\ \A n \in 0..Len(d) : read[n] = ReadConfig(state, IF n = 0 THEN state ELSE read[n - 1], SubSeq(d, 1, n))
  BY <1>1, ReadConfigRecUnfolds
<1> DEFINE Good(n) == CachesGood(read[n]) /\ SubSeq(d, 1, n) \in DOMAIN read[n].configs
           Bad == {n \in 0..Len(d) : ~Good(n)}
<1>3. Good(0)
  <2>1. 0 \in 0..Len(d)
    BY <1>1
  <2>2. SubSeq(d, 1, 0) = <<>> /\ SubSeq(d, 1, 0) \in Directories
    BY <2>1, DirectoryIsPath
  <2>3. read[0] = ReadConfig(state, state, SubSeq(d, 1, 0))
    BY <1>2, <2>1
  <2>. QED BY <2>2, <2>3, ReadConfigIsGood
<1>4. ASSUME NEW n \in 1..Len(d), Good(n - 1) PROVE Good(n)
  <2>1. n \in 0..Len(d) /\ n - 1 \in 0..Len(d) /\ n # 0 /\ n - 1 \in 0..n
    BY <1>1
  <2>2. SubSeq(d, 1, n) \in Directories /\ Len(SubSeq(d, 1, n)) = n
    BY <2>1, DirectoryIsPath
  <2>3. Front(SubSeq(d, 1, n)) = SubSeq(d, 1, n - 1)
    BY <1>1, <2>1, <2>2, PrefixOfPrefix, DirectoryIsPath DEF Front
  <2>4. read[n] = ReadConfig(state, read[n - 1], SubSeq(d, 1, n))
    BY <1>2, <2>1
  <2>. QED BY <1>4, <2>2, <2>3, <2>4, ReadConfigIsGood
<1>5. Bad = {}
  <2>1. Bad \in SUBSET (0..Len(d)) /\ 0 \notin Bad
    BY <1>3
  <2>2. \A n \in 1..Len(d) : n \in Bad => n - 1 \in Bad
    <3>1. \A n \in 1..Len(d) : n - 1 \in 0..Len(d)
      BY <1>1
    <3>. HIDE DEF Good
    <3>. QED BY <1>4, <3>1
  <2>. HIDE DEF Bad
  <2>. QED BY <1>1, <2>1, <2>2, UpTo
<1>6. Good(Len(d))
  <2>1. Len(d) \in 0..Len(d)
    BY <1>1
  <2>. HIDE DEF Good
  <2>. QED BY <1>5, <2>1
<1>. QED BY <1>1, <1>2, <1>6

LEMMA LoadConfigIsGood ==
    ASSUME NEW state, NEW path \in Locations, CachesGood(state)
    PROVE  CachesGood(LoadConfig(state, path))
<1> DEFINE d == ConfigDirectory(path)
           read == IF d = NoUri THEN state ELSE ReadConfigRec(state, d)
           config == IF d = NoUri THEN DefaultConfig ELSE read.configs[d]
           key == <<d, Language(path)>>
           own == [config EXCEPT !.language = Language(path)]
           next == LoadConfig(state, path)
<1>1. d \in Directories \cup {NoUri}
  BY ConfigDirectoryIsDirectory
<1>2. CachesGood(read) /\ (d # NoUri => d \in DOMAIN read.configs)
  <2>. HIDE DEF d
  <2>. QED BY <1>1, ReadConfigRecIsGood
<1>3. CASE next = read
  BY <1>2, <1>3
<1>4. CASE next # read
  <2>1. /\ next.configs = read.configs
        /\ next.languages = [k \in DOMAIN read.languages \cup {key} |-> IF k = key THEN own ELSE read.languages[k]]
        /\ next.reported = read.reported
    <3>1. next = CacheState(read.configs, With(read.languages, key, own), read.reported)
      BY <1>4 DEF LoadConfig
    <3>. HIDE DEF next, read, own, key
    <3>. QED BY <3>1 DEF CacheState, With
  <2>2. Language(path) \in {"luau", "lua", "luwu"}
    BY DEF Language
  <2>3. CachesTyped(next)
    <3>1. key[2] = Language(path)
      OBVIOUS
    <3>. HIDE DEF next, read, own, key
    <3>. QED BY <1>2, <2>1, <2>2, <3>1 DEF CachesGood, CachesTyped
  <2>4. ASSUME SettingsTold PROVE CachesCurrent(next)
    <3>1. CachesCurrent(read)
      BY <1>2, <2>4 DEF CachesGood
    <3>2. config = IF d = NoUri THEN DefaultConfig ELSE ConfigOnDisk(d)
      <4>. HIDE DEF read, d
      <4>. QED BY <1>2, <3>1 DEF CachesCurrent
    <3>3. own = InLanguage(key[1], key[2])
      <4>. HIDE DEF config, d
      <4>. QED BY <3>2 DEF InLanguage
    <3>. HIDE DEF next, read, own, key
    <3>. QED BY <2>1, <3>1, <3>3 DEF CachesCurrent
  <2>5. ASSUME SettingsTyped PROVE AliasesGood(next)
    <3>1. AliasesGood(read)
      BY <1>2, <2>5 DEF CachesGood
    <3>2. ConfigNamed(config)
      <4>. HIDE DEF read, d
      <4>. QED BY <1>2, <3>1, NoAliases DEF AliasesGood
    <3>3. ConfigNamed(own)
      <4>1. own.aliases = config.aliases /\ own = [aliases |-> own.aliases, language |-> own.language]
        <5>1. config = [aliases |-> config.aliases, language |-> config.language]
          BY <3>2 DEF ConfigNamed
        <5>. HIDE DEF config
        <5>. QED BY <5>1
      <4>. HIDE DEF own, config
      <4>. QED BY <3>2, <4>1 DEF ConfigNamed
    <3>. HIDE DEF next, read, own, key
    <3>. QED BY <2>1, <3>1, <3>3 DEF AliasesGood
  <2>6. CachesGood(next)
    <3>. HIDE DEF next
    <3>. QED BY <2>3, <2>4, <2>5 DEF CachesGood
  <2>. QED BY <2>6
<1>. QED BY <1>3, <1>4

-----------------------------------------------------------------------------
(* The frontend.                                                             *)

\* What every parsing of a module keeps: the modules known stay known, and no
\* module becomes dirty.
GraphGood(graph) ==
    /\ CachesGood(graph.state)
    /\ DOMAIN sourceNodes \subseteq DOMAIN graph.nodes
    /\ graph.dirty \subseteq dirty

LEMMA ReadIfDirtyIsGood ==
    ASSUME NEW graph, NEW path \in Locations, GraphGood(graph)
    PROVE  GraphGood(ReadIfDirty(graph, path))
<1> DEFINE next == ReadIfDirty(graph, path)
           state == LoadConfig(graph.state, path)
<1>1. CASE next.state = graph.state /\ next.nodes = graph.nodes /\ next.dirty = graph.dirty
  BY <1>1 DEF GraphGood
<1>2. CASE next = Read(graph, path, state)
  <2>1. /\ next.state = state
        /\ DOMAIN next.nodes = DOMAIN graph.nodes \cup {path}
        /\ next.dirty = graph.dirty \ {path}
    <3>. HIDE DEF next, state
    <3>. QED BY <1>2 DEF Read, Graph, With
  <2>2. CachesGood(state)
    BY LoadConfigIsGood DEF GraphGood
  <2>3. GraphGood(next)
    <3>. HIDE DEF next, state
    <3>. QED BY <2>1, <2>2 DEF GraphGood
  <2>. QED BY <2>3
<1>. QED BY <1>1, <1>2 DEF ReadIfDirty, Graph

LEMMA FollowRequireIsGood ==
    ASSUME NEW reading, Files \subseteq Locations, GraphGood(reading.graph)
    PROVE  GraphGood(FollowRequire(reading).graph)
<1>1. CASE reading.next \in reading.graph.seen \/ reading.next \notin Files
  BY <1>1 DEF FollowRequire
<1>2. CASE ~(reading.next \in reading.graph.seen \/ reading.next \notin Files)
  <2>1. FollowRequire(reading).graph = ReadIfDirty(reading.graph, reading.next)
    BY <1>2 DEF FollowRequire
  <2>2. reading.next \in Locations
    BY <1>2
  <2>. QED BY <2>1, <2>2, ReadIfDirtyIsGood
<1>. QED BY <1>1, <1>2

\* How far the requires of a module are followed, as the readings of a directory.
LEMMA ParsedUnfolds ==
    ASSUME NEW graph, NEW path, Cardinality(Files) \in Nat
    PROVE  \E read :
             /\ Parsed(graph, path) = read[Cardinality(Files)].graph
             /\ \A n \in 0..Cardinality(Files) :
                  read[n] = IF n = 0 THEN [graph |-> graph, next |-> path] ELSE FollowRequire(read[n - 1])
<1> DEFINE m == Cardinality(Files)
           Step(f, n) == IF n = 0 THEN [graph |-> graph, next |-> path] ELSE FollowRequire(f[n - 1])
           Solution(f, k) == f = [n \in 0..k |-> Step(f, n)]
           Bad == {k \in 0..m : ~ \E f : Solution(f, k)}
<1>1. ASSUME NEW f, NEW g, NEW n, n = 0 \/ f[n - 1] = g[n - 1]
      PROVE  Step(f, n) = Step(g, n)
  BY <1>1
<1>2. 0 \notin Bad
  <2> DEFINE f == [n \in 0..0 |-> Step(<<>>, n)]
  <2>1. \A n \in 0..0 : Step(<<>>, n) = Step(f, n)
    <3>. HIDE DEF f, Step
    <3>. QED BY <1>1
  <2>2. f = [n \in 0..0 |-> Step(f, n)]
    <3>. HIDE DEF Step
    <3>. QED BY <2>1
  <2>. HIDE DEF Step, f
  <2>. QED BY <2>2
<1>3. ASSUME NEW k \in 1..m, k - 1 \notin Bad PROVE k \notin Bad
  <2>1. PICK f : Solution(f, k - 1)
    <3>1. k - 1 \in 0..m
      OBVIOUS
    <3>. HIDE DEF Solution
    <3>. QED BY <1>3, <3>1
  <2> DEFINE g == [n \in 0..k |-> Step(f, n)]
  <2>2. \A n \in 0..(k - 1) : g[n] = f[n]
    <3>. HIDE DEF Step
    <3>. QED BY <2>1, <1>3
  <2>3. \A n \in 0..k : Step(f, n) = Step(g, n)
    <3>1. \A n \in 0..k : n = 0 \/ n - 1 \in 0..(k - 1)
      BY <1>3
    <3>. HIDE DEF g, Step
    <3>. QED BY <1>1, <2>2, <3>1
  <2>4. Solution(g, k)
    <3>. HIDE DEF Step
    <3>. QED BY <2>3
  <2>. HIDE DEF Solution, g
  <2>. QED BY <2>4
<1>4. Bad = {}
  <2>1. Bad \in SUBSET (0..m)
    OBVIOUS
  <2>2. m \in Nat
    OBVIOUS
  <2>3. \A n \in 1..m : n \in Bad => n - 1 \in Bad
    <3>. HIDE DEF Bad, m
    <3>. QED BY <1>3
  <2>. HIDE DEF Bad, m
  <2>. QED BY <1>2, <2>1, <2>2, <2>3, UpTo
<1>5. PICK f : Solution(f, m)
  <2>1. m \in 0..m
    OBVIOUS
  <2>. HIDE DEF Solution, m
  <2>. QED BY <1>4, <2>1
<1> DEFINE read == CHOOSE h : Solution(h, m)
<1>6. Solution(read, m)
  <2>. HIDE DEF Solution
  <2>. QED BY <1>5
<1>7. Parsed(graph, path) = read[m].graph
  BY DEF Parsed
<1>8. \A n \in 0..m : read[n] = Step(read, n)
  <2>. HIDE DEF Step, read, m
  <2>. QED BY <1>6
<1>. HIDE DEF read
<1>. QED BY <1>7, <1>8

LEMMA ParsedIsGood ==
    ASSUME NEW graph, NEW path, Files \subseteq Locations, IsFiniteSet(Files), GraphGood(graph)
    PROVE  GraphGood(Parsed(graph, path))
<1> DEFINE m == Cardinality(Files)
<1>1. m \in Nat
  BY FS_CardinalityType
<1>2. PICK read : /\ Parsed(graph, path) = read[m].graph
                  /\ \A n \in 0..m : read[n] = IF n = 0 THEN [graph |-> graph, next |-> path]
                                                ELSE FollowRequire(read[n - 1])
  BY <1>1, ParsedUnfolds
<1> DEFINE Bad == {n \in 0..m : ~GraphGood(read[n].graph)}
<1>. HIDE DEF m
<1>3. 0 \notin Bad
  <2>1. 0 \in 0..m
    BY <1>1
  <2>2. read[0].graph = graph
    BY <1>2, <2>1
  <2>. QED BY <2>2
<1>4. ASSUME NEW n \in 1..m, n - 1 \notin Bad PROVE n \notin Bad
  <2>1. n \in 0..m /\ n - 1 \in 0..m /\ n # 0
    BY <1>1
  <2>2. read[n] = FollowRequire(read[n - 1])
    BY <1>2, <2>1
  <2>3. GraphGood(read[n - 1].graph)
    BY <1>4, <2>1
  <2>. QED BY <2>2, <2>3, FollowRequireIsGood
<1>5. Bad = {}
  <2>1. Bad \in SUBSET (0..m)
    OBVIOUS
  <2>. HIDE DEF Bad
  <2>. QED BY <1>1, <1>3, <1>4, <2>1, UpTo
<1>6. m \in 0..m
  BY <1>1
<1>. QED BY <1>2, <1>5, <1>6

\* One module after the other.
LEMMA ParsedAllUnfolds ==
    ASSUME NEW graph, NEW paths, Len(paths) \in Nat
    PROVE  \E read :
             /\ ParsedAll(graph, paths) = read[Len(paths)]
             /\ \A n \in 0..Len(paths) :
                  read[n] = IF n = 0 THEN graph ELSE Parsed(read[n - 1], paths[n])
<1> DEFINE m == Len(paths)
           Step(f, n) == IF n = 0 THEN graph ELSE Parsed(f[n - 1], paths[n])
           Solution(f, k) == f = [n \in 0..k |-> Step(f, n)]
           Bad == {k \in 0..m : ~ \E f : Solution(f, k)}
<1>1. ASSUME NEW f, NEW g, NEW n, n = 0 \/ f[n - 1] = g[n - 1]
      PROVE  Step(f, n) = Step(g, n)
  BY <1>1
<1>2. 0 \notin Bad
  <2> DEFINE f == [n \in 0..0 |-> Step(<<>>, n)]
  <2>1. \A n \in 0..0 : Step(<<>>, n) = Step(f, n)
    <3>. HIDE DEF f, Step
    <3>. QED BY <1>1
  <2>2. f = [n \in 0..0 |-> Step(f, n)]
    <3>. HIDE DEF Step
    <3>. QED BY <2>1
  <2>. HIDE DEF Step, f
  <2>. QED BY <2>2
<1>3. ASSUME NEW k \in 1..m, k - 1 \notin Bad PROVE k \notin Bad
  <2>1. PICK f : Solution(f, k - 1)
    <3>1. k - 1 \in 0..m
      OBVIOUS
    <3>. HIDE DEF Solution
    <3>. QED BY <1>3, <3>1
  <2> DEFINE g == [n \in 0..k |-> Step(f, n)]
  <2>2. \A n \in 0..(k - 1) : g[n] = f[n]
    <3>. HIDE DEF Step
    <3>. QED BY <2>1, <1>3
  <2>3. \A n \in 0..k : Step(f, n) = Step(g, n)
    <3>1. \A n \in 0..k : n = 0 \/ n - 1 \in 0..(k - 1)
      BY <1>3
    <3>. HIDE DEF g, Step
    <3>. QED BY <1>1, <2>2, <3>1
  <2>4. Solution(g, k)
    <3>. HIDE DEF Step
    <3>. QED BY <2>3
  <2>. HIDE DEF Solution, g
  <2>. QED BY <2>4
<1>4. Bad = {}
  <2>1. Bad \in SUBSET (0..m)
    OBVIOUS
  <2>2. m \in Nat
    OBVIOUS
  <2>3. \A n \in 1..m : n \in Bad => n - 1 \in Bad
    <3>. HIDE DEF Bad, m
    <3>. QED BY <1>3
  <2>. HIDE DEF Bad, m
  <2>. QED BY <1>2, <2>1, <2>2, <2>3, UpTo
<1>5. PICK f : Solution(f, m)
  <2>1. m \in 0..m
    OBVIOUS
  <2>. HIDE DEF Solution, m
  <2>. QED BY <1>4, <2>1
<1> DEFINE read == CHOOSE h : Solution(h, m)
<1>6. Solution(read, m)
  <2>. HIDE DEF Solution
  <2>. QED BY <1>5
<1>7. ParsedAll(graph, paths) = read[m]
  BY DEF ParsedAll
<1>8. \A n \in 0..m : read[n] = Step(read, n)
  <2>. HIDE DEF Step, read, m
  <2>. QED BY <1>6
<1>. HIDE DEF read
<1>. QED BY <1>7, <1>8

LEMMA ParsedAllIsGood ==
    ASSUME NEW graph, NEW paths, Len(paths) \in Nat,
           Files \subseteq Locations, IsFiniteSet(Files), GraphGood(graph)
    PROVE  GraphGood(ParsedAll(graph, paths))
<1> DEFINE m == Len(paths)
<1>2. PICK read : /\ ParsedAll(graph, paths) = read[m]
                  /\ \A n \in 0..m : read[n] = IF n = 0 THEN graph ELSE Parsed(read[n - 1], paths[n])
  BY ParsedAllUnfolds
<1> DEFINE Bad == {n \in 0..m : ~GraphGood(read[n])}
<1>1. m \in Nat
  OBVIOUS
<1>. HIDE DEF m
<1>3. 0 \notin Bad
  <2>1. 0 \in 0..m
    BY <1>1
  <2>. QED BY <1>2, <2>1
<1>4. ASSUME NEW n \in 1..m, n - 1 \notin Bad PROVE n \notin Bad
  <2>1. n \in 0..m /\ n - 1 \in 0..m /\ n # 0
    BY <1>1
  <2>2. read[n] = Parsed(read[n - 1], paths[n])
    BY <1>2, <2>1
  <2>3. GraphGood(read[n - 1])
    BY <1>4, <2>1
  <2>. QED BY <2>2, <2>3, ParsedIsGood
<1>5. Bad = {}
  <2>1. Bad \in SUBSET (0..m)
    OBVIOUS
  <2>. HIDE DEF Bad
  <2>. QED BY <1>1, <1>3, <1>4, <2>1, UpTo
<1>6. m \in 0..m
  BY <1>1
<1>. QED BY <1>2, <1>5, <1>6

-----------------------------------------------------------------------------
(* The invariant.                                                            *)

Event == [kind : {"file", "directory", "config"}, path : Locations \cup Directories \cup Deletable,
          deleted : BOOLEAN]

FilesInv == Files \subseteq Locations /\ IsFiniteSet(Files)

\* Only what may be written is there.
SettingsInv ==
    /\ settings \in [Directories -> [Kinds -> Settings]]
    /\ \A d \in Directories, k \in Kinds : <<d, k>> \notin Settable => settings[d][k] = NoFile

EventsInv == events \in Seq(Event) /\ changes \in 0..MaxChanges

NodesInv == dirty \cup outdated \subseteq DOMAIN sourceNodes

CachesInv == CachesGood(State)

ConfigInv == FilesInv /\ SettingsInv /\ EventsInv /\ NodesInv /\ CachesInv

LEMMA ConfigInvImplies == ConfigInv => ConfigurationsAreCurrent
<1>1. SUFFICES ASSUME ConfigInv PROVE ConfigurationsAreCurrent
  OBVIOUS
<1>2. /\ State.configs = configCache /\ State.languages = languageConfigCache /\ State.reported = reported
  BY DEF State, CacheState
<1>3. TypeOK
  BY <1>1, <1>2 DEF TypeOK, ConfigInv, FilesInv, SettingsInv, EventsInv, NodesInv, CachesInv, CachesGood,
                    CachesTyped, Event
<1>4. ASSUME SettingsTold PROVE CachesCurrent(State)
  BY <1>1, <1>4 DEF ConfigInv, CachesInv, CachesGood
<1>5. CachedConfigurationsAreCurrent
  BY <1>2, <1>4 DEF CachedConfigurationsAreCurrent, CachesCurrent, InLanguage
<1>6. BrokenSettingsAreShown
  BY <1>2, <1>4 DEF BrokenSettingsAreShown, CachesCurrent
<1>. QED BY <1>3, <1>5, <1>6 DEF ConfigurationsAreCurrent

LEMMA ConfigInvInit == Init => ConfigInv
<1>1. SUFFICES ASSUME Init PROVE ConfigInv
  OBVIOUS
<1>2. FilesInv
  BY <1>1, DisksAssumption DEF Init, FilesInv, Files
<1>3. SettingsInv
  BY <1>1 DEF Init, SettingsInv, Settings
<1>4. EventsInv
  BY <1>1, ChangesAssumption DEF Init, EventsInv
<1>5. NodesInv
  BY <1>1 DEF Init, NodesInv
<1>6. CachesInv
  <2>1. DOMAIN State.configs = {} /\ DOMAIN State.languages = {} /\ State.reported = {}
    BY <1>1 DEF Init, State, CacheState, EmptyCache
  <2>. QED BY <2>1 DEF CachesInv, CachesGood, CachesTyped, CachesCurrent, AliasesGood
<1>. QED BY <1>2, <1>3, <1>4, <1>5, <1>6 DEF ConfigInv

\* While no configuration file changes, those on disk say the same.
LEMMA ConfigOnDiskKept ==
    ASSUME settings' = settings, NEW d
    PROVE  ConfigOnDisk(d)' = ConfigOnDisk(d)
<1>1. \A e : NamesIn(e)' = NamesIn(e)
  BY DEF NamesIn
<1>2. \A e, n : WrittenIn(e, n)' = WrittenIn(e, n)
  BY DEF WrittenIn
<1>3. \A e, n : AliasIn(e, n)' = AliasIn(e, n)
  BY <1>2 DEF AliasIn
<1>4. \A n : Holders(d, n)' = Holders(d, n)
  BY <1>1 DEF Holders
<1>5. \A n : Nearest(d, n)' = Nearest(d, n)
  BY <1>4 DEF Nearest
<1>. QED BY <1>1, <1>3, <1>5 DEF ConfigOnDisk

\* A step that leaves the files alone, of which the server is not told that one
\* of them was written, and whose caches are good keeps the invariant of them.
LEMMA CachesStayGood ==
    ASSUME NEW state, CachesGood(state), Caches(state), settings' = settings,
           SettingsTold' => SettingsTold, SettingsInv
    PROVE  CachesInv' /\ SettingsInv'
<1>1. /\ State.configs' = state.configs /\ State.languages' = state.languages
      /\ State.reported' = state.reported
  BY DEF Caches, State, CacheState
<1>2. CachesTyped(State)'
  BY <1>1 DEF CachesGood, CachesTyped
<1>3. ASSUME SettingsTold' PROVE CachesCurrent(State)'
  <2>1. CachesCurrent(state)
    BY <1>3 DEF CachesGood
  <2>2. \A d \in DOMAIN State.configs' : State.configs'[d] = ConfigOnDisk(d)'
    BY <1>1, <2>1, ConfigOnDiskKept DEF CachesCurrent
  <2>3. \A key \in DOMAIN State.languages' : State.languages'[key] = InLanguage(key[1], key[2])'
    <3>1. ASSUME NEW key PROVE InLanguage(key[1], key[2])' = InLanguage(key[1], key[2])
      BY ConfigOnDiskKept DEF InLanguage
    <3>. QED BY <1>1, <2>1, <3>1 DEF CachesCurrent
  <2>4. \A d \in DOMAIN State.configs' : settings'[d][".luaurc"].there =>
          (<<d, ".luaurc">> \in State.reported' <=> settings'[d][".luaurc"].broken)
    BY <1>1, <2>1 DEF CachesCurrent
  <2>. QED BY <2>2, <2>3, <2>4 DEF CachesCurrent
<1>4. AliasesGood(State)'
  <2>1. AliasesGood(state)
    BY DEF CachesGood, SettingsInv, SettingsTyped
  <2>. QED BY <1>1, <2>1 DEF AliasesGood
<1>5. CachesInv'
  BY <1>2, <1>3, <1>4 DEF CachesInv, CachesGood
<1>. QED BY <1>5 DEF SettingsInv

-----------------------------------------------------------------------------
(* The events.                                                               *)

LEMMA SetToSeqType ==
    ASSUME NEW S, IsFiniteSet(S)
    PROVE  SetToSeq(S) \in Seq(S)
<1>1. Cardinality(S) \in Nat /\ \E f \in [1..Cardinality(S) -> S] : IsInjective(f)
  <2>1. Cardinality(S) \in Nat /\ ExistsBijection(1..Cardinality(S), S)
    BY FS_CardinalityType
  <2>2. PICK f : f \in Bijection(1..Cardinality(S), S)
    BY <2>1 DEF ExistsBijection
  <2>. QED BY <2>1, <2>2 DEF Bijection, Injection, IsInjective
<1>2. SetToSeq(S) \in [1..Cardinality(S) -> S]
  BY <1>1 DEF SetToSeq
<1>. QED BY <1>1, <1>2

LEMMA PairIsSequence ==
    ASSUME NEW S, NEW a \in S, NEW b \in S
    PROVE  <<a, b>> \in Seq(S)
<1>1. <<a, b>> = Append(Append(<<>>, a), b)
  OBVIOUS
<1>2. <<>> \in Seq(S)
  OBVIOUS
<1>3. Append(<<>>, a) \in Seq(S)
  BY <1>2
<1>. QED BY <1>1, <1>3

\* An event that is no configuration's tells the server of none.
LEMMA AppendEvents ==
    ASSUME NEW more, more \in Seq(Event), events \in Seq(Event), events' = events \o more
    PROVE  events' \in Seq(Event) /\ (SettingsTold' => SettingsTold)
<1>1. /\ events' \in Seq(Event) /\ Len(events) \in Nat /\ Len(more) \in Nat
      /\ \A i \in DOMAIN events : i \in DOMAIN events' /\ events'[i] = events[i]
  OBVIOUS
<1>. QED BY <1>1 DEF SettingsTold

LEMMA AppendEvent ==
    ASSUME NEW e \in Event, events \in Seq(Event), events' = Append(events, e)
    PROVE  events' \in Seq(Event) /\ (SettingsTold' => SettingsTold)
<1>1. /\ events' \in Seq(Event) /\ Len(events) \in Nat
      /\ \A i \in DOMAIN events : i \in DOMAIN events' /\ events'[i] = events[i]
  OBVIOUS
<1>. QED BY <1>1 DEF SettingsTold

LEMMA WrittenIsEvent ==
    ASSUME NEW path \in Locations, NEW deleted \in BOOLEAN
    PROVE  Written(path, deleted) \in Event
BY DEF Written, Event

LEMMA WrittenEvents ==
    ASSUME NEW S, IsFiniteSet(S), S \subseteq Locations
    PROVE  SetToSeq({Written(f, FALSE) : f \in S}) \in Seq(Event)
<1> DEFINE T == {Written(f, FALSE) : f \in S}
           g == [f \in S |-> Written(f, FALSE)]
<1>1. g \in Surjection(S, T)
  BY DEF Surjection
<1>2. IsFiniteSet(T)
  <2>. HIDE DEF g, T
  <2>. QED BY <1>1, FS_Surjection
<1>3. T \subseteq Event
  <2>1. \A f \in S : Written(f, FALSE) \in Event
    BY WrittenIsEvent
  <2>. QED BY <2>1
<1>4. SetToSeq(T) \in Seq(T)
  <2>. HIDE DEF T
  <2>. QED BY <1>2, SetToSeqType
<1>5. Seq(T) \subseteq Seq(Event)
  <2>. HIDE DEF T
  <2>. QED BY <1>3
<1>. QED BY <1>4, <1>5

-----------------------------------------------------------------------------
(* The server's steps.                                                       *)

LEMMA FrontendIsGood ==
    ASSUME ConfigInv
    PROVE  GraphGood(Frontend(State))
<1>1. /\ Frontend(State).state = State /\ Frontend(State).nodes = sourceNodes
      /\ Frontend(State).dirty = dirty
  BY DEF Frontend, Graph
<1>. QED BY <1>1 DEF GraphGood, ConfigInv, CachesInv

\* A step that takes what parsing has found.
LEMMA TakesGood ==
    ASSUME ConfigInv, NEW graph, GraphGood(graph), settings' = settings, SettingsTold' => SettingsTold,
           sourceNodes' = graph.nodes, dirty' = graph.dirty, Caches(graph.state),
           outdated' \subseteq outdated \cup DOMAIN graph.nodes
    PROVE  CachesInv' /\ SettingsInv' /\ NodesInv'
<1>1. CachesInv' /\ SettingsInv'
  <2> DEFINE state == graph.state
  <2>1. CachesGood(state) /\ Caches(state) /\ SettingsInv
    BY DEF GraphGood, ConfigInv
  <2>. HIDE DEF state
  <2>. QED BY <2>1, CachesStayGood
<1>2. DOMAIN sourceNodes \subseteq DOMAIN graph.nodes /\ graph.dirty \subseteq dirty
  BY DEF GraphGood
<1>3. NodesInv'
  BY <1>2 DEF NodesInv, ConfigInv
<1>. QED BY <1>1, <1>3

LEMMA EventsKept ==
    ASSUME UNCHANGED events
    PROVE  SettingsTold' <=> SettingsTold
BY DEF SettingsTold

LEMMA ParseKeeps ==
    ASSUME ConfigInv, NEW p \in Locations, Parse(p)
    PROVE  ConfigInv'
<1> DEFINE graph == Parsed(Frontend(State), p)
<1>1. /\ Take(graph) /\ UNCHANGED <<disk, settings, events, changes>>
  BY DEF Parse
<1>2. GraphGood(graph)
  BY FrontendIsGood, ParsedIsGood DEF ConfigInv, FilesInv
<1>3. CachesInv' /\ SettingsInv' /\ NodesInv'
  <2>1. /\ sourceNodes' = graph.nodes /\ dirty' = graph.dirty /\ Caches(graph.state)
        /\ outdated' \subseteq outdated /\ settings' = settings /\ events' = events
    <3>. HIDE DEF graph
    <3>. QED BY <1>1 DEF Take
  <2>2. SettingsTold' => SettingsTold
    BY <2>1, EventsKept
  <2>. HIDE DEF graph
  <2>. QED BY <1>2, <2>1, <2>2, TakesGood
<1>4. FilesInv' /\ EventsInv'
  BY <1>1 DEF ConfigInv, FilesInv, EventsInv, Files
<1>. QED BY <1>3, <1>4 DEF ConfigInv

\* The reading that is given up has read the directories above.
LEMMA ParseInterruptedKeeps ==
    ASSUME ConfigInv, NEW p \in Locations, NEW d \in Directories, ParseInterrupted(p, d)
    PROVE  ConfigInv'
<1> DEFINE state == IF d = <<>> THEN State ELSE ReadConfigRec(State, Front(d))
<1>1. Caches(state) /\ UNCHANGED <<disk, settings, sourceNodes, dirty, events, changes, outdated>>
  BY DEF ParseInterrupted
<1>2. CachesGood(state)
  BY AboveFront, ReadConfigRecIsGood DEF ConfigInv, CachesInv
<1>3. CachesInv' /\ SettingsInv'
  <2>1. SettingsTold' => SettingsTold
    BY <1>1, EventsKept
  <2>2. settings' = settings /\ Caches(state) /\ SettingsInv
    BY <1>1 DEF ConfigInv
  <2>. HIDE DEF state
  <2>. QED BY <1>2, <2>1, <2>2, CachesStayGood
<1>4. FilesInv' /\ EventsInv' /\ NodesInv'
  BY <1>1 DEF ConfigInv, FilesInv, EventsInv, NodesInv, Files
<1>. QED BY <1>3, <1>4 DEF ConfigInv

LEMMA OnDidChangeWatchedFilesKeeps ==
    ASSUME ConfigInv, OnDidChangeWatchedFiles
    PROVE  ConfigInv'
<1> DEFINE done == [dirty |-> dirty \cup MarkedDirty, deleted |-> DeletedModules]
           told == \E i \in DOMAIN events : events[i].kind = "config"
           nodes == [m \in DOMAIN sourceNodes \ done.deleted |-> sourceNodes[m]]
           state == IF told THEN ClearConfigCache(State) ELSE State
<1>1. /\ Caches(state) /\ sourceNodes' = nodes /\ dirty' = Cleared(done) /\ events' = <<>>
      /\ outdated' = (IF told THEN DOMAIN nodes ELSE outdated \cap DOMAIN nodes)
      /\ UNCHANGED <<disk, settings, changes>>
  BY DEF OnDidChangeWatchedFiles
<1>2. \A m : MarkDirty(sourceNodes, m) \subseteq DOMAIN sourceNodes
  BY DEF MarkDirty, Dependents
<1>3. MarkedDirty \subseteq DOMAIN sourceNodes
  BY <1>2 DEF MarkedDirty
<1>4. NodesInv'
  <2>1. dirty \subseteq DOMAIN sourceNodes
    BY DEF ConfigInv, NodesInv
  <2>2. /\ done.dirty = dirty \cup MarkedDirty
        /\ Cleared(done) \subseteq (done.dirty \cup DOMAIN sourceNodes) \ done.deleted
    BY DEF Cleared, Dependents
  <2>3. DOMAIN nodes = DOMAIN sourceNodes \ done.deleted
    OBVIOUS
  <2>4. outdated' \subseteq DOMAIN nodes
    <3>. HIDE DEF nodes, told
    <3>. QED BY <1>1
  <2>. HIDE DEF nodes, done, told, state
  <2>. QED BY <1>1, <1>3, <2>1, <2>2, <2>3, <2>4 DEF NodesInv
<1>5. CachesInv' /\ SettingsInv'
  <2>1. SettingsInv
    BY DEF ConfigInv
  <2>2. CASE told
    <3>1. CachesTyped(State)
      BY DEF ConfigInv, CachesInv, CachesGood
    <3>2. /\ DOMAIN state.configs = {} /\ DOMAIN state.languages = {} /\ state.reported = State.reported
      BY <2>2 DEF ClearConfigCache, CacheState, EmptyCache
    <3>3. CachesGood(state)
      <4>. HIDE DEF state
      <4>. QED BY <3>1, <3>2 DEF CachesGood, CachesTyped, CachesCurrent, AliasesGood
    <3>4. CachesInv'
      <4>1. /\ State.configs' = state.configs /\ State.languages' = state.languages
            /\ State.reported' = state.reported
        <5>. HIDE DEF state
        <5>. QED BY <1>1 DEF Caches, State, CacheState
      <4>2. CachesTyped(State)'
        <5>. HIDE DEF state
        <5>. QED BY <4>1, <3>3 DEF CachesGood, CachesTyped
      <4>3. CachesCurrent(State)'
        <5>. HIDE DEF state
        <5>. QED BY <4>1, <3>2 DEF CachesCurrent
      <4>4. AliasesGood(State)'
        <5>. HIDE DEF state
        <5>. QED BY <4>1, <3>2 DEF AliasesGood
      <4>. QED BY <4>2, <4>3, <4>4 DEF CachesInv, CachesGood
    <3>. QED BY <3>4, <2>1, <1>1 DEF SettingsInv
  <2>3. CASE ~told
    <3>1. SettingsTold
      BY <2>3 DEF SettingsTold
    <3>2. CachesGood(state) /\ Caches(state) /\ settings' = settings
      BY <2>3, <1>1 DEF ConfigInv, CachesInv
    <3>. HIDE DEF state
    <3>. QED BY <2>1, <3>1, <3>2, CachesStayGood
  <2>. QED BY <2>2, <2>3
<1>6. FilesInv' /\ EventsInv'
  <2>. HIDE DEF state, nodes, done, told
  <2>. QED BY <1>1 DEF ConfigInv, FilesInv, EventsInv, Files
<1>. QED BY <1>4, <1>5, <1>6 DEF ConfigInv

\* A renaming parses what requires the file that is renamed, and tells of files only.
LEMMA RenameFilesKeeps ==
    ASSUME ConfigInv, NEW r \in Renamable, RenameFiles(r[1], r[2])
    PROVE  ConfigInv'
<1> DEFINE old == r[1]
           new == r[2]
           modules == RewrittenModules(Renaming(old, new)) \cap Files
           graph == ParsedAll(Frontend(State), SetToSeq(modules))
           texts == TextsAfter(WillRenameFiles(graph, Renaming(old, new)))
           edited == {f \in Files \ {old} : texts[f] # disk[f]}
<1>1. /\ changes < MaxChanges /\ old \in Files /\ changes' = changes + 1 /\ UNCHANGED settings
      /\ sourceNodes' = graph.nodes /\ dirty' = graph.dirty /\ Caches(graph.state)
      /\ MoveFile(old, new, texts, edited)
  BY DEF RenameFiles, WillRename, RewriteAndMove
<1>2. Files \subseteq Locations /\ IsFiniteSet(Files) /\ new \in Locations
  BY DEF ConfigInv, FilesInv, Locations
<1>3. GraphGood(graph)
  <2>1. IsFiniteSet(modules)
    <3>1. modules \in SUBSET Files
      OBVIOUS
    <3>. HIDE DEF modules
    <3>. QED BY <1>2, <3>1, FS_Subset
  <2>2. Len(SetToSeq(modules)) \in Nat
    <3>. HIDE DEF modules
    <3>. QED BY <2>1, SetToSeqType
  <2>. HIDE DEF modules
  <2>. QED BY <1>2, <2>2, FrontendIsGood, ParsedAllIsGood
<1>. HIDE DEF graph
<1> DEFINE written == SetToSeq({Written(f, FALSE) : f \in edited})
           moved == <<Written(old, TRUE), Written(new, FALSE)>>
<1>4. /\ DOMAIN disk' = (Files \ {old}) \cup {new}
      /\ events' = events \o written \o moved
      /\ outdated' = (outdated \cup DOMAIN graph.nodes) \ edited
  <2>. HIDE DEF texts, edited
  <2>. QED BY <1>1 DEF MoveFile
<1>5. events' \in Seq(Event) /\ (SettingsTold' => SettingsTold)
  <2>1. written \in Seq(Event)
    <3>1. edited \in SUBSET Files
      OBVIOUS
    <3>. HIDE DEF edited
    <3>2. IsFiniteSet(edited) /\ edited \subseteq Locations
      BY <1>2, <3>1, FS_Subset
    <3>. QED BY <3>2, WrittenEvents
  <2>2. moved \in Seq(Event)
    <3>1. Written(old, TRUE) \in Event /\ Written(new, FALSE) \in Event
      BY <1>1, <1>2, WrittenIsEvent
    <3>. QED BY <3>1, PairIsSequence
  <2>3. events \in Seq(Event)
    BY DEF ConfigInv, EventsInv
  <2>. HIDE DEF written, moved
  <2>4. events' = events \o (written \o moved) /\ written \o moved \in Seq(Event)
    BY <1>4, <2>1, <2>2, <2>3
  <2>. QED BY <2>3, <2>4, AppendEvents
<1>6. CachesInv' /\ SettingsInv' /\ NodesInv'
  <2>1. outdated' \subseteq outdated \cup DOMAIN graph.nodes
    <3>. HIDE DEF edited
    <3>. QED BY <1>4
  <2>2. settings' = settings /\ (SettingsTold' => SettingsTold)
    BY <1>1, <1>5
  <2>. HIDE DEF texts, edited
  <2>. QED BY <1>1, <1>3, <2>1, <2>2, TakesGood
<1>7. FilesInv'
  <2>1. Files' = (Files \ {old}) \cup {new}
    BY <1>4 DEF Files
  <2>2. IsFiniteSet((Files \ {old}) \cup {new})
    BY <1>2, FS_RemoveElement, FS_AddElement
  <2>. QED BY <1>2, <2>1, <2>2 DEF FilesInv
<1>8. EventsInv'
  <2>1. changes \in 0..MaxChanges /\ MaxChanges \in Nat /\ changes < MaxChanges /\ changes' = changes + 1
    BY <1>1, ChangesAssumption DEF ConfigInv, EventsInv
  <2>2. changes' \in 0..MaxChanges
    BY <2>1
  <2>. QED BY <1>5, <2>2 DEF EventsInv
<1>. QED BY <1>6, <1>7, <1>8 DEF ConfigInv

-----------------------------------------------------------------------------
(* The steps of the world outside.                                           *)

\* A step that writes or deletes files and tells of it, and changes nothing that
\* the server has.
LEMMA FilesChange ==
    ASSUME ConfigInv, NEW e \in Event, events' = Append(events, e), settings' = settings, UNCHANGED Server,
           changes < MaxChanges, changes' = changes + 1, FilesInv', outdated' \subseteq DOMAIN sourceNodes
    PROVE  ConfigInv'
<1>1. events' \in Seq(Event) /\ (SettingsTold' => SettingsTold)
  BY AppendEvent DEF ConfigInv, EventsInv
<1>2. EventsInv'
  <2>1. changes \in 0..MaxChanges /\ MaxChanges \in Nat
    BY ChangesAssumption DEF ConfigInv, EventsInv
  <2>2. changes' \in 0..MaxChanges
    BY <2>1
  <2>. QED BY <1>1, <2>2 DEF EventsInv
<1>3. Caches(State) /\ CachesGood(State) /\ SettingsInv
  BY DEF Caches, State, CacheState, Server, ConfigInv, CachesInv
<1>4. CachesInv' /\ SettingsInv'
  BY <1>1, <1>3, CachesStayGood
<1>5. NodesInv'
  BY DEF NodesInv, ConfigInv, Server
<1>. QED BY <1>2, <1>4, <1>5 DEF ConfigInv

LEMMA WriteFileKeeps ==
    ASSUME ConfigInv, NEW p \in Paths, NEW s \in Requirable, WriteFile(p, s)
    PROVE  ConfigInv'
<1> DEFINE e == [kind |-> "file", path |-> p, deleted |-> FALSE]
<1>1. /\ events' = Append(events, e) /\ settings' = settings /\ UNCHANGED Server
      /\ changes < MaxChanges /\ changes' = changes + 1 /\ disk' = With(disk, p, s)
      /\ outdated' = IF p \in Files THEN outdated ELSE outdated \cup DOMAIN sourceNodes
  BY DEF WriteFile
<1>2. e \in Event
  BY DEF Event, Locations
<1>3. FilesInv'
  <2>1. Files' = Files \cup {p}
    BY <1>1 DEF Files, With
  <2>2. Files \subseteq Locations /\ IsFiniteSet(Files) /\ p \in Locations
    BY DEF ConfigInv, FilesInv, Locations
  <2>3. IsFiniteSet(Files \cup {p})
    BY <2>2, FS_AddElement
  <2>. QED BY <2>1, <2>2, <2>3 DEF FilesInv
<1>4. outdated' \subseteq DOMAIN sourceNodes
  BY <1>1 DEF ConfigInv, NodesInv
<1>. HIDE DEF e
<1>. QED BY <1>1, <1>2, <1>3, <1>4, FilesChange

LEMMA DeleteFileKeeps ==
    ASSUME ConfigInv, NEW p \in Paths, DeleteFile(p)
    PROVE  ConfigInv'
<1> DEFINE e == [kind |-> "file", path |-> p, deleted |-> TRUE]
<1>1. /\ events' = Append(events, e) /\ settings' = settings /\ UNCHANGED Server
      /\ changes < MaxChanges /\ changes' = changes + 1
      /\ disk' = [f \in Files \ {p} |-> disk[f]]
      /\ outdated' = DOMAIN sourceNodes \/ outdated' = outdated
  BY DEF DeleteFile, Delete
<1>2. e \in Event
  BY DEF Event, Locations
<1>3. FilesInv'
  <2>1. Files' = Files \ {p}
    BY <1>1 DEF Files
  <2>2. Files \subseteq Locations /\ IsFiniteSet(Files)
    BY DEF ConfigInv, FilesInv
  <2>3. IsFiniteSet(Files \ {p})
    BY <2>2, FS_RemoveElement
  <2>. QED BY <2>1, <2>2, <2>3 DEF FilesInv
<1>4. outdated' \subseteq DOMAIN sourceNodes
  BY <1>1 DEF ConfigInv, NodesInv
<1>. HIDE DEF e
<1>. QED BY <1>1, <1>2, <1>3, <1>4, FilesChange

\* No configuration is below a directory that is deleted as a whole: the event of
\* it is not one of a configuration.
ConfigurationsStay == \A d \in Deletable, w \in Settable : ~IsPrefix(d, w[1])

LEMMA DeletedSettingsStay ==
    ASSUME ConfigInv, ConfigurationsStay, NEW path \in Deletable, DeleteDirectory(path)
    PROVE  settings' = settings
<1>1. settings' = [d \in Directories |-> IF IsPrefix(path, d) THEN [k \in Kinds |-> NoFile] ELSE settings[d]]
  BY DEF DeleteDirectory
<1>2. SettingsInv
  BY DEF ConfigInv
<1>3. ASSUME NEW d \in Directories, IsPrefix(path, d)
      PROVE  settings[d] = [k \in Kinds |-> NoFile]
  <2>1. \A k \in Kinds : <<d, k>> \notin Settable
    <3>1. SUFFICES ASSUME NEW k \in Kinds, <<d, k>> \in Settable PROVE FALSE
      OBVIOUS
    <3>2. ~IsPrefix(path, <<d, k>>[1])
      BY <3>1 DEF ConfigurationsStay
    <3>. QED BY <3>2, <1>3
  <2>2. \A k \in Kinds : settings[d][k] = NoFile
    BY <1>2, <2>1 DEF SettingsInv
  <2>3. settings[d] \in [Kinds -> Settings]
    BY <1>2 DEF SettingsInv
  <2>. QED BY <2>2, <2>3
<1>4. settings = [d \in Directories |-> settings[d]]
  BY <1>2 DEF SettingsInv
<1>. QED BY <1>1, <1>3, <1>4

LEMMA DeleteDirectoryKeeps ==
    ASSUME ConfigInv, ConfigurationsStay, NEW path \in Deletable, DeleteDirectory(path)
    PROVE  ConfigInv'
<1> DEFINE e == [kind |-> "directory", path |-> path, deleted |-> TRUE]
           kept == Files \ {f \in Files : IsPrefix(path, f)}
<1>1. /\ events' = Append(events, e) /\ UNCHANGED Server
      /\ changes < MaxChanges /\ changes' = changes + 1
      /\ disk' = [f \in kept |-> disk[f]]
      /\ outdated' = DOMAIN sourceNodes \/ outdated' = outdated
  BY DEF DeleteDirectory, Delete
<1>2. e \in Event
  BY DEF Event
<1>3. FilesInv'
  <2>1. Files' = kept /\ kept \in SUBSET Files
    BY <1>1 DEF Files
  <2>2. Files \subseteq Locations /\ IsFiniteSet(Files)
    BY DEF ConfigInv, FilesInv
  <2>3. IsFiniteSet(kept)
    <3>. HIDE DEF kept
    <3>. QED BY <2>1, <2>2, FS_Subset
  <2>. HIDE DEF kept
  <2>. QED BY <2>1, <2>2, <2>3 DEF FilesInv
<1>4. settings' = settings
  BY DeletedSettingsStay
<1>5. outdated' \subseteq DOMAIN sourceNodes
  BY <1>1 DEF ConfigInv, NodesInv
<1>. HIDE DEF e
<1>. QED BY <1>1, <1>2, <1>3, <1>4, <1>5, FilesChange

\* Once a configuration is written the server has to be told of it before what it
\* keeps is current again.
LEMMA WriteSettingKeeps ==
    ASSUME ConfigInv, NEW w \in Settable, NEW s \in Settings, WriteSetting(w[1], w[2], s)
    PROVE  ConfigInv'
<1> DEFINE e == [kind |-> "config", path |-> w[1], deleted |-> ~s.there]
<1>0. w[1] \in Directories /\ w[2] \in Kinds /\ w = <<w[1], w[2]>>
  BY ChangesAssumption
<1>1. /\ events' = Append(events, e) /\ UNCHANGED Server /\ disk' = disk /\ outdated' = outdated
      /\ changes < MaxChanges /\ changes' = changes + 1
      /\ settings' = [settings EXCEPT ![w[1]][w[2]] = s]
  BY DEF WriteSetting
<1>2. e \in Event
  BY <1>0 DEF Event
<1>3. events \in Seq(Event) /\ events' \in Seq(Event) /\ ~SettingsTold'
  <2>1. events \in Seq(Event)
    BY DEF ConfigInv, EventsInv
  <2>2. e.kind = "config"
    OBVIOUS
  <2>. HIDE DEF e
  <2>3. /\ events' \in Seq(Event) /\ Len(events) + 1 \in DOMAIN events'
        /\ events'[Len(events) + 1] = e
    BY <1>1, <1>2, <2>1
  <2>. QED BY <2>1, <2>2, <2>3 DEF SettingsTold
<1>4. EventsInv'
  <2>1. changes \in 0..MaxChanges /\ MaxChanges \in Nat
    BY ChangesAssumption DEF ConfigInv, EventsInv
  <2>2. changes' \in 0..MaxChanges
    BY <1>1, <2>1
  <2>. QED BY <1>3, <2>2 DEF EventsInv
<1>5. SettingsInv'
  <2>1. SettingsInv
    BY DEF ConfigInv
  <2>2. settings' \in [Directories -> [Kinds -> Settings]]
    BY <1>0, <1>1, <2>1 DEF SettingsInv
  <2>3. ASSUME NEW d \in Directories, NEW k \in Kinds, <<d, k>> \notin Settable
        PROVE  settings'[d][k] = NoFile
    <3>1. d # w[1] \/ k # w[2]
      BY <1>0, <2>3
    <3>2. settings'[d][k] = settings[d][k]
      BY <1>0, <1>1, <2>1, <3>1 DEF SettingsInv
    <3>. QED BY <2>1, <2>3, <3>2 DEF SettingsInv
  <2>. QED BY <2>2, <2>3 DEF SettingsInv
<1>6. CachesInv'
  <2>1. CachesTyped(State)
    BY DEF ConfigInv, CachesInv, CachesGood
  <2>2. State' = State
    BY <1>1 DEF State, Server
  <2>3. CachesTyped(State)'
    BY <2>1, <2>2 DEF CachesTyped
  <2>4. AliasesGood(State)'
    <3>1. AliasesGood(State)
      BY DEF ConfigInv, CachesInv, CachesGood, SettingsInv, SettingsTyped
    <3>. QED BY <2>2, <3>1 DEF AliasesGood
  <2>. QED BY <1>3, <2>3, <2>4 DEF CachesInv, CachesGood
<1>7. FilesInv' /\ NodesInv'
  BY <1>1 DEF ConfigInv, FilesInv, NodesInv, Files, Server
<1>. QED BY <1>4, <1>5, <1>6, <1>7 DEF ConfigInv

-----------------------------------------------------------------------------
(* The theorem.                                                              *)

LEMMA ConfigInvNext ==
    ASSUME ConfigurationsStay, ConfigInv, [Next]_vars
    PROVE  ConfigInv'
<1>1. CASE \E p \in Locations : Parse(p)
  BY <1>1, ParseKeeps
<1>2. CASE \E p \in Locations, d \in Directories : ParseInterrupted(p, d)
  BY <1>2, ParseInterruptedKeeps
<1>3. CASE OnDidChangeWatchedFiles
  BY <1>3, OnDidChangeWatchedFilesKeeps
<1>4. CASE \E r \in Renamable : RenameFiles(r[1], r[2])
  BY <1>4, RenameFilesKeeps
<1>5. CASE \E p \in Paths, s \in Requirable : WriteFile(p, s)
  BY <1>5, WriteFileKeeps
<1>6. CASE \E p \in Paths : DeleteFile(p)
  BY <1>6, DeleteFileKeeps
<1>7. CASE \E d \in Deletable : DeleteDirectory(d)
  BY <1>7, DeleteDirectoryKeeps
<1>8. CASE \E w \in Settable, s \in Settings : WriteSetting(w[1], w[2], s)
  BY <1>8, WriteSettingKeeps
<1>9. CASE UNCHANGED vars
  <2>1. /\ FilesInv' /\ EventsInv' /\ NodesInv'
    BY <1>9 DEF ConfigInv, FilesInv, EventsInv, NodesInv, Files, vars
  <2>2. Caches(State) /\ CachesGood(State) /\ SettingsInv /\ settings' = settings
    BY <1>9 DEF Caches, State, CacheState, vars, ConfigInv, CachesInv
  <2>3. SettingsTold' => SettingsTold
    BY <1>9, EventsKept DEF vars
  <2>4. CachesInv' /\ SettingsInv'
    BY <2>2, <2>3, CachesStayGood
  <2>. QED BY <2>1, <2>4 DEF ConfigInv
<1>. QED BY <1>1, <1>2, <1>3, <1>4, <1>5, <1>6, <1>7, <1>8, <1>9 DEF Next

\* What the server has cached of the configuration files, and the errors of them
\* that the client shows, are what the files hold once the server is told of every
\* one that was written (WorkspaceFileResolver::readConfigRec, getConfig,
\* clearConfigCache): whatever files, directories, aliases and renamings there are,
\* while no directory with a configuration in it is deleted as a whole.
THEOREM CachedConfigurationsStayCurrent ==
    ASSUME ConfigurationsStay
    PROVE  Spec => []ConfigurationsAreCurrent
<1>1. ConfigInv /\ [Next]_vars => ConfigInv'
  BY ConfigInvNext
<1>. QED BY <1>1, ConfigInvInit, ConfigInvImplies, PTL DEF Spec

\* The elements of a set in some order, each of them once.
LEMMA SetToSeqIs ==
    ASSUME NEW S, IsFiniteSet(S)
    PROVE  /\ SetToSeq(S) \in Seq(S) /\ Len(SetToSeq(S)) = Cardinality(S) /\ Cardinality(S) \in Nat
           /\ ToSet(SetToSeq(S)) = S
<1> DEFINE n == Cardinality(S)
           f == SetToSeq(S)
<1>1. n \in Nat /\ \E g \in [1..n -> S] : IsInjective(g)
  <2>1. n \in Nat /\ ExistsBijection(1..n, S)
    BY FS_CardinalityType
  <2>2. PICK g : g \in Bijection(1..n, S)
    BY <2>1 DEF ExistsBijection
  <2>. QED BY <2>1, <2>2 DEF Bijection, Injection, IsInjective
<1>2. f \in [1..n -> S] /\ IsInjective(f)
  BY <1>1 DEF SetToSeq
<1>3. IsFiniteSet(1..n) /\ Cardinality(1..n) = n
  <2>1. Cardinality(1..n) = IF 1 > n THEN 0 ELSE n - 1 + 1
    BY <1>1, FS_Interval
  <2>2. IsFiniteSet(1..n)
    BY <1>1, FS_Interval
  <2>. HIDE DEF n
  <2>. QED BY <1>1, <2>1, <2>2
<1>. HIDE DEF f, n
<1>4. f \in Injection(1..n, S)
  BY <1>2 DEF Injection
<1>5. f \in Surjection(1..n, S)
  BY <1>3, <1>4, FS_Injection DEF n
<1>6. f \in Seq(S) /\ Len(f) = n /\ DOMAIN f = 1..n
  BY <1>1, <1>2
<1>7. ToSet(f) = S
  BY <1>2, <1>5, <1>6 DEF ToSet, Surjection
<1>. QED BY <1>1, <1>6, <1>7 DEF f, n

-----------------------------------------------------------------------------
(* The graph of requires.                                                    *)

Reachable(requires, root) == (DOMAIN requires) \cup (UNION {requires[m] : m \in DOMAIN requires}) \cup {root}

\* What is known of the modules looked at after a number of visits: each is there
\* once, what they require is there or waits, and no more waits than the requires
\* that were not followed yet.
Searched(requires, root, seen, queue, n) ==
    /\ seen \in Seq(Reachable(requires, root)) /\ queue \in Seq(Reachable(requires, root))
    /\ \A i, j \in DOMAIN seen : seen[i] = seen[j] => i = j
    /\ root \in ToSet(seen) \/ root \in ToSet(queue)
    /\ \A e \in Edges(requires, ToSet(seen)) : e[2] \in ToSet(seen) \cup ToSet(queue)
    /\ queue = <<>> \/ n + Len(queue) <= 1 + Cardinality(Edges(requires, ToSet(seen)))

FiniteRequires(requires) ==
    IsFiniteSet(DOMAIN requires) /\ \A m \in DOMAIN requires : IsFiniteSet(requires[m])

LEMMA EdgesFinite ==
    ASSUME NEW requires, FiniteRequires(requires), NEW S
    PROVE  /\ IsFiniteSet(Edges(requires, S)) /\ Cardinality(Edges(requires, S)) \in Nat
           /\ Cardinality(Edges(requires, S)) <= Cardinality(Edges(requires, DOMAIN requires))
<1> DEFINE all == Edges(requires, DOMAIN requires)
<1>1. IsFiniteSet(all)
  <2> DEFINE targets == UNION {requires[k] : k \in DOMAIN requires}
             sets == {requires[k] : k \in DOMAIN requires}
             g == [k \in DOMAIN requires |-> requires[k]]
  <2>1. g \in Surjection(DOMAIN requires, sets)
    BY DEF Surjection
  <2>2. IsFiniteSet(sets)
    <3>. HIDE DEF g, sets
    <3>. QED BY <2>1, FS_Surjection DEF FiniteRequires
  <2>3. \A T \in sets : IsFiniteSet(T)
    BY DEF FiniteRequires
  <2>4. IsFiniteSet(targets)
    <3>1. targets = UNION sets
      OBVIOUS
    <3>. HIDE DEF sets, targets
    <3>. QED BY <2>2, <2>3, <3>1, FS_UNION
  <2>5. IsFiniteSet((DOMAIN requires) \X targets)
    <3> DEFINE D == DOMAIN requires
    <3>1. IsFiniteSet(D)
      BY DEF FiniteRequires
    <3>. HIDE DEF targets, D
    <3>2. IsFiniteSet(D \X targets)
      BY <2>4, <3>1, FS_Product
    <3>. QED BY <3>2 DEF D
  <2>6. all \in SUBSET ((DOMAIN requires) \X targets)
    <3>1. ASSUME NEW e \in all PROVE e \in (DOMAIN requires) \X targets
      <4>1. PICK k \in DOMAIN requires : e \in {<<k, t>> : t \in requires[k]}
        BY DEF Edges
      <4>2. PICK t \in requires[k] : e = <<k, t>>
        BY <4>1
      <4>3. t \in targets
        BY <4>2
      <4>. QED BY <4>1, <4>2, <4>3
    <3>. QED BY <3>1
  <2>. HIDE DEF all, targets
  <2>. QED BY <2>5, <2>6, FS_Subset
<1>2. Edges(requires, S) \in SUBSET all
  BY DEF Edges
<1>. HIDE DEF all
<1>3. /\ IsFiniteSet(Edges(requires, S))
      /\ Cardinality(Edges(requires, S)) <= Cardinality(all)
  BY <1>1, <1>2, FS_Subset
<1>. QED BY <1>3, FS_CardinalityType DEF all

\* The requires of one module more are as many more.
LEMMA EdgesGrow ==
    ASSUME NEW requires, FiniteRequires(requires), NEW S, NEW m, m \notin S
    PROVE  /\ m \in DOMAIN requires =>
                Cardinality(Edges(requires, S \cup {m})) >= Cardinality(Edges(requires, S)) + Cardinality(requires[m])
           /\ m \notin DOMAIN requires => Edges(requires, S \cup {m}) = Edges(requires, S)
<1> DEFINE Of(k) == {<<k, t>> : t \in requires[k]}
<1>3. ASSUME m \in DOMAIN requires
      PROVE  Cardinality(Edges(requires, S \cup {m})) >= Cardinality(Edges(requires, S)) + Cardinality(requires[m])
  <2>1. /\ Edges(requires, S \cup {m}) = Edges(requires, S) \cup Of(m)
        /\ Edges(requires, S) \cap Of(m) = {}
        /\ Edges(requires, {m}) = Of(m)
    BY <1>3 DEF Edges
  <2>2. IsFiniteSet(Of(m)) /\ Cardinality(Of(m)) \in Nat
    BY <2>1, EdgesFinite
  <2>3. Cardinality(requires[m]) <= Cardinality(Of(m)) /\ Cardinality(requires[m]) \in Nat
    <3> DEFINE h == [e \in Of(m) |-> e[2]]
    <3>1. h \in Surjection(Of(m), requires[m])
      <4>1. \A t \in requires[m] : <<m, t>> \in Of(m) /\ h[<<m, t>>] = t
        OBVIOUS
      <4>. QED BY <4>1 DEF Surjection
    <3>2. IsFiniteSet(requires[m])
      BY <1>3 DEF FiniteRequires
    <3>. HIDE DEF h, Of
    <3>. QED BY <3>1, <3>2, <2>2, FS_Surjection, FS_CardinalityType
  <2>4. Cardinality(Edges(requires, S) \cap Of(m)) = 0
    BY <2>1, FS_EmptySet
  <2>5. Cardinality(Edges(requires, S) \cup Of(m)) =
          Cardinality(Edges(requires, S)) + Cardinality(Of(m)) - Cardinality(Edges(requires, S) \cap Of(m))
    <3>. HIDE DEF Of
    <3>. QED BY EdgesFinite, <2>2, FS_Union
  <2> DEFINE a == Cardinality(Edges(requires, S))
             b == Cardinality(Of(m))
             c == Cardinality(Edges(requires, S \cup {m}))
  <2>6. c = a + b - 0 /\ a \in Nat
    <3>. HIDE DEF Of
    <3>. QED BY EdgesFinite, <2>1, <2>4, <2>5
  <2>. HIDE DEF Of, a, b, c
  <2>7. c >= a + Cardinality(requires[m])
    BY <2>2, <2>3, <2>6 DEF b
  <2>. QED BY <2>7 DEF a, c
<1>4. m \notin DOMAIN requires => Edges(requires, S \cup {m}) = Edges(requires, S)
  BY DEF Edges
<1>. QED BY <1>3, <1>4

LEMMA EdgesIn ==
    ASSUME NEW requires, NEW S, NEW e
    PROVE  e \in Edges(requires, S) <=>
             \E m \in DOMAIN requires : m \in S /\ \E t \in requires[m] : e = <<m, t>>
BY DEF Edges

LEMMA ToSetOfSequence ==
    ASSUME NEW s, NEW A, s \in Seq(A)
    PROVE  /\ \A x : x \in ToSet(s) <=> \E i \in 1..Len(s) : s[i] = x
           /\ ToSet(s) \subseteq A
           /\ s # <<>> => /\ Head(s) \in A /\ Tail(s) \in Seq(A) /\ Len(Tail(s)) = Len(s) - 1
                          /\ ToSet(s) = {Head(s)} \cup ToSet(Tail(s))
<1>1. /\ \A x : x \in ToSet(s) <=> \E i \in 1..Len(s) : s[i] = x
      /\ ToSet(s) \subseteq A
  BY DEF ToSet
<1>2. ASSUME s # <<>>
      PROVE  /\ Head(s) \in A /\ Tail(s) \in Seq(A) /\ Len(Tail(s)) = Len(s) - 1
             /\ ToSet(s) = {Head(s)} \cup ToSet(Tail(s))
  <2>1. /\ Head(s) = s[1] /\ Tail(s) \in Seq(A) /\ Len(Tail(s)) = Len(s) - 1 /\ Len(s) \in Nat /\ Len(s) >= 1
        /\ \A i \in 1..(Len(s) - 1) : Tail(s)[i] = s[i + 1]
    BY <1>2
  <2>2. \A x : x \in ToSet(Tail(s)) <=> \E i \in 1..(Len(s) - 1) : s[i + 1] = x
    <3>1. DOMAIN Tail(s) = 1..(Len(s) - 1)
      BY <2>1
    <3>. QED BY <2>1, <3>1 DEF ToSet
  <2>3. ASSUME NEW x \in ToSet(s) PROVE x = Head(s) \/ x \in ToSet(Tail(s))
    <3>1. PICK i \in 1..Len(s) : s[i] = x
      BY <1>1
    <3>2. i = 1 \/ (i - 1 \in 1..(Len(s) - 1) /\ (i - 1) + 1 = i)
      BY <2>1
    <3>. QED BY <2>1, <2>2, <3>1, <3>2
  <2>4. ASSUME NEW x, x = Head(s) \/ x \in ToSet(Tail(s)) PROVE x \in ToSet(s)
    <3>1. CASE x = Head(s)
      <4>1. 1 \in 1..Len(s)
        BY <2>1
      <4>. QED BY <1>1, <2>1, <3>1, <4>1
    <3>2. CASE x \in ToSet(Tail(s))
      <4>1. PICK i \in 1..(Len(s) - 1) : s[i + 1] = x
        BY <2>2, <3>2
      <4>2. i + 1 \in 1..Len(s)
        BY <2>1
      <4>. QED BY <1>1, <4>1, <4>2
    <3>. QED BY <2>4, <3>1, <3>2
  <2>. QED BY <2>1, <2>3, <2>4
<1>. QED BY <1>1, <1>2

LEMMA ToSetOfJoined ==
    ASSUME NEW A, NEW s \in Seq(A), NEW t \in Seq(A), NEW x \in A
    PROVE  /\ s \o t \in Seq(A) /\ Len(s \o t) = Len(s) + Len(t) /\ ToSet(s \o t) = ToSet(s) \cup ToSet(t)
           /\ Append(s, x) \in Seq(A) /\ Len(Append(s, x)) = Len(s) + 1 /\ ToSet(Append(s, x)) = ToSet(s) \cup {x}
<1>1. /\ s \o t \in Seq(A) /\ Len(s \o t) = Len(s) + Len(t) /\ Len(s) \in Nat /\ Len(t) \in Nat
      /\ \A i \in 1..Len(s) : (s \o t)[i] = s[i]
      /\ \A i \in 1..Len(t) : (s \o t)[Len(s) + i] = t[i]
  OBVIOUS
<1>2. /\ Append(s, x) \in Seq(A) /\ Len(Append(s, x)) = Len(s) + 1
      /\ \A i \in 1..Len(s) : Append(s, x)[i] = s[i]
      /\ Append(s, x)[Len(s) + 1] = x
  OBVIOUS
<1>3. ASSUME NEW y PROVE y \in ToSet(s \o t) <=> y \in ToSet(s) \/ y \in ToSet(t)
  <2> DEFINE j == s \o t
  <2>0. /\ \A z : z \in ToSet(s) <=> \E i \in 1..Len(s) : s[i] = z
        /\ \A z : z \in ToSet(t) <=> \E i \in 1..Len(t) : t[i] = z
        /\ \A z : z \in ToSet(j) <=> \E i \in 1..Len(j) : j[i] = z
    <3>1. j \in Seq(A)
      BY <1>1
    <3>. HIDE DEF j
    <3>. QED BY <3>1, ToSetOfSequence
  <2>. HIDE DEF j
  <2>1. ASSUME y \in ToSet(j) PROVE y \in ToSet(s) \/ y \in ToSet(t)
    <3>1. PICK i \in 1..Len(j) : j[i] = y
      BY <2>0, <2>1
    <3>2. i \in 1..Len(s) \/ (i - Len(s) \in 1..Len(t) /\ Len(s) + (i - Len(s)) = i)
      BY <1>1 DEF j
    <3>. QED BY <1>1, <2>0, <3>1, <3>2 DEF j
  <2>2. ASSUME y \in ToSet(s) PROVE y \in ToSet(j)
    <3>1. PICK i \in 1..Len(s) : s[i] = y
      BY <2>0, <2>2
    <3>2. i \in 1..Len(j) /\ j[i] = y
      BY <1>1, <3>1 DEF j
    <3>. QED BY <2>0, <3>2
  <2>3. ASSUME y \in ToSet(t) PROVE y \in ToSet(j)
    <3>1. PICK i \in 1..Len(t) : t[i] = y
      BY <2>0, <2>3
    <3>2. Len(s) + i \in 1..Len(j) /\ j[Len(s) + i] = y
      BY <1>1, <3>1 DEF j
    <3>. QED BY <2>0, <3>2
  <2>. QED BY <2>1, <2>2, <2>3 DEF j
<1>4. ASSUME NEW y PROVE y \in ToSet(Append(s, x)) <=> y \in ToSet(s) \/ y = x
  <2>0. /\ \A z : z \in ToSet(s) <=> \E i \in 1..Len(s) : s[i] = z
        /\ \A z : z \in ToSet(Append(s, x)) <=> \E i \in 1..(Len(s) + 1) : Append(s, x)[i] = z
    BY <1>2, ToSetOfSequence
  <2>1. \A i \in 1..(Len(s) + 1) : i \in 1..Len(s) \/ i = Len(s) + 1
    BY <1>1
  <2>2. Len(s) + 1 \in 1..(Len(s) + 1) /\ \A i \in 1..Len(s) : i \in 1..(Len(s) + 1)
    BY <1>1
  <2>. QED BY <1>2, <2>0, <2>1, <2>2
<1>. QED BY <1>1, <1>2, <1>3, <1>4

LEMMA VisitKeeps ==
    ASSUME NEW requires, FiniteRequires(requires), NEW root, NEW search, NEW n \in Nat,
           Searched(requires, root, search.seen, search.queue, n)
    PROVE  Searched(requires, root, Visit(requires, search).seen, Visit(requires, search).queue, n + 1)
<1> DEFINE seen == search.seen
           queue == search.queue
           modules == Reachable(requires, root)
           next == Visit(requires, search)
<1>1. /\ seen \in Seq(modules) /\ queue \in Seq(modules)
      /\ \A i, j \in DOMAIN seen : seen[i] = seen[j] => i = j
      /\ root \in ToSet(seen) \/ root \in ToSet(queue)
      /\ \A e \in Edges(requires, ToSet(seen)) : e[2] \in ToSet(seen) \cup ToSet(queue)
      /\ queue = <<>> \/ n + Len(queue) <= 1 + Cardinality(Edges(requires, ToSet(seen)))
  BY DEF Searched
<1>2. CASE queue = <<>>
  <2>1. next = search
    BY <1>2 DEF Visit
  <2>. QED BY <1>1, <1>2, <2>1 DEF Searched
<1>3. CASE queue # <<>>
  <2> DEFINE m == Head(queue)
             rest == Tail(queue)
  <2>. HIDE DEF modules
  <2>1. /\ m \in modules /\ rest \in Seq(modules) /\ Len(rest) = Len(queue) - 1
        /\ ToSet(queue) = {m} \cup ToSet(rest) /\ Len(queue) \in Nat
    BY <1>1, <1>3, ToSetOfSequence
  <2>2. CASE m \in ToSet(seen)
    <3>1. next.seen = seen /\ next.queue = rest
      BY <1>3, <2>2 DEF Visit
    <3>2. Cardinality(Edges(requires, ToSet(seen))) \in Nat
      BY EdgesFinite
    <3>3. (n + 1) + Len(rest) <= 1 + Cardinality(Edges(requires, ToSet(seen)))
      <4> DEFINE a == Cardinality(Edges(requires, ToSet(seen)))
      <4>1. n + Len(queue) <= 1 + a /\ a \in Nat
        BY <1>1, <1>3, <3>2
      <4>. HIDE DEF a, queue, rest
      <4>2. (n + 1) + Len(rest) <= 1 + a
        BY <2>1, <4>1
      <4>. QED BY <4>2 DEF a
    <3>4. ToSet(seen) \cup ToSet(queue) = ToSet(seen) \cup ToSet(rest)
      BY <2>1, <2>2
    <3>5. root \in ToSet(seen) \/ root \in ToSet(rest)
      BY <1>1, <2>1, <2>2
    <3>. HIDE DEF next, m, rest, seen, queue
    <3>6. Searched(requires, root, seen, rest, n + 1)
      BY <1>1, <2>1, <3>3, <3>4, <3>5 DEF Searched, modules
    <3>. QED BY <3>1, <3>6 DEF next
  <2>3. CASE m \notin ToSet(seen)
    <3> DEFINE more == IF m \in DOMAIN requires THEN SetToSeq(requires[m]) ELSE <<>>
               targets == IF m \in DOMAIN requires THEN requires[m] ELSE {}
    <3>1. next.seen = Append(seen, m) /\ next.queue = rest \o more
      BY <1>3, <2>3 DEF Visit
    <3>2. /\ more \in Seq(modules) /\ ToSet(more) = targets /\ Len(more) = Cardinality(targets)
          /\ Cardinality(targets) \in Nat
      <4>1. IsFiniteSet(targets) /\ targets \subseteq modules
        BY FS_EmptySet DEF FiniteRequires, modules, Reachable
      <4>2. CASE m \in DOMAIN requires
        <5>1. more = SetToSeq(targets)
          BY <4>2
        <5>2. SetToSeq(targets) \in Seq(targets) /\ Seq(targets) \subseteq Seq(modules)
          <6>. HIDE DEF targets
          <6>. QED BY <4>1, SetToSeqIs
        <5>. HIDE DEF more, targets
        <5>. QED BY <4>1, <5>1, <5>2, SetToSeqIs
      <4>3. CASE m \notin DOMAIN requires
        <5>1. more = <<>> /\ targets = {} /\ <<>> \in Seq(modules) /\ ToSet(<<>>) = {}
          BY <4>3 DEF ToSet
        <5>. HIDE DEF more, targets
        <5>. QED BY <5>1, FS_EmptySet
      <4>. QED BY <4>2, <4>3
    <3>. HIDE DEF more
    <3>3. /\ next.seen \in Seq(modules) /\ next.queue \in Seq(modules)
          /\ ToSet(next.seen) = ToSet(seen) \cup {m} /\ ToSet(next.queue) = ToSet(rest) \cup targets
          /\ Len(next.queue) = Len(queue) - 1 + Cardinality(targets)
      <4>. HIDE DEF next, m, rest, targets, seen, queue
      <4>1. /\ Append(seen, m) \in Seq(modules) /\ ToSet(Append(seen, m)) = ToSet(seen) \cup {m}
            /\ rest \o more \in Seq(modules) /\ Len(rest \o more) = Len(rest) + Len(more)
            /\ ToSet(rest \o more) = ToSet(rest) \cup ToSet(more)
        <5>1. seen \in Seq(modules) /\ m \in modules /\ rest \in Seq(modules) /\ more \in Seq(modules)
          BY <1>1, <2>1, <3>2
        <5>2. Append(seen, m) \in Seq(modules) /\ ToSet(Append(seen, m)) = ToSet(seen) \cup {m}
          BY <5>1, ToSetOfJoined
        <5>3. /\ rest \o more \in Seq(modules) /\ Len(rest \o more) = Len(rest) + Len(more)
              /\ ToSet(rest \o more) = ToSet(rest) \cup ToSet(more)
          BY <5>1, ToSetOfJoined
        <5>. QED BY <5>2, <5>3
      <4>2. /\ next.seen \in Seq(modules) /\ next.queue \in Seq(modules)
            /\ ToSet(next.seen) = ToSet(seen) \cup {m} /\ ToSet(next.queue) = ToSet(rest) \cup targets
        BY <3>1, <3>2, <4>1, Zenon
      <4>3. Len(next.queue) = Len(rest) + Len(more)
        BY <3>1, <4>1, Zenon
      <4>. HIDE DEF modules
      <4>4. Len(next.queue) = Len(queue) - 1 + Cardinality(targets)
        BY <2>1, <3>2, <4>3
      <4>. QED BY <4>2, <4>4
    <3>4. \A i, j \in DOMAIN next.seen : next.seen[i] = next.seen[j] => i = j
      <4>1. \A i \in 1..Len(seen) : seen[i] # m
        BY <1>1, <2>3, ToSetOfSequence
      <4>2. /\ DOMAIN next.seen = 1..(Len(seen) + 1) /\ next.seen[Len(seen) + 1] = m
            /\ \A i \in 1..Len(seen) : next.seen[i] = seen[i]
            /\ DOMAIN seen = 1..Len(seen) /\ Len(seen) \in Nat
        <5>. HIDE DEF next, m
        <5>. QED BY <1>1, <2>1, <3>1
      <4>3. \A i \in 1..(Len(seen) + 1) : i \in 1..Len(seen) \/ i = Len(seen) + 1
        BY <4>2
      <4>. HIDE DEF next, m, seen
      <4>. QED BY <1>1, <4>1, <4>2, <4>3 DEF seen
    <3>5. \A e \in Edges(requires, ToSet(next.seen)) : e[2] \in ToSet(next.seen) \cup ToSet(next.queue)
      <4>1. SUFFICES ASSUME NEW e \in Edges(requires, ToSet(seen) \cup {m})
                     PROVE  e[2] \in ToSet(seen) \cup {m} \cup ToSet(rest) \cup targets
        <5>. HIDE DEF next, m, rest, targets
        <5>. QED BY <3>3
      <4>2. PICK k \in DOMAIN requires : k \in ToSet(seen) \cup {m} /\ \E t \in requires[k] : e = <<k, t>>
        <5>. HIDE DEF m, seen
        <5>. QED BY <4>1, EdgesIn
      <4>3. CASE k \in ToSet(seen)
        <5>1. e \in Edges(requires, ToSet(seen))
          <6>. HIDE DEF seen
          <6>. QED BY <4>2, <4>3, EdgesIn
        <5>. QED BY <1>1, <2>1, <5>1
      <4>4. CASE k = m
        BY <4>2, <4>4
      <4>. QED BY <4>2, <4>3, <4>4
    <3>6. (n + 1) + Len(next.queue) <= 1 + Cardinality(Edges(requires, ToSet(next.seen)))
      <4> DEFINE a == Cardinality(Edges(requires, ToSet(seen)))
                 b == Cardinality(Edges(requires, ToSet(seen) \cup {m}))
      <4>1. a \in Nat /\ b \in Nat /\ b >= a + Cardinality(targets)
        <5>1. ToSet(seen) \cup {m} = (ToSet(seen) \cup {m}) \cup {m}
          OBVIOUS
        <5>2. a \in Nat
          BY EdgesFinite
        <5>4. (m \in DOMAIN requires => b >= a + Cardinality(requires[m]))
              /\ (m \notin DOMAIN requires => b = a)
          <6>. HIDE DEF m, seen
          <6>. QED BY <2>3, EdgesGrow
        <5>3. b \in Nat
          BY EdgesFinite
        <5>. HIDE DEF a, b, m
        <5>. QED BY <5>2, <5>3, <5>4, FS_EmptySet
      <4>2. n + Len(queue) <= 1 + a
        BY <1>1, <1>3
      <4>3. Cardinality(Edges(requires, ToSet(next.seen))) = b
        <5>. HIDE DEF next, m, seen
        <5>. QED BY <3>3
      <4>. HIDE DEF a, b, m, seen, queue, next, targets
      <4>. QED BY <2>1, <3>2, <3>3, <4>1, <4>2, <4>3
    <3>7. root \in ToSet(next.seen) \/ root \in ToSet(next.queue)
      <4>. HIDE DEF next, m, rest, targets
      <4>. QED BY <1>1, <2>1, <3>3
    <3> DEFINE seen2 == next.seen
               queue2 == next.queue
    <3>8. Searched(requires, root, seen2, queue2, n + 1)
      <4>1. seen2 \in Seq(modules) /\ queue2 \in Seq(modules)
        BY <3>3
      <4>. HIDE DEF next, m, rest, targets
      <4>2. /\ \A i, j \in DOMAIN seen2 : seen2[i] = seen2[j] => i = j
            /\ \A e \in Edges(requires, ToSet(seen2)) : e[2] \in ToSet(seen2) \cup ToSet(queue2)
            /\ (n + 1) + Len(queue2) <= 1 + Cardinality(Edges(requires, ToSet(seen2)))
            /\ root \in ToSet(seen2) \/ root \in ToSet(queue2)
        BY <3>4, <3>5, <3>6, <3>7
      <4>. HIDE DEF seen2, queue2
      <4>. QED BY <4>1, <4>2 DEF Searched, modules
    <3>. QED BY <3>8
  <2>. QED BY <2>2, <2>3
<1>. QED BY <1>2, <1>3

\* The visits of a search are a recursive function, as the readings of a directory.
LEMMA SearchUnfolds ==
    ASSUME NEW requires, NEW root, NEW visits \in Nat,
           visits = 1 + Cardinality(Edges(requires, DOMAIN requires))
    PROVE  \E search :
             /\ Search(requires, root) = search[visits].seen
             /\ \A n \in 0..visits :
                  search[n] = IF n = 0 THEN [seen |-> <<>>, queue |-> <<root>>] ELSE Visit(requires, search[n - 1])
<1> DEFINE Step(f, n) == IF n = 0 THEN [seen |-> <<>>, queue |-> <<root>>] ELSE Visit(requires, f[n - 1])
           Solution(f, k) == f = [n \in 0..k |-> Step(f, n)]
           Bad == {k \in 0..visits : ~ \E f : Solution(f, k)}
<1>1. ASSUME NEW f, NEW g, NEW n, n = 0 \/ f[n - 1] = g[n - 1]
      PROVE  Step(f, n) = Step(g, n)
  BY <1>1
<1>2. 0 \notin Bad
  <2> DEFINE f == [n \in 0..0 |-> Step(<<>>, n)]
  <2>1. \A n \in 0..0 : Step(<<>>, n) = Step(f, n)
    <3>. HIDE DEF f, Step
    <3>. QED BY <1>1
  <2>2. f = [n \in 0..0 |-> Step(f, n)]
    <3>. HIDE DEF Step
    <3>. QED BY <2>1
  <2>. HIDE DEF Step, f
  <2>. QED BY <2>2
<1>3. ASSUME NEW k \in 1..visits, k - 1 \notin Bad PROVE k \notin Bad
  <2>1. PICK f : Solution(f, k - 1)
    <3>1. k - 1 \in 0..visits
      OBVIOUS
    <3>. HIDE DEF Solution
    <3>. QED BY <1>3, <3>1
  <2> DEFINE g == [n \in 0..k |-> Step(f, n)]
  <2>2. \A n \in 0..(k - 1) : g[n] = f[n]
    <3>. HIDE DEF Step
    <3>. QED BY <2>1, <1>3
  <2>3. \A n \in 0..k : Step(f, n) = Step(g, n)
    <3>1. \A n \in 0..k : n = 0 \/ n - 1 \in 0..(k - 1)
      BY <1>3
    <3>. HIDE DEF g, Step
    <3>. QED BY <1>1, <2>2, <3>1
  <2>4. Solution(g, k)
    <3>. HIDE DEF Step
    <3>. QED BY <2>3
  <2>. HIDE DEF Solution, g
  <2>. QED BY <2>4
<1>4. Bad = {}
  <2>1. Bad \in SUBSET (0..visits)
    OBVIOUS
  <2>3. \A n \in 1..visits : n \in Bad => n - 1 \in Bad
    <3>. HIDE DEF Bad
    <3>. QED BY <1>3
  <2>. HIDE DEF Bad
  <2>. QED BY <1>2, <2>1, <2>3, UpTo
<1>5. PICK f : Solution(f, visits)
  <2>1. visits \in 0..visits
    OBVIOUS
  <2>. HIDE DEF Solution
  <2>. QED BY <1>4, <2>1
<1> DEFINE search == CHOOSE h : Solution(h, visits)
<1>6. Solution(search, visits)
  <2>. HIDE DEF Solution
  <2>. QED BY <1>5
<1>7. Search(requires, root) = search[visits].seen
  BY DEF Search
<1>8. \A n \in 0..visits : search[n] = Step(search, n)
  <2>. HIDE DEF Step, search
  <2>. QED BY <1>6
<1>. HIDE DEF search
<1>. QED BY <1>7, <1>8

\* A search ends: it has looked at the root and at all that is required by what
\* it has looked at, once at each.
LEMMA SearchReaches ==
    ASSUME NEW requires, FiniteRequires(requires), NEW root
    PROVE  LET nodes == Search(requires, root)
           IN /\ nodes \in Seq(Reachable(requires, root)) /\ root \in ToSet(nodes)
              /\ \A i, j \in DOMAIN nodes : nodes[i] = nodes[j] => i = j
              /\ \A e \in Edges(requires, ToSet(nodes)) : e[2] \in ToSet(nodes)
<1> DEFINE visits == 1 + Cardinality(Edges(requires, DOMAIN requires))
<1>1. visits \in Nat /\ Cardinality(Edges(requires, DOMAIN requires)) \in Nat
  BY EdgesFinite
<1>2. PICK search :
        /\ Search(requires, root) = search[visits].seen
        /\ \A n \in 0..visits :
             search[n] = IF n = 0 THEN [seen |-> <<>>, queue |-> <<root>>] ELSE Visit(requires, search[n - 1])
  BY <1>1, SearchUnfolds
<1>. HIDE DEF visits
<1> DEFINE Good(n) == Searched(requires, root, search[n].seen, search[n].queue, n)
           Bad == {n \in 0..visits : ~Good(n)}
<1>3. Good(0)
  <2>1. search[0].seen = <<>> /\ search[0].queue = <<root>>
    BY <1>1, <1>2
  <2>2. /\ <<>> \in Seq(Reachable(requires, root)) /\ <<root>> \in Seq(Reachable(requires, root))
        /\ DOMAIN <<>> = {} /\ ToSet(<<root>>) = {root} /\ Len(<<root>>) = 1 /\ ToSet(<<>>) = {}
    <3> DEFINE R == Reachable(requires, root)
    <3>1. root \in R
      BY DEF Reachable
    <3>. HIDE DEF R
    <3>2. <<>> \in Seq(R) /\ <<root>> \in Seq(R) /\ DOMAIN <<>> = {} /\ Len(<<root>>) = 1
      BY <3>1
    <3>3. ToSet(<<root>>) = {root} /\ ToSet(<<>>) = {}
      BY DEF ToSet
    <3>. QED BY <3>2, <3>3 DEF R
  <2>3. Edges(requires, ToSet(<<>>)) = {}
    BY <2>2 DEF Edges
  <2>4. Searched(requires, root, <<>>, <<root>>, 0)
    <3>1. Cardinality(Edges(requires, ToSet(<<>>))) = 0
      BY <2>3, FS_EmptySet
    <3>2. 0 + Len(<<root>>) <= 1 + Cardinality(Edges(requires, ToSet(<<>>)))
      BY <2>2, <3>1
    <3>. QED BY <2>2, <2>3, <3>2 DEF Searched
  <2>. QED BY <2>1, <2>4
<1>4. ASSUME NEW n \in 1..visits, n - 1 \notin Bad PROVE n \notin Bad
  <2>1. n \in 0..visits /\ n - 1 \in 0..visits /\ n # 0 /\ n - 1 \in Nat /\ (n - 1) + 1 = n
    BY <1>1
  <2>2. search[n] = Visit(requires, search[n - 1]) /\ Good(n - 1)
    BY <1>2, <1>4, <2>1
  <2>3. Good((n - 1) + 1)
    BY <2>1, <2>2, VisitKeeps
  <2>. HIDE DEF Good
  <2>. QED BY <2>1, <2>3
<1>5. Bad = {}
  <2>1. Bad \in SUBSET (0..visits) /\ 0 \notin Bad
    BY <1>3
  <2>. HIDE DEF Bad
  <2>. QED BY <1>1, <1>4, <2>1, UpTo
<1>6. Good(visits)
  <2>1. visits \in 0..visits
    BY <1>1
  <2>. HIDE DEF Good
  <2>. QED BY <1>5, <2>1
<1> DEFINE nodes == search[visits].seen
           queue == search[visits].queue
<1>7. queue = <<>> /\ ToSet(queue) = {}
  <2>1. queue = <<>> \/ visits + Len(queue) <= visits
    <3>1. /\ Cardinality(Edges(requires, ToSet(nodes))) \in Nat
          /\ Cardinality(Edges(requires, ToSet(nodes))) <= Cardinality(Edges(requires, DOMAIN requires))
      BY EdgesFinite
    <3>2. queue = <<>> \/ visits + Len(queue) <= 1 + Cardinality(Edges(requires, ToSet(nodes)))
      BY <1>6 DEF Searched
    <3>3. Len(queue) \in Nat /\ Cardinality(Edges(requires, DOMAIN requires)) \in Nat
      BY <1>6, EdgesFinite DEF Searched
    <3>. HIDE DEF nodes, queue
    <3>. QED BY <1>1, <3>1, <3>2, <3>3 DEF visits
  <2>2. queue \in Seq(Reachable(requires, root))
    BY <1>6 DEF Searched
  <2>. HIDE DEF queue
  <2>. QED BY <1>1, <2>1, <2>2 DEF ToSet
<1>. QED BY <1>2, <1>6, <1>7 DEF Searched

\* Between nodes that are there once each, an edge is drawn as it is.
LEMMA EdgesAreDrawn ==
    ASSUME NEW nodes, NEW edges, NEW A, nodes \in Seq(A),
           \A e \in edges : e = <<e[1], e[2]>> /\ e[1] \in ToSet(nodes) /\ e[2] \in ToSet(nodes)
    PROVE  Labels([nodes |-> nodes, edges |-> edges]) = edges
<1> DEFINE graph == [nodes |-> nodes, edges |-> edges]
<1>1. ASSUME NEW m \in ToSet(nodes) PROVE nodes[NodeId(graph, m)] = m
  <2>1. \E i \in DOMAIN nodes : nodes[i] = m
    BY DEF ToSet
  <2>2. NodeId(graph, m) = CHOOSE i \in DOMAIN nodes : nodes[i] = m
    BY DEF NodeId
  <2>. QED BY <2>1, <2>2
<1>2. Labels(graph) = {<<nodes[NodeId(graph, e[1])], nodes[NodeId(graph, e[2])]>> : e \in edges}
  <2> DEFINE Id(m) == NodeId(graph, m)
  <2>1. graph.nodes = nodes /\ graph.edges = edges
    OBVIOUS
  <2>2. Drawn(graph) = {<<Id(e[1]), Id(e[2])>> : e \in edges}
    BY <2>1 DEF Drawn
  <2>3. Labels(graph) = {<<nodes[d[1]], nodes[d[2]]>> : d \in Drawn(graph)}
    BY <2>1 DEF Labels
  <2>. HIDE DEF Id, graph
  <2>4. {<<nodes[d[1]], nodes[d[2]]>> : d \in {<<Id(e[1]), Id(e[2])>> : e \in edges}}
           = {<<nodes[Id(e[1])], nodes[Id(e[2])]>> : e \in edges}
    <3> DEFINE ids == {<<Id(e[1]), Id(e[2])>> : e \in edges}
               P(d) == <<nodes[d[1]], nodes[d[2]]>>
               L(e) == <<nodes[Id(e[1])], nodes[Id(e[2])]>>
    <3>1. \A e \in edges : P(<<Id(e[1]), Id(e[2])>>) = L(e)
      OBVIOUS
    <3>. HIDE DEF P, L, Id
    <3>2. \A d \in ids : \E e \in edges : P(d) = L(e)
      BY <3>1
    <3>3. \A e \in edges : \E d \in ids : P(d) = L(e)
      BY <3>1
    <3>. HIDE DEF ids
    <3>4. {P(d) : d \in ids} = {L(e) : e \in edges}
      BY <3>2, <3>3
    <3>. QED BY <3>4 DEF P, L, ids
  <2>5. Labels(graph) = {<<nodes[Id(e[1])], nodes[Id(e[2])]>> : e \in edges}
    BY <2>2, <2>3, <2>4
  <2>. QED BY <2>5 DEF Id
<1>3. \A e \in edges : <<nodes[NodeId(graph, e[1])], nodes[NodeId(graph, e[2])]>> = e
  <2>1. SUFFICES ASSUME NEW e \in edges
                 PROVE  <<nodes[NodeId(graph, e[1])], nodes[NodeId(graph, e[2])]>> = e
    OBVIOUS
  <2>2. nodes[NodeId(graph, e[1])] = e[1] /\ nodes[NodeId(graph, e[2])] = e[2] /\ e = <<e[1], e[2]>>
    BY <1>1
  <2> DEFINE a == nodes[NodeId(graph, e[1])]
             b == nodes[NodeId(graph, e[2])]
  <2>3. a = e[1] /\ b = e[2] /\ e = <<e[1], e[2]>>
    BY <2>2
  <2>. HIDE DEF a, b
  <2>4. <<a, b>> = e
    BY <2>3, Zenon
  <2>. QED BY <2>4 DEF a, b
<1>. HIDE DEF graph
<1>4. Labels(graph) = edges
  BY <1>2, <1>3
<1>. QED BY <1>4 DEF graph

LEMMA RequiresAreDrawn ==
    ASSUME IsFiniteSet(DOMAIN sourceNodes)
    PROVE  GraphDrawsRequires
<1>. USE DEF FiniteRequires
<1>1. FiniteRequires(Required) /\ DOMAIN Required = DOMAIN sourceNodes
  BY FS_EmptySet, FS_Singleton DEF Required
<1>2. ASSUME NEW root \in DOMAIN sourceNodes, NEW graph, graph = GraphFromRoot(Required, root)
      PROVE  /\ Labels(graph) = graph.edges
             /\ Len(graph.nodes) = Cardinality(ToSet(graph.nodes))
             /\ \A e \in Edges(Required, DOMAIN Required) : e[1] \in ToSet(graph.nodes) => e \in Labels(graph)
  <2> DEFINE nodes == Search(Required, root)
             edges == Edges(Required, ToSet(nodes))
  <2>1. graph = [nodes |-> nodes, edges |-> edges]
    BY <1>2 DEF GraphFromRoot
  <2>2. /\ nodes \in Seq(Reachable(Required, root))
        /\ \A i, j \in DOMAIN nodes : nodes[i] = nodes[j] => i = j
        /\ \A e \in edges : e[2] \in ToSet(nodes)
    BY <1>1, SearchReaches
  <2>. HIDE DEF nodes
  <2>3. \A e \in edges : e = <<e[1], e[2]>> /\ e[1] \in ToSet(nodes)
    <3>1. SUFFICES ASSUME NEW e \in edges PROVE e = <<e[1], e[2]>> /\ e[1] \in ToSet(nodes)
      OBVIOUS
    <3>2. PICK k \in DOMAIN Required : k \in ToSet(nodes) /\ \E t \in Required[k] : e = <<k, t>>
      BY <3>1, EdgesIn
    <3>. QED BY <3>2
  <2>4. Labels(graph) = edges
    <3>. HIDE DEF edges
    <3>. QED BY <2>1, <2>2, <2>3, EdgesAreDrawn
  <2>5. Len(nodes) = Cardinality(ToSet(nodes))
    <3>1. Len(nodes) \in Nat /\ DOMAIN nodes = 1..Len(nodes)
      BY <2>2
    <3>2. nodes \in Bijection(1..Len(nodes), ToSet(nodes))
      <4>1. nodes \in [1..Len(nodes) -> ToSet(nodes)] /\ IsInjective(nodes)
        BY <2>2, <3>1 DEF ToSet, IsInjective
      <4>. QED BY <3>1, <4>1 DEF Bijection, Injection, Surjection, ToSet
    <3>3. ExistsBijection(1..Len(nodes), ToSet(nodes))
      BY <3>2 DEF ExistsBijection
    <3>. QED BY <3>1, <3>3, FS_CountingElements
  <2>6. ASSUME NEW e \in Edges(Required, DOMAIN Required), e[1] \in ToSet(nodes) PROVE e \in edges
    <3>1. PICK k \in DOMAIN Required : \E t \in Required[k] : e = <<k, t>>
      BY EdgesIn
    <3>2. k \in ToSet(nodes)
      BY <2>6, <3>1
    <3>. QED BY <3>1, <3>2, EdgesIn
  <2>. HIDE DEF edges
  <2>. QED BY <2>1, <2>4, <2>5, <2>6
<1>3. ASSUME UNION Range(Required) \subseteq DOMAIN sourceNodes
      PROVE  Labels(FullGraph(Required)) = FullGraph(Required).edges
  <2> DEFINE nodes == SetToSeq(DOMAIN Required)
             edges == Edges(Required, DOMAIN Required)
  <2>1. FullGraph(Required) = [nodes |-> nodes, edges |-> edges]
    BY DEF FullGraph
  <2>2. nodes \in Seq(DOMAIN Required) /\ ToSet(nodes) = DOMAIN Required
    BY <1>1, SetToSeqIs
  <2>3. \A e \in edges : e = <<e[1], e[2]>> /\ e[1] \in ToSet(nodes) /\ e[2] \in ToSet(nodes)
    <3>. HIDE DEF nodes
    <3>1. SUFFICES ASSUME NEW e \in edges PROVE e = <<e[1], e[2]>> /\ e[1] \in ToSet(nodes) /\ e[2] \in ToSet(nodes)
      OBVIOUS
    <3>2. PICK k \in DOMAIN Required : \E t \in Required[k] : e = <<k, t>>
      BY <3>1, EdgesIn
    <3>3. PICK t \in Required[k] : e = <<k, t>>
      BY <3>2
    <3>4. t \in DOMAIN sourceNodes
      BY <1>3 DEF Range
    <3>. QED BY <1>1, <2>2, <3>3, <3>4
  <2>. HIDE DEF nodes, edges
  <2>. QED BY <2>1, <2>2, <2>3, EdgesAreDrawn
<1>. QED BY <1>1, <1>2, <1>3 DEF GraphDrawsRequires

-----------------------------------------------------------------------------
(* What a require leads to, and what of it stays when files are deleted.     *)

\* The file at a path, a directory's init file or the best extension.
Found(files, t) == SourceFileAt(files, FileAt(files, t))

\* Only the last of a resolution depends on what files there are.
LEMMA ResolvesByPath ==
    ASSUME NEW aliases, NEW original, NEW m, NEW required
    PROVE  \/ \A files : ResolveStringRequire(files, aliases, original, m, required) = NoUri
           \/ \E t : \A files : ResolveStringRequire(files, aliases, original, m, required) = Found(files, t)
BY DEF ResolveStringRequire, Found

LEMMA PathsNamed ==
    /\ NoUri \notin Locations
    /\ \A p \in Locations : p \in Seq(Components) /\ Len(p) \in Nat /\ Len(p) # 0 /\ DOMAIN p = 1..Len(p)
<1>1. NoUri[1][1] = "" /\ 1 \in DOMAIN NoUri
  BY DEF NoUri
<1>2. NoUri \notin Locations
  BY <1>1, NamesAssumption, Zenon
<1>3. ASSUME NEW p \in Locations PROVE p \in Seq(Components) /\ Len(p) \in Nat /\ Len(p) # 0 /\ DOMAIN p = 1..Len(p)
  <2>1. p \in Seq(Components) /\ p # <<>>
    BY PathsAssumption DEF Components
  <2>. QED BY <2>1
<1>. QED BY <1>2, <1>3

LEMMA LeastOfFour ==
    ASSUME NEW S \in SUBSET (1..4), S # {}
    PROVE  \E i \in S : \A j \in S : i <= j
<1>1. CASE 1 \in S
  BY <1>1
<1>2. CASE 1 \notin S /\ 2 \in S
  BY <1>2
<1>3. CASE 1 \notin S /\ 2 \notin S /\ 3 \in S
  BY <1>3
<1>4. CASE 1 \notin S /\ 2 \notin S /\ 3 \notin S
  <2>1. \A j \in S : j = 4
    BY <1>4
  <2>2. PICK k \in S : TRUE
    OBVIOUS
  <2>3. \A j \in S : 4 <= j
    BY <2>1
  <2>4. 4 \in S
    BY <2>1, <2>2
  <2>. QED BY <2>3, <2>4
<1>. QED BY <1>1, <1>2, <1>3, <1>4

\* The best extension that is left is still the best.
LEMMA BestExtensionStays ==
    ASSUME NEW files, NEW kept \in SUBSET files, NEW file,
           Exists(kept, WithExtension(file, BestExtension(files, file)))
    PROVE  BestExtension(kept, file) = BestExtension(files, file)
<1> DEFINE Name(i) == WithExtension(file, SourceExtensions[i])
           all == {i \in DOMAIN SourceExtensions : Exists(files, Name(i))}
           left == {i \in DOMAIN SourceExtensions : Exists(kept, Name(i))}
           best == CHOOSE i \in all : \A j \in all : i <= j
<1>1. DOMAIN SourceExtensions = 1..4 /\ Last(SourceExtensions) = SourceExtensions[4]
  BY DEF SourceExtensions, Last
<1>2. left \subseteq all
  BY DEF Exists, IsDirectory
<1>3. /\ BestExtension(files, file) = IF all = {} THEN Last(SourceExtensions) ELSE SourceExtensions[best]
      /\ BestExtension(kept, file) =
           IF left = {} THEN Last(SourceExtensions) ELSE SourceExtensions[CHOOSE i \in left : \A j \in left : i <= j]
  BY DEF BestExtension
<1>4. all # {}
  <2>1. CASE all = {}
    <3>1. Exists(kept, Name(4))
      BY <1>1, <1>3, <2>1
    <3>2. 4 \in all
      BY <1>1, <3>1 DEF Exists, IsDirectory
    <3>. QED BY <2>1, <3>2
  <2>. QED BY <2>1
<1>5. best \in all /\ \A j \in all : best <= j
  <2>1. \E i \in all : \A j \in all : i <= j
    <3>1. all \subseteq 1..4
      BY <1>1
    <3>. HIDE DEF all
    <3>. QED BY <1>4, <3>1, LeastOfFour
  <2>. HIDE DEF all
  <2>. QED BY <2>1
<1>6. best \in left
  BY <1>3, <1>4, <1>5
<1>7. ASSUME NEW i \in left, \A j \in left : i <= j PROVE i = best
  <2>1. i \in 1..4 /\ best \in 1..4
    BY <1>1, <1>6, <1>7
  <2>2. best <= i /\ i <= best
    <3>. HIDE DEF all, left, best
    <3>. QED BY <1>2, <1>5, <1>6, <1>7
  <2>. HIDE DEF all, left, best
  <2>. QED BY <2>1, <2>2
<1>8. left # {} /\ (CHOOSE i \in left : \A j \in left : i <= j) = best
  <2>1. \A j \in left : best <= j
    BY <1>2, <1>5
  <2>. HIDE DEF all, left, best
  <2>. QED BY <1>6, <1>7, <2>1
<1>. HIDE DEF all, left, best
<1>. QED BY <1>3, <1>4, <1>8

\* What there is of a name with the best extension, when any is there.
LEMMA BestExtensionExists ==
    ASSUME NEW files, NEW file, NEW ext,
           ext \in ToSet(SourceExtensions), Exists(files, WithExtension(file, ext))
    PROVE  Exists(files, WithExtension(file, BestExtension(files, file)))
<1> DEFINE Name(i) == WithExtension(file, SourceExtensions[i])
           all == {i \in DOMAIN SourceExtensions : Exists(files, Name(i))}
           best == CHOOSE i \in all : \A j \in all : i <= j
<1>1. DOMAIN SourceExtensions = 1..4
  BY DEF SourceExtensions
<1>2. BestExtension(files, file) = IF all = {} THEN Last(SourceExtensions) ELSE SourceExtensions[best]
  BY DEF BestExtension
<1>3. all # {}
  <2>1. PICK i \in DOMAIN SourceExtensions : ext = SourceExtensions[i]
    BY DEF ToSet
  <2>. QED BY <2>1
<1>4. best \in all
  <2>1. \E i \in all : \A j \in all : i <= j
    <3>1. all \subseteq 1..4
      BY <1>1
    <3>. HIDE DEF all
    <3>. QED BY <1>3, <3>1, LeastOfFour
  <2>. HIDE DEF all
  <2>. QED BY <2>1
<1>5. Exists(files, Name(best))
  BY <1>4
<1>. QED BY <1>2, <1>3, <1>5

LEMMA BestExtensionIsSource ==
    ASSUME NEW files, NEW file
    PROVE  BestExtension(files, file) \in ToSet(SourceExtensions)
<1> DEFINE all == {i \in DOMAIN SourceExtensions : Exists(files, WithExtension(file, SourceExtensions[i]))}
           best == CHOOSE i \in all : \A j \in all : i <= j
<1>1. DOMAIN SourceExtensions = 1..4 /\ Last(SourceExtensions) = SourceExtensions[4]
  BY DEF SourceExtensions, Last
<1>2. BestExtension(files, file) = IF all = {} THEN Last(SourceExtensions) ELSE SourceExtensions[best]
  BY DEF BestExtension
<1>3. all # {} => best \in 1..4
  <2>1. all \subseteq 1..4
    BY <1>1
  <2>. HIDE DEF all
  <2>2. all # {} => \E i \in all : \A j \in all : i <= j
    BY <2>1, LeastOfFour
  <2>. QED BY <2>1, <2>2
<1>. HIDE DEF all, best
<1>. QED BY <1>1, <1>2, <1>3 DEF ToSet
\* The provers want names for what has an empty part.
NoExtension == ""
InitComponent == <<"init", NoExtension>>

LEMMA FileAtIs ==
    ASSUME NEW files, NEW t
    PROVE  FileAt(files, t) = IF IsDirectory(files, t) THEN Append(t, InitComponent) ELSE t
BY Zenon DEF FileAt, InitComponent, NoExtension

LEMMA ExtensionsAre ==
    /\ NoExtension \notin ToSet(SourceExtensions)
    /\ \A p : p # <<>> => Extension(p) = p[Len(p)][2]
<1>3. \A ext \in ToSet(SourceExtensions) : ext \in {"luwu", "luau", "lua", "luwon"}
  BY DEF ToSet, SourceExtensions
<1>4. NoExtension \notin {"luwu", "luau", "lua", "luwon"}
  BY Zenon DEF NoExtension
<1>5. \A p : p # <<>> => Extension(p) = p[Len(p)][2]
  BY Zenon DEF Extension, Last
<1>6. NoExtension \notin ToSet(SourceExtensions)
  BY <1>3, <1>4, Zenon
<1>. QED BY <1>5, <1>6

LEMMA AppendIs ==
    ASSUME NEW S, NEW s \in Seq(S), NEW e \in S
    PROVE  LET a == Append(s, e)
           IN /\ a \in Seq(S) /\ a # <<>> /\ Len(a) = Len(s) + 1 /\ Len(s) \in Nat
              /\ a[Len(s) + 1] = e /\ \A i \in 1..Len(s) : a[i] = s[i]
<1> DEFINE a == Append(s, e)
<1>1. a \in Seq(S) /\ Len(a) = Len(s) + 1 /\ Len(s) \in Nat
  OBVIOUS
<1>2. a[Len(s) + 1] = e /\ \A i \in 1..Len(s) : a[i] = s[i]
  OBVIOUS
<1>3. a # <<>>
  <2>. HIDE DEF a
  <2>. QED BY <1>1
<1>. QED BY <1>1, <1>2, <1>3

LEMMA NoDirectoryIsSource ==
    ASSUME NEW t \in Seq(Components)
    PROVE  LET file == Append(t, InitComponent)
           IN /\ file \in Seq(Components \cup {InitComponent}) /\ file # <<>> /\ Len(file) = Len(t) + 1 /\ ~IsSourceFile(file)
              /\ \A n \in 0..Len(t) : SubSeq(file, 1, n) = SubSeq(t, 1, n)
<1> DEFINE file == Append(t, InitComponent)
<1>1. /\ file \in Seq(Components \cup {InitComponent}) /\ file # <<>> /\ Len(file) = Len(t) + 1 /\ Len(t) \in Nat
      /\ file[Len(t) + 1] = InitComponent /\ \A i \in 1..Len(t) : file[i] = t[i]
  <2> DEFINE S == Components \cup {InitComponent}
  <2>1. t \in Seq(S) /\ InitComponent \in S
    OBVIOUS
  <2>. HIDE DEF S
  <2>2. /\ file \in Seq(S) /\ file # <<>> /\ Len(file) = Len(t) + 1 /\ Len(t) \in Nat
        /\ file[Len(t) + 1] = InitComponent /\ \A i \in 1..Len(t) : file[i] = t[i]
    BY <2>1, AppendIs
  <2>. QED BY <2>2 DEF S
<1>2. Extension(file) = NoExtension
  <2>1. Extension(file) = file[Len(file)][2]
    BY <1>1, ExtensionsAre
  <2>2. file[Len(file)] = InitComponent
    <3>. HIDE DEF file
    <3>. QED BY <1>1
  <2>3. InitComponent[2] = NoExtension
    BY DEF InitComponent
  <2>. HIDE DEF file
  <2>. QED BY <2>1, <2>2, <2>3
<1>4. ASSUME NEW n \in 0..Len(t) PROVE SubSeq(file, 1, n) = SubSeq(t, 1, n)
  <2>. HIDE DEF file
  <2>. QED BY <1>1
<1>. QED BY <1>1, <1>2, <1>4, ExtensionsAre DEF IsSourceFile

\* The file that is there with an extension stays in its directory and keeps its length.
LEMMA WithExtensionIs ==
    ASSUME NEW f, NEW ext
    PROVE  LET q == WithExtension(f, ext)
           IN /\ DOMAIN q = DOMAIN f /\ Len(q) = Len(f)
              /\ \A i \in DOMAIN f : i # Len(f) => q[i] = f[i]
              /\ Len(f) \in DOMAIN f => q[Len(f)] = <<f[Len(f)][1], ext>>
<1> DEFINE q == WithExtension(f, ext)
<1>1. q = [f EXCEPT ![Len(f)] = <<@[1], ext>>]
  BY DEF WithExtension
<1>2. DOMAIN q = DOMAIN f
  BY <1>1
<1>3. Len(q) = Len(f)
  <2>. HIDE DEF q
  <2>. QED BY <1>2
<1>. QED BY <1>1, <1>2, <1>3

\* What is found for a directory is in it.
LEMMA DirectoryOfFound ==
    ASSUME NEW files, files \subseteq Locations, NEW t, Found(files, t) \in Locations, IsDirectory(files, t)
    PROVE  t \in DirectoriesOf(Found(files, t)) /\ ~IsSourceFile(FileAt(files, t))
<1> DEFINE q == Found(files, t)
           file == FileAt(files, t)
<1>1. PICK g \in files : \E n \in 0..(Len(g) - 1) : t = SubSeq(g, 1, n)
  BY DEF IsDirectory, DirectoriesOf
<1>2. PICK n \in 0..(Len(g) - 1) : t = SubSeq(g, 1, n)
  BY <1>1
<1>3. t \in Seq(Components) /\ Len(t) = n /\ n \in Nat
  <2>1. g \in Seq(Components) /\ Len(g) \in Nat
    BY PathsNamed
  <2>2. n \in 0..Len(g) /\ n \in Nat
    BY <2>1
  <2>. QED BY <1>2, <2>1, <2>2, PrefixOfPrefix
<1>4. file = Append(t, InitComponent)
  BY FileAtIs
<1>5. /\ file \in Seq(Components \cup {InitComponent}) /\ Len(file) = n + 1 /\ ~IsSourceFile(file) /\ file # <<>>
      /\ SubSeq(file, 1, n) = SubSeq(t, 1, n)
  <2>. HIDE DEF file
  <2>. QED BY <1>3, <1>4, NoDirectoryIsSource
<1>6. q = WithExtension(file, BestExtension(files, file))
  <2>1. q = SourceFileAt(files, file)
    BY DEF Found
  <2>. HIDE DEF file, q
  <2>. QED BY <1>5, <2>1 DEF SourceFileAt
<1>7. q \in Seq(Components) /\ Len(q) = n + 1 /\ \A i \in 1..n : q[i] = file[i]
  <2>1. q \in Seq(Components) /\ DOMAIN q = 1..Len(q)
    BY PathsNamed
  <2>2. Len(q) = Len(file) /\ \A i \in DOMAIN file : i # Len(file) => q[i] = file[i]
    <3>. HIDE DEF file, q
    <3>. QED BY <1>6, WithExtensionIs
  <2>3. \A i \in 1..n : i \in DOMAIN file /\ i # n + 1
    <3>. HIDE DEF file, q
    <3>. QED BY <1>3, <1>5
  <2>. HIDE DEF file, q
  <2>. QED BY <1>5, <2>1, <2>2, <2>3
<1>8. SubSeq(q, 1, n) = t
  <2>. HIDE DEF file, q
  <2>. QED BY <1>3, <1>5, <1>7
<1>9. t \in DirectoriesOf(q)
  <2>1. n \in 0..(Len(q) - 1)
    <3>. HIDE DEF file, q
    <3>. QED BY <1>3, <1>7
  <2>. HIDE DEF file, q
  <2>. QED BY <1>8, <2>1 DEF DirectoriesOf
<1>. QED BY <1>5, <1>9

\* What a require leads to stays what it leads to for as long as it is there.
LEMMA FoundStays ==
    ASSUME NEW files, files \subseteq Locations, NEW kept \in SUBSET files, NEW t, Found(files, t) \in kept
    PROVE  Found(kept, t) = Found(files, t)
<1> DEFINE q == Found(files, t)
           file == FileAt(files, t)
<1>1. q # NoUri
  BY PathsNamed
<1>2. /\ file # <<>>
      /\ q = IF IsSourceFile(file) THEN file ELSE WithExtension(file, BestExtension(files, file))
  <2>1. q = SourceFileAt(files, file)
    BY DEF Found
  <2>. HIDE DEF q, file
  <2>. QED BY <1>1, <2>1 DEF SourceFileAt
<1>3. ASSUME FileAt(kept, t) = file PROVE Found(kept, t) = q
  <2>1. Found(kept, t) = IF IsSourceFile(file) THEN file ELSE WithExtension(file, BestExtension(kept, file))
    <3>1. Found(kept, t) = SourceFileAt(kept, file)
      BY <1>3 DEF Found
    <3>. HIDE DEF file
    <3>. QED BY <1>2, <3>1 DEF SourceFileAt
  <2>. HIDE DEF file
  <2>. QED BY <1>2, <2>1, BestExtensionStays DEF Exists
<1>4. CASE ~IsDirectory(files, t)
  <2>1. ~IsDirectory(kept, t)
    BY <1>4 DEF IsDirectory
  <2>2. FileAt(kept, t) = file
    BY <1>4, <2>1, FileAtIs
  <2>. QED BY <1>3, <2>2
<1>5. CASE IsDirectory(files, t)
  <2>9. IsDirectory(kept, t)
    <3>1. t \in DirectoriesOf(q)
      <4>1. q \in Locations
        OBVIOUS
      <4>. QED BY <1>5, <4>1, DirectoryOfFound
    <3>. QED BY <3>1 DEF IsDirectory
  <2>10. FileAt(kept, t) = file
    BY <1>5, <2>9, FileAtIs
  <2>. QED BY <1>3, <2>10
<1>. QED BY <1>4, <1>5

LEMMA StemOfExtension ==
    ASSUME NEW f, NEW ext, NEW none
    PROVE  WithExtension(WithExtension(f, ext), none) = WithExtension(f, none)
<1> DEFINE q == WithExtension(f, ext)
<1>1. DOMAIN q = DOMAIN f /\ Len(q) = Len(f)
  BY WithExtensionIs
<1>2. q = [i \in DOMAIN f |-> IF i = Len(f) THEN <<f[i][1], ext>> ELSE f[i]]
  BY DEF WithExtension
<1>3. WithExtension(q, none) = [i \in DOMAIN q |-> IF i = Len(q) THEN <<q[i][1], none>> ELSE q[i]]
  <2>. HIDE DEF q
  <2>. QED BY DEF WithExtension
<1>4. WithExtension(f, none) = [i \in DOMAIN f |-> IF i = Len(f) THEN <<f[i][1], none>> ELSE f[i]]
  BY DEF WithExtension
<1>5. WithExtension(q, none) = WithExtension(f, none)
  <2>. HIDE DEF q
  <2>1. \A i \in DOMAIN f : (IF i = Len(q) THEN <<q[i][1], none>> ELSE q[i])
                                = (IF i = Len(f) THEN <<f[i][1], none>> ELSE f[i])
    BY <1>1, <1>2
  <2>. QED BY <1>1, <1>3, <1>4, <2>1
<1>. QED BY <1>5 DEF q

LEMMA UncoversIs ==
    ASSUME NEW kept
    PROVE  Uncovers(kept) <=>
             \E gone \in Files \ kept, f \in kept :
                /\ Len(f) < Len(gone)
                /\ ~IsDirectory(kept, SubSeq(gone, 1, Len(f)))
                /\ WithExtension(SubSeq(gone, 1, Len(f)), NoExtension) = WithExtension(f, NoExtension)
BY Zenon DEF Uncovers, NoExtension

\* A directory that hides a file that is left is there still.
LEMMA HidingStays ==
    ASSUME Files \subseteq Locations, NEW kept \in SUBSET Files, ~Uncovers(kept),
           NEW d, IsDirectory(Files, d), NEW f \in kept, Len(f) = Len(d),
           WithExtension(d, NoExtension) = WithExtension(f, NoExtension)
    PROVE  IsDirectory(kept, d)
<1>1. PICK g \in Files : \E n \in 0..(Len(g) - 1) : d = SubSeq(g, 1, n)
  BY DEF IsDirectory, DirectoriesOf
<1>2. PICK n \in 0..(Len(g) - 1) : d = SubSeq(g, 1, n)
  BY <1>1
<1>3. Len(d) = n /\ n < Len(g)
  <2>1. g \in Seq(Components) /\ Len(g) \in Nat
    BY PathsNamed
  <2>2. n \in 0..Len(g) /\ n < Len(g)
    BY <2>1
  <2>. QED BY <1>2, <2>1, <2>2, PrefixOfPrefix
<1>4. g \in kept => IsDirectory(kept, d)
  BY <1>2 DEF IsDirectory, DirectoriesOf
<1>5. g \notin kept /\ ~IsDirectory(kept, d) => Uncovers(kept)
  BY <1>2, <1>3, UncoversIs
<1>. QED BY <1>4, <1>5

\* What a require does not lead to it leads to only when something hid it.
LEMMA NothingFoundStays ==
    ASSUME Files \subseteq Locations, NEW kept \in SUBSET Files, ~Uncovers(kept), NEW t, Found(Files, t) \notin Files
    PROVE  Found(kept, t) \notin kept
<1> DEFINE q == Found(Files, t)
           r == Found(kept, t)
           file == FileAt(kept, t)
<1>0. SUFFICES ASSUME r \in kept PROVE FALSE
  OBVIOUS
<1>1. /\ file # <<>>
      /\ r = IF IsSourceFile(file) THEN file ELSE WithExtension(file, BestExtension(kept, file))
  <2>1. r = SourceFileAt(kept, file)
    BY DEF Found
  <2>2. r # NoUri
    BY <1>0, PathsNamed
  <2>. HIDE DEF r, file
  <2>. QED BY <2>1, <2>2 DEF SourceFileAt
<1>2. Len(r) = Len(file) /\ WithExtension(r, NoExtension) = WithExtension(file, NoExtension)
  <2>. HIDE DEF r, file
  <2>. QED BY <1>1, WithExtensionIs, StemOfExtension
<1>3. CASE IsDirectory(Files, t) /\ ~IsDirectory(kept, t)
  <2>1. file = t
    BY <1>3, FileAtIs
  <2>2. IsDirectory(kept, t)
    <3>. HIDE DEF r, file
    <3>. QED BY <1>0, <1>2, <1>3, <2>1, HidingStays
  <2>. QED BY <1>3, <2>2
<1>4. CASE ~(IsDirectory(Files, t) /\ ~IsDirectory(kept, t))
  <2>1. IsDirectory(kept, t) => IsDirectory(Files, t)
    BY DEF IsDirectory
  <2>2. FileAt(Files, t) = file
    BY <1>4, <2>1, FileAtIs
  <2>3. q = IF IsSourceFile(file) THEN file ELSE WithExtension(file, BestExtension(Files, file))
    <3>1. q = SourceFileAt(Files, file)
      BY <2>2 DEF Found
    <3>. HIDE DEF q, file
    <3>. QED BY <3>1, <1>1 DEF SourceFileAt
  <2>4. q \notin Files /\ r \in Files
    BY <1>0
  <2>. HIDE DEF q, r, file
  <2>5. ~IsSourceFile(file) /\ r = WithExtension(file, BestExtension(kept, file))
    BY <1>1, <2>3, <2>4
  <2>6. Exists(Files, q)
    <3>1. Exists(Files, r)
      BY <2>4 DEF Exists
    <3>. QED BY <2>3, <2>5, <3>1, BestExtensionIsSource, BestExtensionExists
  <2>7. IsDirectory(Files, q)
    BY <2>4, <2>6 DEF Exists
  <2>8. Len(r) = Len(q) /\ WithExtension(q, NoExtension) = WithExtension(r, NoExtension)
    BY <1>2, <2>3, <2>5, WithExtensionIs, StemOfExtension
  <2>9. IsDirectory(kept, q)
    BY <1>0, <2>7, <2>8, HidingStays
  <2>10. BestExtension(kept, file) = BestExtension(Files, file)
    BY <2>3, <2>5, <2>9, BestExtensionStays DEF Exists
  <2>. QED BY <2>3, <2>4, <2>5, <2>10
<1>. QED BY <1>3, <1>4

-----------------------------------------------------------------------------
(* Where a module's require leads, by what is on disk.                       *)

DiskAliases(m) ==
    IF ConfigDirectory(m) = NoUri THEN DefaultConfig.aliases ELSE ConfigOnDisk(ConfigDirectory(m)).aliases

LeadsTo(m) ==
    IF disk[m] = NoRequire THEN NoUri
    ELSE ResolveStringRequire(Files, DiskAliases(m), FALSE, m, disk[m])

\* The aliases of a module that is loaded are those on disk.
LEMMA LoadedAliases ==
    ASSUME NEW state, NEW path \in Locations, CachesGood(state), SettingsTold
    PROVE  GetConfig(LoadConfig(state, path), path).aliases = DiskAliases(path)
<1> DEFINE d == ConfigDirectory(path)
           read == IF d = NoUri THEN state ELSE ReadConfigRec(state, d)
           config == IF d = NoUri THEN DefaultConfig ELSE read.configs[d]
           key == <<d, Language(path)>>
           own == [config EXCEPT !.language = Language(path)]
           next == LoadConfig(state, path)
<1>1. d \in Directories \cup {NoUri}
  BY ConfigDirectoryIsDirectory
<1>2. CachesGood(read) /\ (d # NoUri => d \in DOMAIN read.configs)
  <2>. HIDE DEF d
  <2>. QED BY <1>1, ReadConfigRecIsGood
<1>3. CachesCurrent(read)
  BY <1>2 DEF CachesGood
<1>4. config = IF d = NoUri THEN DefaultConfig ELSE ConfigOnDisk(d)
  <2>. HIDE DEF read, d
  <2>. QED BY <1>2, <1>3 DEF CachesCurrent
<1>5. config.aliases = DiskAliases(path) /\ own.aliases = config.aliases
  <2>1. own.aliases = config.aliases
    <3>1. config = [aliases |-> config.aliases, language |-> config.language]
      <4>. HIDE DEF config
      <4>. QED BY <1>4 DEF DefaultConfig, ConfigOnDisk
    <3>. HIDE DEF config
    <3>. QED BY <3>1
  <2>2. config.aliases = DiskAliases(path)
    <3>. HIDE DEF config
    <3>. QED BY <1>4 DEF DiskAliases
  <2>. QED BY <2>1, <2>2
<1>6. GetConfig(next, path) =
        LET c == IF d = NoUri THEN DefaultConfig ELSE next.configs[d]
        IN IF c.language = Language(path) THEN c ELSE next.languages[key]
  BY DEF GetConfig
<1>7. CASE config.language = Language(path) \/ key \in DOMAIN read.languages
  <2>1. next = read
    BY <1>7 DEF LoadConfig
  <2>2. GetConfig(next, path) = IF config.language = Language(path) THEN config ELSE read.languages[key]
    <3>. HIDE DEF next, read, key
    <3>. QED BY <1>6, <2>1
  <2>3. key \in DOMAIN read.languages => read.languages[key].aliases = own.aliases
    <3>1. key \in DOMAIN read.languages => read.languages[key] = InLanguage(key[1], key[2])
      <4>. HIDE DEF read, key
      <4>. QED BY <1>3 DEF CachesCurrent
    <3>2. InLanguage(key[1], key[2]) = own
      <4>. HIDE DEF config, d
      <4>. QED BY <1>4 DEF InLanguage
    <3>. HIDE DEF read, key, own
    <3>. QED BY <3>1, <3>2
  <2>. HIDE DEF next, read, key, own, config
  <2>4. GetConfig(next, path).aliases = DiskAliases(path)
    BY <1>5, <1>7, <2>2, <2>3
  <2>. QED BY <2>4 DEF next
<1>8. CASE ~(config.language = Language(path) \/ key \in DOMAIN read.languages)
  <2>1. next = CacheState(read.configs, With(read.languages, key, own), read.reported)
    BY <1>8 DEF LoadConfig
  <2>2. next.configs = read.configs /\ next.languages[key] = own
    <3>. HIDE DEF next, read, own, key
    <3>. QED BY <2>1 DEF CacheState, With
  <2>3. GetConfig(next, path) = own
    <3>1. (IF d = NoUri THEN DefaultConfig ELSE next.configs[d]) = config
      <4>. HIDE DEF next, read
      <4>. QED BY <2>2 DEF config
    <3>. HIDE DEF next, key, own, config
    <3>. QED BY <1>6, <1>8, <2>2, <3>1
  <2>. HIDE DEF next, own, config
  <2>4. GetConfig(next, path).aliases = DiskAliases(path)
    BY <1>5, <2>3
  <2>. QED BY <2>4 DEF next
<1>. QED BY <1>7, <1>8

LEMMA ResolvesAsOnDisk ==
    ASSUME NEW state, NEW path \in Locations, CachesGood(state), SettingsTold
    PROVE  ResolveRequire(LoadConfig(state, path), path, disk[path]) = LeadsTo(path)
BY LoadedAliases DEF ResolveRequire, LeadsTo

-----------------------------------------------------------------------------
(* What parsing has found.                                                   *)

\* What is read again leads where its require leads; the rest is as it was.
ReadGood(graph) ==
    /\ CachesGood(graph.state)
    /\ graph.seen \subseteq Files
    /\ DOMAIN graph.nodes = DOMAIN sourceNodes \cup graph.seen
    /\ graph.dirty = dirty \ graph.seen
    /\ \A m \in Reread(graph) : SettingsTold => graph.nodes[m] = LeadsTo(m)
    /\ \A m \in DOMAIN graph.nodes \ Reread(graph) : graph.nodes[m] = sourceNodes[m]

\* What was looked at requires what was looked at too, but for one that is next.
Followed(graph, next) ==
    \A m \in graph.seen : graph.nodes[m] \in graph.seen \/ graph.nodes[m] \notin Files \/ graph.nodes[m] = next

LEMMA ReadIfDirtyReads ==
    ASSUME NEW graph, NEW path \in Files, path \in Locations, path \notin graph.seen, ReadGood(graph),
           Followed(graph, path)
    PROVE  LET next == ReadIfDirty(graph, path)
           IN ReadGood(next) /\ next.seen = graph.seen \cup {path} /\ Followed(next, next.nodes[path])
<1> DEFINE next == ReadIfDirty(graph, path)
           state == LoadConfig(graph.state, path)
<1>1. CASE path \in DOMAIN graph.nodes /\ path \notin graph.dirty
  <2>1. /\ next.nodes = graph.nodes /\ next.dirty = graph.dirty /\ next.state = graph.state
        /\ next.seen = graph.seen \cup {path}
    BY <1>1 DEF ReadIfDirty, Graph
  <2>. HIDE DEF next
  <2>2. path \notin dirty /\ path \in DOMAIN sourceNodes
    BY <1>1 DEF ReadGood
  <2>3. Reread(next) = Reread(graph)
    BY <2>1, <2>2 DEF Reread
  <2>4. ReadGood(next)
    BY <1>1, <2>1, <2>2, <2>3 DEF ReadGood
  <2>5. Followed(next, next.nodes[path])
    BY <2>1 DEF Followed
  <2>. QED BY <2>1, <2>4, <2>5 DEF next
<1>2. CASE ~(path \in DOMAIN graph.nodes /\ path \notin graph.dirty)
  <2> DEFINE to == ResolveRequire(state, path, disk[path])
  <2>1. /\ next.nodes = [k \in DOMAIN graph.nodes \cup {path} |-> IF k = path THEN to ELSE graph.nodes[k]]
        /\ next.dirty = graph.dirty \ {path} /\ next.state = state
        /\ next.seen = graph.seen \cup {path}
    <3>1. next = Read(graph, path, state)
      BY <1>2 DEF ReadIfDirty
    <3>. HIDE DEF next, state
    <3>. QED BY <3>1 DEF Read, Graph, With
  <2>2. CachesGood(state)
    BY LoadConfigIsGood DEF ReadGood
  <2>3. SettingsTold => to = LeadsTo(path)
    BY ResolvesAsOnDisk DEF ReadGood
  <2>. HIDE DEF next, state, to
  <2>4. path \in dirty \/ path \notin DOMAIN sourceNodes
    BY <1>2 DEF ReadGood
  <2>5. Reread(next) = Reread(graph) \cup {path}
    BY <2>1, <2>4 DEF Reread
  <2>6. ReadGood(next)
    <3>1. /\ CachesGood(next.state) /\ next.seen \subseteq Files
          /\ DOMAIN next.nodes = DOMAIN sourceNodes \cup next.seen
          /\ next.dirty = dirty \ next.seen
      BY <2>1, <2>2 DEF ReadGood
    <3>2. ASSUME NEW m \in Reread(next), SettingsTold PROVE next.nodes[m] = LeadsTo(m)
      <4>1. m \in DOMAIN graph.nodes \cup {path}
        BY <3>2, <2>5 DEF ReadGood, Reread
      <4>. QED BY <4>1, <2>1, <2>3, <2>5, <3>2 DEF ReadGood
    <3>3. ASSUME NEW m \in DOMAIN next.nodes \ Reread(next) PROVE next.nodes[m] = sourceNodes[m]
      <4>1. m # path /\ m \in DOMAIN graph.nodes \ Reread(graph)
        BY <2>1, <2>5, <3>3
      <4>. QED BY <4>1, <2>1 DEF ReadGood
    <3>. QED BY <3>1, <3>2, <3>3 DEF ReadGood
  <2>7. Followed(next, next.nodes[path])
    <3>1. SUFFICES ASSUME NEW m \in next.seen
                   PROVE  next.nodes[m] \in next.seen \/ next.nodes[m] \notin Files \/ next.nodes[m] = next.nodes[path]
      BY DEF Followed
    <3>2. m = path \/ (m \in graph.seen /\ m # path /\ m \in DOMAIN graph.nodes)
      BY <2>1, <3>1 DEF ReadGood
    <3>3. m # path => next.nodes[m] = graph.nodes[m]
      BY <2>1, <3>2
    <3>. QED BY <2>1, <3>2, <3>3 DEF Followed
  <2>. QED BY <2>1, <2>6, <2>7 DEF next
<1>. QED BY <1>1, <1>2

\* The requires of a module are followed until one of them was looked at or is no
\* file: there are no more of them than files.
Following(reading, n) ==
    /\ ReadGood(reading.graph) /\ Followed(reading.graph, reading.next)
    /\ \/ reading.next \in reading.graph.seen \/ reading.next \notin Files
       \/ Cardinality(reading.graph.seen) >= n

LEMMA FollowRequireReads ==
    ASSUME NEW reading, NEW n \in Nat, Files \subseteq Locations, IsFiniteSet(Files), Following(reading, n)
    PROVE  Following(FollowRequire(reading), n + 1)
<1> DEFINE seen == reading.graph.seen
           next == FollowRequire(reading)
<1>1. IsFiniteSet(seen) /\ Cardinality(seen) \in Nat
  BY FS_Subset, FS_CardinalityType DEF Following, ReadGood
<1>2. CASE reading.next \in seen \/ reading.next \notin Files
  <2>1. next = reading
    BY <1>2 DEF FollowRequire
  <2>. HIDE DEF next
  <2>2. Following(next, n + 1)
    BY <1>2, <2>1 DEF Following
  <2>. QED BY <2>2 DEF next
<1>3. CASE reading.next \notin seen /\ reading.next \in Files
  <2>1. /\ next.graph = ReadIfDirty(reading.graph, reading.next)
        /\ next.next = next.graph.nodes[reading.next]
    BY <1>3 DEF FollowRequire
  <2>2. ReadGood(next.graph) /\ next.graph.seen = seen \cup {reading.next} /\ Followed(next.graph, next.next)
    <3>. HIDE DEF next
    <3>. QED BY <1>3, <2>1, ReadIfDirtyReads DEF Following
  <2>3. Cardinality(seen) >= n
    BY <1>3 DEF Following
  <2>4. Cardinality(seen \cup {reading.next}) = Cardinality(seen) + 1
    BY <1>1, <1>3, FS_AddElement
  <2>. HIDE DEF next, seen
  <2>5. Following(next, n + 1)
    BY <1>1, <2>2, <2>3, <2>4 DEF Following
  <2>. QED BY <2>5 DEF next
<1>. QED BY <1>2, <1>3

LEMMA ParsedReads ==
    ASSUME NEW graph, NEW path, Files \subseteq Locations, IsFiniteSet(Files), ReadGood(graph), Followed(graph, path)
    PROVE  /\ ReadGood(Parsed(graph, path))
           /\ \A m \in Parsed(graph, path).seen :
                 Parsed(graph, path).nodes[m] \in Parsed(graph, path).seen \/ Parsed(graph, path).nodes[m] \notin Files
<1> DEFINE count == Cardinality(Files)
<1>1. count \in Nat
  BY FS_CardinalityType
<1>2. PICK read : /\ Parsed(graph, path) = read[count].graph
                  /\ \A n \in 0..count : read[n] = IF n = 0 THEN [graph |-> graph, next |-> path]
                                                  ELSE FollowRequire(read[n - 1])
  BY <1>1, ParsedUnfolds
<1> DEFINE Bad == {n \in 0..count : ~Following(read[n], n)}
<1>. HIDE DEF count
<1>3. 0 \notin Bad
  <2>1. read[0] = [graph |-> graph, next |-> path]
    BY <1>1, <1>2
  <2>2. IsFiniteSet(graph.seen) /\ Cardinality(graph.seen) \in Nat
    BY FS_Subset, FS_CardinalityType DEF ReadGood
  <2>3. read[0].graph = graph /\ read[0].next = path
    BY <2>1
  <2>4. Following(read[0], 0)
    BY <2>2, <2>3 DEF Following
  <2>. QED BY <2>4
<1>4. ASSUME NEW n \in 1..count, n - 1 \notin Bad PROVE n \notin Bad
  <2>1. n \in 0..count /\ n - 1 \in 0..count /\ n # 0 /\ n - 1 \in Nat /\ (n - 1) + 1 = n
    BY <1>1
  <2>2. read[n] = FollowRequire(read[n - 1]) /\ Following(read[n - 1], n - 1)
    BY <1>2, <1>4, <2>1
  <2>3. Following(read[n], (n - 1) + 1)
    BY <2>1, <2>2, FollowRequireReads
  <2>. QED BY <2>1, <2>3
<1>5. Bad = {}
  <2>1. Bad \in SUBSET (0..count)
    OBVIOUS
  <2>. HIDE DEF Bad
  <2>. QED BY <1>1, <1>3, <1>4, <2>1, UpTo
<1>6. Following(read[count], count)
  <2>1. count \in 0..count
    BY <1>1
  <2>. QED BY <1>5, <2>1
<1> DEFINE seen == read[count].graph.seen
<1>7. read[count].next \in seen \/ read[count].next \notin Files
  <2>1. CASE Cardinality(seen) >= count
    <3>1. seen \subseteq Files
      BY <1>6 DEF Following, ReadGood
    <3>2. Cardinality(seen) <= Cardinality(Files) /\ (Cardinality(seen) = Cardinality(Files) => seen = Files)
      BY <3>1, FS_Subset
    <3>3. Cardinality(seen) \in Nat
      BY <3>1, FS_Subset, FS_CardinalityType
    <3>4. seen = Files
      <4>. HIDE DEF seen
      <4>. QED BY <1>1, <2>1, <3>2, <3>3 DEF count
    <3>. QED BY <3>4
  <2>. QED BY <1>6, <2>1 DEF Following
<1>8. ReadGood(read[count].graph) /\ Followed(read[count].graph, read[count].next)
  BY <1>6 DEF Following
<1>9. \A m \in seen : read[count].graph.nodes[m] \in seen \/ read[count].graph.nodes[m] \notin Files
  BY <1>7, <1>8 DEF Followed
<1>. QED BY <1>2, <1>8, <1>9

LEMMA ParsedAllReads ==
    ASSUME NEW graph, NEW paths, Len(paths) \in Nat, Files \subseteq Locations, IsFiniteSet(Files),
           ReadGood(graph), \A m \in graph.seen : graph.nodes[m] \in graph.seen \/ graph.nodes[m] \notin Files
    PROVE  ReadGood(ParsedAll(graph, paths))
<1> DEFINE count == Len(paths)
           Good(g) == /\ ReadGood(g)
                      /\ \A m \in g.seen : g.nodes[m] \in g.seen \/ g.nodes[m] \notin Files
<1>2. PICK read : /\ ParsedAll(graph, paths) = read[count]
                  /\ \A n \in 0..count : read[n] = IF n = 0 THEN graph ELSE Parsed(read[n - 1], paths[n])
  BY ParsedAllUnfolds
<1> DEFINE Bad == {n \in 0..count : ~Good(read[n])}
<1>1. count \in Nat
  OBVIOUS
<1>. HIDE DEF count
<1>3. 0 \notin Bad
  <2>1. read[0] = graph
    BY <1>1, <1>2
  <2>. QED BY <2>1
<1>4. ASSUME NEW n \in 1..count, n - 1 \notin Bad PROVE n \notin Bad
  <2>1. n \in 0..count /\ n - 1 \in 0..count /\ n # 0
    BY <1>1
  <2>2. read[n] = Parsed(read[n - 1], paths[n])
    BY <1>2, <2>1
  <2>3. Good(read[n - 1])
    BY <1>4, <2>1
  <2>4. Followed(read[n - 1], paths[n])
    BY <2>3 DEF Followed
  <2>5. Good(read[n])
    BY <2>2, <2>3, <2>4, ParsedReads
  <2>. QED BY <2>5
<1>5. Bad = {}
  <2>1. Bad \in SUBSET (0..count)
    OBVIOUS
  <2>. HIDE DEF Bad
  <2>. QED BY <1>1, <1>3, <1>4, <2>1, UpTo
<1>6. count \in 0..count
  BY <1>1
<1>. QED BY <1>2, <1>5, <1>6

LEMMA FrontendReads ==
    ASSUME CachesInv
    PROVE  ReadGood(Frontend(State)) /\ Frontend(State).seen = {}
<1>1. /\ Frontend(State).state = State /\ Frontend(State).nodes = sourceNodes
      /\ Frontend(State).dirty = dirty /\ Frontend(State).seen = {}
  BY DEF Frontend, Graph
<1>. QED BY <1>1 DEF ReadGood, Reread, CachesInv

-----------------------------------------------------------------------------
(* The invariant of the requires.                                            *)

Pending(x) == \E i \in DOMAIN events : x \in Concerned(events[i])

\* Where a known module's require was resolved to is known itself if it is a file,
Known(m) == sourceNodes[m] \in Files => sourceNodes[m] \in DOMAIN sourceNodes

\* and is where it leads, or is changed and the server not told of it yet.
Current(m) ==
    m \in Files /\ (sourceNodes[m] = LeadsTo(m) \/ (sourceNodes[m] \notin Files /\ LeadsTo(m) \notin Files))
TargetPending(m) == sourceNodes[m] \in DOMAIN sourceNodes /\ Pending(sourceNodes[m])

Holds(m) == Pending(m) \/ (Known(m) /\ (Current(m) \/ TargetPending(m)))

ResolvedInv == SettingsTold => \A m \in DOMAIN sourceNodes \ (dirty \cup outdated) : Holds(m)

RequiresInv == ResolvedInv /\ IsFiniteSet(DOMAIN sourceNodes)

LEMMA RequiresInvImplies ==
    ASSUME ConfigInv, RequiresInv
    PROVE  RequiresAreCurrent
<1>1. GraphDrawsRequires
  BY RequiresAreDrawn DEF RequiresInv
<1>2. ASSUME events = <<>>, NEW m \in DOMAIN sourceNodes \ (dirty \cup outdated)
      PROVE  /\ m \in Files
             /\ \/ sourceNodes[m] = Fresh(m)
                \/ sourceNodes[m] \notin Files /\ Fresh(m) \notin Files
  <2>1. SettingsTold /\ \A x : ~Pending(x)
    BY <1>2 DEF SettingsTold, Pending
  <2>2. Current(m)
    BY <2>1 DEF RequiresInv, ResolvedInv, Holds, TargetPending
  <2>3. m \in Locations /\ CachesGood(State)
    BY <2>2 DEF Current, ConfigInv, FilesInv, CachesInv
  <2>4. Fresh(m) = LeadsTo(m)
    BY <2>1, <2>3, ResolvesAsOnDisk DEF Fresh
  <2>. QED BY <2>2, <2>4 DEF Current
<1>3. CleanRequiresAreCurrent
  BY <1>2 DEF CleanRequiresAreCurrent
<1>. QED BY <1>1, <1>3 DEF RequiresAreCurrent

LEMMA RequiresInvInit == Init => RequiresInv
<1>1. SUFFICES ASSUME Init PROVE RequiresInv
  OBVIOUS
<1>2. DOMAIN sourceNodes = {}
  BY <1>1 DEF Init
<1>. QED BY <1>2, FS_EmptySet DEF RequiresInv, ResolvedInv

-----------------------------------------------------------------------------
(* Steps of the world outside.                                               *)

LEMMA AliasesKept ==
    ASSUME settings' = settings, NEW m
    PROVE  DiskAliases(m)' = DiskAliases(m)
BY ConfigOnDiskKept DEF DiskAliases

\* Where a module's require leads while files are deleted and nothing hides less.
LEMMA LeadsToStays ==
    ASSUME Files \subseteq Locations, settings' = settings, NEW kept \in SUBSET Files, ~Uncovers(kept),
           Files' = kept, NEW m, disk'[m] = disk[m]
    PROVE  /\ LeadsTo(m) \in kept => LeadsTo(m)' = LeadsTo(m)
           /\ LeadsTo(m) \notin Files => LeadsTo(m)' \notin kept
<1> DEFINE To(files) == ResolveStringRequire(files, DiskAliases(m), FALSE, m, disk[m])
<1>1. /\ LeadsTo(m) = IF disk[m] = NoRequire THEN NoUri ELSE To(Files)
      /\ LeadsTo(m)' = IF disk[m] = NoRequire THEN NoUri ELSE To(kept)
  BY AliasesKept DEF LeadsTo
<1>2. NoUri \notin Files /\ NoUri \notin kept
  BY PathsNamed
<1>3. CASE disk[m] = NoRequire \/ \A files : To(files) = NoUri
  BY <1>1, <1>2, <1>3
<1>4. CASE disk[m] # NoRequire /\ \E t : \A files : To(files) = Found(files, t)
  <2>1. PICK t : \A files : To(files) = Found(files, t)
    BY <1>4
  <2>2. LeadsTo(m) = Found(Files, t) /\ LeadsTo(m)' = Found(kept, t)
    BY <1>1, <1>4, <2>1
  <2>3. Found(Files, t) \in kept => Found(kept, t) = Found(Files, t)
    BY FoundStays
  <2>4. Found(Files, t) \notin Files => Found(kept, t) \notin kept
    BY NothingFoundStays
  <2>. QED BY <2>2, <2>3, <2>4
<1>5. \/ \A files : To(files) = NoUri
      \/ \E t : \A files : To(files) = Found(files, t)
  <2>1. ASSUME NEW aliases, NEW required
        PROVE  \/ \A files : ResolveStringRequire(files, aliases, FALSE, m, required) = NoUri
               \/ \E t : \A files : ResolveStringRequire(files, aliases, FALSE, m, required) = Found(files, t)
    BY DEF ResolveStringRequire, Found
  <2>. QED BY <2>1, Zenon
<1>. QED BY <1>3, <1>4, <1>5

\* An event more, while the server does not change.
LEMMA PendingStays ==
    ASSUME events \in Seq(Event), NEW e \in Event, events' = Append(events, e), sourceNodes' = sourceNodes
    PROVE  /\ \A x : Pending(x) => Pending(x)'
           /\ \A x \in Concerned(e) : Pending(x)'
<1>1. /\ \A i \in DOMAIN events : i \in DOMAIN events' /\ events'[i] = events[i]
      /\ Len(events) + 1 \in DOMAIN events' /\ events'[Len(events) + 1] = e
  OBVIOUS
<1>2. ASSUME NEW f PROVE Concerned(f)' = Concerned(f)
  BY DEF Concerned
<1>. QED BY <1>1, <1>2 DEF Pending

\* Files that are deleted, with an event that is about each that is known.
LEMMA DeletionKeeps ==
    ASSUME ConfigInv, RequiresInv, NEW e \in Event, events' = Append(events, e), settings' = settings,
           UNCHANGED Server, NEW kept \in SUBSET Files, disk' = [f \in kept |-> disk[f]],
           \A f \in Files \ kept : f \in DOMAIN sourceNodes => f \in Concerned(e),
           outdated' = IF Uncovers(kept) THEN DOMAIN sourceNodes ELSE outdated
    PROVE  RequiresInv'
<1>1. sourceNodes' = sourceNodes /\ dirty' = dirty /\ Files' = kept /\ Files \subseteq Locations
  BY DEF Server, Files, ConfigInv, FilesInv
<1>2. events \in Seq(Event) /\ (SettingsTold' => SettingsTold)
  BY AppendEvent DEF ConfigInv, EventsInv
<1>3. (\A x : Pending(x) => Pending(x)') /\ (\A x \in Concerned(e) : Pending(x)')
  BY <1>1, <1>2, PendingStays
<1>4. ASSUME SettingsTold', NEW m \in DOMAIN sourceNodes \ (dirty \cup outdated), ~Uncovers(kept)
      PROVE  Holds(m)'
  <2>1. Holds(m)
    BY <1>2, <1>4 DEF RequiresInv, ResolvedInv
  <2>2. CASE Pending(m) \/ m \in Files \ kept
    BY <1>3, <2>2 DEF Holds
  <2>3. CASE ~Pending(m) /\ m \notin Files \ kept
    <3>1. Known(m) /\ (Current(m) \/ TargetPending(m))
      BY <2>1, <2>3 DEF Holds
    <3>2. Known(m)'
      BY <1>1, <3>1 DEF Known
    <3>3. CASE TargetPending(m) \/ sourceNodes[m] \in Files \ kept
      <4>1. TargetPending(m)'
        BY <1>1, <1>3, <3>1, <3>3 DEF TargetPending, Known
      <4>. QED BY <3>2, <4>1 DEF Holds
    <3>4. CASE Current(m) /\ sourceNodes[m] \notin Files \ kept
      <4>1. m \in kept /\ disk'[m] = disk[m]
        BY <2>3, <3>4 DEF Current
      <4>2. /\ LeadsTo(m) \in kept => LeadsTo(m)' = LeadsTo(m)
            /\ LeadsTo(m) \notin Files => LeadsTo(m)' \notin kept
        BY <1>1, <1>4, <4>1, LeadsToStays
      <4>3. Current(m)'
        BY <1>1, <3>4, <4>1, <4>2 DEF Current
      <4>. QED BY <3>2, <4>3 DEF Holds
    <3>. QED BY <3>1, <3>3, <3>4
  <2>. QED BY <2>2, <2>3
<1>5. ResolvedInv'
  BY <1>1, <1>4 DEF ResolvedInv
<1>. QED BY <1>1, <1>5 DEF RequiresInv

LEMMA DeleteFileKeepsRequires ==
    ASSUME ConfigInv, RequiresInv, NEW p \in Paths, DeleteFile(p)
    PROVE  RequiresInv'
<1> DEFINE e == [kind |-> "file", path |-> p, deleted |-> TRUE]
           kept == Files \ {p}
<1>1. /\ events' = Append(events, e) /\ settings' = settings /\ UNCHANGED Server
      /\ disk' = [f \in kept |-> disk[f]]
      /\ outdated' = IF Uncovers(kept) THEN DOMAIN sourceNodes ELSE outdated
  BY DEF DeleteFile, Delete
<1>2. e \in Event /\ kept \in SUBSET Files /\ Concerned(e) = {p}
  BY DEF Event, Locations, Concerned
<1>3. \A f \in Files \ kept : f = p
  OBVIOUS
<1>. HIDE DEF e, kept
<1>. QED BY <1>1, <1>2, <1>3, DeletionKeeps

LEMMA DeleteDirectoryKeepsRequires ==
    ASSUME ConfigInv, ConfigurationsStay, RequiresInv, NEW path \in Deletable, DeleteDirectory(path)
    PROVE  RequiresInv'
<1> DEFINE e == [kind |-> "directory", path |-> path, deleted |-> TRUE]
           kept == Files \ {f \in Files : IsPrefix(path, f)}
<1>1. /\ events' = Append(events, e) /\ UNCHANGED Server
      /\ disk' = [f \in kept |-> disk[f]]
      /\ outdated' = IF Uncovers(kept) THEN DOMAIN sourceNodes ELSE outdated
  BY DEF DeleteDirectory, Delete
<1>2. settings' = settings
  BY DeletedSettingsStay
<1>3. e \in Event /\ kept \in SUBSET Files
  BY DEF Event
<1>4. \A f \in Files \ kept : f \in DOMAIN sourceNodes => f \in Concerned(e)
  <2>1. path # <<>>
    BY DisksAssumption
  <2>2. \A f \in Files \ kept : IsPrefix(path, f)
    OBVIOUS
  <2>3. Concerned(e) = {m \in DOMAIN sourceNodes : IsAncestorOf(path, m)}
    BY DEF Concerned
  <2>. HIDE DEF e, kept
  <2>. QED BY <2>1, <2>2, <2>3 DEF IsAncestorOf
<1>. HIDE DEF e, kept
<1>. QED BY <1>1, <1>2, <1>3, <1>4, DeletionKeeps

LEMMA WriteFileKeepsRequires ==
    ASSUME ConfigInv, RequiresInv, NEW p \in Paths, NEW s \in Requirable, WriteFile(p, s)
    PROVE  RequiresInv'
<1> DEFINE e == [kind |-> "file", path |-> p, deleted |-> FALSE]
<1>1. /\ events' = Append(events, e) /\ settings' = settings /\ UNCHANGED Server
      /\ disk' = With(disk, p, s)
      /\ outdated' = IF p \in Files THEN outdated ELSE outdated \cup DOMAIN sourceNodes
  BY DEF WriteFile
<1>2. e \in Event /\ Concerned(e) = {p}
  BY DEF Event, Locations, Concerned
<1>. HIDE DEF e
<1>3. sourceNodes' = sourceNodes /\ dirty' = dirty
  BY <1>1 DEF Server
<1>4. SettingsTold' => SettingsTold
  BY <1>1, <1>2, AppendEvent DEF ConfigInv, EventsInv
<1>5. (\A x : Pending(x) => Pending(x)') /\ (\A x \in Concerned(e) : Pending(x)')
  BY <1>1, <1>2, <1>3, PendingStays DEF ConfigInv, EventsInv
<1>6. ASSUME SettingsTold', NEW m \in DOMAIN sourceNodes \ (dirty \cup outdated), p \in Files
      PROVE  Holds(m)'
  <2>1. Holds(m)
    BY <1>4, <1>6 DEF RequiresInv, ResolvedInv
  <2>2. Files' = Files /\ \A f \in Files : f # p => disk'[f] = disk[f]
    BY <1>1, <1>6 DEF Files, With
  <2>3. CASE m = p \/ Pending(m)
    BY <1>2, <1>5, <2>3 DEF Holds
  <2>4. CASE m # p /\ ~Pending(m)
    <3>1. Known(m) /\ (Current(m) \/ TargetPending(m))
      BY <2>1, <2>4 DEF Holds
    <3>2. Known(m)' /\ (TargetPending(m) => TargetPending(m)')
      BY <1>3, <1>5, <2>2, <3>1 DEF Known, TargetPending
    <3>3. Current(m) => Current(m)'
      <4>1. SUFFICES ASSUME Current(m) PROVE Current(m)'
        OBVIOUS
      <4>2. disk'[m] = disk[m] /\ m \in Files
        BY <2>2, <2>4, <4>1 DEF Current
      <4>3. LeadsTo(m)' = LeadsTo(m)
        BY <1>1, <2>2, <4>2, AliasesKept DEF LeadsTo
      <4>. QED BY <1>3, <2>2, <4>1, <4>2, <4>3 DEF Current
    <3>. QED BY <3>1, <3>2, <3>3 DEF Holds
  <2>. QED BY <2>3, <2>4
<1>7. ResolvedInv'
  BY <1>1, <1>3, <1>6 DEF ResolvedInv
<1>. QED BY <1>3, <1>7 DEF RequiresInv

LEMMA WriteSettingKeepsRequires ==
    ASSUME ConfigInv, RequiresInv, NEW w \in Settable, NEW s \in Settings, WriteSetting(w[1], w[2], s)
    PROVE  RequiresInv'
<1> DEFINE e == [kind |-> "config", path |-> w[1], deleted |-> ~s.there]
<1>1. events' = Append(events, e) /\ sourceNodes' = sourceNodes
  BY DEF WriteSetting, Server
<1>2. e \in Event /\ e.kind = "config" /\ events \in Seq(Event)
  BY ChangesAssumption DEF Event, ConfigInv, EventsInv
<1>. HIDE DEF e
<1>3. Len(events) + 1 \in DOMAIN events' /\ events'[Len(events) + 1] = e
  BY <1>1, <1>2
<1>4. ~SettingsTold'
  BY <1>2, <1>3 DEF SettingsTold
<1>. QED BY <1>1, <1>4 DEF RequiresInv, ResolvedInv

\* A step that changes nothing but what is cached.
LEMMA NothingKeepsRequires ==
    ASSUME RequiresInv, UNCHANGED <<disk, settings, sourceNodes, dirty, events, outdated>>
    PROVE  RequiresInv'
<1>1. Files' = Files
  BY DEF Files
<1>2. \A m : LeadsTo(m)' = LeadsTo(m)
  BY <1>1, AliasesKept DEF LeadsTo
<1>3. \A f : Concerned(f)' = Concerned(f)
  BY DEF Concerned
<1>4. \A x : Pending(x)' <=> Pending(x)
  BY <1>3 DEF Pending
<1>5. \A m : Holds(m)' <=> Holds(m)
  BY <1>1, <1>2, <1>4 DEF Holds, Known, Current, TargetPending
<1>6. ResolvedInv'
  BY <1>5, EventsKept DEF RequiresInv, ResolvedInv
<1>. QED BY <1>6 DEF RequiresInv

-----------------------------------------------------------------------------
(* Steps of the server.                                                      *)

\* The requires after one another are a recursive function, as the readings of a directory.
LEMMA ReachesUnfolds ==
    ASSUME NEW nodes, NEW m, NEW paths, Cardinality(DOMAIN nodes) \in Nat
    PROVE  \E required :
             /\ Reaches(nodes, m, paths) <=> \E n \in 1..Cardinality(DOMAIN nodes) : required[n] \in paths
             /\ \A n \in 0..Cardinality(DOMAIN nodes) :
                  required[n] = IF n = 0 THEN m
                                ELSE IF required[n - 1] \in DOMAIN nodes THEN nodes[required[n - 1]] ELSE NoUri
<1> DEFINE count == Cardinality(DOMAIN nodes)
           Step(f, n) == IF n = 0 THEN m ELSE IF f[n - 1] \in DOMAIN nodes THEN nodes[f[n - 1]] ELSE NoUri
           Solution(f, k) == f = [n \in 0..k |-> Step(f, n)]
           Bad == {k \in 0..count : ~ \E f : Solution(f, k)}
<1>1. ASSUME NEW f, NEW g, NEW n, n = 0 \/ f[n - 1] = g[n - 1]
      PROVE  Step(f, n) = Step(g, n)
  BY <1>1
<1>2. 0 \notin Bad
  <2> DEFINE f == [n \in 0..0 |-> Step(<<>>, n)]
  <2>1. \A n \in 0..0 : Step(<<>>, n) = Step(f, n)
    <3>. HIDE DEF f, Step
    <3>. QED BY <1>1
  <2>2. f = [n \in 0..0 |-> Step(f, n)]
    <3>. HIDE DEF Step
    <3>. QED BY <2>1
  <2>. HIDE DEF Step, f
  <2>. QED BY <2>2
<1>3. ASSUME NEW k \in 1..count, k - 1 \notin Bad PROVE k \notin Bad
  <2>1. PICK f : Solution(f, k - 1)
    <3>1. k - 1 \in 0..count
      OBVIOUS
    <3>. HIDE DEF Solution
    <3>. QED BY <1>3, <3>1
  <2> DEFINE g == [n \in 0..k |-> Step(f, n)]
  <2>2. \A n \in 0..(k - 1) : g[n] = f[n]
    <3>. HIDE DEF Step
    <3>. QED BY <2>1, <1>3
  <2>3. \A n \in 0..k : Step(f, n) = Step(g, n)
    <3>1. \A n \in 0..k : n = 0 \/ n - 1 \in 0..(k - 1)
      BY <1>3
    <3>. HIDE DEF g, Step
    <3>. QED BY <1>1, <2>2, <3>1
  <2>4. Solution(g, k)
    <3>. HIDE DEF Step
    <3>. QED BY <2>3
  <2>. HIDE DEF Solution, g
  <2>. QED BY <2>4
<1>4. Bad = {}
  <2>1. Bad \in SUBSET (0..count)
    OBVIOUS
  <2>2. count \in Nat
    OBVIOUS
  <2>3. \A n \in 1..count : n \in Bad => n - 1 \in Bad
    <3>. HIDE DEF Bad, count
    <3>. QED BY <1>3
  <2>. HIDE DEF Bad, count
  <2>. QED BY <1>2, <2>1, <2>2, <2>3, UpTo
<1>5. PICK f : Solution(f, count)
  <2>1. count \in 0..count
    OBVIOUS
  <2>. HIDE DEF Solution, count
  <2>. QED BY <1>4, <2>1
<1> DEFINE required == CHOOSE h : Solution(h, count)
<1>6. Solution(required, count)
  <2>. HIDE DEF Solution
  <2>. QED BY <1>5
<1>7. Reaches(nodes, m, paths) <=> \E n \in 1..count : required[n] \in paths
  BY DEF Reaches
<1>8. \A n \in 0..count : required[n] = Step(required, n)
  <2>. HIDE DEF Step, required, count
  <2>. QED BY <1>6
<1>. HIDE DEF required
<1>. QED BY <1>7, <1>8

\* What requires a module is one of its dependents.
LEMMA RequiringDepends ==
    ASSUME NEW nodes, IsFiniteSet(DOMAIN nodes), NEW m \in DOMAIN nodes, NEW paths, nodes[m] \in paths
    PROVE  m \in Dependents(nodes, paths)
<1> DEFINE count == Cardinality(DOMAIN nodes)
<1>1. count \in Nat /\ count # 0
  BY FS_CardinalityType, FS_EmptySet
<1>2. PICK required :
        /\ Reaches(nodes, m, paths) <=> \E n \in 1..count : required[n] \in paths
        /\ \A n \in 0..count :
             required[n] = IF n = 0 THEN m
                           ELSE IF required[n - 1] \in DOMAIN nodes THEN nodes[required[n - 1]] ELSE NoUri
  BY <1>1, ReachesUnfolds
<1>. HIDE DEF count
<1>3. 0 \in 0..count /\ 1 \in 0..count /\ 1 \in 1..count
  BY <1>1
<1>4. required[0] = m /\ required[1] = nodes[m]
  BY <1>2, <1>3
<1>5. Reaches(nodes, m, paths)
  BY <1>2, <1>3, <1>4
<1>. QED BY <1>5 DEF Dependents

LEMMA OnDidChangeKeepsRequires ==
    ASSUME ConfigInv, RequiresInv, OnDidChangeWatchedFiles
    PROVE  RequiresInv'
<1> DEFINE done == [dirty |-> dirty \cup MarkedDirty, deleted |-> DeletedModules]
           told == \E i \in DOMAIN events : events[i].kind = "config"
           nodes == [m \in DOMAIN sourceNodes \ done.deleted |-> sourceNodes[m]]
<1>1. /\ sourceNodes' = nodes /\ dirty' = Cleared(done) /\ events' = <<>>
      /\ outdated' = IF told THEN DOMAIN nodes ELSE outdated \cap DOMAIN nodes
      /\ disk' = disk /\ settings' = settings
  BY DEF OnDidChangeWatchedFiles
<1>2. DOMAIN nodes \subseteq DOMAIN sourceNodes /\ DOMAIN nodes = DOMAIN sourceNodes \ DeletedModules
      /\ \A m \in DOMAIN nodes : nodes[m] = sourceNodes[m]
  OBVIOUS
<1>3. dirty' = (dirty \cup MarkedDirty \cup Dependents(sourceNodes, DeletedModules)) \ DeletedModules
  BY <1>1 DEF Cleared
<1>4. IsFiniteSet(DOMAIN sourceNodes) /\ IsFiniteSet(DOMAIN nodes)
  <2>. HIDE DEF nodes
  <2>. QED BY <1>2, FS_Subset DEF RequiresInv
<1>. HIDE DEF done, nodes
<1>5. ASSUME NEW x \in DOMAIN sourceNodes, Pending(x), NEW m \in Dependents(sourceNodes, {x})
      PROVE  m \in MarkedDirty
  <2>1. PICK i \in DOMAIN events : x \in Concerned(events[i])
    BY <1>5 DEF Pending
  <2>2. m \in MarkDirty(sourceNodes, x)
    BY <1>5 DEF MarkDirty
  <2>. QED BY <2>1, <2>2 DEF MarkedDirty
<1>6. ASSUME ~told, NEW m \in DOMAIN nodes \ (dirty' \cup outdated')
      PROVE  Holds(m)'
  <2>1. m \in DOMAIN sourceNodes \ (dirty \cup outdated) /\ m \notin MarkedDirty
    BY <1>1, <1>2, <1>3, <1>6
  <2>2. SettingsTold
    BY <1>6 DEF SettingsTold
  <2>3. ~Pending(m)
    BY <1>5, <2>1 DEF Dependents
  <2>4. sourceNodes[m] \in DOMAIN sourceNodes => ~Pending(sourceNodes[m]) /\ sourceNodes[m] \notin DeletedModules
    <3>1. sourceNodes[m] \in DOMAIN sourceNodes => ~Pending(sourceNodes[m])
      BY <1>4, <1>5, <2>1, RequiringDepends
    <3>2. ASSUME NEW x \in DeletedModules PROVE Pending(x)
      BY DEF DeletedModules, Pending
    <3>. QED BY <3>1, <3>2
  <2>5. Known(m) /\ Current(m)
    BY <2>1, <2>2, <2>3, <2>4 DEF RequiresInv, ResolvedInv, Holds, TargetPending
  <2>6. Files' = Files /\ LeadsTo(m)' = LeadsTo(m) /\ sourceNodes'[m] = sourceNodes[m]
    <3>1. Files' = Files
      BY <1>1 DEF Files
    <3>2. LeadsTo(m)' = LeadsTo(m)
      BY <1>1, <3>1, AliasesKept DEF LeadsTo
    <3>. QED BY <1>1, <1>2, <1>6, <3>1, <3>2
  <2>7. Known(m)' /\ Current(m)'
    BY <1>1, <1>2, <2>4, <2>5, <2>6 DEF Known, Current
  <2>. QED BY <2>7 DEF Holds
<1>7. ResolvedInv'
  BY <1>1, <1>6 DEF ResolvedInv
<1>. QED BY <1>1, <1>4, <1>7 DEF RequiresInv

LEMMA ParseKeepsRequires ==
    ASSUME ConfigInv, RequiresInv, NEW p \in Locations, Parse(p)
    PROVE  RequiresInv'
<1> DEFINE graph == Parsed(Frontend(State), p)
<1>1. /\ sourceNodes' = graph.nodes /\ dirty' = graph.dirty /\ outdated' = outdated \ Reread(graph)
      /\ UNCHANGED <<disk, settings, events>>
  <2>1. Take(graph) /\ UNCHANGED <<disk, settings, events>>
    BY DEF Parse
  <2>. HIDE DEF graph
  <2>. QED BY <2>1 DEF Take
<1>2. /\ ReadGood(graph)
      /\ \A m \in graph.seen : graph.nodes[m] \in graph.seen \/ graph.nodes[m] \notin Files
  <2>1. Followed(Frontend(State), p)
    BY FrontendReads DEF ConfigInv, Followed
  <2>. QED BY <2>1, FrontendReads, ParsedReads DEF ConfigInv, FilesInv
<1>. HIDE DEF graph
<1>3. Files' = Files /\ (\A m : LeadsTo(m)' = LeadsTo(m)) /\ (SettingsTold' <=> SettingsTold)
  <2>1. Files' = Files
    BY <1>1 DEF Files
  <2>. QED BY <1>1, <2>1, AliasesKept, EventsKept DEF LeadsTo
<1>4. DOMAIN graph.nodes = DOMAIN sourceNodes \cup graph.seen
  BY <1>2 DEF ReadGood
<1>5. \A x : Pending(x) => Pending(x)'
  <2>1. \A f : Concerned(f) \subseteq Concerned(f)'
    BY <1>1, <1>4 DEF Concerned
  <2>. QED BY <1>1, <2>1 DEF Pending
<1>6. ASSUME SettingsTold, NEW m \in DOMAIN graph.nodes \ (dirty' \cup outdated')
      PROVE  Holds(m)'
  <2>1. CASE m \in Reread(graph)
    <3>1. m \in graph.seen /\ m \in Files /\ graph.nodes[m] = LeadsTo(m)
      BY <1>2, <1>6, <2>1 DEF Reread, ReadGood
    <3>2. Known(m)' /\ Current(m)'
      BY <1>1, <1>2, <1>3, <1>4, <3>1 DEF Known, Current
    <3>. QED BY <3>2 DEF Holds
  <2>2. CASE m \notin Reread(graph)
    <3>1. m \in DOMAIN sourceNodes \ (dirty \cup outdated) /\ graph.nodes[m] = sourceNodes[m]
      BY <1>1, <1>2, <1>6, <2>2 DEF Reread, ReadGood
    <3>2. Holds(m)
      BY <1>6, <3>1 DEF RequiresInv, ResolvedInv
    <3>3. (Known(m) => Known(m)') /\ (Current(m) => Current(m)') /\ (TargetPending(m) => TargetPending(m)')
      BY <1>1, <1>3, <1>4, <1>5, <3>1 DEF Known, Current, TargetPending
    <3>. QED BY <1>5, <3>2, <3>3 DEF Holds
  <2>. QED BY <2>1, <2>2
<1>7. ResolvedInv'
  BY <1>1, <1>3, <1>6 DEF ResolvedInv
<1>8. IsFiniteSet(DOMAIN graph.nodes)
  <2>1. IsFiniteSet(graph.seen)
    BY <1>2, FS_Subset DEF ReadGood, ConfigInv, FilesInv
  <2>. QED BY <1>4, <2>1, FS_Union DEF RequiresInv
<1>. QED BY <1>1, <1>7, <1>8 DEF RequiresInv

\* The files that a renaming may rewrite are parsed before.
LEMMA RewriteReads ==
    ASSUME ConfigInv, NEW renames
    PROVE  ReadGood(ParsedAll(Frontend(State), SetToSeq(RewrittenModules(renames) \cap Files)))
<1> DEFINE modules == RewrittenModules(renames) \cap Files
<1>1. Files \subseteq Locations /\ IsFiniteSet(Files) /\ modules \in SUBSET Files
  BY DEF ConfigInv, FilesInv
<1>. HIDE DEF modules
<1>2. IsFiniteSet(modules)
  BY <1>1, FS_Subset
<1>3. Len(SetToSeq(modules)) \in Nat
  BY <1>2, SetToSeqType
<1>4. ReadGood(ParsedAll(Frontend(State), SetToSeq(modules)))
  BY <1>1, <1>3, FrontendReads, ParsedAllReads DEF ConfigInv
<1>. QED BY <1>4 DEF modules

LEMMA RenameFilesKeepsRequires ==
    ASSUME ConfigInv, RequiresInv, NEW r \in Renamable, RenameFiles(r[1], r[2])
    PROVE  RequiresInv'
<1> DEFINE old == r[1]
           new == r[2]
           modules == RewrittenModules(Renaming(old, new)) \cap Files
           graph == ParsedAll(Frontend(State), SetToSeq(modules))
           texts == TextsAfter(WillRenameFiles(graph, Renaming(old, new)))
           edited == {f \in Files \ {old} : texts[f] # disk[f]}
<1>1. sourceNodes' = graph.nodes /\ MoveFile(old, new, texts, edited)
  BY DEF RenameFiles, WillRename, RewriteAndMove
<1>2. Files \subseteq Locations /\ IsFiniteSet(Files)
  BY DEF ConfigInv, FilesInv
<1>3. ReadGood(graph)
  BY RewriteReads
<1>. HIDE DEF graph
<1> DEFINE written == {Written(f, FALSE) : f \in edited}
           moved == <<Written(old, TRUE), Written(new, FALSE)>>
<1>4. /\ events' = events \o SetToSeq(written) \o moved
      /\ outdated' = (outdated \cup DOMAIN graph.nodes) \ edited
  <2>. HIDE DEF texts, edited
  <2>. QED BY <1>1 DEF MoveFile
<1>5. edited \in SUBSET Files
  OBVIOUS
<1>. HIDE DEF texts, edited
<1>6. \A m \in edited : Pending(m)'
  <2>1. SetToSeq(written) \in Seq(written) /\ ToSet(SetToSeq(written)) = written
    <3>1. IsFiniteSet(edited)
      BY <1>2, <1>5, FS_Subset
    <3> DEFINE g == [f \in edited |-> Written(f, FALSE)]
    <3>2. g \in Surjection(edited, written)
      BY DEF Surjection
    <3>3. IsFiniteSet(written)
      <4>. HIDE DEF g, written
      <4>. QED BY <3>1, <3>2, FS_Surjection
    <3>. HIDE DEF written
    <3>. QED BY <3>3, SetToSeqIs
  <2> DEFINE told == SetToSeq(written)
  <2>2. ASSUME NEW m \in edited PROVE \E i \in DOMAIN events' : events'[i] = Written(m, FALSE)
    <3>1. Written(m, FALSE) \in ToSet(told)
      BY <2>1
    <3>2. PICK j \in DOMAIN told : told[j] = Written(m, FALSE)
      <4>. HIDE DEF told, written
      <4>. QED BY <3>1 DEF ToSet
    <3>3. events \in Seq(Event) /\ told \in Seq(written)
      BY <2>1 DEF ConfigInv, EventsInv
    <3>4. Len(moved) = 2 /\ moved = <<moved[1], moved[2]>>
      OBVIOUS
    <3>5. events' = events \o told \o <<moved[1], moved[2]>>
      BY <1>4
    <3>. HIDE DEF told, written, moved
    <3>6. /\ events' \in Seq((Event \cup written) \cup {moved[1], moved[2]})
          /\ Len(events) + j \in DOMAIN events' /\ events'[Len(events) + j] = told[j]
      <4> DEFINE S == (Event \cup written) \cup {moved[1], moved[2]}
      <4>1. /\ events \in Seq(S) /\ told \in Seq(S) /\ <<moved[1], moved[2]>> \in Seq(S)
            /\ Len(<<moved[1], moved[2]>>) = 2
        <5>1. Event \subseteq S /\ written \subseteq S /\ moved[1] \in S /\ moved[2] \in S
          OBVIOUS
        <5>. HIDE DEF S
        <5>. QED BY <3>3, <5>1, PairIsSequence
      <4> DEFINE pair == <<moved[1], moved[2]>>
      <4>. HIDE DEF S, pair
      <4>2. events \in Seq(S) /\ told \in Seq(S) /\ pair \in Seq(S) /\ events' = (events \o told) \o pair
        BY <3>5, <4>1 DEF pair
      <4>3. events \o told \in Seq(S) /\ Len(events \o told) = Len(events) + Len(told)
            /\ Len(events) + j \in 1..(Len(events) + Len(told)) /\ (events \o told)[Len(events) + j] = told[j]
            /\ Len(events) \in Nat /\ Len(told) \in Nat
        <5>1. events \o told \in Seq(S) /\ Len(events \o told) = Len(events) + Len(told)
              /\ Len(events) \in Nat /\ Len(told) \in Nat
          BY <4>2
        <5>2. j \in 1..Len(told)
          BY <3>2, <4>2
        <5>3. (events \o told)[Len(events) + j] = told[j]
          BY <4>2, <5>2
        <5>. QED BY <5>1, <5>2, <5>3
      <4> DEFINE first == events \o told
      <4>. HIDE DEF first
      <4>4. first \in Seq(S) /\ events' = first \o pair /\ Len(events) + j \in 1..Len(first)
            /\ first[Len(events) + j] = told[j]
        BY <4>2, <4>3 DEF first
      <4>5. /\ events' \in Seq(S) /\ Len(events) + j \in DOMAIN events'
            /\ events'[Len(events) + j] = first[Len(events) + j]
        BY <4>2, <4>4
      <4>. QED BY <4>4, <4>5 DEF S
    <3>. QED BY <3>2, <3>6
  <2>3. ASSUME NEW m PROVE m \in Concerned(Written(m, FALSE))'
    BY DEF Concerned, Written
  <2>. HIDE DEF told, written
  <2>4. ASSUME NEW m \in edited PROVE Pending(m)'
    <3>1. PICK i \in DOMAIN events' : events'[i] = Written(m, FALSE)
      BY <2>2
    <3>2. m \in Concerned(events[i])'
      BY <3>1 DEF Concerned, Written
    <3>. QED BY <3>1, <3>2 DEF Pending
  <2>. QED BY <2>4
<1>7. ResolvedInv'
  BY <1>1, <1>4, <1>6 DEF ResolvedInv, Holds
<1>8. IsFiniteSet(DOMAIN graph.nodes)
  <2>1. IsFiniteSet(graph.seen)
    BY <1>2, <1>3, FS_Subset DEF ReadGood
  <2>2. DOMAIN graph.nodes = DOMAIN sourceNodes \cup graph.seen
    BY <1>3 DEF ReadGood
  <2>. QED BY <2>1, <2>2, FS_Union DEF RequiresInv
<1>. QED BY <1>1, <1>7, <1>8 DEF RequiresInv

LEMMA RequiresInvNext ==
    ASSUME ConfigurationsStay, ConfigInv, RequiresInv, [Next]_vars
    PROVE  RequiresInv'
<1>1. CASE \E p \in Locations : Parse(p)
  BY <1>1, ParseKeepsRequires
<1>2. CASE \E p \in Locations, d \in Directories : ParseInterrupted(p, d)
  BY <1>2, NothingKeepsRequires DEF ParseInterrupted
<1>3. CASE OnDidChangeWatchedFiles
  BY <1>3, OnDidChangeKeepsRequires
<1>4. CASE \E r \in Renamable : RenameFiles(r[1], r[2])
  BY <1>4, RenameFilesKeepsRequires
<1>5. CASE \E p \in Paths, s \in Requirable : WriteFile(p, s)
  BY <1>5, WriteFileKeepsRequires
<1>6. CASE \E p \in Paths : DeleteFile(p)
  BY <1>6, DeleteFileKeepsRequires
<1>7. CASE \E d \in Deletable : DeleteDirectory(d)
  BY <1>7, DeleteDirectoryKeepsRequires
<1>8. CASE \E w \in Settable, s \in Settings : WriteSetting(w[1], w[2], s)
  BY <1>8, WriteSettingKeepsRequires
<1>9. CASE UNCHANGED vars
  BY <1>9, NothingKeepsRequires DEF vars
<1>. QED BY <1>1, <1>2, <1>3, <1>4, <1>5, <1>6, <1>7, <1>8, <1>9 DEF Next

\* Once the server is told of every change, what a module's require resolved to is
\* what it resolves to now, or both are no file, and the graph drawn of the requires
\* has exactly the edges between the modules reached
\* (WorkspaceFolder::onDidChangeWatchedFiles, RequireGraph.cpp): whatever files,
\* strings, aliases and renamings there are and in whatever order files change, but
\* for modules parsed before a file is created or uncovered or a configuration is
\* written.
THEOREM ResolvedRequiresStayCurrent ==
    ASSUME ConfigurationsStay
    PROVE  Spec => []RequiresAreCurrent
<1>1. ConfigInv /\ RequiresInv /\ [Next]_vars => ConfigInv' /\ RequiresInv'
  BY ConfigInvNext, RequiresInvNext
<1>2. ConfigInv /\ RequiresInv => RequiresAreCurrent
  BY RequiresInvImplies
<1>. QED BY <1>1, <1>2, ConfigInvInit, RequiresInvInit, PTL DEF Spec

-----------------------------------------------------------------------------
(* Strings that lead to a path.                                              *)

Ordinary(c) == c[1] \notin {"", ".", "..", "/"}

LEMMA WalkedIs ==
    /\ \A at : Walked(at, Here) = at
    /\ \A at : Walked(at, Up) = IF at = <<>> THEN at ELSE Front(at)
    /\ \A at, c : Ordinary(c) => Walked(at, c) = Append(at, c)
<1> DEFINE Empty == <<"", "">>
<1>1. Here[1] = "." /\ Up[1] = ".." /\ Slash[1] = "/" /\ Empty[1] = ""
  BY Zenon DEF Here, Up, Slash
<1>2. "." # ".." /\ ".." # "" /\ ".." # "/"
  BY Zenon
<1>3. \A at, c : Walked(at, c) =
        CASE c \in {Here, Empty} -> at
          [] c = Up -> IF at = <<>> THEN at ELSE Front(at)
          [] c = Slash -> <<>>
          [] OTHER -> Append(at, c)
  BY Zenon DEF Walked
<1>4. \A c : Ordinary(c) => c[1] # "." /\ c[1] # ".." /\ c[1] # "/" /\ c[1] # ""
  BY Zenon DEF Ordinary
<1>5. Up \notin {Here, Empty} /\ Up # Slash /\ Here # Up /\ Here # Slash
  BY <1>1, <1>2, Zenon
<1>6. \A c : Ordinary(c) => c \notin {Here, Empty} /\ c # Up /\ c # Slash
  BY <1>1, <1>4, Zenon
<1>. HIDE DEF Empty
<1>. QED BY <1>3, <1>5, <1>6

\* A prefix shorter by one, and one longer by one.
LEMMA PrefixSteps ==
    ASSUME NEW C, NEW p \in Seq(C), NEW j \in 1..Len(p)
    PROVE  /\ SubSeq(p, 1, j) # <<>> /\ Front(SubSeq(p, 1, j)) = SubSeq(p, 1, j - 1)
           /\ Append(SubSeq(p, 1, j - 1), p[j]) = SubSeq(p, 1, j)
<1>1. /\ SubSeq(p, 1, j) \in Seq(C) /\ Len(SubSeq(p, 1, j)) = j
      /\ \A i \in 1..j : SubSeq(p, 1, j)[i] = p[i]
  OBVIOUS
<1>2. /\ SubSeq(p, 1, j - 1) \in Seq(C) /\ Len(SubSeq(p, 1, j - 1)) = j - 1
      /\ \A i \in 1..(j - 1) : SubSeq(p, 1, j - 1)[i] = p[i]
  OBVIOUS
<1> DEFINE long == SubSeq(p, 1, j)
           short == SubSeq(p, 1, j - 1)
<1>. HIDE DEF long, short
<1>3. long # <<>> /\ Front(long) = SubSeq(long, 1, j - 1)
  BY <1>1 DEF long, Front
<1>4. SubSeq(long, 1, j - 1) = short
  BY <1>1, <1>2 DEF long, short
<1>5. Append(short, p[j]) = long
  <2>1. p[j] \in C
    OBVIOUS
  <2> DEFINE a == Append(short, p[j])
  <2>2. a \in Seq(C) /\ Len(a) = j /\ a[j] = p[j] /\ \A i \in 1..(j - 1) : a[i] = p[i]
    BY <1>2, <2>1 DEF short
  <2>. HIDE DEF a
  <2>3. \A i \in 1..j : a[i] = long[i]
    BY <1>1, <2>2 DEF long
  <2>. QED BY <1>1, <2>2, <2>3 DEF long, a
<1>. QED BY <1>3, <1>4, <1>5 DEF long, short

\* The steps of a path are a recursive function, as the readings of a directory.
WalksAlong(at, base, s) ==
    /\ ResolvePath(base, s) = at[Len(s)]
    /\ \A n \in 0..Len(s) : at[n] = IF n = 0 THEN base ELSE Walked(at[n - 1], s[n])

LEMMA ResolvePathUnfolds ==
    ASSUME NEW base, NEW s, Len(s) \in Nat
    PROVE  \E at : WalksAlong(at, base, s)
<1> DEFINE count == Len(s)
           Step(f, n) == IF n = 0 THEN base ELSE Walked(f[n - 1], s[n])
           Solution(f, k) == f = [n \in 0..k |-> Step(f, n)]
           Bad == {k \in 0..count : ~ \E f : Solution(f, k)}
<1>1. ASSUME NEW f, NEW g, NEW n, n = 0 \/ f[n - 1] = g[n - 1]
      PROVE  Step(f, n) = Step(g, n)
  BY <1>1
<1>2. 0 \notin Bad
  <2> DEFINE f == [n \in 0..0 |-> Step(<<>>, n)]
  <2>1. \A n \in 0..0 : Step(<<>>, n) = Step(f, n)
    <3>. HIDE DEF f, Step
    <3>. QED BY <1>1
  <2>2. f = [n \in 0..0 |-> Step(f, n)]
    <3>. HIDE DEF Step
    <3>. QED BY <2>1
  <2>. HIDE DEF Step, f
  <2>. QED BY <2>2
<1>3. ASSUME NEW k \in 1..count, k - 1 \notin Bad PROVE k \notin Bad
  <2>1. PICK f : Solution(f, k - 1)
    <3>1. k - 1 \in 0..count
      OBVIOUS
    <3>. HIDE DEF Solution
    <3>. QED BY <1>3, <3>1
  <2> DEFINE g == [n \in 0..k |-> Step(f, n)]
  <2>2. \A n \in 0..(k - 1) : g[n] = f[n]
    <3>. HIDE DEF Step
    <3>. QED BY <2>1, <1>3
  <2>3. \A n \in 0..k : Step(f, n) = Step(g, n)
    <3>1. \A n \in 0..k : n = 0 \/ n - 1 \in 0..(k - 1)
      BY <1>3
    <3>. HIDE DEF g, Step
    <3>. QED BY <1>1, <2>2, <3>1
  <2>4. Solution(g, k)
    <3>. HIDE DEF Step
    <3>. QED BY <2>3
  <2>. HIDE DEF Solution, g
  <2>. QED BY <2>4
<1>4. Bad = {}
  <2>1. Bad \in SUBSET (0..count)
    OBVIOUS
  <2>2. count \in Nat
    OBVIOUS
  <2>3. \A n \in 1..count : n \in Bad => n - 1 \in Bad
    <3>. HIDE DEF Bad, count
    <3>. QED BY <1>3
  <2>. HIDE DEF Bad, count
  <2>. QED BY <1>2, <2>1, <2>2, <2>3, UpTo
<1>5. PICK f : Solution(f, count)
  <2>1. count \in 0..count
    OBVIOUS
  <2>. HIDE DEF Solution, count
  <2>. QED BY <1>4, <2>1
<1> DEFINE at == CHOOSE h : Solution(h, count)
<1>6. Solution(at, count)
  <2>. HIDE DEF Solution
  <2>. QED BY <1>5
<1>7. ResolvePath(base, s) = at[count]
  BY DEF ResolvePath
<1>8. \A n \in 0..count : at[n] = Step(at, n)
  <2>. HIDE DEF Step, at, count
  <2>. QED BY <1>6
<1>. HIDE DEF at
<1>. QED BY <1>7, <1>8 DEF WalksAlong

\* Some "." and "..", then names: the path of the names from where the ".." lead.
LEMMA ResolvesTo ==
    ASSUME NEW C, NEW base \in Seq(C), NEW p \in Seq(C), NEW s, Len(s) \in Nat,
           NEW h \in Nat, NEW c \in 0..Len(base), c <= Len(p), SubSeq(p, 1, c) = SubSeq(base, 1, c),
           Len(s) = h + (Len(base) - c) + (Len(p) - c),
           \A n \in 1..h : s[n] = Here,
           \A n \in (h + 1)..(h + (Len(base) - c)) : s[n] = Up,
           \A n \in (h + (Len(base) - c) + 1)..Len(s) :
              s[n] = p[c + (n - h - (Len(base) - c))] /\ Ordinary(s[n])
    PROVE  ResolvePath(base, s) = p
<1> DEFINE k == Len(base) - c
           At(n) == IF n <= h THEN base
                    ELSE IF n <= h + k THEN SubSeq(base, 1, Len(base) - (n - h))
                    ELSE SubSeq(p, 1, c + (n - h - k))
<1>1. /\ k \in Nat /\ h \in Nat /\ c \in Nat /\ Len(base) \in Nat /\ Len(p) \in Nat /\ Len(base) = k + c
      /\ Len(s) = h + k + (Len(p) - c) /\ h + k <= Len(s)
  OBVIOUS
<1>2. /\ SubSeq(base, 1, Len(base)) = base /\ SubSeq(p, 1, Len(p)) = p
  OBVIOUS
<1>3. \A n \in (h + k + 1)..Len(s) : s[n] = p[c + (n - h - k)] /\ Ordinary(s[n])
  OBVIOUS
<1>4. \A n \in (h + 1)..(h + k) : s[n] = Up
  OBVIOUS
<1>5. PICK at : /\ ResolvePath(base, s) = at[Len(s)]
                /\ \A n \in 0..Len(s) : at[n] = IF n = 0 THEN base ELSE Walked(at[n - 1], s[n])
  <2>1. PICK at : WalksAlong(at, base, s)
    BY ResolvePathUnfolds
  <2>. QED BY <2>1 DEF WalksAlong
<1>. HIDE DEF k
<1>6. \A n \in h..(h + k) : At(n) = SubSeq(base, 1, Len(base) - (n - h))
  BY <1>1, <1>2
<1>7. \A n \in (h + k)..Len(s) : At(n) = SubSeq(p, 1, c + (n - h - k))
  <2>1. At(h + k) = SubSeq(base, 1, c)
    <3>1. Len(base) - ((h + k) - h) = c /\ h + k \in h..(h + k)
      BY <1>1
    <3>. QED BY <1>6, <3>1
  <2>2. SubSeq(p, 1, c + ((h + k) - h - k)) = SubSeq(p, 1, c)
    <3>1. c + ((h + k) - h - k) = c
      BY <1>1
    <3>. QED BY <3>1
  <2>3. ASSUME NEW n \in (h + k)..Len(s), n # h + k PROVE At(n) = SubSeq(p, 1, c + (n - h - k))
    BY <1>1, <2>3
  <2>. HIDE DEF At
  <2>. QED BY <2>1, <2>2, <2>3
<1>8. ASSUME NEW n \in 1..Len(s) PROVE Walked(At(n - 1), s[n]) = At(n)
  <2>0. n \in Int /\ 1 <= n /\ n <= Len(s) /\ (n <= h \/ (h < n /\ n <= h + k) \/ h + k < n)
    BY <1>1
  <2>1. CASE n <= h
    <3>1. At(n - 1) = base /\ At(n) = base
      BY <1>1, <2>0, <2>1
    <3>2. s[n] = Here
      BY <1>1, <2>0, <2>1
    <3>. HIDE DEF At
    <3>. QED BY <3>1, <3>2, WalkedIs
  <2>2. CASE h < n /\ n <= h + k
    <3> DEFINE j == Len(base) - (n - 1 - h)
    <3>1. j \in 1..Len(base) /\ j - 1 = Len(base) - (n - h)
      BY <1>1, <2>0, <2>2
    <3>2. At(n - 1) = SubSeq(base, 1, j) /\ At(n) = SubSeq(base, 1, j - 1)
      <4>1. n - 1 \in h..(h + k) /\ n \in h..(h + k)
        BY <1>1, <2>0, <2>2
      <4>. HIDE DEF At
      <4>. QED BY <1>6, <3>1, <4>1
    <3>3. s[n] = Up
      <4>1. n \in (h + 1)..(h + k)
        BY <1>1, <2>0, <2>2
      <4>. QED BY <1>4, <4>1
    <3>. HIDE DEF At, j
    <3>4. SubSeq(base, 1, j) # <<>> /\ Front(SubSeq(base, 1, j)) = SubSeq(base, 1, j - 1)
      BY <3>1, PrefixSteps
    <3>. QED BY <3>2, <3>3, <3>4, WalkedIs
  <2>3. CASE h + k < n
    <3> DEFINE j == c + (n - h - k)
    <3>1. j \in 1..Len(p) /\ j - 1 = c + (n - 1 - h - k)
      BY <1>1, <2>0, <2>3
    <3>2. At(n - 1) = SubSeq(p, 1, j - 1) /\ At(n) = SubSeq(p, 1, j)
      <4>1. n - 1 \in (h + k)..Len(s) /\ n \in (h + k)..Len(s)
        BY <1>1, <2>0, <2>3
      <4>. HIDE DEF At
      <4>. QED BY <1>7, <3>1, <4>1
    <3>3. s[n] = p[j] /\ Ordinary(s[n])
      <4>1. n \in (h + k + 1)..Len(s)
        BY <1>1, <2>0, <2>3
      <4>. QED BY <1>3, <4>1
    <3>. HIDE DEF At, j
    <3>4. Append(SubSeq(p, 1, j - 1), p[j]) = SubSeq(p, 1, j)
      BY <3>1, PrefixSteps
    <3>. QED BY <3>2, <3>3, <3>4, WalkedIs
  <2>. QED BY <2>0, <2>1, <2>2, <2>3
<1> DEFINE Bad == {n \in 0..Len(s) : at[n] # At(n)}
<1>9. At(0) = base /\ At(Len(s)) = p
  <2>1. At(0) = base
    BY <1>1
  <2>2. c + (Len(s) - h - k) = Len(p) /\ Len(s) \in (h + k)..Len(s)
    BY <1>1
  <2>. HIDE DEF At
  <2>. QED BY <1>2, <1>7, <2>1, <2>2
<1>. HIDE DEF At
<1>10. Bad = {}
  <2>1. 0 \notin Bad
    BY <1>1, <1>5, <1>9
  <2>2. Bad \in SUBSET (0..Len(s))
    OBVIOUS
  <2>3. ASSUME NEW n \in 1..Len(s), n - 1 \notin Bad PROVE n \notin Bad
    <3>1. n \in 0..Len(s) /\ n - 1 \in 0..Len(s) /\ n # 0
      OBVIOUS
    <3>2. at[n - 1] = At(n - 1)
      BY <2>3, <3>1
    <3>3. at[n] = Walked(at[n - 1], s[n])
      BY <1>5, <3>1
    <3>. QED BY <1>8, <3>2, <3>3
  <2>. HIDE DEF Bad
  <2>. QED BY <2>1, <2>2, <2>3, UpTo
<1>11. at[Len(s)] = At(Len(s))
  <2>1. Len(s) \in 0..Len(s)
    OBVIOUS
  <2>. QED BY <1>10, <2>1
<1>. QED BY <1>5, <1>9, <1>11

-----------------------------------------------------------------------------
(* The string that leads to a file, and where it leads.                      *)

\* The longest prefix that two paths have in common.
LEMMA CommonPrefix ==
    ASSUME NEW C, NEW path \in Seq(C), NEW base \in Seq(C)
    PROVE  \E k \in 0..Len(path) : /\ k <= Len(base) /\ SubSeq(path, 1, k) = SubSeq(base, 1, k)
                                   /\ \/ k = Len(path) \/ k = Len(base) \/ path[k + 1] # base[k + 1]
<1> DEFINE Same(k) == k <= Len(base) /\ SubSeq(path, 1, k) = SubSeq(base, 1, k)
           Ends(k) == k = Len(path) \/ k = Len(base) \/ path[k + 1] # base[k + 1]
           Bad == {k \in 0..Len(path) : ~Same(k)}
<1>1. SUFFICES ASSUME \A k \in 0..Len(path) : Same(k) => ~Ends(k) PROVE FALSE
  OBVIOUS
<1>2. Len(path) \in Nat /\ Len(base) \in Nat
  OBVIOUS
<1>3. 0 \notin Bad
  <2>1. SubSeq(path, 1, 0) = <<>> /\ SubSeq(base, 1, 0) = <<>>
    OBVIOUS
  <2>. QED BY <1>2, <2>1
<1>4. ASSUME NEW k \in 1..Len(path), k - 1 \notin Bad PROVE k \notin Bad
  <2>1. k - 1 \in 0..Len(path) /\ k \in 0..Len(path)
    BY <1>2
  <2>2. Same(k - 1) /\ ~Ends(k - 1)
    <3>1. Same(k - 1)
      BY <1>4, <2>1
    <3>. HIDE DEF Same, Ends
    <3>. QED BY <1>1, <2>1, <3>1
  <2>3. k - 1 <= Len(base) /\ k - 1 # Len(base) /\ path[(k - 1) + 1] = base[(k - 1) + 1] /\ (k - 1) + 1 = k
    BY <2>2
  <2>4. k \in 1..Len(base) /\ path[k] = base[k]
    BY <1>2, <2>3
  <2>5. /\ Append(SubSeq(path, 1, k - 1), path[k]) = SubSeq(path, 1, k)
        /\ Append(SubSeq(base, 1, k - 1), base[k]) = SubSeq(base, 1, k)
    BY <2>4, PrefixSteps
  <2>6. Same(k)
    BY <2>2, <2>4, <2>5
  <2>. HIDE DEF Same
  <2>. QED BY <2>6
<1>5. Bad = {}
  <2>1. Bad \in SUBSET (0..Len(path))
    OBVIOUS
  <2>. HIDE DEF Bad
  <2>. QED BY <1>2, <1>3, <1>4, <2>1, UpTo
<1>6. Same(Len(path)) /\ Len(path) \in 0..Len(path) /\ Ends(Len(path))
  <2>1. Len(path) \in 0..Len(path)
    BY <1>2
  <2>2. Same(Len(path))
    <3>. HIDE DEF Same
    <3>. QED BY <1>5, <2>1
  <2>3. Ends(Len(path))
    OBVIOUS
  <2>. HIDE DEF Same, Ends
  <2>. QED BY <2>1, <2>2, <2>3
<1>. HIDE DEF Same, Ends
<1>. QED BY <1>1, <1>6

LEMMA SuffixIs ==
    ASSUME NEW C, NEW p \in Seq(C), NEW c \in Nat, c <= Len(p)
    PROVE  LET rest == SubSeq(p, c + 1, Len(p))
           IN /\ rest \in Seq(C) /\ Len(rest) = Len(p) - c
              /\ \A n \in 1..(Len(p) - c) : rest[n] = p[c + n]
<1>1. Len(p) \in Nat
  OBVIOUS
<1>2. /\ SubSeq(p, c + 1, Len(p)) \in Seq(C) /\ Len(SubSeq(p, c + 1, Len(p))) = Len(p) - c
  BY <1>1
<1>3. ASSUME NEW n \in 1..(Len(p) - c) PROVE SubSeq(p, c + 1, Len(p))[n] = p[c + n]
  BY <1>1, <1>2
<1>. QED BY <1>2, <1>3

LEMMA JoinIs ==
    ASSUME NEW D, NEW s \in Seq(D), NEW t \in Seq(D)
    PROVE  /\ s \o t \in Seq(D) /\ Len(s \o t) = Len(s) + Len(t)
           /\ \A n \in 1..Len(s) : (s \o t)[n] = s[n]
           /\ \A n \in 1..Len(t) : (s \o t)[Len(s) + n] = t[n]
OBVIOUS

LEMMA BelowIs ==
    ASSUME NEW n \in Nat
    PROVE  \A i \in 1..(n - 1) : i \in 1..n /\ i # n
OBVIOUS

LEMMA FunctionIsSequence ==
    ASSUME NEW n \in Nat, NEW D, NEW f \in [1..n -> D]
    PROVE  f \in Seq(D)
OBVIOUS

LEMMA PrefixIs ==
    ASSUME NEW C, NEW p \in Seq(C), NEW c \in Nat, c <= Len(p)
    PROVE  /\ SubSeq(p, 1, c) \in Seq(C) /\ Len(SubSeq(p, 1, c)) = c
           /\ \A i \in 1..c : SubSeq(p, 1, c)[i] = p[i]
OBVIOUS

LEMMA SamePrefix ==
    ASSUME NEW C, NEW p \in Seq(C), NEW q \in Seq(C), NEW c \in Nat, c <= Len(p), c <= Len(q),
           \A i \in 1..c : p[i] = q[i]
    PROVE  SubSeq(p, 1, c) = SubSeq(q, 1, c)
<1>1. /\ SubSeq(p, 1, c) \in Seq(C) /\ Len(SubSeq(p, 1, c)) = c /\ \A i \in 1..c : SubSeq(p, 1, c)[i] = p[i]
  BY PrefixIs
<1>2. /\ SubSeq(q, 1, c) \in Seq(C) /\ Len(SubSeq(q, 1, c)) = c /\ \A i \in 1..c : SubSeq(q, 1, c)[i] = q[i]
  BY PrefixIs
<1>. QED BY <1>1, <1>2

IsAbove(path, base) == \E n \in 0..Len(base) : path = SubSeq(base, 1, n)

\* From the base up to what it shares with the path, and on from there.
LeadsFrom(r, path, base, c) ==
    /\ c <= Len(path) /\ SubSeq(path, 1, c) = SubSeq(base, 1, c)
    /\ DOMAIN r = 1..Len(r) /\ Len(r) = (Len(base) - c) + (Len(path) - c)
    /\ r = [n \in DOMAIN r |-> r[n]]
    /\ \A n \in 1..(Len(base) - c) : r[n] = Up
    /\ \A n \in (Len(base) - c + 1)..Len(r) : r[n] = path[c + (n - (Len(base) - c))]

LEMMA LexicallyRelativeIs ==
    ASSUME NEW C, NEW path \in Seq(C), NEW base \in Seq(C), path # base
    PROVE  \E c \in 0..Len(base) : /\ LeadsFrom(LexicallyRelative(path, base), path, base, c)
                                   /\ c = Len(path) => IsAbove(path, base)
<1> DEFINE Shared(k) == /\ k <= Len(base) /\ SubSeq(path, 1, k) = SubSeq(base, 1, k)
                        /\ \/ k = Len(path) \/ k = Len(base) \/ path[k + 1] # base[k + 1]
           c == CHOOSE k \in 0..Len(path) : Shared(k)
           k == Len(base) - c
           ups == [i \in 1..k |-> Up]
           rest == SubSeq(path, c + 1, Len(path))
           r == LexicallyRelative(path, base)
<1>1. Len(path) \in Nat /\ Len(base) \in Nat
  OBVIOUS
<1>2. c \in 0..Len(path) /\ c <= Len(base) /\ SubSeq(path, 1, c) = SubSeq(base, 1, c)
  <2>1. \E n \in 0..Len(path) : Shared(n)
    BY CommonPrefix
  <2>2. c \in 0..Len(path) /\ Shared(c)
    <3>. HIDE DEF Shared
    <3>. QED BY <2>1, Zenon
  <2>. HIDE DEF c
  <2>. QED BY <2>2
<1>3. r = ups \o rest
  BY DEF LexicallyRelative
<1>. HIDE DEF c, r, Shared
<1>4. c = Len(path) => IsAbove(path, base)
  <2>1. SubSeq(path, 1, Len(path)) = path
    OBVIOUS
  <2>2. c = Len(path) => Len(path) \in 0..Len(base) /\ path = SubSeq(base, 1, Len(path))
    BY <1>1, <1>2, <2>1
  <2>. QED BY <2>2 DEF IsAbove
<1>5. c \in 0..Len(base) /\ k \in Nat /\ c \in Nat /\ c <= Len(path)
  <2>1. ASSUME NEW a \in Nat, NEW b \in Nat, NEW e \in 0..a, e <= b
        PROVE  e \in 0..b /\ b - e \in Nat /\ e \in Nat /\ e <= a
    BY <2>1
  <2>2. c \in 0..Len(base) /\ Len(base) - c \in Nat /\ c \in Nat /\ c <= Len(path)
    <3>. HIDE DEF k
    <3>. QED BY <1>1, <1>2, <2>1
  <2>. QED BY <2>2
<1> DEFINE D == C \cup {Up}
<1>6. ups \in Seq(D) /\ Len(ups) = k /\ \A n \in 1..k : ups[n] = Up
  <2>1. ups \in [1..k -> D]
    OBVIOUS
  <2>. HIDE DEF k, D
  <2>. QED BY <1>5, <2>1
<1>7. /\ rest \in Seq(C) /\ Len(rest) = Len(path) - c
      /\ \A n \in 1..(Len(path) - c) : rest[n] = path[c + n]
  BY <1>5, SuffixIs
<1>. HIDE DEF ups, rest
<1>8. rest \in Seq(D)
  BY <1>7
<1>. HIDE DEF D, k
<1>9. /\ r \in Seq(D) /\ Len(r) = k + (Len(path) - c)
      /\ \A n \in 1..k : r[n] = ups[n]
      /\ \A n \in 1..(Len(path) - c) : r[k + n] = rest[n]
  <2>1. /\ ups \o rest \in Seq(D) /\ Len(ups \o rest) = Len(ups) + Len(rest)
        /\ \A n \in 1..Len(ups) : (ups \o rest)[n] = ups[n]
        /\ \A n \in 1..Len(rest) : (ups \o rest)[Len(ups) + n] = rest[n]
    <3>1. ups \in Seq(D) /\ rest \in Seq(D)
      BY <1>6, <1>8
    <3>. QED BY <3>1, JoinIs
  <2>2. Len(ups) = k /\ Len(rest) = Len(path) - c
    BY <1>6, <1>7
  <2>. QED BY <1>3, <2>1, <2>2
<1>10. \A n \in (k + 1)..Len(r) : r[n] = path[c + (n - k)]
  <2>1. SUFFICES ASSUME NEW n \in (k + 1)..Len(r) PROVE r[n] = path[c + (n - k)]
    OBVIOUS
  <2>2. n - k \in 1..(Len(path) - c) /\ n = k + (n - k)
    BY <1>1, <1>5, <1>9, <2>1
  <2>3. r[k + (n - k)] = rest[n - k]
    BY <1>9, <2>2
  <2>. QED BY <1>7, <2>2, <2>3
<1>11. DOMAIN r = 1..Len(r) /\ r = [n \in DOMAIN r |-> r[n]]
  BY <1>9
<1>12. LeadsFrom(r, path, base, c)
  BY <1>2, <1>5, <1>6, <1>9, <1>10, <1>11 DEF LeadsFrom, k
<1>. QED BY <1>4, <1>5, <1>12 DEF r

\* Files are named, and none of their names is a step.
LEMMA NamesAreOrdinary ==
    ASSUME NEW p \in Locations, NEW i \in 1..Len(p), NEW c, c[1] = p[i][1]
    PROVE  Ordinary(c)
<1>1. i \in DOMAIN p
  BY PathsNamed
<1>. QED BY <1>1, NamesAssumption, Zenon DEF Ordinary

LEMMA StepsAre ==
    /\ \A c : Ordinary(c) => c # Here /\ c # Up
    /\ \A s : s[1] \in {Here, Up} => ~IsAliased(s)
<1>1. Here[1] = "." /\ Up[1] = ".." /\ "." # "@" /\ ".." # "@"
  BY Zenon DEF Here, Up
<1>2. \A c : Ordinary(c) => c[1] # "." /\ c[1] # ".."
  BY Zenon DEF Ordinary
<1>3. ASSUME NEW s, s[1] \in {Here, Up} PROVE ~IsAliased(s)
  BY <1>1, <1>3, Zenon DEF IsAliased
<1>. QED BY <1>1, <1>2, <1>3, Zenon

\* What a rewritten string is: the path to the target, with or without its
\* extension, behind a "." unless it starts with "..".
LEMMA RewriteIs ==
    ASSUME NEW fromFile, NEW target, NEW required, IsRelativeRequire(required)
    PROVE  LET path == LexicallyRelative(target, Parent(fromFile))
               rewritten == RewriteRelativeRequire(fromFile, target, required)
           IN \E kept \in {path, WithExtension(path, NoExtension)} :
                rewritten = IF kept[1] = Up THEN kept ELSE <<Here>> \o kept
BY Zenon DEF RewriteRelativeRequire, NoExtension

\* A rewritten string leads from the one file to the other, or to its name.
LEMMA RewrittenResolves ==
    ASSUME NEW fromFile \in Locations, NEW target \in Locations, target \notin DirectoriesOf(fromFile),
           NEW required, IsRelativeRequire(required)
    PROVE  LET s == RewriteRelativeRequire(fromFile, target, required)
           IN /\ s[1] \in {Here, Up}
              /\ \E p \in {target, WithExtension(target, NoExtension)} : ResolvePath(Parent(fromFile), s) = p
<1> DEFINE base == Parent(fromFile)
           path == LexicallyRelative(target, base)
           s == RewriteRelativeRequire(fromFile, target, required)
           C == Components \cup {<<target[Len(target)][1], NoExtension>>}
<1>1. /\ target \in Seq(Components) /\ Len(target) \in Nat /\ Len(target) # 0
      /\ fromFile \in Seq(Components) /\ Len(fromFile) \in Nat /\ Len(fromFile) # 0
  BY PathsNamed
<1>2. base = SubSeq(fromFile, 1, Len(fromFile) - 1)
  <2>1. fromFile # <<>>
    BY <1>1
  <2>. QED BY <2>1 DEF Parent, Front
<1>3. /\ base \in Seq(Components) /\ Len(base) = Len(fromFile) - 1
      /\ \A n \in 0..(Len(fromFile) - 1) : SubSeq(base, 1, n) = SubSeq(fromFile, 1, n)
  <2> DEFINE m == Len(fromFile) - 1
  <2>1. m \in 0..Len(fromFile) /\ fromFile \in Seq(Components)
    BY <1>1
  <2>. HIDE DEF m, base
  <2>2. /\ SubSeq(fromFile, 1, m) \in Seq(Components) /\ Len(SubSeq(fromFile, 1, m)) = m
        /\ \A n \in 0..m : SubSeq(SubSeq(fromFile, 1, m), 1, n) = SubSeq(fromFile, 1, n)
    BY <2>1, PrefixOfPrefix
  <2>. QED BY <1>2, <2>2 DEF m
<1>4. ~IsAbove(target, base)
  <2>1. SUFFICES ASSUME NEW n \in 0..Len(base), target = SubSeq(base, 1, n) PROVE FALSE
    BY DEF IsAbove
  <2>2. n \in 0..(Len(fromFile) - 1) /\ target = SubSeq(fromFile, 1, n)
    BY <1>3, <2>1
  <2>. QED BY <2>2 DEF DirectoriesOf
<1>. HIDE DEF base, path, C
<1>0. PICK c \in 0..Len(base) : LeadsFrom(path, target, base, c) /\ c # Len(target)
  <2>1. target \in Seq(Components) /\ base \in Seq(Components)
    BY <1>1, <1>3
  <2>2. target # base
    <3>1. Len(base) \in 0..Len(base) /\ SubSeq(base, 1, Len(base)) = base
      BY <2>1
    <3>. QED BY <1>4, <3>1 DEF IsAbove
  <2>. QED BY <1>4, <2>1, <2>2, LexicallyRelativeIs DEF path
<1> DEFINE k == Len(base) - c
<1>5. /\ c < Len(target) /\ SubSeq(target, 1, c) = SubSeq(base, 1, c)
      /\ DOMAIN path = 1..Len(path) /\ Len(path) = k + (Len(target) - c)
      /\ path = [n \in 1..Len(path) |-> path[n]]
      /\ \A n \in 1..k : path[n] = Up
      /\ \A n \in (k + 1)..Len(path) : path[n] = target[c + (n - k)]
  <2>1. c < Len(target)
    <3>1. c <= Len(target) /\ c # Len(target)
      BY <1>0 DEF LeadsFrom
    <3>2. c \in 0..Len(base) /\ Len(base) \in Nat /\ Len(target) \in Nat
      BY <1>1, <1>3
    <3>. HIDE DEF k
    <3>. QED BY <3>1, <3>2
  <2>. QED BY <1>0, <2>1 DEF LeadsFrom
<1>6. k \in Nat /\ c \in Nat /\ Len(base) \in Nat /\ Len(path) = k + (Len(target) - c) /\ Len(path) > k
      /\ c < Len(target)
  <2>1. ASSUME NEW a \in Nat, NEW b \in Nat, NEW e \in 0..b, e < a, NEW l, l = (b - e) + (a - e)
        PROVE  b - e \in Nat /\ e \in Nat /\ l > b - e
    BY <2>1
  <2>2. Len(base) \in Nat
    BY <1>1, <1>3
  <2>3. k \in Nat /\ c \in Nat /\ Len(path) > k
    BY <1>1, <1>5, <2>1, <2>2
  <2>. QED BY <1>5, <2>2, <2>3
<1>7. Components \subseteq C /\ <<target[Len(target)][1], NoExtension>> \in C
  BY DEF C
<1>8. PICK kept \in {path, WithExtension(path, NoExtension)} : s = IF kept[1] = Up THEN kept ELSE <<Here>> \o kept
  BY RewriteIs DEF path, base
<1> DEFINE p == IF kept = path THEN target ELSE WithExtension(target, NoExtension)
<1>9. /\ p \in Seq(C) /\ Len(p) = Len(target) /\ \A i \in 1..Len(p) : p[i][1] = target[i][1]
      /\ \A i \in 1..(Len(p) - 1) : p[i] = target[i]
      /\ kept # path => p[Len(p)] = <<target[Len(target)][1], NoExtension>>
      /\ kept = path => p = target
  <2>1. CASE kept = path
    BY <1>1, <1>7, <2>1
  <2>2. CASE kept # path
    <3> DEFINE q == WithExtension(target, NoExtension)
    <3>1. /\ DOMAIN q = DOMAIN target /\ Len(q) = Len(target)
          /\ \A i \in DOMAIN target : i # Len(target) => q[i] = target[i]
          /\ Len(target) \in DOMAIN target => q[Len(target)] = <<target[Len(target)][1], NoExtension>>
      BY WithExtensionIs
    <3>2. p = q
      BY <2>2
    <3>. HIDE DEF p, q
    <3>3. DOMAIN q = 1..Len(target) /\ Len(target) \in DOMAIN target
      BY <1>1, <3>1
    <3>4. \A i \in 1..Len(target) : target[i] \in Components
      BY <1>1
    <3>5. \A i \in 1..Len(target) : q[i] \in C /\ q[i][1] = target[i][1]
      BY <1>7, <3>1, <3>3, <3>4
    <3>6. q \in [1..Len(target) -> C]
      <4>1. q = [i \in 1..Len(target) |-> q[i]]
        BY <3>3 DEF q, WithExtension
      <4>. QED BY <3>5, <4>1
    <3>7. q \in Seq(C)
      BY <1>1, <3>6
    <3>8. Len(p) = Len(target) /\ \A i \in 1..(Len(p) - 1) : i \in DOMAIN target /\ i # Len(target)
      <4>1. Len(p) = Len(target)
        BY <3>1, <3>2
      <4>2. DOMAIN target = 1..Len(target) /\ Len(target) \in Nat
        BY <1>1
      <4>3. \A i \in 1..(Len(target) - 1) : i \in 1..Len(target) /\ i # Len(target)
        <5>1. Len(target) \in Nat
          BY <4>2
        <5>. QED BY <5>1, BelowIs, Zenon
      <4>. QED BY <4>1, <4>2, <4>3
    <3>9. \A i \in 1..(Len(p) - 1) : p[i] = target[i]
      BY <3>1, <3>2, <3>8
    <3>10. p[Len(p)] = <<target[Len(target)][1], NoExtension>>
      BY <3>1, <3>2, <3>3
    <3>11. p \in Seq(C) /\ \A i \in 1..Len(p) : p[i][1] = target[i][1]
      BY <3>2, <3>5, <3>7, <3>8
    <3>. QED BY <2>2, <3>8, <3>9, <3>10, <3>11
  <2>. QED BY <2>1, <2>2
<1>10. /\ Len(kept) = Len(path) /\ DOMAIN kept = 1..Len(path)
       /\ \A n \in 1..Len(path) : n # Len(path) \/ kept = path => kept[n] = path[n]
       /\ kept # path => kept[Len(path)] = <<path[Len(path)][1], NoExtension>>
  <2>1. CASE kept = path
    BY <1>5, <2>1
  <2>2. CASE kept # path
    <3>1. kept = WithExtension(path, NoExtension) /\ Len(path) \in DOMAIN path
      BY <1>1, <1>5, <1>6, <2>2
    <3>2. /\ DOMAIN kept = DOMAIN path /\ Len(kept) = Len(path)
          /\ \A i \in DOMAIN path : i # Len(path) => kept[i] = path[i]
          /\ Len(path) \in DOMAIN path => kept[Len(path)] = <<path[Len(path)][1], NoExtension>>
      BY <3>1, WithExtensionIs
    <3>. QED BY <1>5, <2>2, <3>1, <3>2
  <2>. QED BY <2>1, <2>2
<1>. HIDE DEF k, p, s
<1>11. \A n \in 1..k : kept[n] = Up
  <2>1. SUFFICES ASSUME NEW n \in 1..k PROVE kept[n] = Up
    OBVIOUS
  <2>2. n \in 1..Len(path) /\ n # Len(path)
    BY <1>1, <1>5, <1>6
  <2>. QED BY <1>5, <1>10, <2>2 DEF k
<1>12. \A n \in (k + 1)..Len(kept) : kept[n] = p[c + (n - k)] /\ Ordinary(kept[n])
  <2>1. SUFFICES ASSUME NEW n \in (k + 1)..Len(kept) PROVE kept[n] = p[c + (n - k)] /\ Ordinary(kept[n])
    OBVIOUS
  <2> DEFINE j == c + (n - k)
  <2>2. /\ n \in 1..Len(path) /\ n \in (k + 1)..Len(path) /\ j \in 1..Len(target)
        /\ (n = Len(path) <=> j = Len(target)) /\ (j # Len(target) => j \in 1..(Len(target) - 1))
    <3>1. ASSUME NEW a \in Nat, NEW e \in Nat, e < a, NEW b \in Nat, NEW l \in Nat, l = b + (a - e), NEW i \in (b + 1)..l
          PROVE  /\ i \in 1..l /\ e + (i - b) \in 1..a
                 /\ (i = l <=> e + (i - b) = a) /\ (e + (i - b) # a => e + (i - b) \in 1..(a - 1))
      BY <3>1
    <3>2. Len(path) \in Nat /\ Len(kept) = Len(path)
      BY <1>1, <1>5, <1>6, <1>10
    <3>3. n \in (k + 1)..Len(path)
      BY <2>1, <3>2
    <3> DEFINE lp == Len(path)
               lt == Len(target)
    <3>4. lp \in Nat /\ lt \in Nat /\ k \in Nat /\ c \in Nat /\ c < lt /\ lp = k + (lt - c) /\ n \in (k + 1)..lp
      BY <1>1, <1>6, <3>2, <3>3
    <3>. HIDE DEF lp, lt
    <3>5. /\ n \in 1..lp /\ c + (n - k) \in 1..lt
          /\ (n = lp <=> c + (n - k) = lt) /\ (c + (n - k) # lt => c + (n - k) \in 1..(lt - 1))
      BY <3>1, <3>4
    <3>. QED BY <3>4, <3>5 DEF lp, lt
  <2>3. path[n] = target[j]
    BY <1>5, <2>2
  <2>. HIDE DEF j
  <2>4. kept[n] = p[j]
    BY <1>9, <1>10, <2>2, <2>3
  <2>5. p[j][1] = target[j][1]
    BY <1>9, <2>2
  <2>6. Ordinary(kept[n])
    BY <2>2, <2>4, <2>5, NamesAreOrdinary
  <2>. QED BY <2>4, <2>6 DEF j
<1>13. SubSeq(p, 1, c) = SubSeq(base, 1, c)
  <2>1. \A i \in 1..c : p[i] = target[i]
    <3>1. \A i \in 1..c : i \in 1..(Len(p) - 1)
      <4>1. c \in Nat /\ Len(p) \in Nat /\ c < Len(p)
        BY <1>1, <1>5, <1>6, <1>9
      <4>. QED BY <4>1
    <3>. QED BY <1>9, <3>1
  <2>2. SubSeq(p, 1, c) = SubSeq(target, 1, c)
    <3>1. p \in Seq(C) /\ target \in Seq(C) /\ c \in Nat /\ c <= Len(p) /\ c <= Len(target)
      BY <1>1, <1>6, <1>7, <1>9
    <3>. QED BY <2>1, <3>1, SamePrefix
  <2>. QED BY <1>5, <2>2
<1>14. base \in Seq(C) /\ c <= Len(p)
  BY <1>3, <1>5, <1>6, <1>7, <1>9
<1>15. p \in {target, WithExtension(target, NoExtension)}
  BY DEF p
<1>16. CASE k = 0
  <2>1. kept[1] # Up
    <3>1. 1 \in (k + 1)..Len(kept)
      BY <1>6, <1>10, <1>16
    <3>. QED BY <1>12, <3>1, StepsAre
  <2>2. s = <<Here>> \o kept
    BY <1>8, <2>1
  <2>3. /\ Len(s) = 1 + Len(kept) /\ s[1] = Here /\ \A n \in 1..Len(kept) : s[1 + n] = kept[n]
    <3> DEFINE D == {kept[n] : n \in 1..Len(path)} \cup {Here}
    <3>1. kept \in Seq(D)
      <4>1. kept = [n \in 1..Len(path) |-> kept[n]]
        <5>1. CASE kept = path
          BY <1>5, <5>1
        <5>2. CASE kept = WithExtension(path, NoExtension)
          <6>1. kept = [path EXCEPT ![Len(path)] = <<@[1], NoExtension>>]
            BY <5>2 DEF WithExtension
          <6>. QED BY <1>10, <6>1
        <5>. QED BY <1>8, <5>1, <5>2
      <4>2. kept \in [1..Len(path) -> D]
        BY <4>1
      <4>. HIDE DEF D
      <4>3. Len(path) \in Nat
        BY <1>1, <1>6
      <4>. QED BY <4>2, <4>3, FunctionIsSequence, Zenon
    <3>2. <<Here>> \in Seq(D) /\ Len(<<Here>>) = 1 /\ <<Here>>[1] = Here
      <4>1. Here \in D
        OBVIOUS
      <4>. HIDE DEF D
      <4>. QED BY <4>1
    <3> DEFINE first == <<Here>>
    <3>. HIDE DEF D, first
    <3>3. /\ Len(first \o kept) = Len(first) + Len(kept)
          /\ \A n \in 1..Len(first) : (first \o kept)[n] = first[n]
          /\ \A n \in 1..Len(kept) : (first \o kept)[Len(first) + n] = kept[n]
      <4>1. first \in Seq(D)
        BY <3>2 DEF first
      <4>. QED BY <3>1, <4>1, JoinIs
    <3>. QED BY <2>2, <3>2, <3>3 DEF first
  <2>4. \A n \in (1 + k + 1)..Len(s) : s[n] = p[c + (n - 1 - k)] /\ Ordinary(s[n])
    <3>1. SUFFICES ASSUME NEW n \in (1 + k + 1)..Len(s) PROVE s[n] = p[c + (n - 1 - k)] /\ Ordinary(s[n])
      OBVIOUS
    <3>2. n - 1 \in (k + 1)..Len(kept) /\ n - 1 \in 1..Len(kept) /\ 1 + (n - 1) = n
      BY <1>1, <1>6, <1>10, <1>16, <2>3
    <3>. QED BY <1>12, <2>3, <3>2
  <2>5. ResolvePath(base, s) = p
    <3>1. Len(s) \in Nat /\ Len(s) = 1 + (Len(base) - c) + (Len(p) - c)
      BY <1>1, <1>6, <1>9, <1>10, <2>3 DEF k
    <3>2. (\A n \in 1..1 : s[n] = Here) /\ (\A n \in (1 + 1)..(1 + (Len(base) - c)) : s[n] = Up)
      BY <1>6, <1>16, <2>3 DEF k
    <3>3. \A n \in (1 + (Len(base) - c) + 1)..Len(s) :
             s[n] = p[c + (n - 1 - (Len(base) - c))] /\ Ordinary(s[n])
      BY <2>4 DEF k
    <3>. QED BY <1>9, <1>13, <1>14, <3>1, <3>2, <3>3, ResolvesTo
  <2>. QED BY <1>15, <2>3, <2>5 DEF base, s
<1>17. CASE k # 0
  <2>1. kept[1] = Up
    <3>1. 1 \in 1..k
      BY <1>6, <1>17
    <3>. QED BY <1>11, <3>1
  <2>2. s = kept
    BY <1>8, <2>1
  <2>3. ResolvePath(base, s) = p
    <3>1. Len(s) \in Nat /\ Len(s) = 0 + (Len(base) - c) + (Len(p) - c)
      BY <1>1, <1>6, <1>9, <1>10, <2>2 DEF k
    <3>2. (\A n \in 1..0 : s[n] = Here) /\ (\A n \in (0 + 1)..(0 + (Len(base) - c)) : s[n] = Up)
      BY <1>6, <1>11, <2>2 DEF k
    <3>3. \A n \in (0 + (Len(base) - c) + 1)..Len(s) :
             s[n] = p[c + (n - 0 - (Len(base) - c))] /\ Ordinary(s[n])
      <4>1. SUFFICES ASSUME NEW n \in (0 + k + 1)..Len(s) PROVE s[n] = p[c + (n - 0 - k)] /\ Ordinary(s[n])
        BY DEF k
      <4>2. n \in (k + 1)..Len(kept) /\ n - 0 - k = n - k
        BY <1>6, <2>2
      <4>. QED BY <1>12, <2>2, <4>2
    <3>. QED BY <1>9, <1>13, <1>14, <3>1, <3>2, <3>3, ResolvesTo
  <2>. QED BY <1>15, <2>1, <2>2, <2>3 DEF base, s
<1>. QED BY <1>16, <1>17

-----------------------------------------------------------------------------
(* A file that nothing else is named as.                                     *)

LEMMA UnambiguousIs ==
    ASSUME NEW files, NEW path, Unambiguous(files, path)
    PROVE  /\ \A f \in files \ {path} :
                IsSourceFile(f) => WithExtension(f, NoExtension) # WithExtension(path, NoExtension)
           /\ \A f \in files :
                Len(f) > Len(path) =>
                    WithExtension(SubSeq(f, 1, Len(path)), NoExtension) # WithExtension(path, NoExtension)
BY Zenon DEF Unambiguous, NoExtension

LEMMA NoSuchDirectory ==
    ASSUME NEW files, files \subseteq Locations, NEW q, Unambiguous(files, q),
           NEW d, Len(d) = Len(q), WithExtension(d, NoExtension) = WithExtension(q, NoExtension)
    PROVE  ~IsDirectory(files, d)
<1>1. SUFFICES ASSUME IsDirectory(files, d) PROVE FALSE
  OBVIOUS
<1>2. PICK g \in files : \E n \in 0..(Len(g) - 1) : d = SubSeq(g, 1, n)
  BY <1>1 DEF IsDirectory, DirectoriesOf
<1>3. PICK n \in 0..(Len(g) - 1) : d = SubSeq(g, 1, n)
  BY <1>2
<1>4. Len(d) = n /\ n < Len(g)
  <2>1. g \in Seq(Components) /\ Len(g) \in Nat
    BY PathsNamed
  <2>2. n \in 0..Len(g) /\ n < Len(g)
    BY <2>1
  <2>. QED BY <1>3, <2>1, <2>2, PrefixOfPrefix
<1>5. Len(g) > Len(q) /\ SubSeq(g, 1, Len(q)) = d
  BY <1>3, <1>4
<1>. QED BY <1>5, UnambiguousIs

\* The extension of a file that is one with an extension.
LEMMA ExtensionOf ==
    ASSUME NEW file, NEW ext, WithExtension(file, ext) \in Locations
    PROVE  Extension(WithExtension(file, ext)) = ext
<1> DEFINE p == WithExtension(file, ext)
<1>1. p # <<>> /\ Len(p) \in DOMAIN p
  <2>1. Len(p) \in Nat /\ Len(p) # 0 /\ DOMAIN p = 1..Len(p)
    BY PathsNamed
  <2>2. p # <<>>
    <3>. HIDE DEF p
    <3>. QED BY <2>1
  <2>3. Len(p) \in 1..Len(p)
    <3>. HIDE DEF p
    <3>. QED BY <2>1
  <2>. QED BY <2>1, <2>2, <2>3
<1>2. p[Len(p)] = <<file[Len(file)][1], ext>>
  BY <1>1, WithExtensionIs
<1>3. Extension(p) = p[Len(p)][2]
  BY <1>1, ExtensionsAre
<1>. QED BY <1>2, <1>3

\* A name leads to the only file that has it.
LEMMA OnlySource ==
    ASSUME NEW files, files \subseteq Locations, NEW q \in files, IsSourceFile(q), Unambiguous(files, q),
           NEW file, file # <<>>, ~IsSourceFile(file), q = WithExtension(file, Extension(q))
    PROVE  SourceFileAt(files, file) = q
<1> DEFINE best == BestExtension(files, file)
           p == WithExtension(file, best)
<1>1. Extension(q) \in ToSet(SourceExtensions) /\ Exists(files, WithExtension(file, Extension(q)))
  BY DEF IsSourceFile, Exists
<1>2. Exists(files, p) /\ best \in ToSet(SourceExtensions)
  BY <1>1, BestExtensionExists, BestExtensionIsSource
<1>3. /\ WithExtension(p, NoExtension) = WithExtension(file, NoExtension) /\ Len(p) = Len(file)
      /\ WithExtension(q, NoExtension) = WithExtension(file, NoExtension) /\ Len(q) = Len(file)
  BY StemOfExtension, WithExtensionIs
<1>4. ~IsDirectory(files, p)
  <2>. HIDE DEF p
  <2>. QED BY <1>3, NoSuchDirectory
<1>5. p \in files
  BY <1>2, <1>4 DEF Exists
<1>6. IsSourceFile(p)
  BY <1>2, <1>5, ExtensionOf DEF IsSourceFile
<1>7. p = q
  <2>. HIDE DEF p
  <2>. QED BY <1>3, <1>5, <1>6, UnambiguousIs
<1>8. SourceFileAt(files, file) = p
  BY DEF SourceFileAt
<1>. QED BY <1>7, <1>8

\* A file is found by its path and by its name.
LEMMA FoundByName ==
    ASSUME NEW files, files \subseteq Locations, NEW q \in files, IsSourceFile(q), Unambiguous(files, q),
           ~IsDirectory(files, q), NEW t \in {q, WithExtension(q, NoExtension)}
    PROVE  Found(files, t) = q
<1>1. q \in Seq(Components) /\ Len(q) \in Nat /\ Len(q) # 0 /\ DOMAIN q = 1..Len(q) /\ q # <<>>
  BY PathsNamed
<1>2. CASE t = q
  <2>1. FileAt(files, t) = q
    BY <1>2, FileAtIs
  <2>. QED BY <1>1, <2>1 DEF Found, SourceFileAt
<1>3. CASE t = WithExtension(q, NoExtension)
  <2>1. /\ DOMAIN t = DOMAIN q /\ Len(t) = Len(q) /\ t[Len(q)] = <<q[Len(q)][1], NoExtension>>
        /\ \A i \in DOMAIN q : i # Len(q) => t[i] = q[i]
    <3>1. Len(q) \in DOMAIN q
      BY <1>1
    <3>. QED BY <1>3, <3>1, WithExtensionIs
  <2>2. ~IsDirectory(files, t)
    <3>1. WithExtension(t, NoExtension) = WithExtension(q, NoExtension)
      BY <1>3, StemOfExtension
    <3>. QED BY <2>1, <3>1, NoSuchDirectory
  <2>3. FileAt(files, t) = t
    BY <2>2, FileAtIs
  <2>4. t # <<>> /\ ~IsSourceFile(t)
    <3>1. t # <<>>
      BY <1>1, <2>1
    <3>2. Extension(t) = NoExtension
      BY <2>1, <3>1, ExtensionsAre
    <3>. QED BY <3>1, <3>2, ExtensionsAre DEF IsSourceFile
  <2>5. q = WithExtension(t, Extension(q))
    <3>1. q[Len(q)] = <<q[Len(q)][1], Extension(q)>>
      <4>1. q[Len(q)] \in Components
        BY <1>1
      <4>2. Extension(q) = q[Len(q)][2]
        BY <1>1, ExtensionsAre
      <4>. QED BY <4>1, <4>2 DEF Components
    <3>2. WithExtension(t, Extension(q)) = [i \in DOMAIN t |-> IF i = Len(t) THEN <<t[i][1], Extension(q)>> ELSE t[i]]
      BY DEF WithExtension
    <3>3. \A i \in DOMAIN q : q[i] = IF i = Len(t) THEN <<t[i][1], Extension(q)>> ELSE t[i]
      <4>1. t[Len(q)][1] = q[Len(q)][1]
        BY <2>1
      <4>2. ASSUME NEW i \in DOMAIN q, i # Len(q) PROVE q[i] = t[i]
        BY <2>1, <4>2
      <4>3. Len(t) = Len(q) /\ q[Len(q)] = <<t[Len(q)][1], Extension(q)>>
        BY <2>1, <3>1, <4>1
      <4>. QED BY <4>2, <4>3
    <3>4. q = [i \in DOMAIN q |-> q[i]]
      BY <1>1
    <3>. QED BY <2>1, <3>2, <3>3, <3>4
  <2>. QED BY <2>3, <2>4, <2>5, OnlySource DEF Found
<1>. QED BY <1>2, <1>3

\* What was found among other files is found again.
LEMMA FoundAgain ==
    ASSUME NEW files, files \subseteq Locations, NEW others, others \subseteq Locations,
           NEW t, NEW q, Found(files, t) = q, q \in files, q \in others, IsSourceFile(q), Unambiguous(others, q),
           ~IsDirectory(others, q)
    PROVE  Found(others, t) = q
<1> DEFINE file == FileAt(files, t)
<1>1. /\ file # <<>> /\ q \in Locations
      /\ q = IF IsSourceFile(file) THEN file ELSE WithExtension(file, BestExtension(files, file))
  <2>1. q = SourceFileAt(files, file)
    BY DEF Found
  <2>2. q \in Locations /\ q # NoUri
    BY PathsNamed
  <2>. HIDE DEF file
  <2>. QED BY <2>1, <2>2 DEF SourceFileAt
<1>2. CASE IsSourceFile(file)
  <2>1. q = file
    BY <1>1, <1>2
  <2>2. ~IsDirectory(files, t)
    BY <1>1, <1>2, DirectoryOfFound
  <2>3. q = t
    BY <2>1, <2>2, FileAtIs
  <2>. QED BY <2>3, FoundByName
<1>3. CASE ~IsSourceFile(file)
  <2>1. q = WithExtension(file, BestExtension(files, file))
    BY <1>1, <1>3
  <2>2. q = WithExtension(file, Extension(q))
    BY <1>1, <2>1, ExtensionOf
  <2>3. FileAt(others, t) = file
    <3>1. CASE IsDirectory(files, t)
      <4>1. IsDirectory(others, t)
        BY <1>1, <3>1, DirectoryOfFound DEF IsDirectory
      <4>. QED BY <3>1, <4>1, FileAtIs
    <3>2. CASE ~IsDirectory(files, t)
      <4>1. file = t
        BY <3>2, FileAtIs
      <4>2. Len(t) = Len(q) /\ WithExtension(t, NoExtension) = WithExtension(q, NoExtension)
        BY <2>2, <4>1, StemOfExtension, WithExtensionIs
      <4>3. ~IsDirectory(others, t)
        BY <4>2, NoSuchDirectory
      <4>. QED BY <3>2, <4>3, FileAtIs
    <3>. QED BY <3>1, <3>2
  <2>. HIDE DEF file
  <2>4. SourceFileAt(others, file) = q
    BY <1>1, <1>3, <2>2, OnlySource
  <2>. QED BY <2>3, <2>4 DEF Found
<1>. QED BY <1>2, <1>3

\* The relative require of a file that is no init file.
LEMMA RelativeResolves ==
    \A m \in Locations : \A s, files, aliases :
        ~IsInitFile(m) /\ s[1] \in {Here, Up} =>
            ResolveStringRequire(files, aliases, FALSE, m, s) = Found(files, ResolvePath(Parent(m), s))
<1>. TAKE m \in Locations
<1>. TAKE s, files, aliases
<1>0. HAVE ~IsInitFile(m) /\ s[1] \in {Here, Up}
<1>1. RequireBase(m, FALSE) = Parent(m)
  BY <1>0 DEF RequireBase
<1>2. Parent(m) # NoUri
  <2>1. m \in Seq(Components) /\ Len(m) \in Nat /\ Len(m) # 0 /\ m # <<>>
    BY PathsNamed
  <2>2. Parent(m) = SubSeq(m, 1, Len(m) - 1)
    BY <2>1 DEF Parent, Front
  <2>3. SUFFICES ASSUME SubSeq(m, 1, Len(m) - 1) = NoUri PROVE FALSE
    BY <2>2
  <2>4. Len(NoUri) = 1 /\ ~Ordinary(NoUri[1])
    <3>1. Len(NoUri) = 1
      BY DEF NoUri
    <3>2. NoUri[1][1] = ""
      BY DEF NoUri
    <3>. QED BY <3>1, <3>2, Zenon DEF Ordinary
  <2>5. Len(m) - 1 = 1 /\ NoUri[1] = m[1]
    <3> DEFINE l == Len(m) - 1
               above == SubSeq(m, 1, l)
    <3>1. l \in Nat /\ l <= Len(m) /\ m \in Seq(Components)
      BY <2>1
    <3>. HIDE DEF l
    <3>2. Len(above) = l /\ \A i \in 1..l : above[i] = m[i]
      BY <3>1, PrefixIs
    <3>. HIDE DEF above
    <3>3. Len(above) = 1 /\ above[1] = NoUri[1]
      BY <2>3, <2>4 DEF above, l
    <3>4. l = 1
      BY <3>2, <3>3
    <3>5. above[1] = m[1]
      BY <3>2, <3>4
    <3>. QED BY <3>3, <3>4, <3>5 DEF l
  <2>6. Ordinary(m[1])
    BY <2>1, <2>5, NamesAreOrdinary
  <2>. QED BY <2>4, <2>5, <2>6
<1>3. ResolveAlias(s, aliases, Parent(m)) = NoUri
  BY <1>0, StepsAre DEF ResolveAlias
<1>4. Or(NoUri, ResolvePath(Parent(m), s)) = ResolvePath(Parent(m), s)
  BY DEF Or
<1>. QED BY <1>1, <1>2, <1>3, <1>4 DEF ResolveStringRequire, Found

-----------------------------------------------------------------------------
(* A file is no directory.                                                   *)

LeavesInv == \A f \in Files : ~IsDirectory(Files, f)

LEMMA LeavesInvInit == Init => LeavesInv
<1>1. SUFFICES ASSUME Init PROVE LeavesInv
  OBVIOUS
<1>2. \A f \in DOMAIN disk : ~IsDirectory(DOMAIN disk, f)
  BY <1>1, DisksAssumption DEF Init
<1>. QED BY <1>2 DEF LeavesInv, Files

\* A file more, where no directory is and below no file, or some less.
LEMMA LeavesStay ==
    ASSUME LeavesInv, NEW p \in Locations, IsFree(p), NEW files, files \subseteq Files \cup {p}, Files' = files
    PROVE  LeavesInv'
<1>1. SUFFICES ASSUME NEW f \in files, NEW g \in files, f \in DirectoriesOf(g) PROVE FALSE
  BY DEF LeavesInv, IsDirectory
<1>2. f \notin Files \/ g \notin Files
  BY <1>1 DEF LeavesInv, IsDirectory
<1>3. CASE f = p /\ g \in Files
  BY <1>1, <1>3 DEF IsFree, IsDirectory
<1>4. CASE g = p /\ f \in Files
  BY <1>1, <1>4 DEF IsFree
<1>5. CASE f = p /\ g = p
  <2>1. p \in Seq(Components) /\ Len(p) \in Nat
    BY PathsNamed
  <2>2. PICK n \in 0..(Len(p) - 1) : p = SubSeq(p, 1, n)
    BY <1>1, <1>5 DEF DirectoriesOf
  <2>3. n \in Nat /\ n <= Len(p) /\ n # Len(p)
    BY <2>1, <2>2
  <2>4. Len(SubSeq(p, 1, n)) = n
    BY <2>1, <2>3, PrefixIs
  <2>. QED BY <2>2, <2>3, <2>4
<1>. QED BY <1>2, <1>3, <1>4, <1>5

LEMMA FewerLeavesStay ==
    ASSUME LeavesInv, Files' \subseteq Files
    PROVE  LeavesInv'
BY DEF LeavesInv, IsDirectory

LEMMA LeavesInvNext ==
    ASSUME LeavesInv, [Next]_vars
    PROVE  LeavesInv'
<1>1. CASE disk' = disk
  BY <1>1, FewerLeavesStay DEF Files
<1>2. ASSUME NEW gone, Delete(gone) PROVE LeavesInv'
  <2>1. Files' \subseteq Files
    BY <1>2 DEF Delete, Files
  <2>. QED BY <2>1, FewerLeavesStay
<1>3. ASSUME NEW p \in Paths, NEW s \in Requirable, WriteFile(p, s) PROVE LeavesInv'
  <2>1. p \in Locations /\ IsFree(p) /\ Files' = Files \cup {p}
    BY <1>3 DEF WriteFile, With, Files, Locations
  <2>. QED BY <2>1, LeavesStay
<1>4. ASSUME NEW r \in Renamable, RenameFiles(r[1], r[2]) PROVE LeavesInv'
  <2>1. r[2] \in Locations /\ IsFree(r[2])
    BY <1>4 DEF RenameFiles, Locations
  <2>2. Files' = (Files \ {r[1]}) \cup {r[2]}
    BY <1>4 DEF RenameFiles, WillRename, RewriteAndMove, MoveFile, Files
  <2>. QED BY <2>1, <2>2, LeavesStay
<1>5. CASE \E p \in Locations : Parse(p)
  BY <1>1, <1>5 DEF Parse
<1>6. CASE \E p \in Locations, d \in Directories : ParseInterrupted(p, d)
  BY <1>1, <1>6 DEF ParseInterrupted
<1>7. CASE OnDidChangeWatchedFiles
  BY <1>1, <1>7 DEF OnDidChangeWatchedFiles
<1>8. CASE \E p \in Paths : DeleteFile(p)
  BY <1>2, <1>8 DEF DeleteFile
<1>9. CASE \E d \in Deletable : DeleteDirectory(d)
  BY <1>2, <1>9 DEF DeleteDirectory
<1>10. CASE \E w \in Settable, s \in Settings : WriteSetting(w[1], w[2], s)
  BY <1>1, <1>10 DEF WriteSetting
<1>11. CASE UNCHANGED vars
  BY <1>1, <1>11 DEF vars
<1>. QED BY <1>3, <1>4, <1>5, <1>6, <1>7, <1>8, <1>9, <1>10, <1>11 DEF Next

-----------------------------------------------------------------------------
(* Renaming.                                                                 *)

LEMMA MovedIs ==
    /\ \A old, new, x : Moved(Renaming(old, new), x) = IF x = old THEN new ELSE x
    /\ \A old, new : DOMAIN Renaming(old, new) = {old}
BY DEF Moved, Renaming

\* What is on disk after a renaming.
LEMMA DiskAfterMove ==
    ASSUME NEW old \in Files, NEW new, new \notin Files, NEW texts, NEW edited, MoveFile(old, new, texts, edited)
    PROVE  /\ Files' = (Files \ {old}) \cup {new}
           /\ \A m \in Files : disk'[Moved(Renaming(old, new), m)] = texts[m]
<1>1. disk' = [f \in (Files \ {old}) \cup {new} |-> IF f = new THEN texts[old] ELSE texts[f]]
  BY DEF MoveFile
<1>2. ASSUME NEW m \in Files PROVE disk'[Moved(Renaming(old, new), m)] = texts[m]
  <2>1. CASE m = old
    BY <1>1, <2>1, MovedIs
  <2>2. CASE m # old
    BY <1>1, <2>2, MovedIs
  <2>. QED BY <2>1, <2>2
<1>. QED BY <1>1, <1>2 DEF Files

LEMMA RenamedRequireFollows ==
    ASSUME ConfigInv, ConfigInv', RequiresInv, LeavesInv, LeavesInv',
           NEW r \in Renamable, RenameFiles(r[1], r[2]), events = <<>>,
           NEW m \in DOMAIN sourceNodes \ (dirty \cup outdated),
           ~IsInitFile(m), ~IsInitFile(Moved(Renaming(r[1], r[2]), m))
    PROVE  Follows(r[1], r[2], m)
<1> DEFINE old == r[1]
           new == r[2]
           renames == Renaming(old, new)
           moved == Moved(renames, m)
           q == sourceNodes[m]
           target == Moved(renames, q)
           aliases == GetConfig(LoadConfig(State, m), m).aliases
           graph == ParsedAll(Frontend(State), SetToSeq(RewrittenModules(renames) \cap Files))
           rewritten == WillRenameFiles(graph, renames)
           texts == TextsAfter(rewritten)
           leads == ResolveStringRequire(DOMAIN disk', aliases, FALSE, moved, disk'[moved]) = target
<1>1. SUFFICES ASSUME q \in Files, IsRelativeRequire(disk[m]), IsSourceFile(target), Unambiguous(Files', target)
               PROVE  leads
  <2>1. Files' = DOMAIN disk'
    BY DEF Files
  <2>. HIDE DEF moved, q, target, aliases, renames
  <2>2. Follows(r[1], r[2], m) <=>
          (q \in Files /\ IsRelativeRequire(disk[m]) /\ IsSourceFile(target) /\ Unambiguous(DOMAIN disk', target) => leads)
    BY DEF Follows, moved, q, target, aliases, renames
  <2>. QED BY <2>1, <2>2
<1>2. Files \subseteq Locations /\ Files' \subseteq Locations
  BY DEF ConfigInv, FilesInv
<1>3. Current(m)
  <2>1. SettingsTold /\ \A x : ~Pending(x)
    BY DEF SettingsTold, Pending
  <2>. QED BY <2>1 DEF RequiresInv, ResolvedInv, Holds, TargetPending
<1>4. m \in Files /\ q = LeadsTo(m)
  BY <1>1, <1>3 DEF Current
<1>5. disk[m] # NoRequire /\ disk[m][1] \in {Here, Up}
  <2>1. Len(disk[m]) > 1 /\ disk[m][1] \in {Here, Up}
    BY <1>1 DEF IsRelativeRequire
  <2>. QED BY <2>1 DEF NoRequire
<1>6. q = Found(Files, ResolvePath(Parent(m), disk[m]))
  <2>1. q = ResolveStringRequire(Files, DiskAliases(m), FALSE, m, disk[m])
    BY <1>4, <1>5 DEF LeadsTo
  <2>2. m \in Locations
    BY <1>2, <1>4
  <2>. HIDE DEF q
  <2>3. ResolveStringRequire(Files, DiskAliases(m), FALSE, m, disk[m]) = Found(Files, ResolvePath(Parent(m), disk[m]))
    BY <1>5, <2>2, RelativeResolves, Zenon
  <2>. QED BY <2>1, <2>3
<1>7. old \in Files /\ new \notin Files /\ old # new
  BY DEF RenameFiles
<1>8. /\ Files' = (Files \ {old}) \cup {new}
      /\ disk'[moved] = texts[m]
  <2>1. MoveFile(old, new, texts, {f \in Files \ {old} : texts[f] # disk[f]})
    BY DEF RenameFiles, WillRename, RewriteAndMove
  <2>. HIDE DEF texts, old, new
  <2>. QED BY <1>4, <1>7, <2>1, DiskAfterMove
<1>9. moved = (IF m = old THEN new ELSE m) /\ target = (IF q = old THEN new ELSE q) /\ DOMAIN renames = {old}
  <2>1. ASSUME NEW x PROVE Moved(renames, x) = IF x = old THEN new ELSE x
    BY MovedIs
  <2>2. DOMAIN renames = {old}
    BY MovedIs
  <2>. HIDE DEF renames, old, new, q
  <2>. QED BY <2>1, <2>2
<1>10. moved \in Files' /\ target \in Files' /\ ~IsDirectory(Files', target)
  BY <1>1, <1>4, <1>8, <1>9 DEF LeavesInv
<1>11. ~IsInitFile(moved)
  OBVIOUS
<1>12. m \in DOMAIN graph.nodes /\ graph.nodes[m] = q
  <2>1. ReadGood(graph)
    BY RewriteReads
  <2>2. m \notin Reread(graph)
    BY DEF Reread
  <2>. HIDE DEF graph
  <2>. QED BY <2>1, <2>2 DEF ReadGood
<1>. HIDE DEF graph
<1>13. /\ m \in DOMAIN rewritten <=> q = old \/ m = old
       /\ q = old \/ m = old => rewritten[m] = RewriteRelativeRequire(moved, target, disk[m])
  <2>1. m \in RewrittenModules(renames) <=> q = old \/ m = old
    <3>. HIDE DEF renames
    <3>. QED BY <1>4, <1>9 DEF RewrittenModules
  <2>2. /\ DOMAIN rewritten = RewrittenModules(renames) \cap DOMAIN graph.nodes \cap Files
        /\ m \in DOMAIN rewritten =>
             rewritten[m] = IF disk[m] = NoRequire \/ (Moved(renames, m) = m /\ Moved(renames, graph.nodes[m]) = graph.nodes[m])
                            THEN disk[m]
                            ELSE RewriteRelativeRequire(Moved(renames, m), Moved(renames, graph.nodes[m]), disk[m])
    <3>. HIDE DEF renames
    <3>. QED BY DEF WillRenameFiles
  <2>3. m \in DOMAIN rewritten <=> q = old \/ m = old
    <3>. HIDE DEF rewritten, renames
    <3>. QED BY <1>4, <1>12, <2>1, <2>2
  <2>4. q = old \/ m = old => ~(moved = m /\ target = q)
    <3>. HIDE DEF moved, target
    <3>. QED BY <1>7, <1>9
  <2>. HIDE DEF rewritten
  <2>. QED BY <1>5, <1>12, <2>2, <2>3, <2>4
<1>14. texts[m] = IF m \in DOMAIN rewritten THEN rewritten[m] ELSE disk[m]
  <2>. HIDE DEF rewritten
  <2>. QED BY <1>4 DEF TextsAfter
<1>15. Files' = DOMAIN disk'
  BY DEF Files
<1>16. moved \in Locations /\ target \in Locations
  <2>. HIDE DEF moved, target
  <2>. QED BY <1>2, <1>10
<1> DEFINE s == disk'[moved]
<1>. HIDE DEF moved, target, q, rewritten, texts, renames, s, aliases
<1>17. ASSUME s[1] \in {Here, Up}
       PROVE  ResolveStringRequire(Files', aliases, FALSE, moved, s) = Found(Files', ResolvePath(Parent(moved), s))
  BY <1>11, <1>16, <1>17, RelativeResolves, Zenon
<1>18. CASE q = old \/ m = old
  <2>1. s = RewriteRelativeRequire(moved, target, disk[m])
    BY <1>8, <1>13, <1>14, <1>18 DEF s
  <2>2. target \notin DirectoriesOf(moved)
    BY <1>10 DEF IsDirectory
  <2>3. s[1] \in {Here, Up} /\ \E p \in {target, WithExtension(target, NoExtension)} : ResolvePath(Parent(moved), s) = p
    BY <1>1, <1>16, <2>1, <2>2, RewrittenResolves
  <2>4. Found(Files', ResolvePath(Parent(moved), s)) = target
    BY <1>1, <1>2, <1>10, <2>3, FoundByName
  <2>. QED BY <1>15, <1>17, <2>3, <2>4 DEF s
<1>19. CASE q # old /\ m # old
  <2>1. s = disk[m] /\ moved = m /\ target = q
    BY <1>8, <1>9, <1>13, <1>14, <1>19 DEF s
  <2>2. Found(Files', ResolvePath(Parent(m), disk[m])) = q
    BY <1>1, <1>2, <1>6, <1>10, <2>1, FoundAgain
  <2>. QED BY <1>5, <1>15, <1>17, <2>1, <2>2 DEF s
<1>. QED BY <1>18, <1>19

\* When a file is renamed while the server knows everything, the relative requires
\* of it and its own still reach the files that they reached
\* (WorkspaceFolder::willRenameFiles, rewriteRelativeRequire, resolveStringRequire):
\* whatever files, strings, aliases and renamings there are and whatever happened
\* before, but for init files and for files that share their name with another.
THEOREM RenamedRequiresAreFollowed ==
    ASSUME ConfigurationsStay
    PROVE  Spec => RenamedRequiresFollow
<1> DEFINE Inv == ConfigInv /\ RequiresInv /\ LeavesInv
           FollowAll == \A r \in Renamable : RenameFiles(r[1], r[2]) /\ events = <<>> =>
              \A m \in DOMAIN sourceNodes \ (dirty \cup outdated) :
                 IsInitFile(m) \/ IsInitFile(Moved(Renaming(r[1], r[2]), m)) \/ Follows(r[1], r[2], m)
<1>1. Init => Inv
  BY ConfigInvInit, RequiresInvInit, LeavesInvInit
<1>2. Inv /\ [Next]_vars => Inv'
  BY ConfigInvNext, RequiresInvNext, LeavesInvNext
<1>3. Inv /\ Inv' => FollowAll
  BY RenamedRequireFollows
<1>. HIDE DEF Inv
<1>4. Inv /\ Inv' => [FollowAll]_vars
  BY <1>3
<1>. HIDE DEF FollowAll
<1>5. Spec => [][FollowAll]_vars
  BY <1>1, <1>2, <1>4, PTL DEF Spec
<1>. QED BY <1>5 DEF FollowAll, RenamedRequiresFollow

-----------------------------------------------------------------------------
(* Where a string leads, step by step.                                       *)

\* The first step, then the rest of them from there.
LEMMA FirstStep ==
    ASSUME NEW b, NEW s, NEW q, Len(q) \in Nat, Len(s) = Len(q) + 1, \A n \in 1..Len(q) : s[n + 1] = q[n]
    PROVE  ResolvePath(b, s) = ResolvePath(Walked(b, s[1]), q)
<1> DEFINE l == Len(q)
<1>1. l \in Nat /\ Len(s) = l + 1 /\ Len(s) \in Nat
  OBVIOUS
<1>2. PICK all : WalksAlong(all, b, s)
  BY <1>1, ResolvePathUnfolds
<1>3. PICK rest : WalksAlong(rest, Walked(b, s[1]), q)
  BY ResolvePathUnfolds
<1>4. \A n \in 1..l : s[n + 1] = q[n]
  OBVIOUS
<1>5. /\ ResolvePath(b, s) = all[l + 1]
      /\ all[0] = b /\ \A n \in 1..(l + 1) : all[n] = Walked(all[n - 1], s[n])
  BY <1>1, <1>2 DEF WalksAlong
<1>6. /\ ResolvePath(Walked(b, s[1]), q) = rest[l]
      /\ rest[0] = Walked(b, s[1]) /\ \A n \in 1..l : rest[n] = Walked(rest[n - 1], q[n])
  BY <1>1, <1>3 DEF WalksAlong
<1>. HIDE DEF l
<1> DEFINE Bad == {n \in 0..l : all[n + 1] # rest[n]}
<1>7. 0 \notin Bad
  <2>1. 1 \in 1..(l + 1) /\ 1 - 1 = 0 /\ 0 + 1 = 1
    BY <1>1
  <2>. QED BY <1>5, <1>6, <2>1
<1>8. ASSUME NEW n \in 1..l, n - 1 \notin Bad PROVE n \notin Bad
  <2>1. n + 1 \in 1..(l + 1) /\ (n + 1) - 1 = n /\ n - 1 \in 0..l /\ (n - 1) + 1 = n
    BY <1>1
  <2>2. all[n] = rest[n - 1]
    BY <1>8, <2>1
  <2>3. all[n + 1] = Walked(all[n], s[n + 1]) /\ rest[n] = Walked(rest[n - 1], q[n])
    BY <1>5, <1>6, <2>1
  <2>. QED BY <1>4, <2>2, <2>3
<1>9. Bad = {}
  <2>1. Bad \in SUBSET (0..l)
    OBVIOUS
  <2>. HIDE DEF Bad
  <2>. QED BY <1>1, <1>7, <1>8, <2>1, UpTo
<1>10. all[l + 1] = rest[l]
  <2>1. l \in 0..l
    BY <1>1
  <2>. QED BY <1>9, <2>1
<1>. QED BY <1>5, <1>6, <1>10

One(a) == <<a>>
Two(a, c) == <<a, c>>

LEMMA NoStep ==
    ASSUME NEW b, NEW s, Len(s) = 0
    PROVE  ResolvePath(b, s) = b
<1>1. Len(s) \in Nat /\ 0 \in 0..Len(s)
  OBVIOUS
<1>2. PICK at : WalksAlong(at, b, s)
  BY <1>1, ResolvePathUnfolds
<1>. QED BY <1>1, <1>2 DEF WalksAlong

LEMMA OneStep ==
    ASSUME NEW b, NEW a
    PROVE  ResolvePath(b, One(a)) = Walked(b, a)
<1> DEFINE s == One(a)
           none == <<>>
<1>1. Len(none) = 0 /\ Len(s) = 1 /\ s[1] = a
  BY DEF One
<1>. HIDE DEF s, none
<1>2. Len(none) \in Nat /\ Len(s) = Len(none) + 1 /\ \A n \in 1..Len(none) : s[n + 1] = none[n]
  BY <1>1
<1>3. ResolvePath(b, s) = ResolvePath(Walked(b, s[1]), none)
  BY <1>2, FirstStep
<1>4. ResolvePath(b, s) = Walked(b, a)
  BY <1>1, <1>3, NoStep
<1>. QED BY <1>4 DEF s

LEMMA TwoSteps ==
    ASSUME NEW b, NEW a, NEW c
    PROVE  ResolvePath(b, Two(a, c)) = Walked(Walked(b, a), c)
<1> DEFINE s == Two(a, c)
           q == One(c)
<1>1. Len(q) = 1 /\ Len(s) = 2 /\ s[1] = a /\ s[2] = c /\ q[1] = c
  BY DEF One, Two
<1>2. ResolvePath(Walked(b, a), q) = Walked(Walked(b, a), c)
  BY OneStep
<1>. HIDE DEF s, q
<1>3. Len(q) \in Nat /\ Len(s) = Len(q) + 1 /\ \A n \in 1..Len(q) : s[n + 1] = q[n]
  BY <1>1
<1>4. ResolvePath(b, s) = ResolvePath(Walked(b, s[1]), q)
  BY <1>3, FirstStep
<1>5. ResolvePath(b, s) = Walked(Walked(b, a), c)
  BY <1>1, <1>2, <1>4
<1>. QED BY <1>5 DEF s

\* Where a step leads to is a path.
LEMMA WalkedIsPath ==
    ASSUME NEW C, NEW at \in Seq(C), NEW c \in C
    PROVE  Walked(at, c) \in Seq(C)
<1> DEFINE Empty == <<"", "">>
<1>0. Walked(at, c) = CASE c \in {Here, Empty} -> at
                        [] c = Up -> IF at = <<>> THEN at ELSE Front(at)
                        [] c = Slash -> <<>>
                        [] OTHER -> Append(at, c)
  BY Zenon DEF Walked
<1>. HIDE DEF Empty
<1>1. Walked(at, c) \in {at, <<>>, Append(at, c)} \/ (at # <<>> /\ Walked(at, c) = Front(at))
  BY <1>0
<1>2. at # <<>> => Front(at) \in Seq(C)
  BY DEF Front
<1>3. <<>> \in Seq(C) /\ Append(at, c) \in Seq(C)
  OBVIOUS
<1>. QED BY <1>1, <1>2, <1>3

LEMMA ResolvePathIsPath ==
    ASSUME NEW C, NEW b \in Seq(C), NEW s \in Seq(C)
    PROVE  ResolvePath(b, s) \in Seq(C)
<1>1. Len(s) \in Nat
  OBVIOUS
<1>2. PICK at : WalksAlong(at, b, s)
  BY <1>1, ResolvePathUnfolds
<1>3. /\ ResolvePath(b, s) = at[Len(s)]
      /\ \A n \in 0..Len(s) : at[n] = IF n = 0 THEN b ELSE Walked(at[n - 1], s[n])
  BY <1>2 DEF WalksAlong
<1> DEFINE Bad == {n \in 0..Len(s) : at[n] \notin Seq(C)}
<1>4. 0 \notin Bad
  BY <1>1, <1>3
<1>5. ASSUME NEW n \in 1..Len(s), n - 1 \notin Bad PROVE n \notin Bad
  <2>1. n \in 0..Len(s) /\ n # 0 /\ n - 1 \in 0..Len(s) /\ s[n] \in C
    BY <1>1
  <2>2. at[n - 1] \in Seq(C)
    BY <1>5, <2>1
  <2>3. at[n] = Walked(at[n - 1], s[n])
    BY <1>3, <2>1
  <2>. QED BY <2>1, <2>2, <2>3, WalkedIsPath
<1>6. Bad = {}
  <2>1. Bad \in SUBSET (0..Len(s))
    OBVIOUS
  <2>. HIDE DEF Bad
  <2>. QED BY <1>1, <1>4, <1>5, <2>1, UpTo
<1>7. at[Len(s)] \in Seq(C)
  <2>1. Len(s) \in 0..Len(s)
    BY <1>1
  <2>. QED BY <1>6, <2>1
<1>. QED BY <1>3, <1>7

-----------------------------------------------------------------------------
(* Where an alias leads.                                                     *)

AliasLeads(aliases, from, n, next, name) ==
    IF name \notin DOMAIN aliases THEN (IF name = "self" THEN from ELSE NoUri)
    ELSE LET value == aliases[name].value
         IN IF ~IsAliased(value) THEN AliasLocation(aliases[name])
            ELSE IF n = 0 THEN NoUri ELSE Behind(next[Lower(value[1][2])], value)

\* How aliases are followed is a recursive function, and one for all strings.
AliasesFollowed(found, aliases, from) ==
    /\ \A required : ResolveAliasFrom(required, aliases, from)
                        = Behind(found[Cardinality(DOMAIN aliases)][Lower(required[1][2])], required)
    /\ \A n \in 0..Cardinality(DOMAIN aliases) :
          found[n] = [name \in STRING |-> AliasLeads(aliases, from, n, found[n - 1], name)]

LEMMA ResolveAliasUnfolds ==
    ASSUME NEW aliases, NEW from, IsFiniteSet(DOMAIN aliases)
    PROVE  \E found : AliasesFollowed(found, aliases, from)
<1> DEFINE count == Cardinality(DOMAIN aliases)
           Step(f, n) == [name \in STRING |->
                IF name \notin DOMAIN aliases THEN (IF name = "self" THEN from ELSE NoUri)
                ELSE LET value == aliases[name].value
                     IN IF ~IsAliased(value) THEN AliasLocation(aliases[name])
                        ELSE IF n = 0 THEN NoUri ELSE Behind(f[n - 1][Lower(value[1][2])], value)]
           Solution(f, k) == f = [n \in 0..k |-> Step(f, n)]
           Bad == {k \in 0..count : ~ \E f : Solution(f, k)}
<1>0. count \in Nat
  BY FS_CardinalityType
<1>s. \A f, n : Step(f, n) = [name \in STRING |-> AliasLeads(aliases, from, n, f[n - 1], name)]
  BY Zenon DEF AliasLeads
<1>1. ASSUME NEW f, NEW g, NEW n, n = 0 \/ f[n - 1] = g[n - 1]
      PROVE  Step(f, n) = Step(g, n)
  <2>1. CASE f[n - 1] = g[n - 1]
    <3>. HIDE DEF Step
    <3>. QED BY <1>s, <2>1, Zenon
  <2>2. CASE n = 0
    <3>1. \A next, name : AliasLeads(aliases, from, 0, next, name) = AliasLeads(aliases, from, 0, <<>>, name)
      BY Zenon DEF AliasLeads
    <3>2. Step(f, n) = [name \in STRING |-> AliasLeads(aliases, from, 0, <<>>, name)]
      <4>. HIDE DEF Step
      <4>. QED BY <1>s, <2>2, <3>1, Zenon
    <3>3. Step(g, n) = [name \in STRING |-> AliasLeads(aliases, from, 0, <<>>, name)]
      <4>. HIDE DEF Step
      <4>. QED BY <1>s, <2>2, <3>1, Zenon
    <3>. HIDE DEF Step
    <3>. QED BY <3>2, <3>3
  <2>. QED BY <1>1, <2>1, <2>2
<1>2. 0 \notin Bad
  <2> DEFINE f == [n \in 0..0 |-> Step(<<>>, n)]
  <2>1. \A n \in 0..0 : Step(<<>>, n) = Step(f, n)
    <3>. HIDE DEF f, Step
    <3>. QED BY <1>1
  <2>2. f = [n \in 0..0 |-> Step(f, n)]
    <3>. HIDE DEF Step
    <3>. QED BY <2>1
  <2>. HIDE DEF Step, f
  <2>. QED BY <2>2
<1>3. ASSUME NEW k \in 1..count, k - 1 \notin Bad PROVE k \notin Bad
  <2>1. PICK f : Solution(f, k - 1)
    <3>1. k - 1 \in 0..count
      <4>. HIDE DEF count
      <4>. QED BY <1>0
    <3>. HIDE DEF Solution
    <3>. QED BY <1>3, <3>1
  <2> DEFINE g == [n \in 0..k |-> Step(f, n)]
  <2>2. \A n \in 0..(k - 1) : g[n] = f[n]
    <3>. HIDE DEF Step, count
    <3>. QED BY <1>0, <2>1, <1>3
  <2>3. \A n \in 0..k : Step(f, n) = Step(g, n)
    <3>1. \A n \in 0..k : n = 0 \/ n - 1 \in 0..(k - 1)
      <4>. HIDE DEF count
      <4>. QED BY <1>0, <1>3
    <3>. HIDE DEF g, Step
    <3>. QED BY <1>1, <2>2, <3>1
  <2>4. Solution(g, k)
    <3>. HIDE DEF Step
    <3>. QED BY <2>3
  <2>. HIDE DEF Solution, g
  <2>. QED BY <2>4
<1>4. Bad = {}
  <2>1. Bad \in SUBSET (0..count)
    OBVIOUS
  <2>3. \A n \in 1..count : n \in Bad => n - 1 \in Bad
    <3>. HIDE DEF Bad, count
    <3>. QED BY <1>3
  <2>. HIDE DEF Bad, count
  <2>. QED BY <1>0, <1>2, <2>1, <2>3, UpTo
<1>5. PICK f : Solution(f, count)
  <2>1. count \in 0..count
    <3>. HIDE DEF count
    <3>. QED BY <1>0
  <2>. HIDE DEF Solution, count
  <2>. QED BY <1>4, <2>1
<1> DEFINE found == CHOOSE h : Solution(h, count)
<1>6. Solution(found, count)
  <2>. HIDE DEF Solution
  <2>. QED BY <1>5
<1>7. \A required : ResolveAliasFrom(required, aliases, from) = Behind(found[count][Lower(required[1][2])], required)
  BY DEF ResolveAliasFrom
<1>8. \A n \in 0..count : found[n] = Step(found, n)
  <2>. HIDE DEF Step, found, count
  <2>. QED BY <1>6
<1>. HIDE DEF found, Step
<1>9. \A n \in 0..count : found[n] = [name \in STRING |-> AliasLeads(aliases, from, n, found[n - 1], name)]
  BY <1>8, <1>s
<1>. QED BY <1>7, <1>9 DEF AliasesFollowed

\* What is behind an alias is a path when the alias leads to one.
LEMMA BehindIsPath ==
    ASSUME NEW C, NEW found \in Seq(C), NEW required \in Seq(C), required # <<>>
    PROVE  Behind(found, required) \in Seq(C)
<1> DEFINE path == Tail(required)
           rest == IF path # <<>> /\ path[1] = Slash THEN Tail(path) ELSE path
<1>1. path \in Seq(C) /\ (path # <<>> => Tail(path) \in Seq(C))
  OBVIOUS
<1>. HIDE DEF path
<1>2. rest \in Seq(C)
  BY <1>1
<1>3. Behind(found, required) = IF found = NoUri THEN NoUri ELSE ResolvePath(found, rest)
  BY DEF Behind, path
<1>. HIDE DEF rest
<1>. QED BY <1>2, <1>3, ResolvePathIsPath

LEMMA OneComponent ==
    ASSUME NEW C, NEW c \in C
    PROVE  <<c>> \in Seq(C) /\ Len(<<c>>) = 1 /\ <<c>>[1] = c
OBVIOUS

\* The components of paths, and that of no path.
Steps == Components \cup {NoUri[1]}

LEMMA TwoComponents ==
    ASSUME NEW a, NEW b
    PROVE  Append(<<a>>, b) = <<a, b>>
<1> DEFINE D == {a, b}
           s == <<a>>
           t == Append(s, b)
<1>1. a \in D /\ b \in D
  OBVIOUS
<1>. HIDE DEF D
<1>2. s \in Seq(D) /\ Len(s) = 1 /\ s[1] = a
  BY <1>1, OneComponent
<1>. HIDE DEF s
<1>3. t \in Seq(D) /\ Len(t) = 2 /\ t[2] = b /\ t[1] = a
  BY <1>1, <1>2
<1>. HIDE DEF t
<1>4. t = <<a, b>>
  BY <1>3
<1>. QED BY <1>4 DEF s, t

LEMMA NoUriIsPath == NoUri \in Seq(Steps)
<1> DEFINE c == <<"", "nowhere">>
<1>1. NoUri = <<c>> /\ NoUri[1] = c
  BY DEF NoUri
<1>. HIDE DEF c
<1>2. c \in Steps
  BY <1>1 DEF Steps
<1>. QED BY <1>1, <1>2, OneComponent

LEMMA PathIsOfSteps == \A p \in Seq(Components) : p \in Seq(Steps)
<1>1. \A C, D : C \subseteq D => \A p \in Seq(C) : p \in Seq(D)
  OBVIOUS
<1>2. Components \subseteq Steps
  BY DEF Steps
<1>. QED BY <1>1, <1>2

\* An alias leads to a path or nowhere, whatever is required behind it.
AliasStarts(start, aliases, from, name) ==
    /\ start \in Seq(Steps)
    /\ \A required : Lower(required[1][2]) = name => ResolveAliasFrom(required, aliases, from) = Behind(start, required)
    /\ name \in DOMAIN aliases /\ ~IsAliased(aliases[name].value) => start = AliasLocation(aliases[name])
    /\ name \notin DOMAIN aliases /\ name = "self" => start = from

LEMMA AliasLeadsToPath ==
    ASSUME NEW aliases, AliasesNamed(aliases), NEW from \in Seq(Steps), NEW name \in STRING, NEW n, NEW next,
           n # 0 => \A x \in STRING : next[x] \in Seq(Steps)
    PROVE  AliasLeads(aliases, from, n, next, name) \in Seq(Steps)
<1> DEFINE value == aliases[name].value
<1>1. ASSUME name \in DOMAIN aliases
      PROVE  /\ value \in Seq(Steps) /\ AliasLocation(aliases[name]) \in Seq(Steps)
             /\ IsAliased(value) => value # <<>> /\ Lower(value[1][2]) \in STRING
  <2>1. /\ value \in Seq(Steps) /\ aliases[name].location \in Seq(Steps)
        /\ \A i \in DOMAIN value : Lower(value[i][2]) \in STRING
    BY <1>1, DirectoryIsPath, PathIsOfSteps DEF AliasesNamed
  <2>2. AliasLocation(aliases[name]) \in Seq(Steps)
    BY <2>1, ResolvePathIsPath DEF AliasLocation
  <2>. HIDE DEF value
  <2>3. value # <<>> => 1 \in DOMAIN value
    BY <2>1
  <2>. QED BY <2>1, <2>2, <2>3 DEF IsAliased
<1>. HIDE DEF value
<1>2. AliasLeads(aliases, from, n, next, name) =
        IF name \notin DOMAIN aliases THEN (IF name = "self" THEN from ELSE NoUri)
        ELSE IF ~IsAliased(value) THEN AliasLocation(aliases[name])
        ELSE IF n = 0 THEN NoUri ELSE Behind(next[Lower(value[1][2])], value)
  BY DEF AliasLeads, value
<1>3. CASE name \notin DOMAIN aliases
  BY <1>2, <1>3, NoUriIsPath
<1>4. CASE name \in DOMAIN aliases /\ ~IsAliased(value)
  BY <1>1, <1>2, <1>4
<1>5. CASE name \in DOMAIN aliases /\ IsAliased(value)
  <2>1. CASE n = 0
    BY <1>2, <1>5, <2>1, NoUriIsPath
  <2>2. CASE n # 0
    <3>1. next[Lower(value[1][2])] \in Seq(Steps)
      BY <1>1, <1>5, <2>2
    <3>2. Behind(next[Lower(value[1][2])], value) \in Seq(Steps)
      BY <1>1, <1>5, <3>1, BehindIsPath
    <3>. QED BY <1>2, <1>5, <2>2, <3>2
  <2>. QED BY <2>1, <2>2
<1>. QED BY <1>3, <1>4, <1>5

LEMMA AliasStart ==
    ASSUME NEW aliases, AliasesNamed(aliases), NEW from \in Seq(Steps), NEW name \in STRING
    PROVE  \E start : AliasStarts(start, aliases, from, name)
<1> DEFINE count == Cardinality(DOMAIN aliases)
<1>1. IsFiniteSet(DOMAIN aliases) /\ count \in Nat
  BY FS_CardinalityType DEF AliasesNamed
<1>2. PICK found : AliasesFollowed(found, aliases, from)
  BY <1>1, ResolveAliasUnfolds
<1>3. \A n \in 0..count : \A x \in STRING : found[n][x] = AliasLeads(aliases, from, n, found[n - 1], x)
  BY <1>2 DEF AliasesFollowed
<1>4. \A required : Lower(required[1][2]) = name => ResolveAliasFrom(required, aliases, from) = Behind(found[count][name], required)
  BY <1>2, Zenon DEF AliasesFollowed
<1>. HIDE DEF count
<1> DEFINE Bad == {n \in 0..count : ~ \A x \in STRING : found[n][x] \in Seq(Steps)}
<1>5. 0 \notin Bad
  <2>1. ASSUME NEW x \in STRING PROVE found[0][x] \in Seq(Steps)
    <3>1. 0 \in 0..count
      BY <1>1
    <3>2. AliasLeads(aliases, from, 0, found[0 - 1], x) \in Seq(Steps)
      BY AliasLeadsToPath
    <3>. QED BY <1>3, <3>1, <3>2
  <2>. QED BY <2>1
<1>6. ASSUME NEW n \in 1..count, n - 1 \notin Bad PROVE n \notin Bad
  <2>1. n \in 0..count /\ n - 1 \in 0..count
    BY <1>1
  <2>2. \A x \in STRING : found[n - 1][x] \in Seq(Steps)
    BY <1>6, <2>1
  <2>3. ASSUME NEW x \in STRING PROVE found[n][x] \in Seq(Steps)
    <3>1. AliasLeads(aliases, from, n, found[n - 1], x) \in Seq(Steps)
      BY <2>2, AliasLeadsToPath
    <3>. QED BY <1>3, <2>1, <3>1
  <2>. QED BY <2>3
<1>7. Bad = {}
  <2>1. Bad \in SUBSET (0..count)
    OBVIOUS
  <2>. HIDE DEF Bad
  <2>. QED BY <1>1, <1>5, <1>6, <2>1, UpTo
<1> DEFINE start == found[count][name]
<1>8. start \in Seq(Steps) /\ start = AliasLeads(aliases, from, count, found[count - 1], name)
  <2>1. count \in 0..count
    BY <1>1
  <2>. QED BY <1>3, <1>7, <2>1
<1>9. /\ name \in DOMAIN aliases /\ ~IsAliased(aliases[name].value) => start = AliasLocation(aliases[name])
      /\ name \notin DOMAIN aliases /\ name = "self" => start = from
  <2>. HIDE DEF start
  <2>. QED BY <1>8 DEF AliasLeads
<1>10. AliasStarts(start, aliases, from, name)
  <2>. HIDE DEF start
  <2>. QED BY <1>4, <1>8, <1>9 DEF AliasStarts, start
<1>. QED BY <1>10

\* The aliases of a module that is loaded are those that were written somewhere.
LEMMA LoadedAliasesNamed ==
    ASSUME NEW state, NEW path \in Locations, CachesGood(state), SettingsTyped
    PROVE  AliasesNamed(GetConfig(LoadConfig(state, path), path).aliases)
<1> DEFINE d == ConfigDirectory(path)
           next == LoadConfig(state, path)
           config == IF d = NoUri THEN DefaultConfig ELSE next.configs[d]
           key == <<d, Language(path)>>
<1>1. AliasesGood(next)
  BY LoadConfigIsGood DEF CachesGood
<1>2. d # NoUri => d \in DOMAIN next.configs
  <2> DEFINE read == IF d = NoUri THEN state ELSE ReadConfigRec(state, d)
             own(c) == With(read.languages, key, c)
  <2>1. d # NoUri => d \in DOMAIN read.configs
    <3>1. d \in Directories \cup {NoUri}
      BY ConfigDirectoryIsDirectory
    <3>. HIDE DEF d
    <3>. QED BY <3>1, ReadConfigRecIsGood
  <2>2. next = read \/ \E c : next = CacheState(read.configs, own(c), read.reported)
    BY DEF LoadConfig
  <2>3. next.configs = read.configs
    <3>1. \A x, y, z : CacheState(x, y, z).configs = x
      BY DEF CacheState
    <3>. HIDE DEF next, read, own
    <3>. QED BY <2>2, <3>1
  <2>. HIDE DEF next, read, d
  <2>. QED BY <2>1, <2>3
<1>3. config.language = Language(path) \/ key \in DOMAIN next.languages
  <2> DEFINE read == IF d = NoUri THEN state ELSE ReadConfigRec(state, d)
             was == IF d = NoUri THEN DefaultConfig ELSE read.configs[d]
             own == [was EXCEPT !.language = Language(path)]
  <2>1. next = IF was.language = Language(path) \/ key \in DOMAIN read.languages THEN read
               ELSE CacheState(read.configs, With(read.languages, key, own), read.reported)
    BY DEF LoadConfig
  <2>. HIDE DEF next, read, own, key, d
  <2>2. CASE was.language = Language(path) \/ key \in DOMAIN read.languages
    BY <2>1, <2>2
  <2>3. CASE ~(was.language = Language(path) \/ key \in DOMAIN read.languages)
    <3>1. next = CacheState(read.configs, With(read.languages, key, own), read.reported)
      BY <2>1, <2>3
    <3>2. key \in DOMAIN next.languages
      BY <3>1 DEF CacheState, With
    <3>. QED BY <3>2
  <2>. QED BY <2>2, <2>3
<1>4. GetConfig(next, path) = IF config.language = Language(path) THEN config ELSE next.languages[key]
  BY DEF GetConfig
<1>5. ConfigNamed(config)
  <2>. HIDE DEF next, d
  <2>. QED BY <1>1, <1>2, NoAliases DEF AliasesGood
<1>6. ConfigNamed(GetConfig(next, path))
  <2>. HIDE DEF next, config, key
  <2>. QED BY <1>1, <1>3, <1>4, <1>5 DEF AliasesGood
<1>. QED BY <1>6 DEF ConfigNamed

-----------------------------------------------------------------------------
(* What a completion shows.                                                  *)

LEMMA NotNoUri == \A p : (Len(p) = 1 => Ordinary(p[1])) => p # NoUri
<1>1. Len(NoUri) = 1
  BY DEF NoUri
<1>2. NoUri[1][1] = ""
  BY DEF NoUri
<1>3. ~Ordinary(NoUri[1])
  BY <1>2, Zenon DEF Ordinary
<1>. QED BY <1>1, <1>3

LEMMA BaseIs ==
    ASSUME NEW from \in Locations
    PROVE  /\ Parent(from) \in Seq(Components) /\ Len(Parent(from)) \in Nat /\ Parent(from) # NoUri
           /\ Parent(from) = SubSeq(from, 1, Len(from) - 1) /\ Len(from) - 1 \in 0..Len(from)
           /\ Parent(from) # <<>> => Front(Parent(from)) \in Seq(Components)
           /\ RequireBase(from, FALSE) # NoUri =>
                 IF IsInitFile(from) THEN Parent(from) # <<>> /\ RequireBase(from, FALSE) = Front(Parent(from))
                 ELSE RequireBase(from, FALSE) = Parent(from)
<1> DEFINE above == Parent(from)
           l == Len(from) - 1
<1>1. from \in Seq(Components) /\ l \in Nat /\ l <= Len(from) /\ from # <<>> /\ l \in 0..Len(from)
  <2>1. from \in Seq(Components) /\ Len(from) \in Nat /\ Len(from) # 0
    BY PathsNamed
  <2>. QED BY <2>1
<1>2. above = SubSeq(from, 1, l)
  BY <1>1 DEF Parent, Front
<1>. HIDE DEF above, l
<1>3. above \in Seq(Components) /\ Len(above) = l /\ \A i \in 1..l : above[i] = from[i]
  BY <1>1, <1>2, PrefixIs
<1>4. above # NoUri
  <2>1. ASSUME Len(above) = 1 PROVE Ordinary(above[1])
    <3>1. 1 \in 1..l /\ 1 \in 1..Len(from)
      BY <1>1, <1>3, <2>1
    <3>2. above[1][1] = from[1][1]
      BY <1>3, <3>1
    <3>. QED BY <3>1, <3>2, NamesAreOrdinary
  <2>. QED BY <2>1, NotNoUri
<1>5. above # <<>> => Front(above) \in Seq(Components)
  BY <1>3 DEF Front
<1>6. RequireBase(from, FALSE) =
        IF IsInitFile(from) THEN (IF above = <<>> THEN NoUri ELSE Front(above)) ELSE above
  BY DEF RequireBase, Parent, above
<1>7. RequireBase(from, FALSE) # NoUri =>
        IF IsInitFile(from) THEN above # <<>> /\ RequireBase(from, FALSE) = Front(above)
        ELSE RequireBase(from, FALSE) = above
  BY <1>6
<1>. QED BY <1>1, <1>2, <1>3, <1>4, <1>5, <1>7 DEF above, l

\* A step to a name is one longer, and leads somewhere.
LEMMA NameStep ==
    ASSUME NEW C, NEW at \in Seq(C), NEW c, Ordinary(c)
    PROVE  Walked(at, c) = Append(at, c) /\ Append(at, c) # NoUri
<1>1. Walked(at, c) = Append(at, c)
  BY WalkedIs
<1> DEFINE D == C \cup {c}
           a == Append(at, c)
<1>2. at \in Seq(D) /\ c \in D
  OBVIOUS
<1>. HIDE DEF D
<1>3. Len(a) = Len(at) + 1 /\ Len(at) \in Nat /\ a[Len(at) + 1] = c
  BY <1>2, AppendIs
<1>. HIDE DEF a
<1>4. a # NoUri
  BY <1>3, NotNoUri
<1>. QED BY <1>1, <1>4 DEF a

LEMMA ChildIs ==
    ASSUME NEW files, files \subseteq Locations, NEW C, NEW node \in Seq(C), NEW child \in Children(files, node)
    PROVE  \E c \in Components : /\ Ordinary(c) /\ child = Append(node, c) /\ c = child[Len(child)] /\ child # <<>>
                                 /\ IsDirectory(files, child) \/ child \in files
<1>1. PICK g \in files : IsStrictPrefix(node, g) /\ child = SubSeq(g, 1, Len(node) + 1)
  BY Zenon DEF Children
<1> DEFINE k == Len(node)
<1>2. g \in Seq(Components) /\ Len(g) \in Nat /\ k \in Nat
  BY PathsNamed
<1>3. k <= Len(g) /\ node = SubSeq(g, 1, k) /\ node # g
  <2>1. k <= Len(g) /\ SubSeq(node, 1, k) = SubSeq(g, 1, k) /\ node # g
    BY <1>1 DEF IsStrictPrefix, IsPrefix
  <2>2. SubSeq(node, 1, k) = node
    OBVIOUS
  <2>. QED BY <2>1, <2>2
<1>4. k # Len(g)
  <2>1. SubSeq(g, 1, Len(g)) = g
    BY <1>2
  <2>. QED BY <1>3, <2>1
<1>5. k + 1 \in 1..Len(g) /\ (k + 1) - 1 = k
  BY <1>2, <1>3, <1>4
<1>. HIDE DEF k
<1> DEFINE c == g[k + 1]
<1>6. child = SubSeq(g, 1, k + 1) /\ Append(SubSeq(g, 1, k), c) = SubSeq(g, 1, k + 1)
  <2>1. Append(SubSeq(g, 1, (k + 1) - 1), c) = SubSeq(g, 1, k + 1)
    BY <1>2, <1>5, PrefixSteps
  <2>. QED BY <1>1, <1>5, <2>1 DEF k
<1>7. c \in Components /\ Ordinary(c)
  <2>1. c \in Components /\ c[1] = g[k + 1][1]
    BY <1>2, <1>5
  <2>. HIDE DEF c
  <2>. QED BY <1>5, <2>1, NamesAreOrdinary
<1>. HIDE DEF c
<1>8. child = Append(node, c)
  BY <1>3, <1>6
<1>9. child[Len(child)] = c /\ child # <<>> /\ Len(child) = k + 1
  <2>1. SubSeq(g, 1, k) \in Seq(Components)
    BY <1>2, <1>3, PrefixIs
  <2>2. node \in Seq(Components)
    BY <1>3, <2>1
  <2>. QED BY <1>7, <1>8, <2>2, AppendIs DEF k
<1>10. IsDirectory(files, child) \/ child \in files
  <2>1. CASE k + 1 = Len(g)
    <3>1. SubSeq(g, 1, Len(g)) = g
      BY <1>2
    <3>. QED BY <1>6, <2>1, <3>1
  <2>2. CASE k + 1 # Len(g)
    <3>1. k + 1 \in 0..(Len(g) - 1)
      BY <1>2, <1>5, <2>2
    <3>. QED BY <1>6, <3>1 DEF IsDirectory, DirectoriesOf
  <2>. QED BY <2>1, <2>2
<1>. QED BY <1>7, <1>8, <1>9, <1>10

\* What a completion is of: the directory, the one above it or an alias.
IsStep(t) == t \in {Here, Up} \/ (t[1] = "@" /\ Lower(t[2]) \in STRING)

\* Where the step of a completion leads is where the string goes on from.
Reached(base, aliases, above, required) == Or(ResolveAlias(required, aliases, above), ResolvePath(base, required))

GoesOn(base, aliases, above, t) ==
    LET node == Reached(base, aliases, above, One(t))
    IN /\ node \in Seq(Steps \cup {t})
       /\ \A c : Ordinary(c) => Reached(base, aliases, above, Two(t, c)) = Append(node, c)

LEMMA ReachedGoesOn ==
    ASSUME NEW base \in Seq(Components), NEW above \in Seq(Components), NEW aliases, AliasesNamed(aliases),
           NEW t, IsStep(t)
    PROVE  GoesOn(base, aliases, above, t)
<1> DEFINE C == Steps \cup {t}
           node == Reached(base, aliases, above, One(t))
<1>0. base \in Seq(C) /\ t \in C /\ \A p \in Seq(Steps) : p \in Seq(C)
  <2>1. \A A, B : A \subseteq B => \A p \in Seq(A) : p \in Seq(B)
    OBVIOUS
  <2>2. base \in Seq(Steps)
    BY PathIsOfSteps
  <2>3. Steps \subseteq C
    OBVIOUS
  <2>. HIDE DEF C
  <2>4. \A p \in Seq(Steps) : p \in Seq(C)
    BY <2>1, <2>3
  <2>. QED BY <2>2, <2>4 DEF C
<1>1. /\ ResolvePath(base, One(t)) = Walked(base, t) /\ Walked(base, t) \in Seq(C)
      /\ \A c : ResolvePath(base, Two(t, c)) = Walked(Walked(base, t), c)
  <2>. HIDE DEF C
  <2>1. ResolvePath(base, One(t)) = Walked(base, t)
    BY OneStep
  <2>2. ASSUME NEW c PROVE ResolvePath(base, Two(t, c)) = Walked(Walked(base, t), c)
    BY TwoSteps
  <2>3. Walked(base, t) \in Seq(C)
    BY <1>0, WalkedIsPath
  <2>. QED BY <2>1, <2>2, <2>3, Zenon
<1>2. \A c : Two(t, c)[1] = t /\ One(t)[1] = t /\ One(t) # <<>> /\ Two(t, c) # <<>> /\ Tail(Two(t, c)) = One(c) /\ Tail(One(t)) = <<>>
  BY DEF One, Two
<1>3. CASE t \in {Here, Up}
  <2>1. \A s : s[1] = t => ResolveAlias(s, aliases, above) = NoUri
    <3>1. \A s : s[1] = t => s[1] \in {Here, Up}
      BY <1>3, Zenon
    <3>2. ASSUME NEW s, s[1] = t PROVE ~IsAliased(s)
      BY <3>1, <3>2, StepsAre
    <3>. QED BY <3>2, Zenon DEF ResolveAlias
  <2>2. \A s : s[1] = t => Reached(base, aliases, above, s) = ResolvePath(base, s)
    BY <2>1, Zenon DEF Reached, Or
  <2>3. node = Walked(base, t) /\ \A c : Reached(base, aliases, above, Two(t, c)) = Walked(Walked(base, t), c)
    BY <1>1, <1>2, <2>2
  <2>. HIDE DEF node, C
  <2>4. \A c : Ordinary(c) => Reached(base, aliases, above, Two(t, c)) = Append(node, c)
    BY <1>1, <2>3, NameStep
  <2>. QED BY <1>1, <2>3, <2>4 DEF node, C, GoesOn
<1>4. CASE t[1] = "@" /\ Lower(t[2]) \in STRING
  <2> DEFINE name == Lower(t[2])
  <2>1. PICK start : AliasStarts(start, aliases, above, name)
    <3>. HIDE DEF name
    <3>1. name \in STRING /\ above \in Seq(Steps)
      BY <1>4, PathIsOfSteps DEF name
    <3>. QED BY <3>1, AliasStart
  <2>2. start \in Seq(C) /\ \A s : s[1] = t => ResolveAliasFrom(s, aliases, above) = Behind(start, s)
    <3>. HIDE DEF C
    <3>. QED BY <1>0, <2>1 DEF AliasStarts
  <2>3. \A s : s # <<>> /\ s[1] = t => ResolveAlias(s, aliases, above) = Behind(start, s)
    <3>1. \A s : s # <<>> /\ s[1] = t => IsAliased(s)
      BY <1>4, Zenon DEF IsAliased
    <3>. HIDE DEF C
    <3>. QED BY <2>2, <3>1, Zenon DEF ResolveAlias
  <2>. HIDE DEF C
  <2>4. /\ ResolveAlias(One(t), aliases, above) = Behind(start, One(t))
        /\ \A c : ResolveAlias(Two(t, c), aliases, above) = Behind(start, Two(t, c))
    BY <1>2, <2>3
  <2>5. CASE start = NoUri
    <3>1. \A s : Behind(start, s) = NoUri
      BY <2>5 DEF Behind
    <3>2. /\ Reached(base, aliases, above, One(t)) = ResolvePath(base, One(t))
          /\ \A c : Reached(base, aliases, above, Two(t, c)) = ResolvePath(base, Two(t, c))
      BY <2>4, <3>1 DEF Reached, Or
    <3>. HIDE DEF node
    <3>3. \A c : Ordinary(c) => Reached(base, aliases, above, Two(t, c)) = Append(Walked(base, t), c)
      BY <1>1, <3>2, NameStep
    <3>. QED BY <1>1, <3>2, <3>3 DEF C, GoesOn
  <2>6. CASE start # NoUri
    <3>1. Behind(start, One(t)) = start
      <4>1. Len(<<>>) = 0
        OBVIOUS
      <4>2. ResolvePath(start, <<>>) = start
        BY <4>1, NoStep
      <4>. QED BY <1>2, <2>6, <4>2 DEF Behind
    <3>2. ASSUME NEW c, Ordinary(c) PROVE Behind(start, Two(t, c)) = Append(start, c) /\ Append(start, c) # NoUri
      <4>1. c # Slash
        <5>1. Slash[1] = "/"
          BY Zenon DEF Slash
        <5>2. c[1] # "/"
          BY <3>2, Zenon DEF Ordinary
        <5>. QED BY <5>1, <5>2
      <4> DEFINE rest == One(c)
      <4>2. rest[1] = c
        BY DEF One
      <4>3. ResolvePath(start, rest) = Append(start, c) /\ Append(start, c) # NoUri
        <5>1. ResolvePath(start, rest) = Walked(start, c)
          BY OneStep
        <5>2. Walked(start, c) = Append(start, c) /\ Append(start, c) # NoUri
          BY <2>2, <3>2, NameStep
        <5>. QED BY <5>1, <5>2, Zenon
      <4>4. Tail(Two(t, c)) = rest
        BY DEF One, Two
      <4>. HIDE DEF rest
      <4>5. Behind(start, Two(t, c)) = ResolvePath(start, rest)
        BY <2>6, <4>1, <4>2, <4>4 DEF Behind
      <4>. QED BY <4>3, <4>5
    <3>3. node = start
      BY <2>4, <2>6, <3>1 DEF Reached, Or
    <3>. HIDE DEF node
    <3>4. \A c : Ordinary(c) => Reached(base, aliases, above, Two(t, c)) = Append(node, c)
      BY <2>4, <3>2, <3>3 DEF Reached, Or
    <3>. QED BY <2>2, <3>3, <3>4 DEF node, C, GoesOn
  <2>. QED BY <2>5, <2>6
<1>. QED BY <1>3, <1>4 DEF IsStep, GoesOn

LEMMA ChildStep ==
    ASSUME NEW child, child # <<>>, NEW c \in Components, c = child[Len(child)], Ordinary(c)
    PROVE  /\ PathComponent(child) = <<c[1], NoExtension>> /\ Ordinary(PathComponent(child)) /\ Extension(child) = c[2]
           /\ Extension(child) = NoExtension => PathComponent(child) = c
<1>1. PathComponent(child) = <<c[1], NoExtension>>
  BY Zenon DEF PathComponent, Last, NoExtension
<1>2. <<c[1], NoExtension>>[1] = c[1] /\ c = <<c[1], c[2]>>
  BY DEF Components
<1>3. Ordinary(PathComponent(child))
  <2>1. \A x, y : x[1] = y[1] /\ Ordinary(x) => Ordinary(y)
    BY Zenon DEF Ordinary
  <2>. QED BY <1>1, <1>2, <2>1
<1>4. Extension(child) = c[2]
  BY ExtensionsAre
<1>. QED BY <1>1, <1>2, <1>3, <1>4

LEMMA NameOfChild ==
    ASSUME NEW C, NEW node \in Seq(C), NEW c \in Components
    PROVE  WithExtension(Append(node, c), NoExtension) = Append(node, <<c[1], NoExtension>>)
<1> DEFINE d == <<c[1], NoExtension>>
           D == C \cup {c, d}
           x == Append(node, c)
           y == Append(node, d)
           q == WithExtension(x, NoExtension)
<1>1. node \in Seq(D) /\ c \in D /\ d \in D
  <2>1. node \in Seq(C \cup {c, d})
    <3>. HIDE DEF d
    <3>. QED OBVIOUS
  <2>. QED BY <2>1
<1>. HIDE DEF D
<1>2. x \in Seq(D) /\ Len(x) = Len(node) + 1 /\ Len(node) \in Nat /\ x[Len(node) + 1] = c /\ \A i \in 1..Len(node) : x[i] = node[i]
  BY <1>1, AppendIs
<1>3. y \in Seq(D) /\ Len(y) = Len(node) + 1 /\ y[Len(node) + 1] = d /\ \A i \in 1..Len(node) : y[i] = node[i]
  <2>. HIDE DEF d
  <2>. QED BY <1>1, AppendIs
<1>. HIDE DEF x, y
<1>4. DOMAIN x = 1..(Len(node) + 1) /\ DOMAIN y = 1..(Len(node) + 1)
  BY <1>2, <1>3
<1>5. q = [i \in DOMAIN x |-> IF i = Len(x) THEN <<x[i][1], NoExtension>> ELSE x[i]]
  BY DEF WithExtension
<1>6. y = [i \in DOMAIN y |-> y[i]]
  BY <1>3
<1>7. ASSUME NEW i \in 1..(Len(node) + 1) PROVE y[i] = IF i = Len(x) THEN <<x[i][1], NoExtension>> ELSE x[i]
  <2>1. CASE i = Len(node) + 1
    BY <1>2, <1>3, <2>1
  <2>2. CASE i # Len(node) + 1
    <3>1. i \in 1..Len(node)
      BY <1>2, <2>2
    <3>. QED BY <1>2, <1>3, <2>2, <3>1
  <2>. QED BY <2>1, <2>2
<1>. HIDE DEF q, d
<1>8. q = y
  BY <1>4, <1>5, <1>6, <1>7
<1>. QED BY <1>8 DEF q, x, y, d

\* Each child listed is the file or the directory that the string with it leads to.
Completed(files, aliases, from, typed, child) ==
    LET s == Append(typed, PathComponent(child))
    IN /\ Extension(child) = NoExtension => ResolvePathToNode(aliases, from, s) = child
       /\ ~IsDirectory(files, child) /\ IsSourceFile(child) /\ Unambiguous(files, child) =>
             ResolveStringRequire(files, aliases, FALSE, from, s) = child

LEMMA CompletedResolves ==
    ASSUME NEW files, files \subseteq Locations, \A f \in files : ~IsDirectory(files, f),
           NEW from \in Locations, RequireBase(from, FALSE) # NoUri, NEW aliases, AliasesNamed(aliases),
           NEW t, IsStep(t), NEW typed, typed = <<t>>,
           NEW child \in Children(files, ResolvePathToNode(aliases, from, typed))
    PROVE  Completed(files, aliases, from, typed, child)
<1> DEFINE base == RequireBase(from, FALSE)
           above == Parent(from)
           node == Reached(base, aliases, above, One(t))
           C == Steps \cup {t}
           pc == PathComponent(child)
           s == Append(typed, pc)
<1>1. base \in Seq(Components) /\ above \in Seq(Components)
  <2>. HIDE DEF base, above
  <2>. QED BY BaseIs DEF base, above
<1>2. \A r : ResolvePathToNode(aliases, from, r) = Reached(base, aliases, above, r)
  BY DEF ResolvePathToNode, Reached
<1>3. \A r : ResolveStringRequire(files, aliases, FALSE, from, r) = Found(files, Reached(base, aliases, above, r))
  BY DEF ResolveStringRequire, Reached, Found
<1>4. s = Two(t, pc)
  <2>. HIDE DEF pc
  <2>. QED BY TwoComponents DEF Two
<1>. HIDE DEF base, above, C, s
<1>5. node \in Seq(C) /\ \A c : Ordinary(c) => Reached(base, aliases, above, Two(t, c)) = Append(node, c)
  <2>1. GoesOn(base, aliases, above, t)
    BY <1>1, ReachedGoesOn
  <2>. QED BY <2>1 DEF GoesOn, C
<1>6. child \in Children(files, node)
  BY <1>2 DEF One
<1>. HIDE DEF node
<1>7. PICK c \in Components : /\ Ordinary(c) /\ child = Append(node, c) /\ c = child[Len(child)] /\ child # <<>>
                              /\ IsDirectory(files, child) \/ child \in files
  BY <1>5, <1>6, ChildIs
<1>8. /\ pc = <<c[1], NoExtension>> /\ Ordinary(pc)
      /\ Extension(child) = NoExtension => pc = c
  BY <1>7, ChildStep
<1>9. Append(node, pc) = WithExtension(child, NoExtension)
  BY <1>5, <1>7, <1>8, NameOfChild
<1>. HIDE DEF pc
<1>10. Reached(base, aliases, above, s) = Append(node, pc)
  BY <1>4, <1>5, <1>8
<1>11. Extension(child) = NoExtension => ResolvePathToNode(aliases, from, s) = child
  BY <1>2, <1>7, <1>8, <1>10
<1>12. ASSUME ~IsDirectory(files, child), IsSourceFile(child), Unambiguous(files, child)
       PROVE  ResolveStringRequire(files, aliases, FALSE, from, s) = child
  <2>1. child \in files
    BY <1>7, <1>12
  <2>2. Found(files, WithExtension(child, NoExtension)) = child
    BY <1>12, <2>1, FoundByName
  <2>. QED BY <1>3, <1>9, <1>10, <2>2
<1>. QED BY <1>11, <1>12 DEF s, pc, Completed

LEMMA CompletionsAreSteps ==
    ASSUME NEW aliases, AliasesNamed(aliases),
           NEW typed \in {<<Here>>, <<Up>>, <<Self>>} \cup {<< <<"@", aliases[n].originalCase>> >> : n \in DOMAIN aliases}
    PROVE  \E t : IsStep(t) /\ typed = <<t>>
<1>1. IsStep(Here) /\ IsStep(Up)
  BY Zenon DEF IsStep
<1>2. IsStep(Self)
  <2>1. Lower("self") \in STRING
    BY AliasesAssumption
  <2>2. Self[1] = "@" /\ Self[2] = "self"
    BY DEF Self
  <2>3. Lower(Self[2]) \in STRING
    BY <2>1, <2>2, Zenon
  <2>. QED BY <2>2, <2>3 DEF IsStep
<1>3. ASSUME NEW n \in DOMAIN aliases PROVE IsStep(<<"@", aliases[n].originalCase>>)
  <2> DEFINE t == <<"@", aliases[n].originalCase>>
  <2>1. Lower(aliases[n].originalCase) = n /\ n \in STRING
    BY DEF AliasesNamed
  <2>2. t[1] = "@" /\ t[2] = aliases[n].originalCase
    OBVIOUS
  <2>. HIDE DEF t
  <2>3. IsStep(t)
    BY <2>1, <2>2 DEF IsStep
  <2>. QED BY <2>3 DEF t
<1>. QED BY <1>1, <1>2, <1>3

LEMMA CompletionsAlwaysResolve == ConfigInv /\ LeavesInv => CompletionsResolve
<1>1. SUFFICES ASSUME ConfigInv, LeavesInv PROVE CompletionsResolve
  OBVIOUS
<1>2. SUFFICES ASSUME NEW from \in DOMAIN sourceNodes \cap Files
      PROVE  LET aliases == GetConfig(LoadConfig(State, from), from).aliases
             IN \A typed \in {<<Here>>, <<Up>>, <<Self>>} \cup {<< <<"@", aliases[n].originalCase>> >> : n \in DOMAIN aliases} :
                  LET node == ResolvePathToNode(aliases, from, typed)
                  IN RequireBase(from, FALSE) # NoUri /\ node # NoUri => \A child \in Children(Files, node) :
                       LET s == Append(typed, PathComponent(child))
                       IN IF IsDirectory(Files, child)
                          THEN Extension(child) = "" => ResolvePathToNode(aliases, from, s) = child
                          ELSE IsSourceFile(child) /\ Unambiguous(Files, child)
                                 => ResolveStringRequire(Files, aliases, FALSE, from, s) = child
  BY Zenon DEF CompletionsResolve
<1> DEFINE aliases == GetConfig(LoadConfig(State, from), from).aliases
<1>3. AliasesNamed(aliases)
  <2>1. from \in Locations /\ CachesGood(State) /\ SettingsTyped
    BY <1>1 DEF ConfigInv, FilesInv, SettingsInv, CachesInv, SettingsTyped
  <2>. QED BY <2>1, LoadedAliasesNamed
<1>. HIDE DEF aliases
<1>4. ASSUME NEW typed \in {<<Here>>, <<Up>>, <<Self>>} \cup {<< <<"@", aliases[n].originalCase>> >> : n \in DOMAIN aliases},
             RequireBase(from, FALSE) # NoUri, NEW child \in Children(Files, ResolvePathToNode(aliases, from, typed))
      PROVE  Completed(Files, aliases, from, typed, child)
  <2>1. PICK t : IsStep(t) /\ typed = <<t>>
    BY <1>3, CompletionsAreSteps, Zenon
  <2>2. Files \subseteq Locations /\ from \in Locations /\ \A f \in Files : ~IsDirectory(Files, f)
    BY <1>1 DEF ConfigInv, FilesInv, LeavesInv
  <2>. QED BY <1>3, <1>4, <2>1, <2>2, CompletedResolves
<1>. QED BY <1>4, Zenon DEF aliases, NoExtension, Completed

-----------------------------------------------------------------------------
(* What a string offered for a module is made of.                            *)

\* A path of files, and a string of such names and of steps.
Named(p) == p \in Seq(Components) /\ \A i \in 1..Len(p) : Ordinary(p[i]) /\ p[i][1] # "@"
Plain(c) == c \in {Here, Up} \/ (Ordinary(c) /\ c[1] # "@")
IsPlain(s) ==
    /\ Len(s) \in Nat /\ Len(s) # 0 /\ s = [i \in 1..Len(s) |-> s[i]]
    /\ \A i \in 1..Len(s) : Plain(s[i])

LEMMA LeadsThere ==
    ASSUME NEW C, NEW base \in Seq(C), NEW p \in Seq(C), \A i \in 1..Len(p) : Ordinary(p[i]),
           NEW s, NEW c \in 0..Len(base), LeadsFrom(s, p, base, c)
    PROVE  ResolvePath(base, s) = p
<1> DEFINE k == Len(base) - c
           l == Len(p) - c
<1>1. /\ c <= Len(p) /\ SubSeq(p, 1, c) = SubSeq(base, 1, c)
      /\ Len(s) = k + l
      /\ \A n \in 1..k : s[n] = Up
      /\ \A n \in (k + 1)..Len(s) : s[n] = p[c + (n - k)]
  BY DEF LeadsFrom
<1>2. c \in Nat /\ k \in Nat /\ l \in Nat /\ Len(base) \in Nat /\ Len(p) \in Nat /\ Len(p) = l + c
  <2>1. ASSUME NEW a \in Nat, NEW b \in Nat, NEW e \in 0..a, e <= b
        PROVE  e \in Nat /\ a - e \in Nat /\ b - e \in Nat /\ b = (b - e) + e
    BY <2>1
  <2>2. Len(base) \in Nat /\ Len(p) \in Nat
    OBVIOUS
  <2>. QED BY <1>1, <2>1, <2>2
<1>. HIDE DEF k, l
<1>3. Len(s) \in Nat /\ Len(s) = 0 + k + l
  BY <1>1, <1>2
<1>4. (\A n \in 1..0 : s[n] = Here) /\ (\A n \in (0 + 1)..(0 + k) : s[n] = Up)
  BY <1>1, <1>2
<1>5. \A n \in (0 + k + 1)..Len(s) : s[n] = p[c + (n - 0 - k)] /\ Ordinary(s[n])
  <2>1. SUFFICES ASSUME NEW n \in (0 + k + 1)..Len(s) PROVE s[n] = p[c + (n - 0 - k)] /\ Ordinary(s[n])
    OBVIOUS
  <2>2. n \in (k + 1)..Len(s) /\ n - 0 - k = n - k /\ c + (n - k) \in 1..Len(p)
    <3>1. n \in (k + 1)..(k + l)
      BY <1>2, <1>3, <2>1
    <3>2. ASSUME NEW a \in Nat, NEW b \in Nat, NEW i \in (a + 1)..(a + b), NEW e \in Nat
          PROVE  i - 0 - a = i - a /\ e + (i - a) \in 1..(b + e)
      BY <3>2
    <3>3. n - 0 - k = n - k /\ c + (n - k) \in 1..(l + c)
      BY <1>2, <3>1, <3>2
    <3>. QED BY <1>1, <1>2, <3>1, <3>3
  <2>. QED BY <1>1, <2>2
<1>. QED BY <1>1, <1>3, <1>4, <1>5, ResolvesTo DEF k, l

\* The last of a string and of where it leads change their extension together.
LEMMA ExtensionLeads ==
    ASSUME NEW C, NEW base \in Seq(C), NEW p \in Seq(C), NEW r, NEW c \in 0..Len(base), LeadsFrom(r, p, base, c),
           c # Len(p), NEW ext
    PROVE  LeadsFrom(WithExtension(r, ext), WithExtension(p, ext), base, c)
<1> DEFINE k == Len(base) - c
           l == Len(p) - c
           q == WithExtension(p, ext)
           t == WithExtension(r, ext)
<1>1. /\ c <= Len(p) /\ SubSeq(p, 1, c) = SubSeq(base, 1, c)
      /\ DOMAIN r = 1..Len(r) /\ Len(r) = k + l
      /\ \A n \in 1..k : r[n] = Up
      /\ \A n \in (k + 1)..Len(r) : r[n] = p[c + (n - k)]
  BY DEF LeadsFrom
<1>2. c \in Nat /\ k \in Nat /\ l \in Nat /\ l # 0 /\ Len(base) \in Nat /\ Len(p) \in Nat /\ Len(p) = l + c /\ c < Len(p)
  <2>1. ASSUME NEW a \in Nat, NEW b \in Nat, NEW e \in 0..a, e <= b, e # b
        PROVE  e \in Nat /\ a - e \in Nat /\ b - e \in Nat /\ b - e # 0 /\ b = (b - e) + e /\ e < b
    BY <2>1
  <2>2. Len(base) \in Nat /\ Len(p) \in Nat
    OBVIOUS
  <2>. QED BY <1>1, <2>1, <2>2
<1>3. /\ DOMAIN q = DOMAIN p /\ Len(q) = Len(p)
      /\ \A i \in DOMAIN p : i # Len(p) => q[i] = p[i]
      /\ Len(p) \in DOMAIN p => q[Len(p)] = <<p[Len(p)][1], ext>>
  BY WithExtensionIs
<1>4. /\ DOMAIN t = DOMAIN r /\ Len(t) = Len(r)
      /\ \A i \in DOMAIN r : i # Len(r) => t[i] = r[i]
      /\ Len(r) \in DOMAIN r => t[Len(r)] = <<r[Len(r)][1], ext>>
  BY WithExtensionIs
<1>5. t = [n \in DOMAIN t |-> t[n]] /\ q = [n \in DOMAIN q |-> q[n]]
  BY DEF WithExtension
<1>. HIDE DEF q, t, k, l
<1>6. DOMAIN p = 1..Len(p) /\ DOMAIN q = 1..Len(p)
  <2>1. DOMAIN p = 1..Len(p)
    OBVIOUS
  <2>2. DOMAIN q = DOMAIN p
    BY <1>3
  <2>. QED BY <2>1, <2>2
<1>7. SubSeq(q, 1, c) = SubSeq(base, 1, c)
  <2> DEFINE D == C \cup {q[Len(p)]}
  <2>1. \A i \in 1..Len(p) : q[i] \in D
    <3>1. \A i \in 1..Len(p) : p[i] \in C
      OBVIOUS
    <3>. QED BY <1>3, <1>6, <3>1
  <2>2. p \in Seq(D)
    OBVIOUS
  <2>. HIDE DEF D
  <2>3. q \in Seq(D)
    <3>1. q \in [1..Len(p) -> D]
      BY <1>5, <1>6, <2>1
    <3>. QED BY <1>2, <3>1, FunctionIsSequence
  <2>4. \A i \in 1..c : q[i] = p[i]
    <3>1. \A i \in 1..c : i \in 1..Len(p) /\ i # Len(p)
      BY <1>2
    <3>. QED BY <1>3, <1>6, <3>1
  <2>5. SubSeq(q, 1, c) = SubSeq(p, 1, c)
    BY <1>1, <1>2, <1>3, <2>2, <2>3, <2>4, SamePrefix
  <2>. QED BY <1>1, <2>5
<1>8. \A n \in 1..k : t[n] = Up
  <2>1. \A n \in 1..k : n \in 1..(k + l) /\ n # k + l
    BY <1>2
  <2>. QED BY <1>1, <1>4, <2>1
<1>9. ASSUME NEW n \in (k + 1)..Len(t) PROVE t[n] = q[c + (n - k)]
  <2> DEFINE j == c + (n - k)
  <2>1. n \in 1..(k + l) /\ j \in 1..(l + c) /\ (n = k + l <=> j = l + c)
    <3>1. n \in (k + 1)..(k + l)
      BY <1>1, <1>4, <1>9
    <3>2. ASSUME NEW a \in Nat, NEW b \in Nat, NEW i \in (a + 1)..(a + b), NEW e \in Nat
          PROVE  i \in 1..(a + b) /\ e + (i - a) \in 1..(b + e) /\ (i = a + b <=> e + (i - a) = b + e)
      BY <3>2
    <3>. QED BY <1>2, <3>1, <3>2
  <2>2. r[n] = p[j]
    BY <1>1, <1>4, <1>9
  <2>. HIDE DEF j
  <2>3. n \in DOMAIN r /\ j \in DOMAIN p /\ (n = Len(r) <=> j = Len(p))
    BY <1>1, <1>2, <1>6, <2>1
  <2>4. CASE n = Len(r)
    BY <1>3, <1>4, <2>2, <2>3, <2>4 DEF j
  <2>5. CASE n # Len(r)
    BY <1>3, <1>4, <2>2, <2>3, <2>5 DEF j
  <2>. QED BY <2>4, <2>5
<1>10. c <= Len(q) /\ DOMAIN t = 1..Len(t) /\ Len(t) = k + (Len(q) - c)
  BY <1>1, <1>2, <1>3, <1>4 DEF l
<1>11. LeadsFrom(t, q, base, c)
  BY <1>5, <1>7, <1>8, <1>9, <1>10 DEF LeadsFrom, k
<1>. QED BY <1>11 DEF q, t

\* A string of which each component is a name or a step.
LEMMA PlainIs ==
    ASSUME NEW s, IsPlain(s)
    PROVE  /\ s[1] # Slash /\ ~IsAliased(s) /\ s # <<>>
           /\ \E D : s \in Seq(D)
<1>1. Len(s) \in Nat /\ Len(s) # 0 /\ s = [i \in 1..Len(s) |-> s[i]] /\ \A i \in 1..Len(s) : Plain(s[i])
  BY DEF IsPlain
<1>2. Plain(s[1])
  <2>1. 1 \in 1..Len(s)
    BY <1>1
  <2>. QED BY <1>1, <2>1
<1>3. \A c : Plain(c) => c # Slash /\ c[1] # "@"
  <2>1. Here[1] = "." /\ Up[1] = ".." /\ Slash[1] = "/" /\ "." # "@" /\ ".." # "@" /\ "." # "/" /\ ".." # "/"
    BY Zenon DEF Here, Up, Slash
  <2>2. \A c : Ordinary(c) => c[1] # "/"
    BY Zenon DEF Ordinary
  <2>3. ASSUME NEW c, Plain(c) PROVE c[1] # "/" /\ c[1] # "@"
    <3>1. c = Here \/ c = Up \/ (Ordinary(c) /\ c[1] # "@")
      BY <2>3 DEF Plain
    <3>2. CASE c = Here
      BY <2>1, <3>2, Zenon
    <3>3. CASE c = Up
      BY <2>1, <3>3, Zenon
    <3>4. CASE Ordinary(c) /\ c[1] # "@"
      BY <2>2, <3>4, Zenon
    <3>. QED BY <3>1, <3>2, <3>3, <3>4, Zenon
  <2>. QED BY <2>1, <2>3, Zenon
<1>4. s[1] # Slash /\ ~IsAliased(s)
  BY <1>2, <1>3, Zenon DEF IsAliased
<1>5. s # <<>>
  BY <1>1
<1>6. s \in Seq({s[i] : i \in 1..Len(s)})
  <2> DEFINE D == {s[i] : i \in 1..Len(s)}
  <2>1. s \in [1..Len(s) -> D]
    BY <1>1
  <2>. HIDE DEF D
  <2>2. s \in Seq(D)
    BY <1>1, <2>1, FunctionIsSequence, Zenon
  <2>. QED BY <2>2 DEF D
<1>. QED BY <1>4, <1>5, <1>6

\* The relative string to a path, without the extension of a source file.
LEMMA SuggestedLeads ==
    ASSUME NEW p, Named(p), NEW base \in Seq(Components)
    PROVE  LET s == RemoveSourceFileExtension(LexicallyRelative(p, base))
           IN /\ IsPlain(s)
              /\ ResolvePath(base, s) = p \/ (IsSourceFile(p) /\ ResolvePath(base, s) = WithExtension(p, NoExtension))
<1> DEFINE r == LexicallyRelative(p, base)
           s == RemoveSourceFileExtension(r)
<1>1. p \in Seq(Components) /\ Len(p) \in Nat /\ Len(base) \in Nat /\ \A i \in 1..Len(p) : Ordinary(p[i]) /\ p[i][1] # "@"
  BY DEF Named
<1>2. s = IF IsSourceFile(r) THEN WithExtension(r, NoExtension) ELSE r
  BY Zenon DEF RemoveSourceFileExtension, NoExtension
<1>3. Here[2] = NoExtension /\ Up[2] = NoExtension
  BY Zenon DEF Here, Up, NoExtension
<1>4. ASSUME NEW x, x # <<>> PROVE IsSourceFile(x) <=> x[Len(x)][2] \in ToSet(SourceExtensions)
  BY <1>4, ExtensionsAre DEF IsSourceFile
<1>. HIDE DEF s
<1>5. CASE p = base
  <2>1. r = <<Here>>
    BY <1>5 DEF LexicallyRelative
  <2> DEFINE one == <<Here>>
  <2>2. one # <<>> /\ Len(one) = 1 /\ one[1] = Here /\ one = [i \in 1..1 |-> one[i]]
    OBVIOUS
  <2>. HIDE DEF one, r
  <2>3. r = one
    BY <2>1 DEF one
  <2>4. ~IsSourceFile(one)
    BY <1>3, <1>4, <2>2, ExtensionsAre
  <2>5. s = one
    BY <1>2, <2>3, <2>4
  <2>6. IsPlain(one)
    <3>1. Plain(Here)
      BY DEF Plain
    <3>. QED BY <2>2, <3>1 DEF IsPlain
  <2>7. ResolvePath(base, One(Here)) = base
    BY OneStep, WalkedIs
  <2>. QED BY <1>5, <2>5, <2>6, <2>7 DEF one, One, r, s
<1>6. CASE p # base
  <2>1. PICK c \in 0..Len(base) : LeadsFrom(r, p, base, c)
    BY <1>1, <1>6, LexicallyRelativeIs
  <2>. HIDE DEF r
  <2> DEFINE k == Len(base) - c
             l == Len(p) - c
  <2>2. /\ c <= Len(p) /\ SubSeq(p, 1, c) = SubSeq(base, 1, c)
        /\ DOMAIN r = 1..Len(r) /\ Len(r) = k + l
        /\ r = [n \in DOMAIN r |-> r[n]]
        /\ \A n \in 1..k : r[n] = Up
        /\ \A n \in (k + 1)..Len(r) : r[n] = p[c + (n - k)]
    BY <2>1 DEF LeadsFrom
  <2>3. c \in Nat /\ k \in Nat /\ l \in Nat /\ Len(p) = l + c /\ Len(base) = k + c
    <3>1. ASSUME NEW a \in Nat, NEW b \in Nat, NEW e \in 0..a, e <= b
          PROVE  e \in Nat /\ a - e \in Nat /\ b - e \in Nat /\ b = (b - e) + e /\ a = (a - e) + e
      BY <3>1
    <3>. QED BY <1>1, <2>2, <3>1
  <2>4. k + l # 0
    <3>1. SUFFICES ASSUME k = 0, l = 0 PROVE FALSE
      <4>. HIDE DEF k, l
      <4>. QED BY <2>3
    <3>2. Len(p) = c /\ Len(base) = c
      <4>. HIDE DEF k, l
      <4>. QED BY <2>3, <3>1
    <3>3. SubSeq(p, 1, Len(p)) = p /\ SubSeq(base, 1, Len(base)) = base
      BY <1>1
    <3>. QED BY <1>6, <2>2, <3>2, <3>3
  <2>. HIDE DEF k, l
  <2>5. Len(r) \in Nat /\ Len(r) # 0 /\ r # <<>> /\ Len(r) \in 1..Len(r)
    <3>1. Len(r) \in Nat /\ Len(r) # 0
      BY <2>2, <2>3, <2>4
    <3>. QED BY <3>1
  <2>6. \A n \in (k + 1)..Len(r) : c + (n - k) \in 1..Len(p) /\ r[n] = p[c + (n - k)]
    <3>1. ASSUME NEW a \in Nat, NEW b \in Nat, NEW i \in (a + 1)..(a + b), NEW e \in Nat
          PROVE  e + (i - a) \in 1..(b + e)
      BY <3>1
    <3>2. \A n \in (k + 1)..(k + l) : c + (n - k) \in 1..(l + c)
      BY <2>3, <3>1
    <3>. QED BY <2>2, <2>3, <3>2
  <2>7. \A n \in 1..Len(r) : n \in 1..k \/ n \in (k + 1)..Len(r)
    BY <2>3, <2>5
  <2>8. \A n \in 1..Len(r) : Plain(r[n])
    BY <1>1, <2>2, <2>6, <2>7 DEF Plain
  <2>9. IsPlain(r)
    BY <2>2, <2>5, <2>8 DEF IsPlain
  <2>10. ResolvePath(base, r) = p
    BY <1>1, <2>1, LeadsThere
  <2>11. CASE ~IsSourceFile(r)
    BY <1>2, <2>9, <2>10, <2>11 DEF r, s
  <2>12. CASE IsSourceFile(r)
    <3>1. r[Len(r)] # Up
      BY <1>3, <1>4, <2>5, <2>12, ExtensionsAre
    <3>2. Len(r) \notin 1..k
      BY <2>2, <3>1
    <3>3. c # Len(p)
      <4>1. l # 0
        BY <2>2, <2>3, <2>5, <3>2
      <4>. QED BY <2>3, <4>1
    <3>4. r[Len(r)] = p[Len(p)] /\ p # <<>>
      <4>1. Len(r) \in (k + 1)..Len(r) /\ c + (Len(r) - k) = Len(p)
        BY <2>2, <2>3, <2>5, <2>7, <3>2
      <4>2. p # <<>>
        <5>1. Len(p) # 0
          BY <2>3, <3>3
        <5>. QED BY <5>1
      <4>. QED BY <2>2, <4>1, <4>2
    <3>5. IsSourceFile(p)
      BY <1>4, <2>5, <2>12, <3>4
    <3>6. LeadsFrom(WithExtension(r, NoExtension), WithExtension(p, NoExtension), base, c)
      BY <1>1, <2>1, <3>3, ExtensionLeads
    <3> DEFINE q == WithExtension(p, NoExtension)
               D == Components \cup {q[Len(p)]}
    <3>7. /\ DOMAIN q = DOMAIN p /\ Len(q) = Len(p)
          /\ \A i \in DOMAIN p : i # Len(p) => q[i] = p[i]
          /\ Len(p) \in DOMAIN p => q[Len(p)] = <<p[Len(p)][1], NoExtension>>
      BY WithExtensionIs
    <3>8. DOMAIN p = 1..Len(p)
      BY <1>1
    <3>15. q = [i \in DOMAIN p |-> q[i]]
      BY DEF WithExtension
    <3>. HIDE DEF q
    <3>9. q \in Seq(D) /\ \A i \in 1..Len(q) : q[i][1] = p[i][1]
      <4>1. \A i \in 1..Len(p) : q[i] \in D /\ q[i][1] = p[i][1]
        <5>1. \A i \in 1..Len(p) : p[i] \in Components
          BY <1>1
        <5>. QED BY <3>7, <3>8, <5>1
      <4>2. q \in [1..Len(p) -> D]
        BY <3>8, <3>15, <4>1
      <4>. HIDE DEF D
      <4>. QED BY <1>1, <3>7, <4>1, <4>2, FunctionIsSequence
    <3>10. \A x, y : x[1] = y[1] => (Ordinary(x) <=> Ordinary(y))
      BY Zenon DEF Ordinary
    <3>11. \A i \in 1..Len(q) : Ordinary(q[i])
      BY <1>1, <3>7, <3>9, <3>10
    <3>12. base \in Seq(D)
      BY <1>1
    <3>. HIDE DEF D
    <3>13. ResolvePath(base, s) = q
      BY <1>2, <2>12, <3>6, <3>9, <3>11, <3>12, LeadsThere DEF q
    <3>14. IsPlain(s)
      <4>1. /\ DOMAIN s = DOMAIN r /\ Len(s) = Len(r)
            /\ \A i \in DOMAIN r : i # Len(r) => s[i] = r[i]
            /\ Len(r) \in DOMAIN r => s[Len(r)] = <<r[Len(r)][1], NoExtension>>
        BY <1>2, <2>12, WithExtensionIs
      <4>2. s = [i \in DOMAIN s |-> s[i]]
        BY <1>2, <2>12 DEF WithExtension
      <4>3. s[Len(r)][1] = r[Len(r)][1]
        BY <2>2, <2>5, <4>1
      <4>4. Plain(s[Len(r)])
        <5>1. Ordinary(p[Len(p)]) /\ p[Len(p)][1] # "@"
          <6>1. Len(p) \in 1..Len(p)
            BY <1>1, <3>4
          <6>. QED BY <1>1, <6>1
        <5>. QED BY <3>4, <3>10, <4>3, <5>1 DEF Plain
      <4>. QED BY <2>2, <2>5, <2>8, <4>1, <4>2, <4>4 DEF IsPlain
    <3>. QED BY <3>5, <3>13, <3>14 DEF q, r, s
  <2>. QED BY <2>11, <2>12
<1>. QED BY <1>5, <1>6

\* A step before such a string.
LEMMA StepBefore ==
    ASSUME NEW a, NEW r, IsPlain(r)
    PROVE  LET s == <<a>> \o r
           IN /\ s[1] = a /\ s # <<>> /\ Tail(s) = r
              /\ \A b : ResolvePath(b, s) = ResolvePath(Walked(b, a), r)
<1> DEFINE one == <<a>>
           s == one \o r
<1>1. PICK D : r \in Seq(D)
  BY PlainIs
<1> DEFINE E == D \cup {a}
<1>2. r \in Seq(E) /\ a \in E
  BY <1>1
<1>. HIDE DEF E
<1>3. one \in Seq(E) /\ Len(one) = 1 /\ one[1] = a
  BY <1>2, OneComponent
<1>. HIDE DEF one
<1>4. /\ s \in Seq(E) /\ Len(s) = 1 + Len(r) /\ s[1] = one[1]
      /\ \A n \in 1..Len(r) : s[1 + n] = r[n]
  <2>1. /\ s \in Seq(E) /\ Len(s) = Len(one) + Len(r)
        /\ \A n \in 1..Len(one) : s[n] = one[n]
        /\ \A n \in 1..Len(r) : s[Len(one) + n] = r[n]
    BY <1>2, <1>3, JoinIs
  <2>. HIDE DEF s
  <2>2. 1 \in 1..Len(one)
    BY <1>3
  <2>. QED BY <1>3, <2>1, <2>2
<1>. HIDE DEF s
<1>5. Len(r) \in Nat /\ Len(s) = Len(r) + 1 /\ \A n \in 1..Len(r) : s[n + 1] = r[n]
  <2>1. Len(r) \in Nat
    BY <1>2
  <2>2. \A n \in 1..Len(r) : n + 1 = 1 + n
    BY <2>1
  <2>. QED BY <1>4, <2>1, <2>2
<1>6. s # <<>>
  <2>1. Len(s) # 0
    BY <1>5
  <2>. QED BY <2>1
<1>7. Tail(s) = r
  <2>1. Tail(s) \in Seq(E) /\ Len(Tail(s)) = Len(r) /\ \A n \in 1..Len(r) : Tail(s)[n] = s[n + 1]
    BY <1>4, <1>5, <1>6
  <2>. QED BY <1>2, <1>5, <2>1
<1>8. ASSUME NEW b PROVE ResolvePath(b, s) = ResolvePath(Walked(b, a), r)
  <2>1. ResolvePath(b, s) = ResolvePath(Walked(b, s[1]), r)
    BY <1>5, FirstStep
  <2>. QED BY <1>3, <1>4, <2>1
<1>. QED BY <1>3, <1>4, <1>6, <1>7, <1>8 DEF s, one

\* A string that names the directory of an init file, and what is behind it.
LEMMA SelfLeads ==
    ASSUME NEW aliases, AliasesNamed(aliases), "self" \notin DOMAIN aliases, NEW above \in Seq(Components),
           above # NoUri, NEW r, IsPlain(r)
    PROVE  ResolveAlias(<<Self>> \o r, aliases, above) = ResolvePath(above, r)
<1> DEFINE s == <<Self>> \o r
           name == Lower("self")
<1>1. s[1] = Self /\ s # <<>> /\ Tail(s) = r
  BY StepBefore
<1>2. Self[1] = "@" /\ Self[2] = "self"
  BY DEF Self
<1>3. IsAliased(s)
  <2>. HIDE DEF s
  <2>. QED BY <1>1, <1>2 DEF IsAliased
<1>4. name \in STRING /\ name = "self"
  BY AliasesAssumption
<1>5. PICK start : AliasStarts(start, aliases, above, name)
  <2>1. above \in Seq(Steps)
    BY PathIsOfSteps
  <2>. HIDE DEF name
  <2>. QED BY <1>4, <2>1, AliasStart
<1>6. start = above
  <2>1. name \notin DOMAIN aliases
    BY <1>4
  <2>. HIDE DEF name
  <2>. QED BY <1>4, <1>5, <2>1 DEF AliasStarts
<1>7. ResolveAliasFrom(s, aliases, above) = Behind(above, s)
  <2>1. Lower(s[1][2]) = name
    <3>. HIDE DEF s
    <3>. QED BY <1>1, <1>2
  <2>. HIDE DEF s, name
  <2>. QED BY <1>5, <1>6, <2>1 DEF AliasStarts
<1>. HIDE DEF s
<1>8. Behind(above, s) = ResolvePath(above, r)
  <2>1. r[1] # Slash
    BY PlainIs
  <2>. QED BY <1>1, <2>1 DEF Behind
<1>. QED BY <1>3, <1>7, <1>8 DEF ResolveAlias, s

LEMMA StepFirst ==
    ASSUME NEW r, IsPlain(r), Len(r) # 1
    PROVE  IsPlain(Tail(r)) /\ \A b : ResolvePath(b, r) = ResolvePath(Walked(b, r[1]), Tail(r))
<1> DEFINE q == Tail(r)
<1>1. PICK D : r \in Seq(D)
  BY PlainIs
<1>2. Len(r) \in Nat /\ Len(r) # 0 /\ r # <<>> /\ \A i \in 1..Len(r) : Plain(r[i])
  BY PlainIs DEF IsPlain
<1>3. q \in Seq(D) /\ Len(q) = Len(r) - 1 /\ \A n \in 1..Len(q) : q[n] = r[n + 1]
  BY <1>1, <1>2
<1>. HIDE DEF q
<1>4. Len(q) \in Nat /\ Len(q) # 0 /\ Len(r) = Len(q) + 1
  BY <1>2, <1>3
<1>5. IsPlain(q)
  <2>1. \A n \in 1..Len(q) : n + 1 \in 1..Len(r)
    BY <1>4
  <2>2. \A n \in 1..Len(q) : Plain(q[n])
    BY <1>2, <1>3, <2>1
  <2>3. q = [i \in 1..Len(q) |-> q[i]]
    BY <1>3
  <2>. QED BY <1>4, <2>2, <2>3 DEF IsPlain
<1>6. ASSUME NEW b PROVE ResolvePath(b, r) = ResolvePath(Walked(b, r[1]), q)
  BY <1>3, <1>4, FirstStep
<1>. QED BY <1>5, <1>6 DEF q

\* The string that starts from an init file leads where one from its directory does.
LEMMA FromInitResolves ==
    ASSUME NEW from \in Locations, RequireBase(from, FALSE) # NoUri, NEW aliases, AliasesNamed(aliases),
           ~(IsInitFile(from) /\ "self" \in DOMAIN aliases), NEW r, IsPlain(r), ResolvePath(Parent(from), r) # NoUri
    PROVE  Reached(RequireBase(from, FALSE), aliases, Parent(from), FromInit(from, r)) = ResolvePath(Parent(from), r)
<1> DEFINE base == RequireBase(from, FALSE)
           above == Parent(from)
           to == ResolvePath(above, r)
<1>1. /\ above \in Seq(Components) /\ above # NoUri
      /\ IsInitFile(from) => above # <<>> /\ base = Front(above)
      /\ ~IsInitFile(from) => base = above
  <2>. HIDE DEF base, above
  <2>. QED BY BaseIs DEF base, above
<1>2. to # NoUri
  OBVIOUS
<1>3. FromInit(from, r) =
        IF r[1] # Up \/ Len(r) = 1 THEN (IF IsInitFile(from) THEN <<Self>> ELSE <<Here>>) \o r
        ELSE IF ~IsInitFile(from) THEN r
        ELSE IF Tail(r)[1] # Up \/ Len(Tail(r)) = 1 THEN <<Here>> \o Tail(r) ELSE Tail(r)
  BY DEF FromInit
<1>4. ASSUME NEW s, IsPlain(s) PROVE Reached(base, aliases, above, s) = ResolvePath(base, s)
  <2>1. ~IsAliased(s)
    BY <1>4, PlainIs
  <2>. QED BY <2>1 DEF Reached, ResolveAlias, Or
<1>5. ASSUME NEW s, IsPlain(s) PROVE Reached(base, aliases, above, <<Here>> \o s) = ResolvePath(base, s)
  <2> DEFINE t == <<Here>> \o s
  <2>1. t[1] = Here /\ \A b : ResolvePath(b, t) = ResolvePath(Walked(b, Here), s)
    BY <1>5, StepBefore
  <2>. HIDE DEF t, base
  <2>2. ResolvePath(base, t) = ResolvePath(base, s)
    BY <2>1, WalkedIs
  <2>3. ~IsAliased(t)
    BY <2>1, StepsAre
  <2>. QED BY <2>2, <2>3 DEF Reached, ResolveAlias, Or, t
<1>. HIDE DEF base, to
<1>6. CASE r[1] # Up \/ Len(r) = 1
  <2>1. CASE IsInitFile(from)
    <3>1. FromInit(from, r) = <<Self>> \o r
      BY <1>3, <1>6, <2>1
    <3>2. "self" \notin DOMAIN aliases
      BY <2>1
    <3>. HIDE DEF above
    <3>3. ResolveAlias(<<Self>> \o r, aliases, above) = to
      BY <1>1, <3>2, SelfLeads DEF to
    <3>4. Reached(base, aliases, above, <<Self>> \o r) = to
      BY <1>2, <3>3 DEF Reached, Or
    <3>. QED BY <3>1, <3>4 DEF to, above, base
  <2>2. CASE ~IsInitFile(from)
    <3>1. FromInit(from, r) = <<Here>> \o r
      BY <1>3, <1>6, <2>2
    <3>. QED BY <1>1, <1>5, <2>2, <3>1 DEF base, to
  <2>. QED BY <2>1, <2>2
<1>7. CASE ~(r[1] # Up \/ Len(r) = 1)
  <2>1. CASE ~IsInitFile(from)
    <3>1. FromInit(from, r) = r
      BY <1>3, <1>7, <2>1
    <3>. QED BY <1>1, <1>4, <2>1, <3>1 DEF base, to
  <2>2. CASE IsInitFile(from)
    <3>1. IsPlain(Tail(r)) /\ ResolvePath(above, r) = ResolvePath(Walked(above, r[1]), Tail(r))
      <4>. HIDE DEF above
      <4>. QED BY <1>7, StepFirst
    <3>2. Walked(above, r[1]) = base
      <4>. HIDE DEF above
      <4>. QED BY <1>1, <1>7, <2>2, WalkedIs
    <3>3. FromInit(from, r) \in {<<Here>> \o Tail(r), Tail(r)}
      BY <1>3, <1>7, <2>2
    <3>4. to = ResolvePath(base, Tail(r))
      BY <3>1, <3>2 DEF to
    <3>. QED BY <1>4, <1>5, <3>1, <3>3, <3>4 DEF base, to
  <2>. QED BY <2>1, <2>2
<1>. QED BY <1>6, <1>7

\* What names a module: the file, or the directory of an init file.
TargetOf(to) == IF IsInitFile(to) THEN Parent(to) ELSE to

LEMMA TargetNamed ==
    ASSUME NEW to \in Locations
    PROVE  Named(TargetOf(to))
<1>1. to \in Seq(Components) /\ Len(to) \in Nat /\ Len(to) # 0 /\ DOMAIN to = 1..Len(to)
  BY PathsNamed
<1>2. ASSUME NEW i \in 1..Len(to) PROVE Ordinary(to[i]) /\ to[i][1] # "@"
  <2>1. Ordinary(to[i])
    BY NamesAreOrdinary
  <2>2. to[i][1] # "@"
    BY <1>1, NamesAssumption, Zenon
  <2>. QED BY <2>1, <2>2
<1>3. Named(to)
  BY <1>1, <1>2 DEF Named
<1>4. Named(Parent(to))
  <2> DEFINE above == Parent(to)
             l == Len(to) - 1
  <2>1. above = SubSeq(to, 1, l)
    BY BaseIs
  <2>2. l \in Nat /\ l <= Len(to)
    BY <1>1
  <2>. HIDE DEF l, above
  <2>3. above \in Seq(Components) /\ Len(above) = l /\ \A i \in 1..l : above[i] = to[i]
    BY <1>1, <2>1, <2>2, PrefixIs
  <2>4. \A i \in 1..l : i \in 1..Len(to)
    BY <1>1, <2>2
  <2>5. \A i \in 1..Len(above) : Ordinary(above[i]) /\ above[i][1] # "@"
    BY <1>2, <2>3, <2>4
  <2>. QED BY <2>3, <2>5 DEF Named, above
<1>. QED BY <1>3, <1>4 DEF TargetOf

\* A module is found by what names it.
LEMMA TargetFound ==
    ASSUME NEW files, files \subseteq Locations, NEW to \in files, IsSourceFile(to), Unambiguous(files, to),
           ~IsDirectory(files, to), NEW t,
           t = TargetOf(to) \/ (~IsInitFile(to) /\ t = WithExtension(to, NoExtension))
    PROVE  Found(files, t) = to
<1>1. CASE ~IsInitFile(to)
  <2>1. t \in {to, WithExtension(to, NoExtension)}
    BY <1>1 DEF TargetOf
  <2>. QED BY <2>1, FoundByName
<1>2. CASE IsInitFile(to)
  <2> DEFINE q == WithExtension(to, NoExtension)
             l == Len(to) - 1
  <2>1. to \in Seq(Components) /\ Len(to) \in Nat /\ Len(to) # 0 /\ Len(to) \in 1..Len(to) /\ l \in 0..(Len(to) - 1)
    <3>1. to \in Seq(Components) /\ Len(to) \in Nat /\ Len(to) # 0
      BY PathsNamed
    <3>. QED BY <3>1
  <2>2. t = SubSeq(to, 1, l) /\ t \in Seq(Components)
    BY <1>2, BaseIs DEF TargetOf
  <2>3. IsDirectory(files, t)
    <3>. HIDE DEF l
    <3>. QED BY <2>1, <2>2 DEF IsDirectory, DirectoriesOf
  <2>4. Append(t, InitComponent) = q
    <3> DEFINE c == to[Len(to)]
    <3>1. Append(t, c) = to
      <4>1. Append(SubSeq(to, 1, Len(to) - 1), to[Len(to)]) = SubSeq(to, 1, Len(to))
        BY <2>1, PrefixSteps
      <4>2. SubSeq(to, 1, Len(to)) = to
        BY <2>1
      <4>. QED BY <2>2, <4>1, <4>2
    <3>2. c \in Components /\ c[1] = "init"
      <4>1. Last(to)[1] = "init"
        BY <1>2 DEF IsInitFile
      <4>. QED BY <2>1, <4>1 DEF Last
    <3>. HIDE DEF c
    <3>3. WithExtension(Append(t, c), NoExtension) = Append(t, <<c[1], NoExtension>>)
      BY <2>2, <3>2, NameOfChild
    <3>. QED BY <3>1, <3>2, <3>3 DEF InitComponent
  <2>5. FileAt(files, t) = q
    BY <2>3, <2>4, FileAtIs
  <2>. HIDE DEF q
  <2>6. ~IsDirectory(files, q)
    <3>1. Len(q) = Len(to) /\ WithExtension(q, NoExtension) = WithExtension(to, NoExtension)
      BY WithExtensionIs, StemOfExtension DEF q
    <3>. QED BY <3>1, NoSuchDirectory
  <2>7. Found(files, q) = to
    BY FoundByName DEF q
  <2>8. FileAt(files, q) = q
    BY <2>6, FileAtIs
  <2>. QED BY <2>5, <2>7, <2>8 DEF Found
<1>. QED BY <1>1, <1>2

\* What a string has to lead to, to resolve to the module.
Names(to, t) == t = TargetOf(to) \/ (~IsInitFile(to) /\ t = WithExtension(to, NoExtension))

LEMMA SuggestedNames ==
    ASSUME NEW to \in Locations, Nameable(to), NEW base \in Seq(Components)
    PROVE  LET s == RemoveSourceFileExtension(LexicallyRelative(TargetOf(to), base))
               t == ResolvePath(base, s)
           IN IsPlain(s) /\ Names(to, t) /\ t # NoUri
<1> DEFINE p == TargetOf(to)
           s == RemoveSourceFileExtension(LexicallyRelative(p, base))
           t == ResolvePath(base, s)
<1>1. Named(p)
  BY TargetNamed
<1>. HIDE DEF p
<1>2. IsPlain(s) /\ (t = p \/ (IsSourceFile(p) /\ t = WithExtension(p, NoExtension)))
  BY <1>1, SuggestedLeads
<1>. HIDE DEF s, t
<1>3. Names(to, t)
  <2>1. CASE IsInitFile(to)
    <3>1. p = Parent(to) /\ ~IsSourceFile(Parent(to))
      BY <2>1 DEF p, TargetOf, Nameable
    <3>. QED BY <1>2, <3>1 DEF Names, p
  <2>2. CASE ~IsInitFile(to)
    <3>1. p = to
      BY <2>2 DEF p, TargetOf
    <3>. QED BY <1>2, <2>2, <3>1 DEF Names, p
  <2>. QED BY <2>1, <2>2
<1>4. t # NoUri
  <2>1. Len(t) = Len(p) /\ \A i \in 1..Len(p) : t[i][1] = p[i][1]
    <3>1. CASE t = p
      BY <3>1
    <3>2. CASE t = WithExtension(p, NoExtension)
      <4>1. p \in Seq(Components) /\ DOMAIN p = 1..Len(p)
        BY <1>1 DEF Named
      <4>2. /\ Len(t) = Len(p)
            /\ \A i \in DOMAIN p : i # Len(p) => t[i] = p[i]
            /\ Len(p) \in DOMAIN p => t[Len(p)] = <<p[Len(p)][1], NoExtension>>
        BY <3>2, WithExtensionIs
      <4>. QED BY <4>1, <4>2
    <3>. QED BY <1>2, <3>1, <3>2
  <2>2. ASSUME Len(t) = 1 PROVE Ordinary(t[1])
    <3>1. Ordinary(p[1]) /\ t[1][1] = p[1][1]
      <4>1. 1 \in 1..Len(p)
        BY <2>1, <2>2
      <4>. QED BY <1>1, <2>1, <4>1 DEF Named
    <3>2. \A x, y : x[1] = y[1] /\ Ordinary(x) => Ordinary(y)
      BY Zenon DEF Ordinary
    <3>. QED BY <3>1, <3>2
  <2>. QED BY <2>2, NotNoUri
<1>. QED BY <1>2, <1>3, <1>4 DEF s, t, p

\* A string offered from the directory of a file leads to the module.
LEMMA RelativeNames ==
    ASSUME NEW from \in Locations, RequireBase(from, FALSE) # NoUri, NEW aliases, AliasesNamed(aliases),
           ~(IsInitFile(from) /\ "self" \in DOMAIN aliases), NEW to \in Locations, Nameable(to)
    PROVE  LET s == RemoveSourceFileExtension(LexicallyRelative(TargetOf(to), Parent(from)))
           IN Names(to, Reached(RequireBase(from, FALSE), aliases, Parent(from), FromInit(from, s)))
<1> DEFINE above == Parent(from)
           s == RemoveSourceFileExtension(LexicallyRelative(TargetOf(to), above))
<1>1. above \in Seq(Components)
  BY BaseIs
<1>2. IsPlain(s) /\ Names(to, ResolvePath(above, s)) /\ ResolvePath(above, s) # NoUri
  <2>. HIDE DEF above
  <2>. QED BY <1>1, SuggestedNames
<1>. HIDE DEF s
<1>3. Reached(RequireBase(from, FALSE), aliases, above, FromInit(from, s)) = ResolvePath(above, s)
  BY <1>2, FromInitResolves
<1>. QED BY <1>2, <1>3 DEF s

\* An alias that names another one and does not go up from it is no place of files.
LEMMA ChainedStays ==
    ASSUME NEW base \in Seq(Components), NEW value \in Seq(Components), IsAliased(value),
           \A i \in 2..Len(value) : value[i] \notin {Up, Slash}
    PROVE  \E j \in 1..Len(ResolvePath(base, value)) : ResolvePath(base, value)[j][1] = "@"
<1> DEFINE l == Len(base) + 1
           count == Len(value)
           Inside(p) == p \in Seq(Components) /\ l <= Len(p) /\ p[l] = value[1]
<1>1. /\ count \in Nat /\ count # 0 /\ l \in Nat /\ l # 0 /\ value[1][1] = "@"
      /\ \A i \in 1..count : value[i] \in Components
  <2>1. value # <<>> /\ value[1][1] = "@"
    BY DEF IsAliased
  <2>. QED BY <2>1
<1>2. PICK at : WalksAlong(at, base, value)
  BY <1>1, ResolvePathUnfolds
<1>3. ResolvePath(base, value) = at[count] /\ \A n \in 0..count : at[n] = IF n = 0 THEN base ELSE Walked(at[n - 1], value[n])
  BY <1>2 DEF WalksAlong
<1>4. Inside(at[1])
  <2>1. Ordinary(value[1])
    <3>1. "@" # "" /\ "@" # "." /\ "@" # ".." /\ "@" # "/"
      BY Zenon
    <3>. QED BY <1>1, <3>1, Zenon DEF Ordinary
  <2>2. 1 \in 0..count /\ 0 \in 0..count /\ 1 - 1 = 0 /\ 1 # 0
    BY <1>1
  <2>3. at[1] = Walked(base, value[1])
    <3>. HIDE DEF count
    <3>. QED BY <1>3, <2>2
  <2>4. at[1] = Append(base, value[1])
    BY <2>1, <2>3, WalkedIs
  <2>5. value[1] \in Components
    BY <1>1
  <2>. QED BY <2>4, <2>5, AppendIs
<1>5. ASSUME NEW p, Inside(p), NEW c \in Components, c \notin {Up, Slash} PROVE Inside(Walked(p, c))
  <2> DEFINE Empty == <<"", "">>
  <2>1. Walked(p, c) = CASE c \in {Here, Empty} -> p
                         [] c = Up -> IF p = <<>> THEN p ELSE Front(p)
                         [] c = Slash -> <<>>
                         [] OTHER -> Append(p, c)
    BY Zenon DEF Walked
  <2>. HIDE DEF Empty
  <2>2. Walked(p, c) \in {p, Append(p, c)}
    BY <1>5, <2>1
  <2>3. Append(p, c) \in Seq(Components) /\ l <= Len(Append(p, c)) /\ Append(p, c)[l] = p[l]
    <3>1. p \in Seq(Components) /\ l \in 1..Len(p)
      <4>. HIDE DEF l
      <4>. QED BY <1>1, <1>5
    <3>. HIDE DEF l
    <3>2. Append(p, c) \in Seq(Components) /\ Len(Append(p, c)) = Len(p) + 1 /\ \A i \in 1..Len(p) : Append(p, c)[i] = p[i]
      BY <3>1, AppendIs
    <3>. QED BY <1>1, <3>1, <3>2
  <2>. HIDE DEF l
  <2>. QED BY <1>5, <2>2, <2>3
<1>. HIDE DEF Inside, l
<1> DEFINE Bad == {n \in 0..count : n # 0 /\ ~Inside(at[n])}
<1>6. ASSUME NEW n \in 1..count, n - 1 \notin Bad PROVE n \notin Bad
  <2>1. CASE n = 1
    BY <1>4, <2>1
  <2>2. CASE n # 1
    <3>1. n \in 0..count /\ n # 0 /\ n - 1 \in 0..count /\ n - 1 # 0 /\ n \in 2..count
      <4>. HIDE DEF count
      <4>. QED BY <1>1, <2>2
    <3>2. Inside(at[n - 1]) /\ at[n] = Walked(at[n - 1], value[n])
      <4>. HIDE DEF count
      <4>. QED BY <1>3, <1>6, <3>1
    <3>3. value[n] \in Components /\ value[n] \notin {Up, Slash}
      BY <1>1, <3>1
    <3>4. Inside(at[n])
      BY <1>5, <3>2, <3>3
    <3>. QED BY <3>4
  <2>. QED BY <2>1, <2>2
<1>7. Bad = {}
  <2>1. Bad \in SUBSET (0..count) /\ 0 \notin Bad
    OBVIOUS
  <2>2. \A n \in 1..count : n \in Bad => n - 1 \in Bad
    <3>. HIDE DEF Bad, count
    <3>. QED BY <1>6
  <2>. HIDE DEF Bad, count
  <2>. QED BY <1>1, <2>1, <2>2, UpTo
<1>8. Inside(at[count])
  <2>1. count \in 0..count
    BY <1>1
  <2>. HIDE DEF count
  <2>. QED BY <1>1, <1>7, <2>1
<1>. HIDE DEF count
<1>9. l \in 1..Len(at[count]) /\ at[count][l][1] = "@"
  <2>1. Inside(at[count]) /\ Len(at[count]) \in Nat
    BY <1>8 DEF Inside
  <2>. QED BY <1>1, <2>1 DEF Inside
<1>. QED BY <1>3, <1>9

LEMMA AncestorNamed ==
    ASSUME NEW t, Named(t), NEW p \in Seq(Components), IsAncestorOf(p, t)
    PROVE  Named(p) /\ p # NoUri
<1>1. t \in Seq(Components) /\ Len(t) \in Nat /\ \A i \in 1..Len(t) : Ordinary(t[i]) /\ t[i][1] # "@"
  BY DEF Named
<1>2. Len(p) <= Len(t) /\ \A i \in 1..Len(p) : p[i] = t[i]
  <2>1. CASE p = t
    BY <1>1, <2>1
  <2>2. CASE IsPrefix(p, t)
    <3>1. Len(p) <= Len(t) /\ SubSeq(p, 1, Len(p)) = SubSeq(t, 1, Len(p)) /\ Len(p) \in Nat
      BY <2>2 DEF IsPrefix
    <3>2. \A i \in 1..Len(p) : SubSeq(p, 1, Len(p))[i] = p[i]
      BY <3>1, PrefixIs
    <3>3. \A i \in 1..Len(p) : SubSeq(t, 1, Len(p))[i] = t[i]
      BY <1>1, <3>1, PrefixIs
    <3>. QED BY <3>1, <3>2, <3>3
  <2>. QED BY <2>1, <2>2 DEF IsAncestorOf
<1>3. Named(p)
  <2>1. \A i \in 1..Len(p) : i \in 1..Len(t)
    BY <1>1, <1>2
  <2>. QED BY <1>1, <1>2, <2>1 DEF Named
<1>4. p # NoUri
  <2>1. ASSUME Len(p) = 1 PROVE Ordinary(p[1])
    <3>1. 1 \in 1..Len(p)
      BY <2>1
    <3>. QED BY <1>3, <3>1 DEF Named
  <2>. QED BY <2>1, NotNoUri
<1>. QED BY <1>3, <1>4

\* A string behind an alias leads on from where the alias leads.
BehindAlias(aliases, above, n, rest) ==
    ResolveAlias(<< <<"@", aliases[n].originalCase>> >> \o rest, aliases, above)
        = ResolvePath(AliasLocation(aliases[n]), rest)

LEMMA AliasLeadsBehind ==
    ASSUME NEW aliases, AliasesNamed(aliases), NEW above \in Seq(Components), NEW n \in DOMAIN aliases,
           ~IsAliased(aliases[n].value), AliasLocation(aliases[n]) # NoUri,
           NEW rest, rest = <<>> \/ IsPlain(rest)
    PROVE  BehindAlias(aliases, above, n, rest)
<1> DEFINE t == <<"@", aliases[n].originalCase>>
           p == AliasLocation(aliases[n])
           one == <<t>>
           s == one \o rest
<1>1. t[1] = "@" /\ Lower(t[2]) = n /\ n \in STRING
  BY DEF AliasesNamed
<1>2. PICK start : AliasStarts(start, aliases, above, n)
  <2>1. above \in Seq(Steps)
    BY PathIsOfSteps
  <2>. QED BY <1>1, <2>1, AliasStart
<1>3. start = p
  BY <1>2 DEF AliasStarts
<1>4. p # NoUri
  OBVIOUS
<1>. HIDE DEF t, p
<1>5. s[1] = t /\ s # <<>> /\ Tail(s) = rest /\ (rest # <<>> => rest[1] # Slash)
  <2>1. CASE IsPlain(rest)
    BY <2>1, StepBefore, PlainIs
  <2>2. CASE rest = <<>>
    <3>1. s = one
      BY <2>2
    <3>2. one[1] = t /\ one # <<>> /\ Tail(one) = <<>>
      OBVIOUS
    <3>. HIDE DEF s, one
    <3>. QED BY <2>2, <3>1, <3>2
  <2>. QED BY <2>1, <2>2
<1>6. s = <<t>> \o rest
  OBVIOUS
<1>. HIDE DEF s, one
<1>7. ResolveAlias(s, aliases, above) = ResolveAliasFrom(s, aliases, above)
  <2>1. s[1][1] = "@" /\ s # <<>>
    BY <1>1, <1>5
  <2>2. IsAliased(s)
    BY <2>1 DEF IsAliased
  <2>. QED BY <2>2 DEF ResolveAlias
<1>8. ResolveAliasFrom(s, aliases, above) = Behind(p, s)
  <2>1. Lower(s[1][2]) = n
    BY <1>1, <1>5
  <2>. QED BY <1>2, <1>3, <2>1 DEF AliasStarts
<1>9. Behind(p, s) = ResolvePath(p, rest)
  BY <1>4, <1>5 DEF Behind
<1>10. ResolveAlias(<<t>> \o rest, aliases, above) = ResolvePath(p, rest)
  BY <1>6, <1>7, <1>8, <1>9
<1>. QED BY <1>10 DEF BehindAlias, t, p

\* The string behind an alias that leads to the module.
LEMMA AliasedNames ==
    ASSUME NEW base, NEW aliases, AliasesNamed(aliases), NEW above \in Seq(Components),
           NEW to \in Locations, Nameable(to), NEW n \in DOMAIN aliases,
           IsAliased(aliases[n].value) =>
              \A i \in 2..Len(aliases[n].value) : aliases[n].value[i] \notin {Up, Slash},
           IsAncestorOf(AliasLocation(aliases[n]), TargetOf(to)),
           NEW rest, rest = LexicallyRelative(TargetOf(to), AliasLocation(aliases[n])),
           NEW behind, behind = IF rest = <<Here>> THEN <<>> ELSE rest
    PROVE  Names(to, Reached(base, aliases, above,
                             << <<"@", aliases[n].originalCase>> >> \o RemoveSourceFileExtension(behind)))
<1> DEFINE value == aliases[n].value
           p == AliasLocation(aliases[n])
           kept == RemoveSourceFileExtension(behind)
           s == << <<"@", aliases[n].originalCase>> >> \o kept
<1>1. value \in Seq(Components) /\ aliases[n].location \in Seq(Components) /\ p = ResolvePath(aliases[n].location, value)
  BY DirectoryIsPath DEF AliasesNamed, AliasLocation
<1>2. p \in Seq(Components)
  BY <1>1, ResolvePathIsPath
<1>3. Named(p) /\ p # NoUri
  <2>1. IsAncestorOf(p, TargetOf(to)) /\ Named(TargetOf(to))
    BY TargetNamed
  <2>. HIDE DEF p
  <2>. QED BY <1>2, <2>1, AncestorNamed
<1>4. ~IsAliased(value)
  <2>1. SUFFICES ASSUME IsAliased(value) PROVE FALSE
    OBVIOUS
  <2>2. \A i \in 2..Len(value) : value[i] \notin {Up, Slash}
    BY <2>1
  <2>. HIDE DEF value, p
  <2>3. \E j \in 1..Len(p) : p[j][1] = "@"
    BY <1>1, <2>1, <2>2, ChainedStays
  <2>. QED BY <1>3, <2>3 DEF Named
<1>. HIDE DEF value, p
<1>5. IsPlain(RemoveSourceFileExtension(rest)) /\ Names(to, ResolvePath(p, RemoveSourceFileExtension(rest)))
      /\ ResolvePath(p, RemoveSourceFileExtension(rest)) # NoUri
  BY <1>2, SuggestedNames DEF p
<1>6. (kept = <<>> \/ IsPlain(kept)) /\ Names(to, ResolvePath(p, kept)) /\ ResolvePath(p, kept) # NoUri
  <2>1. CASE rest = <<Here>>
    <3> DEFINE one == <<Here>>
               none == <<>>
    <3>1. one # <<>> /\ one[1] = Here /\ Len(one) = 1 /\ Len(none) = 0
      OBVIOUS
    <3>2. ~IsSourceFile(one) /\ ~IsSourceFile(none)
      <4>1. Extension(none) = NoExtension
        BY Zenon DEF Extension, NoExtension
      <4>2. Extension(one) = Here[2]
        <5>. HIDE DEF one
        <5>. QED BY <3>1, ExtensionsAre
      <4>3. Here[2] = NoExtension
        BY Zenon DEF Here, NoExtension
      <4>. HIDE DEF one, none
      <4>. QED BY <4>1, <4>2, <4>3, ExtensionsAre DEF IsSourceFile
    <3>3. behind = none /\ rest = one
      BY <2>1
    <3>4. ResolvePath(p, one) = p
      <4>1. ResolvePath(p, One(Here)) = p
        BY OneStep, WalkedIs
      <4>. QED BY <4>1 DEF One
    <3>5. ResolvePath(p, none) = p
      <4>. HIDE DEF one
      <4>. QED BY <3>1, NoStep
    <3>. HIDE DEF one, none
    <3>6. RemoveSourceFileExtension(one) = one /\ RemoveSourceFileExtension(none) = none
      BY <3>2, Zenon DEF RemoveSourceFileExtension
    <3>7. kept = none
      BY <3>3, <3>6
    <3>. HIDE DEF kept
    <3>8. Names(to, ResolvePath(p, kept)) /\ ResolvePath(p, kept) # NoUri
      BY <1>5, <3>3, <3>4, <3>5, <3>6, <3>7
    <3>. QED BY <3>7, <3>8 DEF none
  <2>2. CASE rest # <<Here>>
    BY <1>5, <2>2
  <2>. QED BY <2>1, <2>2
<1>. HIDE DEF kept
<1>7. ResolveAlias(s, aliases, above) = ResolvePath(p, kept)
  <2>1. BehindAlias(aliases, above, n, kept)
    BY <1>3, <1>4, <1>6, AliasLeadsBehind DEF value, p
  <2>. QED BY <2>1 DEF BehindAlias, p
<1>. HIDE DEF s
<1>8. Reached(base, aliases, above, s) = ResolvePath(p, kept)
  BY <1>6, <1>7 DEF Reached, Or
<1>. QED BY <1>6, <1>8 DEF s, kept

\* What is offered is the string behind an alias above the module, or the one
\* that leads to it from the file.
BehindOf(aliases, n, t) ==
    LET rest == LexicallyRelative(t, AliasLocation(aliases[n]))
    IN IF rest = <<Here>> THEN <<>> ELSE rest

OfferedBehind(aliases, n, t) ==
    << <<"@", aliases[n].originalCase>> >> \o RemoveSourceFileExtension(BehindOf(aliases, n, t))

LEMMA BestAliasedPathIs ==
    ASSUME NEW t, NEW aliases, NEW s \in BestAliasedPaths(t, aliases)
    PROVE  \E n \in DOMAIN aliases : IsAncestorOf(AliasLocation(aliases[n]), t) /\ s = OfferedBehind(aliases, n, t)
BY DEF BestAliasedPaths, OfferedBehind, BehindOf

LEMMA OfferedIs ==
    ASSUME NEW from, NEW to, NEW aliases, NEW style, NEW s \in ComputeRequirePaths(from, to, aliases, style)
    PROVE  \/ s \in BestAliasedPaths(TargetOf(to), aliases)
           \/ s = FromInit(from, RemoveSourceFileExtension(LexicallyRelative(TargetOf(to), Parent(from))))
<1> DEFINE t == TargetOf(to)
           aliased == IF style = "AlwaysRelative" THEN {} ELSE BestAliasedPaths(t, aliases)
           relative == FromInit(from, RemoveSourceFileExtension(LexicallyRelative(t, Parent(from))))
<1>1. ComputeRequirePaths(from, to, aliases, style) \in {aliased, {relative}}
  BY Zenon DEF ComputeRequirePaths, TargetOf
<1>. HIDE DEF relative
<1>2. s \in aliased \/ s = relative
  BY <1>1
<1>3. aliased \subseteq BestAliasedPaths(t, aliases)
  OBVIOUS
<1>. QED BY <1>2, <1>3 DEF relative

\* The string offered resolves to the module.
LEMMA OfferedResolves ==
    ASSUME NEW files, files \subseteq Locations, \A f \in files : ~IsDirectory(files, f),
           NEW from \in files, NEW aliases, AliasesNamed(aliases), LeadsByAliases(from, aliases),
           NEW to \in files, Nameable(to), Unambiguous(files, to), NEW style,
           NEW s \in ComputeRequirePaths(from, to, aliases, style)
    PROVE  ResolveStringRequire(files, aliases, FALSE, from, s) = to
<1> DEFINE base == RequireBase(from, FALSE)
           above == Parent(from)
           t == Reached(base, aliases, above, s)
<1>1. base # NoUri /\ ~(IsInitFile(from) /\ "self" \in DOMAIN aliases)
  BY DEF LeadsByAliases
<1>2. ResolveStringRequire(files, aliases, FALSE, from, s) = Found(files, t)
  BY <1>1 DEF ResolveStringRequire, Reached, Found
<1>3. Names(to, t)
  <2>1. CASE s \in BestAliasedPaths(TargetOf(to), aliases)
    <3>1. PICK n \in DOMAIN aliases : /\ IsAncestorOf(AliasLocation(aliases[n]), TargetOf(to))
                                      /\ s = OfferedBehind(aliases, n, TargetOf(to))
      BY <2>1, BestAliasedPathIs
    <3>2. IsAliased(aliases[n].value) => \A i \in 2..Len(aliases[n].value) : aliases[n].value[i] \notin {Up, Slash}
      BY DEF LeadsByAliases
    <3>3. above \in Seq(Components)
      BY BaseIs
    <3> DEFINE rest == LexicallyRelative(TargetOf(to), AliasLocation(aliases[n]))
               behind == BehindOf(aliases, n, TargetOf(to))
    <3>4. behind = IF rest = <<Here>> THEN <<>> ELSE rest
      BY DEF BehindOf
    <3>5. s = << <<"@", aliases[n].originalCase>> >> \o RemoveSourceFileExtension(behind)
      BY <3>1 DEF OfferedBehind
    <3>. HIDE DEF behind, rest, base, above
    <3>6. Names(to, Reached(base, aliases, above,
                             << <<"@", aliases[n].originalCase>> >> \o RemoveSourceFileExtension(behind)))
      BY <3>1, <3>2, <3>3, <3>4, AliasedNames DEF rest
    <3>. QED BY <3>5, <3>6
  <2>2. CASE s = FromInit(from, RemoveSourceFileExtension(LexicallyRelative(TargetOf(to), Parent(from))))
    <3>1. from \in Locations /\ to \in Locations
      OBVIOUS
    <3>. QED BY <1>1, <2>2, <3>1, RelativeNames
  <2>. QED BY <2>1, <2>2, OfferedIs
<1>. HIDE DEF t
<1>4. IsSourceFile(to)
  BY DEF Nameable
<1>5. Found(files, t) = to
  BY <1>3, <1>4, TargetFound DEF Names
<1>. QED BY <1>2, <1>5

LEMMA OfferedAlwaysResolve == ConfigInv /\ LeavesInv => OfferedRequiresResolve
<1>1. SUFFICES ASSUME ConfigInv, LeavesInv PROVE OfferedRequiresResolve
  OBVIOUS
<1>2. SUFFICES ASSUME NEW from \in DOMAIN sourceNodes \cap Files
      PROVE  LET aliases == GetConfig(LoadConfig(State, from), from).aliases
             IN LeadsByAliases(from, aliases) =>
                  \A to \in {x \in DOMAIN sourceNodes \cap Files : Nameable(x) /\ Unambiguous(Files, x)} \ {from} :
                     \A style \in Styles : \A s \in ComputeRequirePaths(from, to, aliases, style) :
                        ResolveStringRequire(Files, aliases, FALSE, from, s) = to
  BY Zenon DEF OfferedRequiresResolve
<1> DEFINE aliases == GetConfig(LoadConfig(State, from), from).aliases
<1>3. AliasesNamed(aliases)
  <2>1. from \in Locations /\ CachesGood(State) /\ SettingsTyped
    BY <1>1 DEF ConfigInv, FilesInv, SettingsInv, CachesInv, SettingsTyped
  <2>. QED BY <2>1, LoadedAliasesNamed
<1>. HIDE DEF aliases
<1>4. ASSUME LeadsByAliases(from, aliases), NEW to \in DOMAIN sourceNodes \cap Files, Nameable(to),
             Unambiguous(Files, to), NEW style \in Styles, NEW s \in ComputeRequirePaths(from, to, aliases, style)
      PROVE  ResolveStringRequire(Files, aliases, FALSE, from, s) = to
  <2>1. Files \subseteq Locations /\ from \in Files /\ to \in Files /\ \A f \in Files : ~IsDirectory(Files, f)
    BY <1>1 DEF ConfigInv, FilesInv, LeavesInv
  <2>. QED BY <1>3, <1>4, <2>1, OfferedResolves
<1>. QED BY <1>4, Zenon DEF aliases

\* Whatever happens to files and configurations, the string that the server offers
\* to require a module is one that it resolves to that module, from every file and
\* in every style, and what it lists to complete a string is what the completed
\* string leads to: computing a require and resolving it are inverse, over paths
\* and aliases of any length (StringRequireAutoImporter and FileRequireNode,
\* against resolveStringRequire).
THEOREM SuggestedRequiresAlwaysResolve ==
    ASSUME ConfigurationsStay
    PROVE  Spec => []SuggestedRequiresResolve
<1>1. ConfigInv /\ LeavesInv /\ [Next]_vars => (ConfigInv /\ LeavesInv)'
  BY ConfigInvNext, LeavesInvNext
<1>2. ConfigInv /\ LeavesInv => SuggestedRequiresResolve
  BY OfferedAlwaysResolve, CompletionsAlwaysResolve DEF SuggestedRequiresResolve
<1>. QED BY <1>1, <1>2, ConfigInvInit, LeavesInvInit, PTL DEF Spec
================================================================================
