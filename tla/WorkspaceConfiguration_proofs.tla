--------------------- MODULE WorkspaceConfiguration_proofs ---------------------
(***************************************************************************)
(* Every handler of WorkspaceConfiguration preserves ConfigTypeOK.  These  *)
(* lemmas are cited by the proofs about the two modules that run the       *)
(* handlers, ConfigurationProtocol and LanguageServer.                     *)
(***************************************************************************)
EXTENDS WorkspaceConfiguration, WellFoundedInduction, TLAPS

\* What maps the positions of a sequence into S is a sequence over S.
LEMMA FunctionIsSequence ==
    ASSUME NEW S, NEW n \in Nat, NEW f \in [1..n -> S]
    PROVE  f \in Seq(S)
OBVIOUS

LEMMA SequenceIsFunction ==
    ASSUME NEW S, NEW s \in Seq(S)
    PROVE  /\ Len(s) \in Nat
           /\ DOMAIN s = 1..Len(s)
           /\ \A i \in DOMAIN s : s[i] \in S
OBVIOUS

\* The maps of the server are empty to begin with.
LEMMA EmptyMapType ==
    ASSUME NEW S
    PROVE  <<>> \in Seq(S) /\ <<>> \in [DOMAIN <<>> -> S]
<1>1. <<>> \in Seq(S)
  OBVIOUS
<1>2. <<>> \in [DOMAIN <<>> -> S]
  BY <1>1, SequenceIsFunction
<1>. QED BY <1>1, <1>2

\* A non-empty set of positions of a sequence has a largest element, and it is
\* the one Max returns: the last configuration sent for a uri is well defined.
LEMMA LargestPosition ==
    ASSUME NEW n \in Nat, NEW S \in SUBSET (1..n), S # {}
    PROVE  Max(S) \in S /\ \A i \in S : Max(S) >= i
<1>7. \A k \in S : k \in Nat
  OBVIOUS
<1> DEFINE T == {n - i : i \in S}
<1>1. T \subseteq Nat /\ T # {}
  OBVIOUS
<1>2. PICK x \in T : \A y \in T : ~ <<y, x>> \in OpToRel(<, Nat)
  BY <1>1, WFMin, NatLessThanWellFounded, Zenon
<1>3. \A y \in T : x <= y
  <2>1. SUFFICES ASSUME NEW y \in T, y < x PROVE FALSE
    BY <1>1
  <2>2. <<y, x>> \in OpToRel(<, Nat)
    BY <1>1, <2>1 DEF OpToRel
  <2>. QED BY <1>2, <2>2
<1>4. PICK i \in S : x = n - i
  OBVIOUS
<1>5. \A j \in S : i >= j
  <2>1. TAKE j \in S
  <2>2. n - i <= n - j
    BY <1>3, <1>4
  <2>3. i \in Nat /\ j \in Nat
    BY <1>7, Zenon
  <2>. QED BY <2>2, <2>3
<1>6. \E k \in S : \A j \in S : k >= j
  BY <1>5
<1>. QED BY <1>6 DEF Max

\* A message carries what the type of its fields says.
LEMMA NewFoldersType ==
    ASSUME NEW uris \in Seq(FolderUris)
    PROVE  [i \in DOMAIN uris |-> WorkspaceFolder(uris[i])] \in Seq(Workspace)
<1>1. \A uri \in FolderUris : WorkspaceFolder(uri) \in Workspace
  BY DEF WorkspaceFolder, Workspace, Scopes
<1>. HIDE DEF Workspace
<1>2. [i \in DOMAIN uris |-> WorkspaceFolder(uris[i])]
        \in [1..Len(uris) -> Workspace]
  BY <1>1, SequenceIsFunction
<1>. QED BY <1>2, FunctionIsSequence, SequenceIsFunction

LEMMA InitializeType ==
    ASSUME ConfigTypeOK, NEW uris \in Seq(FolderUris), NEW capability \in BOOLEAN,
           OnInitialize(uris, capability)
    PROVE  ConfigTypeOK'
<1>1. [i \in DOMAIN uris |-> WorkspaceFolder(uris[i])] \in Seq(Workspace)
  BY NewFoldersType
<1>2. workspaceFolders' \in Seq(Workspace)
  BY <1>1 DEF OnInitialize, ConfigTypeOK
<1>. QED BY <1>2 DEF OnInitialize, ConfigTypeOK

LEMMA FolderRootsType ==
    ASSUME ConfigTypeOK
    PROVE  FolderRoots \in Seq(Scopes)
<1>1. \A w \in Workspace : w.uri \in Scopes
  BY DEF Workspace
<1>2. workspaceFolders \in Seq(Workspace)
  BY DEF ConfigTypeOK
<1>3. FolderRoots \in [1..Len(workspaceFolders) -> Scopes]
  BY <1>1, <1>2, SequenceIsFunction DEF FolderRoots
<1>. QED BY <1>2, <1>3, FunctionIsSequence, SequenceIsFunction

\* Sending a configuration request keeps the handler map and the ids typed.
LEMMA RequestConfigurationType ==
    ASSUME ConfigTypeOK, NEW uris \in Seq(Scopes), RequestConfiguration(uris)
    PROVE  /\ responseHandler' \in [DOMAIN responseHandler' -> Seq(Scopes)]
           /\ DOMAIN responseHandler' \subseteq Nat
           /\ nextRequestId' \in Nat
           /\ asked' \subseteq Nat
BY DEF ConfigTypeOK, RequestConfiguration, Put

LEMMA InitializedType ==
    ASSUME ConfigTypeOK, OnInitialized
    PROVE  ConfigTypeOK'
<1>1. nullWorkspace' \in Workspace
  BY DEF ConfigTypeOK, OnInitialized, Workspace
<1>2. CASE configurationCapability
  <2>1. <<NullUri>> \o FolderRoots \in Seq(Scopes)
    BY FolderRootsType DEF Scopes
  <2>2. RequestConfiguration(<<NullUri>> \o FolderRoots)
    BY <1>2 DEF OnInitialized
  <2>3. UNCHANGED workspaceFolders
    BY <1>2 DEF OnInitialized
  <2>. HIDE DEF RequestConfiguration, FolderRoots
  <2>. QED BY <1>1, <2>1, <2>2, <2>3, RequestConfigurationType
           DEF ConfigTypeOK, OnInitialized
<1>3. CASE ~configurationCapability
  <2>1. workspaceFolders' =
          [i \in DOMAIN workspaceFolders |->
             [workspaceFolders[i] EXCEPT !.hasConfiguration = TRUE]]
    BY <1>3 DEF OnInitialized
  <2>2. \A w \in Workspace : [w EXCEPT !.hasConfiguration = TRUE] \in Workspace
    BY DEF Workspace
  <2>3. workspaceFolders \in Seq(Workspace)
    BY DEF ConfigTypeOK
  <2>4. workspaceFolders' \in [1..Len(workspaceFolders) -> Workspace]
    BY <2>1, <2>2, <2>3, SequenceIsFunction
  <2>5. workspaceFolders' \in Seq(Workspace)
    BY <2>3, <2>4, FunctionIsSequence, SequenceIsFunction
  <2>. QED BY <1>1, <1>3, <2>5 DEF ConfigTypeOK, OnInitialized
<1>. QED BY <1>2, <1>3

LEMMA DidChangeConfigurationType ==
    ASSUME ConfigTypeOK, NEW sent \in Configs, OnDidChangeConfiguration(sent)
    PROVE  ConfigTypeOK'
<1>1. CASE configurationCapability
  <2>1. <<NullUri>> \o FolderRoots \in Seq(Scopes)
    BY FolderRootsType DEF Scopes
  <2>2. RequestConfiguration(<<NullUri>> \o FolderRoots)
    BY <1>1 DEF OnDidChangeConfiguration
  <2>. QED BY <1>1, <2>1, <2>2, RequestConfigurationType
           DEF ConfigTypeOK, OnDidChangeConfiguration
<1>2. CASE ~configurationCapability
  BY <1>2 DEF ConfigTypeOK, OnDidChangeConfiguration
<1>. QED BY <1>1, <1>2

\* kept is a recursive function: that it exists at all takes an argument by the
\* least prefix of the folders for which it does not.
LEMMA KeptFoldersUnfolds ==
    ASSUME ConfigTypeOK, NEW removed
    PROVE  \E kept :
             /\ KeptFolders(removed) = kept[Len(workspaceFolders)]
             /\ \A i \in 0..Len(workspaceFolders) :
                  kept[i] = IF i = 0 THEN <<>>
                            ELSE IF NameOf[workspaceFolders[i].uri] \in removed
                                 THEN kept[i - 1]
                            ELSE Append(kept[i - 1], workspaceFolders[i])
<1> DEFINE n == Len(workspaceFolders)
           Step(f, i) == IF i = 0 THEN <<>>
                         ELSE IF NameOf[workspaceFolders[i].uri] \in removed
                              THEN f[i - 1]
                         ELSE Append(f[i - 1], workspaceFolders[i])
           Solves(f, m) == \A i \in 0..m : f[i] = Step(f, i)
           Solvable(m) == \E f \in [0..m -> Seq(Workspace)] : Solves(f, m)
           Bad == {m \in 0..n : ~Solvable(m)}
<1>1. /\ workspaceFolders \in Seq(Workspace) /\ n \in Nat
      /\ \A i \in 1..n : workspaceFolders[i] \in Workspace
  BY SequenceIsFunction DEF ConfigTypeOK
<1>2. ASSUME NEW m \in Nat, m \in 0..n, m = 0 \/ Solvable(m - 1)
      PROVE  Solvable(m)
  <2>1. CASE m = 0
    <3>1. [i \in 0..m |-> <<>>] \in [0..m -> Seq(Workspace)]
      OBVIOUS
    <3>2. Solves([i \in 0..m |-> <<>>], m)
      BY <2>1
    <3>. QED BY <3>1, <3>2
  <2>2. CASE m # 0
    <3>1. PICK f \in [0..(m - 1) -> Seq(Workspace)] : Solves(f, m - 1)
      BY <1>2, <2>2
    <3>2. m \in 1..n /\ m - 1 \in 0..(m - 1)
      <4>. HIDE DEF n
      <4>. QED BY <1>1, <1>2, <2>2
    <3>3. Step(f, m) \in Seq(Workspace)
      <4>1. f[m - 1] \in Seq(Workspace) /\ workspaceFolders[m] \in Workspace
        BY <1>1, <3>1, <3>2
      <4>2. Append(f[m - 1], workspaceFolders[m]) \in Seq(Workspace)
        BY <4>1
      <4>. QED BY <4>1, <4>2, <2>2
    <3> DEFINE g == [i \in 0..m |-> IF i = m THEN Step(f, m) ELSE f[i]]
    <3>4. g \in [0..m -> Seq(Workspace)]
      <4>1. \A i \in 0..m : i # m => i \in 0..(m - 1)
        BY <1>1
      <4>. HIDE DEF Step
      <4>. QED BY <3>1, <3>3, <4>1
    <3>5. ASSUME NEW i \in 0..m PROVE g[i] = Step(g, i)
      <4>1. CASE i = m
        <5>1. g[m] = Step(f, m) /\ g[m - 1] = f[m - 1]
          <6>. HIDE DEF Step
          <6>. QED BY <3>2, <1>2
        <5>. HIDE DEF g
        <5>. QED BY <5>1, <4>1, <2>2
      <4>2. CASE i # m
        <5>3. i \in 0..(m - 1)
          BY <4>2, <1>2
        <5>1. f[i] = Step(f, i)
          <6>. HIDE DEF Step
          <6>. QED BY <5>3, <3>1
        <5>2. g[i] = f[i] /\ (i # 0 => g[i - 1] = f[i - 1])
          <6>1. i # 0 => i - 1 \in 0..m /\ i - 1 # m
            BY <4>2, <1>2
          <6>. HIDE DEF Step
          <6>. QED BY <4>2, <6>1
        <5>. HIDE DEF g
        <5>. QED BY <5>1, <5>2
      <4>. QED BY <4>1, <4>2
    <3>. HIDE DEF g, Step
    <3>. QED BY <3>4, <3>5
  <2>. QED BY <2>1, <2>2
<1>3. Solvable(n)
  <2>. HIDE DEF Solvable
  <2>1. Bad = {}
    <3>1. SUFFICES ASSUME Bad # {} PROVE FALSE
      OBVIOUS
    <3>2. Bad \subseteq Nat
      OBVIOUS
    <3>3. PICK m \in Bad : \A k \in Bad : ~ <<k, m>> \in OpToRel(<, Nat)
      <4>. HIDE DEF Bad
      <4>. QED BY <3>1, <3>2, WFMin, NatLessThanWellFounded, Zenon
    <3>4. m = 0 \/ m - 1 \notin Bad
      <4>1. SUFFICES ASSUME m # 0, m - 1 \in Bad PROVE FALSE
        OBVIOUS
      <4>2. m - 1 < m /\ m - 1 \in Nat /\ m \in Nat
        BY <4>1, <3>2
      <4>3. <<m - 1, m>> \in OpToRel(<, Nat)
        BY <4>2 DEF OpToRel
      <4>. QED BY <3>3, <4>1, <4>3
    <3>5. m = 0 \/ Solvable(m - 1)
      BY <3>4, <1>1
    <3>6. m \in Nat /\ m \in 0..n /\ ~Solvable(m)
      BY <3>2, <3>3
    <3>. HIDE DEF n, Bad
    <3>. QED BY <3>5, <3>6, <1>2
  <2>. QED BY <2>1, <1>1
<1>4. PICK f \in [0..n -> Seq(Workspace)] : Solves(f, n)
  BY <1>3
<1>5. f = [i \in 0..n |-> Step(f, i)]
  <2>. HIDE DEF Step
  <2>. QED BY <1>4
<1> DEFINE kept == CHOOSE g : g = [i \in 0..n |-> Step(g, i)]
<1>6. kept = [i \in 0..n |-> Step(kept, i)]
  <2>. HIDE DEF Step
  <2>. QED BY <1>5
<1>7. KeptFolders(removed) = kept[n]
  BY DEF KeptFolders
<1>8. \A i \in 0..n : kept[i] = Step(kept, i)
  <2>. HIDE DEF Step, kept
  <2>. QED BY <1>6
<1>. HIDE DEF kept
<1>. QED BY <1>7, <1>8

\* q is what is left of the first m elements of s when those at the positions
\* outside R are erased.
LeftOf(q, s, R, m) ==
    /\ \A i \in DOMAIN q : \E j \in 1..m : j \in R /\ q[i] = s[j]
    /\ \A j \in 1..m : j \in R => \E i \in DOMAIN q : q[i] = s[j]
    /\ 1..m \subseteq R => Len(q) = m /\ \A i \in 1..m : q[i] = s[i]

RootsDifferIn(q) == \A i, j \in DOMAIN q : q[i].uri = q[j].uri => i = j

LEMMA LeftOfOneMore ==
    ASSUME NEW S, NEW s \in Seq(S), NEW q \in Seq(S), NEW R,
           NEW m \in Nat, m + 1 \in DOMAIN s, LeftOf(q, s, R, m), m + 1 \in R
    PROVE  /\ Append(q, s[m + 1]) \in Seq(S)
           /\ LeftOf(Append(q, s[m + 1]), s, R, m + 1)
           /\ RootsDifferIn(s) /\ RootsDifferIn(q)
                => RootsDifferIn(Append(q, s[m + 1]))
<1> DEFINE x == s[m + 1]
           a == Append(q, x)
<1>1. /\ x \in S /\ a \in Seq(S) /\ Len(q) \in Nat /\ Len(a) = Len(q) + 1
      /\ DOMAIN a = 1..(Len(q) + 1) /\ DOMAIN q = 1..Len(q)
      /\ a[Len(q) + 1] = x /\ \A i \in DOMAIN q : a[i] = q[i]
  BY SequenceIsFunction
<1>2. /\ 1..(m + 1) = (1..m) \cup {m + 1} /\ m + 1 \notin 1..m
      /\ DOMAIN a = DOMAIN q \cup {Len(q) + 1} /\ Len(q) + 1 \notin DOMAIN q
  <2>. HIDE DEF a, x
  <2>. QED BY <1>1
<1>. HIDE DEF a
<1>3. \A i \in DOMAIN a : \E j \in 1..(m + 1) : j \in R /\ a[i] = s[j]
  <2>1. ASSUME NEW i \in DOMAIN q
        PROVE  \E j \in 1..(m + 1) : j \in R /\ a[i] = s[j]
    <3>1. PICK j \in 1..m : j \in R /\ q[i] = s[j]
      BY <2>1 DEF LeftOf
    <3>. QED BY <1>1, <1>2, <3>1, Zenon
  <2>2. \E j \in 1..(m + 1) : j \in R /\ a[Len(q) + 1] = s[j]
    BY <1>1, <1>2, Zenon
  <2>. QED BY <1>2, <2>1, <2>2, Zenon
<1>4. \A j \in 1..(m + 1) : j \in R => \E i \in DOMAIN a : a[i] = s[j]
  BY <1>1, <1>2 DEF LeftOf
<1>5. ASSUME 1..(m + 1) \subseteq R
      PROVE  Len(a) = m + 1 /\ \A i \in 1..(m + 1) : a[i] = s[i]
  <2>1. Len(q) = m /\ \A i \in 1..m : q[i] = s[i]
    BY <1>2, <1>5 DEF LeftOf
  <2>. QED BY <1>1, <1>2, <2>1
<1>6. ASSUME RootsDifferIn(s), RootsDifferIn(q) PROVE RootsDifferIn(a)
  <2>1. ASSUME NEW i \in DOMAIN q PROVE q[i].uri # x.uri
    <3>1. PICK j \in 1..m : q[i] = s[j]
      BY <2>1 DEF LeftOf
    <3>2. j \in DOMAIN s /\ j # m + 1
      BY <3>1, SequenceIsFunction
    <3>. QED BY <1>6, <3>1, <3>2 DEF RootsDifferIn
  <2>. QED BY <1>1, <1>2, <1>6, <2>1 DEF RootsDifferIn
<1>. QED BY <1>1, <1>3, <1>4, <1>5, <1>6 DEF LeftOf, a

LEMMA LeftOfOneLess ==
    ASSUME NEW S, NEW s \in Seq(S), NEW q \in Seq(S), NEW R,
           NEW m \in Nat, LeftOf(q, s, R, m), m + 1 \notin R
    PROVE  LeftOf(q, s, R, m + 1)
<1>1. 1..(m + 1) = (1..m) \cup {m + 1}
  OBVIOUS
<1>. QED BY <1>1 DEF LeftOf

\* The loop over the folders keeps exactly those whose name is not removed, in
\* their order, and none of them twice.
LEMMA KeptFoldersAreLeft ==
    ASSUME ConfigTypeOK, NEW removed
    PROVE  /\ KeptFolders(removed) \in Seq(Workspace)
           /\ LeftOf(KeptFolders(removed), workspaceFolders,
                     {i \in DOMAIN workspaceFolders :
                        NameOf[workspaceFolders[i].uri] \notin removed},
                     Len(workspaceFolders))
           /\ RootsDifferIn(workspaceFolders)
                => RootsDifferIn(KeptFolders(removed))
<1> DEFINE n == Len(workspaceFolders)
           R == {i \in DOMAIN workspaceFolders :
                   NameOf[workspaceFolders[i].uri] \notin removed}
<1>1. /\ workspaceFolders \in Seq(Workspace) /\ n \in Nat
      /\ DOMAIN workspaceFolders = 1..n
  BY SequenceIsFunction DEF ConfigTypeOK
<1>2. PICK kept :
        /\ KeptFolders(removed) = kept[n]
        /\ \A i \in 0..n :
             kept[i] = IF i = 0 THEN <<>>
                       ELSE IF NameOf[workspaceFolders[i].uri] \in removed
                            THEN kept[i - 1]
                       ELSE Append(kept[i - 1], workspaceFolders[i])
  BY KeptFoldersUnfolds
<1> DEFINE Left(m) ==
             /\ kept[m] \in Seq(Workspace)
             /\ LeftOf(kept[m], workspaceFolders, R, m)
             /\ RootsDifferIn(workspaceFolders) => RootsDifferIn(kept[m])
           Bad == {m \in 0..n : ~Left(m)}
<1>3. Left(0)
  <2>1. kept[0] = <<>> /\ DOMAIN <<>> = {} /\ Len(<<>>) = 0
    BY <1>1, <1>2
  <2>2. 1..0 = {} /\ <<>> \in Seq(Workspace)
    OBVIOUS
  <2>. QED BY <2>1, <2>2 DEF LeftOf, RootsDifferIn
<1>4. ASSUME NEW m \in Nat, m + 1 \in 1..n, Left(m) PROVE Left(m + 1)
  <2>1. m + 1 \in 0..n /\ m + 1 # 0 /\ (m + 1) - 1 = m
        /\ m + 1 \in DOMAIN workspaceFolders
    BY <1>1, <1>4
  <2>2. CASE m + 1 \in R
    <3>1. kept[m + 1] = Append(kept[m], workspaceFolders[m + 1])
      BY <1>2, <2>1, <2>2
    <3>. HIDE DEF R, n
    <3>. QED BY <1>1, <1>4, <2>1, <2>2, <3>1, LeftOfOneMore
  <2>3. CASE m + 1 \notin R
    <3>1. kept[m + 1] = kept[m]
      BY <1>2, <2>1, <2>3
    <3>. HIDE DEF R, n
    <3>. QED BY <1>1, <1>4, <2>1, <2>3, <3>1, LeftOfOneLess
  <2>. QED BY <2>2, <2>3
<1>5. Bad = {}
  <2>1. SUFFICES ASSUME Bad # {} PROVE FALSE
    OBVIOUS
  <2>2. Bad \subseteq Nat
    <3>. HIDE DEF Left
    <3>. QED OBVIOUS
  <2>3. PICK m \in Bad : \A k \in Bad : ~ <<k, m>> \in OpToRel(<, Nat)
    <3>. HIDE DEF Bad
    <3>. QED BY <2>1, <2>2, WFMin, NatLessThanWellFounded, Zenon
  <2>4. m \in 0..n /\ ~Left(m) /\ m \in Nat
    <3>. HIDE DEF Left
    <3>. QED BY <2>2, <2>3
  <2>5. m # 0
    <3>. HIDE DEF Left
    <3>. QED BY <1>3, <2>4
  <2>6. /\ m - 1 \in Nat /\ (m - 1) + 1 = m /\ m - 1 \in 0..n /\ m - 1 < m
        /\ m \in 1..n
    BY <1>1, <2>4, <2>5
  <2>7. <<m - 1, m>> \in OpToRel(<, Nat)
    BY <2>4, <2>6 DEF OpToRel
  <2>8. Left(m - 1)
    <3>1. m - 1 \notin Bad
      <4>. HIDE DEF Bad
      <4>. QED BY <2>3, <2>7
    <3>. HIDE DEF Left
    <3>. QED BY <2>6, <3>1
  <2>9. Left((m - 1) + 1)
    <3>1. (m - 1) + 1 \in 1..n
      BY <2>6
    <3>. HIDE DEF Left, n
    <3>. QED BY <1>4, <2>6, <2>8, <3>1
  <2>. HIDE DEF Left
  <2>. QED BY <2>4, <2>6, <2>9
<1>6. Left(n)
  <2>1. n \in 0..n
    BY <1>1
  <2>. HIDE DEF Left, n
  <2>. QED BY <1>5, <2>1
<1>. QED BY <1>2, <1>6

LEMMA KeptFoldersType ==
    ASSUME ConfigTypeOK, NEW removed
    PROVE  KeptFolders(removed) \in Seq(Workspace)
BY KeptFoldersAreLeft

LEMMA DidChangeWorkspaceFoldersType ==
    ASSUME ConfigTypeOK, NEW removed, NEW added \in Seq(FolderUris),
           OnDidChangeWorkspaceFolders(removed, added)
    PROVE  ConfigTypeOK'
<1>1. KeptFolders(removed) \in Seq(Workspace)
  BY KeptFoldersType
<1>2. [i \in DOMAIN added |-> WorkspaceFolder(added[i])] \in Seq(Workspace)
  BY NewFoldersType
<1>3. workspaceFolders' \in Seq(Workspace)
  BY <1>1, <1>2 DEF OnDidChangeWorkspaceFolders
<1>4. /\ crashed' \in BOOLEAN
      /\ \E S : configStore' = Restrict(configStore, DOMAIN configStore \ S)
  BY DEF OnDidChangeWorkspaceFolders
<1>5. /\ configStore' \in [DOMAIN configStore' -> Configs]
      /\ DOMAIN configStore' \subseteq Scopes
  BY <1>4 DEF ConfigTypeOK, Restrict
<1>6. added \in Seq(Scopes)
  BY DEF Scopes
<1>7. RequestConfiguration(added)
  BY DEF OnDidChangeWorkspaceFolders
<1>. QED BY <1>3, <1>4, <1>5, <1>6, <1>7, RequestConfigurationType
         DEF ConfigTypeOK, OnDidChangeWorkspaceFolders

LEMMA GetConfigurationType ==
    ASSUME ConfigTypeOK, NEW uri
    PROVE  GetConfiguration(uri) \in Configs
BY DEF ConfigTypeOK, GetConfiguration

LEMMA TouchDocumentType ==
    ASSUME ConfigTypeOK, NEW uri, TouchDocument(uri)
    PROVE  ConfigTypeOK'
<1>1. \A w \in Workspace, c \in Configs : LazyInitialize(w, c) \in Workspace
  BY DEF LazyInitialize, Workspace
<1>2. nullWorkspace' \in Workspace
  BY <1>1 DEF TouchDocument, ConfigTypeOK
<1>3. workspaceFolders' \in Seq(Workspace)
  <2> DEFINE index == FindWorkspace(workspaceFolders, uri)
             updated == [workspaceFolders EXCEPT ![index] =
                           LazyInitialize(@, GetConfiguration(@.uri))]
  <2>1. workspaceFolders' \in {workspaceFolders, updated}
    BY DEF TouchDocument
  <2>2. workspaceFolders \in Seq(Workspace)
    BY DEF ConfigTypeOK
  <2>. HIDE DEF index
  <2>3. updated \in [1..Len(workspaceFolders) -> Workspace]
    BY <1>1, <2>2, GetConfigurationType, SequenceIsFunction
  <2>4. updated \in Seq(Workspace)
    BY <2>2, <2>3, FunctionIsSequence, SequenceIsFunction
  <2>. QED BY <2>1, <2>2, <2>4
<1>. QED BY <1>2, <1>3 DEF TouchDocument, ConfigTypeOK

\* A response stores only configurations, and under uris it was asked for.
LEMMA ReceiveConfigurationsType ==
    ASSUME ConfigTypeOK, NEW uris \in Seq(Scopes), NEW configs \in Seq(Configs),
           ReceiveConfigurations(uris, configs)
    PROVE  /\ configStore' \in [DOMAIN configStore' -> Configs]
           /\ DOMAIN configStore' \subseteq Scopes
           /\ nullWorkspace' \in Workspace
           /\ workspaceFolders' \in Seq(Workspace)
           /\ refreshedInlayHints' \in BOOLEAN
<1> DEFINE pairs == DOMAIN uris \cap DOMAIN configs
           target == [k \in pairs |-> FindWorkspace(workspaceFolders, uris[k])]
           ToldTo(i) == {k \in pairs : target[k] = i}
           Told(w, i) ==
             IF ToldTo(i) = {} THEN w
             ELSE [w EXCEPT !.hasConfiguration = TRUE,
                            !.applied = IF w.isReady
                                        THEN configs[Max(ToldTo(i))] ELSE @]
           entries(uri) == {k \in pairs : uris[k] = uri}
<1>1. \A S \in SUBSET pairs : S # {} => configs[Max(S)] \in Configs
  <2>1. TAKE S \in SUBSET pairs
  <2>2. HAVE S # {}
  <2>3. S \in SUBSET (1..Len(configs)) /\ Len(configs) \in Nat
    BY SequenceIsFunction
  <2>4. Max(S) \in S
    BY <2>2, <2>3, LargestPosition
  <2>. QED BY <2>3, <2>4, SequenceIsFunction
<1>2. \A w \in Workspace : \A i : Told(w, i) \in Workspace
  <2>1. SUFFICES ASSUME NEW w \in Workspace, NEW i, ToldTo(i) # {}
                 PROVE  Told(w, i) \in Workspace
    BY Zenon
  <2>2. configs[Max(ToldTo(i))] \in Configs
    BY <1>1, <2>1
  <2>. HIDE DEF ToldTo
  <2>. QED BY <2>1, <2>2 DEF Workspace
<1>3. configStore' = [uri \in DOMAIN configStore \cup {uris[k] : k \in pairs} |->
                        IF entries(uri) = {} THEN configStore[uri]
                        ELSE configs[Max(entries(uri))]]
  BY DEF ReceiveConfigurations, StoreConfigurations
<1>4. \A uri \in DOMAIN configStore \cup {uris[k] : k \in pairs} :
         (IF entries(uri) = {} THEN configStore[uri]
          ELSE configs[Max(entries(uri))]) \in Configs
  BY <1>1 DEF ConfigTypeOK
<1>5. DOMAIN configStore' \subseteq Scopes
  BY <1>3 DEF ConfigTypeOK
<1>6. CASE configChangedCallback
  <2>1. /\ nullWorkspace' = Told(nullWorkspace, 0)
        /\ workspaceFolders' = [i \in DOMAIN workspaceFolders |->
                                  Told(workspaceFolders[i], i)]
        /\ refreshedInlayHints' \in BOOLEAN
    BY <1>6 DEF ReceiveConfigurations
  <2>. HIDE DEF Told, entries
  <2>3. workspaceFolders \in Seq(Workspace)
    BY DEF ConfigTypeOK
  <2>4. workspaceFolders' \in [1..Len(workspaceFolders) -> Workspace]
    BY <1>2, <2>1, <2>3, SequenceIsFunction
  <2>2. workspaceFolders' \in Seq(Workspace)
    BY <2>3, <2>4, FunctionIsSequence, SequenceIsFunction
  <2>. QED BY <1>2, <1>3, <1>4, <1>5, <2>1, <2>2 DEF ConfigTypeOK
<1>7. CASE ~configChangedCallback
  <2>. HIDE DEF entries
  <2>. QED BY <1>3, <1>4, <1>5, <1>7 DEF ReceiveConfigurations, ConfigTypeOK
<1>. QED BY <1>6, <1>7

LEMMA HandleResponseType ==
    ASSUME ConfigTypeOK, NEW id, NEW configs \in Seq(Configs), NEW throws,
           HandleResponse(id, configs, throws), asked' \subseteq Nat
    PROVE  ConfigTypeOK'
<1>1. CASE id \in DOMAIN responseHandler
  <2>1. /\ responseHandler[id] \in Seq(Scopes)
        /\ ReceiveConfigurations(responseHandler[id], configs)
    BY <1>1 DEF HandleResponse, ConfigTypeOK
  <2>2. /\ responseHandler' \in [DOMAIN responseHandler' -> Seq(Scopes)]
        /\ DOMAIN responseHandler' \subseteq Nat
    BY <1>1 DEF HandleResponse, ConfigTypeOK, Restrict
  <2>. QED BY <2>1, <2>2, ReceiveConfigurationsType
           DEF HandleResponse, ConfigTypeOK
<1>2. CASE id \notin DOMAIN responseHandler
  BY <1>2 DEF HandleResponse, ConfigTypeOK
<1>. QED BY <1>1, <1>2

\* A root is found in the folder it is the root of, whatever other folders
\* contain it (findWorkspace looks for an exact root first).
LEMMA RootIsFound ==
    ASSUME ConfigTypeOK, RootsDifferIn(workspaceFolders),
           NEW i \in DOMAIN workspaceFolders,
           workspaceFolders[i].uri # NullUri
    PROVE  FindWorkspace(workspaceFolders, workspaceFolders[i].uri) = i
<1> DEFINE uri == workspaceFolders[i].uri
           exact == {j \in DOMAIN workspaceFolders :
                       workspaceFolders[j].uri = uri}
<1>1. exact = {i}
  BY DEF RootsDifferIn
<1>2. i \in Nat
  BY SequenceIsFunction DEF ConfigTypeOK
<1>3. FindWorkspace(workspaceFolders, uri)
        = CHOOSE j \in exact : \A k \in exact : j <= k
  <2>1. exact # {} /\ uri # NullUri
    BY <1>1
  <2>. HIDE DEF uri
  <2>. QED BY <2>1 DEF FindWorkspace
<1>4. \A j \in {i} : \A k \in {i} : j <= k
  BY <1>2
<1>. HIDE DEF exact, uri
<1>5. (CHOOSE j \in exact : \A k \in exact : j <= k) = i
  BY <1>1, <1>4
<1>. QED BY <1>3, <1>5 DEF uri

\* The uri of the null workspace is found in no folder.
LEMMA NullIsFound == FindWorkspace(workspaceFolders, NullUri) = 0
BY DEF FindWorkspace

\* The configurations of an answer that are reported to the folder at i.
ToldOf(uris, configs, i) ==
    {k \in DOMAIN uris \cap DOMAIN configs :
       FindWorkspace(workspaceFolders, uris[k]) = i}

\* What an answer does to the folders: the one at i is configured if something
\* was reported to it, and set up again if it is in use.
LEMMA ReceiveKeepsFolders ==
    ASSUME ConfigTypeOK, NEW uris \in Seq(Scopes), NEW configs \in Seq(Configs),
           configChangedCallback, ReceiveConfigurations(uris, configs)
    PROVE  /\ DOMAIN workspaceFolders' = DOMAIN workspaceFolders
           /\ \A i \in DOMAIN workspaceFolders :
                LET w == workspaceFolders[i]
                    told == ToldOf(uris, configs, i)
                IN  /\ workspaceFolders'[i].uri = w.uri
                    /\ workspaceFolders'[i].isReady = w.isReady
                    /\ workspaceFolders'[i].hasConfiguration
                         <=> told # {} \/ w.hasConfiguration
                    /\ workspaceFolders'[i].applied
                         = IF told # {} /\ w.isReady THEN configs[Max(told)]
                           ELSE w.applied
<1> DEFINE pairs == DOMAIN uris \cap DOMAIN configs
           target == [k \in pairs |-> FindWorkspace(workspaceFolders, uris[k])]
           ToldTo(i) == {k \in pairs : target[k] = i}
           Told(w, i) ==
             IF ToldTo(i) = {} THEN w
             ELSE [w EXCEPT !.hasConfiguration = TRUE,
                            !.applied = IF w.isReady
                                        THEN configs[Max(ToldTo(i))] ELSE @]
<1>1. workspaceFolders' = [i \in DOMAIN workspaceFolders |->
                             Told(workspaceFolders[i], i)]
  BY DEF ReceiveConfigurations
<1>2. \A i : ToldTo(i) = ToldOf(uris, configs, i)
  BY DEF ToldOf
<1>. HIDE DEF ToldTo
<1>3. ASSUME NEW w \in Workspace, NEW i
      PROVE  /\ Told(w, i).uri = w.uri
             /\ Told(w, i).isReady = w.isReady
             /\ Told(w, i).hasConfiguration
                  <=> ToldTo(i) # {} \/ w.hasConfiguration
             /\ Told(w, i).applied
                  = IF ToldTo(i) # {} /\ w.isReady
                    THEN configs[Max(ToldTo(i))] ELSE w.applied
  BY DEF Workspace
<1>4. \A i \in DOMAIN workspaceFolders : workspaceFolders[i] \in Workspace
  BY SequenceIsFunction DEF ConfigTypeOK
<1>. HIDE DEF Told
<1>5. \A i \in DOMAIN workspaceFolders :
        workspaceFolders'[i] = Told(workspaceFolders[i], i)
  BY <1>1
<1>6. DOMAIN workspaceFolders' = DOMAIN workspaceFolders
  BY <1>1
<1>7. ASSUME NEW i \in DOMAIN workspaceFolders
      PROVE  /\ workspaceFolders'[i].uri = workspaceFolders[i].uri
             /\ workspaceFolders'[i].isReady = workspaceFolders[i].isReady
             /\ workspaceFolders'[i].hasConfiguration
                  <=> \/ ToldOf(uris, configs, i) # {}
                      \/ workspaceFolders[i].hasConfiguration
             /\ workspaceFolders'[i].applied
                  = IF ToldOf(uris, configs, i) # {} /\ workspaceFolders[i].isReady
                    THEN configs[Max(ToldOf(uris, configs, i))]
                    ELSE workspaceFolders[i].applied
  <2>1. /\ workspaceFolders[i] \in Workspace
        /\ workspaceFolders'[i] = Told(workspaceFolders[i], i)
        /\ ToldTo(i) = ToldOf(uris, configs, i)
    BY <1>2, <1>4, <1>5
  <2>. QED BY <1>3, <2>1
<1>. QED BY <1>6, <1>7, Zenon

\* Touching a document sets at most one folder up, and that with what the
\* server would look up for it; the others stay as they are.
LEMMA TouchKeepsFolders ==
    ASSUME ConfigTypeOK, NEW uri, TouchDocument(uri)
    PROVE  /\ DOMAIN workspaceFolders' = DOMAIN workspaceFolders
           /\ \A i \in DOMAIN workspaceFolders :
                LET w == workspaceFolders[i] IN
                /\ workspaceFolders'[i].uri = w.uri
                /\ workspaceFolders'[i].hasConfiguration = w.hasConfiguration
                /\ \/ workspaceFolders'[i] = w
                   \/ /\ ~w.isReady
                      /\ workspaceFolders'[i].applied = GetConfiguration(w.uri)
<1> DEFINE Touched(w) == LazyInitialize(w, GetConfiguration(w.uri))
<1>1. \A w \in Workspace :
        /\ Touched(w).uri = w.uri
        /\ Touched(w).hasConfiguration = w.hasConfiguration
        /\ \/ Touched(w) = w
           \/ ~w.isReady /\ Touched(w).applied = GetConfiguration(w.uri)
  BY DEF LazyInitialize, Workspace
<1>. HIDE DEF Touched
<1>2. \A i \in DOMAIN workspaceFolders : workspaceFolders[i] \in Workspace
  BY SequenceIsFunction DEF ConfigTypeOK
<1>3. \/ workspaceFolders' = workspaceFolders
      \/ \E index : workspaceFolders' = [workspaceFolders EXCEPT ![index] =
                                           Touched(workspaceFolders[index])]
  BY DEF TouchDocument, Touched
<1>4. /\ DOMAIN workspaceFolders' = DOMAIN workspaceFolders
      /\ \A i \in DOMAIN workspaceFolders :
           \/ workspaceFolders'[i] = workspaceFolders[i]
           \/ workspaceFolders'[i] = Touched(workspaceFolders[i])
  BY <1>3
<1>. QED BY <1>1, <1>2, <1>4, Zenon

\* A new request takes a new id and names what it asks for.
LEMMA RequestNames ==
    ASSUME ConfigTypeOK, NEW uris, RequestConfiguration(uris)
    PROVE  /\ asked' = asked \cup {nextRequestId}
           /\ DOMAIN responseHandler' = DOMAIN responseHandler \cup {nextRequestId}
           /\ responseHandler'[nextRequestId] = uris
           /\ \A id \in DOMAIN responseHandler :
                id # nextRequestId => responseHandler'[id] = responseHandler[id]
BY DEF RequestConfiguration, Put
================================================================================
