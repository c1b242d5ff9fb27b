-------------------------------- MODULE MCText --------------------------------
(* A finite instance of PluginTextDocument: characters of one, two and four *)
(* bytes, and the two line breaks in use. Beside the documents, the uris of *)
(* files on the three platforms, and documents whose lists are laid out.    *)
EXTENDS PluginTextDocument

Letter == <<97>>
Accent == <<195, 169>>
Emoji == <<240, 159, 146, 150>>
Break == <<LF>>
WindowsBreak == <<CR, LF>>

MCCharacters == {Letter, Accent, Emoji, Break, WindowsBreak}
MCBuffers == {<<>>, <<Letter, WindowsBreak, Emoji>>}
MCInsertions == {<<>>, <<Accent, Break>>} \cup {<<c>> : c \in MCCharacters}
MCTransformable == {<<Letter, Break, Accent>>, <<Accent, Break, Letter>>, <<Letter, WindowsBreak, Letter>>,
                    <<Break, Letter, Break>>}
MCNewTexts == {<<>>, <<98>>, <<98, 98, LF>>, <<LF, 98>>}
-----------------------------------------------------------------------------
(* Names of one and two bytes, and with bytes that uris escape; at most two of *)
(* them below the root, a drive, a share or the host of another scheme.        *)
Names == {<<97>>, <<65, 46, 97>>, <<37, 52, 49>>, <<35, 195, 169, 32>>, <<97, 43, 63>>}
Directories == {<<97>>, <<97, 97>>}
Drive == <<99, 58>>
Share == <<119, 115, 108, 36>>
RemoteHost == <<117, 58, 112, 64, 104, 111, 58, 56>>
Other == <<117>>
File == <<102, 105, 108, 101>>

Located(scheme, host, names) == [scheme |-> scheme, host |-> host, names |-> names]
Lists == {<<n>> : n \in Names} \cup {<<d, n>> : d \in Directories, n \in Names \cup {<<97, 97>>}}
FileLocations(platform) ==
    {Located(Other, <<>>, <<n>>) : n \in Names} \cup {Located(Other, RemoteHost, names) : names \in Lists}
    \cup IF platform = "windows"
         THEN {Located(File, <<>>, <<Drive>> \o names) : names \in {<<>>} \cup Lists}
              \cup {Located(File, Share, names) : names \in Lists}
         ELSE {Located(File, <<>>, names) : names \in {<<>>} \cup Lists}

VARIABLES platform, location, uri
Uri == INSTANCE Uris WITH Locations <- FileLocations, Platforms <- {"linux", "mac", "windows"}

-----------------------------------------------------------------------------
(* Documents of a few lists in one another, one of them with a comment: calls, *)
(* functions, tables, types, traits, patterns and comprehensions.              *)
LineBreaks == <<"|", "|.", "|..", "|...", "|....", "|.....", "|......", "|.......", "|........">>
LayoutTexts ==
    {<<"f", "(", "a", ",", "function", "(", "x", ",", "y", ")", "|.", "g", "(", "x", ")", "|", "end", ",",
       "{", "b", ",", "c", ",", "}", ")">>,
     <<"|.", "f", "(", "a", "--", "a", ",", "|..", ",", "b", "|.", ")">>,
     <<"function", "(", "a", ":", "(", ")", "->", "(", "T", ",", "U", "<", "T", ",", "V", ">", ")", ",", "b", ")", "end">>,
     <<"|.", "x", "|", "C", "implements", "A", ",", "B", "(", "a", ",", "|..", "b", ")", "needs", "(", "D", ")", "|", "end">>,
     <<"local", ".", "{", "a", ",", "|..", "b", ".", "{", "c", ",", "|.", "}", "|", "}", "=", "{", "for", "x", "when", "x",
       "give", "{", "x", "}", "|", "}">>,
     <<"x", ":", "{", "T", "}", "=", "{", "for", "x", "give", "f", "(", "|", "x", "|", ")", "}">>}

VARIABLES text, code
Layout == INSTANCE Layouts WITH Texts <- LayoutTexts, Breaks <- LineBreaks, DefaultUnit <- 2
-----------------------------------------------------------------------------
\* Either a document that is edited, a uri, or a document whose lists are laid out.
uriVars == <<platform, location, uri>>
layoutVars == <<text, code>>
NoUri == <<>>
NoText == <<>>
NoDocument == buffer = <<>> /\ encoding = "utf-8" /\ Init
NoLocation == platform = "linux" /\ location = Uri!NoFile /\ uri = NoUri
MCInit ==
    \/ Init /\ NoLocation /\ text = NoText /\ code = NoText
    \/ NoDocument /\ Uri!UriInit /\ text = NoText /\ code = NoText
    \/ NoDocument /\ NoLocation /\ Layout!LayoutInit

MCNext ==
    \/ uri = NoUri /\ text = NoText /\ Next /\ UNCHANGED <<uriVars, layoutVars>>
    \/ uri # NoUri /\ Uri!UriNext /\ UNCHANGED <<vars, layoutVars>>
    \/ text # NoText /\ Layout!LayoutNext /\ UNCHANGED <<vars, uriVars>>

\* The server's copy of a document is the client's text, and its lines are where
\* they begin.
CopyIsTheBuffer == TypeOK /\ ContentIsBuffer /\ LineOffsetsAreCurrent

\* A client's position comes back as it was sent, through the plugins' edits too.
PositionsComeBack == PositionsRoundTrip /\ ClientPositionsSurvive

\* The transformed text is the edited one, place for place.
TransformedPlacesAreExact == TransformedTextIsEdited /\ MappingIsExact

\* A uri names one file, and its ancestors are the directories the file is in.
UrisFollowTheFiles == uri = NoUri \/ (Uri!UriNamesItsFile /\ Uri!AncestorsContain)

\* Laying lists out keeps what a document says, and each layout undoes another.
LayoutsOnlyMoveLines == text = NoText \/ (Layout!LayoutsKeepCode /\ Layout!LayoutsAlternate)

MCSpec == MCInit /\ [][MCNext]_<<vars, uriVars, layoutVars>>
=============================================================================
