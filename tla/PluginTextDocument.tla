-------------------------- MODULE PluginTextDocument --------------------------
(***************************************************************************)
(* A document a plugin transforms: the type checker is given the           *)
(* transformed text, and every place in a request or a response is         *)
(* converted between the client's text and it.                             *)
(***************************************************************************)
EXTENDS TextDocument, SourceMapping, TLC

CONSTANTS
    NewTexts,  \* what a plugin may put in place of a range
    Transformable \* bound: the texts that are transformed

NoPlugin == [text |-> <<>>, applied |-> <<>>, edits |-> <<>>]

VARIABLE plugin  \* the edits the plugin made, and what SourceMapping made of them

vars == <<textVars, plugin>>

\* The place of a byte offset, lines being ended by newlines alone.
PlaceAt(text, offset) ==
    LET breaks == {i \in NewLines(text) : i <= offset}
    IN Place(Cardinality(breaks), offset - LastOf(breaks))

PlacesOf(text) == {PlaceAt(text, offset) : offset \in 0..Len(text)}

PluginEdits ==
    {[begin |-> p[1], end |-> p[2], text |-> p[3]] :
        p \in {q \in PlacesOf(content) \X PlacesOf(content) \X NewTexts : ~Before(q[2], q[1])}}

\* A plugin returns one or two edits; those that overlap are an error, and the
\* document stays as it is.
Transform ==
    /\ plugin = NoPlugin
    /\ buffer \in Transformable
    /\ \E edits \in {<<e>> : e \in PluginEdits} \cup (PluginEdits \X PluginEdits) :
         /\ ~Overlaps(edits)
         /\ plugin' = [edits |-> edits] @@ FromEdits(content, edits)
    /\ UNCHANGED textVars

\* A change of the document first forgets what the plugin made of it; plugins
\* that are reloaded forget it as well (module Documents).
Invalidate == plugin # NoPlugin /\ plugin' = NoPlugin /\ UNCHANGED textVars
UpdateDocument == plugin = NoPlugin /\ Update /\ UNCHANGED plugin

Init == TextInit /\ plugin = NoPlugin

Next ==
    \/ UpdateDocument
    \/ Invalidate
    \/ ReadLines /\ UNCHANGED plugin
    \/ Transform

Spec == Init /\ [][Next]_vars

-----------------------------------------------------------------------------
(* PluginTextDocument::convertPosition, in both directions.                *)

ToTransformed(position) ==
    OriginalToTransformed(plugin.applied,
        ConvertPosition(content, GetLineOffsets(content, lineOffsets), position))

ToClient(place) ==
    ConvertToLsp(content, GetLineOffsets(content, lineOffsets),
                 TransformedToOriginal(plugin.applied, place))

-----------------------------------------------------------------------------
(* Properties.                                                             *)

Span(edit) == [from |-> PositionToOffset(content, edit.begin), to |-> PositionToOffset(content, edit.end)]
Spans == {Span(plugin.edits[i]) : i \in DOMAIN plugin.edits}

\* How much longer the text before an offset has become.
GrownBefore(offset) ==
    FoldLeft(LAMBDA sum, edit : IF Span(edit).to > offset THEN sum
                                ELSE sum + Len(edit.text) - (Span(edit).to - Span(edit).from),
             0, plugin.edits)

\* The offsets no edit touches, an edit that inserts before one aside.
Untouched == {offset \in 0..Len(content) : \A s \in Spans : offset < s.from \/ s.to <= offset}

\* A line on which a multi-line edit, or the text it puts there, ends: columns
\* after it are not followed.
EndsMultiLineEdit(line) ==
    \E i \in DOMAIN plugin.edits :
        LET e == plugin.edits[i] IN
        e.end.line = line /\ (e.begin.line # line \/ NewLines(e.text) # {})

\* The transformed text has every byte that no edit touches, where the edits
\* before it moved it, and is as long as the edits make it (fromEdits).
TransformedTextIsEdited ==
    plugin # NoPlugin =>
        /\ Len(plugin.text) = Len(content) + GrownBefore(Len(content))
        /\ \A offset \in Untouched \ {Len(content)} :
             plugin.text[offset + GrownBefore(offset) + 1] = content[offset + 1]

\* A place no edit touches is the place of the same byte in the other text, both
\* ways, on every line where no multi-line edit ends (originalToTransformed,
\* transformedToOriginal).
MappingIsExact ==
    plugin # NoPlugin =>
        \A offset \in Untouched :
            LET place == PlaceAt(content, offset)
                moved == PlaceAt(plugin.text, offset + GrownBefore(offset))
            IN ~EndsMultiLineEdit(place.line) =>
                 /\ OriginalToTransformed(plugin.applied, place) = moved
                 /\ TransformedToOriginal(plugin.applied, moved) = place

\* A position of the client that no edit touches comes back from the transformed
\* text as it was, on those lines (PluginTextDocument::convertPosition).
ClientPositionsSurvive ==
    plugin # NoPlugin =>
        \A n \in Places(buffer) :
            LET position == ClientPosition(buffer, n) IN
            Len(Bytes(SubSeq(buffer, 1, n))) \in Untouched /\ ~EndsMultiLineEdit(position.line)
                => ToClient(ToTransformed(position)) = position

TypeOK ==
    /\ TextTypeOK
    /\ plugin.text \in Seq(0..255)
    /\ Len(plugin.applied) = Len(plugin.edits)

=============================================================================
