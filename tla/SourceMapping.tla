---------------------------- MODULE SourceMapping ----------------------------
(***************************************************************************)
(* A plugin's edits applied to a source, and the places of the original    *)
(* text in the transformed one and back (Plugin::SourceMapping).  A place  *)
(* is a line, ended by a newline only, and a column of bytes.              *)
(***************************************************************************)
EXTENDS Integers, Sequences, FiniteSets, SequencesExt

Place(line, column) == [line |-> line, column |-> column]
Before(p, q) == p.line < q.line \/ (p.line = q.line /\ p.column < q.column)

\* An edit is [begin, end, text].
Sorted(edits) ==
    LET at(i) == Cardinality({j \in DOMAIN edits :
                    \/ Before(edits[j].begin, edits[i].begin)
                    \/ edits[j].begin = edits[i].begin /\ j <= i})
    IN [k \in DOMAIN edits |-> edits[CHOOSE i \in DOMAIN edits : at(i) = k]]

Overlaps(edits) ==
    \E i \in 2..Len(edits) : Before(Sorted(edits)[i].begin, Sorted(edits)[i - 1].end)

NewLines(text) == {i \in 1..Len(text) : text[i] = 10}
LastOf(S) == IF S = {} THEN 0 ELSE CHOOSE i \in S : \A j \in S : j <= i

\* The offset of a place, on its line or at the end of the text.
PositionToOffset(source, place) ==
    LET starts == {i \in NewLines(source) \cup {0} :
                     Cardinality({j \in NewLines(source) : j <= i}) = place.line}
        start == IF starts = {} THEN Len(source) ELSE LastOf(starts)
        ends == {i \in NewLines(source) : i > start}
        lineEnd == IF ends = {} THEN Len(source)
                   ELSE (CHOOSE i \in ends : \A j \in ends : i <= j) - 1
    IN IF start + place.column < lineEnd THEN start + place.column ELSE lineEnd

\* Mutant: the columns of earlier lines are added as well.
ShiftedAlways(place, lines, line, columns) == Place(place.line + lines, place.column + columns)

\* How a place's column moves because of earlier edits of its line.
Shifted(place, lines, line, columns) ==
    Place(place.line + lines, place.column + (IF place.line = line THEN columns ELSE 0))

EndOfText(begin, text) ==
    IF NewLines(text) = {} THEN Place(begin.line, begin.column + Len(text))
    ELSE Place(begin.line + Cardinality(NewLines(text)), Len(text) - LastOf(NewLines(text)))

\* The sorted edits applied one by one: the text so far, how far the source was
\* copied, the edits with their transformed ranges, and the shift of what follows.
FromEdits(source, edits) ==
    LET apply(done, edit) ==
            LET from == PositionToOffset(source, edit.begin)
                to == PositionToOffset(source, edit.end)
                begin == Shifted(edit.begin, done.lines, done.line, done.columns)
                grown == Len(edit.text) - (to - from)
                oneLine == edit.begin.line = edit.end.line /\ NewLines(edit.text) = {}
            IN [text |-> done.text \o SubSeq(source, done.offset + 1, from) \o edit.text,
                offset |-> to,
                applied |-> Append(done.applied,
                    [original |-> [begin |-> edit.begin, end |-> edit.end],
                     transformed |-> [begin |-> begin, end |-> EndOfText(begin, edit.text)]]),
                lines |-> done.lines + Cardinality(NewLines(edit.text))
                            - (edit.end.line - edit.begin.line),
                line |-> IF oneLine THEN edit.begin.line ELSE -1,
                columns |-> IF ~oneLine THEN 0
                            ELSE grown + (IF edit.begin.line = done.line THEN done.columns ELSE 0)]
        start == [text |-> <<>>, offset |-> 0, applied |-> <<>>, lines |-> 0, line |-> -1, columns |-> 0]
        end == FoldLeft(apply, start, Sorted(edits))
    IN [text |-> end.text \o SubSeq(source, end.offset + 1, Len(source)), applied |-> end.applied]

Inside(place, range) == ~Before(place, range.begin) /\ Before(place, range.end)

\* A place in the "from" text, found in the "to" text by a scan of the edits: one
\* before an edit is shifted by what came before; one inside is where it begins.
MapPlace(applied, place, from, to) ==
    LET found(scan, p) == [scan EXCEPT !.place = p, !.done = TRUE]
        step(scan, edit) ==
            LET a == edit[from] b == edit[to]
                oneLine == a.begin.line = a.end.line /\ b.begin.line = b.end.line
                grown == (b.end.column - b.begin.column) - (a.end.column - a.begin.column)
            IN IF scan.done THEN scan
               ELSE IF Before(place, a.begin)
               THEN found(scan, Shifted(place, scan.lines, scan.line, scan.columns))
               ELSE IF Inside(place, a) THEN found(scan, b.begin)
               ELSE [scan EXCEPT
                       !.lines = @ + (b.end.line - b.begin.line) - (a.end.line - a.begin.line),
                       !.line = IF oneLine THEN a.begin.line ELSE -1,
                       !.columns = IF ~oneLine THEN 0
                                   ELSE grown + (IF a.begin.line = scan.line THEN @ ELSE 0)]
        scanned == FoldLeft(step, [place |-> place, done |-> FALSE, lines |-> 0,
                                   line |-> -1, columns |-> 0], applied)
    IN IF scanned.done THEN scanned.place
       ELSE Shifted(place, scanned.lines, scanned.line, scanned.columns)

OriginalToTransformed(applied, place) == MapPlace(applied, place, "original", "transformed")
TransformedToOriginal(applied, place) == MapPlace(applied, place, "transformed", "original")

=============================================================================
