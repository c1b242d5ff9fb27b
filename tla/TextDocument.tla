----------------------------- MODULE TextDocument -----------------------------
(***************************************************************************)
(* The text of an open document.  The client edits characters and names    *)
(* places by a line and a count of code units; the server keeps bytes, and *)
(* the offsets of the lines, computed when they are first needed and then  *)
(* adjusted by every change.                                               *)
(*                                                                         *)
(* A byte is a number.  "buffer" is what the client has: a sequence of     *)
(* characters, each of them the sequence of its bytes.                     *)
(***************************************************************************)
EXTENDS Integers, Sequences, FiniteSets, SequencesExt

CONSTANTS
    Characters,     \* what the client types: sequences of bytes, a line break included
    InitialBuffers, \* what a document may hold when it is opened
    Insertions,     \* what one change may insert
    Encodings,      \* position encodings the client and the server may agree on
    MaxLength       \* bound: characters in a document

LF == 10
CR == 13

ASSUME TextAssumption ==
    /\ Characters \subseteq Seq(0..255) \ {<<>>}
    /\ InitialBuffers \cup Insertions \subseteq Seq(Characters)
    /\ Encodings \subseteq {"utf-8", "utf-16", "utf-32"}

VARIABLES
    encoding,    \* what a position's character counts
    buffer,      \* client: the text
    content,     \* server: the bytes
    lineOffsets  \* server: where its lines begin, or <<>> when not computed

textVars == <<encoding, buffer, content, lineOffsets>>

Position(line, character) == [line |-> line, character |-> character]

-----------------------------------------------------------------------------
(* Code points and code units.                                             *)

LeadingOnes(byte) ==
    CASE byte < 128 -> 0 [] byte < 192 -> 1 [] byte < 224 -> 2 [] byte < 240 -> 3
      [] byte < 248 -> 4 [] OTHER -> 5

\* The byte lengths of the code points of a text, a byte that cannot start one
\* being a code point of its own.
CodePoints(text) ==
    LET walk[i \in 1..Len(text) + 4] ==
            IF i > Len(text) THEN <<>>
            ELSE LET length == LeadingOnes(text[i])
                     bytes == IF length \in 2..4 THEN length ELSE 1
                 IN <<bytes>> \o walk[i + bytes]
    IN walk[1]

Units(bytes) ==
    CASE encoding = "utf-8" -> bytes
      [] encoding = "utf-16" -> IF bytes = 4 THEN 2 ELSE 1
      [] encoding = "utf-32" -> 1

UnitsOf(points) == FoldLeft(LAMBDA sum, bytes : sum + Units(bytes), 0, points)
BytesOf(points) == FoldLeft(LAMBDA sum, bytes : sum + bytes, 0, points)

\* Mutant: lengths are given in bytes whatever the encoding.
LspLengthInBytes(text) == Len(text)

LspLength(text) == IF encoding = "utf-8" THEN Len(text) ELSE UnitsOf(CodePoints(text))

Least(a, b) == IF a <= b THEN a ELSE b

\* The bytes that the first "units" code units of a text take, up to its end.
MeasureUnits(text, units) ==
    LET points == CodePoints(text)
        enough == {k \in 0..Len(points) : UnitsOf(SubSeq(points, 1, k)) >= units}
        count == IF enough = {} THEN Len(points)
                 ELSE CHOOSE k \in enough : \A l \in enough : k <= l
    IN Least(Len(text), IF encoding = "utf-8" THEN units
                        ELSE BytesOf(SubSeq(points, 1, count)))

-----------------------------------------------------------------------------
(* Lines, places and offsets.  Offsets are counted from 0, as in the code.  *)

\* The substring of length n at an offset.
Substring(text, offset, n) == SubSeq(text, offset + 1, Least(offset + n, Len(text)))

\* The byte at i ends a line.
EndsLine(text, i) ==
    \/ text[i] = LF
    \/ text[i] = CR /\ ~(i < Len(text) /\ text[i + 1] = LF)

ComputeLineOffsets(text, isAtLineStart, textOffset) ==
    (IF isAtLineStart THEN <<textOffset>> ELSE <<>>)
        \o LET ends == SetToSortSeq({i \in 1..Len(text) : EndsLine(text, i)}, <)
           IN [k \in 1..Len(ends) |-> textOffset + ends[k]]

GetLineOffsets(text, offsets) ==
    IF offsets = <<>> THEN ComputeLineOffsets(text, TRUE, 0) ELSE offsets

\* An LSP position as a line and a count of bytes; beyond the last line it is
\* the end of the text.
ConvertPosition(text, offsets, position) ==
    LET count == Len(offsets) IN
    IF position.line >= count
    THEN [line |-> count - 1, column |-> Len(text) - offsets[count]]
    ELSE LET start == offsets[position.line + 1]
             end == IF position.line + 1 < count THEN offsets[position.line + 2] ELSE Len(text)
         IN [line |-> position.line,
             column |-> MeasureUnits(Substring(text, start, end - start), position.character)]

OffsetOf(offsets, place) == offsets[place.line + 1] + place.column
OffsetAt(text, offsets, position) == OffsetOf(offsets, ConvertPosition(text, offsets, position))

PositionAt(text, offsets, offset) ==
    LET within == Least(offset, Len(text))
        line == Cardinality({k \in 1..Len(offsets) : offsets[k] <= within}) - 1
    IN Position(line, LspLength(Substring(text, offsets[line + 1], within - offsets[line + 1])))

\* A place in the type checker's terms, as an LSP position.
ConvertToLsp(text, offsets, place) ==
    Position(place.line, LspLength(Substring(text, offsets[place.line + 1], place.column)))

GetText(text, offsets, range) ==
    LET start == OffsetAt(text, offsets, range.start)
    IN Substring(text, start, OffsetAt(text, offsets, range.end) - start)

-----------------------------------------------------------------------------
(* Changes.                                                                *)

WellformedRange(range) ==
    LET s == range.start e == range.end IN
    IF s.line > e.line \/ (s.line = e.line /\ s.character > e.character)
    THEN [start |-> e, end |-> s] ELSE range

\* The offsets after the first "from" ones are moved.
Moved(offsets, from, diff) ==
    [k \in 1..Len(offsets) |-> offsets[k] + (IF k > from THEN diff ELSE 0)]

\* The offsets of the lines startLine+1 to endLine are replaced by those the
\* inserted text adds.
Spliced(offsets, startLine, endLine, added) ==
    SubSeq(offsets, 1, Least(startLine + 1, Len(offsets))) \o added
        \o SubSeq(offsets, endLine + 2, Len(offsets))

\* The text from one offset to another is replaced, on the lines of a range.
Replaced(text, offsets, range, startOffset, endOffset, new, added) ==
    [content |-> SubSeq(text, 1, startOffset) \o new \o SubSeq(text, endOffset + 1, Len(text)),
     lineOffsets |-> Moved(Spliced(offsets, range.start.line, range.end.line, added),
                           range.start.line + 1 + Len(added),
                           Len(new) - (endOffset - startOffset))]

ReplacedRange(text, offsets, range, new) ==
    LET startOffset == OffsetAt(text, offsets, range.start)
    IN Replaced(text, offsets, range, startOffset, OffsetAt(text, offsets, range.end), new,
                ComputeLineOffsets(new, FALSE, startOffset))

UpdateRange(document, change) ==
    ReplacedRange(document.content, GetLineOffsets(document.content, document.lineOffsets),
                  WellformedRange(change.range), change.text)

\* Mutant: the lines of the text that was replaced as a whole are kept.
UpdateKeepingLines(document, change) ==
    IF change.full THEN [document EXCEPT !.content = change.text]
    ELSE UpdateRange(document, change)

UpdateOne(document, change) ==
    IF change.full THEN [content |-> change.text, lineOffsets |-> <<>>]
    ELSE UpdateRange(document, change)

-----------------------------------------------------------------------------
(* The client, by the protocol's definition of lines and positions.        *)

Bytes(characters) == FlattenSeq(characters)

IsBreak(characters, k) ==
    \/ characters[k] \in {<<LF>>, <<CR, LF>>}
    \/ characters[k] = <<CR>> /\ ~(k < Len(characters) /\ characters[k + 1] = <<LF>>)

\* The position between the first n characters and the others.
ClientPosition(characters, n) ==
    LET breaks == {k \in 1..n : IsBreak(characters, k)}
        start == IF breaks = {} THEN 0 ELSE CHOOSE k \in breaks : \A l \in breaks : l <= k
    IN Position(Cardinality(breaks),
                UnitsOf(FlattenSeq([k \in 1..n - start |-> CodePoints(characters[start + k])])))

\* The places a client may name: not between the two bytes of a line break.
Places(characters) ==
    {n \in 0..Len(characters) :
        ~(0 < n /\ n < Len(characters) /\ characters[n] = <<CR>> /\ characters[n + 1] = <<LF>>)}

ClientRange(characters, i, j) ==
    [start |-> ClientPosition(characters, i), end |-> ClientPosition(characters, j)]

\* What a client may do to its text, with the change it sends: a range, its ends
\* in either order, or the whole text.
Edits(characters) ==
    LET replaced(i, j, text) ==
            SubSeq(characters, 1, i) \o text \o SubSeq(characters, j + 1, Len(characters))
    IN {edit \in
          {[buffer |-> replaced(i, j, text),
            change |-> [full |-> FALSE, text |-> Bytes(text),
                        range |-> IF Len(text) = 1 THEN ClientRange(characters, j, i)
                                  ELSE ClientRange(characters, i, j)]] :
              <<i, j, text>> \in
                  {p \in Places(characters) \X Places(characters) \X Insertions : p[1] <= p[2]}}
          \cup {[buffer |-> text, change |-> [full |-> TRUE, text |-> Bytes(text)]] :
                  text \in InitialBuffers}
        : Len(edit.buffer) <= MaxLength}

Hold(document) == content' = document.content /\ lineOffsets' = document.lineOffsets

\* One notification with one or two changes, the second made to the text the
\* first one leaves.
Update ==
    \E first \in Edits(buffer) :
        \E second \in Edits(first.buffer) \cup {first} :
            /\ buffer' = second.buffer
            /\ Hold(FoldLeft(UpdateOne, [content |-> content, lineOffsets |-> lineOffsets],
                             IF second = first THEN <<first.change>> ELSE <<first.change, second.change>>))
            /\ UNCHANGED encoding

\* Something asks for a place in the document.
ReadLines ==
    /\ lineOffsets' = GetLineOffsets(content, lineOffsets)
    /\ UNCHANGED <<encoding, buffer, content>>

TextInit ==
    /\ encoding \in Encodings
    /\ buffer \in InitialBuffers
    /\ content = Bytes(buffer)
    /\ lineOffsets = <<>>

-----------------------------------------------------------------------------
(* Properties.                                                             *)

TextTypeOK ==
    /\ encoding \in Encodings
    /\ buffer \in Seq(Characters)
    /\ content \in Seq(0..255)
    /\ lineOffsets \in Seq(0..Len(content))

\* After any changes, the server's text is the client's: every position of every
\* change was read as the place the client meant (TextDocument::update).
ContentIsBuffer == content = Bytes(buffer)

\* The line offsets that are kept, through every change, are those of the text
\* (TextDocument::update against computeLineOffsets).
LineOffsetsAreCurrent ==
    lineOffsets # <<>> => lineOffsets = ComputeLineOffsets(content, TRUE, 0)

\* Every place the client can name is one offset of the server's, and that offset
\* is named by the same position; a range is the text between (offsetAt, positionAt,
\* convertPosition, getText).
PositionsRoundTrip ==
    LET offsets == GetLineOffsets(content, lineOffsets) IN
    \A n \in Places(buffer) :
        LET position == ClientPosition(buffer, n) IN
        /\ OffsetAt(content, offsets, position) = Len(Bytes(SubSeq(buffer, 1, n)))
        /\ PositionAt(content, offsets, Len(Bytes(SubSeq(buffer, 1, n)))) = position
        /\ ConvertToLsp(content, offsets, ConvertPosition(content, offsets, position)) = position
        /\ \A m \in Places(buffer) : n <= m =>
             GetText(content, offsets, ClientRange(buffer, n, m)) = Bytes(SubSeq(buffer, n + 1, m))

=============================================================================
