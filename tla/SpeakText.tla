----------------------------- MODULE SpeakText ------------------------------
(***************************************************************************)
(* How ISpTTSEngineImpl::Speak puts the engine's text together from SAPI's *)
(* fragments (483-592) and cuts it into chunks (split_chunks, 221-254).    *)
(* Characters are those of TextFix; a marker is a tag with an "m" in it, a *)
(* pause one with a "p".  A marker is an event SAPI is told of when the    *)
(* engine gets to its tag; markers with nothing between them share one.    *)
(***************************************************************************)
EXTENDS TextFix

CONSTANTS
  MaxFrags,   \* fragments of one call
  Contents,   \* what a fragment may say
  ChunkSize   \* CHUNK_TARGET_BYTES

ASSUME FragmentAssumption ==
  /\ MaxFrags \in Nat
  /\ Contents \subseteq Text
  /\ ChunkSize \in Nat /\ ChunkSize > 1

MarkerTag == Tag
PauseTag  == <<Space, Backslash, "p", Backslash, Space>>

isWordChar(c) == c \in Letters

VARIABLES
  frags,    \* fragments read
  want,     \* events the site asked for: "word", "sentence"
  built,    \* [text, marks, tags, last, have]: the text so far, for each marker its tag and
            \* the length of the text then, the tags, last_marker_id and have_text
  chunks,   \* chunks cut off
  start     \* characters in them; -1 before the cutting begins

speakTextVars == <<frags, want, built, chunks, start>>

SpeakTextInit ==
  /\ frags = 0 /\ want \in SUBSET {"word", "sentence"}
  /\ built = [text |-> <<>>, marks |-> <<>>, tags |-> 0, last |-> 0, have |-> FALSE]
  /\ chunks = <<>> /\ start = -1

-----------------------------------------------------------------------------
append_escaped(b, c) ==
  [b EXCEPT !.text = IF c = Backslash THEN @ \o Escape ELSE Append(@, c)]

\* add_marker: the last tag serves if nothing has been said since.
add_marker(b) ==
  LET new == b.last = 0
      id  == IF new THEN b.tags + 1 ELSE b.last
      txt == IF new THEN b.text \o MarkerTag ELSE b.text
  IN [b EXCEPT !.text = txt, !.tags = IF new THEN id ELSE @, !.last = id,
               !.marks = Append(@, [tag |-> id, at |-> Len(txt)])]

MarkIf(b, what) == IF what \in want THEN add_marker(b) ELSE b

Said(b) == [b EXCEPT !.last = 0, !.have = TRUE]

\* Character i of a fragment: a word has its marker before its first character.
\* Slip: punctuation does not count as said.
SpeaksWordsOnly(b, s, i) ==
  IF isWordChar(s[i])
    THEN LET first == i = 1 \/ ~isWordChar(s[i - 1])
         IN Said(append_escaped(IF first THEN MarkIf(b, "word") ELSE b, s[i]))
    ELSE append_escaped(b, s[i])

SpeaksChar(b, s, i) ==
  IF isWordChar(s[i])
    THEN LET first == i = 1 \/ ~isWordChar(s[i - 1])
         IN Said(append_escaped(IF first THEN MarkIf(b, "word") ELSE b, s[i]))
    ELSE LET more == append_escaped(b, s[i]) IN IF s[i] = Space THEN more ELSE Said(more)

SpellsChar(b, s, i) ==
  IF s[i] = Space THEN b
  ELSE Said(append_escaped(append_escaped(MarkIf(b, "word"), s[i]), Space))

\* A fragment that is spoken or spelt out.
Reads(b, s, spells) ==
  LET read[n \in 0..Len(s)] ==
        IF n = 0 THEN MarkIf(b, "sentence")
        ELSE IF spells THEN SpellsChar(read[n - 1], s, n) ELSE SpeaksChar(read[n - 1], s, n)
  IN append_escaped(read[Len(s)], Space)

\* One turn of the loop over the fragments.
Fragment ==
  /\ start = -1 /\ frags < MaxFrags
  /\ \/ built' = add_marker(built)
     \/ built' = [built EXCEPT !.text = @ \o PauseTag]
     \/ \E s \in Contents, spells \in BOOLEAN : built' = Reads(built, s, spells)
  /\ frags' = frags + 1
  /\ UNCHANGED <<want, chunks, start>>

\* Text without anything to say is not spoken.
Finish ==
  /\ start = -1 /\ built.have
  /\ start' = 0
  /\ UNCHANGED <<frags, want, built, chunks>>

-----------------------------------------------------------------------------
\* Positions in the second half of a chunk that begins after character b; cutting at i leaves
\* i characters to the left.
SecondHalf(b) == (b + ChunkSize \div 2 + 1)..(b + ChunkSize)

\* A sentence ends, or a space does not follow a backslash.
AfterSentence(s, i) == s[i] = Stop /\ s[i + 1] = Space
BeforeSpace(s, i)   == s[i + 1] = Space /\ s[i] # Backslash

\* Slip: only sentences are looked for.
CutAfterSentence(s, b) ==
  LET sentences == {i \in SecondHalf(b) : AfterSentence(s, i)}
  IN IF Len(s) - b <= ChunkSize THEN Len(s)
     ELSE IF sentences # {} THEN Max(sentences) ELSE b + ChunkSize

Cut(s, b) ==
  LET sentences == {i \in SecondHalf(b) : AfterSentence(s, i)}
      spaces    == {i \in SecondHalf(b) : BeforeSpace(s, i)}
  IN IF Len(s) - b <= ChunkSize THEN Len(s)
     ELSE IF sentences # {} THEN Max(sentences)
     ELSE IF spaces # {} THEN Max(spaces) ELSE b + ChunkSize

\* One turn of split_chunks.
Chunk ==
  /\ start \in 0..Len(built.text) - 1
  /\ start'  = Cut(built.text, start)
  /\ chunks' = Append(chunks, SubSeq(built.text, start + 1, start'))
  /\ UNCHANGED <<frags, want, built>>

SpeakTextNext == Fragment \/ Finish \/ Chunk

SpeakTextSpec == SpeakTextInit /\ [][SpeakTextNext]_speakTextVars

-----------------------------------------------------------------------------
\* The tag of a marker: the end of the n-th tag with an "m" in it.
TagEnd(n) ==
  LET part == Parts(built.text)
      ms   == {i \in 1..Len(built.text) : part[i] = "in" /\ built.text[i] = "m"}
  IN (CHOOSE i \in ms : Cardinality({j \in ms : j <= i}) = n) + 2

\* Whatever the user wrote, the engine sees the tags of Speak and no others (200: "so the
\* engine never sees a control tag in it"), and between a marker's tag and the marker's
\* own place in the text nothing is said: its event comes where it belongs.  A pause may lie
\* there: a silence (517) does not end the tag before it, and a marker behind the pause
\* is told of before it.
EventsInText ==
  start = -1 => LET part == Parts(built.text) IN
  /\ Cardinality({i \in DOMAIN part : part[i] = "in" /\ built.text[i] = "m"}) = built.tags
  /\ \A k \in DOMAIN built.marks : \A i \in TagEnd(built.marks[k].tag) + 1..built.marks[k].at :
       part[i] \in {"content", "escape"} => built.text[i] = Space

\* The chunks are the text, none is larger than asked or empty, and a tag or an escaped
\* backslash is cut only where the half chunk before the cut has no space to cut at (220:
\* "never inside a tag").
ChunksWhole ==
  start >= 0 =>
    /\ FlattenSeq(chunks) = SubSeq(built.text, 1, start)
    /\ \A i \in DOMAIN chunks : Len(chunks[i]) \in 1..ChunkSize
    /\ start > 0 /\ Parts(built.text)[start] \in {"escape", "opens", "in"} =>
         \A i \in start - (ChunkSize - ChunkSize \div 2) + 1..start : ~BeforeSpace(built.text, i)
=============================================================================
