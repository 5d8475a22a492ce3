------------------------------- MODULE TextFix -------------------------------
(***************************************************************************)
(* src/lucent_textfix.cpp: what speak does to a text the front end has     *)
(* rendered to silence.  A text is a sequence of characters in which a     *)
(* backslash opens and closes a tag ("\Mrk=7\"), and two of them are a     *)
(* backslash of the user's.  A repair may change the words; tags are the   *)
(* bookmarks and must come through.                                        *)
(*                                                                         *)
(* Characters stand for the classes the code tells apart: "a" a letter or  *)
(* digit, "A" a capital, "." an end of sentence, "%" what some front end   *)
(* rejects, "&" any other symbol.  The texts are those Speak makes: user   *)
(* text, escaped, and numeric tags with a space on either side.            *)
(*                                                                         *)
(* Single-byte code pages: no byte of a character looks like a backslash.  *)
(***************************************************************************)
EXTENDS Integers, SequencesExt

CONSTANT MaxPieces   \* pieces of a text

ASSUME TextAssumption == MaxPieces \in Nat

Backslash == "\\"
Space     == " "
Stop      == "."
Letters   == {"a", "A"}

\* These, and the letters tags are written with.
Char == Letters \cup {Stop, "%", "&", Space, Backslash, "m", "p"}
Text == Seq(Char)

Escape == <<Backslash, Backslash>>
Tag    == <<Space, Backslash, "m", Backslash, Space>>
Pieces == {<<"a">>, <<"A">>, <<Stop>>, <<"%">>, <<"&">>, <<Space>>, Escape, Tag}

isSentenceEnd(c)     == c = Stop
isAlwaysRejected(c)  == c = "%"
isSafeInPass2(c)     == c \notin {"%", "&"}

-----------------------------------------------------------------------------
\* skipTagOrEscape, as the part every character of s plays: "content", the "escape" and
\* the "escaped" backslash of a pair, or what "opens", is "in" and "closes" a tag.
Starts(s, i) ==
  IF s[i] # Backslash THEN "content"
  ELSE IF i < Len(s) /\ s[i + 1] = Backslash THEN "escape" ELSE "opens"

PartAfter(before, s, i) ==
  CASE before = "escape"          -> "escaped"
    [] before \in {"opens", "in"} -> IF s[i] = Backslash THEN "closes" ELSE "in"
    [] OTHER                      -> Starts(s, i)

Parts(s) ==
  LET upTo[n \in 0..Len(s)] ==
        IF n = 0 THEN <<>>
        ELSE LET parts == upTo[n - 1] IN
             Append(parts, PartAfter(IF n = 1 THEN "content" ELSE parts[n - 1], s, n))
  IN upTo[Len(s)]

\* The characters of s at the positions K.
Kept(s, K) ==
  LET upTo[n \in 0..Len(s)] ==
        IF n = 0 THEN <<>>
        ELSE IF n \in K THEN Append(upTo[n - 1], s[n]) ELSE upTo[n - 1]
  IN upTo[Len(s)]

\* The characters of s that play one of these parts and are in C.
Those(s, parts, C) ==
  LET part == Parts(s) IN Kept(s, {i \in 1..Len(s) : part[i] \in parts /\ s[i] \in C})

-----------------------------------------------------------------------------
\* The last character that is neither in a tag nor a space, 0 if there is none; of an
\* escaped backslash it is the first half.
LastContent(s) ==
  LET part == Parts(s) IN
  Max({0} \cup {i \in 1..Len(s) : part[i] = "escape" \/ (part[i] = "content" /\ s[i] # Space)})

\* Slip: a second end of sentence is put after the first.
TerminateTwice(s) ==
  LET last == LastContent(s) IN
  IF last = 0 THEN s ELSE InsertAt(s, last + 1, Stop)

terminate(s) ==
  LET last == LastContent(s) IN
  IF last = 0 \/ isSentenceEnd(s[last]) THEN s ELSE InsertAt(s, last + 1, Stop)

\* Slip: what is written in a tag is spoken.
SpeakableInTags(s) == Those(s, {"content", "in"}, Letters \cup {"m"}) # <<>>

hasSpeakableContent(s) == Those(s, {"content"}, Letters) # <<>>

RepairChar(c, pass) ==
  IF IF pass >= 2 THEN ~isSafeInPass2(c) ELSE isAlwaysRejected(c) THEN Space
  ELSE IF pass >= 3 /\ c = "A" THEN "a" ELSE c

\* Slip: whatever a tag is made of is repaired too.
RepairAll(s, pass) == [i \in 1..Len(s) |-> IF s[i] \in {Backslash, "m"} THEN Space
                                           ELSE RepairChar(s[i], pass)]

RepairContent(s, pass) ==
  LET part == Parts(s) IN
  [i \in 1..Len(s) |-> IF part[i] = "content" THEN RepairChar(s[i], pass) ELSE s[i]]

\* Empty if the pass changes nothing.
repairText(s, pass) ==
  LET out == terminate(RepairContent(s, pass)) IN IF out = s THEN <<>> ELSE out

-----------------------------------------------------------------------------
\* splitIntoWords.  Its state is the words so far, the piece being read, and whether that
\* holds a word.

\* Slip: tags after the last word go with it into the void.
FlushDropping(st) ==
  [words |-> IF st.has THEN Append(st.words, terminate(st.current)) ELSE st.words,
   current |-> <<>>, has |-> FALSE]

flush(st) ==
  [words |->
     IF st.has THEN Append(st.words, terminate(st.current))
     ELSE IF st.words # <<>>
       THEN [st.words EXCEPT ![Len(st.words)] = @ \o st.current]
       ELSE <<>>,
   current |-> <<>>, has |-> FALSE]

ReadChar(st, c, part) ==
  CASE part = "content" /\ c = Space /\ st.has -> flush(st)
    [] part = "opens" /\ st.has                -> [flush(st) EXCEPT !.current = <<c>>]
    [] OTHER -> [st EXCEPT !.current = Append(@, c),
                           !.has = @ \/ part = "escape" \/ (part = "content" /\ c \in Letters)]

splitIntoWords(s) ==
  LET part == Parts(s)
      read[n \in 0..Len(s)] ==
        IF n = 0 THEN [words |-> <<>>, current |-> <<>>, has |-> FALSE]
                 ELSE ReadChar(read[n - 1], s[n], part[n])
  IN flush(read[Len(s)]).words

-----------------------------------------------------------------------------
\* A text is put together, then treated in speak's order: three passes, then its words.
VARIABLES text, pieces, pass, out, words
vars == <<text, pieces, pass, out, words>>

Init == text = <<>> /\ pieces = 0 /\ pass = 0 /\ out = <<>> /\ words = <<>>

AddPiece ==
  /\ pass = 0 /\ pieces < MaxPieces
  /\ \E p \in Pieces : text' = text \o p
  /\ pieces' = pieces + 1
  /\ UNCHANGED <<pass, out, words>>

NextPass ==
  /\ pass < 3
  /\ pass' = pass + 1 /\ out' = repairText(text, pass')
  /\ UNCHANGED <<text, pieces, words>>

Split ==
  /\ pass = 3
  /\ pass' = 4 /\ words' = splitIntoWords(text) /\ out' = <<>>
  /\ UNCHANGED <<text, pieces>>

Tried == pass = 4 /\ UNCHANGED vars

Next == AddPiece \/ NextPass \/ Split \/ Tried

Spec == Init /\ [][Next]_vars

-----------------------------------------------------------------------------
Tags(s)     == Those(s, {"opens", "in", "closes"}, {Backslash, "m", Stop, Space})
Escapes(s)  == Those(s, {"escape", "escaped"}, {Backslash})
Spoken(s)   == Those(s, {"content"}, Letters)

\* The last content of s is an escaped backslash.
EndsInEscape(s) == LastContent(s) # 0 /\ s[LastContent(s)] = Backslash

\* What this pass leaves before the text is terminated does not end in an escaped backslash.
EndsWell == pass \in 1..3 => ~EndsInEscape(RepairContent(text, pass))

\* A repair leaves tags and escaped backslashes as they are (lucent_textfix.h: "preserving
\* \Tag\ control sequences and escaped backslashes untouched").
RepairKeepsTags ==
  out # <<>> => Tags(out) = Tags(text) /\ Escapes(out) = Escapes(text)

\* It does unless what is to be terminated ends in an escaped backslash.
RepairKeepsTagsIfEndsWell == EndsWell => RepairKeepsTags

\* One repair is enough: a repaired text is not repaired again, and no terminator is
\* doubled, which a front end rejects as well.
RepairOnce ==
  out # <<>> /\ pass \in 1..3 /\ EndsWell => repairText(out, pass) = <<>>

\* Word by word nothing is lost or said twice: the letters and, but for words ending in an
\* escaped backslash, the tags of the words are those of the text, in order.
WordsSayItAll ==
  pass = 4 /\ words # <<>> =>
    /\ FlattenSeq([i \in 1..Len(words) |-> Spoken(words[i])]) = Spoken(text)
    /\ Escapes(text) = <<>> => FlattenSeq([i \in 1..Len(words) |-> Tags(words[i])]) = Tags(text)

\* A text that is worth repairing has words to fall back on.
SpeakableHasWords == pass = 4 /\ hasSpeakableContent(text) => words # <<>>
=============================================================================
