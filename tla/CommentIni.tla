------------------------------- MODULE CommentIni -------------------------------
(***************************************************************************)
(* The text of CommentStreamW and how one SetMiniDumpInprocComment call    *)
(* edits it: CommentIniApply, with the helpers it calls.                   *)
(*                                                                         *)
(* The text is a sequence of lines, [section] or key=value, and a value is *)
(* a sequence of WCHARs of which only the semicolon, the line ends, what   *)
(* they are replaced by, and the halves of a surrogate pair are told       *)
(* apart.  The value of an ANSI call is given as the WCHARs it converts    *)
(* to.  Names of sections and keys have a length and are otherwise opaque: *)
(* a name with an equals sign, a bracket or a line end in it is not        *)
(* modelled.  Lengths count WCHARs.                                        *)
(***************************************************************************)
EXTENDS PrefixSums, SequencesExt, FiniteSetsExt

CONSTANTS
  Letters,                    \* WCHARs that are stored as they are
  Chars,                      \* length of each name
  NoValue,                    \* a NULL value
  kCommentBufferWChars,
  kCommentMaxSectionKeyChars,
  kCommentMaxValueChars

ASSUME CommentLimitsAssumption ==
  {kCommentBufferWChars, kCommentMaxSectionKeyChars, kCommentMaxValueChars} \subseteq Nat \ {0}

WChars == Letters \cup {"\n", "\r", ";", "return arrow", "wide semicolon"}

Section(name)    == [kind |-> "section", name |-> name, value |-> <<>>]
Key(name, value) == [kind |-> "key", name |-> name, value |-> value]

\* [name] and its line end, or name=value and its line end.
LineLength(line) == Chars[line.name] + (IF line.kind = "section" THEN 3 ELSE 2 + Len(line.value))
TextLength(text) == Total([i \in DOMAIN text |-> LineLength(text[i])])

Cut(s, n) == SubSeq(s, 1, IF n < Len(s) THEN n ELSE Len(s))

\* TruncateMultiByteString: an ANSI value that is too long is cut in front of
\* the character that does not fit, which may be one of two WCHARs.
TruncateMultiByteString(value, max) ==
  Cut(value, IF value[max] = "high surrogate" THEN max - 1 ELSE max)

Converted(call) ==
  IF call.ansi /\ Len(call.value) > kCommentMaxValueChars
  THEN TruncateMultiByteString(call.value, kCommentMaxValueChars)
  ELSE call.value

\* What a WCHAR is stored as; a carriage return is not stored.
Replacement(c) ==
  CASE c = "\n" -> "return arrow"
    [] c = ";"  -> "wide semicolon"
    [] OTHER    -> c

\* CommentNormalizeValue: the value is cut before anything is replaced.
CommentNormalizeValue(value) ==
  LET kept == Kept(Cut(value, kCommentMaxValueChars), WChars \ {"\r"})
  IN  [i \in DOMAIN kept |-> Replacement(kept[i])]

\* The value that a call stores.
Stores(call) == CommentNormalizeValue(Converted(call))

-----------------------------------------------------------------------------
(***************************************************************************)
(* Where an entry is.                                                      *)
(***************************************************************************)

\* The header of a section: 0 if there is none.
SectionLine(text, section) == SelectInSeq(text, LAMBDA line : line = Section(section))

\* Mutant: the body of a section reaches to the end of the text.
BodyEndAtEnd(text, header) == Len(text) + 1

\* The line after the body: the next header, or the end.
BodyEnd(text, header) ==
  LET next == SelectInSubSeq(text, header + 1, Len(text), LAMBDA line : line.kind = "section")
  IN  IF next = 0 THEN Len(text) + 1 ELSE next

\* The first line of a key in its section: 0 if there is none.
KeyLine(text, section, key) ==
  LET header == SectionLine(text, section)
  IN  IF header = 0 THEN 0
      ELSE SelectInSubSeq(text, header + 1, BodyEnd(text, header) - 1,
                          LAMBDA line : line.kind = "key" /\ line.name = key)

\* Is a value one of the tokens between the semicolons of another?
HasToken(value, token) ==
  \E from \in 1 .. Len(value) + 1 :
    LET to == from + Len(token) - 1
    IN  /\ to <= Len(value)
        /\ SubSeq(value, from, to) = token
        /\ from = 1 \/ value[from - 1] = ";"
        /\ to = Len(value) \/ value[to + 1] = ";"

-----------------------------------------------------------------------------
(***************************************************************************)
(* One edit.                                                               *)
(***************************************************************************)

\* The value after Replace, Append or Merge.
Combine(old, call) ==
  LET new == Stores(call)
  IN  CASE call.oper = "Replace" -> new
        [] call.oper = "Append"  -> old \o <<";">> \o new
        [] call.oper = "Merge"   -> IF old = <<>> THEN new
                                    ELSE IF HasToken(old, new) THEN old
                                    ELSE old \o <<";">> \o new

\* A key that is not there is inserted at the end of its section, a section at
\* the end of the text, whatever the operation.
Insert(text, call) ==
  LET header == SectionLine(text, call.section)
      line   == Key(call.key, Stores(call))
  IN  IF header = 0 THEN text \o <<Section(call.section), line>>
      ELSE InsertAt(text, BodyEnd(text, header), line)

\* The text an edit asks for.
Edited(text, call) ==
  LET at == KeyLine(text, call.section, call.key)
  IN  IF call.value = NoValue
      THEN IF at # 0 /\ call.oper = "Replace" THEN RemoveAt(text, at) ELSE text
      ELSE IF at = 0 THEN Insert(text, call)
      ELSE [text EXCEPT ![at].value = Combine(@, call)]

BadName(name) == Chars[name] = 0 \/ Chars[name] > kCommentMaxSectionKeyChars

\* Mutant: the terminating NUL is forgotten.
FitsWithoutNul(text) == TextLength(text) <= kCommentBufferWChars

\* CommentSplice has room for the text and its NUL.
Fits(text) == TextLength(text) + 1 <= kCommentBufferWChars

\* CommentIniApply returns FALSE and changes nothing.
Refused(text, call) ==
  \/ BadName(call.section) \/ BadName(call.key)
  \/ ~Fits(Edited(text, call))

\* The WCHAR at which CommentSplice starts to move and fill.
SpliceAt(text, call) ==
  LET at     == KeyLine(text, call.section, call.key)
      header == SectionLine(text, call.section)
  IN  IF at = 0
      THEN TextLength(Cut(text, IF header = 0 THEN Len(text) ELSE BodyEnd(text, header) - 1))
      ELSE TextLength(Cut(text, at - 1))
             + (IF call.value = NoValue THEN 0
                ELSE Chars[call.key] + 1
                       + (IF call.oper = "Replace" THEN 0 ELSE Len(text[at].value)))

-----------------------------------------------------------------------------
(***************************************************************************)
(* The CRC.                                                                *)
(***************************************************************************)

\* The first n WCHARs of a text.  No two names begin alike, so that a name that
\* is cut is still told from another.
Leading(text, n) ==
  LET lines == {i \in 1 .. Len(text) : TextLength(Cut(text, i - 1)) < n}
  IN  [i \in 1 .. Cardinality(lines) |->
         LET left == n - TextLength(Cut(text, i - 1)) - Chars[text[i].name] - 1
         IN  [text[i] EXCEPT !.value = IF left <= 0 THEN <<>> ELSE Cut(@, left)]]

\* What the CRC is taken over: as many bytes as the text has WCHARs, which is
\* its first half.
Covered(text) ==
  LET half == TextLength(text) \div 2
  IN  [length |-> half, content |-> Leading(text, half)]
=============================================================================
