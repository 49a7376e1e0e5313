------------------------------- MODULE EdsText -------------------------------
(***************************************************************************)
(* The text of an EDS file (eds/parse.rs), written by a vendor in any      *)
(* layout the format allows and read one character at a time.              *)
(*                                                                         *)
(* The parser peeks and consumes; here every step consumes one character,  *)
(* and the mode says which loop of the code it is in.  A text is a         *)
(* sequence of characters, an optional string a sequence of at most one.   *)
(***************************************************************************)
EXTENDS Naturals, Sequences, SequencesExt, FiniteSetsExt

CONSTANTS
  Blanks,    \* what may stand between two parts: white space or a comment
  Names, Keywords, Strings, PlainTokens,  \* what is written
  Mistakes,  \* texts that start no section and no entry
  MaxPieces  \* bound on the pieces of text written

NL        == "\n"
Quote     == "\""
Backslash == "\\"
White     == {" ", NL}

VARIABLES
  parser,  \* the state of parse
  doc,     \* the sections written so far, without the entry in progress
  unfinished, \* the entry in progress, with its last field, or NoEntry
  line,    \* the line the writer is in
  pieces,  \* pieces written
  state    \* "writing", "over", or "wrong": the text is no EDS

edsVars == <<parser, doc, unfinished, line, pieces, state>>

NoEntry == [none |-> TRUE]
TextField(kind, text) == [kind |-> kind, text |-> text]
EmptyField == TextField("empty", <<>>)

Trim(s) ==
  LET solid == {i \in DOMAIN s : s[i] \notin White}
  IN  IF solid = {} THEN <<>> ELSE SubSeq(s, Min(solid), Max(solid))

-----------------------------------------------------------------------------
(* The parser *)

NewParser ==
  [mode |-> "top", back |-> "top", line |-> 1, sections |-> <<>>, name |-> <<>>,
   keyword |-> <<>>, start |-> 0, fields |-> <<>>, strings |-> <<>>, token |-> <<>>]

Goto(p, mode) == [p EXCEPT !.mode = mode]
Fail(p)       == Goto(p, "failed")
Comment(p)    == [p EXCEPT !.back = p.mode, !.mode = "comment"]

CommentChar(p, c) == IF c = NL THEN Goto(p, p.back) ELSE p

HeaderChar(p, c) ==
  CASE c = "]" -> [p EXCEPT !.mode = "top",
                     !.sections = Append(@, [name |-> Trim(p.name), entries |-> <<>>])]
    [] c = NL  -> Fail(p)
    [] OTHER   -> [p EXCEPT !.name = Append(@, c)]

KeywordChar(p, c) ==
  CASE c = "="                       -> [p EXCEPT !.mode = "field", !.keyword = Trim(@)]
    [] c \in {";", "[", Quote, ","} -> Fail(p)
    [] OTHER                         -> [p EXCEPT !.keyword = Append(@, c)]

TopChar(p, c) ==
  CASE c = "$"      -> Comment(p)
    [] c \in White  -> p
    [] c = "["      -> [p EXCEPT !.mode = "header", !.name = <<>>]
    [] OTHER        -> KeywordChar([p EXCEPT !.mode = "keyword", !.keyword = <<>>,
                                      !.start = p.line, !.fields = <<>>], c)

\* A comma or semicolon ends the field; a string wins over other text.  An
\* entry that ends needs a section to belong to.
EndField(p, c) ==
  LET field == IF p.strings # <<>> THEN TextField("string", p.strings[1])
               ELSE IF Trim(p.token) = <<>> THEN EmptyField
               ELSE TextField("token", Trim(p.token))
      q     == [p EXCEPT !.fields = Append(@, field), !.strings = <<>>, !.token = <<>>,
                  !.mode = "field"]
  IN  IF c = "," THEN q
      ELSE IF p.sections = <<>> THEN Fail(q)
      ELSE [q EXCEPT !.mode = "top",
              !.sections[Len(q.sections)].entries =
                 Append(@, [keyword |-> q.keyword, fields |-> q.fields, line |-> q.start])]

\* Mutant: comments are recognised between entries only.
BugFieldChar(p, c) ==
  CASE c \in White      -> Goto(p, "field")
    [] c = Quote        -> [p EXCEPT !.mode = "string",
                              !.strings = IF @ = <<>> THEN << <<>> >> ELSE @]
    [] c \in {",", ";"} -> EndField(p, c)
    [] OTHER            -> [p EXCEPT !.mode = "token", !.token = Append(@, c)]

FieldChar(p, c) ==
  CASE c = "$"          -> Comment(Goto(p, "field"))
    [] c \in White      -> Goto(p, "field")
    [] c = Quote        -> [p EXCEPT !.mode = "string",
                              !.strings = IF @ = <<>> THEN << <<>> >> ELSE @]
    [] c \in {",", ";"} -> EndField(p, c)
    [] OTHER            -> [p EXCEPT !.mode = "token", !.token = Append(@, c)]

\* A token goes on until a character FieldChar must see.
TokenChar(p, c) ==
  IF c \in {",", ";", Quote, "$", NL} THEN FieldChar(p, c)
  ELSE [p EXCEPT !.token = Append(@, c)]

StringChar(p, c) ==
  CASE c = Quote     -> Goto(p, "field")
    [] c = Backslash -> Goto(p, "escape")
    [] OTHER         -> [p EXCEPT !.strings[1] = Append(@, c)]

EscapeChar(p, c) ==
  [p EXCEPT !.mode = "string", !.strings[1] = Append(@, IF c = "n" THEN NL ELSE c)]

\* Cursor::next counts the line before the character is looked at.
Step(before, c) ==
  LET p == IF c = NL THEN [before EXCEPT !.line = @ + 1] ELSE before
  IN  CASE p.mode = "top"     -> TopChar(p, c)
        [] p.mode = "comment" -> CommentChar(p, c)
        [] p.mode = "header"  -> HeaderChar(p, c)
        [] p.mode = "keyword" -> KeywordChar(p, c)
        [] p.mode = "field"   -> FieldChar(p, c)
        [] p.mode = "token"   -> TokenChar(p, c)
        [] p.mode = "string"  -> StringChar(p, c)
        [] p.mode = "escape"  -> EscapeChar(p, c)
        [] OTHER              -> before

\* Mutant: the end of the file ends an entry.
BugResult(p) ==
  IF p.mode \in {"failed", "header", "string", "escape"} THEN [ok |-> FALSE, line |-> p.line]
  ELSE [ok |-> TRUE, sections |-> p.sections]

\* What parse returns if the text ends here.
Result(p) ==
  LET mode == IF p.mode = "comment" THEN p.back ELSE p.mode
  IN  CASE mode = "top"                -> [ok |-> TRUE, sections |-> p.sections]
        [] mode \in {"field", "token"} -> [ok |-> FALSE, line |-> p.start]
        [] OTHER                       -> [ok |-> FALSE, line |-> p.line]

-----------------------------------------------------------------------------
(* The writer *)

EdsInit ==
  /\ parser = NewParser
  /\ doc = <<>> /\ unfinished = NoEntry
  /\ line = 1 /\ pieces = 0 /\ state = "writing"

CanWrite == state = "writing" /\ pieces < MaxPieces

\* A piece of text reaches the parser.
Write(text) ==
  /\ parser' = FoldLeft(Step, parser, text)
  /\ line' = line + Cardinality({i \in DOMAIN text : text[i] = NL})
  /\ pieces' = pieces + 1

WriteBlank(blank) ==
  /\ CanWrite
  /\ Write(blank)
  /\ UNCHANGED <<doc, unfinished, state>>

SectionText(name) == <<"[", " ">> \o name \o <<"]">>
WriteSection(name) ==
  /\ CanWrite /\ unfinished = NoEntry
  /\ Write(SectionText(name))
  /\ doc' = Append(doc, [name |-> name, entries |-> <<>>])
  /\ UNCHANGED <<unfinished, state>>

WriteKeyword(keyword, blank) ==
  /\ CanWrite /\ unfinished = NoEntry
  /\ Write(keyword \o <<blank, "=">>)
  /\ unfinished' = [keyword |-> keyword, line |-> line, fields |-> <<>>, last |-> EmptyField]
  /\ UNCHANGED <<doc, state>>

\* A string is quoted and escaped; strings side by side are one.
StringText(s) ==
  LET escaped(c) == CASE c = NL                  -> <<Backslash, "n">>
                      [] c \in {Quote, Backslash} -> <<Backslash, c>>
                      [] OTHER                   -> <<c>>
  IN  <<Quote>> \o FlattenSeq([i \in DOMAIN s |-> escaped(s[i])]) \o <<Quote>>
WriteString(s) ==
  /\ CanWrite /\ unfinished # NoEntry
  /\ unfinished.last.kind \in {"empty", "string"}
  /\ Write(StringText(s))
  /\ unfinished' = [unfinished EXCEPT !.last = TextField("string", unfinished.last.text \o s)]
  /\ UNCHANGED <<doc, state>>

WriteToken(token) ==
  /\ CanWrite /\ unfinished # NoEntry
  /\ unfinished.last = EmptyField
  /\ Write(token)
  /\ unfinished' = [unfinished EXCEPT !.last = TextField("token", token)]
  /\ UNCHANGED <<doc, state>>

WriteComma ==
  /\ CanWrite /\ unfinished # NoEntry
  /\ Write(<<",">>)
  /\ unfinished' = [unfinished EXCEPT !.fields = Append(@, unfinished.last),
                                     !.last = EmptyField]
  /\ UNCHANGED <<doc, state>>

\* An entry before any section makes the file wrong.
WriteSemicolon ==
  /\ CanWrite /\ unfinished # NoEntry
  /\ Write(<<";">>)
  /\ IF doc = <<>> THEN state' = "wrong" /\ UNCHANGED <<doc, unfinished>>
     ELSE /\ doc' = [doc EXCEPT ![Len(doc)].entries =
                       Append(@, [keyword |-> unfinished.keyword, line |-> unfinished.line,
                                  fields |-> Append(unfinished.fields, unfinished.last)])]
          /\ unfinished' = NoEntry /\ UNCHANGED state

WriteMistake(text) ==
  /\ CanWrite /\ unfinished = NoEntry
  /\ Write(text)
  /\ state' = "wrong"
  /\ UNCHANGED <<doc, unfinished>>

\* The file ends in the middle of a piece.
EndInside(text) ==
  /\ CanWrite
  /\ \E n \in 1..(Len(text) - 1) :
       /\ Write(SubSeq(text, 1, n))
       /\ state' = IF text \in Blanks THEN "over" ELSE "wrong"
  /\ UNCHANGED <<doc, unfinished>>

EndOfFile ==
  /\ state = "writing"
  /\ state' = "over"
  /\ UNCHANGED <<parser, doc, unfinished, line, pieces>>

EdsNext ==
  \/ \E b \in Blanks : WriteBlank(b) \/ EndInside(b)
  \/ \E n \in Names : WriteSection(n) \/ (unfinished = NoEntry /\ EndInside(SectionText(n)))
  \/ \E k \in Keywords, b \in White : WriteKeyword(k, b)
  \/ \E s \in Strings : WriteString(s) \/ (unfinished # NoEntry /\ EndInside(StringText(s)))
  \/ \E t \in PlainTokens : WriteToken(t)
  \/ \E m \in Mistakes : WriteMistake(m)
  \/ WriteComma \/ WriteSemicolon
  \/ EndOfFile

-----------------------------------------------------------------------------
(* Properties *)

\* Whatever the layout (comments that contain quotes and semicolons, strings
\* that contain separators and comment signs, strings in several parts, blank
\* lines, spaces around names), parse returns the sections, entries, fields
\* and keyword lines that were written, and nothing else.
ReadsAsWritten ==
  state # "wrong" /\ unfinished = NoEntry => Result(parser) = [ok |-> TRUE, sections |-> doc]

\* A file that ends inside an entry, a header or a string, or has an entry
\* without "=" or before any section, is an error and never a shorter file;
\* the error names a line of the part it is about.
CutIsNoticed ==
  state = "wrong" \/ unfinished # NoEntry =>
    LET answer == Result(parser)
    IN  /\ ~answer.ok
        /\ answer.line <= line
        /\ unfinished # NoEntry => answer.line >= unfinished.line

=============================================================================
