----------------------------- MODULE ConfParser -----------------------------
(***************************************************************************)
(* The parser of the configuration file (conf.cc), and a writer that       *)
(* composes files for it.                                                  *)
(*                                                                         *)
(* A text is a sequence of lexemes: words, which stand for a run of the    *)
(* characters a key may have, other printable values (an address), the     *)
(* single characters and comment marks the parser looks for, a space, a    *)
(* line end, and text that only occurs inside comments.  The parser is     *)
(* recursive: parse() calls parse_block() after a "{" and checks for the   *)
(* "}" when it returns; blocks holds the calls in progress.                *)
(*                                                                         *)
(* The writer writes entries the way the manual page describes them and    *)
(* remembers the tree it means; where it may end a line, leave spaces or   *)
(* put comments it does either.                                            *)
(***************************************************************************)
EXTENDS Naturals, Sequences

CONSTANTS
  Keys,       \* Keys[n]: <<key, value>> of the entries at nesting depth n - 1,
              \* value <<>> for none
  Blocks,     \* the keys that open a block
  Word,       \* lexemes made of characters of keys
  Styles,     \* subset of AllStyles: how the entries of a file may be written
  MaxEntries, \* bound: entries in a file
  MaxDepth    \* nesting depth of the files

VARIABLES
  style,      \* the style of the file
  text,       \* the file
  entries,    \* number of entries written
  meant,      \* the writer's open blocks, outermost first
  pc,         \* "write", "parse", "accepted", "rejected", "unreadable",
              \* "read"
  pos,        \* how far the parser is
  blocks      \* its open blocks, outermost first

parserVars == <<style, text, entries, meant, pc, pos, blocks>>

\* What is written is text; the end of the file is not part of a word.
ASSUME ParserAssumption ==
  /\ Styles \subseteq [sep : Seq(STRING), quoted : BOOLEAN, end : Seq(STRING)]
  /\ \A n \in DOMAIN Keys : Keys[n] \subseteq STRING \X Seq(STRING)
  /\ "end" \notin Word

\* A conf object: its key in the map of its parent, _value, and _map in order of
\* insertion.  A block that is not closed yet has the same form.
Conf(k, v, m) == [key |-> k, value |-> v, map |-> m]
Nil == Conf(<<>>, <<>>, <<>>)

ParserInit ==
  /\ style \in Styles
  /\ text = <<>>
  /\ entries = 0
  /\ meant = <<Nil>>
  /\ pc = "write"
  /\ pos = 1
  /\ blocks = <<Nil>>

\* The innermost block with one more entry; the innermost block as an entry of
\* the one around it.
AddTo(bs, e) == [bs EXCEPT ![Len(bs)].map = Append(@, e)]
CloseLast(bs) == AddTo(SubSeq(bs, 1, Len(bs) - 1), bs[Len(bs)])

-----------------------------------------------------------------------------
(***************************************************************************)
(* The writer.  A style is what comes between key and value, whether the   *)
(* value is quoted, and what follows the entry.  A quoted value ends its   *)
(* line (see the README for what the parser makes of one that does not).   *)
(***************************************************************************)
AllStyles ==
  {[sep |-> <<"sp">>, quoted |-> FALSE, end |-> <<"nl">>],
   [sep |-> <<"sp", "=", "sp">>, quoted |-> FALSE, end |-> <<"sp", "#", "note", "{", "nl">>],
   [sep |-> <<"=">>, quoted |-> FALSE, end |-> <<"sp">>],
   [sep |-> <<"sp", "/*", "note", "nl", "*/">>, quoted |-> FALSE,
    end |-> <<"sp", "//", "}", "nl">>],
   [sep |-> <<"sp">>, quoted |-> TRUE, end |-> <<"nl">>]}

Quoted(v) ==
  IF style.quoted /\ v # <<>> THEN <<"quote">> \o v \o <<"quote">> ELSE v

\* An entry without a value must end its line, or the next word is its value.
Ends(v) == IF v = <<>> /\ style.end = <<"sp">> THEN <<"nl">> ELSE style.end

Between(v) == IF v = <<>> THEN <<>> ELSE style.sep

Write(k, v) ==
  /\ pc = "write" /\ entries < MaxEntries
  /\ <<k, v>> \in Keys[Len(meant)]
  /\ k \notin Blocks
  /\ text' = text \o <<k>> \o Between(v) \o Quoted(v) \o Ends(v)
  /\ entries' = entries + 1
  /\ meant' = AddTo(meant, Conf(<<k>>, v, <<>>))
  /\ UNCHANGED <<style, pc, pos, blocks>>

\* The value in front of a block is not quoted.
Open(k, v) ==
  /\ pc = "write" /\ entries < MaxEntries
  /\ <<k, v>> \in Keys[Len(meant)]
  /\ k \in Blocks /\ Len(meant) <= MaxDepth
  /\ text' = text \o <<k>> \o Between(v) \o v \o <<"sp", "{">> \o style.end
  /\ entries' = entries + 1
  /\ meant' = Append(meant, Conf(<<k>>, v, <<>>))
  /\ UNCHANGED <<style, pc, pos, blocks>>

Close ==
  /\ pc = "write" /\ Len(meant) > 1
  /\ text' = text \o <<"}", "nl">>
  /\ meant' = CloseLast(meant)
  /\ UNCHANGED <<style, entries, pc, pos, blocks>>

\* The file is finished, possibly with blocks that were never closed.
Load ==
  /\ pc = "write"
  /\ pc' = "parse"
  /\ UNCHANGED <<style, text, entries, meant, pos, blocks>>

-----------------------------------------------------------------------------
(***************************************************************************)
(* conf::skip.  Positions are those of the pointer into the text.          *)
(***************************************************************************)
At(n) == IF n <= Len(text) THEN text[n] ELSE "end"

\* The first position from n on of a lexeme outside C, inside C.
Past(n, C) ==
  CHOOSE m \in n .. Len(text) + 1 : At(m) \notin C /\ \A k \in n .. m - 1 : At(k) \in C
Seek(n, C) ==
  CHOOSE m \in n .. Len(text) + 1 :
    At(m) \in C \cup {"end"} /\ \A k \in n .. m - 1 : At(k) \notin C

Blank(newlines) == IF newlines THEN {"sp", "nl"} ELSE {"sp"}

\* Mutant: a comment ends the blanks.
skip_blanks(n, newlines) == Past(n, Blank(newlines))

\* Blanks and comments; a comment to the end of the line leaves the line end.
skip(n, newlines) ==
  LET from[k \in 1 .. Len(text) + 1] ==
        LET m == Past(k, Blank(newlines))
        IN  CASE At(m) \in {"#", "//"} -> from[Seek(m, {"nl"})]
              [] At(m) = "/*" -> LET e == Seek(m, {"*/"})
                                 IN  from[IF At(e) = "end" THEN e ELSE e + 1]
              [] OTHER -> m
  IN  from[n]

-----------------------------------------------------------------------------
(***************************************************************************)
(* conf::parse_block and conf::parse.                                      *)
(***************************************************************************)
\* Mutant: the opening quote is taken for the closing one.
ValueEnd_opening(n) ==
  IF At(n) = "quote" THEN Seek(n, {"quote", "nl"})
  ELSE Seek(n, {"sp", "nl", "{", "}"})

\* The end of the value at n.  A quoted one ends at the other quote, which is not
\* consumed, or with the line.
ValueEnd(n) ==
  IF At(n) = "quote" THEN Seek(n + 1, {"quote", "nl"})
  ELSE Seek(n, {"sp", "nl", "{", "}"})
Value(n) == SubSeq(text, IF At(n) = "quote" THEN n + 1 ELSE n, ValueEnd(n) - 1)

\* Behind the key that ends at n: blanks and one "=".
ValueStart(n) ==
  LET m == skip(n, FALSE) IN IF At(m) = "=" THEN skip(m + 1, FALSE) ELSE m

\* conf::load: the file cannot be opened.
Unreadable ==
  /\ pc = "parse" /\ pos = 1 /\ blocks = <<Nil>>
  /\ pc' = "unreadable"
  /\ text' = <<>>
  /\ UNCHANGED <<style, entries, meant, pos, blocks>>

\* The loop of parse_block up to the value of the next entry: it is put into the
\* map, or parse() goes on with its block.
ParseEntry ==
  /\ pc = "parse"
  /\ \E key \in {skip(pos, TRUE)} :
       /\ At(key) \notin {"}", "end"}
       /\ \E end \in {Past(key, Word)} : \E val \in {ValueStart(end)} :
          \E rest \in {skip(ValueEnd(val), FALSE)} :
            LET e == Conf(SubSeq(text, key, end - 1), Value(val), <<>>)
            IN  IF At(rest) = "{"
                THEN pos' = rest + 1 /\ blocks' = Append(blocks, e)
                ELSE pos' = rest /\ blocks' = AddTo(blocks, e)
  /\ UNCHANGED <<style, text, entries, meant, pc>>

\* parse_block returns to load(), which does not look at what is left.
ParseAccept ==
  /\ pc = "parse"
  /\ Len(blocks) = 1
  /\ At(skip(pos, TRUE)) \in {"}", "end"}
  /\ pc' = "accepted"
  /\ text' = <<>> /\ pos' = 1
  /\ UNCHANGED <<style, entries, meant, blocks>>

\* It returns to parse(), which expects a "}" ...
ParseClose ==
  LET n == skip(pos, TRUE)
  IN  /\ pc = "parse"
      /\ Len(blocks) > 1
      /\ At(n) = "}"
      /\ pos' = n + 1
      /\ blocks' = CloseLast(blocks)
      /\ UNCHANGED <<style, text, entries, meant, pc>>

\* ... and otherwise fails, and with it all the calls around it.
ParseReject ==
  /\ pc = "parse"
  /\ Len(blocks) > 1
  /\ At(skip(pos, TRUE)) = "end"
  /\ pc' = "rejected"
  /\ text' = <<>> /\ pos' = 1
  /\ UNCHANGED <<style, entries, meant, blocks>>

Writer ==
  \/ \E n \in DOMAIN Keys : \E e \in Keys[n] : Write(e[1], e[2]) \/ Open(e[1], e[2])
  \/ Close

Parser == Unreadable \/ ParseEntry \/ ParseAccept \/ ParseClose \/ ParseReject

-----------------------------------------------------------------------------
(***************************************************************************)
(* Properties.                                                             *)
(***************************************************************************)
\* The parser gets through the file: every turn of its loop consumes something
\* (parse_block).
ParseProgress ==
  [][pc = "parse" /\ pc' = "parse" => pos' > pos]_parserVars
=============================================================================
