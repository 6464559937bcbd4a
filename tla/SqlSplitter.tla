---------------------------- MODULE SqlSplitter ----------------------------
(***************************************************************************)
(* How a migration file becomes the statements that are sent one by one:   *)
(* the scanner, and the test that drops the pieces without a command.      *)
(*                                                                         *)
(* A script is a sequence of tokens and what the scanner reads are their   *)
(* characters.  A token is one of SQL as the migrations write it; literals *)
(* with backslashes, quoted identifiers with a semicolon and block         *)
(* comments, of which the scanner knows nothing, do not occur in them.     *)
(***************************************************************************)
EXTENDS Integers, SequencesExt

CONSTANTS
  Letters,      \* the characters a tag may be made of
  Signs,        \* those that mean nothing to the scanner
  Scripts       \* the sequences of tokens

Blank == " "
NewLine == "n"
Quote == "'"
Dollar == "$"
Dash == "-"
Semicolon == ";"

Special == {Blank, NewLine, Quote, Dollar, Dash, Semicolon}
Chars == Letters \union Signs \union Special

ASSUME LettersAssumption == Letters \intersect (Signs \union Special) = {} /\ Signs \intersect Special = {}

\* A delimiter: two dollar signs, with letters or nothing between them.
Delimiter(s) ==
  /\ Len(s) > 1 /\ s[1] = Dollar /\ s[Len(s)] = Dollar
  /\ \A k \in 2..Len(s) - 1 : s[k] \in Letters

Boundary == <<Semicolon>>
Spaces == {<<Blank>>, <<NewLine>>}
IsComment(t) == Len(t) > 1 /\ t[1] = Dash /\ t[2] = Dash /\ \A k \in DOMAIN t : t[k] # NewLine

\* A quote within a literal is doubled, which makes it two literals, one after the other.
IsLiteral(t) == Len(t) > 1 /\ \A k \in DOMAIN t : t[k] = Quote <=> k \in {1, Len(t)}

\* A block ends where its delimiter comes up again.
DelimitedBy(t, d) ==
  /\ Delimiter(d) /\ Len(t) >= 2 * Len(d) /\ SubSeq(t, 1, Len(d)) = d
  /\ \A k \in Len(d) + 1..Len(t) - Len(d) + 1 :
       SubSeq(t, k, k + Len(d) - 1) = d <=> k = Len(t) - Len(d) + 1
IsBlock(t) == \E m \in DOMAIN t : DelimitedBy(t, SubSeq(t, 1, m))

IsSymbol(t) == Len(t) = 1 /\ t[1] \in Letters \union Signs \union {Dash, Dollar}

Tokens ==
  {t \in Seq(Chars) : t = Boundary \/ t \in Spaces \/ IsComment(t) \/ IsLiteral(t) \/ IsBlock(t) \/ IsSymbol(t)}

\* A comment goes on to the end of its line; dashes and dollar signs of two tokens in a
\* row would be another token, as would a letter and a dollar sign.
WellFormed(tokens) ==
  \A i \in DOMAIN tokens \ {1} :
    LET last == tokens[i - 1]
        next == Head(tokens[i])
    IN /\ IsComment(last) => tokens[i] = <<NewLine>>
       /\ last = <<Dash>> => next # Dash
       /\ last = <<Dollar>> => next \notin Letters \union {Dollar}
       /\ IsSymbol(last) /\ last[1] \in Letters => next # Dollar

ASSUME ScriptsAssumption == \A s \in Scripts : s \in Seq(Tokens) /\ WellFormed(s)

VARIABLES
  script,
  pos,           \* the place of the next character
  quoted,        \* inside a literal
  tag,           \* the delimiter of the block one is inside
  buf,           \* the statement so far
  statements,
  scanning

splitVars == <<script, pos, quoted, tag, buf, statements, scanning>>

NoTag == <<>>

SplitInit ==
  /\ script \in Scripts
  /\ pos = 1 /\ quoted = FALSE /\ tag = NoTag /\ buf = <<>> /\ statements = <<>>
  /\ scanning = TRUE
-----------------------------------------------------------------------------
Text == FlattenSeq(script)
Rest == SubSeq(Text, pos, Len(Text))
Ahead(s) == IsPrefix(s, Rest)

Strip(s) ==
  LET solid == {i \in DOMAIN s : s[i] \notin {Blank, NewLine}}
  IN IF solid = {} THEN <<>> ELSE SubSeq(s, Min(solid), Max(solid))

\* The characters of a piece go to the statement.
Copy(s) == buf' = buf \o s /\ pos' = pos + Len(s)

ScanBlock ==
  /\ tag # NoTag
  /\ IF Ahead(tag) THEN Copy(tag) /\ tag' = NoTag ELSE Copy(<<Head(Rest)>>) /\ UNCHANGED tag
  /\ UNCHANGED <<quoted, statements>>

ScanLiteral ==
  /\ tag = NoTag /\ quoted
  /\ IF Ahead(<<Quote, Quote>>) THEN Copy(<<Quote, Quote>>) /\ UNCHANGED quoted
     ELSE Copy(<<Head(Rest)>>) /\ quoted' = (Head(Rest) # Quote)
  /\ UNCHANGED <<tag, statements>>

Outside == tag = NoTag /\ ~quoted

OpenLiteral ==
  /\ Outside /\ Ahead(<<Quote>>)
  /\ Copy(<<Quote>>) /\ quoted' = TRUE
  /\ UNCHANGED <<tag, statements>>

OpenBlock ==
  /\ Outside
  /\ \E m \in DOMAIN Rest :
       LET d == SubSeq(Rest, 1, m)
       IN Delimiter(d) /\ Copy(d) /\ tag' = d
  /\ UNCHANGED <<quoted, statements>>

\* Fault: the line goes on like any other after the dashes.
CopyCommentDashes ==
  /\ Outside /\ Ahead(<<Dash, Dash>>)
  /\ Copy(<<Dash, Dash>>)
  /\ UNCHANGED <<quoted, tag, statements>>

CopyComment ==
  /\ Outside /\ Ahead(<<Dash, Dash>>)
  /\ \E n \in 1..Len(Rest) :
       /\ \A k \in 1..n : Rest[k] # NewLine
       /\ n < Len(Rest) => Rest[n + 1] = NewLine
       /\ Copy(SubSeq(Rest, 1, n))
  /\ UNCHANGED <<quoted, tag, statements>>

Emitted == IF Strip(buf) = <<>> THEN statements ELSE Append(statements, Strip(buf))

EndStatement ==
  /\ Outside /\ Ahead(Boundary)
  /\ statements' = Emitted /\ buf' = <<>> /\ pos' = pos + 1
  /\ UNCHANGED <<quoted, tag>>

CopyOther ==
  /\ Outside
  /\ \A s \in {<<Quote>>, <<Dash, Dash>>, Boundary} : ~Ahead(s)
  /\ \A m \in DOMAIN Rest : ~Delimiter(SubSeq(Rest, 1, m))
  /\ Copy(<<Head(Rest)>>)
  /\ UNCHANGED <<quoted, tag, statements>>

Scan ==
  /\ Rest # <<>>
  /\ \/ ScanBlock \/ ScanLiteral \/ OpenLiteral \/ OpenBlock
     \/ CopyComment \/ EndStatement \/ CopyOther
  /\ UNCHANGED <<script, scanning>>

\* The pieces run_migrations sends: not those whose every line is blank or a comment.
LineStarts(s) == {1} \union {i \in DOMAIN s : i > 1 /\ s[i - 1] = NewLine}
LineFrom(s, i) ==
  Strip(SubSeq(s, i, Max({k \in i..Len(s) : \A l \in i..k : s[l] # NewLine} \union {i - 1})))
OnlyComments(s) ==
  \A i \in LineStarts(s) :
    LineFrom(s, i) = <<>> \/ IsPrefix(<<Dash, Dash>>, LineFrom(s, i))

Sent(pieces) ==
  LET sent[n \in 0..Len(pieces)] ==
        IF n = 0 THEN <<>>
        ELSE IF OnlyComments(pieces[n]) THEN sent[n - 1]
        ELSE Append(sent[n - 1], pieces[n])
  IN sent[Len(pieces)]

Finish ==
  /\ scanning /\ Rest = <<>>
  /\ scanning' = FALSE
  /\ statements' = Sent(Emitted)
  /\ UNCHANGED <<script, pos, quoted, tag, buf>>

SplitNext == Scan \/ Finish

SplitSpec == SplitInit /\ [][SplitNext]_splitVars
-----------------------------------------------------------------------------
SplitTypeOK ==
  /\ script \in Scripts /\ pos \in 1..Len(Text) + 1
  /\ quoted \in BOOLEAN /\ scanning \in BOOLEAN
  /\ tag \in Seq(Chars) /\ (tag = NoTag \/ Delimiter(tag))
  /\ buf \in Seq(Chars) /\ statements \in Seq(Seq(Chars))

\* The tokens between two boundaries, and whether there is a command among them.
Bounds == {0, Len(script) + 1} \union {i \in DOMAIN script : script[i] = Boundary}
Group(b) == SubSeq(script, b + 1, Min({c \in Bounds : c > b}) - 1)
HasCommand(g) == \E i \in DOMAIN g : ~IsComment(g[i]) /\ g[i] \notin Spaces
Commands == {b \in Bounds \ {Len(script) + 1} : HasCommand(Group(b))}

\* The pieces are the groups that follow the boundaries of B, each whole and in their order.
AreGroups(pieces, B) ==
  \E order \in [DOMAIN pieces -> B] :
    /\ \A k, l \in DOMAIN order : k < l => order[k] < order[l]
    /\ \A b \in B : \E k \in DOMAIN order : order[k] = b
    /\ \A k \in DOMAIN order : pieces[k] = Strip(FlattenSeq(Group(order[k])))

\* What is sent are the commands of the script, each whole and in their order: a semicolon
\* inside a literal, a block or a comment is no boundary, and comments alone are not sent.
SplitsAtBoundaries == ~scanning => AreGroups(statements, Commands)
=============================================================================
