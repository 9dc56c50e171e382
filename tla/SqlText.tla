------------------------------ MODULE SqlText ------------------------------
(***************************************************************************)
(* How the console's editor reads the SQL in it (SqlEditor.tsx): which     *)
(* statement the cursor is in, whether the cursor is inside a string or a  *)
(* comment, and the tokens the statement is made of.  The code has three   *)
(* scanners for this; they have to agree on every text the user types.     *)
(*                                                                         *)
(* A letter stands for every character no scanner tells from another, and  *)
(* "tick", the backtick, also for the double quote, read in the same way.  *)
(* Square brackets are left out: tokenizeSql alone takes them for quotes,  *)
(* and MySQL has no use for them.                                          *)
(* Cursor c stands behind the c-th character of the text.                  *)
(***************************************************************************)
EXTENDS Integers, Sequences, SequencesExt, FiniteSetsExt

CONSTANTS Alphabets,   \* sets of characters a text is typed from
          MaxText      \* bound: length of the text

VARIABLES alphabet,    \* the characters this text is typed from
          text         \* the text in the editor

Newline == "NL"
Quotes == {"'", "tick"}
Cursors == 0..Len(text)

At(s, i) == IF i \in 1..Len(s) THEN s[i] ELSE ""
Pair(s, i) == <<At(s, i), At(s, i + 1)>>

----------------------------------------------------------------------------
(* The loop of extractCurrentStatement and isInsideQuotedRegion: a mode,   *)
(* which is "code", a comment or the quote that is open.                   *)

\* one turn of the loop at character i: the mode after it, and the character it goes on with
Turn(s, i, mode) ==
  LET Go(m, n) == [mode |-> m, next |-> i + n]
  IN CASE mode = "line" -> Go(IF s[i] = Newline THEN "code" ELSE mode, 1)
       [] mode = "block" -> IF Pair(s, i) = <<"*", "/">> THEN Go("code", 2) ELSE Go(mode, 1)
       [] mode \in Quotes /\ s[i] # mode -> Go(mode, 1)
       [] mode \in Quotes /\ s[i] = mode ->
            IF At(s, i + 1) = mode THEN Go(mode, 2) ELSE Go("code", 1)
       [] mode = "code" /\ Pair(s, i) = <<"-", "-">> -> Go("line", 2)
       [] mode = "code" /\ s[i] = "#" -> Go("line", 1)
       [] mode = "code" /\ Pair(s, i) = <<"/", "*">> -> Go("block", 2)
       [] mode = "code" /\ s[i] \in Quotes -> Go(s[i], 1)
       [] OTHER -> Go("code", 1)

\* the parentheses open after character i, when it is code
Nesting(c, n) == IF c = "(" THEN n + 1 ELSE IF c = ")" /\ n > 0 THEN n - 1 ELSE n

\* the loop over the first c characters; it may look at the one behind them
Loop(s, c) ==
  FoldLeft(LAMBDA acc, i :
             IF i < acc.next THEN acc
             ELSE LET t == Turn(s, i, acc.mode)
                      code == acc.mode = "code" /\ t.mode = "code"
                  IN [mode |-> t.mode, next |-> t.next,
                      nesting |-> IF code THEN Nesting(s[i], acc.nesting) ELSE acc.nesting,
                      cuts |-> IF code /\ s[i] = ";" /\ acc.nesting = 0
                               THEN acc.cuts \cup {i} ELSE acc.cuts],
           [mode |-> "code", next |-> 1, nesting |-> 0, cuts |-> {}], [i \in 1..c |-> i])

isInsideQuotedRegion(s, c) == Loop(s, c).mode # "code"

\* the statement the cursor is in: the characters after `from` and before `to`
extractCurrentStatement(s, c) ==
  LET cuts == Loop(s, Len(s)).cuts
  IN [from |-> Max({0} \cup {i \in cuts : i <= c}),
      to |-> Min({Len(s) + 1} \cup {i \in cuts : i > c})]
StatementText(s, st) == SubSeq(s, st.from + 1, st.to - 1)

----------------------------------------------------------------------------
(* tokenizeSql.  A token is the characters from `from` to before `to`;     *)
(* comments, which the code skips, are kept here as lexemes of their own.  *)

readUntilLineEnd(s, i) == Min({Len(s) + 1} \cup {j \in i..Len(s) : s[j] = Newline})

readUntilBlockCommentEnd(s, i) ==
  Min({Len(s) + 1} \cup {j + 2 : j \in {k \in i..Len(s) : Pair(s, k) = <<"*", "/">>}})

\* Slip: a doubled quote ends the string
readQuotedWithoutEscape(s, i, q) == Min({Len(s) + 1} \cup {j + 1 : j \in {k \in i + 1..Len(s) : s[k] = q}})

readQuoted(s, i, q) ==
  LET end[j \in i + 1..Len(s) + 1] ==
        CASE j > Len(s) -> j
          [] j <= Len(s) /\ Pair(s, j) = <<q, q>> -> end[j + 2]
          [] j <= Len(s) /\ s[j] = q /\ At(s, j + 1) # q -> j + 1
          [] OTHER -> end[j + 1]
  IN end[i + 1]

\* the first character that does not continue a word begun at i
WordEnd(s, i) == Min({Len(s) + 1} \cup {j \in i..Len(s) : s[j] # "x"})

\* the lexeme that begins at character i
LexemeAt(s, i) ==
  LET Is(kind, to) == [kind |-> kind, from |-> i, to |-> to]
  IN CASE s[i] = Newline -> Is("blank", i + 1)
       [] Pair(s, i) = <<"-", "-">> -> Is("line", readUntilLineEnd(s, i + 2))
       [] s[i] = "#" -> Is("line", readUntilLineEnd(s, i + 1))
       [] Pair(s, i) = <<"/", "*">> -> Is("block", readUntilBlockCommentEnd(s, i + 2))
       [] s[i] \in Quotes -> Is("quoted", readQuoted(s, i, s[i]))
       [] s[i] = "x" -> Is("word", WordEnd(s, i))
       [] OTHER -> Is(s[i], i + 1)

Lexemes(s) ==
  FoldLeft(LAMBDA ls, i : IF ls # <<>> /\ i < ls[Len(ls)].to THEN ls
                          ELSE Append(ls, LexemeAt(s, i)),
           <<>>, [i \in 1..Len(s) |-> i])

tokenizeSql(s) == SelectSeq(Lexemes(s), LAMBDA l : l.kind \notin {"blank", "line", "block"})

----------------------------------------------------------------------------

Init == alphabet \in Alphabets /\ text = <<>>

\* the user types; every text over the alphabet is reached
Type(c) ==
  /\ Len(text) < MaxText
  /\ text' = Append(text, c) /\ UNCHANGED alphabet

Next == \E c \in alphabet : Type(c)

----------------------------------------------------------------------------

\* Type invariant.
TextTypeOK == alphabet \in Alphabets /\ text \in Seq(alphabet)

\* The cursor is inside a quoted token or a comment, as the tokens have it: a quoted token or a
\* block comment that would go on if the text did, and a line comment, hold the cursor behind them.
InsideLexeme(s, c) ==
  \E i \in DOMAIN Lexemes(s) :
    LET l == Lexemes(s)[i]
        ended == l.kind # "line" /\ LexemeAt(Append(s, "x"), l.from).to = l.to
    IN /\ l.kind \in {"quoted", "line", "block"}
       /\ c \in l.from..(IF ended THEN l.to - 2 ELSE l.to - 1)

\* No completion is offered inside a string or comment, and none is withheld outside of one:
\* isInsideQuotedRegion and tokenizeSql agree at every cursor but the one between the two
\* characters that end a block comment, where the former has already left it.
QuotesAgree ==
  \A c \in Cursors :
    \/ isInsideQuotedRegion(text, c) <=> InsideLexeme(text, c)
    \/ /\ Pair(text, c) = <<"*", "/">>
       /\ \E i \in DOMAIN Lexemes(text) : Lexemes(text)[i].kind = "block" /\ Lexemes(text)[i].to = c + 2

\* Statements are cut where the tokens have a semicolon outside parentheses.
CutsAgree ==
  LET ts == tokenizeSql(text)
      depth == FoldLeft(LAMBDA acc, t : Append(acc, Nesting(t.kind, acc[Len(acc)])), <<0>>, ts)
      cuts == {ts[i].from : i \in {j \in DOMAIN ts : ts[j].kind = ";" /\ depth[j] = 0}}
  IN \A c \in Cursors :
       LET st == extractCurrentStatement(text, c)
       IN /\ st.from \in cuts \cup {0} /\ st.to \in cuts \cup {Len(text) + 1}
          /\ cuts \cap (st.from + 1..st.to - 1) = {} /\ c \in st.from..st.to - 1

\* A statement read by itself has the tokens it has in the whole text.
StatementReadsAlone ==
  \A c \in Cursors :
    LET st == extractCurrentStatement(text, c)
        Inside(t) == t.from > st.from /\ t.to <= st.to
    IN [i \in DOMAIN tokenizeSql(StatementText(text, st)) |->
          LET t == tokenizeSql(StatementText(text, st))[i]
          IN [t EXCEPT !.from = @ + st.from, !.to = @ + st.from]]
       = SelectSeq(tokenizeSql(text), Inside)

\* The three scanners of the editor read every text alike: what is quoted or commented out,
\* where a statement begins and ends, and the tokens it has.
ScannersAgree == QuotesAgree /\ CutsAgree /\ StatementReadsAlone
=============================================================================
