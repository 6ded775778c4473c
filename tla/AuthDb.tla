------------------------------- MODULE AuthDb -------------------------------
(***************************************************************************)
(* The file of users and password hashes, src/authdb.c: the lexer, the     *)
(* parser, the table they fill at start-up, and the search in it.          *)
(*                                                                         *)
(* The lexer is about single octets, so the file is a sequence of them.    *)
(* An octet stands for its class: " " for all white space but the newline, *)
(* "n" for itself and the other letters that mean a control character      *)
(* behind a backslash, and "md5" for the three letters of that keyword.    *)
(* Positions are counted from 0, as in the code: position i is src[i + 1]. *)
(* An action is one call of a lexer function, or what parse_top does with  *)
(* one token.  line and col are used by messages only and left out.        *)
(***************************************************************************)
EXTENDS Integers, Sequences, FiniteSets

CONSTANTS Lines,     \* what a file may be made of, see below
          MaxLines,  \* bound: pieces in a file
          Users      \* the user names that are looked up

NL   == "nl"
NUL  == "nul"
BS   == "bs"
Char == {"a", "b", "n", "md5", " ", NL, "#", "'", "dq", BS, NUL}

Space == {" ", NL}
Quote == {"'", "dq"}

\* A line has its octets, and says what its author means by it: an entry, or
\* nothing (a comment, an empty line), if it is a proper line that ends with a
\* newline.  Other pieces of text are not clean.
ASSUME AuthDbAssumption ==
    /\ \A l \in Lines : l.text \in Seq(Char) /\ l.clean \in BOOLEAN
    /\ MaxLines \in Nat

VARIABLES
    pc,       \* what the supervisor is doing
    file,     \* the lines of the file
    src,      \* l->src, as far as it was read
    pos,      \* l->pos
    start,    \* l->start
    f,        \* l->f
    tok,      \* the token l->f returned
    want,     \* which of t1, t2, t3 parse_top is waiting for
    user,     \* its local user
    entries,  \* p->entries, the newest first
    table     \* authdb.usernames and authdb.md5hashes

authVars == <<pc, file, src, pos, start, f, tok, want, user, entries, table>>
lexer    == <<src, pos, start, f>>
parser   == <<want, user, entries>>

max == Len(src)

None     == [type |-> "NONE", text |-> <<>>]
Token(t) == [type |-> t, text |-> <<>>]

AuthInit ==
    /\ pc = "load" /\ file = <<>>
    /\ src = <<>> /\ pos = 0 /\ start = 0 /\ f = "any" /\ tok = None
    /\ want = 1 /\ user = <<>> /\ entries = <<>> /\ table = <<>>

-----------------------------------------------------------------------------
(* The lexer. *)

\* lexer_init(): the loop of fread calls.
Load(l) ==
    /\ pc = "load" /\ Len(file) < MaxLines
    /\ file' = Append(file, l) /\ src' = src \o l.text
    /\ UNCHANGED <<pc, pos, start, f, tok, parser, table>>

Loaded ==
    /\ pc = "load"
    /\ pc' = "emit"
    /\ UNCHANGED <<file, lexer, tok, parser, table>>

\* The file cannot be opened: start-up fails.
LoadFails ==
    /\ pc = "load" /\ file = <<>>
    /\ pc' = "failed"
    /\ UNCHANGED <<file, lexer, tok, parser, table>>

\* The first position from p on with an octet of S, or the end.
First(p, S) ==
    CHOOSE e \in p..max :
        /\ e = max \/ src[e + 1] \in S
        /\ \A i \in p..(e - 1) : src[i + 1] \notin S

\* Mutant: the end of the source is not looked at.
ReadUnchecked(e) == e + 1

\* next(), at e: the position behind e, but the end is never passed.
Read(e) == IF e < max THEN e + 1 ELSE e

\* The call of l->f returns a token; emit calls it again if that is T_RESTART.
Emit(t) ==
    /\ pc' = IF t.type = "RESTART" THEN "emit" ELSE "token"
    /\ tok' = t
    /\ UNCHANGED <<file, src, parser, table>>

\* lex_any(): blanks are skipped, the first other octet decides; the end of the
\* file, or a zero octet, ends the lexer.
LexAny ==
    /\ pc = "emit" /\ f = "any"
    /\ LET e == First(pos, Char \ {" "})
           c == IF e < max THEN src[e + 1] ELSE NUL
       IN /\ pos' = Read(e)
          /\ start' = IF c \in {NL, "#"} THEN pos' ELSE e
          /\ f' = CASE c = NUL       -> "NULL"
                    [] c = NL        -> "any"
                    [] c = "#"       -> "comment"
                    [] c \in Quote   -> "qstring"
                    [] OTHER         -> "bareword"
          /\ Emit(Token(CASE c = NUL -> "EOS" [] c = NL -> "NEWLINE" [] OTHER -> "RESTART"))

\* lex_bareword(): up to the next white space.  backup() undoes a next() that
\* at the end of the file did not move.
LexBareword ==
    /\ pc = "emit" /\ f = "bareword"
    /\ LET e == First(pos, Space \union {NUL})
           p == Read(e) - 1
       IN /\ pos' = p /\ start' = p
          /\ Emit([type |-> "WORD", text |-> SubSeq(src, start + 1, p)])
    /\ f' = "any"

\* Is the i-th octet of s behind a backslash that is not itself escaped?
Escaped(s, i) ==
    \E k \in 1..i :
        /\ (i - k) % 2 = 1
        /\ \A j \in k..(i - 1) : s[j] = BS
        /\ k = 1 \/ s[k - 1] # BS

\* lex_qstring(): up to the same quote again; a string that does not end is an
\* error.  src[pos] is the octet lex_any has just read.
LexQstring ==
    /\ pc = "emit" /\ f = "qstring"
    /\ LET s     == SubSeq(src, pos + 1, max)
           stops == {i \in 1..Len(s) : s[i] \in {src[pos], NUL} /\ ~Escaped(s, i)}
           e     == IF stops = {} THEN Len(s) ELSE CHOOSE i \in stops : \A j \in stops : i <= j
           ends  == stops # {} /\ s[e] # NUL
       IN /\ pos' = pos + e
          /\ start' = IF ends THEN pos' ELSE start
          /\ Emit(IF ends THEN [type |-> "QSTRING", text |-> SubSeq(src, start + 1, pos')]
                          ELSE Token("ERROR"))
    /\ f' = "any"

\* lex_comment(): the newline at its end is swallowed with it.
LexComment ==
    /\ pc = "emit" /\ f = "comment"
    /\ pos' = Read(First(pos, {NL, NUL})) /\ start' = pos'
    /\ f' = "any"
    /\ Emit(Token("RESTART"))

-----------------------------------------------------------------------------
(* The parser. *)

\* A string of C ends at its first zero octet.
CString(s) == SubSeq(s, 1, (CHOOSE i \in 1..(Len(s) + 1) :
                               /\ i = Len(s) + 1 \/ s[i] = NUL
                               /\ \A j \in 1..(i - 1) : s[j] # NUL) - 1)

Control(c) == IF c = "n" THEN NL ELSE c

\* The j-th number of a set, in their order.
Nth(K, j) == CHOOSE i \in K : Cardinality({k \in K : k < i}) = j - 1

\* as_string(): quotes and backslashes are taken off.
as_string(t) ==
    IF t.type = "WORD" THEN t.text
    ELSE LET s     == SubSeq(t.text, 2, Len(t.text) - 1)
             kept  == {i \in 1..Len(s) : Escaped(s, i) \/ s[i] # BS}
             at(j) == Nth(kept, j)
         IN CString([j \in 1..Cardinality(kept) |->
                        IF Escaped(s, at(j)) THEN Control(s[at(j)]) ELSE s[at(j)]])

IsString(t) == t.type \in {"WORD", "QSTRING"}

\* parse_top() asks for its n-th token, or is called again for the first.
Ask(n) == pc' = "emit" /\ want' = n
\* p->f = NULL: parse() returns 0, also after an error.
StopParse == pc' = "parsed" /\ UNCHANGED want

\* t1: the user.
ParseUser ==
    /\ pc = "token" /\ want = 1
    /\ user' = IF IsString(tok) THEN as_string(tok) ELSE user
    /\ CASE tok.type = "NEWLINE" -> Ask(1)
         [] IsString(tok)        -> Ask(2)
         [] OTHER                -> StopParse
    /\ UNCHANGED <<file, lexer, tok, entries, table>>

\* Mutants: an account of another type is skipped; the end of the file is not
\* expected here.
ParseTypeSkips ==
    /\ pc = "token" /\ want = 2
    /\ CASE tok.type = "WORD" /\ as_string(tok) = <<"md5">> -> Ask(3)
         [] tok.type \in {"QSTRING", "WORD"} /\ as_string(tok) # <<"md5">> -> Ask(1)
         [] OTHER -> StopParse
    /\ UNCHANGED <<file, lexer, tok, user, entries, table>>
ParseTypeMissesEos ==
    /\ pc = "token" /\ want = 2
    /\ CASE tok.type = "WORD" /\ as_string(tok) = <<"md5">> -> Ask(3)
         [] tok.type \in {"QSTRING", "EOS"}                 -> Ask(1)
         [] OTHER                                           -> StopParse
    /\ UNCHANGED <<file, lexer, tok, user, entries, table>>

\* t2: the keyword md5.  A quoted string is none of the cases of the switch, and
\* parse_top returns as if the line had been complete.
ParseType ==
    /\ pc = "token" /\ want = 2
    /\ CASE tok.type = "WORD" /\ as_string(tok) = <<"md5">> -> Ask(3)
         [] tok.type = "QSTRING"                            -> Ask(1)
         [] OTHER                                           -> StopParse
    /\ UNCHANGED <<file, lexer, tok, user, entries, table>>

\* t3: the hash; new_entry puts the entry in front of the list.
ParseHash ==
    /\ pc = "token" /\ want = 3
    /\ IF IsString(tok)
       THEN /\ entries' = <<[user |-> user, hash |-> as_string(tok)]>> \o entries
            /\ Ask(1)
       ELSE StopParse /\ UNCHANGED entries
    /\ UNCHANGED <<file, lexer, tok, user, table>>

\* Mutant: the arrays are filled from their beginning.
InstallForward ==
    /\ pc = "parsed"
    /\ pc' = "ready"
    /\ table' = entries
    /\ UNCHANGED <<file, lexer, tok, parser>>

\* pgr_authdb(): the list is moved into the arrays, from their end.
Install ==
    /\ pc = "parsed"
    /\ pc' = "ready"
    /\ table' = [i \in 1..Len(entries) |-> entries[Len(entries) + 1 - i]]
    /\ UNCHANGED <<file, lexer, tok, parser>>

\* The entries for u.
Entries(u) == {i \in 1..Len(table) : table[i].user = u}

\* Mutant: the last entry for u.
find_last(u) ==
    IF Entries(u) = {} THEN {}
    ELSE {table[CHOOSE i \in Entries(u) : \A j \in Entries(u) : i >= j].hash}

\* pgr_auth_find(): the hash of the first entry for u, or NULL.
pgr_auth_find(u) ==
    IF Entries(u) = {} THEN {}
    ELSE {table[CHOOSE i \in Entries(u) : \A j \in Entries(u) : i <= j].hash}

Lex   == LexAny \/ LexBareword \/ LexQstring \/ LexComment
Parse == ParseUser \/ ParseType \/ ParseHash

AuthNext ==
    \/ \E l \in Lines : Load(l)
    \/ Loaded \/ LoadFails
    \/ Lex \/ Parse \/ Install

AuthSpec == AuthInit /\ [][AuthNext]_authVars /\ WF_authVars(Loaded \/ Lex \/ Parse \/ Install)

-----------------------------------------------------------------------------
(* Properties. *)

\* The variables of lexer, parser and table have values of their types.
AuthTypeOK ==
    /\ pc \in {"load", "emit", "token", "parsed", "ready", "failed"}
    /\ file \in Seq(Lines) /\ src \in Seq(Char)
    /\ pos \in Nat /\ start \in Nat
    /\ f \in {"any", "bareword", "qstring", "comment", "NULL"}
    /\ tok.type \in {"NONE", "RESTART", "ERROR", "EOS", "WORD", "QSTRING", "NEWLINE"}
    /\ tok.text \in Seq(Char) /\ want \in 1..3 /\ user \in Seq(Char)
    /\ entries \in Seq([user : Seq(Char), hash : Seq(Char)])
    /\ table \in Seq([user : Seq(Char), hash : Seq(Char)])

\* The lexer stays inside the source, whatever backup() undoes at its end, and
\* every function finds the token begun where it expects it: lex_any has none,
\* the others exactly the octet that lex_any has read.
InBounds ==
    /\ start <= pos /\ pos <= max
    /\ pc = "emit" /\ f = "any" => start = pos
    /\ pc = "emit" /\ f \in {"bareword", "qstring"} => start = pos - 1

\* A lexer that has ended is never asked again: emit() would return a token that
\* was never set.
EmitSafe == pc = "emit" => f # "NULL"

\* The clean lines the file begins with, and what they say.
CleanTo == CHOOSE k \in 0..Len(file) :
               /\ \A i \in 1..k : file[i].clean
               /\ k = Len(file) \/ ~file[k + 1].clean
Said ==
    LET says == SelectSeq(SubSeq(file, 1, CleanTo), LAMBDA l : l.says # <<>>)
    IN [i \in 1..Len(says) |-> says[i].says[1]]

\* The table holds the entries of the file, in the order of the file; when a line
\* is broken, those before it are there nevertheless.
Faithful ==
    pc = "ready" =>
        /\ Len(table) >= Len(Said) /\ SubSeq(table, 1, Len(Said)) = Said
        /\ CleanTo = Len(file) => table = Said

\* The last line of a file says what it says, with or without a newline.
LastLineKept ==
    pc = "ready" /\ file # <<>> /\ CleanTo >= Len(file) - 1 /\ file[Len(file)].says # <<>>
        => table # <<>> /\ table[Len(table)] = file[Len(file)].says[1]

\* Every file is read to an end, although the lexer goes back over the last octet
\* of a file without a final newline for ever.
ReadEnds == pc = "emit" ~> pc = "ready"
=============================================================================
