------------------------------- MODULE Config -------------------------------
(***************************************************************************)
(* The configuration file of pgrouter (src/config.c) over the life of the  *)
(* process: it is read at start-up and again on every SIGHUP, by a lexer   *)
(* and a parser whose result pgr_configure moves into the shared context;  *)
(* start-up, the watcher's first refresh and the shutdown then use it      *)
(* (src/main.c, src/watcher.c).                                            *)
(*                                                                         *)
(* A file is a sequence of words, chosen as the lexer reaches them, that   *)
(* begins with one of the Preambles.  A word is a pair of its class and    *)
(* its value: a keyword or a punctuation mark is its own class, and        *)
(*   "bare"      a word that is no keyword    "abbrev"   the word def       *)
(*   "addr"      an address with or without a port, or a wildcard          *)
(*   "addr1"     an address whose first number has one digit               *)
(*   "quoted"    a quoted string      "unclosed"  one that never ends       *)
(*   "int"       12          "size"   12b, 12kb       "time"   12s, 12h     *)
(*   "dec"       1.2 (its value in hundredths)                             *)
(*   "rounded"   0.33, the double for which is smaller (in hundredths too) *)
(*   "minutes"   12m (or 12k)    "junk"   a character no word begins with  *)
(* Texts are numbers too.                                                  *)
(*                                                                         *)
(* A string is known by the file and the setting it was read for, how many *)
(* times that file had set it, and its text: what two pointers share, and  *)
(* what has been freed, can be told.                                       *)
(***************************************************************************)
EXTENDS Integers, Sequences

CONSTANTS Words,       \* the words a file is made of
          Preambles,   \* the beginnings a file may have
          MaxWords,    \* bound: words of a file after its preamble
          MaxReloads,  \* bound: SIGHUPs
          Half         \* half the number of ints there are: 2^31

\* The settings, by where they are written and what they hold.
HealthInts  == {"timeout", "check"}
HealthStrs  == {"database", "username", "password"}
TlsStrs     == {"ciphers", "cert", "key"}
TopStrs     == {"listen", "monitor", "hba", "user", "group", "pidfile", "authdb"}
StartupStrs == TopStrs \union TlsStrs
IntKeys     == HealthInts \union {"workers", "log"}
StrKeys     == HealthStrs \union StartupStrs
BackendKeys == {"tls", "lag", "weight"}
LogLevel    == [error |-> 3, info |-> 6, debug |-> 7]
TlsMode     == [off |-> 0, on |-> 1, skipverify |-> 2]

Keywords == IntKeys \union StrKeys \union BackendKeys \union DOMAIN LogLevel
                \union DOMAIN TlsMode \union {"backend", "default", "health"}
Classes  == {"bare", "abbrev", "addr", "addr1", "quoted", "unclosed", "int", "size",
             "time", "dec", "rounded", "minutes", "junk", "{", "}", ";"}
Word     == {w \in (Keywords \union Classes) \X Nat : w[1] = "rounded" => w[2] > 0}

ASSUME ConfigAssumption ==
    /\ Words \subseteq Word
    /\ Preambles \subseteq Seq(Word)
    /\ MaxWords \in Nat /\ MaxReloads \in Nat /\ Half \in Nat /\ Half > 100

VARIABLES
    \* the process
    phase,     \* "boot", "parse", "apply", "launch", "up", "failed", "crashed", "stopped"
    files,     \* how many files have been opened (the first at start-up)
    \* the lexer
    pre, left, \* what remains of the preamble, how many words may follow it
    ended,     \* l->f is NULL
    again,     \* the token that the lexer does not get past, if any
    \* the parser
    f,         \* p->f
    t1,        \* what has been read of the statement at hand, if anything
    p,         \* its values: [ints, strs]
    bes,       \* its backends, the defaults first
    current,   \* the backend whose stanza is read
    \* the context
    ctx,       \* [ints, strs, backends]
    \* what other threads took from the context
    threads,   \* how many workers were started
    cached,    \* what the watcher connects to each backend with: [timeout, strs]
    \* the heap
    freed,     \* the strings that were freed
    refreed,   \* has a string been freed twice?
    stale,     \* has a string been read after it was freed?
    \* history
    said,      \* the statements in force
    told,      \* those in force when [boot: the first file was applied,
               \*   watch: the watcher looked]
    odd        \* has a word not been taken for what it is?

lexer   == <<pre, left, ended, again, odd>>
parser  == <<f, t1, p, bes, current>>
context == <<ctx, threads, cached, told>>
heap    == <<freed, refreed, stale>>
vars    == <<phase, files, lexer, parser, context, heap, said>>

None    == <<"none", 0, 0>>
Unset   == -1
Null    == <<0, "null", 0, 0>>
Text(s) == s[4]
reload  == files > 1

-----------------------------------------------------------------------------
(* The lexer. *)

\* What is left of a text whose last octet is cut off.
Cut(text) == text + 100

\* What a number or a text says: 3m is three times 60.
Says(w) == IF w[1] = "minutes" THEN 60 * w[2] ELSE w[2]

Numbers == {"int", "minutes", "size", "time", "dec", "rounded", "addr1"}

\* An unsigned int, and a decimal whose whole part is read as one.
Wrapped(n) == n % (2 * Half)
Decimal(n) == 100 * Wrapped(n \div 100) + (n % 100)

\* lex_numeric.  It expects the first digit that lex_any has already read, so
\* that an address with only one is a decimal; it does not come back from
\* looking for kb and mb in time for an m; and at the end of the file (atEnd)
\* the character 0 is found in its list of units, which makes a time.
LexNumeric(w, atEnd) ==
    CASE w[1] \in {"int", "minutes"} -> <<IF atEnd THEN "TIME" ELSE "INTEGER", Wrapped(w[2])>>
      [] w[1] = "size"               -> <<"SIZE", Wrapped(w[2])>>
      [] w[1] = "time"               -> <<"TIME", Wrapped(w[2])>>
      [] w[1] \in {"dec", "addr1"}   -> <<"DECIMAL", Decimal(w[2])>>
      [] w[1] = "rounded"            -> <<"DECIMAL", Decimal(w[2] - 1)>>

\* The type and the value of the token of word w.  At the end of a file without
\* a last newline, next does not advance but backup goes back all the same,
\* which costs a word its last octet: an on becomes an o, for which off is the
\* first keyword, the beginning of a keyword being taken for the keyword.
Lexeme(w, atEnd) ==
    CASE w[1] = "bare"                    -> <<"BAREWORD", IF atEnd THEN Cut(w[2]) ELSE w[2]>>
      [] w[1] = "addr"                    -> <<"ADDRESS", IF atEnd THEN Cut(w[2]) ELSE w[2]>>
      [] w[1] = "quoted"                  -> <<"QSTRING", w[2]>>
      [] w[1] = "abbrev"                  -> <<"default", 0>>
      [] w[1] = "on" /\ atEnd             -> <<"off", 0>>
      [] w[1] \in {"unclosed", "junk"}    -> <<"ERROR", 0>>
      [] w[1] \in Numbers                 -> LexNumeric(w, atEnd)
      [] OTHER                            -> w

\* The token, with what its word says for the history.
TokenOf(w, atEnd) == <<Lexeme(w, atEnd)[1], Lexeme(w, atEnd)[2], Says(w)>>

\* The token the lexer returns ever after if it does not get past the word.
\* The octet cut off a word is read as a word without octets, the beginning of
\* every keyword, of which authdb is the first; restart and backup go back to
\* before a number; the rest of a short address begins with a dot.
StuckOn(w, atEnd) ==
    CASE w[1] = "addr1"           -> <<"ERROR", 0, 0>>
      [] w[1] = "minutes"         -> TokenOf(w, atEnd)
      [] w[1] = "int" /\ atEnd    -> TokenOf(w, atEnd)
      [] w[1] = "addr" /\ atEnd   -> <<"TIME", 0, 0>>
      [] w[1] \in {"bare", "abbrev"} \union Keywords /\ atEnd -> <<"authdb", 0, 0>>
      [] OTHER                    -> None

\* The token is not what the word says.
Odd(w, atEnd) ==
    \/ w[1] \in {"abbrev", "rounded"}
    \/ StuckOn(w, atEnd) # None
    \/ w[1] \in {"int", "size", "time"} /\ w[2] >= 2 * Half
    \/ w[1] = "dec" /\ w[2] >= Half

\* emit, on word w.
EmitWord(w, atEnd, pre2, left2) ==
    [tok   |-> TokenOf(w, atEnd),
     pre   |-> pre2,
     left  |-> IF atEnd \/ w[1] = "unclosed" THEN 0 ELSE left2,
     again |-> StuckOn(w, atEnd),
     ended |-> w[1] = "junk",
     odd   |-> odd \/ Odd(w, atEnd)]

\* emit, on what the lexer is stuck on, at the end of the file, and on a word
\* of the part that is not fixed.
EmitAgain == [tok |-> again, pre |-> pre, left |-> left, again |-> again,
              ended |-> again[1] = "ERROR", odd |-> odd]
EmitEos   == [tok |-> <<"EOS", 0, 0>>, pre |-> pre, left |-> left, again |-> again,
              ended |-> TRUE, odd |-> odd]
EmitFree  == {EmitWord(w, atEnd, pre, left - 1) :
                 w \in IF left > 0 THEN Words ELSE {}, atEnd \in BOOLEAN}

\* emit: what the next call may return, and what it leaves of the lexer.
Emits ==
    IF again # None THEN {EmitAgain}
    ELSE IF pre # <<>> THEN {EmitWord(Head(pre), FALSE, Tail(pre), left)}
    ELSE {EmitEos} \union EmitFree

Lexed(e) ==
    /\ pre' = e.pre /\ left' = e.left /\ again' = e.again
    /\ ended' = e.ended /\ odd' = e.odd

\* as_string: does the token have a text, and as_int: what is its number?
IsText(t) == t[1] \in {"BAREWORD", "ADDRESS", "QSTRING"}

\* Mutant: the number stays unsigned.
AsUnsigned(t) == t[2]

\* A number from the upper half of the unsigned range is a negative int.
AsInt(t) == IF t[2] >= Half THEN t[2] - 2 * Half ELSE t[2]

\* The ints a weight may become.  C does not say what a double is converted to
\* that no int can hold; machines make it the least or the greatest int.
Weights(t) ==
    IF t[1] # "DECIMAL" THEN {AsInt(t)}
    ELSE IF t[2] >= Half THEN {-Half, Half - 1} ELSE {t[2]}

-----------------------------------------------------------------------------
(* The parser: one action per token, by the function that p->f names and by
   whether the token begins a statement or continues one. *)

\* The strings that slots name are freed; NULL may be freed at any time.
Free(slots) ==
    LET held == {s \in DOMAIN slots : slots[s] # Null}
    IN /\ freed' = freed \union {slots[s] : s \in held}
       /\ refreed' = (\/ refreed
                      \/ \E s \in held : slots[s] \in freed
                      \/ \E s, r \in held : s # r /\ slots[s] = slots[r])
       /\ UNCHANGED stale

\* The statement replaces what was said of the same setting; a reload has no
\* say in what is fixed at start-up.
Say(scope, k, v) ==
    IF reload /\ k \notin IntKeys \union HealthStrs THEN said
    ELSE {s \in said : s[1] # scope \/ s[2] # k} \union {<<scope, k, v>>}

Global  == -1
Default == 0

\* The parse function returns something other than 0, or p->f is NULL.
Stop(fn) ==
    /\ phase' = "apply" /\ f' = fn
    /\ UNCHANGED <<files, t1, p, bes, current, context, heap, said>>

\* It returns 0, the statement goes on or is complete.
Continue(fn, t) == phase' = phase /\ f' = fn /\ t1' = t /\ UNCHANGED <<files, context>>

\* set_str and set_int.
SetStr(k, t) ==
    /\ Continue(f, None)
    /\ Free([old |-> p.strs[k]])
    /\ p' = [p EXCEPT !.strs[k] = <<files, k, @[3] + 1, t[2]>>]
    /\ said' = Say(Global, k, t[3])
    /\ UNCHANGED <<bes, current>>
SetInt(k, n, says) ==
    /\ Continue(f, None)
    /\ p' = [p EXCEPT !.ints[k] = n]
    /\ said' = Say(Global, k, says)
    /\ UNCHANGED <<bes, current, heap>>
SetBackend(k, n, says) ==
    /\ Continue(f, None)
    /\ bes' = [bes EXCEPT ![current][k] = n]
    /\ said' = Say(bes[current].id, k, says)
    /\ UNCHANGED <<p, current, heap>>

\* Any other token that the parser accepts.
Accept(fn, t) == Continue(fn, t) /\ UNCHANGED <<p, bes, current, heap, said>>

\* make_backend: only the defaults have values of their own.
MakeBackend(id) ==
    [id |-> id, tls |-> Unset, lag |-> Unset, weight |-> Unset]
Defaults == [id |-> Default, tls |-> 0, lag |-> 100, weight |-> 1]

\* backend: the stanza of a backend that was named before is continued.
BackendNamed(id) ==
    /\ Continue(f, <<"named", 0, 0>>)
    /\ IF \E i \in 1..Len(bes) : bes[i].id = id
       THEN /\ current' = CHOOSE i \in 1..Len(bes) : bes[i].id = id
            /\ UNCHANGED bes
       ELSE bes' = Append(bes, MakeBackend(id)) /\ current' = Len(bes) + 1
    /\ said' = IF id = Default THEN said ELSE Say(id, "backend", 0)
    /\ UNCHANGED <<p, heap>>

TopWords == TopStrs \union {"log", "workers", "tls", "health", "backend"}

ParseTop(t) ==
    /\ f = "top" /\ t1 = None
    /\ IF t[1] \in TopWords THEN Accept(f, t) ELSE Stop("none")

ParseTopArg(t) ==
    /\ f = "top" /\ t1 # None
    /\ CASE t1[1] \in TopStrs /\ IsText(t) -> SetStr(t1[1], t)
         [] t1[1] = "log" /\ t[1] \in DOMAIN LogLevel -> SetInt("log", LogLevel[t[1]], LogLevel[t[1]])
         [] t1[1] = "workers" /\ t[1] \in {"INTEGER", "TIME", "SIZE"} /\ AsInt(t) >= 1
              -> SetInt("workers", AsInt(t), t[3])
         [] t1[1] \in {"tls", "health"} /\ t[1] = "{" -> Accept(t1[1], None)
         [] t1[1] = "backend" /\ t[1] = "default" -> BackendNamed(Default)
         [] t1[1] = "backend" /\ IsText(t) -> BackendNamed(t[2])
         [] t1[1] = "named" /\ t[1] = "{" -> Accept("backend", None)
         [] OTHER -> Stop(f)

\* Mutant: what is not understood is skipped.
ParseBackendSkips(t) ==
    /\ f = "backend" /\ t1 = None
    /\ CASE t[1] \in BackendKeys -> Accept(f, t)
         [] t[1] = "}" -> Accept("top", None)
         [] OTHER -> Accept(f, None)

ParseBackend(t) ==
    /\ f = "backend" /\ t1 = None
    /\ CASE t[1] \in BackendKeys -> Accept(f, t)
         [] t[1] = "}" -> Accept("top", None)
         [] t[1] = ";" -> Accept(f, None)
         [] OTHER -> Stop(f)

ParseBackendArg(t) ==
    /\ f = "backend" /\ t1 # None
    /\ CASE t1[1] = "tls" /\ t[1] \in DOMAIN TlsMode -> SetBackend("tls", TlsMode[t[1]], TlsMode[t[1]])
         [] t1[1] = "lag" /\ t[1] \in {"INTEGER", "SIZE"} /\ AsInt(t) >= 0
              -> SetBackend("lag", AsInt(t), t[3])
         [] t1[1] = "weight" /\ t[1] \in {"INTEGER", "DECIMAL"}
              -> \E n \in Weights(t) :
                    IF n >= 0 THEN SetBackend("weight", n, t[3]) ELSE Stop(f)
         [] OTHER -> Stop(f)

\* Mutant: what is not understood is skipped.
ParseHealthSkips(t) ==
    /\ f = "health" /\ t1 = None
    /\ CASE t[1] \in HealthInts \union HealthStrs -> Accept(f, t)
         [] t[1] = "}" -> Accept("top", None)
         [] OTHER -> Accept(f, None)

ParseHealth(t) ==
    /\ f = "health" /\ t1 = None
    /\ CASE t[1] \in HealthInts \union HealthStrs -> Accept(f, t)
         [] t[1] = "}" -> Accept("top", None)
         [] OTHER -> Stop(f)

ParseHealthArg(t) ==
    /\ f = "health" /\ t1 # None
    /\ CASE t1[1] \in HealthStrs /\ IsText(t) -> SetStr(t1[1], t)
         [] t1[1] \in HealthInts /\ t[1] \in {"INTEGER", "TIME"} /\ AsInt(t) >= 0
              -> SetInt(t1[1], AsInt(t), t[3])
         [] OTHER -> Stop(f)

ParseTls(t) ==
    /\ f = "tls" /\ t1 = None
    /\ CASE t[1] \in TlsStrs -> Accept(f, t)
         [] t[1] = "}" -> Accept("top", None)
         [] OTHER -> Stop(f)

ParseTlsArg(t) ==
    /\ f = "tls" /\ t1 # None
    /\ IF IsText(t) THEN SetStr(t1[1], t) ELSE Stop(f)

\* parse: while (p->f && p->f(p) == 0), and 0 is returned in any case.
Parse ==
    /\ phase = "parse"
    /\ \E e \in Emits :
          /\ Lexed(e)
          /\ \/ ParseTop(e.tok) \/ ParseTopArg(e.tok)
             \/ ParseBackend(e.tok) \/ ParseBackendArg(e.tok)
             \/ ParseHealth(e.tok) \/ ParseHealthArg(e.tok)
             \/ ParseTls(e.tok) \/ ParseTlsArg(e.tok)

-----------------------------------------------------------------------------
(* pgr_configure, and what the supervisor does with it. *)

\* lexer_init and parser_init, on a file that begins with pr.
Open(pr) ==
    /\ phase' = "parse" /\ files' = files + 1
    /\ pre' = pr /\ left' = MaxWords
    /\ ended' = FALSE /\ again' = None
    /\ f' = "top" /\ t1' = None /\ current' = 1
    /\ p' = [ints |-> [k \in IntKeys |-> Unset], strs |-> [k \in StrKeys |-> Null]]
    /\ bes' = <<Defaults>>
    /\ UNCHANGED <<odd, context, heap, said>>

Boot == phase = "boot" /\ \E pr \in Preambles : Open(pr)

\* The file cannot be read: start-up fails, a reload changes nothing.
BootFails ==
    /\ phase = "boot" /\ phase' = "failed"
    /\ UNCHANGED <<files, lexer, parser, context, heap, said>>

\* It can be opened but its size cannot be told, or is too large: parser_free
\* is called without a lexer, which it dereferences.
OpenCrashes ==
    /\ phase \in {"boot", "up"} /\ phase' = "crashed"
    /\ UNCHANGED <<files, lexer, parser, context, heap, said>>

\* SIGHUP.
Hup == phase = "up" /\ files <= MaxReloads /\ \E pr \in Preambles : Open(pr)

\* A setting given in the file replaces the one in force.
Updated(keys, new, old, unset) ==
    [k \in DOMAIN old |-> IF k \in keys /\ new[k] # unset THEN new[k] ELSE old[k]]

\* get_int: the value of the stanza, or the default's (which is always set).
GetInt(d, b) == IF b # Unset THEN b ELSE d

\* The text of "postgres" and of the empty password.
BuiltIn == 99

\* get_str: the pointer of the parser, which is also the context's, or a copy
\* of the built-in value.
GetStr(k, i) == IF p.strs[k] # Null THEN p.strs[k] ELSE <<1, "copy", i, BuiltIn>>

\* The backends of the context, from the stanzas.
Backends ==
    [i \in 1..(Len(bes) - 1) |->
        [id     |-> bes[i + 1].id,
         tls    |-> GetInt(bes[1].tls, bes[i + 1].tls),
         lag    |-> GetInt(bes[1].lag, bes[i + 1].lag),
         weight |-> GetInt(bes[1].weight, bes[i + 1].weight),
         strs   |-> [k \in HealthStrs |-> GetStr(k, i)]]]

\* A reload reaches a strcmp with a setting that start-up left NULL.
ComparesNull == reload /\ \E k \in StartupStrs : p.strs[k] # Null /\ ctx.strs[k] = Null

\* parser_free.
ParserFreed ==
    /\ pre' = <<>> /\ left' = 0 /\ ended' = TRUE /\ again' = None
    /\ f' = "none" /\ t1' = None /\ bes' = <<Defaults>> /\ current' = 1
    /\ p' = [ints |-> [k \in IntKeys |-> Unset], strs |-> [k \in StrKeys |-> Null]]

\* The string that is freed if the file sets k: the old value of a health string,
\* and what a reload says instead of a string of start-up.
Dropped(k) ==
    CASE p.strs[k] = Null -> Null
      [] p.strs[k] # Null /\ k \in HealthStrs -> ctx.strs[k]
      [] p.strs[k] # Null /\ k \notin HealthStrs ->
           IF reload /\ Text(p.strs[k]) # Text(ctx.strs[k]) THEN p.strs[k] ELSE Null

\* What can be updated is: numbers, and the strings of the health stanza.  The
\* strings of start-up, and the backends with the strings they connect with, are
\* set by the first file only.
Apply ==
    /\ phase = "apply" /\ ~ComparesNull
    /\ ctx' = [ints     |-> Updated(IntKeys, p.ints, ctx.ints, Unset),
               strs     |-> Updated(IF reload THEN HealthStrs ELSE StrKeys,
                                    p.strs, ctx.strs, Null),
               backends |-> IF reload THEN ctx.backends ELSE Backends]
    /\ Free([k \in StrKeys |-> Dropped(k)])
    /\ phase' = IF reload THEN "up" ELSE "launch"
    /\ ParserFreed
    /\ told' = IF reload THEN told ELSE [told EXCEPT !.boot = said]
    /\ UNCHANGED <<files, odd, threads, cached, said>>

ApplyCrashes ==
    /\ phase = "apply" /\ ComparesNull
    /\ phase' = "crashed"
    /\ UNCHANGED <<files, lexer, parser, context, heap, said>>

\* hostport does not find a port number in the name of some backend.
ApplyFails ==
    /\ phase = "apply" /\ ~reload /\ Len(bes) > 1
    /\ phase' = "failed"
    /\ ParserFreed
    /\ UNCHANGED <<files, odd, context, heap, said>>

\* The rest of start-up: the authdb is read, the process becomes a daemon
\* unless it is told not to, two endpoints are bound and the workers started.
\* Each may fail; a user, a group or an endpoint that is NULL is dereferenced.
Launch ==
    /\ phase = "launch"
    /\ \E foreground \in BOOLEAN :
          phase' \in {"failed"} \union
              CASE ctx.strs["authdb"] = Null -> {}
                [] \/ ~foreground /\ \E k \in {"user", "group"} : ctx.strs[k] = Null
                   \/ \E k \in {"listen", "monitor"} : ctx.strs[k] = Null
                     -> {"crashed"}
                [] OTHER -> {"up"}
    /\ threads' = IF phase' = "up" THEN ctx.ints["workers"] ELSE threads
    /\ UNCHANGED <<files, lexer, parser, ctx, cached, told, heap, said>>

\* What freed memory may hold.
Garbage == 98

\* The text of s as it is read: memory that was freed may have been reused.
ReadText(s, reused) == IF reused /\ s \in freed THEN Garbage ELSE Text(s)

\* Mutant: the strings are the ones of the context.
RefreshGlobal ==
    /\ phase = "up" /\ Len(cached) # Len(ctx.backends)
    /\ cached' = [i \in DOMAIN ctx.backends |->
                     [timeout |-> ctx.ints["timeout"],
                      strs    |-> [k \in HealthStrs |-> Text(ctx.strs[k])]]]
    /\ told' = [told EXCEPT !.watch = said]
    /\ UNCHANGED <<phase, files, lexer, parser, ctx, threads, heap, said>>

\* The watcher's first refresh finds serials that it does not know, and reads
\* the connection data of every backend (under the lock that a reload takes).
\* No reload changes a serial, or the number of backends: it never reads again.
Refresh ==
    /\ phase = "up" /\ Len(cached) # Len(ctx.backends)
    /\ \E reused \in BOOLEAN :
          cached' = [i \in DOMAIN ctx.backends |->
                       [timeout |-> ctx.ints["timeout"],
                        strs    |-> [k \in HealthStrs |->
                                        ReadText(ctx.backends[i].strs[k], reused)]]]
    /\ stale' = (stale \/ \E i \in DOMAIN ctx.backends : \E k \in HealthStrs :
                              ctx.backends[i].strs[k] \in freed)
    /\ told' = [told EXCEPT !.watch = said]
    /\ UNCHANGED <<phase, files, lexer, parser, ctx, threads, freed, refreed, said>>

\* Mutant: the strings of the backends are freed as well.
DeconfigureAll ==
    /\ phase = "up" /\ phase' = "stopped"
    /\ Free([s \in StrKeys \X (0..Len(ctx.backends)) |->
                CASE s[2] = 0 -> ctx.strs[s[1]]
                  [] s[2] # 0 /\ s[1] \in HealthStrs -> ctx.backends[s[2]].strs[s[1]]
                  [] OTHER -> Null])
    /\ UNCHANGED <<files, lexer, parser, context, said>>

\* SIGTERM, SIGINT or SIGQUIT, once the threads are gone: pgr_deconfigure.
Deconfigure ==
    /\ phase = "up" /\ phase' = "stopped"
    /\ Free(ctx.strs)
    /\ UNCHANGED <<files, lexer, parser, context, said>>

-----------------------------------------------------------------------------
Init ==
    /\ phase = "boot" /\ files = 0
    /\ pre = <<>> /\ left = 0 /\ ended = TRUE /\ again = None
    /\ f = "none" /\ t1 = None /\ bes = <<Defaults>> /\ current = 1
    /\ p = [ints |-> [k \in IntKeys |-> Unset], strs |-> [k \in StrKeys |-> Null]]
    /\ ctx = [ints     |-> [k \in IntKeys |-> 0],
              strs     |-> [k \in StrKeys |-> Null],
              backends |-> <<>>]
    /\ threads = 0 /\ cached = <<>>
    /\ freed = {} /\ refreed = FALSE /\ stale = FALSE
    /\ said = {} /\ told = [boot |-> {}, watch |-> {}] /\ odd = FALSE

Next ==
    \/ Boot \/ BootFails \/ OpenCrashes \/ Hup \/ Parse
    \/ Apply \/ ApplyCrashes \/ ApplyFails
    \/ Launch \/ Refresh \/ Deconfigure

Spec == Init /\ [][Next]_vars

\* The supervisor runs while it has a file to read; nobody has to send a signal.
FairSpec == Spec /\ WF_vars(Parse)

-----------------------------------------------------------------------------
(* Properties. *)

\* The values of an int that is not negative, of a string, and of a stanza.
Int32  == 0..(Half - 1)
Str    == Nat \X (StrKeys \union {"null", "copy"}) \X Nat \X Nat
Stanza == [id : Nat, tls : Int32 \union {Unset}, lag : Int32 \union {Unset},
           weight : Int32 \union {Unset}]

\* The variables of config.c hold values of their types; what an int of the
\* context holds fits into an int and is not negative.
TypeOK ==
    /\ phase \in {"boot", "parse", "apply", "launch", "up", "failed", "crashed", "stopped"}
    /\ files \in 0..(MaxReloads + 1) /\ left \in 0..MaxWords
    /\ {ended, refreed, stale, odd} \subseteq BOOLEAN
    /\ f \in {"none", "top", "backend", "health", "tls"}
    /\ p.ints \in [IntKeys -> Int32 \union {Unset}] /\ p.strs \in [StrKeys -> Str]
    /\ bes \in Seq(Stanza) /\ current \in 1..Len(bes)
    /\ ctx.ints \in [IntKeys -> Int32] /\ ctx.strs \in [StrKeys -> Str]
    /\ \A i \in DOMAIN ctx.backends :
          /\ \A k \in BackendKeys : ctx.backends[i][k] \in Int32
          /\ ctx.backends[i].strs \in [HealthStrs -> Str]
    /\ threads \in Int32
    /\ cached \in Seq([timeout : Int32, strs : [HealthStrs -> Nat]])
    /\ freed \subseteq Str

\* The parser never asks a lexer that has come to its end for one more token:
\* emit would return an uninitialised TOKEN.  Whatever the words of the file,
\* every parse function gives up on T_EOS and on T_ERROR.
EmitSafe == phase = "parse" => ~ended

\* Over start-up, any number of reloads and the shutdown no string is freed
\* twice, although parser, context and backends share them, and the context
\* itself never names a string that was freed.
FreedOnce ==
    /\ ~refreed
    /\ phase # "stopped" => \A k \in StrKeys : ctx.strs[k] \notin freed

\* What statements S say of a setting, or d; and what the ones in force say.
SpokenIn(S, scope, k, d) ==
    IF \E s \in S : s[1] = scope /\ s[2] = k
    THEN (CHOOSE s \in S : s[1] = scope /\ s[2] = k)[3]
    ELSE d
Spoken(scope, k, d) == SpokenIn(said, scope, k, d)

\* What the context holds is what was said.
ContextAsSaid ==
    /\ \A k \in IntKeys : ctx.ints[k] = Spoken(Global, k, 0)
    /\ \A k \in StrKeys : Text(ctx.strs[k]) = Spoken(Global, k, 0)
    /\ {ctx.backends[i].id : i \in DOMAIN ctx.backends} =
           {s[1] : s \in {x \in said : x[2] = "backend"}}
    /\ \A i \in DOMAIN ctx.backends : \A k \in BackendKeys :
          ctx.backends[i][k] = Spoken(ctx.backends[i].id, k, Spoken(Default, k, Defaults[k]))

\* What start-up's file said of a health string.
Started(k) == SpokenIn(told.boot, Global, k, BuiltIn)

\* What is fixed before the last file is read, although later files may say
\* something else of it and the context then holds that: the number of workers,
\* the strings of each backend, and what the watcher connects to it with.
UseAsSaid ==
    /\ threads = SpokenIn(told.boot, Global, "workers", 0)
    /\ \A i \in DOMAIN ctx.backends : \A k \in HealthStrs :
          Text(ctx.backends[i].strs[k]) = Started(k)
    /\ ~stale => \A i \in DOMAIN cached :
          /\ cached[i].timeout = SpokenIn(told.watch, Global, "timeout", 0)
          /\ \A k \in HealthStrs : cached[i].strs[k] = Started(k)

AsSaid == ContextAsSaid /\ UseAsSaid

\* What the files say, up to their first error and wherever they say it, ends up
\* where config.c puts it, if its lexer takes every word for what it is:
\*  - the context has the last statement about a number or a health string, and
\*    the first file's last about any other string;
\*  - a backend has its own last statement of the first file, else the default's
\*    last, before or after the backend's, else the built-in value;
\*  - but the workers are as many as the first file says, and the watcher connects
\*    with the first file's database, user and password, unless it read them
\*    after they were freed, and with the timeout in force when it first looked:
\*    what a reload says of these reaches the context and nobody uses it.
Faithful == phase = "up" /\ ~odd => AsSaid

\* Every file is read to an end, whatever the lexer gets stuck on.
ParseEnds == phase = "parse" ~> phase # "parse"

\* The watcher never reads freed memory.
WatcherReadsLive == ~stale

\* A reload that says something new of a setting fixed at start-up keeps the
\* old value, and the process; and start-up gets by with what a file says.
Survives == phase # "crashed"

\* The same for every word the comment in lex_numeric lists.
FaithfulAlways == phase = "up" => AsSaid

\* pgrouter.h:75 says that a reload increments the serials, and the watcher is
\* written to refresh what it knows of a backend when one changes: what it
\* connects with would be what the context holds.
WatcherFollows ==
    phase = "up" => \A i \in DOMAIN cached :
        /\ cached[i].timeout = ctx.ints["timeout"]
        /\ \A k \in HealthStrs : ctx.strs[k] # Null => cached[i].strs[k] = Text(ctx.strs[k])

\* The watcher expects that a reload adds and removes backends
\* (watcher.c:91-92, 314-317): those of the file would be those of the context.
ReloadsBackends ==
    [][phase = "apply" /\ phase' = "up" =>
          {ctx'.backends[i].id : i \in DOMAIN ctx'.backends} =
              {bes[i].id : i \in 2..Len(bes)}]_vars

\* DESIGN.md:184-194 changes the default between backends: a default would hold
\* for the backends named after it, and none would change it for an earlier one.
DefaultsFirst ==
    [][Len(bes) > 1 /\ bes' # <<Defaults>> => bes'[1] = bes[1]]_vars

\* DESIGN.md:190 names a backend without a stanza; a file like that would be
\* read to its end, or refused.  parse drops the rest and reports success.
ReadToTheEnd == phase = "apply" => f = "none"
=============================================================================
