---------------------------- MODULE ConfigProofs ----------------------------
(***************************************************************************)
(* Four proofs about config.c, for every set of words, every file and any  *)
(* number of reloads.                                                      *)
(*                                                                         *)
(* The parser never asks a lexer that has ended for another token: a call  *)
(* of emit that ends the lexer returns T_EOS or T_ERROR, and whichever     *)
(* function is called with one of these, at the beginning of a statement   *)
(* or in the middle of one, gives up.                                      *)
(*                                                                         *)
(* No string is freed twice: a string belongs to one setting and to one    *)
(* file, parser and context never own the same one between two steps, and  *)
(* whoever frees a string forgets it in the same step (HeapInv).           *)
(*                                                                         *)
(* Every value has its type (Typed): the ints that reach the context are   *)
(* the ones the parse functions let through.                               *)
(*                                                                         *)
(* The router runs with what was said (SaidInv): a token that was not      *)
(* mistaken has the value its word says, each parse function writes it     *)
(* where a later pgr_configure looks for it, and a backend that is silent  *)
(* about a value gets the default's last one.                              *)
(***************************************************************************)
EXTENDS Config, TLAPS

Last == {"EOS", "ERROR"}

\* emit ends the lexer (l->f = NULL) only when it returns T_EOS or T_ERROR.
LEMMA EndsWithLast ==
    ASSUME NEW e \in Emits, e.ended
    PROVE  e.tok[1] \in Last
<1>1. ASSUME NEW w, NEW atEnd, NEW pre2, NEW left2,
             e = EmitWord(w, atEnd, pre2, left2)
      PROVE  e.tok[1] \in Last
  <2>1. w[1] = "junk" BY <1>1 DEF EmitWord
  <2>2. Lexeme(w, atEnd) = <<"ERROR", 0>> BY <2>1 DEF Lexeme, Numbers
  <2>3. e.tok = TokenOf(w, atEnd) BY <1>1 DEF EmitWord
  <2> QED BY <2>2, <2>3 DEF TokenOf, Last
<1>2. CASE again # None
  <2>1. e = EmitAgain BY <1>2 DEF Emits
  <2>2. e.ended = (again[1] = "ERROR") BY <2>1, Zenon DEF EmitAgain
  <2>3. again[1] = "ERROR" BY <2>2
  <2> QED BY <2>1, <2>3 DEF EmitAgain, Last
<1>3. CASE again = None /\ pre # <<>>
  <2>1. e = EmitWord(Head(pre), FALSE, Tail(pre), left) BY <1>3, Zenon DEF Emits
  <2> QED BY <1>1, <2>1
<1>4. CASE again = None /\ pre = <<>>
  <2>1. e = EmitEos \/ e \in EmitFree BY <1>4 DEF Emits
  <2>2. CASE e = EmitEos BY <2>2 DEF EmitEos, Last
  <2>3. CASE e \in EmitFree BY <1>1, <2>3 DEF EmitFree
  <2> QED BY <2>1, <2>2, <2>3
<1> QED BY <1>2, <1>3, <1>4

\* Every parse function, wherever it is in a statement, returns on such a token
\* in a way that ends the loop of parse.
LEMMA LastStops ==
    ASSUME NEW t, t[1] \in Last,
           \/ ParseTop(t) \/ ParseTopArg(t) \/ ParseBackend(t) \/ ParseBackendArg(t)
           \/ ParseHealth(t) \/ ParseHealthArg(t) \/ ParseTls(t) \/ ParseTlsArg(t)
    PROVE  phase' = "apply"
<1> USE DEF Last
<1>1. /\ t[1] \notin TopWords /\ t[1] \notin BackendKeys /\ t[1] \notin TlsStrs
      /\ t[1] \notin HealthInts \union HealthStrs
  BY DEF TopWords, TopStrs, BackendKeys, TlsStrs, HealthInts, HealthStrs
<1>2. /\ ~IsText(t) /\ t[1] \notin DOMAIN LogLevel /\ t[1] \notin DOMAIN TlsMode
      /\ t[1] \notin {"INTEGER", "TIME", "SIZE", "DECIMAL", "{", "}", ";", "default"}
  BY DEF IsText, LogLevel, TlsMode
<1>3. ASSUME NEW fn, Stop(fn) PROVE phase' = "apply" BY <1>3 DEF Stop
<1>4. CASE ParseTop(t) BY <1>1, <1>3, <1>4 DEF ParseTop
<1>5. CASE ParseTopArg(t) BY <1>2, <1>3, <1>5 DEF ParseTopArg
<1>6. CASE ParseBackend(t) BY <1>1, <1>2, <1>3, <1>6 DEF ParseBackend
<1>7. CASE ParseBackendArg(t) BY <1>2, <1>3, <1>7 DEF ParseBackendArg
<1>8. CASE ParseHealth(t) BY <1>1, <1>2, <1>3, <1>8 DEF ParseHealth
<1>9. CASE ParseHealthArg(t) BY <1>2, <1>3, <1>9 DEF ParseHealthArg
<1>10. CASE ParseTls(t) BY <1>1, <1>2, <1>3, <1>10 DEF ParseTls
<1>11. CASE ParseTlsArg(t) BY <1>2, <1>3, <1>11 DEF ParseTlsArg
<1> QED BY <1>4, <1>5, <1>6, <1>7, <1>8, <1>9, <1>10, <1>11

\* emit is never called once the lexer has ended, whatever the files hold: no
\* uninitialised TOKEN is ever looked at.
THEOREM EmitAlwaysSafe == Spec => []EmitSafe
<1>1. Init => EmitSafe BY DEF Init, EmitSafe
<1>2. EmitSafe /\ [Next]_vars => EmitSafe'
  <2> SUFFICES ASSUME EmitSafe, [Next]_vars PROVE EmitSafe' OBVIOUS
  <2>1. CASE Boot BY <2>1 DEF Boot, Open, EmitSafe
  <2>2. CASE Hup BY <2>2 DEF Hup, Open, EmitSafe
  <2>3. CASE Parse
    <3> PICK e \in Emits :
          /\ Lexed(e)
          /\ \/ ParseTop(e.tok) \/ ParseTopArg(e.tok)
             \/ ParseBackend(e.tok) \/ ParseBackendArg(e.tok)
             \/ ParseHealth(e.tok) \/ ParseHealthArg(e.tok)
             \/ ParseTls(e.tok) \/ ParseTlsArg(e.tok)
      BY <2>3 DEF Parse
    <3>1. ended' = e.ended BY DEF Lexed
    <3>2. CASE e.ended
      <4>1. e.tok[1] \in Last BY <3>2, EndsWithLast
      <4>2. phase' = "apply" BY <4>1, LastStops
      <4> QED BY <4>2 DEF EmitSafe
    <3>3. CASE ~e.ended BY <3>1, <3>3 DEF EmitSafe
    <3> QED BY <3>2, <3>3
  <2>4. CASE BootFails \/ OpenCrashes \/ ApplyCrashes
    BY <2>4 DEF BootFails, OpenCrashes, ApplyCrashes, EmitSafe
  <2>5. CASE Apply BY <2>5 DEF Apply, EmitSafe
  <2>6. CASE ApplyFails BY <2>6 DEF ApplyFails, EmitSafe
  <2>7. CASE Launch
    <3>1. phase' # "parse" BY <2>7 DEF Launch
    <3> QED BY <3>1 DEF EmitSafe
  <2>8. CASE Refresh BY <2>8 DEF Refresh, EmitSafe
  <2>9. CASE Deconfigure BY <2>9 DEF Deconfigure, EmitSafe
  <2>10. CASE UNCHANGED vars BY <2>10 DEF vars, lexer, EmitSafe
  <2> QED BY <2>1, <2>2, <2>3, <2>4, <2>5, <2>6, <2>7, <2>8, <2>9, <2>10 DEF Next
<1> QED BY <1>1, <1>2, PTL DEF Spec

-----------------------------------------------------------------------------
(* Who owns which string. *)

Reading == phase \in {"parse", "apply"}

\* Both tables have a slot for every string setting, and a tls stanza only ever
\* waits for the value of a setting it knows.
Tables ==
    /\ files \in Nat
    /\ DOMAIN ctx.strs = StrKeys
    /\ "strs" \in DOMAIN p /\ DOMAIN p.strs = StrKeys
    /\ f = "tls" /\ t1 # None => t1[1] \in TlsStrs

\* The context owns live strings of earlier files, each in its own slot.
ContextOwns ==
    phase # "stopped" => \A k \in StrKeys :
        /\ ctx.strs[k] \notin freed
        /\ ctx.strs[k] # Null =>
              /\ ctx.strs[k][2] = k
              /\ ctx.strs[k][1] \in Nat /\ ctx.strs[k][3] \in Nat
              /\ ctx.strs[k][1] <= files
              /\ Reading => ctx.strs[k][1] < files

\* The parser owns live strings of the file that is read, each in its own slot.
ParserOwns ==
    Reading => \A k \in StrKeys :
        /\ p.strs[k][3] \in Nat
        /\ p.strs[k] # Null => /\ p.strs[k][1] = files /\ p.strs[k][2] = k
                               /\ p.strs[k] \notin freed

\* What was freed belonged to a setting, and to a file that has been opened; of
\* the file that is read, it was set before what the parser has now.
FreedBefore ==
    \A s \in freed :
        /\ s[2] \in StrKeys /\ s[1] \in Nat /\ s[3] \in Nat /\ s[1] <= files
        /\ phase = "parse" /\ s[1] = files => s[3] < p.strs[s[2]][3]

HeapInv == Tables /\ ContextOwns /\ ParserOwns /\ FreedBefore /\ ~refreed

\* What Free does if no slot holds a string that was freed, and no two slots the
\* same string.
LEMMA FreeStep ==
    ASSUME NEW slots, Free(slots), ~refreed,
           \A s \in DOMAIN slots : slots[s] # Null => slots[s] \notin freed,
           \A s, r \in DOMAIN slots : slots[s] # Null /\ slots[s] = slots[r] => s = r
    PROVE  /\ ~refreed'
           /\ \A x \in freed' : \/ x \in freed
                                \/ \E s \in DOMAIN slots : slots[s] # Null /\ x = slots[s]
<1> DEFINE held == {s \in DOMAIN slots : slots[s] # Null}
<1>1. /\ freed' = freed \union {slots[s] : s \in held}
      /\ refreed' = (\/ refreed
                     \/ \E s \in held : slots[s] \in freed
                     \/ \E s, r \in held : s # r /\ slots[s] = slots[r])
  BY Zenon DEF Free
<1>2. ~ \E s \in held : slots[s] \in freed OBVIOUS
<1>3. ~ \E s, r \in held : s # r /\ slots[s] = slots[r] OBVIOUS
<1>4. ~refreed' BY <1>1, <1>2, <1>3, Zenon
<1>5. ASSUME NEW x \in freed'
      PROVE  x \in freed \/ \E s \in DOMAIN slots : slots[s] # Null /\ x = slots[s]
  BY <1>1, <1>5
<1> QED BY <1>4, <1>5

\* NULL belongs to no setting.
LEMMA NullIsNoString == Null[1] = 0 /\ Null[2] \notin StrKeys /\ Null[3] = 0
BY DEF Null, StrKeys, HealthStrs, StartupStrs, TopStrs, TlsStrs

\* A step that frees and allocates nothing.
Quiet ==
    /\ phase' \in {"parse", "apply"}
    /\ UNCHANGED <<files, ctx, freed, refreed>>
    /\ "strs" \in DOMAIN p' /\ p'.strs = p.strs

AnyParse(t) ==
    \/ ParseTop(t) \/ ParseTopArg(t) \/ ParseBackend(t) \/ ParseBackendArg(t)
    \/ ParseHealth(t) \/ ParseHealthArg(t) \/ ParseTls(t) \/ ParseTlsArg(t)

\* A parse function sets one string, by set_str, or leaves the heap alone.
LEMMA ParseEffect ==
    ASSUME Tables, phase = "parse", NEW t, AnyParse(t)
    PROVE  (\E k \in StrKeys : SetStr(k, t)) \/ Quiet
<1> USE DEF Tables
<1>1. ASSUME NEW fn, Stop(fn) PROVE Quiet
  BY <1>1 DEF Stop, Quiet, context, heap
<1>2. ASSUME NEW fn, NEW u, Accept(fn, u) PROVE Quiet
  BY <1>2 DEF Accept, Continue, Quiet, context, heap
<1>3. ASSUME NEW k, NEW n, NEW says, SetInt(k, n, says) PROVE Quiet
  BY <1>3 DEF SetInt, Continue, Quiet, context, heap
<1>4. ASSUME NEW k, NEW n, NEW says, SetBackend(k, n, says) PROVE Quiet
  BY <1>4 DEF SetBackend, Continue, Quiet, context, heap
<1>5. ASSUME NEW id, BackendNamed(id) PROVE Quiet
  BY <1>5 DEF BackendNamed, Continue, Quiet, context, heap
<1>6. TopStrs \subseteq StrKeys /\ TlsStrs \subseteq StrKeys /\ HealthStrs \subseteq StrKeys
  BY DEF StrKeys, StartupStrs
<1>7. CASE ParseTop(t) BY <1>1, <1>2, <1>7 DEF ParseTop
<1>8. CASE ParseTopArg(t) BY <1>1, <1>2, <1>3, <1>5, <1>6, <1>8 DEF ParseTopArg
<1>9. CASE ParseBackend(t) BY <1>1, <1>2, <1>9 DEF ParseBackend
<1>10. CASE ParseBackendArg(t) BY <1>1, <1>4, <1>10 DEF ParseBackendArg
<1>11. CASE ParseHealth(t) BY <1>1, <1>2, <1>11 DEF ParseHealth
<1>12. CASE ParseHealthArg(t) BY <1>1, <1>3, <1>6, <1>12 DEF ParseHealthArg
<1>13. CASE ParseTls(t) BY <1>1, <1>2, <1>13 DEF ParseTls
<1>14. CASE ParseTlsArg(t) BY <1>1, <1>6, <1>14 DEF ParseTlsArg
<1> QED BY <1>7, <1>8, <1>9, <1>10, <1>11, <1>12, <1>13, <1>14 DEF AnyParse

\* A tls stanza waits only for the value of ciphers, cert or key.
LEMMA TlsArgument ==
    ASSUME Tables, NEW t, AnyParse(t)
    PROVE  f' = "tls" /\ t1' # None => t1'[1] \in TlsStrs
<1> USE DEF Tables
<1>1. ASSUME NEW fn, Stop(fn), fn \in {f, "none"}
      PROVE  f' = "tls" /\ t1' # None => t1'[1] \in TlsStrs
  BY <1>1 DEF Stop
<1>2. ASSUME NEW k, SetStr(k, t) PROVE t1' = None BY <1>2 DEF SetStr, Continue
<1>3. ASSUME NEW k, NEW n, NEW says, SetInt(k, n, says) PROVE t1' = None
  BY <1>3 DEF SetInt, Continue
<1>4. ASSUME NEW k, NEW n, NEW says, SetBackend(k, n, says) PROVE t1' = None
  BY <1>4 DEF SetBackend, Continue
<1>5. ASSUME NEW id, BackendNamed(id) PROVE f' = f BY <1>5 DEF BackendNamed, Continue
<1>6. ASSUME NEW fn, NEW u, Accept(fn, u) PROVE f' = fn /\ t1' = u
  BY <1>6 DEF Accept, Continue
<1>7. CASE ParseTop(t) BY <1>1, <1>6, <1>7 DEF ParseTop
<1>8. CASE ParseTopArg(t) BY <1>1, <1>2, <1>3, <1>5, <1>6, <1>8 DEF ParseTopArg
<1>9. CASE ParseBackend(t)
  <2>1. f = "backend" BY <1>9 DEF ParseBackend
  <2>2. (\E fn, u : Accept(fn, u) /\ fn \in {f, "top"}) \/ Stop(f) BY <1>9, Zenon DEF ParseBackend
  <2>3. f' \in {f, "top"} BY <1>6, <2>2 DEF Stop
  <2> QED BY <2>1, <2>3
<1>10. CASE ParseBackendArg(t) BY <1>1, <1>4, <1>10 DEF ParseBackendArg
<1>11. CASE ParseHealth(t)
  <2>1. f = "health" BY <1>11 DEF ParseHealth
  <2>2. (\E fn, u : Accept(fn, u) /\ fn \in {f, "top"}) \/ Stop(f) BY <1>11, Zenon DEF ParseHealth
  <2>3. f' \in {f, "top"} BY <1>6, <2>2 DEF Stop
  <2> QED BY <2>1, <2>3
<1>12. CASE ParseHealthArg(t) BY <1>1, <1>2, <1>3, <1>12 DEF ParseHealthArg
<1>13. CASE ParseTls(t) BY <1>1, <1>6, <1>13 DEF ParseTls
<1>14. CASE ParseTlsArg(t) BY <1>1, <1>2, <1>14 DEF ParseTlsArg
<1> QED BY <1>7, <1>8, <1>9, <1>10, <1>11, <1>12, <1>13, <1>14 DEF AnyParse

\* set_str frees the string it replaces, which the file at hand had set before.
LEMMA SetStrStep ==
    ASSUME HeapInv, phase = "parse", NEW k \in StrKeys, NEW t, SetStr(k, t)
    PROVE  ContextOwns' /\ ParserOwns' /\ FreedBefore' /\ ~refreed'
           /\ files' = files /\ ctx' = ctx /\ "strs" \in DOMAIN p' /\ DOMAIN p'.strs = StrKeys
<1> DEFINE old == p.strs[k]
           new == <<files, k, p.strs[k][3] + 1, t[2]>>
           slots == [old |-> p.strs[k]]
<1>1. /\ files \in Nat /\ "strs" \in DOMAIN p /\ DOMAIN p.strs = StrKeys
  BY DEF HeapInv, Tables
<1>2. Free(slots) /\ p' = [p EXCEPT !.strs[k] = new] BY Zenon DEF SetStr
<1>3. phase' = phase /\ UNCHANGED <<files, ctx>> BY DEF SetStr, Continue, context
<1>4. /\ "strs" \in DOMAIN p' /\ p'.strs = [p.strs EXCEPT ![k] = new] BY <1>1, <1>2
<1>5. /\ DOMAIN p'.strs = StrKeys /\ p'.strs[k] = new
      /\ \A j \in StrKeys : j # k => p'.strs[j] = p.strs[j]
  BY <1>1, <1>4
<1>6. DOMAIN slots = {"old"} /\ slots["old"] = old OBVIOUS
<1>7. /\ old[3] \in Nat
      /\ old # Null => old[1] = files /\ old[2] = k /\ old \notin freed
  BY DEF HeapInv, ParserOwns, Reading
<1>8. ~refreed BY DEF HeapInv
<1>9. /\ ~refreed'
      /\ \A x \in freed' : x \in freed \/ (old # Null /\ x = old)
  <2>1. \A s \in DOMAIN slots : slots[s] # Null => slots[s] \notin freed BY <1>6, <1>7
  <2>2. \A s, r \in DOMAIN slots : slots[s] # Null /\ slots[s] = slots[r] => s = r BY <1>6
  <2> HIDE DEF slots
  <2>3. /\ ~refreed'
        /\ \A x \in freed' : \/ x \in freed
                             \/ \E s \in DOMAIN slots : slots[s] # Null /\ x = slots[s]
    BY <1>2, <1>8, <2>1, <2>2, FreeStep
  <2> QED BY <1>6, <2>3
<1> HIDE DEF slots
<1>10. new[1] = files /\ new[2] = k /\ new[3] = old[3] + 1 OBVIOUS
<1> HIDE DEF new, old
<1>11. ContextOwns'
  <2> SUFFICES ASSUME NEW j \in StrKeys PROVE
          /\ ctx.strs[j] \notin freed'
          /\ ctx.strs[j] # Null => /\ ctx.strs[j][2] = j /\ ctx.strs[j][1] \in Nat /\ ctx.strs[j][3] \in Nat
                                   /\ ctx.strs[j][1] <= files /\ ctx.strs[j][1] < files
    BY <1>3 DEF ContextOwns, Reading
  <2>1. /\ ctx.strs[j] \notin freed
        /\ ctx.strs[j] # Null => /\ ctx.strs[j][2] = j /\ ctx.strs[j][1] \in Nat /\ ctx.strs[j][3] \in Nat
                                 /\ ctx.strs[j][1] <= files /\ ctx.strs[j][1] < files
    BY DEF HeapInv, ContextOwns, Reading
  <2>2. old # Null => ctx.strs[j] # old BY <1>1, <1>7, <2>1
  <2> QED BY <1>9, <2>1, <2>2
<1>12. FreedBefore'
  <2> SUFFICES ASSUME NEW s \in freed' PROVE
          /\ s[2] \in StrKeys /\ s[1] \in Nat /\ s[3] \in Nat /\ s[1] <= files
          /\ s[1] = files => s[3] < p'.strs[s[2]][3]
    BY <1>3 DEF FreedBefore
  <2>1. CASE s \in freed
    <3>1. /\ s[2] \in StrKeys /\ s[1] \in Nat /\ s[3] \in Nat /\ s[1] <= files
          /\ s[1] = files => s[3] < p.strs[s[2]][3]
      BY <2>1 DEF HeapInv, FreedBefore
    <3>2. CASE s[2] = k
      <4>1. p'.strs[s[2]][3] = old[3] + 1 BY <1>5, <1>10, <3>2
      <4>2. p.strs[s[2]][3] = old[3] BY <3>2 DEF old
      <4>3. s[1] = files => s[3] < old[3] BY <3>1, <4>2
      <4>4. s[1] = files => s[3] < old[3] + 1 BY <1>7, <3>1, <4>3
      <4> QED BY <3>1, <4>1, <4>4
    <3>3. CASE s[2] # k BY <1>5, <3>1, <3>3
    <3> QED BY <3>2, <3>3
  <2>2. CASE old # Null /\ s = old
    <3>1. s[2] = k /\ s[1] = files BY <1>7, <2>2
    <3>2. p'.strs[s[2]][3] = old[3] + 1 BY <1>5, <1>10, <3>1
    <3> QED BY <1>1, <1>7, <2>2, <3>1, <3>2
  <2> QED BY <1>9, <2>1, <2>2
<1>13. ParserOwns'
  <2> SUFFICES ASSUME NEW j \in StrKeys PROVE
          /\ p'.strs[j][3] \in Nat
          /\ p'.strs[j] # Null => /\ p'.strs[j][1] = files /\ p'.strs[j][2] = j
                                  /\ p'.strs[j] \notin freed'
    BY <1>3 DEF ParserOwns
  <2>1. CASE j = k
    <3>1. p'.strs[j] = new BY <1>5, <2>1
    <3>2. new \notin freed
      <4> SUFFICES ASSUME new \in freed PROVE FALSE OBVIOUS
      <4>1. new[3] < p.strs[new[2]][3] BY <1>10 DEF HeapInv, FreedBefore
      <4>2. new[3] < old[3] BY <1>10, <4>1 DEF old
      <4> QED BY <1>7, <1>10, <4>2
    <3>3. new # old BY <1>7, <1>10
    <3> QED BY <1>7, <1>9, <1>10, <2>1, <3>1, <3>2, <3>3
  <2>2. CASE j # k
    <3>1. p'.strs[j] = p.strs[j] BY <1>5, <2>2
    <3>2. /\ p.strs[j][3] \in Nat
          /\ p.strs[j] # Null => /\ p.strs[j][1] = files /\ p.strs[j][2] = j
                                 /\ p.strs[j] \notin freed
      BY DEF HeapInv, ParserOwns, Reading
    <3> QED BY <1>7, <1>9, <2>2, <3>1, <3>2
  <2> QED BY <2>1, <2>2
<1> QED BY <1>3, <1>4, <1>5, <1>9, <1>11, <1>12, <1>13

\* pgr_configure: what it frees is owned by nobody afterwards.
LEMMA ApplyStep ==
    ASSUME HeapInv, Apply
    PROVE  HeapInv'
<1> DEFINE slots == [k \in StrKeys |-> Dropped(k)]
           keys == IF reload THEN HealthStrs ELSE StrKeys
<1>1. files \in Nat /\ DOMAIN ctx.strs = StrKeys BY DEF HeapInv, Tables
<1>2. Free(slots) /\ ParserFreed /\ phase = "apply" /\ files' = files BY DEF Apply
<1>3. phase' \in {"up", "launch"} BY DEF Apply
<1>4. ctx'.strs = Updated(keys, p.strs, ctx.strs, Null) BY DEF Apply
<1>5. /\ DOMAIN ctx'.strs = StrKeys
      /\ \A k \in StrKeys : ctx'.strs[k] = IF k \in keys /\ p.strs[k] # Null
                                           THEN p.strs[k] ELSE ctx.strs[k]
  BY <1>1, <1>4 DEF Updated
<1>6. ASSUME NEW k \in StrKeys
      PROVE  /\ ctx.strs[k] \notin freed
             /\ ctx.strs[k] # Null =>
                   /\ ctx.strs[k][2] = k /\ ctx.strs[k][1] \in Nat
                   /\ ctx.strs[k][3] \in Nat /\ ctx.strs[k][1] < files
  BY <1>2 DEF HeapInv, ContextOwns, Reading
<1>7. ASSUME NEW k \in StrKeys
      PROVE  /\ p.strs[k][3] \in Nat
             /\ p.strs[k] # Null => /\ p.strs[k][1] = files /\ p.strs[k][2] = k
                                    /\ p.strs[k] \notin freed
  BY <1>2 DEF HeapInv, ParserOwns, Reading
<1>8. DOMAIN slots = StrKeys /\ \A k \in StrKeys : slots[k] = Dropped(k) OBVIOUS
<1>9. ASSUME NEW k \in StrKeys, slots[k] # Null
      PROVE  /\ slots[k][2] = k /\ slots[k][1] \in Nat /\ slots[k][3] \in Nat
             /\ slots[k][1] <= files /\ slots[k] \notin freed
             /\ slots[k] # ctx'.strs[k]
  <2>1. slots[k] = Dropped(k) /\ p.strs[k] # Null BY <1>8, <1>9 DEF Dropped
  <2>2. CASE k \in HealthStrs
    <3>1. slots[k] = ctx.strs[k] BY <2>1, <2>2 DEF Dropped
    <3>2. k \in keys BY <2>2
    <3>3. ctx'.strs[k] = p.strs[k] BY <1>5, <2>1, <3>2
    <3> QED BY <1>1, <1>6, <1>7, <1>9, <2>1, <3>1, <3>3
  <2>3. CASE k \notin HealthStrs
    <3>1. slots[k] = p.strs[k] /\ reload BY <1>9, <2>1, <2>3 DEF Dropped
    <3>2. k \notin keys BY <2>3, <3>1
    <3>3. ctx'.strs[k] = ctx.strs[k] BY <1>5, <3>2
    <3> QED BY <1>1, <1>6, <1>7, <1>9, <3>1, <3>3
  <2> QED BY <2>2, <2>3
<1>10. ASSUME NEW k \in StrKeys
       PROVE  /\ ctx'.strs[k] \notin freed
              /\ ctx'.strs[k] # Null =>
                    /\ ctx'.strs[k][2] = k /\ ctx'.strs[k][1] \in Nat
                    /\ ctx'.strs[k][3] \in Nat /\ ctx'.strs[k][1] <= files
  BY <1>1, <1>5, <1>6, <1>7
<1> HIDE DEF slots, keys
<1>11. /\ ~refreed'
       /\ \A x \in freed' : \/ x \in freed
                            \/ \E s \in DOMAIN slots : slots[s] # Null /\ x = slots[s]
  <2>1. ~refreed BY DEF HeapInv
  <2>2. \A s \in DOMAIN slots : slots[s] # Null => slots[s] \notin freed BY <1>8, <1>9
  <2>3. \A s, r \in DOMAIN slots : slots[s] # Null /\ slots[s] = slots[r] => s = r
    BY <1>8, <1>9
  <2> QED BY <1>2, <2>1, <2>2, <2>3, FreeStep
<1>12. ASSUME NEW x \in freed', x \notin freed
       PROVE  \E s \in StrKeys : slots[s] # Null /\ x = slots[s]
  BY <1>8, <1>11, <1>12
<1>13. ContextOwns'
  <2> SUFFICES ASSUME NEW k \in StrKeys PROVE ctx'.strs[k] \notin freed'
    BY <1>2, <1>3, <1>10 DEF ContextOwns, Reading
  <2> SUFFICES ASSUME ctx'.strs[k] \in freed' PROVE FALSE OBVIOUS
  <2>1. PICK s \in StrKeys : slots[s] # Null /\ ctx'.strs[k] = slots[s] BY <1>10, <1>12
  <2>2. slots[s][2] = s /\ slots[s] # ctx'.strs[s] BY <1>9, <2>1
  <2>3. s = k BY <1>10, <2>1, <2>2
  <2> QED BY <2>1, <2>2, <2>3
<1>14. FreedBefore'
  <2> SUFFICES ASSUME NEW s \in freed'
               PROVE  s[2] \in StrKeys /\ s[1] \in Nat /\ s[3] \in Nat /\ s[1] <= files
    BY <1>2, <1>3 DEF FreedBefore
  <2>1. CASE s \in freed BY <2>1 DEF HeapInv, FreedBefore
  <2>2. CASE s \notin freed
    <3>1. PICK r \in StrKeys : slots[r] # Null /\ s = slots[r] BY <1>12, <2>2
    <3> QED BY <1>9, <3>1
  <2> QED BY <2>1, <2>2
<1>15. ParserOwns' BY <1>3 DEF ParserOwns, Reading
<1>16. Tables' BY <1>1, <1>2, <1>5 DEF Tables, ParserFreed
<1> QED BY <1>11, <1>13, <1>14, <1>15, <1>16 DEF HeapInv

\* pgr_deconfigure frees the strings of the context, each of them once.
LEMMA DeconfigureStep ==
    ASSUME HeapInv, Deconfigure
    PROVE  HeapInv'
<1>1. files \in Nat /\ DOMAIN ctx.strs = StrKeys BY DEF HeapInv, Tables
<1>2. /\ Free(ctx.strs) /\ phase = "up" /\ phase' = "stopped"
      /\ UNCHANGED <<files, p, ctx, f, t1>>
  BY DEF Deconfigure, parser, context
<1>3. ASSUME NEW k \in StrKeys
      PROVE  /\ ctx.strs[k] \notin freed
             /\ ctx.strs[k] # Null =>
                   /\ ctx.strs[k][2] = k /\ ctx.strs[k][1] \in Nat
                   /\ ctx.strs[k][3] \in Nat /\ ctx.strs[k][1] <= files
  BY <1>2 DEF HeapInv, ContextOwns
<1>4. /\ ~refreed'
      /\ \A x \in freed' :
            x \in freed \/ \E s \in DOMAIN ctx.strs : ctx.strs[s] # Null /\ x = ctx.strs[s]
  <2> DEFINE slots == ctx.strs
  <2>1. ~refreed /\ Free(slots) BY <1>2 DEF HeapInv
  <2>2. \A s \in DOMAIN slots : slots[s] # Null => slots[s] \notin freed BY <1>1, <1>3
  <2>3. \A s, r \in DOMAIN slots : slots[s] # Null /\ slots[s] = slots[r] => s = r
    BY <1>1, <1>3
  <2> HIDE DEF slots
  <2>4. /\ ~refreed'
        /\ \A x \in freed' : \/ x \in freed
                             \/ \E s \in DOMAIN slots : slots[s] # Null /\ x = slots[s]
    BY <2>1, <2>2, <2>3, FreeStep
  <2> QED BY <2>4 DEF slots
<1>5. FreedBefore'
  <2> SUFFICES ASSUME NEW s \in freed'
               PROVE  s[2] \in StrKeys /\ s[1] \in Nat /\ s[3] \in Nat /\ s[1] <= files
    BY <1>2 DEF FreedBefore
  <2>1. CASE s \in freed BY <2>1 DEF HeapInv, FreedBefore
  <2>2. CASE s \notin freed
    <3>1. PICK r \in StrKeys : ctx.strs[r] # Null /\ s = ctx.strs[r] BY <1>1, <1>4, <2>2
    <3> QED BY <1>3, <3>1
  <2> QED BY <2>1, <2>2
<1>6. ContextOwns' /\ ParserOwns' BY <1>2 DEF ContextOwns, ParserOwns, Reading
<1>7. Tables' BY <1>2 DEF Tables, HeapInv
<1> QED BY <1>4, <1>5, <1>6, <1>7 DEF HeapInv

\* A file is opened: its number is new.
LEMMA OpenStep ==
    ASSUME HeapInv, phase \in {"boot", "up"}, NEW pr, Open(pr)
    PROVE  HeapInv'
<1>1. /\ phase' = "parse" /\ files' = files + 1 /\ f' = "top" /\ ctx' = ctx
      /\ freed' = freed /\ refreed' = refreed
      /\ p' = [ints |-> [k \in IntKeys |-> Unset], strs |-> [k \in StrKeys |-> Null]]
  BY DEF Open, context, heap
<1>2. files \in Nat BY DEF HeapInv, Tables
<1>3. Tables' BY <1>1, <1>2 DEF Tables, HeapInv
<1>4. ContextOwns' BY <1>1, <1>2 DEF ContextOwns, HeapInv, Reading
<1>5. \A k \in StrKeys : p'.strs[k] = Null BY <1>1
<1>6. ParserOwns' BY <1>5, NullIsNoString DEF ParserOwns
<1>7. FreedBefore' BY <1>1, <1>2 DEF FreedBefore, HeapInv
<1> QED BY <1>1, <1>3, <1>4, <1>6, <1>7 DEF HeapInv

\* Any other step between two files leaves heap and context alone.
LEMMA IdleStep ==
    ASSUME HeapInv, phase # "stopped", phase' \notin {"parse", "apply", "stopped"},
           UNCHANGED <<files, ctx, freed, refreed>>,
           UNCHANGED <<p, f, t1>> \/ ParserFreed
    PROVE  HeapInv'
<1>1. Tables' BY DEF Tables, HeapInv, ParserFreed
<1>2. ContextOwns' BY DEF ContextOwns, HeapInv, Reading
<1>3. ParserOwns' BY DEF ParserOwns, Reading
<1>4. FreedBefore' BY DEF FreedBefore, HeapInv
<1> QED BY <1>1, <1>2, <1>3, <1>4 DEF HeapInv

\* One token.
LEMMA ParseStep ==
    ASSUME HeapInv, Parse
    PROVE  HeapInv'
<1>1. PICK e \in Emits : AnyParse(e.tok) BY DEF Parse, AnyParse
<1>2. phase = "parse" /\ Tables BY DEF Parse, HeapInv
<1>3. f' = "tls" /\ t1' # None => t1'[1] \in TlsStrs BY <1>1, <1>2, TlsArgument
<1>4. (\E k \in StrKeys : SetStr(k, e.tok)) \/ Quiet BY <1>1, <1>2, ParseEffect
<1>5. CASE \E k \in StrKeys : SetStr(k, e.tok)
  <2>1. PICK k \in StrKeys : SetStr(k, e.tok) BY <1>5
  <2>2. ContextOwns' /\ ParserOwns' /\ FreedBefore' /\ ~refreed'
        /\ files' = files /\ ctx' = ctx /\ "strs" \in DOMAIN p' /\ DOMAIN p'.strs = StrKeys
    BY <1>2, <2>1, SetStrStep
  <2>3. Tables' BY <1>2, <1>3, <2>2 DEF Tables
  <2> QED BY <2>2, <2>3 DEF HeapInv
<1>6. CASE Quiet
  <2>1. Tables' BY <1>2, <1>3, <1>6 DEF Tables, Quiet
  <2>2. ContextOwns' BY <1>2, <1>6 DEF ContextOwns, HeapInv, Reading, Quiet
  <2>3. ParserOwns' BY <1>2, <1>6 DEF ParserOwns, HeapInv, Reading, Quiet
  <2>4. FreedBefore' BY <1>2, <1>6 DEF FreedBefore, HeapInv, Quiet
  <2>5. ~refreed' BY <1>6 DEF HeapInv, Quiet
  <2> QED BY <2>1, <2>2, <2>3, <2>4, <2>5 DEF HeapInv
<1> QED BY <1>4, <1>5, <1>6

LEMMA HeapKept == Spec => []HeapInv
<1>1. Init => HeapInv
  BY NullIsNoString DEF Init, HeapInv, Tables, ContextOwns, ParserOwns, FreedBefore, Reading
<1>2. HeapInv /\ [Next]_vars => HeapInv'
  <2> SUFFICES ASSUME HeapInv, [Next]_vars PROVE HeapInv' OBVIOUS
  <2>1. CASE Boot BY <2>1, OpenStep DEF Boot
  <2>2. CASE Hup BY <2>2, OpenStep DEF Hup
  <2>3. CASE Parse BY <2>3, ParseStep
  <2>4. CASE Apply BY <2>4, ApplyStep
  <2>5. CASE Deconfigure BY <2>5, DeconfigureStep
  <2>6. CASE BootFails \/ OpenCrashes
    BY <2>6, IdleStep DEF BootFails, OpenCrashes, parser, context, heap
  <2>7. CASE ApplyCrashes BY <2>7, IdleStep DEF ApplyCrashes, parser, context, heap
  <2>8. CASE ApplyFails BY <2>8, IdleStep DEF ApplyFails, context, heap
  <2>9. CASE Launch
    <3>1. phase = "launch" /\ phase' \in {"failed", "crashed", "up"} BY <2>9 DEF Launch
    <3>2. UNCHANGED <<files, ctx, freed, refreed, p, f, t1>>
      BY <2>9 DEF Launch, parser, heap
    <3> QED BY <3>1, <3>2, IdleStep
  <2>10. CASE Refresh BY <2>10, IdleStep DEF Refresh, parser
  <2>11. CASE UNCHANGED vars
    BY <2>11 DEF vars, parser, context, heap, HeapInv, Tables, ContextOwns, ParserOwns,
                 FreedBefore, Reading
  <2> QED BY <2>1, <2>2, <2>3, <2>4, <2>5, <2>6, <2>7, <2>8, <2>9, <2>10, <2>11 DEF Next
<1> QED BY <1>1, <1>2, PTL DEF Spec

\* Over start-up, any number of reloads and the shutdown, no string of the
\* configuration is freed twice, and the context never names a freed one.
THEOREM StringsFreedOnce == Spec => []FreedOnce
<1>1. HeapInv => FreedOnce BY DEF HeapInv, ContextOwns, FreedOnce
<1> QED BY <1>1, HeapKept, PTL

-----------------------------------------------------------------------------
(* Types. *)

\* A token has a value, which is an unsigned int if it is a whole number.
Whole    == {"INTEGER", "TIME", "SIZE"}
Sound(t) == t[2] \in Nat /\ t[3] \in Nat /\ (t[1] \in Whole => t[2] < 2 * Half)

LexerTyped ==
    /\ pre \in Seq(Word) /\ left \in 0..MaxWords /\ Sound(again)
    /\ ended \in BOOLEAN /\ odd \in BOOLEAN

Values == [ints : [IntKeys -> Int32 \union {Unset}], strs : [StrKeys -> Str]]

ParserTyped ==
    /\ f \in {"none", "top", "backend", "health", "tls"}
    /\ p \in Values
    /\ bes \in Seq(Stanza) /\ current \in 1..Len(bes)
    /\ bes[1].id = Default
    /\ bes[1].tls # Unset /\ bes[1].lag # Unset /\ bes[1].weight # Unset

Server == [id : Nat, tls : Int32, lag : Int32, weight : Int32, strs : [HealthStrs -> Str]]

ContextTyped ==
    ctx \in [ints : [IntKeys -> Int32], strs : [StrKeys -> Str], backends : Seq(Server)]

\* What other threads took from the context.
Taken == [timeout : Int32, strs : [HealthStrs -> Nat]]

UseTyped ==
    /\ threads \in Int32 /\ cached \in Seq(Taken)
    /\ "boot" \in DOMAIN told /\ "watch" \in DOMAIN told

ProcessTyped ==
    /\ phase \in {"boot", "parse", "apply", "launch", "up", "failed", "crashed", "stopped"}
    /\ files \in 0..(MaxReloads + 1)
    /\ phase = "boot" => files = 0
    /\ phase \in {"parse", "apply", "launch", "up"} => files > 0
    /\ refreed \in BOOLEAN /\ stale \in BOOLEAN
    /\ freed \subseteq Str

Typed == LexerTyped /\ ParserTyped /\ ContextTyped /\ UseTyped /\ ProcessTyped

-----------------------------------------------------------------------------
(* What was said. *)

Settings == IntKeys \union StrKeys \union BackendKeys \union {"backend"}

\* Nothing is said twice of one setting.
Once(S) ==
    /\ S \subseteq (Nat \union {Global}) \X Settings \X Nat
    /\ \A s, r \in S : s[1] = r[1] /\ s[2] = r[2] => s = r

\* The value of a setting once the file that is read is applied.
IntNow(k) == IF p.ints[k] # Unset THEN p.ints[k] ELSE ctx.ints[k]
StrNow(k) == IF p.strs[k] # Null /\ (k \in HealthStrs \/ ~reload)
             THEN p.strs[k] ELSE ctx.strs[k]

SettingsSaid ==
    /\ \A k \in IntKeys : IntNow(k) = SpokenIn(said, Global, k, 0)
    /\ \A k \in StrKeys : Text(StrNow(k)) = SpokenIn(said, Global, k, 0)

\* At start-up the stanzas are what was said of each backend.
StanzasSaid ==
    /\ \A i, j \in 1..Len(bes) : bes[i].id = bes[j].id => i = j
    /\ \A s \in said : s[1] # Global => \E i \in 1..Len(bes) : bes[i].id = s[1]
    /\ \A s \in said : s[2] = "backend" => s[1] # Default /\ s[1] # Global
    /\ \A i \in 2..Len(bes) : <<bes[i].id, "backend", 0>> \in said
    /\ \A i \in 1..Len(bes) : \A k \in BackendKeys :
          bes[i][k] = SpokenIn(said, bes[i].id, k, IF i = 1 THEN Defaults[k] ELSE Unset)

\* Later the backends of the context are.
ServersSaid ==
    /\ {ctx.backends[i].id : i \in DOMAIN ctx.backends} =
           {s[1] : s \in {x \in said : x[2] = "backend"}}
    /\ \A i \in DOMAIN ctx.backends : \A k \in BackendKeys :
          ctx.backends[i][k] = SpokenIn(said, ctx.backends[i].id, k,
                                        SpokenIn(said, Default, k, Defaults[k]))

\* At start-up the strings that the backends will get are the ones said, and no
\* thread has taken anything.
HealthNow(k) == IF p.strs[k] # Null THEN Text(p.strs[k]) ELSE BuiltIn
HealthSaid ==
    /\ \A k \in HealthStrs : HealthNow(k) = SpokenIn(said, Global, k, BuiltIn)
    /\ cached = <<>>

\* Later the backends have them, and so has the watcher.
BackendStrsSaid ==
    \A i \in DOMAIN ctx.backends : \A k \in HealthStrs :
        Text(ctx.backends[i].strs[k]) = Started(k)
WatcherSaid ==
    ~stale => \A i \in DOMAIN cached :
        /\ cached[i].timeout = SpokenIn(told.watch, Global, "timeout", 0)
        /\ \A k \in HealthStrs : cached[i].strs[k] = Started(k)
\* And as many workers as the first file says will be started, or were.
ThreadsSaid ==
    IF phase = "launch" THEN ctx.ints["workers"] = SpokenIn(told.boot, Global, "workers", 0)
    ELSE threads = SpokenIn(told.boot, Global, "workers", 0)
TakenSaid == BackendStrsSaid /\ WatcherSaid /\ ThreadsSaid

StartingUp == ~reload /\ phase \in {"boot", "parse", "apply"}
Going      == phase \in {"boot", "parse", "apply", "launch", "up"}

Untouched ==
    /\ \A k \in IntKeys : p.ints[k] = Unset
    /\ \A k \in StrKeys : p.strs[k] = Null

\* As long as every word was taken for what it is, the settings that will be in
\* force once the file is applied are the ones said so far.
AllSaid ==
    /\ Once(said) /\ SettingsSaid
    /\ StartingUp => StanzasSaid /\ HealthSaid
    /\ ~StartingUp => ServersSaid /\ TakenSaid
    /\ ~Reading => Untouched
    /\ phase = "boot" => bes = <<Defaults>>

SaidInv == ~odd => again = None /\ (Going => AllSaid)

-----------------------------------------------------------------------------
(* The lexer: its tokens have the values they should have. *)

\* The type of a text or a number, and what a token says that was read well.
Valued   == {"BAREWORD", "ADDRESS", "QSTRING", "DECIMAL"} \union Whole
Exact(t) == /\ t[1] \in Valued => t[2] = t[3]
            /\ t[1] = "DECIMAL" => t[2] < Half

\* % and \div with a divisor that is not known.
LEMMA WrappedIs ==
    ASSUME NEW n \in Nat
    PROVE  Wrapped(n) \in 0..(2 * Half - 1) /\ (n < 2 * Half => Wrapped(n) = n)
<1>1. PICK m \in Nat \ {0} : m = 2 * Half BY ConfigAssumption
<1>2. /\ n \div m \in Nat /\ n % m \in 0..(m - 1)
      /\ n = m * (n \div m) + (n % m)
  BY SMT
<1>3. ASSUME n < m PROVE n % m = n
  <2>1. PICK q \in Nat : q = n \div m BY <1>2
  <2>2. PICK r \in 0..(m - 1) : r = n % m BY <1>2
  <2>3. n = m * q + r BY <1>2, <2>1, <2>2
  <2>4. CASE q = 0 BY <2>2, <2>3, <2>4
  <2>5. CASE q # 0
    <3>1. PICK k \in Nat : q = k + 1
      <4>1. q - 1 \in Nat /\ q = (q - 1) + 1 BY <2>5
      <4> QED BY <4>1
    <3>2. m * q = m * k + m /\ m * k \in Nat BY <3>1
    <3> QED BY <1>3, <2>3, <3>2
  <2> QED BY <2>4, <2>5
<1> QED BY <1>1, <1>2, <1>3 DEF Wrapped

LEMMA DecimalIs ==
    ASSUME NEW n \in Nat
    PROVE  Decimal(n) \in Nat /\ (n < Half => Decimal(n) = n)
<1>1. PICK q \in Nat : q = n \div 100 OBVIOUS
<1>2. PICK r \in Nat : r = n % 100 OBVIOUS
<1>3. n = 100 * q + r BY <1>1, <1>2
<1>4. Wrapped(q) \in Nat /\ (q < 2 * Half => Wrapped(q) = q) BY WrappedIs
<1>5. Decimal(n) = 100 * Wrapped(q) + r BY <1>1, <1>2 DEF Decimal
<1>6. PICK h \in Nat : h = Half BY ConfigAssumption
<1>7. n < h => q < 2 * h BY <1>3
<1> QED BY <1>3, <1>4, <1>5, <1>6, <1>7

\* No word is of the class of a token.
LEMMA WordsAreNoTokens ==
    ASSUME NEW w \in Word
    PROVE  w[1] \notin Valued /\ w[2] \in Nat /\ (w[1] = "rounded" => w[2] > 0)
<1>1. w[1] \in Keywords \union Classes /\ w[2] \in Nat /\ (w[1] = "rounded" => w[2] > 0)
  BY DEF Word
<1>2. DOMAIN LogLevel = {"error", "info", "debug"} BY DEF LogLevel
<1>3. DOMAIN TlsMode = {"off", "on", "skipverify"} BY DEF TlsMode
<1>4. w[1] \notin Valued
  <2> USE DEF Valued, Whole
  <2>1. CASE w[1] \in IntKeys BY <2>1 DEF IntKeys, HealthInts
  <2>2. CASE w[1] \in StrKeys BY <2>2 DEF StrKeys, HealthStrs, StartupStrs, TopStrs, TlsStrs
  <2>3. CASE w[1] \in BackendKeys BY <2>3 DEF BackendKeys
  <2>4. CASE w[1] \in Classes BY <2>4, Zenon DEF Classes
  <2>5. CASE w[1] \in DOMAIN LogLevel \union DOMAIN TlsMode BY <1>2, <1>3, <2>5
  <2>6. CASE w[1] \in {"backend", "default", "health"} BY <2>6
  <2> QED BY <1>1, <2>1, <2>2, <2>3, <2>4, <2>5, <2>6 DEF Keywords
<1> QED BY <1>1, <1>4

\* A number of minutes is never got past.
LEMMA MinutesStick ==
    ASSUME NEW w, NEW atEnd, w[1] = "minutes"
    PROVE  StuckOn(w, atEnd) = TokenOf(w, atEnd)
<1>1. DOMAIN LogLevel = {"error", "info", "debug"} BY DEF LogLevel
<1>2. DOMAIN TlsMode = {"off", "on", "skipverify"} BY DEF TlsMode
<1>3. w[1] \notin Keywords
  BY <1>1, <1>2 DEF Keywords, IntKeys, HealthInts, StrKeys, HealthStrs, StartupStrs, TopStrs,
                    TlsStrs, BackendKeys
<1> QED BY <1>3 DEF StuckOn

\* A word: the token it becomes, and the one the lexer may get stuck on.
LEMMA WordIs ==
    ASSUME NEW w \in Word, NEW atEnd \in BOOLEAN
    PROVE  /\ Sound(TokenOf(w, atEnd)) /\ Sound(StuckOn(w, atEnd))
           /\ ~Odd(w, atEnd) => StuckOn(w, atEnd) = None /\ Exact(TokenOf(w, atEnd))
<1>1. w[1] \notin Valued /\ w[2] \in Nat /\ (w[1] = "rounded" => w[2] > 0) BY WordsAreNoTokens
<1>2. PICK n \in Nat : n = w[2] BY <1>1
<1>3. Says(w) \in Nat /\ (w[1] # "minutes" => Says(w) = n) BY <1>2 DEF Says
<1>4. PICK x : x = Lexeme(w, atEnd) OBVIOUS
<1>5. TokenOf(w, atEnd) = <<x[1], x[2], Says(w)>> BY <1>4 DEF TokenOf
<1>6. Wrapped(n) \in 0..(2 * Half - 1) /\ (n < 2 * Half => Wrapped(n) = n) BY WrappedIs
<1>7. Decimal(n) \in Nat /\ (n < Half => Decimal(n) = n) BY DecimalIs
<1>8. w[1] = "rounded" => Decimal(n - 1) \in Nat
  <2>1. w[1] = "rounded" => n - 1 \in Nat BY <1>1, <1>2
  <2> QED BY <2>1, DecimalIs
<1>9. Half \in Nat BY ConfigAssumption
<1>10. /\ x[2] \in Nat
       /\ x[1] \in Whole => x[2] < 2 * Half
       /\ ~Odd(w, atEnd) /\ x[1] \in Valued => x[2] = n
       /\ ~Odd(w, atEnd) /\ x[1] = "DECIMAL" => x[2] < Half
  <2>1. CASE w[1] = "bare"
    <3>1. x[1] = "BAREWORD" /\ x[2] = IF atEnd THEN Cut(n) ELSE n
      BY <1>2, <1>4, <2>1 DEF Lexeme, Numbers
    <3>2. ~Odd(w, atEnd) => ~atEnd BY <2>1 DEF Odd, StuckOn, None
    <3> QED BY <3>1, <3>2 DEF Cut, Whole
  <2>2. CASE w[1] = "addr"
    <3>1. x[1] = "ADDRESS" /\ x[2] = IF atEnd THEN Cut(n) ELSE n
      BY <1>2, <1>4, <2>2 DEF Lexeme, Numbers
    <3>2. ~Odd(w, atEnd) => ~atEnd BY <2>2 DEF Odd, StuckOn, None
    <3> QED BY <3>1, <3>2 DEF Cut, Whole
  <2>3. CASE w[1] = "quoted"
    <3>1. x[1] = "QSTRING" /\ x[2] = n BY <1>2, <1>4, <2>3 DEF Lexeme, Numbers
    <3> QED BY <3>1 DEF Whole
  <2>4. CASE w[1] = "abbrev"
    <3>1. x[1] = "default" /\ x[2] = 0 BY <1>4, <2>4 DEF Lexeme, Numbers
    <3> QED BY <3>1 DEF Whole, Valued
  <2>5. CASE w[1] = "on" /\ atEnd
    <3>1. x[1] = "off" /\ x[2] = 0 BY <1>4, <2>5 DEF Lexeme, Numbers
    <3> QED BY <3>1 DEF Whole, Valued
  <2>6. CASE w[1] \in {"unclosed", "junk"}
    <3>1. x[1] = "ERROR" /\ x[2] = 0 BY <1>4, <2>6 DEF Lexeme, Numbers
    <3> QED BY <3>1 DEF Whole, Valued
  <2>7. CASE w[1] \in Numbers
    <3>1. x = LexNumeric(w, atEnd) BY <1>4, <2>7, Zenon DEF Lexeme, Numbers
    <3>2. CASE w[1] \in {"int", "minutes"}
      <4>1. x[1] \in {"TIME", "INTEGER"} /\ x[2] = Wrapped(n) BY <1>2, <3>1, <3>2 DEF LexNumeric
      <4>2. ~Odd(w, atEnd) => n < 2 * Half
        <5>1. CASE w[1] = "int" BY <1>2, <1>9, <5>1 DEF Odd
        <5>2. CASE w[1] = "minutes"
          <6>1. StuckOn(w, atEnd) = TokenOf(w, atEnd) BY <5>2, MinutesStick
          <6>2. TokenOf(w, atEnd)[1] # "none" BY <1>5, <4>1
          <6> QED BY <6>1, <6>2 DEF Odd, None
        <5> QED BY <3>2, <5>1, <5>2
      <4> QED BY <1>6, <1>9, <4>1, <4>2
    <3>3. CASE w[1] = "size"
      <4>1. x[1] = "SIZE" /\ x[2] = Wrapped(n) BY <1>2, <3>1, <3>3 DEF LexNumeric
      <4>2. ~Odd(w, atEnd) => n < 2 * Half BY <1>2, <1>9, <3>3 DEF Odd
      <4> QED BY <1>6, <1>9, <4>1, <4>2
    <3>4. CASE w[1] = "time"
      <4>1. x[1] = "TIME" /\ x[2] = Wrapped(n) BY <1>2, <3>1, <3>4 DEF LexNumeric
      <4>2. ~Odd(w, atEnd) => n < 2 * Half BY <1>2, <1>9, <3>4 DEF Odd
      <4> QED BY <1>6, <1>9, <4>1, <4>2
    <3>5. CASE w[1] \in {"dec", "addr1"}
      <4>1. x[1] = "DECIMAL" /\ x[2] = Decimal(n) BY <1>2, <3>1, <3>5 DEF LexNumeric
      <4>2. ~Odd(w, atEnd) => n < Half
        <5>1. CASE w[1] = "dec" BY <1>2, <1>9, <5>1 DEF Odd
        <5>2. CASE w[1] = "addr1" BY <5>2 DEF Odd, StuckOn, None
        <5> QED BY <3>5, <5>1, <5>2
      <4> QED BY <1>7, <1>9, <4>1, <4>2 DEF Whole
    <3>6. CASE w[1] = "rounded"
      <4>1. x[1] = "DECIMAL" /\ x[2] = Decimal(n - 1) BY <1>2, <3>1, <3>6 DEF LexNumeric
      <4>2. Odd(w, atEnd) BY <3>6 DEF Odd
      <4> QED BY <1>8, <3>6, <4>1, <4>2 DEF Whole
    <3> QED BY <2>7, <3>2, <3>3, <3>4, <3>5, <3>6 DEF Numbers
  <2>8. CASE /\ w[1] \notin {"bare", "addr", "quoted", "abbrev", "unclosed", "junk"} \union Numbers
             /\ ~(w[1] = "on" /\ atEnd)
    <3>1. x = w BY <1>4, <2>8 DEF Lexeme, Numbers
    <3> QED BY <1>1, <1>2, <3>1 DEF Valued
  <2> QED BY <2>1, <2>2, <2>3, <2>4, <2>5, <2>6, <2>7, <2>8
<1>11. Sound(TokenOf(w, atEnd)) BY <1>3, <1>5, <1>10 DEF Sound
<1>12. Sound(StuckOn(w, atEnd))
  <2>1. StuckOn(w, atEnd) \in {<<"ERROR", 0, 0>>, TokenOf(w, atEnd), <<"TIME", 0, 0>>,
                               <<"authdb", 0, 0>>, None}
    BY DEF StuckOn
  <2>2. \A c \in {"ERROR", "TIME", "authdb", "none"} : Sound(<<c, 0, 0>>) BY ConfigAssumption DEF Sound
  <2> QED BY <1>11, <2>1, <2>2 DEF None
<1>13. ASSUME ~Odd(w, atEnd) PROVE StuckOn(w, atEnd) = None /\ Exact(TokenOf(w, atEnd))
  <2>1. StuckOn(w, atEnd) = None BY <1>13 DEF Odd
  <2>2. w[1] # "minutes"
    <3> SUFFICES ASSUME w[1] = "minutes" PROVE FALSE OBVIOUS
    <3>1. StuckOn(w, atEnd) = TokenOf(w, atEnd) BY MinutesStick
    <3>2. x = LexNumeric(w, atEnd) BY <1>4, Zenon DEF Lexeme, Numbers
    <3>3. x[1] \in {"TIME", "INTEGER"} BY <3>2 DEF LexNumeric
    <3> QED BY <1>5, <2>1, <3>1, <3>3 DEF None
  <2> QED BY <1>3, <1>5, <1>10, <1>13, <2>1, <2>2 DEF Exact
<1> QED BY <1>11, <1>12, <1>13

\* One call of emit: the token has a value, the lexer stays typed, and what the
\* lexer has not mistaken so far is what it says.
LEMMA EmitIs ==
    ASSUME LexerTyped, NEW e \in Emits
    PROVE  /\ Sound(e.tok) /\ e.pre \in Seq(Word) /\ e.left \in 0..MaxWords
           /\ Sound(e.again) /\ e.ended \in BOOLEAN /\ e.odd \in BOOLEAN
           /\ odd => e.odd
           /\ ~e.odd /\ again = None => e.again = None /\ Exact(e.tok)
<1>1. ASSUME NEW w \in Word, NEW atEnd \in BOOLEAN, NEW pre2 \in Seq(Word),
             NEW left2 \in 0..MaxWords, e = EmitWord(w, atEnd, pre2, left2)
      PROVE  /\ Sound(e.tok) /\ e.pre \in Seq(Word) /\ e.left \in 0..MaxWords
             /\ Sound(e.again) /\ e.ended \in BOOLEAN /\ e.odd \in BOOLEAN
             /\ odd => e.odd
             /\ ~e.odd => e.again = None /\ Exact(e.tok)
  <2>1. /\ e.tok = TokenOf(w, atEnd) /\ e.again = StuckOn(w, atEnd)
        /\ e.pre = pre2
    BY <1>1 DEF EmitWord
  <2>2. e.left = IF atEnd \/ w[1] = "unclosed" THEN 0 ELSE left2 BY <1>1 DEF EmitWord
  <2>3. e.ended = (w[1] = "junk") /\ e.odd = (odd \/ Odd(w, atEnd)) BY <1>1, Zenon DEF EmitWord
  <2>4. e.left \in 0..MaxWords BY <2>2, ConfigAssumption
  <2>5. e.ended \in BOOLEAN /\ e.odd \in BOOLEAN /\ (odd => e.odd)
    BY <2>3, Zenon DEF LexerTyped
  <2>6. ~e.odd => ~Odd(w, atEnd) BY <2>3, Zenon
  <2> QED BY <2>1, <2>4, <2>5, <2>6, WordIs
<1>2. CASE again # None
  <2>1. e = EmitAgain BY <1>2 DEF Emits
  <2>2. e.tok = again /\ e.pre = pre /\ e.left = left /\ e.again = again /\ e.odd = odd
    BY <2>1 DEF EmitAgain
  <2>3. e.ended = (again[1] = "ERROR") BY <2>1, Zenon DEF EmitAgain
  <2>4. e.ended \in BOOLEAN BY <2>3, Zenon
  <2> QED BY <1>2, <2>2, <2>4 DEF LexerTyped
<1>3. CASE again = None /\ pre # <<>>
  <2>1. e = EmitWord(Head(pre), FALSE, Tail(pre), left) BY <1>3, Zenon DEF Emits
  <2>2. Head(pre) \in Word /\ Tail(pre) \in Seq(Word) BY <1>3 DEF LexerTyped
  <2>3. left \in 0..MaxWords /\ FALSE \in BOOLEAN BY DEF LexerTyped
  <2> QED BY <1>1, <2>1, <2>2, <2>3
<1>4. CASE again = None /\ pre = <<>>
  <2>1. e = EmitEos \/ e \in EmitFree BY <1>4 DEF Emits
  <2>2. CASE e = EmitEos
    <3>1. /\ e.tok = <<"EOS", 0, 0>> /\ e.pre = pre /\ e.left = left /\ e.again = again
          /\ e.odd = odd /\ e.ended = TRUE
      BY <2>2 DEF EmitEos
    <3>2. Sound(e.tok) /\ Exact(e.tok) BY <3>1 DEF Sound, Exact, Whole, Valued
    <3> QED BY <3>1, <3>2 DEF LexerTyped
  <2>3. CASE e \in EmitFree
    <3>1. PICK w \in IF left > 0 THEN Words ELSE {}, atEnd \in BOOLEAN :
              e = EmitWord(w, atEnd, pre, left - 1)
      BY <2>3 DEF EmitFree
    <3>2. left > 0 /\ w \in Words OBVIOUS
    <3>3. w \in Word /\ pre \in Seq(Word) /\ left - 1 \in 0..MaxWords
      BY <3>2, ConfigAssumption DEF LexerTyped
    <3> QED BY <1>1, <3>1, <3>3
  <2> QED BY <2>1, <2>2, <2>3
<1> QED BY <1>2, <1>3, <1>4

\* The ints that are accepted are those of the file, where these are what it says.
LEMMA IntIs ==
    ASSUME NEW t, Sound(t), t[1] \in Whole, AsInt(t) >= 0
    PROVE  AsInt(t) \in Int32 /\ (Exact(t) => AsInt(t) = t[3])
<1>1. PICK n \in Nat : n = t[2] BY DEF Sound
<1>2. PICK h \in Nat : h = Half BY ConfigAssumption
<1>3. n < 2 * h BY <1>1, <1>2 DEF Sound
<1>4. AsInt(t) = IF n >= h THEN n - 2 * h ELSE n BY <1>1, <1>2 DEF AsInt
<1>5. n < h /\ AsInt(t) = n BY <1>3, <1>4
<1>6. Exact(t) => n = t[3] BY <1>1 DEF Exact, Valued
<1> QED BY <1>2, <1>5, <1>6 DEF Int32

LEMMA WeightIs ==
    ASSUME NEW t, Sound(t), t[1] \in {"INTEGER", "DECIMAL"}, NEW n \in Weights(t), n >= 0
    PROVE  n \in Int32 /\ (Exact(t) => n = t[3])
<1>1. CASE t[1] = "INTEGER"
  <2>1. n = AsInt(t) BY <1>1 DEF Weights
  <2> QED BY <1>1, <2>1, IntIs DEF Whole
<1>2. CASE t[1] = "DECIMAL"
  <2>1. PICK v \in Nat : v = t[2] BY DEF Sound
  <2>2. PICK h \in Nat : h = Half /\ h > 100 BY ConfigAssumption
  <2>3. n \in IF v >= h THEN {-h, h - 1} ELSE {v} BY <1>2, <2>1, <2>2 DEF Weights
  <2>4. n \in 0..(h - 1) /\ (v < h => n = v) BY <2>2, <2>3
  <2>5. Exact(t) => v = t[3] /\ v < h BY <1>2, <2>1, <2>2 DEF Exact, Valued
  <2> QED BY <2>2, <2>4, <2>5 DEF Int32
<1> QED BY <1>1, <1>2

\* What a parse function does with a token.
Sets(t) ==
    \/ \E fn \in {f, "none"} : Stop(fn)
    \/ \E fn \in {"top", "backend", "health", "tls"} : \E u : Accept(fn, u)
    \/ \E k \in StrKeys : IsText(t) /\ SetStr(k, t)
    \/ \E k \in IntKeys, n \in Int32, says \in Nat :
          SetInt(k, n, says) /\ (Exact(t) => n = says)
    \/ \E k \in BackendKeys, n \in Int32, says \in Nat :
          SetBackend(k, n, says) /\ (Exact(t) => n = says)
    \/ \E id \in Nat : BackendNamed(id)

LEMMA ParseIs ==
    ASSUME Tables, NEW t, Sound(t), AnyParse(t)
    PROVE  Sets(t)
<1>1. ASSUME NEW fn \in {f, "none"}, Stop(fn) PROVE Sets(t) BY <1>1 DEF Sets
<1>2. ASSUME NEW fn \in {"top", "backend", "health", "tls"}, NEW u, Accept(fn, u) PROVE Sets(t)
  BY <1>2 DEF Sets
<1>3. ASSUME NEW k, k \in TopStrs \union TlsStrs \union HealthStrs, IsText(t), SetStr(k, t)
      PROVE  Sets(t)
  BY <1>3 DEF Sets, StrKeys, StartupStrs
<1>4. t[2] \in Nat /\ t[3] \in Nat BY DEF Sound
<1>5. ASSUME t[1] \in Whole, AsInt(t) >= 0 \/ AsInt(t) >= 1
      PROVE  AsInt(t) \in Int32 /\ (Exact(t) => AsInt(t) = t[3])
  <2>1. AsInt(t) \in Int BY <1>4, ConfigAssumption DEF AsInt
  <2>2. PICK n \in Int : n = AsInt(t) BY <2>1
  <2>3. n >= 0 BY <1>5, <2>2
  <2> QED BY <1>5, <2>2, <2>3, IntIs
<1>6. ASSUME NEW k \in HealthInts \union {"workers"}, t[1] \in Whole,
             AsInt(t) >= 0 \/ AsInt(t) >= 1, SetInt(k, AsInt(t), t[3])
      PROVE  Sets(t)
  <2>1. k \in IntKeys BY DEF IntKeys
  <2> QED BY <1>4, <1>5, <1>6, <2>1 DEF Sets
<1>7. ASSUME t[1] \in DOMAIN LogLevel, SetInt("log", LogLevel[t[1]], LogLevel[t[1]])
      PROVE  Sets(t)
  <2>1. LogLevel[t[1]] \in Int32 /\ LogLevel[t[1]] \in Nat
    BY <1>7, ConfigAssumption DEF LogLevel, Int32
  <2>2. "log" \in IntKeys BY DEF IntKeys
  <2> QED BY <1>7, <2>1, <2>2 DEF Sets
<1>8. ASSUME NEW id \in Nat, BackendNamed(id) PROVE Sets(t) BY <1>8 DEF Sets
<1>9. CASE ParseTop(t) BY <1>1, <1>2, <1>9 DEF ParseTop
<1>10. CASE ParseTopArg(t)
  <2> DEFINE T1 == t1[1] \in TopStrs /\ IsText(t)
             T2 == t1[1] = "log" /\ t[1] \in DOMAIN LogLevel
             T3 == t1[1] = "workers" /\ t[1] \in Whole /\ AsInt(t) >= 1
             T4 == t1[1] \in {"tls", "health"} /\ t[1] = "{"
             T5 == t1[1] = "backend" /\ t[1] = "default"
             T6 == t1[1] = "backend" /\ IsText(t)
             T7 == t1[1] = "named" /\ t[1] = "{"
  <2>1. \/ T1 /\ SetStr(t1[1], t)
        \/ T2 /\ SetInt("log", LogLevel[t[1]], LogLevel[t[1]])
        \/ T3 /\ SetInt("workers", AsInt(t), t[3])
        \/ T4 /\ Accept(t1[1], None)
        \/ T5 /\ BackendNamed(Default)
        \/ T6 /\ BackendNamed(t[2])
        \/ T7 /\ Accept("backend", None)
        \/ Stop(f)
    BY <1>10, Zenon DEF ParseTopArg, Whole
  <2>2. Default \in Nat BY DEF Default
  <2>3. CASE T1 /\ SetStr(t1[1], t) BY <1>3, <2>3
  <2>4. CASE T2 /\ SetInt("log", LogLevel[t[1]], LogLevel[t[1]]) BY <1>7, <2>4
  <2>5. CASE T3 /\ SetInt("workers", AsInt(t), t[3]) BY <1>6, <2>5
  <2>6. CASE T4 /\ Accept(t1[1], None) BY <1>2, <2>6, Zenon
  <2>7. CASE T7 /\ Accept("backend", None) BY <1>2, <2>7, Zenon
  <2>8. CASE Stop(f) BY <1>1, <2>8, Zenon
  <2> QED BY <1>4, <1>8, <2>1, <2>2, <2>3, <2>4, <2>5, <2>6, <2>7, <2>8, Zenon
<1>11. CASE ParseBackend(t) BY <1>1, <1>2, <1>11, Zenon DEF ParseBackend
<1>12. CASE ParseBackendArg(t)
  <2>1. ASSUME NEW k \in BackendKeys, NEW n \in Int32, NEW says \in Nat,
               SetBackend(k, n, says), Exact(t) => n = says
        PROVE  Sets(t)
    BY <2>1 DEF Sets
  <2>2. {"tls", "lag", "weight"} = BackendKeys BY DEF BackendKeys
  <2>3. ASSUME t[1] \in DOMAIN TlsMode, SetBackend("tls", TlsMode[t[1]], TlsMode[t[1]])
        PROVE  Sets(t)
    <3>1. TlsMode[t[1]] \in Int32 /\ TlsMode[t[1]] \in Nat
      BY <2>3, ConfigAssumption DEF TlsMode, Int32
    <3> QED BY <2>1, <2>2, <2>3, <3>1
  <2>4. ASSUME t[1] \in {"INTEGER", "SIZE"}, AsInt(t) >= 0, SetBackend("lag", AsInt(t), t[3])
        PROVE  Sets(t)
    <3>1. t[1] \in Whole BY <2>4 DEF Whole
    <3> QED BY <1>4, <1>5, <2>1, <2>2, <2>4, <3>1
  <2>5. ASSUME t[1] \in {"INTEGER", "DECIMAL"}, NEW n \in Weights(t),
               IF n >= 0 THEN SetBackend("weight", n, t[3]) ELSE Stop(f)
        PROVE  Sets(t)
    <3>1. CASE n >= 0
      <4>1. n \in Int32 /\ (Exact(t) => n = t[3]) BY <2>5, <3>1, WeightIs
      <4> QED BY <1>4, <2>1, <2>2, <2>5, <3>1, <4>1
    <3>2. CASE ~(n >= 0) BY <1>1, <2>5, <3>2
    <3> QED BY <3>1, <3>2
  <2> QED BY <1>1, <1>12, <2>3, <2>4, <2>5 DEF ParseBackendArg
<1>13. CASE ParseHealth(t) BY <1>1, <1>2, <1>13, Zenon DEF ParseHealth
<1>14. CASE ParseHealthArg(t)
  <2>1. \/ t1[1] \in HealthStrs /\ IsText(t) /\ SetStr(t1[1], t)
        \/ t1[1] \in HealthInts /\ t[1] \in {"INTEGER", "TIME"} /\ AsInt(t) >= 0
              /\ SetInt(t1[1], AsInt(t), t[3])
        \/ Stop(f)
    BY <1>14, Zenon DEF ParseHealthArg
  <2>2. {"INTEGER", "TIME"} \subseteq Whole BY DEF Whole
  <2> QED BY <1>1, <1>3, <1>6, <2>1, <2>2
<1>15. CASE ParseTls(t) BY <1>1, <1>2, <1>15, Zenon DEF ParseTls
<1>16. CASE ParseTlsArg(t) BY <1>1, <1>3, <1>16 DEF ParseTlsArg, Tables
<1> QED BY <1>9, <1>10, <1>11, <1>12, <1>13, <1>14, <1>15, <1>16 DEF AnyParse

-----------------------------------------------------------------------------
(* Every step keeps the types. *)

LEMMA FreeTyped ==
    ASSUME freed \subseteq Str, refreed \in BOOLEAN, stale \in BOOLEAN,
           NEW slots, \A s \in DOMAIN slots : slots[s] \in Str, Free(slots)
    PROVE  freed' \subseteq Str /\ refreed' \in BOOLEAN /\ stale' \in BOOLEAN
<1>1. freed' \subseteq Str BY DEF Free
<1>2. stale' \in BOOLEAN BY DEF Free
<1>3. refreed' \in BOOLEAN BY Zenon DEF Free
<1> QED BY <1>1, <1>2, <1>3

LEMMA StrIs ==
    ASSUME NEW k \in StrKeys \union {"null", "copy"}, NEW i \in Nat, NEW j \in Nat, NEW n \in Nat
    PROVE  <<i, k, j, n>> \in Str
<1>1. PICK K : K = StrKeys \union {"null", "copy"} OBVIOUS
<1>2. Str = Nat \X K \X Nat \X Nat BY <1>1 DEF Str
<1>3. k \in K BY <1>1
<1> QED BY <1>2, <1>3

LEMMA NullIsStr == Null \in Str
BY StrIs DEF Null

\* One token.
LEMMA ParseTyped ==
    ASSUME Typed, Tables, Parse
    PROVE  Typed'
<1>1. PICK e \in Emits : Lexed(e) /\ AnyParse(e.tok) BY Zenon DEF Parse, AnyParse
<1>2. phase = "parse" /\ LexerTyped /\ ParserTyped /\ ContextTyped /\ UseTyped /\ ProcessTyped
  BY DEF Parse, Typed
<1>3. PICK t : t = e.tok OBVIOUS
<1>4. LexerTyped' BY <1>1, <1>2, EmitIs DEF LexerTyped, Lexed
<1>5. Sound(t) BY <1>1, <1>2, <1>3, EmitIs
<1>6. Sets(t) BY <1>1, <1>3, <1>5, ParseIs
<1>7. ASSUME NEW fn \in {f, "none"}, Stop(fn) PROVE Typed'
  <2>1. ParserTyped' BY <1>2, <1>7 DEF Stop, ParserTyped
  <2>2. ContextTyped' BY <1>2, <1>7 DEF Stop, ContextTyped, context
  <2>3. ProcessTyped' BY <1>2, <1>7 DEF Stop, ProcessTyped, heap
  <2>4. UseTyped' BY <1>2, <1>7 DEF Stop, UseTyped, context
  <2> QED BY <1>4, <2>1, <2>2, <2>3, <2>4 DEF Typed
<1>8. ASSUME NEW fn, NEW u, Continue(fn, u)
      PROVE  phase' = phase /\ f' = fn /\ UNCHANGED files /\ ContextTyped' /\ UseTyped'
  BY <1>2, <1>8 DEF Continue, ContextTyped, UseTyped, context
<1>9. ASSUME NEW fn, NEW u, Continue(fn, u), UNCHANGED heap PROVE ProcessTyped'
  BY <1>2, <1>8, <1>9 DEF ProcessTyped, heap
<1>10. ASSUME NEW fn \in {"top", "backend", "health", "tls"}, NEW u, Accept(fn, u) PROVE Typed'
  <2>1. ParserTyped' BY <1>2, <1>10 DEF Accept, Continue, ParserTyped
  <2> QED BY <1>4, <1>8, <1>9, <1>10, <2>1 DEF Typed, Accept
<1>11. ASSUME NEW k \in StrKeys, SetStr(k, t) PROVE Typed'
  <2>1. p \in Values /\ files \in Nat /\ t[2] \in Nat
    BY <1>2, <1>5, ConfigAssumption DEF ParserTyped, ProcessTyped, Sound
  <2>2. p.strs[k] \in Str BY <2>1 DEF Values
  <2>3. <<files, k, p.strs[k][3] + 1, t[2]>> \in Str
    <3>1. p.strs[k][3] \in Nat BY <2>2 DEF Str
    <3> QED BY <2>1, <3>1, StrIs
  <2>4. p' \in Values
    <3>1. PICK new \in Str : new = <<files, k, p.strs[k][3] + 1, t[2]>> BY <2>3
    <3>2. p' = [p EXCEPT !.strs[k] = new] BY <1>11, <3>1, Zenon DEF SetStr
    <3> QED BY <2>1, <3>2 DEF Values
  <2>5. ParserTyped' BY <1>2, <1>11, <2>4 DEF ParserTyped, SetStr, Continue
  <2>6. freed' \subseteq Str /\ refreed' \in BOOLEAN /\ stale' \in BOOLEAN
    <3>1. Free([old |-> p.strs[k]]) BY <1>11 DEF SetStr
    <3>2. PICK slots : slots = [old |-> p.strs[k]] OBVIOUS
    <3>3. \A s \in DOMAIN slots : slots[s] \in Str BY <2>2, <3>2
    <3> QED BY <1>2, <3>1, <3>2, <3>3, FreeTyped DEF ProcessTyped
  <2>7. ProcessTyped' BY <1>2, <1>8, <1>11, <2>6 DEF ProcessTyped, SetStr
  <2> QED BY <1>4, <1>8, <1>11, <2>5, <2>7 DEF Typed, SetStr
<1>12. ASSUME NEW k \in IntKeys, NEW n \in Int32, NEW says, SetInt(k, n, says) PROVE Typed'
  <2>1. p \in Values /\ p' = [p EXCEPT !.ints[k] = n] BY <1>2, <1>12 DEF ParserTyped, SetInt
  <2>2. p' \in Values BY <2>1 DEF Values
  <2>3. ParserTyped' BY <1>2, <1>12, <2>2 DEF ParserTyped, SetInt, Continue
  <2> QED BY <1>4, <1>8, <1>9, <1>12, <2>3 DEF Typed, SetInt
<1>13. ASSUME NEW k \in BackendKeys, NEW n \in Int32, NEW says, SetBackend(k, n, says) PROVE Typed'
  <2>1. bes \in Seq(Stanza) /\ current \in 1..Len(bes) BY <1>2 DEF ParserTyped
  <2>2. bes' = [bes EXCEPT ![current][k] = n] BY <1>13 DEF SetBackend
  <2>3. PICK b \in Stanza : b = bes[current] BY <2>1
  <2>4. PICK c : c = [b EXCEPT ![k] = n] OBVIOUS
  <2>5. Unset \notin Int32 BY ConfigAssumption DEF Unset, Int32
  <2>6. /\ c \in Stanza /\ c.id = b.id
        /\ b.tls # Unset => c.tls # Unset
        /\ b.lag # Unset => c.lag # Unset
        /\ b.weight # Unset => c.weight # Unset
    BY <2>3, <2>4, <2>5 DEF Stanza, BackendKeys
  <2>7. bes' = [bes EXCEPT ![current] = c] BY <2>1, <2>2, <2>3, <2>4
  <2>8. bes' \in Seq(Stanza) /\ Len(bes') = Len(bes) BY <2>1, <2>6, <2>7
  <2>9. bes'[1] = IF current = 1 THEN c ELSE bes[1] BY <2>1, <2>7
  <2>10. ParserTyped' BY <1>2, <1>13, <2>3, <2>6, <2>8, <2>9 DEF ParserTyped, SetBackend, Continue
  <2> QED BY <1>4, <1>8, <1>9, <1>13, <2>10 DEF Typed, SetBackend
<1>14. ASSUME NEW id \in Nat, BackendNamed(id) PROVE Typed'
  <2>1. bes \in Seq(Stanza) /\ current \in 1..Len(bes) BY <1>2 DEF ParserTyped
  <2>2. MakeBackend(id) \in Stanza BY DEF MakeBackend, Stanza
  <2>3. bes' \in Seq(Stanza) /\ current' \in 1..Len(bes') /\ bes'[1] = bes[1]
    <3>1. CASE \E i \in 1..Len(bes) : bes[i].id = id
      <4>1. bes' = bes /\ current' = CHOOSE i \in 1..Len(bes) : bes[i].id = id
        BY <1>14, <3>1, Zenon DEF BackendNamed
      <4> QED BY <2>1, <3>1, <4>1
    <3>2. CASE ~\E i \in 1..Len(bes) : bes[i].id = id
      <4>1. bes' = Append(bes, MakeBackend(id)) /\ current' = Len(bes) + 1
        BY <1>14, <3>2, Zenon DEF BackendNamed
      <4> QED BY <2>1, <2>2, <4>1
    <3> QED BY <3>1, <3>2
  <2>4. Continue(f, <<"named", 0, 0>>) /\ UNCHANGED <<p, heap>>
    BY <1>14, Zenon DEF BackendNamed
  <2>5. ParserTyped' BY <1>2, <1>8, <2>3, <2>4 DEF ParserTyped
  <2> QED BY <1>4, <1>8, <1>9, <2>4, <2>5 DEF Typed
<1> QED BY <1>6, <1>7, <1>10, <1>11, <1>12, <1>13, <1>14 DEF Sets

\* What a file starts from, and what is left when it has been applied.
LEMMA EmptyIs ==
    /\ <<Defaults>> \in Seq(Stanza) /\ Len(<<Defaults>>) = 1 /\ <<Defaults>>[1] = Defaults
    /\ Defaults.id = Default
    /\ Defaults.tls # Unset /\ Defaults.lag # Unset /\ Defaults.weight # Unset
    /\ [ints |-> [k \in IntKeys |-> Unset], strs |-> [k \in StrKeys |-> Null]] \in Values
<1>1. 0 \in Int32 /\ 1 \in Int32 /\ 100 \in Int32 BY ConfigAssumption DEF Int32
<1>2. Defaults \in Stanza BY <1>1 DEF Defaults, Stanza, Default
<1>3. [ints |-> [k \in IntKeys |-> Unset], strs |-> [k \in StrKeys |-> Null]] \in Values
  BY NullIsStr DEF Values
<1> QED BY <1>2, <1>3 DEF Defaults, Default, Unset

LEMMA OpenTyped ==
    ASSUME Typed, NEW pr \in Preambles, Open(pr), files <= MaxReloads
    PROVE  Typed'
<1>1. LexerTyped'
  <2>1. Sound(None) BY DEF Sound, None, Whole
  <2>2. pr \in Seq(Word) /\ MaxWords \in 0..MaxWords BY ConfigAssumption
  <2> QED BY <2>1, <2>2 DEF Typed, LexerTyped, Open
<1>2. ParserTyped' BY EmptyIs DEF Typed, ParserTyped, Open
<1>3. ContextTyped' BY DEF Typed, ContextTyped, Open, context
<1>4. files' \in 0..(MaxReloads + 1) /\ files' > 0
  BY ConfigAssumption DEF Typed, ProcessTyped, Open
<1>5. ProcessTyped' BY <1>4 DEF Typed, ProcessTyped, Open, heap
<1>6. UseTyped' BY DEF Typed, UseTyped, Open, context
<1> QED BY <1>1, <1>2, <1>3, <1>5, <1>6 DEF Typed

LEMMA FreedTyped ==
    ASSUME Typed, ParserFreed, UNCHANGED odd
    PROVE  LexerTyped' /\ ParserTyped'
<1>1. LexerTyped'
  <2>1. Sound(None) BY DEF Sound, None, Whole
  <2>2. 0 \in 0..MaxWords /\ <<>> \in Seq(Word) BY ConfigAssumption
  <2> QED BY <2>1, <2>2 DEF Typed, LexerTyped, ParserFreed
<1>2. ParserTyped' BY EmptyIs DEF Typed, ParserTyped, ParserFreed
<1> QED BY <1>1, <1>2

\* The servers made from the stanzas have values, the defaults being set.
LEMMA BackendsTyped ==
    ASSUME ParserTyped
    PROVE  Backends \in Seq(Server) /\ Len(Backends) = Len(bes) - 1
<1>1. bes \in Seq(Stanza) /\ Len(bes) \in Nat \ {0} BY DEF ParserTyped
<1>2. PICK n \in Nat : n = Len(bes) - 1 BY <1>1
<1>3. ASSUME NEW i \in 1..n PROVE Backends[i] \in Server
  <2>1. PICK b \in Stanza : b = bes[i + 1] BY <1>1, <1>2
  <2>2. PICK d \in Stanza : d = bes[1] /\ d.tls # Unset /\ d.lag # Unset /\ d.weight # Unset
    BY <1>1 DEF ParserTyped
  <2>3. PICK strs : strs = [k \in HealthStrs |-> GetStr(k, i)] OBVIOUS
  <2>4. strs \in [HealthStrs -> Str]
    <3>1. ASSUME NEW k \in HealthStrs PROVE GetStr(k, i) \in Str
      <4>1. k \in StrKeys BY DEF StrKeys
      <4>2. p.strs[k] \in Str BY <4>1 DEF ParserTyped, Values
      <4>3. <<1, "copy", i, BuiltIn>> \in Str BY StrIs DEF BuiltIn
      <4> QED BY <4>2, <4>3 DEF GetStr
    <3> QED BY <2>3, <3>1
  <2>5. Backends[i] = [id |-> b.id, tls |-> GetInt(d.tls, b.tls), lag |-> GetInt(d.lag, b.lag),
                       weight |-> GetInt(d.weight, b.weight), strs |-> strs]
    BY <1>2, <2>1, <2>2, <2>3 DEF Backends
  <2>6. /\ GetInt(d.tls, b.tls) \in Int32 /\ GetInt(d.lag, b.lag) \in Int32
        /\ GetInt(d.weight, b.weight) \in Int32 /\ b.id \in Nat
    BY <2>1, <2>2 DEF GetInt, Stanza
  <2> QED BY <2>4, <2>5, <2>6 DEF Server
<1>4. DOMAIN Backends = 1..n BY <1>2 DEF Backends
<1>5. Backends \in [1..n -> Server]
  <2>1. Backends = [i \in 1..n |-> Backends[i]] BY <1>2 DEF Backends
  <2> QED BY <1>3, <2>1
<1> QED BY <1>2, <1>4, <1>5

\* A table of the context, updated from one of the parser.
LEMMA UpdatedIs ==
    ASSUME NEW S, NEW T, NEW unset, NEW keys, NEW old \in [S -> T], NEW new \in [S -> T \union {unset}]
    PROVE  /\ Updated(keys, new, old, unset) \in [S -> T]
           /\ \A k \in S : Updated(keys, new, old, unset)[k] =
                              IF k \in keys /\ new[k] # unset THEN new[k] ELSE old[k]
BY DEF Updated

LEMMA DroppedTyped ==
    ASSUME ParserTyped, ContextTyped, NEW k \in StrKeys
    PROVE  Dropped(k) \in Str
<1>1. p.strs[k] \in Str /\ ctx.strs[k] \in Str BY DEF ParserTyped, Values, ContextTyped
<1> QED BY <1>1, NullIsStr DEF Dropped

LEMMA ApplyTyped ==
    ASSUME Typed, Apply
    PROVE  Typed'
<1>1. LexerTyped' /\ ParserTyped' BY FreedTyped DEF Apply
<1>2. ParserTyped /\ ContextTyped /\ ProcessTyped BY DEF Typed
<1>3. ContextTyped'
  <2>1. ctx.ints \in [IntKeys -> Int32] /\ ctx.strs \in [StrKeys -> Str] /\ ctx.backends \in Seq(Server)
    BY <1>2 DEF ContextTyped
  <2>2. p.ints \in [IntKeys -> Int32 \union {Unset}] /\ p.strs \in [StrKeys -> Str \union {Null}]
    BY <1>2 DEF ParserTyped, Values
  <2>3. ctx'.ints \in [IntKeys -> Int32] BY <2>1, <2>2, UpdatedIs DEF Apply
  <2>4. ctx'.strs \in [StrKeys -> Str] BY <2>1, <2>2, UpdatedIs DEF Apply
  <2>5. ctx'.backends \in Seq(Server) BY <1>2, <2>1, BackendsTyped DEF Apply
  <2>6. ctx' = [ints |-> ctx'.ints, strs |-> ctx'.strs, backends |-> ctx'.backends] BY DEF Apply
  <2> QED BY <2>3, <2>4, <2>5, <2>6 DEF ContextTyped
<1>4. ProcessTyped'
  <2>1. PICK slots : slots = [k \in StrKeys |-> Dropped(k)] OBVIOUS
  <2>2. \A s \in DOMAIN slots : slots[s] \in Str BY <1>2, <2>1, DroppedTyped
  <2>3. Free(slots) BY <2>1 DEF Apply
  <2>4. freed' \subseteq Str /\ refreed' \in BOOLEAN /\ stale' \in BOOLEAN
    BY <1>2, <2>2, <2>3, FreeTyped DEF ProcessTyped
  <2>5. phase = "apply" /\ phase' \in {"up", "launch"} /\ UNCHANGED files BY DEF Apply
  <2> QED BY <1>2, <2>4, <2>5 DEF ProcessTyped
<1>5. UseTyped' BY DEF Typed, UseTyped, Apply
<1> QED BY <1>1, <1>3, <1>4, <1>5 DEF Typed

\* What the watcher takes for backend i.
LEMMA RefreshTakes ==
    ASSUME ContextTyped, Refresh
    PROVE  /\ cached' \in Seq(Taken) /\ DOMAIN cached' = DOMAIN ctx.backends
           /\ \A i \in DOMAIN cached' : cached'[i].timeout = ctx.ints["timeout"]
           /\ ~stale' => ~stale /\ \A i \in DOMAIN cached' : \A k \in HealthStrs :
                 cached'[i].strs[k] = Text(ctx.backends[i].strs[k])
<1>1. PICK reused \in BOOLEAN :
          cached' = [i \in DOMAIN ctx.backends |->
                       [timeout |-> ctx.ints["timeout"],
                        strs    |-> [k \in HealthStrs |->
                                        ReadText(ctx.backends[i].strs[k], reused)]]]
  BY Zenon DEF Refresh
<1>2. PICK B \in Seq(Server) : B = ctx.backends BY DEF ContextTyped
<1>3. PICK v \in Int32 : v = ctx.ints["timeout"] BY DEF ContextTyped, IntKeys, HealthInts
<1>4. PICK n \in Nat : n = Len(B) OBVIOUS
<1>5. ASSUME NEW i \in 1..n, NEW k \in HealthStrs
      PROVE  /\ ReadText(B[i].strs[k], reused) \in Nat
             /\ B[i].strs[k] \notin freed => ReadText(B[i].strs[k], reused) = Text(B[i].strs[k])
  <2>1. B[i] \in Server BY <1>4
  <2>2. B[i].strs[k] \in Str BY <2>1 DEF Server
  <2>3. Text(B[i].strs[k]) \in Nat BY <2>2 DEF Str, Text
  <2> QED BY <2>3 DEF ReadText, Garbage
<1>6. DOMAIN B = 1..n BY <1>4
<1>7. ASSUME NEW i \in 1..n
      PROVE  /\ cached'[i] \in Taken /\ cached'[i].timeout = v
             /\ \A k \in HealthStrs : cached'[i].strs[k] = ReadText(B[i].strs[k], reused)
  <2>1. PICK strs : strs = [k \in HealthStrs |-> ReadText(B[i].strs[k], reused)] OBVIOUS
  <2>2. strs \in [HealthStrs -> Nat] BY <1>5, <2>1
  <2>3. cached'[i] = [timeout |-> v, strs |-> strs] BY <1>1, <1>2, <1>3, <1>6, <2>1
  <2> QED BY <2>1, <2>2, <2>3 DEF Taken
<1>8. DOMAIN cached' = 1..n BY <1>1, <1>2, <1>6
<1>9. cached' \in Seq(Taken)
  <2>1. cached' = [i \in 1..n |-> cached'[i]] BY <1>1, <1>2, <1>6
  <2>2. cached' \in [1..n -> Taken] BY <1>7, <2>1
  <2> QED BY <2>2
<1>10. ASSUME ~stale'
       PROVE  ~stale /\ \A i \in 1..n : \A k \in HealthStrs : B[i].strs[k] \notin freed
  <2>1. stale' = (stale \/ \E i \in DOMAIN ctx.backends : \E k \in HealthStrs :
                               ctx.backends[i].strs[k] \in freed)
    BY Zenon DEF Refresh
  <2>2. ~stale /\ ~\E i \in DOMAIN ctx.backends : \E k \in HealthStrs :
                               ctx.backends[i].strs[k] \in freed
    BY <1>10, <2>1, Zenon
  <2> QED BY <1>2, <1>6, <2>2
<1> QED BY <1>2, <1>3, <1>5, <1>6, <1>7, <1>8, <1>9, <1>10

LEMMA TypesKept == Spec => []Typed
<1>1. Init => Typed
  <2> SUFFICES ASSUME Init PROVE Typed OBVIOUS
  <2>1. LexerTyped
    <3>1. Sound(None) BY DEF Sound, None, Whole
    <3>2. 0 \in 0..MaxWords /\ <<>> \in Seq(Word) BY ConfigAssumption
    <3> QED BY <3>1, <3>2 DEF Init, LexerTyped
  <2>2. ParserTyped BY EmptyIs DEF Init, ParserTyped
  <2>3. ContextTyped
    <3>1. 0 \in Int32 BY ConfigAssumption DEF Int32
    <3>2. <<>> \in Seq(Server) OBVIOUS
    <3> QED BY <3>1, <3>2, NullIsStr DEF Init, ContextTyped
  <2>4. ProcessTyped
    <3>1. 0 \in 0..(MaxReloads + 1) BY ConfigAssumption
    <3>2. phase = "boot" /\ files = 0 /\ freed = {} BY DEF Init
    <3>3. refreed \in BOOLEAN /\ stale \in BOOLEAN BY DEF Init
    <3> QED BY <3>1, <3>2, <3>3 DEF ProcessTyped
  <2>5. UseTyped
    <3>1. 0 \in Int32 BY ConfigAssumption DEF Int32
    <3>2. <<>> \in Seq(Taken) OBVIOUS
    <3> QED BY <3>1, <3>2 DEF Init, UseTyped
  <2> QED BY <2>1, <2>2, <2>3, <2>4, <2>5 DEF Typed
<1>2. Typed /\ Tables /\ [Next]_vars => Typed'
  <2> SUFFICES ASSUME Typed, Tables, [Next]_vars PROVE Typed' OBVIOUS
  <2>1. CASE Boot
    <3>1. files <= MaxReloads BY <2>1, ConfigAssumption DEF Boot, Typed, ProcessTyped
    <3> QED BY <2>1, <3>1, OpenTyped DEF Boot
  <2>2. CASE Hup BY <2>2, OpenTyped DEF Hup
  <2>3. CASE Parse BY <2>3, ParseTyped
  <2>4. CASE Apply BY <2>4, ApplyTyped
  <2>5. ASSUME UNCHANGED <<files, lexer, parser, ctx, heap>>, UseTyped',
               phase' \in {"failed", "crashed", "up"},
               phase \in {"boot", "apply", "launch", "up"},
               phase' = "up" => phase = "launch"
        PROVE  Typed'
    <3>1. LexerTyped' BY <2>5 DEF lexer, Typed, LexerTyped
    <3>2. ParserTyped' BY <2>5 DEF parser, Typed, ParserTyped
    <3>3. ContextTyped' BY <2>5 DEF Typed, ContextTyped
    <3>4. ProcessTyped' BY <2>5 DEF heap, Typed, ProcessTyped
    <3> QED BY <2>5, <3>1, <3>2, <3>3, <3>4 DEF Typed
  <2>6. ASSUME UNCHANGED context PROVE UseTyped' /\ UNCHANGED ctx
    BY <2>6 DEF context, Typed, UseTyped
  <2>7. CASE BootFails BY <2>5, <2>6, <2>7 DEF BootFails
  <2>8. CASE ApplyCrashes BY <2>5, <2>6, <2>8 DEF ApplyCrashes
  <2>9. CASE OpenCrashes BY <2>5, <2>6, <2>9 DEF OpenCrashes
  <2>10. CASE ApplyFails
    <3>1. LexerTyped' /\ ParserTyped' BY <2>10, FreedTyped DEF ApplyFails
    <3>2. ContextTyped' BY <2>10 DEF ApplyFails, context, Typed, ContextTyped
    <3>3. ProcessTyped' BY <2>10 DEF ApplyFails, heap, Typed, ProcessTyped
    <3> QED BY <2>6, <2>10, <3>1, <3>2, <3>3 DEF Typed, ApplyFails
  <2>11. CASE Launch
    <3>1. phase = "launch" /\ phase' \in {"failed", "crashed", "up"} BY <2>11 DEF Launch
    <3>2. UNCHANGED <<files, lexer, parser, ctx, cached, told, heap>> BY <2>11 DEF Launch
    <3>3. ctx.ints["workers"] \in Int32 BY DEF Typed, ContextTyped, IntKeys
    <3>4. threads' \in Int32 BY <2>11, <3>3 DEF Launch, Typed, UseTyped
    <3>5. UseTyped' BY <3>2, <3>4 DEF Typed, UseTyped
    <3> QED BY <2>5, <3>1, <3>2, <3>5
  <2>12. CASE Refresh
    <3>1. LexerTyped' BY <2>12 DEF Refresh, lexer, Typed, LexerTyped
    <3>2. ParserTyped' BY <2>12 DEF Refresh, parser, Typed, ParserTyped
    <3>3. ContextTyped' BY <2>12 DEF Refresh, Typed, ContextTyped
    <3>4. stale' \in BOOLEAN BY <2>12, Zenon DEF Refresh
    <3>5. ProcessTyped' BY <2>12, <3>4 DEF Refresh, Typed, ProcessTyped
    <3>6. UseTyped' BY <2>12, RefreshTakes DEF Refresh, Typed, UseTyped
    <3> QED BY <3>1, <3>2, <3>3, <3>5, <3>6 DEF Typed
  <2>13. CASE Deconfigure
    <3>1. LexerTyped' BY <2>13 DEF Deconfigure, lexer, Typed, LexerTyped
    <3>2. ParserTyped' BY <2>13 DEF Deconfigure, parser, Typed, ParserTyped
    <3>3. ContextTyped' BY <2>13 DEF Deconfigure, context, Typed, ContextTyped
    <3>4. \A s \in DOMAIN ctx.strs : ctx.strs[s] \in Str BY DEF Typed, ContextTyped
    <3>5. freed' \subseteq Str /\ refreed' \in BOOLEAN /\ stale' \in BOOLEAN
      BY <2>13, <3>4, FreeTyped DEF Deconfigure, Typed, ProcessTyped
    <3>6. ProcessTyped' BY <2>13, <3>5 DEF Deconfigure, Typed, ProcessTyped
    <3> QED BY <2>6, <2>13, <3>1, <3>2, <3>3, <3>6 DEF Typed, Deconfigure
  <2>14. CASE UNCHANGED vars
    <3> USE <2>14 DEF vars, Typed
    <3>1. LexerTyped' BY DEF lexer, LexerTyped
    <3>2. ParserTyped' BY DEF parser, ParserTyped
    <3>3. ContextTyped' BY DEF context, ContextTyped
    <3>4. ProcessTyped' BY DEF heap, ProcessTyped
    <3> QED BY <2>6, <3>1, <3>2, <3>3, <3>4
  <2> QED BY <2>1, <2>2, <2>3, <2>4, <2>7, <2>8, <2>9, <2>10, <2>11, <2>12, <2>13, <2>14 DEF Next
<1>3. HeapInv => Tables BY DEF HeapInv
<1> QED BY <1>1, <1>2, <1>3, HeapKept, PTL DEF Spec

\* The variables of config.c hold values of their types, over start-up, any
\* number of reloads and the shutdown, whatever the words of the files: what an
\* int of the context holds fits into an int, and is not negative.
THEOREM ConfigTyped == Spec => []TypeOK
<1>1. ASSUME Typed PROVE TypeOK
  <2>1. /\ phase \in {"boot", "parse", "apply", "launch", "up", "failed", "crashed", "stopped"}
        /\ files \in 0..(MaxReloads + 1) /\ left \in 0..MaxWords
        /\ {ended, refreed, stale, odd} \subseteq BOOLEAN
        /\ freed \subseteq Str
    BY <1>1 DEF Typed, LexerTyped, ProcessTyped
  <2>2. /\ f \in {"none", "top", "backend", "health", "tls"}
        /\ p.ints \in [IntKeys -> Int32 \union {Unset}] /\ p.strs \in [StrKeys -> Str]
        /\ bes \in Seq(Stanza) /\ current \in 1..Len(bes)
    BY <1>1 DEF Typed, ParserTyped, Values
  <2>3. ctx.ints \in [IntKeys -> Int32] /\ ctx.strs \in [StrKeys -> Str] /\ ctx.backends \in Seq(Server)
    BY <1>1 DEF Typed, ContextTyped
  <2>4. ASSUME NEW i \in DOMAIN ctx.backends
        PROVE  /\ \A k \in BackendKeys : ctx.backends[i][k] \in Int32
               /\ ctx.backends[i].strs \in [HealthStrs -> Str]
    <3>1. PICK b \in Server : b = ctx.backends[i] BY <2>3
    <3>2. b.strs \in [HealthStrs -> Str] BY DEF Server
    <3>3. b["tls"] \in Int32 /\ b["lag"] \in Int32 /\ b["weight"] \in Int32 BY DEF Server
    <3> QED BY <3>1, <3>2, <3>3 DEF BackendKeys
  <2>5. threads \in Int32 /\ cached \in Seq([timeout : Int32, strs : [HealthStrs -> Nat]])
    BY <1>1 DEF Typed, UseTyped, Taken
  <2> QED BY <2>1, <2>2, <2>3, <2>4, <2>5 DEF TypeOK
<1> QED BY <1>1, TypesKept, PTL

-----------------------------------------------------------------------------
(* Statements. *)

LEMMA SpokenIs ==
    ASSUME NEW S, Once(S), NEW c, NEW k, NEW d
    PROVE  /\ \A v : <<c, k, v>> \in S => SpokenIn(S, c, k, d) = v
           /\ (~\E s \in S : s[1] = c /\ s[2] = k) => SpokenIn(S, c, k, d) = d
           /\ (\E s \in S : s[1] = c /\ s[2] = k) =>
                 \E v \in Nat : <<c, k, v>> \in S /\ SpokenIn(S, c, k, d) = v
<1>1. ASSUME NEW s \in S, s[1] = c, s[2] = k
      PROVE  s = <<c, k, s[3]>> /\ s[3] \in Nat /\ SpokenIn(S, c, k, d) = s[3]
  <2>1. s = <<c, k, s[3]>> /\ s[3] \in Nat BY <1>1 DEF Once
  <2>2. PICK r \in S : r = (CHOOSE x \in S : x[1] = c /\ x[2] = k) /\ r[1] = c /\ r[2] = k BY <1>1
  <2>3. r = s BY <1>1, <2>2 DEF Once
  <2> QED BY <1>1, <2>1, <2>2, <2>3 DEF SpokenIn
<1>2. ASSUME NEW v, <<c, k, v>> \in S PROVE SpokenIn(S, c, k, d) = v
  <2>1. <<c, k, v>>[1] = c /\ <<c, k, v>>[2] = k /\ <<c, k, v>>[3] = v OBVIOUS
  <2> QED BY <1>1, <1>2, <2>1
<1>3. (~\E s \in S : s[1] = c /\ s[2] = k) => SpokenIn(S, c, k, d) = d BY DEF SpokenIn
<1> QED BY <1>1, <1>2, <1>3

\* What does not depend on the default was said.
LEMMA SpokenElse ==
    ASSUME NEW S, Once(S), NEW c, NEW k, NEW d
    PROVE  SpokenIn(S, c, k, d) = IF SpokenIn(S, c, k, Unset) # Unset
                                  THEN SpokenIn(S, c, k, Unset) ELSE d
<1>1. CASE \E s \in S : s[1] = c /\ s[2] = k
  <2>1. PICK v \in Nat : <<c, k, v>> \in S BY <1>1, SpokenIs
  <2>2. SpokenIn(S, c, k, d) = v /\ SpokenIn(S, c, k, Unset) = v BY <2>1, SpokenIs
  <2>3. v # Unset BY DEF Unset
  <2> QED BY <2>2, <2>3
<1>2. CASE ~\E s \in S : s[1] = c /\ s[2] = k
  BY <1>2, SpokenIs
<1> QED BY <1>1, <1>2

\* S with a statement that replaces what it said of the same setting.
With(S, c, k, v) == {s \in S : s[1] # c \/ s[2] # k} \union {<<c, k, v>>}

LEMMA WithIs ==
    ASSUME NEW S, Once(S), NEW c \in Nat \union {Global}, NEW k \in Settings, NEW v \in Nat
    PROVE  /\ Once(With(S, c, k, v))
           /\ \A d : SpokenIn(With(S, c, k, v), c, k, d) = v
           /\ \A c2, k2, d : c2 # c \/ k2 # k =>
                 SpokenIn(With(S, c, k, v), c2, k2, d) = SpokenIn(S, c2, k2, d)
<1>1. PICK T : T = With(S, c, k, v) OBVIOUS
<1>2. /\ <<c, k, v>> \in T
      /\ \A s \in S : s[1] # c \/ s[2] # k => s \in T
      /\ \A s \in T : (s \in S /\ (s[1] # c \/ s[2] # k)) \/ s = <<c, k, v>>
  BY <1>1 DEF With
<1>3. <<c, k, v>>[1] = c /\ <<c, k, v>>[2] = k OBVIOUS
<1>4. Once(T)
  <2>1. T \subseteq (Nat \union {Global}) \X Settings \X Nat
    <3>1. <<c, k, v>> \in (Nat \union {Global}) \X Settings \X Nat OBVIOUS
    <3> QED BY <1>2, <3>1 DEF Once
  <2>2. \A s, r \in T : s[1] = r[1] /\ s[2] = r[2] => s = r BY <1>2, <1>3 DEF Once
  <2> QED BY <2>1, <2>2 DEF Once
<1>5. ASSUME NEW d PROVE SpokenIn(T, c, k, d) = v BY <1>2, <1>4, SpokenIs
<1>6. ASSUME NEW c2, NEW k2, NEW d, c2 # c \/ k2 # k
      PROVE  SpokenIn(T, c2, k2, d) = SpokenIn(S, c2, k2, d)
  <2>1. CASE \E s \in S : s[1] = c2 /\ s[2] = k2
    <3>1. PICK u \in Nat : <<c2, k2, u>> \in S BY <2>1, SpokenIs
    <3>2. <<c2, k2, u>>[1] = c2 /\ <<c2, k2, u>>[2] = k2 OBVIOUS
    <3>3. <<c2, k2, u>> \in T BY <1>2, <1>6, <3>1, <3>2
    <3> QED BY <1>4, <3>1, <3>3, SpokenIs
  <2>2. CASE ~\E s \in S : s[1] = c2 /\ s[2] = k2
    <3>1. ~\E s \in T : s[1] = c2 /\ s[2] = k2 BY <1>2, <1>3, <1>6, <2>2
    <3> QED BY <1>4, <2>2, <3>1, SpokenIs
  <2> QED BY <2>1, <2>2
<1> QED BY <1>1, <1>4, <1>5, <1>6

-----------------------------------------------------------------------------
(* Every step keeps what was said. *)

\* The settings of the three kinds differ.
LEMMA KeysDiffer ==
    /\ \A k \in StrKeys : k \notin IntKeys /\ k \notin BackendKeys /\ k # "backend" /\ k \in Settings
    /\ \A k \in IntKeys : k \notin BackendKeys /\ k # "backend" /\ k \in Settings
    /\ \A k \in BackendKeys : k # "backend" /\ k \in Settings
                              /\ k \notin IntKeys /\ k \notin HealthStrs
    /\ "backend" \in Settings /\ "backend" \notin IntKeys \union HealthStrs
    /\ HealthStrs \subseteq StrKeys
<1> USE DEF Settings
<1>1. ASSUME NEW k \in StrKeys
      PROVE  k \notin IntKeys /\ k \notin BackendKeys /\ k # "backend" /\ k # "null"
  BY DEF StrKeys, HealthStrs, StartupStrs, TopStrs, TlsStrs, IntKeys, HealthInts, BackendKeys
<1>2. ASSUME NEW k \in IntKeys PROVE k \notin BackendKeys /\ k # "backend"
  BY DEF IntKeys, HealthInts, BackendKeys
<1>3. ASSUME NEW k \in BackendKeys PROVE k # "backend" /\ k \notin IntKeys /\ k \notin HealthStrs
  BY DEF IntKeys, HealthInts, BackendKeys, HealthStrs
<1>4. "backend" \notin IntKeys \union HealthStrs BY DEF IntKeys, HealthInts, HealthStrs
<1> QED BY <1>1, <1>2, <1>3, <1>4 DEF StrKeys

\* A statement about one of the settings outside the stanzas of the backends
\* leaves what was said of the backends.
LEMMA GlobalStatement ==
    ASSUME Typed, Once(said), NEW k \in IntKeys \union StrKeys, NEW v \in Nat,
           said' = With(said, Global, k, v), UNCHANGED <<bes, ctx>>
    PROVE  (StanzasSaid => StanzasSaid') /\ (ServersSaid => ServersSaid')
<1>1. k \in Settings /\ k # "backend" /\ Global \in Nat \union {Global} BY KeysDiffer
<1>2. \A c, j, d : c # Global => SpokenIn(said', c, j, d) = SpokenIn(said, c, j, d)
  <2>1. \A c, j, d : c # Global \/ j # k =>
            SpokenIn(With(said, Global, k, v), c, j, d) = SpokenIn(said, c, j, d)
    BY <1>1, WithIs
  <2> QED BY <2>1
<1>3. /\ \A s \in said' : s \in said \/ s = <<Global, k, v>>
      /\ \A s \in said : s[1] # Global \/ s[2] # k => s \in said'
  BY DEF With
<1>4. <<Global, k, v>>[1] = Global /\ <<Global, k, v>>[2] # "backend" BY <1>1
<1>5. \A n \in Nat : n # Global BY DEF Global
<1>6. ASSUME StanzasSaid PROVE StanzasSaid'
  <2>1. bes \in Seq(Stanza) BY DEF Typed, ParserTyped
  <2>2. ASSUME NEW i \in 1..Len(bes) PROVE bes[i].id \in Nat
    <3>1. bes[i] \in Stanza BY <2>1
    <3> QED BY <3>1 DEF Stanza
  <2>3. \A i, j \in 1..Len(bes') : bes'[i].id = bes'[j].id => i = j BY <1>6 DEF StanzasSaid
  <2>4. \A s \in said' : s[1] # Global => \E i \in 1..Len(bes') : bes'[i].id = s[1]
    BY <1>3, <1>4, <1>6 DEF StanzasSaid
  <2>5. \A s \in said' : s[2] = "backend" => s[1] # Default /\ s[1] # Global
    BY <1>3, <1>4, <1>6 DEF StanzasSaid
  <2>6. \A i \in 2..Len(bes') : <<bes'[i].id, "backend", 0>> \in said'
    <3>1. SUFFICES ASSUME NEW i \in 2..Len(bes) PROVE <<bes[i].id, "backend", 0>> \in said'
      OBVIOUS
    <3>2. <<bes[i].id, "backend", 0>> \in said BY <1>6 DEF StanzasSaid
    <3>3. <<bes[i].id, "backend", 0>>[2] # k BY <1>1
    <3> QED BY <1>3, <3>2, <3>3
  <2>7. ASSUME NEW i \in 1..Len(bes'), NEW j \in BackendKeys
        PROVE  bes'[i][j] = SpokenIn(said', bes'[i].id, j, IF i = 1 THEN Defaults[j] ELSE Unset)
    BY <1>2, <1>5, <1>6, <2>2 DEF StanzasSaid
  <2> QED BY <2>3, <2>4, <2>5, <2>6, <2>7 DEF StanzasSaid
<1>7. ASSUME ServersSaid PROVE ServersSaid'
  <2>1. ctx.backends \in Seq(Server) BY DEF Typed, ContextTyped
  <2>2. ASSUME NEW i \in DOMAIN ctx.backends PROVE ctx.backends[i].id \in Nat
    <3>1. ctx.backends[i] \in Server BY <2>1
    <3> QED BY <3>1 DEF Server
  <2>3. {x \in said' : x[2] = "backend"} = {x \in said : x[2] = "backend"}
    BY <1>1, <1>3, <1>4
  <2>4. {ctx'.backends[i].id : i \in DOMAIN ctx'.backends} =
            {s[1] : s \in {x \in said' : x[2] = "backend"}}
    BY <1>7, <2>3 DEF ServersSaid
  <2>5. ASSUME NEW i \in DOMAIN ctx'.backends, NEW j \in BackendKeys
        PROVE  ctx'.backends[i][j] = SpokenIn(said', ctx'.backends[i].id, j,
                                              SpokenIn(said', Default, j, Defaults[j]))
    <3>1. SpokenIn(said', Default, j, Defaults[j]) = SpokenIn(said, Default, j, Defaults[j])
      BY <1>2 DEF Default, Global
    <3> QED BY <1>2, <1>5, <1>7, <2>2, <3>1 DEF ServersSaid
  <2> QED BY <2>4, <2>5 DEF ServersSaid
<1> QED BY <1>6, <1>7

\* What other threads took stays what was said when they did.
LEMMA TakenKept ==
    ASSUME TakenSaid, UNCHANGED <<ctx, threads, cached, told, stale>>,
           phase' = "launch" <=> phase = "launch"
    PROVE  TakenSaid'
<1>1. \A k : Started(k)' = Started(k) BY DEF Started
<1>2. BackendStrsSaid' BY <1>1 DEF TakenSaid, BackendStrsSaid, Text
<1>3. WatcherSaid' BY <1>1 DEF TakenSaid, WatcherSaid
<1>4. ThreadsSaid' BY DEF TakenSaid, ThreadsSaid
<1> QED BY <1>2, <1>3, <1>4 DEF TakenSaid

\* set_str.
LEMMA SetStrSaid ==
    ASSUME Typed, phase = "parse", AllSaid, NEW t, Sound(t), Exact(t), IsText(t),
           NEW k \in StrKeys, SetStr(k, t)
    PROVE  AllSaid'
<1>1. Once(said) /\ SettingsSaid BY DEF AllSaid
<1>2. phase' = phase /\ UNCHANGED <<files, ctx, bes, threads, cached, told, stale>>
  <2>1. Free([old |-> p.strs[k]]) BY DEF SetStr
  <2>2. stale' = stale BY <2>1, Zenon DEF Free
  <2> QED BY <2>2 DEF SetStr, Continue, context
<1>3. t[2] = t[3] /\ t[3] \in Nat BY DEF Exact, IsText, Valued, Sound
<1>4. PICK new : new = <<files, k, p.strs[k][3] + 1, t[2]>> OBVIOUS
<1>5. p \in Values /\ p' = [p EXCEPT !.strs[k] = new]
  BY <1>4, Zenon DEF SetStr, Typed, ParserTyped
<1>6. /\ p'.ints = p.ints /\ p'.strs[k] = new
      /\ \A j \in StrKeys : j # k => p'.strs[j] = p.strs[j]
  BY <1>5 DEF Values
<1>7. new # Null /\ Text(new) = t[3]
  BY <1>2, <1>3, <1>4 DEF Null, Text, Typed, ProcessTyped
<1>8. k \notin IntKeys /\ k \in Settings /\ Global \in Nat \union {Global} BY KeysDiffer
<1>9. TakenSaid => TakenSaid' BY <1>2, TakenKept
<1>10. CASE reload /\ k \notin HealthStrs
  <2>1. said' = said BY <1>8, <1>10 DEF SetStr, Say
  <2>2. \A j \in StrKeys : StrNow(j)' = StrNow(j) BY <1>2, <1>6, <1>10 DEF StrNow, reload
  <2>3. SettingsSaid' BY <1>1, <1>2, <1>6, <2>1, <2>2 DEF SettingsSaid, IntNow
  <2>5. ServersSaid => ServersSaid' BY <1>2, <2>1 DEF ServersSaid
  <2>6. ~StartingUp /\ ~StartingUp' BY <1>2, <1>10 DEF StartingUp, reload
  <2> QED BY <1>1, <1>2, <1>9, <2>1, <2>3, <2>5, <2>6 DEF AllSaid, Reading
<1>11. CASE ~reload \/ k \in HealthStrs
  <2>1. said' = With(said, Global, k, t[3]) BY <1>8, <1>11 DEF SetStr, Say, With
  <2>2. Once(said') BY <1>1, <1>3, <1>8, <2>1, WithIs
  <2>3. /\ \A d : SpokenIn(said', Global, k, d) = t[3]
        /\ \A j, d : j # k => SpokenIn(said', Global, j, d) = SpokenIn(said, Global, j, d)
    <3>1. /\ \A d : SpokenIn(With(said, Global, k, t[3]), Global, k, d) = t[3]
          /\ \A c, j, d : c # Global \/ j # k =>
                SpokenIn(With(said, Global, k, t[3]), c, j, d) = SpokenIn(said, c, j, d)
      BY <1>1, <1>3, <1>8, WithIs
    <3> QED BY <2>1, <3>1
  <2>4. StrNow(k)' = new BY <1>2, <1>6, <1>7, <1>11 DEF StrNow, reload
  <2>5. \A j \in StrKeys : j # k => StrNow(j)' = StrNow(j) BY <1>2, <1>6 DEF StrNow, reload
  <2>6. \A j \in StrKeys : Text(StrNow(j)') = SpokenIn(said', Global, j, 0)
    BY <1>1, <1>7, <2>3, <2>4, <2>5 DEF SettingsSaid
  <2>7. \A j \in IntKeys : IntNow(j)' = SpokenIn(said', Global, j, 0)
    BY <1>1, <1>2, <1>6, <1>8, <2>3 DEF SettingsSaid, IntNow
  <2>8. SettingsSaid' BY <2>6, <2>7 DEF SettingsSaid, Text
  <2>9. (StanzasSaid => StanzasSaid') /\ (ServersSaid => ServersSaid')
    BY <1>1, <1>2, <1>3, <2>1, GlobalStatement
  <2>10. HealthSaid => HealthSaid'
    <3>1. ASSUME HealthSaid, NEW j \in HealthStrs
          PROVE  HealthNow(j)' = SpokenIn(said', Global, j, BuiltIn)
      <4>1. j \in StrKeys BY KeysDiffer
      <4>2. CASE j = k
        <5>1. HealthNow(j)' = t[3] BY <1>6, <1>7, <4>2 DEF HealthNow, Text
        <5> QED BY <2>3, <4>2, <5>1
      <4>3. CASE j # k
        <5>1. HealthNow(j)' = HealthNow(j) BY <1>6, <4>1, <4>3 DEF HealthNow, Text
        <5> QED BY <2>3, <3>1, <4>3, <5>1 DEF HealthSaid
      <4> QED BY <4>2, <4>3
    <3> QED BY <1>2, <3>1 DEF HealthSaid, BuiltIn
  <2> QED BY <1>2, <1>9, <2>2, <2>8, <2>9, <2>10 DEF AllSaid, StartingUp, Reading, reload
<1> QED BY <1>10, <1>11

\* set_int.
LEMMA SetIntSaid ==
    ASSUME Typed, phase = "parse", AllSaid, NEW k \in IntKeys, NEW n \in Int32, n \in Nat,
           SetInt(k, n, n)
    PROVE  AllSaid'
<1>1. Once(said) /\ SettingsSaid BY DEF AllSaid
<1>2. phase' = phase /\ UNCHANGED <<files, ctx, bes, threads, cached, told, stale>>
  BY DEF SetInt, Continue, context, heap
<1>3. p \in Values /\ p' = [p EXCEPT !.ints[k] = n] BY DEF SetInt, Typed, ParserTyped
<1>4. /\ p'.strs = p.strs /\ p'.ints[k] = n
      /\ \A j \in IntKeys : j # k => p'.ints[j] = p.ints[j]
  BY <1>3 DEF Values
<1>5. n # Unset BY DEF Unset
<1>6. k \in Settings /\ k \notin StrKeys /\ Global \in Nat \union {Global} BY KeysDiffer
<1>7. said' = With(said, Global, k, n) BY DEF SetInt, Say, With
<1>8. Once(said') BY <1>1, <1>6, <1>7, WithIs
<1>9. /\ \A d : SpokenIn(said', Global, k, d) = n
      /\ \A j, d : j # k => SpokenIn(said', Global, j, d) = SpokenIn(said, Global, j, d)
  <2>1. /\ \A d : SpokenIn(With(said, Global, k, n), Global, k, d) = n
        /\ \A c, j, d : c # Global \/ j # k =>
              SpokenIn(With(said, Global, k, n), c, j, d) = SpokenIn(said, c, j, d)
    BY <1>1, <1>6, WithIs
  <2> QED BY <1>7, <2>1
<1>10. \A j \in IntKeys : IntNow(j)' = SpokenIn(said', Global, j, 0)
  BY <1>1, <1>2, <1>4, <1>5, <1>9 DEF SettingsSaid, IntNow
<1>11. \A j \in StrKeys : Text(StrNow(j)') = SpokenIn(said', Global, j, 0)
  BY <1>1, <1>2, <1>4, <1>6, <1>9 DEF SettingsSaid, StrNow, reload
<1>12. SettingsSaid' BY <1>10, <1>11 DEF SettingsSaid, Text
<1>13. (StanzasSaid => StanzasSaid') /\ (ServersSaid => ServersSaid')
  BY <1>1, <1>2, <1>7, GlobalStatement
<1>14. HealthSaid => HealthSaid'
  <2>1. \A j \in HealthStrs : HealthNow(j)' = HealthNow(j) BY <1>4 DEF HealthNow, Text
  <2>2. \A j \in HealthStrs : j # k BY <1>6, KeysDiffer
  <2>3. \A j \in HealthStrs : SpokenIn(said', Global, j, BuiltIn) = SpokenIn(said, Global, j, BuiltIn)
    BY <1>9, <2>2
  <2> QED BY <1>2, <2>1, <2>3 DEF HealthSaid, BuiltIn
<1>15. TakenSaid => TakenSaid' BY <1>2, TakenKept
<1> QED BY <1>2, <1>8, <1>12, <1>13, <1>14, <1>15 DEF AllSaid, StartingUp, Reading, reload

\* A step that is about the stanzas only.
LEMMA StanzaStep ==
    ASSUME Typed, phase = "parse", AllSaid, phase' = phase,
           UNCHANGED <<files, ctx, p, threads, cached, told, stale>>,
           reload => said' = said,
           ~reload => /\ Once(said') /\ StanzasSaid'
                      /\ \A k \in IntKeys \union StrKeys : \A d :
                            SpokenIn(said', Global, k, d) = SpokenIn(said, Global, k, d)
    PROVE  AllSaid'
<1>1. Once(said) /\ SettingsSaid BY DEF AllSaid
<1>2. StartingUp' <=> ~reload BY DEF StartingUp, reload
<1>3. StartingUp <=> ~reload BY DEF StartingUp, reload
<1>4. \A k \in IntKeys : IntNow(k)' = IntNow(k) BY DEF IntNow
<1>5. \A k \in StrKeys : StrNow(k)' = StrNow(k) BY DEF StrNow, reload
<1>6. \A k \in IntKeys \union StrKeys : \A d :
          SpokenIn(said', Global, k, d) = SpokenIn(said, Global, k, d)
  OBVIOUS
<1>7. SettingsSaid' BY <1>1, <1>4, <1>5, <1>6 DEF SettingsSaid, Text
<1>8. Once(said') BY <1>1
<1>9. reload => ServersSaid' BY <1>3 DEF AllSaid, ServersSaid
<1>10. TakenSaid => TakenSaid' BY TakenKept
<1>11. HealthSaid => HealthSaid'
  <2>1. \A k \in HealthStrs : HealthNow(k)' = HealthNow(k) BY DEF HealthNow, Text
  <2>2. \A k \in HealthStrs : SpokenIn(said', Global, k, BuiltIn) = SpokenIn(said, Global, k, BuiltIn)
    BY <1>6, KeysDiffer
  <2> QED BY <2>1, <2>2 DEF HealthSaid, BuiltIn
<1> QED BY <1>2, <1>3, <1>7, <1>8, <1>9, <1>10, <1>11 DEF AllSaid, Reading

\* A value in the stanza of a backend, or in the default's.
LEMMA SetBackendSaid ==
    ASSUME Typed, phase = "parse", AllSaid, NEW k \in BackendKeys, NEW n \in Int32, n \in Nat,
           SetBackend(k, n, n)
    PROVE  AllSaid'
<1>1. Once(said) BY DEF AllSaid
<1>2. phase' = phase /\ UNCHANGED <<files, ctx, p, threads, cached, told, stale>>
  BY DEF SetBackend, Continue, context, heap
<1>3. k \in Settings /\ k # "backend" /\ k \notin IntKeys /\ k \notin HealthStrs BY KeysDiffer
<1>4. reload => said' = said BY <1>3 DEF SetBackend, Say
<1>5. ASSUME ~reload
      PROVE  /\ Once(said') /\ StanzasSaid'
             /\ \A j \in IntKeys \union StrKeys : \A d :
                   SpokenIn(said', Global, j, d) = SpokenIn(said, Global, j, d)
  <2>1. bes \in Seq(Stanza) /\ current \in 1..Len(bes) BY DEF Typed, ParserTyped
  <2>2. PICK c : c = bes[current].id OBVIOUS
  <2>3. said' = With(said, c, k, n) BY <1>5, <2>2 DEF SetBackend, Say, With
  <2>4. c \in Nat /\ c # Global
    <3>1. bes[current] \in Stanza BY <2>1
    <3> QED BY <2>2, <3>1 DEF Stanza, Global
  <2>5. /\ Once(With(said, c, k, n))
        /\ \A d : SpokenIn(With(said, c, k, n), c, k, d) = n
        /\ \A c2, k2, d : c2 # c \/ k2 # k =>
              SpokenIn(With(said, c, k, n), c2, k2, d) = SpokenIn(said, c2, k2, d)
    BY <1>1, <1>3, <2>4, WithIs
  <2>6. /\ Once(said')
        /\ \A d : SpokenIn(said', c, k, d) = n
        /\ \A c2, k2, d : c2 # c \/ k2 # k =>
              SpokenIn(said', c2, k2, d) = SpokenIn(said, c2, k2, d)
    BY <2>3, <2>5
  <2>7. /\ \A s \in said' : s \in said \/ s = <<c, k, n>>
        /\ \A s \in said : s[1] # c \/ s[2] # k => s \in said'
    BY <2>3 DEF With
  <2>8. bes' = [bes EXCEPT ![current][k] = n] BY DEF SetBackend
  <2>9. /\ Len(bes') = Len(bes)
        /\ \A i \in 1..Len(bes) : i # current => bes'[i] = bes[i]
        /\ bes'[current] = [bes[current] EXCEPT ![k] = n]
    BY <2>1, <2>8
  <2>10. /\ bes'[current].id = c /\ bes'[current][k] = n
         /\ \A j \in BackendKeys : j # k => bes'[current][j] = bes[current][j]
    <3>1. PICK b \in Stanza : b = bes[current] BY <2>1
    <3>2. DOMAIN b = {"id", "tls", "lag", "weight"} BY DEF Stanza
    <3>3. k # "id" BY DEF BackendKeys
    <3> QED BY <2>2, <2>9, <3>1, <3>2, <3>3 DEF BackendKeys
  <2>11. \A i \in 1..Len(bes) : bes'[i].id = bes[i].id BY <2>2, <2>9, <2>10
  <2>12. StanzasSaid BY <1>5 DEF AllSaid, StartingUp
  <2>13. StanzasSaid'
    <3>1. \A i, j \in 1..Len(bes') : bes'[i].id = bes'[j].id => i = j
      BY <2>9, <2>11, <2>12 DEF StanzasSaid
    <3>2. ASSUME NEW s \in said', s[1] # Global
          PROVE  \E i \in 1..Len(bes') : bes'[i].id = s[1]
      <4>1. CASE s \in said
        <5>1. PICK i \in 1..Len(bes) : bes[i].id = s[1] BY <2>12, <3>2, <4>1 DEF StanzasSaid
        <5> QED BY <2>9, <2>11, <5>1
      <4>2. CASE s = <<c, k, n>> BY <2>1, <2>9, <2>10, <4>2
      <4> QED BY <2>7, <4>1, <4>2
    <3>3. \A s \in said' : s[2] = "backend" => s[1] # Default /\ s[1] # Global
      BY <1>3, <2>7, <2>12 DEF StanzasSaid
    <3>4. ASSUME NEW i \in 2..Len(bes') PROVE <<bes'[i].id, "backend", 0>> \in said'
      <4>1. i \in 1..Len(bes) BY <2>1, <2>9
      <4>2. <<bes[i].id, "backend", 0>> \in said BY <2>9, <2>12 DEF StanzasSaid
      <4>3. <<bes[i].id, "backend", 0>>[2] # k BY <1>3
      <4> QED BY <2>7, <2>11, <4>1, <4>2, <4>3
    <3>5. ASSUME NEW i \in 1..Len(bes'), NEW j \in BackendKeys
          PROVE  bes'[i][j] = SpokenIn(said', bes'[i].id, j, IF i = 1 THEN Defaults[j] ELSE Unset)
      <4>1. bes[i][j] = SpokenIn(said, bes[i].id, j, IF i = 1 THEN Defaults[j] ELSE Unset)
        BY <2>9, <2>12 DEF StanzasSaid
      <4>2. CASE i = current /\ j = k BY <2>6, <2>10, <4>2
      <4>3. CASE i = current /\ j # k BY <2>2, <2>6, <2>10, <4>1, <4>3
      <4>4. CASE i # current
        <5>1. bes[i].id # c BY <2>1, <2>2, <2>9, <2>12, <4>4 DEF StanzasSaid
        <5> QED BY <2>6, <2>9, <4>1, <4>4, <5>1
      <4> QED BY <4>2, <4>3, <4>4
    <3> QED BY <3>1, <3>2, <3>3, <3>4, <3>5 DEF StanzasSaid
  <2>14. ASSUME NEW j \in IntKeys \union StrKeys, NEW d
         PROVE  SpokenIn(said', Global, j, d) = SpokenIn(said, Global, j, d)
    BY <2>4, <2>6
  <2> QED BY <2>6, <2>13, <2>14
<1> QED BY <1>2, <1>4, <1>5, StanzaStep

\* A backend is named, for the first time or again.
LEMMA BackendNamedSaid ==
    ASSUME Typed, phase = "parse", AllSaid, NEW id \in Nat, BackendNamed(id)
    PROVE  AllSaid'
<1>1. Once(said) BY DEF AllSaid
<1>2. Continue(f, <<"named", 0, 0>>) /\ UNCHANGED p /\ UNCHANGED heap BY Zenon DEF BackendNamed
<1>3. phase' = phase /\ UNCHANGED <<files, ctx, threads, cached, told, stale>>
  BY <1>2 DEF Continue, context, heap
<1>4. said' = IF id = Default THEN said ELSE Say(id, "backend", 0) BY Zenon DEF BackendNamed
<1>5. reload => said' = said BY <1>4, KeysDiffer DEF Say
<1>6. ASSUME ~reload
      PROVE  /\ Once(said') /\ StanzasSaid'
             /\ \A j \in IntKeys \union StrKeys : \A d :
                   SpokenIn(said', Global, j, d) = SpokenIn(said, Global, j, d)
  <2>1. bes \in Seq(Stanza) /\ bes[1].id = Default /\ Len(bes) >= 1 BY DEF Typed, ParserTyped
  <2>2. StanzasSaid BY <1>6 DEF AllSaid, StartingUp
  <2>3. CASE id = Default
    <3>1. said' = said BY <1>4, <2>3
    <3>2. \E i \in 1..Len(bes) : bes[i].id = id BY <2>1, <2>3
    <3>3. bes' = bes BY <3>2, Zenon DEF BackendNamed
    <3>4. StanzasSaid' BY <2>2, <3>1, <3>3 DEF StanzasSaid
    <3> QED BY <1>1, <3>1, <3>4
  <2>4. CASE id # Default
    <3>1. said' = With(said, id, "backend", 0) BY <1>4, <1>6, <2>4 DEF Say, With
    <3>2. "backend" \in Settings /\ id # Global BY KeysDiffer DEF Global
    <3>3. /\ Once(With(said, id, "backend", 0))
          /\ \A c2, k2, d : c2 # id \/ k2 # "backend" =>
                SpokenIn(With(said, id, "backend", 0), c2, k2, d) = SpokenIn(said, c2, k2, d)
      BY <1>1, <3>2, WithIs
    <3>4. /\ Once(said')
          /\ \A c2, k2, d : c2 # id \/ k2 # "backend" =>
                SpokenIn(said', c2, k2, d) = SpokenIn(said, c2, k2, d)
      BY <3>1, <3>3
    <3>5. /\ <<id, "backend", 0>> \in said'
          /\ \A s \in said' : s \in said \/ s = <<id, "backend", 0>>
          /\ \A s \in said : s[1] # id \/ s[2] # "backend" => s \in said'
      BY <3>1 DEF With
    <3>6. \A k \in BackendKeys : k # "backend" BY KeysDiffer
    <3>7. ASSUME NEW n \in Nat, <<n, "backend", 0>> \in said PROVE <<n, "backend", 0>> \in said'
      <4>1. CASE n = id BY <3>5, <4>1
      <4>2. CASE n # id
        <5>1. <<n, "backend", 0>>[1] = n OBVIOUS
        <5> QED BY <3>5, <3>7, <4>2, <5>1
      <4> QED BY <4>1, <4>2
    <3>8. \A i \in 1..Len(bes) : bes[i].id \in Nat
      <4>1. \A b \in Stanza : b.id \in Nat BY DEF Stanza
      <4> QED BY <2>1, <4>1
    <3>9. StanzasSaid'
      <4>1. CASE \E i \in 1..Len(bes) : bes[i].id = id
        <5>1. bes' = bes BY <4>1, Zenon DEF BackendNamed
        <5>2. \A i, j \in 1..Len(bes') : bes'[i].id = bes'[j].id => i = j
          BY <2>2, <5>1 DEF StanzasSaid
        <5>3. \A s \in said' : s[1] # Global => \E i \in 1..Len(bes') : bes'[i].id = s[1]
          BY <2>2, <3>5, <4>1, <5>1 DEF StanzasSaid
        <5>4. \A s \in said' : s[2] = "backend" => s[1] # Default /\ s[1] # Global
          BY <2>2, <2>4, <3>2, <3>5 DEF StanzasSaid
        <5>5. ASSUME NEW i \in 2..Len(bes') PROVE <<bes'[i].id, "backend", 0>> \in said'
          <6>1. <<bes[i].id, "backend", 0>> \in said BY <2>2, <5>1 DEF StanzasSaid
          <6>2. bes[i].id \in Nat BY <2>1, <3>8, <5>1
          <6> QED BY <3>7, <5>1, <6>1, <6>2
        <5>6. \A i \in 1..Len(bes') : \A k \in BackendKeys :
                 bes'[i][k] = SpokenIn(said', bes'[i].id, k, IF i = 1 THEN Defaults[k] ELSE Unset)
          BY <2>2, <3>4, <3>6, <5>1 DEF StanzasSaid
        <5> QED BY <5>2, <5>3, <5>4, <5>5, <5>6 DEF StanzasSaid
      <4>2. CASE ~\E i \in 1..Len(bes) : bes[i].id = id
        <5>1. bes' = Append(bes, MakeBackend(id)) BY <4>2, Zenon DEF BackendNamed
        <5>2. PICK b : b = MakeBackend(id) OBVIOUS
        <5>3. b.id = id /\ b \in Stanza /\ \A k \in BackendKeys : b[k] = Unset
          BY <5>2 DEF MakeBackend, BackendKeys, Stanza
        <5>4. PICK m \in Nat \ {0} : m = Len(bes) BY <2>1
        <5>5. /\ Len(bes') = m + 1 /\ bes'[m + 1] = b
              /\ \A i \in 1..m : bes'[i] = bes[i]
          BY <2>1, <5>1, <5>2, <5>3, <5>4
        <5>6. \A i \in 1..(m + 1) : i \in 1..m \/ i = m + 1 OBVIOUS
        <5>7. \A s \in said : s[1] # id BY <2>2, <3>2, <4>2 DEF StanzasSaid
        <5>8. \A i, j \in 1..Len(bes') : bes'[i].id = bes'[j].id => i = j
          BY <2>2, <4>2, <5>3, <5>4, <5>5, <5>6 DEF StanzasSaid
        <5>9. ASSUME NEW s \in said', s[1] # Global
              PROVE  \E i \in 1..Len(bes') : bes'[i].id = s[1]
          <6>1. CASE s \in said
            <7>1. PICK i \in 1..m : bes[i].id = s[1] BY <2>2, <5>4, <5>9, <6>1 DEF StanzasSaid
            <7> QED BY <5>5, <7>1
          <6>2. CASE s = <<id, "backend", 0>> BY <5>3, <5>5, <6>2
          <6> QED BY <3>5, <6>1, <6>2
        <5>10. \A s \in said' : s[2] = "backend" => s[1] # Default /\ s[1] # Global
          BY <2>2, <2>4, <3>2, <3>5 DEF StanzasSaid
        <5>11. ASSUME NEW i \in 2..Len(bes') PROVE <<bes'[i].id, "backend", 0>> \in said'
          <6>1. CASE i = m + 1 BY <3>5, <5>3, <5>5, <6>1
          <6>2. CASE i # m + 1
            <7>1. i \in 2..m BY <5>5, <6>2
            <7>2. <<bes[i].id, "backend", 0>> \in said BY <2>2, <5>4, <7>1 DEF StanzasSaid
            <7>3. bes'[i] = bes[i] /\ bes[i].id \in Nat BY <3>8, <5>4, <5>5, <7>1
            <7> QED BY <3>7, <7>2, <7>3
          <6> QED BY <6>1, <6>2
        <5>12. ASSUME NEW i \in 1..Len(bes'), NEW k \in BackendKeys
               PROVE  bes'[i][k] = SpokenIn(said', bes'[i].id, k,
                                            IF i = 1 THEN Defaults[k] ELSE Unset)
          <6>1. CASE i = m + 1
            <7>1. SpokenIn(said, id, k, Unset) = Unset BY <5>7 DEF SpokenIn
            <7>2. i # 1 BY <6>1
            <7> QED BY <3>4, <3>6, <5>3, <5>5, <6>1, <7>1, <7>2
          <6>2. CASE i # m + 1
            <7>1. i \in 1..m BY <5>5, <6>2
            <7> QED BY <2>2, <3>4, <3>6, <5>4, <5>5, <7>1 DEF StanzasSaid
          <6> QED BY <6>1, <6>2
        <5> QED BY <5>8, <5>9, <5>10, <5>11, <5>12 DEF StanzasSaid
      <4> QED BY <4>1, <4>2
    <3> QED BY <3>2, <3>4, <3>9
  <2> QED BY <2>3, <2>4
<1> QED BY <1>2, <1>3, <1>5, <1>6, StanzaStep

\* A step of the process that leaves the configuration alone.
LEMMA IdleSaid ==
    ASSUME AllSaid, UNCHANGED <<files, p, bes, ctx, said, cached>>, TakenSaid => TakenSaid',
           \/ phase = "parse" /\ phase' \in {"parse", "apply"}
           \/ phase = "launch" /\ phase' = "up"
    PROVE  AllSaid'
<1>1. Once(said') /\ SettingsSaid' BY DEF AllSaid, SettingsSaid, IntNow, StrNow, reload, Once
<1>2. StanzasSaid' <=> StanzasSaid BY DEF StanzasSaid
<1>3. ServersSaid' <=> ServersSaid BY DEF ServersSaid
<1>4. Untouched' <=> Untouched BY DEF Untouched
<1>5. StartingUp' <=> StartingUp BY DEF StartingUp, reload
<1>6. (Reading' <=> Reading) /\ phase' # "boot" BY DEF Reading
<1>7. HealthSaid' <=> HealthSaid BY DEF HealthSaid, HealthNow, Text, BuiltIn
<1> QED BY <1>1, <1>2, <1>3, <1>4, <1>5, <1>6, <1>7 DEF AllSaid

\* One token.
LEMMA ParseSaid ==
    ASSUME Typed, Tables, SaidInv, Parse
    PROVE  SaidInv'
<1> SUFFICES ASSUME ~odd' PROVE again' = None /\ AllSaid' BY DEF SaidInv
<1>1. PICK e \in Emits : Lexed(e) /\ AnyParse(e.tok) BY Zenon DEF Parse, AnyParse
<1>2. phase = "parse" /\ LexerTyped BY DEF Parse, Typed
<1>3. PICK t : t = e.tok OBVIOUS
<1>4. ~e.odd /\ again' = e.again BY <1>1 DEF Lexed
<1>5. ~odd /\ Sound(t) BY <1>1, <1>2, <1>3, <1>4, EmitIs
<1>6. again = None /\ AllSaid BY <1>2, <1>5 DEF SaidInv, Going
<1>7. again' = None /\ Exact(t) BY <1>1, <1>2, <1>3, <1>4, <1>6, EmitIs
<1>8. Sets(t) BY <1>1, <1>3, <1>5, ParseIs
<1>9. ASSUME NEW fn, Stop(fn) PROVE AllSaid'
  <2>1. UNCHANGED <<files, p, bes, ctx, said, threads, cached, told, stale>> /\ phase' = "apply"
    BY <1>9 DEF Stop, context, heap
  <2>2. TakenSaid => TakenSaid' BY <1>2, <2>1, TakenKept
  <2> QED BY <1>2, <1>6, <2>1, <2>2, IdleSaid
<1>10. ASSUME NEW fn, NEW u, Accept(fn, u) PROVE AllSaid'
  <2>1. UNCHANGED <<files, p, bes, ctx, said, threads, cached, told, stale>> /\ phase' = phase
    BY <1>10 DEF Accept, Continue, context, heap
  <2>2. TakenSaid => TakenSaid' BY <2>1, TakenKept
  <2> QED BY <1>2, <1>6, <2>1, <2>2, IdleSaid
<1>11. ASSUME NEW k \in StrKeys, IsText(t), SetStr(k, t) PROVE AllSaid'
  BY <1>2, <1>5, <1>6, <1>7, <1>11, SetStrSaid
<1>12. ASSUME NEW k \in IntKeys, NEW n \in Int32, NEW says \in Nat, SetInt(k, n, says),
              Exact(t) => n = says
       PROVE  AllSaid'
  BY <1>2, <1>6, <1>7, <1>12, SetIntSaid
<1>13. ASSUME NEW k \in BackendKeys, NEW n \in Int32, NEW says \in Nat, SetBackend(k, n, says),
              Exact(t) => n = says
       PROVE  AllSaid'
  BY <1>2, <1>6, <1>7, <1>13, SetBackendSaid
<1>14. ASSUME NEW id \in Nat, BackendNamed(id) PROVE AllSaid'
  BY <1>2, <1>6, <1>14, BackendNamedSaid
<1> QED BY <1>7, <1>8, <1>9, <1>10, <1>11, <1>12, <1>13, <1>14 DEF Sets

\* A file is opened: nothing has been said in it yet.
LEMMA OpenSaid ==
    ASSUME Typed, SaidInv, phase \in {"boot", "up"}, NEW pr, Open(pr)
    PROVE  SaidInv'
<1> SUFFICES ASSUME ~odd' PROVE again' = None /\ AllSaid' BY DEF SaidInv
<1>1. /\ again' = None /\ odd' = odd /\ bes' = <<Defaults>>
      /\ UNCHANGED <<ctx, said, threads, cached, told, stale>>
      /\ phase' = "parse" /\ files' = files + 1
      /\ p' = [ints |-> [k \in IntKeys |-> Unset], strs |-> [k \in StrKeys |-> Null]]
  BY DEF Open, context, heap
<1>2. AllSaid /\ ~Reading BY <1>1 DEF SaidInv, Going, Reading
<1>3. Untouched /\ Untouched' BY <1>1, <1>2 DEF AllSaid, Untouched
<1>4. Once(said') BY <1>1, <1>2 DEF AllSaid, Once
<1>5. \A k \in IntKeys : IntNow(k) = ctx.ints[k] /\ IntNow(k)' = ctx.ints[k]
  BY <1>1, <1>3 DEF IntNow, Untouched
<1>6. \A k \in StrKeys : StrNow(k) = ctx.strs[k] /\ StrNow(k)' = ctx.strs[k]
  BY <1>1, <1>3 DEF StrNow, Untouched
<1>7. SettingsSaid' BY <1>1, <1>2, <1>5, <1>6 DEF AllSaid, SettingsSaid, Text
<1>8. CASE phase = "boot"
  <2>1. files = 0 BY <1>8 DEF Typed, ProcessTyped
  <2>2. StartingUp /\ StartingUp' BY <1>1, <1>8, <2>1 DEF StartingUp, reload
  <2>3. StanzasSaid'
    <3>1. StanzasSaid /\ bes' = bes BY <1>1, <1>2, <1>8, <2>2 DEF AllSaid
    <3> QED BY <1>1, <3>1 DEF StanzasSaid
  <2>4. \A k \in HealthStrs : HealthNow(k)' = HealthNow(k)
    BY <1>3, KeysDiffer DEF Untouched, HealthNow, BuiltIn
  <2>5. HealthSaid' BY <1>1, <1>2, <2>2, <2>4 DEF AllSaid, HealthSaid, BuiltIn
  <2> QED BY <1>1, <1>4, <1>7, <2>2, <2>3, <2>5 DEF AllSaid, Reading
<1>9. CASE phase = "up"
  <2>1. files > 0 /\ files \in Nat BY <1>9, ConfigAssumption DEF Typed, ProcessTyped
  <2>2. ~StartingUp /\ ~StartingUp' BY <1>1, <1>9, <2>1 DEF StartingUp, reload
  <2>3. ServersSaid' BY <1>1, <1>2, <2>2 DEF AllSaid, ServersSaid
  <2>4. TakenSaid' BY <1>1, <1>2, <1>9, <2>2, TakenKept DEF AllSaid
  <2> QED BY <1>1, <1>4, <1>7, <2>2, <2>3, <2>4 DEF AllSaid, Reading
<1> QED BY <1>8, <1>9

\* The servers that start-up makes from the stanzas have what was said of them,
\* and else what was said of the default.
LEMMA BackendsSaid ==
    ASSUME Typed, Once(said), StanzasSaid, ctx'.backends = Backends, UNCHANGED said
    PROVE  ServersSaid'
<1>1. ParserTyped BY DEF Typed
<1>2. Backends \in Seq(Server) /\ Len(Backends) = Len(bes) - 1 BY <1>1, BackendsTyped
<1>3. bes \in Seq(Stanza) /\ bes[1].id = Default BY <1>1 DEF ParserTyped
<1>4. PICK n \in Nat : n = Len(bes) - 1 /\ Len(bes) = n + 1 BY <1>1 DEF ParserTyped
<1>5. DOMAIN Backends = 1..n BY <1>4 DEF Backends
<1>6. ASSUME NEW i \in 1..n
      PROVE  /\ i + 1 \in 2..Len(bes)
             /\ Backends[i].id = bes[i + 1].id
             /\ \A k \in BackendKeys : Backends[i][k] = GetInt(bes[1][k], bes[i + 1][k])
  <2>1. PICK strs : strs = [k \in HealthStrs |-> GetStr(k, i)] OBVIOUS
  <2>2. PICK b : b = bes[i + 1] OBVIOUS
  <2>3. Backends[i] = [id |-> b.id, tls |-> GetInt(bes[1].tls, b.tls),
                       lag |-> GetInt(bes[1].lag, b.lag),
                       weight |-> GetInt(bes[1].weight, b.weight), strs |-> strs]
    BY <1>4, <2>1, <2>2 DEF Backends
  <2>4. \A k \in BackendKeys : Backends[i][k] = GetInt(bes[1][k], b[k])
    BY <2>3 DEF BackendKeys
  <2> QED BY <1>4, <2>2, <2>3, <2>4
<1>7. {Backends[i].id : i \in DOMAIN Backends} = {s[1] : s \in {x \in said : x[2] = "backend"}}
  <2>1. ASSUME NEW i \in 1..n PROVE \E s \in said : s[2] = "backend" /\ s[1] = Backends[i].id
    <3>1. <<bes[i + 1].id, "backend", 0>> \in said BY <1>6 DEF StanzasSaid
    <3>2. /\ <<bes[i + 1].id, "backend", 0>>[1] = bes[i + 1].id
          /\ <<bes[i + 1].id, "backend", 0>>[2] = "backend"
      OBVIOUS
    <3> QED BY <1>6, <3>1, <3>2
  <2>2. ASSUME NEW s \in said, s[2] = "backend" PROVE \E i \in 1..n : s[1] = Backends[i].id
    <3>1. s[1] # Default /\ s[1] # Global BY <2>2 DEF StanzasSaid
    <3>2. PICK j \in 1..Len(bes) : bes[j].id = s[1] BY <3>1 DEF StanzasSaid
    <3>3. j # 1 BY <1>3, <3>1, <3>2
    <3>4. PICK i \in 1..n : j = i + 1
      <4>1. j - 1 \in 1..n /\ j = (j - 1) + 1 BY <1>4, <3>3
      <4> QED BY <4>1
    <3> QED BY <1>6, <3>2, <3>4
  <2>3. PICK I, B : I = {Backends[i].id : i \in 1..n} /\ B = {x \in said : x[2] = "backend"} OBVIOUS
  <2>4. I \subseteq {s[1] : s \in B} BY <2>1, <2>3
  <2>5. {s[1] : s \in B} \subseteq I BY <2>2, <2>3
  <2> QED BY <1>5, <2>3, <2>4, <2>5
<1>8. ASSUME NEW i \in 1..n, NEW k \in BackendKeys
      PROVE  Backends[i][k] = SpokenIn(said, Backends[i].id, k, SpokenIn(said, Default, k, Defaults[k]))
  <2>1. PICK d : d = SpokenIn(said, Default, k, Defaults[k]) OBVIOUS
  <2>2. bes[1][k] = d BY <1>3, <1>4, <2>1 DEF StanzasSaid
  <2>3. i + 1 \in 1..Len(bes) /\ i + 1 # 1 BY <1>4
  <2>4. bes[i + 1][k] = SpokenIn(said, bes[i + 1].id, k, Unset) BY <2>3 DEF StanzasSaid
  <2>5. Backends[i][k] = GetInt(d, SpokenIn(said, Backends[i].id, k, Unset))
    BY <1>6, <2>2, <2>4
  <2> QED BY <2>1, <2>5, SpokenElse DEF GetInt
<1> QED BY <1>5, <1>7, <1>8 DEF ServersSaid

\* And the strings they connect with are those of the file.
LEMMA BackendStrsAre ==
    ASSUME Typed, HealthSaid, ctx'.backends = Backends, told'.boot = said
    PROVE  BackendStrsSaid'
<1>1. PICK n \in Nat : n = Len(bes) - 1 BY DEF Typed, ParserTyped
<1>2. DOMAIN Backends = 1..n BY <1>1 DEF Backends
<1>3. ASSUME NEW i \in 1..n, NEW k \in HealthStrs
      PROVE  Text(Backends[i].strs[k]) = SpokenIn(said, Global, k, BuiltIn)
  <2>1. PICK strs : strs = [j \in HealthStrs |-> GetStr(j, i)] OBVIOUS
  <2>2. Backends[i].strs = strs BY <1>1, <2>1 DEF Backends
  <2>3. Backends[i].strs[k] = GetStr(k, i) BY <2>1, <2>2
  <2>4. Text(GetStr(k, i)) = HealthNow(k) BY DEF GetStr, HealthNow, Text
  <2> QED BY <2>3, <2>4 DEF HealthSaid
<1>4. \A k : Started(k)' = SpokenIn(said, Global, k, BuiltIn) BY DEF Started, BuiltIn
<1>5. ASSUME NEW i \in DOMAIN ctx'.backends, NEW k \in HealthStrs
      PROVE  Text(ctx'.backends[i].strs[k]) = Started(k)'
  BY <1>2, <1>3, <1>4
<1> QED BY <1>5 DEF BackendStrsSaid, Text

\* The file is applied.
LEMMA ApplySaid ==
    ASSUME Typed, SaidInv, Apply
    PROVE  SaidInv'
<1> SUFFICES ASSUME ~odd' PROVE again' = None /\ AllSaid' BY DEF SaidInv
<1>1. /\ again' = None /\ odd' = odd /\ UNCHANGED <<files, said, threads, cached>>
      /\ phase = "apply"
      /\ p' = [ints |-> [k \in IntKeys |-> Unset], strs |-> [k \in StrKeys |-> Null]]
  BY DEF Apply, ParserFreed
<1>2. phase' = IF reload THEN "up" ELSE "launch" BY DEF Apply
<1>3. AllSaid BY <1>1 DEF SaidInv, Going
<1>4. Untouched' BY <1>1 DEF Untouched
<1>5. Once(said') BY <1>1, <1>3 DEF AllSaid, Once
<1>6. PICK keys : keys = IF reload THEN HealthStrs ELSE StrKeys OBVIOUS
<1>7. /\ ctx'.ints = Updated(IntKeys, p.ints, ctx.ints, Unset)
      /\ ctx'.strs = Updated(keys, p.strs, ctx.strs, Null)
      /\ ctx'.backends = IF reload THEN ctx.backends ELSE Backends
  BY <1>6 DEF Apply
<1>8. /\ ctx.ints \in [IntKeys -> Int32] /\ ctx.strs \in [StrKeys -> Str]
      /\ p.ints \in [IntKeys -> Int32 \union {Unset}] /\ p.strs \in [StrKeys -> Str \union {Null}]
  BY DEF Typed, ContextTyped, ParserTyped, Values
<1>9. ASSUME NEW k \in IntKeys PROVE IntNow(k)' = IntNow(k)
  <2>1. ctx'.ints[k] = IF k \in IntKeys /\ p.ints[k] # Unset THEN p.ints[k] ELSE ctx.ints[k]
    BY <1>7, <1>8 DEF Updated
  <2>2. p'.ints[k] = Unset BY <1>1
  <2> QED BY <2>1, <2>2 DEF IntNow
<1>10. ASSUME NEW k \in StrKeys PROVE StrNow(k)' = StrNow(k)
  <2>1. ctx'.strs[k] = IF k \in keys /\ p.strs[k] # Null THEN p.strs[k] ELSE ctx.strs[k]
    BY <1>7, <1>8 DEF Updated
  <2>2. p'.strs[k] = Null BY <1>1
  <2>3. StrNow(k)' = ctx'.strs[k] BY <2>2 DEF StrNow
  <2> QED BY <1>6, <2>1, <2>3 DEF StrNow
<1>11. SettingsSaid' BY <1>1, <1>3, <1>9, <1>10 DEF AllSaid, SettingsSaid, Text
<1>12. ServersSaid'
  <2>1. CASE reload
    <3>1. ServersSaid BY <1>3, <2>1 DEF AllSaid, StartingUp
    <3> QED BY <1>1, <1>7, <2>1, <3>1 DEF ServersSaid
  <2>2. CASE ~reload
    <3>1. StanzasSaid /\ Once(said) BY <1>1, <1>3, <2>2 DEF AllSaid, StartingUp
    <3> QED BY <1>1, <1>7, <2>2, <3>1, BackendsSaid
  <2> QED BY <2>1, <2>2
<1>13. ~StartingUp' /\ phase' # "boot" BY <1>2 DEF StartingUp
<1>14. told' = IF reload THEN told ELSE [told EXCEPT !.boot = said] BY DEF Apply
<1>15. stale' = stale
  <2>1. PICK slots : slots = [k \in StrKeys |-> Dropped(k)] OBVIOUS
  <2>2. Free(slots) BY <2>1 DEF Apply
  <2> QED BY <2>2, Zenon DEF Free
<1>16. TakenSaid'
  <2>1. CASE reload
    <3>1. TakenSaid BY <1>3, <2>1 DEF AllSaid, StartingUp
    <3>2. \A k : Started(k)' = Started(k) BY <1>14, <2>1 DEF Started
    <3>3. ctx'.backends = ctx.backends BY <1>7, <2>1
    <3>4. BackendStrsSaid' BY <3>1, <3>2, <3>3 DEF TakenSaid, BackendStrsSaid, Text
    <3>5. WatcherSaid' BY <1>1, <1>14, <1>15, <2>1, <3>1, <3>2 DEF TakenSaid, WatcherSaid
    <3>6. ThreadsSaid' BY <1>1, <1>2, <1>14, <2>1, <3>1 DEF TakenSaid, ThreadsSaid
    <3> QED BY <3>4, <3>5, <3>6 DEF TakenSaid
  <2>2. CASE ~reload
    <3>1. HealthSaid BY <1>1, <1>3, <2>2 DEF AllSaid, StartingUp
    <3>2. told'.boot = said BY <1>14, <2>2 DEF Typed, UseTyped
    <3>3. BackendStrsSaid' BY <1>7, <2>2, <3>1, <3>2, BackendStrsAre
    <3>4. cached' = <<>> BY <1>1, <3>1 DEF HealthSaid
    <3>5. WatcherSaid' BY <3>4 DEF WatcherSaid
    <3>6. "workers" \in IntKeys BY DEF IntKeys
    <3>7. ctx'.ints["workers"] = IntNow("workers")
      BY <1>7, <1>8, <3>6 DEF Updated, IntNow
    <3>8. IntNow("workers") = SpokenIn(said, Global, "workers", 0)
      BY <1>3, <3>6 DEF AllSaid, SettingsSaid
    <3>9. ThreadsSaid' BY <1>2, <2>2, <3>2, <3>7, <3>8 DEF ThreadsSaid
    <3> QED BY <3>3, <3>5, <3>9 DEF TakenSaid
  <2> QED BY <2>1, <2>2
<1> QED BY <1>1, <1>4, <1>5, <1>11, <1>12, <1>13, <1>16 DEF AllSaid

\* The watcher looks at the backends.
LEMMA RefreshSaid ==
    ASSUME Typed, AllSaid, Refresh
    PROVE  AllSaid'
<1>1. /\ UNCHANGED <<phase, files, p, bes, ctx, said, threads>> /\ phase = "up"
      /\ told' = [told EXCEPT !.watch = said]
  BY DEF Refresh, parser
<1>2. ~StartingUp /\ ~Reading BY <1>1 DEF StartingUp, Reading
<1>3. SettingsSaid /\ ServersSaid /\ TakenSaid /\ Untouched BY <1>2 DEF AllSaid
<1>4. told'.watch = said /\ told'.boot = told.boot BY <1>1 DEF Typed, UseTyped
<1>5. \A k : Started(k)' = Started(k) BY <1>4 DEF Started
<1>6. BackendStrsSaid' BY <1>1, <1>3, <1>5 DEF TakenSaid, BackendStrsSaid, Text
<1>7. ThreadsSaid' BY <1>1, <1>3, <1>4 DEF TakenSaid, ThreadsSaid
<1>8. /\ DOMAIN cached' = DOMAIN ctx.backends
      /\ \A i \in DOMAIN cached' : cached'[i].timeout = ctx.ints["timeout"]
      /\ ~stale' => ~stale /\ \A i \in DOMAIN cached' : \A k \in HealthStrs :
            cached'[i].strs[k] = Text(ctx.backends[i].strs[k])
  BY RefreshTakes DEF Typed
<1>9. ctx.ints["timeout"] = SpokenIn(said, Global, "timeout", 0)
  <2>1. "timeout" \in IntKeys BY DEF IntKeys, HealthInts
  <2> QED BY <1>3, <2>1 DEF SettingsSaid, IntNow, Untouched
<1>10. WatcherSaid'
  <2> SUFFICES ASSUME ~stale', NEW i \in DOMAIN cached'
               PROVE  /\ cached'[i].timeout = SpokenIn(told'.watch, Global, "timeout", 0)
                      /\ \A k \in HealthStrs : cached'[i].strs[k] = Started(k)'
    BY DEF WatcherSaid
  <2>1. cached'[i].timeout = SpokenIn(told'.watch, Global, "timeout", 0) BY <1>4, <1>8, <1>9
  <2>2. ASSUME NEW k \in HealthStrs PROVE cached'[i].strs[k] = Started(k)'
    <3>1. cached'[i].strs[k] = Text(ctx.backends[i].strs[k]) BY <1>8
    <3>2. Text(ctx.backends[i].strs[k]) = Started(k)
      BY <1>3, <1>8 DEF TakenSaid, BackendStrsSaid
    <3> QED BY <1>5, <3>1, <3>2
  <2> QED BY <2>1, <2>2
<1>11. SettingsSaid' BY <1>1, <1>3 DEF SettingsSaid, IntNow, StrNow, reload
<1>12. ServersSaid' BY <1>1, <1>3 DEF ServersSaid
<1>13. Untouched' /\ Once(said') BY <1>1, <1>3 DEF Untouched, AllSaid, Once
<1>14. ~StartingUp' /\ ~Reading' BY <1>1 DEF StartingUp, Reading
<1> QED BY <1>1, <1>6, <1>7, <1>10, <1>11, <1>12, <1>13, <1>14 DEF AllSaid, TakenSaid

\* What the files say up to their first error, wherever they say it, is what the
\* context holds, if the lexer takes every word for what it is: the last
\* statement about a number or a health string, the last statement of the first
\* file about what start-up fixes, and of a backend its own statements, else the
\* default's, else the built-in values.  And what the threads took from it is
\* what was said when they did: the number of workers, and the database, user
\* and password that the watcher connects with, are the first file's whatever
\* reloads say, and the watcher's timeout is the one of its first look.
THEOREM RunsAsSaid == Spec => []Faithful
<1>1. Init => SaidInv
  <2> SUFFICES ASSUME Init PROVE again = None /\ AllSaid BY DEF SaidInv
  <2>1. again = None /\ phase = "boot" /\ files = 0 /\ said = {} /\ bes = <<Defaults>> BY DEF Init
  <2>2. Once(said) BY <2>1 DEF Once
  <2>3. Untouched BY DEF Init, Untouched
  <2>4. \A c, k, d : SpokenIn(said, c, k, d) = d BY <2>1 DEF SpokenIn
  <2>5. SettingsSaid
    <3>1. \A k \in IntKeys : IntNow(k) = 0 BY <2>3 DEF IntNow, Untouched, Init
    <3>2. \A k \in StrKeys : StrNow(k) = Null BY <2>3 DEF StrNow, Untouched, Init
    <3>3. Text(Null) = 0 BY DEF Text, Null
    <3> QED BY <2>4, <3>1, <3>2, <3>3 DEF SettingsSaid
  <2>6. StanzasSaid
    <3>1. Len(bes) = 1 /\ bes[1] = Defaults BY <2>1
    <3>2. \A i \in 1..Len(bes) : i = 1 BY <3>1
    <3> QED BY <2>1, <2>4, <3>1, <3>2 DEF StanzasSaid
  <2>7. StartingUp /\ ~Reading BY <2>1 DEF StartingUp, reload, Reading
  <2>8. HealthSaid
    <3>1. \A k \in HealthStrs : HealthNow(k) = BuiltIn
      BY <2>3, KeysDiffer DEF HealthNow, Untouched
    <3> QED BY <2>4, <3>1 DEF HealthSaid, Init
  <2> QED BY <2>1, <2>2, <2>3, <2>5, <2>6, <2>7, <2>8 DEF AllSaid
<1>2. Typed /\ Tables /\ SaidInv /\ [Next]_vars => SaidInv'
  <2> SUFFICES ASSUME Typed, Tables, SaidInv, [Next]_vars PROVE SaidInv' OBVIOUS
  <2>1. CASE Boot BY <2>1, OpenSaid DEF Boot
  <2>2. CASE Hup BY <2>2, OpenSaid DEF Hup
  <2>3. CASE Parse BY <2>3, ParseSaid
  <2>4. CASE Apply BY <2>4, ApplySaid
  <2>5. ASSUME phase' \in {"failed", "crashed", "stopped"}, odd' = odd,
               again' = again \/ again' = None
        PROVE  SaidInv'
    BY <2>5 DEF SaidInv, Going
  <2>6. CASE BootFails \/ OpenCrashes BY <2>5, <2>6 DEF BootFails, OpenCrashes, lexer
  <2>7. CASE ApplyCrashes BY <2>5, <2>7 DEF ApplyCrashes, lexer
  <2>8. CASE ApplyFails BY <2>5, <2>8 DEF ApplyFails, ParserFreed
  <2>9. CASE Deconfigure BY <2>5, <2>9 DEF Deconfigure, lexer
  <2>10. CASE Launch
    <3>1. phase = "launch" /\ phase' \in {"failed", "crashed", "up"} BY <2>10 DEF Launch
    <3>2. UNCHANGED <<files, p, bes, ctx, said, odd, again, cached, told, stale>>
      BY <2>10 DEF Launch, lexer, parser, heap
    <3>3. CASE phase' = "up"
      <4>1. threads' = ctx.ints["workers"] BY <2>10, <3>3 DEF Launch
      <4>2. \A k : Started(k)' = Started(k) BY <3>2 DEF Started
      <4>3. BackendStrsSaid => BackendStrsSaid' BY <3>2, <4>2 DEF BackendStrsSaid, Text
      <4>4. WatcherSaid => WatcherSaid' BY <3>2, <4>2 DEF WatcherSaid
      <4>5. ThreadsSaid => ThreadsSaid' BY <3>1, <3>2, <3>3, <4>1 DEF ThreadsSaid
      <4>6. TakenSaid => TakenSaid' BY <4>3, <4>4, <4>5 DEF TakenSaid
      <4> QED BY <3>1, <3>2, <3>3, <4>6, IdleSaid DEF SaidInv, Going
    <3> QED BY <2>5, <3>1, <3>2, <3>3
  <2>11. CASE Refresh
    <3>1. UNCHANGED <<odd, again>> /\ phase = "up" BY <2>11 DEF Refresh, lexer
    <3> QED BY <2>11, <3>1, RefreshSaid DEF SaidInv, Going
  <2>12. CASE UNCHANGED vars
    <3>1. UNCHANGED <<phase, files, p, bes, ctx, said, odd, again, threads, cached, told, stale>>
      BY <2>12 DEF vars, lexer, parser, context, heap
    <3>2. AllSaid => AllSaid'
      <4>1. SettingsSaid' <=> SettingsSaid BY <3>1 DEF SettingsSaid, IntNow, StrNow, reload
      <4>2. StanzasSaid' <=> StanzasSaid BY <3>1 DEF StanzasSaid
      <4>3. ServersSaid' <=> ServersSaid BY <3>1 DEF ServersSaid
      <4>4. Untouched' <=> Untouched BY <3>1 DEF Untouched
      <4>5. (StartingUp' <=> StartingUp) /\ (Reading' <=> Reading)
        BY <3>1 DEF StartingUp, Reading, reload
      <4>6. HealthSaid' <=> HealthSaid BY <3>1 DEF HealthSaid, HealthNow, Text, BuiltIn
      <4>7. TakenSaid => TakenSaid' BY <3>1, TakenKept
      <4> QED BY <3>1, <4>1, <4>2, <4>3, <4>4, <4>5, <4>6, <4>7 DEF AllSaid, Once
    <3> QED BY <3>1, <3>2 DEF SaidInv, Going
  <2> QED BY <2>1, <2>2, <2>3, <2>4, <2>6, <2>7, <2>8, <2>9, <2>10, <2>11, <2>12 DEF Next
<1>3. SaidInv => Faithful
  <2> SUFFICES ASSUME SaidInv, phase = "up", ~odd PROVE AsSaid BY DEF Faithful
  <2>1. AllSaid /\ ~StartingUp /\ ~Reading BY DEF SaidInv, Going, StartingUp, Reading
  <2>2. SettingsSaid /\ ServersSaid /\ TakenSaid /\ Untouched BY <2>1 DEF AllSaid
  <2>3. \A c, k, d : Spoken(c, k, d) = SpokenIn(said, c, k, d) BY DEF Spoken
  <2>4. \A k \in IntKeys : ctx.ints[k] = Spoken(Global, k, 0)
    BY <2>2, <2>3 DEF SettingsSaid, IntNow, Untouched
  <2>5. \A k \in StrKeys : Text(ctx.strs[k]) = Spoken(Global, k, 0)
    BY <2>2, <2>3 DEF SettingsSaid, StrNow, Untouched
  <2>6. \A i \in DOMAIN ctx.backends : \A k \in BackendKeys :
            ctx.backends[i][k] = Spoken(ctx.backends[i].id, k, Spoken(Default, k, Defaults[k]))
    BY <2>2, <2>3 DEF ServersSaid
  <2>7. ContextAsSaid BY <2>2, <2>4, <2>5, <2>6 DEF ContextAsSaid, ServersSaid
  <2>8. UseAsSaid
    BY <2>2 DEF UseAsSaid, TakenSaid, BackendStrsSaid, WatcherSaid, ThreadsSaid
  <2> QED BY <2>7, <2>8 DEF AsSaid
<1>4. HeapInv => Tables BY DEF HeapInv
<1> QED BY <1>1, <1>2, <1>3, <1>4, HeapKept, TypesKept, PTL DEF Spec
=============================================================================
