---------------------------- MODULE Credentials ----------------------------
(***************************************************************************)
(* How the router comes to trust a password: the table AuthDb has read,    *)
(* searched for the user of a connection, and Md5 over the hash found and  *)
(* a salt, once to check the client's answer (check_auth, src/conn.c) and  *)
(* once to answer a backend in the client's place (password_message).      *)
(*                                                                         *)
(* Who is connected, which messages are exchanged and what is remembered   *)
(* between them is module Conn; here a digest is what md5.c makes of the   *)
(* octets, and the table what authdb.c makes of the file.                  *)
(*                                                                         *)
(* md5.c is also used directly, with messages in pieces of any length, as  *)
(* the test programs of the repository do; phase "api" is that use.        *)
(***************************************************************************)
EXTENDS AuthDb, Md5

CONSTANTS HashLen,   \* octets of a hash in a PasswordMessage: 32
          Salt,      \* the salt sent to the client: 4 octets
          Salt2,     \* the salt of the backend
          Secrets,   \* the hashes a client may know
          Text       \* what the test program feeds to md5.c

ASSUME CredentialsAssumption ==
    /\ HashLen \in Nat
    /\ Salt \in Seq(Char) /\ Salt2 \in Seq(Char) /\ Text \in Seq(Char)
    /\ Secrets \subseteq Seq(Char)

VARIABLES phase,     \* what the connection is doing
          who,       \* its user
          claim,     \* the hash the client knows
          pwhash,    \* c->pwhash: the hash found, {} for NULL
          verdict,   \* what check_auth returned
          fed        \* how much of Text was fed

vars == <<authVars, mdVars, phase, who, claim, pwhash, verdict, fed>>
conn == <<who, claim, pwhash, verdict, fed>>

Octets(s) == [i \in 1..Len(s) |-> <<"data", s[i]>>]

\* A client with its own MD5 answers with this digest.
ClientAnswer(h) == <<"std", D!Padded(Octets(h \o Salt))>>

Hash == CHOOSE h \in pwhash : TRUE

\* pgr_auth_find for the user of the StartupMessage; check_auth denies an
\* unknown user when the password arrives.
Identify(u, h) ==
    /\ pc = "ready" /\ phase = "idle"
    /\ who' = u /\ claim' = h
    /\ pwhash' = pgr_auth_find(u)
    /\ IF pwhash' = {} THEN verdict' = "denied" /\ phase' = "over"
                       ELSE verdict' = "none" /\ phase' = "check"
    /\ UNCHANGED <<authVars, mdVars, fed>>

\* check_auth: initialise, ...
Check ==
    /\ phase = "check"
    /\ pgr_md5_init
    /\ phase' = "check hash"
    /\ UNCHANGED <<authVars, conn>>

CheckHash ==
    /\ phase = "check hash"
    /\ pgr_md5_update(Octets(Hash))
    /\ phase' = "check salt"
    /\ UNCHANGED <<authVars, conn>>

CheckSalt ==
    /\ phase = "check salt"
    /\ pgr_md5_update(Octets(Salt))
    /\ phase' = "check result"
    /\ UNCHANGED <<authVars, conn>>

\* ... and compare the result with what the client has sent.
CheckResult ==
    /\ phase = "check result"
    /\ pgr_md5_raw
    /\ verdict' = IF out' = ClientAnswer(claim) THEN "ok" ELSE "denied"
    /\ phase' = IF verdict' = "ok" THEN "prove" ELSE "over"
    /\ UNCHANGED <<authVars, who, claim, pwhash, fed>>

\* Mutant: the hash is taken one octet short.
ProvedShort == [i \in 1..(HashLen - 1) |-> IF i <= Len(Hash) THEN <<"data", Hash[i]>> ELSE Stray]

\* The octets of the hash that password_message hands over: 32 of them, also
\* when the string is shorter and what follows it in memory is read.
Proved == [i \in 1..HashLen |-> IF i <= Len(Hash) THEN <<"data", Hash[i]>> ELSE Stray]

\* password_message, when a backend asks for the password.
Prove ==
    /\ phase = "prove"
    /\ pgr_md5_init
    /\ phase' = "prove hash"
    /\ UNCHANGED <<authVars, conn>>

ProveHash ==
    /\ phase = "prove hash"
    /\ pgr_md5_update(Proved)
    /\ phase' = "prove salt"
    /\ UNCHANGED <<authVars, conn>>

ProveSalt ==
    /\ phase = "prove salt"
    /\ pgr_md5_update(Octets(Salt2))
    /\ phase' = "prove result"
    /\ UNCHANGED <<authVars, conn>>

ProveResult ==
    /\ phase = "prove result"
    /\ pgr_md5_raw
    /\ phase' = "proved"
    /\ UNCHANGED <<authVars, conn>>

\* The test program: messages of any length, in any pieces.
ApiInit ==
    /\ phase = "api" /\ iv # "std"
    /\ pgr_md5_init
    /\ UNCHANGED <<authVars, conn, phase>>

ApiUpdate(n) ==
    /\ phase = "api" /\ iv = "std"
    /\ pgr_md5_update(Octets(SubSeq(Text, fed + 1, fed + n)))
    /\ fed' = fed + n
    /\ UNCHANGED <<authVars, who, claim, pwhash, verdict, phase>>

ApiRaw ==
    /\ phase = "api" /\ iv = "std"
    /\ pgr_md5_raw
    /\ UNCHANGED <<authVars, conn, phase>>

Reading == AuthNext /\ UNCHANGED <<mdVars, phase, conn>>

Session ==
    \/ Check \/ CheckHash \/ CheckSalt \/ CheckResult
    \/ Prove \/ ProveHash \/ ProveSalt \/ ProveResult

Init ==
    /\ AuthInit /\ MdInit
    /\ phase \in {"idle", "api"}
    /\ who = <<>> /\ claim = <<>> /\ pwhash = {} /\ verdict = "none" /\ fed = 0

Next ==
    \/ phase = "idle" /\ Reading
    \/ \E u \in Users, h \in Secrets : Identify(u, h)
    \/ Session
    \/ ApiInit \/ ApiRaw \/ \E n \in 0..(Len(Text) - fed) : ApiUpdate(n)

\* The supervisor goes on reading a file it has opened.
Spec ==
    /\ Init /\ [][Next]_vars
    /\ WF_vars(phase = "idle" /\ (Loaded \/ Lex \/ Parse \/ Install) /\ UNCHANGED <<mdVars, phase, conn>>)

-----------------------------------------------------------------------------
(* Properties. *)

\* The variables of authdb.c, md5.c and their callers have values of their types.
TypeOK ==
    /\ AuthTypeOK
    /\ iv \in {"unset", "std", "zero"}
    /\ lo \in 0..(LoMod - 1) /\ hi \in 0..(HiMod - 1) /\ Len(mdbuf) = Block
    /\ pwhash \subseteq {table[i].hash : i \in 1..Len(table)}
    /\ verdict \in {"none", "ok", "denied"} /\ fed \in 0..Len(Text)

\* The lexer of the file of users is safe: typed, inside its source, and never
\* asked for a token once it has ended.
LexerInv == TypeOK /\ InBounds /\ EmitSafe

\* A client is let in if and only if it knows the hash that the first line for
\* its user gives, when the file is proper; a second line for a user, a comment
\* or a quoted name changes nothing.
AdmitsOwner ==
    verdict # "none" /\ CleanTo = Len(file) =>
        LET mine == {i \in 1..Len(Said) : Said[i].user = who}
        IN verdict = "ok" <=>
               \E i \in mine : (\A j \in mine : i <= j) /\ Said[i].hash = claim

\* What the router proves to the backend is knowledge of the very hash it has
\* checked, if that has the length of a hash.
ProvesSame ==
    phase = "proved" /\ Len(Hash) = HashLen =>
        out = <<"std", D!Padded(Octets(claim \o Salt2))>>

\* The same for hashes of any length.
ProvesSameAlways ==
    phase = "proved" => out = <<"std", D!Padded(Octets(claim \o Salt2))>>
=============================================================================
