---------------------------- MODULE AccessProofs ----------------------------
(***************************************************************************)
(* Theorems about Access, for any vaults, callers, passkeys, settings,     *)
(* requests in flight, lifetimes and back-off constants: a password is     *)
(* tried only when the back-off allows it, a session authorises only the   *)
(* device number or portal that earned it and only while it stands, and an *)
(* unlock record never outlives its passkey.                               *)
(*                                                                         *)
(* The inductive invariant has one part per store.  The parts meet in the  *)
(* requests in flight: a token travels from the session store through an   *)
(* answer into a client's keeping and back in a later request, and the     *)
(* invariant follows it (Mine).                                            *)
(***************************************************************************)
EXTENDS Access, FiniteSetTheorems, TLAPS

Pcs == {"idle", "asked", "deriving", "minting", "wrapping", "counting", "unwrapping",
        "signing", "writing", "renaming", "loading", "loaded", "answered"}
Ops == {"none", "unlock", "passwd", "act", "remove", "remake", "lock", "lockall", "end", "enrol",
        "signin", "boot", "config", "reload"}
Words == {"none", "right", "wrong", "kek", "unlocked"}
Hows == {"none", "limited", "wrong", "notinit", "password", "policy", "session", "presence",
         "authreq", "ok", "locked", "bad"}
ReqSet == [pc: Pcs, op: Ops, vault: Vaults \cup {Absent}, place: Places, word: Words,
           tok: Tokens \cup {NoTok}, code: Nat, arg: Texts \cup Creds \cup {NoText},
           how: Hows, lost: BOOLEAN]
SessionSet == [vault: Vaults \cup {Absent}, place: Places, tty: Places, at: Nat, used: Nat]

\* Session t of the table T is vault v's, earned at place p.
Mine(T, t, v, p) == t \in Tokens /\ v \in Vaults /\ T[t].vault = v /\ T[t].place = p

\* The back-off in memory is the one due to the wrong passwords answered in a
\* row, unless an older file was read; and the file is the memory, unless it
\* could not be written.
BackOK ==
    /\ disk \in [failed: BOOLEAN, stale: BOOLEAN]
    /\ ~disk.failed => saved = limiter
    /\ ~disk.stale => limiter.fails = streak.n /\ limiter.next = streak.at + Delay(streak.n)

\* Sessions are numbered as they are minted; none is both in force and revoked.
Numbered(n) ==
    /\ n \in 0..MaxTokens
    /\ \A t \in Tokens : IF t <= n THEN tokens[t].vault \in Vaults ELSE tokens[t] = NoSession
SessOK ==
    /\ tokens \in [Tokens -> SessionSet]
    /\ \E n \in 0..MaxTokens : Numbered(n)
    /\ sess \cup revoked \subseteq {t \in Tokens : tokens[t].vault \in Vaults}
    /\ sess \cap revoked = {}

\* A client keeps only what it was given for the vault.
ClientsOK ==
    /\ files \in [Terminals -> [Vaults -> Tokens \cup {NoTok}]]
    /\ held \in [Vaults -> Tokens \cup {NoTok}]
    /\ \A p \in Terminals, v \in Vaults : files[p][v] # NoTok => Mine(tokens, files[p][v], v, p)
    /\ \A v \in Vaults : held[v] # NoTok => Mine(tokens, held[v], v, Portal)

KeysOK ==
    /\ creds \in [Vaults -> SUBSET Creds] /\ wraps \in [Vaults -> SUBSET Creds]
    /\ \A v \in Vaults : wraps[v] \subseteq creds[v]

ConfOK == conf \in [file: Texts, tmp: Texts \cup {NoText}, live: Texts, ui: Nat]

StateOK == load \in Workloads /\ now \in Nat /\ BackOK /\ SessOK /\ ClientsOK /\ KeysOK /\ ConfOK

\* A request in flight: the token it carries or brings back, the vault it has
\* reached, the settings it writes.
ReqOK(q, T) ==
    /\ q.tok # NoTok => Mine(T, q.tok, q.vault, q.place)
    /\ q.pc \in {"minting", "wrapping", "counting", "unwrapping", "signing"} => q.vault \in Vaults
    /\ q.op = "signin" => q.place = Portal
    /\ q.op = "config" /\ q.pc \notin {"idle", "answered"} => q.arg \in Texts
    /\ q.op = "enrol" /\ q.pc \notin {"idle", "answered"} => q.arg \in Creds
    /\ q.pc = "loading" => q.op = "config"
    /\ q.pc = "loaded" => q.arg \in Texts

ReqsOK == req \in [Reqs -> ReqSet] /\ \A r \in Reqs : ReqOK(req[r], tokens)

AccessInv == StateOK /\ ReqsOK

-----------------------------------------------------------------------------
(* The stores, one by one.                                                 *)

LEMMA ConstantsType ==
    /\ MaxTokens \in Nat /\ MaxOnce \in Nat /\ Absent \notin Vaults /\ StartText \in Texts
    /\ SessionTTL \in Nat /\ \A t \in Texts : t.ui \in Nat
    /\ Tokens \subseteq Nat /\ NoTok \notin Tokens /\ Codes \subseteq Nat
BY AccessAssumption DEF Tokens, Codes, NoTok

\* Only the number after the last is free.
LEMMA FreshIsNew ==
    ASSUME SessOK
    PROVE  /\ FreshToken \in Nat
           /\ FreshToken \in Tokens => tokens[FreshToken] = NoSession
           /\ FreshToken \in Tokens =>
                 \A t \in Tokens : IF t <= FreshToken - 1 THEN tokens[t].vault \in Vaults
                                                          ELSE tokens[t] = NoSession
<1>1. PICK n \in 0..MaxTokens : Numbered(n)
  BY DEF SessOK
<1>2. NoSession.vault \notin Vaults
  BY ConstantsType DEF NoSession
<1>3. {t \in Tokens : tokens[t] # NoSession} = 1..n
  BY <1>1, <1>2, ConstantsType DEF Numbered, Tokens
<1>4. Cardinality(1..n) = n
  <2>1. n \in Nat
    BY ConstantsType
  <2>2. Cardinality(1..n) = IF 1 > n THEN 0 ELSE n - 1 + 1
    BY <2>1, FS_Interval
  <2> QED
    BY <2>1, <2>2
<1>5. FreshToken = n + 1 /\ n \in Nat
  <2>1. FreshToken = Cardinality(1..n) + 1
    BY <1>3, Zenon DEF FreshToken
  <2> QED
    BY <1>4, <2>1, ConstantsType
<1> QED
  BY <1>1, <1>5 DEF Numbered

\* The table keeps whose a session is.
Grows == \A t \in Tokens : tokens[t].vault \in Vaults =>
            tokens'[t].vault = tokens[t].vault /\ tokens'[t].place = tokens[t].place

LEMMA MineGrows ==
    ASSUME Grows, NEW t, NEW v, NEW p, Mine(tokens, t, v, p)
    PROVE  Mine(tokens', t, v, p)
BY DEF Grows, Mine

\* sessionStore.mint.
LEMMA MintStep ==
    ASSUME StateOK, NEW v \in Vaults, NEW p \in Places, MintSession(v, p)
    PROVE  SessOK' /\ Grows /\ Mine(tokens', FreshToken, v, p)
<1>0. PICK f : f = FreshToken
  OBVIOUS
<1> DEFINE s == [vault |-> v, place |-> p, tty |-> Tty(p), at |-> now, used |-> now]
<1>1. /\ f \in Tokens /\ tokens' = [tokens EXCEPT ![f] = s] /\ sess' = sess \cup {f}
      /\ revoked' = revoked
  BY <1>0 DEF MintSession
<1>2. /\ tokens[f] = NoSession /\ f \in Nat
      /\ \A t \in Tokens : IF t <= f - 1 THEN tokens[t].vault \in Vaults ELSE tokens[t] = NoSession
  BY <1>0, <1>1, FreshIsNew DEF StateOK
<1>3. NoSession.vault \notin Vaults
  BY ConstantsType DEF NoSession
<1>4. s \in SessionSet
  BY DEF StateOK, SessionSet, Tty, Places
<1>5. s.vault = v /\ s.place = p
  OBVIOUS
<1> HIDE DEF s
<1>6. tokens \in [Tokens -> SessionSet] /\ tokens'[f] = s
  BY <1>1 DEF StateOK, SessOK
<1>7. tokens' \in [Tokens -> SessionSet] /\ \A t \in Tokens \ {f} : tokens'[t] = tokens[t]
  BY <1>1, <1>4, <1>6
<1>8. Numbered(f)'
  <2>1. f \in 0..MaxTokens
    BY <1>1, ConstantsType DEF Tokens
  <2>2. ASSUME NEW t \in Tokens
        PROVE  IF t <= f THEN tokens'[t].vault \in Vaults ELSE tokens'[t] = NoSession
    <3>1. t \in Nat /\ (t <= f <=> t <= f - 1 \/ t = f)
      BY <1>2, ConstantsType
    <3> QED
      BY <1>2, <1>5, <1>6, <1>7, <3>1
  <2> QED
    BY <2>1, <2>2 DEF Numbered
<1>9. f \in 0..MaxTokens
  BY <1>1, ConstantsType DEF Tokens
<1>10. f \notin sess \cup revoked
  BY <1>2, <1>3 DEF StateOK, SessOK
<1>11. sess' \cup revoked' \subseteq {t \in Tokens : tokens'[t].vault \in Vaults}
  <2>1. sess \cup revoked \subseteq {t \in Tokens : tokens[t].vault \in Vaults}
    BY DEF StateOK, SessOK
  <2>2. \A t \in sess \cup revoked : t \in Tokens /\ tokens'[t].vault \in Vaults
    BY <1>5, <1>6, <1>7, <2>1
  <2> QED
    BY <1>1, <1>5, <1>6, <2>2
<1>12. SessOK'
  BY <1>1, <1>7, <1>8, <1>9, <1>10, <1>11 DEF StateOK, SessOK
<1>13. Grows
  BY <1>2, <1>3, <1>7 DEF Grows
<1> QED
  BY <1>0, <1>1, <1>5, <1>6, <1>12, <1>13 DEF Mine

\* Sessions go, to the revoked or for good.
LEMMA FewerStep ==
    ASSUME StateOK, tokens' = tokens, sess' \subseteq sess,
           revoked' \subseteq revoked \cup (sess \ sess')
    PROVE  SessOK' /\ Grows
<1>1. PICK n \in 0..MaxTokens : Numbered(n)
  BY DEF StateOK, SessOK
<1>2. Numbered(n)'
  BY <1>1 DEF Numbered
<1> QED
  BY <1>2 DEF StateOK, SessOK, Grows

\* Parts that a step leaves alone.
LEMMA SessSame ==
    ASSUME StateOK, UNCHANGED sessions
    PROVE  SessOK' /\ Grows
BY FewerStep DEF sessions

LEMMA ClientsSame ==
    ASSUME StateOK, UNCHANGED clients, Grows
    PROVE  ClientsOK'
BY MineGrows DEF StateOK, ClientsOK, clients

LEMMA BackSame ==
    ASSUME StateOK, UNCHANGED limits
    PROVE  BackOK'
BY DEF StateOK, BackOK, limits

LEMMA KeysSame ==
    ASSUME StateOK, UNCHANGED passkeys
    PROVE  KeysOK'
BY DEF StateOK, KeysOK, passkeys

\* persist, RecordFailure, RecordSuccess.
LEMMA FailureStep ==
    ASSUME StateOK, RecordFailure
    PROVE  BackOK'
<1>1. PICK failed \in BOOLEAN :
        /\ saved' = IF failed THEN saved ELSE limiter'
        /\ disk' = [failed |-> failed, stale |-> disk.stale /\ ~FALSE]
  BY DEF RecordFailure, Persist
<1>2. disk \in [failed: BOOLEAN, stale: BOOLEAN]
  BY DEF StateOK, BackOK
<1>3. disk' \in [failed: BOOLEAN, stale: BOOLEAN] /\ disk'.failed = failed /\ disk'.stale = disk.stale
  BY <1>1, <1>2, Zenon
<1>4. ~disk.stale => /\ limiter' = [fails |-> limiter.fails + 1, next |-> now + Delay(limiter.fails + 1)]
                     /\ streak' = [n |-> streak.n + 1, at |-> now]
  BY DEF RecordFailure
<1>5. ~disk.stale => limiter.fails = streak.n
  BY DEF StateOK, BackOK
<1> QED
  BY <1>1, <1>3, <1>4, <1>5 DEF BackOK

LEMMA SuccessStep ==
    ASSUME StateOK, RecordSuccess
    PROVE  BackOK'
<1>1. PICK failed \in BOOLEAN :
        /\ saved' = IF failed THEN saved ELSE limiter'
        /\ disk' = [failed |-> failed, stale |-> disk.stale /\ ~TRUE]
  BY DEF RecordSuccess, Persist
<1>2. disk' \in [failed: BOOLEAN, stale: BOOLEAN] /\ disk'.failed = failed
  BY <1>1, Zenon
<1>3. limiter' = [fails |-> 0, next |-> 0] /\ streak' = [n |-> 0, at |-> 0] /\ Delay(0) = 0
  BY DEF RecordSuccess, Delay
<1> QED
  BY <1>1, <1>2, <1>3 DEF BackOK

-----------------------------------------------------------------------------
(* Requests.                                                               *)

\* A request starts on a password only past the back-off, and is answered by
\* a session only when the store vouches for it.
Tried == \A r \in Reqs : req'[r].pc = "deriving" => req[r].pc = "deriving" \/ MayTry
Earned == \A r \in Reqs : req'[r].how = "session" =>
             req[r].how = "session" \/ Validate(req[r].tok, req[r].vault, req[r].place)
Sound == ReqsOK' /\ Tried /\ Earned

LEMMA RequestType ==
    ASSUME AccessInv, NEW r \in Reqs
    PROVE  req[r] \in ReqSet /\ ReqOK(req[r], tokens)
BY DEF AccessInv, ReqsOK

LEMMA ReqStep ==
    ASSUME AccessInv, NEW r \in Reqs, NEW q \in ReqSet, req' = [req EXCEPT ![r] = q],
           ReqOK(q, tokens'), Grows,
           q.pc = "deriving" => req[r].pc = "deriving" \/ MayTry,
           q.how = "session" => req[r].how = "session" \/ Validate(req[r].tok, req[r].vault, req[r].place)
    PROVE  Sound
<1>1. /\ req' \in [Reqs -> ReqSet] /\ req'[r] = q
      /\ \A s \in Reqs \ {r} : req'[s] = req[s]
  BY DEF AccessInv, ReqsOK
<1>2. ASSUME NEW s \in Reqs PROVE ReqOK(req'[s], tokens')
  <2>1. CASE s = r
    BY <1>1, <2>1
  <2>2. CASE s # r
    <3>1. req'[s] = req[s] /\ ReqOK(req[s], tokens)
      BY <1>1, <2>2, RequestType
    <3> QED
      BY <3>1, MineGrows DEF ReqOK
  <2> QED
    BY <2>1, <2>2
<1>3. Tried /\ Earned
  BY <1>1 DEF Tried, Earned
<1> QED
  BY <1>1, <1>2, <1>3 DEF Sound, ReqsOK

LEMMA AnsweredOK ==
    ASSUME NEW q \in ReqSet, NEW T, ReqOK(q, T), NEW how \in Hows,
           NEW tok \in Tokens \cup {NoTok}, tok # NoTok => Mine(T, tok, q.vault, q.place)
    PROVE  /\ Answered(q, how, tok) \in ReqSet /\ ReqOK(Answered(q, how, tok), T)
           /\ Answered(q, how, tok).pc = "answered" /\ Answered(q, how, tok).how = how
           /\ Answered(q, how, tok).place = q.place /\ Answered(q, how, tok).vault = q.vault
<1> DEFINE a == Answered(q, how, tok)
<1>1. a \in ReqSet
  BY DEF Answered, ReqSet, Pcs, Words
<1>2. /\ a.pc = "answered" /\ a.how = how /\ a.tok = tok /\ a.vault = q.vault
      /\ a.place = q.place /\ a.op = q.op
  BY DEF Answered, ReqSet
<1> HIDE DEF a
<1>3. ReqOK(a, T)
  BY <1>2 DEF ReqOK
<1> QED
  BY <1>1, <1>2, <1>3 DEF a

LEMMA ReqOKGrows ==
    ASSUME Grows, NEW q, ReqOK(q, tokens)
    PROVE  ReqOK(q, tokens')
BY MineGrows DEF ReqOK

LEMMA AnswerStep ==
    ASSUME AccessInv, NEW r \in Reqs, NEW how \in Hows, Answer(r, how), Grows,
           how = "session" => Validate(req[r].tok, req[r].vault, req[r].place)
    PROVE  Sound
<1> DEFINE q == Answered(req[r], how, req[r].tok)
<1>1. req' = [req EXCEPT ![r] = q]
  BY DEF Answer
<1>2. req[r] \in ReqSet /\ ReqOK(req[r], tokens') /\ req[r].tok \in Tokens \cup {NoTok}
  BY RequestType, ReqOKGrows DEF ReqSet
<1>3. q \in ReqSet /\ ReqOK(q, tokens') /\ q.pc = "answered" /\ q.how = how
  BY <1>2, AnsweredOK DEF ReqOK
<1> HIDE DEF q
<1> QED
  BY <1>1, <1>3, ReqStep

LEMMA AnswerTokenStep ==
    ASSUME AccessInv, NEW r \in Reqs, NEW how \in Hows \ {"session"},
           NEW tok \in Tokens \cup {NoTok}, AnswerToken(r, how, tok), Grows,
           tok # NoTok => Mine(tokens', tok, req[r].vault, req[r].place)
    PROVE  Sound
<1> DEFINE q == Answered(req[r], how, tok)
<1>1. req' = [req EXCEPT ![r] = q]
  BY DEF AnswerToken
<1>2. req[r] \in ReqSet /\ ReqOK(req[r], tokens')
  BY RequestType, ReqOKGrows
<1>3. q \in ReqSet /\ ReqOK(q, tokens') /\ q.pc = "answered" /\ q.how = how
  BY <1>2, AnsweredOK
<1> HIDE DEF q
<1> QED
  BY <1>1, <1>3, ReqStep

LEMMA GoesStep ==
    ASSUME AccessInv, NEW r \in Reqs, NEW pc \in Pcs \ {"idle", "loaded", "answered"}, Goes(r, pc),
           Grows, req[r].pc \notin {"idle", "answered"}, pc = "loading" => req[r].op = "config",
           pc \in {"minting", "wrapping", "counting", "unwrapping", "signing"} => req[r].vault \in Vaults,
           pc = "deriving" => MayTry
    PROVE  Sound
<1> DEFINE q == [req[r] EXCEPT !.pc = pc]
<1>1. req' = [req EXCEPT ![r] = q]
  BY DEF Goes
<1>2. req[r] \in ReqSet /\ ReqOK(req[r], tokens')
  BY RequestType, ReqOKGrows
<1>3. /\ q \in ReqSet /\ q.pc = pc /\ q.tok = req[r].tok /\ q.vault = req[r].vault
      /\ q.place = req[r].place /\ q.op = req[r].op /\ q.arg = req[r].arg /\ q.how = req[r].how
  BY <1>2 DEF ReqSet
<1> HIDE DEF q
<1>4. ReqOK(q, tokens')
  BY <1>2, <1>3 DEF ReqOK
<1> QED
  BY <1>1, <1>3, <1>4, ReqStep

\* A step that leaves the stores alone.
LEMMA StateSame ==
    ASSUME AccessInv, UNCHANGED <<load, now, limits, sessions, clients, passkeys, conf>>
    PROVE  StateOK' /\ Grows
<1>1. StateOK
  BY DEF AccessInv
<1>2. SessOK' /\ Grows
  BY <1>1, SessSame
<1>3. ClientsOK' /\ BackOK' /\ KeysOK'
  BY <1>1, <1>2, ClientsSame, BackSame, KeysSame
<1> QED
  BY <1>1, <1>2, <1>3 DEF StateOK, ConfOK

\* What every step is shown to do.
Good == AccessInv' /\ Tried /\ Earned

LEMMA GoodIs ==
    ASSUME StateOK', Sound
    PROVE  Good
BY DEF Good, Sound, AccessInv

-----------------------------------------------------------------------------
(* Asking.                                                                 *)

FormSet ==
    [vault: Vaults \cup {Absent}, place: Places, word: Words, code: Nat,
     arg: Texts \cup Creds \cup {NoText}]

LEMMA FormType ==
    ASSUME NEW v \in Vaults \cup {Absent}, NEW p \in Places, NEW w \in Words, NEW c \in Nat,
           NEW a \in Texts \cup Creds \cup {NoText}
    PROVE  /\ Form(v, p, w, c, a) \in FormSet
           /\ Form(v, p, w, c, a).place = p /\ Form(v, p, w, c, a).arg = a
           /\ Form(v, p, w, c, a).vault = v
BY DEF Form, FormSet

LEMMA FormsType ==
    ASSUME load \in Workloads, NEW op, NEW f \in Forms(op)
    PROVE  /\ op \in Ops \ {"none"} /\ f \in FormSet
           /\ op = "signin" => f.place = Portal
           /\ op = "config" => f.arg \in Texts
           /\ op = "enrol" => f.arg \in Creds
<1>1. /\ load.vaults \subseteq Vaults \cup {Absent} /\ load.places \subseteq Places
      /\ load.places \cap {Portal} \subseteq Places /\ Portal \in Places
  BY AccessAssumption DEF Places
<1>2. /\ Presences \subseteq Nat /\ Ceremonies \subseteq Nat /\ 0 \in Nat
      /\ \A k : {d \in Codes : once[d].kind = k} \subseteq Nat
  BY ConstantsType DEF Presences, Ceremonies
<1>3. /\ load.words \cap {"right", "wrong"} \subseteq Words
      /\ load.words \cap {"kek", "none"} \subseteq Words /\ "none" \in Words
  BY DEF Words
<1> DEFINE Fits == f \in FormSet
<1>4. CASE op \in {"unlock", "passwd"}
  <2>1. \E v \in load.vaults, p \in load.places, w \in load.words \cap {"right", "wrong"} :
           f = Form(v, p, w, 0, NoText)
    BY <1>4 DEF Forms
  <2>2. Fits
    BY <1>1, <1>2, <1>3, <2>1, FormType
  <2> QED
    BY <1>4, <2>2 DEF Ops
<1>5. CASE op = "act"
  <2>1. \/ \E v \in load.vaults, p \in load.places, w \in load.words \cap {"right", "wrong"} :
              f = Form(v, p, w, 0, NoText)
        \/ \E v \in load.vaults, p \in load.places : f = Form(v, p, "none", 0, NoText)
        \/ \E v \in load.vaults, c \in Presences : f = Form(v, Portal, "none", c, NoText)
    BY <1>5 DEF Forms
  <2>2. Fits
    BY <1>1, <1>2, <1>3, <2>1, FormType
  <2> QED
    BY <1>5, <2>2 DEF Ops
<1>6. CASE op = "remove"
  <2>1. \E v \in load.vaults, p \in load.places \cap {Portal},
           w \in load.words \cap {"right", "wrong"}, c \in Creds : f = Form(v, p, w, 0, c)
    BY <1>6 DEF Forms
  <2>2. Fits
    BY <1>1, <1>2, <1>3, <2>1, FormType
  <2> QED
    BY <1>6, <2>2 DEF Ops
<1>7. CASE op \in {"lock", "end"}
  <2>1. \E v \in load.vaults, p \in load.places : f = Form(v, p, "none", 0, NoText)
    BY <1>7 DEF Forms
  <2>2. Fits
    BY <1>1, <1>2, <1>3, <2>1, FormType
  <2> QED
    BY <1>7, <2>2 DEF Ops
<1>8. CASE op \in {"lockall", "reload"}
  <2>1. \E p \in load.places : f = Form(Absent, p, "none", 0, NoText)
    BY <1>8 DEF Forms
  <2>2. Fits
    BY <1>1, <1>2, <1>3, <2>1, FormType
  <2> QED
    BY <1>8, <2>2 DEF Ops
<1>9. CASE op \in {"enrol", "signin"}
  <2>1. \E v \in load.vaults, p \in load.places \cap {Portal}, w \in load.words \cap {"kek", "none"},
           c \in Ceremonies, a \in Creds : f = Form(v, p, w, c, a)
    BY <1>9 DEF Forms
  <2>2. Fits /\ f.place = Portal /\ f.arg \in Creds
    BY <1>1, <1>2, <1>3, <2>1, FormType
  <2> QED
    BY <1>9, <2>2 DEF Ops
<1>10. CASE op = "boot"
  <2>1. \E p \in load.places \cap {Portal}, c \in {d \in Codes : once[d].kind = "boot"} :
           f = Form(Absent, p, "none", c, NoText)
    BY <1>10 DEF Forms
  <2>2. Fits
    BY <1>1, <1>2, <1>3, <2>1, FormType
  <2> QED
    BY <1>10, <2>2 DEF Ops
<1>11. CASE op = "config"
  <2>1. \E p \in load.places \cap {Portal}, t \in Texts,
           c \in {0} \cup {d \in Codes : once[d].kind = "config"} : f = Form(Absent, p, "none", c, t)
    BY <1>11 DEF Forms
  <2>2. Fits /\ f.arg \in Texts
    BY <1>1, <1>2, <1>3, <2>1, FormType
  <2> QED
    BY <1>11, <2>2 DEF Ops
<1>12. CASE op = "remake"
  <2>1. \E v \in load.vaults, p \in load.places, w \in load.words \cap {"right", "wrong"} :
           f = Form(v, p, w, 0, NoText)
    BY <1>12 DEF Forms
  <2>2. Fits
    BY <1>1, <1>2, <1>3, <2>1, FormType
  <2> QED
    BY <1>12, <2>2 DEF Ops
<1>13. op \in {"unlock", "passwd", "act", "remove", "remake", "lock", "end", "lockall", "reload",
               "enrol", "signin", "boot", "config"}
  BY DEF Forms
<1> QED
  BY <1>4, <1>5, <1>6, <1>7, <1>8, <1>9, <1>10, <1>11, <1>12, <1>13

\* The token a request carries is its sender's, for the vault it names.
LEMMA CarriedIsMine ==
    ASSUME StateOK, NEW op, NEW v, NEW p
    PROVE  /\ Carried(op, v, p) \in Tokens \cup {NoTok}
           /\ Carried(op, v, p) # NoTok => Mine(tokens, Carried(op, v, p), v, p)
<1>1. CASE v \notin Vaults \/ op \notin {"act", "end"}
  BY <1>1 DEF Carried
<1>2. CASE v \in Vaults /\ op \in {"act", "end"} /\ p = Portal
  BY <1>2 DEF Carried, CarriedByPortal, StateOK, ClientsOK
<1>3. CASE v \in Vaults /\ op \in {"act", "end"} /\ p # Portal
  BY <1>3 DEF Carried, CarriedByTerminal, StateOK, ClientsOK
<1> QED
  BY <1>1, <1>2, <1>3

LEMMA AskStep ==
    ASSUME AccessInv, NEW r \in Reqs, Ask(r)
    PROVE  Good
<1>0. PICK op \in load.ops : \E f \in Forms(op) :
         req' = [req EXCEPT ![r] =
                      [pc |-> "asked", op |-> op, vault |-> f.vault, place |-> f.place,
                       word |-> f.word, tok |-> Carried(op, f.vault, f.place), code |-> f.code,
                       arg |-> f.arg, how |-> "none", lost |-> FALSE]]
  BY DEF Ask
<1>1. PICK f \in Forms(op) :
         req' = [req EXCEPT ![r] =
                      [pc |-> "asked", op |-> op, vault |-> f.vault, place |-> f.place,
                       word |-> f.word, tok |-> Carried(op, f.vault, f.place), code |-> f.code,
                       arg |-> f.arg, how |-> "none", lost |-> FALSE]]
  BY <1>0
<1> DEFINE t == Carried(op, f.vault, f.place)
           q == [pc |-> "asked", op |-> op, vault |-> f.vault, place |-> f.place,
                 word |-> f.word, tok |-> t, code |-> f.code, arg |-> f.arg, how |-> "none",
                 lost |-> FALSE]
<1>2. /\ op \in Ops \ {"none"} /\ f \in FormSet
      /\ op = "signin" => f.place = Portal
      /\ op = "config" => f.arg \in Texts
      /\ op = "enrol" => f.arg \in Creds
  BY FormsType DEF AccessInv, StateOK
<1>3. t \in Tokens \cup {NoTok} /\ (t # NoTok => Mine(tokens, t, f.vault, f.place))
  BY CarriedIsMine DEF AccessInv
<1>4. StateOK' /\ Grows
  BY StateSame DEF Ask
<1>5. req' = [req EXCEPT ![r] = q]
  BY <1>1
<1> HIDE DEF t
<1>6. q \in ReqSet
  BY <1>2, <1>3 DEF FormSet, ReqSet, Pcs, Hows
<1>7. /\ q.pc = "asked" /\ q.op = op /\ q.vault = f.vault /\ q.place = f.place /\ q.tok = t
      /\ q.arg = f.arg /\ q.how = "none"
  OBVIOUS
<1> HIDE DEF q
<1>8. ReqOK(q, tokens')
  BY <1>2, <1>3, <1>4, <1>7, MineGrows DEF ReqOK
<1>9. Sound
  BY <1>4, <1>5, <1>6, <1>7, <1>8, ReqStep
<1> QED
  BY <1>4, <1>9, GoodIs

-----------------------------------------------------------------------------
(* The master password.                                                    *)

\* An answer, or a further stage, with the stores left alone.
LEMMA PlainAnswer ==
    ASSUME AccessInv, NEW r \in Reqs, NEW how \in Hows \ {"session"}, Answer(r, how),
           UNCHANGED <<load, now, limits, sessions, clients, passkeys, conf>>
    PROVE  Good
BY StateSame, AnswerStep, GoodIs

LEMMA PlainGoes ==
    ASSUME AccessInv, NEW r \in Reqs, NEW pc \in Pcs \ {"idle", "loaded", "answered"}, Goes(r, pc),
           req[r].pc \notin {"idle", "answered"}, pc # "loading",
           pc \in {"minting", "wrapping", "counting", "unwrapping", "signing"} => req[r].vault \in Vaults,
           pc = "deriving" => MayTry,
           UNCHANGED <<load, now, limits, sessions, clients, passkeys, conf>>
    PROVE  Good
BY StateSame, GoesStep, GoodIs

LEMMA CheckPasswordStep ==
    ASSUME AccessInv, NEW r \in Reqs, CheckPassword(r)
    PROVE  Good
<1>1. UNCHANGED <<load, now, limits, sessions, clients, passkeys, conf>> /\ req[r].pc = "asked"
  BY DEF CheckPassword, Is
<1>2. CASE MayTry
  <2>1. Goes(r, "deriving") /\ "deriving" \in Pcs \ {"idle", "loaded", "answered"}
    BY <1>2 DEF CheckPassword, Pcs
  <2> QED
    BY <1>1, <1>2, <2>1, PlainGoes
<1>3. CASE ~MayTry
  <2>1. Answer(r, "limited") /\ "limited" \in Hows \ {"session"}
    BY <1>3 DEF CheckPassword, Hows
  <2> QED
    BY <1>1, <2>1, PlainAnswer
<1> QED
  BY <1>2, <1>3

\* The stores after a step that touches the back-off only.
LEMMA BackStep ==
    ASSUME AccessInv, BackOK', UNCHANGED <<load, now, sessions, clients, passkeys, conf>>
    PROVE  StateOK' /\ Grows
<1>1. StateOK
  BY DEF AccessInv
<1>2. SessOK' /\ Grows
  BY <1>1, SessSame
<1>3. ClientsOK' /\ KeysOK'
  BY <1>1, <1>2, ClientsSame, KeysSame
<1> QED
  BY <1>1, <1>2, <1>3 DEF StateOK, ConfOK

LEMMA WrongStep ==
    ASSUME AccessInv, NEW r \in Reqs, Wrong(r)
    PROVE  Good
<1>1. UNCHANGED <<load, now, sessions, clients, passkeys, conf>> /\ StateOK
  BY DEF Wrong, AccessInv
<1>2. CASE RecordFailure /\ Answer(r, "wrong")
  <2>1. StateOK' /\ Grows
    BY <1>1, <1>2, FailureStep, BackStep
  <2>2. "wrong" \in Hows /\ "wrong" # "session"
    BY DEF Hows
  <2> QED
    BY <1>2, <2>1, <2>2, AnswerStep, GoodIs
<1>3. CASE Answer(r, "notinit") /\ UNCHANGED limits
  <2>1. "notinit" \in Hows \ {"session"}
    BY DEF Hows
  <2> QED
    BY <1>1, <1>3, <2>1, PlainAnswer
<1> QED
  BY <1>2, <1>3 DEF Wrong

LEMMA UnlockedStep ==
    ASSUME AccessInv, NEW r \in Reqs, Unlocked(r)
    PROVE  Good
<1>1. /\ UNCHANGED <<load, now, sessions, clients, passkeys, conf>> /\ StateOK
      /\ RecordSuccess /\ Goes(r, "minting") /\ req[r].vault \in Vaults /\ req[r].pc = "deriving"
  BY DEF Unlocked, Right, Is, AccessInv
<1>2. StateOK' /\ Grows
  BY <1>1, SuccessStep, BackStep
<1>3. "minting" \in Pcs \ {"idle", "loaded", "answered"}
  BY DEF Pcs
<1> QED
  BY <1>1, <1>2, <1>3, GoesStep, GoodIs

LEMMA AcceptedStep ==
    ASSUME AccessInv, NEW r \in Reqs, PasswordChanged(r) \/ PasswordAccepted(r)
    PROVE  Good
<1>1. /\ UNCHANGED <<load, now, sessions, clients, passkeys, conf>> /\ StateOK
      /\ RecordSuccess /\ Answer(r, "password")
  BY DEF PasswordChanged, PasswordAccepted, AccessInv
<1>2. StateOK' /\ Grows
  BY <1>1, SuccessStep, BackStep
<1>3. "password" \in Hows /\ "password" # "session"
  BY DEF Hows
<1> QED
  BY <1>1, <1>2, <1>3, AnswerStep, GoodIs

\* The stores after a step that touches the back-off and the passkeys only.
LEMMA KeysStep ==
    ASSUME AccessInv, BackOK', KeysOK', UNCHANGED <<load, now, sessions, clients, conf>>
    PROVE  StateOK' /\ Grows
<1>1. StateOK
  BY DEF AccessInv
<1>2. SessOK' /\ Grows
  BY <1>1, SessSame
<1>3. ClientsOK'
  BY <1>1, <1>2, ClientsSame
<1> QED
  BY <1>1, <1>2, <1>3 DEF StateOK, ConfOK

\* The cascade: the record goes with its passkey.
LEMMA PasskeyRemovedStep ==
    ASSUME AccessInv, NEW r \in Reqs, PasskeyRemoved(r)
    PROVE  Good
<1>1. /\ UNCHANGED <<load, now, sessions, clients, conf>> /\ StateOK
      /\ RecordSuccess /\ Answer(r, "password")
      /\ creds' = Without(creds, req[r].vault, req[r].arg)
      /\ wraps' = Without(wraps, req[r].vault, req[r].arg)
  BY DEF PasskeyRemoved, AccessInv
<1>2. KeysOK'
  BY <1>1 DEF KeysOK, StateOK, Without
<1>3. StateOK' /\ Grows
  BY <1>1, <1>2, SuccessStep, KeysStep
<1>4. "password" \in Hows /\ "password" # "session"
  BY DEF Hows
<1> QED
  BY <1>1, <1>3, <1>4, AnswerStep, GoodIs

\* A vault made again starts with neither passkeys nor records.
LEMMA VaultRemadeStep ==
    ASSUME AccessInv, NEW r \in Reqs, VaultRemade(r)
    PROVE  Good
<1>0. PICK v : v = req[r].vault
  OBVIOUS
<1>1. /\ UNCHANGED <<load, now, sessions, clients, conf>> /\ StateOK
      /\ RecordSuccess /\ Answer(r, "password")
      /\ creds' = [creds EXCEPT ![v] = {}] /\ wraps' = [wraps EXCEPT ![v] = {}]
  BY <1>0 DEF VaultRemade, AccessInv
<1>2. KeysOK'
  BY <1>1 DEF KeysOK, StateOK
<1>3. StateOK' /\ Grows
  BY <1>1, <1>2, SuccessStep, KeysStep
<1>4. "password" \in Hows /\ "password" # "session"
  BY DEF Hows
<1> QED
  BY <1>1, <1>3, <1>4, AnswerStep, GoodIs

\* The stores after a step that touches the sessions only.
LEMMA SessStep ==
    ASSUME AccessInv, SessOK', Grows, UNCHANGED <<load, now, limits, clients, passkeys, conf>>
    PROVE  StateOK'
<1>1. StateOK
  BY DEF AccessInv
<1>2. ClientsOK' /\ BackOK' /\ KeysOK'
  BY <1>1, ClientsSame, BackSame, KeysSame
<1> QED
  BY <1>1, <1>2 DEF StateOK, ConfOK

LEMMA MintingStep ==
    ASSUME AccessInv, NEW r \in Reqs, Mint(r)
    PROVE  Good
<1>1. /\ UNCHANGED <<load, now, limits, clients, passkeys, conf>> /\ StateOK
      /\ MintSession(req[r].vault, req[r].place) /\ AnswerToken(r, "password", FreshToken)
      /\ req[r].pc = "minting"
  BY DEF Mint, Is, AccessInv
<1>2. req[r].vault \in Vaults /\ req[r].place \in Places
  BY <1>1, RequestType DEF ReqOK, ReqSet
<1>3. SessOK' /\ Grows /\ Mine(tokens', FreshToken, req[r].vault, req[r].place)
  BY <1>1, <1>2, MintStep
<1>4. FreshToken \in Tokens /\ "password" \in Hows \ {"session"}
  BY <1>3 DEF Mine, Hows
<1>5. StateOK'
  BY <1>1, <1>3, SessStep
<1>6. Sound
  BY <1>1, <1>3, <1>4, AnswerTokenStep
<1> QED
  BY <1>5, <1>6, GoodIs

-----------------------------------------------------------------------------
(* authorizeAction, and the end of what was granted.                       *)

LEMMA ShortAnswers ==
    ASSUME AccessInv, NEW r \in Reqs, ActFree(r) \/ Nowhere(r)
    PROVE  Good
<1>1. "policy" \in Hows \ {"session"} /\ "notinit" \in Hows \ {"session"}
  BY DEF Hows
<1>2. /\ Answer(r, "policy") \/ Answer(r, "notinit")
      /\ UNCHANGED <<load, now, limits, sessions, clients, passkeys, conf>>
  BY DEF ActFree, Nowhere
<1> QED
  BY <1>1, <1>2, PlainAnswer

\* The one step that answers by a session.
LEMMA ActOnSessionStep ==
    ASSUME AccessInv, NEW r \in Reqs, ActOnSession(r)
    PROVE  Good
<1> DEFINE t == req[r].tok
<1>1. /\ UNCHANGED <<load, now, limits, sess, revoked, clients, passkeys, conf>> /\ StateOK
      /\ tokens' = [tokens EXCEPT ![t].used = now] /\ Answer(r, "session")
      /\ Validate(t, req[r].vault, req[r].place)
  BY DEF ActOnSession, BySession, AccessInv
<1>2. t \in Tokens /\ tokens[t].vault \in Vaults /\ now \in Nat /\ tokens \in [Tokens -> SessionSet]
  BY <1>1 DEF Validate, Bound, StateOK, SessOK
<1>3. /\ tokens' \in [Tokens -> SessionSet]
      /\ \A s \in Tokens \ {t} : tokens'[s] = tokens[s]
      /\ tokens'[t].vault = tokens[t].vault /\ tokens'[t].place = tokens[t].place
  BY <1>1, <1>2 DEF SessionSet
<1>4. Grows
  BY <1>3 DEF Grows
<1>5. PICK n \in 0..MaxTokens : Numbered(n)
  BY <1>1 DEF StateOK, SessOK
<1>6. NoSession.vault \notin Vaults
  BY ConstantsType DEF NoSession
<1>7. Numbered(n)'
  BY <1>2, <1>3, <1>5, <1>6 DEF Numbered
<1>8. \A s \in sess' \cup revoked' : s \in Tokens /\ tokens'[s].vault \in Vaults
  BY <1>1, <1>2, <1>3 DEF StateOK, SessOK
<1>9. SessOK'
  BY <1>1, <1>3, <1>7, <1>8 DEF StateOK, SessOK
<1>10. StateOK'
  BY <1>1, <1>4, <1>9, SessStep
<1>11. "session" \in Hows
  BY DEF Hows
<1>12. Sound
  BY <1>1, <1>4, <1>11, AnswerStep
<1> QED
  BY <1>10, <1>12, GoodIs

\* A session found lapsed is deleted on the way to fresh credentials.
LEMMA FreshState ==
    ASSUME AccessInv, NEW r \in Reqs, NeedsFresh(r)
    PROVE  StateOK' /\ Grows
<1>1. /\ UNCHANGED <<load, now, limits, tokens, revoked, clients, passkeys, conf>> /\ StateOK
      /\ sess' \subseteq sess
  BY DEF NeedsFresh, Validated, AccessInv
<1>2. SessOK' /\ Grows
  BY <1>1, FewerStep
<1> QED
  BY <1>1, <1>2, SessStep

LEMMA ActOnPresenceStep ==
    ASSUME AccessInv, NEW r \in Reqs, ActOnPresence(r)
    PROVE  Good
<1>1. StateOK' /\ Grows
  BY FreshState DEF ActOnPresence
<1>2. PICK how \in {"presence", "authreq"} : Answer(r, how)
  BY DEF ActOnPresence
<1>3. how \in Hows /\ how # "session"
  BY DEF Hows
<1> QED
  BY <1>1, <1>2, <1>3, AnswerStep, GoodIs

LEMMA ActOnPasswordStep ==
    ASSUME AccessInv, NEW r \in Reqs, ActOnPassword(r)
    PROVE  Good
<1>1. StateOK' /\ Grows /\ req[r].pc = "asked"
  BY FreshState DEF ActOnPassword, NeedsFresh, Is
<1>2. \/ Answer(r, "authreq") \/ Answer(r, "limited")
      \/ Goes(r, "deriving") /\ MayTry
  BY DEF ActOnPassword
<1>3. "authreq" \in Hows /\ "limited" \in Hows /\ "deriving" \in Pcs \ {"idle", "loaded", "answered"}
  BY DEF Hows, Pcs
<1>4. CASE Answer(r, "authreq") \/ Answer(r, "limited")
  BY <1>1, <1>3, <1>4, AnswerStep, GoodIs
<1>5. CASE Goes(r, "deriving") /\ MayTry
  BY <1>1, <1>3, <1>5, GoesStep, GoodIs
<1> QED
  BY <1>2, <1>4, <1>5

LEMMA EndingStep ==
    ASSUME AccessInv, NEW r \in Reqs, Lock(r) \/ SessionEnd(r)
    PROVE  Good
<1>1. /\ UNCHANGED <<load, now, limits, tokens, clients, passkeys, conf>> /\ StateOK
      /\ Answer(r, "ok")
      /\ sess' \subseteq sess /\ revoked' \subseteq revoked \cup (sess \ sess')
  <2>1. CASE Lock(r)
    <3>1. PICK vs : sess' = sess \ Of(vs) /\ revoked' = revoked \cup Of(vs)
      BY <2>1 DEF Lock, LockVaults
    <3>2. Of(vs) \subseteq sess
      BY DEF Of
    <3> QED
      BY <2>1, <3>1, <3>2 DEF Lock, LockVaults, AccessInv
  <2>2. CASE SessionEnd(r)
    BY <2>2 DEF SessionEnd, AccessInv
  <2> QED
    BY <2>1, <2>2
<1>2. SessOK' /\ Grows
  BY <1>1, FewerStep
<1>3. StateOK'
  BY <1>1, <1>2, SessStep
<1>4. "ok" \in Hows
  BY DEF Hows
<1> QED
  BY <1>1, <1>2, <1>3, <1>4, AnswerStep, GoodIs

\* A step that leaves the requests alone.
LEMMA ReqsSame ==
    ASSUME AccessInv, req' = req, Grows
    PROVE  Sound
<1>1. ASSUME NEW r \in Reqs PROVE ReqOK(req'[r], tokens')
  BY RequestType, ReqOKGrows
<1> QED
  BY <1>1 DEF Sound, Tried, Earned, ReqsOK, AccessInv

LEMMA JanitorStep ==
    ASSUME AccessInv, Janitor
    PROVE  Good
<1>1. /\ UNCHANGED <<load, now, limits, req, tokens, clients, passkeys, conf>> /\ StateOK
      /\ sess' \subseteq sess /\ revoked' \subseteq revoked \cup (sess \ sess')
  <2>1. PICK vs : sess' = {t \in sess \ Of(vs) : ~Lapsed(t)} /\ revoked' = revoked \cup Of(vs)
    BY DEF Janitor
  <2>2. Of(vs) \subseteq sess
    BY DEF Of
  <2> QED
    BY <2>1, <2>2 DEF Janitor, AccessInv
<1>2. SessOK' /\ Grows
  BY <1>1, FewerStep
<1>3. StateOK'
  BY <1>1, <1>2, SessStep
<1> QED
  BY <1>1, <1>2, <1>3, ReqsSame, GoodIs

-----------------------------------------------------------------------------
(* Passkeys and codes.                                                     *)

LEMMA IssuesStep ==
    ASSUME AccessInv,
           UNCHANGED <<load, now, limits, req, key, sessions, clients, passkeys, conf>>
    PROVE  Good
BY StateSame, ReqsSame, GoodIs

LEMMA EnrolFinishStep ==
    ASSUME AccessInv, NEW r \in Reqs, EnrolFinish(r)
    PROVE  Good
<1>1. /\ UNCHANGED <<load, now, limits, sessions, clients, conf>> /\ StateOK
      /\ req[r].pc = "asked" /\ req[r].vault \in Vaults
  BY DEF EnrolFinish, Is, AccessInv
<1>2. /\ \/ \E how \in {"locked", "ok", "bad"} : Answer(r, how)
         \/ Goes(r, "wrapping")
      /\ wraps' = wraps /\ creds' \in {creds, AddPasskey(req[r].vault, req[r].arg)}
  BY DEF EnrolFinish, passkeys
<1>3. req[r].arg \in Creds
  BY RequestType DEF EnrolFinish, Is, ReqOK
<1>4. KeysOK'
  BY <1>1, <1>2, <1>3 DEF StateOK, KeysOK, AddPasskey
<1>5. StateOK' /\ Grows
  BY <1>1, <1>4, BackSame, KeysStep
<1>6. CASE \E how \in {"locked", "ok", "bad"} : Answer(r, how)
  <2>1. {"locked", "ok", "bad"} \subseteq Hows \ {"session"}
    BY DEF Hows
  <2> QED
    BY <1>5, <1>6, <2>1, AnswerStep, GoodIs
<1>7. CASE Goes(r, "wrapping")
  <2>1. "wrapping" \in Pcs \ {"idle", "loaded", "answered"}
    BY DEF Pcs
  <2> QED
    BY <1>1, <1>5, <1>7, <2>1, GoesStep, GoodIs
<1> QED
  BY <1>2, <1>6, <1>7

\* The record is written for a passkey that is there at that moment.
LEMMA EnrolWrapStep ==
    ASSUME AccessInv, NEW r \in Reqs, EnrolWrap(r)
    PROVE  Good
<1> DEFINE v == req[r].vault
           c == req[r].arg
<1>1. /\ UNCHANGED <<load, now, limits, sessions, clients, conf>> /\ StateOK /\ creds' = creds
  BY DEF EnrolWrap, AccessInv
<1>2. PICK how \in {"ok", "bad"} : Answer(r, how)
  BY DEF EnrolWrap
<1>3. wraps' = wraps \/ (c \in creds[v] /\ wraps' = [wraps EXCEPT ![v] = @ \cup {c}])
  BY DEF EnrolWrap
<1>4. v \in Vaults
  BY RequestType DEF EnrolWrap, Is, ReqOK
<1> HIDE DEF v, c
<1>5. KeysOK'
  BY <1>1, <1>3, <1>4 DEF StateOK, KeysOK
<1>6. StateOK' /\ Grows
  BY <1>1, <1>5, BackSame, KeysStep
<1>7. how \in Hows /\ how # "session"
  BY DEF Hows
<1> QED
  BY <1>2, <1>6, <1>7, AnswerStep, GoodIs

LEMMA SigninVerifyStep ==
    ASSUME AccessInv, NEW r \in Reqs, SigninVerify(r)
    PROVE  Good
<1>1. /\ UNCHANGED <<load, now, limits, sessions, clients, passkeys, conf>>
      /\ req[r].pc = "asked" /\ req[r].vault \in Vaults
      /\ Goes(r, "counting") \/ Answer(r, "bad")
  BY DEF SigninVerify, Is
<1>2. "bad" \in Hows \ {"session"} /\ "counting" \in Pcs \ {"idle", "loaded", "answered"}
  BY DEF Hows, Pcs
<1> QED
  BY <1>1, <1>2, PlainAnswer, PlainGoes

LEMMA SigninCountStep ==
    ASSUME AccessInv, NEW r \in Reqs, SigninCount(r)
    PROVE  Good
<1>1. /\ UNCHANGED <<load, now, limits, sessions, clients, passkeys, conf>>
      /\ req[r].pc = "counting"
      /\ Answer(r, "bad") \/ Goes(r, "unwrapping") \/ Goes(r, "signing")
  BY DEF SigninCount, Is
<1>2. req[r].vault \in Vaults
  BY <1>1, RequestType DEF ReqOK
<1>3. /\ "bad" \in Hows \ {"session"} /\ "unwrapping" \in Pcs \ {"idle", "loaded", "answered"}
      /\ "signing" \in Pcs \ {"idle", "loaded", "answered"}
  BY DEF Hows, Pcs
<1>4. CASE Answer(r, "bad")
  BY <1>1, <1>3, <1>4, PlainAnswer
<1>5. CASE Goes(r, "unwrapping") \/ Goes(r, "signing")
  BY <1>1, <1>2, <1>3, <1>5, PlainGoes
<1> QED
  BY <1>1, <1>4, <1>5

LEMMA SigninUnlockStep ==
    ASSUME AccessInv, NEW r \in Reqs, SigninUnlock(r)
    PROVE  Good
<1> DEFINE q == [req[r] EXCEPT !.pc = "signing", !.word = "unlocked"]
<1>1. /\ UNCHANGED <<load, now, limits, sessions, clients, passkeys, conf>>
      /\ req[r].pc = "unwrapping" /\ req[r].op = "signin"
      /\ req' = [req EXCEPT ![r] = q]
  BY DEF SigninUnlock, Is, AccessInv, ReqsOK
<1>2. StateOK' /\ Grows
  BY <1>1, StateSame
<1>3. req[r] \in ReqSet /\ ReqOK(req[r], tokens')
  BY <1>2, RequestType, ReqOKGrows
<1>4. /\ q \in ReqSet /\ q.pc = "signing" /\ q.op = req[r].op /\ q.tok = req[r].tok
      /\ q.vault = req[r].vault /\ q.place = req[r].place /\ q.how = req[r].how
  BY <1>3 DEF ReqSet, Pcs, Words
<1> HIDE DEF q
<1>5. ReqOK(q, tokens')
  BY <1>1, <1>3, <1>4 DEF ReqOK
<1> QED
  BY <1>1, <1>2, <1>4, <1>5, ReqStep, GoodIs

LEMMA SigninGrantStep ==
    ASSUME AccessInv, NEW r \in Reqs, SigninGrant(r)
    PROVE  Good
<1>1. /\ UNCHANGED <<load, now, limits, clients, passkeys, conf>> /\ StateOK
      /\ req[r].pc = "signing" /\ req[r].op = "signin"
      /\ \/ MintSession(req[r].vault, Portal) /\ AnswerToken(r, "ok", FreshToken)
         \/ UNCHANGED sessions /\ AnswerToken(r, "ok", NoTok)
  BY DEF SigninGrant, Is, AccessInv
<1>2. req[r].vault \in Vaults /\ req[r].place = Portal /\ Portal \in Places
  BY <1>1, RequestType DEF ReqOK, Places
<1>3. "ok" \in Hows \ {"session"}
  BY DEF Hows
<1>4. CASE MintSession(req[r].vault, Portal) /\ AnswerToken(r, "ok", FreshToken)
  <2>1. SessOK' /\ Grows /\ Mine(tokens', FreshToken, req[r].vault, Portal)
    BY <1>1, <1>2, <1>4, MintStep
  <2>2. FreshToken \in Tokens
    BY <2>1 DEF Mine
  <2>3. StateOK'
    BY <1>1, <2>1, SessStep
  <2>4. Sound
    BY <1>2, <1>3, <1>4, <2>1, <2>2, AnswerTokenStep
  <2> QED
    BY <2>3, <2>4, GoodIs
<1>5. CASE UNCHANGED sessions /\ AnswerToken(r, "ok", NoTok)
  BY <1>1, <1>3, <1>5, StateSame, AnswerTokenStep, GoodIs
<1> QED
  BY <1>1, <1>4, <1>5

-----------------------------------------------------------------------------
(* Codes and settings.                                                     *)

LEMMA BootstrapStep ==
    ASSUME AccessInv, NEW r \in Reqs, Bootstrap(r)
    PROVE  Good
<1>1. /\ UNCHANGED <<load, now, limits, sessions, clients, passkeys, conf>>
      /\ Answer(r, "ok") \/ Answer(r, "authreq")
  BY DEF Bootstrap
<1>2. "ok" \in Hows \ {"session"} /\ "authreq" \in Hows \ {"session"}
  BY DEF Hows
<1> QED
  BY <1>1, <1>2, PlainAnswer

LEMMA ConfigAuthorizeStep ==
    ASSUME AccessInv, NEW r \in Reqs, ConfigAuthorize(r)
    PROVE  Good
<1>1. /\ UNCHANGED <<load, now, limits, sessions, clients, passkeys, conf>>
      /\ req[r].pc = "asked"
      /\ Answer(r, "authreq") \/ Answer(r, "bad") \/ Goes(r, "writing")
  BY DEF ConfigAuthorize, Is
<1>2. /\ "authreq" \in Hows \ {"session"} /\ "bad" \in Hows \ {"session"}
      /\ "writing" \in Pcs \ {"idle", "loaded", "answered"}
  BY DEF Hows, Pcs
<1> QED
  BY <1>1, <1>2, PlainAnswer, PlainGoes

\* The stores after a step that touches the settings only.
LEMMA ConfStep ==
    ASSUME AccessInv, ConfOK', UNCHANGED <<load, now, limits, sessions, clients, passkeys>>
    PROVE  StateOK' /\ Grows
<1>1. StateOK
  BY DEF AccessInv
<1>2. SessOK' /\ Grows
  BY <1>1, SessSame
<1>3. ClientsOK' /\ BackOK' /\ KeysOK'
  BY <1>1, <1>2, ClientsSame, BackSame, KeysSame
<1> QED
  BY <1>1, <1>2, <1>3 DEF StateOK

LEMMA ConfigWriteStep ==
    ASSUME AccessInv, NEW r \in Reqs, ConfigWrite(r)
    PROVE  Good
<1>1. /\ UNCHANGED <<load, now, limits, sessions, clients, passkeys>>
      /\ req[r].pc = "writing" /\ Goes(r, "renaming")
      /\ conf' = [conf EXCEPT !.tmp = req[r].arg]
  BY DEF ConfigWrite, Is
<1>2. req[r].arg \in Texts
  BY RequestType DEF ConfigWrite, Is, ReqOK
<1>3. ConfOK'
  BY <1>1, <1>2 DEF AccessInv, StateOK, ConfOK
<1>4. StateOK' /\ Grows
  BY <1>1, <1>3, ConfStep
<1>5. "renaming" \in Pcs \ {"idle", "loaded", "answered"}
  BY DEF Pcs
<1> QED
  BY <1>1, <1>4, <1>5, GoesStep, GoodIs

LEMMA ConfigRenameStep ==
    ASSUME AccessInv, NEW r \in Reqs, ConfigRename(r)
    PROVE  Good
<1>1. /\ UNCHANGED <<load, now, limits, sessions, clients, passkeys>>
      /\ req[r].pc = "renaming" /\ req[r].op = "config"
  BY DEF ConfigRename, Is
<1>2. "loading" \in Pcs \ {"idle", "loaded", "answered"} /\ "bad" \in Hows \ {"session"}
  BY DEF Pcs, Hows
<1>3. CASE conf.tmp = NoText
  <2>1. Answer(r, "bad") /\ conf' = conf
    BY <1>3 DEF ConfigRename
  <2> QED
    BY <1>1, <1>2, <2>1, PlainAnswer
<1>4. CASE conf.tmp # NoText
  <2>1. Goes(r, "loading") /\ conf' = [conf EXCEPT !.file = conf.tmp, !.tmp = NoText]
    BY <1>4 DEF ConfigRename
  <2>2. ConfOK'
    BY <1>4, <2>1 DEF AccessInv, StateOK, ConfOK
  <2>3. StateOK' /\ Grows
    BY <1>1, <2>2, ConfStep
  <2> QED
    BY <1>1, <1>2, <2>1, <2>3, GoesStep, GoodIs
<1> QED
  BY <1>3, <1>4

LEMMA ReloadReadStep ==
    ASSUME AccessInv, NEW r \in Reqs, ReloadRead(r)
    PROVE  Good
<1> DEFINE q == [req[r] EXCEPT !.pc = "loaded", !.arg = conf.file]
<1>1. /\ UNCHANGED <<load, now, limits, sessions, clients, passkeys, conf>>
      /\ req[r].pc \in {"loading", "asked"} /\ (req[r].pc = "asked" => req[r].op = "reload")
      /\ req' = [req EXCEPT ![r] = q]
  BY DEF ReloadRead, Is, AccessInv, ReqsOK
<1>2. StateOK' /\ Grows /\ conf.file \in Texts
  BY <1>1, StateSame DEF AccessInv, StateOK, ConfOK
<1>3. req[r] \in ReqSet /\ ReqOK(req[r], tokens')
  BY <1>2, RequestType, ReqOKGrows
<1>4. /\ q \in ReqSet /\ q.pc = "loaded" /\ q.op = req[r].op /\ q.tok = req[r].tok
      /\ q.vault = req[r].vault /\ q.place = req[r].place /\ q.how = req[r].how
      /\ q.arg = conf.file
  BY <1>2, <1>3 DEF ReqSet, Pcs
<1> HIDE DEF q
<1>5. ReqOK(q, tokens')
  BY <1>1, <1>2, <1>3, <1>4 DEF ReqOK
<1> QED
  BY <1>1, <1>2, <1>4, <1>5, ReqStep, GoodIs

\* Applying the settings: a portal on another port starts without tokens.
LEMMA ReloadApplyStep ==
    ASSUME AccessInv, NEW r \in Reqs, ReloadApply(r)
    PROVE  Good
<1>1. PICK ui \in PortsAfter(req[r].arg) :
         /\ conf' = [conf EXCEPT !.live = req[r].arg, !.ui = ui]
         /\ held' = IF ui = conf.ui THEN held ELSE [v \in Vaults |-> NoTok]
         /\ req' = [q \in Reqs |->
              Rebound(IF q = r THEN Answered(req[q], "ok", NoTok) ELSE req[q], ui)]
  BY DEF ReloadApply
<1>2. /\ UNCHANGED <<load, now, limits, sessions, files, passkeys>> /\ StateOK /\ req[r].pc = "loaded"
  BY DEF ReloadApply, AccessInv
<1>3. req[r].arg \in Texts /\ ui \in Nat
  BY <1>2, RequestType, ConstantsType DEF ReqOK, PortsAfter
<1>4. SessOK' /\ Grows /\ tokens' = tokens
  BY <1>2, SessSame DEF sessions
<1>5. ConfOK'
  BY <1>1, <1>2, <1>3 DEF StateOK, ConfOK
<1>6. ClientsOK'
  BY <1>1, <1>2, <1>4 DEF StateOK, ClientsOK
<1>7. StateOK'
  BY <1>2, <1>4, <1>5, <1>6, BackSame, KeysSame DEF StateOK
<1>8. ASSUME NEW s \in Reqs
      PROVE  /\ req'[s] \in ReqSet /\ ReqOK(req'[s], tokens')
             /\ req'[s].pc # "deriving" \/ req[s].pc = "deriving"
             /\ req'[s].how # "session" \/ req[s].how = "session"
  <2> DEFINE q == IF s = r THEN Answered(req[s], "ok", NoTok) ELSE req[s]
  <2>1. req[s] \in ReqSet /\ ReqOK(req[s], tokens') /\ "ok" \in Hows /\ NoTok \in Tokens \cup {NoTok}
    BY <1>4, RequestType, ReqOKGrows DEF Hows
  <2>2. /\ q \in ReqSet /\ ReqOK(q, tokens')
        /\ q.pc # "deriving" \/ req[s].pc = "deriving"
        /\ q.how # "session" \/ req[s].how = "session"
    BY <2>1, AnsweredOK
  <2>3. req'[s] = Rebound(q, ui)
    BY <1>1
  <2> HIDE DEF q
  <2>4. req'[s] \in {q, [q EXCEPT !.lost = TRUE]}
    BY <2>3 DEF Rebound
  <2>5. /\ [q EXCEPT !.lost = TRUE] \in ReqSet /\ [q EXCEPT !.lost = TRUE].pc = q.pc
        /\ [q EXCEPT !.lost = TRUE].how = q.how /\ [q EXCEPT !.lost = TRUE].tok = q.tok
        /\ [q EXCEPT !.lost = TRUE].vault = q.vault /\ [q EXCEPT !.lost = TRUE].op = q.op
        /\ [q EXCEPT !.lost = TRUE].place = q.place /\ [q EXCEPT !.lost = TRUE].arg = q.arg
    BY <2>2 DEF ReqSet
  <2>6. ReqOK([q EXCEPT !.lost = TRUE], tokens')
    BY <2>2, <2>5 DEF ReqOK
  <2> QED
    BY <2>2, <2>4, <2>5, <2>6
<1>9. req' \in [Reqs -> ReqSet]
  BY <1>1, <1>8
<1>10. Sound
  BY <1>8, <1>9 DEF Sound, ReqsOK, Tried, Earned
<1> QED
  BY <1>7, <1>10, GoodIs

-----------------------------------------------------------------------------
(* The answer reaches the client.                                          *)

LEMMA IdleType ==
    /\ Idle \in ReqSet /\ Idle.pc = "idle" /\ Idle.how = "none" /\ \A T : ReqOK(Idle, T)
<1>1. Idle \in ReqSet
  BY DEF Idle, ReqSet, Pcs, Ops, Places, Words, Hows
<1> QED
  BY <1>1 DEF Idle, ReqOK

LEMMA DoneStep ==
    ASSUME AccessInv, NEW r \in Reqs, Done(r), ClientsOK'
    PROVE  Good
<1>1. /\ UNCHANGED <<load, now, limits, sessions, passkeys, conf>> /\ StateOK
      /\ req' = [req EXCEPT ![r] = Idle]
  BY DEF Done, AccessInv
<1>2. SessOK' /\ Grows
  BY <1>1, SessSame
<1>3. StateOK'
  BY <1>1, <1>2, BackSame, KeysSame DEF StateOK, ConfOK
<1>4. Sound
  BY <1>1, <1>2, IdleType, ReqStep
<1> QED
  BY <1>3, <1>4, GoodIs

\* What a request brings back is the client's to keep.
LEMMA Brought ==
    ASSUME AccessInv, NEW r \in Reqs
    PROVE  /\ req[r].tok \in Tokens \cup {NoTok}
           /\ req[r].tok # NoTok => Mine(tokens, req[r].tok, req[r].vault, req[r].place)
BY RequestType DEF ReqSet, ReqOK

LEMMA TerminalUnlockedStep ==
    ASSUME AccessInv, NEW r \in Reqs, TerminalUnlocked(r)
    PROVE  Good
<1> DEFINE p == req[r].place
           v == req[r].vault
           t == req[r].tok
<1>1. held' = held /\ Done(r) /\ tokens' = tokens /\ SaveToken(p, v, t) /\ StateOK
  BY DEF TerminalUnlocked, Done, sessions, AccessInv
<1>2. t \in Tokens \cup {NoTok} /\ (t # NoTok => Mine(tokens, t, v, p))
  BY Brought
<1> HIDE DEF p, v, t
<1>3. CASE p \notin Terminals \/ v \notin Vaults
  <2>1. files' = files
    BY <1>1, <1>3 DEF SaveToken, StateOK, ClientsOK
  <2>2. ClientsOK'
    BY <1>1, <2>1 DEF StateOK, ClientsOK
  <2> QED
    BY <1>1, <2>2, DoneStep
<1>4. CASE p \in Terminals /\ v \in Vaults
  <2>1. PICK u \in {t, NoTok, files[p][v]} : files' = [files EXCEPT ![p][v] = u]
    BY <1>1, <1>4 DEF SaveToken
  <2>2. u \in Tokens \cup {NoTok} /\ (u # NoTok => Mine(tokens, u, v, p))
    BY <1>1, <1>2, <1>4 DEF StateOK, ClientsOK
  <2>3. ClientsOK'
    BY <1>1, <1>4, <2>1, <2>2 DEF StateOK, ClientsOK
  <2> QED
    BY <1>1, <2>3, DoneStep
<1> QED
  BY <1>3, <1>4

LEMMA TerminalLockedStep ==
    ASSUME AccessInv, NEW r \in Reqs, TerminalLocked(r)
    PROVE  Good
<1>1. held' = held /\ Done(r) /\ tokens' = tokens /\ StateOK
  BY DEF TerminalLocked, Done, sessions, AccessInv
<1>2. \A p \in Terminals : files'[p] \in [Vaults -> Tokens \cup {NoTok}]
  BY <1>1 DEF TerminalLocked, Drops, StateOK, ClientsOK
<1>3. \A p \in Terminals, v \in Vaults : files'[p][v] \in {files[p][v], NoTok}
  BY <1>1 DEF TerminalLocked, Drops
<1>4. files' \in [Terminals -> [Vaults -> Tokens \cup {NoTok}]]
  BY <1>2 DEF TerminalLocked
<1>5. ClientsOK'
  BY <1>1, <1>3, <1>4 DEF StateOK, ClientsOK
<1> QED
  BY <1>1, <1>5, DoneStep

LEMMA PortalKeepsStep ==
    ASSUME AccessInv, NEW r \in Reqs, PortalUnlocked(r) \/ PortalSignedIn(r)
    PROVE  Good
<1> DEFINE v == req[r].vault
           t == req[r].tok
<1>1. files' = files /\ Done(r) /\ tokens' = tokens /\ StateOK
  BY DEF PortalUnlocked, PortalSignedIn, Done, sessions, AccessInv
<1>2. req[r].place = Portal
  BY RequestType DEF PortalUnlocked, PortalSignedIn, Got, ReqOK
<1>3. t \in Tokens \cup {NoTok} /\ (t # NoTok => Mine(tokens, t, v, Portal))
  BY <1>2, Brought
<1>4. held' \in {held, [held EXCEPT ![v] = t]}
  BY DEF PortalUnlocked, PortalSignedIn
<1> HIDE DEF v, t
<1>5. ClientsOK'
  BY <1>1, <1>3, <1>4 DEF StateOK, ClientsOK
<1> QED
  BY <1>1, <1>5, DoneStep

LEMMA PortalDropsStep ==
    ASSUME AccessInv, NEW r \in Reqs, PortalLocked(r) \/ PortalRefused(r) \/ Shown(r)
    PROVE  Good
<1>1. files' = files /\ Done(r) /\ tokens' = tokens /\ StateOK
  BY DEF PortalLocked, PortalRefused, Shown, Done, sessions, clients, AccessInv
<1>2. held \in [Vaults -> Tokens \cup {NoTok}]
  BY <1>1 DEF StateOK, ClientsOK
<1>3. held' \in [Vaults -> Tokens \cup {NoTok}] /\ \A v \in Vaults : held'[v] \in {held[v], NoTok}
  <2>1. CASE PortalLocked(r)
    BY <1>2, <2>1 DEF PortalLocked, Drops
  <2>2. CASE PortalRefused(r)
    BY <1>2, <2>2 DEF PortalRefused
  <2>3. CASE Shown(r)
    BY <1>2, <2>3 DEF Shown, clients
  <2> QED
    BY <2>1, <2>2, <2>3
<1>4. ClientsOK'
  BY <1>1, <1>3 DEF StateOK, ClientsOK
<1> QED
  BY <1>1, <1>4, DoneStep

-----------------------------------------------------------------------------
(* Restart, time, and the whole.                                           *)

\* NewRateLimiter: the file read is the memory that was, unless its last write
\* failed.
LEMMA RestartStep ==
    ASSUME AccessInv, Restart
    PROVE  Good
<1>1. /\ load' = load /\ now' = now /\ saved' = saved /\ tokens' = tokens /\ files' = files
      /\ UNCHANGED passkeys /\ StateOK
      /\ limiter' = saved /\ sess' = {} /\ revoked' = revoked \cup sess
      /\ held' = [v \in Vaults |-> NoTok] /\ req' = [r \in Reqs |-> Idle]
      /\ conf' = [conf EXCEPT !.live = conf.file, !.ui = conf.file.ui]
  BY DEF Restart, AccessInv
<1>2. SessOK' /\ Grows
  BY <1>1, FewerStep
<1>3. ClientsOK'
  BY <1>1 DEF StateOK, ClientsOK
<1>4. ConfOK'
  BY <1>1, ConstantsType DEF StateOK, ConfOK
<1>5. BackOK'
  <2>1. disk \in [failed: BOOLEAN, stale: BOOLEAN]
    BY <1>1 DEF StateOK, BackOK
  <2>2. disk' = [failed |-> FALSE, stale |-> disk.stale \/ disk.failed]
    BY DEF Restart
  <2>3. disk' \in [failed: BOOLEAN, stale: BOOLEAN] /\ ~disk'.failed
        /\ (disk'.stale <=> disk.stale \/ disk.failed)
    BY <2>1, <2>2, Zenon
  <2>4. ~disk'.stale => streak' = streak
    BY DEF Restart
  <2> QED
    BY <1>1, <2>3, <2>4 DEF StateOK, BackOK
<1>6. StateOK'
  BY <1>1, <1>2, <1>3, <1>4, <1>5, KeysSame DEF StateOK
<1>7. Sound
  BY <1>1, IdleType DEF Sound, ReqsOK, Tried, Earned
<1> QED
  BY <1>6, <1>7, GoodIs

\* A request that nobody waits for any more is otherwise what it was.
LEMMA ReopenStep ==
    ASSUME AccessInv, NEW p, Reopen(p)
    PROVE  Good
<1>1. /\ UNCHANGED <<load, now, limits, sessions, clients, passkeys, conf>>
      /\ req' = [r \in Reqs |-> IF req[r].place = p /\ req[r].pc # "idle"
                                THEN [req[r] EXCEPT !.lost = TRUE] ELSE req[r]]
  BY DEF Reopen
<1>2. StateOK' /\ Grows
  BY <1>1, StateSame
<1>3. ASSUME NEW r \in Reqs
      PROVE  /\ req'[r] \in ReqSet /\ ReqOK(req'[r], tokens')
             /\ req'[r].pc = req[r].pc /\ req'[r].how = req[r].how
  <2> DEFINE q == [req[r] EXCEPT !.lost = TRUE]
  <2>1. req[r] \in ReqSet /\ ReqOK(req[r], tokens')
    BY <1>2, RequestType, ReqOKGrows
  <2>2. /\ q \in ReqSet /\ q.pc = req[r].pc /\ q.how = req[r].how /\ q.tok = req[r].tok
        /\ q.vault = req[r].vault /\ q.op = req[r].op /\ q.place = req[r].place
        /\ q.arg = req[r].arg
    BY <2>1 DEF ReqSet
  <2>3. req'[r] \in {q, req[r]}
    BY <1>1
  <2> HIDE DEF q
  <2>4. ReqOK(q, tokens')
    BY <2>1, <2>2 DEF ReqOK
  <2> QED
    BY <2>1, <2>2, <2>3, <2>4
<1>4. req' \in [Reqs -> ReqSet]
  BY <1>1, <1>3
<1>5. Sound
  BY <1>3, <1>4 DEF Sound, ReqsOK, Tried, Earned
<1> QED
  BY <1>2, <1>5, GoodIs

LEMMA TickStep ==
    ASSUME AccessInv, Tick
    PROVE  Good
<1>1. /\ UNCHANGED <<load, limits, req, sessions, clients, passkeys, conf>> /\ StateOK
      /\ now' = now + 1
  BY DEF Tick, AccessInv
<1>2. SessOK' /\ Grows
  BY <1>1, SessSame
<1>3. ClientsOK' /\ BackOK' /\ KeysOK'
  BY <1>1, <1>2, ClientsSame, BackSame, KeysSame
<1>4. StateOK'
  BY <1>1, <1>2, <1>3 DEF StateOK, ConfOK
<1> QED
  BY <1>1, <1>2, <1>4, ReqsSame, GoodIs

LEMMA AccessInit ==
    ASSUME Init
    PROVE  AccessInv
<1>1. BackOK
  <2>1. disk \in [failed: BOOLEAN, stale: BOOLEAN]
    BY Zenon DEF Init
  <2> QED
    BY <2>1 DEF Init, BackOK, Delay
<1>2. SessOK
  <2>1. NoSession \in SessionSet
    BY DEF NoSession, SessionSet, Places
  <2>2. 0 \in 0..MaxTokens /\ \A t \in Tokens : ~(t <= 0)
    BY ConstantsType DEF Tokens
  <2>3. Numbered(0)
    BY <2>2 DEF Init, Numbered
  <2> QED
    BY <2>1, <2>2, <2>3 DEF Init, SessOK
<1>3. ClientsOK
  BY DEF Init, ClientsOK
<1>4. KeysOK
  BY DEF Init, KeysOK
<1>5. ConfOK
  BY ConstantsType DEF Init, ConfOK
<1>6. ReqsOK
  BY IdleType DEF Init, ReqsOK
<1>7. load \in Workloads /\ now \in Nat
  BY DEF Init
<1> QED
  BY <1>1, <1>2, <1>3, <1>4, <1>5, <1>6, <1>7 DEF AccessInv, StateOK

LEMMA AccessStep ==
    ASSUME AccessInv, [Next]_avars
    PROVE  Good
<1>1. ASSUME NEW r \in Reqs, Step(r) PROVE Good
  <2>1. CASE \/ Ask(r) \/ CheckPassword(r) \/ Wrong(r) \/ Mint(r)
             \/ Unlocked(r) \/ PasswordChanged(r) \/ PasswordAccepted(r) \/ PasskeyRemoved(r)
             \/ VaultRemade(r)
    BY <2>1, AskStep, CheckPasswordStep, WrongStep, MintingStep, UnlockedStep, AcceptedStep,
       PasskeyRemovedStep, VaultRemadeStep
  <2>2. CASE \/ ActFree(r) \/ ActOnSession(r) \/ ActOnPresence(r) \/ ActOnPassword(r) \/ Nowhere(r)
             \/ Lock(r) \/ SessionEnd(r)
    BY <2>2, ShortAnswers, ActOnSessionStep, ActOnPresenceStep, ActOnPasswordStep, EndingStep
  <2>3. CASE \/ EnrolFinish(r) \/ EnrolWrap(r)
             \/ SigninVerify(r) \/ SigninCount(r) \/ SigninUnlock(r) \/ SigninGrant(r)
    BY <2>3, EnrolFinishStep, EnrolWrapStep, SigninVerifyStep, SigninCountStep,
       SigninUnlockStep, SigninGrantStep
  <2>4. CASE \/ Bootstrap(r) \/ ConfigAuthorize(r) \/ ConfigWrite(r) \/ ConfigRename(r)
             \/ ReloadRead(r) \/ ReloadApply(r)
    BY <2>4, BootstrapStep, ConfigAuthorizeStep, ConfigWriteStep, ConfigRenameStep,
       ReloadReadStep, ReloadApplyStep
  <2>5. CASE \/ TerminalUnlocked(r) \/ TerminalLocked(r)
             \/ PortalUnlocked(r) \/ PortalSignedIn(r) \/ PortalLocked(r) \/ PortalRefused(r) \/ Shown(r)
    BY <2>5, TerminalUnlockedStep, TerminalLockedStep, PortalKeepsStep, PortalDropsStep
  <2> QED
    BY <1>1, <2>1, <2>2, <2>3, <2>4, <2>5 DEF Step
<1>2. ASSUME NEW v, EnrolBegin(v) \/ SigninBegin(v) PROVE Good
  BY <1>2, IssuesStep DEF EnrolBegin, SigninBegin
<1>3. ASSUME NEW kind, IssueCode(kind) PROVE Good
  BY <1>3, IssuesStep DEF IssueCode
<1>4. CASE Janitor \/ Restart \/ Tick
  BY <1>4, JanitorStep, RestartStep, TickStep
<1>5. ASSUME NEW p, Reopen(p) PROVE Good
  BY <1>5, ReopenStep
<1>6. CASE UNCHANGED avars
  <2>1. UNCHANGED <<load, now, limits, req, key, sessions, clients, passkeys, conf>>
    BY <1>6 DEF avars
  <2> QED
    BY <2>1, IssuesStep
<1> QED
  BY <1>1, <1>2, <1>3, <1>4, <1>5, <1>6 DEF Next

-----------------------------------------------------------------------------
(* The theorems.                                                           *)

\* Every store is well formed, every client keeps only its own tokens, and the
\* back-off in force is the one due, in every reachable state.
THEOREM AccessInvariant == Spec => []AccessInv
<1>1. Init => AccessInv
  BY AccessInit
<1>2. AccessInv /\ [Next]_avars => AccessInv'
  BY AccessStep DEF Good
<1> QED
  BY <1>1, <1>2, PTL DEF Spec

\* passkeyUnlockTableDDL: an unlock record never outlives its passkey, whatever
\* enrolments, removals, locks and restarts overlap.
THEOREM UnlockRecordsHold == Spec => []UnlockRecordsBelong
<1>1. AccessInv => UnlockRecordsBelong
  BY DEF AccessInv, StateOK, KeysOK, UnlockRecordsBelong
<1> QED
  BY <1>1, AccessInvariant, PTL

\* RateLimiter: no password is tried before the delay due to the wrong ones is
\* over, across vaults, callers, operations in flight and restarts, unless the
\* back-off file could not be written.
THEOREM BackoffIsKept == Spec => BackoffHolds
<1> DEFINE Due == \A r \in Reqs :
              req'[r].pc = "deriving" /\ req[r].pc # "deriving" /\ ~disk.stale =>
                 now >= streak.at + Delay(streak.n)
<1>1. AccessInv /\ [Next]_avars => Due
  <2> SUFFICES ASSUME AccessInv, [Next]_avars PROVE Due
    OBVIOUS
  <2>1. Tried
    BY AccessStep DEF Good
  <2>2. ~disk.stale => limiter.next = streak.at + Delay(streak.n)
    BY DEF AccessInv, StateOK, BackOK
  <2> QED
    BY <2>1, <2>2 DEF Tried, MayTry
<1>2. AccessInv /\ [Next]_avars => [Due]_avars
  BY <1>1
<1> QED
  BY <1>2, AccessInvariant, PTL DEF Spec, BackoffHolds

\* sessionStore.validate: an action let through by a session comes from the portal,
\* or the terminal device number, that earned it for a vault of that name, within
\* its life, and not after a lock, its owner or a restart took it back.
THEOREM SessionsAreEarnedHolds == Spec => SessionsAreEarned
<1> DEFINE Own == \A r \in Reqs :
              req'[r].how = "session" /\ req[r].how # "session" =>
                 LET t == tokens[req[r].tok] IN
                 /\ t.vault = req[r].vault /\ t.place = req[r].place
                 /\ req[r].tok \notin revoked
                 /\ now - t.at < SessionTTL
<1>1. AccessInv /\ [Next]_avars => Own
  <2> SUFFICES ASSUME AccessInv, [Next]_avars, NEW r \in Reqs,
                      req'[r].how = "session", req[r].how # "session"
               PROVE  /\ tokens[req[r].tok].vault = req[r].vault
                      /\ tokens[req[r].tok].place = req[r].place
                      /\ req[r].tok \notin revoked
                      /\ now - tokens[req[r].tok].at < SessionTTL
    OBVIOUS
  <2>1. Validate(req[r].tok, req[r].vault, req[r].place)
    BY AccessStep DEF Good, Earned
  <2>2. req[r].tok \in sess /\ req[r].tok \in Tokens /\ req[r].tok \notin revoked
    BY <2>1 DEF Validate, Bound, AccessInv, StateOK, SessOK
  <2>3. tokens[req[r].tok] \in SessionSet /\ now \in Nat
    BY <2>2 DEF AccessInv, StateOK, SessOK
  <2>4. Mine(tokens, req[r].tok, req[r].vault, req[r].place)
    BY <2>2, Brought, ConstantsType
  <2>5. tokens[req[r].tok].at \in Nat /\ ~(now - tokens[req[r].tok].at >= SessionTTL)
    BY <2>1, <2>3 DEF Validate, Lapsed, SessionSet
  <2>6. now - tokens[req[r].tok].at < SessionTTL
    BY <2>3, <2>5, ConstantsType
  <2> QED
    BY <2>2, <2>4, <2>6 DEF Mine
<1>2. AccessInv /\ [Next]_avars => [Own]_avars
  BY <1>1
<1> QED
  BY <1>2, AccessInvariant, PTL DEF Spec, SessionsAreEarned
=============================================================================
