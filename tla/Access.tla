------------------------------- MODULE Access -------------------------------
(***************************************************************************)
(* How a caller proves it may act, and for how long: the master password   *)
(* and the back-off between wrong ones, the sessions an unlock mints, the  *)
(* portal's passkey ceremonies, the one-time codes (challenges, presence   *)
(* tokens, config-auth and bootstrap codes), and the settings a config     *)
(* code lets the portal write.                                             *)
(*                                                                         *)
(* Three programs share this state: the daemon, the command line (which    *)
(* keeps a session token in a file per terminal and vault) and the portal  *)
(* (which keeps one per vault in memory).  A request is built with what    *)
(* its client holds, is served in several critical sections with a key     *)
(* derivation, a ceremony or file operations between them, and its answer  *)
(* changes what the client holds.  A restart of the daemon loses all of    *)
(* its memory, and keeps the files.                                        *)
(*                                                                         *)
(* Codes and tokens are fresh numbers: guessing one is not modelled.  UIDs *)
(* are those of the one owner the socket serves.  VaultLifecycle has the   *)
(* steps between a key and its session in full.                            *)
(***************************************************************************)
EXTENDS Integers, FiniteSets

CONSTANTS
    Vaults,      \* vaults that exist
    Absent,      \* a valid name of no vault; also the vault of a code bound to none
    Terminals,   \* callers with a controlling terminal, by its device number
    Scripts,     \* callers without one
    Portal,      \* the browser portal
    Reqs,        \* requests in flight at once
    Creds,       \* passkeys
    Texts,       \* contents of the config file: are they valid, the portal's port (0: none)
    StartText,   \* ... and the one the daemon starts with
    Workloads,   \* operations, vaults, callers and passwords explored together
    SessionTTL, SessionIdle, OnceTTL,
    BackoffBase, BackoffMax,
    MaxTime, MaxTokens, MaxOnce,   \* bounds of the model
    MaxAgain     \* ... and times a terminal opens, or a vault is made, again

ASSUME AccessAssumption ==
    /\ {SessionTTL, SessionIdle, OnceTTL, BackoffBase, BackoffMax} \subseteq Nat \ {0}
    /\ {MaxTime, MaxTokens, MaxOnce, MaxAgain} \subseteq Nat
    /\ Absent \notin Vaults
    /\ StartText \in Texts
    /\ \A t \in Texts : t.valid \in BOOLEAN /\ t.ui \in Nat
    /\ \A w \in Workloads : /\ w.vaults \subseteq Vaults \cup {Absent}
                            /\ w.places \subseteq Terminals \cup Scripts \cup {Portal}

VARIABLES
    load,      \* the workload of this behaviour
    now,
    limiter,   \* RateLimiter.state
    saved,     \* ... and auth-state.json
    req,       \* each request in flight
    key,       \* vaults whose key is in memory
    tokens,    \* every session minted
    sess,      \* sessionStore.sessions: the tokens in force
    files,     \* the command line's token files
    held,      \* the portal's vaultTokens
    once,      \* every one-time code issued
    creds, wraps,   \* the passkey and passkey_unlock tables
    conf,      \* the config file, its .tmp, the settings in force and the portal's port
    streak,    \* history: wrong passwords since the last right one, and when the last was
    disk,      \* history: the last write of that file failed; a restart read an older one
    revoked,   \* history: sessions ended by a lock, by their owner or by a restart
    bought,    \* history: what each one-time code has paid for
    opened,    \* history: how often another terminal has got a device number
    made,      \* history: how often a vault has been made again under its name
    origin     \* history: the terminal and the vault each session was minted for

limits == <<limiter, saved, streak, disk>>
sessions == <<tokens, sess, revoked>>
clients == <<files, held>>
passkeys == <<creds, wraps>>
codes == <<once, bought>>
world == <<opened, made, origin>>
avars == <<load, now, world, limits, req, key, sessions, clients, passkeys, codes, conf>>

Tokens == 1..MaxTokens
Codes == 1..MaxOnce
NoTok == 0
NoText == [valid |-> FALSE, ui |-> 0]
Places == Terminals \cup Scripts \cup {Portal}

Idle == [pc |-> "idle", op |-> "none", vault |-> Absent, place |-> Portal, word |-> "none",
         tok |-> NoTok, code |-> 0, arg |-> NoText, how |-> "none", lost |-> FALSE]
NoSession == [vault |-> Absent, place |-> Portal, tty |-> Portal, at |-> 0, used |-> 0]
NoCode == [kind |-> "none", vault |-> Absent, at |-> 0, live |-> FALSE, creds |-> {}, from |-> 0]

-----------------------------------------------------------------------------
(* The back-off: one state for every vault and caller.                     *)

\* computeDelay: the base, doubled for every further failure, up to the cap.
Delay(n) ==
    IF n = 0 THEN 0
    ELSE LET d == BackoffBase * 2 ^ (n - 1) IN IF d < BackoffMax THEN d ELSE BackoffMax

\* Check.
MayTry == now >= limiter.next

\* Mutant: the state is kept in memory only.
PersistNot(right) == saved' = saved /\ disk' = [disk EXCEPT !.stale = @ /\ ~right]

\* persist: the file follows the memory, unless it cannot be written (no
\* caller looks at that error).
Persist(right) ==
    \E failed \in (IF "diskfull" \in load.ops THEN BOOLEAN ELSE {FALSE}) :
        /\ saved' = IF failed THEN saved ELSE limiter'
        /\ disk' = [failed |-> failed, stale |-> disk.stale /\ ~right]

RecordFailure ==
    /\ limiter' = [fails |-> limiter.fails + 1, next |-> now + Delay(limiter.fails + 1)]
    /\ Persist(FALSE)
    /\ streak' = IF disk.stale THEN streak ELSE [n |-> streak.n + 1, at |-> now]

RecordSuccess ==
    /\ limiter' = [fails |-> 0, next |-> 0]
    /\ Persist(TRUE)
    /\ streak' = [n |-> 0, at |-> 0]

-----------------------------------------------------------------------------
(* The session store.                                                      *)

\* peerTTYDev: the device number of a caller's terminal, or none.  The kernel
\* gives a number out again when its terminal has closed.
Tty(p) == IF p \in Terminals THEN p ELSE Portal

Lapsed(t) ==
    \/ now - tokens[t].at >= SessionTTL
    \/ now - tokens[t].used >= SessionIdle

\* A session minted without a terminal binds to none.
Bound(t, v, p) ==
    /\ t \in sess
    /\ tokens[t].vault = v
    /\ tokens[t].tty = Portal \/ tokens[t].tty = Tty(p)

Validate(t, v, p) == Bound(t, v, p) /\ ~Lapsed(t)

\* validate deletes a session it finds lapsed.
Validated(t, v, p) == IF Bound(t, v, p) /\ Lapsed(t) THEN sess \ {t} ELSE sess

FreshToken == Cardinality({t \in Tokens : tokens[t] # NoSession}) + 1

\* The terminal behind a device number, told from the ones before it.
Opened(p) == IF p \in Terminals THEN opened[p] ELSE 0

MintSession(v, p) ==
    /\ FreshToken \in Tokens
    /\ tokens' = [tokens EXCEPT ![FreshToken] =
                    [vault |-> v, place |-> p, tty |-> Tty(p), at |-> now, used |-> now]]
    /\ sess' = sess \cup {FreshToken}
    /\ origin' = [origin EXCEPT ![FreshToken] = [opened |-> Opened(p), made |-> made[v]]]
    /\ UNCHANGED <<revoked, opened, made>>

\* endVault.
Of(vs) == {t \in sess : tokens[t].vault \in vs}

\* Mutant: the key goes, the sessions stay.
LockVaultsKeyOnly(vs) ==
    /\ key' = key \ vs
    /\ revoked' = revoked \cup Of(vs \cap key)
    /\ UNCHANGED <<sess, tokens>>

\* Lock and endVault, for the vaults of vs that are unlocked.
LockVaults(vs) ==
    /\ key' = key \ vs
    /\ sess' = sess \ Of(vs \cap key)
    /\ revoked' = revoked \cup Of(vs \cap key)
    /\ UNCHANGED tokens

-----------------------------------------------------------------------------
(* One-time codes: each store prunes what has expired when it mints, and   *)
(* deletes the code it is asked for whether or not it accepts it.          *)

Expired(c) == now > once[c].at + OnceTTL

FreshCode == Cardinality({c \in Codes : once[c] # NoCode}) + 1

\* The stores: both ceremonies share one.
Store(kind) == IF kind \in {"enrol", "signin"} THEN {"enrol", "signin"} ELSE {kind}

Minted(kind, v, cs, from) ==
    [c \in Codes |->
        IF c = FreshCode
        THEN [kind |-> kind, vault |-> v, at |-> now, live |-> TRUE, creds |-> cs, from |-> from]
        ELSE IF once[c].kind \in Store(kind) /\ Expired(c) THEN [once[c] EXCEPT !.live = FALSE]
        ELSE once[c]]

MintCode(kind, v, cs, from) ==
    /\ FreshCode \in Codes
    /\ once' = Minted(kind, v, cs, from)
    /\ UNCHANGED bought

\* consume (take): one of the store's codes, in time, for this vault.
Accepts(kind, c, v) ==
    /\ c \in Codes
    /\ once[c].live /\ once[c].kind \in Store(kind)
    /\ ~Expired(c) /\ once[c].vault = v

\* Mutant: a code is deleted only when it is found expired.
ConsumedIfExpired(kind, c) ==
    IF c \in Codes /\ once[c].kind \in Store(kind) /\ Expired(c)
    THEN [once EXCEPT ![c].live = FALSE] ELSE once

Consumed(kind, c) ==
    IF c \in Codes /\ once[c].kind \in Store(kind) THEN [once EXCEPT ![c].live = FALSE] ELSE once

\* What a code has paid for is also what the ceremony behind it has paid for.
Bought(c) ==
    [d \in Codes |-> IF d \in {c, once[c].from} THEN bought[d] + 1 ELSE bought[d]]

-----------------------------------------------------------------------------
(* Requests.                                                               *)

Is(r, pc, op) == req[r].pc = pc /\ req[r].op = op
Goes(r, pc) == req' = [req EXCEPT ![r].pc = pc]

\* The answer: what the request was made of no longer matters.
Answered(q, how, tok) ==
    [q EXCEPT !.pc = "answered", !.how = how, !.tok = tok,
              !.word = "none", !.code = 0, !.arg = NoText]
Answer(r, how) == req' = [req EXCEPT ![r] = Answered(@, how, req[r].tok)]
AnswerToken(r, how, t) == req' = [req EXCEPT ![r] = Answered(@, how, t)]

\* The token a client holds for the vault, where the daemon will look at it:
\* newClient loads the terminal's file, callInVault what the portal stored.
CarriedByTerminal(v, p) == IF p \in Terminals THEN files[p][v] ELSE NoTok
CarriedByPortal(v) == held[v]

Carried(op, v, p) ==
    IF v \notin Vaults \/ op \notin {"act", "end"} THEN NoTok
    ELSE IF p = Portal THEN CarriedByPortal(v) ELSE CarriedByTerminal(v, p)

\* What can be asked, and with what.
Form(v, p, w, c, a) == [vault |-> v, place |-> p, word |-> w, code |-> c, arg |-> a]

Presences == {c \in Codes : once[c].kind = "presence"}
Ceremonies == {c \in Codes : once[c].kind \in {"enrol", "signin"}}

Forms(op) ==
    LET somewhere == load.places
        here == load.vaults
        atPortal == load.places \cap {Portal}
        passwords == {Form(v, p, w, 0, NoText) : v \in here, p \in somewhere,
                                                  w \in load.words \cap {"right", "wrong"}}
    IN CASE op \in {"unlock", "passwd"} -> passwords
         [] op = "remake" -> {f \in passwords : f.vault \in Vaults /\ made[f.vault] < MaxAgain}
         [] op = "act" -> passwords
                          \cup {Form(v, p, "none", 0, NoText) : v \in here, p \in somewhere}
                          \cup {Form(v, Portal, "none", c, NoText) : v \in here, c \in Presences}
         [] op = "remove" -> {Form(v, p, w, 0, c) : v \in here, p \in atPortal,
                                                    w \in load.words \cap {"right", "wrong"}, c \in Creds}
         [] op = "lock" -> {Form(v, p, "none", 0, NoText) : v \in here, p \in somewhere}
         [] op = "lockall" -> {Form(Absent, p, "none", 0, NoText) : p \in somewhere}
         [] op = "end" -> {Form(v, p, "none", 0, NoText) : v \in here, p \in somewhere \ {Portal}}
         [] op \in {"enrol", "signin"} ->
              {Form(v, p, w, c, a) : v \in here, p \in atPortal, w \in load.words \cap {"kek", "none"},
                                     c \in Ceremonies, a \in Creds}
         [] op = "boot" -> {Form(Absent, p, "none", c, NoText) :
                              p \in atPortal, c \in {d \in Codes : once[d].kind = "boot"}}
         [] op = "config" -> {Form(Absent, p, "none", c, t) : p \in atPortal, t \in Texts,
                              c \in {0} \cup {d \in Codes : once[d].kind = "config"}}
         [] op = "reload" -> {Form(Absent, p, "none", 0, NoText) : p \in somewhere}
         [] OTHER -> {}

Ask(r) ==
    /\ req[r].pc = "idle"
    /\ \E op \in load.ops : \E f \in Forms(op) :
         /\ f.place = Portal => conf.ui # 0
         /\ req' = [req EXCEPT ![r] =
                      [pc |-> "asked", op |-> op, vault |-> f.vault, place |-> f.place,
                       word |-> f.word, tok |-> Carried(op, f.vault, f.place), code |-> f.code,
                       arg |-> f.arg, how |-> "none", lost |-> FALSE]]
    /\ UNCHANGED <<load, now, world, limits, key, sessions, clients, passkeys, codes, conf>>

-----------------------------------------------------------------------------
(* The master password: Check, then a slow derivation, then the record.    *)

\* vault.unlock, vault.passwd, passkey.remove and vault.delete with a password
\* check the back-off first.
CheckPassword(r) ==
    /\ \/ req[r].pc = "asked" /\ req[r].op \in {"unlock", "passwd"}
       \/ req[r].pc = "asked" /\ req[r].op \in {"remove", "remake"} /\ req[r].vault \in Vaults
    /\ IF MayTry THEN Goes(r, "deriving") ELSE Answer(r, "limited")
    /\ UNCHANGED <<load, now, world, limits, key, sessions, clients, passkeys, codes, conf>>

\* A vault that does not exist is a wrong password to unlock, and to passwd
\* an answer that is not recorded.
Wrong(r) ==
    /\ req[r].pc = "deriving"
    /\ \/ /\ req[r].word = "wrong" /\ req[r].vault \in Vaults
          /\ RecordFailure
          /\ Answer(r, "wrong")
       \/ /\ req[r].vault = Absent /\ req[r].op = "unlock"
          /\ RecordFailure
          /\ Answer(r, "wrong")
       \/ /\ req[r].vault = Absent /\ req[r].op = "passwd"
          /\ Answer(r, "notinit")
          /\ UNCHANGED limits
    /\ UNCHANGED <<load, now, world, key, sessions, clients, passkeys, codes, conf>>

Right(r, op) == Is(r, "deriving", op) /\ req[r].word = "right" /\ req[r].vault \in Vaults

\* The password opens the vault; its session is still to be minted.
Unlocked(r) ==
    /\ Right(r, "unlock")
    /\ RecordSuccess
    /\ key' = key \cup {req[r].vault}
    /\ Goes(r, "minting")
    /\ UNCHANGED <<load, now, world, sessions, clients, passkeys, codes, conf>>

\* ChangePassword wraps the same key again: it ends no session.
PasswordChanged(r) ==
    /\ Right(r, "passwd")
    /\ RecordSuccess
    /\ Answer(r, "password")
    /\ UNCHANGED <<load, now, world, key, sessions, clients, passkeys, codes, conf>>

PasswordAccepted(r) ==
    /\ Right(r, "act")
    /\ RecordSuccess
    /\ Answer(r, "password")
    /\ UNCHANGED <<load, now, world, key, sessions, clients, passkeys, codes, conf>>

\* DELETE FROM passkey, and its unlock record by the cascade.
Without(rows, v, c) == [rows EXCEPT ![v] = @ \ {c}]

PasskeyRemoved(r) ==
    /\ Right(r, "remove")
    /\ RecordSuccess
    /\ creds' = Without(creds, req[r].vault, req[r].arg)
    /\ wraps' = Without(wraps, req[r].vault, req[r].arg)
    /\ Answer(r, "password")
    /\ UNCHANGED <<load, now, world, key, sessions, clients, codes, conf>>

\* A vault is deleted, and one is made under its name before anything else asks
\* for it: the key goes with the store, the passkeys with the database; the
\* sessions, the codes and the clients' tokens of that name stay.
VaultRemade(r) ==
    LET v == req[r].vault IN
    /\ Right(r, "remake")
    /\ \A q \in Reqs \ {r} : req[q].vault = v => req[q].pc \in {"idle", "asked", "answered"}
    /\ RecordSuccess
    /\ key' = key \ {v}
    /\ creds' = [creds EXCEPT ![v] = {}]
    /\ wraps' = [wraps EXCEPT ![v] = {}]
    /\ made' = [made EXCEPT ![v] = @ + 1]
    /\ Answer(r, "password")
    /\ UNCHANGED <<load, now, opened, origin, sessions, clients, codes, conf>>

\* mintSessionForSocket, mintSessionForPortal.
Mint(r) ==
    /\ Is(r, "minting", "unlock")
    /\ MintSession(req[r].vault, req[r].place)
    /\ AnswerToken(r, "password", FreshToken)
    /\ UNCHANGED <<load, now, limits, key, clients, passkeys, codes, conf>>

-----------------------------------------------------------------------------
(* authorizeAction: a policy, a session, or fresh credentials.             *)

\* The file's policy lets the action through.
ActFree(r) ==
    /\ Is(r, "asked", "act")
    /\ req[r].vault \in Vaults /\ load.policy = "none"
    /\ Answer(r, "policy")
    /\ UNCHANGED <<load, now, world, limits, key, sessions, clients, passkeys, codes, conf>>

BySession(r) ==
    load.policy = "default" /\ Validate(req[r].tok, req[r].vault, req[r].place)

ActOnSession(r) ==
    /\ Is(r, "asked", "act")
    /\ req[r].vault \in Vaults /\ BySession(r)
    /\ tokens' = [tokens EXCEPT ![req[r].tok].used = now]
    /\ Answer(r, "session")
    /\ UNCHANGED <<load, now, world, limits, key, sess, revoked, clients, passkeys, codes, conf>>

\* authorizeActionAlways.
NeedsFresh(r) ==
    /\ Is(r, "asked", "act")
    /\ req[r].vault \in Vaults /\ load.policy # "none" /\ ~BySession(r)
    /\ sess' = IF load.policy = "default"
               THEN Validated(req[r].tok, req[r].vault, req[r].place) ELSE sess
    /\ UNCHANGED <<load, now, world, limits, key, tokens, revoked, clients, passkeys, conf>>

\* passkeyProvider: a presence token decides alone.
ActOnPresence(r) ==
    LET c == req[r].code IN
    /\ NeedsFresh(r) /\ c # 0
    /\ once' = Consumed("presence", c)
    /\ IF Accepts("presence", c, req[r].vault)
       THEN Answer(r, "presence") /\ bought' = Bought(c)
       ELSE Answer(r, "authreq") /\ UNCHANGED bought

\* passwordProvider, or the demand for a credential.
ActOnPassword(r) ==
    /\ NeedsFresh(r) /\ req[r].code = 0
    /\ CASE req[r].word = "none" -> Answer(r, "authreq")
         [] req[r].word # "none" /\ ~MayTry -> Answer(r, "limited")
         [] OTHER -> Goes(r, "deriving")
    /\ UNCHANGED codes

\* storeForVault: no such vault, before anything is checked.
Nowhere(r) ==
    /\ req[r].pc = "asked" /\ req[r].op \in {"act", "remove", "enrol", "signin"}
    /\ req[r].vault = Absent
    /\ Answer(r, "notinit")
    /\ UNCHANGED <<load, now, world, limits, key, sessions, clients, passkeys, codes, conf>>

-----------------------------------------------------------------------------
(* Ending what was granted.                                                *)

Lock(r) ==
    /\ req[r].pc = "asked" /\ req[r].op \in {"lock", "lockall"}
    /\ LockVaults(IF req[r].op = "lock" THEN {req[r].vault} ELSE Vaults)
    /\ Answer(r, "ok")
    /\ UNCHANGED <<load, now, world, limits, clients, passkeys, codes, conf>>

SessionEnd(r) ==
    /\ Is(r, "asked", "end")
    /\ sess' = sess \ {req[r].tok}
    /\ revoked' = revoked \cup (sess \cap {req[r].tok})
    /\ Answer(r, "ok")
    /\ UNCHANGED <<load, now, world, limits, key, tokens, clients, passkeys, codes, conf>>

\* lockIdleVaults, when some vaults have been idle: the sweep comes with it.
Janitor ==
    /\ "janitor" \in load.ops
    /\ \E vs \in SUBSET key :
         /\ key' = key \ vs
         /\ sess' = {t \in sess \ Of(vs) : ~Lapsed(t)}
         /\ revoked' = revoked \cup Of(vs)
         /\ <<key', sess'>> # <<key, sess>>
    /\ UNCHANGED <<load, now, world, limits, req, tokens, clients, passkeys, codes, conf>>

-----------------------------------------------------------------------------
(* Passkeys.                                                               *)

EnrolBegin(v) ==
    /\ "enrol" \in load.ops /\ conf.ui # 0
    /\ v \in key
    /\ MintCode("enrol", v, {}, 0)
    /\ UNCHANGED <<load, now, world, limits, req, key, sessions, clients, passkeys, conf>>

SigninBegin(v) ==
    /\ "signin" \in load.ops /\ conf.ui # 0
    /\ creds[v] # {}
    /\ MintCode("signin", v, creds[v], 0)
    /\ UNCHANGED <<load, now, world, limits, req, key, sessions, clients, passkeys, conf>>

\* The ceremony is taken, then verified against the passkeys of the moment:
\* an assertion answers a sign-in challenge, an attestation an enrolment one.
Ceremony(r, kind) ==
    /\ Accepts(kind, req[r].code, req[r].vault)
    /\ once[req[r].code].kind = kind

AddPasskey(v, c) == [creds EXCEPT ![v] = @ \cup {c}]

EnrolFinish(r) ==
    LET v == req[r].vault  c == req[r].arg IN
    /\ Is(r, "asked", "enrol") /\ v \in Vaults
    /\ \/ /\ v \notin key
          /\ Answer(r, "locked")
          /\ UNCHANGED <<codes, passkeys>>
       \/ /\ v \in key
          /\ once' = Consumed("enrol", req[r].code)
          /\ IF Ceremony(r, "enrol") /\ c \notin creds[v]
             THEN /\ creds' = AddPasskey(v, c)
                  /\ bought' = Bought(req[r].code)
                  /\ IF req[r].word = "kek" THEN Goes(r, "wrapping") ELSE Answer(r, "ok")
             ELSE Answer(r, "bad") /\ UNCHANGED <<creds, bought>>
          /\ UNCHANGED wraps
    /\ UNCHANGED <<load, now, world, limits, key, sessions, clients, conf>>

\* Mutant: the record is inserted without its passkey.
EnrolWrapOrphan(r) ==
    LET v == req[r].vault  c == req[r].arg IN
    /\ Is(r, "wrapping", "enrol")
    /\ IF v \in key
       THEN wraps' = [wraps EXCEPT ![v] = @ \cup {c}] /\ Answer(r, "ok")
       ELSE UNCHANGED wraps /\ Answer(r, "bad")
    /\ UNCHANGED <<load, now, world, limits, key, sessions, clients, creds, codes, conf>>

\* The vault key under the authenticator's: refused for a vault locked, and
\* for a passkey removed, since the passkey went in.
EnrolWrap(r) ==
    LET v == req[r].vault  c == req[r].arg IN
    /\ Is(r, "wrapping", "enrol")
    /\ IF v \in key /\ c \in creds[v]
       THEN wraps' = [wraps EXCEPT ![v] = @ \cup {c}] /\ Answer(r, "ok")
       ELSE UNCHANGED wraps /\ Answer(r, "bad")
    /\ UNCHANGED <<load, now, world, limits, key, sessions, clients, creds, codes, conf>>

\* FinishLogin accepts a passkey enrolled now and offered at the start.
Asserted(r) ==
    /\ Ceremony(r, "signin")
    /\ req[r].arg \in creds[req[r].vault] \cap once[req[r].code].creds

SigninVerify(r) ==
    /\ Is(r, "asked", "signin") /\ req[r].vault \in Vaults
    /\ once' = Consumed("signin", req[r].code)
    /\ IF Asserted(r) THEN Goes(r, "counting") ELSE Answer(r, "bad")
    /\ UNCHANGED <<load, now, world, limits, key, sessions, clients, passkeys, bought, conf>>

\* The sign count of a passkey that has gone cannot be updated; then its
\* unlock record is looked up.
SigninCount(r) ==
    LET v == req[r].vault  c == req[r].arg IN
    /\ Is(r, "counting", "signin")
    /\ CASE c \notin creds[v] -> Answer(r, "bad")
         [] c \in creds[v] /\ req[r].word = "kek" /\ c \in wraps[v] -> Goes(r, "unwrapping")
         [] OTHER -> Goes(r, "signing")
    /\ UNCHANGED <<load, now, world, limits, key, sessions, clients, passkeys, codes, conf>>

\* UnlockWithKEK.
SigninUnlock(r) ==
    /\ Is(r, "unwrapping", "signin")
    /\ key' = key \cup {req[r].vault}
    /\ req' = [req EXCEPT ![r].pc = "signing", ![r].word = "unlocked"]
    /\ UNCHANGED <<load, now, world, limits, sessions, clients, passkeys, codes, conf>>

\* A presence token while the vault is unlocked, and a portal session when
\* this ceremony unlocked it.
SigninGrant(r) ==
    /\ Is(r, "signing", "signin")
    /\ IF req[r].vault \in key THEN MintCode("presence", req[r].vault, {}, req[r].code)
                               ELSE UNCHANGED codes
    /\ IF req[r].word = "unlocked"
       THEN MintSession(req[r].vault, Portal) /\ AnswerToken(r, "ok", FreshToken)
       ELSE UNCHANGED <<sessions, world>> /\ AnswerToken(r, "ok", NoTok)
    /\ UNCHANGED <<load, now, limits, key, clients, passkeys, conf>>

-----------------------------------------------------------------------------
(* Bootstrap and config codes, and the settings.                           *)

\* handleWebBootstrap (by `byn web`) and handleConfigAuth (by
\* `byn config-auth`, once sudo has vouched for the owner).
IssueCode(kind) ==
    /\ kind \in load.ops
    /\ MintCode(kind, Absent, {}, 0)
    /\ UNCHANGED <<load, now, world, limits, req, key, sessions, clients, passkeys, conf>>

\* ConsumeBootstrap: the code for the portal's own token, while it runs.
Bootstrap(r) ==
    LET c == req[r].code IN
    /\ Is(r, "asked", "boot")
    /\ once' = Consumed("boot", c)
    /\ IF Accepts("boot", c, Absent) /\ conf.ui # 0
       THEN Answer(r, "ok") /\ bought' = Bought(c)
       ELSE Answer(r, "authreq") /\ UNCHANGED bought
    /\ UNCHANGED <<load, now, world, limits, key, sessions, clients, passkeys, conf>>

\* handleConfigRoute burns the code, then handleConfigSet parses the text.
ConfigAuthorize(r) ==
    LET c == req[r].code IN
    /\ Is(r, "asked", "config")
    /\ once' = Consumed("config", c)
    /\ CASE ~Accepts("config", c, Absent) -> Answer(r, "authreq") /\ UNCHANGED bought
         [] Accepts("config", c, Absent) /\ ~req[r].arg.valid -> Answer(r, "bad") /\ UNCHANGED bought
         [] OTHER -> Goes(r, "writing") /\ bought' = Bought(c)
    /\ UNCHANGED <<load, now, world, limits, key, sessions, clients, passkeys, conf>>

ConfigWrite(r) ==
    /\ Is(r, "writing", "config")
    /\ conf' = [conf EXCEPT !.tmp = req[r].arg]
    /\ Goes(r, "renaming")
    /\ UNCHANGED <<load, now, world, limits, key, sessions, clients, passkeys, codes>>

\* The .tmp may be another writer's, and may have been renamed already.
ConfigRename(r) ==
    /\ Is(r, "renaming", "config")
    /\ IF conf.tmp = NoText
       THEN Answer(r, "bad") /\ UNCHANGED conf
       ELSE Goes(r, "loading") /\ conf' = [conf EXCEPT !.file = conf.tmp, !.tmp = NoText]
    /\ UNCHANGED <<load, now, world, limits, key, sessions, clients, passkeys, codes>>

\* Reload: the file is read before reloadMu is taken.
ReloadRead(r) ==
    /\ req[r].pc = "loading" \/ Is(r, "asked", "reload")
    /\ req' = [req EXCEPT ![r].pc = "loaded", ![r].arg = conf.file]
    /\ UNCHANGED <<load, now, world, limits, key, sessions, clients, passkeys, codes, conf>>

\* reloadUI stops the portal, or starts a new one on another port, which may
\* not be free: then there is none.
PortsAfter(text) == {text.ui} \cup (IF text.ui = conf.ui THEN {} ELSE {0})

\* The new server holds no tokens, and a request of the old one finds it gone.
Rebound(q, ui) ==
    IF ui # conf.ui /\ q.place = Portal /\ q.pc # "idle" THEN [q EXCEPT !.lost = TRUE] ELSE q

\* ... and applied under it.
ReloadApply(r) ==
    /\ req[r].pc = "loaded"
    /\ \E ui \in PortsAfter(req[r].arg) :
         /\ conf' = [conf EXCEPT !.live = req[r].arg, !.ui = ui]
         /\ held' = IF ui = conf.ui THEN held ELSE [v \in Vaults |-> NoTok]
         /\ req' = [q \in Reqs |->
              Rebound(IF q = r THEN Answered(req[q], "ok", NoTok) ELSE req[q], ui)]
    /\ UNCHANGED <<load, now, world, limits, key, sessions, files, passkeys, codes>>

-----------------------------------------------------------------------------
(* The answer reaches the client.                                          *)

Drops(kept, vs) == [v \in Vaults |-> IF v \in vs THEN NoTok ELSE kept[v]]

Got(r, ops) == req[r].pc = "answered" /\ req[r].op \in ops
Done(r) ==
    /\ req' = [req EXCEPT ![r] = Idle]
    /\ UNCHANGED <<load, now, world, limits, key, sessions, passkeys, codes, conf>>

\* saveTokenWithDev: the file is written over, and is left as it was or empty
\* when that fails; a caller without a terminal keeps nothing.
SaveToken(p, v, t) ==
    files' \in IF p \in Terminals
               THEN {[files EXCEPT ![p][v] = u] : u \in {t, NoTok, files[p][v]}} ELSE {files}

\* runUnlock.
TerminalUnlocked(r) ==
    /\ Got(r, {"unlock"}) /\ req[r].place # Portal /\ req[r].how = "password" /\ ~req[r].lost
    /\ SaveToken(req[r].place, req[r].vault, req[r].tok)
    /\ UNCHANGED held
    /\ Done(r)

\* runLock: this terminal's file for the vault, or with --all every file.
TerminalLocked(r) ==
    /\ Got(r, {"lock", "end", "lockall"}) /\ req[r].place # Portal /\ ~req[r].lost
    /\ files' = [p \in Terminals |->
                   IF req[r].op = "lockall" THEN Drops(files[p], Vaults)
                   ELSE IF p = req[r].place THEN Drops(files[p], {req[r].vault}) ELSE files[p]]
    /\ UNCHANGED held
    /\ Done(r)

\* The portal stores the token of an unlock, by password or by passkey.
PortalUnlocked(r) ==
    /\ Got(r, {"unlock"}) /\ req[r].place = Portal /\ req[r].how = "password" /\ ~req[r].lost
    /\ held' = [held EXCEPT ![req[r].vault] = req[r].tok]
    /\ UNCHANGED files
    /\ Done(r)

PortalSignedIn(r) ==
    /\ Got(r, {"signin"}) /\ req[r].how = "ok" /\ ~req[r].lost
    /\ held' = IF req[r].tok = NoTok THEN held ELSE [held EXCEPT ![req[r].vault] = req[r].tok]
    /\ UNCHANGED files
    /\ Done(r)

PortalLocked(r) ==
    /\ Got(r, {"lock", "lockall"}) /\ req[r].place = Portal /\ ~req[r].lost
    /\ held' = Drops(held, IF req[r].op = "lockall" THEN Vaults ELSE {req[r].vault})
    /\ UNCHANGED files
    /\ Done(r)

\* callInVault: a demand for credentials in spite of a token clears the
\* token stored for the vault, whichever is there by now.
PortalRefused(r) ==
    /\ Got(r, {"act"}) /\ req[r].place = Portal /\ req[r].how = "authreq" /\ ~req[r].lost
    /\ req[r].tok # NoTok
    /\ held' = [held EXCEPT ![req[r].vault] = NoTok]
    /\ UNCHANGED files
    /\ Done(r)

\* Every other answer is only shown.
Shown(r) ==
    /\ req[r].pc = "answered"
    /\ \/ req[r].lost
       \/ req[r].op \in {"unlock"} /\ req[r].how # "password"
       \/ req[r].op \in {"signin"} /\ req[r].how # "ok"
       \/ req[r].op = "act" /\ ~(req[r].place = Portal /\ req[r].how = "authreq" /\ req[r].tok # NoTok)
       \/ req[r].op \in {"passwd", "remove", "remake", "enrol", "boot", "config", "reload"}
    /\ UNCHANGED clients
    /\ Done(r)

-----------------------------------------------------------------------------
(* The daemon stops and comes back, a terminal closes and another opens,   *)
(* and time passes.                                                        *)

\* NewRateLimiter reads the file; the codes, sessions and keys were memory.
Restart ==
    /\ "restart" \in load.ops
    /\ limiter' = saved
    /\ disk' = [failed |-> FALSE, stale |-> disk.stale \/ disk.failed]
    /\ streak' = IF disk'.stale THEN [n |-> 0, at |-> 0] ELSE streak
    /\ req' = [r \in Reqs |-> Idle]
    /\ key' = {}
    /\ sess' = {}
    /\ revoked' = revoked \cup sess
    /\ held' = [v \in Vaults |-> NoTok]
    /\ once' = [c \in Codes |-> [once[c] EXCEPT !.live = FALSE]]
    /\ conf' = [conf EXCEPT !.live = conf.file, !.ui = conf.file.ui]
    /\ UNCHANGED <<load, now, world, saved, tokens, files, passkeys, bought>>

\* A terminal window is closed, its commands with it, and the next one opened
\* gets its device number.  What it kept for that number stays on disk.
Reopen(p) ==
    /\ "terminal" \in load.ops /\ opened[p] < MaxAgain
    /\ opened' = [opened EXCEPT ![p] = @ + 1]
    /\ req' = [r \in Reqs |-> IF req[r].place = p /\ req[r].pc # "idle"
                              THEN [req[r] EXCEPT !.lost = TRUE] ELSE req[r]]
    /\ UNCHANGED <<load, now, made, origin, limits, key, sessions, clients, passkeys, codes, conf>>

Tick ==
    /\ now < load.until
    /\ now' = now + 1
    /\ UNCHANGED <<load, world, limits, req, key, sessions, clients, passkeys, codes, conf>>

Init ==
    /\ load \in Workloads
    /\ now = 0
    /\ limiter = [fails |-> 0, next |-> 0] /\ saved = limiter
    /\ req = [r \in Reqs |-> Idle]
    /\ key = {}
    /\ tokens = [t \in Tokens |-> NoSession] /\ sess = {} /\ revoked = {}
    /\ files = [p \in Terminals |-> [v \in Vaults |-> NoTok]]
    /\ held = [v \in Vaults |-> NoTok]
    /\ once = [c \in Codes |-> NoCode] /\ bought = [c \in Codes |-> 0]
    /\ creds = [v \in Vaults |-> {}] /\ wraps = creds
    /\ conf = [file |-> StartText, tmp |-> NoText, live |-> StartText, ui |-> StartText.ui]
    /\ opened = [p \in Terminals |-> 0] /\ made = [v \in Vaults |-> 0]
    /\ origin = [t \in Tokens |-> [opened |-> 0, made |-> 0]]
    /\ streak = [n |-> 0, at |-> 0] /\ disk = [failed |-> FALSE, stale |-> FALSE]

Step(r) ==
    \/ Ask(r) \/ CheckPassword(r) \/ Wrong(r) \/ Mint(r)
    \/ Unlocked(r) \/ PasswordChanged(r) \/ PasswordAccepted(r) \/ PasskeyRemoved(r)
    \/ VaultRemade(r)
    \/ ActFree(r) \/ ActOnSession(r) \/ ActOnPresence(r) \/ ActOnPassword(r) \/ Nowhere(r)
    \/ Lock(r) \/ SessionEnd(r)
    \/ EnrolFinish(r) \/ EnrolWrap(r)
    \/ SigninVerify(r) \/ SigninCount(r) \/ SigninUnlock(r) \/ SigninGrant(r)
    \/ Bootstrap(r) \/ ConfigAuthorize(r) \/ ConfigWrite(r) \/ ConfigRename(r)
    \/ ReloadRead(r) \/ ReloadApply(r)
    \/ TerminalUnlocked(r) \/ TerminalLocked(r)
    \/ PortalUnlocked(r) \/ PortalSignedIn(r) \/ PortalLocked(r) \/ PortalRefused(r) \/ Shown(r)

Next ==
    \/ \E r \in Reqs : Step(r)
    \/ \E v \in load.vaults \cap Vaults : EnrolBegin(v) \/ SigninBegin(v)
    \/ \E kind \in {"boot", "config"} : IssueCode(kind)
    \/ \E p \in load.places \cap Terminals : Reopen(p)
    \/ Janitor \/ Restart \/ Tick

Spec == Init /\ [][Next]_avars

-----------------------------------------------------------------------------
(* Properties.                                                             *)

\* RateLimiter: a password is tried only once the delay due to the wrong
\* ones answered in a row is over, whichever vaults, callers and operations
\* they came from and however often the daemon restarted in between, unless
\* the back-off file could not be written.
BackoffHolds ==
    [][\A r \in Reqs :
         req'[r].pc = "deriving" /\ req[r].pc # "deriving" /\ ~disk.stale =>
            now >= streak.at + Delay(streak.n)]_avars

\* sessions.go: an action authorised by a session comes from the portal, or the
\* terminal device number, that proved itself for a vault of that name, within
\* the session's life, and not after a lock, `byn lock --session` or a restart
\* took it back, whatever tokens the clients' files still hold.
SessionsAreEarned ==
    [][\A r \in Reqs :
         req'[r].how = "session" /\ req[r].how # "session" =>
            LET t == tokens[req[r].tok] IN
            /\ t.vault = req[r].vault /\ t.place = req[r].place
            /\ req[r].tok \notin revoked
            /\ now - t.at < SessionTTL]_avars

\* cli-reference.md (byn unlock): "for this terminal's session only".
SessionsAreOfThisTerminal ==
    [][\A r \in Reqs :
         req'[r].how = "session" /\ req[r].how # "session" /\ ~req[r].lost =>
            origin[req[r].tok].opened = Opened(req[r].place)]_avars

\* sessions.go: "a session binds key-access", to a vault that proved its password.
SessionsAreOfThisVault ==
    [][\A r \in Reqs :
         req'[r].how = "session" /\ req[r].how # "session" =>
            origin[req[r].tok].made = made[req[r].vault]]_avars

\* passkey.go, bootstrap_token.go, config_auth_token.go: a one-time code, and
\* the ceremony it came from, pays for at most one thing.
OneCodeOneEffect == \A c \in Codes : bought[c] <= 1

\* schema.go (passkeyUnlockTableDDL): "revoking a passkey also drops its
\* unlock path", whatever enrolment was under way.
UnlockRecordsBelong == \A v \in Vaults : wraps[v] \subseteq creds[v]

\* daemon.go (Reload "applies the settings"): with no write or reload under
\* way the settings in force are those of the file.
LiveIsOnDisk ==
    (\A r \in Reqs : req[r].pc \notin {"loading", "loaded"}) => conf.live = conf.file
=============================================================================
