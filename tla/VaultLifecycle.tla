--------------------------- MODULE VaultLifecycle ---------------------------
(***************************************************************************)
(* The life of vaults in the daemon: directories on disk, the Store objects *)
(* open in memory (Daemon.vaults), unlock sessions, the handlers of        *)
(* init, unlock, lock, passwd, rename and delete, and the idle janitor.    *)
(*                                                                         *)
(* Connections are served concurrently and a handler is several critical   *)
(* sections: it fetches a Store under vaultsMu, changes its key under the  *)
(* Store's mutex, the sessions under theirs, and files under none.         *)
(*                                                                         *)
(* Passwords, tokens, UIDs and terminals are compared, never computed      *)
(* with: every authorization here is one that succeeds, and a failed one   *)
(* changes nothing of this state.  Time is abstract: a session may expire  *)
(* at any moment and a vault may become idle at any moment after a touch.  *)
(*                                                                         *)
(* A Store object, a wrapped key and a fingerprint are only ever compared, *)
(* so each is kept as the outcome of the comparison: a directory is "good" *)
(* when the fingerprint in meta.json is that of wrapped.key, and a handler *)
(* still "owns" the Store it fetched or the wrapped key it wrote or read   *)
(* until another handler evicts the one or replaces the other.             *)
(***************************************************************************)
EXTENDS Integers, FiniteSets

CONSTANTS
    Names,       \* vault names other than the default, which cannot be moved
    Conns,       \* connections, each running one handler at a time
    MaxTokens,   \* bound of the model: sessions at one time
    None         \* the name of no vault

ASSUME LifecycleAssumption == None \notin Names /\ MaxTokens \in Nat

VARIABLES
    disk,      \* vaults/<name>/: "none", "good" (Open accepts it) or "bad"
    vaults,    \* Daemon.vaults: is a store open, is its key in memory, its activity
    sessions,  \* sessionStore: the vault of each token, and how it relates to the key
    conn,      \* each connection's handler
    janitor,   \* the vault whose sessions the janitor is about to end, or None
    excused    \* history: vaults written by two handlers at once, by one that died,
               \* or by a passwd that failed between its two writes

lvars == <<disk, vaults, sessions, conn, janitor, excused>>

Tokens == 1..MaxTokens

NoEntry == [open |-> FALSE, key |-> FALSE, active |-> "never"]
Opened == [NoEntry EXCEPT !.open = TRUE]
NoSession == [vault |-> None, mark |-> "none"]
Idle == [pc |-> "idle", name |-> None, to |-> None, own |-> FALSE]

-----------------------------------------------------------------------------
(* openVault: the registered store, or a locked one opened from disk; Open  *)
(* refuses a directory that is not "good".                                 *)

CanOpen(n) == vaults[n].open \/ disk[n] = "good"

OpenVault(n) ==
    /\ CanOpen(n)
    /\ vaults' = IF vaults[n].open THEN vaults ELSE [vaults EXCEPT ![n] = Opened]

\* touchVault: activity of the entry registered under the name.
Touched(n) == IF vaults[n].open THEN [vaults EXCEPT ![n].active = "recent"] ELSE vaults

Return(c) == conn' = [conn EXCEPT ![c] = Idle]

Begin(c, p, n) ==
    /\ conn[c].pc = "idle"
    /\ conn' = [conn EXCEPT ![c] = [Idle EXCEPT !.pc = p, !.name = n]]

\* Handlers in one of the states ps, working on vault n.
At(ps, n) == {c \in Conns : conn[c].pc \in ps /\ conn[c].name = n}

\* Handlers part way through changing the files of a directory.
Writing(n) == At({"initing", "rekeying", "rekeyed", "renaming"}, n)

\* Handler c goes to p; it owns what it has fetched or written, and the
\* handlers cs no longer own what they had.
Moves(c, p, cs) ==
    conn' = [k \in Conns |-> IF k = c THEN [conn[k] EXCEPT !.pc = p, !.own = TRUE]
                             ELSE IF k \in cs THEN [conn[k] EXCEPT !.own = FALSE] ELSE conn[k]]

\* Handler c ends, and so does the ownership of the handlers cs.
Ends(c, cs) ==
    conn' = [k \in Conns |-> IF k = c THEN Idle
                             ELSE IF k \in cs THEN [conn[k] EXCEPT !.own = FALSE] ELSE conn[k]]

\* Handlers holding the store of vault n.
Unlocking(n) == At({"unlocking", "minting"}, n)

\* The sessions of a vault whose store goes are not ended.
LeftBehind(n) ==
    [t \in Tokens |-> IF sessions[t].vault = n THEN [sessions[t] EXCEPT !.mark = "left"]
                      ELSE sessions[t]]

\* A second writer of the same directory starts: its result is anyone's.
ExcuseOverlap(n) ==
    excused' = IF Writing(n) = {} THEN excused ELSE excused \cup {n}

-----------------------------------------------------------------------------
(* vault.init: the files, then meta.json, then the daemon's entry.         *)

InitFiles(c, n) ==
    /\ disk[n] = "none"
    /\ conn[c].pc = "idle"
    /\ conn' = [k \in Conns |-> IF k = c THEN [pc |-> "initing", name |-> n, to |-> None, own |-> TRUE]
                                ELSE IF k \in Writing(n) THEN [conn[k] EXCEPT !.own = FALSE]
                                ELSE conn[k]]
    /\ disk' = [disk EXCEPT ![n] = "bad"]
    /\ ExcuseOverlap(n)
    /\ UNCHANGED <<vaults, sessions, janitor>>

\* meta.json written by c: its fingerprint is that of the wrapped key c knows.
MetaWritten(c) == IF conn[c].own THEN "good" ELSE "bad"

\* Writing into a directory that has gone is an error.  Any other failure after
\* the key was written removes the three files, whoever wrote them, and leaves
\* the directory; only a rename onto it sees that.
InitMeta(c) ==
    LET n == conn[c].name IN
    /\ conn[c].pc = "initing"
    /\ \/ disk[n] = "none" /\ Return(c) /\ UNCHANGED <<disk, excused>>
       \/ /\ disk[n] # "none" /\ Writing(n) # {c}
          /\ Ends(c, Writing(n))
          /\ disk' = [disk EXCEPT ![n] = "bad"]
          /\ UNCHANGED excused
       \/ /\ disk[n] # "none" /\ Writing(n) = {c}
          /\ Return(c)
          /\ disk' = [disk EXCEPT ![n] = "none"]
          /\ excused' = excused \ {n}
       \/ /\ disk[n] # "none"
          /\ conn' = [conn EXCEPT ![c].pc = "adopting"]
          /\ disk' = [disk EXCEPT ![n] = MetaWritten(c)]
          /\ UNCHANGED excused
    /\ UNCHANGED <<vaults, sessions, janitor>>

\* adoptVault registers the new store, locked, and closes the one it replaces.
AdoptVault(c) ==
    LET n == conn[c].name IN
    /\ conn[c].pc = "adopting"
    /\ vaults' = [vaults EXCEPT ![n] = Opened]
    /\ sessions' = LeftBehind(n)
    /\ Ends(c, Unlocking(n))
    /\ UNCHANGED <<disk, janitor, excused>>

-----------------------------------------------------------------------------
(* vault.unlock: fetch the store, install the key, touch and mint.         *)

UnlockOpen(c, n) ==
    /\ conn[c].pc = "idle"
    /\ OpenVault(n)
    /\ conn' = [conn EXCEPT ![c] = [pc |-> "unlocking", name |-> n, to |-> None, own |-> TRUE]]
    /\ UNCHANGED <<disk, sessions, janitor, excused>>

\* Store.Unlock reads wrapped.key from the directory of its name, and installs
\* the key in the store it was called on, closed or not.
UnlockKey(c) ==
    LET n == conn[c].name IN
    /\ conn[c].pc = "unlocking"
    /\ disk[n] # "none"
    /\ vaults' = IF conn[c].own THEN [vaults EXCEPT ![n].key = TRUE] ELSE vaults
    /\ conn' = [conn EXCEPT ![c].pc = "minting"]
    /\ UNCHANGED <<disk, sessions, janitor, excused>>

UnlockFails(c) ==
    /\ conn[c].pc = "unlocking"
    /\ Return(c)
    /\ UNCHANGED <<disk, vaults, sessions, janitor, excused>>

\* The session remembers whether the store just unlocked is still the vault's
\* ("left" if not) and still has its key ("late" if not).
MintMark(c) ==
    IF vaults[conn[c].name].key THEN "live" ELSE IF conn[c].own THEN "late" ELSE "left"

\* The entry touched is the one held; the session is for the name.
UnlockMint(c) ==
    LET n == conn[c].name IN
    /\ conn[c].pc = "minting"
    /\ vaults' = IF conn[c].own THEN Touched(n) ELSE vaults
    /\ \E t \in Tokens :
         /\ sessions[t] = NoSession /\ \A u \in 1..t - 1 : sessions[u] # NoSession
         /\ sessions' = [sessions EXCEPT ![t] = [vault |-> n, mark |-> MintMark(c)]]
    /\ Return(c)
    /\ UNCHANGED <<disk, janitor, excused>>

-----------------------------------------------------------------------------
(* vault.lock and session.end.                                             *)

EndVault(n) ==
    sessions' = [t \in Tokens |-> IF sessions[t].vault = n THEN NoSession ELSE sessions[t]]

\* A vault that is not open, or already locked, is left alone, its sessions too.
LockKey(c, n) ==
    /\ vaults[n].key
    /\ Begin(c, "ending", n)
    /\ vaults' = [vaults EXCEPT ![n].key = FALSE]
    /\ UNCHANGED <<disk, sessions, janitor, excused>>

\* Mutation: the lock drops the key and forgets the sessions.
LockEndsNothing(c) ==
    /\ conn[c].pc = "ending"
    /\ Return(c)
    /\ UNCHANGED <<disk, vaults, sessions, janitor, excused>>

LockEnds(c) ==
    /\ conn[c].pc = "ending"
    /\ EndVault(conn[c].name)
    /\ Return(c)
    /\ UNCHANGED <<disk, vaults, janitor, excused>>

\* session.end, or the expiry of a session found by validate or sweep.
EndToken(t) ==
    /\ sessions[t] # NoSession
    /\ sessions' = [sessions EXCEPT ![t] = NoSession]
    /\ UNCHANGED <<disk, vaults, conn, janitor, excused>>

-----------------------------------------------------------------------------
(* Requests that only need the store: list, get, put and the like.  They   *)
(* open it, and touch it when they succeed.                                *)

UseVault(n) ==
    /\ OpenVault(n) \/ (vaults[n].open /\ vaults' = Touched(n))
    /\ UNCHANGED <<disk, sessions, conn, janitor, excused>>

-----------------------------------------------------------------------------
(* vault.passwd: ChangePassword rewrites wrapped.key, then meta.json.      *)

\* The old pair is read and verified before anything is written.
PasswdRead(c, n) ==
    /\ OpenVault(n) /\ disk[n] = "good"
    /\ Begin(c, "rekeying", n)
    /\ ExcuseOverlap(n)
    /\ UNCHANGED <<disk, sessions, janitor>>

\* The write replaces the file or leaves it: a failure changes nothing.
PasswdWrap(c) ==
    LET n == conn[c].name IN
    /\ conn[c].pc = "rekeying"
    /\ \/ Return(c) /\ UNCHANGED disk
       \/ /\ disk[n] # "none"
          /\ Moves(c, "rekeyed", Writing(n))
          /\ disk' = [disk EXCEPT ![n] = "bad"]
    /\ UNCHANGED <<vaults, sessions, janitor, excused>>

\* Mutation: meta.json is written back with the old fingerprint.
PasswdMetaOld(c) ==
    /\ conn[c].pc = "rekeyed"
    /\ Return(c)
    /\ UNCHANGED <<disk, vaults, sessions, janitor, excused>>

\* When meta.json cannot be written, the error is returned and nothing undone:
\* wrapped.key stays replaced under the old fingerprint.
PasswdMeta(c) ==
    LET n == conn[c].name IN
    /\ conn[c].pc = "rekeyed"
    /\ \/ /\ disk' = IF disk[n] = "none" THEN disk ELSE [disk EXCEPT ![n] = MetaWritten(c)]
          /\ UNCHANGED excused
       \/ /\ disk[n] # "none"
          /\ excused' = excused \cup {n}
          /\ UNCHANGED disk
    /\ Return(c)
    /\ UNCHANGED <<vaults, sessions, janitor>>

-----------------------------------------------------------------------------
(* vault.rename and vault.delete: evict the store, then move or wipe.      *)

\* Mutation: the entry is deleted from the map and its store never closed.
EvictOnlyDeletes(c, n, p, m) ==
    /\ conn[c].pc = "idle"
    /\ CanOpen(n)
    /\ vaults' = [vaults EXCEPT ![n].open = FALSE]
    /\ sessions' = LeftBehind(n)
    /\ conn' = [k \in Conns |-> IF k = c THEN [pc |-> p, name |-> n, to |-> m, own |-> FALSE]
                                ELSE IF k \in Unlocking(n) THEN [conn[k] EXCEPT !.own = FALSE]
                                ELSE conn[k]]
    /\ UNCHANGED <<disk, janitor, excused>>

\* removeVault, by handler c about to do p; both handlers fetch the store
\* first, so the vault is open or can be opened.  The sessions are left alone.
Evict(c, n, p, m) ==
    /\ conn[c].pc = "idle"
    /\ CanOpen(n)
    /\ vaults' = [vaults EXCEPT ![n] = NoEntry]
    /\ sessions' = LeftBehind(n)
    /\ conn' = [k \in Conns |-> IF k = c THEN [pc |-> p, name |-> n, to |-> m, own |-> FALSE]
                                ELSE IF k \in Unlocking(n) THEN [conn[k] EXCEPT !.own = FALSE]
                                ELSE conn[k]]
    /\ UNCHANGED <<disk, janitor, excused>>

RenameEvict(c, n, m) == Evict(c, n, "moving", m)

\* RenameVault reads meta.json, checked against the wrapped key, ...  It may fail:
\* the read, or an empty directory in the way.
RenameRead(c) ==
    LET n == conn[c].name IN
    /\ conn[c].pc = "moving"
    /\ \/ /\ disk[n] = "good" /\ disk[conn[c].to] = "none"
          /\ Moves(c, "renaming", {})
          /\ ExcuseOverlap(n)
       \/ Return(c) /\ UNCHANGED excused
    /\ UNCHANGED <<disk, vaults, sessions, janitor>>

\* ... writes it back with the new name in it, and moves the directory; either
\* may fail, and a meta.json already written stays.
RenameMove(c) ==
    LET n == conn[c].name
        m == conn[c].to
        shared == n \in excused \/ Writing(n) # {c} \/ Writing(m) # {} IN
    /\ conn[c].pc = "renaming"
    /\ \/ /\ Return(c)
          /\ UNCHANGED <<disk, excused>>
       \/ /\ disk[n] # "none"
          /\ disk' = [disk EXCEPT ![n] = MetaWritten(c)]
          /\ Return(c)
          /\ UNCHANGED excused
       \/ /\ disk[n] # "none" /\ disk[m] = "none"
          /\ disk' = [disk EXCEPT ![n] = "none", ![m] = MetaWritten(c)]
          /\ excused' = (excused \ {n, m}) \cup (IF shared THEN {m} ELSE {})
          /\ Ends(c, Writing(n) \cup Writing(m))
    /\ UNCHANGED <<vaults, sessions, janitor>>

DeleteEvict(c, n) == Evict(c, n, "wiping", None)

\* Destroy removes whatever directory has the name.
DeleteWipe(c) ==
    LET n == conn[c].name IN
    /\ conn[c].pc = "wiping"
    /\ disk' = [disk EXCEPT ![n] = "none"]
    /\ excused' = excused \ {n}
    /\ Ends(c, Writing(n))
    /\ UNCHANGED <<vaults, sessions, janitor>>

-----------------------------------------------------------------------------
(* The idle janitor, the passing of time, and the daemon itself.           *)

JanitorLock(n) ==
    /\ janitor = None
    /\ vaults[n].key /\ vaults[n].active = "stale"
    /\ vaults' = [vaults EXCEPT ![n].key = FALSE]
    /\ janitor' = n
    /\ UNCHANGED <<disk, sessions, conn, excused>>

JanitorEnds ==
    /\ janitor # None
    /\ EndVault(janitor)
    /\ janitor' = None
    /\ UNCHANGED <<disk, vaults, conn, excused>>

\* idle_timeout has passed since the last touch.
Age(n) ==
    /\ vaults[n].active = "recent"
    /\ vaults' = [vaults EXCEPT ![n].active = "stale"]
    /\ UNCHANGED <<disk, sessions, conn, janitor, excused>>

\* The daemon stops or is killed; only the files stay.
Restart ==
    /\ vaults' = [n \in Names |-> NoEntry]
    /\ sessions' = [t \in Tokens |-> NoSession]
    /\ conn' = [c \in Conns |-> Idle]
    /\ janitor' = None
    /\ excused' = excused \cup {n \in Names : Writing(n) # {}}
    /\ UNCHANGED disk

LInit ==
    /\ disk = [n \in Names |-> "none"]
    /\ vaults = [n \in Names |-> NoEntry]
    /\ sessions = [t \in Tokens |-> NoSession]
    /\ conn = [c \in Conns |-> Idle]
    /\ janitor = None
    /\ excused = {}

\* The steps of a handler that has started.
HandlerStep(c) ==
    \/ InitMeta(c) \/ AdoptVault(c)
    \/ UnlockKey(c) \/ UnlockFails(c) \/ UnlockMint(c)
    \/ LockEnds(c)
    \/ PasswdWrap(c) \/ PasswdMeta(c)
    \/ RenameRead(c) \/ RenameMove(c) \/ DeleteWipe(c)

LNext ==
    \/ \E c \in Conns, n \in Names :
          \/ InitFiles(c, n) \/ UnlockOpen(c, n) \/ LockKey(c, n) \/ PasswdRead(c, n)
          \/ DeleteEvict(c, n)
          \/ \E m \in Names \ {n} : RenameEvict(c, n, m)
    \/ \E c \in Conns : HandlerStep(c)
    \/ \E n \in Names : UseVault(n) \/ Age(n) \/ JanitorLock(n)
    \/ JanitorEnds
    \/ \E t \in Tokens : EndToken(t)
    \/ Restart

LSpec == LInit /\ [][LNext]_lvars

-----------------------------------------------------------------------------
(* Properties.                                                             *)

Entries ==
    {e \in [open : BOOLEAN, key : BOOLEAN, active : {"never", "recent", "stale"}] :
        e.open \/ (~e.key /\ e.active = "never")}
Handlers ==
    {h \in [pc : {"idle", "initing", "adopting", "unlocking", "minting", "ending",
                  "rekeying", "rekeyed", "moving", "renaming", "wiping"},
            name : Names \cup {None}, to : Names \cup {None}, own : BOOLEAN] :
        /\ h.pc = "idle" <=> h.name = None
        /\ h.pc \in {"moving", "renaming"} => h.to \in Names}
Sessions == [vault : Names \cup {None}, mark : {"none", "live", "late", "left"}]

\* What the daemon keeps of its vaults, sessions and handlers has its type,
\* only an open store has a key, and only a running handler works on a vault.
VaultTypeOK ==
    /\ disk \in [Names -> {"none", "good", "bad"}]
    /\ vaults \in [Names -> Entries]
    /\ sessions \in [Tokens -> Sessions]
    /\ conn \in [Conns -> Handlers]
    /\ janitor \in Names \cup {None}
    /\ excused \subseteq Names

\* Someone is on the way to end the sessions of vault n.
Ending(n) == janitor = n \/ At({"ending"}, n) # {}

\* An unlock session exists only while its vault's key is in memory, or while
\* the lock that dropped the key is on its way to ending the sessions
\* (handleVaultLock, lockIdleVaults), with two exact exceptions: a session
\* minted by an unlock that a lock overtook ("late"), and one whose vault was
\* renamed, deleted or replaced under it ("left").
SessionsFollowTheKey ==
    \A t \in Tokens, n \in Names :
        sessions[t].vault = n /\ sessions[t].mark = "live" => vaults[n].key \/ Ending(n)

\* A vault refuses to open for a fingerprint mismatch only while one handler is
\* part way through writing its files, or if two handlers wrote them at once, one
\* died part way, or a passwd reported an error after replacing wrapped.key:
\* every other end of init, passwd and rename, the failed ones too, leaves on
\* its own a directory that opens or none.
MismatchHasACause ==
    \A n \in Names : disk[n] # "bad" \/ Writing(n) # {} \/ n \in excused

\* What docs/portal.md says of locking: `byn lock` clears every session of the
\* vault.  It is false: an unlock that has installed the key and not yet minted
\* its session when the lock runs mints it afterwards, for a locked vault, and
\* a second `byn lock` finds the vault locked and ends nothing.
LockEndsSessions ==
    \A t \in Tokens, n \in Names :
        sessions[t].vault = n /\ sessions[t].mark \in {"live", "late"} => vaults[n].key \/ Ending(n)

\* What Destroy and RenameVault demand of their callers: no Store of the vault
\* is open when its directory is wiped or moved.  It is false: removeVault
\* evicts the store and any request that arrives before Destroy opens it again.
EvictedBeforeMove ==
    \A c \in Conns : conn[c].pc \in {"wiping", "moving", "renaming"} /\ disk[conn[c].name] # "none"
                        => ~vaults[conn[c].name].open
=============================================================================
