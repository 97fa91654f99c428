----------------------------- MODULE AuditChain -----------------------------
(***************************************************************************)
(* The audit log of one vault (internal/audit): an append-only file of     *)
(* lines, each carrying an HMAC over the previous HMAC and its event, and  *)
(* the head of the chain kept in the vault's database and in memory.       *)
(*                                                                         *)
(* Every event carries a fresh timestamp, so its HMAC is unique: it is     *)
(* modelled as the event's number, and "the HMAC of e after p" as the pair *)
(* of e and the number p it was computed from.  Append holds the logger's  *)
(* mutex throughout; its steps are separate because a step may fail or the *)
(* process may stop between them.  Monthly files are one sequence of       *)
(* lines; a new month only means that the next line starts a new file.     *)
(***************************************************************************)
EXTENDS Integers, Sequences, FiniteSets

CONSTANTS
    MaxEvents,   \* bound of the model: appends attempted
    MayTear      \* whether a write may stop part way through a line

ASSUME AuditAssumption == MaxEvents \in Nat /\ MayTear \in BOOLEAN

VARIABLES
    lines,     \* the lines on disk, oldest first
    torn,      \* the last line has no newline: the next write continues it
    head,      \* meta(audit_chain_head), 0 when empty
    prevHex,   \* Logger.prevHex
    pc,        \* closed, idle, or written: the line is on disk, the head is not
    next,      \* number of the next event
    done       \* history: events whose Append returned success

avars == <<lines, torn, head, prevHex, pc, next, done>>

NoMarker == [observed |-> 0, expected |-> 0]

(***************************************************************************)
(* A line.  `id' is its HMAC, `prev' the HMAC it was computed from,        *)
(* `marker' a reseal marker or NoMarker.  `failed' is history: the Append  *)
(* that wrote the line returned an error.                                  *)
(***************************************************************************)
Marker == [observed : Nat, expected : Nat]

Line == [id : Nat, prev : Nat, readable : BOOLEAN, failed : BOOLEAN, marker : Marker]

Garbled == [id |-> 0, prev |-> 0, readable |-> FALSE, failed |-> TRUE,
            marker |-> NoMarker]

NewLine(m) == [id |-> next, prev |-> prevHex, readable |-> TRUE,
               failed |-> FALSE, marker |-> m]

Indices == 1..Len(lines)

-----------------------------------------------------------------------------
(* Verification: walkChainLocked.  The walk carries the recorded HMAC of   *)
(* the line before, so each line is judged against its neighbour.          *)

PrevId(k) == IF k = 1 THEN 0 ELSE lines[k - 1].id

Break(k) == lines[k].prev # PrevId(k)

\* The markers of a head; the last one in the file wins (ackByObserved).
MarkersOf(h) == {j \in Indices : lines[j].readable /\ lines[j].marker # NoMarker
                                 /\ lines[j].marker.observed = h}

\* Mutation: only the latest marker of the whole log is honoured.
AcknowledgedByLatest(k) ==
    \E j \in MarkersOf(lines[k].id) :
        /\ \A i \in Indices : lines[i].readable /\ lines[i].marker # NoMarker => i <= j
        /\ lines[j].marker.expected = PrevId(k)

Acknowledged(k) ==
    \E j \in MarkersOf(lines[k].id) :
        /\ \A i \in MarkersOf(lines[k].id) : i <= j
        /\ lines[j].marker.expected = PrevId(k)

Bad(k) == ~lines[k].readable \/ (Break(k) /\ ~Acknowledged(k))

\* VerifyChain reports the first of these, or that the chain is intact.
FirstBad(k) == k \in Indices /\ Bad(k) /\ \A j \in Indices : Bad(j) => k <= j

\* lastDiskHead: the last line that parses.
LastReadable(k) ==
    k \in Indices /\ lines[k].readable /\ \A j \in Indices : lines[j].readable => j <= k

-----------------------------------------------------------------------------
(* appendLocked.                                                           *)

\* A write that follows a torn line in the same file continues it, and the
\* line it ends up in no longer parses.
Extended(l, newFile) ==
    IF torn /\ ~newFile THEN [lines EXCEPT ![Len(lines)] = Garbled]
    ELSE Append(lines, l)

CanAppend == pc = "idle" /\ next <= MaxEvents

WriteLine(m, newFile) ==
    /\ CanAppend
    /\ lines' = Extended(NewLine(m), newFile)
    /\ torn' = FALSE
    /\ pc' = "written"
    /\ next' = next + 1
    /\ UNCHANGED <<head, prevHex, done>>

\* The write stops part way: a fragment, or the whole event without its newline.
WriteTears(m, newFile) ==
    /\ MayTear /\ CanAppend
    /\ \E whole \in BOOLEAN :
          lines' = Extended([NewLine(m) EXCEPT !.readable = whole, !.failed = TRUE], newFile)
    /\ torn' = TRUE
    /\ next' = next + 1
    /\ UNCHANGED <<head, prevHex, pc, done>>

\* Mutation: the event is recorded under the next event's number.
StoreHeadAhead ==
    /\ pc = "written"
    /\ head' = next
    /\ prevHex' = next
    /\ pc' = "idle"
    /\ done' = done \cup {next}
    /\ UNCHANGED <<lines, torn, next>>

StoreHead ==
    /\ pc = "written"
    /\ head' = next - 1
    /\ prevHex' = next - 1
    /\ pc' = "idle"
    /\ done' = done \cup {next - 1}
    /\ UNCHANGED <<lines, torn, next>>

\* Sync or MetaSet fails (a context cancelled by shutdown): Append returns an
\* error, which auditEmit drops, with the line on disk and the old head kept.
LateFailure ==
    /\ pc = "written"
    /\ lines' = [lines EXCEPT ![Len(lines)].failed = TRUE]
    /\ pc' = "idle"
    /\ UNCHANGED <<torn, head, prevHex, next, done>>

EmitEvent == \E newFile \in BOOLEAN : WriteLine(NoMarker, newFile) \/ WriteTears(NoMarker, newFile)

\* Mutation: the marker swaps the two heads.
ResealMarkerSwapped(k) == [observed |-> PrevId(k), expected |-> lines[k].id]

\* Reseal: acknowledge the first break; a line that does not parse is an error.
ResealMarker(k) == [observed |-> lines[k].id, expected |-> PrevId(k)]

Reseal ==
    \E k \in Indices, newFile \in BOOLEAN :
        /\ FirstBad(k) /\ lines[k].readable
        /\ WriteLine(ResealMarker(k), newFile) \/ WriteTears(ResealMarker(k), newFile)

-----------------------------------------------------------------------------
Crash ==
    /\ pc # "closed"
    /\ pc' = "closed"
    /\ prevHex' = 0
    /\ UNCHANGED <<lines, torn, head, next, done>>

\* Mutation: New trusts the database and does not read the log.
OpenTrustsMeta ==
    /\ pc = "closed"
    /\ pc' = "idle"
    /\ prevHex' = head
    /\ UNCHANGED <<lines, torn, head, next, done>>

\* New: the last line that parses is the truth; the database follows it.
Open ==
    /\ pc = "closed"
    /\ pc' = "idle"
    /\ head' = IF \E k \in Indices : LastReadable(k)
                 THEN lines[CHOOSE k \in Indices : LastReadable(k)].id ELSE head
    /\ prevHex' = head'
    /\ UNCHANGED <<lines, torn, next, done>>

AInit ==
    /\ lines = <<>> /\ torn = FALSE
    /\ head = 0 /\ prevHex = 0
    /\ pc = "closed"
    /\ next = 1
    /\ done = {}

ANext == EmitEvent \/ Reseal \/ StoreHead \/ LateFailure \/ Crash \/ Open

ASpec == AInit /\ [][ANext]_avars

-----------------------------------------------------------------------------
(* Properties.                                                             *)

\* Type correctness of the log and its heads.
AuditTypeOK ==
    /\ lines \in Seq(Line)
    /\ torn \in BOOLEAN
    /\ head \in Nat /\ prevHex \in Nat
    /\ pc \in {"closed", "idle", "written"}
    /\ next \in 1..MaxEvents + 1
    /\ done \subseteq 1..MaxEvents

\* A crash never breaks the chain: a readable line that does not continue the
\* line before it follows a line whose Append failed after writing it.  New()
\* repairs the crash between the write and the head; nothing repairs a failure
\* the process survives.
BreaksAreForks ==
    \A k \in Indices :
        /\ \A j \in 1..k : lines[j].readable
        /\ Break(k)
        => k > 1 /\ lines[k - 1].failed

\* What verification has passed it passes for ever: while the last line is
\* complete, no append, failure, crash or reseal makes VerifyChain report an
\* earlier break than it would have.
VerifiedPrefixStays ==
    [][~torn => \A k \in Indices :
          (\A j \in 1..k : ~Bad(j)) => (\A j \in 1..k : ~Bad(j)')]_avars

\* A reseal marker that reaches the disk acknowledges the break it names, and
\* VerifyChain moves past it.
ResealAdvances ==
    [][\A j \in Indices' \ Indices, k \in Indices :
          FirstBad(k) /\ lines'[j].readable /\ lines'[j].marker # NoMarker
          => ~Bad(k)']_avars

\* New's comment: it adopts the last line on disk "so the next Append chains
\* correctly", and lastDiskHead skips "a torn trailing line a partial write may
\* have left".  So an event whose Append returned success is on disk, readable.
AppendedIsReadable ==
    \A e \in done : \E k \in Indices : lines[k].readable /\ lines[k].id = e
=============================================================================
