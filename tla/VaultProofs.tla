---------------------------- MODULE VaultProofs ----------------------------
(***************************************************************************)
(* Proofs about a vault: its audit log, its directory and its entries.     *)
(*                                                                         *)
(* AuditChain, for any number of events and any pattern of torn writes,    *)
(* late failures and crashes: breaks are forks, what has verified stays    *)
(* verified, a reseal advances.                                            *)
(*                                                                         *)
(* VaultLifecycle, for any set of vaults and any number of connections:    *)
(* types, sessions that follow the key, and directories that stop opening  *)
(* only when two writers overlapped, or one failed half way or died.       *)
(*                                                                         *)
(* Entries, for any callers, names and manifests: rows open for what they  *)
(* are called, a grant by scope opens what its scope lists, and a caller   *)
(* that shows nothing is handed values whose claim is its own.             *)
(***************************************************************************)
EXTENDS AuditChain, VaultLifecycle, Entries, SequenceTheorems, TLAPS

-----------------------------------------------------------------------------
(* What an append leaves on disk.                                          *)

\* The line Append builds is well formed.
LEMMA NewLineType ==
    ASSUME AuditTypeOK, NEW m \in Marker,
           NEW whole \in BOOLEAN, NEW f \in BOOLEAN
    PROVE  /\ NewLine(m) \in Line
           /\ [NewLine(m) EXCEPT !.readable = whole, !.failed = f] \in Line
           /\ [NewLine(m) EXCEPT !.readable = whole, !.failed = f].prev = prevHex
<1>1. next \in Nat /\ prevHex \in Nat
  BY AuditAssumption DEF AuditTypeOK
<1>2. NewLine(m) \in Line /\ NewLine(m).prev = prevHex
  BY <1>1, Zenon DEF NewLine, Line
<1> QED
  BY <1>2, Zenon DEF Line

\* A marker names HMACs of the log.
LEMMA MarkerType ==
    ASSUME AuditTypeOK, NEW k \in Indices
    PROVE  ResealMarker(k) \in Marker
<1>1. \A j \in Indices : lines[j].id \in Nat
  <2>1. \A j \in Indices : lines[j] \in Line
    BY DEF AuditTypeOK, Indices
  <2> QED
    BY <2>1, Zenon DEF Line
<1>2. PrevId(k) \in Nat
  BY <1>1 DEF PrevId, Indices
<1> QED
  BY <1>1, <1>2 DEF ResealMarker, Marker

\* An unmarked event carries the empty marker.
LEMMA NoMarkerType == NoMarker \in Marker
BY DEF NoMarker, Marker

\* Rewriting one line touches no other.
LEMMA OneLine ==
    ASSUME lines \in Seq(Line), NEW n \in 1..Len(lines), NEW l \in Line
    PROVE  /\ [lines EXCEPT ![n] = l] \in Seq(Line)
           /\ Len([lines EXCEPT ![n] = l]) = Len(lines)
           /\ [lines EXCEPT ![n] = l][n] = l
           /\ \A j \in 1..Len(lines) : j # n => [lines EXCEPT ![n] = l][j] = lines[j]
BY ExceptSeq

\* A write either starts a line or spoils the torn one; it touches no other.
LEMMA ExtendedShape ==
    ASSUME AuditTypeOK, NEW l \in Line, NEW newFile \in BOOLEAN,
           torn => lines # <<>>
    PROVE  /\ Extended(l, newFile) \in Seq(Line)
           /\ \/ /\ Len(Extended(l, newFile)) = Len(lines) + 1
                 /\ Extended(l, newFile)[Len(lines) + 1] = l
                 /\ \A j \in Indices : Extended(l, newFile)[j] = lines[j]
              \/ /\ Len(Extended(l, newFile)) = Len(lines)
                 /\ Len(lines) \in Indices
                 /\ ~Extended(l, newFile)[Len(lines)].readable
                 /\ \A j \in Indices : j # Len(lines) => Extended(l, newFile)[j] = lines[j]
<1>1. lines \in Seq(Line) /\ Len(lines) \in Nat
  BY DEF AuditTypeOK
<1>2. Garbled \in Line /\ ~Garbled.readable
  BY NoMarkerType DEF Garbled, Line
<1>3. CASE torn /\ ~newFile
  <2>1. Len(lines) \in 1..Len(lines)
    BY <1>1, <1>3, EmptySeq
  <2>2. Extended(l, newFile) = [lines EXCEPT ![Len(lines)] = Garbled]
    BY <1>3 DEF Extended
  <2> QED
    BY <1>1, <1>2, <2>1, <2>2, ExceptSeq DEF Indices
<1>4. CASE ~(torn /\ ~newFile)
  BY <1>1, <1>4 DEF Extended, Indices
<1> QED
  BY <1>3, <1>4

-----------------------------------------------------------------------------
(* The inductive invariant.                                                *)

\* Only a line that exists can be torn or half-recorded, and an empty log has
\* no head.
EmptyLog ==
    /\ torn \/ pc = "written" => lines # <<>> /\ next > 1
    /\ lines = <<>> => head = 0 /\ prevHex = 0

\* While the logger is open and the whole log reads, the head it will chain on
\* is the last line's, unless the Append of that line failed.
HeadFollowsDisk ==
    pc = "idle" /\ lines # <<>> /\ (\A j \in Indices : lines[j].readable)
    => prevHex = lines[Len(lines)].id \/ lines[Len(lines)].failed

\* The line being recorded is the last one.
WrittenIsLast ==
    pc = "written" /\ lines[Len(lines)].readable => lines[Len(lines)].id = next - 1

ChainInv == AuditTypeOK /\ EmptyLog /\ HeadFollowsDisk /\ WrittenIsLast /\ BreaksAreForks

\* A write, whole or torn, keeps the invariant's parts that speak of disk.
LEMMA WriteKeeps ==
    ASSUME ChainInv, pc = "idle", NEW l \in Line, l.prev = prevHex,
           NEW newFile \in BOOLEAN, lines' = Extended(l, newFile)
    PROVE  /\ lines' \in Seq(Line) /\ lines' # <<>>
           /\ BreaksAreForks'
           /\ lines'[Len(lines')].readable => lines'[Len(lines')] = l
<1>1. AuditTypeOK /\ (torn => lines # <<>>) /\ Len(lines) \in Nat
  BY DEF ChainInv, EmptyLog, AuditTypeOK
<1>2. CASE /\ lines' \in Seq(Line)
           /\ Len(lines') = Len(lines) + 1
           /\ lines'[Len(lines) + 1] = l
           /\ \A j \in Indices : lines'[j] = lines[j]
  <2>1. ASSUME NEW k \in Indices', \A j \in 1..k : lines'[j].readable, Break(k)'
        PROVE  k > 1 /\ lines'[k - 1].failed
    <3>1. CASE k \in Indices
      <4>1. \A j \in 1..k : j \in Indices /\ lines'[j] = lines[j]
        BY <1>1, <1>2, <3>1 DEF Indices
      <4>2. Break(k)
        BY <1>1, <2>1, <3>1, <4>1 DEF Break, PrevId, Indices
      <4>3. k > 1 /\ lines[k - 1].failed
        BY <2>1, <3>1, <4>1, <4>2 DEF ChainInv, BreaksAreForks
      <4> QED
        BY <1>1, <1>2, <3>1, <4>3 DEF Indices
    <3>2. CASE k \notin Indices
      <4>1. k = Len(lines) + 1
        BY <1>1, <1>2, <3>2 DEF Indices
      <4>2. lines'[k].prev = prevHex
        BY <1>2, <4>1
      <4>3. CASE lines = <<>>
        <5>1. k = 1 /\ prevHex = 0
          BY <4>1, <4>3 DEF ChainInv, EmptyLog
        <5> QED
          BY <2>1, <4>2, <5>1 DEF Break, PrevId
      <4>4. CASE lines # <<>>
        <5>1. Len(lines) \in Indices
          BY <1>1, <4>4, EmptySeq DEF AuditTypeOK, Indices
        <5>2. \A j \in Indices : lines[j].readable
          BY <1>1, <1>2, <2>1, <4>1 DEF Indices
        <5>3. prevHex # lines[Len(lines)].id
          BY <1>1, <1>2, <2>1, <4>1, <4>2, <5>1 DEF Break, PrevId, Indices
        <5>4. lines[Len(lines)].failed
          BY <4>4, <5>2, <5>3 DEF ChainInv, HeadFollowsDisk
        <5> QED
          BY <1>1, <1>2, <4>1, <5>1, <5>4 DEF Indices
      <4> QED
        BY <4>3, <4>4
    <3> QED
      BY <3>1, <3>2
  <2>2. lines' # <<>>
    BY <1>1, <1>2
  <2> QED
    BY <1>2, <2>1, <2>2 DEF BreaksAreForks
<1>3. CASE /\ lines' \in Seq(Line)
           /\ Len(lines') = Len(lines)
           /\ Len(lines) \in Indices
           /\ ~lines'[Len(lines)].readable
           /\ \A j \in Indices : j # Len(lines) => lines'[j] = lines[j]
  <2>1. ASSUME NEW k \in Indices', \A j \in 1..k : lines'[j].readable, Break(k)'
        PROVE  k > 1 /\ lines'[k - 1].failed
    <3>1. k \in Indices /\ k # Len(lines)
      BY <1>1, <1>3, <2>1 DEF Indices
    <3>2. \A j \in 1..k : j \in Indices /\ lines'[j] = lines[j]
      BY <1>1, <1>3, <3>1 DEF Indices
    <3>3. Break(k)
      BY <1>1, <2>1, <3>1, <3>2 DEF Break, PrevId, Indices
    <3>4. k > 1 /\ lines[k - 1].failed
      BY <2>1, <3>1, <3>2, <3>3 DEF ChainInv, BreaksAreForks
    <3> QED
      BY <1>1, <3>1, <3>2, <3>4 DEF Indices
  <2>2. lines' # <<>>
    BY <1>1, <1>3 DEF Indices
  <2> QED
    BY <1>3, <2>1, <2>2 DEF BreaksAreForks
<1> QED
  BY <1>1, <1>2, <1>3, ExtendedShape

\* Append's write keeps the invariant.
LEMMA WriteLineKeeps ==
    ASSUME ChainInv, NEW m \in Marker,
           NEW newFile \in BOOLEAN, WriteLine(m, newFile)
    PROVE  ChainInv'
<1>1. AuditTypeOK /\ pc = "idle" /\ lines' = Extended(NewLine(m), newFile)
  BY DEF ChainInv, WriteLine, CanAppend
<1>2. NewLine(m) \in Line /\ NewLine(m).prev = prevHex /\ NewLine(m).id = next
  BY <1>1, NewLineType DEF NewLine
<1>3. /\ lines' \in Seq(Line) /\ lines' # <<>> /\ BreaksAreForks'
      /\ lines'[Len(lines')].readable => lines'[Len(lines')] = NewLine(m)
  BY <1>1, <1>2, WriteKeeps
<1>4. next \in Nat \ {0} /\ next' = next + 1 /\ next' \in 1..MaxEvents + 1
  BY <1>1, AuditAssumption DEF AuditTypeOK, WriteLine, CanAppend
<1>5. AuditTypeOK'
  BY <1>1, <1>3, <1>4 DEF AuditTypeOK, WriteLine
<1>6. WrittenIsLast'
  <2>1. next' - 1 = next
    BY <1>4
  <2> QED
    BY <1>2, <1>3, <2>1 DEF WrittenIsLast
<1>7. HeadFollowsDisk' /\ EmptyLog'
  BY <1>3, <1>4 DEF WriteLine, HeadFollowsDisk, EmptyLog
<1> QED
  BY <1>3, <1>5, <1>6, <1>7 DEF ChainInv

\* A torn write keeps the invariant: the line it leaves counts as failed.
LEMMA WriteTearsKeeps ==
    ASSUME ChainInv, NEW m \in Marker,
           NEW newFile \in BOOLEAN, WriteTears(m, newFile)
    PROVE  ChainInv'
<1>0. AuditTypeOK /\ pc = "idle" /\ pc' = "idle"
  BY DEF ChainInv, WriteTears, CanAppend
<1>1. PICK whole \in BOOLEAN :
         lines' = Extended([NewLine(m) EXCEPT !.readable = whole, !.failed = TRUE], newFile)
  BY DEF WriteTears
<1> DEFINE l == [NewLine(m) EXCEPT !.readable = whole, !.failed = TRUE]
<1>2. l \in Line /\ l.prev = prevHex /\ l.failed
  <2>1. l \in Line /\ l.prev = prevHex /\ NewLine(m) \in Line
    BY <1>0, NewLineType
  <2> QED
    BY <2>1, Zenon DEF Line
<1> HIDE DEF l
<1>3. /\ lines' \in Seq(Line) /\ lines' # <<>> /\ BreaksAreForks'
      /\ lines'[Len(lines')].readable => lines'[Len(lines')] = l
  BY <1>0, <1>1, <1>2, WriteKeeps DEF l
<1>4. next \in Nat \ {0} /\ next' = next + 1 /\ next' \in 1..MaxEvents + 1
  BY <1>0, AuditAssumption DEF AuditTypeOK, WriteTears, CanAppend
<1>8. AuditTypeOK'
  BY <1>0, <1>3, <1>4 DEF AuditTypeOK, WriteTears
<1>5. Len(lines') \in Indices'
  BY <1>3, EmptySeq DEF Indices
<1>6. HeadFollowsDisk'
  BY <1>2, <1>3, <1>5 DEF HeadFollowsDisk
<1>7. WrittenIsLast' /\ EmptyLog'
  BY <1>0, <1>3, <1>4 DEF WrittenIsLast, EmptyLog
<1> QED
  BY <1>3, <1>6, <1>7, <1>8 DEF ChainInv

\* Every step keeps the invariant.
LEMMA ChainStep ==
    ASSUME ChainInv, [ANext]_avars
    PROVE  ChainInv'
<1>0. AuditTypeOK /\ lines \in Seq(Line) /\ Len(lines) \in Nat
  BY DEF ChainInv, AuditTypeOK
<1>1. CASE EmitEvent
  BY <1>1, NoMarkerType, WriteLineKeeps, WriteTearsKeeps DEF EmitEvent
<1>2. CASE Reseal
  BY <1>0, <1>2, MarkerType, WriteLineKeeps, WriteTearsKeeps DEF Reseal
<1>3. CASE StoreHead
  <2>1. lines' = lines /\ torn' = torn /\ next' = next /\ pc = "written" /\ pc' = "idle"
        /\ prevHex' = next - 1 /\ lines # <<>>
    BY <1>3 DEF StoreHead, ChainInv, EmptyLog
  <2>2. Len(lines) \in Indices
    BY <1>0, <2>1, EmptySeq DEF Indices
  <2>3. HeadFollowsDisk'
    BY <2>1, <2>2 DEF HeadFollowsDisk, WrittenIsLast, ChainInv, Indices
  <2>4. AuditTypeOK'
    <3>1. next - 1 \in 1..MaxEvents /\ next - 1 \in Nat
      BY <1>0, <2>1, AuditAssumption DEF AuditTypeOK, ChainInv, EmptyLog
    <3> QED
      BY <1>0, <1>3, <3>1 DEF StoreHead, AuditTypeOK
  <2>5. EmptyLog' /\ WrittenIsLast' /\ BreaksAreForks'
    BY <2>1 DEF EmptyLog, WrittenIsLast, ChainInv, BreaksAreForks, Indices, Break, PrevId
  <2> QED
    BY <2>3, <2>4, <2>5 DEF ChainInv
<1>4. CASE LateFailure
  <2> DEFINE n == Len(lines)
  <2>1. n \in Indices /\ pc' = "idle" /\ next > 1 /\ next' = next
    BY <1>0, <1>4, EmptySeq DEF LateFailure, ChainInv, EmptyLog, Indices
  <2>2. lines' = [lines EXCEPT ![n] = [lines[n] EXCEPT !.failed = TRUE]]
    BY <1>4 DEF LateFailure
  <2>3. lines[n] \in Line /\ [lines[n] EXCEPT !.failed = TRUE] \in Line
    <3>1. lines[n] \in Line
      BY <1>0, <2>1 DEF Indices
    <3> QED
      BY <3>1, Zenon DEF Line
  <2>4. /\ lines' \in Seq(Line) /\ Len(lines') = n
        /\ lines'[n] = [lines[n] EXCEPT !.failed = TRUE]
        /\ \A j \in Indices : j # n => lines'[j] = lines[j]
    <3> DEFINE l == [lines[n] EXCEPT !.failed = TRUE]
    <3>1. l \in Line /\ n \in 1..Len(lines) /\ lines' = [lines EXCEPT ![n] = l]
      BY <2>1, <2>2, <2>3 DEF Indices
    <3> HIDE DEF l
    <3>2. /\ [lines EXCEPT ![n] = l] \in Seq(Line)
          /\ Len([lines EXCEPT ![n] = l]) = Len(lines)
          /\ [lines EXCEPT ![n] = l][n] = l
          /\ \A j \in 1..Len(lines) : j # n => [lines EXCEPT ![n] = l][j] = lines[j]
      BY <1>0, <3>1, OneLine
    <3> QED
      BY <3>1, <3>2 DEF Indices, l
  <2>5. \A j \in Indices : /\ lines'[j].id = lines[j].id /\ lines'[j].prev = lines[j].prev
                           /\ lines'[j].readable = lines[j].readable
                           /\ lines[j].failed => lines'[j].failed
    <3>1. /\ [lines[n] EXCEPT !.failed = TRUE].id = lines[n].id
          /\ [lines[n] EXCEPT !.failed = TRUE].prev = lines[n].prev
          /\ [lines[n] EXCEPT !.failed = TRUE].readable = lines[n].readable
          /\ [lines[n] EXCEPT !.failed = TRUE].failed
      BY <2>3, Zenon DEF Line
    <3> QED
      BY <2>4, <3>1
  <2>6. BreaksAreForks'
    <3> SUFFICES ASSUME NEW k \in Indices', \A j \in 1..k : lines'[j].readable, Break(k)'
                 PROVE  k > 1 /\ lines'[k - 1].failed
      BY DEF BreaksAreForks
    <3>1. k \in Indices /\ \A j \in 1..k : j \in Indices
      BY <1>0, <2>4 DEF Indices
    <3>2. Break(k) /\ \A j \in 1..k : lines[j].readable
      BY <1>0, <2>5, <3>1 DEF Break, PrevId, Indices
    <3>3. k > 1 /\ lines[k - 1].failed
      BY <3>1, <3>2 DEF ChainInv, BreaksAreForks
    <3> QED
      BY <2>5, <3>1, <3>3 DEF Indices
  <2>7. lines'[n].failed /\ lines' # <<>>
    <3>1. [lines[n] EXCEPT !.failed = TRUE].failed
      BY <2>3, Zenon DEF Line
    <3> QED
      BY <1>0, <2>1, <2>4, <3>1 DEF Indices
  <2>8. AuditTypeOK'
    BY <1>0, <1>4, <2>4 DEF LateFailure, AuditTypeOK
  <2>9. HeadFollowsDisk' /\ EmptyLog' /\ WrittenIsLast'
    BY <2>1, <2>4, <2>7 DEF HeadFollowsDisk, EmptyLog, WrittenIsLast
  <2> QED
    BY <2>6, <2>8, <2>9 DEF ChainInv
<1>5. CASE Crash
  BY <1>0, <1>5
  DEF Crash, ChainInv, AuditTypeOK, EmptyLog, HeadFollowsDisk, WrittenIsLast,
      BreaksAreForks, Indices, Break, PrevId
<1>6. CASE Open
  <2>1. /\ lines' = lines /\ torn' = torn /\ next' = next
        /\ pc = "closed" /\ pc' = "idle" /\ prevHex' = head'
    BY <1>6 DEF Open
  <2>2. ASSUME lines # <<>>, \A j \in Indices : lines[j].readable
        PROVE  head' = lines[Len(lines)].id
    <3>1. Len(lines) \in Indices
      BY <1>0, <2>2, EmptySeq DEF Indices
    <3>2. \A k \in Indices : LastReadable(k) <=> k = Len(lines)
      BY <1>0, <2>2, <3>1 DEF LastReadable, Indices
    <3>3. (CHOOSE k \in Indices : LastReadable(k)) = Len(lines)
      BY <3>1, <3>2
    <3> QED
      BY <1>6, <3>1, <3>2, <3>3 DEF Open
  <2>3. head' \in Nat
    <3>1. CASE \E k \in Indices : LastReadable(k)
      <4>1. (CHOOSE k \in Indices : LastReadable(k)) \in Indices
        BY <3>1
      <4>2. \A k \in Indices : lines[k] \in Line
        BY <1>0 DEF Indices
      <4>3. \A k \in Indices : lines[k].id \in Nat
        BY <4>2, Zenon DEF Line
      <4> QED
        BY <1>6, <3>1, <4>1, <4>3 DEF Open
    <3>2. CASE ~\E k \in Indices : LastReadable(k)
      BY <1>0, <1>6, <3>2 DEF Open, AuditTypeOK
    <3> QED
      BY <3>1, <3>2
  <2>4. lines = <<>> => head' = 0
    BY <1>6 DEF Open, Indices, ChainInv, EmptyLog
  <2>5. HeadFollowsDisk'
    BY <2>1, <2>2 DEF HeadFollowsDisk, Indices
  <2>6. AuditTypeOK'
    BY <1>0, <1>6, <2>1, <2>3 DEF Open, AuditTypeOK
  <2>7. EmptyLog' /\ WrittenIsLast' /\ BreaksAreForks'
    BY <2>1, <2>4
    DEF EmptyLog, WrittenIsLast, ChainInv, BreaksAreForks, Indices, Break, PrevId
  <2> QED
    BY <2>5, <2>6, <2>7 DEF ChainInv
<1>7. CASE UNCHANGED avars
  BY <1>7
  DEF avars, ChainInv, AuditTypeOK, EmptyLog, HeadFollowsDisk, WrittenIsLast,
      BreaksAreForks, Indices, Break, PrevId
<1> QED
  BY <1>1, <1>2, <1>3, <1>4, <1>5, <1>6, <1>7 DEF ANext

\* The invariant holds throughout.
LEMMA ChainInvariant == ASpec => []ChainInv
<1>1. AInit => ChainInv
  <2> SUFFICES ASSUME AInit PROVE ChainInv
    OBVIOUS
  <2>1. AuditTypeOK
    <3>1. lines \in Seq(Line) /\ torn \in BOOLEAN /\ done \subseteq 1..MaxEvents
      BY EmptySeq, Zenon DEF AInit
    <3>2. next \in 1..MaxEvents + 1 /\ head \in Nat /\ prevHex \in Nat
      BY AuditAssumption DEF AInit
    <3> QED
      BY <3>1, <3>2 DEF AInit, AuditTypeOK
  <2>2. EmptyLog /\ HeadFollowsDisk /\ WrittenIsLast
    BY DEF AInit, EmptyLog, HeadFollowsDisk, WrittenIsLast
  <2>3. BreaksAreForks
    BY DEF AInit, BreaksAreForks, Indices
  <2> QED
    BY <2>1, <2>2, <2>3 DEF ChainInv
<1>2. ChainInv /\ [ANext]_avars => ChainInv'
  BY ChainStep
<1> QED
  BY <1>1, <1>2, PTL DEF ASpec

\* The log is well formed, and a crash never breaks the chain: every break
\* follows a line whose Append failed after it reached the disk.
THEOREM CrashNeverBreaksTheChain == ASpec => [](AuditTypeOK /\ BreaksAreForks)
<1>1. ChainInv => AuditTypeOK /\ BreaksAreForks
  BY DEF ChainInv
<1> QED
  BY <1>1, ChainInvariant, PTL

-----------------------------------------------------------------------------
(* What a step does to the lines already on disk.                          *)

\* Everything VerifyChain reads of the lines is as it was.
SameLog ==
    /\ Len(lines') = Len(lines)
    /\ \A j \in Indices :
          /\ lines'[j].id = lines[j].id /\ lines'[j].prev = lines[j].prev
          /\ lines'[j].readable = lines[j].readable
          /\ lines'[j].marker = lines[j].marker

\* A line carries the marker of an acknowledged first break, or none.
Warranted(m) ==
    \/ m = NoMarker
    \/ \E k \in Indices : FirstBad(k) /\ lines[k].readable /\ m = ResealMarker(k)

\* A write of line l.
Writes(l, newFile) ==
    /\ lines' = Extended(l, newFile) /\ next' = next + 1
    /\ l.id = next /\ Warranted(l.marker)

\* A whole or torn write puts down a line with the event's number and the
\* marker asked for.
LEMMA WritesALine ==
    ASSUME AuditTypeOK, NEW m \in Marker, Warranted(m), NEW newFile \in BOOLEAN,
           WriteLine(m, newFile) \/ WriteTears(m, newFile)
    PROVE  \E l \in Line : Writes(l, newFile)
<1>1. NewLine(m) \in Line /\ NewLine(m).id = next /\ NewLine(m).marker = m
  <2>1. NewLine(m) \in Line
    BY NewLineType
  <2> QED
    BY <2>1, Zenon DEF NewLine
<1>2. CASE WriteLine(m, newFile)
  BY <1>1, <1>2 DEF WriteLine, Writes
<1>3. CASE WriteTears(m, newFile)
  <2>1. PICK whole \in BOOLEAN :
           lines' = Extended([NewLine(m) EXCEPT !.readable = whole, !.failed = TRUE], newFile)
    BY <1>3 DEF WriteTears
  <2> DEFINE l == [NewLine(m) EXCEPT !.readable = whole, !.failed = TRUE]
  <2>2. l \in Line /\ l.id = next /\ l.marker = m
    <3>1. l \in Line
      BY NewLineType
    <3> QED
      BY <1>1, <3>1, Zenon DEF Line
  <2>3. next' = next + 1
    BY <1>3 DEF WriteTears
  <2> HIDE DEF l
  <2>4. Writes(l, newFile)
    BY <2>1, <2>2, <2>3 DEF Writes, l
  <2> QED
    BY <2>2, <2>4
<1> QED
  BY <1>2, <1>3

\* A step writes a line or leaves the log as it is.
LEMMA StepOnDisk ==
    ASSUME ChainInv, ANext
    PROVE  \/ SameLog /\ next' = next
           \/ \E l \in Line, newFile \in BOOLEAN : Writes(l, newFile)
<1>0. AuditTypeOK /\ lines \in Seq(Line) /\ Len(lines) \in Nat
  BY DEF ChainInv, AuditTypeOK
<1>1. CASE EmitEvent
  <2>1. Warranted(NoMarker)
    BY DEF Warranted
  <2> QED
    BY <1>0, <1>1, <2>1, NoMarkerType, WritesALine DEF EmitEvent
<1>2. CASE Reseal
  <2>1. PICK k \in Indices, newFile \in BOOLEAN :
           /\ FirstBad(k) /\ lines[k].readable
           /\ WriteLine(ResealMarker(k), newFile) \/ WriteTears(ResealMarker(k), newFile)
    BY <1>2 DEF Reseal
  <2>2. Warranted(ResealMarker(k)) /\ ResealMarker(k) \in Marker
    BY <1>0, <2>1, MarkerType DEF Warranted
  <2> QED
    BY <1>0, <2>1, <2>2, WritesALine
<1>3. CASE StoreHead \/ Crash \/ Open
  BY <1>3 DEF StoreHead, Crash, Open, SameLog
<1>4. CASE LateFailure
  <2> DEFINE n == Len(lines)
             l == [lines[n] EXCEPT !.failed = TRUE]
  <2>1. n \in 1..Len(lines) /\ next' = next
    BY <1>0, <1>4, EmptySeq DEF LateFailure, ChainInv, EmptyLog
  <2>2. lines[n] \in Line
    BY <1>0, <2>1
  <2>3. /\ l \in Line /\ l.id = lines[n].id /\ l.prev = lines[n].prev
        /\ l.readable = lines[n].readable /\ l.marker = lines[n].marker
    BY <2>2, Zenon DEF Line
  <2>4. lines' = [lines EXCEPT ![n] = l]
    BY <1>4 DEF LateFailure
  <2> HIDE DEF l
  <2>5. /\ Len([lines EXCEPT ![n] = l]) = Len(lines)
        /\ [lines EXCEPT ![n] = l][n] = l
        /\ \A j \in 1..Len(lines) : j # n => [lines EXCEPT ![n] = l][j] = lines[j]
    BY <1>0, <2>1, <2>3, OneLine
  <2>6. SameLog
    BY <2>3, <2>4, <2>5 DEF SameLog, Indices
  <2> QED
    BY <2>1, <2>6
<1> QED
  BY <1>1, <1>2, <1>3, <1>4 DEF ANext

\* Where the log is as it was, VerifyChain judges every line as it did.
LEMMA SameVerdict ==
    ASSUME ChainInv, SameLog, NEW k \in Indices
    PROVE  Bad(k)' <=> Bad(k)
<1>0. lines \in Seq(Line) /\ Len(lines) \in Nat
  BY DEF ChainInv, AuditTypeOK
<1>1. Indices' = Indices
  BY DEF SameLog, Indices
<1>2. PrevId(k)' = PrevId(k)
  BY <1>0 DEF SameLog, Indices, PrevId
<1>3. MarkersOf(lines[k].id)' = MarkersOf(lines[k].id)
  BY <1>1 DEF SameLog, MarkersOf
<1>4. Acknowledged(k)' <=> Acknowledged(k)
  BY <1>1, <1>2, <1>3 DEF Acknowledged, SameLog, MarkersOf
<1> QED
  BY <1>2, <1>4 DEF Bad, Break, SameLog

-----------------------------------------------------------------------------
(* Events are numbered once.                                               *)

\* A readable line carries the number of an event that was attempted, and no
\* two carry the same one: an HMAC names one line.
EventsNumbered ==
    /\ \A j \in Indices : lines[j].readable => lines[j].id < next
    /\ \A i, j \in Indices :
          lines[i].readable /\ lines[j].readable /\ i # j => lines[i].id # lines[j].id

\* Every step numbers its line afresh.
LEMMA NumberedStep ==
    ASSUME ChainInv, EventsNumbered, [ANext]_avars
    PROVE  EventsNumbered'
<1>0. AuditTypeOK /\ lines \in Seq(Line) /\ Len(lines) \in Nat /\ next \in Nat
  BY AuditAssumption DEF ChainInv, AuditTypeOK
<1>1. CASE SameLog /\ next' = next
  BY <1>1 DEF SameLog, EventsNumbered, Indices
<1>2. ASSUME NEW l \in Line, NEW newFile \in BOOLEAN, Writes(l, newFile)
      PROVE  EventsNumbered'
  <2>1. lines' = Extended(l, newFile) /\ next' = next + 1 /\ l.id = next
    BY <1>2 DEF Writes
  <2>2. \A j \in Indices : lines[j].id \in Nat
    <3>1. \A j \in Indices : lines[j] \in Line
      BY <1>0 DEF Indices
    <3> QED
      BY <3>1, Zenon DEF Line
  <2>3. \/ /\ Len(lines') = Len(lines) + 1 /\ lines'[Len(lines) + 1] = l
           /\ \A j \in Indices : lines'[j] = lines[j]
        \/ /\ Len(lines') = Len(lines) /\ ~lines'[Len(lines)].readable
           /\ \A j \in Indices : j # Len(lines) => lines'[j] = lines[j]
    BY <1>0, <2>1, ExtendedShape DEF ChainInv, EmptyLog
  <2>4. \A j \in Indices' : lines'[j].readable =>
           \/ j \in Indices /\ lines'[j] = lines[j] /\ lines'[j].id < next
           \/ j = Len(lines) + 1 /\ lines'[j].id = next
    BY <1>0, <2>1, <2>3 DEF EventsNumbered, Indices
  <2>5. \A j \in Indices' : lines'[j].readable => lines'[j].id < next'
    BY <1>0, <2>1, <2>2, <2>4
  <2>6. \A i, j \in Indices' :
           lines'[i].readable /\ lines'[j].readable /\ i # j => lines'[i].id # lines'[j].id
    BY <1>0, <2>4, <2>2 DEF EventsNumbered
  <2> QED
    BY <2>5, <2>6 DEF EventsNumbered
<1>3. CASE UNCHANGED avars
  BY <1>3 DEF avars, EventsNumbered, Indices
<1> QED
  BY <1>1, <1>2, <1>3, StepOnDisk

\* No two events share an HMAC.
LEMMA NumberedInvariant == ASpec => []EventsNumbered
<1>1. AInit => EventsNumbered
  BY DEF AInit, EventsNumbered, Indices
<1>2. ChainInv /\ EventsNumbered /\ [ANext]_avars => EventsNumbered'
  BY NumberedStep
<1> QED
  BY <1>1, <1>2, ChainInvariant, PTL DEF ASpec

-----------------------------------------------------------------------------
(* What verification has passed it passes for ever.                        *)

\* A line put after a complete one changes no verdict on the lines before,
\* unless it is a marker that names one of them.
LEMMA VerdictBefore ==
    ASSUME ChainInv, NEW l \in Line, Len(lines') = Len(lines) + 1,
           lines'[Len(lines) + 1] = l, \A j \in Indices : lines'[j] = lines[j],
           NEW k \in Indices, l.marker = NoMarker \/ l.marker.observed # lines[k].id
    PROVE  Bad(k)' <=> Bad(k)
<1>0. lines \in Seq(Line) /\ Len(lines) \in Nat
  BY DEF ChainInv, AuditTypeOK
<1>1. Indices' = Indices \cup {Len(lines) + 1} /\ k \in Nat
  BY <1>0 DEF Indices
<1>2. PrevId(k)' = PrevId(k)
  BY <1>0 DEF Indices, PrevId
<1>3. lines'[k] = lines[k]
  OBVIOUS
<1>4. MarkersOf(lines[k].id)' = MarkersOf(lines[k].id)
  BY <1>1, <1>3 DEF MarkersOf
<1>5. Acknowledged(k)' <=> Acknowledged(k)
  BY <1>2, <1>3, <1>4 DEF Acknowledged, MarkersOf
<1> QED
  BY <1>2, <1>3, <1>5 DEF Bad, Break

\* While the last line is complete, no append, failure, crash or reseal makes
\* VerifyChain report an earlier break than it would have.  The case to exclude
\* is a reseal whose marker also speaks of a break acknowledged before, and
\* would replace that acknowledgement: markers name HMACs, and no two lines
\* share one.
THEOREM VerifiedPrefixStaysHolds == ASpec => VerifiedPrefixStays
<1>1. ASSUME ChainInv, EventsNumbered, ANext, ~torn, NEW k \in Indices,
             \A j \in 1..k : ~Bad(j), NEW j \in 1..k
      PROVE  ~Bad(j)'
  <2>0. AuditTypeOK /\ lines \in Seq(Line) /\ Len(lines) \in Nat
    BY <1>1 DEF ChainInv, AuditTypeOK
  <2>1. j \in Indices /\ ~Bad(j) /\ lines[j].readable
    BY <1>1, <2>0 DEF Indices, Bad
  <2>2. CASE SameLog
    BY <1>1, <2>1, <2>2, SameVerdict
  <2>3. ASSUME NEW l \in Line, NEW newFile \in BOOLEAN, Writes(l, newFile)
        PROVE  ~Bad(j)'
    <3>1. /\ Len(lines') = Len(lines) + 1 /\ lines'[Len(lines) + 1] = l
          /\ \A i \in Indices : lines'[i] = lines[i]
      BY <1>1, <2>0, <2>3 DEF Writes, Extended, Indices
    <3>2. l.marker = NoMarker \/ l.marker.observed # lines[j].id
      <4> SUFFICES ASSUME NEW b \in Indices, FirstBad(b), lines[b].readable,
                          l.marker = ResealMarker(b)
                   PROVE  l.marker.observed # lines[j].id
        BY <2>3 DEF Writes, Warranted
      <4>1. b # j
        BY <2>1 DEF FirstBad
      <4> QED
        BY <1>1, <2>1, <4>1 DEF EventsNumbered, ResealMarker
    <3> QED
      BY <1>1, <2>1, <3>1, <3>2, VerdictBefore
  <2> QED
    BY <1>1, <2>2, <2>3, StepOnDisk
<1>2. ChainInv /\ EventsNumbered /\ [ANext]_avars
      => [~torn => \A k \in Indices :
             (\A j \in 1..k : ~Bad(j)) => (\A j \in 1..k : ~Bad(j)')]_avars
  BY <1>1
<1> QED
  BY <1>2, ChainInvariant, NumberedInvariant, PTL DEF ASpec, VerifiedPrefixStays

\* A reseal marker that reaches the disk acknowledges the break it names: it is
\* the last marker in the file, so the one ackByObserved keeps, and it records
\* the head the walk carries when it meets the break.
THEOREM ResealAdvancesHolds == ASpec => ResealAdvances
<1>1. ASSUME ChainInv, ANext, NEW j \in Indices' \ Indices, NEW k \in Indices,
             FirstBad(k), lines'[j].readable, lines'[j].marker # NoMarker
      PROVE  ~Bad(k)'
  <2>0. AuditTypeOK /\ lines \in Seq(Line) /\ Len(lines) \in Nat
    BY <1>1 DEF ChainInv, AuditTypeOK
  <2>1. ~SameLog
    BY <1>1 DEF SameLog, Indices
  <2>2. PICK l \in Line, newFile \in BOOLEAN : Writes(l, newFile)
    BY <1>1, <2>1, StepOnDisk
  <2>3. /\ Len(lines') = Len(lines) + 1 /\ lines'[Len(lines) + 1] = l
        /\ \A i \in Indices : lines'[i] = lines[i]
    <3>1. Len(lines') # Len(lines)
      BY <1>1 DEF Indices
    <3> QED
      BY <1>1, <2>0, <2>2, <3>1, ExtendedShape DEF Writes, ChainInv, EmptyLog
  <2>4. j = Len(lines) + 1 /\ lines'[j] = l
    BY <1>1, <2>0, <2>3 DEF Indices
  <2>5. PICK b \in Indices : FirstBad(b) /\ lines[b].readable /\ l.marker = ResealMarker(b)
    BY <1>1, <2>2, <2>4 DEF Writes, Warranted
  <2>6. b = k
    BY <1>1, <2>0, <2>5 DEF FirstBad, Indices
  <2>7. lines'[k] = lines[k] /\ PrevId(k)' = PrevId(k)
    BY <1>1, <2>0, <2>3 DEF PrevId, Indices
  <2>8. j \in MarkersOf(lines[k].id)' /\ lines'[j].marker.expected = PrevId(k)
    BY <1>1, <2>4, <2>5, <2>6, <2>7 DEF MarkersOf, ResealMarker
  <2>9. \A i \in MarkersOf(lines[k].id)' : i <= j
    BY <2>0, <2>3, <2>4 DEF MarkersOf, Indices
  <2>10. Acknowledged(k)'
    BY <2>7, <2>8, <2>9 DEF Acknowledged, MarkersOf
  <2> QED
    BY <2>5, <2>6, <2>7, <2>10 DEF Bad
<1>2. ChainInv /\ [ANext]_avars
      => [\A j \in Indices' \ Indices, k \in Indices :
             FirstBad(k) /\ lines'[j].readable /\ lines'[j].marker # NoMarker
             => ~Bad(k)']_avars
  BY <1>1
<1> QED
  BY <1>2, ChainInvariant, PTL DEF ASpec, ResealAdvances

-----------------------------------------------------------------------------
(* What an update of a record keeps.                                       *)

LEMMA EntryUpdates ==
    /\ NoEntry \in Entries /\ Opened \in Entries
    /\ ~NoEntry.open /\ ~NoEntry.key /\ NoEntry.active = "never"
    /\ Opened.open /\ ~Opened.key
    /\ \A e \in Entries :
         /\ [e EXCEPT !.key = FALSE] \in Entries
         /\ [e EXCEPT !.key = FALSE].open = e.open
         /\ e.open => [e EXCEPT !.key = TRUE] \in Entries
         /\ [e EXCEPT !.key = TRUE].open = e.open
         /\ e.open => [e EXCEPT !.active = "recent"] \in Entries
         /\ [e EXCEPT !.active = "recent"].open = e.open
         /\ [e EXCEPT !.active = "recent"].key = e.key
         /\ e.active = "recent" => [e EXCEPT !.active = "stale"] \in Entries
         /\ [e EXCEPT !.active = "stale"].open = e.open
         /\ [e EXCEPT !.active = "stale"].key = e.key
         /\ ~e.open => ~e.key
<1>1. /\ NoEntry \in Entries /\ Opened \in Entries
      /\ ~NoEntry.open /\ ~NoEntry.key /\ NoEntry.active = "never"
      /\ Opened.open /\ ~Opened.key
  BY DEF Entries, NoEntry, Opened
<1>2. ASSUME NEW e \in Entries
      PROVE /\ [e EXCEPT !.key = FALSE].open = e.open
            /\ [e EXCEPT !.key = TRUE].open = e.open
            /\ [e EXCEPT !.active = "recent"].open = e.open
            /\ [e EXCEPT !.active = "recent"].key = e.key
            /\ [e EXCEPT !.active = "stale"].open = e.open
            /\ [e EXCEPT !.active = "stale"].key = e.key
  BY DEF Entries
<1>3. ASSUME NEW e \in Entries, e.open
      PROVE /\ [e EXCEPT !.key = FALSE] \in Entries
            /\ [e EXCEPT !.key = TRUE] \in Entries
            /\ [e EXCEPT !.active = "recent"] \in Entries
            /\ [e EXCEPT !.active = "stale"] \in Entries
  BY <1>3 DEF Entries
<1>4. ASSUME NEW e \in Entries, ~e.open
      PROVE [e EXCEPT !.key = FALSE] \in Entries /\ e.active # "recent" /\ ~e.key
  BY <1>4 DEF Entries
<1> QED
  BY <1>1, <1>2, <1>3, <1>4

LEMMA HandlerUpdates ==
    /\ Idle \in Handlers /\ Idle.pc = "idle"
    /\ \A h \in Handlers :
         /\ [h EXCEPT !.own = FALSE] \in Handlers
         /\ h.pc # "idle" => h.name \in Names
         /\ h.pc = "initing" => [h EXCEPT !.pc = "adopting"] \in Handlers
         /\ h.pc = "unlocking" => [h EXCEPT !.pc = "minting"] \in Handlers
         /\ h.pc = "rekeying" => [h EXCEPT !.pc = "rekeyed", !.own = TRUE] \in Handlers
         /\ h.pc = "moving" => [h EXCEPT !.pc = "renaming", !.own = TRUE] \in Handlers
         /\ h.pc = "renaming" => h.to \in Names
    /\ \A n \in Names, b \in BOOLEAN, p \in {"initing", "unlocking", "wiping"} :
          [pc |-> p, name |-> n, to |-> None, own |-> b] \in Handlers
    /\ \A n \in Names, m \in Names :
          [pc |-> "moving", name |-> n, to |-> m, own |-> FALSE] \in Handlers
    /\ \A n \in Names, p \in {"ending", "rekeying"} :
          [Idle EXCEPT !.pc = p, !.name = n] \in Handlers
<1>1. /\ Idle \in Handlers /\ Idle.pc = "idle"
      /\ \A n \in Names, b \in BOOLEAN, p \in {"initing", "unlocking", "wiping"} :
            [pc |-> p, name |-> n, to |-> None, own |-> b] \in Handlers
      /\ \A n \in Names, m \in Names :
            [pc |-> "moving", name |-> n, to |-> m, own |-> FALSE] \in Handlers
      /\ \A n \in Names, p \in {"ending", "rekeying"} :
            [Idle EXCEPT !.pc = p, !.name = n] \in Handlers
  BY LifecycleAssumption DEF Handlers, Idle
<1>2. ASSUME NEW h \in Handlers
      PROVE /\ [h EXCEPT !.own = FALSE] \in Handlers
            /\ h.pc # "idle" => h.name \in Names
            /\ h.pc = "renaming" => h.to \in Names
            /\ h.pc = "initing" => [h EXCEPT !.pc = "adopting"] \in Handlers
            /\ h.pc = "unlocking" => [h EXCEPT !.pc = "minting"] \in Handlers
            /\ h.pc = "rekeying" => [h EXCEPT !.pc = "rekeyed", !.own = TRUE] \in Handlers
            /\ h.pc = "moving" => [h EXCEPT !.pc = "renaming", !.own = TRUE] \in Handlers
  BY LifecycleAssumption DEF Handlers
<1> QED
  BY <1>1, <1>2

-----------------------------------------------------------------------------
(* Types.  A handler that still owns the store it is unlocking holds a      *)
(* store that is open: only eviction and adoption close one, and both end  *)
(* the ownership.                                                          *)

OwnedIsOpen ==
    \A n \in Names : \A c \in Unlocking(n) : conn[c].own => vaults[n].open

TypeInv == VaultTypeOK /\ OwnedIsOpen

LEMMA TypeInit == LInit => TypeInv
<1> SUFFICES ASSUME LInit PROVE TypeInv
  OBVIOUS
<1>1. VaultTypeOK
  BY EntryUpdates, HandlerUpdates DEF LInit, VaultTypeOK, NoSession, Sessions
<1>2. OwnedIsOpen
  BY HandlerUpdates DEF LInit, OwnedIsOpen, Unlocking, At
<1> QED
  BY <1>1, <1>2 DEF TypeInv

LEMMA ConnTyped ==
    ASSUME conn \in [Conns -> Handlers], NEW c \in Conns, NEW cs, NEW p
    PROVE  /\ Return(c) => conn' \in [Conns -> Handlers]
           /\ Ends(c, cs) => conn' \in [Conns -> Handlers]
           /\ [conn[c] EXCEPT !.pc = p, !.own = TRUE] \in Handlers /\ Moves(c, p, cs)
                => conn' \in [Conns -> Handlers]
<1>1. \A k \in Conns : [conn[k] EXCEPT !.own = FALSE] \in Handlers
  BY HandlerUpdates, Zenon
<1>2. Return(c) => conn' \in [Conns -> Handlers]
  BY HandlerUpdates DEF Return
<1>3. ASSUME Ends(c, cs) PROVE conn' \in [Conns -> Handlers]
  <2> SUFFICES ASSUME NEW k \in Conns
               PROVE (IF k = c THEN Idle ELSE IF k \in cs THEN [conn[k] EXCEPT !.own = FALSE]
                      ELSE conn[k]) \in Handlers
    BY <1>3, Zenon DEF Ends
  <2> QED
    BY <1>1, HandlerUpdates
<1>4. ASSUME [conn[c] EXCEPT !.pc = p, !.own = TRUE] \in Handlers, Moves(c, p, cs)
      PROVE conn' \in [Conns -> Handlers]
  <2> SUFFICES ASSUME NEW k \in Conns
               PROVE (IF k = c THEN [conn[k] EXCEPT !.pc = p, !.own = TRUE]
                      ELSE IF k \in cs THEN [conn[k] EXCEPT !.own = FALSE] ELSE conn[k]) \in Handlers
    BY <1>4, Zenon DEF Moves
  <2> QED
    BY <1>1, <1>4
<1> QED
  BY <1>2, <1>3, <1>4

\* What Moves and Ends do to each handler.
LEMMA MovesPointwise ==
    ASSUME conn \in [Conns -> Handlers], NEW c \in Conns, NEW k \in Conns, NEW cs, NEW p,
           Moves(c, p, cs)
    PROVE  /\ conn'[k].name = conn[k].name /\ conn'[k].to = conn[k].to
           /\ k = c => conn'[k].pc = p /\ conn'[k].own
           /\ k # c => /\ conn'[k].pc = conn[k].pc
                       /\ conn'[k].own => conn[k].own
                       /\ conn[k].own /\ k \notin cs => conn'[k].own
<1>1. conn[k] \in Handlers
  OBVIOUS
<1>2. CASE k = c
  <2>1. conn'[k] = [conn[k] EXCEPT !.pc = p, !.own = TRUE]
    BY <1>2 DEF Moves
  <2> QED
    BY <1>1, <1>2, <2>1, Zenon DEF Handlers
<1>3. CASE k # c /\ k \in cs
  <2>1. conn'[k] = [conn[k] EXCEPT !.own = FALSE]
    BY <1>3 DEF Moves
  <2> QED
    BY <1>1, <1>3, <2>1, Zenon DEF Handlers
<1>4. CASE k # c /\ k \notin cs
  <2>1. conn'[k] = conn[k]
    BY <1>4 DEF Moves
  <2> QED
    BY <1>1, <1>4, <2>1 DEF Handlers
<1> QED
  BY <1>2, <1>3, <1>4

LEMMA EndsPointwise ==
    ASSUME conn \in [Conns -> Handlers], NEW c \in Conns, NEW k \in Conns, NEW cs, Ends(c, cs)
    PROVE  /\ k = c => conn'[k] = Idle
           /\ k # c => /\ conn'[k].name = conn[k].name /\ conn'[k].to = conn[k].to
                       /\ conn'[k].pc = conn[k].pc
                       /\ conn'[k].own => conn[k].own
                       /\ conn[k].own /\ k \notin cs => conn'[k].own
<1>1. conn[k] \in Handlers
  OBVIOUS
<1>2. CASE k = c
  BY <1>2 DEF Ends
<1>3. CASE k # c /\ k \in cs
  <2>1. conn'[k] = [conn[k] EXCEPT !.own = FALSE]
    BY <1>3 DEF Ends
  <2> QED
    BY <1>1, <1>3, <2>1, Zenon DEF Handlers
<1>4. CASE k # c /\ k \notin cs
  <2>1. conn'[k] = conn[k]
    BY <1>4 DEF Ends
  <2> QED
    BY <1>1, <1>4, <2>1 DEF Handlers
<1> QED
  BY <1>2, <1>3, <1>4

\* One case per handler, in the order of LNext.
LEMMA TypeNext == VaultTypeOK /\ OwnedIsOpen /\ [LNext]_lvars => VaultTypeOK'
<1> SUFFICES ASSUME VaultTypeOK, OwnedIsOpen, [LNext]_lvars PROVE VaultTypeOK'
  OBVIOUS
<1> USE LifecycleAssumption, EntryUpdates, HandlerUpdates DEF VaultTypeOK
<1>1. ASSUME NEW c \in Conns, NEW n \in Names, InitFiles(c, n) PROVE VaultTypeOK'
  BY <1>1 DEF InitFiles, ExcuseOverlap
<1>2. ASSUME NEW c \in Conns, NEW n \in Names, UnlockOpen(c, n) PROVE VaultTypeOK'
  BY <1>2 DEF UnlockOpen, OpenVault
<1>3. ASSUME NEW c \in Conns, NEW n \in Names, LockKey(c, n) PROVE VaultTypeOK'
  BY <1>3 DEF LockKey, Begin
<1>4. ASSUME NEW c \in Conns, NEW n \in Names, PasswdRead(c, n) PROVE VaultTypeOK'
  BY <1>4 DEF PasswdRead, Begin, OpenVault, ExcuseOverlap
<1>5. ASSUME NEW c \in Conns, NEW n \in Names, NEW p \in {"wiping", "moving"},
             NEW m \in Names \cup {None}, p = "moving" => m \in Names,
             p = "wiping" => m = None, Evict(c, n, p, m)
      PROVE VaultTypeOK'
  BY <1>5 DEF Evict, LeftBehind, Sessions
<1>6. ASSUME NEW c \in Conns, HandlerStep(c) PROVE VaultTypeOK'
  <2>1. CASE InitMeta(c)
    <3> [conn[c] EXCEPT !.pc = "adopting"] \in Handlers
      BY <2>1, Zenon DEF InitMeta
    <3>0. \/ Return(c) \/ Ends(c, Writing(conn[c].name))
          \/ conn' = [conn EXCEPT ![c].pc = "adopting"]
      BY <2>1, Zenon DEF InitMeta
    <3>1. conn' \in [Conns -> Handlers]
      <4>1. CASE Return(c) \/ Ends(c, Writing(conn[c].name))
        BY <4>1, ConnTyped, Zenon
      <4>2. CASE conn' = [conn EXCEPT ![c].pc = "adopting"]
        BY <4>2
      <4> QED
        BY <3>0, <4>1, <4>2
    <3>2. disk' \in [Names -> {"none", "good", "bad"}]
      BY <2>1 DEF InitMeta, MetaWritten
    <3>3. excused' \subseteq Names
      BY <2>1 DEF InitMeta
    <3> QED
      BY <2>1, <3>1, <3>2, <3>3 DEF InitMeta
  <2>2. CASE AdoptVault(c)
    BY <2>2, ZenonT(30) DEF AdoptVault, LeftBehind, Ends, Sessions
  <2>3. CASE UnlockKey(c)
    BY <2>3 DEF UnlockKey, OwnedIsOpen, Unlocking, At
  <2>4. CASE UnlockFails(c)
    BY <2>4 DEF UnlockFails, Return
  <2>5. CASE UnlockMint(c)
    <3> DEFINE n == conn[c].name
    <3>1. n \in Names
      BY <2>5, Zenon DEF UnlockMint
    <3>2. vaults[n].open => [vaults[n] EXCEPT !.active = "recent"] \in Entries
      BY <3>1, Zenon
    <3>3. vaults' \in [Names -> Entries]
      BY <2>5, <3>1, <3>2 DEF UnlockMint, Touched
    <3>4. [vault |-> n, mark |-> MintMark(c)] \in Sessions
      BY <3>1 DEF MintMark, Sessions
    <3>5. sessions' \in [Tokens -> Sessions]
      BY <2>5, <3>4 DEF UnlockMint
    <3> QED
      BY <2>5, <3>3, <3>5 DEF UnlockMint, Return
  <2>6. CASE LockEnds(c)
    BY <2>6 DEF LockEnds, EndVault, Return, NoSession, Sessions
  <2>7. CASE PasswdWrap(c)
    <3>1. [conn[c] EXCEPT !.pc = "rekeyed", !.own = TRUE] \in Handlers
      BY <2>7, Zenon DEF PasswdWrap
    <3>2. conn' \in [Conns -> Handlers]
      BY <2>7, <3>1, ConnTyped, Zenon DEF PasswdWrap
    <3> QED
      BY <2>7, <3>2 DEF PasswdWrap
  <2>8. CASE PasswdMeta(c)
    <3>1. conn[c].name \in Names
      BY <2>8, Zenon DEF PasswdMeta
    <3>2. conn' \in [Conns -> Handlers]
      BY <2>8 DEF PasswdMeta, Return
    <3>3. disk' \in [Names -> {"none", "good", "bad"}] /\ excused' \subseteq Names
      BY <2>8, <3>1 DEF PasswdMeta, MetaWritten
    <3> QED
      BY <2>8, <3>2, <3>3 DEF PasswdMeta
  <2>9. CASE RenameRead(c)
    <3>1. [conn[c] EXCEPT !.pc = "renaming", !.own = TRUE] \in Handlers
      BY <2>9, Zenon DEF RenameRead
    <3>2. conn[c].name \in Names
      BY <2>9, Zenon DEF RenameRead
    <3>3. conn' \in [Conns -> Handlers]
      BY <2>9, <3>1, ConnTyped, Zenon DEF RenameRead
    <3>4. \/ excused' = excused
          \/ excused' = excused \cup {conn[c].name}
      BY <2>9, Zenon DEF RenameRead, ExcuseOverlap
    <3>5. excused' \subseteq Names
      BY <3>2, <3>4
    <3> QED
      BY <2>9, <3>3, <3>5 DEF RenameRead
  <2>10. CASE RenameMove(c)
    <3> conn[c].to \in Names
      BY <2>10, Zenon DEF RenameMove
    <3>1. conn' \in [Conns -> Handlers]
      BY <2>10, ConnTyped, Zenon DEF RenameMove
    <3>2. disk' \in [Names -> {"none", "good", "bad"}]
      BY <2>10 DEF RenameMove, MetaWritten
    <3>4. \/ excused' = excused
          \/ excused' \subseteq excused \cup {conn[c].to}
      BY <2>10, Zenon DEF RenameMove
    <3>3. excused' \subseteq Names
      BY <3>4
    <3> QED
      BY <2>10, <3>1, <3>2, <3>3 DEF RenameMove
  <2>11. CASE DeleteWipe(c)
    BY <2>11 DEF DeleteWipe, Ends
  <2> QED
    BY <1>6, <2>1, <2>2, <2>3, <2>4, <2>5, <2>6, <2>7, <2>8, <2>9, <2>10, <2>11 DEF HandlerStep
<1>7. ASSUME NEW n \in Names, UseVault(n) PROVE VaultTypeOK'
  <2> vaults[n].open => [vaults[n] EXCEPT !.active = "recent"] \in Entries
    BY Zenon
  <2> QED
    BY <1>7, ZenonT(30) DEF UseVault, OpenVault, Touched
<1>8. ASSUME NEW n \in Names, Age(n) \/ JanitorLock(n) PROVE VaultTypeOK'
  <2>1. /\ [vaults[n] EXCEPT !.key = FALSE] \in Entries
        /\ vaults[n].active = "recent" => [vaults[n] EXCEPT !.active = "stale"] \in Entries
    BY Zenon
  <2>2. CASE Age(n)
    BY <2>1, <2>2 DEF Age
  <2>3. CASE JanitorLock(n)
    BY <2>1, <2>3 DEF JanitorLock
  <2> QED
    BY <1>8, <2>2, <2>3
<1>9. CASE JanitorEnds
  BY <1>9 DEF JanitorEnds, EndVault, NoSession, Sessions
<1>10. ASSUME NEW t \in Tokens, EndToken(t) PROVE VaultTypeOK'
  BY <1>10 DEF EndToken, NoSession, Sessions
<1>11. CASE Restart
  BY <1>11 DEF Restart, NoSession, Sessions
<1>12. CASE UNCHANGED lvars
  BY <1>12 DEF lvars
<1> QED
  BY <1>1, <1>2, <1>3, <1>4, <1>5, <1>6, <1>7, <1>8, <1>9, <1>10, <1>11, <1>12
  DEF LNext, RenameEvict, DeleteEvict

\* Eviction is the one step that closes a store; the handlers unlocking that
\* store lose it in the same step.
LEMMA OwnedNext == TypeInv /\ [LNext]_lvars => OwnedIsOpen'
<1> SUFFICES ASSUME VaultTypeOK, OwnedIsOpen, [LNext]_lvars,
                    NEW m \in Names, NEW k \in Conns, (k \in Unlocking(m))', conn'[k].own
             PROVE vaults'[m].open
  BY DEF OwnedIsOpen, TypeInv, Unlocking, At
<1> USE DEF Unlocking, At
<1>0. conn'[k].pc \in {"unlocking", "minting"} /\ conn'[k].name = m
  OBVIOUS
<1>1. ASSUME conn[k].pc \in {"unlocking", "minting"}, conn[k].name = m, conn[k].own,
             vaults[m].open => vaults'[m].open
      PROVE vaults'[m].open
  BY <1>1 DEF OwnedIsOpen
<1>2. ASSUME NEW c \in Conns, NEW n \in Names,
             InitFiles(c, n) \/ LockKey(c, n) \/ PasswdRead(c, n)
      PROVE vaults'[m].open
  <2>1. conn'[k].pc = conn[k].pc /\ conn'[k].name = conn[k].name /\ (conn'[k].own => conn[k].own)
    <3>1. CASE InitFiles(c, n)
      BY <1>0, <3>1 DEF InitFiles, VaultTypeOK, Handlers
    <3>2. CASE LockKey(c, n) \/ PasswdRead(c, n)
      BY <1>0, <3>2 DEF LockKey, PasswdRead, Begin, Idle, VaultTypeOK
    <3> QED
      BY <1>2, <3>1, <3>2
  <2>2. vaults[m].open => vaults'[m].open
    BY <1>2, EntryUpdates, ZenonT(30) DEF InitFiles, LockKey, PasswdRead, OpenVault, VaultTypeOK
  <2> QED
    BY <1>0, <1>1, <2>1, <2>2
<1>3. ASSUME NEW c \in Conns, NEW n \in Names, UnlockOpen(c, n) PROVE vaults'[m].open
  <2>1. CASE k = c
    BY <1>0, <1>3, <2>1, EntryUpdates DEF UnlockOpen, OpenVault, VaultTypeOK
  <2>2. CASE k # c
    BY <1>0, <1>1, <1>3, <2>2, EntryUpdates DEF UnlockOpen, OpenVault, VaultTypeOK
  <2> QED
    BY <2>1, <2>2
<1>4. ASSUME NEW c \in Conns, NEW n \in Names, NEW p \in {"wiping", "moving"}, NEW to,
             Evict(c, n, p, to)
      PROVE vaults'[m].open
  BY <1>0, <1>1, <1>4 DEF Evict, VaultTypeOK
<1>5. ASSUME NEW c \in Conns, HandlerStep(c) PROVE vaults'[m].open
  <2>1. CASE AdoptVault(c)
    BY <1>0, <1>1, <2>1, EntryUpdates DEF AdoptVault, Ends, Idle, VaultTypeOK
  <2>2. CASE UnlockKey(c)
    <3>1. vaults[m].open => vaults'[m].open
      BY <2>2, EntryUpdates DEF UnlockKey, VaultTypeOK
    <3> QED
      BY <1>0, <1>1, <2>2, <3>1 DEF UnlockKey, VaultTypeOK
  <2>3. CASE UnlockMint(c)
    <3>1. vaults[m].open => vaults'[m].open
      BY <2>3, EntryUpdates DEF UnlockMint, Touched, VaultTypeOK
    <3> QED
      BY <1>0, <1>1, <2>3, <3>1 DEF UnlockMint, Return, Idle, VaultTypeOK
  <2>4. CASE UnlockFails(c) \/ LockEnds(c) \/ PasswdMeta(c)
    BY <1>0, <1>1, <2>4 DEF UnlockFails, LockEnds, PasswdMeta, Return, Idle, VaultTypeOK
  <2>5. ASSUME InitMeta(c), ~ \E cs : Ends(c, cs) PROVE vaults'[m].open
    BY <1>0, <1>1, <2>5 DEF InitMeta, Return, Idle, VaultTypeOK, Handlers
  <2>6. ASSUME NEW p, NEW cs, Moves(c, p, cs), p \notin {"unlocking", "minting"},
               vaults' = vaults
        PROVE vaults'[m].open
    <3>1. /\ conn'[k].name = conn[k].name
          /\ k = c => conn'[k].pc = p
          /\ k # c => conn'[k].pc = conn[k].pc /\ (conn'[k].own => conn[k].own)
      BY <2>6, MovesPointwise DEF VaultTypeOK
    <3> QED
      BY <1>0, <1>1, <2>6, <3>1
  <2>7. ASSUME NEW cs, Ends(c, cs), vaults' = vaults PROVE vaults'[m].open
    <3>1. /\ k = c => conn'[k] = Idle
          /\ k # c => /\ conn'[k].name = conn[k].name /\ conn'[k].pc = conn[k].pc
                      /\ conn'[k].own => conn[k].own
      BY <2>7, EndsPointwise DEF VaultTypeOK
    <3> QED
      BY <1>0, <1>1, <2>7, <3>1 DEF Idle
  <2>8. ASSUME Return(c), vaults' = vaults PROVE vaults'[m].open
    BY <1>0, <1>1, <2>8 DEF Return, Idle, VaultTypeOK
  <2>9. CASE PasswdWrap(c) \/ RenameRead(c)
    <3>1. "rekeyed" \notin {"unlocking", "minting"} /\ "renaming" \notin {"unlocking", "minting"}
      OBVIOUS
    <3> QED
      BY <2>6, <2>8, <2>9, <3>1, Zenon DEF PasswdWrap, RenameRead
  <2>10. CASE RenameMove(c) \/ DeleteWipe(c)
    BY <2>7, <2>8, <2>10, Zenon DEF RenameMove, DeleteWipe
  <2>11. InitMeta(c) => vaults' = vaults
    BY DEF InitMeta
  <2> QED
    BY <1>5, <2>1, <2>2, <2>3, <2>4, <2>5, <2>7, <2>9, <2>10, <2>11 DEF HandlerStep
<1>6. ASSUME NEW n \in Names, UseVault(n) \/ Age(n) \/ JanitorLock(n) PROVE vaults'[m].open
  <2>1. vaults[m].open => vaults'[m].open
    <3>1. /\ [vaults[m] EXCEPT !.active = "recent"].open = vaults[m].open
          /\ [vaults[m] EXCEPT !.active = "stale"].open = vaults[m].open
          /\ [vaults[m] EXCEPT !.key = FALSE].open = vaults[m].open
      BY EntryUpdates, Zenon DEF VaultTypeOK
    <3>2. CASE UseVault(n)
      BY <3>1, <3>2 DEF UseVault, OpenVault, Touched, VaultTypeOK
    <3>3. CASE Age(n) \/ JanitorLock(n)
      BY <3>1, <3>3 DEF Age, JanitorLock, VaultTypeOK
    <3> QED
      BY <1>6, <3>2, <3>3
  <2> QED
    BY <1>0, <1>1, <1>6, <2>1 DEF UseVault, Age, JanitorLock
<1>7. CASE JanitorEnds \/ (\E t \in Tokens : EndToken(t)) \/ UNCHANGED lvars
  BY <1>0, <1>1, <1>7 DEF JanitorEnds, EndToken, lvars
<1>8. CASE Restart
  BY <1>0, <1>8 DEF Restart, Idle
<1> QED
  BY <1>2, <1>3, <1>4, <1>5, <1>6, <1>7, <1>8 DEF LNext, RenameEvict, DeleteEvict

\* Whatever clients, connections and crashes do, the daemon's table of vaults,
\* its sessions and its handlers stay well formed: in particular a store that
\* is not open never has a key.
THEOREM VaultTypeCorrect == LSpec => []VaultTypeOK
<1>1. TypeInv /\ [LNext]_lvars => TypeInv'
  BY TypeNext, OwnedNext DEF TypeInv
<1>2. TypeInv => VaultTypeOK
  BY DEF TypeInv
<1> QED
  BY <1>1, <1>2, TypeInit, PTL DEF LSpec

-----------------------------------------------------------------------------
(* Sessions.  Only a lock or the janitor takes the key of a vault and leaves *)
(* its sessions, and each is then on its way to ending them.               *)

\* A handler on its way to ending the sessions of n stays so in every step
\* that is not its own.
LEMMA EndingKept ==
    ASSUME VaultTypeOK, NEW n \in Names, NEW c \in Conns, conn[c].pc # "ending",
           \A k \in Conns : k # c => conn'[k].pc = conn[k].pc /\ conn'[k].name = conn[k].name,
           janitor' = janitor, Ending(n)
    PROVE  Ending(n)'
  BY DEF Ending, At, VaultTypeOK

\* What a handler's step does to the handlers of other connections.
LEMMA OthersKept ==
    ASSUME VaultTypeOK, NEW c \in Conns, NEW k \in Conns, k # c,
           \/ Return(c)
           \/ \E cs : Ends(c, cs)
           \/ \E p, cs : Moves(c, p, cs)
           \/ \E n \in Names : \/ InitFiles(c, n) \/ UnlockOpen(c, n) \/ LockKey(c, n)
                               \/ PasswdRead(c, n)
                               \/ \E p, m : Evict(c, n, p, m)
           \/ InitMeta(c) \/ UnlockKey(c)
    PROVE  conn'[k].pc = conn[k].pc /\ conn'[k].name = conn[k].name
<1>1. conn[k] \in Handlers
  BY DEF VaultTypeOK
<1>2. /\ [conn[k] EXCEPT !.own = FALSE].pc = conn[k].pc
      /\ [conn[k] EXCEPT !.own = FALSE].name = conn[k].name
  BY <1>1 DEF Handlers
<1>3. conn'[k] \in {conn[k], [conn[k] EXCEPT !.own = FALSE]}
  <2>1. CASE Return(c) \/ InitMeta(c) \/ UnlockKey(c)
    BY <2>1 DEF Return, InitMeta, Ends, UnlockKey, VaultTypeOK
  <2>2. CASE \E cs : Ends(c, cs)
    BY <2>2 DEF Ends
  <2>3. CASE \E p, cs : Moves(c, p, cs)
    BY <2>3 DEF Moves
  <2>4. ASSUME NEW n \in Names, UnlockOpen(c, n) \/ LockKey(c, n) \/ PasswdRead(c, n)
        PROVE conn'[k] = conn[k]
    BY <2>4 DEF UnlockOpen, LockKey, PasswdRead, Begin, VaultTypeOK
  <2>5. ASSUME NEW n \in Names, InitFiles(c, n)
        PROVE conn'[k] \in {conn[k], [conn[k] EXCEPT !.own = FALSE]}
    BY <2>5 DEF InitFiles
  <2>6. ASSUME NEW n \in Names, NEW p, NEW m, Evict(c, n, p, m)
        PROVE conn'[k] \in {conn[k], [conn[k] EXCEPT !.own = FALSE]}
    BY <2>6 DEF Evict
  <2> QED
    BY <2>1, <2>2, <2>3, <2>4, <2>5, <2>6
<1> QED
  BY <1>2, <1>3

LEMMA SessionsNext ==
    VaultTypeOK /\ SessionsFollowTheKey /\ [LNext]_lvars => SessionsFollowTheKey'
<1> SUFFICES ASSUME VaultTypeOK, SessionsFollowTheKey, [LNext]_lvars,
                    NEW t \in Tokens, NEW n \in Names,
                    sessions'[t].vault = n, sessions'[t].mark = "live"
             PROVE vaults'[n].key \/ Ending(n)'
  BY DEF SessionsFollowTheKey
\* The common argument: the session was there, and nothing it rests on went.
<1>1. ASSUME sessions[t].vault = n, sessions[t].mark = "live",
             vaults[n].key => vaults'[n].key, Ending(n) => Ending(n)'
      PROVE vaults'[n].key \/ Ending(n)'
  BY <1>1 DEF SessionsFollowTheKey
<1>2. ASSUME NEW c \in Conns, conn[c].pc # "ending", janitor' = janitor,
             \A k \in Conns : k # c => conn'[k].pc = conn[k].pc /\ conn'[k].name = conn[k].name
      PROVE Ending(n) => Ending(n)'
  BY <1>2, EndingKept
<1>3. ASSUME NEW m \in Names, OpenVault(m) PROVE vaults[n].key => vaults'[n].key
  BY <1>3, EntryUpdates DEF OpenVault, VaultTypeOK
<1>4. ASSUME NEW c \in Conns, NEW m \in Names,
             InitFiles(c, m) \/ UnlockOpen(c, m) \/ PasswdRead(c, m)
      PROVE vaults'[n].key \/ Ending(n)'
  <2>1. \A k \in Conns : k # c => conn'[k].pc = conn[k].pc /\ conn'[k].name = conn[k].name
    BY <1>4, OthersKept
  <2>2. conn[c].pc # "ending" /\ janitor' = janitor /\ sessions' = sessions
    BY <1>4 DEF InitFiles, UnlockOpen, PasswdRead, Begin
  <2>3. vaults[n].key => vaults'[n].key
    BY <1>3, <1>4 DEF InitFiles, UnlockOpen, PasswdRead
  <2> QED
    BY <1>1, <1>2, <2>1, <2>2, <2>3
<1>5. ASSUME NEW c \in Conns, NEW m \in Names, LockKey(c, m)
      PROVE vaults'[n].key \/ Ending(n)'
  <2>1. CASE m = n
    BY <1>5, <2>1 DEF LockKey, Begin, Ending, At, Idle, VaultTypeOK
  <2>2. CASE m # n
    <3>1. \A k \in Conns : k # c => conn'[k].pc = conn[k].pc /\ conn'[k].name = conn[k].name
      BY <1>5, OthersKept
    <3>2. conn[c].pc # "ending" /\ janitor' = janitor /\ sessions' = sessions
      BY <1>5 DEF LockKey, Begin
    <3>3. vaults'[n] = vaults[n]
      BY <1>5, <2>2 DEF LockKey, VaultTypeOK
    <3> QED
      BY <1>1, <1>2, <3>1, <3>2, <3>3
  <2> QED
    BY <2>1, <2>2
<1>6. ASSUME NEW m \in Names, sessions' = LeftBehind(m)
      PROVE m # n /\ sessions'[t] = sessions[t]
  BY <1>6 DEF LeftBehind, VaultTypeOK, Sessions
<1>7. ASSUME NEW c \in Conns, NEW m \in Names, NEW p, NEW to, Evict(c, m, p, to)
      PROVE vaults'[n].key \/ Ending(n)'
  <2>1. \A k \in Conns : k # c => conn'[k].pc = conn[k].pc /\ conn'[k].name = conn[k].name
    BY <1>7, OthersKept
  <2>2. conn[c].pc # "ending" /\ janitor' = janitor /\ m # n /\ sessions'[t] = sessions[t]
    BY <1>6, <1>7 DEF Evict
  <2>3. vaults'[n] = vaults[n]
    BY <1>7, <2>2 DEF Evict, VaultTypeOK
  <2> QED
    BY <1>1, <1>2, <2>1, <2>2, <2>3
<1>8. ASSUME NEW c \in Conns, AdoptVault(c) PROVE vaults'[n].key \/ Ending(n)'
  <2>1. \A k \in Conns : k # c => conn'[k].pc = conn[k].pc /\ conn'[k].name = conn[k].name
    BY <1>8, OthersKept DEF AdoptVault
  <2>2. conn[c].name \in Names
    BY <1>8, HandlerUpdates DEF AdoptVault, VaultTypeOK
  <2>3. conn[c].pc # "ending" /\ janitor' = janitor /\ conn[c].name # n /\ sessions'[t] = sessions[t]
    BY <1>6, <1>8, <2>2 DEF AdoptVault
  <2>4. vaults'[n] = vaults[n]
    BY <1>8, <2>3 DEF AdoptVault, VaultTypeOK
  <2> QED
    BY <1>1, <1>2, <2>1, <2>3, <2>4
<1>9. ASSUME NEW c \in Conns, UnlockKey(c) PROVE vaults'[n].key \/ Ending(n)'
  <2>1. \A k \in Conns : k # c => conn'[k].pc = conn[k].pc /\ conn'[k].name = conn[k].name
    BY <1>9, OthersKept
  <2>2. conn[c].pc # "ending" /\ janitor' = janitor /\ sessions' = sessions
    BY <1>9 DEF UnlockKey
  <2>3. vaults[n].key => vaults'[n].key
    BY <1>9 DEF UnlockKey, VaultTypeOK, Entries
  <2> QED
    BY <1>1, <1>2, <2>1, <2>2, <2>3
<1>10. ASSUME NEW c \in Conns, UnlockMint(c) PROVE vaults'[n].key \/ Ending(n)'
  <2>1. \A k \in Conns : k # c => conn'[k].pc = conn[k].pc /\ conn'[k].name = conn[k].name
    BY <1>10, OthersKept DEF UnlockMint
  <2>2. conn[c].pc # "ending" /\ janitor' = janitor
    BY <1>10 DEF UnlockMint
  <2>3. vaults[n].key => vaults'[n].key
    <3>1. [vaults[n] EXCEPT !.active = "recent"].key = vaults[n].key
      BY EntryUpdates, Zenon DEF VaultTypeOK
    <3> QED
      BY <1>10, <3>1 DEF UnlockMint, Touched, VaultTypeOK
  <2>4. sessions'[t] = sessions[t] \/ sessions'[t] = [vault |-> conn[c].name, mark |-> MintMark(c)]
    BY <1>10 DEF UnlockMint, VaultTypeOK
  <2>5. CASE sessions'[t] = sessions[t]
    BY <1>1, <1>2, <2>1, <2>2, <2>3, <2>5
  <2>6. CASE sessions'[t] = [vault |-> conn[c].name, mark |-> MintMark(c)]
    <3>1. conn[c].name = n /\ MintMark(c) = "live"
      BY <2>6
    <3> QED
      BY <2>3, <3>1 DEF MintMark
  <2> QED
    BY <2>4, <2>5, <2>6
<1>11. ASSUME NEW c \in Conns, LockEnds(c) PROVE vaults'[n].key \/ Ending(n)'
  <2>1. \A k \in Conns : k # c => conn'[k].pc = conn[k].pc /\ conn'[k].name = conn[k].name
    BY <1>11, OthersKept DEF LockEnds
  <2>2. conn[c].name # n /\ sessions'[t] = sessions[t]
    BY <1>11, LifecycleAssumption DEF LockEnds, EndVault, NoSession, VaultTypeOK
  <2>3. Ending(n) => Ending(n)'
    BY <1>11, <2>1, <2>2 DEF LockEnds, Ending, At
  <2> QED
    BY <1>1, <1>11, <2>2, <2>3 DEF LockEnds
<1>12. ASSUME NEW c \in Conns,
              \/ InitMeta(c) \/ UnlockFails(c) \/ PasswdWrap(c) \/ PasswdMeta(c)
              \/ RenameRead(c) \/ RenameMove(c) \/ DeleteWipe(c)
       PROVE vaults'[n].key \/ Ending(n)'
  <2>1. \/ InitMeta(c) \/ Return(c) \/ (\E cs : Ends(c, cs)) \/ (\E p, cs : Moves(c, p, cs))
    BY <1>12, Zenon DEF UnlockFails, PasswdWrap, PasswdMeta, RenameRead, RenameMove, DeleteWipe
  <2>2. \A k \in Conns : k # c => conn'[k].pc = conn[k].pc /\ conn'[k].name = conn[k].name
    BY <2>1, OthersKept
  <2>3. conn[c].pc # "ending" /\ UNCHANGED <<vaults, sessions, janitor>>
    BY <1>12 DEF InitMeta, UnlockFails, PasswdWrap, PasswdMeta, RenameRead, RenameMove, DeleteWipe
  <2> QED
    BY <1>1, <1>2, <2>2, <2>3
<1>13. ASSUME NEW m \in Names, UseVault(m) \/ Age(m) PROVE vaults'[n].key \/ Ending(n)'
  <2>1. /\ [vaults[n] EXCEPT !.active = "recent"].key = vaults[n].key
        /\ [vaults[n] EXCEPT !.active = "stale"].key = vaults[n].key
    BY EntryUpdates, Zenon DEF VaultTypeOK
  <2>2. vaults[n].key => vaults'[n].key
    BY <1>3, <1>13, <2>1 DEF UseVault, Touched, Age, VaultTypeOK
  <2> QED
    BY <1>1, <1>13, <2>2 DEF UseVault, Age, Ending, At
<1>14. ASSUME NEW m \in Names, JanitorLock(m) PROVE vaults'[n].key \/ Ending(n)'
  <2>1. CASE m = n
    BY <1>14, <2>1 DEF JanitorLock, Ending
  <2>2. CASE m # n
    <3>1. Ending(n) => Ending(n)'
      BY <1>14, LifecycleAssumption DEF JanitorLock, Ending, At
    <3> QED
      BY <1>1, <1>14, <2>2, <3>1 DEF JanitorLock, VaultTypeOK
  <2> QED
    BY <2>1, <2>2
<1>15. CASE JanitorEnds
  <2>1. janitor # n /\ sessions'[t] = sessions[t]
    BY <1>15, LifecycleAssumption DEF JanitorEnds, EndVault, NoSession, VaultTypeOK
  <2> QED
    BY <1>1, <1>15, <2>1 DEF JanitorEnds, Ending, At
<1>16. ASSUME NEW u \in Tokens, EndToken(u) PROVE vaults'[n].key \/ Ending(n)'
  <2>1. sessions'[t] = sessions[t]
    BY <1>16, LifecycleAssumption DEF EndToken, NoSession, VaultTypeOK
  <2> QED
    BY <1>1, <1>16, <2>1 DEF EndToken, Ending, At
<1>17. CASE Restart
  BY <1>17, LifecycleAssumption DEF Restart, NoSession
<1>18. CASE UNCHANGED lvars
  BY <1>1, <1>18 DEF lvars, Ending, At
<1> QED
  BY <1>4, <1>5, <1>7, <1>8, <1>9, <1>10, <1>11, <1>12, <1>13, <1>14, <1>15, <1>16, <1>17, <1>18
  DEF LNext, HandlerStep, RenameEvict, DeleteEvict

\* A session minted while its vault was unlocked dies with the key: at every
\* moment the key is still there or a lock (byn lock, or the idle janitor) is
\* on its way to ending it, for any number of vaults, sessions and connections.
THEOREM SessionsFollowTheKeyHolds == LSpec => []SessionsFollowTheKey
<1>1. LInit => SessionsFollowTheKey
  BY LifecycleAssumption DEF LInit, SessionsFollowTheKey, NoSession
<1> QED
  BY <1>1, VaultTypeCorrect, SessionsNext, PTL DEF LSpec

-----------------------------------------------------------------------------
(* Files.  Two handlers part way through writing one directory make it     *)
(* excused, and so does a handler whose wrapped key was replaced under it; *)
(* a handler that has not written yet left the directory as it found it.   *)

WritersOverlap ==
    \A n \in Names : \A c, d \in Writing(n) : c # d /\ disk[n] # "none" => n \in excused

\* A handler that has read or written the wrapped key and lost it.
LostKey(c) == conn[c].pc \in {"initing", "rekeyed", "renaming"} /\ ~conn[c].own

LostKeyIsExcused ==
    \A n \in Names : \A c \in Writing(n) : LostKey(c) /\ disk[n] # "none" => n \in excused

\* A handler that has only read the directory.
Reading(c) == conn[c].pc \in {"rekeying", "renaming"}

ReadersFoundItGood ==
    \A n \in Names : \A c \in Writing(n) : Reading(c) /\ disk[n] = "bad" => n \in excused

FilesInv == MismatchHasACause /\ WritersOverlap /\ LostKeyIsExcused /\ ReadersFoundItGood

FilesAt(n) ==
    /\ disk[n] # "bad" \/ Writing(n) # {} \/ n \in excused
    /\ \A c, d \in Writing(n) : c # d /\ disk[n] # "none" => n \in excused
    /\ \A c \in Writing(n) : LostKey(c) /\ disk[n] # "none" => n \in excused
    /\ \A c \in Writing(n) : Reading(c) /\ disk[n] = "bad" => n \in excused

LEMMA FilesAtEach == FilesInv <=> \A n \in Names : FilesAt(n)
  BY DEF FilesInv, MismatchHasACause, WritersOverlap, LostKeyIsExcused, ReadersFoundItGood, FilesAt

WritingPcs == {"initing", "rekeying", "rekeyed", "renaming"}

\* The frame: the writers of n and what they own are as before.
LEMMA FilesFrame ==
    ASSUME NEW n \in Names, FilesAt(n), disk'[n] = disk[n], n \in excused => n \in excused',
           \A k \in Conns :
              \/ conn'[k] = conn[k]
              \/ /\ conn'[k].pc \notin WritingPcs \/ conn'[k].name # n
                 /\ conn[k].pc \notin WritingPcs \/ conn[k].name # n
    PROVE  FilesAt(n)'
<1>1. Writing(n)' = Writing(n)
  BY DEF Writing, At, WritingPcs
<1>2. ASSUME NEW k \in Writing(n)' PROVE conn'[k] = conn[k]
  BY <1>2 DEF Writing, At, WritingPcs
<1>3. ASSUME NEW k \in Writing(n)' PROVE LostKey(k)' = LostKey(k) /\ Reading(k)' = Reading(k)
  BY <1>2, <1>3 DEF LostKey, Reading
<1> QED
  BY <1>1, <1>3 DEF FilesAt

\* A writer alone in its directory, and not excused, still owns its key.
LEMMA LoneWriter ==
    ASSUME NEW n \in Names, FilesAt(n), n \notin excused, disk[n] # "none",
           NEW c \in Writing(n)
    PROVE  Writing(n) = {c} /\ ~LostKey(c) /\ (Reading(c) => disk[n] # "bad")
  BY DEF FilesAt

LEMMA AloneAfter ==
    ASSUME NEW n \in Names, Writing(n)' \subseteq {}, disk'[n] # "bad"
    PROVE  FilesAt(n)'
  BY DEF FilesAt

LEMMA OneAfter ==
    ASSUME NEW n \in Names, NEW c, Writing(n)' = {c}, ~LostKey(c)',
           Reading(c)' => disk'[n] # "bad"
    PROVE  FilesAt(n)'
  BY DEF FilesAt

LEMMA TrivialAfter ==
    ASSUME NEW n \in Names, n \in excused' \/ (disk'[n] = "none")
    PROVE  FilesAt(n)'
  BY DEF FilesAt

LEMMA FilesNext == VaultTypeOK /\ FilesInv /\ [LNext]_lvars => FilesInv'
<1> SUFFICES ASSUME VaultTypeOK, FilesInv, [LNext]_lvars PROVE FilesInv'
  OBVIOUS
<1> SUFFICES ASSUME NEW n \in Names, n \notin excused', disk'[n] # "none" PROVE FilesAt(n)'
  BY FilesAtEach, TrivialAfter DEF FilesInv, MismatchHasACause, WritersOverlap,
     LostKeyIsExcused, ReadersFoundItGood, FilesAt
<1>0. FilesAt(n)
  BY FilesAtEach
<1>1. \A k \in Conns : conn[k] \in Handlers
  BY DEF VaultTypeOK
\* A step of c that neither was nor becomes a writer of n, and that takes
\* nothing from the writers of n.
<1>2. ASSUME NEW c \in Conns, disk'[n] = disk[n], excused' = excused,
             conn[c].pc \notin WritingPcs \/ conn[c].name # n,
             conn'[c].pc \notin WritingPcs \/ conn'[c].name # n,
             \A k \in Conns : k # c =>
                \/ conn'[k] = conn[k]
                \/ /\ conn[k].pc \notin WritingPcs \/ conn[k].name # n
                   /\ conn'[k].pc = conn[k].pc /\ conn'[k].name = conn[k].name
      PROVE FilesAt(n)'
  BY <1>0, <1>2, FilesFrame
<1>3. ASSUME NEW c \in Conns, NEW m \in Names, InitFiles(c, m) PROVE FilesAt(n)'
  <2>1. \A k \in Conns : k # c => conn'[k].pc = conn[k].pc /\ conn'[k].name = conn[k].name
    BY <1>3, OthersKept
  <2>2. conn'[c] = [pc |-> "initing", name |-> m, to |-> None, own |-> TRUE] /\ conn[c].pc = "idle"
    BY <1>3 DEF InitFiles
  <2>3. CASE m = n
    <3>1. Writing(n) = {}
      BY <1>3, <2>3 DEF InitFiles, ExcuseOverlap
    <3>2. Writing(n)' = {c} /\ ~LostKey(c)' /\ ~Reading(c)'
      BY <2>1, <2>2, <2>3, <3>1 DEF Writing, At, LostKey, Reading
    <3> QED
      BY <3>2, OneAfter
  <2>4. CASE m # n
    <3>1. \A k \in Conns : k # c =>
              \/ conn'[k] = conn[k]
              \/ conn[k].name # n /\ conn'[k].pc = conn[k].pc /\ conn'[k].name = conn[k].name
      BY <1>3, <2>1, <2>4 DEF InitFiles, Writing, At
    <3>2. disk'[n] = disk[n] /\ (n \in excused => n \in excused')
      BY <1>3, <2>4 DEF InitFiles, ExcuseOverlap, VaultTypeOK
    <3>3. conn'[c].name # n /\ conn[c].pc \notin WritingPcs
      BY <2>2, <2>4 DEF WritingPcs
    <3> QED
      BY <1>0, <3>1, <3>2, <3>3, FilesFrame
  <2> QED
    BY <2>3, <2>4
<1>4. ASSUME NEW c \in Conns, NEW m \in Names, UnlockOpen(c, m) \/ LockKey(c, m)
      PROVE FilesAt(n)'
  <2>1. conn[c].pc = "idle" /\ conn'[c].pc \in {"unlocking", "ending"}
    <3>1. CASE UnlockOpen(c, m)
      BY <3>1 DEF UnlockOpen, VaultTypeOK
    <3>2. CASE LockKey(c, m)
      BY <3>2 DEF LockKey, Begin, Idle, VaultTypeOK
    <3> QED
      BY <1>4, <3>1, <3>2
  <2>2. \A k \in Conns : k # c => conn'[k] = conn[k]
    BY <1>4 DEF UnlockOpen, LockKey, Begin, VaultTypeOK
  <2> QED
    BY <1>2, <1>4, <2>1, <2>2 DEF UnlockOpen, LockKey, WritingPcs
<1>5. ASSUME NEW c \in Conns, NEW m \in Names, PasswdRead(c, m) PROVE FilesAt(n)'
  <2>1. conn[c].pc = "idle" /\ conn'[c].pc = "rekeying" /\ conn'[c].name = m
    BY <1>5 DEF PasswdRead, Begin, Idle, VaultTypeOK
  <2>2. \A k \in Conns : k # c => conn'[k] = conn[k]
    BY <1>5 DEF PasswdRead, Begin, VaultTypeOK
  <2>3. CASE m = n
    <3>1. Writing(n) = {}
      BY <1>5, <2>3 DEF PasswdRead, ExcuseOverlap
    <3>2. Writing(n)' = {c} /\ ~LostKey(c)'
      BY <2>1, <2>2, <2>3, <3>1 DEF Writing, At, LostKey
    <3>3. disk'[n] # "bad"
      BY <1>5, <2>3 DEF PasswdRead
    <3> QED
      BY <3>2, <3>3, OneAfter
  <2>4. CASE m # n
    <3>1. disk'[n] = disk[n] /\ (n \in excused => n \in excused')
      BY <1>5, <2>4 DEF PasswdRead, ExcuseOverlap
    <3> QED
      BY <1>0, <2>1, <2>2, <2>4, <3>1, FilesFrame DEF WritingPcs
  <2> QED
    BY <2>3, <2>4
<1>6. ASSUME NEW c \in Conns, NEW m \in Names, NEW p \in {"wiping", "moving"}, NEW to,
             Evict(c, m, p, to)
      PROVE FilesAt(n)'
  <2>1. \A k \in Conns : k # c => conn'[k].pc = conn[k].pc /\ conn'[k].name = conn[k].name
    BY <1>6, OthersKept
  <2>2. conn[c].pc = "idle" /\ conn'[c].pc = p
    BY <1>6 DEF Evict
  <2>3. \A k \in Conns : k # c => conn'[k] = conn[k] \/ conn[k].pc \notin WritingPcs
    BY <1>6 DEF Evict, Unlocking, At, WritingPcs
  <2> QED
    BY <1>2, <1>6, <2>1, <2>2, <2>3 DEF Evict, WritingPcs
<1>7. ASSUME NEW c \in Conns, AdoptVault(c) PROVE FilesAt(n)'
  <2>1. \A k \in Conns : k # c => conn'[k].pc = conn[k].pc /\ conn'[k].name = conn[k].name
    BY <1>7, OthersKept DEF AdoptVault
  <2>2. conn[c].pc = "adopting" /\ conn'[c].pc = "idle"
    BY <1>7 DEF AdoptVault, Ends, Idle
  <2>3. \A k \in Conns : k # c => conn'[k] = conn[k] \/ conn[k].pc \notin WritingPcs
    BY <1>7 DEF AdoptVault, Ends, Unlocking, At, WritingPcs
  <2> QED
    BY <1>2, <1>7, <2>1, <2>2, <2>3 DEF AdoptVault, WritingPcs
<1>8. ASSUME NEW c \in Conns, UnlockKey(c) \/ UnlockFails(c) \/ UnlockMint(c) \/ LockEnds(c)
      PROVE FilesAt(n)'
  <2>1. /\ conn[c].pc \notin WritingPcs /\ conn'[c].pc \notin WritingPcs
        /\ disk' = disk /\ excused' = excused
    BY <1>8, <1>1 DEF UnlockKey, UnlockFails, UnlockMint, LockEnds, Return, Idle, WritingPcs,
       VaultTypeOK, Handlers
  <2>2. \A k \in Conns : k # c => conn'[k] = conn[k]
    BY <1>8 DEF UnlockKey, UnlockFails, UnlockMint, LockEnds, Return, VaultTypeOK
  <2> QED
    BY <1>2, <2>1, <2>2
\* A handler alone in its directory writes a meta.json that matches, and ends.
<1>9. ASSUME NEW c \in Conns, conn[c].pc \in {"initing", "rekeyed", "renaming"}, conn[c].name = n,
             disk[n] # "none", disk'[n] = MetaWritten(c), excused' = excused,
             conn'[c].pc \notin WritingPcs,
             \A k \in Conns : k # c => conn'[k].pc = conn[k].pc /\ conn'[k].name = conn[k].name
      PROVE FilesAt(n)'
  <2>1. c \in Writing(n)
    BY <1>9 DEF Writing, At
  <2>2. Writing(n) = {c} /\ ~LostKey(c)
    BY <1>0, <1>9, <2>1, LoneWriter
  <2>3. disk'[n] = "good"
    BY <1>9, <2>2 DEF LostKey, MetaWritten
  <2>4. Writing(n)' \subseteq {}
    BY <1>9, <2>2 DEF Writing, At, WritingPcs
  <2> QED
    BY <2>3, <2>4, AloneAfter
<1>10. ASSUME NEW c \in Conns, InitMeta(c) \/ PasswdMeta(c) PROVE FilesAt(n)'
  <2>1. conn[c].pc \in {"initing", "rekeyed"} /\ conn'[c].pc \notin WritingPcs
    BY <1>10, <1>1 DEF InitMeta, PasswdMeta, Return, Ends, Idle, WritingPcs, VaultTypeOK, Handlers
  <2>2. \A k \in Conns : k # c => conn'[k].pc = conn[k].pc /\ conn'[k].name = conn[k].name
    BY <1>10, OthersKept DEF PasswdMeta
  <2>3. CASE conn[c].name = n
    <3>1. c \in Writing(n)
      BY <2>1, <2>3 DEF Writing, At
    <3>2. /\ n \notin excused
          /\ Writing(n) = {c}
          /\ disk[n] # "none"
      <4>1. disk[n] # "none" /\ n \notin excused
        BY <1>10, <2>3 DEF InitMeta, PasswdMeta, VaultTypeOK
      <4> QED
        BY <1>0, <3>1, <4>1, LoneWriter
    <3>3. disk'[n] = MetaWritten(c) /\ excused' = excused
      BY <1>10, <2>3, <3>2 DEF InitMeta, PasswdMeta, VaultTypeOK
    <3> QED
      BY <1>9, <2>1, <2>2, <2>3, <3>2, <3>3
  <2>4. CASE conn[c].name # n
    <3>1. disk'[n] = disk[n] /\ (n \in excused => n \in excused')
      BY <1>10, <2>4 DEF InitMeta, PasswdMeta, VaultTypeOK
    <3>2. \A k \in Conns : k # c => conn'[k] = conn[k] \/ conn[k].name # n
      BY <1>10, <2>4 DEF InitMeta, PasswdMeta, Return, Ends, Writing, At, VaultTypeOK
    <3> QED
      BY <1>0, <2>1, <2>2, <2>4, <3>1, <3>2, FilesFrame
  <2> QED
    BY <2>3, <2>4
<1>11. ASSUME NEW c \in Conns, PasswdWrap(c) PROVE FilesAt(n)'
  <2>1. conn[c].pc = "rekeying" /\ excused' = excused
    BY <1>11 DEF PasswdWrap
  <2>2. CASE Return(c)
    <3>1. conn'[c].pc = "idle" /\ \A k \in Conns : k # c => conn'[k] = conn[k]
      BY <2>2 DEF Return, Idle, VaultTypeOK
    <3>2. disk' = disk
      BY <1>11, <2>2, <3>1, MovesPointwise DEF PasswdWrap, VaultTypeOK
    <3>3. CASE conn[c].name = n
      <4>1. c \in Writing(n)
        BY <2>1, <3>3 DEF Writing, At
      <4>2. Writing(n) = {c}
        BY <1>0, <2>1, <3>2, <4>1, LoneWriter
      <4>3. disk'[n] # "bad"
        BY <1>0, <2>1, <3>2, <4>1, LoneWriter DEF Reading
      <4>4. Writing(n)' \subseteq {}
        BY <3>1, <4>2 DEF Writing, At
      <4> QED
        BY <4>3, <4>4, AloneAfter
    <3>4. CASE conn[c].name # n
      BY <1>2, <2>1, <3>1, <3>2, <3>4 DEF WritingPcs
    <3> QED
      BY <3>3, <3>4
  <2>3. CASE Moves(c, "rekeyed", Writing(conn[c].name))
    <3>1. \A k \in Conns : /\ conn'[k].name = conn[k].name
                           /\ k # c => conn'[k].pc = conn[k].pc
      BY <2>3, MovesPointwise DEF VaultTypeOK
    <3>2. conn'[c].pc = "rekeyed" /\ conn'[c].own
      BY <2>3, MovesPointwise DEF VaultTypeOK
    <3>3. CASE conn[c].name = n
      <4>1. c \in Writing(n)
        BY <2>1, <3>3 DEF Writing, At
      <4>2. disk[n] # "none"
        BY <1>11, <2>3, <3>2, <3>3 DEF PasswdWrap, Return, Idle, VaultTypeOK
      <4>3. Writing(n) = {c}
        BY <1>0, <2>1, <4>1, <4>2, LoneWriter
      <4>4. Writing(n)' = {c} /\ ~LostKey(c)' /\ ~Reading(c)'
        BY <2>1, <3>1, <3>2, <3>3, <4>3 DEF Writing, At, LostKey, Reading
      <4> QED
        BY <4>4, OneAfter
    <3>4. CASE conn[c].name # n
      <4>1. disk'[n] = disk[n]
        BY <1>11, <3>4 DEF PasswdWrap, VaultTypeOK
      <4>2. \A k \in Conns : k # c => conn'[k] = conn[k] \/ conn[k].name # n
        BY <2>3, <3>4 DEF Moves, Writing, At
      <4> QED
        BY <1>2, <2>1, <3>1, <3>4, <4>1, <4>2
    <3> QED
      BY <3>3, <3>4
  <2> QED
    BY <1>11, <2>2, <2>3, Zenon DEF PasswdWrap
<1>12. ASSUME NEW c \in Conns, RenameRead(c) PROVE FilesAt(n)'
  <2>1. conn[c].pc = "moving" /\ disk' = disk
    BY <1>12 DEF RenameRead
  <2>2. CASE Return(c) /\ UNCHANGED excused
    <3>1. conn'[c].pc = "idle" /\ \A k \in Conns : k # c => conn'[k] = conn[k]
      BY <2>2 DEF Return, Idle, VaultTypeOK
    <3> QED
      BY <1>2, <2>1, <2>2, <3>1 DEF WritingPcs
  <2>3. CASE /\ disk[conn[c].name] = "good"
             /\ Moves(c, "renaming", {}) /\ ExcuseOverlap(conn[c].name)
    <3>1. \A k \in Conns : k # c => conn'[k] = conn[k]
      BY <2>3 DEF Moves
    <3>2. conn'[c].name = conn[c].name /\ conn'[c].pc = "renaming" /\ conn'[c].own
      BY <2>3, MovesPointwise DEF VaultTypeOK
    <3>3. CASE conn[c].name = n
      <4>1. Writing(n) = {}
        BY <2>3, <3>3 DEF ExcuseOverlap
      <4>2. Writing(n)' = {c} /\ ~LostKey(c)'
        BY <3>1, <3>2, <3>3, <4>1 DEF Writing, At, LostKey
      <4>3. disk'[n] # "bad"
        BY <2>1, <2>3, <3>3
      <4> QED
        BY <4>2, <4>3, OneAfter
    <3>4. CASE conn[c].name # n
      <4>1. n \in excused => n \in excused'
        BY <2>3, <3>4 DEF ExcuseOverlap
      <4> QED
        BY <1>0, <2>1, <3>1, <3>2, <3>4, <4>1, FilesFrame
    <3> QED
      BY <3>3, <3>4
  <2> QED
    BY <1>12, <2>2, <2>3, Zenon DEF RenameRead
<1>13. ASSUME NEW c \in Conns, RenameMove(c) PROVE FilesAt(n)'
  <2> DEFINE from == conn[c].name
             to == conn[c].to
  <2>1. conn[c].pc = "renaming" /\ from \in Names /\ to \in Names
    BY <1>13, HandlerUpdates, Zenon DEF RenameMove, VaultTypeOK
  <2>2. CASE /\ Return(c) /\ excused' = excused
             /\ \/ disk' = disk
                \/ disk[from] # "none" /\ disk' = [disk EXCEPT ![from] = MetaWritten(c)]
    <3>1. conn'[c].pc = "idle" /\ \A k \in Conns : k # c => conn'[k] = conn[k]
      BY <2>2 DEF Return, Idle, VaultTypeOK
    <3>2. CASE from = n /\ disk' # disk
      <4>1. disk[n] # "none" /\ disk'[n] = MetaWritten(c)
        BY <2>1, <2>2, <3>2 DEF VaultTypeOK
      <4> QED
        BY <1>9, <2>1, <2>2, <3>1, <3>2, <4>1 DEF WritingPcs
    <3>3. CASE from # n
      <4>1. disk'[n] = disk[n]
        BY <2>1, <2>2, <3>3 DEF VaultTypeOK
      <4> QED
        BY <1>2, <2>1, <2>2, <3>1, <3>3, <4>1 DEF WritingPcs
    <3>4. CASE from = n /\ disk' = disk
      <4>1. c \in Writing(n)
        BY <2>1, <3>4 DEF Writing, At
      <4>2. Writing(n) = {c} /\ disk'[n] # "bad"
        BY <1>0, <2>1, <2>2, <3>4, <4>1, LoneWriter DEF Reading
      <4>3. Writing(n)' \subseteq {}
        BY <3>1, <4>2 DEF Writing, At
      <4> QED
        BY <4>2, <4>3, AloneAfter
    <3> QED
      BY <3>2, <3>3, <3>4
  <2>3. CASE /\ disk[from] # "none" /\ disk[to] = "none"
             /\ disk' = [disk EXCEPT ![from] = "none", ![to] = MetaWritten(c)]
             /\ excused' = (excused \ {from, to}) \cup
                    (IF from \in excused \/ Writing(from) # {c} \/ Writing(to) # {} THEN {to} ELSE {})
             /\ Ends(c, Writing(from) \cup Writing(to))
    <3>1. conn'[c].pc = "idle"
      BY <2>3 DEF Ends, Idle
    <3>2. \A k \in Conns : k # c => conn'[k].pc = conn[k].pc /\ conn'[k].name = conn[k].name
      BY <2>3, OthersKept
    <3>3. from # n
      BY <2>1, <2>3 DEF VaultTypeOK
    <3>4. CASE to = n
      <4>1. from \notin excused /\ Writing(from) = {c} /\ Writing(n) = {}
        BY <2>3, <3>4
      <4>2. FilesAt(from)
        BY <2>1, FilesAtEach
      <4>3. ~LostKey(c)
        BY <2>1, <2>3, <4>1, <4>2, LoneWriter
      <4>4. disk'[n] = "good"
        BY <2>1, <2>3, <3>4, <4>3 DEF LostKey, MetaWritten, VaultTypeOK
      <4>5. Writing(n)' \subseteq {}
        BY <3>1, <3>2, <4>1 DEF Writing, At
      <4> QED
        BY <4>4, <4>5, AloneAfter
    <3>5. CASE to # n
      <4>1. disk'[n] = disk[n] /\ (n \in excused => n \in excused')
        BY <2>3, <3>3, <3>5 DEF VaultTypeOK
      <4>2. \A k \in Conns : k # c => conn'[k] = conn[k] \/ conn[k].name # n
        BY <2>3, <3>3, <3>5 DEF Ends, Writing, At
      <4> QED
        BY <1>0, <3>1, <3>2, <3>3, <4>1, <4>2, FilesFrame DEF WritingPcs
    <3> QED
      BY <3>4, <3>5
  <2> QED
    BY <1>13, <2>2, <2>3, Zenon DEF RenameMove
<1>14. ASSUME NEW c \in Conns, DeleteWipe(c) PROVE FilesAt(n)'
  <2>1. conn'[c].pc = "idle" /\ conn[c].pc = "wiping"
    BY <1>14 DEF DeleteWipe, Ends, Idle
  <2>2. \A k \in Conns : k # c => conn'[k].pc = conn[k].pc /\ conn'[k].name = conn[k].name
    BY <1>14, OthersKept DEF DeleteWipe
  <2>3. conn[c].name # n /\ disk'[n] = disk[n] /\ (n \in excused => n \in excused')
    BY <1>14 DEF DeleteWipe, VaultTypeOK
  <2>4. \A k \in Conns : k # c => conn'[k] = conn[k] \/ conn[k].name # n
    BY <1>14, <2>3 DEF DeleteWipe, Ends, Writing, At
  <2> QED
    BY <1>0, <2>1, <2>2, <2>3, <2>4, FilesFrame DEF WritingPcs
<1>15. CASE \/ \E m \in Names : UseVault(m) \/ Age(m) \/ JanitorLock(m)
            \/ JanitorEnds \/ (\E t \in Tokens : EndToken(t)) \/ UNCHANGED lvars
  <2>1. disk' = disk /\ conn' = conn /\ excused' = excused
    BY <1>15 DEF UseVault, Age, JanitorLock, JanitorEnds, EndToken, lvars
  <2> QED
    BY <1>0, <2>1, FilesFrame
<1>16. CASE Restart
  <2>1. Writing(n) = {} /\ n \notin excused /\ disk'[n] = disk[n]
    BY <1>16 DEF Restart
  <2>2. Writing(n)' \subseteq {}
    BY <1>16 DEF Restart, Writing, At, Idle
  <2> QED
    BY <1>0, <2>1, <2>2, AloneAfter DEF FilesAt
<1> QED
  BY <1>3, <1>4, <1>5, <1>6, <1>7, <1>8, <1>10, <1>11, <1>12, <1>13, <1>14, <1>15, <1>16
  DEF LNext, HandlerStep, RenameEvict, DeleteEvict

\* A vault refuses to open only while its files are being written, or because
\* two handlers wrote them at once, one died part way, or a password change
\* failed after replacing wrapped.key: whatever number of inits, password
\* changes, renames and deletes run, succeeding or failing at any write, none
\* of them in another way leaves wrapped.key and meta.json in disagreement.
THEOREM MismatchHasACauseHolds == LSpec => []MismatchHasACause
<1>1. LInit => FilesInv
  BY DEF LInit, FilesInv, MismatchHasACause, WritersOverlap, LostKeyIsExcused, ReadersFoundItGood,
     Writing, At, Idle
<1>2. FilesInv => MismatchHasACause
  BY DEF FilesInv
<1> QED
  BY <1>1, <1>2, VaultTypeCorrect, FilesNext, PTL DEF LSpec

-----------------------------------------------------------------------------
(* The scopes, rows and claims of a vault.                                  *)

\* Ids are below their counters and stand for one name; a project has a default env.
IdsSound ==
    /\ lastProj \in Nat /\ lastEnv \in Nat
    /\ \A q \in projects : q.id \in 1..lastProj /\ q = [id |-> q.id, name |-> q.name]
    /\ \A q, s \in projects : q.id = s.id \/ q.name = s.name => q = s
    /\ \A x \in envs : /\ x.id \in 1..lastEnv /\ x.proj \in 1..lastProj
                       /\ x = [id |-> x.id, proj |-> x.proj, name |-> x.name]
    /\ \A x, y \in envs : x.id = y.id \/ (x.proj = y.proj /\ x.name = y.name) => x = y
    /\ \A q \in projects : \E x \in envs : x.proj = q.id /\ x.name = DefEnv

\* A capability holds keys of envs handed out; one by scope has its authored key
\* and both keys of the default env it inherits from.
KeysSound(g) ==
    g # NoGrant =>
        /\ \A k \in g.keys : k.kind = "scope" => k.env \in 1..lastEnv
        /\ g = [proj |-> g.proj, env |-> g.env, wild |-> g.wild, names |-> g.names, auth |-> g.auth,
                put |-> g.put, keys |-> g.keys]
        /\ g.wild => \A x \in envs : ScopeKey(x.id) \in g.keys =>
              /\ AuthoredKey(x.id) \in g.keys
              /\ g.env # DefEnv => \A d \in envs : d.proj = x.proj /\ d.name = DefEnv =>
                    DefaultScopeKey(d.id) \in g.keys /\ DefaultAuthoredKey(d.id) \in g.keys

\* What a call carries.
CallStages == {"own", "over", "overOwn", "record", "forget", "refresh", "write", "delete", "import"}
\* A call under way.
IsCall(k) ==
    /\ k = [stage |-> k.stage, proj |-> k.proj, env |-> k.env, names |-> k.names, cred |-> k.cred,
            authKey |-> k.authKey, unattended |-> k.unattended, rec |-> k.rec, mig |-> k.mig]
    /\ k.stage \in CallStages

\* Every caller has a call under way or none.
CallsShaped ==
    /\ DOMAIN call = Callers
    /\ \A c \in Callers : call[c] = NoCall \/ IsCall(call[c])

\* No row is outside the envs.
RowsSound == \A r \in rows : r.env # 0

\* What was stored with nobody there is its author's, for every name that no call
\* is settling and whose claim is not loose.
ClaimsSound ==
    \A k \in registry :
        k.authored => ClaimOn(k) \in loose \/ Unsettled(ClaimOn(k)) \/ Stands(k.proj, k.env, k.name, k.who)

\* A put is about one name and an import about one row.
CallSound(c) ==
    LET k == call[c]
    IN k # NoCall =>
       /\ k.stage \in {"own", "over", "overOwn", "record"} => \E n : k.names = {n}
       /\ k.stage = "import" => \E r : k.mig = {r}

\* Rows and claims, whatever calls overlap.
OwnInv == RowsSound /\ ClaimsSound /\ \A c \in Callers : CallSound(c)

-----------------------------------------------------------------------------
(* Every row opens for what it is called.                                   *)

\* Every row that is not on the authored scheme is sealed for its own scope.
LEMMA SealsOpen ==
    /\ \A e, n, v : OpensUnderVaultKey(SealEntry(e, n, v))
    /\ \A c, e, n, k : PutRow(c, e, n, k).ver # AuthoredKeyed => OpensUnderVaultKey(PutRow(c, e, n, k))
    /\ \A r, to : OpensUnderVaultKey(Renamed(r, to))
  <1>1. \A e, n, v : OpensUnderVaultKey(SealEntry(e, n, v))
    BY DEF SealEntry, Row, OpensUnderVaultKey
  <1>2. \A e, n, k, v : SealAuthored(e, n, k, v).ver = AuthoredKeyed
    BY DEF SealAuthored, Row
  <1>. QED
    BY <1>1, <1>2 DEF PutRow, Renamed

\* What an older byn left behind opens.
LEMMA RowsOpenAtStart == EInit => RowsOpen
  <1>1. \A r \in LegacyRows : OpensUnderVaultKey(r)
    BY LegacyAssumption DEF OpensUnderVaultKey, VaultKeyed, RowKeyed, EnvKeyed, AuthoredKeyed
  <1>. QED
    BY <1>1 DEF EInit, RowsOpen

\* Rows that come with a step.
NewRowsOpen == \A r \in rows' : r \in rows \/ r.ver = AuthoredKeyed \/ OpensUnderVaultKey(r)

\* A structural call writes no row.
LEMMA StructureRows == Structure => rows' \subseteq rows
  <1>1. \A p : HandleProjectCreate(p) => rows' = rows
    BY DEF HandleProjectCreate
  <1>2. \A p, cred : HandleProjectDelete(p, cred) => rows' \subseteq rows
    BY DEF HandleProjectDelete
  <1>3. \A p, to, cred : HandleProjectRename(p, to, cred) => rows' = rows
    BY DEF HandleProjectRename
  <1>4. \A p, e : HandleEnvCreate(p, e) => rows' = rows
    BY DEF HandleEnvCreate
  <1>5. \A p, e, cred : HandleEnvDelete(p, e, cred) => rows' \subseteq rows
    BY DEF HandleEnvDelete
  <1>6. \A p, e, to, cred : HandleEnvRename(p, e, to, cred) => rows' = rows
    BY DEF HandleEnvRename
  <1>7. \A p, e, cred : HandleEnvClear(p, e, cred) => rows' \subseteq rows
    BY DEF HandleEnvClear
  <1>. QED
    BY <1>1, <1>2, <1>3, <1>4, <1>5, <1>6, <1>7 DEF Structure

\* A put that creates, and a rename, seal for the row's own scope.
LEMMA RequestRows == \A c : Requests(c) => NewRowsOpen
  <1>. TAKE c
  <1>1. \A m, cred : GrantRead(c, m, cred) => rows' = rows
    BY DEF GrantRead
  <1>2. \A p, e, n, cred : HandlePut(c, p, e, n, cred) => NewRowsOpen
    BY SealsOpen DEF HandlePut, Upsert, NewRowsOpen
  <1>3. \A p, e, n, cred : HandleDelete(c, p, e, n, cred) => rows' = rows
    BY DEF HandleDelete
  <1>4. \A p, e, n, to, cred : HandleRename(c, p, e, n, to, cred) => NewRowsOpen
    BY SealsOpen DEF HandleRename, NewRowsOpen
  <1>5. \A p, e, n, cred : ImportRead(c, p, e, n, cred) => rows' = rows
    BY DEF ImportRead
  <1>. QED
    BY <1>1, <1>2, <1>3, <1>4, <1>5 DEF Requests, NewRowsOpen

\* So do an overwrite, a migration and an import.
LEMMA StepRows == \A c : Steps(c) => NewRowsOpen
  <1>. TAKE c
  <1>1. PutDecide(c) \/ RecordAuthored(c) \/ ForgetAuthored(c) \/ SettleFails(c) \/ RefreshRead(c) => rows' = rows
    BY DEF PutDecide, RecordAuthored, ForgetAuthored, SettleFails, Settling, RefreshRead
  <1>2. PutOverwrite(c) => NewRowsOpen
    BY SealsOpen DEF PutOverwrite, Upsert, NewRowsOpen
  <1>3. WriteGrant(c) => NewRowsOpen
    BY SealsOpen DEF WriteGrant, Migrated, NewRowsOpen
  <1>4. DeleteEnvVar(c) => rows' \subseteq rows
    BY DEF DeleteEnvVar
  <1>5. ImportWrite(c) => NewRowsOpen
    BY SealsOpen DEF ImportWrite, NewRowsOpen
  <1>. QED
    BY <1>1, <1>2, <1>3, <1>4, <1>5 DEF Steps, NewRowsOpen

\* Whatever calls overlap and whatever scopes move, a row that is not on the
\* authored scheme opens under the vault key with the identity it has (openEntry
\* and sealEntry, store.go).
THEOREM RowsOpenHolds == ESpec => []RowsOpen
  <1>1. ASSUME RowsOpen, [ENext]_evars PROVE RowsOpen'
    <2>1. NewRowsOpen
      <3>1. Lock \/ Unlock \/ DaemonRestarts \/ HandleTrustRemove \/ UNCHANGED evars => rows' = rows
        BY DEF Lock, Unlock, DaemonRestarts, HandleTrustRemove, evars
      <3>. QED
        BY <1>1, <3>1, StructureRows, RequestRows, StepRows DEF ENext, NewRowsOpen
    <2>. QED
      BY <1>1, <2>1 DEF RowsOpen, NewRowsOpen, OpensUnderVaultKey
  <1>. QED
    BY <1>1, RowsOpenAtStart, PTL DEF ESpec

-----------------------------------------------------------------------------
(* What calls and structural steps leave alone.                             *)

\* The vault starts with one project and its two envs.
LEMMA IdsAtStart == EInit => IdsSound
  BY EntriesAssumption DEF EInit, IdsSound

\* A structural call keeps ids unique and below their counters.
LEMMA IdsStep == IdsSound /\ Structure => IdsSound'
  <1>. SUFFICES ASSUME IdsSound, Structure PROVE IdsSound'
    OBVIOUS
  <1>1. ASSUME NEW p \in ProjNames, HandleProjectCreate(p) PROVE IdsSound'
    <2>. DEFINE q == [id |-> lastProj + 1, name |-> p]
                x == [id |-> lastEnv + 1, proj |-> lastProj + 1, name |-> DefEnv]
    <2>1. /\ projects' = projects \cup {q} /\ lastProj' = lastProj + 1
          /\ envs' = envs \cup {x} /\ lastEnv' = lastEnv + 1
          /\ \A s \in projects : s.name # p
      BY <1>1 DEF HandleProjectCreate, CreateEnvRow, ProjectsNamed
    <2>2. /\ q.id = lastProj + 1 /\ q.name = p /\ q = [id |-> q.id, name |-> q.name]
          /\ x.id = lastEnv + 1 /\ x.proj = lastProj + 1 /\ x.name = DefEnv
          /\ x = [id |-> x.id, proj |-> x.proj, name |-> x.name]
      OBVIOUS
    <2>. HIDE DEF q, x
    <2>. QED
      BY <2>1, <2>2 DEF IdsSound
  <1>2. ASSUME NEW p \in ProjNames, NEW cred \in Creds, HandleProjectDelete(p, cred) PROVE IdsSound'
    <2>. PICK q \in projects :
           projects' = projects \ {q} /\ envs' = envs \ {x \in envs : x.proj = q.id}
      BY <1>2 DEF HandleProjectDelete, ProjectsNamed
    <2>1. lastProj' = lastProj /\ lastEnv' = lastEnv
      BY <1>2 DEF HandleProjectDelete
    <2>. QED
      BY <2>1 DEF IdsSound
  <1>3. ASSUME NEW p \in ProjNames, NEW to \in ProjNames, NEW cred \in Creds, HandleProjectRename(p, to, cred)
        PROVE  IdsSound'
    <2>. PICK q \in projects : projects' = (projects \ {q}) \cup {[q EXCEPT !.name = to]}
      BY <1>3 DEF HandleProjectRename, ProjectsNamed
    <2>. DEFINE s == [q EXCEPT !.name = to]
    <2>1. s.id = q.id /\ s.name = to /\ s = [id |-> s.id, name |-> s.name]
      BY DEF IdsSound
    <2>2. UNCHANGED <<lastProj, envs, lastEnv>> /\ \A t \in projects : t.name # to
      BY <1>3 DEF HandleProjectRename, ProjectsNamed
    <2>3. projects' = (projects \ {q}) \cup {s}
      OBVIOUS
    <2>. HIDE DEF s
    <2>. QED
      BY <2>1, <2>2, <2>3 DEF IdsSound
  <1>4. ASSUME NEW p \in ProjNames, NEW e \in EnvNames, HandleEnvCreate(p, e) PROVE IdsSound'
    <2>. PICK q \in projects : q.name = p /\ CreateEnvRow([id |-> lastEnv + 1, proj |-> q.id, name |-> e])
      BY <1>4 DEF HandleEnvCreate, ProjectsNamed
    <2>. DEFINE x == [id |-> lastEnv + 1, proj |-> q.id, name |-> e]
    <2>1. x.id = lastEnv + 1 /\ x.proj = q.id /\ x.name = e /\ x = [id |-> x.id, proj |-> x.proj, name |-> x.name]
      OBVIOUS
    <2>2. /\ UNCHANGED <<projects, lastProj>> /\ envs' = envs \cup {x} /\ lastEnv' = lastEnv + 1
          /\ \A y \in envs : y.name = e => y.proj # q.id
      BY <1>4 DEF HandleEnvCreate, CreateEnvRow, EnvsNamed, ProjectsNamed
    <2>. HIDE DEF x
    <2>. QED
      BY <2>1, <2>2 DEF IdsSound
  <1>5. ASSUME NEW p \in ProjNames, NEW e \in EnvNames, NEW cred \in Creds, HandleEnvDelete(p, e, cred)
        PROVE  IdsSound'
    <2>. PICK x \in envs : x.name = e /\ envs' = envs \ {x}
      BY <1>5 DEF HandleEnvDelete, EnvsNamed
    <2>1. UNCHANGED <<projects, lastProj, lastEnv>> /\ e # DefEnv
      BY <1>5 DEF HandleEnvDelete
    <2>. QED
      BY <2>1 DEF IdsSound
  <1>6. ASSUME NEW p \in ProjNames, NEW e \in EnvNames, NEW to \in EnvNames, NEW cred \in Creds,
               HandleEnvRename(p, e, to, cred)
        PROVE  IdsSound'
    <2>. PICK x \in envs : /\ x.name = e /\ (\E q \in ProjectsNamed(p) : x.proj = q.id)
                           /\ envs' = (envs \ {x}) \cup {[x EXCEPT !.name = to]}
      BY <1>6 DEF HandleEnvRename, EnvsNamed
    <2>. DEFINE y == [x EXCEPT !.name = to]
    <2>1. y.id = x.id /\ y.proj = x.proj /\ y.name = to /\ y = [id |-> y.id, proj |-> y.proj, name |-> y.name]
      BY DEF IdsSound
    <2>2. /\ UNCHANGED <<projects, lastProj, lastEnv>> /\ DefEnv # e /\ DefEnv # to
          /\ \A z \in envs : z.name = to => z.proj # x.proj
      BY <1>6 DEF HandleEnvRename, EnvsNamed
    <2>3. envs' = (envs \ {x}) \cup {y}
      OBVIOUS
    <2>. HIDE DEF y
    <2>. QED
      BY <2>1, <2>2, <2>3 DEF IdsSound
  <1>7. ASSUME NEW p \in ProjNames, NEW e \in EnvNames, NEW cred \in Creds, HandleEnvClear(p, e, cred)
        PROVE  IdsSound'
    BY <1>7 DEF HandleEnvClear, scopeVars, IdsSound
  <1>. QED
    BY <1>1, <1>2, <1>3, <1>4, <1>5, <1>6, <1>7 DEF Structure

\* A call leaves the scopes alone.
LEMMA RequestScopes ==
    ASSUME NEW c, Requests(c)
    PROVE  UNCHANGED scopeVars
  <1>1. \A m, cred : GrantRead(c, m, cred) => UNCHANGED scopeVars
    BY DEF GrantRead
  <1>2. \A p, e, n, cred : HandlePut(c, p, e, n, cred) => UNCHANGED scopeVars
    BY DEF HandlePut
  <1>3. \A p, e, n, cred : HandleDelete(c, p, e, n, cred) => UNCHANGED scopeVars
    BY DEF HandleDelete
  <1>4. \A p, e, n, to, cred : HandleRename(c, p, e, n, to, cred) => UNCHANGED scopeVars
    BY DEF HandleRename
  <1>5. \A p, e, n, cred : ImportRead(c, p, e, n, cred) => UNCHANGED scopeVars
    BY DEF ImportRead
  <1>. QED
    BY <1>1, <1>2, <1>3, <1>4, <1>5 DEF Requests

\* So does each step of it.
LEMMA StepScopes ==
    ASSUME NEW c, Steps(c)
    PROVE  UNCHANGED <<scopeVars, locked, ops>>
  BY DEF Steps, PutDecide, PutOverwrite, RecordAuthored, ForgetAuthored, SettleFails, Settling, RefreshRead, WriteGrant,
         DeleteEnvVar, ImportWrite

\* Only the call of c moves.
OthersStay(c) == DOMAIN call' = Callers /\ \A d \in Callers : d # c => call'[d] = call[d]

\* A call that goes on keeps what it carries.
LEMMA GoesOn ==
    ASSUME CallsShaped, NEW c \in Callers, call[c] # NoCall, NEW s \in CallStages, call' = To(c, s)
    PROVE  /\ OthersStay(c) /\ IsCall(call'[c]) /\ call'[c] # NoCall
           /\ call'[c] = [call[c] EXCEPT !.stage = s] /\ call'[c].stage = s
           /\ call'[c].proj = call[c].proj /\ call'[c].env = call[c].env /\ call'[c].names = call[c].names
           /\ call'[c].authKey = call[c].authKey /\ call'[c].rec = call[c].rec /\ call'[c].mig = call[c].mig
  <1>1. IsCall(call[c]) /\ DOMAIN call = Callers
    BY DEF CallsShaped
  <1>. DEFINE k == call[c]
              k2 == [k EXCEPT !.stage = s]
  <1>2. call'[c] = k2 /\ OthersStay(c)
    BY <1>1 DEF To, OthersStay
  <1>3. /\ IsCall(k2) /\ k2.stage = s /\ k2.proj = k.proj /\ k2.env = k.env /\ k2.names = k.names
        /\ k2.authKey = k.authKey /\ k2.rec = k.rec /\ k2.mig = k.mig
    <2>. HIDE DEF k
    <2>1. IsCall(k)
      BY <1>1 DEF k
    <2>. QED
      BY <2>1 DEF IsCall
  <1>4. k2 # NoCall
    <2>. HIDE DEF k2
    <2>. QED
      BY <1>3 DEF NoCall, IsCall, CallStages
  <1>. QED
    BY <1>2, <1>3, <1>4

\* A call that ends.
LEMMA IsDone ==
    ASSUME CallsShaped, NEW c \in Callers, call' = Done(c)
    PROVE  OthersStay(c) /\ call'[c] = NoCall
  BY DEF CallsShaped, Done, OthersStay

\* A call as it starts.
LEMMA CallShape ==
    ASSUME NEW s \in CallStages, NEW p, NEW e, NEW ns, NEW cred, NEW ak, NEW un, NEW rc, NEW mg
    PROVE  LET k == [stage |-> s, proj |-> p, env |-> e, names |-> ns, cred |-> cred, authKey |-> ak,
                     unattended |-> un, rec |-> rc, mig |-> mg]
           IN IsCall(k) /\ k # NoCall
  <1>. DEFINE k == [stage |-> s, proj |-> p, env |-> e, names |-> ns, cred |-> cred, authKey |-> ak,
                    unattended |-> un, rec |-> rc, mig |-> mg]
  <1>1. IsCall(k) /\ k.stage = s
    BY DEF IsCall
  <1>. HIDE DEF k
  <1>2. k # NoCall
    BY <1>1 DEF NoCall, CallStages
  <1>. QED
    BY <1>1, <1>2 DEF k

\* The calls when one starts.
LEMMA StartsAs ==
    ASSUME CallsShaped, NEW c \in Callers, NEW k, IsCall(k), k # NoCall, call' = [call EXCEPT ![c] = k]
    PROVE  OthersStay(c) /\ call'[c] = k /\ CallsShaped'
  BY DEF CallsShaped, OthersStay

\* The calls when one goes on or ends.
LEMMA Reshaped ==
    ASSUME CallsShaped, NEW c \in Callers, OthersStay(c), call'[c] = NoCall \/ IsCall(call'[c])
    PROVE  CallsShaped'
  BY DEF CallsShaped, OthersStay

\* What each request starts.
LEMMA Requested ==
    ASSUME CallsShaped, NEW c \in Callers, Requests(c)
    PROVE  /\ call[c] = NoCall /\ call'[c] # NoCall /\ IsCall(call'[c]) /\ OthersStay(c)
           /\ UNCHANGED <<scopeVars, locked, registry, grant, loose>>
           /\ LET k == call'[c]
              IN k.rec = NoGrant \/ \E m \in Manifests : k.rec = Trusted(m)
  <1>. DEFINE Goal == /\ call[c] = NoCall /\ call'[c] # NoCall /\ IsCall(call'[c]) /\ OthersStay(c)
                      /\ UNCHANGED <<scopeVars, locked, registry, grant, loose>>
                      /\ LET k == call'[c]
                         IN k.rec = NoGrant \/ \E m \in Manifests : k.rec = Trusted(m)
  <1>a. ASSUME NEW k, IsCall(k), k # NoCall, k.rec = NoGrant \/ (\E m \in Manifests : k.rec = Trusted(m)),
               call[c] = NoCall, UNCHANGED <<scopeVars, locked, registry, grant, loose>>,
               call' = [call EXCEPT ![c] = k]
        PROVE  Goal
    BY <1>a, StartsAs
  <1>s. {"own", "record", "write", "delete", "forget", "import"} \subseteq CallStages
    BY DEF CallStages
  <1>. HIDE DEF Goal
  <1>1. ASSUME NEW m \in Manifests, NEW cred, GrantRead(c, m, cred) PROVE Goal
    <2>. DEFINE k == [stage |-> "write", proj |-> m.proj, env |-> m.env, names |-> {}, cred |-> cred,
                      authKey |-> 0, unattended |-> FALSE, rec |-> Trusted(m),
                      mig |-> LegacyOf(m.proj, m.env, IF m.wild THEN ListEnvVars(m.proj, m.env) ELSE m.names)]
    <2>1. IsCall(k) /\ k # NoCall
      BY <1>s, CallShape
    <2>2. k.rec = NoGrant \/ (\E d \in Manifests : k.rec = Trusted(d))
      OBVIOUS
    <2>3. /\ call[c] = NoCall /\ UNCHANGED <<scopeVars, locked, registry, grant, loose>>
          /\ call' = [call EXCEPT ![c] = k]
      BY <1>1 DEF GrantRead
    <2>. HIDE DEF k
    <2>. QED
      BY <1>a, <2>1, <2>2, <2>3
  <1>2. ASSUME NEW p, NEW e, NEW n, NEW cred, HandlePut(c, p, e, n, cred) PROVE Goal
    <2>. DEFINE un == ~Attended(cred)
                keys == IF un THEN AuthoredKeyFor(p, e) ELSE {}
                ak == IF keys = {} THEN 0 ELSE CHOOSE j \in keys : TRUE
                s == IF Fetch(ScopeId(p, e), n) # {} THEN "own" ELSE "record"
                k == [stage |-> s, proj |-> p, env |-> e, names |-> {n}, cred |-> cred,
                      authKey |-> ak, unattended |-> un, rec |-> NoGrant, mig |-> {}]
    <2>3. /\ call[c] = NoCall /\ UNCHANGED <<scopeVars, locked, registry, grant, loose>>
          /\ call' = [call EXCEPT ![c] = k]
      BY <1>2 DEF HandlePut
    <2>4. s \in CallStages
      BY <1>s
    <2>. HIDE DEF un, ak, s
    <2>1. IsCall(k) /\ k # NoCall
      BY <2>4, CallShape
    <2>2. k.rec = NoGrant
      OBVIOUS
    <2>. HIDE DEF k
    <2>. QED
      BY <1>a, <2>1, <2>2, <2>3
  <1>3. ASSUME NEW p, NEW e, NEW n, NEW cred, HandleDelete(c, p, e, n, cred) PROVE Goal
    <2>. DEFINE k == [stage |-> "delete", proj |-> p, env |-> e, names |-> {n}, cred |-> cred,
                      authKey |-> 0, unattended |-> FALSE, rec |-> NoGrant, mig |-> {}]
    <2>1. IsCall(k) /\ k # NoCall
      BY <1>s, CallShape
    <2>2. k.rec = NoGrant \/ (\E m \in Manifests : k.rec = Trusted(m))
      OBVIOUS
    <2>3. /\ call[c] = NoCall /\ UNCHANGED <<scopeVars, locked, registry, grant, loose>>
          /\ call' = [call EXCEPT ![c] = k]
      BY <1>3 DEF HandleDelete, StartCall
    <2>. HIDE DEF k
    <2>. QED
      BY <1>a, <2>1, <2>2, <2>3
  <1>4. ASSUME NEW p, NEW e, NEW n, NEW to, NEW cred, HandleRename(c, p, e, n, to, cred) PROVE Goal
    <2>. DEFINE k == [stage |-> "forget", proj |-> p, env |-> e, names |-> {n, to}, cred |-> cred,
                      authKey |-> 0, unattended |-> FALSE, rec |-> NoGrant, mig |-> {}]
    <2>1. IsCall(k) /\ k # NoCall
      BY <1>s, CallShape
    <2>2. k.rec = NoGrant \/ (\E m \in Manifests : k.rec = Trusted(m))
      OBVIOUS
    <2>3. /\ call[c] = NoCall /\ UNCHANGED <<scopeVars, locked, registry, grant, loose>>
          /\ call' = [call EXCEPT ![c] = k]
      BY <1>4 DEF HandleRename, StartCall
    <2>. HIDE DEF k
    <2>. QED
      BY <1>a, <2>1, <2>2, <2>3
  <1>5. ASSUME NEW p, NEW e, NEW n, NEW cred, ImportRead(c, p, e, n, cred) PROVE Goal
    <2>. PICK r \in rows :
           call' = [call EXCEPT ![c] =
             [stage |-> "import", proj |-> p, env |-> e, names |-> {n},
              cred |-> IF locked THEN "import" ELSE cred, authKey |-> 0, unattended |-> FALSE,
              rec |-> NoGrant, mig |-> {r}]]
      BY <1>5 DEF ImportRead, Fetch
    <2>. DEFINE k == [stage |-> "import", proj |-> p, env |-> e, names |-> {n},
                      cred |-> IF locked THEN "import" ELSE cred, authKey |-> 0, unattended |-> FALSE,
                      rec |-> NoGrant, mig |-> {r}]
    <2>1. IsCall(k) /\ k # NoCall
      BY <1>s, CallShape
    <2>2. k.rec = NoGrant /\ call' = [call EXCEPT ![c] = k]
      OBVIOUS
    <2>3. /\ call[c] = NoCall /\ UNCHANGED <<scopeVars, locked, registry, grant, loose>>
      BY <1>5 DEF ImportRead
    <2>. HIDE DEF k
    <2>. QED
      BY <1>a, <2>1, <2>2, <2>3
  <1>. QED
    BY <1>1, <1>2, <1>3, <1>4, <1>5 DEF Requests, Goal

\* A field of a call that is replaced leaves the others.
LEMMA FieldOf ==
    ASSUME NEW k, IsCall(k)
    PROVE  /\ \A s \in CallStages :
                 LET u == [k EXCEPT !.stage = s]
                 IN IsCall(u) /\ u.stage = s /\ u.rec = k.rec /\ u.mig = k.mig
                    /\ u.names = k.names /\ u.proj = k.proj /\ u.env = k.env
           /\ \A rc :
                 LET u == [k EXCEPT !.rec = rc]
                 IN IsCall(u) /\ u.stage = k.stage /\ u.rec = rc /\ u.mig = k.mig
                    /\ u.names = k.names /\ u.proj = k.proj /\ u.env = k.env
           /\ \A mg :
                 LET u == [k EXCEPT !.mig = mg]
                 IN IsCall(u) /\ u.stage = k.stage /\ u.rec = k.rec /\ u.mig = mg
                    /\ u.names = k.names /\ u.proj = k.proj /\ u.env = k.env
  BY DEF IsCall

\* The call as RefreshRead leaves it.
Reread(c, rc, mg) == [call EXCEPT ![c].stage = "write", ![c].rec = rc, ![c].mig = mg]

\* A call that is about to write the capability it re-sealed.
LEMMA Refreshing ==
    ASSUME CallsShaped, NEW c \in Callers, call[c] # NoCall, NEW rc, NEW mg, call' = Reread(c, rc, mg)
    PROVE  /\ OthersStay(c) /\ IsCall(call'[c]) /\ call'[c] # NoCall /\ call'[c].stage = "write"
           /\ call'[c].rec = rc /\ call'[c].mig = mg /\ call'[c].names = call[c].names
  <1>. DEFINE k == call[c]
              k1 == [k EXCEPT !.stage = "write"]
              k2 == [k1 EXCEPT !.rec = rc]
              k3 == [k2 EXCEPT !.mig = mg]
  <1>1. IsCall(k) /\ DOMAIN call = Callers /\ "write" \in CallStages
    BY DEF CallsShaped, CallStages
  <1>2. call'[c] = [k EXCEPT !.stage = "write", !.rec = rc, !.mig = mg] /\ OthersStay(c)
    BY <1>1 DEF OthersStay, Reread
  <1>3. call'[c] = k3
    <2>. HIDE DEF k
    <2>. QED
      BY <1>2
  <1>4. IsCall(k1) /\ k1.stage = "write" /\ k1.names = k.names
    BY <1>1, FieldOf
  <1>. HIDE DEF k, k1
  <1>5. IsCall(k2) /\ k2.stage = "write" /\ k2.rec = rc /\ k2.names = k.names
    BY <1>4, FieldOf
  <1>. HIDE DEF k2
  <1>6. IsCall(k3) /\ k3.stage = "write" /\ k3.rec = rc /\ k3.mig = mg /\ k3.names = k.names
    BY <1>5, FieldOf
  <1>. HIDE DEF k3
  <1>7. k3 # NoCall
    BY <1>6 DEF NoCall
  <1>. QED
    BY <1>2, <1>3, <1>6, <1>7 DEF k

\* Every other step of a call ends it or moves it on, and leaves its record.
LEMMA Stepped ==
    ASSUME CallsShaped, NEW c \in Callers, Steps(c)
    PROVE  /\ OthersStay(c) /\ (call'[c] = NoCall \/ IsCall(call'[c]))
           /\ call'[c] # NoCall => \/ call'[c].rec = call[c].rec
                                   \/ RefreshRead(c) /\ grant # NoGrant /\ ~grant.wild
                                      /\ \E ns : call'[c].rec = [grant EXCEPT !.keys = SealCapability(grant.proj, grant.env, ns, FALSE)]
           /\ call[c] # NoCall
  <1>. DEFINE Goal == /\ OthersStay(c) /\ (call'[c] = NoCall \/ IsCall(call'[c]))
                      /\ call'[c] # NoCall => \/ call'[c].rec = call[c].rec
                                              \/ RefreshRead(c) /\ grant # NoGrant /\ ~grant.wild
                                                 /\ \E ns : call'[c].rec = [grant EXCEPT !.keys = SealCapability(grant.proj, grant.env, ns, FALSE)]
  <1>0. call[c] # NoCall
    BY DEF Steps, Under, Settling, PutDecide, PutOverwrite, RecordAuthored, ForgetAuthored, SettleFails,
           RefreshRead, WriteGrant, DeleteEnvVar, ImportWrite
  <1>s. {"over", "overOwn", "record", "forget", "refresh"} \subseteq CallStages
    BY DEF CallStages
  <1>a. ASSUME NEW s \in {"over", "overOwn", "record", "forget", "refresh"}, call' = To(c, s) PROVE Goal
    BY <1>0, <1>s, <1>a, GoesOn
  <1>b. ASSUME call' = Done(c) PROVE Goal
    BY <1>b, IsDone
  <1>. HIDE DEF Goal
  <1>1. ASSUME PutDecide(c) PROVE Goal
    BY <1>1, <1>a, <1>b DEF PutDecide
  <1>2. ASSUME PutOverwrite(c) PROVE Goal
    BY <1>2, <1>a, <1>b DEF PutOverwrite
  <1>3. ASSUME RecordAuthored(c) PROVE Goal
    BY <1>3, <1>a, <1>b DEF RecordAuthored
  <1>4. ASSUME ForgetAuthored(c) PROVE Goal
    BY <1>4, <1>a DEF ForgetAuthored
  <1>5. ASSUME RefreshRead(c) PROVE Goal
    <2>. DEFINE k == call[c]
                ns == grant.names \cup {j.name : j \in Claims(grant.proj, grant.env, VarNames)}
                keys == SealCapability(grant.proj, grant.env, ns, FALSE)
                rc == [grant EXCEPT !.keys = keys]
                mg == LegacyOf(grant.proj, grant.env, ns)
    <2>1. \/ call' = Done(c)
          \/ call' = Reread(c, rc, mg) /\ grant # NoGrant /\ ~grant.wild
      BY <1>5 DEF RefreshRead, Refreshes, Reread
    <2>2. CASE call' = Reread(c, rc, mg) /\ grant # NoGrant /\ ~grant.wild
      <3>1. OthersStay(c) /\ IsCall(call'[c]) /\ call'[c].rec = rc
        <4>. HIDE DEF rc, mg
        <4>. QED
          BY <1>0, <2>2, Refreshing
      <3>. QED
        BY <1>5, <2>2, <3>1 DEF Goal
    <2>. QED
      BY <1>b, <2>1, <2>2
  <1>6. ASSUME WriteGrant(c) PROVE Goal
    BY <1>6, <1>b DEF WriteGrant
  <1>7. ASSUME DeleteEnvVar(c) PROVE Goal
    BY <1>7, <1>a, <1>b DEF DeleteEnvVar
  <1>8. ASSUME ImportWrite(c) PROVE Goal
    BY <1>8, <1>a, <1>b DEF ImportWrite
  <1>9. ASSUME SettleFails(c) PROVE Goal
    BY <1>9, <1>a, <1>b DEF SettleFails
  <1>. QED
    BY <1>0, <1>1, <1>2, <1>3, <1>4, <1>5, <1>6, <1>7, <1>8, <1>9 DEF Steps, Goal

-----------------------------------------------------------------------------
(* What a grant by scope opens.                                             *)

\* An env found by names is one of the project of that name, and its id is the
\* scope's.
LEMMA Found ==
    ASSUME IdsSound, NEW p, NEW e
    PROVE  /\ ScopeId(p, e) # 0 => \E x \in envs : x.id = ScopeId(p, e) /\ x.name = e
                                      /\ \E q \in projects : q.name = p /\ x.proj = q.id
           /\ \A x \in envs, q \in projects : x.name = e /\ q.name = p /\ x.proj = q.id => ScopeId(p, e) = x.id
  <1>1. ASSUME EnvsNamed(p, e) # {}
        PROVE  \E x \in EnvsNamed(p, e) : ScopeId(p, e) = x.id
    BY <1>1 DEF ScopeId
  <1>2. EnvsNamed(p, e) = {} => ScopeId(p, e) = 0
    BY DEF ScopeId
  <1>3. \A x, y \in EnvsNamed(p, e) : x = y
    BY DEF EnvsNamed, ProjectsNamed, IdsSound
  <1>. QED
    BY <1>1, <1>2, <1>3 DEF EnvsNamed, ProjectsNamed

\* Keys of different kinds or envs are different keys.
LEMMA DistinctKeys ==
    /\ \A e, d : ScopeKey(e) = ScopeKey(d) <=> e = d
    /\ \A e : ScopeKey(e).kind = "scope" /\ ScopeKey(e).env = e
    /\ \A e : AuthoredKey(e).kind = "authored" /\ DefaultScopeKey(e).kind = "scope@default"
              /\ DefaultAuthoredKey(e).kind = "authored@default"
    /\ \A v, e, n : Key("row", v, e, n).kind = "row"
  BY DEF ScopeKey, AuthoredKey, DefaultScopeKey, DefaultAuthoredKey, Key

\* The keys of a new capability.
LEMMA CapturedKeys ==
    ASSUME NEW p, NEW e, NEW ns, NEW wild \in BOOLEAN
    PROVE  LET keys == SealCapability(p, e, ns, wild)
           IN /\ \A k \in keys : k.kind = "scope" => wild /\ ScopeId(p, e) # 0 /\ k = ScopeKey(ScopeId(p, e))
              /\ keys # {} => AuthoredKey(ScopeId(p, e)) \in keys
              /\ keys # {} /\ wild /\ e # DefEnv =>
                    DefaultScopeKey(ScopeId(p, DefEnv)) \in keys /\ DefaultAuthoredKey(ScopeId(p, DefEnv)) \in keys
  <1>1. \A ms : \A k \in CaptureRowKeys(p, e, ms) : k.kind = "row"
    BY DistinctKeys DEF CaptureRowKeys
  <1>2. \A k \in CaptureDefaultKeys(p, e, wild) : k.kind # "scope"
    BY DistinctKeys DEF CaptureDefaultKeys
  <1>. QED
    BY <1>1, <1>2, DistinctKeys DEF SealCapability, CaptureDefaultKeys

\* The record of a trusted .byn holds the keys its scope asks for.
LEMMA TrustedSound ==
    ASSUME IdsSound, NEW m \in Manifests
    PROVE  KeysSound(Trusted(m))
  <1>. DEFINE g == Trusted(m)
              keys == SealCapability(m.proj, m.env, m.names, m.wild)
              s == ScopeId(m.proj, m.env)
  <1>1. /\ g = [proj |-> g.proj, env |-> g.env, wild |-> g.wild, names |-> g.names, auth |-> g.auth,
                put |-> g.put, keys |-> g.keys]
        /\ g.keys = keys /\ g.wild = m.wild /\ g.env = m.env
    BY DEF Trusted
  <1>2. /\ \A k \in keys : k.kind = "scope" => s # 0 /\ k = ScopeKey(s)
        /\ keys # {} => AuthoredKey(s) \in keys
        /\ keys # {} /\ m.wild /\ m.env # DefEnv =>
              DefaultScopeKey(ScopeId(m.proj, DefEnv)) \in keys /\ DefaultAuthoredKey(ScopeId(m.proj, DefEnv)) \in keys
    BY CapturedKeys, EntriesAssumption
  <1>. HIDE DEF g, keys, s
  <1>3. \A k \in keys : k.kind = "scope" => k.env \in 1..lastEnv
    BY <1>2, Found, DistinctKeys DEF IdsSound, s
  <1>4. ASSUME NEW x \in envs, ScopeKey(x.id) \in keys, m.wild
        PROVE  /\ AuthoredKey(x.id) \in keys
               /\ m.env # DefEnv => \A d \in envs : d.proj = x.proj /\ d.name = DefEnv =>
                    DefaultScopeKey(d.id) \in keys /\ DefaultAuthoredKey(d.id) \in keys
    <2>1. x.id = s /\ s # 0
      BY <1>2, <1>4, DistinctKeys
    <2>2. PICK q \in projects : q.name = m.proj /\ x.proj = q.id
      BY <2>1, Found DEF IdsSound, s
    <2>3. \A d \in envs : d.proj = x.proj /\ d.name = DefEnv => d.id = ScopeId(m.proj, DefEnv)
      BY <2>2, Found
    <2>. QED
      BY <1>2, <1>4, <2>1, <2>3
  <1>. QED
    BY <1>1, <1>3, <1>4 DEF KeysSound, g

\* A grant by names that follows what is stored.
LEMMA RefreshedSound ==
    ASSUME NEW g, g # NoGrant, KeysSound(g), ~g.wild, NEW ns
    PROVE  KeysSound([g EXCEPT !.keys = SealCapability(g.proj, g.env, ns, FALSE)])
  <1>. DEFINE keys == SealCapability(g.proj, g.env, ns, FALSE)
              h == [g EXCEPT !.keys = keys]
  <1>1. \A k \in keys : k.kind # "scope"
    BY CapturedKeys
  <1>. HIDE DEF keys
  <1>2. /\ h.keys = keys /\ h.wild = g.wild
        /\ h = [proj |-> h.proj, env |-> h.env, wild |-> h.wild, names |-> h.names, auth |-> h.auth,
                put |-> h.put, keys |-> h.keys]
    BY DEF KeysSound
  <1>. HIDE DEF h
  <1>3. KeysSound(h)
    BY <1>1, <1>2 DEF KeysSound
  <1>. QED
    BY <1>3 DEF h, keys

\* What a structural call does to the envs.
LEMMA EnvsMove ==
    ASSUME IdsSound, Structure
    PROVE  /\ lastEnv' \in Nat /\ lastEnv <= lastEnv'
           /\ \A x \in envs' : \/ x \in envs
                               \/ x.id = lastEnv + 1 /\ (x.name = DefEnv => x.proj = lastProj + 1)
                               \/ x.name # DefEnv /\ \E y \in envs : x.id = y.id /\ x.proj = y.proj
  <1>1. ASSUME NEW p, HandleProjectCreate(p)
        PROVE  lastEnv' = lastEnv + 1 /\ envs' = envs \cup {[id |-> lastEnv + 1, proj |-> lastProj + 1, name |-> DefEnv]}
    BY <1>1 DEF HandleProjectCreate, CreateEnvRow
  <1>2. ASSUME NEW p, NEW cred, HandleProjectDelete(p, cred) PROVE lastEnv' = lastEnv /\ envs' \subseteq envs
    BY <1>2 DEF HandleProjectDelete
  <1>3. ASSUME NEW p, NEW to, NEW cred, HandleProjectRename(p, to, cred) PROVE lastEnv' = lastEnv /\ envs' = envs
    BY <1>3 DEF HandleProjectRename
  <1>4. ASSUME NEW p, NEW e, HandleEnvCreate(p, e)
        PROVE  lastEnv' = lastEnv + 1 /\ \A x \in envs' : x \in envs \/ (x.id = lastEnv + 1 /\ x.name # DefEnv)
    BY <1>4 DEF HandleEnvCreate, CreateEnvRow
  <1>5. ASSUME NEW p, NEW e, NEW cred, HandleEnvDelete(p, e, cred) PROVE lastEnv' = lastEnv /\ envs' \subseteq envs
    BY <1>5 DEF HandleEnvDelete
  <1>6. ASSUME NEW p, NEW e, NEW to, NEW cred, HandleEnvRename(p, e, to, cred)
        PROVE  /\ lastEnv' = lastEnv
               /\ \A x \in envs' : x \in envs \/ (x.name # DefEnv /\ \E y \in envs : x.id = y.id /\ x.proj = y.proj)
    <2>. PICK x \in envs : envs' = (envs \ {x}) \cup {[x EXCEPT !.name = to]}
      BY <1>6 DEF HandleEnvRename, EnvsNamed
    <2>. DEFINE y == [x EXCEPT !.name = to]
    <2>1. y.id = x.id /\ y.proj = x.proj /\ y.name = to
      BY DEF IdsSound
    <2>2. lastEnv' = lastEnv /\ to # DefEnv
      BY <1>6 DEF HandleEnvRename
    <2>. QED
      BY <2>1, <2>2
  <1>7. ASSUME NEW p, NEW e, NEW cred, HandleEnvClear(p, e, cred) PROVE lastEnv' = lastEnv /\ envs' = envs
    BY <1>7 DEF HandleEnvClear, scopeVars
  <1>. QED
    BY <1>1, <1>2, <1>3, <1>4, <1>5, <1>6, <1>7 DEF Structure, IdsSound

\* A capability stays sound through a change of scopes.
LEMMA KeysStay ==
    ASSUME IdsSound, NEW g, KeysSound(g), Structure \/ UNCHANGED scopeVars
    PROVE  KeysSound(g)'
  <1>1. CASE UNCHANGED scopeVars
    BY <1>1 DEF KeysSound, scopeVars
  <1>2. CASE Structure /\ g # NoGrant
    <2>1. \A k \in g.keys : k.kind = "scope" => k.env \in 1..lastEnv'
      BY <1>2, EnvsMove DEF KeysSound, IdsSound
    <2>2. ASSUME g.wild, NEW x \in envs', ScopeKey(x.id) \in g.keys
          PROVE  /\ AuthoredKey(x.id) \in g.keys
                 /\ g.env # DefEnv => \A d \in envs' : d.proj = x.proj /\ d.name = DefEnv =>
                      DefaultScopeKey(d.id) \in g.keys /\ DefaultAuthoredKey(d.id) \in g.keys
      <3>1. x.id \in 1..lastEnv
        BY <1>2, <2>2, DistinctKeys DEF KeysSound
      <3>2. PICK y \in envs : y.id = x.id /\ y.proj = x.proj
        BY <1>2, <3>1, EnvsMove DEF IdsSound
      <3>3. \A d \in envs' : d.proj = x.proj /\ d.name = DefEnv => d \in envs
        BY <1>2, <3>2, EnvsMove DEF IdsSound
      <3>. QED
        BY <1>2, <2>2, <3>2, <3>3 DEF KeysSound
    <2>. QED
      BY <1>2, <2>1, <2>2 DEF KeysSound
  <1>3. CASE g = NoGrant
    BY <1>3 DEF KeysSound
  <1>. QED
    BY <1>1, <1>2, <1>3

\* The inductive invariant of wildcard grants.
GrantInv ==
    /\ IdsSound /\ CallsShaped /\ KeysSound(grant)
    /\ \A c \in Callers : call[c] # NoCall => KeysSound(call[c].rec)

\* A grant from before the start was sealed like any other.
LEMMA GrantAtStart == EInit => GrantInv
  <1>. SUFFICES ASSUME EInit PROVE GrantInv
    OBVIOUS
  <1>1. IdsSound
    BY IdsAtStart
  <1>2. CallsShaped /\ \A c \in Callers : call[c] = NoCall
    BY DEF EInit, CallsShaped
  <1>3. KeysSound(grant)
    BY <1>1, TrustedSound DEF EInit, KeysSound
  <1>. QED
    BY <1>1, <1>2, <1>3 DEF GrantInv

\* No step seals or keeps a grant that is short of a key.
LEMMA GrantStep == GrantInv /\ [ENext]_evars => GrantInv'
  <1>. SUFFICES ASSUME GrantInv, [ENext]_evars PROVE GrantInv'
    OBVIOUS
  <1>0. IdsSound /\ CallsShaped /\ KeysSound(grant)
    BY DEF GrantInv
  <1>1. CASE Structure
    <2>1. UNCHANGED <<grant, call>>
      BY <1>1 DEF Structure, HandleProjectCreate, HandleProjectDelete, HandleProjectRename, HandleEnvCreate,
                  HandleEnvDelete, HandleEnvRename, HandleEnvClear
    <2>2. CallsShaped'
      BY <1>0, <2>1 DEF CallsShaped
    <2>3. KeysSound(grant)' /\ \A c \in Callers : call'[c] # NoCall => KeysSound(call[c].rec)'
      <3>1. \A g : KeysSound(g) => KeysSound(g)'
        BY <1>0, <1>1, KeysStay
      <3>. QED
        BY <2>1, <3>1 DEF GrantInv, KeysSound
    <2>. QED
      BY <1>0, <1>1, <2>1, <2>2, <2>3, IdsStep DEF GrantInv
  <1>2. ASSUME UNCHANGED scopeVars, CallsShaped',
               grant' = grant \/ KeysSound(grant'),
               \A c \in Callers : call'[c] # NoCall => call'[c] = call[c] \/ KeysSound(call'[c].rec)
        PROVE  GrantInv'
    <2>1. IdsSound' /\ \A g : KeysSound(g) => KeysSound(g)'
      BY <1>0, <1>2, KeysStay DEF IdsSound, scopeVars
    <2>. QED
      BY <1>0, <1>2, <2>1 DEF GrantInv, KeysSound, scopeVars
  <1>3. CASE Lock \/ Unlock \/ DaemonRestarts \/ HandleTrustRemove \/ UNCHANGED evars
    <2>1. /\ UNCHANGED scopeVars /\ (grant' = grant \/ grant' = NoGrant)
          /\ call' = call \/ call' = [c \in Callers |-> NoCall]
      BY <1>3 DEF Lock, Unlock, DaemonRestarts, HandleTrustRemove, evars, scopeVars
    <2>2. CallsShaped' /\ KeysSound(NoGrant)
      BY <1>0, <2>1 DEF CallsShaped, KeysSound
    <2>3. \A c \in Callers : call'[c] # NoCall => call'[c] = call[c]
      BY <2>1
    <2>. QED
      BY <1>2, <2>1, <2>2, <2>3
  <1>4. ASSUME NEW c \in Callers, Requests(c) PROVE GrantInv'
    <2>1. /\ IsCall(call'[c]) /\ OthersStay(c) /\ UNCHANGED <<scopeVars, grant>>
          /\ call'[c].rec = NoGrant \/ \E m \in Manifests : call'[c].rec = Trusted(m)
      BY <1>0, <1>4, Requested
    <2>2. CallsShaped'
      BY <1>0, <2>1, Reshaped
    <2>3. KeysSound(call'[c].rec)
      BY <1>0, <2>1, TrustedSound DEF KeysSound
    <2>. QED
      BY <1>2, <2>1, <2>2, <2>3 DEF OthersStay
  <1>5. ASSUME NEW c \in Callers, Steps(c) PROVE GrantInv'
    <2>1. /\ OthersStay(c) /\ (call'[c] = NoCall \/ IsCall(call'[c])) /\ call[c] # NoCall
          /\ call'[c] # NoCall => \/ call'[c].rec = call[c].rec
                                  \/ grant # NoGrant /\ ~grant.wild
                                     /\ \E ns : call'[c].rec = [grant EXCEPT !.keys = SealCapability(grant.proj, grant.env, ns, FALSE)]
      BY <1>0, <1>5, Stepped
    <2>2. CallsShaped' /\ UNCHANGED scopeVars
      BY <1>0, <1>5, <2>1, Reshaped, StepScopes
    <2>3. KeysSound(call[c].rec)
      BY <2>1 DEF GrantInv
    <2>4. call'[c] # NoCall => KeysSound(call'[c].rec)
      <3>1. CASE call'[c].rec = call[c].rec
        BY <2>3, <3>1
      <3>2. ASSUME grant # NoGrant, ~grant.wild, NEW ns,
                   call'[c].rec = [grant EXCEPT !.keys = SealCapability(grant.proj, grant.env, ns, FALSE)]
            PROVE  KeysSound(call'[c].rec)
        <4>1. KeysSound([grant EXCEPT !.keys = SealCapability(grant.proj, grant.env, ns, FALSE)])
          BY <1>0, <3>2, RefreshedSound
        <4>. QED
          BY <3>2, <4>1
      <3>. QED
        BY <2>1, <3>1, <3>2
    <2>5. grant' = grant \/ grant' = call[c].rec
      BY <1>5 DEF Steps, PutDecide, PutOverwrite, RecordAuthored, ForgetAuthored, SettleFails, Settling, RefreshRead,
                  WriteGrant, DeleteEnvVar, ImportWrite
    <2>. QED
      BY <1>2, <2>1, <2>2, <2>3, <2>4, <2>5 DEF OthersStay
  <1>. QED
    BY <1>1, <1>3, <1>4, <1>5 DEF ENext

\* Grants hold their keys in every behaviour.
LEMMA GrantAlways == ESpec => []GrantInv
  BY GrantAtStart, GrantStep, PTL DEF ESpec

\* A key a wildcard grant holds opens each value of its scope on a current scheme.
LEMMA KeyOpens ==
    ASSUME GrantInv, grant # NoGrant, grant.wild, ScopeKey(ScopeId(grant.proj, grant.env)) \in grant.keys,
           ScopeId(grant.proj, grant.env) # 0, NEW n, NEW r \in Inherited(grant.proj, grant.env, n),
           r.ver \in {EnvKeyed, AuthoredKeyed}, OpensUnderVaultKey(r)
    PROVE  \E k \in KeysFor(grant, r) : Decrypts(k, r)
  <1>. DEFINE s == ScopeId(grant.proj, grant.env)
              dd == ScopeId(grant.proj, DefEnv)
  <1>1. IdsSound /\ KeysSound(grant) /\ s # 0
    BY DEF GrantInv
  <1>2. PICK x \in envs, q \in projects : x.id = s /\ x.name = grant.env /\ q.name = grant.proj /\ x.proj = q.id
    BY <1>1, Found
  <1>3. AuthoredKey(s) \in grant.keys
    BY <1>1, <1>2 DEF KeysSound
  <1>4. grant.env # DefEnv => DefaultScopeKey(dd) \in grant.keys /\ DefaultAuthoredKey(dd) \in grant.keys
    <2>1. PICK d \in envs : d.proj = q.id /\ d.name = DefEnv
      BY <1>1 DEF IdsSound
    <2>2. d.id = dd
      BY <1>1, <1>2, <2>1, Found
    <2>. QED
      BY <1>1, <1>2, <2>1, <2>2 DEF KeysSound
  <1>5. r.env = s \/ (grant.env # DefEnv /\ r.env = dd)
    BY DEF Inherited, Fetch
  <1>6. r.sealName = r.name /\ r.keyEnv = r.env
    BY DEF OpensUnderVaultKey
  <1>7. CASE r.env = s /\ r.ver = EnvKeyed
    <2>1. ScopeKey(s) \in KeysFor(grant, r) /\ Decrypts(ScopeKey(s), r)
      BY <1>6, <1>7 DEF KeysFor, Decrypts, ScopeKey, Key
    <2>. QED
      BY <2>1
  <1>8. CASE r.env = s /\ r.ver = AuthoredKeyed
    <2>1. AuthoredKey(s) \in KeysFor(grant, r) /\ Decrypts(AuthoredKey(s), r)
      BY <1>3, <1>6, <1>8 DEF KeysFor, Decrypts, AuthoredKey, Key
    <2>. QED
      BY <2>1
  <1>9. CASE r.env # s /\ r.ver = EnvKeyed
    <2>1. DefaultScopeKey(dd) \in KeysFor(grant, r) /\ Decrypts(DefaultScopeKey(dd), r)
      BY <1>4, <1>5, <1>6, <1>9 DEF KeysFor, Decrypts, DefaultScopeKey, Key
    <2>. QED
      BY <2>1
  <1>10. CASE r.env # s /\ r.ver = AuthoredKeyed
    <2>1. DefaultAuthoredKey(dd) \in KeysFor(grant, r) /\ Decrypts(DefaultAuthoredKey(dd), r)
      BY <1>4, <1>5, <1>6, <1>10 DEF KeysFor, Decrypts, DefaultAuthoredKey, Key
    <2>. QED
      BY <2>1
  <1>. QED
    BY <1>7, <1>8, <1>9, <1>10

\* The keys a wildcard grant holds open whatever its scope lists on a current
\* scheme, and none of them makes it refuse.
LEMMA Delivers == GrantInv /\ RowsOpen => WildcardDelivers
  <1>. SUFFICES ASSUME GrantInv, RowsOpen, grant # NoGrant, grant.wild,
                       ScopeKey(ScopeId(grant.proj, grant.env)) \in grant.keys, ~Uncovered(grant)
                PROVE  /\ ~Refused(grant)
                       /\ \A n \in ListEnvVars(grant.proj, grant.env) : \A r \in Inherited(grant.proj, grant.env, n) :
                            r.ver \in {EnvKeyed, AuthoredKeyed} /\ OpensUnderVaultKey(r)
                              => n \in OpenCapabilityValues(grant)
    BY DEF WildcardDelivers
  <1>. DEFINE s == ScopeId(grant.proj, grant.env)
              Rows(n) == Inherited(grant.proj, grant.env, n)
  <1>1. s # 0
    <2>1. \A k \in grant.keys : k.kind = "scope" => k.env \in 1..lastEnv
      BY DEF GrantInv, KeysSound
    <2>2. s \in 1..lastEnv
      BY <2>1, DistinctKeys
    <2>. QED
      BY <2>2 DEF GrantInv, IdsSound
  <1>2. \A n : \A r \in Rows(n) : r \in rows /\ r.name = n /\ n \in ListEnvVars(grant.proj, grant.env)
    BY <1>1 DEF Inherited, Fetch, ListEnvVars
  <1>3. \A n : \A r \in Rows(n) : r.ver \in {EnvKeyed, AuthoredKeyed} /\ OpensUnderVaultKey(r) => n \in Seen(grant)
    BY <1>1, <1>2, KeyOpens DEF Seen, Asked
  <1>4. \A r \in rows : r.ver # AuthoredKeyed => OpensUnderVaultKey(r)
    BY DEF RowsOpen
  <1>5. RowKeyed # EnvKeyed /\ EnvKeyed # AuthoredKeyed /\ RowKeyed # AuthoredKeyed
    BY DEF RowKeyed, EnvKeyed, AuthoredKeyed
  <1>6. ASSUME NEW n, NEW r \in Rows(n), r.ver = EnvKeyed PROVE \E k \in KeysFor(grant, r) : Decrypts(k, r)
    BY <1>1, <1>2, <1>4, <1>5, <1>6, KeyOpens
  <1>7. ASSUME NEW k \in Captured(grant), NEW r \in Tried(grant, k) PROVE Decrypts(k, r)
    <2>1. k \in grant.keys /\ k.kind = "row" /\ k.name \notin Seen(grant)
          /\ r \in Rows(k.name) /\ r.ver \in {RowKeyed, EnvKeyed}
      BY <1>7 DEF Captured, Tried
    <2>2. r \in rows /\ OpensUnderVaultKey(r)
      BY <1>2, <1>4, <1>5, <2>1
    <2>3. r.ver = RowKeyed
      BY <1>3, <2>1, <2>2
    <2>4. k.ver = RowKeyed
      BY <2>1, <2>3 DEF Uncovered
    <2>. QED
      BY <2>2, <2>3, <2>4 DEF Decrypts, OpensUnderVaultKey
  <1>8. ~Refused(grant)
    BY <1>1, <1>6, <1>7 DEF Refused
  <1>. QED
    BY <1>3, <1>8 DEF OpenCapabilityValues

\* A wildcard grant opens every value its scope lists on a current scheme, and no
\* value makes it refuse the run unless a row of an older scheme came out from under
\* one whose key was captured: for any number of projects, envs, callers and grants,
\* across renames and deletes of scopes and with calls that overlap
\* (openCapabilityValues, CaptureScopeKey and CaptureDefaultKeys).
THEOREM WildcardHolds == ESpec => []WildcardDelivers
  BY GrantAlways, RowsOpenHolds, Delivers, PTL

-----------------------------------------------------------------------------
(* Whose a value is.                                                        *)

\* Two scopes have one env between them only if they are one.
LEMMA OneScope ==
    ASSUME IdsSound, NEW p, NEW e, NEW p2, NEW e2, ScopeId(p, e) # 0, ScopeId(p, e) = ScopeId(p2, e2)
    PROVE  p = p2 /\ e = e2
  <1>1. PICK x \in envs : x.id = ScopeId(p, e) /\ x.name = e /\ \E q \in projects : q.name = p /\ x.proj = q.id
    BY Found
  <1>2. PICK y \in envs : y.id = ScopeId(p2, e2) /\ y.name = e2 /\ \E q \in projects : q.name = p2 /\ y.proj = q.id
    BY Found
  <1>3. x = y
    BY <1>1, <1>2 DEF IdsSound
  <1>. QED
    BY <1>1, <1>2, <1>3 DEF IdsSound

\* The rows stay as they are but for some names of one env.
Elsewhere(e, ns) == \A r : r.env # e \/ r.name \notin ns => (r \in rows' <=> r \in rows)

\* A row stands where its scope keeps its env and its env keeps its rows of the name.
LEMMA RowsStand ==
    ASSUME NEW p, NEW e, NEW n, NEW who, Stands(p, e, n, who), ScopeId(p, e)' = ScopeId(p, e),
           \A r : r.env = ScopeId(p, e) /\ r.name = n => (r \in rows' <=> r \in rows)
    PROVE  Stands(p, e, n, who)'
  <1>. DEFINE id == ScopeId(p, e)
  <1>1. Fetch(id, n) = {r \in rows : r.env = id /\ r.name = n}
        /\ Fetch(id, n)' = {r \in rows' : r.env = id /\ r.name = n}
    BY DEF Fetch
  <1>. HIDE DEF id
  <1>2. Fetch(id, n)' = Fetch(id, n)
    BY <1>1 DEF id
  <1>. QED
    BY <1>2 DEF Stands, id

\* What is claimed of another name, or in another scope, stands.
LEMMA OthersStand ==
    ASSUME IdsSound, RowsSound, UNCHANGED scopeVars, NEW p, NEW e, NEW ns, Elsewhere(ScopeId(p, e), ns),
           NEW p2, NEW e2, NEW n, NEW who, Stands(p2, e2, n, who),
           ~(p2 = p /\ e2 = e /\ n \in ns)
    PROVE  Stands(p2, e2, n, who)'
  <1>1. ScopeId(p2, e2) # 0
    BY DEF Stands, Fetch, RowsSound
  <1>2. ScopeId(p2, e2) # ScopeId(p, e) \/ n \notin ns
    BY <1>1, OneScope
  <1>3. ScopeId(p2, e2)' = ScopeId(p2, e2)
    BY DEF scopeVars, ScopeId, EnvsNamed, ProjectsNamed
  <1>. QED
    BY <1>2, <1>3, RowsStand DEF Elsewhere

\* Where nothing moves, whose a row is stays.
LEMMA SameRows ==
    ASSUME UNCHANGED scopeVars, rows' = rows
    PROVE  /\ \A p, e, n, who : Stands(p, e, n, who)' <=> Stands(p, e, n, who)
           /\ RowsSound => RowsSound'
  <1>1. \A p, e : ScopeId(p, e)' = ScopeId(p, e)
    BY DEF scopeVars, ScopeId, EnvsNamed, ProjectsNamed
  <1>2. \A p, e, n : Fetch(ScopeId(p, e), n)' = Fetch(ScopeId(p, e), n)
    BY <1>1 DEF Fetch
  <1>3. RowsSound => RowsSound'
    BY DEF RowsSound
  <1>. QED
    BY <1>2, <1>3 DEF Stands

\* The id of one of a set of envs.
AnIdOf(S) == (CHOOSE x \in S : TRUE).id

\* A scope of the same envs has the same id.
LEMMA SameEnvs ==
    ASSUME NEW p, NEW e, EnvsNamed(p, e)' = EnvsNamed(p, e)
    PROVE  ScopeId(p, e)' = ScopeId(p, e)
  <1>. DEFINE S == EnvsNamed(p, e)
  <1>1. ScopeId(p, e) = IF S = {} THEN 0 ELSE AnIdOf(S)
    BY DEF ScopeId, AnIdOf
  <1>2. ScopeId(p, e)' = IF S' = {} THEN 0 ELSE AnIdOf(S')
    BY DEF ScopeId, AnIdOf
  <1>3. S' = S
    OBVIOUS
  <1>. HIDE DEF S
  <1>. QED
    BY <1>1, <1>2, <1>3

\* A new scope takes no env from another.
LEMMA ScopesStay ==
    ASSUME IdsSound, NEW p \in ProjNames,
           HandleProjectCreate(p) \/ \E e \in EnvNames : HandleEnvCreate(p, e)
    PROVE  \A p2, e2 : ScopeId(p2, e2) # 0 => ScopeId(p2, e2)' = ScopeId(p2, e2)
  <1>. TAKE p2, e2
  <1>0. ScopeId(p2, e2) # 0 => EnvsNamed(p2, e2) # {}
    BY DEF ScopeId
  <1>1. CASE HandleProjectCreate(p)
    <2>1. /\ projects' = projects \cup {[id |-> lastProj + 1, name |-> p]}
          /\ envs' = envs \cup {[id |-> lastEnv + 1, proj |-> lastProj + 1, name |-> DefEnv]}
          /\ \A q \in projects : q.name # p
      BY <1>1 DEF HandleProjectCreate, CreateEnvRow, ProjectsNamed
    <2>2. EnvsNamed(p2, e2) # {} => p2 # p
      BY <2>1 DEF EnvsNamed, ProjectsNamed
    <2>3. p2 # p => EnvsNamed(p2, e2)' = EnvsNamed(p2, e2)
      <3>. SUFFICES ASSUME p2 # p PROVE EnvsNamed(p2, e2)' = EnvsNamed(p2, e2)
        OBVIOUS
      <3>1. ProjectsNamed(p2)' = ProjectsNamed(p2)
        BY <2>1 DEF ProjectsNamed
      <3>2. \A q \in ProjectsNamed(p2) : q.id # lastProj + 1
        BY DEF ProjectsNamed, IdsSound
      <3>. QED
        BY <2>1, <3>1, <3>2 DEF EnvsNamed
    <2>. QED
      BY <1>0, <2>2, <2>3, SameEnvs
  <1>2. ASSUME NEW e \in EnvNames, HandleEnvCreate(p, e)
        PROVE  ScopeId(p2, e2) # 0 => ScopeId(p2, e2)' = ScopeId(p2, e2)
    <2>. PICK q \in ProjectsNamed(p) : envs' = envs \cup {[id |-> lastEnv + 1, proj |-> q.id, name |-> e]}
      BY <1>2 DEF HandleEnvCreate, CreateEnvRow
    <2>1. projects' = projects /\ EnvsNamed(p, e) = {}
      BY <1>2 DEF HandleEnvCreate
    <2>2. EnvsNamed(p2, e2) # {} => ~(p2 = p /\ e2 = e)
      BY <2>1
    <2>3. ~(p2 = p /\ e2 = e) => EnvsNamed(p2, e2)' = EnvsNamed(p2, e2)
      <3>1. ProjectsNamed(p2)' = ProjectsNamed(p2)
        BY <2>1 DEF ProjectsNamed
      <3>2. p2 # p => \A s \in ProjectsNamed(p2) : s.id # q.id
        BY DEF ProjectsNamed, IdsSound
      <3>. QED
        BY <3>1, <3>2 DEF EnvsNamed
    <2>. QED
      BY <1>0, <2>2, <2>3, SameEnvs
  <1>. QED
    BY <1>1, <1>2

\* A structural call that takes a scope away marks the claims in it.
Marked(p, e) == {k \in registry : k.proj = p /\ k.env = e} \subseteq {k \in registry : ClaimOn(k) \in loose'}

\* A scope a structural call does not mark keeps its env and its rows.
LEMMA ScopeKept ==
    ASSUME IdsSound, Structure, NEW p2, NEW e2, ScopeId(p2, e2) # 0, ~Marked(p2, e2)
    PROVE  /\ ScopeId(p2, e2)' = ScopeId(p2, e2)
           /\ \A r : r.env = ScopeId(p2, e2) => (r \in rows' <=> r \in rows)
  <1>. DEFINE Goal == /\ ScopeId(p2, e2)' = ScopeId(p2, e2)
                      /\ \A r : r.env = ScopeId(p2, e2) => (r \in rows' <=> r \in rows)
  <1>0. PICK y \in envs, s \in projects : y.id = ScopeId(p2, e2) /\ y.name = e2 /\ s.name = p2 /\ y.proj = s.id
    BY Found
  <1>. HIDE DEF Goal
  <1>1. ASSUME NEW p \in ProjNames, HandleProjectCreate(p) \/ \E e \in EnvNames : HandleEnvCreate(p, e) PROVE Goal
    <2>1. rows' = rows
      BY <1>1 DEF HandleProjectCreate, HandleEnvCreate
    <2>. QED
      BY <1>1, <2>1, ScopesStay DEF Goal
  <1>2. ASSUME NEW p, NEW cred, HandleProjectDelete(p, cred) PROVE Goal
    <2>. PICK q \in ProjectsNamed(p) :
           /\ projects' = projects \ {q}
           /\ envs' = envs \ {x \in envs : x.proj = q.id}
           /\ rows' = {r \in rows : \A x \in {z \in envs : z.proj = q.id} : r.env # x.id}
      BY <1>2 DEF HandleProjectDelete
    <2>1. p2 # p
      BY <1>2 DEF HandleProjectDelete, InProjects, Marked
    <2>2. ProjectsNamed(p2)' = ProjectsNamed(p2) /\ \A z \in ProjectsNamed(p2) : z.id # q.id
      BY <2>1 DEF ProjectsNamed, IdsSound
    <2>3. EnvsNamed(p2, e2)' = EnvsNamed(p2, e2)
      BY <2>2 DEF EnvsNamed
    <2>4. \A x \in envs : x.proj = q.id => x.id # ScopeId(p2, e2)
      BY <1>0, <2>2 DEF IdsSound, ProjectsNamed
    <2>. QED
      BY <2>3, <2>4, SameEnvs DEF Goal
  <1>3. ASSUME NEW p, NEW to, NEW cred, HandleProjectRename(p, to, cred) PROVE Goal
    <2>. PICK q \in ProjectsNamed(p) : projects' = (projects \ {q}) \cup {[q EXCEPT !.name = to]}
      BY <1>3 DEF HandleProjectRename
    <2>1. p2 # p /\ p2 # to /\ envs' = envs /\ rows' = rows
      BY <1>3 DEF HandleProjectRename, InProjects, Marked
    <2>2. [q EXCEPT !.name = to].name = to
      BY DEF ProjectsNamed, IdsSound
    <2>3. ProjectsNamed(p2)' = ProjectsNamed(p2)
      BY <2>1, <2>2 DEF ProjectsNamed
    <2>4. EnvsNamed(p2, e2)' = EnvsNamed(p2, e2)
      BY <2>1, <2>3 DEF EnvsNamed
    <2>. QED
      BY <2>1, <2>4, SameEnvs DEF Goal
  <1>4. ASSUME NEW p, NEW e, NEW cred, HandleEnvDelete(p, e, cred) PROVE Goal
    <2>. PICK x \in EnvsNamed(p, e) : envs' = envs \ {x} /\ rows' = {r \in rows : r.env # x.id}
      BY <1>4 DEF HandleEnvDelete
    <2>1. ~(p2 = p /\ e2 = e) /\ projects' = projects
      BY <1>4 DEF HandleEnvDelete, InEnvs, Marked
    <2>2. x.id = ScopeId(p, e)
      BY Found DEF EnvsNamed, ProjectsNamed
    <2>3. x.id # ScopeId(p2, e2)
      BY <2>1, <2>2, OneScope
    <2>4. x \notin EnvsNamed(p2, e2)
      BY <2>3, Found DEF EnvsNamed, ProjectsNamed
    <2>5. EnvsNamed(p2, e2)' = EnvsNamed(p2, e2)
      BY <2>1, <2>4 DEF EnvsNamed, ProjectsNamed
    <2>. QED
      BY <2>3, <2>5, SameEnvs DEF Goal
  <1>5. ASSUME NEW p, NEW e, NEW to, NEW cred, HandleEnvRename(p, e, to, cred) PROVE Goal
    <2>. PICK x \in EnvsNamed(p, e) : envs' = (envs \ {x}) \cup {[x EXCEPT !.name = to]}
      BY <1>5 DEF HandleEnvRename
    <2>1. ~(p2 = p /\ e2 = e) /\ ~(p2 = p /\ e2 = to) /\ projects' = projects /\ rows' = rows
      BY <1>5 DEF HandleEnvRename, InEnvs, Marked
    <2>2. x.id = ScopeId(p, e)
      BY Found DEF EnvsNamed, ProjectsNamed
    <2>3. x.id # ScopeId(p2, e2)
      BY <2>1, <2>2, OneScope
    <2>4. x \notin EnvsNamed(p2, e2)
      BY <2>3, Found DEF EnvsNamed, ProjectsNamed
    <2>. DEFINE z == [x EXCEPT !.name = to]
    <2>5. z.name = to /\ z.proj = x.proj
      BY DEF EnvsNamed, IdsSound
    <2>6. z.name # e2 \/ \A q \in ProjectsNamed(p2) : z.proj # q.id
      BY <2>1, <2>5 DEF EnvsNamed, ProjectsNamed, IdsSound
    <2>. HIDE DEF z
    <2>7. EnvsNamed(p2, e2)' = EnvsNamed(p2, e2)
      BY <2>1, <2>4, <2>6 DEF EnvsNamed, ProjectsNamed, z
    <2>. QED
      BY <2>1, <2>7, SameEnvs DEF Goal
  <1>6. ASSUME NEW p, NEW e, NEW cred, HandleEnvClear(p, e, cred) PROVE Goal
    <2>1. ~(p2 = p /\ e2 = e) /\ UNCHANGED scopeVars /\ rows' = {r \in rows : r.env # ScopeId(p, e)}
      BY <1>6 DEF HandleEnvClear, InEnvs, Marked
    <2>2. ScopeId(p2, e2) # ScopeId(p, e)
      BY <2>1, OneScope
    <2>3. ScopeId(p2, e2)' = ScopeId(p2, e2)
      BY <2>1 DEF scopeVars, ScopeId, EnvsNamed, ProjectsNamed
    <2>. QED
      BY <2>1, <2>2, <2>3 DEF Goal
  <1>. QED
    BY <1>1, <1>2, <1>3, <1>4, <1>5, <1>6 DEF Structure, Goal

\* Structural calls leave the registry, the calls and every loose name.
LEMMA StructureLeaves ==
    ASSUME Structure
    PROVE  UNCHANGED <<registry, call>> /\ loose \subseteq loose'
  BY DEF Structure, HandleProjectCreate, HandleProjectDelete, HandleProjectRename, HandleEnvCreate,
         HandleEnvDelete, HandleEnvRename, HandleEnvClear

\* A scope that is taken away takes no claim with it that is not loose.
LEMMA OwnStructure ==
    ASSUME IdsSound, OwnInv, Structure
    PROVE  OwnInv'
  <1>1. UNCHANGED <<registry, call>> /\ loose \subseteq loose' /\ rows' \subseteq rows
    BY StructureLeaves, StructureRows
  <1>2. ASSUME NEW k \in registry, k.authored
        PROVE  ClaimOn(k) \in loose' \/ Unsettled(ClaimOn(k))' \/ Stands(k.proj, k.env, k.name, k.who)'
    <2>1. ClaimOn(k) \in loose \/ Unsettled(ClaimOn(k)) \/ Stands(k.proj, k.env, k.name, k.who)
      BY <1>2 DEF OwnInv, ClaimsSound
    <2>2. Unsettled(ClaimOn(k)) => Unsettled(ClaimOn(k))'
      BY <1>1 DEF Unsettled, Settling, Under
    <2>3. CASE Stands(k.proj, k.env, k.name, k.who) /\ ~Marked(k.proj, k.env)
      <3>1. ScopeId(k.proj, k.env) # 0
        BY <2>3 DEF Stands, Fetch, OwnInv, RowsSound
      <3>. QED
        BY <2>3, <3>1, ScopeKept, RowsStand
    <2>4. CASE Marked(k.proj, k.env)
      BY <2>4 DEF Marked
    <2>. QED
      BY <1>1, <2>1, <2>2, <2>3, <2>4
  <1>3. RowsSound' /\ ClaimsSound'
    BY <1>1, <1>2 DEF RowsSound, ClaimsSound, OwnInv, ClaimOn
  <1>4. \A c \in Callers : CallSound(c)'
    BY <1>1 DEF OwnInv, CallSound
  <1>. QED
    BY <1>3, <1>4 DEF OwnInv

\* A name that a call is settling stays so through the steps of other calls.
LEMMA StillUnsettled ==
    ASSUME NEW c \in Callers, OthersStay(c), NEW key, Unsettled(key),
           ~Settling(c) \/ key \notin NamesOf(call[c])
    PROVE  Unsettled(key)'
  <1>1. PICK d \in Callers : Settling(d) /\ key \in NamesOf(call[d])
    BY DEF Unsettled
  <1>2. d # c /\ call'[d] = call[d]
    BY <1>1 DEF OthersStay
  <1>3. Settling(d)' /\ (key \in NamesOf(call[d]))'
    BY <1>1, <1>2 DEF Settling, Under, NamesOf
  <1>. QED
    BY <1>3 DEF Unsettled

\* A call that has come to settle its names.
LEMMA NowUnsettled ==
    ASSUME NEW c \in Callers, call'[c] # NoCall, call'[c].stage \in {"record", "forget"},
           NEW k, k.proj = call'[c].proj, k.env = call'[c].env, k.name \in call'[c].names
    PROVE  Unsettled(ClaimOn(k))'
  <1>1. Settling(c)' /\ (ClaimOn(k) \in NamesOf(call[c]))'
    BY DEF Settling, Under, NamesOf, ClaimOn
  <1>. QED
    BY <1>1 DEF Unsettled

\* Claims through a step that changes neither them nor what is loose, but may take
\* rows of the names it comes to settle.
LEMMA ClaimsStay ==
    ASSUME ClaimsSound, NEW c \in Callers, OthersStay(c), registry' = registry, loose \subseteq loose', ~Settling(c),
           \A k \in registry : Stands(k.proj, k.env, k.name, k.who) =>
               \/ ClaimOn(k) \in loose' \/ Unsettled(ClaimOn(k))' \/ Stands(k.proj, k.env, k.name, k.who)'
    PROVE  ClaimsSound'
  <1>1. ASSUME NEW k \in registry, k.authored
        PROVE  ClaimOn(k) \in loose' \/ Unsettled(ClaimOn(k))' \/ Stands(k.proj, k.env, k.name, k.who)'
    BY <1>1, StillUnsettled DEF ClaimsSound
  <1>. QED
    BY <1>1 DEF ClaimsSound, ClaimOn

\* What the calls know, when one of them moves.
LEMMA CallsKnow ==
    ASSUME \A d \in Callers : CallSound(d), NEW c \in Callers, OthersStay(c), CallSound(c)'
    PROVE  \A d \in Callers : CallSound(d)'
  <1>1. ASSUME NEW d \in Callers, d # c PROVE CallSound(d)'
    <2>1. CallSound(d) /\ call'[d] = call[d]
      BY <1>1 DEF OthersStay
    <2>. QED
      BY <2>1 DEF CallSound
  <1>. QED
    BY <1>1

\* A put that creates comes to settle the name of its row; one that finds the row
\* changes nothing yet.
LEMMA PutClaims ==
    ASSUME IdsSound, CallsShaped, OwnInv, NEW c \in Callers, OthersStay(c), NEW p, NEW e, NEW n, NEW cred,
           HandlePut(c, p, e, n, cred)
    PROVE  OwnInv'
  <1>. DEFINE un == ~Attended(cred)
              keys == IF un THEN AuthoredKeyFor(p, e) ELSE {}
              ak == IF keys = {} THEN 0 ELSE CHOOSE j \in keys : TRUE
              exists == Fetch(ScopeId(p, e), n) # {}
              st == IF exists THEN "own" ELSE "record"
              nk == [stage |-> st, proj |-> p, env |-> e, names |-> {n}, cred |-> cred,
                     authKey |-> ak, unattended |-> un, rec |-> NoGrant, mig |-> {}]
              row == PutRow(c, ScopeId(p, e), n, ak)
  <1>1. /\ call[c] = NoCall /\ UNCHANGED <<scopeVars, registry, loose>> /\ ScopeId(p, e) # 0
        /\ exists => rows' = rows
        /\ ~exists => rows' = (rows \ Fetch(row.env, row.name)) \cup {row}
        /\ call' = [call EXCEPT ![c] = nk]
    BY DEF HandlePut, Upsert
  <1>2. row.env = ScopeId(p, e) /\ row.name = n
    BY DEF PutRow, SealAuthored, SealEntry, Row
  <1>3. call'[c] = nk
    BY <1>1 DEF CallsShaped
  <1>. HIDE DEF un, ak, row
  <1>4. /\ call'[c].stage = st /\ call'[c].proj = p /\ call'[c].env = e /\ call'[c].names = {n}
    BY <1>3
  <1>5. CallSound(c)'
    BY <1>4 DEF CallSound
  <1>6. ~Settling(c)
    BY <1>1 DEF Settling, Under
  <1>7. CASE exists
    <2>1. RowsSound' /\ \A k : Stands(k.proj, k.env, k.name, k.who)' <=> Stands(k.proj, k.env, k.name, k.who)
      BY <1>1, <1>7, SameRows DEF OwnInv
    <2>2. ClaimsSound'
      BY <1>1, <1>6, <2>1, ClaimsStay DEF OwnInv
    <2>. QED
      BY <1>5, <2>1, <2>2, CallsKnow DEF OwnInv
  <1>8. CASE ~exists
    <2>1. Elsewhere(ScopeId(p, e), {n})
      BY <1>1, <1>2, <1>8 DEF Elsewhere, Fetch
    <2>2. RowsSound'
      BY <1>1, <1>2, <1>8 DEF OwnInv, RowsSound
    <2>3. call'[c] # NoCall /\ call'[c].stage \in {"record", "forget"}
      BY <1>4, <1>8 DEF NoCall
    <2>4. ASSUME NEW k \in registry, Stands(k.proj, k.env, k.name, k.who)
          PROVE  Unsettled(ClaimOn(k))' \/ Stands(k.proj, k.env, k.name, k.who)'
      <3>1. CASE k.proj = p /\ k.env = e /\ k.name = n
        BY <1>4, <2>3, <3>1, NowUnsettled
      <3>2. CASE ~(k.proj = p /\ k.env = e /\ k.name \in {n})
        BY <1>1, <2>1, <2>4, <3>2, OthersStand DEF OwnInv
      <3>. QED
        BY <3>1, <3>2
    <2>5. ClaimsSound'
      BY <1>1, <1>6, <2>4, ClaimsStay DEF OwnInv
    <2>. QED
      BY <1>5, <2>2, <2>5, CallsKnow DEF OwnInv
  <1>. QED
    BY <1>7, <1>8

\* A rename comes to settle both names.
LEMMA RenameClaims ==
    ASSUME IdsSound, CallsShaped, OwnInv, NEW c \in Callers, OthersStay(c), NEW p, NEW e, NEW n, NEW to, NEW cred,
           HandleRename(c, p, e, n, to, cred)
    PROVE  OwnInv'
  <1>. DEFINE nk == [stage |-> "forget", proj |-> p, env |-> e, names |-> {n, to}, cred |-> cred,
                     authKey |-> 0, unattended |-> FALSE, rec |-> NoGrant, mig |-> {}]
  <1>1. /\ call[c] = NoCall /\ UNCHANGED <<scopeVars, registry, loose>> /\ call' = [call EXCEPT ![c] = nk]
    BY DEF HandleRename, StartCall
  <1>. PICK r \in Fetch(ScopeId(p, e), n) : rows' = (rows \ {r}) \cup {Renamed(r, to)}
    BY DEF HandleRename
  <1>2. r \in rows /\ r.env = ScopeId(p, e) /\ r.name = n
    BY DEF Fetch
  <1>3. Renamed(r, to).env = ScopeId(p, e) /\ Renamed(r, to).name = to
    BY <1>2 DEF Renamed, SealEntry, Row
  <1>4. call'[c] = nk
    BY <1>1 DEF CallsShaped
  <1>5. /\ call'[c].stage = "forget" /\ call'[c].proj = p /\ call'[c].env = e /\ call'[c].names = {n, to}
        /\ call'[c] # NoCall
    BY <1>4 DEF NoCall
  <1>6. CallSound(c)' /\ ~Settling(c)
    BY <1>1, <1>5 DEF CallSound, Settling, Under
  <1>7. RowsSound'
    BY <1>2, <1>3 DEF OwnInv, RowsSound
  <1>8. Elsewhere(ScopeId(p, e), {n, to})
    BY <1>2, <1>3 DEF Elsewhere
  <1>9. ASSUME NEW k \in registry, Stands(k.proj, k.env, k.name, k.who)
        PROVE  Unsettled(ClaimOn(k))' \/ Stands(k.proj, k.env, k.name, k.who)'
    <2>1. CASE k.proj = p /\ k.env = e /\ k.name \in {n, to}
      BY <1>5, <2>1, NowUnsettled
    <2>2. CASE ~(k.proj = p /\ k.env = e /\ k.name \in {n, to})
      BY <1>1, <1>8, <1>9, <2>2, OthersStand DEF OwnInv
    <2>. QED
      BY <2>1, <2>2
  <1>10. ClaimsSound'
    BY <1>1, <1>6, <1>9, ClaimsStay DEF OwnInv
  <1>. QED
    BY <1>6, <1>7, <1>10, CallsKnow DEF OwnInv

\* A call that only looks.
LEMMA LooksOnly ==
    ASSUME OwnInv, NEW c \in Callers, OthersStay(c), ~Settling(c), UNCHANGED <<scopeVars, rows, registry, loose>>,
           CallSound(c)'
    PROVE  OwnInv'
  <1>1. RowsSound' /\ \A k : Stands(k.proj, k.env, k.name, k.who)' <=> Stands(k.proj, k.env, k.name, k.who)
    BY SameRows DEF OwnInv
  <1>2. ClaimsSound'
    BY <1>1, ClaimsStay DEF OwnInv
  <1>. QED
    BY <1>1, <1>2, CallsKnow DEF OwnInv

\* No request gives a claim it does not settle.
LEMMA OwnRequest ==
    ASSUME IdsSound, CallsShaped, OwnInv, NEW c \in Callers, Requests(c)
    PROVE  OwnInv'
  <1>0. /\ call[c] = NoCall /\ OthersStay(c) /\ UNCHANGED <<scopeVars, registry, loose>> /\ ~Settling(c)
    BY Requested DEF Settling, Under
  <1>1. ASSUME NEW m \in Manifests, NEW cred, GrantRead(c, m, cred) PROVE OwnInv'
    <2>1. call'[c].stage = "write" /\ rows' = rows
      BY <1>1 DEF GrantRead, CallsShaped
    <2>2. CallSound(c)'
      BY <2>1 DEF CallSound
    <2>. QED
      BY <1>0, <2>1, <2>2, LooksOnly
  <1>2. ASSUME NEW p, NEW e, NEW n, NEW cred, HandlePut(c, p, e, n, cred) PROVE OwnInv'
    BY <1>0, <1>2, PutClaims
  <1>3. ASSUME NEW p, NEW e, NEW n, NEW cred, HandleDelete(c, p, e, n, cred) PROVE OwnInv'
    <2>1. call'[c].stage = "delete" /\ rows' = rows
      BY <1>3 DEF HandleDelete, StartCall, CallsShaped
    <2>2. CallSound(c)'
      BY <2>1 DEF CallSound
    <2>. QED
      BY <1>0, <2>1, <2>2, LooksOnly
  <1>4. ASSUME NEW p, NEW e, NEW n, NEW to, NEW cred, HandleRename(c, p, e, n, to, cred) PROVE OwnInv'
    BY <1>0, <1>4, RenameClaims
  <1>5. ASSUME NEW p, NEW e, NEW n, NEW cred, ImportRead(c, p, e, n, cred) PROVE OwnInv'
    <2>1. rows' = rows /\ call'[c].stage = "import" /\ \E r : call'[c].mig = {r}
      BY <1>5 DEF ImportRead, CallsShaped
    <2>2. CallSound(c)'
      BY <2>1 DEF CallSound
    <2>. QED
      BY <1>0, <2>1, <2>2, LooksOnly
  <1>. QED
    BY <1>1, <1>2, <1>3, <1>4, <1>5 DEF Requests

\* A step of a call that is not settling goes to what it may say next, and the
\* rows it takes are of names it comes to settle.
LEMMA StepKeeps ==
    ASSUME IdsSound, OwnInv, NEW c \in Callers, call[c] # NoCall, ~Settling(c), OthersStay(c),
           UNCHANGED <<scopeVars, registry, loose>>, CallSound(c)', RowsSound',
           \/ rows' = rows
           \/ /\ call'[c] # NoCall /\ call'[c].stage \in {"record", "forget"}
              /\ Elsewhere(ScopeId(call'[c].proj, call'[c].env), call'[c].names)
    PROVE  OwnInv'
  <1>1. CASE rows' = rows
    BY <1>1, LooksOnly
  <1>2. CASE /\ call'[c] # NoCall /\ call'[c].stage \in {"record", "forget"}
             /\ Elsewhere(ScopeId(call'[c].proj, call'[c].env), call'[c].names)
    <2>. PICK j : j = call'[c]
      OBVIOUS
    <2>1. ASSUME NEW k \in registry, Stands(k.proj, k.env, k.name, k.who)
          PROVE  Unsettled(ClaimOn(k))' \/ Stands(k.proj, k.env, k.name, k.who)'
      <3>1. CASE k.proj = j.proj /\ k.env = j.env /\ k.name \in j.names
        BY <1>2, <3>1, NowUnsettled
      <3>2. CASE ~(k.proj = j.proj /\ k.env = j.env /\ k.name \in j.names)
        BY <1>2, <2>1, <3>2, OthersStand DEF OwnInv
      <3>. QED
        BY <3>1, <3>2
    <2>2. ClaimsSound'
      BY <2>1, ClaimsStay DEF OwnInv
    <2>. QED
      BY <2>2, CallsKnow DEF OwnInv
  <1>. QED
    BY <1>1, <1>2

\* A call that ends or goes on knows what it knew.
LEMMA KnowsOn ==
    ASSUME CallsShaped, NEW c \in Callers, call[c] # NoCall, CallSound(c)
    PROVE  /\ call' = Done(c) => OthersStay(c) /\ call'[c] = NoCall /\ CallSound(c)'
           /\ \A s \in {"over", "overOwn", "record", "forget", "refresh"} :
                 call' = To(c, s) =>
                   /\ OthersStay(c) /\ call'[c] # NoCall /\ call'[c].stage = s
                   /\ call'[c].proj = call[c].proj /\ call'[c].env = call[c].env /\ call'[c].names = call[c].names
                   /\ (call[c].stage \in {"own", "over", "overOwn", "record"} \/ s \in {"forget", "refresh"})
                         => CallSound(c)'
  <1>1. call' = Done(c) => OthersStay(c) /\ call'[c] = NoCall /\ CallSound(c)'
    BY IsDone DEF CallSound
  <1>2. ASSUME NEW s \in {"over", "overOwn", "record", "forget", "refresh"}, call' = To(c, s)
        PROVE  /\ OthersStay(c) /\ call'[c] # NoCall /\ call'[c].stage = s
               /\ call'[c].proj = call[c].proj /\ call'[c].env = call[c].env /\ call'[c].names = call[c].names
               /\ (call[c].stage \in {"own", "over", "overOwn", "record"} \/ s \in {"forget", "refresh"})
                     => CallSound(c)'
    <2>1. s \in CallStages
      BY DEF CallStages
    <2>2. /\ OthersStay(c) /\ call'[c] # NoCall /\ call'[c].stage = s
          /\ call'[c].proj = call[c].proj /\ call'[c].env = call[c].env /\ call'[c].names = call[c].names
      BY <1>2, <2>1, GoesOn
    <2>3. (call[c].stage \in {"own", "over", "overOwn", "record"} \/ s \in {"forget", "refresh"}) => CallSound(c)'
      BY <2>2 DEF CallSound
    <2>. QED
      BY <2>2, <2>3
  <1>. QED
    BY <1>1, <1>2

\* PutDecide and RefreshRead look, DeleteEnvVar and PutOverwrite come to settle.
LEMMA OwnDecide ==
    ASSUME IdsSound, CallsShaped, OwnInv, NEW c \in Callers, OthersStay(c), call[c] # NoCall,
           PutDecide(c) \/ RefreshRead(c) \/ DeleteEnvVar(c) \/ PutOverwrite(c)
    PROVE  OwnInv'
  <1>0. CallSound(c)
    BY DEF OwnInv
  <1>1. CASE PutDecide(c)
    <2>1. /\ ~Settling(c) /\ UNCHANGED <<scopeVars, rows, registry, loose>> /\ call[c].stage = "own"
          /\ call' = Done(c) \/ \E s \in {"over", "overOwn"} : call' = To(c, s)
      BY <1>1 DEF PutDecide, Settling, Under
    <2>2. CallSound(c)'
      BY <1>0, <2>1, KnowsOn
    <2>. QED
      BY <2>1, <2>2, LooksOnly
  <1>2. CASE RefreshRead(c)
    <2>1. ~Settling(c) /\ UNCHANGED <<scopeVars, rows, registry, loose>>
      BY <1>2 DEF RefreshRead, Settling, Under
    <2>2. call' = Done(c) \/ \E rc, mg : call' = Reread(c, rc, mg)
      BY <1>2 DEF RefreshRead, Reread
    <2>3. ASSUME NEW rc, NEW mg, call' = Reread(c, rc, mg) PROVE CallSound(c)'
      <3>1. call'[c].stage = "write"
        BY <2>3, Refreshing
      <3>. QED
        BY <3>1 DEF CallSound
    <2>4. CallSound(c)'
      BY <1>0, <2>2, <2>3, KnowsOn
    <2>. QED
      BY <2>1, <2>4, LooksOnly
  <1>3. CASE DeleteEnvVar(c)
    <2>. DEFINE k == call[c]
                gone == {r \in rows : r.env = ScopeId(k.proj, k.env) /\ r.name \in k.names}
    <2>1. /\ ~Settling(c) /\ UNCHANGED <<scopeVars, registry, loose>> /\ rows' = rows \ gone
          /\ (call' = Done(c) /\ gone = {}) \/ call' = To(c, "forget")
      BY <1>3 DEF DeleteEnvVar, Settling, Under
    <2>2. CallSound(c)' /\ RowsSound'
      BY <1>0, <2>1, KnowsOn DEF OwnInv, RowsSound
    <2>3. \/ rows' = rows
          \/ /\ call'[c] # NoCall /\ call'[c].stage \in {"record", "forget"}
             /\ Elsewhere(ScopeId(call'[c].proj, call'[c].env), call'[c].names)
      BY <1>0, <2>1, KnowsOn DEF Elsewhere
    <2>. QED
      BY <2>1, <2>2, <2>3, StepKeeps
  <1>4. CASE PutOverwrite(c)
    <2>. DEFINE k == call[c]
                n == CHOOSE m \in k.names : TRUE
                row == PutRow(c, ScopeId(k.proj, k.env), n, k.authKey)
    <2>1. /\ ~Settling(c) /\ UNCHANGED <<scopeVars, registry, loose>> /\ k.stage \in {"over", "overOwn"}
          /\ \/ call' = Done(c) /\ rows' = rows
             \/ /\ ScopeId(k.proj, k.env) # 0
                /\ rows' = (rows \ Fetch(row.env, row.name)) \cup {row}
                /\ \E s \in {"record", "forget"} : call' = To(c, s)
      BY <1>4 DEF PutOverwrite, Settling, Under, Upsert
    <2>2. row.env = ScopeId(k.proj, k.env) /\ row.name = n
      BY DEF PutRow, SealAuthored, SealEntry, Row
    <2>3. n \in k.names
      BY <1>0, <2>1 DEF CallSound
    <2>. HIDE DEF row, n
    <2>4. RowsSound'
      BY <2>1, <2>2 DEF OwnInv, RowsSound
    <2>5. CallSound(c)'
      BY <1>0, <2>1, KnowsOn
    <2>6. \/ rows' = rows
          \/ /\ call'[c] # NoCall /\ call'[c].stage \in {"record", "forget"}
             /\ Elsewhere(ScopeId(call'[c].proj, call'[c].env), call'[c].names)
      <3>1. ASSUME NEW s \in {"record", "forget"}, call' = To(c, s)
            PROVE  call'[c] # NoCall /\ call'[c].stage = s /\ call'[c].proj = k.proj /\ call'[c].env = k.env
                   /\ call'[c].names = k.names
        BY <1>0, <3>1, KnowsOn
      <3>2. rows' = (rows \ Fetch(row.env, row.name)) \cup {row} => Elsewhere(ScopeId(k.proj, k.env), k.names)
        BY <2>2, <2>3 DEF Elsewhere, Fetch
      <3>. QED
        BY <2>1, <3>1, <3>2
    <2>. QED
      BY <2>1, <2>4, <2>5, <2>6, StepKeeps
  <1>. QED
    BY <1>1, <1>2, <1>3, <1>4

\* A record over a row of the caller's is true, and any other is loose; a claim that
\* is forgotten is gone; one that could be neither is loose.
LEMMA OwnSettle ==
    ASSUME IdsSound, CallsShaped, OwnInv, NEW c \in Callers, OthersStay(c), call[c] # NoCall,
           RecordAuthored(c) \/ ForgetAuthored(c) \/ SettleFails(c)
    PROVE  OwnInv'
  <1>. DEFINE k == call[c]
  <1>0. CallSound(c) /\ RowsSound /\ ClaimsSound /\ \A d \in Callers : CallSound(d)
    BY DEF OwnInv
  <1>1. UNCHANGED <<scopeVars, rows>>
    BY DEF RecordAuthored, ForgetAuthored, SettleFails
  <1>2. RowsSound' /\ \A p, e, n, who : Stands(p, e, n, who)' <=> Stands(p, e, n, who)
    BY <1>0, <1>1, SameRows
  <1>3. call' = Done(c) \/ call' = To(c, "refresh")
    BY DEF RecordAuthored, ForgetAuthored, SettleFails
  <1>4. \A d \in Callers : CallSound(d)'
    BY <1>0, <1>3, KnowsOn, CallsKnow
  <1>5. \A key : key \in NamesOf(k) <=> \E n \in k.names : key = <<k.proj, k.env, n>>
    BY DEF NamesOf
  <1>6. \A key : Unsettled(key) /\ key \notin NamesOf(k) => Unsettled(key)'
    BY StillUnsettled
  <1>7. CASE RecordAuthored(c)
    <2>. DEFINE n == CHOOSE m \in k.names : TRUE
                new == [proj |-> k.proj, env |-> k.env, name |-> n, who |-> c, authored |-> (k.authKey # 0),
                        unattended |-> k.unattended]
    <2>1. k.names = {n}
      BY <1>0, <1>7 DEF CallSound, RecordAuthored, Under
    <2>2. /\ registry' = (registry \ Claims(k.proj, k.env, {n})) \cup {new}
          /\ loose' = IF Stands(k.proj, k.env, n, c) THEN loose \ NamesOf(k) ELSE loose \cup NamesOf(k)
      BY <1>7 DEF RecordAuthored, Record
    <2>3. /\ new.proj = k.proj /\ new.env = k.env /\ new.name = n /\ new.who = c
      OBVIOUS
    <2>. HIDE DEF n, new
    <2>4. ASSUME NEW j \in registry', j.authored
          PROVE  ClaimOn(j) \in loose' \/ Unsettled(ClaimOn(j))' \/ Stands(j.proj, j.env, j.name, j.who)'
      <3>1. CASE j = new
        <4>1. ClaimOn(j) \in NamesOf(k)
          BY <1>5, <2>1, <2>3, <3>1 DEF ClaimOn
        <4>. QED
          BY <1>2, <2>2, <2>3, <3>1, <4>1
      <3>2. CASE j # new
        <4>1. j \in registry /\ ~(j.proj = k.proj /\ j.env = k.env /\ j.name = n)
          BY <2>2, <3>2 DEF Claims
        <4>2. ClaimOn(j) \notin NamesOf(k)
          BY <1>5, <2>1, <4>1 DEF ClaimOn
        <4>. QED
          BY <1>0, <1>2, <1>6, <2>2, <2>4, <4>1, <4>2 DEF ClaimsSound
      <3>. QED
        BY <3>1, <3>2
    <2>. QED
      BY <1>2, <1>4, <2>4 DEF OwnInv, ClaimsSound, ClaimOn
  <1>8. CASE ForgetAuthored(c)
    <2>1. registry' = registry \ Claims(k.proj, k.env, k.names) /\ loose' = loose \ NamesOf(k)
      BY <1>8 DEF ForgetAuthored, Forget
    <2>2. ASSUME NEW j \in registry', j.authored
          PROVE  ClaimOn(j) \in loose' \/ Unsettled(ClaimOn(j))' \/ Stands(j.proj, j.env, j.name, j.who)'
      <3>1. j \in registry /\ ~(j.proj = k.proj /\ j.env = k.env /\ j.name \in k.names)
        BY <2>1 DEF Claims
      <3>2. ClaimOn(j) \notin NamesOf(k)
        BY <1>5, <3>1 DEF ClaimOn
      <3>. QED
        BY <1>0, <1>2, <1>6, <2>1, <2>2, <3>1, <3>2 DEF ClaimsSound
    <2>. QED
      BY <1>2, <1>4, <2>2 DEF OwnInv, ClaimsSound, ClaimOn
  <1>9. CASE SettleFails(c)
    <2>1. registry' = registry /\ loose' = loose \cup NamesOf(k)
      BY <1>9 DEF SettleFails
    <2>2. ASSUME NEW j \in registry, j.authored
          PROVE  ClaimOn(j) \in loose' \/ Unsettled(ClaimOn(j))' \/ Stands(j.proj, j.env, j.name, j.who)'
      BY <1>0, <1>2, <1>6, <2>1, <2>2 DEF ClaimsSound
    <2>. QED
      BY <1>2, <1>4, <2>1, <2>2 DEF OwnInv, ClaimsSound, ClaimOn
  <1>. QED
    BY <1>7, <1>8, <1>9

\* A step puts back values it read, each over a row of the same env and name.
PutsBack(mig) ==
    /\ \A s \in rows' :
          /\ \E r \in rows : s.env = r.env /\ s.name = r.name
          /\ s \in rows \/ \E m \in mig : s.env = m.env /\ s.name = m.name /\ s.val = m.val
    /\ \A r \in rows : \E s \in rows' : s.env = r.env /\ s.name = r.name

\* A claim that is not overtaken stands over what is put back.
LEMMA StandsBack ==
    ASSUME UNCHANGED scopeVars, NEW mig, PutsBack(mig), NEW k \in registry, ClaimOn(k) \notin Overtaken(mig),
           Stands(k.proj, k.env, k.name, k.who)
    PROVE  Stands(k.proj, k.env, k.name, k.who)'
  <1>. PICK id : id = ScopeId(k.proj, k.env)
    OBVIOUS
  <1>1. ScopeId(k.proj, k.env)' = id
    BY DEF scopeVars, ScopeId, EnvsNamed, ProjectsNamed
  <1>2. \A r \in rows : r.env = id /\ r.name = k.name => r.val.by = k.who
    BY DEF Stands, Fetch
  <1>3. \A m \in mig : m.env = id /\ m.name = k.name => m \in rows
    BY DEF Overtaken
  <1>4. \E s \in rows' : s.env = id /\ s.name = k.name
    BY DEF Stands, Fetch, PutsBack
  <1>5. ASSUME NEW s \in rows', s.env = id, s.name = k.name PROVE s.val.by = k.who
    <2>1. CASE s \in rows
      BY <1>2, <1>5, <2>1
    <2>2. CASE \E m \in mig : s.env = m.env /\ s.name = m.name /\ s.val = m.val
      BY <1>2, <1>3, <1>5, <2>2
    <2>. QED
      BY <2>1, <2>2 DEF PutsBack
  <1>. DEFINE F == {s \in rows' : s.env = id /\ s.name = k.name}
  <1>6. Fetch(id, k.name)' = F
    BY DEF Fetch
  <1>7. F # {} /\ \A s \in F : s.val.by = k.who
    BY <1>4, <1>5
  <1>. HIDE DEF F
  <1>. QED
    BY <1>1, <1>6, <1>7 DEF Stands

\* What a migration or an import puts back is its author's still, or it overtook a
\* write.
LEMMA BackKeeps ==
    ASSUME OwnInv, NEW c \in Callers, OthersStay(c), ~Settling(c), UNCHANGED <<scopeVars, registry>>, CallSound(c)',
           NEW mig, PutsBack(mig), loose' = loose \cup Overtaken(mig)
    PROVE  OwnInv'
  <1>1. RowsSound'
    BY DEF OwnInv, RowsSound, PutsBack
  <1>2. ASSUME NEW k \in registry, Stands(k.proj, k.env, k.name, k.who)
        PROVE  ClaimOn(k) \in loose' \/ Stands(k.proj, k.env, k.name, k.who)'
    BY <1>2, StandsBack
  <1>3. ClaimsSound'
    BY <1>2, ClaimsStay DEF OwnInv
  <1>. QED
    BY <1>1, <1>3, CallsKnow DEF OwnInv

\* The row that takes the place of r when mig is migrated.
Moved(mig, r) ==
    IF \E m \in mig : m.env = r.env /\ m.name = r.name
      THEN SealEntry(r.env, r.name, (CHOOSE m \in mig : m.env = r.env /\ m.name = r.name).val)
      ELSE r

\* A row is moved to one of its env and name, with its value or a migrated one.
LEMMA MovedRow ==
    ASSUME NEW mig, NEW r
    PROVE  /\ Moved(mig, r).env = r.env /\ Moved(mig, r).name = r.name
           /\ Moved(mig, r) = r \/ \E m \in mig : m.env = r.env /\ m.name = r.name /\ Moved(mig, r).val = m.val
  <1>1. CASE \E m \in mig : m.env = r.env /\ m.name = r.name
    <2>. DEFINE m == CHOOSE x \in mig : x.env = r.env /\ x.name = r.name
    <2>1. m \in mig /\ m.env = r.env /\ m.name = r.name
      BY <1>1
    <2>2. Moved(mig, r) = SealEntry(r.env, r.name, m.val)
      BY <1>1 DEF Moved
    <2>. HIDE DEF m
    <2>. QED
      BY <2>1, <2>2 DEF SealEntry, Row
  <1>2. CASE ~\E m \in mig : m.env = r.env /\ m.name = r.name
    BY <1>2 DEF Moved
  <1>. QED
    BY <1>1, <1>2

\* The migration and the import put back what they read.
LEMMA OwnWrite ==
    ASSUME CallsShaped, OwnInv, NEW c \in Callers, OthersStay(c), call[c] # NoCall, WriteGrant(c) \/ ImportWrite(c)
    PROVE  OwnInv'
  <1>. PICK mig : mig = call[c].mig
    OBVIOUS
  <1>0. CallSound(c) /\ ~Settling(c) /\ UNCHANGED <<scopeVars, registry>>
    BY DEF OwnInv, WriteGrant, ImportWrite, Settling, Under
  <1>1. CASE WriteGrant(c)
    <2>1. /\ call' = Done(c) /\ loose' = loose \cup Overtaken(mig)
          /\ rows' = {Moved(mig, r) : r \in rows}
      BY <1>1 DEF WriteGrant, Migrated, Moved
    <2>2. PutsBack(mig)
      BY <2>1, MovedRow DEF PutsBack
    <2>3. CallSound(c)'
      BY <1>0, <2>1, KnowsOn
    <2>. QED
      BY <1>0, <2>1, <2>2, <2>3, BackKeeps
  <1>2. CASE ImportWrite(c)
    <2>1. PICK r : mig = {r}
      BY <1>0, <1>2 DEF CallSound, ImportWrite, Under
    <2>. DEFINE s == SealEntry(r.env, r.name, r.val)
    <2>2. \/ call' = Done(c) /\ UNCHANGED <<rows, loose>>
          \/ /\ ImportTarget(r) # {}
             /\ rows' = (rows \ ImportTarget(r)) \cup {s}
             /\ loose' = loose \cup Overtaken(mig)
             /\ call' = To(c, "forget")
      <3>1. (CHOOSE x \in call[c].mig : TRUE) = r
        BY <2>1
      <3>. QED
        BY <1>2, <3>1 DEF ImportWrite
    <2>3. CallSound(c)'
      BY <1>0, <2>2, KnowsOn
    <2>4. CASE UNCHANGED <<rows, loose>>
      BY <1>0, <2>2, <2>3, <2>4, LooksOnly
    <2>5. CASE /\ ImportTarget(r) # {}
               /\ rows' = (rows \ ImportTarget(r)) \cup {s}
               /\ loose' = loose \cup Overtaken(mig)
      <3>1. s.env = r.env /\ s.name = r.name /\ s.val = r.val
        BY DEF SealEntry, Row
      <3>. HIDE DEF s
      <3>2. \A t \in ImportTarget(r) : t \in rows /\ t.env = r.env /\ t.name = r.name
        BY DEF ImportTarget, Fetch
      <3>3. PutsBack(mig)
        BY <2>1, <2>5, <3>1, <3>2 DEF PutsBack
      <3>. QED
        BY <1>0, <2>3, <2>5, <3>3, BackKeeps
    <2>. QED
      BY <2>2, <2>4, <2>5
  <1>. QED
    BY <1>1, <1>2

\* Every step of a call keeps rows and claims sound.
LEMMA OwnStep ==
    ASSUME IdsSound, CallsShaped, OwnInv, NEW c \in Callers, Steps(c)
    PROVE  OwnInv'
  <1>1. call[c] # NoCall /\ OthersStay(c)
    BY Stepped
  <1>2. CASE PutDecide(c) \/ RefreshRead(c) \/ DeleteEnvVar(c) \/ PutOverwrite(c)
    BY <1>1, <1>2, OwnDecide
  <1>3. CASE RecordAuthored(c) \/ ForgetAuthored(c) \/ SettleFails(c)
    BY <1>1, <1>3, OwnSettle
  <1>4. CASE WriteGrant(c) \/ ImportWrite(c)
    BY <1>1, <1>4, OwnWrite
  <1>. QED
    BY <1>2, <1>3, <1>4 DEF Steps

\* A restart ends every call, and every name one was settling is loose.
LEMMA OwnRestart ==
    ASSUME OwnInv, DaemonRestarts
    PROVE  OwnInv'
  <1>1. /\ UNCHANGED <<scopeVars, rows, registry>> /\ \A c \in Callers : call'[c] = NoCall
        /\ loose' = loose \cup UNION {NamesOf(call[c]) : c \in {d \in Callers : Settling(d)}}
    BY DEF DaemonRestarts
  <1>2. RowsSound' /\ \A p, e, n, who : Stands(p, e, n, who)' <=> Stands(p, e, n, who)
    BY <1>1, SameRows DEF OwnInv
  <1>3. \A key : Unsettled(key) => key \in loose'
    BY <1>1 DEF Unsettled
  <1>4. ClaimsSound'
    BY <1>1, <1>2, <1>3 DEF ClaimsSound, OwnInv, ClaimOn
  <1>5. \A c \in Callers : CallSound(c)'
    BY <1>1 DEF CallSound
  <1>. QED
    BY <1>2, <1>4, <1>5 DEF OwnInv

\* What one step leaves of the rows and the claims.
LEMMA OwnNext == GrantInv /\ OwnInv /\ [ENext]_evars => OwnInv'
  <1>. SUFFICES ASSUME GrantInv, OwnInv, [ENext]_evars PROVE OwnInv'
    OBVIOUS
  <1>0. IdsSound /\ CallsShaped
    BY DEF GrantInv
  <1>1. ASSUME UNCHANGED <<scopeVars, rows, registry, call, loose>> PROVE OwnInv'
    <2>1. RowsSound' /\ \A p, e, n, who : Stands(p, e, n, who)' <=> Stands(p, e, n, who)
      BY <1>1, SameRows DEF OwnInv
    <2>2. \A key : Unsettled(key)' <=> Unsettled(key)
      BY <1>1 DEF Unsettled, Settling, Under, NamesOf
    <2>3. ClaimsSound'
      BY <1>1, <2>1, <2>2 DEF ClaimsSound, OwnInv, ClaimOn
    <2>4. \A c \in Callers : CallSound(c)'
      BY <1>1 DEF CallSound, OwnInv
    <2>. QED
      BY <2>1, <2>3, <2>4 DEF OwnInv
  <1>2. CASE Lock \/ Unlock \/ HandleTrustRemove \/ UNCHANGED evars
    BY <1>1, <1>2 DEF Lock, Unlock, HandleTrustRemove, evars, scopeVars
  <1>3. CASE Structure
    BY <1>0, <1>3, OwnStructure
  <1>4. ASSUME NEW c \in Callers, Requests(c) PROVE OwnInv'
    BY <1>0, <1>4, OwnRequest
  <1>5. ASSUME NEW c \in Callers, Steps(c) PROVE OwnInv'
    BY <1>0, <1>5, OwnStep
  <1>6. CASE DaemonRestarts
    BY <1>6, OwnRestart
  <1>. QED
    BY <1>2, <1>3, <1>4, <1>5, <1>6 DEF ENext

\* A vault starts without claims.
LEMMA OwnAtStart == EInit => OwnInv
  <1>. SUFFICES ASSUME EInit PROVE OwnInv
    OBVIOUS
  <1>1. RowsSound
    <2>1. rows = {} \/ \E r \in LegacyRows : rows = {r}
      BY DEF EInit
    <2>. QED
      BY <2>1, LegacyAssumption DEF RowsSound
  <1>2. ClaimsSound
    BY DEF ClaimsSound, EInit
  <1>3. \A c \in Callers : CallSound(c)
    BY DEF CallSound, EInit
  <1>. QED
    BY <1>1, <1>2, <1>3 DEF OwnInv

\* An authored claim of a caller is over a row of its own.
LEMMA OwnIsMine == OwnInv => OwnValuesOnly
  <1>. SUFFICES ASSUME OwnInv, NEW p \in ProjNames, NEW e \in EnvNames, NEW n \in VarNames,
                       <<p, e, n>> \notin loose, ~Unsettled(<<p, e, n>>), NEW c \in Callers,
                       NEW r \in HandleGet(c, p, e, n), Policy(p, e) # "none"
                PROVE  r.val.by = c
    BY DEF OwnValuesOnly
  <1>1. Mine(c, p, e, n) /\ (r \in ReadAuthored(p, e, n) \/ r \in Inherited(p, e, n))
    BY DEF HandleGet, GetEnvVar
  <1>2. PICK k \in registry : k.proj = p /\ k.env = e /\ k.name = n /\ k.who = c /\ k.authored
    BY <1>1 DEF Mine, Own, Claims
  <1>3. ClaimOn(k) = <<p, e, n>>
    BY <1>2 DEF ClaimOn
  <1>4. Stands(p, e, n, c)
    BY <1>2, <1>3 DEF OwnInv, ClaimsSound
  <1>5. r \in Fetch(ScopeId(p, e), n)
    BY <1>1, <1>4 DEF ReadAuthored, Inherited, Stands
  <1>. QED
    BY <1>4, <1>5 DEF Stands

\* Whatever calls overlap, a caller that shows nothing is handed values of its own
\* only (handleGet and authored.go), for every name that no call is settling and
\* whose claim is not loose: the claim follows the last writer through puts,
\* overwrites, renames, imports, deletes and migrations.
THEOREM OwnValuesHolds == ESpec => []OwnValuesOnly
  <1>1. EInit => OwnInv
    BY OwnAtStart
  <1>2. GrantInv /\ OwnInv /\ [ENext]_evars => OwnInv'
    BY OwnNext
  <1>3. OwnInv => OwnValuesOnly
    BY OwnIsMine
  <1>4. ESpec => []GrantInv
    BY GrantAlways
  <1>. QED
    BY <1>1, <1>2, <1>3, <1>4, PTL DEF ESpec
=============================================================================
