--------------------------- MODULE PostureProofs ---------------------------
(***************************************************************************)
(* Proofs about PostureFile for any threads, UEs and values.  The central  *)
(* invariant is PastCovers: every line of every file on disk, half written *)
(* or abandoned ones included, has for each UE and direction a value the   *)
(* registry once had, so whatever file a scheduler happens to open holds   *)
(* nothing invented.                                                       *)
(***************************************************************************)
EXTENDS PostureFile, FiniteSetTheorems, TLAPS

\* who is about to use a file has one
HeldFiles ==
  /\ \A t \in Thread : pc[t] = "write" => fd[t] # None
  /\ \A d \in Dir : rpc[d] # "poll" => path # None
  /\ \A d \in Dir : rpc[d] = "read" => rfd[d] # None

PastCovers ==
  /\ Empty \in past /\ registry \in past
  /\ \A t \in Thread : snap[t] \in past
  /\ \A i \in Inode, r \in Rnti, d \in Dir :
       \E h \in past : inode[i].lines[r][d] = h[r][d]

IInv == TypeOK /\ HeldFiles /\ PastCovers /\ NoInventedPosture

-----------------------------------------------------------------------------
(* Sizes and inodes                                                        *)

\* A pair, as a set, has at most two members.
LEMMA TwoNames ==
  ASSUME NEW a, NEW b
  PROVE  IsFiniteSet({a, b}) /\ Cardinality({a, b}) \in Nat /\ Cardinality({a, b}) <= 2
<1>1. {a, b} = {a} \cup {b}
  OBVIOUS
<1>2. IsFiniteSet({a}) /\ Cardinality({a}) = 1
  BY FS_Singleton
<1>3. IsFiniteSet({a} \cup {b}) /\ Cardinality({a} \cup {b}) = IF b \in {a} THEN 1 ELSE 2
  BY <1>2, FS_AddElement
<1> QED
  BY <1>1, <1>3

\* The union of two finite sets is no larger than both together.
LEMMA UnionBound ==
  ASSUME NEW S, IsFiniteSet(S), NEW T, IsFiniteSet(T), NEW m \in Nat, NEW k \in Nat,
         Cardinality(S) <= m, Cardinality(T) <= k
  PROVE  /\ IsFiniteSet(S \cup T)
         /\ Cardinality(S \cup T) <= m + k
<1>1. IsFiniteSet(S \cap T)
  BY FS_Subset, S \cap T \in SUBSET S
<1>2. Cardinality(S) \in Nat /\ Cardinality(T) \in Nat /\ Cardinality(S \cap T) \in Nat
  BY <1>1, FS_CardinalityType
<1>3. /\ IsFiniteSet(S \cup T)
      /\ Cardinality(S \cup T) = Cardinality(S) + Cardinality(T) - Cardinality(S \cap T)
  BY FS_Union
<1> QED
  BY <1>2, <1>3

\* The size of a file, and the offset of a line in it, are numbers.
LEMMA SizeType ==
  ASSUME NEW lines \in Lines
  PROVE  Size(lines) \in Nat
<1>1. IsFiniteSet({"ul", "dl"})
  BY TwoNames
<1>2. IsFiniteSet(Dir) /\ IsFiniteSet(Rnti)
  <2>1. Dir \in SUBSET {"ul", "dl"} /\ IsFiniteSet(Rnti)
    BY PostureAssumption DEF PostureAssumption
  <2> QED
    BY <1>1, <2>1, FS_Subset
<1>3. IsFiniteSet(Rnti \X Dir)
  BY <1>2, FS_Product
<1>4. Fields(lines) \in SUBSET (Rnti \X Dir) /\ Listed(lines) \in SUBSET Rnti
  BY DEF Listed, Fields
<1>5. IsFiniteSet(Fields(lines)) /\ IsFiniteSet(Listed(lines))
  BY <1>2, <1>3, <1>4, FS_Subset
<1>6. Cardinality(Fields(lines)) \in Nat /\ Cardinality(Listed(lines)) \in Nat
  BY <1>5, FS_CardinalityType
<1> QED
  BY <1>6 DEF Size

\* A write leaves, for each UE, either the line written or the one before.
LEMMA OverlayLines ==
  ASSUME NEW new \in Lines, NEW old \in Lines
  PROVE  /\ Overlay(new, old) \in Lines
         /\ \A r \in Rnti : Overlay(new, old)[r] \in {new[r], old[r]}
BY DEF Overlay, Lines

\* With as many inodes as names, writers and readers and one more there is
\* always a free one, so that opening the temporary file never waits.
LEMMA SomeInodeFree ==
  ASSUME TypeOK, tmp = None
  PROVE  Free # {}
<1> DEFINE W == {fd[t] : t \in Thread}
           R == {rfd[d] : d \in Dir}
           Used == {tmp, path} \cup W \cup R
           n == Cardinality(Thread)
<1> USE PostureAssumption DEF PostureAssumption
<1>1. n \in Nat
  BY FS_CardinalityType
<1>2. IsFiniteSet(W) /\ Cardinality(W) <= n
  <2>1. fd \in Surjection(Thread, W)
    BY DEF TypeOK, Surjection
  <2> QED
    BY <2>1, FS_Surjection
<1>3. IsFiniteSet({"ul", "dl"}) /\ Cardinality({"ul", "dl"}) <= 2
  BY TwoNames
<1>4. /\ IsFiniteSet(Dir) /\ Cardinality(Dir) \in Nat
      /\ Cardinality(Dir) <= Cardinality({"ul", "dl"})
  <2>1. Dir \in SUBSET {"ul", "dl"}
    OBVIOUS
  <2> QED
    BY <1>3, <2>1, FS_Subset, FS_CardinalityType
<1>5. IsFiniteSet(R) /\ Cardinality(R) <= 2
  <2>1. rfd \in Surjection(Dir, R)
    BY DEF TypeOK, Surjection
  <2>2. IsFiniteSet(R) /\ Cardinality(R) <= Cardinality(Dir)
    BY <1>4, <2>1, FS_Surjection
  <2>3. Cardinality(R) \in Nat /\ Cardinality({"ul", "dl"}) \in Nat
    BY <2>2, TwoNames, FS_CardinalityType
  <2> HIDE DEF R
  <2> QED
    BY <1>3, <1>4, <2>2, <2>3
<1>6. IsFiniteSet({tmp, path}) /\ Cardinality({tmp, path}) <= 2
  BY TwoNames
<1> HIDE DEF W, R, n, Used
<1>7. IsFiniteSet({tmp, path} \cup W) /\ Cardinality({tmp, path} \cup W) <= 2 + n
  <2> HIDE PostureAssumption
  <2> QED
    BY <1>1, <1>2, <1>6, UnionBound
<1>8. IsFiniteSet(Used) /\ Cardinality(Used) <= n + 4
  <2>1. 2 + n \in Nat /\ (2 + n) + 2 = n + 4
    BY <1>1
  <2>2. IsFiniteSet(({tmp, path} \cup W) \cup R)
        /\ Cardinality(({tmp, path} \cup W) \cup R) <= (2 + n) + 2
    BY <1>5, <1>7, <2>1, UnionBound
  <2> QED
    BY <2>1, <2>2 DEF Used
<1>9. SUFFICES ASSUME Free = {} PROVE FALSE
  OBVIOUS
<1>10. 0 .. n + 4 \subseteq Used
  <2>1. Inode \subseteq Used
    BY <1>9 DEF Free, Used, W, R
  <2>2. None \in Used
    BY DEF Used
  <2>3. 0 .. n + 4 \subseteq Inode \cup {None}
    BY <1>1 DEF Inode, None, n
  <2> QED
    BY <2>1, <2>2, <2>3
<1>11. IsFiniteSet(0 .. n + 4) /\ Cardinality(0 .. n + 4) = n + 5
  <2>1. n + 4 \in Int /\ ~(0 > n + 4) /\ (n + 4) - 0 + 1 = n + 5
    BY <1>1
  <2> QED
    BY <2>1, FS_Interval
<1>12. n + 5 <= Cardinality(Used) /\ Cardinality(Used) \in Nat
  <2>1. 0 .. n + 4 \in SUBSET Used
    BY <1>10
  <2>2. Cardinality(0 .. n + 4) <= Cardinality(Used)
    BY <1>8, <2>1, FS_Subset
  <2> QED
    BY <1>8, <1>11, <2>2, FS_CardinalityType
<1> QED
  BY <1>1, <1>8, <1>12

-----------------------------------------------------------------------------
(* The invariant                                                           *)

LEMMA InitIInv == Init => IInv
<1> SUFFICES ASSUME Init PROVE IInv
  OBVIOUS
<1>1. Empty \in Lines /\ \A r \in Rnti, d \in Dir : Empty[r][d] = Unset
  BY DEF Empty, Absent, Lines, Entry
<1>2. NoFile \in File /\ NoFile.lines = Empty
  BY <1>1 DEF NoFile, File
<1>3. TypeOK
  <2>1. NoStamp \in Stamp
    BY DEF NoStamp, Stamp
  <2>2. table \in [Dir -> [Rnti -> Value \cup {Unset}]]
    BY DEF Init
  <2>3. {ver, sec, requests} \subseteq Nat /\ past \subseteq Lines
    BY <1>1 DEF Init
  <2>4. /\ registry \in Lines
        /\ snap \in [Thread -> Lines]
        /\ inode \in [Inode -> File]
    BY <1>1, <1>2 DEF Init
  <2>5. /\ fd \in [Thread -> Inode \cup {None}] /\ rfd \in [Dir -> Inode \cup {None}]
        /\ {tmp, path} \subseteq Inode \cup {None}
        /\ pc \in [Thread -> {"idle"}] /\ rpc \in [Dir -> {"poll"}]
        /\ stat \in [Dir -> {NoStamp}] /\ key \in [Dir -> {NoStamp}]
        /\ gone \subseteq Rnti /\ alone \in BOOLEAN
    BY DEF Init
  <2> QED
    BY <2>1, <2>2, <2>3, <2>4, <2>5 DEF TypeOK
<1>4. HeldFiles
  BY DEF Init, HeldFiles
<1>5. PastCovers /\ NoInventedPosture
  BY <1>1, <1>2 DEF Init, PastCovers, NoInventedPosture
<1> QED
  BY <1>3, <1>4, <1>5 DEF IInv

\* A request changes the line of its UE into another line.
LEMMA MergeType ==
  ASSUME NEW lines \in Lines, NEW q \in Request
  PROVE  Merge(lines, q) \in Lines
<1>1. q.rnti \in Rnti /\ Absent \in Entry /\ lines[q.rnti] \in Entry
  BY DEF Request, Absent, Entry, Lines
<1>2. CASE q.cmd \in ClearCmd
  BY <1>1, <1>2 DEF Merge, Lines
<1>3. CASE q.cmd \notin ClearCmd
  <2>1. q.dir \in Dir /\ q.value \in Value
    BY <1>3 DEF Request
  <2>2. [lines[q.rnti] EXCEPT ![q.dir] = q.value] \in Entry
    BY <1>1, <2>1 DEF Entry
  <2> QED
    BY <1>1, <1>3, <2>2 DEF Merge, Lines
<1> QED
  BY <1>2, <1>3

\* A request adds to past what it makes of the registry.
LEMMA BeginIInv ==
  ASSUME IInv, NEW t \in Thread, NEW q \in Request, Begin(t, q)
  PROVE  IInv'
<1> USE DEF Begin, disk, gnb
<1>2. registry' \in Lines
  BY MergeType DEF IInv, TypeOK
<1>3. TypeOK'
  <2>1. requests' \in Nat /\ past' \subseteq Lines
    <3>1. requests \in Nat /\ requests' = requests + 1
      BY DEF IInv, TypeOK
    <3>2. past \subseteq Lines
      BY DEF IInv, TypeOK
    <3>3. past' = past \cup {registry'}
      BY Zenon
    <3> HIDE DEF Begin
    <3> QED
      BY <1>2, <3>1, <3>2, <3>3
  <2>2. alone' \in BOOLEAN
    BY DEF Quiet
  <2>3. pc' \in [Thread -> {"idle", "snapshot", "open", "write", "replace", "reply"}]
    BY DEF IInv, TypeOK
  <2>4. gone' \subseteq Rnti
    <3>1. gone \subseteq Rnti /\ q.rnti \in Rnti
      BY DEF IInv, TypeOK, Request
    <3>2. gone' \subseteq gone \cup {q.rnti}
      BY Zenon
    <3> HIDE DEF Begin
    <3> QED
      BY <3>1, <3>2
  <2> QED
    BY <1>2, <2>1, <2>2, <2>3, <2>4 DEF IInv, TypeOK
<1>4. HeldFiles'
  BY DEF IInv, HeldFiles, TypeOK
<1>5. PastCovers' /\ NoInventedPosture'
  BY DEF IInv, PastCovers, NoInventedPosture
<1> QED
  BY <1>3, <1>4, <1>5 DEF IInv

LEMMA SnapshotIInv ==
  ASSUME IInv, NEW t \in Thread, Snapshot(t)
  PROVE  IInv'
<1> USE DEF Snapshot, disk, gnb
<1>1. TypeOK'
  BY DEF IInv, TypeOK
<1>2. HeldFiles'
  BY DEF IInv, HeldFiles, TypeOK
<1>3. PastCovers' /\ NoInventedPosture'
  BY DEF IInv, PastCovers, NoInventedPosture, TypeOK
<1> QED
  BY <1>1, <1>2, <1>3 DEF IInv

\* The truncated file has no line; an inode given back holds none either.
LEMMA OpenTmpIInv ==
  ASSUME IInv, NEW t \in Thread, OpenTmp(t)
  PROVE  IInv'
<1> USE DEF OpenTmp, gnb
<1>1. Empty \in Lines /\ \A r \in Rnti, d \in Dir : Empty[r][d] = Unset
  BY DEF Empty, Absent, Lines, Entry
<1>2. tmp' \in Inode /\ tmp' # None
  <2>1. tmp = None => (CHOOSE i \in Free : TRUE) \in Free
    BY SomeInodeFree DEF IInv
  <2>2. tmp' \in Inode
    BY <2>1 DEF IInv, TypeOK, Free
  <2> QED
    BY <2>2, PostureAssumption, FS_CardinalityType DEF PostureAssumption, Inode, None
<1>3. ver + 1 \in Nat /\ sec \in Nat
  BY DEF IInv, TypeOK
<1>4. \A i \in Inode :
        /\ inode'[i] \in File
        /\ inode'[i].lines \in {Empty, inode[i].lines}
  BY <1>1, <1>3 DEF IInv, TypeOK, File, NoFile
<1>5. TypeOK'
  <2>1. inode' \in [Inode -> File]
    BY <1>4
  <2> QED
    BY <1>2, <1>3, <2>1 DEF IInv, TypeOK
<1>6. HeldFiles'
  BY <1>2 DEF IInv, HeldFiles, TypeOK
<1>7. PastCovers'
  BY <1>1, <1>4 DEF IInv, PastCovers
<1>8. NoInventedPosture'
  BY DEF IInv, NoInventedPosture
<1> QED
  BY <1>5, <1>6, <1>7, <1>8 DEF IInv

\* Each line of the written file comes from the snapshot or was there before.
LEMMA WriteTmpIInv ==
  ASSUME IInv, NEW t \in Thread, WriteTmp(t)
  PROVE  IInv'
<1> USE DEF WriteTmp, gnb
<1> DEFINE old == inode[fd[t]]
           new == [lines |-> Overlay(snap[t], old.lines),
                   size |-> Larger(Size(snap[t]), old.size), ver |-> ver + 1, sec |-> sec]
<1>1. fd[t] \in Inode /\ fd[t] # None
  BY DEF IInv, HeldFiles, TypeOK
<1>2. old \in File /\ snap[t] \in Lines
  BY <1>1 DEF IInv, TypeOK
<1>3. old.lines \in Lines /\ old.size \in Nat
  BY <1>2 DEF File
<1>4. Larger(Size(snap[t]), old.size) \in Nat
  BY <1>2, <1>3, SizeType DEF Larger
<1>5. ver + 1 \in Nat /\ sec \in Nat
  BY DEF IInv, TypeOK
<1>6. new \in File
  BY <1>2, <1>3, <1>4, <1>5, OverlayLines DEF File
<1>7. \A r \in Rnti : new.lines[r] \in {snap[t][r], old.lines[r]}
  BY <1>2, <1>3, OverlayLines
<1>8. inode' = [inode EXCEPT ![fd[t]] = new] /\ Empty \in Lines
  BY DEF Empty, Absent, Lines, Entry
<1> HIDE DEF old, new
<1>9. TypeOK'
  BY <1>1, <1>5, <1>6, <1>8 DEF IInv, TypeOK
<1>10. HeldFiles'
  BY DEF IInv, HeldFiles, TypeOK
<1>11. PastCovers'
  <2>1. \A s \in Thread : snap'[s] \in past'
    BY DEF IInv, PastCovers, TypeOK
  <2>2. ASSUME NEW i \in Inode, NEW r \in Rnti, NEW d \in Dir
        PROVE  \E h \in past : inode'[i].lines[r][d] = h[r][d]
    <3>1. CASE i # fd[t]
      BY <1>8, <3>1 DEF IInv, PastCovers, TypeOK
    <3>2. CASE i = fd[t]
      <4>1. inode'[i] = new
        BY <1>1, <1>8, <3>2 DEF IInv, TypeOK
      <4>2. CASE new.lines[r] = snap[t][r]
        BY <4>1, <4>2 DEF IInv, PastCovers
      <4>3. CASE new.lines[r] = old.lines[r]
        BY <1>1, <4>1, <4>3 DEF IInv, PastCovers, old
      <4> QED
        BY <1>7, <4>2, <4>3
    <3> QED
      BY <3>1, <3>2
  <2> QED
    BY <2>1, <2>2 DEF IInv, PastCovers
<1>12. NoInventedPosture'
  BY DEF IInv, NoInventedPosture
<1> QED
  BY <1>9, <1>10, <1>11, <1>12 DEF IInv

LEMMA ReplaceIInv ==
  ASSUME IInv, NEW t \in Thread, Replace(t) \/ ReplaceFails(t)
  PROVE  IInv'
<1> USE DEF Replace, ReplaceFails, disk, gnb
<1>1. TypeOK'
  BY DEF IInv, TypeOK
<1>2. HeldFiles'
  BY DEF IInv, HeldFiles, TypeOK
<1>3. PastCovers' /\ NoInventedPosture'
  BY DEF IInv, PastCovers, NoInventedPosture
<1> QED
  BY <1>1, <1>2, <1>3 DEF IInv

LEMMA ReplyIInv ==
  ASSUME IInv, NEW t \in Thread, Reply(t)
  PROVE  IInv'
<1> USE DEF Reply, disk, gnb
<1>1. TypeOK'
  BY DEF IInv, TypeOK
<1>2. HeldFiles'
  BY DEF IInv, HeldFiles, TypeOK
<1>3. PastCovers' /\ NoInventedPosture'
  BY DEF IInv, PastCovers, NoInventedPosture
<1> QED
  BY <1>1, <1>2, <1>3 DEF IInv

LEMMA RestartIInv ==
  ASSUME IInv, Restart
  PROVE  IInv'
<1> USE DEF Restart, disk, gnb
<1>1. Empty \in Lines
  BY DEF Empty, Absent, Lines, Entry
<1>2. TypeOK'
  <2>1. /\ registry' \in Lines
        /\ snap' \in [Thread -> Lines]
        /\ pc' \in [Thread -> {"idle"}]
        /\ fd' \in [Thread -> {None}]
    BY <1>1
  <2> QED
    BY <2>1 DEF IInv, TypeOK
<1>3. HeldFiles'
  BY DEF IInv, HeldFiles
<1>4. PastCovers' /\ NoInventedPosture'
  BY DEF IInv, PastCovers, NoInventedPosture
<1> QED
  BY <1>2, <1>3, <1>4 DEF IInv

LEMMA PollIInv ==
  ASSUME IInv, NEW d \in Dir, Poll(d)
  PROVE  IInv'
<1> USE DEF Poll, xapp, disk
<1>1. path \in Inode
  BY DEF IInv, TypeOK
<1>2. StampOf(inode[path]) \in Stamp
  BY <1>1 DEF IInv, TypeOK, StampOf, File, Stamp
<1>3. TypeOK'
  BY <1>2 DEF IInv, TypeOK
<1>4. HeldFiles'
  BY DEF IInv, HeldFiles, TypeOK
<1>5. PastCovers' /\ NoInventedPosture'
  BY DEF IInv, PastCovers, NoInventedPosture
<1> QED
  BY <1>3, <1>4, <1>5 DEF IInv

LEMMA OpenPathIInv ==
  ASSUME IInv, NEW d \in Dir, OpenPath(d)
  PROVE  IInv'
<1> USE DEF OpenPath, xapp, disk
<1>1. TypeOK'
  BY DEF IInv, TypeOK
<1>2. HeldFiles'
  BY DEF IInv, HeldFiles, TypeOK
<1>3. PastCovers' /\ NoInventedPosture'
  BY DEF IInv, PastCovers, NoInventedPosture
<1> QED
  BY <1>1, <1>2, <1>3 DEF IInv

\* The lines of whatever file the scheduler opened were in the registry once.
LEMMA ReadIInv ==
  ASSUME IInv, NEW d \in Dir, Read(d)
  PROVE  IInv'
<1> USE DEF Read, Parsed, xapp, disk
<1>1. rfd[d] \in Inode
  BY DEF IInv, HeldFiles, TypeOK
<1>2. \A r \in Rnti : inode[rfd[d]].lines[r][d] \in Value \cup {Unset}
  BY <1>1 DEF IInv, TypeOK, File, Lines, Entry
<1>3. NoStamp \in Stamp
  BY DEF NoStamp, Stamp
<1>4. TypeOK'
  BY <1>2, <1>3 DEF IInv, TypeOK
<1>5. HeldFiles'
  BY DEF IInv, HeldFiles, TypeOK
<1>6. PastCovers'
  BY DEF IInv, PastCovers
<1>7. NoInventedPosture'
  <2> SUFFICES ASSUME NEW e \in Dir, NEW r \in Rnti
               PROVE  \E h \in past : table'[e][r] = h[r][e]
    BY DEF NoInventedPosture
  <2>1. CASE e = d
    <3>1. table'[e][r] = inode[rfd[d]].lines[r][e]
      BY <2>1 DEF IInv, TypeOK
    <3> QED
      BY <1>1, <3>1 DEF IInv, PastCovers
  <2>2. CASE e # d
    <3>1. table'[e][r] = table[e][r]
      BY <2>2 DEF IInv, TypeOK
    <3> QED
      BY <3>1 DEF IInv, NoInventedPosture
  <2> QED
    BY <2>1, <2>2
<1> QED
  BY <1>4, <1>5, <1>6, <1>7 DEF IInv

LEMMA NextIInv == IInv /\ [Next]_vars => IInv'
<1> SUFFICES ASSUME IInv, [Next]_vars PROVE IInv'
  OBVIOUS
<1>1. ASSUME NEW t \in Thread, NEW r \in Rnti, NEW d \in Dir, NEW v \in Value,
             SetPosture(t, r, d, v)
      PROVE  IInv'
  <2>1. [cmd |-> SetCmd, rnti |-> r, dir |-> d, value |-> v] \in Request
    BY DEF Request
  <2> QED
    BY <1>1, <2>1, BeginIInv DEF SetPosture
<1>2. ASSUME NEW t \in Thread, NEW r \in Rnti, NEW cmd \in ClearCmd,
             ClearPosture(t, r, cmd)
      PROVE  IInv'
  <2>1. [cmd |-> cmd, rnti |-> r] \in Request
    BY DEF Request
  <2> QED
    BY <1>2, <2>1, BeginIInv DEF ClearPosture
<1>3. ASSUME NEW t \in Thread, Work(t) PROVE IInv'
  BY <1>3, SnapshotIInv, OpenTmpIInv, WriteTmpIInv, ReplaceIInv, ReplyIInv DEF Work
<1>4. CASE Restart
  BY <1>4, RestartIInv
<1>5. ASSUME NEW d \in Dir, Reload(d) PROVE IInv'
  BY <1>5, PollIInv, OpenPathIInv, ReadIInv DEF Reload
<1>6. CASE Tick \/ UNCHANGED vars
  <2>1. UNCHANGED <<xapp, disk, gnb>> /\ sec' \in Nat
    BY <1>6 DEF Tick, vars, IInv, TypeOK
  <2>2. TypeOK'
    BY <2>1 DEF IInv, TypeOK, xapp, disk, gnb
  <2>3. HeldFiles'
    BY <2>1 DEF IInv, HeldFiles, xapp, disk, gnb
  <2>4. PastCovers' /\ NoInventedPosture'
    BY <2>1 DEF IInv, PastCovers, NoInventedPosture, xapp, disk, gnb
  <2> QED
    BY <2>2, <2>3, <2>4 DEF IInv
<1> QED
  BY <1>1, <1>2, <1>3, <1>4, <1>5, <1>6 DEF Next

LEMMA Invariance == Spec => []IInv
<1>1. IInv /\ UNCHANGED vars => IInv'
  BY NextIInv
<1> QED
  BY InitIInv, NextIInv, PTL DEF Spec

\* Every variable keeps its type; in particular opening the temporary file
\* always finds an inode, and every read is of a file.
THEOREM PostureTypeOK == Spec => []TypeOK
<1>1. IInv => TypeOK
  BY DEF IInv
<1> QED
  BY <1>1, Invariance, PTL

\* However many threads write the file and restart in the middle, a scheduler
\* applies to a UE only values that were set for it.
THEOREM PostureNotInvented == Spec => []NoInventedPosture
<1>1. IInv => NoInventedPosture
  BY DEF IInv
<1> QED
  BY <1>1, Invariance, PTL

-----------------------------------------------------------------------------
(* One request at a time                                                   *)

\* Where the registry is on its way to the file while t is the only thread:
\* in the registry, in the lines t formatted, in the temporary file, in the
\* file.
OnItsWay(t) ==
  /\ fd[t] # None <=> pc[t] = "write"
  /\ tmp # None <=> pc[t] \in {"write", "replace"}
  /\ tmp # None => tmp # path
  /\ pc[t] = "write" => fd[t] = tmp
  /\ pc[t] \in {"open", "write"} => snap[t] = registry
  /\ pc[t] = "write" => inode[tmp].lines = Empty
  /\ pc[t] = "replace" => inode[tmp].lines = registry
  /\ pc[t] \in {"idle", "reply"} => Published = registry

\* Written to an empty file, the lines are what the file holds.
LEMMA OverlayEmpty ==
  ASSUME NEW new \in Lines
  PROVE  Overlay(new, Empty) = new
<1>1. \A r \in Rnti : Empty[r] = Absent
  BY DEF Empty
<1>2. Overlay(new, Empty) = [r \in Rnti |-> new[r]]
  BY <1>1 DEF Overlay
<1> QED
  BY <1>2 DEF Lines

LEMMA OnItsWayStep ==
  ASSUME NEW t, Thread = {t}, IInv, OnItsWay(t), [Next]_vars, ~Restart
  PROVE  OnItsWay(t)'
<1> USE DEF OnItsWay
<1> t \in Thread
  OBVIOUS
<1>1. ASSUME NEW q, Begin(t, q) PROVE OnItsWay(t)'
  BY <1>1 DEF Begin, MayBegin, disk, Published, IInv, TypeOK
<1>2. CASE Snapshot(t)
  BY <1>2 DEF Snapshot, disk, IInv, TypeOK
<1>3. CASE OpenTmp(t)
  <2>1. tmp' \in Free /\ tmp' # None
    <3>1. tmp' \in Free
      BY <1>3, SomeInodeFree DEF OpenTmp, IInv
    <3> QED
      BY <3>1, PostureAssumption, FS_CardinalityType DEF PostureAssumption, Free, Inode, None
  <2>2. tmp' # path
    BY <2>1 DEF Free
  <2>3. inode'[tmp'].lines = Empty
    BY <1>3, <2>1 DEF OpenTmp, Free
  <2>4. /\ UNCHANGED <<registry, snap, path>>
        /\ pc[t] = "open" /\ pc'[t] = "write" /\ fd'[t] = tmp'
    BY <1>3 DEF OpenTmp, IInv, TypeOK
  <2> QED
    BY <2>1, <2>2, <2>3, <2>4
<1>4. CASE WriteTmp(t)
  <2>1. /\ UNCHANGED <<registry, tmp, path>>
        /\ pc[t] = "write" /\ pc'[t] = "replace" /\ fd'[t] = None
    BY <1>4 DEF WriteTmp, IInv, TypeOK
  <2>2. tmp \in Inode /\ snap[t] \in Lines
    BY <2>1 DEF IInv, TypeOK
  <2>3. inode'[tmp].lines = Overlay(snap[t], inode[tmp].lines)
    BY <1>4, <2>1, <2>2 DEF WriteTmp, IInv, TypeOK
  <2>4. inode'[tmp].lines = registry
    BY <2>1, <2>2, <2>3, OverlayEmpty
  <2> QED
    BY <2>1, <2>4
<1>5. CASE Replace(t)
  BY <1>5 DEF Replace, Published, IInv, TypeOK
<1>6. CASE ReplaceFails(t)
  BY <1>6 DEF ReplaceFails
<1>7. CASE Reply(t)
  BY <1>7 DEF Reply, disk, Published, IInv, TypeOK
<1>8. CASE (\E d \in Dir : Reload(d)) \/ Tick \/ UNCHANGED vars
  <2>1. UNCHANGED <<xapp, disk>>
    BY <1>8 DEF Reload, Poll, OpenPath, Read, Tick, vars
  <2> QED
    BY <2>1 DEF xapp, disk, Published
<1> QED
  BY <1>1, <1>2, <1>3, <1>4, <1>5, <1>6, <1>7, <1>8
     DEF Next, SetPosture, ClearPosture, Work

-----------------------------------------------------------------------------
(* A request served alone                                                  *)

\* Where the registry is while t serves a request that met no other: in the
\* lines t formatted, in the temporary file, in the file.
InHand(t) ==
  /\ pc[t] \in {"open", "write"} => snap[t] = registry
  /\ pc[t] = "write" => tmp # None /\ fd[t] = tmp /\ inode[tmp].lines = Empty
  /\ pc[t] = "replace" => tmp # None /\ inode[tmp].lines = registry
  /\ pc[t] = "reply" => Published = registry

\* Nothing is said of the requests that met others: what they leave behind, a
\* temporary file with lines in it or a published file with the wrong ones, does
\* not matter to the next that is served alone.
LoneInv ==
  alone =>
    /\ \A t, u \in Thread : pc[t] # "idle" /\ pc[u] # "idle" => t = u
    /\ \A t \in Thread : InHand(t)
    /\ Quiet => Published = registry

\* The steps of the thread that serves the request.
LEMMA LoneWork ==
  ASSUME IInv, LoneInv, NEW t \in Thread, Work(t)
  PROVE  LoneInv'
<1> SUFFICES ASSUME alone' PROVE LoneInv'
  BY DEF LoneInv
<1>1. alone
  BY DEF Work, Snapshot, OpenTmp, WriteTmp, Replace, ReplaceFails, Reply
<1>2. pc[t] # "idle" /\ pc \in [Thread -> {"idle", "snapshot", "open", "write", "replace", "reply"}]
  BY DEF Work, Snapshot, OpenTmp, WriteTmp, Replace, ReplaceFails, Reply, IInv, TypeOK
<1>3. \A u \in Thread \ {t} : pc[u] = "idle" /\ pc'[u] = "idle"
  <2>1. \A u \in Thread \ {t} : pc'[u] = pc[u]
    BY <1>2 DEF Work, Snapshot, OpenTmp, WriteTmp, Replace, ReplaceFails, Reply
  <2> QED
    BY <1>1, <1>2, <2>1 DEF LoneInv
<1>4. InHand(t)
  BY <1>1 DEF LoneInv
<1>5. SUFFICES InHand(t)' /\ (pc'[t] = "idle" => Published' = registry')
  <2>1. \A u \in Thread \ {t} : InHand(u)'
    BY <1>3 DEF InHand
  <2> QED
    BY <1>3, <2>1 DEF LoneInv, Quiet
<1>6. CASE Snapshot(t)
  BY <1>2, <1>6 DEF Snapshot, InHand, IInv, TypeOK
<1>7. CASE OpenTmp(t)
  <2>1. tmp' \in Inode /\ tmp' # None
    <3>1. tmp = None => (CHOOSE i \in Free : TRUE) \in Free
      BY SomeInodeFree DEF IInv
    <3>2. tmp' \in Inode
      BY <1>7, <3>1 DEF OpenTmp, IInv, TypeOK, Free
    <3> QED
      BY <3>2, PostureAssumption, FS_CardinalityType DEF PostureAssumption, Inode, None
  <2>2. inode'[tmp'].lines = Empty
    BY <1>7, <2>1 DEF OpenTmp
  <2>3. /\ UNCHANGED <<registry, snap>>
        /\ pc[t] = "open" /\ pc'[t] = "write" /\ fd'[t] = tmp'
    BY <1>7 DEF OpenTmp, IInv, TypeOK
  <2> QED
    BY <1>4, <2>1, <2>2, <2>3 DEF InHand
<1>8. CASE WriteTmp(t)
  <2>1. /\ UNCHANGED <<registry, tmp>>
        /\ pc[t] = "write" /\ pc'[t] = "replace"
    BY <1>8 DEF WriteTmp, IInv, TypeOK
  <2>2. /\ tmp # None /\ fd[t] = tmp /\ inode[tmp].lines = Empty /\ snap[t] = registry
        /\ tmp \in Inode /\ registry \in Lines
    BY <1>4, <2>1 DEF InHand, IInv, TypeOK
  <2>3. inode'[tmp].lines = Overlay(snap[t], inode[tmp].lines)
    BY <1>8, <2>2 DEF WriteTmp, IInv, TypeOK
  <2>4. inode'[tmp].lines = registry
    BY <2>2, <2>3, OverlayEmpty
  <2> QED
    BY <2>1, <2>2, <2>4 DEF InHand
<1>9. CASE Replace(t)
  BY <1>2, <1>4, <1>9 DEF Replace, InHand, Published
<1>10. CASE ReplaceFails(t)
  BY <1>4, <1>10 DEF ReplaceFails, InHand
<1>11. CASE Reply(t)
  BY <1>2, <1>4, <1>11 DEF Reply, InHand, Published, disk
<1> QED
  BY <1>6, <1>7, <1>8, <1>9, <1>10, <1>11 DEF Work

LEMMA LoneStep == IInv /\ LoneInv /\ [Next]_vars => LoneInv'
<1> SUFFICES ASSUME IInv, LoneInv, [Next]_vars PROVE LoneInv'
  OBVIOUS
<1>1. ASSUME NEW t \in Thread, NEW q, Begin(t, q) PROVE LoneInv'
  <2>1. SUFFICES ASSUME Quiet PROVE LoneInv'
    BY <1>1 DEF Begin, LoneInv
  <2>2. pc' = [pc EXCEPT ![t] = "snapshot"] /\ pc \in [Thread -> {"idle"}]
    BY <1>1, <2>1 DEF Begin, Quiet, IInv, TypeOK
  <2> QED
    BY <2>2 DEF LoneInv, InHand, Quiet
<1>2. ASSUME NEW t \in Thread, Work(t) PROVE LoneInv'
  BY <1>2, LoneWork
<1>3. CASE Restart
  BY <1>3 DEF Restart, LoneInv
<1>4. CASE (\E d \in Dir : Reload(d)) \/ Tick \/ UNCHANGED vars
  <2>1. UNCHANGED <<xapp, disk>>
    BY <1>4 DEF Reload, Poll, OpenPath, Read, Tick, vars
  <2> QED
    BY <2>1 DEF xapp, disk, LoneInv, InHand, Quiet, Published
<1> QED
  BY <1>1, <1>2, <1>3, <1>4 DEF Next, SetPosture, ClearPosture

\* However many threads raced before, and whatever a restart left behind, a
\* request that is served alone leaves the whole registry in the file.
THEOREM PosturePublished == Spec => []LoneRequestPublishes
<1>1. Init => LoneInv
  BY DEF Init, LoneInv, InHand, Published
<1>2. LoneInv => LoneRequestPublishes
  BY DEF LoneInv, LoneRequestPublishes
<1> QED
  BY <1>1, <1>2, LoneStep, Invariance, PTL DEF Spec

-----------------------------------------------------------------------------
(* No posture lapses                                                       *)

\* b has a posture wherever a has one that was not cleared
Covers(b, a) ==
  \A d \in Dir, r \in Rnti : a[r][d] # Unset /\ r \notin gone => b[r][d] # Unset

\* the posture the scheduler of d applies is set in these lines
TableIn(d, lines) ==
  \A r \in Rnti : table[d][r] # Unset /\ r \notin gone => lines[r][d] # Unset

\* On the way from the registry to a table postures are only added: the file
\* has no more than the registry, the file a scheduler holds no more than the
\* file published since, its table no more than either.  No one writes to a
\* file a scheduler holds.
OnlyAdded ==
  /\ Covers(registry, Published)
  /\ \A d \in Dir :
       /\ TableIn(d, Published)
       /\ rpc[d] = "read" =>
            /\ Covers(Published, inode[rfd[d]].lines)
            /\ TableIn(d, inode[rfd[d]].lines)
       /\ rfd[d] # None => rfd[d] # tmp

\* After a restart every posture counts as cleared.
NoLapseInv(t) == gone = Rnti \/ (OnItsWay(t) /\ OnlyAdded)

LEMMA OnlyAddedStep ==
  ASSUME NEW t, Thread = {t}, IInv, OnItsWay(t), OnlyAdded, [Next]_vars, ~Restart
  PROVE  OnlyAdded'
<1> t \in Thread
  OBVIOUS
<1>0. /\ registry \in Lines /\ table \in [Dir -> [Rnti -> Value \cup {Unset}]]
      /\ \A d \in Dir : rpc[d] = "read" => rfd[d] \in Inode
      /\ path # None => path \in Inode
  BY DEF IInv, TypeOK, HeldFiles
<1>1. ASSUME NEW q \in Request, Begin(t, q) PROVE OnlyAdded'
  <2>1. UNCHANGED <<disk, gnb>> /\ Published' = Published
    BY <1>1 DEF Begin, disk, Published
  <2>2. gone \subseteq gone' /\ (q.cmd \in ClearCmd => q.rnti \in gone')
    BY <1>1 DEF Begin
  <2>3. \A d \in Dir, r \in Rnti : registry[r][d] # Unset /\ r \notin gone' => registry'[r][d] # Unset
    <3> SUFFICES ASSUME NEW d \in Dir, NEW r \in Rnti, registry[r][d] # Unset, r \notin gone'
                 PROVE  registry'[r][d] # Unset
      OBVIOUS
    <3>1. registry' = Merge(registry, q)
      BY <1>1 DEF Begin
    <3>2. CASE r # q.rnti
      BY <1>0, <3>1, <3>2 DEF Merge, Lines
    <3>3. CASE r = q.rnti
      <4>1. q.cmd \notin ClearCmd
        BY <2>2, <3>3
      <4>2. q.dir \in Dir /\ q.value \in Value
        BY <4>1 DEF Request
      <4>3. registry'[r] = [registry[r] EXCEPT ![q.dir] = q.value]
        BY <1>0, <3>1, <3>3, <4>1 DEF Merge, Lines
      <4>4. q.value # Unset /\ registry[r] \in Entry
        BY <1>0, <4>2, PostureAssumption DEF Lines
      <4> QED
        BY <4>2, <4>3, <4>4 DEF Entry
    <3> QED
      BY <3>2, <3>3
  <2>4. Covers(registry, Published)'
    BY <2>1, <2>2, <2>3 DEF OnlyAdded, Covers
  <2> QED
    BY <2>1, <2>2, <2>4 DEF OnlyAdded, Covers, TableIn, disk, gnb
<1>2. CASE Snapshot(t) \/ ReplaceFails(t) \/ Reply(t) \/ Tick \/ UNCHANGED vars
  <2>1. UNCHANGED <<registry, gone, disk, gnb>>
    BY <1>2 DEF Snapshot, ReplaceFails, Reply, Tick, vars, xapp
  <2> QED
    BY <2>1 DEF OnlyAdded, Covers, TableIn, Published, disk, gnb
<1>3. CASE OpenTmp(t)
  <2>1. tmp' \in Free
    BY <1>3, SomeInodeFree DEF OpenTmp, OnItsWay, IInv
  <2>2. /\ UNCHANGED <<registry, gone, path, gnb>>
        /\ \A i \in Inode : i \notin Free => inode'[i] = inode[i]
    BY <1>3, <2>1 DEF OpenTmp
  <2>3. Published' = Published
    <3>1. path # None => path \notin Free
      BY DEF Free
    <3> QED
      BY <1>0, <2>2, <3>1 DEF Published
  <2>4. \A d \in Dir : rfd[d] \notin Free /\ tmp' # rfd[d]
    BY <2>1 DEF Free
  <2> QED
    BY <1>0, <2>2, <2>3, <2>4 DEF OnlyAdded, Covers, TableIn, gnb
<1>4. CASE WriteTmp(t)
  <2>1. /\ UNCHANGED <<registry, gone, tmp, path, gnb>>
        /\ pc[t] = "write" /\ fd[t] = tmp /\ tmp # path /\ tmp # None
    BY <1>4 DEF WriteTmp, OnItsWay
  <2>2. \A i \in Inode : i # tmp => inode'[i] = inode[i]
    BY <1>4, <2>1 DEF WriteTmp, IInv, TypeOK
  <2>3. Published' = Published
    BY <1>0, <2>1, <2>2 DEF Published
  <2>4. \A d \in Dir : rpc[d] = "read" => inode'[rfd[d]] = inode[rfd[d]]
    BY <1>0, <2>2 DEF OnlyAdded, IInv, HeldFiles
  <2> QED
    BY <1>0, <2>1, <2>2, <2>3, <2>4 DEF OnlyAdded, Covers, TableIn, gnb
<1>5. CASE Replace(t)
  <2>1. /\ UNCHANGED <<registry, gone, inode, gnb>> /\ path' = tmp /\ tmp' = None
        /\ pc[t] = "replace" /\ tmp # None
    BY <1>5 DEF Replace
  <2>2. Published' = registry
    BY <2>1 DEF OnItsWay, Published
  <2> QED
    BY <2>1, <2>2 DEF OnlyAdded, Covers, TableIn, gnb
<1>6. ASSUME NEW d \in Dir, Poll(d) PROVE OnlyAdded'
  <2>1. /\ UNCHANGED <<registry, gone, table, rfd, disk>>
        /\ \A e \in Dir : rpc'[e] = "read" => rpc[e] = "read"
    BY <1>6 DEF Poll, xapp, IInv, TypeOK
  <2> QED
    BY <2>1 DEF OnlyAdded, Covers, TableIn, Published, disk
<1>7. ASSUME NEW d \in Dir, OpenPath(d) PROVE OnlyAdded'
  <2>1. /\ UNCHANGED <<registry, gone, table, disk>> /\ path # None
        /\ rfd'[d] = path /\ \A e \in Dir \ {d} : rfd'[e] = rfd[e] /\ rpc'[e] = rpc[e]
    BY <1>7 DEF OpenPath, xapp, IInv, TypeOK, HeldFiles
  <2>2. path # tmp
    BY <2>1 DEF OnItsWay
  <2>3. Published' = Published /\ Published = inode[path].lines /\ inode' = inode /\ tmp' = tmp
    BY <2>1 DEF Published, disk
  <2> QED
    BY <2>1, <2>2, <2>3 DEF OnlyAdded, Covers, TableIn
<1>8. ASSUME NEW d \in Dir, Read(d) PROVE OnlyAdded'
  <2>1. /\ UNCHANGED <<registry, gone, disk>>
        /\ rpc[d] = "read" /\ rpc'[d] = "poll" /\ rfd'[d] = None
        /\ \A e \in Dir \ {d} : rfd'[e] = rfd[e] /\ rpc'[e] = rpc[e] /\ table'[e] = table[e]
        /\ \A r \in Rnti : table'[d][r] = inode[rfd[d]].lines[r][d]
    BY <1>8 DEF Read, Parsed, xapp, IInv, TypeOK
  <2>2. Published' = Published /\ inode' = inode /\ tmp' = tmp
    BY <2>1 DEF Published, disk
  <2> QED
    BY <2>1, <2>2 DEF OnlyAdded, Covers, TableIn
<1>9. ASSUME NEW r \in Rnti,
             (\E d \in Dir, v \in Value : SetPosture(t, r, d, v))
               \/ (\E cmd \in ClearCmd : ClearPosture(t, r, cmd))
      PROVE  \E q \in Request : Begin(t, q)
  BY <1>9 DEF SetPosture, ClearPosture, Request
<1> QED
  BY <1>1, <1>2, <1>3, <1>4, <1>5, <1>6, <1>7, <1>8, <1>9 DEF Next, Work, Reload

\* A reload only takes from a table what was cleared.
LEMMA ReloadAdds ==
  ASSUME IInv, OnlyAdded, [Next]_vars
  PROVE  \A d \in Dir, r \in Rnti :
           table[d][r] # Unset /\ r \notin gone => table'[d][r] # Unset
<1>1. ASSUME NEW e \in Dir, Read(e)
      PROVE  \A d \in Dir, r \in Rnti :
               table[d][r] # Unset /\ r \notin gone => table'[d][r] # Unset
  <2>1. /\ rpc[e] = "read" /\ \A d \in Dir \ {e} : table'[d] = table[d]
        /\ \A r \in Rnti : table'[e][r] = inode[rfd[e]].lines[r][e]
    BY <1>1 DEF Read, Parsed, IInv, TypeOK
  <2> QED
    BY <2>1 DEF OnlyAdded, TableIn
<1>2. CASE UNCHANGED table
  BY <1>2
<1>3. (\E e \in Dir : Read(e)) \/ UNCHANGED table
  BY DEF Next, SetPosture, ClearPosture, Begin, Work, Snapshot, OpenTmp, WriteTmp, Replace,
     ReplaceFails, Reply, Restart, Reload, Poll, OpenPath, Tick, gnb, vars
<1> QED
  BY <1>1, <1>2, <1>3

\* With one request thread a reload never takes a posture from a UE that was
\* not cleared, whenever the schedulers stat, open and read the file.
THEOREM PostureNoLapse ==
  ASSUME NEW t, Thread = {t}
  PROVE  Spec => NoLapse
<1> DEFINE Step == \A d \in Dir, r \in Rnti :
                     table[d][r] # Unset /\ r \notin gone => table'[d][r] # Unset
<1>1. Init => NoLapseInv(t)
  <2> SUFFICES ASSUME Init PROVE OnItsWay(t) /\ OnlyAdded
    BY DEF NoLapseInv
  <2>1. OnItsWay(t)
    BY DEF Init, OnItsWay, Published
  <2>2. OnlyAdded
    BY DEF Init, OnlyAdded, Covers, TableIn, Published
  <2> QED
    BY <2>1, <2>2
<1>2. IInv /\ IInv' /\ NoLapseInv(t) /\ [Next]_vars => NoLapseInv(t)'
  <2> SUFFICES ASSUME IInv, IInv', NoLapseInv(t), [Next]_vars PROVE NoLapseInv(t)'
    OBVIOUS
  <2>1. CASE gone = Rnti \/ Restart
    <3>1. gone \subseteq gone' \/ gone' = Rnti
      BY DEF Next, SetPosture, ClearPosture, Begin, Work, Snapshot, OpenTmp, WriteTmp, Replace,
         ReplaceFails, Reply, Restart, Reload, Poll, OpenPath, Read, Tick, xapp, vars
    <3>2. gone' \subseteq Rnti
      BY DEF IInv, TypeOK
    <3>3. Restart => gone' = Rnti
      BY DEF Restart
    <3> QED
      BY <2>1, <3>1, <3>2, <3>3 DEF NoLapseInv
  <2>2. CASE OnItsWay(t) /\ OnlyAdded /\ ~Restart
    BY <2>2, OnItsWayStep, OnlyAddedStep DEF NoLapseInv
  <2> QED
    BY <2>1, <2>2 DEF NoLapseInv
<1>3. IInv /\ NoLapseInv(t) /\ [Next]_vars => Step
  <2> SUFFICES ASSUME IInv, NoLapseInv(t), [Next]_vars PROVE Step
    OBVIOUS
  <2>1. CASE gone = Rnti
    BY <2>1
  <2>2. CASE OnlyAdded
    BY <2>2, ReloadAdds
  <2> QED
    BY <2>1, <2>2 DEF NoLapseInv
<1> HIDE DEF Step
<1>4. IInv /\ NoLapseInv(t) /\ [Next]_vars => [Step]_vars
  BY <1>3
<1>5. Spec => [][Step]_vars
  BY <1>1, <1>2, <1>4, Invariance, PTL DEF Spec
<1> QED
  BY <1>5 DEF Step, NoLapse

-----------------------------------------------------------------------------
(* One writer publishes whole registries, whenever it is restarted         *)

\* What a scheduler applies is, for all UEs together, what one past registry
\* had: never a part of one and a part of another.
WholeTables == \A d \in Dir : \E h \in past : table[d] = Parsed(h, d)

\* When a request is about to be answered, the file holds the registry.
ServedMeansPublished == \A t \in Thread : pc[t] = "reply" => Published = registry

\* The file on its way from the registry to a table, also when a restart left
\* a temporary file behind: it is truncated before it is written again.
Whole(t) ==
  /\ fd[t] # None => pc[t] = "write" /\ fd[t] = tmp
  /\ tmp # None => tmp # path
  /\ pc[t] \in {"open", "write"} => snap[t] = registry
  /\ pc[t] = "write" => fd[t] = tmp /\ inode[tmp].lines = Empty
  /\ pc[t] = "replace" => tmp # None /\ inode[tmp].lines = registry
  /\ pc[t] = "reply" => Published = registry
  /\ Published \in past
  /\ \A d \in Dir : rfd[d] # None => rfd[d] # tmp /\ inode[rfd[d]].lines \in past
  /\ WholeTables

\* The handlers of the xApp do not touch a file a scheduler may read.
LEMMA WholeXapp ==
  ASSUME NEW t, Thread = {t}, IInv, Whole(t), UNCHANGED gnb,
         past \subseteq past', path' = path \/ (path' = tmp /\ pc[t] = "replace"),
         tmp' # None => tmp' # path' /\ \A d \in Dir : rfd[d] # tmp',
         \A i \in Inode : i = path \/ (i = tmp /\ pc[t] = "replace") \/ (\E d \in Dir : i = rfd[d])
                            => inode'[i].lines = inode[i].lines
  PROVE  /\ Published' \in past'
         /\ \A d \in Dir : rfd'[d] # None => rfd'[d] # tmp' /\ inode'[rfd'[d]].lines \in past'
         /\ WholeTables'
         /\ tmp' # None => tmp' # path'
<1> USE DEF Whole
<1>1. t \in Thread /\ {tmp, path} \subseteq Inode \cup {None} /\ rfd \in [Dir -> Inode \cup {None}]
      /\ Empty \in past /\ registry \in past
  BY DEF IInv, TypeOK, PastCovers
<1>2. Published' \in past'
  <2>1. CASE path' = path
    BY <1>1, <2>1 DEF Published
  <2>2. CASE path' = tmp /\ pc[t] = "replace"
    <3>1. tmp \in Inode /\ inode'[tmp].lines = registry
      BY <1>1, <2>2
    <3> QED
      BY <1>1, <2>2, <3>1 DEF Published
  <2> QED
    BY <2>1, <2>2
<1>3. ASSUME NEW d \in Dir, rfd'[d] # None
      PROVE  rfd'[d] # tmp' /\ inode'[rfd'[d]].lines \in past'
  <2>1. rfd'[d] = rfd[d] /\ rfd[d] \in Inode /\ inode[rfd[d]].lines \in past
    BY <1>1, <1>3 DEF gnb
  <2>2. inode'[rfd[d]].lines = inode[rfd[d]].lines
    BY <2>1
  <2>3. rfd[d] # tmp'
    BY <1>3, <2>1 DEF None
  <2> QED
    BY <2>1, <2>2, <2>3
<1>4. WholeTables'
  BY DEF WholeTables, gnb
<1> QED
  BY <1>2, <1>3, <1>4

LEMMA WholeStep ==
  ASSUME NEW t, Thread = {t}, IInv, Whole(t), [Next]_vars
  PROVE  Whole(t)'
<1> USE DEF Whole
<1>0. /\ t \in Thread /\ {tmp, path} \subseteq Inode \cup {None}
      /\ rfd \in [Dir -> Inode \cup {None}] /\ registry \in Lines
      /\ Empty \in past /\ registry \in past
  BY DEF IInv, TypeOK, PastCovers
<1>1. ASSUME NEW q, Begin(t, q) PROVE Whole(t)'
  <2>1. /\ UNCHANGED <<disk, gnb, snap, fd>> /\ past \subseteq past'
        /\ pc[t] = "idle" /\ pc'[t] = "snapshot"
    BY <1>1 DEF Begin, MayBegin, IInv, TypeOK
  <2>2. UNCHANGED <<inode, tmp, path, rfd>>
    BY <2>1 DEF disk, gnb
  <2>3. /\ Published' \in past' /\ WholeTables'
        /\ \A d \in Dir : rfd'[d] # None => rfd'[d] # tmp' /\ inode'[rfd'[d]].lines \in past'
    BY <2>1, <2>2 DEF Published, WholeTables, gnb
  <2> QED
    BY <2>1, <2>2, <2>3
<1>2. CASE Snapshot(t) \/ Reply(t) \/ ReplaceFails(t)
  <2>1. /\ UNCHANGED <<disk, gnb, fd, registry, past>>
        /\ \/ pc[t] = "snapshot" /\ pc'[t] = "open" /\ snap'[t] = registry
           \/ pc[t] \in {"reply", "replace"} /\ pc'[t] = "idle"
    BY <1>2 DEF Snapshot, Reply, ReplaceFails, IInv, TypeOK
  <2>2. UNCHANGED <<inode, tmp, path, rfd>>
    BY <2>1 DEF disk, gnb
  <2>3. Published' = Published /\ (WholeTables <=> WholeTables')
    BY <2>1, <2>2 DEF Published, WholeTables, gnb
  <2> QED
    BY <2>1, <2>2, <2>3
<1>3. CASE OpenTmp(t)
  <2>1. /\ UNCHANGED <<registry, snap, past, path, gnb>>
        /\ pc[t] = "open" /\ pc'[t] = "write" /\ fd'[t] = tmp'
    BY <1>3 DEF OpenTmp, IInv, TypeOK
  <2>2. /\ tmp' \in Inode /\ tmp' # path
        /\ \A d \in Dir : rfd[d] # tmp'
    <3>1. CASE tmp = None
      <4>1. tmp' \in Free
        BY <1>3, <3>1, SomeInodeFree DEF OpenTmp, IInv
      <4> QED
        BY <4>1 DEF Free
    <3>2. CASE tmp # None
      <4>1. tmp' = tmp
        BY <1>3, <3>2 DEF OpenTmp
      <4> QED
        BY <1>0, <3>2, <4>1
    <3> QED
      BY <3>1, <3>2
  <2>3. inode'[tmp'].lines = Empty
    BY <1>3, <2>2 DEF OpenTmp
  <2>4. ASSUME NEW i \in Inode, i = path \/ \E d \in Dir : i = rfd[d]
        PROVE  inode'[i] = inode[i]
    <3>1. i \notin Free /\ i # tmp'
      BY <2>2, <2>4 DEF Free
    <3> QED
      BY <1>3, <3>1 DEF OpenTmp
  <2>5. /\ Published' \in past' /\ WholeTables'
        /\ \A d \in Dir : rfd'[d] # None => rfd'[d] # tmp' /\ inode'[rfd'[d]].lines \in past'
        /\ tmp' # None => tmp' # path'
    BY <2>1, <2>2, <2>4, WholeXapp
  <2> QED
    BY <2>1, <2>2, <2>3, <2>5
<1>4. CASE WriteTmp(t)
  <2>1. /\ UNCHANGED <<registry, tmp, path, past, gnb>>
        /\ pc[t] = "write" /\ pc'[t] = "replace" /\ fd'[t] = None
    BY <1>4 DEF WriteTmp, IInv, TypeOK
  <2>2. fd[t] = tmp /\ tmp \in Inode /\ tmp # None /\ snap[t] = registry
    BY <1>0, <2>1 DEF IInv, HeldFiles
  <2>3. inode'[tmp].lines = Overlay(snap[t], inode[tmp].lines)
    BY <1>4, <2>1, <2>2 DEF WriteTmp, IInv, TypeOK
  <2>4. inode'[tmp].lines = registry
    BY <1>0, <2>1, <2>2, <2>3, OverlayEmpty
  <2>5. ASSUME NEW i \in Inode, i # tmp PROVE inode'[i] = inode[i]
    BY <1>4, <2>2, <2>5 DEF WriteTmp, IInv, TypeOK
  <2>6. \A d \in Dir : rfd[d] # tmp
    BY <2>2
  <2>7. /\ Published' \in past' /\ WholeTables'
        /\ \A d \in Dir : rfd'[d] # None => rfd'[d] # tmp' /\ inode'[rfd'[d]].lines \in past'
        /\ tmp' # None => tmp' # path'
    BY <2>1, <2>2, <2>5, <2>6, WholeXapp
  <2> QED
    BY <2>1, <2>2, <2>4, <2>7
<1>5. CASE Replace(t)
  <2>1. /\ UNCHANGED <<registry, past, inode, gnb, fd>> /\ path' = tmp /\ tmp' = None /\ tmp # None
        /\ pc[t] = "replace" /\ pc'[t] = "reply"
    BY <1>5 DEF Replace, IInv, TypeOK
  <2>2. /\ Published' \in past' /\ WholeTables'
        /\ \A d \in Dir : rfd'[d] # None => rfd'[d] # tmp' /\ inode'[rfd'[d]].lines \in past'
        /\ tmp' # None => tmp' # path'
    BY <2>1, WholeXapp
  <2>3. Published' = registry
    BY <2>1 DEF Published
  <2> QED
    BY <2>1, <2>2, <2>3
<1>6. CASE Restart
  <2>1. /\ UNCHANGED <<inode, tmp, path, past, gnb>>
        /\ pc'[t] = "idle" /\ fd'[t] = None
    BY <1>0, <1>6 DEF Restart, disk
  <2>2. Published' = Published /\ UNCHANGED rfd /\ (WholeTables <=> WholeTables')
    BY <2>1 DEF Published, WholeTables, gnb
  <2> QED
    BY <2>1, <2>2
<1>7. CASE (\E d \in Dir : Poll(d)) \/ Tick \/ UNCHANGED vars
  <2>1. UNCHANGED <<xapp, disk, rfd, table>>
    BY <1>7 DEF Poll, Tick, vars, gnb
  <2>2. UNCHANGED <<registry, pc, snap, fd, past, inode, tmp, path>>
    BY <2>1 DEF xapp, disk
  <2>3. Published' = Published /\ (WholeTables <=> WholeTables')
    BY <2>1, <2>2 DEF Published, WholeTables
  <2> QED
    BY <2>1, <2>2, <2>3
<1>8. ASSUME NEW d \in Dir, OpenPath(d) PROVE Whole(t)'
  <2>1. /\ UNCHANGED <<registry, pc, snap, fd, past, inode, tmp, path, table>>
        /\ rfd' = [rfd EXCEPT ![d] = path]
    BY <1>8 DEF OpenPath, xapp, disk
  <2>2. path # None
    BY <1>8 DEF OpenPath, IInv, HeldFiles
  <2>3. path # tmp /\ inode[path].lines \in past
    BY <2>2 DEF Published
  <2>4. \A e \in Dir : rfd'[e] # None => rfd'[e] # tmp /\ inode[rfd'[e]].lines \in past
    BY <1>0, <2>1, <2>3
  <2>5. Published' = Published /\ (WholeTables <=> WholeTables')
    BY <2>1 DEF Published, WholeTables
  <2> QED
    BY <2>1, <2>4, <2>5
<1>9. ASSUME NEW d \in Dir, Read(d) PROVE Whole(t)'
  <2>1. /\ UNCHANGED <<registry, pc, snap, fd, past, inode, tmp, path>>
        /\ rfd' = [rfd EXCEPT ![d] = None]
        /\ table' = [table EXCEPT ![d] = Parsed(inode[rfd[d]].lines, d)]
    BY <1>9 DEF Read, xapp, disk
  <2>2. rfd[d] # None
    BY <1>9 DEF Read, IInv, HeldFiles
  <2>3. \A e \in Dir : rfd'[e] # None => rfd'[e] # tmp /\ inode[rfd'[e]].lines \in past
    BY <1>0, <2>1
  <2>4. WholeTables'
    <3>1. inode[rfd[d]].lines \in past
      BY <2>2
    <3>2. table \in [Dir -> [Rnti -> Value \cup {Unset}]]
      BY DEF IInv, TypeOK
    <3> QED
      BY <2>1, <3>1, <3>2 DEF WholeTables
  <2>5. Published' = Published
    BY <2>1 DEF Published
  <2> QED
    BY <2>1, <2>3, <2>4, <2>5
<1> QED
  BY <1>1, <1>2, <1>3, <1>4, <1>5, <1>6, <1>7, <1>8, <1>9
     DEF Next, SetPosture, ClearPosture, Work, Reload

\* With one request thread, the file that has the published name is never open
\* for writing, it holds the registry when a request is answered, and each
\* scheduler applies one past registry as a whole; none of this depends on when
\* the xApp is restarted.
THEOREM PostureWhole ==
  ASSUME NEW t, Thread = {t}
  PROVE  Spec => [](NeverWrittenInPlace /\ ServedMeansPublished /\ WholeTables)
<1>1. Init => Whole(t)
  <2> SUFFICES ASSUME Init PROVE Whole(t)
    OBVIOUS
  <2>1. WholeTables
    <3> SUFFICES ASSUME NEW d \in Dir PROVE table[d] = Parsed(Empty, d) /\ Empty \in past
      BY DEF WholeTables
    <3> QED
      BY DEF Init, Parsed, Empty, Absent
  <2> QED
    BY <2>1 DEF Init, Whole, Published
<1>2. IInv /\ Whole(t) /\ [Next]_vars => Whole(t)'
  BY WholeStep
<1>3. Whole(t) => NeverWrittenInPlace /\ ServedMeansPublished /\ WholeTables
  BY DEF Whole, NeverWrittenInPlace, ServedMeansPublished
<1> QED
  BY <1>1, <1>2, <1>3, Invariance, PTL DEF Spec

-----------------------------------------------------------------------------
(* A reload that finds nothing changed has nothing to load                 *)

\* the file the reader found under the published name is the one it loaded, as
\* far as its comparison of time stamps tells; the downlink reader, which looks
\* at seconds and sizes, may not see that a file was replaced within its second
SeesNoChange(d) == path # None /\ ~Changed(d, StampOf(inode[path]))
Missed(d) == d = "dl" /\ key[d].ver # inode[path].ver

UpToDate == \A d \in Dir : SeesNoChange(d) => table[d] = Parsed(Published, d) \/ Missed(d)

\* A reload goes by the stamp of the file it asked stat() for, and the file it
\* then opens may be a later one.  It may not be an earlier one: no file gets the
\* published name back, and no two writes have the same stamp.
Stamped(d) ==
  /\ stat[d].ver <= ver /\ key[d].ver <= ver
  /\ tmp # None => inode[tmp].ver \notin {stat[d].ver, key[d].ver}
  /\ rpc[d] = "read" /\ inode[path].ver = stat[d].ver => rfd[d] = path
  /\ path # None /\ inode[path].ver = key[d].ver => table[d] = Parsed(Published, d)
  /\ path = None => table[d] = Parsed(Empty, d)

StampInv ==
  /\ \A i \in Inode : inode[i].ver <= ver
  /\ tmp # None => inode[tmp].ver > 0 /\ tmp # path
  /\ path # None => inode[path].ver > 0
  /\ tmp # None /\ path # None => inode[tmp].ver # inode[path].ver
  /\ \A d \in Dir : Stamped(d)

\* What the proofs below need of the types.
LEMMA StampTypes ==
  ASSUME IInv
  PROVE  /\ ver \in Nat /\ None \notin Inode
         /\ tmp \in Inode \cup {None} /\ path \in Inode \cup {None}
         /\ \A i \in Inode : inode[i].ver \in Nat
         /\ \A d \in Dir : stat[d].ver \in Nat /\ key[d].ver \in Nat
         /\ \A d \in Dir : rpc[d] # "poll" => path # None
<1>1. /\ ver \in Nat /\ tmp \in Inode \cup {None} /\ path \in Inode \cup {None}
      /\ inode \in [Inode -> File] /\ stat \in [Dir -> Stamp] /\ key \in [Dir -> Stamp]
  BY DEF IInv, TypeOK
<1>2. None \notin Inode
  BY PostureAssumption, FS_CardinalityType DEF PostureAssumption, Inode, None
<1>3. \A i \in Inode : inode[i].ver \in Nat
  BY <1>1 DEF File
<1>4. \A d \in Dir : stat[d].ver \in Nat /\ key[d].ver \in Nat
  BY <1>1 DEF Stamp
<1> QED
  BY <1>1, <1>2, <1>3, <1>4 DEF IInv, HeldFiles

\* A file other than the published one is written: what is or will be in the
\* tables is not touched.
LEMMA AsideStamps ==
  ASSUME IInv, StampInv, UNCHANGED gnb, path' = path, ver' = ver + 1,
         NEW i \in Inode, i # path, inode'[i].ver = ver + 1,
         path # None => inode'[path] = inode[path],
         \A j \in Inode \ {i} : inode'[j] = inode[j] \/ inode'[j].ver = 0,
         tmp' = i \/ (tmp' = tmp /\ (tmp # None => inode'[tmp] = inode[tmp]))
  PROVE  StampInv'
<1>0. /\ ver \in Nat /\ None \notin Inode
      /\ tmp \in Inode \cup {None} /\ path \in Inode \cup {None}
      /\ \A j \in Inode : inode[j].ver \in Nat
      /\ \A d \in Dir : stat[d].ver \in Nat /\ key[d].ver \in Nat
      /\ \A d \in Dir : rpc[d] # "poll" => path # None
  BY StampTypes
<1>1. UNCHANGED <<rpc, stat, rfd, key, table>>
  BY DEF gnb
<1>2. \A j \in Inode : inode'[j].ver <= ver'
  BY <1>0 DEF StampInv
<1>3. tmp' # None => inode'[tmp'].ver > 0 /\ tmp' # path'
  BY <1>0 DEF StampInv
<1>4. path' # None => inode'[path'].ver > 0
  BY DEF StampInv
<1>5. tmp' # None /\ path' # None => inode'[tmp'].ver # inode'[path'].ver
  BY <1>0 DEF StampInv
<1>6. Published' = Published
  BY DEF Published
<1>7. ASSUME NEW d \in Dir PROVE Stamped(d)'
  <2>1. stat'[d].ver <= ver' /\ key'[d].ver <= ver'
    BY <1>0, <1>1 DEF StampInv, Stamped
  <2>2. tmp' # None => inode'[tmp'].ver \notin {stat'[d].ver, key'[d].ver}
    BY <1>0, <1>1 DEF StampInv, Stamped
  <2>3. rpc'[d] = "read" /\ inode'[path'].ver = stat'[d].ver => rfd'[d] = path'
    BY <1>0, <1>1 DEF StampInv, Stamped
  <2>4. /\ path' # None /\ inode'[path'].ver = key'[d].ver => table'[d] = Parsed(Published', d)
        /\ path' = None => table'[d] = Parsed(Empty, d)
    BY <1>1, <1>6 DEF StampInv, Stamped
  <2> QED
    BY <2>1, <2>2, <2>3, <2>4 DEF Stamped
<1> QED
  BY <1>2, <1>3, <1>4, <1>5, <1>7 DEF StampInv

LEMMA OpenTmpStamps ==
  ASSUME IInv, StampInv, NEW t \in Thread, OpenTmp(t)
  PROVE  StampInv'
<1>1. tmp = None => tmp' \in Free
  BY SomeInodeFree DEF OpenTmp, IInv
<1>2. tmp # None => tmp' = tmp
  BY DEF OpenTmp
<1>3. tmp' \in Inode /\ tmp' # path
  BY <1>1, <1>2 DEF IInv, TypeOK, Free, StampInv
<1>4. /\ inode'[tmp'] = [lines |-> Empty, size |-> 0, ver |-> ver + 1, sec |-> sec]
      /\ \A j \in Inode \ {tmp'} : inode'[j] = inode[j] \/ inode'[j] = NoFile
      /\ \A j \in Inode \ {tmp'} : j \notin Free => inode'[j] = inode[j]
  BY <1>3 DEF OpenTmp
<1>5. path # None => inode'[path] = inode[path]
  BY <1>3, <1>4 DEF Free, IInv, TypeOK
<1>6. /\ inode'[tmp'].ver = ver + 1
      /\ \A j \in Inode \ {tmp'} : inode'[j] = inode[j] \/ inode'[j].ver = 0
  BY <1>4 DEF NoFile
<1>7. UNCHANGED gnb /\ path' = path /\ ver' = ver + 1
  BY DEF OpenTmp
<1> QED
  BY <1>3, <1>5, <1>6, <1>7, AsideStamps

\* A write to the published file itself, by a thread that has it open since it
\* had the temporary name, gives it a stamp nobody has seen.
LEMMA WriteTmpStamps ==
  ASSUME IInv, StampInv, NEW t \in Thread, WriteTmp(t)
  PROVE  StampInv'
<1> DEFINE i == fd[t]
<1>0. /\ ver \in Nat /\ None \notin Inode
      /\ tmp \in Inode \cup {None} /\ path \in Inode \cup {None}
      /\ \A j \in Inode : inode[j].ver \in Nat
      /\ \A d \in Dir : stat[d].ver \in Nat /\ key[d].ver \in Nat
      /\ \A d \in Dir : rpc[d] # "poll" => path # None
  BY StampTypes
<1>1. i \in Inode /\ DOMAIN inode = Inode
  BY DEF IInv, HeldFiles, TypeOK, WriteTmp
<1>2. /\ inode'[i].ver = ver + 1 /\ ver' = ver + 1
      /\ \A j \in Inode \ {i} : inode'[j] = inode[j]
  BY <1>1 DEF WriteTmp
<1>3. UNCHANGED gnb /\ tmp' = tmp /\ path' = path
  BY DEF WriteTmp
<1> HIDE DEF i
<1>4. CASE i # path
  BY <1>0, <1>1, <1>2, <1>3, <1>4, AsideStamps
<1>5. CASE i = path
  <2>1. UNCHANGED <<rpc, stat, rfd, key, table>>
    BY <1>3 DEF gnb
  <2>2. tmp # None => inode'[tmp] = inode[tmp] /\ tmp # path
    BY <1>0, <1>2, <1>5 DEF StampInv
  <2>3. ASSUME NEW d \in Dir PROVE Stamped(d)'
    <3>1. stat[d].ver <= ver /\ key[d].ver <= ver
          /\ (tmp # None => inode[tmp].ver \notin {stat[d].ver, key[d].ver})
      BY DEF StampInv, Stamped
    <3> QED
      BY <1>0, <1>1, <1>2, <1>3, <1>5, <2>1, <2>2, <3>1 DEF Stamped
  <2>4. \A j \in Inode : inode'[j].ver <= ver'
    BY <1>0, <1>1, <1>2 DEF StampInv
  <2>5. /\ tmp' # None => inode'[tmp'].ver > 0 /\ tmp' # path'
        /\ path' # None => inode'[path'].ver > 0
        /\ tmp' # None /\ path' # None => inode'[tmp'].ver # inode'[path'].ver
    BY <1>0, <1>1, <1>2, <1>3, <1>5, <2>2 DEF StampInv
  <2> QED
    BY <2>3, <2>4, <2>5 DEF StampInv
<1> QED
  BY <1>4, <1>5

\* The file that gets the published name has a stamp no reader has seen.
LEMMA ReplaceStamps ==
  ASSUME IInv, StampInv, NEW t \in Thread, Replace(t)
  PROVE  StampInv'
<1>1. /\ UNCHANGED <<rpc, stat, rfd, key, table, inode, ver>>
      /\ tmp # None /\ path' = tmp /\ tmp' = None
  BY DEF Replace, gnb
<1>2. ASSUME NEW d \in Dir PROVE Stamped(d)'
  BY <1>1 DEF StampInv, Stamped
<1> QED
  BY <1>1, <1>2 DEF StampInv

LEMMA ReadStamps ==
  ASSUME IInv, StampInv, NEW e \in Dir, Poll(e) \/ OpenPath(e) \/ Read(e)
  PROVE  StampInv'
<1>0. /\ ver \in Nat /\ None \notin Inode
      /\ tmp \in Inode \cup {None} /\ path \in Inode \cup {None}
      /\ \A j \in Inode : inode[j].ver \in Nat
      /\ \A d \in Dir : stat[d].ver \in Nat /\ key[d].ver \in Nat
      /\ \A d \in Dir : rpc[d] # "poll" => path # None
  BY StampTypes
<1>1. UNCHANGED <<inode, tmp, path, ver>> /\ Published' = Published
  BY DEF Poll, OpenPath, Read, disk, Published
<1>2. ASSUME NEW d \in Dir PROVE Stamped(d)'
  <2>0. Stamped(d)
    BY DEF StampInv
  <2>1. CASE d # e
    <3>1. /\ rpc'[d] = rpc[d] /\ stat'[d] = stat[d] /\ rfd'[d] = rfd[d]
          /\ key'[d] = key[d] /\ table'[d] = table[d]
      BY <2>1 DEF Poll, OpenPath, Read, IInv, TypeOK
    <3> QED
      BY <1>1, <2>0, <3>1 DEF Stamped
  <2>2. CASE d = e /\ Poll(e)
    <3>1. /\ stat'[d].ver = inode[path].ver /\ rpc'[d] = "open" /\ path # None
          /\ key'[d] = key[d] /\ table'[d] = table[d]
      BY <2>2 DEF Poll, StampOf, IInv, TypeOK
    <3>2. inode[path].ver <= ver /\ (tmp # None => inode[tmp].ver # inode[path].ver)
      BY <1>0, <3>1 DEF StampInv
    <3> QED
      BY <1>1, <2>0, <3>1, <3>2 DEF Stamped
  <2>3. CASE d = e /\ OpenPath(e)
    <3>1. /\ rfd'[d] = path /\ stat'[d] = stat[d]
          /\ key'[d] = key[d] /\ table'[d] = table[d]
      BY <2>3 DEF OpenPath, IInv, TypeOK
    <3> QED
      BY <1>1, <2>0, <3>1 DEF Stamped
  <2>4. CASE d = e /\ Read(e)
    <3>1. /\ key'[d] = stat[d] /\ stat'[d].ver = 0 /\ rpc'[d] = "poll" /\ rpc[d] = "read"
          /\ table'[d] = Parsed(inode[rfd[d]].lines, d)
      BY <2>4 DEF Read, NoStamp, IInv, TypeOK
    <3>2. path # None
      BY <1>0, <3>1
    <3>3. inode[path].ver = stat[d].ver => Parsed(inode[rfd[d]].lines, d) = Parsed(Published, d)
      BY <2>0, <3>1, <3>2 DEF Stamped, Published
    <3>4. tmp # None => inode[tmp].ver \notin {stat[d].ver, 0}
      BY <1>0, <2>0 DEF StampInv, Stamped
    <3> QED
      BY <1>0, <1>1, <2>0, <3>1, <3>2, <3>3, <3>4 DEF Stamped
  <2> QED
    BY <2>1, <2>2, <2>3, <2>4
<1> QED
  BY <1>1, <1>2 DEF StampInv

LEMMA StampStep == IInv /\ StampInv /\ [Next]_vars => StampInv'
<1> SUFFICES ASSUME IInv, StampInv, [Next]_vars PROVE StampInv'
  OBVIOUS
<1>1. ASSUME UNCHANGED <<disk, gnb>> PROVE StampInv'
  <2>1. UNCHANGED <<inode, tmp, path, ver, rpc, stat, rfd, key, table>>
    BY <1>1 DEF disk, gnb
  <2>2. Published' = Published
    BY <2>1 DEF Published
  <2>3. ASSUME NEW d \in Dir PROVE Stamped(d)'
    BY <2>1, <2>2 DEF StampInv, Stamped
  <2> QED
    BY <2>1, <2>3 DEF StampInv
<1>2. ASSUME NEW t \in Thread, Work(t) PROVE StampInv'
  <2>1. CASE Snapshot(t) \/ ReplaceFails(t) \/ Reply(t)
    BY <1>1, <2>1 DEF Snapshot, ReplaceFails, Reply
  <2> QED
    BY <1>2, <2>1, OpenTmpStamps, WriteTmpStamps, ReplaceStamps DEF Work
<1>3. ASSUME NEW d \in Dir, Reload(d) PROVE StampInv'
  BY <1>3, ReadStamps DEF Reload
<1>4. ASSUME NEW t \in Thread, NEW q, Begin(t, q) PROVE StampInv'
  BY <1>1, <1>4 DEF Begin
<1>5. CASE Restart \/ Tick \/ UNCHANGED vars
  BY <1>1, <1>5 DEF Restart, Tick, vars
<1> QED
  BY <1>2, <1>3, <1>4, <1>5 DEF Next, SetPosture, ClearPosture

LEMMA StampInvariance == Spec => []StampInv
<1>1. Init => StampInv
  <2> SUFFICES ASSUME Init PROVE StampInv
    OBVIOUS
  <2>1. \A d \in Dir : table[d] = Parsed(Empty, d)
    BY DEF Init, Parsed, Empty, Absent
  <2> QED
    BY <2>1 DEF Init, StampInv, Stamped, NoFile, NoStamp
<1> QED
  BY <1>1, StampStep, Invariance, PTL DEF Spec

\* A reader that sees no change keeps what it has.
LEMMA NoChangeUpToDate == IInv /\ StampInv => UpToDate
<1> SUFFICES ASSUME IInv, StampInv, NEW d \in Dir, SeesNoChange(d), ~Missed(d)
             PROVE  table[d] = Parsed(Published, d)
  BY DEF UpToDate
<1>1. d \in {"ul", "dl"}
  BY PostureAssumption DEF PostureAssumption
<1>2. inode[path].ver = key[d].ver /\ path # None
  BY <1>1, PostureAssumption DEF SeesNoChange, Missed, Changed, StampOf
<1> QED
  BY <1>2 DEF StampInv, Stamped

\* However many threads write, rename and are restarted, and however a reload
\* interleaves with them: a scheduler that finds the file unchanged applies what
\* the file holds, but for a downlink file replaced within its second.  No update
\* is skipped because the file was replaced between the stat() and the fopen()
\* of a reload.
THEOREM PostureUpToDate == Spec => []UpToDate
BY NoChangeUpToDate, Invariance, StampInvariance, PTL

\* Both schedulers have nothing to reload: there is no file yet, or each finds
\* the one it loaded.
Settled == \A d \in Dir : path = None \/ (SeesNoChange(d) /\ ~Missed(d))

\* This is what the schedulers converge to: once the last request was served
\* alone and nothing is left to reload, every UE has exactly the posture the
\* registry has for it, whatever threads and restarts interleaved before.
THEOREM PostureSettled ==
  Spec => [](Quiet /\ alone /\ Settled => \A d \in Dir : Applied(d))
<1>1. IInv /\ StampInv /\ LoneRequestPublishes
        => (Quiet /\ alone /\ Settled => \A d \in Dir : Applied(d))
  <2> SUFFICES ASSUME IInv, StampInv, LoneRequestPublishes, Quiet, alone, Settled,
                      NEW d \in Dir, NEW r \in Rnti
               PROVE  table[d][r] = registry[r][d]
    BY DEF Applied
  <2>1. table[d] = Parsed(Published, d)
    <3>1. CASE path = None
      BY <3>1 DEF StampInv, Stamped, Published
    <3>2. CASE path # None
      BY <3>2, NoChangeUpToDate DEF Settled, UpToDate
    <3> QED
      BY <3>1, <3>2
  <2>2. Published = registry
    BY DEF LoneRequestPublishes
  <2> QED
    BY <2>1, <2>2 DEF Parsed
<1> QED
  BY <1>1, Invariance, StampInvariance, PosturePublished, PTL
=============================================================================
