---------------------------- MODULE PostureFile ----------------------------
(***************************************************************************)
(* How the radio posture of a UE travels from the xApp to the schedulers:  *)
(* request threads of spark_ran_side/control_xapp.py update a registry     *)
(* under _UE_LA_LOCK and publish all of it by writing UE_LA_STATE_PATH +   *)
(* ".tmp" and renaming it, outside the lock; the uplink and downlink       *)
(* tables of the gNB (rk_ue_la_policy.c, rk_ue_dl_policy.c) poll the file  *)
(* and read it again when its time stamp changed.                          *)
(*                                                                         *)
(* A posture has one value per direction.  A file is the lines it holds,   *)
(* its size in tokens (one for rnti= and one for each field), and two time *)
(* stamps: ver orders all writes (st_mtim with its nanoseconds), sec is    *)
(* the second of the last one.  Values have the same width.                *)
(*                                                                         *)
(* What ue_list shows of a posture, fields of UE_REGISTRY that the         *)
(* handlers, the reports of gnb_rnti_watcher.py, the pruning and reset_ues *)
(* all write, is no part of this module.                                   *)
(***************************************************************************)
EXTENDS Integers, FiniteSets

CONSTANTS
  Thread,       \* request threads of the xApp (serve_forever)
  Rnti,         \* UE identifiers, the key the lines are sorted by
  Value,        \* values of a posture field
  Dir,          \* directions with a posture, "ul" or "dl" or both
  Reader,       \* directions whose scheduler runs
  MayClear,     \* whether the clear commands are requested
  MayRestart,   \* whether the xApp may be restarted
  MaxRequests,  \* bound on the requests
  MaxSec        \* bound on the clock

None == 0
Unset == 0

ASSUME PostureAssumption ==
  /\ Thread # {} /\ IsFiniteSet(Thread) /\ IsFiniteSet(Rnti) /\ Rnti \subseteq Nat
  /\ Value \subseteq Nat \ {Unset} /\ Dir \subseteq {"ul", "dl"} /\ Reader \subseteq Dir
  /\ {MayClear, MayRestart} \subseteq BOOLEAN
  /\ MaxRequests \in Nat /\ MaxSec \in Nat

VARIABLES
  registry,     \* UE_UL_LA_REGISTRY
  pc,           \* where each request thread is
  snap,         \* the lines it formatted under the lock
  fd,           \* the inode it opened for writing
  inode,        \* the files on disk
  tmp, path,    \* the inodes the temporary and the published name stand for
  rpc,          \* where each reader of the gNB is
  stat,         \* what its stat() returned
  rfd,          \* the inode it opened
  key,          \* the time stamp (and size) of what it loaded
  table,        \* the posture it applies
  ver, sec,     \* clocks
  requests,     \* number of requests so far
  past,         \* history: every value the registry had
  gone,         \* history: the UEs whose posture was cleared or forgotten
  alone         \* history: whether the last request met no other and no restart

xapp == <<registry, pc, snap, fd, requests, past, gone, alone>>
disk == <<inode, tmp, path, ver>>
gnb == <<rpc, stat, rfd, key, table>>
vars == <<xapp, disk, gnb, sec>>

Entry == [Dir -> Value \cup {Unset}]
Absent == [d \in Dir |-> Unset]
Lines == [Rnti -> Entry]
Empty == [r \in Rnti |-> Absent]
\* enough for every name, writer and reader to hold one
Inode == 1 .. Cardinality(Thread) + 4
File == [lines : Lines, size : Nat, ver : Nat, sec : Nat]
NoFile == [lines |-> Empty, size |-> 0, ver |-> 0, sec |-> 0]
SetCmd == "set_ue_ul_la"
ClearCmd == {"clear_ue_ul_la", "clear_ue_posture"}
Request ==
  [cmd : {SetCmd}, rnti : Rnti, dir : Dir, value : Value]
    \cup [cmd : ClearCmd, rnti : Rnti]
Stamp == [size : Nat, ver : Nat, sec : Nat]
NoStamp == [size |-> 0, ver |-> 0, sec |-> 0]

TypeOK ==
  /\ registry \in Lines
  /\ pc \in [Thread -> {"idle", "snapshot", "open", "write", "replace", "reply"}]
  /\ snap \in [Thread -> Lines]
  /\ fd \in [Thread -> Inode \cup {None}]
  /\ inode \in [Inode -> File]
  /\ {tmp, path} \subseteq Inode \cup {None}
  /\ rpc \in [Dir -> {"poll", "open", "read"}]
  /\ stat \in [Dir -> Stamp] /\ key \in [Dir -> Stamp]
  /\ rfd \in [Dir -> Inode \cup {None}]
  /\ table \in [Dir -> [Rnti -> Value \cup {Unset}]]
  /\ {ver, sec, requests} \subseteq Nat
  /\ past \subseteq Lines /\ gone \subseteq Rnti /\ alone \in BOOLEAN

Init ==
  /\ registry = Empty
  /\ pc = [t \in Thread |-> "idle"]
  /\ snap = [t \in Thread |-> Empty]
  /\ fd = [t \in Thread |-> None]
  /\ inode = [i \in Inode |-> NoFile]
  /\ tmp = None /\ path = None
  /\ rpc = [d \in Dir |-> "poll"]
  /\ stat = [d \in Dir |-> NoStamp] /\ key = [d \in Dir |-> NoStamp]
  /\ rfd = [d \in Dir |-> None]
  /\ table = [d \in Dir |-> [r \in Rnti |-> Unset]]
  /\ ver = 0 /\ sec = 1 /\ requests = 0
  /\ past = {Empty} /\ gone = {} /\ alone = TRUE

-----------------------------------------------------------------------------
(* Lines and sizes                                                         *)

Listed(lines) == {r \in Rnti : lines[r] # Absent}
Fields(lines) == {f \in Rnti \X Dir : lines[f[1]][f[2]] # Unset}
Size(lines) == Cardinality(Listed(lines)) + Cardinality(Fields(lines))
SizeBelow(lines, r) ==
  Cardinality({q \in Listed(lines) : q < r}) + Cardinality({f \in Fields(lines) : f[1] < r})

\* new written from the start of a file that still holds old: the lines of
\* old that lie wholly behind it survive; a line cut in two has no rnti= and
\* the readers skip it
Overlay(new, old) ==
  [r \in Rnti |->
     IF old[r] # Absent /\ SizeBelow(old, r) >= Size(new) THEN old[r] ELSE new[r]]

Larger(a, b) == IF a >= b THEN a ELSE b

\* an inode no name, writer or reader refers to
Free == Inode \ ({tmp, path} \cup {fd[t] : t \in Thread} \cup {rfd[d] : d \in Dir})

-----------------------------------------------------------------------------
(* Request threads of the xApp                                             *)

Quiet == \A t \in Thread : pc[t] = "idle"

MayBegin(t) ==
  /\ pc[t] = "idle"
  /\ requests < MaxRequests

\* Mutation: a set command replaces the entry of the UE.
MergeReplaces(lines, q) ==
  [lines EXCEPT ![q.rnti] =
     IF q.cmd \in ClearCmd THEN Absent ELSE [Absent EXCEPT ![q.dir] = q.value]]

\* a set command merges its fields into the entry of the UE; both clear
\* commands run do_clear_ue_ul_la, which drops the whole entry
Merge(lines, q) ==
  [lines EXCEPT ![q.rnti] =
     IF q.cmd \in ClearCmd THEN Absent ELSE [@ EXCEPT ![q.dir] = q.value]]

\* the part of the handlers under the lock
Begin(t, q) ==
  /\ MayBegin(t)
  /\ registry' = Merge(registry, q)
  /\ past' = past \cup {registry'}
  /\ gone' = IF q.cmd \in ClearCmd THEN gone \cup {q.rnti} ELSE gone
  /\ pc' = [pc EXCEPT ![t] = "snapshot"]
  /\ requests' = requests + 1
  /\ alone' = Quiet
  /\ UNCHANGED <<snap, fd, disk, gnb, sec>>

\* do_set_ue_ul_la
SetPosture(t, r, d, v) ==
  Begin(t, [cmd |-> SetCmd, rnti |-> r, dir |-> d, value |-> v])

\* do_clear_ue_ul_la
ClearPosture(t, r, cmd) ==
  MayClear /\ Begin(t, [cmd |-> cmd, rnti |-> r])

\* _write_ue_la_state_atomic formats the registry under the lock ...
Snapshot(t) ==
  /\ pc[t] = "snapshot"
  /\ snap' = [snap EXCEPT ![t] = registry]
  /\ pc' = [pc EXCEPT ![t] = "open"]
  /\ UNCHANGED <<registry, fd, requests, past, gone, alone, disk, gnb, sec>>

\* Mutation: the temporary file is not truncated.
OpenTmpKeeps(t) ==
  /\ pc[t] = "open"
  /\ tmp' \in IF tmp = None THEN {CHOOSE i \in Free : TRUE} ELSE {tmp}
  /\ inode' = [i \in Inode |-> IF i \in Free THEN NoFile ELSE inode[i]]
  /\ fd' = [fd EXCEPT ![t] = tmp']
  /\ pc' = [pc EXCEPT ![t] = "write"]
  /\ UNCHANGED <<registry, snap, requests, past, gone, alone, path, ver, gnb, sec>>

\* ... opens the temporary file, which truncates the one another thread may
\* still have open under that name ...
OpenTmp(t) ==
  /\ pc[t] = "open"
  /\ tmp' \in IF tmp = None THEN {CHOOSE i \in Free : TRUE} ELSE {tmp}
  /\ inode' = [i \in Inode |->
                 CASE i = tmp' -> [lines |-> Empty, size |-> 0, ver |-> ver + 1, sec |-> sec]
                   [] i # tmp' /\ i \in Free -> NoFile
                   [] OTHER -> inode[i]]
  /\ ver' = ver + 1
  /\ fd' = [fd EXCEPT ![t] = tmp']
  /\ pc' = [pc EXCEPT ![t] = "write"]
  /\ UNCHANGED <<registry, snap, requests, past, gone, alone, path, gnb, sec>>

\* ... writes the lines from the start of the file it opened ...
WriteTmp(t) ==
  /\ pc[t] = "write"
  /\ LET old == inode[fd[t]] IN
       inode' = [inode EXCEPT ![fd[t]] =
                   [lines |-> Overlay(snap[t], old.lines),
                    size |-> Larger(Size(snap[t]), old.size),
                    ver |-> ver + 1, sec |-> sec]]
  /\ ver' = ver + 1
  /\ fd' = [fd EXCEPT ![t] = None]
  /\ snap' = [snap EXCEPT ![t] = Empty]
  /\ pc' = [pc EXCEPT ![t] = "replace"]
  /\ UNCHANGED <<registry, requests, past, gone, alone, tmp, path, gnb, sec>>

\* ... and renames whatever is called the temporary file by then.
Replace(t) ==
  /\ pc[t] = "replace"
  /\ tmp # None
  /\ path' = tmp /\ tmp' = None
  /\ pc' = [pc EXCEPT ![t] = "reply"]
  /\ UNCHANGED <<registry, snap, fd, requests, past, gone, alone, inode, ver, gnb, sec>>

\* another thread renamed it already: FileNotFoundError, the request fails
ReplaceFails(t) ==
  /\ pc[t] = "replace"
  /\ tmp = None
  /\ pc' = [pc EXCEPT ![t] = "idle"]
  /\ UNCHANGED <<registry, snap, fd, requests, past, gone, alone, disk, gnb, sec>>

\* the request is answered
Reply(t) ==
  /\ pc[t] = "reply"
  /\ pc' = [pc EXCEPT ![t] = "idle"]
  /\ UNCHANGED <<registry, snap, fd, requests, past, gone, alone, disk, gnb, sec>>

Work(t) ==
  \/ Snapshot(t) \/ OpenTmp(t) \/ WriteTmp(t)
  \/ Replace(t) \/ ReplaceFails(t) \/ Reply(t)

\* The xApp starts with empty registries; the files stay.
Restart ==
  /\ MayRestart
  /\ registry' = Empty
  /\ pc' = [t \in Thread |-> "idle"]
  /\ snap' = [t \in Thread |-> Empty]
  /\ fd' = [t \in Thread |-> None]
  /\ gone' = Rnti /\ alone' = FALSE
  /\ UNCHANGED <<requests, past, disk, gnb, sec>>

-----------------------------------------------------------------------------
(* Readers in the scheduler of the gNB                                     *)

\* the reload functions compare what stat() returned with what they loaded:
\* the uplink one all of st_mtim, the downlink one the second and the size
StampOf(file) == [size |-> file.size, ver |-> file.ver, sec |-> file.sec]

\* Mutation: the downlink reload looks at the second only.
ChangedInSeconds(d, st) ==
  \/ key[d] = NoStamp
  \/ d = "ul" /\ st.ver # key[d].ver
  \/ d = "dl" /\ st.sec # key[d].sec

Changed(d, st) ==
  \/ key[d] = NoStamp
  \/ d = "ul" /\ st.ver # key[d].ver
  \/ d = "dl" /\ <<st.sec, st.size>> # <<key[d].sec, key[d].size>>

Poll(d) ==
  /\ d \in Reader /\ rpc[d] = "poll"
  /\ path # None
  /\ Changed(d, StampOf(inode[path]))
  /\ stat' = [stat EXCEPT ![d] = StampOf(inode[path])]
  /\ rpc' = [rpc EXCEPT ![d] = "open"]
  /\ UNCHANGED <<rfd, key, table, xapp, disk, sec>>

OpenPath(d) ==
  /\ rpc[d] = "open"
  /\ rfd' = [rfd EXCEPT ![d] = path]
  /\ rpc' = [rpc EXCEPT ![d] = "read"]
  /\ UNCHANGED <<stat, key, table, xapp, disk, sec>>

\* Mutation: a line without the field inherits it from a line before.
ParsedCarriedOver(lines, d) ==
  [r \in Rnti |->
     LET before == {q \in Rnti : q < r /\ lines[q][d] # Unset} IN
       IF r \in Listed(lines) /\ lines[r][d] = Unset /\ before # {}
         THEN lines[CHOOSE q \in before : TRUE][d]
         ELSE lines[r][d]]

\* the field of each line that concerns the direction
Parsed(lines, d) == [r \in Rnti |-> lines[r][d]]

\* clear the table, parse every line, remember the earlier stat()
Read(d) ==
  /\ rpc[d] = "read"
  /\ table' = [table EXCEPT ![d] = Parsed(inode[rfd[d]].lines, d)]
  /\ key' = [key EXCEPT ![d] = stat[d]]
  /\ rfd' = [rfd EXCEPT ![d] = None]
  /\ rpc' = [rpc EXCEPT ![d] = "poll"]
  /\ stat' = [stat EXCEPT ![d] = NoStamp]
  /\ UNCHANGED <<xapp, disk, sec>>

Reload(d) == Poll(d) \/ OpenPath(d) \/ Read(d)

Tick ==
  /\ sec < MaxSec
  /\ sec' = sec + 1
  /\ UNCHANGED <<xapp, disk, gnb>>

Next ==
  \/ \E t \in Thread, r \in Rnti :
       \/ \E d \in Dir, v \in Value : SetPosture(t, r, d, v)
       \/ \E cmd \in ClearCmd : ClearPosture(t, r, cmd)
  \/ \E t \in Thread : Work(t)
  \/ Restart
  \/ \E d \in Dir : Reload(d)
  \/ Tick

Spec == Init /\ [][Next]_vars

\* A request once begun runs to its end, the schedulers reload in every slot.
\* Requests and restarts are not obliged to come.
Fairness ==
  /\ \A t \in Thread : WF_vars(Work(t))
  /\ \A d \in Dir : WF_vars(Reload(d))

FairSpec == Spec /\ Fairness

-----------------------------------------------------------------------------
(* Properties                                                              *)

Published == IF path = None THEN Empty ELSE inode[path].lines

\* Whatever threads, restarts and half-written files interleave, no scheduler
\* ever applies to a UE a value that nobody set for this UE and direction.
NoInventedPosture ==
  \A d \in Dir, r \in Rnti : \E h \in past : table[d][r] = h[r][d]

\* _write_ue_la_state_atomic publishes whole files: no thread holds the file
\* that has the published name open for writing, truncated or half written.
NeverWrittenInPlace == \A t \in Thread : fd[t] # None => fd[t] # path

\* A request served alone publishes the whole registry, whatever came before
\* it: threads that raced for the temporary file, a rename that failed, an older
\* snapshot renamed last, a restart that left a temporary file or an old file.
LoneRequestPublishes == Quiet /\ alone => Published = registry

\* A reload never takes a posture from a UE unless it was cleared: setting the
\* posture of one UE leaves those of the others in place, in every reload.
NoLapse ==
  [][\A d \in Dir, r \in Rnti :
       table[d][r] # Unset /\ r \notin gone => table'[d][r] # Unset]_vars

Applied(d) == \A r \in Rnti : table[d][r] = registry[r][d]

\* What was set last is what the uplink scheduler ends up applying.
UplinkConverges == <>[]Applied("ul")

\* The same for the downlink scheduler, whose reload looks at seconds: unless
\* the file it loaded was replaced, within its second, by one of its size.
SameSecond ==
  /\ path # None /\ key["dl"].ver # inode[path].ver
  /\ <<key["dl"].sec, key["dl"].size>> = <<inode[path].sec, inode[path].size>>
DownlinkConverges == <>[](Applied("dl") \/ SameSecond)

\* However requests, writes and reloads interleave, both schedulers end up
\* applying the registry; they poll the file in the same slots, but tell by
\* different time stamps that it changed.
SchedulersConverge == UplinkConverges /\ DownlinkConverges
=============================================================================
