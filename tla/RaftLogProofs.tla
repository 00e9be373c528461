---------------------------- MODULE RaftLogProofs ----------------------------
(***************************************************************************)
(* Proofs about RaftLog for any finite set of servers and any bounds on    *)
(* terms, indices and crashes.                                             *)
(***************************************************************************)
EXTENDS RaftLog, FiniteSetTheorems, WellFoundedInduction, TLAPS

Vote == [term : 0 .. MaxTerm, node : Server \cup {NoServer}, committed : BOOLEAN]

VoteType ==
  /\ vote \in [Server -> Vote]
  /\ elected \in [1 .. MaxTerm -> SUBSET Server]

(* A term that has a leader has been reached by a quorum of the saved      *)
(* votes.                                                                  *)
TermHeld ==
  \A t \in 1 .. MaxTerm :
    elected[t] # {} => \E Q \in Quorum : \A p \in Q : vote[p].term >= t

OneElected == \A t \in 1 .. MaxTerm : \A m, n \in elected[t] : m = n

(* A vote is committed only for a server that won its term.                *)
CommittedVoteWon ==
  \A p \in Server :
    vote[p].committed => /\ vote[p].term \in 1 .. MaxTerm
                         /\ vote[p].node \in elected[vote[p].term]

VoteInv == VoteType /\ TermHeld /\ OneElected /\ CommittedVoteWon

(* No two servers lead in the same term.                                   *)
OneLeader ==
  \A m, n \in Server : Leader(m) /\ Leader(n) /\ vote[m].term = vote[n].term => m = n

(* Two quorums have a server in common.                                    *)
LEMMA QuorumsMeet ==
  ASSUME NEW Q \in Quorum, NEW R \in Quorum
  PROVE  \E p \in Server : p \in Q /\ p \in R
<1>1. /\ IsFiniteSet(Server) /\ Q \subseteq Server /\ R \subseteq Server
      /\ 2 * Cardinality(Q) > Cardinality(Server)
      /\ 2 * Cardinality(R) > Cardinality(Server)
  BY ServerAssumption DEF Quorum
<1>2. Cardinality(Server) \in Nat /\ Cardinality(Q) \in Nat /\ Cardinality(R) \in Nat
  BY <1>1, FS_Subset, FS_CardinalityType
<1>3. Cardinality(Q) + Cardinality(R) > Cardinality(Server)
  BY <1>1, <1>2
<1>4. Q \cap R # {}
  BY <1>1, <1>3, FS_MajoritiesIntersect
<1> QED BY <1>1, <1>4

(* A quorum's saved terms never go back, so a term that is held stays so.  *)
LEMMA TermsGrow ==
  ASSUME VoteInv, VoteType', elected' = elected,
         \A p \in Server : vote'[p].term >= vote[p].term
  PROVE  TermHeld' /\ OneElected'
<1>1. OneElected'
  BY DEF VoteInv, OneElected
<1>2. TermHeld'
  <2> SUFFICES ASSUME NEW t \in 1 .. MaxTerm, elected[t] # {}
               PROVE  \E Q \in Quorum : \A p \in Q : vote'[p].term >= t
    BY DEF TermHeld
  <2>1. PICK Q \in Quorum : \A p \in Q : vote[p].term >= t
    BY DEF VoteInv, TermHeld
  <2>2. \A p \in Q : vote'[p].term >= t
    <3> TAKE p \in Q
    <3>1. p \in Server
      BY DEF Quorum
    <3>2. vote[p].term \in Int /\ vote'[p].term \in Int /\ t \in Int
      BY <3>1 DEF VoteInv, VoteType, Vote
    <3> QED BY <2>1, <3>1, <3>2
  <2> QED BY <2>2
<1> QED BY <1>1, <1>2

(* An election: the servers that vote for the candidate have not reached   *)
(* its term, so no quorum has, and the term had no leader.                 *)
LEMMA ElectVotes ==
  ASSUME VoteInv, NEW n \in Server, NEW Q \in SUBSET Server, Elect(n, Q)
  PROVE  VoteInv'
<1> DEFINE t    == vote[n].term + 1
           mine == [term |-> t, node |-> n, committed |-> Q \cup {n} \in Quorum]
<1>1. /\ t \in 1 .. MaxTerm /\ n \notin Q
      /\ \A p \in Q : client_vote(p, mine, LastOf(view[n])).vote_granted
      /\ vote' = save_vote(n, mine, Q)
  BY BoundsAssumption DEF Elect, VoteInv, VoteType, Vote
<1>2. \A p \in Q : t > vote[p].term
  BY <1>1 DEF client_vote, convert_proto_vote_response, server_vote, convert_vote_response,
       Grants, convert_vote_request, to_proto_vote_request, convert_vote, to_proto_vote
<1>3. mine \in Vote /\ [mine EXCEPT !.committed = FALSE] \in Vote
  <2>1. t \in 0 .. MaxTerm /\ (Q \cup {n} \in Quorum) \in BOOLEAN
    BY <1>1
  <2> QED BY <2>1, Zenon DEF Vote
<1>4. vote' \in [Server -> Vote]
  BY <1>1, <1>3 DEF save_vote, VoteInv, VoteType
<1>5. \A p \in Server : /\ p \in Q \cup {n} => vote'[p].term = t
                        /\ p \notin Q \cup {n} => vote'[p] = vote[p]
  BY <1>1 DEF save_vote
<1>6. \A p \in Server : vote[p].term \in Int /\ (p \in Q \cup {n} => t > vote[p].term)
  BY <1>2 DEF VoteInv, VoteType, Vote
<1>7. \A p \in Server : vote'[p].term >= vote[p].term
  BY <1>1, <1>5, <1>6
<1>8. CASE ~mine.committed
  <2>1. elected' = elected /\ VoteType'
    BY <1>4, <1>8 DEF Elect, VoteInv, VoteType
  <2>2. TermHeld' /\ OneElected'
    BY <1>7, <2>1, TermsGrow
  <2>3. CommittedVoteWon'
    BY <1>1, <1>8, <2>1 DEF save_vote, VoteInv, CommittedVoteWon
  <2> QED BY <2>1, <2>2, <2>3 DEF VoteInv
<1>9. CASE mine.committed
  <2>1. Q \cup {n} \in Quorum
    BY <1>9
  <2>2. elected' = [elected EXCEPT ![t] = @ \cup {n}]
    BY <1>9 DEF Elect
  <2>3. elected[t] = {}
    <3> SUFFICES ASSUME elected[t] # {} PROVE FALSE
      OBVIOUS
    <3>1. PICK R \in Quorum : \A p \in R : vote[p].term >= t
      BY <1>1 DEF VoteInv, TermHeld
    <3>2. PICK p \in Server : p \in R /\ p \in Q \cup {n}
      BY <2>1, QuorumsMeet
    <3> QED BY <1>1, <1>6, <3>1, <3>2
  <2>4. VoteType'
    BY <1>1, <1>4, <2>2 DEF VoteInv, VoteType
  <2>5. OneElected'
    BY <1>1, <2>2, <2>3 DEF VoteInv, VoteType, OneElected
  <2>6. TermHeld'
    <3> SUFFICES ASSUME NEW s \in 1 .. MaxTerm, elected'[s] # {}
                 PROVE  \E R \in Quorum : \A p \in R : vote'[p].term >= s
      BY DEF TermHeld
    <3>1. CASE s = t
      <4>1. \A p \in Q \cup {n} : vote'[p].term >= s
        BY <1>1, <1>5, <3>1
      <4> QED BY <2>1, <4>1
    <3>2. CASE s # t
      <4>1. elected[s] # {}
        BY <1>1, <2>2, <3>2 DEF VoteInv, VoteType
      <4>2. PICK R \in Quorum : \A p \in R : vote[p].term >= s
        BY <4>1 DEF VoteInv, TermHeld
      <4>3. \A p \in R : vote'[p].term >= s
        <5> TAKE p \in R
        <5>1. p \in Server
          BY DEF Quorum
        <5>2. vote[p].term \in Int /\ vote'[p].term \in Int
          BY <5>1, <2>4, <1>6 DEF VoteType, Vote
        <5> QED BY <4>2, <5>1, <5>2, <1>7
      <4> QED BY <4>3
    <3> QED BY <3>1, <3>2
  <2>7. CommittedVoteWon'
    BY <1>1, <2>2 DEF save_vote, VoteInv, VoteType, CommittedVoteWon
  <2> QED BY <2>4, <2>5, <2>6, <2>7 DEF VoteInv
<1> QED BY <1>8, <1>9

(* append_entries: a server takes the leader's vote, which its own does    *)
(* not beat.                                                               *)
LEMMA AppendVotes ==
  ASSUME VoteInv, NEW l \in Server, NEW p \in Server, NEW prev, NEW hi,
         AppendEntries(l, p, prev, hi)
  PROVE  VoteInv'
<1>1. VoteGE(vote[l], vote[p]) /\ vote' = [vote EXCEPT ![p] = vote[l]] /\ elected' = elected
  <2>1. convert_vote(to_proto_vote(vote[l])) = vote[l]
    BY DEF convert_vote, to_proto_vote, VoteInv, VoteType, Vote
  <2> QED BY <2>1 DEF AppendEntries, server_append_entries, convert_append_entries_request,
            to_proto_append_entries_request, histVars
<1>2. VoteType'
  BY <1>1 DEF VoteInv, VoteType
<1>3. \A q \in Server : vote'[q].term >= vote[q].term
  BY <1>1 DEF VoteGE, VoteInv, VoteType, Vote
<1>4. CommittedVoteWon'
  BY <1>1 DEF VoteInv, VoteType, CommittedVoteWon
<1> QED BY <1>1, <1>2, <1>3, <1>4, TermsGrow DEF VoteInv

(* A leader that is refused takes the vote that refused it.                *)
LEMMA HigherVotes ==
  ASSUME VoteInv, NEW l \in Server, NEW p \in Server, Leader(l), HigherVote(l, p)
  PROVE  VoteInv'
<1>1. convert_vote(to_proto_vote(vote[p])) = vote[p]
  BY DEF convert_vote, to_proto_vote, VoteInv, VoteType, Vote
<1>2. /\ ~VoteGE(vote[l], vote[p]) /\ vote' = [vote EXCEPT ![l] = vote[p]]
      /\ elected' = elected
  BY <1>1 DEF HigherVote, convert_append_entries_response, histVars
<1>3. VoteType'
  BY <1>2 DEF VoteInv, VoteType
<1>4. vote[p].term >= vote[l].term
  BY <1>2 DEF VoteGE, VoteInv, VoteType, Vote
<1>5. \A q \in Server : vote'[q].term >= vote[q].term
  BY <1>2, <1>4 DEF VoteInv, VoteType, Vote
<1>6. CommittedVoteWon'
  BY <1>2 DEF VoteInv, VoteType, CommittedVoteWon
<1> QED BY <1>2, <1>3, <1>5, <1>6, TermsGrow DEF VoteInv

(* The votes of every server, over all crashes and restarts, are such that *)
(* a term has one leader.                                                  *)
THEOREM VotesInductive == Spec => []VoteInv
<1>1. Init => VoteInv
  BY BoundsAssumption DEF Init, VoteInv, VoteType, Vote, NoVote, TermHeld, OneElected,
     CommittedVoteWon
<1>2. VoteInv /\ [Next]_vars => VoteInv'
  <2> SUFFICES ASSUME VoteInv, [Next]_vars PROVE VoteInv'
    OBVIOUS
  <2>1. CASE UNCHANGED <<vote, elected>>
    BY <2>1 DEF VoteInv, VoteType, TermHeld, OneElected, CommittedVoteWon
  <2>2. ASSUME NEW n \in Server, Restart(n) PROVE VoteInv'
    <3>1. UNCHANGED <<vote, elected>>
      BY <2>2 DEF Restart, read_vote, histVars, VoteInv, VoteType
    <3> QED BY <2>1, <3>1
  <2>3. ASSUME NEW n \in Server, ClientWrite(n) \/ Execute(n) \/ Commit(n) \/ Crash(n)
        PROVE  VoteInv'
    BY <2>1, <2>3 DEF ClientWrite, Execute, Commit, Crash, diskVars, histVars
  <2>4. CASE UNCHANGED vars
    BY <2>1, <2>4 DEF vars
  <2> QED BY <2>2, <2>3, <2>4, ElectVotes, AppendVotes, HigherVotes DEF Next
<1> QED BY <1>1, <1>2, PTL DEF Spec

(* A term has one leader at most, over any number of crashes: a server     *)
(* saves its vote before it answers and reads it back.                     *)
THEOREM OneLeaderPerTerm == Spec => []ElectionSafety
<1>1. VoteInv => ElectionSafety
  <2> SUFFICES ASSUME VoteInv, NEW t \in 1 .. MaxTerm
               PROVE  Cardinality(elected[t]) <= 1
    BY DEF ElectionSafety
  <2>1. CASE elected[t] = {}
    BY <2>1, FS_EmptySet
  <2>2. CASE elected[t] # {}
    <3>1. PICK n : n \in elected[t]
      BY <2>2
    <3>2. elected[t] = {n}
      BY <3>1 DEF VoteInv, OneElected
    <3>3. Cardinality({n}) = 1
      BY FS_Singleton
    <3> QED BY <3>2, <3>3
  <2> QED BY <2>1, <2>2
<1> QED BY <1>1, VotesInductive, PTL

(* A server that takes itself for the leader of a term is the only one     *)
(* that does, also after it was restarted with the vote it had saved.      *)
THEOREM LeadersDiffer == Spec => []OneLeader
<1>1. VoteInv => OneLeader
  BY DEF VoteInv, OneElected, CommittedVoteWon, OneLeader, Leader
<1> QED BY <1>1, VotesInductive, PTL
-----------------------------------------------------------------------------
(* The log that a server has on disk, if no entry of it is missing, and in *)
(* memory: what it knows now, and what it will know after a crash.         *)
disk(n)   == [i \in 1 .. last[n].index + 1 |-> log[n][i - 1]]
Whole(n)  == \A i \in 0 .. last[n].index : log[n][i] # Absent
LogsOf(n) == (IF up[n] THEN {view[n]} ELSE {}) \cup (IF Whole(n) THEN {disk(n)} ELSE {})
Logs      == UNION {LogsOf(n) : n \in Server}

Contains(a, id)  == id.index < Len(a) /\ a[id.index + 1] = id.term
PrefixOf(a, b)   == Len(a) \in 0 .. Len(b) /\ \A i \in 1 .. Len(a) : a[i] = b[i]

(* Logs that have an entry in common agree up to it, the entries of a term *)
(* have no gaps, and terms grow.                                           *)
Matching(a, b) ==
  \A i \in 1 .. Len(a) : i <= Len(b) /\ a[i] = b[i] => \A j \in 1 .. i : a[j] = b[j]
Runs(a, b) ==
  \A i \in 1 .. Len(a), k \in 1 .. Len(b) : i <= k /\ a[i] = b[k] => b[i] = a[i]
Sorted(a) == \A i, j \in 1 .. Len(a) : i <= j => a[i] <= a[j]

LogsMatch ==
  /\ \A a, b \in Logs : Matching(a, b) /\ Runs(a, b)
  /\ \A a \in Logs : Sorted(a)

(* Every entry has a term that some leader won (the configuration that the *)
(* cluster starts with has term 0), a server has voted in the terms of its *)
(* entries or later, and a leader has all entries of its term.             *)
Led(n) == vote[n].node = n /\ vote[n].committed
Written == \A a \in Logs : \A i \in 1 .. Len(a) : a[i] >= 1 => elected[a[i]] # {}
(* A candidate has saved the vote that others gave it.                     *)
OwnVote ==
  \A p, n \in Server : vote[p].node = n => vote[n].term >= vote[p].term
BelowVote ==
  \A n \in Server : \A a \in LogsOf(n) : \A i \in 1 .. Len(a) : a[i] <= vote[n].term
LeaderHasOwn ==
  \A n, m \in Server : n # m /\ Led(n) =>
    \A b \in LogsOf(n), a \in LogsOf(m) :
      \A i \in 1 .. Len(a) : a[i] = vote[n].term => i <= Len(b) /\ b[i] = a[i]
-----------------------------------------------------------------------------
(* The writes q that are left of an append to a log v, and of a truncation *)
(* before it, when the entries on disk are L and last_log_id has index e.  *)
OnDisk(L, v, s) == \A i \in 0 .. s - 1 : L[i] = v[i + 1]

PutsLeft(v, q, c, s) ==      \* after the first c writes
  /\ Len(q) = c + Len(v) - s + 1
  /\ \A k \in 1 .. Len(v) - s : q[c + k].op = "put" /\ q[c + k].id = IdAt(v, s + k - 1)
  /\ q[Len(q)].op = "last" /\ q[Len(q)].id = LastOf(v)

Appending(L, e, v, q) ==
  \E s \in 0 .. Len(v) : OnDisk(L, v, s) /\ e < s /\ PutsLeft(v, q, 0, s)

DeletesLeft(e, q, d) ==
  \A k \in 1 .. e - d + 1 : q[k].op = "delete" /\ q[k].id.index = d + k - 1

(* What is deleted is not in the new log.                                  *)
Dropped(L, e, v, f, d) ==
  /\ \A i \in f .. d - 1 : L[i] = Absent
  /\ \A i \in d .. e : i < Len(v) => L[i] # v[i + 1]

ThenPuts(v, q, f, c) ==
  /\ q[c].op = "last" /\ q[c].id.index = f - 1
  /\ \/ f = Len(v) /\ Len(q) = c
     \/ f < Len(v) /\ PutsLeft(v, q, c, f)

CuttingAt(L, e, v, q, f, d) ==
  /\ f <= d /\ d <= e + 1 /\ f <= e
  /\ OnDisk(L, v, f) /\ Dropped(L, e, v, f, d)
  /\ Len(q) >= e - d + 2
  /\ DeletesLeft(e, q, d) /\ ThenPuts(v, q, f, e - d + 2)

Cutting(L, e, v, q) ==
  \E f \in 0 .. Len(v), d \in 0 .. MaxIndex + 1 : CuttingAt(L, e, v, q, f, d)

AckOK(n) ==
  \A k \in 1 .. Len(io[n]) : io[n][k].ack # {} =>
    /\ k = Len(io[n]) /\ io[n][k].op = "last"
    /\ \E l \in Server : /\ io[n][k].ack = {[to |-> l, index |-> Len(view[n]) - 1]}
                         /\ Leader(l) /\ vote[n] = vote[l] /\ PrefixOf(view[n], view[l])

(* One server has writes left at most; a leader only appends.  The others  *)
(* have on disk what they know.                                            *)
Writing(n) ==
  /\ up[n] /\ AckOK(n)
  /\ \/ Appending(log[n], last[n].index, view[n], io[n])
     \/ ~Led(n) /\ Cutting(log[n], last[n].index, view[n], io[n])
Saved(n) == last[n].index = Len(view[n]) - 1 /\ OnDisk(log[n], view[n], Len(view[n]))

DiskOK(n) ==
  /\ io[n] # <<>> => Writing(n)
  /\ up[n] /\ io[n] = <<>> => Saved(n)
  /\ ~up[n] => Truthful(n) /\ matched[n] = NoMatch

OneWriter == \A m, n \in Server : io[m] # <<>> /\ io[n] # <<>> => m = n

IoInv == OneWriter /\ \A n \in Server : DiskOK(n)
-----------------------------------------------------------------------------
(* A server has an entry for good: on disk, and in memory.                 *)
Has(p, id) == Stored(p, id) /\ (up[p] => Contains(view[p], id))

(* The leader of a term can still find a quorum for its entry at i: those  *)
(* that have acknowledged it, and those that have not voted later.         *)
MayCommit(l, i) ==
  {p \in Server : matched[l][p] >= i \/ vote[p].term <= vote[l].term} \in Quorum

(* An entry that every later log and every later leader has.               *)
Later(a, t) == \E i \in 1 .. Len(a) : a[i] > t
Fixed(id) ==
  /\ \A a \in Logs : Later(a, id.term) => Contains(a, id)
  /\ \A n \in Server : Led(n) /\ vote[n].term > id.term =>
       \A a \in LogsOf(n) : Contains(a, id)

(* What has been acknowledged to a leader stays, and an entry of its term  *)
(* is fixed, while the leader may still commit it.                         *)
HasTo(p, l, i) == \A j \in 0 .. i : Has(p, IdAt(view[l], j))
AckHeld(l, p) ==
  matched[l][p] >= 0 =>
    /\ matched[l][p] < Len(view[l]) /\ vote[p].term >= vote[l].term
    /\ \A i \in 0 .. matched[l][p] :
         view[l][i + 1] = vote[l].term /\ MayCommit(l, i) => HasTo(p, l, i)
Settled(l, i) ==
  view[l][i + 1] = vote[l].term /\ MayCommit(l, i) => Fixed(IdAt(view[l], i))

LeadOK(l) ==
  /\ \A p \in Server : AckHeld(l, p)
  /\ \A i \in 0 .. Len(view[l]) - 1 : Settled(l, i)
MatchInv == \A l \in Server : Leader(l) => LeadOK(l)

(* A committed entry comes with an entry of the term that committed it.    *)
HeldBy(c, d, Q) ==
  /\ \A p \in Q : vote[p].term >= c.at /\ Has(p, c.id) /\ Has(p, d)
  /\ \A a \in Logs : Contains(a, d) => Contains(a, c.id)
  /\ Fixed(d)
  /\ \A n \in Server : Led(n) /\ vote[n].term = c.at => \A a \in LogsOf(n) : Contains(a, d)

Point(c) == {d \in LogId : d.term = c.at /\ d.index >= c.id.index}
CommitInv == \A c \in committed : \E d \in Point(c), Q \in Quorum : HeldBy(c, d, Q)

Command == [op : {"put", "delete", "last"}, id : LogId \cup {NoId},
            ack : SUBSET [to : Server, index : Index]]
LogTyped ==
  /\ log \in [Server -> [Index -> {Absent} \cup 0 .. MaxTerm]]
  /\ last \in [Server -> LogId \cup {NoId}]
  /\ up \in [Server -> BOOLEAN]
  /\ view \in [Server -> Seq(0 .. MaxTerm)]
  /\ \A n \in Server : Len(view[n]) <= MaxIndex + 1
  /\ io \in [Server -> Seq(Command)]
  /\ matched \in [Server -> [Server -> {Absent} \cup Index]]
  /\ committed \subseteq [id : LogId, at : 0 .. MaxTerm]

LogShape == LogsMatch /\ Written /\ OwnVote /\ BelowVote /\ LeaderHasOwn
LogInv   == LogTyped /\ LogShape /\ IoInv /\ MatchInv /\ CommitInv
-----------------------------------------------------------------------------
(* Prefixes inherit what is said about logs.                               *)
LEMMA PrefixMatches ==
  ASSUME NEW a \in Seq(Nat), NEW b \in Seq(Nat), NEW x, NEW y,
         PrefixOf(x, a), PrefixOf(y, b), Matching(a, b), Runs(a, b), Sorted(a)
  PROVE  Matching(x, y) /\ Runs(x, y) /\ Sorted(x)
<1>1. /\ Len(x) \in Nat /\ Len(y) \in Nat /\ Len(a) \in Nat /\ Len(b) \in Nat
      /\ Len(x) <= Len(a) /\ Len(y) <= Len(b)
      /\ \A i \in 1 .. Len(x) : x[i] = a[i]
      /\ \A i \in 1 .. Len(y) : y[i] = b[i]
  BY DEF PrefixOf
<1>2. Matching(x, y)
  <2> SUFFICES ASSUME NEW i \in 1 .. Len(x), i <= Len(y), x[i] = y[i], NEW j \in 1 .. i
               PROVE  x[j] = y[j]
    BY DEF Matching
  <2>1. /\ i \in 1 .. Len(a) /\ i <= Len(b) /\ i \in 1 .. Len(y)
        /\ j \in 1 .. Len(x) /\ j \in 1 .. Len(y)
    BY <1>1
  <2>2. a[i] = b[i]
    BY <1>1, <2>1
  <2>3. a[j] = b[j]
    BY <2>1, <2>2 DEF Matching
  <2> QED BY <1>1, <2>1, <2>3
<1>3. Runs(x, y)
  <2> SUFFICES ASSUME NEW i \in 1 .. Len(x), NEW k \in 1 .. Len(y), i <= k, x[i] = y[k]
               PROVE  y[i] = x[i]
    BY DEF Runs
  <2>1. i \in 1 .. Len(a) /\ k \in 1 .. Len(b) /\ i \in 1 .. Len(y)
    BY <1>1
  <2>2. a[i] = b[k]
    BY <1>1, <2>1
  <2>3. b[i] = a[i]
    BY <2>1, <2>2 DEF Runs
  <2> QED BY <1>1, <2>1, <2>3
<1>4. Sorted(x)
  <2> SUFFICES ASSUME NEW i \in 1 .. Len(x), NEW j \in 1 .. Len(x), i <= j
               PROVE  x[i] <= x[j]
    BY DEF Sorted
  <2>1. i \in 1 .. Len(a) /\ j \in 1 .. Len(a)
    BY <1>1
  <2>2. a[i] <= a[j]
    BY <2>1 DEF Sorted
  <2> QED BY <1>1, <2>1, <2>2
<1> QED BY <1>2, <1>3, <1>4

(* A log that has an entry of a later term has what sorted logs have       *)
(* before it, and so has each of its prefixes that reaches that far.       *)
LEMMA PrefixLater ==
  ASSUME NEW a \in Seq(Nat), NEW x, PrefixOf(x, a), Sorted(a),
         NEW id, id.index \in Nat, id.term \in Nat, Contains(a, id), Later(x, id.term)
  PROVE  Contains(x, id)
<1>1. Len(x) \in Nat /\ Len(a) \in Nat /\ Len(x) <= Len(a) /\ \A i \in 1 .. Len(x) : x[i] = a[i]
  BY DEF PrefixOf
<1>2. PICK k \in 1 .. Len(x) : x[k] > id.term
  BY DEF Later
<1>3. id.index + 1 \in 1 .. Len(a) /\ a[id.index + 1] = id.term /\ a[k] > id.term
  BY <1>1, <1>2 DEF Contains
<1>4. a[k] \in Nat /\ k \in 1 .. Len(a)
  BY <1>1, <1>2
<1>5. ~(k <= id.index + 1)
  BY <1>3, <1>4 DEF Sorted
<1>6. id.index + 1 \in 1 .. Len(x)
  BY <1>1, <1>2, <1>3, <1>5
<1> QED BY <1>1, <1>3, <1>6 DEF Contains

(* Logs that share an entry share those before it.                         *)
LEMMA ContainsBefore ==
  ASSUME NEW a \in Seq(Nat), NEW b \in Seq(Nat), Matching(a, b),
         NEW i \in Nat, NEW j \in 0 .. i, i < Len(b), Contains(a, IdAt(b, i))
  PROVE  Contains(a, IdAt(b, j))
<1>1. Len(a) \in Nat /\ Len(b) \in Nat
  OBVIOUS
<1>2. i + 1 \in 1 .. Len(a) /\ i + 1 <= Len(b) /\ a[i + 1] = b[i + 1]
  BY <1>1 DEF Contains, IdAt
<1>3. j + 1 \in 1 .. i + 1
  OBVIOUS
<1>4. a[j + 1] = b[j + 1]
  BY <1>2, <1>3 DEF Matching
<1>5. j < Len(a)
  BY <1>1, <1>2
<1> QED BY <1>4, <1>5 DEF Contains, IdAt

(* Supersets of quorums are quorums.                                       *)
LEMMA QuorumGrows ==
  ASSUME NEW Q \in Quorum, NEW R \in SUBSET Server, Q \subseteq R
  PROVE  R \in Quorum
<1>1. /\ IsFiniteSet(Server) /\ Q \subseteq Server
      /\ 2 * Cardinality(Q) > Cardinality(Server)
  BY ServerAssumption DEF Quorum
<1>2. /\ IsFiniteSet(R) /\ Cardinality(Q) <= Cardinality(R)
      /\ Cardinality(Q) \in Nat /\ Cardinality(R) \in Nat /\ Cardinality(Server) \in Nat
  BY <1>1, FS_Subset, FS_CardinalityType
<1> QED BY <1>1, <1>2 DEF Quorum

(* Functions on 1 .. m are sequences.                                      *)
LEMMA SeqIs ==
  ASSUME NEW S, NEW m \in Nat, NEW a \in [1 .. m -> S]
  PROVE  a \in Seq(S) /\ Len(a) = m /\ DOMAIN a = 1 .. m
OBVIOUS

(* What a server has on disk and in memory are sequences of terms.         *)
LEMMA LogsTyped ==
  ASSUME LogTyped, NEW n \in Server, NEW a \in LogsOf(n)
  PROVE  a \in Seq(0 .. MaxTerm) /\ a \in Seq(Nat) /\ Len(a) \in 0 .. MaxIndex + 1
<1>0. MaxTerm \in Nat /\ MaxIndex \in Nat
  BY BoundsAssumption
<1>1. CASE a = view[n]
  BY <1>0, <1>1 DEF LogTyped
<1>2. CASE Whole(n) /\ a = disk(n)
  <2> DEFINE e == last[n].index
  <2>1. e \in -1 .. MaxIndex
    BY <1>0 DEF LogTyped, LogId, NoId, Index
  <2>2. \A i \in 1 .. e + 1 : i - 1 \in Index /\ i - 1 \in 0 .. e
    BY <1>0, <2>1 DEF Index
  <2>3. \A i \in 1 .. e + 1 : log[n][i - 1] \in 0 .. MaxTerm
    BY <1>2, <2>2 DEF LogTyped, Whole
  <2>4. a = [i \in 1 .. e + 1 |-> log[n][i - 1]]
    BY <1>2 DEF disk
  <2>5. e + 1 \in Nat
    BY <2>1
  <2> HIDE DEF e
  <2>6. a \in [1 .. e + 1 -> 0 .. MaxTerm]
    BY <2>3, <2>4
  <2>7. a \in Seq(0 .. MaxTerm) /\ a \in Seq(Nat) /\ Len(a) = e + 1
    BY <1>0, <2>5, <2>6, SeqIs
  <2> QED BY <1>0, <2>1, <2>7
<1> QED BY <1>1, <1>2 DEF LogsOf
-----------------------------------------------------------------------------
(* What an append_entries call does, one of three things: the follower has *)
(* everything already; it appends from the first entry that it misses; or  *)
(* it lacks the entry before them, and drops what it has in its place.     *)
CutAt(p, i) ==
  IF i < Len(view[p]) THEN delete_conflict_logs_since(p, IdAt(view[p], i)) ELSE <<>>

Agreed(l, p, prev) ==
  prev >= 0 => prev < Len(view[p]) /\ view[p][prev + 1] = view[l][prev + 1]

HasRange(l, p, lo, hi) ==
  \A i \in lo .. hi : i < Len(view[p]) /\ view[p][i + 1] = log[l][i]

NothingNew(l, p, prev, hi) ==
  /\ Agreed(l, p, prev) /\ HasRange(l, p, prev + 1, hi)
  /\ matched' = Match({[to |-> l, index |-> hi]}, p)
  /\ UNCHANGED <<view, io>>

AppendsFrom(l, p, prev, hi, f) ==
  /\ Agreed(l, p, prev) /\ HasRange(l, p, prev + 1, f - 1)
  /\ ~(f < Len(view[p]) /\ view[p][f + 1] = log[l][f])
  /\ io' = [io EXCEPT ![p] = CutAt(p, f)
                             \o ThenAnswer(append_to_log(get_entries(l, f, hi)), l, hi)]
  /\ view' = [view EXCEPT ![p] = SubSeq(@, 1, f) \o [k \in 1 .. hi - f + 1 |-> log[l][f + k - 1]]]
  /\ matched' = [matched EXCEPT ![p] = NoMatch]

Conflicts(l, p, prev) ==
  /\ prev >= 0 /\ ~Agreed(l, p, prev)
  /\ io' = [io EXCEPT ![p] = CutAt(p, prev)]
  /\ view' = [view EXCEPT ![p] = IF prev < Len(@) THEN SubSeq(@, 1, prev) ELSE @]
  /\ matched' = [matched EXCEPT ![p] = NoMatch]

(* A set of numbers has a least one.                                       *)
LEMMA Least ==
  ASSUME NEW S \in SUBSET Nat, S # {}
  PROVE  \E i \in S : \A j \in S : i <= j
<1> DEFINE R == OpToRel(<, Nat)
<1>1. \A x, y \in Nat : <<x, y>> \in R <=> x < y
  BY DEF OpToRel
<1>2. IsWellFoundedOn(R, Nat)
  BY NatLessThanWellFounded
<1> HIDE DEF R
<1>3. PICK i \in S : \A j \in S : ~(<<j, i>> \in R)
  BY <1>2, WFMin
<1>4. ASSUME NEW j \in S PROVE i <= j
  <2>1. i \in Nat /\ j \in Nat /\ ~(<<j, i>> \in R)
    BY <1>3
  <2>2. ~(j < i)
    BY <1>1, <2>1
  <2> QED BY <2>1, <2>2
<1> QED BY <1>4

(* The three outcomes are those of AppendEntries.                          *)
LEMMA AppendIs ==
  ASSUME LogTyped, VoteType, NEW l \in Server, NEW p \in Server,
         NEW prev \in -1 .. MaxIndex, NEW hi \in Index, prev < hi,
         AppendEntries(l, p, prev, hi)
  PROVE  /\ hi < Len(view[l])
         /\ \A i \in prev + 1 .. hi : log[l][i] \in 0 .. MaxTerm
         /\ VoteGE(vote[l], vote[p]) /\ vote' = [vote EXCEPT ![p] = vote[l]]
         /\ UNCHANGED <<log, last, up, committed, elected, torn, crashes>>
         /\ \/ NothingNew(l, p, prev, hi)
            \/ \E f \in prev + 1 .. hi : AppendsFrom(l, p, prev, hi, f)
            \/ Conflicts(l, p, prev)
<1> DEFINE id    == IF prev < 0 THEN NoId ELSE IdAt(view[l], prev)
           es    == get_entries(l, prev + 1, hi)
           req   == convert_append_entries_request(
                      to_proto_append_entries_request(vote[l], id, es))
           has(x) == x.index < Len(view[p]) /\ IdAt(view[p], x.index) = x
           new   == {x \in {req.entries[k] : k \in DOMAIN req.entries} : ~has(x)}
           from  == IF new = {} THEN hi + 1
                    ELSE CHOOSE i \in Index : /\ \E x \in new : x.index = i
                                              /\ \A x \in new : x.index >= i
           rest  == SubSeq(req.entries, from - prev, Len(req.entries))
<1>0. MaxTerm \in Nat /\ MaxIndex \in Nat /\ prev \in Int /\ hi \in Int /\ hi - prev \in Nat
  BY BoundsAssumption DEF Index
<1>1. convert_vote(to_proto_vote(vote[l])) = vote[l]
  BY DEF convert_vote, to_proto_vote, VoteType, Vote
<1>2. id.term = id.term /\ convert_log_id(to_proto_log_id(id)) = id
  BY DEF convert_log_id, to_proto_log_id, IdAt, NoId
<1>3. /\ DOMAIN es = 1 .. hi - prev
      /\ \A k \in 1 .. hi - prev : es[k] = [term |-> log[l][prev + k], index |-> prev + k]
  <2>1. hi - (prev + 1) + 1 = hi - prev /\ \A k \in 1 .. hi - prev : prev + 1 + k - 1 = prev + k
    BY <1>0
  <2> QED BY <2>1 DEF get_entries
<1>4. req.entries = es /\ req.vote = vote[l] /\ req.prev_log_id = id
  <2>1. req.entries = [k \in DOMAIN es |-> convert_log_id(to_proto_log_id(es[k]))]
    BY DEF convert_append_entries_request, to_proto_append_entries_request
  <2>2. ASSUME NEW k \in DOMAIN es PROVE convert_log_id(to_proto_log_id(es[k])) = es[k]
    <3>1. es[k] = [term |-> log[l][prev + k], index |-> prev + k]
      BY <1>3
    <3> HIDE DEF es
    <3> QED BY <3>1 DEF convert_log_id, to_proto_log_id
  <2>3. es = [k \in DOMAIN es |-> es[k]]
    BY DEF get_entries
  <2>4. req.entries = es
    BY <2>1, <2>2, <2>3
  <2>5. req.vote = vote[l] /\ req.prev_log_id = id
    BY <1>1, <1>2 DEF convert_append_entries_request, to_proto_append_entries_request
  <2> QED BY <2>4, <2>5
<1>5. /\ hi < Len(view[l])
      /\ \A k \in DOMAIN req.entries : req.entries[k].term # Absent
      /\ VoteGE(req.vote, vote[p])
      /\ vote' = [vote EXCEPT ![p] = req.vote]
      /\ IF req.prev_log_id = NoId \/ has(req.prev_log_id)
         THEN IF new = {}
              THEN /\ matched' = Match({[to |-> l, index |-> hi]}, p)
                   /\ UNCHANGED <<view, io>>
              ELSE /\ io' = [io EXCEPT ![p] = CutAt(p, from)
                                              \o ThenAnswer(append_to_log(rest), l, hi)]
                   /\ view' = [view EXCEPT ![p] = SubSeq(@, 1, from)
                                                   \o [k \in DOMAIN rest |-> rest[k].term]]
                   /\ matched' = [matched EXCEPT ![p] = NoMatch]
         ELSE /\ io' = [io EXCEPT ![p] = CutAt(p, prev)]
              /\ view' = [view EXCEPT ![p] = IF prev < Len(@) THEN SubSeq(@, 1, prev) ELSE @]
              /\ matched' = [matched EXCEPT ![p] = NoMatch]
      /\ UNCHANGED <<log, last, up, committed, elected, torn, crashes>>
  BY Zenon DEF AppendEntries, server_append_entries, CutAt, histVars
<1> HIDE DEF req, es, id
<1>6. /\ hi < Len(view[l])
      /\ VoteGE(vote[l], vote[p]) /\ vote' = [vote EXCEPT ![p] = vote[l]]
      /\ UNCHANGED <<log, last, up, committed, elected, torn, crashes>>
  BY <1>4, <1>5
<1>7. \A i \in prev + 1 .. hi : log[l][i] \in 0 .. MaxTerm
  <2> SUFFICES ASSUME NEW i \in prev + 1 .. hi PROVE log[l][i] \in 0 .. MaxTerm
    OBVIOUS
  <2>1. i - prev \in 1 .. hi - prev /\ prev + (i - prev) = i /\ i \in Index
    BY <1>0 DEF Index
  <2>2. es[i - prev].term # Absent
    BY <1>3, <1>4, <1>5, <2>1
  <2>3. log[l][i] # Absent
    BY <1>3, <2>1, <2>2
  <2> QED BY <2>1, <2>3 DEF LogTyped
<1>8. (req.prev_log_id = NoId \/ has(req.prev_log_id)) <=> Agreed(l, p, prev)
  <2>1. CASE prev < 0
    BY <1>0, <1>4, <2>1 DEF id, Agreed
  <2>2. CASE prev >= 0
    <3>1. id = [term |-> view[l][prev + 1], index |-> prev] /\ id.index = prev
      BY <1>0, <2>2 DEF id, IdAt
    <3>2. id # NoId
      BY <3>1, <2>2 DEF NoId
    <3>3. IdAt(view[p], id.index) = id <=> view[p][prev + 1] = view[l][prev + 1]
      BY <3>1 DEF IdAt
    <3> QED BY <1>4, <2>2, <3>1, <3>2, <3>3 DEF Agreed
  <2> QED BY <1>0, <2>1, <2>2
<1>9. \A k \in 1 .. hi - prev : has(es[k]) <=> /\ prev + k < Len(view[p])
                                             /\ view[p][prev + k + 1] = log[l][prev + k]
  <2> TAKE k \in 1 .. hi - prev
  <2>1. es[k] = [term |-> log[l][prev + k], index |-> prev + k] /\ es[k].index = prev + k
    BY <1>3
  <2>2. IdAt(view[p], es[k].index) = es[k] <=> view[p][prev + k + 1] = log[l][prev + k]
    BY <2>1 DEF IdAt
  <2> QED BY <2>1, <2>2
<1>10. /\ \A x \in new : \E k \in 1 .. hi - prev : x = es[k] /\ ~has(es[k]) /\ x.index = prev + k
       /\ \A k \in 1 .. hi - prev : has(es[k]) \/ es[k] \in new
  BY <1>3, <1>4
<1>11. CASE ~Agreed(l, p, prev)
  <2>1. prev >= 0
    BY <1>11 DEF Agreed
  <2>2. Conflicts(l, p, prev)
    BY <1>5, <1>8, <1>11, <2>1, Zenon DEF Conflicts
  <2> QED BY <1>6, <1>7, <2>2
<1>12. CASE Agreed(l, p, prev) /\ new = {}
  <2>1. matched' = Match({[to |-> l, index |-> hi]}, p) /\ UNCHANGED <<view, io>>
    BY <1>5, <1>8, <1>12
  <2>2. HasRange(l, p, prev + 1, hi)
    <3> SUFFICES ASSUME NEW i \in prev + 1 .. hi
                 PROVE  i < Len(view[p]) /\ view[p][i + 1] = log[l][i]
      BY DEF HasRange
    <3>1. i - prev \in 1 .. hi - prev /\ prev + (i - prev) = i /\ prev + (i - prev) + 1 = i + 1
      BY <1>0
    <3>2. has(es[i - prev])
      BY <1>10, <1>12, <3>1
    <3> QED BY <1>9, <3>1, <3>2
  <2> QED BY <1>6, <1>7, <1>12, <2>1, <2>2 DEF NothingNew
<1>13. CASE Agreed(l, p, prev) /\ new # {}
  <2> DEFINE least(i) == /\ \E x \in new : x.index = i
                         /\ \A x \in new : x.index >= i
             S == {x.index : x \in new}
  <2>1. S \subseteq Index /\ S # {} /\ S \subseteq prev + 1 .. hi
    <3>1. ASSUME NEW x \in new PROVE x.index \in Index /\ x.index \in prev + 1 .. hi
      <4>1. PICK k \in 1 .. hi - prev : x.index = prev + k
        BY <1>10
      <4> QED BY <1>0, <4>1 DEF Index
    <3> HIDE DEF new
    <3> QED BY <1>13, <3>1
  <2>2. PICK i \in S : \A j \in S : i <= j
    <3>1. S \in SUBSET Nat
      BY <2>1 DEF Index
    <3> HIDE DEF S
    <3> QED BY <2>1, <3>1, Least
  <2>3. i \in Index /\ least(i)
    <3> HIDE DEF new
    <3> QED BY <2>1, <2>2 DEF Index
  <2>4. from = CHOOSE j \in Index : least(j)
    BY <1>13
  <2>5. from \in Index /\ least(from)
    <3> HIDE DEF least, from
    <3> QED BY <2>3, <2>4
  <2> DEFINE f == from
  <2>6. f \in S /\ f \in prev + 1 .. hi
    <3> HIDE DEF new, from
    <3> QED BY <2>1, <2>5
  <2> HIDE DEF from
  <2>7. HasRange(l, p, prev + 1, f - 1)
    <3> SUFFICES ASSUME NEW j \in prev + 1 .. f - 1
                 PROVE  j < Len(view[p]) /\ view[p][j + 1] = log[l][j]
      BY DEF HasRange
    <3>1. /\ j - prev \in 1 .. hi - prev /\ prev + (j - prev) = j /\ prev + (j - prev) + 1 = j + 1
          /\ ~(j >= f)
      BY <1>0, <2>6
    <3>2. has(es[j - prev])
      <4> SUFFICES ASSUME es[j - prev] \in new PROVE FALSE
        BY <1>10, <3>1
      <4>1. es[j - prev].index = j
        BY <1>3, <3>1
      <4> HIDE DEF new
      <4> QED BY <2>5, <3>1, <4>1
    <3> QED BY <1>9, <3>1, <3>2
  <2>8. ~(f < Len(view[p]) /\ view[p][f + 1] = log[l][f])
    <3>1. PICK x \in new : x.index = f
      BY <2>5
    <3>2. PICK k \in 1 .. hi - prev : x = es[k] /\ ~has(es[k]) /\ x.index = prev + k
      BY <1>10
    <3>3. prev + k = f /\ prev + k + 1 = f + 1
      BY <3>1, <3>2
    <3> QED BY <1>9, <3>2, <3>3
  <2>9. rest = get_entries(l, f, hi) /\ DOMAIN rest = 1 .. hi - f + 1
        /\ \A k \in 1 .. hi - f + 1 : rest[k].term = log[l][f + k - 1]
    <3>1. Len(es) = hi - prev /\ f - prev \in 1 .. hi - prev /\ hi - prev \in Nat
      BY <1>0, <1>3, <2>6 DEF es, get_entries
    <3>2. rest = [k \in 1 .. (hi - prev) - (f - prev) + 1 |-> es[(f - prev) + k - 1]]
      BY <1>4, <3>1
    <3>3. (hi - prev) - (f - prev) + 1 = hi - f + 1
      BY <1>0, <2>6
    <3>4. ASSUME NEW k \in 1 .. hi - f + 1
          PROVE  es[(f - prev) + k - 1] = [term |-> log[l][f + k - 1], index |-> f + k - 1]
      <4>1. (f - prev) + k - 1 \in 1 .. hi - prev /\ prev + ((f - prev) + k - 1) = f + k - 1
        BY <1>0, <2>6
      <4> QED BY <1>3, <4>1
    <3> HIDE DEF rest
    <3>5. rest = [k \in 1 .. hi - f + 1 |-> [term |-> log[l][f + k - 1], index |-> f + k - 1]]
      BY <3>2, <3>3, <3>4
    <3> QED BY <3>5 DEF get_entries
  <2> HIDE DEF rest
  <2>10. /\ io' = [io EXCEPT ![p] = CutAt(p, f) \o ThenAnswer(append_to_log(rest), l, hi)]
         /\ view' = [view EXCEPT ![p] = SubSeq(@, 1, f) \o [k \in DOMAIN rest |-> rest[k].term]]
         /\ matched' = [matched EXCEPT ![p] = NoMatch]
    BY <1>5, <1>8, <1>13, Zenon
  <2>11. [k \in DOMAIN rest |-> rest[k].term] = [k \in 1 .. hi - f + 1 |-> log[l][f + k - 1]]
    BY <2>9
  <2>12. AppendsFrom(l, p, prev, hi, f)
    BY <1>13, <2>7, <2>8, <2>9, <2>10, <2>11 DEF AppendsFrom
  <2> QED BY <1>6, <1>7, <2>6, <2>12
<1> QED BY <1>11, <1>12, <1>13
-----------------------------------------------------------------------------
(* The elements of a sequence.                                             *)
LEMMA ElementOf ==
  ASSUME NEW S, NEW a \in Seq(S), NEW i \in 1 .. Len(a)
  PROVE  a[i] \in S
OBVIOUS

(* Prefixes and concatenations, element by element.                        *)
LEMMA PrefixIs ==
  ASSUME NEW S, NEW a \in Seq(S), NEW m \in 0 .. Len(a)
  PROVE  /\ SubSeq(a, 1, m) \in Seq(S) /\ Len(SubSeq(a, 1, m)) = m
         /\ \A k \in 1 .. m : SubSeq(a, 1, m)[k] = a[k]
OBVIOUS

(* A concatenation, element by element.                                    *)
LEMMA ConcatIs ==
  ASSUME NEW S, NEW a \in Seq(S), NEW b \in Seq(S)
  PROVE  /\ a \o b \in Seq(S) /\ Len(a \o b) = Len(a) + Len(b)
         /\ \A k \in 1 .. Len(a) : (a \o b)[k] = a[k]
         /\ \A k \in 1 .. Len(b) : (a \o b)[Len(a) + k] = b[k]
OBVIOUS

(* An acknowledged write of last_log_id.                                   *)
LEMMA Acked ==
  ASSUME NEW x, NEW y
  PROVE  [write_log_id(x) EXCEPT !.ack = y] = [op |-> "last", id |-> x, ack |-> y]
BY DEF write_log_id

(* The writes of append, with the answer after the last one.               *)
LEMMA AppendWrites ==
  ASSUME NEW ids \in Seq(LogId), ids # <<>>, NEW l \in Server, NEW i \in Index
  PROVE  LET q == ThenAnswer(append_to_log(ids), l, i)
         IN /\ q \in Seq(Command) /\ Len(q) = Len(ids) + 1
            /\ \A k \in 1 .. Len(ids) : q[k] = put_cf(ids[k])
            /\ q[Len(ids) + 1] = [op |-> "last", id |-> ids[Len(ids)],
                                  ack |-> {[to |-> l, index |-> i]}]
<1> DEFINE m == Len(ids)
           puts == [k \in DOMAIN ids |-> put_cf(ids[k])]
           end  == <<write_log_id(ids[m])>>
           w    == puts \o end
           ackd == [op |-> "last", id |-> ids[m], ack |-> {[to |-> l, index |-> i]}]
           q    == ThenAnswer(append_to_log(ids), l, i)
<1>1. m \in Nat /\ m >= 1 /\ DOMAIN ids = 1 .. m /\ \A k \in 1 .. m : ids[k] \in LogId
  OBVIOUS
<1>2. \A k \in 1 .. m : put_cf(ids[k]) \in Command
  BY <1>1 DEF put_cf, Command
<1>3. write_log_id(ids[m]) \in Command /\ ackd \in Command
  BY <1>1 DEF write_log_id, Command
<1>4. puts \in [1 .. m -> Command]
  BY <1>1, <1>2
<1>5. puts \in Seq(Command) /\ Len(puts) = m
  BY <1>1, <1>4, SeqIs
<1>6. end \in Seq(Command) /\ Len(end) = 1 /\ end[1] = write_log_id(ids[m])
  BY <1>3
<1>7. \A k \in 1 .. m : puts[k] = put_cf(ids[k])
  BY <1>1
<1> HIDE DEF puts, end, ackd
<1>8. /\ w \in Seq(Command) /\ Len(w) = m + 1
      /\ \A k \in 1 .. m : w[k] = put_cf(ids[k])
      /\ w[m + 1] = write_log_id(ids[m])
  <2>1. /\ w \in Seq(Command) /\ Len(w) = Len(puts) + Len(end)
        /\ \A k \in 1 .. Len(puts) : w[k] = puts[k]
        /\ \A k \in 1 .. Len(end) : w[Len(puts) + k] = end[k]
    <3> HIDE DEF m, q
    <3>1. puts \in Seq(Command) /\ end \in Seq(Command)
      BY <1>5, <1>6
    <3> QED BY <3>1, ConcatIs
  <2> HIDE DEF w
  <2> QED BY <1>1, <1>5, <1>6, <1>7, <2>1
<1>9. append_to_log(ids) = w
  BY DEF append_to_log, puts, end
<1>10. q = [w EXCEPT ![m + 1] = ackd]
  <2>1. [write_log_id(ids[m]) EXCEPT !.ack = {[to |-> l, index |-> i]}] = ackd
    BY Acked DEF ackd
  <2>2. q = [w EXCEPT ![m + 1].ack = {[to |-> l, index |-> i]}]
    BY <1>8, <1>9 DEF ThenAnswer
  <2> HIDE DEF w, q
  <2> QED BY <1>1, <1>8, <2>1, <2>2
<1> HIDE DEF w, q
<1>11. q \in Seq(Command) /\ Len(q) = m + 1
       /\ (\A k \in 1 .. m : q[k] = put_cf(ids[k])) /\ q[m + 1] = ackd
  BY <1>1, <1>3, <1>8, <1>10
<1> QED BY <1>11 DEF q, ackd

(* The writes of delete_conflict_logs_since.                               *)
LEMMA CutWrites ==
  ASSUME LogTyped, NEW p \in Server, NEW id \in LogId
  PROVE  LET q == delete_conflict_logs_since(p, id)
             e == last[p].index
         IN /\ q \in Seq(Command)
            /\ id.index <= e =>
                 /\ Len(q) = e - id.index + 2
                 /\ \A k \in 1 .. e - id.index + 1 : q[k] = delete_cf(id.index + k - 1)
                 /\ q[e - id.index + 2].op = "last" /\ q[e - id.index + 2].id.index = id.index - 1
                 /\ q[e - id.index + 2].ack = {}
<1> DEFINE e == last[p].index
           f == id.index
           q == delete_conflict_logs_since(p, id)
           ds == [k \in 1 .. (e - f + 1) |-> delete_cf(f + k - 1)]
           x == IF f > 0 THEN write_log_id([term |-> id.term, index |-> f - 1]) ELSE delete_key
           m == IF e - f + 1 < 0 THEN 0 ELSE e - f + 1
<1>0. MaxTerm \in Nat /\ MaxIndex \in Nat
  BY BoundsAssumption
<1>1. f \in 0 .. MaxIndex /\ id.term \in 0 .. MaxTerm /\ e \in -1 .. MaxIndex
  BY <1>0 DEF LogTyped, LogId, NoId, Index
<1>2. CASE last[p] = NoId
  BY <1>1, <1>2 DEF delete_conflict_logs_since, NoId
<1>3. CASE last[p] # NoId
  <2>1. q = ds \o <<x>>
    BY <1>3 DEF delete_conflict_logs_since, delete_range
  <2>2. x \in Command /\ x.op = "last" /\ x.id.index = f - 1 /\ x.ack = {}
    <3>1. CASE f > 0
      <4>1. [term |-> id.term, index |-> f - 1] \in LogId
        BY <1>0, <1>1, <3>1 DEF LogId, Index
      <4> QED BY <3>1, <4>1 DEF write_log_id, Command
    <3>2. CASE f = 0
      BY <1>1, <3>2 DEF delete_key, write_log_id, Command, NoId
    <3> QED BY <1>1, <3>1, <3>2
  <2>3. m \in Nat /\ 1 .. (e - f + 1) = 1 .. m
    BY <1>0, <1>1
  <2>4. \A k \in 1 .. m : delete_cf(f + k - 1) \in Command
    <3> TAKE k \in 1 .. m
    <3>1. f + k - 1 \in Index
      BY <1>0, <1>1 DEF Index
    <3>2. [term |-> 0, index |-> f + k - 1] \in LogId
      BY <1>0, <3>1 DEF LogId
    <3> QED BY <3>2 DEF delete_cf, Command
  <2>5. ds \in [1 .. m -> Command] /\ \A k \in 1 .. m : ds[k] = delete_cf(f + k - 1)
    BY <2>3, <2>4
  <2> HIDE DEF ds, x, m
  <2>6. ds \in Seq(Command) /\ Len(ds) = m
    BY <2>3, <2>5, SeqIs
  <2>7. <<x>> \in Seq(Command) /\ Len(<<x>>) = 1 /\ <<x>>[1] = x
    BY <2>2
  <2>8. /\ q \in Seq(Command) /\ Len(q) = m + 1
        /\ \A k \in 1 .. m : q[k] = ds[k]
        /\ q[m + 1] = x
    <3>1. /\ q \in Seq(Command) /\ Len(q) = Len(ds) + Len(<<x>>)
          /\ \A k \in 1 .. Len(ds) : q[k] = ds[k]
          /\ \A k \in 1 .. Len(<<x>>) : q[Len(ds) + k] = <<x>>[k]
      BY <2>1, <2>6, <2>7, ConcatIs
    <3> HIDE DEF q
    <3> QED BY <2>3, <2>6, <2>7, <3>1
  <2>9. f <= e => m = e - f + 1 /\ m + 1 = e - f + 2
    BY <1>1 DEF m
  <2> HIDE DEF q
  <2>10. f <= e => /\ Len(q) = e - f + 2
                   /\ \A k \in 1 .. e - f + 1 : q[k] = delete_cf(f + k - 1)
                   /\ q[e - f + 2] = x
    BY <2>5, <2>8, <2>9
  <2> QED BY <2>2, <2>8, <2>10 DEF q
<1> QED BY <1>2, <1>3
-----------------------------------------------------------------------------
(* Types are kept by every step, also after a crash that leaves            *)
(* last_log_id without its entry.                                          *)
LEMMA MatchTyped ==
  ASSUME LogTyped, NEW acks \in SUBSET [to : Server, index : Index], NEW n \in Server
  PROVE  Match(acks, n) \in [Server -> [Server -> {Absent} \cup Index]]
<1> DEFINE r(l) == IF \E a \in acks : /\ a.to = l /\ a.index > matched[l][n] /\ Leader(l)
                                      /\ VoteGE(vote[l], vote[n])
                   THEN (CHOOSE a \in acks : TRUE).index ELSE matched[l][n]
<1>1. ASSUME NEW l \in Server PROVE r(l) \in {Absent} \cup Index
  <2>1. matched[l][n] \in {Absent} \cup Index
    BY DEF LogTyped
  <2>2. CASE acks = {}
    BY <2>1, <2>2
  <2>3. CASE acks # {}
    <3>1. (CHOOSE a \in acks : TRUE) \in acks
      BY <2>3
    <3>2. (CHOOSE a \in acks : TRUE).index \in Index
      BY <3>1
    <3> QED BY <2>1, <3>2
  <2> QED BY <2>2, <2>3
<1>2. Match(acks, n) = [l \in Server |-> [matched[l] EXCEPT ![n] = r(l)]]
  BY DEF Match, LogTyped
<1> HIDE DEF r
<1> QED BY <1>1, <1>2 DEF LogTyped

(* The entries that a leader makes.                                        *)
LEMMA ExtendTyped ==
  ASSUME LogTyped, NEW n \in Server, NEW t \in 0 .. MaxTerm, Len(view[n]) <= MaxIndex,
         Extend(n, [term |-> t, index |-> Len(view[n])])
  PROVE  /\ view' \in [Server -> Seq(0 .. MaxTerm)]
         /\ \A m \in Server : Len(view'[m]) <= MaxIndex + 1
         /\ io' \in [Server -> Seq(Command)]
<1> DEFINE id == [term |-> t, index |-> Len(view[n])]
           q  == ThenAnswer(append_to_log(<<id>>), n, Len(view[n]))
<1>0. MaxTerm \in Nat /\ MaxIndex \in Nat
  BY BoundsAssumption
<1>1. view[n] \in Seq(0 .. MaxTerm) /\ Len(view[n]) \in Index
  BY <1>0 DEF LogTyped, Index
<1>2. id \in LogId /\ <<id>> \in Seq(LogId) /\ <<id>> # <<>>
  BY <1>1 DEF LogId
<1>3. view' = [view EXCEPT ![n] = Append(@, t)] /\ io' = [io EXCEPT ![n] = q]
  BY DEF Extend
<1> HIDE DEF id
<1>4. q \in Seq(Command)
  BY <1>1, <1>2, AppendWrites
<1> HIDE DEF q
<1>5. Append(view[n], t) \in Seq(0 .. MaxTerm) /\ Len(Append(view[n], t)) = Len(view[n]) + 1
  BY <1>1
<1>6. Len(view[n]) + 1 <= MaxIndex + 1
  BY <1>0, <1>1
<1> QED BY <1>3, <1>4, <1>5, <1>6 DEF LogTyped

(* A follower's entries up to the first that it misses are in its log.     *)
LEMMA FromWithin ==
  ASSUME LogTyped, NEW l \in Server, NEW p \in Server,
         NEW prev \in -1 .. MaxIndex, NEW hi \in Index, NEW f \in prev + 1 .. hi,
         AppendsFrom(l, p, prev, hi, f)
  PROVE  f \in 0 .. Len(view[p])
<1>0. MaxIndex \in Nat /\ f \in Nat /\ Len(view[p]) \in Nat
  BY BoundsAssumption DEF Index, LogTyped
<1>1. CASE f = prev + 1
  <2>1. prev >= 0 => prev < Len(view[p])
    BY DEF AppendsFrom, Agreed
  <2> QED BY <1>0, <1>1, <2>1
<1>2. CASE f # prev + 1
  <2>1. f - 1 \in prev + 1 .. f - 1
    BY <1>0, <1>2
  <2>2. f - 1 < Len(view[p])
    BY <2>1 DEF AppendsFrom, HasRange
  <2> QED BY <1>0, <2>2
<1> QED BY <1>1, <1>2

(* The commands of a call.                                                 *)
LEMMA CutTyped ==
  ASSUME LogTyped, NEW p \in Server, NEW i \in Nat
  PROVE  CutAt(p, i) \in Seq(Command)
<1>0. MaxIndex \in Nat
  BY BoundsAssumption
<1>1. CASE i < Len(view[p])
  <2>1. view[p] \in Seq(0 .. MaxTerm) /\ i \in Index /\ i + 1 \in 1 .. Len(view[p])
    BY <1>0, <1>1 DEF LogTyped, Index
  <2>2. view[p][i + 1] \in 0 .. MaxTerm
    BY <2>1, ElementOf
  <2>3. IdAt(view[p], i) \in LogId
    BY <2>1, <2>2 DEF LogId, IdAt
  <2> QED BY <1>1, <2>3, CutWrites DEF CutAt
<1>2. CASE ~(i < Len(view[p]))
  BY <1>2 DEF CutAt
<1> QED BY <1>1, <1>2

(* append_entries keeps the types of the log's state.                      *)
LEMMA AppendTyped ==
  ASSUME LogTyped, VoteType, NEW l \in Server, NEW p \in Server,
         NEW prev \in -1 .. MaxIndex, NEW hi \in Index, prev < hi,
         AppendEntries(l, p, prev, hi)
  PROVE  LogTyped'
<1>0. MaxTerm \in Nat /\ MaxIndex \in Nat /\ hi \in Nat /\ hi <= MaxIndex
  BY BoundsAssumption DEF Index
<1>1. UNCHANGED <<log, last, up, committed>> /\ \A i \in prev + 1 .. hi : log[l][i] \in 0 .. MaxTerm
  BY AppendIs
<1>2. NoMatch \in [Server -> {Absent} \cup Index]
  BY DEF NoMatch
<1>3. CASE NothingNew(l, p, prev, hi)
  <2>1. matched' \in [Server -> [Server -> {Absent} \cup Index]]
    <3>1. {[to |-> l, index |-> hi]} \in SUBSET [to : Server, index : Index]
      OBVIOUS
    <3> QED BY <1>3, <3>1, MatchTyped DEF NothingNew
  <2> QED BY <1>1, <1>3, <2>1 DEF NothingNew, LogTyped
<1>4. ASSUME NEW f \in prev + 1 .. hi, AppendsFrom(l, p, prev, hi, f) PROVE LogTyped'
  <2> DEFINE es == get_entries(l, f, hi)
             ts == [k \in 1 .. hi - f + 1 |-> log[l][f + k - 1]]
             a  == SubSeq(view[p], 1, f)
             q  == ThenAnswer(append_to_log(es), l, hi)
  <2>1. f \in 0 .. Len(view[p]) /\ f \in Nat /\ hi - f + 1 \in Nat /\ hi - f + 1 >= 1
    BY <1>0, <1>4, FromWithin
  <2>2. \A k \in 1 .. hi - f + 1 : f + k - 1 \in Index /\ f + k - 1 \in prev + 1 .. hi
    BY <1>0, <2>1 DEF Index
  <2>3. \A k \in 1 .. hi - f + 1 : log[l][f + k - 1] \in 0 .. MaxTerm
    BY <1>1, <2>2
  <2>4. ts \in [1 .. hi - f + 1 -> 0 .. MaxTerm] /\ es \in [1 .. hi - f + 1 -> LogId]
    BY <2>2, <2>3 DEF get_entries, LogId
  <2> HIDE DEF ts, es
  <2>5. ts \in Seq(0 .. MaxTerm) /\ Len(ts) = hi - f + 1 /\ es \in Seq(LogId) /\ Len(es) = hi - f + 1
    <3>1. ts \in Seq(0 .. MaxTerm) /\ Len(ts) = hi - f + 1
      BY <2>1, <2>4, SeqIs
    <3>2. es \in Seq(LogId) /\ Len(es) = hi - f + 1
      BY <2>1, <2>4, SeqIs
    <3> QED BY <3>1, <3>2
  <2>6. a \in Seq(0 .. MaxTerm) /\ Len(a) = f
    <3>1. view[p] \in Seq(0 .. MaxTerm)
      BY DEF LogTyped
    <3> QED BY <2>1, <3>1, PrefixIs
  <2> HIDE DEF a
  <2>7. a \o ts \in Seq(0 .. MaxTerm) /\ Len(a \o ts) = hi + 1
    <3>1. a \o ts \in Seq(0 .. MaxTerm) /\ Len(a \o ts) = Len(a) + Len(ts)
      BY <2>5, <2>6, ConcatIs
    <3> QED BY <1>0, <2>1, <2>5, <2>6, <3>1
  <2>8. q \in Seq(Command)
    <3>1. es # <<>>
      BY <2>1, <2>5
    <3> QED BY <2>5, <3>1, AppendWrites
  <2> HIDE DEF q
  <2>9. CutAt(p, f) \in Seq(Command)
    BY <2>1, CutTyped
  <2>10. CutAt(p, f) \o q \in Seq(Command)
    BY <2>8, <2>9, ConcatIs
  <2>11. view' = [view EXCEPT ![p] = a \o ts] /\ io' = [io EXCEPT ![p] = CutAt(p, f) \o q]
         /\ matched' = [matched EXCEPT ![p] = NoMatch]
    BY <1>4 DEF AppendsFrom, LogTyped, a, ts, q, es
  <2> QED BY <1>0, <1>1, <1>2, <2>7, <2>10, <2>11 DEF LogTyped
<1>5. CASE Conflicts(l, p, prev)
  <2>1. prev \in Nat
    BY <1>5 DEF Conflicts
  <2>2. CutAt(p, prev) \in Seq(Command)
    BY <2>1, CutTyped
  <2>3. prev < Len(view[p]) => /\ SubSeq(view[p], 1, prev) \in Seq(0 .. MaxTerm)
                               /\ Len(SubSeq(view[p], 1, prev)) <= MaxIndex + 1
    BY <1>0, <2>1 DEF LogTyped
  <2> QED BY <1>1, <1>2, <1>5, <2>2, <2>3 DEF Conflicts, LogTyped
<1> QED BY <1>3, <1>4, <1>5, AppendIs
(* One write, and the answer that may follow it.                           *)
LEMMA ExecuteTyped ==
  ASSUME LogTyped, NEW n \in Server, Execute(n)
  PROVE  LogTyped'
<1> DEFINE c == Head(io[n])
<1>1. io[n] \in Seq(Command) /\ io[n] # <<>>
  BY DEF LogTyped, Execute
<1>2. c \in Command /\ Tail(io[n]) \in Seq(Command)
  BY <1>1
<1>3. /\ c.id \in LogId \cup {NoId} /\ c.id.term \in 0 .. MaxTerm
      /\ c.ack \in SUBSET [to : Server, index : Index]
  BY <1>2, BoundsAssumption DEF Command, LogId, NoId
<1>4. /\ io' = [io EXCEPT ![n] = Tail(@)]
      /\ \/ /\ log' = [log EXCEPT ![n][c.id.index] = IF c.op = "put" THEN c.id.term ELSE Absent]
            /\ last' = last
         \/ last' = [last EXCEPT ![n] = c.id] /\ log' = log
      /\ matched' = Match(c.ack, n)
      /\ UNCHANGED <<up, view, committed>>
  BY DEF Execute, histVars
<1> HIDE DEF c
<1>5. matched' \in [Server -> [Server -> {Absent} \cup Index]]
  BY <1>3, <1>4, MatchTyped
<1>6. io' \in [Server -> Seq(Command)]
  BY <1>2, <1>4 DEF LogTyped
<1>7. log' \in [Server -> [Index -> {Absent} \cup 0 .. MaxTerm]]
  <2> DEFINE x == IF c.op = "put" THEN c.id.term ELSE Absent
  <2>1. x \in {Absent} \cup 0 .. MaxTerm
    BY <1>3
  <2>2. log' = log \/ log' = [log EXCEPT ![n] = [log[n] EXCEPT ![c.id.index] = x]]
    BY <1>4 DEF LogTyped
  <2> HIDE DEF x
  <2>3. [log[n] EXCEPT ![c.id.index] = x] \in [Index -> {Absent} \cup 0 .. MaxTerm]
    BY <2>1 DEF LogTyped
  <2> QED BY <2>2, <2>3 DEF LogTyped
<1>8. last' \in [Server -> LogId \cup {NoId}]
  BY <1>3, <1>4 DEF LogTyped
<1> QED BY <1>4, <1>5, <1>6, <1>7, <1>8 DEF LogTyped

(* What a leader commits are ids of its log.                               *)
LEMMA CommitTyped ==
  ASSUME LogTyped, VoteType, NEW l \in Server, Commit(l)
  PROVE  LogTyped'
<1>1. PICK i \in Index :
        /\ i < Len(view[l])
        /\ committed' = committed \cup {[id |-> id, at |-> vote[l].term] :
                          id \in {IdAt(view[l], j) : j \in 0 .. i} \ {c.id : c \in committed}}
        /\ UNCHANGED <<diskVars, memVars>>
  BY DEF Commit
<1>2. ASSUME NEW j \in 0 .. i PROVE IdAt(view[l], j) \in LogId
  <2>1. view[l] \in Seq(0 .. MaxTerm) /\ j + 1 \in 1 .. Len(view[l]) /\ j \in Index
    BY <1>1, BoundsAssumption DEF LogTyped, Index
  <2>2. view[l][j + 1] \in 0 .. MaxTerm
    BY <2>1, ElementOf
  <2> QED BY <2>1, <2>2 DEF IdAt, LogId
<1>3. vote[l].term \in 0 .. MaxTerm
  BY DEF VoteType, Vote
<1>4. committed' \subseteq [id : LogId, at : 0 .. MaxTerm]
  BY <1>1, <1>2, <1>3 DEF LogTyped
<1> QED BY <1>1, <1>4 DEF LogTyped, diskVars, memVars

(* The log that a restarted server reads.                                  *)
LEMMA RestartTyped ==
  ASSUME LogTyped, NEW n \in Server, Restart(n)
  PROVE  LogTyped' /\ get_log_state(n) \in Seq(0 .. MaxTerm)
         /\ Len(get_log_state(n)) = last[n].index + 1
<1> DEFINE e == last[n].index
           g == get_log_state(n)
<1>0. MaxTerm \in Nat /\ MaxIndex \in Nat
  BY BoundsAssumption
<1>1. e \in -1 .. MaxIndex /\ last[n].term \in 0 .. MaxTerm /\ e + 1 \in Nat
  BY <1>0 DEF LogTyped, LogId, NoId, Index
<1>2. \A i \in 1 .. e + 1 : i # e + 1 => log[n][i - 1] \in 0 .. MaxTerm
  <2> SUFFICES ASSUME NEW i \in 1 .. e + 1, i # e + 1 PROVE log[n][i - 1] \in 0 .. MaxTerm
    OBVIOUS
  <2>1. i - 1 \in 0 .. e - 1 /\ i - 1 \in Index
    BY <1>0, <1>1 DEF Index
  <2>2. log[n][i - 1] # Absent
    BY <2>1 DEF Restart
  <2> QED BY <2>1, <2>2 DEF LogTyped
<1>3. g = [i \in 1 .. e + 1 |-> IF i = e + 1 THEN last[n].term ELSE log[n][i - 1]]
  BY DEF get_log_state
<1> HIDE DEF e, g
<1>4. g \in [1 .. e + 1 -> 0 .. MaxTerm]
  BY <1>1, <1>2, <1>3 DEF e
<1>5. g \in Seq(0 .. MaxTerm) /\ Len(g) = e + 1
  BY <1>1, <1>4, SeqIs
<1>6. Len(g) <= MaxIndex + 1
  BY <1>0, <1>1, <1>5
<1>7. /\ view' = [view EXCEPT ![n] = g] /\ up' = [up EXCEPT ![n] = TRUE]
      /\ UNCHANGED <<log, last, io, matched, committed>>
  BY DEF Restart, g, histVars
<1> QED BY <1>5, <1>6, <1>7 DEF LogTyped, g, e

(* Every step keeps the types.                                             *)
LEMMA NextTyped ==
  ASSUME LogTyped, VoteType, VoteType', [Next]_vars
  PROVE  LogTyped'
<1>0. MaxTerm \in Nat /\ MaxIndex \in Nat /\ NoMatch \in [Server -> {Absent} \cup Index]
  BY BoundsAssumption DEF NoMatch
<1>1. CASE UNCHANGED vars
  BY <1>1 DEF vars, LogTyped
<1>2. ASSUME NEW n \in Server, ClientWrite(n) PROVE LogTyped'
  <2>1. vote[n].term \in 0 .. MaxTerm
    BY DEF VoteType, Vote
  <2>2. /\ Len(view[n]) <= MaxIndex /\ Extend(n, [term |-> vote[n].term, index |-> Len(view[n])])
        /\ UNCHANGED <<log, last, up, matched, committed>>
    BY <1>2 DEF ClientWrite, diskVars, histVars
  <2> QED BY <2>1, <2>2, ExtendTyped DEF LogTyped
<1>3. ASSUME NEW n \in Server, NEW Q \in SUBSET Server, Elect(n, Q) PROVE LogTyped'
  <2> DEFINE t == vote[n].term + 1
             mine == [term |-> t, node |-> n, committed |-> Q \cup {n} \in Quorum]
  <2>1. /\ t <= MaxTerm /\ UNCHANGED <<log, last, up, committed>>
        /\ matched' = [p \in Server |-> IF p \in Q \cup {n} THEN NoMatch ELSE matched[p]]
        /\ \/ /\ Len(view[n]) <= MaxIndex /\ Extend(n, [term |-> t, index |-> Len(view[n])])
           \/ UNCHANGED <<view, io>>
    BY <1>3 DEF Elect
  <2>2. t \in 0 .. MaxTerm
    BY <1>0, <2>1 DEF VoteType, Vote
  <2>3. matched' \in [Server -> [Server -> {Absent} \cup Index]]
    BY <1>0, <2>1 DEF LogTyped
  <2> QED BY <2>1, <2>2, <2>3, ExtendTyped DEF LogTyped
<1>4. ASSUME NEW n \in Server, Crash(n) PROVE LogTyped'
  BY <1>0, <1>4 DEF Crash, LogTyped, diskVars
<1>5. ASSUME NEW l \in Server, NEW p \in Server, HigherVote(l, p) PROVE LogTyped'
  BY <1>0, <1>5 DEF HigherVote, LogTyped, histVars
<1> QED BY <1>1, <1>2, <1>3, <1>4, <1>5, ExecuteTyped, CommitTyped, RestartTyped, AppendTyped
     DEF Next

(* Only a crash counts as one, or as torn.                                 *)
LEMMA CrashOnly ==
  ASSUME [Next]_vars
  PROVE  UNCHANGED <<torn, crashes>> \/ \E n \in Server : Crash(n)
<1>1. ASSUME NEW n \in Server, ClientWrite(n) \/ Execute(n) \/ Commit(n) \/ Restart(n)
      PROVE  UNCHANGED <<torn, crashes>>
  BY <1>1 DEF ClientWrite, Execute, Commit, Restart, histVars
<1>2. ASSUME NEW n \in Server, NEW Q \in SUBSET Server, Elect(n, Q)
      PROVE  UNCHANGED <<torn, crashes>>
  BY <1>2, Zenon DEF Elect
<1>3. ASSUME NEW l \in Server, NEW p \in Server, HigherVote(l, p)
      PROVE  UNCHANGED <<torn, crashes>>
  BY <1>3 DEF HigherVote, histVars
<1>4. ASSUME NEW l \in Server, NEW p \in Server, NEW prev, NEW hi, AppendEntries(l, p, prev, hi)
      PROVE  UNCHANGED <<torn, crashes>>
  BY <1>4, Zenon DEF AppendEntries, server_append_entries, histVars
<1> QED BY <1>1, <1>2, <1>3, <1>4 DEF Next, vars

(* The types hold at first.                                                *)
LEMMA InitTyped ==
  ASSUME Init
  PROVE  VoteInv /\ LogTyped
<1> USE BoundsAssumption
<1>1. VoteInv
  BY DEF Init, VoteInv, VoteType, Vote, NoVote, TermHeld, OneElected, CommittedVoteWon
<1>2. LogTyped
  BY DEF Init, LogTyped, NoMatch, LogId, Index
<1> QED BY <1>1, <1>2

(* The state has the types that TypeOK gives it.                           *)
THEOREM LogTypeCorrect == Spec => []TypeOK
<1> USE BoundsAssumption
<1> DEFINE T == LogTyped /\ VoteInv /\ torn \in BOOLEAN /\ crashes \in 0 .. MaxCrashes
<1>1. Init => T
  <2> SUFFICES ASSUME Init PROVE T
    OBVIOUS
  <2>1. torn \in BOOLEAN
    BY Zenon DEF Init
  <2>2. crashes \in 0 .. MaxCrashes
    BY DEF Init
  <2> QED BY <2>1, <2>2, InitTyped
<1>2. T /\ VoteInv' /\ [Next]_vars => T'
  <2> SUFFICES ASSUME T, VoteInv', [Next]_vars PROVE T'
    OBVIOUS
  <2>1. LogTyped'
    BY NextTyped DEF VoteInv
  <2>2. \/ UNCHANGED <<torn, crashes>>
        \/ \E n \in Server : Crash(n)
    BY CrashOnly
  <2>3. torn' \in BOOLEAN
    BY <2>2, Zenon DEF Crash
  <2>4. crashes' \in 0 .. MaxCrashes
    BY <2>2 DEF Crash
  <2> QED BY <2>1, <2>3, <2>4
<1>3. T => TypeOK
  <2> SUFFICES ASSUME T PROVE TypeOK
    OBVIOUS
  <2>1. LogId = {[term |-> t, index |-> i] : t \in 0 .. MaxTerm, i \in Index}
    <3> DEFINE S == {[term |-> t, index |-> i] : t \in 0 .. MaxTerm, i \in Index}
    <3>1. ASSUME NEW x \in LogId PROVE x \in S
      <4>1. x = [term |-> x.term, index |-> x.index] /\ x.term \in 0 .. MaxTerm /\ x.index \in Index
        BY DEF LogId
      <4> QED BY <4>1
    <3>2. ASSUME NEW x \in S PROVE x \in LogId
      <4>1. PICK t \in 0 .. MaxTerm, i \in Index : x = [term |-> t, index |-> i]
        OBVIOUS
      <4> QED BY <4>1 DEF LogId
    <3> HIDE DEF S
    <3>3. LogId = S
      BY <3>1, <3>2
    <3> QED BY <3>3 DEF S
  <2>2. \A n \in Server : /\ vote[n].term \in 0 .. MaxTerm
                          /\ vote[n].node \in Server \cup {NoServer}
                          /\ vote[n].committed \in BOOLEAN
    BY DEF VoteInv, VoteType, Vote
  <2>3. elected \in [1 .. MaxTerm -> SUBSET Server]
    BY DEF VoteInv, VoteType
  <2> QED BY <2>1, <2>2, <2>3 DEF LogTyped, TypeOK
<1> QED BY <1>1, <1>2, <1>3, VotesInductive, PTL DEF Spec
-----------------------------------------------------------------------------
(* Most steps only shorten logs, or give a follower a part of its leader's *)
(* log.                                                                    *)
Shrinks ==
  /\ elected' = elected
  /\ \A m \in Server : vote'[m].term >= vote[m].term
  /\ \A m \in Server : Led(m)' => Led(m) /\ vote'[m] = vote[m] /\ LogsOf(m)' \subseteq LogsOf(m)
  /\ \A m \in Server : \A a \in LogsOf(m)' :
       \/ \E b \in LogsOf(m) : PrefixOf(a, b)
       \/ \E q \in Server : /\ q # m /\ Led(q) /\ LogsOf(q) = {view[q]}
                            /\ vote'[m].term = vote[q].term /\ PrefixOf(a, view[q])

(* After such a step every log is a part of one that there was.            *)
LEMMA ShrinkFrom ==
  ASSUME LogTyped, LogsMatch, Shrinks, NEW a \in Logs'
  PROVE  \E b \in Logs : b \in Seq(Nat) /\ PrefixOf(a, b) /\ Sorted(b)
<1>1. PICK m \in Server : a \in LogsOf(m)'
  BY DEF Logs
<1>2. PICK q \in Server : \E b \in LogsOf(q) : PrefixOf(a, b)
  <2>1. ASSUME NEW q \in Server, LogsOf(q) = {view[q]}, PrefixOf(a, view[q])
        PROVE  \E b \in LogsOf(q) : PrefixOf(a, b)
    BY <2>1
  <2> QED BY <1>1, <2>1 DEF Shrinks
<1> PICK b \in LogsOf(q) : PrefixOf(a, b)
  BY <1>2
<1>3. b \in Logs /\ b \in Seq(Nat)
  BY LogsTyped DEF Logs
<1> QED BY <1>3 DEF LogsMatch

(* Parts of matching logs match.                                           *)
LEMMA ShrinkMatch ==
  ASSUME LogTyped, LogsMatch, Shrinks
  PROVE  LogsMatch'
<1>1. ASSUME NEW a \in Logs', NEW b \in Logs'
      PROVE  Matching(a, b) /\ Runs(a, b) /\ Sorted(a)
  <2>1. PICK c \in Logs : c \in Seq(Nat) /\ PrefixOf(a, c) /\ Sorted(c)
    BY ShrinkFrom
  <2>2. PICK d \in Logs : d \in Seq(Nat) /\ PrefixOf(b, d)
    BY ShrinkFrom
  <2>3. Matching(c, d) /\ Runs(c, d)
    BY DEF LogsMatch
  <2> QED BY <2>1, <2>2, <2>3, PrefixMatches
<1> QED BY <1>1 DEF LogsMatch

(* Parts of logs hold no entry of a term that had no leader.               *)
LEMMA ShrinkWritten ==
  ASSUME LogTyped, LogsMatch, Written, Shrinks
  PROVE  Written'
<1> SUFFICES ASSUME NEW a \in Logs', NEW i \in 1 .. Len(a), a[i] >= 1 PROVE elected'[a[i]] # {}
  BY DEF Written
<1>1. PICK b \in Logs : b \in Seq(Nat) /\ PrefixOf(a, b)
  BY ShrinkFrom
<1>2. i \in 1 .. Len(b) /\ a[i] = b[i]
  BY <1>1 DEF PrefixOf
<1>3. elected[b[i]] # {}
  BY <1>2 DEF Written
<1> QED BY <1>2, <1>3 DEF Shrinks

(* A part of a server's own log is below its vote, and a part of its       *)
(* leader's log is below the leader's vote, which it has taken.            *)
LEMMA ShrinkBelow ==
  ASSUME LogTyped, VoteType, VoteType', BelowVote, Shrinks
  PROVE  BelowVote'
<1> SUFFICES ASSUME NEW m \in Server, NEW a \in LogsOf(m)', NEW i \in 1 .. Len(a)
             PROVE  a[i] <= vote'[m].term
  BY DEF BelowVote
<1>0. PICK q \in Server : \E b \in LogsOf(q) : PrefixOf(a, b) /\ vote[q].term <= vote'[m].term
  <2>1. vote[m].term <= vote'[m].term
    BY DEF Shrinks, VoteType, Vote
  <2>2. CASE \E b \in LogsOf(m) : PrefixOf(a, b)
    BY <2>1, <2>2
  <2>3. ASSUME NEW q \in Server, LogsOf(q) = {view[q]}, vote'[m].term = vote[q].term,
               PrefixOf(a, view[q])
        PROVE  \E b \in LogsOf(q) : PrefixOf(a, b) /\ vote[q].term <= vote'[m].term
    BY <2>3 DEF VoteType, Vote
  <2> QED BY <2>2, <2>3 DEF Shrinks
<1>1. PICK b \in LogsOf(q) : PrefixOf(a, b) /\ vote[q].term <= vote'[m].term
  BY <1>0
<1>2. b \in Seq(Nat)
  BY LogsTyped
<1>3. i \in 1 .. Len(b) /\ a[i] = b[i]
  BY <1>1, <1>2 DEF PrefixOf
<1>4. b[i] <= vote[q].term
  BY <1>3 DEF BelowVote
<1>5. b[i] \in Nat /\ vote[q].term \in Nat /\ vote'[m].term \in Nat
  BY <1>2, <1>3, BoundsAssumption, ElementOf DEF VoteType, Vote
<1> QED BY <1>1, <1>3, <1>4, <1>5

(* A leader keeps its log in such a step, and the others get no entry of   *)
(* its term that they or the leader did not have.                          *)
LEMMA ShrinkOwn ==
  ASSUME LogTyped, LeaderHasOwn, Shrinks
  PROVE  LeaderHasOwn'
<1> SUFFICES ASSUME NEW n \in Server, NEW m \in Server, n # m, Led(n)',
                    NEW b \in LogsOf(n)', NEW a \in LogsOf(m)', NEW i \in 1 .. Len(a),
                    a[i] = vote'[n].term
             PROVE  i <= Len(b) /\ b[i] = a[i]
  BY DEF LeaderHasOwn
<1>1. Led(n) /\ vote'[n] = vote[n] /\ b \in LogsOf(n)
  BY DEF Shrinks
<1>2. ASSUME NEW q \in Server, q # n, NEW c \in LogsOf(q), PrefixOf(a, c)
      PROVE  i <= Len(b) /\ b[i] = a[i]
  <2>1. i \in 1 .. Len(c) /\ a[i] = c[i]
    <3>1. c \in Seq(Nat)
      BY LogsTyped
    <3> QED BY <1>2, <3>1 DEF PrefixOf
  <2> QED BY <1>1, <1>2, <2>1 DEF LeaderHasOwn
<1>3. CASE LogsOf(n) = {view[n]} /\ PrefixOf(a, view[n])
  <2>1. b = view[n] /\ b \in Seq(Nat)
    BY <1>1, <1>3, LogsTyped
  <2> QED BY <1>3, <2>1 DEF PrefixOf
<1>4. CASE \E c \in LogsOf(m) : PrefixOf(a, c)
  BY <1>2, <1>4
<1>5. ASSUME NEW q \in Server, LogsOf(q) = {view[q]}, PrefixOf(a, view[q])
      PROVE  i <= Len(b) /\ b[i] = a[i]
  <2>1. CASE q = n
    BY <1>3, <1>5, <2>1
  <2>2. CASE q # n
    <3>1. view[q] \in LogsOf(q)
      BY <1>5
    <3> QED BY <1>2, <1>5, <2>2, <3>1
  <2> QED BY <2>1, <2>2
<1> QED BY <1>4, <1>5 DEF Shrinks

(* A log that still has an entry of a later term is long enough to have    *)
(* kept the fixed one.                                                     *)
LEMMA ShrinkFixed ==
  ASSUME LogTyped, LogsMatch, Shrinks, NEW id \in LogId, Fixed(id)
  PROVE  Fixed(id)'
<1>0. id.index \in Nat /\ id.term \in Nat
  BY BoundsAssumption DEF LogId, Index
<1>1. ASSUME NEW a \in Logs', Later(a, id.term) PROVE Contains(a, id)
  <2>1. PICK b \in Logs : b \in Seq(Nat) /\ PrefixOf(a, b) /\ Sorted(b)
    BY ShrinkFrom
  <2>2. Later(b, id.term)
    <3>1. PICK i \in 1 .. Len(a) : a[i] > id.term
      BY <1>1 DEF Later
    <3>2. i \in 1 .. Len(b) /\ a[i] = b[i]
      BY <2>1, <3>1 DEF PrefixOf
    <3> QED BY <3>1, <3>2 DEF Later
  <2>3. Contains(b, id)
    BY <2>2 DEF Fixed
  <2> QED BY <1>0, <1>1, <2>1, <2>3, PrefixLater
<1>2. ASSUME NEW n \in Server, Led(n)', vote'[n].term > id.term, NEW a \in LogsOf(n)'
      PROVE  Contains(a, id)
  BY <1>2 DEF Shrinks, Fixed
<1> QED BY <1>1, <1>2 DEF Fixed
-----------------------------------------------------------------------------
(* A leader of term t appends an entry of its term, and has all entries of *)
(* that term that there are.                                               *)
Extends(n, t) ==
  /\ t \in 1 .. MaxTerm /\ n \in elected'[t]
  /\ \A s \in 1 .. MaxTerm : elected[s] \subseteq elected'[s]
  /\ \A m \in Server : vote'[m].term >= vote[m].term
  /\ vote'[n].term = t /\ view[n] \in LogsOf(n)
  /\ LogsOf(n)' \subseteq {Append(view[n], t), view[n]}
  /\ \A m \in Server \ {n} :
       /\ LogsOf(m)' = LogsOf(m)
       /\ Led(m)' => Led(m) /\ vote'[m] = vote[m] /\ vote[m].term # t
  /\ \A a \in Logs : \A i \in 1 .. Len(a) : a[i] = t => i <= Len(view[n]) /\ view[n][i] = t
  /\ \A i \in 1 .. Len(view[n]) : view[n][i] <= t

(* A longer log, element by element.                                       *)
LEMMA AppendOne ==
  ASSUME NEW v \in Seq(Nat), NEW t \in Nat
  PROVE  /\ Append(v, t) \in Seq(Nat) /\ Len(Append(v, t)) = Len(v) + 1
         /\ \A i \in 1 .. Len(v) : Append(v, t)[i] = v[i]
         /\ Append(v, t)[Len(v) + 1] = t
OBVIOUS

(* What an appended entry of a new term does to the logs.                  *)
LEMMA AppendMatches ==
  ASSUME NEW v \in Seq(Nat), NEW b \in Seq(Nat), NEW t \in Nat, NEW w, w = Append(v, t),
         Matching(v, b), Matching(b, v), Runs(v, b), Runs(b, v), Sorted(v),
         \A i \in 1 .. Len(b) : b[i] = t => i <= Len(v) /\ v[i] = t,
         \A i \in 1 .. Len(v) : v[i] <= t
  PROVE  /\ Matching(w, b) /\ Matching(b, w) /\ Runs(w, b) /\ Runs(b, w)
         /\ Matching(w, w) /\ Runs(w, w) /\ Sorted(w)
<1> DEFINE m == Len(v)
<1>0. m \in Nat /\ Len(b) \in Nat /\ w \in Seq(Nat) /\ Len(w) = m + 1
      /\ (\A i \in 1 .. m : w[i] = v[i]) /\ w[m + 1] = t
  BY AppendOne
<1> HIDE DEF m
<1>1. \A i \in 1 .. m + 1 : i \in 1 .. m \/ i = m + 1
  BY <1>0
<1>2. \A i \in 1 .. Len(b) : b[i] = t => i \in 1 .. m /\ v[i] = t
  BY <1>0 DEF m
<1>3. Matching(w, b)
  <2> SUFFICES ASSUME NEW i \in 1 .. m + 1, i <= Len(b), w[i] = b[i], NEW j \in 1 .. i
               PROVE  w[j] = b[j]
    BY <1>0 DEF Matching
  <2>1. i \in 1 .. Len(b)
    BY <1>0
  <2>2. i \in 1 .. m
    BY <1>0, <1>1, <1>2, <2>1
  <2>3. v[i] = b[i]
    BY <1>0, <2>2
  <2>4. v[j] = b[j]
    BY <2>2, <2>3 DEF Matching, m
  <2>5. j \in 1 .. m
    BY <1>0, <2>2
  <2> QED BY <1>0, <2>4, <2>5
<1>4. Matching(b, w)
  <2> SUFFICES ASSUME NEW i \in 1 .. Len(b), i <= m + 1, b[i] = w[i], NEW j \in 1 .. i
               PROVE  b[j] = w[j]
    BY <1>0 DEF Matching
  <2>1. i \in 1 .. m + 1
    BY <1>0
  <2> QED BY <1>0, <1>3, <2>1 DEF Matching
<1>5. Runs(w, b)
  <2> SUFFICES ASSUME NEW i \in 1 .. m + 1, NEW k \in 1 .. Len(b), i <= k, w[i] = b[k]
               PROVE  b[i] = w[i]
    BY <1>0 DEF Runs
  <2>1. i \in 1 .. m
    BY <1>0, <1>1, <1>2
  <2>2. v[i] = b[k]
    BY <1>0, <2>1
  <2>3. b[i] = v[i]
    BY <2>1, <2>2 DEF Runs, m
  <2> QED BY <1>0, <2>1, <2>3
<1>6. Runs(b, w)
  <2> SUFFICES ASSUME NEW i \in 1 .. Len(b), NEW k \in 1 .. m + 1, i <= k, b[i] = w[k]
               PROVE  w[i] = b[i]
    BY <1>0 DEF Runs
  <2>1. CASE k = m + 1
    BY <1>0, <1>2, <2>1
  <2>2. CASE k \in 1 .. m
    <3>1. b[i] = v[k] /\ i \in 1 .. m
      BY <1>0, <2>2
    <3>2. v[i] = b[i]
      BY <2>2, <3>1 DEF Runs, m
    <3> QED BY <1>0, <3>1, <3>2
  <2> QED BY <1>1, <2>1, <2>2
<1>7. Matching(w, w) /\ Runs(w, w)
  BY DEF Matching, Runs
<1>8. Sorted(w)
  <2> SUFFICES ASSUME NEW i \in 1 .. m + 1, NEW j \in 1 .. m + 1, i <= j
               PROVE  w[i] <= w[j]
    BY <1>0 DEF Sorted
  <2>1. CASE j = m + 1
    <3>1. CASE i = m + 1
      BY <1>0, <2>1, <3>1
    <3>2. CASE i \in 1 .. m
      <4>1. v[i] <= t
        BY <3>2 DEF m
      <4> QED BY <1>0, <2>1, <3>2, <4>1
    <3> QED BY <1>1, <3>1, <3>2
  <2>2. CASE j \in 1 .. m
    <3>1. i \in 1 .. m
      BY <1>0, <2>2
    <3>2. v[i] <= v[j]
      BY <2>2, <3>1 DEF Sorted, m
    <3> QED BY <1>0, <2>2, <3>1, <3>2
  <2> QED BY <1>1, <2>1, <2>2
<1> QED BY <1>3, <1>4, <1>5, <1>6, <1>7, <1>8

(* The logs after the step.                                                *)
LEMMA ExtendLogs ==
  ASSUME LogTyped, NEW n \in Server, NEW t, Extends(n, t)
  PROVE  /\ view[n] \in Logs /\ view[n] \in Seq(Nat) /\ t \in Nat
         /\ \A a \in Logs' : a \in Logs \/ a = Append(view[n], t)
<1>1. view[n] \in Logs /\ view[n] \in Seq(Nat) /\ t \in Nat
  BY LogsTyped, BoundsAssumption DEF Extends, Logs
<1>2. ASSUME NEW a \in Logs' PROVE a \in Logs \/ a = Append(view[n], t)
  <2>1. PICK m \in Server : a \in LogsOf(m)'
    BY DEF Logs
  <2>2. CASE m = n
    BY <1>1, <2>1, <2>2 DEF Extends
  <2>3. CASE m # n
    <3>1. a \in LogsOf(m)
      BY <2>1, <2>3 DEF Extends
    <3> QED BY <3>1 DEF Logs
  <2> QED BY <2>2, <2>3
<1> QED BY <1>1, <1>2

(* The new entry is in a position where no other log has an entry of its   *)
(* term.                                                                   *)
LEMMA ExtendMatch ==
  ASSUME LogTyped, LogsMatch, NEW n \in Server, NEW t, Extends(n, t)
  PROVE  LogsMatch'
<1> DEFINE v == view[n]
           w == Append(v, t)
<1>1. /\ v \in Logs /\ v \in Seq(Nat) /\ t \in Nat
      /\ \A a \in Logs' : a \in Logs \/ a = w
  BY ExtendLogs
<1>2. \A b \in Logs : b \in Seq(Nat)
  BY LogsTyped DEF Logs
<1>3. /\ \A a \in Logs : \A i \in 1 .. Len(a) : a[i] = t => i <= Len(v) /\ v[i] = t
      /\ \A i \in 1 .. Len(v) : v[i] <= t
  BY DEF Extends
<1>4. ASSUME NEW b \in Logs
      PROVE  /\ Matching(w, b) /\ Matching(b, w) /\ Runs(w, b) /\ Runs(b, w)
             /\ Matching(w, w) /\ Runs(w, w) /\ Sorted(w)
  <2>1. /\ Matching(v, b) /\ Matching(b, v) /\ Runs(v, b) /\ Runs(b, v) /\ Sorted(v)
        /\ \A i \in 1 .. Len(b) : b[i] = t => i <= Len(v) /\ v[i] = t
    BY <1>1, <1>3 DEF LogsMatch
  <2> HIDE DEF v
  <2> QED BY <1>1, <1>2, <1>3, <2>1, AppendMatches
<1> HIDE DEF v, w
<1>5. ASSUME NEW a \in Logs', NEW b \in Logs'
      PROVE  Matching(a, b) /\ Runs(a, b) /\ Sorted(a)
  BY <1>1, <1>4 DEF LogsMatch
<1> QED BY <1>5 DEF LogsMatch

(* The term of the new entry has a leader, the one that appends it.        *)
LEMMA ExtendWritten ==
  ASSUME LogTyped, Written, NEW n \in Server, NEW t, Extends(n, t)
  PROVE  Written'
<1> SUFFICES ASSUME NEW a \in Logs', NEW i \in 1 .. Len(a), a[i] >= 1 PROVE elected'[a[i]] # {}
  BY DEF Written
<1>1. ASSUME NEW b \in Logs, NEW j \in 1 .. Len(b), b[j] >= 1 PROVE elected'[b[j]] # {}
  <2>1. b \in Seq(0 .. MaxTerm)
    BY LogsTyped DEF Logs
  <2>2. b[j] \in 1 .. MaxTerm
    BY <1>1, <2>1, ElementOf, BoundsAssumption
  <2>3. elected[b[j]] # {}
    BY <1>1 DEF Written
  <2> QED BY <2>2, <2>3 DEF Extends
<1>2. CASE a = Append(view[n], t)
  <2>1. view[n] \in Logs /\ view[n] \in Seq(Nat) /\ t \in Nat
    BY ExtendLogs
  <2>2. CASE i \in 1 .. Len(view[n])
    <3>1. a[i] = view[n][i]
      BY <1>2, <2>1, <2>2, AppendOne
    <3> QED BY <1>1, <2>1, <2>2, <3>1
  <2>3. CASE i = Len(view[n]) + 1
    <3>1. a[i] = t
      BY <1>2, <2>1, <2>3, AppendOne
    <3> QED BY <3>1 DEF Extends
  <2>4. Len(a) = Len(view[n]) + 1 /\ Len(view[n]) \in Nat
    BY <1>2, <2>1, AppendOne
  <2> QED BY <2>2, <2>3, <2>4
<1> QED BY <1>1, <1>2, ExtendLogs

(* The new entry has the term of the vote that the leader has saved.       *)
LEMMA ExtendBelow ==
  ASSUME LogTyped, VoteType, VoteType', BelowVote, NEW n \in Server, NEW t, Extends(n, t)
  PROVE  BelowVote'
<1> SUFFICES ASSUME NEW m \in Server, NEW a \in LogsOf(m)', NEW i \in 1 .. Len(a)
             PROVE  a[i] <= vote'[m].term
  BY DEF BelowVote
<1>1. view[n] \in Seq(Nat) /\ t \in Nat
  BY ExtendLogs
<1>2. CASE m # n
  <2>1. a \in LogsOf(m) /\ vote'[m].term >= vote[m].term
    BY <1>2 DEF Extends
  <2>2. a[i] \in Nat
    BY <2>1, LogsTyped, ElementOf
  <2>3. a[i] <= vote[m].term
    BY <2>1 DEF BelowVote
  <2> QED BY <2>1, <2>2, <2>3 DEF VoteType, Vote
<1>3. CASE m = n
  <2>1. vote'[m].term = t /\ (\A j \in 1 .. Len(view[n]) : view[n][j] <= t)
        /\ (a = Append(view[n], t) \/ a = view[n])
    BY <1>3 DEF Extends
  <2>2. CASE a = view[n]
    BY <2>1, <2>2
  <2>3. CASE a = Append(view[n], t)
    <3>1. /\ Len(a) = Len(view[n]) + 1 /\ Len(view[n]) \in Nat /\ a[Len(view[n]) + 1] = t
          /\ \A j \in 1 .. Len(view[n]) : a[j] = view[n][j]
      BY <1>1, <2>3, AppendOne
    <3> QED BY <1>1, <2>1, <3>1
  <2> QED BY <2>1, <2>2, <2>3
<1> QED BY <1>2, <1>3

(* Only the leader of a term gains an entry of that term.                  *)
LEMMA ExtendOwn ==
  ASSUME LogTyped, LeaderHasOwn, NEW n \in Server, NEW t, Extends(n, t)
  PROVE  LeaderHasOwn'
<1> SUFFICES ASSUME NEW k \in Server, NEW m \in Server, k # m, Led(k)',
                    NEW b \in LogsOf(k)', NEW a \in LogsOf(m)', NEW i \in 1 .. Len(a),
                    a[i] = vote'[k].term
             PROVE  i <= Len(b) /\ b[i] = a[i]
  BY DEF LeaderHasOwn
<1> DEFINE v == view[n]
           w == Append(v, t)
<1>1. v \in Seq(Nat) /\ t \in Nat /\ v \in LogsOf(n) /\ Len(v) \in Nat
  <2>1. v \in Seq(Nat) /\ t \in Nat
    BY ExtendLogs
  <2>2. v \in LogsOf(n)
    BY DEF Extends
  <2> QED BY <2>1, <2>2
<1>2. /\ Len(w) = Len(v) + 1 /\ w[Len(v) + 1] = t
      /\ \A j \in 1 .. Len(v) : w[j] = v[j]
  BY <1>1, AppendOne
<1> HIDE DEF v, w
<1>3. CASE k = n
  <2>1. b \in {w, v} /\ vote'[k].term = t /\ a \in LogsOf(m)
    BY <1>3 DEF Extends, v, w
  <2>2. i <= Len(v) /\ v[i] = t
    BY <2>1 DEF Extends, v, Logs
  <2> QED BY <1>1, <1>2, <2>1, <2>2
<1>4. CASE k # n
  <2>1. Led(k) /\ vote'[k] = vote[k] /\ vote[k].term # t /\ b \in LogsOf(k)
    BY <1>4 DEF Extends
  <2>2. CASE m # n
    <3>1. a \in LogsOf(m)
      BY <2>2 DEF Extends
    <3> QED BY <2>1, <3>1 DEF LeaderHasOwn
  <2>3. CASE m = n
    <3>1. a \in {w, v}
      BY <2>3 DEF Extends, v, w
    <3>2. i \in 1 .. Len(v) /\ v[i] = a[i]
      BY <1>1, <1>2, <2>1, <3>1
    <3> QED BY <1>1, <2>1, <2>3, <3>2 DEF LeaderHasOwn
  <2> QED BY <2>2, <2>3
<1> QED BY <1>3, <1>4

(* An entry stays fixed when the leader that appends has it, or is not of  *)
(* a later term.                                                           *)
LEMMA ExtendFixed ==
  ASSUME LogTyped, NEW n \in Server, NEW t, Extends(n, t), NEW id \in LogId, Fixed(id),
         id.term >= t \/ Contains(view[n], id)
  PROVE  Fixed(id)'
<1> DEFINE v == view[n]
           w == Append(v, t)
<1>0. id.index \in Nat /\ id.term \in Nat
  BY BoundsAssumption DEF LogId, Index
<1>1. v \in Seq(Nat) /\ t \in Nat /\ v \in LogsOf(n) /\ v \in Logs /\ Len(v) \in Nat
      /\ \A i \in 1 .. Len(v) : v[i] <= t
  <2>1. v \in Seq(Nat) /\ t \in Nat /\ v \in Logs
    BY ExtendLogs
  <2>2. v \in LogsOf(n) /\ \A i \in 1 .. Len(v) : v[i] <= t
    BY DEF Extends
  <2> QED BY <2>1, <2>2
<1>2. /\ Len(w) = Len(v) + 1 /\ w[Len(v) + 1] = t
      /\ \A j \in 1 .. Len(v) : w[j] = v[j]
  BY <1>1, AppendOne
<1>3. \A a \in Logs' : a \in Logs \/ a = w
  BY ExtendLogs
<1>4. Contains(v, id) => Contains(w, id)
  BY <1>0, <1>1, <1>2 DEF Contains
<1> HIDE DEF w
<1>5. Later(w, id.term) => Contains(w, id)
  <2> SUFFICES ASSUME NEW i \in 1 .. Len(w), w[i] > id.term, id.term >= t PROVE FALSE
    BY <1>4 DEF Later, v
  <2>1. CASE i = Len(v) + 1
    BY <1>0, <1>1, <1>2, <2>1
  <2>2. CASE i \in 1 .. Len(v)
    <3>1. v[i] \in Nat /\ v[i] <= t /\ w[i] = v[i]
      BY <1>1, <1>2, <2>2, ElementOf
    <3> QED BY <1>0, <1>1, <3>1
  <2> QED BY <1>1, <1>2, <2>1, <2>2
<1>6. ASSUME NEW a \in Logs', Later(a, id.term) PROVE Contains(a, id)
  BY <1>3, <1>5, <1>6 DEF Fixed
<1>7. ASSUME NEW m \in Server, Led(m)', vote'[m].term > id.term, NEW a \in LogsOf(m)'
      PROVE  Contains(a, id)
  <2>1. CASE m = n
    <3>1. t > id.term /\ a \in {w, v}
      BY <1>7, <2>1 DEF Extends, w
    <3>2. Contains(v, id)
      BY <1>0, <1>1, <3>1
    <3> QED BY <1>4, <3>1, <3>2
  <2>2. CASE m # n
    BY <1>7, <2>2 DEF Extends, Fixed
  <2> QED BY <2>1, <2>2
<1> QED BY <1>6, <1>7 DEF Fixed
-----------------------------------------------------------------------------
(* A server with nothing to write has on disk what it knows.               *)
LEMMA IdleLogs ==
  ASSUME LogTyped, IoInv, NEW n \in Server, up[n], io[n] = <<>>
  PROVE  /\ LogsOf(n) = {view[n]} /\ last[n].index = Len(view[n]) - 1
         /\ \A i \in 0 .. Len(view[n]) - 1 : log[n][i] = view[n][i + 1]
<1>1. last[n].index = Len(view[n]) - 1 /\ \A i \in 0 .. Len(view[n]) - 1 : log[n][i] = view[n][i + 1]
  BY DEF IoInv, DiskOK, Saved, OnDisk
<1>2. view[n] \in Seq(0 .. MaxTerm) /\ Len(view[n]) \in Nat
  BY DEF LogTyped
<1>3. disk(n) = view[n]
  <2>1. last[n].index + 1 = Len(view[n])
    BY <1>1, <1>2
  <2>2. disk(n) = [i \in 1 .. Len(view[n]) |-> log[n][i - 1]]
    BY <2>1 DEF disk
  <2>3. \A i \in 1 .. Len(view[n]) : log[n][i - 1] = view[n][i]
    <3> TAKE i \in 1 .. Len(view[n])
    <3>1. i - 1 \in 0 .. Len(view[n]) - 1 /\ (i - 1) + 1 = i
      BY <1>2
    <3> QED BY <1>1, <3>1
  <2>4. view[n] = [i \in 1 .. Len(view[n]) |-> view[n][i]]
    BY <1>2
  <2> QED BY <2>2, <2>3, <2>4
<1> QED BY <1>1, <1>3 DEF LogsOf

(* The logs of a server whose disk and memory do not change.               *)
LEMMA SameLogs ==
  ASSUME NEW m \in Server, log'[m] = log[m], last'[m] = last[m], up'[m] = up[m], view'[m] = view[m]
  PROVE  LogsOf(m)' = LogsOf(m)
BY DEF LogsOf, disk, Whole

(* While a quorum has not voted beyond t there is no later leader, and no  *)
(* entry of a later term.                                                  *)
LEMMA NoneLater ==
  ASSUME VoteInv, LogTyped, Written, NEW t \in Nat, NEW R \in Quorum,
         \A p \in R : vote[p].term <= t
  PROVE  /\ \A s \in 1 .. MaxTerm : elected[s] # {} => s <= t
         /\ \A a \in Logs : \A i \in 1 .. Len(a) : a[i] <= t
         /\ \A n \in Server : vote[n].committed => vote[n].term <= t
<1>1. ASSUME NEW s \in 1 .. MaxTerm, elected[s] # {} PROVE s <= t
  <2>1. PICK Q \in Quorum : \A p \in Q : vote[p].term >= s
    BY <1>1 DEF VoteInv, TermHeld
  <2>2. PICK p \in Server : p \in Q /\ p \in R
    BY QuorumsMeet
  <2>3. vote[p].term >= s /\ vote[p].term <= t /\ vote[p].term \in Int
    BY <2>1, <2>2 DEF VoteInv, VoteType, Vote
  <2> QED BY <2>3
<1>2. ASSUME NEW a \in Logs, NEW i \in 1 .. Len(a) PROVE a[i] <= t
  <2>1. a \in Seq(0 .. MaxTerm)
    BY LogsTyped DEF Logs
  <2>2. a[i] \in 0 .. MaxTerm
    BY <2>1, ElementOf
  <2>3. CASE a[i] = 0
    BY <2>3
  <2>4. CASE a[i] # 0
    <3>1. a[i] \in 1 .. MaxTerm /\ a[i] >= 1
      BY <2>2, <2>4, BoundsAssumption
    <3> QED BY <1>1, <3>1 DEF Written
  <2> QED BY <2>3, <2>4
<1>3. ASSUME NEW n \in Server, vote[n].committed PROVE vote[n].term <= t
  BY <1>1, <1>3 DEF VoteInv, CommittedVoteWon
<1> QED BY <1>1, <1>2, <1>3

(* What an election does.                                                  *)
Elects(n, Q, t) ==
  /\ t = vote[n].term + 1 /\ t \in 1 .. MaxTerm /\ n \notin Q
  /\ ~Leader(n)
  /\ \A p \in Q \cup {n} : Idle(p) /\ vote[p].term < t
                           /\ vote'[p].term = t /\ vote'[p].node = n
  /\ \A p \in Q : LogIdGE(LastOf(view[n]), LastOf(view[p])) /\ ~vote'[p].committed
  /\ \A p \in Server \ (Q \cup {n}) : vote'[p] = vote[p]
  /\ vote'[n].committed = (Q \cup {n} \in Quorum)
  /\ matched' = [p \in Server |-> IF p \in Q \cup {n} THEN NoMatch ELSE matched[p]]
  /\ UNCHANGED <<log, last, up, committed, torn, crashes>>

(* An election gives the candidate its vote and those of Q; with a quorum  *)
(* it becomes the leader and writes the blank entry of its term.           *)
LEMMA ElectIs ==
  ASSUME VoteType, NEW n \in Server, NEW Q \in SUBSET Server, Elect(n, Q)
  PROVE  /\ Elects(n, Q, vote[n].term + 1)
         /\ Q \cup {n} \notin Quorum => UNCHANGED <<elected, view, io>>
         /\ Q \cup {n} \in Quorum =>
              /\ Len(view[n]) <= MaxIndex
              /\ elected' = [elected EXCEPT ![vote[n].term + 1] = @ \cup {n}]
              /\ Extend(n, [term |-> vote[n].term + 1, index |-> Len(view[n])])
<1> DEFINE t    == vote[n].term + 1
           mine == [term |-> t, node |-> n, committed |-> Q \cup {n} \in Quorum]
<1>1. /\ t \in 1 .. MaxTerm /\ n \notin Q /\ Idle(n) /\ ~Leader(n) /\ vote[n].term < t
      /\ \A p \in Q : Idle(p) /\ client_vote(p, mine, LastOf(view[n])).vote_granted
      /\ vote' = save_vote(n, mine, Q)
      /\ matched' = [p \in Server |-> IF p \in Q \cup {n} THEN NoMatch ELSE matched[p]]
      /\ UNCHANGED <<log, last, up, committed, torn, crashes>>
  BY BoundsAssumption DEF Elect, VoteType, Vote
<1>2. convert_log_id(to_proto_log_id(LastOf(view[n]))) = LastOf(view[n])
  <2>1. CASE view[n] = <<>>
    BY <2>1 DEF convert_log_id, to_proto_log_id, LastOf, NoId
  <2>2. CASE view[n] # <<>>
    BY <2>2 DEF convert_log_id, to_proto_log_id, LastOf, IdAt
  <2> QED BY <2>1, <2>2
<1>3. ASSUME NEW p \in Q
      PROVE  t > vote[p].term /\ LogIdGE(LastOf(view[n]), LastOf(view[p]))
  <2>1. client_vote(p, mine, LastOf(view[n])).vote_granted
    BY <1>1
  <2>2. Grants(p, convert_vote_request(to_proto_vote_request(mine, LastOf(view[n]))))
    BY <2>1 DEF client_vote, convert_proto_vote_response, server_vote, convert_vote_response
  <2>3. convert_vote_request(to_proto_vote_request(mine, LastOf(view[n]))).vote.term = t
    BY DEF convert_vote_request, to_proto_vote_request, convert_vote, to_proto_vote
  <2>4. convert_vote_request(to_proto_vote_request(mine, LastOf(view[n]))).last_log_id
          = LastOf(view[n])
    BY <1>2 DEF convert_vote_request, to_proto_vote_request
  <2> HIDE DEF mine, t
  <2> QED BY <2>2, <2>3, <2>4 DEF Grants
<1>4. /\ \A p \in Q \cup {n} : vote'[p].term = t /\ vote'[p].node = n
      /\ \A p \in Q : ~vote'[p].committed
      /\ \A p \in Server \ (Q \cup {n}) : vote'[p] = vote[p]
      /\ vote'[n].committed = (Q \cup {n} \in Quorum)
  BY <1>1 DEF save_vote
<1>5. \A p \in Q : vote[p].term < t
  <2> TAKE p \in Q
  <2>1. vote[p].term \in Int /\ t \in Int
    BY <1>1 DEF VoteType, Vote
  <2> QED BY <1>3, <2>1
<1>6. Elects(n, Q, t)
  BY <1>1, <1>3, <1>4, <1>5 DEF Elects
<1> HIDE DEF Elects
<1>7. /\ ~mine.committed => UNCHANGED <<elected, view, io>>
      /\ mine.committed => /\ Len(view[n]) <= MaxIndex
                           /\ elected' = [elected EXCEPT ![t] = @ \cup {n}]
                           /\ Extend(n, [term |-> t, index |-> Len(view[n])])
  BY DEF Elect
<1> QED BY <1>6, <1>7
(* A term that is won is later than every entry and every leader.          *)
LEMMA NewTerm ==
  ASSUME VoteInv, LogTyped, Written, NEW n \in Server, NEW Q \in SUBSET Server, NEW t,
         Elects(n, Q, t), Q \cup {n} \in Quorum
  PROVE  /\ elected[t] = {}
         /\ \A a \in Logs : \A i \in 1 .. Len(a) : a[i] < t
         /\ \A m \in Server : vote[m].committed => vote[m].term < t
<1>1. t \in 1 .. MaxTerm /\ t \in Nat /\ t - 1 \in Nat /\ ~(t <= t - 1)
  BY BoundsAssumption DEF Elects
<1>2. \A p \in Q \cup {n} : vote[p].term <= t - 1
  <2> TAKE p \in Q \cup {n}
  <2>1. vote[p].term < t /\ vote[p].term \in Int
    BY DEF Elects, VoteInv, VoteType, Vote
  <2> QED BY <1>1, <2>1
<1>3. /\ \A s \in 1 .. MaxTerm : elected[s] # {} => s <= t - 1
      /\ \A a \in Logs : \A i \in 1 .. Len(a) : a[i] <= t - 1
      /\ \A m \in Server : vote[m].committed => vote[m].term <= t - 1
  BY <1>1, <1>2, NoneLater
<1>4. ASSUME NEW a \in Logs, NEW i \in 1 .. Len(a) PROVE a[i] < t
  <2>1. a \in Seq(Nat)
    BY LogsTyped DEF Logs
  <2>2. a[i] \in Nat
    BY <2>1, ElementOf
  <2> QED BY <1>1, <1>3, <2>2
<1>5. ASSUME NEW m \in Server, vote[m].committed PROVE vote[m].term < t
  BY <1>1, <1>3, <1>5 DEF VoteInv, VoteType, Vote
<1> QED BY <1>1, <1>3, <1>4, <1>5

(* The last id of a log.                                                   *)
LEMMA LastIs ==
  ASSUME NEW v \in Seq(Nat), v # <<>>
  PROVE  /\ Len(v) \in Nat /\ Len(v) >= 1
         /\ LastOf(v).term = v[Len(v)] /\ LastOf(v).index = Len(v) - 1
<1>1. Len(v) \in Nat /\ Len(v) >= 1 /\ (Len(v) - 1) + 1 = Len(v)
  OBVIOUS
<1> QED BY <1>1 DEF LastOf, IdAt

(* A candidate has a fixed entry if one of its voters has it.              *)
LEMMA ElectHas ==
  ASSUME LogTyped, LogsMatch, NEW n \in Server, NEW Q \in SUBSET Server, NEW t,
         Elects(n, Q, t), NEW id \in LogId, Fixed(id), NEW p \in Q \cup {n},
         Contains(view[p], id)
  PROVE  Contains(view[n], id)
<1> DEFINE a == view[p]
           b == view[n]
           i == id.index + 1
<1>0. id.index \in Nat /\ id.term \in Nat /\ i \in Nat /\ i >= 1
  BY BoundsAssumption DEF LogId, Index
<1>1. CASE p = n
  BY <1>1
<1>2. CASE p # n
  <2>1. p \in Server /\ p \in Q /\ up[p] /\ up[n]
    BY <1>2 DEF Elects, Idle
  <2>2. a \in Logs /\ b \in Logs
    BY <2>1 DEF Logs, LogsOf
  <2>3. a \in Seq(Nat) /\ b \in Seq(Nat)
    BY <2>1, LogsTyped DEF LogsOf
  <2>4. LogIdGE(LastOf(b), LastOf(a))
    BY <2>1 DEF Elects
  <2>5. Runs(a, b) /\ Sorted(a)
    BY <2>2 DEF LogsMatch
  <2> HIDE DEF a, b
  <2>6. i \in 1 .. Len(a) /\ a[i] = id.term /\ a # <<>>
    BY <1>0, <2>3 DEF Contains, a
  <2>7. /\ Len(a) \in Nat /\ Len(a) >= 1 /\ a[Len(a)] \in Nat
        /\ LastOf(a).term = a[Len(a)] /\ LastOf(a).index = Len(a) - 1
    BY <2>3, <2>6, LastIs, ElementOf
  <2>8. a[i] <= a[Len(a)]
    BY <2>5, <2>6, <2>7 DEF Sorted
  <2>9. b # <<>>
    <3> SUFFICES ASSUME b = <<>> PROVE FALSE
      OBVIOUS
    <3>1. LastOf(b) = NoId
      BY DEF LastOf
    <3>2. LastOf(b).term = 0 /\ LastOf(b).index = -1
      BY <3>1 DEF NoId
    <3> QED BY <2>4, <2>7, <3>2 DEF LogIdGE
  <2>10. /\ Len(b) \in Nat /\ Len(b) >= 1 /\ b[Len(b)] \in Nat
         /\ LastOf(b).term = b[Len(b)] /\ LastOf(b).index = Len(b) - 1
    BY <2>3, <2>9, LastIs, ElementOf
  <2>11. CASE b[Len(b)] > id.term
    <3>1. Later(b, id.term)
      BY <2>10, <2>11 DEF Later
    <3> QED BY <2>2, <3>1 DEF Fixed, b
  <2>12. CASE ~(b[Len(b)] > id.term)
    <3>1. b[Len(b)] = id.term /\ Len(b) >= Len(a)
      BY <1>0, <2>4, <2>6, <2>7, <2>8, <2>10, <2>12 DEF LogIdGE
    <3>2. b[i] = a[i]
      BY <2>5, <2>6, <2>7, <2>10, <3>1 DEF Runs
    <3>3. id.index < Len(b)
      BY <1>0, <2>6, <2>7, <2>10, <3>1
    <3> QED BY <2>6, <3>2, <3>3 DEF Contains, b
  <2> QED BY <2>11, <2>12
<1> QED BY <1>1, <1>2

(* A leader's new entry, in memory and not yet on disk.                    *)
LEMMA ExtendIs ==
  ASSUME LogTyped, IoInv, NEW n \in Server, up[n], io[n] = <<>>, NEW t,
         Extend(n, [term |-> t, index |-> Len(view[n])]), UNCHANGED <<log, last, up>>
  PROVE  /\ view' = [view EXCEPT ![n] = Append(@, t)]
         /\ view[n] \in LogsOf(n) /\ LogsOf(n)' \subseteq {Append(view[n], t), view[n]}
         /\ \A m \in Server \ {n} : LogsOf(m)' = LogsOf(m)
<1>1. view' = [view EXCEPT ![n] = Append(@, t)]
  BY DEF Extend
<1>2. LogsOf(n) = {view[n]}
  BY IdleLogs
<1>3. ASSUME NEW a \in LogsOf(n)' PROVE a = Append(view[n], t) \/ a = view[n]
  <2>1. a = view'[n] \/ (Whole(n)' /\ a = disk(n)')
    BY DEF LogsOf
  <2>2. (Whole(n)' <=> Whole(n)) /\ disk(n)' = disk(n)
    BY DEF Whole, disk
  <2>3. Whole(n) => disk(n) \in LogsOf(n)
    BY DEF LogsOf
  <2> QED BY <1>1, <1>2, <2>1, <2>2, <2>3 DEF LogTyped
<1>4. ASSUME NEW m \in Server \ {n} PROVE LogsOf(m)' = LogsOf(m)
  <2>1. view'[m] = view[m]
    BY <1>1 DEF LogTyped
  <2> QED BY <2>1, SameLogs
<1> QED BY <1>1, <1>2, <1>3, <1>4

(* The winner of an election appends the first entry of its term.          *)
LEMMA WinExtends ==
  ASSUME VoteInv, LogTyped, Written, IoInv, BelowVote,
         NEW n \in Server, NEW Q \in SUBSET Server, Elect(n, Q), Q \cup {n} \in Quorum
  PROVE  Extends(n, vote[n].term + 1)
<1> DEFINE t == vote[n].term + 1
<1>1. /\ Elects(n, Q, t) /\ elected' = [elected EXCEPT ![t] = @ \cup {n}]
      /\ Extend(n, [term |-> t, index |-> Len(view[n])])
  BY ElectIs DEF VoteInv
<1>2. up[n] /\ io[n] = <<>> /\ UNCHANGED <<log, last, up>> /\ t \in 1 .. MaxTerm
  BY <1>1 DEF Elects, Idle
<1>3. /\ view[n] \in LogsOf(n) /\ LogsOf(n)' \subseteq {Append(view[n], t), view[n]}
      /\ \A m \in Server \ {n} : LogsOf(m)' = LogsOf(m)
  BY <1>1, <1>2, ExtendIs
<1>4. /\ elected[t] = {}
      /\ \A a \in Logs : \A i \in 1 .. Len(a) : a[i] < t
      /\ \A m \in Server : vote[m].committed => vote[m].term < t
  BY <1>1, NewTerm
<1> HIDE DEF t
<1>5. n \in elected'[t] /\ \A s \in 1 .. MaxTerm : elected[s] \subseteq elected'[s]
  BY <1>1, <1>2 DEF VoteInv, VoteType
<1>6. ASSUME NEW m \in Server PROVE vote'[m].term >= vote[m].term
  <2>1. vote[m].term \in Int /\ t \in Int
    BY <1>2 DEF VoteInv, VoteType, Vote
  <2>2. CASE m \in Q \cup {n}
    BY <1>1, <2>1, <2>2 DEF Elects
  <2>3. CASE m \notin Q \cup {n}
    BY <1>1, <2>1, <2>3 DEF Elects
  <2> QED BY <2>2, <2>3
<1>7. vote'[n].term = t
  BY <1>1 DEF Elects
<1>8. ASSUME NEW m \in Server \ {n}, Led(m)'
      PROVE  Led(m) /\ vote'[m] = vote[m] /\ vote[m].term # t
  <2>1. vote'[m].node = m /\ vote'[m].committed
    BY <1>8 DEF Led
  <2>2. m \notin Q
    BY <1>1, <2>1 DEF Elects
  <2>3. vote'[m] = vote[m]
    BY <1>1, <2>2 DEF Elects
  <2>4. vote[m].term < t /\ vote[m].term \in Int /\ t \in Int
    BY <1>2, <1>4, <2>1, <2>3 DEF VoteInv, VoteType, Vote
  <2> QED BY <2>1, <2>3, <2>4 DEF Led
<1>9. ASSUME NEW a \in Logs, NEW i \in 1 .. Len(a) PROVE a[i] # t /\ a[i] <= t
  <2>1. a \in Seq(Nat)
    BY LogsTyped DEF Logs
  <2>2. a[i] \in Nat /\ t \in Nat
    BY <1>2, <2>1, ElementOf
  <2> QED BY <1>4, <2>2
<1>10. view[n] \in Logs
  BY <1>3 DEF Logs
<1>11. Extends(n, t)
  BY <1>2, <1>3, <1>5, <1>6, <1>7, <1>8, <1>9, <1>10 DEF Extends
<1> QED BY <1>11 DEF t

(* client_write appends an entry of the leader's term, all of which the    *)
(* leader has.                                                             *)
LEMMA WriteExtends ==
  ASSUME VoteInv, LogTyped, IoInv, BelowVote, LeaderHasOwn, NEW n \in Server, ClientWrite(n)
  PROVE  Extends(n, vote[n].term)
<1> DEFINE t == vote[n].term
<1>1. /\ Led(n) /\ up[n] /\ io[n] = <<>> /\ Extend(n, [term |-> t, index |-> Len(view[n])])
      /\ UNCHANGED <<log, last, up, vote, elected>>
  BY DEF ClientWrite, Leader, Led, Idle, diskVars, histVars
<1>2. /\ view[n] \in LogsOf(n) /\ LogsOf(n)' \subseteq {Append(view[n], t), view[n]}
      /\ \A m \in Server \ {n} : LogsOf(m)' = LogsOf(m)
  BY <1>1, ExtendIs
<1>3. LogsOf(n) = {view[n]}
  BY <1>1, IdleLogs
<1>4. t \in 1 .. MaxTerm /\ n \in elected[t]
  BY <1>1 DEF Led, VoteInv, CommittedVoteWon
<1>5. \A m \in Server : vote'[m] = vote[m] /\ vote[m].term \in Int
  BY <1>1 DEF VoteInv, VoteType, Vote
<1>6. ASSUME NEW m \in Server \ {n}, Led(m)'
      PROVE  Led(m) /\ vote[m].term # t
  <2>1. Led(m)
    BY <1>1, <1>6 DEF Led
  <2>2. m \in elected[vote[m].term] /\ vote[m].term \in 1 .. MaxTerm
    BY <2>1 DEF Led, VoteInv, CommittedVoteWon
  <2> QED BY <1>4, <2>1, <2>2 DEF VoteInv, OneElected
<1>7. ASSUME NEW a \in Logs, NEW i \in 1 .. Len(a), a[i] = t
      PROVE  i <= Len(view[n]) /\ view[n][i] = t
  <2>1. PICK m \in Server : a \in LogsOf(m)
    BY DEF Logs
  <2>2. CASE m = n
    <3>1. a = view[n] /\ Len(a) \in Nat
      BY <1>3, <2>1, <2>2, LogsTyped
    <3> QED BY <1>7, <3>1
  <2>3. CASE m # n
    BY <1>1, <1>2, <1>7, <2>1, <2>3 DEF LeaderHasOwn
  <2> QED BY <2>2, <2>3
<1>8. \A i \in 1 .. Len(view[n]) : view[n][i] <= t
  BY <1>2 DEF BelowVote
<1> QED BY <1>1, <1>2, <1>4, <1>5, <1>6, <1>7, <1>8 DEF Extends
-----------------------------------------------------------------------------
(* The next write of an append, and what is left after it.                 *)
LEMMA AppendStep ==
  ASSUME NEW L, NEW e \in Int, NEW v \in Seq(Nat), NEW q \in Seq(Command), q # <<>>,
         Appending(L, e, v, q)
  PROVE  \/ \E s \in 0 .. Len(v) - 1 :
              /\ Head(q).op = "put" /\ Head(q).id = IdAt(v, s) /\ e < s /\ OnDisk(L, v, s)
              /\ Len(q) >= 2 /\ PutsLeft(v, Tail(q), 0, s + 1)
         \/ /\ Head(q).op = "last" /\ Head(q).id = LastOf(v) /\ Len(q) = 1
            /\ OnDisk(L, v, Len(v)) /\ e < Len(v)
<1>0. Len(v) \in Nat /\ Len(q) \in Nat /\ Len(q) >= 1 /\ Head(q) = q[1]
      /\ Len(Tail(q)) = Len(q) - 1 /\ \A k \in 1 .. Len(q) - 1 : Tail(q)[k] = q[k + 1]
  OBVIOUS
<1>1. PICK s \in 0 .. Len(v) : OnDisk(L, v, s) /\ e < s /\ PutsLeft(v, q, 0, s)
  BY DEF Appending
<1>2. /\ Len(q) = Len(v) - s + 1 /\ q[Len(q)].op = "last" /\ q[Len(q)].id = LastOf(v)
      /\ \A k \in 1 .. Len(v) - s : q[k].op = "put" /\ q[k].id = IdAt(v, s + k - 1)
  <2>1. /\ Len(q) = 0 + Len(v) - s + 1 /\ q[Len(q)].op = "last" /\ q[Len(q)].id = LastOf(v)
        /\ \A k \in 1 .. Len(v) - s : q[0 + k].op = "put" /\ q[0 + k].id = IdAt(v, s + k - 1)
    BY <1>1 DEF PutsLeft
  <2>2. Len(q) = Len(v) - s + 1 /\ \A k \in 1 .. Len(v) - s : 0 + k = k
    BY <1>0, <2>1
  <2> QED BY <2>1, <2>2
<1>3. CASE s = Len(v)
  <2>1. Len(q) = 1
    BY <1>0, <1>2, <1>3
  <2> QED BY <1>0, <1>1, <1>2, <1>3, <2>1
<1>4. CASE s # Len(v)
  <2>1. s \in 0 .. Len(v) - 1 /\ 1 \in 1 .. Len(v) - s /\ s + 1 - 1 = s /\ Len(q) >= 2
    BY <1>0, <1>2, <1>4
  <2>2. Head(q).op = "put" /\ Head(q).id = IdAt(v, s)
    <3>1. q[1].op = "put" /\ q[1].id = IdAt(v, s + 1 - 1)
      BY <1>2, <2>1
    <3> QED BY <1>0, <2>1, <3>1
  <2>3. Len(Tail(q)) = 0 + Len(v) - (s + 1) + 1
    BY <1>0, <1>2, <2>1
  <2>4. ASSUME NEW k \in 1 .. Len(v) - (s + 1)
        PROVE  Tail(q)[0 + k].op = "put" /\ Tail(q)[0 + k].id = IdAt(v, (s + 1) + k - 1)
    <3>1. /\ k \in 1 .. Len(q) - 1 /\ k + 1 \in 1 .. Len(v) - s /\ 0 + k = k
          /\ s + (k + 1) - 1 = (s + 1) + k - 1
      BY <1>0, <1>2, <2>1
    <3>2. Tail(q)[k] = q[k + 1]
      BY <1>0, <3>1
    <3>3. q[k + 1].op = "put" /\ q[k + 1].id = IdAt(v, s + (k + 1) - 1)
      BY <1>2, <3>1
    <3> QED BY <3>1, <3>2, <3>3
  <2>5. Tail(q)[Len(Tail(q))] = q[Len(q)]
    <3>1. Len(q) - 1 \in 1 .. Len(q) - 1 /\ (Len(q) - 1) + 1 = Len(q)
      BY <1>0, <2>1
    <3> QED BY <1>0, <3>1
  <2>6. PutsLeft(v, Tail(q), 0, s + 1)
    BY <1>2, <2>3, <2>4, <2>5 DEF PutsLeft
  <2> QED BY <1>1, <2>1, <2>2, <2>6
<1> QED BY <1>3, <1>4

(* The next write of a truncation, and what is left after it.              *)
LEMMA CutStep ==
  ASSUME NEW L, NEW e \in Int, NEW v \in Seq(Nat), NEW q \in Seq(Command), q # <<>>,
         NEW f \in 0 .. Len(v), NEW d \in Nat, CuttingAt(L, e, v, q, f, d)
  PROVE  \/ /\ d <= e /\ Head(q).op = "delete" /\ Head(q).id.index = d
            /\ Len(Tail(q)) >= e - (d + 1) + 2 /\ DeletesLeft(e, Tail(q), d + 1)
            /\ ThenPuts(v, Tail(q), f, e - (d + 1) + 2)
         \/ /\ d = e + 1 /\ Head(q).op = "last" /\ Head(q).id.index = f - 1
            /\ \/ f = Len(v) /\ Len(q) = 1
               \/ f < Len(v) /\ Len(q) >= 2 /\ PutsLeft(v, Tail(q), 0, f)
<1> DEFINE c == e - d + 2
<1>0. Len(v) \in Nat /\ Len(q) \in Nat /\ Len(q) >= 1 /\ Head(q) = q[1]
      /\ Len(Tail(q)) = Len(q) - 1 /\ \A k \in 1 .. Len(q) - 1 : Tail(q)[k] = q[k + 1]
  OBVIOUS
<1>1. /\ d <= e + 1 /\ Len(q) >= c /\ c \in Int /\ c >= 1
      /\ \A k \in 1 .. e - d + 1 : q[k].op = "delete" /\ q[k].id.index = d + k - 1
      /\ q[c].op = "last" /\ q[c].id.index = f - 1
      /\ \/ f = Len(v) /\ Len(q) = c
         \/ f < Len(v) /\ PutsLeft(v, q, c, f)
  BY DEF CuttingAt, DeletesLeft, ThenPuts
<1> DEFINE b == c - 1
<1>2. ASSUME f < Len(v), c >= 1, PutsLeft(v, q, c, f)
      PROVE  PutsLeft(v, Tail(q), b, f) /\ Len(q) > c
  <2>1. /\ Len(q) = c + Len(v) - f + 1 /\ q[Len(q)].op = "last" /\ q[Len(q)].id = LastOf(v)
        /\ \A k \in 1 .. Len(v) - f : q[c + k].op = "put" /\ q[c + k].id = IdAt(v, f + k - 1)
    BY <1>2 DEF PutsLeft
  <2>2. Len(Tail(q)) = b + Len(v) - f + 1 /\ Len(q) > c
    BY <1>0, <1>1, <1>2, <2>1
  <2>3. ASSUME NEW k \in 1 .. Len(v) - f
        PROVE  Tail(q)[b + k].op = "put" /\ Tail(q)[b + k].id = IdAt(v, f + k - 1)
    <3>1. b + k \in 1 .. Len(q) - 1 /\ (b + k) + 1 = c + k
      <4>1. /\ c \in Int /\ c >= 1 /\ Len(v) \in Int /\ f \in Int /\ k \in Int /\ k >= 1
            /\ k <= Len(v) - f /\ Len(q) = c + Len(v) - f + 1 /\ b = c - 1
        BY <1>0, <1>1, <2>1
      <4> HIDE DEF c, b
      <4> QED BY <4>1
    <3>2. Tail(q)[b + k] = q[c + k]
      BY <1>0, <3>1
    <3> QED BY <2>1, <3>2
  <2>4. Tail(q)[Len(Tail(q))] = q[Len(q)]
    <3>1. Len(q) - 1 \in 1 .. Len(q) - 1 /\ (Len(q) - 1) + 1 = Len(q)
      BY <1>0, <1>1, <2>2
    <3> QED BY <1>0, <3>1
  <2> QED BY <2>1, <2>2, <2>3, <2>4 DEF PutsLeft
<1>3. CASE d = e + 1
  <2>1. c = 1 /\ b = 0
    BY <1>3
  <2>2. f < Len(v) /\ PutsLeft(v, q, c, f) => Len(q) >= 2 /\ PutsLeft(v, Tail(q), 0, f)
    BY <1>0, <1>1, <1>2, <2>1
  <2> QED BY <1>0, <1>1, <1>3, <2>1, <2>2
<1>4. CASE d <= e
  <2>1. /\ 1 \in 1 .. e - d + 1 /\ d + 1 - 1 = d /\ c >= 2 /\ b = e - (d + 1) + 2
        /\ Len(Tail(q)) >= b
    BY <1>0, <1>1, <1>4
  <2>2. Head(q).op = "delete" /\ Head(q).id.index = d
    <3>1. q[1].op = "delete" /\ q[1].id.index = d + 1 - 1
      BY <1>1, <2>1
    <3> QED BY <1>0, <2>1, <3>1
  <2>3. DeletesLeft(e, Tail(q), d + 1)
    <3> SUFFICES ASSUME NEW k \in 1 .. e - (d + 1) + 1
                 PROVE  Tail(q)[k].op = "delete" /\ Tail(q)[k].id.index = (d + 1) + k - 1
      BY DEF DeletesLeft
    <3>1. /\ k + 1 \in 1 .. e - d + 1 /\ k \in 1 .. Len(q) - 1
          /\ d + (k + 1) - 1 = (d + 1) + k - 1
      BY <1>0, <1>1, <1>4
    <3>2. Tail(q)[k] = q[k + 1]
      BY <1>0, <3>1
    <3>3. q[k + 1].op = "delete" /\ q[k + 1].id.index = d + (k + 1) - 1
      BY <1>1, <3>1
    <3> QED BY <3>1, <3>2, <3>3
  <2>4. ThenPuts(v, Tail(q), f, b)
    <3>1. b \in 1 .. Len(q) - 1 /\ b + 1 = c
      BY <1>0, <1>1, <2>1
    <3>2. Tail(q)[b] = q[c]
      BY <1>0, <3>1
    <3>3. Len(q) = c => Len(Tail(q)) = b
      BY <1>0, <1>1
    <3> QED BY <1>1, <1>2, <3>2, <3>3 DEF ThenPuts
  <2> QED BY <1>4, <2>1, <2>2, <2>3, <2>4
<1> QED BY <1>1, <1>3, <1>4

(* The four kinds of writes.                                               *)
PutsEntry(n, s) ==
  /\ s \in 0 .. Len(view[n]) - 1 /\ last[n].index < s /\ OnDisk(log[n], view[n], s)
  /\ log'[n] = [log[n] EXCEPT ![s] = view[n][s + 1]] /\ last'[n] = last[n]
  /\ Len(io[n]) >= 2 /\ PutsLeft(view[n], Tail(io[n]), 0, s + 1)

EndsAppend(n) ==
  /\ OnDisk(log[n], view[n], Len(view[n])) /\ Len(io[n]) = 1 /\ last[n].index < Len(view[n])
  /\ log'[n] = log[n] /\ last'[n].index = Len(view[n]) - 1

DeletesEntry(n, f, d) ==
  /\ ~Led(n) /\ f \in 0 .. Len(view[n]) /\ d \in f .. last[n].index
  /\ OnDisk(log[n], view[n], f) /\ Dropped(log[n], last[n].index, view[n], f, d)
  /\ log'[n] = [log[n] EXCEPT ![d] = Absent] /\ last'[n] = last[n] /\ Len(io[n]) >= 2
  /\ Len(Tail(io[n])) >= last[n].index - (d + 1) + 2
  /\ DeletesLeft(last[n].index, Tail(io[n]), d + 1)
  /\ ThenPuts(view[n], Tail(io[n]), f, last[n].index - (d + 1) + 2)

EndsCut(n, f) ==
  /\ ~Led(n) /\ f \in 0 .. Len(view[n]) /\ f <= last[n].index
  /\ OnDisk(log[n], view[n], f) /\ \A i \in f .. last[n].index : log[n][i] = Absent
  /\ log'[n] = log[n] /\ last'[n].index = f - 1
  /\ \/ f = Len(view[n]) /\ Len(io[n]) = 1
     \/ f < Len(view[n]) /\ Len(io[n]) >= 2 /\ PutsLeft(view[n], Tail(io[n]), 0, f)

(* A step of a server's writes is one of them.                             *)
LEMMA ExecuteIs ==
  ASSUME LogTyped, IoInv, NEW n \in Server, Execute(n)
  PROVE  /\ up[n] /\ io[n] # <<>> /\ io' = [io EXCEPT ![n] = Tail(@)]
         /\ matched' = Match(Head(io[n]).ack, n)
         /\ UNCHANGED <<vote, up, view, committed, elected, torn, crashes>>
         /\ \A m \in Server \ {n} : log'[m] = log[m] /\ last'[m] = last[m]
         /\ \/ \E s \in 0 .. MaxIndex : PutsEntry(n, s)
            \/ EndsAppend(n)
            \/ \E f \in 0 .. MaxIndex + 1, d \in 0 .. MaxIndex : DeletesEntry(n, f, d)
            \/ \E f \in 0 .. MaxIndex + 1 : EndsCut(n, f)
<1> DEFINE c == Head(io[n])
           e == last[n].index
           v == view[n]
           q == io[n]
           L == log[n]
<1>0. /\ MaxTerm \in Nat /\ MaxIndex \in Nat /\ e \in -1 .. MaxIndex /\ e \in Int
      /\ v \in Seq(Nat) /\ Len(v) \in 0 .. MaxIndex + 1 /\ q \in Seq(Command)
      /\ L \in [Index -> {Absent} \cup 0 .. MaxTerm]
  <2>1. MaxTerm \in Nat /\ MaxIndex \in Nat
    BY BoundsAssumption
  <2>2. e \in -1 .. MaxIndex
    BY <2>1 DEF LogTyped, LogId, NoId, Index
  <2>3. v \in Seq(0 .. MaxTerm) /\ Len(v) <= MaxIndex + 1 /\ q \in Seq(Command)
        /\ L \in [Index -> {Absent} \cup 0 .. MaxTerm]
    BY DEF LogTyped
  <2>4. v \in Seq(Nat) /\ Len(v) \in Nat
    BY <2>1, <2>3
  <2> QED BY <2>1, <2>2, <2>3, <2>4
<1>1. /\ up[n] /\ q # <<>> /\ io' = [io EXCEPT ![n] = Tail(@)]
      /\ matched' = Match(c.ack, n)
      /\ UNCHANGED <<vote, up, view, committed, elected, torn, crashes>>
      /\ \/ /\ c.op \in {"put", "delete"} /\ last' = last
            /\ log' = [log EXCEPT ![n][c.id.index] = IF c.op = "put" THEN c.id.term ELSE Absent]
         \/ c.op = "last" /\ last' = [last EXCEPT ![n] = c.id] /\ log' = log
  BY DEF Execute, histVars
<1>2. \A m \in Server \ {n} : log'[m] = log[m] /\ last'[m] = last[m]
  BY <1>1 DEF LogTyped
<1>3. /\ c.op = "put" => log'[n] = [L EXCEPT ![c.id.index] = c.id.term] /\ last'[n] = last[n]
      /\ c.op = "delete" => log'[n] = [L EXCEPT ![c.id.index] = Absent] /\ last'[n] = last[n]
      /\ c.op = "last" => log'[n] = L /\ last'[n] = c.id
  BY <1>1 DEF LogTyped
<1>4. Writing(n)
  BY <1>1 DEF IoInv, DiskOK
<1>5. LastOf(v).index = Len(v) - 1
  <2>1. CASE v = <<>>
    BY <2>1 DEF LastOf, NoId
  <2>2. CASE v # <<>>
    BY <1>0, <2>2, LastIs
  <2> QED BY <2>1, <2>2
<1> HIDE DEF c, e, v, q, L
<1>6. CASE Appending(L, e, v, q)
  <2>1. ASSUME NEW s \in 0 .. Len(v) - 1, c.op = "put", c.id = IdAt(v, s), e < s,
               OnDisk(L, v, s), Len(q) >= 2, PutsLeft(v, Tail(q), 0, s + 1)
        PROVE  s \in 0 .. MaxIndex /\ PutsEntry(n, s)
    <3>1. c.id.index = s /\ c.id.term = v[s + 1]
      BY <2>1 DEF IdAt
    <3>2. s \in 0 .. MaxIndex
      BY <1>0
    <3>3. log'[n] = [L EXCEPT ![s] = v[s + 1]] /\ last'[n] = last[n]
      BY <1>3, <2>1, <3>1
    <3> QED BY <2>1, <3>2, <3>3 DEF PutsEntry, e, v, q, L
  <2>2. ASSUME c.op = "last", c.id = LastOf(v), Len(q) = 1, OnDisk(L, v, Len(v)), e < Len(v)
        PROVE  EndsAppend(n)
    BY <1>3, <1>5, <2>2 DEF EndsAppend, c, e, v, q, L
  <2>3. \/ \E s \in 0 .. Len(v) - 1 :
              /\ c.op = "put" /\ c.id = IdAt(v, s) /\ e < s /\ OnDisk(L, v, s)
              /\ Len(q) >= 2 /\ PutsLeft(v, Tail(q), 0, s + 1)
        \/ /\ c.op = "last" /\ c.id = LastOf(v) /\ Len(q) = 1
           /\ OnDisk(L, v, Len(v)) /\ e < Len(v)
    BY <1>0, <1>1, <1>6, AppendStep DEF c, q
  <2>4. (\E s \in 0 .. MaxIndex : PutsEntry(n, s)) \/ EndsAppend(n)
    BY <2>1, <2>2, <2>3
  <2> QED BY <1>1, <1>2, <2>4 DEF c, q
<1>7. CASE ~Led(n) /\ Cutting(L, e, v, q)
  <2>1. PICK f \in 0 .. Len(v), d \in 0 .. MaxIndex + 1 : CuttingAt(L, e, v, q, f, d)
    BY <1>7 DEF Cutting
  <2>2. /\ f <= d /\ d <= e + 1 /\ f <= e /\ OnDisk(L, v, f) /\ Dropped(L, e, v, f, d)
    BY <2>1 DEF CuttingAt
  <2>3. f \in 0 .. MaxIndex + 1 /\ d \in Nat
    BY <1>0
  <2>4. \/ /\ d <= e /\ c.op = "delete" /\ c.id.index = d
           /\ Len(Tail(q)) >= e - (d + 1) + 2 /\ DeletesLeft(e, Tail(q), d + 1)
           /\ ThenPuts(v, Tail(q), f, e - (d + 1) + 2)
        \/ /\ d = e + 1 /\ c.op = "last" /\ c.id.index = f - 1
           /\ \/ f = Len(v) /\ Len(q) = 1
              \/ f < Len(v) /\ Len(q) >= 2 /\ PutsLeft(v, Tail(q), 0, f)
    BY <1>0, <1>1, <2>1, <2>3, CutStep DEF c, q
  <2>5. CASE /\ d <= e /\ c.op = "delete" /\ c.id.index = d
             /\ Len(Tail(q)) >= e - (d + 1) + 2 /\ DeletesLeft(e, Tail(q), d + 1)
             /\ ThenPuts(v, Tail(q), f, e - (d + 1) + 2)
    <3>1. d \in f .. e /\ d \in 0 .. MaxIndex
      BY <1>0, <2>2, <2>5
    <3>2. Len(q) >= 2
      BY <1>0, <1>1, <2>5, <3>1
    <3>3. DeletesEntry(n, f, d)
      BY <1>3, <1>7, <2>2, <2>5, <3>1, <3>2 DEF DeletesEntry, c, e, v, q, L
    <3> QED BY <1>1, <1>2, <2>3, <3>1, <3>3 DEF c, q
  <2>6. CASE /\ d = e + 1 /\ c.op = "last" /\ c.id.index = f - 1
             /\ \/ f = Len(v) /\ Len(q) = 1
                \/ f < Len(v) /\ Len(q) >= 2 /\ PutsLeft(v, Tail(q), 0, f)
    <3>1. \A i \in f .. e : L[i] = Absent
      <4>1. d - 1 = e
        BY <1>0, <2>6
      <4> QED BY <2>2, <4>1 DEF Dropped
    <3>2. EndsCut(n, f)
      BY <1>3, <1>7, <2>2, <2>6, <3>1 DEF EndsCut, c, e, v, q, L
    <3> QED BY <1>1, <1>2, <2>3, <3>2 DEF c, q
  <2> QED BY <2>4, <2>5, <2>6
<1> QED BY <1>4, <1>6, <1>7 DEF Writing, L, e, v, q
-----------------------------------------------------------------------------
(* The logs that writes leave are parts of those that were there.          *)
LEMMA PrefixSame ==
  ASSUME NEW a \in Seq(Nat)
  PROVE  PrefixOf(a, a)
BY DEF PrefixOf

(* A write to disk leaves a server with parts of the logs that it had, and *)
(* a leader with the same ones.                                            *)
LEMMA ExecuteLogs ==
  ASSUME LogTyped, IoInv, NEW n \in Server, Execute(n)
  PROVE  /\ Led(n) => LogsOf(n)' \subseteq LogsOf(n)
         /\ \A a \in LogsOf(n)' : \E b \in LogsOf(n) : PrefixOf(a, b)
<1> DEFINE e == last[n].index
           v == view[n]
<1>0. /\ MaxIndex \in Nat /\ e \in -1 .. MaxIndex
      /\ v \in Seq(Nat) /\ Len(v) \in Nat /\ Len(v) <= MaxIndex + 1
      /\ log[n] \in [Index -> {Absent} \cup 0 .. MaxTerm]
  <2>1. MaxTerm \in Nat /\ MaxIndex \in Nat
    BY BoundsAssumption
  <2>2. e \in -1 .. MaxIndex
    BY <2>1 DEF LogTyped, LogId, NoId, Index
  <2>3. v \in Seq(0 .. MaxTerm) /\ Len(v) <= MaxIndex + 1
        /\ log[n] \in [Index -> {Absent} \cup 0 .. MaxTerm]
    BY DEF LogTyped
  <2> QED BY <2>1, <2>2, <2>3
<1>1. up[n] /\ up'[n] /\ view'[n] = v /\ v \in LogsOf(n)
  BY ExecuteIs DEF LogsOf
<1>2. ASSUME LogsOf(n)' \subseteq LogsOf(n)
      PROVE  \A a \in LogsOf(n)' : \E b \in LogsOf(n) : PrefixOf(a, b)
  <2> TAKE a \in LogsOf(n)'
  <2>1. a \in LogsOf(n) /\ a \in Seq(Nat)
    BY <1>2, LogsTyped
  <2> QED BY <2>1, PrefixSame
<1>3. LogsOf(n)' = {v} \cup (IF Whole(n)' THEN {disk(n)'} ELSE {})
  BY <1>1 DEF LogsOf
<1> HIDE DEF v, e
<1>4. ASSUME NEW s \in 0 .. MaxIndex, PutsEntry(n, s) PROVE LogsOf(n)' \subseteq LogsOf(n)
  <2>1. last'[n] = last[n] /\ e < s /\ log'[n] = [log[n] EXCEPT ![s] = v[s + 1]]
    BY <1>4 DEF PutsEntry, e, v
  <2>2. \A i \in 0 .. e : log'[n][i] = log[n][i]
    BY <1>0, <2>1 DEF Index
  <2>3. Whole(n)' <=> Whole(n)
    BY <2>1, <2>2 DEF Whole, e
  <2>4. disk(n)' = disk(n)
    <3>1. \A i \in 1 .. e + 1 : log'[n][i - 1] = log[n][i - 1]
      BY <1>0, <2>2
    <3> QED BY <2>1, <3>1 DEF disk, e
  <2> QED BY <1>1, <1>3, <2>3, <2>4 DEF LogsOf
<1>5. CASE EndsAppend(n)
  <2>1. last'[n].index + 1 = Len(v) /\ log'[n] = log[n] /\ \A i \in 0 .. Len(v) - 1 : log[n][i] = v[i + 1]
    BY <1>0, <1>5 DEF EndsAppend, OnDisk, v
  <2>2. \A i \in 1 .. Len(v) : log[n][i - 1] = v[i]
    <3> TAKE i \in 1 .. Len(v)
    <3>1. i - 1 \in 0 .. Len(v) - 1 /\ (i - 1) + 1 = i
      BY <1>0
    <3> QED BY <2>1, <3>1
  <2>3. disk(n)' = [i \in 1 .. Len(v) |-> log[n][i - 1]]
    BY <2>1 DEF disk
  <2>4. v = [i \in 1 .. Len(v) |-> v[i]]
    BY <1>0
  <2>5. disk(n)' = v
    BY <2>2, <2>3, <2>4
  <2>6. LogsOf(n)' \subseteq LogsOf(n)
    BY <1>1, <1>3, <2>5
  <2> QED BY <1>2, <2>6
<1>6. ASSUME NEW f \in 0 .. MaxIndex + 1, NEW d \in 0 .. MaxIndex, DeletesEntry(n, f, d)
      PROVE  LogsOf(n)' \subseteq LogsOf(n)
  <2>1. last'[n] = last[n] /\ d \in f .. e /\ log'[n] = [log[n] EXCEPT ![d] = Absent]
    BY <1>6 DEF DeletesEntry, e
  <2>2. log'[n][d] = Absent /\ d \in 0 .. last'[n].index
    BY <1>0, <2>1 DEF Index, e
  <2>3. ~Whole(n)'
    BY <2>2 DEF Whole
  <2> QED BY <1>1, <1>3, <2>3
<1>7. ASSUME NEW f \in 0 .. MaxIndex + 1, EndsCut(n, f)
      PROVE  ~Led(n) /\ \A a \in LogsOf(n)' : \E b \in LogsOf(n) : PrefixOf(a, b)
  <2>1. /\ ~Led(n) /\ last'[n].index + 1 = f /\ log'[n] = log[n] /\ f \in 0 .. Len(v)
        /\ \A i \in 0 .. f - 1 : log[n][i] = v[i + 1]
    BY <1>7 DEF EndsCut, OnDisk, v
  <2>2. disk(n)' = [i \in 1 .. f |-> log[n][i - 1]]
    BY <2>1 DEF disk
  <2>3. \A i \in 1 .. f : log[n][i - 1] = v[i]
    <3> TAKE i \in 1 .. f
    <3>1. i - 1 \in 0 .. f - 1 /\ (i - 1) + 1 = i
      BY <1>0
    <3> QED BY <2>1, <3>1
  <2>4. Len(disk(n)') = f /\ \A i \in 1 .. f : disk(n)'[i] = v[i]
    BY <2>2, <2>3
  <2>5. PrefixOf(disk(n)', v) /\ PrefixOf(v, v)
    BY <1>0, <2>1, <2>4, PrefixSame DEF PrefixOf
  <2> QED BY <1>1, <1>3, <2>1, <2>5
<1> QED BY <1>2, <1>4, <1>5, <1>6, <1>7, ExecuteIs

(* Steps after which a server's logs are some of those it had.             *)
LEMMA SubShrinks ==
  ASSUME LogTyped, VoteType, elected' = elected,
         \A m \in Server : vote'[m].term >= vote[m].term,
         \A m \in Server : Led(m)' => Led(m) /\ vote'[m] = vote[m],
         \A m \in Server : LogsOf(m)' \subseteq LogsOf(m)
  PROVE  Shrinks
<1>1. ASSUME NEW m \in Server, NEW a \in LogsOf(m)' PROVE \E b \in LogsOf(m) : PrefixOf(a, b)
  <2>1. a \in LogsOf(m) /\ a \in Seq(Nat)
    BY LogsTyped
  <2> QED BY <2>1, PrefixSame
<1> QED BY <1>1 DEF Shrinks

(* A write to disk adds no entry that was not in memory.                   *)
LEMMA ExecuteShrinks ==
  ASSUME LogTyped, VoteType, IoInv, NEW n \in Server, Execute(n)
  PROVE  Shrinks
<1>1. /\ UNCHANGED <<vote, up, view, elected>>
      /\ \A m \in Server \ {n} : log'[m] = log[m] /\ last'[m] = last[m]
  BY ExecuteIs
<1>2. \A m \in Server \ {n} : LogsOf(m)' = LogsOf(m)
  BY <1>1, SameLogs
<1>3. ASSUME NEW m \in Server, NEW a \in LogsOf(m)' PROVE \E b \in LogsOf(m) : PrefixOf(a, b)
  <2>1. CASE m = n
    BY <2>1, ExecuteLogs
  <2>2. CASE m # n
    <3>1. a \in LogsOf(m) /\ a \in Seq(Nat)
      BY <1>2, <2>2, LogsTyped
    <3> QED BY <3>1, PrefixSame
  <2> QED BY <2>1, <2>2
<1>4. \A m \in Server : Led(m)' => Led(m) /\ LogsOf(m)' \subseteq LogsOf(m)
  <2>1. \A m \in Server : Led(m)' <=> Led(m)
    BY <1>1 DEF Led
  <2> QED BY <1>2, <2>1, ExecuteLogs
<1>5. \A m \in Server : vote'[m] = vote[m] /\ vote'[m].term >= vote[m].term
  BY <1>1 DEF VoteType, Vote
<1> QED BY <1>1, <1>3, <1>4, <1>5 DEF Shrinks

(* A crash leaves only what is on disk.                                    *)
LEMMA CrashShrinks ==
  ASSUME LogTyped, VoteType, NEW n \in Server, Crash(n)
  PROVE  Shrinks
<1>1. UNCHANGED <<log, last, vote, elected>> /\ up' = [up EXCEPT ![n] = FALSE]
      /\ view' = [view EXCEPT ![n] = <<>>]
  BY DEF Crash, diskVars
<1>2. \A m \in Server : vote'[m] = vote[m] /\ vote'[m].term >= vote[m].term
  BY <1>1 DEF VoteType, Vote
<1>3. \A m \in Server : Led(m)' <=> Led(m)
  BY <1>1 DEF Led
<1>4. ASSUME NEW m \in Server PROVE LogsOf(m)' \subseteq LogsOf(m)
  <2>1. CASE m = n
    <3>1. ~up'[n]
      BY <1>1 DEF LogTyped
    <3>2. (Whole(n)' <=> Whole(n)) /\ disk(n)' = disk(n)
      BY <1>1 DEF Whole, disk
    <3> QED BY <2>1, <3>1, <3>2 DEF LogsOf
  <2>2. CASE m # n
    <3>1. up'[m] = up[m] /\ view'[m] = view[m]
      BY <1>1, <2>2 DEF LogTyped
    <3> QED BY <1>1, <3>1, SameLogs
  <2> QED BY <2>1, <2>2
<1> QED BY <1>1, <1>2, <1>3, <1>4, SubShrinks

(* A restarted server knows what it has on disk.                           *)
LEMMA RestartReads ==
  ASSUME LogTyped, IoInv, NEW n \in Server, Restart(n)
  PROVE  Whole(n) /\ get_log_state(n) = disk(n)
<1> DEFINE e == last[n].index
<1>0. e \in -1 .. MaxIndex /\ MaxIndex \in Nat /\ MaxTerm \in Nat
  BY BoundsAssumption DEF LogTyped, LogId, NoId, Index
<1>1. Truthful(n) /\ \A i \in 0 .. e - 1 : log[n][i] # Absent
  BY DEF Restart, IoInv, DiskOK
<1>2. e >= 0 => log[n][e] = last[n].term /\ last[n].term # Absent
  <2> SUFFICES ASSUME e >= 0 PROVE log[n][e] = last[n].term /\ last[n].term # Absent
    OBVIOUS
  <2>1. last[n] # NoId
    BY DEF NoId
  <2>2. last[n].term \in 0 .. MaxTerm
    BY <2>1 DEF LogTyped, LogId
  <2> QED BY <1>0, <1>1, <2>1, <2>2 DEF Truthful, Absent
<1>3. Whole(n)
  <2> SUFFICES ASSUME NEW i \in 0 .. e PROVE log[n][i] # Absent
    BY DEF Whole
  <2>1. i \in 0 .. e - 1 \/ (i = e /\ e >= 0)
    BY <1>0
  <2> QED BY <1>1, <1>2, <2>1
<1>4. \A i \in 1 .. e + 1 : (IF i = e + 1 THEN last[n].term ELSE log[n][i - 1]) = log[n][i - 1]
  <2> TAKE i \in 1 .. e + 1
  <2>1. i = e + 1 => i - 1 = e /\ e >= 0
    BY <1>0
  <2> QED BY <1>2, <2>1
<1>5. get_log_state(n) = disk(n)
  BY <1>4 DEF get_log_state, disk
<1> QED BY <1>3, <1>5

(* get_initial_state reads the log that was on disk.                       *)
LEMMA RestartShrinks ==
  ASSUME LogTyped, VoteType, IoInv, NEW n \in Server, Restart(n)
  PROVE  Shrinks
<1>1. /\ UNCHANGED <<log, last, elected>> /\ up' = [up EXCEPT ![n] = TRUE]
      /\ view' = [view EXCEPT ![n] = get_log_state(n)]
  BY DEF Restart, histVars
<1>2. vote' = vote
  BY DEF Restart, read_vote, VoteType
<1>3. \A m \in Server : vote'[m] = vote[m] /\ vote'[m].term >= vote[m].term
  BY <1>2 DEF VoteType, Vote
<1>4. \A m \in Server : Led(m)' <=> Led(m)
  BY <1>2 DEF Led
<1>5. ASSUME NEW m \in Server PROVE LogsOf(m)' \subseteq LogsOf(m)
  <2>1. CASE m = n
    <3>1. Whole(n) /\ view'[n] = disk(n)
      BY <1>1, RestartReads DEF LogTyped
    <3>2. (Whole(n)' <=> Whole(n)) /\ disk(n)' = disk(n)
      BY <1>1 DEF Whole, disk
    <3> QED BY <2>1, <3>1, <3>2 DEF LogsOf
  <2>2. CASE m # n
    <3>1. up'[m] = up[m] /\ view'[m] = view[m]
      BY <1>1, <2>2 DEF LogTyped
    <3> QED BY <1>1, <3>1, SameLogs
  <2> QED BY <2>1, <2>2
<1> QED BY <1>1, <1>3, <1>4, <1>5, SubShrinks

(* An election without a quorum only raises votes.                         *)
LEMMA LoseShrinks ==
  ASSUME VoteInv, LogTyped, NEW n \in Server, NEW Q \in SUBSET Server, Elect(n, Q),
         Q \cup {n} \notin Quorum
  PROVE  Shrinks
<1> DEFINE t == vote[n].term + 1
<1>1. Elects(n, Q, t) /\ UNCHANGED <<elected, view, io>>
  BY ElectIs DEF VoteInv
<1>2. UNCHANGED <<log, last, up>> /\ t \in Int
  BY <1>1 DEF Elects
<1> HIDE DEF t
<1>3. \A m \in Server : LogsOf(m)' \subseteq LogsOf(m)
  BY <1>1, <1>2, SameLogs
<1>4. ASSUME NEW m \in Server
      PROVE  vote'[m].term >= vote[m].term /\ (Led(m)' => Led(m) /\ vote'[m] = vote[m])
  <2>1. vote[m].term \in Int
    BY DEF VoteInv, VoteType, Vote
  <2>2. CASE m \in Q \cup {n}
    <3>1. ~vote'[m].committed
      <4>1. CASE m = n
        <5>1. vote'[n].committed = (Q \cup {n} \in Quorum)
          BY <1>1 DEF Elects
        <5> QED BY <4>1, <5>1
      <4>2. CASE m \in Q
        BY <1>1, <4>2 DEF Elects
      <4> QED BY <2>2, <4>1, <4>2
    <3>2. vote'[m].term = t /\ vote[m].term < t
      BY <1>1, <2>2 DEF Elects
    <3> QED BY <1>2, <2>1, <3>1, <3>2 DEF Led
  <2>3. CASE m \notin Q \cup {n}
    BY <1>1, <2>1, <2>3 DEF Elects, Led
  <2> QED BY <2>2, <2>3
<1> QED BY <1>1, <1>3, <1>4, SubShrinks DEF VoteInv

(* A refused leader leads no more: the vote it takes is not for itself.    *)
LEMMA HigherIs ==
  ASSUME VoteInv, OwnVote, NEW l \in Server, NEW p \in Server, Leader(l), HigherVote(l, p)
  PROVE  /\ vote' = [vote EXCEPT ![l] = vote[p]] /\ vote[p].term >= vote[l].term
         /\ vote[p].node # l
         /\ UNCHANGED <<log, last, up, view, io, committed, elected, torn, crashes>>
         /\ matched' = [matched EXCEPT ![l] = NoMatch]
<1>1. convert_vote(to_proto_vote(vote[p])) = vote[p]
  BY DEF convert_vote, to_proto_vote, VoteInv, VoteType, Vote
<1>2. /\ ~VoteGE(vote[l], vote[p]) /\ vote' = [vote EXCEPT ![l] = vote[p]]
      /\ UNCHANGED <<log, last, up, view, io, committed, elected, torn, crashes>>
      /\ matched' = [matched EXCEPT ![l] = NoMatch]
  BY <1>1 DEF HigherVote, convert_append_entries_response, histVars
<1>3. vote[p].term >= vote[l].term
  BY <1>2 DEF VoteGE, VoteInv, VoteType, Vote
<1>4. vote[p].node # l
  <2> SUFFICES ASSUME vote[p].node = l PROVE FALSE
    OBVIOUS
  <2>1. vote[l].term >= vote[p].term
    BY DEF OwnVote
  <2>2. vote[l].term = vote[p].term
    BY <1>3, <2>1 DEF VoteInv, VoteType, Vote
  <2> QED BY <1>2, <2>2 DEF VoteGE, Leader
<1> QED BY <1>2, <1>3, <1>4

(* A leader that learns of a higher vote steps down and keeps its log.     *)
LEMMA HigherShrinks ==
  ASSUME VoteInv, LogTyped, OwnVote, NEW l \in Server, NEW p \in Server, Leader(l), HigherVote(l, p)
  PROVE  Shrinks
<1>1. /\ vote' = [vote EXCEPT ![l] = vote[p]] /\ vote[p].term >= vote[l].term
      /\ vote[p].node # l /\ UNCHANGED <<log, last, up, view, elected>>
  BY HigherIs
<1>2. \A m \in Server : LogsOf(m)' \subseteq LogsOf(m)
  BY <1>1, SameLogs
<1>3. \A m \in Server : vote'[m].term >= vote[m].term
  BY <1>1 DEF VoteInv, VoteType, Vote
<1>4. \A m \in Server : Led(m)' => Led(m) /\ vote'[m] = vote[m]
  BY <1>1 DEF VoteInv, VoteType, Led
<1> QED BY <1>1, <1>2, <1>3, <1>4, SubShrinks DEF VoteInv
-----------------------------------------------------------------------------
(* The three outcomes of append_entries, when leader and follower have     *)
(* nothing left to write.                                                  *)
AgreeTo(l, p, f) == \A i \in 0 .. f - 1 : i < Len(view[p]) /\ view[p][i + 1] = view[l][i + 1]
DifferAt(l, p, f) == f < Len(view[p]) => view[p][f + 1] # view[l][f + 1]

(* When the entry before the first one sent is in both logs, so is         *)
(* everything before it.                                                   *)
LEMMA AgreeFrom ==
  ASSUME LogTyped, LogsMatch, IoInv, NEW l \in Server, NEW p \in Server, Idle(l), Idle(p),
         NEW prev \in -1 .. MaxIndex, NEW f \in Nat, prev < f, f <= Len(view[l]),
         Agreed(l, p, prev), HasRange(l, p, prev + 1, f - 1)
  PROVE  AgreeTo(l, p, f)
<1> DEFINE a == view[p]
           b == view[l]
<1>0. a \in Seq(Nat) /\ b \in Seq(Nat) /\ Matching(a, b) /\ Len(a) \in Nat /\ Len(b) \in Nat
      /\ prev \in Int /\ prev >= -1
  <2>1. a \in LogsOf(p) /\ b \in LogsOf(l)
    BY DEF LogsOf, Idle
  <2>2. a \in Seq(Nat) /\ b \in Seq(Nat)
    BY <2>1, LogsTyped
  <2>3. Matching(a, b)
    BY <2>1 DEF LogsMatch, Logs
  <2> QED BY <2>2, <2>3
<1>1. \A i \in 0 .. Len(b) - 1 : log[l][i] = b[i + 1]
  BY IdleLogs DEF Idle
<1> SUFFICES ASSUME NEW i \in 0 .. f - 1 PROVE i < Len(a) /\ a[i + 1] = b[i + 1]
  BY DEF AgreeTo
<1>2. CASE i > prev
  <2>1. i \in prev + 1 .. f - 1 /\ i \in 0 .. Len(b) - 1
    BY <1>0, <1>2
  <2>2. i < Len(a) /\ a[i + 1] = log[l][i]
    BY <2>1 DEF HasRange
  <2> QED BY <1>1, <2>1, <2>2
<1>3. CASE i <= prev
  <2>1. prev < Len(a) /\ a[prev + 1] = b[prev + 1]
    BY <1>0, <1>3 DEF Agreed
  <2>2. prev + 1 \in 1 .. Len(a) /\ prev + 1 <= Len(b) /\ i + 1 \in 1 .. prev + 1
    <3>1. prev \in Int /\ i \in Nat /\ f \in Nat /\ i <= prev /\ prev < f /\ f <= Len(b)
          /\ Len(a) \in Nat /\ Len(b) \in Nat /\ prev < Len(a)
      BY <1>0, <1>3, <2>1
    <3> HIDE DEF a, b
    <3> QED BY <3>1
  <2>3. a[i + 1] = b[i + 1]
    BY <1>0, <2>1, <2>2 DEF Matching
  <2> QED BY <1>0, <1>3, <2>1, <2>3
<1> QED BY <1>0, <1>2, <1>3

HasAll(l, p, hi) ==
  /\ AgreeTo(l, p, hi + 1) /\ matched' = Match({[to |-> l, index |-> hi]}, p)
  /\ UNCHANGED <<view, io>>

Adopts(l, p, hi, f) ==
  /\ f \in 0 .. hi /\ f <= Len(view[p]) /\ AgreeTo(l, p, f) /\ DifferAt(l, p, f)
  /\ view' = [view EXCEPT ![p] = SubSeq(view[l], 1, hi + 1)]
  /\ io' = [io EXCEPT ![p] = CutAt(p, f)
                             \o ThenAnswer(append_to_log(get_entries(l, f, hi)), l, hi)]
  /\ matched' = [matched EXCEPT ![p] = NoMatch]

Drops(l, p, f) ==
  /\ f \in 0 .. Len(view[l]) - 1 /\ DifferAt(l, p, f)
  /\ view' = [view EXCEPT ![p] = IF f < Len(@) THEN SubSeq(@, 1, f) ELSE @]
  /\ io' = [io EXCEPT ![p] = CutAt(p, f)]
  /\ matched' = [matched EXCEPT ![p] = NoMatch]

(* append_entries has one of the three outcomes.                           *)
LEMMA AppendDoes ==
  ASSUME LogTyped, VoteType, LogsMatch, IoInv, NEW l \in Server, NEW p \in Server,
         Idle(l), Idle(p), NEW prev \in -1 .. MaxIndex, NEW hi \in Index, prev < hi,
         AppendEntries(l, p, prev, hi)
  PROVE  /\ hi < Len(view[l])
         /\ \/ HasAll(l, p, hi)
            \/ \E f \in 0 .. hi : Adopts(l, p, hi, f)
            \/ Drops(l, p, prev)
<1> DEFINE a == view[p]
           b == view[l]
<1>0. /\ MaxIndex \in Nat /\ hi \in Nat /\ prev \in Int /\ prev >= -1 /\ hi < Len(b)
      /\ a \in Seq(Nat) /\ b \in Seq(Nat) /\ Len(a) \in Nat /\ Len(b) \in Nat
  <2>1. a \in LogsOf(p) /\ b \in LogsOf(l)
    BY DEF LogsOf, Idle
  <2>2. a \in Seq(Nat) /\ b \in Seq(Nat)
    BY <2>1, LogsTyped
  <2>3. hi < Len(b)
    BY AppendIs
  <2> QED BY <2>2, <2>3, BoundsAssumption DEF Index
<1>1. \A i \in 0 .. Len(b) - 1 : log[l][i] = b[i + 1]
  BY IdleLogs DEF Idle
<1>2. CASE NothingNew(l, p, prev, hi)
  <2>1. /\ Agreed(l, p, prev) /\ HasRange(l, p, prev + 1, (hi + 1) - 1)
        /\ matched' = Match({[to |-> l, index |-> hi]}, p) /\ UNCHANGED <<view, io>>
    <3>1. (hi + 1) - 1 = hi
      BY <1>0
    <3> QED BY <1>2, <3>1 DEF NothingNew
  <2>2. hi + 1 \in Nat /\ prev < hi + 1 /\ hi + 1 <= Len(b)
    BY <1>0
  <2>3. AgreeTo(l, p, hi + 1)
    BY <2>1, <2>2, AgreeFrom
  <2> QED BY <1>0, <2>1, <2>3 DEF HasAll
<1>3. ASSUME NEW f \in prev + 1 .. hi, AppendsFrom(l, p, prev, hi, f)
      PROVE  f \in 0 .. hi /\ Adopts(l, p, hi, f)
  <2> DEFINE ts == [k \in 1 .. hi - f + 1 |-> log[l][f + k - 1]]
             w  == SubSeq(b, 1, hi + 1)
  <2>1. f \in 0 .. Len(a) /\ f \in Nat /\ f \in 0 .. hi /\ prev < f /\ f <= Len(b)
    <3>1. f \in 0 .. Len(a)
      BY <1>3, FromWithin
    <3> QED BY <1>0, <3>1
  <2>2. AgreeTo(l, p, f)
    BY <1>3, <2>1, AgreeFrom DEF AppendsFrom
  <2>3. DifferAt(l, p, f)
    <3>1. log[l][f] = b[f + 1]
      BY <1>0, <1>1, <2>1
    <3> QED BY <1>3, <3>1 DEF AppendsFrom, DifferAt
  <2>4. ts \in Seq(Nat) /\ Len(ts) = hi - f + 1
        /\ \A k \in 1 .. hi - f + 1 : ts[k] = b[f + k]
    <3>1. \A k \in 1 .. hi - f + 1 : f + k - 1 \in 0 .. Len(b) - 1 /\ (f + k - 1) + 1 = f + k
                                    /\ f + k \in 1 .. Len(b)
      BY <1>0, <2>1
    <3>2. \A k \in 1 .. hi - f + 1 : log[l][f + k - 1] = b[f + k] /\ b[f + k] \in Nat
      BY <1>0, <1>1, <3>1, ElementOf
    <3>3. ts \in [1 .. hi - f + 1 -> Nat]
      BY <3>2
    <3>5. hi - f + 1 \in Nat
      BY <1>0, <2>1
    <3>4. \A k \in 1 .. hi - f + 1 : ts[k] = b[f + k]
      BY <3>2
    <3> HIDE DEF ts
    <3> QED BY <3>3, <3>4, <3>5, SeqIs
  <2> HIDE DEF ts, a, b
  <2>5. SubSeq(a, 1, f) \in Seq(Nat) /\ Len(SubSeq(a, 1, f)) = f
        /\ \A k \in 1 .. f : SubSeq(a, 1, f)[k] = a[k]
    BY <1>0, <2>1, PrefixIs
  <2>6. w \in Seq(Nat) /\ Len(w) = hi + 1 /\ \A k \in 1 .. hi + 1 : w[k] = b[k]
    <3>1. hi + 1 \in 0 .. Len(b)
      BY <1>0
    <3> QED BY <1>0, <3>1, PrefixIs
  <2> DEFINE s == SubSeq(a, 1, f)
             u == s \o ts
  <2> HIDE DEF s, w
  <2>7. u \in Seq(Nat) /\ Len(u) = f + (hi - f + 1)
        /\ (\A k \in 1 .. f : u[k] = s[k])
        /\ (\A k \in 1 .. hi - f + 1 : u[f + k] = ts[k])
    <3>1. s \in Seq(Nat) /\ Len(s) = f
      BY <2>5 DEF s
    <3>2. /\ u \in Seq(Nat) /\ Len(u) = Len(s) + Len(ts)
          /\ \A k \in 1 .. Len(s) : u[k] = s[k]
          /\ \A k \in 1 .. Len(ts) : u[Len(s) + k] = ts[k]
      <4>1. s \in Seq(Nat) /\ ts \in Seq(Nat)
        BY <2>4, <3>1
      <4> QED BY <4>1, ConcatIs
    <3> HIDE DEF u
    <3> QED BY <2>4, <3>1, <3>2
  <2> HIDE DEF u
  <2>8. u = w
    <3>1. Len(u) = hi + 1
      BY <1>0, <2>1, <2>7
    <3>2. ASSUME NEW k \in 1 .. hi + 1 PROVE u[k] = w[k]
      <4>1. CASE k \in 1 .. f
        <5>1. k - 1 \in 0 .. f - 1 /\ (k - 1) + 1 = k
          BY <2>1, <4>1
        <5>2. a[k] = b[k]
          BY <2>2, <5>1 DEF AgreeTo, a, b
        <5> QED BY <2>5, <2>6, <2>7, <4>1, <5>2 DEF s
      <4>2. CASE k > f
        <5>1. k - f \in 1 .. hi - f + 1 /\ f + (k - f) = k
          BY <1>0, <2>1, <4>2
        <5>2. u[k] = ts[k - f] /\ ts[k - f] = b[k]
          BY <2>4, <2>7, <5>1
        <5> QED BY <2>6, <5>2
      <4> QED BY <1>0, <2>1, <4>1, <4>2
    <3> QED BY <2>6, <2>7, <3>1, <3>2
  <2>9. view' = [view EXCEPT ![p] = w]
    <3>1. view' = [view EXCEPT ![p] = u]
      BY <1>3 DEF AppendsFrom, u, s, a, ts, LogTyped
    <3> QED BY <2>8, <3>1
  <2>10. f \in 0 .. hi /\ f <= Len(view[p])
    BY <2>1 DEF a
  <2>11. view' = [view EXCEPT ![p] = SubSeq(view[l], 1, hi + 1)]
    BY <2>9 DEF w, b
  <2>12. /\ io' = [io EXCEPT ![p] = CutAt(p, f)
                             \o ThenAnswer(append_to_log(get_entries(l, f, hi)), l, hi)]
         /\ matched' = [matched EXCEPT ![p] = NoMatch]
    BY <1>3 DEF AppendsFrom
  <2> QED BY <2>2, <2>3, <2>10, <2>11, <2>12 DEF Adopts
<1>4. CASE Conflicts(l, p, prev)
  <2>1. prev \in 0 .. Len(b) - 1
    BY <1>0, <1>4 DEF Conflicts
  <2>2. DifferAt(l, p, prev)
    BY <1>4 DEF Conflicts, Agreed, DifferAt
  <2> QED BY <1>0, <1>4, <2>1, <2>2 DEF Drops, Conflicts
<1> QED BY <1>0, <1>2, <1>3, <1>4, AppendIs
(* append_entries gives the follower a part of the leader's log, or of the *)
(* log that it had.                                                        *)
LEMMA AppendShrinks ==
  ASSUME VoteInv, LogTyped, LogsMatch, IoInv, NEW l \in Server, NEW p \in Server, l # p,
         Leader(l), Idle(l), Idle(p), NEW prev \in -1 .. MaxIndex, NEW hi \in Index, prev < hi,
         AppendEntries(l, p, prev, hi)
  PROVE  Shrinks
<1> DEFINE a == view[p]
           b == view[l]
<1>0. /\ a \in Seq(Nat) /\ b \in Seq(Nat) /\ Len(a) \in Nat /\ Len(b) \in Nat
      /\ a \in LogsOf(p) /\ b \in LogsOf(l) /\ hi \in Nat
  <2>1. a \in LogsOf(p) /\ b \in LogsOf(l)
    BY DEF LogsOf, Idle
  <2>2. a \in Seq(Nat) /\ b \in Seq(Nat)
    BY <2>1, LogsTyped
  <2> QED BY <2>1, <2>2 DEF Index
<1>1. /\ VoteGE(vote[l], vote[p]) /\ vote' = [vote EXCEPT ![p] = vote[l]]
      /\ UNCHANGED <<log, last, up, elected>>
  BY AppendIs DEF VoteInv
<1>2. ASSUME NEW m \in Server PROVE vote'[m].term >= vote[m].term
  BY <1>1 DEF VoteGE, VoteInv, VoteType, Vote
<1>3. LogsOf(l) = {b} /\ LogsOf(p) = {a}
  BY IdleLogs DEF Idle
<1>4. PrefixOf(view'[p], b) \/ PrefixOf(view'[p], a)
  <2>1. CASE HasAll(l, p, hi)
    BY <1>0, <2>1, PrefixSame DEF HasAll
  <2>2. ASSUME NEW f \in 0 .. hi, Adopts(l, p, hi, f), hi < Len(b) PROVE PrefixOf(view'[p], b)
    <3>1. view'[p] = SubSeq(b, 1, hi + 1) /\ hi + 1 \in 0 .. Len(b)
      BY <1>0, <2>2 DEF Adopts, LogTyped
    <3> HIDE DEF b
    <3>2. /\ Len(SubSeq(b, 1, hi + 1)) = hi + 1
          /\ \A k \in 1 .. hi + 1 : SubSeq(b, 1, hi + 1)[k] = b[k]
      BY <1>0, <3>1, PrefixIs
    <3> QED BY <3>1, <3>2 DEF PrefixOf
  <2>3. CASE Drops(l, p, prev)
    <3>1. CASE prev < Len(a)
      <4>1. view'[p] = SubSeq(a, 1, prev) /\ prev \in 0 .. Len(a)
        BY <1>0, <2>3, <3>1 DEF Drops, LogTyped
      <4> HIDE DEF a
      <4>2. /\ Len(SubSeq(a, 1, prev)) = prev
            /\ \A k \in 1 .. prev : SubSeq(a, 1, prev)[k] = a[k]
        BY <1>0, <4>1, PrefixIs
      <4> QED BY <4>1, <4>2 DEF PrefixOf
    <3>2. CASE ~(prev < Len(a))
      <4>1. view'[p] = a
        BY <2>3, <3>2 DEF Drops, LogTyped
      <4> QED BY <1>0, <4>1, PrefixSame
    <3> QED BY <3>1, <3>2
  <2>4. /\ hi < Len(b)
        /\ HasAll(l, p, hi) \/ (\E f \in 0 .. hi : Adopts(l, p, hi, f)) \/ Drops(l, p, prev)
    BY AppendDoes DEF VoteInv
  <2> QED BY <2>1, <2>2, <2>3, <2>4
<1>5. ASSUME NEW m \in Server, m # p PROVE LogsOf(m)' = LogsOf(m) /\ vote'[m] = vote[m]
  <2>1. view'[m] = view[m]
    <3>1. HasAll(l, p, hi) \/ (\E f \in 0 .. hi : Adopts(l, p, hi, f)) \/ Drops(l, p, prev)
      BY AppendDoes DEF VoteInv
    <3>2. \/ view' = view
          \/ view' = [view EXCEPT ![p] = SubSeq(view[l], 1, hi + 1)]
          \/ view' = [view EXCEPT ![p] = IF prev < Len(@) THEN SubSeq(@, 1, prev) ELSE @]
      BY <3>1 DEF HasAll, Adopts, Drops
    <3> QED BY <1>5, <3>2 DEF LogTyped
  <2> QED BY <1>1, <1>5, <2>1, SameLogs DEF VoteInv, VoteType
<1>6. vote'[p] = vote[l] /\ ~Led(p)' /\ Led(l)
  BY <1>1 DEF VoteInv, VoteType, Led, Leader
<1>7. ASSUME NEW m \in Server, Led(m)'
      PROVE  Led(m) /\ vote'[m] = vote[m] /\ LogsOf(m)' \subseteq LogsOf(m)
  BY <1>5, <1>6, <1>7 DEF Led
<1>8. ASSUME NEW x \in LogsOf(p)' PROVE PrefixOf(x, b) \/ PrefixOf(x, a)
  <2>1. x = view'[p] \/ (Whole(p)' /\ x = disk(p)')
    BY <1>8 DEF LogsOf
  <2>2. (Whole(p)' <=> Whole(p)) /\ disk(p)' = disk(p)
    BY <1>1 DEF Whole, disk
  <2>3. Whole(p) => disk(p) = a
    BY <1>3 DEF LogsOf
  <2> QED BY <1>0, <1>4, <2>1, <2>2, <2>3, PrefixSame
<1>9. ASSUME NEW m \in Server, NEW x \in LogsOf(m)'
      PROVE  \/ \E y \in LogsOf(m) : PrefixOf(x, y)
             \/ \E q \in Server : /\ q # m /\ Led(q) /\ LogsOf(q) = {view[q]}
                                  /\ vote'[m].term = vote[q].term /\ PrefixOf(x, view[q])
  <2>1. CASE m = p
    <3>1. PrefixOf(x, b) \/ PrefixOf(x, a)
      BY <1>8, <2>1
    <3> QED BY <1>0, <1>3, <1>6, <2>1, <3>1
  <2>2. CASE m # p
    <3>1. x \in LogsOf(m) /\ x \in Seq(Nat)
      BY <1>5, <2>2, LogsTyped
    <3> QED BY <3>1, PrefixSame
  <2> QED BY <2>1, <2>2
<1> QED BY <1>1, <1>2, <1>7, <1>9 DEF Shrinks
-----------------------------------------------------------------------------
(* What the acknowledgement of a write tells the leaders.                  *)
LEMMA MatchIs ==
  ASSUME LogTyped, NEW acks, NEW n \in Server
  PROVE  /\ \A l, q \in Server : q # n \/ ~Leader(l) => Match(acks, n)[l][q] = matched[l][q]
         /\ \A l \in Server : ~Leader(l) => Match(acks, n)[l] = matched[l]
         /\ acks = {} => Match(acks, n) = matched
         /\ \A l, to \in Server, i \in Index :
              acks = {[to |-> to, index |-> i]} =>
                \/ Match(acks, n)[l][n] = matched[l][n]
                \/ /\ l = to /\ Leader(l) /\ VoteGE(vote[l], vote[n])
                   /\ Match(acks, n)[l][n] = i
<1> DEFINE ok(l) == \E a \in acks : /\ a.to = l /\ a.index > matched[l][n] /\ Leader(l)
                                    /\ VoteGE(vote[l], vote[n])
           r(l)  == IF ok(l) THEN (CHOOSE a \in acks : TRUE).index ELSE matched[l][n]
<1>1. Match(acks, n) = [l \in Server |-> [matched[l] EXCEPT ![n] = r(l)]]
  BY DEF Match, LogTyped
<1>2. \A l \in Server : (~Leader(l) => ~ok(l)) /\ (acks = {} => ~ok(l))
  OBVIOUS
<1>3. ASSUME NEW l \in Server, NEW to \in Server, NEW i \in Index,
             acks = {[to |-> to, index |-> i]}, ok(l)
      PROVE  l = to /\ Leader(l) /\ VoteGE(vote[l], vote[n]) /\ r(l) = i
  <2>1. PICK a \in acks : a.to = l /\ Leader(l) /\ VoteGE(vote[l], vote[n])
    BY <1>3
  <2>2. a = [to |-> to, index |-> i] /\ l = to
    BY <1>3, <2>1
  <2>3. (CHOOSE x \in acks : TRUE) = [to |-> to, index |-> i]
    BY <1>3
  <2>4. r(l) = i
    BY <1>3, <2>3
  <2> QED BY <2>1, <2>2, <2>4
<1> HIDE DEF ok
<1>4. \A l \in Server : ~ok(l) => r(l) = matched[l][n]
  OBVIOUS
<1> HIDE DEF r
<1>5. \A l \in Server : /\ matched[l] \in [Server -> {Absent} \cup Index]
                        /\ Match(acks, n)[l] = [matched[l] EXCEPT ![n] = r(l)]
                        /\ Match(acks, n)[l][n] = r(l)
  BY <1>1 DEF LogTyped
<1>6. ASSUME NEW l \in Server, ~ok(l) PROVE Match(acks, n)[l] = matched[l]
  <2>1. /\ matched[l] \in [Server -> {Absent} \cup Index]
        /\ Match(acks, n)[l] = [matched[l] EXCEPT ![n] = matched[l][n]]
    BY <1>4, <1>5, <1>6
  <2> QED BY <2>1
<1>7. \A l, q \in Server : q # n => Match(acks, n)[l][q] = matched[l][q]
  BY <1>5
<1>8. acks = {} => Match(acks, n) = matched
  <2> SUFFICES ASSUME acks = {} PROVE Match(acks, n) = matched
    OBVIOUS
  <2>1. \A l \in Server : Match(acks, n)[l] = matched[l]
    BY <1>2, <1>6
  <2>2. Match(acks, n) = [l \in Server |-> Match(acks, n)[l]]
    BY <1>1
  <2>3. matched = [l \in Server |-> matched[l]]
    BY DEF LogTyped
  <2> QED BY <2>1, <2>2, <2>3
<1>9. \A l, to \in Server, i \in Index :
        acks = {[to |-> to, index |-> i]} =>
          \/ Match(acks, n)[l][n] = matched[l][n]
          \/ /\ l = to /\ Leader(l) /\ VoteGE(vote[l], vote[n])
             /\ Match(acks, n)[l][n] = i
  <2> SUFFICES ASSUME NEW l \in Server, NEW to \in Server, NEW i \in Index,
                      acks = {[to |-> to, index |-> i]}
               PROVE  \/ Match(acks, n)[l][n] = matched[l][n]
                      \/ /\ l = to /\ Leader(l) /\ VoteGE(vote[l], vote[n])
                         /\ Match(acks, n)[l][n] = i
    OBVIOUS
  <2>1. CASE ok(l)
    <3>1. l = to /\ Leader(l) /\ VoteGE(vote[l], vote[n]) /\ r(l) = i
      BY <1>3, <2>1
    <3> QED BY <1>5, <3>1
  <2>2. CASE ~ok(l)
    BY <1>6, <2>2
  <2> QED BY <2>1, <2>2
<1> QED BY <1>2, <1>6, <1>7, <1>8, <1>9
-----------------------------------------------------------------------------
(* A server that a step does not touch.                                    *)
LEMMA IoSame ==
  ASSUME IoInv, NEW m \in Server, log'[m] = log[m], last'[m] = last[m], up'[m] = up[m],
         view'[m] = view[m], io'[m] = <<>>, io[m] = <<>>, ~up[m] => matched'[m] = NoMatch
  PROVE  DiskOK(m)'
BY DEF IoInv, DiskOK, Saved, OnDisk, Truthful

(* The writes of an append, behind those of a truncation.                  *)
EntriesOf(es, v, f) ==
  /\ es \in Seq(LogId) /\ Len(es) = Len(v) - f
  /\ \A k \in 1 .. Len(v) - f : es[k] = IdAt(v, f + k - 1)

WritesAfter(q, C, v, f, l) ==
  /\ q \in Seq(Command) /\ Len(q) = Len(C) + Len(v) - f + 1 /\ PutsLeft(v, q, Len(C), f)
  /\ \A k \in 1 .. Len(C) : q[k] = C[k]
  /\ \A k \in Len(C) + 1 .. Len(q) - 1 : q[k].ack = {}
  /\ q[Len(q)].ack = {[to |-> l, index |-> Len(v) - 1]}

(* append_to_log writes every entry and then last_log_id, which carries    *)
(* the acknowledgement.                                                    *)
LEMMA PutsAfter ==
  ASSUME NEW v \in Seq(Nat), Len(v) <= MaxIndex + 1, NEW f \in 0 .. Len(v) - 1,
         NEW es, EntriesOf(es, v, f), NEW C \in Seq(Command), NEW l \in Server
  PROVE  WritesAfter(C \o ThenAnswer(append_to_log(es), l, Len(v) - 1), C, v, f, l)
<1> DEFINE q == C \o ThenAnswer(append_to_log(es), l, Len(v) - 1)
           c == Len(C)
           m == Len(v) - f
           A == ThenAnswer(append_to_log(es), l, Len(v) - 1)
<1>0. MaxIndex \in Nat /\ Len(v) \in Nat /\ c \in Nat /\ m \in Nat /\ m >= 1
      /\ Len(v) - 1 \in Index /\ es # <<>> /\ es \in Seq(LogId)
  BY BoundsAssumption DEF Index, EntriesOf
<1>1. /\ A \in Seq(Command) /\ Len(A) = m + 1
      /\ \A k \in 1 .. m : A[k] = put_cf(es[k])
      /\ A[m + 1] = [op |-> "last", id |-> es[m], ack |-> {[to |-> l, index |-> Len(v) - 1]}]
  <2>1. Len(es) = m
    BY DEF EntriesOf
  <2> HIDE DEF m
  <2> QED BY <1>0, <2>1, AppendWrites
<1>2. q = C \o A
  OBVIOUS
<1>10. Len(es) = m /\ (\A k \in 1 .. m : es[k] = IdAt(v, f + k - 1)) /\ C \in Seq(Command)
      /\ c = Len(C) /\ m = Len(v) - f
  BY DEF EntriesOf
<1> HIDE DEF A, c, m, q
<1>3. /\ q \in Seq(Command) /\ Len(q) = c + (m + 1)
      /\ \A k \in 1 .. c : q[k] = C[k]
      /\ \A k \in 1 .. m + 1 : q[c + k] = A[k]
  <2>1. C \in Seq(Command) /\ A \in Seq(Command)
    BY <1>1
  <2>2. /\ C \o A \in Seq(Command) /\ Len(C \o A) = Len(C) + Len(A)
        /\ \A k \in 1 .. Len(C) : (C \o A)[k] = C[k]
        /\ \A k \in 1 .. Len(A) : (C \o A)[Len(C) + k] = A[k]
    BY <2>1, ConcatIs
  <2> QED BY <1>1, <1>2, <1>10, <2>2
<1>4. ASSUME NEW k \in 1 .. m
      PROVE  q[c + k].op = "put" /\ q[c + k].id = IdAt(v, f + k - 1) /\ q[c + k].ack = {}
  <2>1. q[c + k] = put_cf(es[k]) /\ es[k] = IdAt(v, f + k - 1)
    <3>1. k \in 1 .. m + 1
      BY <1>0
    <3> QED BY <1>1, <1>3, <1>10, <3>1
  <2>2. put_cf(es[k]).op = "put" /\ put_cf(es[k]).id = es[k] /\ put_cf(es[k]).ack = {}
    BY DEF put_cf
  <2> QED BY <2>1, <2>2
<1>5. /\ q[Len(q)].op = "last" /\ q[Len(q)].id = es[m]
      /\ q[Len(q)].ack = {[to |-> l, index |-> Len(v) - 1]}
  <2>1. m + 1 \in 1 .. m + 1
    BY <1>0
  <2> DEFINE x == [op |-> "last", id |-> es[m], ack |-> {[to |-> l, index |-> Len(v) - 1]}]
  <2>2. q[Len(q)] = A[m + 1] /\ A[m + 1] = x
    BY <1>1, <1>3, <2>1
  <2>3. x.op = "last" /\ x.id = es[m] /\ x.ack = {[to |-> l, index |-> Len(v) - 1]}
    OBVIOUS
  <2> HIDE DEF x
  <2> QED BY <2>2, <2>3
<1>6. es[m] = LastOf(v)
  <2>1. m \in 1 .. m /\ f + m - 1 = Len(v) - 1 /\ v # <<>>
    BY <1>0, <1>10
  <2>2. es[m] = IdAt(v, f + m - 1)
    BY <1>10, <2>1
  <2> QED BY <2>1, <2>2 DEF LastOf
<1>7. Len(q) = c + Len(v) - f + 1
  BY <1>0, <1>3, <1>10
<1>8. PutsLeft(v, q, c, f)
  BY <1>4, <1>5, <1>6, <1>7, <1>10 DEF PutsLeft
<1>9. ASSUME NEW k \in c + 1 .. Len(q) - 1 PROVE q[k].ack = {}
  <2>1. k - c \in 1 .. m /\ c + (k - c) = k
    <3>1. c \in Nat /\ m \in Nat /\ Len(q) = c + (m + 1)
      BY <1>0, <1>3
    <3> QED BY <3>1
  <2> QED BY <1>4, <2>1
<1> QED BY <1>3, <1>5, <1>7, <1>8, <1>9, <1>10 DEF q, WritesAfter

(* A leader that has entries to write.                                     *)
LEMMA ExtendIo ==
  ASSUME LogTyped, IoInv, NEW n \in Server, Idle(n), NEW t \in 0 .. MaxTerm,
         Len(view[n]) <= MaxIndex, Extend(n, [term |-> t, index |-> Len(view[n])]),
         UNCHANGED <<log, last, up>>, Leader(n)',
         \A m \in Server : ~up[m] => matched'[m] = NoMatch
  PROVE  IoInv'
<1> DEFINE v  == view[n]
           w  == Append(v, t)
           m  == Len(v)
           es == <<[term |-> t, index |-> m]>>
           q  == ThenAnswer(append_to_log(es), n, m)
<1>0. /\ MaxTerm \in Nat /\ MaxIndex \in Nat /\ v \in Seq(Nat) /\ m \in Nat /\ m <= MaxIndex /\ t \in Nat
      /\ up[n] /\ \A p \in Server : io[p] = <<>>
  BY BoundsAssumption DEF LogTyped, Idle
<1>1. view' = [view EXCEPT ![n] = w] /\ io' = [io EXCEPT ![n] = q]
  BY DEF Extend
<1>2. view'[n] = w /\ io'[n] = q /\ \A p \in Server \ {n} : view'[p] = view[p] /\ io'[p] = <<>>
  BY <1>0, <1>1 DEF LogTyped
<1>3. /\ w \in Seq(Nat) /\ Len(w) = m + 1 /\ w[m + 1] = t
      /\ \A i \in 1 .. m : w[i] = v[i]
  BY <1>0, AppendOne
<1> HIDE DEF w, v
<1>4. es \in Seq(LogId) /\ Len(es) = 1 /\ es[1] = IdAt(w, m)
  <2>1. [term |-> t, index |-> m] \in LogId
    BY <1>0 DEF LogId, Index
  <2>2. es[1] = [term |-> t, index |-> m]
    OBVIOUS
  <2> QED BY <1>3, <2>1, <2>2 DEF IdAt
<1>5. \A k \in 1 .. Len(w) - m : es[k] = IdAt(w, m + k - 1)
  <2> TAKE k \in 1 .. Len(w) - m
  <2>1. k = 1 /\ m + k - 1 = m
    BY <1>0, <1>3
  <2> QED BY <1>4, <2>1
<1> HIDE DEF es, m
<1>6. q = <<>> \o ThenAnswer(append_to_log(es), n, Len(w) - 1)
  <2>1. Len(w) - 1 = m /\ m \in Index
    BY <1>0, <1>3 DEF Index
  <2>4. es # <<>>
    BY <1>4
  <2>2. q \in Seq(Command)
    BY <1>4, <2>1, <2>4, AppendWrites
  <2>3. q = <<>> \o q
    <3> HIDE DEF q
    <3> QED BY <2>2
  <2> QED BY <2>1, <2>3
<1> HIDE DEF q
<1>7. /\ q \in Seq(Command) /\ Len(q) = 2 /\ PutsLeft(w, q, 0, m)
      /\ \A k \in 1 .. Len(q) - 1 : q[k].ack = {}
      /\ q[Len(q)].ack = {[to |-> n, index |-> Len(w) - 1]}
  <2> DEFINE C == <<>>
  <2>1. C \in Seq(Command) /\ Len(C) = 0 /\ m \in 0 .. Len(w) - 1 /\ Len(w) <= MaxIndex + 1
    BY <1>0, <1>3
  <2>4. Len(es) = Len(w) - m
    BY <1>0, <1>3, <1>4
  <2>5. q = C \o ThenAnswer(append_to_log(es), n, Len(w) - 1)
    BY <1>6
  <2> HIDE DEF C
  <2>2. /\ q \in Seq(Command) /\ Len(q) = Len(C) + Len(w) - m + 1 /\ PutsLeft(w, q, Len(C), m)
        /\ \A k \in Len(C) + 1 .. Len(q) - 1 : q[k].ack = {}
        /\ q[Len(q)].ack = {[to |-> n, index |-> Len(w) - 1]}
    <3>1. w \in Seq(Nat) /\ Len(w) <= MaxIndex + 1 /\ m \in 0 .. Len(w) - 1 /\ C \in Seq(Command)
      BY <1>3, <2>1
    <3>2. EntriesOf(es, w, m)
      BY <1>4, <1>5, <2>4 DEF EntriesOf
    <3>3. WritesAfter(q, C, w, m, n)
      BY <2>5, <3>1, <3>2, PutsAfter
    <3> QED BY <3>3 DEF WritesAfter
  <2>3. Len(q) = 2 /\ Len(C) + 1 = 1
    BY <1>0, <1>3, <2>1, <2>2
  <2> QED BY <2>1, <2>2, <2>3
<1>8. Appending(log[n], last[n].index, w, q)
  <2>1. last[n].index = m - 1 /\ \A i \in 0 .. m - 1 : log[n][i] = v[i + 1]
    BY <1>0, IdleLogs DEF m, v
  <2>2. OnDisk(log[n], w, m)
    <3> SUFFICES ASSUME NEW i \in 0 .. m - 1 PROVE log[n][i] = w[i + 1]
      BY DEF OnDisk
    <3>1. i + 1 \in 1 .. m
      BY <1>0
    <3> QED BY <1>3, <2>1, <3>1
  <2>3. last[n].index < m /\ m \in 0 .. Len(w)
    BY <1>0, <1>3, <2>1
  <2> QED BY <1>7, <2>2, <2>3 DEF Appending
<1>9. AckOK(n)'
  <2> SUFFICES ASSUME NEW k \in 1 .. Len(q), q[k].ack # {}
               PROVE  /\ k = Len(q) /\ q[k].op = "last"
                      /\ \E l \in Server : /\ q[k].ack = {[to |-> l, index |-> Len(w) - 1]}
                                           /\ Leader(l)' /\ vote'[n] = vote'[l]
                                           /\ PrefixOf(w, view'[l])
    BY <1>2 DEF AckOK
  <2>1. k = Len(q)
    <3>1. ~(k \in 1 .. Len(q) - 1)
      BY <1>7
    <3> QED BY <1>7, <3>1
  <2>2. q[k].op = "last"
    BY <1>7, <2>1 DEF PutsLeft
  <2>3. PrefixOf(w, view'[n])
    BY <1>2, <1>3, PrefixSame
  <2> QED BY <1>7, <2>1, <2>2, <2>3
<1>10. DiskOK(n)'
  <2>1. Writing(n)'
    BY <1>0, <1>2, <1>8, <1>9 DEF Writing
  <2>2. q # <<>>
    BY <1>7
  <2> QED BY <1>0, <1>2, <2>1, <2>2 DEF DiskOK
<1>11. ASSUME NEW p \in Server \ {n} PROVE DiskOK(p)'
  BY <1>0, <1>2, IoSame
<1>12. OneWriter'
  BY <1>2 DEF OneWriter
<1> QED BY <1>10, <1>11, <1>12 DEF IoInv

(* A list without its first element.                                       *)
LEMMA TailIs ==
  ASSUME NEW S, NEW q \in Seq(S), q # <<>>
  PROVE  /\ Len(q) = 1 => Tail(q) = <<>>
         /\ Len(q) >= 2 => Tail(q) # <<>>
<1>1. Len(q) \in Nat /\ Len(Tail(q)) = Len(q) - 1 /\ Tail(q) \in Seq(S)
  OBVIOUS
<1>2. \A s \in Seq(S) : (Len(s) = 0 <=> s = <<>>)
  OBVIOUS
<1> DEFINE r == Tail(q)
<1>3. Len(r) = Len(q) - 1 /\ (Len(r) = 0 <=> r = <<>>)
  BY <1>1, <1>2
<1> HIDE DEF r
<1>4. (Len(q) = 1 => r = <<>>) /\ (Len(q) >= 2 => r # <<>>)
  BY <1>1, <1>3
<1> QED BY <1>4 DEF r

(* The answer of a call still leaves with its last write.                  *)
LEMMA AckTail ==
  ASSUME LogTyped, NEW n \in Server, AckOK(n), io[n] # <<>>,
         io' = [io EXCEPT ![n] = Tail(@)], UNCHANGED <<vote, up, view>>
  PROVE  AckOK(n)'
<1> DEFINE q == io[n]
           r == Tail(q)
<1>1. q \in Seq(Command) /\ q # <<>> /\ io'[n] = r
  BY DEF LogTyped
<1>2. /\ Len(q) \in Nat /\ Len(q) >= 1 /\ Len(r) = Len(q) - 1
      /\ \A k \in 1 .. Len(q) - 1 : r[k] = q[k + 1]
  <2> HIDE DEF q
  <2> QED BY <1>1
<1>3. \A k \in 1 .. Len(q) : q[k].ack # {} =>
        /\ k = Len(q) /\ q[k].op = "last"
        /\ \E l \in Server : /\ q[k].ack = {[to |-> l, index |-> Len(view[n]) - 1]}
                             /\ Leader(l) /\ vote[n] = vote[l] /\ PrefixOf(view[n], view[l])
  BY DEF AckOK
<1>4. \A l \in Server : Leader(l)' <=> Leader(l)
  BY DEF Leader
<1> HIDE DEF q, r
<1> SUFFICES ASSUME NEW k \in 1 .. Len(r), r[k].ack # {}
             PROVE  /\ k = Len(r) /\ r[k].op = "last"
                    /\ \E l \in Server : /\ r[k].ack = {[to |-> l, index |-> Len(view[n]) - 1]}
                                         /\ Leader(l)' /\ vote[n] = vote[l]
                                         /\ PrefixOf(view[n], view[l])
  BY <1>1 DEF AckOK
<1>5. k + 1 \in 1 .. Len(q) /\ r[k] = q[k + 1] /\ k \in Nat
  BY <1>2
<1>6. k + 1 = Len(q) => k = Len(r)
  BY <1>2, <1>5
<1> QED BY <1>3, <1>4, <1>5, <1>6

(* A write leaves a shorter rest of the same command, or its result.       *)
LEMMA ExecuteIo ==
  ASSUME LogTyped, IoInv, NEW n \in Server, Execute(n)
  PROVE  IoInv'
<1> DEFINE v == view[n]
           q == io[n]
           e == last[n].index
<1>0. /\ MaxIndex \in Nat /\ v \in Seq(Nat) /\ Len(v) \in Nat /\ Len(v) <= MaxIndex + 1
      /\ e \in -1 .. MaxIndex /\ q \in Seq(Command)
      /\ log[n] \in [Index -> {Absent} \cup 0 .. MaxTerm]
  <2>1. MaxTerm \in Nat /\ MaxIndex \in Nat
    BY BoundsAssumption
  <2>2. e \in -1 .. MaxIndex
    BY <2>1 DEF LogTyped, LogId, NoId, Index
  <2> QED BY <2>1, <2>2 DEF LogTyped
<1>1. /\ up[n] /\ q # <<>> /\ io' = [io EXCEPT ![n] = Tail(@)]
      /\ matched' = Match(Head(io[n]).ack, n) /\ UNCHANGED <<vote, up, view>>
      /\ \A m \in Server \ {n} : log'[m] = log[m] /\ last'[m] = last[m]
      /\ \/ \E s \in 0 .. MaxIndex : PutsEntry(n, s)
         \/ EndsAppend(n)
         \/ \E f \in 0 .. MaxIndex + 1, d \in 0 .. MaxIndex : DeletesEntry(n, f, d)
         \/ \E f \in 0 .. MaxIndex + 1 : EndsCut(n, f)
  BY ExecuteIs
<1>2. io'[n] = Tail(q) /\ \A m \in Server \ {n} : io'[m] = <<>> /\ io[m] = <<>>
  <2>1. io'[n] = Tail(q) /\ \A m \in Server \ {n} : io'[m] = io[m]
    BY <1>1 DEF LogTyped
  <2>2. \A m \in Server \ {n} : io[m] = <<>>
    BY <1>1 DEF IoInv, OneWriter
  <2> QED BY <2>1, <2>2
<1>3. ASSUME NEW m \in Server \ {n} PROVE DiskOK(m)'
  <2>1. ~up[m] => matched'[m] = NoMatch
    <3> SUFFICES ASSUME ~up[m] PROVE matched'[m] = NoMatch
      OBVIOUS
    <3>1. matched[m] = NoMatch
      BY DEF IoInv, DiskOK
    <3>2. Match(Head(io[n]).ack, n)[m] = matched[m]
      BY MatchIs DEF Leader
    <3> QED BY <1>1, <3>1, <3>2
  <2> QED BY <1>1, <1>2, <2>1, IoSame
<1>4. AckOK(n) /\ AckOK(n)'
  <2>1. AckOK(n)
    BY <1>1 DEF IoInv, DiskOK, Writing
  <2> QED BY <1>1, <2>1, AckTail
<1>5. Len(q) >= 2 => Tail(q) # <<>>
  <2>1. q \in Seq(Command) /\ q # <<>>
    BY <1>0, <1>1
  <2> HIDE DEF q
  <2> QED BY <2>1, TailIs
<1>6. Len(q) = 1 => Tail(q) = <<>>
  <2>1. q \in Seq(Command) /\ q # <<>>
    BY <1>0, <1>1
  <2> HIDE DEF q
  <2> QED BY <2>1, TailIs
<1>7. Led(n)' <=> Led(n)
  BY <1>1 DEF Led
<1> SUFFICES DiskOK(n)'
  <2>1. OneWriter'
    BY <1>2 DEF OneWriter
  <2> QED BY <1>3, <2>1 DEF IoInv
<1>8. ASSUME Appending(log'[n], last'[n].index, v, Tail(q)), Len(q) >= 2 PROVE DiskOK(n)'
  <2>1. Writing(n)'
    BY <1>1, <1>2, <1>4, <1>8 DEF Writing
  <2> QED BY <1>1, <1>2, <1>5, <1>8, <2>1 DEF DiskOK
<1>9. ASSUME ~Led(n), Cutting(log'[n], last'[n].index, v, Tail(q)), Len(q) >= 2 PROVE DiskOK(n)'
  <2>1. Writing(n)'
    BY <1>1, <1>2, <1>4, <1>7, <1>9 DEF Writing
  <2> QED BY <1>1, <1>2, <1>5, <1>9, <2>1 DEF DiskOK
<1>10. ASSUME Len(q) = 1, last'[n].index = Len(v) - 1, OnDisk(log'[n], v, Len(v)) PROVE DiskOK(n)'
  <2>1. Saved(n)'
    BY <1>1, <1>10 DEF Saved
  <2> QED BY <1>1, <1>2, <1>6, <1>10, <2>1 DEF DiskOK
<1> HIDE DEF v, q
<1>11. ASSUME NEW s \in 0 .. MaxIndex, PutsEntry(n, s) PROVE DiskOK(n)'
  <2>1. /\ s \in 0 .. Len(v) - 1 /\ e < s /\ OnDisk(log[n], v, s)
        /\ log'[n] = [log[n] EXCEPT ![s] = v[s + 1]] /\ last'[n] = last[n]
        /\ Len(q) >= 2 /\ PutsLeft(v, Tail(q), 0, s + 1)
    BY <1>11 DEF PutsEntry, v, q
  <2>2. OnDisk(log'[n], v, s + 1)
    <3> SUFFICES ASSUME NEW i \in 0 .. (s + 1) - 1 PROVE log'[n][i] = v[i + 1]
      BY DEF OnDisk
    <3>1. s \in Index /\ i \in Index /\ (i = s \/ i \in 0 .. s - 1)
      BY <1>0 DEF Index
    <3>2. log'[n][i] = IF i = s THEN v[s + 1] ELSE log[n][i]
      BY <1>0, <2>1, <3>1
    <3> QED BY <2>1, <3>1, <3>2 DEF OnDisk
  <2>3. s + 1 \in 0 .. Len(v) /\ last'[n].index < s + 1
    <3> HIDE DEF e
    <3>1. e < s + 1 /\ s + 1 \in 0 .. Len(v)
      BY <1>0, <2>1
    <3> QED BY <2>1, <3>1 DEF e
  <2>4. Appending(log'[n], last'[n].index, v, Tail(q))
    BY <2>1, <2>2, <2>3 DEF Appending
  <2> QED BY <1>8, <2>1, <2>4
<1>12. ASSUME EndsAppend(n) PROVE DiskOK(n)'
  BY <1>10, <1>12 DEF EndsAppend, v, q
<1>13. ASSUME NEW f \in 0 .. MaxIndex + 1, NEW d \in 0 .. MaxIndex, DeletesEntry(n, f, d)
       PROVE  DiskOK(n)'
  <2>1. /\ ~Led(n) /\ f \in 0 .. Len(v) /\ d \in f .. e
        /\ OnDisk(log[n], v, f) /\ Dropped(log[n], e, v, f, d)
        /\ log'[n] = [log[n] EXCEPT ![d] = Absent] /\ last'[n] = last[n] /\ Len(q) >= 2
        /\ Len(Tail(q)) >= e - (d + 1) + 2
        /\ DeletesLeft(e, Tail(q), d + 1)
        /\ ThenPuts(v, Tail(q), f, e - (d + 1) + 2)
    BY <1>13 DEF DeletesEntry, v, q
  <2>2. \A i \in Index : log'[n][i] = IF i = d THEN Absent ELSE log[n][i]
    BY <1>0, <2>1 DEF Index
  <2>8. /\ f \in Nat /\ d \in Nat /\ e \in Int /\ MaxIndex \in Nat
        /\ f <= d /\ d <= e /\ e <= MaxIndex
    BY <1>0, <2>1
  <2> HIDE DEF e
  <2>3. OnDisk(log'[n], v, f)
    <3> SUFFICES ASSUME NEW i \in 0 .. f - 1 PROVE log'[n][i] = v[i + 1]
      BY DEF OnDisk
    <3>1. i \in Index /\ i # d
      BY <2>8 DEF Index
    <3> QED BY <2>1, <2>2, <3>1 DEF OnDisk
  <2>4. Dropped(log'[n], e, v, f, d + 1)
    <3>1. ASSUME NEW i \in f .. (d + 1) - 1 PROVE log'[n][i] = Absent
      <4>1. i \in Index /\ (i = d \/ i \in f .. d - 1)
        BY <2>8 DEF Index
      <4> QED BY <2>1, <2>2, <4>1 DEF Dropped
    <3>2. ASSUME NEW i \in d + 1 .. e, i < Len(v) PROVE log'[n][i] # v[i + 1]
      <4>1. i \in Index /\ i # d /\ i \in d .. e
        BY <2>8 DEF Index
      <4>2. log'[n][i] = log[n][i]
        BY <2>2, <4>1
      <4> QED BY <2>1, <3>2, <4>1, <4>2 DEF Dropped
    <3> QED BY <3>1, <3>2 DEF Dropped
  <2>5. f <= d + 1 /\ d + 1 <= e + 1 /\ f <= e /\ d + 1 \in 0 .. MaxIndex + 1
    BY <2>8
  <2>6. CuttingAt(log'[n], e, v, Tail(q), f, d + 1)
    BY <2>1, <2>3, <2>4, <2>5 DEF CuttingAt
  <2>7. Cutting(log'[n], last'[n].index, v, Tail(q))
    BY <2>1, <2>5, <2>6 DEF Cutting, e
  <2> QED BY <1>9, <2>1, <2>7
<1>14. ASSUME NEW f \in 0 .. MaxIndex + 1, EndsCut(n, f) PROVE DiskOK(n)'
  <2>1. /\ f \in 0 .. Len(v) /\ OnDisk(log[n], v, f)
        /\ log'[n] = log[n] /\ last'[n].index = f - 1
        /\ \/ f = Len(v) /\ Len(q) = 1
           \/ f < Len(v) /\ Len(q) >= 2 /\ PutsLeft(v, Tail(q), 0, f)
    BY <1>14 DEF EndsCut, v, q
  <2>2. CASE f = Len(v) /\ Len(q) = 1
    BY <1>10, <2>1, <2>2
  <2>3. CASE f < Len(v) /\ Len(q) >= 2 /\ PutsLeft(v, Tail(q), 0, f)
    <3>1. last'[n].index < f
      BY <2>1
    <3>2. Appending(log'[n], last'[n].index, v, Tail(q))
      BY <2>1, <2>3, <3>1 DEF Appending
    <3> QED BY <1>8, <2>3, <3>2
  <2> QED BY <2>1, <2>2, <2>3
<1> QED BY <1>1, <1>11, <1>12, <1>13, <1>14

(* The writes of a truncation.                                             *)
CutsTo(C, e, f) ==
  /\ C \in Seq(Command) /\ Len(C) = e - f + 2
  /\ \A k \in 1 .. e - f + 1 : C[k].op = "delete" /\ C[k].id.index = f + k - 1
  /\ C[e - f + 2].op = "last" /\ C[e - f + 2].id.index = f - 1
  /\ \A k \in 1 .. Len(C) : C[k].ack = {}

(* What is deleted is what the server knows from that index on.            *)
LEMMA CutIs ==
  ASSUME LogTyped, NEW p \in Server, last[p].index = Len(view[p]) - 1,
         NEW f \in Nat, f < Len(view[p])
  PROVE  CutsTo(CutAt(p, f), last[p].index, f)
<1> DEFINE C == CutAt(p, f)
           e == last[p].index
           id == IdAt(view[p], f)
<1>0. /\ MaxIndex \in Nat /\ view[p] \in Seq(0 .. MaxTerm) /\ Len(view[p]) \in Nat
      /\ Len(view[p]) <= MaxIndex + 1 /\ e \in Int /\ f <= e /\ f \in Index
  BY BoundsAssumption DEF LogTyped, Index
<1>1. id \in LogId /\ id.index = f
  <2>1. f + 1 \in 1 .. Len(view[p])
    BY <1>0
  <2>2. view[p][f + 1] \in 0 .. MaxTerm
    BY <1>0, <2>1, ElementOf
  <2> QED BY <1>0, <2>2 DEF IdAt, LogId
<1>2. C = delete_conflict_logs_since(p, id)
  BY DEF CutAt
<1> HIDE DEF C, id
<1>3. /\ C \in Seq(Command) /\ Len(C) = e - f + 2
      /\ \A k \in 1 .. e - f + 1 : C[k] = delete_cf(f + k - 1)
      /\ C[e - f + 2].op = "last" /\ C[e - f + 2].id.index = f - 1 /\ C[e - f + 2].ack = {}
  BY <1>0, <1>1, <1>2, CutWrites
<1>4. \A k \in 1 .. e - f + 1 : C[k].op = "delete" /\ C[k].id.index = f + k - 1 /\ C[k].ack = {}
  <2> TAKE k \in 1 .. e - f + 1
  <2>1. C[k] = delete_cf(f + k - 1)
    BY <1>3
  <2>2. /\ delete_cf(f + k - 1).op = "delete" /\ delete_cf(f + k - 1).id.index = f + k - 1
        /\ delete_cf(f + k - 1).ack = {}
    BY DEF delete_cf
  <2> QED BY <2>1, <2>2
<1>5. ASSUME NEW k \in 1 .. Len(C) PROVE C[k].ack = {}
  <2>1. k \in 1 .. e - f + 1 \/ k = e - f + 2
    BY <1>0, <1>3
  <2> QED BY <1>3, <1>4, <2>1
<1> QED BY <1>3, <1>4, <1>5 DEF CutsTo, C

(* A follower that adopts a part of its leader's log.                      *)
LEMMA AdoptIo ==
  ASSUME LogTyped, LogsMatch, IoInv, NEW l \in Server, NEW p \in Server, Idle(l), Idle(p),
         NEW hi \in Index, hi < Len(view[l]), NEW f \in 0 .. hi, Adopts(l, p, hi, f)
  PROVE  /\ \/ Appending(log[p], last[p].index, view'[p], io'[p])
            \/ Cutting(log[p], last[p].index, view'[p], io'[p])
         /\ io'[p] # <<>> /\ Len(view'[p]) = hi + 1 /\ PrefixOf(view'[p], view[l])
         /\ \A k \in 1 .. Len(io'[p]) : io'[p][k].ack # {} =>
              /\ k = Len(io'[p]) /\ io'[p][k].op = "last"
              /\ io'[p][k].ack = {[to |-> l, index |-> hi]}
<1> DEFINE a  == view[p]
           b  == view[l]
           v  == view'[p]
           q  == io'[p]
           e  == last[p].index
           es == get_entries(l, f, hi)
           C  == CutAt(p, f)
<1>0. /\ MaxIndex \in Nat /\ hi \in Nat /\ f \in Nat /\ f <= hi /\ hi < Len(b) /\ hi <= MaxIndex
      /\ a \in Seq(Nat) /\ b \in Seq(Nat) /\ Len(a) \in Nat /\ Len(b) \in Nat
      /\ Matching(a, b) /\ f <= Len(a) /\ AgreeTo(l, p, f) /\ DifferAt(l, p, f)
  <2>1. a \in LogsOf(p) /\ b \in LogsOf(l)
    BY DEF LogsOf, Idle
  <2>2. a \in Seq(Nat) /\ b \in Seq(Nat)
    BY <2>1, LogsTyped
  <2>3. Matching(a, b)
    BY <2>1 DEF LogsMatch, Logs
  <2> QED BY <2>2, <2>3, BoundsAssumption DEF Index, Adopts
<1>1. /\ e = Len(a) - 1 /\ \A i \in 0 .. Len(a) - 1 : log[p][i] = a[i + 1]
      /\ \A i \in 0 .. Len(b) - 1 : log[l][i] = b[i + 1]
  BY IdleLogs DEF Idle
<1>2. v = SubSeq(b, 1, hi + 1) /\ q = C \o ThenAnswer(append_to_log(es), l, hi)
  BY DEF Adopts, LogTyped
<1>3. v \in Seq(Nat) /\ Len(v) = hi + 1 /\ \A k \in 1 .. hi + 1 : v[k] = b[k]
  <2>1. b \in Seq(Nat) /\ hi + 1 \in 0 .. Len(b)
    BY <1>0
  <2> HIDE DEF b, v
  <2> QED BY <1>2, <2>1, PrefixIs
<1> HIDE DEF v, q
<1>20. /\ MaxIndex \in Nat /\ hi \in Nat /\ f \in Nat /\ f <= hi /\ hi <= MaxIndex
       /\ Len(v) = hi + 1 /\ Len(a) \in Nat /\ f <= Len(a)
  BY <1>0, <1>3
<1>4. PrefixOf(v, b)
  BY <1>0, <1>3 DEF PrefixOf
<1>5. EntriesOf(es, v, f)
  <2> DEFINE m == hi - f + 1
  <2>1. m \in Nat /\ m = Len(v) - f
    BY <1>20
  <2>2. ASSUME NEW k \in 1 .. m
        PROVE  /\ f + k - 1 \in Index /\ log[l][f + k - 1] = v[f + k - 1 + 1]
               /\ log[l][f + k - 1] \in 0 .. MaxTerm
    <3>1. f + k - 1 \in 0 .. Len(b) - 1 /\ f + k - 1 + 1 \in 1 .. hi + 1 /\ f + k - 1 \in Index
      BY <1>0 DEF Index
    <3>2. b[f + k - 1 + 1] \in 0 .. MaxTerm
      <4>1. b \in Seq(0 .. MaxTerm) /\ f + k - 1 + 1 \in 1 .. Len(b)
        BY <1>0, <3>1 DEF LogTyped
      <4> HIDE DEF b
      <4> QED BY <4>1, ElementOf
    <3> QED BY <1>1, <1>3, <3>1, <3>2
  <2> DEFINE en(k) == [term |-> log[l][f + k - 1], index |-> f + k - 1]
  <2>3. es = [k \in 1 .. m |-> en(k)]
    BY DEF get_entries
  <2>4. ASSUME NEW k \in 1 .. m PROVE en(k) \in LogId /\ en(k) = IdAt(v, f + k - 1)
    BY <2>2 DEF LogId, IdAt
  <2> HIDE DEF es, m, en
  <2>5. es \in [1 .. m -> LogId] /\ \A k \in 1 .. m : es[k] = IdAt(v, f + k - 1)
    BY <2>3, <2>4
  <2>6. es \in Seq(LogId) /\ Len(es) = m
    BY <2>1, <2>5, SeqIs
  <2> QED BY <2>1, <2>5, <2>6 DEF EntriesOf
<1>6. C \in Seq(Command)
  BY <1>0, CutTyped
<1>7. WritesAfter(q, C, v, f, l)
  <2>1. Len(v) - 1 = hi /\ Len(v) <= MaxIndex + 1 /\ f \in 0 .. Len(v) - 1
    BY <1>0, <1>3
  <2> HIDE DEF C, es
  <2>2. q = C \o ThenAnswer(append_to_log(es), l, Len(v) - 1)
    BY <1>2, <2>1
  <2> QED BY <1>3, <1>5, <1>6, <2>1, <2>2, PutsAfter
<1> HIDE DEF es
<1>8. OnDisk(log[p], v, f)
  <2> SUFFICES ASSUME NEW i \in 0 .. f - 1 PROVE log[p][i] = v[i + 1]
    BY DEF OnDisk
  <2>1. i \in 0 .. Len(a) - 1 /\ i + 1 \in 1 .. hi + 1
    BY <1>0
  <2>2. a[i + 1] = b[i + 1]
    BY <1>0 DEF AgreeTo
  <2> QED BY <1>1, <1>3, <2>1, <2>2
<1>9. /\ q \in Seq(Command) /\ Len(C) \in Nat /\ Len(q) = Len(C) + Len(v) - f + 1
      /\ Len(q) \in Nat
      /\ PutsLeft(v, q, Len(C), f)
      /\ \A k \in 1 .. Len(C) : q[k] = C[k]
      /\ \A k \in Len(C) + 1 .. Len(q) - 1 : q[k].ack = {}
      /\ q[Len(q)].ack = {[to |-> l, index |-> hi]}
  <2>1. Len(v) - 1 = hi
    BY <1>0, <1>3
  <2>2. Len(C) \in Nat
    BY <1>6
  <2>3. q \in Seq(Command)
    BY <1>7 DEF WritesAfter
  <2>4. Len(q) \in Nat
    BY <2>3
  <2> QED BY <1>7, <2>1, <2>2, <2>4 DEF WritesAfter
<1>10. CASE f = Len(a)
  <2>1. C = <<>>
    BY <1>10 DEF CutAt
  <2>2. Len(C) = 0
    BY <2>1
  <2>3. e < f /\ f \in 0 .. Len(v)
    BY <1>0, <1>1, <1>3, <1>10
  <2> HIDE DEF C, e
  <2>4. PutsLeft(v, q, 0, f)
    BY <1>9, <2>2
  <2>5. Appending(log[p], e, v, q)
    BY <1>8, <2>3, <2>4 DEF Appending
  <2>6. ASSUME NEW k \in 1 .. Len(q), q[k].ack # {} PROVE k = Len(q)
    <3>1. k \in Len(C) + 1 .. Len(q) - 1 \/ k = Len(q)
      <4>1. Len(q) \in Nat /\ Len(C) = 0
        BY <1>9, <2>2
      <4> QED BY <4>1
    <3> QED BY <1>9, <2>6, <3>1
  <2>7. q[Len(q)].op = "last"
    BY <2>4 DEF PutsLeft
  <2>8. q # <<>>
    <3>1. Len(q) > 0
      BY <1>0, <1>3, <1>9, <2>2
    <3> QED BY <3>1
  <2> QED BY <1>3, <1>4, <1>9, <2>5, <2>6, <2>7, <2>8 DEF v, q, e
<1>11. CASE f < Len(a)
  <2>1. CutsTo(C, e, f)
    BY <1>0, <1>1, <1>11, CutIs
  <2>2. e \in Int /\ f <= e /\ e = Len(a) - 1
    BY <1>0, <1>1, <1>11
  <2> HIDE DEF C, e
  <2>3. /\ Len(C) = e - f + 2
        /\ \A k \in 1 .. e - f + 1 : C[k].op = "delete" /\ C[k].id.index = f + k - 1
        /\ C[e - f + 2].op = "last" /\ C[e - f + 2].id.index = f - 1
        /\ \A k \in 1 .. Len(C) : C[k].ack = {}
    BY <2>1 DEF CutsTo
  <2>4. Dropped(log[p], e, v, f, f)
    <3>1. ASSUME NEW i \in f .. e, i < Len(v) PROVE log[p][i] # v[i + 1]
      <4>1. /\ i \in 0 .. Len(a) - 1 /\ i + 1 \in 1 .. hi + 1 /\ i + 1 \in 1 .. Len(a)
            /\ i + 1 <= Len(b) /\ f + 1 \in 1 .. i + 1
        BY <1>0, <1>3, <2>2, <3>1
      <4>2. a[i + 1] # b[i + 1]
        BY <1>0, <1>11, <4>1 DEF Matching, DifferAt
      <4> QED BY <1>1, <1>3, <4>1, <4>2
    <3>2. f .. f - 1 = {}
      BY <1>0
    <3> QED BY <3>1, <3>2 DEF Dropped
  <2>5. DeletesLeft(e, q, f)
    <3> SUFFICES ASSUME NEW k \in 1 .. e - f + 1
                 PROVE  q[k].op = "delete" /\ q[k].id.index = f + k - 1
      BY DEF DeletesLeft
    <3>1. k \in 1 .. Len(C)
      BY <1>0, <2>2, <2>3
    <3> QED BY <1>9, <2>3, <3>1
  <2>6. ThenPuts(v, q, f, e - f + 2)
    <3>1. e - f + 2 \in 1 .. Len(C)
      BY <1>0, <2>2, <2>3
    <3>2. f < Len(v)
      BY <1>0, <1>3
    <3>3. q[e - f + 2] = C[e - f + 2]
      BY <1>9, <3>1
    <3> QED BY <1>9, <2>3, <3>2, <3>3 DEF ThenPuts
  <2>7. f \in 0 .. Len(v) /\ f \in 0 .. MaxIndex + 1 /\ f <= e + 1 /\ Len(q) >= e - f + 2
    <3>1. Len(q) = Len(C) + Len(v) - f + 1 /\ Len(C) = e - f + 2
      BY <1>9, <2>3
    <3>2. Len(q) >= e - f + 2
      <4>1. /\ Len(q) = (e - f + 2) + (hi + 1) - f + 1
            /\ e \in Int /\ hi \in Nat /\ f \in Nat /\ f <= hi
        BY <1>20, <2>2, <3>1
      <4> QED BY <4>1
    <3>3. f \in 0 .. Len(v) /\ f \in 0 .. MaxIndex + 1 /\ f <= e + 1
      BY <1>20, <2>2
    <3> QED BY <3>2, <3>3
  <2>8. CuttingAt(log[p], e, v, q, f, f)
    BY <1>0, <1>8, <2>2, <2>4, <2>5, <2>6, <2>7 DEF CuttingAt
  <2>9. Cutting(log[p], e, v, q)
    BY <2>7, <2>8 DEF Cutting
  <2>10. ASSUME NEW k \in 1 .. Len(q), q[k].ack # {} PROVE k = Len(q)
    <3>1. ~(k \in 1 .. Len(C)) /\ ~(k \in Len(C) + 1 .. Len(q) - 1)
      <4>1. k \in 1 .. Len(C) => q[k] = C[k] /\ C[k].ack = {}
        BY <1>9, <2>3
      <4>2. k \in Len(C) + 1 .. Len(q) - 1 => q[k].ack = {}
        BY <1>9
      <4> QED BY <2>10, <4>1, <4>2
    <3>2. Len(q) \in Nat /\ Len(C) \in Nat
      BY <1>9
    <3> QED BY <3>1, <3>2
  <2>11. q[Len(q)].op = "last"
    BY <1>9 DEF PutsLeft
  <2>12. q # <<>>
    <3>1. Len(q) > 0
      BY <1>20, <2>2, <2>7
    <3> QED BY <3>1
  <2> QED BY <1>3, <1>4, <1>9, <2>9, <2>10, <2>11, <2>12 DEF v, q, e
<1>12. f = Len(a) \/ f < Len(a)
  BY <1>20
<1> QED BY <1>10, <1>11, <1>12

(* A follower that drops the entry in the place of the one it lacks, and   *)
(* what is behind it.                                                      *)
LEMMA DropIo ==
  ASSUME LogTyped, IoInv, NEW l \in Server, NEW p \in Server, Idle(p),
         NEW f \in Nat, Drops(l, p, f), f < Len(view[p])
  PROVE  /\ Cutting(log[p], last[p].index, view'[p], io'[p]) /\ io'[p] # <<>>
         /\ \A k \in 1 .. Len(io'[p]) : io'[p][k].ack = {}
<1> DEFINE a  == view[p]
           v  == view'[p]
           q  == io'[p]
           e  == last[p].index
<1>0. MaxIndex \in Nat /\ a \in Seq(Nat) /\ Len(a) \in Nat /\ Len(a) <= MaxIndex + 1
  <2>1. a \in LogsOf(p)
    BY DEF LogsOf, Idle
  <2>2. a \in Seq(Nat) /\ Len(a) \in 0 .. MaxIndex + 1
    BY <2>1, LogsTyped
  <2> QED BY <2>2, BoundsAssumption
<1>1. e = Len(a) - 1 /\ \A i \in 0 .. Len(a) - 1 : log[p][i] = a[i + 1]
  BY IdleLogs DEF Idle
<1>2. v = SubSeq(a, 1, f) /\ q = CutAt(p, f)
  BY DEF Drops, LogTyped
<1>3. v \in Seq(Nat) /\ Len(v) = f /\ \A k \in 1 .. f : v[k] = a[k]
  <2>1. a \in Seq(Nat) /\ f \in 0 .. Len(a)
    BY <1>0
  <2> HIDE DEF a, v
  <2> QED BY <1>2, <2>1, PrefixIs
<1>4. CutsTo(q, e, f)
  BY <1>0, <1>1, <1>2, CutIs
<1>5. e \in Int /\ f <= e /\ f <= e + 1 /\ f \in 0 .. MaxIndex + 1 /\ f \in 0 .. Len(v)
  BY <1>0, <1>1, <1>3
<1> HIDE DEF v, q, e, a
<1>6. /\ q \in Seq(Command) /\ Len(q) = e - f + 2
      /\ \A k \in 1 .. e - f + 1 : q[k].op = "delete" /\ q[k].id.index = f + k - 1
      /\ q[e - f + 2].op = "last" /\ q[e - f + 2].id.index = f - 1
      /\ \A k \in 1 .. Len(q) : q[k].ack = {}
  BY <1>4 DEF CutsTo
<1>7. OnDisk(log[p], v, f)
  <2> SUFFICES ASSUME NEW i \in 0 .. f - 1 PROVE log[p][i] = v[i + 1]
    BY DEF OnDisk
  <2>1. i \in 0 .. Len(a) - 1 /\ i + 1 \in 1 .. f
    BY <1>0, <1>1, <1>5
  <2> QED BY <1>1, <1>3, <2>1
<1>8. Dropped(log[p], e, v, f, f)
  <2>1. f .. f - 1 = {} /\ \A i \in f .. e : ~(i < Len(v))
    BY <1>3, <1>5
  <2> QED BY <2>1 DEF Dropped
<1>9. DeletesLeft(e, q, f) /\ ThenPuts(v, q, f, e - f + 2) /\ Len(q) >= e - f + 2
  <2>1. Len(q) >= e - f + 2
    BY <1>5, <1>6
  <2> QED BY <1>3, <1>6, <2>1 DEF DeletesLeft, ThenPuts
<1>10. CuttingAt(log[p], e, v, q, f, f)
  BY <1>5, <1>7, <1>8, <1>9 DEF CuttingAt
<1>11. Cutting(log[p], e, v, q)
  BY <1>5, <1>10 DEF Cutting
<1>12. q # <<>>
  <2>1. Len(q) > 0
    BY <1>5, <1>6
  <2> QED BY <2>1
<1> QED BY <1>6, <1>11, <1>12 DEF v, q, e

(* append_entries leaves its writes to the follower.                       *)
LEMMA AppendIo ==
  ASSUME VoteInv, LogTyped, LogsMatch, IoInv, NEW l \in Server, NEW p \in Server, l # p,
         Leader(l), Idle(l), Idle(p), NEW prev \in -1 .. MaxIndex, NEW hi \in Index, prev < hi,
         AppendEntries(l, p, prev, hi)
  PROVE  IoInv'
<1>0. MaxIndex \in Nat /\ hi \in Nat
  BY BoundsAssumption DEF Index
<1>1. /\ vote' = [vote EXCEPT ![p] = vote[l]] /\ UNCHANGED <<log, last, up>>
  BY AppendIs DEF VoteInv
<1>2. /\ hi < Len(view[l])
      /\ \/ HasAll(l, p, hi)
         \/ \E f \in 0 .. hi : Adopts(l, p, hi, f)
         \/ Drops(l, p, prev)
  BY AppendDoes DEF VoteInv
<1>3. vote'[p] = vote[l] /\ vote'[l] = vote[l]
  BY <1>1 DEF VoteInv, VoteType
<1>4. Leader(l)' /\ ~Led(p)'
  BY <1>1, <1>3 DEF Leader, Led
<1>5. up[p] /\ \A m \in Server : io[m] = <<>>
  BY DEF Idle
<1>6. \A m \in Server \ {p} : view'[m] = view[m] /\ io'[m] = <<>>
  <2>1. CASE HasAll(l, p, hi)
    BY <1>5, <2>1 DEF HasAll
  <2>2. CASE \E f \in 0 .. hi : Adopts(l, p, hi, f)
    BY <1>5, <2>2 DEF Adopts, LogTyped
  <2>3. CASE Drops(l, p, prev)
    BY <1>5, <2>3 DEF Drops, LogTyped
  <2> QED BY <1>2, <2>1, <2>2, <2>3
<1>7. ASSUME NEW m \in Server, ~up[m] PROVE matched'[m] = NoMatch
  <2>1. matched[m] = NoMatch /\ m # p
    BY <1>5, <1>7 DEF IoInv, DiskOK
  <2>2. matched'[m] = matched[m]
    <3>1. CASE HasAll(l, p, hi)
      <4>1. Match({[to |-> l, index |-> hi]}, p)[m] = matched[m]
        BY <1>7, MatchIs DEF Leader
      <4> QED BY <3>1, <4>1 DEF HasAll
    <3>2. CASE \E f \in 0 .. hi : Adopts(l, p, hi, f)
      BY <2>1, <3>2 DEF Adopts, LogTyped
    <3>3. CASE Drops(l, p, prev)
      BY <2>1, <3>3 DEF Drops, LogTyped
    <3> QED BY <1>2, <3>1, <3>2, <3>3
  <2> QED BY <2>1, <2>2
<1>8. ASSUME NEW m \in Server \ {p} PROVE DiskOK(m)'
  BY <1>1, <1>5, <1>6, <1>7, IoSame
<1>9. OneWriter'
  BY <1>6 DEF OneWriter
<1> SUFFICES DiskOK(p)'
  BY <1>8, <1>9 DEF IoInv
<1>10. ASSUME view'[p] = view[p], io'[p] = <<>> PROVE DiskOK(p)'
  BY <1>1, <1>5, <1>7, <1>10, IoSame
<1>11. CASE HasAll(l, p, hi)
  BY <1>5, <1>10, <1>11 DEF HasAll
<1>12. ASSUME NEW f \in 0 .. hi, Adopts(l, p, hi, f) PROVE DiskOK(p)'
  <2>1. /\ \/ Appending(log[p], last[p].index, view'[p], io'[p])
           \/ Cutting(log[p], last[p].index, view'[p], io'[p])
        /\ io'[p] # <<>> /\ Len(view'[p]) = hi + 1 /\ PrefixOf(view'[p], view[l])
        /\ \A k \in 1 .. Len(io'[p]) : io'[p][k].ack # {} =>
             /\ k = Len(io'[p]) /\ io'[p][k].op = "last"
             /\ io'[p][k].ack = {[to |-> l, index |-> hi]}
    BY <1>2, <1>12, AdoptIo
  <2>2. view'[l] = view[l] /\ Len(view'[p]) - 1 = hi
    BY <1>0, <1>6, <2>1
  <2>3. AckOK(p)'
    BY <1>3, <1>4, <2>1, <2>2 DEF AckOK
  <2>4. Writing(p)'
    BY <1>1, <1>4, <1>5, <2>1, <2>3 DEF Writing
  <2> QED BY <1>1, <1>5, <2>1, <2>4 DEF DiskOK
<1>13. CASE Drops(l, p, prev)
  <2>1. prev \in Nat
    BY <1>13 DEF Drops
  <2>2. CASE prev < Len(view[p])
    <3>1. /\ Cutting(log[p], last[p].index, view'[p], io'[p]) /\ io'[p] # <<>>
          /\ \A k \in 1 .. Len(io'[p]) : io'[p][k].ack = {}
      BY <1>13, <2>1, <2>2, DropIo
    <3>2. AckOK(p)'
      BY <3>1 DEF AckOK
    <3>3. Writing(p)'
      BY <1>1, <1>4, <1>5, <3>1, <3>2 DEF Writing
    <3> QED BY <1>1, <1>5, <3>1, <3>3 DEF DiskOK
  <2>3. CASE ~(prev < Len(view[p]))
    <3>1. CutAt(p, prev) = <<>>
      BY <2>3 DEF CutAt
    <3>2. view'[p] = view[p] /\ io'[p] = <<>>
      BY <1>13, <2>3, <3>1 DEF Drops, LogTyped
    <3> QED BY <1>10, <3>2
  <2> QED BY <2>2, <2>3
<1> QED BY <1>2, <1>11, <1>12, <1>13

(* A crash loses the writes that are left, and what is on disk is true     *)
(* unless it is counted as torn.                                           *)
LEMMA CrashIo ==
  ASSUME LogTyped, IoInv, NEW n \in Server, Crash(n), ~torn'
  PROVE  IoInv'
<1>1. /\ UNCHANGED <<log, last>> /\ up' = [up EXCEPT ![n] = FALSE]
      /\ view' = [view EXCEPT ![n] = <<>>] /\ io' = [io EXCEPT ![n] = <<>>]
      /\ matched' = [matched EXCEPT ![n] = NoMatch] /\ Truthful(n)
      /\ \A p \in Server \ {n} : io[p] = <<>>
  BY DEF Crash, diskVars
<1>2. io'[n] = <<>> /\ ~up'[n] /\ matched'[n] = NoMatch
  BY <1>1 DEF LogTyped
<1>3. Truthful(n)'
  BY <1>1 DEF Truthful
<1>4. DiskOK(n)'
  BY <1>2, <1>3 DEF DiskOK
<1>5. ASSUME NEW m \in Server \ {n} PROVE DiskOK(m)' /\ io'[m] = <<>>
  <2>1. up'[m] = up[m] /\ view'[m] = view[m] /\ io'[m] = <<>> /\ matched'[m] = matched[m]
    BY <1>1 DEF LogTyped
  <2>2. ~up[m] => matched[m] = NoMatch
    BY DEF IoInv, DiskOK
  <2> QED BY <1>1, <2>1, <2>2, IoSame
<1> QED BY <1>2, <1>4, <1>5 DEF IoInv, OneWriter

(* A restarted server knows what is on its disk.                           *)
LEMMA RestartIo ==
  ASSUME LogTyped, IoInv, NEW n \in Server, Restart(n)
  PROVE  IoInv'
<1>1. /\ UNCHANGED <<log, last, io, matched>> /\ up' = [up EXCEPT ![n] = TRUE]
      /\ view' = [view EXCEPT ![n] = get_log_state(n)] /\ \A p \in Server : io[p] = <<>>
  BY DEF Restart
<1>2. up'[n] /\ view'[n] = disk(n) /\ io'[n] = <<>>
  BY <1>1, RestartReads DEF LogTyped
<1>3. Saved(n)'
  <2> DEFINE e == last[n].index
             v == view'[n]
  <2>1. e \in -1 .. MaxIndex /\ MaxIndex \in Nat /\ v = [i \in 1 .. e + 1 |-> log[n][i - 1]]
    BY <1>2, BoundsAssumption DEF LogTyped, LogId, NoId, Index, disk
  <2>2. e + 1 \in Nat
    BY <2>1
  <2>3. UNCHANGED <<log, last>>
    BY <1>1
  <2> HIDE DEF e, v
  <2>4. Len(v) = e + 1
    BY <2>1, <2>2
  <2>5. \A i \in 0 .. e : log[n][i] = v[i + 1]
    <3> TAKE i \in 0 .. e
    <3>1. i + 1 \in 1 .. e + 1 /\ (i + 1) - 1 = i
      BY <2>1
    <3> QED BY <2>1, <3>1
  <2>6. e = Len(v) - 1 /\ Len(v) - 1 = e
    BY <2>1, <2>4
  <2> QED BY <2>3, <2>5, <2>6 DEF Saved, OnDisk, e, v
<1>4. DiskOK(n)'
  BY <1>2, <1>3 DEF DiskOK
<1>5. ASSUME NEW m \in Server \ {n} PROVE DiskOK(m)'
  <2>1. up'[m] = up[m] /\ view'[m] = view[m] /\ io'[m] = <<>> /\ matched'[m] = matched[m]
    BY <1>1 DEF LogTyped
  <2>2. ~up[m] => matched[m] = NoMatch
    BY DEF IoInv, DiskOK
  <2> QED BY <1>1, <2>1, <2>2, IoSame
<1> QED BY <1>1, <1>4, <1>5 DEF IoInv, OneWriter

(* Steps that leave logs and writes alone.                                 *)
LEMMA QuietIo ==
  ASSUME IoInv, UNCHANGED <<log, last, up, view, io>>, \A m \in Server : io[m] = <<>>,
         \A m \in Server : matched'[m] \in {matched[m], NoMatch}
  PROVE  IoInv'
<1>1. ASSUME NEW m \in Server PROVE DiskOK(m)'
  <2>1. ~up[m] => matched'[m] = NoMatch
    BY DEF IoInv, DiskOK
  <2> QED BY <2>1, IoSame
<1> QED BY <1>1 DEF IoInv, OneWriter

(* A won election leaves the blank entry of the term to the leader.        *)
LEMMA ElectIo ==
  ASSUME VoteInv, LogTyped, IoInv, NEW n \in Server, NEW Q \in SUBSET Server, Elect(n, Q)
  PROVE  IoInv'
<1> DEFINE t == vote[n].term + 1
<1>1. /\ Elects(n, Q, t)
      /\ Q \cup {n} \notin Quorum => UNCHANGED <<elected, view, io>>
      /\ Q \cup {n} \in Quorum =>
           /\ Len(view[n]) <= MaxIndex
           /\ Extend(n, [term |-> t, index |-> Len(view[n])])
  BY ElectIs DEF VoteInv
<1>2. /\ Idle(n) /\ UNCHANGED <<log, last, up>> /\ t \in 0 .. MaxTerm
      /\ vote'[n].node = n /\ vote'[n].committed = (Q \cup {n} \in Quorum)
      /\ matched' = [p \in Server |-> IF p \in Q \cup {n} THEN NoMatch ELSE matched[p]]
  BY <1>1 DEF Elects
<1>3. \A m \in Server : matched'[m] \in {matched[m], NoMatch}
  BY <1>2
<1>4. CASE Q \cup {n} \notin Quorum
  BY <1>1, <1>2, <1>3, <1>4, QuietIo DEF Idle
<1>5. CASE Q \cup {n} \in Quorum
  <2>1. Leader(n)'
    BY <1>2, <1>5 DEF Leader, Idle
  <2>2. \A m \in Server : ~up[m] => matched'[m] = NoMatch
    BY <1>3 DEF IoInv, DiskOK
  <2> QED BY <1>1, <1>2, <1>5, <2>1, <2>2, ExtendIo
<1> QED BY <1>4, <1>5

(* A client's write.                                                       *)
LEMMA WriteIo ==
  ASSUME VoteInv, LogTyped, IoInv, NEW n \in Server, ClientWrite(n)
  PROVE  IoInv'
<1> DEFINE t == vote[n].term
<1>1. /\ Leader(n) /\ Idle(n) /\ Len(view[n]) <= MaxIndex
      /\ Extend(n, [term |-> t, index |-> Len(view[n])])
      /\ UNCHANGED <<log, last, up, vote, matched>>
  BY DEF ClientWrite, diskVars
<1>2. Leader(n)' /\ t \in 0 .. MaxTerm
  BY <1>1 DEF Leader, VoteInv, VoteType, Vote
<1>3. \A m \in Server : ~up[m] => matched'[m] = NoMatch
  BY <1>1 DEF IoInv, DiskOK
<1> QED BY <1>1, <1>2, <1>3, ExtendIo

(* A leader that steps down.                                               *)
LEMMA HigherIo ==
  ASSUME VoteInv, LogTyped, OwnVote, IoInv, NEW l \in Server, NEW p \in Server,
         Leader(l), Idle(l), HigherVote(l, p)
  PROVE  IoInv'
<1>1. /\ UNCHANGED <<log, last, up, view, io>>
      /\ matched' = [matched EXCEPT ![l] = NoMatch]
  BY HigherIs
<1>2. \A m \in Server : matched'[m] \in {matched[m], NoMatch}
  BY <1>1 DEF LogTyped
<1> QED BY <1>1, <1>2, QuietIo DEF Idle

(* Votes are taken from the candidate, or from a server that has one.      *)
LEMMA OwnKeeps ==
  ASSUME VoteType, VoteType', OwnVote, \A p \in Server : vote'[p].term >= vote[p].term,
         \A p \in Server : \/ \E q \in Server : vote'[p] = vote[q]
                           \/ \E m \in Server : vote'[p].node = m /\ vote'[m].term = vote'[p].term
  PROVE  OwnVote'
<1> SUFFICES ASSUME NEW p \in Server, NEW m \in Server, vote'[p].node = m
             PROVE  vote'[m].term >= vote'[p].term
  BY DEF OwnVote
<1>1. /\ vote'[m].term \in Int /\ vote[m].term \in Int /\ vote'[p].term \in Int
      /\ vote'[m].term >= vote[m].term
  BY DEF VoteType, Vote
<1>2. ASSUME NEW q \in Server, vote'[p] = vote[q] PROVE vote'[m].term >= vote'[p].term
  <2>1. vote[m].term >= vote'[p].term
    BY <1>2 DEF OwnVote
  <2> QED BY <1>1, <2>1
<1>3. ASSUME NEW k \in Server, vote'[p].node = k, vote'[k].term = vote'[p].term
      PROVE  vote'[m].term >= vote'[p].term
  BY <1>1, <1>3
<1> QED BY <1>2, <1>3

(* The logs after a step that shortens them, and after one that extends    *)
(* the log of a leader.                                                    *)
LEMMA ShapeShrinks ==
  ASSUME VoteType, VoteType', LogTyped, LogShape, OwnVote', Shrinks
  PROVE  LogShape'
<1>1. LogsMatch /\ Written /\ OwnVote /\ BelowVote /\ LeaderHasOwn
  BY DEF LogShape
<1>2. LogsMatch' /\ Written' /\ BelowVote' /\ LeaderHasOwn'
  BY <1>1, ShrinkMatch, ShrinkWritten, ShrinkBelow, ShrinkOwn
<1> QED BY <1>2 DEF LogShape

(* The shape of the logs survives the append of a leader.                  *)
LEMMA ShapeExtends ==
  ASSUME VoteType, VoteType', LogTyped, LogShape, OwnVote', NEW n \in Server, NEW t, Extends(n, t)
  PROVE  LogShape'
<1>1. LogsMatch /\ Written /\ OwnVote /\ BelowVote /\ LeaderHasOwn
  BY DEF LogShape
<1>2. LogsMatch' /\ Written' /\ BelowVote' /\ LeaderHasOwn'
  BY <1>1, ExtendMatch, ExtendWritten, ExtendBelow, ExtendOwn
<1> QED BY <1>2 DEF LogShape

(* Every step that uses or changes votes keeps the candidate's own.        *)
LEMMA OwnNext ==
  ASSUME VoteInv, VoteInv', LogTyped, OwnVote, [Next]_vars
  PROVE  OwnVote'
<1>0. VoteType /\ VoteType' /\ \A p \in Server : vote[p].term \in Int
  BY DEF VoteInv, VoteType, Vote
<1>1. CASE UNCHANGED vote
  BY <1>1 DEF OwnVote
<1>2. ASSUME NEW n \in Server, Restart(n) PROVE OwnVote'
  <2>1. UNCHANGED vote
    BY <1>2 DEF Restart, read_vote, VoteInv, VoteType
  <2> QED BY <1>1, <2>1
<1>3. ASSUME NEW n \in Server, ClientWrite(n) \/ Execute(n) \/ Commit(n) \/ Crash(n)
      PROVE  OwnVote'
  BY <1>1, <1>3 DEF ClientWrite, Execute, Commit, Crash, diskVars, histVars
<1>4. CASE UNCHANGED vars
  BY <1>1, <1>4 DEF vars
<1>5. ASSUME NEW n \in Server, NEW Q \in SUBSET Server, Elect(n, Q) PROVE OwnVote'
  <2> DEFINE t == vote[n].term + 1
  <2>1. /\ \A p \in Q \cup {n} : vote[p].term < t /\ vote'[p].term = t /\ vote'[p].node = n
        /\ \A p \in Server \ (Q \cup {n}) : vote'[p] = vote[p]
    BY <1>5, ElectIs DEF Elects, VoteInv
  <2>2. \A p \in Server : vote'[p].term >= vote[p].term
    BY <1>0, <2>1
  <2>3. \A p \in Server : \/ \E q \in Server : vote'[p] = vote[q]
                          \/ \E m \in Server : vote'[p].node = m /\ vote'[m].term = vote'[p].term
    BY <2>1
  <2> QED BY <1>0, <2>2, <2>3, OwnKeeps
<1>6. ASSUME NEW l \in Server, NEW p \in Server, NEW prev \in -1 .. MaxIndex, NEW hi \in Index,
             prev < hi, AppendEntries(l, p, prev, hi)
      PROVE  OwnVote'
  <2>1. VoteGE(vote[l], vote[p]) /\ vote' = [vote EXCEPT ![p] = vote[l]]
    BY <1>0, <1>6, AppendIs
  <2>2. \A q \in Server : vote'[q].term >= vote[q].term
    BY <2>1 DEF VoteGE, VoteInv, VoteType, Vote
  <2>3. \A q \in Server : \E r \in Server : vote'[q] = vote[r]
    BY <2>1 DEF VoteInv, VoteType
  <2> QED BY <1>0, <2>2, <2>3, OwnKeeps
<1>7. ASSUME NEW l \in Server, NEW p \in Server, Leader(l), HigherVote(l, p) PROVE OwnVote'
  <2>1. vote' = [vote EXCEPT ![l] = vote[p]] /\ vote[p].term >= vote[l].term
    BY <1>7, HigherIs
  <2>2. \A q \in Server : vote'[q].term >= vote[q].term
    BY <2>1 DEF VoteInv, VoteType, Vote
  <2>3. \A q \in Server : \E r \in Server : vote'[q] = vote[r]
    BY <2>1 DEF VoteInv, VoteType
  <2> QED BY <1>0, <2>2, <2>3, OwnKeeps
<1> QED BY <1>2, <1>3, <1>4, <1>5, <1>6, <1>7 DEF Next

(* A commit, and a step of nobody, change nothing of the logs.             *)
LEMMA SameShape ==
  ASSUME LogShape, IoInv, UNCHANGED <<log, last, vote, up, view, io, matched, elected>>
  PROVE  LogShape' /\ IoInv'
<1>1. \A n \in Server : LogsOf(n)' = LogsOf(n)
  BY SameLogs
<1>2. Logs' = Logs
  BY <1>1 DEF Logs
<1>3. LogsMatch' /\ Written' /\ OwnVote' /\ BelowVote' /\ LeaderHasOwn'
  BY <1>1, <1>2 DEF LogShape, LogsMatch, Written, OwnVote, BelowVote, LeaderHasOwn, Led
<1>4. IoInv'
  BY DEF IoInv, OneWriter, DiskOK, Writing, Saved, AckOK, Truthful, Leader, Led
<1> QED BY <1>3, <1>4 DEF LogShape

(* Every step keeps the logs and the writes in order.                      *)
LEMMA NextShape ==
  ASSUME VoteInv, VoteInv', LogTyped, LogShape, IoInv, [Next]_vars, ~torn'
  PROVE  LogShape' /\ IoInv'
<1>0. /\ VoteType /\ VoteType' /\ OwnVote' /\ OwnVote /\ LogsMatch /\ Written /\ BelowVote
      /\ LeaderHasOwn
  BY OwnNext DEF VoteInv, LogShape
<1>1. CASE UNCHANGED vars
  BY <1>1, SameShape DEF vars
<1>2. ASSUME NEW n \in Server, ClientWrite(n) PROVE LogShape' /\ IoInv'
  BY <1>0, <1>2, WriteExtends, ShapeExtends, WriteIo
<1>3. ASSUME NEW n \in Server, Execute(n) PROVE LogShape' /\ IoInv'
  BY <1>0, <1>3, ExecuteShrinks, ShapeShrinks, ExecuteIo
<1>4. ASSUME NEW n \in Server, Commit(n) PROVE LogShape' /\ IoInv'
  BY <1>4, SameShape DEF Commit, diskVars, memVars
<1>5. ASSUME NEW n \in Server, Crash(n) PROVE LogShape' /\ IoInv'
  BY <1>0, <1>5, CrashShrinks, ShapeShrinks, CrashIo
<1>6. ASSUME NEW n \in Server, Restart(n) PROVE LogShape' /\ IoInv'
  BY <1>0, <1>6, RestartShrinks, ShapeShrinks, RestartIo
<1>7. ASSUME NEW n \in Server, NEW Q \in SUBSET Server, Elect(n, Q) PROVE LogShape' /\ IoInv'
  <2>1. IoInv'
    BY <1>7, ElectIo
  <2>2. CASE Q \cup {n} \in Quorum
    BY <1>0, <1>7, <2>1, <2>2, WinExtends, ShapeExtends
  <2>3. CASE Q \cup {n} \notin Quorum
    BY <1>0, <1>7, <2>1, <2>3, LoseShrinks, ShapeShrinks
  <2> QED BY <2>2, <2>3
<1>8. ASSUME NEW l \in Server, NEW p \in Server, l # p, Leader(l), Idle(l), Idle(p),
             NEW prev \in -1 .. MaxIndex, NEW hi \in Index, prev < hi,
             AppendEntries(l, p, prev, hi)
      PROVE  LogShape' /\ IoInv'
  <2>1. Shrinks
    BY <1>0, <1>8, AppendShrinks
  <2>2. IoInv'
    BY <1>0, <1>8, AppendIo
  <2> QED BY <1>0, <2>1, <2>2, ShapeShrinks
<1>9. ASSUME NEW l \in Server, NEW p \in Server, Leader(l), Idle(l), HigherVote(l, p)
      PROVE  LogShape' /\ IoInv'
  BY <1>0, <1>9, HigherShrinks, ShapeShrinks, HigherIo
<1> QED BY <1>1, <1>2, <1>3, <1>4, <1>5, <1>6, <1>7, <1>8, <1>9 DEF Next
-----------------------------------------------------------------------------
(* What a server has for good stays: no write removes an entry that is on  *)
(* disk and in memory.                                                     *)
LEMMA ExecuteHas ==
  ASSUME LogTyped, IoInv, NEW n \in Server, Execute(n), NEW p \in Server, NEW id \in LogId,
         Has(p, id)
  PROVE  Has(p, id)'
<1> DEFINE v == view[n]
           e == last[n].index
           i == id.index
<1>0. /\ MaxIndex \in Nat /\ v \in Seq(Nat) /\ Len(v) \in Nat /\ Len(v) <= MaxIndex + 1
      /\ e \in -1 .. MaxIndex /\ i \in Index /\ i \in Nat /\ id.term # Absent
      /\ log[n] \in [Index -> {Absent} \cup 0 .. MaxTerm]
  <2>1. MaxTerm \in Nat /\ MaxIndex \in Nat
    BY BoundsAssumption
  <2>2. e \in -1 .. MaxIndex
    BY <2>1 DEF LogTyped, LogId, NoId, Index
  <2>3. i \in Index /\ i \in Nat /\ id.term # Absent
    BY <2>1 DEF LogId, Index, Absent
  <2> QED BY <2>1, <2>2, <2>3 DEF LogTyped
<1>1. /\ up[n] /\ UNCHANGED <<up, view>>
      /\ \A m \in Server \ {n} : log'[m] = log[m] /\ last'[m] = last[m]
      /\ \/ \E s \in 0 .. MaxIndex : PutsEntry(n, s)
         \/ EndsAppend(n)
         \/ \E f \in 0 .. MaxIndex + 1, d \in 0 .. MaxIndex : DeletesEntry(n, f, d)
         \/ \E f \in 0 .. MaxIndex + 1 : EndsCut(n, f)
  BY ExecuteIs
<1>2. CASE p # n
  BY <1>1, <1>2 DEF Has, Stored
<1>3. CASE p = n
  <2>1. i <= e /\ log[n][i] = id.term /\ i < Len(v) /\ v[i + 1] = id.term
    BY <1>1, <1>3 DEF Has, Stored, Contains
  <2> SUFFICES i <= last'[n].index /\ log'[n][i] = id.term
    BY <1>1, <1>3 DEF Has, Stored
  <2> HIDE DEF v, i
  <2>2. ASSUME NEW s \in 0 .. MaxIndex, PutsEntry(n, s)
        PROVE  i <= last'[n].index /\ log'[n][i] = id.term
    <3>1. e < s /\ log'[n] = [log[n] EXCEPT ![s] = v[s + 1]] /\ last'[n] = last[n]
      BY <2>2 DEF PutsEntry, v
    <3>2. i # s
      BY <1>0, <2>1, <3>1
    <3> QED BY <1>0, <2>1, <3>1, <3>2
  <2>3. ASSUME EndsAppend(n) PROVE i <= last'[n].index /\ log'[n][i] = id.term
    <3>1. log'[n] = log[n] /\ last'[n].index = Len(v) - 1
      BY <2>3 DEF EndsAppend, v
    <3>2. i <= Len(v) - 1
      <4>1. i \in Nat /\ Len(v) \in Nat /\ i < Len(v)
        BY <1>0, <2>1
      <4> QED BY <4>1
    <3> QED BY <2>1, <3>1, <3>2
  <2>4. ASSUME NEW f \in 0 .. MaxIndex + 1, NEW d \in 0 .. MaxIndex, DeletesEntry(n, f, d)
        PROVE  i <= last'[n].index /\ log'[n][i] = id.term
    <3>1. /\ d \in f .. e /\ Dropped(log[n], e, v, f, d)
          /\ log'[n] = [log[n] EXCEPT ![d] = Absent] /\ last'[n] = last[n]
      BY <2>4 DEF DeletesEntry, v
    <3>2. ~(i \in f .. d - 1) /\ ~(i \in d .. e)
      BY <1>0, <2>1, <3>1 DEF Dropped
    <3>3. i # d
      BY <1>0, <2>1, <3>1, <3>2
    <3> QED BY <1>0, <2>1, <3>1, <3>3
  <2>5. ASSUME NEW f \in 0 .. MaxIndex + 1, EndsCut(n, f)
        PROVE  i <= last'[n].index /\ log'[n][i] = id.term
    <3>1. /\ log'[n] = log[n] /\ last'[n].index = f - 1
          /\ \A j \in f .. e : log[n][j] = Absent
      BY <2>5 DEF EndsCut
    <3>2. ~(i \in f .. e)
      BY <1>0, <2>1, <3>1
    <3>3. i <= f - 1
      BY <1>0, <2>1, <3>2
    <3> QED BY <2>1, <3>1, <3>3
  <2> QED BY <1>1, <2>2, <2>3, <2>4, <2>5
<1> QED BY <1>2, <1>3

(* Nor does a crash, and a restart reads it back.                          *)
LEMMA CrashHas ==
  ASSUME LogTyped, NEW n \in Server, Crash(n), NEW p \in Server, NEW id, Has(p, id)
  PROVE  Has(p, id)'
<1>1. /\ UNCHANGED <<log, last>> /\ up' = [up EXCEPT ![n] = FALSE]
      /\ view' = [view EXCEPT ![n] = <<>>]
  BY DEF Crash, diskVars
<1>2. up'[p] => up[p] /\ view'[p] = view[p]
  BY <1>1 DEF LogTyped
<1> QED BY <1>1, <1>2 DEF Has, Stored

(* A restart loses no entry that a server had.                             *)
LEMMA RestartHas ==
  ASSUME LogTyped, IoInv, NEW n \in Server, Restart(n), NEW p \in Server, NEW id \in LogId,
         Has(p, id)
  PROVE  Has(p, id)'
<1>1. /\ UNCHANGED <<log, last>> /\ up' = [up EXCEPT ![n] = TRUE]
      /\ view' = [view EXCEPT ![n] = get_log_state(n)]
  BY DEF Restart
<1>2. CASE p # n
  <2>1. up'[p] = up[p] /\ view'[p] = view[p]
    BY <1>1, <1>2 DEF LogTyped
  <2> QED BY <1>1, <2>1 DEF Has, Stored
<1>3. CASE p = n
  <2> DEFINE e == last[n].index
             v == view'[n]
             i == id.index
  <2>1. /\ e \in -1 .. MaxIndex /\ MaxIndex \in Nat /\ i \in Nat
        /\ i <= e /\ log[n][i] = id.term
    BY <1>3, BoundsAssumption DEF LogTyped, LogId, NoId, Index, Has, Stored
  <2>2. v = [k \in 1 .. e + 1 |-> log[n][k - 1]]
    BY <1>1, RestartReads DEF LogTyped, disk
  <2>3. e + 1 \in Nat /\ i + 1 \in 1 .. e + 1 /\ (i + 1) - 1 = i
    BY <2>1
  <2> HIDE DEF e, v, i
  <2>4. Len(v) = e + 1 /\ v[i + 1] = log[n][i]
    BY <2>2, <2>3
  <2>5. i < Len(v) /\ v[i + 1] = id.term
    BY <2>1, <2>4
  <2> QED BY <1>1, <1>3, <2>5 DEF Has, Stored, Contains, v, i
<1> QED BY <1>2, <1>3

(* A follower keeps what its leader has too.                               *)
LEMMA AppendHas ==
  ASSUME VoteInv, LogTyped, LogsMatch, IoInv, NEW l \in Server, NEW p \in Server,
         Idle(l), Idle(p), NEW prev \in -1 .. MaxIndex, NEW hi \in Index, prev < hi,
         AppendEntries(l, p, prev, hi), NEW m \in Server, NEW id \in LogId, Has(m, id),
         m = p => Contains(view[l], id)
  PROVE  Has(m, id)'
<1> DEFINE a == view[p]
           b == view[l]
           i == id.index
<1>0. /\ MaxIndex \in Nat /\ hi \in Nat /\ i \in Nat
      /\ a \in Seq(Nat) /\ b \in Seq(Nat) /\ Len(a) \in Nat /\ Len(b) \in Nat /\ Matching(a, b)
  <2>1. a \in LogsOf(p) /\ b \in LogsOf(l)
    BY DEF LogsOf, Idle
  <2>2. a \in Seq(Nat) /\ b \in Seq(Nat)
    BY <2>1, LogsTyped
  <2>3. Matching(a, b)
    BY <2>1 DEF LogsMatch, Logs
  <2> QED BY <2>2, <2>3, BoundsAssumption DEF Index, LogId
<1>1. UNCHANGED <<log, last, up>>
  BY AppendIs DEF VoteInv
<1>2. /\ hi < Len(b)
      /\ \/ HasAll(l, p, hi)
         \/ \E f \in 0 .. hi : Adopts(l, p, hi, f)
         \/ Drops(l, p, prev)
  BY AppendDoes DEF VoteInv
<1>3. CASE view'[m] = view[m]
  BY <1>1, <1>3 DEF Has, Stored
<1>4. CASE m # p
  <2>1. view'[m] = view[m]
    BY <1>2, <1>4 DEF HasAll, Adopts, Drops, LogTyped
  <2> QED BY <1>3, <2>1
<1>5. CASE m = p
  <2>1. i < Len(a) /\ a[i + 1] = id.term /\ i < Len(b) /\ b[i + 1] = id.term
    BY <1>5 DEF Has, Contains, Idle
  <2>2. ASSUME NEW f \in Nat, f <= Len(a), DifferAt(l, p, f) PROVE i < f
    <3> SUFFICES ASSUME f <= i PROVE FALSE
      BY <1>0
    <3>1. f < Len(a) /\ f + 1 \in 1 .. i + 1 /\ i + 1 \in 1 .. Len(a) /\ i + 1 <= Len(b)
      <4>1. /\ f \in Nat /\ i \in Nat /\ f <= i /\ i < Len(a) /\ i < Len(b)
            /\ Len(a) \in Nat /\ Len(b) \in Nat
        BY <1>0, <2>1
      <4> HIDE DEF a, b, i
      <4> QED BY <4>1
    <3>2. a[f + 1] = b[f + 1]
      BY <1>0, <2>1, <3>1 DEF Matching
    <3> QED BY <2>2, <3>1, <3>2 DEF DifferAt
  <2> SUFFICES ASSUME view'[p] # view[p] PROVE i < Len(view'[p]) /\ view'[p][i + 1] = id.term
    BY <1>1, <1>3, <1>5 DEF Has, Stored, Contains
  <2>3. CASE HasAll(l, p, hi)
    BY <2>3 DEF HasAll
  <2>4. ASSUME NEW f \in 0 .. hi, Adopts(l, p, hi, f)
        PROVE  i < Len(view'[p]) /\ view'[p][i + 1] = id.term
    <3>1. f \in Nat /\ f <= Len(a) /\ DifferAt(l, p, f) /\ view'[p] = SubSeq(b, 1, hi + 1)
      BY <1>0, <2>4 DEF Adopts, LogTyped
    <3>2. i < f
      BY <2>2, <3>1
    <3>3. b \in Seq(Nat) /\ hi + 1 \in 0 .. Len(b) /\ i + 1 \in 1 .. hi + 1
      BY <1>0, <1>2, <2>4, <3>2
    <3>4. Len(view'[p]) = hi + 1 /\ view'[p][i + 1] = b[i + 1]
      <4> HIDE DEF b, i
      <4> QED BY <3>1, <3>3, PrefixIs
    <3>5. i < hi + 1
      BY <1>0, <3>3
    <3> QED BY <2>1, <3>4, <3>5
  <2>5. CASE Drops(l, p, prev)
    <3>1. prev \in Nat /\ DifferAt(l, p, prev) /\ prev < Len(a) /\ view'[p] = SubSeq(a, 1, prev)
      BY <2>5 DEF Drops, LogTyped
    <3>2. i < prev
      BY <1>0, <2>2, <3>1
    <3>3. a \in Seq(Nat) /\ prev \in 0 .. Len(a) /\ i + 1 \in 1 .. prev
      BY <1>0, <3>1, <3>2
    <3>4. Len(view'[p]) = prev /\ view'[p][i + 1] = a[i + 1]
      <4> HIDE DEF a, i
      <4> QED BY <3>1, <3>3, PrefixIs
    <3> QED BY <2>1, <3>2, <3>4
  <2> QED BY <1>2, <2>3, <2>4, <2>5
<1> QED BY <1>4, <1>5

(* Nor does an appended entry remove one.                                  *)
LEMMA ExtendHas ==
  ASSUME LogTyped, NEW n \in Server, NEW t \in 0 .. MaxTerm,
         Extend(n, [term |-> t, index |-> Len(view[n])]), UNCHANGED <<log, last, up>>,
         NEW p \in Server, NEW id \in LogId, Has(p, id)
  PROVE  Has(p, id)'
<1>0. view[n] \in Seq(Nat) /\ t \in Nat /\ id.index \in Nat
  BY BoundsAssumption DEF LogTyped, LogId, Index
<1>1. view' = [view EXCEPT ![n] = Append(@, t)]
  BY DEF Extend
<1>2. CASE p # n
  <2>1. view'[p] = view[p]
    BY <1>1, <1>2 DEF LogTyped
  <2> QED BY <2>1 DEF Has, Stored
<1>3. CASE p = n
  <2> SUFFICES ASSUME Contains(view[n], id) PROVE Contains(view'[n], id)
    BY <1>3 DEF Has, Stored
  <2> DEFINE v == view[n]
             w == view'[n]
             i == id.index
  <2>1. w = Append(v, t) /\ i < Len(v) /\ v[i + 1] = id.term
    BY <1>1 DEF LogTyped, Contains
  <2>2. v \in Seq(Nat) /\ i \in Nat /\ Len(v) \in Nat
    BY <1>0
  <2> HIDE DEF v, w, i
  <2>3. Len(w) = Len(v) + 1 /\ \A k \in 1 .. Len(v) : w[k] = v[k]
    BY <1>0, <2>1, <2>2, AppendOne
  <2>4. i < Len(w) /\ i + 1 \in 1 .. Len(v)
    BY <2>1, <2>2, <2>3
  <2>5. w[i + 1] = id.term
    BY <2>1, <2>3, <2>4
  <2> QED BY <2>4, <2>5 DEF Contains, w, i
<1> QED BY <1>2, <1>3
-----------------------------------------------------------------------------
(* An entry that no log and no leader is beyond is fixed.                  *)
LEMMA FixedNow ==
  (VoteInv /\ LogTyped /\ Written) =>
    \A t \in Nat, R \in Quorum, id \in LogId :
      (\A p \in R : vote[p].term <= t) /\ id.term = t => Fixed(id)
<1> SUFFICES ASSUME VoteInv, LogTyped, Written, NEW t \in Nat, NEW R \in Quorum,
                    \A p \in R : vote[p].term <= t, NEW id \in LogId, id.term = t
             PROVE  Fixed(id)
  OBVIOUS
<1>1. /\ \A a \in Logs : \A i \in 1 .. Len(a) : a[i] <= t
      /\ \A n \in Server : vote[n].committed => vote[n].term <= t
  BY NoneLater
<1>2. ASSUME NEW a \in Logs, Later(a, t) PROVE FALSE
  <2>1. PICK n \in Server : a \in LogsOf(n)
    BY DEF Logs
  <2>2. PICK i \in 1 .. Len(a) : a[i] > t
    BY <1>2 DEF Later
  <2>3. a \in Seq(Nat)
    BY <2>1, LogsTyped
  <2>4. a[i] \in Nat
    BY <2>2, <2>3, ElementOf
  <2> QED BY <1>1, <2>2, <2>4
<1>3. ASSUME NEW n \in Server, Led(n), vote[n].term > t PROVE FALSE
  BY <1>1, <1>3 DEF Led, VoteInv, VoteType, Vote
<1> QED BY <1>2, <1>3 DEF Fixed

(* Once a quorum cannot be found for an entry, it never can.               *)
LEMMA MayCommitBefore ==
  ASSUME VoteType, VoteType', LogTyped, LogTyped', NEW l \in Server, vote'[l] = vote[l],
         \A p \in Server : vote'[p].term >= vote[p].term,
         \A p \in Server : matched'[l][p] = matched[l][p] \/ vote[p].term <= vote[l].term,
         NEW i, MayCommit(l, i)'
  PROVE  MayCommit(l, i)
<1> DEFINE R == {p \in Server : matched[l][p] >= i \/ vote[p].term <= vote[l].term}
           Q == {p \in Server : matched'[l][p] >= i \/ vote'[p].term <= vote'[l].term}
<1>1. Q \in Quorum
  BY DEF MayCommit
<1>2. ASSUME NEW p \in Q PROVE p \in R
  <2>1. vote[p].term \in Int /\ vote'[p].term \in Int /\ vote[l].term \in Int
    BY DEF VoteType, Vote
  <2> QED BY <2>1
<1>3. R \in Quorum
  BY <1>1, <1>2, QuorumGrows
<1> QED BY <1>3 DEF MayCommit

(* A leader that nobody has acknowledged may commit only what is fixed.    *)
LEMMA SettledNew ==
  (VoteInv /\ LogTyped /\ Written) =>
    \A l \in Server : \A i \in 0 .. Len(view[l]) - 1 :
      (\A p \in Server : matched[l][p] < i) => Settled(l, i)
<1> SUFFICES ASSUME VoteInv, LogTyped, Written, NEW l \in Server, NEW i \in 0 .. Len(view[l]) - 1,
                    \A p \in Server : matched[l][p] < i, view[l][i + 1] = vote[l].term,
                    MayCommit(l, i)
             PROVE  Fixed(IdAt(view[l], i))
  BY DEF Settled
<1> DEFINE R == {p \in Server : matched[l][p] >= i \/ vote[p].term <= vote[l].term}
           t == vote[l].term
<1>1. R \in Quorum
  BY DEF MayCommit
<1>2. \A p \in R : vote[p].term <= t
  <2> TAKE p \in R
  <2>1. matched[l][p] \in Int /\ i \in Int
    BY BoundsAssumption DEF LogTyped, Index, Absent
  <2> QED BY <2>1
<1>3. IdAt(view[l], i) \in LogId /\ IdAt(view[l], i).term = t
  <2>1. view[l] \in Seq(0 .. MaxTerm) /\ Len(view[l]) \in Nat /\ Len(view[l]) <= MaxIndex + 1
        /\ MaxIndex \in Nat
    BY BoundsAssumption DEF LogTyped
  <2>2. i + 1 \in 1 .. Len(view[l]) /\ i \in Index
    BY <2>1 DEF Index
  <2>3. view[l][i + 1] \in 0 .. MaxTerm
    BY <2>1, <2>2, ElementOf
  <2> QED BY <2>2, <2>3 DEF IdAt, LogId
<1>4. t \in Nat
  BY BoundsAssumption DEF VoteInv, VoteType, Vote
<1> HIDE DEF R, t
<1> QED BY <1>1, <1>2, <1>3, <1>4, FixedNow

(* The same of the next state.                                             *)
LEMMA SettledNewNext ==
  ((VoteInv /\ LogTyped /\ Written) =>
     \A l \in Server : \A i \in 0 .. Len(view[l]) - 1 :
       (\A p \in Server : matched[l][p] < i) => Settled(l, i))'
BY SettledNew, PTL

(* What a step does to an acknowledgement that a leader has, or adds one,  *)
(* and to the entries that it stands for.                                  *)
AckStep(l, p) ==
  \/ matched'[l][p] = matched[l][p]
  \/ /\ vote[p].term <= vote[l].term /\ vote'[p].term >= vote[l].term
     /\ matched'[l][p] < Len(view[l]) /\ HasTo(p, l, matched[l][p])'

Counts(l, i) == view[l][i + 1] = vote[l].term /\ MayCommit(l, i) /\ MayCommit(l, i)'

KeepsTo(l, p, i) == Counts(l, i) /\ matched[l][p] >= i /\ HasTo(p, l, i) => HasTo(p, l, i)'

(* An entry of a log is a log id.                                          *)
LEMMA IdIn ==
  ASSUME LogTyped, NEW l \in Server, NEW i \in 0 .. Len(view[l]) - 1
  PROVE  /\ IdAt(view[l], i) \in LogId /\ IdAt(view[l], i).term = view[l][i + 1]
         /\ IdAt(view[l], i).index = i /\ Contains(view[l], IdAt(view[l], i))
<1>1. /\ view[l] \in Seq(0 .. MaxTerm) /\ Len(view[l]) \in Nat /\ Len(view[l]) <= MaxIndex + 1
      /\ MaxIndex \in Nat
  BY BoundsAssumption DEF LogTyped
<1>2. i + 1 \in 1 .. Len(view[l]) /\ i \in Index /\ i < Len(view[l])
  BY <1>1 DEF Index
<1>3. view[l][i + 1] \in 0 .. MaxTerm
  BY <1>1, <1>2, ElementOf
<1> QED BY <1>2, <1>3 DEF IdAt, LogId, Contains

(* What a server has, it keeps, when the leader's log does not change.     *)
LEMMA HasKeeps ==
  ASSUME LogTyped, NEW l \in Server, NEW p \in Server, view'[l] = view[l],
         \A id \in LogId : Has(p, id) => Has(p, id)', NEW i \in 0 .. Len(view[l]) - 1
  PROVE  KeepsTo(l, p, i)
<1> SUFFICES ASSUME HasTo(p, l, i), NEW j \in 0 .. i PROVE Has(p, IdAt(view[l], j))'
  BY DEF KeepsTo, HasTo
<1>1. j \in 0 .. Len(view[l]) - 1
  <2>1. Len(view[l]) \in Nat
    BY DEF LogTyped
  <2> QED BY <2>1
<1>2. IdAt(view[l], j) \in LogId
  BY <1>1, IdIn
<1> QED BY <1>2 DEF HasTo

(* A leader whose log a step does not change.                              *)
LEMMA LeadKeeps ==
  ASSUME VoteType, VoteType', LogTyped, LogTyped', NEW l \in Server, LeadOK(l),
         vote'[l] = vote[l], view'[l] = view[l],
         \A p \in Server : vote'[p].term >= vote[p].term,
         \A p \in Server : AckStep(l, p),
         \A p \in Server : \A i \in 0 .. Len(view[l]) - 1 : KeepsTo(l, p, i),
         \A i \in 0 .. Len(view[l]) - 1 :
           Counts(l, i) /\ Fixed(IdAt(view[l], i)) => Fixed(IdAt(view[l], i))'
  PROVE  LeadOK(l)'
<1>0. /\ Len(view[l]) \in Nat
      /\ \A p \in Server : matched[l][p] \in Int /\ matched'[l][p] \in Int
      /\ \A p \in Server : vote[p].term \in Int /\ vote'[p].term \in Int
  BY BoundsAssumption DEF LogTyped, Index, Absent, VoteType, Vote
<1>1. ASSUME NEW i, MayCommit(l, i)' PROVE MayCommit(l, i)
  <2>1. \A p \in Server : matched'[l][p] = matched[l][p] \/ vote[p].term <= vote[l].term
    BY DEF AckStep
  <2> QED BY <1>1, <2>1, MayCommitBefore
<1>2. ASSUME NEW i \in 0 .. Len(view[l]) - 1 PROVE Settled(l, i)'
  <2> SUFFICES ASSUME view[l][i + 1] = vote[l].term, MayCommit(l, i)'
               PROVE  Fixed(IdAt(view[l], i))'
    BY DEF Settled
  <2>1. Counts(l, i) /\ Settled(l, i)
    BY <1>1 DEF Counts, LeadOK
  <2> QED BY <2>1 DEF Counts, Settled
<1>3. ASSUME NEW p \in Server PROVE AckHeld(l, p)'
  <2> SUFFICES ASSUME matched'[l][p] >= 0
               PROVE  /\ matched'[l][p] < Len(view[l]) /\ vote'[p].term >= vote[l].term
                      /\ \A i \in 0 .. matched'[l][p] :
                           view[l][i + 1] = vote[l].term /\ MayCommit(l, i)' => HasTo(p, l, i)'
    BY DEF AckHeld
  <2>1. CASE matched'[l][p] = matched[l][p]
    <3> DEFINE k == matched[l][p]
    <3>1. /\ k >= 0 /\ k < Len(view[l]) /\ vote[p].term >= vote[l].term
          /\ \A i \in 0 .. k : view[l][i + 1] = vote[l].term /\ MayCommit(l, i) => HasTo(p, l, i)
      BY <2>1 DEF LeadOK, AckHeld
    <3>2. vote'[p].term >= vote[l].term
      BY <1>0, <3>1
    <3>3. ASSUME NEW i \in 0 .. k, view[l][i + 1] = vote[l].term, MayCommit(l, i)'
          PROVE  HasTo(p, l, i)'
      <4>1. Counts(l, i) /\ HasTo(p, l, i)
        BY <1>1, <3>1, <3>3 DEF Counts
      <4>2. i \in 0 .. Len(view[l]) - 1 /\ k >= i
        <5>1. k \in Int /\ k < Len(view[l]) /\ Len(view[l]) \in Nat
          BY <1>0, <3>1
        <5> QED BY <5>1
      <4>3. KeepsTo(l, p, i)
        BY <4>2
      <4> QED BY <4>1, <4>2, <4>3 DEF KeepsTo
    <3> QED BY <2>1, <3>1, <3>2, <3>3
  <2>2. CASE /\ vote'[p].term >= vote[l].term
             /\ matched'[l][p] < Len(view[l]) /\ HasTo(p, l, matched[l][p])'
    <3>1. ASSUME NEW i \in 0 .. matched'[l][p] PROVE HasTo(p, l, i)'
      <4> SUFFICES ASSUME NEW j \in 0 .. i PROVE Has(p, IdAt(view[l], j))'
        BY DEF HasTo
      <4>1. j \in 0 .. matched'[l][p]
        BY <1>0
      <4> QED BY <2>2, <4>1 DEF HasTo
    <3> QED BY <2>2, <3>1
  <2> QED BY <2>1, <2>2 DEF AckStep
<1>4. Len(view'[l]) = Len(view[l])
  OBVIOUS
<1> QED BY <1>2, <1>3, <1>4 DEF LeadOK

(* A step that shortens logs keeps what is fixed.                          *)
LEMMA ShrinkLead ==
  ASSUME VoteType, VoteType', LogTyped, LogTyped', LogsMatch, Shrinks, NEW l \in Server,
         LeadOK(l), vote'[l] = vote[l], view'[l] = view[l],
         \A p \in Server : AckStep(l, p),
         \A p \in Server : \A i \in 0 .. Len(view[l]) - 1 : KeepsTo(l, p, i)
  PROVE  LeadOK(l)'
<1>1. \A p \in Server : vote'[p].term >= vote[p].term
  BY DEF Shrinks
<1>2. ASSUME NEW i \in 0 .. Len(view[l]) - 1, Fixed(IdAt(view[l], i))
      PROVE  Fixed(IdAt(view[l], i))'
  <2>1. PICK id \in LogId : id = IdAt(view[l], i)
    BY IdIn
  <2>2. Fixed(id)'
    BY <1>2, <2>1, ShrinkFixed
  <2>3. IdAt(view'[l], i) = id
    BY <2>1
  <2> QED BY <2>2, <2>3 DEF Fixed
<1> QED BY <1>1, <1>2, LeadKeeps

(* A server whose writes are done has what it knows.                       *)
LEMMA SavedHas ==
  LogTyped => \A p, l \in Server : \A j \in 0 .. Len(view[p]) - 1 :
    Saved(p) /\ view[p][j + 1] = view[l][j + 1] => Has(p, IdAt(view[l], j))
<1> SUFFICES ASSUME LogTyped, NEW p \in Server, NEW l \in Server, NEW j \in 0 .. Len(view[p]) - 1,
                    Saved(p), view[p][j + 1] = view[l][j + 1]
             PROVE  Has(p, IdAt(view[l], j))
  OBVIOUS
<1>1. Len(view[p]) \in Nat
  BY DEF LogTyped
<1>2. j <= last[p].index /\ log[p][j] = view[l][j + 1] /\ j < Len(view[p])
  BY <1>1 DEF Saved, OnDisk
<1> QED BY <1>2 DEF Has, Stored, Contains, IdAt

(* The same of the next state.                                             *)
LEMMA SavedHasNext ==
  (LogTyped => \A p, l \in Server : \A j \in 0 .. Len(view[p]) - 1 :
     Saved(p) /\ view[p][j + 1] = view[l][j + 1] => Has(p, IdAt(view[l], j)))'
BY SavedHas, PTL

(* The last write of a command is acknowledged: the server then has what   *)
(* the leader believes.                                                    *)
LEMMA ExecuteAck ==
  ASSUME VoteInv, LogTyped, LogTyped', IoInv, IoInv', NEW n \in Server, Execute(n),
         NEW l \in Server, Leader(l), NEW p \in Server
  PROVE  AckStep(l, p)
<1> DEFINE acks == Head(io[n]).ack
           q    == io[n]
<1>1. /\ up[n] /\ io[n] # <<>> /\ io' = [io EXCEPT ![n] = Tail(@)]
      /\ matched' = Match(acks, n) /\ UNCHANGED <<vote, up, view>>
  BY ExecuteIs
<1>2. CASE p # n \/ acks = {}
  BY <1>1, <1>2, MatchIs DEF AckStep
<1>3. CASE p = n /\ acks # {}
  <2>1. q \in Seq(Command) /\ q # <<>> /\ AckOK(n)
    BY <1>1 DEF LogTyped, IoInv, DiskOK, Writing
  <2>2. Len(q) \in Nat /\ 1 \in 1 .. Len(q) /\ Head(q) = q[1]
    <3> HIDE DEF q
    <3> QED BY <2>1
  <2>3. q[1] \in Command
    <3> HIDE DEF q
    <3> QED BY <2>1, <2>2, ElementOf
  <2>4. PICK to \in Server : /\ acks = {[to |-> to, index |-> Len(view[n]) - 1]}
                             /\ vote[n] = vote[to] /\ PrefixOf(view[n], view[to])
    BY <1>3, <2>1, <2>2 DEF AckOK
  <2>5. Len(q) = 1
    BY <1>3, <2>1, <2>2 DEF AckOK
  <2> DEFINE k == Len(view[n]) - 1
  <2>6. k \in Index
    <3>1. acks \in SUBSET [to : Server, index : Index]
      BY <2>2, <2>3 DEF Command
    <3>2. [to |-> to, index |-> k] \in [to : Server, index : Index]
      BY <2>4, <3>1
    <3> QED BY <3>2
  <2>7. \/ Match(acks, n)[l][n] = matched[l][n]
        \/ l = to /\ Match(acks, n)[l][n] = k
    BY <2>4, <2>6, MatchIs
  <2>8. CASE Match(acks, n)[l][n] = matched[l][n]
    BY <1>1, <1>3, <2>8 DEF AckStep
  <2>9. CASE l = to /\ Match(acks, n)[l][n] = k
    <3>1. matched'[l][n] = k
      BY <1>1, <2>9
    <3>2. Len(view[n]) \in Nat /\ Len(view[l]) \in Nat /\ k \in Int /\ k < Len(view[l])
      <4>1. Len(view[n]) \in Nat /\ Len(view[l]) \in Nat
        BY DEF LogTyped
      <4>2. Len(view[n]) <= Len(view[l])
        BY <2>4, <2>9, <4>1 DEF PrefixOf
      <4> QED BY <4>1, <4>2
    <3>3. vote[n].term <= vote[l].term /\ vote'[n].term >= vote[l].term
      <4>1. vote[n].term = vote[l].term /\ vote'[n] = vote[n] /\ vote[l].term \in Int
        BY <1>1, <2>4, <2>9 DEF VoteInv, VoteType, Vote
      <4> QED BY <4>1
    <3>4. Saved(n)'
      <4>1. Tail(q) = <<>>
        <5> HIDE DEF q
        <5> QED BY <2>1, <2>5, TailIs
      <4>2. io'[n] = <<>> /\ up'[n]
        BY <1>1, <4>1 DEF LogTyped
      <4> QED BY <4>2 DEF IoInv, DiskOK
    <3>5. ASSUME NEW j \in 0 .. k PROVE Has(n, IdAt(view[l], j))'
      <4>1. j \in 0 .. Len(view[n]) - 1 /\ j + 1 \in 1 .. Len(view[n])
        BY <3>2
      <4>2. view[n][j + 1] = view[l][j + 1]
        BY <2>4, <2>9, <4>1 DEF PrefixOf
      <4>3. j \in 0 .. Len(view'[n]) - 1 /\ view'[n][j + 1] = view'[l][j + 1]
        BY <1>1, <4>1, <4>2
      <4> QED BY <3>4, <4>3, SavedHasNext
    <3>6. HasTo(n, l, matched[l][n])'
      BY <3>1, <3>5 DEF HasTo
    <3> QED BY <1>3, <3>1, <3>2, <3>3, <3>6 DEF AckStep
  <2> QED BY <2>7, <2>8, <2>9
<1> QED BY <1>2, <1>3

(* A write to disk keeps MatchInv: its acknowledgement is sent with the    *)
(* last write, when all entries are on disk.                               *)
LEMMA ExecuteMatch ==
  ASSUME VoteInv, VoteInv', LogTyped, LogTyped', LogsMatch, IoInv, IoInv', MatchInv,
         NEW n \in Server, Execute(n)
  PROVE  MatchInv'
<1> SUFFICES ASSUME NEW l \in Server, Leader(l)' PROVE LeadOK(l)'
  BY DEF MatchInv
<1>1. UNCHANGED <<vote, up, view>>
  BY ExecuteIs
<1>2. Leader(l) /\ LeadOK(l)
  BY <1>1 DEF Leader, MatchInv
<1>3. Shrinks
  BY ExecuteShrinks DEF VoteInv
<1>4. \A p \in Server : AckStep(l, p)
  BY <1>2, ExecuteAck
<1>5. ASSUME NEW p \in Server, NEW i \in 0 .. Len(view[l]) - 1 PROVE KeepsTo(l, p, i)
  <2>1. \A id \in LogId : Has(p, id) => Has(p, id)'
    BY ExecuteHas
  <2> QED BY <1>1, <2>1, HasKeeps
<1> QED BY <1>1, <1>2, <1>3, <1>4, <1>5, ShrinkLead DEF VoteInv

(* A leader of an earlier term may still commit only what later leaders    *)
(* have.                                                                   *)
LEMMA LaterHas ==
  ASSUME VoteInv, LogTyped, LogsMatch, IoInv, MatchInv,
         NEW m \in Server, Leader(m), NEW l \in Server, Leader(l), vote[l].term > vote[m].term,
         NEW i \in 0 .. Len(view[m]) - 1, view[m][i + 1] = vote[m].term, MayCommit(m, i),
         NEW j \in 0 .. i
  PROVE  Contains(view[l], IdAt(view[m], j))
<1>1. Settled(m, i)
  BY DEF MatchInv, LeadOK
<1>2. Fixed(IdAt(view[m], i)) /\ IdAt(view[m], i).term = vote[m].term
  BY <1>1 DEF Settled, IdAt
<1>3. Led(l) /\ view[l] \in LogsOf(l) /\ view[m] \in LogsOf(m)
  BY DEF Leader, Led, LogsOf
<1>4. Contains(view[l], IdAt(view[m], i))
  BY <1>2, <1>3 DEF Fixed
<1>5. view[l] \in Seq(Nat) /\ view[m] \in Seq(Nat)
  BY <1>3, LogsTyped
<1>6. Matching(view[l], view[m])
  BY <1>3 DEF LogsMatch, Logs
<1>7. i \in Nat /\ i < Len(view[m])
  <2>1. Len(view[m]) \in Nat
    BY <1>5
  <2> QED BY <2>1
<1> QED BY <1>4, <1>5, <1>6, <1>7, ContainsBefore

(* A follower that has everything already acknowledges it at once.         *)
LEMMA AppendAck ==
  ASSUME VoteInv, LogTyped, LogTyped', LogsMatch, IoInv, IoInv', NEW l \in Server, NEW p \in Server,
         l # p, Leader(l), Idle(l), Idle(p), NEW prev \in -1 .. MaxIndex, NEW hi \in Index,
         prev < hi, AppendEntries(l, p, prev, hi), NEW m \in Server, m # p, NEW q \in Server
  PROVE  AckStep(m, q)
<1>1. /\ VoteGE(vote[l], vote[p]) /\ vote' = [vote EXCEPT ![p] = vote[l]] /\ UNCHANGED up
  BY AppendIs DEF VoteInv
<1>2. /\ hi < Len(view[l])
      /\ \/ HasAll(l, p, hi)
         \/ \E f \in 0 .. hi : Adopts(l, p, hi, f)
         \/ Drops(l, p, prev)
  BY AppendDoes DEF VoteInv
<1>3. CASE matched'[m] = matched[m]
  BY <1>3 DEF AckStep
<1>4. CASE HasAll(l, p, hi)
  <2> DEFINE acks == {[to |-> l, index |-> hi]}
  <2>1. matched' = Match(acks, p) /\ UNCHANGED <<view, io>> /\ AgreeTo(l, p, hi + 1)
    BY <1>4 DEF HasAll
  <2>2. CASE q # p
    <3>1. Match(acks, p)[m][q] = matched[m][q]
      BY <2>2, MatchIs
    <3> QED BY <2>1, <3>1 DEF AckStep
  <2>3. CASE q = p
    <3>1. Match(acks, p)[m][p] = matched[m][p] \/ (m = l /\ Match(acks, p)[m][p] = hi)
      BY MatchIs
    <3>2. CASE Match(acks, p)[m][p] = matched[m][p]
      BY <2>1, <2>3, <3>2 DEF AckStep
    <3>3. CASE m = l /\ Match(acks, p)[m][p] = hi
      <4>1. matched'[l][p] = hi
        BY <2>1, <3>3
      <4>2. vote[p].term <= vote[l].term /\ vote'[p].term >= vote[l].term
        BY <1>1 DEF VoteGE, VoteInv, VoteType, Vote
      <4>3. Saved(p)'
        <5>1. up'[p] /\ io'[p] = <<>>
          BY <1>1, <2>1 DEF Idle
        <5> QED BY <5>1 DEF IoInv, DiskOK
      <4>4. ASSUME NEW j \in 0 .. hi PROVE Has(p, IdAt(view[l], j))'
        <5>1. hi \in Nat /\ Len(view[p]) \in Nat
          BY BoundsAssumption DEF Index, LogTyped
        <5>2. j \in 0 .. (hi + 1) - 1
          BY <5>1
        <5>3. j < Len(view[p]) /\ view[p][j + 1] = view[l][j + 1]
          BY <2>1, <5>2 DEF AgreeTo
        <5>4. j \in 0 .. Len(view[p]) - 1
          BY <5>1, <5>3
        <5>5. j \in 0 .. Len(view'[p]) - 1 /\ view'[p][j + 1] = view'[l][j + 1]
          BY <2>1, <5>3, <5>4
        <5> QED BY <4>3, <5>5, SavedHasNext
      <4>5. HasTo(p, l, matched[l][p])'
        BY <4>1, <4>4 DEF HasTo
      <4> QED BY <1>2, <2>3, <3>3, <4>1, <4>2, <4>5 DEF AckStep
    <3> QED BY <3>1, <3>2, <3>3
  <2> QED BY <2>2, <2>3
<1>5. CASE \E f \in 0 .. hi : Adopts(l, p, hi, f)
  <2>1. matched'[m] = matched[m]
    BY <1>5 DEF Adopts, LogTyped
  <2> QED BY <1>3, <2>1
<1>6. CASE Drops(l, p, prev)
  <2>1. matched'[m] = matched[m]
    BY <1>6 DEF Drops, LogTyped
  <2> QED BY <1>3, <2>1
<1> QED BY <1>2, <1>4, <1>5, <1>6

(* append_entries keeps MatchInv: a follower that has all entries          *)
(* acknowledges them at once, and what another drops was never             *)
(* acknowledged to a leader that may still commit it.                      *)
LEMMA AppendMatch ==
  ASSUME VoteInv, VoteInv', LogTyped, LogTyped', LogsMatch, IoInv, IoInv', MatchInv,
         NEW l \in Server, NEW p \in Server, l # p, Leader(l), Idle(l), Idle(p),
         NEW prev \in -1 .. MaxIndex, NEW hi \in Index, prev < hi, AppendEntries(l, p, prev, hi)
  PROVE  MatchInv'
<1> SUFFICES ASSUME NEW m \in Server, Leader(m)' PROVE LeadOK(m)'
  BY DEF MatchInv
<1>1. /\ VoteGE(vote[l], vote[p]) /\ vote' = [vote EXCEPT ![p] = vote[l]] /\ UNCHANGED up
  BY AppendIs DEF VoteInv
<1>2. /\ hi < Len(view[l])
      /\ \/ HasAll(l, p, hi)
         \/ \E f \in 0 .. hi : Adopts(l, p, hi, f)
         \/ Drops(l, p, prev)
  BY AppendDoes DEF VoteInv
<1>3. m # p
  BY <1>1 DEF Leader, VoteInv, VoteType
<1>4. vote'[m] = vote[m] /\ view'[m] = view[m]
  <2>1. vote'[m] = vote[m]
    BY <1>1, <1>3 DEF VoteInv, VoteType
  <2>2. view'[m] = view[m]
    BY <1>2, <1>3 DEF HasAll, Adopts, Drops, LogTyped
  <2> QED BY <2>1, <2>2
<1>5. Leader(m) /\ LeadOK(m)
  BY <1>1, <1>4 DEF Leader, MatchInv
<1>6. Shrinks
  BY AppendShrinks
<1>7. \A q \in Server : AckStep(m, q)
  BY <1>3, AppendAck
<1>8. ASSUME NEW q \in Server, NEW i \in 0 .. Len(view[m]) - 1 PROVE KeepsTo(m, q, i)
  <2>1. CASE q # p
    <3>1. \A id \in LogId : Has(q, id) => Has(q, id)'
      BY <2>1, AppendHas
    <3> QED BY <1>4, <3>1, HasKeeps
  <2>2. CASE q = p
    <3> SUFFICES ASSUME Counts(m, i), matched[m][p] >= i, HasTo(p, m, i), NEW j \in 0 .. i
                 PROVE  Has(p, IdAt(view[m], j))'
      BY <2>2 DEF KeepsTo, HasTo
    <3>0. Len(view[m]) \in Nat /\ matched[m][p] \in Int /\ i \in Nat
      <4>1. Len(view[m]) \in Nat
        BY DEF LogTyped
      <4>2. matched[m][p] \in Int
        BY BoundsAssumption DEF LogTyped, Index, Absent
      <4> QED BY <4>1, <4>2
    <3>1. j \in 0 .. Len(view[m]) - 1
      BY <3>0
    <3>2. PICK id \in LogId : id = IdAt(view[m], j)
      BY <3>1, IdIn
    <3>3. Contains(view[l], id)
      <4>1. CASE m = l
        BY <3>1, <3>2, <4>1, IdIn
      <4>2. CASE m # l
        <5>1. vote[m].term # vote[l].term
          BY <1>5, <4>2 DEF VoteInv, OneElected, CommittedVoteWon, Leader
        <5>2. vote[p].term >= vote[m].term
          <6>1. matched[m][p] >= 0
            BY <3>0
          <6>2. AckHeld(m, p)
            BY <1>5 DEF LeadOK
          <6> QED BY <6>1, <6>2 DEF AckHeld
        <5>3. vote[l].term > vote[m].term
          BY <1>1, <5>1, <5>2 DEF VoteGE, VoteInv, VoteType, Vote
        <5> QED BY <1>5, <3>2, <5>3, LaterHas DEF Counts
      <4> QED BY <4>1, <4>2
    <3>4. Has(p, id)
      BY <3>2 DEF HasTo
    <3>5. Has(p, id)'
      BY <3>3, <3>4, AppendHas
    <3>6. id = IdAt(view'[m], j)
      BY <1>4, <3>2
    <3> QED BY <3>5, <3>6 DEF Has, Stored, Contains
  <2> QED BY <2>1, <2>2
<1> QED BY <1>4, <1>5, <1>6, <1>7, <1>8, ShrinkLead DEF VoteInv

(* A leader that a step does not touch.                                    *)
LEMMA StillLeads ==
  ASSUME VoteInv, VoteInv', LogTyped, LogTyped', LogsMatch, Shrinks, NEW l \in Server, LeadOK(l),
         vote'[l] = vote[l], view'[l] = view[l], matched'[l] = matched[l],
         \A p \in Server : \A id \in LogId : Has(p, id) => Has(p, id)'
  PROVE  LeadOK(l)'
<1>1. \A p \in Server : AckStep(l, p)
  BY DEF AckStep
<1>2. \A p \in Server : \A i \in 0 .. Len(view[l]) - 1 : KeepsTo(l, p, i)
  BY HasKeeps
<1> QED BY <1>1, <1>2, ShrinkLead DEF VoteInv

(* A leader without acknowledgements.                                      *)
LEMMA StartsLead ==
  ASSUME VoteInv', LogTyped', Written', NEW l \in Server, matched'[l] = NoMatch
  PROVE  LeadOK(l)'
<1>1. \A p \in Server : matched'[l][p] = -1
  BY DEF NoMatch, Absent
<1>2. \A p \in Server : AckHeld(l, p)'
  BY <1>1 DEF AckHeld
<1>3. ASSUME NEW i \in 0 .. Len(view'[l]) - 1 PROVE Settled(l, i)'
  <2>1. \A p \in Server : matched'[l][p] < i
    <3> TAKE p \in Server
    <3>1. matched'[l][p] = -1 /\ i \in Int /\ i >= 0
      BY <1>1
    <3> QED BY <3>1
  <2> QED BY <2>1, SettledNewNext
<1> QED BY <1>2, <1>3 DEF LeadOK

(* A crash keeps MatchInv: what was acknowledged is on disk.               *)
LEMMA CrashMatch ==
  ASSUME VoteInv, VoteInv', LogTyped, LogTyped', LogsMatch, MatchInv, NEW n \in Server, Crash(n)
  PROVE  MatchInv'
<1> SUFFICES ASSUME NEW l \in Server, Leader(l)' PROVE LeadOK(l)'
  BY DEF MatchInv
<1>1. /\ UNCHANGED vote /\ up' = [up EXCEPT ![n] = FALSE]
      /\ view' = [view EXCEPT ![n] = <<>>] /\ matched' = [matched EXCEPT ![n] = NoMatch]
  BY DEF Crash, diskVars
<1>2. /\ l # n /\ vote'[l] = vote[l] /\ view'[l] = view[l] /\ matched'[l] = matched[l]
      /\ up'[l] = up[l]
  BY <1>1 DEF Leader, LogTyped
<1>3. LeadOK(l)
  BY <1>2 DEF Leader, MatchInv
<1>4. Shrinks
  BY CrashShrinks DEF VoteInv
<1>5. \A p \in Server : \A id \in LogId : Has(p, id) => Has(p, id)'
  BY CrashHas
<1> QED BY <1>2, <1>3, <1>4, <1>5, StillLeads

(* A restart keeps MatchInv: nobody has acknowledged anything to the       *)
(* restarted server.                                                       *)
LEMMA RestartMatch ==
  ASSUME VoteInv, VoteInv', LogTyped, LogTyped', LogsMatch, Written', IoInv, MatchInv,
         NEW n \in Server, Restart(n)
  PROVE  MatchInv'
<1> SUFFICES ASSUME NEW l \in Server, Leader(l)' PROVE LeadOK(l)'
  BY DEF MatchInv
<1>1. /\ ~up[n] /\ up' = [up EXCEPT ![n] = TRUE]
      /\ view' = [view EXCEPT ![n] = get_log_state(n)] /\ UNCHANGED matched
  BY DEF Restart
<1>2. vote' = vote
  BY DEF Restart, read_vote, VoteInv, VoteType
<1>3. CASE l = n
  <2>1. matched'[l] = NoMatch
    BY <1>1, <1>3 DEF IoInv, DiskOK
  <2> QED BY <2>1, StartsLead
<1>4. CASE l # n
  <2>1. vote'[l] = vote[l] /\ view'[l] = view[l] /\ matched'[l] = matched[l] /\ up'[l] = up[l]
    BY <1>1, <1>2, <1>4 DEF LogTyped
  <2>2. LeadOK(l)
    BY <2>1 DEF Leader, MatchInv
  <2>3. Shrinks
    BY RestartShrinks DEF VoteInv
  <2>4. \A p \in Server : \A id \in LogId : Has(p, id) => Has(p, id)'
    BY RestartHas
  <2> QED BY <2>1, <2>2, <2>3, <2>4, StillLeads
<1> QED BY <1>3, <1>4

(* Steps that leave disks and memories alone.                              *)
LEMMA QuietMatch ==
  ASSUME VoteInv, VoteInv', LogTyped, LogTyped', LogsMatch, MatchInv, Shrinks,
         UNCHANGED <<log, last, up, view>>,
         \A l \in Server : Led(l)' => matched'[l] = matched[l]
  PROVE  MatchInv'
<1> SUFFICES ASSUME NEW l \in Server, Leader(l)' PROVE LeadOK(l)'
  BY DEF MatchInv
<1>1. Led(l)' /\ Led(l) /\ vote'[l] = vote[l] /\ up[l]
  BY DEF Leader, Led, Shrinks
<1>2. Leader(l) /\ LeadOK(l) /\ matched'[l] = matched[l]
  BY <1>1 DEF Leader, Led, MatchInv
<1>3. \A p \in Server : \A id \in LogId : Has(p, id) => Has(p, id)'
  BY DEF Has, Stored
<1> QED BY <1>1, <1>2, <1>3, StillLeads

(* A lost election keeps MatchInv: it only raises votes.                   *)
LEMMA LoseMatch ==
  ASSUME VoteInv, VoteInv', LogTyped, LogTyped', LogsMatch, MatchInv, NEW n \in Server,
         NEW Q \in SUBSET Server, Elect(n, Q), Q \cup {n} \notin Quorum
  PROVE  MatchInv'
<1>1. Shrinks
  BY LoseShrinks
<1>2. Elects(n, Q, vote[n].term + 1) /\ UNCHANGED view
  BY ElectIs DEF VoteInv
<1>3. UNCHANGED <<log, last, up, view>>
  BY <1>2 DEF Elects
<1>4. ASSUME NEW l \in Server, Led(l)' PROVE matched'[l] = matched[l]
  <2>1. l \notin Q \cup {n}
    BY <1>2, <1>4 DEF Elects, Led
  <2> QED BY <1>2, <2>1 DEF Elects
<1> QED BY <1>1, <1>3, <1>4, QuietMatch

(* Stepping down keeps MatchInv: one leader less.                          *)
LEMMA HigherMatch ==
  ASSUME VoteInv, VoteInv', LogTyped, LogTyped', LogsMatch, OwnVote, MatchInv, NEW l \in Server,
         NEW p \in Server, Leader(l), HigherVote(l, p)
  PROVE  MatchInv'
<1>1. Shrinks
  BY HigherShrinks
<1>2. /\ vote' = [vote EXCEPT ![l] = vote[p]] /\ vote[p].node # l
      /\ UNCHANGED <<log, last, up, view>> /\ matched' = [matched EXCEPT ![l] = NoMatch]
  BY HigherIs
<1>3. ASSUME NEW m \in Server, Led(m)' PROVE matched'[m] = matched[m]
  <2>1. m # l
    BY <1>2, <1>3 DEF Led, VoteInv, VoteType
  <2> QED BY <1>2, <2>1 DEF LogTyped
<1> QED BY <1>1, <1>2, <1>3, QuietMatch

(* A step that changes neither logs, votes nor acknowledgements keeps      *)
(* MatchInv.                                                               *)
LEMMA SameMatch ==
  ASSUME VoteInv, VoteInv', LogTyped, LogTyped', LogsMatch, MatchInv,
         UNCHANGED <<log, last, vote, up, view, matched, elected>>
  PROVE  MatchInv'
<1>1. \A n \in Server : LogsOf(n)' = LogsOf(n)
  BY SameLogs
<1>2. Shrinks
  <2>1. \A m \in Server : vote'[m].term >= vote[m].term
    BY DEF VoteInv, VoteType, Vote
  <2>2. \A m \in Server : Led(m)' => Led(m) /\ vote'[m] = vote[m]
    BY DEF Led
  <2> QED BY <1>1, <2>1, <2>2, SubShrinks DEF VoteInv
<1> QED BY <1>2, QuietMatch

(* Other leaders, when a leader extends its log.                           *)
LEMMA ExtendLead ==
  ASSUME VoteInv, VoteInv', LogTyped, LogTyped', NEW n \in Server, NEW t \in 0 .. MaxTerm,
         Extend(n, [term |-> t, index |-> Len(view[n])]), UNCHANGED <<log, last, up>>,
         Extends(n, t), NEW l \in Server, l # n, LeadOK(l), vote'[l] = vote[l],
         matched'[l] = matched[l],
         \A i \in 0 .. Len(view[l]) - 1 : Counts(l, i) /\ Fixed(IdAt(view[l], i)) =>
           vote[l].term >= t \/ Contains(view[n], IdAt(view[l], i))
  PROVE  LeadOK(l)'
<1>1. view'[l] = view[l] /\ \A p \in Server : vote'[p].term >= vote[p].term
  BY DEF Extend, LogTyped, Extends
<1>2. \A p \in Server : AckStep(l, p)
  BY DEF AckStep
<1>3. ASSUME NEW p \in Server, NEW i \in 0 .. Len(view[l]) - 1 PROVE KeepsTo(l, p, i)
  <2>1. \A id \in LogId : Has(p, id) => Has(p, id)'
    BY ExtendHas
  <2> QED BY <1>1, <2>1, HasKeeps
<1>4. ASSUME NEW i \in 0 .. Len(view[l]) - 1, Counts(l, i), Fixed(IdAt(view[l], i))
      PROVE  Fixed(IdAt(view[l], i))'
  <2>1. PICK id \in LogId : id = IdAt(view[l], i)
    BY IdIn
  <2>2. id.term = vote[l].term
    BY <1>4, <2>1 DEF Counts, IdAt
  <2>3. id.term >= t \/ Contains(view[n], id)
    BY <1>4, <2>1, <2>2
  <2>4. Fixed(id)'
    BY <1>4, <2>1, <2>3, ExtendFixed
  <2>5. IdAt(view'[l], i) = id
    BY <1>1, <2>1
  <2> QED BY <2>4, <2>5 DEF Fixed
<1> QED BY <1>1, <1>2, <1>3, <1>4, LeadKeeps DEF VoteInv

(* A new leader has what an earlier one may still commit: one of its       *)
(* voters has acknowledged it.                                             *)
LEMMA WinMatch ==
  ASSUME VoteInv, VoteInv', LogTyped, LogTyped', LogsMatch, Written, BelowVote, Written', IoInv,
         MatchInv, NEW n \in Server, NEW Q \in SUBSET Server, Elect(n, Q), Q \cup {n} \in Quorum
  PROVE  MatchInv'
<1> SUFFICES ASSUME NEW l \in Server, Leader(l)' PROVE LeadOK(l)'
  BY DEF MatchInv
<1> DEFINE t == vote[n].term + 1
<1>1. /\ Elects(n, Q, t) /\ Extend(n, [term |-> t, index |-> Len(view[n])])
  BY ElectIs DEF VoteInv
<1>2. /\ t \in 0 .. MaxTerm /\ t \in 1 .. MaxTerm /\ UNCHANGED <<log, last, up>>
      /\ matched' = [p \in Server |-> IF p \in Q \cup {n} THEN NoMatch ELSE matched[p]]
      /\ \A p \in Q : ~vote'[p].committed
      /\ \A p \in Server \ (Q \cup {n}) : vote'[p] = vote[p]
      /\ \A p \in Q \cup {n} : Idle(p) /\ vote'[p].term = t
  BY <1>1 DEF Elects
<1>3. Extends(n, t)
  BY WinExtends
<1>4. CASE l = n
  <2>1. matched'[l] = NoMatch
    BY <1>2, <1>4
  <2> QED BY <2>1, StartsLead
<1>5. CASE l # n
  <2>1. l \notin Q \cup {n}
    BY <1>2, <1>5 DEF Leader
  <2>2. vote'[l] = vote[l] /\ matched'[l] = matched[l]
    BY <1>2, <2>1
  <2>3. Leader(l) /\ LeadOK(l)
    BY <1>2, <2>2 DEF Leader, MatchInv
  <2>4. vote[l].term < t
    <3>1. \A m \in Server : vote[m].committed => vote[m].term < t
      BY <1>1, NewTerm
    <3> QED BY <2>3, <3>1 DEF Leader
  <2>5. ASSUME NEW i \in 0 .. Len(view[l]) - 1, Counts(l, i), Fixed(IdAt(view[l], i))
        PROVE  Contains(view[n], IdAt(view[l], i))
    <3> DEFINE R == {p \in Server : matched'[l][p] >= i \/ vote'[p].term <= vote'[l].term}
    <3>1. R \in Quorum
      BY <2>5 DEF Counts, MayCommit
    <3>2. PICK p \in Server : p \in R /\ p \in Q \cup {n}
      BY <3>1, QuorumsMeet
    <3>3. ~(vote'[p].term <= vote'[l].term)
      <4>1. vote'[p].term = t /\ vote'[l].term = vote[l].term
        BY <1>2, <2>2, <3>2
      <4>2. vote[l].term \in Int /\ t \in Int
        BY <1>2 DEF VoteInv, VoteType, Vote
      <4> HIDE DEF t
      <4> QED BY <2>4, <4>1, <4>2
    <3>4. matched[l][p] >= i
      BY <2>2, <3>2, <3>3
    <3>5. PICK id \in LogId : id = IdAt(view[l], i)
      BY IdIn
    <3>6. Has(p, id)
      <4>1. matched[l][p] \in Int /\ i \in Nat
        <5>1. matched[l][p] \in Int
          BY BoundsAssumption DEF LogTyped, Index, Absent
        <5> QED BY <5>1
      <4>2. matched[l][p] >= 0 /\ i \in 0 .. matched[l][p] /\ i \in 0 .. i
        BY <3>4, <4>1
      <4>3. AckHeld(l, p)
        BY <2>3 DEF LeadOK
      <4>4. HasTo(p, l, i)
        BY <2>5, <4>2, <4>3 DEF AckHeld, Counts
      <4> QED BY <3>5, <4>2, <4>4 DEF HasTo
    <3>7. Contains(view[p], id)
      BY <1>2, <3>2, <3>6 DEF Has, Idle
    <3>8. Contains(view[n], id)
      BY <1>1, <2>5, <3>2, <3>5, <3>7, ElectHas
    <3> QED BY <3>5, <3>8
  <2> HIDE DEF t
  <2> QED BY <1>1, <1>2, <1>3, <1>5, <2>2, <2>3, <2>5, ExtendLead
<1> QED BY <1>4, <1>5

(* The leader that writes.                                                 *)
LEMMA WriteLead ==
  ASSUME VoteInv, VoteInv', LogTyped, LogTyped', Written', NEW n \in Server, LeadOK(n),
         ClientWrite(n), Extends(n, vote[n].term)
  PROVE  LeadOK(n)'
<1> DEFINE t == vote[n].term
           v == view[n]
           w == view'[n]
<1>1. /\ Extend(n, [term |-> t, index |-> Len(view[n])])
      /\ UNCHANGED <<log, last, up, vote, matched>>
  BY DEF ClientWrite, diskVars
<1>2. v \in Seq(Nat) /\ Len(v) \in Nat /\ t \in 0 .. MaxTerm /\ t \in Nat
  BY BoundsAssumption DEF LogTyped, VoteInv, VoteType, Vote
<1>3. w = Append(v, t)
  BY <1>1 DEF Extend, LogTyped
<1>4. Len(w) = Len(v) + 1 /\ \A k \in 1 .. Len(v) : w[k] = v[k]
  <2> HIDE DEF v, w, t
  <2> QED BY <1>2, <1>3, AppendOne
<1>5. \A p \in Server : matched[n][p] \in Int
  BY BoundsAssumption DEF LogTyped, Index, Absent
<1>6. \A i : MayCommit(n, i)' <=> MayCommit(n, i)
  BY <1>1 DEF MayCommit
<1>7. ASSUME NEW j \in 0 .. Len(v) - 1 PROVE w[j + 1] = v[j + 1] /\ IdAt(w, j) = IdAt(v, j)
  <2>1. j + 1 \in 1 .. Len(v)
    <3>1. Len(v) \in Nat
      BY <1>2
    <3> QED BY <3>1
  <2>2. w[j + 1] = v[j + 1]
    BY <1>4, <2>1
  <2> QED BY <2>2 DEF IdAt
<1>8. ASSUME NEW p \in Server PROVE AckHeld(n, p)'
  <2> DEFINE k == matched[n][p]
  <2> SUFFICES ASSUME k >= 0
               PROVE  /\ k < Len(w) /\ vote[p].term >= t
                      /\ \A i \in 0 .. k : w[i + 1] = t /\ MayCommit(n, i)' => HasTo(p, n, i)'
    BY <1>1 DEF AckHeld
  <2>1. /\ k < Len(v) /\ vote[p].term >= t
        /\ \A i \in 0 .. k : v[i + 1] = t /\ MayCommit(n, i) => HasTo(p, n, i)
    BY DEF LeadOK, AckHeld
  <2>2. k \in Int /\ k < Len(w)
    <3>1. k \in Int
      BY <1>5
    <3> HIDE DEF k, v, w
    <3> QED BY <1>2, <1>4, <2>1, <3>1
  <2>3. ASSUME NEW i \in 0 .. k, w[i + 1] = t, MayCommit(n, i)', NEW j \in 0 .. i
        PROVE  Has(p, IdAt(view[n], j))'
    <3>1. i \in 0 .. Len(v) - 1 /\ j \in 0 .. Len(v) - 1
      <4>1. k \in Int /\ k < Len(v) /\ Len(v) \in Nat
        BY <1>2, <2>1, <2>2
      <4> HIDE DEF k, v
      <4> QED BY <4>1
    <3>2. HasTo(p, n, i)
      <4>1. v[i + 1] = t /\ MayCommit(n, i)
        BY <1>6, <1>7, <2>3, <3>1
      <4> QED BY <2>1, <4>1
    <3>3. PICK id \in LogId : id = IdAt(v, j)
      BY <3>1, IdIn
    <3>4. Has(p, id)
      BY <3>2, <3>3 DEF HasTo
    <3>5. Has(p, id)'
      BY <1>1, <1>2, <3>4, ExtendHas
    <3>6. id = IdAt(view'[n], j)
      BY <1>7, <3>1, <3>3
    <3> QED BY <3>5, <3>6 DEF Has, Stored, Contains
  <2> QED BY <2>1, <2>2, <2>3 DEF HasTo
<1>9. ASSUME NEW i \in 0 .. Len(w) - 1 PROVE Settled(n, i)'
  <2>1. CASE i \in 0 .. Len(v) - 1
    <3> SUFFICES ASSUME w[i + 1] = t, MayCommit(n, i)' PROVE Fixed(IdAt(view[n], i))'
      BY <1>1 DEF Settled
    <3>1. PICK id \in LogId : id = IdAt(v, i)
      BY <2>1, IdIn
    <3>2. v[i + 1] = t /\ MayCommit(n, i) /\ Settled(n, i)
      BY <1>6, <1>7, <2>1 DEF LeadOK
    <3>3. Fixed(id) /\ id.term = t
      BY <3>1, <3>2 DEF Settled, IdAt
    <3>4. id.term >= t
      BY <1>2, <3>3
    <3>5. Fixed(id)'
      BY <3>3, <3>4, ExtendFixed
    <3>6. IdAt(view'[n], i) = id
      BY <1>7, <2>1, <3>1
    <3> QED BY <3>5, <3>6 DEF Fixed
  <2>2. CASE i = Len(v)
    <3>1. ASSUME NEW p \in Server PROVE matched'[n][p] < i
      <4>1. matched[n][p] >= 0 => matched[n][p] < Len(v)
        BY DEF LeadOK, AckHeld
      <4>2. matched[n][p] \in Int /\ matched'[n][p] = matched[n][p] /\ Len(v) \in Nat
        BY <1>1, <1>2, <1>5
      <4> HIDE DEF v
      <4> QED BY <2>2, <4>1, <4>2
    <3> QED BY <3>1, SettledNewNext
  <2>3. i \in 0 .. Len(v) - 1 \/ i = Len(v)
    <3> HIDE DEF v, w
    <3> QED BY <1>2, <1>4
  <2> QED BY <2>1, <2>2, <2>3
<1> QED BY <1>8, <1>9 DEF LeadOK

(* client_write keeps MatchInv: nobody has acknowledged the new entry, and *)
(* the writing leader has what one of an earlier term may still commit.    *)
LEMMA WriteMatch ==
  ASSUME VoteInv, VoteInv', LogTyped, LogTyped', LogsMatch, BelowVote, LeaderHasOwn, Written',
         IoInv, MatchInv, NEW n \in Server, ClientWrite(n)
  PROVE  MatchInv'
<1> SUFFICES ASSUME NEW l \in Server, Leader(l)' PROVE LeadOK(l)'
  BY DEF MatchInv
<1> DEFINE t == vote[n].term
<1>1. /\ Leader(n) /\ Extend(n, [term |-> t, index |-> Len(view[n])])
      /\ UNCHANGED <<log, last, up, vote, matched>>
  BY DEF ClientWrite, diskVars
<1>2. Extends(n, t) /\ t \in 0 .. MaxTerm
  BY WriteExtends DEF VoteInv, VoteType, Vote
<1>3. Leader(l) /\ LeadOK(l)
  BY <1>1 DEF Leader, MatchInv
<1>4. CASE l = n
  BY <1>2, <1>3, <1>4, WriteLead
<1>5. CASE l # n
  <2>1. vote'[l] = vote[l] /\ matched'[l] = matched[l]
    BY <1>1
  <2>2. ASSUME NEW i \in 0 .. Len(view[l]) - 1, Counts(l, i), ~(vote[l].term >= t)
        PROVE  Contains(view[n], IdAt(view[l], i))
    <3>1. t > vote[l].term /\ i \in 0 .. i
      BY <2>2 DEF VoteInv, VoteType, Vote
    <3> QED BY <1>1, <1>3, <2>2, <3>1, LaterHas DEF Counts
  <2> HIDE DEF t
  <2> QED BY <1>1, <1>2, <1>3, <1>5, <2>1, <2>2, ExtendLead
<1> QED BY <1>4, <1>5
-----------------------------------------------------------------------------
(* What a committed entry and its point of commit are.                     *)
LEMMA PointIs ==
  ASSUME LogTyped, NEW c \in committed, NEW d \in Point(c)
  PROVE  /\ c.id \in LogId /\ d \in LogId /\ d.term = c.at /\ c.at \in Nat
         /\ c.id.index \in Nat /\ d.index \in Nat /\ c.id.index <= d.index
         /\ d.term \in Nat
<1>1. c.id \in LogId /\ c.at \in 0 .. MaxTerm /\ d \in LogId /\ d.term = c.at
      /\ d.index >= c.id.index
  BY DEF LogTyped, Point
<1> QED BY <1>1, BoundsAssumption DEF LogId, Index

(* A committed entry stays where it is when logs are shortened, if its     *)
(* quorum keeps it.                                                        *)
LEMMA ShrinkHeld ==
  ASSUME VoteType, VoteType', LogTyped, LogsMatch, Shrinks, NEW c \in committed,
         NEW d \in Point(c), NEW Q \in Quorum, HeldBy(c, d, Q),
         \A p \in Q : Has(p, c.id)' /\ Has(p, d)'
  PROVE  HeldBy(c, d, Q)'
<1>0. /\ c.id \in LogId /\ d \in LogId /\ d.term = c.at /\ c.at \in Nat
      /\ c.id.index \in Nat /\ d.index \in Nat /\ c.id.index <= d.index
  BY PointIs
<1>1. ASSUME NEW p \in Q PROVE vote'[p].term >= c.at
  <2>1. p \in Server
    BY DEF Quorum
  <2>2. vote[p].term >= c.at /\ vote'[p].term >= vote[p].term
    BY <2>1 DEF HeldBy, Shrinks
  <2>3. vote[p].term \in Int /\ vote'[p].term \in Int
    BY <2>1 DEF VoteType, Vote
  <2> QED BY <1>0, <2>2, <2>3
<1>2. ASSUME NEW a \in Logs', Contains(a, d) PROVE Contains(a, c.id)
  <2>1. PICK b \in Logs : b \in Seq(Nat) /\ PrefixOf(a, b)
    BY ShrinkFrom
  <2>2. /\ Len(a) \in Nat /\ Len(b) \in Nat /\ Len(a) <= Len(b)
        /\ \A i \in 1 .. Len(a) : a[i] = b[i]
    BY <2>1 DEF PrefixOf
  <2>3. d.index < Len(a) /\ a[d.index + 1] = d.term
    BY <1>2 DEF Contains
  <2>4. d.index + 1 \in 1 .. Len(a) /\ d.index < Len(b)
    BY <1>0, <2>2, <2>3
  <2>5. Contains(b, d)
    BY <2>2, <2>3, <2>4 DEF Contains
  <2>6. b[c.id.index + 1] = c.id.term
    BY <2>1, <2>5 DEF HeldBy, Contains
  <2>7. c.id.index < Len(a) /\ c.id.index + 1 \in 1 .. Len(a)
    BY <1>0, <2>2, <2>3
  <2> QED BY <2>2, <2>6, <2>7 DEF Contains
<1>3. Fixed(d)'
  BY <1>0, ShrinkFixed DEF HeldBy
<1>4. ASSUME NEW n \in Server, Led(n)', vote'[n].term = c.at, NEW a \in LogsOf(n)'
      PROVE  Contains(a, d)
  BY <1>4 DEF Shrinks, HeldBy
<1> QED BY <1>1, <1>2, <1>3, <1>4 DEF HeldBy

(* The same for all that is committed.                                     *)
LEMMA ShrinkCommit ==
  ASSUME VoteType, VoteType', LogTyped, LogsMatch, Shrinks, CommitInv, committed' = committed,
         \A p \in Server : \A id \in LogId : Has(p, id) => Has(p, id)'
  PROVE  CommitInv'
<1> SUFFICES ASSUME NEW c \in committed PROVE \E d \in Point(c), Q \in Quorum : HeldBy(c, d, Q)'
  BY DEF CommitInv
<1>1. PICK d \in Point(c), Q \in Quorum : HeldBy(c, d, Q)
  BY DEF CommitInv
<1>2. c.id \in LogId /\ d \in LogId
  BY PointIs
<1>3. \A p \in Q : Has(p, c.id)' /\ Has(p, d)'
  BY <1>1, <1>2 DEF HeldBy, Quorum
<1> QED BY <1>1, <1>3, ShrinkHeld

(* A follower of a later leader, or of the one that committed the entry,   *)
(* keeps it.                                                               *)
LEMMA AppendCommit ==
  ASSUME VoteInv, VoteInv', LogTyped, LogsMatch, IoInv, CommitInv, NEW l \in Server,
         NEW p \in Server, l # p, Leader(l), Idle(l), Idle(p), NEW prev \in -1 .. MaxIndex,
         NEW hi \in Index, prev < hi, AppendEntries(l, p, prev, hi)
  PROVE  CommitInv'
<1>1. VoteGE(vote[l], vote[p]) /\ committed' = committed
  BY AppendIs DEF VoteInv
<1> SUFFICES ASSUME NEW c \in committed PROVE \E d \in Point(c), Q \in Quorum : HeldBy(c, d, Q)'
  BY <1>1 DEF CommitInv
<1>2. PICK d \in Point(c), Q \in Quorum : HeldBy(c, d, Q)
  BY DEF CommitInv
<1>3. c.id \in LogId /\ d \in LogId /\ d.term = c.at /\ c.at \in Nat
  BY PointIs
<1>4. Shrinks
  BY AppendShrinks
<1>5. p \in Q => Contains(view[l], c.id) /\ Contains(view[l], d)
  <2> SUFFICES ASSUME p \in Q PROVE Contains(view[l], c.id) /\ Contains(view[l], d)
    OBVIOUS
  <2>1. vote[p].term >= c.at
    BY <1>2 DEF HeldBy
  <2>2. vote[l].term > c.at \/ vote[l].term = c.at
    BY <1>1, <1>3, <2>1 DEF VoteGE, VoteInv, VoteType, Vote
  <2>3. Led(l) /\ view[l] \in LogsOf(l) /\ view[l] \in Logs
    BY DEF Leader, Led, LogsOf, Logs
  <2>4. Contains(view[l], d)
    BY <1>2, <1>3, <2>2, <2>3 DEF HeldBy, Fixed
  <2> QED BY <1>2, <2>3, <2>4 DEF HeldBy
<1>6. ASSUME NEW q \in Q PROVE Has(q, c.id)' /\ Has(q, d)'
  <2>1. q \in Server /\ Has(q, c.id) /\ Has(q, d)
    BY <1>2 DEF HeldBy, Quorum
  <2>2. q = p => Contains(view[l], c.id) /\ Contains(view[l], d)
    BY <1>5
  <2> QED BY <1>3, <2>1, <2>2, AppendHas
<1> QED BY <1>2, <1>4, <1>6, ShrinkHeld DEF VoteInv

(* A leader that has the committed entries, and appends another one.       *)
LEMMA ExtendCommit ==
  ASSUME VoteInv, VoteInv', LogTyped, NEW n \in Server, NEW t \in 0 .. MaxTerm,
         Extend(n, [term |-> t, index |-> Len(view[n])]), UNCHANGED <<log, last, up>>,
         Extends(n, t), NEW c \in committed, NEW d \in Point(c), NEW Q \in Quorum,
         HeldBy(c, d, Q), c.at > t \/ Contains(view[n], d)
  PROVE  HeldBy(c, d, Q)'
<1> DEFINE v == view[n]
           w == Append(v, t)
<1>0. /\ c.id \in LogId /\ d \in LogId /\ d.term = c.at /\ c.at \in Nat
      /\ c.id.index \in Nat /\ d.index \in Nat /\ c.id.index <= d.index
  BY PointIs
<1>1. /\ v \in Logs /\ v \in Seq(Nat) /\ t \in Nat
      /\ \A a \in Logs' : a \in Logs \/ a = Append(view[n], t)
  BY ExtendLogs
<1>2. Len(v) \in Nat /\ Len(w) = Len(v) + 1 /\ (\A i \in 1 .. Len(v) : w[i] = v[i]) /\ w[Len(v) + 1] = t
  BY <1>1, AppendOne
<1>3. ASSUME NEW p \in Q PROVE vote'[p].term >= c.at /\ Has(p, c.id)' /\ Has(p, d)'
  <2>1. p \in Server /\ Has(p, c.id) /\ Has(p, d) /\ vote[p].term >= c.at
    BY DEF HeldBy, Quorum
  <2>2. vote'[p].term >= vote[p].term /\ vote[p].term \in Int /\ vote'[p].term \in Int
    BY <2>1 DEF Extends, VoteInv, VoteType, Vote
  <2>3. Has(p, c.id)' /\ Has(p, d)'
    BY <1>0, <2>1, ExtendHas
  <2> QED BY <1>0, <2>1, <2>2, <2>3
<1> HIDE DEF v, w
<1>4. Contains(v, d) => Contains(v, c.id)
  BY <1>1 DEF HeldBy
<1>5. ASSUME NEW id \in LogId, id.index \in Nat, Contains(v, id) PROVE Contains(w, id)
  <2>1. id.index < Len(v) /\ v[id.index + 1] = id.term
    BY <1>5 DEF Contains
  <2>2. id.index + 1 \in 1 .. Len(v) /\ id.index < Len(w)
    BY <1>2, <1>5, <2>1
  <2> QED BY <1>2, <2>1, <2>2 DEF Contains
<1>6. Contains(w, d) => Contains(v, d)
  <2> SUFFICES ASSUME Contains(w, d), ~Contains(v, d) PROVE FALSE
    OBVIOUS
  <2>1. c.at > t
    BY DEF v
  <2>2. d.index < Len(w) /\ w[d.index + 1] = d.term
    BY DEF Contains
  <2>3. d.index + 1 \in 1 .. Len(v) \/ d.index = Len(v)
    BY <1>0, <1>2, <2>2
  <2>4. CASE d.index = Len(v)
    BY <1>0, <1>1, <1>2, <2>1, <2>2, <2>4
  <2>5. CASE d.index + 1 \in 1 .. Len(v)
    <3>1. d.index < Len(v)
      BY <1>0, <1>2, <2>5
    <3> QED BY <1>2, <2>2, <2>5, <3>1 DEF Contains
  <2> QED BY <2>3, <2>4, <2>5
<1>7. ASSUME NEW a \in Logs', Contains(a, d) PROVE Contains(a, c.id)
  <2>1. CASE a \in Logs
    BY <1>7, <2>1 DEF HeldBy
  <2>2. CASE a = w
    BY <1>0, <1>4, <1>5, <1>6, <1>7, <2>2
  <2> QED BY <1>1, <2>1, <2>2 DEF v, w
<1>8. Fixed(d)'
  <2>1. d.term >= t \/ Contains(view[n], d)
    BY <1>0, <1>1
  <2> QED BY <1>0, <2>1, ExtendFixed DEF HeldBy
<1>9. ASSUME NEW m \in Server, Led(m)', vote'[m].term = c.at, NEW a \in LogsOf(m)'
      PROVE  Contains(a, d)
  <2>1. CASE m = n
    <3>1. vote'[n].term = t /\ a \in {w, v}
      BY <1>9, <2>1 DEF Extends, v, w
    <3>2. Contains(v, d)
      BY <1>0, <1>1, <1>9, <2>1, <3>1 DEF v
    <3>3. Contains(w, d)
      BY <1>0, <1>5, <3>2
    <3> QED BY <3>1, <3>2, <3>3
  <2>2. CASE m # n
    <3>1. LogsOf(m)' = LogsOf(m) /\ Led(m) /\ vote'[m] = vote[m]
      BY <1>9, <2>2 DEF Extends
    <3> QED BY <1>9, <3>1 DEF HeldBy
  <2> QED BY <2>1, <2>2
<1> QED BY <1>3, <1>7, <1>8, <1>9 DEF HeldBy

(* A new leader has every committed entry: one of its voters is in the     *)
(* quorum that holds it, and had not reached the new term.                 *)
LEMMA WinCommit ==
  ASSUME VoteInv, VoteInv', LogTyped, LogsMatch, Written, BelowVote, IoInv, CommitInv,
         NEW n \in Server, NEW Q \in SUBSET Server, Elect(n, Q), Q \cup {n} \in Quorum
  PROVE  CommitInv'
<1> DEFINE t == vote[n].term + 1
<1>1. Elects(n, Q, t) /\ Extend(n, [term |-> t, index |-> Len(view[n])])
  BY ElectIs DEF VoteInv
<1>2. /\ t \in 0 .. MaxTerm /\ UNCHANGED <<log, last, up, committed>>
      /\ \A p \in Q \cup {n} : Idle(p) /\ vote[p].term < t
  BY <1>1 DEF Elects
<1>3. Extends(n, t)
  BY WinExtends
<1> SUFFICES ASSUME NEW c \in committed PROVE \E d \in Point(c), R \in Quorum : HeldBy(c, d, R)'
  BY <1>2 DEF CommitInv
<1>4. PICK d \in Point(c), R \in Quorum : HeldBy(c, d, R)
  BY DEF CommitInv
<1>5. d \in LogId
  BY PointIs
<1>6. PICK p \in Server : p \in R /\ p \in Q \cup {n}
  BY QuorumsMeet
<1>7. Has(p, d) /\ Fixed(d)
  BY <1>4, <1>6 DEF HeldBy
<1>8. Contains(view[p], d)
  BY <1>2, <1>6, <1>7 DEF Has, Idle
<1>9. Contains(view[n], d)
  BY <1>1, <1>5, <1>6, <1>7, <1>8, ElectHas
<1> HIDE DEF t
<1> QED BY <1>1, <1>2, <1>3, <1>4, <1>9, ExtendCommit

(* client_write keeps CommitInv: the leader appends to a log that has      *)
(* every committed entry.                                                  *)
LEMMA WriteCommit ==
  ASSUME VoteInv, VoteInv', LogTyped, BelowVote, LeaderHasOwn, IoInv, CommitInv,
         NEW n \in Server, ClientWrite(n)
  PROVE  CommitInv'
<1> DEFINE t == vote[n].term
<1>1. /\ Leader(n) /\ Extend(n, [term |-> t, index |-> Len(view[n])])
      /\ UNCHANGED <<log, last, up, committed>>
  BY DEF ClientWrite, diskVars, histVars
<1>2. Extends(n, t) /\ t \in 0 .. MaxTerm
  BY WriteExtends DEF VoteInv, VoteType, Vote
<1> SUFFICES ASSUME NEW c \in committed PROVE \E d \in Point(c), R \in Quorum : HeldBy(c, d, R)'
  BY <1>1 DEF CommitInv
<1>3. PICK d \in Point(c), R \in Quorum : HeldBy(c, d, R)
  BY DEF CommitInv
<1>4. Led(n) /\ view[n] \in LogsOf(n)
  BY <1>1 DEF Leader, Led, LogsOf
<1>5. d.term = c.at /\ c.at \in Nat
  BY PointIs
<1>6. c.at > t \/ c.at = t \/ t > c.at
  BY <1>2, <1>5
<1>7. c.at = t => Contains(view[n], d)
  BY <1>3, <1>4 DEF HeldBy
<1>8. t > c.at => Contains(view[n], d)
  BY <1>3, <1>4, <1>5 DEF HeldBy, Fixed
<1> HIDE DEF t
<1> QED BY <1>1, <1>2, <1>3, <1>6, <1>7, <1>8, ExtendCommit

(* The commit of a leader: the servers that have acknowledged the entry    *)
(* hold it, and every entry before it.                                     *)
LEMMA CommitCommits ==
  ASSUME VoteInv, VoteInv', LogTyped, LogsMatch, IoInv, MatchInv, CommitInv, NEW l \in Server,
         Commit(l)
  PROVE  CommitInv'
<1>1. PICK i \in Index :
        LET new == {IdAt(view[l], j) : j \in 0 .. i} \ {c.id : c \in committed}
        IN /\ Leader(l) /\ Idle(l) /\ i < Len(view[l]) /\ view[l][i + 1] = vote[l].term
           /\ {p \in Server : matched[l][p] >= i} \in Quorum
           /\ committed' = committed \cup {[id |-> id, at |-> vote[l].term] : id \in new}
           /\ UNCHANGED <<log, last, vote, up, view>>
  BY DEF Commit, diskVars, memVars
<1>2. \A n \in Server : LogsOf(n)' = LogsOf(n)
  BY <1>1, SameLogs
<1>3. ASSUME NEW c, NEW d, NEW Q \in Quorum, HeldBy(c, d, Q) PROVE HeldBy(c, d, Q)'
  <2>1. Logs' = Logs
    BY <1>2 DEF Logs
  <2>2. \A n \in Server : (Led(n)' <=> Led(n)) /\ vote'[n] = vote[n]
    BY <1>1 DEF Led
  <2>3. Fixed(d)'
    BY <1>2, <1>3, <2>1, <2>2 DEF HeldBy, Fixed
  <2>4. \A p \in Q : vote'[p].term >= c.at /\ Has(p, c.id)' /\ Has(p, d)'
    BY <1>1, <1>3 DEF HeldBy, Has, Stored
  <2>5. \A a \in Logs' : Contains(a, d) => Contains(a, c.id)
    BY <1>3, <2>1 DEF HeldBy
  <2>6. \A n \in Server : Led(n)' /\ vote'[n].term = c.at => \A a \in LogsOf(n)' : Contains(a, d)
    BY <1>2, <1>3, <2>2 DEF HeldBy
  <2> QED BY <2>3, <2>4, <2>5, <2>6 DEF HeldBy
<1> SUFFICES ASSUME NEW c \in committed' PROVE \E d \in Point(c), Q \in Quorum : HeldBy(c, d, Q)
  <2>1. \A x \in committed' : \E d \in Point(x), Q \in Quorum : HeldBy(x, d, Q)'
    BY <1>3
  <2> QED BY <2>1 DEF CommitInv
<1>4. CASE c \in committed
  BY <1>4 DEF CommitInv
<1>5. ASSUME NEW j \in 0 .. i, c = [id |-> IdAt(view[l], j), at |-> vote[l].term]
      PROVE  \E d \in Point(c), Q \in Quorum : HeldBy(c, d, Q)
  <2> DEFINE Q == {p \in Server : matched[l][p] >= i}
  <2>1. PICK d \in LogId : d = IdAt(view[l], i)
    <3>1. i \in 0 .. Len(view[l]) - 1
      BY <1>1, BoundsAssumption DEF Index, LogTyped
    <3> QED BY <3>1, IdIn
  <2>2. PICK e \in LogId : e = IdAt(view[l], j)
    <3>1. j \in 0 .. Len(view[l]) - 1
      BY <1>1, BoundsAssumption DEF Index, LogTyped
    <3> QED BY <3>1, IdIn
  <2>3. /\ c.id = e /\ c.at = vote[l].term /\ d.term = vote[l].term /\ d.index = i /\ e.index = j
        /\ i \in Nat /\ j \in Nat /\ j <= i
    BY <1>1, <1>5, <2>1, <2>2, BoundsAssumption DEF IdAt, Index
  <2>4. d \in Point(c)
    BY <2>3 DEF Point
  <2>5. MayCommit(l, i)
    <3> DEFINE R == {p \in Server : matched[l][p] >= i \/ vote[p].term <= vote[l].term}
    <3>1. Q \in Quorum /\ Q \subseteq R
      BY <1>1
    <3>2. R \in Quorum
      BY <3>1, QuorumGrows
    <3> QED BY <3>2 DEF MayCommit
  <2>6. LeadOK(l)
    BY <1>1 DEF MatchInv
  <2>7. ASSUME NEW p \in Q PROVE vote[p].term >= c.at /\ Has(p, c.id) /\ Has(p, d)
    <3>1. matched[l][p] \in Int /\ matched[l][p] >= i
      BY BoundsAssumption DEF LogTyped, Index, Absent
    <3>2. matched[l][p] >= 0 /\ i \in 0 .. matched[l][p] /\ i \in 0 .. i
      BY <2>3, <3>1
    <3>3. AckHeld(l, p)
      BY <2>6 DEF LeadOK
    <3>4. vote[p].term >= vote[l].term /\ HasTo(p, l, i)
      BY <1>1, <2>5, <3>2, <3>3 DEF AckHeld
    <3> QED BY <2>1, <2>2, <2>3, <3>2, <3>4 DEF HasTo
  <2>8. LogsOf(l) = {view[l]} /\ view[l] \in Seq(Nat) /\ view[l] \in Logs
    <3>1. LogsOf(l) = {view[l]}
      BY <1>1, IdleLogs DEF Idle
    <3> QED BY <3>1, LogsTyped DEF Logs
  <2>9. ASSUME NEW a \in Logs, Contains(a, d) PROVE Contains(a, c.id)
    <3>1. PICK m \in Server : a \in LogsOf(m)
      BY DEF Logs
    <3>2. a \in Seq(Nat) /\ Matching(a, view[l])
      BY <2>8, <3>1, LogsTyped DEF LogsMatch
    <3> QED BY <1>1, <2>1, <2>2, <2>3, <2>8, <2>9, <3>2, ContainsBefore
  <2>10. Fixed(d)
    <3>1. i \in 0 .. Len(view[l]) - 1
      BY <1>1, BoundsAssumption DEF Index, LogTyped
    <3>2. Settled(l, i)
      BY <2>6, <3>1 DEF LeadOK
    <3> QED BY <1>1, <2>1, <2>5, <3>2 DEF Settled
  <2>11. ASSUME NEW n \in Server, Led(n), vote[n].term = c.at, NEW a \in LogsOf(n)
         PROVE  Contains(a, d)
    <3>1. n = l
      BY <1>1, <2>3, <2>11 DEF VoteInv, OneElected, CommittedVoteWon, Leader, Led
    <3>2. Contains(view[l], d)
      BY <1>1, <2>1 DEF Contains, IdAt
    <3> QED BY <2>8, <2>11, <3>1, <3>2
  <2> QED BY <1>1, <2>4, <2>7, <2>9, <2>10, <2>11 DEF HeldBy
<1> QED BY <1>1, <1>4, <1>5
-----------------------------------------------------------------------------
(* Every log has the first entry, which is committed.                      *)
LEMMA InitLogs ==
  ASSUME Init
  PROVE  LogInv
<1>0. VoteInv /\ LogTyped /\ MaxIndex \in Nat /\ MaxTerm \in Nat
  BY InitTyped, BoundsAssumption
<1>1. ASSUME NEW n \in Server
      PROVE  /\ up[n] /\ view[n] = <<0>> /\ io[n] = <<>> /\ vote[n] = NoVote
             /\ last[n] = [term |-> 0, index |-> 0] /\ log[n][0] = 0
  <2>1. 0 \in Index
    BY <1>0 DEF Index
  <2> QED BY <2>1 DEF Init
<1>2. ASSUME NEW n \in Server PROVE LogsOf(n) = {<<0>>}
  <2>1. last[n].index = 0
    BY <1>1
  <2>2. disk(n) = [i \in 1 .. 1 |-> log[n][i - 1]]
    BY <2>1 DEF disk
  <2>3. disk(n) = [i \in 1 .. 1 |-> 0]
    <3>1. \A i \in 1 .. 1 : log[n][i - 1] = 0
      BY <1>1
    <3> QED BY <2>2, <3>1
  <2>4. disk(n) = <<0>>
    BY <2>3
  <2> QED BY <1>1, <2>4 DEF LogsOf
<1>3. Logs \subseteq {<<0>>}
  BY <1>2 DEF Logs
<1>4. Len(<<0>>) = 1 /\ <<0>>[1] = 0 /\ \A i \in 1 .. 1 : i = 1
  OBVIOUS
<1>5. \A n \in Server : vote[n].term = 0 /\ ~vote[n].committed /\ vote[n].node = NoServer
  BY <1>1 DEF NoVote
<1>6. LogShape
  <2>1. LogsMatch
    BY <1>3, <1>4 DEF LogsMatch, Matching, Runs, Sorted
  <2>2. Written
    BY <1>3, <1>4 DEF Written
  <2>3. OwnVote
    BY <1>5, ServerAssumption DEF OwnVote
  <2>4. BelowVote
    BY <1>2, <1>4, <1>5 DEF BelowVote
  <2>5. LeaderHasOwn
    BY <1>5 DEF LeaderHasOwn, Led
  <2> QED BY <2>1, <2>2, <2>3, <2>4, <2>5 DEF LogShape
<1>7. IoInv
  <2>1. ASSUME NEW n \in Server PROVE DiskOK(n)
    <3>1. Saved(n)
      <4>1. Len(view[n]) = 1 /\ view[n][1] = 0 /\ last[n].index = 0 /\ log[n][0] = 0
        <5>1. view[n] = <<0>> /\ last[n] = [term |-> 0, index |-> 0] /\ log[n][0] = 0
          BY <1>1
        <5>2. last[n].index = 0
          BY <5>1
        <5>3. Len(view[n]) = 1 /\ view[n][1] = 0
          BY <1>4, <5>1, Zenon
        <5> QED BY <5>1, <5>2, <5>3
      <4>2. \A i \in 0 .. Len(view[n]) - 1 : i = 0 /\ i + 1 = 1
        BY <4>1
      <4>3. OnDisk(log[n], view[n], Len(view[n]))
        BY <4>1, <4>2 DEF OnDisk
      <4> QED BY <4>1, <4>3 DEF Saved
    <3> QED BY <1>1, <3>1 DEF DiskOK
  <2> QED BY <1>1, <2>1 DEF IoInv, OneWriter
<1>8. MatchInv
  BY <1>5 DEF MatchInv, Leader
<1>9. CommitInv
  <2> DEFINE d == [term |-> 0, index |-> 0]
             c == [id |-> d, at |-> 0]
  <2>1. committed = {c}
    BY DEF Init
  <2>2. d \in Point(c)
    BY <1>0 DEF Point, LogId, Index
  <2>3. Server \in Quorum
    <3>1. Cardinality(Server) \in Nat /\ Cardinality(Server) # 0
      BY ServerAssumption, FS_CardinalityType, FS_EmptySet
    <3> QED BY <3>1 DEF Quorum
  <2>4. \A a \in Logs : Contains(a, d)
    BY <1>3, <1>4 DEF Contains
  <2>5. ASSUME NEW p \in Server PROVE Has(p, d)
    <3>1. Contains(view[p], d)
      BY <1>1, <1>4 DEF Contains
    <3> QED BY <1>1, <3>1 DEF Has, Stored
  <2>6. Fixed(d)
    BY <1>5, <2>4 DEF Fixed, Led
  <2>7. HeldBy(c, d, Server)
    BY <1>5, <2>4, <2>5, <2>6 DEF HeldBy, Led
  <2> QED BY <2>1, <2>2, <2>3, <2>7 DEF CommitInv
<1> QED BY <1>0, <1>6, <1>7, <1>8, <1>9 DEF LogInv

(* Every step keeps what is acknowledged and what is committed.            *)
LEMMA NextHeld ==
  ASSUME VoteInv, VoteInv', LogInv, LogTyped', LogShape', IoInv', [Next]_vars
  PROVE  MatchInv' /\ CommitInv'
<1>0. /\ VoteType /\ VoteType' /\ LogTyped /\ IoInv /\ MatchInv /\ CommitInv
      /\ LogsMatch /\ Written /\ OwnVote /\ BelowVote /\ LeaderHasOwn /\ Written'
  BY DEF VoteInv, LogInv, LogShape
<1>1. ASSUME Shrinks, committed' = committed, MatchInv',
             \A p \in Server : \A id \in LogId : Has(p, id) => Has(p, id)'
      PROVE  MatchInv' /\ CommitInv'
  BY <1>0, <1>1, ShrinkCommit
<1>2. ASSUME Shrinks, UNCHANGED <<log, last, up, view, committed>>, MatchInv'
      PROVE  MatchInv' /\ CommitInv'
  <2>1. \A p \in Server : \A id \in LogId : Has(p, id) => Has(p, id)'
    BY <1>2 DEF Has, Stored
  <2> QED BY <1>1, <1>2, <2>1
<1>3. CASE UNCHANGED vars
  <2>1. UNCHANGED <<log, last, vote, up, view, matched, elected, committed>>
    BY <1>3 DEF vars
  <2>2. Shrinks
    <3>1. \A m \in Server : vote'[m].term >= vote[m].term
      BY <2>1 DEF VoteInv, VoteType, Vote
    <3>2. \A m \in Server : Led(m)' => Led(m) /\ vote'[m] = vote[m]
      BY <2>1 DEF Led
    <3>3. \A m \in Server : LogsOf(m)' \subseteq LogsOf(m)
      BY <2>1, SameLogs
    <3> QED BY <1>0, <2>1, <3>1, <3>2, <3>3, SubShrinks
  <2>3. MatchInv'
    BY <1>0, <2>1, SameMatch
  <2> QED BY <1>2, <2>1, <2>2, <2>3
<1>4. ASSUME NEW n \in Server, ClientWrite(n) PROVE MatchInv' /\ CommitInv'
  BY <1>0, <1>4, WriteMatch, WriteCommit
<1>5. ASSUME NEW n \in Server, Execute(n) PROVE MatchInv' /\ CommitInv'
  <2>1. Shrinks /\ committed' = committed
    BY <1>0, <1>5, ExecuteShrinks, ExecuteIs
  <2>2. MatchInv'
    BY <1>0, <1>5, ExecuteMatch
  <2>3. \A p \in Server : \A id \in LogId : Has(p, id) => Has(p, id)'
    BY <1>0, <1>5, ExecuteHas
  <2> QED BY <1>1, <2>1, <2>2, <2>3
<1>6. ASSUME NEW n \in Server, Commit(n) PROVE MatchInv' /\ CommitInv'
  <2>1. MatchInv'
    <3>1. UNCHANGED <<log, last, vote, up, view, matched, elected>>
      BY <1>6 DEF Commit, diskVars, memVars
    <3> QED BY <1>0, <3>1, SameMatch
  <2> QED BY <1>0, <1>6, <2>1, CommitCommits
<1>7. ASSUME NEW n \in Server, Crash(n) PROVE MatchInv' /\ CommitInv'
  <2>1. Shrinks /\ committed' = committed
    BY <1>0, <1>7, CrashShrinks DEF Crash
  <2>2. MatchInv'
    BY <1>0, <1>7, CrashMatch
  <2>3. \A p \in Server : \A id \in LogId : Has(p, id) => Has(p, id)'
    BY <1>0, <1>7, CrashHas
  <2> QED BY <1>1, <2>1, <2>2, <2>3
<1>8. ASSUME NEW n \in Server, Restart(n) PROVE MatchInv' /\ CommitInv'
  <2>1. Shrinks /\ committed' = committed
    BY <1>0, <1>8, RestartShrinks DEF Restart, histVars
  <2>2. MatchInv'
    BY <1>0, <1>8, RestartMatch
  <2>3. \A p \in Server : \A id \in LogId : Has(p, id) => Has(p, id)'
    BY <1>0, <1>8, RestartHas
  <2> QED BY <1>1, <2>1, <2>2, <2>3
<1>9. ASSUME NEW n \in Server, NEW Q \in SUBSET Server, Elect(n, Q)
      PROVE  MatchInv' /\ CommitInv'
  <2>1. CASE Q \cup {n} \in Quorum
    BY <1>0, <1>9, <2>1, WinMatch, WinCommit
  <2>2. CASE Q \cup {n} \notin Quorum
    <3>1. Elects(n, Q, vote[n].term + 1) /\ UNCHANGED view
      BY <1>0, <1>9, <2>2, ElectIs
    <3>2. Shrinks /\ UNCHANGED <<log, last, up, view, committed>>
      BY <1>0, <1>9, <2>2, <3>1, LoseShrinks DEF Elects
    <3>3. MatchInv'
      BY <1>0, <1>9, <2>2, LoseMatch
    <3> QED BY <1>2, <3>2, <3>3
  <2> QED BY <2>1, <2>2
<1>10. ASSUME NEW l \in Server, NEW p \in Server, l # p, Leader(l), Idle(l), Idle(p),
              NEW prev \in -1 .. MaxIndex, NEW hi \in Index, prev < hi,
              AppendEntries(l, p, prev, hi)
       PROVE  MatchInv' /\ CommitInv'
  <2>1. MatchInv'
    BY <1>0, <1>10, AppendMatch
  <2>2. CommitInv'
    BY <1>0, <1>10, AppendCommit
  <2> QED BY <2>1, <2>2
<1>11. ASSUME NEW l \in Server, NEW p \in Server, Leader(l), HigherVote(l, p)
       PROVE  MatchInv' /\ CommitInv'
  <2>1. Shrinks
    BY <1>0, <1>11, HigherShrinks
  <2>2. UNCHANGED <<log, last, up, view, committed>>
    BY <1>0, <1>11, HigherIs
  <2>3. MatchInv'
    BY <1>0, <1>11, HigherMatch
  <2> QED BY <1>2, <2>1, <2>2, <2>3
<1> QED BY <1>3, <1>4, <1>5, <1>6, <1>7, <1>8, <1>9, <1>10, <1>11 DEF Next

(* Unless a server died while last_log_id named no stored entry, the logs, *)
(* the writes that are left, the acknowledgements and the commits are as   *)
(* LogInv says.                                                            *)
THEOREM LogInductive == Spec => [](~torn => LogInv)
<1> DEFINE I == VoteInv /\ LogTyped /\ (~torn => LogInv)
<1>1. Init => I
  BY InitTyped, InitLogs
<1>2. I /\ VoteInv' /\ [Next]_vars => I'
  <2> SUFFICES ASSUME I, VoteInv', [Next]_vars PROVE I'
    OBVIOUS
  <2>1. LogTyped'
    BY NextTyped DEF VoteInv
  <2>2. ASSUME ~torn' PROVE LogInv'
    <3>1. ~torn
      BY <2>2, CrashOnly DEF Crash
    <3>2. LogInv /\ LogTyped /\ LogShape /\ IoInv
      BY <3>1 DEF LogInv
    <3>3. LogShape' /\ IoInv'
      BY <2>2, <3>2, NextShape
    <3>4. MatchInv' /\ CommitInv'
      BY <2>1, <3>2, <3>3, NextHeld
    <3> QED BY <2>1, <3>3, <3>4 DEF LogInv
  <2> QED BY <2>1, <2>2
<1>3. I => (~torn => LogInv)
  OBVIOUS
<1> QED BY <1>1, <1>2, <1>3, VotesInductive, PTL DEF Spec

(* A committed entry is on the disks of a majority of the servers,         *)
(* whatever elections, truncations, crashes and restarts follow, unless a  *)
(* server died between a truncation and the next append.                   *)
THEOREM CommitsOnQuorum == Spec => []CommittedOnQuorum
<1>1. (~torn => LogInv) => CommittedOnQuorum
  <2> SUFFICES ASSUME LogInv, NEW c \in committed
               PROVE  \E Q \in Quorum : \A n \in Q : Stored(n, c.id)
    BY DEF CommittedOnQuorum
  <2>1. PICK d \in Point(c), Q \in Quorum : HeldBy(c, d, Q)
    BY DEF LogInv, CommitInv
  <2> QED BY <2>1 DEF HeldBy, Has
<1> QED BY <1>1, LogInductive, PTL

(* A leader has every entry that was committed in an earlier term, with    *)
(* the same exception.                                                     *)
THEOREM LeadersComplete == Spec => []LeaderCompleteness
<1>1. (~torn => LogInv) => LeaderCompleteness
  <2> SUFFICES ASSUME LogInv, NEW n \in Server, NEW c \in committed, Leader(n),
                      c.at < vote[n].term
               PROVE  c.id.index < Len(view[n]) /\ IdAt(view[n], c.id.index) = c.id
    BY DEF LeaderCompleteness
  <2>1. PICK d \in Point(c), Q \in Quorum : HeldBy(c, d, Q)
    BY DEF LogInv, CommitInv
  <2>2. Led(n) /\ view[n] \in LogsOf(n) /\ view[n] \in Logs
    BY DEF Leader, Led, LogsOf, Logs
  <2>3. d.term = c.at /\ c.id \in LogId
    BY PointIs, <2>1 DEF LogInv
  <2>4. Contains(view[n], d)
    BY <2>1, <2>2, <2>3 DEF HeldBy, Fixed
  <2>5. Contains(view[n], c.id)
    BY <2>1, <2>2, <2>4 DEF HeldBy
  <2>6. c.id = [term |-> c.id.term, index |-> c.id.index]
    BY <2>3 DEF LogId
  <2> QED BY <2>5, <2>6 DEF Contains, IdAt
<1> QED BY <1>1, LogInductive, PTL
=============================================================================
