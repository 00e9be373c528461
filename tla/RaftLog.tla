------------------------------- MODULE RaftLog -------------------------------
(***************************************************************************)
(* The persistent Raft log and vote of save-metadata (raft/storage.rs and  *)
(* raft/log_store.rs) under the consensus of openraft, and the messages    *)
(* that carry it (raft/rpc.rs, raft/network.rs).  The storage executes the *)
(* commands openraft gives it one write at a time, and the process may die *)
(* between any two of them; what a restarted server believes about its log *)
(* is what get_log_state and the entries on disk tell it.                  *)
(*                                                                         *)
(* openraft is a library outside the repository: elections, the            *)
(* consistency check of append_entries and the commit rule are modelled by *)
(* what the storage is asked to do.  An election is one step of the        *)
(* candidate and of the servers that vote for it, an append_entries call   *)
(* one step of leader and follower up to the follower's writes; a lost     *)
(* request is a step that is not taken.                                    *)
(***************************************************************************)
EXTENDS Integers, Sequences, FiniteSets

CONSTANTS
  Server,
  NoServer,     \* voted_for of a server that has not voted
  MaxTerm,      \* bound: elections
  MaxIndex,     \* bound: the last index of the log
  MaxCrashes    \* bound: crashes of all servers together

ASSUME ServerAssumption == IsFiniteSet(Server) /\ Server # {} /\ NoServer \notin Server
ASSUME BoundsAssumption == {MaxTerm, MaxIndex, MaxCrashes} \subseteq Nat

VARIABLES
  log,        \* column family raft_log: the term of the entry at each index
  last,       \* key last_log_id of raft_state
  vote,       \* key vote of raft_state
  up,         \* whether the server runs
  view,       \* openraft's own record of the log ids, in memory
  io,         \* storage commands openraft has issued and that are not executed
  matched,    \* a leader's record of how far each log agrees with its own
  committed,  \* history: the log ids declared committed, and in which term
  elected,    \* history: the leaders of each term
  torn,       \* history: a server died while last_log_id named no stored entry
  crashes

diskVars == <<log, last, vote>>
memVars  == <<up, view, io, matched>>
histVars == <<committed, elected, torn>>
vars     == <<log, last, vote, up, view, io, matched,
              committed, elected, torn, crashes>>

Index  == 0 .. MaxIndex
Absent == -1                                   \* no entry at this index
LogId  == [term : 0 .. MaxTerm, index : Index]
NoId   == [term |-> 0, index |-> -1]           \* None
NoMatch == [p \in Server |-> Absent]
NoVote == [term |-> 0, node |-> NoServer, committed |-> FALSE]

Quorum == {Q \in SUBSET Server : 2 * Cardinality(Q) > Cardinality(Server)}

(* Log ids are ordered by term, then by index.                             *)
LogIdGE(a, b) == a.term > b.term \/ (a.term = b.term /\ a.index >= b.index)

(* A view is a sequence of terms; index i is its element i + 1.            *)
IdAt(v, i)  == [term |-> v[i + 1], index |-> i]
LastOf(v)   == IF v = <<>> THEN NoId ELSE IdAt(v, Len(v) - 1)

(* A vote beats another one of a lower term, and its own earlier form.     *)
VoteGE(a, b) ==
  \/ a.term > b.term
  \/ a.term = b.term /\ a.node = b.node /\ (b.committed => a.committed)

Leader(n) == up[n] /\ vote[n].node = n /\ vote[n].committed

(* A server's writes touch its own disk only, and nobody else reads it, so *)
(* they commute with the steps of the others: a call runs to its end, or   *)
(* to a crash, before the next one starts.                                 *)
Idle(n) == up[n] /\ \A p \in Server : io[p] = <<>>
-----------------------------------------------------------------------------
(* Messages.  A log id travels as term and index: the node in it is not    *)
(* used in single-term-leader mode.  A vote that is sent names its node.   *)
to_proto_vote(v)    == [term |-> v.term, node_id |-> v.node, committed |-> v.committed]
convert_vote(p)     == [term |-> p.term, node |-> p.node_id, committed |-> p.committed]
to_proto_log_id(id) == [term |-> id.term, node_id |-> 0, index |-> id.index]
convert_log_id(p)   == [term |-> p.term, index |-> p.index]

to_proto_vote_request(v, lastId) ==
  [vote |-> to_proto_vote(v), last_log_id |-> to_proto_log_id(lastId)]
convert_vote_request(p) ==
  [vote |-> convert_vote(p.vote), last_log_id |-> convert_log_id(p.last_log_id)]

convert_vote_response(granted, v) == [vote |-> to_proto_vote(v), vote_granted |-> granted]
convert_proto_vote_response(p) == [vote |-> convert_vote(p.vote), vote_granted |-> p.vote_granted]

to_proto_append_entries_request(v, prev, entries) ==
  [vote |-> to_proto_vote(v), prev_log_id |-> to_proto_log_id(prev),
   entries |-> [i \in DOMAIN entries |-> to_proto_log_id(entries[i])]]
convert_append_entries_request(p) ==
  [vote |-> convert_vote(p.vote), prev_log_id |-> convert_log_id(p.prev_log_id),
   entries |-> [i \in DOMAIN p.entries |-> convert_log_id(p.entries[i])]]

(* The answer of append_entries has three meanings, encoded by a flag and  *)
(* an optional vote.                                                       *)
convert_append_entries_response(answer, v) ==
  [success |-> answer = "success",
   vote    |-> IF answer = "higher_vote" THEN to_proto_vote(v) ELSE NoVote]
convert_proto_append_entries_response(p) ==
  IF p.success THEN "success" ELSE IF p.vote # NoVote THEN "higher_vote" ELSE "conflict"

(* What RaftRpcClient::append_entries makes of the answer.                 *)
client_append_entries(p) == convert_proto_append_entries_response(p)
-----------------------------------------------------------------------------
(* Storage commands, each one the sequence of its writes.                  *)

put_cf(id)       == [op |-> "put", id |-> id, ack |-> {}]
delete_cf(i)     == [op |-> "delete", id |-> [term |-> 0, index |-> i], ack |-> {}]
write_log_id(id) == [op |-> "last", id |-> id, ack |-> {}]
delete_key       == write_log_id(NoId)

(* The answer to leader l leaves with the last write.                      *)
ThenAnswer(writes, l, i) ==
  [writes EXCEPT ![Len(writes)].ack = {[to |-> l, index |-> i]}]

(* LogStore::append: every entry, then last_log_id.                        *)
append_to_log(ids) ==
  IF ids = <<>> THEN <<>>
  ELSE [i \in DOMAIN ids |-> put_cf(ids[i])] \o <<write_log_id(ids[Len(ids)])>>

(* LogStore::delete_range: from the lowest index upwards.                  *)
delete_range(start, end) == [k \in 1 .. (end - start + 1) |-> delete_cf(start + k - 1)]

(* Storage::delete_conflict_logs_since: last_log_id then gets the index    *)
(* before the deleted entry, with the deleted entry's term.                *)
delete_conflict_logs_since(n, id) ==
  IF last[n] = NoId THEN <<>>
  ELSE delete_range(id.index, last[n].index)
       \o <<IF id.index > 0
            THEN write_log_id([term |-> id.term, index |-> id.index - 1])
            ELSE delete_key>>
-----------------------------------------------------------------------------
Init ==
  /\ log = [n \in Server |-> [i \in Index |-> IF i = 0 THEN 0 ELSE Absent]]
  /\ last = [n \in Server |-> [term |-> 0, index |-> 0]]
  /\ vote = [n \in Server |-> NoVote]
  /\ up = [n \in Server |-> TRUE]
  /\ view = [n \in Server |-> <<0>>]
  /\ io = [n \in Server |-> <<>>]
  /\ matched = [n \in Server |-> NoMatch]
  /\ committed = {[id |-> [term |-> 0, index |-> 0], at |-> 0]}
  /\ elected = [t \in 1 .. MaxTerm |-> {}]
  /\ torn = FALSE
  /\ crashes = 0

(* The leader's entries: view first, then the storage command.             *)
Extend(n, id) ==
  /\ view' = [view EXCEPT ![n] = Append(@, id.term)]
  /\ io' = [io EXCEPT ![n] = ThenAnswer(append_to_log(<<id>>), n, id.index)]

(* An election timeout, or RaftNode::trigger_elect: candidate n asks for   *)
(* votes (RaftRpcClient::vote, RaftRpcServer::vote) and the servers Q      *)
(* grant them.  A vote is saved before its answer leaves.  With a quorum n *)
(* commits its vote and appends the blank entry of its term.               *)
VotesNotSaved(n, v, Q) == [vote EXCEPT ![n] = v]

save_vote(n, v, Q) ==
  [p \in Server |-> IF p = n THEN v
                    ELSE IF p \in Q THEN [v EXCEPT !.committed = FALSE] ELSE vote[p]]

(* RaftRpcServer::vote and RaftRpcClient::vote.                            *)
Grants(p, req) == req.vote.term > vote[p].term /\ LogIdGE(req.last_log_id, LastOf(view[p]))
server_vote(p, m) == convert_vote_response(Grants(p, convert_vote_request(m)), vote[p])
client_vote(p, v, lastId) ==
  convert_proto_vote_response(server_vote(p, to_proto_vote_request(v, lastId)))

Elect(n, Q) ==
  LET mine == [term |-> vote[n].term + 1, node |-> n, committed |-> Q \cup {n} \in Quorum]
  IN /\ Idle(n) /\ ~Leader(n) /\ n \notin Q /\ mine.term <= MaxTerm
     /\ \A p \in Q : Idle(p) /\ client_vote(p, mine, LastOf(view[n])).vote_granted
     /\ vote' = save_vote(n, mine, Q)
     /\ matched' = [p \in Server |-> IF p \in Q \cup {n} THEN NoMatch ELSE matched[p]]
     /\ IF mine.committed
        THEN /\ Len(view[n]) <= MaxIndex
             /\ elected' = [elected EXCEPT ![mine.term] = @ \cup {n}]
             /\ Extend(n, [term |-> mine.term, index |-> Len(view[n])])
        ELSE UNCHANGED <<elected, view, io>>
     /\ UNCHANGED <<log, last, up, committed, torn, crashes>>

(* RaftNode::write on the leader.                                          *)
ClientWrite(n) ==
  /\ Leader(n) /\ Idle(n) /\ Len(view[n]) <= MaxIndex
  /\ Extend(n, [term |-> vote[n].term, index |-> Len(view[n])])
  /\ UNCHANGED <<diskVars, up, matched, histVars, crashes>>

(* The leader reads the entries it sends from its storage.                 *)
get_entries(n, lo, hi) == [k \in 1 .. (hi - lo + 1) |->
                             [term |-> log[n][lo + k - 1], index |-> lo + k - 1]]

(* The leader that asked learns that n's log agrees with its own up to an  *)
(* index.                                                                  *)
Match(acks, n) ==
  [l \in Server |->
     [matched[l] EXCEPT ![n] = IF \E a \in acks : /\ a.to = l /\ a.index > @ /\ Leader(l)
                                                    /\ VoteGE(vote[l], vote[n])
                                THEN (CHOOSE a \in acks : TRUE).index ELSE @]]

(* RaftRpcServer::append_entries of p, called by leader l with the entries *)
(* from prev + 1 to hi.  p drops what conflicts with them, or with prev,   *)
(* and appends the rest; it answers when its storage is done.              *)
server_append_entries(l, p, prev, hi, req) ==
  LET has(id)  == id.index < Len(view[p]) /\ IdAt(view[p], id.index) = id
      new      == {id \in {req.entries[k] : k \in DOMAIN req.entries} : ~has(id)}
      from     == IF new = {} THEN hi + 1
                  ELSE CHOOSE i \in Index : /\ \E id \in new : id.index = i
                                            /\ \A id \in new : id.index >= i
      rest     == SubSeq(req.entries, from - prev, Len(req.entries))
      cut(i)   == IF i < Len(view[p]) THEN delete_conflict_logs_since(p, IdAt(view[p], i))
                  ELSE <<>>
      answer(a) == client_append_entries(convert_append_entries_response(a, vote[p]))
  IN /\ \A k \in DOMAIN req.entries : req.entries[k].term # Absent
     /\ VoteGE(req.vote, vote[p])
     /\ vote' = [vote EXCEPT ![p] = req.vote]
     /\ IF req.prev_log_id = NoId \/ has(req.prev_log_id)
        THEN /\ answer("success") = "success"
             /\ IF new = {}
                THEN /\ matched' = Match({[to |-> l, index |-> hi]}, p)
                     /\ UNCHANGED <<view, io>>
                ELSE /\ io' = [io EXCEPT ![p] = cut(from)
                                               \o ThenAnswer(append_to_log(rest), l, hi)]
                     /\ view' = [view EXCEPT ![p] = SubSeq(@, 1, from)
                                                    \o [k \in DOMAIN rest |-> rest[k].term]]
                     /\ matched' = [matched EXCEPT ![p] = NoMatch]
        ELSE /\ answer("conflict") = "conflict"
             /\ io' = [io EXCEPT ![p] = cut(prev)]
             /\ view' = [view EXCEPT ![p] = IF prev < Len(@) THEN SubSeq(@, 1, prev) ELSE @]
             /\ matched' = [matched EXCEPT ![p] = NoMatch]
     /\ UNCHANGED <<log, last, up, histVars, crashes>>

(* RaftRpcClient::append_entries of leader l, the call and the answer.     *)
AppendEntries(l, p, prev, hi) ==
  /\ hi < Len(view[l])
  /\ server_append_entries(l, p, prev, hi,
       convert_append_entries_request(
         to_proto_append_entries_request(
           vote[l], IF prev < 0 THEN NoId ELSE IdAt(view[l], prev),
           get_entries(l, prev + 1, hi))))

(* A server with a higher vote refuses the call and the leader steps down. *)
HigherVote(l, p) ==
  /\ ~VoteGE(vote[l], vote[p])
  /\ LET resp == convert_append_entries_response("higher_vote", vote[p])
     IN /\ client_append_entries(resp) = "higher_vote"
        /\ vote' = [vote EXCEPT ![l] = convert_vote(resp.vote)]
  /\ matched' = [matched EXCEPT ![l] = NoMatch]
  /\ UNCHANGED <<log, last, up, view, io, histVars, crashes>>

(* The next write of a server, and the answer after the last one.          *)
Execute(n) ==
  /\ up[n] /\ io[n] # <<>>
  /\ io' = [io EXCEPT ![n] = Tail(@)]
  /\ LET c == Head(io[n])
     IN /\ \/ /\ c.op \in {"put", "delete"}
              /\ log' = [log EXCEPT ![n][c.id.index] = IF c.op = "put" THEN c.id.term ELSE Absent]
              /\ UNCHANGED last
           \/ /\ c.op = "last"
              /\ last' = [last EXCEPT ![n] = c.id]
              /\ UNCHANGED log
        /\ matched' = Match(c.ack, n)
  /\ UNCHANGED <<vote, up, view, histVars, crashes>>

(* An entry of the leader's own term that a quorum has is committed, with  *)
(* everything before it.                                                   *)
Commit(l) ==
  \E i \in Index :
    LET new == {IdAt(view[l], j) : j \in 0 .. i} \ {c.id : c \in committed}
    IN /\ Leader(l) /\ Idle(l) /\ i < Len(view[l]) /\ view[l][i + 1] = vote[l].term
       /\ {p \in Server : matched[l][p] >= i} \in Quorum
       /\ new # {}
       /\ committed' = committed \cup {[id |-> id, at |-> vote[l].term] : id \in new}
       /\ UNCHANGED <<diskVars, memVars, elected, torn, crashes>>

(* last_log_id is the id of a stored entry.                                *)
Truthful(n) == last[n] # NoId => log[n][last[n].index] = last[n].term

Crash(n) ==
  /\ crashes < MaxCrashes /\ up[n]
  /\ \A p \in Server \ {n} : io[p] = <<>>
  /\ up' = [up EXCEPT ![n] = FALSE]
  /\ view' = [view EXCEPT ![n] = <<>>]
  /\ io' = [io EXCEPT ![n] = <<>>]
  /\ matched' = [matched EXCEPT ![n] = NoMatch]
  /\ torn' = (torn \/ ~Truthful(n))
  /\ crashes' = crashes + 1
  /\ UNCHANGED <<diskVars, committed, elected>>

(* RaftNode::with_config: openraft reads the vote and the log state, and   *)
(* the log ids of the entries before the last one.  A missing entry is an  *)
(* error that init_raft_node passes on.                                    *)
LastEntryNotRead(n) == [i \in 1 .. last[n].index |-> log[n][i - 1]]

get_log_state(n) ==
  [i \in 1 .. (last[n].index + 1) |->
     IF i = last[n].index + 1 THEN last[n].term ELSE log[n][i - 1]]

VoteForgotten(n) == NoVote

read_vote(n) == vote[n]

Restart(n) ==
  /\ ~up[n] /\ \A p \in Server : io[p] = <<>>
  /\ \A i \in 0 .. (last[n].index - 1) : log[n][i] # Absent
  /\ up' = [up EXCEPT ![n] = TRUE]
  /\ view' = [view EXCEPT ![n] = get_log_state(n)]
  /\ vote' = [vote EXCEPT ![n] = read_vote(n)]
  /\ UNCHANGED <<log, last, io, matched, histVars, crashes>>

Next ==
  \/ \E n \in Server :
       \/ ClientWrite(n) \/ Execute(n) \/ Commit(n)
       \/ Crash(n) \/ Restart(n)
  \/ \E n \in Server, Q \in SUBSET Server : Elect(n, Q)
  \/ \E l \in {n \in Server : Leader(n) /\ Idle(n)}, p \in {n \in Server : Idle(n)} :
       /\ l # p
       /\ \/ HigherVote(l, p)
          \/ \E prev \in -1 .. MaxIndex, hi \in Index :
               prev < hi /\ AppendEntries(l, p, prev, hi)

Spec == Init /\ [][Next]_vars
-----------------------------------------------------------------------------
TypeOK ==
  /\ log \in [Server -> [Index -> {Absent} \cup 0 .. MaxTerm]]
  /\ last \in [Server -> {[term |-> t, index |-> i] : t \in 0 .. MaxTerm, i \in Index}
                         \cup {NoId}]
  /\ \A n \in Server : /\ vote[n].term \in 0 .. MaxTerm
                       /\ vote[n].node \in Server \cup {NoServer}
                       /\ vote[n].committed \in BOOLEAN
                       /\ Len(view[n]) <= MaxIndex + 1
  /\ up \in [Server -> BOOLEAN]
  /\ matched \in [Server -> [Server -> {Absent} \cup Index]]
  /\ committed \subseteq [id : LogId, at : 0 .. MaxTerm]
  /\ elected \in [1 .. MaxTerm -> SUBSET Server]
  /\ torn \in BOOLEAN /\ crashes \in 0 .. MaxCrashes

(* A term has one leader at most, over all crashes: a server's vote is on  *)
(* disk before its answer leaves, and it reads the vote back.              *)
ElectionSafety == \A t \in 1 .. MaxTerm : Cardinality(elected[t]) <= 1

Stored(n, id) == id.index <= last[n].index /\ log[n][id.index] = id.term

(* A committed entry is on the disks of a majority, whatever was cut short *)
(* by crashes, unless a server died between a truncation and the next      *)
(* append, when last_log_id names no stored entry.                         *)
CommittedOnQuorum ==
  (~torn) =>
    \A c \in committed : \E Q \in Quorum : \A n \in Q : Stored(n, c.id)

(* A leader has every entry that was committed in an earlier term; with    *)
(* the same exception.                                                     *)
LeaderCompleteness ==
  (~torn) =>
    \A n \in Server, c \in committed :
      Leader(n) /\ c.at < vote[n].term =>
        c.id.index < Len(view[n]) /\ IdAt(view[n], c.id.index) = c.id
=============================================================================
