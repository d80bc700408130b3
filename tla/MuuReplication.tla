--------------------------- MODULE MuuReplication ---------------------------
(***************************************************************************)
(* The replication of one tenant's writes by the control unit              *)
(* hw/src/muu/muu_replicate_CentralSM.vhdl, after the cluster has been set  *)
(* up (SETUPPEER, ADDPEER, SETLEADER): every node is in phase PH_NORMAL,    *)
(* one node is ROLE_LEADER, the others follow it, and peer ids are the      *)
(* contiguous range 1..N that ST_SENDTOALL and ST_CHKQRM_ACKS walk over.    *)
(*                                                                         *)
(* The unit takes one command at a time (ST_WAITOP accepts, ST_HANDLEOP and *)
(* the states behind it execute, then back to ST_WAITOP), so one action    *)
(* models the whole handling of one command.  The request pipeline behind   *)
(* the unit is in order: the hash table operation a message carries is      *)
(* applied before the message leaves the node.                             *)
(*                                                                         *)
(* A value is named by the zxid of the write that carries it; 0 is the null *)
(* value pointer.  The epoch is the constant 1 after set-up and left out.  *)
(***************************************************************************)
EXTENDS Integers, Sequences, FiniteSets

CONSTANTS
  N,            \* number of nodes of the cluster
  Leader,       \* the node named by SETLEADER
  CommitCount,  \* peerCountForCommit: N after ADDPEER, or what SETCOMMITCNT set
  Keys, NoKey,  \* the keys; NoKey is the content of a log slot never written
  Sessions, NoSession,  \* client sessions; NoSession: session memory never written
  LogSlots,     \* slots of the request log (2**LOC_ADDR_WIDTH)
  SessSlots,    \* slots of the session memory (2**(MAX_OUTSTANDING_REQS_BITS-USER_BITS))
  Window,       \* writes the clients keep outstanding, together
  ExclusiveKeys, \* keys of which clients never have two outstanding writes
  MaxZxid,      \* bound: number of writes of a run
  MaxDrops      \* bound: number of requests muu_requestsplit throws away

ASSUME ClusterAssumption ==
  /\ N \in Nat /\ N >= 2
  /\ Leader \in 1..N
  /\ CommitCount \in Nat
ASSUME SizeAssumption ==
  /\ LogSlots \in Nat \ {0} /\ SessSlots \in Nat \ {0}
  /\ Window \in Nat \ {0} /\ MaxZxid \in Nat /\ MaxDrops \in Nat
  /\ ExclusiveKeys \subseteq Keys
ASSUME ValueAssumption == NoKey \notin Keys /\ NoSession \notin Sessions

Nodes == 1..N
Peers == Nodes \ {Leader}
PeerCount == N - 1   \* peerCount does not include the node itself
Zxid == 0..MaxZxid

VARIABLES
  myZxid,        \* per node: last zxid accepted (follower) or committed (leader)
  proposedZxid,  \* leader: last zxid proposed
  peerZxidAck,   \* leader, per peer: last zxid the peer acknowledged, in order
  peerZxidCmt,   \* leader, per peer: last zxid whose COMMIT was sent to the peer
  log,           \* per node: muu_replicate_LogManager, key by zxid modulo LogSlots
  sessMem,       \* leader: client session by zxid modulo SessSlots
  down, up,      \* the connections leader -> peer and peer -> leader, in order
  store,         \* per node and key: current and prepared value pointer
  drops,         \* number of requests thrown away so far
  \* What happened so far, for the properties only; no action reads these,
  \* but for the clients' own rule for ExclusiveKeys.
  written,       \* the client writes [key, sess], by zxid
  accepted,      \* per node: the set of zxids logged and prepared there
  flips,         \* per node: the FLIPPOINTs issued, as [zxid, key], in order
  replies        \* answers to clients [sess, zxid], in order

leaderVars == <<proposedZxid, peerZxidAck, peerZxidCmt, sessMem>>
history == <<written, accepted, flips, replies>>
vars == <<myZxid, leaderVars, log, down, up, store, drops, history>>

-----------------------------------------------------------------------------
(* Messages, the request log and the hash table. *)

ProposalMsg(z, k) == [type |-> "PROPOSAL", zxid |-> z, key |-> k]
\* Mutated: the number of the next write is taken.
CommitMsgNext(z)  == [type |-> "COMMIT", zxid |-> z + 1]
CommitMsg(z)      == [type |-> "COMMIT", zxid |-> z]
Messages == [type : {"PROPOSAL"}, zxid : 1..MaxZxid, key : Keys]
              \cup [type : {"COMMIT"}, zxid : 1..MaxZxid]

\* Mutated: the slot address is one value short.
LogSlotShort(z) == z % (LogSlots - 1)
LogSlot(z) == z % LogSlots

\* Mutated: the slot address is one value short.
SessSlotShort(z) == z % (SessSlots - 1)
SessSlot(z) == z % SessSlots
LogAdd(n, z, k) == log' = [log EXCEPT ![n][LogSlot(z)] = k]
LogFind(n, z)   == log[n][LogSlot(z)]

\* Mutated: the write goes to the current pointer, as HTOP_SETCUR does.
SetNextAsCur(entry, z) == [entry EXCEPT !.cur = z]
\* muu_ht_write, HTOP_SETNEXT: the prepared value is replaced if there is one.
SetNext(entry, z) == [entry EXCEPT !.next = z]
\* Mutated: the prepared pointer is not checked.
FlipPointUnchecked(entry) == [cur |-> entry.next, next |-> 0]
\* muu_ht_write, HTOP_FLIPPOINT: without a prepared value nothing changes.
FlipPoint(entry) ==
  IF entry.next = 0 THEN entry ELSE [cur |-> entry.next, next |-> 0]

\* The FLIPPOINT of a commit: the key is the one found in the node's log.
Flip(n, z) ==
  LET k == LogFind(n, z) IN
  /\ store' = IF k \in Keys THEN [store EXCEPT ![n][k] = FlipPoint(@)] ELSE store
  /\ flips' = [flips EXCEPT ![n] = Append(@, [zxid |-> z, key |-> k])]

-----------------------------------------------------------------------------
(* The leader: write requests and acknowledgements. *)

\* The clients' side: what they may send (the unit has no flow control).
ClientMaySend(k) ==
  /\ proposedZxid < MaxZxid
  /\ proposedZxid - myZxid[Leader] < Window
  /\ k \in ExclusiveKeys =>
       \A z \in (myZxid[Leader] + 1)..proposedZxid : written[z].key # k

\* WRITEREQ: log the key, prepare the value locally, propose to every peer,
\* remember the client's session.
WriteReq(k, s) ==
  LET z == proposedZxid + 1 IN
  /\ ClientMaySend(k)
  /\ LogAdd(Leader, z, k)
  /\ store' = [store EXCEPT ![Leader][k] = SetNext(@, z)]
  /\ down' = [p \in Peers |-> Append(down[p], ProposalMsg(z, k))]
  /\ proposedZxid' = z
  /\ sessMem' = [sessMem EXCEPT ![SessSlot(z)] = [zxid |-> z, sess |-> s]]
  /\ written' = Append(written, [key |-> k, sess |-> s])
  /\ accepted' = [accepted EXCEPT ![Leader] = @ \cup {z}]
  /\ UNCHANGED <<myZxid, peerZxidAck, peerZxidCmt, up, drops, flips, replies>>

\* Mutated: not comparing what was sent; only the exact position.
CountedPeersResend(ack, z)   == {p \in Peers : ack[p] > z - 1}
CountedPeersExact(ack, z)    == {p \in Peers : ack[p] = z /\ peerZxidCmt[p] = z - 1}
\* ST_CHKQRM_ACKS: who counts towards the commit of z, given the
\* acknowledgements ack.  Whoever does not count is masked out of the sending.
CountedPeers(ack, z) == {p \in Peers : ack[p] > z - 1 /\ peerZxidCmt[p] = z - 1}
Counted(ack, z) ==
  CountedPeers(ack, z) \cup (IF myZxid[Leader] = z - 1 THEN {Leader} ELSE {})

\* Mutated: the node itself is left out of the number; a small cluster waits for all.
QuorumMetPeersOnly(c) ==
  \/ PeerCount > 2 /\ 2 * c >= CommitCount - 1
  \/ PeerCount < 3 /\ c >= PeerCount
QuorumMetByAll(c) ==
  \/ PeerCount > 2 /\ 2 * c >= CommitCount
  \/ PeerCount < 3 /\ c >= PeerCount + 1
QuorumMet(c) ==
  \/ PeerCount > 2 /\ 2 * c >= CommitCount
  \/ PeerCount < 3 /\ c >= PeerCount
\* Mutated: no late commits.
LateCommitNever(c, z) == FALSE
\* The commit of z was already decided; only a slow peer still has to hear of it.
LateCommit(c, z) == c = 1 /\ myZxid[Leader] > z - 1

\* Mutated: the mask is ignored.
SendCommitsToAll(to, z) ==
  /\ peerZxidCmt' = [p \in Peers |-> z]
  /\ down' = [p \in Peers |-> Append(down[p], CommitMsg(z))]
\* ST_SENDTOALL for a COMMIT: only to peers the mask lets through.
SendCommits(to, z) ==
  /\ peerZxidCmt' = [p \in Peers |-> IF p \in to THEN z ELSE peerZxidCmt[p]]
  /\ down' = [p \in Peers |-> IF p \in to THEN Append(down[p], CommitMsg(z))
                                          ELSE down[p]]

\* ST_FINISH_COMMIT and ST_FINISH_COMMIT_DATAFORAPP.  When the session memory
\* no longer knows z, nothing is applied or answered although myZxid advances.
FinishCommit(z) ==
  IF myZxid[Leader] + 1 # z
  THEN UNCHANGED <<myZxid, store, flips, replies>>
  ELSE /\ myZxid' = [myZxid EXCEPT ![Leader] = z]
       /\ LET m == sessMem[SessSlot(z)] IN
          IF m.zxid = z
          THEN /\ Flip(Leader, z)
               /\ replies' = Append(replies, [sess |-> m.sess, zxid |-> z])
          ELSE UNCHANGED <<store, flips, replies>>

NoCommit == UNCHANGED <<myZxid, peerZxidCmt, down, store, flips, replies>>

\* Mutated: a gap in the acknowledgements goes unnoticed.
InOrderAckGap(p, z) == proposedZxid >= z /\ peerZxidAck[p] < z
InOrderAck(p, z) == proposedZxid >= z /\ peerZxidAck[p] + 1 = z

\* ACKPROPOSE: record an in-order acknowledgement and commit if that makes a
\* quorum; an acknowledgement out of order is an error and is dropped.
AckPropose(p) ==
  /\ up[p] # <<>>
  /\ up' = [up EXCEPT ![p] = Tail(@)]
  /\ LET z   == Head(up[p])
         ack == [peerZxidAck EXCEPT ![p] = z]
         c   == Cardinality(Counted(ack, z)) IN
     IF InOrderAck(p, z)
     THEN /\ peerZxidAck' = ack
          /\ IF /\ peerZxidCmt[p] = peerZxidAck[p]
                /\ QuorumMet(c) \/ LateCommit(c, z)
             THEN /\ SendCommits(CountedPeers(ack, z), z)
                  /\ IF LateCommit(c, z)
                     THEN UNCHANGED <<myZxid, store, flips, replies>>
                     ELSE FinishCommit(z)
             ELSE NoCommit
     ELSE UNCHANGED peerZxidAck /\ NoCommit
  /\ UNCHANGED <<proposedZxid, sessMem, log, drops, written, accepted>>

-----------------------------------------------------------------------------
(* The followers. *)

\* PROPOSAL: log the key, prepare the value, acknowledge.  A gap is reported as
\* an error but handled all the same (ST_REQUESTSYNC is commented out).
Proposal(p) ==
  /\ down[p] # <<>>
  /\ LET m == Head(down[p]) IN
     /\ m.type = "PROPOSAL"
     /\ down' = [down EXCEPT ![p] = Tail(@)]
     /\ LogAdd(p, m.zxid, m.key)
     /\ store' = [store EXCEPT ![p][m.key] = SetNext(@, m.zxid)]
     /\ myZxid' = [myZxid EXCEPT ![p] = m.zxid]
     /\ up' = [up EXCEPT ![p] = Append(@, m.zxid)]
     /\ accepted' = [accepted EXCEPT ![p] = @ \cup {m.zxid}]
  /\ UNCHANGED <<leaderVars, drops, written, flips, replies>>

\* COMMIT: flip the key found in the log; a zxid not accepted yet is an error.
Commit(p) ==
  /\ down[p] # <<>>
  /\ LET m == Head(down[p]) IN
     /\ m.type = "COMMIT"
     /\ down' = [down EXCEPT ![p] = Tail(@)]
     /\ IF m.zxid <= myZxid[p] THEN Flip(p, m.zxid)
                               ELSE UNCHANGED <<store, flips>>
  /\ UNCHANGED <<myZxid, leaderVars, log, up, drops, written, accepted, replies>>

-----------------------------------------------------------------------------
(* muu_requestsplit throws a whole request away when it arrives while the    *)
(* outputs are not clear (ST_DROP_FIRST, ST_DROP_REST).                      *)

DropAtFollower(p) ==
  /\ drops < MaxDrops /\ down[p] # <<>>
  /\ down' = [down EXCEPT ![p] = Tail(@)]
  /\ drops' = drops + 1
  /\ UNCHANGED <<myZxid, leaderVars, log, up, store, history>>

DropAtLeader(p) ==
  /\ drops < MaxDrops /\ up[p] # <<>>
  /\ up' = [up EXCEPT ![p] = Tail(@)]
  /\ drops' = drops + 1
  /\ UNCHANGED <<myZxid, leaderVars, log, down, store, history>>

-----------------------------------------------------------------------------
Init ==
  /\ myZxid = [n \in Nodes |-> 0]
  /\ proposedZxid = 0
  /\ peerZxidAck = [p \in Peers |-> 0]
  /\ peerZxidCmt = [p \in Peers |-> 0]
  /\ log = [n \in Nodes |-> [i \in 0..(LogSlots - 1) |-> NoKey]]
  /\ sessMem = [i \in 0..(SessSlots - 1) |-> [zxid |-> 0, sess |-> NoSession]]
  /\ down = [p \in Peers |-> <<>>]
  /\ up = [p \in Peers |-> <<>>]
  /\ store = [n \in Nodes |-> [k \in Keys |-> [cur |-> 0, next |-> 0]]]
  /\ drops = 0
  /\ written = <<>>
  /\ accepted = [n \in Nodes |-> {}]
  /\ flips = [n \in Nodes |-> <<>>]
  /\ replies = <<>>


Next ==
  \/ \E k \in Keys, s \in Sessions : WriteReq(k, s)
  \/ \E p \in Peers : AckPropose(p)
  \/ \E p \in Peers : Proposal(p)
  \/ \E p \in Peers : Commit(p)
  \/ \E p \in Peers : DropAtFollower(p)
  \/ \E p \in Peers : DropAtLeader(p)

Spec == Init /\ [][Next]_vars

-----------------------------------------------------------------------------
(* Fairness: a node that works processes what reaches it (ST_WAITOP takes a  *)
(* command whenever cmd_in_valid, and TCP delivers); a peer outside Working  *)
(* may stop for good.  Clients need not write, and losses need not happen.   *)
Fairness(Working) ==
  \A p \in Working : WF_vars(Proposal(p)) /\ WF_vars(Commit(p)) /\ WF_vars(AckPropose(p))

-----------------------------------------------------------------------------
(* Properties. *)

Entries     == [cur : Zxid, next : Zxid]
SessRecords == {[zxid |-> 0, sess |-> NoSession]} \cup [zxid : 1..MaxZxid, sess : Sessions]
Writes      == [key : Keys, sess : Sessions]
FlipRecords == [zxid : 1..MaxZxid, key : Keys \cup {NoKey}]
Answers     == [sess : Sessions, zxid : 1..MaxZxid]

\* The shape of the state (one type invariant; the proofs rest on it).
TypeOK ==
  /\ myZxid \in [Nodes -> Zxid]
  /\ proposedZxid \in Zxid
  /\ peerZxidAck \in [Peers -> Zxid]
  /\ peerZxidCmt \in [Peers -> Zxid]
  /\ log \in [Nodes -> [0..(LogSlots - 1) -> Keys \cup {NoKey}]]
  /\ sessMem \in [0..(SessSlots - 1) -> SessRecords]
  /\ down \in [Peers -> Seq(Messages)]
  /\ up \in [Peers -> Seq(1..MaxZxid)]
  /\ store \in [Nodes -> [Keys -> Entries]]
  /\ drops \in 0..MaxDrops
  /\ written \in Seq(Writes)
  /\ accepted \in [Nodes -> SUBSET (1..MaxZxid)]
  /\ flips \in [Nodes -> Seq(FlipRecords)]
  /\ replies \in Seq(Answers)

Least(a, b) == IF a < b THEN a ELSE b

\* A peer has been sent the COMMIT of exactly those writes that it acknowledged
\* and that are committed: ST_CHKQRM_ACKS may then take "one counted node and
\* myZxid already there" for a late commit, and never re-sends or skips one.
PeerBookkeeping ==
  \A p \in Peers : peerZxidCmt[p] = Least(peerZxidAck[p], myZxid[Leader])

\* What the leader believes acknowledged or committed really was logged and
\* prepared by that peer, whatever was thrown away on the way.
AcknowledgedIsAccepted ==
  /\ \A p \in Peers : 1..peerZxidAck[p] \subseteq accepted[p]
  /\ 1..myZxid[Leader] \subseteq accepted[Leader]

Holders(z) == {n \in Nodes : z \in accepted[n]}

\* Every committed write was accepted by enough nodes for the quorum test.
CommittedByQuorum ==
  \A z \in 1..myZxid[Leader] :
    QuorumMet(Cardinality(Holders(z)))

\* Every committed write is held by more than half of the nodes ("for majority
\* need to add 1 to the peercount", muu_replicate_CentralSM.vhdl:1534).
CommittedByMajority ==
  \A z \in 1..myZxid[Leader] :
    2 * Cardinality(Holders(z)) > N

\* The leader never sits on a quorum: acknowledgements only trigger a commit
\* when they arrive, so a write overlooked then would never be committed.
Ahead == {p \in Peers : peerZxidAck[p] > myZxid[Leader]}
NoOverlookedQuorum == Ahead # {} => ~QuorumMet(1 + Cardinality(Ahead))

\* Every committed write was answered once, in commit order, to the session that
\* issued it, and applied at the leader: ST_FINISH_COMMIT finds the session in
\* the memory written by ST_FINISH_WRITEREQ.
CommittedIsAnswered ==
  /\ replies = [z \in 1..myZxid[Leader] |-> [sess |-> written[z].sess, zxid |-> z]]
  /\ flips[Leader] = [z \in 1..myZxid[Leader] |-> [zxid |-> z, key |-> written[z].key]]

\* The zxids of the messages of one type on their way are lo + 1 .. hi, each once
\* and in order.
InTurn(s, type, lo, hi) ==
  LET Is == {i \in 1..Len(s) : s[i].type = type} IN
  /\ {s[i].zxid : i \in Is} = (lo + 1)..hi
  /\ \A i, j \in Is : i < j => s[i].zxid < s[j].zxid

\* Without losses a follower flips the committed writes one by one, in order, and
\* is never ahead of the leader (AckPropose 1209-1240 and SendCommits: each COMMIT
\* is sent to each peer once, whatever order the acknowledgements come in).
FollowerAppliesInOrder ==
  drops = 0 =>
    \A p \in Peers :
      /\ \A i \in 1..Len(flips[p]) : flips[p][i].zxid = i
      /\ InTurn(down[p], "COMMIT", Len(flips[p]), peerZxidCmt[p])
      /\ Len(flips[p]) <= peerZxidCmt[p] /\ peerZxidCmt[p] <= myZxid[Leader]

\* A FLIPPOINT is for the key of the write committed, also after losses, as long
\* as the node has not logged LogSlots later writes: COMMITs carry no key, it is
\* looked up in the ring of muu_replicate_LogManager.
LastLogged(n) == IF n = Leader THEN proposedZxid ELSE myZxid[n]
FlipsRightKey ==
  [][\A n \in Nodes : flips'[n] # flips[n] =>
       LET f == flips'[n][Len(flips'[n])] IN
       f.zxid > LastLogged(n) - LogSlots => f.key = written[f.zxid].key]_vars

\* A COMMIT never reaches a follower that does not have the write, so the error
\* branch of COMMIT is never taken, whatever was thrown away.
CommitsAreForAccepted ==
  \A p \in Peers : \A i \in 1..Len(down[p]) :
    down[p][i].type = "COMMIT" => down[p][i].zxid \in accepted[p]

\* The last write of a key, 0 if none.
LastWrite(k, upTo) ==
  LET ws == {z \in 1..upTo : written[z].key = k} IN
  IF ws = {} THEN 0 ELSE CHOOSE z \in ws : \A y \in ws : y <= z

\* When everything proposed is acknowledged by all and nothing is in flight, the
\* stores agree: each key has its last write as value and nothing prepared
\* (HTOP_SETNEXT and HTOP_FLIPPOINT in the order of the commits at every node).
Converged ==
  (/\ drops = 0 /\ proposedZxid <= LogSlots
   /\ \A p \in Peers : down[p] = <<>> /\ up[p] = <<>>)
    => \A n \in Nodes, k \in Keys :
         store[n][k] = [cur |-> LastWrite(k, proposedZxid), next |-> 0]

\* The value of a key that can be read at the leader (the current pointer of its
\* hash table) is that of the last committed write of the key.
ReadsCommitted(k) == store[Leader][k].cur = LastWrite(k, myZxid[Leader])

\* So it is for the keys of which clients have one outstanding write at a time
\* (HTOP_SETNEXT, muu_ht_write.v:690, has room for one prepared value).
ExclusiveReadsCommitted == \A k \in ExclusiveKeys : ReadsCommitted(k)

\* The promise this protocol implements; every step of MuuReplication is a step
\* of AtomicBroadcast or changes nothing it speaks of.
Broadcast == INSTANCE AtomicBroadcast WITH
  Source <- Leader,
  order <- written,
  committed <- myZxid[Leader],
  delivered <- [n \in Nodes |-> [i \in 1..Len(flips[n]) |-> flips[n][i].zxid]]
ImplementsBroadcast == Broadcast!Spec

\* Every write proposed is eventually committed (and so answered).
EveryWriteCommits ==
  \A z \in 1..MaxZxid : proposedZxid >= z ~> myZxid[Leader] >= z

\* A follower that works eventually applies every committed write.
FollowersCatchUp(Working) ==
  \A p \in Working, z \in 1..MaxZxid :
    myZxid[Leader] >= z ~> \E i \in 1..Len(flips[p]) : flips[p][i].zxid = z
=============================================================================
