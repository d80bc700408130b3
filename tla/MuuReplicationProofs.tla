------------------------ MODULE MuuReplicationProofs ------------------------
(***************************************************************************)
(* Theorems about MuuReplication, for every size of the cluster, of the     *)
(* request log and of the session memory, and every number of lost requests: *)
(* quorums; the order in which writes are accepted, committed and applied;   *)
(* the contents of the request log and of the session memory; the            *)
(* implementation of AtomicBroadcast; what the followers apply when nothing  *)
(* is thrown away, and what the stores hold.                                *)
(***************************************************************************)
EXTENDS MuuReplication, FiniteSetTheorems, SequenceTheorems, TLAPS

-----------------------------------------------------------------------------
(* Type correctness. *)

\* The initial state has the declared types.
LEMMA InitTypeOK == Init => TypeOK
BY ClusterAssumption, SizeAssumption, ValueAssumption
   DEF Init, TypeOK, Zxid, Peers, Nodes, Entries, SessRecords

\* The head and the tail of a sequence that is not empty.
LEMMA HeadTail ==
  ASSUME NEW S, NEW s \in Seq(S), s # <<>>
  PROVE  Head(s) \in S /\ Tail(s) \in Seq(S)
OBVIOUS

\* The leader is a node and not one of its peers.
LEMMA NodesAndPeers ==
  /\ Leader \in Nodes /\ Leader \notin Peers
  /\ \A p \in Peers : p \in Nodes /\ p # Leader
BY ClusterAssumption DEF Nodes, Peers

\* Slot numbers stay inside the request log and the session memory.
LEMMA SlotType ==
  ASSUME NEW z \in Nat
  PROVE  LogSlot(z) \in 0..(LogSlots - 1) /\ SessSlot(z) \in 0..(SessSlots - 1)
BY SizeAssumption DEF LogSlot, SessSlot

\* The hash table operations map entries to entries.
LEMMA EntryType ==
  ASSUME NEW e \in Entries, NEW z \in Zxid
  PROVE  SetNext(e, z) \in Entries /\ FlipPoint(e) \in Entries
BY SizeAssumption DEF SetNext, FlipPoint, Zxid, Entries

\* Flipping a key at a node keeps the types of the store and the history.
LEMMA FlipType ==
  ASSUME TypeOK, NEW n \in Nodes, NEW z \in 1..MaxZxid, Flip(n, z)
  PROVE  /\ store' \in [Nodes -> [Keys -> Entries]]
         /\ flips' \in [Nodes -> Seq(FlipRecords)]
<1> DEFINE k == LogFind(n, z)
<1>1. k \in Keys \cup {NoKey}
  <2>1. LogSlot(z) \in 0..(LogSlots - 1)
    BY SlotType, SizeAssumption
  <2>2. log[n] \in [0..(LogSlots - 1) -> Keys \cup {NoKey}]
    BY DEF TypeOK
  <2> QED
    BY <2>1, <2>2 DEF LogFind
<1>2. [zxid |-> z, key |-> k] \in FlipRecords
  BY <1>1 DEF FlipRecords
<1>3. flips' \in [Nodes -> Seq(FlipRecords)]
  <2>1. flips[n] \in Seq(FlipRecords)
    BY DEF TypeOK
  <2>2. Append(flips[n], [zxid |-> z, key |-> k]) \in Seq(FlipRecords)
    BY <1>2, <2>1
  <2> QED
    BY <2>2 DEF TypeOK, Flip
<1>4. ASSUME k \in Keys PROVE FlipPoint(store[n][k]) \in Entries
  <2>1. store[n][k] \in Entries
    BY <1>4 DEF TypeOK
  <2> QED
    BY <2>1, EntryType, SizeAssumption DEF Zxid
<1>5. store' \in [Nodes -> [Keys -> Entries]]
  BY <1>4 DEF TypeOK, Flip
<1> QED
  BY <1>3, <1>5

\* The leader's handling of a write request keeps the types.
LEMMA WriteReqTypeOK ==
  ASSUME TypeOK, NEW k \in Keys, NEW s \in Sessions, WriteReq(k, s)
  PROVE  TypeOK'
<1> DEFINE z == proposedZxid + 1
<1>1. z \in 1..MaxZxid /\ z \in Zxid
  BY SizeAssumption DEF TypeOK, Zxid, WriteReq, ClientMaySend
<1>2. LogSlot(z) \in 0..(LogSlots - 1) /\ SessSlot(z) \in 0..(SessSlots - 1)
  BY <1>1, SlotType
<1>3. Leader \in Nodes
  BY NodesAndPeers
<1>4. ProposalMsg(z, k) \in Messages
  BY <1>1 DEF ProposalMsg, Messages
<1>5. log' \in [Nodes -> [0..(LogSlots - 1) -> Keys \cup {NoKey}]]
  BY <1>2 DEF TypeOK, WriteReq, LogAdd
<1>6. sessMem' \in [0..(SessSlots - 1) -> SessRecords]
  <2>1. [zxid |-> z, sess |-> s] \in SessRecords
    BY <1>1 DEF SessRecords
  <2> QED
    BY <2>1, <1>2 DEF TypeOK, WriteReq
<1>7. store' \in [Nodes -> [Keys -> Entries]]
  <2>1. store[Leader][k] \in Entries
    BY <1>3 DEF TypeOK
  <2>2. SetNext(store[Leader][k], z) \in Entries
    BY <2>1, <1>1, EntryType
  <2> QED
    BY <2>2, <1>3 DEF TypeOK, WriteReq
<1>8. down' \in [Peers -> Seq(Messages)]
  BY <1>4 DEF TypeOK, WriteReq
<1>9. written' \in Seq(Writes)
  <2>1. [key |-> k, sess |-> s] \in Writes
    BY DEF Writes
  <2> QED
    BY <2>1 DEF TypeOK, WriteReq
<1>10. accepted' \in [Nodes -> SUBSET (1..MaxZxid)]
  BY <1>1, <1>3 DEF TypeOK, WriteReq
<1> QED
  BY <1>1, <1>5, <1>6, <1>7, <1>8, <1>9, <1>10 DEF TypeOK, WriteReq

\* The end of a commit keeps the types.
LEMMA FinishCommitType ==
  ASSUME TypeOK, NEW z \in 1..MaxZxid, FinishCommit(z)
  PROVE  /\ myZxid' \in [Nodes -> Zxid]
         /\ store' \in [Nodes -> [Keys -> Entries]]
         /\ flips' \in [Nodes -> Seq(FlipRecords)]
         /\ replies' \in Seq(Answers)
<1>1. CASE myZxid[Leader] + 1 # z
  BY <1>1 DEF TypeOK, FinishCommit
<1>2. CASE myZxid[Leader] + 1 = z
  <2> DEFINE m == sessMem[SessSlot(z)]
  <2>1. myZxid' \in [Nodes -> Zxid]
    <3>1. z \in Zxid
      BY SizeAssumption DEF Zxid
    <3>2. myZxid' = [myZxid EXCEPT ![Leader] = z]
      BY <1>2 DEF FinishCommit
    <3> QED
      BY <3>1, <3>2 DEF TypeOK
  <2>2. CASE m.zxid # z
    BY <1>2, <2>1, <2>2 DEF TypeOK, FinishCommit
  <2>3. CASE m.zxid = z
    <3>1. m \in SessRecords
      <4>1. SessSlot(z) \in 0..(SessSlots - 1)
        BY SlotType, SizeAssumption
      <4> QED
        BY <4>1 DEF TypeOK
    <3>2. m.sess \in Sessions
      BY <2>3, <3>1 DEF SessRecords
    <3>3. [sess |-> m.sess, zxid |-> z] \in Answers
      BY <3>2 DEF Answers
    <3>4. replies' \in Seq(Answers)
      <4>1. replies' = Append(replies, [sess |-> m.sess, zxid |-> z])
        BY <1>2, <2>3 DEF FinishCommit
      <4> QED
        BY <3>3, <4>1 DEF TypeOK
    <3>5. Flip(Leader, z)
      BY <1>2, <2>3 DEF FinishCommit
    <3> QED
      BY <2>1, <3>4, <3>5, FlipType, NodesAndPeers
  <2> QED
    BY <2>2, <2>3
<1> QED
  BY <1>1, <1>2

\* What ACKPROPOSE does, by case: the acknowledgement is out of order; it is
\* recorded; it is recorded and a late COMMIT sent; it completes a quorum.
LEMMA AckProposeCases ==
  ASSUME TypeOK, NEW p \in Peers, AckPropose(p)
  PROVE  LET z   == Head(up[p])
             ack == [peerZxidAck EXCEPT ![p] = z]
             c   == Cardinality(Counted(ack, z)) IN
         /\ up[p] # <<>> /\ z \in 1..MaxZxid
         /\ up' = [up EXCEPT ![p] = Tail(@)]
         /\ UNCHANGED <<proposedZxid, sessMem, log, drops, written, accepted>>
         /\ \/ ~InOrderAck(p, z) /\ NoCommit /\ UNCHANGED peerZxidAck
            \/ /\ InOrderAck(p, z) /\ peerZxidAck' = ack
               /\ \/ /\ NoCommit
                     /\ \/ peerZxidCmt[p] # peerZxidAck[p]
                        \/ ~QuorumMet(c) /\ ~LateCommit(c, z)
                  \/ /\ peerZxidCmt[p] = peerZxidAck[p] /\ LateCommit(c, z)
                     /\ SendCommits(CountedPeers(ack, z), z)
                     /\ UNCHANGED <<myZxid, store, flips, replies>>
                  \/ /\ peerZxidCmt[p] = peerZxidAck[p]
                     /\ QuorumMet(c) /\ ~LateCommit(c, z)
                     /\ SendCommits(CountedPeers(ack, z), z)
                     /\ FinishCommit(z)
<1>1. up[p] # <<>> /\ up[p] \in Seq(1..MaxZxid)
  BY DEF AckPropose, TypeOK
<1>2. Head(up[p]) \in 1..MaxZxid
  BY <1>1, HeadTail
<1> QED
  BY <1>1, <1>2, Zenon DEF AckPropose

\* Sending COMMITs keeps the types.
LEMMA SendCommitsType ==
  ASSUME TypeOK, NEW to, NEW z \in 1..MaxZxid, SendCommits(to, z)
  PROVE  /\ peerZxidCmt' \in [Peers -> Zxid]
         /\ down' \in [Peers -> Seq(Messages)]
<1>1. CommitMsg(z) \in Messages
  BY DEF CommitMsg, Messages
<1> QED
  BY <1>1, SizeAssumption DEF TypeOK, SendCommits, Zxid

\* Handling an acknowledgement keeps the types.
LEMMA AckProposeTypeOK ==
  ASSUME TypeOK, NEW p \in Peers, AckPropose(p)
  PROVE  TypeOK'
<1> DEFINE z == Head(up[p])
           ack == [peerZxidAck EXCEPT ![p] = z]
           c == Cardinality(Counted(ack, z))
<1>1. /\ up[p] # <<>> /\ z \in 1..MaxZxid
      /\ up' = [up EXCEPT ![p] = Tail(@)]
      /\ UNCHANGED <<proposedZxid, sessMem, log, drops, written, accepted>>
      /\ UNCHANGED peerZxidAck \/ peerZxidAck' = ack
      /\ \/ NoCommit
         \/ /\ SendCommits(CountedPeers(ack, z), z)
            /\ FinishCommit(z) \/ UNCHANGED <<myZxid, store, flips, replies>>
  BY AckProposeCases
<1> HIDE DEF z, c
<1>2. up' \in [Peers -> Seq(1..MaxZxid)]
  BY <1>1 DEF TypeOK
<1>3. peerZxidAck' \in [Peers -> Zxid]
  <2>1. z \in Zxid
    BY <1>1, SizeAssumption DEF Zxid
  <2>2. ack \in [Peers -> Zxid]
    BY <2>1 DEF TypeOK
  <2> QED
    BY <1>1, <2>2 DEF TypeOK
<1>4. /\ peerZxidCmt' \in [Peers -> Zxid]
      /\ down' \in [Peers -> Seq(Messages)]
  BY <1>1, SendCommitsType DEF NoCommit, TypeOK
<1>5. /\ myZxid' \in [Nodes -> Zxid]
      /\ store' \in [Nodes -> [Keys -> Entries]]
      /\ flips' \in [Nodes -> Seq(FlipRecords)]
      /\ replies' \in Seq(Answers)
  BY <1>1, FinishCommitType DEF NoCommit, TypeOK
<1> QED
  BY <1>1, <1>2, <1>3, <1>4, <1>5 DEF TypeOK

\* Handling a proposal keeps the types.
LEMMA ProposalTypeOK ==
  ASSUME TypeOK, NEW p \in Peers, Proposal(p)
  PROVE  TypeOK'
<1> DEFINE m == Head(down[p])
<1>1. down[p] # <<>> /\ down[p] \in Seq(Messages) /\ m.type = "PROPOSAL"
  BY DEF Proposal, TypeOK
<1>2. m.zxid \in 1..MaxZxid /\ m.key \in Keys
  <2>1. m \in Messages
    BY <1>1
  <2> QED
    BY <1>1, <2>1 DEF Messages
<1>3. p \in Nodes /\ m.zxid \in Zxid
  BY <1>2, NodesAndPeers, SizeAssumption DEF Zxid
<1>4. log' \in [Nodes -> [0..(LogSlots - 1) -> Keys \cup {NoKey}]]
  <2>1. LogSlot(m.zxid) \in 0..(LogSlots - 1)
    BY <1>2, SlotType
  <2> QED
    BY <2>1, <1>2, <1>3 DEF TypeOK, Proposal, LogAdd
<1>5. store' \in [Nodes -> [Keys -> Entries]]
  <2>1. store[p][m.key] \in Entries
    BY <1>2, <1>3 DEF TypeOK
  <2>2. SetNext(store[p][m.key], m.zxid) \in Entries
    BY <2>1, <1>3, EntryType
  <2> QED
    BY <2>2, <1>3 DEF TypeOK, Proposal
<1>6. down' \in [Peers -> Seq(Messages)]
  BY <1>1 DEF TypeOK, Proposal
<1>7. up' \in [Peers -> Seq(1..MaxZxid)]
  BY <1>2 DEF TypeOK, Proposal
<1>8. /\ myZxid' \in [Nodes -> Zxid]
      /\ accepted' \in [Nodes -> SUBSET (1..MaxZxid)]
  BY <1>2, <1>3 DEF TypeOK, Proposal
<1> QED
  BY <1>4, <1>5, <1>6, <1>7, <1>8 DEF TypeOK, Proposal, leaderVars

\* Handling a COMMIT keeps the types.
LEMMA CommitTypeOK ==
  ASSUME TypeOK, NEW p \in Peers, Commit(p)
  PROVE  TypeOK'
<1> DEFINE m == Head(down[p])
<1>1. down[p] # <<>> /\ down[p] \in Seq(Messages)
  BY DEF Commit, TypeOK
<1>2. m.zxid \in 1..MaxZxid
  <2>1. m \in Messages
    BY <1>1
  <2> QED
    BY <2>1 DEF Messages
<1>3. down' \in [Peers -> Seq(Messages)]
  BY <1>1 DEF TypeOK, Commit
<1>4. /\ store' \in [Nodes -> [Keys -> Entries]]
      /\ flips' \in [Nodes -> Seq(FlipRecords)]
  <2>1. CASE Flip(p, m.zxid)
    BY <2>1, <1>2, FlipType, NodesAndPeers
  <2>2. CASE UNCHANGED <<store, flips>>
    BY <2>2 DEF TypeOK
  <2> QED
    BY <2>1, <2>2 DEF Commit
<1> QED
  BY <1>3, <1>4 DEF TypeOK, Commit, leaderVars

\* Throwing a request away keeps the types.
LEMMA DropTypeOK ==
  ASSUME TypeOK, NEW p \in Peers, DropAtFollower(p) \/ DropAtLeader(p)
  PROVE  TypeOK'
<1>1. drops' \in 0..MaxDrops
  BY SizeAssumption DEF TypeOK, DropAtFollower, DropAtLeader
<1>2. CASE DropAtFollower(p)
  <2>1. down' \in [Peers -> Seq(Messages)]
    BY <1>2 DEF TypeOK, DropAtFollower
  <2> QED
    BY <1>1, <1>2, <2>1 DEF TypeOK, DropAtFollower, leaderVars, history
<1>3. CASE DropAtLeader(p)
  <2>1. up' \in [Peers -> Seq(1..MaxZxid)]
    BY <1>3 DEF TypeOK, DropAtLeader
  <2> QED
    BY <1>1, <1>3, <2>1 DEF TypeOK, DropAtLeader, leaderVars, history
<1> QED
  BY <1>2, <1>3

\* The state always has the declared types.
THEOREM TypeCorrect == Spec => []TypeOK
<1>1. TypeOK /\ [Next]_vars => TypeOK'
  <2> SUFFICES ASSUME TypeOK, [Next]_vars PROVE TypeOK'
    OBVIOUS
  <2>1. CASE Next
    BY <2>1, WriteReqTypeOK, AckProposeTypeOK, ProposalTypeOK, CommitTypeOK,
       DropTypeOK DEF Next
  <2>2. CASE UNCHANGED vars
    BY <2>2 DEF TypeOK, vars, leaderVars, history
  <2> QED
    BY <2>1, <2>2
<1> QED
  BY InitTypeOK, <1>1, PTL DEF Spec

-----------------------------------------------------------------------------
(* The inductive invariant behind the commit rule. *)

\* An acknowledgement in flight is for a request the peer has accepted.
UpAccepted ==
  \A p \in Peers : \A i \in 1..Len(up[p]) : up[p][i] \in accepted[p]

\* The leader accepted all it proposed; nothing runs ahead of its proposals.
LeaderOrder ==
  /\ myZxid[Leader] <= proposedZxid
  /\ 1..proposedZxid \subseteq accepted[Leader]

CommitInv ==
  /\ UpAccepted
  /\ LeaderOrder
  /\ AcknowledgedIsAccepted
  /\ PeerBookkeeping
  /\ CommittedByQuorum
  /\ NoOverlookedQuorum
  /\ CommitsAreForAccepted

\* Nodes and peers are finite sets, and so are their subsets.
LEMMA FiniteNodes ==
  /\ IsFiniteSet(Nodes)
  /\ \A S \in SUBSET Nodes : IsFiniteSet(S) /\ Cardinality(S) \in Nat
  /\ \A S \in SUBSET Nodes, T \in SUBSET Nodes :
       S \subseteq T => Cardinality(S) <= Cardinality(T)
<1>1. IsFiniteSet(Nodes)
  BY ClusterAssumption, FS_Interval DEF Nodes
<1>2. \A S \in SUBSET Nodes : IsFiniteSet(S)
  BY <1>1, FS_Subset
<1>3. \A S \in SUBSET Nodes : Cardinality(S) \in Nat
  BY <1>2, FS_CardinalityType
<1>4. ASSUME NEW S \in SUBSET Nodes, NEW T \in SUBSET Nodes, S \subseteq T
      PROVE  Cardinality(S) <= Cardinality(T)
  BY <1>2, <1>4, FS_Subset
<1> QED
  BY <1>1, <1>2, <1>3, <1>4

\* The quorum test of ST_CHKQRM_ACKS holds for more nodes if it holds for fewer.
LEMMA QuorumMonotone ==
  ASSUME NEW c \in Nat, NEW d \in Nat, c <= d, QuorumMet(c)
  PROVE  QuorumMet(d)
BY ClusterAssumption DEF QuorumMet, PeerCount

\* While the leader's positions stand still and nodes only accept more, what is
\* known of acknowledgements and commits stays true.
LEMMA StandStill ==
  ASSUME TypeOK, TypeOK', AcknowledgedIsAccepted, PeerBookkeeping, CommittedByQuorum,
         NoOverlookedQuorum, myZxid'[Leader] = myZxid[Leader],
         peerZxidAck' = peerZxidAck, peerZxidCmt' = peerZxidCmt,
         \A n \in Nodes : accepted[n] \subseteq accepted'[n]
  PROVE  /\ AcknowledgedIsAccepted' /\ PeerBookkeeping'
         /\ CommittedByQuorum' /\ NoOverlookedQuorum'
<1>1. AcknowledgedIsAccepted'
  BY NodesAndPeers DEF AcknowledgedIsAccepted
<1>2. PeerBookkeeping'
  BY DEF PeerBookkeeping
<1>3. CommittedByQuorum'
  <2> SUFFICES ASSUME NEW z \in 1..myZxid[Leader]
               PROVE  QuorumMet(Cardinality(Holders(z)'))
    BY DEF CommittedByQuorum, QuorumMet
  <2>1. Holders(z) \subseteq Holders(z)' /\ Holders(z)' \subseteq Nodes
    BY DEF Holders
  <2>2. QuorumMet(Cardinality(Holders(z)))
    BY DEF CommittedByQuorum
  <2> QED
    BY <2>1, <2>2, FiniteNodes, QuorumMonotone
<1>4. NoOverlookedQuorum'
  <2>1. Ahead' = Ahead
    BY DEF Ahead
  <2> QED
    BY <2>1 DEF NoOverlookedQuorum, QuorumMet
<1> QED
  BY <1>1, <1>2, <1>3, <1>4

\* Initially nothing is acknowledged or committed.
LEMMA InitCommitInv == Init => CommitInv
<1> SUFFICES ASSUME Init PROVE CommitInv
  OBVIOUS
<1>1. UpAccepted /\ LeaderOrder /\ AcknowledgedIsAccepted
  BY NodesAndPeers DEF Init, UpAccepted, LeaderOrder, AcknowledgedIsAccepted
<1>2. PeerBookkeeping /\ CommittedByQuorum /\ CommitsAreForAccepted
  BY NodesAndPeers DEF Init, PeerBookkeeping, CommittedByQuorum, CommitsAreForAccepted, Least
<1>3. NoOverlookedQuorum
  <2>1. Ahead = {}
    BY NodesAndPeers DEF Init, Ahead
  <2> QED
    BY <2>1 DEF NoOverlookedQuorum
<1> QED
  BY <1>1, <1>2, <1>3 DEF CommitInv

\* A write request only adds to what the leader proposed and accepted.
LEMMA WriteReqCommitInv ==
  ASSUME TypeOK, TypeOK', CommitInv, NEW k \in Keys, NEW s \in Sessions, WriteReq(k, s)
  PROVE  CommitInv'
<1> DEFINE z == proposedZxid + 1
<1>1. /\ proposedZxid' = z /\ accepted' = [accepted EXCEPT ![Leader] = @ \cup {z}]
      /\ UNCHANGED <<myZxid, peerZxidAck, peerZxidCmt, up>>
      /\ down' = [p \in Peers |-> Append(down[p], ProposalMsg(z, k))]
  BY DEF WriteReq
<1>2. \A n \in Nodes : accepted[n] \subseteq accepted'[n]
  BY <1>1 DEF TypeOK
<1>3. UpAccepted'
  BY <1>1, <1>2, NodesAndPeers DEF UpAccepted, CommitInv
<1>4. LeaderOrder'
  <2>1. proposedZxid \in Nat /\ myZxid[Leader] \in Nat
    BY NodesAndPeers, SizeAssumption DEF TypeOK, Zxid
  <2>2. accepted'[Leader] = accepted[Leader] \cup {z}
    BY <1>1, NodesAndPeers DEF TypeOK
  <2> QED
    BY <1>1, <2>1, <2>2 DEF LeaderOrder, CommitInv
<1>5. CommitsAreForAccepted'
  <2> SUFFICES ASSUME NEW p \in Peers, NEW i \in 1..Len(down'[p]),
                      down'[p][i].type = "COMMIT"
               PROVE  down'[p][i].zxid \in accepted'[p]
    BY DEF CommitsAreForAccepted
  <2>1. down[p] \in Seq(Messages) /\ down'[p] = Append(down[p], ProposalMsg(z, k))
    BY <1>1 DEF TypeOK
  <2>2. CASE i \in 1..Len(down[p])
    BY <1>2, <2>1, <2>2, NodesAndPeers DEF CommitsAreForAccepted, CommitInv
  <2>3. CASE i = Len(down[p]) + 1
    BY <2>1, <2>3 DEF ProposalMsg
  <2> QED
    BY <2>1, <2>2, <2>3
<1> QED
  BY <1>1, <1>2, <1>3, <1>4, <1>5, StandStill DEF CommitInv

\* Where the leader stands when it takes an acknowledgement that is in order.
LEMMA AckFacts ==
  ASSUME TypeOK, CommitInv, NEW p \in Peers, AckPropose(p), InOrderAck(p, Head(up[p]))
  PROVE  LET z == Head(up[p]) IN
         /\ z \in Nat /\ peerZxidAck[p] = z - 1 /\ z <= proposedZxid
         /\ z \in accepted[p] /\ z \in accepted[Leader]
         /\ myZxid[Leader] \in Nat /\ proposedZxid \in Nat
<1> DEFINE z == Head(up[p])
<1>1. up[p] # <<>> /\ z \in 1..MaxZxid
  BY AckProposeCases
<1>2. z \in accepted[p]
  <2>1. up[p] \in Seq(1..MaxZxid)
    BY DEF TypeOK
  <2>2. 1 \in 1..Len(up[p]) /\ z = up[p][1]
    BY <1>1, <2>1
  <2> QED
    BY <2>2 DEF CommitInv, UpAccepted
<1>3. peerZxidAck[p] \in Nat /\ proposedZxid \in Nat /\ myZxid[Leader] \in Nat
  BY NodesAndPeers, SizeAssumption DEF TypeOK, Zxid
<1>4. z \in Nat /\ peerZxidAck[p] = z - 1 /\ z <= proposedZxid
  BY <1>1, <1>3, SizeAssumption DEF InOrderAck
<1>5. z \in accepted[Leader]
  BY <1>1, <1>3, <1>4 DEF CommitInv, LeaderOrder
<1> QED
  BY <1>2, <1>3, <1>4, <1>5

\* Who counts: when the leader has passed z, only the peer that just
\* acknowledged it; when z is its next write, every peer that acknowledged z.
LEMMA CountFacts ==
  ASSUME TypeOK, CommitInv, NEW p \in Peers, AckPropose(p), InOrderAck(p, Head(up[p])),
         peerZxidCmt[p] = peerZxidAck[p]
  PROVE  LET z   == Head(up[p])
             ack == [peerZxidAck EXCEPT ![p] = z] IN
         /\ \/ /\ myZxid[Leader] >= z
               /\ CountedPeers(ack, z) = {p}
               /\ LateCommit(Cardinality(Counted(ack, z)), z)
            \/ /\ myZxid[Leader] = z - 1
               /\ CountedPeers(ack, z) = {q \in Peers : ack[q] >= z}
               /\ Counted(ack, z) = CountedPeers(ack, z) \cup {Leader}
<1> DEFINE z == Head(up[p])
           ack == [peerZxidAck EXCEPT ![p] = z]
<1>1. /\ z \in Nat /\ peerZxidAck[p] = z - 1
      /\ myZxid[Leader] \in Nat
  BY AckFacts
<1>2. /\ peerZxidAck \in [Peers -> Nat]
      /\ ack[p] = z /\ \A q \in Peers : q # p => ack[q] = peerZxidAck[q]
  BY SizeAssumption DEF TypeOK, Zxid
<1>3. \A q \in Peers : peerZxidCmt[q] = Least(peerZxidAck[q], myZxid[Leader])
  BY DEF CommitInv, PeerBookkeeping
<1>4. myZxid[Leader] >= z - 1
  BY <1>1, <1>2, <1>3 DEF Least
<1> HIDE DEF z, ack
<1>5. CASE myZxid[Leader] >= z
  <2>1. \A q \in Peers : ack[q] > z - 1 /\ peerZxidCmt[q] = z - 1 <=> q = p
    BY <1>1, <1>2, <1>3, <1>5 DEF Least
  <2>2. CountedPeers(ack, z) = {p}
    BY <2>1 DEF CountedPeers
  <2>3. Counted(ack, z) = {p}
    BY <2>2, <1>1, <1>5 DEF Counted
  <2>4. Cardinality(Counted(ack, z)) = 1
    BY <2>3, FS_Singleton
  <2>5. LateCommit(Cardinality(Counted(ack, z)), z)
    BY <2>4, <1>1, <1>5 DEF LateCommit
  <2> QED
    BY <1>5, <2>2, <2>5 DEF z, ack
<1>6. CASE myZxid[Leader] = z - 1
  <2>1. \A q \in Peers : ack[q] > z - 1 /\ peerZxidCmt[q] = z - 1 <=> ack[q] >= z
    BY <1>1, <1>2, <1>3, <1>6 DEF Least
  <2>2. CountedPeers(ack, z) = {q \in Peers : ack[q] >= z}
    BY <2>1 DEF CountedPeers
  <2>3. Counted(ack, z) = CountedPeers(ack, z) \cup {Leader}
    BY <1>6 DEF Counted
  <2> QED
    BY <1>6, <2>2, <2>3 DEF z, ack
<1>7. myZxid[Leader] >= z \/ myZxid[Leader] = z - 1
  BY <1>1, <1>4
<1> QED
  BY <1>5, <1>6, <1>7

\* One more acknowledgement, no COMMIT sent.
LEMMA RecordedAck ==
  ASSUME TypeOK, TypeOK', CommitInv, NEW p \in Peers, AckPropose(p),
         InOrderAck(p, Head(up[p])), NoCommit,
         peerZxidAck' = [peerZxidAck EXCEPT ![p] = Head(up[p])],
         LET z   == Head(up[p])
             ack == [peerZxidAck EXCEPT ![p] = z]
             c   == Cardinality(Counted(ack, z)) IN
         \/ peerZxidCmt[p] # peerZxidAck[p]
         \/ ~QuorumMet(c) /\ ~LateCommit(c, z)
  PROVE  PeerBookkeeping' /\ NoOverlookedQuorum'
<1> DEFINE z == Head(up[p])
           ack == [peerZxidAck EXCEPT ![p] = z]
           c == Cardinality(Counted(ack, z))
<1>1. z \in Nat /\ peerZxidAck[p] = z - 1 /\ myZxid[Leader] \in Nat
  BY AckFacts
<1>2. /\ peerZxidAck \in [Peers -> Nat]
      /\ ack[p] = z /\ \A q \in Peers : q # p => ack[q] = peerZxidAck[q]
  BY SizeAssumption DEF TypeOK, Zxid
<1>3. \A q \in Peers : peerZxidCmt[q] = Least(peerZxidAck[q], myZxid[Leader])
  BY DEF CommitInv, PeerBookkeeping
<1>4. /\ peerZxidAck' = ack /\ peerZxidCmt' = peerZxidCmt
      /\ myZxid' = myZxid
  BY DEF NoCommit
<1>5. Ahead' = {q \in Peers : ack[q] > myZxid[Leader]}
  BY <1>4 DEF Ahead
<1>6. CASE peerZxidCmt[p] # peerZxidAck[p]
  <2> HIDE DEF z, ack
  <2>1. myZxid[Leader] < z - 1
    BY <1>1, <1>2, <1>3, <1>6 DEF Least
  <2>2. \A q \in Peers : peerZxidCmt[q] = Least(ack[q], myZxid[Leader])
    BY <1>1, <1>2, <1>3, <2>1 DEF Least
  <2>3. PeerBookkeeping'
    BY <1>4, <2>2 DEF PeerBookkeeping, Least
  <2>4. Ahead' = Ahead
    BY <1>1, <1>2, <1>5, <2>1 DEF Ahead
  <2> QED
    BY <2>3, <2>4 DEF NoOverlookedQuorum, QuorumMet, CommitInv
<1>7. CASE /\ peerZxidCmt[p] = peerZxidAck[p]
           /\ ~QuorumMet(c) /\ ~LateCommit(c, z)
  <2>1. /\ myZxid[Leader] = z - 1
        /\ CountedPeers(ack, z) = {q \in Peers : ack[q] >= z}
        /\ Counted(ack, z) = CountedPeers(ack, z) \cup {Leader}
    BY <1>7, CountFacts
  <2> HIDE DEF z, ack
  <2>2. \A q \in Peers : peerZxidCmt[q] = Least(ack[q], myZxid[Leader])
    BY <1>1, <1>2, <1>3, <2>1 DEF Least
  <2>3. PeerBookkeeping'
    BY <1>4, <2>2 DEF PeerBookkeeping, Least
  <2>4. Ahead' = CountedPeers(ack, z)
    BY <1>1, <1>2, <1>5, <2>1
  <2>5. c = 1 + Cardinality(Ahead')
    <3>1. Ahead' \in SUBSET Nodes /\ Leader \notin Ahead'
      BY <1>5, NodesAndPeers
    <3>2. IsFiniteSet(Ahead') /\ Cardinality(Ahead') \in Nat
      BY <3>1, FiniteNodes
    <3>3. Cardinality(Ahead' \cup {Leader}) = Cardinality(Ahead') + 1
      BY <3>1, <3>2, FS_AddElement
    <3>4. Counted(ack, z) = Ahead' \cup {Leader}
      BY <2>1, <2>4
    <3> QED
      BY <3>2, <3>3, <3>4
  <2>6. ~QuorumMet(1 + Cardinality(Ahead'))
    BY <1>7, <2>5
  <2> QED
    BY <2>3, <2>6 DEF NoOverlookedQuorum, QuorumMet
<1> QED
  BY <1>6, <1>7

\* A COMMIT goes to a peer that was slower than the quorum.
LEMMA LateAck ==
  ASSUME TypeOK, TypeOK', CommitInv, NEW p \in Peers, AckPropose(p),
         InOrderAck(p, Head(up[p])), peerZxidCmt[p] = peerZxidAck[p],
         peerZxidAck' = [peerZxidAck EXCEPT ![p] = Head(up[p])],
         LET z   == Head(up[p])
             ack == [peerZxidAck EXCEPT ![p] = z] IN
         /\ LateCommit(Cardinality(Counted(ack, z)), z)
         /\ SendCommits(CountedPeers(ack, z), z),
         UNCHANGED myZxid
  PROVE  PeerBookkeeping' /\ NoOverlookedQuorum'
<1> DEFINE z == Head(up[p])
           ack == [peerZxidAck EXCEPT ![p] = z]
<1>1. z \in Nat /\ peerZxidAck[p] = z - 1 /\ myZxid[Leader] \in Nat
  BY AckFacts
<1>2. /\ peerZxidAck \in [Peers -> Nat]
      /\ ack[p] = z /\ \A q \in Peers : q # p => ack[q] = peerZxidAck[q]
  BY SizeAssumption DEF TypeOK, Zxid
<1>3. \A q \in Peers : peerZxidCmt[q] = Least(peerZxidAck[q], myZxid[Leader])
  BY DEF CommitInv, PeerBookkeeping
<1>4. myZxid[Leader] >= z
  BY <1>1 DEF LateCommit
<1>5. CountedPeers(ack, z) = {p}
  <2>1. myZxid[Leader] # z - 1
    BY <1>1, <1>4
  <2> QED
    BY <2>1, CountFacts
<1>6. \A q \in Peers : peerZxidCmt'[q] = IF q = p THEN z ELSE peerZxidCmt[q]
  BY <1>5 DEF SendCommits
<1> HIDE DEF z
<1>7. PeerBookkeeping'
  BY <1>1, <1>2, <1>3, <1>4, <1>6 DEF PeerBookkeeping, Least, z
<1>8. Ahead' = Ahead
  BY <1>1, <1>2, <1>4 DEF Ahead, z
<1> QED
  BY <1>7, <1>8 DEF NoOverlookedQuorum, QuorumMet, CommitInv

\* The acknowledgement that completes a quorum commits the next write.
LEMMA QuorumAck ==
  ASSUME TypeOK, TypeOK', CommitInv, NEW p \in Peers, AckPropose(p),
         InOrderAck(p, Head(up[p])), peerZxidCmt[p] = peerZxidAck[p],
         peerZxidAck' = [peerZxidAck EXCEPT ![p] = Head(up[p])],
         LET z   == Head(up[p])
             ack == [peerZxidAck EXCEPT ![p] = z]
             c   == Cardinality(Counted(ack, z)) IN
         /\ QuorumMet(c) /\ ~LateCommit(c, z)
         /\ SendCommits(CountedPeers(ack, z), z)
         /\ FinishCommit(z),
         UNCHANGED accepted
  PROVE  /\ myZxid[Leader] = Head(up[p]) - 1 /\ myZxid'[Leader] = Head(up[p])
         /\ PeerBookkeeping' /\ NoOverlookedQuorum' /\ CommittedByQuorum'
<1> DEFINE z == Head(up[p])
           ack == [peerZxidAck EXCEPT ![p] = z]
           c == Cardinality(Counted(ack, z))
<1>1. /\ z \in Nat /\ peerZxidAck[p] = z - 1 /\ z <= proposedZxid
      /\ z \in accepted[p] /\ z \in accepted[Leader]
      /\ myZxid[Leader] \in Nat /\ proposedZxid \in Nat
  BY AckFacts
<1>2. /\ peerZxidAck \in [Peers -> Nat] /\ peerZxidAck' = ack
      /\ ack[p] = z /\ \A q \in Peers : q # p => ack[q] = peerZxidAck[q]
  BY SizeAssumption DEF TypeOK, Zxid
<1>3. \A q \in Peers : peerZxidCmt[q] = Least(peerZxidAck[q], myZxid[Leader])
  BY DEF CommitInv, PeerBookkeeping
<1>4. /\ myZxid[Leader] = z - 1
      /\ CountedPeers(ack, z) = {q \in Peers : ack[q] >= z}
      /\ Counted(ack, z) = CountedPeers(ack, z) \cup {Leader}
  BY CountFacts
<1>5. myZxid'[Leader] = z
  BY <1>1, <1>4, NodesAndPeers DEF FinishCommit, TypeOK
<1>6. \A q \in Peers : peerZxidCmt'[q] = IF ack[q] >= z THEN z ELSE peerZxidCmt[q]
  BY <1>4 DEF SendCommits
<1>7. QuorumMet(c)
  OBVIOUS
<1> HIDE DEF z, ack
<1>8. PeerBookkeeping'
  <2>1. \A q \in Peers : peerZxidCmt'[q] = Least(ack[q], z)
    <3> SUFFICES ASSUME NEW q \in Peers PROVE peerZxidCmt'[q] = Least(ack[q], z)
      OBVIOUS
    <3>1. ack[q] \in Nat /\ (ack[q] = peerZxidAck[q] \/ ack[q] = z)
      BY <1>1, <1>2
    <3>2. peerZxidCmt'[q] = IF ack[q] >= z THEN z ELSE peerZxidCmt[q]
      BY <1>6
    <3>3. peerZxidCmt[q] = Least(peerZxidAck[q], z - 1)
      BY <1>3, <1>4
    <3> QED
      BY <1>1, <3>1, <3>2, <3>3 DEF Least
  <2> QED
    BY <1>2, <1>5, <2>1 DEF PeerBookkeeping, Least
<1>9. NoOverlookedQuorum'
  <2>1. Ahead' \subseteq Ahead
    <3> SUFFICES ASSUME NEW q \in Peers, ack[q] > z PROVE peerZxidAck[q] > z - 1
      BY <1>2, <1>4, <1>5 DEF Ahead
    <3>1. ack[q] \in Nat /\ (ack[q] = peerZxidAck[q] \/ ack[q] = z)
      BY <1>1, <1>2
    <3> QED
      BY <1>1, <3>1
  <2>2. Ahead \in SUBSET Nodes /\ Ahead' \in SUBSET Nodes
    BY NodesAndPeers DEF Ahead
  <2>3. ASSUME Ahead' # {}, QuorumMet(1 + Cardinality(Ahead')) PROVE FALSE
    <3>1. /\ Cardinality(Ahead) \in Nat /\ Cardinality(Ahead') \in Nat
          /\ Cardinality(Ahead') <= Cardinality(Ahead)
      BY <2>1, <2>2, FiniteNodes
    <3>2. QuorumMet(1 + Cardinality(Ahead))
      BY <2>3, <3>1, QuorumMonotone
    <3> QED
      BY <2>1, <2>3, <3>2 DEF CommitInv, NoOverlookedQuorum
  <2> QED
    BY <2>3 DEF NoOverlookedQuorum, QuorumMet
<1>10. CommittedByQuorum'
  <2> SUFFICES ASSUME NEW y \in 1..z PROVE QuorumMet(Cardinality(Holders(y)))
    BY <1>5 DEF CommittedByQuorum, QuorumMet, Holders
  <2>1. CASE y \in 1..myZxid[Leader]
    BY <2>1 DEF CommitInv, CommittedByQuorum
  <2>2. CASE y = z
    <3>1. \A q \in Peers : ack[q] >= z => z \in accepted[q]
      BY <1>1, <1>2, <2>2 DEF CommitInv, AcknowledgedIsAccepted
    <3>2. Counted(ack, z) \subseteq Holders(z) /\ Holders(z) \in SUBSET Nodes
      BY <1>1, <1>4, <3>1, NodesAndPeers DEF Holders
    <3>3. /\ c \in Nat /\ Cardinality(Holders(z)) \in Nat
          /\ c <= Cardinality(Holders(z))
      BY <3>2, FiniteNodes
    <3> QED
      BY <2>2, <3>3, <1>7, QuorumMonotone
  <2> QED
    BY <1>1, <1>4, <2>1, <2>2
<1> QED
  BY <1>4, <1>5, <1>8, <1>9, <1>10 DEF z

\* Handling an acknowledgement keeps the invariant.
LEMMA AckProposeCommitInv ==
  ASSUME TypeOK, TypeOK', CommitInv, NEW p \in Peers, AckPropose(p)
  PROVE  CommitInv'
<1> DEFINE z == Head(up[p])
           ack == [peerZxidAck EXCEPT ![p] = z]
           c == Cardinality(Counted(ack, z))
<1>1. /\ up[p] # <<>> /\ z \in 1..MaxZxid
      /\ up' = [up EXCEPT ![p] = Tail(@)]
      /\ UNCHANGED <<proposedZxid, accepted>>
  BY AckProposeCases
<1>2. UpAccepted'
  <2>1. up[p] \in Seq(1..MaxZxid)
    BY DEF TypeOK
  <2>2. \A i \in 1..Len(Tail(up[p])) : i + 1 \in 1..Len(up[p]) /\ Tail(up[p])[i] = up[p][i + 1]
    BY <1>1, <2>1
  <2>3. \A q \in Peers : up'[q] = IF q = p THEN Tail(up[p]) ELSE up[q]
    BY <1>1 DEF TypeOK
  <2> QED
    BY <1>1, <2>2, <2>3 DEF CommitInv, UpAccepted
<1>3. CASE ~InOrderAck(p, z) /\ NoCommit /\ UNCHANGED peerZxidAck
  <2>1. /\ AcknowledgedIsAccepted' /\ PeerBookkeeping'
        /\ CommittedByQuorum' /\ NoOverlookedQuorum'
    BY <1>1, <1>3, StandStill DEF NoCommit, CommitInv
  <2>2. LeaderOrder' /\ CommitsAreForAccepted'
    BY <1>1, <1>3 DEF NoCommit, CommitInv, LeaderOrder, CommitsAreForAccepted
  <2> QED
    BY <1>2, <2>1, <2>2 DEF CommitInv
<1>4. CASE InOrderAck(p, z) /\ peerZxidAck' = ack
  <2>1. /\ z \in Nat /\ peerZxidAck[p] = z - 1 /\ z <= proposedZxid
        /\ z \in accepted[p] /\ z \in accepted[Leader]
        /\ myZxid[Leader] \in Nat /\ proposedZxid \in Nat
    BY <1>4, AckFacts
  <2>2. \A q \in Peers : 1..ack[q] \subseteq accepted[q]
    <3>1. /\ ack[p] = z
          /\ \A q \in Peers \ {p} : ack[q] = peerZxidAck[q]
      BY DEF TypeOK
    <3>2. \A q \in Peers : 1..peerZxidAck[q] \subseteq accepted[q]
      BY DEF CommitInv, AcknowledgedIsAccepted
    <3>3. 1..z \subseteq accepted[p]
      <4>1. 1..z = 1..(z - 1) \cup {z}
        BY <1>1, <2>1
      <4> QED
        BY <4>1, <3>2, <2>1
    <3> QED
      BY <3>1, <3>2, <3>3
  <2>3. CASE NoCommit /\ (peerZxidCmt[p] # peerZxidAck[p] \/ (~QuorumMet(c) /\ ~LateCommit(c, z)))
    <3>1. PeerBookkeeping' /\ NoOverlookedQuorum'
      BY <1>4, <2>3, RecordedAck
    <3>2. LeaderOrder' /\ CommitsAreForAccepted' /\ CommittedByQuorum'
      BY <1>1, <2>3 DEF NoCommit, CommitInv, LeaderOrder, CommitsAreForAccepted,
         CommittedByQuorum, QuorumMet, Holders
    <3>3. AcknowledgedIsAccepted'
      BY <1>1, <1>4, <2>2, <2>3 DEF NoCommit, CommitInv, AcknowledgedIsAccepted
    <3> QED
      BY <1>2, <3>1, <3>2, <3>3 DEF CommitInv
  <2>4. ASSUME SendCommits(CountedPeers(ack, z), z)
        PROVE  CommitsAreForAccepted'
    <3> SUFFICES ASSUME NEW q \in Peers, NEW i \in 1..Len(down'[q]),
                        down'[q][i].type = "COMMIT"
                 PROVE  down'[q][i].zxid \in accepted[q]
      BY <1>1 DEF CommitsAreForAccepted
    <3>1. down[q] \in Seq(Messages)
      BY DEF TypeOK
    <3>2. CASE q \notin CountedPeers(ack, z)
      BY <2>4, <3>2 DEF SendCommits, CommitInv, CommitsAreForAccepted
    <3>3. CASE q \in CountedPeers(ack, z)
      <4>1. down'[q] = Append(down[q], CommitMsg(z))
        BY <2>4, <3>3 DEF SendCommits
      <4>2. z \in accepted[q]
        <5>1. ack[q] \in Nat /\ ack[q] > z - 1
          BY <3>3, <1>1, SizeAssumption, SMTT(60) DEF CountedPeers, TypeOK, Zxid
        <5> QED
          BY <5>1, <1>1, <2>1, <2>2
      <4>3. CASE i \in 1..Len(down[q])
        BY <3>1, <4>1, <4>3 DEF CommitInv, CommitsAreForAccepted
      <4>4. CASE i = Len(down[q]) + 1
        BY <3>1, <4>1, <4>2, <4>4 DEF CommitMsg
      <4> QED
        BY <3>1, <4>1, <4>3, <4>4
    <3> QED
      BY <3>2, <3>3
  <2>5. CASE /\ peerZxidCmt[p] = peerZxidAck[p] /\ LateCommit(c, z)
             /\ SendCommits(CountedPeers(ack, z), z)
             /\ UNCHANGED <<myZxid, store, flips, replies>>
    <3>1. PeerBookkeeping' /\ NoOverlookedQuorum'
      BY <1>4, <2>5, LateAck
    <3>2. LeaderOrder' /\ CommittedByQuorum'
      BY <1>1, <2>5 DEF CommitInv, LeaderOrder, CommittedByQuorum, QuorumMet, Holders
    <3>3. AcknowledgedIsAccepted'
      BY <1>1, <1>4, <2>2, <2>5 DEF CommitInv, AcknowledgedIsAccepted
    <3> QED
      BY <1>2, <2>4, <2>5, <3>1, <3>2, <3>3 DEF CommitInv
  <2>6. CASE /\ peerZxidCmt[p] = peerZxidAck[p]
             /\ QuorumMet(c) /\ ~LateCommit(c, z)
             /\ SendCommits(CountedPeers(ack, z), z)
             /\ FinishCommit(z)
    <3>1. /\ myZxid[Leader] = z - 1 /\ myZxid'[Leader] = z
          /\ PeerBookkeeping' /\ NoOverlookedQuorum' /\ CommittedByQuorum'
      BY <1>1, <1>4, <2>6, QuorumAck
    <3>2. LeaderOrder'
      BY <1>1, <2>1, <3>1 DEF CommitInv, LeaderOrder
    <3>3. AcknowledgedIsAccepted'
      BY <1>1, <1>4, <2>1, <2>2, <3>1, <3>2 DEF CommitInv, AcknowledgedIsAccepted, LeaderOrder
    <3> QED
      BY <1>2, <2>4, <2>6, <3>1, <3>2, <3>3 DEF CommitInv
  <2> QED
    BY <1>4, <2>3, <2>5, <2>6, AckProposeCases
<1> QED
  BY <1>3, <1>4, AckProposeCases

\* A follower's steps leave the leader's positions alone.
LEMMA ProposalCommitInv ==
  ASSUME TypeOK, TypeOK', CommitInv, NEW p \in Peers, Proposal(p)
  PROVE  CommitInv'
<1> DEFINE m == Head(down[p])
<1>1. /\ down[p] # <<>> /\ down[p] \in Seq(Messages)
      /\ down' = [down EXCEPT ![p] = Tail(@)]
      /\ up' = [up EXCEPT ![p] = Append(@, m.zxid)]
      /\ myZxid' = [myZxid EXCEPT ![p] = m.zxid]
      /\ accepted' = [accepted EXCEPT ![p] = @ \cup {m.zxid}]
      /\ UNCHANGED <<proposedZxid, peerZxidAck, peerZxidCmt>>
  BY DEF Proposal, TypeOK, leaderVars
<1>2. /\ p \in Nodes /\ myZxid'[Leader] = myZxid[Leader]
      /\ \A n \in Nodes : accepted[n] \subseteq accepted'[n]
      /\ m.zxid \in accepted'[p]
  BY <1>1, NodesAndPeers DEF TypeOK
<1>3. UpAccepted'
  <2> SUFFICES ASSUME NEW q \in Peers, NEW i \in 1..Len(up'[q])
               PROVE  up'[q][i] \in accepted'[q]
    BY DEF UpAccepted
  <2>1. CASE q # p
    BY <1>1, <1>2, <2>1, NodesAndPeers DEF CommitInv, UpAccepted, TypeOK
  <2>2. CASE q = p
    <3>1. up[p] \in Seq(1..MaxZxid) /\ up'[p] = Append(up[p], m.zxid)
      BY <1>1 DEF TypeOK
    <3>2. CASE i \in 1..Len(up[p])
      BY <1>2, <2>2, <3>1, <3>2 DEF CommitInv, UpAccepted
    <3>3. CASE i = Len(up[p]) + 1
      BY <1>2, <2>2, <3>1, <3>3
    <3> QED
      BY <2>2, <3>1, <3>2, <3>3
  <2> QED
    BY <2>1, <2>2
<1>4. LeaderOrder'
  BY <1>1, <1>2, NodesAndPeers DEF CommitInv, LeaderOrder
<1>5. CommitsAreForAccepted'
  <2>1. \A i \in 1..Len(Tail(down[p])) :
          i + 1 \in 1..Len(down[p]) /\ Tail(down[p])[i] = down[p][i + 1]
    BY <1>1
  <2>2. \A q \in Peers : down'[q] = IF q = p THEN Tail(down[p]) ELSE down[q]
    BY <1>1 DEF TypeOK
  <2> QED
    <3> SUFFICES ASSUME NEW q \in Peers, NEW i \in 1..Len(down'[q]),
                        down'[q][i].type = "COMMIT"
                 PROVE  down'[q][i].zxid \in accepted'[q]
      BY DEF CommitsAreForAccepted
    <3>1. accepted[q] \subseteq accepted'[q]
      BY <1>2, NodesAndPeers
    <3>2. CASE q = p
      <4>1. down'[q] = Tail(down[p]) /\ i \in 1..Len(Tail(down[p]))
        BY <2>2, <3>2
      <4>2. i + 1 \in 1..Len(down[p]) /\ down'[q][i] = down[p][i + 1]
        BY <2>1, <4>1
      <4>3. down[p][i + 1].zxid \in accepted[p]
        BY <4>2 DEF CommitInv, CommitsAreForAccepted
      <4> QED
        BY <3>1, <3>2, <4>2, <4>3
    <3>3. CASE q # p
      BY <2>2, <3>1, <3>3 DEF CommitInv, CommitsAreForAccepted
    <3> QED
      BY <3>2, <3>3
<1> QED
  BY <1>1, <1>2, <1>3, <1>4, <1>5, StandStill DEF CommitInv

\* Taking a request off a connection without acting on it: a COMMIT handled at a
\* follower, or a request thrown away.
LEMMA ConsumedCommitInv ==
  ASSUME TypeOK, TypeOK', CommitInv, NEW p \in Peers, Commit(p) \/ DropAtFollower(p) \/ DropAtLeader(p)
  PROVE  CommitInv'
<1>1. /\ UNCHANGED <<myZxid, proposedZxid, peerZxidAck, peerZxidCmt, accepted>>
      /\ \/ down[p] # <<>> /\ down' = [down EXCEPT ![p] = Tail(@)] /\ up' = up
         \/ up[p] # <<>> /\ up' = [up EXCEPT ![p] = Tail(@)] /\ down' = down
  BY DEF Commit, DropAtFollower, DropAtLeader, leaderVars, history
<1>2. UpAccepted'
  <2>1. CASE up' = up
    BY <1>1, <2>1 DEF CommitInv, UpAccepted
  <2>2. CASE up[p] # <<>> /\ up' = [up EXCEPT ![p] = Tail(@)]
    <3>1. up[p] \in Seq(1..MaxZxid)
      BY DEF TypeOK
    <3>2. \A i \in 1..Len(Tail(up[p])) : i + 1 \in 1..Len(up[p]) /\ Tail(up[p])[i] = up[p][i + 1]
      BY <2>2, <3>1
    <3>3. \A q \in Peers : up'[q] = IF q = p THEN Tail(up[p]) ELSE up[q]
      BY <2>2 DEF TypeOK
    <3> QED
      <4> SUFFICES ASSUME NEW q \in Peers, NEW i \in 1..Len(up'[q])
                   PROVE  up'[q][i] \in accepted[q]
        BY <1>1 DEF UpAccepted
      <4>1. CASE q = p
        BY <3>2, <3>3, <4>1 DEF CommitInv, UpAccepted
      <4>2. CASE q # p
        BY <3>3, <4>2 DEF CommitInv, UpAccepted
      <4> QED
        BY <4>1, <4>2
  <2> QED
    BY <1>1, <2>1, <2>2
<1>3. CommitsAreForAccepted'
  <2>1. CASE down' = down
    BY <1>1, <2>1 DEF CommitInv, CommitsAreForAccepted
  <2>2. CASE down[p] # <<>> /\ down' = [down EXCEPT ![p] = Tail(@)]
    <3>1. down[p] \in Seq(Messages)
      BY DEF TypeOK
    <3>2. \A i \in 1..Len(Tail(down[p])) :
            i + 1 \in 1..Len(down[p]) /\ Tail(down[p])[i] = down[p][i + 1]
      BY <2>2, <3>1
    <3>3. \A q \in Peers : down'[q] = IF q = p THEN Tail(down[p]) ELSE down[q]
      BY <2>2 DEF TypeOK
    <3> QED
      <4> SUFFICES ASSUME NEW q \in Peers, NEW i \in 1..Len(down'[q]),
                          down'[q][i].type = "COMMIT"
                   PROVE  down'[q][i].zxid \in accepted[q]
        BY <1>1 DEF CommitsAreForAccepted
      <4>1. CASE q = p
        <5>1. down'[q] = Tail(down[p]) /\ i \in 1..Len(Tail(down[p]))
          BY <3>3, <4>1
        <5>2. i + 1 \in 1..Len(down[p]) /\ down'[q][i] = down[p][i + 1]
          BY <3>2, <5>1
        <5>3. down[p][i + 1].zxid \in accepted[p]
          BY <5>2 DEF CommitInv, CommitsAreForAccepted
        <5> QED
          BY <4>1, <5>2, <5>3
      <4>2. CASE q # p
        BY <3>3, <4>2 DEF CommitInv, CommitsAreForAccepted
      <4> QED
        BY <4>1, <4>2
  <2> QED
    BY <1>1, <2>1, <2>2
<1>4. LeaderOrder'
  BY <1>1 DEF CommitInv, LeaderOrder
<1> QED
  BY <1>1, <1>2, <1>3, <1>4, StandStill DEF CommitInv

\* The invariant holds throughout.
THEOREM CommitInvariant == Spec => []CommitInv
<1>1. TypeOK /\ TypeOK' /\ CommitInv /\ [Next]_vars => CommitInv'
  <2> SUFFICES ASSUME TypeOK, TypeOK', CommitInv, [Next]_vars PROVE CommitInv'
    OBVIOUS
  <2>1. CASE Next
    BY <2>1, WriteReqCommitInv, AckProposeCommitInv, ProposalCommitInv,
       ConsumedCommitInv DEF Next
  <2>2. CASE UNCHANGED vars
    BY <2>2 DEF vars, leaderVars, history, CommitInv, UpAccepted, LeaderOrder,
       AcknowledgedIsAccepted, PeerBookkeeping, Least, CommittedByQuorum, Holders,
       NoOverlookedQuorum, Ahead, QuorumMet, CommitsAreForAccepted
  <2> QED
    BY <2>1, <2>2
<1> QED
  BY InitCommitInv, TypeCorrect, <1>1, PTL DEF Spec

\* The leader's record of what it sent each peer is exact.
THEOREM BookkeepingExact == Spec => []PeerBookkeeping
BY CommitInvariant, PTL DEF CommitInv

\* What counts as acknowledged or committed was accepted where it counts.
THEOREM AcknowledgedAccepted == Spec => []AcknowledgedIsAccepted
BY CommitInvariant, PTL DEF CommitInv

\* Every committed write passed the quorum test with nodes that really hold it.
THEOREM QuorumCommits == Spec => []CommittedByQuorum
BY CommitInvariant, PTL DEF CommitInv

\* The leader never leaves a completed quorum uncommitted.
THEOREM NothingOverlooked == Spec => []NoOverlookedQuorum
BY CommitInvariant, PTL DEF CommitInv

\* No COMMIT reaches a follower that lacks the write.
THEOREM CommitsFollowAcceptance == Spec => []CommitsAreForAccepted
BY CommitInvariant, PTL DEF CommitInv

\* In a cluster of an odd number of nodes, with peerCountForCommit as ADDPEER
\* leaves it or larger, every committed write is held by a majority.
THEOREM MajorityCommits ==
  ASSUME NEW h \in Nat, N = 2 * h + 1, CommitCount >= N
  PROVE  Spec => []CommittedByMajority
<1>1. ASSUME NEW c \in Nat, QuorumMet(c) PROVE 2 * c > N
  BY <1>1, ClusterAssumption DEF QuorumMet, PeerCount
<1>2. TypeOK /\ CommittedByQuorum => CommittedByMajority
  <2> SUFFICES ASSUME TypeOK, CommittedByQuorum, NEW z \in 1..myZxid[Leader]
               PROVE  2 * Cardinality(Holders(z)) > N
    BY DEF CommittedByMajority
  <2>1. Cardinality(Holders(z)) \in Nat
    BY FiniteNodes DEF Holders
  <2> QED
    BY <1>1, <2>1 DEF CommittedByQuorum
<1> QED
  BY <1>2, TypeCorrect, QuorumCommits, PTL

-----------------------------------------------------------------------------
(* The inductive invariants. *)

\* The messages of one type on their way lie above lo and up to hi and are
\* ordered by zxid.
Rising(s, type, lo, hi) ==
  /\ \A i \in 1..Len(s) : s[i].type = type => lo < s[i].zxid /\ s[i].zxid <= hi
  /\ \A i, j \in 1..Len(s) :
       i < j /\ s[i].type = type /\ s[j].type = type => s[i].zxid < s[j].zxid

\* The zxid a follower flipped last.
LastFlip(n) == IF flips[n] = <<>> THEN 0 ELSE flips[n][Len(flips[n])].zxid

\* The leader numbers the writes one by one, within the clients' window.
Numbering ==
  /\ Len(written) = proposedZxid
  /\ proposedZxid - myZxid[Leader] <= Window
  /\ \A n \in Nodes : accepted[n] \subseteq 1..LastLogged(n)

\* Proposals reach a follower in rising order and carry the key of their write.
ProposalOrder ==
  \A p \in Peers :
    /\ myZxid[p] <= proposedZxid
    /\ Rising(down[p], "PROPOSAL", myZxid[p], proposedZxid)
    /\ \A i \in 1..Len(down[p]) :
         down[p][i].type = "PROPOSAL" => down[p][i].key = written[down[p][i].zxid].key

\* COMMITs reach a follower in rising order, above what it flipped already.
CommitOrder ==
  \A p \in Peers :
    /\ LastFlip(p) <= peerZxidCmt[p]
    /\ Rising(down[p], "COMMIT", LastFlip(p), peerZxidCmt[p])

OrderInv == Numbering /\ ProposalOrder /\ CommitOrder

\* A write keeps its slot of the log until LogSlots later writes are logged.
LogHolds ==
  \A n \in Nodes : \A z \in accepted[n] :
    z > LastLogged(n) - LogSlots => LogFind(n, z) = written[z].key

\* The session memory knows every write that is not committed yet.
SessionsHeld ==
  \A z \in (myZxid[Leader] + 1)..proposedZxid :
    sessMem[SessSlot(z)] = [zxid |-> z, sess |-> written[z].sess]

-----------------------------------------------------------------------------
(* Messages on their way. *)

\* Where the elements of a tail and of an extended sequence come from.
LEMMA TailElements ==
  ASSUME NEW S, NEW s \in Seq(S), s # <<>>
  PROVE  /\ Tail(s) \in Seq(S) /\ Len(s) \in Nat /\ Len(s) >= 1
         /\ Len(Tail(s)) = Len(s) - 1 /\ Head(s) = s[1] /\ Head(s) \in S
         /\ \A i \in 1..Len(Tail(s)) : Tail(s)[i] = s[i + 1] /\ i + 1 \in 1..Len(s)
OBVIOUS

\* An element put behind a sequence leaves the others where they are.
LEMMA AppendElements ==
  ASSUME NEW S, NEW s \in Seq(S), NEW e
  PROVE  /\ Len(s) \in Nat /\ Len(Append(s, e)) = Len(s) + 1
         /\ \A i \in 1..Len(s) : Append(s, e)[i] = s[i]
         /\ Append(s, e)[Len(s) + 1] = e
OBVIOUS

\* The zxids of messages are numbers.
LEMMA MessageZxid ==
  ASSUME NEW s \in Seq(Messages), NEW i \in 1..Len(s)
  PROVE  s[i].zxid \in 1..MaxZxid /\ s[i].zxid \in Nat
<1>1. s[i] \in Messages
  OBVIOUS
<1> QED
  BY <1>1, SizeAssumption DEF Messages

\* Taking a message off keeps the rest in order; one of the type in question
\* lies below the rest.
LEMMA RisingTail ==
  ASSUME NEW s \in Seq(Messages), s # <<>>, NEW type, NEW lo \in Nat, NEW hi \in Nat,
         Rising(s, type, lo, hi)
  PROVE  /\ Rising(Tail(s), type, lo, hi)
         /\ Head(s).type = type =>
              /\ lo < Head(s).zxid /\ Head(s).zxid <= hi
              /\ Rising(Tail(s), type, Head(s).zxid, hi)
<1>1. /\ Len(s) \in Nat /\ Len(s) >= 1 /\ Len(Tail(s)) = Len(s) - 1 /\ Head(s) = s[1]
      /\ \A i \in 1..Len(Tail(s)) : Tail(s)[i] = s[i + 1] /\ i + 1 \in 1..Len(s)
  BY TailElements
<1>2. Rising(Tail(s), type, lo, hi)
  BY <1>1 DEF Rising
<1>3. ASSUME Head(s).type = type
      PROVE  /\ lo < Head(s).zxid /\ Head(s).zxid <= hi
             /\ Rising(Tail(s), type, Head(s).zxid, hi)
  <2>1. lo < s[1].zxid /\ s[1].zxid <= hi
    BY <1>1, <1>3 DEF Rising
  <2>2. \A i \in 1..Len(Tail(s)) : Tail(s)[i].type = type =>
          s[1].zxid < Tail(s)[i].zxid /\ Tail(s)[i].zxid <= hi
    BY <1>1, <1>3 DEF Rising
  <2> QED
    BY <1>1, <1>2, <2>1, <2>2 DEF Rising
<1> QED
  BY <1>2, <1>3

\* Adding a message of another type, or one above the rest.
LEMMA RisingAppend ==
  ASSUME NEW s \in Seq(Messages), NEW m \in Messages, NEW type,
         NEW lo \in Nat, NEW hi \in Nat, NEW top \in Nat, lo <= hi, hi <= top,
         Rising(s, type, lo, hi),
         m.type = type => hi < m.zxid /\ m.zxid <= top
  PROVE  Rising(Append(s, m), type, lo, top)
<1> DEFINE t == Append(s, m)
<1>1. /\ Len(s) \in Nat /\ Len(t) = Len(s) + 1 /\ t[Len(s) + 1] = m
      /\ \A i \in 1..Len(s) : t[i] = s[i]
  BY AppendElements
<1>2. \A i \in 1..Len(s) : s[i].zxid \in Nat
  BY MessageZxid
<1>3. m.zxid \in Nat
  BY SizeAssumption DEF Messages
<1> HIDE DEF t
<1>4. ASSUME NEW i \in 1..Len(t), t[i].type = type
      PROVE  lo < t[i].zxid /\ t[i].zxid <= top
  <2>1. CASE i \in 1..Len(s)
    BY <1>1, <1>2, <1>4, <2>1 DEF Rising
  <2>2. CASE i = Len(s) + 1
    BY <1>1, <1>3, <1>4, <2>2
  <2> QED
    BY <1>1, <2>1, <2>2
<1>5. ASSUME NEW i \in 1..Len(t), NEW j \in 1..Len(t), i < j, t[i].type = type, t[j].type = type
      PROVE  t[i].zxid < t[j].zxid
  <2>1. i \in 1..Len(s)
    BY <1>1, <1>5
  <2>2. CASE j \in 1..Len(s)
    BY <1>1, <1>5, <2>1, <2>2 DEF Rising
  <2>3. CASE j = Len(s) + 1
    <3>1. s[i].zxid <= hi
      BY <1>1, <1>5, <2>1 DEF Rising
    <3> QED
      BY <1>1, <1>2, <1>3, <1>5, <2>1, <2>3, <3>1
  <2> QED
    BY <1>1, <2>2, <2>3
<1> QED
  BY <1>4, <1>5 DEF Rising, t

-----------------------------------------------------------------------------
(* What the steps do. *)

\* The positions are numbers, the connections sequences of messages.
LEMMA Numbers ==
  ASSUME TypeOK
  PROVE  /\ proposedZxid \in Nat /\ drops \in Nat
         /\ \A n \in Nodes : myZxid[n] \in Nat /\ LastLogged(n) \in Nat /\ LastFlip(n) \in Nat
         /\ \A p \in Peers : /\ peerZxidAck[p] \in Nat /\ peerZxidCmt[p] \in Nat
                             /\ down[p] \in Seq(Messages) /\ up[p] \in Seq(1..MaxZxid)
<1>1. /\ proposedZxid \in Nat /\ drops \in Nat
      /\ \A n \in Nodes : myZxid[n] \in Nat
      /\ \A p \in Peers : /\ peerZxidAck[p] \in Nat /\ peerZxidCmt[p] \in Nat
                          /\ down[p] \in Seq(Messages) /\ up[p] \in Seq(1..MaxZxid)
  BY SizeAssumption DEF TypeOK, Zxid
<1>2. ASSUME NEW n \in Nodes PROVE LastFlip(n) \in Nat
  <2>1. flips[n] \in Seq(FlipRecords)
    BY DEF TypeOK
  <2>2. CASE flips[n] = <<>>
    BY <2>2 DEF LastFlip
  <2>3. CASE flips[n] # <<>>
    <3>1. flips[n][Len(flips[n])] \in FlipRecords
      BY <2>1, <2>3
    <3>2. flips[n][Len(flips[n])].zxid \in Nat
      BY <3>1, SizeAssumption DEF FlipRecords
    <3> QED
      BY <2>3, <3>2 DEF LastFlip
  <2> QED
    BY <2>2, <2>3
<1> QED
  BY <1>1, <1>2 DEF LastLogged

\* A flip is the last one of its node and leaves the other nodes alone.
LEMMA FlipEffect ==
  ASSUME TypeOK, NEW n \in Nodes, NEW z \in 1..MaxZxid, Flip(n, z)
  PROVE  /\ flips'[n] = Append(flips[n], [zxid |-> z, key |-> LogFind(n, z)])
         /\ Len(flips'[n]) = Len(flips[n]) + 1
         /\ flips'[n][Len(flips'[n])] = [zxid |-> z, key |-> LogFind(n, z)]
         /\ \A i \in 1..Len(flips[n]) : flips'[n][i] = flips[n][i]
         /\ LastFlip(n)' = z
         /\ \A q \in Nodes : q # n => flips'[q] = flips[q]
<1> DEFINE rec == [zxid |-> z, key |-> LogFind(n, z)]
<1>1. /\ flips'[n] = Append(flips[n], rec)
      /\ \A q \in Nodes : q # n => flips'[q] = flips[q]
  BY DEF TypeOK, Flip
<1>2. flips[n] \in Seq(FlipRecords)
  BY DEF TypeOK
<1> HIDE DEF rec
<1>3. /\ Len(flips[n]) \in Nat /\ Len(flips'[n]) = Len(flips[n]) + 1
      /\ flips'[n][Len(flips[n]) + 1] = rec
      /\ \A i \in 1..Len(flips[n]) : flips'[n][i] = flips[n][i]
  BY <1>1, <1>2, AppendElements
<1>4. flips'[n] # <<>>
  BY <1>3
<1>5. rec.zxid = z
  BY DEF rec
<1> QED
  BY <1>1, <1>3, <1>4, <1>5 DEF LastFlip, rec

\* Taking an acknowledgement: nothing is committed, or the COMMIT of the next
\* zxid goes to some peers, either of a write committed before or of the
\* leader's next one.
LEMMA AckEffect ==
  ASSUME TypeOK, CommitInv, NEW p \in Peers, AckPropose(p)
  PROVE  LET z == Head(up[p]) IN
         /\ up[p] # <<>> /\ z \in 1..MaxZxid
         /\ up' = [up EXCEPT ![p] = Tail(@)]
         /\ UNCHANGED <<proposedZxid, sessMem, log, drops, written, accepted>>
         /\ IF InOrderAck(p, z) THEN peerZxidAck' = [peerZxidAck EXCEPT ![p] = z]
                                ELSE UNCHANGED peerZxidAck
         /\ \/ NoCommit
            \/ \E to \in SUBSET Peers :
                 /\ SendCommits(to, z)
                 /\ \A q \in to : peerZxidCmt[q] = z - 1
                 /\ \/ z <= myZxid[Leader] /\ UNCHANGED <<myZxid, store, flips, replies>>
                    \/ myZxid[Leader] = z - 1 /\ z <= proposedZxid /\ FinishCommit(z)
<1> DEFINE z == Head(up[p])
           ack == [peerZxidAck EXCEPT ![p] = z]
           c == Cardinality(Counted(ack, z))
           to == CountedPeers(ack, z)
<1>1. /\ up[p] # <<>> /\ z \in 1..MaxZxid
      /\ up' = [up EXCEPT ![p] = Tail(@)]
      /\ UNCHANGED <<proposedZxid, sessMem, log, drops, written, accepted>>
      /\ IF InOrderAck(p, z) THEN peerZxidAck' = ack ELSE UNCHANGED peerZxidAck
  BY AckProposeCases
<1>2. to \in SUBSET Peers /\ \A q \in to : peerZxidCmt[q] = z - 1
  BY DEF CountedPeers
<1>3. myZxid[Leader] \in Nat
  BY Numbers, NodesAndPeers
<1>4. ASSUME InOrderAck(p, z), peerZxidCmt[p] = peerZxidAck[p], LateCommit(c, z),
             SendCommits(to, z), UNCHANGED <<myZxid, store, flips, replies>>
      PROVE  z <= myZxid[Leader]
  BY <1>1, <1>3, <1>4 DEF LateCommit
<1>5. ASSUME InOrderAck(p, z), peerZxidCmt[p] = peerZxidAck[p], ~LateCommit(c, z)
      PROVE  myZxid[Leader] = z - 1 /\ z <= proposedZxid
  <2>1. myZxid[Leader] = z - 1
    BY <1>5, CountFacts
  <2>2. z <= proposedZxid
    BY <1>5, AckFacts
  <2> QED
    BY <2>1, <2>2
<1>6. \/ NoCommit
      \/ /\ InOrderAck(p, z) /\ peerZxidCmt[p] = peerZxidAck[p] /\ LateCommit(c, z)
         /\ SendCommits(to, z) /\ UNCHANGED <<myZxid, store, flips, replies>>
      \/ /\ InOrderAck(p, z) /\ peerZxidCmt[p] = peerZxidAck[p] /\ ~LateCommit(c, z)
         /\ SendCommits(to, z) /\ FinishCommit(z)
  BY AckProposeCases
<1>7. \/ NoCommit
      \/ /\ SendCommits(to, z)
         /\ \/ z <= myZxid[Leader] /\ UNCHANGED <<myZxid, store, flips, replies>>
            \/ myZxid[Leader] = z - 1 /\ z <= proposedZxid /\ FinishCommit(z)
  <2> HIDE DEF z, c, to
  <2> QED
    BY <1>4, <1>5, <1>6
<1> QED
  BY <1>1, <1>2, <1>7

-----------------------------------------------------------------------------
(* Numbering and the order of messages. *)

\* Initially nothing is written and nothing is on its way.
LEMMA InitOrderInv == Init => OrderInv
<1> SUFFICES ASSUME Init PROVE OrderInv
  OBVIOUS
<1>1. Numbering
  BY NodesAndPeers, SizeAssumption DEF Init, Numbering, LastLogged
<1>2. ProposalOrder /\ CommitOrder
  BY NodesAndPeers DEF Init, ProposalOrder, CommitOrder, Rising, LastFlip
<1> QED
  BY <1>1, <1>2 DEF OrderInv

\* A write request takes the next number and sends it behind all others.
LEMMA WriteReqOrderInv ==
  ASSUME TypeOK, OrderInv, NEW k \in Keys, NEW s \in Sessions, WriteReq(k, s)
  PROVE  OrderInv'
<1> DEFINE z == proposedZxid + 1
           m == ProposalMsg(z, k)
<1>1. /\ proposedZxid' = z /\ accepted' = [accepted EXCEPT ![Leader] = @ \cup {z}]
      /\ written' = Append(written, [key |-> k, sess |-> s])
      /\ UNCHANGED <<myZxid, peerZxidCmt, flips>>
      /\ \A p \in Peers : down'[p] = Append(down[p], m)
      /\ proposedZxid - myZxid[Leader] < Window /\ z <= MaxZxid
  BY SizeAssumption DEF WriteReq, ClientMaySend, TypeOK, Zxid
<1>2. /\ proposedZxid \in Nat /\ myZxid[Leader] \in Nat /\ Leader \in Nodes
      /\ written \in Seq(Writes)
  BY Numbers, NodesAndPeers DEF TypeOK
<1>3. /\ Len(written') = z /\ written'[z] = [key |-> k, sess |-> s]
      /\ \A i \in 1..proposedZxid : written'[i] = written[i]
  BY <1>1, <1>2, AppendElements DEF OrderInv, Numbering
<1>4. m \in Messages /\ m.type = "PROPOSAL" /\ m.zxid = z /\ m.key = k
  BY <1>1, <1>2 DEF ProposalMsg, Messages
<1> HIDE DEF m
<1>5. Numbering'
  <2>1. ASSUME NEW n \in Nodes PROVE accepted'[n] \subseteq 1..LastLogged(n)'
    <3>1. CASE n = Leader
      <4>1. accepted'[n] = accepted[n] \cup {z} /\ LastLogged(n)' = z
        BY <1>1, <3>1 DEF TypeOK, LastLogged
      <4>2. accepted[n] \subseteq 1..proposedZxid
        BY <3>1 DEF OrderInv, Numbering, LastLogged
      <4> QED
        BY <1>2, <4>1, <4>2
    <3>2. CASE n # Leader
      BY <1>1, <3>2 DEF TypeOK, OrderInv, Numbering, LastLogged
    <3> QED
      BY <3>1, <3>2
  <2>2. proposedZxid' - myZxid'[Leader] <= Window
    BY <1>1, <1>2, SizeAssumption
  <2> QED
    BY <1>1, <1>3, <2>1, <2>2 DEF Numbering
<1>6. ProposalOrder'
  <2> SUFFICES ASSUME NEW p \in Peers
               PROVE  /\ myZxid[p] <= z
                      /\ Rising(down'[p], "PROPOSAL", myZxid[p], z)
                      /\ \A i \in 1..Len(down'[p]) : down'[p][i].type = "PROPOSAL" =>
                           down'[p][i].key = written'[down'[p][i].zxid].key
    BY <1>1 DEF ProposalOrder
  <2>1. /\ myZxid[p] \in Nat /\ down[p] \in Seq(Messages) /\ myZxid[p] <= proposedZxid
        /\ Rising(down[p], "PROPOSAL", myZxid[p], proposedZxid)
    BY Numbers, NodesAndPeers DEF OrderInv, ProposalOrder
  <2>2. Rising(down'[p], "PROPOSAL", myZxid[p], z)
    <3>1. z \in Nat /\ proposedZxid <= z /\ proposedZxid < z
      BY <1>2
    <3>2. Rising(Append(down[p], m), "PROPOSAL", myZxid[p], z)
      <4> HIDE DEF z
      <4> QED
        BY <1>2, <1>4, <2>1, <3>1, RisingAppend
    <3> QED
      BY <1>1, <3>2
  <2>3. /\ Len(down[p]) \in Nat /\ Len(down'[p]) = Len(down[p]) + 1
        /\ down'[p][Len(down[p]) + 1] = m
        /\ \A i \in 1..Len(down[p]) : down'[p][i] = down[p][i]
    BY <1>1, <2>1, AppendElements
  <2>4. ASSUME NEW i \in 1..Len(down'[p]), down'[p][i].type = "PROPOSAL"
        PROVE  down'[p][i].key = written'[down'[p][i].zxid].key
    <3>1. CASE i \in 1..Len(down[p])
      <4>1. /\ down[p][i].type = "PROPOSAL" /\ down[p][i].zxid \in Nat
            /\ down[p][i].zxid \in 1..proposedZxid
        BY <1>2, <2>1, <2>3, <2>4, <3>1, MessageZxid DEF Rising
      <4>2. down[p][i].key = written[down[p][i].zxid].key
        BY <3>1, <4>1 DEF OrderInv, ProposalOrder
      <4> QED
        BY <1>3, <2>3, <3>1, <4>1, <4>2
    <3>2. CASE i = Len(down[p]) + 1
      BY <1>3, <1>4, <2>3, <3>2
    <3> QED
      BY <2>3, <3>1, <3>2
  <2> QED
    BY <1>2, <2>1, <2>2, <2>4
<1>7. CommitOrder'
  <2> SUFFICES ASSUME NEW p \in Peers
               PROVE  Rising(down'[p], "COMMIT", LastFlip(p), peerZxidCmt[p])
    BY <1>1 DEF OrderInv, CommitOrder, LastFlip
  <2>1. /\ LastFlip(p) \in Nat /\ peerZxidCmt[p] \in Nat /\ down[p] \in Seq(Messages)
        /\ LastFlip(p) <= peerZxidCmt[p]
        /\ Rising(down[p], "COMMIT", LastFlip(p), peerZxidCmt[p])
    BY Numbers, NodesAndPeers DEF OrderInv, CommitOrder
  <2>2. m.type # "COMMIT"
    BY <1>4
  <2>3. Rising(Append(down[p], m), "COMMIT", LastFlip(p), peerZxidCmt[p])
    BY <1>4, <2>1, <2>2, RisingAppend
  <2> QED
    BY <1>1, <2>3
<1> QED
  BY <1>5, <1>6, <1>7 DEF OrderInv

\* The end of a commit at the leader concerns no peer.
LEMMA FinishEffect ==
  ASSUME TypeOK, NEW z \in 1..MaxZxid, FinishCommit(z), myZxid[Leader] = z - 1
  PROVE  /\ myZxid'[Leader] = z
         /\ \A p \in Peers : myZxid'[p] = myZxid[p] /\ flips'[p] = flips[p]
<1>1. myZxid' = [myZxid EXCEPT ![Leader] = z]
  BY DEF FinishCommit
<1>2. Flip(Leader, z) \/ UNCHANGED flips
  BY DEF FinishCommit
<1>3. \A p \in Peers : flips'[p] = flips[p]
  BY <1>2, NodesAndPeers, FlipEffect
<1> QED
  BY <1>1, <1>3, NodesAndPeers DEF TypeOK

\* What an acknowledgement changes that the peers can tell: at most one COMMIT
\* more for some of them, with the next zxid of each.
LEMMA AckAtPeers ==
  ASSUME TypeOK, CommitInv, NEW p \in Peers, AckPropose(p)
  PROVE  /\ myZxid'[Leader] = myZxid[Leader] \/ myZxid'[Leader] = myZxid[Leader] + 1
         /\ \A q \in Peers :
              /\ myZxid'[q] = myZxid[q] /\ flips'[q] = flips[q]
              /\ \/ peerZxidCmt'[q] = peerZxidCmt[q] /\ down'[q] = down[q]
                 \/ /\ peerZxidCmt'[q] = peerZxidCmt[q] + 1
                    /\ peerZxidCmt'[q] \in 1..MaxZxid
                    /\ down'[q] = Append(down[q], CommitMsg(peerZxidCmt'[q]))
<1> DEFINE z == Head(up[p])
<1>1. /\ z \in 1..MaxZxid
      /\ \/ NoCommit
         \/ \E to \in SUBSET Peers :
              /\ SendCommits(to, z)
              /\ \A q \in to : peerZxidCmt[q] = z - 1
              /\ \/ z <= myZxid[Leader] /\ UNCHANGED <<myZxid, store, flips, replies>>
                 \/ myZxid[Leader] = z - 1 /\ z <= proposedZxid /\ FinishCommit(z)
  BY AckEffect
<1> HIDE DEF z
<1>2. CASE NoCommit
  BY <1>2 DEF NoCommit
<1>3. ASSUME NEW to \in SUBSET Peers, SendCommits(to, z), NEW q \in Peers,
             \A r \in to : peerZxidCmt[r] = z - 1
      PROVE  \/ peerZxidCmt'[q] = peerZxidCmt[q] /\ down'[q] = down[q]
             \/ /\ peerZxidCmt'[q] = peerZxidCmt[q] + 1
                /\ peerZxidCmt'[q] \in 1..MaxZxid
                /\ down'[q] = Append(down[q], CommitMsg(peerZxidCmt'[q]))
  <2>1. CASE q \in to
    <3>1. peerZxidCmt'[q] = z /\ down'[q] = Append(down[q], CommitMsg(z))
      BY <1>3, <2>1 DEF SendCommits
    <3>2. z = peerZxidCmt[q] + 1
      BY <1>1, <1>3, <2>1, Numbers
    <3> QED
      BY <1>1, <3>1, <3>2
  <2>2. CASE q \notin to
    BY <1>3, <2>2 DEF SendCommits
  <2> QED
    BY <2>1, <2>2
<1>4. ASSUME myZxid[Leader] = z - 1, FinishCommit(z)
      PROVE  /\ myZxid'[Leader] = myZxid[Leader] + 1
             /\ \A q \in Peers : myZxid'[q] = myZxid[q] /\ flips'[q] = flips[q]
  BY <1>1, <1>4, FinishEffect
<1>5. CASE ~NoCommit
  <2>1. PICK to \in SUBSET Peers :
          /\ SendCommits(to, z)
          /\ \A q \in to : peerZxidCmt[q] = z - 1
          /\ \/ z <= myZxid[Leader] /\ UNCHANGED <<myZxid, store, flips, replies>>
             \/ myZxid[Leader] = z - 1 /\ z <= proposedZxid /\ FinishCommit(z)
    BY <1>1, <1>5
  <2>2. /\ myZxid'[Leader] = myZxid[Leader] \/ myZxid'[Leader] = myZxid[Leader] + 1
        /\ \A q \in Peers : myZxid'[q] = myZxid[q] /\ flips'[q] = flips[q]
    BY <2>1, <1>4
  <2> QED
    BY <2>1, <2>2, <1>3
<1> QED
  BY <1>2, <1>5

\* A COMMIT sent to a peer has a higher zxid than all sent to it before.
LEMMA AckProposeOrderInv ==
  ASSUME TypeOK, TypeOK', CommitInv, OrderInv, CommitInv', NEW p \in Peers, AckPropose(p)
  PROVE  OrderInv'
<1>1. UNCHANGED <<proposedZxid, written, accepted>>
  BY AckEffect
<1>2. /\ myZxid'[Leader] = myZxid[Leader] \/ myZxid'[Leader] = myZxid[Leader] + 1
      /\ proposedZxid \in Nat /\ myZxid[Leader] \in Nat
  BY AckAtPeers, Numbers, NodesAndPeers
<1>3. Numbering'
  <2>1. proposedZxid' - myZxid'[Leader] <= Window
    BY <1>1, <1>2, SizeAssumption DEF OrderInv, Numbering
  <2>2. ASSUME NEW n \in Nodes PROVE LastLogged(n)' = LastLogged(n)
    BY <1>1, AckAtPeers DEF LastLogged, Peers
  <2> QED
    BY <1>1, <2>1, <2>2 DEF OrderInv, Numbering
<1>4. ASSUME NEW q \in Peers
      PROVE  /\ myZxid'[q] <= proposedZxid'
             /\ Rising(down'[q], "PROPOSAL", myZxid'[q], proposedZxid')
             /\ \A i \in 1..Len(down'[q]) :
                  down'[q][i].type = "PROPOSAL" => down'[q][i].key = written'[down'[q][i].zxid].key
             /\ LastFlip(q)' <= peerZxidCmt'[q]
             /\ Rising(down'[q], "COMMIT", LastFlip(q)', peerZxidCmt'[q])
  <2>1. /\ myZxid'[q] = myZxid[q] /\ LastFlip(q)' = LastFlip(q)
        /\ \/ peerZxidCmt'[q] = peerZxidCmt[q] /\ down'[q] = down[q]
           \/ /\ peerZxidCmt'[q] = peerZxidCmt[q] + 1
              /\ peerZxidCmt'[q] \in 1..MaxZxid
              /\ down'[q] = Append(down[q], CommitMsg(peerZxidCmt'[q]))
    BY <1>4, AckAtPeers DEF LastFlip
  <2>2. /\ myZxid[q] \in Nat /\ LastFlip(q) \in Nat /\ peerZxidCmt[q] \in Nat
        /\ down[q] \in Seq(Messages)
    BY <1>4, Numbers, NodesAndPeers
  <2>3. /\ myZxid[q] <= proposedZxid
        /\ Rising(down[q], "PROPOSAL", myZxid[q], proposedZxid)
        /\ \A i \in 1..Len(down[q]) :
             down[q][i].type = "PROPOSAL" => down[q][i].key = written[down[q][i].zxid].key
        /\ LastFlip(q) <= peerZxidCmt[q]
        /\ Rising(down[q], "COMMIT", LastFlip(q), peerZxidCmt[q])
    BY <1>4 DEF OrderInv, ProposalOrder, CommitOrder
  <2>4. CASE peerZxidCmt'[q] = peerZxidCmt[q] /\ down'[q] = down[q]
    BY <1>1, <2>1, <2>3, <2>4
  <2>5. CASE /\ peerZxidCmt'[q] = peerZxidCmt[q] + 1
             /\ peerZxidCmt'[q] \in 1..MaxZxid
             /\ down'[q] = Append(down[q], CommitMsg(peerZxidCmt'[q]))
    <3> DEFINE z == peerZxidCmt'[q]
               m == CommitMsg(z)
    <3>1. m \in Messages /\ m.type = "COMMIT" /\ m.zxid = z
      BY <2>5 DEF CommitMsg, Messages
    <3>2. z \in Nat /\ z = peerZxidCmt[q] + 1 /\ peerZxidCmt[q] <= z /\ peerZxidCmt[q] < z
      BY <2>2, <2>5
    <3>3. /\ Len(down[q]) \in Nat /\ Len(Append(down[q], m)) = Len(down[q]) + 1
          /\ Append(down[q], m)[Len(down[q]) + 1] = m
          /\ \A i \in 1..Len(down[q]) : Append(down[q], m)[i] = down[q][i]
      BY <2>2, AppendElements
    <3> HIDE DEF m, z
    <3>4. Rising(Append(down[q], m), "COMMIT", LastFlip(q), z)
      BY <2>2, <2>3, <3>1, <3>2, RisingAppend
    <3>5. Rising(Append(down[q], m), "PROPOSAL", myZxid[q], proposedZxid)
      <4>1. m.type # "PROPOSAL"
        BY <3>1
      <4> QED
        BY <1>2, <2>2, <2>3, <3>1, <4>1, RisingAppend
    <3>6. \A i \in 1..Len(Append(down[q], m)) : Append(down[q], m)[i].type = "PROPOSAL" =>
             i \in 1..Len(down[q])
      BY <3>1, <3>3
    <3>7. \A i \in 1..Len(Append(down[q], m)) : Append(down[q], m)[i].type = "PROPOSAL" =>
            Append(down[q], m)[i].key = written[Append(down[q], m)[i].zxid].key
      BY <2>3, <3>3, <3>6
    <3>8. down'[q] = Append(down[q], m) /\ peerZxidCmt'[q] = z
      BY <2>5 DEF m, z
    <3>9. LastFlip(q) <= z
      BY <2>2, <2>3, <3>2
    <3> QED
      BY <1>1, <2>1, <2>3, <3>4, <3>5, <3>7, <3>8, <3>9
  <2> QED
    BY <2>1, <2>4, <2>5
<1> QED
  BY <1>3, <1>4 DEF OrderInv, ProposalOrder, CommitOrder

\* What is left of a connection when its first message is taken off.
LEMMA TakeDown ==
  ASSUME TypeOK, OrderInv, NEW p \in Peers, down[p] # <<>>
  PROVE  LET m == Head(down[p])
             d == Tail(down[p]) IN
         /\ m \in Messages /\ m.zxid \in 1..MaxZxid
         /\ Rising(d, "PROPOSAL", myZxid[p], proposedZxid)
         /\ Rising(d, "COMMIT", LastFlip(p), peerZxidCmt[p])
         /\ \A i \in 1..Len(d) : d[i].type = "PROPOSAL" => d[i].key = written[d[i].zxid].key
         /\ m.type = "PROPOSAL" =>
              /\ myZxid[p] < m.zxid /\ m.zxid <= proposedZxid
              /\ m.key \in Keys /\ m.key = written[m.zxid].key
              /\ Rising(d, "PROPOSAL", m.zxid, proposedZxid)
         /\ m.type = "COMMIT" =>
              /\ LastFlip(p) < m.zxid /\ m.zxid <= peerZxidCmt[p]
              /\ Rising(d, "COMMIT", m.zxid, peerZxidCmt[p])
<1> DEFINE m == Head(down[p])
           d == Tail(down[p])
<1>1. /\ myZxid[p] \in Nat /\ LastFlip(p) \in Nat /\ peerZxidCmt[p] \in Nat
      /\ proposedZxid \in Nat /\ down[p] \in Seq(Messages)
  BY Numbers, NodesAndPeers
<1>2. /\ Rising(down[p], "PROPOSAL", myZxid[p], proposedZxid)
      /\ Rising(down[p], "COMMIT", LastFlip(p), peerZxidCmt[p])
      /\ \A i \in 1..Len(down[p]) :
           down[p][i].type = "PROPOSAL" => down[p][i].key = written[down[p][i].zxid].key
  BY DEF OrderInv, ProposalOrder, CommitOrder
<1>3. /\ Len(down[p]) \in Nat /\ Len(down[p]) >= 1 /\ m = down[p][1] /\ m \in Messages
      /\ \A i \in 1..Len(d) : d[i] = down[p][i + 1] /\ i + 1 \in 1..Len(down[p])
  BY <1>1, TailElements
<1>4. /\ Rising(d, "PROPOSAL", myZxid[p], proposedZxid)
      /\ m.type = "PROPOSAL" =>
           /\ myZxid[p] < m.zxid /\ m.zxid <= proposedZxid
           /\ Rising(d, "PROPOSAL", m.zxid, proposedZxid)
  BY <1>1, <1>2, RisingTail
<1>5. /\ Rising(d, "COMMIT", LastFlip(p), peerZxidCmt[p])
      /\ m.type = "COMMIT" =>
           /\ LastFlip(p) < m.zxid /\ m.zxid <= peerZxidCmt[p]
           /\ Rising(d, "COMMIT", m.zxid, peerZxidCmt[p])
  BY <1>1, <1>2, RisingTail
<1> HIDE DEF m, d
<1>6. \A i \in 1..Len(d) : d[i].type = "PROPOSAL" => d[i].key = written[d[i].zxid].key
  BY <1>2, <1>3
<1>7. m.zxid \in 1..MaxZxid /\ (m.type = "PROPOSAL" => m.key \in Keys)
  BY <1>3 DEF Messages
<1>8. m.type = "PROPOSAL" => m.key = written[m.zxid].key
  BY <1>2, <1>3
<1> QED
  BY <1>3, <1>4, <1>5, <1>6, <1>7, <1>8 DEF m, d

\* A follower accepts a proposal above all it accepted before.
LEMMA ProposalOrderInv ==
  ASSUME TypeOK, OrderInv, NEW p \in Peers, Proposal(p)
  PROVE  OrderInv'
<1> DEFINE m == Head(down[p])
           d == Tail(down[p])
<1>1. /\ down[p] # <<>> /\ m.type = "PROPOSAL"
      /\ down' = [down EXCEPT ![p] = d]
      /\ myZxid' = [myZxid EXCEPT ![p] = m.zxid]
      /\ accepted' = [accepted EXCEPT ![p] = @ \cup {m.zxid}]
      /\ UNCHANGED <<proposedZxid, peerZxidCmt, written, flips>>
  BY DEF Proposal, leaderVars
<1>2. /\ m.zxid \in 1..MaxZxid /\ myZxid[p] < m.zxid /\ m.zxid <= proposedZxid
      /\ Rising(d, "PROPOSAL", m.zxid, proposedZxid)
      /\ Rising(d, "COMMIT", LastFlip(p), peerZxidCmt[p])
      /\ \A i \in 1..Len(d) : d[i].type = "PROPOSAL" => d[i].key = written[d[i].zxid].key
  BY <1>1, TakeDown
<1> HIDE DEF m, d
<1>3. /\ p \in Nodes /\ p # Leader /\ myZxid'[Leader] = myZxid[Leader]
      /\ myZxid[p] \in Nat /\ m.zxid \in Nat
  <2>1. p \in Nodes /\ p # Leader /\ myZxid[p] \in Nat
    BY NodesAndPeers, Numbers
  <2>2. myZxid \in [Nodes -> Zxid]
    BY DEF TypeOK
  <2> QED
    BY <1>1, <1>2, <2>1, <2>2
<1>4. Numbering'
  <2>1. ASSUME NEW n \in Nodes PROVE accepted'[n] \subseteq 1..LastLogged(n)'
    <3>1. CASE n = p
      <4>1. accepted'[n] = accepted[n] \cup {m.zxid} /\ LastLogged(n)' = m.zxid
        BY <1>1, <1>3, <3>1 DEF TypeOK, LastLogged
      <4>2. accepted[n] \subseteq 1..myZxid[p]
        BY <1>3, <3>1 DEF OrderInv, Numbering, LastLogged
      <4>3. 1..myZxid[p] \subseteq 1..m.zxid /\ m.zxid \in 1..m.zxid
        BY <1>2, <1>3
      <4> QED
        BY <4>1, <4>2, <4>3
    <3>2. CASE n # p
      BY <1>1, <3>2 DEF TypeOK, OrderInv, Numbering, LastLogged
    <3> QED
      BY <3>1, <3>2
  <2> QED
    BY <1>1, <1>3, <2>1 DEF OrderInv, Numbering
<1>5. ProposalOrder' /\ CommitOrder'
  <2> SUFFICES ASSUME NEW q \in Peers
               PROVE  /\ myZxid'[q] <= proposedZxid
                      /\ Rising(down'[q], "PROPOSAL", myZxid'[q], proposedZxid)
                      /\ \A i \in 1..Len(down'[q]) : down'[q][i].type = "PROPOSAL" =>
                           down'[q][i].key = written[down'[q][i].zxid].key
                      /\ LastFlip(q) <= peerZxidCmt[q]
                      /\ Rising(down'[q], "COMMIT", LastFlip(q), peerZxidCmt[q])
    BY <1>1 DEF ProposalOrder, CommitOrder, LastFlip
  <2>1. LastFlip(q) <= peerZxidCmt[q]
    BY DEF OrderInv, CommitOrder
  <2>2. CASE q = p
    <3>1. down'[q] = d /\ myZxid'[q] = m.zxid
      BY <1>1, <1>3, <2>2 DEF TypeOK
    <3> QED
      BY <1>2, <2>1, <2>2, <3>1
  <2>3. CASE q # p
    <3>1. down'[q] = down[q] /\ myZxid'[q] = myZxid[q]
      BY <1>1, <2>3, NodesAndPeers DEF TypeOK
    <3> QED
      BY <3>1, <2>1 DEF OrderInv, ProposalOrder, CommitOrder
  <2> QED
    BY <2>2, <2>3
<1> QED
  BY <1>4, <1>5 DEF OrderInv

\* Taking a message off without accepting it: a COMMIT, or a request thrown away.
LEMMA ConsumedOrderInv ==
  ASSUME TypeOK, OrderInv, NEW p \in Peers, Commit(p) \/ DropAtFollower(p) \/ DropAtLeader(p)
  PROVE  OrderInv'
<1> DEFINE m == Head(down[p])
           d == Tail(down[p])
<1>1. UNCHANGED <<myZxid, proposedZxid, peerZxidCmt, written, accepted>>
  BY DEF Commit, DropAtFollower, DropAtLeader, leaderVars, history
<1>2. Numbering'
  BY <1>1 DEF OrderInv, Numbering, LastLogged
<1>3. CASE DropAtLeader(p)
  <2>1. UNCHANGED <<down, flips>>
    BY <1>3 DEF DropAtLeader, history
  <2> QED
    BY <1>1, <1>2, <2>1 DEF OrderInv, ProposalOrder, CommitOrder, LastFlip
<1>4. CASE Commit(p) \/ DropAtFollower(p)
  <2>1. /\ down[p] # <<>> /\ down' = [down EXCEPT ![p] = d]
        /\ UNCHANGED flips \/ (m.type = "COMMIT" /\ Flip(p, m.zxid))
    BY <1>4 DEF Commit, DropAtFollower, history
  <2>2. /\ m.zxid \in 1..MaxZxid
        /\ Rising(d, "PROPOSAL", myZxid[p], proposedZxid)
        /\ Rising(d, "COMMIT", LastFlip(p), peerZxidCmt[p])
        /\ \A i \in 1..Len(d) : d[i].type = "PROPOSAL" => d[i].key = written[d[i].zxid].key
        /\ m.type = "COMMIT" =>
             m.zxid <= peerZxidCmt[p] /\ Rising(d, "COMMIT", m.zxid, peerZxidCmt[p])
    BY <2>1, TakeDown
  <2> HIDE DEF m, d
  <2>3. LastFlip(p)' = LastFlip(p) \/ (m.type = "COMMIT" /\ LastFlip(p)' = m.zxid)
    <3>1. CASE UNCHANGED flips
      BY <3>1 DEF LastFlip
    <3>2. CASE m.type = "COMMIT" /\ Flip(p, m.zxid)
      BY <2>2, <3>2, FlipEffect, NodesAndPeers
    <3> QED
      BY <2>1, <3>1, <3>2
  <2>4. \A q \in Peers : q # p => LastFlip(q)' = LastFlip(q)
    <3>1. CASE UNCHANGED flips
      BY <3>1 DEF LastFlip
    <3>2. CASE Flip(p, m.zxid)
      <4>1. \A q \in Nodes : q # p => flips'[q] = flips[q]
        BY <2>2, <3>2, FlipEffect, NodesAndPeers
      <4> QED
        BY <4>1, NodesAndPeers DEF LastFlip
    <3> QED
      BY <2>1, <3>1, <3>2
  <2>5. ProposalOrder' /\ CommitOrder'
    <3> SUFFICES ASSUME NEW q \in Peers
                 PROVE  /\ Rising(down'[q], "PROPOSAL", myZxid[q], proposedZxid)
                        /\ \A i \in 1..Len(down'[q]) : down'[q][i].type = "PROPOSAL" =>
                             down'[q][i].key = written[down'[q][i].zxid].key
                        /\ LastFlip(q)' <= peerZxidCmt[q]
                        /\ Rising(down'[q], "COMMIT", LastFlip(q)', peerZxidCmt[q])
      BY <1>1 DEF OrderInv, ProposalOrder, CommitOrder
    <3>1. CASE q = p
      <4>1. down'[q] = d
        BY <2>1, <3>1 DEF TypeOK
      <4>2. LastFlip(p) <= peerZxidCmt[p]
        BY DEF OrderInv, CommitOrder
      <4> QED
        BY <2>2, <2>3, <3>1, <4>1, <4>2
    <3>2. CASE q # p
      <4>1. down'[q] = down[q] /\ LastFlip(q)' = LastFlip(q)
        BY <2>1, <2>4, <3>2 DEF TypeOK
      <4> QED
        BY <4>1 DEF OrderInv, ProposalOrder, CommitOrder
    <3> QED
      BY <3>1, <3>2
  <2> QED
    BY <1>2, <2>5 DEF OrderInv
<1> QED
  BY <1>3, <1>4

\* Zxids are given without gaps (ST_WRITEREQ), and the PROPOSALs, COMMITs and
\* ACKPROPOSEs on their way rise, whatever was thrown away.
THEOREM OrderInvariant == Spec => []OrderInv
<1>1. TypeOK /\ TypeOK' /\ CommitInv /\ CommitInv' /\ OrderInv /\ [Next]_vars => OrderInv'
  <2> SUFFICES ASSUME TypeOK, TypeOK', CommitInv, CommitInv', OrderInv, [Next]_vars
               PROVE  OrderInv'
    OBVIOUS
  <2>1. CASE Next
    BY <2>1, WriteReqOrderInv, AckProposeOrderInv, ProposalOrderInv, ConsumedOrderInv DEF Next
  <2>2. CASE UNCHANGED vars
    BY <2>2 DEF vars, leaderVars, history, OrderInv, Numbering, LastLogged, ProposalOrder,
       CommitOrder, LastFlip
  <2> QED
    BY <2>1, <2>2
<1> QED
  BY InitOrderInv, TypeCorrect, CommitInvariant, <1>1, PTL DEF Spec

-----------------------------------------------------------------------------
(* The request log. *)

\* Numbers less than L apart differ modulo L.
LEMMA ModDistinct ==
  ASSUME NEW L \in Nat \ {0}, NEW x \in Nat, NEW y \in Nat, x < y, y - x < L
  PROVE  x % L # y % L
<1> SUFFICES ASSUME x % L = y % L PROVE FALSE
  OBVIOUS
<1> DEFINE a == x \div L
           b == y \div L
<1>1. a \in Int /\ b \in Int /\ x = L * a + (x % L) /\ y = L * b + (y % L)
  OBVIOUS
<1> HIDE DEF a, b
<1>2. y - x = L * b - L * a
  BY <1>1
<1>3. L * b - L * a = L * (b - a)
  BY <1>1
<1>4. b - a \in Int /\ L * (b - a) > 0 /\ L * (b - a) < L
  BY <1>1, <1>2, <1>3
<1>5. CASE b - a <= 0
  BY <1>4, <1>5
<1>6. CASE b - a >= 1
  BY <1>4, <1>6
<1> QED
  BY <1>4, <1>5, <1>6

\* Adding to the log of one node changes one slot.
LEMMA LogAddEffect ==
  ASSUME TypeOK, NEW n \in Nodes, NEW z \in Nat, NEW k, LogAdd(n, z, k)
  PROVE  /\ log'[n][LogSlot(z)] = k
         /\ \A y \in Nat : LogSlot(y) # LogSlot(z) => log'[n][LogSlot(y)] = log[n][LogSlot(y)]
         /\ \A q \in Nodes : q # n => log'[q] = log[q]
<1>1. \A y \in Nat : LogSlot(y) \in 0..(LogSlots - 1)
  BY SlotType
<1>2. /\ log \in [Nodes -> [0..(LogSlots - 1) -> Keys \cup {NoKey}]]
      /\ log' = [log EXCEPT ![n][LogSlot(z)] = k]
  BY DEF TypeOK, LogAdd
<1> QED
  BY <1>1, <1>2

\* Logging a write above all others of its node keeps the last LogSlots of them.
LEMMA LogGrows ==
  ASSUME TypeOK, OrderInv, LogHolds, NEW n \in Nodes, NEW z \in Nat, NEW k, LogAdd(n, z, k),
         LastLogged(n) < z, LastLogged(n)' = z, accepted'[n] = accepted[n] \cup {z},
         \A q \in Nodes : q # n => accepted'[q] = accepted[q] /\ LastLogged(q)' = LastLogged(q),
         written'[z].key = k, \A y \in 1..proposedZxid : written'[y] = written[y]
  PROVE  LogHolds'
<1>1. ASSUME NEW q \in Nodes, NEW y \in accepted[q]
      PROVE  /\ y \in Nat /\ y <= LastLogged(q) /\ y \in 1..proposedZxid
             /\ LastLogged(q) \in Nat
  <2>1. y \in 1..LastLogged(q)
    BY DEF OrderInv, Numbering
  <2>2. LastLogged(q) \in Nat /\ LastLogged(q) <= proposedZxid /\ proposedZxid \in Nat
    BY Numbers DEF OrderInv, ProposalOrder, LastLogged, Peers
  <2> QED
    BY <2>1, <2>2
<1> SUFFICES ASSUME NEW q \in Nodes, NEW y \in accepted'[q], y > LastLogged(q)' - LogSlots
             PROVE  log'[q][LogSlot(y)] = written'[y].key
  BY DEF LogHolds, LogFind
<1>2. CASE q # n
  <2>1. y \in accepted[q] /\ y > LastLogged(q) - LogSlots /\ log'[q] = log[q]
    BY <1>2, LogAddEffect
  <2>2. log[q][LogSlot(y)] = written[y].key
    BY <2>1 DEF LogHolds, LogFind
  <2> QED
    BY <1>1, <2>1, <2>2
<1>3. CASE q = n /\ y = z
  BY <1>3, LogAddEffect
<1>4. CASE q = n /\ y # z
  <2>1. y \in accepted[n] /\ y > z - LogSlots
    BY <1>4
  <2>2. y \in Nat /\ y <= LastLogged(n) /\ y \in 1..proposedZxid /\ LastLogged(n) \in Nat
    BY <1>1, <2>1
  <2>3. y < z /\ z - y < LogSlots /\ y > LastLogged(n) - LogSlots
    BY <2>1, <2>2, SizeAssumption
  <2>4. LogSlot(y) # LogSlot(z)
    BY <2>2, <2>3, ModDistinct, SizeAssumption DEF LogSlot
  <2>5. log'[n][LogSlot(y)] = log[n][LogSlot(y)]
    BY <2>2, <2>4, LogAddEffect
  <2>6. log[n][LogSlot(y)] = written[y].key
    BY <2>1, <2>3 DEF LogHolds, LogFind
  <2> QED
    BY <1>4, <2>2, <2>5, <2>6
<1> QED
  BY <1>2, <1>3, <1>4

\* The ring of muu_replicate_LogManager holds at every node the key of each of the
\* last LogSlots writes the node has logged.
THEOREM LogInvariant == Spec => []LogHolds
<1>1. Init => LogHolds
  BY DEF Init, LogHolds
<1>2. TypeOK /\ CommitInv /\ OrderInv /\ LogHolds /\ [Next]_vars => LogHolds'
  <2> SUFFICES ASSUME TypeOK, CommitInv, OrderInv, LogHolds, [Next]_vars PROVE LogHolds'
    OBVIOUS
  <2>1. ASSUME NEW k \in Keys, NEW s \in Sessions, WriteReq(k, s) PROVE LogHolds'
    <3> DEFINE z == proposedZxid + 1
    <3>1. /\ LogAdd(Leader, z, k) /\ proposedZxid' = z /\ myZxid' = myZxid
          /\ accepted' = [accepted EXCEPT ![Leader] = @ \cup {z}]
          /\ written' = Append(written, [key |-> k, sess |-> s])
      BY <2>1 DEF WriteReq
    <3>2. /\ proposedZxid \in Nat /\ Leader \in Nodes /\ z \in Nat
          /\ LastLogged(Leader) < z /\ LastLogged(Leader)' = z
      BY <3>1, Numbers, NodesAndPeers DEF LastLogged
    <3>3. accepted'[Leader] = accepted[Leader] \cup {z}
      BY <3>1, <3>2 DEF TypeOK
    <3>4. \A q \in Nodes : q # Leader => accepted'[q] = accepted[q] /\ LastLogged(q)' = LastLogged(q)
      BY <3>1 DEF TypeOK, LastLogged
    <3>5. written'[z].key = k /\ \A y \in 1..proposedZxid : written'[y] = written[y]
      BY <3>1, AppendElements DEF TypeOK, OrderInv, Numbering
    <3> HIDE DEF z
    <3> QED
      BY <3>1, <3>2, <3>3, <3>4, <3>5, LogGrows
  <2>2. ASSUME NEW p \in Peers, AckPropose(p) PROVE LogHolds'
    <3>1. UNCHANGED <<proposedZxid, log, written, accepted>>
      BY <2>2, AckEffect
    <3>2. \A n \in Nodes : LastLogged(n)' = LastLogged(n)
      BY <2>2, <3>1, AckAtPeers DEF LastLogged, Peers
    <3> QED
      BY <3>1, <3>2 DEF LogHolds, LogFind
  <2>3. ASSUME NEW p \in Peers, Proposal(p) PROVE LogHolds'
    <3> DEFINE m == Head(down[p])
    <3>1. /\ down[p] # <<>> /\ m.type = "PROPOSAL" /\ LogAdd(p, m.zxid, m.key)
          /\ myZxid' = [myZxid EXCEPT ![p] = m.zxid]
          /\ accepted' = [accepted EXCEPT ![p] = @ \cup {m.zxid}]
          /\ UNCHANGED <<proposedZxid, written>>
      BY <2>3 DEF Proposal, leaderVars
    <3>2. /\ m.zxid \in 1..MaxZxid /\ myZxid[p] < m.zxid /\ m.key = written[m.zxid].key
      BY <2>3, <3>1, TakeDown
    <3> HIDE DEF m
    <3>3. /\ p \in Nodes /\ p # Leader /\ m.zxid \in Nat
          /\ accepted'[p] = accepted[p] \cup {m.zxid}
          /\ LastLogged(p) < m.zxid /\ LastLogged(p)' = m.zxid
      BY <2>3, <3>1, <3>2, NodesAndPeers DEF TypeOK, LastLogged
    <3>4. \A q \in Nodes : q # p => accepted'[q] = accepted[q] /\ LastLogged(q)' = LastLogged(q)
      BY <3>1 DEF TypeOK, LastLogged
    <3> QED
      BY <3>1, <3>2, <3>3, <3>4, LogGrows
  <2>4. ASSUME NEW p \in Peers, Commit(p) \/ DropAtFollower(p) \/ DropAtLeader(p)
        PROVE  LogHolds'
    BY <2>4 DEF Commit, DropAtFollower, DropAtLeader, leaderVars, history, LogHolds, LogFind,
       LastLogged
  <2>5. CASE UNCHANGED vars
    BY <2>5 DEF vars, leaderVars, history, LogHolds, LogFind, LastLogged
  <2> QED
    BY <2>1, <2>2, <2>3, <2>4, <2>5 DEF Next
<1> QED
  BY <1>1, <1>2, TypeCorrect, CommitInvariant, OrderInvariant, PTL DEF Spec

\* What a flip at the leader is for: the next write to commit, taken from the log.
LEMMA LeaderFlip ==
  ASSUME TypeOK, CommitInv, NEW p \in Peers, AckPropose(p), flips'[Leader] # flips[Leader]
  PROVE  LET z == myZxid[Leader] + 1 IN
         /\ z \in 1..MaxZxid /\ z <= proposedZxid /\ z \in accepted[Leader]
         /\ FinishCommit(z) /\ Flip(Leader, z)
<1> DEFINE y == Head(up[p])
<1>1. y \in 1..MaxZxid /\ myZxid[Leader] = y - 1 /\ y <= proposedZxid /\ FinishCommit(y)
  BY AckEffect DEF NoCommit
<1> HIDE DEF y
<1>2. myZxid[Leader] \in Nat /\ proposedZxid \in Nat
  BY Numbers, NodesAndPeers
<1>3. y = myZxid[Leader] + 1 /\ y \in 1..proposedZxid
  BY <1>1, <1>2
<1>4. y \in accepted[Leader]
  BY <1>3 DEF CommitInv, LeaderOrder
<1>5. Flip(Leader, y)
  BY <1>1 DEF FinishCommit
<1> QED
  BY <1>1, <1>3, <1>4, <1>5

\* The HTOP_FLIPPOINT of a COMMIT, which finds its key in the log, is for the key of
\* the write committed, whatever was thrown away, unless LogSlots later writes were
\* logged meanwhile.
THEOREM FlipsAreForTheRightKey == Spec => FlipsRightKey
<1>1. TypeOK /\ CommitInv /\ LogHolds /\ [Next]_vars =>
        [\A n \in Nodes : flips'[n] # flips[n] =>
           LET f == flips'[n][Len(flips'[n])] IN
           f.zxid > LastLogged(n) - LogSlots => f.key = written[f.zxid].key]_vars
  <2> SUFFICES ASSUME TypeOK, CommitInv, LogHolds, Next,
                      NEW n \in Nodes, flips'[n] # flips[n]
               PROVE  LET f == flips'[n][Len(flips'[n])] IN
                      f.zxid > LastLogged(n) - LogSlots => f.key = written[f.zxid].key
    BY Zenon
  <2>1. ASSUME NEW z \in 1..MaxZxid, Flip(n, z), z \in accepted[n]
        PROVE  LET f == flips'[n][Len(flips'[n])] IN
               f.zxid > LastLogged(n) - LogSlots => f.key = written[f.zxid].key
    <3>1. flips'[n][Len(flips'[n])] = [zxid |-> z, key |-> LogFind(n, z)]
      BY <2>1, FlipEffect
    <3> QED
      BY <2>1, <3>1 DEF LogHolds
  <2>2. ASSUME NEW p \in Peers, AckPropose(p)
        PROVE  \E z \in 1..MaxZxid : Flip(n, z) /\ z \in accepted[n]
    <3>1. n = Leader
      BY <2>2, AckAtPeers DEF Peers
    <3> QED
      BY <2>2, <3>1, LeaderFlip
  <2>3. ASSUME NEW p \in Peers, Commit(p)
        PROVE  \E z \in 1..MaxZxid : Flip(n, z) /\ z \in accepted[n]
    <3> DEFINE m == Head(down[p])
    <3>1. /\ down[p] # <<>> /\ down[p] \in Seq(Messages)
          /\ m.type = "COMMIT" /\ Flip(p, m.zxid)
      BY <2>3 DEF Commit, TypeOK
    <3>2. m = down[p][1] /\ 1 \in 1..Len(down[p]) /\ m.zxid \in 1..MaxZxid
      BY <3>1, TailElements, MessageZxid
    <3>3. m.zxid \in accepted[p]
      BY <3>1, <3>2 DEF CommitInv, CommitsAreForAccepted
    <3>4. n = p
      BY <3>1, <3>2, FlipEffect, NodesAndPeers
    <3> QED
      BY <3>1, <3>2, <3>3, <3>4
  <2>4. ASSUME flips' = flips PROVE FALSE
    BY <2>4
  <2> QED
    BY <2>1, <2>2, <2>3, <2>4 DEF Next, WriteReq, Proposal, DropAtFollower, DropAtLeader, history
<1> QED
  BY <1>1, TypeCorrect, CommitInvariant, LogInvariant, PTL DEF Spec, FlipsRightKey

-----------------------------------------------------------------------------
(* The session memory, for clients whose window fits it. *)

\* A step that commits, at the leader, commits the next zxid.
LEMMA LeaderMoves ==
  ASSUME TypeOK, CommitInv, NEW p \in Peers, AckPropose(p), myZxid'[Leader] # myZxid[Leader]
  PROVE  LET z == myZxid[Leader] + 1 IN
         z \in 1..MaxZxid /\ z <= proposedZxid /\ FinishCommit(z) /\ myZxid'[Leader] = z
<1> DEFINE y == Head(up[p])
<1>1. y \in 1..MaxZxid /\ myZxid[Leader] = y - 1 /\ y <= proposedZxid /\ FinishCommit(y)
  BY AckEffect DEF NoCommit
<1> HIDE DEF y
<1>2. myZxid[Leader] \in Nat
  BY Numbers, NodesAndPeers
<1>3. y = myZxid[Leader] + 1
  BY <1>1, <1>2
<1> QED
  BY <1>1, <1>3, FinishEffect

\* While no write is accepted from a client, the session memory stands.
LEMMA SessionsStand ==
  ASSUME SessionsHeld, UNCHANGED <<proposedZxid, sessMem, written>>,
         myZxid[Leader] \in Nat, proposedZxid \in Nat,
         \/ myZxid'[Leader] = myZxid[Leader]
         \/ myZxid'[Leader] = myZxid[Leader] + 1
  PROVE  SessionsHeld'
<1>1. \A z \in (myZxid'[Leader] + 1)..proposedZxid : z \in (myZxid[Leader] + 1)..proposedZxid
  OBVIOUS
<1> QED
  BY <1>1 DEF SessionsHeld, SessSlot

\* The session memory that ST_FINISH_WRITEREQ writes holds the session of each write
\* until it is committed, as long as no more are outstanding than it has slots.
THEOREM SessionInvariant ==
  ASSUME Window <= SessSlots
  PROVE  Spec => []SessionsHeld
<1>1. Init => SessionsHeld
  BY NodesAndPeers DEF Init, SessionsHeld
<1>2. TypeOK /\ CommitInv /\ OrderInv /\ SessionsHeld /\ [Next]_vars => SessionsHeld'
  <2> SUFFICES ASSUME TypeOK, CommitInv, OrderInv, SessionsHeld, [Next]_vars PROVE SessionsHeld'
    OBVIOUS
  <2>1. myZxid[Leader] \in Nat /\ proposedZxid \in Nat
    BY Numbers, NodesAndPeers
  <2>2. ASSUME NEW k \in Keys, NEW s \in Sessions, WriteReq(k, s) PROVE SessionsHeld'
    <3> DEFINE z == proposedZxid + 1
    <3>1. /\ proposedZxid' = z /\ myZxid' = myZxid
          /\ sessMem' = [sessMem EXCEPT ![SessSlot(z)] = [zxid |-> z, sess |-> s]]
          /\ written' = Append(written, [key |-> k, sess |-> s])
          /\ proposedZxid - myZxid[Leader] < Window
      BY <2>2 DEF WriteReq, ClientMaySend
    <3>2. written'[z].sess = s /\ \A y \in 1..proposedZxid : written'[y] = written[y]
      BY <3>1, AppendElements DEF TypeOK, OrderInv, Numbering
    <3>3. z \in Nat /\ SessSlot(z) \in 0..(SessSlots - 1)
      BY <2>1, SlotType
    <3>4. sessMem'[SessSlot(z)] = [zxid |-> z, sess |-> s]
      BY <3>1, <3>3 DEF TypeOK
    <3>5. ASSUME NEW y \in (myZxid[Leader] + 1)..proposedZxid
          PROVE  sessMem'[SessSlot(y)] = [zxid |-> y, sess |-> written'[y].sess]
      <4>1. y \in Nat /\ y < z /\ z - y < SessSlots /\ y \in 1..proposedZxid
        BY <2>1, <3>1, SizeAssumption
      <4>2. SessSlot(y) # SessSlot(z) /\ SessSlot(y) \in 0..(SessSlots - 1)
        BY <3>3, <4>1, ModDistinct, SlotType, SizeAssumption DEF SessSlot
      <4>3. sessMem'[SessSlot(y)] = sessMem[SessSlot(y)]
        BY <3>1, <4>2 DEF TypeOK
      <4> QED
        BY <3>2, <4>1, <4>3 DEF SessionsHeld
    <3>6. \A y \in (myZxid[Leader] + 1)..z : y \in (myZxid[Leader] + 1)..proposedZxid \/ y = z
      BY <2>1
    <3> HIDE DEF z
    <3> QED
      BY <3>1, <3>2, <3>4, <3>5, <3>6 DEF SessionsHeld, SessSlot
  <2>3. ASSUME NEW p \in Peers, AckPropose(p) PROVE SessionsHeld'
    BY <2>1, <2>3, AckEffect, AckAtPeers, SessionsStand
  <2>4. ASSUME NEW p \in Peers, Proposal(p) PROVE SessionsHeld'
    <3>1. myZxid'[Leader] = myZxid[Leader] /\ UNCHANGED <<proposedZxid, sessMem, written>>
      BY <2>4, NodesAndPeers DEF Proposal, leaderVars, TypeOK
    <3> QED
      BY <2>1, <3>1, SessionsStand
  <2>5. ASSUME NEW p \in Peers, Commit(p) \/ DropAtFollower(p) \/ DropAtLeader(p)
        PROVE  SessionsHeld'
    <3>1. UNCHANGED <<myZxid, proposedZxid, sessMem, written>>
      BY <2>5 DEF Commit, DropAtFollower, DropAtLeader, leaderVars, history
    <3> QED
      BY <2>1, <3>1, SessionsStand
  <2>6. CASE UNCHANGED vars
    <3>1. UNCHANGED <<myZxid, proposedZxid, sessMem, written>>
      BY <2>6 DEF vars, leaderVars, history
    <3> QED
      BY <2>1, <3>1, SessionsStand
  <2> QED
    BY <2>2, <2>3, <2>4, <2>5, <2>6 DEF Next
<1> QED
  BY <1>1, <1>2, TypeCorrect, CommitInvariant, OrderInvariant, PTL DEF Spec

\* With the session still known, a commit flips the key and answers the client.
LEMMA CommitAnswers ==
  ASSUME TypeOK, CommitInv, SessionsHeld, NEW p \in Peers, AckPropose(p)
  PROVE  \/ UNCHANGED <<replies, flips, store>> /\ myZxid'[Leader] = myZxid[Leader]
         \/ LET z == myZxid[Leader] + 1 IN
            /\ z \in 1..MaxZxid /\ z <= proposedZxid /\ z \in accepted[Leader]
            /\ myZxid'[Leader] = z /\ Flip(Leader, z)
            /\ replies' = Append(replies, [sess |-> written[z].sess, zxid |-> z])
<1> DEFINE z == myZxid[Leader] + 1
<1>1. myZxid[Leader] \in Nat /\ proposedZxid \in Nat
  BY Numbers, NodesAndPeers
<1>2. CASE myZxid'[Leader] # myZxid[Leader]
  <2>1. z \in 1..MaxZxid /\ z <= proposedZxid /\ FinishCommit(z) /\ myZxid'[Leader] = z
    BY <1>2, LeaderMoves
  <2>2. z \in (myZxid[Leader] + 1)..proposedZxid /\ z \in 1..proposedZxid
    BY <1>1, <2>1
  <2>3. sessMem[SessSlot(z)] = [zxid |-> z, sess |-> written[z].sess]
    BY <2>2 DEF SessionsHeld
  <2>4. z \in accepted[Leader]
    BY <2>2 DEF CommitInv, LeaderOrder
  <2>5. Flip(Leader, z) /\ replies' = Append(replies, [sess |-> written[z].sess, zxid |-> z])
    BY <2>1, <2>3 DEF FinishCommit
  <2> QED
    BY <2>1, <2>4, <2>5
<1>3. CASE myZxid'[Leader] = myZxid[Leader]
  <2> DEFINE y == Head(up[p])
  <2>1. \/ UNCHANGED <<replies, flips, store>>
        \/ y \in 1..MaxZxid /\ myZxid[Leader] = y - 1 /\ FinishCommit(y)
    BY AckEffect DEF NoCommit
  <2> HIDE DEF y
  <2>2. ~(y \in 1..MaxZxid /\ myZxid[Leader] = y - 1 /\ FinishCommit(y))
    BY <1>1, <1>3, FinishEffect
  <2> QED
    BY <1>3, <2>1, <2>2
<1> QED
  BY <1>2, <1>3

\* Adding one entry to a sequence given entry by entry.
LEMMA AppendEntry ==
  ASSUME NEW S, NEW s \in Seq(S), NEW n \in Nat, Len(s) = n,
         NEW T, NEW t \in [1..(n + 1) -> T], NEW e,
         \A i \in 1..n : t[i] = s[i], t[n + 1] = e
  PROVE  Append(s, e) = t
<1>1. /\ Len(Append(s, e)) = n + 1 /\ \A i \in 1..n : Append(s, e)[i] = s[i]
      /\ Append(s, e)[n + 1] = e
  BY AppendElements
<1>2. Append(s, e) \in Seq(S \cup {e})
  BY AppendProperties, SeqMonotonic
<1>3. Append(s, e) = [i \in 1..(n + 1) |-> Append(s, e)[i]]
  BY <1>1, <1>2, LenProperties
<1>4. ASSUME NEW i \in 1..(n + 1) PROVE Append(s, e)[i] = t[i]
  <2>1. i \in 1..n \/ i = n + 1
    OBVIOUS
  <2> QED
    BY <1>1, <2>1
<1> QED
  BY <1>3, <1>4

\* The length of a sequence given entry by entry.
LEMMA LengthOf ==
  ASSUME NEW S, NEW s \in Seq(S), NEW n \in Nat, DOMAIN s = 1..n
  PROVE  Len(s) = n
OBVIOUS

\* Every committed write was answered once, in commit order, to the session that
\* issued it (ST_FINISH_COMMIT), and applied at the leader to the key it names, provided that the
\* clients keep no more writes outstanding than either memory has slots.
THEOREM CommittedAnswered ==
  ASSUME Window <= SessSlots, Window <= LogSlots
  PROVE  Spec => []CommittedIsAnswered
<1>1. Init => CommittedIsAnswered
  BY NodesAndPeers DEF Init, CommittedIsAnswered
<1>2. ASSUME TypeOK, CommittedIsAnswered, OrderInv, CommitInv,
             myZxid'[Leader] = myZxid[Leader], replies' = replies,
             flips'[Leader] = flips[Leader],
             \A z \in 1..proposedZxid : written'[z] = written[z]
      PROVE  CommittedIsAnswered'
  <2>1. \A z \in 1..myZxid[Leader] : z \in 1..proposedZxid
    BY <1>2, Numbers, NodesAndPeers DEF CommitInv, LeaderOrder
  <2> QED
    BY <1>2, <2>1 DEF CommittedIsAnswered
<1>3. ASSUME TypeOK, TypeOK', CommitInv, OrderInv, LogHolds, SessionsHeld, CommittedIsAnswered,
             NEW p \in Peers, AckPropose(p)
      PROVE  CommittedIsAnswered'
  <2> DEFINE n == myZxid[Leader]
             z == n + 1
  <2>1. n \in Nat /\ proposedZxid \in Nat /\ Leader \in Nodes /\ written' = written
    BY <1>3, Numbers, NodesAndPeers, AckEffect
  <2>2. CASE UNCHANGED <<replies, flips, store>> /\ myZxid'[Leader] = n
    BY <1>2, <1>3, <2>1, <2>2
  <2>3. CASE /\ z \in 1..MaxZxid /\ z <= proposedZxid /\ z \in accepted[Leader]
             /\ myZxid'[Leader] = z /\ Flip(Leader, z)
             /\ replies' = Append(replies, [sess |-> written[z].sess, zxid |-> z])
    <3>1. LogFind(Leader, z) = written[z].key
      <4>1. z > LastLogged(Leader) - LogSlots
        BY <1>3, <2>1, SizeAssumption DEF OrderInv, Numbering, LastLogged
      <4> QED
        BY <1>3, <2>1, <2>3, <4>1 DEF LogHolds
    <3>2. flips'[Leader] = Append(flips[Leader], [zxid |-> z, key |-> written[z].key])
      BY <1>3, <2>1, <2>3, <3>1, FlipEffect
    <3>3. /\ replies \in Seq(Answers) /\ Len(replies) = n
          /\ replies = [i \in 1..n |-> [sess |-> written[i].sess, zxid |-> i]]
      <4>1. replies = [i \in 1..n |-> [sess |-> written[i].sess, zxid |-> i]]
        BY <1>3 DEF CommittedIsAnswered
      <4>2. DOMAIN replies = 1..n /\ replies \in Seq(Answers)
        BY <1>3, <4>1 DEF TypeOK
      <4> QED
        BY <2>1, <4>1, <4>2, LengthOf
    <3>4. /\ flips[Leader] \in Seq(FlipRecords) /\ Len(flips[Leader]) = n
          /\ flips[Leader] = [i \in 1..n |-> [zxid |-> i, key |-> written[i].key]]
      <4>1. flips[Leader] = [i \in 1..n |-> [zxid |-> i, key |-> written[i].key]]
        BY <1>3 DEF CommittedIsAnswered
      <4>2. DOMAIN flips[Leader] = 1..n /\ flips[Leader] \in Seq(FlipRecords)
        BY <1>3, <2>1, <4>1 DEF TypeOK
      <4> QED
        BY <2>1, <4>1, <4>2, LengthOf
    <3>5. replies' = [i \in 1..z |-> [sess |-> written[i].sess, zxid |-> i]]
      <4> DEFINE t == [i \in 1..(n + 1) |-> [sess |-> written[i].sess, zxid |-> i]]
      <4>1. /\ \A i \in 1..n : t[i] = replies[i]
            /\ t[n + 1] = [sess |-> written[z].sess, zxid |-> z]
        BY <2>1, <3>3
      <4> DEFINE e == [sess |-> written[z].sess, zxid |-> z]
      <4>2. t[n + 1] = e
        BY <4>1
      <4>3. t \in [1..(n + 1) -> {t[i] : i \in 1..(n + 1)}]
        OBVIOUS
      <4> DEFINE s == replies
                 T == {t[i] : i \in 1..(n + 1)}
      <4>5. s \in Seq(Answers) /\ Len(s) = n /\ n \in Nat
        BY <2>1, <3>3
      <4>6. t \in [1..(n + 1) -> T] /\ \A i \in 1..n : t[i] = s[i]
        BY <4>1, <4>3
      <4> HIDE DEF t, e, n, s, T
      <4>4. Append(s, e) = t
        BY <4>2, <4>5, <4>6, AppendEntry
      <4> QED
        BY <2>3, <4>4 DEF t, e, n, s
    <3>6. flips'[Leader] = [i \in 1..z |-> [zxid |-> i, key |-> written[i].key]]
      <4> DEFINE t == [i \in 1..(n + 1) |-> [zxid |-> i, key |-> written[i].key]]
      <4>1. /\ \A i \in 1..n : t[i] = flips[Leader][i]
            /\ t[n + 1] = [zxid |-> z, key |-> written[z].key]
        BY <2>1, <3>4
      <4> DEFINE e == [zxid |-> z, key |-> written[z].key]
      <4>2. t[n + 1] = e
        BY <4>1
      <4>3. t \in [1..(n + 1) -> {t[i] : i \in 1..(n + 1)}]
        OBVIOUS
      <4> DEFINE s == flips[Leader]
                 T == {t[i] : i \in 1..(n + 1)}
      <4>5. s \in Seq(FlipRecords) /\ Len(s) = n /\ n \in Nat
        BY <2>1, <3>4
      <4>6. t \in [1..(n + 1) -> T] /\ \A i \in 1..n : t[i] = s[i]
        BY <4>1, <4>3
      <4> HIDE DEF t, e, n, s, T
      <4>4. Append(s, e) = t
        BY <4>2, <4>5, <4>6, AppendEntry
      <4> QED
        BY <3>2, <4>4 DEF t, e, n, s
    <3> QED
      BY <2>1, <2>3, <3>5, <3>6 DEF CommittedIsAnswered
  <2> QED
    BY <1>3, <2>2, <2>3, CommitAnswers
<1>4. /\ TypeOK /\ TypeOK' /\ CommitInv /\ OrderInv /\ LogHolds /\ SessionsHeld
      /\ CommittedIsAnswered /\ [Next]_vars
      => CommittedIsAnswered'
  <2> SUFFICES ASSUME TypeOK, TypeOK', CommitInv, OrderInv, LogHolds, SessionsHeld,
                      CommittedIsAnswered, [Next]_vars
               PROVE  CommittedIsAnswered'
    OBVIOUS
  <2>1. ASSUME NEW k \in Keys, NEW s \in Sessions, WriteReq(k, s) PROVE CommittedIsAnswered'
    <3>1. /\ UNCHANGED <<myZxid, replies, flips>>
          /\ written' = Append(written, [key |-> k, sess |-> s])
      BY <2>1 DEF WriteReq
    <3>2. \A z \in 1..proposedZxid : written'[z] = written[z]
      BY <3>1, AppendElements DEF TypeOK, OrderInv, Numbering
    <3> QED
      BY <1>2, <3>1, <3>2
  <2>2. ASSUME NEW p \in Peers, Proposal(p) PROVE CommittedIsAnswered'
    <3>1. /\ UNCHANGED <<replies, flips, written>> /\ myZxid'[Leader] = myZxid[Leader]
      BY <2>2, NodesAndPeers DEF Proposal, TypeOK
    <3> QED
      BY <1>2, <3>1
  <2>3. ASSUME NEW p \in Peers, Commit(p) PROVE CommittedIsAnswered'
    <3>1. UNCHANGED <<myZxid, replies, written>>
      BY <2>3 DEF Commit
    <3>2. flips'[Leader] = flips[Leader]
      BY <2>3, NodesAndPeers DEF Commit, Flip, TypeOK
    <3> QED
      BY <1>2, <3>1, <3>2
  <2>4. ASSUME NEW p \in Peers, DropAtFollower(p) \/ DropAtLeader(p) PROVE CommittedIsAnswered'
    <3>1. UNCHANGED <<myZxid, replies, flips, written>>
      BY <2>4 DEF DropAtFollower, DropAtLeader, history
    <3> QED
      BY <1>2, <3>1
  <2>5. CASE UNCHANGED vars
    <3>1. UNCHANGED <<myZxid, replies, flips, written>>
      BY <2>5 DEF vars, history
    <3> QED
      BY <1>2, <3>1
  <2> QED
    BY <1>3, <2>1, <2>2, <2>3, <2>4, <2>5 DEF Next
<1> QED
  BY <1>1, <1>4, TypeCorrect, CommitInvariant, OrderInvariant, LogInvariant, SessionInvariant,
     PTL DEF Spec

-----------------------------------------------------------------------------
(* The implementation of AtomicBroadcast. *)

\* What the refinement takes for the positions delivered at a node.
Delivered(n) == [i \in 1..Len(flips[n]) |-> flips[n][i].zxid]

\* The last position delivered is the zxid flipped last.
LEMMA LastDelivered ==
  ASSUME TypeOK, NEW n \in Nodes
  PROVE  Delivered(n) \in Seq(Nat) /\ Broadcast!LastOf(Delivered(n)) = LastFlip(n)
<1>1. flips[n] \in Seq(FlipRecords) /\ Len(flips[n]) \in Nat
  BY DEF TypeOK
<1>2. ASSUME NEW i \in 1..Len(flips[n]) PROVE flips[n][i].zxid \in Nat
  <2>1. flips[n][i] \in FlipRecords
    BY <1>1
  <2> QED
    BY <2>1, SizeAssumption DEF FlipRecords
<1>3. Delivered(n) \in Seq(Nat) /\ Len(Delivered(n)) = Len(flips[n])
  BY <1>1, <1>2 DEF Delivered
<1>4. CASE flips[n] = <<>>
  <2>1. Delivered(n) = <<>>
    BY <1>3, <1>4
  <2> QED
    BY <1>3, <1>4, <2>1 DEF Broadcast!LastOf, LastFlip
<1>5. CASE flips[n] # <<>>
  <2>1. Len(flips[n]) \in 1..Len(flips[n]) /\ Delivered(n) # <<>>
    BY <1>1, <1>3, <1>5
  <2>2. Delivered(n)[Len(flips[n])] = LastFlip(n)
    BY <1>5, <2>1 DEF Delivered, LastFlip
  <2> QED
    BY <1>3, <2>1, <2>2 DEF Broadcast!LastOf
<1> QED
  BY <1>4, <1>5

\* A flip delivers one more position at its node.
LEMMA FlipDelivers ==
  ASSUME TypeOK, TypeOK', NEW n \in Nodes, NEW z \in 1..MaxZxid, Flip(n, z)
  PROVE  /\ Delivered(n)' = Append(Delivered(n), z)
         /\ \A q \in Nodes : q # n => Delivered(q)' = Delivered(q)
<1>1. \A q \in Nodes : q # n => Delivered(q)' = Delivered(q)
  BY FlipEffect DEF Delivered
<1> DEFINE len == Len(flips[n])
           t == Delivered(n)'
<1>2. /\ Len(flips'[n]) = len + 1 /\ flips'[n][len + 1].zxid = z
      /\ \A i \in 1..len : flips'[n][i] = flips[n][i]
  <2>1. /\ Len(flips'[n]) = len + 1
        /\ flips'[n][Len(flips'[n])] = [zxid |-> z, key |-> LogFind(n, z)]
        /\ \A i \in 1..len : flips'[n][i] = flips[n][i]
    BY FlipEffect
  <2> HIDE DEF len
  <2> QED
    BY <2>1
<1>3. len \in Nat /\ Delivered(n) \in Seq(Nat) /\ Len(Delivered(n)) = len
  <2>1. flips[n] \in Seq(FlipRecords) /\ len \in Nat
    BY DEF TypeOK
  <2>2. Delivered(n) \in Seq(Nat)
    BY LastDelivered
  <2>3. DOMAIN Delivered(n) = 1..len
    BY DEF Delivered
  <2> QED
    BY <2>1, <2>2, <2>3, LengthOf
<1>4. /\ t \in [1..(len + 1) -> {t[i] : i \in 1..(len + 1)}]
      /\ t[len + 1] = z
      /\ \A i \in 1..len : t[i] = Delivered(n)[i]
  BY <1>2, <1>3 DEF Delivered
<1> HIDE DEF t, len
<1>5. Append(Delivered(n), z) = t
  BY <1>3, <1>4, AppendEntry
<1> QED
  BY <1>1, <1>5 DEF t

\* The initial states are those of AtomicBroadcast.
LEMMA InitBroadcast == Init => Broadcast!Init
BY NodesAndPeers DEF Init, Broadcast!Init

\* Steps that write nothing, commit nothing and flip nothing are invisible.
LEMMA InvisibleSteps ==
  ASSUME UNCHANGED <<written, flips>>, myZxid'[Leader] = myZxid[Leader]
  PROVE  UNCHANGED Broadcast!vars
BY DEF Broadcast!vars

\* A write request broadcasts the write.
LEMMA WriteReqBroadcasts ==
  ASSUME NEW k \in Keys, NEW s \in Sessions, WriteReq(k, s)
  PROVE  Broadcast!Broadcast
<1>1. [key |-> k, sess |-> s] \in Writes
  BY DEF Writes
<1> QED
  BY <1>1 DEF WriteReq, Broadcast!Broadcast

\* The commit of a write at the leader delivers it there.
LEMMA CommitsNext ==
  ASSUME TypeOK, TypeOK', OrderInv, written' = written,
         LET z == myZxid[Leader] + 1 IN
         /\ z \in 1..MaxZxid /\ z <= proposedZxid
         /\ myZxid'[Leader] = z /\ Flip(Leader, z)
  PROVE  Broadcast!Commit
<1> DEFINE z == myZxid[Leader] + 1
<1>1. /\ Leader \in Nodes /\ myZxid[Leader] \in Nat /\ proposedZxid \in Nat
      /\ Len(written) = proposedZxid
  BY Numbers, NodesAndPeers DEF OrderInv, Numbering
<1>2. /\ Delivered(Leader)' = Append(Delivered(Leader), z)
      /\ \A q \in Nodes : q # Leader => Delivered(q)' = Delivered(q)
  BY <1>1, FlipDelivers
<1>3. [n \in Nodes |-> Delivered(n)'] =
        [[n \in Nodes |-> Delivered(n)] EXCEPT ![Leader] = Append(@, z)]
  BY <1>1, <1>2
<1>4. myZxid[Leader] < Len(written)
  BY <1>1
<1> QED
  BY <1>3, <1>4 DEF Delivered, Broadcast!Commit

\* A flip at a follower delivers a committed write above those delivered before.
LEMMA FollowerDelivers ==
  ASSUME TypeOK, TypeOK', CommitInv, OrderInv, NEW p \in Peers, Commit(p), flips' # flips
  PROVE  Broadcast!Deliver(p)
<1> DEFINE z == Head(down[p]).zxid
<1>1. /\ down[p] # <<>> /\ Head(down[p]).type = "COMMIT" /\ Flip(p, z)
      /\ myZxid' = myZxid /\ written' = written
  BY DEF Commit
<1>2. z \in 1..MaxZxid /\ LastFlip(p) < z /\ z <= peerZxidCmt[p]
  BY <1>1, TakeDown
<1> HIDE DEF z
<1>3. p \in Nodes /\ p # Leader /\ peerZxidCmt[p] <= myZxid[Leader]
  BY NodesAndPeers, Numbers DEF CommitInv, PeerBookkeeping, Least
<1>4. z \in (LastFlip(p) + 1)..myZxid[Leader]
  BY <1>2, <1>3, Numbers, NodesAndPeers
<1>5. /\ Delivered(p)' = Append(Delivered(p), z)
      /\ \A q \in Nodes : q # p => Delivered(q)' = Delivered(q)
  BY <1>1, <1>2, <1>3, FlipDelivers
<1>6. [n \in Nodes |-> Delivered(n)'] =
        [[n \in Nodes |-> Delivered(n)] EXCEPT ![p] = Append(@, z)]
  BY <1>3, <1>5
<1>7. z \in (Broadcast!LastOf([n \in Nodes |-> Delivered(n)][p]) + 1)..myZxid[Leader]
  BY <1>3, <1>4, LastDelivered
<1> QED
  BY <1>1, <1>3, <1>6, <1>7 DEF Delivered, Broadcast!Deliver

\* The replication implements AtomicBroadcast: the leader's numbering is the one
\* order of the writes, a commit at the leader (ST_CHKQRM_ACKS) commits and delivers the next of
\* them, and a COMMIT handled by a follower delivers a committed one, always a
\* later one than before; whatever was thrown away.
THEOREM BroadcastImplemented ==
  ASSUME Window <= SessSlots
  PROVE  Spec => ImplementsBroadcast
<1>1. TypeOK /\ TypeOK' /\ CommitInv /\ OrderInv /\ SessionsHeld /\ [Next]_vars
        => [Broadcast!Next]_Broadcast!vars
  <2> SUFFICES ASSUME TypeOK, TypeOK', CommitInv, OrderInv, SessionsHeld, [Next]_vars
               PROVE  Broadcast!Next \/ UNCHANGED Broadcast!vars
    OBVIOUS
  <2>1. ASSUME NEW k \in Keys, NEW s \in Sessions, WriteReq(k, s)
        PROVE  Broadcast!Next
    BY <2>1, WriteReqBroadcasts DEF Broadcast!Next
  <2>2. ASSUME NEW p \in Peers, AckPropose(p)
        PROVE  Broadcast!Next \/ UNCHANGED Broadcast!vars
    <3>1. written' = written
      BY <2>2, AckEffect
    <3>2. CASE UNCHANGED <<replies, flips, store>> /\ myZxid'[Leader] = myZxid[Leader]
      BY <3>1, <3>2, InvisibleSteps
    <3>3. CASE ~(UNCHANGED <<replies, flips, store>> /\ myZxid'[Leader] = myZxid[Leader])
      BY <2>2, <3>1, <3>3, CommitAnswers, CommitsNext DEF Broadcast!Next
    <3> QED
      BY <3>2, <3>3
  <2>3. ASSUME NEW p \in Peers, Proposal(p)
        PROVE  UNCHANGED Broadcast!vars
    <3>1. UNCHANGED <<written, flips>> /\ myZxid'[Leader] = myZxid[Leader]
      BY <2>3, NodesAndPeers DEF Proposal, TypeOK
    <3> QED
      BY <3>1, InvisibleSteps
  <2>4. ASSUME NEW p \in Peers, Commit(p)
        PROVE  Broadcast!Next \/ UNCHANGED Broadcast!vars
    <3>1. CASE flips' = flips
      <4>1. UNCHANGED <<myZxid, written>>
        BY <2>4 DEF Commit
      <4> QED
        BY <3>1, <4>1, InvisibleSteps
    <3>2. CASE flips' # flips
      <4>1. Broadcast!Deliver(p) /\ p \in Nodes
        BY <2>4, <3>2, FollowerDelivers, NodesAndPeers
      <4> QED
        BY <4>1 DEF Broadcast!Next
    <3> QED
      BY <3>1, <3>2
  <2>5. ASSUME NEW p \in Peers, DropAtFollower(p) \/ DropAtLeader(p)
        PROVE  UNCHANGED Broadcast!vars
    <3>1. UNCHANGED <<myZxid, written, flips>>
      BY <2>5 DEF DropAtFollower, DropAtLeader, history
    <3> QED
      BY <3>1, InvisibleSteps
  <2>6. CASE UNCHANGED vars
    <3>1. UNCHANGED <<myZxid, written, flips>>
      BY <2>6 DEF vars, history
    <3> QED
      BY <3>1, InvisibleSteps
  <2> QED
    BY <2>1, <2>2, <2>3, <2>4, <2>5, <2>6 DEF Next
<1> QED
  BY InitBroadcast, <1>1, TypeCorrect, CommitInvariant, OrderInvariant, SessionInvariant,
     PTL DEF Spec, ImplementsBroadcast, Broadcast!Spec

-----------------------------------------------------------------------------
(* What followers apply and what stores hold: the inductive invariants. *)

\* None of lo + 1 .. hi is missing.
NoneMissing(s, type, lo, hi) ==
  \A z \in (lo + 1)..hi : \E i \in 1..Len(s) : s[i].type = type /\ s[i].zxid = z

\* Without losses no proposal, acknowledgement or COMMIT is missing on its way.
NothingLostAt(p) ==
  /\ NoneMissing(down[p], "PROPOSAL", myZxid[p], proposedZxid)
  /\ Len(up[p]) = myZxid[p] - peerZxidAck[p]
  /\ \A i \in 1..Len(up[p]) : up[p][i] = peerZxidAck[p] + i
  /\ \A i \in 1..Len(flips[p]) : flips[p][i].zxid = i
  /\ NoneMissing(down[p], "COMMIT", Len(flips[p]), peerZxidCmt[p])
Lossless == drops = 0 => \A p \in Peers : NothingLostAt(p)

\* The last write of a key among the first n of w, 0 if none.
Last(ws) == IF ws = {} THEN 0 ELSE CHOOSE z \in ws : \A y \in ws : y <= z
LastIn(w, k, n) == Last({z \in 1..n : w[z].key = k})

\* A prepared value is that of the last write logged for the key, not flipped
\* yet; without one, the current value is that of the last write logged.
EntryFollowsLog(n, k) ==
  LET e    == store[n][k]
      last == LastIn(written, k, LastLogged(n)) IN
  \/ e.next = 0 /\ e.cur = last
  \/ /\ e.next = last /\ written[e.next].key = k
     /\ Len(flips[n]) < e.next /\ e.next <= LastLogged(n)
EntriesFollowLog ==
  drops = 0 /\ proposedZxid <= LogSlots =>
    \A n \in Nodes, k \in Keys : EntryFollowsLog(n, k)

\* The leader flips a key for each write it commits.
LeaderFlipsAll == Len(flips[Leader]) = myZxid[Leader]

\* A key with one outstanding write at a time has no other prepared value.
OneOutstanding ==
  \A k \in ExclusiveKeys :
    LET e == store[Leader][k] IN
    /\ e.cur = LastIn(written, k, myZxid[Leader])
    /\ \A z \in (myZxid[Leader] + 1)..proposedZxid : written[z].key = k => e.next = z
    /\ e.next # 0 => /\ e.next \in (myZxid[Leader] + 1)..proposedZxid
                     /\ written[e.next].key = k

-----------------------------------------------------------------------------
(* Without losses. *)

\* What is missing when a message is taken off.
LEMMA NoneMissingTail ==
  ASSUME NEW s \in Seq(Messages), s # <<>>, NEW type, NEW lo \in Nat, NEW hi \in Nat,
         Rising(s, type, lo, hi), NoneMissing(s, type, lo, hi)
  PROVE  /\ Head(s).type # type => NoneMissing(Tail(s), type, lo, hi)
         /\ Head(s).type = type =>
              Head(s).zxid = lo + 1 /\ NoneMissing(Tail(s), type, lo + 1, hi)
<1>1. /\ Len(s) \in Nat /\ Len(s) >= 1 /\ Len(Tail(s)) = Len(s) - 1 /\ Head(s) = s[1]
      /\ \A i \in 1..Len(Tail(s)) : Tail(s)[i] = s[i + 1] /\ i + 1 \in 1..Len(s)
  BY TailElements
<1>2. \A i \in 1..Len(s) : s[i].zxid \in Nat
  BY MessageZxid
<1>3. ASSUME NEW z \in (lo + 1)..hi, ~(s[1].type = type /\ s[1].zxid = z)
      PROVE  \E i \in 1..Len(Tail(s)) : Tail(s)[i].type = type /\ Tail(s)[i].zxid = z
  <2>1. PICK j \in 1..Len(s) : s[j].type = type /\ s[j].zxid = z
    BY DEF NoneMissing
  <2>2. j # 1 /\ j - 1 \in 1..Len(Tail(s)) /\ Tail(s)[j - 1] = s[j]
    BY <1>1, <1>3, <2>1
  <2> QED
    BY <2>1, <2>2
<1>4. ASSUME s[1].type = type PROVE s[1].zxid = lo + 1
  <2>1. lo < s[1].zxid /\ s[1].zxid <= hi
    BY <1>1, <1>4 DEF Rising
  <2>2. PICK j \in 1..Len(s) : s[j].type = type /\ s[j].zxid = lo + 1
    BY <1>1, <1>2, <2>1 DEF NoneMissing
  <2>3. s[1].zxid <= s[j].zxid
    BY <1>1, <1>2, <1>4, <2>2 DEF Rising
  <2> QED
    BY <1>1, <1>2, <2>1, <2>2, <2>3
<1>5. ASSUME s[1].type # type PROVE NoneMissing(Tail(s), type, lo, hi)
  BY <1>3, <1>5 DEF NoneMissing
<1>6. ASSUME s[1].type = type PROVE NoneMissing(Tail(s), type, lo + 1, hi)
  <2>1. \A z \in ((lo + 1) + 1)..hi : z \in (lo + 1)..hi /\ s[1].zxid # z
    BY <1>4, <1>6
  <2> QED
    BY <1>3, <2>1 DEF NoneMissing
<1> QED
  BY <1>1, <1>4, <1>5, <1>6

\* What is missing when a message is added.
LEMMA NoneMissingAppend ==
  ASSUME NEW s \in Seq(Messages), NEW m \in Messages, NEW type, NEW lo \in Nat, NEW hi \in Nat,
         NoneMissing(s, type, lo, hi)
  PROVE  /\ NoneMissing(Append(s, m), type, lo, hi)
         /\ m.type = type /\ m.zxid = hi + 1 => NoneMissing(Append(s, m), type, lo, hi + 1)
<1> DEFINE t == Append(s, m)
<1>1. /\ Len(s) \in Nat /\ Len(t) = Len(s) + 1 /\ t[Len(s) + 1] = m
      /\ \A i \in 1..Len(s) : t[i] = s[i]
  BY AppendElements
<1> HIDE DEF t
<1>2. ASSUME NEW z \in (lo + 1)..hi
      PROVE  \E i \in 1..Len(t) : t[i].type = type /\ t[i].zxid = z
  <2>1. PICK i \in 1..Len(s) : s[i].type = type /\ s[i].zxid = z
    BY DEF NoneMissing
  <2> QED
    BY <1>1, <2>1
<1>3. ASSUME m.type = type, m.zxid = hi + 1
      PROVE  \E i \in 1..Len(t) : t[i].type = type /\ t[i].zxid = hi + 1
  BY <1>1, <1>3
<1>4. \A z \in (lo + 1)..(hi + 1) : z \in (lo + 1)..hi \/ z = hi + 1
  OBVIOUS
<1> QED
  BY <1>2, <1>3, <1>4 DEF NoneMissing, t

\* Without losses the zxid flipped last is the number of flips.
LEMMA LastFlipIsCount ==
  ASSUME TypeOK, NEW p \in Peers, \A i \in 1..Len(flips[p]) : flips[p][i].zxid = i
  PROVE  LastFlip(p) = Len(flips[p]) /\ Len(flips[p]) \in Nat
<1>1. flips[p] \in Seq(FlipRecords) /\ Len(flips[p]) \in Nat
  BY NodesAndPeers DEF TypeOK
<1>2. CASE flips[p] = <<>>
  BY <1>2 DEF LastFlip
<1>3. CASE flips[p] # <<>>
  <2>1. Len(flips[p]) \in 1..Len(flips[p])
    BY <1>1, <1>3
  <2> QED
    BY <1>1, <1>3, <2>1 DEF LastFlip
<1> QED
  BY <1>2, <1>3

\* A write request is on its way to every follower.
LEMMA WriteReqLossless ==
  ASSUME TypeOK, OrderInv, NEW k \in Keys, NEW s \in Sessions, WriteReq(k, s),
         NEW p \in Peers, NothingLostAt(p)
  PROVE  NothingLostAt(p)'
<1> DEFINE z == proposedZxid + 1
           m == ProposalMsg(z, k)
<1>1. /\ proposedZxid' = z /\ down'[p] = Append(down[p], m)
      /\ UNCHANGED <<myZxid, peerZxidAck, peerZxidCmt, up, flips>>
  BY DEF WriteReq
<1>2. z <= MaxZxid
  BY SizeAssumption DEF WriteReq, ClientMaySend, TypeOK, Zxid
<1>3. /\ proposedZxid \in Nat /\ myZxid[p] \in Nat /\ peerZxidCmt[p] \in Nat
      /\ down[p] \in Seq(Messages) /\ Len(flips[p]) \in Nat
  BY Numbers, NodesAndPeers, LastFlipIsCount DEF NothingLostAt
<1>4. m \in Messages /\ m.type = "PROPOSAL" /\ m.zxid = proposedZxid + 1
  BY <1>2, <1>3 DEF ProposalMsg, Messages
<1> HIDE DEF m
<1>5. NoneMissing(Append(down[p], m), "PROPOSAL", myZxid[p], z)
  BY <1>3, <1>4, NoneMissingAppend DEF NothingLostAt
<1>6. NoneMissing(Append(down[p], m), "COMMIT", Len(flips[p]), peerZxidCmt[p])
  BY <1>3, <1>4, NoneMissingAppend DEF NothingLostAt
<1> QED
  BY <1>1, <1>5, <1>6 DEF NothingLostAt

\* The acknowledgements arrive one by one, each in order.
LEMMA AckProposeLossless ==
  ASSUME TypeOK, CommitInv, OrderInv, NEW p \in Peers, AckPropose(p),
         NEW q \in Peers, NothingLostAt(q)
  PROVE  NothingLostAt(q)'
<1> DEFINE z == Head(up[p])
<1>1. /\ up[p] # <<>> /\ z \in 1..MaxZxid /\ up' = [up EXCEPT ![p] = Tail(@)]
      /\ UNCHANGED proposedZxid
      /\ IF InOrderAck(p, z) THEN peerZxidAck' = [peerZxidAck EXCEPT ![p] = z]
                             ELSE UNCHANGED peerZxidAck
  BY AckEffect
<1>2. /\ myZxid'[q] = myZxid[q] /\ flips'[q] = flips[q]
      /\ \/ peerZxidCmt'[q] = peerZxidCmt[q] /\ down'[q] = down[q]
         \/ /\ peerZxidCmt'[q] = peerZxidCmt[q] + 1
            /\ peerZxidCmt'[q] \in 1..MaxZxid
            /\ down'[q] = Append(down[q], CommitMsg(peerZxidCmt'[q]))
  BY AckAtPeers
<1>3. /\ proposedZxid \in Nat /\ myZxid[q] \in Nat /\ peerZxidCmt[q] \in Nat
      /\ peerZxidAck[q] \in Nat /\ down[q] \in Seq(Messages) /\ up[q] \in Seq(1..MaxZxid)
      /\ Len(flips[q]) \in Nat /\ myZxid[q] <= proposedZxid
  BY Numbers, NodesAndPeers, LastFlipIsCount DEF NothingLostAt, OrderInv, ProposalOrder
<1>4. /\ NoneMissing(down'[q], "PROPOSAL", myZxid[q], proposedZxid)
      /\ NoneMissing(down'[q], "COMMIT", Len(flips[q]), peerZxidCmt'[q])
  <2>1. CASE peerZxidCmt'[q] = peerZxidCmt[q] /\ down'[q] = down[q]
    BY <2>1 DEF NothingLostAt
  <2>2. CASE /\ peerZxidCmt'[q] = peerZxidCmt[q] + 1
             /\ peerZxidCmt'[q] \in 1..MaxZxid
             /\ down'[q] = Append(down[q], CommitMsg(peerZxidCmt'[q]))
    <3> DEFINE m == CommitMsg(peerZxidCmt'[q])
    <3>1. m \in Messages /\ m.type = "COMMIT" /\ m.zxid = peerZxidCmt[q] + 1
      BY <2>2 DEF CommitMsg, Messages
    <3> HIDE DEF m
    <3>2. /\ NoneMissing(Append(down[q], m), "PROPOSAL", myZxid[q], proposedZxid)
          /\ NoneMissing(Append(down[q], m), "COMMIT", Len(flips[q]), peerZxidCmt[q] + 1)
      BY <1>3, <3>1, NoneMissingAppend DEF NothingLostAt
    <3> QED
      BY <2>2, <3>2 DEF m
  <2> QED
    BY <1>2, <2>1, <2>2
<1>5. /\ Len(up'[q]) = myZxid[q] - peerZxidAck'[q]
      /\ \A i \in 1..Len(up'[q]) : up'[q][i] = peerZxidAck'[q] + i
  <2>1. CASE q # p
    <3>1. up'[q] = up[q] /\ peerZxidAck'[q] = peerZxidAck[q]
      BY <1>1, <2>1 DEF TypeOK
    <3> QED
      BY <3>1 DEF NothingLostAt
  <2>2. CASE q = p
    <3>1. /\ Len(up[q]) \in Nat /\ Len(up[q]) >= 1 /\ z = up[q][1]
          /\ Len(Tail(up[q])) = Len(up[q]) - 1
          /\ \A i \in 1..Len(Tail(up[q])) : /\ Tail(up[q])[i] = up[q][i + 1]
                                            /\ i + 1 \in 1..Len(up[q])
      BY <1>1, <1>3, <2>2, TailElements
    <3>2. /\ Len(up[q]) = myZxid[q] - peerZxidAck[q]
          /\ \A i \in 1..Len(up[q]) : up[q][i] = peerZxidAck[q] + i
      BY DEF NothingLostAt
    <3>3. z = peerZxidAck[q] + 1
      BY <3>1, <3>2
    <3>4. InOrderAck(p, z)
      BY <1>3, <2>2, <3>1, <3>2, <3>3 DEF InOrderAck
    <3>5. up'[q] = Tail(up[q]) /\ peerZxidAck'[q] = z
      BY <1>1, <2>2, <3>4 DEF TypeOK
    <3> HIDE DEF z
    <3>6. Len(Tail(up[q])) = myZxid[q] - z
      BY <1>3, <3>1, <3>2, <3>3
    <3>7. ASSUME NEW i \in 1..Len(Tail(up[q])) PROVE Tail(up[q])[i] = z + i
      <4>1. Tail(up[q])[i] = peerZxidAck[q] + (i + 1)
        BY <3>1, <3>2
      <4>2. i \in Int /\ peerZxidAck[q] \in Int
        BY <1>3
      <4> QED
        BY <3>3, <4>1, <4>2
    <3> QED
      BY <3>5, <3>6, <3>7
  <2> QED
    BY <2>1, <2>2
<1> QED
  BY <1>1, <1>2, <1>4, <1>5 DEF NothingLostAt

\* A follower accepts the proposals one by one.
LEMMA ProposalLossless ==
  ASSUME TypeOK, OrderInv, NEW p \in Peers, Proposal(p), NEW q \in Peers, NothingLostAt(q)
  PROVE  NothingLostAt(q)'
<1> DEFINE m == Head(down[p])
           d == Tail(down[p])
<1>1. /\ down[p] # <<>> /\ m.type = "PROPOSAL"
      /\ down' = [down EXCEPT ![p] = d]
      /\ up' = [up EXCEPT ![p] = Append(@, m.zxid)]
      /\ myZxid' = [myZxid EXCEPT ![p] = m.zxid]
      /\ UNCHANGED <<proposedZxid, peerZxidAck, peerZxidCmt, flips>>
  BY DEF Proposal, leaderVars
<1>2. CASE q # p
  <2>1. down'[q] = down[q] /\ up'[q] = up[q] /\ myZxid'[q] = myZxid[q]
    BY <1>1, <1>2, NodesAndPeers DEF TypeOK
  <2> QED
    BY <1>1, <2>1 DEF NothingLostAt
<1>3. CASE q = p
  <2>1. /\ proposedZxid \in Nat /\ myZxid[p] \in Nat /\ peerZxidCmt[p] \in Nat
        /\ peerZxidAck[p] \in Nat /\ down[p] \in Seq(Messages) /\ up[p] \in Seq(1..MaxZxid)
        /\ Len(flips[p]) \in Nat /\ LastFlip(p) = Len(flips[p])
        /\ Rising(down[p], "PROPOSAL", myZxid[p], proposedZxid)
        /\ Rising(down[p], "COMMIT", LastFlip(p), peerZxidCmt[p])
    BY <1>3, Numbers, NodesAndPeers, LastFlipIsCount
       DEF NothingLostAt, OrderInv, ProposalOrder, CommitOrder
  <2>2. m.zxid = myZxid[p] + 1 /\ NoneMissing(d, "PROPOSAL", myZxid[p] + 1, proposedZxid)
    BY <1>1, <1>3, <2>1, NoneMissingTail DEF NothingLostAt
  <2>3. NoneMissing(d, "COMMIT", Len(flips[p]), peerZxidCmt[p])
    <3>1. m.type # "COMMIT"
      BY <1>1
    <3> QED
      BY <1>1, <1>3, <2>1, <3>1, NoneMissingTail DEF NothingLostAt
  <2> HIDE DEF m, d
  <2>4. down'[p] = d /\ up'[p] = Append(up[p], myZxid[p] + 1) /\ myZxid'[p] = myZxid[p] + 1
    BY <1>1, <2>2, NodesAndPeers DEF TypeOK
  <2>5. /\ Len(up[p]) = myZxid[p] - peerZxidAck[p]
        /\ \A i \in 1..Len(up[p]) : up[p][i] = peerZxidAck[p] + i
    BY <1>3 DEF NothingLostAt
  <2>6. /\ Len(up[p]) \in Nat /\ Len(up'[p]) = Len(up[p]) + 1
        /\ \A i \in 1..Len(up[p]) : up'[p][i] = up[p][i]
        /\ up'[p][Len(up[p]) + 1] = myZxid[p] + 1
    BY <2>1, <2>4, AppendElements
  <2>7. Len(up'[p]) = myZxid'[p] - peerZxidAck[p]
    BY <2>1, <2>4, <2>5, <2>6
  <2>8. ASSUME NEW i \in 1..Len(up'[p]) PROVE up'[p][i] = peerZxidAck[p] + i
    <3>1. CASE i \in 1..Len(up[p])
      BY <2>5, <2>6, <3>1
    <3>2. CASE i = Len(up[p]) + 1
      <4>1. up'[p][i] = myZxid[p] + 1
        BY <2>6, <3>2
      <4> QED
        BY <2>1, <2>5, <3>2, <4>1
    <3> QED
      BY <2>6, <3>1, <3>2
  <2> QED
    BY <1>1, <1>3, <2>2, <2>3, <2>4, <2>7, <2>8 DEF NothingLostAt
<1> QED
  BY <1>2, <1>3

\* A follower flips the committed writes one by one.
LEMMA CommitLossless ==
  ASSUME TypeOK, CommitInv, OrderInv, NEW p \in Peers, Commit(p),
         NEW q \in Peers, NothingLostAt(q)
  PROVE  NothingLostAt(q)' /\ (q = p => Flip(p, Len(flips[p]) + 1))
<1> DEFINE m == Head(down[p])
           d == Tail(down[p])
<1>1. /\ down[p] # <<>> /\ m.type = "COMMIT"
      /\ down' = [down EXCEPT ![p] = d]
      /\ IF m.zxid <= myZxid[p] THEN Flip(p, m.zxid) ELSE UNCHANGED <<store, flips>>
      /\ UNCHANGED <<myZxid, proposedZxid, peerZxidAck, peerZxidCmt, up>>
  BY DEF Commit, leaderVars
<1>2. CASE q # p
  <2>1. down'[q] = down[q] /\ flips'[q] = flips[q]
    BY <1>1, <1>2, NodesAndPeers DEF TypeOK, Flip
  <2> QED
    BY <1>1, <1>2, <2>1 DEF NothingLostAt
<1>3. CASE q = p
  <2>1. /\ proposedZxid \in Nat /\ myZxid[p] \in Nat /\ peerZxidCmt[p] \in Nat
        /\ down[p] \in Seq(Messages) /\ p \in Nodes
        /\ Len(flips[p]) \in Nat /\ LastFlip(p) = Len(flips[p])
        /\ Rising(down[p], "PROPOSAL", myZxid[p], proposedZxid)
        /\ Rising(down[p], "COMMIT", LastFlip(p), peerZxidCmt[p])
    BY <1>3, Numbers, NodesAndPeers, LastFlipIsCount
       DEF NothingLostAt, OrderInv, ProposalOrder, CommitOrder
  <2>2. m.zxid = Len(flips[p]) + 1 /\ NoneMissing(d, "COMMIT", Len(flips[p]) + 1, peerZxidCmt[p])
    BY <1>1, <1>3, <2>1, NoneMissingTail DEF NothingLostAt
  <2>3. NoneMissing(d, "PROPOSAL", myZxid[p], proposedZxid)
    <3>1. m.type # "PROPOSAL"
      BY <1>1
    <3> QED
      BY <1>1, <1>3, <2>1, <3>1, NoneMissingTail DEF NothingLostAt
  <2>4. m.zxid \in 1..MaxZxid /\ m.zxid <= myZxid[p]
    <3>1. m = down[p][1] /\ 1 \in 1..Len(down[p]) /\ m.zxid \in 1..MaxZxid
      BY <1>1, <2>1, TailElements, MessageZxid
    <3>2. m.zxid \in accepted[p]
      BY <1>1, <3>1 DEF CommitInv, CommitsAreForAccepted
    <3>3. m.zxid \in 1..myZxid[p]
      BY <2>1, <3>2, NodesAndPeers DEF OrderInv, Numbering, LastLogged
    <3> QED
      BY <3>1, <3>3
  <2> HIDE DEF m, d
  <2>5. Flip(p, Len(flips[p]) + 1) /\ down'[p] = d
    BY <1>1, <2>2, <2>4 DEF TypeOK
  <2>6. /\ Len(flips'[p]) = Len(flips[p]) + 1
        /\ flips'[p][Len(flips[p]) + 1].zxid = Len(flips[p]) + 1
        /\ \A i \in 1..Len(flips[p]) : flips'[p][i] = flips[p][i]
    <3> DEFINE z == Len(flips[p]) + 1
    <3>1. /\ Len(flips'[p]) = Len(flips[p]) + 1
          /\ flips'[p][Len(flips'[p])] = [zxid |-> z, key |-> LogFind(p, z)]
          /\ \A i \in 1..Len(flips[p]) : flips'[p][i] = flips[p][i]
      BY <2>1, <2>2, <2>4, <2>5, FlipEffect
    <3> QED
      BY <3>1
  <2>7. \A i \in 1..Len(flips'[p]) : flips'[p][i].zxid = i
    <3>1. \A i \in 1..Len(flips'[p]) : i \in 1..Len(flips[p]) \/ i = Len(flips[p]) + 1
      BY <2>1, <2>6
    <3> QED
      BY <1>3, <2>6, <3>1 DEF NothingLostAt
  <2> QED
    BY <1>1, <1>3, <2>2, <2>3, <2>5, <2>6, <2>7 DEF NothingLostAt
<1> QED
  BY <1>2, <1>3

\* Nothing is missing on its way as long as nothing was thrown away: each PROPOSAL
\* is on its way, logged or acknowledged, each COMMIT on its way or applied.
THEOREM LosslessInvariant == Spec => []Lossless
<1>1. Init => Lossless
  BY NodesAndPeers DEF Init, Lossless, NothingLostAt, NoneMissing
<1>2. TypeOK /\ TypeOK' /\ CommitInv /\ OrderInv /\ Lossless /\ [Next]_vars => Lossless'
  <2> SUFFICES ASSUME TypeOK, TypeOK', CommitInv, OrderInv, Lossless, [Next]_vars, drops' = 0,
                      NEW q \in Peers
               PROVE  NothingLostAt(q)'
    BY DEF Lossless
  <2>1. drops = 0 /\ ~(\E p \in Peers : DropAtFollower(p) \/ DropAtLeader(p))
    <3>1. drops \in Nat
      BY Numbers
    <3>2. ~(\E p \in Peers : DropAtFollower(p) \/ DropAtLeader(p))
      BY <3>1 DEF DropAtFollower, DropAtLeader
    <3>3. drops' = drops
      BY <3>2 DEF Next, WriteReq, AckPropose, Proposal, Commit, vars
    <3> QED
      BY <3>2, <3>3
  <2>2. NothingLostAt(q)
    BY <2>1 DEF Lossless
  <2>3. CASE UNCHANGED vars
    BY <2>2, <2>3 DEF NothingLostAt, vars, leaderVars, history
  <2> QED
    BY <2>1, <2>2, <2>3, WriteReqLossless, AckProposeLossless, ProposalLossless, CommitLossless
       DEF Next
<1> QED
  BY <1>1, <1>2, TypeCorrect, CommitInvariant, OrderInvariant, PTL DEF Spec

\* Without losses a follower flips the committed writes one by one, in order, and
\* is never ahead of the leader: ST_CHKQRM_ACKS sends each COMMIT to each peer once.
THEOREM FollowersApplyInOrder == Spec => []FollowerAppliesInOrder
<1>1. TypeOK /\ CommitInv /\ OrderInv /\ Lossless => FollowerAppliesInOrder
  <2> SUFFICES ASSUME TypeOK, CommitInv, OrderInv, Lossless, drops = 0, NEW p \in Peers
               PROVE  /\ \A i \in 1..Len(flips[p]) : flips[p][i].zxid = i
                      /\ InTurn(down[p], "COMMIT", Len(flips[p]), peerZxidCmt[p])
                      /\ Len(flips[p]) <= peerZxidCmt[p] /\ peerZxidCmt[p] <= myZxid[Leader]
    BY DEF FollowerAppliesInOrder
  <2>1. /\ \A i \in 1..Len(flips[p]) : flips[p][i].zxid = i
        /\ NoneMissing(down[p], "COMMIT", Len(flips[p]), peerZxidCmt[p])
    BY DEF Lossless, NothingLostAt
  <2>2. /\ LastFlip(p) = Len(flips[p]) /\ Len(flips[p]) \in Nat
        /\ down[p] \in Seq(Messages) /\ peerZxidCmt[p] \in Nat
        /\ LastFlip(p) <= peerZxidCmt[p]
        /\ Rising(down[p], "COMMIT", LastFlip(p), peerZxidCmt[p])
    BY <2>1, LastFlipIsCount, Numbers DEF OrderInv, CommitOrder
  <2>3. peerZxidCmt[p] <= myZxid[Leader]
    BY Numbers, NodesAndPeers DEF CommitInv, PeerBookkeeping, Least
  <2>4. InTurn(down[p], "COMMIT", Len(flips[p]), peerZxidCmt[p])
    <3> DEFINE Is == {i \in 1..Len(down[p]) : down[p][i].type = "COMMIT"}
               lo == Len(flips[p])
               hi == peerZxidCmt[p]
    <3>1. \A i \in Is : down[p][i].zxid \in (lo + 1)..hi
      <4>1. \A i \in Is : down[p][i].zxid \in Nat
        BY <2>2, MessageZxid
      <4> QED
        BY <2>2, <4>1 DEF Rising
    <3>2. \A z \in (lo + 1)..hi : \E i \in Is : down[p][i].zxid = z
      BY <2>1 DEF NoneMissing
    <3>3. {down[p][i].zxid : i \in Is} = (lo + 1)..hi
      <4> HIDE DEF Is, lo, hi
      <4> QED
        BY <3>1, <3>2
    <3>4. \A i, j \in Is : i < j => down[p][i].zxid < down[p][j].zxid
      BY <2>2 DEF Rising
    <3> QED
      BY <3>3, <3>4 DEF InTurn
  <2> QED
    BY <2>1, <2>2, <2>3, <2>4
<1> QED
  BY <1>1, TypeCorrect, CommitInvariant, OrderInvariant, LosslessInvariant, PTL

-----------------------------------------------------------------------------
(* The last write of a key. *)

\* The properties' LastWrite is LastIn of the writes.
LEMMA LastWriteIsLastIn ==
  ASSUME NEW k, NEW n
  PROVE  LastWrite(k, n) = LastIn(written, k, n)
BY DEF LastWrite, LastIn, Last

\* One write more.
LEMMA LastInStep ==
  ASSUME NEW w, NEW k, NEW n \in Nat
  PROVE  LastIn(w, k, n + 1) = IF w[n + 1].key = k THEN n + 1 ELSE LastIn(w, k, n)
<1> DEFINE ws(m) == {z \in 1..m : w[z].key = k}
<1>1. CASE w[n + 1].key = k
  <2>1. /\ n + 1 \in ws(n + 1) /\ \A y \in ws(n + 1) : y <= n + 1
        /\ \A y \in ws(n + 1) : y \in Nat
    BY <1>1
  <2>2. ws(n + 1) # {}
    BY <2>1
  <2> DEFINE c == CHOOSE z \in ws(n + 1) : \A y \in ws(n + 1) : y <= z
  <2>3. c \in ws(n + 1) /\ \A y \in ws(n + 1) : y <= c
    <3> HIDE DEF ws
    <3> QED
      BY <2>1
  <2>4. LastIn(w, k, n + 1) = c
    BY <2>2 DEF LastIn, Last
  <2>5. c = n + 1
    <3> HIDE DEF c, ws
    <3> QED
      BY <2>1, <2>3
  <2> HIDE DEF c
  <2> QED
    BY <1>1, <2>4, <2>5
<1>2. CASE w[n + 1].key # k
  <2>1. ws(n + 1) = ws(n)
    <3>1. \A z : z \in 1..(n + 1) <=> z \in 1..n \/ z = n + 1
      OBVIOUS
    <3> QED
      BY <1>2, <3>1
  <2>2. LastIn(w, k, n + 1) = LastIn(w, k, n)
    BY <2>1 DEF LastIn
  <2> QED
    BY <1>2, <2>2
<1> QED
  BY <1>1, <1>2

\* Only the keys of the first n writes matter.
LEMMA LastInAgree ==
  ASSUME NEW w, NEW v, NEW k, NEW n \in Nat, \A z \in 1..n : w[z].key = v[z].key
  PROVE  LastIn(w, k, n) = LastIn(v, k, n)
<1>1. {z \in 1..n : w[z].key = k} = {z \in 1..n : v[z].key = k}
  OBVIOUS
<1> QED
  BY <1>1 DEF LastIn

\* There is none among no writes.
LEMMA LastInNone ==
  ASSUME NEW w, NEW k
  PROVE  LastIn(w, k, 0) = 0
<1>1. {z \in 1..0 : w[z].key = k} = {}
  OBVIOUS
<1> QED
  BY <1>1 DEF LastIn, Last

-----------------------------------------------------------------------------
(* Hash table entries. *)

\* Entries have a current and a prepared value.
LEMMA EntryFields ==
  ASSUME TypeOK, NEW n \in Nodes, NEW k \in Keys
  PROVE  /\ store[n][k] \in [cur : Zxid, next : Zxid]
         /\ store[n][k].cur \in Nat /\ store[n][k].next \in Nat
BY SizeAssumption DEF TypeOK, Entries, Zxid

\* What a flip does to the entries of its node.
LEMMA FlipEntries ==
  ASSUME TypeOK, NEW n \in Nodes, NEW z \in 1..MaxZxid, Flip(n, z), NEW k \in Keys
  PROVE  /\ LogFind(n, z) = k => store'[n][k] = FlipPoint(store[n][k])
         /\ LogFind(n, z) # k => store'[n][k] = store[n][k]
         /\ \A q \in Nodes : q # n => store'[q] = store[q]
<1>1. store \in [Nodes -> [Keys -> Entries]]
  BY DEF TypeOK
<1> QED
  BY <1>1 DEF Flip

\* What preparing a value does to the entries of its node.
LEMMA SetNextEntries ==
  ASSUME TypeOK, NEW n \in Nodes, NEW key \in Keys, NEW z \in Nat,
         store' = [store EXCEPT ![n][key] = SetNext(@, z)]
  PROVE  /\ store'[n][key].next = z /\ store'[n][key].cur = store[n][key].cur
         /\ \A k \in Keys : k # key => store'[n][k] = store[n][k]
         /\ \A q \in Nodes : q # n => store'[q] = store[q]
<1>1. store \in [Nodes -> [Keys -> Entries]]
  BY DEF TypeOK
<1>2. store[n][key] \in [cur : Zxid, next : Zxid]
  BY EntryFields
<1>3. /\ SetNext(store[n][key], z).next = z
      /\ SetNext(store[n][key], z).cur = store[n][key].cur
  BY <1>2 DEF SetNext
<1>4. store'[n][key] = SetNext(store[n][key], z)
  BY <1>1
<1> QED
  BY <1>1, <1>3, <1>4

-----------------------------------------------------------------------------
(* Keys with one outstanding write at a time. *)

\* A write request for such a key finds no value prepared before.
LEMMA WriteReqExclusive ==
  ASSUME TypeOK, OrderInv, CommitInv, OneOutstanding,
         NEW key \in Keys, NEW s \in Sessions, WriteReq(key, s)
  PROVE  OneOutstanding'
<1> DEFINE z == proposedZxid + 1
           lo == myZxid[Leader]
<1>1. /\ proposedZxid' = z /\ myZxid' = myZxid
      /\ store' = [store EXCEPT ![Leader][key] = SetNext(@, z)]
      /\ written' = Append(written, [key |-> key, sess |-> s])
      /\ key \in ExclusiveKeys => \A y \in (lo + 1)..proposedZxid : written[y].key # key
  BY DEF WriteReq, ClientMaySend
<1>2. /\ proposedZxid \in Nat /\ lo \in Nat /\ Leader \in Nodes /\ lo <= proposedZxid
      /\ z \in Nat
  BY Numbers, NodesAndPeers DEF CommitInv, LeaderOrder
<1>3. written'[z].key = key /\ \A y \in 1..proposedZxid : written'[y] = written[y]
  BY <1>1, AppendElements DEF TypeOK, OrderInv, Numbering
<1>4. /\ store'[Leader][key].next = z /\ store'[Leader][key].cur = store[Leader][key].cur
      /\ \A k \in Keys : k # key => store'[Leader][k] = store[Leader][k]
  <2> HIDE DEF z
  <2>1. Leader \in Nodes /\ z \in Nat /\ store' = [store EXCEPT ![Leader][key] = SetNext(@, z)]
    BY <1>1, <1>2
  <2>2. /\ store'[Leader][key].next = z /\ store'[Leader][key].cur = store[Leader][key].cur
        /\ \A k \in Keys : k # key => store'[Leader][k] = store[Leader][k]
        /\ \A q \in Nodes : q # Leader => store'[q] = store[q]
    BY <2>1, SetNextEntries
  <2> QED
    BY <2>2
<1> HIDE DEF z, lo
<1>5. z = proposedZxid + 1 /\ lo = myZxid[Leader]
  BY DEF z, lo
<1> SUFFICES ASSUME NEW k \in ExclusiveKeys
             PROVE  LET e == store'[Leader][k] IN
                    /\ e.cur = LastIn(written', k, lo)
                    /\ \A y \in (lo + 1)..z : written'[y].key = k => e.next = y
                    /\ e.next # 0 => e.next \in (lo + 1)..z /\ written'[e.next].key = k
  BY <1>1, <1>5 DEF OneOutstanding
<1>6. /\ k \in Keys /\ store[Leader][k].cur = LastIn(written, k, lo)
      /\ \A y \in (lo + 1)..proposedZxid : written[y].key = k => store[Leader][k].next = y
      /\ store[Leader][k].next # 0 =>
           /\ store[Leader][k].next \in (lo + 1)..proposedZxid
           /\ written[store[Leader][k].next].key = k
  BY <1>5, SizeAssumption DEF OneOutstanding
<1>7. LastIn(written', k, lo) = LastIn(written, k, lo)
  <2>1. \A y \in 1..lo : written'[y].key = written[y].key
    BY <1>2, <1>3
  <2> QED
    BY <1>2, <2>1, LastInAgree
<1>8. \A y \in (lo + 1)..z : y = z \/ (y \in (lo + 1)..proposedZxid /\ written'[y] = written[y])
  BY <1>2, <1>3, <1>5
<1>9. CASE k = key
  <2>1. \A y \in (lo + 1)..proposedZxid : written[y].key # k
    BY <1>1, <1>5, <1>9
  <2>2. \A y \in (lo + 1)..z : written'[y].key = k => y = z
    BY <1>8, <2>1
  <2>3. z \in (lo + 1)..z
    BY <1>2, <1>5
  <2> QED
    BY <1>3, <1>4, <1>6, <1>7, <1>9, <2>2, <2>3
<1>10. CASE k # key
  <2>1. \A y \in (lo + 1)..proposedZxid : y \in (lo + 1)..z /\ written'[y] = written[y]
    BY <1>2, <1>3, <1>5
  <2> QED
    BY <1>3, <1>4, <1>6, <1>7, <1>8, <1>10, <2>1
<1> QED
  BY <1>9, <1>10

\* The flip of such a key makes its one prepared value current.
LEMMA AckProposeExclusive ==
  ASSUME TypeOK, CommitInv, OrderInv, LogHolds, SessionsHeld, OneOutstanding,
         Window <= LogSlots, NEW p \in Peers, AckPropose(p)
  PROVE  OneOutstanding'
<1> DEFINE lo == myZxid[Leader]
           z == lo + 1
<1>1. UNCHANGED <<proposedZxid, written>>
  BY AckEffect
<1>2. proposedZxid \in Nat /\ lo \in Nat /\ Leader \in Nodes
  BY Numbers, NodesAndPeers
<1>3. CASE UNCHANGED <<replies, flips, store>> /\ myZxid'[Leader] = myZxid[Leader]
  BY <1>1, <1>3 DEF OneOutstanding
<1>4. CASE /\ z \in 1..MaxZxid /\ z <= proposedZxid /\ z \in accepted[Leader]
           /\ myZxid'[Leader] = z /\ Flip(Leader, z)
  <2>1. LogFind(Leader, z) = written[z].key
    <3>1. z > LastLogged(Leader) - LogSlots
      BY <1>2, SizeAssumption DEF OrderInv, Numbering, LastLogged
    <3> QED
      BY <1>2, <1>4, <3>1 DEF LogHolds
  <2> SUFFICES ASSUME NEW k \in ExclusiveKeys
               PROVE  LET e == store'[Leader][k] IN
                      /\ e.cur = LastIn(written, k, z)
                      /\ \A y \in (z + 1)..proposedZxid : written[y].key = k => e.next = y
                      /\ e.next # 0 => /\ e.next \in (z + 1)..proposedZxid
                                       /\ written[e.next].key = k
    BY <1>1, <1>4 DEF OneOutstanding
  <2> DEFINE e == store[Leader][k]
  <2>2. /\ k \in Keys /\ e.cur = LastIn(written, k, lo)
        /\ \A y \in (lo + 1)..proposedZxid : written[y].key = k => e.next = y
        /\ e.next # 0 => e.next \in (lo + 1)..proposedZxid /\ written[e.next].key = k
    BY SizeAssumption DEF OneOutstanding
  <2>3. e.next \in Nat
    BY <1>2, <2>2, EntryFields
  <2>4. LastIn(written, k, z) = IF written[z].key = k THEN z ELSE LastIn(written, k, lo)
    BY <1>2, LastInStep
  <2>5. \A y \in (z + 1)..proposedZxid : y \in (lo + 1)..proposedZxid /\ y # z
    BY <1>2
  <2>6. CASE written[z].key = k
    <3>1. e.next = z /\ z # 0
      BY <1>2, <1>4, <2>2, <2>6
    <3>2. store'[Leader][k] = [cur |-> z, next |-> 0]
      BY <1>2, <1>4, <2>1, <2>2, <2>6, <3>1, FlipEntries DEF FlipPoint
    <3> QED
      BY <2>2, <2>4, <2>5, <2>6, <3>1, <3>2
  <2>7. CASE written[z].key # k
    <3>1. store'[Leader][k] = e
      BY <1>2, <1>4, <2>1, <2>2, <2>7, FlipEntries
    <3>2. e.next # 0 => e.next \in (z + 1)..proposedZxid
      BY <1>2, <2>2, <2>3, <2>7
    <3> QED
      BY <2>2, <2>4, <2>5, <2>7, <3>1, <3>2
  <2> QED
    BY <2>6, <2>7
<1> QED
  BY <1>3, <1>4, CommitAnswers

\* The value HTOP_SETNEXT has prepared for such a key is that of its outstanding
\* write, so that HTOP_FLIPPOINT makes the committed value the current one.
THEOREM ExclusiveInvariant ==
  ASSUME Window <= SessSlots, Window <= LogSlots
  PROVE  Spec => []OneOutstanding
<1>1. Init => OneOutstanding
  BY NodesAndPeers, SizeAssumption, LastInNone DEF Init, OneOutstanding
<1>2. ASSUME OneOutstanding, UNCHANGED <<proposedZxid, written>>,
             myZxid'[Leader] = myZxid[Leader], store'[Leader] = store[Leader]
      PROVE  OneOutstanding'
  BY <1>2 DEF OneOutstanding
<1>3. /\ TypeOK /\ CommitInv /\ OrderInv /\ LogHolds /\ SessionsHeld /\ OneOutstanding
      /\ [Next]_vars
      => OneOutstanding'
  <2> SUFFICES ASSUME TypeOK, CommitInv, OrderInv, LogHolds, SessionsHeld, OneOutstanding,
                      [Next]_vars
               PROVE  OneOutstanding'
    OBVIOUS
  <2>1. ASSUME NEW p \in Peers, Proposal(p) PROVE OneOutstanding'
    BY <1>2, <2>1, NodesAndPeers DEF Proposal, leaderVars, TypeOK
  <2>2. ASSUME NEW p \in Peers, Commit(p) PROVE OneOutstanding'
    <3>1. UNCHANGED <<proposedZxid, written, myZxid>>
      BY <2>2 DEF Commit, leaderVars
    <3>2. store'[Leader] = store[Leader]
      BY <2>2, NodesAndPeers DEF Commit, Flip, TypeOK
    <3> QED
      BY <1>2, <3>1, <3>2
  <2>3. ASSUME NEW p \in Peers, DropAtFollower(p) \/ DropAtLeader(p) PROVE OneOutstanding'
    <3>1. UNCHANGED <<proposedZxid, written, myZxid, store>>
      BY <2>3 DEF DropAtFollower, DropAtLeader, leaderVars, history
    <3> QED
      BY <1>2, <3>1
  <2>4. CASE UNCHANGED vars
    <3>1. UNCHANGED <<proposedZxid, written, myZxid, store>>
      BY <2>4 DEF vars, leaderVars, history
    <3> QED
      BY <1>2, <3>1
  <2> QED
    BY <2>1, <2>2, <2>3, <2>4, WriteReqExclusive, AckProposeExclusive DEF Next
<1> QED
  BY <1>1, <1>3, TypeCorrect, CommitInvariant, OrderInvariant, LogInvariant, SessionInvariant,
     PTL DEF Spec

\* A key of which clients have one outstanding write at a time is only ever read
\* with the value of its last committed write (HTOP_SETNEXT has room for one).
THEOREM ExclusiveReads ==
  ASSUME Window <= SessSlots, Window <= LogSlots
  PROVE  Spec => []ExclusiveReadsCommitted
<1>1. OneOutstanding => ExclusiveReadsCommitted
  BY LastWriteIsLastIn DEF OneOutstanding, ExclusiveReadsCommitted, ReadsCommitted
<1> QED
  BY <1>1, ExclusiveInvariant, PTL

-----------------------------------------------------------------------------
(* The stores at quiescence. *)

\* The leader issues one HTOP_FLIPPOINT for each write it commits.
THEOREM LeaderFlipCount ==
  ASSUME Window <= SessSlots
  PROVE  Spec => []LeaderFlipsAll
<1>1. Init => LeaderFlipsAll
  BY NodesAndPeers DEF Init, LeaderFlipsAll
<1>2. ASSUME LeaderFlipsAll, myZxid'[Leader] = myZxid[Leader], flips'[Leader] = flips[Leader]
      PROVE  LeaderFlipsAll'
  BY <1>2 DEF LeaderFlipsAll
<1>3. TypeOK /\ CommitInv /\ SessionsHeld /\ LeaderFlipsAll /\ [Next]_vars => LeaderFlipsAll'
  <2> SUFFICES ASSUME TypeOK, CommitInv, SessionsHeld, LeaderFlipsAll, [Next]_vars
               PROVE  LeaderFlipsAll'
    OBVIOUS
  <2>1. ASSUME NEW p \in Peers, AckPropose(p) PROVE LeaderFlipsAll'
    <3>1. CASE UNCHANGED <<replies, flips, store>> /\ myZxid'[Leader] = myZxid[Leader]
      BY <1>2, <3>1
    <3>2. CASE LET z == myZxid[Leader] + 1 IN
               z \in 1..MaxZxid /\ myZxid'[Leader] = z /\ Flip(Leader, z)
      <4>1. Len(flips'[Leader]) = Len(flips[Leader]) + 1
        BY <3>2, FlipEffect, NodesAndPeers
      <4> QED
        BY <3>2, <4>1 DEF LeaderFlipsAll
    <3> QED
      BY <2>1, <3>1, <3>2, CommitAnswers
  <2>2. ASSUME NEW p \in Peers, Proposal(p) PROVE LeaderFlipsAll'
    BY <1>2, <2>2, NodesAndPeers DEF Proposal, TypeOK
  <2>3. ASSUME NEW p \in Peers, Commit(p) PROVE LeaderFlipsAll'
    <3>1. myZxid' = myZxid /\ flips'[Leader] = flips[Leader]
      BY <2>3, NodesAndPeers DEF Commit, Flip, TypeOK
    <3> QED
      BY <1>2, <3>1
  <2>4. CASE UNCHANGED <<myZxid, flips>>
    BY <1>2, <2>4
  <2> QED
    BY <2>1, <2>2, <2>3, <2>4
       DEF Next, WriteReq, DropAtFollower, DropAtLeader, vars, history
<1> QED
  BY <1>1, <1>3, TypeCorrect, CommitInvariant, SessionInvariant, PTL DEF Spec

\* A node never logs more than was proposed nor flips more than it logged.
LEMMA FlipsBehindLog ==
  ASSUME TypeOK, CommitInv, OrderInv, Lossless, LeaderFlipsAll, drops = 0, NEW n \in Nodes
  PROVE  /\ Len(flips[n]) \in Nat /\ Len(flips[n]) <= LastLogged(n)
         /\ LastLogged(n) <= proposedZxid
<1>1. flips[n] \in Seq(FlipRecords) /\ Len(flips[n]) \in Nat
  BY DEF TypeOK
<1>2. CASE n = Leader
  BY <1>1, <1>2, Numbers, NodesAndPeers
     DEF LeaderFlipsAll, LastLogged, CommitInv, LeaderOrder
<1>3. CASE n \in Peers
  <2>1. NothingLostAt(n)
    BY <1>3 DEF Lossless
  <2>2. LastFlip(n) = Len(flips[n]) /\ LastFlip(n) <= peerZxidCmt[n]
    BY <1>3, <2>1, LastFlipIsCount DEF NothingLostAt, OrderInv, CommitOrder
  <2>3. peerZxidCmt[n] <= peerZxidAck[n]
    BY <1>3, Numbers, NodesAndPeers DEF CommitInv, PeerBookkeeping, Least
  <2>4. peerZxidAck[n] <= myZxid[n]
    <3>1. /\ Len(up[n]) \in Nat /\ Len(up[n]) = myZxid[n] - peerZxidAck[n]
          /\ myZxid[n] \in Nat /\ peerZxidAck[n] \in Nat
      BY <1>3, <2>1, Numbers DEF NothingLostAt
    <3> QED
      BY <3>1
  <2>5. myZxid[n] <= proposedZxid /\ LastLogged(n) = myZxid[n]
    BY <1>3, NodesAndPeers DEF OrderInv, ProposalOrder, LastLogged
  <2> QED
    BY <1>1, <1>3, <2>2, <2>3, <2>4, <2>5, Numbers
<1> QED
  BY <1>2, <1>3 DEF Peers

\* An entry keeps following the log while nothing happens at its node.
LEMMA EntryStands ==
  ASSUME TypeOK, NEW n \in Nodes, NEW k \in Keys, EntryFollowsLog(n, k),
         store'[n][k] = store[n][k], flips'[n] = flips[n], LastLogged(n)' = LastLogged(n),
         \A y \in 1..LastLogged(n) : written'[y] = written[y],
         Len(flips[n]) \in Nat
  PROVE  EntryFollowsLog(n, k)'
<1>1. LastLogged(n) \in Nat /\ store[n][k].next \in Nat
  BY Numbers, EntryFields
<1>2. LastIn(written', k, LastLogged(n)) = LastIn(written, k, LastLogged(n))
  BY <1>1, LastInAgree
<1>3. CASE store[n][k].next = 0 /\ store[n][k].cur = LastIn(written, k, LastLogged(n))
  BY <1>2, <1>3 DEF EntryFollowsLog
<1>4. CASE LET e == store[n][k] IN
           /\ e.next = LastIn(written, k, LastLogged(n)) /\ written[e.next].key = k
           /\ Len(flips[n]) < e.next /\ e.next <= LastLogged(n)
  <2>1. written'[store[n][k].next] = written[store[n][k].next]
    BY <1>1, <1>4
  <2> QED
    BY <1>2, <1>4, <2>1 DEF EntryFollowsLog
<1> QED
  BY <1>3, <1>4 DEF EntryFollowsLog

\* A flip of the next write makes the prepared value current, if it is for the key.
LEMMA EntryFlips ==
  ASSUME TypeOK, NEW n \in Nodes, NEW k \in Keys, EntryFollowsLog(n, k),
         NEW z \in 1..MaxZxid, z = Len(flips[n]) + 1, Flip(n, z), LogFind(n, z) = written[z].key,
         LastLogged(n)' = LastLogged(n), written' = written, Len(flips[n]) \in Nat
  PROVE  EntryFollowsLog(n, k)'
<1> DEFINE e == store[n][k]
           last == LastIn(written, k, LastLogged(n))
<1>1. Len(flips'[n]) = z
  BY FlipEffect
<1>2. e \in [cur : Zxid, next : Zxid] /\ e.next \in Nat
  BY EntryFields
<1> SUFFICES LET f == store'[n][k] IN
             \/ f.next = 0 /\ f.cur = last
             \/ /\ f.next = last /\ written[f.next].key = k
                /\ z < f.next /\ f.next <= LastLogged(n)
  BY <1>1 DEF EntryFollowsLog
<1>3. \/ e.next = 0 /\ e.cur = last
      \/ /\ e.next = last /\ written[e.next].key = k
         /\ Len(flips[n]) < e.next /\ e.next <= LastLogged(n)
  BY DEF EntryFollowsLog
<1>4. CASE written[z].key = k
  <2>1. store'[n][k] = IF e.next = 0 THEN e ELSE [cur |-> e.next, next |-> 0]
    BY <1>4, FlipEntries DEF FlipPoint
  <2> HIDE DEF e, last
  <2> QED
    BY <1>2, <1>3, <2>1
<1>5. CASE written[z].key # k
  <2>1. store'[n][k] = e
    BY <1>5, FlipEntries
  <2> HIDE DEF e, last
  <2>2. written[e.next].key = k => e.next # z
    BY <1>5
  <2>3. Len(flips[n]) < e.next /\ written[e.next].key = k => z < e.next
    BY <1>2, <2>2
  <2> QED
    BY <1>3, <2>1, <2>3
<1> QED
  BY <1>4, <1>5

\* Logging the next write prepares its value.
LEMMA EntryLogs ==
  ASSUME TypeOK, NEW n \in Nodes, NEW k \in Keys, EntryFollowsLog(n, k),
         NEW key \in Keys, NEW z \in Nat, z = LastLogged(n) + 1,
         store' = [store EXCEPT ![n][key] = SetNext(@, z)], LastLogged(n)' = z,
         flips'[n] = flips[n], Len(flips[n]) \in Nat, Len(flips[n]) <= LastLogged(n),
         written'[z].key = key, \A y \in 1..LastLogged(n) : written'[y] = written[y]
  PROVE  EntryFollowsLog(n, k)'
<1> DEFINE e == store[n][k]
           last == LastIn(written', k, z)
<1>1. LastLogged(n) \in Nat /\ e.next \in Nat
  BY Numbers, EntryFields
<1> SUFFICES LET f == store'[n][k] IN
             \/ f.next = 0 /\ f.cur = last
             \/ /\ f.next = last /\ written'[f.next].key = k
                /\ Len(flips[n]) < f.next /\ f.next <= z
  BY DEF EntryFollowsLog
<1>2. last = IF key = k THEN z ELSE LastIn(written', k, LastLogged(n))
  BY <1>1, LastInStep
<1>3. LastIn(written', k, LastLogged(n)) = LastIn(written, k, LastLogged(n))
  BY <1>1, LastInAgree
<1>4. CASE key = k
  <2>1. store'[n][k].next = z
    BY <1>4, SetNextEntries
  <2> HIDE DEF last
  <2> QED
    BY <1>1, <1>2, <1>4, <2>1
<1>5. CASE key # k
  <2>1. store'[n][k] = e
    BY <1>5, SetNextEntries
  <2>2. \/ e.next = 0 /\ e.cur = last
        \/ /\ e.next = last /\ written[e.next].key = k
           /\ Len(flips[n]) < e.next /\ e.next <= LastLogged(n)
    BY <1>2, <1>3, <1>5 DEF EntryFollowsLog
  <2> HIDE DEF e, last
  <2>3. Len(flips[n]) < e.next /\ e.next <= LastLogged(n)
          => written'[e.next] = written[e.next] /\ e.next <= z
    BY <1>1
  <2> QED
    BY <2>1, <2>2, <2>3
<1> QED
  BY <1>4, <1>5

\* As long as the log has not wrapped, it names the key of every accepted write.
LEMMA LogNamesKey ==
  ASSUME TypeOK, LogHolds, NEW n \in Nodes, NEW z \in accepted[n],
         LastLogged(n) <= proposedZxid, proposedZxid <= LogSlots
  PROVE  LogFind(n, z) = written[z].key
<1>1. z \in Nat /\ z >= 1
  BY SizeAssumption DEF TypeOK
<1>2. z > LastLogged(n) - LogSlots
  BY <1>1, Numbers, SizeAssumption
<1> QED
  BY <1>2 DEF LogHolds

\* Without losses, and before the log wraps, each entry of the hash table has the
\* value of the last flipped write of its key, and the one prepared after it.
THEOREM StoreInvariant ==
  ASSUME Window <= SessSlots
  PROVE  Spec => []EntriesFollowLog
<1>1. Init => EntriesFollowLog
  BY LastInNone DEF Init, EntriesFollowLog, EntryFollowsLog, LastLogged
<1>2. /\ TypeOK /\ CommitInv /\ OrderInv /\ LogHolds /\ SessionsHeld /\ Lossless
      /\ LeaderFlipsAll /\ EntriesFollowLog /\ [Next]_vars
      => EntriesFollowLog'
  <2> SUFFICES ASSUME TypeOK, CommitInv, OrderInv, LogHolds, SessionsHeld, Lossless,
                      LeaderFlipsAll, EntriesFollowLog, [Next]_vars,
                      drops' = 0, proposedZxid' <= LogSlots, NEW n \in Nodes, NEW k \in Keys
               PROVE  EntryFollowsLog(n, k)'
    BY DEF EntriesFollowLog
  <2>1. drops = 0 /\ ~(\E p \in Peers : DropAtFollower(p) \/ DropAtLeader(p))
    <3>1. drops \in Nat
      BY Numbers
    <3>2. ~(\E p \in Peers : DropAtFollower(p) \/ DropAtLeader(p))
      BY <3>1 DEF DropAtFollower, DropAtLeader
    <3>3. drops' = drops
      BY <3>2 DEF Next, WriteReq, AckPropose, Proposal, Commit, vars
    <3> QED
      BY <3>2, <3>3
  <2>2. proposedZxid <= LogSlots
    <3>1. proposedZxid' = proposedZxid \/ proposedZxid' = proposedZxid + 1
      BY <2>1 DEF Next, WriteReq, AckPropose, Proposal, Commit, leaderVars, vars
    <3> QED
      BY <3>1, Numbers, SizeAssumption
  <2>3. /\ EntryFollowsLog(n, k)
        /\ Len(flips[n]) \in Nat /\ Len(flips[n]) <= LastLogged(n)
        /\ LastLogged(n) <= proposedZxid /\ LastLogged(n) \in Nat /\ proposedZxid \in Nat
    BY <2>1, <2>2, FlipsBehindLog, Numbers DEF EntriesFollowLog
  <2>4. ASSUME NEW key \in Keys, NEW s \in Sessions, WriteReq(key, s)
        PROVE  EntryFollowsLog(n, k)'
    <3> DEFINE z == proposedZxid + 1
    <3>1. /\ proposedZxid' = z /\ myZxid' = myZxid /\ flips' = flips
          /\ store' = [store EXCEPT ![Leader][key] = SetNext(@, z)]
          /\ written' = Append(written, [key |-> key, sess |-> s])
      BY <2>4 DEF WriteReq
    <3>2. written'[z].key = key /\ \A y \in 1..proposedZxid : written'[y] = written[y]
      BY <3>1, AppendElements DEF TypeOK, OrderInv, Numbering
    <3>3. z \in Nat
      BY <2>3
    <3>4. \A y \in 1..LastLogged(n) : written'[y] = written[y]
      BY <2>3, <3>2
    <3>5. CASE n = Leader
      <4>1. z = LastLogged(n) + 1 /\ LastLogged(n)' = z
        BY <3>1, <3>5 DEF LastLogged
      <4> HIDE DEF z
      <4> QED
        BY <2>3, <3>1, <3>2, <3>3, <3>4, <3>5, <4>1, EntryLogs
    <3>6. CASE n # Leader
      <4>1. store'[n] = store[n] /\ LastLogged(n)' = LastLogged(n)
        BY <3>1, <3>6 DEF TypeOK, LastLogged
      <4> QED
        BY <2>3, <3>1, <3>4, <4>1, EntryStands
    <3> QED
      BY <3>5, <3>6
  <2>5. ASSUME NEW p \in Peers, AckPropose(p)
        PROVE  EntryFollowsLog(n, k)'
    <3>1. UNCHANGED <<proposedZxid, written>> /\ LastLogged(n)' = LastLogged(n)
      BY <2>5, AckEffect, AckAtPeers DEF LastLogged, Peers
    <3>2. CASE UNCHANGED <<replies, flips, store>> /\ myZxid'[Leader] = myZxid[Leader]
      BY <2>3, <3>1, <3>2, EntryStands
    <3>3. CASE LET z == myZxid[Leader] + 1 IN
               /\ z \in 1..MaxZxid /\ z <= proposedZxid /\ z \in accepted[Leader]
               /\ myZxid'[Leader] = z /\ Flip(Leader, z)
      <4> DEFINE z == myZxid[Leader] + 1
      <4>1. CASE n = Leader
        <5>1. LogFind(n, z) = written[z].key
          BY <2>2, <2>3, <3>3, <4>1, LogNamesKey
        <5>2. z = Len(flips[n]) + 1
          BY <4>1 DEF LeaderFlipsAll
        <5> HIDE DEF z
        <5> QED
          BY <2>3, <3>1, <3>3, <4>1, <5>1, <5>2, EntryFlips DEF z
      <4>2. CASE n # Leader
        <5>1. store'[n] = store[n] /\ flips'[n] = flips[n]
          BY <3>3, <4>2, FlipEntries, FlipEffect, NodesAndPeers
        <5> QED
          BY <2>3, <3>1, <5>1, EntryStands
      <4> QED
        BY <4>1, <4>2
    <3> QED
      BY <2>5, <3>2, <3>3, CommitAnswers
  <2>6. ASSUME NEW p \in Peers, Proposal(p)
        PROVE  EntryFollowsLog(n, k)'
    <3> DEFINE m == Head(down[p])
    <3>1. /\ down[p] # <<>> /\ m.type = "PROPOSAL" /\ down[p] \in Seq(Messages)
          /\ store' = [store EXCEPT ![p][m.key] = SetNext(@, m.zxid)]
          /\ myZxid' = [myZxid EXCEPT ![p] = m.zxid]
          /\ UNCHANGED <<proposedZxid, written, flips>>
      BY <2>6 DEF Proposal, leaderVars, TypeOK
    <3>2. /\ m.zxid \in 1..MaxZxid /\ m.key \in Keys /\ m.key = written[m.zxid].key
      BY <3>1, TakeDown
    <3>3. m.zxid = myZxid[p] + 1
      <4>1. /\ NoneMissing(down[p], "PROPOSAL", myZxid[p], proposedZxid)
            /\ Rising(down[p], "PROPOSAL", myZxid[p], proposedZxid) /\ myZxid[p] \in Nat
        BY <2>1, Numbers, NodesAndPeers
           DEF Lossless, NothingLostAt, OrderInv, ProposalOrder
      <4> QED
        BY <2>3, <3>1, <4>1, NoneMissingTail
    <3> HIDE DEF m
    <3>4. p \in Nodes /\ p # Leader /\ m.zxid \in Nat
      BY <3>2, NodesAndPeers
    <3>5. CASE n = p
      <4>1. m.zxid = LastLogged(n) + 1 /\ LastLogged(n)' = m.zxid
        BY <3>1, <3>3, <3>4, <3>5 DEF LastLogged, TypeOK
      <4> QED
        BY <2>3, <3>1, <3>2, <3>4, <3>5, <4>1, EntryLogs
    <3>6. CASE n # p
      <4>1. store'[n] = store[n] /\ LastLogged(n)' = LastLogged(n)
        BY <3>1, <3>6 DEF TypeOK, LastLogged
      <4> QED
        BY <2>3, <3>1, <4>1, EntryStands
    <3> QED
      BY <3>5, <3>6
  <2>7. ASSUME NEW p \in Peers, Commit(p)
        PROVE  EntryFollowsLog(n, k)'
    <3> DEFINE z == Len(flips[p]) + 1
    <3>1. /\ UNCHANGED <<proposedZxid, written, myZxid>> /\ LastLogged(n)' = LastLogged(n)
          /\ p \in Nodes
      BY <2>7, NodesAndPeers DEF Commit, leaderVars, LastLogged
    <3>2. /\ Flip(p, z) /\ z = Head(down[p]).zxid /\ z \in 1..MaxZxid /\ z \in accepted[p]
      <4>1. NothingLostAt(p) /\ p \in Nodes
        BY <2>1, NodesAndPeers DEF Lossless
      <4>2. Flip(p, z)
        BY <2>7, <4>1, CommitLossless
      <4>3. /\ down[p] # <<>> /\ Head(down[p]).type = "COMMIT" /\ down[p] \in Seq(Messages)
        BY <2>7 DEF Commit, TypeOK
      <4>4. z = Head(down[p]).zxid
        <5>1. /\ LastFlip(p) = Len(flips[p]) /\ Len(flips[p]) \in Nat /\ peerZxidCmt[p] \in Nat
              /\ Rising(down[p], "COMMIT", LastFlip(p), peerZxidCmt[p])
          BY <4>1, LastFlipIsCount, Numbers DEF NothingLostAt, OrderInv, CommitOrder
        <5> QED
          BY <4>1, <4>3, <5>1, NoneMissingTail DEF NothingLostAt
      <4>5. /\ Head(down[p]) = down[p][1] /\ 1 \in 1..Len(down[p])
            /\ Head(down[p]).zxid \in 1..MaxZxid
        BY <4>3, TailElements, MessageZxid
      <4> QED
        BY <4>2, <4>3, <4>4, <4>5 DEF CommitInv, CommitsAreForAccepted
    <3>3. CASE n = p
      <4>1. LogFind(n, z) = written[z].key
        BY <2>2, <2>3, <3>2, <3>3, LogNamesKey
      <4> HIDE DEF z
      <4> QED
        BY <2>3, <3>1, <3>2, <3>3, <4>1, EntryFlips DEF z
    <3>4. CASE n # p
      <4>1. store'[n] = store[n] /\ flips'[n] = flips[n]
        BY <3>1, <3>2, <3>4, FlipEntries, FlipEffect
      <4> QED
        BY <2>3, <3>1, <4>1, EntryStands
    <3> QED
      BY <3>3, <3>4
  <2>8. CASE UNCHANGED vars
    <3>1. UNCHANGED <<written, store, flips>> /\ LastLogged(n)' = LastLogged(n)
      BY <2>8 DEF vars, leaderVars, history, LastLogged
    <3> QED
      BY <2>3, <3>1, EntryStands
  <2> QED
    BY <2>1, <2>4, <2>5, <2>6, <2>7, <2>8 DEF Next
<1> QED
  BY <1>1, <1>2, TypeCorrect, CommitInvariant, OrderInvariant, LogInvariant, SessionInvariant,
     LosslessInvariant, LeaderFlipCount, PTL DEF Spec

\* When nothing was thrown away and nothing is in flight, every node has the last
\* write of each key as its value and nothing prepared; peerCountForCommit must
\* be one that all nodes together can reach.
THEOREM StoresConverge ==
  ASSUME Window <= SessSlots, CommitCount <= 2 * N
  PROVE  Spec => []Converged
<1>1. /\ TypeOK /\ CommitInv /\ OrderInv /\ Lossless /\ LeaderFlipsAll /\ EntriesFollowLog
      => Converged
  <2> SUFFICES ASSUME TypeOK, CommitInv, OrderInv, Lossless, LeaderFlipsAll, EntriesFollowLog,
                      drops = 0, proposedZxid <= LogSlots,
                      \A p \in Peers : down[p] = <<>> /\ up[p] = <<>>,
                      NEW n \in Nodes, NEW k \in Keys
               PROVE  store[n][k] = [cur |-> LastWrite(k, proposedZxid), next |-> 0]
    BY DEF Converged
  <2>1. proposedZxid \in Nat /\ myZxid[Leader] \in Nat /\ myZxid[Leader] <= proposedZxid
    BY Numbers, NodesAndPeers DEF CommitInv, LeaderOrder
  <2>2. ASSUME NEW p \in Peers
        PROVE  myZxid[p] = proposedZxid /\ peerZxidAck[p] = proposedZxid
    <3>1. /\ NoneMissing(<<>>, "PROPOSAL", myZxid[p], proposedZxid)
          /\ Len(up[p]) = myZxid[p] - peerZxidAck[p] /\ Len(up[p]) = 0
          /\ myZxid[p] \in Nat /\ peerZxidAck[p] \in Nat /\ myZxid[p] <= proposedZxid
      BY <2>2, Numbers, NodesAndPeers DEF Lossless, NothingLostAt, OrderInv, ProposalOrder
    <3>2. ~(proposedZxid \in (myZxid[p] + 1)..proposedZxid)
      BY <3>1 DEF NoneMissing
    <3> QED
      BY <2>1, <3>1, <3>2
  <2>3. myZxid[Leader] = proposedZxid
    <3> SUFFICES ASSUME myZxid[Leader] < proposedZxid PROVE FALSE
      BY <2>1
    <3>1. Ahead = Peers
      BY <2>1, <2>2 DEF Ahead
    <3>2. Peers # {}
      <4>1. 1 \in Nodes /\ 2 \in Nodes
        BY ClusterAssumption DEF Nodes
      <4> QED
        BY <4>1 DEF Peers
    <3>3. Cardinality(Peers) = N - 1
      <4>1. IsFiniteSet(Nodes) /\ Cardinality(Nodes) = N
        BY ClusterAssumption, FS_Interval DEF Nodes
      <4>2. Cardinality(Peers) = Cardinality(Nodes) - 1
        BY <4>1, NodesAndPeers, FS_RemoveElement DEF Peers
      <4> QED
        BY <4>1, <4>2
    <3>4. QuorumMet(1 + Cardinality(Ahead))
      BY <3>1, <3>3, ClusterAssumption DEF QuorumMet, PeerCount
    <3> QED
      BY <3>1, <3>2, <3>4 DEF CommitInv, NoOverlookedQuorum
  <2>4. Len(flips[n]) = proposedZxid /\ LastLogged(n) = proposedZxid
    <3>1. CASE n = Leader
      BY <2>3, <3>1 DEF LeaderFlipsAll, LastLogged
    <3>2. CASE n \in Peers
      <4>1. /\ NoneMissing(<<>>, "COMMIT", Len(flips[n]), peerZxidCmt[n])
            /\ LastFlip(n) = Len(flips[n]) /\ Len(flips[n]) \in Nat
            /\ LastFlip(n) <= peerZxidCmt[n] /\ peerZxidCmt[n] \in Nat
        BY <3>2, Numbers, LastFlipIsCount DEF Lossless, NothingLostAt, OrderInv, CommitOrder
      <4>2. peerZxidCmt[n] = proposedZxid
        BY <2>1, <2>2, <2>3, <3>2 DEF CommitInv, PeerBookkeeping, Least
      <4>3. ~(proposedZxid \in (Len(flips[n]) + 1)..proposedZxid)
        BY <4>1, <4>2 DEF NoneMissing
      <4> QED
        BY <2>1, <2>2, <3>2, <4>1, <4>2, <4>3, NodesAndPeers DEF LastLogged
    <3> QED
      BY <3>1, <3>2 DEF Peers
  <2>5. EntryFollowsLog(n, k)
    BY DEF EntriesFollowLog
  <2>6. store[n][k].next = 0 /\ store[n][k].cur = LastIn(written, k, proposedZxid)
    BY <2>1, <2>4, <2>5, EntryFields DEF EntryFollowsLog
  <2> QED
    BY <2>6, EntryFields, LastWriteIsLastIn
<1> QED
  BY <1>1, TypeCorrect, CommitInvariant, OrderInvariant, LosslessInvariant, LeaderFlipCount,
     StoreInvariant, PTL
=============================================================================
