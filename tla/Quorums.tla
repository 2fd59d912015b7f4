------------------------------- MODULE Quorums ------------------------------
(***************************************************************************)
(* CQuorumManager (src/src/llmq/quorums.cpp) together with the masternode  *)
(* lists it selects members from.  UpdatedBlockTip builds the quorums of   *)
(* the last interval heights of a chain, one after the other, while other  *)
(* threads connect and disconnect blocks; a quorum that was built is kept  *)
(* until the node stops.  A behaviour is one run of the node: nothing of   *)
(* the quorum manager is saved.  It begins when the initial download is    *)
(* over, before which UpdatedBlockTip returns at once.                     *)
(*                                                                         *)
(* One quorum type: the types share nothing.  A quorum is its block and    *)
(* the list its members and its public key come from; as in MNManager of a *)
(* list only its origin is kept, not what penalties the node had when it   *)
(* made the list.  Heights are those of the model's tree; the quorums of   *)
(* the blocks below it are null, since the list is empty there.            *)
(***************************************************************************)
EXTENDS MNManager

CONSTANTS
  dkgInterval,
  signingActiveQuorumCount,
  MinBlocks,       \* the blocks it takes to register minSize masternodes
  Keyless,         \* the blocks in whose list fewer than minSize of the selected
                   \* masternodes have a usable operator key
  MaxCalls         \* bound: UpdatedBlockTip calls outstanding at a time

ASSUME QuorumConstants ==
  /\ Keyless \subseteq Blocks
  /\ {dkgInterval, signingActiveQuorumCount, MinBlocks, MaxCalls} \subseteq Nat \ {0}

VARIABLES
  quorumCache,     \* the quorums that were built, by block
  activeQuorums,   \* the signing quorums, most recent first
  activeFor,       \* the block whose UpdatedBlockTip set them
  due,             \* the blocks whose call is due after the list manager's
  job,             \* the call that holds cs: [for, i, newActive], with i the
                   \* iteration it comes to, or 0 when there is no call
  displaced        \* history: the blocks whose quorum was asked for off the
                   \* active chain while the cache was full of lists as high

quorumVars == <<quorumCache, activeQuorums, activeFor, due, job, displaced>>
allVars == <<vars, quorumVars>>

Job(b, i, newActive) == [for |-> b, i |-> i, newActive |-> newActive]
NoJob == Job(Root, 0, <<>>)

\* There are minSize masternodes to select; the quorum of those has minSize
\* valid members.
Enough(list) == Len(list.path) >= MinBlocks
IsValid(quorum) == quorum.list.block \notin Keyless

\* Mutant of BuildQuorum: the members are those of the tip's list.
BuildQuorum_FromTip(b) ==
  IF b \in DOMAIN quorumCache
  THEN [quorum |-> <<quorumCache[b]>>, s |-> mgr, cache |-> quorumCache]
  ELSE LET quorum == [block |-> b, list |-> mgr.tipList]
       IN  IF Enough(mgr.tipList)
           THEN [quorum |-> <<quorum>>, s |-> mgr, cache |-> Put(quorumCache, b, quorum)]
           ELSE [quorum |-> <<>>, s |-> mgr, cache |-> quorumCache]

\* BuildQuorum, with SelectQuorumMembers: the quorum or none, what the list
\* manager is afterwards, and the cache.  A null quorum is not cached; one
\* that is not valid is.
BuildQuorum(b) ==
  IF b \in DOMAIN quorumCache
  THEN [quorum |-> <<quorumCache[b]>>, s |-> mgr, cache |-> quorumCache]
  ELSE LET g == GetListForBlock(mgr, b)
           quorum == [block |-> b, list |-> g.list]
       IN  IF Enough(g.list)
           THEN [quorum |-> <<quorum>>, s |-> g.s, cache |-> Put(quorumCache, b, quorum)]
           ELSE [quorum |-> <<>>, s |-> g.s, cache |-> quorumCache]

\* quorumHeight in the i-th iteration of UpdatedBlockTip's loop for b: the
\* last interval height, and an interval less each time.
QuorumHeight(b, i) == Height(b) - (Height(b) % dkgInterval) - (i - 1) * dkgInterval

\* How many iterations there are with a height above low.
QuorumCount(b, low) ==
  Max({ i \in 0 .. signingActiveQuorumCount : i > 0 => QuorumHeight(b, i) > low })

\* Mutant of QuorumBlock: the height is looked up on the active chain.
QuorumBlock_Active(b, i) ==
  IF QuorumHeight(b, i) <= Height(tip) THEN BlockAt(tip, QuorumHeight(b, i))
  ELSE BlockAt(b, QuorumHeight(b, i))

\* The ancestor of b that the i-th iteration builds a quorum for.
QuorumBlock(b, i) == BlockAt(b, QuorumHeight(b, i))

\* A quorum is built for b, which is not of the active chain, and the cache of
\* the list manager is full of lists as high as that of b.
Displaces(b) == b \notin (DOMAIN quorumCache) \cup Ancestors(tip) /\ ~Roomy(b)

-----------------------------------------------------------------------------
QuorumInit ==
  /\ Init
  /\ quorumCache = EmptyMap /\ activeQuorums = <<>> /\ activeFor = Root
  /\ due = {} /\ job = NoJob /\ displaced = {}

\* The list manager's callback comes first: it was registered first.
ListUpdated(b) ==
  /\ UpdatedBlockTip(b)
  /\ due' = due \cup {b}
  /\ UNCHANGED <<quorumCache, activeQuorums, activeFor, job, displaced>>

\* UpdatedBlockTip of the quorum manager takes cs.
QuorumUpdate(b) ==
  /\ b \in due
  /\ job.i = 0
  /\ due' = due \ {b}
  /\ IF QuorumCount(b, 0) = 0
     THEN activeQuorums' = <<>> /\ activeFor' = b /\ UNCHANGED job
     ELSE job' = Job(b, 1, <<>>) /\ UNCHANGED <<activeQuorums, activeFor>>
  /\ UNCHANGED <<vars, quorumCache, displaced>>

\* What BuildQuorum gave, if that is a valid quorum.
Signing(quorum) == IF quorum # <<>> /\ IsValid(quorum[1]) THEN quorum ELSE <<>>

\* One BuildQuorum of the loop; the last one is followed by the assignment.
BuildNext ==
  /\ job.i > 0
  /\ LET b == QuorumBlock(job.for, job.i)
         r == BuildQuorum(b)
         newActive == job.newActive \o Signing(r.quorum)
     IN  /\ quorumCache' = r.cache
         /\ mgr' = r.s
         /\ displaced' = IF Displaces(b) THEN displaced \cup {b} ELSE displaced
         /\ IF job.i < QuorumCount(job.for, 0)
            THEN /\ job' = Job(job.for, job.i + 1, newActive)
                 /\ UNCHANGED <<activeQuorums, activeFor>>
            ELSE /\ job' = NoJob
                 /\ activeQuorums' = newActive /\ activeFor' = job.for
  /\ UNCHANGED <<stored, failed, rejected, tip, flushed, pending, oldVersion, used, adrift, due>>

\* quorum_members, an RPC call, builds the quorum of any block of the chain.
RpcBuild(b) ==
  /\ b \in Ancestors(tip) \ DOMAIN quorumCache
  /\ job.i = 0
  /\ mgr' = BuildQuorum(b).s /\ quorumCache' = BuildQuorum(b).cache
  /\ UNCHANGED <<stored, failed, rejected, tip, flushed, pending, oldVersion, used, adrift>>
  /\ UNCHANGED <<activeQuorums, activeFor, due, job, displaced>>

\* A thread that connected a block calls UpdatedBlockTip before it connects
\* another, so the calls outstanding are at most the threads that do so.
CallsOutstanding ==
  Cardinality(pending) + Cardinality(due) + (IF job.i = 0 THEN 0 ELSE 1)

\* What the validation threads do meanwhile.
ChainStep ==
  /\ \/ \E b \in Blocks : AcceptBlock(b) \/ ConnectFails(b)
     \/ \E b \in Blocks : CallsOutstanding < MaxCalls /\ ConnectTip(b)
     \/ DisconnectTip
  /\ UNCHANGED quorumVars

QuorumNext ==
  \/ ChainStep
  \/ \E b \in Blocks : ListUpdated(b) \/ QuorumUpdate(b) \/ RpcBuild(b)
  \/ BuildNext

\* Not taken: a restart, after which the lists may have gaps (README).
QuorumSpec == QuorumInit /\ [][QuorumNext]_allVars

-----------------------------------------------------------------------------
(* Properties *)

IsQuorum(x) == x.block \in Blocks /\ IsList(x.list)

\* The types of the state.
QuorumTypeOK ==
  /\ TypeOK
  /\ DOMAIN quorumCache \subseteq Blocks
  /\ \A b \in DOMAIN quorumCache : IsQuorum(quorumCache[b])
  /\ \A i \in DOMAIN activeQuorums : IsQuorum(activeQuorums[i])
  /\ activeFor \in Blocks \cup {Root} /\ due \subseteq Blocks
  /\ job.for \in Blocks \cup {Root} /\ job.i \in 0 .. signingActiveQuorumCount
  /\ displaced \subseteq Blocks

QuorumOf(x) == [block |-> x, list |-> RightList(x)]

\* A quorum is built from the list of its own block, and from no other block's,
\* also in the cache that outlives every reorganisation; unless it was asked
\* for when its block had left the active chain and GetListForBlock could not
\* keep the list it rebuilt.
CachedQuorumsExact ==
  \A b \in (DOMAIN quorumCache) \ displaced : quorumCache[b] = QuorumOf(b)

\* The blocks UpdatedBlockTip looks at for b, and those of them whose own list
\* makes a valid quorum.
QuorumBlocks(b) == { QuorumBlock(b, i) : i \in 1 .. QuorumCount(b, 0) }
SigningBlocks(b) ==
  { x \in QuorumBlocks(b) : Enough(RightList(x)) /\ IsValid(QuorumOf(x)) }

\* qs has the quorums of the blocks S, the highest first.
Lists(qs, S) ==
  /\ { qs[i] : i \in DOMAIN qs } = { QuorumOf(x) : x \in S }
  /\ \A i, j \in DOMAIN qs : i < j => Height(qs[i].block) > Height(qs[j].block)

\* The signing quorums are those of the interval heights of the block of the
\* last UpdatedBlockTip, each from the list of its own block, newest first,
\* although each was built, or kept from an earlier chain, while other threads
\* connected and disconnected blocks; with the exception above.
SigningQuorumsExact ==
  QuorumBlocks(activeFor) \cap displaced = {} =>
    Lists(activeQuorums, SigningBlocks(activeFor))

=============================================================================
