---------------------------- MODULE MemTableList ----------------------------
(***************************************************************************)
(* A skip list in the arena its nodes come from (SkipList::NewNode), as a  *)
(* memtable uses the two: the client allocates an entry, inserts it as the *)
(* key, and the list allocates a node whose links depend on its height.    *)
(***************************************************************************)
EXTENDS SkipList, Arena

CONSTANTS NodeSize,    \* sizeof(Node): the key and one link
          LinkSize,    \* sizeof(std::atomic<Node*>)
          EntrySizes   \* sizes of the entries the client allocates

VARIABLE place   \* per node: the region NewNode got for it, {} before

allVars == <<vars, arenaVars, place>>

LInit == Init /\ ArenaInit /\ place = [n \in Nodes |-> {}]

NodeBytesOfOneLink(h) == NodeSize

NodeBytes(h) == NodeSize + LinkSize * (h - 1)

ASSUME NodeAssumption ==
  /\ LinkSize \in Nat \ {0} /\ NodeSize \in Nat /\ NodeSize >= LinkSize
  /\ EntrySizes \subseteq Requests
  /\ \A h \in 1..kMaxHeight : NodeBytes(h) \in Requests

\* NewNode's call of AllocateAligned for node n of height h.
AllocateNode(n, h) ==
  /\ AllocateAligned(NodeBytes(h))
  /\ place' = [place EXCEPT ![n] = regions' \ regions]

\* The constructor makes head_, of the largest height; its links are set to
\* nullptr before anybody else has the list.
Construct ==
  /\ place[head] = {}
  /\ AllocateNode(head, kMaxHeight)
  /\ UNCHANGED vars

\* The client allocates the entry and calls Insert with it.
Add(k) ==
  /\ place[head] # {}
  /\ BeginInsert(k)
  /\ \E bytes \in EntrySizes : Allocate(bytes)
  /\ UNCHANGED place

LNewNode == NewNode /\ AllocateNode(newKey, height)

Elsewhere == UNCHANGED <<arenaVars, place>>

LInsertStep == (pc # "new" /\ InsertStep /\ Elsewhere) \/ LNewNode

LNext ==
  \/ Construct
  \/ \E k \in Keys : Add(k)
  \/ LInsertStep
  \/ \E r \in Readers :
       place[head] # {} /\ (ReaderCall(r) \/ SearchStep(r)) /\ Elsewhere

\* A thread inside Insert or inside a search keeps running.
LFairness ==
  WF_allVars(LInsertStep) /\ \A r \in Readers : WF_allVars(SearchStep(r) /\ Elsewhere)

LSpec == LInit /\ [][LNext]_allVars /\ LFairness

-----------------------------------------------------------------------------
\* Every link the writer stored lies inside the memory of its node: a node has
\* an aligned region of its own, large enough for all its levels, although
\* regions and blocks change under entries of odd sizes; so no store of a link
\* changes a neighbour (RegionsDisjoint) and no load of one is torn.
LinksInsideNode ==
  \A n \in mem[Now].made : place[head] # {} =>
    \E r \in place[n] :
      /\ r.start % Align = 0
      /\ \A l \in Levels : mem[Now].next[n][l] # Uninit =>
           NodeSize + LinkSize * l <= r.size
      /\ \A m \in Nodes \ {n} : r \notin place[m]

=============================================================================
