------------------------- MODULE ChatRoomListProofs -------------------------
(***************************************************************************)
(* Proofs about the room server's list of users: while no two list updates *)
(* overlap it holds exactly the users who joined and were not kicked, and  *)
(* no two of them have one name.  Linked is the list itself, Placed where  *)
(* the handlers that change it stand in it, and Searched what a handler    *)
(* that looks for its name has seen.                                       *)
(***************************************************************************)
EXTENDS ChatRoomProofs

\* The node a KICK has bypassed and not yet removed; the node createUser has
\* published and not yet terminated.
Bypassed == {n \in Node : \E t \in Conns : pc[t] = "relink" /\ cur[t] = n}
Raw == {n \in Node : \E t \in Conns : pc[t] \in {"foundlinks", "links"} /\ mine[t] = n}
Reachable == Roster \ Bypassed

\* next skips nobody and leads to users, prev leads to the user just before.
Forward ==
  /\ \A n \in Allocated, m \in Reachable : n < m => next[n] \in Node /\ next[n] <= m
  /\ \A n \in Roster : next[n] \in Node => next[n] \in Reachable
  /\ \A n \in kicked : next[n] \in Node
  /\ \A n \in Allocated \ Raw : next[n] # Junk
Backward ==
  \A m \in Roster \ Raw : m # head =>
    prev[m] \in Roster /\ prev[m] < m /\ \A k \in Roster : k < m => k <= prev[m]
Linked ==
  /\ kicked \subseteq Allocated
  /\ head = NULL => Roster = {}
  /\ head # NULL => head \in Roster /\ prev[head] \notin Node /\ \A m \in Roster : head <= m
  /\ Forward
  /\ Backward

Placed(t) ==
  /\ pc[t] \in {"tail", "tailnext", "link", "links", "unlink", "relink"} => cur[t] \in Roster
  /\ pc[t] = "tailnext" => next[cur[t]] \in Node
  /\ pc[t] = "link" => next[cur[t]] \notin Node
  /\ pc[t] \in {"foundlinks", "links"} => mine[t] = alloc /\ mine[t] \in Roster
  /\ pc[t] = "foundlinks" => head = mine[t]
  /\ pc[t] = "links" => head # mine[t] /\ \A k \in Roster : k < mine[t] => k <= cur[t]
  /\ pc[t] = "KICK-find" => cur[t] \in Roster \cup {NULL}
  /\ pc[t] = "relink" => prev[cur[t]] \in Node /\ head # cur[t]

\* Users t has passed in its search, or all there were when it began, have another name.
Publishing == {"create", "found", "tail", "tailnext", "link"}
Passed(t, m) ==
  /\ m <= seen[t]
  /\ pc[t] \in Publishing \/ (pc[t] = "scan" /\ (cur[t] = NULL \/ m < cur[t]))
Searched(t) ==
  seen[t] <= alloc /\ \A m \in Reachable : Passed(t, m) => user[m].name # last[t]

Distinct ==
  \A m, n \in Roster : (m < n /\ user[m].name = user[n].name) => user[n].base < m

Exact ==
  /\ Linked
  /\ \A t \in Conns : Placed(t) /\ Searched(t)
  /\ Distinct
ListInv == ~clash => Exact

-----------------------------------------------------------------------------
(* The list, step by step *)

LEMMA Nodes ==
  ASSUME IInv
  PROVE  /\ Node \subseteq Nat \ {0} /\ NULL = 0 /\ NULL \notin Node /\ Junk \notin Node
         /\ Junk # NULL /\ alloc \in Nat /\ Allocated \subseteq Node
         /\ Roster \subseteq Allocated /\ Roster \cap kicked = {} /\ Reachable \subseteq Roster
         /\ \A n \in Int : n \in Allocated <=> 1 <= n /\ n <= alloc
         /\ \A n \in Node : /\ next[n] \in Node \cup {NULL, Junk}
                            /\ next[n] \in Node => n < next[n] /\ next[n] <= alloc
                            /\ prev[n] \in Node => prev[n] < n /\ n <= alloc
         /\ head \in Node \cup {NULL}
         /\ \A t \in Conns : cur[t] \in Node \cup {NULL} /\ cur[t] <= alloc
<1>1. /\ MaxNodes \in Nat /\ alloc \in 0..MaxNodes /\ head \in Node \cup {NULL}
      /\ next \in [Node -> Node \cup {NULL, Junk}] /\ cur \in [Conns -> Node \cup {NULL}]
      /\ \A t \in Conns : cur[t] <= alloc
  BY ConstantsAssumption DEF IInv, TypeOK, Cursors
<1>2. /\ Node \subseteq Nat \ {0} /\ NULL = 0 /\ NULL \notin Node /\ Junk \notin Node
      /\ Junk # NULL /\ alloc \in Nat /\ Allocated \subseteq Node
      /\ \A n \in Int : n \in Allocated <=> 1 <= n /\ n <= alloc
  BY <1>1 DEF Node, NULL, Junk, Allocated
<1>3. \A n \in Node : /\ next[n] \in Node \cup {NULL, Junk}
                      /\ next[n] \in Node => n < next[n] /\ next[n] <= alloc
                      /\ prev[n] \in Node => prev[n] < n /\ n <= alloc
  BY <1>1 DEF IInv, ListOrdered
<1>4. Roster \subseteq Allocated /\ Roster \cap kicked = {} /\ Reachable \subseteq Roster
  BY DEF Roster, Reachable
<1>5. \A t \in Conns : cur[t] \in Node \cup {NULL}
  BY <1>1
<1>6. QED
  BY <1>1, <1>2, <1>3, <1>4, <1>5

\* Who updates the list does so alone.
LEMMA Alone ==
  ASSUME Writers, ~clash, NEW t \in Conns, NEW u \in Conns \ {t}
  PROVE  /\ pc[t] \in Creating => pc[u] \notin Creating \cup Unlinking
         /\ pc[t] \in Kicking => pc[u] \notin Kicking
         /\ pc[t] \in Unlinking => pc[u] \notin Creating
BY DEF Writers, Overlap

\* Steps of t that leave the list alone.
Touching == {"relink", "foundlinks", "links"}
Standing == Creating \cup Kicking \cup {"scan"}
Others(t) ==
  \A u \in Conns \ {t} : /\ pc'[u] = pc[u] /\ cur'[u] = cur[u] /\ mine'[u] = mine[u]
                         /\ last'[u] = last[u] /\ seen'[u] = seen[u]
Leaves(t) ==
  /\ UNCHANGED <<ptrVars, kicked>>
  /\ pc[t] \notin Touching /\ pc'[t] \notin Touching
  /\ Others(t)

LEMMA LeavesExact ==
  ASSUME Exact, NEW t \in Conns, Leaves(t), Placed(t)', seen'[t] <= alloc,
         \A m \in Reachable : Passed(t, m)' => user[m].name # last'[t]
  PROVE  Exact'
<1>1. UNCHANGED <<head, alloc, user, next, prev, kicked>>
  BY DEF Leaves, ptrVars
<1>2. Bypassed' = Bypassed /\ Raw' = Raw
  BY DEF Leaves, Others, Touching, Bypassed, Raw
<1>3. Roster' = Roster /\ Allocated' = Allocated /\ Reachable' = Reachable
  BY <1>1, <1>2 DEF Roster, Allocated, Reachable
<1>4. Linked' /\ Distinct'
  BY <1>1, <1>2, <1>3 DEF Exact, Linked, Forward, Backward, Distinct
<1>5. \A u \in Conns \ {t} : Placed(u)' /\ Searched(u)'
  BY <1>1, <1>3 DEF Leaves, Others, Exact, Placed, Searched, Passed
<1>6. Searched(t)'
  BY <1>1, <1>3 DEF Searched
<1>7. QED
  BY <1>4, <1>5, <1>6 DEF Exact

\* ... and end where nothing is asked of t.
LEMMA LeavesIdle ==
  ASSUME Exact, NEW t \in Conns, Leaves(t), pc'[t] \notin Standing, seen'[t] <= alloc
  PROVE  Exact'
<1>1. Placed(t)' /\ \A m \in Reachable : ~Passed(t, m)'
  BY DEF Placed, Passed, Standing, Creating, Kicking, Searching, Unlinking, Publishing
<1>2. QED
  BY <1>1, LeavesExact

\* FoundRoom and LinkTail: the new node, and what of the list depends on it.
LEMMA PublishedIs ==
  ASSUME IInv, NEW t \in Conns, Publish(t)
  PROVE  /\ NewNode = alloc + 1 /\ alloc' = NewNode /\ NewNode \in Node
         /\ mine'[t] = NewNode /\ \A u \in Conns \ {t} : mine'[u] = mine[u]
         /\ user'[NewNode].name = last[t] /\ user'[NewNode].base = seen[t]
         /\ \A n \in Node : n # NewNode => user'[n] = user[n]
         /\ UNCHANGED <<prev, kicked, cur, last, seen>>
         /\ Allocated' = Allocated \cup {NewNode} /\ NewNode \notin Allocated
         /\ \A n \in Allocated : n < NewNode
         /\ next[NewNode] \notin Node /\ prev[NewNode] \notin Node
         /\ kicked \subseteq Allocated => Roster' = Roster \cup {NewNode}
<1>1. /\ MaxNodes \in Nat /\ alloc \in 0..MaxNodes /\ alloc < MaxNodes
      /\ mine \in [Conns -> Node \cup {NULL}] /\ user \in [Node -> Users]
      /\ \A n \in Node : /\ next[n] \in Node => n < next[n] /\ next[n] <= alloc
                         /\ prev[n] \in Node => prev[n] < n /\ n <= alloc
  BY ConstantsAssumption DEF IInv, TypeOK, ListOrdered, Publish
<1>2. /\ NewNode = alloc + 1 /\ alloc' = NewNode
      /\ user' = [user EXCEPT ![NewNode] = NewUser(t)] /\ mine' = [mine EXCEPT ![t] = NewNode]
      /\ UNCHANGED <<prev, kicked, cur, last, seen>>
  BY DEF Publish, NewNode, history
<1>3. NewNode \in Node
  BY <1>1, <1>2 DEF Node
<1>4. mine'[t] = NewNode /\ \A u \in Conns \ {t} : mine'[u] = mine[u]
  BY <1>1, <1>2
<1>5. /\ user'[NewNode].name = last[t] /\ user'[NewNode].base = seen[t]
      /\ \A n \in Node : n # NewNode => user'[n] = user[n]
  BY <1>1, <1>2, <1>3 DEF NewUser
<1>6. /\ Allocated' = Allocated \cup {NewNode} /\ NewNode \notin Allocated
      /\ \A n \in Allocated : n < NewNode
  BY <1>1, <1>2 DEF Allocated
<1>7. next[NewNode] \notin Node /\ prev[NewNode] \notin Node
  <2>1. next[NewNode] \in Node => next[NewNode] \in Int
    BY DEF Node
  <2>2. QED
    BY <1>1, <1>2, <1>3, <2>1
<1>8. kicked \subseteq Allocated => Roster' = Roster \cup {NewNode}
  BY <1>2, <1>6 DEF Roster
<1>9. QED
  BY <1>2, <1>3, <1>4, <1>5, <1>6, <1>7, <1>8

LEMMA FoundExact ==
  ASSUME IInv, Writers, ~clash, Exact, NEW t \in Conns, FoundRoom(t)
  PROVE  Exact'
<1>1. /\ Publish(t) /\ pc[t] = "found" /\ head' = NewNode /\ UNCHANGED next
      /\ pc'[t] = "foundlinks" /\ \A u \in Conns \ {t} : pc'[u] = pc[u]
  BY DEF FoundRoom, At, IInv, TypeOK
<1>2. head = NULL /\ Roster = {} /\ kicked \subseteq Allocated
  BY <1>1 DEF Writers, Exact, Linked
<1>3. \A u \in Conns \ {t} : pc[u] \notin Creating \cup Unlinking
  BY <1>1, Alone DEF Creating
<1>0. PICK new \in Node : new = NewNode
  BY <1>1, PublishedIs
<1>4. /\ alloc' = new /\ new \in Node /\ mine'[t] = new /\ head' = new
      /\ \A n \in Node : n # new => user'[n] = user[n]
      /\ UNCHANGED <<prev, kicked, cur, last, seen>>
      /\ Allocated' = Allocated \cup {new} /\ \A n \in Allocated : n < new
      /\ new \notin Allocated /\ new = alloc + 1
      /\ next[new] \notin Node /\ prev[new] \notin Node
      /\ Roster' = {new}
  BY <1>0, <1>1, <1>2, PublishedIs
<1>5. Raw' = {new} /\ Raw = {} /\ Bypassed' = {}
  BY <1>1, <1>3, <1>4 DEF Raw, Bypassed, Creating, Unlinking
<1>6. Reachable' = {new}
  BY <1>4, <1>5 DEF Reachable
<1>7. \A n \in Allocated : n \in kicked /\ next[n] \in Node /\ next[n] <= alloc
  BY <1>2, Nodes DEF Exact, Linked, Forward, Roster
<1>8. Forward'
  <2>1. \A n \in Allocated : next'[n] \in Node /\ next'[n] <= new
    <3>1. alloc \in Int /\ alloc <= new /\ \A n \in Allocated : next[n] \in Int
      <4>1. alloc \in Int /\ \A k \in Node : k \in Int
        BY Nodes
      <4>2. ASSUME NEW n \in Allocated PROVE next[n] \in Int
        <5>1. next[n] \in Node
          BY <1>7
        <5>2. QED
          BY <4>1, <5>1
      <4>3. alloc <= new
        BY <1>4, <4>1
      <4>4. QED
        BY <4>1, <4>2, <4>3
    <3>2. next' = next /\ new \in Int /\ \A n \in Allocated : next[n] \in Node /\ next[n] <= alloc
      BY <1>1, <1>4, <1>7, Nodes
    <3>3. QED
      BY <3>1, <3>2
  <2>2. \A n \in Allocated' \ Raw' : next'[n] # Junk
    BY <1>1, <1>4, <1>5, <1>7, Nodes
  <2>3. QED
    BY <1>1, <1>2, <1>4, <1>6, <1>7, <2>1, <2>2, Nodes DEF Forward
<1>9. Linked'
  BY <1>1, <1>2, <1>4, <1>5, <1>8, Nodes DEF Linked, Backward
<1>10. \A u \in Conns : Placed(u)'
  BY <1>1, <1>2, <1>3, <1>4 DEF Placed, Exact, Creating, Unlinking
<1>11. \A u \in Conns : Searched(u)'
  <2>1. ASSUME NEW u \in Conns PROVE seen'[u] <= alloc /\ seen'[u] \in Int
    BY <1>4 DEF Exact, Searched, IInv, TypeOK
  <2>2. \A u \in Conns : ~Passed(u, new)'
    BY <1>4, <2>1, Nodes DEF Passed
  <2>3. QED
    BY <1>4, <1>6, <2>1, <2>2, Nodes DEF Searched
<1>12. Distinct'
  BY <1>4, Nodes DEF Distinct
<1>13. QED
  BY <1>9, <1>10, <1>11, <1>12 DEF Exact

LEMMA FoundLinksExact ==
  ASSUME IInv, Writers, ~clash, Exact, NEW t \in Conns, FoundLinks(t)
  PROVE  Exact'
<1>1. /\ pc[t] = "foundlinks" /\ pc'[t] = "crown" /\ \A u \in Conns \ {t} : pc'[u] = pc[u]
      /\ UNCHANGED <<head, alloc, user, kicked, cur, mine, last, seen>>
  BY DEF FoundLinks, At, Goto, IInv, TypeOK, history, locals
<1>2. \A u \in Conns \ {t} : pc[u] \notin Creating \cup Unlinking
  BY <1>1, Alone DEF Creating
<1>0. PICK new \in Node : new = mine[t]
  BY <1>1, Nodes DEF Exact, Placed
<1>3. new = alloc /\ new \in Roster /\ head = new
  BY <1>0, <1>1 DEF Exact, Placed
<1>4. /\ \A n \in Node : n # new => next'[n] = next[n] /\ prev'[n] = prev[n]
      /\ next'[new] = NULL /\ prev'[new] = NULL
  BY <1>0 DEF FoundLinks, IInv, TypeOK
<1>5. \A m \in Roster : m = new
  BY <1>3, Nodes DEF Exact, Linked
<1>6. /\ Roster' = Roster /\ Allocated' = Allocated /\ Bypassed' = {} /\ Bypassed = {}
      /\ Raw' = {} /\ Raw \subseteq {new}
  BY <1>0, <1>1, <1>2 DEF Roster, Allocated, Bypassed, Raw, Creating, Unlinking
<1>7. Reachable' = Roster /\ Reachable = Roster
  BY <1>6 DEF Reachable
<1>8. Forward'
  BY <1>1, <1>3, <1>4, <1>5, <1>6, <1>7, Nodes DEF Forward, Exact, Linked
<1>9. Linked'
  BY <1>1, <1>3, <1>4, <1>5, <1>6, <1>8, Nodes DEF Linked, Backward, Exact
<1>10. \A u \in Conns : Placed(u)'
  BY <1>1, <1>2, <1>6 DEF Placed, Exact, Creating, Unlinking
<1>11. \A u \in Conns : Searched(u)'
  BY <1>1, <1>7 DEF Searched, Passed, Exact, Publishing
<1>12. Distinct'
  BY <1>1, <1>6 DEF Distinct, Exact
<1>13. QED
  BY <1>9, <1>10, <1>11, <1>12 DEF Exact

LEMMA LinkTailExact ==
  ASSUME IInv, Writers, ~clash, Exact, NEW t \in Conns, LinkTail(t)
  PROVE  Exact'
<1>1. /\ Publish(t) /\ pc[t] = "link" /\ UNCHANGED head
      /\ next' = [next EXCEPT ![cur[t]] = NewNode]
      /\ pc'[t] = "links" /\ \A u \in Conns \ {t} : pc'[u] = pc[u]
  BY DEF LinkTail, At, IInv, TypeOK
<1>2. \A u \in Conns \ {t} : pc[u] \notin Creating \cup Unlinking
  BY <1>1, Alone DEF Creating
<1>3. PICK new \in Node : new = NewNode
  BY <1>1, PublishedIs
<1>4. PICK end \in Roster : end = cur[t]
  BY <1>1 DEF Exact, Placed
<1>5. /\ alloc' = new /\ mine'[t] = new /\ \A u \in Conns \ {t} : mine'[u] = mine[u]
      /\ user'[new].name = last[t] /\ user'[new].base = seen[t]
      /\ \A n \in Node : n # new => user'[n] = user[n]
      /\ UNCHANGED <<prev, kicked, cur, last, seen>>
      /\ Allocated' = Allocated \cup {new} /\ \A n \in Allocated : n < new
      /\ new \notin Allocated /\ new = alloc + 1
      /\ next[new] \notin Node /\ prev[new] \notin Node
      /\ Roster' = Roster \cup {new}
  <2>1. kicked \subseteq Allocated
    BY DEF Exact, Linked
  <2>2. QED
    BY <1>1, <1>3, <2>1, PublishedIs
<1>0. /\ alloc \in Int /\ new \in Int /\ end \in Int /\ Junk \notin Node /\ NULL \notin Node
      /\ head # new /\ new # end
      /\ \A n \in Node : n \in Int /\ (next[n] \in Node => next[n] < new)
      /\ \A n \in Allocated : n \in Node /\ n \in Int /\ n < new /\ (n \in Roster \/ n \in kicked)
      /\ \A n \in Roster : n \in Allocated /\ n \in Node /\ n \in Int /\ n < new
      /\ \A n \in kicked : n \in Allocated /\ n \in Node /\ n \notin Roster
  <2>1. /\ alloc \in Int /\ new \in Int /\ end \in Int /\ Junk \notin Node /\ NULL \notin Node
        /\ \A n \in Node : n \in Int
        /\ \A n \in Allocated : n \in Node
        /\ \A n \in Roster : n \in Allocated
    BY Nodes
  <2>2. \A n \in Node : next[n] \in Node => next[n] < new
    <3>1. \A n \in Node : next[n] \in Node => next[n] <= alloc /\ next[n] \in Int
      BY Nodes
    <3>2. alloc \in Int /\ new = alloc + 1
      BY <1>5, Nodes
    <3>3. QED
      BY <3>1, <3>2
  <2>3. \A n \in kicked : n \in Allocated
    BY DEF Exact, Linked
  <2>4. \A n \in Allocated : n \in Roster <=> n \notin kicked
    BY DEF Roster
  <2>5. \A n \in Allocated : n < new
    BY <1>5
  <2>6. head # new
    <3>1. head # NULL => head \in Allocated
      BY Nodes DEF Exact, Linked
    <3>2. new # NULL /\ new \notin Allocated
      BY <1>5, Nodes
    <3>3. QED
      BY <3>1, <3>2
  <2>7. new # end
    BY <1>4, <1>5, <2>1
  <2>8. QED
    BY <2>1, <2>2, <2>3, <2>4, <2>5, <2>6, <2>7
<1>6. /\ next'[end] = new /\ \A n \in Node : n # end => next'[n] = next[n]
      /\ next[end] \notin Node
  BY <1>1, <1>3, <1>4, Nodes DEF IInv, TypeOK, Exact, Placed
<1>7. Raw' = {new} /\ Raw = {} /\ Bypassed' = {} /\ Bypassed = {}
  BY <1>1, <1>2, <1>5 DEF Raw, Bypassed, Creating, Unlinking
<1>8. Reachable' = Roster \cup {new} /\ Reachable = Roster
  BY <1>5, <1>7 DEF Reachable
<1>18. /\ \A n \in kicked : next[n] \in Node
       /\ \A n \in Roster, m \in Roster : n < m => next[n] \in Node /\ next[n] <= m
       /\ \A n \in kicked, m \in Roster : n < m => next[n] <= m
       /\ \A n \in Roster : next[n] \in Node => next[n] \in Roster
  BY <1>8, <1>0 DEF Exact, Linked, Forward
<1>9. \A k \in Roster : k <= end
  BY <1>4, <1>6, <1>18, <1>0
<1>10. \A n \in Allocated : next'[n] \in Node /\ next'[n] <= new
  <2>1. ASSUME NEW n \in Allocated, n # end PROVE next[n] \in Node /\ next[n] < new
    <3>1. CASE n \in kicked
      BY <1>18, <3>1, <1>0
    <3>2. CASE n \in Roster
      <4>1. n < end
        BY <1>9, <2>1, <3>2, <1>0
      <4>2. next[n] \in Node
        BY <1>4, <1>18, <3>2, <4>1
      <4>3. QED
        BY <4>2, <1>0
    <3>3. QED
      BY <3>1, <3>2, <1>0
  <2>2. ASSUME NEW n \in Allocated, n # end PROVE next'[n] \in Node /\ next'[n] <= new
    <3>1. next[n] \in Node /\ next[n] < new /\ n \in Node
      BY <2>1, <2>2, <1>0
    <3>2. next'[n] = next[n]
      BY <1>6, <2>2, <3>1
    <3>3. next[n] \in Int /\ new \in Int
      BY <3>1, <1>0
    <3>4. QED
      BY <3>1, <3>2, <3>3
  <2>3. next'[end] \in Node /\ next'[end] <= new
    BY <1>6, <1>0
  <2>4. QED
    BY <2>2, <2>3
<1>11. Forward'
  <2>1. ASSUME NEW n \in Allocated', NEW m \in Reachable', n < m
        PROVE  next'[n] \in Node /\ next'[n] <= m
    <3>1. n \in Allocated
      BY <1>5, <1>8, <2>1, <1>0
    <3>2. CASE m = new
      BY <1>10, <3>1, <3>2
    <3>3. CASE m \in Roster
      <4>1. n # end
        BY <1>4, <1>9, <2>1, <3>3, <1>0
      <4>2. QED
        BY <1>6, <1>18, <2>1, <3>1, <3>3, <4>1, <1>0
    <3>4. QED
      BY <1>8, <3>2, <3>3
  <2>2. \A n \in Roster' : next'[n] \in Node => next'[n] \in Reachable'
    <3>1. ASSUME NEW n \in Roster, n # end, next[n] \in Node PROVE next[n] \in Roster
      BY <1>18, <3>1
    <3>2. QED
      BY <1>5, <1>6, <1>8, <3>1, <1>0
  <2>3. \A n \in kicked' : next'[n] \in Node
    BY <1>5, <1>10 DEF Exact, Linked
  <2>4. \A n \in Allocated' \ Raw' : next'[n] # Junk
    BY <1>5, <1>7, <1>10, <1>0
  <2>5. QED
    BY <2>1, <2>2, <2>3, <2>4 DEF Forward
<1>12. Backward'
  BY <1>1, <1>5, <1>7, <1>0 DEF Backward, Exact, Linked
<1>13. Linked'
  <2>1. head # NULL /\ head \in Roster /\ prev[head] \notin Node /\ \A m \in Roster : head <= m
    BY <1>4 DEF Exact, Linked
  <2>2. \A m \in Roster' : head <= m
    BY <1>5, <2>1, <1>0
  <2>3. kicked' \subseteq Allocated'
    BY <1>5, <1>0
  <2>4. QED
    BY <1>1, <1>5, <1>11, <1>12, <2>1, <2>2, <2>3 DEF Linked
<1>14. \A u \in Conns : Placed(u)'
  <2>1. Placed(t)'
    <3>1. head # new /\ \A k \in Roster : k <= end
      BY <1>9, <1>0
    <3>2. QED
      BY <1>1, <1>4, <1>5, <3>1, <1>0 DEF Placed
  <2>2. ASSUME NEW u \in Conns \ {t} PROVE Placed(u)'
    BY <1>1, <1>2, <1>5 DEF Placed, Exact, Creating, Unlinking
  <2>3. QED
    BY <2>1, <2>2
<1>15. \A u \in Conns : Searched(u)'
  <2>1. ASSUME NEW u \in Conns PROVE Searched(u)'
    <3>1. seen[u] <= alloc /\ seen[u] \in Int
      BY DEF Exact, Searched, IInv, TypeOK
    <3>2. ~Passed(u, new)'
      BY <1>5, <3>1, <1>0 DEF Passed
    <3>3. ASSUME NEW m \in Roster, Passed(u, m)' PROVE Passed(u, m) /\ m # new
      BY <1>1, <1>5, <3>3, <1>0 DEF Passed, Publishing
    <3>4. QED
      BY <1>5, <1>8, <3>1, <3>2, <3>3, <1>0 DEF Exact, Searched
  <2>2. QED
    BY <2>1
<1>16. Distinct'
  <2>1. ASSUME NEW m \in Roster, user[m].name = last[t] PROVE seen[t] < m
    <3>1. ~(m <= seen[t])
      BY <1>1, <1>8, <2>1 DEF Exact, Searched, Passed, Publishing
    <3>2. seen[t] \in Int /\ m \in Int
      BY Nodes DEF IInv, TypeOK
    <3>3. QED
      BY <3>1, <3>2
  <2>2. ASSUME NEW m \in Roster', NEW n \in Roster', m < n, user'[m].name = user'[n].name
        PROVE  user'[n].base < m
    <3>0. m # new
      <4>1. n = new \/ n < new
        BY <1>5, <2>2, <1>0
      <4>2. m \in Int /\ n \in Int /\ new \in Int
        BY <1>5, <2>2, <1>0
      <4>3. QED
        BY <2>2, <4>1, <4>2
    <3>1. m \in Roster /\ user'[m] = user[m]
      BY <1>5, <2>2, <3>0, <1>0
    <3>2. CASE n = new
      BY <1>5, <2>1, <2>2, <3>1, <3>2
    <3>3. CASE n \in Roster
      <4>1. n # new /\ user'[n] = user[n]
        BY <1>5, <3>3, <1>0
      <4>2. QED
        BY <2>2, <3>1, <3>3, <4>1 DEF Exact, Distinct
    <3>4. QED
      BY <1>5, <3>2, <3>3
  <2>3. QED
    BY <2>2 DEF Distinct
<1>17. QED
  BY <1>13, <1>14, <1>15, <1>16 DEF Exact

LEMMA TailLinksExact ==
  ASSUME IInv, Writers, ~clash, Exact, NEW t \in Conns, TailLinks(t)
  PROVE  Exact'
<1>1. /\ pc[t] = "links" /\ pc'[t] = "joined" /\ \A u \in Conns \ {t} : pc'[u] = pc[u]
      /\ UNCHANGED <<head, alloc, user, kicked, cur, mine, last, seen>>
  BY DEF TailLinks, At, Goto, IInv, TypeOK, history, locals
<1>2. \A u \in Conns \ {t} : pc[u] \notin Creating \cup Unlinking
  BY <1>1, Alone DEF Creating
<1>3. PICK new \in Node, before \in Roster : new = mine[t] /\ before = cur[t]
  BY <1>1, Nodes DEF Exact, Placed
<1>4. /\ new = alloc /\ new \in Roster /\ head # new /\ before < new
      /\ \A k \in Roster : k < new => k <= before
  BY <1>1, <1>3 DEF Exact, Placed, IInv, Cursors
<1>5. /\ \A n \in Node : n # new => next'[n] = next[n] /\ prev'[n] = prev[n]
      /\ next'[new] = NULL /\ prev'[new] = before
  BY <1>3 DEF TailLinks, Terminated, IInv, TypeOK
<1>6. /\ Roster' = Roster /\ Allocated' = Allocated /\ Bypassed' = {} /\ Bypassed = {}
      /\ Raw' = {} /\ Raw = {new}
  BY <1>1, <1>2, <1>3 DEF Roster, Allocated, Bypassed, Raw, Creating, Unlinking
<1>7. Reachable' = Roster /\ Reachable = Roster
  BY <1>6 DEF Reachable
<1>8. Forward'
  <2>1. \A n \in Allocated, m \in Roster : n < m => next'[n] \in Node /\ next'[n] <= m
    BY <1>4, <1>5, <1>7, Nodes DEF Exact, Linked, Forward
  <2>2. \A n \in Roster : next'[n] \in Node => next'[n] \in Roster
    BY <1>5, <1>7, Nodes DEF Exact, Linked, Forward
  <2>3. \A n \in kicked : next'[n] \in Node
    BY <1>4, <1>5, Nodes DEF Exact, Linked, Forward
  <2>4. \A n \in Allocated : next'[n] # Junk
    BY <1>5, <1>6, Nodes DEF Exact, Linked, Forward
  <2>5. QED
    BY <1>1, <1>6, <1>7, <2>1, <2>2, <2>3, <2>4 DEF Forward
<1>9. Backward'
  <2>1. ASSUME NEW m \in Roster, m # head
        PROVE  /\ prev'[m] \in Roster /\ prev'[m] < m
               /\ \A k \in Roster : k < m => k <= prev'[m]
    <3>1. CASE m = new
      BY <1>3, <1>4, <1>5, <3>1
    <3>2. CASE m # new
      BY <1>5, <1>6, <2>1, <3>2, Nodes DEF Exact, Linked, Backward
    <3>3. QED
      BY <3>1, <3>2
  <2>2. QED
    BY <1>1, <1>6, <2>1 DEF Backward
<1>10. Linked'
  BY <1>1, <1>4, <1>5, <1>6, <1>8, <1>9, Nodes DEF Linked, Exact
<1>11. \A u \in Conns : Placed(u)'
  BY <1>1, <1>2, <1>6 DEF Placed, Exact, Creating, Unlinking
<1>12. \A u \in Conns : Searched(u)'
  BY <1>1, <1>7 DEF Searched, Passed, Exact, Publishing
<1>13. Distinct'
  BY <1>1, <1>6 DEF Distinct, Exact
<1>14. QED
  BY <1>10, <1>11, <1>12, <1>13 DEF Exact

LEMMA UnlinkExact ==
  ASSUME IInv, Writers, ~clash, Exact, NEW t \in Conns, Unlink(t)
  PROVE  Exact'
<1>1. /\ pc[t] = "unlink" /\ pc'[t] = "relink" /\ \A u \in Conns \ {t} : pc'[u] = pc[u]
      /\ UNCHANGED <<head, alloc, user, prev, kicked, cur, mine, last, seen>>
      /\ prev[cur[t]] \in Node
  BY DEF Unlink, At, Goto, IInv, TypeOK, history, locals
<1>2. \A u \in Conns \ {t} : pc[u] \notin Creating \cup Kicking
  BY <1>1, Alone DEF Kicking, Unlinking
<1>3. PICK n \in Roster : n = cur[t]
  BY <1>1 DEF Exact, Placed
<1>4. /\ Bypassed = {} /\ Raw = {} /\ Bypassed' = {n} /\ Raw' = {}
      /\ Roster' = Roster /\ Allocated' = Allocated
  BY <1>1, <1>2, <1>3, Nodes
     DEF Bypassed, Raw, Roster, Allocated, Creating, Kicking, Unlinking
<1>5. Reachable = Roster /\ Reachable' = Roster \ {n}
  BY <1>4 DEF Reachable
<1>6. n # head
  BY <1>1, <1>3, Nodes DEF Exact, Linked
<1>7. PICK p \in Roster : /\ p = prev[n] /\ p < n /\ \A k \in Roster : k < n => k <= p
  BY <1>3, <1>4, <1>6 DEF Exact, Linked, Backward
<1>8. /\ \A k \in Allocated, m \in Roster : k < m => next[k] \in Node /\ next[k] <= m
      /\ \A k \in Roster : next[k] \in Node => next[k] \in Roster
      /\ \A k \in kicked : next[k] \in Node
      /\ \A k \in Allocated : next[k] # Junk
  BY <1>4, <1>5 DEF Exact, Linked, Forward
<1>9. /\ \A k \in Allocated : k \in Node /\ k \in Int
      /\ \A k \in Roster : k \in Allocated /\ k \in Int /\ k \notin kicked
      /\ kicked \subseteq Allocated
      /\ \A k \in Node : next[k] \in Node => k < next[k] /\ next[k] \in Int
  <2>1. kicked \subseteq Allocated
    BY DEF Exact, Linked
  <2>2. QED
    BY <2>1, Nodes
<1>10. next'[p] = next[n] /\ \A k \in Node : k # p => next'[k] = next[k]
  BY <1>3, <1>7, <1>9 DEF Unlink, Unlinked, IInv, TypeOK
<1>11. Forward'
  <2>1. ASSUME NEW k \in Allocated, NEW m \in Roster, m # n, k < m
        PROVE  next'[k] \in Node /\ next'[k] <= m
    <3>1. CASE k = p
      <4>1. n < m
        BY <1>7, <1>9, <2>1, <3>1
      <4>2. QED
        BY <1>8, <1>9, <1>10, <3>1, <4>1
    <3>2. CASE k # p
      BY <1>8, <1>9, <1>10, <2>1, <3>2
    <3>3. QED
      BY <3>1, <3>2
  <2>2. ASSUME NEW k \in Roster, next'[k] \in Node
        PROVE  next'[k] \in Roster \ {n}
    <3>1. CASE k = p
      BY <1>8, <1>9, <1>10, <2>2, <3>1
    <3>2. CASE k # p
      <4>1. next'[k] = next[k] /\ next[k] \in Roster
        BY <1>8, <1>9, <1>10, <2>2, <3>2
      <4>2. ASSUME next[k] = n PROVE FALSE
        <5>1. k < n
          BY <1>9, <4>2
        <5>2. k < p
          BY <1>7, <1>9, <3>2, <5>1
        <5>3. next[k] <= p
          BY <1>8, <1>9, <5>2
        <5>4. QED
          BY <1>7, <1>9, <4>2, <5>3
      <4>3. QED
        BY <4>1, <4>2
    <3>3. QED
      BY <3>1, <3>2
  <2>3. \A k \in kicked : next'[k] \in Node
    BY <1>8, <1>9, <1>10
  <2>4. \A k \in Allocated : next'[k] # Junk
    BY <1>8, <1>9, <1>10
  <2>5. QED
    BY <1>1, <1>4, <1>5, <2>1, <2>2, <2>3, <2>4 DEF Forward
<1>12. Backward'
  BY <1>1, <1>4 DEF Backward, Exact, Linked
<1>13. Linked'
  BY <1>1, <1>4, <1>11, <1>12 DEF Linked, Exact
<1>14. \A u \in Conns : Placed(u)'
  <2>1. Placed(t)'
    BY <1>1, <1>3, <1>4, <1>6 DEF Placed
  <2>2. ASSUME NEW u \in Conns \ {t} PROVE Placed(u)'
    BY <1>1, <1>2, <1>4 DEF Placed, Creating, Kicking, Unlinking
  <2>3. QED
    BY <2>1, <2>2
<1>15. \A u \in Conns : Searched(u)'
  BY <1>1, <1>5 DEF Searched, Passed, Exact, Publishing
<1>16. Distinct'
  BY <1>1, <1>4 DEF Distinct, Exact
<1>17. QED
  BY <1>13, <1>14, <1>15, <1>16 DEF Exact

LEMMA RelinkExact ==
  ASSUME IInv, Writers, ~clash, Exact, NEW t \in Conns, Relink(t)
  PROVE  Exact'
<1>1. /\ pc[t] = "relink" /\ pc'[t] = "recv?" /\ next[cur[t]] \in Node
      /\ \A u \in Conns \ {t} : /\ pc'[u] = pc[u] /\ cur'[u] = cur[u] /\ mine'[u] = mine[u]
                                /\ last'[u] = last[u] /\ seen'[u] = seen[u]
      /\ seen'[t] = 0 /\ kicked' = kicked \cup {cur[t]}
      /\ UNCHANGED <<head, alloc, user, next>>
  BY DEF Relink, At, EndRequest, Finish, IInv, TypeOK
<1>2. \A u \in Conns \ {t} : pc[u] \notin Creating \cup Kicking
  BY <1>1, Alone DEF Kicking, Unlinking
<1>3. PICK n \in Roster : n = cur[t]
  BY <1>1 DEF Exact, Placed
<1>4. PICK s \in Node : s = next[n]
  BY <1>1, <1>3
<1>5. /\ Bypassed = {n} /\ Raw = {} /\ Bypassed' = {} /\ Raw' = {}
      /\ Roster' = Roster \ {n} /\ Allocated' = Allocated
  BY <1>1, <1>2, <1>3, Nodes
     DEF Bypassed, Raw, Roster, Allocated, Creating, Kicking, Unlinking
<1>6. Reachable = Roster \ {n} /\ Reachable' = Roster \ {n}
  BY <1>5 DEF Reachable
<1>7. n # head
  BY <1>1, <1>3 DEF Exact, Placed
<1>8. PICK p \in Roster : /\ p = prev[n] /\ p < n /\ \A k \in Roster : k < n => k <= p
  BY <1>3, <1>5, <1>7 DEF Exact, Linked, Backward
<1>9. /\ \A k \in Allocated : k \in Node /\ k \in Int
      /\ \A k \in Roster : k \in Allocated /\ k \in Node /\ k \in Int
      /\ kicked \subseteq Allocated /\ n < s /\ s \in Int
      /\ head # NULL /\ head \in Roster
      /\ \A m \in Roster : head <= m
      /\ prev[head] \notin Node
  <2>1. /\ kicked \subseteq Allocated /\ head # NULL /\ head \in Roster
        /\ \A m \in Roster : head <= m
        /\ prev[head] \notin Node
    BY <1>3 DEF Exact, Linked
  <2>2. n < s
    BY <1>3, <1>4, Nodes
  <2>3. QED
    BY <2>1, <2>2, Nodes
<1>10. /\ \A m \in Roster : n < m => s <= m
       /\ s \in Roster
  BY <1>4, <1>6, <1>9 DEF Exact, Linked, Forward
<1>11. prev'[s] = p /\ \A k \in Node : k # s => prev'[k] = prev[k]
  BY <1>3, <1>4, <1>8 DEF Relink, Relinked, IInv, TypeOK
<1>12. Forward'
  <2>1. \A k \in kicked' : next'[k] \in Node
    BY <1>1, <1>3 DEF Exact, Linked, Forward
  <2>2. QED
    BY <1>1, <1>5, <1>6, <2>1 DEF Forward, Exact, Linked
<1>13. Backward'
  <2>1. ASSUME NEW m \in Roster, m # n, m # head
        PROVE  /\ prev'[m] \in Roster \ {n} /\ prev'[m] < m
               /\ \A k \in Roster \ {n} : k < m => k <= prev'[m]
    <3>1. CASE m = s
      <4>1. p # n /\ p < s
        BY <1>8, <1>9
      <4>2. \A k \in Roster \ {n} : k < s => k < n
        BY <1>9, <1>10
      <4>3. QED
        BY <1>8, <1>11, <3>1, <4>1, <4>2
    <3>2. CASE m # s
      <4>1. prev'[m] = prev[m]
        BY <1>9, <1>11, <3>2
      <4>2. /\ prev[m] \in Roster /\ prev[m] < m
            /\ \A k \in Roster : k < m => k <= prev[m]
        BY <1>5, <2>1 DEF Exact, Linked, Backward
      <4>3. ASSUME prev[m] = n PROVE FALSE
        <5>1. s < m
          BY <1>9, <1>10, <3>2, <4>2, <4>3
        <5>2. QED
          BY <1>9, <1>10, <4>2, <4>3, <5>1
      <4>4. QED
        BY <4>1, <4>2, <4>3
    <3>3. QED
      BY <3>1, <3>2
  <2>2. QED
    BY <1>1, <1>5, <2>1 DEF Backward
<1>14. Linked'
  <2>1. head \in Roster \ {n} /\ prev'[head] \notin Node
    BY <1>7, <1>9, <1>11
  <2>2. QED
    BY <1>1, <1>3, <1>5, <1>9, <1>12, <1>13, <2>1 DEF Linked
<1>15. \A u \in Conns : Placed(u)'
  BY <1>1, <1>2 DEF Placed, Creating, Kicking, Unlinking
<1>16. \A u \in Conns : Searched(u)'
  <2>1. Searched(t)'
    BY <1>1, Nodes DEF Searched, Passed, Publishing
  <2>2. ASSUME NEW u \in Conns \ {t} PROVE Searched(u)'
    BY <1>1, <1>6 DEF Searched, Passed, Exact
  <2>3. QED
    BY <2>1, <2>2
<1>17. Distinct'
  BY <1>1, <1>5 DEF Distinct, Exact
<1>18. QED
  BY <1>14, <1>15, <1>16, <1>17 DEF Exact

\* The other steps of a handler that stands in the list.
LEMMA JoinBeginExact ==
  ASSUME IInv, Exact, NEW t \in Conns, JoinBegin(t)
  PROVE  Exact'
<1>1. Leaves(t) /\ pc'[t] = "scan" /\ cur'[t] = head /\ seen'[t] = alloc
  BY DEF JoinBegin, At, Leaves, Others, Touching, shared, ptrVars, history, IInv, TypeOK
<1>2. Placed(t)'
  BY <1>1 DEF Placed
<1>3. \A m \in Reachable : ~Passed(t, m)'
  BY <1>1, Nodes DEF Passed, Publishing, Exact, Linked
<1>4. alloc <= alloc
  BY Nodes
<1>5. QED
  BY <1>1, <1>2, <1>3, <1>4, LeavesExact

LEMMA ScanExact ==
  ASSUME IInv, Exact, NEW t \in Conns, Scan(t)
  PROVE  Exact'
<1>1. /\ Leaves(t) /\ cur[t] # NULL /\ pc[t] \in {"scan", "dup"}
      /\ pc'[t] = IF SameName(t, cur[t]) THEN "dup" ELSE pc[t]
      /\ cur'[t] = Follow(cur[t]) /\ last'[t] = last[t] /\ seen'[t] = seen[t]
  BY DEF Scan, At, Visit, Leaves, Others, Touching, shared, ptrVars, history, IInv, TypeOK
<1>2. seen'[t] <= alloc
  BY <1>1 DEF Exact, Searched
<1>3. CASE pc'[t] = "dup"
  BY <1>1, <1>2, <1>3, LeavesIdle
     DEF Standing, Creating, Kicking, Unlinking
<1>4. CASE pc'[t] # "dup"
  <2>1. pc[t] = "scan" /\ pc'[t] = "scan" /\ user[cur[t]].name # last[t]
    BY <1>1, <1>4 DEF SameName
  <2>2. Placed(t)'
    BY <2>1 DEF Placed
  <2>3. ASSUME NEW m \in Reachable, Passed(t, m)' PROVE user[m].name # last'[t]
    <3>1. m <= seen[t] /\ (cur'[t] = NULL \/ m < cur'[t])
      BY <1>1, <2>1, <2>3 DEF Passed, Publishing
    <3>2. CASE m < cur[t]
      BY <1>1, <2>1, <3>1, <3>2 DEF Exact, Searched, Passed
    <3>3. CASE m = cur[t]
      BY <1>1, <2>1, <3>3
    <3>4. CASE cur[t] < m
      <4>1. cur[t] \in Allocated
        BY <1>1, Nodes
      <4>2. next[cur[t]] \in Node /\ next[cur[t]] <= m
        BY <3>4, <4>1 DEF Exact, Linked, Forward
      <4>3. cur'[t] = next[cur[t]] /\ cur'[t] # NULL /\ cur'[t] \in Int /\ m \in Int
        BY <1>1, <4>2, Nodes DEF Follow
      <4>4. QED
        BY <3>1, <4>2, <4>3
    <3>5. QED
      BY <3>2, <3>3, <3>4, Nodes
  <2>4. QED
    BY <1>1, <1>2, <2>2, <2>3, LeavesExact
<1>5. QED
  BY <1>3, <1>4

LEMMA NameFreeExact ==
  ASSUME IInv, Exact, NEW t \in Conns, NameFree(t)
  PROVE  Exact'
<1>1. /\ Leaves(t) /\ pc[t] = "scan" /\ pc'[t] = "create" /\ cur[t] = NULL
      /\ last'[t] = last[t] /\ seen'[t] = seen[t]
  BY DEF NameFree, At, Goto, Leaves, Others, Touching, locals, ptrVars, IInv, TypeOK
<1>2. seen'[t] <= alloc
  BY <1>1 DEF Exact, Searched
<1>3. Placed(t)'
  BY <1>1 DEF Placed
<1>4. \A m \in Reachable : Passed(t, m)' => user[m].name # last'[t]
  BY <1>1 DEF Passed, Exact, Searched
<1>5. QED
  BY <1>1, <1>2, <1>3, <1>4, LeavesExact

LEMMA TailExact ==
  ASSUME IInv, Writers, ~clash, Exact, NEW t \in Conns,
         TestHead(t) \/ TailTest(t) \/ TailNext(t)
  PROVE  Exact'
<1>1. /\ Leaves(t) /\ pc[t] \in {"create", "tail", "tailnext"}
      /\ pc'[t] \in {"found", "tail", "tailnext", "link"}
      /\ last'[t] = last[t] /\ seen'[t] = seen[t]
  BY DEF TestHead, TailTest, TailNext, At, Goto, Visit, Leaves, Others, Touching, shared,
         locals, ptrVars, history, IInv, TypeOK
<1>2. seen'[t] <= alloc
  BY <1>1 DEF Exact, Searched
<1>3. \A m \in Reachable : Passed(t, m)' => user[m].name # last'[t]
  BY <1>1 DEF Passed, Publishing, Exact, Searched
<1>4. \A k \in Roster : Follow(k) = next[k] /\ (next[k] \in Node => next[k] \in Roster)
  <2>1. Raw = {}
    BY <1>1, Alone DEF Raw, Creating
  <2>2. QED
    BY <2>1, Nodes DEF Exact, Linked, Forward, Follow
<1>5. Placed(t)'
  <2>1. CASE TestHead(t)
    <3>1. /\ pc'[t] = IF head = NULL THEN "found" ELSE "tail"
          /\ cur'[t] = head /\ UNCHANGED <<alloc, kicked>>
      BY <2>1 DEF TestHead, At, Visit, shared, ptrVars, history, IInv, TypeOK
    <3>2. Roster' = Roster /\ (head # NULL => head \in Roster)
      BY <3>1 DEF Exact, Linked, Roster, Allocated
    <3>3. QED
      BY <3>1, <3>2 DEF Placed
  <2>2. CASE TailTest(t)
    <3>1. /\ pc[t] = "tail" /\ cur'[t] = cur[t] /\ UNCHANGED <<alloc, kicked, next>>
          /\ pc'[t] = IF Follow(cur[t]) = NULL THEN "link" ELSE "tailnext"
      BY <2>2 DEF TailTest, At, Goto, locals, shared, ptrVars, history, IInv, TypeOK
    <3>2. cur[t] \in Roster /\ Roster' = Roster
      BY <3>1 DEF Exact, Placed, Roster, Allocated
    <3>3. next[cur[t]] \in Node \cup {NULL, Junk} /\ next[cur[t]] # Junk
      <4>1. Raw = {}
        BY <1>1, Alone DEF Raw, Creating
      <4>2. QED
        BY <3>2, <4>1, Nodes DEF Exact, Linked, Forward
    <3>4. QED
      BY <1>4, <3>1, <3>2, <3>3, Nodes DEF Placed
  <2>3. CASE TailNext(t)
    <3>1. /\ pc[t] = "tailnext" /\ pc'[t] = "tail" /\ cur'[t] = Follow(cur[t])
          /\ UNCHANGED <<alloc, kicked>>
      BY <2>3 DEF TailNext, At, Visit, shared, ptrVars, history, IInv, TypeOK
    <3>2. cur[t] \in Roster /\ next[cur[t]] \in Node /\ Roster' = Roster
      BY <3>1 DEF Exact, Placed, Roster, Allocated
    <3>3. QED
      BY <1>4, <3>1, <3>2 DEF Placed
  <2>4. QED
    BY <2>1, <2>2, <2>3
<1>6. QED
  BY <1>1, <1>2, <1>3, <1>5, LeavesExact

LEMMA KickSearchExact ==
  ASSUME IInv, Writers, Exact, NEW t \in Conns,
         \/ Grant(t) /\ pc[t] = "KICK"
         \/ Search(t) /\ pc[t] = "KICK-find"
         \/ KickFound(t)
  PROVE  Exact'
<1>1. /\ Leaves(t) /\ pc'[t] \in {"KICK-find", "unlink"} /\ seen'[t] = seen[t]
  BY DEF Grant, Granted, Search, KickFound, At, Goto, Visit, Leaves, Others, Touching, shared,
         locals, ptrVars, history, IInv, TypeOK
<1>2. seen'[t] <= alloc
  BY <1>1 DEF Exact, Searched
<1>3. \A m \in Reachable : ~Passed(t, m)'
  BY <1>1 DEF Passed, Publishing
<1>4. Roster' = Roster
  BY <1>1 DEF Leaves, ptrVars, Roster, Allocated
<1>5. Placed(t)'
  <2>1. CASE Grant(t) /\ pc[t] = "KICK"
    <3>1. pc'[t] = "KICK-find" /\ cur'[t] = head
      BY <2>1 DEF Grant, Granted, Visit, IInv, TypeOK
    <3>2. head \in Roster \cup {NULL}
      BY DEF Exact, Linked
    <3>3. QED
      BY <1>4, <3>1, <3>2 DEF Placed
  <2>2. CASE Search(t) /\ pc[t] = "KICK-find"
    <3>1. pc'[t] = "KICK-find" /\ cur'[t] = Follow(cur[t]) /\ cur[t] # NULL
      BY <2>2 DEF Search, Visit, IInv, TypeOK
    <3>2. cur[t] \in Roster
      BY <2>2, <3>1 DEF Exact, Placed
    <3>3. Follow(cur[t]) \in Roster \cup {NULL}
      BY <3>2, Nodes DEF Follow, Exact, Linked, Forward
    <3>4. QED
      BY <1>4, <3>1, <3>3 DEF Placed
  <2>3. CASE KickFound(t)
    <3>1. pc[t] = "KICK-find" /\ pc'[t] = "unlink" /\ cur'[t] = cur[t] /\ cur[t] # NULL
      BY <2>3 DEF KickFound, At, Hit, Goto, locals, IInv, TypeOK, Searching
    <3>2. cur[t] \in Roster
      BY <3>1 DEF Exact, Placed
    <3>3. QED
      BY <1>4, <3>1, <3>2 DEF Placed
  <2>4. QED
    BY <2>1, <2>2, <2>3
<1>6. QED
  BY <1>1, <1>2, <1>3, <1>5, LeavesExact

\* ... and of one that stands nowhere in it, or leaves it.
LEMMA IdleExact ==
  ASSUME IInv, Exact, NEW t \in Conns,
         \/ ReadArg(t) \/ CallRecv(t) \/ Receive(t) \/ Leave(t) \/ CloseSocket(t)
         \/ Refuse(t) \/ NameInUse(t) \/ Crown(t) \/ Broadcast(t)
         \/ PmsgBegin(t) \/ Deny(t) \/ UnknownName(t) \/ Deliver(t)
         \/ PassOperator(t) \/ SetTopic(t) \/ Reply(t)
         \/ Grant(t) /\ pc[t] # "KICK"
         \/ Search(t) /\ pc[t] # "KICK-find"
  PROVE  Exact'
<1> DEFINE Idle == Leaves(t) /\ pc'[t] \notin Standing /\ seen'[t] \in {seen[t], 0}
<1>0. /\ pc \in [Conns -> Pcs] /\ seen \in [Conns -> 0..MaxNodes]
      /\ cur \in [Conns -> Node \cup {NULL}] /\ mine \in [Conns -> Node \cup {NULL}]
      /\ last \in [Conns -> Names \cup {NoName}]
  BY DEF IInv, TypeOK
<1> USE DEF Leaves, Others, Touching, Standing, Creating, Kicking, Unlinking, shared,
            locals, ptrVars, history
<1>1. Idle
  <2>1. CASE ReadArg(t)
    BY <1>0, <2>1 DEF ReadArg, At
  <2>2. CASE CallRecv(t)
    BY <1>0, <2>2 DEF CallRecv, At
  <2>3. CASE Receive(t)
    <3>1. PICK cmd \in AllCommands, n \in Names \cup {NoName} :
            pc' = [pc EXCEPT ![t] = cmd] /\ last' = [last EXCEPT ![t] = n]
      BY <2>3 DEF Receive
    <3>2. pc'[t] \in AllCommands /\ \A u \in Conns \ {t} : pc'[u] = pc[u]
      BY <1>0, <3>1
    <3>3. pc'[t] \notin Standing /\ pc'[t] \notin Touching
      BY <3>2 DEF AllCommands
    <3>4. pc[t] \notin Touching
      BY <2>3 DEF Receive, At
    <3>5. UNCHANGED <<ptrVars, kicked, cur, mine, seen>>
      BY <2>3 DEF Receive
    <3>6. QED
      BY <1>0, <3>1, <3>2, <3>3, <3>4, <3>5
  <2>4. CASE Leave(t)
    BY <1>0, <2>4 DEF Leave, At
  <2>5. CASE CloseSocket(t)
    BY <1>0, <2>5 DEF CloseSocket, At, Goto
  <2>6. CASE Refuse(t)
    BY <1>0, <2>6 DEF Refuse, At, EndRequest, Finish
  <2>7. CASE NameInUse(t)
    BY <1>0, <2>7 DEF NameInUse, At, EndRequest, Finish
  <2>8. CASE Crown(t)
    BY <1>0, <2>8 DEF Crown, At, Goto
  <2>9. CASE CastBegin(t)
    BY <1>0, <2>9 DEF CastBegin, At, Visit
  <2>10. CASE Cast(t)
    BY <1>0, <2>10 DEF Cast, At, Visit
  <2>11. CASE CastEnd(t)
    BY <1>0, <2>11 DEF CastEnd, At, EndRequest, Finish
  <2>12. CASE PmsgBegin(t)
    BY <1>0, <2>12 DEF PmsgBegin, At, Visit
  <2>13. CASE Deny(t)
    BY <1>0, <2>13 DEF Deny, At, Finish
  <2>14. CASE UnknownName(t)
    BY <1>0, <2>14 DEF UnknownName, Searching, At, EndRequest, Finish
  <2>15. CASE Deliver(t)
    BY <1>0, <2>15 DEF Deliver, At, EndRequest, Finish
  <2>16. CASE PassOperator(t)
    BY <1>0, <2>16 DEF PassOperator, At, Finish
  <2>17. CASE SetTopic(t)
    BY <1>0, <2>17 DEF SetTopic, At, EndRequest, Finish
  <2>18. CASE Grant(t) /\ pc[t] # "KICK"
    <3>1. pc[t] = "OP" \/ pc[t] = "TOPIC"
      BY <2>18 DEF Grant, At
    <3>2. Granted("OP") = "OP-find" /\ Granted("TOPIC") = "set"
      BY DEF Granted
    <3>3. pc'[t] \in {"OP-find", "set"} /\ \A u \in Conns \ {t} : pc'[u] = pc[u]
      BY <1>0, <2>18, <3>1, <3>2 DEF Grant, Visit
    <3>4. UNCHANGED <<ptrVars, kicked, mine, last, seen>>
      BY <2>18 DEF Grant, Visit
    <3>5. \A u \in Conns \ {t} : cur'[u] = cur[u]
      BY <1>0, <2>18 DEF Grant, Visit
    <3>6. QED
      BY <3>1, <3>3, <3>4, <3>5
  <2>19. CASE Search(t) /\ pc[t] # "KICK-find"
    BY <1>0, <2>19 DEF Search, Searching, At, Visit
  <2>20. CASE MsgBegin(t) \/ MsgReply(t)
    BY <1>0, <2>20 DEF MsgBegin, MsgReply, At, Visit, Goto
  <2>21. CASE Reply(t)
    BY <1>0, <2>21 DEF Reply, At, Goto
  <2>22. QED
    BY <2>1, <2>2, <2>3, <2>4, <2>5, <2>6, <2>7, <2>8, <2>9, <2>10, <2>11, <2>12, <2>13,
       <2>14, <2>15, <2>16, <2>17, <2>18, <2>19, <2>20, <2>21
    DEF Broadcast
<1>2. 0 <= alloc /\ seen[t] <= alloc
  BY Nodes DEF Exact, Searched
<1>3. QED
  <2> HIDE DEF Leaves, Standing
  <2> QED
    BY <1>1, <1>2, LeavesIdle

LEMMA StillExact ==
  ASSUME Exact, UNCHANGED <<ptrVars, kicked, pc, cur, mine, last, seen>>
  PROVE  Exact'
<1>1. UNCHANGED <<head, alloc, user, next, prev, kicked, pc, cur, mine, last, seen>>
  BY DEF ptrVars
<1>2. Bypassed' = Bypassed /\ Raw' = Raw
  BY <1>1 DEF Bypassed, Raw
<1>3. Roster' = Roster /\ Allocated' = Allocated /\ Reachable' = Reachable
  BY <1>1, <1>2 DEF Roster, Allocated, Reachable
<1>4. Linked' /\ Distinct'
  BY <1>1, <1>2, <1>3 DEF Exact, Linked, Forward, Backward, Distinct
<1>5. \A u \in Conns : Placed(u)' /\ Searched(u)'
  BY <1>1, <1>3 DEF Exact, Placed, Searched, Passed
<1>6. QED
  BY <1>4, <1>5 DEF Exact

LEMMA CreateThreadExact ==
  ASSUME IInv, Exact, CreateThread
  PROVE  Exact'
<1>1. PICK t \in Conns : t = accepted /\ pc[t] = "none"
  BY DEF CreateThread, IInv, Cursors
<1>2. pc' = [pc EXCEPT ![t] = "start"]
  BY <1>1 DEF CreateThread, Goto
<1>3. Leaves(t) /\ pc'[t] \notin Standing /\ seen'[t] = seen[t]
  BY <1>1, <1>2 DEF CreateThread, Goto, Leaves, Others, Touching, Standing, Creating, Kicking,
     Unlinking, ptrVars, locals, history, IInv, TypeOK
<1>4. seen[t] <= alloc
  BY DEF Exact, Searched
<1>5. QED
  BY <1>3, <1>4, LeavesIdle

LEMMA ListInductive ==
  ASSUME Sound, ListInv, [Next]_vars
  PROVE  ListInv'
<1> SUFFICES ASSUME ~clash' PROVE Exact'
  BY DEF ListInv
<1>1. ~clash
  BY HistoryGrows
<1>2. IInv /\ Writers /\ Exact
  BY <1>1 DEF Sound, ListInv
<1>3. CASE CreateThread
  BY <1>2, <1>3, CreateThreadExact
<1>4. CASE CreateFails \/ AcceptFails
  BY <1>2, <1>4, StillExact DEF CreateFails, AcceptFails, locals, history
<1>5. ASSUME NEW c \in Conns, Accept(c) \/ Hangup(c) PROVE Exact'
  BY <1>2, <1>5, StillExact DEF Accept, Hangup, locals, history
<1>6. ASSUME NEW c \in Conns, SegFault(c) \/ SigPipe(c) PROVE Exact'
  <2>1. Dies
    BY <1>6 DEF SegFault, SigPipe
  <2>2. QED
    BY <1>2, <2>1, StillExact DEF Dies, locals, history
<1>7. CASE UNCHANGED vars
  BY <1>2, <1>7, StillExact DEF vars, shared, locals, history
<1>8. ASSUME NEW t \in Conns, Block(t) \/ SendReturns(t) PROVE Exact'
  BY <1>2, <1>8, StillExact DEF Block, SendReturns, shared, history
<1>9. ASSUME NEW t \in Conns, Receive(t) \/ Handle(t),
             ~SegFault(t), ~SigPipe(t), ~SendBroken(t)
      PROVE  Exact'
  <2>1. CASE Join(t)
    BY <1>2, <2>1, JoinBeginExact, ScanExact, NameFreeExact, IdleExact DEF Join
  <2>2. CASE Create(t)
    BY <1>1, <1>2, <2>2, TailExact, FoundExact, FoundLinksExact, LinkTailExact,
       TailLinksExact, IdleExact DEF Create
  <2>3. CASE Command(t)
    BY <1>1, <1>2, <2>3, KickSearchExact, UnlinkExact, RelinkExact, IdleExact DEF Command
  <2>4. QED
    BY <1>2, <1>9, <2>1, <2>2, <2>3, IdleExact DEF Handle
<1>10. QED
  BY <1>3, <1>4, <1>5, <1>6, <1>7, <1>8, <1>9 DEF Next, Handle, SendBroken

LEMMA ListInitially == Init => ListInv
<1> SUFFICES ASSUME Init PROVE Exact
  BY DEF ListInv
<1>1. /\ Allocated = {} /\ Roster = {} /\ Reachable = {} /\ kicked = {} /\ head = NULL
  BY DEF Init, Allocated, Roster, Reachable
<1>2. Linked /\ Distinct
  BY <1>1 DEF Linked, Forward, Backward, Distinct
<1>3. \A t \in Conns : Placed(t) /\ Searched(t)
  BY <1>1 DEF Init, Placed, Searched
<1>4. QED
  BY <1>2, <1>3 DEF Exact

LEMMA ListInvariant == Spec => [](Sound /\ ListInv)
BY SoundInvariant, ListInitially, ListInductive, PTL DEF Spec

\* As long as no two list updates overlapped and while none runs, next and prev
\* are the list of exactly the users who joined and were not kicked, in order;
\* whatever walks, broadcasts and searches run meanwhile (createUser 39-55, KICK
\* 213-225).
THEOREM TheListIsTheRoster == Spec => []ListExact
<1>1. Sound /\ ListInv => ListExact
  <2> SUFFICES ASSUME Sound, ListInv, ~clash,
                      \A t \in Conns : pc[t] \notin Creating \cup Unlinking
               PROVE  /\ (head = NULL) = (Roster = {})
                      /\ head # NULL => head \in Roster /\ \A m \in Roster : head <= m
                      /\ \A n \in Roster :
                           LET later == {m \in Roster : m > n} IN
                           IF later = {} THEN next[n] = NULL
                           ELSE /\ next[n] \in later /\ \A m \in later : next[n] <= m
                                /\ prev[next[n]] = n
    BY DEF ListExact
  <2>1. IInv /\ Linked
    BY DEF Sound, ListInv, Exact
  <2>2. Raw = {} /\ Reachable = Roster
    BY DEF Raw, Bypassed, Reachable, Creating, Unlinking
  <2>3. /\ (head = NULL) <=> (Roster = {})
        /\ head # NULL => head \in Roster /\ \A m \in Roster : head <= m
    BY <2>1 DEF Linked
  <2>4. ASSUME NEW n \in Roster, \A m \in Roster : ~(m > n) PROVE next[n] = NULL
    BY <2>1, <2>2, <2>4, Nodes DEF Linked, Forward
  <2>5. ASSUME NEW n \in Roster, NEW l \in Roster, l > n
        PROVE  /\ next[n] \in Roster /\ next[n] > n
               /\ \A m \in Roster : m > n => next[n] <= m
               /\ prev[next[n]] = n
    <3>1. \A m \in Roster : m \in Int /\ m \in Allocated
      BY <2>1, Nodes
    <3>2. \A m \in Roster : m > n => next[n] \in Node /\ next[n] <= m
      BY <2>1, <2>2, <3>1 DEF Linked, Forward
    <3>3. PICK s \in Roster : s = next[n] /\ n < s
      BY <2>1, <2>2, <2>5, <3>1, <3>2, Nodes DEF Linked, Forward
    <3>4. s # head
      BY <2>3, <3>1, <3>3, Nodes
    <3>5. /\ prev[s] \in Roster /\ prev[s] < s
          /\ \A k \in Roster : k < s => k <= prev[s]
      BY <2>1, <2>2, <3>4 DEF Linked, Backward
    <3>6. prev[s] = n
      BY <3>1, <3>2, <3>3, <3>5
    <3>7. QED
      BY <3>1, <3>2, <3>3, <3>6
  <2>6. QED
    BY <2>3, <2>4, <2>5
<1>2. QED
  BY <1>1, ListInvariant, PTL

\* Two users have one name only if the later one's scan (112-121) began before
\* the earlier one was published (128), or list updates overlapped.
THEOREM NamesAreUnique == Spec => []NamesUnique
<1>1. ListInv => NamesUnique
  BY DEF ListInv, Exact, Distinct, NamesUnique
<1>2. QED
  BY <1>1, ListInvariant, PTL
=============================================================================
