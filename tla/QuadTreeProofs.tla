--------------------------- MODULE QuadTreeProofs ---------------------------
(***************************************************************************)
(* Proofs about QuadTree, for every set of boxes, all bounds of the world  *)
(* and every MAX_OBJECTS and MAX_LEVELS: its types, and that query()       *)
(* compares every two boxes of the world that intersect.                   *)
(***************************************************************************)
EXTENDS QuadTree, TLAPS, SequenceTheorems, FiniteSetTheorems

Path == Seq(Child)

-----------------------------------------------------------------------------
(* Boxes. *)

\* The midlines of a box are integers.
LEMMA MidTypes ==
  ASSUME NEW b \in Boxes
  PROVE  MidX(b) \in Int /\ MidY(b) \in Int
BY DEF Boxes, MidX, MidY

\* A quarter of a box is a box.
LEMMA QuarterType ==
  ASSUME NEW b \in Boxes, NEW i \in Child
  PROVE  Quarter(b, i) \in Boxes
BY MidTypes DEF Boxes, Quarter

\* getChildIndex() names a quarter, or none with -1.
LEMMA ChildIndexType ==
  ASSUME NEW b \in Boxes, NEW box \in Boxes
  PROVE  getChildIndex(b, box) \in Child \cup {-1}
BY DEF getChildIndex, Child

\* A box goes to the quarter that has all of it.
LEMMA QuarterContains ==
  ASSUME NEW b \in Boxes, NEW box \in Boxes, Contains(b, box),
         getChildIndex(b, box) # -1
  PROVE  Contains(Quarter(b, getChildIndex(b, box)), box)
<1> DEFINE i == getChildIndex(b, box)
<1>1. MidX(b) \in Int /\ MidY(b) \in Int
  BY MidTypes
<1> QED BY <1>1 DEF getChildIndex, Contains, Quarter, Boxes

\* Boxes that go to different quarters do not intersect.
LEMMA QuartersApart ==
  ASSUME NEW b \in Boxes, NEW box \in Boxes, NEW other \in Boxes,
         getChildIndex(b, box) # -1, getChildIndex(b, other) # -1,
         getChildIndex(b, box) # getChildIndex(b, other)
  PROVE  ~Intersects(box, other)
<1>1. MidX(b) \in Int /\ MidY(b) \in Int
  BY MidTypes
<1> QED BY <1>1 DEF getChildIndex, Intersects, Boxes

\* What meets a box meets every box that has all of it.
LEMMA ContainerMeets ==
  ASSUME NEW b \in Boxes, NEW box \in Boxes, NEW other \in Boxes,
         Contains(b, box), Intersects(other, box)
  PROVE  Intersects(b, other)
BY DEF Contains, Intersects, Boxes

-----------------------------------------------------------------------------
(* Paths. *)

\* The first n numbers of a path, as a path.
LEMMA AncestorType ==
  ASSUME NEW p \in Path, NEW n \in 0 .. Len(p)
  PROVE  /\ Ancestor(p, n) \in Path
         /\ Len(Ancestor(p, n)) = n
         /\ \A i \in 1 .. n : Ancestor(p, n)[i] = p[i]
<1>1. Len(p) \in Nat /\ \A i \in 1 .. n : p[i] \in Child
  BY LenProperties, ElementOfSeq DEF Path
<1>2. /\ SubSeq(p, 1, n) \in Seq(Child)
      /\ Len(SubSeq(p, 1, n)) = IF 1 <= n THEN n - 1 + 1 ELSE 0
      /\ \A i \in 1 .. n - 1 + 1 : SubSeq(p, 1, n)[i] = p[1 + i - 1]
  BY <1>1, SubSeqProperties
<1> QED BY <1>1, <1>2 DEF Ancestor, Path

\* The path of a child node: the parent's, and the child's number.
LEMMA ChildPath ==
  ASSUME NEW p \in Path, NEW i \in Child
  PROVE  /\ Append(p, i) \in Path
         /\ Len(p) \in Nat
         /\ Len(Append(p, i)) = Len(p) + 1
         /\ \A n \in 1 .. Len(p) : Append(p, i)[n] = p[n]
         /\ Append(p, i)[Len(p) + 1] = i
BY AppendProperties, LenProperties DEF Path

\* Paths with the same numbers are the same node.
LEMMA PathsEqual ==
  ASSUME NEW p \in Path, NEW q \in Path, Len(p) = Len(q),
         \A n \in 1 .. Len(p) : p[n] = q[n]
  PROVE  p = q
BY SeqEqual DEF Path

\* The ancestors of a child are its parent and the parent's ancestors.
LEMMA ChildAncestors ==
  ASSUME NEW p \in Path, NEW i \in Child
  PROVE  /\ \A n \in 0 .. Len(p) : Ancestor(Append(p, i), n) = Ancestor(p, n)
         /\ Ancestor(p, Len(p)) = p
         /\ Ancestor(Append(p, i), Len(p) + 1) = Append(p, i)
<1>1. ASSUME NEW q \in Path PROVE Ancestor(q, Len(q)) = q
  <2>1. Len(q) \in Nat
    BY LenProperties DEF Path
  <2> QED BY <2>1, AncestorType, PathsEqual
<1>2. ASSUME NEW n \in 0 .. Len(p) PROVE Ancestor(Append(p, i), n) = Ancestor(p, n)
  <2>1. n \in 0 .. Len(Append(p, i)) /\ n \in Nat
    BY ChildPath
  <2>2. \A m \in 1 .. n : Append(p, i)[m] = p[m]
    BY <2>1, ChildPath
  <2>3. /\ Ancestor(p, n) \in Path /\ Len(Ancestor(p, n)) = n
        /\ \A m \in 1 .. n : Ancestor(p, n)[m] = p[m]
    BY AncestorType
  <2>4. /\ Ancestor(Append(p, i), n) \in Path /\ Len(Ancestor(Append(p, i), n)) = n
        /\ \A m \in 1 .. n : Ancestor(Append(p, i), n)[m] = Append(p, i)[m]
    BY <2>1, ChildPath, AncestorType
  <2> QED BY <2>2, <2>3, <2>4, PathsEqual
<1> QED BY <1>1, <1>2, ChildPath

\* A path is that of its parent with a last step.
LEMMA Extended ==
  ASSUME NEW q \in Path, NEW n \in 0 .. Len(q), n < Len(q)
  PROVE  /\ q[n + 1] \in Child
         /\ Ancestor(q, n + 1) = Append(Ancestor(q, n), q[n + 1])
<1>1. Len(q) \in Nat /\ n + 1 \in 1 .. Len(q) /\ n \in Nat
  BY LenProperties DEF Path
<1>2. q[n + 1] \in Child
  BY <1>1, ElementOfSeq DEF Path
<1>3. n + 1 \in 0 .. Len(q)
  BY <1>1
<1>4. /\ Ancestor(q, n + 1) \in Path
      /\ Len(Ancestor(q, n + 1)) = n + 1
      /\ \A m \in 1 .. n + 1 : Ancestor(q, n + 1)[m] = q[m]
  BY <1>3, AncestorType
<1>5. /\ Append(Ancestor(q, n), q[n + 1]) \in Path
      /\ Len(Append(Ancestor(q, n), q[n + 1])) = n + 1
      /\ \A m \in 1 .. n : Append(Ancestor(q, n), q[n + 1])[m] = Ancestor(q, n)[m]
      /\ Append(Ancestor(q, n), q[n + 1])[n + 1] = q[n + 1]
  <2>1. Ancestor(q, n) \in Path /\ Len(Ancestor(q, n)) = n
    BY AncestorType
  <2> QED BY <1>2, <2>1, ChildPath
<1>6. \A m \in 1 .. n : Ancestor(q, n)[m] = q[m]
  BY AncestorType
<1>7. \A m \in 1 .. n + 1 : Append(Ancestor(q, n), q[n + 1])[m] = q[m]
  BY <1>1, <1>5, <1>6
<1> QED BY <1>2, <1>4, <1>5, <1>7, PathsEqual

\* A child is below every node that its parent is or is below.
LEMMA BelowChild ==
  ASSUME NEW p \in Path, NEW q \in Path, NEW i \in Child, p = q \/ Below(p, q)
  PROVE  Below(p, Append(q, i))
<1>1. Len(p) \in Nat /\ Len(p) \in 0 .. Len(q)
  BY LenProperties DEF Path, Below
<1> QED BY <1>1, ChildPath, ChildAncestors DEF Below

-----------------------------------------------------------------------------
(* The inductive invariant. *)

\* Two paths that part below a common node.
Part(p, q) ==
  \E n \in 0 .. Len(p) :
    /\ n < Len(p) /\ n < Len(q)
    /\ Ancestor(p, n) = Ancestor(q, n)
    /\ p[n + 1] # q[n + 1]

\* The nodes form a tree of quarters of WorldBounds.
Grown ==
  /\ Root \in DOMAIN tree
  /\ tree[Root].bounds = WorldBounds
  /\ \A p \in DOMAIN tree : \A n \in 0 .. Len(p) : Ancestor(p, n) \in DOMAIN tree
  /\ \A p \in DOMAIN tree : \A i, j \in Child :
       Append(p, i) \in DOMAIN tree =>
         /\ Append(p, j) \in DOMAIN tree
         /\ tree[Append(p, i)].bounds = Quarter(tree[p].bounds, i)
  /\ \A p, q \in DOMAIN tree : p = q \/ Below(p, q) \/ Below(q, p) \/ Part(p, q)

\* Every node above p sends the entry towards p.
Directed(p, e) == \A n \in 0 .. Len(p) : n < Len(p) => Index(Ancestor(p, n), e) = p[n + 1]

\* If the world has all of the entry's box, then so has every node down to p.
Within(p, e) ==
  Contains(WorldBounds, e.box) =>
    \A n \in 0 .. Len(p) : Contains(tree[Ancestor(p, n)].bounds, e.box)

Belongs(p, e) == Directed(p, e) /\ Within(p, e)

\* The entry is stored at p, or about to be inserted there.
IsAt(p, e) ==
  \/ \E k \in 1 .. Len(tree[p].objects) : tree[p].objects[k] = e
  \/ \E k \in 1 .. Len(calls) : calls[k] = Call(p, e)

AllBelong == \A p \in DOMAIN tree, e \in Entry : IsAt(p, e) => Belongs(p, e)

\* Only a node with children is emptied.
LoopsSplit == \A k \in 1 .. Len(calls) : calls[k].op = "loop" => Subdivided(calls[k].path)

QuadInv == QuadTypeOK /\ Grown /\ AllBelong /\ LoopsSplit /\ LoopsUndisturbed

Frame ==
  [op : {"insert"}, path : DOMAIN tree, entry : Entry]
    \cup [op : {"loop"}, path : DOMAIN tree, next : Nat \ {0}]

\* The call on top, its node, and what is below it on the stack.
LEMMA TopOfStack ==
  ASSUME QuadTypeOK, calls # <<>>
  PROVE  /\ Len(calls) \in Nat \ {0} /\ calls \in Seq(Frame)
         /\ Head(calls) = calls[1] /\ Head(calls) \in Frame
         /\ Tail(calls) \in Seq(Frame)
         /\ Len(Tail(calls)) = Len(calls) - 1
         /\ \A k \in 1 .. Len(calls) - 1 : Tail(calls)[k] = calls[k + 1]
         /\ Head(calls).path \in DOMAIN tree
         /\ Head(calls).path \in Path
         /\ tree[Head(calls).path].bounds \in Boxes
         /\ tree[Head(calls).path].objects \in Seq(Entry)
<1>1. calls \in Seq(Frame)
  BY DEF QuadTypeOK, Frame
<1>2. Len(calls) \in Nat \ {0} /\ Head(calls) = calls[1]
  BY <1>1, EmptySeq
<1>3. Head(calls) \in Frame /\ Tail(calls) \in Seq(Frame)
  BY <1>1, HeadTailProperties
<1>4. Len(Tail(calls)) = Len(calls) - 1
      /\ \A k \in 1 .. Len(calls) - 1 : Tail(calls)[k] = calls[k + 1]
  BY <1>1, HeadTailProperties
<1>5. Head(calls).path \in DOMAIN tree
  BY <1>3 DEF Frame
<1> QED BY <1>1, <1>2, <1>3, <1>4, <1>5 DEF QuadTypeOK, Path

\* A node with children sends an entry to the child that it belongs to.
LEMMA SendsDown ==
  ASSUME QuadTypeOK, Grown, NEW p \in DOMAIN tree, Subdivided(p),
         NEW e \in Entry, Belongs(p, e), Index(p, e) # -1
  PROVE  /\ Index(p, e) \in Child
         /\ Append(p, Index(p, e)) \in DOMAIN tree
         /\ Belongs(Append(p, Index(p, e)), e)
<1> DEFINE i == Index(p, e)
           q == Append(p, i)
<1>1. tree[p].bounds \in Boxes /\ p \in Path /\ e.box \in Boxes
  BY QuadTreeAssumption DEF QuadTypeOK, Path, Entry
<1>2. i \in Child
  BY <1>1, ChildIndexType DEF Index
<1>3. 0 \in Child /\ Append(p, 0) \in DOMAIN tree
  BY DEF Subdivided, Child
<1>4. q \in DOMAIN tree /\ tree[q].bounds = Quarter(tree[p].bounds, i)
  BY <1>2, <1>3 DEF Grown
<1>5. /\ Len(p) \in Nat /\ Len(q) = Len(p) + 1
      /\ \A n \in 1 .. Len(p) : q[n] = p[n]
      /\ q[Len(p) + 1] = i
  BY <1>1, <1>2, ChildPath
<1>6. /\ \A n \in 0 .. Len(p) : Ancestor(q, n) = Ancestor(p, n)
      /\ Ancestor(p, Len(p)) = p /\ Ancestor(q, Len(p) + 1) = q
  BY <1>1, <1>2, ChildAncestors
<1>7. Directed(q, e)
  <2> SUFFICES ASSUME NEW n \in 0 .. Len(q), n < Len(q)
               PROVE  Index(Ancestor(q, n), e) = q[n + 1]
    BY DEF Directed
  <2>1. CASE n = Len(p)
    BY <2>1, <1>5, <1>6
  <2>2. CASE n < Len(p)
    <3>1. n \in 0 .. Len(p) /\ n + 1 \in 1 .. Len(p)
      BY <2>2, <1>5
    <3>2. Index(Ancestor(p, n), e) = p[n + 1]
      BY <2>2, <3>1 DEF Belongs, Directed
    <3> QED BY <3>1, <3>2, <1>5, <1>6
  <2> QED BY <2>1, <2>2, <1>5
<1>8. Within(q, e)
  <2> SUFFICES ASSUME Contains(WorldBounds, e.box), NEW n \in 0 .. Len(q)
               PROVE  Contains(tree[Ancestor(q, n)].bounds, e.box)
    BY DEF Within
  <2>1. \A m \in 0 .. Len(p) : Contains(tree[Ancestor(p, m)].bounds, e.box)
    BY DEF Belongs, Within
  <2>2. CASE n <= Len(p)
    BY <2>1, <2>2, <1>5, <1>6
  <2>3. CASE n = Len(p) + 1
    <3>1. Contains(tree[p].bounds, e.box)
      BY <2>1, <1>5, <1>6
    <3>2. Contains(Quarter(tree[p].bounds, i), e.box)
      BY <3>1, <1>1, QuarterContains DEF Index
    <3> QED BY <3>2, <2>3, <1>4, <1>6
  <2> QED BY <2>2, <2>3, <1>5
<1> QED BY <1>2, <1>4, <1>7, <1>8 DEF Belongs

-----------------------------------------------------------------------------
(* What the steps keep. *)

\* Nodes, once made, stay with their bounds.
BoundsKept ==
  \A p \in DOMAIN tree : p \in DOMAIN tree' /\ tree'[p].bounds = tree[p].bounds

\* An entry belongs where it did when nodes keep their bounds.
LEMMA BelongsKept ==
  ASSUME QuadTypeOK, Grown, BoundsKept, NEW p \in DOMAIN tree, NEW e, Belongs(p, e)
  PROVE  Belongs(p, e)'
<1>1. \A n \in 0 .. Len(p) : /\ Ancestor(p, n) \in DOMAIN tree
                             /\ tree'[Ancestor(p, n)].bounds = tree[Ancestor(p, n)].bounds
  BY DEF Grown, BoundsKept
<1>2. Directed(p, e)'
  BY <1>1 DEF Belongs, Directed, Index
<1>3. Within(p, e)'
  BY <1>1 DEF Belongs, Within
<1> QED BY <1>2, <1>3 DEF Belongs

\* The tree keeps its shape when no node is added.
LEMMA GrownKept ==
  ASSUME QuadTypeOK, Grown, BoundsKept, DOMAIN tree' = DOMAIN tree
  PROVE  Grown'
<1>1. tree'[Root].bounds = WorldBounds
  BY DEF Grown, BoundsKept
<1>2. \A p \in DOMAIN tree : \A i, j \in Child :
        Append(p, i) \in DOMAIN tree =>
          /\ Append(p, j) \in DOMAIN tree
          /\ tree'[Append(p, i)].bounds = Quarter(tree'[p].bounds, i)
  BY DEF Grown, BoundsKept
<1> QED BY <1>1, <1>2 DEF Grown

\* Every entry belongs where it is after a step, if it was there before it or
\* belongs there now.
LEMMA AllBelongKept ==
  ASSUME QuadTypeOK, Grown, BoundsKept, AllBelong,
         \A p \in DOMAIN tree', e \in Entry :
           IsAt(p, e)' => Belongs(p, e)' \/ (p \in DOMAIN tree /\ IsAt(p, e))
  PROVE  AllBelong'
<1> SUFFICES ASSUME NEW p \in DOMAIN tree', NEW e \in Entry, IsAt(p, e)'
             PROVE  Belongs(p, e)'
  BY DEF AllBelong
<1>1. CASE Belongs(p, e)'
  BY <1>1
<1>2. CASE p \in DOMAIN tree /\ IsAt(p, e)
  <2>1. Belongs(p, e)
    BY <1>2 DEF AllBelong
  <2> QED BY <1>2, <2>1, BelongsKept
<1> QED BY <1>1, <1>2

\* Frames stay frames when the tree only grows.
LEMMA FramesKept ==
  ASSUME BoundsKept, NEW f \in Frame
  PROVE  f \in Frame'
BY DEF Frame, BoundsKept

\* An entry that is inserted at the root belongs there.
LEMMA BelongsToRoot ==
  ASSUME Grown, NEW e
  PROVE  Belongs(Root, e)
<1>1. Len(Root) = 0 /\ Root \in Path
  BY EmptySeq DEF Root, Path
<1>2. Directed(Root, e)
  BY <1>1 DEF Directed
<1>3. Ancestor(Root, 0) = Root
  BY <1>1, AncestorType, PathsEqual
<1>4. Within(Root, e)
  BY <1>1, <1>3 DEF Within, Grown
<1> QED BY <1>2, <1>4 DEF Belongs

\* A stack with another frame on top.
LEMMA PushFrame ==
  ASSUME NEW S, NEW s \in Seq(S), NEW f \in S
  PROVE  /\ <<f>> \o s \in Seq(S)
         /\ Len(s) \in Nat
         /\ Len(<<f>> \o s) = Len(s) + 1
         /\ (<<f>> \o s)[1] = f
         /\ \A k \in 1 .. Len(s) : (<<f>> \o s)[k + 1] = s[k]
         /\ \A k \in 2 .. Len(s) + 1 : (<<f>> \o s)[k] = s[k - 1]
<1>1. <<f>> \in Seq(S) /\ Len(<<f>>) = 1 /\ <<f>>[1] = f /\ Len(s) \in Nat
  BY LenProperties
<1>2. /\ <<f>> \o s \in Seq(S)
      /\ Len(<<f>> \o s) = 1 + Len(s)
      /\ \A k \in 1 .. 1 + Len(s) :
           (<<f>> \o s)[k] = IF k <= 1 THEN <<f>>[k] ELSE s[k - 1]
  BY <1>1, ConcatProperties
<1> QED BY <1>1, <1>2

\* Every call in progress is at a node of the tree.
LEMMA FramePath ==
  ASSUME QuadTypeOK, NEW k \in 1 .. Len(calls)
  PROVE  calls[k].path \in DOMAIN tree /\ calls[k].path \in Path
<1>1. calls[k] \in Frame
  BY ElementOfSeq DEF QuadTypeOK, Frame
<1>2. calls[k].path \in DOMAIN tree
  BY <1>1 DEF Frame
<1> QED BY <1>2 DEF QuadTypeOK, Path

\* Loops stay undisturbed when the frame on top is taken off, ...
LEMMA LoopsAfterPop ==
  ASSUME QuadTypeOK, LoopsUndisturbed, calls # <<>>, calls' = Tail(calls)
  PROVE  LoopsUndisturbed'
<1>1. DOMAIN calls = 1 .. Len(calls) /\ DOMAIN calls' = 1 .. Len(calls) - 1
  BY TopOfStack, LenProperties
<1>2. Len(calls) \in Nat /\ \A k \in 1 .. Len(calls) - 1 : calls'[k] = calls[k + 1]
  BY TopOfStack
<1> SUFFICES ASSUME NEW i \in 1 .. Len(calls) - 1, NEW j \in 1 .. Len(calls) - 1,
                    i < j, calls'[j].op = "loop"
             PROVE  Below(calls'[j].path, calls'[i].path)
  BY <1>1 DEF LoopsUndisturbed
<1>3. i + 1 \in DOMAIN calls /\ j + 1 \in DOMAIN calls /\ i + 1 < j + 1
  BY <1>1, <1>2
<1> QED BY <1>2, <1>3 DEF LoopsUndisturbed

\* ... when it is replaced by one for its node or a child, ...
LEMMA LoopsAfterReplace ==
  ASSUME QuadTypeOK, LoopsUndisturbed, calls # <<>>, NEW S, Tail(calls) \in Seq(S),
         NEW f \in S, calls' = <<f>> \o Tail(calls),
         f.path = Head(calls).path \/ \E i \in Child : f.path = Append(Head(calls).path, i)
  PROVE  LoopsUndisturbed'
<1>1. /\ DOMAIN calls = 1 .. Len(calls) /\ Len(calls) \in Nat \ {0}
      /\ calls \in Seq(Frame)
  BY TopOfStack, LenProperties
<1>2. /\ calls' \in Seq(S) /\ Len(calls') = Len(calls) /\ calls'[1] = f
      /\ \A k \in 2 .. Len(calls) : calls'[k] = calls[k]
  BY TopOfStack, PushFrame
<1>3. DOMAIN calls' = 1 .. Len(calls)
  BY <1>2, LenProperties
<1> SUFFICES ASSUME NEW i \in 1 .. Len(calls), NEW j \in 1 .. Len(calls),
                    i < j, calls'[j].op = "loop"
             PROVE  Below(calls'[j].path, calls'[i].path)
  BY <1>3 DEF LoopsUndisturbed
<1>4. Below(calls[j].path, calls[i].path) /\ calls'[j] = calls[j]
  BY <1>1, <1>2 DEF LoopsUndisturbed
<1>5. CASE i = 1
  <2>1. Below(calls[j].path, Head(calls).path)
    BY <1>4, <1>5, TopOfStack
  <2>2. calls[j].path \in Path /\ Head(calls).path \in Path
    BY <1>1, TopOfStack, FramePath
  <2>3. Below(calls[j].path, f.path)
    BY <2>1, <2>2, BelowChild
  <2> QED BY <2>3, <1>2, <1>4, <1>5
<1>6. CASE i # 1
  BY <1>1, <1>2, <1>4, <1>6
<1> QED BY <1>5, <1>6

\* ... and when one for a child is put on it.
LEMMA LoopsAfterPush ==
  ASSUME QuadTypeOK, LoopsUndisturbed, calls # <<>>, NEW S, calls \in Seq(S),
         NEW f \in S, calls' = <<f>> \o calls,
         NEW n \in Child, f.path = Append(Head(calls).path, n)
  PROVE  LoopsUndisturbed'
<1>1. /\ DOMAIN calls = 1 .. Len(calls) /\ Len(calls) \in Nat \ {0}
      /\ calls \in Seq(Frame)
  BY TopOfStack, LenProperties
<1>2. /\ calls' \in Seq(S) /\ Len(calls') = Len(calls) + 1 /\ calls'[1] = f
      /\ \A k \in 2 .. Len(calls) + 1 : calls'[k] = calls[k - 1]
  BY PushFrame
<1>3. DOMAIN calls' = 1 .. Len(calls) + 1
  BY <1>2, LenProperties
<1> SUFFICES ASSUME NEW i \in 1 .. Len(calls) + 1, NEW j \in 1 .. Len(calls) + 1,
                    i < j, calls'[j].op = "loop"
             PROVE  Below(calls'[j].path, calls'[i].path)
  BY <1>3 DEF LoopsUndisturbed
<1>4. calls'[j] = calls[j - 1] /\ j - 1 \in 1 .. Len(calls)
  BY <1>1, <1>2
<1>5. CASE i = 1
  <2>1. calls[j - 1].path = Head(calls).path \/ Below(calls[j - 1].path, Head(calls).path)
    <3>1. CASE j - 1 = 1
      BY <3>1, TopOfStack
    <3>2. CASE j - 1 # 1
      <4>1. 1 \in DOMAIN calls /\ j - 1 \in DOMAIN calls /\ 1 < j - 1
        BY <1>1, <1>4, <3>2
      <4> QED BY <4>1, <1>4, TopOfStack DEF LoopsUndisturbed
    <3> QED BY <3>1, <3>2
  <2>2. calls[j - 1].path \in Path /\ Head(calls).path \in Path
    BY <1>1, <1>4, TopOfStack, FramePath
  <2>3. Below(calls[j - 1].path, f.path)
    BY <2>1, <2>2, BelowChild
  <2> QED BY <2>3, <1>2, <1>4, <1>5
<1>6. CASE i # 1
  <2>1. i - 1 \in DOMAIN calls /\ j - 1 \in DOMAIN calls /\ i - 1 < j - 1
        /\ calls'[i] = calls[i - 1]
    BY <1>1, <1>2, <1>4, <1>6
  <2> QED BY <2>1, <1>4 DEF LoopsUndisturbed
<1> QED BY <1>5, <1>6

-----------------------------------------------------------------------------
(* The steps. *)

\* A new entry is to be inserted at the root.
LEMMA InsertStep ==
  ASSUME QuadInv, NEW box \in Box, insert(box)
  PROVE  QuadInv'
<1> PICK e : e = [idx |-> used + 1, box |-> box]
  OBVIOUS
<1> PICK f : f = Call(Root, e)
  OBVIOUS
<1>1. UNCHANGED tree /\ calls = <<>> /\ calls' = <<f>> /\ used' = used + 1
  BY DEF insert
<1>2. used' \in 0 .. MaxEntries /\ e \in Entry
  BY <1>1, QuadTreeAssumption DEF insert, QuadInv, QuadTypeOK, Entry
<1>3. f \in Frame
  BY <1>2 DEF Frame, Call, QuadInv, Grown
<1>4. /\ calls' \in Seq(Frame) /\ Len(calls') = 1 /\ calls'[1] = f
      /\ DOMAIN calls' = 1 .. 1
  BY <1>1, <1>3, LenProperties
<1>5. QuadTypeOK'
  BY <1>1, <1>2, <1>4 DEF QuadInv, QuadTypeOK, Frame
<1>6. BoundsKept
  BY <1>1 DEF BoundsKept
<1>7. Grown'
  BY <1>1, <1>6, GrownKept DEF QuadInv
<1>8. AllBelong'
  <2>1. Belongs(Root, e)'
    BY <1>6, BelongsToRoot, BelongsKept DEF QuadInv, Grown
  <2>2. \A p \in DOMAIN tree', d \in Entry :
          IsAt(p, d)' => Belongs(p, d)' \/ (p \in DOMAIN tree /\ IsAt(p, d))
    <3> SUFFICES ASSUME NEW p \in DOMAIN tree', NEW d \in Entry, IsAt(p, d)'
                 PROVE  Belongs(p, d)' \/ (p \in DOMAIN tree /\ IsAt(p, d))
      OBVIOUS
    <3>1. CASE \E k \in 1 .. Len(tree'[p].objects) : tree'[p].objects[k] = d
      BY <3>1, <1>1 DEF IsAt
    <3>2. CASE \E k \in 1 .. Len(calls') : calls'[k] = Call(p, d)
      <4>1. f = Call(p, d)
        BY <3>2, <1>4
      <4>2. p = Root /\ d = e
        BY <4>1 DEF Call
      <4> QED BY <4>2, <2>1
    <3> QED BY <3>1, <3>2 DEF IsAt
  <2> QED BY <2>2, <1>6, AllBelongKept DEF QuadInv
<1>9. LoopsSplit' /\ LoopsUndisturbed'
  BY <1>4 DEF LoopsSplit, LoopsUndisturbed, Call
<1> QED BY <1>5, <1>7, <1>8, <1>9 DEF QuadInv

\* The entry goes to the child that it belongs to.
LEMMA PassDownStep ==
  ASSUME QuadInv, PassDown
  PROVE  QuadInv'
<1> PICK c : c = Head(calls)
  OBVIOUS
<1> PICK i : i = Index(c.path, c.entry)
  OBVIOUS
<1> PICK f : f = Call(Append(c.path, i), c.entry)
  OBVIOUS
<1>1. /\ UNCHANGED <<tree, used>> /\ calls # <<>> /\ c.op = "insert"
      /\ Subdivided(c.path) /\ i # -1 /\ calls' = <<f>> \o Tail(calls)
  BY DEF PassDown, Inserting, Fits, ChildCall
<1>2. c \in Frame /\ c.path \in DOMAIN tree /\ c.entry \in Entry /\ c = Call(c.path, c.entry)
      /\ c = calls[1] /\ Len(calls) \in Nat \ {0}
  BY <1>1, TopOfStack DEF Frame, Call, QuadInv
<1>3. Belongs(c.path, c.entry)
  BY <1>2 DEF QuadInv, AllBelong, IsAt
<1>4. /\ i \in Child /\ Append(c.path, i) \in DOMAIN tree
      /\ Belongs(Append(c.path, i), c.entry)
  BY <1>1, <1>2, <1>3, SendsDown DEF QuadInv
<1>5. f \in Frame
  BY <1>2, <1>4 DEF Frame, Call
<1>6. /\ calls' \in Seq(Frame) /\ Len(calls') = Len(calls) /\ calls'[1] = f
      /\ \A k \in 2 .. Len(calls) : calls'[k] = calls[k]
  BY <1>1, <1>5, TopOfStack, PushFrame DEF QuadInv
<1>7. QuadTypeOK'
  BY <1>1, <1>6 DEF QuadInv, QuadTypeOK, Frame
<1>8. BoundsKept
  BY <1>1 DEF BoundsKept
<1>9. Grown'
  BY <1>1, <1>8, GrownKept DEF QuadInv
<1>10. AllBelong'
  <2>1. Belongs(Append(c.path, i), c.entry)'
    BY <1>4, <1>8, BelongsKept DEF QuadInv
  <2>2. \A p \in DOMAIN tree', d \in Entry :
          IsAt(p, d)' => Belongs(p, d)' \/ (p \in DOMAIN tree /\ IsAt(p, d))
    <3> SUFFICES ASSUME NEW p \in DOMAIN tree', NEW d \in Entry, IsAt(p, d)'
                 PROVE  Belongs(p, d)' \/ (p \in DOMAIN tree /\ IsAt(p, d))
      OBVIOUS
    <3>1. CASE \E k \in 1 .. Len(tree'[p].objects) : tree'[p].objects[k] = d
      BY <3>1, <1>1 DEF IsAt
    <3>2. CASE \E k \in 1 .. Len(calls') : calls'[k] = Call(p, d)
      <4>1. f = Call(p, d) \/ \E k \in 1 .. Len(calls) : calls[k] = Call(p, d)
        BY <3>2, <1>2, <1>6
      <4>2. f = Call(p, d) => p = Append(c.path, i) /\ d = c.entry
        BY DEF Call
      <4> QED BY <4>1, <4>2, <2>1, <1>1 DEF IsAt
    <3> QED BY <3>1, <3>2 DEF IsAt
  <2> QED BY <2>2, <1>8, AllBelongKept DEF QuadInv
<1>11. LoopsSplit'
  BY <1>1, <1>2, <1>6 DEF QuadInv, LoopsSplit, Subdivided, Call
<1>12. LoopsUndisturbed'
  <2>1. f.path = Append(c.path, i)
    BY DEF Call
  <2> QED BY <2>1, <1>1, <1>4, <1>5, TopOfStack, LoopsAfterReplace DEF QuadInv
<1> QED BY <1>7, <1>9, <1>10, <1>11, <1>12 DEF QuadInv

\* A step that only replaces the objects of one node.
LEMMA ObjectsReplaced ==
  ASSUME QuadTypeOK, NEW q \in DOMAIN tree, NEW s \in Seq(Entry),
         tree' = [tree EXCEPT ![q].objects = s]
  PROVE  /\ DOMAIN tree' = DOMAIN tree
         /\ tree' \in [DOMAIN tree -> [bounds : Boxes, objects : Seq(Entry)]]
         /\ BoundsKept
         /\ tree'[q].objects = s
         /\ \A p \in DOMAIN tree : p # q => tree'[p].objects = tree[p].objects
<1>1. tree \in [DOMAIN tree -> [bounds : Boxes, objects : Seq(Entry)]]
  BY DEF QuadTypeOK
<1>2. [tree[q] EXCEPT !.objects = s] \in [bounds : Boxes, objects : Seq(Entry)]
      /\ [tree[q] EXCEPT !.objects = s].bounds = tree[q].bounds
      /\ [tree[q] EXCEPT !.objects = s].objects = s
  BY <1>1
<1> QED BY <1>1, <1>2 DEF BoundsKept

\* The entry is stored where it belongs.
LEMMA StoreStep ==
  ASSUME QuadInv, Store
  PROVE  QuadInv'
<1> PICK c : c = Head(calls)
  OBVIOUS
<1>1. /\ UNCHANGED used /\ calls # <<>> /\ c.op = "insert" /\ calls' = Tail(calls)
      /\ tree' = [tree EXCEPT ![c.path].objects = Append(tree[c.path].objects, c.entry)]
  BY DEF Store, Inserting, Pushed
<1>2. c \in Frame /\ c.path \in DOMAIN tree /\ c.entry \in Entry /\ c = Call(c.path, c.entry)
      /\ c = calls[1] /\ Len(calls) \in Nat \ {0} /\ tree[c.path].objects \in Seq(Entry)
  BY <1>1, TopOfStack DEF Frame, Call, QuadInv
<1>3. IsAt(c.path, c.entry)
  BY <1>2 DEF IsAt
<1>4. /\ Append(tree[c.path].objects, c.entry) \in Seq(Entry)
      /\ Len(Append(tree[c.path].objects, c.entry)) = Len(tree[c.path].objects) + 1
      /\ \A k \in 1 .. Len(tree[c.path].objects) :
           Append(tree[c.path].objects, c.entry)[k] = tree[c.path].objects[k]
      /\ Append(tree[c.path].objects, c.entry)[Len(tree[c.path].objects) + 1] = c.entry
      /\ Len(tree[c.path].objects) \in Nat
  BY <1>2, AppendProperties, LenProperties
<1>5. /\ DOMAIN tree' = DOMAIN tree
      /\ tree' \in [DOMAIN tree -> [bounds : Boxes, objects : Seq(Entry)]]
      /\ BoundsKept
      /\ tree'[c.path].objects = Append(tree[c.path].objects, c.entry)
      /\ \A p \in DOMAIN tree : p # c.path => tree'[p].objects = tree[p].objects
  BY <1>1, <1>2, <1>4, ObjectsReplaced DEF QuadInv
<1>6. /\ calls' \in Seq(Frame) /\ Len(calls') = Len(calls) - 1
      /\ \A k \in 1 .. Len(calls) - 1 : calls'[k] = calls[k + 1]
  BY <1>1, TopOfStack DEF QuadInv
<1>7. QuadTypeOK'
  <2>1. Frame' = Frame
    BY <1>5 DEF Frame
  <2> QED BY <2>1, <1>1, <1>5, <1>6 DEF QuadInv, QuadTypeOK, Frame
<1>8. Grown'
  BY <1>5, GrownKept DEF QuadInv
<1>9. AllBelong'
  <2>1. \A p \in DOMAIN tree', d \in Entry :
          IsAt(p, d)' => p \in DOMAIN tree /\ IsAt(p, d)
    <3> SUFFICES ASSUME NEW p \in DOMAIN tree, NEW d \in Entry, IsAt(p, d)'
                 PROVE  IsAt(p, d)
      BY <1>5
    <3>1. CASE \E k \in 1 .. Len(tree'[p].objects) : tree'[p].objects[k] = d
      <4>1. CASE p # c.path
        BY <3>1, <4>1, <1>5 DEF IsAt
      <4>2. CASE p = c.path
        <5>1. PICK k \in 1 .. Len(tree[p].objects) + 1 :
                Append(tree[p].objects, c.entry)[k] = d
          BY <3>1, <4>2, <1>4, <1>5
        <5>2. CASE k \in 1 .. Len(tree[p].objects)
          BY <4>2, <5>1, <5>2, <1>4 DEF IsAt
        <5>3. CASE k = Len(tree[p].objects) + 1
          BY <4>2, <5>1, <5>3, <1>3, <1>4
        <5> QED BY <4>2, <5>1, <5>2, <5>3, <1>4
      <4> QED BY <4>1, <4>2
    <3>2. CASE \E k \in 1 .. Len(calls') : calls'[k] = Call(p, d)
      BY <3>2, <1>2, <1>6 DEF IsAt
    <3> QED BY <3>1, <3>2 DEF IsAt
  <2> QED BY <2>1, <1>5, AllBelongKept DEF QuadInv
<1>10. LoopsSplit'
  <2>1. ASSUME NEW k \in 1 .. Len(calls'), calls'[k].op = "loop"
        PROVE  Append(calls'[k].path, 0) \in DOMAIN tree'
    <3>1. k + 1 \in 1 .. Len(calls) /\ calls'[k] = calls[k + 1]
      BY <2>1, <1>2, <1>6
    <3>2. Append(calls[k + 1].path, 0) \in DOMAIN tree
      BY <2>1, <3>1 DEF QuadInv, LoopsSplit, Subdivided
    <3> QED BY <3>1, <3>2, <1>5
  <2> QED BY <2>1 DEF LoopsSplit, Subdivided
<1>11. LoopsUndisturbed'
  BY <1>1, LoopsAfterPop DEF QuadInv
<1> QED BY <1>7, <1>8, <1>9, <1>10, <1>11 DEF QuadInv

\* The loop is over.
LEMMA ReturnStep ==
  ASSUME QuadInv, Return
  PROVE  QuadInv'
<1>1. UNCHANGED <<tree, used>> /\ calls # <<>> /\ calls' = Tail(calls)
  BY DEF Return, Looping
<1>2. /\ calls' \in Seq(Frame) /\ Len(calls') = Len(calls) - 1 /\ Len(calls) \in Nat
      /\ \A k \in 1 .. Len(calls) - 1 : calls'[k] = calls[k + 1]
  BY <1>1, TopOfStack DEF QuadInv
<1>3. QuadTypeOK'
  BY <1>1, <1>2 DEF QuadInv, QuadTypeOK, Frame
<1>4. BoundsKept
  BY <1>1 DEF BoundsKept
<1>5. Grown'
  BY <1>1, <1>4, GrownKept DEF QuadInv
<1>6. \A p \in DOMAIN tree', d \in Entry : IsAt(p, d)' => p \in DOMAIN tree /\ IsAt(p, d)
  BY <1>1, <1>2 DEF IsAt
<1>7. AllBelong'
  BY <1>4, <1>6, AllBelongKept DEF QuadInv
<1>8. LoopsSplit'
  BY <1>1, <1>2 DEF QuadInv, LoopsSplit, Subdivided
<1>9. LoopsUndisturbed'
  BY <1>1, LoopsAfterPop DEF QuadInv
<1> QED BY <1>3, <1>5, <1>7, <1>8, <1>9 DEF QuadInv

\* An empty tree.
LEMMA InitialInv ==
  ASSUME QuadInit
  PROVE  QuadInv
<1>1. Root \in Path /\ Len(Root) = 0 /\ <<>> \in Seq(Entry) /\ Len(<<>>) = 0
  BY EmptySeq DEF Root, Path
<1>2. /\ DOMAIN tree = {Root} /\ tree[Root].bounds = WorldBounds /\ calls = <<>>
      /\ tree[Root].objects = <<>> /\ \A i \in Child : Append(Root, i) # Root
  BY <1>1, ChildPath DEF QuadInit
<1>3. QuadTypeOK
  <2>1. tree \in [DOMAIN tree -> [bounds : Boxes, objects : Seq(Entry)]]
    <3>1. [bounds |-> WorldBounds, objects |-> <<>>] \in [bounds : Boxes, objects : Seq(Entry)]
      BY <1>1, QuadTreeAssumption
    <3> QED BY <3>1, <1>2 DEF QuadInit
  <2>2. calls \in Seq(Frame)
    BY <1>2, EmptySeq
  <2>3. \A p \in DOMAIN tree : p \in Seq(Child) /\ Len(p) <= MAX_LEVELS
    BY <1>1, <1>2, QuadTreeAssumption DEF Path
  <2>4. used \in 0 .. MaxEntries
    BY QuadTreeAssumption DEF QuadInit
  <2> QED BY <2>1, <2>2, <2>3, <2>4 DEF QuadTypeOK, Frame
<1>4. Grown
  <2>1. Ancestor(Root, 0) = Root
    BY <1>1, AncestorType, PathsEqual
  <2>2. \A n \in 0 .. Len(Root) : n = 0
    BY <1>1
  <2>3. \A p \in DOMAIN tree : \A n \in 0 .. Len(p) : Ancestor(p, n) \in DOMAIN tree
    BY <2>1, <2>2, <1>2
  <2>4. \A p \in DOMAIN tree : \A i, j \in Child : Append(p, i) \notin DOMAIN tree
    BY <1>2
  <2> QED BY <2>3, <2>4, <1>2 DEF Grown
<1>5. AllBelong /\ LoopsSplit /\ LoopsUndisturbed
  BY <1>1, <1>2 DEF AllBelong, IsAt, LoopsSplit, LoopsUndisturbed
<1> QED BY <1>3, <1>4, <1>5 DEF QuadInv

\* The tree is emptied.
LEMMA ClearStep ==
  ASSUME tree' = [p \in {Root} |-> [bounds |-> WorldBounds, objects |-> <<>>]],
         calls' = <<>>, used' = 0
  PROVE  QuadInv'
<1>1. Root \in Path /\ Len(Root) = 0 /\ <<>> \in Seq(Entry) /\ Len(<<>>) = 0
  BY EmptySeq DEF Root, Path
<1>2. /\ DOMAIN tree' = {Root} /\ tree'[Root].bounds = WorldBounds
      /\ tree'[Root].objects = <<>> /\ \A i \in Child : Append(Root, i) # Root
  BY <1>1, ChildPath
<1>3. QuadTypeOK'
  <2>1. tree' \in [DOMAIN tree' -> [bounds : Boxes, objects : Seq(Entry)]]
    <3>1. [bounds |-> WorldBounds, objects |-> <<>>] \in [bounds : Boxes, objects : Seq(Entry)]
      BY <1>1, QuadTreeAssumption
    <3> QED BY <3>1, <1>2
  <2>2. calls' \in Seq(Frame')
    BY EmptySeq
  <2>3. \A p \in DOMAIN tree' : p \in Seq(Child) /\ Len(p) <= MAX_LEVELS
    BY <1>1, <1>2, QuadTreeAssumption DEF Path
  <2>4. used' \in 0 .. MaxEntries
    BY QuadTreeAssumption
  <2> QED BY <2>1, <2>2, <2>3, <2>4 DEF QuadTypeOK, Frame
<1>4. Grown'
  <2>1. Ancestor(Root, 0) = Root
    BY <1>1, AncestorType, PathsEqual
  <2>2. \A n \in 0 .. Len(Root) : n = 0
    BY <1>1
  <2>3. \A p \in DOMAIN tree' : \A n \in 0 .. Len(p) : Ancestor(p, n) \in DOMAIN tree'
    BY <2>1, <2>2, <1>2
  <2>4. \A p \in DOMAIN tree' : \A i, j \in Child : Append(p, i) \notin DOMAIN tree'
    BY <1>2
  <2> QED BY <2>3, <2>4, <1>2 DEF Grown
<1>5. AllBelong' /\ LoopsSplit' /\ LoopsUndisturbed'
  BY <1>1, <1>2 DEF AllBelong, IsAt, LoopsSplit, LoopsUndisturbed
<1> QED BY <1>3, <1>4, <1>5 DEF QuadInv

\* The parts of a sequence before and after one of its elements.
Before(a, s, n) == Len(a) = n - 1 /\ \A m \in 1 .. n - 1 : a[m] = s[m]
After(b, s, n) == Len(b) = Len(s) - n /\ \A m \in 1 .. Len(s) - n : b[m] = s[n + m]

\* r is s without its n-th element.
Without(r, s, n) ==
  /\ Len(r) = Len(s) - 1
  /\ \A k \in 1 .. Len(r) : r[k] = IF k < n THEN s[k] ELSE s[k + 1]

\* What is before and what is after an element, joined, is the list without it.
LEMMA JoinedParts ==
  ASSUME NEW S, NEW s \in Seq(S), NEW n \in 1 .. Len(s), NEW a \in Seq(S), NEW b \in Seq(S),
         Before(a, s, n), After(b, s, n)
  PROVE  Without(a \o b, s, n)
<1>1. Len(s) \in Nat
  BY LenProperties
<1>2. /\ Len(a \o b) = Len(a) + Len(b)
      /\ \A k \in 1 .. Len(a) + Len(b) :
           (a \o b)[k] = IF k <= Len(a) THEN a[k] ELSE b[k - Len(a)]
  BY ConcatProperties
<1>3. ASSUME NEW k \in 1 .. Len(a \o b), k <= n - 1
      PROVE  k \in 1 .. Len(s) /\ (a \o b)[k] = s[k]
  BY <1>1, <1>2, <1>3 DEF Before, After
<1>4. ASSUME NEW k \in 1 .. Len(a \o b), k > n - 1
      PROVE  k + 1 \in 1 .. Len(s) /\ (a \o b)[k] = s[k + 1]
  <2>1. k - (n - 1) \in 1 .. Len(s) - n /\ n + (k - (n - 1)) = k + 1 /\ k \in 1 .. Len(a) + Len(b)
    BY <1>1, <1>2, <1>4 DEF Before, After
  <2>2. (a \o b)[k] = b[k - (n - 1)]
    BY <1>2, <1>4, <2>1 DEF Before
  <2> QED BY <1>1, <2>1, <2>2 DEF After
<1> QED
  <2>1. Len(a \o b) = Len(s) - 1
    BY <1>1, <1>2 DEF Before, After
  <2>2. ASSUME NEW k \in 1 .. Len(a \o b)
        PROVE  (a \o b)[k] = IF k < n THEN s[k] ELSE s[k + 1]
    <3>1. (k < n <=> k <= n - 1) /\ (k < n \/ k > n - 1) /\ ~(k < n /\ k > n - 1)
      BY <1>1, <2>1
    <3>2. CASE k < n
      BY <1>3, <3>1, <3>2
    <3>3. CASE ~(k < n)
      BY <1>4, <3>1, <3>3
    <3> QED BY <3>2, <3>3
  <2> QED BY <2>1, <2>2 DEF Without

\* RemoveAt removes one element and moves those after it up.
LEMMA RemovedElement ==
  ASSUME NEW S, NEW s \in Seq(S), NEW n \in 1 .. Len(s), NEW r,
         r = SubSeq(s, 1, n - 1) \o SubSeq(s, n + 1, Len(s))
  PROVE  r \in Seq(S) /\ Without(r, s, n)
<1> PICK a : a = SubSeq(s, 1, n - 1)
  OBVIOUS
<1> PICK b : b = SubSeq(s, n + 1, Len(s))
  OBVIOUS
<1>1. Len(s) \in Nat /\ n \in Int /\ \A m \in 1 .. Len(s) : s[m] \in S
  BY LenProperties, ElementOfSeq
<1>2. a \in Seq(S) /\ Before(a, s, n)
  <2>1. n - 1 \in Int /\ \A m \in 1 .. n - 1 : s[m] \in S
    BY <1>1
  <2>2. /\ a \in Seq(S) /\ Len(a) = IF 1 <= n - 1 THEN n - 1 - 1 + 1 ELSE 0
        /\ \A m \in 1 .. n - 1 - 1 + 1 : a[m] = s[1 + m - 1]
    BY <2>1, SubSeqProperties
  <2> QED BY <2>2, <1>1 DEF Before
<1>3. b \in Seq(S) /\ After(b, s, n)
  <2>1. n + 1 \in Int /\ Len(s) \in Int
        /\ \A m \in n + 1 .. Len(s) : s[m] \in S
    BY <1>1
  <2>2. /\ b \in Seq(S)
        /\ Len(b) = IF n + 1 <= Len(s) THEN Len(s) - (n + 1) + 1 ELSE 0
        /\ \A m \in 1 .. Len(s) - (n + 1) + 1 : b[m] = s[n + 1 + m - 1]
    BY <2>1, SubSeqProperties
  <2> QED BY <2>2, <1>1 DEF After
<1>4. a \o b \in Seq(S)
  BY <1>2, <1>3, ConcatProperties
<1>5. Without(a \o b, s, n)
  BY <1>2, <1>3, JoinedParts
<1>6. r = a \o b
  OBVIOUS
<1> QED BY <1>4, <1>5, <1>6

\* The loop moves an object to the child that it belongs to, ...
LEMMA MoveStep ==
  ASSUME QuadInv, UNCHANGED used, calls # <<>>, Head(calls).op = "loop",
         NEW q \in DOMAIN tree, q = Head(calls).path, Subdivided(q),
         NEW e \in Entry, Belongs(q, e), Index(q, e) # -1,
         NEW r \in Seq(Entry),
         \A d \in Entry : (\E k \in 1 .. Len(r) : r[k] = d)
                         => \E k \in 1 .. Len(tree[q].objects) : tree[q].objects[k] = d,
         tree' = [tree EXCEPT ![q].objects = r],
         calls' = <<Call(Append(q, Index(q, e)), e)>> \o calls
  PROVE  QuadInv'
<1> PICK i : i = Index(q, e)
  OBVIOUS
<1> PICK f : f = Call(Append(q, i), e)
  OBVIOUS
<1>1. Len(calls) \in Nat \ {0} /\ calls \in Seq(Frame) /\ q \in Path
  BY TopOfStack DEF QuadInv
<1>2. /\ DOMAIN tree' = DOMAIN tree
      /\ tree' \in [DOMAIN tree -> [bounds : Boxes, objects : Seq(Entry)]]
      /\ BoundsKept
      /\ tree'[q].objects = r
      /\ \A p \in DOMAIN tree : p # q => tree'[p].objects = tree[p].objects
  BY ObjectsReplaced DEF QuadInv
<1>3. i \in Child /\ Append(q, i) \in DOMAIN tree /\ Belongs(Append(q, i), e)
  BY SendsDown DEF QuadInv
<1>4. f \in Frame /\ f.path = Append(q, i) /\ f.op = "insert"
  BY <1>3 DEF Frame, Call
<1>5. /\ calls' \in Seq(Frame) /\ Len(calls') = Len(calls) + 1 /\ calls'[1] = f
      /\ \A k \in 2 .. Len(calls) + 1 : calls'[k] = calls[k - 1]
  BY <1>1, <1>4, PushFrame
<1>6. QuadTypeOK'
  <2>1. Frame' = Frame
    BY <1>2 DEF Frame
  <2> QED BY <2>1, <1>2, <1>5 DEF QuadInv, QuadTypeOK, Frame
<1>7. Grown'
  BY <1>2, GrownKept DEF QuadInv
<1>8. AllBelong'
  <2>1. Belongs(Append(q, i), e)'
    BY <1>2, <1>3, BelongsKept DEF QuadInv
  <2>2. \A p \in DOMAIN tree', d \in Entry :
          IsAt(p, d)' => Belongs(p, d)' \/ (p \in DOMAIN tree /\ IsAt(p, d))
    <3> SUFFICES ASSUME NEW p \in DOMAIN tree, NEW d \in Entry, IsAt(p, d)'
                 PROVE  Belongs(p, d)' \/ IsAt(p, d)
      BY <1>2
    <3>1. CASE \E k \in 1 .. Len(tree'[p].objects) : tree'[p].objects[k] = d
      BY <3>1, <1>2 DEF IsAt
    <3>2. CASE \E k \in 1 .. Len(calls') : calls'[k] = Call(p, d)
      <4>1. f = Call(p, d) \/ \E k \in 1 .. Len(calls) : calls[k] = Call(p, d)
        BY <3>2, <1>1, <1>5
      <4>2. f = Call(p, d) => p = Append(q, i) /\ d = e
        BY DEF Call
      <4> QED BY <4>1, <4>2, <2>1 DEF IsAt
    <3> QED BY <3>1, <3>2 DEF IsAt
  <2> QED BY <2>2, <1>2, AllBelongKept DEF QuadInv
<1>9. LoopsSplit'
  <2>1. ASSUME NEW k \in 1 .. Len(calls'), calls'[k].op = "loop"
        PROVE  Append(calls'[k].path, 0) \in DOMAIN tree'
    <3>1. k # 1
      BY <2>1, <1>4, <1>5
    <3>2. calls'[k] = calls[k - 1] /\ k - 1 \in 1 .. Len(calls)
      BY <3>1, <1>1, <1>5
    <3>3. Subdivided(calls[k - 1].path)
      BY <2>1, <3>2 DEF QuadInv, LoopsSplit
    <3> QED BY <3>2, <3>3, <1>2 DEF Subdivided
  <2> QED BY <2>1 DEF LoopsSplit, Subdivided
<1>10. LoopsUndisturbed'
  BY <1>1, <1>3, <1>4, LoopsAfterPush DEF QuadInv
<1> QED BY <1>6, <1>7, <1>8, <1>9, <1>10 DEF QuadInv

\* ... or goes on to the next.
LEMMA GoOnStep ==
  ASSUME QuadInv, UNCHANGED <<tree, used>>, calls # <<>>, Head(calls).op = "loop",
         NEW f \in Frame, f.op = "loop", f.path = Head(calls).path,
         calls' = <<f>> \o Tail(calls)
  PROVE  QuadInv'
<1>1. Len(calls) \in Nat \ {0} /\ calls \in Seq(Frame) /\ Head(calls) = calls[1]
  BY TopOfStack DEF QuadInv
<1>2. /\ calls' \in Seq(Frame) /\ Len(calls') = Len(calls) /\ calls'[1] = f
      /\ \A k \in 2 .. Len(calls) : calls'[k] = calls[k]
  BY TopOfStack, PushFrame DEF QuadInv
<1>3. QuadTypeOK'
  BY <1>2 DEF QuadInv, QuadTypeOK, Frame
<1>4. BoundsKept
  BY DEF BoundsKept
<1>5. Grown'
  BY <1>4, GrownKept DEF QuadInv
<1>6. \A p \in DOMAIN tree', d \in Entry : IsAt(p, d)' => p \in DOMAIN tree /\ IsAt(p, d)
  <2>1. \A p, d : f # Call(p, d)
    BY DEF Call
  <2> QED BY <2>1, <1>1, <1>2 DEF IsAt
<1>7. AllBelong'
  BY <1>4, <1>6, AllBelongKept DEF QuadInv
<1>8. LoopsSplit'
  BY <1>1, <1>2 DEF QuadInv, LoopsSplit, Subdivided
<1>9. LoopsUndisturbed'
  BY TopOfStack, LoopsAfterReplace DEF QuadInv
<1> QED BY <1>3, <1>5, <1>7, <1>8, <1>9 DEF QuadInv

\* A turn of the loop in insert() preserves the invariant, whether the entry stays
\* or goes to a child.
LEMMA TurnStep ==
  ASSUME QuadInv, Turn
  PROVE  QuadInv'
<1> PICK c : c = Head(calls)
  OBVIOUS
<1> PICK n : n = c.next
  OBVIOUS
<1> PICK q : q = c.path
  OBVIOUS
<1> PICK e : e = tree[q].objects[n]
  OBVIOUS
<1>1. UNCHANGED used /\ calls # <<>> /\ c.op = "loop" /\ n <= Len(tree[q].objects)
  BY DEF Turn, Looping
<1>2. /\ c \in Frame /\ q \in DOMAIN tree /\ c = calls[1] /\ Len(calls) \in Nat \ {0}
      /\ tree[q].objects \in Seq(Entry)
  BY <1>1, TopOfStack DEF QuadInv
<1>3. n \in Nat \ {0}
  BY <1>1, <1>2 DEF Frame
<1>4. n \in 1 .. Len(tree[q].objects) /\ e \in Entry
  BY <1>1, <1>2, <1>3, LenProperties, ElementOfSeq
<1>5. Subdivided(q) /\ IsAt(q, e)
  BY <1>1, <1>2, <1>4 DEF QuadInv, LoopsSplit, IsAt
<1>6. Belongs(q, e)
  BY <1>2, <1>4, <1>5 DEF QuadInv, AllBelong
<1>7. CASE Index(q, e) # -1
  <2>1. /\ tree' = [tree EXCEPT ![q].objects = Erased(c)]
        /\ calls' = <<Call(Append(q, Index(q, e)), e)>> \o calls
    BY <1>7 DEF Turn, ChildCall
  <2>2. Erased(c) = SubSeq(tree[q].objects, 1, n - 1)
                      \o SubSeq(tree[q].objects, n + 1, Len(tree[q].objects))
    BY DEF Erased, Seqs!RemoveAt
  <2>3. Erased(c) \in Seq(Entry) /\ Without(Erased(c), tree[q].objects, n)
    <3> PICK s : s = tree[q].objects
      OBVIOUS
    <3> PICK r : r = Erased(c)
      OBVIOUS
    <3>1. /\ s \in Seq(Entry) /\ n \in 1 .. Len(s)
          /\ r = SubSeq(s, 1, n - 1) \o SubSeq(s, n + 1, Len(s))
      BY <1>2, <1>4, <2>2
    <3>2. r \in Seq(Entry) /\ Without(r, s, n)
      BY <3>1, RemovedElement
    <3> QED BY <3>2
  <2>4. \A d \in Entry : (\E k \in 1 .. Len(Erased(c)) : Erased(c)[k] = d)
                         => \E k \in 1 .. Len(tree[q].objects) : tree[q].objects[k] = d
    <3> SUFFICES ASSUME NEW d \in Entry, NEW k \in 1 .. Len(Erased(c)), Erased(c)[k] = d
                 PROVE  \E m \in 1 .. Len(tree[q].objects) : tree[q].objects[m] = d
      OBVIOUS
    <3>1. Len(tree[q].objects) \in Nat /\ Len(Erased(c)) = Len(tree[q].objects) - 1
      BY <1>2, <2>3, LenProperties DEF Without
    <3>2. k \in 1 .. Len(tree[q].objects) /\ k + 1 \in 1 .. Len(tree[q].objects)
      BY <3>1
    <3>3. d = IF k < n THEN tree[q].objects[k] ELSE tree[q].objects[k + 1]
      BY <2>3 DEF Without
    <3> QED BY <3>2, <3>3
  <2> QED BY <1>1, <1>2, <1>4, <1>5, <1>6, <1>7, <2>1, <2>3, <2>4, MoveStep
<1>8. CASE Index(q, e) = -1
  <2>1. UNCHANGED tree /\ calls' = <<Loop(q, n + 1)>> \o Tail(calls)
    BY <1>8 DEF Turn
  <2>2. Loop(q, n + 1) \in Frame /\ Loop(q, n + 1).op = "loop" /\ Loop(q, n + 1).path = q
    BY <1>2, <1>3 DEF Frame, Loop
  <2> QED BY <1>1, <2>1, <2>2, GoOnStep
<1> QED BY <1>7, <1>8

\* A node that gets its children: the nodes still form a tree.
LEMMA GrownWithChildren ==
  ASSUME QuadTypeOK, Grown, BoundsKept, NEW q \in DOMAIN tree, ~Subdivided(q),
         DOMAIN tree' = DOMAIN tree \cup {Append(q, i) : i \in Child},
         \A i \in Child : tree'[Append(q, i)].bounds = Quarter(tree[q].bounds, i)
  PROVE  Grown'
<1> USE DEF Path
<1>1. \A p \in DOMAIN tree : p \in Path
  BY DEF QuadTypeOK
<1>2. 0 \in Child /\ \A i \in Child : Append(q, i) \notin DOMAIN tree
  BY DEF Grown, Subdivided, Child
<1>3. \A p \in DOMAIN tree : tree'[p].bounds = tree[p].bounds
  BY DEF BoundsKept
<1>4. ASSUME NEW p \in DOMAIN tree', NEW n \in 0 .. Len(p)
      PROVE  Ancestor(p, n) \in DOMAIN tree'
  <2>1. CASE p \in DOMAIN tree
    BY <2>1, <1>4 DEF Grown
  <2>2. CASE p \notin DOMAIN tree
    <3>1. PICK i \in Child : p = Append(q, i)
      BY <2>2
    <3>2. Len(q) \in Nat /\ Len(p) = Len(q) + 1
      BY <3>1, <1>1, ChildPath
    <3>3. CASE n <= Len(q)
      <4>1. n \in 0 .. Len(q)
        BY <3>2, <3>3
      <4>2. Ancestor(p, n) = Ancestor(q, n)
        BY <3>1, <4>1, <1>1, ChildAncestors
      <4> QED BY <4>1, <4>2 DEF Grown
    <3>4. CASE n = Len(q) + 1
      BY <3>1, <3>4, <1>1, ChildAncestors
    <3> QED BY <3>2, <3>3, <3>4
  <2> QED BY <2>1, <2>2
<1>5. ASSUME NEW p \in DOMAIN tree', NEW i \in Child, NEW j \in Child,
             Append(p, i) \in DOMAIN tree'
      PROVE  /\ Append(p, j) \in DOMAIN tree'
             /\ tree'[Append(p, i)].bounds = Quarter(tree'[p].bounds, i)
  <2>1. p \in Path
    BY <1>1, ChildPath
  <2>2. CASE Append(p, i) \in DOMAIN tree
    <3>1. Len(p) \in 0 .. Len(Append(p, i)) /\ Ancestor(Append(p, i), Len(p)) = p
      BY <2>1, ChildPath, ChildAncestors
    <3>2. p \in DOMAIN tree
      BY <3>1, <2>2 DEF Grown
    <3> QED BY <2>2, <3>2, <1>3 DEF Grown
  <2>3. CASE Append(p, i) \notin DOMAIN tree
    <3>1. PICK k \in Child : Append(p, i) = Append(q, k)
      BY <2>3, <1>5
    <3>2. p = q /\ i = k
      BY <3>1, <2>1, <1>1, AppendInjective
    <3> QED BY <3>2, <1>3
  <2> QED BY <2>2, <2>3
<1>6. ASSUME NEW p \in DOMAIN tree, NEW i \in Child
      PROVE  Below(p, Append(q, i)) \/ Part(p, Append(q, i))
  <2>1. /\ Len(q) \in Nat /\ Len(Append(q, i)) = Len(q) + 1 /\ Len(p) \in Nat
        /\ \A n \in 1 .. Len(q) : Append(q, i)[n] = q[n]
        /\ \A n \in 0 .. Len(q) : Ancestor(Append(q, i), n) = Ancestor(q, n)
    BY <1>1, ChildPath, ChildAncestors
  <2>2. CASE p = q \/ Below(p, q)
    BY <2>2, <1>1, BelowChild
  <2>3. CASE Below(q, p)
    <3>1. Len(q) \in 0 .. Len(p) /\ Len(q) < Len(p) /\ Ancestor(p, Len(q)) = q
      BY <2>1, <2>3 DEF Below
    <3>2. p[Len(q) + 1] \in Child /\ Ancestor(p, Len(q) + 1) = Append(q, p[Len(q) + 1])
      BY <3>1, <1>1, Extended
    <3>3. Ancestor(p, Len(q) + 1) \in DOMAIN tree
      BY <2>1, <3>1 DEF Grown
    <3> QED BY <3>2, <3>3, <1>2
  <2>4. CASE Part(p, q)
    <3>1. PICK n \in 0 .. Len(p) : /\ n < Len(p) /\ n < Len(q)
                                  /\ Ancestor(p, n) = Ancestor(q, n)
                                  /\ p[n + 1] # q[n + 1]
      BY <2>4 DEF Part
    <3>2. n < Len(Append(q, i)) /\ n \in 0 .. Len(q) /\ n + 1 \in 1 .. Len(q)
      BY <2>1, <3>1
    <3> QED BY <2>1, <3>1, <3>2 DEF Part
  <2> QED BY <2>2, <2>3, <2>4 DEF Grown
<1>7. ASSUME NEW p \in Path, NEW r \in Path, Part(p, r)
      PROVE  Part(r, p)
  <2>1. PICK n \in 0 .. Len(p) : /\ n < Len(p) /\ n < Len(r)
                                /\ Ancestor(p, n) = Ancestor(r, n)
                                /\ p[n + 1] # r[n + 1]
    BY <1>7 DEF Part
  <2>2. n \in 0 .. Len(r)
    BY <2>1, LenProperties
  <2> QED BY <2>1, <2>2 DEF Part
<1>8. ASSUME NEW i \in Child, NEW j \in Child, i # j
      PROVE  Part(Append(q, i), Append(q, j))
  <2>1. /\ Len(q) \in Nat /\ Len(Append(q, i)) = Len(q) + 1 /\ Len(Append(q, j)) = Len(q) + 1
        /\ Append(q, i)[Len(q) + 1] = i /\ Append(q, j)[Len(q) + 1] = j
    BY <1>1, ChildPath
  <2>2. Ancestor(Append(q, i), Len(q)) = Ancestor(Append(q, j), Len(q))
    BY <2>1, <1>1, ChildAncestors
  <2>3. Len(q) \in 0 .. Len(Append(q, i)) /\ Len(q) < Len(q) + 1
    BY <2>1
  <2> QED BY <1>8, <2>1, <2>2, <2>3 DEF Part
<1>9. ASSUME NEW p \in DOMAIN tree', NEW r \in DOMAIN tree'
      PROVE  p = r \/ Below(p, r) \/ Below(r, p) \/ Part(p, r)
  <2>1. CASE p \in DOMAIN tree /\ r \in DOMAIN tree
    BY <2>1 DEF Grown
  <2>2. CASE p \in DOMAIN tree /\ r \notin DOMAIN tree
    <3>1. PICK i \in Child : r = Append(q, i)
      BY <2>2
    <3> QED BY <2>2, <3>1, <1>6
  <2>3. CASE p \notin DOMAIN tree /\ r \in DOMAIN tree
    <3>1. PICK i \in Child : p = Append(q, i)
      BY <2>3
    <3>2. p \in Path /\ r \in Path
      BY <2>3, <3>1, <1>1, ChildPath
    <3> QED BY <2>3, <3>1, <3>2, <1>6, <1>7
  <2>4. CASE p \notin DOMAIN tree /\ r \notin DOMAIN tree
    <3>1. PICK i \in Child : p = Append(q, i)
      BY <2>4
    <3>2. PICK j \in Child : r = Append(q, j)
      BY <2>4
    <3> QED BY <3>1, <3>2, <1>8
  <2> QED BY <2>1, <2>2, <2>3, <2>4
<1>10. Root \in DOMAIN tree' /\ tree'[Root].bounds = WorldBounds
  BY <1>3 DEF Grown
<1> QED BY <1>4, <1>5, <1>9, <1>10 DEF Grown

\* A full node is subdivided; nothing moves yet.
LEMMA SplitStep ==
  ASSUME QuadInv, Split
  PROVE  QuadInv'
<1> PICK c : c = Head(calls)
  OBVIOUS
<1> PICK q : q = c.path
  OBVIOUS
<1> PICK e : e = c.entry
  OBVIOUS
<1> PICK s : s = tree[q].objects
  OBVIOUS
<1> PICK f : f = Loop(q, 1)
  OBVIOUS
<1> PICK N : N = NewChildren(q)
  OBVIOUS
<1>1. /\ UNCHANGED used /\ calls # <<>> /\ c.op = "insert" /\ IsFull(c)
      /\ calls' = <<f>> \o Tail(calls)
      /\ tree' = [p \in DOMAIN tree \cup N |->
                    IF p = q THEN [tree[p] EXCEPT !.objects = Append(s, e)]
                    ELSE IF p \in DOMAIN tree THEN tree[p]
                    ELSE [bounds |-> Quarter(tree[q].bounds, p[Len(p)]), objects |-> <<>>]]
  BY DEF Split, Inserting, Pushed
<1>2. /\ c \in Frame /\ q \in DOMAIN tree /\ q \in Path /\ e \in Entry /\ c = Call(q, e)
      /\ c = calls[1] /\ Len(calls) \in Nat \ {0} /\ s \in Seq(Entry)
      /\ tree[q].bounds \in Boxes /\ Len(q) < MAX_LEVELS
  BY <1>1, TopOfStack DEF Frame, Call, QuadInv, IsFull
<1>3. /\ Append(s, e) \in Seq(Entry) /\ Len(Append(s, e)) = Len(s) + 1 /\ Len(s) \in Nat
      /\ \A k \in 1 .. Len(s) : Append(s, e)[k] = s[k]
      /\ Append(s, e)[Len(s) + 1] = e
  BY <1>2, AppendProperties, LenProperties
<1>4. tree \in [DOMAIN tree -> [bounds : Boxes, objects : Seq(Entry)]] /\ Grown
  BY DEF QuadInv, QuadTypeOK
<1>5. /\ \A p \in N : p \notin DOMAIN tree /\ \E i \in Child : p = Append(q, i)
      /\ Subdivided(q) => N = {}
      /\ ~Subdivided(q) => N = {Append(q, i) : i \in Child}
  <2>1. CASE Subdivided(q)
    <3>1. N = {}
      BY <2>1 DEF NewChildren
    <3> QED BY <2>1, <3>1
  <2>2. CASE ~Subdivided(q)
    <3>1. N = {Append(q, i) : i \in Child}
      BY <2>2 DEF NewChildren
    <3>2. \A i \in Child : Append(q, i) \notin DOMAIN tree
      BY <2>2, <1>2, <1>4 DEF Grown, Subdivided, Child
    <3> QED BY <2>2, <3>1, <3>2
  <2> QED BY <2>1, <2>2
<1>6. DOMAIN tree' = DOMAIN tree \cup N
  BY <1>1
<1>7. \A p \in DOMAIN tree :
        /\ tree'[p] \in [bounds : Boxes, objects : Seq(Entry)]
        /\ tree'[p].bounds = tree[p].bounds
        /\ tree'[p].objects = IF p = q THEN Append(s, e) ELSE tree[p].objects
  <2> TAKE p \in DOMAIN tree
  <2>1. tree[p] \in [bounds : Boxes, objects : Seq(Entry)]
    BY <1>4
  <2>2. CASE p = q
    <3>1. tree'[p] = [tree[p] EXCEPT !.objects = Append(s, e)]
      BY <1>1, <2>2
    <3> QED BY <2>1, <2>2, <3>1, <1>3
  <2>3. CASE p # q
    <3>1. tree'[p] = tree[p]
      BY <1>1, <2>3
    <3> QED BY <2>1, <2>3, <3>1
  <2> QED BY <2>2, <2>3
<1>8. \A i \in Child : Append(q, i) \in N =>
        tree'[Append(q, i)] = [bounds |-> Quarter(tree[q].bounds, i), objects |-> <<>>]
  <2> TAKE i \in Child
  <2>1. HAVE Append(q, i) \in N
  <2>2. Append(q, i)[Len(Append(q, i))] = i
    BY <1>2, ChildPath
  <2>3. Append(q, i) # q /\ Append(q, i) \notin DOMAIN tree
    BY <2>1, <1>2, <1>5
  <2> QED BY <1>1, <2>1, <2>2, <2>3
<1>9. \A p \in N : tree'[p] \in [bounds : Boxes, objects : Seq(Entry)] /\ tree'[p].objects = <<>>
  <2> SUFFICES ASSUME NEW p \in N
               PROVE  tree'[p] \in [bounds : Boxes, objects : Seq(Entry)] /\ tree'[p].objects = <<>>
    OBVIOUS
  <2>1. PICK i \in Child : p = Append(q, i)
    BY <1>5
  <2>2. Quarter(tree[q].bounds, i) \in Boxes /\ <<>> \in Seq(Entry)
    BY <1>2, QuarterType
  <2>3. tree'[p] = [bounds |-> Quarter(tree[q].bounds, i), objects |-> <<>>]
    BY <2>1, <1>8
  <2> QED BY <2>2, <2>3
<1>10. BoundsKept
  BY <1>6, <1>7 DEF BoundsKept
<1>11. f \in Frame /\ f.op = "loop" /\ f.path = q
  BY <1>2 DEF Frame, Loop
<1>12. /\ calls' \in Seq(Frame) /\ Len(calls') = Len(calls) /\ calls'[1] = f
       /\ \A k \in 2 .. Len(calls) : calls'[k] = calls[k]
  BY <1>1, <1>11, TopOfStack, PushFrame DEF QuadInv
<1>13. QuadTypeOK'
  <2>1. Frame \subseteq Frame'
    BY <1>10, FramesKept
  <2>2. calls' \in Seq(Frame')
    BY <2>1, <1>12, SeqMonotonic
  <2>3. \A p \in DOMAIN tree' : tree'[p] \in [bounds : Boxes, objects : Seq(Entry)]
    BY <1>6, <1>7, <1>9
  <2>4. tree' \in [DOMAIN tree' -> [bounds : Boxes, objects : Seq(Entry)]]
    BY <1>1, <2>3
  <2>5. \A p \in DOMAIN tree' : p \in Seq(Child) /\ Len(p) <= MAX_LEVELS
    <3>1. \A i \in Child : Append(q, i) \in Seq(Child) /\ Len(Append(q, i)) <= MAX_LEVELS
      BY <1>2, ChildPath, QuadTreeAssumption DEF Path
    <3>2. \A p \in DOMAIN tree : p \in Seq(Child) /\ Len(p) <= MAX_LEVELS
      BY DEF QuadInv, QuadTypeOK
    <3>3. \A p \in N : p \in Seq(Child) /\ Len(p) <= MAX_LEVELS
      BY <3>1, <1>5
    <3> QED BY <3>2, <3>3, <1>6
  <2> QED BY <1>1, <2>2, <2>4, <2>5 DEF QuadInv, QuadTypeOK, Frame
<1>14. Grown'
  <2>1. CASE Subdivided(q)
    <3>1. DOMAIN tree' = DOMAIN tree
      BY <2>1, <1>5, <1>6
    <3> QED BY <3>1, <1>10, GrownKept DEF QuadInv
  <2>2. CASE ~Subdivided(q)
    <3>1. N = {Append(q, i) : i \in Child}
      BY <2>2, <1>5
    <3>2. ASSUME NEW i \in Child
          PROVE  tree'[Append(q, i)].bounds = Quarter(tree[q].bounds, i)
      <4>1. Append(q, i) \in N
        BY <3>1
      <4>2. tree'[Append(q, i)] = [bounds |-> Quarter(tree[q].bounds, i), objects |-> <<>>]
        BY <4>1, <1>8
      <4> QED BY <4>2
    <3> QED BY <2>2, <3>1, <3>2, <1>2, <1>6, <1>10, GrownWithChildren DEF QuadInv
  <2> QED BY <2>1, <2>2
<1>15. AllBelong'
  <2>1. IsAt(q, e)
    BY <1>2 DEF IsAt
  <2>2. ASSUME NEW p \in DOMAIN tree', NEW d \in Entry, IsAt(p, d)'
        PROVE  p \in DOMAIN tree /\ IsAt(p, d)
    <3>1. CASE \E k \in 1 .. Len(tree'[p].objects) : tree'[p].objects[k] = d
      <4>1. p \in DOMAIN tree
        <5>1. ASSUME p \in N PROVE FALSE
          <6>1. Len(tree'[p].objects) = 0
            BY <5>1, <1>9
          <6> QED BY <3>1, <6>1
        <5> QED BY <5>1, <1>6
      <4>2. CASE p = q
        <5>1. \E k \in 1 .. Len(Append(s, e)) : Append(s, e)[k] = d
          BY <3>1, <4>2, <1>2, <1>7
        <5>2. d = e \/ \E k \in 1 .. Len(s) : s[k] = d
          BY <5>1, <1>3
        <5>3. CASE d = e
          BY <4>1, <4>2, <5>3, <2>1
        <5>4. CASE \E k \in 1 .. Len(s) : s[k] = d
          BY <4>1, <4>2, <5>4 DEF IsAt
        <5> QED BY <5>2, <5>3, <5>4
      <4>3. CASE p # q
        BY <3>1, <4>1, <4>3, <1>7 DEF IsAt
      <4> QED BY <4>1, <4>2, <4>3
    <3>2. CASE \E k \in 1 .. Len(calls') : calls'[k] = Call(p, d)
      <4>1. f # Call(p, d)
        BY <1>11 DEF Call
      <4>2. PICK k \in 2 .. Len(calls) : calls[k] = Call(p, d)
        BY <3>2, <4>1, <1>2, <1>12
      <4>3. k \in 1 .. Len(calls) /\ calls[k].path = p
        BY <4>2, <1>2 DEF Call
      <4>4. p \in DOMAIN tree
        BY <4>3, FramePath DEF QuadInv
      <4> QED BY <4>2, <4>3, <4>4 DEF IsAt
    <3> QED BY <2>2, <3>1, <3>2 DEF IsAt
  <2> QED BY <2>2, <1>10, AllBelongKept DEF QuadInv
<1>16. LoopsSplit'
  <2>1. Append(q, 0) \in DOMAIN tree'
    <3>1. 0 \in Child
      BY DEF Child
    <3> QED BY <3>1, <1>5, <1>6 DEF Subdivided
  <2>2. ASSUME NEW k \in 1 .. Len(calls), calls'[k].op = "loop"
        PROVE  Append(calls'[k].path, 0) \in DOMAIN tree'
    <3>1. CASE k = 1
      BY <3>1, <2>1, <1>11, <1>12
    <3>2. CASE k # 1
      <4>1. calls'[k] = calls[k]
        BY <3>2, <1>2, <1>12
      <4>2. Append(calls[k].path, 0) \in DOMAIN tree
        BY <2>2, <4>1 DEF QuadInv, LoopsSplit, Subdivided
      <4> QED BY <4>1, <4>2, <1>6
    <3> QED BY <3>1, <3>2
  <2> QED BY <2>2, <1>12 DEF LoopsSplit, Subdivided
<1>17. LoopsUndisturbed'
  BY <1>1, <1>2, <1>11, TopOfStack, LoopsAfterReplace DEF QuadInv
<1> QED BY <1>13, <1>14, <1>15, <1>16, <1>17 DEF QuadInv

-----------------------------------------------------------------------------
(* Nothing is lost, and nothing is stored twice. *)

Indices(p) == 1 .. Len(tree[p].objects)
IdxAt(p, m) == tree[p].objects[m].idx

\* Entry i is the argument of the call on top.
Pending(i) == calls # <<>> /\ Head(calls).op = "insert" /\ Head(calls).entry.idx = i

\* Every entry has one place: the argument of the call on top, the only insert()
\* in progress that has not stored its argument yet, or one index of one node.
OncePlaced ==
  /\ \A k \in 2 .. Len(calls) : calls[k].op = "loop"
  /\ \A i : Pending(i) => i \in 1 .. used
  /\ \A p \in DOMAIN tree : \A m \in Indices(p) :
       IdxAt(p, m) \in 1 .. used /\ ~Pending(IdxAt(p, m))
  /\ \A p, r \in DOMAIN tree : \A m \in Indices(p), n \in Indices(r) :
       IdxAt(p, m) = IdxAt(r, n) => p = r /\ m = n
  /\ \A i \in 1 .. used :
       Pending(i) \/ \E p \in DOMAIN tree : \E m \in Indices(p) : IdxAt(p, m) = i

\* A step that leaves the objects alone, and the argument on top.
LEMMA OnceKept ==
  ASSUME OncePlaced, UNCHANGED <<tree, used>>,
         \A k \in 2 .. Len(calls') : calls'[k].op = "loop",
         \A i : Pending(i)' <=> Pending(i)
  PROVE  OncePlaced'
BY DEF OncePlaced, Indices, IdxAt

\* The stack without its top holds loops only.
LEMMA OnlyLoopsBelow ==
  ASSUME QuadTypeOK, OncePlaced, calls # <<>>
  PROVE  /\ \A k \in 1 .. Len(Tail(calls)) : Tail(calls)[k].op = "loop"
         /\ \A i : calls' = Tail(calls) => ~Pending(i)'
<1>1. /\ Len(calls) \in Nat \ {0} /\ Len(Tail(calls)) = Len(calls) - 1
      /\ \A k \in 1 .. Len(calls) - 1 : Tail(calls)[k] = calls[k + 1]
      /\ Tail(calls) \in Seq(Frame)
  BY TopOfStack
<1>2. \A k \in 1 .. Len(Tail(calls)) : Tail(calls)[k].op = "loop"
  BY <1>1 DEF OncePlaced
<1>3. ASSUME calls' = Tail(calls), calls' # <<>> PROVE Head(calls').op = "loop"
  <2>1. Len(calls') \in Nat \ {0} /\ Head(calls') = calls'[1]
    BY <1>1, <1>3, EmptySeq
  <2> QED BY <1>2, <1>3, <2>1
<1> QED BY <1>2, <1>3 DEF Pending

\* A top that is replaced or pushed leaves only loops below it.
LEMMA OnceReplaced ==
  ASSUME QuadTypeOK, OncePlaced, calls # <<>>, NEW f \in Frame, calls' = <<f>> \o Tail(calls)
  PROVE  /\ \A k \in 2 .. Len(calls') : calls'[k].op = "loop"
         /\ calls' # <<>> /\ Head(calls') = f
<1>1. /\ Tail(calls) \in Seq(Frame) /\ Len(Tail(calls)) \in Nat
      /\ \A k \in 1 .. Len(Tail(calls)) : Tail(calls)[k].op = "loop"
  BY TopOfStack, OnlyLoopsBelow, LenProperties
<1>2. /\ calls' \in Seq(Frame) /\ Len(calls') = Len(Tail(calls)) + 1 /\ calls'[1] = f
      /\ \A k \in 2 .. Len(Tail(calls)) + 1 : calls'[k] = Tail(calls)[k - 1]
  BY <1>1, PushFrame
<1> QED BY <1>1, <1>2, EmptySeq

\* A new entry is pending, and no other is.
LEMMA InsertOnce ==
  ASSUME QuadInv, OncePlaced, NEW box \in Box, insert(box)
  PROVE  OncePlaced'
<1> PICK f : f = Call(Root, [idx |-> used + 1, box |-> box])
  OBVIOUS
<1>1. /\ calls = <<>> /\ calls' = <<f>> /\ tree' = tree /\ used' = used + 1 /\ used \in Nat
      /\ f.op = "insert" /\ f.entry.idx = used + 1
  BY DEF insert, Call, QuadInv, QuadTypeOK
<1>2. Len(calls') = 1 /\ Head(calls') = f /\ calls' # <<>>
  BY <1>1
<1>3. \A i : Pending(i)' <=> i = used + 1
  BY <1>1, <1>2 DEF Pending
<1>4. \A i : i \in 1 .. used' <=> i \in 1 .. used \/ i = used + 1
  BY <1>1
<1>5. \A i : ~Pending(i)
  BY <1>1 DEF Pending
<1>6. used + 1 \notin 1 .. used
  BY <1>1
<1>7. \A k \in 2 .. Len(calls') : calls'[k].op = "loop"
  BY <1>2
<1>8. /\ \A p : Indices(p)' = Indices(p)
      /\ \A p, m : IdxAt(p, m)' = IdxAt(p, m)
  BY <1>1 DEF Indices, IdxAt
<1>9. \A p \in DOMAIN tree : \A m \in Indices(p) : IdxAt(p, m) \in 1 .. used
  BY DEF OncePlaced
<1>10. \A i \in 1 .. used : \E p \in DOMAIN tree : \E m \in Indices(p) : IdxAt(p, m) = i
  BY <1>5 DEF OncePlaced
<1>11. \A p, r \in DOMAIN tree : \A m \in Indices(p), n \in Indices(r) :
         IdxAt(p, m) = IdxAt(r, n) => p = r /\ m = n
  BY DEF OncePlaced
<1>12. \A i : Pending(i)' => i \in 1 .. used'
  BY <1>3, <1>4
<1>13. \A p \in DOMAIN tree' : \A m \in Indices(p)' :
         IdxAt(p, m)' \in 1 .. used' /\ ~Pending(IdxAt(p, m))'
  BY <1>1, <1>3, <1>4, <1>6, <1>8, <1>9
<1>14. \A i \in 1 .. used' :
         Pending(i)' \/ \E p \in DOMAIN tree' : \E m \in Indices(p)' : IdxAt(p, m)' = i
  BY <1>1, <1>3, <1>4, <1>8, <1>10
<1> QED BY <1>1, <1>7, <1>8, <1>11, <1>12, <1>13, <1>14 DEF OncePlaced

\* The argument on top becomes the last object of a node.
LEMMA PushedOnce ==
  ASSUME QuadInv, OncePlaced, used' = used, calls # <<>>,
         NEW q \in DOMAIN tree, NEW e \in Entry, Head(calls) = Call(q, e),
         DOMAIN tree \subseteq DOMAIN tree',
         tree'[q].objects = Append(tree[q].objects, e),
         \A p \in DOMAIN tree \ {q} : tree'[p].objects = tree[p].objects,
         \A p \in DOMAIN tree' \ DOMAIN tree : tree'[p].objects = <<>>,
         \A k \in 2 .. Len(calls') : calls'[k].op = "loop",
         \A i : ~Pending(i)'
  PROVE  OncePlaced'
<1> PICK s : s = tree[q].objects
  OBVIOUS
<1> PICK z : z = Len(s) + 1
  OBVIOUS
<1>1. /\ s \in Seq(Entry) /\ Len(s) \in Nat
      /\ Len(Append(s, e)) = z /\ \A m \in 1 .. Len(s) : Append(s, e)[m] = s[m]
      /\ Append(s, e)[z] = e
  BY AppendProperties, LenProperties DEF QuadInv, QuadTypeOK
<1>2. \A i : Pending(i) <=> i = e.idx
  BY DEF Pending, Call
<1>3. ASSUME NEW p \in DOMAIN tree', NEW m \in Indices(p)'
      PROVE  \/ p \in DOMAIN tree /\ m \in Indices(p) /\ IdxAt(p, m)' = IdxAt(p, m)
             \/ p = q /\ m = z /\ IdxAt(p, m)' = e.idx
  <2>1. CASE p \notin DOMAIN tree
    <3>1. tree'[p].objects = <<>>
      BY <2>1
    <3> QED BY <1>3, <3>1 DEF Indices
  <2>2. CASE p \in DOMAIN tree /\ p # q
    BY <1>3, <2>2 DEF Indices, IdxAt
  <2>3. CASE p = q
    BY <1>1, <1>3, <2>3 DEF Indices, IdxAt
  <2> QED BY <2>1, <2>2, <2>3
<1>4. ASSUME NEW p \in DOMAIN tree, NEW m \in Indices(p)
      PROVE  m \in Indices(p)' /\ IdxAt(p, m)' = IdxAt(p, m)
  <2>1. CASE p # q
    BY <1>4, <2>1 DEF Indices, IdxAt
  <2>2. CASE p = q
    BY <1>1, <1>4, <2>2 DEF Indices, IdxAt
  <2> QED BY <2>1, <2>2
<1>5. z \in Indices(q)' /\ IdxAt(q, z)' = e.idx
  BY <1>1 DEF Indices, IdxAt
<1>6. ASSUME NEW p \in DOMAIN tree', NEW m \in Indices(p)' PROVE IdxAt(p, m)' \in 1 .. used
  BY <1>2, <1>3 DEF OncePlaced
<1>7. ASSUME NEW p \in DOMAIN tree', NEW r \in DOMAIN tree',
             NEW m \in Indices(p)', NEW n \in Indices(r)', IdxAt(p, m)' = IdxAt(r, n)'
      PROVE  p = r /\ m = n
  <2>1. \A x \in DOMAIN tree : \A y \in Indices(x) : IdxAt(x, y) # e.idx
    BY <1>2 DEF OncePlaced
  <2> QED BY <1>3, <1>7, <2>1 DEF OncePlaced
<1>8. ASSUME NEW i \in 1 .. used
      PROVE  \E p \in DOMAIN tree' : \E m \in Indices(p)' : IdxAt(p, m)' = i
  <2>1. CASE Pending(i)
    BY <1>2, <1>5, <2>1
  <2>2. CASE ~Pending(i)
    <3>1. PICK p \in DOMAIN tree : \E m \in Indices(p) : IdxAt(p, m) = i
      BY <2>2 DEF OncePlaced
    <3> QED BY <1>4, <3>1
  <2> QED BY <2>1, <2>2
<1> QED BY <1>6, <1>7, <1>8 DEF OncePlaced

\* An empty tree has no entries.
LEMMA EmptyOnce ==
  ASSUME calls' = <<>>, used' = 0, DOMAIN tree' = {Root}, tree'[Root].objects = <<>>
  PROVE  OncePlaced'
BY DEF OncePlaced, Indices, IdxAt, Pending

\* A loop goes over a node with children.
LEMMA SplitLoop ==
  ASSUME QuadInv, calls # <<>>, Head(calls).op = "loop"
  PROVE  Subdivided(Head(calls).path)
BY TopOfStack DEF QuadInv, LoopsSplit

\* The object that the loop is at leaves its place and is the argument on top.
LEMMA MovedOnce ==
  ASSUME QuadInv, OncePlaced, used' = used, calls # <<>>, Head(calls).op = "loop",
         NEW q \in DOMAIN tree, NEW n \in Indices(q), NEW r \in Seq(Entry),
         Without(r, tree[q].objects, n),
         tree' = [tree EXCEPT ![q].objects = r],
         \A k \in 2 .. Len(calls') : calls'[k].op = "loop",
         \A i : Pending(i)' <=> i = IdxAt(q, n)
  PROVE  OncePlaced'
<1> PICK s : s = tree[q].objects
  OBVIOUS
<1>1. /\ s \in Seq(Entry) /\ Len(s) \in Nat /\ n \in 1 .. Len(s)
      /\ Len(r) = Len(s) - 1
      /\ \A k \in 1 .. Len(r) : r[k] = IF k < n THEN s[k] ELSE s[k + 1]
  BY LenProperties DEF QuadInv, QuadTypeOK, Indices, Without
<1>2. /\ DOMAIN tree' = DOMAIN tree /\ tree'[q].objects = r
      /\ \A p \in DOMAIN tree \ {q} : tree'[p].objects = tree[p].objects
  BY ObjectsReplaced DEF QuadInv
<1>3. \A i : ~Pending(i)
  BY DEF Pending
<1> DEFINE Old(p, m) == IF p = q /\ ~(m < n) THEN m + 1 ELSE m
<1>4. ASSUME NEW p \in DOMAIN tree, NEW m \in Indices(p)'
      PROVE  /\ Old(p, m) \in Indices(p) /\ IdxAt(p, m)' = IdxAt(p, Old(p, m))
             /\ p = q => Old(p, m) # n
             /\ m \in Int
  <2>1. CASE p # q
    BY <1>2, <1>4, <2>1 DEF Indices, IdxAt
  <2>2. CASE p = q
    BY <1>1, <1>2, <1>4, <2>2 DEF Indices, IdxAt
  <2> QED BY <2>1, <2>2
<1>5. ASSUME NEW p \in DOMAIN tree, NEW m \in Indices(p), ~(p = q /\ m = n)
      PROVE  \E k \in Indices(p)' : IdxAt(p, k)' = IdxAt(p, m)
  <2>1. CASE p # q
    BY <1>2, <1>5, <2>1 DEF Indices, IdxAt
  <2>2. CASE p = q /\ m < n
    <3>1. m \in Indices(p)' /\ IdxAt(p, m)' = IdxAt(p, m)
      BY <1>1, <1>2, <1>5, <2>2 DEF Indices, IdxAt
    <3> QED BY <3>1
  <2>3. CASE p = q /\ ~(m < n)
    <3>1. m - 1 \in Indices(p)' /\ IdxAt(p, m - 1)' = IdxAt(p, m)
      <4>1. m \in 1 .. Len(s) /\ m - 1 \in 1 .. Len(r) /\ ~(m - 1 < n) /\ (m - 1) + 1 = m
        BY <1>1, <1>5, <2>3 DEF Indices
      <4>2. r[m - 1] = s[m]
        BY <1>1, <4>1
      <4> QED BY <1>2, <2>3, <4>1, <4>2 DEF Indices, IdxAt
    <3> QED BY <3>1
  <2> QED BY <1>5, <2>1, <2>2, <2>3
<1>6. ASSUME NEW p \in DOMAIN tree, NEW m \in Indices(p)'
      PROVE  IdxAt(p, m)' \in 1 .. used /\ IdxAt(p, m)' # IdxAt(q, n)
  <2>1. IdxAt(p, m)' = IdxAt(p, Old(p, m)) /\ Old(p, m) \in Indices(p)
        /\ (p = q => Old(p, m) # n)
    BY <1>4
  <2> HIDE DEF Old
  <2> QED BY <2>1 DEF OncePlaced
<1>7. ASSUME NEW p \in DOMAIN tree, NEW x \in DOMAIN tree,
             NEW m \in Indices(p)', NEW k \in Indices(x)', IdxAt(p, m)' = IdxAt(x, k)'
      PROVE  p = x /\ m = k
  <2>1. /\ IdxAt(p, Old(p, m)) = IdxAt(x, Old(x, k))
        /\ Old(p, m) \in Indices(p) /\ Old(x, k) \in Indices(x) /\ m \in Int /\ k \in Int
    BY <1>4, <1>7
  <2>2. p = x /\ Old(p, m) = Old(x, k)
    <3> HIDE DEF Old
    <3> QED BY <2>1 DEF OncePlaced
  <2> QED BY <1>1, <2>1, <2>2
<1>8. ASSUME NEW i \in 1 .. used, i # IdxAt(q, n)
      PROVE  \E p \in DOMAIN tree : \E m \in Indices(p)' : IdxAt(p, m)' = i
  <2>1. PICK p \in DOMAIN tree : \E m \in Indices(p) : IdxAt(p, m) = i
    BY <1>3 DEF OncePlaced
  <2>2. PICK m \in Indices(p) : IdxAt(p, m) = i
    BY <2>1
  <2> QED BY <1>5, <1>8, <2>2
<1>9. IdxAt(q, n) \in 1 .. used
  BY DEF OncePlaced
<1> QED BY <1>2, <1>6, <1>7, <1>8, <1>9 DEF OncePlaced

\* Every step keeps one place for every entry.
LEMMA OnceStep ==
  ASSUME QuadInv, OncePlaced, [QuadNext]_vars
  PROVE  OncePlaced'
<1> PICK c : c = Head(calls)
  OBVIOUS
<1> PICK q : q = c.path
  OBVIOUS
<1> PICK e : e = c.entry
  OBVIOUS
<1>1. QuadTypeOK
  BY DEF QuadInv
<1>2. ASSUME calls # <<>>
      PROVE  /\ c \in Frame /\ q \in DOMAIN tree
             /\ c.op = "insert" => e \in Entry /\ c = Call(q, e)
             /\ c.op = "loop" => c.next \in Nat \ {0} /\ tree[q].objects \in Seq(Entry)
  BY <1>1, <1>2, TopOfStack DEF Frame, Call
<1>3. CASE PassDown
  <2>1. /\ calls # <<>> /\ c.op = "insert" /\ UNCHANGED <<tree, used>> /\ Fits(c)
        /\ calls' = <<ChildCall(q, e)>> \o Tail(calls)
    BY <1>3 DEF PassDown, Inserting
  <2>2. ChildCall(q, e) \in Frame
    <3>1. c = calls[1] /\ Len(calls) \in Nat \ {0}
      BY <1>1, <2>1, TopOfStack
    <3>2. Belongs(q, e)
      BY <1>2, <2>1, <3>1 DEF QuadInv, AllBelong, IsAt
    <3>3. Subdivided(q) /\ Index(q, e) # -1
      BY <2>1 DEF Fits
    <3>4. Append(q, Index(q, e)) \in DOMAIN tree
      BY <1>2, <2>1, <3>2, <3>3, SendsDown DEF QuadInv
    <3> QED BY <1>2, <2>1, <3>4 DEF ChildCall, Call, Frame
  <2>3. /\ \A k \in 2 .. Len(calls') : calls'[k].op = "loop"
        /\ calls' # <<>> /\ Head(calls') = ChildCall(q, e)
    BY <1>1, <2>1, <2>2, OnceReplaced
  <2>4. \A i : Pending(i)' <=> Pending(i)
    BY <2>1, <2>3 DEF Pending, ChildCall, Call
  <2> QED BY <2>1, <2>3, <2>4, OnceKept
<1>4. CASE Store
  <2>1. /\ UNCHANGED used /\ calls # <<>> /\ c.op = "insert" /\ calls' = Tail(calls)
        /\ tree' = [tree EXCEPT ![q].objects = Append(tree[q].objects, e)]
    BY <1>4 DEF Store, Inserting, Pushed
  <2>2. Append(tree[q].objects, e) \in Seq(Entry)
    BY <1>1, <1>2, <2>1, TopOfStack, AppendProperties
  <2>3. /\ DOMAIN tree' = DOMAIN tree /\ tree'[q].objects = Append(tree[q].objects, e)
        /\ \A p \in DOMAIN tree : p # q => tree'[p].objects = tree[p].objects
    BY <1>1, <1>2, <2>1, <2>2, ObjectsReplaced
  <2>4. /\ \A k \in 1 .. Len(calls') : calls'[k].op = "loop"
        /\ \A i : ~Pending(i)'
    BY <1>1, <2>1, OnlyLoopsBelow
  <2> QED BY <1>2, <2>1, <2>3, <2>4, PushedOnce
<1>5. CASE Split
  <2>1. /\ UNCHANGED used /\ calls # <<>> /\ c.op = "insert"
        /\ calls' = <<Loop(q, 1)>> \o Tail(calls)
        /\ tree' = [p \in DOMAIN tree \cup NewChildren(q) |->
                      IF p = q THEN [tree[p] EXCEPT !.objects = Append(tree[q].objects, e)]
                      ELSE IF p \in DOMAIN tree THEN tree[p]
                      ELSE [bounds |-> Quarter(tree[q].bounds, p[Len(p)]), objects |-> <<>>]]
    BY <1>5 DEF Split, Inserting, Pushed
  <2>2. /\ q \in DOMAIN tree /\ e \in Entry /\ c = Call(q, e)
        /\ tree[q] \in [bounds : Boxes, objects : Seq(Entry)]
    BY <1>1, <1>2, <2>1 DEF QuadTypeOK
  <2>3. Loop(q, 1) \in Frame
    BY <2>2 DEF Loop, Frame
  <2>4. /\ \A k \in 2 .. Len(calls') : calls'[k].op = "loop"
        /\ \A i : ~Pending(i)'
    BY <1>1, <2>1, <2>3, OnceReplaced DEF Pending, Loop
  <2>5. tree'[q].objects = Append(tree[q].objects, e)
    BY <2>1, <2>2
  <2>6. \A p \in DOMAIN tree \ {q} : tree'[p].objects = tree[p].objects
    BY <2>1
  <2>7. \A p \in DOMAIN tree' \ DOMAIN tree : tree'[p].objects = <<>>
    BY <2>1, <2>2
  <2> QED BY <2>1, <2>2, <2>4, <2>5, <2>6, <2>7, PushedOnce
<1>6. CASE Turn
  <2> PICK n : n = c.next
    OBVIOUS
  <2>1. /\ UNCHANGED used /\ calls # <<>> /\ c.op = "loop" /\ n <= Len(tree[q].objects)
    BY <1>6 DEF Turn, Looping
  <2>2. /\ tree[q].objects \in Seq(Entry) /\ n \in 1 .. Len(tree[q].objects)
        /\ n \in Nat \ {0} /\ q \in DOMAIN tree /\ tree[q].objects[n] \in Entry
    BY <1>2, <2>1, LenProperties, ElementOfSeq
  <2> PICK d : d = tree[q].objects[n]
    OBVIOUS
  <2>3. CASE Index(q, d) # -1
    <3>1. /\ tree' = [tree EXCEPT ![q].objects = Erased(c)]
          /\ calls' = <<ChildCall(q, d)>> \o calls
      BY <1>6, <2>3 DEF Turn
    <3>2. Erased(c) \in Seq(Entry) /\ Without(Erased(c), tree[q].objects, n)
      <4>1. Erased(c) = SubSeq(tree[q].objects, 1, n - 1)
                          \o SubSeq(tree[q].objects, n + 1, Len(tree[q].objects))
        BY DEF Erased, Seqs!RemoveAt
      <4> QED BY <2>2, <4>1, RemovedElement
    <3>3. ChildCall(q, d) \in Frame
      <4>1. Belongs(q, d)
        BY <2>2 DEF QuadInv, AllBelong, IsAt
      <4>2. Subdivided(q)
        BY <2>1, SplitLoop
      <4>3. Append(q, Index(q, d)) \in DOMAIN tree
        BY <2>2, <2>3, <4>1, <4>2, SendsDown DEF QuadInv
      <4> QED BY <2>2, <4>3 DEF ChildCall, Call, Frame
    <3>4. /\ calls' \in Seq(Frame) /\ Len(calls') = Len(calls) + 1 /\ calls'[1] = ChildCall(q, d)
          /\ \A k \in 2 .. Len(calls) + 1 : calls'[k] = calls[k - 1]
          /\ Len(calls) \in Nat \ {0} /\ Head(calls) = calls[1]
      BY <1>1, <2>1, <3>1, <3>3, TopOfStack, PushFrame
    <3>5. \A k \in 2 .. Len(calls') : calls'[k].op = "loop"
      BY <2>1, <3>4 DEF OncePlaced
    <3>6. \A i : Pending(i)' <=> i = IdxAt(q, n)
      BY <3>4, EmptySeq DEF Pending, ChildCall, Call, IdxAt
    <3>7. n \in Indices(q)
      BY <2>2 DEF Indices
    <3> QED BY <2>1, <2>2, <3>1, <3>2, <3>5, <3>6, <3>7, MovedOnce
  <2>4. CASE Index(q, d) = -1
    <3>1. UNCHANGED <<tree, used>> /\ calls' = <<Loop(q, n + 1)>> \o Tail(calls)
      BY <1>6, <2>4 DEF Turn
    <3>2. Loop(q, n + 1) \in Frame
      BY <2>2 DEF Loop, Frame
    <3>3. /\ \A k \in 2 .. Len(calls') : calls'[k].op = "loop"
          /\ \A i : Pending(i)' <=> Pending(i)
      BY <1>1, <2>1, <3>1, <3>2, OnceReplaced DEF Pending, Loop
    <3> QED BY <3>1, <3>3, OnceKept
  <2> QED BY <2>3, <2>4
<1>7. CASE Return
  <2>1. /\ UNCHANGED <<tree, used>> /\ calls # <<>> /\ c.op = "loop" /\ calls' = Tail(calls)
    BY <1>7 DEF Return, Looping
  <2>2. /\ \A k \in 1 .. Len(calls') : calls'[k].op = "loop"
        /\ \A i : Pending(i)' <=> Pending(i)
    BY <1>1, <2>1, OnlyLoopsBelow DEF Pending
  <2> QED BY <2>1, <2>2, OnceKept
<1>8. CASE clear
  <2>1. /\ calls' = <<>> /\ used' = 0 /\ DOMAIN tree' = {Root} /\ tree'[Root].objects = <<>>
    BY <1>8 DEF clear
  <2> QED BY <2>1, EmptyOnce
<1>9. CASE UNCHANGED vars
  BY <1>9, OnceKept DEF vars, OncePlaced, Pending
<1> QED BY <1>3, <1>4, <1>5, <1>6, <1>7, <1>8, <1>9, InsertOnce DEF QuadNext

-----------------------------------------------------------------------------
(* The theorems. *)

\* The inductive invariant holds in every state of the tree, also in the middle
\* of an insert() with its calls and loops.
THEOREM QuadInvariant == QuadSpec => []QuadInv
<1>1. QuadInit => QuadInv
  BY InitialInv
<1>2. QuadInv /\ [QuadNext]_vars => QuadInv'
  <2> SUFFICES ASSUME QuadInv, [QuadNext]_vars
               PROVE  QuadInv'
    OBVIOUS
  <2>1. CASE clear
    BY <2>1, ClearStep DEF clear
  <2>2. CASE UNCHANGED vars
    BY <2>2 DEF vars, QuadInv, QuadTypeOK, Grown, AllBelong, IsAt, Belongs, Directed, Within,
                Index, LoopsSplit, LoopsUndisturbed, Subdivided
  <2> QED BY <2>1, <2>2, InsertStep, PassDownStep, StoreStep, SplitStep, TurnStep, ReturnStep
          DEF QuadNext
<1> QED BY <1>1, <1>2, PTL DEF QuadSpec

\* Whatever is inserted, every variable keeps its type and no node is deeper
\* than MAX_LEVELS.
THEOREM QuadTypeCorrect == QuadSpec => []QuadTypeOK
<1>1. QuadInv => QuadTypeOK
  BY DEF QuadInv
<1> QED BY <1>1, QuadInvariant, PTL

\* The loop of insert() is never disturbed by the calls that it makes.
THEOREM LoopsCorrect == QuadSpec => []LoopsUndisturbed
<1>1. QuadInv => LoopsUndisturbed
  BY DEF QuadInv
<1> QED BY <1>1, QuadInvariant, PTL

-----------------------------------------------------------------------------
(* StoredOnce. *)

\* Every entry has one place at a time, also while insert() moves it.
THEOREM OnceInvariant == QuadSpec => []OncePlaced
<1>1. QuadInit => OncePlaced
  BY DEF QuadInit, OncePlaced, Indices, IdxAt, Pending
<1> QED BY <1>1, OnceStep, QuadInvariant, PTL DEF QuadSpec

\* Between two calls of insert() every entry is at one index of one node.
THEOREM StoredCorrect == QuadSpec => []StoredOnce
<1>1. QuadInv /\ OncePlaced => StoredOnce
  <2> SUFFICES ASSUME QuadInv, OncePlaced, calls = <<>>, NEW i \in 1 .. used
               PROVE  Cardinality({q \in Places : ObjectAt(q).idx = i}) = 1
    BY DEF StoredOnce
  <2>1. \A p \in DOMAIN tree : DOMAIN tree[p].objects = Indices(p)
    BY LenProperties DEF QuadInv, QuadTypeOK, Indices
  <2>2. PICK p \in DOMAIN tree : \E m \in Indices(p) : IdxAt(p, m) = i
    BY DEF OncePlaced, Pending
  <2> PICK m \in Indices(p) : IdxAt(p, m) = i
    BY <2>2
  <2>3. <<p, m>> \in Places /\ ObjectAt(<<p, m>>).idx = i
    BY <2>1, <2>2 DEF Places, ObjectAt, IdxAt
  <2>4. ASSUME NEW q \in Places, ObjectAt(q).idx = i PROVE q = <<p, m>>
    <3>1. PICK r \in DOMAIN tree : \E n \in Indices(r) : q = <<r, n>>
      BY <2>1 DEF Places
    <3> PICK n \in Indices(r) : q = <<r, n>>
      BY <3>1
    <3>2. IdxAt(r, n) = i
      BY <2>4, <3>1 DEF ObjectAt, IdxAt
    <3> QED BY <2>2, <3>1, <3>2 DEF OncePlaced
  <2>5. {q \in Places : ObjectAt(q).idx = i} = {<<p, m>>}
    BY <2>3, <2>4
  <2> QED BY <2>5, FS_Singleton
<1> QED BY <1>1, QuadInvariant, OnceInvariant, PTL

-----------------------------------------------------------------------------
(* query. *)

\* A stored entry belongs where it is stored.
LEMMA PlacedBelongs ==
  ASSUME QuadInv, NEW a \in Placed
  PROVE  /\ a.path \in DOMAIN tree /\ a.path \in Path
         /\ a.entry \in Entry /\ a.entry.box \in Boxes
         /\ Belongs(a.path, a.entry)
<1>1. PICK p \in DOMAIN tree : \E k \in DOMAIN tree[p].objects :
         a = [path |-> p, entry |-> tree[p].objects[k]]
  BY DEF Placed, Places, ObjectAt
<1> PICK k \in DOMAIN tree[p].objects : a = [path |-> p, entry |-> tree[p].objects[k]]
  BY <1>1
<1>2. tree[p].objects \in Seq(Entry) /\ p \in Path
  BY DEF QuadInv, QuadTypeOK, Path
<1>3. k \in 1 .. Len(tree[p].objects)
  BY <1>2, LenProperties
<1>4. tree[p].objects[k] \in Entry
  BY <1>2, <1>3, ElementOfSeq
<1>5. IsAt(p, tree[p].objects[k])
  BY <1>3 DEF IsAt
<1>6. Belongs(p, tree[p].objects[k])
  BY <1>4, <1>5 DEF QuadInv, AllBelong
<1>7. tree[p].objects[k].box \in Boxes
  BY <1>4, QuadTreeAssumption DEF Entry
<1> QED BY <1>1, <1>2, <1>4, <1>6, <1>7

\* Entries whose paths part went to different quarters of one node.
LEMMA PartedApart ==
  ASSUME QuadInv, NEW a \in Placed, NEW b \in Placed, Part(a.path, b.path)
  PROVE  ~Intersects(a.entry.box, b.entry.box)
<1>1. PICK n \in 0 .. Len(a.path) : /\ n < Len(a.path) /\ n < Len(b.path)
                                   /\ Ancestor(a.path, n) = Ancestor(b.path, n)
                                   /\ a.path[n + 1] # b.path[n + 1]
  BY DEF Part
<1> PICK r : r = Ancestor(a.path, n)
  OBVIOUS
<1>2. /\ a.path \in DOMAIN tree /\ a.path \in Path /\ a.entry \in Entry
      /\ a.entry.box \in Boxes /\ Belongs(a.path, a.entry)
  BY PlacedBelongs
<1>3. /\ b.path \in Path /\ b.entry \in Entry
      /\ b.entry.box \in Boxes /\ Belongs(b.path, b.entry)
  BY PlacedBelongs
<1>4. Len(a.path) \in Nat /\ Len(b.path) \in Nat /\ n \in 0 .. Len(b.path)
  BY <1>1, <1>2, <1>3, LenProperties DEF Path
<1>5. /\ Index(r, a.entry) = a.path[n + 1] /\ Index(r, b.entry) = b.path[n + 1]
  BY <1>1, <1>2, <1>3, <1>4 DEF Belongs, Directed
<1>6. a.path[n + 1] \in Child /\ b.path[n + 1] \in Child
  BY <1>1, <1>2, <1>3, <1>4, Extended
<1>7. tree[r].bounds \in Boxes
  BY <1>1, <1>2 DEF QuadInv, QuadTypeOK, Grown
<1>8. -1 \notin Child
  BY DEF Child
<1> QED BY <1>1, <1>2, <1>3, <1>5, <1>6, <1>7, <1>8, QuartersApart DEF Index

\* objectQuery comes down to every node whose box it meets.
LEMMA FoundFromAbove ==
  ASSUME QuadInv, NEW a \in Placed, NEW b \in Placed, Below(a.path, b.path),
         Intersects(a.entry.box, b.entry.box), Contains(WorldBounds, b.entry.box)
  PROVE  FromAbove(a, b)
<1>1. /\ b.path \in DOMAIN tree /\ b.path \in Path
      /\ a.entry.box \in Boxes /\ b.entry.box \in Boxes /\ Belongs(b.path, b.entry)
  BY PlacedBelongs
<1>2. a.path \in Path
  BY PlacedBelongs
<1>3. Len(a.path) \in Nat /\ Len(b.path) \in Nat
  BY <1>1, <1>2, LenProperties DEF Path
<1>4. ASSUME NEW n \in Len(a.path) + 2 .. Len(b.path)
      PROVE  Intersects(tree[Ancestor(b.path, n)].bounds, a.entry.box)
  <2>1. n \in 0 .. Len(b.path)
    BY <1>3
  <2>2. Contains(tree[Ancestor(b.path, n)].bounds, b.entry.box)
    BY <2>1, <1>1 DEF Belongs, Within
  <2>3. tree[Ancestor(b.path, n)].bounds \in Boxes
    BY <2>1, <1>1 DEF QuadInv, QuadTypeOK, Grown
  <2> QED BY <2>2, <2>3, <1>1, ContainerMeets
<1> QED BY <1>4 DEF FromAbove, Visits

\* What two siblings hold never intersects, whatever the boxes and the bounds:
\* checkSiblingCollision finds nothing that was found already.
THEOREM SiblingsCorrect == QuadSpec => []SiblingsApart
<1>1. QuadInv => SiblingsApart
  <2> SUFFICES ASSUME QuadInv, NEW a \in Placed, NEW b \in Placed, AcrossSiblings(a, b)
               PROVE  ~Intersects(a.entry.box, b.entry.box)
    BY DEF SiblingsApart
  <2>1. a.path \in DOMAIN tree /\ b.path \in DOMAIN tree
    BY PlacedBelongs
  <2>2. /\ a.path # b.path /\ ~Below(a.path, b.path) /\ ~Below(b.path, a.path)
    BY DEF AcrossSiblings
  <2>3. Part(a.path, b.path)
    BY <2>1, <2>2 DEF QuadInv, Grown
  <2> QED BY <2>3, PartedApart
<1> QED BY <1>1, QuadInvariant, PTL

\* Every two boxes inside of the world's bounds that intersect are compared.
THEOREM PairsCorrect == QuadSpec => []AllPairsFound
<1>1. QuadInv => AllPairsFound
  <2> SUFFICES ASSUME QuadInv, NEW a \in Placed, NEW b \in Placed,
                      Intersects(a.entry.box, b.entry.box),
                      Contains(WorldBounds, a.entry.box), Contains(WorldBounds, b.entry.box)
               PROVE  IsCandidate(a, b)
    BY DEF AllPairsFound
  <2>1. a.path \in DOMAIN tree /\ b.path \in DOMAIN tree
        /\ a.entry.box \in Boxes /\ b.entry.box \in Boxes
    BY PlacedBelongs
  <2>2. Intersects(b.entry.box, a.entry.box)
    BY <2>1 DEF Intersects, Boxes
  <2>3. CASE a.path = b.path
    BY <2>3 DEF IsCandidate, InOneNode
  <2>4. CASE Below(a.path, b.path)
    BY <2>4, FoundFromAbove DEF IsCandidate
  <2>5. CASE Below(b.path, a.path)
    BY <2>2, <2>5, FoundFromAbove DEF IsCandidate
  <2>6. CASE Part(a.path, b.path)
    BY <2>6, PartedApart
  <2>7. a.path = b.path \/ Below(a.path, b.path) \/ Below(b.path, a.path) \/ Part(a.path, b.path)
    BY <2>1 DEF QuadInv, Grown
  <2> QED BY <2>3, <2>4, <2>5, <2>6, <2>7
<1> QED BY <1>1, QuadInvariant, PTL

=============================================================================
