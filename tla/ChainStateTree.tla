--------------------------- MODULE ChainStateTree ---------------------------
(***************************************************************************)
(* The tree of blocks: what Height, Work and Path of ChainState are, for   *)
(* every tree in which no chain of predecessors is endless.                *)
(*                                                                         *)
(* The three are recursive functions. That such functions exist is proved  *)
(* once (TreeRecursion), from the sets of blocks on which a function that  *)
(* obeys the equations can be built. Every other lemma takes a least       *)
(* counterexample, by EndsInGenesis, instead of an induction.              *)
(***************************************************************************)
EXTENDS ChainState, WellFoundedInduction, TLAPS

(* The functions on blocks with value v0 at the genesis block, and with a  *)
(* value elsewhere that F computes from that of the predecessor.           *)
TreeFunctions(V, v0, F) ==
  {f \in [Blocks -> V] : /\ f[Genesis] = v0
                         /\ \A b \in Blocks \ {Genesis} : f[b] = F[b][f[Prev[b]]]}

(* There is such a function.                                               *)
LEMMA TreeRecursion ==
  ASSUME NEW V, NEW v0 \in V, NEW F \in [Blocks -> [V -> V]]
  PROVE  TreeFunctions(V, v0, F) # {}
<1> USE TreeAssumption
<1> DEFINE Partial == UNION {[D -> V] : D \in SUBSET Blocks}
           Obeys(f) == /\ Genesis \in DOMAIN f /\ f[Genesis] = v0
                       /\ \A b \in DOMAIN f \ {Genesis} :
                            Prev[b] \in DOMAIN f /\ f[b] = F[b][f[Prev[b]]]
           Parts == {f \in Partial : Obeys(f)}
<1>1. \A f \in Partial : DOMAIN f \in SUBSET Blocks /\ f \in [DOMAIN f -> V]
  OBVIOUS
<1>2. ASSUME NEW f \in Parts, NEW g \in Parts, NEW b \in DOMAIN f \cap DOMAIN g
      PROVE  f[b] = g[b]
  <2> DEFINE S == {x \in DOMAIN f \cap DOMAIN g : f[x] # g[x]}
  <2>1. SUFFICES ASSUME S # {} PROVE FALSE
    BY Zenon
  <2>2. S \in SUBSET Blocks
    BY <1>1
  <2>3. PICK x \in S : x = Genesis \/ Prev[x] \notin S
    BY <2>1, <2>2, EndsInGenesis, Zenon
  <2>4. Obeys(f) /\ Obeys(g)
    BY Zenon
  <2>5. CASE x = Genesis
    BY <2>3, <2>4, <2>5, Zenon
  <2>6. CASE x # Genesis
    <3>1. Prev[x] \notin S
      BY <2>3, <2>6, Zenon
    <3>2. Prev[x] \in DOMAIN f \cap DOMAIN g /\ f[x] = F[x][f[Prev[x]]]
                                              /\ g[x] = F[x][g[Prev[x]]]
      BY <2>3, <2>4, <2>6, Zenon
    <3> QED BY <2>3, <3>1, <3>2, Zenon
  <2> QED BY <2>5, <2>6
<1>3. ASSUME NEW b \in Blocks PROVE \E f \in Parts : b \in DOMAIN f
  <2> DEFINE S == {x \in Blocks : \A f \in Parts : x \notin DOMAIN f}
  <2>1. SUFFICES ASSUME S # {} PROVE FALSE
    BY Zenon
  <2>2. PICK x \in S : x = Genesis \/ Prev[x] \notin S
    BY <2>1, EndsInGenesis, Zenon
  <2>3. CASE x = Genesis
    <3> DEFINE g == [y \in {Genesis} |-> v0]
    <3>1. g \in [{Genesis} -> V] /\ {Genesis} \in SUBSET Blocks
      OBVIOUS
    <3>2. g \in Partial /\ Obeys(g)
      BY <3>1, Zenon
    <3> QED BY <2>2, <2>3, <3>2, Zenon
  <2>4. CASE x # Genesis
    <3>1. Prev[x] \in Blocks /\ Prev[x] \notin S /\ x \in Blocks
      BY <2>2, <2>4
    <3>2. PICK f \in Parts : Prev[x] \in DOMAIN f
      BY <3>1, Zenon
    <3>3. x \notin DOMAIN f
      BY <2>2, Zenon
    <3>4. Obeys(f) /\ f \in Partial /\ DOMAIN f \in SUBSET Blocks /\ f \in [DOMAIN f -> V]
      BY <1>1, Zenon
    <3> DEFINE g == [y \in DOMAIN f \cup {x} |-> IF y = x THEN F[x][f[Prev[x]]] ELSE f[y]]
    <3>5. F[x][f[Prev[x]]] \in V
      BY <3>1, <3>2, <3>4
    <3>6. g \in [DOMAIN f \cup {x} -> V] /\ DOMAIN f \cup {x} \in SUBSET Blocks
      BY <3>1, <3>4, <3>5
    <3>7. g \in Partial
      BY <3>6, Zenon
    <3>8. Obeys(g)
      <4>1. DOMAIN g = DOMAIN f \cup {x} /\ g[x] = F[x][f[Prev[x]]]
        OBVIOUS
      <4>2. \A y \in DOMAIN f : g[y] = f[y]
        BY <3>3
      <4>3. g[Prev[x]] = f[Prev[x]]
        BY <3>2, <4>2
      <4> HIDE DEF g
      <4> QED BY <3>2, <3>3, <3>4, <4>1, <4>2, <4>3, Zenon
    <3>9. x \in DOMAIN g
      OBVIOUS
    <3> HIDE DEF g
    <3> QED BY <2>2, <3>7, <3>8, <3>9, Zenon
  <2> QED BY <2>3, <2>4
<1> DEFINE part(b) == CHOOSE f \in Parts : b \in DOMAIN f
           h == [b \in Blocks |-> part(b)[b]]
<1>4. \A b \in Blocks : part(b) \in Parts /\ b \in DOMAIN part(b)
  BY <1>3, Zenon
<1>5. \A b \in Blocks : h[b] = part(b)[b]
  BY Zenon
<1>6. \A f \in Parts : \A b \in DOMAIN f : b \in Blocks /\ f[b] \in V
  BY <1>1
<1> HIDE DEF part
<1>7. ASSUME NEW f \in Parts, NEW b \in DOMAIN f PROVE h[b] = f[b]
  <2>1. b \in Blocks
    BY <1>6, Zenon
  <2>2. part(b) \in Parts /\ b \in DOMAIN part(b) /\ h[b] = part(b)[b]
    BY <2>1, <1>4, <1>5, Zenon
  <2>3. b \in DOMAIN part(b) \cap DOMAIN f
    BY <2>2, Zenon
  <2>4. part(b)[b] = f[b]
    <3>1. \A p, q \in Parts : \A x \in DOMAIN p \cap DOMAIN q : p[x] = q[x]
      BY <1>2
    <3> HIDE DEF Parts
    <3> QED BY <2>2, <2>3, <3>1, Zenon
  <2> QED BY <2>2, <2>4, Zenon
<1>8. h \in [Blocks -> V]
  BY <1>4, <1>5, <1>6, Zenon
<1> HIDE DEF h
<1>9. h[Genesis] = v0
  BY <1>4, <1>7, Zenon
<1>10. ASSUME NEW b \in Blocks \ {Genesis} PROVE h[b] = F[b][h[Prev[b]]]
  <2>1. part(b) \in Parts /\ b \in DOMAIN part(b)
    BY <1>4, Zenon
  <2>2. Prev[b] \in DOMAIN part(b) /\ part(b)[b] = F[b][part(b)[Prev[b]]]
    BY <2>1, Zenon
  <2>3. h[b] = part(b)[b] /\ h[Prev[b]] = part(b)[Prev[b]]
    BY <2>1, <2>2, <1>7, Zenon
  <2> QED BY <2>2, <2>3, Zenon
<1> QED
  BY <1>8, <1>9, <1>10 DEF TreeFunctions

(* nHeight is one more than that of the predecessor.                       *)
LEMMA HeightIs ==
  /\ Height \in [Blocks -> Nat] /\ Height[Genesis] = 0
  /\ \A b \in Blocks \ {Genesis} : Height[b] = 1 + Height[Prev[b]]
<1> DEFINE F == [b \in Blocks |-> [n \in Nat |-> 1 + n]]
           Unfolds(f) == f = [b \in Blocks |-> IF b = Genesis THEN 0 ELSE 1 + f[Prev[b]]]
<1>1. F \in [Blocks -> [Nat -> Nat]] /\ 0 \in Nat
  OBVIOUS
<1>2. PICK f \in TreeFunctions(Nat, 0, F) : TRUE
  <2> HIDE DEF F
  <2> QED BY <1>1, TreeRecursion
<1>3. \A b \in Blocks \ {Genesis} : Prev[b] \in Blocks /\ f[b] = 1 + f[Prev[b]]
  BY <1>2, TreeAssumption DEF TreeFunctions
<1>4. Unfolds(f)
  BY <1>2, <1>3 DEF TreeFunctions
<1>5. Height = CHOOSE g : Unfolds(g)
  BY Zenon DEF Height
<1>6. Unfolds(Height)
  <2> HIDE DEF Unfolds
  <2> QED BY <1>4, <1>5, Zenon
<1>7. Height[Genesis] = 0 /\ \A b \in Blocks \ {Genesis} : Height[b] = 1 + Height[Prev[b]]
  BY <1>6, TreeAssumption
<1>8. \A b \in Blocks : Height[b] \in Nat
  <2> DEFINE S == {b \in Blocks : Height[b] \notin Nat}
  <2>1. SUFFICES ASSUME S # {} PROVE FALSE
    OBVIOUS
  <2>2. PICK b \in S : b = Genesis \/ Prev[b] \notin S
    BY <2>1, EndsInGenesis
  <2> QED BY <1>7, <2>2, TreeAssumption
<1> QED
  BY <1>6, <1>7, <1>8

(* nChainWork adds up the proofs of a block and its ancestors.             *)
LEMMA WorkIs ==
  /\ Work \in [Blocks -> Nat] /\ Work[Genesis] = Proof[Genesis]
  /\ \A b \in Blocks \ {Genesis} : Work[b] = Proof[b] + Work[Prev[b]]
<1> DEFINE F == [b \in Blocks |-> [n \in Nat |-> Proof[b] + n]]
           Unfolds(f) == f = [b \in Blocks |-> IF b = Genesis THEN Proof[b]
                                               ELSE Proof[b] + f[Prev[b]]]
<1>1. F \in [Blocks -> [Nat -> Nat]] /\ Proof[Genesis] \in Nat
  BY TreeAssumption
<1>2. PICK f \in TreeFunctions(Nat, Proof[Genesis], F) : TRUE
  <2> HIDE DEF F
  <2> QED BY <1>1, TreeRecursion
<1>3. \A b \in Blocks \ {Genesis} : Prev[b] \in Blocks /\ f[b] = Proof[b] + f[Prev[b]]
  BY <1>2, TreeAssumption DEF TreeFunctions
<1>4. Unfolds(f)
  BY <1>2, <1>3 DEF TreeFunctions
<1>5. Work = CHOOSE g : Unfolds(g)
  BY Zenon DEF Work
<1>6. Unfolds(Work)
  <2> HIDE DEF Unfolds
  <2> QED BY <1>4, <1>5, Zenon
<1>7. Work[Genesis] = Proof[Genesis]
      /\ \A b \in Blocks \ {Genesis} : Work[b] = Proof[b] + Work[Prev[b]]
  BY <1>6, TreeAssumption
<1>8. \A b \in Blocks : Work[b] \in Nat
  <2> DEFINE S == {b \in Blocks : Work[b] \notin Nat}
  <2>1. SUFFICES ASSUME S # {} PROVE FALSE
    OBVIOUS
  <2>2. PICK b \in S : b = Genesis \/ Prev[b] \notin S
    BY <2>1, EndsInGenesis
  <2> QED BY <1>7, <2>2, TreeAssumption
<1> QED
  BY <1>6, <1>7, <1>8

(* The path of a block is the block and the path of its predecessor.       *)
LEMMA PathIs ==
  /\ Path \in [Blocks -> SUBSET Blocks] /\ Path[Genesis] = {Genesis}
  /\ \A b \in Blocks \ {Genesis} : Path[b] = {b} \cup Path[Prev[b]]
<1> DEFINE V == SUBSET Blocks
           F == [b \in Blocks |-> [p \in V |-> {b} \cup p]]
           Unfolds(f) == f = [b \in Blocks |-> IF b = Genesis THEN {b}
                                               ELSE {b} \cup f[Prev[b]]]
<1>1. F \in [Blocks -> [V -> V]] /\ {Genesis} \in V
  BY TreeAssumption
<1>2. PICK f \in TreeFunctions(V, {Genesis}, F) : TRUE
  <2> HIDE DEF F, V
  <2> QED BY <1>1, TreeRecursion
<1>3. \A b \in Blocks \ {Genesis} : Prev[b] \in Blocks /\ f[b] = {b} \cup f[Prev[b]]
  BY <1>2, TreeAssumption DEF TreeFunctions
<1>4. Unfolds(f)
  BY <1>2, <1>3 DEF TreeFunctions
<1>5. Path = CHOOSE g : Unfolds(g)
  BY Zenon DEF Path
<1>6. Unfolds(Path)
  <2> HIDE DEF Unfolds
  <2> QED BY <1>4, <1>5, Zenon
<1>7. Path[Genesis] = {Genesis} /\ \A b \in Blocks \ {Genesis} : Path[b] = {b} \cup Path[Prev[b]]
  BY <1>6, TreeAssumption
<1>8. \A b \in Blocks : Path[b] \in SUBSET Blocks
  <2> DEFINE S == {b \in Blocks : Path[b] \notin SUBSET Blocks}
  <2>1. SUFFICES ASSUME S # {} PROVE FALSE
    OBVIOUS
  <2>2. PICK b \in S : b = Genesis \/ Prev[b] \notin S
    BY <2>1, EndsInGenesis
  <2> QED BY <1>7, <2>2, TreeAssumption
<1> QED
  BY <1>6, <1>7, <1>8

(* A path holds its block and the genesis block, and goes on below every   *)
(* block on it but the genesis block.                                      *)
LEMMA PathEnds ==
  ASSUME NEW b \in Blocks
  PROVE  /\ b \in Path[b] /\ Genesis \in Path[b] /\ Path[b] \subseteq Blocks
         /\ b # Genesis => Prev[b] \in Blocks /\ Prev[b] \in Path[b]
<1>1. \A c \in Blocks : c \in Path[c] /\ Path[c] \subseteq Blocks
  BY PathIs
<1>2. \A c \in Blocks : Genesis \in Path[c]
  <2> DEFINE S == {c \in Blocks : Genesis \notin Path[c]}
  <2>1. SUFFICES ASSUME S # {} PROVE FALSE
    OBVIOUS
  <2>2. PICK c \in S : c = Genesis \/ Prev[c] \notin S
    BY <2>1, EndsInGenesis
  <2> QED BY <2>2, PathIs, TreeAssumption
<1> QED
  BY <1>1, <1>2, PathIs, TreeAssumption

(* The path of a block on a path is a part of it, not higher and with no   *)
(* more work; only the block itself is as high or has as much work.        *)
LEMMA PathParts ==
  \A b \in Blocks : \A a \in Path[b] :
     /\ a \in Blocks /\ Path[a] \subseteq Path[b]
     /\ a # b => Height[a] < Height[b] /\ Work[a] < Work[b]
<1> DEFINE Good(b) == \A a \in Path[b] :
                        /\ a \in Blocks /\ Path[a] \subseteq Path[b]
                        /\ a # b => Height[a] < Height[b] /\ Work[a] < Work[b]
           S == {b \in Blocks : ~Good(b)}
<1>0. SUFFICES \A b \in Blocks : Good(b)
  BY <1>0
<1>1. SUFFICES ASSUME S # {} PROVE FALSE
  <2> HIDE DEF Good
  <2> QED OBVIOUS
<1>2. PICK b \in S : b = Genesis \/ Prev[b] \notin S
  BY <1>1, EndsInGenesis
<1>3. CASE b = Genesis
  BY <1>2, <1>3, PathIs, TreeAssumption
<1>4. CASE b # Genesis
  <2>a. Good(Prev[b])
    <3> HIDE DEF Good
    <3> QED BY <1>2, <1>4, TreeAssumption
  <2>1. /\ b \in Blocks /\ Prev[b] \in Blocks /\ Path[b] = {b} \cup Path[Prev[b]]
        /\ Height[b] = 1 + Height[Prev[b]] /\ Work[b] = Proof[b] + Work[Prev[b]]
        /\ Proof[b] \in Nat \ {0}
    BY <1>2, <1>4, PathIs, HeightIs, WorkIs, TreeAssumption
  <2>2. Height \in [Blocks -> Nat] /\ Work \in [Blocks -> Nat]
    BY HeightIs, WorkIs
  <2>3. ASSUME NEW a \in Path[b]
        PROVE  /\ a \in Blocks /\ Path[a] \subseteq Path[b]
               /\ a # b => Height[a] < Height[b] /\ Work[a] < Work[b]
    <3>1. CASE a = b
      BY <3>1, <2>1
    <3>2. CASE a # b
      <4>1. a \in Path[Prev[b]]
        BY <2>1, <3>2
      <4>2. a \in Blocks /\ Path[a] \subseteq Path[Prev[b]]
        BY <2>a, <4>1
      <4>3. Height[a] <= Height[Prev[b]] /\ Work[a] <= Work[Prev[b]]
        BY <2>a, <2>1, <2>2, <4>1, <4>2
      <4> QED BY <2>1, <2>2, <4>2, <4>3
    <3> QED BY <3>1, <3>2
  <2> QED BY <1>2, <2>3
<1> QED
  BY <1>3, <1>4

(* Two blocks on one path: one is on the path of the other.                *)
LEMMA PathLinear ==
  \A b \in Blocks : \A x, y \in Path[b] : x \in Path[y] \/ y \in Path[x]
<1> DEFINE Good(b) == \A x, y \in Path[b] : x \in Path[y] \/ y \in Path[x]
           S == {b \in Blocks : ~Good(b)}
<1>1. SUFFICES ASSUME S # {} PROVE FALSE
  OBVIOUS
<1>2. PICK b \in S : b = Genesis \/ Prev[b] \notin S
  BY <1>1, EndsInGenesis
<1> QED
  BY <1>2, PathIs, TreeAssumption

(* Between a block and a block above it there is a child of the first.     *)
LEMMA ChildOnPath ==
  \A b \in Blocks : \A a \in Path[b] : a # b =>
     \E c \in Path[b] : c # Genesis /\ Prev[c] = a
<1> DEFINE Good(b) == \A a \in Path[b] : a # b =>
                         \E c \in Path[b] : c # Genesis /\ Prev[c] = a
           S == {b \in Blocks : ~Good(b)}
<1>1. SUFFICES ASSUME S # {} PROVE FALSE
  OBVIOUS
<1>2. PICK b \in S : b = Genesis \/ Prev[b] \notin S
  BY <1>1, EndsInGenesis
<1>3. CASE b = Genesis
  BY <1>2, <1>3, PathIs
<1>4. CASE b # Genesis
  BY <1>2, <1>4, PathIs, TreeAssumption
<1> QED
  BY <1>3, <1>4

LessThan == OpToRel(<, Nat)

(* Every set of natural numbers that is not empty has a least element.     *)
LEMMA LeastNatural ==
  ASSUME NEW S \in SUBSET Nat, S # {}
  PROVE  \E n \in S : \A m \in S : n <= m
<1>1. IsWellFoundedOn(LessThan, Nat)
  BY NatLessThanWellFounded, Zenon DEF LessThan
<1>2. PICK n \in S : \A m \in S : ~(<<m, n>> \in LessThan)
  BY <1>1, WFMin
<1>3. LessThan = {ss \in Nat \X Nat : ss[1] < ss[2]}
  BY Zenon DEF LessThan, OpToRel
<1>4. ASSUME NEW m \in S PROVE n <= m
  <2>1. m \in Nat /\ n \in Nat /\ <<m, n>> \notin LessThan
    BY <1>2
  <2>2. <<m, n>> \in Nat \X Nat /\ <<m, n>>[1] = m /\ <<m, n>>[2] = n
    BY <2>1
  <2>3. ~(m < n)
    BY <2>1, <2>2, <1>3
  <2> QED BY <2>1, <2>3
<1> QED
  BY <1>4

(* Some block of a part of a path is the highest one.                      *)
LEMMA HighestIs ==
  ASSUME NEW b \in Blocks, NEW S \in SUBSET Path[b], S # {}
  PROVE  Highest(S) \in S /\ \A c \in S : Height[c] <= Height[Highest(S)]
<1>1. Height \in [Blocks -> Nat] /\ Path[b] \subseteq Blocks
  BY HeightIs, PathIs
<1>2. \A c \in S : Height[c] <= Height[b] /\ c \in Blocks
  BY <1>1, PathParts
<1> DEFINE D == {Height[b] - Height[c] : c \in S}
<1>3. D \in SUBSET Nat /\ D # {}
  BY <1>1, <1>2
<1>4. PICK d \in D : \A e \in D : d <= e
  BY <1>3, LeastNatural
<1>5. PICK c \in S : d = Height[b] - Height[c]
  BY <1>4
<1>6. \A e \in S : Height[e] <= Height[c]
  BY <1>1, <1>2, <1>4, <1>5
<1> QED
  BY <1>6 DEF Highest
=============================================================================
