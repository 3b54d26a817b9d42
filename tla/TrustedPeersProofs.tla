------------------------- MODULE TrustedPeersProofs -------------------------
(***************************************************************************)
(* What the operations on the trusted list return, for lists of any length *)
(* and machines of any identity.                                           *)
(***************************************************************************)
EXTENDS TrustedPeers, TLAPS, FiniteSetTheorems, WellFoundedInduction

(* Every set of natural numbers with a member has a least one. *)
LEMMA LeastElement ==
    ASSUME NEW S \in SUBSET Nat, S # {}
    PROVE  \E m \in S : \A k \in S : m <= k
<1> DEFINE R == OpToRel(<, Nat)
<1>1. IsWellFoundedOn(R, Nat)
  BY NatLessThanWellFounded
<1>2. \A x, y \in Nat : x < y => <<x, y>> \in R
  BY DEF OpToRel
<1> HIDE DEF R
<1>3. PICK m \in S : \A y \in S : ~(<<y, m>> \in R)
  BY <1>1, WFMin
<1>4. ASSUME NEW k \in S PROVE m <= k
  <2>1. k \in Nat /\ m \in Nat
    OBVIOUS
  <2>2. ~(k < m)
    BY <1>2, <1>3, <2>1
  <2>3. QED
    BY <2>1, <2>2
<1>5. QED
  BY <1>4

(* The members of a set of positions are ranked without gaps. *)
LEMMA RankExists ==
    ASSUME NEW len \in Nat, NEW pos \in SUBSET (1..len), NEW n \in 1..Cardinality(pos)
    PROVE  \E i \in pos : Cardinality({j \in pos : j <= i}) = n
<1> DEFINE Upto(i) == {j \in pos : j <= i}
<1> DEFINE C(i) == Cardinality(Upto(i))
<1>1. IsFiniteSet(pos) /\ Cardinality(pos) \in Nat
  <2>1. IsFiniteSet(1..len)
    BY FS_Interval
  <2>2. IsFiniteSet(pos)
    BY <2>1, FS_Subset
  <2>3. QED
    BY <2>2, FS_CardinalityType
<1>2. n \in Nat /\ n >= 1 /\ n <= Cardinality(pos)
  BY <1>1
<1>3. \A j \in pos : j \in Nat /\ 1 <= j /\ j <= len
  OBVIOUS
<1>4. \A i : IsFiniteSet(Upto(i)) /\ C(i) \in Nat
  <2> SUFFICES ASSUME NEW i PROVE IsFiniteSet(Upto(i)) /\ C(i) \in Nat
    OBVIOUS
  <2>1. Upto(i) \in SUBSET pos
    OBVIOUS
  <2>2. IsFiniteSet(Upto(i))
    BY <1>1, <2>1, FS_Subset
  <2>3. QED
    BY <2>2, FS_CardinalityType
<1>5. Upto(len) = pos
  BY <1>3
<1>6. C(0) = 0
  <2>1. \A j \in pos : ~(j <= 0)
    BY <1>3
  <2>2. Upto(0) = {}
    BY <2>1
  <2>3. QED
    BY <2>2, FS_EmptySet
<1>7. ASSUME NEW m \in Nat, m >= 1
      PROVE  C(m) = IF m \in pos THEN C(m - 1) + 1 ELSE C(m - 1)
  <2>1. \A j \in Nat : j <= m <=> (j <= m - 1 \/ j = m)
    BY <1>7
  <2>2. m \notin Upto(m - 1)
    BY <1>7
  <2>3. CASE m \in pos
    <3>1. Upto(m) = Upto(m - 1) \cup {m}
      BY <1>3, <2>1, <2>3
    <3> DEFINE U == Upto(m - 1)
    <3>2. IsFiniteSet(U) /\ m \notin U /\ Upto(m) = U \cup {m}
      BY <1>4, <2>2, <3>1
    <3> HIDE DEF U
    <3>3. Cardinality(U \cup {m}) = Cardinality(U) + 1
      BY <3>2, FS_AddElement
    <3>4. C(m) = Cardinality(U) + 1
      BY <3>2, <3>3
    <3>5. QED
      BY <2>3, <3>4 DEF U
  <2>4. CASE m \notin pos
    <3>1. Upto(m) = Upto(m - 1)
      BY <1>3, <2>1, <2>4
    <3>2. QED
      BY <2>4, <3>1
  <2>5. QED
    BY <2>3, <2>4
<1>8. C(len) >= n
  BY <1>2, <1>5
<1> SUFFICES \E i \in pos : C(i) = n
  OBVIOUS
<1> HIDE DEF C
<1> DEFINE High == {i \in Nat : C(i) >= n}
<1>9. PICK m \in High : \A k \in High : m <= k
  <2>1. High \in SUBSET Nat /\ High # {}
    BY <1>8
  <2>2. QED
    BY <2>1, LeastElement
<1>10. m \in Nat /\ C(m) >= n
  BY <1>9
<1>11. m >= 1
  BY <1>2, <1>6, <1>10
<1>12. m - 1 \in Nat /\ ~(C(m - 1) >= n)
  BY <1>9, <1>10, <1>11
<1>13. C(m) = IF m \in pos THEN C(m - 1) + 1 ELSE C(m - 1)
  BY <1>7, <1>10, <1>11
<1>14. C(m) \in Nat /\ C(m - 1) \in Nat
  BY <1>4
<1>15. m \in pos /\ C(m) = n
  BY <1>2, <1>10, <1>12, <1>13, <1>14
<1>16. QED
  BY <1>15

(* The position the n-th kept entry had. *)
KeptAt(pos, n) == CHOOSE i \in pos : Cardinality({j \in pos : j <= i}) = n

(* A rebuilt list holds entries of the old one, each once. *)
LEMMA KeptEntries ==
    ASSUME NEW E, NEW list \in Seq(E), NEW pos \in SUBSET DOMAIN list
    PROVE  /\ Kept(list, pos) \in Seq(E)
           /\ \A n \in DOMAIN Kept(list, pos) :
                KeptAt(pos, n) \in pos /\ Kept(list, pos)[n] = list[KeptAt(pos, n)]
           /\ \A n, m \in DOMAIN Kept(list, pos) : n # m => KeptAt(pos, n) # KeptAt(pos, m)
<1> DEFINE len == Len(list)
<1> DEFINE size == Cardinality(pos)
<1>1. len \in Nat /\ DOMAIN list = 1..len /\ \A i \in 1..len : list[i] \in E
  OBVIOUS
<1>2. pos \in SUBSET (1..len)
  BY <1>1
<1>3. size \in Nat
  <2>1. IsFiniteSet(1..len)
    BY <1>1, FS_Interval
  <2>2. IsFiniteSet(pos)
    BY <1>2, <2>1, FS_Subset
  <2>3. QED
    BY <2>2, FS_CardinalityType
<1>4. \A n \in 1..size :
        KeptAt(pos, n) \in pos /\ Cardinality({j \in pos : j <= KeptAt(pos, n)}) = n
  <2> SUFFICES ASSUME NEW n \in 1..size
               PROVE  KeptAt(pos, n) \in pos /\ Cardinality({j \in pos : j <= KeptAt(pos, n)}) = n
    OBVIOUS
  <2> HIDE DEF len
  <2>1. \E i \in pos : Cardinality({j \in pos : j <= i}) = n
    BY <1>1, <1>2, RankExists
  <2>2. QED
    BY <2>1 DEF KeptAt
<1>5. Kept(list, pos) = [n \in 1..size |-> list[KeptAt(pos, n)]]
  BY DEF Kept, KeptAt
<1> HIDE DEF size, len
<1>6. \A n \in 1..size : list[KeptAt(pos, n)] \in E
  BY <1>1, <1>2, <1>4
<1>7. Kept(list, pos) \in Seq(E)
  BY <1>3, <1>5, <1>6
<1>8. DOMAIN Kept(list, pos) = 1..size
  BY <1>5
<1>9. \A n, m \in 1..size : n # m => KeptAt(pos, n) # KeptAt(pos, m)
  <2> SUFFICES ASSUME NEW n \in 1..size, NEW m \in 1..size, KeptAt(pos, n) = KeptAt(pos, m)
               PROVE  n = m
    OBVIOUS
  <2>1. Cardinality({j \in pos : j <= KeptAt(pos, n)}) = n
    BY <1>4
  <2>2. Cardinality({j \in pos : j <= KeptAt(pos, m)}) = m
    BY <1>4
  <2>3. QED
    BY <2>1, <2>2
<1>10. \A n \in 1..size : Kept(list, pos)[n] = list[KeptAt(pos, n)]
  BY <1>5
<1>11. QED
  BY <1>4, <1>7, <1>8, <1>9, <1>10

(* And it holds every entry it was to keep. *)
LEMMA KeptAll ==
    ASSUME NEW E, NEW list \in Seq(E), NEW pos \in SUBSET DOMAIN list, NEW i \in pos
    PROVE  \E n \in DOMAIN Kept(list, pos) : Kept(list, pos)[n] = list[i]
<1> DEFINE len == Len(list)
<1> DEFINE Upto(k) == {j \in pos : j <= k}
<1> DEFINE n == Cardinality(Upto(i))
<1>1. len \in Nat /\ pos \in SUBSET (1..len)
  OBVIOUS
<1> HIDE DEF len
<1>2. IsFiniteSet(pos) /\ Cardinality(pos) \in Nat
  <2>1. IsFiniteSet(1..len)
    BY <1>1, FS_Interval
  <2>2. IsFiniteSet(pos)
    BY <1>1, <2>1, FS_Subset
  <2>3. QED
    BY <2>2, FS_CardinalityType
<1>3. \A k : /\ IsFiniteSet(Upto(k)) /\ Cardinality(Upto(k)) \in Nat
             /\ Cardinality(Upto(k)) <= Cardinality(pos)
  <2> SUFFICES ASSUME NEW k
               PROVE  /\ IsFiniteSet(Upto(k)) /\ Cardinality(Upto(k)) \in Nat
                      /\ Cardinality(Upto(k)) <= Cardinality(pos)
    OBVIOUS
  <2>1. Upto(k) \in SUBSET pos
    OBVIOUS
  <2> HIDE DEF Upto
  <2>2. IsFiniteSet(Upto(k)) /\ Cardinality(Upto(k)) <= Cardinality(pos)
    BY <1>2, <2>1, FS_Subset
  <2>3. QED
    BY <2>2, FS_CardinalityType
<1>4. i \in Upto(i)
  BY <1>1
<1>5. n \in 1..Cardinality(pos)
  <2>1. Upto(i) # {} /\ IsFiniteSet(Upto(i)) /\ n \in Nat /\ n <= Cardinality(pos)
    BY <1>3, <1>4
  <2> HIDE DEF Upto
  <2>2. n # 0
    BY <2>1, FS_EmptySet
  <2> HIDE DEF n
  <2>3. QED
    BY <1>2, <2>1, <2>2
<1> DEFINE k == KeptAt(pos, n)
<1>6. k \in pos /\ Cardinality(Upto(k)) = n
  <2>1. \E m \in pos : Cardinality({j \in pos : j <= m}) = n
    BY <1>4
  <2> HIDE DEF n
  <2>2. QED
    BY <2>1 DEF KeptAt
<1>7. ASSUME NEW a \in pos, NEW b \in pos, a <= b, Cardinality(Upto(a)) = Cardinality(Upto(b))
      PROVE  a = b
  <2>1. a \in Nat /\ b \in Nat
    BY <1>1
  <2>2. Upto(a) \in SUBSET Upto(b) /\ b \in Upto(b)
    <3>1. \A j \in pos : j <= a => j <= b
      BY <1>1, <1>7, <2>1
    <3>2. QED
      BY <2>1, <3>1
  <2> HIDE DEF Upto
  <2>3. IsFiniteSet(Upto(b))
    BY <1>3
  <2>4. Upto(a) = Upto(b)
    BY <1>7, <2>2, <2>3, FS_Subset
  <2>5. b <= a
    BY <2>2, <2>4 DEF Upto
  <2>6. QED
    BY <1>7, <2>1, <2>5
<1>8. k = i
  <2>1. i \in Nat /\ k \in Nat
    BY <1>1, <1>6
  <2>2. i <= k \/ k <= i
    BY <2>1
  <2> HIDE DEF k
  <2>3. QED
    BY <1>6, <1>7, <2>2
<1>9. Kept(list, pos) = [m \in 1..Cardinality(pos) |-> list[KeptAt(pos, m)]]
  BY DEF Kept, KeptAt
<1>10. QED
  BY <1>5, <1>8, <1>9

(* A list keeps its entries when more of them are allowed. *)
LEMMA SeqGrows ==
    ASSUME NEW A, NEW B, A \subseteq B, NEW list \in Seq(A)
    PROVE  list \in Seq(B)
OBVIOUS

(* handleDeleteAllowed's loop. *)
LEMMA WithoutNodeInSeq ==
    ASSUME NEW E, NEW list \in Seq(E), NEW node
    PROVE  WithoutNode(list, node) \in Seq(E)
<1> DEFINE pos == {i \in DOMAIN list : list[i].NodeID # node}
<1>1. pos \in SUBSET DOMAIN list
  OBVIOUS
<1>2. WithoutNode(list, node) = Kept(list, pos)
  BY DEF WithoutNode
<1> HIDE DEF pos
<1>3. QED
  BY <1>1, <1>2, KeptEntries

(* RemoveTrustedPeer's deletion. *)
LEMMA WithoutInSeq ==
    ASSUME NEW E, NEW list \in Seq(E), NEW k
    PROVE  Without(list, k) \in Seq(E)
<1>1. DOMAIN list \ {k} \in SUBSET DOMAIN list
  OBVIOUS
<1>2. QED
  BY <1>1, KeptEntries DEF Without

(* AddTrustedPeer puts in the newcomer or a merge with the newcomer. *)
LEMMA AddAtInSeq ==
    ASSUME NEW E, NEW list \in Seq(E), NEW k \in 0..Len(list), NEW p \in E,
           \A d \in E : mergeTrustedPeer(d, p) \in E
    PROVE  AddAt(list, k, p) \in Seq(E)
<1>1. CASE k = 0
  BY <1>1 DEF AddAt
<1>2. CASE k # 0
  <2> DEFINE new == [list EXCEPT ![k] = mergeTrustedPeer(@, p)]
  <2> DEFINE pos == {i \in DOMAIN new : i = k \/ ~sameTrustedMachine(new[k], new[i])}
  <2>1. list[k] \in E /\ mergeTrustedPeer(list[k], p) \in E
    BY <1>2
  <2>2. new \in Seq(E)
    BY <1>2, <2>1
  <2>3. pos \in SUBSET DOMAIN new
    OBVIOUS
  <2>4. AddAt(list, k, p) = Kept(new, pos)
    BY <1>2 DEF AddAt, removeDuplicateTrustedPeers
  <2> HIDE DEF new, pos
  <2>5. QED
    BY <2>2, <2>3, <2>4, KeptEntries
<1>3. QED
  BY <1>1, <1>2

(* A scan returns a position it was after, or 0 when there is none. *)
LEMMA FirstFinds ==
    ASSUME NEW pos \in SUBSET (Nat \ {0})
    PROVE  /\ pos = {} => First(pos) = 0
           /\ pos # {} => First(pos) \in pos
<1>1. CASE pos # {}
  <2>1. \E m \in pos : \A i \in pos : m <= i
    BY <1>1, LeastElement
  <2>2. QED
    BY <1>1, <2>1 DEF First
<1>2. QED
  BY <1>1 DEF First

(* The scans return a position of the list or 0, and what they look for is *)
(* there when they found it and nowhere when they did not.                 *)
LEMMA TrustedPeerFinds ==
    ASSUME NEW E, NEW list \in Seq(E), NEW node
    PROVE  LET k == TrustedPeer(list, node)
           IN  k \in 0..Len(list) /\ (k # 0 => list[k].NodeID = node)
<1> DEFINE pos == {i \in DOMAIN list : list[i].NodeID = node}
<1>1. pos \in SUBSET (Nat \ {0}) /\ pos \in SUBSET (1..Len(list))
  OBVIOUS
<1>2. (pos = {} => First(pos) = 0) /\ (pos # {} => First(pos) \in pos)
  BY <1>1, FirstFinds
<1>3. TrustedPeer(list, node) = First(pos)
  BY DEF TrustedPeer
<1>4. QED
  BY <1>1, <1>2, <1>3

LEMMA trustedIndexFinds ==
    ASSUME NEW E, NEW list \in Seq(E), NEW p
    PROVE  LET k == trustedIndex(list, p)
           IN  /\ k \in 0..Len(list)
               /\ k = 0 => \A i \in DOMAIN list : ~sameTrustedMachine(list[i], p)
<1> DEFINE pos == {i \in DOMAIN list : sameTrustedMachine(list[i], p)}
<1>1. pos \in SUBSET (Nat \ {0}) /\ pos \in SUBSET (1..Len(list))
  OBVIOUS
<1>2. (pos = {} => First(pos) = 0) /\ (pos # {} => First(pos) \in pos)
  BY <1>1, FirstFinds
<1>3. trustedIndex(list, p) = First(pos)
  BY DEF trustedIndex
<1>4. QED
  BY <1>1, <1>2, <1>3

(* AddTrustedPeer called on the list it scanned lists no machine twice, by *)
(* whichever of the three identifiers the newcomer matches an old entry.   *)
THEOREM AddKeepsDistinct ==
    ASSUME NEW E, NEW list \in Seq(E), NEW p, Distinct(list)
    PROVE  Distinct(AddTrustedPeer(list, p))
<1> DEFINE k == trustedIndex(list, p)
<1>1. k \in 0..Len(list) /\ (k = 0 => \A i \in DOMAIN list : ~sameTrustedMachine(list[i], p))
  BY trustedIndexFinds
<1> HIDE DEF k
<1>2. \A a, b : sameTrustedMachine(a, b) <=> sameTrustedMachine(b, a)
  BY DEF sameTrustedMachine
<1>3. CASE k = 0
  <2> DEFINE new == Append(list, p)
  <2>1. AddTrustedPeer(list, p) = new
    BY <1>3 DEF AddTrustedPeer, AddAt, k
  <2>2. /\ Len(list) \in Nat /\ DOMAIN list = 1..Len(list) /\ DOMAIN new = 1..(Len(list) + 1)
        /\ new[Len(list) + 1] = p /\ \A i \in 1..Len(list) : new[i] = list[i]
    OBVIOUS
  <2> HIDE DEF new
  <2>3. \A i, j \in DOMAIN new : i # j => ~sameTrustedMachine(new[i], new[j])
    BY <1>1, <1>2, <1>3, <2>2 DEF Distinct
  <2>4. QED
    BY <2>1, <2>3 DEF Distinct
<1>4. CASE k # 0
  <2> DEFINE F == E \cup {mergeTrustedPeer(list[k], p)}
  <2> DEFINE new == [list EXCEPT ![k] = mergeTrustedPeer(@, p)]
  <2> DEFINE pos == {i \in DOMAIN new : i = k \/ ~sameTrustedMachine(new[k], new[i])}
  <2> DEFINE out == Kept(new, pos)
  <2>1. /\ new \in Seq(F) /\ DOMAIN new = DOMAIN list
        /\ \A i \in DOMAIN new : i # k => new[i] = list[i]
    BY <1>1, <1>4
  <2>2. pos \in SUBSET DOMAIN new
    OBVIOUS
  <2>3. AddTrustedPeer(list, p) = out
    BY <1>4 DEF AddTrustedPeer, AddAt, removeDuplicateTrustedPeers, k
  <2>4. \A a, b \in pos : a # b => ~sameTrustedMachine(new[a], new[b])
    <3> SUFFICES ASSUME NEW a \in pos, NEW b \in pos, a # b
                 PROVE  ~sameTrustedMachine(new[a], new[b])
      OBVIOUS
    <3>1. CASE a = k \/ b = k
      BY <1>2, <3>1
    <3>2. CASE a # k /\ b # k
      <4>1. new[a] = list[a] /\ new[b] = list[b] /\ a \in DOMAIN list /\ b \in DOMAIN list
        BY <2>1, <3>2
      <4>2. QED
        BY <4>1 DEF Distinct
    <3>3. QED
      BY <3>1, <3>2
  <2> HIDE DEF F, new, pos
  <2>5. /\ \A n \in DOMAIN out : KeptAt(pos, n) \in pos /\ out[n] = new[KeptAt(pos, n)]
        /\ \A n, m \in DOMAIN out : n # m => KeptAt(pos, n) # KeptAt(pos, m)
    BY <2>1, <2>2, KeptEntries
  <2> HIDE DEF out
  <2>6. \A n, m \in DOMAIN out : n # m => ~sameTrustedMachine(out[n], out[m])
    BY <2>4, <2>5
  <2>7. QED
    BY <2>3, <2>6 DEF Distinct
<1>5. QED
  BY <1>3, <1>4

(* AddTrustedPeer trusts the newcomer, and what it removes it takes for    *)
(* the newcomer: a merged entry matches nothing that neither the newcomer  *)
(* nor the entry it replaces matched.                                      *)
LEMMA AddTrusts ==
    ASSUME NEW E, NEW list \in Seq(E), NEW p, Distinct(list), p.NodeID # NoID
    PROVE  /\ IsTrusted(AddTrustedPeer(list, p), p.NodeID)
           /\ \A i \in DOMAIN list : ~sameTrustedMachine(list[i], p) =>
                IsTrusted(AddTrustedPeer(list, p), list[i].NodeID)
<1> DEFINE k == trustedIndex(list, p)
<1>1. /\ k \in 0..Len(list)
      /\ k # 0 => sameTrustedMachine(list[k], p)
  <2> DEFINE pos == {i \in DOMAIN list : sameTrustedMachine(list[i], p)}
  <2>1. pos \in SUBSET (Nat \ {0}) /\ pos \in SUBSET (1..Len(list))
    OBVIOUS
  <2>2. (pos = {} => First(pos) = 0) /\ (pos # {} => First(pos) \in pos)
    BY <2>1, FirstFinds
  <2>3. trustedIndex(list, p) = First(pos)
    BY DEF trustedIndex
  <2>4. QED
    BY <2>1, <2>2, <2>3
<1> HIDE DEF k
<1>2. CASE k = 0
  <2> DEFINE new == Append(list, p)
  <2>1. AddTrustedPeer(list, p) = new
    BY <1>2 DEF AddTrustedPeer, AddAt, k
  <2>2. /\ Len(list) \in Nat /\ DOMAIN list = 1..Len(list) /\ DOMAIN new = 1..(Len(list) + 1)
        /\ new[Len(list) + 1] = p /\ \A i \in 1..Len(list) : new[i] = list[i]
    OBVIOUS
  <2> HIDE DEF new
  <2>3. Len(list) + 1 \in DOMAIN new /\ \A i \in DOMAIN list : i \in DOMAIN new
    BY <2>2
  <2>4. QED
    BY <2>1, <2>2, <2>3 DEF IsTrusted
<1>3. CASE k # 0
  <2> DEFINE m == mergeTrustedPeer(list[k], p)
  <2> DEFINE F == E \cup {m}
  <2> DEFINE new == [list EXCEPT ![k] = mergeTrustedPeer(@, p)]
  <2> DEFINE pos == {i \in DOMAIN new : i = k \/ ~sameTrustedMachine(new[k], new[i])}
  <2> DEFINE out == Kept(new, pos)
  <2>1. /\ new \in Seq(F) /\ DOMAIN new = DOMAIN list /\ k \in DOMAIN list /\ new[k] = m
        /\ \A i \in DOMAIN new : i # k => new[i] = list[i]
    BY <1>1, <1>3
  <2>2. AddTrustedPeer(list, p) = out
    BY <1>3 DEF AddTrustedPeer, AddAt, removeDuplicateTrustedPeers, k
  <2>3. pos \in SUBSET DOMAIN new /\ k \in pos
    BY <2>1
  <2>4. m.NodeID = p.NodeID
    BY DEF mergeTrustedPeer, Stated
  <2>5. ASSUME NEW i \in DOMAIN list, ~sameTrustedMachine(list[i], p)
        PROVE  i \in pos /\ new[i] = list[i]
    <3>1. i # k
      BY <1>1, <1>3, <2>5
    <3>2. \A f \in IdentityFields : m[f] = p[f] \/ m[f] = list[k][f]
      BY DEF mergeTrustedPeer, Stated, IdentityFields
    <3>3. ~sameTrustedMachine(list[k], list[i])
      BY <2>1, <3>1 DEF Distinct
    <3> HIDE DEF m
    <3>4. ~sameTrustedMachine(m, list[i])
      BY <2>5, <3>2, <3>3 DEF sameTrustedMachine
    <3>5. QED
      BY <2>1, <3>1, <3>4
  <2> HIDE DEF m, F, new, pos
  <2>6. \A i \in pos : \E n \in DOMAIN out : out[n] = new[i]
    BY <2>1, <2>3, KeptAll
  <2> HIDE DEF out
  <2>7. QED
    BY <2>1, <2>2, <2>3, <2>4, <2>5, <2>6 DEF IsTrusted
<1>4. QED
  BY <1>2, <1>3

(* A list rebuilt from the entries of other nodes trusts the others. *)
LEMMA KeptUntrusts ==
    ASSUME NEW E, NEW list \in Seq(E), NEW pos \in SUBSET DOMAIN list, NEW node,
           \A i \in DOMAIN list : i \in pos <=> list[i].NodeID # node
    PROVE  \A n : IsTrusted(Kept(list, pos), n) <=> (IsTrusted(list, n) /\ n # node)
<1> DEFINE out == Kept(list, pos)
<1>1. \A i \in pos : \E n \in DOMAIN out : out[n] = list[i]
  BY KeptAll
<1>2. \A n \in DOMAIN out : KeptAt(pos, n) \in pos /\ out[n] = list[KeptAt(pos, n)]
  BY KeptEntries
<1> HIDE DEF out
<1>3. QED
  BY <1>1, <1>2 DEF IsTrusted, out

LEMMA WithoutNodeUntrusts ==
    ASSUME NEW E, NEW list \in Seq(E), NEW node
    PROVE  \A n : IsTrusted(WithoutNode(list, node), n) <=> (IsTrusted(list, n) /\ n # node)
<1> DEFINE pos == {i \in DOMAIN list : list[i].NodeID # node}
<1>1. /\ pos \in SUBSET DOMAIN list
      /\ \A i \in DOMAIN list : i \in pos <=> list[i].NodeID # node
  OBVIOUS
<1>2. WithoutNode(list, node) = Kept(list, pos)
  BY DEF WithoutNode
<1> HIDE DEF pos
<1>3. \A n : IsTrusted(Kept(list, pos), n) <=> (IsTrusted(list, n) /\ n # node)
  BY <1>1, KeptUntrusts
<1>4. QED
  BY <1>2, <1>3

(* RemoveTrustedPeer stops at the first entry of the node, which on a list *)
(* that names no machine twice is the only one.                            *)
LEMMA RemoveUntrusts ==
    ASSUME NEW E, NEW list \in Seq(E), NEW node, Distinct(list),
           \A i \in DOMAIN list : list[i].NodeID # NoID
    PROVE  \A n : IsTrusted(RemoveTrustedPeer(list, node), n) <=> (IsTrusted(list, n) /\ n # node)
<1> DEFINE k == TrustedPeer(list, node)
<1> DEFINE pos == {i \in DOMAIN list : list[i].NodeID = node}
<1>1. pos \in SUBSET (Nat \ {0})
  OBVIOUS
<1>2. (pos = {} => k = 0) /\ (pos # {} => k \in pos)
  BY <1>1, FirstFinds DEF TrustedPeer
<1>3. RemoveTrustedPeer(list, node) = IF k = 0 THEN list ELSE Kept(list, DOMAIN list \ {k})
  BY DEF RemoveTrustedPeer, Without
<1> HIDE DEF k
<1>4. CASE pos = {}
  BY <1>2, <1>3, <1>4 DEF IsTrusted
<1>5. CASE pos # {}
  <2>1. k \in DOMAIN list /\ list[k].NodeID = node /\ k # 0
    BY <1>1, <1>2, <1>5
  <2>2. \A i \in DOMAIN list : i # k => list[i].NodeID # node
    BY <2>1 DEF Distinct, sameTrustedMachine, IdentityFields
  <2>3. \A i \in DOMAIN list : i \in DOMAIN list \ {k} <=> list[i].NodeID # node
    BY <2>1, <2>2
  <2>4. DOMAIN list \ {k} \in SUBSET DOMAIN list
    OBVIOUS
  <2> HIDE DEF pos
  <2>5. \A n : IsTrusted(Kept(list, DOMAIN list \ {k}), n) <=> (IsTrusted(list, n) /\ n # node)
    BY <2>3, <2>4, KeptUntrusts
  <2>6. QED
    BY <1>3, <2>1, <2>5
<1>6. QED
  BY <1>4, <1>5

(* Lists cut out of one that names no machine twice do not either. *)
LEMMA KeptDistinct ==
    ASSUME NEW E, NEW list \in Seq(E), NEW pos \in SUBSET DOMAIN list, Distinct(list)
    PROVE  Distinct(Kept(list, pos))
<1> DEFINE out == Kept(list, pos)
<1>1. /\ \A n \in DOMAIN out : KeptAt(pos, n) \in pos /\ out[n] = list[KeptAt(pos, n)]
      /\ \A n, m \in DOMAIN out : n # m => KeptAt(pos, n) # KeptAt(pos, m)
  BY KeptEntries
<1> HIDE DEF out
<1>2. QED
  BY <1>1 DEF Distinct, out
=============================================================================
