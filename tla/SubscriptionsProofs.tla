-------------------------- MODULE SubscriptionsProofs --------------------------
(***************************************************************************)
(* What the table of changed attributes and the subscriptions that read it *)
(* preserve, for every capacity and any number of subscriptions, sessions  *)
(* and attributes.                                                         *)
(*                                                                         *)
(*  - The table (ChangedAttrs).  What an insertion does to it is broken    *)
(*    down along the code: a refresh, a promotion, what follows a          *)
(*    promotion, and the insertion as a whole.                             *)
(*  - Priming, reporting, removal and purging (Subscriptions).  The table  *)
(*    below them only takes the steps proved about here.                   *)
(***************************************************************************)
EXTENDS Subscriptions, FiniteSetTheorems, TLAPS

-----------------------------------------------------------------------------
\* The table S reports the attribute p at an id of at least c.
Tells(S, p, c) == \E e \in S : matches(e, p) /\ e.change_id >= c

\* T reports all that S reports.
Keeps(S, T) == \A p \in AttrPath, c \in Nat : Tells(S, p, c) => Tells(T, p, c)

\* A table with ids between 1 and n.
Well(S, n) == S \subseteq Entry /\ \A e \in S : e.change_id > 0 /\ e.change_id <= n

Antichain(S) == \A x, y \in S : covers(x, y) => x = y

Bounded(S) == IsFiniteSet(S) /\ Cardinality(S) <= MAX_CHANGED_ATTRS

\* The inductive invariant behind NoLostChange, which quantifies over readers:
\* one entry reports the attribute's last change, or a later one.
StillTold ==
    \A p \in AttrPath : last_change[p] > forgotten => Tells(entries, p, last_change[p])

-------------------------------------------------------------------------------
\* What covers an entry matches all that the entry matches.
LEMMA CoversMatches ==
    ASSUME NEW a \in Entry, NEW b \in Entry, NEW p \in AttrPath,
           covers(a, b), matches(b, p)
    PROVE  matches(a, p)
BY DEF covers, matches

\* Covering is transitive.
LEMMA CoversTransitive ==
    ASSUME NEW a \in Entry, NEW b \in Entry, NEW c \in Entry,
           covers(a, b), covers(b, c)
    PROVE  covers(a, c)
BY DEF covers

\* Adding one element to a finite set adds at most one to its size.
LEMMA AddBound ==
    ASSUME NEW A, NEW x, IsFiniteSet(A)
    PROVE  /\ IsFiniteSet(A \cup {x})
           /\ Cardinality(A \cup {x}) \in Nat
           /\ Cardinality(A \cup {x}) <= Cardinality(A) + 1
<1>1. /\ IsFiniteSet(A \cup {x})
      /\ Cardinality(A \cup {x}) =
           IF x \in A THEN Cardinality(A) ELSE Cardinality(A) + 1
  BY FS_AddElement
<1>2. Cardinality(A) \in Nat
  BY FS_CardinalityType
<1>3. QED BY <1>1, <1>2

\* Refreshing an entry that covers fresh reports fresh, forgets nothing and leaves
\* the shape of the table alone.
LEMMA RefreshedLemma ==
    ASSUME NEW S, NEW fresh \in Entry, Well(S, fresh.change_id), fresh.change_id > 0,
           NEW T \in Refreshed(S, fresh)
    PROVE  /\ Well(T, fresh.change_id)
           /\ Keeps(S, T)
           /\ \A p \in AttrPath : matches(fresh, p) => Tells(T, p, fresh.change_id)
           /\ Antichain(S) => Antichain(T)
           /\ Bounded(S) => Bounded(T)
<1>1. PICK x \in S : /\ covers(x, fresh)
                     /\ T = (S \ {x}) \cup {[x EXCEPT !.change_id = fresh.change_id]}
  BY DEF Refreshed
<1> DEFINE xx == [x EXCEPT !.change_id = fresh.change_id]
<1>2. /\ x \in Entry /\ x.change_id \in Nat /\ x.change_id <= fresh.change_id
      /\ fresh.change_id \in Nat
  BY DEF Well, Entry
<1>3. /\ xx \in Entry /\ xx.change_id = fresh.change_id
      /\ xx.endpoint = x.endpoint /\ xx.cluster = x.cluster /\ xx.attr = x.attr
  BY <1>2 DEF Entry
<1> HIDE DEF xx
<1>4. T = (S \ {x}) \cup {xx}
  BY <1>1 DEF xx
<1>5. \A p \in AttrPath : matches(x, p) => matches(xx, p)
  BY <1>3 DEF matches
<1>6. \A y : (covers(x, y) <=> covers(xx, y)) /\ (covers(y, x) <=> covers(y, xx))
  BY <1>3 DEF covers
<1>7. Well(T, fresh.change_id)
  BY <1>2, <1>3, <1>4 DEF Well
<1>8. Keeps(S, T)
  <2> SUFFICES ASSUME NEW p \in AttrPath, NEW c \in Nat, NEW e \in S,
                      matches(e, p), e.change_id >= c
               PROVE  Tells(T, p, c)
    BY DEF Keeps, Tells
  <2>1. CASE e = x
    BY <2>1, <1>2, <1>3, <1>4, <1>5 DEF Tells
  <2>2. CASE e # x
    BY <2>2, <1>4 DEF Tells
  <2>3. QED BY <2>1, <2>2
<1>9. \A p \in AttrPath : matches(fresh, p) => Tells(T, p, fresh.change_id)
  BY <1>1, <1>2, <1>3, <1>4, <1>5, CoversMatches DEF Tells
<1>10. Antichain(S) => Antichain(T)
  <2> SUFFICES ASSUME Antichain(S), NEW y \in T, NEW z \in T, covers(y, z)
               PROVE  y = z
    BY DEF Antichain
  <2>1. CASE y = xx /\ z # xx
    BY <2>1, <1>4, <1>6 DEF Antichain
  <2>2. CASE y # xx /\ z = xx
    BY <2>2, <1>4, <1>6 DEF Antichain
  <2>3. CASE y # xx /\ z # xx
    BY <2>3, <1>4 DEF Antichain
  <2>4. QED BY <2>1, <2>2, <2>3
<1>11. Bounded(S) => Bounded(T)
  <2> SUFFICES ASSUME Bounded(S) PROVE Bounded(T)
    OBVIOUS
  <2>1. /\ IsFiniteSet(S \ {x}) /\ Cardinality(S \ {x}) = Cardinality(S) - 1
    BY FS_RemoveElement, Zenon DEF Bounded
  <2>2. /\ IsFiniteSet(T)
        /\ Cardinality(T) <= Cardinality(S \ {x}) + 1
    BY <2>1, <1>4, AddBound, Zenon
  <2>3. Cardinality(S) \in Nat /\ Cardinality(T) \in Nat /\ Cardinality(S \ {x}) \in Nat
    BY <2>1, <2>2, FS_CardinalityType DEF Bounded
  <2>4. QED BY <2>1, <2>2, <2>3, CapacityAssumption DEF Bounded
<1>12. QED BY <1>7, <1>8, <1>9, <1>10, <1>11

\* Promoting a largest group forgets nothing and frees at least one slot.  It
\* leaves fresh uncovering: an entry that covers nothing before the promotion
\* covers nothing after it.
LEMMA PromoteLemma ==
    ASSUME NEW S, NEW n \in Nat, Well(S, n), NEW level \in {1, 2},
           NEW T \in promote_largest_group(S, level)
    PROVE  /\ Well(T, n)
           /\ Keeps(S, T)
           /\ Antichain(S) => Antichain(T)
           /\ IsFiniteSet(S) => IsFiniteSet(T) /\ Cardinality(T) < Cardinality(S)
           /\ \A fresh \in Entry : Group(S, fresh) = {} => Group(T, fresh) = {}
<1>1. PICK c \in LargestAt(S, level) :
        T \in {(S \ Group(S, c)) \cup {[c EXCEPT !.change_id = e.change_id]} :
                 e \in {x \in Group(S, c) : \A y \in Group(S, c) : y.change_id <= x.change_id}}
  BY DEF promote_largest_group
<1>2. PICK e \in Group(S, c) :
        /\ \A y \in Group(S, c) : y.change_id <= e.change_id
        /\ T = (S \ Group(S, c)) \cup {[c EXCEPT !.change_id = e.change_id]}
  BY <1>1
<1>3. /\ c \in UNION {coarsen(x, level) : x \in S}
      /\ Cardinality(Group(S, c)) >= 2
  BY DEF LargestAt
<1>4. PICK o \in S : c \in coarsen(o, level)
  BY <1>3
<1>5. /\ e \in S /\ e \in Entry /\ e.change_id \in Nat /\ e.change_id > 0 /\ e.change_id <= n
      /\ o \in Entry
  BY DEF Group, Well, Entry
<1>6. c \in Entry
  BY <1>4, <1>5 DEF coarsen, Entry
<1> DEFINE cc == [c EXCEPT !.change_id = e.change_id]
<1>7. /\ cc \in Entry /\ cc.change_id = e.change_id
      /\ cc.endpoint = c.endpoint /\ cc.cluster = c.cluster /\ cc.attr = c.attr
  BY <1>5, <1>6 DEF Entry
<1> HIDE DEF cc
<1>8. T = (S \ Group(S, c)) \cup {cc}
  BY <1>2, SMTT(30) DEF cc
<1>9. \A y : (covers(c, y) <=> covers(cc, y)) /\ (covers(y, c) <=> covers(y, cc))
  BY <1>7 DEF covers
<1>10. Well(T, n)
  BY <1>5, <1>7, <1>8 DEF Well
<1>11. Keeps(S, T)
  <2> SUFFICES ASSUME NEW p \in AttrPath, NEW k \in Nat, NEW x \in S,
                      matches(x, p), x.change_id >= k
               PROVE  Tells(T, p, k)
    BY DEF Keeps, Tells
  <2>1. CASE x \in Group(S, c)
    <3>1. x \in Entry /\ x.change_id \in Nat /\ covers(cc, x)
      BY <2>1, <1>9, SMTT(30) DEF Group, Well, Entry
    <3>2. matches(cc, p)
      BY <3>1, <1>7, CoversMatches
    <3>3. cc.change_id >= k
      BY <2>1, <3>1, <1>2, <1>5, <1>7
    <3>4. QED BY <3>2, <3>3, <1>8 DEF Tells
  <2>2. CASE x \notin Group(S, c)
    BY <2>2, <1>8 DEF Tells
  <2>3. QED BY <2>1, <2>2
<1>12. Antichain(S) => Antichain(T)
  <2> SUFFICES ASSUME Antichain(S), NEW y \in T, NEW z \in T, covers(y, z)
               PROVE  y = z
    BY DEF Antichain
  <2>1. CASE y = cc /\ z # cc
    BY <2>1, <1>8, <1>9 DEF Group
  <2>2. CASE y # cc /\ z = cc
    <3>1. y \in S /\ y \in Entry /\ y \notin Group(S, c) /\ covers(y, c)
      BY <2>2, <1>8, <1>9 DEF Well
    <3>2. covers(c, e)
      BY DEF Group
    <3>3. covers(y, e)
      BY <3>1, <3>2, <1>5, <1>6, CoversTransitive
    <3>4. y = e
      BY <3>1, <3>3, <1>5 DEF Antichain
    <3>5. QED BY <3>1, <3>4
  <2>3. CASE y # cc /\ z # cc
    BY <2>3, <1>8 DEF Antichain
  <2>4. QED BY <2>1, <2>2, <2>3
<1>13. ASSUME IsFiniteSet(S)
       PROVE  IsFiniteSet(T) /\ Cardinality(T) < Cardinality(S)
  <2>1. Group(S, c) \in SUBSET S /\ S \cap Group(S, c) = Group(S, c)
    BY DEF Group
  <2>2. /\ IsFiniteSet(S \ Group(S, c))
        /\ Cardinality(S \ Group(S, c)) = Cardinality(S) - Cardinality(Group(S, c))
    BY <1>13, <2>1, FS_Difference, Zenon
  <2>3. /\ IsFiniteSet(T)
        /\ Cardinality(T) <= Cardinality(S \ Group(S, c)) + 1
    BY <2>2, <1>8, AddBound, Zenon
  <2>4. /\ Cardinality(S) \in Nat /\ Cardinality(T) \in Nat
        /\ Cardinality(S \ Group(S, c)) \in Nat /\ Cardinality(Group(S, c)) \in Nat
    BY <1>13, <2>1, <2>2, <2>3, FS_CardinalityType, FS_Subset, SMTT(30)
  <2>5. QED BY <2>2, <2>3, <2>4, <1>3
<1>14. ASSUME NEW fresh \in Entry, Group(S, fresh) = {}
       PROVE  Group(T, fresh) = {}
  <2>1. ~ covers(fresh, cc)
    <3>1. covers(c, e)
      BY DEF Group
    <3>2. covers(fresh, c) => covers(fresh, e)
      BY <3>1, <1>5, <1>6, CoversTransitive
    <3>3. QED BY <3>2, <1>5, <1>9, <1>14 DEF Group
  <2>2. QED BY <2>1, <1>8, <1>14 DEF Group
<1>15. QED BY <1>10, <1>11, <1>12, <1>13, <1>14

\* A table that does not cover fresh, with a free slot, takes fresh.
LEMMA PushLemma ==
    ASSUME NEW S, NEW fresh \in Entry, Well(S, fresh.change_id), fresh.change_id > 0,
           Group(S, fresh) = {}, ~ \E x \in S : covers(x, fresh)
    PROVE  /\ Well(S \cup {fresh}, fresh.change_id)
           /\ Keeps(S, S \cup {fresh})
           /\ \A p \in AttrPath : matches(fresh, p) => Tells(S \cup {fresh}, p, fresh.change_id)
           /\ Antichain(S) => Antichain(S \cup {fresh})
           /\ IsFiniteSet(S) /\ Cardinality(S) < MAX_CHANGED_ATTRS => Bounded(S \cup {fresh})
<1>1. fresh.change_id \in Nat
  BY DEF Entry
<1>2. Well(S \cup {fresh}, fresh.change_id)
  BY <1>1 DEF Well
<1>3. Keeps(S, S \cup {fresh})
  BY DEF Keeps, Tells
<1>4. \A p \in AttrPath : matches(fresh, p) => Tells(S \cup {fresh}, p, fresh.change_id)
  BY <1>1 DEF Tells
<1>5. Antichain(S) => Antichain(S \cup {fresh})
  BY DEF Antichain, Group
<1>6. IsFiniteSet(S) /\ Cardinality(S) < MAX_CHANGED_ATTRS => Bounded(S \cup {fresh})
  <2> SUFFICES ASSUME IsFiniteSet(S), Cardinality(S) < MAX_CHANGED_ATTRS PROVE Bounded(S \cup {fresh})
    OBVIOUS
  <2>1. Cardinality(S) \in Nat
    BY FS_CardinalityType
  <2>2. QED BY <2>1, AddBound, CapacityAssumption DEF Bounded
<1>7. QED BY <1>2, <1>3, <1>4, <1>5, <1>6

\* What record_raw does to the table: it reports fresh, forgets nothing, keeps
\* entries from subsuming each other and stays within the capacity.
LEMMA InsertedLemma ==
    ASSUME NEW S, NEW fresh \in Entry, Well(S, fresh.change_id), fresh.change_id > 0,
           NEW T \in Inserted(S, fresh)
    PROVE  /\ Well(T, fresh.change_id)
           /\ Keeps(S, T)
           /\ \A p \in AttrPath : matches(fresh, p) => Tells(T, p, fresh.change_id)
           /\ Antichain(S) => Antichain(T)
           /\ Bounded(S) => Bounded(T)
<1> DEFINE left == S \ Group(S, fresh)
<1> DEFINE Good(U) == /\ Well(U, fresh.change_id)
                      /\ Keeps(left, U)
                      /\ \A p \in AttrPath : matches(fresh, p) => Tells(U, p, fresh.change_id)
                      /\ Antichain(left) => Antichain(U)
                      /\ Bounded(left) => Bounded(U)
<1>1. fresh.change_id \in Nat /\ fresh.change_id # 0
  BY DEF Entry
<1>2. CASE \E x \in S : covers(x, fresh)
  <2>1. T \in Refreshed(S, fresh)
    BY <1>2 DEF Inserted
  <2>2. QED BY <2>1, RefreshedLemma
<1>3. CASE ~ \E x \in S : covers(x, fresh)
  <2>1. Well(left, fresh.change_id) /\ Group(left, fresh) = {} /\ ~ \E x \in left : covers(x, fresh)
    BY <1>3 DEF Well, Group
  <2>2. (Antichain(S) => Antichain(left))
    BY DEF Antichain
  <2>3. Bounded(S) => Bounded(left)
    <3> SUFFICES ASSUME Bounded(S) PROVE Bounded(left)
      OBVIOUS
    <3>1. IsFiniteSet(left) /\ Cardinality(left) <= Cardinality(S)
      BY FS_Subset DEF Bounded
    <3>2. Cardinality(left) \in Nat /\ Cardinality(S) \in Nat
      BY <3>1, FS_CardinalityType DEF Bounded
    <3>3. QED BY <3>1, <3>2, CapacityAssumption DEF Bounded
  <2> HIDE DEF left
  <2>4. CASE Cardinality(left) < MAX_CHANGED_ATTRS
    <3>1. T = left \cup {fresh}
      BY <1>3, <2>4 DEF Inserted, left
    <3>2. QED
      <4>1. Good(T)
        BY <3>1, <2>1, <2>4, PushLemma, Zenon DEF Bounded
      <4>2. Keeps(S, T)
        <5> SUFFICES ASSUME NEW p \in AttrPath, NEW c \in Nat, NEW e \in S,
                            matches(e, p), e.change_id >= c
                     PROVE  Tells(T, p, c)
          BY DEF Keeps, Tells
        <5>1. e \in Entry /\ e.change_id \in Nat /\ e.change_id <= fresh.change_id
          BY DEF Well, Entry
        <5>2. CASE e \in Group(S, fresh)
          <6>1. matches(fresh, p)
            BY <5>1, <5>2, CoversMatches DEF Group
          <6>2. fresh \in T /\ fresh.change_id >= c
            BY <5>1, <3>1, <1>1
          <6>3. QED BY <6>1, <6>2 DEF Tells
        <5>3. CASE e \notin Group(S, fresh)
          BY <5>3, <3>1 DEF Tells, left
        <5>4. QED BY <5>2, <5>3
      <4>3. QED BY <4>1, <4>2, <2>2, <2>3, SMTT(30)
  <2>5. CASE ~ (Cardinality(left) < MAX_CHANGED_ATTRS)
    <3>1. T \in promote_and_insert(left, fresh)
      BY <1>3, <2>5 DEF Inserted, left
    <3>2. ASSUME NEW level \in {1, 2}, NEW U \in promote_largest_group(left, level),
                 T \in AfterPromotion(U, fresh)
          PROVE  Good(T)
      <4>1. /\ Well(U, fresh.change_id)
            /\ Keeps(left, U)
            /\ Antichain(left) => Antichain(U)
            /\ IsFiniteSet(left) => IsFiniteSet(U) /\ Cardinality(U) < Cardinality(left)
            /\ Group(U, fresh) = {}
        BY <1>1, <2>1, PromoteLemma
      <4>2. Bounded(left) => Bounded(U) /\ Cardinality(U) < MAX_CHANGED_ATTRS
        BY <4>1, FS_CardinalityType, CapacityAssumption DEF Bounded
      <4>3. CASE \E x \in U : covers(x, fresh)
        <5>1. T \in Refreshed(U, fresh)
          BY <3>2, <4>3 DEF AfterPromotion
        <5>2. /\ Well(T, fresh.change_id)
              /\ Keeps(U, T)
              /\ \A p \in AttrPath : matches(fresh, p) => Tells(T, p, fresh.change_id)
              /\ Antichain(U) => Antichain(T)
              /\ Bounded(U) => Bounded(T)
          BY <4>1, <5>1, RefreshedLemma
        <5>3. QED BY <4>1, <4>2, <5>2 DEF Keeps
      <4>4. CASE ~ \E x \in U : covers(x, fresh)
        <5>1. T = U \cup {fresh}
          BY <3>2, <4>4 DEF AfterPromotion
        <5>2. /\ Well(T, fresh.change_id)
              /\ Keeps(U, T)
              /\ \A p \in AttrPath : matches(fresh, p) => Tells(T, p, fresh.change_id)
              /\ Antichain(U) => Antichain(T)
              /\ IsFiniteSet(U) /\ Cardinality(U) < MAX_CHANGED_ATTRS => Bounded(T)
          BY <4>1, <4>4, <5>1, PushLemma, SMTT(30)
        <5>3. QED BY <4>1, <4>2, <5>2 DEF Keeps, Bounded
      <4>5. QED BY <4>3, <4>4
    <3>3. ASSUME T = {GlobalWildcard(fresh.change_id)}
          PROVE  Good(T)
      <4> DEFINE g == GlobalWildcard(fresh.change_id)
      <4>1. /\ g \in Entry /\ g.change_id = fresh.change_id
            /\ \A p \in AttrPath : matches(g, p)
        BY <1>1 DEF GlobalWildcard, Entry, matches
      <4> HIDE DEF g
      <4>2. T = {g}
        BY <3>3 DEF g
      <4>3. Well(T, fresh.change_id)
        BY <4>1, <4>2, <1>1 DEF Well
      <4>4. \A p \in AttrPath, c \in Nat : c <= fresh.change_id => Tells(T, p, c)
        BY <4>1, <4>2, <1>1 DEF Tells
      <4>5. \A e \in left : e.change_id \in Nat /\ e.change_id <= fresh.change_id
        BY <2>1 DEF Well, Entry
      <4>6. Keeps(left, T)
        BY <4>4, <4>5, <1>1 DEF Keeps, Tells
      <4>7. Antichain(T)
        BY <4>2 DEF Antichain
      <4>8. Bounded(T)
        <5>1. IsFiniteSet({g}) /\ Cardinality({g}) = 1
          BY FS_Singleton, Zenon
        <5>2. QED BY <5>1, <4>2, CapacityAssumption DEF Bounded
      <4>9. QED BY <4>3, <4>4, <4>6, <4>7, <4>8, <1>1
    <3>4. Good(T)
      <4>1. CASE LargestAt(left, 1) # {}
        BY <4>1, <3>1, <3>2 DEF promote_and_insert
      <4>2. CASE LargestAt(left, 1) = {} /\ LargestAt(left, 2) # {}
        BY <4>2, <3>1, <3>2 DEF promote_and_insert
      <4>3. CASE LargestAt(left, 1) = {} /\ LargestAt(left, 2) = {}
        BY <4>3, <3>1, <3>3 DEF promote_and_insert
      <4>4. QED BY <4>1, <4>2, <4>3
    <3>5. Keeps(S, T)
      <4> SUFFICES ASSUME NEW p \in AttrPath, NEW c \in Nat, NEW e \in S,
                          matches(e, p), e.change_id >= c
                   PROVE  Tells(T, p, c)
        BY DEF Keeps, Tells
      <4>1. e \in Entry /\ e.change_id \in Nat /\ e.change_id <= fresh.change_id
        BY DEF Well, Entry
      <4>2. CASE e \in Group(S, fresh)
        <5>1. matches(fresh, p)
          BY <4>1, <4>2, CoversMatches DEF Group
        <5>2. PICK x \in T : matches(x, p) /\ x.change_id >= fresh.change_id
          BY <3>4, <5>1 DEF Tells
        <5>3. x.change_id \in Nat
          BY <3>4 DEF Well, Entry
        <5>4. x.change_id >= c
          BY <5>2, <5>3, <4>1, <1>1
        <5>5. QED BY <5>2, <5>4 DEF Tells
      <4>3. CASE e \notin Group(S, fresh)
        <5>1. Tells(left, p, c)
          BY <4>3 DEF left, Tells
        <5>2. QED BY <5>1, <3>4 DEF Keeps
      <4>4. QED BY <4>2, <4>3
    <3>6. QED BY <3>4, <3>5, <2>2, <2>3
  <2>6. QED BY <2>4, <2>5
<1>4. QED BY <1>2, <1>3

-------------------------------------------------------------------------------
TableInv == TableTypeOK /\ StillTold /\ NoRedundantEntry /\ WithinCapacity

\* Recording a change, concrete or wildcard, preserves the invariant.
LEMMA RecordLemma ==
    ASSUME TableInv, NEW e \in Endpoints \cup {Wild}, NEW c \in Clusters \cup {Wild},
           NEW a \in Attrs \cup {Wild}, record_raw(e, c, a)
    PROVE  TableInv'
<1> DEFINE fresh == [endpoint |-> e, cluster |-> c, attr |-> a, change_id |-> next_change_id]
<1>1. fresh \in Entry /\ fresh.change_id = next_change_id /\ next_change_id \in Nat /\ next_change_id > 0
  BY DEF Entry, TableInv, TableTypeOK
<1>2. /\ entries' \in Inserted(entries, fresh)
      /\ next_change_id' = next_change_id + 1
      /\ last_change' = [p \in AttrPath |->
                            IF matches(fresh, p) THEN next_change_id ELSE last_change[p]]
      /\ forgotten' = forgotten
  BY DEF record_raw
<1> HIDE DEF fresh
<1>3. Well(entries, fresh.change_id)
  BY <1>1 DEF TableInv, TableTypeOK, Well, Entry
<1>4. Antichain(entries) /\ Bounded(entries)
  BY DEF TableInv, NoRedundantEntry, WithinCapacity, Antichain, Bounded
<1>5. /\ Well(entries', fresh.change_id)
      /\ Keeps(entries, entries')
      /\ \A p \in AttrPath : matches(fresh, p) => Tells(entries', p, fresh.change_id)
      /\ Antichain(entries')
      /\ Bounded(entries')
  BY <1>1, <1>2, <1>3, <1>4, InsertedLemma
<1>6. TableTypeOK'
  <2>1. last_change' \in [AttrPath -> Nat] /\ \A p \in AttrPath : last_change'[p] < next_change_id'
    BY <1>1, <1>2 DEF TableInv, TableTypeOK
  <2>2. entries' \in SUBSET Entry
    BY <1>5 DEF Well
  <2>3. \A x \in entries' : x.change_id > 0 /\ x.change_id < next_change_id'
    <3> SUFFICES ASSUME NEW x \in entries'
                 PROVE  x.change_id > 0 /\ x.change_id < next_change_id'
      OBVIOUS
    <3>1. x.change_id \in Nat
      BY <2>2 DEF Entry
    <3>2. QED BY <3>1, <1>1, <1>2, <1>5 DEF Well
  <2>4. QED BY <1>1, <1>2, <2>1, <2>2, <2>3 DEF TableInv, TableTypeOK
<1>7. StillTold'
  <2> SUFFICES ASSUME NEW p \in AttrPath, last_change'[p] > forgotten
               PROVE  Tells(entries', p, last_change'[p])
    BY <1>2 DEF StillTold, Tells
  <2>1. CASE matches(fresh, p)
    BY <2>1, <1>1, <1>2, <1>5, SMTT(30)
  <2>2. CASE ~ matches(fresh, p)
    <3>1. last_change'[p] = last_change[p] /\ last_change[p] \in Nat
      BY <2>2, <1>2 DEF TableInv, TableTypeOK
    <3>2. Tells(entries, p, last_change[p])
      BY <3>1 DEF TableInv, StillTold
    <3>3. QED BY <3>1, <3>2, <1>5 DEF Keeps
  <2>3. QED BY <2>1, <2>2
<1>8. NoRedundantEntry' /\ WithinCapacity'
  BY <1>5 DEF NoRedundantEntry, WithinCapacity, Antichain, Bounded
<1>9. QED BY <1>6, <1>7, <1>8, SMTT(30) DEF TableInv

\* Trimming the table to the entries above a threshold preserves the invariant
\* (purge_up_to and clear).
LEMMA TrimLemma ==
    ASSUME TableInv, NEW t \in Nat, t < next_change_id,
           entries' = {e \in entries : e.change_id > t},
           forgotten' = (IF t > forgotten THEN t ELSE forgotten),
           UNCHANGED <<next_change_id, last_change>>
    PROVE  TableInv'
<1>1. TableTypeOK'
  BY DEF TableInv, TableTypeOK
<1>2. StillTold'
  <2> SUFFICES ASSUME NEW p \in AttrPath, last_change[p] > forgotten'
               PROVE  Tells(entries', p, last_change[p])
    BY DEF StillTold, Tells
  <2>1. last_change[p] > forgotten /\ last_change[p] > t /\ last_change[p] \in Nat
    BY DEF TableInv, TableTypeOK
  <2>2. PICK e \in entries : matches(e, p) /\ e.change_id >= last_change[p]
    BY <2>1 DEF TableInv, StillTold, Tells
  <2>3. e.change_id \in Nat
    BY DEF TableInv, TableTypeOK, Entry
  <2>4. e \in entries'
    BY <2>1, <2>2, <2>3
  <2>5. QED BY <2>2, <2>4 DEF Tells
<1>3. NoRedundantEntry'
  BY DEF TableInv, NoRedundantEntry
<1>4. WithinCapacity'
  <2>1. IsFiniteSet(entries) /\ Cardinality(entries) <= MAX_CHANGED_ATTRS /\ entries' \in SUBSET entries
    BY DEF TableInv, WithinCapacity
  <2>2. IsFiniteSet(entries') /\ Cardinality(entries') <= Cardinality(entries)
    BY <2>1, FS_Subset
  <2>3. Cardinality(entries') \in Nat /\ Cardinality(entries) \in Nat
    BY <2>1, <2>2, FS_CardinalityType
  <2>4. QED BY <2>1, <2>2, <2>3, CapacityAssumption DEF WithinCapacity
<1>5. QED BY <1>1, <1>2, <1>3, <1>4 DEF TableInv

\* A new, empty table satisfies the invariant.
LEMMA TableInitLemma == TableInit => TableInv
<1> SUFFICES ASSUME TableInit PROVE TableInv
  OBVIOUS
<1>1. TableTypeOK
  BY DEF TableInit, TableTypeOK
<1>2. StillTold /\ NoRedundantEntry
  BY DEF TableInit, StillTold, NoRedundantEntry
<1>3. WithinCapacity
  BY FS_EmptySet, CapacityAssumption DEF TableInit, WithinCapacity
<1>4. QED BY <1>1, <1>2, <1>3 DEF TableInv

\* Every notify_* call, purge_up_to and clear preserve the invariant.
LEMMA TableNextLemma == TableInv /\ [TableNext]_tableVars => TableInv'
<1> SUFFICES ASSUME TableInv, [TableNext]_tableVars PROVE TableInv'
  OBVIOUS
<1>1. CASE notify_attr_changed
  BY <1>1, RecordLemma DEF notify_attr_changed, AttrPath
<1>2. CASE notify_cluster_changed
  BY <1>2, RecordLemma DEF notify_cluster_changed
<1>3. CASE notify_endpoint_changed
  BY <1>3, RecordLemma DEF notify_endpoint_changed
<1>4. CASE notify_all_changed
  BY <1>4, RecordLemma DEF notify_all_changed
<1>5. ASSUME NEW t \in 0 .. watermark, purge_up_to(t)
      PROVE  TableInv'
  <2>1. t \in Nat /\ t < next_change_id
    BY DEF watermark, TableInv, TableTypeOK
  <2>2. QED BY <1>5, <2>1, TrimLemma DEF purge_up_to
<1>6. CASE clear
  <2>1. watermark \in Nat /\ watermark < next_change_id /\ forgotten <= watermark
    BY DEF watermark, TableInv, TableTypeOK
  <2>2. \A e \in entries : ~ (e.change_id > watermark)
    BY DEF watermark, TableInv, TableTypeOK, Entry
  <2>3. /\ entries' = {e \in entries : e.change_id > watermark}
        /\ forgotten' = (IF watermark > forgotten THEN watermark ELSE forgotten)
    BY <1>6, <2>1, <2>2 DEF clear, TableInv, TableTypeOK
  <2>4. QED BY <1>6, <2>1, <2>3, TrimLemma DEF clear
<1>7. CASE UNCHANGED tableVars
  BY <1>7 DEF tableVars, TableInv, TableTypeOK, StillTold, Tells, NoRedundantEntry, WithinCapacity
<1>8. QED BY <1>1, <1>2, <1>3, <1>4, <1>5, <1>6, <1>7 DEF TableNext, notify_changed

\* The invariant gives every reader its changes.
LEMMA ToldLemma == TableInv => NoLostChange
<1> SUFFICES ASSUME TableInv, NEW p \in AttrPath, last_change[p] > forgotten,
                    NEW since \in forgotten .. (last_change[p] - 1)
             PROVE  contains_since(p, since)
  BY DEF NoLostChange
<1>1. PICK e \in entries : matches(e, p) /\ e.change_id >= last_change[p]
  BY DEF TableInv, StillTold, Tells
<1>2. e.change_id \in Nat /\ last_change[p] \in Nat /\ forgotten \in Nat
  BY DEF TableInv, TableTypeOK, Entry
<1>3. e.change_id > since
  BY <1>1, <1>2
<1>4. QED BY <1>1, <1>3 DEF contains_since

\* The invariant is inductive.
LEMMA TableInductive == TableSpec => []TableInv
<1>1. QED BY TableInitLemma, TableNextLemma, PTL DEF TableSpec

\* Every reachable state of the table of changed attributes is well typed and
\* holds only ids that record_raw has assigned.
THEOREM TableTypeCorrect == TableSpec => []TableTypeOK
<1>1. TableInv => TableTypeOK
  BY DEF TableInv
<1>2. QED BY <1>1, TableInductive, PTL

\* Refresh, absorption, promotion and purging never lose a change: for every
\* capacity, contains_since still finds each change that was not let go of.
THEOREM ChangesAreNeverLost == TableSpec => []NoLostChange
<1>1. QED BY TableInductive, ToldLemma, PTL

\* record_raw and promote_largest_group never leave two entries of which one
\* covers the other.
THEOREM EntriesStayIncomparable == TableSpec => []NoRedundantEntry
<1>1. TableInv => NoRedundantEntry
  BY DEF TableInv
<1>2. QED BY <1>1, TableInductive, PTL

\* The unwrapped pushes of promote_and_insert and promote_largest_group always
\* find room.
THEOREM CapacityIsRespected == TableSpec => []WithinCapacity
<1>1. TableInv => WithinCapacity
  BY DEF TableInv
<1>2. QED BY <1>1, TableInductive, PTL

-----------------------------------------------------------------------------

\* A subscription has one id, and is in one place.
Ids ==
    /\ \A s \in subs : s.id < next_id
    /\ \A c \in ctxs : c.sub.id < next_id
    /\ \A s, t \in subs : s.id = t.id => s = t
    /\ \A c, d \in ctxs : c.sub.id = d.sub.id => c = d
    /\ \A s \in subs, c \in ctxs : s.id # c.sub.id

Finite == IsFiniteSet(subs) /\ IsFiniteSet(ctxs)

PlacesInv == SubsTypeOK /\ Finite /\ Ids /\ CountMatches /\ SlotBelongsToReport

\* What a view misses of an attribute happened after the watermark.
Behind(view, p, seen) == view[p] < last_change[p] => last_change[p] > seen

\* A resting subscription has nothing to catch up with that is older than its
\* watermark, and the table still knows of all that is newer.
SubInv(s) ==
    /\ s.max_seen < next_change_id
    /\ s.hist.raced \/ /\ forgotten <= s.max_seen
                       /\ \A p \in Interest[s.session] : Behind(s.hist.view, p, s.max_seen)

\* The same of a report: for what it has dealt with, the watermark it will
\* commit; for the rest the one it started from, unless it reports everything.
CtxInv(c) ==
    /\ c.next_seen < next_change_id /\ c.sub.max_seen < next_change_id
    /\ c.sub.hist.raced \/
         /\ forgotten <= c.next_seen
         /\ \A p \in Interest[c.sub.session] \ c.todo : Behind(c.sub.hist.view, p, c.next_seen)
         /\ c.sub.reported_at = Never \/
              /\ forgotten <= c.sub.max_seen
              /\ \A p \in c.todo : Behind(c.sub.hist.view, p, c.sub.max_seen)

WatermarksInv == (\A s \in subs : SubInv(s)) /\ (\A c \in ctxs : CtxInv(c))

SubsInv == TableInv /\ PlacesInv /\ WatermarksInv

-------------------------------------------------------------------------------
\* Marking a subscription as condemned or raced changes nothing else.
Marked(c, d) ==
    /\ d \in Ctx
    /\ d.priming = c.priming /\ d.todo = c.todo /\ d.next_seen = c.next_seen
    /\ d.sub.id = c.sub.id /\ d.sub.session = c.sub.session
    /\ d.sub.reported_at = c.sub.reported_at /\ d.sub.max_seen = c.sub.max_seen
    /\ d.sub.hist.view = c.sub.hist.view

\* remove marks what is being reported on.
LEMMA CondemnedLemma ==
  ASSUME NEW c \in Ctx
  PROVE  LET d == [c EXCEPT !.sub.hist.condemned = TRUE]
         IN  Marked(c, d) /\ d.sub.hist.raced = c.sub.hist.raced
  BY Zenon DEF Marked, Ctx, Sub, History

\* purge_reported_changes marks what is being primed.
LEMMA RacedLemma ==
  ASSUME NEW c \in Ctx
  PROVE  LET d == [c EXCEPT !.sub.hist.raced = TRUE]
         IN  Marked(c, d) /\ d.sub.hist.raced
  BY Zenon DEF Marked, Ctx, Sub, History

\* What the report of an attribute tells, and what it leaves of its context.
ToldOf(c, p) == IF should_report_attr(c, p) THEN last_change[p] ELSE c.sub.hist.view[p]
ToldCtx(c, p, v) == [c EXCEPT !.todo = @ \ {p}, !.sub.hist.view[p] = v]

ToldOnly(c, p, v) ==
    /\ ToldCtx(c, p, v) \in Ctx
    /\ ToldCtx(c, p, v).priming = c.priming
    /\ ToldCtx(c, p, v).todo = c.todo \ {p}
    /\ ToldCtx(c, p, v).next_seen = c.next_seen
    /\ ToldCtx(c, p, v).sub.id = c.sub.id
    /\ ToldCtx(c, p, v).sub.session = c.sub.session
    /\ ToldCtx(c, p, v).sub.reported_at = c.sub.reported_at
    /\ ToldCtx(c, p, v).sub.max_seen = c.sub.max_seen
    /\ ToldCtx(c, p, v).sub.hist.view = [c.sub.hist.view EXCEPT ![p] = v]
    /\ ToldCtx(c, p, v).sub.hist.raced = c.sub.hist.raced

\* report_attribute changes what is to do and what the subscriber was told.
LEMMA ToldAttribute ==
  ASSUME NEW c \in Ctx, NEW p \in AttrPath, NEW v \in Nat
  PROVE  ToldOnly(c, p, v)
  BY Zenon DEF ToldOnly, ToldCtx, Ctx, Sub, History

\* report_complete commits the watermarks.
LEMMA CompletedLemma ==
  ASSUME NEW c \in Ctx
  PROVE  LET s == Completed(c, c.next_seen)
         IN  /\ s \in Sub /\ s.id = c.sub.id /\ s.session = c.sub.session
             /\ s.max_seen = c.next_seen /\ s.hist = c.sub.hist
  BY Zenon DEF Completed, Ctx, Sub

-------------------------------------------------------------------------------
\* Contexts that keep their ids under a change of all are as many as before.
LEMMA MappedContexts ==
  ASSUME PlacesInv, NEW f \in [ctxs -> Ctx],
         \A c \in ctxs : f[c].sub.id = c.sub.id
  PROVE  LET T == {f[c] : c \in ctxs}
         IN  /\ T \subseteq Ctx /\ IsFiniteSet(T) /\ Cardinality(T) = Cardinality(ctxs)
             /\ \A c, d \in T : c.sub.id = d.sub.id => c = d
             /\ \A d \in T : \E c \in ctxs : d = f[c]
             /\ \A d \in T : d.sub.id < next_id /\ \A s \in subs : s.id # d.sub.id
  <1> DEFINE T == {f[c] : c \in ctxs}
  <1>1. f \in Surjection(ctxs, T)
    BY DEF Surjection
  <1>2. f \in Injection(ctxs, T)
    BY <1>1 DEF Surjection, Injection, IsInjective, PlacesInv, Ids
  <1>3. IsFiniteSet(ctxs)
    BY DEF PlacesInv, Finite
  <1>4. IsFiniteSet(T) /\ Cardinality(T) = Cardinality(ctxs)
    <2> HIDE DEF T
    <2> QED BY <1>1, <1>2, <1>3, FS_Surjection
  <1>5. \A d \in T : \E c \in ctxs : d = f[c]
    OBVIOUS
  <1>6. \A c, d \in T : c.sub.id = d.sub.id => c = d
    BY DEF PlacesInv, Ids
  <1>7. \A d \in T : d.sub.id < next_id /\ \A s \in subs : s.id # d.sub.id
    BY DEF PlacesInv, Ids
  <1> QED BY <1>4, <1>5, <1>6, <1>7

\* What remove leaves: T is what becomes of the contexts.
Removed(matched, added, T) ==
    /\ subs' = subs \ matched /\ ctxs' = T \cup added
    /\ count' = (Cardinality(subs') + Cardinality(ctxs)) + Cardinality(added)
    /\ count - Cardinality(subs \cap matched) = Cardinality(subs') + Cardinality(ctxs)
    /\ IsFiniteSet(subs') /\ Cardinality(subs') \in Nat /\ Cardinality(subs') <= Cardinality(subs)
    /\ IsFiniteSet(T) /\ Cardinality(T) = Cardinality(ctxs)
    /\ \A c, d \in T : c.sub.id = d.sub.id => c = d
    /\ \A d \in T : d.sub.id < next_id /\ \A s \in subs : s.id # d.sub.id
    /\ \A d \in T : \E c \in ctxs : Marked(c, d) /\ d.sub.hist.raced = c.sub.hist.raced
    /\ \A c \in ctxs : \E d \in T : d.sub.id = c.sub.id /\ d.priming = c.priming
    /\ cancelled' \in BOOLEAN /\ (cancelled' => cancelled \/ reporting # NoSub)

\* What remove leaves of the table and of the contexts (Subscriptions::remove).
LEMMA RemoveLemma ==
  ASSUME PlacesInv, NEW matched, matched \subseteq Present, NEW added, remove(matched, added)
  PROVE  \E T \in SUBSET Ctx : Removed(matched, added, T)
  <1> DEFINE gone == subs \cap matched
             hit == ~cancelled /\ reporting \in matched
             mark(c) == hit /\ c.sub.id = reporting.id
             f == [c \in ctxs |-> IF mark(c) THEN [c EXCEPT !.sub.hist.condemned = TRUE] ELSE c]
             T == {f[c] : c \in ctxs}
  <1>1. /\ subs' = subs \ gone
        /\ count' = (count - Cardinality(gone)) + Cardinality(added)
        /\ cancelled' = (cancelled \/ hit)
        /\ ctxs' = {IF mark(c) THEN [c EXCEPT !.sub.hist.condemned = TRUE] ELSE c : c \in ctxs}
                   \cup added
    BY DEF remove
  <1>2. ctxs' = T \cup added
    BY <1>1
  <1>3. ctxs \subseteq Ctx /\ Finite /\ count = Cardinality(subs) + Cardinality(ctxs)
    BY DEF PlacesInv, SubsTypeOK, CountMatches
  <1> HIDE DEF mark
  <1>4. \A c \in ctxs : Marked(c, f[c]) /\ f[c].sub.hist.raced = c.sub.hist.raced
    <2> SUFFICES ASSUME NEW c \in ctxs
                 PROVE  Marked(c, f[c]) /\ f[c].sub.hist.raced = c.sub.hist.raced
      BY Zenon
    <2>1. CASE mark(c)
      BY <1>3, <2>1, CondemnedLemma, Zenon
    <2>2. CASE ~mark(c)
      BY <1>3, <2>2 DEF Marked
    <2> QED BY <2>1, <2>2
  <1>5. f \in [ctxs -> Ctx] /\ \A c \in ctxs : f[c].sub.id = c.sub.id /\ f[c].priming = c.priming
    BY <1>4 DEF Marked
  <1> HIDE DEF f
  <1>6. /\ T \subseteq Ctx /\ IsFiniteSet(T) /\ Cardinality(T) = Cardinality(ctxs)
        /\ \A c, d \in T : c.sub.id = d.sub.id => c = d
        /\ \A d \in T : \E c \in ctxs : d = f[c]
        /\ \A d \in T : d.sub.id < next_id /\ \A s \in subs : s.id # d.sub.id
    BY <1>5, MappedContexts, Zenon
  <1>7. /\ IsFiniteSet(subs') /\ Cardinality(subs') = Cardinality(subs) - Cardinality(gone)
        /\ Cardinality(subs') \in Nat /\ Cardinality(gone) \in Nat
        /\ Cardinality(subs) \in Nat /\ Cardinality(ctxs) \in Nat
    <2>1. /\ IsFiniteSet(subs) /\ IsFiniteSet(ctxs) /\ IsFiniteSet(gone)
      BY <1>3, FS_Subset DEF Finite
    <2>2. IsFiniteSet(subs') /\ Cardinality(subs') = Cardinality(subs) - Cardinality(gone)
      <3>1. subs' = subs \ matched /\ gone = subs \cap matched
        BY <1>1
      <3> QED BY <2>1, <3>1, FS_Difference, Zenon
    <2> QED BY <2>1, <2>2, FS_CardinalityType
  <1>8. \A c \in ctxs : \E d \in T : d.sub.id = c.sub.id /\ d.priming = c.priming
    BY <1>5
  <1>9. \A d \in T : \E c \in ctxs : Marked(c, d) /\ d.sub.hist.raced = c.sub.hist.raced
    BY <1>4
  <1>10. cancelled' \in BOOLEAN /\ (cancelled' => cancelled \/ reporting # NoSub)
    BY <1>1 DEF PlacesInv, SubsTypeOK, Present
  <1>11. subs' = subs \ matched
    BY <1>1
  <1>12. /\ count' = (Cardinality(subs') + Cardinality(ctxs)) + Cardinality(added)
         /\ count - Cardinality(subs \cap matched) = Cardinality(subs') + Cardinality(ctxs)
         /\ Cardinality(subs') <= Cardinality(subs)
    <2>1. count - Cardinality(gone) = Cardinality(subs') + Cardinality(ctxs)
      BY <1>3, <1>7
    <2>2. Cardinality(subs') <= Cardinality(subs)
      BY <1>7
    <2> QED BY <1>1, <2>1, <2>2
  <1> HIDE DEF T
  <1> QED BY <1>2, <1>6, <1>7, <1>8, <1>9, <1>10, <1>11, <1>12 DEF Removed

\* While the table of changes does not move, watermarks stay true.
LEMMA TableSame ==
  ASSUME UNCHANGED tableVars
  PROVE  /\ \A s : SubInv(s) => SubInv(s)'
         /\ \A c : CtxInv(c) => CtxInv(c)'
  BY DEF tableVars, SubInv, CtxInv, Behind

\* A mark changes no watermark.
LEMMA MarkedInv ==
  ASSUME NEW c, NEW d, CtxInv(c), Marked(c, d), d.sub.hist.raced = c.sub.hist.raced
  PROVE  CtxInv(d)
  BY DEF CtxInv, Marked

-------------------------------------------------------------------------------
\* What holds of the variables that a step of the subscriptions leaves alone.
Rest ==
    /\ UNCHANGED tableVars
    /\ reporter' \in [at : {"waiting", "cycle"}, now : Nat, watermark : Nat]
    /\ UNCHANGED envVars

\* remove alone: subscribe_full and wake.
LEMMA RemovedKeeps ==
  ASSUME SubsInv, Rest, NEW matched, matched \subseteq Present, remove(matched, {}),
         UNCHANGED <<next_id, reporting>>
  PROVE  PlacesInv' /\ WatermarksInv'
  <1>0. PlacesInv /\ WatermarksInv /\ TableInv
    BY DEF SubsInv
  <1>1. PICK T \in SUBSET Ctx : Removed(matched, {}, T)
    BY <1>0, RemoveLemma, Zenon
  <1> USE DEF Removed
  <1>2. ctxs' = T /\ Cardinality({}) = 0
    BY <1>1, FS_EmptySet
  <1>3. /\ Cardinality(ctxs) \in Nat /\ Cardinality(subs) \in Nat
        /\ count = Cardinality(subs) + Cardinality(ctxs) /\ count <= N
    BY <1>0, FS_CardinalityType DEF PlacesInv, Finite, CountMatches
  <1>4. count' = Cardinality(subs') + Cardinality(ctxs') /\ count' <= N /\ count' \in Nat
    BY <1>1, <1>2, <1>3, SubsAssumption
  <1>5. SubsTypeOK'
    BY <1>0, <1>1, <1>2, <1>4 DEF PlacesInv, SubsTypeOK, Rest, envVars, tableVars, TableTypeOK
  <1>6. Finite' /\ CountMatches'
    BY <1>1, <1>2, <1>4 DEF Finite, CountMatches
  <1>7. Ids'
    BY <1>0, <1>1, <1>2 DEF PlacesInv, Ids
  <1>8. SlotBelongsToReport'
    BY <1>0, <1>1, <1>2 DEF PlacesInv, SlotBelongsToReport
  <1>9. WatermarksInv'
    <2>1. \A d \in T : CtxInv(d)
      BY <1>0, <1>1, MarkedInv DEF WatermarksInv
    <2> QED BY <1>0, <1>1, <1>2, <2>1, TableSame DEF WatermarksInv, Rest
  <1> QED BY <1>5, <1>6, <1>7, <1>8, <1>9 DEF PlacesInv

\* A new subscription finds room and gets an id of its own (subscribe, add).
LEMMA SubscribeKeeps ==
  ASSUME SubsInv, NEW s \in Sessions, NEW keep_subs \in BOOLEAN, subscribe(s, keep_subs)
  PROVE  PlacesInv' /\ WatermarksInv'
  <1> DEFINE matched == Replaced(s, keep_subs)
             born == FreshCtx(s)
  <1>0. PlacesInv /\ WatermarksInv /\ TableInv
    BY DEF SubsInv
  <1>1. /\ count - Cardinality(subs \cap matched) < N
        /\ remove(matched, {born})
        /\ next_id' = next_id + 1
        /\ UNCHANGED <<tableVars, reporting, reporter, envVars>>
    BY DEF subscribe
  <1>2. matched \subseteq Present
    BY DEF Replaced
  <1>3. /\ watermark \in Nat /\ forgotten <= watermark /\ watermark < next_change_id
        /\ next_change_id \in Nat /\ next_change_id > 0 /\ forgotten \in Nat
    BY <1>0 DEF TableInv, TableTypeOK, watermark
  <1>4. born \in Ctx /\ born.sub.id = next_id /\ CtxInv(born)
    <2>1. /\ Interest[s] \in SUBSET AttrPath /\ next_id \in Nat /\ events \in Nat /\ clock \in Nat
      BY <1>0, SubsAssumption DEF PlacesInv, SubsTypeOK
    <2>2. [p \in AttrPath |-> 0] \in [AttrPath -> Nat]
      OBVIOUS
    <2>3. born \in Ctx
      BY <1>3, <2>1, <2>2 DEF FreshCtx, Ctx, Sub, History
    <2>4. /\ born.sub.id = next_id /\ born.next_seen = watermark /\ born.sub.max_seen = watermark
          /\ born.sub.session = s /\ born.todo = Interest[s] /\ born.sub.reported_at = Never
      BY DEF FreshCtx
    <2> HIDE DEF born
    <2> QED BY <1>3, <2>3, <2>4 DEF CtxInv
  <1> HIDE DEF matched, born
  <1>5. PICK T \in SUBSET Ctx : Removed(matched, {born}, T)
    BY <1>0, <1>1, <1>2, RemoveLemma, Zenon
  <1> USE DEF Removed
  <1>6. next_id \in Nat /\ subs \subseteq Sub /\ Cardinality(ctxs) \in Nat
    BY <1>0, FS_CardinalityType DEF PlacesInv, SubsTypeOK, Finite
  <1>7. born \notin T
    <2>1. SUFFICES ASSUME born \in T PROVE FALSE
      OBVIOUS
    <2>2. born.sub.id < next_id
      BY <1>5, <2>1
    <2> QED BY <1>4, <1>6, <2>2
  <1>8. /\ IsFiniteSet(ctxs') /\ Cardinality(ctxs') = Cardinality(ctxs) + 1
        /\ Cardinality({born}) = 1
    <2>1. ctxs' = T \cup {born} /\ IsFiniteSet(T) /\ Cardinality(T) = Cardinality(ctxs)
      BY <1>5
    <2>2. Cardinality({born}) = 1
      BY FS_Singleton
    <2> QED BY <1>7, <2>1, <2>2, FS_AddElement
  <1>9. count' = Cardinality(subs') + Cardinality(ctxs') /\ count' <= N /\ count' \in Nat
    <2>1. /\ count' = (Cardinality(subs') + Cardinality(ctxs)) + Cardinality({born})
          /\ count - Cardinality(subs \cap matched) = Cardinality(subs') + Cardinality(ctxs)
          /\ Cardinality(subs') \in Nat
      BY <1>5
    <2>2. Cardinality(subs') + Cardinality(ctxs) < N
      BY <1>1, <2>1
    <2> HIDE DEF matched, born
    <2> QED BY <1>6, <1>8, <2>1, <2>2, SubsAssumption
  <1>10. SubsTypeOK'
    <2>1. TableTypeOK'
      BY <1>0, <1>1 DEF TableInv, TableTypeOK, tableVars
    <2>2. subs' \in SUBSET Sub /\ ctxs' \in SUBSET Ctx
      BY <1>4, <1>5, <1>6
    <2> QED
      BY <1>0, <1>1, <1>5, <1>6, <1>9, <2>1, <2>2, SMTT(30) DEF PlacesInv, SubsTypeOK, envVars
  <1>11. Finite' /\ CountMatches'
    BY <1>5, <1>8, <1>9 DEF Finite, CountMatches
  <1>12. Ids'
    <2>1. \A x \in subs : x.id \in Nat /\ x.id < next_id
      BY <1>0, <1>6 DEF PlacesInv, Ids, Sub
    <2>2. \A d \in T : d.sub.id \in Nat /\ d.sub.id < next_id
      BY <1>5 DEF Ctx, Sub
    <2>3. \A d \in ctxs' : d = born \/ d \in T
      BY <1>5
    <2>4. \A x \in subs' : x \in subs
      BY <1>5
    <2>5. (\A x \in subs' : x.id < next_id') /\ (\A d \in ctxs' : d.sub.id < next_id')
      BY <1>1, <1>4, <1>6, <2>1, <2>2, <2>3, <2>4
    <2>6. \A x, t \in subs' : x.id = t.id => x = t
      BY <1>0, <2>4 DEF PlacesInv, Ids
    <2>7. \A c, d \in ctxs' : c.sub.id = d.sub.id => c = d
      BY <1>4, <1>5, <1>6, <2>2, <2>3
    <2>8. \A x \in subs', d \in ctxs' : x.id # d.sub.id
      BY <1>4, <1>5, <1>6, <2>1, <2>3, <2>4
    <2> QED BY <2>5, <2>6, <2>7, <2>8 DEF Ids
  <1>13. SlotBelongsToReport'
    BY <1>0, <1>1, <1>5, SMTT(30) DEF PlacesInv, SlotBelongsToReport
  <1>14. WatermarksInv'
    <2>1. \A d \in T : CtxInv(d)
      BY <1>0, <1>5, MarkedInv DEF WatermarksInv
    <2> QED BY <1>0, <1>1, <1>4, <1>5, <2>1, TableSame DEF WatermarksInv
  <1> QED BY <1>10, <1>11, <1>12, <1>13, <1>14 DEF PlacesInv

-------------------------------------------------------------------------------
\* Contexts change in place: the attributes of a report, the marks of a purge.
LEMMA MappedKeeps ==
  ASSUME PlacesInv, NEW f \in [ctxs -> Ctx],
         \A c \in ctxs : f[c].sub.id = c.sub.id /\ f[c].priming = c.priming,
         ctxs' = {f[c] : c \in ctxs},
         TableTypeOK', reporter' \in [at : {"waiting", "cycle"}, now : Nat, watermark : Nat],
         UNCHANGED <<subs, count, next_id, reporting, cancelled, envVars>>
  PROVE  PlacesInv'
  <1> DEFINE T == {f[c] : c \in ctxs}
  <1>1. /\ T \subseteq Ctx /\ IsFiniteSet(T) /\ Cardinality(T) = Cardinality(ctxs)
        /\ \A c, d \in T : c.sub.id = d.sub.id => c = d
        /\ \A d \in T : \E c \in ctxs : d = f[c]
        /\ \A d \in T : d.sub.id < next_id /\ \A s \in subs : s.id # d.sub.id
    BY MappedContexts, Zenon
  <1>2. \A c \in ctxs : \E d \in T : d.sub.id = c.sub.id /\ d.priming = c.priming
    OBVIOUS
  <1>3. ctxs' = T
    OBVIOUS
  <1> HIDE DEF T
  <1>4. SubsTypeOK'
    BY <1>1, <1>3 DEF PlacesInv, SubsTypeOK, envVars
  <1>5. Finite' /\ CountMatches'
    BY <1>1, <1>3, Zenon DEF PlacesInv, Finite, CountMatches
  <1>6. Ids'
    BY <1>1, <1>3 DEF PlacesInv, Ids
  <1>7. SlotBelongsToReport'
    BY <1>2, <1>3 DEF PlacesInv, SlotBelongsToReport
  <1> QED BY <1>4, <1>5, <1>6, <1>7 DEF PlacesInv

\* What the table of changes does not report after a watermark that it reaches
\* back to has not changed since (StillTold).
LEMMA NotToldNotChanged ==
  ASSUME TableInv, NEW p \in AttrPath, NEW since \in Nat, forgotten <= since,
         ~contains_since(p, since)
  PROVE  ~(last_change[p] > since)
  <1> SUFFICES ASSUME last_change[p] > since PROVE FALSE
    OBVIOUS
  <1>1. last_change[p] \in Nat /\ forgotten \in Nat /\ last_change[p] > forgotten
    BY DEF TableInv, TableTypeOK
  <1>2. PICK e \in entries : matches(e, p) /\ e.change_id >= last_change[p]
    BY <1>1 DEF TableInv, StillTold, Tells
  <1>3. e.change_id \in Nat
    BY DEF TableInv, TableTypeOK, Entry
  <1> QED BY <1>1, <1>2, <1>3 DEF contains_since

\* A report that passes over an attribute need not tell it; one that reads it
\* tells its last change (report_attributes, should_report_attr).
LEMMA AttributeInv ==
  ASSUME TableInv, NEW c \in Ctx, CtxInv(c), NEW p \in c.todo
  PROVE  ToldOf(c, p) \in Nat /\ CtxInv(ToldCtx(c, p, ToldOf(c, p)))
  <1> DEFINE told == should_report_attr(c, p)
             v == ToldOf(c, p)
             view == c.sub.hist.view
             d == ToldCtx(c, p, v)
  <1>1. p \in AttrPath /\ view \in [AttrPath -> Nat] /\ c.todo \in SUBSET AttrPath
        /\ c.next_seen \in Nat /\ c.sub.max_seen \in Nat /\ c.sub.session \in Sessions
    BY DEF Ctx, Sub, History
  <1>2. last_change[p] \in Nat /\ v \in Nat /\ v = IF told THEN last_change[p] ELSE view[p]
    BY <1>1 DEF TableInv, TableTypeOK, ToldOf
  <1>3. /\ d.todo = c.todo \ {p} /\ d.next_seen = c.next_seen
        /\ d.sub.session = c.sub.session
        /\ d.sub.reported_at = c.sub.reported_at /\ d.sub.max_seen = c.sub.max_seen
        /\ d.sub.hist.view = [view EXCEPT ![p] = v]
        /\ d.sub.hist.raced = c.sub.hist.raced
    <2>1. v \in Nat /\ p \in AttrPath
      BY <1>1, <1>2
    <2> HIDE DEF v
    <2>2. /\ ToldCtx(c, p, v).todo = c.todo \ {p}
          /\ ToldCtx(c, p, v).next_seen = c.next_seen
          /\ ToldCtx(c, p, v).sub.session = c.sub.session
          /\ ToldCtx(c, p, v).sub.reported_at = c.sub.reported_at
          /\ ToldCtx(c, p, v).sub.max_seen = c.sub.max_seen
          /\ ToldCtx(c, p, v).sub.hist.view = [c.sub.hist.view EXCEPT ![p] = v]
          /\ ToldCtx(c, p, v).sub.hist.raced = c.sub.hist.raced
      <3>1. ToldOnly(c, p, v)
        BY <2>1, ToldAttribute, Zenon
      <3> QED BY <3>1 DEF ToldOnly
    <2> QED BY <2>2, Zenon
  <1> HIDE DEF d, v
  <1> SUFFICES CtxInv(d)
    BY <1>2 DEF d, v
  <1>4. CASE c.sub.hist.raced
    BY <1>3, <1>4 DEF CtxInv
  <1>5. CASE ~c.sub.hist.raced
    <2>1. ~(v < last_change[p])
      <3>1. CASE told
        BY <1>2, <3>1
      <3>2. CASE ~told
        <4>1. c.sub.reported_at # Never /\ ~contains_since(p, c.sub.max_seen)
          BY <3>2 DEF should_report_attr
        <4>2. forgotten <= c.sub.max_seen /\ Behind(view, p, c.sub.max_seen)
          BY <1>5, <4>1 DEF CtxInv
        <4>3. ~(last_change[p] > c.sub.max_seen)
          BY <1>1, <4>1, <4>2, NotToldNotChanged
        <4> QED BY <1>2, <3>2, <4>2, <4>3 DEF Behind
      <3> QED BY <3>1, <3>2
    <2>2. /\ [view EXCEPT ![p] = v][p] = v
          /\ \A q \in AttrPath \ {p} : [view EXCEPT ![p] = v][q] = view[q]
      BY <1>1
    <2> HIDE DEF view
    <2>3. \A q \in Interest[d.sub.session] \ d.todo : Behind(d.sub.hist.view, q, d.next_seen)
      <3> SUFFICES ASSUME NEW q \in Interest[d.sub.session] \ d.todo
                   PROVE  Behind(d.sub.hist.view, q, d.next_seen)
        OBVIOUS
      <3>1. CASE q = p
        BY <1>3, <2>1, <2>2, <3>1 DEF Behind
      <3>2. CASE q # p
        <4>1. q \in Interest[c.sub.session] \ c.todo /\ q \in AttrPath
          BY <1>1, <1>3, <3>2, SubsAssumption
        <4>2. Behind(view, q, c.next_seen)
          BY <1>5, <4>1 DEF CtxInv, view
        <4> QED BY <1>3, <2>2, <3>2, <4>1, <4>2 DEF Behind
      <3> QED BY <3>1, <3>2
    <2>4. c.sub.reported_at = Never \/
            \A q \in d.todo : Behind(d.sub.hist.view, q, d.sub.max_seen)
      <3> SUFFICES ASSUME c.sub.reported_at # Never, NEW q \in d.todo
                   PROVE  Behind(d.sub.hist.view, q, d.sub.max_seen)
        OBVIOUS
      <3>1. q \in c.todo /\ q # p /\ q \in AttrPath
        BY <1>1, <1>3
      <3>2. Behind(view, q, c.sub.max_seen)
        BY <1>5, <3>1 DEF CtxInv, view
      <3> QED BY <1>3, <2>2, <3>1, <3>2 DEF Behind
    <2> QED BY <1>3, <1>5, <2>3, <2>4, Zenon DEF CtxInv
  <1> QED BY <1>4, <1>5

\* One attribute of a report.
LEMMA AttributeKeeps ==
  ASSUME SubsInv, NEW c \in ctxs, NEW p \in c.todo, report_attribute(c, p)
  PROVE  PlacesInv' /\ WatermarksInv'
  <1> DEFINE d == ToldCtx(c, p, ToldOf(c, p))
             f == [x \in ctxs |-> IF x = c THEN d ELSE x]
  <1>0. PlacesInv /\ WatermarksInv /\ TableInv
    BY DEF SubsInv
  <1>1. /\ ctxs' = (ctxs \ {c}) \cup {d}
        /\ UNCHANGED <<tableVars, subs, count, next_id, reporting, cancelled, reporter, envVars>>
    BY DEF report_attribute, ToldCtx, ToldOf
  <1>2. ctxs \subseteq Ctx /\ c \in Ctx /\ p \in AttrPath
    BY <1>0 DEF PlacesInv, SubsTypeOK, Ctx
  <1>3. ToldOf(c, p) \in Nat /\ CtxInv(d)
    BY <1>0, <1>2, AttributeInv DEF WatermarksInv
  <1>4. d \in Ctx /\ d.sub.id = c.sub.id /\ d.priming = c.priming
    <2> DEFINE v == ToldOf(c, p)
    <2>1. v \in Nat
      BY <1>3
    <2> HIDE DEF v
    <2>2. /\ ToldCtx(c, p, v) \in Ctx /\ ToldCtx(c, p, v).priming = c.priming
          /\ ToldCtx(c, p, v).sub.id = c.sub.id
      <3>1. ToldOnly(c, p, v)
        BY <1>2, <2>1, ToldAttribute, Zenon
      <3> QED BY <3>1 DEF ToldOnly
    <2> QED BY <2>2 DEF v
  <1> HIDE DEF d
  <1>5. f \in [ctxs -> Ctx] /\ \A x \in ctxs : f[x].sub.id = x.sub.id /\ f[x].priming = x.priming
    BY <1>2, <1>4
  <1>6. ctxs' = {f[x] : x \in ctxs}
    BY <1>1
  <1>7. /\ TableTypeOK' /\ reporter' \in [at : {"waiting", "cycle"}, now : Nat, watermark : Nat]
        /\ UNCHANGED <<subs, count, next_id, reporting, cancelled, envVars>>
    BY <1>0, <1>1 DEF PlacesInv, SubsTypeOK, TableTypeOK, tableVars
  <1>8. PlacesInv'
    <2> HIDE DEF f
    <2> QED BY <1>0, <1>5, <1>6, <1>7, MappedKeeps
  <1>9. WatermarksInv'
    BY <1>0, <1>1, <1>3, TableSame DEF WatermarksInv
  <1> QED BY <1>8, <1>9

\* The end of a report or of priming, with success or without.
LEMMA CompleteKeeps ==
  ASSUME SubsInv, NEW c \in ctxs, NEW keep \in BOOLEAN, keep => c.todo = {},
         report_complete(c, keep), UNCHANGED <<tableVars, next_id, reporter, envVars>>
  PROVE  PlacesInv' /\ WatermarksInv'
  <1> DEFINE stays == ~cancelled /\ keep
             s == Completed(c, c.next_seen)
  <1>0. PlacesInv /\ WatermarksInv /\ TableInv
    BY DEF SubsInv
  <1>1. /\ reporting' = NoSub /\ cancelled' = FALSE /\ ctxs' = ctxs \ {c}
        /\ subs' = IF stays THEN subs \cup {s} ELSE subs
        /\ count' = IF stays THEN count ELSE count - 1
    BY DEF report_complete
  <1>2. /\ c \in Ctx /\ subs \subseteq Sub /\ ctxs \subseteq Ctx /\ next_id \in Nat
        /\ IsFiniteSet(subs) /\ IsFiniteSet(ctxs)
        /\ count = Cardinality(subs) + Cardinality(ctxs) /\ count <= N
    BY <1>0 DEF PlacesInv, SubsTypeOK, Finite, CountMatches
  <1>3. /\ s \in Sub /\ s.id = c.sub.id /\ s.session = c.sub.session
        /\ s.max_seen = c.next_seen /\ s.hist = c.sub.hist
    BY <1>2, CompletedLemma
  <1> HIDE DEF s
  <1>4. s \notin subs
    BY <1>0, <1>3 DEF PlacesInv, Ids
  <1>5. /\ IsFiniteSet(ctxs') /\ Cardinality(ctxs') = Cardinality(ctxs) - 1
        /\ Cardinality(ctxs') \in Nat /\ Cardinality(subs) \in Nat /\ Cardinality(ctxs) \in Nat
    <2>1. IsFiniteSet(ctxs') /\ Cardinality(ctxs') = Cardinality(ctxs) - 1
      BY <1>1, <1>2, FS_RemoveElement
    <2> QED BY <1>2, <2>1, FS_CardinalityType
  <1>6. /\ IsFiniteSet(subs') /\ Cardinality(subs') \in Nat
        /\ Cardinality(subs') = Cardinality(subs) + (IF stays THEN 1 ELSE 0)
    <2>1. CASE stays
      <3>1. subs' = subs \cup {s}
        BY <1>1, <2>1
      <3>2. IsFiniteSet(subs') /\ Cardinality(subs') = Cardinality(subs) + 1
        BY <1>2, <1>4, <3>1, FS_AddElement
      <3> QED BY <1>5, <2>1, <3>2
    <2>2. CASE ~stays
      BY <1>1, <1>2, <1>5, <2>2
    <2> QED BY <2>1, <2>2
  <1>7. count' = Cardinality(subs') + Cardinality(ctxs') /\ count' <= N /\ count' \in Nat
    BY <1>1, <1>2, <1>5, <1>6, SubsAssumption
  <1>8. subs' \subseteq subs \cup {s}
    BY <1>1
  <1>9. SubsTypeOK'
    BY <1>0, <1>1, <1>2, <1>3, <1>7, <1>8, Zenon DEF PlacesInv, SubsTypeOK, TableTypeOK, tableVars, envVars
  <1>10. Finite' /\ CountMatches'
    BY <1>5, <1>6, <1>7 DEF Finite, CountMatches
  <1>11. Ids'
    BY <1>0, <1>1, <1>3, <1>8 DEF PlacesInv, Ids
  <1>12. SlotBelongsToReport'
    BY <1>1 DEF SlotBelongsToReport
  <1>13. WatermarksInv'
    <2>1. stays => SubInv(s)
      <3>1. CtxInv(c)
        BY <1>0 DEF WatermarksInv
      <3>2. stays => c.todo = {}
        OBVIOUS
      <3> QED BY <1>3, <3>1, <3>2 DEF CtxInv, SubInv
    <2>2. \A x \in subs' : SubInv(x)
      BY <1>0, <1>1, <2>1 DEF WatermarksInv
    <2> QED BY <1>0, <1>1, <2>2, TableSame DEF WatermarksInv
  <1> QED BY <1>9, <1>10, <1>11, <1>12, <1>13 DEF PlacesInv

\* A report begins: the slot is free, as the code asserts.
LEMMA ReportKeeps ==
  ASSUME SubsInv, NEW s \in subs, report(s)
  PROVE  PlacesInv' /\ WatermarksInv'
  <1> DEFINE c == [sub |-> s, priming |-> FALSE, todo |-> Interest[s.session],
                   next_seen |-> watermark, next_event |-> reporter.watermark,
                   next_at |-> reporter.now]
  <1>0. PlacesInv /\ WatermarksInv /\ TableInv
    BY DEF SubsInv
  <1>1. /\ \A x \in ctxs : x.priming
        /\ subs' = subs \ {s} /\ reporting' = s /\ ctxs' = ctxs \cup {c}
        /\ UNCHANGED <<tableVars, count, next_id, cancelled, reporter, envVars>>
    BY DEF report, Idle
  <1>2. /\ s \in Sub /\ subs \subseteq Sub /\ ctxs \subseteq Ctx
        /\ reporter \in [at : {"waiting", "cycle"}, now : Nat, watermark : Nat]
        /\ IsFiniteSet(subs) /\ IsFiniteSet(ctxs)
        /\ count = Cardinality(subs) + Cardinality(ctxs) /\ count <= N /\ count \in Nat
    BY <1>0 DEF PlacesInv, SubsTypeOK, Finite, CountMatches
  <1>3. /\ watermark \in Nat /\ forgotten <= watermark /\ watermark < next_change_id
    BY <1>0 DEF TableInv, TableTypeOK, watermark
  <1>4. c \in Ctx
    <2>1. Interest[s.session] \in SUBSET AttrPath
      BY <1>2, SubsAssumption DEF Sub
    <2> QED BY <1>2, <1>3, <2>1 DEF Ctx
  <1>5. /\ c.sub = s /\ ~c.priming /\ c.todo = Interest[s.session] /\ c.next_seen = watermark
    OBVIOUS
  <1> HIDE DEF c
  <1>6. c \notin ctxs
    BY <1>1, <1>5
  <1>7. /\ IsFiniteSet(subs') /\ Cardinality(subs') = Cardinality(subs) - 1
        /\ IsFiniteSet(ctxs') /\ Cardinality(ctxs') = Cardinality(ctxs) + 1
        /\ Cardinality(subs) \in Nat /\ Cardinality(ctxs) \in Nat
    <2>1. IsFiniteSet(subs') /\ Cardinality(subs') = Cardinality(subs) - 1
      BY <1>1, <1>2, FS_RemoveElement
    <2>2. IsFiniteSet(ctxs') /\ Cardinality(ctxs') = Cardinality(ctxs) + 1
      BY <1>1, <1>2, <1>6, FS_AddElement
    <2> QED BY <1>2, <2>1, <2>2, FS_CardinalityType
  <1>8. SubsTypeOK'
    BY <1>0, <1>1, <1>2, <1>4 DEF PlacesInv, SubsTypeOK, TableTypeOK, tableVars, envVars
  <1>9. Finite' /\ CountMatches'
    BY <1>1, <1>2, <1>7 DEF Finite, CountMatches
  <1>10. Ids'
    <2>1. Ids /\ (\A x \in subs' : x \in subs /\ x # s) /\ (\A d \in ctxs' : d = c \/ d \in ctxs) /\ next_id' = next_id
      BY <1>0, <1>1 DEF PlacesInv
    <2>2. (\A x \in subs' : x.id < next_id') /\ (\A d \in ctxs' : d.sub.id < next_id')
      BY <1>5, <2>1 DEF Ids
    <2>3. \A x, t \in subs' : x.id = t.id => x = t
      BY <2>1 DEF Ids
    <2>4. \A d, f \in ctxs' : d.sub.id = f.sub.id => d = f
      BY <1>5, <2>1 DEF Ids
    <2>5. \A x \in subs', d \in ctxs' : x.id # d.sub.id
      BY <1>5, <2>1 DEF Ids
    <2> QED BY <2>2, <2>3, <2>4, <2>5 DEF Ids
  <1>11. SlotBelongsToReport'
    <2>1. ~cancelled
      BY <1>0, <1>1 DEF PlacesInv, SlotBelongsToReport
    <2> QED BY <1>1, <1>5, <2>1 DEF SlotBelongsToReport
  <1>12. WatermarksInv'
    <2>1. SubInv(s)
      BY <1>0 DEF WatermarksInv
    <2>2. CtxInv(c)
      BY <1>3, <1>5, <2>1 DEF SubInv, CtxInv
    <2> QED BY <1>0, <1>1, <2>2, TableSame DEF WatermarksInv
  <1> QED BY <1>8, <1>9, <1>10, <1>11, <1>12 DEF PlacesInv

\* What a recorded change does to the ghosts: an attribute is as it was, or has
\* changed after every watermark (ChangedAttrs::record_raw).
LEMMA ChangeLemma ==
  ASSUME notify_changed
  PROVE  /\ next_change_id' = next_change_id + 1 /\ forgotten' = forgotten
         /\ \A p \in AttrPath : last_change'[p] \in {last_change[p], next_change_id}
  <1>1. ASSUME NEW e, NEW c, NEW a, record_raw(e, c, a)
        PROVE  /\ next_change_id' = next_change_id + 1 /\ forgotten' = forgotten
               /\ \A p \in AttrPath : last_change'[p] \in {last_change[p], next_change_id}
    BY <1>1 DEF record_raw
  <1>2. \E e, c, a : record_raw(e, c, a)
    BY DEF notify_changed, notify_attr_changed, notify_cluster_changed,
           notify_endpoint_changed, notify_all_changed
  <1> QED BY <1>1, <1>2

\* A change is news to every subscription and to every report under way.
LEMMA ChangeKeeps ==
  ASSUME SubsInv, TableInv', change
  PROVE  PlacesInv' /\ WatermarksInv'
  <1>0. PlacesInv /\ WatermarksInv /\ TableInv
    BY DEF SubsInv
  <1>1. notify_changed /\ UNCHANGED <<subsVars, envVars>>
    BY DEF change
  <1>2. /\ next_change_id' = next_change_id + 1 /\ forgotten' = forgotten
        /\ \A p \in AttrPath : last_change'[p] \in {last_change[p], next_change_id}
    BY <1>1, ChangeLemma
  <1>3. PlacesInv'
    BY <1>0, <1>1 DEF PlacesInv, SubsTypeOK, Finite, Ids, CountMatches, SlotBelongsToReport,
                      subsVars, envVars, TableInv
  <1>4. /\ subs \subseteq Sub /\ ctxs \subseteq Ctx
        /\ next_change_id \in Nat /\ next_change_id' \in Nat
    BY <1>0, <1>2 DEF PlacesInv, SubsTypeOK, TableTypeOK
  <1>5. ASSUME NEW view, NEW p \in AttrPath, NEW seen \in Nat, seen < next_change_id,
               Behind(view, p, seen)
        PROVE  Behind(view, p, seen)'
    BY <1>2, <1>4, <1>5 DEF Behind
  <1>6. ASSUME NEW s \in subs PROVE SubInv(s)'
    <2>1. SubInv(s) /\ s \in Sub /\ s.max_seen \in Nat /\ Interest[s.session] \subseteq AttrPath
      BY <1>0, <1>4, SubsAssumption DEF WatermarksInv, Sub
    <2>2. s.max_seen < next_change_id'
      BY <1>2, <1>4, <2>1 DEF SubInv
    <2> QED BY <1>2, <1>5, <2>1, <2>2 DEF SubInv
  <1>7. ASSUME NEW c \in ctxs PROVE CtxInv(c)'
    <2>1. /\ CtxInv(c) /\ c \in Ctx /\ c.next_seen \in Nat /\ c.sub.max_seen \in Nat
          /\ Interest[c.sub.session] \subseteq AttrPath /\ c.todo \subseteq AttrPath
      BY <1>0, <1>4, SubsAssumption DEF WatermarksInv, Ctx, Sub
    <2>2. c.next_seen < next_change_id' /\ c.sub.max_seen < next_change_id'
      <3>1. c.next_seen < next_change_id /\ c.sub.max_seen < next_change_id
        BY <2>1 DEF CtxInv
      <3>2. \A n \in Nat : n < next_change_id => n < next_change_id'
        BY <1>2, <1>4
      <3> QED BY <2>1, <3>1, <3>2
    <2>3. \A p \in Interest[c.sub.session] \ c.todo :
            Behind(c.sub.hist.view, p, c.next_seen) => Behind(c.sub.hist.view, p, c.next_seen)'
      BY <1>5, <2>1 DEF CtxInv
    <2>4. \A p \in c.todo :
            Behind(c.sub.hist.view, p, c.sub.max_seen) => Behind(c.sub.hist.view, p, c.sub.max_seen)'
      BY <1>5, <2>1 DEF CtxInv
    <2> QED BY <1>2, <2>1, <2>2, <2>3, <2>4, ZenonT(30) DEF CtxInv
  <1>8. WatermarksInv'
    BY <1>1, <1>6, <1>7 DEF WatermarksInv, subsVars
  <1> QED BY <1>3, <1>8

\* Events, time and lost sessions touch no subscription.
LEMMA EnvironmentKeeps ==
  ASSUME SubsInv, UNCHANGED <<tableVars, subsVars>>,
         valid' \in SUBSET Sessions, clock' \in Nat, events' \in Nat
  PROVE  PlacesInv' /\ WatermarksInv'
  <1>1. PlacesInv'
    BY Zenon DEF SubsInv, PlacesInv, SubsTypeOK, TableTypeOK, Finite, Ids, CountMatches,
           SlotBelongsToReport, subsVars, tableVars
  <1>2. WatermarksInv'
    BY TableSame DEF SubsInv, WatermarksInv, subsVars
  <1> QED BY <1>1, <1>2

\* A purge reaches no further than the oldest watermark in the table, and marks
\* the subscriptions that it does not look at (purge_reported_changes).
LEMMA PurgeKeeps ==
  ASSUME SubsInv, TableInv', purge_reported_changes
  PROVE  PlacesInv' /\ WatermarksInv'
  <1> DEFINE f == [c \in ctxs |-> [c EXCEPT !.sub.hist.raced = TRUE]]
  <1>0. PlacesInv /\ WatermarksInv /\ TableInv
    BY DEF SubsInv
  <1>1. /\ \/ subs = {} /\ clear
           \/ \E s \in subs : (\A t \in subs : s.max_seen <= t.max_seen) /\ purge_up_to(s.max_seen)
        /\ reporter' = [reporter EXCEPT !.at = "waiting"]
        /\ ctxs' = {f[c] : c \in ctxs}
        /\ UNCHANGED <<subs, count, next_id, reporting, cancelled, envVars>>
    BY DEF purge_reported_changes
  <1>2. /\ subs \subseteq Sub /\ ctxs \subseteq Ctx /\ forgotten \in Nat
        /\ reporter \in [at : {"waiting", "cycle"}, now : Nat, watermark : Nat]
    BY <1>0 DEF PlacesInv, SubsTypeOK, TableTypeOK
  <1>3. \A c \in ctxs : Marked(c, f[c]) /\ f[c].sub.hist.raced
    BY <1>2, RacedLemma, Zenon
  <1> HIDE DEF f
  <1>4. PlacesInv'
    <2>1. f \in [ctxs -> Ctx]
      BY <1>3, Zenon DEF f, Marked
    <2>2. \A c \in ctxs : f[c].sub.id = c.sub.id /\ f[c].priming = c.priming
      BY <1>3 DEF Marked
    <2>3. TableTypeOK' /\ reporter' \in [at : {"waiting", "cycle"}, now : Nat, watermark : Nat]
      BY <1>1, <1>2 DEF TableInv
    <2> QED BY <1>0, <1>1, <2>1, <2>2, <2>3, MappedKeeps
  <1>5. UNCHANGED <<next_change_id, last_change>>
    BY <1>1 DEF purge_up_to, clear
  <1>6. ASSUME NEW d \in ctxs' PROVE CtxInv(d)'
    <2>1. PICK c \in ctxs : d = f[c]
      BY <1>1
    <2>2. CtxInv(c) /\ Marked(c, d) /\ d.sub.hist.raced
      BY <1>0, <1>3, <2>1 DEF WatermarksInv
    <2> QED BY <1>5, <2>2 DEF CtxInv, Marked
  <1>7. ASSUME NEW t \in subs PROVE SubInv(t)'
    <2>1. PICK s \in subs : (\A u \in subs : s.max_seen <= u.max_seen) /\ purge_up_to(s.max_seen)
      BY <1>1
    <2>2. s.max_seen <= t.max_seen /\ forgotten' \in {s.max_seen, forgotten}
      BY <2>1 DEF purge_up_to
    <2>3. SubInv(t)
      BY <1>0 DEF WatermarksInv
    <2>4. \A p \in Interest[t.session] :
             Behind(t.hist.view, p, t.max_seen) => Behind(t.hist.view, p, t.max_seen)'
      BY <1>5 DEF Behind
    <2>5. forgotten <= t.max_seen => forgotten' <= t.max_seen
      BY <2>2
    <2> QED BY <1>5, <2>3, <2>4, <2>5 DEF SubInv
  <1>8. WatermarksInv'
    BY <1>1, <1>6, <1>7 DEF WatermarksInv
  <1> QED BY <1>4, <1>8

-------------------------------------------------------------------------------
\* The subscriptions use the table of changes as its own specification allows.
LEMMA TableStep == SubsInv /\ [Next]_vars => [TableNext]_tableVars
  <1> SUFFICES ASSUME SubsInv, [Next]_vars PROVE [TableNext]_tableVars
    OBVIOUS
  <1>1. CASE UNCHANGED vars
    BY <1>1 DEF vars
  <1>2. CASE change
    BY <1>2 DEF change, TableNext
  <1>3. CASE purge_reported_changes
    <2>1. CASE subs = {}
      BY <1>3, <2>1 DEF purge_reported_changes, TableNext
    <2>2. CASE subs # {}
      <3>1. PICK s \in subs : purge_up_to(s.max_seen)
        BY <1>3, <2>2 DEF purge_reported_changes
      <3>2. s \in Sub /\ SubInv(s) /\ next_change_id \in Nat
        BY DEF SubsInv, PlacesInv, SubsTypeOK, WatermarksInv, TableTypeOK
      <3>3. s.max_seen \in 0 .. watermark
        BY <3>2 DEF Sub, SubInv, watermark
      <3> QED BY <3>1, <3>3 DEF TableNext
    <2> QED BY <2>1, <2>2
  <1>4. CASE Next /\ ~change /\ ~purge_reported_changes
    <2>1. UNCHANGED tableVars
      BY <1>4, ZenonT(30) DEF Next, Reporter, Responders, Requests, Environment, wake, report,
        report_attribute, report_success, report_failure, subscribe, subscribe_full,
        emit_event, tick, session_removed
    <2> QED BY <2>1
  <1> QED BY <1>1, <1>2, <1>3, <1>4

\* Every step of the reporter, the responders, the requests and the environment
\* preserves the invariant.
LEMMA SubsNext == SubsInv /\ [Next]_vars => SubsInv'
  <1> SUFFICES ASSUME SubsInv, [Next]_vars PROVE SubsInv'
    OBVIOUS
  <1>0. TableInv'
    BY TableStep, TableNextLemma DEF SubsInv
  <1> SUFFICES PlacesInv' /\ WatermarksInv'
    BY <1>0 DEF SubsInv
  <1>t. SubsTypeOK
    BY DEF SubsInv, PlacesInv
  <1>1. CASE UNCHANGED vars
    <2>1. /\ UNCHANGED <<tableVars, subsVars>>
          /\ valid' \in SUBSET Sessions /\ clock' \in Nat /\ events' \in Nat
      BY <1>1, <1>t DEF vars, envVars, SubsTypeOK
    <2> QED BY <2>1, EnvironmentKeeps
  <1>2. CASE wake
    <2>1. Rest /\ remove(Invalid, {}) /\ UNCHANGED <<next_id, reporting>>
      BY <1>2, <1>t DEF wake, Rest, SubsTypeOK
    <2>2. Invalid \subseteq Present
      BY DEF Invalid
    <2> QED BY <2>1, <2>2, RemovedKeeps
  <1>3. ASSUME NEW s \in subs, report(s) PROVE PlacesInv' /\ WatermarksInv'
    BY <1>3, ReportKeeps
  <1>4. CASE purge_reported_changes
    BY <1>0, <1>4, PurgeKeeps
  <1>5. ASSUME NEW c \in ctxs, NEW p \in c.todo, report_attribute(c, p)
        PROVE  PlacesInv' /\ WatermarksInv'
    BY <1>5, AttributeKeeps
  <1>6. ASSUME NEW c \in ctxs, report_success(c) PROVE PlacesInv' /\ WatermarksInv'
    <2>1. /\ c.todo = {} /\ report_complete(c, TRUE)
          /\ UNCHANGED <<tableVars, next_id, reporter, envVars>>
      BY <1>6, Zenon DEF report_success
    <2> QED BY <2>1, CompleteKeeps, Zenon
  <1>7. ASSUME NEW c \in ctxs, report_failure(c) PROVE PlacesInv' /\ WatermarksInv'
    <2>1. report_complete(c, FALSE) /\ UNCHANGED <<tableVars, next_id, reporter, envVars>>
      BY <1>7, Zenon DEF report_failure
    <2> QED BY <2>1, CompleteKeeps, Zenon
  <1>8. ASSUME NEW s \in Sessions, NEW keep_subs \in BOOLEAN, subscribe(s, keep_subs)
        PROVE  PlacesInv' /\ WatermarksInv'
    BY <1>8, SubscribeKeeps
  <1>9. ASSUME NEW s \in Sessions, NEW keep_subs \in BOOLEAN, subscribe_full(s, keep_subs)
        PROVE  PlacesInv' /\ WatermarksInv'
    <2>1. Rest /\ remove(Replaced(s, keep_subs), {}) /\ UNCHANGED <<next_id, reporting>>
      BY <1>9, <1>t DEF subscribe_full, Rest, SubsTypeOK
    <2>2. Replaced(s, keep_subs) \subseteq Present
      BY DEF Replaced
    <2> QED BY <2>1, <2>2, RemovedKeeps
  <1>10. CASE change
    BY <1>0, <1>10, ChangeKeeps
  <1>11. CASE emit_event \/ tick \/ \E s \in Sessions : session_removed(s)
    <2>1. /\ UNCHANGED <<tableVars, subsVars>>
          /\ valid' \in SUBSET Sessions /\ clock' \in Nat /\ events' \in Nat
      BY <1>11, <1>t DEF emit_event, tick, session_removed, SubsTypeOK
    <2> QED BY <2>1, EnvironmentKeeps
  <1> QED BY <1>1, <1>2, <1>3, <1>4, <1>5, <1>6, <1>7, <1>8, <1>9, <1>10, <1>11
          DEF Next, Reporter, Responders, Requests, Environment

\* An empty table satisfies the invariant.
LEMMA SubsInit == Init => SubsInv
  <1> SUFFICES ASSUME Init PROVE SubsInv
    OBVIOUS
  <1>1. TableInv
    BY TableInitLemma DEF Init
  <1>2. Cardinality({}) = 0 /\ IsFiniteSet({})
    BY FS_EmptySet
  <1>3. SubsTypeOK
    <2>1. reporter \in [at : {"waiting", "cycle"}, now : Nat, watermark : Nat]
      BY DEF Init
    <2>2. /\ TableTypeOK /\ subs \in SUBSET Sub /\ ctxs \in SUBSET Ctx
          /\ count \in Nat /\ next_id \in Nat \ {0}
      BY <1>1 DEF Init, TableInv
    <2>3. reporting \in Sub \cup {NoSub} /\ cancelled \in BOOLEAN
      BY Zenon DEF Init
    <2>4. valid \in SUBSET Sessions /\ clock \in Nat /\ events \in Nat
      BY DEF Init
    <2> QED BY <2>1, <2>2, <2>3, <2>4 DEF SubsTypeOK
  <1>4. Finite /\ Ids /\ WatermarksInv
    BY <1>2 DEF Init, Finite, Ids, WatermarksInv
  <1>5. SlotBelongsToReport
    BY DEF Init, SlotBelongsToReport
  <1>6. CountMatches
    BY <1>2, SubsAssumption DEF Init, CountMatches
  <1> QED BY <1>1, <1>3, <1>4, <1>5, <1>6 DEF SubsInv, PlacesInv

\* What the watermarks mean for a subscriber.
LEMMA WatermarksSuffice == SubsInv => NoLostUpdate
  <1> SUFFICES ASSUME SubsInv PROVE NoLostUpdate
    OBVIOUS
  <1>0. /\ TableInv /\ subs \subseteq Sub /\ ctxs \subseteq Ctx
    BY DEF SubsInv, PlacesInv, SubsTypeOK
  <1>1. ASSUME NEW s, NEW p \in AttrPath, NEW seen \in Nat, forgotten <= seen,
               Behind(s.hist.view, p, seen)
        PROVE  Pending(s, p, seen)
    BY <1>0, <1>1, NotToldNotChanged DEF Behind, Pending
  <1>2. ASSUME NEW s \in subs, ~s.hist.raced, NEW p \in Interest[s.session]
        PROVE  Pending(s, p, s.max_seen)
    <2>1. SubInv(s) /\ s.max_seen \in Nat /\ p \in AttrPath
      BY <1>0, SubsAssumption DEF SubsInv, WatermarksInv, Sub
    <2> QED BY <1>1, <1>2, <2>1 DEF SubInv
  <1>3. ASSUME NEW c \in ctxs, ~c.sub.hist.raced, NEW p \in Interest[c.sub.session] \ c.todo
        PROVE  Pending(c.sub, p, c.next_seen)
    <2>1. CtxInv(c) /\ c.next_seen \in Nat /\ p \in AttrPath
      BY <1>0, SubsAssumption DEF SubsInv, WatermarksInv, Ctx, Sub
    <2> QED BY <1>1, <1>3, <2>1 DEF CtxInv
  <1> QED BY <1>2, <1>3 DEF NoLostUpdate

\* Every reachable state satisfies the invariant.
THEOREM SubscriptionsInvariant == Spec => []SubsInv
  <1> QED BY SubsInit, SubsNext, PTL DEF Spec

\* Priming, reporting, removal and purging keep the types of the table, of the
\* contexts and of the counters.
THEOREM SubscriptionsTypeCorrect == Spec => []SubsTypeOK
  <1>1. SubsInv => SubsTypeOK
    BY DEF SubsInv, PlacesInv
  <1> QED BY <1>1, SubscriptionsInvariant, PTL

\* subscriptions_count is the number of resting subscriptions and of contexts,
\* for every capacity: the push of report_complete always finds a place.
THEOREM CountIsExact == Spec => []CountMatches
  <1>1. SubsInv => CountMatches
    BY DEF SubsInv, PlacesInv
  <1> QED BY <1>1, SubscriptionsInvariant, PTL

\* The debug assertions of SubscriptionsInner::report hold: a new report finds
\* the slot and the cancel flag vacant.
THEOREM SlotsAreReleased == Spec => []SlotBelongsToReport
  <1>1. SubsInv => SlotBelongsToReport
    BY DEF SubsInv, PlacesInv
  <1> QED BY <1>1, SubscriptionsInvariant, PTL

\* Whatever interleaves with a report, a subscriber that misses a change finds
\* it in the table, unless it was primed while a purge ran.
THEOREM UpdatesStayPending == Spec => []NoLostUpdate
  <1> QED BY WatermarksSuffice, SubscriptionsInvariant, PTL

\* The table of changes inside the subscriptions behaves as the table on its
\* own: all that is proved of TableSpec holds of it.
THEOREM TableIsImplemented == Spec => TableSpec
  <1>1. Init => TableInit
    BY DEF Init
  <1> QED BY <1>1, TableStep, SubscriptionsInvariant, PTL DEF Spec, TableSpec
===============================================================================
