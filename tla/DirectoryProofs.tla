---------------------------- MODULE DirectoryProofs ----------------------------
(****************************************************************************)
(* Facts about reading the directory by pages and about the changes made    *)
(* to it.                                                                   *)
(****************************************************************************)
EXTENDS Directory, FiniteSetTheorems, TLAPS

\* A page is a set of ids, and its size and the size of the list are numbers.
LEMMA PageType ==
    ASSUME NEW all, NEW since, NEW start, NEW count
    PROVE  LET S == Matched(all, since) IN
           /\ S \subseteq Ids
           /\ IsFiniteSet(S)
           /\ Cardinality(S) \in Nat
           /\ PageOf(S, start, count) \subseteq S
           /\ Cardinality(PageOf(S, start, count)) \in Nat
<1> DEFINE S == Matched(all, since)
           P == PageOf(S, start, count)
<1>1. S \subseteq Ids BY DEF Matched
<1>2. IsFiniteSet(S) BY <1>1, IdsAssumption, FS_Subset
<1>3. P \subseteq S BY DEF PageOf
<1>4. IsFiniteSet(P) BY <1>2, <1>3, FS_Subset
<1> QED BY <1>1, <1>2, <1>3, <1>4, FS_CardinalityType

\* A list of records is a finite set of numbers.
LEMMA ListOfIds ==
    ASSUME NEW S \in SUBSET Ids
    PROVE  S \in SUBSET Nat /\ IsFiniteSet(S)
BY IdsAssumption, FS_Subset

\* The position of a record in a list is between 1 and the list's length.
LEMMA RankType ==
    ASSUME NEW S \in SUBSET Nat, IsFiniteSet(S), NEW d \in S
    PROVE  /\ Cardinality(S) \in Nat
           /\ Rank(d, S) \in 1 .. Cardinality(S)
<1> DEFINE B == {e \in S : e <= d}
<1>1. Cardinality(S) \in Nat BY FS_CardinalityType
<1>2. B \subseteq S /\ d \in B OBVIOUS
<1>3. IsFiniteSet(B) /\ Cardinality(B) <= Cardinality(S) BY <1>1, <1>2, FS_Subset
<1>4. Cardinality(B) \in Nat BY <1>3, FS_CardinalityType
<1>5. Cardinality(B) # 0 BY <1>2, <1>3, FS_EmptySet
<1> QED BY <1>1, <1>3, <1>4, <1>5 DEF Rank

\* A record never moves towards the front of a list that only grows.
LEMMA RankGrows ==
    ASSUME NEW S \in SUBSET Ids, NEW T \in SUBSET Ids, S \subseteq T, NEW d \in S
    PROVE  Rank(d, S) <= Rank(d, T)
<1> DEFINE B == {e \in S : e <= d}
           C == {e \in T : e <= d}
<1>1. B \subseteq C /\ C \subseteq Ids OBVIOUS
<1>2. IsFiniteSet(C) BY <1>1, IdsAssumption, FS_Subset
<1> QED BY <1>1, <1>2, FS_Subset DEF Rank

\* No two records share a position.
LEMMA RankStrict ==
    ASSUME NEW S \in SUBSET Nat, IsFiniteSet(S), NEW d \in S, NEW e \in S, d < e
    PROVE  Rank(d, S) < Rank(e, S)
<1> DEFINE B == {x \in S : x <= d}
           C == {x \in S : x <= e}
<1>1. B \subseteq C
  <2> SUFFICES ASSUME NEW x \in B PROVE x <= e OBVIOUS
  <2> QED OBVIOUS
<1>2. e \in C /\ e \notin B OBVIOUS
<1>3. IsFiniteSet(C) BY FS_Subset
<1>4. IsFiniteSet(B) /\ Cardinality(B) <= Cardinality(C) /\ Cardinality(B) # Cardinality(C)
  BY <1>1, <1>2, <1>3, FS_Subset
<1>5. Cardinality(B) \in Nat /\ Cardinality(C) \in Nat
  BY <1>3, <1>4, FS_CardinalityType
<1> QED BY <1>4, <1>5 DEF Rank

\* Every position of the list is taken.
LEMMA RankOnto ==
    ASSUME NEW S \in SUBSET Nat, IsFiniteSet(S), NEW k \in 1 .. Cardinality(S)
    PROVE  \E d \in S : Rank(d, S) = k
<1> DEFINE n == Cardinality(S)
           f == [d \in S |-> Rank(d, S)]
<1>1. n \in Nat BY FS_CardinalityType
<1>2. f \in [S -> 1 .. n] BY RankType
<1>3. \A d, e \in S : f[d] = f[e] => d = e
  <2> SUFFICES ASSUME NEW d \in S, NEW e \in S, d # e PROVE f[d] # f[e] OBVIOUS
  <2>1. d < e \/ e < d OBVIOUS
  <2>2. Rank(d, S) \in Nat /\ Rank(e, S) \in Nat BY <1>1, RankType
  <2> QED BY <2>1, <2>2, RankStrict
<1>4. IsFiniteSet(1 .. n) /\ Cardinality(1 .. n) = n
  BY <1>1, FS_Interval
<1>5. f \in Injection(S, 1 .. n)
  <2> HIDE DEF f
  <2> QED BY <1>2, <1>3 DEF Injection, IsInjective
<1>6. f \in Surjection(S, 1 .. n)
  <2>1. Cardinality(S) = Cardinality(1 .. n) BY <1>4
  <2> HIDE DEF f, n
  <2> QED BY <1>4, <1>5, <2>1, FS_Injection
<1> QED BY <1>6 DEF Surjection

\* A list that is not empty has a first record, and it is in position 1.
LEMMA FirstExists ==
    ASSUME NEW S \in SUBSET Nat, IsFiniteSet(S), S # {}
    PROVE  \E d \in S : Rank(d, S) = 1 /\ \A e \in S : d <= e
<1>1. Cardinality(S) \in Nat /\ Cardinality(S) # 0 BY FS_CardinalityType, FS_EmptySet
<1>2. PICK d \in S : Rank(d, S) = 1 BY <1>1, RankOnto
<1>3. ASSUME NEW e \in S, e < d PROVE FALSE
  <2>1. Rank(e, S) < Rank(d, S) /\ Rank(e, S) \in 1 .. Cardinality(S)
    BY <1>3, RankStrict, RankType
  <2> QED BY <1>1, <1>2, <2>1
<1> QED BY <1>2, <1>3

\* And a last one.
LEMMA LastExists ==
    ASSUME NEW S \in SUBSET Nat, IsFiniteSet(S), S # {}
    PROVE  \E d \in S : \A e \in S : d >= e
<1>1. Cardinality(S) \in Nat /\ Cardinality(S) # 0 BY FS_CardinalityType, FS_EmptySet
<1>2. PICK d \in S : Rank(d, S) = Cardinality(S) BY <1>1, RankOnto
<1>3. ASSUME NEW e \in S, d < e PROVE FALSE
  <2>1. Rank(d, S) < Rank(e, S) /\ Rank(e, S) \in 1 .. Cardinality(S)
    BY <1>3, RankStrict, RankType
  <2> QED BY <1>1, <1>2, <2>1
<1> QED BY <1>2, <1>3

\* A page holds no more records than were asked for.
LEMMA PageSmall ==
    ASSUME NEW S \in SUBSET Ids, NEW start \in Nat \ {0}, NEW count \in Nat
    PROVE  Cardinality(PageOf(S, start, count)) <= count
<1> DEFINE P == PageOf(S, start, count)
           I == start .. (start + count - 1)
           f == [e \in P |-> Rank(e, S)]
<1>0. S \in SUBSET Nat /\ IsFiniteSet(S) BY ListOfIds
<1>1. P \subseteq S BY DEF PageOf
<1>2. IsFiniteSet(I) /\ Cardinality(I) = count BY FS_Interval
<1>3. f \in [P -> I]
  <2> SUFFICES ASSUME NEW e \in P PROVE Rank(e, S) \in I OBVIOUS
  <2>1. Rank(e, S) \in 1 .. Cardinality(S) /\ Cardinality(S) \in Nat BY <1>0, <1>1, RankType
  <2> QED BY <2>1 DEF PageOf
<1>4. \A x, y \in P : f[x] = f[y] => x = y
  <2> SUFFICES ASSUME NEW x \in P, NEW y \in P, x # y PROVE f[x] # f[y] OBVIOUS
  <2>1. x \in S /\ y \in S BY <1>1
  <2>2. x < y \/ y < x BY <1>0, <2>1
  <2>3. /\ Rank(x, S) \in 1 .. Cardinality(S) /\ Rank(y, S) \in 1 .. Cardinality(S)
        /\ Cardinality(S) \in Nat
    BY <1>0, <2>1, RankType
  <2> QED BY <1>0, <2>1, <2>2, <2>3, RankStrict
<1> HIDE DEF f
<1>5. f \in Injection(P, I) BY <1>3, <1>4 DEF Injection, IsInjective
<1> HIDE DEF P, I
<1>6. Cardinality(P) <= Cardinality(I) BY <1>2, <1>5, FS_Injection
<1> QED BY <1>2, <1>6 DEF P

\* A page that leaves records behind it is full.
LEMMA PageFull ==
    ASSUME NEW S \in SUBSET Ids, NEW d \in S,
           NEW start \in Nat \ {0}, NEW count \in Nat \ {0},
           Rank(d, S) >= start + count
    PROVE  Cardinality(PageOf(S, start, count)) = count
<1> DEFINE P == PageOf(S, start, count)
           I == start .. (start + count - 1)
           f == [e \in P |-> Rank(e, S)]
<1>0. S \in SUBSET Nat /\ IsFiniteSet(S) BY ListOfIds
<1>1. /\ Rank(d, S) \in Nat
      /\ Cardinality(S) \in Nat
      /\ Rank(d, S) <= Cardinality(S)
  BY <1>0, RankType
<1>2. P \subseteq S BY DEF PageOf
<1>3. IsFiniteSet(I) /\ Cardinality(I) = count BY FS_Interval
<1>4. f \in [P -> I]
  <2> SUFFICES ASSUME NEW e \in P PROVE Rank(e, S) \in I OBVIOUS
  <2>1. Rank(e, S) \in 1 .. Cardinality(S) /\ Cardinality(S) \in Nat BY <1>0, <1>2, RankType
  <2> QED BY <2>1 DEF PageOf
<1>5. \A x, y \in P : f[x] = f[y] => x = y
  <2> SUFFICES ASSUME NEW x \in P, NEW y \in P, x # y PROVE f[x] # f[y] OBVIOUS
  <2>1. x \in S /\ y \in S BY <1>2
  <2>2. x \in Nat /\ y \in Nat BY <1>0, <2>1
  <2>3. x < y \/ y < x BY <2>2
  <2>4. Rank(x, S) \in Nat /\ Rank(y, S) \in Nat BY <1>0, <1>1, <2>1, RankType
  <2> QED BY <1>0, <2>1, <2>3, <2>4, RankStrict
<1>6. \A k \in I : \E e \in P : f[e] = k
  <2> SUFFICES ASSUME NEW k \in I PROVE \E e \in P : Rank(e, S) = k OBVIOUS
  <2>1. k \in 1 .. Cardinality(S) BY <1>1
  <2>2. PICK e \in S : Rank(e, S) = k BY <1>0, <2>1, RankOnto
  <2>3. e \in P BY <2>2 DEF PageOf
  <2> QED BY <2>2, <2>3
<1> HIDE DEF f
<1>7. f \in Injection(P, I) BY <1>4, <1>5 DEF Injection, IsInjective
<1>8. f \in Surjection(P, I) BY <1>4, <1>6 DEF Surjection
<1> HIDE DEF P, I
<1>9. Cardinality(P) = Cardinality(I) BY <1>3, <1>7, <1>8, FS_Injection
<1> QED BY <1>3, <1>9 DEF P

(****************************************************************************)
(* The changes made to it.                                                  *)
(****************************************************************************)

\* The stamps of a change are numbers.
LEMMA StampType ==
    ASSUME clock \in Nat
    PROVE  Stamps \subseteq Nat \ {0}
BY TimeAssumption DEF Stamps

\* The edits made to a directory record keep it one.
LEMMA UserType ==
    ASSUME NEW u \in User, NEW a \in {"true", "false"}, NEW v \in Nat, NEW t \in Nat
    PROVE  /\ [u EXCEPT !.active = a] \in User
           /\ [u EXCEPT !.externalId = v, !.lastModified = t] \in User
           /\ [u EXCEPT !.present = FALSE] \in User
BY DEF User

\* A change on the directory's side.
LEMMA ChangeType ==
    ASSUME DirTypeOK, NEW d \in Ids, Publish(d) \/ Repair(d) \/ Lose(d) \/ Remove(d)
    PROVE  DirTypeOK'
<1> USE DEF DirTypeOK
<1>1. clock' \in Nat \ {0} /\ changes' \in Nat
  <2>1. Change BY DEF Publish, Repair, Lose, Remove
  <2> QED BY <2>1 DEF Change
<1>2. users' \in [Ids -> User] /\ said' \in [Ids -> SUBSET {"true", "false"}]
  <2>1. CASE Publish(d)
    <3>1. PICK a \in Statuses, p \in Profiles, t \in Nat :
            /\ users' = [users EXCEPT ![d] =
                  [present |-> TRUE, active |-> a, profile |-> p,
                   externalId |-> IF @.present THEN @.externalId ELSE 0,
                   lastModified |-> t]]
            /\ said' = [said EXCEPT ![d] = @ \cup ({a} \ {"nil"})]
      BY <2>1, StampType DEF Publish
    <3>2. a \in {"true", "false", "nil"} BY HiredAssumption
    <3>3. [present |-> TRUE, active |-> a, profile |-> p,
           externalId |-> IF users[d].present THEN users[d].externalId ELSE 0,
           lastModified |-> t] \in User
      BY <3>2 DEF User
    <3> QED BY <3>1, <3>2, <3>3
  <2>2. CASE Repair(d)
    <3>1. PICK a \in Statuses \ {"nil"} :
            /\ users' = [users EXCEPT ![d] = [@ EXCEPT !.active = a]]
            /\ said' = [said EXCEPT ![d] = @ \cup {a}]
      BY <2>2 DEF Repair
    <3>2. a \in {"true", "false"} BY HiredAssumption
    <3>3. [users[d] EXCEPT !.active = a] \in User BY <3>2, UserType, 0 \in Nat
    <3> QED BY <3>1, <3>2, <3>3
  <2>3. CASE Lose(d)
    <3>1. PICK t \in Nat :
            users' = [users EXCEPT ![d] = [@ EXCEPT !.externalId = 0, !.lastModified = t]]
      BY <2>3, StampType DEF Lose
    <3>2. [users[d] EXCEPT !.externalId = 0, !.lastModified = t] \in User
      BY UserType
    <3> QED BY <2>3, <3>1, <3>2 DEF Lose
  <2>4. CASE Remove(d)
    <3>1. [users[d] EXCEPT !.present = FALSE] \in User BY UserType, 0 \in Nat
    <3> QED BY <2>4, <3>1 DEF Remove
  <2> QED BY <2>1, <2>2, <2>3, <2>4
<1> QED BY <1>1, <1>2

\* Binding an externalId keeps the directory's records records.
LEMMA BindType ==
    ASSUME DirTypeOK, NEW d \in Ids, NEW v \in Nat, Bind(d, v)
    PROVE  users' \in [Ids -> User]
<1> USE DEF DirTypeOK
<1>1. PICK t \in Nat :
        users' = [users EXCEPT ![d] = [@ EXCEPT !.externalId = v, !.lastModified = t]]
  BY StampType DEF Bind
<1>2. [users[d] EXCEPT !.externalId = v, !.lastModified = t] \in User BY UserType
<1> QED BY <1>1, <1>2

\* A change on the directory's side writes no externalId.
LEMMA ChangeBindsNothing ==
    ASSUME DirTypeOK, NEW d \in Ids, Publish(d) \/ Repair(d) \/ Lose(d) \/ Remove(d), NEW e \in Ids
    PROVE  users'[e].externalId \in {0, users[e].externalId}
<1> USE DEF DirTypeOK
<1>1. CASE e # d
  BY <1>1 DEF Publish, Repair, Lose, Remove
<1>2. CASE e = d
  <2>1. CASE Publish(d) BY <1>2, <2>1 DEF Publish
  <2>2. CASE Repair(d) BY <1>2, <2>2 DEF Repair, User
  <2>3. CASE Lose(d) BY <1>2, <2>3 DEF Lose, User
  <2>4. CASE Remove(d) BY <1>2, <2>4 DEF Remove, User
  <2> QED BY <2>1, <2>2, <2>3, <2>4
<1> QED BY <1>1, <1>2
================================================================================
