--------------------------- MODULE ConversationProofs ---------------------------
(* Proofs about what a conversation leaves and shows: the suggestions and the     *)
(* memories of its turns (TurnRecords), the texts of the workspace                *)
(* (WorkspaceTexts), the runs of its answers on the screen (RunScreen), and what   *)
(* a search answers that an agent is given (SemanticSearch).                       *)
EXTENDS TurnRecords, WorkspaceTexts, RunScreen, SemanticSearch,
        WellFoundedInduction, FiniteSetTheorems, TLAPS

-----------------------------------------------------------------------------
(* Induction over the natural numbers, stated over sets, for the recursive        *)
(* functions of the specifications: a loop over a list in the code is a function  *)
(* of the number of its turns, which exists and has what every turn preserves.   *)

(* A set of natural numbers that is not empty has a least element. *)
LEMMA LeastOfSet ==
  ASSUME NEW T \in SUBSET Nat, T # {}
  PROVE  \E x \in T : \A y \in T : ~(y < x)
<1>1. IsWellFoundedOn(OpToRel(<, Nat), Nat) BY NatLessThanWellFounded
<1>2. \E x \in T : \A y \in T : ~(<<y, x>> \in OpToRel(<, Nat)) BY <1>1, WFMin
<1>3. \A x, y \in Nat : y < x => <<y, x>> \in OpToRel(<, Nat) BY DEF OpToRel
<1> QED BY <1>2, <1>3

(* A bounded one has a greatest. *)
LEMMA GreatestOfSet ==
  ASSUME NEW T \in SUBSET Nat, T # {}, NEW n \in Nat, \A x \in T : x <= n
  PROVE  \E x \in T : \A y \in T : y <= x
<1> DEFINE Bounds == {b \in Nat : \A x \in T : x <= b}
<1>1. n \in Bounds /\ Bounds \in SUBSET Nat OBVIOUS
<1>2. PICK b \in Bounds : \A c \in Bounds : ~(c < b)
  <2> HIDE DEF Bounds
  <2> QED BY <1>1, LeastOfSet
<1>3. b \in T
  <2> SUFFICES ASSUME b \notin T PROVE FALSE OBVIOUS
  <2>1. \A x \in T : x <= b /\ x # b /\ x \in Nat BY <1>2
  <2>2. b # 0
    <3>1. PICK y \in T : TRUE OBVIOUS
    <3>2. y <= b /\ y # b /\ y \in Nat BY <2>1, <3>1
    <3> QED BY <1>2, <3>2
  <2>3. b - 1 \in Nat /\ b - 1 < b BY <1>2, <2>2
  <2>4. \A x \in T : x <= b - 1 BY <1>2, <2>1
  <2>5. b - 1 \in Bounds BY <2>3, <2>4
  <2> QED BY <1>2, <2>3, <2>5
<1> QED BY <1>2, <1>3

(* What zero has, and a successor has whenever its predecessor does, all have. *)
LEMMA SetInduction ==
  ASSUME NEW T, 0 \in T, \A n \in Nat : n \in T => n + 1 \in T
  PROVE  \A n \in Nat : n \in T
<1> SUFFICES ASSUME NEW k \in Nat, k \notin T PROVE FALSE OBVIOUS
<1> DEFINE Lacking == {n \in Nat : n \notin T}
<1>1. PICK x \in Lacking : \A y \in Lacking : ~(y < x) BY LeastOfSet
<1>2. x # 0 /\ x \in Nat /\ x \notin T OBVIOUS
<1>3. x - 1 \in Nat /\ x - 1 < x /\ (x - 1) + 1 = x BY <1>2
<1>4. x - 1 \in T BY <1>1, <1>3
<1>5. x \in T BY <1>3, <1>4
<1> QED BY <1>2, <1>5

(* The functions each of whose values is computed from the one before: there is one. *)
Computed(S, a, len, step) ==
    {f \in [0 .. len -> S] : f[0] = a /\ \A n \in 1 .. len : f[n] = step[n][f[n - 1]]}

LEMMA RecursiveFunction ==
  ASSUME NEW S, NEW a \in S, NEW len \in Nat, NEW step \in [1 .. len -> [S -> S]]
  PROVE  Computed(S, a, len, step) # {}
<1> DEFINE Is(f, m) == f[0] = a /\ \A n \in 1 .. m : f[n] = step[n][f[n - 1]]
           Reached == {m \in Nat : m <= len => \E f \in [0 .. m -> S] : Is(f, m)}
<1>1. 0 \in Reached
  <2> DEFINE f == [n \in 0 .. 0 |-> a]
  <2>1. f \in [0 .. 0 -> S] /\ Is(f, 0) OBVIOUS
  <2> QED BY <2>1
<1>2. ASSUME NEW m \in Nat, m \in Reached PROVE m + 1 \in Reached
  <2> SUFFICES ASSUME m + 1 <= len PROVE \E f \in [0 .. m + 1 -> S] : Is(f, m + 1) OBVIOUS
  <2>1. PICK f \in [0 .. m -> S] : Is(f, m) BY <1>2
  <2>2. step[m + 1] \in [S -> S] /\ f[m] \in S OBVIOUS
  <2>3. step[m + 1][f[m]] \in S BY <2>2
  <2> DEFINE g == [n \in 0 .. m + 1 |-> IF n = m + 1 THEN step[m + 1][f[m]] ELSE f[n]]
  <2>4. g \in [0 .. m + 1 -> S]
    <3>1. \A n \in 0 .. m + 1 : n # m + 1 => n \in 0 .. m /\ f[n] \in S OBVIOUS
    <3> QED BY <2>3, <3>1
  <2>5. g[0] = a BY <2>1
  <2>6. ASSUME NEW n \in 1 .. m + 1 PROVE g[n] = step[n][g[n - 1]]
    <3>1. CASE n = m + 1
      <4>1. n - 1 = m /\ m \in 0 .. m + 1 /\ m # m + 1 /\ n \in 0 .. m + 1 BY <3>1
      <4>2. g[n - 1] = f[m] BY <4>1
      <4>3. g[n] = step[m + 1][f[m]] BY <3>1, <4>1
      <4> QED BY <3>1, <4>2, <4>3
    <3>2. CASE n # m + 1
      <4>1. n \in 1 .. m /\ n \in 0 .. m + 1 /\ n - 1 \in 0 .. m + 1 /\ n - 1 # m + 1 BY <3>2
      <4>2. g[n] = f[n] /\ g[n - 1] = f[n - 1] BY <3>2, <4>1
      <4> QED BY <2>1, <4>1, <4>2
    <3> QED BY <3>1, <3>2
  <2> HIDE DEF g
  <2>7. Is(g, m + 1) BY <2>5, <2>6
  <2> QED BY <2>4, <2>7
<1>3. len \in Reached
  <2> HIDE DEF Reached
  <2> QED BY <1>1, <1>2, SetInduction
<1>4. \E f \in [0 .. len -> S] : Is(f, len) BY <1>3
<1> QED BY <1>4 DEF Computed

-----------------------------------------------------------------------------
(* The rows of the suggestions, and the positions at which some of them are.   *)
SugRows == [identity : Identities, severity : Severities, status : ActiveStatus \cup Decided]
Filled(rows, P) == {j \in DOMAIN rows : rows[j] \in P}
HowMany(rows, P) == Cardinality(Filled(rows, P))

NamedRows(i) == {r \in SugRows : r.identity = i}
OpenRows(i) == {r \in SugRows : r.identity = i /\ r.status \in ActiveStatus}
RowsWith(i, s) == {r \in SugRows : r.identity = i /\ r.status = s}

LEMMA FilledAre ==
  ASSUME NEW rows \in Seq(SugRows), NEW i
  PROVE  /\ Of(rows, i) = Filled(rows, NamedRows(i))
         /\ OpenOf(rows, i) = Filled(rows, OpenRows(i))
         /\ \A s : {k \in Of(rows, i) : rows[k].status = s} = Filled(rows, RowsWith(i, s))
<1>1. \A k \in DOMAIN rows : rows[k] \in SugRows OBVIOUS
<1> QED BY <1>1 DEF Of, OpenOf, Filled, NamedRows, OpenRows, RowsWith

LEMMA FilledFinite ==
  ASSUME NEW rows \in Seq(SugRows), NEW P
  PROVE  /\ IsFiniteSet(Filled(rows, P))
         /\ HowMany(rows, P) \in Nat
         /\ HowMany(rows, P) = 0 <=> Filled(rows, P) = {}
<1>1. Len(rows) \in Nat /\ DOMAIN rows = 1 .. Len(rows) OBVIOUS
<1>2. IsFiniteSet(DOMAIN rows)
  <2>1. 1 \in Int /\ Len(rows) \in Int BY <1>1
  <2>2. IsFiniteSet(1 .. Len(rows)) BY <2>1, FS_Interval
  <2> QED BY <1>1, <2>2
<1>3. Filled(rows, P) \in SUBSET DOMAIN rows BY DEF Filled
<1>4. IsFiniteSet(Filled(rows, P)) BY <1>2, <1>3, FS_Subset
<1> QED BY <1>4, FS_CardinalityType, FS_EmptySet DEF HowMany

(* The first of a set of positions is one of them, and no other is before it.  *)
LEMMA FirstIs ==
  ASSUME NEW S \in SUBSET Nat, S # {}
  PROVE  First(S) \in S /\ \A j \in S : First(S) <= j
<1>1. PICK x \in S : \A y \in S : ~(y < x) BY LeastOfSet
<1>2. \A y \in S : x <= y
  <2> SUFFICES ASSUME NEW y \in S PROVE x <= y OBVIOUS
  <2>1. x \in Nat /\ y \in Nat /\ ~(y < x) BY <1>1
  <2> QED BY <2>1
<1> QED BY <1>2 DEF First

-----------------------------------------------------------------------------
(* A row that is touched goes to the front: the others keep their order.        *)
LEMMA TouchedRows ==
  ASSUME NEW rows \in Seq(SugRows), NEW k \in DOMAIN rows, NEW note \in SugRows,
         NEW next, next = Touched(rows, k, note)
  PROVE  /\ next \in Seq(SugRows) /\ DOMAIN next = DOMAIN rows
         /\ next[1] = note /\ 1 \in DOMAIN rows
         /\ \A j \in DOMAIN rows : j # 1 /\ j <= k => next[j] = rows[j - 1] /\ j - 1 \in DOMAIN rows
         /\ \A j \in DOMAIN rows : j > k => next[j] = rows[j]
<1>1. Len(rows) \in Nat /\ DOMAIN rows = 1 .. Len(rows) /\ k \in 1 .. Len(rows) OBVIOUS
<1>2. 1 \in DOMAIN rows BY <1>1
<1>3. DOMAIN next = 1 .. Len(rows) BY <1>1 DEF Touched
<1>4. next[1] = note BY <1>2 DEF Touched
<1>5. ASSUME NEW j \in DOMAIN rows, j # 1, j <= k
      PROVE  next[j] = rows[j - 1] /\ j - 1 \in DOMAIN rows
  <2>1. next[j] = rows[j - 1] BY <1>5 DEF Touched
  <2>2. j - 1 \in 1 .. Len(rows) BY <1>1, <1>5
  <2> QED BY <1>1, <2>1, <2>2
<1>6. ASSUME NEW j \in DOMAIN rows, j > k PROVE next[j] = rows[j]
  <2>1. j # 1 /\ ~(j <= k) BY <1>1, <1>6
  <2> QED BY <2>1 DEF Touched
<1>7. \A j \in 1 .. Len(rows) : next[j] \in SugRows
  <2> SUFFICES ASSUME NEW j \in 1 .. Len(rows) PROVE next[j] \in SugRows OBVIOUS
  <2>1. j \in DOMAIN rows /\ j \in Nat BY <1>1
  <2>2. CASE j = 1 BY <2>2, <1>4
  <2>3. CASE j # 1 /\ j <= k
    <3>1. next[j] = rows[j - 1] /\ j - 1 \in DOMAIN rows BY <2>1, <2>3, <1>5
    <3> QED BY <3>1
  <2>4. CASE j > k
    <3>1. next[j] = rows[j] BY <2>1, <2>4, <1>6
    <3> QED BY <2>1, <3>1
  <2>5. j = 1 \/ (j # 1 /\ j <= k) \/ j > k BY <1>1
  <2> QED BY <2>2, <2>3, <2>4, <2>5
<1>8. next = [j \in 1 .. Len(rows) |-> next[j]] BY <1>1 DEF Touched
<1>9. next \in [1 .. Len(rows) -> SugRows] BY <1>7, <1>8
<1>10. next \in Seq(SugRows) BY <1>1, <1>9
<1> QED BY <1>1, <1>2, <1>3, <1>4, <1>5, <1>6, <1>10

(* It counts where the row it replaces did. *)
LEMMA TouchedCounts ==
  ASSUME NEW rows \in Seq(SugRows), NEW k \in DOMAIN rows, NEW note \in SugRows, NEW P,
         note \in P <=> rows[k] \in P
  PROVE  HowMany(Touched(rows, k, note), P) = HowMany(rows, P)
<1>0. PICK next : next = Touched(rows, k, note) OBVIOUS
<1> DEFINE A == Filled(rows, P)
           B == Filled(next, P)
           To(j) == IF j = k THEN 1 ELSE IF j < k THEN j + 1 ELSE j
           f == [j \in A |-> To(j)]
<1>1. Len(rows) \in Nat /\ DOMAIN rows = 1 .. Len(rows) /\ k \in 1 .. Len(rows) OBVIOUS
<1>2. /\ DOMAIN next = 1 .. Len(rows) /\ next[1] = note
      /\ \A j \in 1 .. Len(rows) : j # 1 /\ j <= k => next[j] = rows[j - 1]
      /\ \A j \in 1 .. Len(rows) : j > k => next[j] = rows[j]
  <2>1. DOMAIN next = DOMAIN rows /\ next[1] = note BY <1>0, TouchedRows
  <2>2. \A j \in DOMAIN rows : j # 1 /\ j <= k => next[j] = rows[j - 1] BY <1>0, TouchedRows
  <2>3. \A j \in DOMAIN rows : j > k => next[j] = rows[j] BY <1>0, TouchedRows
  <2> QED BY <1>1, <2>1, <2>2, <2>3
<1>3. \A j \in 1 .. Len(rows) : To(j) \in 1 .. Len(rows) BY <1>1
<1>4. \A j \in 1 .. Len(rows) : next[To(j)] \in P <=> rows[j] \in P
  <2> SUFFICES ASSUME NEW j \in 1 .. Len(rows) PROVE next[To(j)] \in P <=> rows[j] \in P OBVIOUS
  <2>1. CASE j = k BY <2>1, <1>2
  <2>2. CASE j < k
    <3>1. To(j) = j + 1 /\ j + 1 # 1 /\ j + 1 <= k /\ (j + 1) - 1 = j /\ j + 1 \in 1 .. Len(rows)
      BY <1>1, <2>2
    <3>2. next[j + 1] = rows[j] BY <3>1, <1>2
    <3> QED BY <3>1, <3>2
  <2>3. CASE j > k
    <3>1. To(j) = j BY <1>1, <2>3
    <3>2. next[j] = rows[j] BY <1>2, <2>3
    <3> QED BY <3>1, <3>2
  <2> QED BY <1>1, <2>1, <2>2, <2>3
<1>5. \A i, j \in 1 .. Len(rows) : To(i) = To(j) => i = j BY <1>1
<1>6. \A j \in 1 .. Len(rows) : \E i \in 1 .. Len(rows) : To(i) = j
  <2> SUFFICES ASSUME NEW j \in 1 .. Len(rows) PROVE \E i \in 1 .. Len(rows) : To(i) = j OBVIOUS
  <2>1. CASE j = 1
    <3>1. To(k) = 1 OBVIOUS
    <3> QED BY <1>1, <2>1, <3>1
  <2>2. CASE j # 1 /\ j <= k
    <3>1. j - 1 \in 1 .. Len(rows) /\ To(j - 1) = j BY <1>1, <2>2
    <3> QED BY <3>1
  <2>3. CASE j > k
    <3>1. To(j) = j BY <1>1, <2>3
    <3> QED BY <3>1
  <2> QED BY <1>1, <2>1, <2>2, <2>3
<1> HIDE DEF To
<1>7. A \subseteq 1 .. Len(rows) /\ B \subseteq 1 .. Len(rows) BY <1>1, <1>2 DEF Filled
<1>8. \A j \in 1 .. Len(rows) : (j \in A <=> rows[j] \in P) /\ (j \in B <=> next[j] \in P)
  BY <1>1, <1>2 DEF Filled
<1> HIDE DEF A, B
<1>9. f \in Bijection(A, B)
  <2>1. f \in [A -> B] BY <1>3, <1>4, <1>7, <1>8
  <2>2. \A x, y \in A : f[x] = f[y] => x = y BY <1>5, <1>7
  <2>3. \A y \in B : \E x \in A : f[x] = y
    <3> SUFFICES ASSUME NEW y \in B PROVE \E x \in A : f[x] = y OBVIOUS
    <3>1. PICK x \in 1 .. Len(rows) : To(x) = y BY <1>6, <1>7
    <3>2. x \in A BY <3>1, <1>4, <1>7, <1>8
    <3> QED BY <3>1, <3>2
  <2> QED BY <2>1, <2>2, <2>3 DEF Bijection, Injection, Surjection, IsInjective
<1>10. IsFiniteSet(A) BY FilledFinite DEF A
<1>11. ExistsBijection(A, B) BY <1>9 DEF ExistsBijection
<1>12. Cardinality(B) = Cardinality(A) BY <1>10, <1>11, FS_Bijection
<1> QED BY <1>0, <1>12 DEF A, B, HowMany

(* A row that is put before the others counts only for itself. *)
LEMMA AddedRows ==
  ASSUME NEW rows \in Seq(SugRows), NEW note \in SugRows
  PROVE  LET next == <<note>> \o rows IN
         /\ next \in Seq(SugRows) /\ Len(next) = Len(rows) + 1
         /\ next[1] = note
         /\ \A j \in 1 .. Len(rows) : next[j + 1] = rows[j]
OBVIOUS

LEMMA AddedCounts ==
  ASSUME NEW rows \in Seq(SugRows), NEW note \in SugRows, NEW P, note \notin P
  PROVE  HowMany(<<note>> \o rows, P) = HowMany(rows, P)
<1> DEFINE next == <<note>> \o rows
           A == Filled(rows, P)
           B == Filled(next, P)
           f == [j \in A |-> j + 1]
<1>1. Len(rows) \in Nat /\ DOMAIN rows = 1 .. Len(rows) OBVIOUS
<1>2. /\ next \in Seq(SugRows) /\ DOMAIN next = 1 .. Len(rows) + 1 /\ next[1] = note
      /\ \A j \in 1 .. Len(rows) : next[j + 1] = rows[j]
  BY <1>1, AddedRows
<1> HIDE DEF next
<1>3. A = {j \in 1 .. Len(rows) : rows[j] \in P} BY <1>1 DEF Filled
<1>4. B = {j \in 1 .. Len(rows) + 1 : next[j] \in P} BY <1>2 DEF Filled
<1>5. \A j \in B : j - 1 \in A /\ (j - 1) + 1 = j
  <2> SUFFICES ASSUME NEW j \in B PROVE j - 1 \in A /\ (j - 1) + 1 = j OBVIOUS
  <2>1. j \in 1 .. Len(rows) + 1 /\ next[j] \in P BY <1>4
  <2>2. j # 1 BY <2>1, <1>2
  <2>3. j - 1 \in 1 .. Len(rows) /\ (j - 1) + 1 = j BY <2>1, <2>2, <1>1
  <2>4. next[j] = rows[j - 1] BY <2>3, <1>2
  <2> QED BY <2>1, <2>3, <2>4, <1>3
<1>6. \A j \in A : j \in Nat /\ j + 1 \in B
  <2> SUFFICES ASSUME NEW j \in A PROVE j \in Nat /\ j + 1 \in B OBVIOUS
  <2>1. j \in 1 .. Len(rows) /\ rows[j] \in P BY <1>3
  <2>2. j + 1 \in 1 .. Len(rows) + 1 /\ next[j + 1] = rows[j] BY <2>1, <1>1, <1>2
  <2> QED BY <2>1, <2>2, <1>4
<1> HIDE DEF A, B
<1>7. f \in Bijection(A, B)
  <2>1. f \in [A -> B] BY <1>6
  <2>2. \A x, y \in A : f[x] = f[y] => x = y BY <1>6
  <2>3. \A y \in B : \E x \in A : f[x] = y
    <3> SUFFICES ASSUME NEW y \in B PROVE \E x \in A : f[x] = y OBVIOUS
    <3> QED BY <1>5
  <2> QED BY <2>1, <2>2, <2>3 DEF Bijection, Injection, Surjection, IsInjective
<1>8. IsFiniteSet(A) BY FilledFinite DEF A
<1>9. ExistsBijection(A, B) BY <1>7 DEF ExistsBijection
<1>10. Cardinality(B) = Cardinality(A) BY <1>8, <1>9, FS_Bijection
<1> QED BY <1>10 DEF A, B, next, HowMany

(* What a change leaves of each identity: no second row of it, none reopened;   *)
(* and what a review leaves: as many accepted and deferred rows.               *)
Stands(rows, next) ==
    \A i \in Identities : Filled(rows, NamedRows(i)) # {} =>
        /\ HowMany(next, NamedRows(i)) = HowMany(rows, NamedRows(i))
        /\ Filled(rows, OpenRows(i)) = {} => Filled(next, OpenRows(i)) = {}
LeavesDecided(rows, next) ==
    \A i \in Identities, s \in {"accepted", "deferred"} :
        HowMany(next, RowsWith(i, s)) = HowMany(rows, RowsWith(i, s))

LEMMA StandsTrans ==
  ASSUME NEW a \in Seq(SugRows), NEW b \in Seq(SugRows), NEW c \in Seq(SugRows),
         Stands(a, b), Stands(b, c)
  PROVE  Stands(a, c)
<1> SUFFICES ASSUME NEW i \in Identities, Filled(a, NamedRows(i)) # {}
             PROVE  /\ HowMany(c, NamedRows(i)) = HowMany(a, NamedRows(i))
                    /\ Filled(a, OpenRows(i)) = {} => Filled(c, OpenRows(i)) = {}
  BY DEF Stands
<1>1. HowMany(b, NamedRows(i)) = HowMany(a, NamedRows(i)) BY DEF Stands
<1>2. Filled(b, NamedRows(i)) # {} BY <1>1, FilledFinite
<1> QED BY <1>1, <1>2 DEF Stands

LEMMA StandsSame ==
  ASSUME NEW a
  PROVE  Stands(a, a) /\ LeavesDecided(a, a)
BY DEF Stands, LeavesDecided

(* A row touched with its identity kept: no second row; none reopened if it was  *)
(* open or stays decided.                                                      *)
LEMMA TouchedStands ==
  ASSUME NEW rows \in Seq(SugRows), NEW k \in DOMAIN rows, NEW note \in SugRows,
         note.identity = rows[k].identity, rows[k].status \in ActiveStatus
  PROVE  Stands(rows, Touched(rows, k, note))
<1> DEFINE next == Touched(rows, k, note)
<1>1. rows[k] \in SugRows OBVIOUS
<1>2. ASSUME NEW i \in Identities
      PROVE  HowMany(next, NamedRows(i)) = HowMany(rows, NamedRows(i))
  <2>1. note \in NamedRows(i) <=> rows[k] \in NamedRows(i) BY <1>1 DEF NamedRows
  <2> QED BY <2>1, TouchedCounts
<1>3. ASSUME NEW i \in Identities, Filled(rows, OpenRows(i)) = {}
      PROVE  Filled(next, OpenRows(i)) = {}
  <2>1. rows[k].identity # i
    <3> SUFFICES ASSUME rows[k].identity = i PROVE FALSE OBVIOUS
    <3>1. rows[k] \in OpenRows(i) BY <1>1 DEF OpenRows
    <3>2. k \in Filled(rows, OpenRows(i)) BY <3>1 DEF Filled
    <3> QED BY <1>3, <3>2
  <2>2. note \notin OpenRows(i) /\ rows[k] \notin OpenRows(i) BY <2>1 DEF OpenRows
  <2>3. HowMany(next, OpenRows(i)) = HowMany(rows, OpenRows(i)) BY <2>2, TouchedCounts
  <2>4. next \in Seq(SugRows) BY TouchedRows
  <2> HIDE DEF next
  <2>5. HowMany(rows, OpenRows(i)) = 0 BY <1>3, FilledFinite
  <2> QED BY <2>3, <2>4, <2>5, FilledFinite
<1> QED BY <1>2, <1>3 DEF Stands

(* The row of an identity that the review starts from, whatever it reports. *)
LEMMA StandingIs ==
  ASSUME NEW rows \in Seq(SugRows), NEW i, Of(rows, i) # {}
  PROVE  Standing(rows, i) \in Of(rows, i)
<1>1. Of(rows, i) \in SUBSET Nat /\ OpenOf(rows, i) \in SUBSET Of(rows, i)
  <2>1. Len(rows) \in Nat /\ DOMAIN rows = 1 .. Len(rows) OBVIOUS
  <2> QED BY <2>1 DEF Of, OpenOf
<1> DEFINE open == OpenOf(rows, i)
           accepted == {k \in open : rows[k].status = "accepted"}
<1>2. First(Of(rows, i)) \in Of(rows, i) BY <1>1, FirstIs
<1>3. open # {} => First(open) \in open BY <1>1, FirstIs
<1>4. accepted # {} => First(accepted) \in accepted
  <2>1. accepted \in SUBSET Nat BY <1>1
  <2> HIDE DEF accepted
  <2> QED BY <2>1, FirstIs
<1>5. accepted \subseteq open OBVIOUS
<1> HIDE DEF accepted
<1>6. CASE open = {}
  <2>1. Standing(rows, i) = First(Of(rows, i)) BY <1>6 DEF Standing
  <2> QED BY <2>1, <1>2
<1>7. CASE open # {} /\ rows[First(open)].status = "new" /\ accepted # {}
  <2>1. Standing(rows, i) = First(accepted) BY <1>7 DEF Standing, accepted
  <2> QED BY <2>1, <1>7, <1>4, <1>5, <1>1
<1>8. CASE open # {} /\ ~(rows[First(open)].status = "new" /\ accepted # {})
  <2>1. Standing(rows, i) = First(open) BY <1>8 DEF Standing, accepted
  <2> QED BY <2>1, <1>8, <1>3, <1>1
<1> QED BY <1>6, <1>7, <1>8

(* The first open row of an identity is this one. *)
Leads(rows, i, note) ==
    \E j \in OpenOf(rows, i) : rows[j] = note /\ \A k \in OpenOf(rows, i) : j <= k

LEMMA LeadsFirst ==
  ASSUME NEW rows \in Seq(SugRows), NEW i, NEW note, Leads(rows, i, note)
  PROVE  /\ First(OpenOf(rows, i)) \in OpenOf(rows, i)
         /\ rows[First(OpenOf(rows, i))] = note
<1>1. OpenOf(rows, i) \in SUBSET Nat
  <2>1. Len(rows) \in Nat /\ DOMAIN rows = 1 .. Len(rows) OBVIOUS
  <2> QED BY <2>1 DEF Of, OpenOf
<1>2. PICK j \in OpenOf(rows, i) : rows[j] = note /\ \A k \in OpenOf(rows, i) : j <= k
  BY DEF Leads
<1>3. First(OpenOf(rows, i)) \in OpenOf(rows, i)
      /\ \A k \in OpenOf(rows, i) : First(OpenOf(rows, i)) <= k
  BY <1>1, FirstIs
<1>4. First(OpenOf(rows, i)) = j
  <2>1. First(OpenOf(rows, i)) <= j /\ j <= First(OpenOf(rows, i)) BY <1>2, <1>3
  <2>2. First(OpenOf(rows, i)) \in Nat /\ j \in Nat BY <1>1, <1>3
  <2> QED BY <2>1, <2>2
<1> QED BY <1>2, <1>3, <1>4

(* Rows of another identity that are touched or added change nothing of it. *)
LEMMA TouchedLeads ==
  ASSUME NEW rows \in Seq(SugRows), NEW k \in DOMAIN rows, NEW note \in SugRows,
         NEW i, NEW first, Leads(rows, i, first), note.identity # i, rows[k].identity # i
  PROVE  Leads(Touched(rows, k, note), i, first)
<1>0. PICK next : next = Touched(rows, k, note) OBVIOUS
<1>1. Len(rows) \in Nat /\ DOMAIN rows = 1 .. Len(rows) /\ k \in 1 .. Len(rows) OBVIOUS
<1>2. /\ DOMAIN next = DOMAIN rows /\ next[1] = note
      /\ \A j \in DOMAIN rows : j # 1 /\ j <= k => next[j] = rows[j - 1] /\ j - 1 \in DOMAIN rows
      /\ \A j \in DOMAIN rows : j > k => next[j] = rows[j]
  <2>1. DOMAIN next = DOMAIN rows /\ next[1] = note BY <1>0, TouchedRows
  <2>2. \A j \in DOMAIN rows : j # 1 /\ j <= k => next[j] = rows[j - 1] /\ j - 1 \in DOMAIN rows
    BY <1>0, TouchedRows
  <2>3. \A j \in DOMAIN rows : j > k => next[j] = rows[j] BY <1>0, TouchedRows
  <2> QED BY <2>1, <2>2, <2>3
<1>3. PICK j \in OpenOf(rows, i) : rows[j] = first /\ \A m \in OpenOf(rows, i) : j <= m
  BY DEF Leads
<1>4. j \in 1 .. Len(rows) /\ j # k /\ rows[j].identity = i /\ rows[j].status \in ActiveStatus
  BY <1>1 DEF Of, OpenOf
<1> DEFINE new == IF j < k THEN j + 1 ELSE j
<1>5. new \in DOMAIN rows /\ next[new] = rows[j]
  <2>1. CASE j < k
    <3>1. j + 1 \in DOMAIN rows /\ j + 1 # 1 /\ j + 1 <= k /\ (j + 1) - 1 = j BY <1>1, <1>4, <2>1
    <3>2. next[j + 1] = rows[j] BY <3>1, <1>2
    <3> QED BY <2>1, <3>1, <3>2
  <2>2. CASE j > k BY <2>2, <1>1, <1>2, <1>4
  <2> QED BY <1>1, <1>4, <2>1, <2>2
<1>6. new \in OpenOf(next, i) BY <1>2, <1>4, <1>5 DEF Of, OpenOf
<1>7. ASSUME NEW m \in OpenOf(next, i) PROVE new <= m
  <2>1. m \in DOMAIN rows /\ m \in 1 .. Len(rows) /\ next[m].identity = i /\ next[m].status \in ActiveStatus
    BY <1>1, <1>2 DEF Of, OpenOf
  <2>2. m # 1 BY <2>1, <1>2
  <2>3. CASE m <= k
    <3>1. next[m] = rows[m - 1] /\ m - 1 \in DOMAIN rows BY <2>1, <2>2, <2>3, <1>2
    <3>2. m - 1 \in OpenOf(rows, i) BY <2>1, <3>1 DEF Of, OpenOf
    <3>3. j <= m - 1 BY <3>2, <1>3
    <3> QED BY <3>3, <2>1, <2>3, <1>1, <1>4
  <2>4. CASE m > k
    <3>1. next[m] = rows[m] BY <2>1, <2>4, <1>2
    <3>2. m \in OpenOf(rows, i) BY <2>1, <3>1 DEF Of, OpenOf
    <3>3. j <= m BY <3>2, <1>3
    <3> QED BY <3>3, <2>1, <2>4, <1>1, <1>4
  <2> QED BY <1>1, <2>1, <2>3, <2>4
<1>8. next[new] = first BY <1>3, <1>5
<1> HIDE DEF new
<1>9. Leads(next, i, first) BY <1>6, <1>7, <1>8 DEF Leads
<1> QED BY <1>0, <1>9

LEMMA AddedLeads ==
  ASSUME NEW rows \in Seq(SugRows), NEW note \in SugRows,
         NEW i, NEW first, Leads(rows, i, first), note.identity # i
  PROVE  Leads(<<note>> \o rows, i, first)
<1> DEFINE next == <<note>> \o rows
<1>1. Len(rows) \in Nat /\ DOMAIN rows = 1 .. Len(rows) OBVIOUS
<1>2. /\ next \in Seq(SugRows) /\ DOMAIN next = 1 .. Len(rows) + 1 /\ next[1] = note
      /\ \A j \in 1 .. Len(rows) : next[j + 1] = rows[j]
  BY <1>1, AddedRows
<1> HIDE DEF next
<1>3. PICK j \in OpenOf(rows, i) : rows[j] = first /\ \A m \in OpenOf(rows, i) : j <= m
  BY DEF Leads
<1>4. j \in 1 .. Len(rows) /\ rows[j].identity = i /\ rows[j].status \in ActiveStatus
  BY <1>1 DEF Of, OpenOf
<1>5. j + 1 \in 1 .. Len(rows) + 1 /\ next[j + 1] = rows[j] BY <1>1, <1>2, <1>4
<1>6. j + 1 \in OpenOf(next, i) BY <1>2, <1>4, <1>5 DEF Of, OpenOf
<1>7. ASSUME NEW m \in OpenOf(next, i) PROVE j + 1 <= m
  <2>1. m \in 1 .. Len(rows) + 1 /\ next[m].identity = i /\ next[m].status \in ActiveStatus
    BY <1>2 DEF Of, OpenOf
  <2>2. m # 1 BY <2>1, <1>2
  <2>3. m - 1 \in 1 .. Len(rows) /\ (m - 1) + 1 = m BY <1>1, <2>1, <2>2
  <2>4. next[m] = rows[m - 1] BY <1>2, <2>3
  <2>5. m - 1 \in OpenOf(rows, i) BY <1>1, <2>1, <2>3, <2>4 DEF Of, OpenOf
  <2>6. j <= m - 1 BY <1>3, <2>5
  <2> QED BY <2>1, <2>6, <1>4
<1>8. next[j + 1] = first BY <1>3, <1>5
<1>9. Leads(next, i, first) BY <1>6, <1>7, <1>8 DEF Leads
<1> QED BY <1>9 DEF next

-----------------------------------------------------------------------------
(* What one reported value leaves. *)
LEMMA ReportedKeeps ==
  ASSUME NEW rows \in Seq(SugRows), NEW value \in Values,
         NEW next, next = Reported(rows, value)
  PROVE  /\ next \in Seq(SugRows) /\ Stands(rows, next) /\ LeavesDecided(rows, next)
         /\ \A i, first : i # value.identity /\ Leads(rows, i, first) => Leads(next, i, first)
<1>1. value.identity \in Identities /\ value.severity \in Severities BY DEF Values
<1>2. CASE Of(rows, value.identity) = {}
  <2> DEFINE note == Row(value.identity, value.severity)
  <2>1. note \in SugRows /\ note.identity = value.identity /\ note.status = "new"
    BY <1>1 DEF Row, SugRows, ActiveStatus
  <2>2. next = <<note>> \o rows BY <1>2 DEF Reported
  <2> HIDE DEF note
  <2>3. next \in Seq(SugRows) BY <2>1, <2>2, AddedRows
  <2>4. Stands(rows, next)
    <3> SUFFICES ASSUME NEW i \in Identities, Filled(rows, NamedRows(i)) # {}
                 PROVE  /\ HowMany(next, NamedRows(i)) = HowMany(rows, NamedRows(i))
                        /\ Filled(rows, OpenRows(i)) = {} => Filled(next, OpenRows(i)) = {}
      BY DEF Stands
    <3>1. i # value.identity BY <1>2, FilledAre
    <3>2. note \notin NamedRows(i) /\ note \notin OpenRows(i) BY <2>1, <3>1 DEF NamedRows, OpenRows
    <3>3. HowMany(next, NamedRows(i)) = HowMany(rows, NamedRows(i)) BY <2>1, <2>2, <3>2, AddedCounts
    <3>4. HowMany(next, OpenRows(i)) = HowMany(rows, OpenRows(i)) BY <2>1, <2>2, <3>2, AddedCounts
    <3> QED BY <2>3, <3>3, <3>4, FilledFinite
  <2>5. LeavesDecided(rows, next)
    <3> SUFFICES ASSUME NEW i \in Identities, NEW s \in {"accepted", "deferred"}
                 PROVE  HowMany(next, RowsWith(i, s)) = HowMany(rows, RowsWith(i, s))
      BY DEF LeavesDecided
    <3>1. note \notin RowsWith(i, s) BY <2>1 DEF RowsWith
    <3> QED BY <2>1, <2>2, <3>1, AddedCounts
  <2>6. ASSUME NEW i, NEW first, i # value.identity, Leads(rows, i, first)
        PROVE  Leads(next, i, first)
    BY <2>1, <2>2, <2>6, AddedLeads
  <2> QED BY <2>3, <2>4, <2>5, <2>6
<1>3. CASE Of(rows, value.identity) # {}
  <2>0. PICK k : k = Standing(rows, value.identity) OBVIOUS
  <2>1. k \in DOMAIN rows /\ rows[k].identity = value.identity /\ rows[k] \in SugRows
    <3>1. k \in Of(rows, value.identity) BY <1>3, <2>0, StandingIs
    <3> QED BY <3>1 DEF Of
  <2>2. CASE rows[k].status \in {"new", "in-analysis", "deferred"}
    <3>0. PICK note : note = [rows[k] EXCEPT !.severity = value.severity] OBVIOUS
    <3>1. note \in SugRows /\ note.identity = rows[k].identity /\ note.status = rows[k].status
      BY <1>1, <2>1, <3>0 DEF SugRows
    <3>2. next = Touched(rows, k, note) BY <1>3, <2>0, <2>2, <3>0 DEF Reported
    <3>3. next \in Seq(SugRows) BY <2>1, <3>1, <3>2, TouchedRows
    <3>4. Stands(rows, next)
      <4>1. rows[k].status \in ActiveStatus BY <2>2 DEF ActiveStatus
      <4> QED BY <2>1, <3>1, <3>2, <4>1, TouchedStands
    <3>5. LeavesDecided(rows, next)
      <4> SUFFICES ASSUME NEW i \in Identities, NEW s \in {"accepted", "deferred"}
                   PROVE  HowMany(next, RowsWith(i, s)) = HowMany(rows, RowsWith(i, s))
        BY DEF LeavesDecided
      <4>1. note \in RowsWith(i, s) <=> rows[k] \in RowsWith(i, s) BY <2>1, <3>1 DEF RowsWith
      <4> QED BY <2>1, <3>1, <3>2, <4>1, TouchedCounts
    <3>6. ASSUME NEW i, NEW first, i # value.identity, Leads(rows, i, first)
          PROVE  Leads(next, i, first)
      BY <2>1, <3>1, <3>2, <3>6, TouchedLeads
    <3> QED BY <3>3, <3>4, <3>5, <3>6
  <2>3. CASE rows[k].status \notin {"new", "in-analysis", "deferred"}
    <3>1. next = rows BY <1>3, <2>0, <2>3 DEF Reported
    <3> QED BY <3>1, StandsSame
  <2> QED BY <2>2, <2>3
<1> QED BY <1>2, <1>3

(* What a status set on an open row leaves: nothing of the accepted and deferred   *)
(* ones when it was and is another.                                            *)
LEMMA WithStatusKeeps ==
  ASSUME NEW rows \in Seq(SugRows), NEW k \in DOMAIN rows,
         NEW status \in ActiveStatus \cup Decided, rows[k].status \in ActiveStatus,
         NEW next, next = WithStatus(rows, k, status)
  PROVE  /\ next \in Seq(SugRows) /\ Stands(rows, next)
         /\ rows[k].status \in {"new", "in-analysis"} /\ status = "resolved" => LeavesDecided(rows, next)
         /\ \A i, first : i # rows[k].identity /\ Leads(rows, i, first) => Leads(next, i, first)
<1>0. PICK note : note = [rows[k] EXCEPT !.status = status] OBVIOUS
<1>1. rows[k] \in SugRows OBVIOUS
<1>2. note \in SugRows /\ note.identity = rows[k].identity /\ note.status = status
  BY <1>0, <1>1 DEF SugRows
<1>3. next = Touched(rows, k, note) BY <1>0 DEF WithStatus
<1>4. next \in Seq(SugRows) BY <1>2, <1>3, TouchedRows
<1>5. Stands(rows, next) BY <1>2, <1>3, TouchedStands
<1>6. ASSUME rows[k].status \in {"new", "in-analysis"}, status = "resolved"
      PROVE  LeavesDecided(rows, next)
  <2> SUFFICES ASSUME NEW i \in Identities, NEW s \in {"accepted", "deferred"}
               PROVE  HowMany(next, RowsWith(i, s)) = HowMany(rows, RowsWith(i, s))
    BY DEF LeavesDecided
  <2>1. note \notin RowsWith(i, s) /\ rows[k] \notin RowsWith(i, s) BY <1>2, <1>6 DEF RowsWith
  <2> QED BY <1>2, <1>3, <2>1, TouchedCounts
<1>7. ASSUME NEW i, NEW first, i # rows[k].identity, Leads(rows, i, first)
      PROVE  Leads(next, i, first)
  BY <1>2, <1>3, <1>7, TouchedLeads
<1> QED BY <1>4, <1>5, <1>6, <1>7

(* The function that looks at the reported values one after another. *)
LEMMA ReportedUpToSteps ==
  ASSUME NEW rows \in Seq(SugRows), NEW values \in Seq(Values),
         NEW after, after = ReportedUpTo(rows, values)
  PROVE  /\ after[0] = rows
         /\ \A n \in 1 .. Len(values) : after[n] = Reported(after[n - 1], values[n])
<1> DEFINE len == Len(values)
           step == [n \in 1 .. len |-> [r \in Seq(SugRows) |-> Reported(r, values[n])]]
           Is(f) == f = [n \in 0 .. len |-> IF n = 0 THEN rows ELSE Reported(f[n - 1], values[n])]
<1>1. len \in Nat /\ \A n \in 1 .. len : values[n] \in Values OBVIOUS
<1> HIDE DEF len
<1>2. step \in [1 .. len -> [Seq(SugRows) -> Seq(SugRows)]]
  <2>1. \A n \in 1 .. len : \A r \in Seq(SugRows) : Reported(r, values[n]) \in Seq(SugRows)
    BY <1>1, ReportedKeeps
  <2> QED BY <2>1
<1>3. \A n \in 1 .. len : \A r \in Seq(SugRows) : step[n][r] = Reported(r, values[n]) OBVIOUS
<1> HIDE DEF step
<1>4. PICK f \in [0 .. len -> Seq(SugRows)] :
             f[0] = rows /\ \A n \in 1 .. len : f[n] = step[n][f[n - 1]]
  <2>1. Computed(Seq(SugRows), rows, len, step) # {} BY <1>1, <1>2, RecursiveFunction
  <2> QED BY <2>1 DEF Computed
<1>5. Is(f)
  <2>1. ASSUME NEW n \in 0 .. len
        PROVE  f[n] = IF n = 0 THEN rows ELSE Reported(f[n - 1], values[n])
    <3>1. CASE n = 0 BY <1>4, <3>1
    <3>2. CASE n # 0
      <4>1. n \in 1 .. len /\ n - 1 \in 0 .. len BY <1>1, <3>2
      <4>2. f[n] = step[n][f[n - 1]] /\ f[n - 1] \in Seq(SugRows) BY <1>4, <4>1
      <4> QED BY <1>3, <3>2, <4>1, <4>2
    <3> QED BY <3>1, <3>2
  <2>2. f = [n \in 0 .. len |-> f[n]] BY <1>4
  <2> QED BY <2>1, <2>2
<1>6. \E g : Is(g) BY <1>5
<1>7. Is(after) BY <1>6 DEF ReportedUpTo, len
<1>8. \A n \in 0 .. len : after[n] = IF n = 0 THEN rows ELSE Reported(after[n - 1], values[n])
  BY <1>7
<1>9. 0 \in 0 .. len /\ \A n \in 1 .. len : n \in 0 .. len /\ n # 0 BY <1>1
<1> QED BY <1>8, <1>9 DEF len

(* What a review leaves that resolves nothing. *)
LEMMA ReportedUpToKeeps ==
  ASSUME NEW rows \in Seq(SugRows), NEW values \in Seq(Values),
         NEW next, next = ReportedUpTo(rows, values)[Len(values)]
  PROVE  /\ next \in Seq(SugRows) /\ Stands(rows, next) /\ LeavesDecided(rows, next)
         /\ \A i, first : (\A v \in DOMAIN values : values[v].identity # i) /\ Leads(rows, i, first)
                             => Leads(next, i, first)
<1> DEFINE len == Len(values)
<1>0. len \in Nat /\ DOMAIN values = 1 .. len /\ \A n \in 1 .. len : values[n] \in Values OBVIOUS
<1>1. PICK after : after = ReportedUpTo(rows, values) OBVIOUS
<1>2. after[0] = rows /\ \A n \in 1 .. len : after[n] = Reported(after[n - 1], values[n])
  BY <1>1, ReportedUpToSteps
<1> DEFINE Leaves(new) == \A i, first :
              (\A v \in DOMAIN values : values[v].identity # i) /\ Leads(rows, i, first)
                 => Leads(new, i, first)
           Good(new) == new \in Seq(SugRows) /\ Stands(rows, new) /\ LeavesDecided(rows, new)
                        /\ Leaves(new)
           Reached == {n \in Nat : n <= len => Good(after[n])}
<1> HIDE DEF len
<1>3. 0 \in Reached
  <2>1. Good(rows) BY StandsSame
  <2> HIDE DEF Good
  <2> QED BY <1>2, <2>1
<1>4. ASSUME NEW n \in Nat, n \in Reached PROVE n + 1 \in Reached
  <2> SUFFICES ASSUME n + 1 <= len PROVE Good(after[n + 1])
    <3> HIDE DEF Good
    <3> QED OBVIOUS
  <2>1. Good(after[n]) 
    <3> HIDE DEF Good
    <3> QED BY <1>0, <1>4
  <2>2. n + 1 \in 1 .. len /\ (n + 1) - 1 = n BY <1>0
  <2>3. PICK value : value = values[n + 1] OBVIOUS
  <2>4. PICK was : was = after[n] OBVIOUS
  <2>5. PICK next1 : next1 = after[n + 1] OBVIOUS
  <2>6. next1 = Reported(was, value) /\ value \in Values BY <1>0, <1>2, <2>2, <2>3, <2>4, <2>5
  <2>7. was \in Seq(SugRows) /\ Stands(rows, was) /\ LeavesDecided(rows, was) /\ Leaves(was)
    BY <2>1, <2>4
  <2>8. /\ next1 \in Seq(SugRows) /\ Stands(was, next1) /\ LeavesDecided(was, next1)
        /\ \A i, first : i # value.identity /\ Leads(was, i, first) => Leads(next1, i, first)
    BY <2>6, <2>7, ReportedKeeps
  <2>9. Stands(rows, next1) BY <2>7, <2>8, StandsTrans
  <2>10. LeavesDecided(rows, next1) BY <2>7, <2>8 DEF LeavesDecided
  <2>11. Leaves(next1)
    <3> SUFFICES ASSUME NEW i, NEW first, \A v \in DOMAIN values : values[v].identity # i,
                        Leads(rows, i, first)
                 PROVE  Leads(next1, i, first)
      OBVIOUS
    <3>1. value.identity # i BY <1>0, <2>2, <2>3
    <3>2. Leads(was, i, first) BY <2>7
    <3> QED BY <2>8, <3>1, <3>2
  <2> HIDE DEF Leaves
  <2>12. Good(next1) BY <2>8, <2>9, <2>10, <2>11
  <2> HIDE DEF Good
  <2> QED BY <2>5, <2>12
<1>5. len \in Reached
  <2> HIDE DEF Reached
  <2> QED BY <1>0, <1>3, <1>4, SetInduction
<1>6. Good(after[len])
  <2> HIDE DEF Good
  <2> QED BY <1>0, <1>5
<1>7. next = after[len] BY <1>1 DEF len
<1> QED BY <1>6, <1>7

(* The function that looks at the rows of before one after another exists, and *)
(* resolves only open ones nobody decided on.                                  *)
LEMMA ResolvedUpToKeeps ==
  ASSUME NEW before \in Seq(SugRows), NEW rows \in Seq(SugRows), NEW values \in Seq(Values),
         \A n \in DOMAIN before : Missing(before, values, n) =>
             Leads(rows, before[n].identity, before[n]),
         NEW next, next = ResolvedUpTo(before, rows, values)[Len(before)]
  PROVE  next \in Seq(SugRows) /\ Stands(rows, next) /\ LeavesDecided(rows, next)
<1> DEFINE len == Len(before)
           Next1(r, n) == IF Missing(before, values, n)
                          THEN WithStatus(r, First(OpenOf(r, before[n].identity)), "resolved")
                          ELSE r
           Ahead(r, n) == \A m \in 1 .. len : m > n /\ Missing(before, values, m) =>
                             Leads(r, before[m].identity, before[m])
           Good(r, n) == r \in Seq(SugRows) /\ Stands(rows, r) /\ LeavesDecided(rows, r)
                         /\ Ahead(r, n)
           Is(f, m) == f = [n \in 0 .. m |-> IF n = 0 THEN rows ELSE Next1(f[n - 1], n)]
           Reached == {m \in Nat : m <= len => \E f : Is(f, m) /\ Good(f[m], m)}
<1>0. len \in Nat /\ DOMAIN before = 1 .. len /\ \A n \in 1 .. len : before[n] \in SugRows
  OBVIOUS
<1> HIDE DEF len
(* One turn of the loop. *)
<1>1. ASSUME NEW n \in 1 .. len, NEW r, Good(r, n - 1)
      PROVE  Good(Next1(r, n), n)
  <2>0. n - 1 \in Nat /\ n - 1 < n /\ n \in DOMAIN before BY <1>0
  <2>1. r \in Seq(SugRows) /\ Stands(rows, r) /\ LeavesDecided(rows, r) /\ Ahead(r, n - 1)
    BY <1>1
  <2>2. \A m \in 1 .. len : m > n => m > n - 1 BY <1>0
  <2>3. CASE ~Missing(before, values, n)
    <3>1. Next1(r, n) = r BY <2>3
    <3>2. Ahead(r, n) BY <2>1, <2>2
    <3> HIDE DEF Next1, Ahead
    <3> QED BY <2>1, <3>1, <3>2
  <2>4. CASE Missing(before, values, n)
    <3>1. PICK i : i = before[n].identity OBVIOUS
    <3>2. n > n - 1 BY <1>0
    <3>3. Leads(r, i, before[n]) BY <2>0, <2>1, <2>4, <3>1, <3>2
    <3>4. PICK k : k = First(OpenOf(r, i)) OBVIOUS
    <3>5. k \in OpenOf(r, i) /\ r[k] = before[n] BY <2>1, <3>3, <3>4, LeadsFirst
    <3>6. k \in DOMAIN r /\ r[k].identity = i /\ r[k].status \in ActiveStatus
      BY <3>5 DEF OpenOf, Of
    <3>7. r[k].status \in {"new", "in-analysis"} BY <2>4, <3>5 DEF Missing
    <3>8. PICK new : new = WithStatus(r, k, "resolved") OBVIOUS
    <3>9. Next1(r, n) = new BY <2>4, <3>1, <3>4, <3>8
    <3>10. "resolved" \in ActiveStatus \cup Decided BY DEF Decided
    <3>11. /\ new \in Seq(SugRows) /\ Stands(r, new) /\ LeavesDecided(r, new)
           /\ \A j, first : j # r[k].identity /\ Leads(r, j, first) => Leads(new, j, first)
      BY <2>1, <3>6, <3>7, <3>8, <3>10, WithStatusKeeps
    <3>12. Stands(rows, new) BY <2>1, <3>11, StandsTrans
    <3>13. LeavesDecided(rows, new) BY <2>1, <3>11 DEF LeavesDecided
    <3>14. Ahead(new, n)
      <4> SUFFICES ASSUME NEW m \in 1 .. len, m > n, Missing(before, values, m)
                   PROVE  Leads(new, before[m].identity, before[m])
        OBVIOUS
      <4>1. before[m].identity # i
        <5>1. m = First(OpenOf(before, before[m].identity)) BY DEF Missing
        <5>2. n = First(OpenOf(before, i)) BY <2>4, <3>1 DEF Missing
        <5>3. m # n BY <1>0
        <5> QED BY <5>1, <5>2, <5>3
      <4>2. Leads(r, before[m].identity, before[m]) BY <2>1, <2>2
      <4> QED BY <3>6, <3>11, <4>1, <4>2
    <3> HIDE DEF Next1, Ahead
    <3> QED BY <3>9, <3>11, <3>12, <3>13, <3>14
  <2> QED BY <2>3, <2>4
<1>2. 0 \in Reached
  <2> DEFINE f == [n \in 0 .. 0 |-> rows]
  <2>1. Is(f, 0) /\ f[0] = rows
    <3> HIDE DEF Next1
    <3> QED OBVIOUS
  <2>2. Good(rows, 0)
    <3>1. Ahead(rows, 0) BY <1>0
    <3> HIDE DEF Ahead
    <3> QED BY <3>1, StandsSame
  <2> HIDE DEF f, Is, Good
  <2> QED BY <2>1, <2>2
<1>3. ASSUME NEW m \in Nat, m \in Reached PROVE m + 1 \in Reached
  <2> SUFFICES ASSUME m + 1 <= len PROVE \E g : Is(g, m + 1) /\ Good(g[m + 1], m + 1)
    <3> HIDE DEF Is, Good
    <3> QED OBVIOUS
  <2>1. PICK f : Is(f, m) /\ Good(f[m], m)
    <3> HIDE DEF Is, Good
    <3> QED BY <1>0, <1>3
  <2> HIDE DEF Good, Next1
  <2> DEFINE g == [n \in 0 .. m + 1 |-> IF n = m + 1 THEN Next1(f[m], m + 1) ELSE f[n]]
  <2>2. \A n \in 0 .. m + 1 : g[n] = IF n = 0 THEN rows ELSE Next1(g[n - 1], n)
    <3> SUFFICES ASSUME NEW n \in 0 .. m + 1
                 PROVE  g[n] = IF n = 0 THEN rows ELSE Next1(g[n - 1], n)
      OBVIOUS
    <3>1. CASE n = m + 1
      <4>1. n - 1 = m /\ n # 0 /\ m \in 0 .. m + 1 /\ m # m + 1 BY <3>1
      <4>2. g[n] = Next1(f[m], m + 1) /\ g[n - 1] = f[m] BY <3>1, <4>1
      <4> HIDE DEF g
      <4> QED BY <3>1, <4>1, <4>2
    <3>2. CASE n # m + 1
      <4>1. n \in 0 .. m /\ (n # 0 => n - 1 \in 0 .. m) BY <3>2
      <4>2. g[n] = f[n] /\ (n # 0 => g[n - 1] = f[n - 1]) BY <4>1
      <4>3. f[n] = IF n = 0 THEN rows ELSE Next1(f[n - 1], n) BY <2>1, <4>1
      <4> QED BY <4>2, <4>3
    <3> QED BY <3>1, <3>2
  <2>3. g = [n \in 0 .. m + 1 |-> g[n]] OBVIOUS
  <2>4. g[m + 1] = Next1(f[m], m + 1) OBVIOUS
  <2> HIDE DEF g
  <2>5. Is(g, m + 1) BY <2>2, <2>3
  <2>6. m + 1 \in 1 .. len /\ (m + 1) - 1 = m BY <1>0
  <2>7. Good(Next1(f[m], m + 1), m + 1) BY <1>1, <2>1, <2>6
  <2> HIDE DEF Is
  <2> QED BY <2>4, <2>5, <2>7
<1>4. len \in Reached
  <2> HIDE DEF Reached
  <2> QED BY <1>0, <1>2, <1>3, SetInduction
<1>5. \E f : Is(f, len) /\ Good(f[len], len)
  <2> HIDE DEF Is, Good
  <2> QED BY <1>0, <1>4
(* The function is the only one. *)
<1>6. PICK after : after = ResolvedUpTo(before, rows, values) BY Zenon
<1>7. Is(after, len) BY <1>5, <1>6 DEF ResolvedUpTo, len
<1>8. PICK f : Is(f, len) /\ Good(f[len], len) BY <1>5
<1> DEFINE Same == {n \in Nat : n <= len => after[n] = f[n]}
<1>9. 0 \in Same
  <2>1. 0 \in 0 .. len BY <1>0
  <2>2. after[0] = rows /\ f[0] = rows BY <1>7, <1>8, <2>1
  <2> QED BY <2>2
<1>10. ASSUME NEW n \in Nat, n \in Same PROVE n + 1 \in Same
  <2> SUFFICES ASSUME n + 1 <= len PROVE after[n + 1] = f[n + 1] OBVIOUS
  <2>1. n + 1 \in 0 .. len /\ n + 1 # 0 /\ (n + 1) - 1 = n /\ n <= len BY <1>0
  <2> HIDE DEF Next1
  <2>2. after[n + 1] = Next1(after[n], n + 1) BY <1>7, <2>1
  <2>3. f[n + 1] = Next1(f[n], n + 1) BY <1>8, <2>1
  <2>4. after[n] = f[n] BY <1>10, <2>1
  <2> QED BY <2>2, <2>3, <2>4
<1>11. len \in Same
  <2> HIDE DEF Same
  <2> QED BY <1>0, <1>9, <1>10, SetInduction
<1>12. next = f[len] BY <1>0, <1>6, <1>11 DEF len
<1>13. Good(next, len)
  <2> HIDE DEF Is, Good
  <2> QED BY <1>8, <1>12
<1> QED BY <1>13

(* What a review leaves. *)
LEMMA ReconcileKeeps ==
  ASSUME NEW rows \in Seq(SugRows), NEW values \in Seq(Values), NEW resolveMissing \in BOOLEAN,
         NEW next, next = Reconcile(rows, values, resolveMissing)
  PROVE  next \in Seq(SugRows) /\ Stands(rows, next) /\ LeavesDecided(rows, next)
<1>1. PICK reported : reported = ReportedUpTo(rows, values)[Len(values)] OBVIOUS
<1>2. /\ reported \in Seq(SugRows) /\ Stands(rows, reported) /\ LeavesDecided(rows, reported)
      /\ \A i, first : (\A v \in DOMAIN values : values[v].identity # i) /\ Leads(rows, i, first)
                          => Leads(reported, i, first)
  BY <1>1, ReportedUpToKeeps
<1>3. CASE ~resolveMissing
  <2>1. next = reported BY <1>1, <1>3 DEF Reconcile
  <2> QED BY <1>2, <2>1
<1>4. CASE resolveMissing
  <2>1. next = ResolvedUpTo(rows, reported, values)[Len(rows)] BY <1>1, <1>4 DEF Reconcile
  <2>2. ASSUME NEW n \in DOMAIN rows, Missing(rows, values, n)
        PROVE  Leads(reported, rows[n].identity, rows[n])
    <3> DEFINE i == rows[n].identity
    <3>1. i = rows[n].identity BY Zenon
    <3> HIDE DEF i
    <3>2. n \in OpenOf(rows, i) BY <2>2, <3>1 DEF Missing, OpenOf, Of, ActiveStatus
    <3>3. OpenOf(rows, i) \in SUBSET Nat
      <4>1. Len(rows) \in Nat /\ DOMAIN rows = 1 .. Len(rows) OBVIOUS
      <4> QED BY <4>1 DEF Of, OpenOf
    <3>4. n = First(OpenOf(rows, i)) BY <2>2, <3>1 DEF Missing
    <3>5. \A k \in OpenOf(rows, i) : n <= k BY <3>2, <3>3, <3>4, FirstIs
    <3>6. Leads(rows, i, rows[n]) BY <3>2, <3>5 DEF Leads
    <3>7. \A v \in DOMAIN values : values[v].identity # i BY <2>2, <3>1 DEF Missing
    <3> QED BY <1>2, <3>1, <3>6, <3>7
  <2>3. next \in Seq(SugRows) /\ Stands(reported, next) /\ LeavesDecided(reported, next)
    BY <1>2, <2>1, <2>2, ResolvedUpToKeeps
  <2>4. Stands(rows, next) BY <1>2, <2>3, StandsTrans
  <2>5. LeavesDecided(rows, next) BY <1>2, <2>3 DEF LeavesDecided
  <2> QED BY <2>3, <2>4, <2>5
<1> QED BY <1>3, <1>4

-----------------------------------------------------------------------------
SuggestionsInv == suggestions \in Seq(SugRows) /\ reviews \in 0 .. MaxReviews

LEMMA SuggestionsTyped == SuggestionsInv => SugTypeOK
<1> SUFFICES ASSUME SuggestionsInv PROVE SugTypeOK OBVIOUS
<1>1. \A k \in DOMAIN suggestions : suggestions[k] \in SugRows BY DEF SuggestionsInv
<1> QED BY <1>1 DEF SuggestionsInv, SugTypeOK, SugRows

LEMMA SuggestionsStep ==
  ASSUME MaxReviews \in Nat, SuggestionsInv, [SugNext]_sugVars
  PROVE  SuggestionsInv' /\ (DecisionsStand \/ UNCHANGED sugVars)
<1>0. suggestions \in Seq(SugRows) /\ reviews \in 0 .. MaxReviews BY DEF SuggestionsInv
<1>1. ASSUME suggestions' \in Seq(SugRows), Stands(suggestions, suggestions'),
             LeavesDecided(suggestions, suggestions') \/ reviews' = reviews
      PROVE  DecisionsStand
  <2>1. \A i : /\ Of(suggestions, i) = Filled(suggestions, NamedRows(i))
               /\ OpenOf(suggestions, i) = Filled(suggestions, OpenRows(i))
               /\ \A s : {k \in Of(suggestions, i) : suggestions[k].status = s}
                         = Filled(suggestions, RowsWith(i, s))
    BY <1>0, FilledAre
  <2>2. \A i : /\ Of(suggestions', i) = Filled(suggestions', NamedRows(i))
               /\ OpenOf(suggestions', i) = Filled(suggestions', OpenRows(i))
               /\ \A s : {k \in Of(suggestions', i) : suggestions'[k].status = s}
                         = Filled(suggestions', RowsWith(i, s))
    BY <1>1, FilledAre
  <2>3. ASSUME NEW i \in Identities, Of(suggestions, i) # {}
        PROVE  /\ Cardinality(Of(suggestions', i)) = Cardinality(Of(suggestions, i))
               /\ OpenOf(suggestions, i) = {} => OpenOf(suggestions', i) = {}
    <3>1. Filled(suggestions, NamedRows(i)) # {} BY <2>1, <2>3
    <3>2. /\ HowMany(suggestions', NamedRows(i)) = HowMany(suggestions, NamedRows(i))
          /\ Filled(suggestions, OpenRows(i)) = {} => Filled(suggestions', OpenRows(i)) = {}
      BY <1>1, <3>1 DEF Stands
    <3> QED BY <2>1, <2>2, <3>2 DEF HowMany
  <2>4. ASSUME reviews' # reviews, NEW i \in Identities, NEW s \in {"accepted", "deferred"}
        PROVE  Cardinality({k \in Of(suggestions', i) : suggestions'[k].status = s})
               = Cardinality({k \in Of(suggestions, i) : suggestions[k].status = s})
    <3>1. HowMany(suggestions', RowsWith(i, s)) = HowMany(suggestions, RowsWith(i, s))
      BY <1>1, <2>4 DEF LeavesDecided
    <3>2. {k \in Of(suggestions', i) : suggestions'[k].status = s}
             = Filled(suggestions', RowsWith(i, s)) BY <2>2
    <3>3. {k \in Of(suggestions, i) : suggestions[k].status = s}
             = Filled(suggestions, RowsWith(i, s)) BY <2>1
    <3> QED BY <3>1, <3>2, <3>3 DEF HowMany
  <2> QED BY <2>3, <2>4 DEF DecisionsStand
<1>2. ASSUME NEW values \in Snapshots, NEW resolve \in BOOLEAN, reviews < MaxReviews,
             suggestions' = Reconcile(suggestions, values, resolve), reviews' = reviews + 1
      PROVE  SuggestionsInv' /\ DecisionsStand
  <2>1. values \in Seq(Values)
    <3>1. PICK n \in 0 .. 2 : values \in [1 .. n -> Values] BY DEF Snapshots
    <3> QED BY <3>1
  <2>2. /\ suggestions' \in Seq(SugRows) /\ Stands(suggestions, suggestions')
        /\ LeavesDecided(suggestions, suggestions')
    BY <1>0, <1>2, <2>1, ReconcileKeeps
  <2>3. reviews' \in 0 .. MaxReviews BY <1>0, <1>2
  <2> QED BY <1>1, <2>2, <2>3 DEF SuggestionsInv
<1>3. ASSUME NEW k \in DOMAIN suggestions, NEW status \in ActiveStatus \cup Decided,
             SetStatus(k, status)
      PROVE  SuggestionsInv' /\ DecisionsStand
  <2>1. suggestions[k].status \in ActiveStatus BY <1>3 DEF SetStatus, Allowed, ActiveStatus
  <2>2. suggestions' = WithStatus(suggestions, k, status) /\ reviews' = reviews
    BY <1>3 DEF SetStatus
  <2>3. suggestions' \in Seq(SugRows) /\ Stands(suggestions, suggestions')
    BY <1>0, <2>1, <2>2, WithStatusKeeps
  <2> QED BY <1>0, <1>1, <2>2, <2>3 DEF SuggestionsInv
<1>4. CASE UNCHANGED sugVars BY <1>0, <1>4 DEF SuggestionsInv, sugVars
<1>5. ASSUME NEW values \in Snapshots, TurnReviewed(values) \/ ExtractSuggestions(values)
      PROVE  SuggestionsInv' /\ DecisionsStand
  <2>1. CASE TurnReviewed(values) BY <1>2, <2>1 DEF TurnReviewed
  <2>2. CASE ExtractSuggestions(values) BY <1>2, <2>2 DEF ExtractSuggestions
  <2> QED BY <1>5, <2>1, <2>2
<1> QED BY <1>3, <1>4, <1>5 DEF SugNext

LEMMA SuggestionsInit ==
  ASSUME MaxReviews \in Nat, SugInit
  PROVE  SuggestionsInv
<1>1. \A i \in Identities, s \in {"accepted", "rejected"} :
         /\ [Row(i, "low") EXCEPT !.status = s] \in SugRows
         /\ Row(i, "low") \in SugRows
  BY DEF Row, SugRows, ActiveStatus, Decided, Severities
<1>2. ASSUME suggestions # <<>> PROVE suggestions \in Seq(SugRows)
  <2>1. PICK i \in Identities, s \in {"accepted", "rejected"} :
            suggestions = <<[Row(i, "low") EXCEPT !.status = s], Row(i, "low")>>
    BY <1>2 DEF SugInit, Legacy
  <2>2. PICK a \in SugRows, b \in SugRows : suggestions = <<a, b>> BY <1>1, <2>1
  <2> QED BY <2>2
<1>3. <<>> \in Seq(SugRows) OBVIOUS
<1>4. suggestions \in Seq(SugRows)
  <2>1. CASE suggestions = <<>> BY <1>3, <2>1
  <2>2. CASE suggestions # <<>> BY <1>2, <2>2
  <2> QED BY <2>1, <2>2
<1>5. reviews = 0 BY DEF SugInit
<1> QED BY <1>4, <1>5 DEF SuggestionsInv

(* What the user decided stays decided, with any number of reviews and of        *)
(* identities: no review and no request reopens a rejected, resolved or invalid  *)
(* suggestion or proposes it again as a second row, and no review takes an        *)
(* accepted or deferred one from the user (SuggestionRepository).              *)
THEOREM ReviewsLeaveDecisions ==
  ASSUME MaxReviews \in Nat
  PROVE  SugSpec => []SugTypeOK /\ [][DecisionsStand]_sugVars
<1>1. SugInit => SuggestionsInv BY SuggestionsInit
<1>2. SuggestionsInv /\ [SugNext]_sugVars => SuggestionsInv' BY SuggestionsStep
<1>3. SuggestionsInv /\ [SugNext]_sugVars => [DecisionsStand]_sugVars BY SuggestionsStep
<1>4. SuggestionsInv => SugTypeOK BY SuggestionsTyped
<1> QED BY <1>1, <1>2, <1>3, <1>4, PTL DEF SugSpec

-----------------------------------------------------------------------------
(* The recursive function that looks at the candidates one after another exists. *)
LEMMA ProposedUpToDef ==
  ASSUME NEW rows, NEW candidates, Len(candidates) \in Nat
  PROVE  LET after == ProposedUpTo(rows, candidates) IN
         after = [n \in 0 .. Len(candidates) |->
                    IF n = 0 THEN rows ELSE Proposed(after[n - 1], candidates[n])]
<1> DEFINE len == Len(candidates)
           Step(f, n) == IF n = 0 THEN rows ELSE Proposed(f[n - 1], candidates[n])
           Reached == {m \in Nat : \E f : f = [n \in 0 .. m |-> Step(f, n)]}
<1>1. 0 \in Reached
  <2> DEFINE f == [n \in 0 .. 0 |-> rows]
  <2>1. f = [n \in 0 .. 0 |-> Step(f, n)] OBVIOUS
  <2> QED BY <2>1
<1>2. ASSUME NEW m \in Nat, m \in Reached PROVE m + 1 \in Reached
  <2>1. PICK f : f = [n \in 0 .. m |-> Step(f, n)] BY <1>2
  <2> DEFINE g == [n \in 0 .. m + 1 |-> IF n = m + 1 THEN Proposed(f[m], candidates[m + 1]) ELSE f[n]]
  <2>2. \A n \in 0 .. m + 1 : g[n] = Step(g, n)
    <3> SUFFICES ASSUME NEW n \in 0 .. m + 1 PROVE g[n] = Step(g, n) OBVIOUS
    <3>1. CASE n = m + 1 BY <3>1
    <3>2. CASE n # m + 1
      <4>1. n \in 0 .. m /\ (n # 0 => n - 1 \in 0 .. m) BY <3>2
      <4>2. g[n] = f[n] /\ (n # 0 => g[n - 1] = f[n - 1]) BY <4>1
      <4>3. f[n] = Step(f, n) BY <2>1, <4>1
      <4> QED BY <4>2, <4>3
    <3> QED BY <3>1, <3>2
  <2>3. g = [n \in 0 .. m + 1 |-> Step(g, n)] BY <2>2
  <2>4. m + 1 \in Nat OBVIOUS
  <2>5. \E h : h = [n \in 0 .. m + 1 |-> Step(h, n)]
    <3> HIDE DEF g, Step
    <3> QED BY <2>3
  <2> HIDE DEF Step
  <2> QED BY <2>4, <2>5
<1>3. len \in Reached
  <2> HIDE DEF Reached
  <2> QED BY <1>1, <1>2, SetInduction
<1>4. \E f : f = [n \in 0 .. len |-> Step(f, n)] BY <1>3
<1> QED BY <1>4 DEF ProposedUpTo
(* What one candidate after another leaves of the rows. *)
LEMMA ProposedUpToSteps ==
  ASSUME NEW rows, NEW candidates, Len(candidates) \in Nat,
         NEW after, after = ProposedUpTo(rows, candidates)
  PROVE  /\ after[0] = rows
         /\ \A n \in 0 .. Len(candidates) - 1 :
               after[n + 1] = Proposed(after[n], candidates[n + 1])
<1>1. after = [n \in 0 .. Len(candidates) |->
                 IF n = 0 THEN rows ELSE Proposed(after[n - 1], candidates[n])]
  BY ProposedUpToDef
<1>2. after[0] = rows BY <1>1
<1>3. ASSUME NEW n \in 0 .. Len(candidates) - 1
      PROVE  after[n + 1] = Proposed(after[n], candidates[n + 1])
  <2>1. n + 1 \in 0 .. Len(candidates) /\ n + 1 # 0 /\ (n + 1) - 1 = n OBVIOUS
  <2> QED BY <1>1, <2>1
<1> QED BY <1>2, <1>3

-----------------------------------------------------------------------------
(* What is given to the agent was approved: so is, and stays, whatever is in  *)
(* use or was outdated after having been in use. *)
InUseIsApproved ==
    \A m \in DOMAIN memories :
        memories[m].status \in {"active", "outdated"} => memories[m].approved

MemoriesInv ==
    /\ memories \in Seq(MemoryRows)
    /\ usedMemories \subseteq DOMAIN memories
    /\ InUseIsApproved
    /\ UsedWasApproved

(* New rows at the end, the agent's own candidates, none of them like a row    *)
(* before it that waits or is in use. *)
Extends(rows, more) ==
    /\ more \in Seq(MemoryRows)
    /\ Len(more) >= Len(rows)
    /\ \A k \in 1 .. Len(rows) : more[k] = rows[k]
    /\ \A k \in Len(rows) + 1 .. Len(more) :
          /\ more[k].status = "candidate"
          /\ \A j \in 1 .. k - 1 :
                ~ (/\ more[j].content = more[k].content
                   /\ more[j].scope = more[k].scope
                   /\ more[j].status \in {"candidate", "active"})

LEMMA ProposedExtends ==
  ASSUME NEW rows \in Seq(MemoryRows), NEW more, Extends(rows, more),
         NEW candidate \in Candidates
  PROVE  Extends(rows, Proposed(more, candidate))
<1> DEFINE note == Memory(candidate.content, candidate.scope, "agent")
<1>1. more \in Seq(MemoryRows) BY DEF Extends
<1>2. CASE FindEquivalent(more, candidate.content, candidate.scope)
  <2>1. Proposed(more, candidate) = more BY <1>2 DEF Proposed
  <2> QED BY <2>1
<1>3. CASE ~ FindEquivalent(more, candidate.content, candidate.scope)
  <2>1. note \in MemoryRows BY DEF Memory, MemoryRows, Candidates
  <2>2. note.status = "candidate" /\ note.content = candidate.content
        /\ note.scope = candidate.scope
    BY DEF Memory
  <2>3. Proposed(more, candidate) = Append(more, note) BY <1>3 DEF Proposed
  <2> HIDE DEF note
  <2>4. /\ Append(more, note) \in Seq(MemoryRows)
        /\ Len(Append(more, note)) = Len(more) + 1
        /\ \A i \in 1 .. Len(more) : Append(more, note)[i] = more[i]
        /\ Append(more, note)[Len(more) + 1] = note
    BY <1>1, <2>1
  <2>5. Len(rows) \in Nat /\ Len(more) \in Nat /\ DOMAIN more = 1 .. Len(more)
    BY <1>1
  <2> DEFINE next == Append(more, note)
  <2> HIDE DEF next
  <2>6. ASSUME NEW k \in Len(rows) + 1 .. Len(next)
        PROVE  /\ next[k].status = "candidate"
               /\ \A j \in 1 .. k - 1 :
                     ~ (/\ next[j].content = next[k].content
                        /\ next[j].scope = next[k].scope
                        /\ next[j].status \in {"candidate", "active"})
    <3>1. CASE k = Len(more) + 1
      <4>1. next[k] = note BY <2>4, <3>1 DEF next
      <4>2. \A j \in 1 .. k - 1 : j \in DOMAIN more /\ next[j] = more[j]
        BY <2>4, <2>5, <3>1 DEF next
      <4> QED BY <1>3, <2>2, <4>1, <4>2 DEF FindEquivalent
    <3>2. CASE k # Len(more) + 1
      <4>1. k \in Len(rows) + 1 .. Len(more) BY <2>4, <2>5, <3>2 DEF next
      <4>2. next[k] = more[k] /\ \A j \in 1 .. k - 1 : next[j] = more[j]
        BY <2>4, <2>5, <4>1 DEF next
      <4> QED BY <4>1, <4>2 DEF Extends
    <3> QED BY <3>1, <3>2
  <2>7. Len(next) >= Len(rows) /\ next \in Seq(MemoryRows)
    BY <2>4, <2>5 DEF next, Extends
  <2>8. \A k \in 1 .. Len(rows) : next[k] = rows[k]
    BY <2>4, <2>5 DEF next, Extends
  <2>9. Extends(rows, next) BY <2>6, <2>7, <2>8 DEF Extends
  <2>10. Proposed(more, candidate) = next BY <2>3 DEF next
  <2> QED BY <2>9, <2>10
<1> QED BY <1>2, <1>3

LEMMA CandidatesExtend ==
  ASSUME NEW rows \in Seq(MemoryRows), NEW len \in Nat, NEW candidates \in [1 .. len -> Candidates]
  PROVE  Extends(rows, ProposedUpTo(rows, candidates)[Len(candidates)])
<1> DEFINE after == ProposedUpTo(rows, candidates)
           Good == {n \in Nat : n <= len => Extends(rows, after[n])}
<1>1. Len(candidates) = len /\ after = ProposedUpTo(rows, candidates) OBVIOUS
<1> HIDE DEF after
<1>2. /\ after[0] = rows
      /\ \A n \in 0 .. len - 1 : after[n + 1] = Proposed(after[n], candidates[n + 1])
  BY <1>1, ProposedUpToSteps
<1>3. 0 \in Good
  <2>1. Extends(rows, rows) BY DEF Extends
  <2> QED BY <1>2, <2>1
<1>4. ASSUME NEW n \in Nat, n \in Good PROVE n + 1 \in Good
  <2> SUFFICES ASSUME n + 1 <= len PROVE Extends(rows, after[n + 1]) OBVIOUS
  <2>1. n \in 0 .. len - 1 /\ candidates[n + 1] \in Candidates OBVIOUS
  <2>2. Extends(rows, after[n]) BY <1>4, <2>1
  <2>3. Extends(rows, Proposed(after[n], candidates[n + 1])) BY <2>1, <2>2, ProposedExtends
  <2> QED BY <1>2, <2>1, <2>3
<1>5. len \in Good
  <2> HIDE DEF Good
  <2> QED BY <1>3, <1>4, SetInduction
<1> QED BY <1>1, <1>5 DEF after
-----------------------------------------------------------------------------
LEMMA MemoriesInitially == MemInit => MemoriesInv
BY DEF MemInit, MemoriesInv, InUseIsApproved, UsedWasApproved

LEMMA CandidatesKeep ==
  ASSUME MemoriesInv, NEW n \in 1 .. 2, NEW c \in [1 .. n -> Candidates], CreateCandidates(c)
  PROVE  /\ MemoriesInv'
         /\ Extends(memories, memories')
<1>1. Extends(memories, memories')
  BY CandidatesExtend DEF CreateCandidates, MemoriesInv
<1>2. /\ memories' \in Seq(MemoryRows)
      /\ DOMAIN memories = 1 .. Len(memories) /\ DOMAIN memories' = 1 .. Len(memories')
      /\ Len(memories) \in Nat /\ Len(memories') \in Nat /\ Len(memories') >= Len(memories)
  BY <1>1 DEF MemoriesInv, Extends
<1>3. \A k \in DOMAIN memories : k \in DOMAIN memories' /\ memories'[k] = memories[k]
  BY <1>1, <1>2 DEF Extends
<1>4. \A k \in DOMAIN memories' \ DOMAIN memories : memories'[k].status = "candidate"
  BY <1>1, <1>2 DEF Extends
<1>5. InUseIsApproved' BY <1>3, <1>4 DEF InUseIsApproved, MemoriesInv
<1>6. usedMemories' = usedMemories BY DEF CreateCandidates
<1>7. usedMemories' \subseteq DOMAIN memories' /\ UsedWasApproved'
  BY <1>3, <1>6 DEF MemoriesInv, UsedWasApproved
<1> QED BY <1>1, <1>2, <1>5, <1>7 DEF MemoriesInv

LEMMA CreateMemoryKeeps ==
  ASSUME MemoriesInv, NEW c \in Contents, NEW s \in Scopes, CreateMemory(c, s)
  PROVE  /\ MemoriesInv'
         /\ Len(memories') = Len(memories) + 1
         /\ memories'[Len(memories) + 1].origin = "manual"
<1> DEFINE note == Memory(c, s, "manual")
<1>1. note \in MemoryRows /\ note.status = "candidate" /\ note.origin = "manual"
  BY DEF Memory, MemoryRows
<1>2. memories' = Append(memories, note) BY DEF CreateMemory
<1> HIDE DEF note
<1>3. /\ memories' \in Seq(MemoryRows) /\ Len(memories') = Len(memories) + 1
      /\ \A k \in 1 .. Len(memories) : memories'[k] = memories[k]
      /\ memories'[Len(memories) + 1] = note
      /\ Len(memories) \in Nat
  BY <1>1, <1>2 DEF MemoriesInv
<1>4. DOMAIN memories = 1 .. Len(memories) /\ DOMAIN memories' = 1 .. Len(memories) + 1
  BY <1>3 DEF MemoriesInv
<1>5. usedMemories' = usedMemories BY DEF CreateMemory
<1>6. InUseIsApproved' BY <1>1, <1>3, <1>4 DEF InUseIsApproved, MemoriesInv
<1>7. usedMemories' \subseteq DOMAIN memories' /\ UsedWasApproved'
  BY <1>3, <1>4, <1>5 DEF MemoriesInv, UsedWasApproved
<1> QED BY <1>1, <1>3, <1>6, <1>7 DEF MemoriesInv

(* One row changes: what is used stays approved if it was, and in use means approved. *)
LEMMA RowChangeKeeps ==
  ASSUME MemoriesInv, NEW m \in DOMAIN memories, NEW note \in MemoryRows,
         memories' = [memories EXCEPT ![m] = note], UNCHANGED usedMemories,
         memories[m].approved => note.approved,
         note.status \in {"active", "outdated"} => note.approved
  PROVE  MemoriesInv' /\ DOMAIN memories' = DOMAIN memories
<1>1. /\ memories' \in Seq(MemoryRows) /\ DOMAIN memories' = DOMAIN memories
      /\ memories'[m] = note
      /\ \A k \in DOMAIN memories : k # m => memories'[k] = memories[k]
  BY DEF MemoriesInv
<1>2. InUseIsApproved' BY <1>1 DEF InUseIsApproved, MemoriesInv
<1>3. usedMemories' \subseteq DOMAIN memories' /\ UsedWasApproved'
  BY <1>1 DEF MemoriesInv, UsedWasApproved
<1> QED BY <1>1, <1>2, <1>3 DEF MemoriesInv

LEMMA UpdateMemoryKeeps ==
  ASSUME MemoriesInv, NEW m \in DOMAIN memories, NEW c \in Contents, NEW s \in Scopes,
         NEW to \in {"candidate", "active", "outdated", "archived"}, UpdateMemory(m, c, s, to)
  PROVE  MemoriesInv' /\ DOMAIN memories' = DOMAIN memories
<1> DEFINE old == memories[m]
           action == StatusAction(old.status, to)
           note == [old EXCEPT !.content = c, !.scope = s, !.status = to,
                              !.approved = @ \/ (to # old.status
                                                   /\ action \in {"approved", "restored"})]
<1>1. old \in MemoryRows BY DEF MemoriesInv
<1>2. /\ note \in MemoryRows /\ note.status = to
      /\ note.approved = (old.approved \/ (to # old.status /\ action \in {"approved", "restored"}))
  BY <1>1 DEF MemoryRows
<1>3. /\ memories' = [memories EXCEPT ![m] = note] /\ UNCHANGED usedMemories
      /\ old.status # "deleted" /\ to \in MemoryMoves(old.status) \cup {old.status}
  BY DEF UpdateMemory
<1>4. old.status \in {"active", "outdated"} => old.approved
  BY DEF MemoriesInv, InUseIsApproved
<1>5. old.status \in {"candidate", "active", "outdated", "archived"}
  BY <1>1, <1>3 DEF MemoryRows
<1>6. to \in {"active", "outdated"} =>
          old.approved \/ (to # old.status /\ action \in {"approved", "restored"})
  <2>1. CASE old.status = "candidate" BY <1>3, <2>1 DEF MemoryMoves, StatusAction
  <2>2. CASE old.status = "archived" BY <1>3, <2>2 DEF MemoryMoves, StatusAction
  <2> QED BY <1>4, <1>5, <2>1, <2>2
<1> HIDE DEF note, old, action
<1>7. note.status \in {"active", "outdated"} => note.approved BY <1>2, <1>6
<1>8. old.approved => note.approved BY <1>2
<1> QED BY <1>2, <1>3, <1>7, <1>8, RowChangeKeeps DEF old

LEMMA DeleteMemoryKeeps ==
  ASSUME MemoriesInv, NEW m \in DOMAIN memories, DeleteMemory(m)
  PROVE  MemoriesInv' /\ DOMAIN memories' = DOMAIN memories
<1> DEFINE note == [memories[m] EXCEPT !.status = "deleted"]
<1>1. memories[m] \in MemoryRows BY DEF MemoriesInv
<1>2. note \in MemoryRows /\ note.status = "deleted" /\ note.approved = memories[m].approved
  BY <1>1 DEF MemoryRows
<1>3. memories' = [memories EXCEPT ![m] = note] /\ UNCHANGED usedMemories
  BY DEF DeleteMemory
<1> HIDE DEF note
<1> QED BY <1>2, <1>3, RowChangeKeeps

LEMMA RetrieveKeeps ==
  ASSUME MemoriesInv, NEW c \in Contents, NEW scopes, Retrieve(c, scopes)
  PROVE  MemoriesInv' /\ UNCHANGED memories
BY DEF Retrieve, BuildContext, MemoriesInv, InUseIsApproved, UsedWasApproved

LEMMA MemoriesStep ==
  ASSUME MemoriesInv, [MemNext]_memVars
  PROVE  MemoriesInv' /\ (ProposalsAreNew \/ UNCHANGED memVars)
<1>1. CASE UNCHANGED memVars
  BY <1>1 DEF memVars, MemoriesInv, InUseIsApproved, UsedWasApproved
<1>2. CASE \E n \in 1 .. 2 : \E c \in [1 .. n -> Candidates] : CreateCandidates(c)
  <2>1. MemoriesInv' /\ Extends(memories, memories') BY <1>2, CandidatesKeep
  <2>2. DOMAIN memories = 1 .. Len(memories) /\ DOMAIN memories' = 1 .. Len(memories')
        /\ Len(memories) \in Nat /\ Len(memories') \in Nat
    BY <2>1 DEF MemoriesInv
  <2>3. ProposalsAreNew BY <2>1, <2>2 DEF Extends, ProposalsAreNew
  <2> QED BY <2>1, <2>3
<1>3. CASE \E c \in Contents, s \in Scopes : CreateMemory(c, s)
  <2>1. /\ MemoriesInv' /\ Len(memories') = Len(memories) + 1
        /\ memories'[Len(memories) + 1].origin = "manual"
    BY <1>3, CreateMemoryKeeps
  <2>2. DOMAIN memories = 1 .. Len(memories) /\ DOMAIN memories' = 1 .. Len(memories')
        /\ Len(memories) \in Nat
    BY <2>1 DEF MemoriesInv
  <2>3. \A m \in DOMAIN memories' \ DOMAIN memories : memories'[m].origin # "agent"
    BY <2>1, <2>2
  <2> QED BY <2>1, <2>3 DEF ProposalsAreNew
<1>4. CASE \E m \in DOMAIN memories, c \in Contents, s \in Scopes,
              to \in {"candidate", "active", "outdated", "archived"} : UpdateMemory(m, c, s, to)
  BY <1>4, UpdateMemoryKeeps DEF ProposalsAreNew
<1>5. CASE \E m \in DOMAIN memories : DeleteMemory(m)
  BY <1>5, DeleteMemoryKeeps DEF ProposalsAreNew
<1>6. CASE \E c \in Contents : Retrieve(c, Scopes) \/ Retrieve(c, {"workspace"})
  <2>1. MemoriesInv' /\ UNCHANGED memories BY <1>6, RetrieveKeeps
  <2> QED BY <2>1 DEF ProposalsAreNew
<1> QED BY <1>1, <1>2, <1>3, <1>4, <1>5, <1>6 DEF MemNext

(* Only what the user approved or restored is given to the agent, whatever edits *)
(* and moves came between (BrainMemoryRepository, BrainMemoryContext).        *)
THEOREM ApprovedMemoriesOnly == MemSpec => [](MemTypeOK /\ UsedWasApproved)
<1>1. MemInit => MemoriesInv BY MemoriesInitially
<1>2. MemoriesInv /\ [MemNext]_memVars => MemoriesInv' BY MemoriesStep
<1>3. MemoriesInv => MemTypeOK /\ UsedWasApproved BY DEF MemoriesInv, MemTypeOK
<1> QED BY <1>1, <1>2, <1>3, PTL DEF MemSpec

(* A turn proposes no memory that waits for a decision or is in use already, nor *)
(* the same one twice (BrainMemoryRepository.createCandidates).              *)
THEOREM MemoriesAreProposedOnce == MemSpec => [][ProposalsAreNew]_memVars
<1>1. MemInit => MemoriesInv BY MemoriesInitially
<1>2. MemoriesInv /\ [MemNext]_memVars => MemoriesInv' /\ [ProposalsAreNew]_memVars
  BY MemoriesStep
<1> QED BY <1>1, <1>2, PTL DEF MemSpec

-----------------------------------------------------------------------------
SavedTexts == [base : Nat, decisions : SUBSET Decisions, time : Nat]
Jobs == [kind : {"save", "repair"}, step : {"waiting", "written", "renamed"}, text : SavedTexts]
AppendStates == [step : {"none", "queued", "read", "written", "done", "failed"}, text : SavedTexts]

TextTypes ==
    /\ file \in SavedTexts /\ row \in SavedTexts /\ late \subseteq SavedTexts
    /\ clock \in Nat /\ saves \in Nat /\ acknowledged \in Nat
    /\ textScreen \subseteq Decisions
    /\ queue \in Seq(Jobs)
    /\ appends \in [Decisions -> AppendStates]
    /\ order \in Seq(Decisions)
    /\ overtaken \in BOOLEAN

(* Only the head of the queue has begun, and saves stand in it in the order they *)
(* were asked in, after whatever was answered. *)
QueueInOrder ==
    /\ \A i \in 1 .. Len(queue) : i # 1 => queue[i].step = "waiting"
    /\ \A i \in 1 .. Len(queue) : queue[i].kind = "save" =>
          /\ acknowledged < queue[i].text.base /\ queue[i].text.base <= saves
          /\ \A j \in 1 .. Len(queue) :
                (queue[j].kind = "save" /\ i < j) => queue[i].text.base < queue[j].text.base

(* The row holds the save that was answered last, and the file is not behind it, *)
(* nor behind the save that has just been renamed. *)
FileIsAhead ==
    /\ row.base = acknowledged /\ acknowledged <= saves
    /\ ~overtaken => /\ acknowledged <= file.base
                     /\ \A i \in 1 .. Len(queue) :
                           (queue[i].kind = "save" /\ queue[i].step = "renamed")
                              => queue[i].text.base <= file.base

(* The texts that no append has changed: what the user saved, and its copies. *)
OwnTexts == {queue[i].text : i \in 1 .. Len(queue)} \cup late \cup {row}

(* A text under way in an append. *)
Appending(d) == appends[d].step \in {"read", "written"}

(* SavedTexts of one save agree, but for the decisions that appends have added; and   *)
(* the append under way, which is alone, has all that stands in the file. *)
TextsAgree ==
    /\ \A p \in OwnTexts : p.base <= saves
    /\ file.base <= saves
    /\ \A p, q \in OwnTexts : p.base = q.base => p.decisions = q.decisions
    /\ \A p \in OwnTexts : p.base = file.base => p.decisions \subseteq file.decisions
    /\ \A d \in Decisions : Appending(d) =>
          /\ Len(order) > 0 /\ order[1] = d
          /\ appends[d].text.base <= saves
          /\ \A p \in OwnTexts : p.base = appends[d].text.base
                                    => p.decisions \subseteq appends[d].text.decisions
          /\ file.base = appends[d].text.base => file.decisions \subseteq appends[d].text.decisions

TextInv == TextTypes /\ QueueInOrder /\ FileIsAhead /\ TextsAgree

LEMMA TextInitially == TextInit => TextInv
<1> SUFFICES ASSUME TextInit PROVE TextInv OBVIOUS
<1> USE DEF TextInit, Text, NotStarted
<1>1. TextTypes
  <2>1. file \in SavedTexts /\ row \in SavedTexts /\ late \subseteq SavedTexts /\ textScreen \subseteq Decisions
        /\ clock \in Nat /\ saves \in Nat /\ acknowledged \in Nat /\ overtaken \in BOOLEAN
    BY DEF SavedTexts
  <2>2. queue \in Seq(Jobs) /\ order \in Seq(Decisions) OBVIOUS
  <2>3. NotStarted \in AppendStates BY DEF AppendStates, SavedTexts
  <2>4. appends \in [Decisions -> AppendStates] BY <2>3
  <2> QED BY <2>1, <2>2, <2>4 DEF TextTypes
<1>2. OwnTexts = {row} /\ Len(queue) = 0 BY DEF OwnTexts
<1>3. QueueInOrder BY DEF QueueInOrder
<1>4. FileIsAhead BY DEF FileIsAhead
<1>5. TextsAgree BY <1>2 DEF TextsAgree, Appending
<1> QED BY <1>1, <1>3, <1>4, <1>5 DEF TextInv

LEMMA TextsTyped ==
  ASSUME TextInv
  PROVE  /\ \A i \in 1 .. Len(queue) : /\ queue[i] \in Jobs /\ queue[i].text \in SavedTexts
                                       /\ queue[i].text.base \in Nat
         /\ \A p \in OwnTexts : p \in SavedTexts /\ p.base \in Nat
         /\ clock \in Nat /\ saves \in Nat /\ acknowledged \in Nat /\ Len(queue) \in Nat
         /\ file.base \in Nat /\ row.base \in Nat
         /\ \A d \in Decisions : appends[d].text \in SavedTexts /\ appends[d].text.base \in Nat
<1>1. \A i \in 1 .. Len(queue) : queue[i] \in Jobs BY DEF TextInv, TextTypes
<1>2. \A i \in 1 .. Len(queue) : queue[i].text \in SavedTexts BY <1>1 DEF Jobs
<1>3. \A p \in OwnTexts : p \in SavedTexts BY <1>2 DEF TextInv, TextTypes, OwnTexts
<1>4. \A p \in SavedTexts : p.base \in Nat BY DEF SavedTexts
<1>5. clock \in Nat /\ saves \in Nat /\ acknowledged \in Nat /\ Len(queue) \in Nat
      /\ file \in SavedTexts /\ row \in SavedTexts
  BY DEF TextInv, TextTypes
<1>6. \A d \in Decisions : appends[d].text \in SavedTexts BY DEF TextInv, TextTypes, AppendStates
<1> QED BY <1>1, <1>2, <1>3, <1>4, <1>5, <1>6

(* What leaves the head of the queue. *)
LEMMA WithoutHead ==
  ASSUME TextTypes, 1 \in 1 .. Len(queue), queue' = Without(1)
  PROVE  /\ queue' \in Seq(Jobs) /\ Len(queue') = Len(queue) - 1
         /\ \A j \in 1 .. Len(queue') : j + 1 \in 1 .. Len(queue) /\ queue'[j] = queue[j + 1]
<1>1. Len(queue) \in Nat /\ Len(queue) - 1 \in Nat BY DEF TextTypes
<1>2. queue' = [j \in 1 .. Len(queue) - 1 |-> queue[j + 1]]
  BY <1>1 DEF Without
<1>3. \A j \in 1 .. Len(queue) - 1 : j + 1 \in 1 .. Len(queue) /\ queue[j + 1] \in Jobs
  BY <1>1 DEF TextTypes
<1>4. queue' \in [1 .. Len(queue) - 1 -> Jobs] BY <1>2, <1>3
<1>5. queue' \in Seq(Jobs) /\ Len(queue') = Len(queue) - 1 BY <1>1, <1>4
<1> QED BY <1>2, <1>3, <1>5

(* A step that only copies what the user saved, to the file or elsewhere. *)
LEMMA CopiesAgree ==
  ASSUME TextsAgree, UNCHANGED <<saves, appends, order>>,
         \A p \in OwnTexts' : \E q \in OwnTexts : p.base = q.base /\ p.decisions = q.decisions,
         file' = file \/ \E q \in OwnTexts : file'.base = q.base /\ file'.decisions = q.decisions
  PROVE  TextsAgree'
<1>1. /\ \A p \in OwnTexts' : p.base <= saves'
      /\ file'.base <= saves'
  BY DEF TextsAgree
<1>2. \A p, q \in OwnTexts' : p.base = q.base => p.decisions = q.decisions
  BY DEF TextsAgree
<1>3. \A p \in OwnTexts' : p.base = file'.base => p.decisions \subseteq file'.decisions
  BY DEF TextsAgree
<1>4. ASSUME NEW d \in Decisions, Appending(d)'
      PROVE  /\ Len(order') > 0 /\ order'[1] = d
             /\ appends'[d].text.base <= saves'
             /\ \A p \in OwnTexts' : p.base = appends'[d].text.base
                                    => p.decisions \subseteq appends'[d].text.decisions
             /\ file'.base = appends'[d].text.base => file'.decisions \subseteq appends'[d].text.decisions
  <2>1. Appending(d) BY <1>4 DEF Appending
  <2> QED BY <2>1 DEF TextsAgree
<1> QED BY <1>1, <1>2, <1>3, <1>4 DEF TextsAgree

LEMMA SaveKeeps == ASSUME TextInv, Save PROVE TextInv'
<1> DEFINE job == Job("save", saves + 1, textScreen)
<1>1. job \in Jobs /\ job.kind = "save" /\ job.step = "waiting"
      /\ job.text.base = saves + 1 /\ job.text.decisions = textScreen
  BY DEF Job, Jobs, Text, SavedTexts, TextInv, TextTypes
<1>2. /\ queue' = Append(queue, job) /\ saves' = saves + 1
      /\ UNCHANGED <<file, row, clock, textScreen, late, appends, order, acknowledged, overtaken>>
  BY DEF Save
<1> HIDE DEF job
<1>3. /\ queue' \in Seq(Jobs) /\ Len(queue) \in Nat /\ Len(queue') = Len(queue) + 1
      /\ \A i \in 1 .. Len(queue) : queue'[i] = queue[i]
      /\ queue'[Len(queue) + 1] = job
  BY <1>1, <1>2 DEF TextInv, TextTypes
<1>4. \A i \in 1 .. Len(queue') : i \in 1 .. Len(queue) \/ i = Len(queue) + 1 BY <1>3
<1>5. TextTypes' BY <1>2, <1>3 DEF TextInv, TextTypes
<1>6. saves \in Nat /\ acknowledged \in Nat /\ acknowledged <= saves
  BY DEF TextInv, TextTypes, FileIsAhead
<1>7. QueueInOrder'
  <2>1. \A i \in 1 .. Len(queue') : i # 1 => queue'[i].step = "waiting"
    BY <1>1, <1>3, <1>4 DEF TextInv, QueueInOrder
  <2>2. ASSUME NEW i \in 1 .. Len(queue'), queue'[i].kind = "save"
        PROVE  /\ acknowledged < queue'[i].text.base /\ queue'[i].text.base <= saves + 1
               /\ \A j \in 1 .. Len(queue') :
                     (queue'[j].kind = "save" /\ i < j) => queue'[i].text.base < queue'[j].text.base
    <3>1. CASE i = Len(queue) + 1 BY <1>1, <1>3, <1>6, <3>1
    <3>2. CASE i \in 1 .. Len(queue)
      <4>1. queue'[i] = queue[i] /\ queue[i].text.base \in Nat
            /\ acknowledged < queue[i].text.base /\ queue[i].text.base <= saves
        <5>1. queue'[i] = queue[i] /\ queue[i].kind = "save" BY <1>3, <2>2, <3>2
        <5>2. queue[i].text.base \in Nat BY <3>2, TextsTyped
        <5> QED BY <3>2, <5>1, <5>2 DEF TextInv, QueueInOrder
      <4>2. \A j \in 1 .. Len(queue) :
               (queue'[j].kind = "save" /\ i < j) => queue[i].text.base < queue'[j].text.base
        BY <1>3, <2>2, <3>2 DEF TextInv, QueueInOrder
      <4>3. queue[i].text.base < queue'[Len(queue) + 1].text.base BY <1>1, <1>3, <1>6, <4>1
      <4>4. queue[i].text.base <= saves + 1 BY <1>6, <4>1
      <4> QED BY <1>4, <4>1, <4>2, <4>3, <4>4
    <3> QED BY <1>4, <3>1, <3>2
  <2> QED BY <1>2, <2>1, <2>2 DEF QueueInOrder
<1>8. FileIsAhead'
  BY <1>1, <1>2, <1>3, <1>4, <1>6 DEF TextInv, FileIsAhead
<1>9. OwnTexts' \subseteq OwnTexts \cup {job.text}
  BY <1>2, <1>3, <1>4 DEF OwnTexts
<1>10. TextsAgree'
  <2>1. \A p \in OwnTexts : p.base \in Nat /\ p.base <= saves
    BY TextsTyped DEF TextInv, TextsAgree
  <2>2. file.base \in Nat /\ file.base <= saves BY DEF TextInv, TextsAgree, TextTypes, SavedTexts
  <2>3. \A d \in Decisions : Appending(d) =>
           appends[d].text.base \in Nat /\ appends[d].text.base <= saves
    BY DEF TextInv, TextsAgree, TextTypes, AppendStates, SavedTexts
  <2>4. \A d \in Decisions : Appending(d)' <=> Appending(d) BY <1>2 DEF Appending
  <2>5. /\ \A p \in OwnTexts' : p.base <= saves'
        /\ file'.base <= saves'
    BY <1>1, <1>2, <1>6, <1>9, <2>1, <2>2
  <2>6. \A p, q \in OwnTexts' : p.base = q.base => p.decisions = q.decisions
    BY <1>1, <1>6, <1>9, <2>1 DEF TextInv, TextsAgree
  <2>7. \A p \in OwnTexts' : p.base = file'.base => p.decisions \subseteq file'.decisions
    BY <1>1, <1>2, <1>6, <1>9, <2>2 DEF TextInv, TextsAgree
  <2>8. ASSUME NEW d \in Decisions, Appending(d)'
        PROVE  /\ Len(order') > 0 /\ order'[1] = d
               /\ appends'[d].text.base <= saves'
               /\ \A p \in OwnTexts' : p.base = appends'[d].text.base
                                    => p.decisions \subseteq appends'[d].text.decisions
               /\ file'.base = appends'[d].text.base
                    => file'.decisions \subseteq appends'[d].text.decisions
    BY <1>1, <1>2, <1>6, <1>9, <2>3, <2>4, <2>8 DEF TextInv, TextsAgree
  <2> QED BY <2>5, <2>6, <2>7, <2>8 DEF TextsAgree
<1> QED BY <1>5, <1>7, <1>8, <1>10 DEF TextInv

LEMMA GetKeeps == ASSUME TextInv, Get PROVE TextInv'
<1>1. UNCHANGED <<file, row, clock, saves, late, appends, order, acknowledged, overtaken>>
  BY DEF Get
<1>2. CASE UNCHANGED queue
  <2>1. textScreen' \subseteq Decisions BY DEF Get, TextInv, TextTypes, SavedTexts
  <2>2. TextTypes' BY <1>1, <1>2, <2>1 DEF TextInv, TextTypes
  <2>3. QueueInOrder' /\ FileIsAhead' BY <1>1, <1>2 DEF TextInv, QueueInOrder, FileIsAhead
  <2>4. OwnTexts' = OwnTexts BY <1>1, <1>2 DEF OwnTexts
  <2>5. TextsAgree' BY <1>1, <2>4, CopiesAgree DEF TextInv
  <2> QED BY <2>2, <2>3, <2>5 DEF TextInv
<1>3. CASE queue' = Append(queue, Job("repair", row.base, row.decisions))
  <2> DEFINE job == Job("repair", row.base, row.decisions)
  <2>1. /\ job \in Jobs /\ job.kind = "repair" /\ job.step = "waiting"
        /\ job.text.base = row.base /\ job.text.decisions = row.decisions
    BY DEF Job, Jobs, Text, SavedTexts, TextInv, TextTypes
  <2>2. queue' = Append(queue, job) BY <1>3
  <2> HIDE DEF job
  <2>3. /\ queue' \in Seq(Jobs) /\ Len(queue) \in Nat /\ Len(queue') = Len(queue) + 1
        /\ \A i \in 1 .. Len(queue) : queue'[i] = queue[i]
        /\ queue'[Len(queue) + 1] = job
    BY <2>1, <2>2 DEF TextInv, TextTypes
  <2>4. \A i \in 1 .. Len(queue') : i \in 1 .. Len(queue) \/ i = Len(queue) + 1 BY <2>3
  <2>5. textScreen' \subseteq Decisions BY DEF Get, TextInv, TextTypes, SavedTexts
  <2>6. TextTypes' BY <1>1, <2>3, <2>5 DEF TextInv, TextTypes
  <2>7. QueueInOrder' BY <1>1, <2>1, <2>3, <2>4 DEF TextInv, QueueInOrder
  <2>8. FileIsAhead' BY <1>1, <2>1, <2>3, <2>4 DEF TextInv, FileIsAhead
  <2>9. row \in OwnTexts /\ OwnTexts' \subseteq OwnTexts \cup {job.text}
    BY <1>1, <2>3, <2>4 DEF OwnTexts
  <2>10. TextsAgree' BY <1>1, <2>1, <2>9, CopiesAgree DEF TextInv
  <2> QED BY <2>6, <2>7, <2>8, <2>10 DEF TextInv
<1> QED BY <1>2, <1>3 DEF Get

(* The head of the queue takes its next step: the others wait. *)
LEMMA HeadMoves ==
  ASSUME TextInv, 1 \in 1 .. Len(queue), NEW job \in Jobs,
         queue' = [queue EXCEPT ![1] = job], job.kind = queue[1].kind,
         job.text.base = queue[1].text.base, UNCHANGED <<saves, acknowledged>>
  PROVE  /\ queue' \in Seq(Jobs) /\ Len(queue') = Len(queue) /\ queue'[1] = job
         /\ \A i \in 1 .. Len(queue) : i # 1 => queue'[i] = queue[i] /\ queue[i].step = "waiting"
         /\ QueueInOrder'
<1>1. /\ queue' \in Seq(Jobs) /\ Len(queue') = Len(queue) /\ queue'[1] = job
      /\ \A i \in 1 .. Len(queue) : i # 1 => queue'[i] = queue[i]
  BY DEF TextInv, TextTypes
<1>2. \A i \in 1 .. Len(queue) : i # 1 => queue[i].step = "waiting"
  BY DEF TextInv, QueueInOrder
<1>3. \A i \in 1 .. Len(queue) : /\ queue'[i].kind = queue[i].kind
                                 /\ queue'[i].text.base = queue[i].text.base
  BY <1>1
<1>4. QueueInOrder' BY <1>1, <1>2, <1>3 DEF TextInv, QueueInOrder
<1> QED BY <1>1, <1>2, <1>4

LEMMA WriteTemporaryKeeps ==
  ASSUME TextInv, NEW i \in 1 .. Len(queue), WriteTemporary(i) PROVE TextInv'
<1> DEFINE job == [queue[1] EXCEPT !.step = "written", !.text.time = clock + 1]
<1>1. i = 1 BY DEF WriteTemporary, Running
<1>2. queue[1] \in Jobs /\ queue[1].text \in SavedTexts /\ clock \in Nat BY <1>1, TextsTyped
<1>3. /\ job \in Jobs /\ job.kind = queue[1].kind /\ job.step = "written"
      /\ job.text.base = queue[1].text.base /\ job.text.decisions = queue[1].text.decisions
  <2>1. clock + 1 \in Nat BY <1>2
  <2>2. [queue[1].text EXCEPT !.time = clock + 1] \in SavedTexts BY <1>2, <2>1 DEF SavedTexts
  <2>3. job.text = [queue[1].text EXCEPT !.time = clock + 1] BY <1>2 DEF Jobs
  <2>4. job.kind = queue[1].kind /\ job.step = "written" BY <1>2 DEF Jobs
  <2>5. job \in Jobs BY <1>2, <2>2 DEF Jobs
  <2>6. job.text.base = queue[1].text.base /\ job.text.decisions = queue[1].text.decisions
    BY <1>2, <2>3 DEF SavedTexts
  <2> QED BY <2>4, <2>5, <2>6
<1>4. /\ queue' = [queue EXCEPT ![1] = job] /\ clock' = clock + 1
      /\ UNCHANGED <<file, row, textScreen, saves, gets, late, appends, order, acknowledged, overtaken>>
  BY <1>1 DEF WriteTemporary
<1> HIDE DEF job
<1>5. /\ queue' \in Seq(Jobs) /\ Len(queue') = Len(queue) /\ queue'[1] = job
      /\ \A k \in 1 .. Len(queue) : k # 1 => queue'[k] = queue[k] /\ queue[k].step = "waiting"
      /\ QueueInOrder'
  BY <1>1, <1>3, <1>4, HeadMoves
<1>6. TextTypes' BY <1>2, <1>4, <1>5 DEF TextInv, TextTypes
<1>7. FileIsAhead' BY <1>3, <1>4, <1>5 DEF TextInv, FileIsAhead
<1>8. queue[1].text \in OwnTexts /\ OwnTexts' \subseteq OwnTexts \cup {job.text}
  BY <1>1, <1>4, <1>5 DEF OwnTexts
<1>9. TextsAgree' BY <1>3, <1>4, <1>8, CopiesAgree DEF TextInv
<1> QED BY <1>5, <1>6, <1>7, <1>9 DEF TextInv

LEMMA RenameKeeps ==
  ASSUME TextInv, NEW i \in 1 .. Len(queue), Rename(i) PROVE TextInv'
<1> DEFINE job == [queue[1] EXCEPT !.step = "renamed"]
<1>1. i = 1 BY DEF Rename, Running
<1>2. queue[1] \in Jobs /\ queue[1].text \in SavedTexts BY <1>1, TextsTyped
<1>3. job \in Jobs /\ job.kind = queue[1].kind /\ job.step = "renamed" /\ job.text = queue[1].text
  BY <1>2 DEF Jobs
<1>4. /\ queue' = [queue EXCEPT ![1] = job] /\ file' = queue[1].text
      /\ UNCHANGED <<row, clock, textScreen, saves, gets, late, appends, order, acknowledged>>
  BY <1>1 DEF Rename, Replace
<1>5. /\ queue[1].kind = "save" => UNCHANGED overtaken
      /\ queue[1].kind # "save" => overtaken' = (overtaken \/ queue[1].text.base < file.base)
  BY <1>1 DEF Rename, Replace
<1> HIDE DEF job
<1>6. /\ queue' \in Seq(Jobs) /\ Len(queue') = Len(queue) /\ queue'[1] = job
      /\ \A k \in 1 .. Len(queue) : k # 1 => queue'[k] = queue[k] /\ queue[k].step = "waiting"
      /\ QueueInOrder'
  BY <1>1, <1>3, <1>4, HeadMoves
<1>7. TextTypes' BY <1>2, <1>4, <1>5, <1>6 DEF TextInv, TextTypes
<1>8. FileIsAhead'
  <2>1. /\ file.base \in Nat /\ acknowledged \in Nat /\ file'.base \in Nat
        /\ queue[1].text.base = file'.base
    BY <1>2, <1>4 DEF TextInv, TextTypes, SavedTexts
  <2>2. row'.base = acknowledged' /\ acknowledged' <= saves' BY <1>4 DEF TextInv, FileIsAhead
  <2>3. ASSUME ~overtaken' PROVE acknowledged' <= file'.base
    <3>1. CASE queue[1].kind = "save"
      BY <1>1, <1>4, <2>1, <3>1 DEF TextInv, QueueInOrder
    <3>2. CASE queue[1].kind # "save"
      <4>1. ~overtaken /\ ~(queue[1].text.base < file.base) BY <1>5, <2>3, <3>2
      <4>2. acknowledged <= file.base BY <4>1 DEF TextInv, FileIsAhead
      <4> QED BY <1>4, <2>1, <4>1, <4>2
    <3> QED BY <3>1, <3>2
  <2>4. \A k \in 1 .. Len(queue') : queue'[k].step = "renamed" => queue'[k].text.base <= file'.base
    BY <1>3, <1>6, <2>1
  <2> QED BY <2>2, <2>3, <2>4 DEF FileIsAhead
<1>9. queue[1].text \in OwnTexts /\ OwnTexts' \subseteq OwnTexts
  BY <1>1, <1>3, <1>4, <1>6 DEF OwnTexts
<1>10. TextsAgree' BY <1>4, <1>9, CopiesAgree DEF TextInv
<1> QED BY <1>6, <1>7, <1>8, <1>10 DEF TextInv

LEMMA FinishKeeps ==
  ASSUME TextInv, NEW i \in 1 .. Len(queue), Finish(i) PROVE TextInv'
<1>1. i = 1 /\ queue' = Without(1) BY DEF Finish, Running
<1>2. /\ queue' \in Seq(Jobs) /\ Len(queue') = Len(queue) - 1 /\ Len(queue) \in Nat
      /\ \A j \in 1 .. Len(queue') : j + 1 \in 1 .. Len(queue) /\ queue'[j] = queue[j + 1]
  BY <1>1, WithoutHead DEF TextInv, TextTypes
<1>3. queue[1] \in Jobs /\ queue[1].text \in SavedTexts /\ clock \in Nat /\ acknowledged \in Nat
  BY <1>1, TextsTyped
<1>4. UNCHANGED <<file, textScreen, saves, gets, late, appends, order, overtaken>>
  BY DEF Finish
<1>5. \A j \in 1 .. Len(queue') : queue'[j].step = "waiting"
  <2> SUFFICES ASSUME NEW j \in 1 .. Len(queue') PROVE queue'[j].step = "waiting" OBVIOUS
  <2>1. j + 1 # 1 /\ j + 1 \in 1 .. Len(queue) /\ queue'[j] = queue[j + 1] BY <1>2
  <2> QED BY <2>1 DEF TextInv, QueueInOrder
<1>6. CASE queue[1].kind = "save"
  <2>1. /\ clock' = clock + 1 /\ row' = [queue[1].text EXCEPT !.time = clock + 1]
        /\ acknowledged < queue[1].text.base /\ queue[1].text.base <= saves
        /\ acknowledged' = queue[1].text.base
    BY <1>1, <1>3, <1>6 DEF Finish, TextInv, QueueInOrder, SavedTexts
  <2>2. /\ row' \in SavedTexts /\ row'.base = queue[1].text.base
        /\ row'.decisions = queue[1].text.decisions
    BY <1>3, <2>1 DEF SavedTexts
  <2>3. TextTypes' BY <1>2, <1>3, <1>4, <2>1, <2>2 DEF TextInv, TextTypes, SavedTexts
  <2>4. QueueInOrder'
    <3>1. ASSUME NEW j \in 1 .. Len(queue'), queue'[j].kind = "save"
          PROVE  /\ acknowledged' < queue'[j].text.base /\ queue'[j].text.base <= saves'
                 /\ \A k \in 1 .. Len(queue') :
                       (queue'[k].kind = "save" /\ j < k) => queue'[j].text.base < queue'[k].text.base
      <4>1. /\ j + 1 \in 1 .. Len(queue) /\ queue'[j] = queue[j + 1] /\ 1 < j + 1
            /\ queue[j + 1].kind = "save"
        BY <1>2, <3>1
      <4>2. queue[1].text.base < queue[j + 1].text.base /\ queue[j + 1].text.base <= saves
        BY <1>1, <1>6, <4>1 DEF TextInv, QueueInOrder
      <4>3. ASSUME NEW k \in 1 .. Len(queue'), queue'[k].kind = "save", j < k
            PROVE  queue'[j].text.base < queue'[k].text.base
        <5>1. k + 1 \in 1 .. Len(queue) /\ queue'[k] = queue[k + 1] /\ j + 1 < k + 1
          BY <1>2, <4>3
        <5> QED BY <4>1, <4>3, <5>1 DEF TextInv, QueueInOrder
      <4> QED BY <1>4, <2>1, <4>1, <4>2, <4>3
    <3> QED BY <1>5, <3>1 DEF QueueInOrder
  <2>5. FileIsAhead'
    <3>1. ~overtaken => queue[1].text.base <= file.base
      BY <1>1, <1>6 DEF Finish, TextInv, FileIsAhead
    <3> QED BY <1>4, <1>5, <2>1, <2>2, <3>1 DEF FileIsAhead
  <2>6. queue[1].text \in OwnTexts /\ OwnTexts' \subseteq OwnTexts \cup {row'}
    BY <1>1, <1>2, <1>4 DEF OwnTexts
  <2>7. TextsAgree' BY <1>4, <2>2, <2>6, CopiesAgree DEF TextInv
  <2> QED BY <2>3, <2>4, <2>5, <2>7 DEF TextInv
<1>7. CASE queue[1].kind # "save"
  <2>1. UNCHANGED <<clock, row, acknowledged>> BY <1>1, <1>7 DEF Finish
  <2>2. TextTypes' BY <1>2, <1>4, <2>1 DEF TextInv, TextTypes
  <2>3. QueueInOrder'
    <3>1. ASSUME NEW j \in 1 .. Len(queue'), queue'[j].kind = "save"
          PROVE  /\ acknowledged' < queue'[j].text.base /\ queue'[j].text.base <= saves'
                 /\ \A k \in 1 .. Len(queue') :
                       (queue'[k].kind = "save" /\ j < k) => queue'[j].text.base < queue'[k].text.base
      <4>1. j + 1 \in 1 .. Len(queue) /\ queue'[j] = queue[j + 1] BY <1>2, <3>1
      <4>2. acknowledged < queue[j + 1].text.base /\ queue[j + 1].text.base <= saves
        BY <3>1, <4>1 DEF TextInv, QueueInOrder
      <4>3. ASSUME NEW k \in 1 .. Len(queue'), queue'[k].kind = "save", j < k
            PROVE  queue'[j].text.base < queue'[k].text.base
        <5>1. k + 1 \in 1 .. Len(queue) /\ queue'[k] = queue[k + 1] /\ j + 1 < k + 1
          BY <1>2, <4>3
        <5> QED BY <3>1, <4>1, <4>3, <5>1 DEF TextInv, QueueInOrder
      <4> QED BY <1>4, <2>1, <4>1, <4>2, <4>3
    <3> QED BY <1>5, <3>1 DEF QueueInOrder
  <2>4. FileIsAhead' BY <1>4, <1>5, <2>1 DEF TextInv, FileIsAhead
  <2>5. OwnTexts' \subseteq OwnTexts BY <1>2, <1>4, <2>1 DEF OwnTexts
  <2>6. TextsAgree' BY <1>4, <2>5, CopiesAgree DEF TextInv
  <2> QED BY <2>2, <2>3, <2>4, <2>6 DEF TextInv
<1> QED BY <1>6, <1>7

LEMMA SaveFailsKeeps ==
  ASSUME TextInv, NEW i \in 1 .. Len(queue), SaveFails(i) PROVE TextInv'
<1>1. i = 1 /\ queue' = Without(1) BY DEF SaveFails, Running
<1>2. /\ queue' \in Seq(Jobs) /\ Len(queue') = Len(queue) - 1 /\ Len(queue) \in Nat
      /\ \A j \in 1 .. Len(queue') : j + 1 \in 1 .. Len(queue) /\ queue'[j] = queue[j + 1]
  BY <1>1, WithoutHead DEF TextInv, TextTypes
<1>3. UNCHANGED <<file, row, clock, textScreen, saves, gets, appends, order, acknowledged, overtaken>>
      /\ late' \subseteq late \cup {queue[1].text} /\ queue[1].text \in SavedTexts
  BY <1>1, TextsTyped DEF SaveFails
<1>4. TextTypes' BY <1>2, <1>3 DEF TextInv, TextTypes
<1>5. \A j \in 1 .. Len(queue') : queue'[j].step = "waiting"
  <2> SUFFICES ASSUME NEW j \in 1 .. Len(queue') PROVE queue'[j].step = "waiting" OBVIOUS
  <2>1. j + 1 # 1 /\ j + 1 \in 1 .. Len(queue) /\ queue'[j] = queue[j + 1] BY <1>2
  <2> QED BY <2>1 DEF TextInv, QueueInOrder
<1>6. QueueInOrder'
  <2>1. ASSUME NEW j \in 1 .. Len(queue'), queue'[j].kind = "save"
        PROVE  /\ acknowledged' < queue'[j].text.base /\ queue'[j].text.base <= saves'
               /\ \A k \in 1 .. Len(queue') :
                     (queue'[k].kind = "save" /\ j < k) => queue'[j].text.base < queue'[k].text.base
    <3>1. j + 1 \in 1 .. Len(queue) /\ queue'[j] = queue[j + 1] BY <1>2, <2>1
    <3>2. acknowledged < queue[j + 1].text.base /\ queue[j + 1].text.base <= saves
      BY <2>1, <3>1 DEF TextInv, QueueInOrder
    <3>3. ASSUME NEW k \in 1 .. Len(queue'), queue'[k].kind = "save", j < k
          PROVE  queue'[j].text.base < queue'[k].text.base
      <4>1. k + 1 \in 1 .. Len(queue) /\ queue'[k] = queue[k + 1] /\ j + 1 < k + 1
        BY <1>2, <3>3
      <4> QED BY <2>1, <3>1, <3>3, <4>1 DEF TextInv, QueueInOrder
    <3> QED BY <1>3, <3>1, <3>2, <3>3
  <2> QED BY <1>5, <2>1 DEF QueueInOrder
<1>7. FileIsAhead' BY <1>3, <1>5 DEF TextInv, FileIsAhead
<1>8. OwnTexts' \subseteq OwnTexts BY <1>1, <1>2, <1>3 DEF OwnTexts
<1>9. TextsAgree' BY <1>3, <1>8, CopiesAgree DEF TextInv
<1> QED BY <1>4, <1>6, <1>7, <1>9 DEF TextInv

(* A writer that is not a save says so when its text is the older one. *)
LEMMA ReplaceKeepsAhead ==
  ASSUME TextInv, NEW text \in SavedTexts, Replace(text), UNCHANGED <<row, acknowledged, saves, queue>>
  PROVE  FileIsAhead' /\ overtaken' \in BOOLEAN
<1>1. file' = text /\ overtaken' = (overtaken \/ text.base < file.base) BY DEF Replace
<1>2. text.base \in Nat /\ file.base \in Nat /\ acknowledged \in Nat
      /\ \A k \in 1 .. Len(queue) : queue[k].text.base \in Nat
  BY TextsTyped DEF SavedTexts
<1>3. ASSUME ~overtaken' PROVE ~overtaken /\ file.base <= text.base
  <2>1. ~overtaken /\ ~(text.base < file.base) BY <1>1, <1>3, Zenon
  <2> QED BY <1>2, <2>1
<1>4. ~overtaken' => acknowledged <= text.base BY <1>2, <1>3 DEF TextInv, FileIsAhead
<1>5. ASSUME ~overtaken', NEW k \in 1 .. Len(queue), queue[k].kind = "save", queue[k].step = "renamed"
      PROVE  queue[k].text.base <= text.base
  BY <1>2, <1>3, <1>5 DEF TextInv, FileIsAhead
<1>6. row.base = acknowledged /\ acknowledged <= saves BY DEF TextInv, FileIsAhead
<1> QED BY <1>1, <1>4, <1>5, <1>6 DEF FileIsAhead

LEMMA LateRenameKeeps ==
  ASSUME TextInv, NEW text \in late, LateRename(text) PROVE TextInv'
<1>1. text \in OwnTexts /\ text \in SavedTexts BY DEF OwnTexts, TextInv, TextTypes
<1>2. /\ late' = late \ {text} /\ file' = text /\ Replace(text)
      /\ UNCHANGED <<row, clock, textScreen, saves, gets, queue, appends, order, acknowledged>>
  BY DEF LateRename, Replace
<1>3. FileIsAhead' /\ overtaken' \in BOOLEAN BY <1>1, <1>2, ReplaceKeepsAhead
<1>4. TextTypes' BY <1>1, <1>2, <1>3 DEF TextInv, TextTypes
<1>5. QueueInOrder' BY <1>2 DEF TextInv, QueueInOrder
<1>6. OwnTexts' \subseteq OwnTexts BY <1>2 DEF OwnTexts
<1>7. TextsAgree' BY <1>1, <1>2, <1>6, CopiesAgree DEF TextInv
<1> QED BY <1>3, <1>4, <1>5, <1>7 DEF TextInv

(* Steps of the appends that leave the file alone. *)
LEMMA AppendMoves ==
  ASSUME TextInv, UNCHANGED <<file, row, saves, queue, late, acknowledged, overtaken, textScreen>>,
         clock' \in Nat, appends' \in [Decisions -> AppendStates], order' \in Seq(Decisions),
         \A e \in Decisions : Appending(e)' =>
            /\ Len(order') > 0 /\ order'[1] = e
            /\ \/ /\ appends'[e].text.base = file.base
                  /\ file.decisions \subseteq appends'[e].text.decisions
               \/ /\ Appending(e) /\ appends'[e].text.base = appends[e].text.base
                  /\ appends[e].text.decisions \subseteq appends'[e].text.decisions
  PROVE  TextInv'
<1>1. TextTypes' BY DEF TextInv, TextTypes
<1>2. QueueInOrder' /\ FileIsAhead' BY DEF TextInv, QueueInOrder, FileIsAhead
<1>3. OwnTexts' = OwnTexts BY DEF OwnTexts
<1>4. ASSUME NEW d \in Decisions, Appending(d)'
      PROVE  /\ Len(order') > 0 /\ order'[1] = d
             /\ appends'[d].text.base <= saves
             /\ \A p \in OwnTexts : p.base = appends'[d].text.base
                                    => p.decisions \subseteq appends'[d].text.decisions
             /\ file.base = appends'[d].text.base => file.decisions \subseteq appends'[d].text.decisions
  <2>1. CASE appends'[d].text.base = file.base /\ file.decisions \subseteq appends'[d].text.decisions
    BY <1>4, <2>1 DEF TextInv, TextsAgree
  <2>2. CASE /\ Appending(d) /\ appends'[d].text.base = appends[d].text.base
             /\ appends[d].text.decisions \subseteq appends'[d].text.decisions
    BY <1>4, <2>2 DEF TextInv, TextsAgree
  <2> QED BY <1>4, <2>1, <2>2
<1>5. TextsAgree' BY <1>3, <1>4 DEF TextInv, TextsAgree
<1> QED BY <1>1, <1>2, <1>5 DEF TextInv

LEMMA JoinAppendsKeeps == ASSUME TextInv, NEW d \in Decisions, JoinAppends(d) PROVE TextInv'
<1> DEFINE state == [appends[d] EXCEPT !.step = "queued"]
<1>1. appends[d] \in AppendStates /\ order \in Seq(Decisions) /\ clock \in Nat
      /\ appends \in [Decisions -> AppendStates]
  BY DEF TextInv, TextTypes
<1>2. state \in AppendStates /\ state.step = "queued" BY <1>1 DEF AppendStates
<1>3. /\ appends' = [appends EXCEPT ![d] = state] /\ order' = Append(order, d)
      /\ UNCHANGED <<file, row, clock, textScreen, saves, gets, queue, late, acknowledged, overtaken>>
  BY DEF JoinAppends
<1> HIDE DEF state
<1>4. /\ appends' \in [Decisions -> AppendStates] /\ appends'[d] = state
      /\ \A e \in Decisions : e # d => appends'[e] = appends[e]
  BY <1>1, <1>2, <1>3
<1>5. order' \in Seq(Decisions) /\ Len(order') = Len(order) + 1 /\ Len(order) \in Nat
      /\ (Len(order) > 0 => order'[1] = order[1])
  BY <1>1, <1>3
<1>6. ASSUME NEW e \in Decisions, Appending(e)'
      PROVE  /\ Len(order') > 0 /\ order'[1] = e
             /\ Appending(e) /\ appends'[e] = appends[e]
  <2>1. e # d BY <1>2, <1>4, <1>6 DEF Appending
  <2>2. Appending(e) /\ appends'[e] = appends[e] BY <1>4, <1>6, <2>1 DEF Appending
  <2>3. Len(order) > 0 /\ order[1] = e BY <2>2 DEF TextInv, TextsAgree
  <2> QED BY <1>5, <2>2, <2>3
<1> QED BY <1>1, <1>3, <1>4, <1>5, <1>6, AppendMoves

LEMMA AppendReadsKeeps == ASSUME TextInv, NEW d \in Decisions, AppendReads(d) PROVE TextInv'
<1> DEFINE state == [step |-> "read", text |-> file]
<1>1. appends \in [Decisions -> AppendStates] /\ order \in Seq(Decisions) /\ clock \in Nat
      /\ file \in SavedTexts
  BY DEF TextInv, TextTypes
<1>2. state \in AppendStates /\ state.text = file BY <1>1 DEF AppendStates
<1>3. /\ appends' = [appends EXCEPT ![d] = state] /\ Len(order) > 0 /\ order[1] = d
      /\ UNCHANGED <<file, row, clock, textScreen, saves, gets, queue, late, order, acknowledged, overtaken>>
  BY DEF AppendReads, TurnOf
<1> HIDE DEF state
<1>4. /\ appends' \in [Decisions -> AppendStates] /\ appends'[d] = state
      /\ \A e \in Decisions : e # d => appends'[e] = appends[e]
  BY <1>1, <1>2, <1>3
<1>5. ASSUME NEW e \in Decisions, Appending(e)', e # d PROVE FALSE
  BY <1>3, <1>4, <1>5 DEF Appending, TextInv, TextsAgree
<1> QED BY <1>1, <1>2, <1>3, <1>4, <1>5, AppendMoves

LEMMA AppendWritesKeeps == ASSUME TextInv, NEW d \in Decisions, AppendWrites(d) PROVE TextInv'
<1> DEFINE state == [step |-> "written",
                     text |-> Text(appends[d].text.base, appends[d].text.decisions \cup {d}, clock + 1)]
<1>1. appends \in [Decisions -> AppendStates] /\ order \in Seq(Decisions) /\ clock \in Nat
  BY DEF TextInv, TextTypes
<1>2. appends[d].text \in SavedTexts /\ Appending(d) BY TextsTyped DEF AppendWrites, Appending
<1>3. /\ state \in AppendStates /\ state.text.base = appends[d].text.base
      /\ appends[d].text.decisions \subseteq state.text.decisions
  BY <1>1, <1>2 DEF AppendStates, SavedTexts, Text
<1>4. /\ appends' = [appends EXCEPT ![d] = state] /\ clock' = clock + 1
      /\ UNCHANGED <<file, row, textScreen, saves, gets, queue, late, order, acknowledged, overtaken>>
  BY DEF AppendWrites
<1> HIDE DEF state
<1>5. /\ appends' \in [Decisions -> AppendStates] /\ appends'[d] = state
      /\ \A e \in Decisions : e # d => appends'[e] = appends[e]
  BY <1>1, <1>3, <1>4
<1>6. Len(order) > 0 /\ order[1] = d BY <1>2 DEF TextInv, TextsAgree
<1>7. ASSUME NEW e \in Decisions, Appending(e)', e # d PROVE FALSE
  BY <1>5, <1>6, <1>7 DEF Appending, TextInv, TextsAgree
<1>8. clock' \in Nat BY <1>1, <1>4
<1> QED BY <1>1, <1>2, <1>3, <1>4, <1>5, <1>6, <1>7, <1>8, AppendMoves

(* The head of the queue of appends leaves it; nobody else had begun. *)
LEMMA AppendLeaves ==
  ASSUME TextInv, NEW d \in Decisions, NEW step \in {"done", "failed"}, AppendEnds(d, step),
         Len(order) > 0, order[1] = d
  PROVE  /\ appends' \in [Decisions -> AppendStates] /\ order' \in Seq(Decisions)
         /\ appends'[d].step = step
         /\ \A e \in Decisions : ~Appending(e)'
<1> DEFINE state == [appends[d] EXCEPT !.step = step]
<1>1. appends \in [Decisions -> AppendStates] /\ order \in Seq(Decisions)
  BY DEF TextInv, TextTypes
<1>2. state \in AppendStates /\ state.step = step BY <1>1 DEF AppendStates
<1>3. appends' = [appends EXCEPT ![d] = state] /\ order' = Tail(order) BY DEF AppendEnds
<1> HIDE DEF state
<1>4. /\ appends' \in [Decisions -> AppendStates] /\ appends'[d] = state
      /\ \A e \in Decisions : e # d => appends'[e] = appends[e]
  BY <1>1, <1>2, <1>3
<1>5. order # <<>> BY <1>1
<1>6. order' \in Seq(Decisions) BY <1>1, <1>3, <1>5
<1>7. ASSUME NEW e \in Decisions, Appending(e)' PROVE FALSE
  <2>1. e # d BY <1>2, <1>4, <1>7 DEF Appending
  <2> QED BY <1>4, <1>7, <2>1 DEF Appending, TextInv, TextsAgree
<1> QED BY <1>2, <1>4, <1>6, <1>7

LEMMA AppendRenamesKeeps ==
  ASSUME TextInv, NEW d \in Decisions, AppendRenames(d)
  PROVE  TextInv' /\ file' = appends[d].text
<1>1. appends[d].text \in SavedTexts /\ appends[d].step = "written" /\ Appending(d)
  BY TextsTyped DEF AppendRenames, Appending
<1>2. Len(order) > 0 /\ order[1] = d BY <1>1 DEF TextInv, TextsAgree
<1>3. /\ Replace(appends[d].text) /\ file' = appends[d].text /\ AppendEnds(d, "done")
      /\ UNCHANGED <<row, clock, textScreen, saves, gets, queue, late, acknowledged>>
  BY DEF AppendRenames, AppendEnds, Replace
<1>4. /\ appends' \in [Decisions -> AppendStates] /\ order' \in Seq(Decisions)
      /\ \A e \in Decisions : ~Appending(e)'
  BY <1>2, <1>3, AppendLeaves
<1>5. FileIsAhead' /\ overtaken' \in BOOLEAN BY <1>1, <1>3, ReplaceKeepsAhead
<1>6. TextTypes' BY <1>1, <1>3, <1>4, <1>5 DEF TextInv, TextTypes
<1>7. QueueInOrder' BY <1>3 DEF TextInv, QueueInOrder
<1>8. OwnTexts' = OwnTexts BY <1>3 DEF OwnTexts
<1>9. TextsAgree' BY <1>1, <1>3, <1>4, <1>8 DEF TextInv, TextsAgree
<1> QED BY <1>3, <1>5, <1>6, <1>7, <1>9 DEF TextInv

LEMMA AppendFailsKeeps == ASSUME TextInv, NEW d \in Decisions, AppendFails(d) PROVE TextInv'
<1>1. Len(order) > 0 /\ order[1] = d /\ AppendEnds(d, "failed") BY DEF AppendFails, TurnOf
<1>2. UNCHANGED <<file, overtaken, row, clock, textScreen, saves, gets, queue, late, acknowledged>>
  BY DEF AppendFails, AppendEnds
<1>3. /\ appends' \in [Decisions -> AppendStates] /\ order' \in Seq(Decisions)
      /\ \A e \in Decisions : ~Appending(e)'
  BY <1>1, AppendLeaves
<1>4. clock' \in Nat BY <1>2 DEF TextInv, TextTypes
<1> QED BY <1>2, <1>3, <1>4, AppendMoves

LEMMA TextStep == ASSUME TextInv, [TextNext]_textVars PROVE TextInv'
<1>1. CASE UNCHANGED textVars
  <2>1. TextTypes' /\ QueueInOrder' /\ FileIsAhead'
    BY <1>1 DEF textVars, TextInv, TextTypes, QueueInOrder, FileIsAhead
  <2>2. OwnTexts' = OwnTexts BY <1>1 DEF textVars, OwnTexts
  <2>3. TextsAgree' BY <1>1, <2>2, CopiesAgree DEF textVars, TextInv
  <2> QED BY <2>1, <2>3 DEF TextInv
<1>2. CASE Save BY <1>2, SaveKeeps
<1>3. CASE Get BY <1>3, GetKeeps
<1>4. CASE \E i \in 1 .. Len(queue) : WriteTemporary(i) \/ Rename(i) \/ Finish(i) \/ SaveFails(i)
  BY <1>4, WriteTemporaryKeeps, RenameKeeps, FinishKeeps, SaveFailsKeeps
<1>5. CASE \E text \in late : LateRename(text) BY <1>5, LateRenameKeeps
<1>6. CASE \E d \in Decisions : \/ JoinAppends(d) \/ AppendReads(d) \/ AppendWrites(d)
                                \/ AppendRenames(d) \/ AppendFails(d)
  BY <1>6, JoinAppendsKeeps, AppendReadsKeeps, AppendWritesKeeps, AppendRenamesKeeps, AppendFailsKeeps
<1> QED BY <1>1, <1>2, <1>3, <1>4, <1>5, <1>6 DEF TextNext

(* Only its rename ends an append that has written its text. *)
LEMMA OnlyRenameEnds ==
  ASSUME TextInv, TextNext, NEW d \in Decisions,
         appends[d].step = "written", appends'[d].step = "done"
  PROVE  AppendRenames(d)
<1>1. appends' # appends OBVIOUS
<1>2. PICK e \in Decisions : \/ JoinAppends(e) \/ AppendReads(e) \/ AppendWrites(e)
                             \/ AppendRenames(e) \/ AppendFails(e)
  BY <1>1 DEF TextNext, Save, Get, WriteTemporary, Rename, Finish, SaveFails, LateRename
<1>3. appends \in [Decisions -> AppendStates] BY DEF TextInv, TextTypes
<1>4. CASE e = d
  <2>1. ~JoinAppends(d) /\ ~AppendReads(d) /\ ~AppendWrites(d)
    BY DEF JoinAppends, AppendReads, AppendWrites
  <2>2. ~AppendFails(d) BY <1>3 DEF AppendFails, AppendEnds, AppendStates
  <2> QED BY <1>2, <1>4, <2>1, <2>2
<1>5. CASE e # d
  <2>1. appends'[d] = appends[d]
    BY <1>2, <1>3, <1>5
       DEF JoinAppends, AppendReads, AppendWrites, AppendRenames, AppendFails, AppendEnds
  <2> QED BY <2>1
<1> QED BY <1>4, <1>5

LEMMA AppendsStep == ASSUME TextInv, TextNext PROVE AppendsKeepDecisions
<1> SUFFICES ASSUME NEW d \in Decisions, appends[d].step = "written", appends'[d].step = "done",
                    appends[d].text.base = file.base
             PROVE  file.decisions \subseteq file'.decisions
  BY DEF AppendsKeepDecisions
<1>1. AppendRenames(d) BY OnlyRenameEnds
<1>2. file' = appends[d].text BY <1>1 DEF AppendRenames, Replace
<1>3. file.decisions \subseteq appends[d].text.decisions BY DEF TextInv, TextsAgree, Appending
<1> QED BY <1>2, <1>3

(* A save of the memory that was answered is not shown replaced by an earlier one, *)
(* whichever of the row and the file memory.get answers, unless a writer that is  *)
(* not a save put its older text over a newer (SerializedWriteQueue).            *)
THEOREM AnsweredSavesAreShown == TextSpec => []SavesAreKept
<1>1. TextInit => TextInv BY TextInitially
<1>2. TextInv /\ [TextNext]_textVars => TextInv' BY TextStep
<1>3. TextInv => SavesAreKept
  BY TextsTyped DEF TextInv, FileIsAhead, SavesAreKept, ShownSave
<1> QED BY <1>1, <1>2, <1>3, PTL DEF TextSpec

(* Two decisions appended at one time are both in the file: an append takes out no *)
(* decision that stands under the user's text it has read (SuggestionDecisionLog). *)
THEOREM AppendsTakeNothingOut == TextSpec => [][AppendsKeepDecisions]_textVars
<1>1. TextInit => TextInv BY TextInitially
<1>2. TextInv /\ [TextNext]_textVars => TextInv' /\ [AppendsKeepDecisions]_textVars
  BY TextStep, AppendsStep
<1> QED BY <1>1, <1>2, PTL DEF TextSpec

-----------------------------------------------------------------------------
(* What a variable or a message on the wire may hold. *)
Answers == Submits \X {"main", "window"}
Outcomes == {"completed", "failed", "ready"}
StatusMessages == [kind : {"status"}, what : {"busy", "cancelling"} \cup Outcomes,
                   run : Submits, talk : Talks, seq : Nat]
DeltaMessages == [kind : {"delta"}, what : Nat, run : Submits, talk : Talks, seq : Nat]
CompletedMessages == [kind : {"completed"}, what : {0, 1}, run : Submits, talk : Talks, seq : Nat]
RefusedMessages == [kind : {"refused"}, what : {"send", "cancel"}, run : Nat,
                    talk : Talks \cup {"none"}, seq : Nat]
PageMessages == [kind : {"page"}, what : Seq(Answers), run : {0, 1}, talk : Talks, seq : Nat]
SavedMessages == [kind : {"saved"}, what : {0}, run : Submits, talk : {"none"}, seq : Nat]
WireMessages == StatusMessages \cup DeltaMessages \cup CompletedMessages
                  \cup RefusedMessages \cup PageMessages \cup SavedMessages

MainStates == [run : Submits \cup {0}, talk : Talks \cup {"none"},
               phase : {"none", "planning", "running", "cancelling", "finishing"},
               seq : Nat, deltas : 0 .. MaxDeltas, outcome : Outcomes \cup {"none"}, stored : BOOLEAN]
SendStates == [step : {"none", "asked", "starting", "done"}, talk : Talks \cup {"none"}]
Screens == [talk : Talks, status : {"busy", "cancelling"} \cup Outcomes, finalizing : BOOLEAN,
            stream : Seq(Submits \X Nat), messages : Seq(Answers), reads : Nat]
RunStates == [active : Submits \cup {0}, retired : SUBSET Submits, overlap : BOOLEAN,
              accepted : [Submits -> Nat]]
FinishStates == [step : {"none", "saving", "answered", "refreshing", "done", "failed"}, turn : Nat]
PageRequests == [kind : {"open", "latest"}, talk : Talks]
Turns == [id : Submits \cup {0}, talk : Talks \cup {"none"}]

RunTypes ==
    /\ main \in MainStates /\ sends \in [Submits -> SendStates]
    /\ wire \in Seq(WireMessages) /\ cancels \subseteq Talks /\ stored \subseteq Answers
    /\ screen \in Screens /\ buffer \in Seq(Submits \X Nat) /\ turn \in Turns
    /\ runs \in RunStates /\ finishing \in [Submits -> FinishStates]
    /\ pages \subseteq PageRequests

(* Where a run stands: it is active in main or not, from its start on; and one that *)
(* has left main never comes back. *)
MainInOrder ==
    /\ main.phase = "none" <=> main.run = 0
    /\ main.run # 0 => /\ main.talk \in Talks
                       /\ sends[main.run].step \in {"starting", "done"}
    /\ main.phase = "finishing" =>
          /\ sends[main.run].step = "done" /\ main.outcome \in Outcomes
          /\ main.stored <=> <<main.run, "main">> \in stored
    /\ \A i \in Submits : sends[i].step # "none" => sends[i].talk \in Talks

(* A run that is over, without an answer of main's. *)
NoAnswer(i) == sends[i].step = "done" /\ main.run # i /\ <<i, "main">> \notin stored

(* Who stores the answer: main while it ends the run, else the window, when it has *)
(* been told that main did not. *)
MainWrites ==
    \A i \in Submits : <<i, "main">> \in stored =>
        sends[i].step = "done" /\ (main.run = i => main.phase = "finishing")

WindowWrites ==
    \A i \in Submits :
        /\ finishing[i].step \in {"saving", "answered"} => NoAnswer(i)
        /\ <<i, "window">> \in stored =>
              NoAnswer(i) /\ finishing[i].step \notin {"none", "saving"}
        /\ finishing[i].step # "none" => i \in runs.retired

(* Answers of the database, each once. *)
Listing(answers) ==
    /\ \A i \in 1 .. Len(answers) : answers[i] \in stored
    /\ \A i, j \in 1 .. Len(answers) : i # j => answers[i] # answers[j]
Lists(answers, m) == \E i \in 1 .. Len(answers) : answers[i] = m

(* What a message says is so, and stays so. *)
SaysTrue(m) ==
    /\ m.kind = "completed" => IF m.what = 0 THEN NoAnswer(m.run)
                                ELSE <<m.run, "main">> \in stored
    /\ m.kind = "saved" => <<m.run, "window">> \in stored
    /\ m.kind = "page" => Listing(m.what)
WireIsTrue == \A k \in 1 .. Len(wire) : SaysTrue(wire[k])

(* The answer that the window has saved is not on the screen yet, nor on a page   *)
(* that arrives before the reply. *)
ComesBefore(m, saved) ==
    /\ m.kind = "page" => ~Lists(m.what, <<saved.run, "window">>)
    /\ m.kind = "saved" => m.run # saved.run
SavedNotShown ==
    \A k \in 1 .. Len(wire) : wire[k].kind = "saved" =>
        /\ ~Lists(screen.messages, <<wire[k].run, "window">>)
        /\ \A j \in 1 .. k - 1 : ComesBefore(wire[j], wire[k])

ScreenInv == /\ RunTypes /\ MainInOrder /\ MainWrites /\ WindowWrites
             /\ Listing(screen.messages) /\ WireIsTrue /\ SavedNotShown

-----------------------------------------------------------------------------
(* What each kind of message carries. *)
LEMMA MessagesTyped ==
  ASSUME NEW m \in WireMessages
  PROVE  /\ m.kind \in {"status", "delta", "completed", "refused", "page", "saved"}
         /\ m.kind = "status" => /\ m.what \in {"busy", "cancelling"} \cup Outcomes
                                 /\ m.run \in Submits /\ m.talk \in Talks
         /\ m.kind = "delta" => m.what \in Nat /\ m.run \in Submits /\ m.talk \in Talks
         /\ m.kind = "completed" => m.what \in {0, 1} /\ m.run \in Submits /\ m.talk \in Talks
         /\ m.kind = "page" => m.what \in Seq(Answers) /\ m.talk \in Talks
         /\ m.kind = "saved" => m.run \in Submits
         /\ m.seq \in Nat
<1> USE DEF Outcomes
<1>1. CASE m \in StatusMessages BY <1>1 DEF StatusMessages
<1>2. CASE m \in DeltaMessages BY <1>2 DEF DeltaMessages
<1>3. CASE m \in CompletedMessages BY <1>3 DEF CompletedMessages
<1>4. CASE m \in RefusedMessages BY <1>4 DEF RefusedMessages
<1>5. CASE m \in PageMessages BY <1>5 DEF PageMessages
<1>6. CASE m \in SavedMessages BY <1>6 DEF SavedMessages
<1> QED BY <1>1, <1>2, <1>3, <1>4, <1>5, <1>6 DEF WireMessages

(* Unawaited leaves out messages, and turns none around. *)
LEMMA UnawaitedDef ==
  ASSUME NEW messages, Len(messages) \in Nat
  PROVE  \E kept :
            /\ kept = [n \in 0 .. Len(messages) |->
                         IF n = 0 THEN <<>>
                         ELSE IF AwaitedPage(messages[n]) THEN kept[n - 1]
                         ELSE Append(kept[n - 1], messages[n])]
            /\ Unawaited(messages) = kept[Len(messages)]
<1> DEFINE len == Len(messages)
           Step(f, n) == IF n = 0 THEN <<>>
                         ELSE IF AwaitedPage(messages[n]) THEN f[n - 1]
                         ELSE Append(f[n - 1], messages[n])
           Reached == {m \in Nat : \E f : f = [n \in 0 .. m |-> Step(f, n)]}
<1>1. 0 \in Reached
  <2> DEFINE f == [n \in 0 .. 0 |-> <<>>]
  <2>1. f = [n \in 0 .. 0 |-> Step(f, n)] OBVIOUS
  <2> QED BY <2>1
<1>2. ASSUME NEW m \in Nat, m \in Reached PROVE m + 1 \in Reached
  <2>1. PICK f : f = [n \in 0 .. m |-> Step(f, n)] BY <1>2
  <2> DEFINE new == IF AwaitedPage(messages[m + 1]) THEN f[m] ELSE Append(f[m], messages[m + 1])
             g == [n \in 0 .. m + 1 |-> IF n = m + 1 THEN new ELSE f[n]]
  <2>2. \A n \in 0 .. m + 1 : g[n] = Step(g, n)
    <3> SUFFICES ASSUME NEW n \in 0 .. m + 1 PROVE g[n] = Step(g, n) OBVIOUS
    <3>1. CASE n = m + 1
      <4>1. n - 1 = m /\ n # 0 /\ m \in 0 .. m + 1 /\ m # m + 1 BY <3>1
      <4>2. g[n] = new /\ g[n - 1] = f[m] BY <3>1, <4>1
      <4> HIDE DEF g
      <4> QED BY <3>1, <4>1, <4>2
    <3>2. CASE n # m + 1
      <4>1. n \in 0 .. m /\ (n # 0 => n - 1 \in 0 .. m) BY <3>2
      <4>2. g[n] = f[n] /\ (n # 0 => g[n - 1] = f[n - 1]) BY <4>1
      <4>3. f[n] = Step(f, n) BY <2>1, <4>1
      <4> QED BY <4>2, <4>3
    <3> QED BY <3>1, <3>2
  <2>3. g = [n \in 0 .. m + 1 |-> Step(g, n)] BY <2>2
  <2>4. m + 1 \in Nat OBVIOUS
  <2>5. \E h : h = [n \in 0 .. m + 1 |-> Step(h, n)]
    <3> HIDE DEF g, Step
    <3> QED BY <2>3
  <2> HIDE DEF Step
  <2> QED BY <2>4, <2>5
<1>3. len \in Reached
  <2> HIDE DEF Reached
  <2> QED BY <1>1, <1>2, SetInduction
<1>4. \E f : f = [n \in 0 .. len |-> Step(f, n)] BY <1>3
<1> QED BY <1>4 DEF Unawaited

Among(part, whole, n, place) ==
    /\ place \in [1 .. Len(part) -> 1 .. n]
    /\ \A k \in 1 .. Len(part) : part[k] = whole[place[k]]
    /\ \A j, k \in 1 .. Len(part) : j < k => place[j] < place[k]

KeepsAwaited(part, whole, n, place) ==
    \A l \in 1 .. n : ~AwaitedPage(whole[l]) => \E k \in 1 .. Len(part) : place[k] = l

LEMMA UnawaitedAmong ==
  ASSUME NEW S, NEW messages \in Seq(S)
  PROVE  /\ Unawaited(messages) \in Seq(S)
         /\ \E place : /\ Among(Unawaited(messages), messages, Len(messages), place)
                       /\ KeepsAwaited(Unawaited(messages), messages, Len(messages), place)
<1> DEFINE len == Len(messages)
<1>0. len \in Nat /\ \A n \in 1 .. len : messages[n] \in S OBVIOUS
<1>1. PICK kept :
         /\ kept = [n \in 0 .. len |-> IF n = 0 THEN <<>>
                      ELSE IF AwaitedPage(messages[n]) THEN kept[n - 1]
                      ELSE Append(kept[n - 1], messages[n])]
         /\ Unawaited(messages) = kept[len]
  BY <1>0, UnawaitedDef
<1> DEFINE Good(n) == kept[n] \in Seq(S) /\ \E place :
                         Among(kept[n], messages, n, place) /\ KeepsAwaited(kept[n], messages, n, place)
           Reached == {n \in Nat : n <= len => Good(n)}
<1>2. 0 \in Reached
  <2>1. kept[0] = <<>> BY <1>0, <1>1
  <2> DEFINE place == [k \in 1 .. 0 |-> 0]
  <2>2. Among(<<>>, messages, 0, place) /\ KeepsAwaited(<<>>, messages, 0, place)
    BY DEF Among, KeepsAwaited
  <2> HIDE DEF place
  <2>3. /\ <<>> \in Seq(S)
        /\ \E p : Among(<<>>, messages, 0, p) /\ KeepsAwaited(<<>>, messages, 0, p)
    BY <2>2
  <2>4. Good(0) BY <2>1, <2>3
  <2> HIDE DEF Good
  <2> QED BY <2>4
<1>3. ASSUME NEW n \in Nat, n \in Reached PROVE n + 1 \in Reached
  <2> SUFFICES ASSUME n + 1 <= len PROVE Good(n + 1) OBVIOUS
  <2>1. kept[n] \in Seq(S) /\ \E place :
           Among(kept[n], messages, n, place) /\ KeepsAwaited(kept[n], messages, n, place)
    BY <1>0, <1>3
  <2>2. n + 1 \in 1 .. len /\ n + 1 \in 0 .. len /\ n + 1 # 0 /\ (n + 1) - 1 = n BY <1>0
  <2>3. PICK place :
           Among(kept[n], messages, n, place) /\ KeepsAwaited(kept[n], messages, n, place)
    BY <2>1
  <2>4. Len(kept[n]) \in Nat BY <2>1
  <2>7. /\ place \in [1 .. Len(kept[n]) -> 1 .. n]
        /\ \A k \in 1 .. Len(kept[n]) : place[k] \in 1 .. n /\ place[k] \in 1 .. n + 1
    <3>1. place \in [1 .. Len(kept[n]) -> 1 .. n] BY <2>3 DEF Among
    <3>2. \A i \in 1 .. n : i \in 1 .. n + 1 OBVIOUS
    <3> QED BY <3>1, <3>2
  <2>5. CASE AwaitedPage(messages[n + 1])
    <3>1. kept[n + 1] = kept[n] BY <1>1, <2>2, <2>5
    <3>2. Among(kept[n], messages, n + 1, place) BY <2>3, <2>4 DEF Among
    <3>3. KeepsAwaited(kept[n], messages, n + 1, place)
      <4>1. \A l \in 1 .. n + 1 : l = n + 1 \/ l \in 1 .. n OBVIOUS
      <4> QED BY <2>3, <2>5, <4>1 DEF KeepsAwaited
    <3> QED BY <2>1, <3>1, <3>2, <3>3
  <2>6. CASE ~AwaitedPage(messages[n + 1])
    <3> DEFINE old == kept[n]
               new == Append(old, messages[n + 1])
               more == [k \in 1 .. Len(old) + 1 |-> IF k = Len(old) + 1 THEN n + 1 ELSE place[k]]
    <3>1. kept[n + 1] = new BY <1>1, <2>2, <2>6
    <3>2. messages[n + 1] \in S BY <1>0, <2>2
    <3>3. /\ new \in Seq(S) /\ Len(new) = Len(old) + 1
          /\ \A k \in 1 .. Len(old) : new[k] = old[k]
          /\ new[Len(old) + 1] = messages[n + 1]
      BY <2>1, <3>2
    <3>4. more \in [1 .. Len(old) + 1 -> 1 .. n + 1]
      <4>1. \A k \in 1 .. Len(old) + 1 : k # Len(old) + 1 => k \in 1 .. Len(old) BY <2>4
      <4>2. n + 1 \in 1 .. n + 1 OBVIOUS
      <4> HIDE DEF old
      <4> QED BY <4>1, <4>2, <2>7 DEF old
    <3>5. \A k \in 1 .. Len(old) : more[k] = place[k] /\ place[k] \in 1 .. n
      <4>1. \A k \in 1 .. Len(old) : k \in 1 .. Len(old) + 1 /\ k # Len(old) + 1 BY <2>4
      <4> QED BY <4>1, <2>7
    <3>6. more[Len(old) + 1] = n + 1 BY <2>4
    <3> HIDE DEF more, new, old
    <3>7. Len(old) \in Nat BY <2>4 DEF old
    <3>8. \A k \in 1 .. Len(new) : new[k] = messages[more[k]]
      <4> SUFFICES ASSUME NEW k \in 1 .. Len(new) PROVE new[k] = messages[more[k]] OBVIOUS
      <4>1. CASE k = Len(old) + 1 BY <3>3, <3>6, <4>1
      <4>2. CASE k # Len(old) + 1
        <5>1. k \in 1 .. Len(old) BY <3>3, <3>7, <4>2
        <5> QED BY <5>1, <3>3, <3>5, <2>3 DEF Among, old
      <4> QED BY <4>1, <4>2
    <3>9. \A j, k \in 1 .. Len(new) : j < k => more[j] < more[k]
      <4> SUFFICES ASSUME NEW j \in 1 .. Len(new), NEW k \in 1 .. Len(new), j < k
                   PROVE more[j] < more[k] OBVIOUS
      <4>1. j \in 1 .. Len(old) BY <3>3, <3>7
      <4>2. CASE k = Len(old) + 1 BY <3>5, <3>6, <4>1, <4>2
      <4>3. CASE k # Len(old) + 1
        <5>1. k \in 1 .. Len(old) BY <3>3, <3>7, <4>3
        <5>2. place[j] < place[k] BY <2>3, <4>1, <5>1 DEF Among, old
        <5> QED BY <5>1, <5>2, <4>1, <3>5
      <4> QED BY <4>2, <4>3
    <3>10. Among(new, messages, n + 1, more) BY <3>3, <3>4, <3>8, <3>9 DEF Among
    <3>11. KeepsAwaited(new, messages, n + 1, more)
      <4>1. \A l \in 1 .. n + 1 : l = n + 1 \/ l \in 1 .. n OBVIOUS
      <4>2. \A k \in 1 .. Len(old) : k \in 1 .. Len(new) BY <3>3, <3>7
      <4>3. Len(old) + 1 \in 1 .. Len(new) BY <3>3, <3>7
      <4>4. \A l \in 1 .. n : ~AwaitedPage(messages[l]) => \E k \in 1 .. Len(old) : place[k] = l
        BY <2>3 DEF KeepsAwaited, old
      <4> QED BY <3>5, <3>6, <4>1, <4>2, <4>3, <4>4 DEF KeepsAwaited
    <3> QED BY <3>1, <3>3, <3>10, <3>11
  <2> QED BY <2>5, <2>6
<1>4. len \in Reached
  <2> HIDE DEF Reached
  <2> QED BY <1>0, <1>2, <1>3, SetInduction
<1> QED BY <1>0, <1>1, <1>4

(* A finite set of answers has a list with its elements in the order of their runs. *)
Sorted(s) == \A i, j \in DOMAIN s : i < j => s[i] # s[j] /\ s[i][1] <= s[j][1]

LEMMA SortedListExists ==
  ASSUME MaxSubmits \in Nat, NEW set \in SUBSET Answers, IsFiniteSet(set)
  PROVE  Cardinality(set) \in Nat /\ \E s \in [1 .. Cardinality(set) -> set] : Sorted(s)
<1> DEFINE HasList(U) == \E s \in [1 .. Cardinality(U) -> U] : Sorted(s)
           Reached == {n \in Nat : \A U \in SUBSET Answers :
                          IsFiniteSet(U) /\ Cardinality(U) = n => HasList(U)}
<1>1. 0 \in Reached
  <2> SUFFICES ASSUME NEW U \in SUBSET Answers, IsFiniteSet(U), Cardinality(U) = 0
               PROVE HasList(U) OBVIOUS
  <2> DEFINE s == [i \in 1 .. 0 |-> <<0, "main">>]
  <2>1. s \in [1 .. 0 -> U] /\ Sorted(s) BY DEF Sorted
  <2> HIDE DEF s
  <2> QED BY <2>1
<1>2. ASSUME NEW n \in Nat, n \in Reached PROVE n + 1 \in Reached
  <2> SUFFICES ASSUME NEW U \in SUBSET Answers, IsFiniteSet(U), Cardinality(U) = n + 1
               PROVE HasList(U) OBVIOUS
  <2>1. U # {}
    <3>1. Cardinality({}) = 0 BY FS_EmptySet
    <3> QED BY <3>1
  <2> DEFINE Its == {a[1] : a \in U}
  <2>2. Its \in SUBSET Nat /\ Its # {} /\ \A x \in Its : x <= MaxSubmits
    <3>1. \A a \in U : a[1] \in Nat /\ a[1] <= MaxSubmits BY DEF Answers, Submits
    <3> QED BY <3>1, <2>1
  <2>3. PICK x \in Its : \A y \in Its : y <= x
    <3> HIDE DEF Its
    <3> QED BY <2>2, GreatestOfSet
  <2>4. PICK last \in U : last[1] = x OBVIOUS
  <2>5. \A a \in U : a[1] <= last[1] BY <2>3, <2>4
  <2> DEFINE rest == U \ {last}
  <2>6. IsFiniteSet(rest) /\ Cardinality(rest) = n
    <3>1. IsFiniteSet(rest) /\ Cardinality(rest) = Cardinality(U) - 1 BY <2>4, FS_RemoveElement
    <3> QED BY <3>1
  <2>7. HasList(rest) BY <1>2, <2>6
  <2>8. PICK s \in [1 .. n -> rest] : Sorted(s) BY <2>6, <2>7
  <2> DEFINE t == [i \in 1 .. n + 1 |-> IF i = n + 1 THEN last ELSE s[i]]
  <2>9. \A i \in 1 .. n + 1 : i # n + 1 => i \in 1 .. n OBVIOUS
  <2>10. t \in [1 .. n + 1 -> U] BY <2>8, <2>9, <2>4
  <2>11. Sorted(t)
    <3> SUFFICES ASSUME NEW i \in 1 .. n + 1, NEW j \in 1 .. n + 1, i < j
                 PROVE t[i] # t[j] /\ t[i][1] <= t[j][1]
      BY DEF Sorted
    <3>1. i # n + 1 /\ i \in 1 .. n OBVIOUS
    <3>2. t[i] = s[i] /\ s[i] \in U /\ s[i] # last BY <2>8, <3>1
    <3>3. CASE j = n + 1
      <4>1. t[j] = last BY <3>3
      <4> HIDE DEF t
      <4> QED BY <3>2, <4>1, <2>5
    <3>4. CASE j # n + 1
      <4>1. j \in 1 .. n BY <3>4
      <4>2. t[j] = s[j] BY <3>4, <4>1
      <4>3. s[i] # s[j] /\ s[i][1] <= s[j][1] BY <2>8, <3>1, <4>1 DEF Sorted
      <4> HIDE DEF t
      <4> QED BY <3>2, <4>2, <4>3
    <3> QED BY <3>3, <3>4
  <2> HIDE DEF t
  <2> QED BY <2>10, <2>11
<1>3. Cardinality(set) \in Nat BY FS_CardinalityType
<1>4. Cardinality(set) \in Reached
  <2> HIDE DEF Reached
  <2> QED BY <1>1, <1>2, <1>3, SetInduction
<1> QED BY <1>3, <1>4

LEMMA PageOfStored ==
  ASSUME MaxSubmits \in Nat, stored \subseteq Answers, NEW talk
  PROVE  /\ InOrder(Messages(talk)) \in Seq(Answers)
         /\ Listing(InOrder(Messages(talk)))
         /\ \A a \in Messages(talk) : Lists(InOrder(Messages(talk)), a)
<1> DEFINE set == Messages(talk)
           page == InOrder(set)
           len == Cardinality(set)
<1>1. IsFiniteSet(stored)
  <2>1. IsFiniteSet(Submits) BY FS_Interval DEF Submits
  <2>2. IsFiniteSet({"main", "window"})
    <3>1. IsFiniteSet({"main"}) BY FS_Singleton
    <3>2. IsFiniteSet({"main"} \cup {"window"}) BY <3>1, FS_AddElement
    <3>3. {"main"} \cup {"window"} = {"main", "window"} OBVIOUS
    <3> QED BY <3>2, <3>3
  <2>3. IsFiniteSet(Answers) BY <2>1, <2>2, FS_Product DEF Answers
  <2> QED BY <2>3, FS_Subset
<1>2. set \subseteq stored BY DEF Messages
<1>3. set \in SUBSET Answers /\ IsFiniteSet(set) BY <1>1, <1>2, FS_Subset
<1> HIDE DEF set
<1>4. len \in Nat /\ \E s \in [1 .. len -> set] : Sorted(s) BY <1>3, SortedListExists
<1>5. page \in [1 .. len -> set] /\ Sorted(page)
  <2>1. page = CHOOSE s \in [1 .. len -> set] : Sorted(s) BY DEF InOrder, Sorted
  <2> HIDE DEF page
  <2> QED BY <1>4, <2>1
<1> HIDE DEF page, len
<1>6. Len(page) = len /\ DOMAIN page = 1 .. len BY <1>4, <1>5
<1>7. page \in Seq(Answers) BY <1>3, <1>4, <1>5
<1>8. \A i \in 1 .. len : page[i] \in stored BY <1>2, <1>5
<1>9. \A i, j \in 1 .. len : i # j => page[i] # page[j]
  <2> SUFFICES ASSUME NEW i \in 1 .. len, NEW j \in 1 .. len, i # j PROVE page[i] # page[j]
    OBVIOUS
  <2>1. i < j \/ j < i BY <1>4
  <2> QED BY <1>5, <1>6, <2>1 DEF Sorted
<1>10. page \in Seq(Answers) /\ Listing(page) BY <1>6, <1>7, <1>8, <1>9 DEF Listing
<1>11. \A a \in set : Lists(page, a)
  <2>1. Cardinality(1 .. len) = Cardinality(set)
    <3>1. Cardinality(1 .. len) = len BY <1>4, FS_Interval
    <3> QED BY <3>1 DEF len
  <2>2. page \in Injection(1 .. len, set) BY <1>5, <1>9 DEF Injection, IsInjective
  <2>3. page \in Surjection(1 .. len, set) BY <1>3, <2>1, <2>2, FS_Injection
  <2>4. \A a \in set : \E i \in 1 .. len : page[i] = a BY <2>3 DEF Surjection
  <2> QED BY <1>6, <2>4 DEF Lists
<1> QED BY <1>10, <1>11 DEF page, set

(* The messages that an action of the main process sends. *)
LEMMA PushedOne ==
  ASSUME NEW m, NEW kind, NEW what
  PROVE  Pushed(m, <<<<kind, what>>>>) =
            <<[kind |-> kind, what |-> what, run |-> m.run, talk |-> m.talk, seq |-> m.seq + 1]>>
BY DEF Pushed

LEMMA PushedTwo ==
  ASSUME NEW m, NEW kind, NEW what, NEW kind2, NEW what2
  PROVE  Pushed(m, <<<<kind, what>>, <<kind2, what2>>>>) =
            <<[kind |-> kind, what |-> what, run |-> m.run, talk |-> m.talk, seq |-> m.seq + 1],
              [kind |-> kind2, what |-> what2, run |-> m.run, talk |-> m.talk,
               seq |-> m.seq + 2]>>
BY DEF Pushed

-----------------------------------------------------------------------------
LEMMA ListingKept ==
  ASSUME stored \subseteq stored', NEW answers, Listing(answers)
  PROVE  Listing(answers)'
BY DEF Listing

LEMMA SaysTrueKept ==
  ASSUME stored \subseteq stored', \A i \in Submits : NoAnswer(i) => NoAnswer(i)',
         NEW m \in WireMessages, SaysTrue(m)
  PROVE  SaysTrue(m)'
<1>1. m.kind = "completed" => m.run \in Submits BY MessagesTyped
<1>2. m.kind = "page" => Listing(m.what)' BY ListingKept DEF SaysTrue
<1> QED BY <1>1, <1>2 DEF SaysTrue

(* Messages join the queue. *)
LEMMA WireGrows ==
  ASSUME wire \in Seq(WireMessages), WireIsTrue, SavedNotShown,
         stored \subseteq stored', \A i \in Submits : NoAnswer(i) => NoAnswer(i)',
         screen'.messages = screen.messages,
         NEW more \in Seq(WireMessages), wire' = wire \o more,
         \A k \in 1 .. Len(more) :
            /\ SaysTrue(more[k])'
            /\ more[k].kind = "saved" =>
                  /\ Len(more) = 1
                  /\ ~Lists(screen.messages, <<more[k].run, "window">>)
                  /\ \A j \in 1 .. Len(wire) : ComesBefore(wire[j], more[k])
  PROVE  wire' \in Seq(WireMessages) /\ WireIsTrue' /\ SavedNotShown'
<1> DEFINE len == Len(wire)
<1>1. /\ len \in Nat /\ Len(more) \in Nat /\ Len(wire') = len + Len(more)
      /\ \A k \in 1 .. len : wire'[k] = wire[k] /\ wire[k] \in WireMessages
      /\ \A k \in len + 1 .. len + Len(more) : wire'[k] = more[k - len]
  OBVIOUS
<1>2. wire' \in Seq(WireMessages) OBVIOUS
<1> HIDE DEF len
<1>3. WireIsTrue'
  <2> SUFFICES ASSUME NEW k \in 1 .. len + Len(more) PROVE SaysTrue(wire[k])'
    BY <1>1 DEF WireIsTrue
  <2>1. CASE k <= len
    <3>1. k \in 1 .. len BY <1>1, <2>1
    <3>2. wire'[k] = wire[k] /\ wire[k] \in WireMessages BY <1>1, <3>1
    <3>3. SaysTrue(wire[k]) BY <3>1 DEF WireIsTrue, len
    <3> DEFINE m == wire[k]
    <3>4. m \in WireMessages /\ SaysTrue(m) /\ wire'[k] = m BY <3>2, <3>3
    <3> HIDE DEF m
    <3>5. PICK n : n = m OBVIOUS
    <3>6. SaysTrue(n)' BY <3>4, <3>5, SaysTrueKept
    <3> QED BY <3>4, <3>5, <3>6 DEF SaysTrue
  <2>2. CASE k > len
    <3>1. k - len \in 1 .. Len(more) /\ wire'[k] = more[k - len] BY <1>1, <2>2
    <3> QED BY <3>1
  <2> QED BY <1>1, <2>1, <2>2
<1>4. SavedNotShown'
  <2> SUFFICES ASSUME NEW k \in 1 .. len + Len(more), wire'[k].kind = "saved"
               PROVE  /\ ~Lists(screen'.messages, <<wire'[k].run, "window">>)
                      /\ \A j \in 1 .. k - 1 : ComesBefore(wire'[j], wire'[k])
    <3>1. Len(wire') = len + Len(more) BY <1>1
    <3> QED BY <3>1 DEF SavedNotShown, ComesBefore, Lists
  <2>0. k \in Nat /\ (k <= len \/ k > len) BY <1>1
  <2>1. CASE k <= len
    <3>1. k \in 1 .. len /\ \A j \in 1 .. k - 1 : j \in 1 .. len BY <1>1, <2>1
    <3>2. wire'[k] = wire[k] /\ \A j \in 1 .. k - 1 : wire'[j] = wire[j] BY <1>1, <3>1
    <3> QED BY <3>1, <3>2 DEF SavedNotShown, len
  <2>2. CASE k > len
    <3>1. k - len \in 1 .. Len(more) /\ wire'[k] = more[k - len] BY <1>1, <2>2
    <3>2. Len(more) = 1 /\ k = len + 1
      <4>1. Len(more) = 1 BY <3>1
      <4> QED BY <1>1, <2>2, <4>1
    <3>3. \A j \in 1 .. k - 1 : j \in 1 .. len /\ wire'[j] = wire[j] BY <1>1, <3>2
    <3>4. \A j \in 1 .. len : ComesBefore(wire[j], wire'[k]) BY <3>1 DEF len
    <3> QED BY <3>1, <3>3, <3>4
  <2> QED BY <2>0, <2>1, <2>2
<1> QED BY <1>2, <1>3, <1>4

(* The messages that stay keep their order. *)
LEMMA WireThins ==
  ASSUME wire \in Seq(WireMessages), WireIsTrue, SavedNotShown,
         stored' = stored, \A i \in Submits : NoAnswer(i) => NoAnswer(i)',
         wire' \in Seq(WireMessages), NEW place, Among(wire', wire, Len(wire), place),
         \A k \in 1 .. Len(wire') : wire'[k].kind = "saved" =>
            ~Lists(screen'.messages, <<wire'[k].run, "window">>)
  PROVE  WireIsTrue' /\ SavedNotShown'
<1>1. \A k \in 1 .. Len(wire') : /\ place[k] \in 1 .. Len(wire) /\ wire'[k] = wire[place[k]]
                                 /\ wire'[k] \in WireMessages
  BY DEF Among
<1>2. \A j, k \in 1 .. Len(wire') : j < k => place[j] < place[k] BY DEF Among
<1>0. Len(wire) \in Nat /\ Len(wire') \in Nat OBVIOUS
<1>3. WireIsTrue'
  <2> SUFFICES ASSUME NEW k \in 1 .. Len(wire') PROVE SaysTrue(wire[k])' BY DEF WireIsTrue
  <2>1. PICK n : n = wire'[k] OBVIOUS
  <2>2. n \in WireMessages /\ SaysTrue(n) BY <1>1, <2>1 DEF WireIsTrue
  <2>3. SaysTrue(n)' BY <2>2, SaysTrueKept
  <2> QED BY <2>1, <2>3 DEF SaysTrue
<1>4. SavedNotShown'
  <2> SUFFICES ASSUME NEW k \in 1 .. Len(wire'), wire'[k].kind = "saved"
               PROVE  \A j \in 1 .. k - 1 : ComesBefore(wire'[j], wire'[k])
    BY DEF SavedNotShown, ComesBefore, Lists
  <2> SUFFICES ASSUME NEW j \in 1 .. k - 1 PROVE ComesBefore(wire'[j], wire'[k]) OBVIOUS
  <2>1. j \in 1 .. Len(wire') /\ j < k BY <1>0
  <2>2. place[j] < place[k] /\ place[j] \in 1 .. Len(wire) /\ place[k] \in 1 .. Len(wire)
    BY <1>1, <1>2, <2>1
  <2>3. place[j] \in 1 .. place[k] - 1 BY <1>0, <2>2
  <2>4. wire'[j] = wire[place[j]] /\ wire'[k] = wire[place[k]] BY <1>1, <2>1
  <2>5. ComesBefore(wire[place[j]], wire[place[k]]) BY <2>2, <2>3, <2>4 DEF SavedNotShown
  <2> QED BY <2>4, <2>5
<1> QED BY <1>3, <1>4

LEMMA WireStays ==
  ASSUME wire \in Seq(WireMessages), WireIsTrue, SavedNotShown, UNCHANGED wire,
         stored' = stored, \A i \in Submits : NoAnswer(i) => NoAnswer(i)',
         \A k \in 1 .. Len(wire) : wire[k].kind = "saved" =>
            ~Lists(screen'.messages, <<wire[k].run, "window">>)
  PROVE  WireIsTrue' /\ SavedNotShown'
<1> DEFINE place == [k \in 1 .. Len(wire) |-> k]
<1>1. Among(wire', wire, Len(wire), place) BY DEF Among
<1> HIDE DEF place
<1> QED BY <1>1, WireThins

LEMMA WireTaken ==
  ASSUME wire \in Seq(WireMessages), WireIsTrue, SavedNotShown, wire # <<>>, wire' = Tail(wire),
         stored' = stored, \A i \in Submits : NoAnswer(i) => NoAnswer(i)',
         \A k \in 2 .. Len(wire) : wire[k].kind = "saved" =>
            ~Lists(screen'.messages, <<wire[k].run, "window">>)
  PROVE  wire' \in Seq(WireMessages) /\ WireIsTrue' /\ SavedNotShown'
<1>1. /\ Len(wire) \in Nat /\ Len(wire') = Len(wire) - 1 /\ Len(wire') \in Nat
      /\ wire' \in Seq(WireMessages)
      /\ \A k \in 1 .. Len(wire') : wire'[k] = wire[k + 1]
  OBVIOUS
<1> DEFINE place == [k \in 1 .. Len(wire') |-> k + 1]
<1>2. Among(wire', wire, Len(wire), place)
  <2>1. place \in [1 .. Len(wire') -> 1 .. Len(wire)] BY <1>1
  <2>2. \A k \in 1 .. Len(wire') : place[k] = k + 1 OBVIOUS
  <2> HIDE DEF place
  <2>3. \A k \in 1 .. Len(wire') : wire'[k] = wire[place[k]] BY <1>1, <2>2
  <2>4. \A j, k \in 1 .. Len(wire') : j < k => place[j] < place[k] BY <1>1, <2>2
  <2> QED BY <2>1, <2>3, <2>4 DEF Among
<1> HIDE DEF place
<1>3. \A k \in 1 .. Len(wire') : wire'[k].kind = "saved" =>
         ~Lists(screen'.messages, <<wire'[k].run, "window">>)
  <2>1. \A k \in 1 .. Len(wire') : k + 1 \in 2 .. Len(wire) BY <1>1
  <2> QED BY <1>1, <2>1
<1> QED BY <1>1, <1>2, <1>3, WireThins

-----------------------------------------------------------------------------
(* A step of the main process that leaves the window alone. *)
LEMMA MainStep ==
  ASSUME ScreenInv, UNCHANGED <<screen, buffer, turn, runs, finishing>>,
         main' \in MainStates, sends' \in [Submits -> SendStates],
         cancels' \subseteq Talks, stored' \subseteq Answers, pages' \subseteq PageRequests,
         stored \subseteq stored', \A i \in Submits : <<i, "window">> \in stored' => <<i, "window">> \in stored,
         \A i \in Submits : NoAnswer(i) => NoAnswer(i)',
         MainInOrder', MainWrites',
         NEW more \in Seq(WireMessages), wire' = wire \o more,
         \A k \in 1 .. Len(more) : SaysTrue(more[k])' /\ more[k].kind # "saved"
  PROVE  ScreenInv'
<1>1. wire \in Seq(WireMessages) /\ WireIsTrue /\ SavedNotShown BY DEF ScreenInv, RunTypes
<1>2. wire' \in Seq(WireMessages) /\ WireIsTrue' /\ SavedNotShown' BY <1>1, WireGrows
<1>3. RunTypes' BY <1>2 DEF ScreenInv, RunTypes
<1>4. WindowWrites' BY DEF ScreenInv, WindowWrites
<1>5. Listing(screen.messages)' BY DEF ScreenInv, Listing
<1> QED BY <1>2, <1>3, <1>4, <1>5 DEF ScreenInv

LEMMA NoMessage ==
  /\ <<>> \in Seq(WireMessages) /\ Len(<<>>) = 0
  /\ wire \in Seq(WireMessages) => wire = wire \o <<>>
OBVIOUS

LEMMA OneMessage ==
  ASSUME NEW m \in WireMessages, m.kind \in {"status", "delta", "refused"}
  PROVE  /\ <<m>> \in Seq(WireMessages)
         /\ \A k \in 1 .. Len(<<m>>) : SaysTrue(<<m>>[k])' /\ <<m>>[k].kind # "saved"
<1>1. SaysTrue(m)' /\ m.kind # "saved" BY DEF SaysTrue
<1>2. <<m>> \in Seq(WireMessages) /\ Len(<<m>>) = 1 /\ <<m>>[1] = m OBVIOUS
<1>3. \A k \in 1 .. Len(<<m>>) : k = 1 BY <1>2
<1> QED BY <1>1, <1>2, <1>3

LEMMA TwoMessages ==
  ASSUME NEW m \in WireMessages, SaysTrue(m)', m.kind # "saved",
         NEW n \in WireMessages, SaysTrue(n)', n.kind # "saved"
  PROVE  /\ <<m, n>> \in Seq(WireMessages)
         /\ \A k \in 1 .. Len(<<m, n>>) : SaysTrue(<<m, n>>[k])' /\ <<m, n>>[k].kind # "saved"
<1>1. <<m, n>> \in Seq(WireMessages) /\ Len(<<m, n>>) = 2 /\ <<m, n>>[1] = m /\ <<m, n>>[2] = n
  OBVIOUS
<1>2. \A k \in 1 .. Len(<<m, n>>) : k = 1 \/ k = 2 BY <1>1
<1> QED BY <1>1, <1>2

LEMMA PushOne ==
  ASSUME NEW m, NEW kind, NEW what, Push(m, <<<<kind, what>>>>)
  PROVE  /\ main' = [m EXCEPT !.seq = m.seq + 1]
         /\ wire' = wire \o <<[kind |-> kind, what |-> what, run |-> m.run, talk |-> m.talk,
                               seq |-> m.seq + 1]>>
<1> DEFINE msg == [kind |-> kind, what |-> what, run |-> m.run, talk |-> m.talk, seq |-> m.seq + 1]
<1>1. Pushed(m, <<<<kind, what>>>>) = <<msg>> BY PushedOne, Zenon
<1>2. Len(<<<<kind, what>>>>) = 1 OBVIOUS
<1>3. /\ wire' = wire \o Pushed(m, <<<<kind, what>>>>)
      /\ main' = [m EXCEPT !.seq = m.seq + Len(<<<<kind, what>>>>)]
  BY DEF Push
<1>4. main' = [m EXCEPT !.seq = m.seq + 1] BY <1>2, <1>3, Zenon
<1>5. wire' = wire \o <<msg>> BY <1>1, <1>3, Zenon
<1> QED BY <1>4, <1>5

(* What the main process knows. *)
LEMMA MainTyped ==
  ASSUME ScreenInv
  PROVE  /\ main \in MainStates /\ sends \in [Submits -> SendStates] /\ wire \in Seq(WireMessages)
         /\ main.run \in Submits \cup {0} /\ main.seq \in Nat /\ main.deltas \in 0 .. MaxDeltas
         /\ main.deltas \in Nat
         /\ main.phase # "none" => main.run \in Submits /\ main.talk \in Talks
         /\ main.run # 0 => main.phase # "none"
         /\ \A i \in Submits : i \in Nat /\ i # 0
         /\ \A i \in Submits : sends[i].step # "none" => sends[i].talk \in Talks
         /\ cancels \subseteq Talks /\ stored \subseteq Answers /\ pages \subseteq PageRequests
<1>1. \A i \in Submits : i \in Nat /\ i # 0 BY DEF Submits
<1> QED BY <1>1 DEF ScreenInv, RunTypes, MainStates, MainInOrder

LEMMA StatusTyped ==
  ASSUME NEW run \in Submits, NEW talk \in Talks, NEW seq \in Nat,
         NEW what \in {"busy", "cancelling"} \cup Outcomes
  PROVE  [kind |-> "status", what |-> what, run |-> run, talk |-> talk, seq |-> seq] \in WireMessages
BY DEF WireMessages, StatusMessages

LEMMA RefusedTyped ==
  ASSUME NEW run \in Nat, NEW talk \in Talks \cup {"none"}, NEW what \in {"send", "cancel"}
  PROVE  [kind |-> "refused", what |-> what, run |-> run, talk |-> talk, seq |-> 0] \in WireMessages
BY DEF WireMessages, RefusedMessages

LEMMA ReserveKeeps ==
  ASSUME MaxDeltas \in Nat, ScreenInv, NEW i \in Submits, Reserve(i)
  PROVE  ScreenInv'
<1> USE MainTyped
<1> DEFINE m == [Idle EXCEPT !.run = i, !.talk = sends[i].talk, !.phase = "planning"]
           msg == [kind |-> "status", what |-> "busy", run |-> i, talk |-> sends[i].talk, seq |-> 1]
<1>1. /\ sends[i].step = "asked" /\ main.run = 0 /\ sends[i] \in SendStates
      /\ sends' = [sends EXCEPT ![i].step = "starting"]
      /\ UNCHANGED <<cancels, stored, screen, buffer, turn, runs, finishing, pages>>
  BY DEF Reserve
<1>2. m.run = i /\ m.talk = sends[i].talk /\ m.seq = 0 BY DEF Idle
<1>3. main' = [m EXCEPT !.seq = 1] /\ wire' = wire \o <<msg>>
  <2>1. PICK p : p = m OBVIOUS
  <2>2. Push(p, <<<<"status", "busy">>>>) BY <2>1 DEF Reserve
  <2>3. p.run = i /\ p.talk = sends[i].talk /\ p.seq = 0 BY <1>2, <2>1
  <2>4. /\ main' = [p EXCEPT !.seq = p.seq + 1]
        /\ wire' = wire \o <<[kind |-> "status", what |-> "busy", run |-> p.run,
                              talk |-> p.talk, seq |-> p.seq + 1]>>
    BY <2>2, PushOne
  <2>5. main' = [p EXCEPT !.seq = 1] /\ wire' = wire \o <<msg>> BY <2>3, <2>4
  <2> HIDE DEF m
  <2> QED BY <2>1, <2>5
<1>4. /\ main'.run = i /\ main'.talk = sends[i].talk /\ main'.phase = "planning"
      /\ main' \in MainStates
  <2>1. main' = [run |-> i, talk |-> sends[i].talk, phase |-> "planning", seq |-> 1,
                 deltas |-> 0, outcome |-> "none", stored |-> FALSE]
    BY <1>3 DEF Idle
  <2>2. sends[i].talk \in Talks \cup {"none"} BY <1>1 DEF SendStates
  <2>3. 0 \in 0 .. MaxDeltas OBVIOUS
  <2> QED BY <2>1, <2>2, <2>3 DEF MainStates
<1>5. /\ sends' \in [Submits -> SendStates] /\ sends'[i].step = "starting"
      /\ sends'[i].talk = sends[i].talk
      /\ \A j \in Submits : j # i => sends'[j] = sends[j]
  BY <1>1 DEF SendStates
<1>6. MainInOrder'
  BY <1>1, <1>4, <1>5 DEF ScreenInv, MainInOrder, Submits
<1>7. MainWrites' BY <1>1, <1>4, <1>5 DEF ScreenInv, MainWrites
<1>8. \A j \in Submits : NoAnswer(j) => NoAnswer(j)' BY <1>1, <1>4, <1>5 DEF NoAnswer
<1>9. msg \in WireMessages /\ msg.kind = "status" BY <1>1, StatusTyped DEF Outcomes
<1> HIDE DEF msg
<1>11. PICK r : r = msg OBVIOUS
<1>10. /\ <<r>> \in Seq(WireMessages) /\ wire' = wire \o <<r>>
       /\ \A k \in 1 .. Len(<<r>>) : SaysTrue(<<r>>[k])' /\ <<r>>[k].kind # "saved"
  BY <1>3, <1>9, <1>11, OneMessage
<1> HIDE DEF m
<1> QED BY <1>1, <1>3, <1>4, <1>5, <1>6, <1>7, <1>8, <1>10, MainStep

LEMMA RefuseKeeps ==
  ASSUME ScreenInv, NEW i \in Submits, Refuse(i)
  PROVE  ScreenInv'
<1> USE MainTyped
<1> DEFINE msg == [kind |-> "refused", what |-> "send", run |-> i, talk |-> "none", seq |-> 0]
<1>1. /\ sends[i].step = "asked" /\ sends[i] \in SendStates
      /\ sends' = [sends EXCEPT ![i].step = "done"] /\ wire' = wire \o <<msg>>
      /\ UNCHANGED <<main, cancels, stored, screen, buffer, turn, runs, finishing, pages>>
  BY DEF Refuse, Reply
<1>2. /\ sends' \in [Submits -> SendStates] /\ sends'[i].step = "done"
      /\ sends'[i].talk = sends[i].talk
      /\ \A j \in Submits : j # i => sends'[j] = sends[j]
  BY <1>1 DEF SendStates
<1>3. MainInOrder' BY <1>1, <1>2 DEF ScreenInv, MainInOrder
<1>4. MainWrites' BY <1>1, <1>2 DEF ScreenInv, MainWrites
<1>5. \A j \in Submits : NoAnswer(j) => NoAnswer(j)' BY <1>1, <1>2 DEF NoAnswer
<1>6. msg \in WireMessages /\ msg.kind = "refused"
  <2>1. i \in Nat BY DEF Submits
  <2> QED BY <2>1, RefusedTyped
<1> HIDE DEF msg
<1>8. PICK r : r = msg OBVIOUS
<1>7. /\ <<r>> \in Seq(WireMessages) /\ wire' = wire \o <<r>>
      /\ \A k \in 1 .. Len(<<r>>) : SaysTrue(<<r>>[k])' /\ <<r>>[k].kind # "saved"
  BY <1>1, <1>6, <1>8, OneMessage
<1> QED BY <1>1, <1>2, <1>3, <1>4, <1>5, <1>7, MainStep

LEMMA JoinTwo ==
  ASSUME NEW S, NEW w \in Seq(S), NEW a \in S, NEW b \in S
  PROVE  w \o <<a>> \o <<b>> = w \o <<a, b>>
<1> DEFINE one == w \o <<a>>
           both == one \o <<b>>
           at == w \o <<a, b>>
<1>1. /\ one \in Seq(S) /\ Len(one) = Len(w) + 1 /\ one[Len(w) + 1] = a /\ Len(w) \in Nat
      /\ \A k \in 1 .. Len(w) : one[k] = w[k]
  OBVIOUS
<1> HIDE DEF one
<1>2. /\ both \in Seq(S) /\ Len(both) = Len(w) + 2 /\ both[Len(w) + 2] = b
      /\ both[Len(w) + 1] = a /\ \A k \in 1 .. Len(w) : both[k] = w[k]
  BY <1>1
<1> HIDE DEF both
<1>3. /\ at \in Seq(S) /\ Len(at) = Len(w) + 2 /\ at[Len(w) + 2] = b
      /\ at[Len(w) + 1] = a /\ \A k \in 1 .. Len(w) : at[k] = w[k]
  BY <1>1
<1> HIDE DEF at
<1>4. \A k \in 1 .. Len(w) + 2 : k \in 1 .. Len(w) \/ k = Len(w) + 1 \/ k = Len(w) + 2 BY <1>1
<1>5. \A k \in 1 .. Len(both) : both[k] = at[k] BY <1>2, <1>3, <1>4
<1>6. both = at BY <1>2, <1>3, <1>5
<1> QED BY <1>6 DEF one, both, at

(* Main pushes a message of its active run, as a status or a piece of the text. *)
LEMMA PushKeeps ==
  ASSUME ScreenInv, main.phase # "none",
         sends' \in [Submits -> SendStates], cancels' \subseteq Talks, pages' \subseteq PageRequests,
         \A j \in Submits : sends[j].step = "done" => sends'[j].step = "done",
         UNCHANGED <<stored, screen, buffer, turn, runs, finishing>>,
         NEW m \in MainStates, m.run = main.run, m.talk = main.talk,
         NEW kind, NEW what, Push(m, <<<<kind, what>>>>),
         \/ kind = "status" /\ what \in {"busy", "cancelling"}
         \/ kind = "delta" /\ what \in Nat,
         MainInOrder', m.phase = main.phase \/ main.phase # "finishing"
  PROVE  ScreenInv'
<1> DEFINE msg == [kind |-> kind, what |-> what, run |-> m.run, talk |-> m.talk, seq |-> m.seq + 1]
<1>1. main' = [m EXCEPT !.seq = m.seq + 1] /\ wire' = wire \o <<msg>> BY PushOne
<1>2. m.seq + 1 \in Nat /\ main' \in MainStates /\ main'.run = main.run /\ main'.phase = m.phase
  BY <1>1 DEF MainStates
<1>3. m.run \in Submits /\ m.talk \in Talks /\ main.run \in Submits BY MainTyped
<1>4. msg \in WireMessages /\ msg.kind \in {"status", "delta", "refused"}
  <2>1. CASE kind = "status" BY <1>2, <1>3, <2>1, StatusTyped DEF Outcomes
  <2>2. CASE kind = "delta" BY <1>2, <1>3, <2>2 DEF WireMessages, DeltaMessages
  <2> QED BY <2>1, <2>2
<1> HIDE DEF msg
<1>5. PICK r : r = msg OBVIOUS
<1>6. /\ <<r>> \in Seq(WireMessages) /\ wire' = wire \o <<r>>
      /\ \A k \in 1 .. Len(<<r>>) : SaysTrue(<<r>>[k])' /\ <<r>>[k].kind # "saved"
  BY <1>1, <1>4, <1>5, OneMessage
<1>7. MainWrites' BY <1>2 DEF ScreenInv, MainWrites
<1>8. \A j \in Submits : NoAnswer(j) => NoAnswer(j)' BY <1>2 DEF NoAnswer
<1>9. stored' \subseteq Answers BY MainTyped
<1> QED BY <1>2, <1>6, <1>7, <1>8, <1>9, MainStep

LEMMA StartedKeeps ==
  ASSUME ScreenInv, NEW i \in Submits, Started(i)
  PROVE  ScreenInv'
<1>1. /\ sends[i].step = "starting" /\ main.run = i
      /\ sends' = [sends EXCEPT ![i].step = "done"]
      /\ UNCHANGED <<cancels, stored, screen, buffer, turn, runs, finishing, pages>>
  BY DEF Started
<1>2. main.phase # "none" /\ main \in MainStates /\ sends[i] \in SendStates
  BY <1>1, MainTyped
<1>3. /\ sends' \in [Submits -> SendStates] /\ sends'[i].step = "done"
      /\ sends'[i].talk = sends[i].talk
      /\ \A j \in Submits : j # i => sends'[j] = sends[j]
  BY <1>1, <1>2, MainTyped DEF SendStates
<1>4. cancels' \subseteq Talks /\ pages' \subseteq PageRequests /\ stored' \subseteq Answers
  BY <1>1, MainTyped
<1>5. \A j \in Submits : sends[j].step = "done" => sends'[j].step = "done" BY <1>3
<1>6. CASE main.phase = "planning"
  <2>1. PICK m : m = [main EXCEPT !.phase = "running"] OBVIOUS
  <2>2. m \in MainStates /\ m.run = main.run /\ m.talk = main.talk /\ m.phase = "running"
    BY <1>2, <2>1 DEF MainStates
  <2>3. Push(m, <<<<"status", "busy">>>>) BY <1>6, <2>1 DEF Started
  <2>4. main' = [m EXCEPT !.seq = m.seq + 1] BY <2>3, PushOne
  <2>5. main'.run = main.run /\ main'.talk = main.talk /\ main'.phase = "running"
    BY <2>2, <2>4 DEF MainStates
  <2>6. MainInOrder' BY <1>1, <1>2, <1>3, <2>5 DEF ScreenInv, MainInOrder
  <2> QED BY <1>1, <1>2, <1>3, <1>4, <1>5, <1>6, <2>2, <2>3, <2>6, PushKeeps
<1>7. CASE main.phase # "planning"
  <2>1. UNCHANGED <<main, wire>> BY <1>7 DEF Started
  <2>2. MainInOrder' BY <1>1, <1>3, <2>1 DEF ScreenInv, MainInOrder
  <2>3. MainWrites' BY <1>1, <1>3, <2>1 DEF ScreenInv, MainWrites
  <2>4. \A j \in Submits : NoAnswer(j) => NoAnswer(j)' BY <1>1, <1>3, <2>1 DEF NoAnswer
  <2>5. wire' = wire \o <<>> /\ <<>> \in Seq(WireMessages) /\ Len(<<>>) = 0
    BY <2>1, MainTyped, NoMessage
  <2>6. \A k \in 1 .. Len(<<>>) : SaysTrue(<<>>[k])' /\ <<>>[k].kind # "saved" BY <2>5
  <2>7. main' \in MainStates BY <1>2, <2>1
  <2> QED BY <1>1, <1>3, <1>4, <2>2, <2>3, <2>4, <2>5, <2>6, <2>7, MainStep
<1> QED BY <1>6, <1>7

LEMMA StartFailsKeeps ==
  ASSUME MaxDeltas \in Nat, ScreenInv, NEW i \in Submits, StartFails(i)
  PROVE  ScreenInv'
<1> DEFINE failed == [kind |-> "status", what |-> "failed", run |-> main.run, talk |-> main.talk,
                      seq |-> main.seq + 1]
           refused == [kind |-> "refused", what |-> "send", run |-> i, talk |-> "none", seq |-> 0]
<1>1. /\ sends[i].step = "starting" /\ main.run = i /\ main' = Idle
      /\ sends' = [sends EXCEPT ![i].step = "done"]
      /\ UNCHANGED <<cancels, stored, screen, buffer, turn, runs, finishing, pages>>
  BY DEF StartFails
<1>2. main.phase # "none" /\ main \in MainStates /\ sends[i] \in SendStates /\ main.seq + 1 \in Nat
  BY <1>1, MainTyped
<1>3. /\ sends' \in [Submits -> SendStates] /\ sends'[i].step = "done"
      /\ sends'[i].talk = sends[i].talk
      /\ \A j \in Submits : j # i => sends'[j] = sends[j]
  BY <1>1, <1>2, MainTyped DEF SendStates
<1>4. main'.run = 0 /\ main'.phase = "none" /\ main' \in MainStates
  BY <1>1 DEF Idle, MainStates
<1>5. failed \in WireMessages /\ refused \in WireMessages
  <2>1. failed \in WireMessages BY <1>2, MainTyped, StatusTyped DEF Outcomes
  <2>2. i \in Nat BY DEF Submits
  <2> QED BY <2>1, <2>2, RefusedTyped
<1>6. failed.kind = "status" /\ refused.kind = "refused" OBVIOUS
<1>7. wire' = wire \o <<failed>> \o <<refused>>
  <2>1. Pushed(main, <<<<"status", "failed">>>>) = <<failed>> BY PushedOne
  <2> HIDE DEF failed
  <2>2. wire' = wire \o Pushed(main, <<<<"status", "failed">>>>) \o <<refused>>
    BY DEF StartFails, Reply
  <2> HIDE DEF refused
  <2> QED BY <2>1, <2>2
<1> HIDE DEF failed, refused
<1>8. PICK r, q : r = failed /\ q = refused OBVIOUS
<1>9. wire' = wire \o <<r, q>>
  <2>1. wire' = wire \o <<r>> \o <<q>> BY <1>7, <1>8
  <2>2. wire \in Seq(WireMessages) BY MainTyped
  <2> QED BY <1>5, <1>8, <2>1, <2>2, JoinTwo
<1>10. r \in WireMessages /\ q \in WireMessages /\ r.kind = "status" /\ q.kind = "refused"
  BY <1>5, <1>6, <1>8
<1>11. SaysTrue(r)' /\ SaysTrue(q)' BY <1>10 DEF SaysTrue
<1>12. /\ <<r, q>> \in Seq(WireMessages)
       /\ \A k \in 1 .. Len(<<r, q>>) : SaysTrue(<<r, q>>[k])' /\ <<r, q>>[k].kind # "saved"
  BY <1>10, <1>11, TwoMessages
<1>13. MainInOrder'
  <2>1. \A j \in Submits : sends'[j].step # "none" => sends'[j].talk \in Talks
    BY <1>1, <1>3, MainTyped
  <2> QED BY <1>4, <2>1 DEF MainInOrder
<1>14. MainWrites' BY <1>1, <1>3, <1>4 DEF ScreenInv, MainWrites, Submits
<1>15. \A j \in Submits : NoAnswer(j) => NoAnswer(j)'
  <2>1. 0 \notin Submits BY DEF Submits
  <2> QED BY <1>1, <1>3, <1>4, <2>1 DEF NoAnswer
<1>16. cancels' \subseteq Talks /\ pages' \subseteq PageRequests /\ stored' \subseteq Answers
  BY <1>1, MainTyped
<1> QED BY <1>1, <1>3, <1>4, <1>9, <1>12, <1>13, <1>14, <1>15, <1>16, MainStep

LEMMA DeltaKeeps ==
  ASSUME MaxDeltas \in Nat, ScreenInv, Delta
  PROVE  ScreenInv'
<1>1. /\ main.phase = "running"
      /\ UNCHANGED <<sends, cancels, stored, screen, buffer, turn, runs, finishing, pages>>
  BY DEF Delta
<1>2. PICK m : m = [main EXCEPT !.deltas = main.deltas + 1] OBVIOUS
<1>3. main \in MainStates /\ main.deltas + 1 \in Nat
  <2>1. main.deltas \in 0 .. MaxDeltas BY MainTyped
  <2> QED BY <2>1, MainTyped
<1>4. m \in MainStates /\ m.run = main.run /\ m.talk = main.talk /\ m.phase = main.phase
  <2>1. main.deltas < MaxDeltas BY DEF Delta
  <2>2. main.deltas + 1 \in 0 .. MaxDeltas BY <1>3, <2>1, MainTyped
  <2> QED BY <1>2, <1>3, <2>2 DEF MainStates
<1>5. PICK d : d = main.deltas + 1 OBVIOUS
<1>6. Push(m, <<<<"delta", d>>>>) BY <1>2, <1>5 DEF Delta
<1>7. main' = [m EXCEPT !.seq = m.seq + 1] BY <1>6, PushOne
<1>8. main'.run = main.run /\ main'.talk = main.talk /\ main'.phase = main.phase
  BY <1>4, <1>7 DEF MainStates
<1>9. MainInOrder' BY <1>1, <1>8 DEF ScreenInv, MainInOrder
<1>10. /\ sends' \in [Submits -> SendStates] /\ cancels' \subseteq Talks /\ pages' \subseteq PageRequests
       /\ \A j \in Submits : sends[j].step = "done" => sends'[j].step = "done"
  BY <1>1, MainTyped
<1>11. d \in Nat BY <1>3, <1>5
<1> QED BY <1>1, <1>4, <1>6, <1>9, <1>10, <1>11, PushKeeps

LEMMA FinishesKeeps ==
  ASSUME ScreenInv, NEW outcome \in Outcomes, NEW saved \in BOOLEAN, Finishes(outcome, saved)
  PROVE  ScreenInv'
<1>1. /\ main.phase \in {"running", "cancelling"} /\ sends[main.run].step = "done"
      /\ main' = [main EXCEPT !.phase = "finishing", !.outcome = outcome, !.stored = saved]
      /\ stored' = IF saved THEN stored \cup {<<main.run, "main">>} ELSE stored
      /\ UNCHANGED <<wire, sends, cancels, screen, buffer, turn, runs, finishing, pages>>
  BY DEF Finishes
<1>2. main.run \in Submits /\ main \in MainStates /\ stored \subseteq Answers /\ main.talk \in Talks
  BY <1>1, MainTyped
<1>3. /\ main' \in MainStates /\ main'.run = main.run /\ main'.phase = "finishing"
      /\ main'.outcome = outcome /\ main'.stored = saved /\ main'.talk = main.talk
  BY <1>1, <1>2 DEF MainStates
<1>4. stored \subseteq stored' /\ stored' \subseteq Answers BY <1>1, <1>2 DEF Answers
<1>5. \A i \in Submits, w \in {"main", "window"} :
         <<i, w>> \in stored' => <<i, w>> \in stored \/ (i = main.run /\ w = "main")
  BY <1>1
<1>6. <<main.run, "main">> \notin stored BY <1>1, <1>2 DEF ScreenInv, MainWrites
<1>7. saved <=> <<main.run, "main">> \in stored' BY <1>1, <1>6
<1>8. MainInOrder'
  <2>1. \A j \in Submits : sends'[j].step # "none" => sends'[j].talk \in Talks
    BY <1>1, MainTyped
  <2>2. main'.run # 0 /\ main'.run \in Submits BY <1>2, <1>3, MainTyped
  <2>3. sends'[main'.run].step = "done" BY <1>1, <1>3
  <2> QED BY <1>2, <1>3, <1>7, <2>1, <2>2, <2>3 DEF MainInOrder
<1>9. MainWrites' BY <1>1, <1>3, <1>5 DEF ScreenInv, MainWrites
<1>10. \A j \in Submits : NoAnswer(j) => NoAnswer(j)' BY <1>1, <1>3, <1>5 DEF NoAnswer
<1>11. wire' = wire \o <<>> /\ <<>> \in Seq(WireMessages) /\ Len(<<>>) = 0
  BY <1>1, MainTyped, NoMessage
<1>12. \A k \in 1 .. Len(<<>>) : SaysTrue(<<>>[k])' /\ <<>>[k].kind # "saved" BY <1>11
<1>13. \A i \in Submits : <<i, "window">> \in stored' => <<i, "window">> \in stored BY <1>5
<1>14. sends' \in [Submits -> SendStates] /\ cancels' \subseteq Talks /\ pages' \subseteq PageRequests
  BY <1>1, MainTyped
<1> QED BY <1>1, <1>3, <1>4, <1>8, <1>9, <1>10, <1>11, <1>12, <1>13, <1>14, MainStep

LEMMA FinishedKeeps ==
  ASSUME MaxDeltas \in Nat, ScreenInv, Finished
  PROVE  ScreenInv'
<1> DEFINE end == [kind |-> "status", what |-> main.outcome, run |-> main.run, talk |-> main.talk,
                   seq |-> main.seq + 1]
           over == [kind |-> "completed", what |-> IF main.stored THEN 1 ELSE 0,
                    run |-> main.run, talk |-> main.talk, seq |-> main.seq + 2]
<1>1. /\ main.phase = "finishing" /\ main' = Idle
      /\ UNCHANGED <<sends, cancels, stored, screen, buffer, turn, runs, finishing, pages>>
  BY DEF Finished
<1>2. /\ main.run \in Submits /\ main \in MainStates /\ main.talk \in Talks
      /\ main.seq + 1 \in Nat /\ main.seq + 2 \in Nat
  BY <1>1, MainTyped
<1>3. /\ sends[main.run].step = "done" /\ main.outcome \in Outcomes
      /\ main.stored <=> <<main.run, "main">> \in stored
  BY <1>1 DEF ScreenInv, MainInOrder
<1>4. main'.run = 0 /\ main'.phase = "none" /\ main' \in MainStates
  BY <1>1 DEF Idle, MainStates
<1>5. end \in WireMessages /\ over \in WireMessages
  <2>1. end \in WireMessages BY <1>2, <1>3, StatusTyped
  <2>2. over \in CompletedMessages BY <1>2 DEF CompletedMessages
  <2> QED BY <2>1, <2>2 DEF WireMessages
<1>6. /\ end.kind = "status" /\ over.kind = "completed" /\ over.run = main.run
      /\ over.what = IF main.stored THEN 1 ELSE 0
  OBVIOUS
<1>7. wire' = wire \o <<end, over>>
  <2>1. Pushed(main, <<<<"status", main.outcome>>,
                       <<"completed", IF main.stored THEN 1 ELSE 0>>>>) = <<end, over>>
    BY PushedTwo
  <2> HIDE DEF end, over
  <2> QED BY <2>1 DEF Finished
<1> HIDE DEF end, over
<1>8. PICK r, q : r = end /\ q = over OBVIOUS
<1>9. wire' = wire \o <<r, q>> BY <1>7, <1>8
<1>10. /\ r \in WireMessages /\ q \in WireMessages /\ r.kind = "status" /\ q.kind = "completed"
       /\ q.run = main.run /\ q.what = IF main.stored THEN 1 ELSE 0
  BY <1>5, <1>6, <1>8
<1>11. SaysTrue(r)' BY <1>10 DEF SaysTrue
<1>12. SaysTrue(q)'
  <2>1. CASE main.stored
    <3>1. q.what = 1 /\ <<q.run, "main">> \in stored' BY <1>1, <1>3, <1>10, <2>1
    <3> QED BY <1>10, <3>1 DEF SaysTrue
  <2>2. CASE ~main.stored
    <3>1. q.what = 0 /\ <<q.run, "main">> \notin stored' BY <1>1, <1>3, <1>10, <2>2
    <3>2. NoAnswer(q.run)'
      <4>1. sends'[q.run].step = "done" /\ main'.run # q.run
        BY <1>1, <1>2, <1>3, <1>4, <1>10, MainTyped
      <4> QED BY <3>1, <4>1 DEF NoAnswer
    <3> QED BY <1>10, <3>1, <3>2 DEF SaysTrue
  <2> QED BY <2>1, <2>2
<1>13. /\ <<r, q>> \in Seq(WireMessages)
       /\ \A k \in 1 .. Len(<<r, q>>) : SaysTrue(<<r, q>>[k])' /\ <<r, q>>[k].kind # "saved"
  BY <1>10, <1>11, <1>12, TwoMessages
<1>14. MainInOrder'
  <2>1. \A j \in Submits : sends'[j].step # "none" => sends'[j].talk \in Talks
    BY <1>1, MainTyped
  <2> QED BY <1>4, <2>1 DEF MainInOrder
<1>15. \A i \in Submits : i # 0 BY MainTyped
<1>16. MainWrites' BY <1>1, <1>4, <1>15 DEF ScreenInv, MainWrites
<1>17. \A j \in Submits : NoAnswer(j) => NoAnswer(j)' BY <1>1, <1>4, <1>15 DEF NoAnswer
<1>18. /\ sends' \in [Submits -> SendStates] /\ cancels' \subseteq Talks
       /\ pages' \subseteq PageRequests /\ stored' \subseteq Answers
  BY <1>1, MainTyped
<1> QED BY <1>1, <1>4, <1>9, <1>13, <1>14, <1>16, <1>17, <1>18, MainStep

LEMMA MainCancelsKeeps ==
  ASSUME ScreenInv, NEW c \in Talks, MainCancels(c)
  PROVE  ScreenInv'
<1>1. /\ cancels' = cancels \ {c}
      /\ UNCHANGED <<sends, stored, screen, buffer, turn, runs, finishing, pages>>
  BY DEF MainCancels
<1>2. /\ sends' \in [Submits -> SendStates] /\ cancels' \subseteq Talks
      /\ pages' \subseteq PageRequests /\ stored' \subseteq Answers /\ main \in MainStates
      /\ \A j \in Submits : sends[j].step = "done" => sends'[j].step = "done"
  BY <1>1, MainTyped
<1>3. CASE main.run = 0 \/ main.talk # c \/ main.phase = "finishing"
  <2> DEFINE msg == [kind |-> "refused", what |-> "cancel", run |-> 0, talk |-> c, seq |-> 0]
  <2>1. UNCHANGED main /\ wire' = wire \o <<msg>> BY <1>3 DEF MainCancels, Reply
  <2>2. msg \in WireMessages /\ msg.kind = "refused" BY RefusedTyped
  <2> HIDE DEF msg
  <2>3. PICK r : r = msg OBVIOUS
  <2>4. /\ <<r>> \in Seq(WireMessages) /\ wire' = wire \o <<r>>
        /\ \A k \in 1 .. Len(<<r>>) : SaysTrue(<<r>>[k])' /\ <<r>>[k].kind # "saved"
    BY <2>1, <2>2, <2>3, OneMessage
  <2>5. MainInOrder' BY <1>1, <2>1 DEF ScreenInv, MainInOrder
  <2>6. MainWrites' BY <1>1, <2>1 DEF ScreenInv, MainWrites
  <2>7. \A j \in Submits : NoAnswer(j) => NoAnswer(j)' BY <1>1, <2>1 DEF NoAnswer
  <2>8. main' \in MainStates BY <1>2, <2>1
  <2> QED BY <1>1, <1>2, <2>4, <2>5, <2>6, <2>7, <2>8, MainStep
<1>4. CASE ~(main.run = 0 \/ main.talk # c \/ main.phase = "finishing")
  <2>1. PICK m : m = [main EXCEPT !.phase = "cancelling"] OBVIOUS
  <2>2. m \in MainStates /\ m.run = main.run /\ m.talk = main.talk /\ m.phase = "cancelling"
    BY <1>2, <2>1 DEF MainStates
  <2>3. Push(m, <<<<"status", "cancelling">>>>) BY <1>4, <2>1 DEF MainCancels
  <2>4. main' = [m EXCEPT !.seq = m.seq + 1] BY <2>3, PushOne
  <2>5. main'.run = main.run /\ main'.talk = main.talk /\ main'.phase = "cancelling"
    BY <2>2, <2>4 DEF MainStates
  <2>6. MainInOrder' BY <1>1, <1>4, <2>5 DEF ScreenInv, MainInOrder
  <2>7. main.phase # "none" /\ main.phase # "finishing" BY <1>4, MainTyped
  <2> QED BY <1>1, <1>2, <2>2, <2>3, <2>6, <2>7, PushKeeps
<1> QED BY <1>3, <1>4

LEMMA PageReadKeeps ==
  ASSUME MaxSubmits \in Nat, ScreenInv, NEW p \in pages, PageRead(p)
  PROVE  ScreenInv'
<1> DEFINE msg == [kind |-> "page", what |-> InOrder(Messages(p.talk)),
                   run |-> IF p.kind = "open" THEN 1 ELSE 0, talk |-> p.talk, seq |-> 0]
<1>1. /\ pages' = pages \ {p} /\ wire' = wire \o <<msg>>
      /\ UNCHANGED <<main, sends, cancels, stored, screen, buffer, turn, runs, finishing>>
  BY DEF PageRead, Reply
<1>2. /\ sends' \in [Submits -> SendStates] /\ cancels' \subseteq Talks
      /\ pages' \subseteq PageRequests /\ stored' \subseteq Answers /\ main' \in MainStates
      /\ stored \subseteq Answers /\ p \in PageRequests
  BY <1>1, MainTyped
<1>3. msg.what \in Seq(Answers) /\ Listing(msg.what) /\ msg.kind = "page" BY <1>2, PageOfStored
<1>4. msg \in WireMessages
  <2>1. p.talk \in Talks BY <1>2 DEF PageRequests
  <2>2. InOrder(Messages(p.talk)) \in Seq(Answers) BY <1>3
  <2> QED BY <2>1, <2>2 DEF WireMessages, PageMessages
<1> HIDE DEF msg
<1>5. PICK r : r = msg OBVIOUS
<1>6. r \in WireMessages /\ r.kind = "page" /\ Listing(r.what) BY <1>3, <1>4, <1>5
<1>7. SaysTrue(r)'
  <2>1. Listing(r.what)' BY <1>1, <1>6, ListingKept
  <2> QED BY <1>6, <2>1 DEF SaysTrue
<1>8. /\ <<r>> \in Seq(WireMessages) /\ wire' = wire \o <<r>>
      /\ \A k \in 1 .. Len(<<r>>) : SaysTrue(<<r>>[k])' /\ <<r>>[k].kind # "saved"
  <2>1. <<r>> \in Seq(WireMessages) /\ Len(<<r>>) = 1 /\ <<r>>[1] = r BY <1>6
  <2>2. \A k \in 1 .. Len(<<r>>) : k = 1 BY <2>1
  <2>3. wire' = wire \o <<r>> BY <1>1, <1>5
  <2>4. r.kind # "saved" BY <1>6
  <2> QED BY <1>7, <2>1, <2>2, <2>3, <2>4
<1>9. MainInOrder' BY <1>1 DEF ScreenInv, MainInOrder
<1>10. MainWrites' BY <1>1 DEF ScreenInv, MainWrites
<1>11. \A j \in Submits : NoAnswer(j) => NoAnswer(j)' BY <1>1 DEF NoAnswer
<1> QED BY <1>1, <1>2, <1>8, <1>9, <1>10, <1>11, MainStep

LEMMA SaveAnswerKeeps ==
  ASSUME ScreenInv, NEW i \in Submits, SaveAnswer(i)
  PROVE  ScreenInv'
<1> DEFINE msg == [kind |-> "saved", what |-> 0, run |-> i, talk |-> "none", seq |-> 0]
<1>1. /\ finishing[i].step = "saving" /\ stored' = stored \cup {<<i, "window">>}
      /\ finishing' = [finishing EXCEPT ![i].step = "answered"] /\ wire' = wire \o <<msg>>
      /\ UNCHANGED <<main, sends, cancels, screen, buffer, turn, runs, pages>>
  BY DEF SaveAnswer, Reply
<1>2. /\ sends' \in [Submits -> SendStates] /\ cancels' \subseteq Talks
      /\ pages' \subseteq PageRequests /\ stored' \subseteq Answers /\ main' \in MainStates
      /\ stored \subseteq stored'
  BY <1>1, MainTyped DEF Answers
<1>3. finishing \in [Submits -> FinishStates] /\ finishing[i] \in FinishStates
  BY DEF ScreenInv, RunTypes
<1>4. /\ finishing' \in [Submits -> FinishStates] /\ finishing'[i].step = "answered"
      /\ \A j \in Submits : j # i => finishing'[j] = finishing[j]
  BY <1>1, <1>3 DEF FinishStates
<1>5. NoAnswer(i) /\ <<i, "window">> \notin stored /\ i \in runs.retired
  BY <1>1 DEF ScreenInv, WindowWrites
<1>6. \A j \in Submits, w \in {"main", "window"} :
         <<j, w>> \in stored' => <<j, w>> \in stored \/ (j = i /\ w = "window")
  BY <1>1
<1>7. \A j \in Submits : NoAnswer(j) => NoAnswer(j)' BY <1>1, <1>6 DEF NoAnswer
<1>8. MainInOrder'
  <2>1. main.phase = "finishing" => main.run \in Submits BY MainTyped
  <2>2. main.phase = "finishing" => (<<main.run, "main">> \in stored' <=> <<main.run, "main">> \in stored)
    BY <1>2, <1>6, <2>1
  <2> QED BY <1>1, <2>2 DEF ScreenInv, MainInOrder
<1>9. MainWrites' BY <1>1, <1>6 DEF ScreenInv, MainWrites
<1>10. WindowWrites' BY <1>1, <1>4, <1>5, <1>6, <1>7 DEF ScreenInv, WindowWrites
<1>11. Listing(screen.messages)' BY <1>1, <1>2 DEF ScreenInv, Listing
<1>12. msg \in WireMessages BY DEF WireMessages, SavedMessages
<1>13. msg.kind = "saved" /\ msg.run = i OBVIOUS
<1> HIDE DEF msg
<1>14. PICK r : r = msg OBVIOUS
<1>15. r \in WireMessages /\ r.kind = "saved" /\ r.run = i /\ wire' = wire \o <<r>>
  BY <1>1, <1>12, <1>13, <1>14
<1>16. SaysTrue(r)' BY <1>1, <1>15 DEF SaysTrue
<1>17. <<r>> \in Seq(WireMessages) /\ Len(<<r>>) = 1 /\ <<r>>[1] = r
       /\ \A k \in 1 .. Len(<<r>>) : k = 1
  BY <1>15
<1>18. ~Lists(screen.messages, <<i, "window">>) BY <1>5 DEF ScreenInv, Listing, Lists
<1>19. \A j \in 1 .. Len(wire) : ComesBefore(wire[j], r)
  <2> SUFFICES ASSUME NEW j \in 1 .. Len(wire) PROVE ComesBefore(wire[j], r) OBVIOUS
  <2>1. SaysTrue(wire[j]) BY DEF ScreenInv, WireIsTrue
  <2>2. wire[j].kind = "page" => ~Lists(wire[j].what, <<i, "window">>)
    BY <1>5, <2>1 DEF SaysTrue, Listing, Lists
  <2>3. wire[j].kind = "saved" => wire[j].run # i BY <1>5, <2>1 DEF SaysTrue
  <2> QED BY <1>15, <2>2, <2>3 DEF ComesBefore
<1>20. wire \in Seq(WireMessages) /\ WireIsTrue /\ SavedNotShown /\ screen'.messages = screen.messages
  BY <1>1 DEF ScreenInv, RunTypes
<1>21. \A k \in 1 .. Len(<<r>>) :
          /\ SaysTrue(<<r>>[k])'
          /\ <<r>>[k].kind = "saved" =>
                /\ Len(<<r>>) = 1
                /\ ~Lists(screen.messages, <<<<r>>[k].run, "window">>)
                /\ \A j \in 1 .. Len(wire) : ComesBefore(wire[j], <<r>>[k])
  BY <1>15, <1>16, <1>17, <1>18, <1>19
<1>22. wire' \in Seq(WireMessages) /\ WireIsTrue' /\ SavedNotShown'
  BY <1>2, <1>7, <1>15, <1>17, <1>20, <1>21, WireGrows
<1>23. RunTypes' BY <1>1, <1>2, <1>4, <1>22 DEF ScreenInv, RunTypes
<1> QED BY <1>8, <1>9, <1>10, <1>11, <1>22, <1>23 DEF ScreenInv

-----------------------------------------------------------------------------
(* Steps of the window and its user that take no message. *)
LEMMA QuietStep ==
  ASSUME ScreenInv, UNCHANGED <<main, wire, stored>>,
         cancels' \subseteq Talks, screen' \in Screens, buffer' \in Seq(Submits \X Nat),
         turn' \in Turns, runs' \in RunStates, finishing' \in [Submits -> FinishStates],
         pages' \subseteq PageRequests, sends' \in [Submits -> SendStates],
         screen'.messages = screen.messages, runs.retired \subseteq runs'.retired,
         \A j \in Submits : \/ sends'[j] = sends[j]
                            \/ /\ sends[j].step = "none" /\ sends'[j].step = "asked"
                               /\ sends'[j].talk \in Talks,
         \A j \in Submits : \/ finishing'[j] = finishing[j]
                            \/ /\ finishing[j].step # "none"
                               /\ finishing'[j].step \in {"done", "failed"}
  PROVE  ScreenInv'
<1>1. \A j \in Submits : NoAnswer(j) => NoAnswer(j)' BY DEF NoAnswer
<1>2. wire \in Seq(WireMessages) /\ WireIsTrue /\ SavedNotShown BY DEF ScreenInv, RunTypes
<1>3. \A k \in 1 .. Len(wire) : wire[k].kind = "saved" =>
         ~Lists(screen'.messages, <<wire[k].run, "window">>)
  BY <1>2 DEF SavedNotShown
<1>4. WireIsTrue' /\ SavedNotShown' BY <1>1, <1>2, <1>3, WireStays
<1>5. RunTypes' BY <1>2 DEF ScreenInv, RunTypes
<1>6. MainInOrder'
  <2>1. \A j \in Submits : sends'[j].step # "none" => sends'[j].talk \in Talks BY MainTyped
  <2>2. main.run # 0 => /\ main.run \in Submits /\ sends[main.run].step \in {"starting", "done"}
                        /\ sends'[main.run] = sends[main.run]
    <3>1. main.run # 0 => main.run \in Submits BY MainTyped
    <3>2. main.run # 0 => sends[main.run].step \in {"starting", "done"}
      BY DEF ScreenInv, MainInOrder
    <3> QED BY <3>1, <3>2
  <2>3. main.phase = "none" <=> main.run = 0 BY DEF ScreenInv, MainInOrder
  <2>4. main.phase = "finishing" =>
          /\ sends'[main.run].step = "done" /\ main.outcome \in Outcomes
          /\ main.stored <=> <<main.run, "main">> \in stored
    BY <2>2, <2>3 DEF ScreenInv, MainInOrder
  <2>5. main.run # 0 => main.talk \in Talks BY DEF ScreenInv, MainInOrder
  <2> QED BY <2>1, <2>2, <2>3, <2>4, <2>5 DEF MainInOrder
<1>7. MainWrites' BY DEF ScreenInv, MainWrites
<1>8. WindowWrites' BY <1>1 DEF ScreenInv, WindowWrites
<1>9. Listing(screen.messages)' BY DEF ScreenInv, Listing
<1> QED BY <1>4, <1>5, <1>6, <1>7, <1>8, <1>9 DEF ScreenInv

LEMMA WindowTyped ==
  ASSUME ScreenInv
  PROVE  /\ screen \in Screens /\ buffer \in Seq(Submits \X Nat) /\ turn \in Turns
         /\ runs \in RunStates /\ finishing \in [Submits -> FinishStates]
         /\ pages \subseteq PageRequests /\ sends \in [Submits -> SendStates]
         /\ cancels \subseteq Talks /\ screen.talk \in Talks /\ screen.finalizing \in BOOLEAN
         /\ screen.stream \in Seq(Submits \X Nat) /\ screen.messages \in Seq(Answers)
         /\ screen.reads \in Nat /\ runs.active \in Submits \cup {0}
         /\ runs.retired \subseteq Submits /\ runs.accepted \in [Submits -> Nat]
BY DEF ScreenInv, RunTypes, Screens, RunStates

LEMMA RetiringTyped ==
  ASSUME ScreenInv
  PROVE  Retiring \in RunStates /\ runs.retired \subseteq Retiring.retired
<1>1. runs \in RunStates /\ runs.active \in Submits \cup {0} BY WindowTyped
<1>2. runs.retired \cup ({runs.active} \ {0}) \in SUBSET Submits BY <1>1, WindowTyped
<1> QED BY <1>1, <1>2 DEF Retiring, RunStates

LEMMA SubmitKeeps ==
  ASSUME ScreenInv, NEW i \in Submits, Submit(i)
  PROVE  ScreenInv'
<1>1. /\ sends[i].step = "none"
      /\ runs' = [Retiring EXCEPT !.overlap = @ \/ ~AllOver]
      /\ turn' = [id |-> i, talk |-> screen.talk]
      /\ screen' = [screen EXCEPT !.status = "busy", !.stream = <<>>]
      /\ sends' = [sends EXCEPT ![i] = [step |-> "asked", talk |-> screen.talk]]
      /\ UNCHANGED <<main, wire, cancels, stored, buffer, finishing, pages>>
  BY DEF Submit
<1>2. /\ screen \in Screens /\ screen.talk \in Talks /\ buffer' \in Seq(Submits \X Nat)
      /\ finishing' \in [Submits -> FinishStates] /\ pages' \subseteq PageRequests
      /\ sends \in [Submits -> SendStates] /\ cancels' \subseteq Talks
      /\ Retiring \in RunStates /\ runs.retired \subseteq Retiring.retired
  BY <1>1, WindowTyped, RetiringTyped
<1>3. runs' \in RunStates /\ runs'.retired = Retiring.retired
  <2>1. PICK r : r = Retiring OBVIOUS
  <2>2. PICK b \in BOOLEAN : runs' = [r EXCEPT !.overlap = b]
    <3>1. (r.overlap \/ ~AllOver) \in BOOLEAN OBVIOUS
    <3> QED BY <1>1, <2>1, <3>1, Zenon
  <2> QED BY <1>2, <2>1, <2>2 DEF RunStates
<1>4. turn' \in Turns BY <1>1, <1>2 DEF Turns
<1>5. screen' \in Screens /\ screen'.messages = screen.messages
  <2>1. <<>> \in Seq(Submits \X Nat) OBVIOUS
  <2> QED BY <1>1, <1>2, <2>1 DEF Screens
<1>6. /\ sends' \in [Submits -> SendStates]
      /\ sends'[i].step = "asked" /\ sends'[i].talk \in Talks
      /\ \A j \in Submits : j # i => sends'[j] = sends[j]
  BY <1>1, <1>2 DEF SendStates
<1>7. \A j \in Submits : \/ sends'[j] = sends[j]
                         \/ /\ sends[j].step = "none" /\ sends'[j].step = "asked"
                            /\ sends'[j].talk \in Talks
  BY <1>1, <1>6
<1> QED BY <1>1, <1>2, <1>3, <1>4, <1>5, <1>6, <1>7, QuietStep

LEMMA CancelKeeps ==
  ASSUME ScreenInv, Cancel
  PROVE  ScreenInv'
<1>1. /\ cancels' = cancels \cup {screen.talk}
      /\ screen' = [screen EXCEPT !.status = "cancelling"]
      /\ UNCHANGED <<main, wire, sends, stored, buffer, turn, runs, finishing, pages>>
  BY DEF Cancel
<1>2. cancels' \subseteq Talks BY <1>1, WindowTyped
<1>3. screen' \in Screens /\ screen'.messages = screen.messages
  BY <1>1, WindowTyped DEF Screens
<1>4. /\ buffer' \in Seq(Submits \X Nat) /\ turn' \in Turns /\ runs' \in RunStates
      /\ finishing' \in [Submits -> FinishStates] /\ pages' \subseteq PageRequests
      /\ sends' \in [Submits -> SendStates] /\ runs.retired \subseteq runs'.retired
  BY <1>1, WindowTyped
<1> QED BY <1>1, <1>2, <1>3, <1>4, QuietStep

LEMMA FlushKeeps ==
  ASSUME ScreenInv, FlushStream
  PROVE  ScreenInv'
<1>1. /\ screen' = [screen EXCEPT !.stream = screen.stream \o buffer] /\ buffer' = <<>>
      /\ UNCHANGED <<main, wire, sends, cancels, stored, turn, runs, finishing, pages>>
  BY DEF FlushStream
<1>2. screen.stream \o buffer \in Seq(Submits \X Nat) BY WindowTyped
<1>3. screen' \in Screens /\ screen'.messages = screen.messages
  BY <1>1, <1>2, WindowTyped DEF Screens
<1>4. /\ buffer' \in Seq(Submits \X Nat) /\ turn' \in Turns /\ runs' \in RunStates
      /\ finishing' \in [Submits -> FinishStates] /\ pages' \subseteq PageRequests
      /\ sends' \in [Submits -> SendStates] /\ runs.retired \subseteq runs'.retired
      /\ cancels' \subseteq Talks
  BY <1>1, WindowTyped
<1> QED BY <1>1, <1>3, <1>4, QuietStep

LEMMA ForgottenTyped ==
  ASSUME ScreenInv, NEW i
  PROVE  RunForgotten(i) \in RunStates /\ RunForgotten(i).retired = runs.retired
<1>1. runs \in RunStates /\ (IF runs.active = i THEN 0 ELSE runs.active) \in Submits \cup {0}
  BY WindowTyped
<1> QED BY <1>1 DEF RunForgotten, RunStates

LEMMA TurnFinishedKeeps ==
  ASSUME ScreenInv, NEW i \in Submits, TurnFinished(i)
  PROVE  ScreenInv'
<1>1. /\ finishing[i].step = "refreshing"
      /\ finishing' = [finishing EXCEPT ![i].step = "done"]
      /\ turn' = IF turn.id = finishing[i].turn THEN NoTurn ELSE turn
      /\ screen' = [screen EXCEPT !.finalizing = FALSE]
      /\ runs' = RunForgotten(i)
      /\ UNCHANGED <<main, wire, sends, cancels, stored, buffer, pages>>
  BY DEF TurnFinished
<1>2. runs' \in RunStates /\ runs.retired \subseteq runs'.retired BY <1>1, ForgottenTyped
<1>3. turn' \in Turns
  <2>1. NoTurn \in Turns BY DEF NoTurn, Turns
  <2> QED BY <1>1, <2>1, WindowTyped
<1>4. screen' \in Screens /\ screen'.messages = screen.messages
  BY <1>1, WindowTyped DEF Screens
<1>5. finishing[i] \in FinishStates /\ finishing \in [Submits -> FinishStates] BY WindowTyped
<1>6. /\ finishing' \in [Submits -> FinishStates] /\ finishing'[i].step = "done"
      /\ \A j \in Submits : j # i => finishing'[j] = finishing[j]
  BY <1>1, <1>5 DEF FinishStates
<1>7. /\ buffer' \in Seq(Submits \X Nat) /\ pages' \subseteq PageRequests
      /\ sends' \in [Submits -> SendStates] /\ cancels' \subseteq Talks
  BY <1>1, WindowTyped
<1>8. \A j \in Submits : \/ finishing'[j] = finishing[j]
                         \/ finishing[j].step # "none" /\ finishing'[j].step \in {"done", "failed"}
  BY <1>1, <1>6
<1> QED BY <1>1, <1>2, <1>3, <1>4, <1>6, <1>7, <1>8, QuietStep

LEMMA TurnFinishFailsKeeps ==
  ASSUME ScreenInv, NEW i \in Submits, TurnFinishFails(i)
  PROVE  ScreenInv'
<1>1. /\ finishing[i].step \in {"saving", "refreshing"}
      /\ finishing' = [finishing EXCEPT ![i].step = "failed"]
      /\ screen' = [screen EXCEPT !.finalizing = FALSE, !.status = "failed"]
      /\ runs' = RunForgotten(i)
      /\ UNCHANGED <<main, wire, sends, cancels, stored, buffer, turn, pages>>
  BY DEF TurnFinishFails
<1>2. runs' \in RunStates /\ runs.retired \subseteq runs'.retired BY <1>1, ForgottenTyped
<1>4. screen' \in Screens /\ screen'.messages = screen.messages
  BY <1>1, WindowTyped DEF Screens, Outcomes
<1>5. finishing[i] \in FinishStates /\ finishing \in [Submits -> FinishStates] BY WindowTyped
<1>6. /\ finishing' \in [Submits -> FinishStates] /\ finishing'[i].step = "failed"
      /\ \A j \in Submits : j # i => finishing'[j] = finishing[j]
  BY <1>1, <1>5 DEF FinishStates
<1>7. /\ buffer' \in Seq(Submits \X Nat) /\ pages' \subseteq PageRequests /\ turn' \in Turns
      /\ sends' \in [Submits -> SendStates] /\ cancels' \subseteq Talks
  BY <1>1, WindowTyped
<1>8. \A j \in Submits : \/ finishing'[j] = finishing[j]
                         \/ finishing[j].step # "none" /\ finishing'[j].step \in {"done", "failed"}
  BY <1>1, <1>6
<1> QED BY <1>1, <1>2, <1>4, <1>6, <1>7, <1>8, QuietStep

LEMMA OpenKeeps ==
  ASSUME ScreenInv, NEW c \in Talks, Open(c)
  PROVE  ScreenInv'
<1>1. /\ screen' = [screen EXCEPT !.talk = c, !.stream = <<>>, !.reads = screen.reads + 1]
      /\ pages' = {p \in pages : p.kind # "open"} \cup {Asked("open", c)}
      /\ wire' = Unawaited(wire)
      /\ UNCHANGED <<main, sends, cancels, stored, buffer, turn, runs, finishing>>
  BY DEF Open
<1>2. wire \in Seq(WireMessages) /\ WireIsTrue /\ SavedNotShown BY DEF ScreenInv, RunTypes
<1>3. wire' \in Seq(WireMessages) /\ \E place : Among(wire', wire, Len(wire), place)
  BY <1>1, <1>2, UnawaitedAmong
<1>4. PICK place : Among(wire', wire, Len(wire), place) BY <1>3
<1>5. \A j \in Submits : NoAnswer(j) => NoAnswer(j)' BY <1>1 DEF NoAnswer
<1>6. screen' \in Screens /\ screen'.messages = screen.messages
  <2>1. screen.reads + 1 \in Nat /\ <<>> \in Seq(Submits \X Nat) BY WindowTyped
  <2> QED BY <1>1, <2>1, WindowTyped DEF Screens
<1>7. \A k \in 1 .. Len(wire') : wire'[k].kind = "saved" =>
         ~Lists(screen'.messages, <<wire'[k].run, "window">>)
  <2>1. \A k \in 1 .. Len(wire') : place[k] \in 1 .. Len(wire) /\ wire'[k] = wire[place[k]]
    BY <1>4 DEF Among
  <2> QED BY <1>2, <1>6, <2>1 DEF SavedNotShown
<1>8. WireIsTrue' /\ SavedNotShown' BY <1>1, <1>2, <1>3, <1>4, <1>5, <1>7, WireThins
<1>9. pages' \subseteq PageRequests BY <1>1, WindowTyped DEF PageRequests, Asked
<1>10. RunTypes' BY <1>1, <1>3, <1>6, <1>9 DEF ScreenInv, RunTypes
<1>11. MainInOrder' BY <1>1 DEF ScreenInv, MainInOrder
<1>12. MainWrites' BY <1>1 DEF ScreenInv, MainWrites
<1>13. WindowWrites' BY <1>1, <1>5 DEF ScreenInv, WindowWrites
<1>14. Listing(screen.messages)' BY <1>1, <1>6 DEF ScreenInv, Listing
<1> QED BY <1>8, <1>10, <1>11, <1>12, <1>13, <1>14 DEF ScreenInv

-----------------------------------------------------------------------------
(* The window takes a message. *)
LEMMA TakeStep ==
  ASSUME ScreenInv, wire # <<>>, wire' = Tail(wire), UNCHANGED <<main, sends, cancels, stored>>,
         screen' \in Screens, buffer' \in Seq(Submits \X Nat), turn' \in Turns,
         runs' \in RunStates, finishing' \in [Submits -> FinishStates], pages' \subseteq PageRequests,
         WindowWrites', Listing(screen.messages)',
         \A k \in 2 .. Len(wire) : wire[k].kind = "saved" =>
            ~Lists(screen'.messages, <<wire[k].run, "window">>)
  PROVE  ScreenInv'
<1>1. \A j \in Submits : NoAnswer(j) => NoAnswer(j)' BY DEF NoAnswer
<1>2. wire \in Seq(WireMessages) /\ WireIsTrue /\ SavedNotShown BY DEF ScreenInv, RunTypes
<1>3. wire' \in Seq(WireMessages) /\ WireIsTrue' /\ SavedNotShown' BY <1>1, <1>2, WireTaken
<1>4. RunTypes' BY <1>3 DEF ScreenInv, RunTypes
<1>5. MainInOrder' BY DEF ScreenInv, MainInOrder
<1>6. MainWrites' BY DEF ScreenInv, MainWrites
<1> QED BY <1>3, <1>4, <1>5, <1>6 DEF ScreenInv

(* One that shows no answer and changes no turn's end. *)
LEMMA TakeQuietly ==
  ASSUME ScreenInv, wire # <<>>, wire' = Tail(wire), UNCHANGED <<main, sends, cancels, stored, finishing>>,
         screen' \in Screens, buffer' \in Seq(Submits \X Nat), turn' \in Turns,
         runs' \in RunStates, pages' \subseteq PageRequests,
         runs.retired \subseteq runs'.retired, screen'.messages = screen.messages
  PROVE  ScreenInv'
<1>1. wire \in Seq(WireMessages) /\ Len(wire) \in Nat BY MainTyped
<1>2. \A k \in 2 .. Len(wire) : wire[k].kind = "saved" =>
            ~Lists(screen'.messages, <<wire[k].run, "window">>)
  <2>1. SavedNotShown BY DEF ScreenInv
  <2>2. \A k \in 2 .. Len(wire) : k \in 1 .. Len(wire) BY <1>1
  <2>3. \A k \in 1 .. Len(wire) : wire[k].kind = "saved" =>
            ~Lists(screen.messages, <<wire[k].run, "window">>)
    BY <2>1, Zenon DEF SavedNotShown
  <2> QED BY <2>2, <2>3, Zenon
<1>3. WindowWrites' BY DEF ScreenInv, WindowWrites, NoAnswer
<1>4. Listing(screen.messages)' BY DEF ScreenInv, Listing
<1>5. finishing' \in [Submits -> FinishStates] BY WindowTyped
<1> QED BY <1>2, <1>3, <1>4, <1>5, TakeStep

LEMMA HeadTyped ==
  ASSUME ScreenInv, wire # <<>>
  PROVE  /\ Head(wire) \in WireMessages /\ SaysTrue(Head(wire))
         /\ \A k \in 2 .. Len(wire) : wire[k].kind = "saved" =>
               /\ wire[k] \in WireMessages /\ wire[k].run \in Submits
               /\ ~Lists(screen.messages, <<wire[k].run, "window">>)
               /\ ComesBefore(Head(wire), wire[k])
<1>1. wire \in Seq(WireMessages) /\ Len(wire) \in Nat BY MainTyped
<1>2. Head(wire) = wire[1] /\ 1 \in 1 .. Len(wire) /\ wire[1] \in WireMessages BY <1>1
<1>3. SaysTrue(Head(wire)) BY <1>2 DEF ScreenInv, WireIsTrue
<1>4. ASSUME NEW k \in 2 .. Len(wire), wire[k].kind = "saved"
      PROVE  /\ wire[k] \in WireMessages /\ wire[k].run \in Submits
             /\ ~Lists(screen.messages, <<wire[k].run, "window">>)
             /\ ComesBefore(Head(wire), wire[k])
  <2>1. k \in 1 .. Len(wire) /\ 1 \in 1 .. k - 1 BY <1>1
  <2>2. wire[k] \in WireMessages BY <1>1, <2>1
  <2>3. wire[k].run \in Submits BY <1>4, <2>2, MessagesTyped
  <2> QED BY <1>2, <1>4, <2>1, <2>2, <2>3 DEF ScreenInv, SavedNotShown
<1> QED BY <1>2, <1>3, <1>4

LEMMA NotedTyped ==
  ASSUME ScreenInv, NEW m, m.run \in Submits, m.seq \in Nat
  PROVE  /\ Noted(m) \in RunStates /\ Noted(m).retired = runs.retired
         /\ Adopted(m) \in RunStates /\ Adopted(m).retired = runs.retired
<1>1. runs \in RunStates /\ runs.active \in Submits \cup {0} /\ runs.accepted \in [Submits -> Nat]
  BY WindowTyped
<1>2. Noted(m) = [runs EXCEPT !.accepted = [runs.accepted EXCEPT ![m.run] = m.seq]]
  BY DEF Noted
<1>3. [runs.accepted EXCEPT ![m.run] = m.seq] \in [Submits -> Nat] BY <1>1
<1>4. /\ Noted(m) \in RunStates /\ Noted(m).retired = runs.retired
      /\ Noted(m).active = runs.active
  BY <1>1, <1>2, <1>3 DEF RunStates
<1>5. (IF runs.active = 0 THEN m.run ELSE Noted(m).active) \in Submits \cup {0} BY <1>1, <1>4
<1>6. Adopted(m) \in RunStates /\ Adopted(m).retired = Noted(m).retired
  BY <1>4, <1>5 DEF Adopted, RunStates
<1> QED BY <1>4, <1>6

LEMMA RetiredTyped ==
  ASSUME ScreenInv, NEW r \in RunStates, NEW run \in Submits
  PROVE  /\ [r EXCEPT !.retired = @ \cup {run}] \in RunStates
         /\ [r EXCEPT !.retired = @ \cup {run}].retired = r.retired \cup {run}
<1>1. r.retired \cup {run} \in SUBSET Submits BY DEF RunStates
<1> QED BY <1>1 DEF RunStates

(* What is on the screen and an answer that main has stored. *)
LEMMA ShownTyped ==
  ASSUME ScreenInv, NEW talk, NEW run \in Submits, <<run, "main">> \in stored
  PROVE  LET messages == Shown(talk, <<run, "main">>) IN
         /\ messages \in Seq(Answers) /\ Listing(messages)
         /\ \A i \in Submits : ~Lists(screen.messages, <<i, "window">>)
               => ~Lists(messages, <<i, "window">>)
<1> DEFINE new == <<run, "main">>
           old == screen.messages
           more == Append(old, new)
<1>1. old \in Seq(Answers) /\ Listing(old) /\ new \in Answers
  BY WindowTyped DEF ScreenInv, Answers
<1>2. CASE Shown(talk, new) = old BY <1>1, <1>2
<1>3. CASE Shown(talk, new) = more /\ ~ \E i \in DOMAIN old : old[i] = new
  <2> HIDE DEF new
  <2>1. /\ more \in Seq(Answers) /\ Len(more) = Len(old) + 1 /\ more[Len(old) + 1] = new
        /\ Len(old) \in Nat /\ \A i \in 1 .. Len(old) : more[i] = old[i] /\ old[i] # new
    BY <1>1, <1>3
  <2> HIDE DEF more, old
  <2>2. \A i \in 1 .. Len(more) : i \in 1 .. Len(old) \/ i = Len(old) + 1 BY <2>1
  <2>3. \A i \in 1 .. Len(more) : more[i] \in stored BY <1>1, <2>1, <2>2 DEF Listing, new
  <2>4. \A i, j \in 1 .. Len(more) : i # j => more[i] # more[j]
    BY <1>1, <2>1, <2>2 DEF Listing
  <2>5. \A i \in Submits : <<i, "window">> # new BY DEF new
  <2>6. \A i \in Submits : ~Lists(old, <<i, "window">>) => ~Lists(more, <<i, "window">>)
    BY <2>1, <2>2, <2>5 DEF Lists
  <2>7. more \in Seq(Answers) /\ Listing(more) BY <2>1, <2>3, <2>4 DEF Listing
  <2> QED BY <1>3, <2>6, <2>7 DEF old, new
<1>4. Shown(talk, new) = old \/ (Shown(talk, new) = more /\ ~ \E i \in DOMAIN old : old[i] = new)
  BY DEF Shown
<1> QED BY <1>2, <1>3, <1>4

(* The message at the head of the queue, taken. *)
Taken(m) ==
    /\ wire # <<>> /\ m = Head(wire) /\ wire' = Tail(wire)
    /\ UNCHANGED <<main, sends, cancels, stored>>

LEMMA StatusKeeps ==
  ASSUME ScreenInv, NEW m, Taken(m), StatusArrives(m)
  PROVE  ScreenInv'
<1>1. /\ m.run \in Submits /\ m.seq \in Nat /\ m.what \in {"busy", "cancelling"} \cup Outcomes
      /\ wire # <<>> /\ wire' = Tail(wire) /\ UNCHANGED <<main, sends, cancels, stored>>
      /\ UNCHANGED <<buffer, turn, finishing, pages>>
  BY HeadTyped, MessagesTyped DEF Taken, StatusArrives
<1>2. /\ Noted(m) \in RunStates /\ Noted(m).retired = runs.retired
      /\ Adopted(m) \in RunStates /\ Adopted(m).retired = runs.retired
  BY <1>1, NotedTyped
<1>3. \/ UNCHANGED <<screen, runs>>
      \/ runs' = Noted(m) /\ UNCHANGED screen
      \/ /\ runs' = Adopted(m)
         /\ screen' = [screen EXCEPT !.status = m.what,
                           !.finalizing = screen.finalizing \/ m.what = "completed"]
  BY DEF StatusArrives
<1>4. runs' \in RunStates /\ runs.retired \subseteq runs'.retired BY <1>2, <1>3, WindowTyped
<1>5. screen' \in Screens /\ screen'.messages = screen.messages
  <2>1. screen \in Screens BY WindowTyped
  <2>2. PICK b \in BOOLEAN : b = (screen.finalizing \/ m.what = "completed")
    <3>1. (screen.finalizing \/ m.what = "completed") \in BOOLEAN OBVIOUS
    <3> QED BY <3>1
  <2>3. screen' = screen \/ screen' = [screen EXCEPT !.status = m.what, !.finalizing = b]
    BY <1>3, <2>2, Zenon
  <2> QED BY <1>1, <2>1, <2>3 DEF Screens
<1>6. buffer' \in Seq(Submits \X Nat) /\ turn' \in Turns /\ pages' \subseteq PageRequests
  BY <1>1, WindowTyped
<1> QED BY <1>1, <1>4, <1>5, <1>6, TakeQuietly

LEMMA DeltaArrivesKeeps ==
  ASSUME ScreenInv, NEW m, Taken(m), DeltaArrives(m)
  PROVE  ScreenInv'
<1>1. /\ m.run \in Submits /\ m.seq \in Nat /\ m.what \in Nat
      /\ wire # <<>> /\ wire' = Tail(wire) /\ UNCHANGED <<main, sends, cancels, stored>>
      /\ UNCHANGED <<screen, turn, finishing, pages>>
  BY HeadTyped, MessagesTyped DEF Taken, DeltaArrives
<1>2. /\ Noted(m) \in RunStates /\ Noted(m).retired = runs.retired
      /\ Adopted(m) \in RunStates /\ Adopted(m).retired = runs.retired
  BY <1>1, NotedTyped
<1>3. \/ UNCHANGED <<buffer, runs>>
      \/ runs' = Noted(m) /\ UNCHANGED buffer
      \/ runs' = Adopted(m) /\ buffer' = Append(buffer, <<m.run, m.what>>)
  BY DEF DeltaArrives
<1>4. runs' \in RunStates /\ runs.retired \subseteq runs'.retired BY <1>2, <1>3, WindowTyped
<1>5. buffer' \in Seq(Submits \X Nat)
  <2>1. buffer \in Seq(Submits \X Nat) /\ <<m.run, m.what>> \in Submits \X Nat
    BY <1>1, WindowTyped
  <2>2. Append(buffer, <<m.run, m.what>>) \in Seq(Submits \X Nat) BY <2>1
  <2> QED BY <1>3, <2>1, <2>2
<1>6. screen' \in Screens /\ turn' \in Turns /\ pages' \subseteq PageRequests
  BY <1>1, WindowTyped
<1> QED BY <1>1, <1>4, <1>5, <1>6, TakeQuietly

LEMMA RefusalKeeps ==
  ASSUME ScreenInv, NEW m, Taken(m), SendRefused(m) \/ CancelRefused(m)
  PROVE  ScreenInv'
<1>1. /\ wire # <<>> /\ wire' = Tail(wire) /\ UNCHANGED <<main, sends, cancels, stored>>
      /\ UNCHANGED <<buffer, finishing>>
  BY DEF Taken, SendRefused, CancelRefused
<1>2. runs' = Retiring \/ runs' = runs BY DEF SendRefused, CancelRefused
<1>3. runs' \in RunStates /\ runs.retired \subseteq runs'.retired
  BY <1>2, RetiringTyped, WindowTyped
<1>4. turn' \in Turns
  <2>1. NoTurn \in Turns BY DEF NoTurn, Turns
  <2> QED BY <2>1, WindowTyped DEF SendRefused, CancelRefused
<1>5. screen' \in Screens /\ screen'.messages = screen.messages
  BY WindowTyped DEF SendRefused, CancelRefused, Screens, Outcomes
<1>6. pages' \subseteq PageRequests
  <2>1. Asked("latest", screen.talk) \in PageRequests BY WindowTyped DEF Asked, PageRequests
  <2> QED BY <2>1, WindowTyped DEF SendRefused, CancelRefused
<1>7. buffer' \in Seq(Submits \X Nat) BY <1>1, WindowTyped
<1> QED BY <1>1, <1>3, <1>4, <1>5, <1>6, <1>7, TakeQuietly

LEMMA PageTakenKeeps ==
  ASSUME ScreenInv, NEW m, Taken(m), PageTaken(m)
  PROVE  ScreenInv'
<1>1. /\ m.kind = "page" /\ wire # <<>> /\ wire' = Tail(wire) /\ m = Head(wire)
      /\ UNCHANGED <<main, sends, cancels, stored, runs, turn, pages, buffer, finishing>>
      /\ screen' = IF screen.talk = m.talk THEN [screen EXCEPT !.messages = m.what] ELSE screen
  BY DEF Taken, PageTaken
<1>2. m \in WireMessages /\ m.what \in Seq(Answers) /\ Listing(m.what)
  BY <1>1, HeadTyped, MessagesTyped DEF SaysTrue
<1>3. screen' \in Screens BY <1>1, <1>2, WindowTyped DEF Screens
<1>4. screen'.messages = screen.messages \/ screen'.messages = m.what
  BY <1>1, WindowTyped DEF Screens
<1>5. Listing(screen'.messages) BY <1>2, <1>4 DEF ScreenInv
<1>6. Listing(screen.messages)' BY <1>1, <1>5 DEF Listing
<1>7. \A k \in 2 .. Len(wire) : wire[k].kind = "saved" =>
            ~Lists(screen'.messages, <<wire[k].run, "window">>)
  BY <1>1, <1>4, HeadTyped DEF ComesBefore
<1>8. WindowWrites' BY <1>1 DEF ScreenInv, WindowWrites, NoAnswer
<1>9. /\ buffer' \in Seq(Submits \X Nat) /\ turn' \in Turns /\ pages' \subseteq PageRequests
      /\ runs' \in RunStates /\ finishing' \in [Submits -> FinishStates]
  BY <1>1, WindowTyped
<1> QED BY <1>1, <1>3, <1>6, <1>7, <1>8, <1>9, TakeStep

LEMMA SavedKeeps ==
  ASSUME ScreenInv, NEW m, Taken(m), SavedShown(m)
  PROVE  ScreenInv'
<1>1. /\ m.kind = "saved" /\ wire # <<>> /\ wire' = Tail(wire) /\ m = Head(wire)
      /\ UNCHANGED <<main, sends, cancels, stored, runs, turn, pages, buffer>>
  BY DEF Taken, SavedShown
<1>2. m \in WireMessages /\ m.run \in Submits /\ <<m.run, "window">> \in stored
      /\ SaysTrue(m)
  BY <1>1, HeadTyped, MessagesTyped DEF SaysTrue
<1>3. /\ buffer' \in Seq(Submits \X Nat) /\ turn' \in Turns /\ pages' \subseteq PageRequests
      /\ runs' \in RunStates /\ runs.retired \subseteq runs'.retired
  BY <1>1, WindowTyped
<1>4. CASE finishing[m.run].step # "answered"
  <2>1. UNCHANGED <<screen, finishing>> BY <1>4 DEF SavedShown
  <2>2. screen' \in Screens /\ screen'.messages = screen.messages BY <2>1, WindowTyped
  <2> QED BY <1>1, <1>3, <2>1, <2>2, TakeQuietly
<1>5. CASE finishing[m.run].step = "answered"
  <2> DEFINE new == <<m.run, "window">>
             old == screen.messages
             more == IF screen.talk = sends[m.run].talk THEN Append(old, new) ELSE old
  <2>1. /\ screen' = [screen EXCEPT !.stream = <<>>, !.messages = more]
        /\ finishing' = [finishing EXCEPT ![m.run].step = "refreshing"]
    BY <1>5 DEF SavedShown
  <2>2. finishing \in [Submits -> FinishStates] /\ finishing[m.run] \in FinishStates
    BY <1>2, WindowTyped
  <2>3. /\ finishing' \in [Submits -> FinishStates] /\ finishing'[m.run].step = "refreshing"
        /\ \A j \in Submits : j # m.run => finishing'[j] = finishing[j]
    BY <1>2, <2>1, <2>2 DEF FinishStates
  <2>4. WindowWrites' BY <1>1, <1>2, <1>5, <2>3 DEF ScreenInv, WindowWrites, NoAnswer
  <2>5. old \in Seq(Answers) /\ Listing(old) /\ new \in Answers
    BY <1>2, WindowTyped DEF ScreenInv, Answers
  <2>6. ~Lists(old, new)
    <3>1. wire \in Seq(WireMessages) /\ 1 \in 1 .. Len(wire) /\ m = wire[1]
      BY <1>1, MainTyped
    <3> QED BY <1>1, <3>1 DEF ScreenInv, SavedNotShown
  <2>7. /\ more \in Seq(Answers) /\ Listing(more)
        /\ \A i \in Submits : i # m.run /\ ~Lists(old, <<i, "window">>)
                                 => ~Lists(more, <<i, "window">>)
    <3>1. CASE more = old BY <2>5, <3>1
    <3>2. CASE more = Append(old, new)
      <4>1. \A i \in Submits : i # m.run => <<i, "window">> # new OBVIOUS
      <4> HIDE DEF new
      <4> DEFINE next == Append(old, new)
      <4>2. /\ next \in Seq(Answers) /\ Len(next) = Len(old) + 1 /\ next[Len(old) + 1] = new
            /\ Len(old) \in Nat /\ \A i \in 1 .. Len(old) : next[i] = old[i]
        BY <2>5
      <4> HIDE DEF next, old, more
      <4>3. \A i \in 1 .. Len(next) : i \in 1 .. Len(old) \/ i = Len(old) + 1 BY <4>2
      <4>4. \A i \in 1 .. Len(old) : old[i] # new BY <2>6 DEF Lists
      <4>5. new \in stored BY <1>2 DEF new
      <4>6. Listing(next) BY <2>5, <4>2, <4>3, <4>4, <4>5 DEF Listing
      <4>7. \A i \in Submits : i # m.run /\ ~Lists(old, <<i, "window">>)
                                 => ~Lists(next, <<i, "window">>)
        BY <4>1, <4>2, <4>3 DEF Lists
      <4>8. more = next BY <3>2 DEF next
      <4> QED BY <4>2, <4>6, <4>7, <4>8
    <3> QED BY <3>1, <3>2
  <2> HIDE DEF more
  <2>8. screen' \in Screens /\ screen'.messages = more
    <3>1. <<>> \in Seq(Submits \X Nat) OBVIOUS
    <3> QED BY <2>1, <2>7, <3>1, WindowTyped DEF Screens
  <2>9. Listing(screen.messages)' BY <1>1, <2>7, <2>8 DEF Listing
  <2>10. \A k \in 2 .. Len(wire) : wire[k].kind = "saved" =>
            ~Lists(screen'.messages, <<wire[k].run, "window">>)
    <3> SUFFICES ASSUME NEW k \in 2 .. Len(wire), wire[k].kind = "saved"
                 PROVE ~Lists(screen'.messages, <<wire[k].run, "window">>)
      OBVIOUS
    <3>1. /\ wire[k].run \in Submits /\ ~Lists(old, <<wire[k].run, "window">>)
          /\ ComesBefore(m, wire[k])
      BY <1>1, HeadTyped
    <3>2. m.run # wire[k].run BY <1>1, <3>1 DEF ComesBefore
    <3> QED BY <2>7, <2>8, <3>1, <3>2
  <2> QED BY <1>1, <1>3, <2>3, <2>4, <2>8, <2>9, <2>10, TakeStep
<1> QED BY <1>4, <1>5

LEMMA FinishTurnKeeps ==
  ASSUME ScreenInv, NEW m, Taken(m), m.kind = "completed", Fresh(m), FinishTurn(m),
         UNCHANGED <<turn, pages>>
  PROVE  ScreenInv'
<1>1. wire # <<>> /\ wire' = Tail(wire) /\ m = Head(wire) /\ UNCHANGED <<main, sends, cancels, stored>>
  BY DEF Taken
<1>2. m.run \in Submits /\ m.seq \in Nat /\ m.what \in {0, 1} /\ SaysTrue(m)
  BY <1>1, HeadTyped, MessagesTyped
<1>3. Adopted(m) \in RunStates /\ Adopted(m).retired = runs.retired BY <1>2, NotedTyped
<1>4. runs' \in RunStates /\ runs'.retired = runs.retired \cup {m.run}
  <2>1. PICK r : r = Adopted(m) OBVIOUS
  <2>2. runs' = [r EXCEPT !.retired = @ \cup {m.run}] BY <2>1 DEF FinishTurn
  <2> QED BY <1>2, <1>3, <2>1, <2>2, RetiredTyped
<1>5. buffer' \in Seq(Submits \X Nat) /\ turn' \in Turns /\ pages' \subseteq PageRequests
  <2>1. buffer' = <<>> BY DEF FinishTurn
  <2> QED BY <2>1, WindowTyped
<1>6. finishing[m.run].step = "none" BY <1>2 DEF Fresh, ScreenInv, WindowWrites
<1>7. <<m.run, "window">> \notin stored BY <1>2, <1>6 DEF ScreenInv, WindowWrites
<1>8. PICK step \in {"refreshing", "saving"} :
         /\ finishing' = [finishing EXCEPT ![m.run] = [step |-> step, turn |-> turn.id]]
         /\ step = "saving" => m.what = 0
  BY <1>2 DEF FinishTurn
<1>9. /\ finishing' \in [Submits -> FinishStates] /\ finishing'[m.run].step = step
      /\ \A j \in Submits : j # m.run => finishing'[j] = finishing[j]
  <2>1. turn.id \in Nat
    <3>1. turn.id \in Submits \cup {0} BY WindowTyped DEF Turns
    <3> QED BY <3>1, MainTyped
  <2> QED BY <1>2, <1>8, <2>1, WindowTyped DEF FinishStates
<1>10. step = "saving" => NoAnswer(m.run) BY <1>2, <1>8 DEF SaysTrue, Taken
<1>11. WindowWrites'
  BY <1>1, <1>4, <1>7, <1>9, <1>10 DEF ScreenInv, WindowWrites, NoAnswer
<1>12. CASE m.what = 1
  <2> DEFINE messages == Shown(turn.talk, <<m.run, "main">>)
  <2>1. screen' = [screen EXCEPT !.finalizing = TRUE, !.stream = <<>>, !.messages = messages]
    BY <1>12 DEF FinishTurn
  <2>2. <<m.run, "main">> \in stored BY <1>2, <1>12 DEF SaysTrue
  <2>3. /\ messages \in Seq(Answers) /\ Listing(messages)
        /\ \A i \in Submits : ~Lists(screen.messages, <<i, "window">>)
               => ~Lists(messages, <<i, "window">>)
    BY <1>2, <2>2, ShownTyped
  <2> HIDE DEF messages
  <2>4. screen' \in Screens /\ screen'.messages = messages
    <3>1. <<>> \in Seq(Submits \X Nat) OBVIOUS
    <3> QED BY <2>1, <2>3, <3>1, WindowTyped DEF Screens
  <2>5. Listing(screen.messages)' BY <1>1, <2>3, <2>4 DEF Listing
  <2>6. \A k \in 2 .. Len(wire) : wire[k].kind = "saved" =>
            ~Lists(screen'.messages, <<wire[k].run, "window">>)
    BY <1>1, <2>3, <2>4, HeadTyped
  <2> QED BY <1>1, <1>4, <1>5, <1>9, <1>11, <2>4, <2>5, <2>6, TakeStep
<1>13. CASE m.what # 1
  <2>1. PICK text \in {screen.stream \o buffer, <<>>} :
             screen' = [screen EXCEPT !.finalizing = TRUE, !.stream = text]
    BY <1>13 DEF FinishTurn
  <2>2. text \in Seq(Submits \X Nat)
    <3>1. <<>> \in Seq(Submits \X Nat) OBVIOUS
    <3>2. screen.stream \o buffer \in Seq(Submits \X Nat) BY WindowTyped
    <3> QED BY <3>1, <3>2
  <2>3. screen' \in Screens /\ screen'.messages = screen.messages
    BY <2>1, <2>2, WindowTyped DEF Screens
  <2>4. Listing(screen.messages)' BY <1>1, <2>3 DEF ScreenInv, Listing
  <2>5. \A k \in 2 .. Len(wire) : wire[k].kind = "saved" =>
            ~Lists(screen'.messages, <<wire[k].run, "window">>)
    BY <1>1, <2>3, HeadTyped
  <2> QED BY <1>1, <1>4, <1>5, <1>9, <1>11, <2>3, <2>4, <2>5, TakeStep
<1> QED BY <1>12, <1>13

LEMMA ElsewhereKeeps ==
  ASSUME ScreenInv, NEW m, Taken(m), m.kind = "completed", CompletedElsewhere(m),
         UNCHANGED <<turn, pages>>
  PROVE  ScreenInv'
<1>1. /\ wire # <<>> /\ wire' = Tail(wire) /\ m = Head(wire)
      /\ UNCHANGED <<main, sends, cancels, stored>> /\ UNCHANGED <<buffer, finishing>>
  BY DEF Taken, CompletedElsewhere
<1>2. m.run \in Submits /\ m.seq \in Nat /\ m.what \in {0, 1} /\ SaysTrue(m)
  BY <1>1, HeadTyped, MessagesTyped
<1>3. Noted(m) \in RunStates /\ Noted(m).retired = runs.retired BY <1>2, NotedTyped
<1>4. runs' \in RunStates /\ runs'.retired = runs.retired \cup {m.run}
  <2>1. PICK r : r = Noted(m) OBVIOUS
  <2>2. runs' = [r EXCEPT !.retired = @ \cup {m.run}] BY <2>1 DEF CompletedElsewhere
  <2> QED BY <1>2, <1>3, <2>1, <2>2, RetiredTyped
<1>5. buffer' \in Seq(Submits \X Nat) /\ turn' \in Turns /\ pages' \subseteq PageRequests
      /\ finishing' \in [Submits -> FinishStates]
  BY <1>1, WindowTyped
<1>6. WindowWrites' BY <1>1, <1>4 DEF ScreenInv, WindowWrites, NoAnswer
<1> DEFINE messages == Shown(m.talk, <<m.run, "main">>)
<1>7. CASE m.what = 1 /\ screen' = [screen EXCEPT !.messages = messages, !.stream = <<>>]
  <2>2. <<m.run, "main">> \in stored BY <1>2, <1>7 DEF SaysTrue
  <2>3. /\ messages \in Seq(Answers) /\ Listing(messages)
        /\ \A i \in Submits : ~Lists(screen.messages, <<i, "window">>)
               => ~Lists(messages, <<i, "window">>)
    BY <1>2, <2>2, ShownTyped
  <2> HIDE DEF messages
  <2>4. screen' \in Screens /\ screen'.messages = messages
    <3>1. <<>> \in Seq(Submits \X Nat) OBVIOUS
    <3> QED BY <1>7, <2>3, <3>1, WindowTyped DEF Screens
  <2>5. Listing(screen.messages)' BY <1>1, <2>3, <2>4 DEF Listing
  <2>6. \A k \in 2 .. Len(wire) : wire[k].kind = "saved" =>
            ~Lists(screen'.messages, <<wire[k].run, "window">>)
    BY <1>1, <2>3, <2>4, HeadTyped
  <2> QED BY <1>1, <1>4, <1>5, <1>6, <2>4, <2>5, <2>6, TakeStep
<1>8. CASE screen' = screen
  <2>1. runs.retired \subseteq runs'.retired BY <1>4
  <2>2. screen' \in Screens /\ screen'.messages = screen.messages BY <1>8, WindowTyped
  <2> QED BY <1>1, <1>4, <1>5, <2>1, <2>2, TakeQuietly
<1>9. \/ m.what = 1 /\ screen' = [screen EXCEPT !.messages = messages, !.stream = <<>>]
      \/ screen' = screen
  BY DEF CompletedElsewhere
<1> QED BY <1>7, <1>8, <1>9

LEMMA CompletedKeeps ==
  ASSUME ScreenInv, NEW m, Taken(m), CompletedArrives(m)
  PROVE  ScreenInv'
<1>1. /\ wire # <<>> /\ wire' = Tail(wire) /\ m = Head(wire) /\ m.kind = "completed"
      /\ UNCHANGED <<main, sends, cancels, stored>> /\ UNCHANGED <<turn, pages>>
  BY DEF Taken, CompletedArrives
<1>2. m.run \in Submits /\ m.seq \in Nat BY <1>1, HeadTyped, MessagesTyped
<1>3. CASE Fresh(m) /\ FinishTurn(m) BY <1>1, <1>3, FinishTurnKeeps
<1>4. CASE CompletedElsewhere(m) BY <1>1, <1>4, ElsewhereKeeps
<1>5. CASE (runs' = Noted(m) \/ runs' = runs) /\ UNCHANGED <<screen, buffer, finishing>>
  <2>1. runs' \in RunStates /\ runs.retired \subseteq runs'.retired
    BY <1>2, <1>5, NotedTyped, WindowTyped
  <2>2. screen' \in Screens /\ screen'.messages = screen.messages BY <1>5, WindowTyped
  <2>3. buffer' \in Seq(Submits \X Nat) /\ turn' \in Turns /\ pages' \subseteq PageRequests
    BY <1>1, <1>5, WindowTyped
  <2> QED BY <1>1, <1>5, <2>1, <2>2, <2>3, TakeQuietly
<1>6. \/ Fresh(m) /\ FinishTurn(m)
      \/ CompletedElsewhere(m)
      \/ (runs' = Noted(m) \/ runs' = runs) /\ UNCHANGED <<screen, buffer, finishing>>
  BY DEF CompletedArrives
<1> QED BY <1>3, <1>4, <1>5, <1>6

LEMMA ArrivesKeeps ==
  ASSUME ScreenInv, Arrives
  PROVE  ScreenInv'
<1>1. PICK m : m = Head(wire) OBVIOUS
<1>2. Taken(m) BY <1>1 DEF Arrives, Taken
<1>3. \/ StatusArrives(m) \/ DeltaArrives(m) \/ CompletedArrives(m)
      \/ SendRefused(m) \/ CancelRefused(m) \/ PageTaken(m) \/ SavedShown(m)
  BY <1>1 DEF Arrives
<1> QED BY <1>2, <1>3, StatusKeeps, DeltaArrivesKeeps, CompletedKeeps, RefusalKeeps,
           PageTakenKeeps, SavedKeeps

LEMMA ScreenInitially ==
  ASSUME MaxDeltas \in Nat, RunInit
  PROVE  ScreenInv
<1> USE DEF RunInit, Idle, NoTurn
<1>0. \A i \in Submits : i \in Nat /\ i # 0 BY DEF Submits
<1>1. main \in MainStates /\ main.run = 0 /\ main.phase = "none" BY DEF MainStates
<1>2. sends \in [Submits -> SendStates] /\ \A i \in Submits : sends[i].step = "none"
  BY DEF SendStates
<1>3. /\ wire \in Seq(WireMessages) /\ Len(wire) = 0 /\ cancels \subseteq Talks
      /\ stored \subseteq Answers /\ stored = {} /\ buffer \in Seq(Submits \X Nat)
      /\ pages \subseteq PageRequests
  OBVIOUS
<1>4. screen \in Screens /\ screen.messages = <<>>
  <2>1. <<>> \in Seq(Submits \X Nat) /\ <<>> \in Seq(Answers) OBVIOUS
  <2>2. PICK c \in Talks : screen = [talk |-> c, status |-> "ready", finalizing |-> FALSE,
                    stream |-> <<>>, messages |-> <<>>, reads |-> 0]
    OBVIOUS
  <2>3. PICK e : e = <<>> /\ e \in Seq(Submits \X Nat) /\ e \in Seq(Answers) BY <2>1
  <2>4. screen = [talk |-> c, status |-> "ready", finalizing |-> FALSE,
                    stream |-> e, messages |-> e, reads |-> 0]
    BY <2>2, <2>3
  <2> QED BY <2>3, <2>4 DEF Screens, Outcomes
<1>5. turn \in Turns BY DEF Turns
<1>6. runs \in RunStates BY DEF RunStates
<1>7. finishing \in [Submits -> FinishStates] /\ \A i \in Submits : finishing[i].step = "none"
  BY DEF FinishStates
<1>8. RunTypes BY <1>1, <1>2, <1>3, <1>4, <1>5, <1>6, <1>7 DEF RunTypes
<1>9. MainInOrder BY <1>1, <1>2 DEF MainInOrder
<1>10. MainWrites BY <1>3 DEF MainWrites
<1>11. WindowWrites BY <1>3, <1>7 DEF WindowWrites
<1>12. Listing(screen.messages) BY <1>4 DEF Listing
<1>13. WireIsTrue /\ SavedNotShown BY <1>3 DEF WireIsTrue, SavedNotShown
<1> QED BY <1>8, <1>9, <1>10, <1>11, <1>12, <1>13 DEF ScreenInv

LEMMA ScreenStep ==
  ASSUME MaxSubmits \in Nat, MaxDeltas \in Nat, ScreenInv, [RunNext]_runVars
  PROVE  ScreenInv'
<1>1. CASE UNCHANGED runVars
  <2>1. UNCHANGED <<main, wire, sends, cancels, stored, screen, buffer, turn, runs, finishing,
                    pages>>
    BY <1>1 DEF runVars
  <2> QED BY <2>1, WindowTyped, QuietStep
<1>2. CASE MainSteps
  <2>1. CASE Finished BY <2>1, FinishedKeeps
  <2>2. ASSUME NEW o \in {"completed", "failed", "ready"}, NEW saved \in BOOLEAN,
               Finishes(o, saved)
        PROVE ScreenInv'
    BY <2>2, FinishesKeeps DEF Outcomes
  <2>3. ASSUME NEW i \in Submits,
               Reserve(i) \/ Refuse(i) \/ Started(i) \/ StartFails(i) \/ SaveAnswer(i)
        PROVE ScreenInv'
    BY <2>3, ReserveKeeps, RefuseKeeps, StartedKeeps, StartFailsKeeps, SaveAnswerKeeps
  <2>4. ASSUME NEW c \in Talks, MainCancels(c) PROVE ScreenInv' BY <2>4, MainCancelsKeeps
  <2>5. ASSUME NEW p \in pages, PageRead(p) PROVE ScreenInv' BY <2>5, PageReadKeeps
  <2> QED BY <1>2, <2>1, <2>2, <2>3, <2>4, <2>5 DEF MainSteps
<1>3. CASE Delta BY <1>3, DeltaKeeps
<1>4. CASE WindowSteps
  BY <1>4, ArrivesKeeps, FlushKeeps, TurnFinishedKeeps, TurnFinishFailsKeeps DEF WindowSteps
<1>5. CASE UserSteps BY <1>5, CancelKeeps, SubmitKeeps, OpenKeeps DEF UserSteps
<1> QED BY <1>1, <1>2, <1>3, <1>4, <1>5 DEF RunNext

LEMMA ScreenInvSuffices == ScreenInv => RunTypeOK /\ AnswersOnce
<1> SUFFICES ASSUME ScreenInv PROVE RunTypeOK /\ AnswersOnce OBVIOUS
<1>1. AnswersOnce
  <2>1. \A i \in Submits : ~ {<<i, "main">>, <<i, "window">>} \subseteq stored
    BY DEF ScreenInv, WindowWrites, NoAnswer
  <2>2. DOMAIN screen.messages = 1 .. Len(screen.messages) BY WindowTyped
  <2>3. ASSUME NEW i \in 1 .. Len(screen.messages), NEW j \in 1 .. Len(screen.messages), i # j
        PROVE screen.messages[i][1] # screen.messages[j][1]
    <3> DEFINE a == screen.messages[i]
               b == screen.messages[j]
    <3>1. a \in stored /\ b \in stored /\ a # b BY <2>3 DEF ScreenInv, Listing
    <3>2. stored \subseteq Answers BY MainTyped
    <3> HIDE DEF a, b
    <3>3. a[1] # b[1] BY <2>1, <3>1, <3>2 DEF Answers
    <3> QED BY <3>3 DEF a, b
  <2> QED BY <2>1, <2>2, <2>3 DEF AnswersOnce
<1>2. RunTypeOK
  <2>1. main \in MainStates /\ turn.id \in Submits \cup {0}
    BY WindowTyped, MainTyped DEF Turns
  <2>2. main.run \in Submits \cup {0} /\ main.deltas \in 0 .. MaxDeltas
        /\ main.phase \in {"none", "planning", "running", "cancelling", "finishing"}
    BY <2>1 DEF MainStates
  <2>3. \A i \in Submits : sends[i].step \in {"none", "asked", "starting", "done"}
    BY WindowTyped DEF SendStates
  <2>4. screen.status \in {"ready", "busy", "cancelling", "completed", "failed"}
    BY WindowTyped DEF Screens, Outcomes
  <2>5. cancels \subseteq Talks /\ stored \subseteq Submits \X {"main", "window"}
    BY MainTyped DEF Answers
  <2> QED BY <2>1, <2>2, <2>3, <2>4, <2>5, WindowTyped DEF RunTypeOK
<1> QED BY <1>1, <1>2

(* An answer is stored once and shown once, whatever was sent, cancelled or read  *)
(* again meanwhile: the main process and the window never both store the answer   *)
(* of a run, and no run has two answers among the messages of the screen.  For     *)
(* any conversations, submits and lengths of an answer (useAgentRunController,    *)
(* useTurnLifecycle, useConversationSession, TurnPersistence).                  *)
THEOREM AnswersComeOnce ==
  ASSUME MaxSubmits \in Nat, MaxDeltas \in Nat
  PROVE  RunSpec => [](RunTypeOK /\ AnswersOnce)
<1>1. RunInit => ScreenInv BY ScreenInitially
<1>2. ScreenInv /\ [RunNext]_runVars => ScreenInv' BY ScreenStep
<1>3. ScreenInv => RunTypeOK /\ AnswersOnce BY ScreenInvSuffices
<1> QED BY <1>1, <1>2, <1>3, PTL DEF RunSpec

-----------------------------------------------------------------------------
(* Every stored answer comes to the screen: what is on its way, to the window that *)
(* waits for it. *)
OfRun(m) == m.kind \in {"status", "delta", "completed"}
Refuses(m) == m.kind = "refused" /\ m.what = "send"
Answering(m) == m.kind = "completed" /\ m.what = 1

(* A message of a run is newer than those the window took, and of a run that main *)
(* has left it says so last; a submit that was refused has no answer. *)
SaysWhere(m) ==
    /\ OfRun(m) => /\ m.run \in Submits /\ m.seq > runs.accepted[m.run]
                   /\ m.talk = sends[m.run].talk /\ sends[m.run].step \in {"starting", "done"}
                   /\ main.run = m.run => m.seq <= main.seq /\ m.kind # "completed"
    /\ Refuses(m) => m.run \in Submits /\ NoAnswer(m.run)
    /\ m.kind = "saved" => finishing[m.run].step = "answered"
Precedes(m, n) == OfRun(m) /\ OfRun(n) /\ m.run = n.run => m.seq < n.seq /\ m.kind # "completed"

WireTells == \A k \in 1 .. Len(wire) : SaysWhere(wire[k])
EventsInOrder == \A k, l \in 1 .. Len(wire) : k < l => Precedes(wire[k], wire[l])
RunsBegin ==
    /\ main.run # 0 => runs.accepted[main.run] <= main.seq /\ main.talk = sends[main.run].talk
    /\ \A i \in Submits : sends[i].step \in {"none", "asked"} =>
          runs.accepted[i] = 0 /\ i \notin runs.retired /\ runs.active # i
    /\ \A i, j \in Submits : i < j /\ sends[j].step # "none" => sends[i].step # "none"
RunsTold == WireTells /\ EventsInOrder /\ RunsBegin

(* An answer that main has stored and not announced, or that a message announces. *)
Announces(m, a) == \/ a[2] = "main" /\ Answering(m) /\ m.run = a[1]
                   \/ a[2] = "window" /\ m.kind = "saved" /\ m.run = a[1]
InMain(a) == a[2] = "main" /\ main.run = a[1]
ToCome(a, k) == InMain(a) \/ \E l \in k + 1 .. Len(wire) : Announces(wire[l], a)

(* A page has every answer, or the answer is announced after it. *)
PagesAreWhole ==
    \A k \in 1 .. Len(wire) : wire[k].kind = "page" =>
        \A a \in Messages(wire[k].talk) : Lists(wire[k].what, a) \/ ToCome(a, k)

(* Without overlap only the last submit has anything to say. *)
TellsOf(m, i) == (OfRun(m) \/ Refuses(m)) /\ m.run = i
Speaks(i) == \/ main.run = i
             \/ sends[i].step \in {"asked", "starting"}
             \/ \E k \in 1 .. Len(wire) : TellsOf(wire[k], i)
IsLast(i) == \A j \in Submits : sends[j].step # "none" => j <= i
LatestSpeaks == \A i \in Submits : Speaks(i) => IsLast(i) /\ runs.active \in {0, i}

(* A run the window retired has no answer to come. *)
RetiredAreOver ==
    \A i \in runs.retired :
        main.run # i /\ \A k \in 1 .. Len(wire) : Answering(wire[k]) => wire[k].run # i

(* What is stored of the open conversation is on the screen or will be. *)
PageComes == \/ \E p \in pages : p.talk = screen.talk
             \/ \E k \in 1 .. Len(wire) : wire[k].kind = "page" /\ wire[k].talk = screen.talk
AllCome == \A a \in Messages(screen.talk) :
              Lists(screen.messages, a) \/ ToCome(a, 0) \/ PageComes

ShownInv == /\ RunsTold /\ PagesAreWhole
            /\ ~runs.overlap => LatestSpeaks /\ RetiredAreOver /\ AllCome

-----------------------------------------------------------------------------
(* A step of the main process. *)
SendGoesOn(i) ==
    /\ sends'[i].talk = sends[i].talk
    /\ \/ sends'[i].step = sends[i].step
       \/ sends[i].step = "asked" /\ sends'[i].step \in {"starting", "done"}
       \/ sends[i].step = "starting" /\ sends'[i].step = "done"
MainGoesOn ==
    \/ main'.run = 0
    \/ main'.run = main.run /\ main'.seq >= main.seq /\ main'.talk = main.talk
    \/ sends[main'.run].step = "asked" /\ main'.talk = sends[main'.run].talk
NewsOf(m) ==
    /\ OfRun(m) => (m.run = main.run /\ m.seq > main.seq) \/ sends[m.run].step = "asked"
    /\ Answering(m) => m.run = main.run
    /\ Refuses(m) => sends[m.run].step \in {"asked", "starting"}

(* The messages of the queue, and those that join it. *)
LEMMA JoinedWire ==
  ASSUME NEW w \in Seq(WireMessages), NEW more \in Seq(WireMessages)
  PROVE  LET all == w \o more IN
         /\ Len(all) = Len(w) + Len(more) /\ Len(w) \in Nat /\ Len(more) \in Nat
         /\ \A k \in 1 .. Len(w) : k \in 1 .. Len(all) /\ all[k] = w[k]
         /\ \A l \in 1 .. Len(more) : Len(w) + l \in 1 .. Len(all) /\ all[Len(w) + l] = more[l]
         /\ \A k \in 1 .. Len(all) : \/ k \in 1 .. Len(w) /\ all[k] = w[k]
                                     \/ k - Len(w) \in 1 .. Len(more) /\ all[k] = more[k - Len(w)]
<1> DEFINE all == w \o more
<1>1. /\ Len(all) = Len(w) + Len(more) /\ Len(w) \in Nat /\ Len(more) \in Nat
      /\ \A k \in 1 .. Len(all) : all[k] = IF k <= Len(w) THEN w[k] ELSE more[k - Len(w)]
  OBVIOUS
<1> HIDE DEF all
<1>2. \A k \in 1 .. Len(w) : k \in 1 .. Len(all) /\ all[k] = w[k] BY <1>1
<1>3. ASSUME NEW l \in 1 .. Len(more)
      PROVE  Len(w) + l \in 1 .. Len(all) /\ all[Len(w) + l] = more[l]
  <2>1. Len(w) + l \in 1 .. Len(all) /\ ~(Len(w) + l <= Len(w)) /\ (Len(w) + l) - Len(w) = l
    BY <1>1
  <2> QED BY <1>1, <2>1
<1>4. \A k \in 1 .. Len(all) : \/ k \in 1 .. Len(w) /\ all[k] = w[k]
                               \/ k - Len(w) \in 1 .. Len(more) /\ all[k] = more[k - Len(w)]
  BY <1>1
<1> QED BY <1>1, <1>2, <1>3, <1>4 DEF all

LEMMA SaysWhereKept ==
  ASSUME UNCHANGED runs, MainGoesOn, \A i \in Submits : SendGoesOn(i),
         \A i \in Submits : NoAnswer(i) => NoAnswer(i)',
         \A i \in Submits : finishing[i].step = "answered" => finishing'[i].step = "answered",
         \A i \in Submits : i # 0, main.seq \in Nat, main'.seq \in Nat,
         NEW m \in WireMessages, SaysWhere(m)
  PROVE  SaysWhere(m)'
<1>1. m.kind = "saved" => m.run \in Submits BY MessagesTyped
<1>2. m.seq \in Nat BY MessagesTyped
<1>3. m.kind = "saved" => finishing'[m.run].step = "answered" BY <1>1 DEF SaysWhere
<1>4. Refuses(m) => m.run \in Submits /\ NoAnswer(m.run)' BY DEF SaysWhere
<1>5. ASSUME OfRun(m)
      PROVE  /\ m.run \in Submits /\ m.seq > runs.accepted[m.run]
             /\ m.talk = sends'[m.run].talk /\ sends'[m.run].step \in {"starting", "done"}
             /\ main'.run = m.run => m.seq <= main'.seq /\ m.kind # "completed"
  <2>1. /\ m.run \in Submits /\ m.seq > runs.accepted[m.run]
        /\ m.talk = sends[m.run].talk /\ sends[m.run].step \in {"starting", "done"}
        /\ main.run = m.run => m.seq <= main.seq /\ m.kind # "completed"
    BY <1>5 DEF SaysWhere
  <2>2. SendGoesOn(m.run) BY <2>1
  <2>3. m.talk = sends'[m.run].talk /\ sends'[m.run].step \in {"starting", "done"}
    BY <2>1, <2>2 DEF SendGoesOn
  <2>4. ASSUME main'.run = m.run PROVE main'.run = main.run /\ main'.seq >= main.seq
    BY <2>1, <2>4 DEF MainGoesOn
  <2> QED BY <1>2, <2>1, <2>3, <2>4
<1> QED BY <1>3, <1>4, <1>5 DEF SaysWhere, OfRun, Refuses

LEMMA ToldGrows ==
  ASSUME ScreenInv, RunsTold, UNCHANGED runs, main' \in MainStates,
         \A i \in Submits : SendGoesOn(i), MainGoesOn,
         \A i \in Submits : NoAnswer(i) => NoAnswer(i)',
         \A i \in Submits : finishing[i].step = "answered" => finishing'[i].step = "answered",
         NEW more \in Seq(WireMessages), wire' = wire \o more,
         \A l \in 1 .. Len(more) : SaysWhere(more[l])' /\ NewsOf(more[l]),
         \A k, l \in 1 .. Len(more) : k < l => Precedes(more[k], more[l])
  PROVE  RunsTold'
<1>0. wire \in Seq(WireMessages) BY MainTyped
<1>1. /\ Len(wire') = Len(wire) + Len(more) /\ Len(wire) \in Nat /\ Len(more) \in Nat
      /\ \A k \in 1 .. Len(wire') : \/ k \in 1 .. Len(wire) /\ wire'[k] = wire[k]
                                    \/ /\ k - Len(wire) \in 1 .. Len(more)
                                       /\ wire'[k] = more[k - Len(wire)]
  BY <1>0, JoinedWire
<1>2. /\ \A i \in Submits : i # 0 /\ i \in Nat
      /\ main.seq \in Nat /\ main'.seq \in Nat /\ main'.run \in Submits \cup {0}
  BY MainTyped DEF MainStates
<1>3. WireTells'
  <2> SUFFICES ASSUME NEW k \in 1 .. Len(wire') PROVE SaysWhere(wire[k])' BY DEF WireTells
  <2>1. PICK n : n = wire'[k] OBVIOUS
  <2>2. SaysWhere(n)'
    <3>1. CASE k \in 1 .. Len(wire) /\ n = wire[k]
      <4>1. n \in WireMessages /\ SaysWhere(n) BY <1>0, <3>1 DEF RunsTold, WireTells
      <4> QED BY <1>2, <4>1, SaysWhereKept
    <3>2. CASE k - Len(wire) \in 1 .. Len(more) /\ n = more[k - Len(wire)]
      <4>1. PICK l \in 1 .. Len(more) : n = more[l] BY <3>2
      <4> QED BY <4>1 DEF SaysWhere, OfRun, Refuses, NoAnswer
    <3> QED BY <1>1, <2>1, <3>1, <3>2
  <2> QED BY <2>1, <2>2 DEF SaysWhere, OfRun, Refuses, NoAnswer
<1>4. EventsInOrder'
  <2> SUFFICES ASSUME NEW k \in 1 .. Len(wire'), NEW l \in 1 .. Len(wire'), k < l
               PROVE  Precedes(wire'[k], wire'[l])
    BY DEF EventsInOrder, Precedes, OfRun
  <2>1. CASE l \in 1 .. Len(wire) /\ wire'[l] = wire[l]
    <3>1. k \in 1 .. Len(wire) /\ wire'[k] = wire[k] BY <1>1, <2>1
    <3> QED BY <2>1, <3>1 DEF RunsTold, EventsInOrder
  <2>2. CASE l - Len(wire) \in 1 .. Len(more) /\ wire'[l] = more[l - Len(wire)]
    <3>1. CASE k - Len(wire) \in 1 .. Len(more) /\ wire'[k] = more[k - Len(wire)]
      <4>1. k - Len(wire) < l - Len(wire) BY <1>1
      <4> QED BY <2>2, <3>1, <4>1
    <3>2. CASE k \in 1 .. Len(wire) /\ wire'[k] = wire[k]
      <4>1. PICK m, n : m = wire[k] /\ n = more[l - Len(wire)] OBVIOUS
      <4>2. SaysWhere(m) /\ NewsOf(n) /\ m \in WireMessages /\ n \in WireMessages
        BY <1>0, <2>2, <3>2, <4>1 DEF RunsTold, WireTells
      <4>3. m.seq \in Nat /\ n.seq \in Nat BY <4>2, MessagesTyped
      <4>4. Precedes(m, n)
        BY <1>2, <4>2, <4>3 DEF Precedes, SaysWhere, NewsOf
      <4> QED BY <2>2, <3>2, <4>1, <4>4
    <3> QED BY <1>1, <3>1, <3>2
  <2> QED BY <1>1, <2>1, <2>2
<1>5. RunsBegin'
  <2>1. ASSUME main'.run # 0
        PROVE  runs.accepted[main'.run] <= main'.seq /\ main'.talk = sends'[main'.run].talk
    <3>1. main'.run \in Submits /\ SendGoesOn(main'.run) BY <1>2, <2>1
    <3>2. runs.accepted[main'.run] \in Nat BY <3>1, WindowTyped
    <3>3. CASE main'.run = main.run /\ main'.seq >= main.seq /\ main'.talk = main.talk
      <4>1. runs.accepted[main.run] <= main.seq /\ main.talk = sends[main.run].talk
        BY <2>1, <3>3 DEF RunsTold, RunsBegin
      <4> QED BY <1>2, <3>1, <3>2, <3>3, <4>1 DEF SendGoesOn
    <3>4. CASE sends[main'.run].step = "asked" /\ main'.talk = sends[main'.run].talk
      <4>1. runs.accepted[main'.run] = 0 BY <3>1, <3>4 DEF RunsTold, RunsBegin
      <4> QED BY <1>2, <3>1, <3>4, <4>1 DEF SendGoesOn
    <3> QED BY <2>1, <3>3, <3>4 DEF MainGoesOn
  <2>2. \A i \in Submits : sends'[i].step \in {"none", "asked"} => sends[i].step \in {"none", "asked"}
    BY DEF SendGoesOn
  <2>3. \A i \in Submits : sends'[i].step = "none" <=> sends[i].step = "none"
    BY DEF SendGoesOn
  <2>4. \A i \in Submits : sends'[i].step \in {"none", "asked"} =>
          runs.accepted[i] = 0 /\ i \notin runs.retired /\ runs.active # i
    BY <2>2 DEF RunsTold, RunsBegin
  <2>5. \A i, j \in Submits : i < j /\ sends'[j].step # "none" => sends'[i].step # "none"
    BY <2>3 DEF RunsTold, RunsBegin
  <2> QED BY <2>1, <2>4, <2>5 DEF RunsBegin
<1> QED BY <1>3, <1>4, <1>5 DEF RunsTold

(* Whoever speaks was submitted: at most one does, without overlap. *)
LEMMA SpeakersSubmitted ==
  ASSUME ScreenInv, RunsTold, NEW i \in Submits, Speaks(i)
  PROVE  sends[i].step # "none"
<1>1. CASE main.run = i
  <2>1. main.run # 0 BY <1>1, MainTyped
  <2> QED BY <1>1, <2>1 DEF ScreenInv, MainInOrder
<1>2. CASE sends[i].step \in {"asked", "starting"} BY <1>2
<1>3. ASSUME NEW k \in 1 .. Len(wire), TellsOf(wire[k], i) PROVE sends[i].step # "none"
  <2>1. SaysWhere(wire[k]) BY DEF RunsTold, WireTells
  <2> QED BY <1>3, <2>1 DEF TellsOf, SaysWhere, NoAnswer
<1> QED BY <1>1, <1>2, <1>3 DEF Speaks

LEMMA OneSpeaks ==
  ASSUME ScreenInv, RunsTold, LatestSpeaks, NEW i \in Submits, Speaks(i), NEW j \in Submits, Speaks(j)
  PROVE  i = j
<1>1. sends[i].step # "none" /\ sends[j].step # "none" BY SpeakersSubmitted
<1>2. i <= j /\ j <= i BY <1>1 DEF LatestSpeaks, IsLast
<1> QED BY <1>2, MainTyped

LEMMA MainSpeaks ==
  ASSUME ScreenInv, RunsTold, UNCHANGED runs, LatestSpeaks,
         main' \in MainStates, MainGoesOn, \A i \in Submits : SendGoesOn(i),
         NEW more \in Seq(WireMessages), wire' = wire \o more,
         \A l \in 1 .. Len(more) : NewsOf(more[l])
  PROVE  LatestSpeaks'
<1>0. wire \in Seq(WireMessages) BY MainTyped
<1>1. \A k \in 1 .. Len(wire') : \/ k \in 1 .. Len(wire) /\ wire'[k] = wire[k]
                                 \/ /\ k - Len(wire) \in 1 .. Len(more)
                                    /\ wire'[k] = more[k - Len(wire)]
  BY <1>0, JoinedWire
<1>2. \A i \in Submits : i # 0 BY MainTyped
<1> SUFFICES ASSUME NEW i \in Submits, Speaks(i)' PROVE IsLast(i)' /\ runs'.active \in {0, i}
  BY DEF LatestSpeaks
<1>3. Speaks(i)
  <2>1. ASSUME main'.run = i PROVE Speaks(i) BY <1>2, <2>1 DEF MainGoesOn, Speaks
  <2>2. ASSUME sends'[i].step \in {"asked", "starting"} PROVE Speaks(i)
    BY <2>2 DEF SendGoesOn, Speaks
  <2>3. ASSUME NEW k \in 1 .. Len(wire'), TellsOf(wire'[k], i) PROVE Speaks(i)
    <3>1. CASE k \in 1 .. Len(wire) /\ wire'[k] = wire[k] BY <2>3, <3>1 DEF Speaks
    <3>2. CASE k - Len(wire) \in 1 .. Len(more) /\ wire'[k] = more[k - Len(wire)]
      <4>1. NewsOf(wire'[k]) BY <3>2
      <4> QED BY <2>3, <4>1 DEF NewsOf, TellsOf, Speaks
    <3> QED BY <1>1, <3>1, <3>2
  <2> QED BY <2>1, <2>2, <2>3 DEF Speaks, TellsOf, OfRun, Refuses
<1>4. IsLast(i) /\ runs.active \in {0, i} BY <1>3 DEF LatestSpeaks
<1>5. \A j \in Submits : sends'[j].step # "none" => sends[j].step # "none" BY DEF SendGoesOn
<1> QED BY <1>4, <1>5 DEF IsLast

LEMMA MainRetired ==
  ASSUME ScreenInv, RunsTold, UNCHANGED runs, RetiredAreOver, MainGoesOn,
         NEW more \in Seq(WireMessages), wire' = wire \o more,
         \A l \in 1 .. Len(more) : NewsOf(more[l])
  PROVE  RetiredAreOver'
<1>0. wire \in Seq(WireMessages) BY MainTyped
<1>1. \A k \in 1 .. Len(wire') : \/ k \in 1 .. Len(wire) /\ wire'[k] = wire[k]
                                 \/ /\ k - Len(wire) \in 1 .. Len(more)
                                    /\ wire'[k] = more[k - Len(wire)]
  BY <1>0, JoinedWire
<1>2. ASSUME NEW i \in runs.retired
      PROVE  main'.run # i /\ \A k \in 1 .. Len(wire') : Answering(wire'[k]) => wire'[k].run # i
  <2>1. i \in Submits /\ i # 0 BY WindowTyped, MainTyped
  <2>2. main.run # i /\ \A k \in 1 .. Len(wire) : Answering(wire[k]) => wire[k].run # i
    BY DEF RetiredAreOver
  <2>3. sends[i].step # "asked" BY <2>1 DEF RunsTold, RunsBegin
  <2>4. main'.run # i BY <2>1, <2>2, <2>3 DEF MainGoesOn
  <2>5. ASSUME NEW k \in 1 .. Len(wire'), Answering(wire'[k]) PROVE wire'[k].run # i
    <3>1. CASE k \in 1 .. Len(wire) /\ wire'[k] = wire[k] BY <2>2, <2>5, <3>1
    <3>2. CASE k - Len(wire) \in 1 .. Len(more) /\ wire'[k] = more[k - Len(wire)]
      <4>1. NewsOf(wire'[k]) BY <3>2
      <4> QED BY <2>2, <2>5, <4>1 DEF NewsOf
    <3> QED BY <1>1, <3>1, <3>2
  <2> QED BY <2>4, <2>5
<1> QED BY <1>2 DEF RetiredAreOver, Answering

(* The answers that main announces are those it holds; it announces those it stores. *)
StillComes(more) ==
    \A a \in stored' : a \notin stored \/ InMain(a) =>
        InMain(a)' \/ \E l \in 1 .. Len(more) : Announces(more[l], a)
WholePages(more) ==
    \A l \in 1 .. Len(more) : more[l].kind = "page" =>
        \A a \in Messages(more[l].talk)' : Lists(more[l].what, a)
PagesStay(more) ==
    \A p \in pages : p \in pages' \/ \E l \in 1 .. Len(more) :
                                        more[l].kind = "page" /\ more[l].talk = p.talk

LEMMA ComesGrows ==
  ASSUME ScreenInv, NEW more \in Seq(WireMessages), wire' = wire \o more, StillComes(more),
         NEW a \in stored', NEW k \in 0 .. Len(wire), a \notin stored \/ ToCome(a, k)
  PROVE  ToCome(a, k)'
<1>0. wire \in Seq(WireMessages) BY MainTyped
<1>1. /\ Len(wire') = Len(wire) + Len(more) /\ Len(wire) \in Nat /\ Len(more) \in Nat
      /\ \A j \in 1 .. Len(wire) : j \in 1 .. Len(wire') /\ wire'[j] = wire[j]
      /\ \A l \in 1 .. Len(more) : /\ Len(wire) + l \in 1 .. Len(wire')
                                   /\ wire'[Len(wire) + l] = more[l]
  BY <1>0, JoinedWire
<1>2. CASE a \notin stored \/ InMain(a)
  <2>1. CASE InMain(a)' BY <2>1 DEF ToCome, InMain
  <2>2. ASSUME NEW l \in 1 .. Len(more), Announces(more[l], a) PROVE ToCome(a, k)'
    <3>1. Len(wire) + l \in k + 1 .. Len(wire') /\ Announces(wire'[Len(wire) + l], a)
      BY <1>1, <2>2
    <3>2. \E j \in k + 1 .. Len(wire') : Announces(wire'[j], a) BY <3>1
    <3> QED BY <3>2 DEF ToCome, Announces, Answering
  <2> QED BY <1>2, <2>1, <2>2 DEF StillComes
<1>3. ASSUME NEW l \in k + 1 .. Len(wire), Announces(wire[l], a) PROVE ToCome(a, k)'
  <2>1. l \in 1 .. Len(wire) BY <1>1
  <2>2. l \in k + 1 .. Len(wire') /\ wire'[l] = wire[l] BY <1>1, <2>1
  <2>3. \E j \in k + 1 .. Len(wire') : Announces(wire'[j], a) BY <1>3, <2>2
  <2> QED BY <2>3 DEF ToCome, Announces, Answering
<1> QED BY <1>2, <1>3 DEF ToCome

LEMMA TalksKept ==
  ASSUME ScreenInv, ScreenInv', \A i \in Submits : SendGoesOn(i), NEW talk
  PROVE  /\ Messages(talk)' \subseteq stored'
         /\ \A a \in Messages(talk)' : a \in stored => a \in Messages(talk)
<1>1. stored' \subseteq Answers BY DEF ScreenInv, RunTypes
<1>2. Messages(talk)' \subseteq stored' BY DEF Messages
<1>3. \A a \in Messages(talk)' : a[1] \in Submits BY <1>1, <1>2 DEF Answers
<1> QED BY <1>2, <1>3 DEF Messages, SendGoesOn

LEMMA PagesGrow ==
  ASSUME ScreenInv, ScreenInv', PagesAreWhole, \A i \in Submits : SendGoesOn(i),
         NEW more \in Seq(WireMessages), wire' = wire \o more, StillComes(more), WholePages(more)
  PROVE  PagesAreWhole'
<1>0. wire \in Seq(WireMessages) BY MainTyped
<1>1. /\ Len(wire) \in Nat
      /\ \A k \in 1 .. Len(wire') : \/ k \in 1 .. Len(wire) /\ wire'[k] = wire[k]
                                    \/ /\ k - Len(wire) \in 1 .. Len(more)
                                       /\ wire'[k] = more[k - Len(wire)]
  BY <1>0, JoinedWire
<1> SUFFICES ASSUME NEW k \in 1 .. Len(wire'), wire'[k].kind = "page",
                    NEW talk, talk = wire'[k].talk, NEW a \in Messages(talk)'
             PROVE  Lists(wire'[k].what, a) \/ ToCome(a, k)'
  BY DEF PagesAreWhole, ToCome, Lists, Messages
<1>2. a \in stored' /\ (a \in stored => a \in Messages(talk)) BY TalksKept
<1>3. CASE k \in 1 .. Len(wire) /\ wire'[k] = wire[k]
  <2>1. k \in 0 .. Len(wire) BY <1>1, <1>3
  <2>2. CASE a \in stored
    <3>1. Lists(wire[k].what, a) \/ ToCome(a, k) BY <1>2, <1>3, <2>2 DEF PagesAreWhole
    <3> QED BY <1>2, <1>3, <2>1, <3>1, ComesGrows
  <2>3. CASE a \notin stored BY <1>2, <2>1, <2>3, ComesGrows
  <2> QED BY <2>2, <2>3
<1>4. CASE k - Len(wire) \in 1 .. Len(more) /\ wire'[k] = more[k - Len(wire)]
  BY <1>4 DEF WholePages
<1> QED BY <1>1, <1>3, <1>4

LEMMA AllGrow ==
  ASSUME ScreenInv, ScreenInv', AllCome, UNCHANGED screen, \A i \in Submits : SendGoesOn(i),
         NEW more \in Seq(WireMessages), wire' = wire \o more, StillComes(more), PagesStay(more)
  PROVE  AllCome'
<1>0. wire \in Seq(WireMessages) BY MainTyped
<1>1. /\ Len(wire) \in Nat
      /\ \A j \in 1 .. Len(wire) : j \in 1 .. Len(wire') /\ wire'[j] = wire[j]
      /\ \A l \in 1 .. Len(more) : /\ Len(wire) + l \in 1 .. Len(wire')
                                   /\ wire'[Len(wire) + l] = more[l]
  BY <1>0, JoinedWire
<1> DEFINE talk == screen.talk
<1> SUFFICES ASSUME NEW a \in Messages(talk)'
             PROVE  (Lists(screen.messages, a) \/ ToCome(a, 0) \/ PageComes)'
  BY DEF AllCome
<1>2. a \in stored' /\ (a \in stored => a \in Messages(talk)) BY TalksKept
<1>3. 0 \in 0 .. Len(wire) BY <1>1
<1>4. CASE a \notin stored BY <1>2, <1>3, <1>4, ComesGrows
<1>5. CASE ToCome(a, 0) BY <1>2, <1>3, <1>5, ComesGrows
<1>6. CASE Lists(screen.messages, a) BY <1>6 DEF Lists
<1>7. ASSUME PageComes PROVE PageComes'
  <2>1. ASSUME NEW p \in pages, p.talk = screen.talk PROVE PageComes'
    <3>1. CASE p \in pages' BY <2>1, <3>1 DEF PageComes
    <3>2. ASSUME NEW l \in 1 .. Len(more), more[l].kind = "page", more[l].talk = p.talk
          PROVE  PageComes'
      BY <1>1, <2>1, <3>2 DEF PageComes
    <3> QED BY <3>1, <3>2 DEF PagesStay
  <2>2. ASSUME NEW k \in 1 .. Len(wire), wire[k].kind = "page", wire[k].talk = screen.talk
        PROVE  PageComes'
    BY <1>1, <2>2 DEF PageComes
  <2> QED BY <1>7, <2>1, <2>2 DEF PageComes
<1> QED BY <1>2, <1>4, <1>5, <1>6, <1>7 DEF AllCome

LEMMA MainShows ==
  ASSUME ScreenInv, ScreenInv', ShownInv, UNCHANGED <<screen, runs>>,
         \A i \in Submits : SendGoesOn(i), MainGoesOn,
         \A i \in Submits : NoAnswer(i) => NoAnswer(i)',
         \A i \in Submits : finishing[i].step = "answered" => finishing'[i].step = "answered",
         NEW more \in Seq(WireMessages), wire' = wire \o more,
         \A l \in 1 .. Len(more) : SaysWhere(more[l])' /\ NewsOf(more[l]),
         \A k, l \in 1 .. Len(more) : k < l => Precedes(more[k], more[l]),
         StillComes(more), WholePages(more), PagesStay(more)
  PROVE  ShownInv'
<1>1. main' \in MainStates BY DEF ScreenInv, RunTypes
<1>2. RunsTold' BY <1>1, ToldGrows DEF ShownInv
<1>3. PagesAreWhole' BY PagesGrow DEF ShownInv
<1>4. ASSUME ~runs'.overlap PROVE (LatestSpeaks /\ RetiredAreOver /\ AllCome)'
  <2>1. LatestSpeaks /\ RetiredAreOver /\ AllCome BY <1>4 DEF ShownInv
  <2> QED BY <1>1, <2>1, MainSpeaks, MainRetired, AllGrow DEF ShownInv
<1> QED BY <1>2, <1>3, <1>4 DEF ShownInv

LEMMA SendStepped ==
  ASSUME ScreenInv, NEW i \in Submits, NEW s, sends' = [sends EXCEPT ![i].step = s],
         \/ sends[i].step = "asked" /\ s \in {"starting", "done"}
         \/ sends[i].step = "starting" /\ s = "done"
  PROVE  /\ sends'[i].step = s /\ sends'[i].talk = sends[i].talk
         /\ \A j \in Submits : SendGoesOn(j) /\ (j # i => sends'[j] = sends[j])
<1>1. sends \in [Submits -> SendStates] /\ sends[i] \in SendStates BY MainTyped
<1>2. sends'[i].step = s /\ sends'[i].talk = sends[i].talk BY <1>1 DEF SendStates
<1>3. \A j \in Submits : j # i => sends'[j] = sends[j] BY <1>1
<1>4. SendGoesOn(i) BY <1>2 DEF SendGoesOn
<1>5. \A j \in Submits : j # i => SendGoesOn(j) BY <1>3 DEF SendGoesOn
<1> QED BY <1>2, <1>3, <1>4, <1>5

LEMMA SendsStay == UNCHANGED sends => \A j \in Submits : SendGoesOn(j)
BY DEF SendGoesOn

LEMMA ShowsNone ==
  ASSUME ScreenInv, ScreenInv', ShownInv, UNCHANGED <<screen, runs, wire, pages, finishing>>,
         \A i \in Submits : SendGoesOn(i), MainGoesOn,
         \A i \in Submits : NoAnswer(i) => NoAnswer(i)',
         \A a \in stored' : a \notin stored \/ InMain(a) => InMain(a)'
  PROVE  ShownInv'
<1>1. PICK none : none = <<>> OBVIOUS
<1>2. none \in Seq(WireMessages) /\ Len(none) = 0 BY <1>1
<1>3. wire' = wire \o none BY <1>1, MainTyped
<1>4. \A l \in 1 .. Len(none) : SaysWhere(none[l])' /\ NewsOf(none[l]) BY <1>2
<1>5. \A k, l \in 1 .. Len(none) : k < l => Precedes(none[k], none[l]) BY <1>2
<1>6. StillComes(none) BY DEF StillComes
<1>7. WholePages(none) BY <1>2 DEF WholePages
<1>8. PagesStay(none) BY DEF PagesStay
<1> QED BY <1>2, <1>3, <1>4, <1>5, <1>6, <1>7, <1>8, MainShows

LEMMA ShowsOne ==
  ASSUME ScreenInv, ScreenInv', ShownInv, UNCHANGED <<screen, runs>>,
         \A i \in Submits : SendGoesOn(i), MainGoesOn,
         \A i \in Submits : NoAnswer(i) => NoAnswer(i)',
         \A i \in Submits : finishing[i].step = "answered" => finishing'[i].step = "answered",
         NEW r \in WireMessages, wire' = wire \o <<r>>, SaysWhere(r)', NewsOf(r),
         \A a \in stored' : a \notin stored \/ InMain(a) => InMain(a)' \/ Announces(r, a),
         r.kind = "page" => \A a \in Messages(r.talk)' : Lists(r.what, a),
         \A p \in pages : p \in pages' \/ (r.kind = "page" /\ r.talk = p.talk)
  PROVE  ShownInv'
<1>1. PICK one : one = <<r>> OBVIOUS
<1>2. one \in Seq(WireMessages) /\ Len(one) = 1 /\ one[1] = r BY <1>1
<1>3. wire' = wire \o one BY <1>1
<1>0. \A l \in 1 .. Len(one) : l = 1 /\ one[l] = r BY <1>2
<1>4. \A l \in 1 .. Len(one) : SaysWhere(one[l])' /\ NewsOf(one[l])
  <2> SUFFICES ASSUME NEW l \in 1 .. Len(one) PROVE SaysWhere(one[l])' /\ NewsOf(one[l])
    OBVIOUS
  <2>1. one[l] = r BY <1>0
  <2> QED BY <2>1
<1>5. \A k, l \in 1 .. Len(one) : k < l => Precedes(one[k], one[l])
  <2> SUFFICES ASSUME NEW k \in 1 .. Len(one), NEW l \in 1 .. Len(one), k < l PROVE FALSE
    OBVIOUS
  <2>1. k = 1 /\ l = 1 BY <1>0
  <2> QED BY <2>1
<1>9. 1 \in 1 .. Len(one) BY <1>2
<1>6. StillComes(one) BY <1>2, <1>9 DEF StillComes
<1>7. WholePages(one)
  <2> SUFFICES ASSUME NEW l \in 1 .. Len(one), one[l].kind = "page"
               PROVE  \A a \in Messages(one[l].talk)' : Lists(one[l].what, a)
    BY DEF WholePages
  <2>1. one[l] = r BY <1>0
  <2> QED BY <2>1
<1>8. PagesStay(one) BY <1>2, <1>9 DEF PagesStay
<1> QED BY <1>2, <1>3, <1>4, <1>5, <1>6, <1>7, <1>8, MainShows

LEMMA ShowsTwo ==
  ASSUME ScreenInv, ScreenInv', ShownInv, UNCHANGED <<screen, runs, finishing, pages>>,
         \A i \in Submits : SendGoesOn(i), MainGoesOn,
         \A i \in Submits : NoAnswer(i) => NoAnswer(i)',
         NEW r \in WireMessages, NEW q \in WireMessages, wire' = wire \o <<r, q>>,
         SaysWhere(r)', NewsOf(r), SaysWhere(q)', NewsOf(q), Precedes(r, q),
         r.kind # "page", q.kind # "page",
         \A a \in stored' : a \notin stored \/ InMain(a) => InMain(a)' \/ Announces(q, a)
  PROVE  ShownInv'
<1>1. PICK two : two = <<r, q>> OBVIOUS
<1>2. two \in Seq(WireMessages) /\ Len(two) = 2 /\ two[1] = r /\ two[2] = q BY <1>1
<1>3. wire' = wire \o two BY <1>1
<1>0. \A l \in 1 .. Len(two) : (l = 1 /\ two[l] = r) \/ (l = 2 /\ two[l] = q) BY <1>2
<1>4. \A l \in 1 .. Len(two) : SaysWhere(two[l])' /\ NewsOf(two[l])
  <2> SUFFICES ASSUME NEW l \in 1 .. Len(two) PROVE SaysWhere(two[l])' /\ NewsOf(two[l])
    OBVIOUS
  <2>1. CASE two[l] = r BY <2>1
  <2>2. CASE two[l] = q BY <2>2
  <2> QED BY <1>0, <2>1, <2>2
<1>5. \A k, l \in 1 .. Len(two) : k < l => Precedes(two[k], two[l])
  <2> SUFFICES ASSUME NEW k \in 1 .. Len(two), NEW l \in 1 .. Len(two), k < l
               PROVE  Precedes(two[k], two[l])
    OBVIOUS
  <2>1. k = 1 /\ l = 2 BY <1>0
  <2> QED BY <1>2, <2>1
<1>9. 2 \in 1 .. Len(two) BY <1>2
<1>6. StillComes(two) BY <1>2, <1>9 DEF StillComes
<1>7. WholePages(two) BY <1>0 DEF WholePages
<1>8. PagesStay(two) BY DEF PagesStay
<1>10. \A i \in Submits : finishing[i].step = "answered" => finishing'[i].step = "answered"
  OBVIOUS
<1> QED BY <1>2, <1>3, <1>4, <1>5, <1>6, <1>7, <1>8, <1>10, MainShows

LEMMA ReserveShows ==
  ASSUME ScreenInv, ScreenInv', ShownInv, NEW i \in Submits, Reserve(i)
  PROVE  ShownInv'
<1> DEFINE m == [Idle EXCEPT !.run = i, !.talk = sends[i].talk, !.phase = "planning"]
           msg == [kind |-> "status", what |-> "busy", run |-> i, talk |-> sends[i].talk, seq |-> 1]
<1>1. /\ sends[i].step = "asked" /\ main.run = 0
      /\ sends' = [sends EXCEPT ![i].step = "starting"]
      /\ UNCHANGED <<cancels, stored, screen, buffer, turn, runs, finishing, pages>>
  BY DEF Reserve
<1>2. main'.run = i /\ main'.talk = sends[i].talk /\ main'.seq = 1 /\ wire' = wire \o <<msg>>
  <2>1. PICK p : p = m OBVIOUS
  <2>2. Push(p, <<<<"status", "busy">>>>) BY <2>1 DEF Reserve
  <2>3. /\ p = [run |-> i, talk |-> sends[i].talk, phase |-> "planning", seq |-> 0,
                deltas |-> 0, outcome |-> "none", stored |-> FALSE]
        /\ p.run = i /\ p.talk = sends[i].talk /\ p.seq = 0
    BY <2>1 DEF Idle
  <2>4. /\ main' = [p EXCEPT !.seq = p.seq + 1]
        /\ wire' = wire \o <<[kind |-> "status", what |-> "busy", run |-> p.run,
                              talk |-> p.talk, seq |-> p.seq + 1]>>
    BY <2>2, PushOne
  <2>5. main' = [p EXCEPT !.seq = 1] /\ wire' = wire \o <<msg>> BY <2>3, <2>4
  <2> HIDE DEF m, msg
  <2> QED BY <2>3, <2>5
<1>3. /\ sends'[i].step = "starting" /\ sends'[i].talk = sends[i].talk
      /\ \A j \in Submits : SendGoesOn(j) /\ (j # i => sends'[j] = sends[j])
  BY <1>1, SendStepped
<1>4. \A j \in Submits : NoAnswer(j) => NoAnswer(j)' BY <1>1, <1>2, <1>3 DEF NoAnswer
<1>5. MainGoesOn BY <1>1, <1>2 DEF MainGoesOn
<1>6. msg \in WireMessages
  <2>1. sends[i].talk \in Talks BY <1>1, MainTyped
  <2> QED BY <2>1, StatusTyped DEF Outcomes
<1>7. runs.accepted[i] = 0 BY <1>1 DEF ShownInv, RunsTold, RunsBegin
<1>8. /\ msg.kind = "status" /\ msg.run = i /\ msg.seq = 1 /\ msg.talk = sends[i].talk
  OBVIOUS
<1> HIDE DEF msg
<1>9. PICK r : r = msg OBVIOUS
<1>10. /\ r \in WireMessages /\ wire' = wire \o <<r>> /\ r.kind = "status" /\ r.run = i
       /\ r.seq = 1 /\ r.talk = sends[i].talk
  BY <1>2, <1>6, <1>8, <1>9
<1>11. SaysWhere(r)' BY <1>1, <1>2, <1>3, <1>7, <1>10 DEF SaysWhere, OfRun, Refuses
<1>12. NewsOf(r) BY <1>1, <1>10 DEF NewsOf, OfRun, Refuses, Answering
<1>13. \A a \in stored' : a \in stored /\ ~InMain(a)
  BY <1>1, MainTyped DEF InMain, Answers
<1>14. \A j \in Submits : finishing[j].step = "answered" => finishing'[j].step = "answered"
  BY <1>1
<1>15. \A p \in pages : p \in pages' BY <1>1
<1>16. r.kind # "page" BY <1>10
<1> QED BY <1>1, <1>3, <1>4, <1>5, <1>10, <1>11, <1>12, <1>13, <1>14, <1>15, <1>16, ShowsOne

LEMMA RefuseShows ==
  ASSUME ScreenInv, ScreenInv', ShownInv, NEW i \in Submits, Refuse(i)
  PROVE  ShownInv'
<1> DEFINE msg == [kind |-> "refused", what |-> "send", run |-> i, talk |-> "none", seq |-> 0]
<1>1. /\ sends[i].step = "asked"
      /\ sends' = [sends EXCEPT ![i].step = "done"] /\ wire' = wire \o <<msg>>
      /\ UNCHANGED <<main, cancels, stored, screen, buffer, turn, runs, finishing, pages>>
  BY DEF Refuse, Reply
<1>3. /\ sends'[i].step = "done"
      /\ \A j \in Submits : SendGoesOn(j) /\ (j # i => sends'[j] = sends[j])
  BY <1>1, SendStepped
<1>4. \A j \in Submits : NoAnswer(j) => NoAnswer(j)' BY <1>1, <1>3 DEF NoAnswer
<1>5. MainGoesOn
  <2>1. main.seq >= main.seq BY MainTyped
  <2> QED BY <1>1, <2>1 DEF MainGoesOn
<1>6. msg \in WireMessages
  <2>1. i \in Nat BY DEF Submits
  <2> QED BY <2>1, RefusedTyped
<1>7. NoAnswer(i)'
  <2>1. main.run # i
    <3>1. main.run # 0 => sends[main.run].step \in {"starting", "done"}
      BY DEF ScreenInv, MainInOrder
    <3> QED BY <1>1, <3>1, MainTyped
  <2>2. <<i, "main">> \notin stored BY <1>1 DEF ScreenInv, MainWrites
  <2> QED BY <1>1, <1>3, <2>1, <2>2 DEF NoAnswer
<1>8. msg.kind = "refused" /\ msg.what = "send" /\ msg.run = i OBVIOUS
<1> HIDE DEF msg
<1>9. PICK r : r = msg OBVIOUS
<1>10. /\ r \in WireMessages /\ wire' = wire \o <<r>> /\ r.kind = "refused" /\ r.run = i
  BY <1>1, <1>6, <1>8, <1>9
<1>11. SaysWhere(r)' BY <1>7, <1>10 DEF SaysWhere, OfRun, Refuses
<1>12. NewsOf(r) BY <1>1, <1>10 DEF NewsOf, OfRun, Refuses, Answering
<1>13. \A a \in stored' : a \in stored /\ (InMain(a) => InMain(a)') BY <1>1 DEF InMain
<1>14. \A j \in Submits : finishing[j].step = "answered" => finishing'[j].step = "answered"
  BY <1>1
<1>15. \A p \in pages : p \in pages' BY <1>1
<1>16. r.kind # "page" BY <1>10
<1> QED BY <1>1, <1>3, <1>4, <1>5, <1>10, <1>11, <1>12, <1>13, <1>14, <1>15, <1>16, ShowsOne

(* Main pushes a message of its active run that ends nothing. *)
LEMMA PushShows ==
  ASSUME ScreenInv, ScreenInv', ShownInv, main.phase # "none",
         UNCHANGED <<stored, screen, runs, finishing, pages>>, \A j \in Submits : SendGoesOn(j),
         NEW m \in MainStates, m.run = main.run, m.talk = main.talk, m.seq = main.seq,
         NEW kind \in {"status", "delta"}, NEW what, Push(m, <<<<kind, what>>>>)
  PROVE  ShownInv'
<1> DEFINE msg == [kind |-> kind, what |-> what, run |-> m.run, talk |-> m.talk, seq |-> m.seq + 1]
<1>1. main' = [m EXCEPT !.seq = m.seq + 1] /\ wire' = wire \o <<msg>> BY PushOne
<1>2. main.seq \in Nat /\ main.run \in Submits BY MainTyped
<1>3. main'.run = main.run /\ main'.seq = main.seq + 1 /\ main'.talk = main.talk
  BY <1>1 DEF MainStates
<1>4. MainGoesOn BY <1>2, <1>3 DEF MainGoesOn
<1>5. msg \in WireMessages
  <2>1. wire' \in Seq(WireMessages) BY DEF ScreenInv, RunTypes
  <2>2. Len(wire) + 1 \in 1 .. Len(wire') /\ wire'[Len(wire) + 1] = msg
    <3>1. wire \in Seq(WireMessages) BY MainTyped
    <3> HIDE DEF msg
    <3> QED BY <1>1, <3>1
  <2> HIDE DEF msg
  <2> QED BY <2>1, <2>2
<1>6. msg.kind = kind /\ msg.run = main.run /\ msg.talk = main.talk /\ msg.seq = main.seq + 1
  OBVIOUS
<1> HIDE DEF msg
<1>7. PICK r : r = msg OBVIOUS
<1>8. /\ r \in WireMessages /\ wire' = wire \o <<r>> /\ r.kind \in {"status", "delta"}
      /\ r.run = main.run /\ r.talk = main.talk /\ r.seq = main.seq + 1
  BY <1>1, <1>5, <1>6, <1>7
<1>9. SendGoesOn(main.run) BY <1>2
<1>10. SaysWhere(r)'
  <2>1. main.run # 0 BY <1>2, MainTyped
  <2>2. /\ runs.accepted[main.run] <= main.seq /\ main.talk = sends[main.run].talk
        /\ sends[main.run].step \in {"starting", "done"}
    BY <2>1 DEF ShownInv, RunsTold, RunsBegin, ScreenInv, MainInOrder
  <2>3. sends'[main.run].step \in {"starting", "done"} /\ main.talk = sends'[main.run].talk
    BY <1>9, <2>2 DEF SendGoesOn
  <2>4. runs.accepted[main.run] \in Nat BY <1>2, WindowTyped
  <2>5. r.seq > runs.accepted[r.run] BY <1>2, <1>8, <2>2, <2>4
  <2>6. r.seq <= main'.seq BY <1>2, <1>3, <1>8
  <2> QED BY <1>2, <1>8, <2>3, <2>5, <2>6 DEF SaysWhere, OfRun, Refuses
<1>11. NewsOf(r) BY <1>2, <1>8 DEF NewsOf, OfRun, Refuses, Answering
<1>12. \A j \in Submits : NoAnswer(j) => NoAnswer(j)' BY <1>3 DEF NoAnswer, SendGoesOn
<1>13. \A a \in stored' : a \in stored /\ (InMain(a) => InMain(a)') BY <1>3 DEF InMain
<1>14. \A j \in Submits : finishing[j].step = "answered" => finishing'[j].step = "answered"
  OBVIOUS
<1>15. r.kind # "page" BY <1>8
<1> QED BY <1>4, <1>8, <1>10, <1>11, <1>12, <1>13, <1>14, <1>15, ShowsOne

LEMMA StartedShows ==
  ASSUME ScreenInv, ScreenInv', ShownInv, NEW i \in Submits, Started(i)
  PROVE  ShownInv'
<1>1. /\ sends[i].step = "starting" /\ main.run = i
      /\ sends' = [sends EXCEPT ![i].step = "done"]
      /\ UNCHANGED <<cancels, stored, screen, buffer, turn, runs, finishing, pages>>
  BY DEF Started
<1>2. main.phase # "none" /\ main \in MainStates BY <1>1, MainTyped
<1>3. \A j \in Submits : SendGoesOn(j) BY <1>1, SendStepped
<1>4. CASE main.phase = "planning"
  <2>1. PICK m : m = [main EXCEPT !.phase = "running"] OBVIOUS
  <2>2. m \in MainStates /\ m.run = main.run /\ m.talk = main.talk /\ m.seq = main.seq
    BY <1>2, <2>1 DEF MainStates
  <2>3. Push(m, <<<<"status", "busy">>>>) BY <1>4, <2>1 DEF Started
  <2> QED BY <1>1, <1>2, <1>3, <2>2, <2>3, PushShows
<1>5. CASE main.phase # "planning"
  <2>1. UNCHANGED <<main, wire>> BY <1>5 DEF Started
  <2>2. MainGoesOn
    <3>1. main.seq >= main.seq BY MainTyped
    <3> QED BY <2>1, <3>1 DEF MainGoesOn
  <2>3. \A j \in Submits : NoAnswer(j) => NoAnswer(j)' BY <1>1, <1>3, <2>1 DEF NoAnswer, SendGoesOn
  <2>4. \A a \in stored' : a \in stored /\ (InMain(a) => InMain(a)') BY <1>1, <2>1 DEF InMain
  <2> QED BY <1>1, <1>3, <2>1, <2>2, <2>3, <2>4, ShowsNone
<1> QED BY <1>4, <1>5

LEMMA StartFailsShows ==
  ASSUME ScreenInv, ScreenInv', ShownInv, NEW i \in Submits, StartFails(i)
  PROVE  ShownInv'
<1> DEFINE failed == [kind |-> "status", what |-> "failed", run |-> main.run, talk |-> main.talk,
                      seq |-> main.seq + 1]
           refused == [kind |-> "refused", what |-> "send", run |-> i, talk |-> "none", seq |-> 0]
<1>1. /\ sends[i].step = "starting" /\ main.run = i /\ main' = Idle
      /\ sends' = [sends EXCEPT ![i].step = "done"]
      /\ UNCHANGED <<cancels, stored, screen, buffer, turn, runs, finishing, pages>>
  BY DEF StartFails
<1>2. /\ main.phase # "none" /\ main \in MainStates /\ main.seq \in Nat /\ main.seq + 1 \in Nat
      /\ main.run # 0
  BY <1>1, MainTyped
<1>3. /\ sends'[i].step = "done" /\ sends'[i].talk = sends[i].talk
      /\ \A j \in Submits : SendGoesOn(j) /\ (j # i => sends'[j] = sends[j])
  BY <1>1, SendStepped
<1>4. main'.run = 0 BY <1>1 DEF Idle
<1>5. failed \in WireMessages /\ refused \in WireMessages
  <2>1. failed \in WireMessages BY <1>2, MainTyped, StatusTyped DEF Outcomes
  <2>2. i \in Nat BY DEF Submits
  <2> QED BY <2>1, <2>2, RefusedTyped
<1>6. /\ failed.kind = "status" /\ failed.run = i /\ failed.talk = main.talk
      /\ failed.seq = main.seq + 1
      /\ refused.kind = "refused" /\ refused.run = i
  BY <1>1
<1>7. wire' = wire \o <<failed>> \o <<refused>>
  <2>1. Pushed(main, <<<<"status", "failed">>>>) = <<failed>> BY PushedOne
  <2> HIDE DEF failed
  <2>2. wire' = wire \o Pushed(main, <<<<"status", "failed">>>>) \o <<refused>>
    BY DEF StartFails, Reply
  <2> HIDE DEF refused
  <2> QED BY <2>1, <2>2
<1> HIDE DEF failed, refused
<1>8. PICK r, q : r = failed /\ q = refused OBVIOUS
<1>9. wire' = wire \o <<r, q>>
  <2>1. wire' = wire \o <<r>> \o <<q>> BY <1>7, <1>8
  <2>2. wire \in Seq(WireMessages) BY MainTyped
  <2> QED BY <1>5, <1>8, <2>1, <2>2, JoinTwo
<1>10. /\ r \in WireMessages /\ q \in WireMessages /\ r.kind = "status" /\ q.kind = "refused"
       /\ r.run = i /\ r.talk = main.talk /\ r.seq = main.seq + 1 /\ q.run = i
  BY <1>5, <1>6, <1>8
<1>11. <<i, "main">> \notin stored BY <1>1 DEF ScreenInv, MainWrites
<1>12. \A j \in Submits : NoAnswer(j) => NoAnswer(j)' BY <1>1, <1>3, <1>4, MainTyped DEF NoAnswer
<1>13. NoAnswer(i)' BY <1>1, <1>3, <1>4, <1>11, MainTyped DEF NoAnswer
<1>14. SaysWhere(r)'
  <2>1. runs.accepted[i] <= main.seq /\ main.talk = sends[i].talk
    BY <1>1, <1>2 DEF ShownInv, RunsTold, RunsBegin
  <2>2. runs.accepted[i] \in Nat BY WindowTyped
  <2>3. r.seq > runs.accepted[r.run] BY <1>2, <1>10, <2>1, <2>2
  <2>4. main'.run # r.run BY <1>4, <1>10, MainTyped
  <2> QED BY <1>1, <1>3, <1>10, <2>1, <2>3, <2>4 DEF SaysWhere, OfRun, Refuses
<1>15. SaysWhere(q)' BY <1>10, <1>13 DEF SaysWhere, OfRun, Refuses
<1>16. NewsOf(r) /\ NewsOf(q)
  BY <1>1, <1>2, <1>10 DEF NewsOf, OfRun, Refuses, Answering
<1>17. Precedes(r, q) BY <1>10 DEF Precedes, OfRun
<1>18. MainGoesOn BY <1>4 DEF MainGoesOn
<1>19. \A a \in stored' : a \in stored /\ ~InMain(a)
  <2> SUFFICES ASSUME NEW a \in stored, InMain(a) PROVE FALSE BY <1>1
  <2>1. PICK j \in Submits, by \in {"main", "window"} : a = <<j, by>>
    BY MainTyped DEF Answers
  <2>2. a[1] = i /\ a[2] = "main" BY <1>1 DEF InMain
  <2>3. a = <<i, "main">> BY <2>1, <2>2
  <2> QED BY <1>11, <2>3
<1> QED BY <1>1, <1>3, <1>9, <1>10, <1>12, <1>14, <1>15, <1>16, <1>17, <1>18, <1>19, ShowsTwo

LEMMA DeltaShows ==
  ASSUME MaxDeltas \in Nat, ScreenInv, ScreenInv', ShownInv, Delta
  PROVE  ShownInv'
<1>1. /\ main.phase = "running"
      /\ UNCHANGED <<sends, cancels, stored, screen, buffer, turn, runs, finishing, pages>>
  BY DEF Delta
<1>2. PICK m : m = [main EXCEPT !.deltas = main.deltas + 1] OBVIOUS
<1>3. m \in MainStates /\ m.run = main.run /\ m.talk = main.talk /\ m.seq = main.seq
  <2>1. main.deltas < MaxDeltas /\ main.deltas \in 0 .. MaxDeltas BY MainTyped DEF Delta
  <2>2. main.deltas + 1 \in 0 .. MaxDeltas BY <2>1
  <2> QED BY <1>2, <2>2, MainTyped DEF MainStates
<1>4. PICK d : d = main.deltas + 1 OBVIOUS
<1>5. Push(m, <<<<"delta", d>>>>) BY <1>2, <1>4 DEF Delta
<1>6. \A j \in Submits : SendGoesOn(j) BY <1>1, SendsStay
<1> QED BY <1>1, <1>3, <1>5, <1>6, PushShows

LEMMA FinishesShows ==
  ASSUME ScreenInv, ScreenInv', ShownInv, NEW outcome, NEW saved, Finishes(outcome, saved)
  PROVE  ShownInv'
<1>1. /\ main.phase \in {"running", "cancelling"}
      /\ main' = [main EXCEPT !.phase = "finishing", !.outcome = outcome, !.stored = saved]
      /\ stored' = IF saved THEN stored \cup {<<main.run, "main">>} ELSE stored
      /\ UNCHANGED <<wire, sends, cancels, screen, buffer, turn, runs, finishing, pages>>
  BY DEF Finishes
<1>2. main.run \in Submits /\ main \in MainStates /\ main.seq \in Nat BY <1>1, MainTyped
<1>3. main'.run = main.run /\ main'.seq = main.seq /\ main'.talk = main.talk
  BY <1>1, <1>2 DEF MainStates
<1>4. MainGoesOn BY <1>2, <1>3 DEF MainGoesOn
<1>5. \A j \in Submits : SendGoesOn(j) BY <1>1, SendsStay
<1>6. \A j \in Submits : NoAnswer(j) => NoAnswer(j)'
  <2> SUFFICES ASSUME NEW j \in Submits, NoAnswer(j) PROVE NoAnswer(j)' OBVIOUS
  <2>1. j # main.run /\ <<j, "main">> \notin stored /\ sends[j].step = "done" BY DEF NoAnswer
  <2>2. <<j, "main">> \notin stored' BY <1>1, <2>1
  <2> QED BY <1>1, <1>3, <2>1, <2>2 DEF NoAnswer
<1>7. \A a \in stored' : a \notin stored => a = <<main.run, "main">> BY <1>1
<1>8. \A a \in stored' : a \notin stored \/ InMain(a) => InMain(a)'
  BY <1>3, <1>7 DEF InMain
<1> QED BY <1>1, <1>4, <1>5, <1>6, <1>8, ShowsNone

LEMMA FinishedShows ==
  ASSUME ScreenInv, ScreenInv', ShownInv, Finished
  PROVE  ShownInv'
<1> DEFINE end == [kind |-> "status", what |-> main.outcome, run |-> main.run, talk |-> main.talk,
                   seq |-> main.seq + 1]
           over == [kind |-> "completed", what |-> IF main.stored THEN 1 ELSE 0,
                    run |-> main.run, talk |-> main.talk, seq |-> main.seq + 2]
<1>1. /\ main.phase = "finishing" /\ main' = Idle
      /\ UNCHANGED <<sends, cancels, stored, screen, buffer, turn, runs, finishing, pages>>
  BY DEF Finished
<1>2. /\ main.run \in Submits /\ main \in MainStates /\ main.talk \in Talks
      /\ main.seq \in Nat /\ main.seq + 1 \in Nat /\ main.seq + 2 \in Nat /\ main.run # 0
  BY <1>1, MainTyped
<1>3. /\ sends[main.run].step = "done" /\ main.outcome \in Outcomes
      /\ main.stored <=> <<main.run, "main">> \in stored
  BY <1>1 DEF ScreenInv, MainInOrder
<1>4. main'.run = 0 BY <1>1 DEF Idle
<1>5. end \in WireMessages /\ over \in WireMessages
  <2>1. end \in WireMessages BY <1>2, <1>3, StatusTyped
  <2>2. over \in CompletedMessages BY <1>2 DEF CompletedMessages
  <2> QED BY <2>1, <2>2 DEF WireMessages
<1>6. /\ end.kind = "status" /\ end.run = main.run /\ end.talk = main.talk /\ end.seq = main.seq + 1
      /\ over.kind = "completed" /\ over.run = main.run /\ over.talk = main.talk
      /\ over.seq = main.seq + 2 /\ (main.stored => over.what = 1)
  OBVIOUS
<1>7. wire' = wire \o <<end, over>>
  <2>1. Pushed(main, <<<<"status", main.outcome>>,
                       <<"completed", IF main.stored THEN 1 ELSE 0>>>>) = <<end, over>>
    BY PushedTwo
  <2> HIDE DEF end, over
  <2> QED BY <2>1 DEF Finished
<1> HIDE DEF end, over
<1>8. PICK r, q : r = end /\ q = over OBVIOUS
<1>9. wire' = wire \o <<r, q>> BY <1>7, <1>8
<1>10. /\ r \in WireMessages /\ q \in WireMessages
       /\ r.kind = "status" /\ r.run = main.run /\ r.talk = main.talk /\ r.seq = main.seq + 1
       /\ q.kind = "completed" /\ q.run = main.run /\ q.talk = main.talk
       /\ q.seq = main.seq + 2 /\ (main.stored => q.what = 1)
  BY <1>5, <1>6, <1>8
<1>11. \A j \in Submits : NoAnswer(j) => NoAnswer(j)' BY <1>1, <1>4, MainTyped DEF NoAnswer
<1>12. SaysWhere(r)' /\ SaysWhere(q)'
  <2>1. runs.accepted[main.run] <= main.seq /\ main.talk = sends[main.run].talk
    BY <1>2 DEF ShownInv, RunsTold, RunsBegin
  <2>2. runs.accepted[main.run] \in Nat BY <1>2, WindowTyped
  <2>3. r.seq > runs.accepted[r.run] /\ q.seq > runs.accepted[q.run] BY <1>2, <1>10, <2>1, <2>2
  <2>4. main'.run # main.run BY <1>2, <1>4
  <2>5. SaysWhere(r)' BY <1>1, <1>2, <1>3, <1>10, <2>1, <2>3, <2>4 DEF SaysWhere, OfRun, Refuses
  <2>6. SaysWhere(q)' BY <1>1, <1>2, <1>3, <1>10, <2>1, <2>3, <2>4 DEF SaysWhere, OfRun, Refuses
  <2> QED BY <2>5, <2>6
<1>13. NewsOf(r) /\ NewsOf(q) BY <1>2, <1>10 DEF NewsOf, OfRun, Refuses, Answering
<1>14. Precedes(r, q) BY <1>2, <1>10 DEF Precedes, OfRun
<1>15. MainGoesOn BY <1>4 DEF MainGoesOn
<1>16. \A j \in Submits : SendGoesOn(j) BY <1>1, SendsStay
<1>17. \A a \in stored' : a \notin stored \/ InMain(a) => Announces(q, a)
  <2> SUFFICES ASSUME NEW a \in stored, InMain(a) PROVE Announces(q, a) BY <1>1
  <2>1. a \in Answers /\ a[1] = main.run /\ a[2] = "main" BY MainTyped DEF InMain
  <2>2. a = <<main.run, "main">> BY <2>1 DEF Answers
  <2> QED BY <1>3, <1>10, <2>1, <2>2 DEF Announces, Answering
<1>18. r.kind # "page" /\ q.kind # "page" BY <1>10
<1> QED BY <1>1, <1>9, <1>10, <1>11, <1>12, <1>13, <1>14, <1>15, <1>16, <1>17, <1>18, ShowsTwo

LEMMA MainCancelsShows ==
  ASSUME ScreenInv, ScreenInv', ShownInv, NEW c \in Talks, MainCancels(c)
  PROVE  ShownInv'
<1>1. /\ UNCHANGED <<sends, stored, screen, buffer, turn, runs, finishing, pages>>
      /\ \A j \in Submits : SendGoesOn(j)
  BY SendsStay DEF MainCancels
<1>2. CASE main.run = 0 \/ main.talk # c \/ main.phase = "finishing"
  <2> DEFINE msg == [kind |-> "refused", what |-> "cancel", run |-> 0, talk |-> c, seq |-> 0]
  <2>1. UNCHANGED main /\ wire' = wire \o <<msg>> BY <1>2 DEF MainCancels, Reply
  <2>2. msg \in WireMessages /\ msg.kind = "refused" /\ msg.what = "cancel" BY RefusedTyped
  <2> HIDE DEF msg
  <2>3. PICK r : r = msg OBVIOUS
  <2>4. r \in WireMessages /\ wire' = wire \o <<r>> /\ r.kind = "refused" /\ r.what = "cancel"
    BY <2>1, <2>2, <2>3
  <2>5. SaysWhere(r)' BY <2>4 DEF SaysWhere, OfRun, Refuses
  <2>6. NewsOf(r) BY <2>4 DEF NewsOf, OfRun, Refuses, Answering
  <2>7. MainGoesOn
    <3>1. main.seq >= main.seq BY MainTyped
    <3> QED BY <2>1, <3>1 DEF MainGoesOn
  <2>8. \A j \in Submits : NoAnswer(j) => NoAnswer(j)' BY <1>1, <2>1 DEF NoAnswer
  <2>9. \A a \in stored' : a \in stored /\ (InMain(a) => InMain(a)') BY <1>1, <2>1 DEF InMain
  <2>10. \A j \in Submits : finishing[j].step = "answered" => finishing'[j].step = "answered"
    BY <1>1
  <2>11. (\A p \in pages : p \in pages') /\ r.kind # "page" BY <1>1, <2>4
  <2> QED BY <1>1, <2>4, <2>5, <2>6, <2>7, <2>8, <2>9, <2>10, <2>11, ShowsOne
<1>3. CASE ~(main.run = 0 \/ main.talk # c \/ main.phase = "finishing")
  <2>1. PICK m : m = [main EXCEPT !.phase = "cancelling"] OBVIOUS
  <2>2. m \in MainStates /\ m.run = main.run /\ m.talk = main.talk /\ m.seq = main.seq
    BY <2>1, MainTyped DEF MainStates
  <2>3. Push(m, <<<<"status", "cancelling">>>>) BY <1>3, <2>1 DEF MainCancels
  <2>4. main.phase # "none" BY <1>3, MainTyped
  <2> QED BY <1>1, <2>2, <2>3, <2>4, PushShows
<1> QED BY <1>2, <1>3

LEMMA PageReadShows ==
  ASSUME MaxSubmits \in Nat, ScreenInv, ScreenInv', ShownInv, NEW p \in pages, PageRead(p)
  PROVE  ShownInv'
<1> DEFINE msg == [kind |-> "page", what |-> InOrder(Messages(p.talk)),
                   run |-> IF p.kind = "open" THEN 1 ELSE 0, talk |-> p.talk, seq |-> 0]
<1>1. /\ pages' = pages \ {p} /\ wire' = wire \o <<msg>>
      /\ UNCHANGED <<main, sends, cancels, stored, screen, buffer, turn, runs, finishing>>
  BY DEF PageRead, Reply
<1>2. stored \subseteq Answers /\ p \in PageRequests BY MainTyped
<1>3. /\ msg.what \in Seq(Answers) /\ msg.kind = "page" /\ msg.talk = p.talk
      /\ \A a \in Messages(p.talk) : Lists(msg.what, a)
  BY <1>2, PageOfStored
<1>4. msg \in WireMessages
  <2>1. p.talk \in Talks BY <1>2 DEF PageRequests
  <2>2. InOrder(Messages(p.talk)) \in Seq(Answers) BY <1>3
  <2> QED BY <2>1, <2>2 DEF WireMessages, PageMessages
<1> HIDE DEF msg
<1>5. PICK r : r = msg OBVIOUS
<1>6. /\ r \in WireMessages /\ wire' = wire \o <<r>> /\ r.kind = "page" /\ r.talk = p.talk
      /\ \A a \in Messages(p.talk) : Lists(r.what, a)
  BY <1>1, <1>3, <1>4, <1>5
<1>7. SaysWhere(r)' BY <1>6 DEF SaysWhere, OfRun, Refuses
<1>8. NewsOf(r) BY <1>6 DEF NewsOf, OfRun, Refuses, Answering
<1>9. MainGoesOn
  <2>1. main.seq >= main.seq BY MainTyped
  <2> QED BY <1>1, <2>1 DEF MainGoesOn
<1>10. \A j \in Submits : NoAnswer(j) => NoAnswer(j)' BY <1>1 DEF NoAnswer
<1>11. \A a \in stored' : a \in stored /\ (InMain(a) => InMain(a)') BY <1>1 DEF InMain
<1>12. \A a \in Messages(r.talk)' : Lists(r.what, a) BY <1>1, <1>6 DEF Messages
<1>13. \A q \in pages : q \in pages' \/ (r.kind = "page" /\ r.talk = q.talk) BY <1>1, <1>6
<1>14. \A j \in Submits : SendGoesOn(j) BY <1>1, SendsStay
<1>15. \A j \in Submits : finishing[j].step = "answered" => finishing'[j].step = "answered"
  BY <1>1
<1> QED BY <1>1, <1>6, <1>7, <1>8, <1>9, <1>10, <1>11, <1>12, <1>13, <1>14, <1>15, ShowsOne

LEMMA SaveAnswerShows ==
  ASSUME ScreenInv, ScreenInv', ShownInv, NEW i \in Submits, SaveAnswer(i)
  PROVE  ShownInv'
<1> DEFINE msg == [kind |-> "saved", what |-> 0, run |-> i, talk |-> "none", seq |-> 0]
<1>1. /\ stored' = stored \cup {<<i, "window">>}
      /\ finishing' = [finishing EXCEPT ![i].step = "answered"] /\ wire' = wire \o <<msg>>
      /\ UNCHANGED <<main, sends, cancels, screen, buffer, turn, runs, pages>>
  BY DEF SaveAnswer, Reply
<1>2. finishing \in [Submits -> FinishStates] /\ finishing[i] \in FinishStates BY WindowTyped
<1>3. /\ finishing'[i].step = "answered"
      /\ \A j \in Submits : finishing[j].step = "answered" => finishing'[j].step = "answered"
  BY <1>1, <1>2 DEF FinishStates
<1>4. msg \in WireMessages BY DEF WireMessages, SavedMessages
<1>5. msg.kind = "saved" /\ msg.run = i OBVIOUS
<1> HIDE DEF msg
<1>6. PICK r : r = msg OBVIOUS
<1>7. r \in WireMessages /\ r.kind = "saved" /\ r.run = i /\ wire' = wire \o <<r>>
  BY <1>1, <1>4, <1>5, <1>6
<1>8. SaysWhere(r)' BY <1>3, <1>7 DEF SaysWhere, OfRun, Refuses
<1>9. NewsOf(r) BY <1>7 DEF NewsOf, OfRun, Refuses, Answering
<1>10. MainGoesOn
  <2>1. main.seq >= main.seq BY MainTyped
  <2> QED BY <1>1, <2>1 DEF MainGoesOn
<1>11. \A j \in Submits : NoAnswer(j) => NoAnswer(j)' BY <1>1 DEF NoAnswer
<1>12. \A a \in stored' : a \notin stored => a = <<i, "window">> BY <1>1
<1>13. \A a \in stored' : a \notin stored \/ InMain(a) => InMain(a)' \/ Announces(r, a)
  BY <1>1, <1>7, <1>12 DEF InMain, Announces
<1>14. \A j \in Submits : SendGoesOn(j) BY <1>1, SendsStay
<1>15. (\A q \in pages : q \in pages') /\ r.kind # "page" BY <1>1, <1>7
<1> QED BY <1>1, <1>3, <1>7, <1>8, <1>9, <1>10, <1>11, <1>13, <1>14, <1>15, ShowsOne

-----------------------------------------------------------------------------
(* A step of the window: the messages that stay keep their order, and none that   *)
(* announces an answer is lost. *)
AcceptsOK(m) ==
    /\ OfRun(m) => m.seq > runs.accepted[m.run]
    /\ m.kind = "saved" => finishing[m.run].step = "answered"
RunsStand ==
    /\ main.run # 0 => runs.accepted[main.run] <= main.seq
    /\ \A i \in Submits : sends[i].step \in {"none", "asked"} =>
          runs.accepted[i] = 0 /\ i \notin runs.retired /\ runs.active # i

LEMMA ToldThins ==
  ASSUME ScreenInv, RunsTold, UNCHANGED <<main, sends, stored>>, RunsStand',
         wire' \in Seq(WireMessages), NEW place, Among(wire', wire, Len(wire), place),
         \A k \in 1 .. Len(wire') : AcceptsOK(wire[k])'
  PROVE  RunsTold'
<1>1. /\ \A k \in 1 .. Len(wire') : place[k] \in 1 .. Len(wire) /\ wire'[k] = wire[place[k]]
      /\ \A j, k \in 1 .. Len(wire') : j < k => place[j] < place[k]
  BY DEF Among
<1>2. WireTells'
  <2> SUFFICES ASSUME NEW k \in 1 .. Len(wire') PROVE SaysWhere(wire[k])' BY DEF WireTells
  <2>1. PICK n : n = wire'[k] OBVIOUS
  <2>2. SaysWhere(n) BY <1>1, <2>1 DEF RunsTold, WireTells
  <2>3. AcceptsOK(n)'
    <3>1. AcceptsOK(wire[k])' OBVIOUS
    <3> QED BY <2>1, <3>1 DEF AcceptsOK, OfRun
  <2>4. SaysWhere(n)' BY <2>2, <2>3 DEF SaysWhere, AcceptsOK, OfRun, Refuses, NoAnswer
  <2> QED BY <2>1, <2>4 DEF SaysWhere, OfRun, Refuses, NoAnswer
<1>3. EventsInOrder'
  <2> SUFFICES ASSUME NEW k \in 1 .. Len(wire'), NEW l \in 1 .. Len(wire'), k < l
               PROVE  Precedes(wire'[k], wire'[l])
    BY DEF EventsInOrder, Precedes, OfRun
  <2>1. Precedes(wire[place[k]], wire[place[l]]) BY <1>1 DEF RunsTold, EventsInOrder
  <2> QED BY <1>1, <2>1
<1>4. RunsBegin' BY DEF RunsStand, RunsTold, RunsBegin
<1> QED BY <1>2, <1>3, <1>4 DEF RunsTold

LEMMA SpeaksThins ==
  ASSUME UNCHANGED <<main, sends>>, LatestSpeaks,
         NEW place, Among(wire', wire, Len(wire), place),
         \A i \in Submits : Speaks(i) => runs'.active \in {0, i}
  PROVE  LatestSpeaks'
<1>1. \A k \in 1 .. Len(wire') : place[k] \in 1 .. Len(wire) /\ wire'[k] = wire[place[k]]
  BY DEF Among
<1> SUFFICES ASSUME NEW i \in Submits, Speaks(i)' PROVE IsLast(i)' /\ runs'.active \in {0, i}
  BY DEF LatestSpeaks
<1>2. Speaks(i)
  <2>1. ASSUME NEW k \in 1 .. Len(wire'), TellsOf(wire'[k], i) PROVE Speaks(i)
    <3>1. place[k] \in 1 .. Len(wire) /\ TellsOf(wire[place[k]], i) BY <1>1, <2>1
    <3>2. \E l \in 1 .. Len(wire) : TellsOf(wire[l], i) BY <3>1
    <3> QED BY <3>2 DEF Speaks
  <2>2. \/ main.run = i \/ sends[i].step \in {"asked", "starting"}
        \/ \E k \in 1 .. Len(wire') : TellsOf(wire'[k], i)
    BY DEF Speaks, TellsOf, OfRun, Refuses
  <2> QED BY <2>1, <2>2 DEF Speaks
<1>3. IsLast(i) BY <1>2 DEF LatestSpeaks
<1> QED BY <1>2, <1>3 DEF IsLast

LEMMA ComesThins ==
  ASSUME UNCHANGED main, NEW place, Among(wire', wire, Len(wire), place),
         wire \in Seq(WireMessages), wire' \in Seq(WireMessages),
         NEW k \in 0 .. Len(wire'), NEW n \in 0 .. Len(wire), k # 0 => place[k] = n,
         \A l \in n + 1 .. Len(wire) : wire[l].kind \in {"completed", "saved"} =>
            \E j \in 1 .. Len(wire') : place[j] = l,
         NEW a, ToCome(a, n)
  PROVE  ToCome(a, k)'
<1>1. /\ \A j \in 1 .. Len(wire') : place[j] \in 1 .. Len(wire) /\ wire'[j] = wire[place[j]]
      /\ \A i, j \in 1 .. Len(wire') : i < j => place[i] < place[j]
      /\ Len(wire) \in Nat /\ Len(wire') \in Nat
  <2>1. Len(wire) \in Nat /\ Len(wire') \in Nat OBVIOUS
  <2>2. \A j \in 1 .. Len(wire') : place[j] \in 1 .. Len(wire) /\ wire'[j] = wire[place[j]]
    BY DEF Among
  <2> QED BY <2>1, <2>2 DEF Among
<1>2. CASE InMain(a) BY <1>2 DEF ToCome, InMain
<1>3. ASSUME NEW l \in n + 1 .. Len(wire), Announces(wire[l], a) PROVE ToCome(a, k)'
  <2>1. wire[l].kind \in {"completed", "saved"} BY <1>3 DEF Announces, Answering
  <2>2. PICK j \in 1 .. Len(wire') : place[j] = l BY <2>1
  <2>3. j > k
    <3>1. CASE k = 0 BY <1>1, <3>1
    <3>2. CASE k # 0
      <4>1. k \in 1 .. Len(wire') BY <1>1, <3>2
      <4>2. place[k] < place[j] BY <1>1, <2>2, <3>2
      <4>3. j # k /\ ~(j < k) BY <1>1, <4>1, <4>2
      <4> QED BY <1>1, <4>3
    <3> QED BY <3>1, <3>2
  <2>4. j \in k + 1 .. Len(wire') /\ Announces(wire'[j], a) BY <1>1, <1>3, <2>2, <2>3
  <2>5. \E i \in k + 1 .. Len(wire') : Announces(wire'[i], a) BY <2>4
  <2> QED BY <2>5 DEF ToCome, Announces, Answering
<1> QED BY <1>2, <1>3 DEF ToCome

LEMMA PagesThin ==
  ASSUME PagesAreWhole, UNCHANGED <<main, sends, stored>>,
         wire \in Seq(WireMessages), wire' \in Seq(WireMessages),
         NEW place, Among(wire', wire, Len(wire), place),
         \A k \in 1 .. Len(wire') : \A l \in place[k] + 1 .. Len(wire) :
            wire[l].kind \in {"completed", "saved"} => \E j \in 1 .. Len(wire') : place[j] = l
  PROVE  PagesAreWhole'
<1>1. /\ \A j \in 1 .. Len(wire') : place[j] \in 1 .. Len(wire) /\ wire'[j] = wire[place[j]]
      /\ Len(wire) \in Nat /\ Len(wire') \in Nat
  BY DEF Among
<1> SUFFICES ASSUME NEW k \in 1 .. Len(wire'), wire'[k].kind = "page",
                    NEW talk, talk = wire'[k].talk, NEW a \in Messages(talk)
             PROVE  Lists(wire'[k].what, a) \/ ToCome(a, k)'
  BY DEF PagesAreWhole, ToCome, Lists, Messages
<1>2. PICK n \in 1 .. Len(wire) : n = place[k] /\ wire'[k] = wire[n] BY <1>1
<1>3. Lists(wire[n].what, a) \/ ToCome(a, n) BY <1>2 DEF PagesAreWhole
<1>4. CASE ToCome(a, n)
  <2>1. k \in 0 .. Len(wire') /\ n \in 0 .. Len(wire) BY <1>1
  <2> QED BY <1>2, <1>4, <2>1, ComesThins, ZenonT(30)
<1> QED BY <1>2, <1>3, <1>4

(* One that leaves the queue, the requests and the messages of the screen as they are. *)
LEMMA QuietShows ==
  ASSUME ScreenInv, ShownInv, UNCHANGED <<main, wire, sends, stored, pages>>,
         screen'.talk = screen.talk, screen'.messages = screen.messages,
         runs'.accepted = runs.accepted, runs'.retired = runs.retired,
         runs'.overlap = runs.overlap, runs'.active \in {0, runs.active},
         \A i \in Submits : finishing[i].step = "answered" => finishing'[i].step = "answered"
  PROVE  ShownInv'
<1> DEFINE place == [k \in 1 .. Len(wire) |-> k]
<1>1. wire \in Seq(WireMessages) /\ wire' \in Seq(WireMessages) /\ Len(wire) \in Nat
  BY MainTyped
<1>2. /\ Among(wire', wire, Len(wire), place) /\ Len(wire') = Len(wire)
      /\ \A k \in 1 .. Len(wire) : place[k] = k
  BY DEF Among
<1> HIDE DEF place
<1>3. RunsTold /\ PagesAreWhole BY DEF ShownInv
<1>4. \A i \in Submits : i # 0 BY MainTyped
<1>5. RunsStand' BY <1>3, <1>4 DEF RunsStand, RunsTold, RunsBegin
<1>6. \A k \in 1 .. Len(wire') : AcceptsOK(wire[k])'
  <2> SUFFICES ASSUME NEW k \in 1 .. Len(wire) PROVE AcceptsOK(wire[k])' OBVIOUS
  <2>1. PICK n \in WireMessages : n = wire[k] BY <1>1
  <2>2. SaysWhere(n) BY <1>3, <2>1 DEF RunsTold, WireTells
  <2>3. n.kind = "saved" => n.run \in Submits BY MessagesTyped
  <2>4. AcceptsOK(n)' BY <2>2, <2>3 DEF AcceptsOK, SaysWhere, OfRun
  <2> QED BY <2>1, <2>4 DEF AcceptsOK, OfRun
<1>7. RunsTold' BY <1>1, <1>2, <1>3, <1>5, <1>6, ToldThins
<1>8. \A l \in 1 .. Len(wire) : \E j \in 1 .. Len(wire') : place[j] = l BY <1>2
<1>9. PagesAreWhole'
  <2>1. \A k \in 1 .. Len(wire') : \A l \in place[k] + 1 .. Len(wire) : l \in 1 .. Len(wire)
    BY <1>1, <1>2
  <2> QED BY <1>1, <1>2, <1>3, <1>8, <2>1, PagesThin
<1>10. ASSUME ~runs'.overlap PROVE (LatestSpeaks /\ RetiredAreOver /\ AllCome)'
  <2>1. LatestSpeaks /\ RetiredAreOver /\ AllCome BY <1>10 DEF ShownInv
  <2>2. \A i \in Submits : Speaks(i) => runs'.active \in {0, i} BY <2>1 DEF LatestSpeaks
  <2>3. LatestSpeaks' BY <1>2, <2>1, <2>2, SpeaksThins
  <2>4. RetiredAreOver' BY <2>1 DEF RetiredAreOver
  <2>5. AllCome'
    BY <2>1 DEF AllCome, Messages, Lists, ToCome, InMain, PageComes
  <2> QED BY <2>3, <2>4, <2>5
<1> QED BY <1>7, <1>9, <1>10 DEF ShownInv

LEMMA CancelShows ==
  ASSUME ScreenInv, ShownInv, Cancel
  PROVE  ShownInv'
<1>1. /\ screen' = [screen EXCEPT !.status = "cancelling"]
      /\ UNCHANGED <<main, wire, sends, stored, buffer, turn, runs, finishing, pages>>
  BY DEF Cancel
<1>2. screen'.talk = screen.talk /\ screen'.messages = screen.messages
  BY <1>1, WindowTyped DEF Screens
<1> QED BY <1>1, <1>2, QuietShows

LEMMA FlushShows ==
  ASSUME ScreenInv, ShownInv, FlushStream
  PROVE  ShownInv'
<1>1. /\ screen' = [screen EXCEPT !.stream = screen.stream \o buffer]
      /\ UNCHANGED <<main, wire, sends, cancels, stored, turn, runs, finishing, pages>>
  BY DEF FlushStream
<1>2. screen'.talk = screen.talk /\ screen'.messages = screen.messages
  BY <1>1, WindowTyped DEF Screens
<1> QED BY <1>1, <1>2, QuietShows

LEMMA TurnEndShows ==
  ASSUME ScreenInv, ShownInv, NEW i \in Submits, TurnFinished(i) \/ TurnFinishFails(i)
  PROVE  ShownInv'
<1>1. /\ finishing[i].step # "answered" /\ runs' = RunForgotten(i)
      /\ UNCHANGED <<main, wire, sends, stored, pages>>
      /\ \E step : finishing' = [finishing EXCEPT ![i].step = step]
  BY DEF TurnFinished, TurnFinishFails
<1>2. screen'.talk = screen.talk /\ screen'.messages = screen.messages
  BY WindowTyped DEF Screens, TurnFinished, TurnFinishFails
<1>3. \A j \in Submits : finishing[j].step = "answered" => finishing'[j].step = "answered"
  BY <1>1, WindowTyped
<1>4. /\ runs'.accepted = runs.accepted /\ runs'.retired = runs.retired
      /\ runs'.overlap = runs.overlap /\ runs'.active \in {0, runs.active}
  <2>1. runs \in RunStates BY WindowTyped
  <2> QED BY <1>1, <2>1 DEF RunForgotten, RunStates
<1> QED BY <1>1, <1>2, <1>3, <1>4, QuietShows

LEMMA SubmitShows ==
  ASSUME ScreenInv, ScreenInv', ShownInv, NEW i \in Submits, Submit(i)
  PROVE  ShownInv'
<1>1. /\ sends[i].step = "none"
      /\ runs' = [Retiring EXCEPT !.overlap = @ \/ ~AllOver]
      /\ screen' = [screen EXCEPT !.status = "busy", !.stream = <<>>]
      /\ sends' = [sends EXCEPT ![i] = [step |-> "asked", talk |-> screen.talk]]
      /\ UNCHANGED <<main, wire, cancels, stored, buffer, finishing, pages>>
  BY DEF Submit
<1>2. screen'.talk = screen.talk /\ screen'.messages = screen.messages
  BY <1>1, WindowTyped DEF Screens
<1>3. /\ runs'.accepted = runs.accepted /\ runs'.active = 0
      /\ runs'.retired = runs.retired \cup ({runs.active} \ {0})
      /\ ~runs'.overlap => ~runs.overlap /\ AllOver
  <2>1. runs \in RunStates BY WindowTyped
  <2>2. PICK r : r = Retiring OBVIOUS
  <2>3. /\ r.accepted = runs.accepted /\ r.active = 0 /\ r.overlap = runs.overlap
        /\ r.retired = runs.retired \cup ({runs.active} \ {0}) /\ r \in RunStates
    <3>1. r \in RunStates BY <2>2, RetiringTyped
    <3> QED BY <2>1, <2>2, <3>1 DEF Retiring, RunStates
  <2>4. runs' = [r EXCEPT !.overlap = r.overlap \/ ~AllOver] BY <1>1, <2>2, Zenon
  <2>5. /\ runs'.accepted = r.accepted /\ runs'.active = r.active /\ runs'.retired = r.retired
    BY <2>3, <2>4 DEF RunStates
  <2>6. runs'.overlap = (r.overlap \/ ~AllOver) BY <2>3, <2>4, Zenon DEF RunStates
  <2>7. ASSUME ~runs'.overlap PROVE ~runs.overlap /\ AllOver
    <3>1. ~(r.overlap \/ ~AllOver) BY <2>6, <2>7, Zenon
    <3> QED BY <2>3, <3>1
  <2> QED BY <2>3, <2>5, <2>7
<1>4. /\ sends'[i].step = "asked" /\ \A j \in Submits : j # i => sends'[j] = sends[j]
  BY <1>1, MainTyped
<1>5. RunsTold /\ PagesAreWhole /\ wire \in Seq(WireMessages) BY MainTyped DEF ShownInv
<1>6. \A j \in Submits : NoAnswer(j) => NoAnswer(j)' BY <1>1, <1>4 DEF NoAnswer
<1>7. WireTells'
  <2> SUFFICES ASSUME NEW k \in 1 .. Len(wire) PROVE SaysWhere(wire[k])' BY <1>1 DEF WireTells
  <2>1. PICK n \in WireMessages : n = wire[k] BY <1>5
  <2>2. SaysWhere(n) BY <1>5, <2>1 DEF RunsTold, WireTells
  <2>3. OfRun(n) => n.run \in Submits /\ n.run # i BY <1>1, <2>2 DEF SaysWhere
  <2>4. OfRun(n) => sends'[n.run] = sends[n.run] BY <1>4, <2>3
  <2>5. Refuses(n) => n.run \in Submits /\ NoAnswer(n.run)' BY <1>6, <2>2 DEF SaysWhere
  <2>6. SaysWhere(n)'
    BY <1>1, <1>3, <2>2, <2>4, <2>5 DEF SaysWhere, OfRun, Refuses
  <2> QED BY <1>1, <2>1, <2>6 DEF SaysWhere, OfRun, Refuses, NoAnswer
<1>8. EventsInOrder' BY <1>1, <1>5 DEF RunsTold, EventsInOrder, Precedes, OfRun
<1>9. RunsBegin /\ \A j \in Submits : j \in Nat /\ j # 0 BY <1>5, MainTyped DEF RunsTold
<1>10. RunsBegin'
  <2>1. main.run # 0 => runs.accepted[main.run] <= main.seq /\ main.talk = sends'[main.run].talk
    <3> SUFFICES ASSUME main.run # 0
                 PROVE  runs.accepted[main.run] <= main.seq /\ main.talk = sends'[main.run].talk
      OBVIOUS
    <3>1. main.run \in Submits /\ main.run # i
      BY <1>1, MainTyped DEF ScreenInv, MainInOrder
    <3> QED BY <1>4, <1>9, <3>1 DEF RunsBegin
  <2>2. \A j \in Submits : sends'[j].step \in {"none", "asked"} => sends[j].step \in {"none", "asked"}
    BY <1>1, <1>4
  <2>3. \A j \in Submits : sends'[j].step \in {"none", "asked"} =>
          runs'.accepted[j] = 0 /\ j \notin runs'.retired /\ runs'.active # j
    BY <1>3, <1>9, <2>2 DEF RunsBegin
  <2>4. \A j, k \in Submits : j < k /\ sends'[k].step # "none" => sends'[j].step # "none"
    <3> SUFFICES ASSUME NEW j \in Submits, NEW k \in Submits, j < k, sends'[k].step # "none"
                 PROVE  sends'[j].step # "none"
      OBVIOUS
    <3>1. CASE j = i BY <1>4, <3>1
    <3>2. CASE j # i /\ k = i BY <1>4, <3>2 DEF Submit
    <3>3. CASE j # i /\ k # i BY <1>4, <1>9, <3>3 DEF RunsBegin
    <3> QED BY <3>1, <3>2, <3>3
  <2> QED BY <1>1, <1>3, <2>1, <2>3, <2>4 DEF RunsBegin
<1>11. \A talk : Messages(talk)' \subseteq Messages(talk)
  <2> SUFFICES ASSUME NEW talk, NEW a \in Messages(talk)' PROVE a \in Messages(talk) OBVIOUS
  <2>1. a \in stored /\ a \in Answers BY <1>1, MainTyped DEF Messages
  <2>2. a[1] \in Submits /\ sends[a[1]].step = "done"
    <3>1. PICK j \in Submits, by \in {"main", "window"} : a = <<j, by>> BY <2>1 DEF Answers
    <3>2. a[1] = j BY <3>1
    <3>3. CASE by = "main" BY <2>1, <3>1, <3>2, <3>3 DEF ScreenInv, MainWrites
    <3>4. CASE by = "window" BY <2>1, <3>1, <3>2, <3>4 DEF ScreenInv, WindowWrites, NoAnswer
    <3> QED BY <3>1, <3>3, <3>4
  <2>3. sends'[a[1]] = sends[a[1]] BY <1>1, <1>4, <2>2
  <2> QED BY <2>1, <2>3 DEF Messages
<1>12. PagesAreWhole'
  <2> SUFFICES ASSUME NEW k \in 1 .. Len(wire), wire[k].kind = "page",
                      NEW talk, talk = wire[k].talk, NEW a \in Messages(talk)'
               PROVE  Lists(wire[k].what, a) \/ ToCome(a, k)'
    BY <1>1 DEF PagesAreWhole, ToCome, Lists, Messages
  <2>1. a \in Messages(talk) BY <1>11
  <2>2. Lists(wire[k].what, a) \/ ToCome(a, k) BY <1>5, <2>1 DEF PagesAreWhole
  <2> QED BY <1>1, <2>2 DEF ToCome, InMain
<1>13. ASSUME ~runs'.overlap PROVE (LatestSpeaks /\ RetiredAreOver /\ AllCome)'
  <2>1. ~runs.overlap /\ AllOver BY <1>3, <1>13
  <2>2. /\ main.run = 0 /\ wire = <<>> /\ Len(wire) = 0
        /\ \A j \in Submits : sends[j].step \in {"none", "done"}
    BY <2>1 DEF AllOver, Idle
  <2>3. LatestSpeaks'
    <3> SUFFICES ASSUME NEW j \in Submits, Speaks(j)' PROVE IsLast(j)' /\ runs'.active \in {0, j}
      BY DEF LatestSpeaks
    <3>1. j = i BY <1>1, <1>4, <1>9, <2>2 DEF Speaks
    <3>2. \A k \in Submits : sends'[k].step # "none" => k <= i
      BY <1>1, <1>4, <1>9 DEF RunsBegin
    <3> QED BY <1>3, <3>1, <3>2 DEF IsLast
  <2>4. RetiredAreOver'
    <3>1. \A j \in runs'.retired : j # 0 BY <1>3, <1>9, WindowTyped
    <3> QED BY <1>1, <2>2, <3>1 DEF RetiredAreOver
  <2>5. AllCome'
    <3> SUFFICES ASSUME NEW a \in Messages(screen.talk)'
                 PROVE  (Lists(screen.messages, a) \/ ToCome(a, 0) \/ PageComes)'
      BY DEF AllCome
    <3>1. a \in Messages(screen.talk) BY <1>2, <1>11 DEF Messages
    <3>2. Lists(screen.messages, a) \/ ToCome(a, 0) \/ PageComes
      BY <2>1, <3>1 DEF ShownInv, AllCome
    <3> QED BY <1>1, <1>2, <3>2 DEF Lists, ToCome, InMain, PageComes
  <2> QED BY <2>3, <2>4, <2>5
<1> QED BY <1>7, <1>8, <1>10, <1>12, <1>13 DEF ShownInv, RunsTold

LEMMA OpenShows ==
  ASSUME ScreenInv, ScreenInv', ShownInv, NEW c \in Talks, Open(c)
  PROVE  ShownInv'
<1>1. /\ screen' = [screen EXCEPT !.talk = c, !.stream = <<>>, !.reads = screen.reads + 1]
      /\ pages' = {p \in pages : p.kind # "open"} \cup {Asked("open", c)}
      /\ wire' = Unawaited(wire)
      /\ UNCHANGED <<main, sends, cancels, stored, buffer, turn, runs, finishing>>
  BY DEF Open
<1>2. wire \in Seq(WireMessages) /\ wire' \in Seq(WireMessages) /\ Len(wire) \in Nat
  BY MainTyped DEF ScreenInv, RunTypes
<1>3. PICK place : /\ Among(wire', wire, Len(wire), place)
                   /\ KeepsAwaited(wire', wire, Len(wire), place)
  BY <1>1, <1>2, UnawaitedAmong
<1>4. RunsTold /\ PagesAreWhole BY DEF ShownInv
<1>5. RunsStand' BY <1>1, <1>4 DEF RunsStand, RunsTold, RunsBegin
<1>6. \A k \in 1 .. Len(wire') : place[k] \in 1 .. Len(wire) /\ wire'[k] = wire[place[k]]
  BY <1>3 DEF Among
<1>7. \A k \in 1 .. Len(wire') : AcceptsOK(wire[k])'
  <2> SUFFICES ASSUME NEW k \in 1 .. Len(wire') PROVE AcceptsOK(wire[k])' OBVIOUS
  <2>1. PICK n \in WireMessages : n = wire'[k] BY <1>2
  <2>2. SaysWhere(n) BY <1>4, <1>6, <2>1 DEF RunsTold, WireTells
  <2>3. AcceptsOK(n)' BY <1>1, <2>2 DEF AcceptsOK, SaysWhere, OfRun
  <2> QED BY <2>1, <2>3 DEF AcceptsOK, OfRun
<1>8. RunsTold' BY <1>1, <1>2, <1>3, <1>4, <1>5, <1>7, ToldThins
<1>9. \A l \in 1 .. Len(wire) : wire[l].kind \in {"completed", "saved"} =>
        \E j \in 1 .. Len(wire') : place[j] = l
  BY <1>3 DEF KeepsAwaited, AwaitedPage
<1>10. PagesAreWhole'
  <2>1. \A k \in 1 .. Len(wire') : \A l \in place[k] + 1 .. Len(wire) : l \in 1 .. Len(wire)
    BY <1>2, <1>6
  <2> QED BY <1>1, <1>2, <1>3, <1>4, <1>9, <2>1, PagesThin
<1>11. ASSUME ~runs'.overlap PROVE (LatestSpeaks /\ RetiredAreOver /\ AllCome)'
  <2>1. LatestSpeaks /\ RetiredAreOver BY <1>1, <1>11 DEF ShownInv
  <2>2. \A i \in Submits : Speaks(i) => runs'.active \in {0, i} BY <1>1, <2>1 DEF LatestSpeaks
  <2>3. LatestSpeaks' BY <1>1, <1>3, <2>1, <2>2, SpeaksThins
  <2>4. RetiredAreOver' BY <1>1, <1>6, <2>1 DEF RetiredAreOver, Answering
  <2>5. PageComes'
    <3>1. screen'.talk = c BY <1>1, WindowTyped DEF Screens
    <3>2. Asked("open", c) \in pages' /\ Asked("open", c).talk = c BY <1>1 DEF Asked
    <3> QED BY <3>1, <3>2 DEF PageComes
  <2> QED BY <2>3, <2>4, <2>5 DEF AllCome
<1> QED BY <1>8, <1>10, <1>11 DEF ShownInv

-----------------------------------------------------------------------------
(* The window takes the message at the head of the queue. *)
LEMMA WithoutFirst ==
  ASSUME ScreenInv, NEW m, Taken(m)
  PROVE  /\ wire \in Seq(WireMessages) /\ wire' \in Seq(WireMessages)
         /\ Len(wire) \in Nat /\ Len(wire') = Len(wire) - 1 /\ Len(wire') \in Nat
         /\ 1 \in 1 .. Len(wire) /\ wire[1] = m /\ m \in WireMessages
         /\ \A l \in 2 .. Len(wire) : /\ l \in 1 .. Len(wire) /\ wire[l] \in WireMessages
                                      /\ l - 1 \in 1 .. Len(wire') /\ wire'[l - 1] = wire[l]
         /\ \A k \in 1 .. Len(wire') : k + 1 \in 2 .. Len(wire) /\ wire'[k] = wire[k + 1]
         /\ \E place : /\ Among(wire', wire, Len(wire), place)
                       /\ \A k \in 1 .. Len(wire') : place[k] = k + 1
<1>1. wire # <<>> /\ wire' = Tail(wire) /\ m = Head(wire) BY DEF Taken
<1>2. /\ wire \in Seq(WireMessages) /\ wire' \in Seq(WireMessages)
      /\ Len(wire) \in Nat /\ Len(wire') = Len(wire) - 1 /\ Len(wire') \in Nat
      /\ \A k \in 1 .. Len(wire') : wire'[k] = wire[k + 1]
      /\ 1 \in 1 .. Len(wire) /\ wire[1] = m
  BY <1>1, MainTyped
<1>3. m \in WireMessages BY <1>2
<1>4. \A l \in 2 .. Len(wire) : /\ l \in 1 .. Len(wire) /\ wire[l] \in WireMessages
                                /\ l - 1 \in 1 .. Len(wire') /\ wire'[l - 1] = wire[l]
  <2> SUFFICES ASSUME NEW l \in 2 .. Len(wire)
               PROVE  /\ l \in 1 .. Len(wire) /\ wire[l] \in WireMessages
                      /\ l - 1 \in 1 .. Len(wire') /\ wire'[l - 1] = wire[l]
    OBVIOUS
  <2>1. l \in 1 .. Len(wire) /\ l - 1 \in 1 .. Len(wire') /\ (l - 1) + 1 = l BY <1>2
  <2> QED BY <1>2, <2>1
<1>5. \A k \in 1 .. Len(wire') : k + 1 \in 2 .. Len(wire) /\ k + 1 \in 1 .. Len(wire) BY <1>2
<1> DEFINE place == [k \in 1 .. Len(wire') |-> k + 1]
<1>6. place \in [1 .. Len(wire') -> 1 .. Len(wire)] BY <1>5
<1>7. \A k \in 1 .. Len(wire') : place[k] = k + 1 OBVIOUS
<1> HIDE DEF place
<1>8. \A k \in 1 .. Len(wire') : wire'[k] = wire[place[k]] BY <1>2, <1>7
<1>9. \A j, k \in 1 .. Len(wire') : j < k => place[j] < place[k] BY <1>7
<1>10. Among(wire', wire, Len(wire), place) BY <1>6, <1>8, <1>9 DEF Among
<1> QED BY <1>2, <1>3, <1>4, <1>5, <1>7, <1>10

(* What the window then knows of the runs. *)
Learns(m) ==
    /\ \/ runs'.accepted = runs.accepted
       \/ OfRun(m) /\ runs'.accepted = [runs.accepted EXCEPT ![m.run] = m.seq]
    /\ runs'.active \in {0, runs.active} \/ (OfRun(m) /\ runs'.active = m.run)
    /\ \A i \in runs'.retired : i \in runs.retired \/ i = runs.active \/ (OfRun(m) /\ i = m.run)
    /\ runs'.overlap = runs.overlap

LEMMA TakenTold ==
  ASSUME ScreenInv, ShownInv, NEW m, Taken(m), Learns(m),
         \A l \in 2 .. Len(wire) : wire[l].kind = "saved" =>
            finishing'[wire[l].run].step = "answered"
  PROVE  RunsTold' /\ PagesAreWhole'
<1>1. /\ wire \in Seq(WireMessages) /\ wire' \in Seq(WireMessages)
      /\ Len(wire) \in Nat /\ Len(wire') \in Nat
      /\ 1 \in 1 .. Len(wire) /\ wire[1] = m /\ m \in WireMessages
      /\ \A k \in 1 .. Len(wire') : k + 1 \in 2 .. Len(wire) /\ wire'[k] = wire[k + 1]
      /\ \A l \in 2 .. Len(wire) : l \in 1 .. Len(wire) /\ l - 1 \in 1 .. Len(wire')
  BY WithoutFirst
<1>2. PICK place : /\ Among(wire', wire, Len(wire), place)
                   /\ \A k \in 1 .. Len(wire') : place[k] = k + 1
  BY WithoutFirst
<1>3. UNCHANGED <<main, sends, stored>> BY DEF Taken
<1>4. WireTells /\ EventsInOrder /\ RunsBegin /\ RunsTold /\ PagesAreWhole BY DEF ShownInv, RunsTold
<1>5. SaysWhere(m) BY <1>1, <1>4 DEF WireTells
<1>6. /\ runs.accepted \in [Submits -> Nat] /\ main.run \in Submits \cup {0}
      /\ \A i \in Submits : i # 0 /\ m.seq \in Nat
  BY <1>1, MainTyped, WindowTyped, MessagesTyped
<1>7. \A i \in Submits : runs'.accepted[i] = runs.accepted[i]
                         \/ (OfRun(m) /\ m.run = i /\ runs'.accepted[i] = m.seq)
  <2>1. CASE runs'.accepted = runs.accepted BY <2>1
  <2>2. CASE OfRun(m) /\ runs'.accepted = [runs.accepted EXCEPT ![m.run] = m.seq]
    <3>1. m.run \in Submits BY <1>5, <2>2 DEF SaysWhere
    <3> QED BY <1>6, <2>2, <3>1
  <2> QED BY <2>1, <2>2 DEF Learns
<1>8. RunsStand'
  <2>1. ASSUME main.run # 0 PROVE runs'.accepted[main.run] <= main.seq
    <3>1. main.run \in Submits /\ runs.accepted[main.run] <= main.seq
      BY <1>4, <1>6, <2>1 DEF RunsBegin
    <3>2. OfRun(m) /\ m.run = main.run => m.seq <= main.seq BY <1>5 DEF SaysWhere
    <3> QED BY <1>7, <3>1, <3>2
  <2>2. ASSUME NEW i \in Submits, sends[i].step \in {"none", "asked"}
        PROVE  runs'.accepted[i] = 0 /\ i \notin runs'.retired /\ runs'.active # i
    <3>1. runs.accepted[i] = 0 /\ i \notin runs.retired /\ runs.active # i /\ i # 0
      BY <1>4, <1>6, <2>2 DEF RunsBegin
    <3>2. ~(OfRun(m) /\ m.run = i) BY <1>5, <2>2 DEF SaysWhere
    <3> QED BY <1>7, <3>1, <3>2 DEF Learns
  <2> QED BY <1>3, <2>1, <2>2 DEF RunsStand
<1>9. \A k \in 1 .. Len(wire') : AcceptsOK(wire[k])'
  <2> SUFFICES ASSUME NEW k \in 1 .. Len(wire') PROVE AcceptsOK(wire[k])' OBVIOUS
  <2>0. PICK n \in WireMessages : n = wire'[k] BY <1>1
  <2>1. PICK l \in 2 .. Len(wire) : n = wire'[k] /\ n = wire[l] BY <1>1, <2>0
  <2>2. l \in 1 .. Len(wire) /\ 1 < l BY <1>1
  <2>3. SaysWhere(n) /\ Precedes(m, n) BY <1>1, <1>4, <2>1, <2>2 DEF WireTells, EventsInOrder
  <2>4. n.kind = "saved" => finishing'[n.run].step = "answered" BY <2>1
  <2>5. OfRun(n) => n.seq > runs'.accepted[n.run]
    <3> SUFFICES ASSUME OfRun(n) PROVE n.seq > runs'.accepted[n.run] OBVIOUS
    <3>1. n.run \in Submits /\ n.seq > runs.accepted[n.run] BY <2>3 DEF SaysWhere
    <3>2. OfRun(m) /\ m.run = n.run => m.seq < n.seq BY <2>3 DEF Precedes
    <3>3. n.seq \in Nat BY MessagesTyped
    <3> QED BY <1>6, <1>7, <3>1, <3>2, <3>3
  <2>6. AcceptsOK(n)' BY <2>4, <2>5 DEF AcceptsOK, OfRun
  <2> QED BY <2>1, <2>6 DEF AcceptsOK, OfRun
<1>10. RunsTold' BY <1>1, <1>2, <1>3, <1>4, <1>8, <1>9, ToldThins
<1>11. \A k \in 1 .. Len(wire') : \A l \in place[k] + 1 .. Len(wire) :
          \E j \in 1 .. Len(wire') : place[j] = l
  <2> SUFFICES ASSUME NEW k \in 1 .. Len(wire'), NEW l \in place[k] + 1 .. Len(wire)
               PROVE  \E j \in 1 .. Len(wire') : place[j] = l
    OBVIOUS
  <2>1. l \in 2 .. Len(wire) /\ (l - 1) + 1 = l BY <1>1, <1>2
  <2>2. l - 1 \in 1 .. Len(wire') BY <1>1, <2>1
  <2> QED BY <1>2, <2>1, <2>2
<1>12. PagesAreWhole' BY <1>1, <1>2, <1>3, <1>4, <1>11, PagesThin
<1> QED BY <1>10, <1>12

(* The run of the message is the only one that has anything to say. *)
LEMMA FirstSpeaks ==
  ASSUME ScreenInv, RunsTold, LatestSpeaks, NEW m, Taken(m), TellsOf(m, m.run),
         NEW i \in Submits, Speaks(i)
  PROVE  i = m.run /\ runs.active \in {0, m.run}
<1>1. 1 \in 1 .. Len(wire) /\ wire[1] = m BY WithoutFirst
<1>2. SaysWhere(m) BY <1>1 DEF RunsTold, WireTells
<1>3. m.run \in Submits BY <1>2 DEF SaysWhere, TellsOf
<1>4. Speaks(m.run) BY <1>1 DEF Speaks
<1> QED BY <1>3, <1>4, OneSpeaks DEF LatestSpeaks

LEMMA TakenSpeaks ==
  ASSUME ScreenInv, RunsTold, LatestSpeaks, NEW m, Taken(m), Learns(m)
  PROVE  LatestSpeaks'
<1>1. PICK place : Among(wire', wire, Len(wire), place) BY WithoutFirst
<1>2. \A i \in Submits : Speaks(i) => runs'.active \in {0, i}
  <2> SUFFICES ASSUME NEW i \in Submits, Speaks(i) PROVE runs'.active \in {0, i} OBVIOUS
  <2>1. CASE runs'.active \in {0, runs.active} BY <2>1 DEF LatestSpeaks
  <2>2. CASE OfRun(m) /\ runs'.active = m.run
    <3>1. TellsOf(m, m.run) BY <2>2 DEF TellsOf
    <3> QED BY <2>2, <3>1, FirstSpeaks
  <2> QED BY <2>1, <2>2 DEF Learns
<1> QED BY <1>1, <1>2, SpeaksThins DEF Taken

LEMMA TakenOver ==
  ASSUME ScreenInv, RetiredAreOver, NEW m, Taken(m),
         \A i \in runs'.retired : i \in runs.retired \/
            (main.run # i /\ \A l \in 2 .. Len(wire) : Answering(wire[l]) => wire[l].run # i)
  PROVE  RetiredAreOver'
<1>1. \A k \in 1 .. Len(wire') : /\ k + 1 \in 2 .. Len(wire) /\ wire'[k] = wire[k + 1]
                                 /\ k + 1 \in 1 .. Len(wire)
  BY WithoutFirst
<1> SUFFICES ASSUME NEW i \in runs'.retired
             PROVE  main'.run # i /\ \A k \in 1 .. Len(wire') : Answering(wire'[k]) => wire'[k].run # i
  BY DEF RetiredAreOver, Answering
<1>2. CASE i \in runs.retired BY <1>1, <1>2 DEF RetiredAreOver, Taken
<1>3. CASE main.run # i /\ \A l \in 2 .. Len(wire) : Answering(wire[l]) => wire[l].run # i
  BY <1>1, <1>3 DEF Taken
<1> QED BY <1>2, <1>3

(* What comes after the message still comes. *)
LEMMA RestComes ==
  ASSUME ScreenInv, NEW m, Taken(m), NEW a, ToCome(a, 0)
  PROVE  Announces(m, a) \/ ToCome(a, 0)'
<1>1. /\ Len(wire) \in Nat /\ 1 \in 1 .. Len(wire) /\ wire[1] = m /\ UNCHANGED main
      /\ \A l \in 2 .. Len(wire) : l - 1 \in 1 .. Len(wire') /\ wire'[l - 1] = wire[l]
  BY WithoutFirst DEF Taken
<1>2. CASE InMain(a) BY <1>1, <1>2 DEF ToCome, InMain
<1>3. ASSUME NEW l \in 0 + 1 .. Len(wire), Announces(wire[l], a), l # 1 PROVE ToCome(a, 0)'
  <2>1. l \in 2 .. Len(wire) BY <1>1, <1>3
  <2>2. l - 1 \in 0 + 1 .. Len(wire') /\ Announces(wire'[l - 1], a) BY <1>1, <1>3, <2>1
  <2>3. \E j \in 0 + 1 .. Len(wire') : Announces(wire'[j], a) BY <2>2
  <2> QED BY <2>3 DEF ToCome, Announces, Answering
<1> QED BY <1>1, <1>2, <1>3 DEF ToCome

LEMMA TakenComes ==
  ASSUME ScreenInv, AllCome, NEW m, Taken(m), screen'.talk = screen.talk,
         \A a : Lists(screen.messages, a) => Lists(screen'.messages, a),
         \A a \in Messages(screen.talk) : Announces(m, a) => Lists(screen'.messages, a),
         m.kind # "page" \/ m.talk # screen.talk, pages \subseteq pages'
  PROVE  AllCome'
<1>1. /\ Len(wire) \in Nat /\ wire[1] = m /\ UNCHANGED <<main, sends, stored>>
      /\ \A l \in 2 .. Len(wire) : l - 1 \in 1 .. Len(wire') /\ wire'[l - 1] = wire[l]
  BY WithoutFirst DEF Taken
<1> SUFFICES ASSUME NEW a \in Messages(screen.talk)
             PROVE  Lists(screen'.messages, a) \/ ToCome(a, 0)' \/ PageComes'
  BY <1>1 DEF AllCome, Messages, Lists
<1>2. CASE Lists(screen.messages, a) BY <1>2
<1>3. CASE ToCome(a, 0) BY <1>3, RestComes
<1>4. ASSUME PageComes PROVE PageComes'
  <2>1. ASSUME NEW p \in pages, p.talk = screen.talk PROVE PageComes' BY <2>1 DEF PageComes
  <2>2. ASSUME NEW k \in 1 .. Len(wire), wire[k].kind = "page", wire[k].talk = screen.talk
        PROVE  PageComes'
    <3>1. k # 1 BY <1>1, <2>2
    <3>2. k \in 2 .. Len(wire) BY <1>1, <3>1
    <3> QED BY <1>1, <2>2, <3>2 DEF PageComes
  <2> QED BY <1>4, <2>1, <2>2 DEF PageComes
<1> QED BY <1>2, <1>3, <1>4 DEF AllCome

LEMMA TakenShows ==
  ASSUME ScreenInv, ShownInv, NEW m, Taken(m), Learns(m),
         \A l \in 2 .. Len(wire) : wire[l].kind = "saved" =>
            finishing'[wire[l].run].step = "answered",
         ~runs.overlap => \A i \in runs'.retired : i \in runs.retired \/
            (main.run # i /\ \A l \in 2 .. Len(wire) : Answering(wire[l]) => wire[l].run # i),
         ~runs.overlap => AllCome'
  PROVE  ShownInv'
<1>1. RunsTold' /\ PagesAreWhole' BY TakenTold
<1>2. ASSUME ~runs'.overlap PROVE (LatestSpeaks /\ RetiredAreOver /\ AllCome)'
  <2>1. ~runs.overlap BY <1>2 DEF Learns
  <2>2. RunsTold /\ LatestSpeaks /\ RetiredAreOver BY <2>1 DEF ShownInv
  <2> QED BY <2>1, <2>2, TakenSpeaks, TakenOver
<1> QED BY <1>1, <1>2 DEF ShownInv

(* What each way of noting a message does. *)
LEMMA NotedAre ==
  ASSUME ScreenInv, NEW m, m.run \in Submits, m.seq \in Nat
  PROVE  LET accepted == [runs.accepted EXCEPT ![m.run] = m.seq] IN
         /\ Noted(m).accepted = accepted /\ Adopted(m).accepted = accepted
         /\ Noted(m).active = runs.active
         /\ Adopted(m).active = IF runs.active = 0 THEN m.run ELSE runs.active
         /\ Noted(m).overlap = runs.overlap /\ Adopted(m).overlap = runs.overlap
<1>1. PICK accepted : accepted = [runs.accepted EXCEPT ![m.run] = m.seq] OBVIOUS
<1>2. PICK n : n = Noted(m) OBVIOUS
<1>3. runs \in RunStates /\ n \in RunStates BY <1>2, NotedTyped, WindowTyped
<1>4. n = [runs EXCEPT !.accepted = accepted] BY <1>1, <1>2 DEF Noted
<1>5. /\ n.accepted = accepted /\ n.active = runs.active /\ n.overlap = runs.overlap
  BY <1>3, <1>4 DEF RunStates
<1>6. Adopted(m) = [n EXCEPT !.active = IF runs.active = 0 THEN m.run ELSE n.active]
  BY <1>2 DEF Adopted
<1>7. /\ Adopted(m).accepted = accepted /\ Adopted(m).overlap = runs.overlap
      /\ Adopted(m).active = IF runs.active = 0 THEN m.run ELSE runs.active
  BY <1>3, <1>5, <1>6 DEF RunStates
<1> QED BY <1>1, <1>2, <1>5, <1>7

LEMMA RetiredToo ==
  ASSUME NEW r \in RunStates, NEW run, NEW next, next = [r EXCEPT !.retired = @ \cup {run}]
  PROVE  /\ next.accepted = r.accepted /\ next.active = r.active /\ next.overlap = r.overlap
         /\ next.retired = r.retired \cup {run}
BY DEF RunStates

LEMMA NotedLearns ==
  ASSUME ScreenInv, NEW m \in WireMessages, OfRun(m),
         runs' \in {runs, Noted(m), Adopted(m)}
  PROVE  Learns(m) /\ runs'.retired = runs.retired
<1>1. m.run \in Submits /\ m.seq \in Nat BY MessagesTyped DEF OfRun
<1>2. runs \in RunStates BY WindowTyped
<1>3. runs'.retired = runs.retired BY <1>1, NotedTyped
<1>4. runs'.overlap = runs.overlap BY <1>1, NotedAre
<1>5. runs'.accepted = runs.accepted \/ runs'.accepted = [runs.accepted EXCEPT ![m.run] = m.seq]
  BY <1>1, NotedAre
<1>6. runs'.active \in {runs.active, m.run} BY <1>1, NotedAre, ZenonT(30)
<1> QED BY <1>3, <1>4, <1>5, <1>6 DEF Learns

LEMMA RetiringIs ==
  ASSUME ScreenInv
  PROVE  /\ Retiring.accepted = runs.accepted /\ Retiring.active = 0
         /\ Retiring.overlap = runs.overlap
         /\ Retiring.retired = runs.retired \cup ({runs.active} \ {0})
BY WindowTyped, RetiringTyped DEF Retiring, RunStates

(* The replies that the window waits for on the rest of the queue: their turns    *)
(* are as they were. *)
LEMMA SavesKnown ==
  ASSUME ScreenInv, RunsTold, NEW m, Taken(m), NEW l \in 2 .. Len(wire), wire[l].kind = "saved"
  PROVE  wire[l].run \in Submits /\ finishing[wire[l].run].step = "answered"
<1>1. l \in 1 .. Len(wire) /\ wire[l] \in WireMessages BY WithoutFirst
<1>2. SaysWhere(wire[l]) BY <1>1 DEF RunsTold, WireTells
<1> QED BY <1>1, <1>2, MessagesTyped DEF SaysWhere

(* A message that shows nothing and ends no turn. *)
LEMMA PassingShows ==
  ASSUME ScreenInv, ShownInv, NEW m, Taken(m), Learns(m), runs'.retired = runs.retired,
         m.kind \in {"status", "delta", "refused"}, UNCHANGED finishing, pages \subseteq pages',
         screen'.talk = screen.talk, screen'.messages = screen.messages
  PROVE  ShownInv'
<1>1. \A l \in 2 .. Len(wire) : wire[l].kind = "saved" => finishing'[wire[l].run].step = "answered"
  BY SavesKnown DEF ShownInv
<1>2. \A a : ~Announces(m, a) BY DEF Announces, Answering
<1>3. ASSUME ~runs.overlap PROVE AllCome'
  <2>1. AllCome BY <1>3 DEF ShownInv
  <2>2. \A a : Lists(screen.messages, a) => Lists(screen'.messages, a) BY DEF Lists
  <2> QED BY <1>2, <2>1, <2>2, TakenComes
<1> QED BY <1>1, <1>3, TakenShows

LEMMA StatusShows ==
  ASSUME ScreenInv, ShownInv, NEW m, Taken(m), StatusArrives(m)
  PROVE  ShownInv'
<1>1. m \in WireMessages BY WithoutFirst
<1>2. runs' \in {runs, Noted(m), Adopted(m)} /\ m.kind = "status" /\ UNCHANGED <<finishing, pages>>
  BY DEF StatusArrives
<1>3. Learns(m) /\ runs'.retired = runs.retired BY <1>1, <1>2, NotedLearns DEF OfRun
<1>4. screen'.talk = screen.talk /\ screen'.messages = screen.messages
  BY WindowTyped DEF StatusArrives, Screens
<1> QED BY <1>2, <1>3, <1>4, PassingShows

LEMMA DeltaArrivesShows ==
  ASSUME ScreenInv, ShownInv, NEW m, Taken(m), DeltaArrives(m)
  PROVE  ShownInv'
<1>1. m \in WireMessages BY WithoutFirst
<1>2. runs' \in {runs, Noted(m), Adopted(m)} /\ m.kind = "delta" /\ UNCHANGED <<screen, finishing, pages>>
  BY DEF DeltaArrives
<1>3. Learns(m) /\ runs'.retired = runs.retired BY <1>1, <1>2, NotedLearns DEF OfRun
<1> QED BY <1>2, <1>3, PassingShows

LEMMA CancelRefusedShows ==
  ASSUME ScreenInv, ShownInv, NEW m, Taken(m), CancelRefused(m)
  PROVE  ShownInv'
<1>1. m.kind = "refused" /\ UNCHANGED <<runs, finishing, pages>> BY DEF CancelRefused
<1>2. Learns(m) BY <1>1 DEF Learns
<1>3. screen'.talk = screen.talk /\ screen'.messages = screen.messages
  BY WindowTyped DEF CancelRefused, Screens
<1> QED BY <1>1, <1>2, <1>3, PassingShows

(* The run that a refused submit leaves behind has said all it had to. *)
LEMMA SendRefusedShows ==
  ASSUME ScreenInv, ShownInv, NEW m, Taken(m), SendRefused(m)
  PROVE  ShownInv'
<1>1. /\ m.kind = "refused" /\ m.what = "send" /\ runs' = Retiring /\ UNCHANGED finishing
      /\ pages \subseteq pages'
  BY DEF SendRefused
<1>2. screen'.talk = screen.talk /\ screen'.messages = screen.messages
  BY WindowTyped DEF SendRefused, Screens
<1>3. Learns(m) BY <1>1, RetiringIs DEF Learns
<1>4. RunsTold BY DEF ShownInv
<1>5. \A l \in 2 .. Len(wire) : wire[l].kind = "saved" => finishing'[wire[l].run].step = "answered"
  BY <1>1, <1>4, SavesKnown
<1>6. ASSUME ~runs.overlap, NEW i \in runs'.retired, i \notin runs.retired
      PROVE  main.run # i /\ \A l \in 2 .. Len(wire) : Answering(wire[l]) => wire[l].run # i
  <2>1. LatestSpeaks BY <1>6 DEF ShownInv
  <2>2. i \in Submits BY <1>1, RetiringTyped DEF RunStates
  <2>3. TellsOf(m, m.run) /\ Refuses(m) BY <1>1 DEF TellsOf, Refuses
  <2>4. 1 \in 1 .. Len(wire) /\ wire[1] = m /\ \A l \in 2 .. Len(wire) : l \in 1 .. Len(wire)
    BY WithoutFirst
  <2>5. m.run \in Submits /\ NoAnswer(m.run) BY <1>4, <2>3, <2>4 DEF RunsTold, WireTells, SaysWhere
  <2>6. Speaks(i) => i = m.run BY <1>4, <2>1, <2>2, <2>3, FirstSpeaks
  <2>7. main.run # i BY <2>5, <2>6 DEF Speaks, NoAnswer
  <2>8. ASSUME NEW l \in 2 .. Len(wire), Answering(wire[l]), wire[l].run = i PROVE FALSE
    <3>1. l \in 1 .. Len(wire) /\ TellsOf(wire[l], i) BY <2>4, <2>8 DEF TellsOf, OfRun, Answering
    <3>2. Speaks(i) BY <3>1 DEF Speaks
    <3>3. SaysTrue(wire[l]) BY <3>1 DEF ScreenInv, WireIsTrue
    <3> QED BY <2>5, <2>6, <2>8, <3>2, <3>3 DEF SaysTrue, Answering, NoAnswer
  <2> QED BY <2>7, <2>8
<1>7. ASSUME ~runs.overlap PROVE AllCome'
  <2>1. AllCome BY <1>7 DEF ShownInv
  <2>2. \A a : ~Announces(m, a) BY <1>1 DEF Announces, Answering
  <2>3. \A a : Lists(screen.messages, a) => Lists(screen'.messages, a) BY <1>2 DEF Lists
  <2> QED BY <1>1, <1>2, <2>1, <2>2, <2>3, TakenComes
<1> QED BY <1>3, <1>5, <1>6, <1>7, TakenShows

LEMMA PageTakenShows ==
  ASSUME ScreenInv, ShownInv, NEW m, Taken(m), PageTaken(m)
  PROVE  ShownInv'
<1>1. /\ m.kind = "page" /\ UNCHANGED <<runs, pages, finishing>>
      /\ screen' = IF screen.talk = m.talk THEN [screen EXCEPT !.messages = m.what] ELSE screen
  BY DEF PageTaken
<1>2. Learns(m) /\ runs'.retired = runs.retired BY <1>1 DEF Learns
<1>3. \A l \in 2 .. Len(wire) : wire[l].kind = "saved" => finishing'[wire[l].run].step = "answered"
  BY <1>1, SavesKnown DEF ShownInv
<1>4. ASSUME ~runs.overlap PROVE AllCome'
  <2>1. AllCome /\ PagesAreWhole BY <1>4 DEF ShownInv
  <2>2. CASE screen.talk # m.talk
    <3>1. screen' = screen BY <1>1, <2>2
    <3>2. \A a : ~Announces(m, a) BY <1>1 DEF Announces, Answering
    <3> QED BY <1>1, <2>1, <2>2, <3>1, <3>2, TakenComes
  <2>3. CASE screen.talk = m.talk
    <3>1. screen'.messages = m.what /\ screen'.talk = m.talk BY <1>1, <2>3, WindowTyped DEF Screens
    <3>2. /\ 1 \in 1 .. Len(wire) /\ wire[1] = m /\ Len(wire) \in Nat
          /\ UNCHANGED <<main, sends, stored>>
      BY WithoutFirst DEF Taken
    <3> SUFFICES ASSUME NEW a \in Messages(m.talk)
                 PROVE  Lists(m.what, a) \/ ToCome(a, 0)'
      BY <3>1, <3>2 DEF AllCome, Messages, Lists
    <3>3. Lists(m.what, a) \/ ToCome(a, 1) BY <1>1, <2>1, <3>2 DEF PagesAreWhole
    <3>4. ASSUME ToCome(a, 1) PROVE ToCome(a, 0)
      <4>1. \A l \in 1 + 1 .. Len(wire) : l \in 0 + 1 .. Len(wire) BY <3>2
      <4> QED BY <3>4, <4>1 DEF ToCome
    <3>5. ~Announces(m, a) BY <1>1 DEF Announces, Answering
    <3> QED BY <3>3, <3>4, <3>5, RestComes
  <2> QED BY <2>2, <2>3
<1> QED BY <1>2, <1>3, <1>4, TakenShows

(* The answer that the window has saved is added to the screen of its conversation. *)
LEMMA SavedShows ==
  ASSUME ScreenInv, ShownInv, NEW m, Taken(m), SavedShown(m)
  PROVE  ShownInv'
<1>1. m.kind = "saved" /\ UNCHANGED <<runs, pages>> BY DEF SavedShown
<1>2. /\ 1 \in 1 .. Len(wire) /\ wire[1] = m /\ m \in WireMessages /\ m = Head(wire) /\ wire # <<>>
  BY WithoutFirst DEF Taken
<1>3. RunsTold BY DEF ShownInv
<1>4. m.run \in Submits /\ finishing[m.run].step = "answered"
  BY <1>1, <1>2, <1>3, MessagesTyped DEF RunsTold, WireTells, SaysWhere
<1> DEFINE new == <<m.run, "window">>
           old == screen.messages
           more == IF screen.talk = sends[m.run].talk THEN Append(old, new) ELSE old
<1>5. /\ screen' = [screen EXCEPT !.stream = <<>>, !.messages = more]
      /\ finishing' = [finishing EXCEPT ![m.run].step = "refreshing"]
  BY <1>4 DEF SavedShown
<1>6. \A j \in Submits : j # m.run => finishing'[j] = finishing[j] BY <1>4, <1>5, WindowTyped
<1>7. \A l \in 2 .. Len(wire) : wire[l].kind = "saved" => finishing'[wire[l].run].step = "answered"
  <2> SUFFICES ASSUME NEW l \in 2 .. Len(wire), wire[l].kind = "saved"
               PROVE  finishing'[wire[l].run].step = "answered"
    OBVIOUS
  <2>1. wire[l].run \in Submits /\ finishing[wire[l].run].step = "answered" BY <1>3, SavesKnown
  <2>2. ComesBefore(m, wire[l]) BY <1>2, HeadTyped
  <2> QED BY <1>1, <1>6, <2>1, <2>2 DEF ComesBefore
<1>8. Learns(m) /\ runs'.retired = runs.retired BY <1>1 DEF Learns
<1>9. screen'.talk = screen.talk /\ screen'.messages = more
  <2> HIDE DEF more
  <2> QED BY <1>5, WindowTyped DEF Screens
<1>10. (\A a : Lists(old, a) => Lists(more, a)) /\ (screen.talk = sends[m.run].talk => Lists(more, new))
  <2> HIDE DEF new
  <2>1. old \in Seq(Answers) /\ Len(old) \in Nat BY WindowTyped
  <2>2. new \in Answers BY <1>4 DEF Answers, new
  <2>3. PICK longer : longer = Append(old, new) OBVIOUS
  <2>4. /\ Len(longer) = Len(old) + 1 /\ longer[Len(old) + 1] = new
        /\ \A i \in 1 .. Len(old) : longer[i] = old[i]
    BY <2>1, <2>2, <2>3
  <2>5. /\ Len(old) + 1 \in 1 .. Len(longer) /\ \A i \in 1 .. Len(old) : i \in 1 .. Len(longer)
    BY <2>1, <2>4
  <2>6. Lists(longer, new) /\ \A a : Lists(old, a) => Lists(longer, a) BY <2>4, <2>5 DEF Lists
  <2> QED BY <2>3, <2>6
<1>11. ASSUME NEW a \in Messages(screen.talk), Announces(m, a) PROVE Lists(more, a)
  <2>1. a \in Answers /\ a[1] = m.run /\ a[2] = "window"
    BY <1>1, <1>11, MainTyped DEF Announces, Answering, Messages
  <2>2. a = new BY <2>1 DEF Answers
  <2>3. sends[m.run].talk = screen.talk BY <1>11, <2>1 DEF Messages
  <2> QED BY <1>10, <2>2, <2>3
<1>12. ASSUME ~runs.overlap PROVE AllCome'
  <2>1. AllCome BY <1>12 DEF ShownInv
  <2> HIDE DEF more
  <2> QED BY <1>1, <1>9, <1>10, <1>11, <2>1, TakenComes
<1> QED BY <1>7, <1>8, <1>12, TakenShows

LEMMA ShownLists ==
  ASSUME ScreenInv, NEW b \in Answers, NEW talk
  PROVE  /\ screen.talk = talk => Lists(Shown(talk, b), b)
         /\ \A a : Lists(screen.messages, a) => Lists(Shown(talk, b), a)
<1> DEFINE old == screen.messages
<1>1. old \in Seq(Answers) /\ Len(old) \in Nat /\ DOMAIN old = 1 .. Len(old) BY WindowTyped
<1>2. CASE Shown(talk, b) = old /\ (screen.talk # talk \/ \E i \in DOMAIN old : old[i] = b)
  BY <1>1, <1>2 DEF Lists
<1>3. CASE Shown(talk, b) = Append(old, b)
  <2>1. PICK longer : longer = Append(old, b) OBVIOUS
  <2>2. /\ Len(longer) = Len(old) + 1 /\ longer[Len(old) + 1] = b
        /\ \A i \in 1 .. Len(old) : longer[i] = old[i]
    BY <1>1, <2>1
  <2>3. /\ Len(old) + 1 \in 1 .. Len(longer) /\ \A i \in 1 .. Len(old) : i \in 1 .. Len(longer)
    BY <1>1, <2>2
  <2>4. Lists(longer, b) /\ \A a : Lists(old, a) => Lists(longer, a) BY <2>2, <2>3 DEF Lists
  <2> QED BY <1>3, <2>1, <2>4
<1> QED BY <1>2, <1>3 DEF Shown

(* The end of a run is the last that is said of it, and main has left it. *)
LEMMA CompletedIsLast ==
  ASSUME ScreenInv, ShownInv, NEW m, Taken(m), m.kind = "completed"
  PROVE  /\ m.run \in Submits /\ m.seq \in Nat /\ m.seq > runs.accepted[m.run]
         /\ m.talk = sends[m.run].talk /\ main.run # m.run
         /\ \A l \in 2 .. Len(wire) : Answering(wire[l]) => wire[l].run # m.run
         /\ m.what = 1 => <<m.run, "main">> \in stored
<1>1. /\ 1 \in 1 .. Len(wire) /\ wire[1] = m /\ m \in WireMessages /\ Len(wire) \in Nat
  BY WithoutFirst
<1>2. WireTells /\ EventsInOrder BY DEF ShownInv, RunsTold
<1>3. SaysWhere(m) /\ m.seq \in Nat /\ OfRun(m) BY <1>1, <1>2, MessagesTyped DEF WireTells, OfRun
<1>4. SaysTrue(m) BY <1>1 DEF ScreenInv, WireIsTrue
<1>5. ASSUME NEW l \in 2 .. Len(wire), Answering(wire[l]) PROVE wire[l].run # m.run
  <2>1. l \in 1 .. Len(wire) /\ 1 < l BY <1>1
  <2>2. Precedes(wire[1], wire[l]) BY <1>1, <1>2, <2>1 DEF EventsInOrder
  <2> QED BY <1>1, <1>3, <1>5, <2>2 DEF Precedes, Answering, OfRun
<1> QED BY <1>3, <1>4, <1>5 DEF SaysWhere, SaysTrue

(* What an answer that is announced here is. *)
LEMMA AnnouncedHere ==
  ASSUME ScreenInv, ShownInv, NEW m, Taken(m), m.kind = "completed",
         NEW a \in Messages(screen.talk), Announces(m, a)
  PROVE  a = <<m.run, "main">> /\ m.what = 1 /\ m.talk = screen.talk /\ a \in Answers
<1>1. a \in Answers /\ a[1] = m.run /\ a[2] = "main" /\ m.what = 1
  BY MainTyped DEF Announces, Answering, Messages
<1>2. sends[m.run].talk = screen.talk BY <1>1 DEF Messages
<1> QED BY <1>1, <1>2, CompletedIsLast DEF Answers

LEMMA FinishTurnShows ==
  ASSUME ScreenInv, ShownInv, NEW m, Taken(m), m.kind = "completed", Fresh(m), Ours(m),
         FinishTurn(m), UNCHANGED <<turn, pages>>
  PROVE  ShownInv'
<1>1. /\ m.run \in Submits /\ m.seq \in Nat /\ main.run # m.run
      /\ \A l \in 2 .. Len(wire) : Answering(wire[l]) => wire[l].run # m.run
  BY CompletedIsLast
<1>2. m \in WireMessages BY WithoutFirst
<1>3. PICK r : r = Adopted(m) OBVIOUS
<1>4. /\ r \in RunStates /\ r.retired = runs.retired /\ r.overlap = runs.overlap
      /\ r.accepted = [runs.accepted EXCEPT ![m.run] = m.seq]
      /\ r.active = IF runs.active = 0 THEN m.run ELSE runs.active
  BY <1>1, <1>3, NotedAre, NotedTyped
<1>5. /\ runs'.accepted = r.accepted /\ runs'.active = r.active /\ runs'.overlap = r.overlap
      /\ runs'.retired = r.retired \cup {m.run}
  <2>1. runs' = [r EXCEPT !.retired = @ \cup {m.run}] BY <1>3 DEF FinishTurn
  <2> QED BY <1>4, <2>1, RetiredToo
<1>6. Learns(m) BY <1>4, <1>5 DEF Learns, OfRun
<1>7. \A j \in Submits : j # m.run => finishing'[j] = finishing[j]
  <2>1. \E step : finishing' = [finishing EXCEPT ![m.run] = [step |-> step, turn |-> turn.id]]
    BY DEF FinishTurn
  <2> QED BY <2>1, WindowTyped
<1>8. \A l \in 2 .. Len(wire) : wire[l].kind = "saved" => finishing'[wire[l].run].step = "answered"
  <2> SUFFICES ASSUME NEW l \in 2 .. Len(wire), wire[l].kind = "saved"
               PROVE  finishing'[wire[l].run].step = "answered"
    OBVIOUS
  <2>1. wire[l].run \in Submits /\ finishing[wire[l].run].step = "answered"
    BY SavesKnown DEF ShownInv
  <2>2. wire[l].run \in runs.retired BY <2>1 DEF ScreenInv, WindowWrites
  <2>3. wire[l].run # m.run BY <2>2 DEF Fresh
  <2> QED BY <1>7, <2>1, <2>3
<1>9. ASSUME ~runs.overlap PROVE AllCome'
  <2>1. AllCome BY <1>9 DEF ShownInv
  <2> DEFINE new == <<m.run, "main">>
             messages == IF m.what = 1 THEN Shown(turn.talk, new) ELSE screen.messages
  <2>2. screen'.talk = screen.talk /\ screen'.messages = messages
    <3>1. CASE m.what = 1
      <4>1. screen' = [screen EXCEPT !.finalizing = TRUE, !.stream = <<>>, !.messages = messages]
        BY <3>1 DEF FinishTurn
      <4> HIDE DEF messages
      <4> QED BY <4>1, WindowTyped DEF Screens
    <3>2. CASE m.what # 1
      <4>1. PICK text \in {screen.stream \o buffer, <<>>} :
                 screen' = [screen EXCEPT !.finalizing = TRUE, !.stream = text]
        BY <3>2 DEF FinishTurn
      <4> QED BY <3>2, <4>1, WindowTyped DEF Screens
    <3> QED BY <3>1, <3>2
  <2>3. new \in Answers BY <1>1 DEF Answers
  <2>4. \A a : Lists(screen.messages, a) => Lists(messages, a)
    <3> HIDE DEF new
    <3> QED BY <2>3, ShownLists
  <2>5. ASSUME NEW a \in Messages(screen.talk), Announces(m, a) PROVE Lists(messages, a)
    <3>1. a = new /\ m.what = 1 /\ m.talk = screen.talk BY <2>5, AnnouncedHere
    <3>2. turn.talk = screen.talk BY <3>1 DEF Ours
    <3> HIDE DEF new
    <3> QED BY <2>3, <3>1, <3>2, ShownLists
  <2> HIDE DEF messages
  <2> QED BY <2>1, <2>2, <2>4, <2>5, TakenComes
<1> QED BY <1>1, <1>4, <1>5, <1>6, <1>8, <1>9, TakenShows

LEMMA ElsewhereShows ==
  ASSUME ScreenInv, ShownInv, NEW m, Taken(m), m.kind = "completed", CompletedElsewhere(m),
         UNCHANGED <<turn, pages>>
  PROVE  ShownInv'
<1>1. /\ m.run \in Submits /\ m.seq \in Nat /\ main.run # m.run
      /\ \A l \in 2 .. Len(wire) : Answering(wire[l]) => wire[l].run # m.run
  BY CompletedIsLast
<1>2. PICK r : r = Noted(m) OBVIOUS
<1>3. /\ r \in RunStates /\ r.retired = runs.retired /\ r.overlap = runs.overlap
      /\ r.accepted = [runs.accepted EXCEPT ![m.run] = m.seq] /\ r.active = runs.active
  BY <1>1, <1>2, NotedAre, NotedTyped
<1>4. /\ runs'.accepted = r.accepted /\ runs'.active = r.active /\ runs'.overlap = r.overlap
      /\ runs'.retired = r.retired \cup {m.run}
  <2>1. runs' = [r EXCEPT !.retired = @ \cup {m.run}] BY <1>2 DEF CompletedElsewhere
  <2> QED BY <1>3, <2>1, RetiredToo
<1>5. Learns(m) BY <1>3, <1>4 DEF Learns, OfRun
<1>6. \A l \in 2 .. Len(wire) : wire[l].kind = "saved" => finishing'[wire[l].run].step = "answered"
  BY SavesKnown DEF ShownInv, CompletedElsewhere
<1>7. ASSUME ~runs.overlap PROVE AllCome'
  <2>1. AllCome BY <1>7 DEF ShownInv
  <2> DEFINE new == <<m.run, "main">>
             messages == IF m.what = 1 THEN Shown(m.talk, new) ELSE screen.messages
  <2>2. screen'.talk = screen.talk /\ screen'.messages = messages
    <3>1. CASE m.what = 1 /\ screen' = [screen EXCEPT !.messages = messages, !.stream = <<>>]
      <4> HIDE DEF messages
      <4> QED BY <3>1, WindowTyped DEF Screens
    <3>2. CASE screen' = screen /\ messages = screen.messages BY <3>2
    <3> QED BY <3>1, <3>2 DEF CompletedElsewhere
  <2>3. new \in Answers BY <1>1 DEF Answers
  <2>4. \A a : Lists(screen.messages, a) => Lists(messages, a)
    <3> HIDE DEF new
    <3> QED BY <2>3, ShownLists
  <2>5. ASSUME NEW a \in Messages(screen.talk), Announces(m, a) PROVE Lists(messages, a)
    <3>1. a = new /\ m.what = 1 /\ m.talk = screen.talk BY <2>5, AnnouncedHere
    <3> HIDE DEF new
    <3> QED BY <2>3, <3>1, ShownLists
  <2> HIDE DEF messages
  <2> QED BY <2>1, <2>2, <2>4, <2>5, TakenComes
<1> QED BY <1>1, <1>3, <1>4, <1>5, <1>6, <1>7, TakenShows

(* Without overlap no answer is passed over: a run that the window retired has    *)
(* none to come, and no other run stands in the way of one that has. *)
LEMMA CompletedShows ==
  ASSUME ScreenInv, ShownInv, NEW m, Taken(m), CompletedArrives(m)
  PROVE  ShownInv'
<1>1. m.kind = "completed" /\ UNCHANGED <<turn, pages>> BY DEF CompletedArrives
<1>2. m.run \in Submits /\ m.seq > runs.accepted[m.run] BY <1>1, CompletedIsLast
<1>3. m \in WireMessages BY WithoutFirst
<1>4. CASE Fresh(m) /\ Ours(m) /\ FinishTurn(m) BY <1>1, <1>4, FinishTurnShows
<1>5. CASE CompletedElsewhere(m) BY <1>1, <1>5, ElsewhereShows
<1>6. ASSUME runs' \in {runs, Noted(m)}, UNCHANGED <<screen, finishing>>,
             ~Fresh(m) \/ (turn # NoTurn /\ m.talk = turn.talk /\ ~Ours(m))
      PROVE  ShownInv'
  <2>1. Learns(m) /\ runs'.retired = runs.retired
    BY <1>1, <1>3, <1>6, NotedLearns DEF OfRun
  <2>2. \A l \in 2 .. Len(wire) : wire[l].kind = "saved" => finishing'[wire[l].run].step = "answered"
    BY <1>6, SavesKnown DEF ShownInv
  <2>3. ASSUME ~runs.overlap PROVE AllCome'
    <3>1. AllCome /\ RetiredAreOver /\ LatestSpeaks BY <2>3 DEF ShownInv
    <3>2. 1 \in 1 .. Len(wire) /\ wire[1] = m BY WithoutFirst
    <3>3. runs.active \in {0, m.run}
      <4>1. TellsOf(m, m.run) BY <1>1 DEF TellsOf, OfRun
      <4>2. Speaks(m.run) BY <3>2, <4>1 DEF Speaks
      <4> QED BY <1>2, <3>1, <4>2 DEF LatestSpeaks
    <3>4. ~Fresh(m) BY <1>6, <3>3 DEF Ours
    <3>5. m.run \in runs.retired BY <1>2, <3>4 DEF Fresh
    <3>6. ~Answering(m) BY <3>1, <3>2, <3>5 DEF RetiredAreOver
    <3>7. \A a : ~Announces(m, a) BY <1>1, <3>6 DEF Announces
    <3>8. screen'.talk = screen.talk /\ \A a : Lists(screen.messages, a) => Lists(screen'.messages, a)
      BY <1>6
    <3> QED BY <1>1, <3>1, <3>7, <3>8, TakenComes
  <2> QED BY <2>1, <2>2, <2>3, TakenShows
<1>7. \/ Fresh(m) /\ Ours(m) /\ FinishTurn(m)
      \/ CompletedElsewhere(m)
      \/ /\ runs' \in {runs, Noted(m)} /\ UNCHANGED <<screen, finishing>>
         /\ ~Fresh(m) \/ (turn # NoTurn /\ m.talk = turn.talk /\ ~Ours(m))
  BY DEF CompletedArrives
<1> QED BY <1>4, <1>5, <1>6, <1>7

LEMMA ArrivesShows ==
  ASSUME ScreenInv, ShownInv, Arrives
  PROVE  ShownInv'
<1>1. PICK m : m = Head(wire) OBVIOUS
<1>2. Taken(m) BY <1>1 DEF Arrives, Taken
<1>3. \/ StatusArrives(m) \/ DeltaArrives(m) \/ CompletedArrives(m)
      \/ SendRefused(m) \/ CancelRefused(m) \/ PageTaken(m) \/ SavedShown(m)
  BY <1>1 DEF Arrives
<1> QED BY <1>2, <1>3, StatusShows, DeltaArrivesShows, CompletedShows, SendRefusedShows,
           CancelRefusedShows, PageTakenShows, SavedShows

-----------------------------------------------------------------------------
LEMMA ShownInitially ==
  ASSUME RunInit
  PROVE  ShownInv
<1> USE DEF RunInit, Idle, NoTurn
<1>1. Len(wire) = 0 /\ main.run = 0 /\ stored = {} /\ \A i \in Submits : i \in Nat /\ i # 0
  BY DEF Submits
<1>2. \A i \in Submits : sends[i].step = "none" /\ runs.accepted[i] = 0 OBVIOUS
<1>3. runs.active = 0 /\ runs.retired = {} OBVIOUS
<1>4. RunsTold
  <2>1. WireTells /\ EventsInOrder BY <1>1 DEF WireTells, EventsInOrder
  <2> QED BY <1>1, <1>2, <1>3, <2>1 DEF RunsTold, RunsBegin
<1>5. PagesAreWhole BY <1>1 DEF PagesAreWhole
<1>6. LatestSpeaks BY <1>1, <1>2 DEF LatestSpeaks, Speaks
<1>7. RetiredAreOver BY <1>3 DEF RetiredAreOver
<1>8. AllCome BY <1>1 DEF AllCome, Messages
<1> QED BY <1>4, <1>5, <1>6, <1>7, <1>8 DEF ShownInv

LEMMA ShownStep ==
  ASSUME MaxSubmits \in Nat, MaxDeltas \in Nat, ScreenInv, ShownInv, [RunNext]_runVars
  PROVE  ShownInv'
<1>0. ScreenInv' BY ScreenStep
<1>1. CASE UNCHANGED runVars
  <2>1. UNCHANGED <<main, wire, sends, cancels, stored, screen, buffer, turn, runs, finishing,
                    pages>>
    BY <1>1 DEF runVars
  <2> QED BY <2>1, QuietShows
<1>2. CASE MainSteps
  <2>1. CASE Finished BY <1>0, <2>1, FinishedShows
  <2>2. ASSUME NEW o \in {"completed", "failed", "ready"}, NEW saved \in BOOLEAN,
               Finishes(o, saved)
        PROVE ShownInv'
    BY <1>0, <2>2, FinishesShows DEF Outcomes
  <2>3. ASSUME NEW i \in Submits,
               Reserve(i) \/ Refuse(i) \/ Started(i) \/ StartFails(i) \/ SaveAnswer(i)
        PROVE ShownInv'
    BY <1>0, <2>3, ReserveShows, RefuseShows, StartedShows, StartFailsShows, SaveAnswerShows
  <2>4. ASSUME NEW c \in Talks, MainCancels(c) PROVE ShownInv' BY <1>0, <2>4, MainCancelsShows
  <2>5. ASSUME NEW p \in pages, PageRead(p) PROVE ShownInv' BY <1>0, <2>5, PageReadShows
  <2> QED BY <1>2, <2>1, <2>2, <2>3, <2>4, <2>5 DEF MainSteps
<1>3. CASE Delta BY <1>0, <1>3, DeltaShows
<1>4. CASE WindowSteps BY <1>4, ArrivesShows, FlushShows, TurnEndShows DEF WindowSteps
<1>5. CASE UserSteps BY <1>0, <1>5, CancelShows, SubmitShows, OpenShows DEF UserSteps
<1> QED BY <1>1, <1>2, <1>3, <1>4, <1>5 DEF RunNext

LEMMA ShownInvSuffices == ScreenInv /\ ShownInv => AnswersShown
<1> SUFFICES ASSUME ScreenInv, ShownInv, Quiet, ~runs.overlap, NEW a \in Messages(screen.talk)
             PROVE  \E i \in DOMAIN screen.messages : screen.messages[i] = a
  BY DEF AnswersShown
<1>1. main.run = 0 /\ Len(wire) = 0 /\ pages = {} BY DEF Quiet, AllOver, Idle
<1>2. Lists(screen.messages, a) \/ ToCome(a, 0) \/ PageComes BY DEF ShownInv, AllCome
<1>3. a[1] # 0
  <2>1. a \in Answers BY MainTyped DEF Messages
  <2> QED BY <2>1, MainTyped DEF Answers
<1>4. ~ToCome(a, 0) BY <1>1, <1>3 DEF ToCome, InMain
<1>5. ~PageComes BY <1>1 DEF PageComes
<1>6. DOMAIN screen.messages = 1 .. Len(screen.messages) BY WindowTyped
<1> QED BY <1>2, <1>4, <1>5, <1>6 DEF Lists

(* No answer is lost to the screen: once the main process is idle, nothing is on   *)
(* its way and no page is asked for, every stored answer of the open conversation  *)
(* is on the screen, whatever was cancelled, refused, opened and read again before *)
(* -- unless a prompt was submitted before the last one was over.  An answer comes  *)
(* with the end of its run, with the reply to the window's own save, or on a page  *)
(* read after it was stored (useTurnLifecycle, useAgentRunController,              *)
(* useConversationSession).                                                        *)
THEOREM AnswersAreShown ==
  ASSUME MaxSubmits \in Nat, MaxDeltas \in Nat
  PROVE  RunSpec => []AnswersShown
<1>1. RunInit => ScreenInv /\ ShownInv BY ScreenInitially, ShownInitially
<1>2. ScreenInv /\ ShownInv /\ [RunNext]_runVars => (ScreenInv /\ ShownInv)'
  BY ScreenStep, ShownStep
<1>3. ScreenInv /\ ShownInv => AnswersShown BY ShownInvSuffices
<1> QED BY <1>1, <1>2, <1>3, PTL DEF RunSpec

-----------------------------------------------------------------------------
(* The text of an answer, from the deltas of the main process to the screen.   *)
Written == screen.stream \o buffer
StreamTexts == Seq(Submits \X Nat)

(* Order of a text whose last run may be going on. *)
InTurn(text, active, retired) ==
    /\ \A i, j \in 1 .. Len(text) : (i < j /\ text[i][1] = text[j][1]) =>
          /\ text[i][2] < text[j][2]
          /\ \A k \in i .. j : text[k][1] = text[i][1]
    /\ \A i \in 1 .. Len(text) : text[i][1] = active \/ text[i][1] \in retired
    /\ \A i, j \in 1 .. Len(text) : i < j /\ text[i][1] = active => text[j][1] = active

(* The deltas on their way go on where the text of their run ends. *)
GoesOn(m, text) == \A i \in 1 .. Len(text) : text[i][1] = m.run => text[i][2] < m.what
Follow(messages, text) ==
    \A k \in 1 .. Len(messages) : messages[k].kind = "delta" =>
        /\ GoesOn(messages[k], text)
        /\ \A j \in 1 .. k - 1 : messages[j].kind = "delta" /\ messages[j].run = messages[k].run
                                    => messages[j].what < messages[k].what

(* A piece of text comes from a run that has started, and main has written it. *)
Said(run, n) == sends[run].step \in {"starting", "done"} /\ (main.run = run => n <= main.deltas)
AllSaid(messages, text) ==
    /\ \A i \in 1 .. Len(text) : Said(text[i][1], text[i][2])
    /\ \A k \in 1 .. Len(messages) : messages[k].kind = "delta" =>
          Said(messages[k].run, messages[k].what)

StreamInv == /\ InTurn(Written, runs.active, runs.retired)
             /\ Follow(wire, Written) /\ AllSaid(wire, Written)

(* The text loses its beginning. *)
LaterPart(part, whole) ==
    \E from \in Nat : /\ Len(part) + from <= Len(whole)
                      /\ \A i \in 1 .. Len(part) : part[i] = whole[i + from]

(* No run becomes active again, and none is left before it is retired. *)
Turning(old, new) ==
    /\ old.retired \subseteq new.retired
    /\ \/ new.active = old.active
       \/ new.active = 0 /\ old.active \in new.retired \cup {0}
       \/ old.active = 0 /\ new.active \notin old.retired

(* The deltas among the messages stay as they were. *)
DeltasKept(next, now, place) ==
    \A k \in 1 .. Len(next) : next[k].kind = "delta" =>
        /\ place[k] \in 1 .. Len(now) /\ next[k] = now[place[k]]
        /\ \A j \in 1 .. k - 1 : next[j].kind = "delta" => place[j] < place[k]

LEMMA PartInTurn ==
  ASSUME NEW text \in StreamTexts, NEW part \in StreamTexts, LaterPart(part, text),
         NEW old \in RunStates, NEW new \in RunStates, Turning(old, new),
         InTurn(text, old.active, old.retired)
  PROVE  InTurn(part, new.active, new.retired)
<1>1. PICK from \in Nat : /\ Len(part) + from <= Len(text)
                          /\ \A i \in 1 .. Len(part) : part[i] = text[i + from]
  BY DEF LaterPart
<1>2. Len(part) \in Nat /\ Len(text) \in Nat BY DEF StreamTexts
<1>3. \A i \in 1 .. Len(part) : i + from \in 1 .. Len(text) BY <1>1, <1>2
<1>4. \A i \in 1 .. Len(text) : text[i][1] \in Submits /\ text[i][1] # 0
  <2>1. 0 \notin Submits BY DEF Submits
  <2>2. \A i \in 1 .. Len(text) : text[i] \in Submits \X Nat BY DEF StreamTexts
  <2> QED BY <2>1, <2>2
<1>5. \A i, j \in 1 .. Len(part) : (i < j /\ part[i][1] = part[j][1]) =>
          /\ part[i][2] < part[j][2]
          /\ \A k \in i .. j : part[k][1] = part[i][1]
  <2> SUFFICES ASSUME NEW i \in 1 .. Len(part), NEW j \in 1 .. Len(part), i < j,
                      part[i][1] = part[j][1]
               PROVE  part[i][2] < part[j][2] /\ \A k \in i .. j : part[k][1] = part[i][1]
    OBVIOUS
  <2>1. PICK a, b : a = i + from /\ b = j + from OBVIOUS
  <2>2. a \in 1 .. Len(text) /\ b \in 1 .. Len(text) /\ a < b BY <1>1, <1>2, <1>3, <2>1
  <2>3. part[i] = text[a] /\ part[j] = text[b] BY <1>1, <2>1
  <2>4. text[a][2] < text[b][2] /\ \A k \in a .. b : text[k][1] = text[a][1]
    BY <2>2, <2>3 DEF InTurn
  <2>5. ASSUME NEW k \in i .. j PROVE part[k][1] = part[i][1]
    <3>1. k \in 1 .. Len(part) /\ k + from \in a .. b BY <1>2, <2>1
    <3> QED BY <1>1, <2>3, <2>4, <3>1
  <2> QED BY <2>3, <2>4, <2>5
<1>6. \A i \in 1 .. Len(part) : part[i][1] = new.active \/ part[i][1] \in new.retired
  <2> SUFFICES ASSUME NEW i \in 1 .. Len(part)
               PROVE  part[i][1] = new.active \/ part[i][1] \in new.retired
    OBVIOUS
  <2>1. PICK a : a = i + from OBVIOUS
  <2>2. a \in 1 .. Len(text) /\ part[i] = text[a] BY <1>1, <1>3, <2>1
  <2>3. text[a][1] = old.active \/ text[a][1] \in old.retired BY <2>2 DEF InTurn
  <2>4. text[a][1] # 0 BY <1>4, <2>2
  <2> QED BY <2>2, <2>3, <2>4 DEF Turning
<1>7. \A i, j \in 1 .. Len(part) : i < j /\ part[i][1] = new.active => part[j][1] = new.active
  <2> SUFFICES ASSUME NEW i \in 1 .. Len(part), NEW j \in 1 .. Len(part), i < j,
                      part[i][1] = new.active
               PROVE  part[j][1] = new.active
    OBVIOUS
  <2>1. PICK a, b : a = i + from /\ b = j + from OBVIOUS
  <2>2. a \in 1 .. Len(text) /\ b \in 1 .. Len(text) /\ a < b BY <1>1, <1>2, <1>3, <2>1
  <2>3. part[i] = text[a] /\ part[j] = text[b] BY <1>1, <2>1
  <2>4. text[a][1] # 0 /\ (text[a][1] = old.active \/ text[a][1] \in old.retired)
    BY <1>4, <2>2 DEF InTurn
  <2>5. new.active = old.active BY <2>3, <2>4 DEF Turning
  <2>6. text[b][1] = old.active BY <2>2, <2>3, <2>5 DEF InTurn
  <2> QED BY <2>3, <2>5, <2>6
<1> QED BY <1>5, <1>6, <1>7 DEF InTurn

LEMMA PartFollowed ==
  ASSUME NEW text \in StreamTexts, NEW part \in StreamTexts, LaterPart(part, text),
         NEW now \in Seq(WireMessages), NEW next \in Seq(WireMessages),
         NEW place, DeltasKept(next, now, place), Follow(now, text)
  PROVE  Follow(next, part)
<1>1. PICK from \in Nat : /\ Len(part) + from <= Len(text)
                          /\ \A i \in 1 .. Len(part) : part[i] = text[i + from]
  BY DEF LaterPart
<1>2. Len(part) \in Nat /\ Len(text) \in Nat BY DEF StreamTexts
<1>3. \A i \in 1 .. Len(part) : i + from \in 1 .. Len(text) BY <1>1, <1>2
<1>4. Len(now) \in Nat /\ Len(next) \in Nat OBVIOUS
<1>5. SUFFICES ASSUME NEW k \in 1 .. Len(next), next[k].kind = "delta"
      PROVE  /\ GoesOn(next[k], part)
             /\ \A j \in 1 .. k - 1 : next[j].kind = "delta" /\ next[j].run = next[k].run
                                         => next[j].what < next[k].what
  BY DEF Follow
<1>6. PICK c : c = place[k] OBVIOUS
<1>7. c \in 1 .. Len(now) /\ next[k] = now[c] BY <1>5, <1>6 DEF DeltasKept
<1>8. GoesOn(now[c], text) BY <1>5, <1>7 DEF Follow
<1>9. GoesOn(next[k], part)
  <2> SUFFICES ASSUME NEW i \in 1 .. Len(part), part[i][1] = next[k].run
               PROVE  part[i][2] < next[k].what
    BY DEF GoesOn
  <2>1. i + from \in 1 .. Len(text) /\ part[i] = text[i + from] BY <1>1, <1>3
  <2> QED BY <1>7, <1>8, <2>1 DEF GoesOn
<1>10. ASSUME NEW j \in 1 .. k - 1, next[j].kind = "delta", next[j].run = next[k].run
       PROVE  next[j].what < next[k].what
  <2>1. j \in 1 .. Len(next) BY <1>4
  <2>2. PICK b : b = place[j] OBVIOUS
  <2>3. b \in 1 .. Len(now) /\ next[j] = now[b] /\ b < c
    BY <1>5, <1>6, <1>10, <2>1, <2>2 DEF DeltasKept
  <2>4. b \in 1 .. c - 1 BY <1>4, <1>7, <2>3
  <2> QED BY <1>5, <1>7, <1>10, <2>3, <2>4 DEF Follow
<1> QED BY <1>9, <1>10

LEMMA PartSaid ==
  ASSUME NEW text \in StreamTexts, NEW part \in StreamTexts, LaterPart(part, text),
         NEW now \in Seq(WireMessages), NEW next \in Seq(WireMessages),
         NEW place, DeltasKept(next, now, place), AllSaid(now, text),
         \A r \in Submits, n \in Nat : Said(r, n) => Said(r, n)'
  PROVE  AllSaid(next, part)'
<1>1. PICK from \in Nat : /\ Len(part) + from <= Len(text)
                          /\ \A i \in 1 .. Len(part) : part[i] = text[i + from]
  BY DEF LaterPart
<1>2. Len(part) \in Nat /\ Len(text) \in Nat BY DEF StreamTexts
<1>3. \A i \in 1 .. Len(part) : Said(part[i][1], part[i][2])'
  <2> SUFFICES ASSUME NEW i \in 1 .. Len(part) PROVE Said(part[i][1], part[i][2])' OBVIOUS
  <2>1. i + from \in 1 .. Len(text) /\ part[i] = text[i + from] BY <1>1, <1>2
  <2>2. part[i] \in Submits \X Nat BY DEF StreamTexts
  <2>3. PICK r \in Submits, n \in Nat : r = part[i][1] /\ n = part[i][2] BY <2>2
  <2>4. Said(r, n) BY <2>1, <2>3 DEF AllSaid
  <2>5. Said(r, n)' BY <2>4
  <2> QED BY <2>3, <2>5 DEF Said
<1>4. \A k \in 1 .. Len(next) : next[k].kind = "delta" => Said(next[k].run, next[k].what)'
  <2> SUFFICES ASSUME NEW k \in 1 .. Len(next), next[k].kind = "delta"
               PROVE Said(next[k].run, next[k].what)'
    OBVIOUS
  <2>1. place[k] \in 1 .. Len(now) /\ next[k] = now[place[k]] BY DEF DeltasKept
  <2>2. next[k] \in WireMessages OBVIOUS
  <2>3. next[k].run \in Submits /\ next[k].what \in Nat BY <2>2, MessagesTyped
  <2>4. PICK r \in Submits, n \in Nat : r = next[k].run /\ n = next[k].what BY <2>3
  <2>5. Said(r, n) BY <2>1, <2>4 DEF AllSaid
  <2>6. Said(r, n)' BY <2>5
  <2> QED BY <2>4, <2>6 DEF Said
<1> QED BY <1>3, <1>4 DEF AllSaid, Said

(* A step that adds nothing to the text and sends no delta. *)
LEMMA StreamKept ==
  ASSUME ScreenInv, ScreenInv', StreamInv, LaterPart(Written', Written), Turning(runs, runs'),
         NEW place, DeltasKept(wire', wire, place),
         \A r \in Submits, n \in Nat : Said(r, n) => Said(r, n)'
  PROVE  StreamInv'
<1>1. Written \in StreamTexts /\ runs \in RunStates /\ wire \in Seq(WireMessages)
  BY WindowTyped, MainTyped DEF Written, StreamTexts
<1>2. Written' \in StreamTexts /\ runs' \in RunStates /\ wire' \in Seq(WireMessages)
  <2>1. /\ screen'.stream \in Seq(Submits \X Nat) /\ buffer' \in Seq(Submits \X Nat)
        /\ runs' \in RunStates /\ wire' \in Seq(WireMessages)
    BY DEF ScreenInv, RunTypes, Screens, Submits
  <2> QED BY <2>1 DEF Written, StreamTexts, Submits
<1>3. PICK text, part, w, r :
         text = Written /\ part = Written' /\ w = wire' /\ r = runs'
  OBVIOUS
<1>4. InTurn(part, r.active, r.retired) BY <1>1, <1>2, <1>3, PartInTurn DEF StreamInv
<1>5. Follow(w, part) BY <1>1, <1>2, <1>3, PartFollowed DEF StreamInv
<1>6. AllSaid(w, part)' BY <1>1, <1>2, <1>3, PartSaid DEF StreamInv
<1>7. InTurn(Written, runs.active, runs.retired)' BY <1>3, <1>4 DEF InTurn
<1>8. Follow(wire, Written)' BY <1>3, <1>5 DEF Follow, GoesOn
<1>9. AllSaid(wire, Written)' BY <1>3, <1>6 DEF AllSaid, Said
<1> QED BY <1>7, <1>8, <1>9 DEF StreamInv

(* The wires of the steps. *)
LEMMA SameDeltas ==
  ASSUME wire \in Seq(WireMessages),
         \/ wire' = wire
         \/ \E m : wire' = wire \o <<m>> /\ m.kind # "delta"
         \/ \E m, n : wire' = wire \o <<m, n>> /\ m.kind # "delta" /\ n.kind # "delta"
  PROVE  \E place : DeltasKept(wire', wire, place)
<1> DEFINE len == Len(wire)
           place == [k \in 1 .. len + 2 |-> k]
<1>1. len \in Nat OBVIOUS
<1>2. \A k \in 1 .. Len(wire') : k \in 1 .. len + 2 /\ (wire'[k].kind = "delta" =>
                                   k \in 1 .. len /\ wire'[k] = wire[k])
  <2>1. CASE wire' = wire BY <1>1, <2>1
  <2>2. ASSUME NEW m, wire' = wire \o <<m>>, m.kind # "delta"
        PROVE  \A k \in 1 .. Len(wire') : k \in 1 .. len + 2 /\ (wire'[k].kind = "delta" =>
                                   k \in 1 .. len /\ wire'[k] = wire[k])
    <3>1. PICK w : w = wire \o <<m>> OBVIOUS
    <3>2. Len(w) = len + 1 /\ w[len + 1] = m /\ \A k \in 1 .. len : w[k] = wire[k] BY <3>1
    <3>3. w = wire' BY <2>2, <3>1
    <3> HIDE DEF len
    <3> QED BY <1>1, <2>2, <3>2, <3>3
  <2>3. ASSUME NEW m, NEW n, wire' = wire \o <<m, n>>, m.kind # "delta", n.kind # "delta"
        PROVE  \A k \in 1 .. Len(wire') : k \in 1 .. len + 2 /\ (wire'[k].kind = "delta" =>
                                   k \in 1 .. len /\ wire'[k] = wire[k])
    <3>1. PICK w : w = wire \o <<m, n>> OBVIOUS
    <3>2. /\ Len(w) = len + 2 /\ w[len + 1] = m /\ w[len + 2] = n
          /\ \A k \in 1 .. len : w[k] = wire[k]
      BY <3>1
    <3>3. w = wire' BY <2>3, <3>1
    <3> HIDE DEF len
    <3>4. \A k \in 1 .. len + 2 : k \in 1 .. len \/ k = len + 1 \/ k = len + 2 BY <1>1
    <3> QED BY <1>1, <2>3, <3>2, <3>3, <3>4
  <2> QED BY <2>1, <2>2, <2>3
<1>3. \A k \in 1 .. len + 2 : place[k] = k OBVIOUS
<1> HIDE DEF place
<1>4. DeltasKept(wire', wire, place)
  <2> SUFFICES ASSUME NEW k \in 1 .. Len(wire'), wire'[k].kind = "delta"
               PROVE  /\ place[k] \in 1 .. len /\ wire'[k] = wire[place[k]]
                      /\ \A j \in 1 .. k - 1 : wire'[j].kind = "delta" => place[j] < place[k]
    BY DEF DeltasKept
  <2>1. k \in 1 .. len /\ k \in 1 .. len + 2 /\ wire'[k] = wire[k] BY <1>2
  <2>2. \A j \in 1 .. k - 1 : j \in 1 .. len + 2 /\ j < k BY <1>1, <2>1
  <2> HIDE DEF len
  <2> QED BY <1>3, <2>1, <2>2
<1> QED BY <1>4

LEMMA FewerDeltas ==
  ASSUME wire \in Seq(WireMessages), wire' \in Seq(WireMessages),
         NEW place, Among(wire', wire, Len(wire), place)
  PROVE  DeltasKept(wire', wire, place)
<1>1. Len(wire') \in Nat OBVIOUS
<1>2. \A k \in 1 .. Len(wire') : \A j \in 1 .. k - 1 : j \in 1 .. Len(wire') /\ j < k BY <1>1
<1> QED BY <1>1, <1>2 DEF Among, DeltasKept

LEMMA TailDeltas ==
  ASSUME wire \in Seq(WireMessages), wire # <<>>, wire' = Tail(wire)
  PROVE  \E place : DeltasKept(wire', wire, place)
<1>1. /\ Len(wire) \in Nat /\ Len(wire') = Len(wire) - 1
      /\ \A k \in 1 .. Len(wire') : wire'[k] = wire[k + 1]
  OBVIOUS
<1> DEFINE place == [k \in 1 .. Len(wire') |-> k + 1]
<1>2. \A k \in 1 .. Len(wire') : place[k] = k + 1 OBVIOUS
<1> HIDE DEF place
<1>3. \A k \in 1 .. Len(wire') : /\ k + 1 \in 1 .. Len(wire)
                                 /\ \A j \in 1 .. k - 1 : j \in 1 .. Len(wire') /\ j + 1 < k + 1
  BY <1>1
<1>4. DeltasKept(wire', wire, place) BY <1>1, <1>2, <1>3 DEF DeltasKept
<1> QED BY <1>4

(* The texts of the steps. *)
LEMMA TextsCut ==
  ASSUME NEW stream \in StreamTexts, NEW added \in StreamTexts
  PROVE  /\ LaterPart(stream \o added, stream \o added) /\ LaterPart(added, stream \o added)
         /\ LaterPart(<<>>, stream \o added)
         /\ <<>> \o added = added /\ stream \o <<>> = stream
<1> DEFINE text == stream \o added
<1>1. /\ Len(stream) \in Nat /\ Len(added) \in Nat /\ Len(text) = Len(stream) + Len(added)
      /\ \A i \in 1 .. Len(added) : text[i + Len(stream)] = added[i]
  BY DEF StreamTexts
<1>2. LaterPart(added, text)
  <2> HIDE DEF text
  <2>1. Len(added) + Len(stream) <= Len(text) BY <1>1
  <2> QED BY <1>1, <2>1 DEF LaterPart
<1>3. LaterPart(text, text)
  <2> HIDE DEF text
  <2>1. 0 \in Nat /\ \A i \in 1 .. Len(text) : i + 0 = i OBVIOUS
  <2>2. Len(text) + 0 <= Len(text) BY <1>1
  <2> QED BY <2>1, <2>2 DEF LaterPart
<1>4. LaterPart(<<>>, text)
  <2> HIDE DEF text
  <2>1. Len(<<>>) = 0 /\ Len(<<>>) + 0 <= Len(text) BY <1>1
  <2>2. 0 \in Nat /\ \A i \in 1 .. 0 : i # i OBVIOUS
  <2> QED BY <2>1, <2>2 DEF LaterPart
<1>5. <<>> \o added = added /\ stream \o <<>> = stream BY DEF StreamTexts
<1> QED BY <1>2, <1>3, <1>4, <1>5

LEMMA TextKept ==
  ASSUME ScreenInv,
         \/ buffer' = buffer /\ screen'.stream = screen.stream
         \/ buffer' = buffer /\ screen'.stream = <<>>
         \/ buffer' = <<>> /\ screen'.stream = screen.stream \o buffer
         \/ buffer' = <<>> /\ screen'.stream = <<>>
  PROVE  LaterPart(Written', Written)
<1>1. PICK s, b : s = screen.stream /\ b = buffer OBVIOUS
<1>2. s \in StreamTexts /\ b \in StreamTexts BY <1>1, WindowTyped DEF StreamTexts
<1>3. s \o b \in StreamTexts /\ <<>> \in StreamTexts BY <1>2 DEF StreamTexts
<1>4. /\ LaterPart(s \o b, s \o b) /\ LaterPart(b, s \o b) /\ LaterPart(<<>>, s \o b)
      /\ <<>> \o b = b
  BY <1>2, TextsCut
<1>5. (s \o b) \o <<>> = s \o b /\ <<>> \o <<>> = <<>> BY <1>3, TextsCut
<1>6. Written = s \o b BY <1>1 DEF Written
<1>7. Written' \in {s \o b, b, <<>>} BY <1>1, <1>4, <1>5 DEF Written
<1> QED BY <1>4, <1>6, <1>7

(* A piece is added to the text of the run that is active. *)
LEMMA PieceInTurn ==
  ASSUME NEW text \in StreamTexts, NEW run \in Submits, NEW n \in Nat, NEW active, NEW retired,
         InTurn(text, active, retired), active = run,
         \A i \in 1 .. Len(text) : text[i][1] = run => text[i][2] < n
  PROVE  InTurn(Append(text, <<run, n>>), active, retired)
<1> DEFINE more == Append(text, <<run, n>>)
           len == Len(text)
<1>1. /\ len \in Nat /\ Len(more) = len + 1 /\ more[len + 1] = <<run, n>>
      /\ \A i \in 1 .. len : more[i] = text[i]
  BY DEF StreamTexts
<1>2. more[len + 1][1] = run /\ more[len + 1][2] = n BY <1>1
<1>3. InTurn(text, run, retired) OBVIOUS
<1> HIDE DEF more
<1>4. \A i \in 1 .. Len(more) : i \in 1 .. len \/ i = len + 1 BY <1>1
<1>5. ASSUME NEW i \in 1 .. Len(more), NEW j \in 1 .. Len(more), i < j, more[i][1] = more[j][1]
      PROVE  /\ more[i][2] < more[j][2]
             /\ \A k \in i .. j : more[k][1] = more[i][1]
  <2>1. i \in 1 .. len BY <1>1, <1>5
  <2>2. CASE j = len + 1
    <3>1. more[i] = text[i] /\ text[i][1] = run BY <1>1, <1>2, <1>5, <2>1, <2>2
    <3>2. more[i][2] < more[j][2] BY <1>2, <2>1, <2>2, <3>1
    <3>3. ASSUME NEW k \in i .. j PROVE more[k][1] = run
      <4>1. CASE k = j BY <1>2, <2>2, <4>1
      <4>2. CASE k = i BY <3>1, <4>2
      <4>3. CASE k # i /\ k # j
        <5>1. k \in 1 .. len /\ i < k BY <1>1, <2>1, <2>2, <4>3
        <5>2. text[k][1] = run BY <1>3, <2>1, <3>1, <5>1 DEF InTurn
        <5> QED BY <1>1, <5>1, <5>2
      <4> QED BY <4>1, <4>2, <4>3
    <3> QED BY <3>1, <3>2, <3>3
  <2>3. CASE j # len + 1
    <3>1. j \in 1 .. len BY <1>4, <2>3
    <3>2. more[i] = text[i] /\ more[j] = text[j] BY <1>1, <2>1, <3>1
    <3>3. text[i][2] < text[j][2] /\ \A k \in i .. j : text[k][1] = text[i][1]
      BY <1>3, <1>5, <2>1, <3>1, <3>2 DEF InTurn
    <3>4. \A k \in i .. j : k \in 1 .. len BY <1>1, <2>1, <3>1
    <3> QED BY <1>1, <3>2, <3>3, <3>4
  <2> QED BY <2>2, <2>3
<1>6. \A i \in 1 .. Len(more) : more[i][1] = run \/ more[i][1] \in retired
  BY <1>1, <1>2, <1>3, <1>4 DEF InTurn
<1>7. ASSUME NEW i \in 1 .. Len(more), NEW j \in 1 .. Len(more), i < j, more[i][1] = run
      PROVE  more[j][1] = run
  <2>1. i \in 1 .. len BY <1>1, <1>7
  <2>2. CASE j = len + 1 BY <1>2, <2>2
  <2>3. CASE j # len + 1
    <3>1. j \in 1 .. len BY <1>4, <2>3
    <3> QED BY <1>1, <1>3, <1>7, <2>1, <3>1 DEF InTurn
  <2> QED BY <2>2, <2>3
<1>8. InTurn(more, run, retired) BY <1>5, <1>6, <1>7 DEF InTurn
<1> QED BY <1>8 DEF more

LEMMA PieceFollowed ==
  ASSUME NEW text \in StreamTexts, NEW run \in Submits, NEW n \in Nat, NEW messages \in Seq(WireMessages),
         Follow(messages, text), messages # <<>>,
         Head(messages).kind = "delta", Head(messages).run = run, Head(messages).what = n
  PROVE  Follow(Tail(messages), Append(text, <<run, n>>))
<1> DEFINE more == Append(text, <<run, n>>)
           rest == Tail(messages)
<1>1. /\ Len(text) \in Nat /\ Len(more) = Len(text) + 1 /\ more[Len(text) + 1] = <<run, n>>
      /\ \A i \in 1 .. Len(text) : more[i] = text[i]
  BY DEF StreamTexts
<1>2. more[Len(text) + 1][1] = run /\ more[Len(text) + 1][2] = n BY <1>1
<1>3. /\ Len(messages) \in Nat /\ Len(rest) = Len(messages) - 1
      /\ \A k \in 1 .. Len(rest) : rest[k] = messages[k + 1]
      /\ Head(messages) = messages[1]
  OBVIOUS
<1> HIDE DEF more, rest
<1>4. ASSUME NEW k \in 1 .. Len(rest), rest[k].kind = "delta"
      PROVE  /\ GoesOn(rest[k], more)
             /\ \A j \in 1 .. k - 1 : rest[j].kind = "delta" /\ rest[j].run = rest[k].run
                                         => rest[j].what < rest[k].what
  <2>1. PICK c : c = k + 1 OBVIOUS
  <2>2. c \in 1 .. Len(messages) /\ rest[k] = messages[c] /\ 1 \in 1 .. c - 1 BY <1>3, <2>1
  <2>3. /\ GoesOn(messages[c], text)
        /\ \A j \in 1 .. c - 1 : messages[j].kind = "delta" /\ messages[j].run = messages[c].run
                                    => messages[j].what < messages[c].what
    BY <1>4, <2>2 DEF Follow
  <2>4. GoesOn(rest[k], more)
    <3> SUFFICES ASSUME NEW i \in 1 .. Len(more), more[i][1] = rest[k].run
                 PROVE  more[i][2] < rest[k].what
      BY DEF GoesOn
    <3>1. CASE i = Len(text) + 1 BY <1>2, <1>3, <2>2, <2>3, <3>1
    <3>2. CASE i # Len(text) + 1
      <4>1. i \in 1 .. Len(text) BY <1>1, <3>2
      <4> QED BY <1>1, <2>2, <2>3, <4>1 DEF GoesOn
    <3> QED BY <3>1, <3>2
  <2>5. \A j \in 1 .. k - 1 : j \in 1 .. Len(rest) /\ j + 1 \in 1 .. c - 1 BY <1>3, <2>1
  <2> QED BY <1>3, <2>2, <2>3, <2>4, <2>5
<1>5. Follow(rest, more) BY <1>4 DEF Follow
<1> QED BY <1>5 DEF rest, more

LEMMA AddedLast ==
  ASSUME NEW S, NEW s \in Seq(S), NEW b \in Seq(S), NEW p \in S
  PROVE  s \o Append(b, p) = Append(s \o b, p)
OBVIOUS

LEMMA JoinTyped ==
  ASSUME NEW S, NEW s \in Seq(S), NEW b \in Seq(S)
  PROVE  s \o b \in Seq(S)
OBVIOUS

LEMMA PieceArrives ==
  ASSUME ScreenInv, StreamInv, NEW m, Taken(m), DeltaArrives(m),
         runs' = Adopted(m), buffer' = Append(buffer, <<m.run, m.what>>), Fresh(m), Ours(m)
  PROVE  StreamInv'
<1>1. /\ m.run \in Submits /\ m.seq \in Nat /\ m.what \in Nat /\ m.kind = "delta"
      /\ wire # <<>> /\ wire' = Tail(wire) /\ m = Head(wire) /\ UNCHANGED <<main, sends>>
      /\ UNCHANGED screen
  BY HeadTyped, MessagesTyped DEF Taken, DeltaArrives
<1>2. wire \in Seq(WireMessages) /\ runs \in RunStates BY MainTyped, WindowTyped
<1>3. PICK s, b : s = screen.stream /\ b = buffer /\ s \in StreamTexts /\ b \in StreamTexts
  BY WindowTyped DEF StreamTexts
<1>4. PICK text : text = s \o b /\ text \in StreamTexts
  <2>1. s \o b \in StreamTexts BY <1>3, JoinTyped DEF StreamTexts
  <2> QED BY <2>1
<1>5. Written = text BY <1>3, <1>4 DEF Written
<1>6. Written' = Append(text, <<m.run, m.what>>)
  <2>1. <<m.run, m.what>> \in Submits \X Nat BY <1>1
  <2>2. PICK p : p = <<m.run, m.what>> OBVIOUS
  <2>4. PICK S : S = Submits \X Nat OBVIOUS
  <2>5. s \in Seq(S) /\ b \in Seq(S) /\ p \in S BY <1>3, <2>1, <2>2, <2>4 DEF StreamTexts
  <2>3. s \o Append(b, p) = Append(s \o b, p) BY <2>5, AddedLast
  <2> QED BY <1>1, <1>3, <1>4, <2>2, <2>3 DEF Written
<1>7. PICK next : next = runs' OBVIOUS
<1>8. next \in RunStates /\ next.retired = runs.retired /\ next.active = m.run
  <2>1. Adopted(m) \in RunStates /\ Adopted(m).retired = runs.retired BY <1>1, NotedTyped
  <2>2. Adopted(m).active = m.run
    <3>1. runs.active \in {0, m.run} BY DEF Ours
    <3>2. Noted(m).active = runs.active BY <1>2 DEF Noted, RunStates
    <3>3. PICK r : r = Noted(m) OBVIOUS
    <3>4. r \in RunStates BY <1>1, <3>3, NotedTyped
    <3>5. Adopted(m) = [r EXCEPT !.active = IF runs.active = 0 THEN m.run ELSE r.active]
      BY <3>3 DEF Adopted
    <3> QED BY <3>1, <3>2, <3>3, <3>4, <3>5 DEF RunStates
  <2> QED BY <1>7, <2>1, <2>2
<1>9. Turning(runs, next)
  <2>1. m.run \notin runs.retired BY DEF Fresh
  <2>2. runs.active \in {0, m.run} BY DEF Ours
  <2> QED BY <1>8, <2>1, <2>2 DEF Turning
<1>10. LaterPart(text, text) BY <1>3, <1>4, TextsCut
<1>11. InTurn(text, next.active, next.retired)
  BY <1>2, <1>4, <1>5, <1>8, <1>9, <1>10, PartInTurn DEF StreamInv
<1>12. 1 \in 1 .. Len(wire) /\ wire[1] = m BY <1>1, <1>2
<1>13. \A i \in 1 .. Len(text) : text[i][1] = m.run => text[i][2] < m.what
  BY <1>1, <1>5, <1>12 DEF StreamInv, Follow, GoesOn
<1>14. PICK more : more = Append(text, <<m.run, m.what>>) OBVIOUS
<1>15. InTurn(more, next.active, next.retired)
  BY <1>1, <1>4, <1>8, <1>11, <1>13, <1>14, PieceInTurn
<1>16. Follow(Tail(wire), more) BY <1>1, <1>2, <1>4, <1>5, <1>14, PieceFollowed DEF StreamInv
<1>17. AllSaid(wire, Written)'
  <2>1. Said(m.run, m.what) BY <1>1, <1>12 DEF StreamInv, AllSaid
  <2>2. /\ Len(text) \in Nat /\ Len(more) = Len(text) + 1
        /\ more[Len(text) + 1] = <<m.run, m.what>>
        /\ \A i \in 1 .. Len(text) : more[i] = text[i]
    BY <1>4, <1>14 DEF StreamTexts
  <2>3. ASSUME NEW i \in 1 .. Len(more) PROVE Said(more[i][1], more[i][2])
    <3>1. CASE i = Len(text) + 1 BY <2>1, <2>2, <3>1
    <3>2. CASE i # Len(text) + 1
      <4>1. i \in 1 .. Len(text) /\ more[i] = text[i] BY <2>2, <3>2
      <4> QED BY <1>5, <4>1 DEF StreamInv, AllSaid
    <3> QED BY <3>1, <3>2
  <2>4. \A k \in 1 .. Len(wire') : k + 1 \in 1 .. Len(wire) /\ wire'[k] = wire[k + 1]
    BY <1>1, <1>2
  <2>5. \A k \in 1 .. Len(wire') : wire'[k].kind = "delta" => Said(wire'[k].run, wire'[k].what)
    BY <2>4 DEF StreamInv, AllSaid
  <2>6. Written' = more BY <1>6, <1>14
  <2> QED BY <1>1, <2>3, <2>5, <2>6 DEF AllSaid, Said
<1>18. Follow(wire, Written)' BY <1>1, <1>6, <1>14, <1>16 DEF Follow, GoesOn
<1>19. InTurn(Written, runs.active, runs.retired)'
  <2>1. Written' = more /\ runs' = next BY <1>6, <1>7, <1>14
  <2>2. InTurn(Written', runs'.active, runs'.retired) BY <1>15, <2>1, Zenon
  <2> QED BY <2>2 DEF InTurn
<1> QED BY <1>17, <1>18, <1>19 DEF StreamInv

(* Main writes a piece of the text. *)
LEMMA DeltaSent ==
  ASSUME ScreenInv, ScreenInv', StreamInv, Delta
  PROVE  StreamInv'
<1>1. /\ main.phase = "running" /\ UNCHANGED <<sends, screen, buffer, runs>>
  BY DEF Delta
<1>2. PICK d : d = main.deltas + 1 OBVIOUS
<1>3. PICK m : m = [main EXCEPT !.deltas = d] OBVIOUS
<1>4. /\ main.run \in Submits /\ main.talk \in Talks /\ main \in MainStates /\ main.deltas \in Nat
      /\ main.seq \in Nat /\ wire \in Seq(WireMessages)
  BY <1>1, MainTyped
<1>5. Push(m, <<<<"delta", d>>>>) BY <1>2, <1>3 DEF Delta
<1>6. PICK delta : delta = [kind |-> "delta", what |-> d, run |-> m.run, talk |-> m.talk,
                            seq |-> m.seq + 1]
  OBVIOUS
<1>7. main' = [m EXCEPT !.seq = m.seq + 1] /\ wire' = wire \o <<delta>>
  BY <1>5, <1>6, PushOne
<1>8. main'.run = main.run /\ main'.deltas = d /\ m.run = main.run /\ d \in Nat
  BY <1>2, <1>3, <1>4, <1>7 DEF MainStates
<1>9. delta.kind = "delta" /\ delta.what = d /\ delta.run = main.run BY <1>6, <1>8
<1>10. sends[main.run].step \in {"starting", "done"} BY <1>4, MainTyped DEF ScreenInv, MainInOrder
<1>11. PICK text : text = Written /\ text \in StreamTexts
  <2>1. screen.stream \in StreamTexts /\ buffer \in StreamTexts BY WindowTyped DEF StreamTexts
  <2>2. Written \in StreamTexts BY <2>1, JoinTyped DEF Written, StreamTexts
  <2> QED BY <2>2
<1>12. Written' = text BY <1>1, <1>11 DEF Written
<1>13. PICK w : w = wire' OBVIOUS
<1>14. /\ Len(wire) \in Nat /\ Len(w) = Len(wire) + 1 /\ w[Len(wire) + 1] = delta
       /\ \A k \in 1 .. Len(wire) : w[k] = wire[k]
  BY <1>4, <1>7, <1>13
<1>15. \A n \in Nat : Said(main.run, n) => n < d BY <1>2, <1>4 DEF Said
<1>16. \A r \in Submits, n \in Nat : Said(r, n) => Said(r, n)'
  BY <1>1, <1>2, <1>4, <1>8 DEF Said
<1>17. GoesOn(delta, text)
  <2> SUFFICES ASSUME NEW i \in 1 .. Len(text), text[i][1] = main.run PROVE text[i][2] < d
    BY <1>9 DEF GoesOn
  <2>1. text[i][2] \in Nat
    <3>1. text[i] \in Submits \X Nat BY <1>11 DEF StreamTexts
    <3> QED BY <3>1
  <2>2. Said(main.run, text[i][2]) BY <1>11 DEF StreamInv, AllSaid
  <2> QED BY <1>15, <2>1, <2>2
<1>18. \A j \in 1 .. Len(wire) : wire[j].kind = "delta" /\ wire[j].run = main.run => wire[j].what < d
  <2> SUFFICES ASSUME NEW j \in 1 .. Len(wire), wire[j].kind = "delta", wire[j].run = main.run
               PROVE  wire[j].what < d
    OBVIOUS
  <2>1. wire[j] \in WireMessages BY <1>4
  <2>2. wire[j].what \in Nat BY <2>1, MessagesTyped
  <2>3. Said(main.run, wire[j].what) BY DEF StreamInv, AllSaid
  <2> QED BY <1>15, <2>2, <2>3
<1>19. Follow(w, text)
  <2> SUFFICES ASSUME NEW k \in 1 .. Len(w), w[k].kind = "delta"
               PROVE  /\ GoesOn(w[k], text)
                      /\ \A j \in 1 .. k - 1 : w[j].kind = "delta" /\ w[j].run = w[k].run
                                                  => w[j].what < w[k].what
    BY DEF Follow
  <2>1. CASE k = Len(wire) + 1
    <3>1. \A j \in 1 .. k - 1 : j \in 1 .. Len(wire) BY <1>14, <2>1
    <3> QED BY <1>9, <1>14, <1>17, <1>18, <2>1, <3>1
  <2>2. CASE k # Len(wire) + 1
    <3>1. k \in 1 .. Len(wire) /\ w[k] = wire[k] BY <1>14, <2>2
    <3>2. \A j \in 1 .. k - 1 : j \in 1 .. Len(wire) /\ w[j] = wire[j] BY <1>14, <3>1
    <3> QED BY <1>11, <3>1, <3>2 DEF StreamInv, Follow
  <2> QED BY <2>1, <2>2
<1>20. AllSaid(w, text)'
  <2>1. \A i \in 1 .. Len(text) : Said(text[i][1], text[i][2])'
    <3> SUFFICES ASSUME NEW i \in 1 .. Len(text) PROVE Said(text[i][1], text[i][2])' OBVIOUS
    <3>1. text[i] \in Submits \X Nat BY <1>11 DEF StreamTexts
    <3>2. PICK r \in Submits, n \in Nat : r = text[i][1] /\ n = text[i][2] BY <3>1
    <3>3. Said(r, n) BY <1>11, <3>2 DEF StreamInv, AllSaid
    <3>4. Said(r, n)' BY <1>16, <3>3
    <3> QED BY <3>2, <3>4 DEF Said
  <2>2. ASSUME NEW k \in 1 .. Len(w), w[k].kind = "delta" PROVE Said(w[k].run, w[k].what)'
    <3>1. CASE k = Len(wire) + 1 BY <1>1, <1>2, <1>4, <1>8, <1>9, <1>10, <1>14, <3>1 DEF Said
    <3>2. CASE k # Len(wire) + 1
      <4>1. k \in 1 .. Len(wire) /\ w[k] = wire[k] BY <1>14, <3>2
      <4>2. w[k] \in WireMessages BY <1>4, <4>1
      <4>3. PICK r \in Submits, n \in Nat : r = w[k].run /\ n = w[k].what
        <5>1. w[k].run \in Submits /\ w[k].what \in Nat BY <2>2, <4>2, MessagesTyped
        <5> QED BY <5>1
      <4>4. Said(r, n) BY <2>2, <4>1, <4>3 DEF StreamInv, AllSaid
      <4>5. Said(r, n)' BY <1>16, <4>4
      <4> QED BY <4>3, <4>5 DEF Said
    <3> QED BY <3>1, <3>2
  <2> QED BY <2>1, <2>2 DEF AllSaid
<1>21. InTurn(Written, runs.active, runs.retired)' BY <1>1, <1>11, <1>12 DEF StreamInv, InTurn
<1>22. Follow(wire, Written)' BY <1>12, <1>13, <1>19 DEF Follow, GoesOn
<1>23. AllSaid(wire, Written)' BY <1>12, <1>13, <1>20 DEF AllSaid, Said
<1> QED BY <1>21, <1>22, <1>23 DEF StreamInv

-----------------------------------------------------------------------------
LEMMA SameTurns ==
  ASSUME ScreenInv
  PROVE  /\ Turning(runs, runs) /\ LaterPart(Written, Written)
         /\ runs' = runs => Turning(runs, runs')
         /\ UNCHANGED <<screen, buffer>> => LaterPart(Written', Written)
<1>1. screen.stream \in StreamTexts /\ buffer \in StreamTexts BY WindowTyped DEF StreamTexts
<1>2. LaterPart(Written, Written) BY <1>1, TextsCut DEF Written
<1>3. UNCHANGED <<screen, buffer>> => Written' = Written BY DEF Written
<1> QED BY <1>2, <1>3 DEF Turning

(* What the main process does besides writing the text. *)
LEMMA MainKeepsStream ==
  ASSUME ScreenInv, ScreenInv', StreamInv, UNCHANGED <<screen, buffer, runs>>,
         NEW place, DeltasKept(wire', wire, place),
         \A r \in Submits, n \in Nat : Said(r, n) => Said(r, n)'
  PROVE  StreamInv'
<1>1. LaterPart(Written', Written) /\ Turning(runs, runs') BY SameTurns
<1> QED BY <1>1, StreamKept

LEMMA PushedNoDelta ==
  ASSUME ScreenInv, NEW m, NEW what, Push(m, <<<<"status", what>>>>)
  PROVE  \E place : DeltasKept(wire', wire, place)
<1> DEFINE msg == [kind |-> "status", what |-> what, run |-> m.run, talk |-> m.talk,
                   seq |-> m.seq + 1]
<1>1. wire' = wire \o <<msg>> BY PushOne
<1>2. msg.kind # "delta" OBVIOUS
<1> HIDE DEF msg
<1>3. wire \in Seq(WireMessages) BY MainTyped
<1> QED BY <1>1, <1>2, <1>3, SameDeltas

LEMMA RepliedNoDelta ==
  ASSUME ScreenInv, NEW kind, NEW what, NEW run, NEW talk, wire' = wire \o Reply(kind, what, run, talk),
         kind # "delta"
  PROVE  \E place : DeltasKept(wire', wire, place)
<1> DEFINE msg == [kind |-> kind, what |-> what, run |-> run, talk |-> talk, seq |-> 0]
<1>1. wire' = wire \o <<msg>> BY DEF Reply
<1>2. msg.kind # "delta" OBVIOUS
<1> HIDE DEF msg
<1>3. wire \in Seq(WireMessages) BY MainTyped
<1> QED BY <1>1, <1>2, <1>3, SameDeltas

LEMMA StartFailsStream ==
  ASSUME ScreenInv, ScreenInv', StreamInv, NEW i \in Submits, StartFails(i)
  PROVE  StreamInv'
<1> DEFINE failed == [kind |-> "status", what |-> "failed", run |-> main.run,
                      talk |-> main.talk, seq |-> main.seq + 1]
           refused == [kind |-> "refused", what |-> "send", run |-> i, talk |-> "none",
                       seq |-> 0]
<1>1. /\ sends[i].step = "starting" /\ sends' = [sends EXCEPT ![i].step = "done"]
      /\ main' = Idle /\ sends[i] \in SendStates
  BY MainTyped DEF StartFails
<1>2. sends'[i].step = "done" /\ \A r \in Submits : r # i => sends'[r] = sends[r]
  BY <1>1, MainTyped DEF SendStates
<1>3. \A r \in Submits, n \in Nat : Said(r, n) => Said(r, n)' BY <1>1, <1>2, MainTyped DEF Said, Idle
<1>4. failed.kind # "delta" /\ refused.kind # "delta" OBVIOUS
<1>5. failed \in WireMessages /\ refused \in WireMessages
  <2>1. main.phase # "none" /\ main.seq + 1 \in Nat /\ i \in Nat BY MainTyped DEF StartFails, Submits
  <2>2. failed \in WireMessages BY <2>1, MainTyped, StatusTyped DEF Outcomes
  <2>3. refused \in WireMessages BY <2>1, RefusedTyped
  <2> QED BY <2>2, <2>3
<1>6. Pushed(main, <<<<"status", "failed">>>>) = <<failed>> BY PushedOne
<1> HIDE DEF failed
<1>7. wire' = wire \o <<failed>> \o <<refused>> BY <1>6 DEF StartFails, Reply
<1> HIDE DEF refused
<1>8. PICK r, q : r = failed /\ q = refused OBVIOUS
<1>9. r \in WireMessages /\ q \in WireMessages BY <1>5, <1>8
<1>10. r.kind # "delta" /\ q.kind # "delta" BY <1>4, <1>8
<1>11. wire' = wire \o <<r>> \o <<q>> /\ wire \in Seq(WireMessages) BY <1>7, <1>8, MainTyped
<1>12. wire' = wire \o <<r, q>> BY <1>9, <1>11, JoinTwo
<1>13. \E place : DeltasKept(wire', wire, place) BY <1>10, <1>11, <1>12, SameDeltas
<1>14. UNCHANGED <<screen, buffer, runs>> BY DEF StartFails
<1> QED BY <1>3, <1>13, <1>14, MainKeepsStream

LEMMA StartStream ==
  ASSUME ScreenInv, ScreenInv', StreamInv, NEW i \in Submits,
         Reserve(i) \/ Refuse(i) \/ Started(i) \/ StartFails(i) \/ SaveAnswer(i)
  PROVE  StreamInv'
<1> USE MainTyped
<1>0. UNCHANGED <<screen, buffer, runs>> BY DEF Reserve, Refuse, Started, StartFails, SaveAnswer
<1>1. CASE Reserve(i)
  <2>1. PICK m : m = [Idle EXCEPT !.run = i, !.talk = sends[i].talk, !.phase = "planning"] OBVIOUS
  <2>2. Push(m, <<<<"status", "busy">>>>) BY <1>1, <2>1 DEF Reserve
  <2>3. m.run = i BY <2>1 DEF Idle
  <2>4. main' = [m EXCEPT !.seq = m.seq + 1] BY <2>2, PushOne
  <2>5. main'.run = i BY <2>1, <2>3, <2>4 DEF Idle
  <2>6. sends[i].step = "asked" /\ sends' = [sends EXCEPT ![i].step = "starting"]
    BY <1>1 DEF Reserve
  <2>7. \A r \in Submits : r # i => sends'[r] = sends[r] BY <2>6
  <2>8. \A r \in Submits, n \in Nat : Said(r, n) => Said(r, n)' BY <2>5, <2>6, <2>7 DEF Said
  <2>9. \E place : DeltasKept(wire', wire, place) BY <2>2, PushedNoDelta
  <2> QED BY <1>0, <2>8, <2>9, MainKeepsStream
<1>2. CASE Refuse(i)
  <2>1. sends[i].step = "asked" /\ sends' = [sends EXCEPT ![i].step = "done"] /\ UNCHANGED main
    BY <1>2 DEF Refuse
  <2>2. \A r \in Submits : r # i => sends'[r] = sends[r] BY <2>1
  <2>3. \A r \in Submits, n \in Nat : Said(r, n) => Said(r, n)' BY <2>1, <2>2 DEF Said
  <2>4. \E place : DeltasKept(wire', wire, place) BY <1>2, RepliedNoDelta DEF Refuse
  <2> QED BY <1>0, <2>3, <2>4, MainKeepsStream
<1>3. CASE Started(i)
  <2>1. /\ sends[i].step = "starting" /\ sends' = [sends EXCEPT ![i].step = "done"]
        /\ sends[i] \in SendStates
    BY <1>3 DEF Started
  <2>2. sends'[i].step = "done" /\ \A r \in Submits : r # i => sends'[r] = sends[r]
    BY <2>1 DEF SendStates
  <2>3. CASE main.phase = "planning"
    <3>1. PICK m : m = [main EXCEPT !.phase = "running"] OBVIOUS
    <3>2. Push(m, <<<<"status", "busy">>>>) BY <1>3, <2>3, <3>1 DEF Started
    <3>3. main' = [m EXCEPT !.seq = m.seq + 1] BY <3>2, PushOne
    <3>4. main'.run = main.run /\ main'.deltas = main.deltas BY <3>1, <3>3 DEF MainStates
    <3>5. \A r \in Submits, n \in Nat : Said(r, n) => Said(r, n)' BY <2>2, <3>4 DEF Said
    <3>6. \E place : DeltasKept(wire', wire, place) BY <3>2, PushedNoDelta
    <3> QED BY <1>0, <3>5, <3>6, MainKeepsStream
  <2>4. CASE main.phase # "planning"
    <3>1. UNCHANGED <<main, wire>> BY <1>3, <2>4 DEF Started
    <3>2. \A r \in Submits, n \in Nat : Said(r, n) => Said(r, n)' BY <2>2, <3>1 DEF Said
    <3>3. \E place : DeltasKept(wire', wire, place) BY <3>1, SameDeltas
    <3> QED BY <1>0, <3>2, <3>3, MainKeepsStream
  <2> QED BY <2>3, <2>4
<1>4. CASE StartFails(i) BY <1>4, StartFailsStream
<1>5. CASE SaveAnswer(i)
  <2>1. UNCHANGED <<main, sends>> BY <1>5 DEF SaveAnswer
  <2>2. \A r \in Submits, n \in Nat : Said(r, n) => Said(r, n)' BY <2>1 DEF Said
  <2>3. \E place : DeltasKept(wire', wire, place) BY <1>5, RepliedNoDelta DEF SaveAnswer
  <2> QED BY <1>0, <2>2, <2>3, MainKeepsStream
<1> QED BY <1>1, <1>2, <1>3, <1>4, <1>5

LEMMA FinishedStream ==
  ASSUME ScreenInv, ScreenInv', StreamInv, Finished
  PROVE  StreamInv'
<1> DEFINE end == [kind |-> "status", what |-> main.outcome, run |-> main.run,
                   talk |-> main.talk, seq |-> main.seq + 1]
           over == [kind |-> "completed", what |-> IF main.stored THEN 1 ELSE 0,
                    run |-> main.run, talk |-> main.talk, seq |-> main.seq + 2]
<1>1. main' = Idle /\ UNCHANGED <<sends, screen, buffer, runs>> BY DEF Finished
<1>2. \A r \in Submits, n \in Nat : Said(r, n) => Said(r, n)' BY <1>1, MainTyped DEF Said, Idle
<1>3. end.kind # "delta" /\ over.kind # "delta" OBVIOUS
<1>4. wire' = wire \o <<end, over>>
  <2>1. Pushed(main, <<<<"status", main.outcome>>,
                       <<"completed", IF main.stored THEN 1 ELSE 0>>>>) = <<end, over>>
    BY PushedTwo
  <2> HIDE DEF end, over
  <2> QED BY <2>1 DEF Finished
<1> HIDE DEF end, over
<1>5. \E place : DeltasKept(wire', wire, place) BY <1>3, <1>4, MainTyped, SameDeltas
<1> QED BY <1>1, <1>2, <1>5, MainKeepsStream

LEMMA FinishesStream ==
  ASSUME ScreenInv, ScreenInv', StreamInv, NEW outcome, NEW saved, Finishes(outcome, saved)
  PROVE  StreamInv'
<1>1. /\ main' = [main EXCEPT !.phase = "finishing", !.outcome = outcome, !.stored = saved]
      /\ UNCHANGED <<wire, sends, screen, buffer, runs>>
  BY DEF Finishes
<1>2. main'.run = main.run /\ main'.deltas = main.deltas BY <1>1, MainTyped DEF MainStates
<1>3. \A r \in Submits, n \in Nat : Said(r, n) => Said(r, n)' BY <1>1, <1>2 DEF Said
<1>4. \E place : DeltasKept(wire', wire, place) BY <1>1, MainTyped, SameDeltas
<1> QED BY <1>1, <1>3, <1>4, MainKeepsStream

LEMMA CancelsStream ==
  ASSUME ScreenInv, ScreenInv', StreamInv, NEW c, MainCancels(c)
  PROVE  StreamInv'
<1>1. UNCHANGED <<sends, screen, buffer, runs>> BY DEF MainCancels
<1>2. CASE main.run = 0 \/ main.talk # c \/ main.phase = "finishing"
  <2>1. UNCHANGED main /\ wire' = wire \o Reply("refused", "cancel", 0, c)
    BY <1>2 DEF MainCancels
  <2>2. \A r \in Submits, n \in Nat : Said(r, n) => Said(r, n)' BY <1>1, <2>1 DEF Said
  <2>3. \E place : DeltasKept(wire', wire, place) BY <2>1, RepliedNoDelta
  <2> QED BY <1>1, <2>2, <2>3, MainKeepsStream
<1>3. CASE ~(main.run = 0 \/ main.talk # c \/ main.phase = "finishing")
  <2>1. PICK m : m = [main EXCEPT !.phase = "cancelling"] OBVIOUS
  <2>2. Push(m, <<<<"status", "cancelling">>>>) BY <1>3, <2>1 DEF MainCancels
  <2>3. main' = [m EXCEPT !.seq = m.seq + 1] BY <2>2, PushOne
  <2>4. main'.run = main.run /\ main'.deltas = main.deltas BY <2>1, <2>3, MainTyped DEF MainStates
  <2>5. \A r \in Submits, n \in Nat : Said(r, n) => Said(r, n)' BY <1>1, <2>4 DEF Said
  <2>6. \E place : DeltasKept(wire', wire, place) BY <2>2, PushedNoDelta
  <2> QED BY <1>1, <2>5, <2>6, MainKeepsStream
<1> QED BY <1>2, <1>3

LEMMA PageStream ==
  ASSUME ScreenInv, ScreenInv', StreamInv, NEW p \in pages, PageRead(p)
  PROVE  StreamInv'
<1>1. UNCHANGED <<main, sends, screen, buffer, runs>> BY DEF PageRead
<1>2. \A r \in Submits, n \in Nat : Said(r, n) => Said(r, n)' BY <1>1 DEF Said
<1>3. PICK answers, one :
         /\ wire' = wire \o Reply("page", answers, one, p.talk)
         /\ answers = InOrder(Messages(p.talk))
  BY DEF PageRead
<1>4. \E place : DeltasKept(wire', wire, place) BY <1>3, RepliedNoDelta
<1> QED BY <1>1, <1>2, <1>4, MainKeepsStream

-----------------------------------------------------------------------------
(* What the window does besides taking a piece of the text. *)
LEMMA WindowKeepsStream ==
  ASSUME ScreenInv, ScreenInv', StreamInv, UNCHANGED main,
         \A r \in Submits, n \in Nat : Said(r, n) => Said(r, n)',
         \/ buffer' = buffer /\ screen'.stream = screen.stream
         \/ buffer' = buffer /\ screen'.stream = <<>>
         \/ buffer' = <<>> /\ screen'.stream = screen.stream \o buffer
         \/ buffer' = <<>> /\ screen'.stream = <<>>,
         Turning(runs, runs'),
         \/ wire' = wire
         \/ wire # <<>> /\ wire' = Tail(wire)
         \/ \E place : Among(wire', wire, Len(wire), place)
  PROVE  StreamInv'
<1>1. LaterPart(Written', Written) BY TextKept
<1>2. wire \in Seq(WireMessages) /\ wire' \in Seq(WireMessages)
  <2>1. wire' \in Seq(WireMessages)
    BY DEF ScreenInv, RunTypes, WireMessages, StatusMessages, DeltaMessages, CompletedMessages,
           RefusedMessages, PageMessages, SavedMessages, Answers, Submits, Outcomes
  <2> QED BY <2>1, MainTyped
<1>3. \E place : DeltasKept(wire', wire, place)
  <2>1. CASE wire' = wire BY <1>2, <2>1, SameDeltas
  <2>2. CASE wire # <<>> /\ wire' = Tail(wire) BY <1>2, <2>2, TailDeltas
  <2>3. CASE \E place : Among(wire', wire, Len(wire), place) BY <1>2, <2>3, FewerDeltas
  <2> QED BY <2>1, <2>2, <2>3
<1> QED BY <1>1, <1>3, StreamKept

LEMMA SameSaid ==
  ASSUME UNCHANGED <<main, sends>>
  PROVE  \A r \in Submits, n \in Nat : Said(r, n) => Said(r, n)'
BY DEF Said

LEMMA RetiringTurns ==
  ASSUME ScreenInv
  PROVE  /\ Turning(runs, Retiring)
         /\ \A b : Turning(runs, [Retiring EXCEPT !.overlap = b])
<1>1. runs \in RunStates BY WindowTyped
<1>2. /\ Retiring.active = 0 /\ Retiring.retired = runs.retired \cup ({runs.active} \ {0})
      /\ \A b : LET r == [Retiring EXCEPT !.overlap = b] IN
                r.active = 0 /\ r.retired = runs.retired \cup ({runs.active} \ {0})
  BY <1>1 DEF Retiring, RunStates
<1> QED BY <1>2 DEF Turning

LEMMA ForgottenTurns ==
  ASSUME ScreenInv, NEW i \in Submits, finishing[i].step # "none"
  PROVE  Turning(runs, RunForgotten(i))
<1>1. runs \in RunStates /\ i \in runs.retired BY WindowTyped DEF ScreenInv, WindowWrites
<1>2. /\ RunForgotten(i).active = IF runs.active = i THEN 0 ELSE runs.active
      /\ RunForgotten(i).retired = runs.retired
  BY <1>1 DEF RunForgotten, RunStates
<1> QED BY <1>1, <1>2 DEF Turning

LEMMA NotedTurns ==
  ASSUME ScreenInv, NEW m, m.run \in Submits, m.seq \in Nat
  PROVE  /\ Turning(runs, Noted(m)) /\ Turning(runs, [Noted(m) EXCEPT !.retired = @ \cup {m.run}])
         /\ m.run \notin runs.retired =>
               /\ Turning(runs, Adopted(m))
               /\ Turning(runs, [Adopted(m) EXCEPT !.retired = @ \cup {m.run}])
<1>1. runs \in RunStates BY WindowTyped
<1>2. PICK r : r = Noted(m) OBVIOUS
<1>3. r \in RunStates /\ r.retired = runs.retired BY <1>1, <1>2, NotedTyped
<1>4. r.active = runs.active BY <1>1, <1>2 DEF Noted, RunStates
<1>5. PICK a : a = Adopted(m) OBVIOUS
<1>6. a \in RunStates /\ a.retired = runs.retired BY <1>1, <1>5, NotedTyped
<1>7. a.active = IF runs.active = 0 THEN m.run ELSE runs.active
  <2>1. a = [r EXCEPT !.active = IF runs.active = 0 THEN m.run ELSE r.active]
    BY <1>2, <1>5 DEF Adopted
  <2> QED BY <1>3, <1>4, <2>1 DEF RunStates
<1>8. /\ [r EXCEPT !.retired = @ \cup {m.run}].active = r.active
      /\ [r EXCEPT !.retired = @ \cup {m.run}].retired = r.retired \cup {m.run}
      /\ [a EXCEPT !.retired = @ \cup {m.run}].active = a.active
      /\ [a EXCEPT !.retired = @ \cup {m.run}].retired = a.retired \cup {m.run}
  BY <1>3, <1>6 DEF RunStates
<1> QED BY <1>2, <1>3, <1>4, <1>5, <1>6, <1>7, <1>8 DEF Turning

LEMMA ArrivesStream ==
  ASSUME ScreenInv, ScreenInv', StreamInv, Arrives
  PROVE  StreamInv'
<1>1. PICK m : m = Head(wire) OBVIOUS
<1>2. /\ Taken(m) /\ wire # <<>> /\ wire' = Tail(wire) /\ UNCHANGED <<main, sends>>
  BY <1>1 DEF Arrives, Taken
<1>3. \A r \in Submits, n \in Nat : Said(r, n) => Said(r, n)' BY <1>2, SameSaid
<1>4. m \in WireMessages BY <1>1, <1>2, HeadTyped
<1>5. m.seq \in Nat /\ (m.kind \in {"status", "delta", "completed"} => m.run \in Submits)
  BY <1>4, MessagesTyped
<1>6. Turning(runs, runs) /\ screen \in Screens BY SameTurns, WindowTyped
<1>7. CASE StatusArrives(m)
  <2>1. m.run \in Submits /\ buffer' = buffer BY <1>5, <1>7 DEF StatusArrives
  <2>2. \/ UNCHANGED <<screen, runs>>
        \/ runs' = Noted(m) /\ UNCHANGED screen
        \/ /\ Fresh(m) /\ runs' = Adopted(m)
           /\ screen' = [screen EXCEPT !.status = m.what,
                             !.finalizing = screen.finalizing \/ m.what = "completed"]
    BY <1>7 DEF StatusArrives
  <2>3. Turning(runs, runs') BY <1>5, <1>6, <2>1, <2>2, NotedTurns DEF Fresh
  <2>4. screen'.stream = screen.stream
    <3>1. CASE screen' = screen BY <3>1
    <3>2. CASE screen' = [screen EXCEPT !.status = m.what,
                             !.finalizing = screen.finalizing \/ m.what = "completed"]
      BY <1>6, <3>2 DEF Screens
    <3> QED BY <2>2, <3>1, <3>2
  <2> QED BY <1>2, <1>3, <2>1, <2>3, <2>4, WindowKeepsStream
<1>8. CASE DeltaArrives(m)
  <2>1. m.run \in Submits /\ UNCHANGED screen BY <1>5, <1>8 DEF DeltaArrives
  <2>2. CASE Fresh(m) /\ Ours(m)
    <3>1. runs' = Adopted(m) /\ buffer' = Append(buffer, <<m.run, m.what>>)
      BY <1>8, <2>2 DEF DeltaArrives
    <3> QED BY <1>2, <1>8, <2>2, <3>1, PieceArrives
  <2>3. CASE ~(Fresh(m) /\ Ours(m))
    <3>1. (UNCHANGED runs \/ runs' = Noted(m)) /\ UNCHANGED buffer
      BY <1>8, <2>3 DEF DeltaArrives
    <3>2. Turning(runs, runs') BY <1>5, <1>6, <2>1, <3>1, NotedTurns
    <3> QED BY <1>2, <1>3, <2>1, <3>1, <3>2, WindowKeepsStream
  <2> QED BY <2>2, <2>3
<1>9. CASE CompletedArrives(m)
  <2>1. m.run \in Submits BY <1>5, <1>9 DEF CompletedArrives
  <2>2. CASE Fresh(m) /\ FinishTurn(m)
    <3>1. runs' = [Adopted(m) EXCEPT !.retired = @ \cup {m.run}] /\ buffer' = <<>>
      BY <2>2 DEF FinishTurn
    <3>2. Turning(runs, runs') BY <1>5, <2>1, <2>2, <3>1, NotedTurns DEF Fresh
    <3>3. screen'.stream = <<>> \/ screen'.stream = screen.stream \o buffer
      <4>1. CASE m.what = 1 BY <1>6, <2>2, <4>1 DEF FinishTurn, Screens
      <4>2. CASE m.what # 1 BY <1>6, <2>2, <4>2 DEF FinishTurn, Screens
      <4> QED BY <4>1, <4>2
    <3> QED BY <1>2, <1>3, <3>1, <3>2, <3>3, WindowKeepsStream
  <2>3. CASE CompletedElsewhere(m)
    <3>1. runs' = [Noted(m) EXCEPT !.retired = @ \cup {m.run}] /\ UNCHANGED buffer
      BY <2>3 DEF CompletedElsewhere
    <3>2. Turning(runs, runs') BY <1>5, <2>1, <3>1, NotedTurns
    <3>3. \/ screen' = [screen EXCEPT !.messages = Shown(m.talk, <<m.run, "main">>),
                                      !.stream = <<>>]
          \/ screen' = screen
      BY <2>3 DEF CompletedElsewhere
    <3>4. screen'.stream = <<>> \/ screen'.stream = screen.stream BY <1>6, <3>3 DEF Screens
    <3> QED BY <1>2, <1>3, <3>1, <3>2, <3>4, WindowKeepsStream
  <2>4. CASE (UNCHANGED runs \/ runs' = Noted(m)) /\ UNCHANGED <<screen, buffer>>
    <3>1. Turning(runs, runs') BY <1>5, <1>6, <2>1, <2>4, NotedTurns
    <3> QED BY <1>2, <1>3, <2>4, <3>1, WindowKeepsStream
  <2> QED BY <1>9, <2>2, <2>3, <2>4 DEF CompletedArrives
<1>10. CASE SendRefused(m)
  <2>1. /\ runs' = Retiring /\ buffer' = buffer
        /\ screen' = [screen EXCEPT !.finalizing = FALSE, !.status = "failed"]
    BY <1>10 DEF SendRefused
  <2>2. Turning(runs, runs') BY <2>1, RetiringTurns
  <2>3. screen'.stream = screen.stream BY <1>6, <2>1 DEF Screens
  <2> QED BY <1>2, <1>3, <2>1, <2>2, <2>3, WindowKeepsStream
<1>11. CASE CancelRefused(m)
  <2>1. UNCHANGED <<runs, buffer>> /\ screen' = [screen EXCEPT !.status = "failed"]
    BY <1>11 DEF CancelRefused
  <2>2. screen'.stream = screen.stream BY <1>6, <2>1 DEF Screens
  <2> QED BY <1>2, <1>3, <1>6, <2>1, <2>2, WindowKeepsStream
<1>12. CASE PageTaken(m)
  <2>1. UNCHANGED <<runs, buffer>> BY <1>12 DEF PageTaken
  <2>2. screen'.stream = screen.stream BY <1>6, <1>12 DEF PageTaken, Screens
  <2> QED BY <1>2, <1>3, <1>6, <2>1, <2>2, WindowKeepsStream
<1>13. CASE SavedShown(m)
  <2>1. UNCHANGED <<runs, buffer>> BY <1>13 DEF SavedShown
  <2>2. screen'.stream = <<>> \/ screen'.stream = screen.stream
    BY <1>6, <1>13 DEF SavedShown, Screens
  <2> QED BY <1>2, <1>3, <1>6, <2>1, <2>2, WindowKeepsStream
<1>14. \/ StatusArrives(m) \/ DeltaArrives(m) \/ CompletedArrives(m)
       \/ SendRefused(m) \/ CancelRefused(m) \/ PageTaken(m) \/ SavedShown(m)
  BY <1>1 DEF Arrives
<1> QED BY <1>7, <1>8, <1>9, <1>10, <1>11, <1>12, <1>13, <1>14

LEMMA UserStream ==
  ASSUME ScreenInv, ScreenInv', StreamInv,
         \/ Cancel \/ FlushStream
         \/ \E i \in Submits : Submit(i) \/ TurnFinished(i) \/ TurnFinishFails(i)
         \/ \E c \in Talks : Open(c)
  PROVE  StreamInv'
<1>1. Turning(runs, runs) /\ screen \in Screens /\ sends \in [Submits -> SendStates]
  BY SameTurns, WindowTyped
<1>2. CASE Cancel
  <2>1. /\ UNCHANGED <<main, wire, sends, buffer, runs>>
        /\ screen' = [screen EXCEPT !.status = "cancelling"]
    BY <1>2 DEF Cancel
  <2>2. screen'.stream = screen.stream BY <1>1, <2>1 DEF Screens
  <2> QED BY <1>1, <2>1, <2>2, SameSaid, WindowKeepsStream
<1>3. CASE FlushStream
  <2>1. /\ UNCHANGED <<main, wire, sends, runs>> /\ buffer' = <<>>
        /\ screen' = [screen EXCEPT !.stream = screen.stream \o buffer]
    BY <1>3 DEF FlushStream
  <2>2. screen'.stream = screen.stream \o buffer BY <1>1, <2>1 DEF Screens
  <2> QED BY <1>1, <2>1, <2>2, SameSaid, WindowKeepsStream
<1>4. ASSUME NEW i \in Submits, Submit(i) PROVE StreamInv'
  <2>1. /\ UNCHANGED <<main, wire, buffer>> /\ sends[i].step = "none"
        /\ runs' = [Retiring EXCEPT !.overlap = @ \/ ~AllOver]
        /\ screen' = [screen EXCEPT !.status = "busy", !.stream = <<>>]
        /\ sends' = [sends EXCEPT ![i] = [step |-> "asked", talk |-> screen.talk]]
    BY <1>4 DEF Submit
  <2>2. PICK r : r = Retiring OBVIOUS
  <2>3. PICK b \in BOOLEAN : runs' = [r EXCEPT !.overlap = b]
    <3>1. (r.overlap \/ ~AllOver) \in BOOLEAN OBVIOUS
    <3> QED BY <2>1, <2>2, <3>1, Zenon
  <2>4. Turning(runs, runs') BY <2>2, <2>3, RetiringTurns
  <2>5. screen'.stream = <<>> BY <1>1, <2>1 DEF Screens
  <2>6. \A j \in Submits : j # i => sends'[j] = sends[j] BY <1>1, <2>1
  <2>7. \A j \in Submits, n \in Nat : Said(j, n) => Said(j, n)' BY <2>1, <2>6 DEF Said
  <2> QED BY <2>1, <2>4, <2>5, <2>7, WindowKeepsStream
<1>5. ASSUME NEW i \in Submits, TurnFinished(i) \/ TurnFinishFails(i) PROVE StreamInv'
  <2>1. /\ UNCHANGED <<main, wire, sends, buffer>> /\ finishing[i].step # "none"
        /\ runs' = RunForgotten(i)
    BY <1>5 DEF TurnFinished, TurnFinishFails
  <2>2. screen'.stream = screen.stream
    BY <1>1, <1>5 DEF TurnFinished, TurnFinishFails, Screens
  <2>3. Turning(runs, runs') BY <2>1, ForgottenTurns
  <2> QED BY <2>1, <2>2, <2>3, SameSaid, WindowKeepsStream
<1>6. ASSUME NEW c \in Talks, Open(c) PROVE StreamInv'
  <2>1. /\ UNCHANGED <<main, sends, buffer, runs>> /\ wire' = Unawaited(wire)
        /\ screen' = [screen EXCEPT !.talk = c, !.stream = <<>>, !.reads = screen.reads + 1]
    BY <1>6 DEF Open
  <2>2. screen'.stream = <<>> BY <1>1, <2>1 DEF Screens
  <2>3. \E place : Among(wire', wire, Len(wire), place) BY <2>1, MainTyped, UnawaitedAmong
  <2> QED BY <1>1, <2>1, <2>2, <2>3, SameSaid, WindowKeepsStream
<1> QED BY <1>2, <1>3, <1>4, <1>5, <1>6

LEMMA StreamStep ==
  ASSUME ScreenInv, ScreenInv', StreamInv, [RunNext]_runVars
  PROVE  StreamInv'
<1>1. CASE UNCHANGED runVars
  <2>1. UNCHANGED <<main, wire, sends, screen, buffer, runs>> BY <1>1 DEF runVars
  <2> QED BY <2>1, SameTurns, SameSaid, WindowKeepsStream
<1>2. CASE MainSteps
  <2>1. CASE Finished BY <2>1, FinishedStream
  <2>2. ASSUME NEW o \in {"completed", "failed", "ready"}, NEW saved \in BOOLEAN,
               Finishes(o, saved)
        PROVE StreamInv'
    BY <2>2, FinishesStream
  <2>3. ASSUME NEW i \in Submits,
               Reserve(i) \/ Refuse(i) \/ Started(i) \/ StartFails(i) \/ SaveAnswer(i)
        PROVE StreamInv'
    BY <2>3, StartStream
  <2>4. ASSUME NEW c \in Talks, MainCancels(c) PROVE StreamInv' BY <2>4, CancelsStream
  <2>5. ASSUME NEW p \in pages, PageRead(p) PROVE StreamInv' BY <2>5, PageStream
  <2> QED BY <1>2, <2>1, <2>2, <2>3, <2>4, <2>5 DEF MainSteps
<1>3. CASE Delta BY <1>3, DeltaSent
<1>4. CASE WindowSteps BY <1>4, ArrivesStream, UserStream DEF WindowSteps
<1>5. CASE UserSteps BY <1>5, UserStream DEF UserSteps
<1> QED BY <1>1, <1>2, <1>3, <1>4, <1>5 DEF RunNext

LEMMA StreamInitially ==
  ASSUME RunInit
  PROVE  StreamInv
<1>1. screen.stream = <<>> /\ buffer = <<>> /\ wire = <<>> BY DEF RunInit
<1>2. Written = <<>> /\ Len(Written) = 0 /\ Len(wire) = 0 BY <1>1 DEF Written
<1>3. \A i \in 1 .. 0 : FALSE OBVIOUS
<1>4. InTurn(Written, runs.active, runs.retired) BY <1>2, <1>3 DEF InTurn
<1>5. Follow(wire, Written) BY <1>2, <1>3 DEF Follow
<1>6. AllSaid(wire, Written) BY <1>2, <1>3 DEF AllSaid
<1> QED BY <1>4, <1>5, <1>6 DEF StreamInv

LEMMA StreamInvSuffices ==
  ASSUME ScreenInv, StreamInv
  PROVE  StreamInOrder
<1>1. PICK text : text = Written /\ InTurn(text, runs.active, runs.retired) BY DEF StreamInv
<1>2. text \in StreamTexts
  <2>1. screen.stream \in StreamTexts /\ buffer \in StreamTexts BY WindowTyped DEF StreamTexts
  <2> QED BY <1>1, <2>1, JoinTyped DEF Written, StreamTexts
<1>3. DOMAIN text = 1 .. Len(text) BY <1>2 DEF StreamTexts
<1>4. screen.stream \o buffer = text BY <1>1 DEF Written
<1> QED BY <1>1, <1>3, <1>4 DEF InTurn, StreamInOrder

(* The pieces of an answer are on the screen in the order the model wrote them,   *)
(* none of them twice and none between those of another run, whatever was         *)
(* submitted, cancelled, refused or opened meanwhile: what is left of an earlier  *)
(* run never joins the text of the one that goes on. For any conversations,       *)
(* submits and lengths of an answer (useAgentRunController, useTurnLifecycle,     *)
(* useBufferedAgentEvents).                                                           *)
THEOREM TextsComeInOrder ==
  ASSUME MaxSubmits \in Nat, MaxDeltas \in Nat
  PROVE  RunSpec => []StreamInOrder
<1>1. RunInit => ScreenInv /\ StreamInv BY ScreenInitially, StreamInitially
<1>2. ScreenInv /\ StreamInv /\ [RunNext]_runVars => ScreenInv' /\ StreamInv'
  BY ScreenStep, StreamStep
<1>3. ScreenInv /\ StreamInv => StreamInOrder BY StreamInvSuffices
<1> QED BY <1>1, <1>2, <1>3, PTL DEF RunSpec

-----------------------------------------------------------------------------
(* SemanticSearch.  The units of a path are of one text, that of the row they were *)
(* made for: they are replaced together.                                          *)
Versions == 0 .. MaxVersions
UnitRows == [path : Files, place : Places, hash : Versions]
SearchStates == [step : {"idle", "embedding", "verifying", "answered"},
                 lexical : SUBSET UnitRows, ranked : Seq(UnitRows)]

SearchTypes ==
    /\ onDisk \in [Files -> Versions]
    /\ indexRows \in [Files -> [observed : Versions, analyzed : Versions]]
    /\ units \in SUBSET UnitRows
    /\ search \in SearchStates
    /\ validity \in [Files -> {"unasked", "reading", "stale", "unknown", "current"}]
    /\ readAs \in [Files -> Versions]
    /\ reindexed \in BOOLEAN

OneText(set) == \A u, v \in set : u.path = v.path => u.hash = v.hash

(* The units of the first matches are still there when the candidates are taken,   *)
(* unless some were replaced; so those that are ranked are of one text for a path. *)
MatchesAreUnits == search.step = "embedding" /\ ~reindexed => search.lexical \subseteq units

RankedUnits == {search.ranked[i] : i \in DOMAIN search.ranked}
RankedAreOneText == search.step \in {"verifying", "answered"} /\ ~reindexed => OneText(RankedUnits)

(* What has been told of a path is about the text that was read of it. *)
RankedAreVerified ==
    /\ \A p \in Files : validity[p] = "reading" =>
          search.step = "verifying" /\ \E u \in RankedUnits : u.path = p
    /\ search.step \in {"verifying", "answered"} => \A u \in RankedUnits : validity[u.path] # "unasked"
    /\ search.step \in {"verifying", "answered"} /\ ~reindexed =>
          \A u \in RankedUnits : validity[u.path] = "current" => u.hash = readAs[u.path]
    /\ search.step = "answered" => \A u \in RankedUnits : validity[u.path] # "stale"

SearchInv ==
    /\ SearchTypes /\ OneText(units)
    /\ MatchesAreUnits /\ RankedAreOneText /\ RankedAreVerified

SearchAssumption ==
    /\ IsFiniteSet(Files) /\ IsFiniteSet(Places)
    /\ MaxVersions \in Nat \ {0} /\ SearchLimit \in Nat

(* There are finitely many units. *)
LEMMA UnitsAreFinite ==
  ASSUME SearchAssumption, NEW S \in SUBSET UnitRows
  PROVE  IsFiniteSet(S) /\ Cardinality(S) \in Nat
<1> DEFINE UnitOf(t) == Unit(t[1], t[2][1], t[2][2])
           All == Files \X (Places \X Versions)
           f == [t \in All |-> UnitOf(t)]
<1>1. IsFiniteSet(Versions)
  <2>1. 0 \in Int /\ MaxVersions \in Int BY DEF SearchAssumption
  <2> QED BY <2>1, FS_Interval DEF Versions
<1>2. IsFiniteSet(Places \X Versions) BY <1>1, FS_Product DEF SearchAssumption
<1>3. IsFiniteSet(All) BY <1>2, FS_Product DEF SearchAssumption
<1>4. f \in Surjection(All, UnitRows)
  <2>1. \A t \in All : f[t] \in UnitRows BY DEF Unit, UnitRows
  <2>2. ASSUME NEW u \in UnitRows PROVE \E t \in All : f[t] = u
    <3>1. <<u.path, <<u.place, u.hash>>>> \in All BY DEF UnitRows
    <3>2. u = [path |-> u.path, place |-> u.place, hash |-> u.hash] BY DEF UnitRows
    <3>3. f[<<u.path, <<u.place, u.hash>>>>] = u BY <3>1, <3>2 DEF Unit
    <3> QED BY <3>1, <3>3
  <2>3. f \in [All -> UnitRows] BY <2>1
  <2> QED BY <2>2, <2>3 DEF Surjection
<1>5. IsFiniteSet(UnitRows)
  <2> HIDE DEF f, All
  <2> QED BY <1>3, <1>4, FS_Surjection
<1>6. IsFiniteSet(S) BY <1>5, FS_Subset
<1> QED BY <1>6, FS_CardinalityType

LEMMA SearchInitInv ==
  ASSUME SearchAssumption, SearchInit
  PROVE  SearchInv
<1>1. MaxVersions \in Nat /\ MaxVersions # 0 /\ 0 \in Versions /\ 1 \in Versions
  BY DEF SearchAssumption, Versions
<1>2. PICK S \in SUBSET Places : units = UnitsOf(Files, S, 1) BY DEF SearchInit
<1>3. units \in SUBSET UnitRows BY <1>1, <1>2 DEF UnitsOf, Unit, UnitRows
<1>4. OneText(units) BY <1>2 DEF UnitsOf, Unit, OneText
<1>5. search \in SearchStates /\ search.step = "idle" BY DEF SearchInit, NoSearch, SearchStates
<1>6. SearchTypes BY <1>1, <1>3, <1>5 DEF SearchInit, SearchTypes, IndexRow
<1>7. \A p \in Files : validity[p] # "reading" BY DEF SearchInit
<1>8. RankedAreVerified BY <1>5, <1>7 DEF RankedAreVerified
<1> QED BY <1>4, <1>5, <1>6, <1>8 DEF SearchInv, MatchesAreUnits, RankedAreOneText

(* A file or its row changes: nothing of the search. *)
LEMMA RowsChangeKeeps ==
  ASSUME SearchInv, UNCHANGED <<units, search, validity, readAs, reindexed>>,
         onDisk' \in [Files -> Versions],
         indexRows' \in [Files -> [observed : Versions, analyzed : Versions]]
  PROVE  SearchInv'
<1>1. SearchTypes' BY DEF SearchInv, SearchTypes
<1>2. RankedUnits' = RankedUnits BY DEF RankedUnits
<1> QED BY <1>1, <1>2 DEF SearchInv, MatchesAreUnits, RankedAreOneText, RankedAreVerified

LEMMA RowStepsKeep ==
  ASSUME SearchAssumption, SearchInv, NEW p \in Files, Edit(p) \/ Observe(p) \/ Analyze(p)
  PROVE  SearchInv'
<1>1. /\ onDisk \in [Files -> Versions]
      /\ indexRows \in [Files -> [observed : Versions, analyzed : Versions]]
  BY DEF SearchInv, SearchTypes
<1>2. MaxVersions \in Nat BY DEF SearchAssumption
<1>3. UNCHANGED <<units, search, validity, readAs, reindexed>> BY DEF Edit, Observe, Analyze
<1>4. onDisk' \in [Files -> Versions]
  <2>1. CASE Edit(p)
    <3>1. (IF onDisk[p] < MaxVersions THEN onDisk[p] + 1 ELSE 0) \in Versions
      BY <1>1, <1>2 DEF Versions
    <3> QED BY <1>1, <2>1, <3>1 DEF Edit
  <2>2. CASE ~Edit(p) BY <1>1, <2>2 DEF Observe, Analyze
  <2> QED BY <2>1, <2>2
<1>5. indexRows' \in [Files -> [observed : Versions, analyzed : Versions]]
  <2>1. onDisk[p] \in Versions BY <1>1
  <2>2. CASE Edit(p) BY <1>1, <2>2 DEF Edit
  <2>3. CASE Observe(p) BY <1>1, <2>1, <2>3 DEF Observe
  <2>4. CASE Analyze(p) BY <1>1, <2>1, <2>4 DEF Analyze, IndexRow
  <2> QED BY <2>2, <2>3, <2>4
<1> QED BY <1>3, <1>4, <1>5, RowsChangeKeeps

LEMMA ReindexKeeps ==
  ASSUME SearchInv, NEW p \in Files, Reindex(p)
  PROVE  SearchInv'
<1>1. SearchTypes /\ OneText(units) BY DEF SearchInv
<1>2. PICK hash : hash = indexRows[p].analyzed OBVIOUS
<1>3. hash \in Versions BY <1>1, <1>2 DEF SearchTypes
<1>4. PICK S \in SUBSET Places :
        units' = {u \in units : u.path # p} \cup UnitsOf({p}, S, hash)
  BY <1>2 DEF Reindex
<1>5. /\ reindexed' = (reindexed \/ search.step = "embedding")
      /\ UNCHANGED <<onDisk, indexRows, search, validity, readAs>>
  BY DEF Reindex
<1>6. \A u \in UnitsOf({p}, S, hash) : u \in UnitRows /\ u.path = p /\ u.hash = hash
  BY <1>3 DEF UnitsOf, Unit, UnitRows
<1>7. OneText(units') BY <1>1, <1>4, <1>6 DEF OneText
<1>8. units' \in SUBSET UnitRows BY <1>1, <1>4, <1>6 DEF SearchTypes
<1>9. SearchTypes' BY <1>1, <1>5, <1>8 DEF SearchTypes
<1>10. RankedUnits' = RankedUnits BY <1>5 DEF RankedUnits
<1>11. MatchesAreUnits' BY <1>5 DEF MatchesAreUnits
<1>12. ~reindexed' => ~reindexed BY <1>5
<1>13. RankedAreOneText' BY <1>5, <1>10, <1>12 DEF SearchInv, RankedAreOneText
<1>14. RankedAreVerified' BY <1>5, <1>10, <1>12 DEF SearchInv, RankedAreVerified
<1> QED BY <1>7, <1>9, <1>11, <1>13, <1>14 DEF SearchInv, OneText

LEMMA SearchKeeps ==
  ASSUME SearchInv, Search
  PROVE  SearchInv'
<1>1. SearchTypes BY Zenon DEF SearchInv
<1>2. PICK S \in SUBSET units :
        search' = [NoSearch EXCEPT !.step = "embedding",
                                   !.lexical = {u \in S : StructurallyCurrent(u)}]
  BY DEF Search
<1>3. UNCHANGED <<onDisk, indexRows, units, validity, readAs, reindexed>>
  BY DEF Search, RowsSame
<1>4. search' = [step |-> "embedding", lexical |-> {u \in S : StructurallyCurrent(u)},
                 ranked |-> <<>>]
  BY <1>2 DEF NoSearch
<1>5. search'.step = "embedding" /\ search'.lexical \subseteq units BY <1>4
<1>6. search' \in SearchStates BY <1>1, <1>4 DEF SearchTypes, SearchStates
<1>7. SearchTypes' BY <1>1, <1>3, <1>6 DEF SearchTypes
<1>8. \A p \in Files : validity[p] # "reading"
  BY DEF SearchInv, RankedAreVerified, Search
<1>9. MatchesAreUnits' BY <1>3, <1>5 DEF MatchesAreUnits
<1>10. RankedAreOneText' BY <1>5 DEF RankedAreOneText
<1>11. RankedAreVerified' BY <1>3, <1>5, <1>8 DEF RankedAreVerified
<1>12. OneText(units') BY <1>3 DEF SearchInv
<1> QED BY <1>7, <1>9, <1>10, <1>11, <1>12 DEF SearchInv, OneText

(* The first unit of a path stands for one that is ranked. *)
LEMMA FirstUnitIs ==
  ASSUME NEW ranked \in Seq(UnitRows), NEW p, p \in PathsOf(ranked)
  PROVE  \E i \in DOMAIN ranked : FirstUnit(ranked, p) = ranked[i] /\ ranked[i].path = p
<1> DEFINE At == {i \in DOMAIN ranked : ranked[i].path = p}
           Is(i) == ranked[i].path = p /\ \A j \in 1 .. i - 1 : ranked[j].path # p
<1>1. DOMAIN ranked = 1 .. Len(ranked) /\ Len(ranked) \in Nat OBVIOUS
<1>2. At \in SUBSET Nat /\ At # {} BY <1>1 DEF PathsOf
<1>3. PICK i \in At : \A j \in At : ~(j < i)
  <2> HIDE DEF At
  <2> QED BY <1>2, LeastOfSet
<1>4. i \in DOMAIN ranked /\ Is(i)
  <2>1. i \in DOMAIN ranked /\ ranked[i].path = p BY <1>3
  <2>2. ASSUME NEW j \in 1 .. i - 1 PROVE ranked[j].path # p
    <3>1. j \in DOMAIN ranked /\ j < i BY <1>1, <2>1
    <3> QED BY <1>3, <3>1
  <2> QED BY <2>1, <2>2
<1>5. PICK k : k = CHOOSE i1 \in DOMAIN ranked : Is(i1) OBVIOUS
<1>6. k \in DOMAIN ranked /\ Is(k)
  <2> HIDE DEF Is
  <2> QED BY <1>4, <1>5
<1>7. FirstUnit(ranked, p) = ranked[k] BY <1>5 DEF FirstUnit
<1> QED BY <1>6, <1>7

(* Ranking: the units are of one text for a path if none were replaced meanwhile. *)
LEMMA RankKeeps ==
  ASSUME SearchAssumption, SearchInv, Rank
  PROVE  SearchInv'
<1>1. SearchTypes /\ OneText(units) /\ search.step = "embedding"
      /\ search.lexical \in SUBSET UnitRows /\ units \in SUBSET UnitRows
  BY DEF SearchInv, Rank, SearchTypes, SearchStates
<1> DEFINE Ranks(ranked) ==
        LET best == SubSeq(ranked, 1, Least(Len(ranked), 2 * SearchLimit)) IN
        /\ search' = [search EXCEPT !.step = "verifying", !.ranked = best]
        /\ validity' = [p \in Files |->
              IF p \notin PathsOf(best) THEN "unasked"
              ELSE IF StructurallyCurrent(FirstUnit(best, p)) THEN "reading" ELSE "stale"]
<1>a. PICK S \in SUBSET Matches : \E ranked \in Seqs!SetToSeqs(S) : Ranks(ranked) BY DEF Rank
<1>2. PICK ranked \in Seqs!SetToSeqs(S) : Ranks(ranked) BY <1>a
<1>3. PICK best : best = SubSeq(ranked, 1, Least(Len(ranked), 2 * SearchLimit)) OBVIOUS
<1>4. /\ search' = [search EXCEPT !.step = "verifying", !.ranked = best]
      /\ validity' = [p \in Files |->
              IF p \notin PathsOf(best) THEN "unasked"
              ELSE IF StructurallyCurrent(FirstUnit(best, p)) THEN "reading" ELSE "stale"]
  BY <1>2, <1>3
<1>5. UNCHANGED <<onDisk, indexRows, units, readAs, reindexed>> BY DEF Rank, RowsSame
<1>6. S \in SUBSET UnitRows BY <1>1 DEF Matches
<1>7. ranked \in Seq(S)
  <2>1. Cardinality(S) \in Nat BY <1>6, UnitsAreFinite
  <2>2. ranked \in [1 .. Seqs!Cardinality(S) -> S] BY DEF Seqs!SetToSeqs
  <2>3. Seqs!Cardinality(S) = Cardinality(S) BY DEF Seqs!Cardinality, Cardinality
  <2> QED BY <2>1, <2>2, <2>3
<1>8. best \in Seq(S)
  <2>1. Len(ranked) \in Nat /\ SearchLimit \in Nat BY <1>7 DEF SearchAssumption
  <2>2. Least(Len(ranked), 2 * SearchLimit) \in 0 .. Len(ranked) BY <2>1 DEF Least
  <2>3. \A m \in 0 .. Len(ranked) : SubSeq(ranked, 1, m) \in Seq(S) BY <1>7
  <2> QED BY <1>3, <2>2, <2>3
<1>9. best \in Seq(UnitRows) BY <1>6, <1>8
<1>10. /\ search' \in SearchStates /\ search'.step = "verifying" /\ search'.ranked = best
  BY <1>1, <1>4, <1>9 DEF SearchTypes, SearchStates
<1>11. validity' \in [Files -> {"unasked", "reading", "stale", "unknown", "current"}] BY <1>4
<1>12. SearchTypes' BY <1>1, <1>5, <1>10, <1>11 DEF SearchTypes
<1>13. RankedUnits' = {best[i] : i \in DOMAIN best} BY <1>10 DEF RankedUnits
<1>14. \A u \in RankedUnits' : u \in S /\ u \in UnitRows BY <1>6, <1>8, <1>13
<1>15. OneText(units') BY <1>1, <1>5
<1>16. MatchesAreUnits' BY <1>10 DEF MatchesAreUnits
<1>17. RankedAreOneText'
  <2> SUFFICES ASSUME ~reindexed PROVE OneText(RankedUnits') BY <1>5 DEF RankedAreOneText
  <2>1. Matches \subseteq units BY <1>1 DEF SearchInv, MatchesAreUnits, Matches
  <2>2. \A u \in RankedUnits' : u \in units BY <1>14, <2>1
  <2> QED BY <1>1, <2>2 DEF OneText
<1>18. \A p \in Files : p \in PathsOf(best) <=> \E u \in RankedUnits' : u.path = p
  BY <1>13 DEF PathsOf
<1>19. \A p \in Files : /\ validity'[p] # "current"
                        /\ validity'[p] = "reading" => p \in PathsOf(best)
                        /\ p \in PathsOf(best) => validity'[p] # "unasked"
  BY <1>4
<1>20. \A u \in RankedUnits' : u.path \in Files BY <1>14 DEF UnitRows
<1>21. RankedAreVerified' BY <1>10, <1>18, <1>19, <1>20 DEF RankedAreVerified
<1> QED BY <1>12, <1>15, <1>16, <1>17, <1>21 DEF SearchInv

LEMMA VerifyKeeps ==
  ASSUME SearchInv, NEW p \in Files, Verify(p)
  PROVE  SearchInv'
<1>1. SearchTypes /\ OneText(units) BY DEF SearchInv
<1>2. /\ validity[p] = "reading"
      /\ UNCHANGED <<onDisk, indexRows, units, search, reindexed>>
  BY DEF Verify, RowsSame
<1>3. search.step = "verifying" /\ \E u \in RankedUnits : u.path = p
  BY <1>2 DEF SearchInv, RankedAreVerified
<1>4. search.ranked \in Seq(UnitRows) BY <1>1 DEF SearchTypes, SearchStates
<1>5. p \in PathsOf(search.ranked) BY <1>3 DEF RankedUnits, PathsOf
<1>6. PICK u : u = FirstUnit(search.ranked, p) OBVIOUS
<1>7. u \in RankedUnits /\ u.path = p BY <1>4, <1>5, <1>6, FirstUnitIs DEF RankedUnits
<1>8. PICK told, version : /\ validity' = [validity EXCEPT ![p] = told]
                           /\ told \in {"current", "stale", "unknown"}
                           /\ version \in Versions
                           /\ readAs' = [readAs EXCEPT ![p] = version]
                           /\ told = "current" => version = u.hash
  <2>1. onDisk[p] \in Versions /\ readAs[p] \in Versions BY <1>1 DEF SearchTypes
  <2>2. CASE /\ validity' = [validity EXCEPT ![p] = Verdict(FirstUnit(search.ranked, p), onDisk[p])]
             /\ readAs' = [readAs EXCEPT ![p] = onDisk[p]]
    <3>1. PICK version : version = onDisk[p] OBVIOUS
    <3>2. PICK told : told = Verdict(u, version) OBVIOUS
    <3>3. told \in {"current", "stale"} /\ (told = "current" => version = u.hash)
      BY <3>2 DEF Verdict
    <3>4. /\ validity' = [validity EXCEPT ![p] = told]
          /\ readAs' = [readAs EXCEPT ![p] = version]
      BY <1>6, <2>2, <3>1, <3>2
    <3>5. version \in Versions BY <2>1, <3>1
    <3> QED BY <3>3, <3>4, <3>5
  <2>3. CASE validity' = [validity EXCEPT ![p] = "unknown"] /\ UNCHANGED readAs
    <3>1. PICK version : version = readAs[p] OBVIOUS
    <3>2. readAs' = [readAs EXCEPT ![p] = version] BY <1>1, <2>3, <3>1 DEF SearchTypes
    <3>3. PICK told : told = "unknown" OBVIOUS
    <3>4. validity' = [validity EXCEPT ![p] = told] BY <2>3, <3>3
    <3>5. version \in Versions BY <2>1, <3>1
    <3>6. told \in {"current", "stale", "unknown"} /\ (told = "current" => version = u.hash)
      BY <3>3
    <3> QED BY <3>2, <3>4, <3>5, <3>6
  <2> QED BY <2>2, <2>3 DEF Verify
<1>9. /\ validity' \in [Files -> {"unasked", "reading", "stale", "unknown", "current"}]
      /\ readAs' \in [Files -> Versions]
      /\ validity'[p] = told /\ readAs'[p] = version
      /\ \A q \in Files : q # p => validity'[q] = validity[q] /\ readAs'[q] = readAs[q]
  BY <1>1, <1>8 DEF SearchTypes
<1>10. SearchTypes' BY <1>1, <1>2, <1>9 DEF SearchTypes
<1>11. RankedUnits' = RankedUnits BY <1>2 DEF RankedUnits
<1>12. \A v \in RankedUnits : v.path \in Files
  <2>1. \A v \in RankedUnits : v \in UnitRows BY <1>4 DEF RankedUnits
  <2> QED BY <2>1 DEF UnitRows
<1>13. MatchesAreUnits' /\ RankedAreOneText'
  BY <1>2, <1>11 DEF SearchInv, MatchesAreUnits, RankedAreOneText
<1>14. ASSUME NEW v \in RankedUnits
       PROVE  /\ validity'[v.path] # "unasked"
              /\ ~reindexed /\ validity'[v.path] = "current" => v.hash = readAs'[v.path]
  <2>1. CASE v.path = p
    <3>1. ~reindexed => v.hash = u.hash
      BY <1>3, <1>7, <2>1 DEF SearchInv, RankedAreOneText, OneText
    <3> QED BY <1>8, <1>9, <2>1, <3>1
  <2>2. CASE v.path # p BY <1>3, <1>9, <1>12, <2>2 DEF SearchInv, RankedAreVerified
  <2> QED BY <2>1, <2>2
<1>15. \A q \in Files : validity'[q] = "reading" => validity[q] = "reading" BY <1>2, <1>9
<1>16. RankedAreVerified'
  BY <1>2, <1>3, <1>11, <1>14, <1>15 DEF SearchInv, RankedAreVerified
<1>17. OneText(units') BY <1>1, <1>2
<1> QED BY <1>10, <1>13, <1>16, <1>17 DEF SearchInv

(* What is answered is what was ranked, without what is stale. *)
NotStale(ranked) == {ranked[i] : i \in {k \in DOMAIN ranked : validity[ranked[k].path] # "stale"}}

LEMMA FreshUpToSteps ==
  ASSUME NEW ranked \in Seq(UnitRows), NEW next, next = FreshUpTo(ranked)
  PROVE  /\ next[0] = <<>>
         /\ \A n \in 1 .. Len(ranked) :
               next[n] = IF validity[ranked[n].path] = "stale" THEN next[n - 1]
                         ELSE Append(next[n - 1], ranked[n])
<1> DEFINE len == Len(ranked)
           One(n, sofar) == IF validity[ranked[n].path] = "stale" THEN sofar
                            ELSE Append(sofar, ranked[n])
           step == [n \in 1 .. len |-> [r \in Seq(UnitRows) |-> One(n, r)]]
           Is(f) == f = [n \in 0 .. len |-> IF n = 0 THEN <<>> ELSE One(n, f[n - 1])]
<1>1. len \in Nat /\ \A n \in 1 .. len : ranked[n] \in UnitRows OBVIOUS
<1> HIDE DEF len
<1>2. step \in [1 .. len -> [Seq(UnitRows) -> Seq(UnitRows)]]
  <2>1. \A n \in 1 .. len : \A r \in Seq(UnitRows) : One(n, r) \in Seq(UnitRows) BY <1>1
  <2> HIDE DEF One
  <2> QED BY <2>1
<1>3. \A n \in 1 .. len : \A r \in Seq(UnitRows) : step[n][r] = One(n, r) OBVIOUS
<1> HIDE DEF step
<1>4. PICK f \in [0 .. len -> Seq(UnitRows)] :
             f[0] = <<>> /\ \A n \in 1 .. len : f[n] = step[n][f[n - 1]]
  <2>1. <<>> \in Seq(UnitRows) OBVIOUS
  <2>2. Computed(Seq(UnitRows), <<>>, len, step) # {} BY <1>1, <1>2, <2>1, RecursiveFunction
  <2> QED BY <2>2 DEF Computed
<1>5. Is(f)
  <2> HIDE DEF One
  <2>1. ASSUME NEW n \in 0 .. len PROVE f[n] = IF n = 0 THEN <<>> ELSE One(n, f[n - 1])
    <3>1. CASE n = 0 BY <1>4, <3>1
    <3>2. CASE n # 0
      <4>1. n \in 1 .. len /\ n - 1 \in 0 .. len BY <1>1, <3>2
      <4>2. f[n] = step[n][f[n - 1]] /\ f[n - 1] \in Seq(UnitRows) BY <1>4, <4>1
      <4> QED BY <1>3, <3>2, <4>1, <4>2
    <3> QED BY <3>1, <3>2
  <2>2. f = [n \in 0 .. len |-> f[n]] BY <1>4
  <2> QED BY <2>1, <2>2
<1>6. \E g : Is(g) BY <1>5
<1>7. Is(next) BY <1>6 DEF FreshUpTo, len
<1>8. \A n \in 0 .. len : next[n] = IF n = 0 THEN <<>> ELSE One(n, next[n - 1]) BY <1>7
<1>9. 0 \in 0 .. len /\ \A n \in 1 .. len : n \in 0 .. len /\ n # 0 BY <1>1
<1>10. next[0] = <<>> /\ \A n \in 1 .. len : next[n] = One(n, next[n - 1])
  <2> HIDE DEF One
  <2> QED BY <1>8, <1>9
<1> QED BY <1>10 DEF len

LEMMA FreshUpToIs ==
  ASSUME NEW ranked \in Seq(UnitRows), NEW left, left = FreshUpTo(ranked)[Len(ranked)]
  PROVE  left \in Seq(UnitRows) /\ \A i \in DOMAIN left : left[i] \in NotStale(ranked)
<1>1. PICK next : next = FreshUpTo(ranked) OBVIOUS
<1>2. /\ next[0] = <<>>
      /\ \A n \in 1 .. Len(ranked) :
            next[n] = IF validity[ranked[n].path] = "stale" THEN next[n - 1]
                      ELSE Append(next[n - 1], ranked[n])
  BY <1>1, FreshUpToSteps
<1> DEFINE Good(some) == some \in Seq(NotStale(ranked))
           Reached == {n \in Nat : n <= Len(ranked) => Good(next[n])}
<1>3. Len(ranked) \in Nat /\ DOMAIN ranked = 1 .. Len(ranked) OBVIOUS
<1>4. 0 \in Reached
  <2>1. Good(<<>>) OBVIOUS
  <2> QED BY <1>2, <2>1
<1>5. ASSUME NEW n \in Nat, n \in Reached PROVE n + 1 \in Reached
  <2> SUFFICES ASSUME n + 1 <= Len(ranked) PROVE Good(next[n + 1]) OBVIOUS
  <2>1. Good(next[n]) BY <1>3, <1>5
  <2>2. n + 1 \in 1 .. Len(ranked) /\ (n + 1) - 1 = n BY <1>3
  <2>3. CASE validity[ranked[n + 1].path] = "stale" BY <1>2, <2>1, <2>2, <2>3
  <2>4. CASE validity[ranked[n + 1].path] # "stale"
    <3>1. next[n + 1] = Append(next[n], ranked[n + 1]) BY <1>2, <2>2, <2>4
    <3>2. ranked[n + 1] \in NotStale(ranked) BY <1>3, <2>2, <2>4 DEF NotStale
    <3> QED BY <2>1, <3>1, <3>2
  <2> QED BY <2>3, <2>4
<1>6. Len(ranked) \in Reached
  <2> HIDE DEF Reached
  <2> QED BY <1>3, <1>4, <1>5, SetInduction
<1>7. Good(left) BY <1>1, <1>3, <1>6
<1>8. NotStale(ranked) \subseteq UnitRows BY DEF NotStale
<1> QED BY <1>7, <1>8

LEMMA AnsweredKeeps ==
  ASSUME SearchInv, Answered
  PROVE  SearchInv'
<1>1. SearchTypes /\ OneText(units) BY DEF SearchInv
<1>2. /\ search.step = "verifying" /\ \A p \in Files : validity[p] # "reading"
      /\ UNCHANGED <<onDisk, indexRows, units, validity, readAs, reindexed>>
  BY DEF Answered, RowsSame
<1>3. search.ranked \in Seq(UnitRows) BY <1>1 DEF SearchTypes, SearchStates
<1>4. PICK ranked : ranked = search.ranked OBVIOUS
<1>5. PICK left : left = FreshUpTo(ranked)[Len(ranked)] OBVIOUS
<1>6. search' = [search EXCEPT !.step = "answered", !.ranked = left]
  BY <1>4, <1>5 DEF Answered
<1>7. left \in Seq(UnitRows) /\ \A i \in DOMAIN left : left[i] \in NotStale(ranked)
  BY <1>3, <1>4, <1>5, FreshUpToIs
<1>8. search' \in SearchStates /\ search'.step = "answered" /\ search'.ranked = left
  BY <1>1, <1>6, <1>7 DEF SearchTypes, SearchStates
<1>9. SearchTypes' BY <1>1, <1>2, <1>8 DEF SearchTypes
<1>10. \A u \in RankedUnits' : u \in RankedUnits /\ validity[u.path] # "stale"
  BY <1>4, <1>7, <1>8 DEF RankedUnits, NotStale
<1>11. MatchesAreUnits' BY <1>8 DEF MatchesAreUnits
<1>12. RankedAreOneText' BY <1>2, <1>10 DEF SearchInv, RankedAreOneText, OneText
<1>13. RankedAreVerified' BY <1>2, <1>8, <1>10 DEF SearchInv, RankedAreVerified
<1>14. OneText(units') BY <1>1, <1>2
<1> QED BY <1>9, <1>11, <1>12, <1>13, <1>14 DEF SearchInv

(* What the invariant says of the answer. *)
LEMMA AnswersAreVerified ==
  ASSUME SearchAssumption, SearchInv
  PROVE  ResultsAreCurrent
<1> SUFFICES ASSUME search.step = "answered", ~reindexed, NEW i \in DOMAIN Results
             PROVE  /\ validity[Results[i].path] \in {"current", "unknown"}
                    /\ validity[Results[i].path] = "current" =>
                          Results[i].hash = readAs[Results[i].path]
  BY DEF ResultsAreCurrent
<1>1. search.ranked \in Seq(UnitRows)
      /\ validity \in [Files -> {"unasked", "reading", "stale", "unknown", "current"}]
  BY DEF SearchInv, SearchTypes, SearchStates
<1>2. Results[i] \in RankedUnits
  <2>1. Len(search.ranked) \in Nat /\ SearchLimit \in Nat BY <1>1 DEF SearchAssumption
  <2>2. PICK m : m = Least(Len(search.ranked), SearchLimit) OBVIOUS
  <2>3. m \in 0 .. Len(search.ranked) BY <2>1, <2>2 DEF Least
  <2>4. Results = SubSeq(search.ranked, 1, m) BY <2>2 DEF Results
  <2>5. i \in DOMAIN search.ranked /\ Results[i] = search.ranked[i] BY <1>1, <2>1, <2>3, <2>4
  <2> QED BY <2>5 DEF RankedUnits
<1>3. Results[i].path \in Files
  <2>1. Results[i] \in UnitRows BY <1>1, <1>2 DEF RankedUnits
  <2> QED BY <2>1 DEF UnitRows
<1>4. /\ validity[Results[i].path] \notin {"unasked", "stale", "reading"}
      /\ validity[Results[i].path] = "current" => Results[i].hash = readAs[Results[i].path]
  BY <1>2, <1>3 DEF SearchInv, RankedAreVerified
<1> QED BY <1>1, <1>3, <1>4

LEMMA SearchStepKeeps ==
  ASSUME SearchAssumption, SearchInv, [SearchNext]_searchVars
  PROVE  SearchInv'
<1>1. CASE UNCHANGED searchVars
  <2>1. UNCHANGED <<onDisk, indexRows, units, search, validity, readAs, reindexed>>
    BY <1>1 DEF searchVars
  <2>2. /\ onDisk' \in [Files -> Versions]
        /\ indexRows' \in [Files -> [observed : Versions, analyzed : Versions]]
    BY <2>1 DEF SearchInv, SearchTypes
  <2> QED BY <2>1, <2>2, RowsChangeKeeps
<1>2. CASE Search \/ Rank \/ Answered BY <1>2, SearchKeeps, RankKeeps, AnsweredKeeps
<1>3. CASE \E p \in Files : Edit(p) \/ Observe(p) \/ Analyze(p) \/ Reindex(p) \/ Verify(p)
  BY <1>3, RowStepsKeep, ReindexKeeps, VerifyKeeps
<1> QED BY <1>1, <1>2, <1>3 DEF SearchNext

(* Every unit a search answers as current has the hash of the text its file had    *)
(* when it was verified, however the files, the rows of the index and the units    *)
(* changed under the search, unless units were replaced while the query was        *)
(* embedded; what was found stale is never answered.                              *)
THEOREM AnswersAreCurrent ==
  ASSUME SearchAssumption
  PROVE  SearchSpec => [](SearchTypeOK /\ ResultsAreCurrent)
<1>1. SearchInit => SearchInv BY SearchInitInv
<1>2. SearchInv /\ [SearchNext]_searchVars => SearchInv' BY SearchStepKeeps
<1>3. SearchInv => SearchTypeOK /\ ResultsAreCurrent
  <2>1. SearchInv => SearchTypeOK
    BY DEF SearchInv, SearchTypes, SearchTypeOK, UnitRows, Versions
  <2> QED BY <2>1, AnswersAreVerified
<1> QED BY <1>1, <1>2, <1>3, PTL DEF SearchSpec
=================================================================================
