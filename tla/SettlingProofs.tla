--------------------------- MODULE SettlingProofs ---------------------------
(***************************************************************************)
(* What Settling.tla's model of the consuming side of six adapters         *)
(* guarantees for all numbers of consumers and messages, all handlers,     *)
(* every concurrency and every environment.                                *)
(***************************************************************************)
EXTENDS Settling, FiniteSetTheorems, SequenceTheorems, TLAPS

(* Sequences: an element more at the end, one less at the front or anywhere. *)
OnceIn(s) == \A i \in 1..Len(s), j \in 1..Len(s) : s[i] = s[j] => i = j

(* What Append does to a sequence, its members and their being there once. *)
LEMMA AppendSeq ==
  ASSUME NEW S, NEW s \in Seq(S), NEW e \in S
  PROVE  /\ Append(s, e) \in Seq(S) /\ Len(s) \in Nat /\ Len(Append(s, e)) = Len(s) + 1
         /\ \A i \in 1..Len(s) : Append(s, e)[i] = s[i]
         /\ Append(s, e)[Len(s) + 1] = e
         /\ \A x : Contains(Append(s, e), x) <=> Contains(s, x) \/ x = e
         /\ OnceIn(s) /\ ~Contains(s, e) => OnceIn(Append(s, e))
  <1> DEFINE t == Append(s, e)
  <1>1. /\ t \in Seq(S) /\ Len(t) = Len(s) + 1 /\ \A i \in 1..Len(s) : t[i] = s[i]
        /\ t[Len(s) + 1] = e
    BY AppendProperties
  <1>2. Len(s) \in Nat
    BY LenProperties
  <1> HIDE DEF t
  <1>3. \A i \in 1..Len(t) : i \in 1..Len(s) \/ i = Len(s) + 1
    BY <1>1, <1>2
  <1>4. 1..Len(s) \subseteq 1..Len(t) /\ Len(s) + 1 \in 1..Len(t)
    BY <1>1, <1>2
  <1>5. ASSUME NEW x
        PROVE  Contains(t, x) <=> Contains(s, x) \/ x = e
    BY <1>1, <1>3, <1>4 DEF Contains
  <1>6. ASSUME OnceIn(s), ~Contains(s, e), NEW i \in 1..Len(t), NEW j \in 1..Len(t), t[i] = t[j]
        PROVE  i = j
    <2>1. CASE i \in 1..Len(s) /\ j \in 1..Len(s)
      BY <1>1, <1>6, <2>1 DEF OnceIn
    <2>2. CASE i \notin 1..Len(s) /\ j \notin 1..Len(s)
      BY <1>3, <1>6, <2>2
    <2>3. CASE i \in 1..Len(s) /\ j \notin 1..Len(s)
      <3>1. s[i] = e
        BY <1>1, <1>3, <1>6, <2>3
      <3> QED
        BY <1>6, <2>3, <3>1 DEF Contains
    <2>4. CASE i \notin 1..Len(s) /\ j \in 1..Len(s)
      <3>1. s[j] = e
        BY <1>1, <1>3, <1>6, <2>4
      <3> QED
        BY <1>6, <2>4, <3>1 DEF Contains
    <2> QED
      BY <2>1, <2>2, <2>3, <2>4
  <1>7. OnceIn(s) /\ ~Contains(s, e) => OnceIn(t)
    BY <1>6 DEF OnceIn
  <1> QED
    BY <1>1, <1>2, <1>5, <1>7 DEF t

(* What Tail does to a sequence, its members and their being there once. *)
LEMMA TailSeq ==
  ASSUME NEW S, NEW s \in Seq(S), s # <<>>
  PROVE  /\ Tail(s) \in Seq(S) /\ Head(s) = s[1] /\ Head(s) \in S
         /\ Len(s) \in Nat /\ 1 \in 1..Len(s) /\ Len(Tail(s)) = Len(s) - 1
         /\ \A i \in 1..Len(Tail(s)) : Tail(s)[i] = s[i + 1]
         /\ Contains(s, Head(s))
         /\ OnceIn(s) => /\ OnceIn(Tail(s))
                         /\ \A x : Contains(Tail(s), x) <=> Contains(s, x) /\ x # Head(s)
  <1> DEFINE t == Tail(s)
  <1>1. /\ t \in Seq(S) /\ Head(s) = s[1] /\ Head(s) \in S /\ Len(t) = Len(s) - 1
        /\ \A i \in 1..Len(t) : t[i] = s[i + 1]
    BY HeadTailProperties
  <1>2. Len(s) \in Nat \ {0} /\ 1 \in 1..Len(s)
    BY EmptySeq
  <1>3. Contains(s, Head(s))
    BY <1>1, <1>2 DEF Contains
  <1> HIDE DEF t
  <1>4. \A i \in 1..Len(t) : i + 1 \in 1..Len(s) /\ i + 1 # 1
    BY <1>1, <1>2
  <1>5. \A j \in 1..Len(s) : j # 1 => j - 1 \in 1..Len(t) /\ t[j - 1] = s[j]
    BY <1>1, <1>2
  <1>6. ASSUME OnceIn(s)
        PROVE  OnceIn(t)
    <2>1. ASSUME NEW i \in 1..Len(t), NEW j \in 1..Len(t), t[i] = t[j]
          PROVE  i = j
      <3>1. s[i + 1] = s[j + 1] /\ i + 1 \in 1..Len(s) /\ j + 1 \in 1..Len(s)
        BY <1>1, <1>4, <2>1
      <3>2. i + 1 = j + 1
        BY <1>6, <3>1 DEF OnceIn
      <3> QED
        BY <3>2
    <2> QED
      BY <2>1 DEF OnceIn
  <1>7. ASSUME OnceIn(s), NEW x
        PROVE  Contains(t, x) <=> Contains(s, x) /\ x # Head(s)
    <2>1. ASSUME Contains(t, x)
          PROVE  Contains(s, x) /\ x # Head(s)
      <3>1. PICK i \in 1..Len(t) : t[i] = x
        BY <2>1 DEF Contains
      <3>2. i + 1 \in 1..Len(s) /\ s[i + 1] = x /\ i + 1 # 1
        BY <1>1, <1>4, <3>1
      <3>3. x # s[1]
        BY <1>2, <1>7, <3>2 DEF OnceIn
      <3> QED
        BY <1>1, <3>2, <3>3 DEF Contains
    <2>2. ASSUME Contains(s, x), x # Head(s)
          PROVE  Contains(t, x)
      <3>1. PICK j \in 1..Len(s) : s[j] = x
        BY <2>2 DEF Contains
      <3> QED
        BY <1>1, <1>5, <2>2, <3>1 DEF Contains
    <2> QED
      BY <2>1, <2>2
  <1> QED
    BY <1>1, <1>2, <1>3, <1>6, <1>7 DEF t

(* t is s without its place i. *)
Less(s, i, t) ==
  /\ Len(s) \in Nat /\ i \in 1..Len(s) /\ Len(t) = Len(s) - 1
  /\ \A k \in 1..Len(t) : t[k] = IF k < i THEN s[k] ELSE s[k + 1]

(* The tail of a sequence is the sequence without its first element. *)
LEMMA TailLess ==
  ASSUME NEW S, NEW s \in Seq(S), s # <<>>
  PROVE  Tail(s) \in Seq(S) /\ Less(s, 1, Tail(s))
  <1>1. /\ Tail(s) \in Seq(S) /\ Len(s) \in Nat /\ 1 \in 1..Len(s)
        /\ Len(Tail(s)) = Len(s) - 1
        /\ \A i \in 1..Len(Tail(s)) : Tail(s)[i] = s[i + 1]
    BY TailSeq
  <1> QED
    BY <1>1 DEF Less

(* RemoveAt is the sequence without the element at that place. *)
LEMMA RemoveAtLess ==
  ASSUME NEW S, NEW s \in Seq(S), NEW i \in 1..Len(s)
  PROVE  RemoveAt(s, i) \in Seq(S) /\ Less(s, i, RemoveAt(s, i))
  <1> DEFINE a == SubSeq(s, 1, i - 1)
             b == SubSeq(s, i + 1, Len(s))
  <1>0. Len(s) \in Nat /\ i \in Nat /\ 1 <= i /\ i <= Len(s) /\ i - 1 \in Int /\ i + 1 \in Int
    BY LenProperties
  <1>1. \A k \in 1..Len(s) : s[k] \in S
    BY ElementOfSeq
  <1>2. /\ a \in Seq(S) /\ Len(a) = i - 1
        /\ \A k \in 1..(i - 1) : a[k] = s[k]
    <2>1. \A k \in 1..(i - 1) : s[k] \in S
      BY <1>0, <1>1
    <2>2. /\ a \in Seq(S) /\ Len(a) = (IF 1 <= i - 1 THEN (i - 1) - 1 + 1 ELSE 0)
          /\ \A k \in 1..((i - 1) - 1 + 1) : a[k] = s[1 + k - 1]
      BY <1>0, <2>1, SubSeqProperties
    <2> HIDE DEF a
    <2>3. Len(a) = i - 1
      BY <1>0, <2>2
    <2>4. ASSUME NEW k \in 1..(i - 1)
          PROVE  a[k] = s[k]
      <3>1. k \in 1..((i - 1) - 1 + 1) /\ 1 + k - 1 = k
        BY <1>0, <2>4
      <3> QED
        BY <2>2, <3>1
    <2> QED
      BY <2>2, <2>3, <2>4
  <1>3. /\ b \in Seq(S) /\ Len(b) = Len(s) - i
        /\ \A k \in 1..(Len(s) - i) : b[k] = s[i + k]
    <2>1. \A k \in (i + 1)..Len(s) : s[k] \in S
      BY <1>0, <1>1
    <2>2. /\ b \in Seq(S) /\ Len(b) = (IF i + 1 <= Len(s) THEN Len(s) - (i + 1) + 1 ELSE 0)
          /\ \A k \in 1..(Len(s) - (i + 1) + 1) : b[k] = s[(i + 1) + k - 1]
      BY <1>0, <2>1, SubSeqProperties
    <2> HIDE DEF b
    <2>3. Len(b) = Len(s) - i
      BY <1>0, <2>2
    <2>4. ASSUME NEW k \in 1..(Len(s) - i)
          PROVE  b[k] = s[i + k]
      <3>1. k \in 1..(Len(s) - (i + 1) + 1) /\ (i + 1) + k - 1 = i + k
        BY <1>0, <2>4
      <3> QED
        BY <2>2, <3>1
    <2> QED
      BY <2>2, <2>3, <2>4
  <1> HIDE DEF a, b
  <1>4. /\ a \o b \in Seq(S) /\ Len(a \o b) = Len(a) + Len(b)
        /\ \A k \in 1..(Len(a) + Len(b)) :
             (a \o b)[k] = IF k <= Len(a) THEN a[k] ELSE b[k - Len(a)]
    BY <1>2, <1>3, ConcatProperties
  <1>5. Len(a \o b) = Len(s) - 1
    BY <1>0, <1>2, <1>3, <1>4
  <1>6. ASSUME NEW k \in 1..(Len(s) - 1)
        PROVE  (a \o b)[k] = IF k < i THEN s[k] ELSE s[k + 1]
    <2>1. k \in 1..(Len(a) + Len(b))
      BY <1>0, <1>2, <1>3, <1>6
    <2>2. CASE k < i
      <3>1. k <= Len(a) /\ k \in 1..(i - 1)
        BY <1>0, <1>2, <1>6, <2>2
      <3> QED
        BY <1>2, <1>4, <2>1, <2>2, <3>1
    <2>3. CASE ~(k < i)
      <3>1. ~(k <= Len(a)) /\ k - Len(a) \in 1..(Len(s) - i) /\ i + (k - Len(a)) = k + 1
        BY <1>0, <1>2, <1>6, <2>3
      <3>2. (a \o b)[k] = b[k - Len(a)]
        BY <1>4, <2>1, <3>1
      <3>3. b[k - Len(a)] = s[i + (k - Len(a))]
        BY <1>3, <3>1
      <3> QED
        BY <2>3, <3>1, <3>2, <3>3
    <2> QED
      BY <2>2, <2>3
  <1>7. Less(s, i, a \o b)
    BY <1>0, <1>5, <1>6 DEF Less
  <1> QED
    BY <1>4, <1>7 DEF RemoveAt, a, b

(* From s to t: what is left of s has what was before it, as far as that is *)
(* not in G, before it, and only members of N are new.                      *)
Kept1(s, t, G, k, i) == \A j \in 1..(k - 1) : s[j] \in G \/ \E l \in 1..(i - 1) : t[l] = s[j]

Follows(s, t, G, N) ==
  /\ \A i \in 1..Len(t) :
       \/ t[i] \in N /\ Kept1(s, t, G, Len(s) + 1, i)
       \/ \E k \in 1..Len(s) : t[i] = s[k] /\ Kept1(s, t, G, k, i)
  /\ \A k \in 1..Len(s) : s[k] \in G \/ \E i \in 1..Len(t) : t[i] = s[k]
  /\ \A g \in N : \E i \in 1..Len(t) : t[i] = g

(* A sequence follows itself, with nothing gone and nothing new. *)
LEMMA SameFollows ==
  ASSUME NEW S, NEW s \in Seq(S)
  PROVE  Follows(s, s, {}, {})
  <1>1. Len(s) \in Nat
    BY LenProperties
  <1>2. \A k \in 1..Len(s) : Kept1(s, s, {}, k, k)
    BY <1>1 DEF Kept1
  <1> QED
    BY <1>1, <1>2 DEF Follows

(* An appended sequence follows the old one with one new element. *)
LEMMA AppendFollows ==
  ASSUME NEW S, NEW s \in Seq(S), NEW e \in S
  PROVE  Append(s, e) \in Seq(S) /\ Follows(s, Append(s, e), {}, {e})
  <1> DEFINE t == Append(s, e)
  <1>1. /\ t \in Seq(S) /\ Len(s) \in Nat /\ Len(t) = Len(s) + 1
        /\ \A i \in 1..Len(s) : t[i] = s[i]
        /\ t[Len(s) + 1] = e
    BY AppendSeq
  <1> HIDE DEF t
  <1>2. ASSUME NEW i \in 1..Len(t)
        PROVE  Kept1(s, t, {}, i, i)
    BY <1>1 DEF Kept1
  <1>3. ASSUME NEW i \in 1..Len(t)
        PROVE  \/ t[i] \in {e} /\ Kept1(s, t, {}, Len(s) + 1, i)
               \/ \E k \in 1..Len(s) : t[i] = s[k] /\ Kept1(s, t, {}, k, i)
    <2>1. i \in 1..Len(s) \/ i = Len(s) + 1
      BY <1>1
    <2> QED
      BY <1>1, <1>2, <2>1
  <1>4. \A k \in 1..Len(s) : k \in 1..Len(t) /\ t[k] = s[k]
    BY <1>1
  <1>5. Len(s) + 1 \in 1..Len(t)
    BY <1>1
  <1>6. Follows(s, t, {}, {e})
    BY <1>1, <1>3, <1>4, <1>5 DEF Follows
  <1> QED
    BY <1>1, <1>6 DEF t

(* A sequence without one element follows the old one with that element *)
(* gone.                                                                *)
LEMMA LessFollows ==
  ASSUME NEW s, NEW t, NEW n \in 1..Len(s), Less(s, n, t)
  PROVE  Follows(s, t, {s[n]}, {})
  <1>1. /\ Len(s) \in Nat /\ Len(t) = Len(s) - 1 /\ n \in Nat /\ 1 <= n /\ n <= Len(s)
        /\ \A k \in 1..Len(t) : t[k] = IF k < n THEN s[k] ELSE s[k + 1]
    BY DEF Less
  <1>2. ASSUME NEW k \in 1..Len(s), k < n
        PROVE  k \in 1..Len(t) /\ t[k] = s[k]
    BY <1>1, <1>2
  <1>3. ASSUME NEW k \in 1..Len(s), k > n
        PROVE  k - 1 \in 1..Len(t) /\ t[k - 1] = s[k]
    BY <1>1, <1>3
  <1>4. ASSUME NEW i \in 1..Len(t), i < n
        PROVE  i \in 1..Len(s) /\ t[i] = s[i] /\ Kept1(s, t, {s[n]}, i, i)
    <2>1. i \in 1..Len(s) /\ t[i] = s[i]
      BY <1>1, <1>4
    <2>2. ASSUME NEW j \in 1..(i - 1)
          PROVE  t[j] = s[j]
      BY <1>1, <1>4, <2>1, <2>2
    <2> QED
      BY <2>1, <2>2 DEF Kept1
  <1>5. ASSUME NEW i \in 1..Len(t), ~(i < n)
        PROVE  i + 1 \in 1..Len(s) /\ t[i] = s[i + 1] /\ Kept1(s, t, {s[n]}, i + 1, i)
    <2>1. i + 1 \in 1..Len(s) /\ t[i] = s[i + 1]
      BY <1>1, <1>5
    <2>2. ASSUME NEW j \in 1..((i + 1) - 1)
          PROVE  s[j] \in {s[n]} \/ \E l \in 1..(i - 1) : t[l] = s[j]
      <3>1. j \in 1..Len(s) /\ i \in Nat /\ j <= i
        BY <1>1
      <3>2. CASE j < n
        <4>1. t[j] = s[j] /\ j \in 1..(i - 1)
          BY <1>2, <1>5, <1>1, <3>1, <3>2
        <4> QED
          BY <4>1
      <3>3. CASE j > n
        <4>1. t[j - 1] = s[j]
          BY <1>3, <3>1, <3>3
        <4>2. j - 1 \in 1..(i - 1)
          BY <1>1, <3>1, <3>3
        <4> QED
          BY <4>1, <4>2
      <3>4. j = n \/ j < n \/ j > n
        BY <1>1, <3>1
      <3> QED
        BY <3>2, <3>3, <3>4
    <2> QED
      BY <2>1, <2>2 DEF Kept1
  <1>6. ASSUME NEW k \in 1..Len(s)
        PROVE  s[k] \in {s[n]} \/ \E i \in 1..Len(t) : t[i] = s[k]
    <2>1. k = n \/ k < n \/ k > n
      BY <1>1
    <2> QED
      BY <1>2, <1>3, <2>1
  <1> QED
    BY <1>4, <1>5, <1>6 DEF Follows

(* One element taken out and one appended: one gone, one new. *)
LEMMA LessAppendFollows ==
  ASSUME NEW S, NEW s \in Seq(S), NEW r \in Seq(S), NEW e \in S,
         NEW n \in 1..Len(s), Less(s, n, r)
  PROVE  Append(r, e) \in Seq(S) /\ Follows(s, Append(r, e), {s[n]}, {e})
  <1> DEFINE t == Append(r, e)
  <1>1. /\ t \in Seq(S) /\ Len(r) \in Nat /\ Len(t) = Len(r) + 1
        /\ \A i \in 1..Len(r) : t[i] = r[i]
        /\ t[Len(r) + 1] = e
    BY AppendSeq
  <1>2. Follows(s, r, {s[n]}, {}) /\ Len(s) \in Nat
    BY LessFollows, LenProperties
  <1> HIDE DEF t
  <1>3. \A i \in 1..Len(r) : i \in 1..Len(t)
    BY <1>1
  <1>4. ASSUME NEW k \in Nat, NEW i \in 1..Len(r), Kept1(s, r, {s[n]}, k, i)
        PROVE  Kept1(s, t, {s[n]}, k, i)
    <2>1. \A l \in 1..(i - 1) : t[l] = r[l]
      BY <1>1
    <2> QED
      BY <1>4, <2>1 DEF Kept1
  <1>5. Kept1(s, t, {s[n]}, Len(s) + 1, Len(r) + 1)
    <2>1. ASSUME NEW j \in 1..((Len(s) + 1) - 1)
          PROVE  s[j] \in {s[n]} \/ \E l \in 1..((Len(r) + 1) - 1) : t[l] = s[j]
      <3>1. j \in 1..Len(s)
        BY <1>2
      <3>2. s[j] \in {s[n]} \/ \E l \in 1..Len(r) : r[l] = s[j]
        BY <1>2, <3>1 DEF Follows
      <3>3. (Len(r) + 1) - 1 = Len(r)
        BY <1>1
      <3> QED
        BY <1>1, <3>2, <3>3
    <2> QED
      BY <2>1 DEF Kept1
  <1>6. ASSUME NEW i \in 1..Len(t)
        PROVE  \/ t[i] \in {e} /\ Kept1(s, t, {s[n]}, Len(s) + 1, i)
               \/ \E k \in 1..Len(s) : t[i] = s[k] /\ Kept1(s, t, {s[n]}, k, i)
    <2>1. i \in 1..Len(r) \/ i = Len(r) + 1
      BY <1>1
    <2>2. CASE i \in 1..Len(r)
      <3>1. PICK k \in 1..Len(s) : r[i] = s[k] /\ Kept1(s, r, {s[n]}, k, i)
        BY <1>2, <2>2 DEF Follows
      <3>2. k \in Nat
        BY <1>2
      <3> QED
        BY <1>1, <1>4, <2>2, <3>1, <3>2
    <2> QED
      BY <1>1, <1>5, <2>1, <2>2
  <1>7. ASSUME NEW k \in 1..Len(s)
        PROVE  s[k] \in {s[n]} \/ \E i \in 1..Len(t) : t[i] = s[k]
    <2>1. s[k] \in {s[n]} \/ \E i \in 1..Len(r) : r[i] = s[k]
      BY <1>2 DEF Follows
    <2> QED
      BY <1>1, <1>3, <2>1
  <1>8. Len(r) + 1 \in 1..Len(t)
    BY <1>1
  <1>9. Follows(s, t, {s[n]}, {e})
    BY <1>1, <1>6, <1>7, <1>8 DEF Follows
  <1> QED
    BY <1>1, <1>9 DEF t

-----------------------------------------------------------------------------
(* The inductive invariant *)

Typed ==
  /\ adapter \in Adapters
  /\ consumer \in [Consumers -> {"idle", "open", "draining", "stalled", "ended", "closed"}]
  /\ copy \in [Messages -> {"none", "ready", "held", "acked", "discarded", "gone"}]
  /\ attempt \in [Messages -> 0..MaxAttempts]
  /\ holder \in [Messages -> Consumers]
  /\ inbox \in [Consumers -> Seq(Deliveries)]
  /\ handling \in [Consumers -> SUBSET Deliveries]
  /\ called \in [Deliveries -> Calls]
  /\ ended \in [Deliveries -> {"no", "return", "throw"}]
  /\ sent \in [Consumers -> Seq(Frames)]
  /\ failed \subseteq Deliveries /\ (failed # {} => adapter \in Locking)

(* d waits for the callback of c, or its handler runs there. *)
At(c, d) == Contains(inbox[c], d) \/ d \in handling[c]

Unsettled(c, d) ==
  At(c, d) => /\ ended[d] = "no" /\ d[2] <= attempt[d[1]]
              /\ Contains(inbox[c], d) => called[d] = "none" /\ d \notin handling[c]

Undelivered(d) == d[2] > attempt[d[1]] => called[d] = "none" /\ ended[d] = "no"

(* A delivery is in one place, where nothing has been done with it yet. *)
Places ==
  /\ \A c \in Consumers : OnceIn(inbox[c])
  /\ \A c \in Consumers, d \in Deliveries : Unsettled(c, d)
  /\ \A c \in Consumers, e \in Consumers, d \in Deliveries : At(c, d) /\ At(e, d) => c = e
  /\ \A d \in Deliveries : Undelivered(d)

(* What the adapter may do to a message with the settlements of d: what the handler
   meant, and what it goes against the interface with. *)
MayAck(d) == AckMeant(d) \/ AckedAgainst(d)

MayDiscard(d) == DiscardMeant(d) \/ DiscardedAgainst(d)

(* Services that reject a settlement of what has been settled, and take those of
   one consumer in order: there the ack of a return may follow a nack. *)
InOrder == {"servicebus", "activemq"}

Follower(d) == adapter \in InOrder /\ called[d] # "none" /\ ended[d] = "return"

Earlier(c, i, d) == \E j \in 1..(i - 1) : sent[c][j].of = d /\ sent[c][j].by = "handler"

HasFrame(c, d) == \E j \in 1..Len(sent[c]) : sent[c][j].of = d /\ sent[c][j].by = "handler"

Meant(f) ==
  /\ f.of[2] <= attempt[f.of[1]]
  /\ f.op = "discard" \/ (adapter = "activemq" /\ f.op = "requeue") => MayDiscard(f.of)
  /\ adapter = "bullmq" /\ f.by = "throw" => ended[f.of] = "throw"

(* An ack that no handler meant is rejected: the message is not held any more,
   or will not be when the handler's own settlement has been processed. *)
AckBacked(c, i) ==
  LET f == sent[c][i] IN
  f.op = "ack" =>
    \/ MayAck(f.of)
    \/ Follower(f.of) /\ (~Current(f.of) \/ Earlier(c, i, f.of))

SentMeant(c) == \A i \in 1..Len(sent[c]) : Meant(sent[c][i]) /\ AckBacked(c, i)

FramesMeant == \A c \in Consumers : SentMeant(c)

(* What a running handler has called is under way, has been processed, or has failed. *)
AnsweredAt(c) ==
  \A d \in handling[c] :
    called[d] # "none" /\ Current(d) /\ adapter \notin {"bullmq", "zeromq"} =>
      HasFrame(c, d) \/ d \in failed

Answered == \A c \in Consumers : AnsweredAt(c)

(* A settlement of d that the service takes for the holder's. *)
HasOwn(c, d) ==
  \E j \in 1..Len(sent[c]) :
    sent[c][j].of = d /\ (adapter = "bullmq" => sent[c][j].by # "handler")

InHands(c, d) == At(c, d) \/ HasOwn(c, d)

HeldOnce(m) ==
  copy[m] = "held" =>
    /\ adapter # "zeromq" /\ consumer[holder[m]] # "idle"
    /\ consumer[holder[m]] \in {"open", "draining"} =>
         InHands(holder[m], <<m, attempt[m]>>) \/ <<m, attempt[m]>> \in failed

Held == \A m \in Messages : HeldOnce(m)

Inv == Typed /\ Places /\ FramesMeant /\ Answered /\ Held /\ SettledAsMeant

(* A delivery is a message and the number of its attempt. *)
LEMMA DeliveryFact ==
  ASSUME NEW d \in Deliveries, SettlingAssumption
  PROVE  d[1] \in Messages /\ d[2] \in 1..MaxAttempts /\ d = <<d[1], d[2]>> /\ d[2] \in Nat
  BY DEF Deliveries, SettlingAssumption

(* The settlements under way are frames about deliveries. *)
LEMMA FrameFact ==
  ASSUME Typed, NEW c \in Consumers
  PROVE  /\ sent[c] \in Seq(Frames) /\ Len(sent[c]) \in Nat
         /\ \A i \in 1..Len(sent[c]) : sent[c][i] \in Frames /\ sent[c][i].of \in Deliveries
  <1>1. sent[c] \in Seq(Frames)
    BY DEF Typed
  <1>2. \A i \in 1..Len(sent[c]) : sent[c][i] \in Frames
    BY <1>1, ElementOfSeq
  <1> QED
    BY <1>1, <1>2, LenProperties DEF Frames

(* Everything at a consumer is a delivery. *)
LEMMA InboxFact ==
  ASSUME Typed, NEW c \in Consumers
  PROVE  /\ inbox[c] \in Seq(Deliveries)
         /\ \A d : Contains(inbox[c], d) => d \in Deliveries
         /\ \A d : At(c, d) => d \in Deliveries
  <1>1. inbox[c] \in Seq(Deliveries) /\ handling[c] \subseteq Deliveries
    BY DEF Typed
  <1>2. \A i \in 1..Len(inbox[c]) : inbox[c][i] \in Deliveries
    BY <1>1, ElementOfSeq
  <1> QED
    BY <1>1, <1>2 DEF Contains, At

(* The empty sequence contains nothing, and nothing twice. *)
LEMMA EmptyFact ==
  /\ Len(<<>>) = 0 /\ OnceIn(<<>>) /\ \A x : ~Contains(<<>>, x)
  /\ \A S : <<>> \in Seq(S)
  BY DEF OnceIn, Contains

(* The types the runs check follow from the parts of the invariant. *)
LEMMA TypeFromParts ==
  ASSUME Typed, Places
  PROVE  TypeOK
  <1>1. ASSUME NEW c \in Consumers, NEW d \in handling[c]
        PROVE  ended[d] = "no" /\ d[2] <= attempt[d[1]] /\ ~Contains(inbox[c], d)
    <2>1. d \in Deliveries
      BY DEF Typed
    <2> QED
      BY <2>1 DEF Places, Unsettled, At
  <1> QED
    BY <1>1 DEF Typed, TypeOK

(* The inductive invariant holds in the initial state. *)
LEMMA InitInv ==
  ASSUME Init, SettlingAssumption
  PROVE  Inv
  <1>1. Typed
    <2>1. \A S : <<>> \in Seq(S)
      BY EmptyFact
    <2>2. (CHOOSE c \in Consumers : TRUE) \in Consumers
      BY DEF SettlingAssumption
    <2>3. 0 \in 0..MaxAttempts
      BY DEF SettlingAssumption
    <2> QED
      BY <2>1, <2>2, <2>3 DEF Init, Typed, Calls
  <1>2. \A c \in Consumers : inbox[c] = <<>> /\ handling[c] = {} /\ sent[c] = <<>>
    BY DEF Init
  <1>3. \A c \in Consumers, d \in Deliveries : ~At(c, d)
    BY <1>2, EmptyFact DEF At
  <1>4. Places
    BY <1>2, <1>3, EmptyFact DEF Places, Unsettled, Undelivered, Init
  <1>5. FramesMeant /\ Answered
    BY <1>2, EmptyFact DEF FramesMeant, SentMeant, Answered, AnsweredAt
  <1>6. Held /\ SettledAsMeant
    BY DEF Init, Held, HeldOnce, SettledAsMeant
  <1> QED
    BY <1>1, <1>4, <1>5, <1>6 DEF Inv

-----------------------------------------------------------------------------
(* What no step undoes *)

(* No step takes back a call or an end, an attempt, or a failure. *)
Grows ==
  /\ adapter' = adapter /\ failed \subseteq failed'
  /\ \A m \in Messages :
       \/ attempt'[m] = attempt[m] /\ (copy'[m] = "held" => copy[m] = "held")
       \/ attempt'[m] = attempt[m] + 1
  /\ \A d \in Deliveries :
       /\ called'[d] = called[d] \/ (called[d] = "none" /\ ended[d] = "no")
       /\ ended'[d] = ended[d] \/ ended[d] = "no"

(* A delivery that has been made keeps what was meant with it, and once it is
   not the current one any more it never is again. *)
LEMMA GrowsKeeps ==
  ASSUME SettlingAssumption, Typed, Typed', Grows, NEW d \in Deliveries, d[2] <= attempt[d[1]]
  PROVE  /\ d[2] <= attempt'[d[1]]
         /\ MayAck(d) => MayAck(d)'
         /\ MayDiscard(d) => MayDiscard(d)'
         /\ Current(d)' => Current(d)
         /\ ended[d] = "throw" => ended'[d] = "throw"
         /\ Follower(d) => Follower(d)'
         /\ failed \subseteq failed'
  <1>1. d[1] \in Messages /\ d[2] \in Nat
    BY DeliveryFact
  <1>2. attempt[d[1]] \in Nat /\ attempt'[d[1]] \in Nat
    BY <1>1 DEF Typed, SettlingAssumption
  <1>3. \/ attempt'[d[1]] = attempt[d[1]] /\ (copy'[d[1]] = "held" => copy[d[1]] = "held")
        \/ attempt'[d[1]] = attempt[d[1]] + 1
    BY <1>1 DEF Grows
  <1>4. /\ called'[d] = called[d] \/ (called[d] = "none" /\ ended[d] = "no")
        /\ ended'[d] = ended[d] \/ ended[d] = "no"
        /\ adapter' = adapter /\ failed \subseteq failed'
    BY DEF Grows
  <1>5. d[2] <= attempt'[d[1]]
    BY <1>1, <1>2, <1>3
  <1>6. Current(d)' => Current(d)
    BY <1>1, <1>2, <1>3 DEF Current
  <1>7. MayAck(d) => MayAck(d)'
    BY <1>4 DEF MayAck, AckMeant, AckedAgainst
  <1>8. MayDiscard(d) => MayDiscard(d)'
    BY <1>4 DEF MayDiscard, DiscardMeant, DiscardedAgainst
  <1>9. Follower(d) => Follower(d)'
    BY <1>4 DEF Follower
  <1> QED
    BY <1>4, <1>5, <1>6, <1>7, <1>8, <1>9

(* Where a settlement of a nacked message has failed, the ack of a return is one that
   goes against the interface. *)
LEMMA FailedFollower ==
  ASSUME Typed', NEW d \in Deliveries, Follower(d)', d \in failed'
  PROVE  MayAck(d)'
  <1>1. adapter' = "servicebus" /\ called'[d] \in {"ack", "requeue", "discard"}
    BY DEF Typed, Follower, InOrder, Locking, Calls
  <1> QED
    BY <1>1 DEF Follower, MayAck, AckMeant, AckedAgainst

(* A copy stays settled as meant while the meanings of settlements only *)
(* grow.                                                                *)
LEMMA SettledKept ==
  ASSUME SettlingAssumption, Typed, Typed', Grows, SettledAsMeant,
         \A m \in Messages :
           /\ copy'[m] = "acked" =>
                copy[m] = "acked" \/ \E n \in 1..attempt'[m] : MayAck(<<m, n>>)'
           /\ copy'[m] = "discarded" =>
                \/ copy[m] = "discarded" \/ StalledBefore(m)'
                \/ \E n \in 1..attempt'[m] : MayDiscard(<<m, n>>)'
  PROVE  SettledAsMeant'
  <1>1. ASSUME NEW m \in Messages
        PROVE  /\ attempt[m] \in Nat /\ attempt'[m] \in Nat /\ attempt[m] <= attempt'[m]
               /\ attempt[m] <= MaxAttempts
    <2>1. attempt[m] \in 0..MaxAttempts /\ attempt'[m] \in 0..MaxAttempts /\ MaxAttempts \in Nat
      BY DEF Typed, SettlingAssumption
    <2>2. attempt'[m] = attempt[m] \/ attempt'[m] = attempt[m] + 1
      BY DEF Grows
    <2> QED
      BY <2>1, <2>2
  <1>2. ASSUME NEW m \in Messages, NEW n \in 1..attempt[m]
        PROVE  /\ n \in 1..attempt'[m]
               /\ MayAck(<<m, n>>) => MayAck(<<m, n>>)'
               /\ MayDiscard(<<m, n>>) => MayDiscard(<<m, n>>)'
    <2>1. n \in 1..MaxAttempts /\ n \in 1..attempt'[m] /\ n <= attempt[m]
      BY <1>1 DEF SettlingAssumption
    <2>2. <<m, n>> \in Deliveries /\ <<m, n>>[1] = m /\ <<m, n>>[2] = n
      BY <2>1 DEF Deliveries
    <2> QED
      BY <2>1, <2>2, GrowsKeeps
  <1>3. ASSUME NEW m \in Messages, copy'[m] = "acked"
        PROVE  \E n \in 1..attempt'[m] : MayAck(<<m, n>>)'
    <2>1. CASE copy[m] = "acked"
      <3>1. PICK n \in 1..attempt[m] : MayAck(<<m, n>>)
        BY <2>1 DEF SettledAsMeant, MayAck
      <3> QED
        BY <1>2, <3>1
    <2> QED
      BY <1>3, <2>1
  <1>4. ASSUME NEW m \in Messages, StalledBefore(m)
        PROVE  StalledBefore(m)'
    BY <1>1, <1>4 DEF StalledBefore, Grows
  <1>5. ASSUME NEW m \in Messages, copy'[m] = "discarded"
        PROVE  StalledBefore(m)' \/ \E n \in 1..attempt'[m] : MayDiscard(<<m, n>>)'
    <2>1. CASE copy[m] = "discarded" /\ ~StalledBefore(m)
      <3>1. PICK n \in 1..attempt[m] : MayDiscard(<<m, n>>)
        BY <2>1 DEF SettledAsMeant, MayDiscard
      <3> QED
        BY <1>2, <3>1
    <2> QED
      BY <1>4, <1>5, <2>1
  <1> QED
    BY <1>3, <1>5 DEF SettledAsMeant, MayAck, MayDiscard

(* Steps that send nothing and process nothing that was sent. *)
LEMMA QuietFrames ==
  ASSUME SettlingAssumption, Typed, Typed', Grows, FramesMeant,
         \A c \in Consumers : sent'[c] = sent[c] \/ sent'[c] = <<>>
  PROVE  FramesMeant'
  <1>1. ASSUME NEW c \in Consumers, NEW i \in 1..Len(sent'[c])
        PROVE  Meant(sent[c][i])' /\ AckBacked(c, i)'
    <2>1. sent'[c] = sent[c] /\ i \in 1..Len(sent[c])
      <3>1. sent'[c] # <<>>
        BY EmptyFact
      <3> QED
        BY <3>1
    <2> DEFINE f == sent[c][i]
               d == f.of
    <2>2. d \in Deliveries
      BY <2>1, FrameFact
    <2>3. Meant(f) /\ AckBacked(c, i)
      BY <2>1 DEF FramesMeant, SentMeant
    <2>4. d[2] <= attempt[d[1]]
      BY <2>3 DEF Meant
    <2>5. /\ d[2] <= attempt'[d[1]]
          /\ MayAck(d) => MayAck(d)'
          /\ MayDiscard(d) => MayDiscard(d)'
          /\ Current(d)' => Current(d)
          /\ ended[d] = "throw" => ended'[d] = "throw"
          /\ Follower(d) => Follower(d)'
      BY <2>2, <2>4, GrowsKeeps
    <2>6. adapter' = adapter
      BY DEF Grows
    <2>7. Meant(sent[c][i])'
      BY <2>1, <2>3, <2>5, <2>6 DEF Meant
    <2>8. AckBacked(c, i)'
      BY <2>1, <2>3, <2>5, <2>6 DEF AckBacked, Earlier
    <2> QED
      BY <2>7, <2>8
  <1> QED
    BY <1>1 DEF FramesMeant, SentMeant

(* Deliveries under handling that get no new call stay answered for. *)
LEMMA QuietAnswered ==
  ASSUME SettlingAssumption, Typed, Typed', Grows, Places, Answered, NEW c \in Consumers,
         sent'[c] = sent[c], \A d \in handling'[c] : At(c, d), called' = called
  PROVE  AnsweredAt(c)'
  <1>1. ASSUME NEW d \in handling'[c], called'[d] # "none", Current(d)',
               adapter' \notin {"bullmq", "zeromq"}
        PROVE  HasFrame(c, d)' \/ d \in failed'
    <2>1. d \in Deliveries /\ At(c, d) /\ d[2] <= attempt[d[1]] /\ d \in handling[c]
      <3>1. d \in Deliveries
        BY DEF Typed
      <3> QED
        BY <1>1, <3>1 DEF Places, Unsettled, At
    <2>2. Current(d) /\ adapter' = adapter
      BY <1>1, <2>1, GrowsKeeps DEF Grows
    <2>3. HasFrame(c, d) \/ d \in failed
      BY <1>1, <2>1, <2>2 DEF Answered, AnsweredAt
    <2>4. d \in failed => d \in failed'
      BY DEF Grows
    <2> QED
      BY <2>3, <2>4 DEF HasFrame
  <1> QED
    BY <1>1 DEF AnsweredAt

-----------------------------------------------------------------------------
(* A handler that settles or ends, and a service that processes what was sent:
   of the settlements of c those in G are dropped and those in N are new. *)

Dropped(N, g) ==
  \/ adapter = "bullmq" /\ (g.by = "handler" \/ \E h \in N : h.of = g.of /\ h.by # "handler")
  \/ ~Current(g.of)'
  \/ g.of \in failed'

NewMeant(c, g) ==
  /\ Meant(g)'
  /\ g.op = "ack" =>
       \/ MayAck(g.of)'
       \/ Follower(g.of)' /\ (~Current(g.of)' \/ HasFrame(c, g.of))

Moves(c, G, N) ==
  /\ UNCHANGED <<adapter, consumer, attempt, holder>>
  /\ Grows
  /\ \A e \in Consumers : e # c =>
       sent'[e] = sent[e] /\ inbox'[e] = inbox[e] /\ handling'[e] = handling[e]
  /\ Follows(sent[c], sent'[c], G, N)
  /\ \A g \in G : Dropped(N, g)
  /\ \A g \in N : NewMeant(c, g)

(* A settlement that was under way, and what was said of it. *)
LEMMA MovesFrame ==
  ASSUME SettlingAssumption, Typed, Typed', FramesMeant, Grows,
         NEW e \in Consumers, NEW k \in 1..Len(sent[e]), NEW f, f = sent[e][k], NEW d, d = f.of
  PROVE  /\ Meant(f)' /\ d \in Deliveries /\ adapter' = adapter
         /\ f.op = "ack" =>
              \/ MayAck(d)'
              \/ Follower(d)' /\ (~Current(d)' \/ Earlier(e, k, d))
  <1>1. d \in Deliveries
    BY FrameFact
  <1>2. Meant(f) /\ AckBacked(e, k)
    BY DEF FramesMeant, SentMeant
  <1>3. d[2] <= attempt[d[1]]
    BY <1>2 DEF Meant
  <1>4. /\ d[2] <= attempt'[d[1]]
        /\ MayAck(d) => MayAck(d)'
        /\ MayDiscard(d) => MayDiscard(d)'
        /\ Current(d)' => Current(d)
        /\ ended[d] = "throw" => ended'[d] = "throw"
        /\ Follower(d) => Follower(d)'
    BY <1>1, <1>3, GrowsKeeps
  <1>5. adapter' = adapter
    BY DEF Grows
  <1>6. f.of[2] <= attempt'[f.of[1]]
    BY <1>4
  <1>7. ASSUME f.op = "discard" \/ (adapter' = "activemq" /\ f.op = "requeue")
        PROVE  MayDiscard(f.of)'
    <2>1. MayDiscard(f.of)
      BY <1>2, <1>5, <1>7 DEF Meant
    <2>2. MayDiscard(d)'
      BY <1>4, <2>1
    <2> QED
      BY <2>2
  <1>8. adapter' = "bullmq" /\ f.by = "throw" => ended'[f.of] = "throw"
    BY <1>2, <1>4, <1>5 DEF Meant
  <1>9. Meant(f)'
    BY <1>6, <1>7, <1>8 DEF Meant
  <1>10. f.op = "ack" => MayAck(d) \/ (Follower(d) /\ (~Current(d) \/ Earlier(e, k, d)))
    BY <1>2 DEF AckBacked
  <1> QED
    BY <1>1, <1>4, <1>5, <1>9, <1>10

(* A step that moves one consumer's frames leaves every frame one that was *)
(* meant.                                                                  *)
LEMMA MovesFrames ==
  ASSUME SettlingAssumption, Typed, Typed', FramesMeant,
         NEW c \in Consumers, NEW G, NEW N, Moves(c, G, N)
  PROVE  FramesMeant'
  <1>0. Grows /\ adapter' = adapter
    BY DEF Moves
  <1>1. ASSUME NEW i \in 1..Len(sent'[c]), NEW f \in N, sent'[c][i] = f,
               Kept1(sent[c], sent'[c], G, Len(sent[c]) + 1, i), NEW d \in Deliveries, d = f.of
        PROVE  /\ Meant(f)'
               /\ f.op = "ack" => \/ MayAck(d)'
                                  \/ Follower(d)' /\ (~Current(d)' \/ Earlier(c, i, d)')
    <2>1. NewMeant(c, f)
      BY DEF Moves
    <2>2. Meant(f)'
      BY <2>1 DEF NewMeant
    <2>3. ASSUME f.op = "ack", ~MayAck(d)'
          PROVE  Follower(d)' /\ (~Current(d)' \/ Earlier(c, i, d)')
      <3>1. Follower(d)' /\ (~Current(d)' \/ HasFrame(c, d))
        BY <1>1, <2>1, <2>3 DEF NewMeant
      <3>3. d \notin failed'
        BY <2>3, <3>1, FailedFollower
      <3>2. ASSUME HasFrame(c, d), Current(d)'
            PROVE  Earlier(c, i, d)'
        <4>1. PICK j \in 1..Len(sent[c]) : sent[c][j].of = d /\ sent[c][j].by = "handler"
          BY <3>2 DEF HasFrame
        <4>2. Len(sent[c]) \in Nat
          BY FrameFact
        <4>3. j \in 1..((Len(sent[c]) + 1) - 1)
          BY <4>2
        <4>4. sent[c][j] \in G \/ \E l \in 1..(i - 1) : sent'[c][l] = sent[c][j]
          BY <1>1, <4>3 DEF Kept1
        <4>5. ASSUME NEW g \in G, g.of = d
              PROVE  FALSE
          <5>1. adapter # "bullmq"
            BY <1>0, <3>1 DEF InOrder, Follower
          <5>2. Dropped(N, g)
            BY DEF Moves
          <5> QED
            BY <3>2, <3>3, <4>5, <5>1, <5>2 DEF Dropped
        <4>6. PICK l \in 1..(i - 1) : sent'[c][l] = sent[c][j]
          BY <4>1, <4>4, <4>5
        <4> QED
          BY <4>1, <4>6 DEF Earlier
      <3> QED
        BY <1>0, <3>1, <3>2 DEF Moves
    <2> QED
      BY <2>2, <2>3
  <1>2. ASSUME NEW i \in 1..Len(sent'[c]), NEW k \in 1..Len(sent[c]),
               NEW f, f = sent[c][k], sent'[c][i] = f,
               Kept1(sent[c], sent'[c], G, k, i), NEW d \in Deliveries, d = f.of
        PROVE  /\ Meant(f)'
               /\ f.op = "ack" => \/ MayAck(d)'
                                  \/ Follower(d)' /\ (~Current(d)' \/ Earlier(c, i, d)')
    <2>1. /\ Meant(f)'
          /\ f.op = "ack" =>
               \/ MayAck(d)'
               \/ Follower(d)' /\ (~Current(d)' \/ Earlier(c, k, d))
      BY <1>0, <1>2, MovesFrame
    <2>2. ASSUME Follower(d)', d \notin failed', Earlier(c, k, d), Current(d)'
          PROVE  Earlier(c, i, d)'
      <3>1. PICK j \in 1..(k - 1) : sent[c][j].of = d /\ sent[c][j].by = "handler"
        BY <2>2 DEF Earlier
      <3>2. sent[c][j] \in G \/ \E l \in 1..(i - 1) : sent'[c][l] = sent[c][j]
        BY <1>2 DEF Kept1
      <3>3. ASSUME NEW g \in G, g.of = d
            PROVE  FALSE
        <4>1. adapter # "bullmq"
          BY <1>0, <2>2 DEF InOrder, Follower
        <4>2. Dropped(N, g)
          BY DEF Moves
        <4> QED
          BY <2>2, <3>3, <4>1, <4>2 DEF Dropped
      <3>4. PICK l \in 1..(i - 1) : sent'[c][l] = sent[c][j]
        BY <3>1, <3>2, <3>3
      <3> QED
        BY <3>1, <3>4 DEF Earlier
    <2>3. ASSUME Follower(d)', d \in failed'
          PROVE  MayAck(d)'
      BY <2>3, FailedFollower
    <2> QED
      BY <2>1, <2>2, <2>3
  <1>3. ASSUME NEW e \in Consumers, NEW i \in 1..Len(sent'[e]), NEW f, sent'[e][i] = f,
               NEW d \in Deliveries, d = f.of
        PROVE  /\ Meant(f)'
               /\ f.op = "ack" => \/ MayAck(d)'
                                  \/ Follower(d)' /\ (~Current(d)' \/ Earlier(e, i, d)')
    <2>1. CASE e = c
      <3>1. \/ sent'[c][i] \in N /\ Kept1(sent[c], sent'[c], G, Len(sent[c]) + 1, i)
            \/ \E k \in 1..Len(sent[c]) :
                 sent'[c][i] = sent[c][k] /\ Kept1(sent[c], sent'[c], G, k, i)
        BY <2>1 DEF Moves, Follows
      <3>2. CASE sent'[c][i] \in N /\ Kept1(sent[c], sent'[c], G, Len(sent[c]) + 1, i)
        BY <1>1, <1>3, <2>1, <3>2
      <3>3. ASSUME NEW k \in 1..Len(sent[c]),
                   sent'[c][i] = sent[c][k] /\ Kept1(sent[c], sent'[c], G, k, i)
            PROVE  /\ Meant(f)'
                   /\ f.op = "ack" =>
                        \/ MayAck(d)'
                        \/ Follower(d)' /\ (~Current(d)' \/ Earlier(c, i, d)')
        <4>1. f = sent[c][k] /\ sent'[c][i] = f /\ i \in 1..Len(sent'[c])
          BY <1>3, <2>1, <3>3
        <4> QED
          BY <1>2, <1>3, <3>3, <4>1
      <3> QED
        BY <2>1, <3>1, <3>2, <3>3
    <2>2. CASE e # c
      <3>1. sent'[e] = sent[e]
        BY <2>2 DEF Moves
      <3>2. /\ Meant(f)'
            /\ f.op = "ack" =>
                 \/ MayAck(d)'
                 \/ Follower(d)' /\ (~Current(d)' \/ Earlier(e, i, d))
        BY <1>0, <1>3, <3>1, MovesFrame
      <3>3. Earlier(e, i, d) => Earlier(e, i, d)'
        BY <3>1 DEF Earlier
      <3> QED
        BY <1>0, <3>2, <3>3
    <2> QED
      BY <2>1, <2>2
  <1>4. ASSUME NEW e \in Consumers, NEW i \in 1..Len(sent'[e])
        PROVE  Meant(sent[e][i])' /\ AckBacked(e, i)'
    <2>0. sent'[e][i].of \in Deliveries
      <3>1. sent'[e] \in Seq(Frames)
        BY DEF Typed
      <3>2. sent'[e][i] \in Frames
        BY <3>1, ElementOfSeq
      <3> QED
        BY <3>2 DEF Frames
    <2>1. Meant(sent[e][i])'
      BY <1>3, <2>0 DEF Meant
    <2>2. AckBacked(e, i)'
      BY <1>3, <2>0 DEF AckBacked
    <2> QED
      BY <2>1, <2>2
  <1> QED
    BY <1>4 DEF FramesMeant, SentMeant

(* A step that moves one consumer's frames leaves every call answered for. *)
LEMMA MovesAnswered ==
  ASSUME SettlingAssumption, Typed, Typed', Places, Answered,
         NEW c \in Consumers, NEW G, NEW N, Moves(c, G, N),
         \A e \in Consumers : \A d \in handling'[e] :
           /\ d \in handling[e]
           /\ \/ called'[d] = called[d] \/ adapter = "zeromq"
              \/ e = c /\ \E g \in N : g.of = d /\ g.by = "handler"
  PROVE  Answered'
  <1>1. adapter' = adapter /\ Grows
    BY DEF Moves
  <1>2. ASSUME NEW e \in Consumers, NEW d \in handling'[e], called'[d] # "none", Current(d)',
               adapter' \notin {"bullmq", "zeromq"}, d \notin failed'
        PROVE  HasFrame(e, d)'
    <2>1. d \in Deliveries /\ d \in handling[e] /\ d[2] <= attempt[d[1]]
      <3>1. d \in Deliveries
        BY DEF Typed
      <3> QED
        BY <3>1 DEF Places, Unsettled, At
    <2>2. Current(d)
      BY <1>1, <1>2, <2>1, GrowsKeeps
    <2>3. CASE called'[d] = called[d]
      <3>1. HasFrame(e, d)
        <4>1. d \notin failed
          BY <1>1, <1>2 DEF Grows
        <4> QED
          BY <1>1, <1>2, <2>1, <2>2, <2>3, <4>1 DEF Answered, AnsweredAt
      <3>2. CASE e # c
        <4>1. sent'[e] = sent[e]
          BY <3>2 DEF Moves
        <4> QED
          BY <3>1, <4>1 DEF HasFrame
      <3>3. CASE e = c
        <4>1. PICK j \in 1..Len(sent[c]) : sent[c][j].of = d /\ sent[c][j].by = "handler"
          BY <3>1, <3>3 DEF HasFrame
        <4>2. sent[c][j] \notin G
          BY <1>1, <1>2, <4>1 DEF Moves, Dropped
        <4>3. \E i \in 1..Len(sent'[c]) : sent'[c][i] = sent[c][j]
          BY <4>2 DEF Moves, Follows
        <4> QED
          BY <3>3, <4>1, <4>3 DEF HasFrame
      <3> QED
        BY <3>2, <3>3
    <2>4. CASE called'[d] # called[d]
      <3>1. e = c /\ \E g \in N : g.of = d /\ g.by = "handler"
        BY <1>1, <1>2, <2>4
      <3>2. \A g \in N : \E i \in 1..Len(sent'[c]) : sent'[c][i] = g
        BY DEF Moves, Follows
      <3> QED
        BY <3>1, <3>2 DEF HasFrame
    <2> QED
      BY <2>3, <2>4
  <1> QED
    BY <1>2 DEF Answered, AnsweredAt

IsOwn(g, d) == g.of = d /\ (adapter = "bullmq" => g.by # "handler")

(* A step that moves one consumer's frames leaves every held copy with a *)
(* delivery or a frame.                                                  *)
LEMMA MovesHeld ==
  ASSUME SettlingAssumption, Typed, Typed', Held,
         NEW c \in Consumers, NEW G, NEW N, Moves(c, G, N),
         \A d \in Deliveries : At(c, d) /\ Current(d)' =>
           \/ At(c, d)' \/ adapter = "zeromq" \/ HasOwn(c, d)
           \/ d \in failed' \/ \E g \in N : IsOwn(g, d)
  PROVE  Held'
  <1>1. Grows /\ UNCHANGED <<adapter, consumer, attempt, holder>>
    BY DEF Moves
  <1>2. ASSUME NEW d, Current(d)', HasOwn(c, d), d \notin failed'
        PROVE  HasOwn(c, d)'
    <2>1. PICK j \in 1..Len(sent[c]) :
            sent[c][j].of = d /\ (adapter = "bullmq" => sent[c][j].by # "handler")
      BY <1>2 DEF HasOwn
    <2>2. CASE sent[c][j] \notin G
      <3>1. \E i \in 1..Len(sent'[c]) : sent'[c][i] = sent[c][j]
        BY <2>2 DEF Moves, Follows
      <3> QED
        BY <1>1, <2>1, <3>1 DEF HasOwn
    <2>3. CASE sent[c][j] \in G
      <3>1. PICK g \in G : g = sent[c][j]
        BY <2>3
      <3>2. Dropped(N, g)
        BY DEF Moves
      <3>3. \E h \in N : h.of = d /\ h.by # "handler"
        BY <1>2, <2>1, <3>1, <3>2 DEF Dropped
      <3>4. PICK h \in N : h.of = d /\ h.by # "handler"
        BY <3>3
      <3>5. \E i \in 1..Len(sent'[c]) : sent'[c][i] = h
        BY DEF Moves, Follows
      <3> QED
        BY <3>4, <3>5 DEF HasOwn
    <2> QED
      BY <2>2, <2>3
  <1>3. ASSUME NEW d, Current(d)', At(c, d), adapter # "zeromq", d \notin failed'
        PROVE  InHands(c, d)'
    <2>1. d \in Deliveries
      BY <1>3, InboxFact
    <2>2. ASSUME NEW g \in N, IsOwn(g, d)
          PROVE  HasOwn(c, d)'
      <3>1. \E i \in 1..Len(sent'[c]) : sent'[c][i] = g
        BY DEF Moves, Follows
      <3> QED
        BY <1>1, <2>2, <3>1 DEF HasOwn, IsOwn
    <2>3. At(c, d)' \/ HasOwn(c, d)'
      BY <1>2, <1>3, <2>1, <2>2
    <2> QED
      BY <2>3 DEF InHands
  <1>4. ASSUME NEW h \in Consumers, NEW d, Current(d)', InHands(h, d), adapter # "zeromq",
               d \notin failed'
        PROVE  InHands(h, d)'
    <2>1. CASE h # c
      <3>1. sent'[h] = sent[h] /\ inbox'[h] = inbox[h] /\ handling'[h] = handling[h]
        BY <2>1 DEF Moves
      <3>2. At(h, d) => At(h, d)'
        BY <1>1, <3>1 DEF At
      <3>3. HasOwn(h, d) => HasOwn(h, d)'
        BY <1>1, <3>1 DEF HasOwn
      <3> QED
        BY <1>4, <3>2, <3>3 DEF InHands
    <2>2. CASE h = c
      <3>1. HasOwn(c, d) => InHands(c, d)'
        BY <1>2, <1>4 DEF InHands
      <3>2. At(c, d) => InHands(c, d)'
        BY <1>3, <1>4
      <3>3. At(c, d) \/ HasOwn(c, d)
        BY <1>4, <2>2 DEF InHands
      <3> QED
        BY <2>2, <3>1, <3>2, <3>3
    <2> QED
      BY <2>1, <2>2
  <1>5. ASSUME NEW m \in Messages, copy'[m] = "held", NEW h, h = holder[m],
               NEW d, d = <<m, attempt[m]>>
        PROVE  /\ adapter' # "zeromq" /\ consumer'[h] # "idle"
               /\ consumer'[h] \in {"open", "draining"} =>
                    InHands(h, d)' \/ d \in failed'
    <2>1. attempt[m] \in 0..MaxAttempts /\ h \in Consumers /\ MaxAttempts \in Nat
      BY <1>5 DEF Typed, SettlingAssumption
    <2>2. copy[m] = "held"
      <3>1. attempt'[m] = attempt[m] /\ attempt[m] # attempt[m] + 1
        BY <1>1, <2>1
      <3> QED
        BY <1>1, <1>5, <3>1 DEF Grows
    <2>3. /\ adapter # "zeromq" /\ consumer[h] # "idle"
          /\ consumer[h] \in {"open", "draining"} => InHands(h, d) \/ d \in failed
      BY <1>5, <2>2 DEF Held, HeldOnce
    <2>4. Current(d)'
      BY <1>1, <1>5 DEF Current
    <2> QED
      BY <1>1, <1>4, <2>1, <2>3, <2>4 DEF Grows
  <1>6. ASSUME NEW m \in Messages
        PROVE  HeldOnce(m)'
    <2>1. holder'[m] = holder[m] /\ attempt'[m] = attempt[m]
      BY <1>1
    <2> QED
      BY <1>5, <2>1 DEF HeldOnce
  <1> QED
    BY <1>6 DEF Held

-----------------------------------------------------------------------------
(* Steps that settle nothing: deliveries may go from the inbox to a handler, or
   get lost with their consumer. *)

QuietAt(e) ==
  /\ OnceIn(inbox'[e]) /\ \A d : At(e, d)' => At(e, d)
  /\ \A d : Contains(inbox'[e], d) => Contains(inbox[e], d) /\ d \notin handling'[e]
  /\ sent'[e] = sent[e] \/ (sent'[e] = <<>> /\ handling'[e] = {})
  /\ consumer'[e] \in {"open", "draining"} =>
       /\ consumer[e] \in {"idle", "open", "draining"} /\ sent'[e] = sent[e]
       /\ \A d : At(e, d) => At(e, d)'
  /\ consumer'[e] = "idle" => consumer[e] = "idle"

Quiet ==
  /\ UNCHANGED <<adapter, attempt, holder, called, ended, failed>>
  /\ \A m \in Messages :
       /\ copy'[m] = "held" => copy[m] = "held"
       /\ copy'[m] = "acked" => copy[m] = "acked"
       /\ copy'[m] = "discarded" => copy[m] = "discarded" \/ StalledBefore(m)
  /\ \A e \in Consumers : QuietAt(e)

(* A step that moves no frame and forgets no delivery keeps the invariant. *)
LEMMA QuietInv ==
  ASSUME SettlingAssumption, Inv, Typed', Quiet
  PROVE  Inv'
  <1>1. Typed /\ Places /\ FramesMeant /\ Answered /\ Held /\ SettledAsMeant
    BY DEF Inv
  <1>2. Grows
    BY DEF Quiet, Grows
  <1>3. UNCHANGED <<adapter, attempt, holder, called, ended, failed>>
    BY DEF Quiet
  <1>4. ASSUME NEW e \in Consumers
        PROVE  QuietAt(e)
    BY DEF Quiet
  <1>5. Places'
    <2>1. ASSUME NEW c \in Consumers
          PROVE  OnceIn(inbox'[c])
      BY <1>4 DEF QuietAt
    <2>2. ASSUME NEW c \in Consumers, NEW d \in Deliveries, At(c, d)'
          PROVE  /\ ended[d] = "no" /\ d[2] <= attempt[d[1]]
                 /\ Contains(inbox'[c], d) => called[d] = "none" /\ d \notin handling'[c]
      <3>1. At(c, d)
        BY <1>4, <2>2 DEF QuietAt
      <3>2. Unsettled(c, d)
        BY <1>1 DEF Places
      <3>3. Contains(inbox'[c], d) => Contains(inbox[c], d) /\ d \notin handling'[c]
        BY <1>4 DEF QuietAt
      <3> QED
        BY <3>1, <3>2, <3>3 DEF Unsettled
    <2>3. ASSUME NEW c \in Consumers, NEW d \in Deliveries
          PROVE  Unsettled(c, d)'
      BY <1>3, <2>2 DEF Unsettled
    <2>4. ASSUME NEW c \in Consumers, NEW e \in Consumers, NEW d \in Deliveries,
                 At(c, d)', At(e, d)'
          PROVE  c = e
      <3>1. At(c, d) /\ At(e, d)
        BY <1>4, <2>4 DEF QuietAt
      <3> QED
        BY <1>1, <3>1 DEF Places
    <2>5. ASSUME NEW d \in Deliveries
          PROVE  Undelivered(d)'
      BY <1>1, <1>3 DEF Places, Undelivered
    <2> QED
      BY <2>1, <2>3, <2>4, <2>5 DEF Places
  <1>6. FramesMeant'
    <2>1. \A c \in Consumers : sent'[c] = sent[c] \/ sent'[c] = <<>>
      BY <1>4 DEF QuietAt
    <2> QED
      BY <1>1, <1>2, <2>1, QuietFrames
  <1>7. Answered'
    <2>1. ASSUME NEW c \in Consumers
          PROVE  AnsweredAt(c)'
      <3>1. CASE sent'[c] = sent[c]
        <4>1. \A d \in handling'[c] : At(c, d)
          BY <1>4 DEF QuietAt, At
        <4> QED
          BY <1>1, <1>2, <1>3, <3>1, <4>1, QuietAnswered
      <3>2. CASE handling'[c] = {}
        BY <3>2 DEF AnsweredAt
      <3> QED
        BY <1>4, <3>1, <3>2 DEF QuietAt
    <2> QED
      BY <2>1 DEF Answered
  <1>8. Held'
    <2>1. ASSUME NEW m \in Messages, copy'[m] = "held", NEW h, h = holder[m],
                 NEW d, d = <<m, attempt[m]>>
          PROVE  /\ adapter' # "zeromq" /\ consumer'[h] # "idle"
                 /\ consumer'[h] \in {"open", "draining"} => InHands(h, d)' \/ d \in failed'
      <3>1. h \in Consumers
        BY <1>1, <2>1 DEF Typed
      <3>2. copy[m] = "held"
        BY <2>1 DEF Quiet
      <3>3. /\ adapter # "zeromq" /\ consumer[h] # "idle"
            /\ consumer[h] \in {"open", "draining"} => InHands(h, d) \/ d \in failed
        BY <1>1, <2>1, <3>2 DEF Held, HeldOnce
      <3>4. QuietAt(h)
        BY <1>4, <3>1
      <3>5. ASSUME consumer'[h] \in {"open", "draining"}
            PROVE  InHands(h, d)' \/ d \in failed'
        <4>1. InHands(h, d) \/ d \in failed
          BY <3>3, <3>4, <3>5 DEF QuietAt
        <4>2. At(h, d) => At(h, d)'
          BY <3>4, <3>5 DEF QuietAt
        <4>3. HasOwn(h, d) => HasOwn(h, d)'
          BY <1>3, <3>4, <3>5 DEF QuietAt, HasOwn
        <4> QED
          BY <1>3, <4>1, <4>2, <4>3 DEF InHands
      <3> QED
        BY <1>3, <3>3, <3>4, <3>5 DEF QuietAt
    <2>2. ASSUME NEW m \in Messages
          PROVE  HeldOnce(m)'
      <3>1. holder'[m] = holder[m] /\ attempt'[m] = attempt[m]
        BY <1>3
      <3> QED
        BY <2>1, <3>1 DEF HeldOnce
    <2> QED
      BY <2>2 DEF Held
  <1>9. SettledAsMeant'
    <2>1. \A m \in Messages : StalledBefore(m) => StalledBefore(m)'
      BY <1>3 DEF StalledBefore
    <2>2. \A m \in Messages :
            /\ copy'[m] = "acked" => copy[m] = "acked"
            /\ copy'[m] = "discarded" => copy[m] = "discarded" \/ StalledBefore(m)'
      BY <2>1 DEF Quiet
    <2> QED
      BY <1>1, <1>2, <2>2, SettledKept
  <1> QED
    BY <1>5, <1>6, <1>7, <1>8, <1>9 DEF Inv

(* A consumer whose deliveries and frames are unchanged has made a quiet *)
(* step.                                                                 *)
LEMMA QuietWhenSame ==
  ASSUME Inv, NEW e \in Consumers,
         inbox'[e] = inbox[e], handling'[e] = handling[e], sent'[e] = sent[e],
         \/ consumer'[e] = consumer[e]
         \/ consumer'[e] \in {"stalled", "ended", "closed"}
         \/ consumer[e] \in {"idle", "open"} /\ consumer'[e] \in {"open", "draining"}
  PROVE  QuietAt(e)
  <1>1. OnceIn(inbox[e])
    BY DEF Inv, Places
  <1>2. \A d : At(e, d)' <=> At(e, d)
    BY DEF At
  <1>3. ASSUME NEW d, Contains(inbox[e], d)
        PROVE  d \notin handling[e]
    <2>1. d \in Deliveries /\ At(e, d)
      BY <1>3, InboxFact DEF Inv, At
    <2> QED
      BY <1>3, <2>1 DEF Inv, Places, Unsettled
  <1> QED
    BY <1>1, <1>2, <1>3 DEF QuietAt

(* A publish keeps the invariant. *)
LEMMA PublishInv ==
  ASSUME SettlingAssumption, Inv, NEW m \in Messages, Publish(m)
  PROVE  Inv'
  <1>1. /\ UNCHANGED <<adapter, consumer, attempt, holder, inbox, handling, called, ended, sent,
                      failed>>
        /\ copy' = [copy EXCEPT ![m] = "ready"]
    BY DEF Publish, callback
  <1>2. Typed'
    BY <1>1 DEF Inv, Typed
  <1>3. \A e \in Consumers : QuietAt(e)
    BY <1>1, QuietWhenSame
  <1>4. Quiet
    BY <1>1, <1>3 DEF Quiet, Inv, Typed
  <1> QED
    BY <1>2, <1>4, QuietInv

(* A lock that expires keeps the invariant. *)
LEMMA LockExpiresInv ==
  ASSUME SettlingAssumption, Inv, NEW m \in Messages, LockExpires(m)
  PROVE  Inv'
  <1>1. /\ UNCHANGED <<adapter, consumer, attempt, holder, inbox, handling, called, ended, sent,
                      failed>>
        /\ \/ copy' = [copy EXCEPT ![m] = "ready"]
           \/ StalledBefore(m) /\ copy' = [copy EXCEPT ![m] = "discarded"]
    BY DEF LockExpires, callback
  <1>2. Typed'
    BY <1>1 DEF Inv, Typed
  <1>3. \A e \in Consumers : QuietAt(e)
    BY <1>1, QuietWhenSame
  <1>4. Quiet
    BY <1>1, <1>3 DEF Quiet, Inv, Typed
  <1> QED
    BY <1>2, <1>4, QuietInv

(* A consumer that goes, with its deliveries, keeps the invariant. *)
LEMMA GoneInv ==
  ASSUME SettlingAssumption, Inv, NEW c \in Consumers, Gone(c)
  PROVE  Inv'
  <1>1. /\ UNCHANGED <<adapter, attempt, holder, called, ended, failed>>
        /\ consumer' = [consumer EXCEPT ![c] = "closed"]
        /\ inbox' = [inbox EXCEPT ![c] = <<>>] /\ sent' = [sent EXCEPT ![c] = <<>>]
        /\ handling' = [handling EXCEPT ![c] = {}]
        /\ Release(c)
    BY DEF Gone
  <1>2. Typed
    BY DEF Inv
  <1>3. copy' \in [Messages -> {"none", "ready", "held", "acked", "discarded", "gone"}]
        /\ \A m \in Messages : copy'[m] = copy[m] \/ copy'[m] = "ready"
    BY <1>1, <1>2 DEF Release, Typed
  <1>4. Typed'
    <2>1. <<>> \in Seq(Deliveries) /\ <<>> \in Seq(Frames)
      BY EmptyFact
    <2>2. inbox' \in [Consumers -> Seq(Deliveries)] /\ sent' \in [Consumers -> Seq(Frames)]
      BY <1>1, <1>2, <2>1 DEF Typed
    <2> QED
      BY <1>1, <1>2, <1>3, <2>2 DEF Typed
  <1>5. /\ inbox'[c] = <<>> /\ sent'[c] = <<>> /\ handling'[c] = {} /\ consumer'[c] = "closed"
        /\ \A e \in Consumers : e # c =>
             /\ inbox'[e] = inbox[e] /\ sent'[e] = sent[e] /\ handling'[e] = handling[e]
             /\ consumer'[e] = consumer[e]
    BY <1>1, <1>2 DEF Typed
  <1>6. QuietAt(c)
    <2>1. \A d : ~At(c, d)'
      BY <1>5, EmptyFact DEF At
    <2> QED
      BY <1>5, <2>1, EmptyFact DEF QuietAt
  <1>7. \A e \in Consumers : QuietAt(e)
    BY <1>5, <1>6, QuietWhenSame
  <1>8. Quiet
    BY <1>1, <1>3, <1>7 DEF Quiet
  <1> QED
    BY <1>4, <1>8, QuietInv

(* The steps of subscribing and of draining keep the invariant. *)
LEMMA ConsumerInv ==
  ASSUME SettlingAssumption, Inv, NEW c \in Consumers, Subscribing(c) \/ Drains(c)
  PROVE  Inv'
  <1>1. UNCHANGED <<adapter, copy, attempt, holder, inbox, handling, called, ended, sent, failed>>
    BY DEF Subscribing, Drains, service, callback
  <1>2. \/ consumer[c] = "idle" /\ consumer' = [consumer EXCEPT ![c] = "open"]
        \/ consumer[c] = "open" /\ consumer' = [consumer EXCEPT ![c] = "draining"]
    BY DEF Subscribing, Drains
  <1>3. Typed'
    BY <1>1, <1>2 DEF Inv, Typed
  <1>4. \A e \in Consumers :
          \/ consumer'[e] = consumer[e]
          \/ consumer[e] \in {"idle", "open"} /\ consumer'[e] \in {"open", "draining"}
    BY <1>2 DEF Inv, Typed
  <1>5. \A e \in Consumers : QuietAt(e)
    BY <1>1, <1>4, QuietWhenSame
  <1>6. Quiet
    BY <1>1, <1>5 DEF Quiet
  <1> QED
    BY <1>3, <1>6, QuietInv

(* The start of a handler keeps the invariant. *)
LEMMA BeginInv ==
  ASSUME SettlingAssumption, Inv, NEW c \in Consumers, Begin(c)
  PROVE  Inv'
  <1>1. /\ UNCHANGED <<adapter, consumer, copy, attempt, holder, called, ended, sent, failed>>
        /\ inbox[c] # <<>>
        /\ handling' = [handling EXCEPT ![c] = @ \cup {First(c)}]
        /\ inbox' = [inbox EXCEPT ![c] = Tail(@)]
    BY DEF Begin, Waiting, service
  <1>2. Typed /\ OnceIn(inbox[c]) /\ inbox[c] \in Seq(Deliveries)
    BY InboxFact DEF Inv, Places
  <1>3. PICK d : d = First(c)
    OBVIOUS
  <1>4. /\ Tail(inbox[c]) \in Seq(Deliveries) /\ d \in Deliveries /\ OnceIn(Tail(inbox[c]))
        /\ Contains(inbox[c], d)
        /\ \A x : Contains(Tail(inbox[c]), x) <=> Contains(inbox[c], x) /\ x # d
    BY <1>1, <1>2, <1>3, TailSeq DEF First
  <1>5. /\ inbox'[c] = Tail(inbox[c]) /\ handling'[c] = handling[c] \cup {d}
        /\ \A e \in Consumers : e # c => inbox'[e] = inbox[e] /\ handling'[e] = handling[e]
    BY <1>1, <1>2, <1>3 DEF Typed
  <1>6. Typed'
    <2>1. inbox' \in [Consumers -> Seq(Deliveries)]
      BY <1>1, <1>2, <1>4 DEF Typed
    <2>2. handling' \in [Consumers -> SUBSET Deliveries]
      BY <1>1, <1>2, <1>3, <1>4 DEF Typed
    <2> QED
      BY <1>1, <1>2, <2>1, <2>2 DEF Typed
  <1>7. QuietAt(c)
    <2>1. \A x : At(c, x)' <=> At(c, x)
      BY <1>4, <1>5 DEF At
    <2>2. ASSUME NEW x, Contains(inbox'[c], x)
          PROVE  Contains(inbox[c], x) /\ x \notin handling'[c]
      <3>1. Contains(inbox[c], x) /\ x # d
        BY <1>4, <1>5, <2>2
      <3>2. x \in Deliveries /\ At(c, x)
        BY <1>2, <3>1, InboxFact DEF At
      <3>3. x \notin handling[c]
        BY <3>1, <3>2 DEF Inv, Places, Unsettled
      <3> QED
        BY <1>5, <3>1, <3>3
    <2>3. OnceIn(inbox'[c]) /\ sent'[c] = sent[c] /\ consumer'[c] = consumer[c]
      BY <1>1, <1>4, <1>5
    <2> QED
      BY <2>1, <2>2, <2>3 DEF QuietAt
  <1>8. \A e \in Consumers : QuietAt(e)
    BY <1>1, <1>5, <1>7, QuietWhenSame
  <1>9. Quiet
    BY <1>1, <1>8 DEF Quiet
  <1> QED
    BY <1>6, <1>9, QuietInv

(* The end of a receive loop keeps the invariant. *)
LEMMA LoopEndsInv ==
  ASSUME SettlingAssumption, Inv, NEW c \in Consumers, NEW how \in {"ended", "stalled"},
         LoopEnds(c, how),
         \/ inbox' = [inbox EXCEPT ![c] = <<>>]
         \/ inbox' = [inbox EXCEPT ![c] = Tail(@)]
  PROVE  Inv'
  <1>1. /\ UNCHANGED <<adapter, copy, attempt, holder, handling, called, ended, sent, failed>>
        /\ inbox[c] # <<>> /\ handling[c] = {}
        /\ consumer' = [consumer EXCEPT ![c] = how]
    BY DEF LoopEnds, Waiting, service, callback
  <1>2. Typed /\ OnceIn(inbox[c]) /\ inbox[c] \in Seq(Deliveries)
    BY InboxFact DEF Inv, Places
  <1>3. /\ Tail(inbox[c]) \in Seq(Deliveries) /\ OnceIn(Tail(inbox[c]))
        /\ \A x : Contains(Tail(inbox[c]), x) => Contains(inbox[c], x)
    BY <1>1, <1>2, TailSeq
  <1>4. <<>> \in Seq(Deliveries) /\ OnceIn(<<>>) /\ \A x : ~Contains(<<>>, x)
    BY EmptyFact
  <1>5. /\ inbox'[c] \in Seq(Deliveries) /\ OnceIn(inbox'[c])
        /\ \A x : Contains(inbox'[c], x) => Contains(inbox[c], x)
        /\ inbox' \in [Consumers -> Seq(Deliveries)]
        /\ \A e \in Consumers : e # c => inbox'[e] = inbox[e]
    BY <1>2, <1>3, <1>4 DEF Typed
  <1>6. /\ consumer' \in [Consumers -> {"idle", "open", "draining", "stalled", "ended", "closed"}]
        /\ consumer'[c] = how /\ \A e \in Consumers : e # c => consumer'[e] = consumer[e]
    BY <1>1, <1>2 DEF Typed
  <1>7. Typed'
    BY <1>1, <1>2, <1>5, <1>6 DEF Typed
  <1>8. QuietAt(c)
    <2>1. \A x : At(c, x)' => At(c, x)
      BY <1>1, <1>5 DEF At
    <2> QED
      BY <1>1, <1>5, <1>6, <2>1 DEF QuietAt
  <1>9. \A e \in Consumers : QuietAt(e)
    BY <1>1, <1>5, <1>6, <1>8, QuietWhenSame
  <1>10. Quiet
    BY <1>1, <1>9 DEF Quiet
  <1> QED
    BY <1>7, <1>10, QuietInv

(* A delivery to a consumer keeps the invariant. *)
LEMMA DeliverInv ==
  ASSUME SettlingAssumption, Inv, NEW c \in Consumers, NEW m \in Messages, Deliver(c, m)
  PROVE  Inv'
  <1>1. /\ UNCHANGED <<adapter, consumer, handling, called, ended, sent, failed>>
        /\ consumer[c] \in {"open", "stalled"} /\ copy[m] = "ready" /\ attempt[m] < MaxAttempts
        /\ copy' = [copy EXCEPT ![m] = IF adapter = "zeromq" THEN "gone" ELSE "held"]
        /\ attempt' = [attempt EXCEPT ![m] = @ + 1]
        /\ holder' = [holder EXCEPT ![m] = c]
        /\ inbox' = [inbox EXCEPT ![c] = Append(@, <<m, attempt[m] + 1>>)]
    BY DEF Deliver, callback
  <1>2. Typed /\ Places /\ FramesMeant /\ Answered /\ Held /\ SettledAsMeant
    BY DEF Inv
  <1>3. MaxAttempts \in Nat /\ \A n \in Messages : attempt[n] \in 0..MaxAttempts
    BY <1>2 DEF Typed, SettlingAssumption
  <1>4. PICK d0 : d0 = <<m, attempt[m] + 1>>
    OBVIOUS
  <1>5. /\ d0 \in Deliveries /\ d0[1] = m /\ d0[2] = attempt[m] + 1 /\ d0[2] > attempt[d0[1]]
    <2>1. attempt[m] + 1 \in 1..MaxAttempts
      BY <1>1, <1>3
    <2> QED
      BY <1>3, <1>4, <2>1 DEF Deliveries
  <1>6. called[d0] = "none" /\ ended[d0] = "no" /\ \A e \in Consumers : ~At(e, d0)
    <2>1. Undelivered(d0) /\ \A e \in Consumers : Unsettled(e, d0)
      BY <1>2, <1>5 DEF Places
    <2>2. ~(d0[2] <= attempt[d0[1]])
      BY <1>3, <1>5
    <2> QED
      BY <1>5, <2>1, <2>2 DEF Undelivered, Unsettled
  <1>7. /\ inbox[c] \in Seq(Deliveries) /\ OnceIn(inbox[c]) /\ ~Contains(inbox[c], d0)
    BY <1>2, <1>6 DEF Typed, Places, At
  <1>8. /\ Append(inbox[c], d0) \in Seq(Deliveries) /\ OnceIn(Append(inbox[c], d0))
        /\ \A x : Contains(Append(inbox[c], d0), x) <=> Contains(inbox[c], x) \/ x = d0
    BY <1>5, <1>7, AppendSeq
  <1>9. /\ inbox'[c] = Append(inbox[c], d0) /\ inbox' \in [Consumers -> Seq(Deliveries)]
        /\ \A e \in Consumers : e # c => inbox'[e] = inbox[e]
    BY <1>1, <1>2, <1>4, <1>8 DEF Typed
  <1>10. /\ attempt'[m] = attempt[m] + 1 /\ attempt' \in [Messages -> 0..MaxAttempts]
         /\ \A n \in Messages : n # m => attempt'[n] = attempt[n] /\ copy'[n] = copy[n]
                                         /\ holder'[n] = holder[n]
         /\ copy'[m] = (IF adapter = "zeromq" THEN "gone" ELSE "held") /\ holder'[m] = c
    <2>1. attempt[m] + 1 \in 0..MaxAttempts
      BY <1>1, <1>3
    <2> QED
      BY <1>1, <1>2, <2>1 DEF Typed
  <1>11. Typed'
    BY <1>1, <1>2, <1>9, <1>10 DEF Typed
  <1>12. Grows
    BY <1>1, <1>10 DEF Grows
  <1>13. ASSUME NEW e \in Consumers, NEW x
         PROVE  /\ At(e, x) => At(e, x)'
                /\ At(e, x)' <=> At(e, x) \/ (e = c /\ x = d0)
                /\ Contains(inbox'[e], x) <=> Contains(inbox[e], x) \/ (e = c /\ x = d0)
    BY <1>1, <1>8, <1>9 DEF At
  <1>14. Places'
    <2>1. ASSUME NEW e \in Consumers
          PROVE  OnceIn(inbox'[e])
      BY <1>2, <1>8, <1>9 DEF Places
    <2>2. ASSUME NEW e \in Consumers, NEW d \in Deliveries, At(e, d)'
          PROVE  /\ ended[d] = "no" /\ d[2] <= attempt'[d[1]]
                 /\ Contains(inbox'[e], d) => called[d] = "none" /\ d \notin handling[e]
      <3>1. CASE e = c /\ d = d0
        <4>1. d0[2] <= attempt'[d0[1]]
          BY <1>3, <1>5, <1>10
        <4>2. d0 \notin handling[c]
          BY <1>6 DEF At
        <4> QED
          BY <1>6, <3>1, <4>1, <4>2
      <3>2. CASE ~(e = c /\ d = d0)
        <4>1. At(e, d) /\ (Contains(inbox'[e], d) <=> Contains(inbox[e], d))
          BY <1>13, <2>2, <3>2
        <4>2. Unsettled(e, d)
          BY <1>2 DEF Places
        <4>3. d[2] <= attempt[d[1]]
          BY <4>1, <4>2 DEF Unsettled
        <4>4. d[2] <= attempt'[d[1]]
          BY <1>2, <1>11, <1>12, <4>3, GrowsKeeps
        <4> QED
          BY <4>1, <4>2, <4>4 DEF Unsettled
      <3> QED
        BY <3>1, <3>2
    <2>3. ASSUME NEW e \in Consumers, NEW d \in Deliveries
          PROVE  Unsettled(e, d)'
      BY <1>1, <2>2 DEF Unsettled
    <2>4. ASSUME NEW a \in Consumers, NEW e \in Consumers, NEW d \in Deliveries,
                 At(a, d)', At(e, d)'
          PROVE  a = e
      <3>1. CASE d = d0
        BY <1>6, <1>13, <2>4, <3>1
      <3>2. CASE d # d0
        <4>1. At(a, d) /\ At(e, d)
          BY <1>13, <2>4, <3>2
        <4> QED
          BY <1>2, <4>1 DEF Places
      <3> QED
        BY <3>1, <3>2
    <2>5. ASSUME NEW d \in Deliveries, d[2] > attempt'[d[1]]
          PROVE  called[d] = "none" /\ ended[d] = "no"
      <3>1. d[1] \in Messages /\ d[2] \in Nat
        BY DeliveryFact
      <3>2. attempt'[d[1]] = attempt[d[1]] \/ attempt'[d[1]] = attempt[d[1]] + 1
        BY <1>12, <3>1 DEF Grows
      <3>3. d[2] > attempt[d[1]]
        BY <1>3, <2>5, <3>1, <3>2
      <3>4. Undelivered(d)
        BY <1>2 DEF Places
      <3> QED
        BY <3>3, <3>4 DEF Undelivered
    <2>6. \A d \in Deliveries : Undelivered(d)'
      BY <1>1, <2>5 DEF Undelivered
    <2> QED
      BY <2>1, <2>3, <2>4, <2>6 DEF Places
  <1>15. FramesMeant'
    BY <1>1, <1>2, <1>11, <1>12, QuietFrames
  <1>16. Answered'
    <2>1. ASSUME NEW e \in Consumers
          PROVE  AnsweredAt(e)'
      <3>1. \A d \in handling'[e] : At(e, d)
        BY <1>1 DEF At
      <3> QED
        BY <1>1, <1>2, <1>11, <1>12, <3>1, QuietAnswered
    <2> QED
      BY <2>1 DEF Answered
  <1>17. Held'
    <2>1. ASSUME NEW n \in Messages, copy'[n] = "held", NEW h, h = holder'[n],
                 NEW d, d = <<n, attempt'[n]>>
          PROVE  /\ adapter' # "zeromq" /\ consumer'[h] # "idle"
                 /\ consumer'[h] \in {"open", "draining"} => InHands(h, d)' \/ d \in failed'
      <3>1. CASE n = m
        <4>1. h = c /\ d = d0 /\ adapter # "zeromq"
          BY <1>4, <1>10, <2>1, <3>1
        <4>2. At(c, d0)'
          BY <1>13
        <4> QED
          BY <1>1, <4>1, <4>2 DEF InHands
      <3>2. CASE n # m
        <4>1. copy[n] = "held" /\ h = holder[n] /\ d = <<n, attempt[n]>>
          BY <1>10, <2>1, <3>2
        <4>2. h \in Consumers
          BY <1>2, <4>1 DEF Typed
        <4>3. /\ adapter # "zeromq" /\ consumer[h] # "idle"
              /\ consumer[h] \in {"open", "draining"} => InHands(h, d) \/ d \in failed
          BY <1>2, <4>1 DEF Held, HeldOnce
        <4>4. At(h, d) => At(h, d)'
          BY <1>13, <4>2
        <4>5. HasOwn(h, d) => HasOwn(h, d)'
          BY <1>1 DEF HasOwn
        <4> QED
          BY <1>1, <4>3, <4>4, <4>5 DEF InHands
      <3> QED
        BY <3>1, <3>2
    <2>2. ASSUME NEW n \in Messages
          PROVE  HeldOnce(n)'
      BY <2>1 DEF HeldOnce
    <2> QED
      BY <2>2 DEF Held
  <1>18. SettledAsMeant'
    <2>1. \A n \in Messages :
            /\ copy'[n] = "acked" => copy[n] = "acked"
            /\ copy'[n] = "discarded" => copy[n] = "discarded"
      BY <1>10
    <2> QED
      BY <1>2, <1>11, <1>12, <2>1, SettledKept
  <1> QED
    BY <1>11, <1>14, <1>15, <1>16, <1>17, <1>18 DEF Inv

-----------------------------------------------------------------------------
(* Steps of a handler, and of a callback that cannot read the body *)

(* A step that moves one consumer's frames keeps the invariant. *)
LEMMA MovesInv ==
  ASSUME SettlingAssumption, Inv, Typed', Places', SettledAsMeant',
         NEW c \in Consumers, NEW G, NEW N, Moves(c, G, N),
         \A e \in Consumers : \A d \in handling'[e] :
           /\ d \in handling[e]
           /\ \/ called'[d] = called[d] \/ adapter = "zeromq"
              \/ e = c /\ \E g \in N : g.of = d /\ g.by = "handler",
         \A d \in Deliveries : At(c, d) /\ Current(d)' =>
           \/ At(c, d)' \/ adapter = "zeromq" \/ HasOwn(c, d)
           \/ d \in failed' \/ \E g \in N : IsOwn(g, d)
  PROVE  Inv'
  <1>1. Typed /\ Places /\ FramesMeant /\ Answered /\ Held
    BY DEF Inv
  <1>2. FramesMeant'
    BY <1>1, MovesFrames
  <1>3. Answered'
    BY <1>1, MovesAnswered
  <1>4. Held'
    BY <1>1, MovesHeld
  <1> QED
    BY <1>2, <1>3, <1>4 DEF Inv

(* One delivery d of c is called or ended. *)
LEMMA PlacesMoved ==
  ASSUME SettlingAssumption, Typed, Places, attempt' = attempt, NEW c \in Consumers,
         NEW d \in Deliveries, At(c, d),
         \A x \in Deliveries : x # d => called'[x] = called[x] /\ ended'[x] = ended[x],
         \A e \in Consumers :
           /\ OnceIn(inbox'[e])
           /\ \A x : At(e, x)' => At(e, x)
           /\ \A x : Contains(inbox'[e], x) => Contains(inbox[e], x)
           /\ \A x : x \in handling'[e] => x \in handling[e],
         At(c, d)' => ended'[d] = "no" /\ ~Contains(inbox'[c], d)
  PROVE  Places'
  <1>1. d[2] <= attempt[d[1]] /\ \A e \in Consumers : At(e, d) => e = c
    BY DEF Places, Unsettled
  <1>2. ASSUME NEW e \in Consumers, NEW x \in Deliveries, At(e, x)'
        PROVE  /\ ended'[x] = "no" /\ x[2] <= attempt[x[1]]
               /\ Contains(inbox'[e], x) => called'[x] = "none" /\ x \notin handling'[e]
    <2>1. At(e, x) /\ Unsettled(e, x)
      BY <1>2 DEF Places
    <2>2. CASE x = d
      <3>1. e = c
        BY <1>1, <2>1, <2>2
      <3> QED
        BY <1>1, <1>2, <2>2, <3>1
    <2>3. CASE x # d
      BY <2>1, <2>3 DEF Unsettled
    <2> QED
      BY <2>2, <2>3
  <1>3. ASSUME NEW e \in Consumers, NEW x \in Deliveries
        PROVE  Unsettled(e, x)'
    BY <1>2 DEF Unsettled
  <1>4. ASSUME NEW a \in Consumers, NEW e \in Consumers, NEW x \in Deliveries,
               At(a, x)', At(e, x)'
        PROVE  a = e
    BY <1>4 DEF Places
  <1>5. ASSUME NEW x \in Deliveries
        PROVE  Undelivered(x)'
    <2>1. Undelivered(x)
      BY DEF Places
    <2>2. CASE x = d
      <3>1. d[2] \in Nat /\ attempt[d[1]] \in Nat
        <4>1. d[1] \in Messages /\ d[2] \in Nat
          BY DeliveryFact
        <4> QED
          BY <4>1 DEF Typed, SettlingAssumption
      <3>2. ~(d[2] > attempt[d[1]])
        BY <1>1, <3>1
      <3> QED
        BY <2>2, <3>2 DEF Undelivered
    <2>3. CASE x # d
      BY <2>1, <2>3 DEF Undelivered
    <2> QED
      BY <2>2, <2>3
  <1>6. \A e \in Consumers : OnceIn(inbox'[e])
    OBVIOUS
  <1> QED
    BY <1>3, <1>4, <1>5, <1>6 DEF Places

(* A settlement call adds one frame to its consumer's, or none with ZeroMQ. *)
LEMMA SendEffect ==
  ASSUME Typed, NEW c \in Consumers, NEW d \in Deliveries, NEW op \in Settlements,
         NEW by \in {"handler", "return", "throw", "worker"}, Send(c, d, op, by),
         NEW N, N = IF adapter = "zeromq" THEN {} ELSE {[op |-> op, of |-> d, by |-> by]}
  PROVE  /\ sent' \in [Consumers -> Seq(Frames)]
         /\ \A e \in Consumers : e # c => sent'[e] = sent[e]
         /\ Follows(sent[c], sent'[c], {}, N)
  <1>1. sent[c] \in Seq(Frames)
    BY FrameFact
  <1>2. CASE adapter = "zeromq"
    <2>1. sent' = sent
      BY <1>2 DEF Send
    <2>2. Follows(sent[c], sent[c], {}, {})
      BY <1>1, SameFollows
    <2> QED
      BY <1>2, <2>1, <2>2 DEF Typed
  <1>3. CASE adapter # "zeromq"
    <2> DEFINE g == [op |-> op, of |-> d, by |-> by]
    <2>1. g \in Frames
      BY DEF Frames
    <2>2. sent' = [sent EXCEPT ![c] = Append(@, g)] /\ N = {g}
      BY <1>3 DEF Send
    <2> HIDE DEF g
    <2>3. Append(sent[c], g) \in Seq(Frames) /\ Follows(sent[c], Append(sent[c], g), {}, {g})
      BY <1>1, <2>1, AppendFollows
    <2>4. sent'[c] = Append(sent[c], g) /\ \A e \in Consumers : e # c => sent'[e] = sent[e]
      BY <2>2 DEF Typed
    <2>5. sent' \in [Consumers -> Seq(Frames)]
      BY <2>2, <2>3 DEF Typed
    <2> QED
      BY <2>2, <2>3, <2>4, <2>5
  <1> QED
    BY <1>2, <1>3

(* What each adapter makes of a call. *)
LEMMA OpMeaning ==
  ASSUME NEW call \in Settlements, Typed
  PROVE  /\ Op(call) \in Settlements
         /\ Op(call) = "ack" => call = "ack" \/ (adapter = "activemq" /\ call = "discard")
         /\ Op(call) = "discard" => call = "discard"
         /\ Op(call) = "requeue" /\ adapter = "activemq" => call = "requeue"
         /\ call = "ack" => Op(call) = "ack"
         /\ call = "requeue" => Op(call) = "requeue"
  <1>1. call \in {"ack", "requeue", "discard"} /\ adapter \in Adapters
    BY DEF Settlements, Calls, Typed
  <1>2. {"ack", "requeue", "discard"} = Settlements
    BY DEF Settlements, Calls
  <1>3. CASE adapter = "activemq"
    <2>1. Op(call) = IF call = "discard" THEN "ack" ELSE call
      BY <1>3 DEF Op, ActiveMQOp
    <2> QED
      BY <1>1, <1>2, <1>3, <2>1
  <1>4. CASE adapter = "pulsar"
    <2>1. Op(call) = IF call = "discard" THEN "requeue" ELSE call
      BY <1>4 DEF Op, PulsarOp
    <2> QED
      BY <1>1, <1>2, <1>4, <2>1
  <1>5. CASE adapter \in {"servicebus", "nats", "bullmq", "zeromq"}
    <2>1. Op(call) = call
      BY <1>5 DEF Op, ServiceBusOp, NatsOp, BullMQOp
    <2> QED
      BY <1>1, <1>2, <2>1
  <1> QED
    BY <1>1, <1>3, <1>4, <1>5 DEF Adapters

(* A handler's ack or nack keeps the invariant. *)
LEMMA HandlerCallInv ==
  ASSUME SettlingAssumption, Inv, NEW c \in Consumers, NEW d \in handling[c],
         NEW call \in Settlements, HandlerCall(c, d, call)
  PROVE  Inv'
  <1>1. /\ UNCHANGED <<adapter, consumer, copy, attempt, holder, inbox, handling, ended, failed>>
        /\ called[d] = "none" /\ called' = [called EXCEPT ![d] = call]
        /\ Send(c, d, Op(call), "handler")
    BY DEF HandlerCall, service
  <1>2. Typed /\ Places /\ SettledAsMeant
    BY DEF Inv
  <1>3. d \in Deliveries /\ At(c, d)
    BY <1>2 DEF Typed, At
  <1>4. ended[d] = "no" /\ d[2] <= attempt[d[1]] /\ ~Contains(inbox[c], d)
    BY <1>2, <1>3 DEF Places, Unsettled
  <1>5. PICK op \in Settlements : op = Op(call)
    BY <1>2, OpMeaning
  <1>6. PICK N : N = IF adapter = "zeromq" THEN {} ELSE {[op |-> op, of |-> d, by |-> "handler"]}
    OBVIOUS
  <1>7. /\ sent' \in [Consumers -> Seq(Frames)]
        /\ \A e \in Consumers : e # c => sent'[e] = sent[e]
        /\ Follows(sent[c], sent'[c], {}, N)
    BY <1>1, <1>2, <1>3, <1>5, <1>6, SendEffect
  <1>8. Typed'
    <2>1. called' \in [Deliveries -> Calls]
      BY <1>1, <1>2 DEF Typed, Settlements
    <2> QED
      BY <1>1, <1>2, <1>7, <2>1 DEF Typed
  <1>9. called'[d] = call /\ \A x \in Deliveries : x # d => called'[x] = called[x]
    BY <1>1, <1>2, <1>3 DEF Typed
  <1>10. Grows
    BY <1>1, <1>4, <1>9 DEF Grows
  <1>11. Places'
    <2>1. \A e \in Consumers : \A x : At(e, x)' <=> At(e, x)
      BY <1>1 DEF At
    <2>2. \A e \in Consumers : OnceIn(inbox'[e])
      BY <1>1, <1>2 DEF Places
    <2> QED
      BY <1>1, <1>2, <1>3, <1>4, <1>9, <2>1, <2>2, PlacesMoved
  <1>12. ASSUME NEW g \in N
         PROVE  NewMeant(c, g)
    <2>1. g.op = op /\ g.of = d /\ g.by = "handler"
      BY <1>6
    <2>2. d[2] <= attempt'[d[1]]
      BY <1>1, <1>4
    <2>3. ASSUME op = "discard" \/ (adapter = "activemq" /\ op = "requeue")
          PROVE  MayDiscard(d)'
      <3>1. call = "discard" \/ (adapter = "activemq" /\ call = "requeue")
        BY <1>2, <1>5, <2>3, OpMeaning
      <3> QED
        BY <1>1, <1>9, <3>1 DEF MayDiscard, DiscardMeant, DiscardedAgainst
    <2>4. ASSUME op = "ack"
          PROVE  MayAck(d)'
      <3>1. call = "ack" \/ (adapter = "activemq" /\ call = "discard")
        BY <1>2, <1>5, <2>4, OpMeaning
      <3> QED
        BY <1>1, <1>9, <3>1 DEF MayAck, AckMeant, AckedAgainst
    <2>5. Meant(g)'
      BY <1>1, <2>1, <2>2, <2>3 DEF Meant
    <2> QED
      BY <2>1, <2>4, <2>5 DEF NewMeant
  <1>13. Moves(c, {}, N)
    BY <1>1, <1>7, <1>10, <1>12 DEF Moves
  <1>14. \A e \in Consumers : \A x \in handling'[e] :
           /\ x \in handling[e]
           /\ \/ called'[x] = called[x] \/ adapter = "zeromq"
              \/ e = c /\ \E g \in N : g.of = x /\ g.by = "handler"
    <2>1. ASSUME NEW e \in Consumers, NEW x \in handling'[e], called'[x] # called[x],
                 adapter # "zeromq"
          PROVE  e = c /\ \E g \in N : g.of = x /\ g.by = "handler"
      <3>1. x \in Deliveries /\ x = d /\ At(e, d)
        BY <1>1, <1>2, <1>9, <2>1 DEF Typed, At
      <3>2. e = c
        BY <1>2, <1>3, <3>1 DEF Places
      <3>3. [op |-> op, of |-> d, by |-> "handler"] \in N
        BY <1>6, <2>1
      <3> QED
        BY <3>1, <3>2, <3>3
    <2> QED
      BY <1>1, <2>1
  <1>15. \A x \in Deliveries : At(c, x) => At(c, x)'
    BY <1>1 DEF At
  <1>16. SettledAsMeant'
    BY <1>1, <1>2, <1>8, <1>10, SettledKept
  <1> QED
    BY <1>8, <1>11, <1>13, <1>14, <1>15, <1>16, MovesInv

(* A handler's return or throw, with what the adapter then settles, keeps *)
(* the invariant.                                                         *)
LEMMA EndsInv ==
  ASSUME SettlingAssumption, Inv, NEW c \in Consumers, NEW d \in handling[c],
         NEW end \in {"return", "throw"}, NEW call \in Settlements,
         call = IF end = "return" THEN "ack" ELSE "requeue",
         HandlerEnds(c, d, end), AdapterSettles(c, d, call, end)
  PROVE  Inv'
  <1>1. /\ UNCHANGED <<adapter, consumer, copy, attempt, holder, inbox, called, failed>>
        /\ handling' = [handling EXCEPT ![c] = @ \ {d}]
        /\ ended' = [ended EXCEPT ![d] = end]
    BY DEF HandlerEnds, service
  <1>2. Typed /\ Places /\ SettledAsMeant /\ Answered
    BY DEF Inv
  <1>3. d \in Deliveries /\ At(c, d)
    BY <1>2 DEF Typed, At
  <1>4. ended[d] = "no" /\ d[2] <= attempt[d[1]] /\ ~Contains(inbox[c], d)
    BY <1>2, <1>3 DEF Places, Unsettled
  <1>5. Op(call) = call
    BY <1>2, OpMeaning
  <1>6. PICK g : g = [op |-> call, of |-> d, by |-> end]
    OBVIOUS
  <1>7. PICK N : N = IF adapter = "zeromq" \/ (adapter = "nats" /\ called[d] # "none")
                       THEN {} ELSE {g}
    OBVIOUS
  <1>8. /\ sent' \in [Consumers -> Seq(Frames)]
        /\ \A e \in Consumers : e # c => sent'[e] = sent[e]
        /\ Follows(sent[c], sent'[c], {}, N)
    <2>1. CASE adapter = "nats" /\ called[d] # "none"
      <3>1. sent' = sent
        BY <2>1 DEF AdapterSettles
      <3>2. Follows(sent[c], sent[c], {}, {})
        BY <1>2, FrameFact, SameFollows
      <3> QED
        BY <1>2, <1>7, <2>1, <3>1, <3>2 DEF Typed
    <2>2. CASE ~(adapter = "nats" /\ called[d] # "none")
      <3>1. Send(c, d, call, end)
        BY <1>5, <2>2 DEF AdapterSettles
      <3>2. N = IF adapter = "zeromq" THEN {} ELSE {[op |-> call, of |-> d, by |-> end]}
        BY <1>6, <1>7, <2>2
      <3>3. end \in {"handler", "return", "throw", "worker"}
        OBVIOUS
      <3> QED
        BY <1>2, <1>3, <3>1, <3>2, <3>3, SendEffect
    <2> QED
      BY <2>1, <2>2
  <1>9. Typed'
    <2>1. handling' \in [Consumers -> SUBSET Deliveries]
      BY <1>1, <1>2 DEF Typed
    <2>2. ended' \in [Deliveries -> {"no", "return", "throw"}]
      BY <1>1, <1>2 DEF Typed
    <2> QED
      BY <1>1, <1>2, <1>8, <2>1, <2>2 DEF Typed
  <1>10. /\ ended'[d] = end /\ \A x \in Deliveries : x # d => ended'[x] = ended[x]
         /\ handling'[c] = handling[c] \ {d}
         /\ \A e \in Consumers : e # c => handling'[e] = handling[e]
    BY <1>1, <1>2, <1>3 DEF Typed
  <1>11. Grows
    BY <1>1, <1>4, <1>10 DEF Grows
  <1>12. Places'
    <2>1. \A e \in Consumers : \A x : x \in handling'[e] => x \in handling[e]
      BY <1>10
    <2>2. \A e \in Consumers : \A x : At(e, x)' => At(e, x)
      BY <1>1, <2>1 DEF At
    <2>3. \A e \in Consumers : OnceIn(inbox'[e])
      BY <1>1, <1>2 DEF Places
    <2>4. ~At(c, d)'
      BY <1>1, <1>4, <1>10 DEF At
    <2>5. \A e \in Consumers : \A x : Contains(inbox'[e], x) => Contains(inbox[e], x)
      BY <1>1
    <2> QED
      BY <1>1, <1>2, <1>3, <1>10, <2>1, <2>2, <2>3, <2>4, <2>5, PlacesMoved
  <1>13. ASSUME NEW f \in N
         PROVE  NewMeant(c, f)
    <2>1. /\ f.op = call /\ f.of = d /\ f.by = end
          /\ adapter # "zeromq" /\ ~(adapter = "nats" /\ called[d] # "none")
      BY <1>6, <1>7
    <2>2. d[2] <= attempt'[d[1]]
      BY <1>1, <1>4
    <2>3. ASSUME call = "discard" \/ (adapter = "activemq" /\ call = "requeue")
          PROVE  MayDiscard(d)'
      <3>1. end = "throw" /\ adapter = "activemq"
        BY <2>3
      <3> QED
        BY <1>1, <1>10, <3>1 DEF MayDiscard, DiscardMeant, DiscardedAgainst
    <2>4. ASSUME call = "ack"
          PROVE  \/ MayAck(d)'
                 \/ Follower(d)' /\ (~Current(d)' \/ HasFrame(c, d))
      <3>1. end = "return"
        BY <2>4
      <3>2. CASE called[d] = "none" \/ adapter \in {"pulsar", "bullmq"}
        <4>1. called[d] \in {"none", "ack", "requeue", "discard"}
          BY <1>2, <1>3 DEF Typed, Calls
        <4> QED
          BY <1>1, <1>10, <3>1, <3>2, <4>1 DEF MayAck, AckMeant, AckedAgainst
      <3>3. CASE called[d] # "none" /\ adapter \notin {"pulsar", "bullmq"}
        <4>1. adapter \in InOrder
          BY <1>2, <2>1, <3>3 DEF Typed, Adapters, InOrder
        <4>2. Current(d) => HasFrame(c, d) \/ d \in failed
          BY <1>2, <2>1, <3>3 DEF Answered, AnsweredAt
        <4>3. Current(d)' => Current(d)
          BY <1>1 DEF Current
        <4>4. Follower(d)'
          BY <1>1, <1>10, <3>1, <3>3, <4>1 DEF Follower
        <4>5. d \in failed => MayAck(d)'
          BY <1>1, <1>3, <1>9, <4>4, FailedFollower
        <4> QED
          BY <4>2, <4>3, <4>4, <4>5
      <3> QED
        BY <3>2, <3>3
    <2>5. adapter' = "bullmq" /\ end = "throw" => ended'[d] = "throw"
      BY <1>10
    <2>6. Meant(f)'
      BY <1>1, <2>1, <2>2, <2>3, <2>5 DEF Meant
    <2> QED
      BY <2>1, <2>4, <2>6 DEF NewMeant
  <1>14. Moves(c, {}, N)
    BY <1>1, <1>8, <1>10, <1>11, <1>13 DEF Moves
  <1>15. \A e \in Consumers : \A x \in handling'[e] :
           x \in handling[e] /\ called'[x] = called[x]
    BY <1>1, <1>10
  <1>16. ASSUME NEW x \in Deliveries, At(c, x), Current(x)', ~At(c, x)', adapter # "zeromq"
         PROVE  HasOwn(c, x) \/ x \in failed' \/ \E f \in N : IsOwn(f, x)
    <2>1. x = d
      BY <1>1, <1>10, <1>16 DEF At
    <2>2. CASE adapter = "nats" /\ called[d] # "none"
      <3>1. Current(d)
        BY <1>1, <1>16, <2>1 DEF Current
      <3>2. HasFrame(c, d) \/ d \in failed
        BY <1>2, <2>2, <3>1 DEF Answered, AnsweredAt
      <3> QED
        BY <1>1, <2>1, <2>2, <3>2 DEF HasFrame, HasOwn
    <2>3. CASE ~(adapter = "nats" /\ called[d] # "none")
      <3>1. g \in N /\ g.of = d /\ g.by # "handler"
        BY <1>6, <1>7, <1>16, <2>3
      <3> QED
        BY <2>1, <3>1 DEF IsOwn
    <2> QED
      BY <2>2, <2>3
  <1>17. SettledAsMeant'
    BY <1>1, <1>2, <1>9, <1>11, SettledKept
  <1> QED
    BY <1>9, <1>12, <1>14, <1>15, <1>16, <1>17, MovesInv

(* A message ActiveMQ cannot read keeps the invariant. *)
LEMMA ReadFailureInv ==
  ASSUME SettlingAssumption, Inv, NEW c \in Consumers, ReadFailureActiveMQ(c)
  PROVE  Inv'
  <1>1. PICK d : d = First(c)
    OBVIOUS
  <1>2. /\ UNCHANGED <<adapter, consumer, copy, attempt, holder, handling, called, failed>>
        /\ adapter = "activemq" /\ inbox[c] # <<>>
        /\ Send(c, d, ActiveMQOp("requeue"), "throw")
        /\ ended' = [ended EXCEPT ![d] = "throw"]
        /\ inbox' = [inbox EXCEPT ![c] = Tail(@)]
    BY <1>1 DEF ReadFailureActiveMQ, Waiting, service
  <1>3. Typed /\ Places /\ SettledAsMeant
    BY DEF Inv
  <1>4. OnceIn(inbox[c]) /\ inbox[c] \in Seq(Deliveries)
    BY <1>3, InboxFact DEF Places
  <1>5. /\ Tail(inbox[c]) \in Seq(Deliveries) /\ d \in Deliveries /\ OnceIn(Tail(inbox[c]))
        /\ Contains(inbox[c], d)
        /\ \A x : Contains(Tail(inbox[c]), x) <=> Contains(inbox[c], x) /\ x # d
    BY <1>1, <1>2, <1>4, TailSeq DEF First
  <1>6. /\ inbox'[c] = Tail(inbox[c]) /\ inbox' \in [Consumers -> Seq(Deliveries)]
        /\ \A e \in Consumers : e # c => inbox'[e] = inbox[e]
    BY <1>2, <1>3, <1>5 DEF Typed
  <1>7. At(c, d) /\ ended[d] = "no" /\ d[2] <= attempt[d[1]] /\ d \notin handling[c]
    BY <1>3, <1>5 DEF At, Places, Unsettled
  <1>8. PICK op \in Settlements : op = "requeue"
    BY DEF Settlements, Calls
  <1>9. PICK N : N = {[op |-> op, of |-> d, by |-> "throw"]}
    OBVIOUS
  <1>10. /\ sent' \in [Consumers -> Seq(Frames)]
         /\ \A e \in Consumers : e # c => sent'[e] = sent[e]
         /\ Follows(sent[c], sent'[c], {}, N)
    <2>1. Send(c, d, op, "throw")
      BY <1>2, <1>8 DEF ActiveMQOp
    <2>2. N = IF adapter = "zeromq" THEN {} ELSE {[op |-> op, of |-> d, by |-> "throw"]}
      BY <1>2, <1>9
    <2> QED
      BY <1>3, <1>5, <2>1, <2>2, SendEffect
  <1>11. Typed'
    <2>1. ended' \in [Deliveries -> {"no", "return", "throw"}]
      BY <1>2, <1>3 DEF Typed
    <2> QED
      BY <1>2, <1>3, <1>6, <1>10, <2>1 DEF Typed
  <1>12. ended'[d] = "throw" /\ \A x \in Deliveries : x # d => ended'[x] = ended[x]
    BY <1>2, <1>3, <1>5 DEF Typed
  <1>13. Grows
    BY <1>2, <1>7, <1>12 DEF Grows
  <1>14. Places'
    <2>1. \A e \in Consumers : \A x : Contains(inbox'[e], x) => Contains(inbox[e], x)
      BY <1>5, <1>6
    <2>2. \A e \in Consumers : \A x : At(e, x)' => At(e, x)
      BY <1>2, <2>1 DEF At
    <2>3. \A e \in Consumers : OnceIn(inbox'[e])
      BY <1>3, <1>5, <1>6 DEF Places
    <2>4. ~At(c, d)'
      BY <1>2, <1>5, <1>6, <1>7 DEF At
    <2> QED
      BY <1>2, <1>3, <1>5, <1>7, <1>12, <2>1, <2>2, <2>3, <2>4, PlacesMoved
  <1>15. ASSUME NEW f \in N
         PROVE  NewMeant(c, f)
    <2>1. f.op = "requeue" /\ f.of = d /\ f.by = "throw"
      BY <1>8, <1>9
    <2>2. d[2] <= attempt'[d[1]]
      BY <1>2, <1>7
    <2>3. MayDiscard(d)'
      BY <1>2, <1>12 DEF MayDiscard, DiscardMeant, DiscardedAgainst
    <2>4. Meant(f)'
      BY <1>2, <1>12, <2>1, <2>2, <2>3 DEF Meant
    <2> QED
      BY <2>1, <2>4 DEF NewMeant
  <1>16. Moves(c, {}, N)
    BY <1>2, <1>6, <1>10, <1>13, <1>15 DEF Moves
  <1>17. \A e \in Consumers : \A x \in handling'[e] :
           x \in handling[e] /\ called'[x] = called[x]
    BY <1>2
  <1>18. ASSUME NEW x \in Deliveries, At(c, x), ~At(c, x)'
         PROVE  \E f \in N : IsOwn(f, x)
    <2>1. x = d
      BY <1>2, <1>5, <1>6, <1>18 DEF At
    <2> QED
      BY <1>9, <2>1 DEF IsOwn
  <1>19. SettledAsMeant'
    BY <1>2, <1>3, <1>11, <1>13, SettledKept
  <1> QED
    BY <1>11, <1>14, <1>16, <1>17, <1>18, <1>19, MovesInv

-----------------------------------------------------------------------------
(* Steps of the service *)

(* Deliveries stay where they are, also when something of theirs is processed. *)
LEMMA PlacesSame ==
  ASSUME Places, UNCHANGED <<attempt, inbox, handling, called, ended>>
  PROVE  Places'
  <1>1. \A c \in Consumers : \A d : At(c, d)' <=> At(c, d)
    BY DEF At
  <1>2. \A c \in Consumers, d \in Deliveries : Unsettled(c, d)'
    BY <1>1 DEF Places, Unsettled
  <1>3. \A d \in Deliveries : Undelivered(d)'
    BY DEF Places, Undelivered
  <1> QED
    BY <1>1, <1>2, <1>3 DEF Places

(* What is true of a copy that a step of the service has changed. *)
CopyMeant(m) ==
  /\ copy'[m] = "held" => copy[m] = "held"
  /\ copy'[m] = "acked" =>
       copy[m] = "acked" \/ \E n \in 1..attempt'[m] : MayAck(<<m, n>>)'
  /\ copy'[m] = "discarded" =>
       copy[m] = "discarded" \/ \E n \in 1..attempt'[m] : MayDiscard(<<m, n>>)'

(* A step of the service leaves consumers alone; settlements may fail where locks
   bring the message back. *)
ServiceStep ==
  /\ UNCHANGED <<adapter, consumer, attempt, holder, inbox, handling, called, ended>>
  /\ copy' \in [Messages -> {"none", "ready", "held", "acked", "discarded", "gone"}]
  /\ \A m \in Messages : CopyMeant(m)
  /\ failed \subseteq failed' /\ failed' \subseteq Deliveries
  /\ failed' # {} => adapter \in Locking

(* A frame the service takes off the wire keeps the invariant. *)
LEMMA ProcessedInv ==
  ASSUME SettlingAssumption, Inv, NEW c \in Consumers, NEW G, NEW N, ServiceStep,
         sent' \in [Consumers -> Seq(Frames)],
         \A e \in Consumers : e # c => sent'[e] = sent[e],
         Follows(sent[c], sent'[c], G, N),
         \A g \in G : Dropped(N, g), \A g \in N : NewMeant(c, g)
  PROVE  Inv'
  <1>0. /\ UNCHANGED <<adapter, consumer, attempt, holder, inbox, handling, called, ended>>
        /\ copy' \in [Messages -> {"none", "ready", "held", "acked", "discarded", "gone"}]
        /\ failed \subseteq failed' /\ failed' \subseteq Deliveries
        /\ failed' # {} => adapter \in Locking
    BY DEF ServiceStep
  <1>1. Typed'
    BY <1>0 DEF Inv, Typed
  <1>2. Places'
    BY <1>0, PlacesSame DEF Inv
  <1>3. Grows
    BY <1>0 DEF Grows, ServiceStep, CopyMeant
  <1>4. SettledAsMeant'
    <2>1. \A m \in Messages :
            /\ copy'[m] = "acked" =>
                 copy[m] = "acked" \/ \E n \in 1..attempt'[m] : MayAck(<<m, n>>)'
            /\ copy'[m] = "discarded" =>
                 \/ copy[m] = "discarded" \/ StalledBefore(m)'
                 \/ \E n \in 1..attempt'[m] : MayDiscard(<<m, n>>)'
      BY DEF ServiceStep, CopyMeant
    <2> QED
      BY <1>1, <1>3, <2>1, SettledKept DEF Inv
  <1>5. Moves(c, G, N)
    BY <1>0, <1>3 DEF Moves
  <1>6. \A d : At(c, d) => At(c, d)'
    BY <1>0 DEF At
  <1>7. \A e \in Consumers : \A d \in handling'[e] : d \in handling[e] /\ called'[d] = called[d]
    BY <1>0
  <1> QED
    BY <1>1, <1>2, <1>4, <1>5, <1>6, <1>7, MovesInv

(* What the service takes has been meant, or goes against the interface in one of the
   ways named, and nobody holds the message any more. *)
LEMMA TakenFact ==
  ASSUME SettlingAssumption, Inv, NEW c \in Consumers, NEW i \in 1..Len(sent[c]),
         i = 1 \/ adapter = "pulsar", UNCHANGED <<adapter, attempt, called, ended, failed>>,
         NEW f, f = sent[c][i], Processed(f)
  PROVE  /\ copy' \in [Messages -> {"none", "ready", "held", "acked", "discarded", "gone"}]
         /\ \A m \in Messages : CopyMeant(m)
         /\ ~Current(f.of)'
  <1>1. Typed /\ SettledAsMeant
    BY DEF Inv
  <1>2. f \in Frames /\ f.of \in Deliveries
    BY <1>1, FrameFact
  <1>4. PICK d \in Deliveries : d = f.of
    BY <1>2
  <1>5. Takes(f)
    BY DEF Processed
  <1>6. PICK result \in Result(f) : copy' = [copy EXCEPT ![d[1]] = result]
    BY <1>4 DEF Processed
  <1>7. d[1] \in Messages /\ d = <<d[1], d[2]>> /\ d[2] \in 1..MaxAttempts
    BY DeliveryFact
  <1>8. f.op \in {"ack", "requeue", "discard"}
    BY <1>2 DEF Frames, Settlements, Calls
  <1>9. /\ result \in {"acked", "ready", "discarded"}
        /\ result = "acked" => f.op = "ack"
        /\ result = "discarded" => f.op = "discard" \/ (adapter = "activemq" /\ f.op = "requeue")
    BY <1>8 DEF Result, Final
  <1>10. /\ copy' \in [Messages -> {"none", "ready", "held", "acked", "discarded", "gone"}]
         /\ copy'[d[1]] = result /\ \A m \in Messages : m # d[1] => copy'[m] = copy[m]
    BY <1>1, <1>6, <1>7, <1>9 DEF Typed
  <1>13. Meant(f) /\ AckBacked(c, i)
    BY DEF Inv, FramesMeant, SentMeant
  <1>14. d[2] \in 1..attempt'[d[1]]
    <2>1. d[2] <= attempt[d[1]]
      BY <1>4, <1>13 DEF Meant
    <2>2. attempt[d[1]] \in Nat
      BY <1>1, <1>7 DEF Typed, SettlingAssumption
    <2> QED
      BY <1>7, <2>1, <2>2 DEF SettlingAssumption
  <1>15. ASSUME f.op = "ack"
         PROVE  MayAck(d)'
    <2>1. MayAck(d) \/ (Follower(d) /\ (~Current(d) \/ Earlier(c, i, d)))
      BY <1>4, <1>13, <1>15 DEF AckBacked
    <2>2. CASE adapter \in InOrder
      <3>1. Current(d)
        BY <1>4, <1>5, <2>2 DEF Takes, LateAck, InOrder
      <3>2. i = 1
        BY <2>2 DEF InOrder
      <3>3. ~Earlier(c, i, d)
        BY <3>2 DEF Earlier
      <3>4. MayAck(d)
        BY <2>1, <3>1, <3>3
      <3> QED
        BY <3>4 DEF MayAck, AckMeant, AckedAgainst
    <2>3. CASE adapter \notin InOrder
      BY <2>1, <2>3 DEF Follower, MayAck, AckMeant, AckedAgainst
    <2> QED
      BY <2>2, <2>3
  <1>16. ASSUME f.op = "discard" \/ (adapter = "activemq" /\ f.op = "requeue")
         PROVE  MayDiscard(d)'
    <2>1. MayDiscard(f.of)
      BY <1>13, <1>16 DEF Meant
    <2> QED
      BY <1>4, <2>1 DEF MayDiscard, DiscardMeant, DiscardedAgainst
  <1>17. ASSUME NEW m \in Messages
         PROVE  CopyMeant(m)
    <2>1. CASE m # d[1]
      <3>1. copy'[m] = copy[m]
        BY <1>10, <2>1
      <3> QED
        BY <3>1 DEF CopyMeant
    <2>2. CASE m = d[1]
      <3>1. PICK n : n = d[2]
        OBVIOUS
      <3>2. n \in 1..attempt'[m] /\ d = <<m, n>> /\ copy'[m] = result
        BY <1>7, <1>10, <1>14, <2>2, <3>1
      <3>3. result = "acked" => MayAck(<<m, n>>)'
        BY <1>9, <1>15, <3>2
      <3>4. result = "discarded" => MayDiscard(<<m, n>>)'
        BY <1>9, <1>16, <3>2
      <3>5. copy'[m] # "held"
        BY <1>9, <3>2
      <3> QED
        BY <3>2, <3>3, <3>4, <3>5 DEF CopyMeant
    <2> QED
      BY <2>1, <2>2
  <1>18. ~Current(d)'
    BY <1>9, <1>10 DEF Current
  <1> QED
    BY <1>4, <1>10, <1>17, <1>18

(* A settlement the service accepts keeps the invariant. *)
LEMMA AcceptedInv ==
  ASSUME SettlingAssumption, Inv, NEW c \in Consumers, NEW i \in DOMAIN sent[c], Accepted(c, i)
  PROVE  Inv'
  <1>1. Typed
    BY DEF Inv
  <1>2. /\ sent[c] \in Seq(Frames) /\ i \in 1..Len(sent[c])
        /\ \A k \in 1..Len(sent[c]) : sent[c][k] \in Frames /\ sent[c][k].of \in Deliveries
    BY <1>1, FrameFact, LenProperties
  <1>3. PICK f : f = sent[c][i]
    OBVIOUS
  <1>5. /\ UNCHANGED <<adapter, consumer, attempt, holder, inbox, handling, called, ended, failed>>
        /\ i = 1 \/ adapter = "pulsar"
        /\ Processed(f)
        /\ sent' = [sent EXCEPT ![c] = RemoveAt(@, i)]
    BY <1>3 DEF Accepted, callback
  <1>6. /\ copy' \in [Messages -> {"none", "ready", "held", "acked", "discarded", "gone"}]
        /\ \A m \in Messages : CopyMeant(m)
        /\ ~Current(f.of)'
    BY <1>2, <1>3, <1>5, TakenFact
  <1>7. ServiceStep
    BY <1>1, <1>5, <1>6 DEF ServiceStep, Typed
  <1>11. /\ sent' \in [Consumers -> Seq(Frames)]
         /\ \A e \in Consumers : e # c => sent'[e] = sent[e]
         /\ Follows(sent[c], sent'[c], {f}, {})
    <2>1. RemoveAt(sent[c], i) \in Seq(Frames) /\ Less(sent[c], i, RemoveAt(sent[c], i))
      BY <1>2, RemoveAtLess
    <2>2. Follows(sent[c], RemoveAt(sent[c], i), {sent[c][i]}, {})
      BY <1>2, <2>1, LessFollows
    <2>3. sent'[c] = RemoveAt(sent[c], i) /\ \A e \in Consumers : e # c => sent'[e] = sent[e]
      BY <1>1, <1>5 DEF Typed
    <2>4. sent' \in [Consumers -> Seq(Frames)]
      BY <1>1, <1>5, <2>1 DEF Typed
    <2> QED
      BY <1>3, <2>2, <2>3, <2>4
  <1>12. \A g \in {f} : Dropped({}, g)
    <2>1. Dropped({}, f)
      BY <1>6 DEF Dropped
    <2> QED
      BY <2>1
  <1>19. PICK G, N : G = {f} /\ N = {}
    OBVIOUS
  <1>20. /\ Follows(sent[c], sent'[c], G, N)
         /\ \A g \in G : Dropped(N, g)
         /\ \A g \in N : NewMeant(c, g)
    BY <1>11, <1>12, <1>19
  <1> QED
    BY <1>7, <1>11, <1>20, ProcessedInv

(* The consumer's side of a settlement that is refused, fails or comes too late. *)
Turned(c) ==
  /\ OnClient
  /\ (adapter \in Locking /\ Rejected(c)) \/ (Late(c) /\ UNCHANGED <<copy, failed>>)

(* A settlement that is turned down is not that of the one who holds the message,
   unless it has failed; or it is what BullMQ makes of the handler's message. *)
LEMMA TurnedFact ==
  ASSUME SettlingAssumption, Inv, NEW c \in Consumers, Turned(c), NEW f, f = Head(sent[c])
  PROVE  /\ f \in Frames /\ f.of \in Deliveries
         /\ 1 \in 1..Len(sent[c]) /\ f = sent[c][1] /\ Meant(f)
         /\ Tail(sent[c]) \in Seq(Frames) /\ Less(sent[c], 1, Tail(sent[c]))
         /\ ServiceStep
         /\ \/ adapter = "bullmq" /\ f.by \in {"handler", "throw"}
            \/ ~Current(f.of)'
            \/ f.of \in failed'
  <1>0. UNCHANGED <<adapter, consumer, attempt, holder, inbox, handling, called, ended>>
    BY DEF Turned, OnClient, callback
  <1>1. Typed
    BY DEF Inv
  <1>2. sent[c] # <<>> /\ sent[c] \in Seq(Frames)
    BY <1>1, FrameFact DEF Turned, Rejected, Fails, Late
  <1>3. /\ f = sent[c][1] /\ f \in Frames /\ 1 \in 1..Len(sent[c])
        /\ Tail(sent[c]) \in Seq(Frames) /\ Less(sent[c], 1, Tail(sent[c]))
    BY <1>2, TailSeq, TailLess
  <1>4. f.of \in Deliveries /\ f.by \in {"handler", "return", "throw", "worker"}
    BY <1>3 DEF Frames
  <1>5. Meant(f)
    BY <1>3 DEF Inv, FramesMeant, SentMeant
  <1>6. ASSUME UNCHANGED copy
        PROVE  /\ copy' \in [Messages -> {"none", "ready", "held", "acked", "discarded", "gone"}]
               /\ \A m \in Messages : CopyMeant(m)
               /\ Current(f.of)' <=> Current(f.of)
    BY <1>0, <1>1, <1>6 DEF CopyMeant, Typed, Current
  <1>7. CASE Late(c) /\ UNCHANGED <<copy, failed>>
    <2>1. ~Takes(f) \/ (adapter = "nats" /\ ~Current(f.of))
      BY <1>7 DEF Late
    <2>2. (adapter = "bullmq" /\ f.by \in {"handler", "throw"}) \/ ~Current(f.of)
      BY <1>4, <2>1 DEF Takes, BullMQTakes
    <2>3. ServiceStep
      BY <1>0, <1>1, <1>6, <1>7 DEF ServiceStep, Typed
    <2> QED
      BY <1>3, <1>4, <1>5, <1>6, <1>7, <2>2, <2>3
  <1>8. CASE adapter \in Locking /\ Processed(f) /\ UNCHANGED failed
    <2>1. /\ copy' \in [Messages -> {"none", "ready", "held", "acked", "discarded", "gone"}]
          /\ \A m \in Messages : CopyMeant(m)
          /\ ~Current(f.of)'
      BY <1>0, <1>3, <1>8, TakenFact
    <2>2. ServiceStep
      BY <1>0, <1>1, <1>8, <2>1 DEF ServiceStep, Typed
    <2> QED
      BY <1>3, <1>4, <1>5, <2>1, <2>2
  <1>9. CASE /\ adapter \in Locking /\ UNCHANGED copy
             /\ failed' = failed \cup {d \in {f.of} : Current(d)}
    <2>1. /\ failed \subseteq failed' /\ failed' \subseteq Deliveries
          /\ Current(f.of) => f.of \in failed'
      BY <1>1, <1>4, <1>9 DEF Typed
    <2>2. ServiceStep
      BY <1>0, <1>6, <1>9, <2>1 DEF ServiceStep
    <2> QED
      BY <1>3, <1>4, <1>5, <1>6, <1>9, <2>1, <2>2
  <1> QED
    BY <1>7, <1>8, <1>9 DEF Turned, Rejected, Fails

(* A settlement that is turned down and dropped keeps the invariant. *)
LEMMA HeadDroppedInv ==
  ASSUME SettlingAssumption, Inv, NEW c \in Consumers, Turned(c), NEW f, f = Head(sent[c]),
         sent' = [sent EXCEPT ![c] = Tail(@)],
         adapter = "bullmq" => f.by # "throw"
  PROVE  Inv'
  <1>1. Typed
    BY DEF Inv
  <1>3. /\ ServiceStep
        /\ \/ adapter = "bullmq" /\ f.by = "handler"
           \/ ~Current(f.of)'
           \/ f.of \in failed'
        /\ 1 \in 1..Len(sent[c]) /\ f = sent[c][1]
        /\ Tail(sent[c]) \in Seq(Frames) /\ Less(sent[c], 1, Tail(sent[c]))
    BY TurnedFact
  <1>4. Follows(sent[c], Tail(sent[c]), {f}, {})
    BY <1>3, LessFollows
  <1>5. /\ sent' \in [Consumers -> Seq(Frames)] /\ sent'[c] = Tail(sent[c])
        /\ \A e \in Consumers : e # c => sent'[e] = sent[e]
    BY <1>1, <1>3 DEF Typed
  <1>6. Dropped({}, f)
    BY <1>3 DEF Dropped
  <1>7. \A g \in {f} : Dropped({}, g)
    BY <1>6
  <1>8. PICK G, N : G = {f} /\ N = {}
    OBVIOUS
  <1>9. /\ Follows(sent[c], sent'[c], G, N)
        /\ \A g \in G : Dropped(N, g)
        /\ \A g \in N : NewMeant(c, g)
    BY <1>4, <1>5, <1>7, <1>8
  <1> QED
    BY <1>3, <1>5, <1>9, ProcessedInv

(* A settlement that is turned down and followed by another keeps the invariant. *)
LEMMA HeadReplacedInv ==
  ASSUME SettlingAssumption, Inv, NEW c \in Consumers, Turned(c), NEW f, f = Head(sent[c]),
         NEW g, sent' = [sent EXCEPT ![c] = Tail(@) \o <<g>>], g \in Frames, g.of = f.of,
         \/ adapter = "servicebus" /\ g.op = "requeue"
         \/ adapter = "bullmq" /\ g.op = "discard" /\ g.by = "worker" /\ f.by = "throw"
  PROVE  Inv'
  <1>1. Typed
    BY DEF Inv
  <1>3. /\ ServiceStep
        /\ adapter = "bullmq" \/ ~Current(f.of)' \/ f.of \in failed'
        /\ 1 \in 1..Len(sent[c]) /\ f = sent[c][1] /\ Meant(f)
        /\ Tail(sent[c]) \in Seq(Frames) /\ Less(sent[c], 1, Tail(sent[c]))
    BY TurnedFact
  <1>2. UNCHANGED <<adapter, attempt, called, ended>>
    BY <1>3 DEF ServiceStep
  <1>4. Tail(sent[c]) \o <<g>> = Append(Tail(sent[c]), g)
    BY <1>3, AppendIsConcat
  <1>5. /\ Append(Tail(sent[c]), g) \in Seq(Frames)
        /\ Follows(sent[c], Append(Tail(sent[c]), g), {f}, {g})
    BY <1>1, <1>3, FrameFact, LessAppendFollows
  <1>6. /\ sent' \in [Consumers -> Seq(Frames)] /\ sent'[c] = Append(Tail(sent[c]), g)
        /\ \A e \in Consumers : e # c => sent'[e] = sent[e]
    BY <1>1, <1>4, <1>5 DEF Typed
  <1>7. Dropped({g}, f)
    BY <1>3 DEF Dropped
  <1>8. NewMeant(c, g)
    <2>1. f.of[2] <= attempt[f.of[1]] /\ (adapter = "bullmq" /\ f.by = "throw" => ended[f.of] = "throw")
      BY <1>3 DEF Meant
    <2>2. g.of[2] <= attempt'[g.of[1]]
      BY <1>2, <2>1
    <2>3. ASSUME g.op = "discard" \/ (adapter' = "activemq" /\ g.op = "requeue")
          PROVE  MayDiscard(g.of)'
      <3>1. adapter = "bullmq" /\ ended[g.of] = "throw"
        BY <1>2, <2>1, <2>3
      <3> QED
        BY <1>2, <3>1 DEF MayDiscard, DiscardMeant, DiscardedAgainst
    <2>4. adapter' = "bullmq" /\ g.by = "throw" => ended'[g.of] = "throw"
      BY <1>2
    <2>5. Meant(g)'
      BY <2>2, <2>3, <2>4 DEF Meant
    <2> QED
      BY <2>5 DEF NewMeant
  <1>9. (\A h \in {f} : Dropped({g}, h)) /\ (\A h \in {g} : NewMeant(c, h))
    BY <1>7, <1>8
  <1>10. PICK G, N : G = {f} /\ N = {g}
    OBVIOUS
  <1>11. /\ Follows(sent[c], sent'[c], G, N)
         /\ \A h \in G : Dropped(N, h)
         /\ \A h \in N : NewMeant(c, h)
    BY <1>5, <1>6, <1>9, <1>10
  <1> QED
    BY <1>3, <1>6, <1>11, ProcessedInv

(* Every refusal of the services keeps the invariant. *)
LEMMA RefusedInv ==
  ASSUME SettlingAssumption, Inv, NEW c \in Consumers,
         RefusedServiceBus(c) \/ RefusedBullMQ(c) \/ Ignored(c)
  PROVE  Inv'
  <1>1. PICK f : f = Head(sent[c])
    OBVIOUS
  <1>2. Turned(c)
    BY DEF RefusedServiceBus, RefusedBullMQ, Ignored, Turned, Locking
  <1>3. /\ f \in Frames /\ Tail(sent[c]) \in Seq(Frames)
    BY <1>1, <1>2, TurnedFact
  <1>4. Tail(sent[c]) \o <<>> = Tail(sent[c])
    BY <1>3, ConcatEmptySeq
  <1>5. CASE Ignored(c)
    <2>1. sent' = [sent EXCEPT ![c] = Tail(@)] /\ adapter # "bullmq"
      BY <1>5 DEF Ignored
    <2> QED
      BY <1>1, <1>2, <2>1, HeadDroppedInv
  <1>6. CASE RefusedServiceBus(c)
    <2>1. adapter = "servicebus"
      BY <1>6 DEF RefusedServiceBus
    <2>2. CASE f.by = "return"
      <3>1. PICK g : g = [f EXCEPT !.op = "requeue", !.by = "throw"]
        OBVIOUS
      <3>2. g \in Frames /\ g.of = f.of /\ g.op = "requeue"
        BY <1>3, <3>1 DEF Frames, Settlements, Calls
      <3>3. sent' = [sent EXCEPT ![c] = Tail(@) \o <<g>>]
        BY <1>1, <1>6, <2>2, <3>1 DEF RefusedServiceBus
      <3> QED
        BY <1>1, <1>2, <2>1, <3>2, <3>3, HeadReplacedInv
    <2>3. CASE f.by # "return"
      <3>1. sent' = [sent EXCEPT ![c] = Tail(@) \o <<>>]
        BY <1>1, <1>6, <2>3 DEF RefusedServiceBus
      <3>2. sent' = [sent EXCEPT ![c] = Tail(@)]
        BY <1>4, <3>1
      <3> QED
        BY <1>1, <1>2, <2>1, <3>2, HeadDroppedInv
    <2> QED
      BY <2>2, <2>3
  <1>7. CASE RefusedBullMQ(c)
    <2>1. adapter = "bullmq"
      BY <1>7 DEF RefusedBullMQ
    <2>2. CASE f.by = "throw"
      <3>1. PICK g : g = [f EXCEPT !.op = "discard", !.by = "worker"]
        OBVIOUS
      <3>2. g \in Frames /\ g.of = f.of /\ g.op = "discard" /\ g.by = "worker"
        BY <1>3, <3>1 DEF Frames, Settlements, Calls
      <3>3. sent' = [sent EXCEPT ![c] = Tail(@) \o <<g>>]
        BY <1>1, <1>7, <2>2, <3>1 DEF RefusedBullMQ
      <3> QED
        BY <1>1, <1>2, <2>1, <2>2, <3>2, <3>3, HeadReplacedInv
    <2>3. CASE f.by # "throw"
      <3>1. sent' = [sent EXCEPT ![c] = Tail(@) \o <<>>]
        BY <1>1, <1>7, <2>3 DEF RefusedBullMQ
      <3>2. sent' = [sent EXCEPT ![c] = Tail(@)]
        BY <1>4, <3>1
      <3> QED
        BY <1>1, <1>2, <2>3, <3>2, HeadDroppedInv
    <2> QED
      BY <2>2, <2>3
  <1> QED
    BY <1>5, <1>6, <1>7

-----------------------------------------------------------------------------
(* Every step *)

(* A stuttering step keeps the invariant. *)
LEMMA StutterInv ==
  ASSUME SettlingAssumption, Inv, UNCHANGED vars
  PROVE  Inv'
  <1>1. UNCHANGED <<adapter, consumer, copy, attempt, holder, inbox, handling, called, ended,
                    sent, failed>>
    BY DEF vars, service, callback
  <1>2. Typed'
    BY <1>1 DEF Inv, Typed
  <1>3. \A e \in Consumers : QuietAt(e)
    BY <1>1, QuietWhenSame
  <1>4. Quiet
    BY <1>1, <1>3 DEF Quiet
  <1> QED
    BY <1>2, <1>4, QuietInv

(* Every step keeps the invariant. *)
LEMMA NextInv ==
  ASSUME SettlingAssumption, Inv, [Next]_vars
  PROVE  Inv'
  <1>1. ASSUME NEW m \in Messages, Publish(m) \/ LockExpires(m)
        PROVE  Inv'
    BY <1>1, PublishInv, LockExpiresInv
  <1>2. ASSUME NEW c \in Consumers, Subscribe(c)
        PROVE  Inv'
    <2>1. Subscribing(c)
      BY <1>2 DEF Subscribe, SubscribeServiceBus, SubscribeActiveMQ, SubscribeNats,
                  SubscribePulsar, SubscribeBullMQ, SubscribeZeroMQ
    <2> QED
      BY <2>1, ConsumerInv
  <1>3. ASSUME NEW c \in Consumers, Close(c) \/ Crash(c)
        PROVE  Inv'
    <2>1. Gone(c) \/ Drains(c)
      BY <1>3 DEF Close, Crash, CloseServiceBus, ClosePulsar, DrainNats, DrainBullMQ, CloseDrained
    <2> QED
      BY <2>1, GoneInv, ConsumerInv
  <1>4. ASSUME NEW c \in Consumers, NEW m \in Messages, Deliver(c, m)
        PROVE  Inv'
    BY <1>4, DeliverInv
  <1>5. ASSUME NEW c \in Consumers, Start(c)
        PROVE  Inv'
    <2>1. Begin(c)
      BY <1>5 DEF Start, StartServiceBus, StartActiveMQ, StartNats, StartPulsar, StartBullMQ,
                  StartZeroMQ
    <2> QED
      BY <2>1, BeginInv
  <1>6. ASSUME NEW c \in Consumers, BodyFailure(c)
        PROVE  Inv'
    <2>1. CASE ReadFailureActiveMQ(c)
      BY <2>1, ReadFailureInv
    <2>2. CASE ParseFailureActiveMQ(c)
      BY <2>2, GoneInv DEF ParseFailureActiveMQ
    <2>3. CASE ParseFailureNats(c)
      <3>1. LoopEnds(c, "ended") /\ inbox' = [inbox EXCEPT ![c] = <<>>]
        BY <2>3 DEF ParseFailureNats
      <3> QED
        BY <3>1, LoopEndsInv
    <2>4. CASE ParseFailurePulsar(c) \/ ParseFailureZeroMQ(c)
      <3>1. LoopEnds(c, "stalled") /\ inbox' = [inbox EXCEPT ![c] = Tail(@)]
        BY <2>4 DEF ParseFailurePulsar, ParseFailureZeroMQ
      <3> QED
        BY <3>1, LoopEndsInv
    <2> QED
      BY <1>6, <2>1, <2>2, <2>3, <2>4 DEF BodyFailure
  <1>7. ASSUME NEW c \in Consumers, Settle(c)
        PROVE  Inv'
    <2>1. CASE RefusedActiveMQ(c)
      BY <2>1, GoneInv DEF RefusedActiveMQ
    <2> QED
      BY <1>7, <2>1, AcceptedInv, RefusedInv DEF Settle
  <1>8. ASSUME NEW c \in Consumers, NEW d \in handling[c], Handler(c, d)
        PROVE  Inv'
    <2>1. ASSUME NEW call \in Settlements, HandlerCall(c, d, call)
          PROVE  Inv'
      BY <2>1, HandlerCallInv
    <2>2. "ack" \in Settlements /\ "requeue" \in Settlements
      BY DEF Settlements, Calls
    <2>3. CASE HandlerReturn(c, d)
      <3>1. HandlerEnds(c, d, "return") /\ AdapterSettles(c, d, "ack", "return")
        BY <2>3 DEF HandlerReturn
      <3> QED
        BY <2>2, <3>1, EndsInv
    <2>4. CASE HandlerThrow(c, d)
      <3>1. HandlerEnds(c, d, "throw") /\ AdapterSettles(c, d, "requeue", "throw")
        BY <2>4 DEF HandlerThrow
      <3> QED
        BY <2>2, <3>1, EndsInv
    <2> QED
      BY <1>8, <2>1, <2>3, <2>4 DEF Handler
  <1> QED
    BY <1>1, <1>2, <1>3, <1>4, <1>5, <1>6, <1>7, <1>8, StutterInv DEF Next

(* The inductive invariant holds in every reachable state. *)
LEMMA Invariant ==
  Spec => []Inv
  <1>1. Init => Inv
    BY SettlingAssumption, InitInv
  <1>2. Inv /\ [Next]_vars => Inv'
    BY SettlingAssumption, NextInv
  <1> QED
    BY <1>1, <1>2, PTL DEF Spec

-----------------------------------------------------------------------------
(* Every variable keeps its type; a delivery whose handler runs has not ended,
   has been made, and does not wait any more (the callbacks of the six adapters, as
   azure_service_bus/src/index.ts:130-147). *)
THEOREM TypeCorrect == Spec => []TypeOK
  <1>1. Inv => TypeOK
    BY TypeFromParts DEF Inv
  <1> QED
    BY <1>1, Invariant, PTL

(* A message leaves the group for good only if one of its handlers meant it to, or in
   one of the named ways in which an adapter goes against the interface: with ActiveMQ
   nack(false) acks, and a nack or a throw may move to the dead-letter queue; with
   Pulsar and BullMQ the return of a handler overrules its nack; with BullMQ a throw
   fails the job, and so does a second stall; with Service Bus a return overrules a
   nack whose request has failed. With NATS there is no such way, and with Service Bus
   none while no request of a settlement fails (azure_service_bus/src/index.ts:135-147,
   nats/src/index.ts:165-175, bullmq/src/index.ts:117-132). *)
THEOREM SettlesAsMeant == Spec => []SettledAsMeant
  <1>1. Inv => SettledAsMeant
    BY DEF Inv
  <1> QED
    BY <1>1, Invariant, PTL

(* What a running consumer holds waits for the callback, has a handler, or its
   settlement is under way, unless a settlement of it has failed or was lost, and then
   it has a lock that runs out (nats/src/index.ts:165-175,
   azure_service_bus/src/index.ts:135-147, pulsa/src/index.ts:100-121). *)
THEOREM ForgetsNothing == Spec => []NothingForgotten
  <1>1. ASSUME Inv, NEW m \in Messages, copy[m] = "held",
               consumer[holder[m]] \in {"open", "draining"}
        PROVE  InHand(m) \/ (adapter \in Locking /\ <<m, attempt[m]>> \in failed)
    <2>1. InHands(holder[m], <<m, attempt[m]>>) \/ <<m, attempt[m]>> \in failed
      BY <1>1 DEF Inv, Held, HeldOnce
    <2>2. holder[m] \in Consumers /\ (failed # {} => adapter \in Locking)
      BY <1>1 DEF Inv, Typed
    <2>3. DOMAIN sent[holder[m]] = 1..Len(sent[holder[m]])
      BY <1>1, <2>2, FrameFact, LenProperties DEF Inv
    <2>4. InHands(holder[m], <<m, attempt[m]>>) => InHand(m)
      BY <2>3 DEF InHands, At, HasOwn, InHand
    <2> QED
      BY <2>1, <2>2, <2>4
  <1>2. Inv => NothingForgotten
    BY <1>1 DEF NothingForgotten
  <1> QED
    BY <1>2, Invariant, PTL
=============================================================================
